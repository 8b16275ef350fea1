------------------------------ MODULE Migrations ------------------------------
(***************************************************************************)
(* The database over the releases: alembic runs chains of upgrades or      *)
(* downgrades, each chain one transaction (env.py), and the application    *)
(* goes on writing between them.  A deployment migrates while the former   *)
(* release still serves and restarts the service afterwards                *)
(* (deploy_release.sh), so the release that writes may not be the one of   *)
(* the schema.  Of the data the model keeps what the revisions touch: the  *)
(* requests' numbers and sizes, and the rows of sessions.                  *)
(***************************************************************************)
EXTENDS SchemaSteps, Integers, FiniteSetsExt

CONSTANTS User, Time, Null,
          Targets,       \* bound: the revisions that chains lead to
          MaxRows        \* bound: the requests, and the session rows, there may be

ASSUME MigrationAssumption ==
  /\ Time \subseteq Nat /\ Null \notin Nat \cup User /\ MaxRows \in Nat
  /\ Targets \subseteq 0..Newest

VARIABLES db,        \* revision, schema and data, as the open transaction sees them
          run,       \* the chain that alembic is running, or Null
          release,   \* the revision that the serving application was written for
          trouble,   \* why the last step did not go through
          mixed      \* history variable: a release wrote on the schema of another
                     \* revision, between a migration and the restart

vars == <<db, run, release, trouble, mixed>>

OldReasons == {"EXPLICIT_LOGOUT", "INACTIVITY_TIMEOUT"}
NewReasons == {"USER_SIGNED_OUT", "SESSION_TIMED_OUT"}
Row == [user : User, login : Time \cup {Null}, beat : Time \cup {Null},
        reason : OldReasons \cup NewReasons \cup {Null}, owner : User \cup {Null}, born : 0..Newest]

TypeOK ==
  /\ db.rev \in 0..Newest
  /\ db.requests \subseteq [n : Nat \ {0}, visitors : {1, 2}]
  /\ db.rows \subseteq Row
  /\ db.next \in Nat \cup {Null} /\ (db.next # Null <=> db.rev >= 22)
  /\ run # Null => run.target \in 0..Newest /\ run.saved.rev \in 0..Newest
  /\ release \in 0..Newest
  /\ trouble \in {"", "schema", "data"}
  /\ mixed \in BOOLEAN

Empty == [rev |-> 0, cols |-> {}, marks |-> {}, requests |-> {}, rows |-> {}, next |-> Null]

Init ==
  /\ db = Empty /\ run = Null /\ release = 0 /\ trouble = "" /\ mixed = FALSE

-----------------------------------------------------------------------------
(* The effect of one revision on the schema.  Dropping a table or a column *)
(* drops its indexes and constraints with it.                              *)
Kept(s, ch) == {k \in s.cols : k.t \notin ch.gone /\ <<k.t, k.c>> \notin ch.drop}
KeptMarks(s, ch) ==
  {k \in s.marks \ ch.off : k.t \notin ch.gone /\ <<k.t, k.c>> \notin ch.drop}

(* Everything dropped is there, nothing added is, and no table goes that a *)
(* foreign key still points to.                                            *)
Applicable(s, ch) ==
  /\ ch.drop \subseteq Names(s.cols) /\ ch.off \subseteq s.marks
  /\ ch.gone \subseteq {k.t : k \in s.cols}
  /\ Names(ch.add) \cap Names(Kept(s, ch)) = {}
  /\ ch.on \cap KeptMarks(s, ch) = {}
  /\ \A k \in KeptMarks(s, ch) : k.to \notin ch.gone
  /\ \A k \in ch.on : k.kind = "fk" => \E col \in Kept(s, ch) \cup ch.add : col.t = k.to

Applied(s, ch) ==
  [s EXCEPT !.cols = Kept(s, ch) \cup ch.add, !.marks = KeptMarks(s, ch) \cup ch.on]

(* The schema of each revision, got by upgrades alone.                     *)
SchemaAt[r \in 0..Newest] ==
  IF r = 0 THEN Empty ELSE [Applied(SchemaAt[r - 1], Ups[r]) EXCEPT !.rev = r]
Chain == [r \in 0..Newest |-> SchemaAt[r]]

-----------------------------------------------------------------------------
(* The effect of the revisions on the data.                                *)
SinceLogin(rows, e) ==
  {b.beat : b \in {x \in rows : /\ x.login = Null /\ x.user = e.user
                                /\ x.beat # Null /\ x.beat >= e.login}}

(* Mutant: all heartbeat rows are removed.                                 *)
MergeAll(rows) ==
  {IF SinceLogin(rows, e) = {} THEN e ELSE [e EXCEPT !.beat = Max(SinceLogin(rows, e))] :
     e \in {x \in rows : x.login # Null}}

(* Heartbeats since a login become its latest heartbeat; others stay.      *)
Merge(rows) ==
  LET logins == {e \in rows : e.login # Null}
      orphan(b) == ~\E e \in logins : e.user = b.user /\ e.login <= b.beat
  IN {IF SinceLogin(rows, e) = {} THEN e
      ELSE [e EXCEPT !.beat = Max(SinceLogin(rows, e))] : e \in logins}
     \cup {b \in rows \ logins : orphan(b)}

(* A row is a login or a heartbeat again, and not both.                    *)
Split(rows) == {IF e.login # Null THEN [e EXCEPT !.beat = Null] ELSE e : e \in rows}

Reworded(rows, words) ==
  {IF e.reason \in DOMAIN words THEN [e EXCEPT !.reason = words[e.reason]] ELSE e : e \in rows}
Readable == [w \in OldReasons |->
  IF w = "EXPLICIT_LOGOUT" THEN "USER_SIGNED_OUT" ELSE "SESSION_TIMED_OUT"]
(* Mutant: a downgrade leaves the reasons as they are.                     *)
FormerUnchanged == [w \in NewReasons |-> w]
Former == [w \in NewReasons |->
  IF w = "USER_SIGNED_OUT" THEN "EXPLICIT_LOGOUT" ELSE "INACTIVITY_TIMEOUT"]

Disowned(rows) == {[e EXCEPT !.owner = Null] : e \in rows}
(* Mutant: owners are filled in for the rows there are.                    *)
OwnedByEmail(rows) == {[e EXCEPT !.owner = e.user] : e \in rows}
(* The columns are added as NULL.                                          *)
Unowned(rows) == Disowned(rows)

(* Mutant: the sequence starts at the number given last.                   *)
LastNumber(requests) ==
  Max({q.n : q \in requests} \cup {1})

(* setval(..., max + 1, false)                                             *)
FirstNumber(requests) ==
  Max({q.n : q \in requests} \cup {0}) + 1

UpData(d, r) ==
  CASE r = 15 -> [d EXCEPT !.rows = Merge(d.rows)]
    [] r = 18 -> [d EXCEPT !.rows = {}]
    [] r = 21 -> [d EXCEPT !.rows = Reworded(d.rows, Readable)]
    [] r = 22 -> [d EXCEPT !.next = FirstNumber(d.requests)]
    [] r = 23 -> [d EXCEPT !.rows = Unowned(d.rows)]
    [] OTHER -> d

DownData(d, r) ==
  CASE r = 3 -> [d EXCEPT !.requests = {}]
    [] r = 12 -> [d EXCEPT !.rows = {}]
    [] r = 14 -> [d EXCEPT !.rows = Split(d.rows)]
    [] r = 18 -> [d EXCEPT !.rows = {}]
    [] r = 21 -> [d EXCEPT !.rows = Reworded(d.rows, Former)]
    [] r = 22 -> [d EXCEPT !.next = Null]
    [] r = 23 -> [d EXCEPT !.rows = Disowned(d.rows)]
    [] OTHER -> d

(* A unique constraint on request_id cannot be made over larger parties.   *)
Fits(d, r) == r # 8 \/ \A q \in d.requests : q.visitors = 1

-----------------------------------------------------------------------------
StartRun(target) ==
  /\ run = Null /\ target # db.rev
  /\ run' = [target |-> target, saved |-> db]
  /\ trouble' = ""
  /\ UNCHANGED <<db, release, mixed>>

(* A failed step, or a lost connection, undoes the whole chain.            *)
Undo(why) == db' = run.saved /\ run' = Null /\ trouble' = why

Upgrade ==
  /\ run # Null /\ db.rev < run.target
  /\ LET r == db.rev + 1
     IN IF ~Applicable(db, Ups[r]) THEN Undo("schema")
        ELSE /\ db' = [Applied(UpData(db, r), Ups[r]) EXCEPT !.rev = r]
             /\ UNCHANGED <<run, trouble>>
  /\ UNCHANGED <<release, mixed>>

(* Mutant: the constraint comes back whatever the parties' sizes.          *)
DowngradeRegardless ==
  /\ run # Null /\ db.rev > run.target
  /\ db' = [Applied(DownData(db, db.rev), Downs[db.rev]) EXCEPT !.rev = db.rev - 1]
  /\ UNCHANGED <<run, trouble, release, mixed>>

Downgrade ==
  /\ run # Null /\ db.rev > run.target
  /\ IF ~Applicable(db, Downs[db.rev]) THEN Undo("schema")
     ELSE IF ~Fits(db, db.rev) THEN Undo("data")
     ELSE /\ db' = [Applied(DownData(db, db.rev), Downs[db.rev]) EXCEPT !.rev = db.rev - 1]
          /\ UNCHANGED <<run, trouble>>
  /\ UNCHANGED <<release, mixed>>

CommitRun ==
  /\ run # Null /\ db.rev = run.target
  /\ run' = Null
  /\ UNCHANGED <<db, release, trouble, mixed>>

LoseRun ==
  /\ run # Null /\ Undo("")
  /\ UNCHANGED <<release, mixed>>

(* systemctl restart: the release of the schema serves from now on.        *)
Restart ==
  /\ run = Null /\ release # db.rev /\ release' = db.rev
  /\ UNCHANGED <<db, run, trouble, mixed>>

-----------------------------------------------------------------------------
Writes == run = Null /\ mixed' = (mixed \/ release # db.rev)

(* generate_request_number; the release before took the count of all       *)
(* requests and one (PEER_REVIEW_FINDINGS.md:108).  A number that exists   *)
(* is refused, but is gone from the sequence.                              *)
Number == IF release >= 22 THEN db.next ELSE Cardinality(db.requests) + 1

Submit(visitors) ==
  /\ Writes /\ release >= 3 /\ db.rev >= 3 /\ Cardinality(db.requests) < MaxRows
  /\ release >= 22 => db.rev >= 22
  /\ visitors > 1 => release >= 8 /\ db.rev >= 8
  /\ LET stored == IF \E q \in db.requests : q.n = Number THEN {}
                   ELSE {[n |-> Number, visitors |-> visitors]}
     IN db' = [db EXCEPT !.requests = db.requests \cup stored,
                         !.next = IF release >= 22 THEN db.next + 1 ELSE db.next]
  /\ UNCHANGED <<run, release, trouble>>

(* The releases whose rows of sessions have one shape.                     *)
Shape(r) == IF r < 12 THEN "none" ELSE IF r < 18 THEN "events"
            ELSE IF r < 23 THEN "sessions" ELSE "owned"

Moments(e) == {e.login, e.beat} \ {Null}

(* Rows are written in the order of their times.                           *)
WriteRow(e) ==
  /\ Writes /\ Shape(release) = Shape(db.rev) /\ Cardinality(db.rows) < MaxRows
  /\ \A d \in db.rows, t \in Moments(e) : \A u \in Moments(d) : u <= t
  /\ db' = [db EXCEPT !.rows = db.rows \cup {e}]
  /\ UNCHANGED <<run, release, trouble>>

(* Before revision 18 a login and each heartbeat was a row of its own.     *)
Event(u, t) ==
  /\ Shape(release) = "events"
  /\ \E login \in BOOLEAN :
       WriteRow([user |-> u, login |-> IF login THEN t ELSE Null,
                 beat |-> IF login THEN Null ELSE t, reason |-> Null, owner |-> Null,
                 born |-> release])

OpenSession(u, t) ==
  /\ Shape(release) \in {"sessions", "owned"}
  /\ WriteRow([user |-> u, login |-> t, beat |-> t, reason |-> Null,
               owner |-> IF Shape(release) = "owned" THEN u ELSE Null, born |-> release])

EndSession(e) ==
  /\ Writes /\ Shape(release) \in {"sessions", "owned"} /\ Shape(db.rev) = Shape(release)
  /\ e.reason = Null
  /\ \E why \in IF release < 21 THEN OldReasons ELSE NewReasons :
       db' = [db EXCEPT !.rows = (db.rows \ {e}) \cup {[e EXCEPT !.reason = why]}]
  /\ UNCHANGED <<run, release, trouble>>

Next ==
  \/ \E target \in Targets : StartRun(target)
  \/ Upgrade \/ Downgrade \/ CommitRun \/ LoseRun \/ Restart
  \/ \E visitors \in {1, 2} : Submit(visitors)
  \/ \E u \in User, t \in Time : Event(u, t) \/ OpenSession(u, t)
  \/ \E e \in db.rows : EndSession(e)

Spec == Init /\ [][Next]_vars

-----------------------------------------------------------------------------
(* Every revision finds what it changes, and nothing it creates, whatever  *)
(* upgrades and downgrades went before.                                    *)
ChainApplies == trouble # "schema"

(* The schema depends on the revision alone: a downgrade takes back all    *)
(* that its upgrade did, however often the database went up and down.      *)
SchemaFollowsRevision ==
  db.cols = Chain[db.rev].cols /\ db.marks = Chain[db.rev].marks

(* At the head the database has exactly the columns, indexes and           *)
(* constraints that the ORM models declare, wherever it came from.         *)
HeadServesModels == db.rev = Newest => db.cols = Models /\ db.marks = ModelMarks

(* No order of upgrades and downgrades leaves a schema that is not the     *)
(* revision's, or that the next chain cannot work on.                      *)
SchemaSound == ChainApplies /\ SchemaFollowsRevision /\ HeadServesModels

(* Under the constraint of the first releases no request has a party: a    *)
(* downgrade across revision 8 stops at one, and nothing of it remains.    *)
PartiesFitTheRevision == db.rev < 8 => \A q \in db.requests : q.visitors = 1

(* From revision 22 on the sequence is ahead of every number given, unless *)
(* the former release went on counting after the migration.                *)
NumbersAhead ==
  db.rev >= 22 /\ ~mixed => \A q \in db.requests : q.n < db.next

(* From revision 23 on a session has an owner only if it was opened by a   *)
(* release that recorded owners: rows from before cannot authorise.        *)
LegacyNeverOwned ==
  \A e \in db.rows : e.owner # Null => db.rev >= 23 /\ e.born >= 23

(* From revision 21 on every reason is one of the readable ones, and below *)
(* it none is, unless a release wrote between a migration and its restart. *)
ReasonsFollowRevision ==
  ~mixed => \A e \in db.rows :
    e.reason \in (IF db.rev >= 21 THEN NewReasons ELSE OldReasons) \cup {Null}

(* What the rows rely on holds at every revision reached, up or down.      *)
DataFitsRevision ==
  PartiesFitTheRevision /\ NumbersAhead /\ LegacyNeverOwned /\ ReasonsFollowRevision

(* Merging the heartbeat rows keeps when each user was last seen.          *)
LastSeen(rows, u) ==
  Max({-1} \cup UNION {Moments(e) : e \in {x \in rows : x.user = u}})
MergeKeepsLastSeen ==
  [][db.rev = 14 /\ db'.rev = 15 =>
       \A u \in User : LastSeen(db'.rows, u) = LastSeen(db.rows, u)]_vars
=============================================================================
