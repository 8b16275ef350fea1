----------------------------- MODULE AppSession -----------------------------
(***************************************************************************)
(* Application sessions (session_events/service.py, the session check of   *)
(* core/dependencies.py and the endpoints of auth/router.py): rows of      *)
(* `user_session_events` that handlers and the timeout worker read and     *)
(* write under row locks, against a clock that moves between any two of    *)
(* their statements.  SELECT ... FOR UPDATE, commit and rollback are as in *)
(* VisitWorkflow.                                                          *)
(*                                                                         *)
(* A protected call keeps its session row locked from the session check    *)
(* until its own transaction ends, because the dependency and the handler  *)
(* share one database session (get_db); "business" stands for all of them. *)
(***************************************************************************)
EXTENDS Integers

CONSTANTS Session,    \* ids of session rows
          Legacy,     \* rows from before idle tracking: no owner, no activity
          User,       \* token subjects
          Handler,    \* threads serving HTTP requests
          Worker,     \* session-timeout workers
          Timeout,    \* SESSION_TIMEOUT
          MaxTime,    \* bound: the last clock value explored
          None

ASSUME SessionAssumption ==
  /\ Legacy \subseteq Session
  /\ Handler \cap Worker = {}
  /\ None \notin User \cup Handler \cup Worker \cup Session
ASSUME TimeAssumption == Timeout \in Nat \ {0} /\ MaxTime \in Nat

Proc == Handler \cup Worker
Null == -1            \* SQL NULL in a time column

VARIABLES now,        \* the clock
          owner,      \* actor_subject, None before insert and on legacy rows
          activity,   \* last_activity_at
          ended,      \* ended_at
          reason,     \* reason, None while open
          lock,       \* transaction holding FOR UPDATE on each row
          job         \* what each handler and each worker is doing

rows == <<owner, activity, ended, reason>>
vars == <<rows, now, lock, job>>

CheckedOp == {"heartbeat", "activity", "business"}
Op == CheckedOp \cup {"start", "end"}
Reasons == {"SESSION_TIMED_OUT", "USER_SIGNED_OUT"}

ASSUME NoneAssumption == None \notin Op

Idle == [pc |-> "idle", op |-> None, user |-> None, session |-> None,
         at |-> 0, todo |-> {}, marked |-> {}]

JobType == [pc : {"idle", "sweep", "scan", "mark", "lock", "check", "stamp", "commit"},
            op : Op \cup {None}, user : User \cup {None}, session : Session \cup {None},
            at : Nat, todo : SUBSET Session, marked : SUBSET Session]

TypeOK ==
  /\ now \in Nat
  /\ owner \in [Session -> User \cup {None}]
  /\ activity \in [Session -> Nat \cup {Null}]
  /\ ended \in [Session -> Nat \cup {Null}]
  /\ reason \in [Session -> Reasons \cup {None}]
  /\ lock \in [Session -> Proc \cup {None}]
  /\ job \in [Proc -> JobType]

Init ==
  /\ now = 0
  /\ owner = [s \in Session |-> None]
  /\ activity = [s \in Session |-> Null]
  /\ ended = [s \in Session |-> Null]
  /\ reason = [s \in Session |-> None]
  /\ lock = [s \in Session |-> None]
  /\ job = [p \in Proc |-> Idle]

Tick ==
  /\ now < MaxTime
  /\ now' = now + 1
  /\ UNCHANGED <<rows, lock, job>>

Goto(p, pc) == job' = [job EXCEPT ![p].pc = pc]

Release(p) == lock' = [s \in Session |-> IF lock[s] = p THEN None ELSE lock[s]]

Done(p) == job' = [job EXCEPT ![p] = Idle] /\ Release(p)

-----------------------------------------------------------------------------
(* expire_inactive_sessions, run by the worker every minute and by         *)
(* handlers that start or end a session.  A legacy row's last_seen_at is   *)
(* instant 0 and never moves: no call can touch the row.                   *)

Inserted(s) == owner[s] # None \/ s \in Legacy
Stale(s, at) ==
  /\ Inserted(s) /\ ended[s] = Null
  /\ IF activity[s] = Null THEN Timeout <= at ELSE activity[s] + Timeout <= at

WorkerWakes(w) ==
  /\ job[w].pc = "idle"
  /\ Goto(w, "sweep")
  /\ UNCHANGED <<rows, now, lock>>

SweepClock(p) ==
  /\ job[p].pc = "sweep"
  /\ job' = [job EXCEPT ![p].pc = "scan", ![p].at = now]
  /\ UNCHANGED <<rows, now, lock>>

(* Mutant: rows without activity are not considered.                       *)
SweepScanTracked(p) ==
  /\ job[p].pc = "scan"
  /\ job' = [job EXCEPT ![p].pc = "mark",
       ![p].todo = {s \in Session : activity[s] # Null /\ Stale(s, job[p].at)}]
  /\ UNCHANGED <<rows, now, lock>>

SweepScan(p) ==
  /\ job[p].pc = "scan"
  /\ job' = [job EXCEPT ![p].pc = "mark",
                        ![p].todo = {s \in Session : Stale(s, job[p].at)}]
  /\ UNCHANGED <<rows, now, lock>>

(* Mutant: the row the scan saw is marked (no second look under the lock). *)
SweepMarkStale(p, s) ==
  /\ job[p].pc = "mark" /\ s \in job[p].todo
  /\ lock[s] = None
  /\ lock' = [lock EXCEPT ![s] = p]
  /\ job' = [job EXCEPT ![p].todo = @ \ {s}, ![p].marked = @ \cup {s}]
  /\ UNCHANGED <<rows, now>>

(* The row is locked, and its condition is evaluated again on the version  *)
(* the lock returns: activity committed since the scan keeps it open.      *)
SweepMark(p, s) ==
  /\ job[p].pc = "mark" /\ s \in job[p].todo
  /\ lock[s] = None
  /\ lock' = [lock EXCEPT ![s] = p]
  /\ job' = [job EXCEPT ![p].todo = @ \ {s},
                        ![p].marked = IF Stale(s, job[p].at) THEN @ \cup {s} ELSE @]
  /\ UNCHANGED <<rows, now>>

SweepSkip(p, s) ==
  /\ job[p].pc = "mark" /\ s \in job[p].todo
  /\ lock[s] # None
  /\ job' = [job EXCEPT ![p].todo = @ \ {s}]
  /\ UNCHANGED <<rows, now, lock>>

(* The sweep is a transaction of its own; its caller goes on after it.     *)
SweepCommit(p) ==
  LET S == job[p].marked IN
  /\ job[p].pc = "mark" /\ job[p].todo = {}
  /\ ended' = [s \in Session |-> IF s \in S THEN job[p].at ELSE ended[s]]
  /\ reason' = [s \in Session |-> IF s \in S THEN "SESSION_TIMED_OUT" ELSE reason[s]]
  /\ Release(p)
  /\ job' = [job EXCEPT ![p] =
       IF p \in Worker THEN Idle
       ELSE [Idle EXCEPT !.pc = IF job[p].op = "start" THEN "stamp" ELSE "lock",
                         !.op = job[p].op, !.user = job[p].user, !.session = job[p].session]]
  /\ UNCHANGED <<owner, activity, now>>

-----------------------------------------------------------------------------
(* The calls.                                                              *)

Call(h, o, u, s) ==
  /\ job[h].pc = "idle"
  /\ o = "start" => ~Inserted(s) /\ \A g \in Handler : job[g].op = "start" => job[g].session # s
  /\ o # "start" => Inserted(s)
  /\ job' = [job EXCEPT ![h] =
       [Idle EXCEPT !.pc = IF o \in CheckedOp THEN "lock" ELSE "sweep",
                    !.op = o, !.user = u, !.session = s]]
  /\ UNCHANGED <<rows, now, lock>>

(* Mutant: the session is read without FOR UPDATE.                         *)
LockSessionPlainRead(h) ==
  /\ job[h].pc = "lock"
  /\ owner[job[h].session] = job[h].user
  /\ Goto(h, IF job[h].op = "end" THEN "stamp" ELSE "check")
  /\ UNCHANGED <<rows, now, lock>>

(* get_actor_session finds, and waits for, a row of this subject only.     *)
LockSession(h) ==
  LET s == job[h].session IN
  /\ job[h].pc = "lock"
  /\ owner[s] = job[h].user
  /\ lock[s] = None
  /\ lock' = [lock EXCEPT ![s] = h]
  /\ Goto(h, IF job[h].op = "end" THEN "stamp" ELSE "check")
  /\ UNCHANGED <<rows, now>>

NotFound(h) ==
  /\ job[h].pc = "lock"
  /\ owner[job[h].session] # job[h].user
  /\ Done(h)
  /\ UNCHANGED <<rows, now>>

(* require_active_session: already over, over just now, or still active.   *)
Overdue(s) == activity[s] + Timeout <= now

CheckEnded(h) ==
  LET s == job[h].session IN
  /\ job[h].pc = "check"
  /\ ended[s] # Null \/ activity[s] = Null
  /\ Done(h)
  /\ UNCHANGED <<rows, now>>

CheckTimesOut(h) ==
  LET s == job[h].session IN
  /\ job[h].pc = "check"
  /\ ended[s] = Null /\ activity[s] # Null /\ Overdue(s)
  /\ ended' = [ended EXCEPT ![s] = now]
  /\ reason' = [reason EXCEPT ![s] = "SESSION_TIMED_OUT"]
  /\ Done(h)
  /\ UNCHANGED <<owner, activity, now>>

CheckPasses(h) ==
  LET s == job[h].session IN
  /\ job[h].pc = "check"
  /\ ended[s] = Null /\ activity[s] # Null /\ ~Overdue(s)
  /\ Goto(h, "stamp")
  /\ UNCHANGED <<rows, now, lock>>

(* Mutant: an ended session is ended again.                                 *)
StampAgain(h) ==
  /\ job[h].pc = "stamp"
  /\ job' = [job EXCEPT ![h].pc = "commit", ![h].at = now]
  /\ UNCHANGED <<rows, now, lock>>

(* The clock is read a second time for what will be written; a call that   *)
(* ends a session already over writes nothing.                             *)
Stamp(h) ==
  /\ job[h].pc = "stamp"
  /\ job[h].op = "end" => ended[job[h].session] = Null
  /\ job' = [job EXCEPT ![h].pc = "commit", ![h].at = now]
  /\ UNCHANGED <<rows, now, lock>>

AlreadyEnded(h) ==
  /\ job[h].pc = "stamp" /\ job[h].op = "end"
  /\ ended[job[h].session] # Null
  /\ Done(h)
  /\ UNCHANGED <<rows, now>>

CommitStart(h) ==
  LET s == job[h].session IN
  /\ job[h].pc = "commit" /\ job[h].op = "start"
  /\ owner' = [owner EXCEPT ![s] = job[h].user]
  /\ activity' = [activity EXCEPT ![s] = job[h].at]
  /\ Done(h)
  /\ UNCHANGED <<ended, reason, now>>

CommitActivity(h) ==
  /\ job[h].pc = "commit" /\ job[h].op = "activity"
  /\ activity' = [activity EXCEPT ![job[h].session] = job[h].at]
  /\ Done(h)
  /\ UNCHANGED <<owner, ended, reason, now>>

(* The client says why: signed out, or timed out by its own idle monitor.  *)
CommitEnd(h) ==
  LET s == job[h].session IN
  /\ job[h].pc = "commit" /\ job[h].op = "end"
  /\ ended' = [ended EXCEPT ![s] = job[h].at]
  /\ \E why \in Reasons : reason' = [reason EXCEPT ![s] = why]
  /\ Done(h)
  /\ UNCHANGED <<owner, activity, now>>

(* A heartbeat writes last_seen_at only, a protected call other tables.    *)
CommitOther(h) ==
  /\ job[h].pc = "commit" /\ job[h].op \in {"heartbeat", "business"}
  /\ Done(h)
  /\ UNCHANGED <<rows, now>>

(* An exception, a lost connection, the death of the process.              *)
Abort(p) ==
  /\ job[p].pc # "idle"
  /\ Done(p)
  /\ UNCHANGED <<rows, now>>

SweepStep(p) ==
  \/ SweepClock(p) \/ SweepScan(p) \/ SweepCommit(p)
  \/ \E s \in Session : SweepMark(p, s) \/ SweepSkip(p, s)

CallStep(h) ==
  \/ LockSession(h) \/ NotFound(h)
  \/ CheckEnded(h) \/ CheckTimesOut(h) \/ CheckPasses(h)
  \/ Stamp(h) \/ AlreadyEnded(h)
  \/ CommitStart(h) \/ CommitActivity(h) \/ CommitEnd(h) \/ CommitOther(h)

Next ==
  \/ Tick
  \/ \E h \in Handler, o \in Op, u \in User, s \in Session : Call(h, o, u, s)
  \/ \E h \in Handler : CallStep(h)
  \/ \E w \in Worker : WorkerWakes(w)
  \/ \E p \in Proc : SweepStep(p) \/ Abort(p)

Spec == Init /\ [][Next]_vars

(* The worker's loop goes on for ever, and its failures are not permanent: *)
(* again and again a whole sweep gets through.                             *)
WorkerFairness ==
  \A w \in Worker : /\ WF_vars(WorkerWakes(w) \/ SweepStep(w))
                    /\ []<><<SweepCommit(w)>>_vars
WorkerSpec == Spec /\ WorkerFairness

-----------------------------------------------------------------------------
(* README.md:136: a protected call runs under a session of its own user    *)
(* that is open.  Once checked, the session stays open until the call has  *)
(* committed: neither a sign-out, nor a sweep, nor another call of the     *)
(* same session ends it in between.                                        *)
Holding(h) == job[h].op \in CheckedOp /\ job[h].pc \in {"stamp", "commit"}
OpenWhileInUse ==
  \A h \in Handler : Holding(h) =>
    LET s == job[h].session IN
    /\ lock[s] = h
    /\ owner[s] = job[h].user
    /\ activity[s] # Null
    /\ ended[s] = Null

(* A session ends for a cause: its own user asked for it, or the server    *)
(* found it idle for the whole timeout at the instant it records, even if  *)
(* the scan and its clock reading were old and activity came in meanwhile. *)
SessionsEndForCause ==
  [][\A s \in Session : ended[s] = Null /\ ended'[s] # Null =>
       \/ /\ reason'[s] = "SESSION_TIMED_OUT"
          /\ activity[s] # Null => activity[s] + Timeout <= ended'[s]
       \/ \E h \in Handler : /\ lock[s] = h /\ job[h].pc = "commit"
                            /\ job[h].op = "end" /\ job[h].user = owner[s]]_vars

(* API_ENDPOINTS.txt:30: activity cannot revive an ended session; nor does *)
(* a second end, by anybody, change when and why the first one happened.   *)
EndIsFinal ==
  [][\A s \in Session : ended[s] # Null =>
       ended'[s] = ended[s] /\ reason'[s] = reason[s] /\ activity'[s] = activity[s]]_vars

(* An idle session does not stay open: it is ended, unless its user's      *)
(* activity got in just before, provided calls do not hold its row for     *)
(* ever (the sweep skips a locked row).                                    *)
IdleSessionsEnd ==
  \A s \in Session :
    <>[](\A h \in Handler : lock[s] # h) => (Stale(s, now) ~> ~Stale(s, now))

=============================================================================
