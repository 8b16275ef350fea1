--------------------------- MODULE VisitWorkflow ---------------------------
(***************************************************************************)
(* The visitor workflow of the back end as PostgreSQL transactions: HTTP   *)
(* handlers (requests/router.py, security_portal/router.py) and background *)
(* workers (requests/expiry.py) that lock rows, read, validate against the *)
(* site clock, and commit or roll back, interleaved at every statement.    *)
(*                                                                         *)
(* READ COMMITTED with SELECT ... FOR UPDATE: taking a row lock waits for  *)
(* the holder and then reads the row as last committed, in one step; the   *)
(* writes of a transaction, its audit rows among them, become visible and  *)
(* its locks are released in one step at commit; a rollback (an exception, *)
(* a refused request, a lost connection, the death of the process) only    *)
(* releases the locks.                                                     *)
(***************************************************************************)
EXTENDS VisitData, Sequences

CONSTANTS Handler,    \* threads serving HTTP requests
          Worker,     \* visit-expiry workers (one per backend process)
          None        \* no lock owner, no row

ReviewOp == {"approve", "reject", "cancel"}
DoorOp == {"check_in", "check_out", "deny_entry"}
Op == {"submit"} \cup ReviewOp \cup DoorOp

ASSUME ProcAssumption ==
  /\ Handler \cap Worker = {}
  /\ None \notin Handler \cup Worker \cup Op

Proc == Handler \cup Worker

VARIABLES today,      \* site date (shared/time.py site_today)
          phase,      \* where the day is relative to the visit window
          req,        \* requests.status, as committed
          vis,        \* visitor_access_requests.visit_status, as committed
          reqTrail,   \* committed audit rows of each request, by new status
          visTrail,   \* committed audit rows of each visitor, by new status
          reqLock,    \* transaction holding FOR UPDATE on each request row
          visLock,    \* transaction holding FOR UPDATE on each visitor row
          job,        \* what each handler is doing, and what it has read
          sweep       \* what each expiry worker is doing, and what it has read

tables == <<req, vis, reqTrail, visTrail>>
locks == <<reqLock, visLock>>
clock == <<today, phase>>
vars == <<tables, locks, clock, job, sweep>>

Phases == {"before_arrival", "window", "after_departure"}

(* The status an operation writes; its audit action is named after it.     *)
Outcome == [submit |-> "SUBMITTED", approve |-> "APPROVED", reject |-> "REJECTED",
            cancel |-> "CANCELLED", check_in |-> "CHECKED_IN",
            check_out |-> "CHECKED_OUT", deny_entry |-> "DENIED_ENTRY"]

Idle == [pc |-> "idle", op |-> None, target |-> None, guest |-> None,
         seenReq |-> "NONE", seenVis |-> "NONE"]
Waiting == [pc |-> "waiting", day |-> 0, todo |-> {}, chosen |-> {}, lapsed |-> {}]

JobType == [pc : {"idle", "lock_request", "lock_visitor", "decide", "commit"},
            op : Op \cup {None},
            target : Request \cup {None}, guest : Visitor \cup {None},
            seenReq : RequestStatus, seenVis : VisitStatus]
SweepType == [pc : {"waiting", "scan", "lock", "visitors"}, day : Nat,
              todo : SUBSET Request, chosen : SUBSET Request, lapsed : SUBSET Visitor]

TypeOK ==
  /\ today \in Nat /\ phase \in Phases
  /\ req \in [Request -> RequestStatus]
  /\ vis \in [Visitor -> VisitStatus]
  /\ reqTrail \in [Request -> Seq(RequestStatus)]
  /\ visTrail \in [Visitor -> Seq(VisitStatus)]
  /\ reqLock \in [Request -> Proc \cup {None}]
  /\ visLock \in [Visitor -> Proc \cup {None}]
  /\ job \in [Handler -> JobType]
  /\ sweep \in [Worker -> SweepType]

Init ==
  /\ today = 0 /\ phase = "before_arrival"
  /\ req = InitialRequests
  /\ vis = InitialVisitors
  /\ reqTrail = [r \in Request |-> IF r \in Legacy
                                     THEN <<"SUBMITTED", "APPROVED", "EXPIRED">> ELSE <<>>]
  /\ visTrail = [v \in Visitor |-> IF Parent[v] \in Legacy THEN <<"NO_SHOW">> ELSE <<>>]
  /\ reqLock = [r \in Request |-> None]
  /\ visLock = [v \in Visitor |-> None]
  /\ job = [h \in Handler |-> Idle]
  /\ sweep = [w \in Worker |-> Waiting]

-----------------------------------------------------------------------------
(* The site clock.                                                         *)

Arrive ==
  /\ phase = "before_arrival" /\ phase' = "window"
  /\ UNCHANGED <<tables, locks, job, sweep, today>>

Depart ==
  /\ phase = "window" /\ phase' = "after_departure"
  /\ UNCHANGED <<tables, locks, job, sweep, today>>

Midnight ==
  /\ phase = "after_departure" /\ phase' = "before_arrival"
  /\ today < MaxDay
  /\ today' = today + 1
  /\ UNCHANGED <<tables, locks, job, sweep>>

Tick == Arrive \/ Depart \/ Midnight

-----------------------------------------------------------------------------
(* Transactions of the HTTP handlers.                                      *)

ReleaseLocks(p) ==
  /\ reqLock' = [r \in Request |-> IF reqLock[r] = p THEN None ELSE reqLock[r]]
  /\ visLock' = [v \in Visitor |-> IF visLock[v] = p THEN None ELSE visLock[v]]

Enter(h, record) ==
  /\ job[h] = Idle
  /\ job' = [job EXCEPT ![h] = record]
  /\ UNCHANGED <<tables, locks, clock, sweep>>

(* A new request has a fresh id, which no other transaction can name.      *)
BeginSubmit(h, r) ==
  /\ req[r] = "NONE"
  /\ \A g \in Handler : job[g].target # r
  /\ Enter(h, [Idle EXCEPT !.pc = "decide", !.op = "submit", !.target = r])

BeginReview(h, o, r) ==
  /\ req[r] # "NONE"
  /\ Enter(h, [Idle EXCEPT !.pc = "lock_request", !.op = o, !.target = r])

(* Mutant: the visitor row is locked without its parent.                   *)
BeginDoorOrphan(h, o, v) ==
  /\ vis[v] # "NONE"
  /\ Enter(h, [Idle EXCEPT !.pc = "lock_visitor", !.op = o,
                           !.target = Parent[v], !.guest = v])

(* The parent's id is read without a lock: it never changes.               *)
BeginDoor(h, o, v) ==
  /\ vis[v] # "NONE"
  /\ Enter(h, [Idle EXCEPT !.pc = "lock_request", !.op = o,
                           !.target = Parent[v], !.guest = v])

(* Mutant: the request is read without FOR UPDATE.                         *)
LockRequestPlainRead(h) ==
  /\ job[h].pc = "lock_request"
  /\ job' = [job EXCEPT ![h].pc = IF job[h].op \in DoorOp THEN "lock_visitor" ELSE "decide",
                        ![h].seenReq = req[job[h].target]]
  /\ UNCHANGED <<tables, locks, clock, sweep>>

LockRequest(h) ==
  LET r == job[h].target IN
  /\ job[h].pc = "lock_request"
  /\ reqLock[r] = None
  /\ reqLock' = [reqLock EXCEPT ![r] = h]
  /\ job' = [job EXCEPT ![h].pc = IF job[h].op \in DoorOp THEN "lock_visitor" ELSE "decide",
                        ![h].seenReq = req[r]]
  /\ UNCHANGED <<tables, visLock, clock, sweep>>

LockVisitor(h) ==
  LET v == job[h].guest IN
  /\ job[h].pc = "lock_visitor"
  /\ visLock[v] = None
  /\ visLock' = [visLock EXCEPT ![v] = h]
  /\ job' = [job EXCEPT ![h].pc = "decide", ![h].seenVis = vis[v]]
  /\ UNCHANGED <<tables, reqLock, clock, sweep>>

(* Mutant: check-out asks for an approval, as the arrival decisions do.    *)
LeavingApproved(h) ==
  /\ job[h].seenReq = "APPROVED" /\ job[h].seenVis = "CHECKED_IN"
  /\ VisitDate[job[h].target] <= today

(* What check-out asks for: the request's status is not looked at.         *)
Leaving(h) == job[h].seenVis = "CHECKED_IN" /\ VisitDate[job[h].target] <= today

(* Mutant: arrivals are validated on the request and the date alone.       *)
AllowedRepeatedly(h) ==
  LET o == job[h].op
      date == VisitDate[job[h].target]
      approvedArrival == job[h].seenReq = "APPROVED" /\ today = date
  IN \/ o = "submit" /\ date >= today
     \/ o \in {"approve", "reject"} /\ job[h].seenReq = "SUBMITTED"
     \/ o = "cancel" /\ job[h].seenReq \in {"SUBMITTED", "APPROVED"}
     \/ o = "check_in" /\ approvedArrival /\ phase = "window"
     \/ o = "check_out" /\ Leaving(h)
     \/ o = "deny_entry" /\ approvedArrival

(* The validations of the services, on the rows as read and the site clock *)
(* as it stands.                                                           *)
Allowed(h) ==
  LET o == job[h].op
      date == VisitDate[job[h].target]
      approvedArrival == /\ job[h].seenReq = "APPROVED"
                         /\ job[h].seenVis = "PENDING_ARRIVAL"
                         /\ today = date
  IN \/ o = "submit" /\ date >= today
     \/ o \in {"approve", "reject"} /\ job[h].seenReq = "SUBMITTED"
     \/ o = "cancel" /\ job[h].seenReq \in {"SUBMITTED", "APPROVED"}
     \/ o = "check_in" /\ approvedArrival /\ phase = "window"
     \/ o = "check_out" /\ Leaving(h)
     \/ o = "deny_entry" /\ approvedArrival

Decide(h) ==
  /\ job[h].pc = "decide"
  /\ Allowed(h)
  /\ job' = [job EXCEPT ![h].pc = "commit"]
  /\ UNCHANGED <<tables, locks, clock, sweep>>

(* Mutant: the database session is not closed.                             *)
EndJobLeaking(h) ==
  /\ job' = [job EXCEPT ![h] = Idle]
  /\ UNCHANGED <<locks, clock, sweep>>

EndJob(h) ==
  /\ job' = [job EXCEPT ![h] = Idle]
  /\ ReleaseLocks(h)
  /\ UNCHANGED <<clock, sweep>>

Refuse(h) ==
  /\ job[h].pc = "decide"
  /\ ~Allowed(h)
  /\ EndJob(h)
  /\ UNCHANGED tables

CommitSubmit(h) ==
  LET r == job[h].target IN
  /\ job[h].pc = "commit" /\ job[h].op = "submit"
  /\ req' = [req EXCEPT ![r] = "SUBMITTED"]
  /\ vis' = [v \in Visitor |-> IF Parent[v] = r THEN "PENDING_ARRIVAL" ELSE vis[v]]
  /\ reqTrail' = [reqTrail EXCEPT ![r] = Append(@, "SUBMITTED")]
  /\ EndJob(h)
  /\ UNCHANGED visTrail

CommitReview(h) ==
  LET r == job[h].target
      status == Outcome[job[h].op] IN
  /\ job[h].pc = "commit" /\ job[h].op \in ReviewOp
  /\ req' = [req EXCEPT ![r] = status]
  /\ reqTrail' = [reqTrail EXCEPT ![r] = Append(@, status)]
  /\ EndJob(h)
  /\ UNCHANGED <<vis, visTrail>>

CommitDoor(h) ==
  LET v == job[h].guest
      status == Outcome[job[h].op] IN
  /\ job[h].pc = "commit" /\ job[h].op \in DoorOp
  /\ vis' = [vis EXCEPT ![v] = status]
  /\ visTrail' = [visTrail EXCEPT ![v] = Append(@, status)]
  /\ EndJob(h)
  /\ UNCHANGED <<req, reqTrail>>

Commit(h) == CommitSubmit(h) \/ CommitReview(h) \/ CommitDoor(h)

(* An unverified identity, an inactive company or unknown host contact, an *)
(* exception, a dropped connection or a killed process: rolled back.       *)
Abort(h) ==
  /\ job[h] # Idle
  /\ EndJob(h)
  /\ UNCHANGED tables

HandlerStep(h) ==
  \/ \E r \in Request : BeginSubmit(h, r) \/ \E o \in ReviewOp : BeginReview(h, o, r)
  \/ \E o \in DoorOp, v \in Visitor : BeginDoor(h, o, v)
  \/ LockRequest(h) \/ LockVisitor(h)
  \/ Decide(h) \/ Refuse(h) \/ Commit(h) \/ Abort(h)

-----------------------------------------------------------------------------
(* expire_past_visits: one transaction per sweep.                          *)

Overdue(v, day) == DateOf(v) < day /\ vis[v] = "PENDING_ARRIVAL"

(* Mutant: the date of a zone west of the site.                            *)
SweepBeginWest(w) ==
  /\ sweep[w].pc = "waiting"
  /\ sweep' = [sweep EXCEPT ![w].pc = "scan", ![w].day = IF today = 0 THEN 0 ELSE today - 1]
  /\ UNCHANGED <<tables, locks, clock, job>>

SweepBegin(w) ==
  /\ sweep[w].pc = "waiting"
  /\ sweep' = [sweep EXCEPT ![w].pc = "scan", ![w].day = today]
  /\ UNCHANGED <<tables, locks, clock, job>>

(* The statement's snapshot: candidates in no particular order of uuid.    *)
SweepScan(w) ==
  /\ sweep[w].pc = "scan"
  /\ sweep' = [sweep EXCEPT ![w].pc = "lock",
        ![w].todo = {r \in Request : /\ req[r] = "APPROVED"
                                     /\ \E v \in VisitorsOf(r) : Overdue(v, sweep[w].day)}]
  /\ UNCHANGED <<tables, locks, clock, job>>

(* Mutants: no FOR UPDATE; and the snapshot is believed (no second look).  *)
SweepLockPlainRead(w, r) ==
  /\ sweep[w].pc = "lock" /\ r \in sweep[w].todo
  /\ sweep' = [sweep EXCEPT ![w].todo = @ \ {r}, ![w].chosen = @ \cup {r}]
  /\ UNCHANGED <<tables, locks, clock, job>>

SweepLockStale(w, r) ==
  /\ sweep[w].pc = "lock" /\ r \in sweep[w].todo
  /\ reqLock[r] = None
  /\ reqLock' = [reqLock EXCEPT ![r] = w]
  /\ sweep' = [sweep EXCEPT ![w].todo = @ \ {r}, ![w].chosen = @ \cup {r}]
  /\ UNCHANGED <<tables, visLock, clock, job>>

(* A free candidate is locked; PostgreSQL rechecks the row's own condition *)
(* on its latest version and keeps the lock even when it no longer holds.  *)
SweepLock(w, r) ==
  /\ sweep[w].pc = "lock" /\ r \in sweep[w].todo
  /\ reqLock[r] = None
  /\ reqLock' = [reqLock EXCEPT ![r] = w]
  /\ sweep' = [sweep EXCEPT ![w].todo = @ \ {r},
                            ![w].chosen = IF req[r] = "APPROVED" THEN @ \cup {r} ELSE @]
  /\ UNCHANGED <<tables, visLock, clock, job>>

(* SKIP LOCKED: a candidate somebody holds is left for a later sweep.      *)
SweepSkip(w, r) ==
  /\ sweep[w].pc = "lock" /\ r \in sweep[w].todo
  /\ reqLock[r] # None
  /\ sweep' = [sweep EXCEPT ![w].todo = @ \ {r}]
  /\ UNCHANGED <<tables, locks, clock, job>>

SweepRows(w) ==
  /\ sweep[w].pc = "lock" /\ sweep[w].todo = {}
  /\ sweep' = [sweep EXCEPT ![w].pc = "visitors"]
  /\ UNCHANGED <<tables, locks, clock, job>>

(* Mutant: every visitor of a chosen request is written off.               *)
SweepVisitorsAll(w, r) ==
  /\ sweep[w].pc = "visitors" /\ r \in sweep[w].chosen
  /\ \A v \in VisitorsOf(r) : visLock[v] = None
  /\ visLock' = [v \in Visitor |-> IF Parent[v] = r THEN w ELSE visLock[v]]
  /\ sweep' = [sweep EXCEPT ![w].chosen = @ \ {r},
                            ![w].lapsed = @ \cup VisitorsOf(r)]
  /\ UNCHANGED <<tables, reqLock, clock, job>>

SweepVisitors(w, r) ==
  /\ sweep[w].pc = "visitors" /\ r \in sweep[w].chosen
  /\ \A v \in VisitorsOf(r) : visLock[v] = None
  /\ visLock' = [v \in Visitor |-> IF Parent[v] = r THEN w ELSE visLock[v]]
  /\ sweep' = [sweep EXCEPT ![w].chosen = @ \ {r},
        ![w].lapsed = @ \cup {v \in VisitorsOf(r) : Overdue(v, sweep[w].day)}]
  /\ UNCHANGED <<tables, reqLock, clock, job>>

EndSweep(w) ==
  /\ sweep' = [sweep EXCEPT ![w] = Waiting]
  /\ ReleaseLocks(w)
  /\ UNCHANGED <<clock, job, req, reqTrail>>

SweepCommit(w) ==
  LET S == sweep[w].lapsed IN
  /\ sweep[w].pc = "visitors" /\ sweep[w].chosen = {}
  /\ vis' = [v \in Visitor |-> IF v \in S THEN "NO_SHOW" ELSE vis[v]]
  /\ visTrail' = [v \in Visitor |-> IF v \in S THEN Append(visTrail[v], "NO_SHOW")
                                              ELSE visTrail[v]]
  /\ EndSweep(w)

(* An exception anywhere rolls the whole sweep back; the loop goes on.     *)
SweepFail(w) ==
  /\ sweep[w].pc # "waiting"
  /\ EndSweep(w)
  /\ UNCHANGED <<vis, visTrail>>

SweepStep(w) ==
  \/ SweepBegin(w) \/ SweepScan(w) \/ SweepRows(w)
  \/ \E r \in Request : SweepLock(w, r) \/ SweepSkip(w, r) \/ SweepVisitors(w, r)
  \/ SweepCommit(w) \/ SweepFail(w)

-----------------------------------------------------------------------------
Next ==
  \/ Tick
  \/ \E h \in Handler : HandlerStep(h)
  \/ \E w \in Worker : SweepStep(w)

Spec == Init /\ [][Next]_vars

(* A call that has started goes on; PostgreSQL queues the waiters of a     *)
(* row, so a row lock that keeps becoming free is granted at last; and the *)
(* worker thread keeps running, one way or the other.                      *)
CallProgress(h) == LockVisitor(h) \/ Decide(h) \/ Refuse(h) \/ Commit(h)
CallFairness ==
  /\ \A h \in Handler : SF_vars(LockRequest(h)) /\ WF_vars(CallProgress(h))
  /\ \A w \in Worker : WF_vars(SweepStep(w))
CallSpec == Spec /\ CallFairness

(* The loop sweeps again and again, and its failures are not permanent:   *)
(* time and again a whole sweep gets through.                              *)
SweepFairness ==
  \A w \in Worker : WF_vars(SweepStep(w)) /\ []<><<SweepCommit(w)>>_vars
SweepSpec == Spec /\ SweepFairness
LiveSpec == CallSpec /\ SweepFairness

-----------------------------------------------------------------------------
(* Safety.                                                                 *)

(* The rule at requests/service.py:34, "all workflow writers lock the      *)
(* parent before any visitor rows": whoever holds a visitor row holds its  *)
(* request, hence no two transactions can wait for each other on the two   *)
(* tables and the sweep never waits for a visitor row.                     *)
ParentGuardsVisitors ==
  \A v \in Visitor : visLock[v] # None => reqLock[Parent[v]] = visLock[v]

(* What a handler has read is still what is committed when it decides and  *)
(* when it commits, however many others ran in between.                    *)
HandlerReadsHold ==
  \A h \in Handler :
    /\ job[h].pc \in {"lock_visitor", "decide", "commit"} /\ job[h].op # "submit" =>
         /\ reqLock[job[h].target] = h
         /\ job[h].seenReq = req[job[h].target]
    /\ job[h].pc \in {"decide", "commit"} /\ job[h].op \in DoorOp =>
         /\ visLock[job[h].guest] = h
         /\ job[h].seenVis = vis[job[h].guest]

(* A check-out of a person inside is never refused, whatever became of the *)
(* request since the check-in and however often the day has turned: the    *)
(* guards of check_out_visitor (security_portal/service.py:178) admit      *)
(* everybody whom those of check-in let in.                                *)
DeparturesAccepted ==
  \A h \in Handler :
    /\ job[h].pc = "decide" /\ job[h].op = "check_out"
    /\ vis[job[h].guest] = "CHECKED_IN"
    => Allowed(h)

(* What a sweep is about to write off is still overdue and its request     *)
(* still approved, although the scan's snapshot may be old by now.         *)
SweepReadsHold ==
  \A w \in Worker :
    /\ \A r \in sweep[w].chosen : reqLock[r] = w /\ req[r] = "APPROVED"
    /\ \A v \in sweep[w].lapsed : /\ visLock[v] = w
                                  /\ req[Parent[v]] = "APPROVED"
                                  /\ Overdue(v, sweep[w].day)

(* The audit rows of an entity are a legal history that ends in its        *)
(* status: every change was recorded once, by the transaction that made    *)
(* it, and a rolled back, refused or repeated call left no row.            *)
RequestHistory ==
  [NONE |-> {<<>>}, SUBMITTED |-> {<<"SUBMITTED">>},
   APPROVED |-> {<<"SUBMITTED", "APPROVED">>}, REJECTED |-> {<<"SUBMITTED", "REJECTED">>},
   CANCELLED |-> {<<"SUBMITTED", "CANCELLED">>, <<"SUBMITTED", "APPROVED", "CANCELLED">>},
   EXPIRED |-> {<<"SUBMITTED", "APPROVED", "EXPIRED">>}]

VisitorHistory ==
  [NONE |-> <<>>, PENDING_ARRIVAL |-> <<>>, CHECKED_IN |-> <<"CHECKED_IN">>,
   CHECKED_OUT |-> <<"CHECKED_IN", "CHECKED_OUT">>, NO_SHOW |-> <<"NO_SHOW">>,
   DENIED_ENTRY |-> <<"DENIED_ENTRY">>]

AuditExplainsStatus ==
  /\ \A r \in Request : reqTrail[r] \in RequestHistory[req[r]]
  /\ \A v \in Visitor : visTrail[v] = VisitorHistory[vis[v]]

(* The committed rows change only as the abstract protocol allows.         *)
Protocol == INSTANCE VisitProtocol
ProtocolSpec == Protocol!Spec

-----------------------------------------------------------------------------
(* Liveness.                                                               *)

(* Nobody waits for ever: every started call ends, answered or aborted.    *)
CallsEnd == \A h \in Handler : job[h].pc # "idle" ~> job[h].pc = "idle"

(* README.md:27: a visitor still pending on an approved request after the  *)
(* visit date becomes a no-show (or the request is cancelled), provided    *)
(* the handlers leave the request's row alone often enough: SKIP LOCKED    *)
(* lets traffic without end starve the sweep.                              *)
Stranded(v) == req[Parent[v]] = "APPROVED" /\ Overdue(v, today)
OverdueSettled ==
  \A v \in Visitor :
    <>[](\A h \in Handler : reqLock[Parent[v]] # h) => (Stranded(v) ~> ~Stranded(v))

(* README.md:19: "an eligible finished request becomes EXPIRED", that is   *)
(* (README.md:28) an approved one with every visit in the past and every   *)
(* visitor checked out, denied entry or a no-show.                         *)
Finished(r) ==
  /\ req[r] = "APPROVED" /\ VisitDate[r] < today
  /\ \A v \in VisitorsOf(r) : vis[v] \in {"CHECKED_OUT", "DENIED_ENTRY", "NO_SHOW"}
FinishedRequestExpires == \A r \in Request : Finished(r) ~> req[r] # "APPROVED"

=============================================================================
