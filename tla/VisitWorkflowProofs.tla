------------------------ MODULE VisitWorkflowProofs ------------------------
(***************************************************************************)
(* Proofs about VisitWorkflow for any sets of requests, visitors, handlers *)
(* and workers: the inductive invariant of the locking discipline, that    *)
(* what a transaction has read stays true until it commits, that the audit *)
(* rows explain the statuses, and that every step is a step of the         *)
(* abstract VisitProtocol.                                                 *)
(***************************************************************************)
EXTENDS VisitWorkflow, SequenceTheorems, TLAPS

(* The abstract protocol's theorems, which are not about the summaries.    *)
Abstract == INSTANCE VisitProtocolProofs WITH summary <- <<>>, since <- <<>>

(* Only a job that has passed the lock holds it, on the rows it is about.  *)
HandlerLocks ==
  \A h \in Handler :
    /\ \A r \in Request : reqLock[r] = h =>
         /\ job[h].target = r
         /\ job[h].op # "submit"
         /\ job[h].pc \in {"lock_visitor", "decide", "commit"}
    /\ \A v \in Visitor : visLock[v] = h =>
         /\ job[h].guest = v
         /\ job[h].op \in DoorOp
         /\ job[h].pc \in {"decide", "commit"}

(* A job under way names existing rows, a submission a row not yet there.  *)
JobRows ==
  \A h \in Handler :
    /\ job[h].pc = "idle" => job[h] = Idle
    /\ job[h].pc # "idle" =>
         /\ job[h].op \in Op
         /\ job[h].target \in Request
         /\ job[h].op \in DoorOp => /\ job[h].guest \in Visitor
                                    /\ job[h].target = Parent[job[h].guest]
         /\ job[h].op = "submit" => /\ req[job[h].target] = "NONE"
                                    /\ job[h].pc \in {"decide", "commit"}
         /\ job[h].op # "submit" => req[job[h].target] # "NONE"
    /\ job[h].pc = "lock_visitor" => job[h].op \in DoorOp

(* Two submissions never carry the same fresh id.                          *)
FreshIds ==
  \A g, h \in Handler :
    job[g].op = "submit" /\ job[h].op = "submit" /\ job[g].target = job[h].target => g = h

(* What a job that is about to commit has established.                     *)
Decided ==
  \A h \in Handler : job[h].pc = "commit" =>
    /\ job[h].op \in {"approve", "reject"} => job[h].seenReq = "SUBMITTED"
    /\ job[h].op = "cancel" => job[h].seenReq \in {"SUBMITTED", "APPROVED"}
    /\ job[h].op \in {"check_in", "deny_entry"} => /\ job[h].seenReq = "APPROVED"
                                                   /\ job[h].seenVis = "PENDING_ARRIVAL"
    /\ job[h].op = "check_out" => job[h].seenVis = "CHECKED_IN"
    /\ job[h].op \in DoorOp => VisitDate[job[h].target] <= today

(* A sweep looks back from a day that has come.                            *)
SweepShape ==
  \A w \in Worker : /\ sweep[w].day <= today
                    /\ sweep[w].pc # "visitors" => sweep[w].lapsed = {}
                    /\ sweep[w].pc \in {"waiting", "scan"} => sweep[w].chosen = {}

RowsTogether == \A v \in Visitor : vis[v] = "NONE" <=> req[Parent[v]] = "NONE"

LockInv == /\ TypeOK /\ HandlerLocks /\ JobRows /\ FreshIds /\ ParentGuardsVisitors
           /\ HandlerReadsHold

IInv == LockInv /\ Decided /\ SweepShape /\ SweepReadsHold /\ RowsTogether

-----------------------------------------------------------------------------
(* The invariant holds of the tables as deployed, nothing under way.       *)
LEMMA InitInv == Init => IInv
<1>. SUFFICES ASSUME Init PROVE IInv
  OBVIOUS
<1>1. TypeOK
  <2>1. /\ <<>> \in Seq(RequestStatus)
        /\ <<"SUBMITTED", "APPROVED", "EXPIRED">> \in Seq(RequestStatus)
    BY DEF RequestStatus
  <2>2. <<>> \in Seq(VisitStatus) /\ <<"NO_SHOW">> \in Seq(VisitStatus)
    BY DEF VisitStatus
  <2>3. /\ reqTrail \in [Request -> Seq(RequestStatus)]
        /\ visTrail \in [Visitor -> Seq(VisitStatus)]
    BY <2>1, <2>2 DEF Init
  <2>4. job \in [Handler -> JobType] /\ sweep \in [Worker -> SweepType]
    BY DEF Init, Idle, Waiting, RequestStatus, VisitStatus, JobType, SweepType
  <2>. QED
    BY <2>3, <2>4 DEF Init, TypeOK, Phases, InitialRequests, InitialVisitors,
       RequestStatus, VisitStatus
<1>2. HandlerLocks /\ ParentGuardsVisitors
  BY ProcAssumption DEF Init, HandlerLocks, ParentGuardsVisitors
<1>3. JobRows /\ FreshIds /\ HandlerReadsHold /\ Decided
  BY ProcAssumption DEF Init, Idle, JobRows, FreshIds, HandlerReadsHold, Decided, Op, DoorOp
<1>4. SweepShape /\ SweepReadsHold
  BY DEF Init, Waiting, SweepShape, SweepReadsHold
<1>5. RowsTogether
  BY ParentAssumption DEF Init, RowsTogether, InitialRequests, InitialVisitors
<1>. QED
  BY <1>1, <1>2, <1>3, <1>4, <1>5 DEF IInv, LockInv

(* The passing of time disturbs no transaction.                            *)
LEMMA TickInv == IInv /\ Tick => IInv'
<1>. SUFFICES ASSUME IInv, Tick PROVE IInv'
  OBVIOUS
<1>1. /\ UNCHANGED <<tables, locks, job, sweep>>
      /\ today \in Nat /\ today' \in Nat /\ today <= today' /\ phase' \in Phases
  BY DEF IInv, LockInv, TypeOK, Tick, Arrive, Depart, Midnight, Phases
<1>2. LockInv'
  BY <1>1 DEF IInv, LockInv, TypeOK, HandlerLocks, JobRows, FreshIds,
     ParentGuardsVisitors, HandlerReadsHold, tables, locks
<1>3. Decided'
  <2>1. \A h \in Handler : job[h].pc = "commit" => VisitDate[job[h].target] \in Int
    BY VisitDateAssumption DEF IInv, LockInv, JobRows
  <2>. QED
    BY <1>1, <2>1 DEF IInv, Decided
<1>4. SweepShape' /\ SweepReadsHold'
  BY <1>1 DEF IInv, LockInv, TypeOK, SweepType, SweepShape, SweepReadsHold,
     Overdue, DateOf, tables, locks
<1>5. RowsTogether'
  BY <1>1 DEF IInv, RowsTogether, tables
<1>. QED
  BY <1>2, <1>3, <1>4, <1>5 DEF IInv

(* The start of a call takes no lock and reads nothing yet.                *)
LEMMA EnterInv ==
  ASSUME IInv, NEW h \in Handler, NEW j \in JobType, Enter(h, j),
         j.pc \in {"lock_request", "decide"},
         j.op \in Op, j.target \in Request,
         j.op \in DoorOp => j.guest \in Visitor /\ j.target = Parent[j.guest],
         j.op = "submit" => /\ req[j.target] = "NONE" /\ j.pc = "decide"
                            /\ \A g \in Handler : job[g].target # j.target,
         j.op # "submit" => req[j.target] # "NONE" /\ j.pc = "lock_request"
  PROVE  IInv'
<1>. job[h] = Idle /\ job' = [job EXCEPT ![h] = j]
  BY DEF Enter
<1>. UNCHANGED <<tables, locks, clock, sweep>>
  BY DEF Enter
<1>. job \in [Handler -> JobType]
  BY DEF IInv, LockInv, TypeOK
<1>1. TypeOK'
  BY DEF IInv, LockInv, TypeOK, tables, locks, clock
<1>2. HandlerLocks' /\ ParentGuardsVisitors'
  BY DEF IInv, LockInv, HandlerLocks, ParentGuardsVisitors, Idle, locks
<1>3. JobRows'
  BY DEF IInv, LockInv, JobRows, tables, DoorOp
<1>4. FreshIds'
  BY DEF IInv, LockInv, FreshIds
<1>5. HandlerReadsHold' /\ Decided'
  BY DEF IInv, LockInv, HandlerReadsHold, Decided, tables, locks, clock, DoorOp
<1>6. SweepShape' /\ SweepReadsHold'
  BY DEF IInv, SweepShape, SweepReadsHold, Overdue, tables, locks, clock
<1>7. RowsTogether'
  BY DEF IInv, RowsTogether, tables
<1>. QED
  BY <1>1, <1>2, <1>3, <1>4, <1>5, <1>6, <1>7 DEF IInv, LockInv

(* A step that moves one handler, and not to its commit, decides nothing.  *)
LEMMA CommitsUnchanged ==
  ASSUME Decided, NEW h \in Handler, job'[h].pc # "commit", today' = today,
         \A g \in Handler \ {h} : job'[g] = job[g]
  PROVE  Decided'
<1>. SUFFICES ASSUME NEW g \in Handler, job'[g].pc = "commit" PROVE Decided!(g)'
  BY DEF Decided
<1>1. g # h /\ job'[g] = job[g]
  OBVIOUS
<1>. QED
  BY <1>1 DEF Decided

(* Taking the request's lock makes the read status the committed one.      *)
LEMMA LockRequestInv ==
  ASSUME IInv, NEW h \in Handler, LockRequest(h)
  PROVE  IInv'
<1>. DEFINE r == job[h].target
            door == job[h].op \in DoorOp
<1>. USE ProcAssumption
<1>1. /\ job[h].pc = "lock_request" /\ reqLock[r] = None
      /\ reqLock' = [reqLock EXCEPT ![r] = h]
      /\ job' = [job EXCEPT ![h].pc = IF door THEN "lock_visitor" ELSE "decide",
                            ![h].seenReq = req[r]]
      /\ UNCHANGED <<tables, visLock, clock, sweep>>
  BY DEF LockRequest
<1>2. /\ job \in [Handler -> JobType] /\ r \in Request /\ job[h].op # "submit"
      /\ reqLock \in [Request -> Proc \cup {None}] /\ req \in [Request -> RequestStatus]
  BY <1>1 DEF IInv, LockInv, TypeOK, JobRows
<1>3. TypeOK'
  <2>1. job' \in [Handler -> JobType]
    <3>. DEFINE p == IF door THEN "lock_visitor" ELSE "decide"
    <3>1. p \in {"lock_visitor", "decide"} /\ req[r] \in RequestStatus
      BY <1>2
    <3>2. job' = [job EXCEPT ![h].pc = p, ![h].seenReq = req[r]]
      BY <1>1
    <3>. DEFINE j == [job[h] EXCEPT !.pc = p, !.seenReq = req[r]]
    <3>. HIDE DEF p, r, door
    <3>3. j \in JobType
      <4>1. job[h] \in JobType
        BY <1>2
      <4>. QED
        BY <3>1, <4>1 DEF JobType
    <3>4. job' = [job EXCEPT ![h] = j]
      BY <1>2, <3>2
    <3>. HIDE DEF j
    <3>. QED
      BY <1>2, <3>3, <3>4
  <2>2. reqLock' \in [Request -> Proc \cup {None}]
    BY <1>1, <1>2 DEF Proc
  <2>. QED
    BY <1>1, <2>1, <2>2 DEF IInv, LockInv, TypeOK, tables, clock
<1>4. HandlerLocks' /\ ParentGuardsVisitors'
  BY <1>1, <1>2 DEF IInv, LockInv, HandlerLocks, ParentGuardsVisitors, JobType
<1>5. JobRows' /\ FreshIds'
  BY <1>1, <1>2 DEF IInv, LockInv, JobRows, FreshIds, JobType, tables
<1>6. HandlerReadsHold' /\ Decided'
  <2>1. /\ job'[h].pc \in {"lock_visitor", "decide"}
        /\ job'[h].pc = "decide" => job'[h].op \notin DoorOp
        /\ job'[h].target = r /\ job'[h].seenReq = req[r]
    BY <1>1, <1>2 DEF JobType
  <2>2. \A g \in Handler \ {h} : job'[g] = job[g]
    BY <1>1, <1>2
  <2>3. HandlerReadsHold'
    BY <1>1, <1>2, <2>1, <2>2 DEF IInv, LockInv, HandlerReadsHold, tables
  <2>4. Decided'
    <3>1. Decided /\ today' = today /\ job'[h].pc # "commit"
      BY <1>1, <2>1 DEF IInv, clock
    <3>. QED
      BY <2>2, <3>1, CommitsUnchanged
  <2>. QED
    BY <2>3, <2>4
<1>7. SweepShape' /\ SweepReadsHold'
  BY <1>1, <1>2 DEF IInv, SweepShape, SweepReadsHold, Overdue, tables, clock
<1>8. RowsTogether'
  BY <1>1 DEF IInv, RowsTogether, tables
<1>. QED
  BY <1>3, <1>4, <1>5, <1>6, <1>7, <1>8 DEF IInv, LockInv

LEMMA LockVisitorInv ==
  ASSUME IInv, NEW h \in Handler, LockVisitor(h)
  PROVE  IInv'
<1>. DEFINE v == job[h].guest
<1>. USE ProcAssumption
<1>1. /\ job[h].pc = "lock_visitor" /\ visLock[v] = None
      /\ visLock' = [visLock EXCEPT ![v] = h]
      /\ job' = [job EXCEPT ![h].pc = "decide", ![h].seenVis = vis[v]]
      /\ UNCHANGED <<tables, reqLock, clock, sweep>>
  BY DEF LockVisitor
<1>2. /\ job \in [Handler -> JobType] /\ v \in Visitor /\ job[h].op \in DoorOp
      /\ job[h].target = Parent[v]
      /\ visLock \in [Visitor -> Proc \cup {None}] /\ vis \in [Visitor -> VisitStatus]
  BY <1>1 DEF IInv, LockInv, TypeOK, JobRows
<1>3. /\ job'[h].pc = "decide" /\ job'[h].seenVis = vis[v]
      /\ job'[h].op = job[h].op /\ job'[h].target = job[h].target
      /\ job'[h].guest = v /\ job'[h].seenReq = job[h].seenReq
      /\ \A g \in Handler \ {h} : job'[g] = job[g]
  BY <1>1, <1>2 DEF JobType
<1>4. reqLock[Parent[v]] = h
  BY <1>1, <1>2 DEF IInv, LockInv, HandlerReadsHold, DoorOp
<1>5. TypeOK'
  <2>1. job' \in [Handler -> JobType]
    <3>1. vis[v] \in VisitStatus /\ job \in [Handler -> JobType]
      BY <1>2
    <3>. DEFINE j == [job[h] EXCEPT !.pc = "decide", !.seenVis = vis[v]]
    <3>2. job' = [job EXCEPT ![h] = j]
      BY <1>1
    <3>3. j \in JobType
      <4>1. job[h] \in JobType
        BY <3>1
      <4>. HIDE DEF v
      <4>. QED
        BY <3>1, <4>1 DEF JobType
    <3>. HIDE DEF v, j
    <3>. QED
      BY <3>1, <3>2, <3>3
  <2>2. visLock' \in [Visitor -> Proc \cup {None}]
    BY <1>1, <1>2 DEF Proc
  <2>. QED
    BY <1>1, <2>1, <2>2 DEF IInv, LockInv, TypeOK, tables, clock
<1>6. HandlerLocks' /\ ParentGuardsVisitors'
  BY <1>1, <1>2, <1>3, <1>4 DEF IInv, LockInv, HandlerLocks, ParentGuardsVisitors
<1>7. JobRows' /\ FreshIds'
  BY <1>1, <1>2, <1>3 DEF IInv, LockInv, JobRows, FreshIds, tables, DoorOp
<1>8. HandlerReadsHold'
  BY <1>1, <1>2, <1>3 DEF IInv, LockInv, HandlerReadsHold, tables
<1>9. Decided'
  <2>1. \A g \in Handler \ {h} : job'[g] = job[g]
    BY <1>3
  <2>2. job'[h].pc # "commit"
    BY <1>3
  <2>3. Decided /\ today' = today
    BY <1>1 DEF IInv, clock
  <2>. HIDE DEF v
  <2>. QED
    BY <2>1, <2>2, <2>3, CommitsUnchanged
<1>10. SweepShape' /\ SweepReadsHold'
  BY <1>1, <1>2 DEF IInv, SweepShape, SweepReadsHold, Overdue, tables, clock
<1>11. RowsTogether'
  BY <1>1 DEF IInv, RowsTogether, tables
<1>. QED
  BY <1>5, <1>6, <1>7, <1>8, <1>9, <1>10, <1>11 DEF IInv, LockInv

(* Validation only records the verdict.                                    *)
LEMMA DecideInv ==
  ASSUME IInv, NEW h \in Handler, Decide(h)
  PROVE  IInv'
<1>1. /\ job[h].pc = "decide" /\ Allowed(h)
      /\ job' = [job EXCEPT ![h].pc = "commit"]
      /\ UNCHANGED <<tables, locks, clock, sweep>>
  BY DEF Decide
<1>2. job \in [Handler -> JobType]
  BY DEF IInv, LockInv, TypeOK
<1>3. /\ job'[h].pc = "commit" /\ job'[h].op = job[h].op
      /\ job'[h].target = job[h].target /\ job'[h].guest = job[h].guest
      /\ job'[h].seenReq = job[h].seenReq /\ job'[h].seenVis = job[h].seenVis
      /\ \A g \in Handler \ {h} : job'[g] = job[g]
  BY <1>1, <1>2 DEF JobType
<1>4. TypeOK'
  <2>1. job' \in [Handler -> JobType]
    BY <1>1, <1>2 DEF JobType
  <2>. QED
    BY <1>1, <2>1 DEF IInv, LockInv, TypeOK, tables, locks, clock
<1>5. HandlerLocks' /\ ParentGuardsVisitors'
  BY <1>1, <1>3 DEF IInv, LockInv, HandlerLocks, ParentGuardsVisitors, locks
<1>6. JobRows' /\ FreshIds'
  BY <1>1, <1>3 DEF IInv, LockInv, JobRows, FreshIds, tables
<1>7. HandlerReadsHold'
  BY <1>1, <1>3 DEF IInv, LockInv, HandlerReadsHold, tables, locks
<1>8. Decided'
  <2>1. /\ job[h].target \in Request /\ today \in Int
        /\ VisitDate[job[h].target] \in Int
    BY <1>1, VisitDateAssumption DEF IInv, LockInv, JobRows, TypeOK
  <2>2. /\ job[h].op \in {"approve", "reject"} => job[h].seenReq = "SUBMITTED"
        /\ job[h].op = "cancel" => job[h].seenReq \in {"SUBMITTED", "APPROVED"}
        /\ job[h].op \in {"check_in", "deny_entry"} =>
             job[h].seenReq = "APPROVED" /\ job[h].seenVis = "PENDING_ARRIVAL"
        /\ job[h].op = "check_out" => job[h].seenVis = "CHECKED_IN"
        /\ job[h].op \in DoorOp => VisitDate[job[h].target] <= today
    BY <1>1, <2>1 DEF Allowed, Leaving, DoorOp
  <2>. QED
    BY <1>1, <1>3, <2>2 DEF IInv, Decided, clock
<1>9. SweepShape' /\ SweepReadsHold'
  BY <1>1 DEF IInv, SweepShape, SweepReadsHold, Overdue, tables, locks, clock
<1>10. RowsTogether'
  BY <1>1 DEF IInv, RowsTogether, tables
<1>. QED
  BY <1>4, <1>5, <1>6, <1>7, <1>8, <1>9, <1>10 DEF IInv, LockInv

(* Ending a call gives up its locks and its local copies; what the tables  *)
(* hold afterwards is the caller's business.                               *)
LEMMA EndJobFrame ==
  ASSUME IInv, NEW h \in Handler, EndJob(h)
  PROVE  /\ job' = [job EXCEPT ![h] = Idle]
         /\ \A r \in Request : reqLock'[r] = IF reqLock[r] = h THEN None ELSE reqLock[r]
         /\ \A v \in Visitor : visLock'[v] = IF visLock[v] = h THEN None ELSE visLock[v]
         /\ reqLock' \in [Request -> Proc \cup {None}]
         /\ visLock' \in [Visitor -> Proc \cup {None}]
         /\ job' \in [Handler -> JobType]
         /\ sweep' = sweep /\ today' = today /\ phase' = phase
         /\ HandlerLocks' /\ ParentGuardsVisitors' /\ FreshIds' /\ Decided' /\ SweepShape'
<1>1. /\ job' = [job EXCEPT ![h] = Idle]
      /\ \A r \in Request : reqLock'[r] = IF reqLock[r] = h THEN None ELSE reqLock[r]
      /\ \A v \in Visitor : visLock'[v] = IF visLock[v] = h THEN None ELSE visLock[v]
      /\ sweep' = sweep /\ today' = today /\ phase' = phase
  BY DEF EndJob, ReleaseLocks, clock
<1>2. /\ reqLock' \in [Request -> Proc \cup {None}]
      /\ visLock' \in [Visitor -> Proc \cup {None}]
  BY DEF EndJob, ReleaseLocks, IInv, LockInv, TypeOK
<1>3. Idle \in JobType
  BY DEF Idle, JobType, RequestStatus, VisitStatus
<1>4. job' \in [Handler -> JobType]
  BY <1>1, <1>3 DEF IInv, LockInv, TypeOK
<1>5. job'[h] = Idle /\ \A g \in Handler \ {h} : job'[g] = job[g]
  BY <1>1, <1>4 DEF IInv, LockInv, TypeOK
<1>6. HandlerLocks'
  BY <1>1, <1>5, ProcAssumption DEF IInv, LockInv, HandlerLocks
<1>7. ParentGuardsVisitors'
  BY <1>1, ParentAssumption DEF IInv, LockInv, ParentGuardsVisitors
<1>8. FreshIds' /\ Decided'
  BY <1>1, <1>5, ProcAssumption DEF IInv, LockInv, FreshIds, Decided, Idle, Op
<1>9. SweepShape'
  BY <1>1 DEF IInv, SweepShape
<1>. QED
  BY <1>1, <1>2, <1>4, <1>6, <1>7, <1>8, <1>9

(* A refused, failed or interrupted call leaves the tables alone.          *)
LEMMA RollbackInv ==
  ASSUME IInv, NEW h \in Handler, EndJob(h), UNCHANGED tables
  PROVE  IInv'
<1>. UNCHANGED <<req, vis, reqTrail, visTrail>>
  BY DEF tables
<1>1. TypeOK'
  BY EndJobFrame DEF IInv, LockInv, TypeOK
<1>2. job'[h] = Idle /\ \A g \in Handler \ {h} : job'[g] = job[g]
  BY EndJobFrame DEF IInv, LockInv, TypeOK
<1>3. JobRows'
  BY <1>2 DEF IInv, LockInv, JobRows, Idle
<1>4. HandlerReadsHold'
  <2>. SUFFICES ASSUME NEW g \in Handler \ {h} PROVE HandlerReadsHold!(g)'
    BY <1>2 DEF HandlerReadsHold, Idle
  <2>. QED
    BY <1>2, EndJobFrame DEF IInv, LockInv, HandlerReadsHold, JobRows
<1>5. SweepReadsHold'
  BY EndJobFrame, ProcAssumption, ParentAssumption DEF IInv, LockInv, TypeOK,
     SweepType, SweepReadsHold, Overdue
<1>6. RowsTogether'
  BY DEF IInv, RowsTogether
<1>. QED
  BY <1>1, <1>3, <1>4, <1>5, <1>6, EndJobFrame DEF IInv, LockInv

(* A submission inserts rows nobody else can have locked or read.          *)
LEMMA CommitSubmitInv ==
  ASSUME IInv, NEW h \in Handler, CommitSubmit(h)
  PROVE  IInv'
<1>. DEFINE r == job[h].target
<1>1. /\ job[h].pc = "commit" /\ job[h].op = "submit" /\ EndJob(h)
      /\ req' = [req EXCEPT ![r] = "SUBMITTED"]
      /\ vis' = [v \in Visitor |-> IF Parent[v] = r THEN "PENDING_ARRIVAL" ELSE vis[v]]
      /\ reqTrail' = [reqTrail EXCEPT ![r] = Append(@, "SUBMITTED")]
      /\ visTrail' = visTrail
  BY DEF CommitSubmit
<1>2. r \in Request /\ req[r] = "NONE"
  BY <1>1 DEF IInv, LockInv, JobRows
<1>3. TypeOK'
  <2>1. req' \in [Request -> RequestStatus] /\ vis' \in [Visitor -> VisitStatus]
    BY <1>1 DEF IInv, LockInv, TypeOK, RequestStatus, VisitStatus
  <2>2. reqTrail' \in [Request -> Seq(RequestStatus)]
    <3>1. Append(reqTrail[r], "SUBMITTED") \in Seq(RequestStatus)
      BY <1>2 DEF IInv, LockInv, TypeOK, RequestStatus
    <3>. QED
      BY <1>1, <3>1 DEF IInv, LockInv, TypeOK
  <2>. QED
    BY <1>1, <2>1, <2>2, EndJobFrame DEF IInv, LockInv, TypeOK
<1>4. job'[h] = Idle /\ \A g \in Handler \ {h} : job'[g] = job[g]
  BY <1>1, EndJobFrame DEF IInv, LockInv, TypeOK
<1>5. \A g \in Handler \ {h} : job[g].op = "submit" => job[g].target # r
  BY <1>1 DEF IInv, LockInv, FreshIds
<1>6. /\ req'[r] = "SUBMITTED" /\ \A q \in Request \ {r} : req'[q] = req[q]
      /\ \A v \in Visitor : vis'[v] = IF Parent[v] = r THEN "PENDING_ARRIVAL" ELSE vis[v]
  BY <1>1, <1>2 DEF IInv, LockInv, TypeOK
<1>. HIDE DEF r
<1>7. JobRows'
  BY <1>4, <1>5, <1>6 DEF IInv, LockInv, JobRows, Idle
<1>8. HandlerReadsHold'
  <2>. SUFFICES ASSUME NEW g \in Handler \ {h} PROVE HandlerReadsHold!(g)'
    BY <1>4 DEF HandlerReadsHold, Idle
  <2>1. job[g].op # "submit" /\ job[g].pc # "idle" => job[g].target # r
    BY <1>2 DEF IInv, LockInv, JobRows
  <2>. QED
    BY <1>1, <1>4, <1>6, <2>1, EndJobFrame
       DEF IInv, LockInv, HandlerReadsHold, JobRows, DoorOp
<1>9. SweepReadsHold'
  BY <1>1, <1>2, <1>6, EndJobFrame, ProcAssumption, ParentAssumption
     DEF IInv, LockInv, TypeOK, SweepType, SweepReadsHold, Overdue
<1>10. RowsTogether'
  BY <1>6, ParentAssumption DEF IInv, RowsTogether
<1>. QED
  BY <1>1, <1>3, <1>7, <1>8, <1>9, <1>10, EndJobFrame DEF IInv, LockInv

(* A decision is written to a request this call has locked.                *)
LEMMA CommitReviewInv ==
  ASSUME IInv, NEW h \in Handler, CommitReview(h)
  PROVE  IInv'
<1>. DEFINE r == job[h].target
            status == Outcome[job[h].op]
<1>1. /\ job[h].pc = "commit" /\ job[h].op \in ReviewOp /\ EndJob(h)
      /\ req' = [req EXCEPT ![r] = status]
      /\ reqTrail' = [reqTrail EXCEPT ![r] = Append(@, status)]
      /\ vis' = vis /\ visTrail' = visTrail
  BY DEF CommitReview
<1>2. /\ r \in Request /\ req[r] # "NONE" /\ reqLock[r] = h
      /\ job[h].op # "submit"
  BY <1>1 DEF IInv, LockInv, JobRows, HandlerReadsHold, ReviewOp
<1>3. status \in {"APPROVED", "REJECTED", "CANCELLED"}
  BY <1>1 DEF Outcome, ReviewOp
<1>. HIDE DEF status
<1>4. TypeOK'
  <2>1. req' \in [Request -> RequestStatus]
    BY <1>1, <1>3 DEF IInv, LockInv, TypeOK, RequestStatus
  <2>2. reqTrail' \in [Request -> Seq(RequestStatus)]
    <3>1. Append(reqTrail[r], status) \in Seq(RequestStatus)
      BY <1>2, <1>3 DEF IInv, LockInv, TypeOK, RequestStatus
    <3>. QED
      BY <1>1, <3>1 DEF IInv, LockInv, TypeOK
  <2>. QED
    BY <1>1, <2>1, <2>2, EndJobFrame DEF IInv, LockInv, TypeOK
<1>5. job'[h] = Idle /\ \A g \in Handler \ {h} : job'[g] = job[g]
  BY <1>1, EndJobFrame DEF IInv, LockInv, TypeOK
<1>6. req'[r] = status /\ \A q \in Request \ {r} : req'[q] = req[q]
  BY <1>1, <1>2 DEF IInv, LockInv, TypeOK
<1>. HIDE DEF r
<1>7. JobRows'
  BY <1>2, <1>3, <1>5, <1>6 DEF IInv, LockInv, JobRows, Idle
<1>8. HandlerReadsHold'
  <2>. SUFFICES ASSUME NEW g \in Handler \ {h} PROVE HandlerReadsHold!(g)'
    BY <1>5 DEF HandlerReadsHold, Idle
  <2>. QED
    BY <1>1, <1>2, <1>5, <1>6, EndJobFrame
       DEF IInv, LockInv, HandlerReadsHold, JobRows
<1>9. SweepReadsHold'
  BY <1>1, <1>2, <1>6, EndJobFrame, ProcAssumption, ParentAssumption
     DEF IInv, LockInv, TypeOK, SweepType, ParentGuardsVisitors, SweepReadsHold, Overdue
<1>10. RowsTogether'
  BY <1>1, <1>2, <1>3, <1>6, ParentAssumption DEF IInv, RowsTogether
<1>. QED
  BY <1>1, <1>4, <1>7, <1>8, <1>9, <1>10, EndJobFrame DEF IInv, LockInv

(* What happened at the door is written to a visitor this call has locked. *)
LEMMA CommitDoorInv ==
  ASSUME IInv, NEW h \in Handler, CommitDoor(h)
  PROVE  IInv'
<1>. DEFINE v == job[h].guest
            status == Outcome[job[h].op]
<1>1. /\ job[h].pc = "commit" /\ job[h].op \in DoorOp /\ EndJob(h)
      /\ vis' = [vis EXCEPT ![v] = status]
      /\ visTrail' = [visTrail EXCEPT ![v] = Append(@, status)]
      /\ req' = req /\ reqTrail' = reqTrail
  BY DEF CommitDoor
<1>2. /\ v \in Visitor /\ visLock[v] = h /\ vis[v] = job[h].seenVis
  BY <1>1 DEF IInv, LockInv, JobRows, HandlerReadsHold, DoorOp
<1>3. status \in {"CHECKED_IN", "CHECKED_OUT", "DENIED_ENTRY"}
  BY <1>1 DEF Outcome, DoorOp
<1>4. vis[v] \in {"PENDING_ARRIVAL", "CHECKED_IN"}
  BY <1>1, <1>2 DEF IInv, Decided, DoorOp
<1>. HIDE DEF status
<1>5. TypeOK'
  <2>1. vis' \in [Visitor -> VisitStatus]
    BY <1>1, <1>3 DEF IInv, LockInv, TypeOK, VisitStatus
  <2>2. visTrail' \in [Visitor -> Seq(VisitStatus)]
    <3>1. Append(visTrail[v], status) \in Seq(VisitStatus)
      BY <1>2, <1>3 DEF IInv, LockInv, TypeOK, VisitStatus
    <3>. QED
      BY <1>1, <3>1 DEF IInv, LockInv, TypeOK
  <2>. QED
    BY <1>1, <2>1, <2>2, EndJobFrame DEF IInv, LockInv, TypeOK
<1>6. job'[h] = Idle /\ \A g \in Handler \ {h} : job'[g] = job[g]
  BY <1>1, EndJobFrame DEF IInv, LockInv, TypeOK
<1>7. vis'[v] = status /\ \A u \in Visitor \ {v} : vis'[u] = vis[u]
  BY <1>1, <1>2 DEF IInv, LockInv, TypeOK
<1>. HIDE DEF v
<1>8. JobRows'
  BY <1>1, <1>6 DEF IInv, LockInv, JobRows, Idle
<1>9. HandlerReadsHold'
  <2>. SUFFICES ASSUME NEW g \in Handler \ {h} PROVE HandlerReadsHold!(g)'
    BY <1>6 DEF HandlerReadsHold, Idle
  <2>. QED
    BY <1>1, <1>2, <1>6, <1>7, EndJobFrame
       DEF IInv, LockInv, HandlerReadsHold, JobRows, DoorOp
<1>10. SweepReadsHold'
  BY <1>1, <1>2, <1>7, EndJobFrame, ProcAssumption, ParentAssumption
     DEF IInv, LockInv, TypeOK, SweepType, SweepReadsHold, Overdue
<1>11. RowsTogether'
  BY <1>1, <1>3, <1>4, <1>7 DEF IInv, RowsTogether
<1>. QED
  BY <1>1, <1>5, <1>8, <1>9, <1>10, <1>11, EndJobFrame DEF IInv, LockInv

(* Every step of a handler.                                                *)
LEMMA HandlerInv ==
  ASSUME IInv, NEW h \in Handler, HandlerStep(h)
  PROVE  IInv'
<1>1. ASSUME NEW r \in Request, BeginSubmit(h, r) PROVE IInv'
  <2>. DEFINE j == [Idle EXCEPT !.pc = "decide", !.op = "submit", !.target = r]
  <2>1. /\ j \in JobType /\ j.pc = "decide" /\ j.op = "submit" /\ j.target = r
    BY DEF Idle, JobType, Op, RequestStatus, VisitStatus
  <2>2. Enter(h, j) /\ req[r] = "NONE" /\ \A g \in Handler : job[g].target # r
    BY <1>1 DEF BeginSubmit
  <2>. HIDE DEF j
  <2>. QED
    BY <2>1, <2>2, EnterInv DEF Op, DoorOp
<1>2. ASSUME NEW r \in Request, NEW o \in ReviewOp, BeginReview(h, o, r) PROVE IInv'
  <2>. DEFINE j == [Idle EXCEPT !.pc = "lock_request", !.op = o, !.target = r]
  <2>1. /\ j \in JobType /\ j.pc = "lock_request" /\ j.op = o /\ j.target = r
    BY DEF Idle, JobType, Op, RequestStatus, VisitStatus
  <2>2. Enter(h, j) /\ req[r] # "NONE"
    BY <1>2 DEF BeginReview
  <2>. HIDE DEF j
  <2>. QED
    BY <2>1, <2>2, EnterInv DEF Op, DoorOp, ReviewOp
<1>3. ASSUME NEW o \in DoorOp, NEW v \in Visitor, BeginDoor(h, o, v) PROVE IInv'
  <2>. DEFINE j == [Idle EXCEPT !.pc = "lock_request", !.op = o,
                                !.target = Parent[v], !.guest = v]
  <2>1. /\ j \in JobType /\ j.pc = "lock_request" /\ j.op = o
        /\ j.target = Parent[v] /\ j.guest = v /\ Parent[v] \in Request
    BY ParentAssumption DEF Idle, JobType, Op, RequestStatus, VisitStatus
  <2>2. Enter(h, j) /\ req[Parent[v]] # "NONE"
    BY <1>3 DEF BeginDoor, IInv, RowsTogether
  <2>. HIDE DEF j
  <2>. QED
    BY <2>1, <2>2, EnterInv DEF Op, DoorOp
<1>4. CASE LockRequest(h) \/ LockVisitor(h) \/ Decide(h)
  BY <1>4, LockRequestInv, LockVisitorInv, DecideInv
<1>5. CASE Refuse(h) \/ Abort(h)
  BY <1>5, RollbackInv DEF Refuse, Abort
<1>6. CASE Commit(h)
  BY <1>6, CommitSubmitInv, CommitReviewInv, CommitDoorInv DEF Commit
<1>. QED
  BY <1>1, <1>2, <1>3, <1>4, <1>5, <1>6 DEF HandlerStep

-----------------------------------------------------------------------------
(* The sweep.                                                              *)

(* Steps that only move the sweep forward keep everything it relies on.    *)
LEMMA SweepLocalInv ==
  ASSUME IInv, NEW w \in Worker, UNCHANGED <<tables, locks, clock, job>>,
         NEW s \in SweepType, sweep' = [sweep EXCEPT ![w] = s],
         s.day <= today, s.chosen = sweep[w].chosen, s.lapsed = sweep[w].lapsed,
         s.lapsed # {} => s.pc = "visitors" /\ s.day = sweep[w].day,
         s.pc \in {"waiting", "scan"} => s.chosen = {}
  PROVE  IInv'
<1>1. sweep \in [Worker -> SweepType]
  BY DEF IInv, LockInv, TypeOK
<1>2. sweep'[w] = s /\ \A x \in Worker \ {w} : sweep'[x] = sweep[x]
  BY <1>1
<1>3. LockInv' /\ Decided' /\ RowsTogether'
  BY <1>1 DEF IInv, LockInv, TypeOK, HandlerLocks, JobRows, FreshIds,
     ParentGuardsVisitors, HandlerReadsHold, Decided, RowsTogether, tables, locks, clock
<1>4. SweepShape'
  BY <1>2 DEF IInv, SweepShape, clock
<1>5. SweepReadsHold'
  BY <1>2 DEF IInv, SweepReadsHold, Overdue, tables, locks
<1>. QED
  BY <1>3, <1>4, <1>5 DEF IInv

(* A worker that takes rows leaves every handler's rows to it.             *)
LEMMA SweepLockInv ==
  ASSUME IInv, NEW w \in Worker, NEW r \in Request, SweepLock(w, r)
  PROVE  IInv'
<1>. DEFINE s == [sweep[w] EXCEPT !.todo = @ \ {r},
                    !.chosen = IF req[r] = "APPROVED" THEN @ \cup {r} ELSE @]
<1>1. /\ sweep[w].pc = "lock" /\ reqLock[r] = None
      /\ reqLock' = [reqLock EXCEPT ![r] = w]
      /\ UNCHANGED <<req, vis, reqTrail, visTrail, visLock, today, phase, job>>
  BY DEF SweepLock, tables, clock
<1>2. /\ sweep \in [Worker -> SweepType] /\ sweep[w] \in SweepType
      /\ reqLock \in [Request -> Proc \cup {None}]
  BY DEF IInv, LockInv, TypeOK
<1>3. /\ s \in SweepType /\ s.pc = sweep[w].pc /\ s.day = sweep[w].day
      /\ s.lapsed = sweep[w].lapsed
      /\ s.chosen = IF req[r] = "APPROVED" THEN sweep[w].chosen \cup {r}
                                           ELSE sweep[w].chosen
  BY <1>2 DEF SweepType
<1>4. sweep' = [sweep EXCEPT ![w] = s]
  BY <1>2 DEF SweepLock, SweepType
<1>. HIDE DEF s
<1>5. sweep'[w] = s /\ \A x \in Worker \ {w} : sweep'[x] = sweep[x]
  BY <1>2, <1>4
<1>6. reqLock'[r] = w /\ \A q \in Request \ {r} : reqLock'[q] = reqLock[q]
  BY <1>1, <1>2
<1>7. TypeOK'
  <2>1. sweep' \in [Worker -> SweepType]
    BY <1>2, <1>3, <1>4
  <2>2. reqLock' \in [Request -> Proc \cup {None}]
    BY <1>1, <1>2 DEF Proc
  <2>. QED
    BY <1>1, <2>1, <2>2 DEF IInv, LockInv, TypeOK
<1>8. HandlerLocks' /\ ParentGuardsVisitors'
  BY <1>1, <1>6, ProcAssumption, ParentAssumption
     DEF IInv, LockInv, HandlerLocks, ParentGuardsVisitors
<1>9. JobRows' /\ FreshIds' /\ Decided' /\ RowsTogether'
  BY <1>1 DEF IInv, LockInv, JobRows, FreshIds, Decided, RowsTogether
<1>10. HandlerReadsHold'
  BY <1>1, <1>6, ProcAssumption DEF IInv, LockInv, HandlerReadsHold, JobRows
<1>11. SweepShape'
  BY <1>1, <1>3, <1>5 DEF IInv, SweepShape
<1>12. SweepReadsHold'
  BY <1>1, <1>3, <1>5, <1>6, <1>2, ProcAssumption
     DEF IInv, SweepReadsHold, SweepType, Overdue
<1>. QED
  BY <1>7, <1>8, <1>9, <1>10, <1>11, <1>12 DEF IInv, LockInv

(* The visitors of a locked request are read under their own locks.        *)
LEMMA SweepVisitorsInv ==
  ASSUME IInv, NEW w \in Worker, NEW r \in Request, SweepVisitors(w, r)
  PROVE  IInv'
<1>. DEFINE late == {v \in VisitorsOf(r) : Overdue(v, sweep[w].day)}
            s == [sweep[w] EXCEPT !.chosen = @ \ {r}, !.lapsed = @ \cup late]
<1>1. /\ sweep[w].pc = "visitors" /\ r \in sweep[w].chosen
      /\ \A v \in VisitorsOf(r) : visLock[v] = None
      /\ visLock' = [v \in Visitor |-> IF Parent[v] = r THEN w ELSE visLock[v]]
      /\ UNCHANGED <<req, vis, reqTrail, visTrail, reqLock, today, phase, job>>
  BY DEF SweepVisitors, tables, clock
<1>2. /\ sweep \in [Worker -> SweepType] /\ sweep[w] \in SweepType
      /\ visLock \in [Visitor -> Proc \cup {None}]
  BY DEF IInv, LockInv, TypeOK
<1>3. late \subseteq Visitor
  BY DEF VisitorsOf
<1>4. /\ s \in SweepType /\ s.pc = sweep[w].pc /\ s.day = sweep[w].day
      /\ s.chosen = sweep[w].chosen \ {r} /\ s.lapsed = sweep[w].lapsed \cup late
  <2>. HIDE DEF late
  <2>. QED
    BY <1>2, <1>3 DEF SweepType
<1>5. sweep' = [sweep EXCEPT ![w] = s]
  BY <1>2 DEF SweepVisitors, SweepType
<1>. HIDE DEF s
<1>6. sweep'[w] = s /\ \A x \in Worker \ {w} : sweep'[x] = sweep[x]
  BY <1>2, <1>5
<1>7. reqLock[r] = w /\ req[r] = "APPROVED"
  BY <1>1 DEF IInv, SweepReadsHold
<1>8. \A v \in Visitor : /\ Parent[v] = r => visLock'[v] = w /\ visLock[v] = None
                         /\ Parent[v] # r => visLock'[v] = visLock[v]
  BY <1>1 DEF VisitorsOf
<1>9. TypeOK'
  <2>1. visLock' \in [Visitor -> Proc \cup {None}]
    BY <1>1, <1>2 DEF Proc
  <2>2. sweep' \in [Worker -> SweepType]
    BY <1>2, <1>4, <1>5
  <2>. QED
    BY <1>1, <2>1, <2>2 DEF IInv, LockInv, TypeOK
<1>10. HandlerLocks' /\ ParentGuardsVisitors'
  BY <1>1, <1>7, <1>8, ProcAssumption DEF IInv, LockInv, HandlerLocks, ParentGuardsVisitors
<1>11. JobRows' /\ FreshIds' /\ Decided' /\ RowsTogether'
  BY <1>1 DEF IInv, LockInv, JobRows, FreshIds, Decided, RowsTogether
<1>12. HandlerReadsHold'
  BY <1>1, <1>8, ProcAssumption DEF IInv, LockInv, HandlerReadsHold, JobRows, DoorOp
<1>13. SweepShape'
  BY <1>1, <1>4, <1>6 DEF IInv, SweepShape
<1>14. SweepReadsHold'
  <2>1. \A v \in late : /\ visLock'[v] = w /\ req[Parent[v]] = "APPROVED"
                        /\ Overdue(v, sweep[w].day)
    BY <1>7, <1>8 DEF VisitorsOf
  <2>2. \A x \in Worker : \A v \in sweep[x].lapsed : visLock'[v] = x
    BY <1>2, <1>8, ProcAssumption DEF IInv, SweepReadsHold, SweepType
  <2>. HIDE DEF late
  <2>. QED
    BY <1>1, <1>4, <1>6, <2>1, <2>2 DEF IInv, SweepReadsHold, Overdue
<1>. QED
  BY <1>9, <1>10, <1>11, <1>12, <1>13, <1>14 DEF IInv, LockInv

LEMMA EndSweepFrame ==
  ASSUME IInv, NEW w \in Worker, EndSweep(w)
  PROVE  /\ \A r \in Request : reqLock'[r] = IF reqLock[r] = w THEN None ELSE reqLock[r]
         /\ \A v \in Visitor : visLock'[v] = IF visLock[v] = w THEN None ELSE visLock[v]
         /\ reqLock' \in [Request -> Proc \cup {None}]
         /\ visLock' \in [Visitor -> Proc \cup {None}]
         /\ sweep' \in [Worker -> SweepType]
         /\ sweep'[w] = Waiting /\ \A x \in Worker \ {w} : sweep'[x] = sweep[x]
         /\ UNCHANGED <<today, phase, job, req, reqTrail>>
         /\ HandlerLocks' /\ ParentGuardsVisitors' /\ JobRows' /\ FreshIds'
         /\ Decided' /\ SweepShape'
<1>1. /\ sweep' = [sweep EXCEPT ![w] = Waiting]
      /\ \A r \in Request : reqLock'[r] = IF reqLock[r] = w THEN None ELSE reqLock[r]
      /\ \A v \in Visitor : visLock'[v] = IF visLock[v] = w THEN None ELSE visLock[v]
      /\ UNCHANGED <<today, phase, job, req, reqTrail>>
  BY DEF EndSweep, ReleaseLocks, clock
<1>2. /\ reqLock' \in [Request -> Proc \cup {None}]
      /\ visLock' \in [Visitor -> Proc \cup {None}]
  BY DEF EndSweep, ReleaseLocks, IInv, LockInv, TypeOK
<1>3. sweep \in [Worker -> SweepType] /\ Waiting \in SweepType
  BY DEF IInv, LockInv, TypeOK, Waiting, SweepType
<1>4. /\ sweep' \in [Worker -> SweepType] /\ sweep'[w] = Waiting
      /\ \A x \in Worker \ {w} : sweep'[x] = sweep[x]
  BY <1>1, <1>3
<1>5. HandlerLocks' /\ ParentGuardsVisitors'
  BY <1>1, ProcAssumption, ParentAssumption DEF IInv, LockInv, HandlerLocks, ParentGuardsVisitors
<1>6. JobRows' /\ FreshIds' /\ Decided'
  BY <1>1 DEF IInv, LockInv, JobRows, FreshIds, Decided
<1>7. SweepShape'
  BY <1>1, <1>4 DEF IInv, LockInv, TypeOK, SweepShape, Waiting
<1>. QED
  BY <1>1, <1>2, <1>4, <1>5, <1>6, <1>7

(* A sweep commits no-shows on rows it holds, or rolls all of them back.   *)
LEMMA SweepEndInv ==
  ASSUME IInv, NEW w \in Worker, SweepCommit(w) \/ SweepFail(w)
  PROVE  IInv'
<1>. DEFINE S == IF SweepCommit(w) THEN sweep[w].lapsed ELSE {}
<1>1. /\ EndSweep(w)
      /\ vis \in [Visitor -> VisitStatus] /\ visTrail \in [Visitor -> Seq(VisitStatus)]
  BY DEF SweepCommit, SweepFail, IInv, LockInv, TypeOK
<1>2. \A v \in S : visLock[v] = w /\ vis[v] = "PENDING_ARRIVAL"
  BY DEF IInv, SweepReadsHold, Overdue
<1>3. \A v \in Visitor : vis'[v] = IF v \in S THEN "NO_SHOW" ELSE vis[v]
  BY <1>1 DEF SweepCommit, SweepFail
<1>4. vis' \in [Visitor -> VisitStatus] /\ visTrail' \in [Visitor -> Seq(VisitStatus)]
  <2>1. CASE SweepCommit(w)
    <3>1. vis' \in [Visitor -> VisitStatus]
      BY <1>1, <2>1 DEF SweepCommit, VisitStatus
    <3>2. \A v \in Visitor : Append(visTrail[v], "NO_SHOW") \in Seq(VisitStatus)
      BY <1>1 DEF VisitStatus
    <3>3. visTrail' \in [Visitor -> Seq(VisitStatus)]
      BY <1>1, <2>1, <3>2 DEF SweepCommit
    <3>. QED
      BY <3>1, <3>3
  <2>2. CASE SweepFail(w)
    BY <1>1, <2>2 DEF SweepFail
  <2>. QED
    BY <2>1, <2>2
<1>. HIDE DEF S
<1>5. TypeOK'
  BY <1>1, <1>4, EndSweepFrame DEF IInv, LockInv, TypeOK
<1>6. HandlerReadsHold'
  BY <1>1, <1>2, <1>3, EndSweepFrame, ProcAssumption
     DEF IInv, LockInv, HandlerReadsHold, JobRows, DoorOp
<1>7. SweepReadsHold'
  <2>. SUFFICES ASSUME NEW x \in Worker \ {w} PROVE SweepReadsHold!(x)'
    BY <1>1, EndSweepFrame DEF SweepReadsHold, Waiting
  <2>1. sweep'[x] = sweep[x] /\ sweep[x] \in SweepType /\ req' = req
    BY <1>1, EndSweepFrame DEF IInv, LockInv, TypeOK
  <2>2. \A r \in sweep[x].chosen : reqLock'[r] = x /\ req'[r] = "APPROVED"
    <3>1. /\ sweep[x].chosen \subseteq Request
          /\ \A r \in sweep[x].chosen : reqLock[r] = x /\ req[r] = "APPROVED"
      BY <2>1 DEF IInv, SweepReadsHold, SweepType
    <3>. QED
      BY <1>1, <2>1, <3>1, EndSweepFrame
  <2>3. \A v \in sweep[x].lapsed :
          /\ v \in Visitor /\ v \notin S /\ visLock'[v] = x
          /\ req'[Parent[v]] = "APPROVED" /\ vis'[v] = vis[v]
          /\ Overdue(v, sweep[x].day)
    BY <1>1, <1>2, <1>3, <2>1, EndSweepFrame DEF IInv, SweepReadsHold, SweepType
  <2>. QED
    BY <2>1, <2>2, <2>3 DEF Overdue
<1>8. RowsTogether'
  BY <1>1, <1>2, <1>3, EndSweepFrame DEF IInv, RowsTogether
<1>. QED
  BY <1>1, <1>5, <1>6, <1>7, <1>8, EndSweepFrame DEF IInv, LockInv

(* Every step of a worker.                                                 *)
LEMMA SweepInv ==
  ASSUME IInv, NEW w \in Worker, SweepStep(w)
  PROVE  IInv'
<1>. /\ sweep \in [Worker -> SweepType] /\ sweep[w] \in SweepType
     /\ today \in Nat /\ sweep[w].day <= today
  BY DEF IInv, LockInv, TypeOK, SweepShape
<1>1. CASE SweepBegin(w)
  <2>. DEFINE s == [sweep[w] EXCEPT !.pc = "scan", !.day = today]
  <2>1. /\ s \in SweepType /\ s.day = today /\ s.chosen = sweep[w].chosen
        /\ s.lapsed = sweep[w].lapsed
    BY DEF SweepType
  <2>2. sweep[w].lapsed = {} /\ sweep[w].chosen = {}
    BY <1>1 DEF SweepBegin, IInv, SweepShape
  <2>3. sweep' = [sweep EXCEPT ![w] = s] /\ UNCHANGED <<tables, locks, clock, job>>
    BY <1>1 DEF SweepBegin, SweepType
  <2>. HIDE DEF s
  <2>4. s.day <= today
    BY <2>1
  <2>. QED
    BY <2>1, <2>2, <2>3, <2>4, SweepLocalInv
<1>2. CASE SweepScan(w)
  <2>. DEFINE T == {r \in Request : /\ req[r] = "APPROVED"
                                    /\ \E v \in VisitorsOf(r) : Overdue(v, sweep[w].day)}
              s == [sweep[w] EXCEPT !.pc = "lock", !.todo = T]
  <2>1. T \subseteq Request
    OBVIOUS
  <2>2. sweep' = [sweep EXCEPT ![w] = s] /\ UNCHANGED <<tables, locks, clock, job>>
    BY <1>2 DEF SweepScan, SweepType
  <2>3. sweep[w].lapsed = {} /\ sweep[w].chosen = {}
    BY <1>2 DEF SweepScan, IInv, SweepShape
  <2>. HIDE DEF T
  <2>4. /\ s \in SweepType /\ s.day = sweep[w].day /\ s.chosen = sweep[w].chosen
        /\ s.lapsed = sweep[w].lapsed
    BY <2>1 DEF SweepType
  <2>. HIDE DEF s
  <2>. QED
    BY <2>2, <2>3, <2>4, SweepLocalInv
<1>3. ASSUME NEW r \in Request, SweepSkip(w, r) PROVE IInv'
  <2>. DEFINE s == [sweep[w] EXCEPT !.todo = @ \ {r}]
  <2>1. sweep' = [sweep EXCEPT ![w] = s] /\ UNCHANGED <<tables, locks, clock, job>>
    BY <1>3 DEF SweepSkip, SweepType
  <2>2. /\ s \in SweepType /\ s.day = sweep[w].day /\ s.chosen = sweep[w].chosen
        /\ s.lapsed = sweep[w].lapsed /\ s.pc = "lock"
    BY <1>3 DEF SweepSkip, SweepType
  <2>3. sweep[w].lapsed = {}
    BY <1>3 DEF SweepSkip, IInv, SweepShape
  <2>. HIDE DEF s
  <2>. QED
    BY <2>1, <2>2, <2>3, SweepLocalInv
<1>4. CASE SweepRows(w)
  <2>. DEFINE s == [sweep[w] EXCEPT !.pc = "visitors"]
  <2>1. sweep' = [sweep EXCEPT ![w] = s] /\ UNCHANGED <<tables, locks, clock, job>>
    BY <1>4 DEF SweepRows, SweepType
  <2>2. /\ s \in SweepType /\ s.day = sweep[w].day /\ s.chosen = sweep[w].chosen
        /\ s.lapsed = sweep[w].lapsed /\ s.pc = "visitors"
    BY DEF SweepType
  <2>. HIDE DEF s
  <2>. QED
    BY <2>1, <2>2, SweepLocalInv
<1>. QED
  BY <1>1, <1>2, <1>3, <1>4, SweepLockInv, SweepVisitorsInv, SweepEndInv DEF SweepStep

LEMMA NextInv == IInv /\ [Next]_vars => IInv'
<1>. SUFFICES ASSUME IInv, [Next]_vars PROVE IInv'
  OBVIOUS
<1>1. CASE UNCHANGED vars
  <2>. UNCHANGED <<req, vis, reqTrail, visTrail, reqLock, visLock, today, phase, job, sweep>>
    BY <1>1 DEF vars, tables, locks, clock
  <2>. QED
    BY DEF IInv, LockInv, TypeOK, HandlerLocks, JobRows, FreshIds, ParentGuardsVisitors,
       HandlerReadsHold, Decided, SweepShape, SweepReadsHold, Overdue, RowsTogether
<1>2. CASE Next
  BY <1>2, TickInv, HandlerInv, SweepInv DEF Next
<1>. QED
  BY <1>1, <1>2

(* Every row, lock and local copy keeps its type, and the locking          *)
(* discipline holds in every reachable state: the hypothesis of all that   *)
(* follows.                                                                *)
THEOREM Invariance == Spec => []IInv
BY InitInv, NextInv, PTL DEF Spec

THEOREM TypeCorrect == Spec => []TypeOK
BY Invariance, PTL DEF IInv, LockInv

(* Whoever holds a visitor row holds its request (requests/service.py:34). *)
THEOREM ParentFirst == Spec => []ParentGuardsVisitors
BY Invariance, PTL DEF IInv, LockInv

(* What a handler validated is still so when it commits, however many      *)
(* handlers and workers run.                                               *)
THEOREM HandlersReadCurrentRows == Spec => []HandlerReadsHold
BY Invariance, PTL DEF IInv, LockInv

(* Whom a sweep is about to write off is still overdue and approved.       *)
THEOREM SweepsReadCurrentRows == Spec => []SweepReadsHold
BY Invariance, PTL DEF IInv

-----------------------------------------------------------------------------
(* The audit log.                                                          *)

(* A trail of one entry grows to a trail of two, one of two to three.      *)
LEMMA AppendToOne ==
  ASSUME NEW a, NEW b
  PROVE  Append(<<a>>, b) = <<a, b>>
<1>. DEFINE S == {a, b}
            s == Append(<<a>>, b)
            t == <<a, b>>
<1>1. s \in Seq(S) /\ Len(s) = 2 /\ s[1] = a /\ s[2] = b
  OBVIOUS
<1>2. t \in Seq(S) /\ Len(t) = 2 /\ t[1] = a /\ t[2] = b
  OBVIOUS
<1>. HIDE DEF s, t
<1>3. \A i \in 1 .. Len(s) : s[i] = t[i]
  BY <1>1, <1>2
<1>4. s = t
  BY <1>1, <1>2, <1>3, SeqEqual
<1>. QED
  BY <1>4 DEF s, t

LEMMA AppendToTwo ==
  ASSUME NEW a, NEW b, NEW c
  PROVE  Append(<<a, b>>, c) = <<a, b, c>>
<1>. DEFINE S == {a, b, c}
            s == Append(<<a, b>>, c)
            t == <<a, b, c>>
<1>1. s \in Seq(S) /\ Len(s) = 3 /\ s[1] = a /\ s[2] = b /\ s[3] = c
  OBVIOUS
<1>2. t \in Seq(S) /\ Len(t) = 3 /\ t[1] = a /\ t[2] = b /\ t[3] = c
  OBVIOUS
<1>. HIDE DEF s, t
<1>3. \A i \in 1 .. Len(s) : s[i] = t[i]
  BY <1>1, <1>2
<1>4. s = t
  BY <1>1, <1>2, <1>3, SeqEqual
<1>. QED
  BY <1>4 DEF s, t

LEMMA AuditSubmit ==
  ASSUME IInv, AuditExplainsStatus, NEW h \in Handler, CommitSubmit(h)
  PROVE  AuditExplainsStatus'
<1>. DEFINE r == job[h].target
<1>1. r \in Request /\ req[r] = "NONE"
  BY DEF CommitSubmit, IInv, LockInv, JobRows
<1>2. reqTrail[r] = <<>>
  BY <1>1 DEF AuditExplainsStatus, RequestHistory
<1>3. /\ \A q \in Request : /\ req'[q] = IF q = r THEN "SUBMITTED" ELSE req[q]
                            /\ reqTrail'[q] = IF q = r THEN <<"SUBMITTED">> ELSE reqTrail[q]
      /\ \A v \in Visitor : /\ vis'[v] = IF Parent[v] = r THEN "PENDING_ARRIVAL" ELSE vis[v]
                            /\ visTrail'[v] = visTrail[v]
  BY <1>1, <1>2 DEF CommitSubmit, IInv, LockInv, TypeOK
<1>4. \A v \in Visitor : Parent[v] = r => visTrail[v] = <<>>
  BY <1>1 DEF IInv, RowsTogether, AuditExplainsStatus, VisitorHistory
<1>. HIDE DEF r
<1>. QED
  BY <1>3, <1>4 DEF AuditExplainsStatus, RequestHistory, VisitorHistory

LEMMA AuditReview ==
  ASSUME IInv, AuditExplainsStatus, NEW h \in Handler, CommitReview(h)
  PROVE  AuditExplainsStatus'
<1>. DEFINE r == job[h].target
            status == Outcome[job[h].op]
<1>1. /\ job[h].pc = "commit" /\ job[h].op \in ReviewOp
      /\ r \in Request /\ req[r] = job[h].seenReq
  BY DEF CommitReview, IInv, LockInv, JobRows, HandlerReadsHold, ReviewOp
<1>2. \/ status \in {"APPROVED", "REJECTED"} /\ req[r] = "SUBMITTED"
      \/ status = "CANCELLED" /\ req[r] \in {"SUBMITTED", "APPROVED"}
  BY <1>1 DEF IInv, Decided, Outcome, ReviewOp
<1>3. \/ req[r] = "SUBMITTED" /\ reqTrail[r] = <<"SUBMITTED">>
      \/ req[r] = "APPROVED" /\ reqTrail[r] = <<"SUBMITTED", "APPROVED">>
  BY <1>1, <1>2 DEF AuditExplainsStatus, RequestHistory
<1>4. /\ \A q \in Request : /\ req'[q] = IF q = r THEN status ELSE req[q]
                            /\ reqTrail'[q] = IF q = r THEN Append(reqTrail[r], status)
                                                       ELSE reqTrail[q]
      /\ vis' = vis /\ visTrail' = visTrail
  BY <1>1 DEF CommitReview, IInv, LockInv, TypeOK
<1>. HIDE DEF r, status
<1>5. Append(reqTrail[r], status) \in RequestHistory[status]
  <2>1. /\ Append(<<"SUBMITTED">>, "APPROVED") = <<"SUBMITTED", "APPROVED">>
        /\ Append(<<"SUBMITTED">>, "REJECTED") = <<"SUBMITTED", "REJECTED">>
        /\ Append(<<"SUBMITTED">>, "CANCELLED") = <<"SUBMITTED", "CANCELLED">>
        /\ Append(<<"SUBMITTED", "APPROVED">>, "CANCELLED")
             = <<"SUBMITTED", "APPROVED", "CANCELLED">>
    BY AppendToOne, AppendToTwo
  <2>2. CASE status = "APPROVED"
    BY <1>2, <1>3, <2>1, <2>2 DEF RequestHistory
  <2>3. CASE status = "REJECTED"
    BY <1>2, <1>3, <2>1, <2>3 DEF RequestHistory
  <2>4. CASE status = "CANCELLED"
    BY <1>3, <2>1, <2>4 DEF RequestHistory
  <2>. QED
    BY <1>2, <2>2, <2>3, <2>4
<1>. QED
  BY <1>4, <1>5 DEF AuditExplainsStatus

LEMMA AuditDoor ==
  ASSUME IInv, AuditExplainsStatus, NEW h \in Handler, CommitDoor(h)
  PROVE  AuditExplainsStatus'
<1>. DEFINE v == job[h].guest
            status == Outcome[job[h].op]
<1>1. /\ job[h].pc = "commit" /\ job[h].op \in DoorOp
      /\ v \in Visitor /\ vis[v] = job[h].seenVis
  BY DEF CommitDoor, IInv, LockInv, JobRows, HandlerReadsHold, DoorOp
<1>2. \/ status \in {"CHECKED_IN", "DENIED_ENTRY"} /\ vis[v] = "PENDING_ARRIVAL"
      \/ status = "CHECKED_OUT" /\ vis[v] = "CHECKED_IN"
  BY <1>1 DEF IInv, Decided, Outcome, DoorOp
<1>3. \/ vis[v] = "PENDING_ARRIVAL" /\ visTrail[v] = <<>>
      \/ vis[v] = "CHECKED_IN" /\ visTrail[v] = <<"CHECKED_IN">>
  BY <1>1, <1>2 DEF AuditExplainsStatus, VisitorHistory
<1>4. /\ \A u \in Visitor : /\ vis'[u] = IF u = v THEN status ELSE vis[u]
                            /\ visTrail'[u] = IF u = v THEN Append(visTrail[v], status)
                                                       ELSE visTrail[u]
      /\ req' = req /\ reqTrail' = reqTrail
  BY <1>1 DEF CommitDoor, IInv, LockInv, TypeOK
<1>. HIDE DEF v, status
<1>5. Append(visTrail[v], status) = VisitorHistory[status]
  <2>1. /\ Append(<<>>, "CHECKED_IN") = <<"CHECKED_IN">>
        /\ Append(<<>>, "DENIED_ENTRY") = <<"DENIED_ENTRY">>
        /\ Append(<<"CHECKED_IN">>, "CHECKED_OUT") = <<"CHECKED_IN", "CHECKED_OUT">>
    BY AppendToOne
  <2>2. CASE status = "CHECKED_IN"
    BY <1>2, <1>3, <2>1, <2>2 DEF VisitorHistory
  <2>3. CASE status = "DENIED_ENTRY"
    BY <1>2, <1>3, <2>1, <2>3 DEF VisitorHistory
  <2>4. CASE status = "CHECKED_OUT"
    BY <1>2, <1>3, <2>1, <2>4 DEF VisitorHistory
  <2>. QED
    BY <1>2, <2>2, <2>3, <2>4
<1>. QED
  BY <1>4, <1>5 DEF AuditExplainsStatus

LEMMA AuditSweep ==
  ASSUME IInv, AuditExplainsStatus, NEW w \in Worker, SweepCommit(w)
  PROVE  AuditExplainsStatus'
<1>. DEFINE S == sweep[w].lapsed
<1>1. \A v \in Visitor : v \in S => visTrail[v] = <<>>
  BY DEF IInv, SweepReadsHold, Overdue, AuditExplainsStatus, VisitorHistory
<1>2. /\ \A v \in Visitor : /\ vis'[v] = IF v \in S THEN "NO_SHOW" ELSE vis[v]
                            /\ visTrail'[v] = IF v \in S THEN Append(visTrail[v], "NO_SHOW")
                                                         ELSE visTrail[v]
      /\ req' = req /\ reqTrail' = reqTrail
  BY DEF SweepCommit, EndSweep
<1>3. Append(<<>>, "NO_SHOW") = <<"NO_SHOW">>
  OBVIOUS
<1>. HIDE DEF S
<1>4. ASSUME NEW v \in Visitor PROVE visTrail'[v] = VisitorHistory[vis'[v]]
  <2>1. CASE v \in S
    <3>1. vis'[v] = "NO_SHOW" /\ visTrail'[v] = <<"NO_SHOW">>
      BY <1>1, <1>2, <1>3, <2>1
    <3>. QED
      BY <3>1 DEF VisitorHistory
  <2>2. CASE v \notin S
    BY <1>2, <2>2 DEF AuditExplainsStatus
  <2>. QED
    BY <2>1, <2>2
<1>. QED
  BY <1>2, <1>4 DEF AuditExplainsStatus

(* A step either commits or leaves the committed tables alone.             *)
LEMMA OnlyCommitsWrite ==
  ASSUME [Next]_vars
  PROVE  \/ UNCHANGED tables
         \/ \E h \in Handler : CommitSubmit(h) \/ CommitReview(h) \/ CommitDoor(h)
         \/ \E w \in Worker : SweepCommit(w)
<1>1. CASE UNCHANGED vars
  BY <1>1 DEF vars
<1>2. CASE Tick
  BY <1>2 DEF Tick, Arrive, Depart, Midnight
<1>3. ASSUME NEW h \in Handler, HandlerStep(h), ~Commit(h) PROVE UNCHANGED tables
  BY <1>3 DEF HandlerStep, BeginSubmit, BeginReview, BeginDoor, Enter, LockRequest,
     LockVisitor, Decide, Refuse, Abort
<1>4. ASSUME NEW w \in Worker, SweepStep(w), ~SweepCommit(w) PROVE UNCHANGED tables
  BY <1>4 DEF SweepStep, SweepBegin, SweepScan, SweepRows, SweepLock, SweepSkip,
     SweepVisitors, SweepFail, EndSweep, tables
<1>. QED
  BY <1>1, <1>2, <1>3, <1>4 DEF Next, Commit

(* Every status is the end of a legal audit history: each change recorded  *)
(* once, nothing recorded for a call that was refused or rolled back.      *)
THEOREM AuditComplete == Spec => []AuditExplainsStatus
<1>1. Init => AuditExplainsStatus
  BY ParentAssumption DEF Init, AuditExplainsStatus, InitialRequests, InitialVisitors,
     RequestHistory, VisitorHistory
<1>2. IInv /\ AuditExplainsStatus /\ [Next]_vars => AuditExplainsStatus'
  <2>. SUFFICES ASSUME IInv, AuditExplainsStatus, [Next]_vars PROVE AuditExplainsStatus'
    OBVIOUS
  <2>1. CASE UNCHANGED tables
    BY <2>1 DEF tables, AuditExplainsStatus
  <2>. QED
    BY <2>1, OnlyCommitsWrite, AuditSubmit, AuditReview, AuditDoor, AuditSweep
<1>. QED
  BY <1>1, <1>2, Invariance, PTL DEF Spec

-----------------------------------------------------------------------------
(* Implementation of the abstract protocol, with the identity as mapping.  *)

LEMMA RefineSubmit ==
  ASSUME IInv, NEW h \in Handler, CommitSubmit(h)
  PROVE  \E r \in Request : Protocol!Submit(r)
<1>1. job[h].target \in Request /\ req[job[h].target] = "NONE"
  BY DEF CommitSubmit, IInv, LockInv, JobRows
<1>2. Protocol!Submit(job[h].target)
  BY <1>1 DEF CommitSubmit, EndJob, clock, Protocol!Submit
<1>. QED
  BY <1>1, <1>2

LEMMA RefineReview ==
  ASSUME IInv, NEW h \in Handler, CommitReview(h)
  PROVE  \E r \in Request : Protocol!Approve(r) \/ Protocol!Reject(r) \/ Protocol!Cancel(r)
<1>. DEFINE r == job[h].target
<1>1. /\ job[h].op \in ReviewOp /\ r \in Request /\ req[r] = job[h].seenReq
      /\ req' = [req EXCEPT ![r] = Outcome[job[h].op]]
      /\ vis' = vis /\ today' = today
  BY DEF CommitReview, EndJob, clock, IInv, LockInv, JobRows, HandlerReadsHold, ReviewOp
<1>2. \/ Outcome[job[h].op] = "APPROVED" /\ req[r] = "SUBMITTED"
      \/ Outcome[job[h].op] = "REJECTED" /\ req[r] = "SUBMITTED"
      \/ Outcome[job[h].op] = "CANCELLED" /\ req[r] \in {"SUBMITTED", "APPROVED"}
  BY <1>1 DEF CommitReview, IInv, Decided, Outcome, ReviewOp
<1>3. Protocol!Approve(r) \/ Protocol!Reject(r) \/ Protocol!Cancel(r)
  BY <1>1, <1>2 DEF Protocol!Approve, Protocol!Reject, Protocol!Cancel, Protocol!Review
<1>. QED
  BY <1>1, <1>3

LEMMA RefineDoor ==
  ASSUME IInv, NEW h \in Handler, CommitDoor(h)
  PROVE  \E v \in Visitor : Protocol!CheckIn(v) \/ Protocol!Deny(v) \/ Protocol!CheckOut(v)
<1>. DEFINE v == job[h].guest
<1>1. /\ job[h].op \in DoorOp /\ v \in Visitor /\ job[h].target = Parent[v]
      /\ vis[v] = job[h].seenVis /\ req[Parent[v]] = job[h].seenReq
      /\ vis' = [vis EXCEPT ![v] = Outcome[job[h].op]]
      /\ req' = req /\ today' = today
  BY DEF CommitDoor, EndJob, clock, IInv, LockInv, JobRows, HandlerReadsHold, DoorOp
<1>2. /\ VisitDate[Parent[v]] <= today
      /\ \/ /\ vis[v] = "PENDING_ARRIVAL" /\ req[Parent[v]] = "APPROVED"
            /\ Outcome[job[h].op] \in {"CHECKED_IN", "DENIED_ENTRY"}
         \/ vis[v] = "CHECKED_IN" /\ Outcome[job[h].op] = "CHECKED_OUT"
  BY <1>1 DEF CommitDoor, IInv, Decided, Outcome, DoorOp
<1>3. Protocol!CheckIn(v) \/ Protocol!Deny(v) \/ Protocol!CheckOut(v)
  BY <1>1, <1>2 DEF Protocol!CheckIn, Protocol!Deny, Protocol!CheckOut, Protocol!Attend,
     Protocol!DateOf
<1>. QED
  BY <1>1, <1>3

LEMMA RefineSweep ==
  ASSUME IInv, NEW w \in Worker, SweepCommit(w)
  PROVE  \E S \in SUBSET Visitor : Protocol!Lapse(S)
<1>. DEFINE S == sweep[w].lapsed
<1>1. S \in SUBSET Visitor /\ sweep[w].day \in Nat /\ today \in Nat /\ sweep[w].day <= today
  BY DEF IInv, LockInv, TypeOK, SweepType, SweepShape
<1>2. \A v \in Visitor : VisitDate[Parent[v]] \in Int
  BY ParentAssumption, VisitDateAssumption
<1>3. \A v \in S : /\ req[Parent[v]] = "APPROVED" /\ vis[v] = "PENDING_ARRIVAL"
                   /\ VisitDate[Parent[v]] < today
  BY <1>1, <1>2 DEF IInv, SweepReadsHold, Overdue, DateOf
<1>4. Protocol!Lapse(S)
  BY <1>3 DEF SweepCommit, EndSweep, clock, Protocol!Lapse, Protocol!DateOf
<1>. QED
  BY <1>1, <1>4

(* Every step of the locking transactions is one step of the protocol, or  *)
(* none, seen from the committed tables.                                   *)
THEOREM Implementation == Spec => ProtocolSpec
<1>1. Init => Protocol!Init
  BY DEF Init, Protocol!Init, InitialRequests, InitialVisitors,
     Protocol!InitialRequests, Protocol!InitialVisitors
<1>2. IInv /\ [Next]_vars => [Protocol!Next]_(Protocol!vars)
  <2>. SUFFICES ASSUME IInv, [Next]_vars PROVE Protocol!Next \/ UNCHANGED <<today, req, vis>>
    BY DEF Protocol!vars
  <2>1. CASE Tick
    BY <2>1 DEF Tick, Arrive, Depart, Midnight, tables, Protocol!Next, Protocol!NewDay
  <2>2. CASE UNCHANGED tables /\ ~Tick
    <3>1. today' = today
      BY <2>2, ZenonT(30) DEF Next, vars, clock, HandlerStep, BeginSubmit, BeginReview, BeginDoor, Enter,
         LockRequest, LockVisitor, Decide, Refuse, Commit, CommitSubmit, CommitReview,
         CommitDoor, Abort, EndJob, SweepStep, SweepBegin, SweepScan, SweepRows, SweepLock,
         SweepSkip, SweepVisitors, SweepCommit, SweepFail, EndSweep
    <3>2. UNCHANGED <<today, req, vis>>
      BY <2>2, <3>1, Zenon DEF tables
    <3>. QED
      BY <3>2, Zenon
  <2>3. CASE ~UNCHANGED tables
    BY <2>3, OnlyCommitsWrite, RefineSubmit, RefineReview, RefineDoor, RefineSweep
       DEF Protocol!Next
  <2>. QED
    BY <2>1, <2>2, <2>3
<1>. QED
  BY <1>1, <1>2, Invariance, PTL DEF Spec, ProtocolSpec, Protocol!Spec

(* Hence what the protocol guarantees holds under concurrency: the date    *)
(* guard of check-out (security_portal/service.py:180) never keeps a       *)
(* person in, and outcomes agree with decisions.                           *)
THEOREM WorkflowSafe ==
  Spec => [](Protocol!InsideMayLeave /\ Protocol!OutcomesMatchDecisions)
<1>1. Protocol!Init <=> Abstract!Init
  BY DEF Protocol!Init, Abstract!Init, Protocol!InitialRequests, Protocol!InitialVisitors,
     Abstract!InitialRequests, Abstract!InitialVisitors
<1>2. [Protocol!Next]_(Protocol!vars) <=> [Abstract!Next]_(Abstract!vars)
  BY DEF Protocol!Next, Protocol!vars, Protocol!NewDay, Protocol!Submit, Protocol!Review,
     Protocol!Approve, Protocol!Reject, Protocol!Cancel, Protocol!Attend, Protocol!CheckIn,
     Protocol!Deny, Protocol!CheckOut, Protocol!Lapse, Protocol!DateOf,
     Abstract!Next, Abstract!vars, Abstract!NewDay, Abstract!Submit, Abstract!Review,
     Abstract!Approve, Abstract!Reject, Abstract!Cancel, Abstract!Attend, Abstract!CheckIn,
     Abstract!Deny, Abstract!CheckOut, Abstract!Lapse, Abstract!DateOf
<1>3. Abstract!InsideMayLeave /\ Abstract!OutcomesMatchDecisions
        => Protocol!InsideMayLeave /\ Protocol!OutcomesMatchDecisions
  BY DEF Protocol!InsideMayLeave, Protocol!OutcomesMatchDecisions, Protocol!DateOf,
     Abstract!InsideMayLeave, Abstract!OutcomesMatchDecisions, Abstract!DateOf
<1>4. Abstract!Spec => [](Abstract!InsideMayLeave /\ Abstract!OutcomesMatchDecisions)
  BY Abstract!ProtocolSafe, ParentAssumption, VisitDateAssumption, LegacyAssumption,
     MaxDayAssumption
<1>. QED
  BY <1>1, <1>2, <1>3, <1>4, Implementation, PTL DEF ProtocolSpec, Protocol!Spec, Abstract!Spec

(* A person inside is let out by whatever check-out comes to decide, under *)
(* a request cancelled meanwhile and on a later day too.                   *)
THEOREM NobodyKeptIn == Spec => []DeparturesAccepted
<1>1. IInv /\ Protocol!InsideMayLeave => DeparturesAccepted
  <2>. SUFFICES ASSUME IInv, Protocol!InsideMayLeave, NEW h \in Handler,
                       job[h].pc = "decide", job[h].op = "check_out",
                       vis[job[h].guest] = "CHECKED_IN"
                PROVE  Allowed(h)
    BY DEF DeparturesAccepted
  <2>1. job[h].guest \in Visitor /\ job[h].target = Parent[job[h].guest]
    BY DEF IInv, LockInv, JobRows, DoorOp
  <2>2. job[h].seenVis = "CHECKED_IN"
    BY DEF IInv, LockInv, HandlerReadsHold, DoorOp
  <2>3. VisitDate[job[h].target] <= today
    BY <2>1 DEF Protocol!InsideMayLeave, Protocol!DateOf
  <2>. QED
    BY <2>2, <2>3 DEF Allowed, Leaving
<1>. QED
  BY <1>1, WorkflowSafe, Invariance, PTL

=============================================================================
