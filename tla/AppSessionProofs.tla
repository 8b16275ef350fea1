-------------------------- MODULE AppSessionProofs --------------------------
(***************************************************************************)
(* Proofs about AppSession for any sets of sessions, users, handlers and   *)
(* workers and any timeout: who may write a session row, and what a call   *)
(* or a sweep that holds its lock may rely on until it commits.            *)
(***************************************************************************)
EXTENDS AppSession, TLAPS

(* A call under way names a user and a row; a start, a row not yet there.  *)
CallNames(h) ==
  /\ job[h].pc # "idle" => /\ job[h].op \in Op
                           /\ job[h].user \in User
                           /\ job[h].session \in Session
  /\ job[h].pc \in {"lock", "check"} => job[h].op # "start"
  /\ job[h].op = "start" => /\ job[h].session \in Session
                            /\ ~Inserted(job[h].session)

(* What a call has established about the row it holds.                     *)
CallHolds(h) ==
  LET s == job[h].session IN
  /\ job[h].pc \in {"check", "stamp", "commit"} /\ job[h].op # "start" =>
       lock[s] = h /\ owner[s] = job[h].user
  /\ Holding(h) => activity[s] # Null /\ ended[s] = Null
  /\ job[h].pc = "commit" /\ job[h].op = "end" => ended[s] = Null

(* A sweep has locked what it will write, and each of it is still stale.   *)
SweepOwns(p) ==
  /\ \A s \in job[p].todo : Inserted(s)
  /\ \A s \in job[p].marked : lock[s] = p /\ Stale(s, job[p].at)
  /\ job[p].pc # "mark" => job[p].marked = {}

(* Two starts under way never carry the same id.                           *)
FreshStarts ==
  \A g, h \in Handler :
    job[g].op = "start" /\ job[h].op = "start" /\ job[g].session = job[h].session => g = h

BlankRows ==
  \A s \in Session : ~Inserted(s) => activity[s] = Null /\ ended[s] = Null /\ lock[s] = None

IInv ==
  /\ TypeOK
  /\ \A h \in Handler : CallNames(h) /\ CallHolds(h)
  /\ \A p \in Proc : SweepOwns(p)
  /\ FreshStarts /\ BlankRows

-----------------------------------------------------------------------------
(* The discipline of every step of p: rows locked by another transaction   *)
(* stay as they are, and only a start inserts a row, its own.              *)
Disciplined(p) ==
  /\ \A q \in Proc \ {p} : job'[q] = job[q]
  /\ job'[p].op = "start" => job[p].op = "start" /\ job'[p].session = job[p].session
  /\ \A s \in Session :
       /\ lock[s] \notin {None, p} => /\ lock'[s] = lock[s] /\ owner'[s] = owner[s]
                                      /\ activity'[s] = activity[s] /\ ended'[s] = ended[s]
       /\ Inserted(s) => Inserted(s)'
       /\ ~Inserted(s) /\ Inserted(s)' =>
            p \in Handler /\ job[p].op = "start" /\ job[p].session = s
       /\ ~Inserted(s)' => /\ activity'[s] = activity[s] /\ ended'[s] = ended[s]
                           /\ lock'[s] = lock[s]

(* A disciplined step preserves the invariant of everybody else.           *)
LEMMA DisciplineInv ==
  ASSUME IInv, NEW p \in Proc, TypeOK', Disciplined(p),
         p \in Handler => CallNames(p)' /\ CallHolds(p)',
         SweepOwns(p)'
  PROVE  IInv'
<1>1. ASSUME NEW h \in Handler \ {p} PROVE CallNames(h)'
  <2>1. job'[h] = job[h] /\ CallNames(h)
    BY DEF Disciplined, IInv, Proc
  <2>2. job[h].op = "start" => ~Inserted(job[h].session)'
    BY <2>1 DEF Disciplined, CallNames, IInv, FreshStarts
  <2>. QED
    BY <2>1, <2>2 DEF CallNames
<1>2. ASSUME NEW h \in Handler \ {p} PROVE CallHolds(h)'
  <2>1. job'[h] = job[h] /\ CallHolds(h) /\ CallNames(h)
    BY DEF Disciplined, IInv, Proc
  <2>2. CASE job[h].pc \in {"check", "stamp", "commit"} /\ job[h].op # "start"
    <3>1. job[h].session \in Session /\ lock[job[h].session] \notin {None, p}
      BY <2>1, <2>2, SessionAssumption DEF CallHolds, CallNames
    <3>. QED
      BY <2>1, <3>1 DEF Disciplined, CallHolds, Holding
  <2>3. CASE ~(job[h].pc \in {"check", "stamp", "commit"} /\ job[h].op # "start")
    BY <2>1, <2>3 DEF CallHolds, Holding, CheckedOp
  <2>. QED
    BY <2>2, <2>3
<1>3. ASSUME NEW q \in Proc \ {p} PROVE SweepOwns(q)'
  <2>1. job'[q] = job[q] /\ SweepOwns(q) /\ job[q] \in JobType
    BY DEF Disciplined, IInv, TypeOK
  <2>2. \A s \in job[q].todo : Inserted(s)'
    BY <2>1 DEF Disciplined, SweepOwns, JobType
  <2>3. \A s \in job[q].marked : lock'[s] = q /\ Stale(s, job[q].at)'
    <3>. SUFFICES ASSUME NEW s \in job[q].marked
                  PROVE  lock'[s] = q /\ Stale(s, job[q].at)'
      OBVIOUS
    <3>1. s \in Session /\ lock[s] \notin {None, p} /\ lock[s] = q /\ Stale(s, job[q].at)
      BY <2>1, SessionAssumption DEF SweepOwns, JobType, Proc
    <3>. QED
      BY <2>1, <3>1 DEF Disciplined, Stale
  <2>. QED
    BY <2>1, <2>2, <2>3 DEF SweepOwns
<1>4. FreshStarts'
  BY DEF Disciplined, IInv, FreshStarts, Proc
<1>5. BlankRows'
  BY DEF Disciplined, IInv, BlankRows
<1>. QED
  BY <1>1, <1>2, <1>3, <1>4, <1>5 DEF IInv, Proc

(* A step that ends p's transaction leaves nothing to show of p itself.    *)
LEMMA DoneInv ==
  ASSUME IInv, NEW p \in Proc, Done(p), TypeOK',
         \A s \in Session :
           /\ lock[s] # p /\ ~(p \in Handler /\ job[p].op = "start" /\ job[p].session = s) =>
                owner'[s] = owner[s] /\ activity'[s] = activity[s] /\ ended'[s] = ended[s]
           /\ lock[s] = p => (owner'[s] = None <=> owner[s] = None),
         p \in Handler /\ job[p].op = "start" =>
           \/ UNCHANGED <<owner, activity, ended>>
           \/ owner'[job[p].session] # None
  PROVE  IInv'
<1>1. job'[p] = Idle /\ \A q \in Proc \ {p} : job'[q] = job[q]
  BY DEF Done, IInv, TypeOK
<1>2. \A s \in Session : lock'[s] = IF lock[s] = p THEN None ELSE lock[s]
  BY DEF Done, Release
<1>3. Disciplined(p)
  <2>1. job'[p].op # "start"
    BY <1>1, NoneAssumption DEF Idle, Op
  <2>2. ASSUME NEW s \in Session, p \in Handler, job[p].op = "start", job[p].session = s
        PROVE  ~Inserted(s) /\ lock[s] = None /\ activity[s] = Null /\ ended[s] = Null
    BY <2>2 DEF IInv, CallNames, BlankRows
  <2>3. p # None
    BY SessionAssumption DEF Proc
  <2>4. \A s \in Session : Inserted(s) => Inserted(s)'
    BY <2>2 DEF Inserted
  <2>5. \A s \in Session : ~Inserted(s) /\ Inserted(s)' =>
            p \in Handler /\ job[p].op = "start" /\ job[p].session = s
    BY DEF Inserted
  <2>6. \A s \in Session : ~Inserted(s)' =>
          activity'[s] = activity[s] /\ ended'[s] = ended[s] /\ lock'[s] = lock[s]
    BY <1>2, <2>2, <2>3, <2>4 DEF Inserted, IInv, BlankRows
  <2>. QED
    BY <1>1, <1>2, <2>1, <2>2, <2>4, <2>5, <2>6 DEF Disciplined, IInv
<1>4. SweepOwns(p)' /\ (p \in Handler => CallNames(p)' /\ CallHolds(p)')
  BY <1>1, NoneAssumption DEF Idle, SweepOwns, CallNames, CallHolds, Holding, Op
<1>. QED
  BY <1>3, <1>4, DisciplineInv

(* A step that writes no row and frees no lock, only taking some that are  *)
(* free on rows that exist, is disciplined.                                *)
LEMMA MoveInv ==
  ASSUME IInv, NEW p \in Proc, NEW j \in JobType, job' = [job EXCEPT ![p] = j],
         lock' \in [Session -> Proc \cup {None}], UNCHANGED rows, now' \in Nat,
         \A s \in Session : lock'[s] # lock[s] => lock[s] = None /\ Inserted(s),
         j.op = "start" => job[p].op = "start" /\ j.session = job[p].session,
         p \in Handler => CallNames(p)' /\ CallHolds(p)',
         SweepOwns(p)'
  PROVE  IInv'
<1>1. TypeOK'
  BY DEF IInv, TypeOK, rows
<1>2. job'[p] = j /\ \A q \in Proc \ {p} : job'[q] = job[q]
  BY DEF IInv, TypeOK
<1>3. \A s \in Session : Inserted(s)' <=> Inserted(s)
  BY DEF Inserted, rows
<1>4. Disciplined(p)
  BY <1>2, <1>3 DEF Disciplined, rows
<1>. QED
  BY <1>1, <1>4, DisciplineInv

LEMMA InitInv == Init => IInv
<1>. SUFFICES ASSUME Init PROVE IInv
  OBVIOUS
<1>1. TypeOK
  BY NoneAssumption DEF Init, TypeOK, Idle, JobType, Null
<1>2. \A p \in Proc : job[p] = Idle
  BY DEF Init
<1>3. \A h \in Handler : CallNames(h) /\ CallHolds(h)
  BY <1>2, NoneAssumption DEF Proc, Idle, CallNames, CallHolds, Holding, Op
<1>4. \A p \in Proc : SweepOwns(p)
  BY <1>2 DEF Idle, SweepOwns
<1>5. FreshStarts /\ BlankRows
  BY <1>2, NoneAssumption DEF Init, Proc, Idle, FreshStarts, BlankRows, Op
<1>. QED
  BY <1>1, <1>3, <1>4, <1>5 DEF IInv

(* The clock disturbs no transaction: each works with what it has read.    *)
LEMMA TickInv == IInv /\ Tick => IInv'
<1>. SUFFICES ASSUME IInv, Tick PROVE IInv'
  OBVIOUS
<1>1. TypeOK'
  BY DEF IInv, TypeOK, Tick, rows
<1>2. \A s \in Session : /\ Inserted(s)' <=> Inserted(s)
                         /\ \A at : Stale(s, at)' <=> Stale(s, at)
  BY DEF Tick, rows, Inserted, Stale
<1>3. \A h \in Handler : CallNames(h)' /\ CallHolds(h)'
  BY DEF IInv, Tick, rows, CallNames, CallHolds, Holding, Inserted
<1>4. \A p \in Proc : SweepOwns(p)'
  BY <1>2 DEF IInv, TypeOK, JobType, Tick, rows, SweepOwns, Inserted, Stale
<1>5. FreshStarts' /\ BlankRows'
  BY DEF IInv, Tick, rows, FreshStarts, BlankRows, Inserted
<1>. QED
  BY <1>1, <1>3, <1>4, <1>5 DEF IInv

(* A call begins; a start has picked an id nobody else has.                *)
LEMMA CallInv ==
  ASSUME IInv, NEW h \in Handler, NEW o \in Op, NEW u \in User, NEW s \in Session,
         Call(h, o, u, s)
  PROVE  IInv'
<1>. DEFINE j == [Idle EXCEPT !.pc = IF o \in CheckedOp THEN "lock" ELSE "sweep",
                              !.op = o, !.user = u, !.session = s]
<1>1. /\ job' = [job EXCEPT ![h] = j] /\ UNCHANGED <<rows, now, lock>>
      /\ o = "start" => /\ ~Inserted(s)
                        /\ \A g \in Handler : job[g].op = "start" => job[g].session # s
  BY DEF Call
<1>2. /\ j.pc = IF o \in CheckedOp THEN "lock" ELSE "sweep"
      /\ j.op = o /\ j.user = u /\ j.session = s /\ j.todo = {} /\ j.marked = {}
      /\ j \in JobType
  BY DEF Idle, JobType
<1>. HIDE DEF j
<1>3. job'[h] = j /\ \A q \in Proc \ {h} : job'[q] = job[q]
  BY <1>1 DEF IInv, TypeOK, Proc
<1>4. TypeOK'
  BY <1>1, <1>2 DEF IInv, TypeOK, rows
<1>5. \A r \in Session : /\ Inserted(r)' <=> Inserted(r)
                         /\ \A at : Stale(r, at)' <=> Stale(r, at)
  BY <1>1 DEF rows, Inserted, Stale
<1>6. \A g \in Handler : CallNames(g)' /\ CallHolds(g)'
  <2>1. CallNames(h)' /\ CallHolds(h)'
    BY <1>1, <1>2, <1>3 DEF CallNames, CallHolds, Holding, CheckedOp, rows, Inserted
  <2>2. ASSUME NEW g \in Handler \ {h} PROVE CallNames(g)' /\ CallHolds(g)'
    BY <1>1, <1>3 DEF IInv, CallNames, CallHolds, Holding, rows, Inserted, Proc
  <2>. QED
    BY <2>1, <2>2
<1>7. \A q \in Proc : SweepOwns(q)'
  <2>1. SweepOwns(h)'
    BY <1>2, <1>3 DEF SweepOwns
  <2>2. ASSUME NEW q \in Proc \ {h} PROVE SweepOwns(q)'
    BY <1>1, <1>3, <1>5 DEF IInv, TypeOK, JobType, SweepOwns
  <2>. QED
    BY <2>1, <2>2
<1>8. FreshStarts'
  BY <1>1, <1>2, <1>3 DEF IInv, FreshStarts, Proc
<1>9. BlankRows'
  BY <1>1 DEF IInv, BlankRows, rows, Inserted
<1>. QED
  BY <1>4, <1>6, <1>7, <1>8, <1>9 DEF IInv

(* The sweep's statements.                                                 *)
LEMMA SweepInv ==
  ASSUME IInv, NEW p \in Proc, SweepStep(p)
  PROVE  IInv'
<1>. job \in [Proc -> JobType] /\ job[p] \in JobType /\ lock \in [Session -> Proc \cup {None}]
     /\ now \in Nat
  BY DEF IInv, TypeOK
<1>. SweepOwns(p) /\ (p \in Handler => CallNames(p) /\ CallHolds(p))
  BY DEF IInv
<1>1. ASSUME SweepClock(p) PROVE IInv'
  <2>. DEFINE j == [job[p] EXCEPT !.pc = "scan", !.at = now]
  <2>1. job' = [job EXCEPT ![p] = j] /\ job[p].pc = "sweep" /\ UNCHANGED <<rows, now, lock>>
    BY <1>1 DEF SweepClock
  <2>2. j \in JobType /\ job'[p] = j
    BY <2>1 DEF JobType
  <2>3. SweepOwns(p)'
    BY <2>1, <2>2 DEF SweepOwns, JobType, Inserted, rows
  <2>4. p \in Handler => CallNames(p)' /\ CallHolds(p)'
    BY <2>1, <2>2 DEF CallNames, CallHolds, Holding, JobType, Inserted, rows
  <2>. QED
    BY <2>1, <2>2, <2>3, <2>4, MoveInv DEF JobType
<1>2. ASSUME SweepScan(p) PROVE IInv'
  <2>. DEFINE j == [job[p] EXCEPT !.pc = "mark", !.todo = {s \in Session : Stale(s, job[p].at)}]
  <2>1. job' = [job EXCEPT ![p] = j] /\ job[p].pc = "scan" /\ UNCHANGED <<rows, now, lock>>
    BY <1>2 DEF SweepScan
  <2>2. j \in JobType /\ job'[p] = j
    BY <2>1 DEF JobType
  <2>3. SweepOwns(p)'
    BY <2>1, <2>2 DEF SweepOwns, JobType, Inserted, Stale, rows
  <2>4. p \in Handler => CallNames(p)' /\ CallHolds(p)'
    BY <2>1, <2>2 DEF CallNames, CallHolds, Holding, JobType, Inserted, rows
  <2>. QED
    BY <2>1, <2>2, <2>3, <2>4, MoveInv DEF JobType
<1>3. ASSUME NEW s \in Session, SweepMark(p, s) PROVE IInv'
  <2>. DEFINE j == [job[p] EXCEPT !.todo = @ \ {s},
                                  !.marked = IF Stale(s, job[p].at) THEN @ \cup {s} ELSE @]
  <2>1. /\ job' = [job EXCEPT ![p] = j] /\ job[p].pc = "mark" /\ s \in job[p].todo
        /\ lock[s] = None /\ lock' = [lock EXCEPT ![s] = p] /\ UNCHANGED <<rows, now>>
    BY <1>3 DEF SweepMark
  <2>2. j \in JobType /\ job'[p] = j
    BY <2>1 DEF JobType
  <2>3. SweepOwns(p)'
    BY <2>1, <2>2 DEF SweepOwns, JobType, Inserted, Stale, rows
  <2>4. p \in Handler => CallNames(p)' /\ CallHolds(p)'
    BY <2>1, <2>2 DEF CallNames, CallHolds, Holding, JobType, Inserted, rows
  <2>5. Inserted(s)
    BY <2>1 DEF SweepOwns
  <2>. QED
    BY <2>1, <2>2, <2>3, <2>4, <2>5, MoveInv DEF JobType
<1>4. ASSUME NEW s \in Session, SweepSkip(p, s) PROVE IInv'
  <2>. DEFINE j == [job[p] EXCEPT !.todo = @ \ {s}]
  <2>1. /\ job' = [job EXCEPT ![p] = j] /\ job[p].pc = "mark"
        /\ UNCHANGED <<rows, now, lock>>
    BY <1>4 DEF SweepSkip
  <2>2. j \in JobType /\ job'[p] = j
    BY <2>1 DEF JobType
  <2>3. SweepOwns(p)'
    BY <2>1, <2>2 DEF SweepOwns, JobType, Inserted, Stale, rows
  <2>4. p \in Handler => CallNames(p)' /\ CallHolds(p)'
    BY <2>1, <2>2 DEF CallNames, CallHolds, Holding, JobType, Inserted, rows
  <2>. QED
    BY <2>1, <2>2, <2>3, <2>4, MoveInv DEF JobType
<1>5. ASSUME SweepCommit(p) PROVE IInv'
  <2>. DEFINE next == IF p \in Worker THEN Idle
                      ELSE [Idle EXCEPT !.pc = IF job[p].op = "start" THEN "stamp" ELSE "lock",
                              !.op = job[p].op, !.user = job[p].user, !.session = job[p].session]
  <2>1. /\ job[p].pc = "mark" /\ job' = [job EXCEPT ![p] = next]
        /\ ended' = [s \in Session |-> IF s \in job[p].marked THEN job[p].at ELSE ended[s]]
        /\ reason' = [s \in Session |-> IF s \in job[p].marked THEN "SESSION_TIMED_OUT"
                                                               ELSE reason[s]]
        /\ lock' = [s \in Session |-> IF lock[s] = p THEN None ELSE lock[s]]
        /\ UNCHANGED <<owner, activity, now>>
    BY <1>5 DEF SweepCommit, Release
  <2>2. /\ next \in JobType /\ job'[p] = next /\ next.todo = {} /\ next.marked = {}
        /\ next.pc # "mark"
        /\ p \in Handler => /\ next.op = job[p].op /\ next.user = job[p].user
                            /\ next.session = job[p].session
                            /\ next.pc = IF job[p].op = "start" THEN "stamp" ELSE "lock"
        /\ p \in Worker => next.op = None
    BY <2>1, SessionAssumption DEF Idle, JobType
  <2>. HIDE DEF next
  <2>3. TypeOK'
    BY <2>1, <2>2 DEF IInv, TypeOK, JobType, Reasons
  <2>4. \A s \in Session : Inserted(s)' <=> Inserted(s)
    BY <2>1 DEF Inserted
  <2>5. \A s \in job[p].marked : lock[s] = p /\ Inserted(s)
    BY DEF SweepOwns, Stale
  <2>6. Disciplined(p)
    <3>1. \A s \in Session : lock[s] = p => Inserted(s)
      BY SessionAssumption DEF IInv, BlankRows, Proc
    <3>2. next.op = "start" => next.op = job[p].op /\ next.session = job[p].session
      BY <2>2, NoneAssumption DEF Proc, Op
    <3>. QED
      BY <2>1, <2>2, <2>4, <2>5, <3>1, <3>2, SessionAssumption DEF Disciplined, Proc
  <2>7. SweepOwns(p)'
    BY <2>2 DEF SweepOwns
  <2>8. p \in Handler => CallNames(p)' /\ CallHolds(p)'
    BY <2>1, <2>2, <2>4, SessionAssumption DEF CallNames, CallHolds, Holding, CheckedOp
  <2>. QED
    BY <2>3, <2>6, <2>7, <2>8, DisciplineInv
<1>. QED
  BY <1>1, <1>2, <1>3, <1>4, <1>5 DEF SweepStep

(* Ending without a write: an answer read off the row, a failure.          *)
LEMMA GiveUpInv ==
  ASSUME IInv, NEW p \in Proc, Done(p), UNCHANGED <<rows, now>>
  PROVE  IInv'
<1>1. TypeOK'
  BY NoneAssumption DEF IInv, TypeOK, rows, Done, Release, Idle, JobType
<1>. QED
  BY <1>1, DoneInv DEF rows

(* The statements of a call before its commit.                             *)
LEMMA StatementInv ==
  ASSUME IInv, NEW h \in Handler, LockSession(h) \/ CheckPasses(h) \/ Stamp(h)
  PROVE  IInv'
<1>. h \in Proc /\ job \in [Proc -> JobType] /\ job[h] \in JobType
     /\ lock \in [Session -> Proc \cup {None}] /\ now \in Nat
  BY DEF IInv, TypeOK, Proc
<1>. SweepOwns(h) /\ CallNames(h) /\ CallHolds(h)
  BY DEF IInv
<1>. DEFINE s == job[h].session
<1>1. ASSUME LockSession(h) PROVE IInv'
  <2>. DEFINE j == [job[h] EXCEPT !.pc = IF job[h].op = "end" THEN "stamp" ELSE "check"]
  <2>1. /\ job' = [job EXCEPT ![h] = j] /\ job[h].pc = "lock" /\ owner[s] = job[h].user
        /\ lock[s] = None /\ lock' = [lock EXCEPT ![s] = h] /\ UNCHANGED <<rows, now>>
    BY <1>1 DEF LockSession, Goto
  <2>2. j \in JobType /\ job'[h] = j
    BY <2>1 DEF JobType
  <2>3. SweepOwns(h)'
    BY <2>1, <2>2 DEF SweepOwns, JobType, Inserted, rows
  <2>4. s \in Session /\ Inserted(s)
    BY <2>1, SessionAssumption DEF CallNames, Inserted
  <2>5. CallNames(h)' /\ CallHolds(h)'
    BY <2>1, <2>2, <2>4 DEF CallNames, CallHolds, Holding, CheckedOp, Op, JobType, Inserted, rows
  <2>. QED
    BY <2>1, <2>2, <2>3, <2>4, <2>5, MoveInv DEF JobType
<1>2. ASSUME CheckPasses(h) PROVE IInv'
  <2>. DEFINE j == [job[h] EXCEPT !.pc = "stamp"]
  <2>1. /\ job' = [job EXCEPT ![h] = j] /\ job[h].pc = "check"
        /\ ended[s] = Null /\ activity[s] # Null /\ UNCHANGED <<rows, now, lock>>
    BY <1>2 DEF CheckPasses, Goto
  <2>2. j \in JobType /\ job'[h] = j
    BY <2>1 DEF JobType
  <2>3. SweepOwns(h)'
    BY <2>1, <2>2 DEF SweepOwns, JobType, Inserted, rows
  <2>4. CallNames(h)' /\ CallHolds(h)'
    BY <2>1, <2>2 DEF CallNames, CallHolds, Holding, JobType, Inserted, rows
  <2>. QED
    BY <2>1, <2>2, <2>3, <2>4, MoveInv DEF JobType
<1>3. ASSUME Stamp(h) PROVE IInv'
  <2>. DEFINE j == [job[h] EXCEPT !.pc = "commit", !.at = now]
  <2>1. /\ job' = [job EXCEPT ![h] = j] /\ job[h].pc = "stamp"
        /\ job[h].op = "end" => ended[s] = Null
        /\ UNCHANGED <<rows, now, lock>>
    BY <1>3 DEF Stamp
  <2>2. j \in JobType /\ job'[h] = j
    BY <2>1 DEF JobType
  <2>3. SweepOwns(h)'
    BY <2>1, <2>2 DEF SweepOwns, JobType, Inserted, rows
  <2>4. CallNames(h)' /\ CallHolds(h)'
    BY <2>1, <2>2 DEF CallNames, CallHolds, Holding, JobType, Inserted, rows
  <2>. QED
    BY <2>1, <2>2, <2>3, <2>4, MoveInv DEF JobType
<1>. QED
  BY <1>1, <1>2, <1>3

(* The statements that write the call's row and commit.                    *)
LEMMA CommitInv ==
  ASSUME IInv, NEW h \in Handler,
         CheckTimesOut(h) \/ CommitStart(h) \/ CommitActivity(h) \/ CommitEnd(h)
  PROVE  IInv'
<1>. h \in Proc /\ job[h] \in JobType /\ Done(h)
  BY DEF IInv, TypeOK, Proc, CheckTimesOut, CommitStart, CommitActivity, CommitEnd
<1>. CallNames(h) /\ CallHolds(h)
  BY DEF IInv
<1>. DEFINE s == job[h].session
<1>1. lock' \in [Session -> Proc \cup {None}] /\ job' \in [Proc -> JobType]
  BY NoneAssumption DEF IInv, TypeOK, Done, Release, Idle, JobType
<1>2. CASE CheckTimesOut(h)
  <2>1. TypeOK'
    BY <1>1, <1>2 DEF CheckTimesOut, IInv, TypeOK, Reasons
  <2>2. s \in Session /\ lock[s] = h /\ job[h].op # "start"
    BY <1>2 DEF CheckTimesOut, CallNames, CallHolds
  <2>. QED
    BY <1>2, <2>1, <2>2, DoneInv DEF CheckTimesOut, IInv, TypeOK
<1>3. CASE CommitStart(h)
  <2>1. s \in Session /\ job[h].user \in User /\ job[h].op = "start"
    BY <1>3 DEF CommitStart, CallNames
  <2>2. TypeOK'
    BY <1>1, <1>3, <2>1 DEF CommitStart, IInv, TypeOK, JobType
  <2>3. \A r \in Session : lock[r] = h => r # s
    BY <2>1, SessionAssumption DEF IInv, BlankRows, CallNames, Proc
  <2>4. /\ owner'[s] # None
        /\ \A r \in Session : r # s => owner'[r] = owner[r] /\ activity'[r] = activity[r]
        /\ ended' = ended
    BY <1>3, <2>1, SessionAssumption DEF CommitStart, IInv, TypeOK
  <2>. QED
    BY <2>1, <2>2, <2>3, <2>4, DoneInv
<1>4. CASE CommitActivity(h)
  <2>1. TypeOK'
    BY <1>1, <1>4 DEF CommitActivity, IInv, TypeOK, JobType
  <2>2. s \in Session /\ lock[s] = h /\ job[h].op # "start"
    BY <1>4 DEF CommitActivity, CallNames, CallHolds
  <2>3. /\ UNCHANGED <<owner, ended>>
        /\ \A r \in Session : r # s => activity'[r] = activity[r]
    BY <1>4 DEF CommitActivity, IInv, TypeOK
  <2>. QED
    BY <2>1, <2>2, <2>3, DoneInv
<1>5. CASE CommitEnd(h)
  <2>1. TypeOK'
    <3>1. PICK why \in Reasons : reason' = [reason EXCEPT ![s] = why]
      BY <1>5 DEF CommitEnd
    <3>2. reason' \in [Session -> Reasons \cup {None}]
      BY <3>1 DEF IInv, TypeOK
    <3>3. job[h].at \in Nat /\ ended' = [ended EXCEPT ![s] = job[h].at]
      BY <1>5 DEF CommitEnd, JobType
    <3>4. ended' \in [Session -> Nat \cup {Null}] /\ UNCHANGED <<owner, activity, now>>
      BY <1>5, <3>3 DEF CommitEnd, IInv, TypeOK
    <3>. QED
      BY <1>1, <3>2, <3>4 DEF IInv, TypeOK
  <2>2. s \in Session /\ lock[s] = h /\ job[h].op # "start"
    BY <1>5 DEF CommitEnd, CallNames, CallHolds
  <2>3. /\ UNCHANGED <<owner, activity>>
        /\ \A r \in Session : r # s => ended'[r] = ended[r]
    BY <1>5 DEF CommitEnd, IInv, TypeOK
  <2>. QED
    BY <2>1, <2>2, <2>3, DoneInv
<1>. QED
  BY <1>2, <1>3, <1>4, <1>5

LEMMA NextInv == IInv /\ [Next]_vars => IInv'
<1>. SUFFICES ASSUME IInv, [Next]_vars PROVE IInv'
  OBVIOUS
<1>1. CASE Tick
  BY <1>1, TickInv
<1>2. ASSUME NEW h \in Handler, NEW o \in Op, NEW u \in User, NEW s \in Session, Call(h, o, u, s)
      PROVE  IInv'
  BY <1>2, CallInv
<1>3. ASSUME NEW h \in Handler, CallStep(h) PROVE IInv'
  <2>1. CASE NotFound(h) \/ CheckEnded(h) \/ AlreadyEnded(h) \/ CommitOther(h)
    BY <2>1, GiveUpInv DEF NotFound, CheckEnded, AlreadyEnded, CommitOther, Proc
  <2>2. CASE LockSession(h) \/ CheckPasses(h) \/ Stamp(h)
    BY <2>2, StatementInv
  <2>3. CASE CheckTimesOut(h) \/ CommitStart(h) \/ CommitActivity(h) \/ CommitEnd(h)
    BY <2>3, CommitInv
  <2>. QED
    BY <1>3, <2>1, <2>2, <2>3 DEF CallStep
<1>4. ASSUME NEW w \in Worker, WorkerWakes(w) PROVE IInv'
  <2>. DEFINE j == [job[w] EXCEPT !.pc = "sweep"]
  <2>1. /\ job' = [job EXCEPT ![w] = j] /\ job[w].pc = "idle" /\ w \in Proc
        /\ UNCHANGED <<rows, now, lock>> /\ job[w] \in JobType /\ SweepOwns(w)
    BY <1>4 DEF WorkerWakes, Goto, IInv, TypeOK, Proc
  <2>2. j \in JobType /\ job'[w] = j
    BY <2>1 DEF IInv, TypeOK, JobType
  <2>3. SweepOwns(w)'
    BY <2>1, <2>2 DEF SweepOwns, JobType, Inserted, rows
  <2>4. w \notin Handler
    BY SessionAssumption
  <2>5. now' \in Nat /\ lock' \in [Session -> Proc \cup {None}] /\ UNCHANGED rows
    BY <2>1 DEF IInv, TypeOK
  <2>. QED
    BY <2>1, <2>2, <2>3, <2>4, <2>5, MoveInv DEF JobType
<1>5. ASSUME NEW p \in Proc, SweepStep(p) PROVE IInv'
  BY <1>5, SweepInv
<1>6. ASSUME NEW p \in Proc, Abort(p) PROVE IInv'
  BY <1>6, GiveUpInv DEF Abort
<1>7. CASE UNCHANGED vars
  BY <1>7 DEF vars, rows, IInv, TypeOK, CallNames, CallHolds, Holding, SweepOwns, FreshStarts,
     BlankRows, Inserted, Stale
<1>. QED
  BY <1>1, <1>2, <1>3, <1>4, <1>5, <1>6, <1>7 DEF Next

LEMMA Always == Spec => []IInv
BY InitInv, NextInv, PTL DEF Spec

-----------------------------------------------------------------------------
(* The rows and the calls under way have the types of the tables and of    *)
(* the handlers' variables.                                                *)
THEOREM TypeCorrect == Spec => []TypeOK
BY Always, PTL DEF IInv

(* The session of a protected call that has passed the check stays open,   *)
(* locked and its user's own until the call has committed.                 *)
THEOREM SessionsOpenInUse == Spec => []OpenWhileInUse
<1>1. IInv => OpenWhileInUse
  <2>. SUFFICES ASSUME IInv, NEW h \in Handler, Holding(h) PROVE OpenWhileInUse!(h)!2
    BY DEF OpenWhileInUse
  <2>1. CallHolds(h)
    BY DEF IInv
  <2>2. job[h].pc \in {"check", "stamp", "commit"} /\ job[h].op # "start"
    BY ZenonT(30) DEF Holding, CheckedOp
  <2>. QED
    BY <2>1, <2>2 DEF CallHolds
<1>. QED
  BY <1>1, Always, PTL

(* Whoever writes a row that has ended leaves it as it is, and only the    *)
(* user's own call, or the timeout being over, ends one.                   *)
LEMMA EndStep ==
  ASSUME IInv, [Next]_vars, NEW s \in Session
  PROVE  /\ ended[s] # Null =>
              ended'[s] = ended[s] /\ reason'[s] = reason[s] /\ activity'[s] = activity[s]
         /\ ended[s] = Null /\ ended'[s] # Null =>
              \/ /\ reason'[s] = "SESSION_TIMED_OUT"
                 /\ activity[s] # Null => activity[s] + Timeout <= ended'[s]
              \/ \E h \in Handler : /\ lock[s] = h /\ job[h].pc = "commit"
                                   /\ job[h].op = "end" /\ job[h].user = owner[s]
<1>. DEFINE Goal == /\ ended[s] # Null => /\ ended'[s] = ended[s] /\ reason'[s] = reason[s]
                                          /\ activity'[s] = activity[s]
                    /\ ended[s] = Null /\ ended'[s] # Null =>
                         \/ /\ reason'[s] = "SESSION_TIMED_OUT"
                            /\ activity[s] # Null => activity[s] + Timeout <= ended'[s]
                         \/ \E h \in Handler : /\ lock[s] = h /\ job[h].pc = "commit"
                                              /\ job[h].op = "end" /\ job[h].user = owner[s]
<1>. SUFFICES Goal
  OBVIOUS
<1>1. CASE UNCHANGED <<activity, ended, reason>>
  BY <1>1
<1>2. ASSUME NEW p \in Proc, SweepCommit(p) PROVE Goal
  <2>1. s \in job[p].marked => Stale(s, job[p].at)
    BY DEF IInv, SweepOwns
  <2>2. /\ ended'[s] = IF s \in job[p].marked THEN job[p].at ELSE ended[s]
        /\ reason'[s] = IF s \in job[p].marked THEN "SESSION_TIMED_OUT" ELSE reason[s]
        /\ activity' = activity
    BY <1>2 DEF SweepCommit
  <2>. QED
    BY <2>1, <2>2 DEF Stale
<1>3. ASSUME NEW h \in Handler, CheckTimesOut(h) PROVE Goal
  <2>1. /\ ended' = [ended EXCEPT ![job[h].session] = now]
        /\ reason' = [reason EXCEPT ![job[h].session] = "SESSION_TIMED_OUT"]
        /\ activity' = activity
        /\ ended[job[h].session] = Null /\ activity[job[h].session] + Timeout <= now
    BY <1>3 DEF CheckTimesOut, Overdue
  <2>. QED
    BY <2>1 DEF IInv, TypeOK
<1>4. ASSUME NEW h \in Handler, CommitStart(h) PROVE Goal
  <2>1. activity' = [activity EXCEPT ![job[h].session] = job[h].at] /\ UNCHANGED <<ended, reason>>
        /\ ended[job[h].session] = Null
    BY <1>4 DEF CommitStart, IInv, CallNames, BlankRows
  <2>. QED
    BY <2>1 DEF IInv, TypeOK
<1>5. ASSUME NEW h \in Handler, CommitActivity(h) PROVE Goal
  <2>1. activity' = [activity EXCEPT ![job[h].session] = job[h].at] /\ UNCHANGED <<ended, reason>>
        /\ ended[job[h].session] = Null
    BY <1>5 DEF CommitActivity, IInv, CallHolds, Holding, CheckedOp
  <2>. QED
    BY <2>1 DEF IInv, TypeOK
<1>6. ASSUME NEW h \in Handler, CommitEnd(h) PROVE Goal
  <2>1. PICK why \in Reasons : /\ ended' = [ended EXCEPT ![job[h].session] = job[h].at]
                               /\ reason' = [reason EXCEPT ![job[h].session] = why]
                               /\ activity' = activity
    BY <1>6 DEF CommitEnd
  <2>2. /\ ended[job[h].session] = Null /\ lock[job[h].session] = h
        /\ owner[job[h].session] = job[h].user
        /\ job[h].pc = "commit" /\ job[h].op = "end"
    BY <1>6 DEF CommitEnd, IInv, CallHolds
  <2>. QED
    BY <2>1, <2>2 DEF IInv, TypeOK
<1>. QED
  BY <1>1, <1>2, <1>3, <1>4, <1>5, <1>6, ZenonT(30) DEF Next, vars, rows, Tick, Call, CallStep, WorkerWakes,
     SweepStep, Abort, LockSession, NotFound, CheckEnded, CheckPasses, Stamp, AlreadyEnded,
     CommitOther, SweepClock, SweepScan, SweepMark, SweepSkip

(* No activity, second end or sweep ever changes an ended session.         *)
THEOREM EndsAreFinal == Spec => EndIsFinal
<1>1. IInv /\ [Next]_vars => \A s \in Session : ended[s] # Null =>
        ended'[s] = ended[s] /\ reason'[s] = reason[s] /\ activity'[s] = activity[s]
  BY EndStep
<1>. QED
  BY <1>1, Always, PTL DEF Spec, EndIsFinal

(* A session ends at its own user's call or when idle for the timeout.     *)
THEOREM EndsHaveACause == Spec => SessionsEndForCause
<1>1. IInv /\ [Next]_vars => \A s \in Session : ended[s] = Null /\ ended'[s] # Null =>
        \/ /\ reason'[s] = "SESSION_TIMED_OUT"
           /\ activity[s] # Null => activity[s] + Timeout <= ended'[s]
        \/ \E h \in Handler : /\ lock[s] = h /\ job[h].pc = "commit"
                             /\ job[h].op = "end" /\ job[h].user = owner[s]
  BY EndStep
<1>. QED
  BY <1>1, Always, PTL DEF Spec, SessionsEndForCause

=============================================================================
