-------------------------- MODULE AuditTrailProofs --------------------------
(***************************************************************************)
(* The audit log and its export for any number of writers, any batch size, *)
(* and however late transactions commit: an export has all that was there  *)
(* when it began, never meets a record twice, and is a reading of the      *)
(* abstract log.                                                           *)
(***************************************************************************)
EXTENDS AuditTrail, FiniteSetTheorems, WellFoundedInduction, TLAPS

-----------------------------------------------------------------------------
(* Finite sets under a strict total order have a first element.            *)
LEMMA FirstExists ==
  ASSUME NEW B, IsFiniteSet(B), B # {}, NEW R,
         \A r \in B : <<r, r>> \notin R,
         \A r, s, t \in B : <<r, s>> \in R /\ <<s, t>> \in R => <<r, t>> \in R,
         \A r, s \in B : r = s \/ <<r, s>> \in R \/ <<s, r>> \in R
  PROVE  \E r \in B : \A s \in B : s = r \/ <<r, s>> \in R
<1> DEFINE Before(r) == {s \in B : <<s, r>> \in R}
           Sets == {Before(r) : r \in B}
<1>1. Sets \subseteq FiniteSubsetsOf(B) /\ Sets # {}
  <2>1. \A r \in B : Before(r) \in SUBSET B /\ IsFiniteSet(Before(r))
    <3> SUFFICES ASSUME NEW r \in B PROVE IsFiniteSet(Before(r))
      OBVIOUS
    <3> QED
      BY FS_Subset
  <2>2. \A r \in B : Before(r) \in FiniteSubsetsOf(B)
    <3> HIDE DEF Before
    <3> QED
      BY <2>1 DEF FiniteSubsetsOf
  <2>3. \E r : r \in B
    OBVIOUS
  <2> HIDE DEF Before
  <2> QED
    BY <2>2, <2>3
<1>2. PICK T \in Sets : \A U \in Sets : <<U, T>> \notin StrictSubsetOrdering(B)
  BY <1>1, FS_StrictSubsetOrderingWellFounded, WFMin
<1>3. PICK r \in B : T = Before(r)
  BY <1>2
<1>4. ASSUME NEW s \in Before(r) PROVE FALSE
  <2>1. s \in B /\ <<s, r>> \in R
    BY <1>4
  <2>2. Before(s) \subseteq Before(r) /\ s \notin Before(s)
    BY <2>1
  <2>3. Before(s) \in SUBSET B /\ Before(r) \in SUBSET B /\ Before(s) # Before(r)
    BY <1>4, <2>2
  <2>4. <<Before(s), Before(r)>> \in StrictSubsetOrdering(B)
    BY <2>2, <2>3 DEF StrictSubsetOrdering
  <2> QED
    BY <1>2, <1>3, <2>1, <2>4
<1> QED
  BY <1>4

-----------------------------------------------------------------------------
(* Sets of records, and their order.                                       *)
Log(L) ==
  /\ L \subseteq Record /\ IsFiniteSet(L)
  /\ \A r, s \in L : r.id = s.id => r = s

LEMMA RecordFields ==
  ASSUME NEW r \in Record
  PROVE  r.at \in Int /\ r.id \in Int
<1>1. r.at \in 0..MaxTime /\ r.id \in Id
  BY DEF Record, Time
<1>2. Id \subseteq Int /\ MaxTime \in Nat
  BY TrailAssumption
<1>3. r.id \in Int
  BY <1>1, <1>2
<1>4. \A t \in 0..MaxTime : t \in Int
  OBVIOUS
<1> QED
  BY <1>1, <1>3, <1>4

LEMMA NewerOrders ==
  ASSUME NEW L, Log(L)
  PROVE  /\ \A r \in L : ~Newer(r, r)
         /\ \A r, s, t \in L : Newer(r, s) /\ Newer(s, t) => Newer(r, t)
         /\ \A r, s \in L : r = s \/ Newer(r, s) \/ Newer(s, r)
         /\ \A r, s \in L : ~(Newer(r, s) /\ Newer(s, r))
<1>1. \A r \in L : r.at \in Int /\ r.id \in Int
  BY RecordFields DEF Log
<1> QED
  BY <1>1 DEF Log, Newer

LEMMA SubLog ==
  ASSUME NEW L, Log(L), NEW M \in SUBSET L
  PROVE  Log(M)
  BY FS_Subset DEF Log

LEMMA OldestIs ==
  ASSUME NEW L, Log(L), L # {}
  PROVE  Oldest(L) \in L /\ \A s \in L : s = Oldest(L) \/ Newer(s, Oldest(L))
<1> DEFINE R == {q \in L \X L : Newer(q[2], q[1])}
<1>1. \A r, s \in L : <<r, s>> \in R <=> Newer(s, r)
  OBVIOUS
<1> HIDE DEF R
<1>2. \E r \in L : \A s \in L : s = r \/ <<r, s>> \in R
  <2>1. \A r \in L : <<r, r>> \notin R
    BY <1>1, NewerOrders
  <2>2. \A r, s, t \in L : <<r, s>> \in R /\ <<s, t>> \in R => <<r, t>> \in R
    BY <1>1, NewerOrders
  <2>3. \A r, s \in L : r = s \/ <<r, s>> \in R \/ <<s, r>> \in R
    BY <1>1, NewerOrders
  <2>4. IsFiniteSet(L)
    BY DEF Log
  <2> QED
    BY <2>1, <2>2, <2>3, <2>4, FirstExists
<1>3. \E r \in L : \A s \in L : s = r \/ Newer(s, r)
  BY <1>1, <1>2
<1> QED
  BY <1>3 DEF Oldest

LEMMA NewestExists ==
  ASSUME NEW L, Log(L), L # {}
  PROVE  \E r \in L : \A s \in L : s = r \/ Newer(r, s)
<1> DEFINE R == {q \in L \X L : Newer(q[1], q[2])}
<1>1. \A r, s \in L : <<r, s>> \in R <=> Newer(r, s)
  OBVIOUS
<1> HIDE DEF R
<1>2. \E r \in L : \A s \in L : s = r \/ <<r, s>> \in R
  <2>1. \A r \in L : <<r, r>> \notin R
    BY <1>1, NewerOrders
  <2>2. \A r, s, t \in L : <<r, s>> \in R /\ <<s, t>> \in R => <<r, t>> \in R
    BY <1>1, NewerOrders
  <2>3. \A r, s \in L : r = s \/ <<r, s>> \in R \/ <<s, r>> \in R
    BY <1>1, NewerOrders
  <2>4. IsFiniteSet(L)
    BY DEF Log
  <2> QED
    BY <2>1, <2>2, <2>3, <2>4, FirstExists
<1> QED
  BY <1>1, <1>2

(* The first chunk of L is its newest part, and all of it when short.      *)
LEMMA FirstChunk ==
  ASSUME NEW L, Log(L), NEW size \in Nat \ {0}
  PROVE  /\ Chunk(L, 1, size) \subseteq L
         /\ \A r \in Chunk(L, 1, size), s \in L \ Chunk(L, 1, size) : Newer(r, s)
         /\ Cardinality(Chunk(L, 1, size)) < size => Chunk(L, 1, size) = L
<1> DEFINE C == Chunk(L, 1, size)
           Rank(r) == Cardinality({s \in L : Newer(s, r)})
<1>1. \A r \in L : Rank(r) \in Nat /\ {s \in L : Newer(s, r)} \in SUBSET L
  BY FS_Subset, FS_CardinalityType DEF Log
<1>2. \A r \in L : r \in C <=> Rank(r) < size
  BY <1>1 DEF Chunk
<1>3. C \subseteq L /\ IsFiniteSet(C) /\ Cardinality(C) \in Nat
  BY FS_Subset, FS_CardinalityType DEF Chunk, Log
<1>4. ASSUME NEW r \in C, NEW s \in L \ C PROVE Newer(r, s)
  <2>1. ~Newer(s, r)
    <3> SUFFICES ASSUME Newer(s, r) PROVE FALSE
      OBVIOUS
    <3>1. {t \in L : Newer(t, s)} \subseteq {t \in L : Newer(t, r)}
      BY <1>3, <1>4, NewerOrders
    <3>2. IsFiniteSet({t \in L : Newer(t, r)})
      BY <1>1, FS_Subset DEF Log
    <3>3. Rank(s) <= Rank(r)
      BY <3>1, <3>2, FS_Subset
    <3> QED
      BY <1>1, <1>2, <1>3, <1>4, <3>3
  <2> QED
    BY <1>2, <1>3, <1>4, <2>1, NewerOrders
<1>5. ASSUME Cardinality(C) < size PROVE C = L
  <2> SUFFICES ASSUME L \ C # {} PROVE FALSE
    BY <1>3
  <2>1. Log(L \ C)
    BY SubLog
  <2>2. PICK t \in L \ C : \A s \in L \ C : s = t \/ Newer(t, s)
    BY <2>1, NewestExists
  <2>3. {s \in L : Newer(s, t)} \subseteq C
    BY <2>2, NewerOrders
  <2>4. Rank(t) <= Cardinality(C)
    BY <1>3, <2>3, FS_Subset
  <2> QED
    BY <1>1, <1>2, <1>3, <1>5, <2>2, <2>4
<1> QED
  BY <1>3, <1>4, <1>5

-----------------------------------------------------------------------------
(* The records an export is still to fetch lie behind its cursor.          *)
Remaining(L, r) == r \in Behind(Matching(L, job.rng), job.cursor)

JobOK ==
  /\ job.pc \in {"idle", "running", "done", "failed"}
  /\ DOMAIN job = {"pc", "rng", "got", "cursor"}
  /\ job = [pc |-> job.pc, rng |-> job.rng, got |-> job.got, cursor |-> job.cursor]
  /\ job.pc \in {"running", "done"} =>
       job.got \subseteq Matching(log, job.rng) /\ begun \subseteq Matching(log, job.rng)
  /\ job.pc = "running" =>
       /\ IF job.cursor = None THEN job.got = {}
          ELSE job.cursor \in job.got /\ \A r \in job.got : ~Newer(job.cursor, r)
       /\ \A r \in begun : r \in job.got \/ Remaining(log, r)
  /\ job.pc = "done" => begun \subseteq job.got

Inv == Log(log) /\ JobOK

LEMMA InitInv == Init => Inv
  BY TrailAssumption DEF Init, NoJob, Inv, Log, JobOK

(* The log only grows; a set of new records is finite and their ids fresh. *)
LEMMA CommitGrows ==
  ASSUME Log(log), NEW w \in Writer, open[w] \in Time, Commit(w)
  PROVE  Log(log)' /\ log \subseteq log'
<1>1. PICK I \in SUBSET (Id \ {r.id : r \in log}) :
        log' = log \cup {[at |-> open[w], id |-> i, entity |-> "business"] : i \in I}
  BY DEF Commit
<1> DEFINE new(i) == [at |-> open[w], id |-> i, entity |-> "business"]
           N == {new(i) : i \in I}
<1>2. IsFiniteSet(N)
  <2>1. IsFiniteSet(I)
    BY TrailAssumption, FS_Subset
  <2>2. [i \in I |-> new(i)] \in Surjection(I, N)
    BY DEF Surjection
  <2> QED
    BY <2>1, <2>2, FS_Surjection
<1>3. N \subseteq Record
  BY DEF Record
<1>4. IsFiniteSet(log')
  BY <1>1, <1>2, FS_Union DEF Log
<1>5. \A r, s \in log' : r.id = s.id => r = s
  BY <1>1 DEF Log
<1> QED
  BY <1>1, <1>3, <1>4, <1>5 DEF Log

(* A growing log disturbs no export: what is new is not in what it had to  *)
(* return, and lies where it may still be fetched.                         *)
LEMMA GrowthKeeps ==
  ASSUME Inv, Log(log)', log \subseteq log', UNCHANGED <<job, begun>>
  PROVE  Inv'
<1>1. Matching(log, job.rng) \subseteq Matching(log', job.rng)
  BY DEF Matching
<1>2. \A r \in Record : Remaining(log, r) => Remaining(log, r)'
  BY <1>1 DEF Remaining, Behind
<1>3. \A r \in begun : Remaining(log, r) => Remaining(log, r)'
  BY <1>1 DEF Remaining, Behind
<1> QED
  BY <1>1, <1>3 DEF Inv, JobOK

LEMMA StartInv ==
  ASSUME Inv, NEW rng \in Ranges, StartExport(rng)
  PROVE  Inv'
<1>1. job' = [pc |-> "running", rng |-> rng, got |-> {}, cursor |-> None] /\ UNCHANGED log
  BY DEF StartExport, NoJob
<1>2. begun' = Matching(log, rng)
  BY DEF StartExport
<1> QED
  BY <1>1, <1>2 DEF Inv, JobOK, Remaining, Behind

LEMMA FetchInv ==
  ASSUME Inv, FetchBatch
  PROVE  /\ Inv'
         /\ job.pc = "running" /\ job'.pc \in {"running", "done"} /\ job'.rng = job.rng
<1> DEFINE M == Matching(log, job.rng)
           L == Behind(M, job.cursor)
<1>1. /\ job.pc = "running" /\ UNCHANGED <<log, begun>>
      /\ job.got \subseteq M /\ begun \subseteq M
  BY DEF FetchBatch, Inv, JobOK
<1>2. Log(M) /\ Log(L) /\ L \subseteq M /\ M \subseteq log
  <2>1. M \in SUBSET log /\ L \in SUBSET log /\ L \subseteq M
    BY DEF Matching, Behind
  <2> QED
    BY <2>1, SubLog DEF Inv
<1>3. /\ Batch \subseteq L /\ \A r \in Batch, s \in L \ Batch : Newer(r, s)
      /\ Cardinality(Batch) < BatchSize => Batch = L
  BY <1>2, TrailAssumption, FirstChunk DEF Batch
<1>4. Batch \cap job.got = {}
  <2>1. CASE job.cursor = None
    BY <1>1, <2>1 DEF Inv, JobOK
  <2>2. CASE job.cursor # None
    BY <1>1, <1>3, <2>2 DEF Inv, JobOK, Behind
  <2> QED
    BY <2>1, <2>2
<1> DEFINE next == IF Batch = {} THEN job.cursor ELSE Oldest(Batch)
           pc == IF Cardinality(Batch) < BatchSize THEN "done" ELSE "running"
<1>5. job' = [pc |-> pc, rng |-> job.rng, got |-> job.got \cup Batch, cursor |-> next]
  <2>1. job' = [job EXCEPT !.got = job.got \cup Batch, !.cursor = next, !.pc = pc]
    BY <1>4 DEF FetchBatch
  <2> QED
    BY <2>1 DEF Inv, JobOK
<1>6. job'.got \subseteq M /\ Log(Batch)
  BY <1>1, <1>2, <1>3, <1>5, SubLog
<1>7. CASE Batch = {}
  <2>1. Cardinality(Batch) < BatchSize
    BY <1>7, FS_EmptySet, TrailAssumption
  <2>2. L = {} /\ job'.pc = "done"
    BY <1>3, <1>5, <1>7, <2>1
  <2>3. begun \subseteq job'.got
    BY <1>1, <1>5, <2>2 DEF Inv, JobOK, Remaining
  <2> QED
    BY <1>1, <1>5, <1>6, <2>2, <2>3 DEF Inv, JobOK
<1>8. CASE Batch # {}
  <2>1. next \in Batch /\ \A s \in Batch : s = next \/ Newer(s, next)
    BY <1>6, <1>8, OldestIs
  <2>2. next \in log /\ next # None
    BY <1>2, <1>3, <2>1, TrailAssumption DEF Inv, Log
  <2>3. \A r \in begun : r \in job'.got \/ r \in L \ Batch
    BY <1>1, <1>5 DEF Inv, JobOK, Remaining
  <2>4. ASSUME job'.pc = "done" PROVE begun \subseteq job'.got
    BY <1>3, <1>5, <2>3, <2>4
  <2>5. \A r \in L \ Batch : Newer(next, r)
    BY <1>3, <2>1
  <2>6. \A r \in begun : r \in job'.got \/ r \in Behind(M, next)
    BY <1>2, <2>2, <2>3, <2>5 DEF Behind
  <2>7. \A r \in Batch : ~Newer(next, r)
    BY <1>6, <2>1, NewerOrders
  <2>8. \A r \in job.got : ~Newer(next, r)
    <3>1. CASE job.cursor = None
      BY <1>1, <3>1 DEF Inv, JobOK
    <3>2. CASE job.cursor # None
      <4>1. job.cursor \in M /\ Newer(job.cursor, next) /\ \A r \in job.got : ~Newer(job.cursor, r)
        BY <1>1, <1>3, <2>1, <3>2 DEF Inv, JobOK, Behind
      <4> QED
        BY <1>1, <1>2, <1>3, <2>1, <4>1, NewerOrders
    <3> QED
      BY <3>1, <3>2
  <2>9. JobOK'
    BY <1>1, <1>5, <1>6, <2>1, <2>2, <2>4, <2>6, <2>7, <2>8 DEF JobOK, Remaining
  <2> QED
    BY <1>1, <1>5, <2>9 DEF Inv
<1> QED
  BY <1>1, <1>5, <1>7, <1>8

(* The types, over an invariant that says the batches are what they should *)
(* be.                                                                     *)
LEMMA InitTypes == Init => TypeOK
  BY TrailAssumption DEF Init, TypeOK, NoPage, NoJob, Time

LEMMA LastPageType ==
  ASSUME NEW total \in Nat
  PROVE  LastPage(total) \in Nat \ {0}
<1>1. PageSize \in Nat \ {0}
  BY TrailAssumption
<1> QED
  BY <1>1 DEF LastPage

LEMMA PageTypes ==
  ASSUME TypeOK, Inv,
         \/ \E n \in Pages, rng \in Ranges : AskPage(n, rng)
         \/ CountPage
         \/ ReadPage
  PROVE  TypeOK'
<1> USE DEF TypeOK
<1>1. ASSUME NEW n \in Pages, NEW rng \in Ranges, AskPage(n, rng) PROVE TypeOK'
  BY <1>1, TrailAssumption DEF AskPage, NoPage
<1>2. CASE CountPage
  <2>1. Matching(log, page.rng) \subseteq log
    BY DEF Matching
  <2>2. Cardinality(Matching(log, page.rng)) \in Nat
    BY <2>1, FS_Subset, FS_CardinalityType DEF Inv, Log
  <2> QED
    BY <1>2, <2>2 DEF CountPage
<1>3. CASE ReadPage
  <2>1. LastPage(page.total) \in Nat \ {0}
    BY LastPageType
  <2>2. Chunk(Matching(log, page.rng), page.n, PageSize) \subseteq log
    BY DEF Chunk, Matching
  <2>3. page' \in [pc : {"idle", "asked", "counted", "shown"}, n : Nat \ {0},
                   rng : Ranges \cup {None}, total : Nat, items : SUBSET log]
    BY <1>3, <2>1, <2>2 DEF ReadPage, NoPage
  <2> QED
    BY <1>3, <2>3 DEF ReadPage
<1> QED
  BY <1>1, <1>2, <1>3

-----------------------------------------------------------------------------
LEMMA NextInv == TypeOK /\ Inv /\ [Next]_vars => TypeOK' /\ Inv'
<1> SUFFICES ASSUME TypeOK, Inv, [Next]_vars
             PROVE  TypeOK' /\ Inv'
  OBVIOUS
<1>1. ASSUME UNCHANGED <<log, job, begun>> PROVE Inv'
  BY <1>1 DEF Inv, Log, JobOK, Remaining
<1>2. CASE Tick
  BY <1>1, <1>2, TrailAssumption DEF Tick, TypeOK, Time
<1>3. ASSUME NEW w \in Writer, Open(w) \/ Rollback(w) PROVE TypeOK' /\ Inv'
  BY <1>1, <1>3 DEF Open, Rollback, TypeOK
<1>4. ASSUME NEW w \in Writer, Commit(w) PROVE TypeOK' /\ Inv'
  <2>1. open[w] \in Time
    BY <1>4 DEF Commit, TypeOK
  <2>2. Log(log)' /\ log \subseteq log'
    BY <1>4, <2>1, CommitGrows DEF Inv
  <2>3. UNCHANGED <<clock, page, job, begun>> /\ open' \in [Writer -> Time \cup {None}]
    BY <1>4 DEF Commit, TypeOK
  <2>4. TypeOK'
    BY <2>2, <2>3 DEF TypeOK, Log
  <2> QED
    BY <2>2, <2>3, <2>4, GrowthKeeps
<1>5. ASSUME \/ \E n \in Pages, rng \in Ranges : AskPage(n, rng)
             \/ CountPage
             \/ ReadPage
      PROVE  TypeOK' /\ Inv'
  BY <1>1, <1>5, PageTypes DEF AskPage, CountPage, ReadPage
<1>6. ASSUME NEW rng \in Ranges, StartExport(rng) PROVE TypeOK' /\ Inv'
  <2>1. Matching(log, rng) \subseteq log
    BY DEF Matching
  <2> QED
    BY <1>6, <2>1, StartInv DEF StartExport, NoJob, TypeOK
<1>7. CASE FetchBatch
  <2>1. Batch \subseteq log
    BY DEF Batch, Chunk, Behind, Matching
  <2>2. Batch # {} => Oldest(Batch) \in log
    BY <2>1, SubLog, OldestIs DEF Inv
  <2>3. job' \in [pc : {"idle", "running", "done", "repeated", "failed"},
                  rng : Ranges \cup {None}, got : SUBSET log, cursor : log \cup {None}]
    BY <1>7, <2>1, <2>2 DEF FetchBatch, TypeOK
  <2> QED
    BY <1>7, <2>3, FetchInv DEF FetchBatch, TypeOK
<1>8. CASE FailBatch
  BY <1>8 DEF FailBatch, TypeOK, Inv, JobOK, Log
<1>9. CASE UNCHANGED vars
  BY <1>1, <1>9 DEF vars, TypeOK
<1> QED
  BY <1>2, <1>3, <1>4, <1>5, <1>6, <1>7, <1>8, <1>9 DEF Next

LEMMA Invariance == Spec => [](TypeOK /\ Inv)
<1>1. Init => TypeOK /\ Inv
  BY InitTypes, InitInv
<1> QED
  BY <1>1, NextInv, PTL DEF Spec

(* Pages, exports and cursors are made of committed records.               *)
THEOREM TypeCorrect == Spec => []TypeOK
  BY Invariance, PTL

(* What was committed when an export began is in it when it ends.          *)
THEOREM ExportsComplete == Spec => []ExportComplete
<1>1. Inv => ExportComplete
  BY DEF Inv, JobOK, ExportComplete
<1> QED
  BY <1>1, Invariance, PTL

(* No batch holds a record of an earlier one, whatever commits in between. *)
THEOREM NeverRepeats == Spec => []ExportNeverRepeats
<1>1. Inv => ExportNeverRepeats
  BY DEF Inv, JobOK, ExportNeverRepeats
<1> QED
  BY <1>1, Invariance, PTL

-----------------------------------------------------------------------------
(* In a log of more than k records one has exactly k newer ones.           *)
LEMMA RankExists ==
  ASSUME NEW L, Log(L), NEW k \in Nat, k < Cardinality(L)
  PROVE  \E r \in L : Cardinality({s \in L : Newer(s, r)}) = k
<1> DEFINE Rank(r) == Cardinality({s \in L : Newer(s, r)})
           C == {r \in L : Rank(r) < k}
<1>1. /\ \A r \in L : Rank(r) \in Nat /\ IsFiniteSet({s \in L : Newer(s, r)})
      /\ C \in SUBSET L /\ Log(C) /\ IsFiniteSet(C) /\ Cardinality(C) \in Nat
  BY FS_Subset, FS_CardinalityType, SubLog DEF Log
<1>a. \A r \in L : r \in C <=> Rank(r) < k
  OBVIOUS
<1> HIDE DEF C
<1>2. Cardinality(C) <= k
  <2>1. CASE C = {}
    BY <2>1, FS_EmptySet
  <2>2. CASE C # {}
    <3> DEFINE o == Oldest(C)
    <3>1. o \in C /\ \A s \in C : s = o \/ Newer(s, o)
      BY <1>1, <2>2, OldestIs
    <3> HIDE DEF o
    <3>2. Cardinality(C \ {o}) = Cardinality(C) - 1
      BY <1>1, <3>1, FS_RemoveElement
    <3>3. C \ {o} \subseteq {s \in L : Newer(s, o)}
      BY <1>1, <3>1
    <3>4. Cardinality(C \ {o}) <= Rank(o)
      BY <1>1, <3>1, <3>3, FS_Subset
    <3> QED
      BY <1>1, <1>a, <3>1, <3>2, <3>4
  <2> QED
    BY <2>1, <2>2
<1>3. Log(L \ C) /\ L \ C # {}
  <2>1. C # L
    BY <1>1, <1>2
  <2> QED
    BY <1>1, <2>1, SubLog
<1>4. PICK t \in L \ C : \A s \in L \ C : s = t \/ Newer(t, s)
  BY <1>3, NewestExists
<1>5. {s \in L : Newer(s, t)} \subseteq C
  BY <1>4, NewerOrders
<1>6. Rank(t) <= Cardinality(C)
  BY <1>1, <1>5, FS_Subset
<1>7. Rank(t) = k
  <2>1. Rank(t) \in Nat /\ ~(Rank(t) < k)
    BY <1>1, <1>a, <1>4
  <2> HIDE DEF Rank
  <2> QED
    BY <1>1, <1>2, <1>6, <2>1
<1> QED
  BY <1>4, <1>7

(* The pages up to the last one begin within what was counted.             *)
LEMMA LastPageBegins ==
  ASSUME NEW total \in Nat \ {0}, NEW n \in Nat \ {0}, n <= LastPage(total)
  PROVE  /\ (n - 1) * PageSize \in Nat /\ (n - 1) * PageSize < total
         /\ (n - 1) * PageSize < n * PageSize
<1> DEFINE q == (total + PageSize - 1) \div PageSize
<1>1. PageSize \in Nat \ {0}
  BY TrailAssumption
<1>2. n <= q /\ q \in Nat
  BY <1>1 DEF LastPage
<1>3. q * PageSize <= total + PageSize - 1
  BY <1>1
<1> HIDE DEF q
<1>4. n * PageSize <= q * PageSize
  BY <1>1, <1>2
<1>5. (n - 1) * PageSize = n * PageSize - PageSize /\ (n - 1) * PageSize \in Nat
  BY <1>1
<1> QED
  BY <1>1, <1>2, <1>3, <1>4, <1>5

(* What was counted for a page is still there when the page is read, for   *)
(* the log only grows.                                                     *)
CountedThere ==
  page.pc = "counted" => page.total <= Cardinality(Matching(log, page.rng))

PageInv == CountedThere /\ ShownPageNotEmpty

LEMMA MatchingFinite ==
  ASSUME Log(log), NEW rng
  PROVE  /\ Log(Matching(log, rng)) /\ IsFiniteSet(Matching(log, rng))
         /\ Cardinality(Matching(log, rng)) \in Nat
<1>1. Matching(log, rng) \in SUBSET log
  BY DEF Matching
<1> QED
  BY <1>1, SubLog, FS_CardinalityType DEF Log

LEMMA ReadNotEmpty ==
  ASSUME TypeOK, Inv, CountedThere, ReadPage
  PROVE  PageInv'
<1> DEFINE M == Matching(log, page.rng)
<1>1. page.n \in Nat \ {0} /\ page.total \in Nat
  BY DEF TypeOK
<1>2. CASE page.n > LastPage(page.total)
  <2>1. page'.pc = "asked"
    BY <1>2 DEF ReadPage, NoPage
  <2> QED
    BY <2>1 DEF PageInv, CountedThere, ShownPageNotEmpty
<1>3. CASE ~(page.n > LastPage(page.total))
  <2>1. page'.pc = "shown" /\ page'.total = page.total /\ page'.items = Chunk(M, page.n, PageSize)
    BY <1>3 DEF ReadPage, TypeOK
  <2>2. ASSUME page.total > 0 PROVE Chunk(M, page.n, PageSize) # {}
    <3> DEFINE k == (page.n - 1) * PageSize
    <3>1. k \in Nat /\ k < page.total /\ k < page.n * PageSize
      <4>1. page.n <= LastPage(page.total)
        BY <1>1, <1>3, LastPageType
      <4> QED
        BY <1>1, <2>2, <4>1, LastPageBegins
    <3>2. page.total <= Cardinality(M) /\ Log(M) /\ Cardinality(M) \in Nat
      BY MatchingFinite DEF CountedThere, ReadPage, Inv
    <3> HIDE DEF k, M
    <3>3. PICK r \in M : Cardinality({s \in M : Newer(s, r)}) = k
      BY <1>1, <3>1, <3>2, RankExists
    <3>4. r \in Chunk(M, page.n, PageSize)
      BY <3>1, <3>3 DEF Chunk, k
    <3> QED
      BY <3>4
  <2> QED
    BY <2>1, <2>2 DEF PageInv, CountedThere, ShownPageNotEmpty
<1> QED
  BY <1>2, <1>3

LEMMA PageKept == TypeOK /\ Inv /\ PageInv /\ [Next]_vars => PageInv'
<1> SUFFICES ASSUME TypeOK, Inv, PageInv, [Next]_vars PROVE PageInv'
  OBVIOUS
<1>1. ASSUME UNCHANGED <<log, page>> PROVE PageInv'
  BY <1>1 DEF PageInv, CountedThere, ShownPageNotEmpty
<1>2. ASSUME NEW w \in Writer, Commit(w) PROVE PageInv'
  <2>1. open[w] \in Time /\ page' = page
    BY <1>2 DEF Commit, TypeOK
  <2>2. Log(log)' /\ log \subseteq log' /\ Log(log)
    BY <1>2, <2>1, CommitGrows DEF Inv
  <2>3. Matching(log, page.rng) \subseteq Matching(log', page.rng)
    BY <2>2 DEF Matching
  <2>4. /\ IsFiniteSet(Matching(log', page.rng)) /\ Cardinality(Matching(log', page.rng)) \in Nat
        /\ Cardinality(Matching(log, page.rng)) \in Nat
    <3>1. Matching(log', page.rng) \in SUBSET log'
      BY DEF Matching
    <3> QED
      BY <2>2, <3>1, FS_Subset, FS_CardinalityType, MatchingFinite DEF Log
  <2>5. Cardinality(Matching(log, page.rng)) <= Cardinality(Matching(log', page.rng))
    BY <2>3, <2>4, FS_Subset
  <2>6. page.total \in Nat
    BY DEF TypeOK
  <2> QED
    BY <2>1, <2>4, <2>5, <2>6 DEF PageInv, CountedThere, ShownPageNotEmpty
<1>3. ASSUME NEW n \in Pages, NEW rng \in Ranges, AskPage(n, rng) PROVE PageInv'
  BY <1>3 DEF AskPage, NoPage, PageInv, CountedThere, ShownPageNotEmpty
<1>4. CASE CountPage
  <2>1. /\ page'.pc = "counted" /\ page'.rng = page.rng /\ log' = log
        /\ page'.total = Cardinality(Matching(log, page.rng))
    BY <1>4 DEF CountPage, TypeOK
  <2>2. Cardinality(Matching(log, page.rng)) \in Nat
    BY MatchingFinite DEF Inv
  <2> QED
    BY <2>1, <2>2 DEF PageInv, CountedThere, ShownPageNotEmpty
<1>5. CASE ReadPage
  BY <1>5, ReadNotEmpty DEF PageInv
<1> QED
  BY <1>1, <1>2, <1>3, <1>4, <1>5 DEF Next, vars, Tick, Open, Rollback, StartExport, FetchBatch,
     FailBatch

(* A page shown with a count of some records has some: the page number was *)
(* measured by the count, and no record counted has gone.                  *)
THEOREM ShownNotEmpty == Spec => []ShownPageNotEmpty
<1>1. Init => PageInv
  BY DEF Init, NoPage, PageInv, CountedThere, ShownPageNotEmpty
<1>2. PageInv => ShownPageNotEmpty
  BY DEF PageInv
<1> QED
  BY <1>1, <1>2, PageKept, Invariance, PTL DEF Spec

-----------------------------------------------------------------------------
(* The refinement: what each step of the trail is to the abstract reader.  *)
LEMMA ReadingStarts == Init => Reading!Init
<1> SUFFICES ASSUME Init PROVE Reading!Init
  OBVIOUS
<1>1. ReadingPhase = "idle"
  BY DEF Init, NoJob, ReadingPhase
<1>2. Matching(log, Watched) \subseteq Record
  BY TrailAssumption DEF Init, Matching
<1> QED
  BY <1>1, <1>2 DEF Reading!Init

(* Nothing the reader sees changes.                                        *)
LEMMA ReadingStutters ==
  ASSUME UNCHANGED <<log, job, begun>>
  PROVE  UNCHANGED Reading!vars
  BY DEF Reading!vars, Matching, ReadingPhase

LEMMA CommitReads ==
  ASSUME TypeOK, Inv, NEW w \in Writer, Commit(w)
  PROVE  Reading!Grow
<1>1. UNCHANGED <<job, begun>>
  BY DEF Commit
<1>2. Log(log)' /\ log \subseteq log'
  <2>1. open[w] \in Time
    BY DEF Commit, TypeOK
  <2> QED
    BY <2>1, CommitGrows DEF Inv
<1>3. /\ Matching(log, Watched)' \subseteq Record
      /\ Matching(log, Watched) \subseteq Matching(log, Watched)'
  BY <1>2 DEF Matching, Log
<1> QED
  BY <1>1, <1>3 DEF Reading!Grow, ReadingPhase

LEMMA StartReads ==
  ASSUME NEW rng \in Ranges, StartExport(rng)
  PROVE  Reading!Begin \/ Reading!Abandon
<1>1. /\ job' = [pc |-> "running", rng |-> rng, got |-> {}, cursor |-> None]
      /\ begun' = Matching(log, rng) /\ UNCHANGED log
  BY DEF StartExport, NoJob
<1>2. Matching(log, Watched)' = Matching(log, Watched)
  BY <1>1 DEF Matching
<1>3. CASE rng = Watched
  <2>1. ReadingPhase' = "reading"
    BY <1>1, <1>3 DEF ReadingPhase
  <2> QED
    BY <1>1, <1>2, <1>3, <2>1 DEF Reading!Begin
<1>4. CASE rng # Watched
  <2>1. ReadingPhase' = "idle"
    BY <1>1, <1>4 DEF ReadingPhase
  <2> QED
    BY <1>2, <2>1 DEF Reading!Abandon
<1> QED
  BY <1>3, <1>4

LEMMA FetchReads ==
  ASSUME Inv, FetchBatch
  PROVE  Reading!End \/ UNCHANGED Reading!vars
<1>1. UNCHANGED <<log, begun>>
  BY DEF FetchBatch
<1>2. /\ job.pc = "running" /\ job'.pc \in {"running", "done"} /\ job'.rng = job.rng
      /\ Inv'
  BY FetchInv
<1>3. Matching(log, Watched)' = Matching(log, Watched)
  BY <1>1 DEF Matching
<1>4. CASE job.rng # Watched
  <2>1. ReadingPhase = "idle" /\ ReadingPhase' = "idle"
    BY <1>2, <1>4 DEF ReadingPhase
  <2> QED
    BY <1>3, <2>1 DEF Reading!vars
<1>5. CASE job.rng = Watched /\ job'.pc = "running"
  <2>1. ReadingPhase = "reading" /\ ReadingPhase' = "reading"
    BY <1>2, <1>5 DEF ReadingPhase
  <2> QED
    BY <1>1, <1>3, <2>1 DEF Reading!vars
<1>6. CASE job.rng = Watched /\ job'.pc = "done"
  <2>1. ReadingPhase = "reading" /\ ReadingPhase' = "ended"
    BY <1>2, <1>6 DEF ReadingPhase
  <2>2. begun' \subseteq job'.got /\ job'.got \subseteq Matching(log, job.rng)'
    BY <1>2, <1>6 DEF Inv, JobOK
  <2>3. begun \subseteq job'.got /\ job'.got \subseteq Matching(log, Watched)
    BY <1>1, <1>2, <1>3, <1>6, <2>2
  <2> QED
    BY <1>1, <1>3, <2>1, <2>3 DEF Reading!End
<1> QED
  BY <1>2, <1>4, <1>5, <1>6

LEMMA FailReads ==
  ASSUME Inv, FailBatch
  PROVE  Reading!Abandon \/ UNCHANGED Reading!vars
<1>1. job' = [job EXCEPT !.pc = "failed"] /\ UNCHANGED <<log, begun>>
  BY DEF FailBatch
<1>2. job'.pc = "failed"
  BY <1>1 DEF Inv, JobOK
<1>3. ReadingPhase' = "idle"
  BY <1>2 DEF ReadingPhase
<1>4. Matching(log, Watched)' = Matching(log, Watched)
  BY <1>1 DEF Matching
<1> QED
  BY <1>3, <1>4 DEF Reading!Abandon

LEMMA StepReads == TypeOK /\ Inv /\ [Next]_vars => [Reading!Next]_(Reading!vars)
<1> SUFFICES ASSUME TypeOK, Inv, [Next]_vars
             PROVE  Reading!Next \/ UNCHANGED Reading!vars
  OBVIOUS
<1>1. CASE UNCHANGED <<log, job, begun>>
  BY <1>1, ReadingStutters
<1>2. ASSUME NEW w \in Writer, Commit(w) PROVE Reading!Next
  BY <1>2, CommitReads DEF Reading!Next
<1>3. ASSUME NEW rng \in Ranges, StartExport(rng) PROVE Reading!Next
  BY <1>3, StartReads DEF Reading!Next
<1>4. CASE FetchBatch
  BY <1>4, FetchReads DEF Reading!Next
<1>5. CASE FailBatch
  BY <1>5, FailReads DEF Reading!Next
<1>6. \/ UNCHANGED <<log, job, begun>>
      \/ \E w \in Writer : Commit(w)
      \/ \E rng \in Ranges : StartExport(rng)
      \/ FetchBatch \/ FailBatch
  BY DEF Next, vars, Tick, Open, Rollback, AskPage, CountPage, ReadPage
<1> QED
  BY <1>1, <1>2, <1>3, <1>4, <1>5, <1>6

(* loadAuditExport implements a reading: whatever the writers do between   *)
(* its batches, it gives all that was there at the start and no more than  *)
(* there is at the end.                                                    *)
THEOREM ReadsTheLog == Spec => ImplementsReading
<1>1. Init => Reading!Init
  BY ReadingStarts
<1>2. TypeOK /\ Inv /\ [Next]_vars => [Reading!Next]_(Reading!vars)
  BY StepReads
<1> QED
  BY <1>1, <1>2, Invariance, PTL DEF Spec, ImplementsReading, Reading!Spec

=============================================================================
