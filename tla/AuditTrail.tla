------------------------------ MODULE AuditTrail ------------------------------
(***************************************************************************)
(* The audit log as it is written and read.  Every record carries the time *)
(* its transaction began (created_at defaults to now()) and a random id,   *)
(* and appears when the transaction commits, so records do not appear in   *)
(* the order of their times.  list_audit_logs counts, then reads a page,   *)
(* in two statements at READ COMMITTED; the export asks for one batch      *)
(* after another behind a cursor, while the log goes on growing.           *)
(***************************************************************************)
EXTENDS Integers, FiniteSets

CONSTANTS Writer,        \* threads that write audited changes
          Id,            \* ids of audit records: integers, in no order of time
          History,       \* records there at first, those of sessions included
          Ranges,        \* the date filters readers choose among
          Watched,       \* the filter whose readings are compared with AuditReading
          PageSize,      \* AUDIT_PAGE_SIZE
          BatchSize,     \* EXPORT_PAGE_SIZE
          Pages,         \* bound: the timeline pages asked for
          MaxTime,       \* bound: the last moment a transaction begins
          None

Time == 0..MaxTime
Record == [at : Time, id : Id, entity : {"business", "user_session"}]

ASSUME TrailAssumption ==
  /\ Id \subseteq Int /\ IsFiniteSet(Id) /\ MaxTime \in Nat
  /\ History \subseteq Record /\ IsFiniteSet(History)
  /\ \A r, s \in History : r.id = s.id => r = s
  /\ Ranges \subseteq [from : Int, to : Int] /\ Watched \in Ranges
  /\ PageSize \in Nat \ {0} /\ BatchSize \in Nat \ {0}
  /\ Pages \subseteq Nat \ {0}
  /\ None \notin Int \cup Record

VARIABLES clock,
          open,       \* when each writer's open transaction began, or None
          log,        \* committed records
          page,       \* a reading of the timeline
          job,        \* an export
          begun       \* history variable: matching records when the job began

vars == <<clock, open, log, page, job, begun>>

-----------------------------------------------------------------------------
(* list_audit_logs                                                         *)

(* Sessions are excluded; the day range is closed on both sides.           *)
Matching(L, rng) ==
  {r \in L : r.entity # "user_session" /\ rng.from <= r.at /\ r.at <= rng.to}

Newer(r, s) == r.at > s.at \/ (r.at = s.at /\ r.id > s.id)

(* Mutant: records of the cursor's own moment are left out.                *)
BehindTime(L, cursor) ==
  IF cursor = None THEN L ELSE {r \in L : cursor.at > r.at}

(* Mutant: the cursor's own record is read again.                          *)
BehindOrAt(L, cursor) ==
  IF cursor = None THEN L ELSE {r \in L : ~Newer(r, cursor)}

Behind(L, cursor) ==
  IF cursor = None THEN L ELSE {r \in L : Newer(cursor, r)}

(* Mutant: the offset is one too small and the limit one too large.        *)
ChunkOffByOne(L, n, size) ==
  {r \in L : LET rank == Cardinality({s \in L : Newer(s, r)})
             IN (n - 1) * size < rank /\ rank <= n * size}

(* The n-th chunk of L, newest first.                                      *)
Chunk(L, n, size) ==
  {r \in L : LET rank == Cardinality({s \in L : Newer(s, r)})
             IN (n - 1) * size <= rank /\ rank < n * size}

Oldest(L) == CHOOSE r \in L : \A s \in L : s = r \/ Newer(s, r)

-----------------------------------------------------------------------------
NoPage == [pc |-> "idle", n |-> 1, rng |-> None, total |-> 0, items |-> {}]
NoJob == [pc |-> "idle", rng |-> None, got |-> {}, cursor |-> None]

TypeOK ==
  /\ clock \in Time
  /\ open \in [Writer -> Time \cup {None}]
  /\ log \subseteq Record
  /\ page \in [pc : {"idle", "asked", "counted", "shown"}, n : Nat \ {0},
               rng : Ranges \cup {None}, total : Nat, items : SUBSET log]
  /\ job \in [pc : {"idle", "running", "done", "repeated", "failed"},
              rng : Ranges \cup {None}, got : SUBSET log, cursor : log \cup {None}]
  /\ begun \subseteq log

Init ==
  /\ clock = 0 /\ open = [w \in Writer |-> None] /\ log = History
  /\ page = NoPage /\ job = NoJob /\ begun = {}

Tick ==
  /\ clock < MaxTime /\ clock' = clock + 1
  /\ UNCHANGED <<open, log, page, job, begun>>

Open(w) ==
  /\ open[w] = None /\ open' = [open EXCEPT ![w] = clock]
  /\ UNCHANGED <<clock, log, page, job, begun>>

(* record_audit_log adds records to the business transaction: they appear  *)
(* with its commit and never otherwise.                                    *)
Commit(w) ==
  /\ open[w] # None /\ open' = [open EXCEPT ![w] = None]
  /\ \E I \in SUBSET (Id \ {r.id : r \in log}) :
       /\ Cardinality(I) \in {1, 2}
       /\ log' = log \cup {[at |-> open[w], id |-> i, entity |-> "business"] : i \in I}
  /\ UNCHANGED <<clock, page, job, begun>>

Rollback(w) ==
  /\ open[w] # None /\ open' = [open EXCEPT ![w] = None]
  /\ UNCHANGED <<clock, log, page, job, begun>>

-----------------------------------------------------------------------------
(* The timeline: AuditPage asks for a page; an answer that says there are  *)
(* fewer pages makes it ask for the last one.                              *)
AskPage(n, rng) ==
  /\ page' = [NoPage EXCEPT !.pc = "asked", !.n = n, !.rng = rng]
  /\ UNCHANGED <<clock, open, log, job, begun>>

CountPage ==
  /\ page.pc = "asked"
  /\ page' = [page EXCEPT !.pc = "counted", !.total = Cardinality(Matching(log, page.rng))]
  /\ UNCHANGED <<clock, open, log, job, begun>>

LastPage(total) == IF total = 0 THEN 1 ELSE (total + PageSize - 1) \div PageSize

(* Mutant: a page beyond the last one is shown as it is.                   *)
ShowWhateverPage ==
  /\ page.pc = "counted"
  /\ page' = [page EXCEPT !.pc = "shown",
                          !.items = Chunk(Matching(log, page.rng), page.n, PageSize)]
  /\ UNCHANGED <<clock, open, log, job, begun>>

ReadPage ==
  /\ page.pc = "counted"
  /\ page' = IF page.n > LastPage(page.total)
               THEN [NoPage EXCEPT !.pc = "asked", !.n = LastPage(page.total), !.rng = page.rng]
               ELSE [page EXCEPT !.pc = "shown",
                                 !.items = Chunk(Matching(log, page.rng), page.n, PageSize)]
  /\ UNCHANGED <<clock, open, log, job, begun>>

-----------------------------------------------------------------------------
(* The export: loadAuditExport.                                            *)
StartExport(rng) ==
  /\ job.pc # "running"
  /\ job' = [NoJob EXCEPT !.pc = "running", !.rng = rng]
  /\ begun' = Matching(log, rng)
  /\ UNCHANGED <<clock, open, log, page>>

Batch == Chunk(Behind(Matching(log, job.rng), job.cursor), 1, BatchSize)

(* Mutant: the cursor stays, and repeated records are taken again.         *)
FetchSameBatch ==
  /\ job.pc = "running"
  /\ job' = [job EXCEPT !.got = job.got \cup Batch,
                        !.pc = IF Cardinality(Batch) < BatchSize THEN "done" ELSE "running"]
  /\ UNCHANGED <<clock, open, log, page, begun>>

(* A record seen before stops the export with an error; an empty or short  *)
(* batch ends it; otherwise the batch's last record is the next cursor.    *)
FetchBatch ==
  /\ job.pc = "running"
  /\ job' =
       IF Batch \cap job.got # {} THEN [job EXCEPT !.pc = "repeated"]
       ELSE [job EXCEPT !.got = job.got \cup Batch,
                        !.cursor = IF Batch = {} THEN job.cursor ELSE Oldest(Batch),
                        !.pc = IF Cardinality(Batch) < BatchSize THEN "done" ELSE "running"]
  /\ UNCHANGED <<clock, open, log, page, begun>>

(* A batch that cannot be loaded rejects the whole export.                 *)
FailBatch ==
  /\ job.pc = "running" /\ job' = [job EXCEPT !.pc = "failed"]
  /\ UNCHANGED <<clock, open, log, page, begun>>

Next ==
  \/ Tick \/ \E w \in Writer : Open(w) \/ Commit(w) \/ Rollback(w)
  \/ \E n \in Pages, rng \in Ranges : AskPage(n, rng)
  \/ CountPage \/ ReadPage
  \/ \E rng \in Ranges : StartExport(rng)
  \/ FetchBatch \/ FailBatch

Spec == Init /\ [][Next]_vars
(* The export loop asks for the next batch as soon as it has the last.     *)
FairSpec == Spec /\ WF_vars(FetchBatch)

-----------------------------------------------------------------------------
(* "Every matching stored audit record is exported": a finished export has *)
(* all that was committed when it began, though records commit late, with  *)
(* times before its cursor, and one transaction's records share a time.    *)
ExportComplete == job.pc = "done" => begun \subseteq job.got

(* The log cannot make an export repeat a record: the error "Audit records *)
(* changed unexpectedly" is never raised.                                  *)
ExportNeverRepeats == job.pc # "repeated"

(* A timeline page is never empty when the count shown with it says that   *)
(* there are records, although the two come from different snapshots.      *)
ShownPageNotEmpty == page.pc = "shown" /\ page.total > 0 => page.items # {}

(* An export of the range Watched, any of them, is a reading of the        *)
(* abstract log: it returns all that was there when it began and nothing   *)
(* that was never there.                                                   *)
ReadingPhase ==
  IF job.rng # Watched THEN "idle"
  ELSE CASE job.pc = "running" -> "reading"
         [] job.pc = "done" -> "ended"
         [] OTHER -> "idle"

Reading == INSTANCE AuditReading WITH
  log <- Matching(log, Watched),
  phase <- ReadingPhase,
  begun <- IF ReadingPhase = "idle" THEN {} ELSE begun,
  result <- IF ReadingPhase = "ended" THEN job.got ELSE {}

ImplementsReading == Reading!Spec

(* Exports end: the cursor only moves back, over a log that is finite.     *)
ExportEnds == job.pc = "running" ~> job.pc # "running"
=============================================================================
