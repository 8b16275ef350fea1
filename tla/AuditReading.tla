----------------------------- MODULE AuditReading -----------------------------
(***************************************************************************)
(* What a reader of the growing audit log is promised, one reading at a    *)
(* time: all that had been committed when the reading began, nothing that  *)
(* was never committed.  AuditTrail is shown to implement this.            *)
(***************************************************************************)
CONSTANT Record

VARIABLES log,        \* committed records that the reader asks for
          phase,      \* "idle", "reading" or "ended"
          begun,      \* the records that were there when the reading began
          result      \* the records read, once it ended

vars == <<log, phase, begun, result>>

Init == log \subseteq Record /\ phase = "idle" /\ begun = {} /\ result = {}

Grow ==
  /\ log' \subseteq Record /\ log \subseteq log'
  /\ UNCHANGED <<phase, begun, result>>

Begin ==
  /\ phase' = "reading" /\ begun' = log /\ result' = {}
  /\ UNCHANGED log

End ==
  /\ phase = "reading" /\ phase' = "ended"
  /\ begun \subseteq result' /\ result' \subseteq log
  /\ UNCHANGED <<log, begun>>

Abandon ==
  /\ phase' = "idle" /\ begun' = {} /\ result' = {}
  /\ UNCHANGED log

Next == Grow \/ Begin \/ End \/ Abandon

Spec == Init /\ [][Next]_vars
=============================================================================
