---------------------------- MODULE MCAuditTrail ----------------------------
(* Instances of AuditTrail for TLC: a day filter and no filter at all, and *)
(* a record of the time when sessions were still written to the audit log. *)
EXTENDS AuditTrail, TLC

CONSTANTS w1, w2

Always == [from |-> -1, to |-> MaxTime + 1]
LastDays == [from |-> 1, to |-> MaxTime + 1]
BothRanges == {Always, LastDays}
OldRecords == {[at |-> 0, id |-> 3, entity |-> "business"],
               [at |-> 0, id |-> 2, entity |-> "user_session"]}
=============================================================================
