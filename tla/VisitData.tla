----------------------------- MODULE VisitData -----------------------------
(***************************************************************************)
(* The rows of the visitor workflow and the values their status columns    *)
(* take, shared by the abstract VisitProtocol and the detailed             *)
(* VisitWorkflow.                                                          *)
(***************************************************************************)
EXTENDS Integers

CONSTANTS Request,    \* ids of request rows
          Visitor,    \* ids of visitor_access_request rows
          Parent,     \* the immutable foreign key request_id of a visitor row
          VisitDate,  \* the visit_date every visitor of a request is given
          Legacy,     \* requests an earlier release has already set to EXPIRED
          MaxDay      \* bound: the last site date explored

ASSUME ParentAssumption == Parent \in [Visitor -> Request]
ASSUME VisitDateAssumption == VisitDate \in [Request -> Int]
ASSUME LegacyAssumption ==
  /\ Legacy \subseteq Request
  /\ \A r \in Legacy : VisitDate[r] < 0
ASSUME MaxDayAssumption == MaxDay \in Nat

(* "NONE" stands for a row that has not been inserted.  DRAFT is declared  *)
(* in the code's enumeration and never written.                            *)
RequestStatus == {"NONE", "SUBMITTED", "APPROVED", "REJECTED", "CANCELLED", "EXPIRED"}
VisitStatus == {"NONE", "PENDING_ARRIVAL", "CHECKED_IN", "CHECKED_OUT",
                "NO_SHOW", "DENIED_ENTRY"}

VisitorsOf(r) == {v \in Visitor : Parent[v] = r}
DateOf(v) == VisitDate[Parent[v]]

(* The committed tables on the first day explored.  Requests the previous  *)
(* release expired have a past date and only settled visitors.             *)
InitialRequests == [r \in Request |-> IF r \in Legacy THEN "EXPIRED" ELSE "NONE"]
InitialVisitors == [v \in Visitor |-> IF Parent[v] \in Legacy THEN "NO_SHOW" ELSE "NONE"]

=============================================================================
