--------------------------- MODULE VisitProtocol ---------------------------
(***************************************************************************)
(* What the visitor workflow promises, one committed transaction at a      *)
(* time.  A step changes the committed rows of the tables `requests` and   *)
(* `visitor_access_requests`; row locks, transactions in flight, the       *)
(* background worker's phases and the audit log are absent.  The detailed  *)
(* module VisitWorkflow is shown to implement this one.                    *)
(***************************************************************************)
EXTENDS VisitData

VARIABLES today,      \* the site-local date, counted from the first day
          req,        \* committed status of each request
          vis         \* committed visit_status of each visitor row

vars == <<today, req, vis>>

TypeOK ==
  /\ today \in Nat
  /\ req \in [Request -> RequestStatus]
  /\ vis \in [Visitor -> VisitStatus]

Init ==
  /\ today = 0
  /\ req = InitialRequests
  /\ vis = InitialVisitors

NewDay ==
  /\ today < MaxDay
  /\ today' = today + 1
  /\ UNCHANGED <<req, vis>>

(* A request appears together with all its visitors, or not at all.        *)
Submit(r) ==
  /\ req[r] = "NONE"
  /\ req' = [req EXCEPT ![r] = "SUBMITTED"]
  /\ vis' = [v \in Visitor |-> IF Parent[v] = r THEN "PENDING_ARRIVAL" ELSE vis[v]]
  /\ UNCHANGED today

Review(r, from, to) ==
  /\ req[r] \in from
  /\ req' = [req EXCEPT ![r] = to]
  /\ UNCHANGED <<today, vis>>

Approve(r) == Review(r, {"SUBMITTED"}, "APPROVED")
Reject(r) == Review(r, {"SUBMITTED"}, "REJECTED")
Cancel(r) == Review(r, {"SUBMITTED", "APPROVED"}, "CANCELLED")

Attend(v, from, to) ==
  /\ vis[v] = from
  /\ DateOf(v) <= today
  /\ vis' = [vis EXCEPT ![v] = to]
  /\ UNCHANGED <<today, req>>

(* The arrival decision is taken once, under an approval still in force.   *)
CheckIn(v) ==
  /\ req[Parent[v]] = "APPROVED"
  /\ Attend(v, "PENDING_ARRIVAL", "CHECKED_IN")

Deny(v) ==
  /\ req[Parent[v]] = "APPROVED"
  /\ Attend(v, "PENDING_ARRIVAL", "DENIED_ENTRY")

(* Leaving needs no approval: a person inside may leave a cancelled visit. *)
CheckOut(v) == Attend(v, "CHECKED_IN", "CHECKED_OUT")

(* Mutant: the sweep forgets that only approved requests have no-shows.    *)
LapseUndecided(S) ==
  /\ \A v \in S : vis[v] = "PENDING_ARRIVAL" /\ DateOf(v) < today
  /\ vis' = [v \in Visitor |-> IF v \in S THEN "NO_SHOW" ELSE vis[v]]
  /\ UNCHANGED <<today, req>>

(* One sweep: some pending visitors of approved requests, after the date.  *)
Lapse(S) ==
  /\ \A v \in S : /\ req[Parent[v]] = "APPROVED"
                  /\ vis[v] = "PENDING_ARRIVAL"
                  /\ DateOf(v) < today
  /\ vis' = [v \in Visitor |-> IF v \in S THEN "NO_SHOW" ELSE vis[v]]
  /\ UNCHANGED <<today, req>>

Next ==
  \/ NewDay
  \/ \E r \in Request : Submit(r) \/ Approve(r) \/ Reject(r) \/ Cancel(r)
  \/ \E v \in Visitor : CheckIn(v) \/ Deny(v) \/ CheckOut(v)
  \/ \E S \in SUBSET Visitor : Lapse(S)

Spec == Init /\ [][Next]_vars

(* A person inside was admitted no earlier than the visit date under an    *)
(* approval, so the date guard of check-out (security_portal/service.py    *)
(* 180) never keeps anyone in, whatever became of the request since.       *)
InsideMayLeave ==
  \A v \in Visitor : vis[v] = "CHECKED_IN" =>
    /\ DateOf(v) <= today
    /\ req[Parent[v]] \in {"APPROVED", "CANCELLED"}

(* Attendance and decision agree: visitor rows exist exactly when their    *)
(* request does, nobody gets an outcome under a request that was never     *)
(* approved, and a no-show is never recorded before the date has passed.   *)
OutcomesMatchDecisions ==
  \A v \in Visitor :
    /\ vis[v] = "NONE" <=> req[Parent[v]] = "NONE"
    /\ req[Parent[v]] \in {"SUBMITTED", "REJECTED"} => vis[v] = "PENDING_ARRIVAL"
    /\ vis[v] = "NO_SHOW" => DateOf(v) < today

=============================================================================
