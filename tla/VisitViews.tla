------------------------------ MODULE VisitViews ------------------------------
(***************************************************************************)
(* What the staff see of the visits while the workflow goes on: the        *)
(* security portal's list, the requests list under its status filters, and *)
(* the two dashboard summaries, which are four counts in four statements   *)
(* at READ COMMITTED, each with a snapshot of its own.  The tables move    *)
(* as VisitProtocol says.                                                  *)
(***************************************************************************)
EXTENDS VisitProtocol, Sequences

VARIABLES summary,    \* a dashboard summary being computed or shown
          since       \* history variable: the tables when it was begun

viewVars == <<vars, summary, since>>

-----------------------------------------------------------------------------
(* security_visibility_filter, and the lists it restricts.                 *)

(* Mutant: requests the previous release expired are no longer visible.    *)
SecurityVisibleApproved(v) == req[Parent[v]] = "APPROVED"

SecurityVisible(v) ==
  \/ req[Parent[v]] = "APPROVED"
  \/ req[Parent[v]] = "EXPIRED" /\ DateOf(v) < today

SecurityVisitors(date) == {v \in Visitor : SecurityVisible(v) /\ DateOf(v) = date}

(* preserve_review_decision: a request expired by the previous release is  *)
(* shown with the decision it had.                                         *)
ShownStatus(r) == IF req[r] = "EXPIRED" THEN "APPROVED" ELSE req[r]

(* Mutant: the filter compares the stored status alone.                    *)
FilteredStored(s) == {r \in Request : req[r] = s}

(* list_requests under a status filter.                                    *)
Filtered(s) ==
  {r \in Request : req[r] = s \/ (s = "APPROVED" /\ req[r] = "EXPIRED")}

-----------------------------------------------------------------------------
(* The counts of the summaries, as the rows they count.                    *)
Pending == {r \in Request : req[r] = "SUBMITTED"}
ApprovedOn(day) == {v \in Visitor : req[Parent[v]] = "APPROVED" /\ DateOf(v) = day}
Upcoming(day) == {v \in Visitor : req[Parent[v]] = "APPROVED" /\ DateOf(v) > day}
Inside == {v \in Visitor : vis[v] = "CHECKED_IN"}
Left == {v \in Visitor : vis[v] = "CHECKED_OUT"}

AdminCounts == <<"pending", "approved", "inside">>
SecurityCounts == <<"approved", "inside", "upcoming", "left">>

Counted(what, day) ==
  CASE what = "pending" -> Pending
    [] what = "approved" -> ApprovedOn(day)
    [] what = "inside" -> Inside
    [] what = "upcoming" -> Upcoming(day)
    [] what = "left" -> Left

Counts == {AdminCounts, SecurityCounts}
NoSummary == [plan |-> <<>>, done |-> 0, day |-> 0, got |-> <<>>]

ViewTypeOK ==
  /\ TypeOK
  /\ summary.plan \in Counts \cup {<<>>}
  /\ summary.done \in 0..Len(summary.plan) /\ summary.day \in 0..today
  /\ DOMAIN summary.got = {summary.plan[i] : i \in 1..summary.done}
  /\ \A what \in DOMAIN summary.got :
       summary.got[what] \subseteq (IF what = "pending" THEN Request ELSE Visitor)
  /\ since.req \in [Request -> RequestStatus] /\ since.vis \in [Visitor -> VisitStatus]

ViewInit == Init /\ summary = NoSummary /\ since = [req |-> req, vis |-> vis]

(* site_today() is read once, when the summary is asked for.               *)
AskSummary(plan) ==
  /\ summary.done = Len(summary.plan)
  /\ summary' = [plan |-> plan, done |-> 0, day |-> today, got |-> <<>>]
  /\ since' = [req |-> req, vis |-> vis]
  /\ UNCHANGED vars

(* Mutant: the counts are taken in the opposite order.                     *)
CountBackwards ==
  LET n == summary.done + 1
      what == summary.plan[Len(summary.plan) + 1 - n]
  IN /\ n <= Len(summary.plan)
     /\ summary' = [summary EXCEPT
          !.done = n,
          !.got = [w \in DOMAIN summary.got \cup {what} |->
                     IF w = what THEN Counted(what, summary.day) ELSE summary.got[w]]]
     /\ UNCHANGED <<vars, since>>

Count ==
  LET n == summary.done + 1
      what == summary.plan[n]
  IN /\ n <= Len(summary.plan)
     /\ summary' = [summary EXCEPT
          !.done = n,
          !.got = [w \in DOMAIN summary.got \cup {what} |->
                     IF w = what THEN Counted(what, summary.day) ELSE summary.got[w]]]
     /\ UNCHANGED <<vars, since>>

ViewNext ==
  \/ Next /\ UNCHANGED <<summary, since>>
  \/ \E plan \in Counts : AskSummary(plan)
  \/ Count

ViewSpec == ViewInit /\ [][ViewNext]_viewVars

-----------------------------------------------------------------------------
(* Security finds every person inside on the list of the day they came for *)
(* unless the request was cancelled meanwhile, and every outcome of a      *)
(* visit that was not cancelled stays on that list for good.               *)
InsideIsListed ==
  \A v \in Visitor :
    \/ req[Parent[v]] = "CANCELLED"
    \/ vis[v] \in {"NONE", "PENDING_ARRIVAL"}
    \/ v \in SecurityVisitors(DateOf(v))

(* A request is found under the status it is shown with, and every filter  *)
(* but the retired EXPIRED lists only requests shown that way.             *)
FilterFindsShown ==
  \A r \in Request, s \in RequestStatus \ {"NONE", "EXPIRED"} :
    r \in Filtered(s) <=> ShownStatus(r) = s

(* The lists of both portals miss nothing that the staff must find.        *)
ListsMissNothing == InsideIsListed /\ FilterFindsShown

(* A security summary loses nobody: whoever was inside when it was asked   *)
(* for is counted as inside or as having left, though the counts are       *)
(* separate snapshots; a person leaving in between may be counted twice.   *)
SummaryMissesNobody ==
  summary.plan = SecurityCounts /\ summary.done = Len(SecurityCounts)
    => \A v \in Visitor : since.vis[v] = "CHECKED_IN"
         => v \in summary.got["inside"] \cup summary.got["left"]

(* An admin summary loses no request under review: one that was waiting    *)
(* when it was asked for is counted as waiting unless it was decided, and  *)
(* an approval for the summary's day then counts among the visits unless   *)
(* it was cancelled as well.                                               *)
SummaryMissesNoRequest ==
  summary.plan = AdminCounts /\ summary.done = Len(AdminCounts)
    => \A v \in Visitor :
         \/ since.req[Parent[v]] # "SUBMITTED"
         \/ Parent[v] \in summary.got["pending"]
         \/ DateOf(v) = summary.day => v \in summary.got["approved"]
         \/ req[Parent[v]] \in {"REJECTED", "CANCELLED"}

(* Neither summary loses what moves between its counts.                    *)
SummariesMissNothing == SummaryMissesNobody /\ SummaryMissesNoRequest
=============================================================================
