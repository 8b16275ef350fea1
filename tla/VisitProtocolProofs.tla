------------------------ MODULE VisitProtocolProofs ------------------------
(***************************************************************************)
(* The invariants of the abstract visitor protocol, and of what the staff  *)
(* see of it, for any requests, visitors and visit dates.                  *)
(***************************************************************************)
EXTENDS VisitViews, TLAPS

(* The three are inductive together.                                       *)
Inv == TypeOK /\ InsideMayLeave /\ OutcomesMatchDecisions

LEMMA InitInv == Init => Inv
<1>. SUFFICES ASSUME Init PROVE Inv
  OBVIOUS
<1>1. TypeOK
  BY ParentAssumption DEF Init, TypeOK, InitialRequests, InitialVisitors, RequestStatus,
     VisitStatus
<1>2. \A v \in Visitor :
        /\ Parent[v] \in Legacy => /\ req[Parent[v]] = "EXPIRED" /\ vis[v] = "NO_SHOW"
                                   /\ DateOf(v) < today
        /\ Parent[v] \notin Legacy => req[Parent[v]] = "NONE" /\ vis[v] = "NONE"
  BY ParentAssumption, LegacyAssumption DEF Init, InitialRequests, InitialVisitors, DateOf
<1>3. InsideMayLeave /\ OutcomesMatchDecisions
  BY <1>2 DEF InsideMayLeave, OutcomesMatchDecisions
<1>. QED
  BY <1>1, <1>3 DEF Inv

LEMMA SubmitInv ==
  ASSUME Inv, NEW r \in Request, Submit(r)
  PROVE  Inv'
<1>1. TypeOK'
  BY DEF Inv, TypeOK, Submit, RequestStatus, VisitStatus
<1>2. \A v \in Visitor : Parent[v] \in Request
  BY ParentAssumption
<1>3. InsideMayLeave' /\ OutcomesMatchDecisions'
  BY <1>2 DEF Inv, TypeOK, Submit, InsideMayLeave, OutcomesMatchDecisions, DateOf
<1>. QED
  BY <1>1, <1>3 DEF Inv

LEMMA ReviewInv ==
  ASSUME Inv, NEW r \in Request, Approve(r) \/ Reject(r) \/ Cancel(r)
  PROVE  Inv'
<1>1. PICK to \in {"APPROVED", "REJECTED", "CANCELLED"} :
        /\ req' = [req EXCEPT ![r] = to] /\ vis' = vis /\ today' = today
        /\ req[r] = "SUBMITTED" \/ (req[r] = "APPROVED" /\ to = "CANCELLED")
  BY DEF Approve, Reject, Cancel, Review
<1>2. TypeOK'
  BY <1>1 DEF Inv, TypeOK, RequestStatus
<1>3. \A v \in Visitor : Parent[v] \in Request
  BY ParentAssumption
<1>4. InsideMayLeave' /\ OutcomesMatchDecisions'
  BY <1>1, <1>3 DEF Inv, TypeOK, InsideMayLeave, OutcomesMatchDecisions, DateOf
<1>. QED
  BY <1>2, <1>4 DEF Inv

LEMMA AttendInv ==
  ASSUME Inv, NEW v \in Visitor, CheckIn(v) \/ Deny(v) \/ CheckOut(v)
  PROVE  Inv'
<1>1. PICK to \in {"CHECKED_IN", "DENIED_ENTRY", "CHECKED_OUT"} :
        /\ vis' = [vis EXCEPT ![v] = to] /\ req' = req /\ today' = today
        /\ DateOf(v) <= today
        /\ \/ vis[v] = "PENDING_ARRIVAL" /\ req[Parent[v]] = "APPROVED"
           \/ vis[v] = "CHECKED_IN" /\ to = "CHECKED_OUT"
  BY DEF CheckIn, Deny, CheckOut, Attend
<1>2. TypeOK'
  BY <1>1 DEF Inv, TypeOK, VisitStatus
<1>3. InsideMayLeave' /\ OutcomesMatchDecisions'
  BY <1>1 DEF Inv, TypeOK, InsideMayLeave, OutcomesMatchDecisions, DateOf
<1>. QED
  BY <1>2, <1>3 DEF Inv

LEMMA LapseInv ==
  ASSUME Inv, NEW S \in SUBSET Visitor, Lapse(S)
  PROVE  Inv'
<1>1. TypeOK'
  BY DEF Inv, TypeOK, Lapse, VisitStatus
<1>2. InsideMayLeave' /\ OutcomesMatchDecisions'
  BY DEF Inv, TypeOK, Lapse, InsideMayLeave, OutcomesMatchDecisions, DateOf
<1>. QED
  BY <1>1, <1>2 DEF Inv

LEMMA NewDayInv == Inv /\ NewDay => Inv'
<1>. SUFFICES ASSUME Inv, NewDay PROVE Inv'
  OBVIOUS
<1>1. \A v \in Visitor : DateOf(v) \in Int
  BY ParentAssumption, VisitDateAssumption DEF DateOf
<1>. QED
  BY <1>1 DEF Inv, TypeOK, NewDay, InsideMayLeave, OutcomesMatchDecisions, DateOf

LEMMA NextInv == Inv /\ [Next]_vars => Inv'
<1>1. Inv /\ UNCHANGED vars => Inv'
  BY DEF Inv, TypeOK, InsideMayLeave, OutcomesMatchDecisions, vars, DateOf
<1>. QED
  BY <1>1, SubmitInv, ReviewInv, AttendInv, LapseInv, NewDayInv DEF Next

(* A person inside was admitted under an approval and no earlier than the  *)
(* visit date, so the check-out guards never keep anyone in, and outcomes  *)
(* and decisions agree.                                                    *)
THEOREM ProtocolSafe == Spec => [](InsideMayLeave /\ OutcomesMatchDecisions)
BY InitInv, NextInv, PTL DEF Spec, Inv

-----------------------------------------------------------------------------
(* What a step of the protocol never takes back.                           *)
LEMMA Onward ==
  ASSUME Inv, [Next]_vars
  PROVE  /\ today \in Nat /\ today' \in Nat /\ today <= today'
         /\ \A v \in Visitor : /\ vis[v] = "CHECKED_IN" => vis'[v] \in {"CHECKED_IN", "CHECKED_OUT"}
                               /\ vis[v] = "CHECKED_OUT" => vis'[v] = "CHECKED_OUT"
         /\ \A r \in Request :
              /\ req[r] = "SUBMITTED" => req'[r] \in {"SUBMITTED", "APPROVED", "REJECTED", "CANCELLED"}
              /\ req[r] = "APPROVED" => req'[r] \in {"APPROVED", "CANCELLED"}
              /\ req[r] \in {"REJECTED", "CANCELLED"} => req'[r] = req[r]
              /\ req'[r] = "EXPIRED" => req[r] = "EXPIRED"
<1>1. /\ today \in Nat /\ req \in [Request -> RequestStatus] /\ vis \in [Visitor -> VisitStatus]
      /\ \A v \in Visitor : Parent[v] \in Request /\ (vis[v] = "NONE" <=> req[Parent[v]] = "NONE")
  BY ParentAssumption DEF Inv, TypeOK, OutcomesMatchDecisions
<1>2. CASE UNCHANGED vars
  BY <1>1, <1>2 DEF vars
<1>3. CASE NewDay
  BY <1>1, <1>3 DEF NewDay
<1>4. CASE \E r \in Request : Submit(r)
  BY <1>1, <1>4 DEF Submit
<1>5. CASE \E r \in Request : Approve(r) \/ Reject(r) \/ Cancel(r)
  BY <1>1, <1>5 DEF Approve, Reject, Cancel, Review
<1>6. CASE \E v \in Visitor : CheckIn(v) \/ Deny(v) \/ CheckOut(v)
  BY <1>1, <1>6 DEF CheckIn, Deny, CheckOut, Attend
<1>7. CASE \E S \in SUBSET Visitor : Lapse(S)
  BY <1>1, <1>7 DEF Lapse
<1>. QED
  BY <1>2, <1>3, <1>4, <1>5, <1>6, <1>7 DEF Next

-----------------------------------------------------------------------------
(* The lists.  Only visits of the past were expired.                       *)
ExpiredIsOver == \A v \in Visitor : req[Parent[v]] = "EXPIRED" => DateOf(v) < today

LEMMA InitOver == Init => ExpiredIsOver
BY ParentAssumption, LegacyAssumption DEF Init, InitialRequests, ExpiredIsOver, DateOf

LEMMA NextOver == Inv /\ ExpiredIsOver /\ [Next]_vars => ExpiredIsOver'
<1>. SUFFICES ASSUME Inv, ExpiredIsOver, [Next]_vars, NEW v \in Visitor,
                     req'[Parent[v]] = "EXPIRED"
              PROVE  DateOf(v) < today'
  BY DEF ExpiredIsOver, DateOf
<1>1. Parent[v] \in Request /\ DateOf(v) \in Int
  BY ParentAssumption, VisitDateAssumption DEF DateOf
<1>2. today \in Nat /\ today' \in Nat /\ today <= today' /\ req[Parent[v]] = "EXPIRED"
  BY <1>1, Onward
<1>. QED
  BY <1>1, <1>2 DEF ExpiredIsOver

LEMMA ListsFollow ==
  ASSUME Inv, ExpiredIsOver
  PROVE  ListsMissNothing
<1>1. \A v \in Visitor : Parent[v] \in Request /\ req[Parent[v]] \in RequestStatus
  BY ParentAssumption DEF Inv, TypeOK
<1>2. InsideIsListed
  BY <1>1 DEF InsideIsListed, SecurityVisitors, SecurityVisible, Inv, OutcomesMatchDecisions,
              ExpiredIsOver, RequestStatus
<1>3. FilterFindsShown
  BY DEF FilterFindsShown, Filtered, ShownStatus
<1>. QED
  BY <1>2, <1>3 DEF ListsMissNothing

-----------------------------------------------------------------------------
(* The summaries: what each plan counts, in order.                         *)
LEMMA Plans ==
  /\ Len(AdminCounts) = 3 /\ AdminCounts[1] = "pending" /\ AdminCounts[2] = "approved"
  /\ AdminCounts[3] = "inside"
  /\ Len(SecurityCounts) = 4 /\ SecurityCounts[1] = "approved" /\ SecurityCounts[2] = "inside"
  /\ SecurityCounts[3] = "upcoming" /\ SecurityCounts[4] = "left"
  /\ Len(<<>>) = 0 /\ DOMAIN <<>> = {}
BY DEF AdminCounts, SecurityCounts

LEMMA CountedIs ==
  ASSUME NEW day
  PROVE  /\ Counted("pending", day) = Pending /\ Counted("approved", day) = ApprovedOn(day)
         /\ Counted("inside", day) = Inside /\ Counted("upcoming", day) = Upcoming(day)
         /\ Counted("left", day) = Left
BY DEF Counted

(* The types of a summary, apart from those of the tables.                 *)
SummaryOK ==
  /\ DOMAIN summary = {"plan", "done", "day", "got"}
  /\ summary = [plan |-> summary.plan, done |-> summary.done,
                day |-> summary.day, got |-> summary.got]
  /\ summary.plan \in Counts \cup {<<>>}
  /\ summary.done \in 0..Len(summary.plan) /\ summary.day \in 0..today
  /\ DOMAIN summary.got = {summary.plan[i] : i \in 1..summary.done}
  /\ \A what \in DOMAIN summary.got :
       summary.got[what] \subseteq (IF what = "pending" THEN Request ELSE Visitor)
  /\ since.req \in [Request -> RequestStatus] /\ since.vis \in [Visitor -> VisitStatus]

(* Whoever was inside is still, or has left; who was not counted inside    *)
(* had left by then.                                                       *)
NobodyLost ==
  \A v \in Visitor : since.vis[v] = "CHECKED_IN" =>
    /\ vis[v] \in {"CHECKED_IN", "CHECKED_OUT"}
    /\ summary.plan = SecurityCounts /\ summary.done >= 2
         => v \in summary.got["inside"] \/ vis[v] = "CHECKED_OUT"
    /\ summary.plan = SecurityCounts /\ summary.done >= 4
         => v \in summary.got["inside"] \/ v \in summary.got["left"]

(* What was under review still is, or is decided, and was counted so.      *)
Waited(r) == summary.done >= 1 /\ r \in summary.got["pending"]
NoRequestLost ==
  \A v \in Visitor : since.req[Parent[v]] = "SUBMITTED" =>
    /\ req[Parent[v]] \in {"SUBMITTED", "APPROVED", "REJECTED", "CANCELLED"}
    /\ summary.plan = AdminCounts /\ summary.done >= 1
         => Waited(Parent[v]) \/ req[Parent[v]] # "SUBMITTED"
    /\ summary.plan = AdminCounts /\ summary.done >= 2
         => \/ Waited(Parent[v])
            \/ DateOf(v) = summary.day => v \in summary.got["approved"]
            \/ req[Parent[v]] \in {"REJECTED", "CANCELLED"}

ViewInv == Inv /\ ExpiredIsOver /\ SummaryOK /\ NobodyLost /\ NoRequestLost

LEMMA InitViews == ViewInit => ViewInv
<1>. SUFFICES ASSUME ViewInit PROVE ViewInv
  OBVIOUS
<1>1. Inv /\ ExpiredIsOver
  BY InitInv, InitOver DEF ViewInit
<1>2. /\ summary = [plan |-> <<>>, done |-> 0, day |-> 0, got |-> <<>>]
      /\ since = [req |-> req, vis |-> vis] /\ today = 0
  BY DEF ViewInit, Init, NoSummary
<1>3. SummaryOK
  <2>1. \A i \in 1..0 : FALSE
    OBVIOUS
  <2>2. DOMAIN summary.got = {summary.plan[i] : i \in 1..summary.done}
    BY <1>2, <2>1, Plans
  <2>3. since.req \in [Request -> RequestStatus] /\ since.vis \in [Visitor -> VisitStatus]
    BY <1>1, <1>2 DEF Inv, TypeOK
  <2>. QED
    BY <1>2, <2>2, <2>3, Plans DEF SummaryOK
<1>4. \A v \in Visitor : Parent[v] \in Request
  BY ParentAssumption
<1>5. NobodyLost
  BY <1>2 DEF NobodyLost
<1>6. NoRequestLost
  BY <1>2, <1>4 DEF NoRequestLost
<1>. QED
  BY <1>1, <1>3, <1>5, <1>6 DEF ViewInv

(* The tables move on under a summary.                                     *)
LEMMA TablesMove ==
  ASSUME ViewInv, [Next]_vars, UNCHANGED <<summary, since>>
  PROVE  ViewInv'
<1>1. Inv' /\ ExpiredIsOver'
  BY NextInv, NextOver DEF ViewInv
<1>2. SummaryOK'
  <2>1. today \in Nat /\ today' \in Nat /\ today <= today'
    BY Onward DEF ViewInv
  <2>2. summary.day \in 0..today'
    BY <2>1 DEF ViewInv, SummaryOK
  <2>. QED
    BY <2>2 DEF ViewInv, SummaryOK
<1>3. NobodyLost'
  BY Onward DEF ViewInv, NobodyLost
<1>4. NoRequestLost'
  <2>1. \A v \in Visitor : Parent[v] \in Request
    BY ParentAssumption
  <2>. QED
    BY <2>1, Onward DEF ViewInv, NoRequestLost, Waited, DateOf
<1>. QED
  BY <1>1, <1>2, <1>3, <1>4 DEF ViewInv

LEMMA AskInv ==
  ASSUME ViewInv, NEW plan \in Counts, AskSummary(plan)
  PROVE  ViewInv'
<1>1. /\ summary' = [plan |-> plan, done |-> 0, day |-> today, got |-> <<>>]
      /\ since' = [req |-> req, vis |-> vis] /\ UNCHANGED vars
  BY DEF AskSummary
<1>2. Inv' /\ ExpiredIsOver'
  BY <1>1, NextInv, NextOver DEF ViewInv
<1>3. SummaryOK'
  <2>1. \A i \in 1..0 : FALSE
    OBVIOUS
  <2>2. DOMAIN summary'.got = {summary'.plan[i] : i \in 1..summary'.done}
    BY <1>1, <2>1, Plans
  <2>3. today \in Nat /\ since'.req \in [Request -> RequestStatus]
          /\ since'.vis \in [Visitor -> VisitStatus]
    BY <1>1 DEF ViewInv, Inv, TypeOK
  <2>4. Len(plan) \in Nat
    BY Plans DEF Counts
  <2>5. summary'.done \in 0..Len(summary'.plan) /\ summary'.day \in 0..today
    BY <1>1, <2>3, <2>4
  <2>6. today' = today
    BY <1>1 DEF vars
  <2>. QED
    BY <1>1, <2>2, <2>3, <2>5, <2>6, Plans DEF SummaryOK
<1>4. \A v \in Visitor : Parent[v] \in Request
  BY ParentAssumption
<1>5. NobodyLost'
  BY <1>1 DEF NobodyLost, vars
<1>6. NoRequestLost'
  BY <1>1, <1>4 DEF NoRequestLost, vars
<1>. QED
  BY <1>2, <1>3, <1>5, <1>6 DEF ViewInv

LEMMA CountInv ==
  ASSUME ViewInv, Count
  PROVE  ViewInv'
<1> DEFINE n == summary.done + 1
           what == summary.plan[n]
           found == Counted(what, summary.day)
           got == [w \in DOMAIN summary.got \cup {what} |->
                     IF w = what THEN found ELSE summary.got[w]]
<1>1. /\ n <= Len(summary.plan) /\ UNCHANGED <<vars, since>>
      /\ summary' = [summary EXCEPT !.done = n, !.got = got]
  BY DEF Count
<1>2. summary' = [plan |-> summary.plan, done |-> n, day |-> summary.day, got |-> got]
  <2> HIDE DEF got, n
  <2>. QED
    BY <1>1 DEF ViewInv, SummaryOK
<1>3. Inv' /\ ExpiredIsOver'
  BY <1>1, NextInv, NextOver DEF ViewInv
<1>4. /\ summary.plan = AdminCounts \/ summary.plan = SecurityCounts
      /\ summary.done \in Nat /\ n \in 1..Len(summary.plan)
  BY <1>1, Plans DEF ViewInv, SummaryOK, Counts
<1>5. what \in {"pending", "approved", "inside", "upcoming", "left"}
  BY <1>4, Plans
<1>6. found \subseteq (IF what = "pending" THEN Request ELSE Visitor)
  BY <1>5, CountedIs DEF Pending, ApprovedOn, Inside, Upcoming, Left
<1>7. /\ got[what] = found
      /\ DOMAIN got = DOMAIN summary.got \cup {what}
      /\ \A w \in DOMAIN summary.got : w # what => got[w] = summary.got[w]
  OBVIOUS
<1>8. DOMAIN got = {summary.plan[i] : i \in 1..n}
  <2>1. 1..n = 1..summary.done \cup {n}
    BY <1>4
  <2>2. DOMAIN summary.got = {summary.plan[i] : i \in 1..summary.done}
    BY DEF ViewInv, SummaryOK
  <2> HIDE DEF got, n
  <2>. QED
    BY <1>7, <2>1, <2>2
<1>9. SummaryOK'
  <2>1. \A w \in DOMAIN got : got[w] \subseteq (IF w = "pending" THEN Request ELSE Visitor)
    <3> HIDE DEF got, found, what
    <3>. QED
      BY <1>6, <1>7 DEF ViewInv, SummaryOK
  <2>2. today' = today /\ n \in 0..Len(summary.plan)
    BY <1>1, <1>4 DEF vars
  <2>3. /\ summary.plan \in Counts \cup {<<>>} /\ summary.day \in 0..today
        /\ since.req \in [Request -> RequestStatus] /\ since.vis \in [Visitor -> VisitStatus]
    BY DEF ViewInv, SummaryOK
  <2> HIDE DEF got, n
  <2>4. /\ DOMAIN summary' = {"plan", "done", "day", "got"}
        /\ summary'.plan = summary.plan /\ summary'.done = n
        /\ summary'.day = summary.day /\ summary'.got = got
    BY <1>2
  <2>5. summary' = [plan |-> summary'.plan, done |-> summary'.done,
                    day |-> summary'.day, got |-> summary'.got]
    BY <1>2, <2>4
  <2>6. since' = since
    BY <1>1
  <2>. QED
    BY <1>8, <2>1, <2>2, <2>3, <2>4, <2>5, <2>6 DEF SummaryOK
<1>10. UNCHANGED <<req, vis, today, since>>
  BY <1>1 DEF vars
<1>11. NobodyLost'
  <2>. SUFFICES ASSUME NEW v \in Visitor, since.vis[v] = "CHECKED_IN", summary.plan = SecurityCounts
                PROVE  /\ n >= 2 => v \in got["inside"] \/ vis[v] = "CHECKED_OUT"
                       /\ n >= 4 => v \in got["inside"] \/ v \in got["left"]
    <3> HIDE DEF got, n
    <3>. QED
      BY <1>2, <1>10 DEF ViewInv, NobodyLost
  <2>1. vis[v] \in {"CHECKED_IN", "CHECKED_OUT"}
    BY DEF ViewInv, NobodyLost
  <2>2. n \in {1, 2, 3, 4}
    BY <1>4, Plans
  <2>3. CASE n = 1
    BY <2>3
  <2>4. CASE n = 2
    <3>1. what = "inside" /\ found = Inside
      BY <2>4, Plans, CountedIs
    <3>2. got["inside"] = Inside
      BY <1>7, <3>1
    <3>. QED
      BY <2>1, <2>4, <3>2 DEF Inside
  <2>5. CASE n \in {3, 4}
    <3>1. "inside" \in DOMAIN summary.got /\ what # "inside"
      <4>1. 2 \in 1..summary.done /\ summary.plan[2] = "inside"
        BY <2>5, <1>4, Plans
      <4>. QED
        BY <2>5, <4>1, Plans DEF ViewInv, SummaryOK
    <3>2. got["inside"] = summary.got["inside"]
      BY <1>7, <3>1
    <3>3. v \in got["inside"] \/ vis[v] = "CHECKED_OUT"
      BY <2>5, <1>4, <3>2 DEF ViewInv, NobodyLost
    <3>4. n = 4 => got["left"] = Left
      BY <1>7, Plans, CountedIs
    <3> HIDE DEF got, n
    <3>. QED
      BY <2>5, <3>3, <3>4 DEF Left
  <2>. QED
    BY <2>2, <2>3, <2>4, <2>5
<1>12. NoRequestLost'
  <2>. SUFFICES ASSUME NEW v \in Visitor, since.req[Parent[v]] = "SUBMITTED",
                       summary.plan = AdminCounts
                PROVE  /\ n >= 1
                            => Parent[v] \in got["pending"] \/ req[Parent[v]] # "SUBMITTED"
                       /\ n >= 2
                            => \/ Parent[v] \in got["pending"]
                               \/ DateOf(v) = summary.day => v \in got["approved"]
                               \/ req[Parent[v]] \in {"REJECTED", "CANCELLED"}
    <3>1. n >= 1
      BY <1>4
    <3> HIDE DEF got, n
    <3>. QED
      BY <1>2, <1>10, <3>1 DEF ViewInv, NoRequestLost, Waited, DateOf
  <2>1. /\ req[Parent[v]] \in {"SUBMITTED", "APPROVED", "REJECTED", "CANCELLED"}
        /\ Parent[v] \in Request
    BY ParentAssumption DEF ViewInv, NoRequestLost
  <2>2. n \in {1, 2, 3}
    BY <1>4, Plans
  <2>3. CASE n = 1
    <3>1. got["pending"] = Pending
      BY <1>7, <2>3, Plans, CountedIs
    <3> HIDE DEF got
    <3>. QED
      BY <2>1, <2>3, <3>1 DEF Pending
  <2>4. CASE n \in {2, 3}
    <3>1. "pending" \in DOMAIN summary.got /\ what # "pending"
      <4>1. 1 \in 1..summary.done /\ summary.plan[1] = "pending"
        BY <2>4, <1>4, Plans
      <4>. QED
        BY <2>4, <4>1, Plans DEF ViewInv, SummaryOK
    <3>2. got["pending"] = summary.got["pending"]
      BY <1>7, <3>1
    <3>3. Parent[v] \in got["pending"] \/ req[Parent[v]] # "SUBMITTED"
      BY <2>4, <1>4, <3>2 DEF ViewInv, NoRequestLost, Waited
    <3>4. CASE n = 2
      <4>1. got["approved"] = ApprovedOn(summary.day)
        BY <1>7, <3>4, Plans, CountedIs
      <4> HIDE DEF got, n
      <4>. QED
        BY <2>1, <3>3, <3>4, <4>1 DEF ApprovedOn
    <3>5. CASE n = 3
      <4>1. "approved" \in DOMAIN summary.got /\ what # "approved"
        <5>1. 2 \in 1..summary.done /\ summary.plan[2] = "approved"
          BY <3>5, <1>4, Plans
        <5>. QED
          BY <3>5, <5>1, Plans DEF ViewInv, SummaryOK
      <4>2. got["approved"] = summary.got["approved"]
        BY <1>7, <4>1
      <4>3. summary.done = 2
        BY <1>4, <3>5
      <4> HIDE DEF got, n
      <4>. QED
        BY <3>2, <3>3, <4>2, <4>3 DEF ViewInv, NoRequestLost, Waited
    <3>. QED
      BY <2>4, <3>4, <3>5
  <2>. QED
    BY <2>2, <2>3, <2>4
<1>. QED
  BY <1>3, <1>9, <1>11, <1>12 DEF ViewInv

LEMMA NextViews == ViewInv /\ [ViewNext]_viewVars => ViewInv'
<1>. SUFFICES ASSUME ViewInv, [ViewNext]_viewVars PROVE ViewInv'
  OBVIOUS
<1>1. CASE UNCHANGED viewVars
  BY <1>1, TablesMove DEF viewVars
<1>2. CASE Next /\ UNCHANGED <<summary, since>>
  BY <1>2, TablesMove
<1>. QED
  BY <1>1, <1>2, AskInv, CountInv DEF ViewNext

LEMMA ViewInvariance == ViewSpec => []ViewInv
BY InitViews, NextViews, PTL DEF ViewSpec

(* Tables and summaries keep their types.                                  *)
THEOREM ViewsTyped == ViewSpec => []ViewTypeOK
<1>1. ViewInv => ViewTypeOK
  BY DEF ViewInv, Inv, SummaryOK, ViewTypeOK
<1>. QED
  BY <1>1, ViewInvariance, PTL

(* With the views reading meanwhile, visitor rows exist exactly when their *)
(* request does, nobody gets an outcome under a request never approved,    *)
(* and no-shows are recorded only after the date.                          *)
THEOREM OutcomesFollow == ViewSpec => []OutcomesMatchDecisions
<1>1. ViewInv => OutcomesMatchDecisions
  BY DEF ViewInv, Inv
<1>. QED
  BY <1>1, ViewInvariance, PTL

(* Both portals' lists show what the staff must find: those inside on a    *)
(* request that stands, and a request under the status it is shown with.   *)
THEOREM ListsComplete == ViewSpec => []ListsMissNothing
<1>1. ViewInv => ListsMissNothing
  BY ListsFollow DEF ViewInv
<1>. QED
  BY <1>1, ViewInvariance, PTL

(* Nobody is lost between two counts of a summary, though each has its own *)
(* snapshot: the counts are taken in the direction people move.            *)
THEOREM SummariesComplete == ViewSpec => []SummariesMissNothing
<1>1. ViewInv => SummaryMissesNobody
  BY Plans DEF ViewInv, NobodyLost, SummaryMissesNobody
<1>2. ViewInv => SummaryMissesNoRequest
  BY Plans DEF ViewInv, NoRequestLost, SummaryMissesNoRequest, Waited
<1>. QED
  BY <1>1, <1>2, ViewInvariance, PTL DEF SummariesMissNothing

=============================================================================
