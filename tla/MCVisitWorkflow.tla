-------------------------- MODULE MCVisitWorkflow --------------------------
(***************************************************************************)
(* Instances of VisitWorkflow for TLC.  The site's clock starts on day 0,  *)
(* the day of the visit; on day 1 what is still pending is overdue.        *)
(***************************************************************************)
EXTENDS VisitWorkflow, TLC

CONSTANTS r1, v1, h1, h2, w1

VisitToday == r1 :> 0

OneParent == v1 :> r1
=============================================================================
