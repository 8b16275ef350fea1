-------------------------- MODULE MCVisitViews --------------------------
(***************************************************************************)
(* An instance of VisitViews: a party of two, a single visit a day later,  *)
(* and a request expired by the previous release.                          *)
(***************************************************************************)
EXTENDS VisitViews, TLC

CONSTANTS party, single, old, ann, ben, cleo, gone

MCParent == ann :> party @@ ben :> party @@ cleo :> single @@ gone :> old
MCVisitDate == party :> 1 @@ single :> 2 @@ old :> -1

=============================================================================
