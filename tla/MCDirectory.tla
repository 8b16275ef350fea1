---------------------------- MODULE MCDirectory ----------------------------
(***************************************************************************)
(* An instance of Directory for TLC: two companies that two clients create *)
(* and edit, with two codes between them.  Contacts of a company besides   *)
(* its main contact are in MCSubmission.                                   *)
(***************************************************************************)
EXTENDS Directory, TLC

CONSTANTS x1, x2, m1, m2, A, B, c1, c2

CompaniesOnly == m1 :> x1 @@ m2 :> x2
Mains == x1 :> m1 @@ x2 :> m2
Mails == x1 :> B @@ x2 :> B
TwoKeys == A :> A @@ B :> B
=============================================================================
