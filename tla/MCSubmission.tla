---------------------------- MODULE MCSubmission ----------------------------
(* An instance of Submission for TLC: a company whose status and main       *)
(* contact are edited and a further contact created, while a submission and *)
(* a midnight go on.                                                        *)
EXTENDS Submission, TLC

CONSTANTS x1, m1, k1, A, c1, s1

MCCompanyOf == m1 :> x1 @@ k1 :> x1
MCMain == x1 :> m1
MCMail == x1 :> A
MCLower == A :> A
=============================================================================
