---------------------------- MODULE MCAppSession ----------------------------
(***************************************************************************)
(* Instances of AppSession for TLC.                                        *)
(***************************************************************************)
EXTENDS AppSession, TLC

CONSTANTS s1, old, alice, h1, h2, w1

=============================================================================
