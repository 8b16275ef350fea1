---------------------------- MODULE MCTokenGate ----------------------------
(* Instances of TokenGate for TLC: a sound token for each key, one with a   *)
(* wrong claim, one without a role; a route for staff with an active        *)
(* session, one for another role, and one with a session that ended.        *)
EXTENDS TokenGate, TLC

CONSTANTS k1, k2, t1, t2, OPS, SECURITY

MCTokens ==
  [kid : {k1, k2}, wrong : {{}}, roles : {{OPS}}]
    \cup {[kid |-> k1, wrong |-> {"exp"}, roles |-> {OPS}],
          [kid |-> k2, wrong |-> {}, roles |-> {}]}

MCRoutes ==
  {[roles |-> {OPS}, session |-> TRUE, active |-> TRUE],
   [roles |-> {SECURITY}, session |-> FALSE, active |-> FALSE],
   [roles |-> {OPS}, session |-> TRUE, active |-> FALSE]}

=============================================================================
