------------------------------ MODULE MCMarkets ------------------------------
(* Markets with users of whom one holds enough to propose and one holds      *)
(* nothing, two providers, two clients of which one may become an admin's,   *)
(* and three events about two user numbers.                                  *)
EXTENDS Markets, TLC

CONSTANTS u1, u2, u3, v1, v2, v3

HoldingValue == u1 :> 5 @@ u2 :> 1 @@ u3 :> None
TokensValue == {[user |-> u1, role |-> "admin"], [user |-> u2, role |-> "user"]}
EventOfValue ==
  v1 :> [kind |-> "margin.call", user |-> 1] @@ v2 :> [kind |-> "position.liquidated", user |-> 1]
  @@ v3 :> [kind |-> "margin.call", user |-> 2]
=============================================================================
