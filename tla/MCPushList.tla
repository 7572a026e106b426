------------------------------- MODULE MCPushList -------------------------------
(* Rules in the order of their ids, one on a page. *)
EXTENDS PushList, TLC

CONSTANTS r1, r2

IdOrder == (r1 :> 1) @@ (r2 :> 2)

================================================================================
