----------------------------- MODULE MCPushDispatch -----------------------------
(* The rules come in one order, the handler beans in the other. *)
EXTENDS PushDispatch

MCChannels == {"ding", "app", "system"}
MCPriority == [c \in MCChannels |-> CASE c = "ding" -> 3 [] c = "system" -> 2 [] OTHER -> 1]
MCBeanOrder == [c \in MCChannels |-> 4 - MCPriority[c]]

================================================================================
