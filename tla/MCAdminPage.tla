------------------------------ MODULE MCAdminPage ------------------------------
(* A menu of two top-level entries, the first one with a child. *)
EXTENDS AdminPage

MCItems == {"orders", "open", "log"}
MCParent == [orders |-> "top", open |-> "orders", log |-> "top"]
MCOrder == [orders |-> 1, open |-> 2, log |-> 3]

================================================================================
