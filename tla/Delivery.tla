-------------------------------- MODULE Delivery --------------------------------
(***************************************************************************)
(* What the asynchronous pipeline promises of a message, whatever queues,   *)
(* retries and crashes there are underneath: it is taken, then delivered,   *)
(* and only then recorded as sent.  The record may be withdrawn, since a    *)
(* late failure overwrites the row; what was delivered stays delivered.     *)
(***************************************************************************)
CONSTANT Msgs

VARIABLES taken, delivered, recorded

vars == <<taken, delivered, recorded>>

Init == taken = {} /\ delivered = {} /\ recorded = {}

Take(m) == taken' = taken \cup {m} /\ UNCHANGED <<delivered, recorded>>

Deliver(m) ==
    /\ m \in taken
    /\ delivered' = delivered \cup {m}
    /\ UNCHANGED <<taken, recorded>>

Record(m) ==
    /\ m \in delivered
    /\ recorded' = recorded \cup {m}
    /\ UNCHANGED <<taken, delivered>>

Withdraw(m) == recorded' = recorded \ {m} /\ UNCHANGED <<taken, delivered>>

Next == \E m \in Msgs : Take(m) \/ Deliver(m) \/ Record(m) \/ Withdraw(m)

Spec == Init /\ [][Next]_vars

================================================================================
