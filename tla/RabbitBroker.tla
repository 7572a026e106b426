----------------------------- MODULE RabbitBroker ------------------------------
(***************************************************************************)
(* RabbitMQ as RabbitConfig declares it: three durable queues, of which the *)
(* retry queue has a dead-letter exchange, and a RabbitTemplate with        *)
(* publisher confirms.  Consumers acknowledge by hand.  A queue is a bag of *)
(* copies: redelivery and dead-lettering give no order to rely on.          *)
(***************************************************************************)
EXTENDS SendResultTable, Functions

CONSTANTS
    MaxNacks,   \* bound: how many publishes may be answered by a nack
    Prefetch    \* unacknowledged deliveries the broker allows a consumer

ASSUME BrokerAssumption ==
    /\ MaxNacks \in Nat
    /\ Prefetch \in Nat \ {0}

VARIABLES
    ready,      \* ready[q][m]: copies of m waiting in q
    stuck,      \* stuck[q][m]: copies whose listener ended without an ack
    nacked,     \* nacked[m]: negative confirms of m not yet called back
    nacksLeft   \* how many more publishes may be nacked

brokerVars == <<ready, stuck, nacked, nacksLeft>>

PUSH_MSG == "push_msg"
RETRY_PUSH_MSG == "retry_push_msg"
FAIL_PUSH_MSG == "fail_push_msg"
Queues == {PUSH_MSG, RETRY_PUSH_MSG, FAIL_PUSH_MSG}

Empty == [q \in Queues |-> [m \in Msgs |-> 0]]

BrokerTypeOK ==
    /\ ready \in [Queues -> [Msgs -> Nat]]
    /\ stuck \in [Queues -> [Msgs -> Nat]]
    /\ nacked \in [Msgs -> Nat]
    /\ nacksLeft \in 0..MaxNacks

BrokerInit ==
    /\ ready = Empty
    /\ stuck = Empty
    /\ nacked = [m \in Msgs |-> 0]
    /\ nacksLeft = MaxNacks

Plus(bag, q, m) == [bag EXCEPT ![q][m] = @ + 1]
Minus(bag, q, m) == [bag EXCEPT ![q][m] = @ - 1]

Enqueue(q, m) == ready' = Plus(ready, q, m)

Nack(m) ==
    /\ nacksLeft > 0
    /\ nacksLeft' = nacksLeft - 1
    /\ nacked' = [nacked EXCEPT ![m] = @ + 1]

\* convertAndSend with correlation data.  The copy is kept and confirmed, or
\* refused and nacked, or kept although the connection dropped before the
\* confirm, in which case the template itself reports a nack.
Publish(q, m) ==
    /\ \/ Enqueue(q, m) /\ UNCHANGED <<nacked, nacksLeft>>
       \/ UNCHANGED ready /\ Nack(m)
       \/ Enqueue(q, m) /\ Nack(m)
    /\ UNCHANGED <<stuck, faultsLeft>>

\* convertAndSend throws: no connection, nothing was sent.
PublishThrows ==
    /\ Fault
    /\ UNCHANGED brokerVars

\* The queue that is bound to the dead-letter exchange under the routing key
\* that the retry queue dead-letters with.
DeadLetterQueue == RETRY_PUSH_MSG

\* The broker hands a copy of m to the consumer of q.
Deliver(q, m) ==
    /\ ready[q][m] > 0
    /\ SumFunction(stuck[q]) < Prefetch
    /\ ready' = Minus(ready, q, m)

================================================================================
