--------------------------- MODULE MessageSendAsync ----------------------------
(***************************************************************************)
(* The producing side.  A request thread of ProducerController runs sendMsg *)
(* (row first, then publish); the confirm callback of the RabbitTemplate    *)
(* runs on a thread of the connection's executor, so several can run at     *)
(* once, and reads the row, publishes again and writes the row back.        *)
(***************************************************************************)
EXTENDS RabbitBroker

CONSTANTS
    Foreign,    \* messages other systems put into push_msg themselves
    Confirmers  \* threads that run confirm callbacks

ASSUME ForeignAssumption == Foreign \subseteq Msgs

VARIABLES
    request,    \* where the request thread of a message is
    callback    \* what a confirm thread is doing

senderVars == <<request, callback>>

NoCallback == [at |-> "idle"]
Reading(stage, m, n) == [at |-> stage, msg |-> m, failNum |-> n]
Callbacks == [at : {"selected", "republished"}, msg : Msgs, failNum : Nat]

SenderTypeOK ==
    /\ request \in [Msgs -> {"none", "inserted", "sent", "failed"}]
    /\ callback \in [Confirmers -> {NoCallback} \cup Callbacks]

SenderInit ==
    /\ request = [m \in Msgs |-> "none"]
    /\ callback = [t \in Confirmers |-> NoCallback]

RedeliveryLimit == 3

--------------------------------------------------------------------------------
\* Mutant: a failed insert is swallowed and the message is published anyway.
SendMsgInsertSwallowed(m) ==
    /\ m \notin Foreign
    /\ request[m] = "none"
    /\ request' = [request EXCEPT ![m] = "inserted"]
    /\ \/ Insert(m) /\ UNCHANGED faultsLeft
       \/ Fault /\ UNCHANGED tableVars
    /\ UNCHANGED <<brokerVars, callback>>

\* sendMsg, first half: the row is written before anything is published.
SendMsgInsert(m) ==
    /\ m \notin Foreign
    /\ request[m] = "none"
    /\ \/ /\ Insert(m)
          /\ request' = [request EXCEPT ![m] = "inserted"]
          /\ UNCHANGED faultsLeft
       \/ /\ Fault
          /\ request' = [request EXCEPT ![m] = "failed"]
          /\ Insert(m) \/ UNCHANGED tableVars
    /\ UNCHANGED <<brokerVars, callback>>

\* Mutant: a row whose publish failed is taken back.
SendMsgPublishRollingBack(m) ==
    /\ request[m] = "inserted"
    /\ \/ /\ Publish(PUSH_MSG, m)
          /\ request' = [request EXCEPT ![m] = "sent"]
          /\ UNCHANGED tableVars
       \/ /\ PublishThrows
          /\ request' = [request EXCEPT ![m] = "failed"]
          /\ result' = [result EXCEPT ![m] = NO_ROW]
          /\ UNCHANGED <<failNum, failures>>
    /\ UNCHANGED callback

\* sendMsg, second half.
SendMsgPublish(m) ==
    /\ request[m] = "inserted"
    /\ \/ /\ Publish(PUSH_MSG, m)
          /\ request' = [request EXCEPT ![m] = "sent"]
       \/ /\ PublishThrows
          /\ request' = [request EXCEPT ![m] = "failed"]
    /\ UNCHANGED <<tableVars, callback>>

\* Another system publishes to push_msg by itself: no row, no confirm here.
ForeignPublish(m) ==
    /\ m \in Foreign
    /\ request[m] = "none"
    /\ request' = [request EXCEPT ![m] = "sent"]
    /\ Enqueue(PUSH_MSG, m)
    /\ UNCHANGED <<tableVars, faultsLeft, stuck, nacked, nacksLeft, callback>>

--------------------------------------------------------------------------------
\* Mutant: confirm does not look at its ack argument.
ConfirmSelectIgnoringAck(t, m) ==
    /\ callback[t] = NoCallback
    /\ nacked' = [nacked EXCEPT ![m] = @ - 1]
    /\ callback' = [callback EXCEPT ![t] = Reading("selected", m, failNum[m])]
    /\ UNCHANGED <<tableVars, faultsLeft, ready, stuck, nacksLeft, request>>

\* confirm is called with ack = false and reads the row.  When the read
\* throws, the callback ends and the nack is gone.
ConfirmSelect(t, m) ==
    /\ callback[t] = NoCallback
    /\ nacked[m] > 0
    /\ nacked' = [nacked EXCEPT ![m] = @ - 1]
    /\ \/ /\ callback' = [callback EXCEPT ![t] = Reading("selected", m, failNum[m])]
          /\ UNCHANGED faultsLeft
       \/ Fault /\ UNCHANGED callback
    /\ UNCHANGED <<tableVars, ready, stuck, nacksLeft, request>>

\* Mutant: the limit is off by one.
RepublishToEarly(n) == IF n >= RedeliveryLimit - 1 THEN FAIL_PUSH_MSG ELSE RETRY_PUSH_MSG

\* Where a nacked message goes next.
RepublishTo(n) == IF n >= RedeliveryLimit THEN FAIL_PUSH_MSG ELSE RETRY_PUSH_MSG

\* confirm publishes again; a message that goes to the fail queue keeps its row.
ConfirmRepublish(t) ==
    /\ callback[t].at = "selected"
    /\ LET m == callback[t].msg
           n == callback[t].failNum
           q == RepublishTo(n)
       IN  \/ /\ q = RETRY_PUSH_MSG
              /\ Publish(q, m)
              /\ callback' = [callback EXCEPT ![t] = Reading("republished", m, n)]
           \/ /\ q = FAIL_PUSH_MSG
              /\ Publish(q, m)
              /\ callback' = [callback EXCEPT ![t] = NoCallback]
           \/ /\ PublishThrows
              /\ callback' = [callback EXCEPT ![t] = NoCallback]
    /\ UNCHANGED <<tableVars, request>>

\* confirm counts the failure on top of the number it read before publishing.
ConfirmUpdate(t) ==
    /\ callback[t].at = "republished"
    /\ LET m == callback[t].msg
           n == callback[t].failNum + 1
       IN  \/ UpdateStatus(m, "ENQUEUE_FAIL", n)
           \/ UpdateStatusThrows(m, "ENQUEUE_FAIL", n)
    /\ callback' = [callback EXCEPT ![t] = NoCallback]
    /\ UNCHANGED <<brokerVars, request>>

================================================================================
