----------------------------- MODULE AsyncPipeline -----------------------------
(***************************************************************************)
(* The asynchronous delivery pipeline as a whole: request threads, confirm  *)
(* callbacks, the three listeners, the scan task, and the two environment   *)
(* events that cut through all of them, a lost channel and a crash with     *)
(* restart of the service.                                                  *)
(***************************************************************************)
EXTENDS AsynPushMsg

CONSTANTS
    MaxCrashes,   \* bound: lost channels and crashes in one behaviour
    MaxScans      \* bound: runs of the scan task; 0 while it is switched off

ASSUME PipelineAssumption == MaxCrashes \in Nat /\ MaxScans \in Nat

VARIABLES
    scan,         \* rows the scan task has read and not yet published
    scansLeft,    \* runs of the scan task still to come
    crashesLeft   \* lost channels and crashes still to come

taskVars == <<scan, scansLeft>>
vars == <<tableVars, faultsLeft, brokerVars, senderVars, consumerVars, taskVars, crashesLeft>>

Init ==
    /\ TableInit /\ BrokerInit /\ SenderInit /\ ConsumerInit
    /\ scan = {}
    /\ scansLeft = MaxScans
    /\ crashesLeft = MaxCrashes

--------------------------------------------------------------------------------
(* RetryPushMsgTask *)

ScanSelect ==
    /\ scan = {} /\ scansLeft > 0
    /\ scan' = PushFail
    /\ scansLeft' = scansLeft - 1
    /\ UNCHANGED <<tableVars, faultsLeft, brokerVars, senderVars, consumerVars, crashesLeft>>

\* One element of the forEach; an exception ends the loop.
ScanPublish(m) ==
    /\ m \in scan
    /\ \/ Publish(RETRY_PUSH_MSG, m) /\ scan' = scan \ {m}
       \/ PublishThrows /\ scan' = {}
    /\ UNCHANGED <<tableVars, senderVars, consumerVars, scansLeft, crashesLeft>>

--------------------------------------------------------------------------------
(* Failures of the environment *)

\* The queues whose listener can be interrupted between two steps.
Consumed == {PUSH_MSG, RETRY_PUSH_MSG}

\* The channel of the consumer of q closes.  The broker requeues what was not
\* acknowledged; a listener that is running goes on, with a dead channel.
ChannelLost(q) ==
    /\ crashesLeft > 0
    /\ crashesLeft' = crashesLeft - 1
    /\ ready' = [ready EXCEPT ![q] = [m \in Msgs |-> Copies(q, m)]]
    /\ stuck' = [stuck EXCEPT ![q] = Empty[q]]
    /\ handler' = [handler EXCEPT ![q] =
            IF @ = Idle THEN Idle ELSE Job(@.at, @.msg, @.failNum, FALSE)]
    /\ UNCHANGED <<tableVars, faultsLeft, nacked, nacksLeft, senderVars, aged, history, taskVars>>

\* The service stops between any two steps and starts again.  The table and
\* the queues survive; threads and outstanding confirms do not.
Crash ==
    /\ crashesLeft > 0
    /\ crashesLeft' = crashesLeft - 1
    /\ ready' = [q \in Queues |-> [m \in Msgs |-> Copies(q, m)]]
    /\ stuck' = Empty
    /\ nacked' = [m \in Msgs |-> 0]
    /\ handler' = [q \in Queues |-> Idle]
    /\ callback' = [t \in Confirmers |-> NoCallback]
    /\ request' = [m \in Msgs |-> IF request[m] = "inserted" THEN "failed" ELSE request[m]]
    /\ scan' = {}
    /\ UNCHANGED <<tableVars, faultsLeft, nacksLeft, aged, history, scansLeft>>

--------------------------------------------------------------------------------
Callback(t) ==
    \/ \E m \in Msgs : ConfirmSelect(t, m)
    \/ ConfirmRepublish(t)
    \/ ConfirmUpdate(t)

Sender ==
    \/ \E m \in Msgs : SendMsgInsert(m) \/ SendMsgPublish(m) \/ ForeignPublish(m)
    \/ \E t \in Confirmers : Callback(t)

Process ==
    \/ \E m \in Msgs : ProcessReject(m) \/ ProcessSelect(m)
    \/ ProcessPush \/ ProcessMarkSuccess
    \/ ProcessResend \/ ProcessResendThrows
    \/ ProcessMarkFail \/ ProcessMarkFailThrows
    \/ ProcessAck

Retry ==
    \/ \E m \in Msgs : RetrySelect(m)
    \/ RetryPush \/ RetryMarkSuccess \/ RetryAck \/ RetryNack

Task == ScanSelect \/ \E m \in Msgs : ScanPublish(m)

Disturbed ==
    \/ \E m \in Msgs : TimePasses(m)
    \/ \E q \in Consumed, m \in Msgs : SelectThrows(q, m)

Fail == \E m \in Msgs : FailAck(m)

SenderRest == <<consumerVars, taskVars, crashesLeft>>
ConsumerRest == <<taskVars, crashesLeft>>

Next ==
    \/ Sender /\ UNCHANGED SenderRest
    \/ (Process \/ Retry \/ Fail \/ Disturbed) /\ UNCHANGED ConsumerRest
    \/ Task
    \/ \E q \in Consumed : ChannelLost(q)
    \/ Crash

Spec == Init /\ [][Next]_vars

(***************************************************************************)
(* Every thread that has something to do goes on: the executor runs the     *)
(* callbacks, the listener containers run the handlers and poll again.      *)
(* Nothing makes a client send, time pass, a call throw or a channel close. *)
(***************************************************************************)
Fairness ==
    /\ \A m \in Msgs : WF_vars(SendMsgPublish(m) /\ UNCHANGED SenderRest)
    /\ \A t \in Confirmers : WF_vars(Callback(t) /\ UNCHANGED SenderRest)
    /\ WF_vars(Process /\ UNCHANGED ConsumerRest)
    /\ WF_vars(Retry /\ UNCHANGED ConsumerRest)
    /\ WF_vars(Fail /\ UNCHANGED ConsumerRest)

FairSpec == Spec /\ Fairness

--------------------------------------------------------------------------------
(* Properties *)

TypeOK ==
    /\ TableTypeOK /\ BrokerTypeOK /\ SenderTypeOK /\ ConsumerTypeOK
    /\ scan \subseteq Msgs
    /\ scansLeft \in 0..MaxScans
    /\ crashesLeft \in 0..MaxCrashes

Own == Msgs \ Foreign

\* Whatever thread works for a message of this service, and wherever a copy of
\* it is, its row is there: sendMsg writes the row before it publishes, so
\* confirm and the listeners never read a null row for it, and no listener
\* but process ever meets a foreign message.
KnownMessages ==
    /\ \A q \in Queues, m \in Msgs :
        Copies(q, m) > 0 => RowExists(m) \/ (q = PUSH_MSG /\ m \in Foreign)
    /\ \A m \in Msgs : nacked[m] > 0 => RowExists(m)
    /\ \A q \in Queues : handler[q] # Idle => RowExists(handler[q].msg)
    /\ \A t \in Confirmers : callback[t] # NoCallback => RowExists(callback[t].msg)

\* A row that says SUCCESS, the state that makes process and processRetry skip
\* a message, is only ever written for a message that was really pushed.
SuccessMeansPushed == \A m \in Msgs : result[m] = "SUCCESS" => pushes[m] > 0

\* What process acknowledges unpushed lives on in the retry queue, until
\* processRetry itself acknowledges the copy there: no throwing call, crash, lost
\* channel or nack of the listener loses it in between.  (A publish the broker
\* refuses may; and processRetry does acknowledge unpushed, see resend_race.)
AckLeavesACopy ==
    nacksLeft = MaxNacks => \A m \in acked[PUSH_MSG] :
        pushes[m] > 0 \/ Copies(RETRY_PUSH_MSG, m) > 0 \/ m \in acked[RETRY_PUSH_MSG]

\* What reaches the fail queue, whose listener drops it, has failed three times
\* by the count of the table, although that count is written from stale reads.
FailQueueAfterLimit ==
    \A m \in Msgs :
        Copies(FAIL_PUSH_MSG, m) > 0 \/ m \in acked[FAIL_PUSH_MSG] => failures[m] >= RedeliveryLimit

\* A message has at most one copy in push_msg, however often deliveries are
\* interrupted: what the broker requeues is no longer in any handler's hands.
SingleCopy == \A m \in Msgs : Copies(PUSH_MSG, m) <= 1

\* Every push of a message beyond the first one was made possible by a call that
\* threw, a lost channel or a crash: neither the confirm callbacks, which publish
\* further copies and overwrite the row, nor the scan task push anything twice.
DuplicatesHaveACause ==
    \A m \in Msgs : pushes[m] <= 1 + (MaxFaults - faultsLeft) + 2 * (MaxCrashes - crashesLeft)

\* Until a call throws or a publish is nacked.
Undisturbed == faultsLeft = MaxFaults /\ nacksLeft = MaxNacks

\* A message this service took and published is still queued, or was pushed, or
\* was rejected as expired: a crash or a lost channel alone loses nothing.
NothingLost ==
    Undisturbed => \A m \in Own : request[m] = "sent" =>
        \/ pushes[m] > 0
        \/ m \in discarded
        \/ \E q \in Queues : Copies(q, m) > 0

\* A message that was published is in the end recorded as pushed, or rejected as
\* expired, when only crashes and lost channels disturb the pipeline.
EventuallySettled ==
    \A m \in Own : request[m] = "sent" ~> result[m] = "SUCCESS" \/ m \in discarded \/ ~Undisturbed

\* The pipeline implements the promise of Delivery, read off the table and the
\* pushes: nothing is pushed that the table does not know, and no row says SUCCESS
\* before the push of its message.
Promise == INSTANCE Delivery WITH
    taken <- {m \in Msgs : RowExists(m)},
    delivered <- {m \in Msgs : pushes[m] > 0},
    recorded <- {m \in Msgs : result[m] = "SUCCESS"}

KeepsPromise == Promise!Spec

\* The queues run empty and the listeners come to rest: no message circulates
\* between the queues for ever, although a retry that fails is dead-lettered
\* back into the queue it came from.
QueuesDrain ==
    <>[] /\ \A q \in Queues, m \in Msgs : ready[q][m] = 0
         /\ \A q \in Queues : handler[q] = Idle

--------------------------------------------------------------------------------
(* What the comments of the code say and the code does not do *)

\* AsynPushMsgService.java:99, MsgConstant.java:31: what processRetry gives up is
\* dropped into the dead letter queue, which is the fail queue.
NackReachesFailQueue ==
    \A m \in deadLettered : Copies(FAIL_PUSH_MSG, m) > 0 \/ m \in acked[FAIL_PUSH_MSG]

\* MessageSendAsync.java:104, RetryPushMsgTask.java:28: the messages sent to the
\* retry queue are delivered again, so a copy acknowledged there was pushed.
RetryAckMeansPushed == \A m \in acked[RETRY_PUSH_MSG] : pushes[m] > 0

\* AsynPushMsgService.java:70: a message process failed on is consumed again from
\* the retry queue; until it is pushed it has a copy in some queue.
ResendIsRetried ==
    \A m \in handed : pushes[m] > 0 \/ \E q \in Queues : Copies(q, m) > 0

================================================================================
