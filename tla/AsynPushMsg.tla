------------------------------ MODULE AsynPushMsg ------------------------------
(***************************************************************************)
(* The consuming side: the three listeners of AsynPushMsgService.  Each     *)
(* listener container runs one thread, so a queue has one handler, and      *)
(* every database access, push or publish of it is a step of its own.       *)
(* SynMsgPushService.push appears as one step: it throws before or after it *)
(* ran the channel handlers, whose exceptions it catches, or it returns;    *)
(* the listeners do not read its boolean answer.                            *)
(***************************************************************************)
EXTENDS MessageSendAsync

CONSTANT Timed  \* messages whose sender gave a queuedTime

ASSUME TimedAssumption == Timed \subseteq Msgs

VARIABLES
    handler,      \* handler[q]: what the listener thread of q is doing
    aged,         \* messages whose queuedTime is more than two hours ago
    pushes,       \* history: calls of push that reached the channel handlers
    handed,       \* history: messages process sent to the retry queue
    acked,        \* history: acked[q], messages acknowledged on q
    discarded,    \* history: messages rejected on push_msg
    deadLettered  \* history: messages processRetry gave up with a nack

history == <<pushes, handed, acked, discarded, deadLettered>>
consumerVars == <<handler, aged, history>>

Idle == [at |-> "idle"]
Stages == {"pushing", "pushed", "failed", "resent", "nacking", "finishing"}
Handlers == [at : Stages, msg : Msgs, failNum : Nat, live : BOOLEAN]

ConsumerTypeOK ==
    /\ handler \in [Queues -> {Idle} \cup Handlers]
    /\ aged \subseteq Timed
    /\ pushes \in [Msgs -> Nat]
    /\ handed \subseteq Msgs
    /\ acked \in [Queues -> SUBSET Msgs]
    /\ discarded \subseteq Msgs
    /\ deadLettered \subseteq Msgs

ConsumerInit ==
    /\ handler = [q \in Queues |-> Idle]
    /\ aged = {}
    /\ pushes = [m \in Msgs |-> 0]
    /\ handed = {}
    /\ acked = [q \in Queues |-> {}]
    /\ discarded = {}
    /\ deadLettered = {}

Job(stage, m, n, channel) == [at |-> stage, msg |-> m, failNum |-> n, live |-> channel]

\* Mutant: the delivery is acknowledged when it is taken up.
BeginAutoAck(q, m, stage) ==
    handler' = [handler EXCEPT ![q] = Job(stage, m, failNum[m], FALSE)]

\* The listener of q takes up a delivery, with the row it has just read.
Begin(q, m, stage) ==
    handler' = [handler EXCEPT ![q] = Job(stage, m, failNum[m], TRUE)]
Goto(q, stage) ==
    LET h == handler[q]
    IN  handler' = [handler EXCEPT ![q] = Job(stage, h.msg, h.failNum, h.live)]
Finish(q) == handler' = [handler EXCEPT ![q] = Idle]

\* A copy is held by the listener of q and by nobody else.
InHand(q, m) == IF handler[q] # Idle /\ handler[q].msg = m /\ handler[q].live THEN 1 ELSE 0
Copies(q, m) == ready[q][m] + stuck[q][m] + InHand(q, m)

\* The listener throws: with manual acknowledgement its delivery stays
\* unacknowledged until the channel closes.
Abandon(q) ==
    /\ Finish(q)
    /\ stuck' = IF handler[q].live THEN Plus(stuck, q, handler[q].msg) ELSE stuck

\* basicAck: after the channel was lost it has no delivery to acknowledge.
Acknowledge(q) ==
    /\ Finish(q)
    /\ acked' = IF handler[q].live THEN [acked EXCEPT ![q] = @ \cup {handler[q].msg}] ELSE acked

TimePasses(m) ==
    /\ m \in Timed \ aged
    /\ aged' = aged \cup {m}
    /\ UNCHANGED <<tableVars, faultsLeft, brokerVars, senderVars, handler, history>>

--------------------------------------------------------------------------------
(* process, the listener of push_msg *)

\* selectByCorrelationId throws, outside the try.
SelectThrows(q, m) ==
    /\ handler[q] = Idle
    /\ Deliver(q, m)
    /\ Fault
    /\ stuck' = Plus(stuck, q, m)
    /\ UNCHANGED <<tableVars, nacked, nacksLeft, senderVars, consumerVars>>

\* No row, or in the queue for more than two hours.
Invalid(m) == ~RowExists(m)
Expired(m) == m \in aged

\* The message is rejected; push_msg has no dead-letter exchange.
ProcessReject(m) ==
    /\ handler[PUSH_MSG] = Idle
    /\ Deliver(PUSH_MSG, m)
    /\ Invalid(m) \/ Expired(m)
    /\ discarded' = discarded \cup {m}
    /\ UNCHANGED <<tableVars, faultsLeft, stuck, nacked, nacksLeft, senderVars,
                   handler, aged, pushes, handed, acked, deadLettered>>

ProcessEntry(m) == IF result[m] # "SUCCESS" THEN "pushing" ELSE "finishing"

ProcessSelect(m) ==
    /\ handler[PUSH_MSG] = Idle
    /\ Deliver(PUSH_MSG, m)
    /\ ~Invalid(m)
    /\ ~Expired(m)
    /\ Begin(PUSH_MSG, m, ProcessEntry(m))
    /\ UNCHANGED <<tableVars, faultsLeft, stuck, nacked, nacksLeft, senderVars, aged, history>>

\* Mutant: an exception of push counts as a return.
PushSwallowing(q, onError) ==
    /\ handler[q].at = "pushing"
    /\ Goto(q, "pushed")
    /\ \/ pushes' = [pushes EXCEPT ![handler[q].msg] = @ + 1] /\ UNCHANGED faultsLeft
       \/ UNCHANGED pushes /\ Fault
    /\ UNCHANGED <<tableVars, brokerVars, senderVars, aged, handed, acked, discarded, deadLettered>>

\* push reaches the channel handlers and returns, or it throws: in its look-up,
\* before any of them ran, or when its transaction commits, after all of them.
\* A crash after this step may have hit it anywhere between the handlers.
Push(q, onError) ==
    /\ handler[q].at = "pushing"
    /\ \/ /\ Goto(q, "pushed")
          /\ pushes' = [pushes EXCEPT ![handler[q].msg] = @ + 1]
          /\ UNCHANGED faultsLeft
       \/ /\ Fault
          /\ Goto(q, onError)
          /\ \/ UNCHANGED pushes
             \/ pushes' = [pushes EXCEPT ![handler[q].msg] = @ + 1]
    /\ UNCHANGED <<tableVars, brokerVars, senderVars, aged, handed, acked, discarded, deadLettered>>

\* Mutant: the status is not written after the push.
MarkSuccessForgotten(q, onError) ==
    /\ handler[q].at = "pushed"
    /\ Goto(q, "finishing")
    /\ UNCHANGED <<tableVars, faultsLeft, brokerVars, senderVars, aged, history>>

\* The row becomes SUCCESS, with the fail_num read before the push.
MarkSuccess(q, onError) ==
    /\ handler[q].at = "pushed"
    /\ LET m == handler[q].msg
           n == handler[q].failNum
       IN  \/ UpdateStatus(m, "SUCCESS", n) /\ Goto(q, "finishing")
           \/ UpdateStatusThrows(m, "SUCCESS", n) /\ Goto(q, onError)
    /\ UNCHANGED <<brokerVars, senderVars, aged, history>>

ProcessPush == Push(PUSH_MSG, "failed")
ProcessMarkSuccess == MarkSuccess(PUSH_MSG, "failed")

\* Mutant: the failed message is sent back to the queue it came from.
ProcessResendToPush ==
    /\ handler[PUSH_MSG].at = "failed"
    /\ LET m == handler[PUSH_MSG].msg
       IN  /\ Publish(PUSH_MSG, m)
           /\ handed' = handed \cup {m}
    /\ Goto(PUSH_MSG, "resent")
    /\ UNCHANGED <<tableVars, senderVars, aged, pushes, acked, discarded, deadLettered>>

\* Mutant: an exception of the publish does not leave process.
ProcessResendThrowsSwallowed ==
    /\ handler[PUSH_MSG].at = "failed"
    /\ Fault
    /\ Goto(PUSH_MSG, "resent")
    /\ UNCHANGED <<tableVars, brokerVars, senderVars, aged, history>>

\* The catch block sends the message to the retry queue first ...
ProcessResend ==
    /\ handler[PUSH_MSG].at = "failed"
    /\ LET m == handler[PUSH_MSG].msg
       IN  /\ Publish(RETRY_PUSH_MSG, m)
           /\ handed' = handed \cup {m}
    /\ Goto(PUSH_MSG, "resent")
    /\ UNCHANGED <<tableVars, senderVars, aged, pushes, acked, discarded, deadLettered>>

ProcessResendThrows ==
    /\ handler[PUSH_MSG].at = "failed"
    /\ Fault
    /\ Abandon(PUSH_MSG)
    /\ UNCHANGED <<tableVars, ready, nacked, nacksLeft, senderVars, aged, history>>

\* ... and then writes CONSUME_FAIL.
ProcessMarkFail ==
    /\ handler[PUSH_MSG].at = "resent"
    /\ UpdateStatus(handler[PUSH_MSG].msg, "CONSUME_FAIL", handler[PUSH_MSG].failNum + 1)
    /\ Goto(PUSH_MSG, "finishing")
    /\ UNCHANGED <<brokerVars, senderVars, aged, history>>

ProcessMarkFailThrows ==
    /\ handler[PUSH_MSG].at = "resent"
    /\ UpdateStatusThrows(handler[PUSH_MSG].msg, "CONSUME_FAIL", handler[PUSH_MSG].failNum + 1)
    /\ Abandon(PUSH_MSG)
    /\ UNCHANGED <<ready, nacked, nacksLeft, senderVars, aged, history>>

ProcessAck ==
    /\ handler[PUSH_MSG].at = "finishing"
    /\ Acknowledge(PUSH_MSG)
    /\ UNCHANGED <<tableVars, faultsLeft, brokerVars, senderVars,
                   aged, pushes, handed, discarded, deadLettered>>

--------------------------------------------------------------------------------
(* processRetry, the listener of retry_push_msg *)

\* Mutant: every message in the retry queue is pushed.
RetryEntryAlways(m) == IF RowExists(m) THEN "pushing" ELSE "nacking"

\* Mutant: what need not be pushed is given up instead of acknowledged.
RetryEntryNacking(m) == IF result[m] = "CONSUME_FAIL" THEN "pushing" ELSE "nacking"

\* Only a message that process failed to consume is pushed again.
RetryEntry(m) ==
    CASE ~RowExists(m) -> "nacking"
      [] result[m] = "CONSUME_FAIL" -> "pushing"
      [] OTHER -> "finishing"

RetrySelect(m) ==
    /\ handler[RETRY_PUSH_MSG] = Idle
    /\ Deliver(RETRY_PUSH_MSG, m)
    /\ Begin(RETRY_PUSH_MSG, m, RetryEntry(m))
    /\ UNCHANGED <<tableVars, faultsLeft, stuck, nacked, nacksLeft, senderVars, aged, history>>

RetryPush == Push(RETRY_PUSH_MSG, "nacking")
RetryMarkSuccess == MarkSuccess(RETRY_PUSH_MSG, "nacking")

RetryAck ==
    /\ handler[RETRY_PUSH_MSG].at = "finishing"
    /\ Acknowledge(RETRY_PUSH_MSG)
    /\ UNCHANGED <<tableVars, faultsLeft, brokerVars, senderVars,
                   aged, pushes, handed, discarded, deadLettered>>

\* basicNack without requeue: the broker dead-letters the copy.
RetryNack ==
    /\ handler[RETRY_PUSH_MSG].at = "nacking"
    /\ LET h == handler[RETRY_PUSH_MSG]
       IN  IF h.live
           THEN /\ Enqueue(DeadLetterQueue, h.msg)
                /\ deadLettered' = deadLettered \cup {h.msg}
           ELSE UNCHANGED <<ready, deadLettered>>
    /\ Finish(RETRY_PUSH_MSG)
    /\ UNCHANGED <<tableVars, faultsLeft, stuck, nacked, nacksLeft, senderVars,
                   aged, pushes, handed, acked, discarded>>

--------------------------------------------------------------------------------
\* processFail acknowledges and does nothing else.
FailAck(m) ==
    /\ Deliver(FAIL_PUSH_MSG, m)
    /\ acked' = [acked EXCEPT ![FAIL_PUSH_MSG] = @ \cup {m}]
    /\ UNCHANGED <<tableVars, faultsLeft, stuck, nacked, nacksLeft, senderVars,
                   handler, aged, pushes, handed, discarded, deadLettered>>

================================================================================
