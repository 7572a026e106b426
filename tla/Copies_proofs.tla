----------------------------- MODULE Copies_proofs ------------------------------
(***************************************************************************)
(* The copies of a message in push_msg, and its pushes.  A message is       *)
(* published there once, and its copy goes only when process rejects or     *)
(* acknowledges it: so it is never there twice, nothing is lost, and every  *)
(* push beyond the first one is paid for by something that went wrong.      *)
(* What process acknowledges unpushed has a copy in the retry queue.        *)
(***************************************************************************)
EXTENDS AsyncPipeline_proofs

\* sendMsg has not published m yet.
Waiting(m) == request[m] \in {"none", "inserted"}

Same(m) == Copies(PUSH_MSG, m)' = Copies(PUSH_MSG, m)

\* What a step may do to the copies of m in push_msg: nothing, ...
Kept(m) ==
    /\ Same(m)
    /\ Waiting(m)' => Waiting(m)
    /\ request'[m] = "sent" => request[m] = "sent" \/ nacksLeft' # MaxNacks

\* ... publish the first one, ...
Published(m) ==
    /\ Copies(PUSH_MSG, m)' = Copies(PUSH_MSG, m) + 1
    /\ Waiting(m) /\ request'[m] = "sent"

\* ... or reject or acknowledge one.
Consumes(m) ==
    /\ Copies(PUSH_MSG, m)' = Copies(PUSH_MSG, m) - 1
    /\ request'[m] = request[m]
    /\ m \in discarded' \/ (handler[PUSH_MSG].at = "finishing" /\ handler[PUSH_MSG].msg = m)

CopyStep == \A m \in Msgs : Kept(m) \/ Published(m) \/ Consumes(m)

LEMMA QueueNames ==
    /\ PUSH_MSG \in Queues /\ RETRY_PUSH_MSG \in Queues /\ FAIL_PUSH_MSG \in Queues
    /\ PUSH_MSG # RETRY_PUSH_MSG /\ PUSH_MSG # FAIL_PUSH_MSG
BY DEF Queues, PUSH_MSG, RETRY_PUSH_MSG, FAIL_PUSH_MSG

LEMMA CopiesNat ==
    ASSUME NEW m \in Msgs
    PROVE  /\ TypeOK => Copies(PUSH_MSG, m) \in Nat
           /\ TypeOK' => Copies(PUSH_MSG, m)' \in Nat
<1>1. TypeOK => Copies(PUSH_MSG, m) \in Nat
  BY QueueNames, CopiesType DEF TypeOK
<1>2. TypeOK' => Copies(PUSH_MSG, m)' \in Nat
  BY QueueNames DEF TypeOK, BrokerTypeOK, Copies, InHand
<1>3. QED
  BY <1>1, <1>2

\* A request thread that does not move, whatever becomes of the copies.
LEMMA SameKept ==
    ASSUME UNCHANGED request, \A m \in Msgs : Same(m)
    PROVE  CopyStep
BY DEF CopyStep, Kept, Waiting

--------------------------------------------------------------------------------
(* The moves of the listener, and of the other queues *)

\* Nothing happens at push_msg.
LEMMA Elsewhere ==
    ASSUME ready'[PUSH_MSG] = ready[PUSH_MSG], stuck'[PUSH_MSG] = stuck[PUSH_MSG],
           handler'[PUSH_MSG] = handler[PUSH_MSG]
    PROVE  \A m \in Msgs : Same(m)
BY DEF Same, Copies, InHand

LEMMA OtherQueue ==
    ASSUME NEW bag \in [Queues -> [Msgs -> Nat]], NEW q \in Queues \ {PUSH_MSG}, NEW m
    PROVE  Plus(bag, q, m)[PUSH_MSG] = bag[PUSH_MSG] /\ Minus(bag, q, m)[PUSH_MSG] = bag[PUSH_MSG]
<1>1. PUSH_MSG \in Queues /\ DOMAIN bag = Queues
  BY QueueNames
<1>2. QED
  BY <1>1 DEF Plus, Minus

LEMMA PublishOther ==
    ASSUME TypeOK, NEW q \in Queues \ {PUSH_MSG}, NEW m, Publish(q, m)
    PROVE  ready'[PUSH_MSG] = ready[PUSH_MSG] /\ stuck'[PUSH_MSG] = stuck[PUSH_MSG]
BY OtherQueue DEF Publish, Enqueue, TypeOK, BrokerTypeOK

LEMMA HandOther ==
    ASSUME TypeOK, NEW q \in Queues \ {PUSH_MSG}, NEW job, handler' = [handler EXCEPT ![q] = job]
    PROVE  handler'[PUSH_MSG] = handler[PUSH_MSG]
BY QueueNames DEF TypeOK, ConsumerTypeOK

\* The listener goes on with the copy it holds.
LEMMA GotoSame ==
    ASSUME TypeOK, handler[PUSH_MSG] \in Handlers, NEW stage \in Stages, Goto(PUSH_MSG, stage),
           UNCHANGED <<ready, stuck>>
    PROVE  \A m \in Msgs : Same(m)
<1>1. /\ handler'[PUSH_MSG].msg = handler[PUSH_MSG].msg
      /\ handler'[PUSH_MSG].live = handler[PUSH_MSG].live
      /\ handler'[PUSH_MSG].at = stage
  BY QueueNames DEF Goto, Job, TypeOK, ConsumerTypeOK
<1>2. handler[PUSH_MSG] # Idle /\ handler'[PUSH_MSG] # Idle
  BY <1>1 DEF Handlers, Stages, Idle
<1>3. QED
  BY <1>1, <1>2 DEF Same, Copies, InHand

\* It lets go of it, and the broker keeps it unacknowledged.
LEMMA AbandonSame ==
    ASSUME TypeOK, handler[PUSH_MSG] \in Handlers, Abandon(PUSH_MSG), UNCHANGED ready
    PROVE  \A m \in Msgs : Same(m)
<1>1. handler'[PUSH_MSG] = Idle /\ handler[PUSH_MSG] # Idle
  BY QueueNames DEF Abandon, Finish, TypeOK, ConsumerTypeOK, Handlers, Stages, Idle
<1>2. TAKE m \in Msgs
<1>3. stuck'[PUSH_MSG][m] = stuck[PUSH_MSG][m] + InHand(PUSH_MSG, m)
  <2>1. stuck[PUSH_MSG][m] \in Nat
    BY QueueNames DEF TypeOK, BrokerTypeOK
  <2>2. CASE handler[PUSH_MSG].live /\ handler[PUSH_MSG].msg = m
    BY <1>1, <2>1, <2>2, QueueNames DEF Abandon, Plus, InHand, TypeOK, BrokerTypeOK
  <2>3. CASE ~(handler[PUSH_MSG].live /\ handler[PUSH_MSG].msg = m)
    BY <1>1, <2>1, <2>3, QueueNames DEF Abandon, Plus, InHand, TypeOK, BrokerTypeOK
  <2>4. QED
    BY <2>2, <2>3
<1>4. InHand(PUSH_MSG, m)' = 0 /\ InHand(PUSH_MSG, m) \in {0, 1}
  BY <1>1 DEF InHand
<1>5. ready[PUSH_MSG][m] \in Nat /\ stuck[PUSH_MSG][m] \in Nat
  BY QueueNames DEF TypeOK, BrokerTypeOK
<1>6. QED
  BY <1>3, <1>4, <1>5 DEF Same, Copies

\* It takes a delivery up.
LEMMA BeginSame ==
    ASSUME TypeOK, handler[PUSH_MSG] = Idle, NEW k \in Msgs, NEW STATE stage, stage \in Stages,
           Deliver(PUSH_MSG, k), Begin(PUSH_MSG, k, stage), UNCHANGED stuck
    PROVE  \A m \in Msgs : Same(m)
<1>1. /\ handler'[PUSH_MSG] = Job(stage, k, failNum[k], TRUE)
      /\ Job(stage, k, failNum[k], TRUE) # Idle
  BY QueueNames DEF Begin, Job, Stages, Idle, TypeOK, ConsumerTypeOK
<1>2. TAKE m \in Msgs
<1>3. InHand(PUSH_MSG, m) = 0 /\ InHand(PUSH_MSG, m)' = IF m = k THEN 1 ELSE 0
  BY <1>1 DEF InHand, Job
<1>4. /\ ready'[PUSH_MSG][m] = IF m = k THEN ready[PUSH_MSG][m] - 1 ELSE ready[PUSH_MSG][m]
      /\ ready[PUSH_MSG][m] \in Nat /\ stuck[PUSH_MSG][m] \in Nat
  BY QueueNames DEF Deliver, Minus, TypeOK, BrokerTypeOK
<1>5. QED
  BY <1>3, <1>4 DEF Same, Copies

\* It acknowledges the copy it holds, if its channel lives.
LEMMA AcknowledgeConsumes ==
    ASSUME TypeOK, handler[PUSH_MSG] \in Handlers, handler[PUSH_MSG].at = "finishing",
           Acknowledge(PUSH_MSG), UNCHANGED <<ready, stuck, request>>
    PROVE  CopyStep
<1>1. handler'[PUSH_MSG] = Idle /\ handler[PUSH_MSG] # Idle
  BY QueueNames DEF Acknowledge, Finish, TypeOK, ConsumerTypeOK, Handlers, Stages, Idle
<1>2. SUFFICES ASSUME NEW m \in Msgs PROVE Kept(m) \/ Consumes(m)
  BY DEF CopyStep
<1>3. InHand(PUSH_MSG, m)' = 0
  BY <1>1 DEF InHand
<1>4. ready[PUSH_MSG][m] \in Nat /\ stuck[PUSH_MSG][m] \in Nat
  BY QueueNames DEF TypeOK, BrokerTypeOK
<1>5. CASE handler[PUSH_MSG].live /\ handler[PUSH_MSG].msg = m
  <2>1. InHand(PUSH_MSG, m) = 1
    BY <1>1, <1>5 DEF InHand
  <2>2. QED
    BY <1>3, <1>4, <1>5, <2>1 DEF Consumes, Copies
<1>6. CASE ~(handler[PUSH_MSG].live /\ handler[PUSH_MSG].msg = m)
  <2>1. InHand(PUSH_MSG, m) = 0
    BY <1>1, <1>6 DEF InHand
  <2>2. QED
    BY <1>3, <1>4, <2>1 DEF Kept, Same, Copies, Waiting
<1>7. QED
  BY <1>5, <1>6

\* All unacknowledged copies go back to the queue, and the listener holds none.
LEMMA RequeueSame ==
    ASSUME TypeOK, ready'[PUSH_MSG] = [m \in Msgs |-> Copies(PUSH_MSG, m)],
           stuck'[PUSH_MSG] = Empty[PUSH_MSG],
           handler'[PUSH_MSG] = Idle \/ ~handler'[PUSH_MSG].live
    PROVE  \A m \in Msgs : Same(m)
<1>1. TAKE m \in Msgs
<1>2. InHand(PUSH_MSG, m)' = 0
  BY DEF InHand
<1>3. stuck'[PUSH_MSG][m] = 0
  BY QueueNames DEF Empty
<1>4. Copies(PUSH_MSG, m) \in Nat
  BY QueueNames, CopiesType DEF TypeOK
<1>5. QED
  BY <1>2, <1>3, <1>4 DEF Same, Copies

--------------------------------------------------------------------------------
(* The steps *)

LEMMA CopiesSender ==
    ASSUME TypeOK, Sender, UNCHANGED SenderRest
    PROVE  CopyStep
<1>h. handler' = handler
  BY DEF SenderRest, consumerVars
<1>1. ASSUME NEW k \in Msgs, SendMsgInsert(k)
      PROVE  CopyStep
  <2>1. \A m \in Msgs : Same(m)
    BY <1>h, <1>1, Elsewhere DEF SendMsgInsert, brokerVars
  <2>2. ASSUME NEW m \in Msgs
        PROVE  (Waiting(m)' => Waiting(m)) /\ (request'[m] = "sent" => request[m] = "sent")
    BY <1>1 DEF SendMsgInsert, Waiting, TypeOK, SenderTypeOK
  <2>3. QED
    BY <2>1, <2>2 DEF CopyStep, Kept
<1>2. ASSUME NEW k \in Msgs, SendMsgPublish(k)
      PROVE  CopyStep
  <2>1. CASE Publish(PUSH_MSG, k) /\ request' = [request EXCEPT ![k] = "sent"]
    <3>1. SUFFICES ASSUME NEW m \in Msgs PROVE Kept(m) \/ Published(m)
      BY DEF CopyStep
    <3>2. /\ ready[PUSH_MSG][m] \in Nat /\ stuck[PUSH_MSG][m] \in Nat
          /\ InHand(PUSH_MSG, m)' = InHand(PUSH_MSG, m) /\ InHand(PUSH_MSG, m) \in {0, 1}
          /\ stuck' = stuck
      BY <1>h, <2>1, QueueNames DEF Publish, InHand, TypeOK, BrokerTypeOK
    <3>3. request'[m] = IF m = k THEN "sent" ELSE request[m]
      BY <2>1 DEF TypeOK, SenderTypeOK
    <3>4. CASE Enqueue(PUSH_MSG, k)
      <4>1. ready'[PUSH_MSG][m] = IF m = k THEN ready[PUSH_MSG][m] + 1 ELSE ready[PUSH_MSG][m]
        BY <3>4, QueueNames DEF Enqueue, Plus, TypeOK, BrokerTypeOK
      <4>2. CASE m = k
        BY <1>2, <3>2, <3>3, <4>1, <4>2 DEF Published, SendMsgPublish, Waiting, Copies
      <4>3. CASE m # k
        BY <3>2, <3>3, <4>1, <4>3 DEF Kept, Same, Waiting, Copies
      <4>4. QED
        BY <4>2, <4>3
    <3>5. CASE UNCHANGED ready /\ Nack(k)
      <4>1. nacksLeft' # MaxNacks
        BY <3>5, BrokerAssumption DEF Nack, TypeOK, BrokerTypeOK
      <4>2. Waiting(m)' => Waiting(m)
        BY <3>3 DEF Waiting
      <4>3. QED
        BY <3>2, <3>5, <4>1, <4>2 DEF Kept, Same, Copies
    <3>6. QED
      BY <2>1, <3>4, <3>5 DEF Publish
  <2>2. CASE PublishThrows /\ request' = [request EXCEPT ![k] = "failed"]
    <3>1. \A m \in Msgs : Same(m)
      BY <1>h, <2>2, Elsewhere DEF PublishThrows, brokerVars
    <3>2. ASSUME NEW m \in Msgs
          PROVE  (Waiting(m)' => Waiting(m)) /\ (request'[m] = "sent" => request[m] = "sent")
      BY <2>2 DEF Waiting, TypeOK, SenderTypeOK
    <3>3. QED
      BY <3>1, <3>2 DEF CopyStep, Kept
  <2>3. QED
    BY <1>2, <2>1, <2>2 DEF SendMsgPublish
<1>3. ASSUME NEW k \in Msgs, ForeignPublish(k)
      PROVE  CopyStep
  <2>1. SUFFICES ASSUME NEW m \in Msgs PROVE Kept(m) \/ Published(m)
    BY DEF CopyStep
  <2>2. /\ ready[PUSH_MSG][m] \in Nat /\ stuck[PUSH_MSG][m] \in Nat /\ stuck' = stuck
        /\ InHand(PUSH_MSG, m)' = InHand(PUSH_MSG, m) /\ InHand(PUSH_MSG, m) \in {0, 1}
        /\ ready'[PUSH_MSG][m] = IF m = k THEN ready[PUSH_MSG][m] + 1 ELSE ready[PUSH_MSG][m]
    BY <1>h, <1>3, QueueNames DEF ForeignPublish, Enqueue, Plus, InHand, TypeOK, BrokerTypeOK
  <2>3. request'[m] = IF m = k THEN "sent" ELSE request[m]
    BY <1>3 DEF ForeignPublish, TypeOK, SenderTypeOK
  <2>4. CASE m = k
    BY <1>3, <2>2, <2>3, <2>4 DEF Published, ForeignPublish, Waiting, Copies
  <2>5. CASE m # k
    BY <2>2, <2>3, <2>5 DEF Kept, Same, Waiting, Copies
  <2>6. QED
    BY <2>4, <2>5
<1>4. ASSUME NEW t \in Confirmers, Callback(t)
      PROVE  CopyStep
  <2>1. UNCHANGED request
    BY <1>4 DEF Callback, ConfirmSelect, ConfirmRepublish, ConfirmUpdate
  <2>2. ready'[PUSH_MSG] = ready[PUSH_MSG] /\ stuck'[PUSH_MSG] = stuck[PUSH_MSG]
    <3>1. CASE ConfirmRepublish(t)
      BY <3>1, PublishOther, QueueNames DEF ConfirmRepublish, PublishThrows, brokerVars
    <3>2. QED
      BY <1>4, <3>1 DEF Callback, ConfirmSelect, ConfirmUpdate, brokerVars
  <2>3. QED
    BY <1>h, <2>1, <2>2, Elsewhere, SameKept
<1>5. QED
  BY <1>1, <1>2, <1>3, <1>4 DEF Sender

LEMMA CopiesProcess ==
    ASSUME TypeOK, Process
    PROVE  CopyStep
<1>r. UNCHANGED request
  BY DEF Process, ProcessReject, ProcessSelect, ProcessPush, ProcessMarkSuccess, Push, MarkSuccess,
         ProcessResend, ProcessResendThrows, ProcessMarkFail, ProcessMarkFailThrows, ProcessAck, senderVars
<1>1. ASSUME NEW k \in Msgs, ProcessReject(k)
      PROVE  CopyStep
  <2>1. SUFFICES ASSUME NEW m \in Msgs PROVE Kept(m) \/ Consumes(m)
    BY DEF CopyStep
  <2>2. /\ ready[PUSH_MSG][m] \in Nat /\ stuck[PUSH_MSG][m] \in Nat /\ stuck' = stuck
        /\ InHand(PUSH_MSG, m)' = InHand(PUSH_MSG, m) /\ InHand(PUSH_MSG, m) \in {0, 1}
        /\ ready'[PUSH_MSG][m] = IF m = k THEN ready[PUSH_MSG][m] - 1 ELSE ready[PUSH_MSG][m]
    BY <1>1, QueueNames DEF ProcessReject, Deliver, Minus, InHand, TypeOK, BrokerTypeOK
  <2>3. CASE m = k
    BY <1>r, <1>1, <2>2, <2>3 DEF Consumes, ProcessReject, Copies
  <2>4. CASE m # k
    BY <1>r, <2>2, <2>4 DEF Kept, Same, Waiting, Copies
  <2>5. QED
    BY <2>3, <2>4
<1>2. ASSUME NEW k \in Msgs, ProcessSelect(k)
      PROVE  CopyStep
  <2>1. /\ handler[PUSH_MSG] = Idle /\ UNCHANGED stuck
        /\ Deliver(PUSH_MSG, k) /\ Begin(PUSH_MSG, k, ProcessEntry(k))
    BY <1>2 DEF ProcessSelect
  <2>2. ProcessEntry(k) \in Stages
    BY DEF ProcessEntry, Stages
  <2>3. \A m \in Msgs : Same(m)
    BY <2>1, <2>2, BeginSame
  <2>4. QED
    BY <1>r, <2>3, SameKept
<1>3. CASE ProcessPush \/ ProcessMarkSuccess
  <2>1. handler[PUSH_MSG] \in Handlers
    BY <1>3, QueueNames, HandlerBusy
    DEF ProcessPush, ProcessMarkSuccess, Push, MarkSuccess, Stages, TypeOK
  <2>2. UNCHANGED <<ready, stuck>> /\ \E stage \in Stages : Goto(PUSH_MSG, stage)
    BY <1>3 DEF ProcessPush, ProcessMarkSuccess, Push, MarkSuccess, Stages, brokerVars
  <2>3. QED
    BY <1>r, <2>1, <2>2, GotoSame, SameKept
<1>4. CASE ProcessResend
  <2>1. handler[PUSH_MSG] \in Handlers
    BY <1>4, QueueNames, HandlerBusy DEF ProcessResend, Stages, TypeOK
  <2>2. ready'[PUSH_MSG] = ready[PUSH_MSG] /\ stuck'[PUSH_MSG] = stuck[PUSH_MSG]
    BY <1>4, PublishOther, QueueNames DEF ProcessResend
  <2>3. /\ handler'[PUSH_MSG].msg = handler[PUSH_MSG].msg
        /\ handler'[PUSH_MSG].live = handler[PUSH_MSG].live
        /\ handler'[PUSH_MSG].at = "resent"
    BY <1>4, QueueNames DEF ProcessResend, Goto, Job, TypeOK, ConsumerTypeOK
  <2>4. handler[PUSH_MSG] # Idle /\ handler'[PUSH_MSG] # Idle
    BY <2>1, <2>3 DEF Handlers, Stages, Idle
  <2>5. \A m \in Msgs : Same(m)
    BY <2>2, <2>3, <2>4 DEF Same, Copies, InHand
  <2>6. QED
    BY <1>r, <2>5, SameKept
<1>5. CASE ProcessResendThrows
  <2>1. handler[PUSH_MSG] \in Handlers
    BY <1>5, QueueNames, HandlerBusy DEF ProcessResendThrows, Stages, TypeOK
  <2>2. QED
    BY <1>r, <1>5, <2>1, AbandonSame, SameKept DEF ProcessResendThrows
<1>6. CASE ProcessMarkFail
  <2>1. handler[PUSH_MSG] \in Handlers
    BY <1>6, QueueNames, HandlerBusy DEF ProcessMarkFail, Stages, TypeOK
  <2>2. QED
    BY <1>r, <1>6, <2>1, GotoSame, SameKept DEF ProcessMarkFail, brokerVars, Stages
<1>7. CASE ProcessMarkFailThrows
  <2>1. handler[PUSH_MSG] \in Handlers
    BY <1>7, QueueNames, HandlerBusy DEF ProcessMarkFailThrows, Stages, TypeOK
  <2>2. QED
    BY <1>r, <1>7, <2>1, AbandonSame, SameKept DEF ProcessMarkFailThrows
<1>8. CASE ProcessAck
  <2>1. handler[PUSH_MSG] \in Handlers
    BY <1>8, QueueNames, HandlerBusy DEF ProcessAck, Stages, TypeOK
  <2>2. QED
    BY <1>r, <1>8, <2>1, AcknowledgeConsumes DEF ProcessAck, brokerVars
<1>9. QED
  BY <1>1, <1>2, <1>3, <1>4, <1>5, <1>6, <1>7, <1>8 DEF Process

\* The retry listener, the fail listener and the scan task do not touch push_msg.
LEMMA CopiesRetry ==
    ASSUME TypeOK, Retry
    PROVE  CopyStep
<1>q. RETRY_PUSH_MSG \in Queues \ {PUSH_MSG}
  BY QueueNames
<1>1. UNCHANGED request
  BY DEF Retry, RetrySelect, RetryPush, RetryMarkSuccess, Push, MarkSuccess, RetryAck, RetryNack, senderVars
<1>2. stuck' = stuck
  BY DEF Retry, RetrySelect, RetryPush, RetryMarkSuccess, Push, MarkSuccess, RetryAck, RetryNack, brokerVars
<1>3. ready'[PUSH_MSG] = ready[PUSH_MSG]
  <2>1. \/ ready' = ready
        \/ \E m \in Msgs : ready' = Minus(ready, RETRY_PUSH_MSG, m)
        \/ ready' = Plus(ready, RETRY_PUSH_MSG, handler[RETRY_PUSH_MSG].msg)
    BY DEF Retry, RetrySelect, RetryPush, RetryMarkSuccess, Push, MarkSuccess, RetryAck, RetryNack,
           Deliver, Enqueue, DeadLetterQueue, brokerVars
  <2>2. QED
    BY <1>q, <2>1, OtherQueue DEF TypeOK, BrokerTypeOK
<1>4. handler'[PUSH_MSG] = handler[PUSH_MSG]
  <2>1. \E job : handler' = [handler EXCEPT ![RETRY_PUSH_MSG] = job]
    BY DEF Retry, RetrySelect, RetryPush, RetryMarkSuccess, Push, MarkSuccess, RetryAck, RetryNack,
           Begin, Goto, Acknowledge, Finish
  <2>2. QED
    BY <1>q, <2>1, HandOther
<1>5. QED
  BY <1>1, <1>2, <1>3, <1>4, Elsewhere, SameKept

LEMMA CopiesOthers ==
    ASSUME TypeOK, Fail \/ Disturbed \/ Task
    PROVE  CopyStep
<1>q. RETRY_PUSH_MSG \in Queues \ {PUSH_MSG} /\ FAIL_PUSH_MSG \in Queues \ {PUSH_MSG}
  BY QueueNames
<1>1. UNCHANGED <<request, handler>>
  BY DEF Fail, FailAck, Disturbed, TimePasses, SelectThrows, Task, ScanSelect, ScanPublish,
         senderVars, consumerVars
<1>2. ASSUME NEW m \in Msgs, FailAck(m)
      PROVE  CopyStep
  <2>1. ready'[PUSH_MSG] = ready[PUSH_MSG]
    BY <1>q, <1>2, OtherQueue DEF FailAck, Deliver, TypeOK, BrokerTypeOK
  <2>2. QED
    BY <1>1, <1>2, <2>1, Elsewhere, SameKept DEF FailAck
<1>3. ASSUME NEW m \in Msgs, TimePasses(m)
      PROVE  CopyStep
  BY <1>1, <1>3, Elsewhere, SameKept DEF TimePasses, brokerVars
<1>4. ASSUME NEW q \in Consumed, NEW k \in Msgs, SelectThrows(q, k)
      PROVE  CopyStep
  <2>1. CASE q = PUSH_MSG
    <3>1. SUFFICES ASSUME NEW m \in Msgs PROVE Same(m)
      BY <1>1, SameKept
    <3>2. /\ ready'[PUSH_MSG][m] = IF m = k THEN ready[PUSH_MSG][m] - 1 ELSE ready[PUSH_MSG][m]
          /\ stuck'[PUSH_MSG][m] = IF m = k THEN stuck[PUSH_MSG][m] + 1 ELSE stuck[PUSH_MSG][m]
          /\ ready[PUSH_MSG][m] \in Nat /\ stuck[PUSH_MSG][m] \in Nat
      BY <1>4, <2>1, QueueNames DEF SelectThrows, Deliver, Minus, Plus, TypeOK, BrokerTypeOK
    <3>3. InHand(PUSH_MSG, m)' = InHand(PUSH_MSG, m) /\ InHand(PUSH_MSG, m) \in {0, 1}
      BY <1>1 DEF InHand
    <3>4. QED
      BY <3>2, <3>3 DEF Same, Copies
  <2>2. CASE q # PUSH_MSG
    <3>1. q \in Queues \ {PUSH_MSG}
      BY <2>2 DEF Consumed, Queues
    <3>2. ready'[PUSH_MSG] = ready[PUSH_MSG] /\ stuck'[PUSH_MSG] = stuck[PUSH_MSG]
      BY <1>4, <3>1, OtherQueue DEF SelectThrows, Deliver, TypeOK, BrokerTypeOK
    <3>3. QED
      BY <1>1, <3>2, Elsewhere, SameKept
  <2>3. QED
    BY <2>1, <2>2
<1>5. CASE ScanSelect
  BY <1>1, <1>5, Elsewhere, SameKept DEF ScanSelect, brokerVars
<1>6. ASSUME NEW m \in Msgs, ScanPublish(m)
      PROVE  CopyStep
  <2>1. ready'[PUSH_MSG] = ready[PUSH_MSG] /\ stuck'[PUSH_MSG] = stuck[PUSH_MSG]
    BY <1>q, <1>6, PublishOther DEF ScanPublish, PublishThrows, brokerVars
  <2>2. QED
    BY <1>1, <2>1, Elsewhere, SameKept
<1>7. QED
  BY <1>2, <1>3, <1>4, <1>5, <1>6 DEF Fail, Disturbed, Task

LEMMA CopiesInterruption ==
    ASSUME TypeOK, Crash \/ \E q \in Consumed : ChannelLost(q)
    PROVE  CopyStep
<1>1. CASE Crash
  <2>1. \A m \in Msgs : Same(m)
    <3>1. /\ ready'[PUSH_MSG] = [m \in Msgs |-> Copies(PUSH_MSG, m)]
          /\ stuck'[PUSH_MSG] = Empty[PUSH_MSG] /\ handler'[PUSH_MSG] = Idle
      BY <1>1, QueueNames DEF Crash
    <3>2. QED
      BY <3>1, RequeueSame
  <2>2. ASSUME NEW m \in Msgs
        PROVE  (Waiting(m)' => Waiting(m)) /\ (request'[m] = "sent" => request[m] = "sent")
    BY <1>1 DEF Crash, Waiting
  <2>3. QED
    BY <2>1, <2>2 DEF CopyStep, Kept
<1>2. ASSUME NEW q \in Consumed, ChannelLost(q)
      PROVE  CopyStep
  <2>1. UNCHANGED request
    BY <1>2 DEF ChannelLost, senderVars
  <2>2. CASE q = PUSH_MSG
    <3>1. /\ ready'[PUSH_MSG] = [m \in Msgs |-> Copies(PUSH_MSG, m)]
          /\ stuck'[PUSH_MSG] = Empty[PUSH_MSG]
      BY <1>2, <2>2, QueueNames DEF ChannelLost, TypeOK, BrokerTypeOK
    <3>2. handler'[PUSH_MSG] = Idle \/ ~handler'[PUSH_MSG].live
      BY <1>2, <2>2, QueueNames DEF ChannelLost, Job, TypeOK, ConsumerTypeOK
    <3>3. QED
      BY <2>1, <3>1, <3>2, RequeueSame, SameKept
  <2>3. CASE q # PUSH_MSG
    <3>1. /\ ready'[PUSH_MSG] = ready[PUSH_MSG] /\ stuck'[PUSH_MSG] = stuck[PUSH_MSG]
          /\ handler'[PUSH_MSG] = handler[PUSH_MSG]
      BY <1>2, <2>3, QueueNames DEF ChannelLost, TypeOK, BrokerTypeOK, ConsumerTypeOK
    <3>2. QED
      BY <2>1, <3>1, Elsewhere, SameKept
  <2>4. QED
    BY <2>2, <2>3
<1>3. QED
  BY <1>1, <1>2

LEMMA CopiesNext ==
    ASSUME TypeOK, [Next]_vars
    PROVE  CopyStep
<1>1. CASE UNCHANGED vars
  BY <1>1, Elsewhere, SameKept DEF vars, brokerVars, senderVars, consumerVars
<1>2. QED
  BY <1>1, CopiesSender, CopiesProcess, CopiesRetry, CopiesOthers, CopiesInterruption DEF Next

--------------------------------------------------------------------------------
(* At most one copy *)

\* The inductive invariant: before sendMsg publishes there is no copy at all.
SingleInv == \A m \in Msgs : Copies(PUSH_MSG, m) <= 1 /\ (Waiting(m) => Copies(PUSH_MSG, m) = 0)

LEMMA NoCopiesInit ==
    ASSUME Init
    PROVE  \A m \in Msgs : Copies(PUSH_MSG, m) = 0
<1>1. TAKE m \in Msgs
<1>2. ready[PUSH_MSG][m] = 0 /\ stuck[PUSH_MSG][m] = 0 /\ handler[PUSH_MSG] = Idle
  BY QueueNames DEF Init, BrokerInit, ConsumerInit, Empty
<1>3. QED
  BY <1>2 DEF Copies, InHand

LEMMA SingleNext ==
    ASSUME TypeOK, TypeOK', SingleInv, [Next]_vars
    PROVE  SingleInv'
<1>1. SUFFICES ASSUME NEW m \in Msgs
               PROVE  Copies(PUSH_MSG, m)' <= 1 /\ (Waiting(m)' => Copies(PUSH_MSG, m)' = 0)
  BY DEF SingleInv
<1>2. /\ Copies(PUSH_MSG, m) \in Nat /\ Copies(PUSH_MSG, m)' \in Nat
      /\ Copies(PUSH_MSG, m) <= 1 /\ (Waiting(m) => Copies(PUSH_MSG, m) = 0)
  BY CopiesNat, QueueNames DEF SingleInv
<1>3. Kept(m) \/ Published(m) \/ Consumes(m)
  BY CopiesNext DEF CopyStep
<1>4. CASE Kept(m)
  BY <1>2, <1>4 DEF Kept, Same
<1>5. CASE Published(m)
  BY <1>2, <1>5 DEF Published, Waiting
<1>6. CASE Consumes(m)
  BY <1>2, <1>6 DEF Consumes, Waiting
<1>7. QED
  BY <1>3, <1>4, <1>5, <1>6

LEMMA SingleInductive == Spec => []SingleInv
<1>1. Init => SingleInv
  <2>1. SUFFICES ASSUME Init PROVE SingleInv
    OBVIOUS
  <2>2. \A m \in Msgs : Copies(PUSH_MSG, m) = 0
    BY <2>1, NoCopiesInit
  <2>3. 0 <= 1
    OBVIOUS
  <2>4. QED
    BY <2>2, <2>3 DEF SingleInv
<1>2. TypeOK /\ TypeOK' /\ SingleInv /\ [Next]_vars => SingleInv'
  BY SingleNext
<1>3. QED
  BY <1>1, <1>2, TypeCorrect, PTL DEF Spec

\* A message never has two copies in push_msg: sendMsg publishes it there once,
\* and what the broker requeues after a lost channel or a crash is in no
\* listener's hands any more.
THEOREM SingleCopyCorrect == Spec => []SingleCopy
<1>1. SingleInv => SingleCopy
  BY DEF SingleInv, SingleCopy
<1>2. QED
  BY <1>1, SingleInductive, PTL

--------------------------------------------------------------------------------
(* Nothing is lost *)

\* Until a call throws or a publish is nacked process hands nothing over, so all
\* that was published is in push_msg, pushed or rejected.
NoHandover == handed = {} /\ handler[PUSH_MSG].at # "failed"
Settles(m) == pushes[m] > 0 \/ m \in discarded \/ Copies(PUSH_MSG, m) > 0
LossInv == Undisturbed => NoHandover /\ \A m \in Msgs : request[m] = "sent" => Settles(m)

\* The two bounds only fall, by a call that throws and by a nack.
FaultsOnly == UNCHANGED faultsLeft \/ Fault
NacksOnly == UNCHANGED nacksLeft \/ \E m \in Msgs : Nack(m)

LEMMA PublishBounds ==
    ASSUME NEW q, NEW m \in Msgs, Publish(q, m) \/ PublishThrows
    PROVE  FaultsOnly /\ NacksOnly
BY DEF Publish, PublishThrows, brokerVars, FaultsOnly, NacksOnly

LEMMA SenderBounds ==
    ASSUME TypeOK, Sender
    PROVE  FaultsOnly /\ NacksOnly
<1>1. ASSUME NEW m \in Msgs, SendMsgInsert(m) \/ ForeignPublish(m)
      PROVE  FaultsOnly /\ NacksOnly
  BY <1>1 DEF SendMsgInsert, ForeignPublish, brokerVars, FaultsOnly, NacksOnly
<1>2. ASSUME NEW m \in Msgs, SendMsgPublish(m)
      PROVE  FaultsOnly /\ NacksOnly
  BY <1>2, PublishBounds DEF SendMsgPublish
<1>3. ASSUME NEW t \in Confirmers, NEW m \in Msgs, ConfirmSelect(t, m)
      PROVE  FaultsOnly /\ NacksOnly
  BY <1>3 DEF ConfirmSelect, FaultsOnly, NacksOnly
<1>4. ASSUME NEW t \in Confirmers, ConfirmRepublish(t)
      PROVE  FaultsOnly /\ NacksOnly
  <2>1. callback[t].msg \in Msgs
    BY <1>4, CallbackBusy DEF ConfirmRepublish, Callbacks, TypeOK
  <2>2. \E q \in Queues : Publish(q, callback[t].msg) \/ PublishThrows
    BY <1>4, QueueNames DEF ConfirmRepublish
  <2>3. QED
    BY <2>1, <2>2, PublishBounds
<1>5. ASSUME NEW t \in Confirmers, ConfirmUpdate(t)
      PROVE  FaultsOnly /\ NacksOnly
  BY <1>5 DEF ConfirmUpdate, UpdateStatus, UpdateStatusThrows, brokerVars, FaultsOnly, NacksOnly
<1>6. QED
  BY <1>1, <1>2, <1>3, <1>4, <1>5 DEF Sender, Callback

LEMMA ListenerBounds ==
    ASSUME TypeOK, Process \/ Retry \/ Fail \/ Disturbed
    PROVE  FaultsOnly /\ NacksOnly
<1>1. CASE ProcessResend
  <2>1. handler[PUSH_MSG].msg \in Msgs
    BY <1>1, QueueNames, HandlerBusy DEF ProcessResend, Stages, Handlers, TypeOK
  <2>2. QED
    BY <1>1, <2>1, PublishBounds DEF ProcessResend
<1>2. CASE Process /\ ~ProcessResend
  BY <1>2
  DEF Process, ProcessReject, ProcessSelect, ProcessPush, ProcessMarkSuccess, Push, MarkSuccess,
      ProcessResendThrows, ProcessMarkFail, ProcessMarkFailThrows, ProcessAck,
      UpdateStatus, UpdateStatusThrows, brokerVars, FaultsOnly, NacksOnly
<1>3. CASE Retry
  BY <1>3
  DEF Retry, RetrySelect, RetryPush, RetryMarkSuccess, Push, MarkSuccess, RetryAck, RetryNack,
      UpdateStatus, UpdateStatusThrows, brokerVars, FaultsOnly, NacksOnly
<1>4. CASE Fail \/ Disturbed
  BY <1>4
  DEF Fail, FailAck, Disturbed, TimePasses, SelectThrows, brokerVars, FaultsOnly, NacksOnly
<1>5. QED
  BY <1>1, <1>2, <1>3, <1>4

LEMMA StepBounds ==
    ASSUME TypeOK, [Next]_vars
    PROVE  FaultsOnly /\ NacksOnly
<1>1. CASE Task
  <2>1. CASE ScanSelect
    BY <2>1 DEF ScanSelect, brokerVars, FaultsOnly, NacksOnly
  <2>2. ASSUME NEW m \in Msgs, ScanPublish(m)
        PROVE  FaultsOnly /\ NacksOnly
    BY <2>2, PublishBounds DEF ScanPublish
  <2>3. QED
    BY <1>1, <2>1, <2>2 DEF Task
<1>2. CASE Crash \/ \E q \in Consumed : ChannelLost(q)
  BY <1>2 DEF Crash, ChannelLost, FaultsOnly, NacksOnly
<1>3. CASE UNCHANGED vars
  BY <1>3 DEF vars, brokerVars, FaultsOnly, NacksOnly
<1>4. QED
  BY <1>1, <1>2, <1>3, SenderBounds, ListenerBounds DEF Next

\* What was not disturbed after a step was not before, and nothing threw.
LEMMA StayedCalm ==
    ASSUME TypeOK, [Next]_vars, Undisturbed'
    PROVE  Undisturbed /\ ~Fault /\ nacksLeft' = MaxNacks
<1>1. FaultsOnly /\ NacksOnly
  BY StepBounds
<1>2. QED
  BY <1>1, FaultsAssumption, BrokerAssumption
  DEF FaultsOnly, NacksOnly, Fault, Nack, Undisturbed, TypeOK, TableTypeOK, BrokerTypeOK

\* Pushes and rejections are only ever added.
LEMMA DoneStays ==
    ASSUME TypeOK, [Next]_vars
    PROVE  /\ \A m \in Msgs : pushes[m] > 0 => pushes'[m] > 0
           /\ discarded \subseteq discarded'
<1>1. ASSUME NEW q \in Queues, NEW onError, Push(q, onError)
      PROVE  /\ \A m \in Msgs : pushes[m] > 0 => pushes'[m] > 0
             /\ discarded \subseteq discarded'
  BY <1>1 DEF Push, TypeOK, ConsumerTypeOK
<1>2. CASE ProcessPush \/ RetryPush
  BY <1>1, <1>2, QueueNames DEF ProcessPush, RetryPush
<1>3. CASE UNCHANGED pushes /\ discarded \subseteq discarded'
  BY <1>3
<1>4. CASE Sender /\ UNCHANGED SenderRest
  BY <1>3, <1>4 DEF SenderRest, consumerVars, history
<1>5. CASE (Process /\ ~ProcessPush) \/ (Retry /\ ~RetryPush)
  BY <1>3, <1>5
  DEF Process, ProcessReject, ProcessSelect, ProcessMarkSuccess, MarkSuccess, ProcessResend,
      ProcessResendThrows, ProcessMarkFail, ProcessMarkFailThrows, ProcessAck,
      Retry, RetrySelect, RetryMarkSuccess, RetryAck, RetryNack, history
<1>6. CASE Fail \/ Disturbed \/ Task
  BY <1>3, <1>6
  DEF Fail, FailAck, Disturbed, TimePasses, SelectThrows, Task, ScanSelect, ScanPublish,
      consumerVars, history
<1>7. CASE Crash \/ (\E q \in Consumed : ChannelLost(q)) \/ UNCHANGED vars
  BY <1>3, <1>7 DEF Crash, ChannelLost, vars, consumerVars, history
<1>8. QED
  BY <1>2, <1>4, <1>5, <1>6, <1>7 DEF Next

\* process hands nothing over as long as nothing throws.
LEMMA HandoverStays ==
    ASSUME TypeOK, [Next]_vars, ~Fault, NoHandover
    PROVE  NoHandover'
<1>0. handler \in [Queues -> {Idle} \cup Handlers] /\ Idle.at # "failed"
  BY DEF TypeOK, ConsumerTypeOK, Idle
<1>1. CASE UNCHANGED handed /\ handler'[PUSH_MSG] = handler[PUSH_MSG]
  BY <1>1 DEF NoHandover
<1>2. CASE Sender /\ UNCHANGED SenderRest
  BY <1>1, <1>2 DEF SenderRest, consumerVars, history
<1>3. CASE Process
  <2>1. UNCHANGED handed
    BY <1>3
    DEF Process, ProcessReject, ProcessSelect, ProcessPush, Push, ProcessMarkSuccess, MarkSuccess,
        ProcessResend, ProcessResendThrows, ProcessMarkFail, ProcessMarkFailThrows, ProcessAck,
        history, NoHandover
  <2>s. SUFFICES handler'[PUSH_MSG].at # "failed"
    BY <2>1 DEF NoHandover
  <2>2. ASSUME NEW m \in Msgs, ProcessSelect(m)
        PROVE  handler'[PUSH_MSG].at # "failed"
    <3>1. handler'[PUSH_MSG] = Job(ProcessEntry(m), m, failNum[m], TRUE)
      BY <1>0, <2>2, QueueNames DEF ProcessSelect, Begin
    <3>2. QED
      BY <3>1 DEF Job, ProcessEntry
  <2>3. ASSUME NEW stage \in Stages \ {"failed"}, Goto(PUSH_MSG, stage)
        PROVE  handler'[PUSH_MSG].at # "failed"
    BY <1>0, <2>3, QueueNames DEF Goto, Job
  <2>4. ASSUME Finish(PUSH_MSG)
        PROVE  handler'[PUSH_MSG].at # "failed"
    BY <1>0, <2>4, QueueNames DEF Finish
  <2>5. CASE ProcessPush \/ ProcessMarkSuccess
    BY <2>3, <2>5 DEF ProcessPush, ProcessMarkSuccess, Push, MarkSuccess, UpdateStatusThrows, Stages
  <2>6. CASE ProcessMarkFail
    BY <2>3, <2>6 DEF ProcessMarkFail, Stages
  <2>7. ASSUME NEW m \in Msgs, ProcessReject(m)
        PROVE  handler'[PUSH_MSG].at # "failed"
    BY <2>7 DEF ProcessReject, NoHandover
  <2>8. CASE ProcessResend \/ ProcessResendThrows
    BY <2>8 DEF ProcessResend, ProcessResendThrows, NoHandover
  <2>9. CASE ProcessMarkFailThrows \/ ProcessAck
    BY <2>4, <2>9 DEF ProcessMarkFailThrows, ProcessAck, Abandon, Acknowledge
  <2>10. QED
    BY <1>3, <2>2, <2>5, <2>6, <2>7, <2>8, <2>9 DEF Process
<1>4. CASE Retry
  <2>1. UNCHANGED handed
    BY <1>4
    DEF Retry, RetrySelect, RetryPush, Push, RetryMarkSuccess, MarkSuccess, RetryAck, RetryNack,
        history
  <2>2. \E job : handler' = [handler EXCEPT ![RETRY_PUSH_MSG] = job]
    BY <1>4
    DEF Retry, RetrySelect, RetryPush, Push, RetryMarkSuccess, MarkSuccess, RetryAck, RetryNack,
        Begin, Goto, Acknowledge, Finish
  <2>3. handler'[PUSH_MSG] = handler[PUSH_MSG]
    BY <2>2, HandOther, QueueNames
  <2>4. QED
    BY <1>1, <2>1, <2>3
<1>5. CASE Fail \/ Disturbed \/ Task \/ UNCHANGED vars
  BY <1>1, <1>5
  DEF Fail, FailAck, Disturbed, TimePasses, SelectThrows, Task, ScanSelect, ScanPublish,
      vars, consumerVars, history
<1>6. CASE Crash
  BY <1>0, <1>6, QueueNames DEF Crash, history, NoHandover
<1>7. ASSUME NEW q \in Consumed, ChannelLost(q)
      PROVE  NoHandover'
  <2>1. handler'[PUSH_MSG].at = handler[PUSH_MSG].at \/ handler'[PUSH_MSG] = Idle
    BY <1>0, <1>7, QueueNames DEF ChannelLost, Job
  <2>2. QED
    BY <1>0, <1>7, <2>1 DEF ChannelLost, history, NoHandover
<1>8. QED
  BY <1>2, <1>3, <1>4, <1>5, <1>6, <1>7 DEF Next

LEMMA LossNext ==
    ASSUME TypeOK, TypeOK', ConsumptionInv, LossInv, [Next]_vars
    PROVE  LossInv'
<1>1. SUFFICES ASSUME Undisturbed'
               PROVE  NoHandover' /\ \A m \in Msgs : request'[m] = "sent" => Settles(m)'
  BY DEF LossInv
<1>2. Undisturbed /\ ~Fault /\ nacksLeft' = MaxNacks
  BY <1>1, StayedCalm
<1>3. NoHandover /\ \A m \in Msgs : request[m] = "sent" => Settles(m)
  BY <1>2 DEF LossInv
<1>4. NoHandover'
  BY <1>2, <1>3, HandoverStays
<1>5. ASSUME NEW m \in Msgs, request'[m] = "sent"
      PROVE  Settles(m)'
  <2>1. Kept(m) \/ Published(m) \/ Consumes(m)
    BY CopiesNext DEF CopyStep
  <2>2. (pushes[m] > 0 => pushes'[m] > 0) /\ (m \in discarded => m \in discarded')
    BY DoneStays
  <2>3. Copies(PUSH_MSG, m) \in Nat
    BY CopiesNat
  <2>4. CASE Kept(m)
    BY <1>2, <1>3, <1>5, <2>2, <2>4 DEF Kept, Same, Settles
  <2>5. CASE Published(m)
    BY <2>3, <2>5 DEF Published, Settles
  <2>6. CASE Consumes(m)
    BY <1>3, <2>2, <2>6 DEF Consumes, ConsumptionInv, Settled, NoHandover, Settles
  <2>7. QED
    BY <2>1, <2>4, <2>5, <2>6
<1>6. QED
  BY <1>4, <1>5

LEMMA LossInductive == Spec => []LossInv
<1>1. Init => LossInv
  BY QueueNames DEF Init, SenderInit, ConsumerInit, Idle, LossInv, NoHandover
<1>2. TypeOK /\ TypeOK' /\ ConsumptionInv /\ LossInv /\ [Next]_vars => LossInv'
  BY LossNext
<1>3. QED
  BY <1>1, <1>2, TypeCorrect, ConsumptionInductive, PTL DEF Spec

\* Until a call throws or a publish is nacked, a message whose request thread has
\* published it is pushed, rejected as expired or still in a queue: lost channels
\* and crashes, however many and wherever they strike, lose nothing.
THEOREM NothingLostCorrect == Spec => []NothingLost
<1>1. LossInv => NothingLost
  BY QueueNames DEF LossInv, Settles, NothingLost, Own
<1>2. QED
  BY <1>1, LossInductive, PTL

--------------------------------------------------------------------------------
(***************************************************************************)
(* How often a message is pushed.  Every push draws on a budget: the pushes *)
(* made, the ones the copies in push_msg and the state of the listeners     *)
(* still allow, the calls that may still throw and the interruptions that   *)
(* may still come.  No step makes it larger.                                *)
(***************************************************************************)

\* sendMsg has still to publish m.
Unsent(m) == IF Waiting(m) THEN 1 ELSE 0

\* process is in front of its push of m, or behind one that threw.
Begun(m) ==
    IF handler[PUSH_MSG].at \in {"pushing", "failed", "resent"} /\ handler[PUSH_MSG].msg = m
    THEN 1 ELSE 0

\* processRetry is at m, in front of its push or behind it.
RetryAt(stage, m) == handler[RETRY_PUSH_MSG].at = stage /\ handler[RETRY_PUSH_MSG].msg = m

\* processRetry is about to push m, or a copy in the retry queue would make it.
Again(m) ==
    IF RetryAt("pushing", m) \/ (result[m] = "CONSUME_FAIL" /\ ~RetryAt("pushed", m)) THEN 1 ELSE 0

Budget(m) ==
    pushes[m] + Unsent(m) + ready[PUSH_MSG][m] + stuck[PUSH_MSG][m] + Begun(m) + Again(m)
        + faultsLeft + 2 * crashesLeft

Thrifty == \A m \in Msgs : Budget(m)' <= Budget(m)

LEMMA Parts ==
    ASSUME TypeOK, NEW m \in Msgs
    PROVE  /\ pushes[m] \in Nat /\ Unsent(m) \in {0, 1}
           /\ ready[PUSH_MSG][m] \in Nat /\ stuck[PUSH_MSG][m] \in Nat
           /\ Begun(m) \in {0, 1} /\ Again(m) \in {0, 1}
           /\ faultsLeft \in Nat /\ crashesLeft \in Nat
BY QueueNames, FaultsAssumption, PipelineAssumption
DEF TypeOK, TableTypeOK, BrokerTypeOK, ConsumerTypeOK, Unsent, Begun, Again

LEMMA PartsNext ==
    ASSUME TypeOK', NEW m \in Msgs
    PROVE  /\ pushes'[m] \in Nat /\ Unsent(m)' \in {0, 1}
           /\ ready'[PUSH_MSG][m] \in Nat /\ stuck'[PUSH_MSG][m] \in Nat
           /\ Begun(m)' \in {0, 1} /\ Again(m)' \in {0, 1}
           /\ faultsLeft' \in Nat /\ crashesLeft' \in Nat
BY QueueNames, FaultsAssumption, PipelineAssumption
DEF TypeOK, TableTypeOK, BrokerTypeOK, ConsumerTypeOK, Unsent, Begun, Again

\* A step that makes no part larger.
LEMMA EachPart ==
    ASSUME TypeOK, TypeOK', NEW m \in Msgs,
           pushes'[m] <= pushes[m], Unsent(m)' <= Unsent(m),
           ready'[PUSH_MSG][m] <= ready[PUSH_MSG][m], stuck'[PUSH_MSG][m] <= stuck[PUSH_MSG][m],
           Begun(m)' <= Begun(m), Again(m)' <= Again(m),
           faultsLeft' <= faultsLeft, crashesLeft' <= crashesLeft
    PROVE  Budget(m)' <= Budget(m)
BY Parts, PartsNext DEF Budget

\* A push that threw may have reached the channel handlers all the same.
AtMostOneMore(q) == UNCHANGED pushes \/ pushes' = [pushes EXCEPT ![handler[q].msg] = @ + 1]

LEMMA FaultsFall ==
    ASSUME TypeOK, [Next]_vars
    PROVE  faultsLeft' <= faultsLeft /\ (Fault => faultsLeft' = faultsLeft - 1)
BY StepBounds, FaultsAssumption DEF FaultsOnly, Fault, TypeOK, TableTypeOK

\* Only process writes CONSUME_FAIL.
LEMMA OtherStatus ==
    ASSUME TypeOK, NEW k \in Msgs, NEW s \in Results \ {"CONSUME_FAIL"}, NEW n \in Nat,
           UpdateStatus(k, s, n) \/ UpdateStatusThrows(k, s, n)
    PROVE  \A m \in Msgs : result'[m] = "CONSUME_FAIL" => result[m] = "CONSUME_FAIL"
<1>1. CASE UpdateRow(k, s, n)
  BY <1>1 DEF UpdateRow, tableVars, TypeOK, TableTypeOK
<1>2. CASE UNCHANGED tableVars
  BY <1>2 DEF tableVars
<1>3. QED
  BY <1>1, <1>2 DEF UpdateStatus, UpdateStatusThrows

\* Whatever is written into a row, CONSUME_FAIL appears in the row of one message.
LEMMA OneRow ==
    ASSUME TypeOK, NEW k \in Msgs, NEW s, NEW n \in Nat,
           UpdateStatus(k, s, n) \/ UpdateStatusThrows(k, s, n)
    PROVE  \A m \in Msgs \ {k} : result'[m] = result[m]
<1>1. CASE UpdateRow(k, s, n)
  BY <1>1 DEF UpdateRow, tableVars, TypeOK, TableTypeOK
<1>2. CASE UNCHANGED tableVars
  BY <1>2 DEF tableVars
<1>3. QED
  BY <1>1, <1>2 DEF UpdateStatus, UpdateStatusThrows

\* A listener that does not move, and a row that does not become CONSUME_FAIL.
LEMMA AgainFrame ==
    ASSUME NEW m \in Msgs, handler'[RETRY_PUSH_MSG] = handler[RETRY_PUSH_MSG],
           result'[m] = "CONSUME_FAIL" => result[m] = "CONSUME_FAIL"
    PROVE  Again(m)' <= Again(m)
BY DEF Again, RetryAt

LEMMA BegunFrame ==
    ASSUME NEW m \in Msgs, handler'[PUSH_MSG] = handler[PUSH_MSG]
    PROVE  Begun(m)' <= Begun(m)
BY DEF Begun

--------------------------------------------------------------------------------
(* The steps *)

\* The request threads and the callbacks: a copy appears in push_msg when its
\* message stops waiting.
LEMMA ThriftySender ==
    ASSUME TypeOK, TypeOK', [Next]_vars, Sender, UNCHANGED SenderRest
    PROVE  Thrifty
<1>1. SUFFICES ASSUME NEW m \in Msgs PROVE Budget(m)' <= Budget(m)
  BY DEF Thrifty
<1>2. /\ handler' = handler /\ pushes'[m] = pushes[m] /\ crashesLeft' = crashesLeft
      /\ Begun(m)' <= Begun(m) /\ faultsLeft' <= faultsLeft
  BY BegunFrame, FaultsFall DEF SenderRest, consumerVars, history
<1>3. ASSUME result'[m] = "CONSUME_FAIL" => result[m] = "CONSUME_FAIL", stuck' = stuck,
             Unsent(m)' + ready'[PUSH_MSG][m] <= Unsent(m) + ready[PUSH_MSG][m]
      PROVE  Budget(m)' <= Budget(m)
  BY <1>2, <1>3, AgainFrame, Parts, PartsNext DEF Budget
<1>4. ASSUME NEW k \in Msgs, SendMsgInsert(k)
      PROVE  Budget(m)' <= Budget(m)
  <2>1. result'[m] = "CONSUME_FAIL" => result[m] = "CONSUME_FAIL"
    BY <1>4 DEF SendMsgInsert, Insert, tableVars, TypeOK, TableTypeOK
  <2>2. Unsent(m)' <= Unsent(m)
    BY <1>4 DEF SendMsgInsert, Unsent, Waiting, TypeOK, SenderTypeOK
  <2>3. ready' = ready /\ stuck' = stuck
    BY <1>4 DEF SendMsgInsert, brokerVars
  <2>4. QED
    BY <1>3, <2>1, <2>2, <2>3, Parts, PartsNext
<1>5. ASSUME NEW k \in Msgs, SendMsgPublish(k) \/ ForeignPublish(k)
      PROVE  Budget(m)' <= Budget(m)
  <2>1. result' = result /\ stuck' = stuck
    BY <1>5 DEF SendMsgPublish, ForeignPublish, Publish, PublishThrows, tableVars, brokerVars
  <2>2. /\ request[k] \in {"none", "inserted"}
        /\ request'[k] \in {"sent", "failed"}
        /\ m # k => request'[m] = request[m]
    <3>1. \E e \in {"sent", "failed"} : request' = [request EXCEPT ![k] = e]
      BY <1>5 DEF SendMsgPublish, ForeignPublish
    <3>2. QED
      BY <1>5, <3>1 DEF SendMsgPublish, ForeignPublish, TypeOK, SenderTypeOK
  <2>3. \/ ready'[PUSH_MSG][m] = ready[PUSH_MSG][m]
        \/ m = k /\ ready'[PUSH_MSG][m] = ready[PUSH_MSG][m] + 1
    BY <1>5, QueueNames
    DEF SendMsgPublish, ForeignPublish, Publish, PublishThrows, Enqueue, Plus, brokerVars,
        TypeOK, BrokerTypeOK
  <2>4. CASE m = k
    <3>1. Unsent(m)' = 0 /\ Unsent(m) = 1
      BY <2>2, <2>4 DEF Unsent, Waiting
    <3>2. QED
      BY <1>3, <2>1, <2>3, <3>1, Parts, PartsNext
  <2>5. CASE m # k
    <3>1. Unsent(m)' = Unsent(m)
      BY <2>2, <2>5 DEF Unsent, Waiting
    <3>2. QED
      BY <1>3, <2>1, <2>3, <2>5, <3>1, Parts, PartsNext
  <2>6. QED
    BY <2>4, <2>5
<1>6. ASSUME NEW t \in Confirmers, Callback(t)
      PROVE  Budget(m)' <= Budget(m)
  <2>1. request' = request /\ ready'[PUSH_MSG] = ready[PUSH_MSG] /\ stuck' = stuck
    <3>1. CASE ConfirmRepublish(t)
      <4>1. stuck' = stuck
        BY <3>1 DEF ConfirmRepublish, Publish, PublishThrows, brokerVars
      <4>2. QED
        BY <3>1, <4>1, PublishOther, QueueNames DEF ConfirmRepublish, PublishThrows, brokerVars
    <3>2. QED
      BY <1>6, <3>1 DEF Callback, ConfirmSelect, ConfirmUpdate, brokerVars
  <2>2. result'[m] = "CONSUME_FAIL" => result[m] = "CONSUME_FAIL"
    <3>1. CASE ConfirmUpdate(t)
      <4>1. callback[t] \in Callbacks
        BY <3>1, CallbackBusy DEF ConfirmUpdate, TypeOK
      <4>2. callback[t].msg \in Msgs /\ callback[t].failNum + 1 \in Nat
        BY <4>1 DEF Callbacks
      <4>3. QED
        BY <3>1, <4>2, OtherStatus DEF ConfirmUpdate, Results, Failed
    <3>2. QED
      BY <1>6, <3>1 DEF Callback, ConfirmSelect, ConfirmRepublish, tableVars
  <2>3. Unsent(m)' = Unsent(m)
    BY <2>1 DEF Unsent, Waiting
  <2>4. QED
    BY <1>3, <2>1, <2>2, <2>3, Parts, PartsNext
<1>7. QED
  BY <1>4, <1>5, <1>6 DEF Sender

\* The retry listener: a push needs the status CONSUME_FAIL, which it removes unless
\* a call throws.
LEMMA ThriftyRetry ==
    ASSUME TypeOK, TypeOK', [Next]_vars, Retry, UNCHANGED ConsumerRest
    PROVE  Thrifty
<1>1. SUFFICES ASSUME NEW m \in Msgs PROVE Budget(m)' <= Budget(m)
  BY DEF Thrifty
<1>q. RETRY_PUSH_MSG \in Queues \ {PUSH_MSG} /\ handler \in [Queues -> {Idle} \cup Handlers]
  BY QueueNames DEF TypeOK, ConsumerTypeOK
<1>2. UNCHANGED <<request, stuck, crashesLeft>> /\ faultsLeft' <= faultsLeft
  BY FaultsFall
  DEF Retry, RetrySelect, RetryPush, RetryMarkSuccess, Push, MarkSuccess, RetryAck, RetryNack,
      brokerVars, senderVars, ConsumerRest
<1>3. ready'[PUSH_MSG] = ready[PUSH_MSG]
  <2>1. \/ ready' = ready
        \/ \E k \in Msgs : ready' = Minus(ready, RETRY_PUSH_MSG, k)
        \/ ready' = Plus(ready, RETRY_PUSH_MSG, handler[RETRY_PUSH_MSG].msg)
    BY DEF Retry, RetrySelect, RetryPush, RetryMarkSuccess, Push, MarkSuccess, RetryAck, RetryNack,
           Deliver, Enqueue, DeadLetterQueue, brokerVars
  <2>2. QED
    BY <1>q, <2>1, OtherQueue DEF TypeOK, BrokerTypeOK
<1>4. handler'[PUSH_MSG] = handler[PUSH_MSG]
  <2>1. \E job : handler' = [handler EXCEPT ![RETRY_PUSH_MSG] = job]
    BY DEF Retry, RetrySelect, RetryPush, RetryMarkSuccess, Push, MarkSuccess, RetryAck, RetryNack,
           Begin, Goto, Acknowledge, Finish
  <2>2. QED
    BY <1>q, <2>1, HandOther
<1>5. Unsent(m)' = Unsent(m) /\ Begun(m)' = Begun(m)
  BY <1>2, <1>4 DEF Unsent, Waiting, Begun
<1>6. ASSUME pushes'[m] + Again(m)' + faultsLeft' <= pushes[m] + Again(m) + faultsLeft
      PROVE  Budget(m)' <= Budget(m)
  BY <1>2, <1>3, <1>5, <1>6, Parts, PartsNext DEF Budget
<1>7. ASSUME NEW k \in Msgs, RetrySelect(k)
      PROVE  Budget(m)' <= Budget(m)
  <2>1. pushes' = pushes /\ result' = result
    BY <1>7 DEF RetrySelect, history, tableVars
  <2>2. /\ handler'[RETRY_PUSH_MSG] = Job(RetryEntry(k), k, failNum[k], TRUE)
        /\ handler[RETRY_PUSH_MSG] = Idle
    BY <1>q, <1>7 DEF RetrySelect, Begin
  <2>3. RetryEntry(k) = "pushing" => result[k] = "CONSUME_FAIL"
    BY DEF RetryEntry
  <2>4. Again(m)' <= Again(m)
    BY <2>1, <2>2, <2>3 DEF Again, RetryAt, Job, Idle
  <2>5. QED
    BY <1>2, <1>6, <2>1, <2>4, Parts, PartsNext
<1>8. CASE RetryPush
  <2>1. handler[RETRY_PUSH_MSG] \in Handlers /\ handler[RETRY_PUSH_MSG].at = "pushing"
    BY <1>q, <1>8, HandlerBusy DEF RetryPush, Push, Stages, TypeOK
  <2>2. result' = result
    BY <1>8 DEF RetryPush, Push, tableVars
  <2>3. ASSUME Goto(RETRY_PUSH_MSG, "pushed"),
               pushes' = [pushes EXCEPT ![handler[RETRY_PUSH_MSG].msg] = @ + 1], UNCHANGED faultsLeft
        PROVE  Budget(m)' <= Budget(m)
    <3>1. RetryAt("pushed", m)' <=> handler[RETRY_PUSH_MSG].msg = m
      BY <1>q, <2>3 DEF Goto, Job, RetryAt
    <3>2. ~RetryAt("pushing", m)'
      BY <1>q, <2>3 DEF Goto, Job, RetryAt
    <3>3. CASE handler[RETRY_PUSH_MSG].msg = m
      <4>1. pushes'[m] = pushes[m] + 1 /\ Again(m) = 1 /\ Again(m)' = 0
        BY <2>1, <2>3, <3>1, <3>2, <3>3 DEF Again, RetryAt, TypeOK, ConsumerTypeOK
      <4>2. QED
        BY <1>6, <2>3, <4>1, Parts, PartsNext
    <3>4. CASE handler[RETRY_PUSH_MSG].msg # m
      <4>1. pushes'[m] = pushes[m] /\ Again(m)' = Again(m)
        BY <2>1, <2>2, <2>3, <3>1, <3>2, <3>4 DEF Again, RetryAt, TypeOK, ConsumerTypeOK
      <4>2. QED
        BY <1>6, <2>3, <4>1, Parts, PartsNext
    <3>5. QED
      BY <3>3, <3>4
  <2>4. ASSUME Goto(RETRY_PUSH_MSG, "nacking"), Fault, AtMostOneMore(RETRY_PUSH_MSG)
        PROVE  Budget(m)' <= Budget(m)
    <3>1. ~RetryAt("pushed", m)' /\ ~RetryAt("pushing", m)'
      BY <1>q, <2>4 DEF Goto, Job, RetryAt
    <3>2. Again(m)' <= Again(m)
      BY <2>1, <2>2, <3>1 DEF Again, RetryAt
    <3>3. pushes'[m] <= pushes[m] + 1 /\ faultsLeft' = faultsLeft - 1
      BY <2>4, FaultsFall DEF AtMostOneMore, TypeOK, ConsumerTypeOK
    <3>4. QED
      BY <1>2, <1>6, <3>2, <3>3, Parts, PartsNext
  <2>5. QED
    BY <1>8, <2>3, <2>4 DEF RetryPush, Push, AtMostOneMore
<1>9. CASE RetryMarkSuccess
  <2>1. handler[RETRY_PUSH_MSG] \in Handlers /\ handler[RETRY_PUSH_MSG].at = "pushed"
    BY <1>q, <1>9, HandlerBusy DEF RetryMarkSuccess, MarkSuccess, Stages, TypeOK
  <2>2. handler[RETRY_PUSH_MSG].msg \in Msgs /\ handler[RETRY_PUSH_MSG].failNum \in Nat
    BY <2>1 DEF Handlers
  <2>3. pushes' = pushes /\ (result'[m] = "CONSUME_FAIL" => result[m] = "CONSUME_FAIL")
    BY <1>9, <2>2, OtherStatus DEF RetryMarkSuccess, MarkSuccess, history, Results
  <2>4. ~RetryAt("pushed", m)' /\ ~RetryAt("pushing", m)'
    BY <1>q, <1>9 DEF RetryMarkSuccess, MarkSuccess, Goto, Job, RetryAt
  <2>5. CASE handler[RETRY_PUSH_MSG].msg # m
    <3>1. Again(m)' <= Again(m)
      BY <2>3, <2>4, <2>5 DEF Again, RetryAt
    <3>2. QED
      BY <1>2, <1>6, <2>3, <3>1, Parts, PartsNext
  <2>6. CASE handler[RETRY_PUSH_MSG].msg = m /\ UpdateStatus(m, "SUCCESS", handler[RETRY_PUSH_MSG].failNum)
    <3>1. result'[m] # "CONSUME_FAIL"
      BY <2>6 DEF UpdateStatus, UpdateRow, RowExists, NO_ROW, tableVars, TypeOK, TableTypeOK
    <3>2. Again(m)' <= Again(m)
      BY <2>4, <3>1 DEF Again
    <3>3. QED
      BY <1>2, <1>6, <2>3, <3>2, Parts, PartsNext
  <2>7. CASE Fault
    BY <1>6, <2>3, <2>7, FaultsFall, Parts, PartsNext
  <2>8. QED
    BY <1>9, <2>5, <2>6, <2>7 DEF RetryMarkSuccess, MarkSuccess, UpdateStatusThrows
<1>10. CASE RetryAck \/ RetryNack
  <2>1. pushes' = pushes /\ result' = result
    BY <1>10 DEF RetryAck, RetryNack, tableVars
  <2>2. handler'[RETRY_PUSH_MSG] = Idle /\ handler[RETRY_PUSH_MSG].at \in {"finishing", "nacking"}
    BY <1>q, <1>10 DEF RetryAck, RetryNack, Acknowledge, Finish
  <2>3. Again(m)' <= Again(m)
    BY <2>1, <2>2 DEF Again, RetryAt, Idle
  <2>4. QED
    BY <1>2, <1>6, <2>1, <2>3, Parts, PartsNext
<1>11. QED
  BY <1>7, <1>8, <1>9, <1>10 DEF Retry

\* process: the push of a copy is paid by the copy, and what a call that throws
\* leaves behind by that call.
LEMMA ThriftyProcess ==
    ASSUME TypeOK, TypeOK', [Next]_vars, Process, UNCHANGED ConsumerRest
    PROVE  Thrifty
<1>1. SUFFICES ASSUME NEW m \in Msgs PROVE Budget(m)' <= Budget(m)
  BY DEF Thrifty
<1>q. PUSH_MSG \in Queues /\ handler \in [Queues -> {Idle} \cup Handlers]
  BY QueueNames DEF TypeOK, ConsumerTypeOK
<1>2. UNCHANGED <<request, crashesLeft>> /\ faultsLeft' <= faultsLeft
  BY FaultsFall
  DEF Process, ProcessReject, ProcessSelect, ProcessPush, ProcessMarkSuccess, Push, MarkSuccess,
      ProcessResend, ProcessResendThrows, ProcessMarkFail, ProcessMarkFailThrows, ProcessAck,
      senderVars, ConsumerRest
<1>3. handler'[RETRY_PUSH_MSG] = handler[RETRY_PUSH_MSG]
  <2>1. \E job : handler' = [handler EXCEPT ![PUSH_MSG] = job] \/ handler' = handler
    BY DEF Process, ProcessReject, ProcessSelect, ProcessPush, ProcessMarkSuccess, Push, MarkSuccess,
           ProcessResend, ProcessResendThrows, ProcessMarkFail, ProcessMarkFailThrows, ProcessAck,
           Begin, Goto, Acknowledge, Abandon, Finish
  <2>2. QED
    BY <1>q, <2>1, QueueNames
<1>4. Unsent(m)' = Unsent(m)
  BY <1>2 DEF Unsent, Waiting
<1>5. ASSUME Again(m)' <= Again(m),
             pushes'[m] + ready'[PUSH_MSG][m] + stuck'[PUSH_MSG][m] + Begun(m)' + faultsLeft'
                <= pushes[m] + ready[PUSH_MSG][m] + stuck[PUSH_MSG][m] + Begun(m) + faultsLeft
      PROVE  Budget(m)' <= Budget(m)
  BY <1>2, <1>4, <1>5, Parts, PartsNext DEF Budget
<1>6. ASSUME NEW k \in Msgs, ProcessReject(k)
      PROVE  Budget(m)' <= Budget(m)
  <2>1. /\ pushes' = pushes /\ stuck' = stuck /\ result' = result /\ handler' = handler
        /\ ready'[PUSH_MSG][m] <= ready[PUSH_MSG][m]
    BY <1>6, <1>q DEF ProcessReject, Deliver, Minus, tableVars, TypeOK, BrokerTypeOK
  <2>2. Begun(m)' = Begun(m) /\ Again(m)' <= Again(m)
    BY <2>1, AgainFrame DEF Begun
  <2>3. QED
    BY <1>2, <1>5, <2>1, <2>2, Parts, PartsNext
<1>7. ASSUME NEW k \in Msgs, ProcessSelect(k)
      PROVE  Budget(m)' <= Budget(m)
  <2>1. /\ pushes' = pushes /\ stuck' = stuck /\ result' = result
        /\ ready'[PUSH_MSG][m] = IF m = k THEN ready[PUSH_MSG][m] - 1 ELSE ready[PUSH_MSG][m]
    BY <1>7, <1>q DEF ProcessSelect, Deliver, Minus, history, tableVars, TypeOK, BrokerTypeOK
  <2>2. handler'[PUSH_MSG].msg = k
    BY <1>7, <1>q DEF ProcessSelect, Begin, Job
  <2>3. Begun(m)' <= (IF m = k THEN 1 ELSE 0) /\ Again(m)' <= Again(m)
    BY <1>3, <2>1, <2>2, AgainFrame DEF Begun
  <2>4. QED
    BY <1>2, <1>5, <2>1, <2>3, Parts, PartsNext
<1>8. CASE ProcessPush
  <2>1. handler[PUSH_MSG] \in Handlers /\ handler[PUSH_MSG].at = "pushing"
    BY <1>8, <1>q, HandlerBusy DEF ProcessPush, Push, Stages, TypeOK
  <2>2. ready' = ready /\ stuck' = stuck /\ Again(m)' <= Again(m)
    BY <1>3, <1>8, AgainFrame DEF ProcessPush, Push, tableVars, brokerVars
  <2>3. ASSUME Goto(PUSH_MSG, "pushed"),
               pushes' = [pushes EXCEPT ![handler[PUSH_MSG].msg] = @ + 1], UNCHANGED faultsLeft
        PROVE  Budget(m)' <= Budget(m)
    <3>1. pushes'[m] = pushes[m] + (IF handler[PUSH_MSG].msg = m THEN 1 ELSE 0)
      BY <2>3 DEF TypeOK, ConsumerTypeOK
    <3>2. Begun(m)' = 0 /\ Begun(m) = IF handler[PUSH_MSG].msg = m THEN 1 ELSE 0
      BY <1>q, <2>1, <2>3 DEF Goto, Job, Begun
    <3>3. QED
      BY <1>2, <1>5, <2>2, <3>1, <3>2, Parts, PartsNext
  <2>4. ASSUME Goto(PUSH_MSG, "failed"), Fault, AtMostOneMore(PUSH_MSG)
        PROVE  Budget(m)' <= Budget(m)
    <3>1. Begun(m)' = Begun(m)
      BY <1>q, <2>1, <2>4 DEF Goto, Job, Begun
    <3>2. pushes'[m] <= pushes[m] + 1 /\ faultsLeft' = faultsLeft - 1
      BY <2>4, FaultsFall DEF AtMostOneMore, TypeOK, ConsumerTypeOK
    <3>3. QED
      BY <1>2, <1>5, <2>2, <3>1, <3>2, Parts, PartsNext
  <2>5. QED
    BY <1>8, <2>3, <2>4 DEF ProcessPush, Push, AtMostOneMore
<1>9. CASE ProcessMarkSuccess
  <2>1. handler[PUSH_MSG] \in Handlers /\ handler[PUSH_MSG].at = "pushed"
    BY <1>9, <1>q, HandlerBusy DEF ProcessMarkSuccess, MarkSuccess, Stages, TypeOK
  <2>2. handler[PUSH_MSG].msg \in Msgs /\ handler[PUSH_MSG].failNum \in Nat
    BY <2>1 DEF Handlers
  <2>3. result'[m] = "CONSUME_FAIL" => result[m] = "CONSUME_FAIL"
    BY <1>9, <2>2, OtherStatus DEF ProcessMarkSuccess, MarkSuccess, Results
  <2>4. pushes' = pushes /\ ready' = ready /\ stuck' = stuck /\ Again(m)' <= Again(m)
    BY <1>3, <1>9, <2>3, AgainFrame DEF ProcessMarkSuccess, MarkSuccess, history, brokerVars
  <2>5. CASE Goto(PUSH_MSG, "finishing")
    <3>1. Begun(m)' = 0
      BY <1>q, <2>5 DEF Goto, Job, Begun
    <3>2. QED
      BY <1>2, <1>5, <2>4, <3>1, Parts, PartsNext
  <2>6. CASE Fault
    BY <1>5, <2>4, <2>6, FaultsFall, Parts, PartsNext
  <2>7. QED
    BY <1>9, <2>5, <2>6 DEF ProcessMarkSuccess, MarkSuccess, UpdateStatusThrows
<1>10. CASE ProcessResend
  <2>1. handler[PUSH_MSG] \in Handlers /\ handler[PUSH_MSG].at = "failed"
    BY <1>10, <1>q, HandlerBusy DEF ProcessResend, Stages, TypeOK
  <2>2. ready'[PUSH_MSG] = ready[PUSH_MSG] /\ stuck'[PUSH_MSG] = stuck[PUSH_MSG]
    BY <1>10, PublishOther, QueueNames DEF ProcessResend
  <2>3. pushes' = pushes /\ Again(m)' <= Again(m)
    BY <1>3, <1>10, AgainFrame DEF ProcessResend, tableVars
  <2>4. Begun(m)' = Begun(m)
    BY <1>10, <1>q, <2>1 DEF ProcessResend, Goto, Job, Begun
  <2>5. QED
    BY <1>2, <1>5, <2>2, <2>3, <2>4, Parts, PartsNext
<1>11. CASE ProcessResendThrows \/ ProcessMarkFailThrows
  <2>1. handler[PUSH_MSG] \in Handlers /\ handler[PUSH_MSG].at \in {"failed", "resent"}
    BY <1>11, <1>q, HandlerBusy DEF ProcessResendThrows, ProcessMarkFailThrows, Stages, TypeOK
  <2>2. pushes' = pushes /\ ready' = ready
    BY <1>11 DEF ProcessResendThrows, ProcessMarkFailThrows, history
  <2>3. faultsLeft' = faultsLeft - 1
    BY <1>11, FaultsFall DEF ProcessResendThrows, ProcessMarkFailThrows, UpdateStatusThrows
  <2>4. Begun(m)' = 0 /\ Begun(m) = IF handler[PUSH_MSG].msg = m THEN 1 ELSE 0
    BY <1>11, <1>q, <2>1
    DEF ProcessResendThrows, ProcessMarkFailThrows, Abandon, Finish, Idle, Begun
  <2>5. stuck'[PUSH_MSG][m] <= stuck[PUSH_MSG][m] + (IF handler[PUSH_MSG].msg = m THEN 1 ELSE 0)
    <3>1. stuck' = Plus(stuck, PUSH_MSG, handler[PUSH_MSG].msg) \/ stuck' = stuck
      BY <1>11 DEF ProcessResendThrows, ProcessMarkFailThrows, Abandon
    <3>2. QED
      BY <1>q, <3>1 DEF Plus, TypeOK, BrokerTypeOK
  <2>6. Again(m)' <= Again(m) + (IF handler[PUSH_MSG].msg = m THEN 1 ELSE 0)
    <3>1. CASE handler[PUSH_MSG].msg = m
      BY <3>1, Parts, PartsNext
    <3>2. CASE handler[PUSH_MSG].msg # m
      <4>1. handler[PUSH_MSG].msg \in Msgs /\ handler[PUSH_MSG].failNum + 1 \in Nat
        BY <2>1 DEF Handlers
      <4>2. result'[m] = result[m]
        BY <1>11, <3>2, <4>1, OneRow DEF ProcessResendThrows, ProcessMarkFailThrows, tableVars
      <4>3. QED
        BY <1>3, <3>2, <4>2, AgainFrame, Parts, PartsNext
    <3>3. QED
      BY <3>1, <3>2
  <2>7. QED
    BY <1>2, <1>4, <2>2, <2>3, <2>4, <2>5, <2>6, Parts, PartsNext DEF Budget
<1>12. CASE ProcessMarkFail
  <2>1. handler[PUSH_MSG] \in Handlers /\ handler[PUSH_MSG].at = "resent"
    BY <1>12, <1>q, HandlerBusy DEF ProcessMarkFail, Stages, TypeOK
  <2>2. pushes' = pushes /\ ready' = ready /\ stuck' = stuck
    BY <1>12 DEF ProcessMarkFail, history, brokerVars
  <2>3. Begun(m)' = 0 /\ Begun(m) = IF handler[PUSH_MSG].msg = m THEN 1 ELSE 0
    BY <1>12, <1>q, <2>1 DEF ProcessMarkFail, Goto, Job, Begun
  <2>4. Again(m)' <= Again(m) + (IF handler[PUSH_MSG].msg = m THEN 1 ELSE 0)
    <3>1. CASE handler[PUSH_MSG].msg = m
      BY <3>1, Parts, PartsNext
    <3>2. CASE handler[PUSH_MSG].msg # m
      <4>1. handler[PUSH_MSG].msg \in Msgs /\ handler[PUSH_MSG].failNum + 1 \in Nat
        BY <2>1 DEF Handlers
      <4>2. result'[m] = result[m]
        BY <1>12, <3>2, <4>1, OneRow DEF ProcessMarkFail
      <4>3. QED
        BY <1>3, <3>2, <4>2, AgainFrame, Parts, PartsNext
    <3>3. QED
      BY <3>1, <3>2
  <2>5. QED
    BY <1>2, <1>4, <2>2, <2>3, <2>4, Parts, PartsNext DEF Budget
<1>13. CASE ProcessAck
  <2>1. /\ pushes' = pushes /\ ready' = ready /\ stuck' = stuck
        /\ handler'[PUSH_MSG] = Idle /\ Again(m)' <= Again(m)
    BY <1>3, <1>13, <1>q, AgainFrame DEF ProcessAck, Acknowledge, Finish, tableVars, brokerVars
  <2>2. Begun(m)' = 0
    BY <2>1 DEF Begun, Idle
  <2>3. QED
    BY <1>2, <1>5, <2>1, <2>2, Parts, PartsNext
<1>14. QED
  BY <1>6, <1>7, <1>8, <1>9, <1>10, <1>11, <1>12, <1>13 DEF Process

\* The fail listener, time, a look-up that throws, and the scan task.
LEMMA ThriftyOthers ==
    ASSUME TypeOK, TypeOK', [Next]_vars,
           ((Fail \/ Disturbed) /\ UNCHANGED ConsumerRest) \/ Task
    PROVE  Thrifty
<1>1. SUFFICES ASSUME NEW m \in Msgs PROVE Budget(m)' <= Budget(m)
  BY DEF Thrifty
<1>q. RETRY_PUSH_MSG \in Queues \ {PUSH_MSG} /\ FAIL_PUSH_MSG \in Queues \ {PUSH_MSG}
  BY QueueNames
<1>2. UNCHANGED <<request, handler, result, pushes, crashesLeft>> /\ faultsLeft' <= faultsLeft
  BY FaultsFall
  DEF Fail, FailAck, Disturbed, TimePasses, SelectThrows, Task, ScanSelect, ScanPublish,
      tableVars, senderVars, consumerVars, history, ConsumerRest
<1>3. Unsent(m)' = Unsent(m) /\ Begun(m)' = Begun(m) /\ Again(m)' <= Again(m)
  BY <1>2, AgainFrame DEF Unsent, Waiting, Begun
<1>4. ASSUME ready'[PUSH_MSG][m] + stuck'[PUSH_MSG][m] <= ready[PUSH_MSG][m] + stuck[PUSH_MSG][m]
      PROVE  Budget(m)' <= Budget(m)
  BY <1>2, <1>3, <1>4, Parts, PartsNext DEF Budget
<1>5. ASSUME ready'[PUSH_MSG] = ready[PUSH_MSG], stuck'[PUSH_MSG] = stuck[PUSH_MSG]
      PROVE  Budget(m)' <= Budget(m)
  BY <1>4, <1>5, Parts
<1>6. ASSUME NEW k \in Msgs, FailAck(k)
      PROVE  Budget(m)' <= Budget(m)
  BY <1>5, <1>6, <1>q, OtherQueue DEF FailAck, Deliver, TypeOK, BrokerTypeOK
<1>7. CASE ScanSelect \/ \E k \in Msgs : TimePasses(k)
  BY <1>5, <1>7 DEF ScanSelect, TimePasses, brokerVars
<1>8. ASSUME NEW q \in Consumed, NEW k \in Msgs, SelectThrows(q, k)
      PROVE  Budget(m)' <= Budget(m)
  <2>1. CASE q = PUSH_MSG
    <3>1. /\ ready'[PUSH_MSG][m] = IF m = k THEN ready[PUSH_MSG][m] - 1 ELSE ready[PUSH_MSG][m]
          /\ stuck'[PUSH_MSG][m] = IF m = k THEN stuck[PUSH_MSG][m] + 1 ELSE stuck[PUSH_MSG][m]
      BY <1>8, <2>1, QueueNames DEF SelectThrows, Deliver, Minus, Plus, TypeOK, BrokerTypeOK
    <3>2. QED
      BY <1>4, <3>1, Parts, PartsNext
  <2>2. CASE q # PUSH_MSG
    <3>1. q \in Queues \ {PUSH_MSG}
      BY <2>2 DEF Consumed, Queues
    <3>2. QED
      BY <1>5, <1>8, <3>1, OtherQueue DEF SelectThrows, Deliver, TypeOK, BrokerTypeOK
  <2>3. QED
    BY <2>1, <2>2
<1>9. ASSUME NEW k \in Msgs, ScanPublish(k)
      PROVE  Budget(m)' <= Budget(m)
  BY <1>5, <1>9, <1>q, PublishOther DEF ScanPublish, PublishThrows, brokerVars
<1>10. QED
  BY <1>6, <1>7, <1>8, <1>9 DEF Fail, Disturbed, Task

\* A lost channel or a crash gives the copy in the hands of process back to the
\* queue, and a crash may leave CONSUME_FAIL in the row behind a push of
\* processRetry: two pushes at the most.
LEMMA ThriftyInterruption ==
    ASSUME TypeOK, TypeOK', Crash \/ \E q \in Consumed : ChannelLost(q)
    PROVE  Thrifty
<1>1. SUFFICES ASSUME NEW m \in Msgs PROVE Budget(m)' <= Budget(m)
  BY DEF Thrifty
<1>2. UNCHANGED <<result, pushes, faultsLeft>> /\ crashesLeft' = crashesLeft - 1
  BY DEF Crash, ChannelLost, tableVars, history, TypeOK
<1>3. InHand(PUSH_MSG, m) \in {0, 1}
  BY DEF InHand
<1>4. CASE Crash
  <2>1. /\ ready'[PUSH_MSG][m] = ready[PUSH_MSG][m] + stuck[PUSH_MSG][m] + InHand(PUSH_MSG, m)
        /\ stuck'[PUSH_MSG][m] = 0
        /\ handler'[PUSH_MSG] = Idle
    BY <1>4, QueueNames DEF Crash, Copies, Empty
  <2>2. Begun(m)' = 0
    BY <2>1 DEF Begun, Idle
  <2>3. Unsent(m)' <= Unsent(m)
    BY <1>4 DEF Crash, Unsent, Waiting
  <2>4. QED
    BY <1>2, <1>3, <2>1, <2>2, <2>3, Parts, PartsNext DEF Budget
<1>5. ASSUME NEW q \in Consumed, ChannelLost(q)
      PROVE  Budget(m)' <= Budget(m)
  <2>1. Unsent(m)' = Unsent(m)
    BY <1>5 DEF ChannelLost, senderVars, Unsent, Waiting
  <2>2. \A p \in Queues :
           \/ handler'[p] = handler[p]
           \/ handler'[p].at = handler[p].at /\ handler'[p].msg = handler[p].msg
    BY <1>5 DEF ChannelLost, Job, TypeOK, ConsumerTypeOK
  <2>3. Begun(m)' = Begun(m) /\ Again(m)' = Again(m)
    BY <1>2, <2>2, QueueNames DEF Begun, Again, RetryAt
  <2>4. CASE q = PUSH_MSG
    <3>1. /\ ready'[PUSH_MSG][m] = ready[PUSH_MSG][m] + stuck[PUSH_MSG][m] + InHand(PUSH_MSG, m)
          /\ stuck'[PUSH_MSG][m] = 0
      BY <1>5, <2>4, QueueNames DEF ChannelLost, Copies, Empty, TypeOK, BrokerTypeOK
    <3>2. QED
      BY <1>2, <1>3, <2>1, <2>3, <3>1, Parts, PartsNext DEF Budget
  <2>5. CASE q # PUSH_MSG
    <3>1. ready'[PUSH_MSG] = ready[PUSH_MSG] /\ stuck'[PUSH_MSG] = stuck[PUSH_MSG]
      BY <1>5, <2>5, QueueNames DEF ChannelLost, TypeOK, BrokerTypeOK
    <3>2. QED
      BY <1>2, <2>1, <2>3, <3>1, Parts, PartsNext DEF Budget
  <2>6. QED
    BY <2>4, <2>5
<1>6. QED
  BY <1>4, <1>5

LEMMA ThriftyNext ==
    ASSUME TypeOK, TypeOK', [Next]_vars
    PROVE  Thrifty
<1>1. CASE UNCHANGED vars
  <2>1. SUFFICES ASSUME NEW m \in Msgs PROVE Budget(m)' <= Budget(m)
    BY DEF Thrifty
  <2>2. /\ UNCHANGED <<pushes, request, ready, stuck, handler, result, faultsLeft, crashesLeft>>
    BY <1>1 DEF vars, tableVars, brokerVars, senderVars, consumerVars, history
  <2>3. QED
    BY <2>2, Parts, PartsNext DEF Budget, Unsent, Waiting, Begun, Again, RetryAt
<1>2. QED
  BY <1>1, ThriftySender, ThriftyProcess, ThriftyRetry, ThriftyOthers, ThriftyInterruption DEF Next

--------------------------------------------------------------------------------
\* The budget of a message at the start: one push, one for every call that may
\* throw, two for every interruption.
BudgetInv == \A m \in Msgs : Budget(m) <= 1 + MaxFaults + 2 * MaxCrashes

LEMMA BudgetInductive == Spec => []BudgetInv
<1>1. Init => BudgetInv
  <2>1. SUFFICES ASSUME Init, NEW m \in Msgs
                 PROVE  Budget(m) <= 1 + MaxFaults + 2 * MaxCrashes
    BY DEF BudgetInv
  <2>2. /\ pushes[m] = 0 /\ ready[PUSH_MSG][m] = 0 /\ stuck[PUSH_MSG][m] = 0
        /\ handler[PUSH_MSG] = Idle /\ handler[RETRY_PUSH_MSG] = Idle /\ result[m] = NO_ROW
        /\ faultsLeft = MaxFaults /\ crashesLeft = MaxCrashes
    BY <2>1, QueueNames DEF Init, TableInit, BrokerInit, ConsumerInit, Empty
  <2>3. Begun(m) = 0 /\ Again(m) = 0 /\ Unsent(m) \in {0, 1}
    BY <2>2 DEF Begun, Again, RetryAt, Idle, NO_ROW, Unsent
  <2>4. QED
    BY <2>2, <2>3, FaultsAssumption, PipelineAssumption DEF Budget
<1>2. TypeOK /\ TypeOK' /\ BudgetInv /\ [Next]_vars => BudgetInv'
  <2>1. SUFFICES ASSUME TypeOK, TypeOK', BudgetInv, [Next]_vars, NEW m \in Msgs
                 PROVE  Budget(m)' <= 1 + MaxFaults + 2 * MaxCrashes
    BY DEF BudgetInv
  <2>2. Budget(m)' <= Budget(m) /\ Budget(m) <= 1 + MaxFaults + 2 * MaxCrashes
    BY <2>1, ThriftyNext DEF Thrifty, BudgetInv
  <2>3. Budget(m) \in Nat /\ Budget(m)' \in Nat
    BY <2>1, Parts, PartsNext DEF Budget
  <2>4. QED
    BY <2>2, <2>3, FaultsAssumption, PipelineAssumption
<1>3. QED
  BY <1>1, <1>2, TypeCorrect, PTL DEF Spec

\* A message is pushed once, and again at most once for every call that threw and
\* twice for every lost channel or crash, for any number of those: what confirm and
\* the scan task publish, and the stale status confirm writes over a newer one,
\* pushes nothing twice.
THEOREM DuplicatesCorrect == Spec => []DuplicatesHaveACause
<1>1. TypeOK /\ BudgetInv => DuplicatesHaveACause
  <2>1. SUFFICES ASSUME TypeOK, BudgetInv, NEW m \in Msgs
                 PROVE  pushes[m] <= 1 + (MaxFaults - faultsLeft) + 2 * (MaxCrashes - crashesLeft)
    BY DEF DuplicatesHaveACause
  <2>2. Budget(m) <= 1 + MaxFaults + 2 * MaxCrashes
    BY <2>1 DEF BudgetInv
  <2>3. QED
    BY <2>1, <2>2, Parts, FaultsAssumption, PipelineAssumption DEF Budget
<1>2. QED
  BY <1>1, TypeCorrect, BudgetInductive, PTL

--------------------------------------------------------------------------------
(***************************************************************************)
(* An ack leaves a copy.  Whatever the retry queue holds of a message stays *)
(* there, waiting, unacknowledged or in the hands of the listener, until    *)
(* processRetry acknowledges it: its nack dead-letters the copy into the    *)
(* same queue.                                                              *)
(***************************************************************************)

Held(m) == Copies(RETRY_PUSH_MSG, m) > 0 \/ m \in acked[RETRY_PUSH_MSG]
HeldStays == \A m \in Msgs : Held(m) => Held(m)'

\* The inductive invariant: what process handed over is held, or pushed.
HandedInv == nacksLeft = MaxNacks => \A m \in handed : pushes[m] > 0 \/ Held(m)

\* A listener of the retry queue that does not move, and copies that only grow.
LEMMA HeldElsewhere ==
    ASSUME TypeOK, TypeOK', acked[RETRY_PUSH_MSG] \subseteq acked'[RETRY_PUSH_MSG],
           handler'[RETRY_PUSH_MSG] = handler[RETRY_PUSH_MSG],
           \A m \in Msgs : ready'[RETRY_PUSH_MSG][m] >= ready[RETRY_PUSH_MSG][m],
           \A m \in Msgs : stuck'[RETRY_PUSH_MSG][m] >= stuck[RETRY_PUSH_MSG][m]
    PROVE  HeldStays
<1>1. SUFFICES ASSUME NEW m \in Msgs, Copies(RETRY_PUSH_MSG, m) > 0
               PROVE  Copies(RETRY_PUSH_MSG, m)' > 0
  BY DEF HeldStays, Held
<1>2. InHand(RETRY_PUSH_MSG, m)' = InHand(RETRY_PUSH_MSG, m) /\ InHand(RETRY_PUSH_MSG, m) \in {0, 1}
  BY DEF InHand
<1>3. /\ ready[RETRY_PUSH_MSG][m] \in Nat /\ ready'[RETRY_PUSH_MSG][m] \in Nat
      /\ stuck[RETRY_PUSH_MSG][m] \in Nat /\ stuck'[RETRY_PUSH_MSG][m] \in Nat
  BY QueueNames DEF TypeOK, BrokerTypeOK
<1>4. QED
  BY <1>1, <1>2, <1>3 DEF Copies

\* Nothing happens at the retry queue, or a copy is added.
LEMMA HeldPublish ==
    ASSUME TypeOK, TypeOK', acked[RETRY_PUSH_MSG] \subseteq acked'[RETRY_PUSH_MSG],
           handler'[RETRY_PUSH_MSG] = handler[RETRY_PUSH_MSG], UNCHANGED stuck,
           \/ UNCHANGED ready
           \/ \E q \in Queues, k \in Msgs : ready' = Plus(ready, q, k)
           \/ \E q \in Queues \ {RETRY_PUSH_MSG}, k \in Msgs : ready' = Minus(ready, q, k)
    PROVE  HeldStays
<1>1. ASSUME NEW m \in Msgs
      PROVE  ready'[RETRY_PUSH_MSG][m] >= ready[RETRY_PUSH_MSG][m]
  <2>1. ready[RETRY_PUSH_MSG][m] \in Nat /\ RETRY_PUSH_MSG \in Queues
    BY QueueNames DEF TypeOK, BrokerTypeOK
  <2>2. ASSUME NEW q \in Queues, NEW k \in Msgs, ready' = Plus(ready, q, k)
        PROVE  ready'[RETRY_PUSH_MSG][m] >= ready[RETRY_PUSH_MSG][m]
    BY <2>1, <2>2 DEF Plus, TypeOK, BrokerTypeOK
  <2>3. ASSUME NEW q \in Queues \ {RETRY_PUSH_MSG}, NEW k \in Msgs, ready' = Minus(ready, q, k)
        PROVE  ready'[RETRY_PUSH_MSG][m] >= ready[RETRY_PUSH_MSG][m]
    BY <2>1, <2>3 DEF Minus, TypeOK, BrokerTypeOK
  <2>4. QED
    BY <2>1, <2>2, <2>3
<1>2. ASSUME NEW m \in Msgs
      PROVE  stuck'[RETRY_PUSH_MSG][m] >= stuck[RETRY_PUSH_MSG][m]
  <2>1. stuck[RETRY_PUSH_MSG][m] \in Nat
    BY QueueNames DEF TypeOK, BrokerTypeOK
  <2>2. QED
    BY <2>1
<1>3. QED
  BY <1>1, <1>2, HeldElsewhere

LEMMA HeldSender ==
    ASSUME TypeOK, TypeOK', Sender, UNCHANGED SenderRest
    PROVE  HeldStays
<1>1. UNCHANGED <<handler, acked>>
  BY DEF SenderRest, consumerVars, history
<1>2. UNCHANGED stuck /\ (UNCHANGED ready \/ \E q \in Queues, k \in Msgs : ready' = Plus(ready, q, k))
  <2>1. ASSUME NEW m \in Msgs, SendMsgInsert(m)
        PROVE  UNCHANGED <<stuck, ready>>
    BY <2>1 DEF SendMsgInsert, brokerVars
  <2>2. ASSUME NEW m \in Msgs, SendMsgPublish(m) \/ ForeignPublish(m)
        PROVE  UNCHANGED stuck /\ (UNCHANGED ready \/ ready' = Plus(ready, PUSH_MSG, m))
    BY <2>2 DEF SendMsgPublish, ForeignPublish, Publish, PublishThrows, Enqueue, brokerVars
  <2>3. ASSUME NEW t \in Confirmers, Callback(t)
        PROVE  UNCHANGED stuck /\ (UNCHANGED ready \/ \E q \in Queues, k \in Msgs : ready' = Plus(ready, q, k))
    <3>1. CASE ConfirmRepublish(t)
      <4>1. callback[t].msg \in Msgs
        BY <3>1, CallbackBusy DEF ConfirmRepublish, Callbacks, TypeOK
      <4>2. \E q \in Queues : Publish(q, callback[t].msg) \/ PublishThrows
        BY <3>1, QueueNames DEF ConfirmRepublish
      <4>3. QED
        BY <4>1, <4>2 DEF Publish, PublishThrows, Enqueue, brokerVars
    <3>2. QED
      BY <2>3, <3>1 DEF Callback, ConfirmSelect, ConfirmUpdate, brokerVars
  <2>4. QED
    BY <2>1, <2>2, <2>3, QueueNames DEF Sender
<1>3. QED
  BY <1>1, <1>2, HeldPublish

\* The listener of push_msg, the fail listener and the scan task.
LEMMA HeldProcess ==
    ASSUME TypeOK, TypeOK', Process \/ Fail \/ Task
    PROVE  HeldStays
<1>q. handler \in [Queues -> {Idle} \cup Handlers] /\ acked \in [Queues -> SUBSET Msgs]
  BY DEF TypeOK, ConsumerTypeOK
<1>n. RETRY_PUSH_MSG \in Queues \ {PUSH_MSG, FAIL_PUSH_MSG}
  BY DEF Queues, PUSH_MSG, RETRY_PUSH_MSG, FAIL_PUSH_MSG
<1>1. acked'[RETRY_PUSH_MSG] = acked[RETRY_PUSH_MSG]
  BY <1>q, <1>n
  DEF Process, ProcessReject, ProcessSelect, ProcessPush, ProcessMarkSuccess, Push, MarkSuccess,
      ProcessResend, ProcessResendThrows, ProcessMarkFail, ProcessMarkFailThrows, ProcessAck,
      Acknowledge, Fail, FailAck, Task, ScanSelect, ScanPublish, consumerVars, history
<1>2. handler'[RETRY_PUSH_MSG] = handler[RETRY_PUSH_MSG]
  <2>1. (\E job : handler' = [handler EXCEPT ![PUSH_MSG] = job]) \/ handler' = handler
    BY DEF Process, ProcessReject, ProcessSelect, ProcessPush, ProcessMarkSuccess, Push, MarkSuccess,
           ProcessResend, ProcessResendThrows, ProcessMarkFail, ProcessMarkFailThrows, ProcessAck,
           Begin, Goto, Acknowledge, Abandon, Finish,
           Fail, FailAck, Task, ScanSelect, ScanPublish, consumerVars
  <2>2. QED
    BY <1>q, <1>n, <2>1
<1>3. CASE ProcessResendThrows \/ ProcessMarkFailThrows
  <2>1. UNCHANGED ready /\ stuck'[RETRY_PUSH_MSG] = stuck[RETRY_PUSH_MSG]
    BY <1>n, <1>3
    DEF ProcessResendThrows, ProcessMarkFailThrows, Abandon, Plus, TypeOK, BrokerTypeOK
  <2>2. \A m \in Msgs : ready[RETRY_PUSH_MSG][m] \in Nat /\ stuck[RETRY_PUSH_MSG][m] \in Nat
    BY <1>n DEF TypeOK, BrokerTypeOK
  <2>3. QED
    BY <1>1, <1>2, <2>1, <2>2, HeldElsewhere
<1>4. CASE UNCHANGED <<stuck, ready>>
  BY <1>1, <1>2, <1>4, HeldPublish
<1>5. ASSUME NEW k \in Msgs, ProcessReject(k) \/ ProcessSelect(k) \/ FailAck(k)
      PROVE  HeldStays
  <2>1. UNCHANGED stuck /\ \E q \in Queues \ {RETRY_PUSH_MSG} : ready' = Minus(ready, q, k)
    BY <1>n, <1>5, QueueNames DEF ProcessReject, ProcessSelect, FailAck, Deliver
  <2>2. QED
    BY <1>1, <1>2, <2>1, HeldPublish
<1>6. CASE ProcessResend
  <2>1. handler[PUSH_MSG].msg \in Msgs
    BY <1>6, QueueNames, HandlerBusy DEF ProcessResend, Stages, TypeOK, Handlers
  <2>2. UNCHANGED stuck /\ (UNCHANGED ready \/ ready' = Plus(ready, RETRY_PUSH_MSG, handler[PUSH_MSG].msg))
    BY <1>6 DEF ProcessResend, Publish, Enqueue
  <2>3. QED
    BY <1>n, <1>1, <1>2, <2>1, <2>2, HeldPublish
<1>7. ASSUME NEW m \in Msgs, ScanPublish(m)
      PROVE  HeldStays
  <2>1. UNCHANGED stuck /\ (UNCHANGED ready \/ ready' = Plus(ready, RETRY_PUSH_MSG, m))
    BY <1>7 DEF ScanPublish, Publish, PublishThrows, Enqueue, brokerVars
  <2>2. QED
    BY <1>n, <1>1, <1>2, <2>1, HeldPublish
<1>8. CASE ProcessPush \/ ProcessMarkSuccess \/ ProcessMarkFail \/ ProcessAck \/ ScanSelect
  BY <1>4, <1>8
  DEF ProcessPush, ProcessMarkSuccess, Push, MarkSuccess, ProcessMarkFail, ProcessAck, ScanSelect,
      brokerVars
<1>9. QED
  BY <1>3, <1>5, <1>6, <1>7, <1>8 DEF Process, Fail, Task

\* processRetry keeps the copy it works on, until it acknowledges it.
LEMMA HeldRetry ==
    ASSUME TypeOK, TypeOK', Retry
    PROVE  HeldStays
<1>q. /\ RETRY_PUSH_MSG \in Queues /\ handler \in [Queues -> {Idle} \cup Handlers]
      /\ acked \in [Queues -> SUBSET Msgs]
  BY QueueNames DEF TypeOK, ConsumerTypeOK
<1>1. SUFFICES ASSUME NEW m \in Msgs PROVE Held(m) => Held(m)'
  BY DEF HeldStays
<1>2. /\ ready[RETRY_PUSH_MSG][m] \in Nat /\ stuck[RETRY_PUSH_MSG][m] \in Nat
      /\ ready'[RETRY_PUSH_MSG][m] \in Nat
      /\ InHand(RETRY_PUSH_MSG, m) \in {0, 1} /\ InHand(RETRY_PUSH_MSG, m)' \in {0, 1}
  BY <1>q DEF TypeOK, BrokerTypeOK, InHand
<1>3. UNCHANGED stuck
  BY DEF Retry, RetrySelect, RetryPush, RetryMarkSuccess, Push, MarkSuccess, RetryAck, RetryNack, brokerVars
<1>4. ASSUME acked[RETRY_PUSH_MSG] \subseteq acked'[RETRY_PUSH_MSG],
             \/ m \in acked'[RETRY_PUSH_MSG]
             \/ ready'[RETRY_PUSH_MSG][m] + InHand(RETRY_PUSH_MSG, m)'
                    >= ready[RETRY_PUSH_MSG][m] + InHand(RETRY_PUSH_MSG, m)
      PROVE  Held(m) => Held(m)'
  BY <1>2, <1>3, <1>4 DEF Held, Copies
<1>5. ASSUME NEW k \in Msgs, RetrySelect(k)
      PROVE  Held(m) => Held(m)'
  <2>1. /\ ready'[RETRY_PUSH_MSG][m] = IF m = k THEN ready[RETRY_PUSH_MSG][m] - 1 ELSE ready[RETRY_PUSH_MSG][m]
        /\ acked' = acked
    BY <1>5, <1>q DEF RetrySelect, Deliver, Minus, history, TypeOK, BrokerTypeOK
  <2>2. /\ handler[RETRY_PUSH_MSG] = Idle
        /\ handler'[RETRY_PUSH_MSG] = Job(RetryEntry(k), k, failNum[k], TRUE)
    BY <1>5, <1>q DEF RetrySelect, Begin
  <2>3. Job(RetryEntry(k), k, failNum[k], TRUE) # Idle
    BY DEF Job, RetryEntry, Idle
  <2>4. InHand(RETRY_PUSH_MSG, m) = 0 /\ InHand(RETRY_PUSH_MSG, m)' = IF m = k THEN 1 ELSE 0
    BY <2>2, <2>3 DEF InHand, Job
  <2>5. QED
    BY <1>2, <1>4, <2>1, <2>4
<1>6. CASE RetryPush \/ RetryMarkSuccess
  <2>1. handler[RETRY_PUSH_MSG] \in Handlers
    BY <1>q, <1>6, HandlerBusy DEF RetryPush, RetryMarkSuccess, Push, MarkSuccess, Stages, TypeOK
  <2>2. /\ ready' = ready /\ acked' = acked
        /\ \E stage \in Stages : Goto(RETRY_PUSH_MSG, stage)
    BY <1>6 DEF RetryPush, RetryMarkSuccess, Push, MarkSuccess, Stages, brokerVars, history
  <2>3. /\ handler'[RETRY_PUSH_MSG].msg = handler[RETRY_PUSH_MSG].msg
        /\ handler'[RETRY_PUSH_MSG].live = handler[RETRY_PUSH_MSG].live
        /\ handler'[RETRY_PUSH_MSG].at \in Stages
    BY <1>q, <2>2 DEF Goto, Job
  <2>4. InHand(RETRY_PUSH_MSG, m)' = InHand(RETRY_PUSH_MSG, m)
    BY <2>1, <2>3 DEF InHand, Handlers, Stages, Idle
  <2>5. QED
    BY <1>2, <1>4, <2>2, <2>4
<1>7. CASE RetryAck
  <2>1. handler[RETRY_PUSH_MSG] # Idle /\ handler'[RETRY_PUSH_MSG] = Idle /\ ready' = ready
    BY <1>q, <1>7 DEF RetryAck, Acknowledge, Finish, Idle, brokerVars
  <2>2. CASE handler[RETRY_PUSH_MSG].live /\ handler[RETRY_PUSH_MSG].msg = m
    BY <1>q, <1>4, <1>7, <2>2 DEF RetryAck, Acknowledge
  <2>3. CASE ~(handler[RETRY_PUSH_MSG].live /\ handler[RETRY_PUSH_MSG].msg = m)
    <3>1. InHand(RETRY_PUSH_MSG, m) = 0
      BY <2>3 DEF InHand
    <3>2. acked[RETRY_PUSH_MSG] \subseteq acked'[RETRY_PUSH_MSG]
      BY <1>q, <1>7 DEF RetryAck, Acknowledge
    <3>3. QED
      BY <1>2, <1>4, <2>1, <3>1, <3>2
  <2>4. QED
    BY <2>2, <2>3
<1>8. CASE RetryNack
  <2>1. acked' = acked
    BY <1>8 DEF RetryNack
  <2>2. CASE handler[RETRY_PUSH_MSG].live /\ handler[RETRY_PUSH_MSG].msg = m
    <3>1. ready'[RETRY_PUSH_MSG][m] = ready[RETRY_PUSH_MSG][m] + 1
      BY <1>q, <1>8, <2>2 DEF RetryNack, Enqueue, DeadLetterQueue, Plus, TypeOK, BrokerTypeOK
    <3>2. QED
      BY <1>2, <1>4, <2>1, <3>1
  <2>3. CASE ~(handler[RETRY_PUSH_MSG].live /\ handler[RETRY_PUSH_MSG].msg = m)
    <3>1. InHand(RETRY_PUSH_MSG, m) = 0
      BY <2>3 DEF InHand
    <3>2. ready'[RETRY_PUSH_MSG][m] >= ready[RETRY_PUSH_MSG][m]
      <4>1. CASE handler[RETRY_PUSH_MSG].live
        BY <1>q, <1>2, <1>8, <4>1, <2>3
        DEF RetryNack, Enqueue, DeadLetterQueue, Plus, TypeOK, BrokerTypeOK
      <4>2. CASE ~handler[RETRY_PUSH_MSG].live
        BY <1>2, <1>8, <4>2 DEF RetryNack
      <4>3. QED
        BY <4>1, <4>2
    <3>3. QED
      BY <1>2, <1>4, <2>1, <3>1, <3>2
  <2>4. QED
    BY <2>2, <2>3
<1>9. QED
  BY <1>5, <1>6, <1>7, <1>8 DEF Retry

\* A row that could not be read leaves the copy unacknowledged; a lost channel
\* and a crash put it back into the queue.
LEMMA HeldRest ==
    ASSUME TypeOK, TypeOK', Disturbed \/ Crash \/ \E q \in Consumed : ChannelLost(q)
    PROVE  HeldStays
<1>q. RETRY_PUSH_MSG \in Queues /\ UNCHANGED acked
  BY QueueNames DEF Disturbed, TimePasses, SelectThrows, Crash, ChannelLost, consumerVars, history
<1>1. \A m \in Msgs : /\ ready[RETRY_PUSH_MSG][m] \in Nat /\ stuck[RETRY_PUSH_MSG][m] \in Nat
                      /\ Copies(RETRY_PUSH_MSG, m) \in Nat
  BY <1>q, CopiesType DEF TypeOK, BrokerTypeOK
<1>2. ASSUME NEW m \in Msgs, TimePasses(m)
      PROVE  HeldStays
  BY <1>q, <1>2, HeldPublish DEF TimePasses, brokerVars
<1>3. ASSUME NEW q \in Consumed, NEW k \in Msgs, SelectThrows(q, k)
      PROVE  HeldStays
  <2>1. UNCHANGED handler /\ ready' = Minus(ready, q, k) /\ stuck' = Plus(stuck, q, k)
    BY <1>3 DEF SelectThrows, Deliver, consumerVars
  <2>2. SUFFICES ASSUME NEW m \in Msgs PROVE Copies(RETRY_PUSH_MSG, m)' = Copies(RETRY_PUSH_MSG, m)
    BY <1>q DEF HeldStays, Held
  <2>3. InHand(RETRY_PUSH_MSG, m)' = InHand(RETRY_PUSH_MSG, m) /\ InHand(RETRY_PUSH_MSG, m) \in {0, 1}
    BY <2>1 DEF InHand
  <2>4. ready \in [Queues -> [Msgs -> Nat]] /\ stuck \in [Queues -> [Msgs -> Nat]] /\ q \in Queues
    BY DEF TypeOK, BrokerTypeOK, Consumed, Queues
  <2>5. CASE q = RETRY_PUSH_MSG /\ k = m
    <3>1. /\ ready'[RETRY_PUSH_MSG][m] = ready[RETRY_PUSH_MSG][m] - 1
          /\ stuck'[RETRY_PUSH_MSG][m] = stuck[RETRY_PUSH_MSG][m] + 1
      BY <2>1, <2>4, <2>5 DEF Minus, Plus
    <3>2. ready[RETRY_PUSH_MSG][m] \in Nat /\ stuck[RETRY_PUSH_MSG][m] \in Nat
      BY <1>1
    <3>3. QED
      BY <2>3, <3>1, <3>2 DEF Copies
  <2>6. CASE ~(q = RETRY_PUSH_MSG /\ k = m)
    <3>1. /\ ready'[RETRY_PUSH_MSG][m] = ready[RETRY_PUSH_MSG][m]
          /\ stuck'[RETRY_PUSH_MSG][m] = stuck[RETRY_PUSH_MSG][m]
      BY <1>q, <2>1, <2>4, <2>6 DEF Minus, Plus
    <3>2. QED
      BY <2>3, <3>1 DEF Copies
  <2>7. QED
    BY <2>5, <2>6
<1>4. ASSUME ready'[RETRY_PUSH_MSG] = [m \in Msgs |-> Copies(RETRY_PUSH_MSG, m)]
      PROVE  HeldStays
  <2>1. SUFFICES ASSUME NEW m \in Msgs, Copies(RETRY_PUSH_MSG, m) > 0
                 PROVE  Copies(RETRY_PUSH_MSG, m)' > 0
    BY <1>q DEF HeldStays, Held
  <2>2. ready'[RETRY_PUSH_MSG][m] > 0 /\ ready'[RETRY_PUSH_MSG][m] \in Nat
    BY <1>1, <1>4, <2>1
  <2>3. stuck'[RETRY_PUSH_MSG][m] \in Nat /\ InHand(RETRY_PUSH_MSG, m)' \in {0, 1}
    BY <1>q DEF TypeOK, BrokerTypeOK, InHand
  <2>4. QED
    BY <2>2, <2>3 DEF Copies
<1>5. CASE Crash
  BY <1>q, <1>4, <1>5 DEF Crash
<1>6. ASSUME NEW q \in Consumed, ChannelLost(q)
      PROVE  HeldStays
  <2>1. CASE q = RETRY_PUSH_MSG
    BY <1>q, <1>4, <1>6, <2>1 DEF ChannelLost, TypeOK, BrokerTypeOK
  <2>2. CASE q # RETRY_PUSH_MSG
    <3>1. /\ ready'[RETRY_PUSH_MSG] = ready[RETRY_PUSH_MSG]
          /\ stuck'[RETRY_PUSH_MSG] = stuck[RETRY_PUSH_MSG]
          /\ handler'[RETRY_PUSH_MSG] = handler[RETRY_PUSH_MSG]
      BY <1>q, <1>6, <2>2 DEF ChannelLost, TypeOK, BrokerTypeOK, ConsumerTypeOK
    <3>2. QED
      BY <1>q, <1>1, <3>1, HeldElsewhere
  <2>3. QED
    BY <2>1, <2>2
<1>7. QED
  BY <1>2, <1>3, <1>5, <1>6 DEF Disturbed

LEMMA HeldNext ==
    ASSUME TypeOK, TypeOK', [Next]_vars
    PROVE  HeldStays
<1>1. CASE UNCHANGED vars
  BY <1>1, HeldPublish DEF vars, brokerVars, consumerVars, history
<1>2. QED
  BY <1>1, HeldSender, HeldProcess, HeldRetry, HeldRest DEF Next

\* process hands a message over by a publish to the retry queue.
LEMMA HandedAdds ==
    ASSUME TypeOK, TypeOK', [Next]_vars, nacksLeft' = nacksLeft
    PROVE  \A m \in handed' : m \in handed \/ Held(m)'
<1>1. CASE ProcessResend
  <2>1. PICK k \in Msgs : k = handler[PUSH_MSG].msg
    BY <1>1, QueueNames, HandlerBusy DEF ProcessResend, Stages, TypeOK, Handlers
  <2>2. handed' = handed \cup {k} /\ Publish(RETRY_PUSH_MSG, k)
    BY <1>1, <2>1 DEF ProcessResend
  <2>3. ~Nack(k)
    BY DEF Nack, TypeOK, BrokerTypeOK
  <2>4. ready'[RETRY_PUSH_MSG][k] = ready[RETRY_PUSH_MSG][k] + 1 /\ stuck' = stuck
    BY <2>2, <2>3, QueueNames DEF Publish, Enqueue, Plus, TypeOK, BrokerTypeOK
  <2>5. /\ ready[RETRY_PUSH_MSG][k] \in Nat /\ stuck'[RETRY_PUSH_MSG][k] \in Nat
        /\ InHand(RETRY_PUSH_MSG, k)' \in {0, 1}
    BY QueueNames DEF TypeOK, BrokerTypeOK, InHand
  <2>6. Held(k)'
    BY <2>4, <2>5 DEF Held, Copies
  <2>7. QED
    BY <2>2, <2>6
<1>2. CASE UNCHANGED handed
  BY <1>2
<1>3. CASE Sender /\ UNCHANGED SenderRest
  BY <1>2, <1>3 DEF SenderRest, consumerVars, history
<1>4. CASE (Process /\ ~ProcessResend) \/ Retry
  BY <1>2, <1>4
  DEF Process, ProcessReject, ProcessSelect, ProcessPush, Push, ProcessMarkSuccess, MarkSuccess,
      ProcessResendThrows, ProcessMarkFail, ProcessMarkFailThrows, ProcessAck,
      Retry, RetrySelect, RetryPush, RetryMarkSuccess, RetryAck, RetryNack, history
<1>5. CASE Fail \/ Disturbed \/ Task
  BY <1>2, <1>5
  DEF Fail, FailAck, Disturbed, TimePasses, SelectThrows, Task, ScanSelect, ScanPublish,
      consumerVars, history
<1>6. CASE Crash \/ (\E q \in Consumed : ChannelLost(q)) \/ UNCHANGED vars
  BY <1>2, <1>6 DEF Crash, ChannelLost, vars, consumerVars, history
<1>7. QED
  BY <1>1, <1>3, <1>4, <1>5, <1>6 DEF Next

LEMMA HandedNext ==
    ASSUME TypeOK, TypeOK', HandedInv, [Next]_vars
    PROVE  HandedInv'
<1>1. SUFFICES ASSUME nacksLeft' = MaxNacks, NEW m \in handed'
               PROVE  pushes'[m] > 0 \/ Held(m)'
  BY DEF HandedInv
<1>2. nacksLeft = MaxNacks
  BY <1>1, StepBounds, BrokerAssumption DEF NacksOnly, Nack, TypeOK, BrokerTypeOK
<1>3. m \in handed \/ Held(m)'
  BY <1>1, <1>2, HandedAdds
<1>4. m \in Msgs
  BY DEF TypeOK, ConsumerTypeOK
<1>5. QED
  BY <1>2, <1>3, <1>4, HeldNext, DoneStays DEF HandedInv, HeldStays

LEMMA HandedInductive == Spec => []HandedInv
<1>1. Init => HandedInv
  BY DEF Init, ConsumerInit, HandedInv
<1>2. TypeOK /\ TypeOK' /\ HandedInv /\ [Next]_vars => HandedInv'
  BY HandedNext
<1>3. QED
  BY <1>1, <1>2, TypeCorrect, PTL DEF Spec

\* What process acknowledges is pushed, or a copy of it is in the retry queue
\* until processRetry acknowledges that one, unless a publish was nacked.
THEOREM AckCorrect == Spec => []AckLeavesACopy
<1>1. ConsumptionInv /\ HandedInv => AckLeavesACopy
  BY DEF ConsumptionInv, AcksSettled, HandedInv, Held, AckLeavesACopy
<1>2. QED
  BY <1>1, ConsumptionInductive, HandedInductive, PTL

================================================================================
