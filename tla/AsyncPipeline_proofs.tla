------------------------- MODULE AsyncPipeline_proofs --------------------------
(***************************************************************************)
(* Proofs about the asynchronous pipeline, for any number of messages,      *)
(* confirm threads, faults, nacks, crashes and scans.                       *)
(***************************************************************************)
EXTENDS AsyncPipeline, TLAPS

\* The parts of the type invariant that belong to the pipeline's own variables.
TaskTypeOK ==
    /\ scan \subseteq Msgs
    /\ scansLeft \in 0..MaxScans
    /\ crashesLeft \in 0..MaxCrashes

\* A call that throws leaves the bound on faults in its range.
LEMMA FaultType ==
    ASSUME TableTypeOK, Fault
    PROVE  faultsLeft' \in 0..MaxFaults
BY FaultsAssumption DEF TableTypeOK, Fault

\* UpdateRow, whoever calls it, keeps the table well-typed.
LEMMA UpdateRowType ==
    ASSUME TableTypeOK, faultsLeft' \in 0..MaxFaults,
           NEW m \in Msgs, NEW s \in Results, NEW n \in Nat, UpdateRow(m, s, n)
    PROVE  TableTypeOK'
<1>1. CASE RowExists(m)
  BY <1>1 DEF TableTypeOK, UpdateRow
<1>2. CASE ~RowExists(m)
  BY <1>2 DEF TableTypeOK, UpdateRow, tableVars
<1>3. QED
  BY <1>1, <1>2

LEMMA UpdateStatusType ==
    ASSUME TableTypeOK, NEW m \in Msgs, NEW s \in Results, NEW n \in Nat,
           UpdateStatus(m, s, n) \/ UpdateStatusThrows(m, s, n)
    PROVE  TableTypeOK'
<1>1. faultsLeft' \in 0..MaxFaults
  BY FaultType DEF TableTypeOK, UpdateStatus, UpdateStatusThrows
<1>2. CASE UpdateRow(m, s, n)
  BY <1>1, <1>2, UpdateRowType
<1>3. CASE UNCHANGED tableVars
  BY <1>1, <1>3 DEF TableTypeOK, tableVars
<1>4. QED
  BY <1>2, <1>3 DEF UpdateStatus, UpdateStatusThrows

\* Publishing keeps the broker well-typed.
LEMMA PublishType ==
    ASSUME BrokerTypeOK, NEW q \in Queues, NEW m \in Msgs, Publish(q, m)
    PROVE  BrokerTypeOK'
<1>1. ready' \in [Queues -> [Msgs -> Nat]]
  BY DEF BrokerTypeOK, Publish, Enqueue, Plus
<1>2. nacked' \in [Msgs -> Nat] /\ nacksLeft' \in 0..MaxNacks
  BY BrokerAssumption DEF BrokerTypeOK, Publish, Nack
<1>3. QED
  BY <1>1, <1>2 DEF BrokerTypeOK, Publish

\* A delivery takes a copy out of a queue that holds one.
LEMMA DeliverType ==
    ASSUME BrokerTypeOK, NEW q \in Queues, NEW m \in Msgs, Deliver(q, m)
    PROVE  ready' \in [Queues -> [Msgs -> Nat]]
BY DEF BrokerTypeOK, Deliver, Minus

\* The number of copies of a message that a queue still owes.
LEMMA CopiesType ==
    ASSUME BrokerTypeOK, NEW q \in Queues, NEW m \in Msgs
    PROVE  Copies(q, m) \in Nat
BY DEF BrokerTypeOK, Copies, InHand

\* A handler that is at some stage holds a message and the failNum it read.
LEMMA HandlerBusy ==
    ASSUME ConsumerTypeOK, NEW q \in Queues, handler[q].at \in Stages
    PROVE  handler[q] \in Handlers
BY DEF ConsumerTypeOK, Idle, Stages

LEMMA CallbackBusy ==
    ASSUME SenderTypeOK, NEW t \in Confirmers, callback[t].at \in {"selected", "republished"}
    PROVE  callback[t] \in Callbacks
BY DEF SenderTypeOK, NoCallback

\* What a listener may do with its own state keeps that state well-typed.
HandlerTypeOK == handler \in [Queues -> {Idle} \cup Handlers]

LEMMA HandlerBegin ==
    ASSUME TableTypeOK, HandlerTypeOK, NEW q \in Queues, NEW m \in Msgs, NEW stage \in Stages,
           Begin(q, m, stage)
    PROVE  HandlerTypeOK'
<1>1. Job(stage, m, failNum[m], TRUE) \in Handlers
  BY DEF Job, Handlers, TableTypeOK
<1>2. QED
  BY <1>1 DEF Begin, HandlerTypeOK

LEMMA HandlerGoto ==
    ASSUME HandlerTypeOK, NEW q \in Queues, NEW stage \in Stages, handler[q] \in Handlers,
           Goto(q, stage)
    PROVE  HandlerTypeOK'
<1>1. Job(stage, handler[q].msg, handler[q].failNum, handler[q].live) \in Handlers
  BY DEF Job, Handlers
<1>2. QED
  BY <1>1 DEF Goto, HandlerTypeOK

LEMMA HandlerFinish ==
    ASSUME HandlerTypeOK, NEW q \in Queues, Finish(q)
    PROVE  HandlerTypeOK'
BY DEF Finish, HandlerTypeOK

LEMMA AbandonType ==
    ASSUME BrokerTypeOK, HandlerTypeOK, NEW q \in Queues, handler[q] \in Handlers, Abandon(q)
    PROVE  HandlerTypeOK' /\ stuck' \in [Queues -> [Msgs -> Nat]]
BY HandlerFinish DEF Abandon, Plus, BrokerTypeOK, Handlers

LEMMA AcknowledgeType ==
    ASSUME ConsumerTypeOK, NEW q \in Queues, handler[q] \in Handlers, Acknowledge(q)
    PROVE  HandlerTypeOK' /\ acked' \in [Queues -> SUBSET Msgs]
<1>1. HandlerTypeOK
  BY DEF ConsumerTypeOK, HandlerTypeOK
<1>2. acked' \in [Queues -> SUBSET Msgs]
  BY DEF ConsumerTypeOK, Acknowledge, Handlers
<1>3. QED
  BY <1>1, <1>2, HandlerFinish DEF Acknowledge

--------------------------------------------------------------------------------
(* Type correctness *)

LEMMA TypeInit ==
    ASSUME Init
    PROVE  TypeOK
<1>1. TableTypeOK
  BY FaultsAssumption DEF Init, TableInit, TableTypeOK
<1>2. BrokerTypeOK
  BY BrokerAssumption DEF Init, BrokerInit, BrokerTypeOK, Empty
<1>3. SenderTypeOK
  BY DEF Init, SenderInit, SenderTypeOK
<1>4. ConsumerTypeOK
  BY DEF Init, ConsumerInit, ConsumerTypeOK
<1>5. QED
  BY <1>1, <1>2, <1>3, <1>4, PipelineAssumption DEF Init, TypeOK

\* The request threads and the confirm callbacks keep the types.
LEMMA TypeSender ==
    ASSUME TypeOK, Sender, UNCHANGED SenderRest
    PROVE  TypeOK'
<1> USE DEF TypeOK
<1>1. ConsumerTypeOK'
  BY DEF SenderRest, consumerVars, history, ConsumerTypeOK
<1>2. /\ scan' \subseteq Msgs
      /\ scansLeft' \in 0..MaxScans
      /\ crashesLeft' \in 0..MaxCrashes
  BY DEF SenderRest, taskVars
<1>3. ASSUME NEW m \in Msgs, SendMsgInsert(m)
      PROVE  TableTypeOK' /\ BrokerTypeOK' /\ SenderTypeOK'
  <2>1. TableTypeOK'
    BY <1>3, FaultType DEF SendMsgInsert, Insert, TableTypeOK, tableVars, Results
  <2>2. BrokerTypeOK' /\ SenderTypeOK'
    BY <1>3 DEF SendMsgInsert, brokerVars, BrokerTypeOK, SenderTypeOK
  <2>3. QED
    BY <2>1, <2>2
<1>4. ASSUME NEW m \in Msgs, SendMsgPublish(m)
      PROVE  TableTypeOK' /\ BrokerTypeOK' /\ SenderTypeOK'
  <2>1. TableTypeOK'
    BY <1>4, FaultType DEF SendMsgPublish, Publish, PublishThrows, TableTypeOK, tableVars
  <2>2. BrokerTypeOK'
    BY <1>4, PublishType DEF SendMsgPublish, PublishThrows, brokerVars, BrokerTypeOK, Queues
  <2>3. SenderTypeOK'
    BY <1>4 DEF SendMsgPublish, SenderTypeOK
  <2>4. QED
    BY <2>1, <2>2, <2>3
<1>5. ASSUME NEW m \in Msgs, ForeignPublish(m)
      PROVE  TableTypeOK' /\ BrokerTypeOK' /\ SenderTypeOK'
  BY <1>5 DEF ForeignPublish, Enqueue, Plus, Queues, tableVars, TableTypeOK, BrokerTypeOK, SenderTypeOK
<1>6. ASSUME NEW t \in Confirmers, NEW m \in Msgs, ConfirmSelect(t, m)
      PROVE  TableTypeOK' /\ BrokerTypeOK' /\ SenderTypeOK'
  <2>1. TableTypeOK'
    BY <1>6, FaultType DEF ConfirmSelect, TableTypeOK, tableVars
  <2>2. BrokerTypeOK'
    BY <1>6 DEF ConfirmSelect, BrokerTypeOK
  <2>3. Reading("selected", m, failNum[m]) \in Callbacks
    BY DEF Reading, Callbacks, TableTypeOK
  <2>4. SenderTypeOK'
    BY <1>6, <2>3 DEF ConfirmSelect, SenderTypeOK
  <2>5. QED
    BY <2>1, <2>2, <2>4
<1>7. ASSUME NEW t \in Confirmers, ConfirmRepublish(t)
      PROVE  TableTypeOK' /\ BrokerTypeOK' /\ SenderTypeOK'
  <2>1. callback[t] \in Callbacks
    BY <1>7, CallbackBusy DEF ConfirmRepublish
  <2>2. TableTypeOK'
    BY <1>7, FaultType DEF ConfirmRepublish, Publish, PublishThrows, TableTypeOK, tableVars
  <2>3. BrokerTypeOK'
    BY <1>7, <2>1, PublishType
    DEF ConfirmRepublish, PublishThrows, brokerVars, BrokerTypeOK, Queues, Callbacks
  <2>4. SenderTypeOK'
    BY <1>7, <2>1 DEF ConfirmRepublish, SenderTypeOK, Callbacks, Reading
  <2>5. QED
    BY <2>2, <2>3, <2>4
<1>8. ASSUME NEW t \in Confirmers, ConfirmUpdate(t)
      PROVE  TableTypeOK' /\ BrokerTypeOK' /\ SenderTypeOK'
  <2>1. callback[t] \in Callbacks
    BY <1>8, CallbackBusy DEF ConfirmUpdate
  <2>2. TableTypeOK'
    BY <1>8, <2>1, UpdateStatusType DEF ConfirmUpdate, Callbacks, Results, Failed
  <2>3. BrokerTypeOK' /\ SenderTypeOK'
    BY <1>8 DEF ConfirmUpdate, brokerVars, BrokerTypeOK, SenderTypeOK
  <2>4. QED
    BY <2>2, <2>3
<1>9. QED
  BY <1>1, <1>2, <1>3, <1>4, <1>5, <1>6, <1>7, <1>8 DEF Sender, Callback

\* The listeners of push_msg and retry_push_msg share the push and the update
\* to SUCCESS.
LEMMA TypePush ==
    ASSUME TypeOK, NEW q \in Queues, NEW onError \in Stages, Push(q, onError)
    PROVE  TableTypeOK' /\ BrokerTypeOK' /\ SenderTypeOK' /\ ConsumerTypeOK'
<1> USE DEF TypeOK
<1>1. handler[q] \in Handlers
  BY HandlerBusy DEF Push, Stages
<1>2. HandlerTypeOK'
  BY <1>1, HandlerGoto DEF Push, Stages, HandlerTypeOK, ConsumerTypeOK
<1>3. pushes' \in [Msgs -> Nat]
  BY <1>1 DEF Push, ConsumerTypeOK, Handlers
<1>4. ConsumerTypeOK'
  BY <1>2, <1>3 DEF Push, ConsumerTypeOK, HandlerTypeOK
<1>5. TableTypeOK'
  BY FaultType DEF Push, TableTypeOK, tableVars
<1>6. BrokerTypeOK' /\ SenderTypeOK'
  BY DEF Push, BrokerTypeOK, SenderTypeOK, brokerVars, senderVars
<1>7. QED
  BY <1>4, <1>5, <1>6

LEMMA TypeMarkSuccess ==
    ASSUME TypeOK, NEW q \in Queues, NEW onError \in Stages, MarkSuccess(q, onError)
    PROVE  TableTypeOK' /\ BrokerTypeOK' /\ SenderTypeOK' /\ ConsumerTypeOK'
<1> USE DEF TypeOK
<1>1. handler[q] \in Handlers
  BY HandlerBusy DEF MarkSuccess, Stages
<1>2. HandlerTypeOK'
  BY <1>1, HandlerGoto DEF MarkSuccess, Stages, HandlerTypeOK, ConsumerTypeOK
<1>3. ConsumerTypeOK'
  BY <1>2 DEF MarkSuccess, ConsumerTypeOK, HandlerTypeOK, history
<1>4. TableTypeOK'
  BY <1>1, UpdateStatusType DEF MarkSuccess, Handlers, Results
<1>5. BrokerTypeOK' /\ SenderTypeOK'
  BY DEF MarkSuccess, BrokerTypeOK, SenderTypeOK, brokerVars, senderVars
<1>6. QED
  BY <1>3, <1>4, <1>5

\* The listener of push_msg keeps the types.
LEMMA TypeProcess ==
    ASSUME TypeOK, Process
    PROVE  TableTypeOK' /\ BrokerTypeOK' /\ SenderTypeOK' /\ ConsumerTypeOK'
<1> USE DEF TypeOK
<1> DEFINE Goal == TableTypeOK' /\ BrokerTypeOK' /\ SenderTypeOK' /\ ConsumerTypeOK'
<1>q. PUSH_MSG \in Queues /\ RETRY_PUSH_MSG \in Queues
  BY DEF Queues
<1>h. HandlerTypeOK
  BY DEF ConsumerTypeOK, HandlerTypeOK
<1>1. ASSUME NEW m \in Msgs, ProcessReject(m)
      PROVE  Goal
  <2>1. ready' \in [Queues -> [Msgs -> Nat]]
    BY <1>1, <1>q, DeliverType DEF ProcessReject
  <2>2. QED
    BY <1>1, <2>1
    DEF ProcessReject, tableVars, senderVars, TableTypeOK, BrokerTypeOK, SenderTypeOK, ConsumerTypeOK
<1>2. ASSUME NEW m \in Msgs, ProcessSelect(m)
      PROVE  Goal
  <2>1. ready' \in [Queues -> [Msgs -> Nat]]
    BY <1>2, <1>q, DeliverType DEF ProcessSelect
  <2>2. HandlerTypeOK'
    BY <1>2, <1>q, <1>h, HandlerBegin DEF ProcessSelect, ProcessEntry, Stages
  <2>3. QED
    BY <1>2, <2>1, <2>2
    DEF ProcessSelect, HandlerTypeOK, history, tableVars, senderVars,
        TableTypeOK, BrokerTypeOK, SenderTypeOK, ConsumerTypeOK
<1>3. ASSUME ProcessPush
      PROVE  Goal
  BY <1>3, <1>q, TypePush DEF ProcessPush, Stages
<1>4. ASSUME ProcessMarkSuccess
      PROVE  Goal
  BY <1>4, <1>q, TypeMarkSuccess DEF ProcessMarkSuccess, Stages
<1>5. ASSUME ProcessResend
      PROVE  Goal
  <2>1. handler[PUSH_MSG] \in Handlers
    BY <1>5, <1>q, HandlerBusy DEF ProcessResend, Stages
  <2>2. HandlerTypeOK'
    BY <1>5, <1>q, <1>h, <2>1, HandlerGoto DEF ProcessResend, Stages
  <2>3. BrokerTypeOK' /\ handler[PUSH_MSG].msg \in Msgs
    BY <1>5, <1>q, <2>1, PublishType DEF ProcessResend, Handlers
  <2>4. QED
    BY <1>5, <2>2, <2>3
    DEF ProcessResend, HandlerTypeOK, Publish, tableVars, senderVars,
        TableTypeOK, SenderTypeOK, ConsumerTypeOK
<1>6. ASSUME ProcessResendThrows
      PROVE  Goal
  <2>1. handler[PUSH_MSG] \in Handlers
    BY <1>6, <1>q, HandlerBusy DEF ProcessResendThrows, Stages
  <2>2. HandlerTypeOK' /\ stuck' \in [Queues -> [Msgs -> Nat]]
    BY <1>6, <1>q, <1>h, <2>1, AbandonType DEF ProcessResendThrows
  <2>3. QED
    BY <1>6, <2>2, FaultType
    DEF ProcessResendThrows, HandlerTypeOK, history, tableVars, senderVars,
        TableTypeOK, BrokerTypeOK, SenderTypeOK, ConsumerTypeOK
<1>7. ASSUME ProcessMarkFail
      PROVE  Goal
  <2>1. handler[PUSH_MSG] \in Handlers
    BY <1>7, <1>q, HandlerBusy DEF ProcessMarkFail, Stages
  <2>2. HandlerTypeOK'
    BY <1>7, <1>q, <1>h, <2>1, HandlerGoto DEF ProcessMarkFail, Stages
  <2>3. TableTypeOK'
    BY <1>7, <2>1, UpdateStatusType DEF ProcessMarkFail, Handlers, Results, Failed
  <2>4. QED
    BY <1>7, <2>2, <2>3
    DEF ProcessMarkFail, HandlerTypeOK, history, brokerVars, senderVars,
        BrokerTypeOK, SenderTypeOK, ConsumerTypeOK
<1>8. ASSUME ProcessMarkFailThrows
      PROVE  Goal
  <2>1. handler[PUSH_MSG] \in Handlers
    BY <1>8, <1>q, HandlerBusy DEF ProcessMarkFailThrows, Stages
  <2>2. HandlerTypeOK' /\ stuck' \in [Queues -> [Msgs -> Nat]]
    BY <1>8, <1>q, <1>h, <2>1, AbandonType DEF ProcessMarkFailThrows
  <2>3. TableTypeOK'
    BY <1>8, <2>1, UpdateStatusType DEF ProcessMarkFailThrows, Handlers, Results, Failed
  <2>4. QED
    BY <1>8, <2>2, <2>3
    DEF ProcessMarkFailThrows, HandlerTypeOK, history, senderVars,
        BrokerTypeOK, SenderTypeOK, ConsumerTypeOK
<1>9. ASSUME ProcessAck
      PROVE  Goal
  <2>1. handler[PUSH_MSG] \in Handlers
    BY <1>9, <1>q, HandlerBusy DEF ProcessAck, Stages
  <2>2. HandlerTypeOK' /\ acked' \in [Queues -> SUBSET Msgs]
    BY <1>9, <1>q, <2>1, AcknowledgeType DEF ProcessAck
  <2>3. QED
    BY <1>9, <2>2
    DEF ProcessAck, HandlerTypeOK, tableVars, brokerVars, senderVars,
        TableTypeOK, BrokerTypeOK, SenderTypeOK, ConsumerTypeOK
<1>10. QED
  BY <1>1, <1>2, <1>3, <1>4, <1>5, <1>6, <1>7, <1>8, <1>9 DEF Process

\* The listener of retry_push_msg keeps the types.
LEMMA TypeRetry ==
    ASSUME TypeOK, Retry
    PROVE  TableTypeOK' /\ BrokerTypeOK' /\ SenderTypeOK' /\ ConsumerTypeOK'
<1> USE DEF TypeOK
<1> DEFINE Goal == TableTypeOK' /\ BrokerTypeOK' /\ SenderTypeOK' /\ ConsumerTypeOK'
<1>q. RETRY_PUSH_MSG \in Queues /\ DeadLetterQueue \in Queues
  BY DEF Queues, DeadLetterQueue
<1>h. HandlerTypeOK
  BY DEF ConsumerTypeOK, HandlerTypeOK
<1>1. ASSUME NEW m \in Msgs, RetrySelect(m)
      PROVE  Goal
  <2>1. ready' \in [Queues -> [Msgs -> Nat]]
    BY <1>1, <1>q, DeliverType DEF RetrySelect
  <2>2. HandlerTypeOK'
    BY <1>1, <1>q, <1>h, HandlerBegin DEF RetrySelect, RetryEntry, Stages
  <2>3. QED
    BY <1>1, <2>1, <2>2
    DEF RetrySelect, HandlerTypeOK, history, tableVars, senderVars,
        TableTypeOK, BrokerTypeOK, SenderTypeOK, ConsumerTypeOK
<1>2. ASSUME RetryPush
      PROVE  Goal
  BY <1>2, <1>q, TypePush DEF RetryPush, Stages
<1>3. ASSUME RetryMarkSuccess
      PROVE  Goal
  BY <1>3, <1>q, TypeMarkSuccess DEF RetryMarkSuccess, Stages
<1>4. ASSUME RetryAck
      PROVE  Goal
  <2>1. handler[RETRY_PUSH_MSG] \in Handlers
    BY <1>4, <1>q, HandlerBusy DEF RetryAck, Stages
  <2>2. HandlerTypeOK' /\ acked' \in [Queues -> SUBSET Msgs]
    BY <1>4, <1>q, <2>1, AcknowledgeType DEF RetryAck
  <2>3. QED
    BY <1>4, <2>2
    DEF RetryAck, HandlerTypeOK, tableVars, brokerVars, senderVars,
        TableTypeOK, BrokerTypeOK, SenderTypeOK, ConsumerTypeOK
<1>5. ASSUME RetryNack
      PROVE  Goal
  <2>1. handler[RETRY_PUSH_MSG] \in Handlers
    BY <1>5, <1>q, HandlerBusy DEF RetryNack, Stages
  <2>2. HandlerTypeOK'
    BY <1>5, <1>q, <1>h, HandlerFinish DEF RetryNack
  <2>3. ready' \in [Queues -> [Msgs -> Nat]] /\ deadLettered' \subseteq Msgs
    <3>1. CASE handler[RETRY_PUSH_MSG].live
      BY <1>5, <1>q, <2>1, <3>1
      DEF RetryNack, Enqueue, Plus, Handlers, BrokerTypeOK, ConsumerTypeOK
    <3>2. CASE ~handler[RETRY_PUSH_MSG].live
      BY <1>5, <3>2 DEF RetryNack, BrokerTypeOK, ConsumerTypeOK
    <3>3. QED
      BY <3>1, <3>2
  <2>4. QED
    BY <1>5, <2>2, <2>3
    DEF RetryNack, HandlerTypeOK, tableVars, senderVars,
        TableTypeOK, BrokerTypeOK, SenderTypeOK, ConsumerTypeOK
<1>6. QED
  BY <1>1, <1>2, <1>3, <1>4, <1>5 DEF Retry

\* processFail, the clock, and a listener whose read of the row throws.
LEMMA TypeOthers ==
    ASSUME TypeOK, Fail \/ Disturbed
    PROVE  TableTypeOK' /\ BrokerTypeOK' /\ SenderTypeOK' /\ ConsumerTypeOK'
<1> USE DEF TypeOK
<1> DEFINE Goal == TableTypeOK' /\ BrokerTypeOK' /\ SenderTypeOK' /\ ConsumerTypeOK'
<1>1. ASSUME NEW m \in Msgs, FailAck(m)
      PROVE  Goal
  <2>1. FAIL_PUSH_MSG \in Queues
    BY DEF Queues
  <2>2. ready' \in [Queues -> [Msgs -> Nat]]
    BY <1>1, <2>1, DeliverType DEF FailAck
  <2>3. QED
    BY <1>1, <2>1, <2>2
    DEF FailAck, tableVars, senderVars, TableTypeOK, BrokerTypeOK, SenderTypeOK, ConsumerTypeOK
<1>2. ASSUME NEW m \in Msgs, TimePasses(m)
      PROVE  Goal
  BY <1>2 DEF TimePasses, tableVars, brokerVars, senderVars, history,
              TableTypeOK, BrokerTypeOK, SenderTypeOK, ConsumerTypeOK
<1>3. ASSUME NEW q \in Consumed, NEW m \in Msgs, SelectThrows(q, m)
      PROVE  Goal
  <2>1. q \in Queues
    BY DEF Consumed, Queues
  <2>2. ready' \in [Queues -> [Msgs -> Nat]] /\ stuck' \in [Queues -> [Msgs -> Nat]]
    BY <1>3, <2>1, DeliverType DEF SelectThrows, Plus, BrokerTypeOK
  <2>3. QED
    BY <1>3, <2>2, FaultType
    DEF SelectThrows, tableVars, senderVars, consumerVars, history,
        TableTypeOK, BrokerTypeOK, SenderTypeOK, ConsumerTypeOK
<1>4. QED
  BY <1>1, <1>2, <1>3 DEF Fail, Disturbed

\* The scan task keeps the types.
LEMMA TypeTask ==
    ASSUME TypeOK, Task
    PROVE  TypeOK'
<1> USE DEF TypeOK
<1>1. CASE ScanSelect
  BY <1>1, PipelineAssumption
  DEF ScanSelect, PushFail, tableVars, brokerVars, senderVars, consumerVars, history,
      TableTypeOK, BrokerTypeOK, SenderTypeOK, ConsumerTypeOK
<1>2. ASSUME NEW m \in Msgs, ScanPublish(m)
      PROVE  TypeOK'
  <2>1. BrokerTypeOK'
    BY <1>2, PublishType DEF ScanPublish, PublishThrows, brokerVars, BrokerTypeOK, Queues
  <2>2. TableTypeOK'
    BY <1>2, FaultType DEF ScanPublish, Publish, PublishThrows, tableVars, TableTypeOK
  <2>3. QED
    BY <1>2, <2>1, <2>2
    DEF ScanPublish, senderVars, consumerVars, history, SenderTypeOK, ConsumerTypeOK
<1>3. QED
  BY <1>1, <1>2 DEF Task

\* A lost channel and a crash keep the types.
LEMMA TypeInterruption ==
    ASSUME TypeOK, Crash \/ \E q \in Consumed : ChannelLost(q)
    PROVE  TypeOK'
<1> USE DEF TypeOK
<1>1. ASSUME NEW q \in Consumed, ChannelLost(q)
      PROVE  TypeOK'
  <2>1. q \in Queues
    BY DEF Consumed, Queues
  <2>2. [m \in Msgs |-> Copies(q, m)] \in [Msgs -> Nat]
    BY <2>1, CopiesType
  <2>3. ready' \in [Queues -> [Msgs -> Nat]]
    BY <1>1, <2>2 DEF ChannelLost, BrokerTypeOK
  <2>4. stuck' \in [Queues -> [Msgs -> Nat]]
    BY <1>1, <2>1 DEF ChannelLost, BrokerTypeOK, Empty
  <2>5. handler' \in [Queues -> {Idle} \cup Handlers]
    <3>1. CASE handler[q] = Idle
      BY <1>1, <3>1 DEF ChannelLost, ConsumerTypeOK
    <3>2. CASE handler[q] # Idle
      <4>1. handler[q] \in Handlers
        BY <2>1, <3>2 DEF ConsumerTypeOK
      <4>2. Job(handler[q].at, handler[q].msg, handler[q].failNum, FALSE) \in Handlers
        BY <4>1 DEF Job, Handlers
      <4>3. QED
        BY <1>1, <3>2, <4>2 DEF ChannelLost, ConsumerTypeOK
    <3>3. QED
      BY <3>1, <3>2
  <2>6. TableTypeOK' /\ SenderTypeOK'
    BY <1>1 DEF ChannelLost, tableVars, senderVars, TableTypeOK, SenderTypeOK
  <2>7. BrokerTypeOK'
    BY <1>1, <2>3, <2>4 DEF ChannelLost, BrokerTypeOK
  <2>8. ConsumerTypeOK'
    BY <1>1, <2>5 DEF ChannelLost, history, ConsumerTypeOK
  <2>9. QED
    BY <1>1, <2>6, <2>7, <2>8, PipelineAssumption DEF ChannelLost, taskVars
<1>2. CASE Crash
  <2>1. ready' \in [Queues -> [Msgs -> Nat]]
    BY <1>2, CopiesType DEF Crash
  <2>2. BrokerTypeOK'
    BY <1>2, <2>1 DEF Crash, Empty, BrokerTypeOK
  <2>3. SenderTypeOK' /\ ConsumerTypeOK'
    BY <1>2 DEF Crash, history, SenderTypeOK, ConsumerTypeOK
  <2>4. QED
    BY <1>2, <2>2, <2>3, PipelineAssumption DEF Crash, tableVars, TableTypeOK
<1>3. QED
  BY <1>1, <1>2

\* Every step of the pipeline keeps the types.
LEMMA TypeNext ==
    ASSUME TypeOK, [Next]_vars
    PROVE  TypeOK'
<1>1. CASE Sender /\ UNCHANGED SenderRest
  BY <1>1, TypeSender
<1>2. CASE (Process \/ Retry \/ Fail \/ Disturbed) /\ UNCHANGED ConsumerRest
  BY <1>2, TypeProcess, TypeRetry, TypeOthers DEF ConsumerRest, taskVars, TypeOK
<1>3. CASE Task
  BY <1>3, TypeTask
<1>4. CASE Crash \/ \E q \in Consumed : ChannelLost(q)
  BY <1>4, TypeInterruption
<1>5. CASE UNCHANGED vars
  BY <1>5 DEF vars, TypeOK, tableVars, brokerVars, senderVars, consumerVars, history, taskVars,
              TableTypeOK, BrokerTypeOK, SenderTypeOK, ConsumerTypeOK
<1>6. QED
  BY <1>1, <1>2, <1>3, <1>4, <1>5 DEF Next

\* All variables of the pipeline keep their types; in particular no queue ever
\* owes a negative number of copies and no confirm is called back that was not
\* negative.
THEOREM TypeCorrect == Spec => []TypeOK
<1>1. Init => TypeOK
  BY TypeInit
<1>2. TypeOK /\ [Next]_vars => TypeOK'
  BY TypeNext
<1>3. QED
  BY <1>1, <1>2, PTL DEF Spec

--------------------------------------------------------------------------------
(* SUCCESS means pushed, and an ack on push_msg means pushed or handed over *)

Settled(m) == pushes[m] > 0 \/ m \in handed
AcksSettled == \A m \in acked[PUSH_MSG] : pushes[m] > 0 \/ m \in handed

\* The inductive invariant: what the stages of a listener know about the message
\* it works on, besides the two facts themselves.
ConsumptionInv ==
    /\ SuccessMeansPushed
    /\ AcksSettled
    /\ \A q \in Queues : handler[q].at = "pushed" => pushes[handler[q].msg] > 0
    /\ handler[PUSH_MSG].at = "resent" => handler[PUSH_MSG].msg \in handed
    /\ handler[PUSH_MSG].at = "finishing" => Settled(handler[PUSH_MSG].msg)

\* A step that moves no listener, records no ack on push_msg and makes no row
\* SUCCESS keeps the invariant.
LEMMA ConsumptionFrame ==
    ASSUME TypeOK, ConsumptionInv, UNCHANGED <<handler, pushes, handed>>,
           acked'[PUSH_MSG] = acked[PUSH_MSG],
           \A m \in Msgs : result'[m] = "SUCCESS" => result[m] = "SUCCESS"
    PROVE  ConsumptionInv'
BY DEF ConsumptionInv, SuccessMeansPushed, AcksSettled, Settled

\* Writing a status other than SUCCESS makes no row SUCCESS.
LEMMA UpdateNotSuccess ==
    ASSUME TypeOK, NEW k \in Msgs, NEW s \in Failed, NEW n \in Nat,
           UpdateStatus(k, s, n) \/ UpdateStatusThrows(k, s, n)
    PROVE  \A m \in Msgs : result'[m] = "SUCCESS" => result[m] = "SUCCESS"
<1>1. CASE UpdateRow(k, s, n)
  BY <1>1 DEF UpdateRow, Failed, tableVars, TypeOK, TableTypeOK
<1>2. CASE UNCHANGED tableVars
  BY <1>2 DEF tableVars
<1>3. QED
  BY <1>1, <1>2 DEF UpdateStatus, UpdateStatusThrows

LEMMA ConsumptionSender ==
    ASSUME TypeOK, ConsumptionInv, Sender, UNCHANGED SenderRest
    PROVE  ConsumptionInv'
<1>1. \A m \in Msgs : result'[m] = "SUCCESS" => result[m] = "SUCCESS"
  <2>1. ASSUME NEW k \in Msgs, SendMsgInsert(k)
        PROVE  \A m \in Msgs : result'[m] = "SUCCESS" => result[m] = "SUCCESS"
    BY <2>1 DEF SendMsgInsert, Insert, tableVars, TypeOK, TableTypeOK
  <2>2. ASSUME NEW t \in Confirmers, ConfirmUpdate(t)
        PROVE  \A m \in Msgs : result'[m] = "SUCCESS" => result[m] = "SUCCESS"
    <3>1. callback[t] \in Callbacks
      BY <2>2, CallbackBusy DEF ConfirmUpdate, TypeOK
    <3>2. QED
      BY <2>2, <3>1, UpdateNotSuccess DEF ConfirmUpdate, Callbacks, Failed
  <2>3. CASE UNCHANGED tableVars
    BY <2>3 DEF tableVars
  <2>4. QED
    BY <2>1, <2>2, <2>3
    DEF Sender, Callback, SendMsgPublish, ForeignPublish, ConfirmSelect, ConfirmRepublish
<1>2. QED
  BY <1>1, ConsumptionFrame DEF SenderRest, consumerVars, history

\* The push, in either listener.
LEMMA ConsumptionPush ==
    ASSUME TypeOK, ConsumptionInv, NEW q \in Queues, NEW onError \in {"failed", "nacking"},
           Push(q, onError)
    PROVE  ConsumptionInv'
<1>1. handler[q] \in Handlers
  BY HandlerBusy DEF Push, Stages, TypeOK
<1>2. /\ \A m \in Msgs : pushes'[m] \in Nat /\ pushes'[m] >= pushes[m]
      /\ UNCHANGED <<result, handed, acked>>
  BY <1>1 DEF Push, Handlers, TypeOK, ConsumerTypeOK, tableVars
<1>3. CASE Goto(q, "pushed") /\ pushes' = [pushes EXCEPT ![handler[q].msg] = @ + 1]
  BY <1>1, <1>2, <1>3
  DEF Goto, Job, Handlers, ConsumptionInv, SuccessMeansPushed, AcksSettled, Settled,
      TypeOK, ConsumerTypeOK
<1>4. CASE Goto(q, onError)
  <2>1. \A m \in Msgs : pushes[m] > 0 => pushes'[m] > 0
    BY <1>2 DEF TypeOK, ConsumerTypeOK
  <2>2. SuccessMeansPushed' /\ AcksSettled'
    BY <1>2, <2>1
    DEF ConsumptionInv, SuccessMeansPushed, AcksSettled, TypeOK, ConsumerTypeOK, Queues
  <2>3. \A p \in Queues : handler'[p] = handler[p] \/ handler'[p].at = onError
    BY <1>1, <1>4 DEF Goto, Job, TypeOK, ConsumerTypeOK
  <2>4. \A p \in Queues : handler[p] # Idle => handler[p].msg \in Msgs
    BY DEF TypeOK, ConsumerTypeOK, Handlers
  <2>5. QED
    BY <1>2, <2>1, <2>2, <2>3, <2>4 DEF ConsumptionInv, Settled, Idle, Queues
<1>5. QED
  BY <1>3, <1>4 DEF Push

LEMMA ConsumptionMarkSuccess ==
    ASSUME TypeOK, ConsumptionInv, NEW q \in Queues, NEW onError \in {"failed", "nacking"},
           MarkSuccess(q, onError)
    PROVE  ConsumptionInv'
<1>1. handler[q] \in Handlers
  BY HandlerBusy DEF MarkSuccess, Stages, TypeOK
<1>2. UNCHANGED <<pushes, handed, acked>>
  BY DEF MarkSuccess, history
<1>3. SuccessMeansPushed'
  <2>1. CASE UpdateRow(handler[q].msg, "SUCCESS", handler[q].failNum)
    BY <1>1, <1>2, <2>1
    DEF UpdateRow, MarkSuccess, ConsumptionInv, SuccessMeansPushed, Handlers, tableVars,
        TypeOK, TableTypeOK
  <2>2. CASE UNCHANGED tableVars
    BY <1>2, <2>2 DEF tableVars, ConsumptionInv, SuccessMeansPushed
  <2>3. QED
    BY <2>1, <2>2 DEF MarkSuccess, UpdateStatus, UpdateStatusThrows
<1>4. AcksSettled'
  BY <1>2 DEF ConsumptionInv, AcksSettled
<1>5. CASE Goto(q, "finishing")
  <2>1. pushes[handler[q].msg] > 0
    BY DEF MarkSuccess, ConsumptionInv
  <2>2. QED
    BY <1>1, <1>2, <1>3, <1>4, <1>5, <2>1
    DEF Goto, Job, Handlers, ConsumptionInv, Settled, TypeOK, ConsumerTypeOK
<1>6. CASE Goto(q, onError)
  BY <1>1, <1>2, <1>3, <1>4, <1>6
  DEF Goto, Job, Handlers, ConsumptionInv, Settled, TypeOK, ConsumerTypeOK
<1>7. QED
  BY <1>5, <1>6 DEF MarkSuccess

\* A step that keeps the histories and the rows, and in which one listener comes
\* to rest or goes to a stage of which the invariant asks nothing.
LEMMA ConsumptionMove ==
    ASSUME TypeOK, ConsumptionInv, UNCHANGED pushes, handed \subseteq handed',
           acked'[PUSH_MSG] = acked[PUSH_MSG],
           \A m \in Msgs : result'[m] = "SUCCESS" => result[m] = "SUCCESS",
           \A p \in Queues : \/ handler'[p] = handler[p]
                            \/ handler'[p].at \in {"idle", "pushing", "failed", "nacking"}
    PROVE  ConsumptionInv'
<1>1. SuccessMeansPushed' /\ AcksSettled'
  BY DEF ConsumptionInv, SuccessMeansPushed, AcksSettled
<1>2. QED
  BY <1>1 DEF ConsumptionInv, Settled, Queues

LEMMA ConsumptionProcess ==
    ASSUME TypeOK, ConsumptionInv, Process
    PROVE  ConsumptionInv'
<1>q. PUSH_MSG \in Queues
  BY DEF Queues
<1>1. ASSUME NEW m \in Msgs, ProcessReject(m)
      PROVE  ConsumptionInv'
  BY <1>1, ConsumptionFrame DEF ProcessReject, tableVars
<1>2. ASSUME NEW m \in Msgs, ProcessSelect(m)
      PROVE  ConsumptionInv'
  <2>1. UNCHANGED <<result, pushes, handed, acked>>
    BY <1>2 DEF ProcessSelect, tableVars, history
  <2>2. handler' = [handler EXCEPT ![PUSH_MSG] = Job(ProcessEntry(m), m, failNum[m], TRUE)]
    BY <1>2 DEF ProcessSelect, Begin
  <2>3. CASE result[m] # "SUCCESS"
    BY <1>q, <2>1, <2>2, <2>3, ConsumptionMove DEF ProcessEntry, Job, TypeOK, ConsumerTypeOK
  <2>4. CASE result[m] = "SUCCESS"
    <3>1. pushes[m] > 0
      BY <2>4 DEF ConsumptionInv, SuccessMeansPushed
    <3>2. QED
      BY <1>q, <2>1, <2>2, <2>4, <3>1
      DEF ProcessEntry, Job, TypeOK, ConsumerTypeOK, ConsumptionInv, SuccessMeansPushed,
          AcksSettled, Settled
  <2>5. QED
    BY <2>3, <2>4
<1>3. ASSUME ProcessPush
      PROVE  ConsumptionInv'
  BY <1>3, <1>q, ConsumptionPush DEF ProcessPush
<1>4. ASSUME ProcessMarkSuccess
      PROVE  ConsumptionInv'
  BY <1>4, <1>q, ConsumptionMarkSuccess DEF ProcessMarkSuccess
<1>5. ASSUME ProcessResend
      PROVE  ConsumptionInv'
  <2>1. handler[PUSH_MSG] \in Handlers
    BY <1>5, <1>q, HandlerBusy DEF ProcessResend, Stages, TypeOK
  <2>2. /\ UNCHANGED <<result, pushes, acked>>
        /\ handed' = handed \cup {handler[PUSH_MSG].msg}
    BY <1>5 DEF ProcessResend, tableVars
  <2>3. /\ handler'[PUSH_MSG].at = "resent"
        /\ handler'[PUSH_MSG].msg = handler[PUSH_MSG].msg
        /\ \A q \in Queues \ {PUSH_MSG} : handler'[q] = handler[q]
    BY <1>5, <1>q DEF ProcessResend, Goto, Job, TypeOK, ConsumerTypeOK
  <2>4. SuccessMeansPushed' /\ AcksSettled'
    BY <2>2 DEF ConsumptionInv, SuccessMeansPushed, AcksSettled
  <2>5. QED
    BY <2>2, <2>3, <2>4 DEF ConsumptionInv, Settled
<1>6. ASSUME ProcessResendThrows
      PROVE  ConsumptionInv'
  BY <1>6, <1>q, ConsumptionMove
  DEF ProcessResendThrows, Abandon, Finish, Idle, tableVars, history, TypeOK, ConsumerTypeOK
<1>7. ASSUME ProcessMarkFail \/ ProcessMarkFailThrows
      PROVE  ConsumptionInv'
  <2>1. handler[PUSH_MSG] \in Handlers /\ handler[PUSH_MSG].at = "resent"
    BY <1>7, <1>q, HandlerBusy DEF ProcessMarkFail, ProcessMarkFailThrows, Stages, TypeOK
  <2>2. \A m \in Msgs : result'[m] = "SUCCESS" => result[m] = "SUCCESS"
    BY <1>7, <2>1, UpdateNotSuccess
    DEF ProcessMarkFail, ProcessMarkFailThrows, Handlers, Failed
  <2>3. UNCHANGED <<pushes, handed, acked>>
    BY <1>7 DEF ProcessMarkFail, ProcessMarkFailThrows, history
  <2>4. CASE Finish(PUSH_MSG)
    BY <1>q, <2>2, <2>3, <2>4, ConsumptionMove DEF Finish, Idle, TypeOK, ConsumerTypeOK
  <2>5. CASE Goto(PUSH_MSG, "finishing")
    <3>1. SuccessMeansPushed' /\ AcksSettled'
      BY <2>2, <2>3 DEF ConsumptionInv, SuccessMeansPushed, AcksSettled
    <3>2. QED
      BY <1>q, <2>1, <2>3, <2>5, <3>1
      DEF Goto, Job, ConsumptionInv, Settled, TypeOK, ConsumerTypeOK
  <2>6. QED
    BY <1>7, <2>4, <2>5 DEF ProcessMarkFail, ProcessMarkFailThrows, Abandon
<1>8. ASSUME ProcessAck
      PROVE  ConsumptionInv'
  <2>1. handler[PUSH_MSG] \in Handlers /\ Settled(handler[PUSH_MSG].msg)
    BY <1>8, <1>q, HandlerBusy DEF ProcessAck, Stages, TypeOK, ConsumptionInv
  <2>2. UNCHANGED <<result, pushes, handed>>
    BY <1>8 DEF ProcessAck, tableVars
  <2>3. acked'[PUSH_MSG] \subseteq acked[PUSH_MSG] \cup {handler[PUSH_MSG].msg}
    BY <1>8, <1>q DEF ProcessAck, Acknowledge, TypeOK, ConsumerTypeOK
  <2>4. \A q \in Queues : handler'[q] = handler[q] \/ handler'[q] = Idle
    BY <1>8, <1>q DEF ProcessAck, Acknowledge, Finish, TypeOK, ConsumerTypeOK
  <2>5. SuccessMeansPushed' /\ AcksSettled'
    BY <2>1, <2>2, <2>3 DEF ConsumptionInv, SuccessMeansPushed, AcksSettled, Settled
  <2>6. QED
    BY <1>q, <2>2, <2>4, <2>5 DEF ConsumptionInv, Settled, Idle
<1>9. QED
  BY <1>1, <1>2, <1>3, <1>4, <1>5, <1>6, <1>7, <1>8 DEF Process

LEMMA ConsumptionRetry ==
    ASSUME TypeOK, ConsumptionInv, Retry
    PROVE  ConsumptionInv'
<1>q. RETRY_PUSH_MSG \in Queues /\ PUSH_MSG \in Queues /\ RETRY_PUSH_MSG # PUSH_MSG
  BY DEF Queues, RETRY_PUSH_MSG, PUSH_MSG
<1>1. ASSUME NEW m \in Msgs, RetrySelect(m)
      PROVE  ConsumptionInv'
  <2>1. UNCHANGED <<result, pushes, handed, acked>>
    BY <1>1 DEF RetrySelect, tableVars, history
  <2>2. /\ handler'[RETRY_PUSH_MSG].at \in {"nacking", "pushing", "finishing"}
        /\ \A q \in Queues \ {RETRY_PUSH_MSG} : handler'[q] = handler[q]
    BY <1>1, <1>q DEF RetrySelect, Begin, Job, RetryEntry, TypeOK, ConsumerTypeOK
  <2>3. SuccessMeansPushed' /\ AcksSettled'
    BY <2>1 DEF ConsumptionInv, SuccessMeansPushed, AcksSettled
  <2>4. QED
    BY <1>q, <2>1, <2>2, <2>3 DEF ConsumptionInv, Settled
<1>2. ASSUME RetryPush
      PROVE  ConsumptionInv'
  BY <1>2, <1>q, ConsumptionPush DEF RetryPush
<1>3. ASSUME RetryMarkSuccess
      PROVE  ConsumptionInv'
  BY <1>3, <1>q, ConsumptionMarkSuccess DEF RetryMarkSuccess
<1>4. ASSUME RetryAck
      PROVE  ConsumptionInv'
  BY <1>4, <1>q, ConsumptionMove
  DEF RetryAck, Acknowledge, Finish, Idle, tableVars, TypeOK, ConsumerTypeOK
<1>5. ASSUME RetryNack
      PROVE  ConsumptionInv'
  BY <1>5, <1>q, ConsumptionMove
  DEF RetryNack, Finish, Idle, tableVars, TypeOK, ConsumerTypeOK
<1>6. QED
  BY <1>1, <1>2, <1>3, <1>4, <1>5 DEF Retry

LEMMA ConsumptionRest ==
    ASSUME TypeOK, ConsumptionInv,
           Fail \/ Disturbed \/ Task \/ Crash \/ \E q \in Consumed : ChannelLost(q)
    PROVE  ConsumptionInv'
<1>q. FAIL_PUSH_MSG \in Queues /\ PUSH_MSG \in Queues /\ FAIL_PUSH_MSG # PUSH_MSG
  BY DEF Queues, FAIL_PUSH_MSG, PUSH_MSG
<1>1. CASE Fail
  BY <1>1, <1>q, ConsumptionFrame DEF Fail, FailAck, tableVars, TypeOK, ConsumerTypeOK
<1>2. CASE Disturbed
  BY <1>2, ConsumptionFrame
  DEF Disturbed, TimePasses, SelectThrows, tableVars, consumerVars, history
<1>3. CASE Task
  BY <1>3, ConsumptionFrame DEF Task, ScanSelect, ScanPublish, tableVars, consumerVars, history
<1>4. CASE Crash
  BY <1>4, <1>q, ConsumptionMove DEF Crash, Idle, tableVars, history
<1>5. ASSUME NEW q \in Consumed, ChannelLost(q)
      PROVE  ConsumptionInv'
  <2>1. q \in Queues
    BY DEF Consumed, Queues
  <2>2. UNCHANGED <<result, pushes, handed, acked>>
    BY <1>5 DEF ChannelLost, tableVars, history
  <2>3. \A p \in Queues : \/ handler'[p] = handler[p]
                          \/ /\ handler'[p].at = handler[p].at
                             /\ handler'[p].msg = handler[p].msg
    BY <1>5, <2>1 DEF ChannelLost, Job, TypeOK, ConsumerTypeOK
  <2>4. SuccessMeansPushed' /\ AcksSettled'
    BY <2>2 DEF ConsumptionInv, SuccessMeansPushed, AcksSettled
  <2>5. QED
    BY <1>q, <2>2, <2>3, <2>4 DEF ConsumptionInv, Settled
<1>6. QED
  BY <1>1, <1>2, <1>3, <1>4, <1>5

LEMMA ConsumptionNext ==
    ASSUME TypeOK, ConsumptionInv, [Next]_vars
    PROVE  ConsumptionInv'
<1>1. CASE UNCHANGED vars
  BY <1>1, ConsumptionFrame DEF vars, tableVars, consumerVars, history
<1>2. QED
  BY <1>1, ConsumptionSender, ConsumptionProcess, ConsumptionRetry, ConsumptionRest DEF Next

LEMMA ConsumptionInductive == Spec => []ConsumptionInv
<1>1. Init => ConsumptionInv
  BY DEF Init, TableInit, ConsumerInit, ConsumptionInv, SuccessMeansPushed, AcksSettled,
         Idle, NO_ROW, Queues, PUSH_MSG
<1>2. TypeOK /\ ConsumptionInv /\ [Next]_vars => ConsumptionInv'
  BY ConsumptionNext
<1>3. QED
  BY <1>1, <1>2, TypeCorrect, PTL DEF Spec

\* The status that makes the listeners skip a message is written only after
\* SynMsgPushService.push was run for it, whatever the confirm callbacks, the
\* other listener, crashes and lost answers do to the row in between.
THEOREM SuccessCorrect == Spec => []SuccessMeansPushed
<1>1. ConsumptionInv => SuccessMeansPushed
  BY DEF ConsumptionInv
<1>2. QED
  BY <1>1, ConsumptionInductive, PTL

--------------------------------------------------------------------------------
(* What reaches the fail queue has failed three times *)

FailSeen(m) ==
    ready[FAIL_PUSH_MSG][m] > 0 \/ stuck[FAIL_PUSH_MSG][m] > 0 \/ m \in acked[FAIL_PUSH_MSG]

\* The inductive invariant: no copy of the count, in the row, in a listener or in
\* a callback, is ahead of the number of failures written.
RowsCount == \A m \in Msgs : failNum[m] <= failures[m]
HandlersCount ==
    /\ handler[FAIL_PUSH_MSG] = Idle
    /\ \A q \in Queues : handler[q] # Idle => handler[q].failNum <= failures[handler[q].msg]
CallbacksCount ==
    \A t \in Confirmers :
        callback[t] # NoCallback => callback[t].failNum <= failures[callback[t].msg]
FailCount == \A m \in Msgs : FailSeen(m) => failures[m] >= RedeliveryLimit

CountInv == RowsCount /\ HandlersCount /\ CallbacksCount /\ FailCount

\* Failures are only ever added: a bound that holds before a step still holds
\* after it.
LEMMA CountMonotone ==
    ASSUME TypeOK, TypeOK', NEW m \in Msgs, failures[m] <= failures'[m]
    PROVE  /\ \A n \in Nat : n <= failures[m] => n <= failures'[m]
           /\ failures[m] >= RedeliveryLimit => failures'[m] >= RedeliveryLimit
BY DEF TypeOK, TableTypeOK, RedeliveryLimit

\* The parts of the invariant, each with the condition under which a step keeps
\* it: what is there after the step was bounded before it.
LEMMA CountFrame ==
    ASSUME TypeOK, TypeOK',
           \A m \in Msgs : failNum'[m] <= failures'[m] /\ failures[m] <= failures'[m],
           handler'[FAIL_PUSH_MSG] = Idle,
           \A q \in Queues : handler'[q] # Idle => handler'[q].failNum <= failures[handler'[q].msg],
           \A t \in Confirmers :
               callback'[t] # NoCallback => callback'[t].failNum <= failures[callback'[t].msg],
           \A m \in Msgs : FailSeen(m)' => failures[m] >= RedeliveryLimit
    PROVE  CountInv'
<1>1. RowsCount'
  BY DEF RowsCount
<1>2. HandlersCount'
  <2>1. ASSUME NEW q \in Queues, handler'[q] # Idle
        PROVE  handler'[q].failNum <= failures'[handler'[q].msg]
    <3>1. handler'[q].msg \in Msgs /\ handler'[q].failNum \in Nat
      BY <2>1 DEF TypeOK, ConsumerTypeOK, Handlers
    <3>2. QED
      BY <2>1, <3>1, CountMonotone
  <2>2. QED
    BY <2>1 DEF HandlersCount
<1>3. CallbacksCount'
  <2>1. ASSUME NEW t \in Confirmers, callback'[t] # NoCallback
        PROVE  callback'[t].failNum <= failures'[callback'[t].msg]
    <3>1. callback'[t].msg \in Msgs /\ callback'[t].failNum \in Nat
      BY <2>1 DEF TypeOK, SenderTypeOK, Callbacks
    <3>2. QED
      BY <2>1, <3>1, CountMonotone
  <2>2. QED
    BY <2>1 DEF CallbacksCount
<1>4. FailCount'
  BY CountMonotone DEF FailCount
<1>5. QED
  BY <1>1, <1>2, <1>3, <1>4 DEF CountInv

\* The update statement keeps the counts if the number it is given is not ahead.
LEMMA CountUpdate ==
    ASSUME TypeOK, RowsCount, NEW k \in Msgs, NEW s \in Results, NEW n \in Nat,
           n <= IF s \in Failed THEN failures[k] + 1 ELSE failures[k],
           UpdateStatus(k, s, n) \/ UpdateStatusThrows(k, s, n)
    PROVE  \A m \in Msgs : failNum'[m] <= failures'[m] /\ failures[m] <= failures'[m]
<1>1. CASE UNCHANGED tableVars
  BY <1>1 DEF tableVars, RowsCount, TypeOK, TableTypeOK
<1>2. CASE UpdateRow(k, s, n) /\ ~UNCHANGED tableVars
  <2>1. /\ failNum' = [failNum EXCEPT ![k] = n]
        /\ failures' = [failures EXCEPT ![k] = IF s \in Failed THEN @ + 1 ELSE @]
    BY <1>2 DEF UpdateRow
  <2>2. QED
    BY <2>1 DEF RowsCount, TypeOK, TableTypeOK
<1>3. QED
  BY <1>1, <1>2 DEF UpdateStatus, UpdateStatusThrows

\* A publish to another queue leaves the fail queue alone.
LEMMA PublishElsewhere ==
    ASSUME TypeOK, NEW q \in Queues \ {FAIL_PUSH_MSG}, NEW m \in Msgs, Publish(q, m)
    PROVE  UNCHANGED <<ready[FAIL_PUSH_MSG], stuck[FAIL_PUSH_MSG]>>
BY DEF Publish, Enqueue, Plus, TypeOK, BrokerTypeOK, Queues

\* So does a copy that is added to another queue, or acknowledged there.
LEMMA PlusElsewhere ==
    ASSUME NEW bag \in [Queues -> [Msgs -> Nat]], NEW q \in Queues \ {FAIL_PUSH_MSG}, NEW m
    PROVE  Plus(bag, q, m)[FAIL_PUSH_MSG] = bag[FAIL_PUSH_MSG]
<1>1. FAIL_PUSH_MSG \in Queues
  BY DEF Queues
<1>2. DOMAIN bag = Queues
  OBVIOUS
<1>3. QED
  BY <1>1, <1>2 DEF Plus

LEMMA AckElsewhere ==
    ASSUME TypeOK, NEW q \in Queues \ {FAIL_PUSH_MSG}, Acknowledge(q)
    PROVE  acked'[FAIL_PUSH_MSG] = acked[FAIL_PUSH_MSG]
<1>1. FAIL_PUSH_MSG \in Queues /\ DOMAIN acked = Queues
  BY DEF Queues, TypeOK, ConsumerTypeOK
<1>2. \/ acked' = acked
      \/ acked' = [acked EXCEPT ![q] = @ \cup {handler[q].msg}]
  BY DEF Acknowledge
<1>3. QED
  BY <1>1, <1>2

\* Rows that are not written keep their counts.
LEMMA CountSame ==
    ASSUME TypeOK, RowsCount, UNCHANGED tableVars
    PROVE  \A m \in Msgs : failNum'[m] <= failures'[m] /\ failures[m] <= failures'[m]
BY DEF tableVars, RowsCount, TypeOK, TableTypeOK

LEMMA CountSender ==
    ASSUME TypeOK, TypeOK', CountInv, Sender, UNCHANGED SenderRest
    PROVE  CountInv'
<1> USE DEF CountInv
<1>q. PUSH_MSG \in Queues \ {FAIL_PUSH_MSG} /\ RETRY_PUSH_MSG \in Queues \ {FAIL_PUSH_MSG}
  BY DEF Queues, PUSH_MSG, RETRY_PUSH_MSG, FAIL_PUSH_MSG
<1>h. /\ handler'[FAIL_PUSH_MSG] = Idle
      /\ \A q \in Queues : handler'[q] # Idle => handler'[q].failNum <= failures[handler'[q].msg]
      /\ acked' = acked
  BY DEF SenderRest, consumerVars, history, HandlersCount
<1>1. ASSUME NEW m \in Msgs, SendMsgInsert(m)
      PROVE  CountInv'
  <2>1. \A k \in Msgs : failNum'[k] <= failures'[k] /\ failures[k] <= failures'[k]
    BY <1>1 DEF SendMsgInsert, Insert, tableVars, RowsCount, TypeOK, TableTypeOK
  <2>2. UNCHANGED <<ready, stuck, callback>>
    BY <1>1 DEF SendMsgInsert, brokerVars
  <2>3. QED
    BY <1>h, <2>1, <2>2, CountFrame DEF CallbacksCount, FailCount, FailSeen
<1>2. ASSUME NEW m \in Msgs, SendMsgPublish(m)
      PROVE  CountInv'
  <2>1. \A k \in Msgs : failNum'[k] <= failures'[k] /\ failures[k] <= failures'[k]
    BY <1>2, CountSame DEF SendMsgPublish
  <2>2. UNCHANGED <<ready[FAIL_PUSH_MSG], stuck[FAIL_PUSH_MSG], callback>>
    BY <1>2, <1>q, PublishElsewhere DEF SendMsgPublish, PublishThrows, brokerVars
  <2>3. QED
    BY <1>h, <2>1, <2>2, CountFrame DEF CallbacksCount, FailCount, FailSeen
<1>3. ASSUME NEW m \in Msgs, ForeignPublish(m)
      PROVE  CountInv'
  <2>1. \A k \in Msgs : failNum'[k] <= failures'[k] /\ failures[k] <= failures'[k]
    BY <1>3, CountSame DEF ForeignPublish
  <2>2. UNCHANGED <<ready[FAIL_PUSH_MSG], stuck[FAIL_PUSH_MSG], callback>>
    BY <1>3, <1>q DEF ForeignPublish, Enqueue, Plus, TypeOK, BrokerTypeOK
  <2>3. QED
    BY <1>h, <2>1, <2>2, CountFrame DEF CallbacksCount, FailCount, FailSeen
<1>4. ASSUME NEW t \in Confirmers, NEW m \in Msgs, ConfirmSelect(t, m)
      PROVE  CountInv'
  <2>1. \A k \in Msgs : failNum'[k] <= failures'[k] /\ failures[k] <= failures'[k]
    BY <1>4, CountSame DEF ConfirmSelect
  <2>2. UNCHANGED <<ready, stuck>>
    BY <1>4 DEF ConfirmSelect
  <2>3. \A u \in Confirmers :
           callback'[u] # NoCallback => callback'[u].failNum <= failures[callback'[u].msg]
    <3>1. CASE UNCHANGED callback
      BY <3>1 DEF CallbacksCount
    <3>2. CASE callback' = [callback EXCEPT ![t] = Reading("selected", m, failNum[m])]
      BY <3>2 DEF Reading, CallbacksCount, RowsCount, TypeOK, SenderTypeOK
    <3>3. QED
      BY <1>4, <3>1, <3>2 DEF ConfirmSelect
  <2>4. QED
    BY <1>h, <2>1, <2>2, <2>3, CountFrame DEF FailCount, FailSeen
<1>5. ASSUME NEW t \in Confirmers, ConfirmRepublish(t)
      PROVE  CountInv'
  <2>1. \A k \in Msgs : failNum'[k] <= failures'[k] /\ failures[k] <= failures'[k]
    BY <1>5, CountSame DEF ConfirmRepublish
  <2>2. callback[t] \in Callbacks
    BY <1>5, CallbackBusy DEF ConfirmRepublish, TypeOK
  <2>3. callback[t].msg \in Msgs /\ callback[t].failNum <= failures[callback[t].msg]
    BY <2>2 DEF Callbacks, NoCallback, CallbacksCount
  <2>4. \A u \in Confirmers :
           callback'[u] # NoCallback => callback'[u].failNum <= failures[callback'[u].msg]
    <3>1. \/ callback' = [callback EXCEPT ![t] = NoCallback]
          \/ callback' = [callback EXCEPT
                 ![t] = Reading("republished", callback[t].msg, callback[t].failNum)]
      BY <1>5 DEF ConfirmRepublish
    <3>2. QED
      BY <2>3, <3>1 DEF Reading, CallbacksCount, TypeOK, SenderTypeOK
  <2>5. \A k \in Msgs : FailSeen(k)' => failures[k] >= RedeliveryLimit
    <3>1. CASE RepublishTo(callback[t].failNum) = FAIL_PUSH_MSG
      <4>1. failures[callback[t].msg] >= RedeliveryLimit
        BY <2>2, <2>3, <3>1
        DEF RepublishTo, RedeliveryLimit, RETRY_PUSH_MSG, FAIL_PUSH_MSG, Callbacks, TypeOK, TableTypeOK
      <4>2. stuck' = stuck /\ \A k \in Msgs \ {callback[t].msg} :
                 ready'[FAIL_PUSH_MSG][k] = ready[FAIL_PUSH_MSG][k]
        BY <1>5, <2>3, <3>1
        DEF ConfirmRepublish, Publish, PublishThrows, brokerVars, Enqueue, Plus, Queues,
            TypeOK, BrokerTypeOK, FAIL_PUSH_MSG, RETRY_PUSH_MSG
      <4>3. QED
        BY <1>h, <4>1, <4>2 DEF FailCount, FailSeen
    <3>2. CASE RepublishTo(callback[t].failNum) # FAIL_PUSH_MSG
      <4>1. UNCHANGED <<ready[FAIL_PUSH_MSG], stuck[FAIL_PUSH_MSG]>>
        BY <1>5, <1>q, <2>3, <3>2, PublishElsewhere DEF ConfirmRepublish, PublishThrows, brokerVars
      <4>2. QED
        BY <1>h, <4>1 DEF FailCount, FailSeen
    <3>3. QED
      BY <3>1, <3>2
  <2>6. QED
    BY <1>h, <2>1, <2>4, <2>5, CountFrame
<1>6. ASSUME NEW t \in Confirmers, ConfirmUpdate(t)
      PROVE  CountInv'
  <2>1. callback[t] \in Callbacks
    BY <1>6, CallbackBusy DEF ConfirmUpdate, TypeOK
  <2>2. callback[t].failNum <= failures[callback[t].msg]
    BY <2>1 DEF Callbacks, NoCallback, CallbacksCount
  <2>3. callback[t].failNum + 1 \in Nat /\ callback[t].failNum + 1 <= failures[callback[t].msg] + 1
    BY <2>1, <2>2 DEF Callbacks, TypeOK, TableTypeOK
  <2>4. \A k \in Msgs : failNum'[k] <= failures'[k] /\ failures[k] <= failures'[k]
    BY <1>6, <2>1, <2>3, CountUpdate DEF ConfirmUpdate, Callbacks, Results, Failed
  <2>5. UNCHANGED <<ready, stuck>>
    BY <1>6 DEF ConfirmUpdate, brokerVars
  <2>6. \A u \in Confirmers :
           callback'[u] # NoCallback => callback'[u].failNum <= failures[callback'[u].msg]
    BY <1>6 DEF ConfirmUpdate, CallbacksCount, TypeOK, SenderTypeOK
  <2>7. QED
    BY <1>h, <2>4, <2>5, <2>6, CountFrame DEF FailCount, FailSeen
<1>7. QED
  BY <1>1, <1>2, <1>3, <1>4, <1>5, <1>6 DEF Sender, Callback

\* The listeners: they never publish to the fail queue, and they write back the
\* number they read, or one more.
LEMMA CountListeners ==
    ASSUME TypeOK, TypeOK', CountInv, Process \/ Retry, UNCHANGED ConsumerRest
    PROVE  CountInv'
<1> USE DEF CountInv
<1>q. /\ PUSH_MSG \in Queues \ {FAIL_PUSH_MSG}
      /\ RETRY_PUSH_MSG \in Queues \ {FAIL_PUSH_MSG}
      /\ DeadLetterQueue \in Queues \ {FAIL_PUSH_MSG}
  BY DEF Queues, PUSH_MSG, RETRY_PUSH_MSG, FAIL_PUSH_MSG, DeadLetterQueue
<1> DEFINE Written == \A m \in Msgs : failNum'[m] <= failures'[m] /\ failures[m] <= failures'[m]
           Kept == /\ callback' = callback
                   /\ ready'[FAIL_PUSH_MSG] = ready[FAIL_PUSH_MSG]
                   /\ stuck'[FAIL_PUSH_MSG] = stuck[FAIL_PUSH_MSG]
                   /\ acked'[FAIL_PUSH_MSG] = acked[FAIL_PUSH_MSG]
           Moved(q) ==
               \/ handler' = handler
               \/ handler' = [handler EXCEPT ![q] = Idle]
               \/ \E stage \in Stages, alive \in BOOLEAN :
                     /\ handler[q] \in Handlers
                     /\ handler' = [handler EXCEPT
                           ![q] = Job(stage, handler[q].msg, handler[q].failNum, alive)]
               \/ \E stage \in Stages, m \in Msgs :
                     handler' = [handler EXCEPT ![q] = Job(stage, m, failNum[m], TRUE)]
<1>h. ASSUME NEW q \in Queues \ {FAIL_PUSH_MSG}, Moved(q)
      PROVE  /\ handler'[FAIL_PUSH_MSG] = Idle
             /\ \A p \in Queues :
                   handler'[p] # Idle => handler'[p].failNum <= failures[handler'[p].msg]
  <2>1. CASE handler' = handler
    BY <2>1 DEF HandlersCount
  <2>2. CASE handler' = [handler EXCEPT ![q] = Idle]
    BY <2>2 DEF HandlersCount, TypeOK, ConsumerTypeOK, Queues
  <2>3. ASSUME NEW stage \in Stages, NEW alive \in BOOLEAN, handler[q] \in Handlers,
               handler' = [handler EXCEPT
                     ![q] = Job(stage, handler[q].msg, handler[q].failNum, alive)]
        PROVE  /\ handler'[FAIL_PUSH_MSG] = Idle
               /\ \A p \in Queues :
                     handler'[p] # Idle => handler'[p].failNum <= failures[handler'[p].msg]
    <3>1. handler[q].failNum <= failures[handler[q].msg]
      BY <2>3 DEF HandlersCount, Handlers, Idle, Stages
    <3>2. QED
      BY <2>3, <3>1 DEF HandlersCount, Job, TypeOK, ConsumerTypeOK, Queues
  <2>4. ASSUME NEW stage \in Stages, NEW m \in Msgs,
               handler' = [handler EXCEPT ![q] = Job(stage, m, failNum[m], TRUE)]
        PROVE  /\ handler'[FAIL_PUSH_MSG] = Idle
               /\ \A p \in Queues :
                     handler'[p] # Idle => handler'[p].failNum <= failures[handler'[p].msg]
    BY <2>4 DEF HandlersCount, RowsCount, Job, TypeOK, ConsumerTypeOK, Queues
  <2>5. QED
    BY <1>h, <2>1, <2>2, <2>3, <2>4
<1>f. ASSUME NEW q \in Queues \ {FAIL_PUSH_MSG}, Written, Kept, Moved(q)
      PROVE  CountInv'
  BY <1>f, <1>h, CountFrame DEF CallbacksCount, FailCount, FailSeen
<1>s. ASSUME UNCHANGED tableVars
      PROVE  Written
  BY <1>s, CountSame
<1>g. ASSUME NEW q \in Queues, handler[q] \in Handlers
      PROVE  /\ \A stage \in Stages : Goto(q, stage) => Moved(q)
             /\ Finish(q) => Moved(q)
             /\ handler[q].failNum <= failures[handler[q].msg]
  <2>1. ASSUME NEW stage \in Stages, Goto(q, stage)
        PROVE  Moved(q)
    <3>1. handler[q].live \in BOOLEAN
      BY <1>g DEF Handlers
    <3>2. handler' = [handler EXCEPT
             ![q] = Job(stage, handler[q].msg, handler[q].failNum, handler[q].live)]
      BY <2>1 DEF Goto
    <3>3. QED
      BY <1>g, <3>1, <3>2
  <2>2. Finish(q) => Moved(q)
    BY DEF Finish
  <2>3. handler[q].failNum <= failures[handler[q].msg]
    <3>1. handler[q] # Idle
      BY <1>g DEF Handlers, Idle
    <3>2. QED
      BY <3>1 DEF HandlersCount
  <2>4. QED
    BY <2>1, <2>2, <2>3
<1>1. ASSUME NEW m \in Msgs, ProcessReject(m)
      PROVE  CountInv'
  <2>1. UNCHANGED tableVars /\ Moved(PUSH_MSG)
    BY <1>1 DEF ProcessReject
  <2>2. Kept
    BY <1>1, <1>q DEF ProcessReject, Deliver, Minus, senderVars, TypeOK, BrokerTypeOK
  <2>3. QED
    BY <1>q, <1>s, <1>f, <2>1, <2>2
<1>2. ASSUME NEW m \in Msgs, ProcessSelect(m)
      PROVE  CountInv'
  <2>1. UNCHANGED tableVars /\ Moved(PUSH_MSG)
    BY <1>2 DEF ProcessSelect, Begin, ProcessEntry, Stages
  <2>2. Kept
    BY <1>2, <1>q DEF ProcessSelect, Deliver, Minus, senderVars, history, TypeOK, BrokerTypeOK
  <2>3. QED
    BY <1>q, <1>s, <1>f, <2>1, <2>2
<1>3. ASSUME NEW q \in {PUSH_MSG, RETRY_PUSH_MSG}, NEW onError \in Stages, Push(q, onError)
      PROVE  CountInv'
  <2>1. handler[q] \in Handlers
    BY <1>3, <1>q, HandlerBusy DEF Push, Stages, TypeOK
  <2>2. UNCHANGED tableVars /\ Moved(q)
    <3>1. UNCHANGED tableVars /\ (Goto(q, "pushed") \/ Goto(q, onError))
      BY <1>3 DEF Push
    <3>2. "pushed" \in Stages
      BY DEF Stages
    <3>3. QED
      BY <1>3, <1>q, <1>g, <2>1, <3>1, <3>2
  <2>3. Kept
    BY <1>3 DEF Push, brokerVars, senderVars
  <2>4. QED
    BY <1>q, <1>s, <1>f, <2>2, <2>3
<1>4. ASSUME NEW q \in {PUSH_MSG, RETRY_PUSH_MSG}, NEW onError \in Stages, MarkSuccess(q, onError)
      PROVE  CountInv'
  <2>1. handler[q] \in Handlers
    BY <1>4, <1>q, HandlerBusy DEF MarkSuccess, Stages, TypeOK
  <2>2. handler[q].msg \in Msgs /\ handler[q].failNum \in Nat
    BY <2>1 DEF Handlers
  <2>3. Written
    BY <1>4, <1>q, <1>g, <2>1, <2>2, CountUpdate DEF MarkSuccess, Results, Failed
  <2>4. Moved(q)
    <3>1. Goto(q, "finishing") \/ Goto(q, onError)
      BY <1>4 DEF MarkSuccess
    <3>2. "finishing" \in Stages
      BY DEF Stages
    <3>3. QED
      BY <1>4, <1>q, <1>g, <2>1, <3>1, <3>2
  <2>5. Kept
    BY <1>4 DEF MarkSuccess, brokerVars, senderVars, history
  <2>6. QED
    BY <1>q, <1>f, <2>3, <2>4, <2>5
<1>5. ASSUME ProcessResend
      PROVE  CountInv'
  <2>1. handler[PUSH_MSG] \in Handlers
    BY <1>5, <1>q, HandlerBusy DEF ProcessResend, Stages, TypeOK
  <2>2. UNCHANGED tableVars /\ Moved(PUSH_MSG)
    BY <1>5, <1>q, <1>g, <2>1 DEF ProcessResend, Stages
  <2>3. Kept
    BY <1>5, <1>q, <2>1, PublishElsewhere DEF ProcessResend, senderVars, Handlers
  <2>4. QED
    BY <1>q, <1>s, <1>f, <2>2, <2>3
<1>6. ASSUME ProcessResendThrows
      PROVE  CountInv'
  <2>1. handler[PUSH_MSG] \in Handlers
    BY <1>6, <1>q, HandlerBusy DEF ProcessResendThrows, Stages, TypeOK
  <2>2. UNCHANGED tableVars /\ Moved(PUSH_MSG)
    BY <1>6, <1>q, <1>g, <2>1 DEF ProcessResendThrows, Abandon
  <2>3. Kept
    BY <1>6, <1>q DEF ProcessResendThrows, Abandon, Plus, senderVars, history, TypeOK, BrokerTypeOK
  <2>4. QED
    BY <1>q, <1>s, <1>f, <2>2, <2>3
<1>7. ASSUME ProcessMarkFail \/ ProcessMarkFailThrows
      PROVE  CountInv'
  <2>1. handler[PUSH_MSG] \in Handlers
    BY <1>7, <1>q, HandlerBusy DEF ProcessMarkFail, ProcessMarkFailThrows, Stages, TypeOK
  <2>2. /\ handler[PUSH_MSG].msg \in Msgs /\ handler[PUSH_MSG].failNum + 1 \in Nat
        /\ handler[PUSH_MSG].failNum + 1 <= failures[handler[PUSH_MSG].msg] + 1
    <3>1. handler[PUSH_MSG].msg \in Msgs /\ handler[PUSH_MSG].failNum \in Nat
      BY <2>1 DEF Handlers
    <3>2. failures[handler[PUSH_MSG].msg] \in Nat
      BY <3>1 DEF TypeOK, TableTypeOK
    <3>3. handler[PUSH_MSG].failNum <= failures[handler[PUSH_MSG].msg]
      BY <1>q, <1>g, <2>1
    <3>4. QED
      BY <3>1, <3>2, <3>3
  <2>3. Written
    BY <1>7, <2>2, CountUpdate DEF ProcessMarkFail, ProcessMarkFailThrows, Results, Failed
  <2>4. Moved(PUSH_MSG)
    BY <1>7, <1>q, <1>g, <2>1 DEF ProcessMarkFail, ProcessMarkFailThrows, Abandon, Stages
  <2>5. Kept
    <3>1. CASE ProcessMarkFail
      BY <3>1 DEF ProcessMarkFail, brokerVars, senderVars, history
    <3>2. CASE ProcessMarkFailThrows
      <4>1. UNCHANGED <<ready, callback, acked>>
        BY <3>2 DEF ProcessMarkFailThrows, senderVars, history
      <4>2. stuck' = stuck \/ stuck' = Plus(stuck, PUSH_MSG, handler[PUSH_MSG].msg)
        BY <3>2 DEF ProcessMarkFailThrows, Abandon
      <4>3. stuck'[FAIL_PUSH_MSG] = stuck[FAIL_PUSH_MSG]
        BY <1>q, <4>2, PlusElsewhere DEF TypeOK, BrokerTypeOK
      <4>4. QED
        BY <4>1, <4>3
    <3>3. QED
      BY <1>7, <3>1, <3>2
  <2>6. QED
    BY <1>q, <1>f, <2>3, <2>4, <2>5
<1>8. ASSUME ProcessAck \/ RetryAck
      PROVE  CountInv'
  <2>1. UNCHANGED tableVars /\ (Moved(PUSH_MSG) \/ Moved(RETRY_PUSH_MSG))
    BY <1>8 DEF ProcessAck, RetryAck, Acknowledge, Finish
  <2>2. Kept
    <3>1. UNCHANGED <<ready, stuck, callback>>
      BY <1>8 DEF ProcessAck, RetryAck, brokerVars, senderVars
    <3>2. Acknowledge(PUSH_MSG) \/ Acknowledge(RETRY_PUSH_MSG)
      BY <1>8 DEF ProcessAck, RetryAck
    <3>3. acked'[FAIL_PUSH_MSG] = acked[FAIL_PUSH_MSG]
      BY <1>q, <3>2, AckElsewhere
    <3>4. QED
      BY <3>1, <3>3
  <2>3. QED
    BY <1>q, <1>s, <1>f, <2>1, <2>2
<1>9. ASSUME NEW m \in Msgs, RetrySelect(m)
      PROVE  CountInv'
  <2>1. RetryEntry(m) \in Stages
    BY DEF RetryEntry, Stages
  <2>2. UNCHANGED tableVars /\ Moved(RETRY_PUSH_MSG)
    BY <1>9, <2>1 DEF RetrySelect, Begin
  <2>3. Kept
    BY <1>9, <1>q DEF RetrySelect, Deliver, Minus, senderVars, history, TypeOK, BrokerTypeOK
  <2>4. QED
    BY <1>q, <1>s, <1>f, <2>2, <2>3
<1>10. ASSUME RetryNack
       PROVE  CountInv'
  <2>1. UNCHANGED tableVars /\ Moved(RETRY_PUSH_MSG)
    BY <1>10 DEF RetryNack, Finish
  <2>2. ready'[FAIL_PUSH_MSG] = ready[FAIL_PUSH_MSG]
    <3>1. ready' = ready \/ ready' = Plus(ready, DeadLetterQueue, handler[RETRY_PUSH_MSG].msg)
      BY <1>10 DEF RetryNack, Enqueue
    <3>2. QED
      BY <1>q, <3>1, PlusElsewhere DEF TypeOK, BrokerTypeOK
  <2>3. Kept
    BY <1>10, <2>2 DEF RetryNack, senderVars
  <2>4. QED
    BY <1>q, <1>s, <1>f, <2>1, <2>3
<1>11. QED
  BY <1>1, <1>2, <1>3, <1>4, <1>5, <1>6, <1>7, <1>8, <1>9, <1>10
  DEF Process, ProcessPush, ProcessMarkSuccess, Retry, RetryPush, RetryMarkSuccess, Stages

LEMMA CountRest ==
    ASSUME TypeOK, TypeOK', CountInv,
           \/ (Fail \/ Disturbed) /\ UNCHANGED ConsumerRest
           \/ Task \/ Crash \/ \E q \in Consumed : ChannelLost(q)
           \/ UNCHANGED vars
    PROVE  CountInv'
<1> USE DEF CountInv
<1>q. /\ FAIL_PUSH_MSG \in Queues
      /\ RETRY_PUSH_MSG \in Queues \ {FAIL_PUSH_MSG}
      /\ Consumed \subseteq Queues \ {FAIL_PUSH_MSG}
  BY DEF Queues, Consumed, PUSH_MSG, RETRY_PUSH_MSG, FAIL_PUSH_MSG
<1>s. UNCHANGED tableVars
  BY DEF Fail, FailAck, Disturbed, TimePasses, SelectThrows, Task, ScanSelect, ScanPublish,
         Crash, ChannelLost, vars
<1>w. \A m \in Msgs : failNum'[m] <= failures'[m] /\ failures[m] <= failures'[m]
  BY <1>s, CountSame
<1>1. CASE Fail
  <2>1. \A m \in Msgs : FailSeen(m)' => FailSeen(m)
    BY <1>1, <1>q DEF Fail, FailAck, Deliver, Minus, FailSeen, TypeOK, BrokerTypeOK, ConsumerTypeOK
  <2>2. UNCHANGED <<handler, callback>>
    BY <1>1 DEF Fail, FailAck, senderVars
  <2>3. QED
    BY <1>w, <2>1, <2>2, CountFrame DEF HandlersCount, CallbacksCount, FailCount
<1>2. CASE Disturbed
  <2>1. UNCHANGED <<ready[FAIL_PUSH_MSG], stuck[FAIL_PUSH_MSG], acked, handler, callback>>
    BY <1>2, <1>q
    DEF Disturbed, TimePasses, SelectThrows, Deliver, Plus, Minus, brokerVars, senderVars,
        consumerVars, history, TypeOK, BrokerTypeOK
  <2>2. QED
    BY <1>w, <2>1, CountFrame DEF HandlersCount, CallbacksCount, FailCount, FailSeen
<1>3. CASE Task
  <2>1. UNCHANGED <<ready[FAIL_PUSH_MSG], stuck[FAIL_PUSH_MSG], acked, handler, callback>>
    BY <1>3, <1>q, PublishElsewhere
    DEF Task, ScanSelect, ScanPublish, PublishThrows, brokerVars, senderVars, consumerVars, history
  <2>2. QED
    BY <1>w, <2>1, CountFrame DEF HandlersCount, CallbacksCount, FailCount, FailSeen
<1>4. CASE Crash
  <2>1. \A m \in Msgs : Copies(FAIL_PUSH_MSG, m) > 0 => FailSeen(m)
    BY <1>q DEF Copies, InHand, FailSeen, HandlersCount, TypeOK, BrokerTypeOK
  <2>2. \A m \in Msgs : FailSeen(m)' => FailSeen(m)
    BY <1>4, <1>q, <2>1 DEF Crash, history, Empty, FailSeen
  <2>3. (\A q \in Queues : handler'[q] = Idle) /\ (\A t \in Confirmers : callback'[t] = NoCallback)
    BY <1>4 DEF Crash
  <2>4. QED
    BY <1>w, <1>q, <2>2, <2>3, CountFrame DEF FailCount
<1>5. ASSUME NEW q \in Consumed, ChannelLost(q)
      PROVE  CountInv'
  <2>1. UNCHANGED <<ready[FAIL_PUSH_MSG], stuck[FAIL_PUSH_MSG], acked, callback>>
    BY <1>5, <1>q DEF ChannelLost, senderVars, history, TypeOK, BrokerTypeOK
  <2>2. /\ \A p \in Queues \ {q} : handler'[p] = handler[p]
        /\ handler'[q] = IF handler[q] = Idle THEN Idle
                         ELSE Job(handler[q].at, handler[q].msg, handler[q].failNum, FALSE)
    BY <1>5, <1>q DEF ChannelLost, TypeOK, ConsumerTypeOK
  <2>3. /\ handler'[FAIL_PUSH_MSG] = Idle
        /\ \A p \in Queues : handler'[p] # Idle => handler'[p].failNum <= failures[handler'[p].msg]
    BY <1>q, <2>2 DEF HandlersCount, Job
  <2>4. QED
    BY <1>w, <2>1, <2>3, CountFrame DEF CallbacksCount, FailCount, FailSeen
<1>6. CASE UNCHANGED vars
  BY <1>6, <1>w, CountFrame
  DEF vars, brokerVars, senderVars, consumerVars, history, HandlersCount, CallbacksCount,
      FailCount, FailSeen
<1>7. QED
  BY <1>1, <1>2, <1>3, <1>4, <1>5, <1>6

\* A message in the fail queue, or acknowledged there by processFail, has failed at
\* least three times: the counting in confirm and process, from values that may be
\* stale, errs on the side of trying again.
THEOREM FailQueueCorrect == Spec => []FailQueueAfterLimit
<1>1. Init => CountInv
  BY DEF Init, TableInit, BrokerInit, SenderInit, ConsumerInit, Empty, Queues, FAIL_PUSH_MSG,
         CountInv, RowsCount, HandlersCount, CallbacksCount, FailCount, FailSeen
<1>2. TypeOK /\ TypeOK' /\ CountInv /\ [Next]_vars => CountInv'
  BY CountSender, CountListeners, CountRest DEF Next
<1>3. TypeOK /\ CountInv => FailQueueAfterLimit
  BY DEF TypeOK, BrokerTypeOK, CountInv, FailCount, FailSeen, HandlersCount, FailQueueAfterLimit,
         Copies, InHand, Queues
<1>4. QED
  BY <1>1, <1>2, <1>3, TypeCorrect, PTL DEF Spec

================================================================================
