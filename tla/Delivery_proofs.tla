---------------------------- MODULE Delivery_proofs ----------------------------
(***************************************************************************)
(* The table knows every message the pipeline works for, and the pipeline   *)
(* implements Delivery.                                                     *)
(***************************************************************************)
EXTENDS AsyncPipeline_proofs

\* KnownMessages, with a broker's copies apart from the one a listener holds, and
\* what makes it inductive: request threads and the scan task know their messages.
Expected(q, m) == RowExists(m) \/ (q = PUSH_MSG /\ m \in Foreign)
CopiesKnown == \A q \in Queues, m \in Msgs : ready[q][m] > 0 \/ stuck[q][m] > 0 => Expected(q, m)
NackedKnown == \A m \in Msgs : nacked[m] > 0 => RowExists(m)
HandlersKnown == \A q \in Queues : handler[q] # Idle => RowExists(handler[q].msg)
CallbacksKnown == \A t \in Confirmers : callback[t] # NoCallback => RowExists(callback[t].msg)
RequestsKnown == \A m \in Msgs : request[m] = "inserted" => RowExists(m)
ScanKnown == \A m \in scan : RowExists(m)

KnownInv ==
    /\ CopiesKnown /\ NackedKnown /\ HandlersKnown
    /\ CallbacksKnown /\ RequestsKnown /\ ScanKnown

\* Rows are never deleted.
RowsStay == \A m \in Msgs : RowExists(m) => RowExists(m)'

LEMMA QueueNames ==
    /\ PUSH_MSG \in Queues /\ RETRY_PUSH_MSG \in Queues /\ FAIL_PUSH_MSG \in Queues
    /\ PUSH_MSG # RETRY_PUSH_MSG /\ PUSH_MSG # FAIL_PUSH_MSG /\ RETRY_PUSH_MSG # FAIL_PUSH_MSG
BY DEF Queues, PUSH_MSG, RETRY_PUSH_MSG, FAIL_PUSH_MSG

LEMMA UpdateKeepsRows ==
    ASSUME TypeOK, NEW k \in Msgs, NEW s \in Results, NEW n \in Nat,
           UpdateStatus(k, s, n) \/ UpdateStatusThrows(k, s, n)
    PROVE  RowsStay
<1>1. CASE UpdateRow(k, s, n)
  BY <1>1 DEF UpdateRow, RowsStay, RowExists, Results, Failed, NO_ROW, tableVars, TypeOK, TableTypeOK
<1>2. CASE UNCHANGED tableVars
  BY <1>2 DEF tableVars, RowsStay, RowExists
<1>3. QED
  BY <1>1, <1>2 DEF UpdateStatus, UpdateStatusThrows

LEMMA TableKeepsRows ==
    ASSUME UNCHANGED tableVars
    PROVE  RowsStay
BY DEF tableVars, RowsStay, RowExists

\* Publishing a message the table knows.
LEMMA KnownPublish ==
    ASSUME TypeOK, KnownInv, RowsStay, NEW q \in Queues, NEW m \in Msgs, result'[m] # NO_ROW,
           Publish(q, m)
    PROVE  CopiesKnown' /\ NackedKnown'
<1>1. \A p \in Queues, k \in Msgs : ready'[p][k] > 0 => ready[p][k] > 0 \/ k = m
  BY DEF Publish, Enqueue, Plus, TypeOK, BrokerTypeOK
<1>2. \A k \in Msgs : nacked'[k] > 0 => nacked[k] > 0 \/ k = m
  BY DEF Publish, Nack, TypeOK, BrokerTypeOK
<1>3. UNCHANGED stuck
  BY DEF Publish
<1>4. QED
  BY <1>1, <1>2, <1>3 DEF KnownInv, CopiesKnown, NackedKnown, Expected, RowsStay, RowExists

\* Steps that add no copies and no nacks.
LEMMA KnownBroker ==
    ASSUME KnownInv, RowsStay,
           \A q \in Queues, m \in Msgs :
               ready'[q][m] > 0 \/ stuck'[q][m] > 0 => ready[q][m] > 0 \/ stuck[q][m] > 0 \/ RowExists(m)',
           \A m \in Msgs : nacked'[m] > 0 => nacked[m] > 0
    PROVE  CopiesKnown' /\ NackedKnown'
BY DEF KnownInv, CopiesKnown, NackedKnown, Expected, RowsStay

LEMMA KnownHandlers ==
    ASSUME TypeOK, KnownInv, RowsStay,
           \A q \in Queues : handler'[q] # Idle =>
               result'[handler'[q].msg] # NO_ROW \/ (handler[q] # Idle /\ handler'[q].msg = handler[q].msg)
    PROVE  HandlersKnown'
BY DEF KnownInv, HandlersKnown, RowsStay, RowExists, TypeOK, ConsumerTypeOK, Handlers

LEMMA KnownCallbacks ==
    ASSUME TypeOK, KnownInv, RowsStay,
           \A t \in Confirmers : callback'[t] # NoCallback =>
               result'[callback'[t].msg] # NO_ROW \/ (callback[t] # NoCallback /\ callback'[t].msg = callback[t].msg)
    PROVE  CallbacksKnown'
BY DEF KnownInv, CallbacksKnown, RowsStay, RowExists, TypeOK, SenderTypeOK, Callbacks

\* What the sender's steps leave alone.
LEMMA KnownRequests ==
    ASSUME KnownInv, RowsStay, UNCHANGED request
    PROVE  RequestsKnown'
BY DEF KnownInv, RequestsKnown, RowsStay

LEMMA KnownScan ==
    ASSUME TypeOK, KnownInv, RowsStay, scan' \subseteq scan
    PROVE  ScanKnown'
BY DEF KnownInv, ScanKnown, RowsStay, TypeOK

--------------------------------------------------------------------------------
LEMMA KnownSender ==
    ASSUME TypeOK, KnownInv, Sender, UNCHANGED SenderRest
    PROVE  KnownInv' /\ RowsStay
<1>q. PUSH_MSG \in Queues
  BY QueueNames
<1>u. UNCHANGED <<handler, scan>>
  BY DEF SenderRest, consumerVars, taskVars
<1>r. ASSUME RowsStay
      PROVE  HandlersKnown' /\ ScanKnown'
  BY <1>r, <1>u, KnownHandlers, KnownScan
<1>1. ASSUME NEW m \in Msgs, SendMsgInsert(m)
      PROVE  KnownInv' /\ RowsStay
  <2>1. RowsStay
    BY <1>1 DEF SendMsgInsert, Insert, tableVars, RowsStay, RowExists, NO_ROW, TypeOK, TableTypeOK
  <2>2. RequestsKnown'
    BY <1>1, <2>1
    DEF SendMsgInsert, Insert, KnownInv, RequestsKnown, RowsStay, RowExists, NO_ROW,
        TypeOK, TableTypeOK, SenderTypeOK
  <2>3. CopiesKnown' /\ NackedKnown' /\ CallbacksKnown'
    BY <1>1, <2>1, KnownBroker, KnownCallbacks DEF SendMsgInsert, brokerVars
  <2>4. QED
    BY <1>r, <2>1, <2>2, <2>3 DEF KnownInv
<1>2. ASSUME NEW m \in Msgs, SendMsgPublish(m)
      PROVE  KnownInv' /\ RowsStay
  <2>1. RowsStay /\ result'[m] # NO_ROW
    BY <1>2, TableKeepsRows DEF SendMsgPublish, KnownInv, RequestsKnown, RowsStay, RowExists
  <2>2. RequestsKnown'
    BY <1>2, <2>1 DEF SendMsgPublish, KnownInv, RequestsKnown, RowsStay, TypeOK, SenderTypeOK
  <2>3. CallbacksKnown'
    BY <1>2, <2>1, KnownCallbacks DEF SendMsgPublish
  <2>4. CopiesKnown' /\ NackedKnown'
    BY <1>2, <1>q, <2>1, KnownPublish, KnownBroker DEF SendMsgPublish, PublishThrows, brokerVars
  <2>5. QED
    BY <1>r, <2>1, <2>2, <2>3, <2>4 DEF KnownInv
<1>3. ASSUME NEW m \in Msgs, ForeignPublish(m)
      PROVE  KnownInv' /\ RowsStay
  <2>1. RowsStay
    BY <1>3, TableKeepsRows DEF ForeignPublish
  <2>2. RequestsKnown' /\ NackedKnown'
    BY <1>3, <2>1
    DEF ForeignPublish, KnownInv, RequestsKnown, NackedKnown, RowsStay, TypeOK, SenderTypeOK
  <2>3. CallbacksKnown'
    BY <1>3, <2>1, KnownCallbacks DEF ForeignPublish
  <2>4. CopiesKnown'
    <3>1. \A q \in Queues, k \in Msgs :
            ready'[q][k] > 0 => ready[q][k] > 0 \/ (q = PUSH_MSG /\ k \in Foreign)
      BY <1>3, <1>q DEF ForeignPublish, Enqueue, Plus, TypeOK, BrokerTypeOK
    <3>2. QED
      BY <1>3, <2>1, <3>1 DEF ForeignPublish, KnownInv, CopiesKnown, Expected, RowsStay
  <2>5. QED
    BY <1>r, <2>1, <2>2, <2>3, <2>4 DEF KnownInv
<1>4. ASSUME NEW t \in Confirmers, NEW m \in Msgs, ConfirmSelect(t, m)
      PROVE  KnownInv' /\ RowsStay
  <2>1. RowsStay /\ result'[m] # NO_ROW
    BY <1>4, TableKeepsRows DEF ConfirmSelect, KnownInv, NackedKnown, RowsStay, RowExists
  <2>2. CopiesKnown' /\ NackedKnown'
    BY <1>4, <2>1, KnownBroker DEF ConfirmSelect, TypeOK, BrokerTypeOK
  <2>3. CallbacksKnown'
    BY <1>4, <2>1, KnownCallbacks DEF ConfirmSelect, Reading, TypeOK, SenderTypeOK
  <2>4. RequestsKnown'
    BY <1>4, <2>1, KnownRequests DEF ConfirmSelect
  <2>5. QED
    BY <1>r, <2>1, <2>2, <2>3, <2>4 DEF KnownInv
<1>5. ASSUME NEW t \in Confirmers, ConfirmRepublish(t)
      PROVE  KnownInv' /\ RowsStay
  <2>1. callback[t] \in Callbacks /\ callback[t] # NoCallback
    BY <1>5, CallbackBusy DEF ConfirmRepublish, TypeOK, NoCallback
  <2>2. RowsStay /\ result'[callback[t].msg] # NO_ROW /\ callback[t].msg \in Msgs
    BY <1>5, <2>1, TableKeepsRows DEF ConfirmRepublish, KnownInv, CallbacksKnown, RowsStay, RowExists, Callbacks
  <2>3. CopiesKnown' /\ NackedKnown'
    <3>1. ASSUME NEW q \in Queues, Publish(q, callback[t].msg)
          PROVE  CopiesKnown' /\ NackedKnown'
      BY <2>2, <3>1, KnownPublish
    <3>2. CASE PublishThrows
      BY <2>2, <3>2, KnownBroker DEF PublishThrows, brokerVars
    <3>3. QED
      BY <1>5, <3>1, <3>2, QueueNames DEF ConfirmRepublish
  <2>4. CallbacksKnown'
    BY <1>5, <2>1, <2>2, KnownCallbacks DEF ConfirmRepublish, Reading, TypeOK, SenderTypeOK
  <2>5. RequestsKnown'
    BY <1>5, <2>2, KnownRequests DEF ConfirmRepublish
  <2>6. QED
    BY <1>r, <2>2, <2>3, <2>4, <2>5 DEF KnownInv
<1>6. ASSUME NEW t \in Confirmers, ConfirmUpdate(t)
      PROVE  KnownInv' /\ RowsStay
  <2>1. callback[t] \in Callbacks
    BY <1>6, CallbackBusy DEF ConfirmUpdate, TypeOK
  <2>2. RowsStay
    BY <1>6, <2>1, UpdateKeepsRows DEF ConfirmUpdate, Callbacks, Results, Failed
  <2>3. CopiesKnown' /\ NackedKnown' /\ RequestsKnown'
    BY <1>6, <2>2, KnownBroker, KnownRequests DEF ConfirmUpdate, brokerVars
  <2>4. CallbacksKnown'
    BY <1>6, <2>2, KnownCallbacks DEF ConfirmUpdate, TypeOK, SenderTypeOK
  <2>5. QED
    BY <1>r, <2>2, <2>3, <2>4 DEF KnownInv
<1>7. QED
  BY <1>1, <1>2, <1>3, <1>4, <1>5, <1>6 DEF Sender, Callback

\* A listener's step that publishes nothing and lets go of nothing but its own copy.
ListenerStep(q) ==
    /\ UNCHANGED <<ready, nacked, senderVars, scan>>
    /\ stuck' = stuck \/ stuck' = Plus(stuck, q, handler[q].msg)
    /\ \A p \in Queues : \/ handler'[p] = handler[p]
                         \/ handler'[p] = Idle
                         \/ p = q /\ handler'[p].msg = handler[q].msg

LEMMA KnownListener ==
    ASSUME TypeOK, KnownInv, RowsStay, NEW q \in Queues, handler[q] \in Handlers, ListenerStep(q)
    PROVE  KnownInv'
<1>1. handler[q] # Idle /\ handler[q].msg \in Msgs
  BY DEF Handlers, Idle
<1>2. result'[handler[q].msg] # NO_ROW
  BY <1>1 DEF KnownInv, HandlersKnown, RowsStay, RowExists
<1>3. \A p \in Queues, m \in Msgs : stuck'[p][m] > 0 => stuck[p][m] > 0 \/ m = handler[q].msg
  BY <1>1 DEF ListenerStep, Plus, TypeOK, BrokerTypeOK
<1>4. CopiesKnown' /\ NackedKnown'
  BY <1>2, <1>3 DEF ListenerStep, KnownInv, CopiesKnown, NackedKnown, Expected, RowsStay, RowExists
<1>5. HandlersKnown'
  BY <1>1, KnownHandlers DEF ListenerStep
<1>6. CallbacksKnown' /\ RequestsKnown' /\ ScanKnown'
  BY KnownCallbacks, KnownRequests, KnownScan DEF ListenerStep, senderVars
<1>7. QED
  BY <1>4, <1>5, <1>6 DEF KnownInv

\* A listener takes up a delivery of a message with a row.
LEMMA KnownBegin ==
    ASSUME TypeOK, KnownInv, NEW q \in Queues, NEW m \in Msgs, RowExists(m), NEW stage,
           Deliver(q, m), Begin(q, m, stage),
           UNCHANGED <<tableVars, stuck, nacked, senderVars, scan>>
    PROVE  KnownInv' /\ RowsStay
<1>1. RowsStay
  BY TableKeepsRows
<1>2. CopiesKnown' /\ NackedKnown'
  BY <1>1, KnownBroker DEF Deliver, Minus, TypeOK, BrokerTypeOK
<1>3. HandlersKnown'
  BY <1>1, KnownHandlers DEF Begin, Job, tableVars, RowExists, TypeOK, ConsumerTypeOK
<1>4. CallbacksKnown' /\ RequestsKnown' /\ ScanKnown'
  BY <1>1, KnownCallbacks, KnownRequests, KnownScan DEF senderVars
<1>5. QED
  BY <1>1, <1>2, <1>3, <1>4 DEF KnownInv

\* The steps process and processRetry share.
LEMMA KnownPushing ==
    ASSUME TypeOK, KnownInv, NEW q \in Queues, NEW onError \in {"failed", "nacking"},
           Push(q, onError) \/ MarkSuccess(q, onError), UNCHANGED ConsumerRest
    PROVE  KnownInv' /\ RowsStay
<1>1. handler[q] \in Handlers
  BY HandlerBusy DEF Push, MarkSuccess, Stages, TypeOK
<1>2. RowsStay
  BY <1>1, TableKeepsRows, UpdateKeepsRows DEF Push, MarkSuccess, Handlers, Results
<1>3. \A p \in Queues : handler'[p] = handler[p] \/ (p = q /\ handler'[p].msg = handler[q].msg)
  BY <1>1 DEF Push, MarkSuccess, Goto, Job, TypeOK, ConsumerTypeOK
<1>4. UNCHANGED <<ready, stuck, nacked, senderVars, scan>>
  BY DEF Push, MarkSuccess, brokerVars, ConsumerRest, taskVars
<1>5. QED
  BY <1>1, <1>2, <1>3, <1>4, KnownListener DEF ListenerStep

LEMMA KnownProcess ==
    ASSUME TypeOK, KnownInv, Process, UNCHANGED ConsumerRest
    PROVE  KnownInv' /\ RowsStay
<1>q. PUSH_MSG \in Queues /\ RETRY_PUSH_MSG \in Queues
  BY QueueNames
<1>s. UNCHANGED scan
  BY DEF ConsumerRest, taskVars
<1>1. ASSUME NEW m \in Msgs, ProcessReject(m)
      PROVE  KnownInv' /\ RowsStay
  <2>1. RowsStay
    BY <1>1, TableKeepsRows DEF ProcessReject
  <2>2. CopiesKnown' /\ NackedKnown'
    BY <1>1, <1>q, <2>1, KnownBroker DEF ProcessReject, Deliver, Minus, TypeOK, BrokerTypeOK
  <2>3. HandlersKnown' /\ CallbacksKnown' /\ RequestsKnown' /\ ScanKnown'
    BY <1>1, <1>s, <2>1, KnownHandlers, KnownCallbacks, KnownRequests, KnownScan
    DEF ProcessReject, senderVars
  <2>4. QED
    BY <2>1, <2>2, <2>3 DEF KnownInv
<1>2. ASSUME NEW m \in Msgs, ProcessSelect(m)
      PROVE  KnownInv' /\ RowsStay
  BY <1>2, <1>q, <1>s, KnownBegin DEF ProcessSelect, Invalid
<1>3. ASSUME ProcessPush \/ ProcessMarkSuccess
      PROVE  KnownInv' /\ RowsStay
  BY <1>3, <1>q, KnownPushing DEF ProcessPush, ProcessMarkSuccess
<1>4. ASSUME ProcessResend
      PROVE  KnownInv' /\ RowsStay
  <2>1. handler[PUSH_MSG] \in Handlers
    BY <1>4, <1>q, HandlerBusy DEF ProcessResend, Stages, TypeOK
  <2>2. RowsStay /\ result'[handler[PUSH_MSG].msg] # NO_ROW /\ handler[PUSH_MSG].msg \in Msgs
    BY <1>4, <1>q, <2>1, TableKeepsRows
    DEF ProcessResend, KnownInv, HandlersKnown, RowsStay, RowExists, Handlers, Idle
  <2>3. CopiesKnown' /\ NackedKnown'
    BY <1>4, <1>q, <2>2, KnownPublish DEF ProcessResend
  <2>4. HandlersKnown'
    BY <1>4, <2>1, <2>2, KnownHandlers
    DEF ProcessResend, Goto, Job, Handlers, Idle, TypeOK, ConsumerTypeOK
  <2>5. CallbacksKnown' /\ RequestsKnown' /\ ScanKnown'
    BY <1>4, <1>s, <2>2, KnownCallbacks, KnownRequests, KnownScan DEF ProcessResend, senderVars
  <2>6. QED
    BY <2>2, <2>3, <2>4, <2>5 DEF KnownInv
<1>5. ASSUME ProcessResendThrows \/ ProcessAck
      PROVE  KnownInv' /\ RowsStay
  <2>1. handler[PUSH_MSG] \in Handlers
    BY <1>5, <1>q, HandlerBusy DEF ProcessResendThrows, ProcessAck, Stages, TypeOK
  <2>2. RowsStay
    BY <1>5, TableKeepsRows DEF ProcessResendThrows, ProcessAck
  <2>3. ListenerStep(PUSH_MSG)
    BY <1>5, <1>q, <1>s
    DEF ProcessResendThrows, ProcessAck, Abandon, Acknowledge, Finish, brokerVars, ListenerStep,
        TypeOK, ConsumerTypeOK
  <2>4. QED
    BY <1>q, <2>1, <2>2, <2>3, KnownListener
<1>6. ASSUME ProcessMarkFail \/ ProcessMarkFailThrows
      PROVE  KnownInv' /\ RowsStay
  <2>1. handler[PUSH_MSG] \in Handlers
    BY <1>6, <1>q, HandlerBusy DEF ProcessMarkFail, ProcessMarkFailThrows, Stages, TypeOK
  <2>2. RowsStay
    BY <1>6, <2>1, UpdateKeepsRows
    DEF ProcessMarkFail, ProcessMarkFailThrows, Handlers, Results, Failed
  <2>3. /\ UNCHANGED <<ready, nacked, senderVars>>
        /\ stuck' = stuck \/ stuck' = Plus(stuck, PUSH_MSG, handler[PUSH_MSG].msg)
    BY <1>6 DEF ProcessMarkFail, ProcessMarkFailThrows, Abandon, brokerVars
  <2>4. \A p \in Queues : \/ handler'[p] = handler[p]
                          \/ handler'[p] = Idle
                          \/ p = PUSH_MSG /\ handler'[p].msg = handler[PUSH_MSG].msg
    BY <1>6, <2>1
    DEF ProcessMarkFail, ProcessMarkFailThrows, Abandon, Finish, Goto, Job, TypeOK, ConsumerTypeOK
  <2>5. QED
    BY <1>q, <1>s, <2>1, <2>2, <2>3, <2>4, KnownListener DEF ListenerStep
<1>7. QED
  BY <1>1, <1>2, <1>3, <1>4, <1>5, <1>6 DEF Process

LEMMA KnownRetry ==
    ASSUME TypeOK, KnownInv, Retry, UNCHANGED ConsumerRest
    PROVE  KnownInv' /\ RowsStay
<1>q. RETRY_PUSH_MSG \in Queues /\ RETRY_PUSH_MSG # PUSH_MSG
  BY QueueNames
<1>s. UNCHANGED scan
  BY DEF ConsumerRest, taskVars
<1>1. ASSUME NEW m \in Msgs, RetrySelect(m)
      PROVE  KnownInv' /\ RowsStay
  <2>1. RowExists(m)
    BY <1>1, <1>q DEF RetrySelect, Deliver, KnownInv, CopiesKnown, Expected
  <2>2. QED
    BY <1>1, <1>q, <1>s, <2>1, KnownBegin DEF RetrySelect
<1>2. ASSUME RetryPush \/ RetryMarkSuccess
      PROVE  KnownInv' /\ RowsStay
  BY <1>2, <1>q, KnownPushing DEF RetryPush, RetryMarkSuccess
<1>3. ASSUME RetryAck
      PROVE  KnownInv' /\ RowsStay
  <2>1. handler[RETRY_PUSH_MSG] \in Handlers
    BY <1>3, <1>q, HandlerBusy DEF RetryAck, Stages, TypeOK
  <2>2. RowsStay
    BY <1>3, TableKeepsRows DEF RetryAck
  <2>3. ListenerStep(RETRY_PUSH_MSG)
    BY <1>3, <1>q, <1>s
    DEF RetryAck, Acknowledge, Finish, brokerVars, ListenerStep, TypeOK, ConsumerTypeOK
  <2>4. QED
    BY <1>q, <2>1, <2>2, <2>3, KnownListener
<1>4. ASSUME RetryNack
      PROVE  KnownInv' /\ RowsStay
  <2>1. handler[RETRY_PUSH_MSG] \in Handlers /\ handler[RETRY_PUSH_MSG] # Idle
    BY <1>4, <1>q, HandlerBusy DEF RetryNack, Stages, TypeOK, Idle
  <2>2. RowsStay /\ RowExists(handler[RETRY_PUSH_MSG].msg) /\ handler[RETRY_PUSH_MSG].msg \in Msgs
    BY <1>4, <1>q, <2>1, TableKeepsRows DEF RetryNack, KnownInv, HandlersKnown, Handlers
  <2>3. \A q \in Queues, m \in Msgs :
          ready'[q][m] > 0 => ready[q][m] > 0 \/ m = handler[RETRY_PUSH_MSG].msg
    <3>1. ready' = ready \/ Enqueue(RETRY_PUSH_MSG, handler[RETRY_PUSH_MSG].msg)
      BY <1>4 DEF RetryNack, DeadLetterQueue
    <3>2. QED
      BY <1>q, <2>2, <3>1 DEF Enqueue, Plus, TypeOK, BrokerTypeOK
  <2>4. CopiesKnown' /\ NackedKnown'
    BY <1>4, <2>2, <2>3 DEF RetryNack, KnownInv, CopiesKnown, NackedKnown, Expected, RowsStay
  <2>5. HandlersKnown'
    BY <1>4, <2>2, KnownHandlers DEF RetryNack, Finish, TypeOK, ConsumerTypeOK
  <2>6. CallbacksKnown' /\ RequestsKnown' /\ ScanKnown'
    BY <1>4, <1>s, <2>2, KnownCallbacks, KnownRequests, KnownScan DEF RetryNack, senderVars
  <2>7. QED
    BY <2>2, <2>4, <2>5, <2>6 DEF KnownInv
<1>5. QED
  BY <1>1, <1>2, <1>3, <1>4 DEF Retry

LEMMA KnownRest ==
    ASSUME TypeOK, KnownInv,
           Fail \/ Disturbed \/ Task \/ Crash \/ \E q \in Consumed : ChannelLost(q),
           Task \/ Crash \/ (\E q \in Consumed : ChannelLost(q)) \/ UNCHANGED ConsumerRest
    PROVE  KnownInv' /\ RowsStay
<1>q. FAIL_PUSH_MSG \in Queues /\ RETRY_PUSH_MSG \in Queues /\ FAIL_PUSH_MSG # PUSH_MSG
  BY QueueNames
<1>t. UNCHANGED tableVars
  BY DEF Fail, FailAck, Disturbed, TimePasses, SelectThrows, Task, ScanSelect, ScanPublish,
         Crash, ChannelLost
<1>r. RowsStay
  BY <1>t, TableKeepsRows
<1>1. CASE Fail /\ UNCHANGED ConsumerRest
  <2>1. CopiesKnown' /\ NackedKnown'
    BY <1>1, <1>q, <1>r, KnownBroker DEF Fail, FailAck, Deliver, Minus, TypeOK, BrokerTypeOK
  <2>2. HandlersKnown' /\ CallbacksKnown' /\ RequestsKnown' /\ ScanKnown'
    BY <1>1, <1>r, KnownHandlers, KnownCallbacks, KnownRequests, KnownScan
    DEF Fail, FailAck, senderVars, ConsumerRest, taskVars
  <2>3. QED
    BY <1>r, <2>1, <2>2 DEF KnownInv
<1>2. CASE Disturbed /\ UNCHANGED ConsumerRest
  <2>1. CopiesKnown' /\ NackedKnown'
    <3>1. CASE UNCHANGED brokerVars
      BY <1>r, <3>1, KnownBroker DEF brokerVars
    <3>2. ASSUME NEW q \in Consumed, NEW m \in Msgs, SelectThrows(q, m)
          PROVE  CopiesKnown' /\ NackedKnown'
      <4>1. q \in Queues
        BY DEF Consumed, Queues
      <4>2. /\ ready[q][m] > 0
            /\ \A p \in Queues, k \in Msgs : ready'[p][k] > 0 => ready[p][k] > 0
            /\ \A p \in Queues, k \in Msgs : stuck'[p][k] > 0 => stuck[p][k] > 0 \/ (p = q /\ k = m)
        BY <3>2, <4>1 DEF SelectThrows, Deliver, Plus, Minus, TypeOK, BrokerTypeOK
      <4>3. UNCHANGED nacked
        BY <3>2 DEF SelectThrows
      <4>4. QED
        BY <1>r, <4>2, <4>3 DEF KnownInv, CopiesKnown, NackedKnown, Expected, RowsStay
    <3>3. QED
      BY <1>2, <3>1, <3>2 DEF Disturbed, TimePasses
  <2>2. UNCHANGED <<handler, callback, request, scan>>
    BY <1>2 DEF Disturbed, TimePasses, SelectThrows, consumerVars, senderVars, ConsumerRest, taskVars
  <2>3. HandlersKnown' /\ CallbacksKnown' /\ RequestsKnown' /\ ScanKnown'
    BY <1>r, <2>2, KnownHandlers, KnownCallbacks, KnownRequests, KnownScan
  <2>4. QED
    BY <1>r, <2>1, <2>3 DEF KnownInv
<1>3. CASE ScanSelect
  <2>1. ScanKnown'
    BY <1>3, <1>r DEF ScanSelect, PushFail, RowExists, Failed, NO_ROW, ScanKnown, RowsStay
  <2>2. UNCHANGED <<brokerVars, handler, callback, request>>
    BY <1>3 DEF ScanSelect, consumerVars, senderVars
  <2>3. QED
    BY <1>r, <2>1, <2>2, KnownBroker, KnownHandlers, KnownCallbacks, KnownRequests
    DEF KnownInv, brokerVars
<1>4. ASSUME NEW m \in Msgs, ScanPublish(m)
      PROVE  KnownInv'
  <2>1. result'[m] # NO_ROW
    BY <1>4, <1>r DEF ScanPublish, KnownInv, ScanKnown, RowsStay, RowExists
  <2>2. CopiesKnown' /\ NackedKnown'
    BY <1>4, <1>q, <1>r, <2>1, KnownPublish, KnownBroker DEF ScanPublish, PublishThrows, brokerVars
  <2>3. UNCHANGED <<handler, callback, request>> /\ scan' \subseteq scan
    BY <1>4 DEF ScanPublish, consumerVars, senderVars
  <2>4. QED
    BY <1>r, <2>2, <2>3, KnownHandlers, KnownCallbacks, KnownRequests, KnownScan DEF KnownInv
<1>5. CASE Crash
  <2>1. \A q \in Queues, m \in Msgs : Copies(q, m) > 0 =>
          \/ ready[q][m] > 0 \/ stuck[q][m] > 0
          \/ handler[q] # Idle /\ handler[q].msg = m
    BY DEF Copies, InHand, TypeOK, BrokerTypeOK
  <2>2. \A q \in Queues, m \in Msgs :
          /\ ready'[q][m] > 0 => ready[q][m] > 0 \/ stuck[q][m] > 0 \/ RowExists(m)
          /\ stuck'[q][m] = 0
    BY <1>5, <2>1 DEF Crash, Empty, KnownInv, HandlersKnown
  <2>3. CopiesKnown' /\ NackedKnown'
    BY <1>5, <1>r, <2>2 DEF Crash, KnownInv, CopiesKnown, NackedKnown, Expected, RowsStay
  <2>4. HandlersKnown' /\ CallbacksKnown' /\ RequestsKnown' /\ ScanKnown'
    BY <1>5, <1>r
    DEF Crash, KnownInv, HandlersKnown, CallbacksKnown, RequestsKnown, ScanKnown, RowsStay,
        TypeOK, SenderTypeOK
  <2>5. QED
    BY <1>r, <2>3, <2>4 DEF KnownInv
<1>6. ASSUME NEW q \in Consumed, ChannelLost(q)
      PROVE  KnownInv'
  <2>q. q \in Queues
    BY DEF Consumed, Queues
  <2>1. \A m \in Msgs : Copies(q, m) > 0 =>
          \/ ready[q][m] > 0 \/ stuck[q][m] > 0
          \/ handler[q] # Idle /\ handler[q].msg = m
    BY <2>q DEF Copies, InHand, TypeOK, BrokerTypeOK
  <2>2. \A p \in Queues, m \in Msgs :
          /\ ready'[p][m] > 0 => ready[p][m] > 0 \/ stuck[p][m] > 0 \/ RowExists(m)
          /\ stuck'[p][m] > 0 => stuck[p][m] > 0
    <3>1. ASSUME NEW p \in Queues \ {q}
          PROVE  ready'[p] = ready[p] /\ stuck'[p] = stuck[p]
      BY <1>6, <2>q DEF ChannelLost, TypeOK, BrokerTypeOK
    <3>2. \A m \in Msgs : ready'[q][m] = Copies(q, m) /\ stuck'[q][m] = 0
      BY <1>6, <2>q DEF ChannelLost, Empty, TypeOK, BrokerTypeOK
    <3>3. QED
      BY <2>q, <2>1, <3>1, <3>2 DEF KnownInv, HandlersKnown
  <2>3. CopiesKnown' /\ NackedKnown'
    BY <1>6, <1>r, <2>2 DEF ChannelLost, KnownInv, CopiesKnown, NackedKnown, Expected, RowsStay
  <2>4. HandlersKnown'
    BY <1>6, <1>r, <2>q, KnownHandlers DEF ChannelLost, Job, TypeOK, ConsumerTypeOK
  <2>5. UNCHANGED <<callback, request, scan>>
    BY <1>6 DEF ChannelLost, senderVars, taskVars
  <2>6. QED
    BY <1>r, <2>3, <2>4, <2>5, KnownCallbacks, KnownRequests, KnownScan DEF KnownInv
<1>7. QED
  BY <1>r, <1>1, <1>2, <1>3, <1>4, <1>5, <1>6 DEF Task, Fail, Disturbed

LEMMA KnownNext ==
    ASSUME TypeOK, KnownInv, [Next]_vars
    PROVE  KnownInv' /\ RowsStay
<1>1. CASE UNCHANGED vars
  BY <1>1
  DEF vars, tableVars, brokerVars, senderVars, consumerVars, taskVars, RowsStay, RowExists, KnownInv,
      CopiesKnown, NackedKnown, HandlersKnown, CallbacksKnown, RequestsKnown, ScanKnown, Expected
<1>2. CASE Next
  BY <1>2, KnownSender, KnownProcess, KnownRetry, KnownRest DEF Next
<1>3. QED
  BY <1>1, <1>2

LEMMA KnownInductive == Spec => []KnownInv
<1>1. Init => KnownInv
  BY DEF Init, TableInit, BrokerInit, SenderInit, ConsumerInit, Empty, KnownInv,
         CopiesKnown, NackedKnown, HandlersKnown, CallbacksKnown, RequestsKnown, ScanKnown
<1>2. TypeOK /\ KnownInv /\ [Next]_vars => KnownInv'
  BY KnownNext
<1>3. QED
  BY <1>1, <1>2, TypeCorrect, PTL DEF Spec

\* Whatever thread works for a message of this service, and wherever a copy of it is,
\* the table has its row: sendMsg writes it before it publishes and nothing deletes
\* it.  Only process can meet a message the table does not know.
THEOREM KnownCorrect == Spec => []KnownMessages
<1>1. TypeOK /\ KnownInv => KnownMessages
  BY DEF KnownInv, CopiesKnown, NackedKnown, HandlersKnown, CallbacksKnown, Expected, KnownMessages,
         Copies, InHand, TypeOK, BrokerTypeOK
<1>2. QED
  BY <1>1, TypeCorrect, KnownInductive, PTL

--------------------------------------------------------------------------------
(* The refinement *)

\* A message nobody has sent yet has no row.
Fresh == \A m \in Msgs : request[m] = "none" => result[m] = NO_ROW

LEMMA UpdateKeepsFresh ==
    ASSUME TypeOK, Fresh, NEW k \in Msgs, NEW s, NEW n, UNCHANGED request,
           UpdateStatus(k, s, n) \/ UpdateStatusThrows(k, s, n)
    PROVE  Fresh'
<1>1. CASE UpdateRow(k, s, n)
  BY <1>1 DEF UpdateRow, Fresh, RowExists, tableVars, TypeOK, TableTypeOK
<1>2. CASE UNCHANGED tableVars
  BY <1>2 DEF tableVars, Fresh
<1>3. QED
  BY <1>1, <1>2 DEF UpdateStatus, UpdateStatusThrows

LEMMA FreshNext ==
    ASSUME TypeOK, Fresh, [Next]_vars
    PROVE  Fresh'
<1>q. PUSH_MSG \in Queues /\ RETRY_PUSH_MSG \in Queues
  BY QueueNames
<1>1. ASSUME UNCHANGED <<tableVars, request>>
      PROVE  Fresh'
  BY <1>1 DEF tableVars, Fresh
<1>2. CASE Sender
  <2>1. ASSUME NEW m \in Msgs, SendMsgInsert(m)
        PROVE  Fresh'
    BY <2>1 DEF SendMsgInsert, Insert, Fresh, tableVars, TypeOK, TableTypeOK, SenderTypeOK
  <2>2. ASSUME NEW m \in Msgs, SendMsgPublish(m) \/ ForeignPublish(m)
        PROVE  Fresh'
    BY <2>2 DEF SendMsgPublish, ForeignPublish, Fresh, tableVars, TypeOK, SenderTypeOK
  <2>3. ASSUME NEW t \in Confirmers, ConfirmUpdate(t)
        PROVE  Fresh'
    <3>1. callback[t] \in Callbacks
      BY <2>3, CallbackBusy DEF ConfirmUpdate, TypeOK
    <3>2. QED
      BY <2>3, <3>1, UpdateKeepsFresh DEF ConfirmUpdate, Callbacks
  <2>4. QED
    BY <1>1, <1>2, <2>1, <2>2, <2>3 DEF Sender, Callback, ConfirmSelect, ConfirmRepublish
<1>3. ASSUME NEW q \in Queues, NEW onError, Push(q, onError) \/ MarkSuccess(q, onError)
      PROVE  Fresh'
  <2>1. handler[q] \in Handlers
    BY <1>3, HandlerBusy DEF Push, MarkSuccess, Stages, TypeOK
  <2>2. QED
    BY <1>1, <1>3, <2>1, UpdateKeepsFresh DEF Push, MarkSuccess, Handlers, senderVars
<1>4. CASE Process
  <2>1. ASSUME ProcessMarkFail \/ ProcessMarkFailThrows
        PROVE  Fresh'
    <3>1. handler[PUSH_MSG] \in Handlers
      BY <2>1, <1>q, HandlerBusy DEF ProcessMarkFail, ProcessMarkFailThrows, Stages, TypeOK
    <3>2. QED
      BY <2>1, <3>1, UpdateKeepsFresh DEF ProcessMarkFail, ProcessMarkFailThrows, Handlers, senderVars
  <2>2. QED
    BY <1>q, <1>1, <1>3, <1>4, <2>1
    DEF Process, ProcessPush, ProcessMarkSuccess, ProcessReject, ProcessSelect, ProcessResend,
        ProcessResendThrows, ProcessAck, senderVars
<1>5. CASE Retry
  BY <1>q, <1>1, <1>3, <1>5
  DEF Retry, RetryPush, RetryMarkSuccess, RetrySelect, RetryAck, RetryNack, senderVars
<1>6. CASE Crash
  BY <1>6 DEF Crash, Fresh, tableVars
<1>7. CASE Fail \/ Disturbed \/ Task \/ (\E q \in Consumed : ChannelLost(q)) \/ UNCHANGED vars
  BY <1>1, <1>7
  DEF Fail, FailAck, Disturbed, TimePasses, SelectThrows, Task, ScanSelect, ScanPublish,
      ChannelLost, vars, senderVars
<1>8. QED
  BY <1>2, <1>4, <1>5, <1>6, <1>7 DEF Next

LEMMA FreshInductive == Spec => []Fresh
<1>1. Init => Fresh
  BY DEF Init, TableInit, Fresh
<1>2. TypeOK /\ Fresh /\ [Next]_vars => Fresh'
  BY FreshNext
<1>3. QED
  BY <1>1, <1>2, TypeCorrect, PTL DEF Spec

Taken == {m \in Msgs : RowExists(m)}
Delivered == {m \in Msgs : pushes[m] > 0}
Recorded == {m \in Msgs : result[m] = "SUCCESS"}

PromiseStep == [Promise!Next]_<<Taken, Delivered, Recorded>>

\* Rows and pushes that stay as they are.
LEMMA PromiseStutter ==
    ASSUME UNCHANGED <<result, pushes>>
    PROVE  PromiseStep
BY DEF PromiseStep, Taken, Delivered, Recorded, RowExists

\* A failure status withdraws the record, if there was one.
LEMMA PromiseFail ==
    ASSUME TypeOK, NEW k \in Msgs, NEW s \in Failed, NEW n \in Nat, UNCHANGED pushes,
           UpdateStatus(k, s, n) \/ UpdateStatusThrows(k, s, n)
    PROVE  PromiseStep
<1>1. CASE UNCHANGED tableVars
  BY <1>1, PromiseStutter DEF tableVars
<1>2. CASE RowExists(k) /\ result' = [result EXCEPT ![k] = s]
  <2>1. Taken' = Taken /\ Delivered' = Delivered /\ Recorded' = Recorded \ {k}
    BY <1>2 DEF Taken, Delivered, Recorded, RowExists, Failed, NO_ROW, TypeOK, TableTypeOK
  <2>2. Promise!Withdraw(k)
    BY <2>1 DEF Promise!Withdraw, Taken, Delivered, Recorded
  <2>3. QED
    BY <2>2 DEF PromiseStep, Promise!Next
<1>3. QED
  BY <1>1, <1>2 DEF UpdateStatus, UpdateStatusThrows, UpdateRow

LEMMA PromiseRecord ==
    ASSUME TypeOK, NEW k \in Msgs, NEW n \in Nat, UNCHANGED pushes, pushes[k] > 0,
           UpdateStatus(k, "SUCCESS", n) \/ UpdateStatusThrows(k, "SUCCESS", n)
    PROVE  PromiseStep
<1>1. CASE UNCHANGED tableVars
  BY <1>1, PromiseStutter DEF tableVars
<1>2. CASE RowExists(k) /\ result' = [result EXCEPT ![k] = "SUCCESS"]
  <2>1. /\ Taken' = Taken /\ Delivered' = Delivered /\ Recorded' = Recorded \cup {k}
        /\ k \in Delivered
    BY <1>2 DEF Taken, Delivered, Recorded, RowExists, NO_ROW, TypeOK, TableTypeOK
  <2>2. Promise!Record(k)
    BY <2>1 DEF Promise!Record, Taken, Delivered, Recorded
  <2>3. QED
    BY <2>2 DEF PromiseStep, Promise!Next
<1>3. QED
  BY <1>1, <1>2 DEF UpdateStatus, UpdateStatusThrows, UpdateRow

LEMMA PromisePush ==
    ASSUME TypeOK, KnownInv, NEW q \in Queues, NEW onError, Push(q, onError)
    PROVE  PromiseStep
<1>1. handler[q] \in Handlers /\ handler[q] # Idle
  BY HandlerBusy DEF Push, Stages, TypeOK, Idle
<1>2. handler[q].msg \in Taken /\ handler[q].msg \in Msgs
  BY <1>1 DEF KnownInv, HandlersKnown, Taken, Handlers
<1>3. UNCHANGED result
  BY DEF Push, tableVars
<1>4. CASE pushes' = [pushes EXCEPT ![handler[q].msg] = @ + 1]
  <2>1. PICK m \in Msgs : m = handler[q].msg
    BY <1>2
  <2>2. Taken' = Taken /\ Recorded' = Recorded /\ Delivered' = Delivered \cup {m}
    BY <1>3, <1>4, <2>1 DEF Taken, Delivered, Recorded, RowExists, TypeOK, ConsumerTypeOK
  <2>3. Promise!Deliver(m)
    BY <1>2, <2>1, <2>2 DEF Promise!Deliver, Taken, Delivered, Recorded
  <2>4. QED
    BY <2>3 DEF PromiseStep, Promise!Next
<1>5. CASE UNCHANGED pushes
  BY <1>3, <1>5, PromiseStutter
<1>6. QED
  BY <1>4, <1>5 DEF Push

LEMMA PromiseMarkSuccess ==
    ASSUME TypeOK, ConsumptionInv, NEW q \in Queues, NEW onError, MarkSuccess(q, onError)
    PROVE  PromiseStep
<1>1. handler[q] \in Handlers /\ pushes[handler[q].msg] > 0
  BY HandlerBusy DEF MarkSuccess, Stages, TypeOK, ConsumptionInv
<1>2. QED
  BY <1>1, PromiseRecord DEF MarkSuccess, history, Handlers

LEMMA PromiseNext ==
    ASSUME TypeOK, KnownInv, ConsumptionInv, Fresh, [Next]_vars
    PROVE  PromiseStep
<1>q. PUSH_MSG \in Queues /\ RETRY_PUSH_MSG \in Queues
  BY QueueNames
<1>1. ASSUME NEW m \in Msgs, SendMsgInsert(m), UNCHANGED SenderRest
      PROVE  PromiseStep
  <2>1. UNCHANGED pushes
    BY <1>1 DEF SenderRest, consumerVars, history
  <2>2. CASE Insert(m)
    <3>1. Taken' = Taken \cup {m} /\ Delivered' = Delivered /\ Recorded' = Recorded
      BY <1>1, <2>1, <2>2
      DEF SendMsgInsert, Insert, Fresh, Taken, Delivered, Recorded, RowExists, NO_ROW, TypeOK, TableTypeOK
    <3>2. Promise!Take(m)
      BY <3>1 DEF Promise!Take, Taken, Delivered, Recorded
    <3>3. QED
      BY <3>2 DEF PromiseStep, Promise!Next
  <2>3. QED
    BY <1>1, <2>1, <2>2, PromiseStutter DEF SendMsgInsert, tableVars
<1>2. ASSUME NEW t \in Confirmers, ConfirmUpdate(t), UNCHANGED SenderRest
      PROVE  PromiseStep
  <2>1. callback[t] \in Callbacks
    BY <1>2, CallbackBusy DEF ConfirmUpdate, TypeOK
  <2>2. UNCHANGED pushes
    BY <1>2 DEF SenderRest, consumerVars, history
  <2>3. QED
    BY <1>2, <2>1, <2>2, PromiseFail DEF ConfirmUpdate, Callbacks, Failed
<1>3. ASSUME NEW q \in Queues, NEW onError, Push(q, onError) \/ MarkSuccess(q, onError)
      PROVE  PromiseStep
  BY <1>3, PromisePush, PromiseMarkSuccess
<1>4. ASSUME ProcessMarkFail \/ ProcessMarkFailThrows
      PROVE  PromiseStep
  <2>1. handler[PUSH_MSG] \in Handlers
    BY <1>4, <1>q, HandlerBusy DEF ProcessMarkFail, ProcessMarkFailThrows, Stages, TypeOK
  <2>2. UNCHANGED pushes
    BY <1>4 DEF ProcessMarkFail, ProcessMarkFailThrows, history
  <2>3. QED
    BY <1>4, <2>1, <2>2, PromiseFail
    DEF ProcessMarkFail, ProcessMarkFailThrows, Handlers, Failed
<1>5. ASSUME UNCHANGED <<tableVars, pushes>>
      PROVE  PromiseStep
  BY <1>5, PromiseStutter DEF tableVars
<1>6. CASE Sender /\ UNCHANGED SenderRest
  <2>1. UNCHANGED pushes
    BY <1>6 DEF SenderRest, consumerVars, history
  <2>2. QED
    BY <1>1, <1>2, <1>5, <1>6, <2>1
    DEF Sender, Callback, SendMsgPublish, ForeignPublish, ConfirmSelect, ConfirmRepublish
<1>7. CASE Process
  BY <1>q, <1>3, <1>4, <1>5, <1>7
  DEF Process, ProcessPush, ProcessMarkSuccess, ProcessReject, ProcessSelect, ProcessResend,
      ProcessResendThrows, ProcessAck, history
<1>8. CASE Retry
  BY <1>q, <1>3, <1>5, <1>8
  DEF Retry, RetryPush, RetryMarkSuccess, RetrySelect, RetryAck, RetryNack, history
<1>9. CASE Fail \/ Disturbed \/ Task \/ Crash \/ (\E q \in Consumed : ChannelLost(q)) \/ UNCHANGED vars
  BY <1>5, <1>9
  DEF Fail, FailAck, Disturbed, TimePasses, SelectThrows, Task, ScanSelect, ScanPublish, Crash,
      ChannelLost, vars, consumerVars, history
<1>10. QED
  BY <1>6, <1>7, <1>8, <1>9 DEF Next

\* What the pipeline shows of its messages, for every number of messages, threads
\* and failures, is a behaviour of Delivery: taken before pushed, pushed before
\* recorded, and never untaken or unpushed.
THEOREM KeepsPromiseCorrect == Spec => KeepsPromise
<1>1. Init => Promise!Init
  BY DEF Init, TableInit, ConsumerInit, Promise!Init, RowExists, NO_ROW
<1>2. TypeOK /\ KnownInv /\ ConsumptionInv /\ Fresh /\ [Next]_vars => [Promise!Next]_Promise!vars
  BY PromiseNext DEF PromiseStep, Promise!vars, Taken, Delivered, Recorded
<1>3. QED
  BY <1>1, <1>2, TypeCorrect, KnownInductive, ConsumptionInductive, FreshInductive, PTL
  DEF Spec, KeepsPromise, Promise!Spec

================================================================================
