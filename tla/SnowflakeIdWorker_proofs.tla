------------------------ MODULE SnowflakeIdWorker_proofs ------------------------
(***************************************************************************)
(* Proofs about the id generator: its ids increase for every number of      *)
(* threads, every size of the sequence and every behaviour of the clock.    *)
(***************************************************************************)
EXTENDS SnowflakeIdWorker, SequenceTheorems, TLAPS

USE NoThreadAssumption, SizesAssumption, NodeAssumption, TimeAssumption

--------------------------------------------------------------------------------
(* The layout of an id *)

LEMMA ScaledOrder ==
    ASSUME NEW k \in Nat \ {0}, NEW x \in Int, NEW y \in Int, x < y
    PROVE  x * k + k <= y * k
<1>1. PICK d \in Nat : y = x + 1 + d
  <2>1. y - x - 1 \in Nat /\ y = x + 1 + (y - x - 1)
    OBVIOUS
  <2>2. QED
    BY <2>1
<1>2. y * k = x * k + k + d * k
  BY <1>1
<1>3. d * k \in Nat /\ x * k \in Int
  OBVIOUS
<1>4. QED
  BY <1>2, <1>3

LEMMA IdIsInt ==
    ASSUME NEW t \in Int, NEW s \in Sequences
    PROVE  Id(t, s) \in Int
<1>1. t * Nodes + Node \in Int /\ SequenceSize \in Int /\ s \in Int
  BY DEF Sequences
<1>2. (t * Nodes + Node) * SequenceSize \in Int
  BY <1>1
<1>3. QED
  BY <1>1, <1>2 DEF Id

\* An id orders by its time first and by its sequence second.
LEMMA IdOrder ==
    ASSUME NEW t \in Int, NEW u \in Int, NEW r \in Sequences, NEW s \in Sequences,
           t < u \/ (t = u /\ r < s)
    PROVE  Id(t, r) < Id(u, s)
<1> DEFINE a == t * Nodes + Node
           b == u * Nodes + Node
<1>1. a \in Int /\ b \in Int /\ r \in Int /\ s \in Int
  BY DEF Sequences
<1>2. a * SequenceSize \in Int /\ b * SequenceSize \in Int
  BY <1>1
<1>3. 0 <= r /\ r < SequenceSize /\ 0 <= s
  BY DEF Sequences
<1>4. CASE t = u /\ r < s
  BY <1>1, <1>2, <1>4 DEF Id
<1>5. CASE t < u
  <2>1. t * Nodes + Nodes <= u * Nodes
    BY <1>5, ScaledOrder
  <2>2. t * Nodes \in Int /\ u * Nodes \in Int
    OBVIOUS
  <2>3. a < b
    BY <2>1, <2>2
  <2>4. a * SequenceSize + SequenceSize <= b * SequenceSize
    BY <1>1, <2>3, ScaledOrder
  <2>5. a * SequenceSize + r < b * SequenceSize + s
    BY <1>1, <1>2, <1>3, <2>4
  <2>6. QED
    BY <2>5 DEF Id
<1>6. QED
  BY <1>4, <1>5

--------------------------------------------------------------------------------
(* The invariant *)

\* No id is newer than the fields say; while the holder is in nextMillis the
\* sequence is reset already, but the old millisecond is the last one used.
NewestSequence == IF stage = "nextMillis" THEN SequenceSize - 1 ELSE sequence

IdsBounded == \A i \in 1..Len(issued) : issued[i] <= Id(lastTimestamp, NewestSequence)

\* nextMillis always returns the first sequence number.
Reset == stage = "nextMillis" => sequence = 0

IdInv == TypeOK /\ IdsBounded /\ Reset /\ IdsIncrease

LEMMA InitInv == Init => IdInv
BY DEF Init, IdInv, TypeOK, Sequences, IdsBounded, Reset, IdsIncrease

LEMMA NextSequenceValue ==
    ASSUME sequence \in Sequences
    PROVE  /\ NextSequence \in Sequences
           /\ NextSequence # 0 => NextSequence = sequence + 1
           /\ NextSequence = 0 => sequence = SequenceSize - 1
<1>1. CASE sequence = SequenceSize - 1
  BY <1>1 DEF NextSequence, Sequences
<1>2. CASE sequence < SequenceSize - 1
  BY <1>2 DEF NextSequence, Sequences
<1>3. QED
  BY <1>1, <1>2 DEF Sequences

\* Returning an id that is newer than the fields keeps the invariant.
LEMMA ReturnInv ==
    ASSUME IdInv, NEW seq \in Sequences, Return(seq), stage # "free",
           \/ timestamp > lastTimestamp
           \/ timestamp = lastTimestamp /\ NewestSequence < seq
    PROVE  IdInv'
<1> DEFINE id == Id(timestamp, seq)
<1>1. /\ lastTimestamp \in Int /\ timestamp \in Int /\ timestamp \in -1..MaxTime
      /\ issued \in Seq(Int)
      /\ NewestSequence \in Sequences
  BY DEF IdInv, TypeOK, NewestSequence, Sequences
<1>2. id \in Int
  BY <1>1, IdIsInt
<1>3. Id(lastTimestamp, NewestSequence) < id
  BY <1>1, IdOrder
<1>4. \A i \in 1..Len(issued) : issued[i] < id
  <2>1. Id(lastTimestamp, NewestSequence) \in Int
    BY <1>1, IdIsInt
  <2>2. \A i \in 1..Len(issued) : issued[i] \in Int
    BY <1>1
  <2>3. QED
    BY <1>2, <1>3, <2>1, <2>2 DEF IdInv, IdsBounded
<1>5. /\ issued' \in Seq(Int) /\ Len(issued') = Len(issued) + 1 /\ Len(issued) \in Nat
      /\ \A i \in 1..Len(issued) : issued'[i] = issued[i]
      /\ issued'[Len(issued) + 1] = id
  BY <1>1, <1>2 DEF Return
<1>6. TypeOK'
  BY <1>1, <1>5 DEF Return, Leave, clock, IdInv, TypeOK
<1>7. IdsIncrease'
  BY <1>4, <1>5 DEF IdInv, IdsIncrease
<1>8. IdsBounded'
  <2>1. Id(lastTimestamp, NewestSequence)' = id
    BY DEF Return, Leave, NewestSequence, Id
  <2>2. \A i \in 1..Len(issued') : issued'[i] <= id
    <3>1. ASSUME NEW i \in 1..Len(issued)
          PROVE  issued'[i] <= id
      <4>1. issued'[i] = issued[i] /\ issued[i] < id /\ issued[i] \in Int
        BY <1>1, <1>4, <1>5
      <4>2. QED
        BY <1>2, <4>1
    <3>2. issued'[Len(issued) + 1] <= id
      BY <1>2, <1>5
    <3>3. 1..Len(issued') = 1..Len(issued) \cup {Len(issued) + 1}
      BY <1>5
    <3>4. QED
      BY <3>1, <3>2, <3>3
  <2>3. QED
    BY <2>1, <2>2 DEF IdsBounded
<1>9. Reset'
  BY DEF Return, Leave, Reset
<1>10. QED
  BY <1>6, <1>7, <1>8, <1>9 DEF IdInv

\* A step that gives no id keeps it when the newest id the fields allow stays.
LEMMA NoReturnInv ==
    ASSUME IdInv, TypeOK', Reset', UNCHANGED <<issued, lastTimestamp>>,
           NewestSequence' = NewestSequence
    PROVE  IdInv'
BY DEF IdInv, IdsBounded, IdsIncrease, Id

LEMMA NextInv == IdInv /\ [Next]_vars => IdInv'
<1> SUFFICES ASSUME IdInv, [Next]_vars
             PROVE  IdInv'
  OBVIOUS
<1>t. TypeOK /\ Reset
  BY DEF IdInv
<1>1. CASE Tick \/ SetBack
  <2>1. TypeOK'
    <3>1. now' \in 0..MaxTime /\ setBacksLeft' \in 0..MaxSetBacks
      <4>1. CASE Tick
        BY <1>t, <4>1 DEF Tick, TypeOK
      <4>2. CASE SetBack
        BY <1>t, <4>2 DEF SetBack, TypeOK
      <4>3. QED
        BY <1>1, <4>1, <4>2
    <3>2. UNCHANGED <<fields, callers, monitor, issued>>
      BY <1>1 DEF Tick, SetBack
    <3>3. QED
      BY <1>t, <3>1, <3>2 DEF fields, monitor, TypeOK
  <2>2. UNCHANGED <<issued, lastTimestamp, stage, sequence>>
    BY <1>1 DEF Tick, SetBack, fields, monitor
  <2>3. QED
    BY <1>t, <2>1, <2>2, NoReturnInv DEF NewestSequence, Reset
<1>2. ASSUME NEW t \in Threads, Call(t) \/ Enter(t)
      PROVE  IdInv'
  <2>1. TypeOK'
    BY <1>2, <1>t DEF Call, Enter, clock, fields, monitor, TypeOK
  <2>2. UNCHANGED <<issued, lastTimestamp, sequence>> /\ NewestSequence' = NewestSequence
    BY <1>2, <1>t DEF Call, Enter, fields, monitor, TypeOK, NewestSequence
  <2>3. Reset'
    BY <1>2, <1>t DEF Call, Enter, fields, monitor, Reset
  <2>4. QED
    BY <2>1, <2>2, <2>3, NoReturnInv
<1>3. CASE ClockMovedBack
  <2>1. TypeOK' /\ Reset'
    BY <1>3, <1>t DEF ClockMovedBack, Leave, clock, fields, TypeOK, Reset
  <2>2. UNCHANGED <<issued, lastTimestamp>> /\ NewestSequence' = NewestSequence
    BY <1>3 DEF ClockMovedBack, Leave, fields, NewestSequence
  <2>3. QED
    BY <2>1, <2>2, NoReturnInv
<1>4. CASE NewMillis
  BY <1>4, ReturnInv DEF NewMillis, Sequences
<1>5. CASE SameMillis
  <2>1. NextSequence \in Sequences /\ NextSequence = sequence + 1
    BY <1>5, <1>t, NextSequenceValue DEF SameMillis, TypeOK
  <2>2. NewestSequence < NextSequence
    BY <1>5, <1>t, <2>1 DEF SameMillis, NewestSequence, TypeOK, Sequences
  <2>3. QED
    BY <1>5, <2>1, <2>2, ReturnInv DEF SameMillis
<1>6. CASE SequenceOverflow
  <2>1. sequence' = 0 /\ sequence = SequenceSize - 1
    BY <1>6, <1>t, NextSequenceValue DEF SequenceOverflow, TypeOK
  <2>2. TypeOK' /\ Reset'
    BY <1>6, <1>t, <2>1 DEF SequenceOverflow, clock, TypeOK, Reset, Sequences
  <2>3. UNCHANGED <<issued, lastTimestamp>> /\ NewestSequence' = NewestSequence
    BY <1>6, <2>1 DEF SequenceOverflow, NewestSequence
  <2>4. QED
    BY <2>2, <2>3, NoReturnInv
<1>7. CASE NextMillisLoop
  <2>1. TypeOK' /\ Reset'
    BY <1>7, <1>t DEF NextMillisLoop, clock, fields, TypeOK, Reset
  <2>2. UNCHANGED <<issued, lastTimestamp>> /\ NewestSequence' = NewestSequence
    BY <1>7 DEF NextMillisLoop, fields, NewestSequence
  <2>3. QED
    BY <2>1, <2>2, NoReturnInv
<1>8. CASE NextMillisReturn
  BY <1>8, <1>t, ReturnInv DEF NextMillisReturn, TypeOK
<1>9. CASE UNCHANGED vars
  BY <1>9, <1>t, NoReturnInv
  DEF vars, clock, fields, monitor, TypeOK, Reset, NewestSequence
<1>10. QED
  BY <1>1, <1>2, <1>3, <1>4, <1>5, <1>6, <1>7, <1>8, <1>9 DEF Next, NextId

\* The fields, the monitor and the history keep their types; in particular the
\* sequence stays within its bits.
THEOREM WorkerTypeCorrect == Spec => []TypeOK
<1>1. IdInv => TypeOK
  BY DEF IdInv
<1>2. QED
  BY <1>1, InitInv, NextInv, PTL DEF Spec

\* nextId never returns an id twice, nor one that is smaller than an earlier one,
\* however many threads call it and however the clock is set.
THEOREM IdsCorrect == Spec => []IdsIncrease
<1>1. IdInv => IdsIncrease
  BY DEF IdInv
<1>2. QED
  BY <1>1, InitInv, NextInv, PTL DEF Spec

================================================================================
