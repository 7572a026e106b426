--------------------------- MODULE SnowflakeIdWorker ---------------------------
(***************************************************************************)
(* The generator of correlation ids: one static object, nextId under the    *)
(* object's monitor, a millisecond clock that the operating system may set  *)
(* back, and a 12-bit sequence within a millisecond.  A timestamp counts    *)
(* milliseconds since the epoch of the class, 2020-01-01; data center and   *)
(* worker together are the number of the node.                              *)
(***************************************************************************)
EXTENDS Integers, Sequences

CONSTANTS
    Threads,       \* request threads that call nextId
    NoThread,      \* nobody holds the monitor
    SequenceSize,  \* ids one node can give in a millisecond, sequenceMask + 1
    Nodes,         \* how many pairs of data center and worker there are
    Node,          \* the pair this object was built with
    MaxTime,       \* bound: the last millisecond looked at
    MaxSetBacks    \* bound: how often the clock is set back

ASSUME NoThreadAssumption == NoThread \notin Threads
ASSUME SizesAssumption == SequenceSize \in Nat \ {0} /\ Nodes \in Nat \ {0}
ASSUME NodeAssumption == Node \in 0..(Nodes - 1)
ASSUME TimeAssumption == MaxTime \in Nat /\ MaxSetBacks \in Nat

VARIABLES
    now,            \* System.currentTimeMillis()
    setBacksLeft,   \* how often the clock may still be set back
    sequence,       \* the fields of the object
    lastTimestamp,
    callers,        \* threads that called nextId and have not come back
    holder,         \* the caller inside the monitor
    stage,          \* where the holder is: behind timeGen, or in nextMillis
    timestamp,      \* the local variable of the holder
    issued          \* history: the ids that were returned, in order

clock == <<now, setBacksLeft>>
fields == <<sequence, lastTimestamp>>
monitor == <<holder, stage, timestamp>>
vars == <<clock, fields, callers, monitor, issued>>

Sequences == 0..(SequenceSize - 1)

Init ==
    /\ now \in 0..MaxTime
    /\ setBacksLeft = MaxSetBacks
    /\ sequence = 0
    /\ lastTimestamp = -1
    /\ callers = {}
    /\ holder = NoThread
    /\ stage = "free"
    /\ timestamp = 0
    /\ issued = <<>>

\* The shifts and the bitwise or: three fields side by side.
Id(time, seq) == (time * Nodes + Node) * SequenceSize + seq

--------------------------------------------------------------------------------
(* The clock *)

Tick ==
    /\ now < MaxTime
    /\ now' = now + 1
    /\ UNCHANGED <<setBacksLeft, fields, callers, monitor, issued>>

SetBack ==
    /\ setBacksLeft > 0
    /\ setBacksLeft' = setBacksLeft - 1
    /\ now' \in 0..(now - 1)
    /\ UNCHANGED <<fields, callers, monitor, issued>>

--------------------------------------------------------------------------------
(* nextId *)

Call(t) ==
    /\ t \notin callers
    /\ callers' = callers \cup {t}
    /\ UNCHANGED <<clock, fields, monitor, issued>>

Enter(t) ==
    /\ holder = NoThread
    /\ t \in callers
    /\ holder' = t
    /\ stage' = "read"
    /\ timestamp' = now
    /\ UNCHANGED <<clock, fields, callers, issued>>

Leave ==
    /\ callers' = callers \ {holder}
    /\ holder' = NoThread
    /\ stage' = "free"
    /\ UNCHANGED timestamp

Return(seq) ==
    /\ Leave
    /\ sequence' = seq
    /\ lastTimestamp' = timestamp
    /\ issued' = Append(issued, Id(timestamp, seq))
    /\ UNCHANGED clock

\* Mutant: an id is given although the clock went back.
ClockMovedBackIgnored ==
    /\ stage = "read"
    /\ timestamp < lastTimestamp
    /\ Return(0)

\* The clock shows less than at the last id: nextId throws.
ClockMovedBack ==
    /\ stage = "read"
    /\ timestamp < lastTimestamp
    /\ Leave
    /\ UNCHANGED <<clock, fields, issued>>

NewMillis ==
    /\ stage = "read"
    /\ timestamp > lastTimestamp
    /\ Return(0)

\* Mutant: the sequence is not masked.
NextSequenceUnmasked == sequence + 1

NextSequence == (sequence + 1) % SequenceSize

SameMillis ==
    /\ stage = "read"
    /\ timestamp = lastTimestamp
    /\ NextSequence # 0
    /\ Return(NextSequence)

\* The sequence is used up; nextMillis reads the clock.
SequenceOverflow ==
    /\ stage = "read"
    /\ timestamp = lastTimestamp
    /\ NextSequence = 0
    /\ sequence' = NextSequence
    /\ stage' = "nextMillis"
    /\ timestamp' = now
    /\ UNCHANGED <<clock, lastTimestamp, callers, holder, issued>>

\* The loop of nextMillis copies lastTimestamp and does not read the clock.
NextMillisLoop ==
    /\ stage = "nextMillis"
    /\ timestamp <= lastTimestamp
    /\ timestamp' = lastTimestamp
    /\ UNCHANGED <<clock, fields, callers, holder, stage, issued>>

NextMillisReturn ==
    /\ stage = "nextMillis"
    /\ timestamp > lastTimestamp
    /\ Return(sequence)

--------------------------------------------------------------------------------
NextId ==
    \/ ClockMovedBack \/ NewMillis \/ SameMillis
    \/ SequenceOverflow \/ NextMillisLoop \/ NextMillisReturn

Next ==
    \/ Tick \/ SetBack
    \/ \E t \in Threads : Call(t) \/ Enter(t)
    \/ NextId

Spec == Init /\ [][Next]_vars

\* The clock runs, the thread inside the monitor is scheduled, and a free
\* monitor is given to somebody who waits for it.
Fairness ==
    /\ WF_vars(Tick)
    /\ WF_vars(NextId)
    /\ WF_vars(\E t \in Threads : Enter(t))

FairSpec == Spec /\ Fairness

--------------------------------------------------------------------------------
(* Properties *)

TypeOK ==
    /\ now \in 0..MaxTime
    /\ setBacksLeft \in 0..MaxSetBacks
    /\ sequence \in Sequences
    /\ lastTimestamp \in -1..MaxTime
    /\ callers \subseteq Threads
    /\ holder \in callers \cup {NoThread}
    /\ stage \in {"free", "read", "nextMillis"}
    /\ stage = "free" <=> holder = NoThread
    /\ timestamp \in -1..MaxTime
    /\ issued \in Seq(Int)

\* Ids are unique and grow in the order nextId returns them, whatever the clock
\* does between the calls and while a caller waits for the next millisecond:
\* the key of jl_msg_send_result and the correlation of confirms rest on it.
IdsIncrease == \A i, j \in 1..Len(issued) : i < j => issued[i] < issued[j]

\* SnowflakeIdWorker.java:90, 113: nextMillis blocks up to the next millisecond
\* until it has a new timestamp; so once the clock shows one, it returns.
NextMillisReturns ==
    (stage = "nextMillis" /\ now > lastTimestamp) ~> stage # "nextMillis"

================================================================================
