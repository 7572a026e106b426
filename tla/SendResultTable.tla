---------------------------- MODULE SendResultTable ----------------------------
(***************************************************************************)
(* The MySQL table jl_msg_send_result: one row per message this service     *)
(* accepted, keyed by correlation_id, with the columns the pipeline reads   *)
(* and writes.  The content column is the message itself and is not kept.   *)
(* Every statement runs in a transaction of its own (auto-commit).          *)
(***************************************************************************)
EXTENDS Naturals

CONSTANTS
    Msgs,       \* the messages, named by their correlation id
    MaxFaults   \* bound: how many calls may throw in one behaviour

ASSUME FaultsAssumption == MaxFaults \in Nat

VARIABLES
    result,     \* the result column, or NO_ROW
    failNum,    \* the fail_num column
    failures,   \* history: how many failure statuses were written to the row
    faultsLeft  \* how many more calls may throw

tableVars == <<result, failNum, failures>>

Failed == {"ENQUEUE_FAIL", "CONSUME_FAIL"}
Results == {"SENDING", "SUCCESS"} \cup Failed
NO_ROW == "NO_ROW"

RowExists(m) == result[m] # NO_ROW

TableTypeOK ==
    /\ result \in [Msgs -> Results \cup {NO_ROW}]
    /\ failNum \in [Msgs -> Nat]
    /\ failures \in [Msgs -> Nat]
    /\ faultsLeft \in 0..MaxFaults

TableInit ==
    /\ result = [m \in Msgs |-> NO_ROW]
    /\ failNum = [m \in Msgs |-> 0]
    /\ failures = [m \in Msgs |-> 0]
    /\ faultsLeft = MaxFaults

\* A call to a remote system throws.
Fault ==
    /\ faultsLeft > 0
    /\ faultsLeft' = faultsLeft - 1

Insert(m) ==
    /\ result' = [result EXCEPT ![m] = "SENDING"]
    /\ failNum' = [failNum EXCEPT ![m] = 0]
    /\ UNCHANGED failures

\* The UPDATE statement: it touches no row when there is none.
UpdateRow(m, status, n) ==
    IF RowExists(m)
    THEN /\ result' = [result EXCEPT ![m] = status]
         /\ failNum' = [failNum EXCEPT ![m] = n]
         /\ failures' = [failures EXCEPT ![m] = IF status \in Failed THEN @ + 1 ELSE @]
    ELSE UNCHANGED tableVars

UpdateStatus(m, status, n) ==
    /\ UpdateRow(m, status, n)
    /\ UNCHANGED faultsLeft

\* The call throws: the statement did not reach the server, or only its
\* answer was lost.
UpdateStatusThrows(m, status, n) ==
    /\ Fault
    /\ \/ UNCHANGED tableVars
       \/ UpdateRow(m, status, n)

\* The rows the scan task takes for messages that were not delivered.
PushFail == {m \in Msgs : result[m] \in {"SENDING", "ENQUEUE_FAIL"}}

================================================================================
