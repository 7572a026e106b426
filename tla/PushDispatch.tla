------------------------------ MODULE PushDispatch ------------------------------
(***************************************************************************)
(* SynMsgPushService.push on the listener threads: the look-up of the rules *)
(* through the settings cache, the loop over the channel handlers, and what *)
(* @Retryable and @Recover of MsgPush do around each of them.               *)
(***************************************************************************)
EXTENDS SettingCache

CONSTANTS
    Msgs,       \* messages to push
    Threads,    \* listener and request threads that call push
    Priority,   \* the priority of the rule of each channel, the highest first
    BeanOrder,  \* the place of the handler bean of each channel, the highest first
    PushAll,    \* messages whose operation says pushAll
    LogOnly,    \* channels that only write their log and set no thread-local
    Refreshing, \* channels whose handler may ask its provider again with a new token
    Discarding, \* those that always do and keep the first answer (DingTalk)
    Silent,     \* channels whose handler may answer without an entry in the log (app)
    NextStop,   \* channels whose rule says next_stop
    MaxThrows   \* bound: calls that throw

ASSUME DispatchAssumption ==
    /\ Channels # {}
    /\ Priority \in [Channels -> Nat] /\ BeanOrder \in [Channels -> Nat]
    /\ PushAll \subseteq Msgs /\ LogOnly \subseteq Channels /\ NextStop \subseteq Channels
    /\ Discarding \subseteq Refreshing /\ Refreshing \subseteq Channels /\ Silent \subseteq Channels
    /\ LogOnly \cap (Refreshing \cup Silent) = {}
    /\ MaxThrows \in Nat

VARIABLES
    job,        \* job[t]: what thread t is doing
    answer,     \* answer[m]: how push ended, "none" before it did
    listed,     \* history: listed[m], the channels push set out to call
    logs,       \* the send log: message, channel and result
    sent,       \* history: sent[m][c], calls of the provider of channel c
    accepted,   \* history: accepted[m], channels whose provider took m
    aborted,    \* history: messages whose loop an exception has left
    stale,      \* history: messages pushed by a rule deleted before their look-up
    throwsLeft  \* calls that may still throw

jobVars == <<job, answer, listed, logs, sent, accepted, aborted, stale, throwsLeft>>
vars == <<cacheVars, jobVars>>

Attempts == 3  \* @Retryable's maxAttempts, which MsgPush leaves at its default

Idle == [at |-> "idle"]
Stages == {"looking", "selecting", "storing", "preparing",
           "sending", "resending", "relogging", "logging", "recovering"}
Jobs == [at : Stages, msg : Msgs, rules : SUBSET Channels, gone : SUBSET Channels,
         channel : Channels, todo : SUBSET Channels, attempt : 1..Attempts, ok : BOOLEAN, result : BOOLEAN]

TypeOK ==
    /\ CacheTypeOK
    /\ job \in [Threads -> {Idle} \cup Jobs]
    /\ answer \in [Msgs -> {"none", "true", "false", "thrown"}]
    /\ listed \in [Msgs -> SUBSET Channels]
    /\ logs \subseteq [msg : Msgs, channel : Channels, ok : BOOLEAN]
    /\ sent \in [Msgs -> [Channels -> Nat]]
    /\ accepted \in [Msgs -> SUBSET Channels]
    /\ aborted \subseteq Msgs /\ stale \subseteq Msgs
    /\ throwsLeft \in 0..MaxThrows

Init ==
    /\ CacheInit
    /\ job = [t \in Threads |-> Idle]
    /\ answer = [m \in Msgs |-> "none"]
    /\ listed = [m \in Msgs |-> {}]
    /\ logs = {}
    /\ sent = [m \in Msgs |-> [c \in Channels |-> 0]]
    /\ accepted = [m \in Msgs |-> {}]
    /\ aborted = {} /\ stale = {}
    /\ throwsLeft = MaxThrows


--------------------------------------------------------------------------------
(* The look-up *)

Outcome(result) == IF result THEN "true" ELSE "false"

\* push returns, after its loop or from it, unless its transaction fails to commit.
Return(t, result) ==
    /\ job' = [job EXCEPT ![t] = Idle]
    /\ \E how \in {Outcome(result), "thrown"} : answer' = [answer EXCEPT ![job[t].msg] = how]

Goto(t, stage) == job' = [job EXCEPT ![t].at = stage]

\* An exception reaches the catch of push, which does nothing.
Abort(t) ==
    /\ Return(t, job[t].result)
    /\ aborted' = aborted \cup {job[t].msg}
    /\ UNCHANGED <<listed, logs, sent, accepted, stale>>

Throws == throwsLeft > 0 /\ throwsLeft' = throwsLeft - 1

Awaiting(t, m) ==
    /\ job[t] = Idle /\ answer[m] = "none"
    /\ m \notin {job[u].msg : u \in {v \in Threads : job[v] # Idle}}

\* The operation of the message is not configured, or the look-up of the operation
\* or the entry that says so throws, in front of the try.
PushUnknown(t, m) ==
    /\ Awaiting(t, m)
    /\ \E how \in {"false", "thrown"} : answer' = [answer EXCEPT ![m] = how]
    /\ UNCHANGED <<cacheVars, job, listed, logs, sent, accepted, aborted, stale, throwsLeft>>

\* The record's channel means nothing before the loop begins.
AnyChannel == CHOOSE c \in Channels : TRUE

StartPush(t, m) ==
    /\ Awaiting(t, m)
    /\ job' = [job EXCEPT ![t] = [at |-> "looking", msg |-> m, rules |-> {}, gone |-> gone,
                                 channel |-> AnyChannel, todo |-> {}, attempt |-> 1,
                                 ok |-> FALSE, result |-> FALSE]]
    /\ UNCHANGED <<cacheVars, answer, listed, logs, sent, accepted, aborted, stale, throwsLeft>>

\* No rule is enabled: push returns; otherwise it goes on with the list.
Found(t, value) ==
    IF value = {}
    THEN Return(t, FALSE)
    ELSE /\ job' = [job EXCEPT ![t].at = "preparing", ![t].rules = value]
         /\ UNCHANGED answer

LookHit(t) ==
    /\ job[t].at = "looking"
    /\ \E value \in entry : Hit(value) /\ Found(t, value)
    /\ UNCHANGED <<listed, logs, sent, accepted, aborted, stale, throwsLeft>>

LookMiss(t) ==
    /\ job[t].at = "looking" /\ Missed
    /\ Goto(t, "selecting")
    /\ UNCHANGED <<answer, listed, logs, sent, accepted, aborted, stale, throwsLeft>>

SelectRules(t) ==
    /\ job[t].at = "selecting"
    /\ Select(rules)
    /\ job' = [job EXCEPT ![t].at = "storing", ![t].rules = rules]
    /\ UNCHANGED <<answer, listed, logs, sent, accepted, aborted, stale, throwsLeft>>

StoreRules(t) ==
    /\ job[t].at = "storing"
    /\ Store(job[t].rules)
    /\ Found(t, job[t].rules)
    /\ UNCHANGED <<listed, logs, sent, accepted, aborted, stale, throwsLeft>>

\* Redis, the table or the prepare log fails.
LookThrows(t) ==
    /\ job[t].at \in {"looking", "selecting", "storing", "preparing"}
    /\ Throws /\ Abort(t)
    /\ UNCHANGED cacheVars

\* The channels of S that may come first.
First(m, S) ==
    LET rank == IF m \in PushAll THEN BeanOrder ELSE Priority
    IN {c \in S : \A d \in S : rank[d] <= rank[c]}

\* The prepare log is written and the loop begins.
Prepare(t) ==
    LET m == job[t].msg
        all == IF m \in PushAll THEN Channels ELSE job[t].rules
    IN /\ job[t].at = "preparing"
       /\ \E c \in First(m, all) :
            job' = [job EXCEPT ![t] = [@ EXCEPT !.at = "sending", !.channel = c, !.todo = all \ {c},
                                                !.rules = {}, !.gone = {}]]
       /\ listed' = [listed EXCEPT ![m] = all]
       /\ stale' = IF m \notin PushAll /\ all \cap job[t].gone # {} THEN stale \cup {m} ELSE stale
       /\ UNCHANGED <<cacheVars, answer, logs, sent, accepted, aborted, throwsLeft>>

--------------------------------------------------------------------------------
(* One channel handler *)

\* pushMsg has returned; the last handler's answer is that of push.
NextChannel(t, result) ==
    LET todo == job[t].todo
    IN IF todo = {}
       THEN Return(t, result)
       ELSE /\ \E c \in First(job[t].msg, todo) :
                job' = [job EXCEPT ![t] = [@ EXCEPT !.at = "sending", !.channel = c, !.todo = todo \ {c},
                                                    !.attempt = 1, !.result = result]]
            /\ UNCHANGED answer

\* The provider is asked, and takes the message or does not.
Provider(m, c) == sent' = [sent EXCEPT ![m][c] = @ + 1]
Ask(m, c, ok) ==
    /\ Provider(m, c)
    /\ accepted' = [accepted EXCEPT ![m] = IF ok THEN @ \cup {c} ELSE @]

Answer(t, stage, ok) == job' = [job EXCEPT ![t].at = stage, ![t].ok = ok]

\* pushMsg of SystemMsgPush, up to its log.
SendNothing(t) ==
    /\ job[t].at = "sending" /\ job[t].channel \in LogOnly
    /\ Answer(t, "logging", TRUE)
    /\ UNCHANGED <<cacheVars, answer, listed, logs, sent, accepted, aborted, stale, throwsLeft>>

\* The handler turns the message away, for want of a template or an address, or asks
\* the provider; some ask it again when it refuses, for the token may be old.
Send(t) ==
    LET m == job[t].msg
        c == job[t].channel
    IN /\ job[t].at = "sending" /\ c \notin LogOnly
       /\ \/ Answer(t, "logging", FALSE) /\ UNCHANGED <<sent, accepted>>
          \/ c \notin Discarding /\ Answer(t, "logging", FALSE) /\ Ask(m, c, FALSE)
          \/ c \in Refreshing /\ Answer(t, "resending", FALSE) /\ Ask(m, c, FALSE)
          \/ Answer(t, "logging", TRUE) /\ Ask(m, c, TRUE)
       /\ UNCHANGED <<cacheVars, answer, listed, logs, aborted, stale, throwsLeft>>

\* The handler returns from such a path and has not logged.
SendSilently(t) ==
    LET m == job[t].msg
        c == job[t].channel
    IN /\ job[t].at = "sending" /\ c \in Silent
       /\ \/ NextChannel(t, FALSE) /\ UNCHANGED <<sent, accepted>>
          \/ \E ok \in BOOLEAN : NextChannel(t, ok) /\ Ask(m, c, ok)
       /\ UNCHANGED <<cacheVars, listed, logs, aborted, stale, throwsLeft>>

\* The second call, with the token of initToken or getToken.  DingMsgPush calls its
\* push again, which may turn the message away by now and logs on its own.
Resend(t) ==
    LET m == job[t].msg
        c == job[t].channel
        stage == IF c \in Discarding THEN "relogging" ELSE "logging"
    IN /\ job[t].at = "resending"
       /\ \/ c \in Discarding /\ Answer(t, stage, FALSE) /\ UNCHANGED <<sent, accepted>>
          \/ \E ok \in BOOLEAN : Answer(t, stage, ok) /\ Ask(m, c, ok)
       /\ UNCHANGED <<cacheVars, answer, listed, logs, aborted, stale, throwsLeft>>

\* Mutant: attempts without a limit.
AttemptFailsForever(t) == job' = [job EXCEPT ![t].at = "sending", ![t].attempt = @ + 1]

\* The attempt has thrown: another one after a pause, or recover after the third.
AttemptFails(t) ==
    IF job[t].attempt < Attempts
    THEN job' = [job EXCEPT ![t].at = "sending", ![t].attempt = @ + 1]
    ELSE Goto(t, "recovering")

SendThrows(t) ==
    /\ job[t].at \in {"sending", "resending"} /\ job[t].channel \notin LogOnly
    /\ Throws
    /\ Provider(job[t].msg, job[t].channel) \/ UNCHANGED sent
    /\ AttemptFails(t)
    /\ UNCHANGED <<cacheVars, answer, listed, logs, accepted, aborted, stale>>

Entry(t, ok) == [msg |-> job[t].msg, channel |-> job[t].channel, ok |-> ok]

\* Mutant: a refusal counts as a failed attempt.
LogRetrying(t) ==
    /\ job[t].at = "logging"
    /\ logs' = logs \cup {Entry(t, job[t].ok)}
    /\ IF job[t].ok THEN NextChannel(t, TRUE) ELSE AttemptFails(t) /\ UNCHANGED answer
    /\ UNCHANGED <<cacheVars, listed, sent, accepted, aborted, stale, throwsLeft>>

\* Mutant: the second answer is discarded unlogged.
RelogForgotten(t) ==
    /\ job[t].at = "relogging"
    /\ Answer(t, "logging", FALSE)
    /\ UNCHANGED <<cacheVars, answer, listed, logs, sent, accepted, aborted, stale, throwsLeft>>

\* The second call's entry; its answer is forgotten, and the first is logged next.
Relog(t) ==
    /\ job[t].at = "relogging"
    /\ logs' = logs \cup {Entry(t, job[t].ok)}
    /\ Answer(t, "logging", FALSE)
    /\ UNCHANGED <<cacheVars, answer, listed, sent, accepted, aborted, stale, throwsLeft>>

\* insertMsgSendLog, and the handler returns.
Log(t) ==
    /\ job[t].at = "logging"
    /\ logs' = logs \cup {Entry(t, job[t].ok)}
    /\ NextChannel(t, job[t].ok)
    /\ UNCHANGED <<cacheVars, listed, sent, accepted, aborted, stale, throwsLeft>>

LogThrows(t) ==
    /\ job[t].at \in {"logging", "relogging"}
    /\ Throws
    /\ AttemptFails(t)
    /\ UNCHANGED <<cacheVars, answer, listed, logs, sent, accepted, aborted, stale>>

\* Mutant: the recovered push answers that it was delivered.
RecoverTrue(t) ==
    /\ job[t].at = "recovering" /\ job[t].channel \notin LogOnly
    /\ logs' = logs \cup {Entry(t, FALSE)}
    /\ NextChannel(t, TRUE)
    /\ UNCHANGED <<cacheVars, listed, sent, accepted, aborted, stale, throwsLeft>>

\* Mutant: recover leaves the failure to the log file.
RecoverUnlogged(t) ==
    /\ job[t].at = "recovering" /\ job[t].channel \notin LogOnly
    /\ NextChannel(t, FALSE)
    /\ UNCHANGED <<cacheVars, listed, logs, sent, accepted, aborted, stale, throwsLeft>>

\* recover finds the parameters of the failed push in the thread-local.
Recover(t) ==
    /\ job[t].at = "recovering" /\ job[t].channel \notin LogOnly
    /\ logs' = logs \cup {Entry(t, FALSE)}
    /\ NextChannel(t, FALSE)
    /\ UNCHANGED <<cacheVars, listed, sent, accepted, aborted, stale, throwsLeft>>

\* It finds none, when the channel sets none, or its log fails, too.
RecoverThrows(t) ==
    /\ job[t].at = "recovering"
    /\ (job[t].channel \in LogOnly /\ UNCHANGED throwsLeft) \/ Throws
    /\ Abort(t)
    /\ UNCHANGED cacheVars

--------------------------------------------------------------------------------
Settings ==
    /\ \/ \E c \in Channels : DeleteRow(c) \/ EvictKeys(c) \/ EvictDel(c)
       \/ Expire
    /\ UNCHANGED jobVars

Push(t) ==
    \/ LookHit(t) \/ LookMiss(t) \/ SelectRules(t) \/ StoreRules(t) \/ LookThrows(t) \/ Prepare(t)
    \/ SendNothing(t) \/ Send(t) \/ SendSilently(t) \/ Resend(t) \/ SendThrows(t)
    \/ Relog(t) \/ Log(t) \/ LogThrows(t) \/ Recover(t) \/ RecoverThrows(t)

Next ==
    \/ Settings
    \/ \E t \in Threads : (\E m \in Msgs : StartPush(t, m) \/ PushUnknown(t, m)) \/ (job[t] # Idle /\ Push(t))

Spec == Init /\ [][Next]_vars

\* Redis lets entries expire.  The property needs no more: threads may stop, clients
\* need not send, a deletion need not go on to evict.
Fairness == WF_vars(Expire /\ UNCHANGED jobVars)

FairSpec == Spec /\ Fairness

--------------------------------------------------------------------------------
(* Properties *)

Logged(m, c, ok) == [msg |-> m, channel |-> c, ok |-> ok] \in logs

\* push answers TRUE only for a message some channel took, and logged unless its
\* handler may leave that out; although the answer is that of whatever handler came
\* last and exceptions leave the loop.
TrueMeansDelivered ==
    \A m \in Msgs : answer[m] = "true" =>
        \E c \in listed[m] : c \in accepted[m] \cup LogOnly /\ (c \in Silent \/ Logged(m, c, TRUE))

\* Once push has ended, every channel it set out to call has left an entry in the
\* send log, whatever its attempts threw, unless an exception of recover left the loop.
ChannelsAccounted ==
    \A m \in Msgs \ aborted : answer[m] # "none" =>
        \A c \in listed[m] \ Silent : \E ok \in BOOLEAN : Logged(m, c, ok)

\* As long as no call has thrown, what a provider took is logged as taken when push
\* has returned, although DingMsgPush answers and logs a refusal for what its second
\* call has delivered.
AcceptedIsLogged ==
    throwsLeft = MaxThrows =>
        \A m \in Msgs : answer[m] # "none" => \A c \in accepted[m] \ Silent : Logged(m, c, TRUE)

\* A provider is asked once for a message and once more for the sake of the token, and
\* again only after a call that threw; an answer that refuses the message is final.
CallsPerAttempt(c) == IF c \in Refreshing THEN 2 ELSE 1
RepeatsHaveACause ==
    \A m \in Msgs, c \in Channels : sent[m][c] <= CallsPerAttempt(c) * (1 + (MaxThrows - throwsLeft))

\* A rule whose deletion had returned before the push began is used only when some
\* read had overlapped the deletion and stored, after the eviction had looked for
\* keys, what it had read before it.
StaleHasACause == stale # {} => overlap

\* Such an entry does not live for ever: the cache agrees with the table again when
\* it has expired.
StaleIsTemporary == <>[](entry \subseteq {rules})

\* V1__init.sql, MsgPushPo.java: when a rule that says so has succeeded, the rules
\* after it are not pushed.
NextStopHonoured ==
    \A t \in Threads : job[t] # Idle /\ job[t].at = "sending" /\ job[t].msg \notin PushAll =>
        \A c \in NextStop \ {job[t].channel} : [msg |-> job[t].msg, channel |-> c, ok |-> TRUE] \notin logs

================================================================================
