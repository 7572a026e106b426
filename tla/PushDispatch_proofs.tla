-------------------------- MODULE PushDispatch_proofs --------------------------
(***************************************************************************)
(* What an answer of push and the send log mean, for every set of messages, *)
(* threads and channels, every order of the rules and every number of       *)
(* throwing calls.                                                         *)
(***************************************************************************)
EXTENDS PushDispatch, TLAPS

Early == {"looking", "selecting", "storing", "preparing"}
Late == {"sending", "resending", "relogging", "logging", "recovering"}

Running(t) == job[t] # Idle

Entered(m, c) == \E ok \in BOOLEAN : Logged(m, c, ok)
Delivered(m) == \E c \in listed[m] : c \in accepted[m] \cup LogOnly /\ (c \in Silent \/ Logged(m, c, TRUE))

\* Calls that have thrown so far.
Thrown == MaxThrows - throwsLeft
TroubleFree == throwsLeft = MaxThrows

\* Calls of the provider in the attempts that threw, and with one attempt more.
Past(c) == IF c \in Refreshing THEN Thrown + Thrown ELSE Thrown
Most(c) == IF c \in Refreshing THEN Past(c) + 2 ELSE Past(c) + 1

\* The cache and the look-ups that use it.
CacheInv ==
    /\ rules \cap gone = {} /\ rules \cap deleting = {} /\ rules \cap clearing = {}
    /\ \A value \in entry : value \cap gone # {} => overlap
    /\ stale # {} => overlap

LookInv(t) == job[t].at \in Early =>
    /\ ~job[t].result
    /\ job[t].gone \subseteq gone
    /\ job[t].at = "storing" => job[t].rules \cap job[t].gone = {}
    /\ job[t].at = "preparing" => (job[t].rules \cap job[t].gone # {} => overlap)

\* An accepted message's entry is in the log, or is still to be written.
EntryDue(t) ==
    \/ job[t].at = "relogging" /\ job[t].ok
    \/ job[t].at = "logging" /\ (job[t].ok \/ Logged(job[t].msg, job[t].channel, TRUE))

\* The loop: what is neither the current channel nor to come has been logged.
LoopInv(t) == job[t].at \in Late =>
    LET m == job[t].msg
    IN /\ job[t].channel \in listed[m] /\ job[t].todo \subseteq listed[m]
       /\ job[t].channel \notin job[t].todo
       /\ \A c \in listed[m] \ (job[t].todo \cup {job[t].channel} \cup Silent) : Entered(m, c)
       /\ job[t].result => Delivered(m)
       /\ job[t].at = "logging" /\ job[t].ok => job[t].channel \in accepted[m] \cup LogOnly
       /\ \A c \in job[t].todo : sent[m][c] = 0 /\ c \notin accepted[m]
       /\ job[t].at = "sending" => sent[m][job[t].channel] <= Past(job[t].channel)
       /\ job[t].at = "resending" =>
            job[t].channel \in Refreshing /\ sent[m][job[t].channel] <= Past(job[t].channel) + 1
       /\ TroubleFree =>
            /\ job[t].at # "recovering"
            /\ \A c \in accepted[m] \ (Silent \cup {job[t].channel}) : Logged(m, c, TRUE)
            /\ job[t].channel \in accepted[m] \ Silent => EntryDue(t)

ThreadInv(t) == Running(t) =>
    /\ answer[job[t].msg] = "none"
    /\ \A u \in Threads \ {t} : Running(u) => job[u].msg # job[t].msg
    /\ LookInv(t) /\ LoopInv(t)

\* Nobody is in the loop for m.
Outside(m) == \A t \in Threads : Running(t) /\ job[t].msg = m => job[t].at \in Early

MsgInv(m) ==
    /\ \A c \in Channels : sent[m][c] <= Most(c)
    /\ answer[m] = "true" => Delivered(m)
    /\ answer[m] # "none" /\ m \notin aborted => \A c \in listed[m] \ Silent : Entered(m, c)
    /\ answer[m] # "none" /\ TroubleFree => \A c \in accepted[m] \ Silent : Logged(m, c, TRUE)
    /\ answer[m] = "none" /\ Outside(m) =>
        listed[m] = {} /\ accepted[m] = {} /\ \A c \in Channels : sent[m][c] = 0

Inv ==
    /\ TypeOK /\ CacheInv
    /\ \A t \in Threads : ThreadInv(t)
    /\ \A m \in Msgs : MsgInv(m)

--------------------------------------------------------------------------------
(* Types *)

LEMMA FirstIn == ASSUME NEW m, NEW S, NEW c \in First(m, S) PROVE c \in S
  BY DEF First

LEMMA IdleNotJob == Idle \notin Jobs
  BY SMT DEF Idle, Jobs, Stages

LEMMA RunningJob ==
  ASSUME TypeOK, NEW t \in Threads
  PROVE /\ Running(t) <=> job[t] \in Jobs
        /\ Running(t) <=> job[t].at \in Stages
        /\ job[t].at \in Stages <=> job[t].at \in Early \cup Late
  <1>1. job[t] \in {Idle} \cup Jobs BY DEF TypeOK
  <1>2. ASSUME job[t] \in Jobs PROVE job[t].at \in Stages BY <1>2 DEF Jobs
  <1>3. Idle.at \notin Stages BY DEF Idle, Stages
  <1>4. Stages = Early \cup Late BY DEF Stages, Early, Late
  <1> QED BY <1>1, <1>2, <1>3, <1>4, IdleNotJob DEF Running

--------------------------------------------------------------------------------
(* What a step on behalf of message m leaves alone *)

OnBehalf(t, m) ==
    /\ \A u \in Threads \ {t} : Running(u) => job[u].msg # m
    /\ Running(t) => job[t].msg = m

Step(t, m) ==
    /\ OnBehalf(t, m)
    /\ \A u \in Threads \ {t} : job'[u] = job[u]
    /\ job'[t] = Idle \/ job'[t].msg = m
    /\ \A n \in Msgs \ {m} : /\ answer'[n] = answer[n] /\ listed'[n] = listed[n]
                             /\ sent'[n] = sent[n] /\ accepted'[n] = accepted[n]
    /\ logs \subseteq logs' /\ aborted \subseteq aborted'
    /\ throwsLeft' <= throwsLeft
    /\ gone \subseteq gone' /\ (overlap => overlap')

\* More calls have thrown, never fewer.
LEMMA ThrownGrows ==
  ASSUME TypeOK, TypeOK', throwsLeft' <= throwsLeft
  PROVE Thrown \in Nat /\ Thrown' \in Nat /\ Thrown <= Thrown'
  <1>1. \A n \in Nat : \A i, j \in 0..n : j <= i => n - i \in Nat /\ n - j \in Nat /\ n - i <= n - j
    OBVIOUS
  <1>2. throwsLeft \in 0..MaxThrows /\ throwsLeft' \in 0..MaxThrows
    BY DEF TypeOK
  <1>3. MaxThrows \in Nat
    BY DispatchAssumption
  <1>4. Thrown = MaxThrows - throwsLeft /\ Thrown' = MaxThrows - throwsLeft'
    BY DEF Thrown
  <1> QED BY <1>1, <1>2, <1>3, <1>4

\* and so do the bounds that depend on it.
LEMMA BoundsGrow ==
  ASSUME TypeOK, TypeOK', throwsLeft' <= throwsLeft, NEW c \in Channels
  PROVE /\ Past(c) \in Nat /\ Past(c)' \in Nat /\ Past(c) <= Past(c)'
        /\ Most(c) \in Nat /\ Most(c)' \in Nat /\ Most(c) <= Most(c)'
        /\ Past(c) + 1 <= Most(c) /\ (c \in Refreshing => Most(c) = Past(c) + 2)
        /\ TroubleFree' => TroubleFree
  <1>1. Thrown \in Nat /\ Thrown' \in Nat /\ Thrown <= Thrown' BY ThrownGrows
  <1>2. TroubleFree' => TroubleFree
    BY DispatchAssumption DEF TroubleFree, TypeOK
  <1>3. PICK i \in Nat, k \in Nat : i = Thrown /\ k = Thrown' /\ i <= k BY <1>1
  <1>4. Past(c) \in Nat /\ Past(c)' \in Nat /\ Past(c) <= Past(c)'
    <2>1. CASE c \in Refreshing
      <3>1. Past(c) = Thrown + Thrown /\ Past(c)' = Thrown' + Thrown' BY <2>1 DEF Past
      <3>2. Past(c) = i + i /\ Past(c)' = k + k BY <1>3, <3>1, Zenon
      <3>3. i + i \in Nat /\ k + k \in Nat /\ (i <= k => i + i <= k + k) OBVIOUS
      <3> QED BY <1>3, <3>2, <3>3
    <2>2. CASE c \notin Refreshing
      <3>1. Past(c) = i /\ Past(c)' = k BY <1>3, <2>2 DEF Past
      <3> QED BY <1>3, <3>1
    <2> QED BY <2>1, <2>2
  <1>5. CASE c \in Refreshing
    <2>1. Most(c) = Past(c) + 2 /\ Most(c)' = Past(c)' + 2 BY <1>5 DEF Most
    <2> QED BY <1>2, <1>4, <2>1
  <1>6. CASE c \notin Refreshing
    <2>1. Most(c) = Past(c) + 1 /\ Most(c)' = Past(c)' + 1 BY <1>6 DEF Most
    <2> QED BY <1>2, <1>4, <1>6, <2>1
  <1> QED BY <1>5, <1>6

LEMMA ThrownKnown ==
  ASSUME TypeOK
  PROVE Thrown \in Nat
  <1>1. \A n \in Nat : \A i \in 0..n : n - i \in Nat OBVIOUS
  <1> QED BY <1>1, DispatchAssumption DEF Thrown, TypeOK

LEMMA BoundsKnown ==
  ASSUME TypeOK, NEW c \in Channels
  PROVE /\ Past(c) \in Nat /\ Most(c) \in Nat
        /\ Past(c) + 1 <= Most(c) /\ (c \in Refreshing => Most(c) = Past(c) + 2)
  BY ThrownKnown DEF Past, Most

\* Entries of the send log stay.
LEMMA LoggedKept ==
  ASSUME logs \subseteq logs', NEW m, NEW c, NEW ok, Logged(m, c, ok)
  PROVE Logged(m, c, ok)'
  BY DEF Logged

LEMMA EntriesKept ==
  ASSUME logs \subseteq logs', NEW m, NEW c, Entered(m, c)
  PROVE Entered(m, c)'
  BY DEF Entered, Logged

LEMMA DeliveredKept ==
  ASSUME logs \subseteq logs', NEW m, listed'[m] = listed[m], accepted[m] \subseteq accepted'[m], Delivered(m)
  PROVE Delivered(m)'
  BY DEF Delivered, Logged

\* The other threads keep their invariant,
LEMMA ThreadsKept ==
  ASSUME Inv, TypeOK', NEW t \in Threads, NEW m \in Msgs, Step(t, m),
         NEW u \in Threads \ {t}
  PROVE ThreadInv(u)'
  <1> SUFFICES ASSUME Running(u)' PROVE ThreadInv(u)'
    BY DEF ThreadInv
  <1>1. job'[u] = job[u] /\ Running(u) /\ job[u] \in Jobs
    <2>1. job'[u] = job[u] /\ Running(u) BY DEF Step, Running
    <2> QED BY <2>1, RunningJob DEF Inv
  <1> DEFINE n == job[u].msg
  <1>2. n \in Msgs /\ n # m
    BY <1>1 DEF Step, OnBehalf, Jobs
  <1>3. /\ answer'[n] = answer[n] /\ listed'[n] = listed[n]
        /\ sent'[n] = sent[n] /\ accepted'[n] = accepted[n]
    BY <1>2 DEF Step
  <1>4. ThreadInv(u)
    BY DEF Inv
  <1>5. \A v \in Threads \ {u} : Running(v)' => job'[v].msg # n
    <2> SUFFICES ASSUME NEW v \in Threads \ {u}, Running(v)' PROVE job'[v].msg # n
      OBVIOUS
    <2>1. CASE v = t BY <2>1, <1>2 DEF Step, Running
    <2>2. CASE v # t BY <2>2, <1>1, <1>4 DEF Step, Running, ThreadInv
    <2> QED BY <2>1, <2>2
  <1>6. LookInv(u)'
    BY <1>1, <1>4 DEF ThreadInv, LookInv, Step
  <1>7. ASSUME job[u].at \in Late PROVE LoopInv(u)'
    <2>1. LoopInv(u) BY <1>1, <1>4 DEF ThreadInv
    <2>2. \A c \in listed[n] \ (job[u].todo \cup {job[u].channel} \cup Silent) : Entered(n, c)'
      BY <2>1, <1>7, EntriesKept DEF LoopInv, Step
    <2>3. job[u].result => Delivered(n)'
      BY <2>1, <1>3, <1>7, DeliveredKept DEF LoopInv, Step
    <2> PICK c \in Channels : c = job[u].channel BY <1>1 DEF Jobs
    <2>4. /\ sent[n][c] \in Nat /\ Past(c) \in Nat /\ Past(c)' \in Nat /\ Past(c) <= Past(c)'
          /\ TroubleFree' => TroubleFree
      BY <1>2, BoundsGrow DEF Inv, TypeOK, Step
    <2>5. job[u].at = "sending" => sent[n][c] <= Past(c)'
      BY <2>1, <1>7, <2>4 DEF LoopInv
    <2>6. job[u].at = "resending" => c \in Refreshing /\ sent[n][c] <= Past(c)' + 1
      BY <2>1, <1>7, <2>4 DEF LoopInv
    <2>7. TroubleFree' =>
            /\ job[u].at # "recovering"
            /\ \A d \in accepted[n] \ (Silent \cup {c}) : Logged(n, d, TRUE)'
            /\ c \in accepted[n] \ Silent => EntryDue(u)'
      <3>1. EntryDue(u) => EntryDue(u)' BY <1>1, LoggedKept DEF EntryDue, Step, Logged
      <3> QED BY <2>1, <1>7, <2>4, <3>1, LoggedKept DEF LoopInv, Step
    <2> QED BY <2>1, <2>2, <2>3, <2>5, <2>6, <2>7, <1>1, <1>3, <1>7 DEF LoopInv
  <1>8. LoopInv(u)' BY <1>7, <1>1 DEF LoopInv
  <1> QED BY <1>1, <1>3, <1>4, <1>5, <1>6, <1>8 DEF ThreadInv

\* and so do the other messages.
LEMMA MsgsKept ==
  ASSUME Inv, TypeOK', NEW t \in Threads, NEW m \in Msgs, Step(t, m),
         NEW n \in Msgs \ {m}
  PROVE MsgInv(n)'
  <1>1. /\ answer'[n] = answer[n] /\ listed'[n] = listed[n]
        /\ sent'[n] = sent[n] /\ accepted'[n] = accepted[n]
    BY DEF Step
  <1>2. MsgInv(n) BY DEF Inv
  <1>3. \A c \in Channels : sent[n][c] <= Most(c)'
    <2> TAKE c \in Channels
    <2>1. sent[n][c] \in Nat BY DEF Inv, TypeOK
    <2> QED BY <2>1, <1>2, BoundsGrow DEF MsgInv, Inv, Step
  <1>4. answer[n] = "true" => Delivered(n)'
    BY <1>1, <1>2, DeliveredKept DEF MsgInv, Step
  <1>7. answer[n] # "none" /\ TroubleFree' => \A c \in accepted[n] \ Silent : Logged(n, c, TRUE)'
    <2>1. TroubleFree' => TroubleFree
      BY DispatchAssumption DEF TroubleFree, Inv, TypeOK, Step
    <2> QED BY <1>2, <2>1, LoggedKept DEF MsgInv, Step
  <1>5. answer[n] # "none" /\ n \notin aborted' => \A c \in listed[n] \ Silent : Entered(n, c)'
    BY <1>2, EntriesKept DEF MsgInv, Step
  <1>6. Outside(n)' => Outside(n)
    <2> SUFFICES ASSUME Outside(n)', NEW u \in Threads, Running(u), job[u].msg = n
                 PROVE job[u].at \in Early
      BY DEF Outside
    <2>1. u # t /\ job'[u] = job[u] BY DEF Step, OnBehalf
    <2> QED BY <2>1 DEF Outside, Running
  <1> QED BY <1>1, <1>2, <1>3, <1>4, <1>5, <1>6, <1>7 DEF MsgInv

\* So a step need only answer for its own thread and message, and for the cache.
LEMMA OwnSuffices ==
  ASSUME Inv, TypeOK', NEW t \in Threads, NEW m \in Msgs, Step(t, m),
         CacheInv', ThreadInv(t)', MsgInv(m)'
  PROVE Inv'
  BY ThreadsKept, MsgsKept DEF Inv

--------------------------------------------------------------------------------
(* What each kind of step does to its job *)

\* push has returned for the message of t.
LEMMA ReturnStep ==
  ASSUME TypeOK, NEW t \in Threads, Running(t), NEW r \in BOOLEAN, Return(t, r)
  PROVE /\ job' \in [Threads -> {Idle} \cup Jobs]
        /\ answer' \in [Msgs -> {"none", "true", "false", "thrown"}]
        /\ job'[t] = Idle /\ \A u \in Threads \ {t} : job'[u] = job[u]
        /\ answer'[job[t].msg] \in {Outcome(r), "thrown"}
        /\ \A n \in Msgs \ {job[t].msg} : answer'[n] = answer[n]
  <1>1. job[t].msg \in Msgs BY RunningJob DEF Jobs
  <1> QED BY <1>1 DEF Return, TypeOK, Outcome

\* t goes on with a job of its own.
LEMMA MoveStep ==
  ASSUME TypeOK, NEW t \in Threads, NEW j \in Jobs, job' = [job EXCEPT ![t] = j]
  PROVE /\ job' \in [Threads -> {Idle} \cup Jobs]
        /\ job'[t] = j /\ \A u \in Threads \ {t} : job'[u] = job[u]
  BY DEF TypeOK

LEMMA GotoStep ==
  ASSUME TypeOK, NEW t \in Threads, Running(t), NEW s \in Stages, Goto(t, s)
  PROVE /\ job' \in [Threads -> {Idle} \cup Jobs]
        /\ job'[t] = [job[t] EXCEPT !.at = s] /\ job'[t] \in Jobs
        /\ \A u \in Threads \ {t} : job'[u] = job[u]
  <1>1. [job[t] EXCEPT !.at = s] \in Jobs BY RunningJob DEF Jobs
  <1>2. job' = [job EXCEPT ![t] = [job[t] EXCEPT !.at = s]] BY DEF Goto, TypeOK
  <1> QED BY <1>1, <1>2, MoveStep

\* The loop has gone on to another channel, or push has returned.
LEMMA NextChannelStep ==
  ASSUME TypeOK, NEW t \in Threads, Running(t), NEW r \in BOOLEAN, NextChannel(t, r)
  PROVE \/ job[t].todo = {} /\ Return(t, r)
        \/ /\ answer' = answer
           /\ job' \in [Threads -> {Idle} \cup Jobs]
           /\ \A u \in Threads \ {t} : job'[u] = job[u]
           /\ \E c \in job[t].todo :
                job'[t] = [job[t] EXCEPT !.at = "sending", !.channel = c, !.todo = job[t].todo \ {c},
                                         !.attempt = 1, !.result = r]
           /\ job'[t] \in Jobs
  <1>1. CASE job[t].todo = {} BY <1>1 DEF NextChannel
  <1>2. CASE job[t].todo # {}
    <2>1. PICK c \in First(job[t].msg, job[t].todo) :
            job' = [job EXCEPT ![t] = [job[t] EXCEPT !.at = "sending", !.channel = c, !.todo = job[t].todo \ {c},
                                                     !.attempt = 1, !.result = r]]
      BY <1>2 DEF NextChannel, TypeOK
    <2>2. c \in job[t].todo BY FirstIn
    <2> DEFINE j == [job[t] EXCEPT !.at = "sending", !.channel = c, !.todo = job[t].todo \ {c},
                                   !.attempt = 1, !.result = r]
    <2>7. job[t] \in Jobs BY RunningJob
    <2>8. c \in Channels /\ job[t].todo \ {c} \subseteq Channels /\ 1 \in 1..Attempts
      BY <2>2, <2>7 DEF Jobs, Attempts
    <2>3. j \in Jobs BY <2>7, <2>8 DEF Jobs, Stages
    <2>4. job' = [job EXCEPT ![t] = j] BY <2>1
    <2>5. answer' = answer BY <1>2 DEF NextChannel
    <2> HIDE DEF j
    <2>6. /\ job' \in [Threads -> {Idle} \cup Jobs]
          /\ job'[t] = j /\ \A u \in Threads \ {t} : job'[u] = job[u]
      BY <2>3, <2>4, MoveStep
    <2> QED BY <2>2, <2>3, <2>5, <2>6 DEF j
  <1> QED BY <1>1, <1>2

\* Another attempt, or recover.
LEMMA AttemptFailsStep ==
  ASSUME TypeOK, NEW t \in Threads, Running(t), AttemptFails(t)
  PROVE /\ job' \in [Threads -> {Idle} \cup Jobs]
        /\ \A u \in Threads \ {t} : job'[u] = job[u]
        /\ \E s \in {"sending", "recovering"}, a \in 1..Attempts :
             job'[t] = [job[t] EXCEPT !.at = s, !.attempt = a]
        /\ job'[t] \in Jobs
  <1>1. job[t] \in Jobs BY RunningJob
  <1>2. CASE job[t].attempt < Attempts
    <2> DEFINE j == [job[t] EXCEPT !.at = "sending", !.attempt = job[t].attempt + 1]
    <2>1. job[t].attempt + 1 \in 1..Attempts BY <1>1, <1>2 DEF Jobs, Attempts
    <2>2. j \in Jobs BY <1>1, <2>1 DEF Jobs, Stages
    <2>3. job' = [job EXCEPT ![t] = j] BY <1>2 DEF AttemptFails, TypeOK
    <2> HIDE DEF j
    <2>4. /\ job' \in [Threads -> {Idle} \cup Jobs]
          /\ job'[t] = j /\ \A u \in Threads \ {t} : job'[u] = job[u]
      BY <2>2, <2>3, MoveStep
    <2> QED BY <2>1, <2>2, <2>4 DEF j
  <1>3. CASE ~(job[t].attempt < Attempts)
    <2>1. Goto(t, "recovering") BY <1>3 DEF AttemptFails
    <2>2. "recovering" \in Stages BY DEF Stages
    <2>3. [job[t] EXCEPT !.at = "recovering"] = [job[t] EXCEPT !.at = "recovering", !.attempt = job[t].attempt]
      BY <1>1 DEF Jobs
    <2>4. job[t].attempt \in 1..Attempts BY <1>1 DEF Jobs
    <2> QED BY <2>1, <2>2, <2>3, <2>4, GotoStep
  <1> QED BY <1>2, <1>3

--------------------------------------------------------------------------------
(* Where a step may end: in a return, in the look-up, or in the loop *)

LEMMA CacheKept ==
  ASSUME CacheInv, UNCHANGED <<cacheVars, stale>>
  PROVE CacheInv'
  BY DEF CacheInv, cacheVars

LEMMA CacheTypeKept ==
  ASSUME TypeOK, UNCHANGED cacheVars
  PROVE CacheTypeOK'
  BY DEF TypeOK, CacheTypeOK, cacheVars

LEMMA ReturnInv ==
  ASSUME Inv, TypeOK', CacheInv', NEW t \in Threads, Running(t), NEW r \in BOOLEAN,
         NEW m \in Msgs, m = job[t].msg, Step(t, m), Return(t, r),
         r => Delivered(m)',
         m \in aborted' \/ \A c \in listed'[m] \ Silent : Entered(m, c)',
         TroubleFree' => \A c \in accepted'[m] \ Silent : Logged(m, c, TRUE)',
         \A c \in Channels : sent'[m][c] <= Most(c)'
  PROVE Inv'
  <1>1. job'[t] = Idle /\ answer'[m] \in {Outcome(r), "thrown"} BY ReturnStep DEF Inv
  <1>2. ThreadInv(t)' BY <1>1 DEF ThreadInv, Running
  <1>3. answer'[m] # "none" /\ (answer'[m] = "true" => r) BY <1>1 DEF Outcome
  <1>4. MsgInv(m)' BY <1>3 DEF MsgInv
  <1> QED BY <1>2, <1>4, OwnSuffices

LEMMA LookUpInv ==
  ASSUME Inv, TypeOK', CacheInv', NEW t \in Threads, NEW m \in Msgs,
         Step(t, m), job'[t].msg = m, job'[t].at \in Early, LookInv(t)',
         answer[m] = "none", answer'[m] = answer[m], Outside(m),
         sent'[m] = sent[m], listed'[m] = listed[m], accepted'[m] = accepted[m]
  PROVE Inv'
  <1>1. \A u \in Threads \ {t} : Running(u)' => job'[u].msg # m
    BY DEF Step, OnBehalf, Running
  <1>2. job'[t].at \notin Late
    BY DEF Early, Late
  <1>3. ThreadInv(t)'
    BY <1>1, <1>2 DEF ThreadInv, LoopInv
  <1>4. listed[m] = {} /\ accepted[m] = {} /\ \A c \in Channels : sent[m][c] = 0
    BY DEF Inv, MsgInv
  <1>5. \A c \in Channels : 0 <= Most(c)'
    BY BoundsGrow DEF Inv, Step
  <1>6. MsgInv(m)'
    BY <1>4, <1>5 DEF MsgInv
  <1> QED BY <1>3, <1>6, OwnSuffices

LEMMA InLoopInv ==
  ASSUME Inv, TypeOK', CacheInv', NEW t \in Threads, Running(t),
         NEW m \in Msgs, m = job[t].msg, Step(t, m),
         job'[t].msg = m, job'[t].at \in Late, LoopInv(t)', answer'[m] = answer[m],
         \A c \in Channels : sent'[m][c] <= Most(c)'
  PROVE Inv'
  <1>1. \A u \in Threads \ {t} : Running(u)' => job'[u].msg # m
    BY DEF Step, OnBehalf, Running
  <1>2. job'[t].at \notin Early /\ Running(t)'
    BY DEF Early, Late, Running, Idle
  <1>3. answer'[m] = "none"
    BY DEF Inv, ThreadInv
  <1>4. ThreadInv(t)'
    BY <1>1, <1>2, <1>3 DEF ThreadInv, LookInv
  <1>5. ~Outside(m)'
    BY <1>2 DEF Outside
  <1>6. MsgInv(m)'
    BY <1>3, <1>5 DEF MsgInv
  <1> QED BY <1>4, <1>6, OwnSuffices

\* Nobody else works for the message of t.
LEMMA OwnMessage ==
  ASSUME Inv, NEW t \in Threads, Running(t)
  PROVE /\ job[t] \in Jobs /\ job[t].msg \in Msgs
        /\ OnBehalf(t, job[t].msg)
        /\ answer[job[t].msg] = "none"
        /\ LookInv(t) /\ LoopInv(t)
        /\ job[t].at \in Early => Outside(job[t].msg)
        /\ \A c \in Channels : sent[job[t].msg][c] <= Most(c)
  <1>1. job[t] \in Jobs BY RunningJob DEF Inv
  <1>2. job[t].msg \in Msgs BY <1>1 DEF Jobs
  <1>3. ThreadInv(t) BY DEF Inv
  <1>4. OnBehalf(t, job[t].msg) BY <1>3 DEF ThreadInv, OnBehalf
  <1>5. \A c \in Channels : sent[job[t].msg][c] <= Most(c) BY <1>2 DEF Inv, MsgInv
  <1>6. job[t].at \in Early => Outside(job[t].msg) BY <1>3 DEF ThreadInv, Outside
  <1> QED BY <1>1, <1>2, <1>3, <1>4, <1>5, <1>6 DEF ThreadInv

--------------------------------------------------------------------------------
(* The look-up *)

\* Nobody works for a message that is waiting.
LEMMA AwaitingFacts ==
  ASSUME Inv, NEW t \in Threads, NEW m \in Msgs, Awaiting(t, m)
  PROVE ~Running(t) /\ answer[m] = "none" /\ OnBehalf(t, m) /\ Outside(m)
  BY DEF Awaiting, OnBehalf, Outside, Running

LEMMA PushUnknownInv ==
  ASSUME Inv, NEW t \in Threads, NEW m \in Msgs, PushUnknown(t, m)
  PROVE Inv'
  <1>1. Awaiting(t, m) BY DEF PushUnknown
  <1>2. TypeOK'
    <2>1. CacheTypeOK' BY CacheTypeKept DEF Inv, PushUnknown
    <2> QED BY <2>1 DEF Inv, TypeOK, PushUnknown
  <1>3. CacheInv' BY CacheKept DEF Inv, PushUnknown
  <1>4. Step(t, m)
    BY <1>1, AwaitingFacts DEF Step, PushUnknown, Inv, TypeOK, cacheVars, Running
  <1>5. ThreadInv(t)'
    BY <1>1, AwaitingFacts DEF ThreadInv, Running, PushUnknown
  <1>6. answer'[m] \in {"false", "thrown"} /\ listed'[m] = listed[m] /\ sent' = sent /\ accepted' = accepted
        /\ \A c \in Channels : Most(c)' = Most(c)
    BY DEF PushUnknown, Inv, TypeOK, Thrown, Past, Most
  <1>7. MsgInv(m) /\ listed[m] = {} /\ accepted[m] = {}
    BY <1>1, AwaitingFacts DEF Inv, MsgInv
  <1>8. MsgInv(m)' BY <1>6, <1>7 DEF MsgInv
  <1> QED BY <1>2, <1>3, <1>4, <1>5, <1>8, OwnSuffices

LEMMA StartPushInv ==
  ASSUME Inv, NEW t \in Threads, NEW m \in Msgs, StartPush(t, m)
  PROVE Inv'
  <1> DEFINE j == [at |-> "looking", msg |-> m, rules |-> {}, gone |-> gone,
                   channel |-> AnyChannel, todo |-> {}, attempt |-> 1, ok |-> FALSE, result |-> FALSE]
  <1>1. Awaiting(t, m) BY DEF StartPush
  <1>2. AnyChannel \in Channels BY DispatchAssumption DEF AnyChannel
  <1>3. gone \subseteq Channels BY DEF Inv, TypeOK, CacheTypeOK
  <1>4. j \in Jobs BY <1>2, <1>3 DEF Jobs, Stages, Attempts
  <1>5. job' = [job EXCEPT ![t] = j] BY DEF StartPush
  <1>6. j.at = "looking" /\ j.msg = m /\ ~j.result /\ j.gone = gone OBVIOUS
  <1> HIDE DEF j
  <1>7. /\ job' \in [Threads -> {Idle} \cup Jobs]
        /\ job'[t] = j /\ \A u \in Threads \ {t} : job'[u] = job[u]
    BY <1>4, <1>5, MoveStep DEF Inv
  <1>8. TypeOK'
    <2>1. CacheTypeOK' BY CacheTypeKept DEF Inv, StartPush
    <2> QED BY <2>1, <1>7 DEF Inv, TypeOK, StartPush
  <1>9. CacheInv' BY CacheKept DEF Inv, StartPush
  <1>10. Step(t, m)
    BY <1>1, <1>6, <1>7, AwaitingFacts DEF Step, StartPush, Inv, TypeOK, cacheVars
  <1>11. LookInv(t)' BY <1>6, <1>7 DEF LookInv, StartPush, cacheVars
  <1>12. job'[t].msg = m /\ job'[t].at \in Early BY <1>6, <1>7 DEF Early
  <1>13. answer' = answer /\ sent' = sent /\ listed' = listed /\ accepted' = accepted BY DEF StartPush
  <1> QED BY <1>1, <1>8, <1>9, <1>10, <1>11, <1>12, <1>13, AwaitingFacts, LookUpInv

\* What the calls of the look-up share.
LookStep(t) ==
    /\ Running(t) /\ job[t].at \in Early
    /\ UNCHANGED <<listed, logs, sent, accepted, aborted, stale, throwsLeft>>
    /\ gone' = gone /\ (overlap => overlap')

\* It goes on with the look-up,
LEMMA LookGoesOn ==
  ASSUME Inv, TypeOK', CacheInv', NEW t \in Threads, LookStep(t),
         NEW j \in Jobs, job' = [job EXCEPT ![t] = j], j.msg = job[t].msg, j.at \in Early,
         LookInv(t)', answer' = answer
  PROVE Inv'
  <1> PICK m \in Msgs : m = job[t].msg BY OwnMessage DEF LookStep
  <1>1. job'[t] = j /\ \A u \in Threads \ {t} : job'[u] = job[u] BY MoveStep DEF Inv
  <1>2. Step(t, m)
    BY <1>1, OwnMessage DEF LookStep, Step, Inv, TypeOK
  <1>3. /\ job'[t].msg = m /\ job'[t].at \in Early
        /\ answer[m] = "none" /\ answer'[m] = answer[m] /\ Outside(m)
        /\ sent'[m] = sent[m] /\ listed'[m] = listed[m] /\ accepted'[m] = accepted[m]
    BY <1>1, OwnMessage DEF LookStep
  <1> QED BY <1>2, <1>3, LookUpInv

\* or finds no rule and returns.
LEMMA LookReturns ==
  ASSUME Inv, TypeOK', CacheInv', NEW t \in Threads, LookStep(t), Return(t, FALSE)
  PROVE Inv'
  <1> PICK m \in Msgs : m = job[t].msg BY OwnMessage DEF LookStep
  <1>1. /\ job'[t] = Idle /\ \A u \in Threads \ {t} : job'[u] = job[u]
        /\ \A n \in Msgs \ {m} : answer'[n] = answer[n]
    BY ReturnStep DEF LookStep, Inv
  <1>2. Step(t, m)
    BY <1>1, OwnMessage DEF LookStep, Step, Inv, TypeOK
  <1>3. Outside(m) /\ answer[m] = "none" BY OwnMessage DEF LookStep
  <1>4. listed'[m] = {} /\ accepted'[m] = {} BY <1>3 DEF Inv, MsgInv, LookStep
  <1>5. \A c \in Channels : sent'[m][c] <= Most(c)' BY OwnMessage DEF LookStep, Thrown, Past, Most
  <1>6. Running(t) BY DEF LookStep
  <1> QED BY <1>2, <1>4, <1>5, <1>6, ReturnInv

\* The list of rules has been found.
LEMMA FoundInv ==
  ASSUME Inv, CacheTypeOK', CacheInv', NEW t \in Threads, LookStep(t), NEW value \in SUBSET Channels, Found(t, value),
         value \cap job[t].gone # {} => overlap'
  PROVE Inv'
  <1>1. job[t] \in Jobs /\ LookInv(t) BY OwnMessage DEF LookStep
  <1>2. CASE value = {}
    <2>1. Return(t, FALSE) BY <1>2 DEF Found
    <2>2. TypeOK' BY <2>1, ReturnStep DEF LookStep, Inv, TypeOK
    <2> QED BY <2>1, <2>2, LookReturns
  <1>3. CASE value # {}
    <2> DEFINE j == [job[t] EXCEPT !.at = "preparing", !.rules = value]
    <2>1. job' = [job EXCEPT ![t] = j] /\ answer' = answer
      BY <1>3 DEF Found, Inv, TypeOK
    <2>2. j \in Jobs BY <1>1 DEF Jobs, Stages
    <2>3. /\ j.at = "preparing" /\ j.rules = value /\ j.gone = job[t].gone
          /\ j.msg = job[t].msg /\ j.result = job[t].result
      BY <1>1 DEF Jobs
    <2> HIDE DEF j
    <2>4. /\ job' \in [Threads -> {Idle} \cup Jobs] /\ job'[t] = j
      BY <2>1, <2>2, MoveStep DEF Inv
    <2>5. TypeOK' BY <2>1, <2>4 DEF LookStep, Inv, TypeOK
    <2>6. j.at \in Early BY <2>3 DEF Early
    <2>7. LookInv(t)' BY <1>1, <2>3, <2>4 DEF LookInv, LookStep
    <2> QED BY <2>1, <2>2, <2>3, <2>5, <2>6, <2>7, LookGoesOn
  <1> QED BY <1>2, <1>3

LEMMA LookHitInv ==
  ASSUME Inv, NEW t \in Threads, LookHit(t)
  PROVE Inv'
  <1>1. PICK value \in entry : Hit(value) /\ Found(t, value) BY DEF LookHit
  <1>2. UNCHANGED cacheVars /\ UNCHANGED stale BY <1>1 DEF Hit, LookHit
  <1>3. CacheTypeOK' /\ CacheInv' BY <1>2, CacheTypeKept, CacheKept DEF Inv
  <1>4. value \in SUBSET Channels BY DEF Inv, TypeOK, CacheTypeOK
  <1>5. LookStep(t) BY <1>2 DEF LookHit, LookStep, Early, Running, Idle, cacheVars
  <1>6. job[t].gone \subseteq gone BY <1>5, OwnMessage DEF LookInv, LookStep
  <1>7. value \cap job[t].gone # {} => overlap'
    BY <1>2, <1>6 DEF Inv, CacheInv, cacheVars
  <1> QED BY <1>1, <1>3, <1>4, <1>5, <1>7, FoundInv

LEMMA LookMissInv ==
  ASSUME Inv, NEW t \in Threads, LookMiss(t)
  PROVE Inv'
  <1>1. UNCHANGED cacheVars /\ UNCHANGED stale BY DEF Missed, LookMiss
  <1>2. CacheTypeOK' /\ CacheInv' BY <1>1, CacheTypeKept, CacheKept DEF Inv
  <1>3. LookStep(t) BY <1>1 DEF LookMiss, LookStep, Early, Running, Idle, cacheVars
  <1>4. job[t] \in Jobs /\ LookInv(t) BY <1>3, OwnMessage DEF LookStep
  <1> DEFINE j == [job[t] EXCEPT !.at = "selecting"]
  <1>5. job' = [job EXCEPT ![t] = j] BY DEF LookMiss, Goto, Inv, TypeOK
  <1>6. j \in Jobs /\ j.msg = job[t].msg /\ j.at = "selecting" /\ j.gone = job[t].gone /\ j.result = job[t].result
    BY <1>4 DEF Jobs, Stages
  <1> HIDE DEF j
  <1>7. job' \in [Threads -> {Idle} \cup Jobs] /\ job'[t] = j BY <1>5, <1>6, MoveStep DEF Inv
  <1>8. TypeOK' BY <1>2, <1>7 DEF LookMiss, Inv, TypeOK
  <1>9. LookInv(t)' BY <1>3, <1>4, <1>6, <1>7 DEF LookInv, LookStep, Early
  <1>10. j.at \in Early BY <1>6 DEF Early
  <1>11. answer' = answer BY DEF LookMiss
  <1> QED BY <1>2, <1>3, <1>5, <1>6, <1>8, <1>9, <1>10, <1>11, LookGoesOn

LEMMA SelectRulesInv ==
  ASSUME Inv, NEW t \in Threads, SelectRules(t)
  PROVE Inv'
  <1>1. UNCHANGED cacheVars /\ UNCHANGED stale BY DEF Select, SelectRules
  <1>2. CacheTypeOK' /\ CacheInv' BY <1>1, CacheTypeKept, CacheKept DEF Inv
  <1>3. LookStep(t) BY <1>1 DEF SelectRules, LookStep, Early, Running, Idle, cacheVars
  <1>4. job[t] \in Jobs /\ LookInv(t) BY <1>3, OwnMessage DEF LookStep
  <1> DEFINE j == [job[t] EXCEPT !.at = "storing", !.rules = rules]
  <1>5. job' = [job EXCEPT ![t] = j] BY DEF SelectRules, Inv, TypeOK
  <1>6. rules \in SUBSET Channels BY DEF Inv, TypeOK, CacheTypeOK
  <1>7. /\ j \in Jobs /\ j.msg = job[t].msg /\ j.at = "storing" /\ j.rules = rules
        /\ j.gone = job[t].gone /\ j.result = job[t].result
    BY <1>4, <1>6 DEF Jobs, Stages
  <1> HIDE DEF j
  <1>8. job' \in [Threads -> {Idle} \cup Jobs] /\ job'[t] = j BY <1>5, <1>7, MoveStep DEF Inv
  <1>9. TypeOK' BY <1>2, <1>8 DEF SelectRules, Inv, TypeOK
  <1>10. rules \cap job[t].gone = {}
    BY <1>3, <1>4 DEF LookInv, LookStep, Inv, CacheInv
  <1>11. LookInv(t)' BY <1>3, <1>4, <1>7, <1>8, <1>10 DEF LookInv, LookStep, Early
  <1>12. j.at \in Early BY <1>7 DEF Early
  <1>13. answer' = answer BY DEF SelectRules
  <1> QED BY <1>2, <1>3, <1>5, <1>7, <1>9, <1>11, <1>12, <1>13, LookGoesOn

LEMMA StoreRulesInv ==
  ASSUME Inv, NEW t \in Threads, StoreRules(t)
  PROVE Inv'
  <1> DEFINE value == job[t].rules
  <1>1. job[t].at = "storing" /\ Store(value) /\ Found(t, value) BY DEF StoreRules
  <1>9. overlap => overlap' BY <1>1, Zenon DEF Store
  <1>10. Running(t) /\ job[t].at \in Early BY <1>1 DEF Early, Running, Idle
  <1>2. LookStep(t) BY <1>9, <1>10 DEF StoreRules, Store, LookStep
  <1>3. job[t] \in Jobs /\ LookInv(t) BY <1>2, OwnMessage DEF LookStep
  <1>4. value \in SUBSET Channels BY <1>3 DEF Jobs
  <1>5. CacheTypeOK' BY <1>1, <1>4 DEF Inv, TypeOK, CacheTypeOK, Store
  <1>6. stale' = stale BY DEF StoreRules
  <1>7. CacheInv'
    BY <1>1, <1>6 DEF Inv, CacheInv, Store, TypeOK, CacheTypeOK
  <1>8. value \cap job[t].gone = {} BY <1>1, <1>2, <1>3 DEF LookInv, LookStep
  <1> QED BY <1>1, <1>2, <1>4, <1>5, <1>7, <1>8, FoundInv

\* An exception leaves push, whose result is what it was.
LEMMA AbortInv ==
  ASSUME Inv, NEW t \in Threads, Running(t), Abort(t), throwsLeft' \in 0..MaxThrows, throwsLeft' <= throwsLeft,
         ~TroubleFree', UNCHANGED cacheVars
  PROVE Inv'
  <1> PICK m \in Msgs : m = job[t].msg BY OwnMessage
  <1>1. job[t] \in Jobs /\ job[t].result \in BOOLEAN BY OwnMessage DEF Jobs
  <1> PICK r \in BOOLEAN : r = job[t].result BY <1>1
  <1>2. Return(t, r) BY DEF Abort
  <1>3. /\ job' \in [Threads -> {Idle} \cup Jobs] /\ answer' \in [Msgs -> {"none", "true", "false", "thrown"}]
        /\ job'[t] = Idle /\ \A u \in Threads \ {t} : job'[u] = job[u]
        /\ \A n \in Msgs \ {m} : answer'[n] = answer[n]
    BY <1>2, ReturnStep DEF Inv
  <1>4. CacheTypeOK' BY CacheTypeKept DEF Inv
  <1>5. TypeOK' BY <1>3, <1>4 DEF Abort, Inv, TypeOK
  <1>6. CacheInv' BY CacheKept DEF Abort, Inv
  <1>7. Step(t, m) BY <1>3, OwnMessage DEF Step, Abort, cacheVars
  <1>8. r => Delivered(m)
    <2>1. job[t].at \in Early \cup Late BY RunningJob DEF Inv
    <2> QED BY <2>1, OwnMessage DEF LookInv, LoopInv
  <1>9. r => Delivered(m)' BY <1>8 DEF Delivered, Abort, Logged
  <1>10. m \in aborted' BY DEF Abort
  <1>11. \A c \in Channels : sent'[m][c] <= Most(c)'
    <2> TAKE c \in Channels
    <2>1. sent[m][c] <= Most(c) /\ sent'[m][c] = sent[m][c] BY OwnMessage DEF Abort
    <2>2. sent[m][c] \in Nat BY DEF Inv, TypeOK
    <2> QED BY <2>1, <2>2, <1>5, BoundsGrow DEF Inv
  <1> QED BY <1>2, <1>5, <1>6, <1>7, <1>9, <1>10, <1>11, ReturnInv

LEMMA ThrowsBound ==
  ASSUME TypeOK, Throws
  PROVE /\ throwsLeft' \in 0..MaxThrows /\ throwsLeft' <= throwsLeft /\ throwsLeft' = throwsLeft - 1
        /\ ~TroubleFree'
  BY DispatchAssumption DEF TypeOK, Throws, TroubleFree

LEMMA LookThrowsInv ==
  ASSUME Inv, NEW t \in Threads, LookThrows(t)
  PROVE Inv'
  <1>1. Running(t) BY DEF LookThrows, Running, Idle
  <1>2. Throws /\ Abort(t) /\ UNCHANGED cacheVars BY DEF LookThrows
  <1> QED BY <1>1, <1>2, ThrowsBound, AbortInv DEF Inv

LEMMA PrepareInv ==
  ASSUME Inv, NEW t \in Threads, Prepare(t)
  PROVE Inv'
  <1>1. job[t].at = "preparing" /\ Running(t) /\ job[t].at \in Early
    BY DEF Prepare, Running, Idle, Early
  <1> PICK m \in Msgs : m = job[t].msg BY <1>1, OwnMessage
  <1> DEFINE all == IF m \in PushAll THEN Channels ELSE job[t].rules
  <1>2. /\ \E c \in First(m, all) :
             job' = [job EXCEPT ![t] = [job[t] EXCEPT !.at = "sending", !.channel = c, !.todo = all \ {c},
                                                      !.rules = {}, !.gone = {}]]
        /\ listed' = [listed EXCEPT ![m] = all]
        /\ stale' = IF m \notin PushAll /\ all \cap job[t].gone # {} THEN stale \cup {m} ELSE stale
        /\ UNCHANGED <<cacheVars, answer, logs, sent, accepted, aborted, throwsLeft>>
    BY DEF Prepare, Inv, TypeOK
  <1>3. job[t] \in Jobs /\ LookInv(t) /\ Outside(m) /\ answer[m] = "none" BY <1>1, OwnMessage
  <1>4. all \in SUBSET Channels BY <1>3 DEF Jobs
  <1>5. m \notin PushAll => all = job[t].rules OBVIOUS
  <1> HIDE DEF all
  <1>6. PICK c \in all :
          job' = [job EXCEPT ![t] = [job[t] EXCEPT !.at = "sending", !.channel = c, !.todo = all \ {c},
                                                   !.rules = {}, !.gone = {}]]
    BY <1>2, FirstIn
  <1> DEFINE j == [job[t] EXCEPT !.at = "sending", !.channel = c, !.todo = all \ {c}, !.rules = {}, !.gone = {}]
  <1>7. /\ j \in Jobs /\ j.msg = m /\ j.at = "sending" /\ j.channel = c /\ j.todo = all \ {c}
        /\ j.result = job[t].result
    BY <1>3, <1>4 DEF Jobs, Stages
  <1>8. job' = [job EXCEPT ![t] = j] BY <1>6
  <1> HIDE DEF j
  <1>9. job' \in [Threads -> {Idle} \cup Jobs] /\ job'[t] = j /\ \A u \in Threads \ {t} : job'[u] = job[u]
    BY <1>7, <1>8, MoveStep DEF Inv
  <1>10. CacheTypeOK' BY <1>2, CacheTypeKept DEF Inv
  <1>11. listed' \in [Msgs -> SUBSET Channels] BY <1>2, <1>4 DEF Inv, TypeOK
  <1>12. stale' \subseteq Msgs BY <1>2 DEF Inv, TypeOK
  <1>13. TypeOK' BY <1>2, <1>9, <1>10, <1>11, <1>12 DEF Inv, TypeOK
  <1>14. stale' # {} => overlap
    <2>1. job[t].rules \cap job[t].gone # {} => overlap BY <1>1, <1>3 DEF LookInv
    <2>2. stale # {} => overlap BY DEF Inv, CacheInv
    <2> QED BY <2>1, <2>2, <1>2, <1>5
  <1>15. CacheInv' BY <1>2, <1>14 DEF Inv, CacheInv, cacheVars
  <1>16. listed'[m] = all /\ \A n \in Msgs \ {m} : listed'[n] = listed[n] BY <1>2 DEF Inv, TypeOK
  <1>17. Step(t, m)
    BY <1>1, <1>2, <1>7, <1>9, <1>16, OwnMessage DEF Step, cacheVars, Inv, TypeOK
  <1>18. accepted[m] = {} /\ \A d \in Channels : sent[m][d] = 0 BY <1>3 DEF Inv, MsgInv
  <1>19. \A d \in Channels : 0 <= Past(d)' /\ 0 <= Most(d)'
    BY <1>2, <1>13, BoundsGrow DEF Inv, TypeOK
  <1>20. LoopInv(t)'
    <2>1. ~job[t].result BY <1>1, <1>3 DEF LookInv
    <2>2. sent' = sent /\ accepted' = accepted BY <1>2
    <2>3. all \ ((all \ {c}) \cup {c} \cup Silent) = {} OBVIOUS
    <2>4. \A d \in Channels : sent'[m][d] = 0 /\ d \notin accepted'[m] BY <2>2, <1>18
    <2>5. sent'[m][c] <= Past(c)' BY <2>4, <1>4, <1>19
    <2>6. accepted'[m] = {} BY <2>2, <1>18
    <2>7. c \in listed'[m] /\ all \ {c} \subseteq listed'[m] BY <1>16
    <2>8. \A d \in all \ {c} : sent'[m][d] = 0 /\ d \notin accepted'[m] BY <2>4, <1>4
    <2> QED BY <2>1, <2>3, <2>5, <2>6, <2>7, <2>8, <1>7, <1>9, <1>16 DEF LoopInv
  <1>21. job'[t].msg = m /\ job'[t].at \in Late BY <1>7, <1>9 DEF Late
  <1>22. \A d \in Channels : sent'[m][d] <= Most(d)' BY <1>2, <1>18, <1>19
  <1>23. answer'[m] = answer[m] BY <1>2
  <1> QED BY <1>1, <1>13, <1>15, <1>17, <1>20, <1>21, <1>22, <1>23, InLoopInv

--------------------------------------------------------------------------------
(* The loop *)

\* A step that stays with its channel: another attempt, or on to the log.
SameChannel(t, j) ==
    /\ j \in Jobs /\ job' = [job EXCEPT ![t] = j]
    /\ j.msg = job[t].msg /\ j.channel = job[t].channel /\ j.todo = job[t].todo /\ j.result = job[t].result
    /\ j.at \in Late

Calls(m, c) == sent' = [sent EXCEPT ![m][c] = @ + 1] \/ sent' = sent
Takes(m, c) == accepted' = [accepted EXCEPT ![m] = @ \cup {c}] \/ accepted' = accepted

LEMMA CallsBound ==
  ASSUME TypeOK, NEW m \in Msgs, NEW c \in Channels, Calls(m, c)
  PROVE /\ sent' \in [Msgs -> [Channels -> Nat]]
        /\ sent[m][c] \in Nat /\ sent'[m][c] \in Nat /\ sent'[m][c] <= sent[m][c] + 1
        /\ \A d \in Channels \ {c} : sent'[m][d] = sent[m][d]
        /\ \A n \in Msgs \ {m} : sent'[n] = sent[n]
  <1>1. sent[m] \in [Channels -> Nat] /\ sent[m][c] \in Nat BY DEF TypeOK
  <1>2. CASE sent' = sent BY <1>1, <1>2 DEF TypeOK
  <1>3. CASE sent' = [sent EXCEPT ![m][c] = @ + 1]
    <2>1. sent' = [sent EXCEPT ![m] = [sent[m] EXCEPT ![c] = sent[m][c] + 1]] BY <1>3 DEF TypeOK
    <2>2. [sent[m] EXCEPT ![c] = sent[m][c] + 1] \in [Channels -> Nat] BY <1>1
    <2>3. sent' \in [Msgs -> [Channels -> Nat]] BY <2>1, <2>2 DEF TypeOK
    <2>4. sent'[m] = [sent[m] EXCEPT ![c] = sent[m][c] + 1] BY <2>1 DEF TypeOK
    <2> QED BY <1>1, <2>1, <2>3, <2>4 DEF TypeOK
  <1> QED BY <1>2, <1>3 DEF Calls

\* The bounds are those of the calls that have thrown.
LEMMA TroubleKept ==
  ASSUME UNCHANGED throwsLeft, NEW c \in Channels
  PROVE Past(c)' = Past(c) /\ Most(c)' = Most(c) /\ TroubleFree' = TroubleFree
  BY DEF Past, Most, Thrown, TroubleFree

\* A thread in the loop has a message and a channel.
LEMMA AtChannel ==
  ASSUME Inv, NEW t \in Threads, job[t].at \in Late
  PROVE /\ Running(t) /\ job[t] \in Jobs /\ LoopInv(t)
        /\ job[t].msg \in Msgs /\ job[t].channel \in Channels
  <1>1. Running(t) BY DEF Running, Idle, Late
  <1>2. job[t] \in Jobs /\ LoopInv(t) BY <1>1, OwnMessage
  <1> QED BY <1>1, <1>2 DEF Jobs

LEMMA SameChannelInv ==
  ASSUME Inv, NEW t \in Threads, job[t].at \in Late,
         NEW j, SameChannel(t, j),
         logs \subseteq logs', logs' \subseteq [msg : Msgs, channel : Channels, ok : BOOLEAN],
         UNCHANGED <<cacheVars, answer, listed, aborted, stale>>,
         throwsLeft' \in 0..MaxThrows, throwsLeft' <= throwsLeft,
         NEW m \in Msgs, m = job[t].msg, NEW c \in Channels, c = job[t].channel,
         Calls(m, c), Takes(m, c),
         j.at = "logging" /\ j.ok => c \in accepted'[m] \cup LogOnly,
         j.at = "sending" => sent'[m][c] <= Past(c)',
         j.at = "resending" => c \in Refreshing /\ sent'[m][c] <= Past(c)' + 1,
         sent'[m][c] <= Most(c)',
         TroubleFree' => j.at # "recovering",
         TroubleFree' /\ c \in accepted'[m] \ Silent =>
            \/ j.at = "relogging" /\ j.ok
            \/ j.at = "logging" /\ (j.ok \/ Logged(m, c, TRUE)')
  PROVE Inv'
  <1> Running(t) BY AtChannel
  <1>1. /\ job' \in [Threads -> {Idle} \cup Jobs]
        /\ job'[t] = j /\ \A u \in Threads \ {t} : job'[u] = job[u]
    BY MoveStep DEF Inv, SameChannel
  <1>2. /\ accepted' \in [Msgs -> SUBSET Channels] /\ accepted[m] \subseteq accepted'[m]
        /\ accepted'[m] \subseteq accepted[m] \cup {c}
        /\ \A n \in Msgs \ {m} : accepted'[n] = accepted[n]
    BY DEF Takes, Inv, TypeOK
  <1>3. CacheTypeOK' BY CacheTypeKept DEF Inv
  <1>4. sent' \in [Msgs -> [Channels -> Nat]] BY CallsBound DEF Inv
  <1>5. TypeOK' BY <1>1, <1>2, <1>3, <1>4 DEF Inv, TypeOK
  <1>6. CacheInv' BY CacheKept DEF Inv
  <1>7. Step(t, m) BY <1>1, <1>2, OwnMessage, CallsBound DEF Inv, Step, SameChannel, cacheVars
  <1>8. \A d \in Channels : sent'[m][d] <= Most(d)'
    <2> TAKE d \in Channels
    <2>1. CASE d # c
      <3>1. sent'[m][d] = sent[m][d] /\ sent[m][d] \in Nat BY <2>1, CallsBound DEF Inv, TypeOK
      <3>2. sent[m][d] <= Most(d) BY OwnMessage
      <3> QED BY <3>1, <3>2, <1>5, BoundsGrow DEF Inv
    <2> QED BY <2>1
  <1>9. LoopInv(t)'
    <2>1. LoopInv(t) BY OwnMessage
    <2>2. /\ listed' = listed /\ j.msg = m /\ j.channel = c /\ j.todo = job[t].todo /\ j.result = job[t].result
      BY DEF SameChannel
    <2>3. \A d \in listed[m] \ (j.todo \cup {c} \cup Silent) : Entered(m, d)'
      BY <2>1, <2>2, EntriesKept DEF LoopInv
    <2>4. j.result => Delivered(m)' BY <2>1, <2>2, <1>2, DeliveredKept DEF LoopInv
    <2>5. c \in listed[m] /\ j.todo \subseteq listed[m] /\ c \notin j.todo BY <2>1, <2>2 DEF LoopInv
    <2>6. \A d \in j.todo : sent'[m][d] = 0 /\ d \notin accepted'[m]
      <3>1. j.todo \subseteq Channels /\ c \notin j.todo BY <2>5 DEF SameChannel, Jobs
      <3>2. \A d \in j.todo : sent[m][d] = 0 /\ d \notin accepted[m] BY <2>1, <2>2 DEF LoopInv
      <3> QED BY <3>1, <3>2, <1>2, CallsBound DEF Inv
    <2>7. TroubleFree' => \A d \in accepted'[m] \ (Silent \cup {c}) : Logged(m, d, TRUE)'
      <3>1. TroubleFree' => TroubleFree BY <1>5, BoundsGrow DEF Inv
      <3>2. TroubleFree => \A d \in accepted[m] \ (Silent \cup {c}) : Logged(m, d, TRUE)
        BY <2>1 DEF LoopInv
      <3> QED BY <3>1, <3>2, <1>2, LoggedKept
    <2>8. TroubleFree' /\ c \in accepted'[m] \ Silent => EntryDue(t)'
      BY <2>2, <1>1 DEF EntryDue
    <2> QED BY <2>2, <2>3, <2>4, <2>5, <2>6, <2>7, <2>8, <1>1 DEF LoopInv
  <1>10. job'[t].msg = m /\ job'[t].at \in Late BY <1>1 DEF SameChannel
  <1>11. answer'[m] = answer[m] OBVIOUS
  <1> QED BY <1>5, <1>6, <1>7, <1>8, <1>9, <1>10, <1>11, InLoopInv

\* The handler goes on with what it has been answered, and nothing has thrown.
LEMMA AnswerInv ==
  ASSUME Inv, NEW t \in Threads, job[t].at \in Late,
         NEW s \in {"resending", "relogging", "logging"}, NEW ok \in BOOLEAN, Answer(t, s, ok),
         logs \subseteq logs', logs' \subseteq [msg : Msgs, channel : Channels, ok : BOOLEAN],
         UNCHANGED <<cacheVars, answer, listed, aborted, stale, throwsLeft>>,
         NEW m \in Msgs, m = job[t].msg, NEW c \in Channels, c = job[t].channel,
         Calls(m, c), Takes(m, c),
         s = "logging" /\ ok => c \in accepted'[m] \cup LogOnly,
         s = "resending" => c \in Refreshing /\ sent'[m][c] <= Past(c) + 1,
         sent'[m][c] <= Most(c),
         TroubleFree /\ c \in accepted'[m] \ Silent =>
            \/ s = "relogging" /\ ok
            \/ s = "logging" /\ (ok \/ Logged(m, c, TRUE)')
  PROVE Inv'
  <1> DEFINE j == [job[t] EXCEPT !.at = s, !.ok = ok]
  <1>1. job[t] \in Jobs BY AtChannel
  <1>2. job' = [job EXCEPT ![t] = j] BY DEF Answer, Inv, TypeOK
  <1>3. SameChannel(t, j) /\ j.at = s /\ j.ok = ok
    BY <1>1, <1>2 DEF SameChannel, Jobs, Stages, Late
  <1> HIDE DEF j
  <1>4. throwsLeft' \in 0..MaxThrows /\ throwsLeft' <= throwsLeft
    BY DispatchAssumption DEF Inv, TypeOK
  <1>5. Past(c)' = Past(c) /\ Most(c)' = Most(c) /\ TroubleFree' = TroubleFree BY TroubleKept
  <1> QED BY <1>3, <1>4, <1>5, SameChannelInv

\* What asking the provider changes.
LEMMA AskStep ==
  ASSUME TypeOK, NEW m \in Msgs, NEW c \in Channels, NEW ok \in BOOLEAN, Ask(m, c, ok)
  PROVE /\ Calls(m, c) /\ Takes(m, c)
        /\ sent'[m][c] <= sent[m][c] + 1
        /\ ok => c \in accepted'[m]
        /\ ~ok => accepted' = accepted
  <1>1. Calls(m, c) BY DEF Ask, Provider, Calls
  <1>2. CASE ok BY <1>1, <1>2, CallsBound DEF Ask, Takes, TypeOK
  <1>3. CASE ~ok BY <1>1, <1>3, CallsBound DEF Ask, Takes, TypeOK
  <1> QED BY <1>2, <1>3

LEMMA SendNothingInv ==
  ASSUME Inv, NEW t \in Threads, SendNothing(t)
  PROVE Inv'
  <1>1. job[t].at = "sending" /\ job[t].at \in Late BY DEF SendNothing, Late
  <1> PICK m \in Msgs : m = job[t].msg BY <1>1, AtChannel
  <1> PICK c \in Channels : c = job[t].channel BY <1>1, AtChannel
  <1>2. sent'[m][c] <= Most(c) BY <1>1, AtChannel, OwnMessage DEF SendNothing
  <1>3. Calls(m, c) /\ Takes(m, c) BY DEF SendNothing, Calls, Takes
  <1>4. logs' \subseteq [msg : Msgs, channel : Channels, ok : BOOLEAN] /\ logs \subseteq logs'
    BY DEF SendNothing, Inv, TypeOK
  <1> QED BY <1>1, <1>2, <1>3, <1>4, AnswerInv DEF SendNothing

LEMMA SendInv ==
  ASSUME Inv, NEW t \in Threads, Send(t)
  PROVE Inv'
  <1>1. job[t].at = "sending" /\ job[t].at \in Late BY DEF Send, Late
  <1> PICK m \in Msgs : m = job[t].msg BY <1>1, AtChannel
  <1> PICK c \in Channels : c = job[t].channel BY <1>1, AtChannel
  <1>2. UNCHANGED <<cacheVars, answer, listed, logs, aborted, stale, throwsLeft>> BY DEF Send
  <1>3. logs' \subseteq [msg : Msgs, channel : Channels, ok : BOOLEAN] /\ logs \subseteq logs'
    BY <1>2 DEF Inv, TypeOK
  <1>4. LoopInv(t) /\ sent[m][c] \in Nat BY <1>1, AtChannel DEF Inv, TypeOK
  <1>5. sent[m][c] <= Past(c) BY <1>1, <1>4 DEF LoopInv
  <1>6. TroubleFree => c \notin accepted[m] \ Silent BY <1>1, <1>4 DEF LoopInv, EntryDue
  <1>7. Past(c) \in Nat /\ Most(c) \in Nat /\ Past(c) + 1 <= Most(c)
    BY <1>2, BoundsKnown DEF Inv
  <1>8. CASE Answer(t, "logging", FALSE) /\ UNCHANGED <<sent, accepted>>
    <2>1. Calls(m, c) /\ Takes(m, c) /\ sent'[m][c] <= Most(c) BY <1>4, <1>5, <1>7, <1>8 DEF Calls, Takes
    <2>2. TroubleFree => c \notin accepted'[m] \ Silent BY <1>6, <1>8
    <2> QED BY <1>1, <1>2, <1>3, <1>8, <2>1, <2>2, AnswerInv
  <1>9. CASE Answer(t, "logging", FALSE) /\ Ask(m, c, FALSE)
    <2>1. /\ Calls(m, c) /\ Takes(m, c) /\ accepted' = accepted
          /\ sent'[m][c] <= sent[m][c] + 1 /\ sent'[m][c] \in Nat
      BY <1>9, AskStep, CallsBound DEF Inv
    <2>2. sent'[m][c] <= Most(c) BY <1>4, <1>5, <1>7, <2>1
    <2>3. TroubleFree => c \notin accepted'[m] \ Silent BY <1>6, <2>1
    <2> QED BY <1>1, <1>2, <1>3, <1>9, <2>1, <2>2, <2>3, AnswerInv
  <1>10. CASE c \in Refreshing /\ Answer(t, "resending", FALSE) /\ Ask(m, c, FALSE)
    <2>1. /\ Calls(m, c) /\ Takes(m, c) /\ accepted' = accepted
          /\ sent'[m][c] <= sent[m][c] + 1 /\ sent'[m][c] \in Nat
      BY <1>10, AskStep, CallsBound DEF Inv
    <2>2. sent'[m][c] <= Past(c) + 1 /\ sent'[m][c] <= Most(c) BY <1>4, <1>5, <1>7, <2>1
    <2>3. TroubleFree => c \notin accepted'[m] \ Silent BY <1>6, <2>1
    <2> QED BY <1>1, <1>2, <1>3, <1>10, <2>1, <2>2, <2>3, AnswerInv
  <1>11. CASE Answer(t, "logging", TRUE) /\ Ask(m, c, TRUE)
    <2>1. /\ Calls(m, c) /\ Takes(m, c) /\ c \in accepted'[m]
          /\ sent'[m][c] <= sent[m][c] + 1 /\ sent'[m][c] \in Nat
      BY <1>11, AskStep, CallsBound DEF Inv
    <2>2. sent'[m][c] <= Most(c) BY <1>4, <1>5, <1>7, <2>1
    <2> QED BY <1>1, <1>2, <1>3, <1>11, <2>1, <2>2, AnswerInv
  <1> QED BY <1>8, <1>9, <1>10, <1>11 DEF Send

LEMMA ResendInv ==
  ASSUME Inv, NEW t \in Threads, Resend(t)
  PROVE Inv'
  <1>1. job[t].at = "resending" /\ job[t].at \in Late BY DEF Resend, Late
  <1> PICK m \in Msgs : m = job[t].msg BY <1>1, AtChannel
  <1> PICK c \in Channels : c = job[t].channel BY <1>1, AtChannel
  <1> PICK s \in {"relogging", "logging"} : s = IF c \in Discarding THEN "relogging" ELSE "logging" OBVIOUS
  <1>2. UNCHANGED <<cacheVars, answer, listed, logs, aborted, stale, throwsLeft>> BY DEF Resend
  <1>3. logs' \subseteq [msg : Msgs, channel : Channels, ok : BOOLEAN] /\ logs \subseteq logs'
    BY <1>2 DEF Inv, TypeOK
  <1>4. LoopInv(t) /\ sent[m][c] \in Nat BY <1>1, AtChannel DEF Inv, TypeOK
  <1>5. c \in Refreshing /\ sent[m][c] <= Past(c) + 1 BY <1>1, <1>4 DEF LoopInv
  <1>6. TroubleFree => c \notin accepted[m] \ Silent BY <1>1, <1>4 DEF LoopInv, EntryDue
  <1>7. Past(c) \in Nat /\ Most(c) = Past(c) + 2 BY <1>5, BoundsKnown DEF Inv
  <1>8. CASE Answer(t, s, FALSE) /\ UNCHANGED <<sent, accepted>>
    <2>1. Calls(m, c) /\ Takes(m, c) /\ sent'[m][c] <= Most(c) BY <1>4, <1>5, <1>7, <1>8 DEF Calls, Takes
    <2>2. TroubleFree => c \notin accepted'[m] \ Silent BY <1>6, <1>8
    <2> QED BY <1>1, <1>2, <1>3, <1>8, <2>1, <2>2, AnswerInv
  <1>9. ASSUME NEW ok \in BOOLEAN, Answer(t, s, ok), Ask(m, c, ok) PROVE Inv'
    <2>1. /\ Calls(m, c) /\ Takes(m, c)
          /\ ok => c \in accepted'[m]
          /\ ~ok => accepted' = accepted
          /\ sent'[m][c] <= sent[m][c] + 1 /\ sent'[m][c] \in Nat
      BY <1>9, AskStep, CallsBound DEF Inv
    <2>2. sent'[m][c] <= Most(c) BY <1>4, <1>5, <1>7, <2>1
    <2>3. TroubleFree /\ c \in accepted'[m] \ Silent => ok BY <1>6, <2>1
    <2> QED BY <1>1, <1>2, <1>3, <1>9, <2>1, <2>2, <2>3, AnswerInv
  <1> QED BY <1>8, <1>9 DEF Resend

\* The entry of what a handler has been answered.
LEMMA EntryStep ==
  ASSUME Inv, NEW t \in Threads, job[t].at \in Late, NEW ok \in BOOLEAN, logs' = logs \cup {Entry(t, ok)},
         NEW m \in Msgs, m = job[t].msg, NEW c \in Channels, c = job[t].channel
  PROVE /\ logs \subseteq logs' /\ logs' \subseteq [msg : Msgs, channel : Channels, ok : BOOLEAN]
        /\ Logged(m, c, ok)' /\ Entered(m, c)'
  BY DEF Entry, Logged, Entered, Inv, TypeOK

LEMMA RelogInv ==
  ASSUME Inv, NEW t \in Threads, Relog(t)
  PROVE Inv'
  <1>1. job[t].at = "relogging" /\ job[t].at \in Late BY DEF Relog, Late
  <1>2. job[t] \in Jobs /\ LoopInv(t) BY <1>1, AtChannel
  <1> PICK m \in Msgs : m = job[t].msg BY <1>1, AtChannel
  <1> PICK c \in Channels : c = job[t].channel BY <1>1, AtChannel
  <1> PICK ok \in BOOLEAN : ok = job[t].ok BY <1>2 DEF Jobs
  <1>3. logs' = logs \cup {Entry(t, ok)} BY DEF Relog
  <1>4. /\ logs \subseteq logs' /\ logs' \subseteq [msg : Msgs, channel : Channels, ok : BOOLEAN]
        /\ Logged(m, c, ok)'
    BY <1>1, <1>3, EntryStep
  <1>5. Calls(m, c) /\ Takes(m, c) BY DEF Relog, Calls, Takes
  <1>6. sent'[m][c] <= Most(c) BY <1>1, AtChannel, OwnMessage DEF Relog
  <1>7. TroubleFree /\ c \in accepted'[m] \ Silent => Logged(m, c, TRUE)'
    <2>1. TroubleFree /\ c \in accepted[m] \ Silent => ok BY <1>1, <1>2 DEF LoopInv, EntryDue
    <2>2. accepted' = accepted BY DEF Relog
    <2>3. ok => Logged(m, c, TRUE)' BY <1>4
    <2> QED BY <2>1, <2>2, <2>3
  <1> QED BY <1>1, <1>4, <1>5, <1>6, <1>7, AnswerInv DEF Relog

\* One more call has thrown.
LEMMA ThrowsCounted ==
  ASSUME TypeOK, Throws
  PROVE Thrown \in Nat /\ Thrown' = Thrown + 1
  <1>1. throwsLeft \in 0..MaxThrows BY DEF TypeOK
  <1>2. MaxThrows \in Nat BY DispatchAssumption
  <1>3. throwsLeft' = throwsLeft - 1 BY DEF Throws
  <1>4. Thrown = MaxThrows - throwsLeft /\ Thrown' = MaxThrows - throwsLeft' BY DEF Thrown
  <1>5. \A n \in Nat : \A i \in 0..n : n - i \in Nat /\ n - (i - 1) = (n - i) + 1 OBVIOUS
  <1> QED BY <1>1, <1>2, <1>3, <1>4, <1>5

\* An attempt has thrown, before or behind the call of the provider.
LEMMA AttemptFailsInv ==
  ASSUME Inv, NEW t \in Threads, job[t].at \in Late \ {"recovering"}, Throws, AttemptFails(t),
         NEW m \in Msgs, m = job[t].msg, NEW c \in Channels, c = job[t].channel,
         Calls(m, c), job[t].at \in {"logging", "relogging"} => sent' = sent,
         UNCHANGED <<cacheVars, answer, listed, logs, accepted, aborted, stale>>
  PROVE Inv'
  <1>1. Running(t) /\ job[t] \in Jobs /\ LoopInv(t) BY AtChannel
  <1>2. PICK s \in {"sending", "recovering"}, a \in 1..Attempts :
          job'[t] = [job[t] EXCEPT !.at = s, !.attempt = a]
    BY <1>1, AttemptFailsStep DEF Inv
  <1> DEFINE j == [job[t] EXCEPT !.at = s, !.attempt = a]
  <1>3. j \in Jobs BY <1>1, <1>2, AttemptFailsStep DEF Inv
  <1>4. job' = [job EXCEPT ![t] = j]
    <2>1. job' \in [Threads -> {Idle} \cup Jobs] /\ \A u \in Threads \ {t} : job'[u] = job[u]
      BY <1>1, AttemptFailsStep DEF Inv
    <2> QED BY <2>1, <1>2 DEF Inv, TypeOK
  <1>5. SameChannel(t, j) /\ j.at = s
    BY <1>1, <1>3, <1>4 DEF SameChannel, Jobs, Late
  <1> HIDE DEF j
  <1>6. Thrown \in Nat /\ Thrown' = Thrown + 1 BY ThrowsCounted DEF Inv
  <1>7. sent[m][c] \in Nat /\ sent'[m][c] \in Nat /\ sent'[m][c] <= sent[m][c] + 1
    BY CallsBound DEF Inv
  <1>8. /\ Past(c) = IF c \in Refreshing THEN Thrown + Thrown ELSE Thrown
        /\ Past(c)' = IF c \in Refreshing THEN (Thrown + 1) + (Thrown + 1) ELSE Thrown + 1
        /\ Most(c) = IF c \in Refreshing THEN Past(c) + 2 ELSE Past(c) + 1
        /\ Most(c)' = IF c \in Refreshing THEN Past(c)' + 2 ELSE Past(c)' + 1
    BY <1>6 DEF Past, Most
  <1>9. sent'[m][c] <= Past(c)'
    <2>1. CASE job[t].at = "sending"
      <3>1. sent[m][c] <= Past(c) BY <2>1, <1>1 DEF LoopInv, Late
      <3> QED BY <3>1, <1>6, <1>7, <1>8
    <2>2. CASE job[t].at = "resending"
      <3>1. c \in Refreshing /\ sent[m][c] <= Past(c) + 1 BY <2>2, <1>1 DEF LoopInv, Late
      <3> QED BY <3>1, <1>6, <1>7, <1>8
    <2>3. CASE job[t].at \in {"logging", "relogging"}
      <3>1. sent'[m][c] = sent[m][c] /\ sent[m][c] <= Most(c) BY <2>3, <1>1, OwnMessage
      <3> QED BY <3>1, <1>6, <1>7, <1>8
    <2> QED BY <2>1, <2>2, <2>3 DEF Late
  <1>10. sent'[m][c] <= Most(c)' BY <1>6, <1>7, <1>8, <1>9
  <1>11. throwsLeft' \in 0..MaxThrows /\ throwsLeft' <= throwsLeft /\ ~TroubleFree' BY ThrowsBound DEF Inv
  <1>12. Takes(m, c) BY DEF Takes
  <1>13. j.at # "logging" /\ j.at # "resending" BY <1>5
  <1>14. logs \subseteq logs' /\ logs' \subseteq [msg : Msgs, channel : Channels, ok : BOOLEAN]
    BY DEF Inv, TypeOK
  <1> QED BY <1>5, <1>9, <1>10, <1>11, <1>12, <1>13, <1>14, SameChannelInv

LEMMA SendThrowsInv ==
  ASSUME Inv, NEW t \in Threads, SendThrows(t)
  PROVE Inv'
  <1>1. job[t].at \in {"sending", "resending"} /\ job[t].at \in Late BY DEF SendThrows, Late
  <1> PICK m \in Msgs : m = job[t].msg BY <1>1, AtChannel
  <1> PICK c \in Channels : c = job[t].channel BY <1>1, AtChannel
  <1>2. Calls(m, c) BY DEF SendThrows, Calls, Provider
  <1> QED BY <1>1, <1>2, AttemptFailsInv DEF SendThrows

LEMMA LogThrowsInv ==
  ASSUME Inv, NEW t \in Threads, LogThrows(t)
  PROVE Inv'
  <1>1. job[t].at \in {"logging", "relogging"} /\ job[t].at \in Late BY DEF LogThrows, Late
  <1> PICK m \in Msgs : m = job[t].msg BY <1>1, AtChannel
  <1> PICK c \in Channels : c = job[t].channel BY <1>1, AtChannel
  <1>2. Calls(m, c) /\ sent' = sent BY DEF LogThrows, Calls
  <1> QED BY <1>1, <1>2, AttemptFailsInv DEF LogThrows

\* The handler has returned r, and its entry says so if it leaves one.
LEMMA NextChannelInv ==
  ASSUME Inv, NEW t \in Threads, job[t].at \in Late, NEW r \in BOOLEAN, NextChannel(t, r),
         logs \subseteq logs', logs' \subseteq [msg : Msgs, channel : Channels, ok : BOOLEAN],
         NEW m \in Msgs, m = job[t].msg, NEW c \in Channels, c = job[t].channel,
         Calls(m, c), Takes(m, c), sent'[m][c] <= Most(c),
         r => c \in accepted'[m] \cup LogOnly /\ (c \in Silent \/ Logged(m, c, TRUE)'),
         c \in Silent \/ Entered(m, c)',
         TroubleFree /\ c \in accepted'[m] \ Silent => Logged(m, c, TRUE)',
         UNCHANGED <<cacheVars, listed, aborted, stale, throwsLeft>>
  PROVE Inv'
  <1>1. Running(t) /\ job[t] \in Jobs /\ LoopInv(t) BY AtChannel
  <1> DEFINE todo == job[t].todo
  <1>2. /\ c \in listed[m] /\ todo \subseteq listed[m] /\ c \notin todo
        /\ \A d \in listed[m] \ (todo \cup {c} \cup Silent) : Entered(m, d)
        /\ \A d \in todo : sent[m][d] = 0 /\ d \notin accepted[m]
        /\ TroubleFree => \A d \in accepted[m] \ (Silent \cup {c}) : Logged(m, d, TRUE)
    BY <1>1 DEF LoopInv
  <1>3. /\ accepted' \in [Msgs -> SUBSET Channels] /\ accepted'[m] \subseteq accepted[m] \cup {c}
        /\ \A n \in Msgs \ {m} : accepted'[n] = accepted[n]
    BY DEF Takes, Inv, TypeOK
  <1>4. /\ sent' \in [Msgs -> [Channels -> Nat]]
        /\ \A d \in Channels \ {c} : sent'[m][d] = sent[m][d]
        /\ \A n \in Msgs \ {m} : sent'[n] = sent[n]
    BY CallsBound DEF Inv
  <1>5. todo \subseteq Channels BY <1>1 DEF Jobs
  <1>6. \A d \in listed[m] \ (todo \cup Silent) : Entered(m, d)'
    BY <1>2, EntriesKept
  <1>7. r => Delivered(m)' BY <1>2 DEF Delivered
  <1>8. TroubleFree => \A d \in accepted'[m] \ Silent : Logged(m, d, TRUE)'
    BY <1>2, <1>3, LoggedKept
  <1>9. \A d \in Channels : Past(d)' = Past(d) /\ Most(d)' = Most(d) BY TroubleKept
  <1>10. TroubleFree' = TroubleFree BY DEF TroubleFree
  <1>11. \A d \in Channels : sent'[m][d] <= Most(d)' BY <1>1, <1>4, <1>9, OwnMessage
  <1>12. CacheTypeOK' /\ CacheInv' BY CacheTypeKept, CacheKept DEF Inv
  <1>13. throwsLeft' <= throwsLeft BY DispatchAssumption DEF Inv, TypeOK
  <1>14. CASE todo = {} /\ Return(t, r)
    <2>1. /\ job' \in [Threads -> {Idle} \cup Jobs] /\ answer' \in [Msgs -> {"none", "true", "false", "thrown"}]
          /\ job'[t] = Idle /\ \A u \in Threads \ {t} : job'[u] = job[u]
          /\ \A n \in Msgs \ {m} : answer'[n] = answer[n]
      BY <1>1, <1>14, ReturnStep DEF Inv
    <2>2. TypeOK' BY <2>1, <1>3, <1>4, <1>12 DEF Inv, TypeOK
    <2>3. Step(t, m) BY <1>1, <1>3, <1>4, <1>13, <2>1, OwnMessage DEF Step, cacheVars
    <2>4. \A d \in listed'[m] \ Silent : Entered(m, d)' BY <1>6, <1>14
    <2> QED BY <1>1, <1>7, <1>8, <1>10, <1>11, <1>12, <1>14, <2>2, <2>3, <2>4, ReturnInv
  <1>15. CASE /\ answer' = answer
              /\ job' \in [Threads -> {Idle} \cup Jobs]
              /\ \A u \in Threads \ {t} : job'[u] = job[u]
              /\ \E d \in todo :
                   job'[t] = [job[t] EXCEPT !.at = "sending", !.channel = d, !.todo = todo \ {d},
                                            !.attempt = 1, !.result = r]
              /\ job'[t] \in Jobs
    <2>1. PICK d \in todo : job'[t] = [job[t] EXCEPT !.at = "sending", !.channel = d, !.todo = todo \ {d},
                                                     !.attempt = 1, !.result = r]
      BY <1>15
    <2>2. /\ job'[t].msg = m /\ job'[t].at = "sending" /\ job'[t].channel = d
          /\ job'[t].todo = todo \ {d} /\ job'[t].result = r
      BY <1>1, <2>1 DEF Jobs
    <2>3. TypeOK' BY <1>3, <1>4, <1>12, <1>15 DEF Inv, TypeOK
    <2>4. Step(t, m) BY <1>1, <1>3, <1>4, <1>13, <1>15, <2>2, OwnMessage DEF Step, cacheVars
    <2>5. LoopInv(t)'
      <3>1. \A e \in listed[m] \ ((todo \ {d}) \cup {d} \cup Silent) : Entered(m, e)' BY <1>6
      <3>2. d \in listed[m] /\ todo \ {d} \subseteq listed[m] BY <1>2
      <3>3. \A e \in todo : sent'[m][e] = 0 /\ e \notin accepted'[m] BY <1>2, <1>3, <1>4, <1>5
      <3>4. sent'[m][d] <= Past(d)' BY <1>5, <2>3, <3>3, BoundsGrow, <1>13 DEF Inv
      <3>5. TroubleFree' => \A e \in accepted'[m] \ (Silent \cup {d}) : Logged(m, e, TRUE)'
        BY <1>8, <1>10
      <3> QED BY <1>7, <2>2, <3>1, <3>2, <3>3, <3>4, <3>5 DEF LoopInv
    <2>6. job'[t].at \in Late /\ answer'[m] = answer[m] BY <1>15, <2>2 DEF Late
    <2> QED BY <1>1, <1>11, <1>12, <2>2, <2>3, <2>4, <2>5, <2>6, InLoopInv
  <1> QED BY <1>1, <1>14, <1>15, NextChannelStep DEF Inv

LEMMA SendSilentlyInv ==
  ASSUME Inv, NEW t \in Threads, SendSilently(t)
  PROVE Inv'
  <1>1. job[t].at = "sending" /\ job[t].at \in Late BY DEF SendSilently, Late
  <1> PICK m \in Msgs : m = job[t].msg BY <1>1, AtChannel
  <1> PICK c \in Channels : c = job[t].channel BY <1>1, AtChannel
  <1>2. c \in Silent /\ UNCHANGED <<cacheVars, listed, logs, aborted, stale, throwsLeft>> BY DEF SendSilently
  <1>3. logs \subseteq logs' /\ logs' \subseteq [msg : Msgs, channel : Channels, ok : BOOLEAN]
    BY <1>2 DEF Inv, TypeOK
  <1>4. sent[m][c] <= Past(c) /\ sent[m][c] \in Nat
    <2>1. LoopInv(t) BY <1>1, AtChannel
    <2>2. sent[m][c] <= Past(c) BY <1>1, <2>1 DEF LoopInv
    <2> QED BY <2>2 DEF Inv, TypeOK
  <1>5. Past(c) \in Nat /\ Most(c) \in Nat /\ Past(c) + 1 <= Most(c) BY BoundsKnown DEF Inv
  <1>6. CASE NextChannel(t, FALSE) /\ UNCHANGED <<sent, accepted>>
    <2>1. Calls(m, c) /\ Takes(m, c) /\ sent'[m][c] <= Most(c) BY <1>4, <1>5, <1>6 DEF Calls, Takes
    <2> QED BY <1>1, <1>2, <1>3, <1>6, <2>1, NextChannelInv
  <1>7. ASSUME NEW ok \in BOOLEAN, NextChannel(t, ok), Ask(m, c, ok) PROVE Inv'
    <2>1. /\ Calls(m, c) /\ Takes(m, c)
          /\ ok => c \in accepted'[m]
          /\ sent'[m][c] <= sent[m][c] + 1 /\ sent'[m][c] \in Nat
      BY <1>7, AskStep, CallsBound DEF Inv
    <2>2. sent'[m][c] <= Most(c) BY <1>4, <1>5, <2>1
    <2> QED BY <1>1, <1>2, <1>3, <1>7, <2>1, <2>2, NextChannelInv
  <1> QED BY <1>6, <1>7 DEF SendSilently

LEMMA LogInv ==
  ASSUME Inv, NEW t \in Threads, Log(t)
  PROVE Inv'
  <1>1. job[t].at = "logging" /\ job[t].at \in Late BY DEF Log, Late
  <1>2. Running(t) /\ job[t] \in Jobs /\ LoopInv(t) BY <1>1, AtChannel
  <1> PICK m \in Msgs : m = job[t].msg BY <1>1, AtChannel
  <1> PICK c \in Channels : c = job[t].channel BY <1>1, AtChannel
  <1> PICK r \in BOOLEAN : r = job[t].ok BY <1>2 DEF Jobs
  <1>3. UNCHANGED <<cacheVars, listed, sent, accepted, aborted, stale, throwsLeft>> BY DEF Log
  <1>4. /\ logs \subseteq logs' /\ logs' \subseteq [msg : Msgs, channel : Channels, ok : BOOLEAN]
        /\ Logged(m, c, r)' /\ Entered(m, c)'
    BY <1>1, EntryStep DEF Log
  <1>5. r => c \in accepted'[m] \cup LogOnly BY <1>1, <1>2, <1>3 DEF LoopInv
  <1>6. TroubleFree /\ c \in accepted'[m] \ Silent => Logged(m, c, TRUE)'
    <2>1. TroubleFree /\ c \in accepted[m] \ Silent => r \/ Logged(m, c, TRUE)
      BY <1>1, <1>2 DEF LoopInv, EntryDue
    <2>2. r => Logged(m, c, TRUE)' BY <1>4
    <2> QED BY <2>1, <2>2, <1>3, <1>4, LoggedKept
  <1>7. Calls(m, c) /\ Takes(m, c) /\ sent'[m][c] <= Most(c) BY <1>2, <1>3, OwnMessage DEF Calls, Takes
  <1>8. r => Logged(m, c, TRUE)' BY <1>4
  <1>9. NextChannel(t, r) BY DEF Log
  <1> QED BY <1>1, <1>3, <1>4, <1>5, <1>6, <1>7, <1>8, <1>9, NextChannelInv

LEMMA RecoverInv ==
  ASSUME Inv, NEW t \in Threads, Recover(t)
  PROVE Inv'
  <1>1. job[t].at = "recovering" /\ job[t].at \in Late BY DEF Recover, Late
  <1>2. Running(t) /\ LoopInv(t) BY <1>1, AtChannel
  <1> PICK m \in Msgs : m = job[t].msg BY <1>1, AtChannel
  <1> PICK c \in Channels : c = job[t].channel BY <1>1, AtChannel
  <1>3. UNCHANGED <<cacheVars, listed, sent, accepted, aborted, stale, throwsLeft>> BY DEF Recover
  <1>4. /\ logs \subseteq logs' /\ logs' \subseteq [msg : Msgs, channel : Channels, ok : BOOLEAN]
        /\ Entered(m, c)'
    BY <1>1, EntryStep DEF Recover
  <1>5. ~TroubleFree BY <1>1, <1>2 DEF LoopInv
  <1>6. Calls(m, c) /\ Takes(m, c) /\ sent'[m][c] <= Most(c) BY <1>2, <1>3, OwnMessage DEF Calls, Takes
  <1>7. NextChannel(t, FALSE) BY DEF Recover
  <1> QED BY <1>1, <1>3, <1>4, <1>5, <1>6, <1>7, NextChannelInv

LEMMA RecoverThrowsInv ==
  ASSUME Inv, NEW t \in Threads, RecoverThrows(t)
  PROVE Inv'
  <1>1. job[t].at = "recovering" /\ job[t].at \in Late BY DEF RecoverThrows, Late
  <1>2. Running(t) /\ LoopInv(t) BY <1>1, AtChannel
  <1>3. Abort(t) /\ UNCHANGED cacheVars BY DEF RecoverThrows
  <1>4. ~TroubleFree BY <1>1, <1>2 DEF LoopInv
  <1>5. throwsLeft' \in 0..MaxThrows /\ throwsLeft' <= throwsLeft /\ ~TroubleFree'
    <2>1. CASE UNCHANGED throwsLeft BY <2>1, <1>4, DispatchAssumption DEF TroubleFree, Inv, TypeOK
    <2>2. CASE Throws BY <2>2, ThrowsBound DEF Inv
    <2> QED BY <2>1, <2>2 DEF RecoverThrows
  <1> QED BY <1>2, <1>3, <1>5, AbortInv

--------------------------------------------------------------------------------
(* The settings *)

LEMMA SettingsInv ==
  ASSUME Inv, Settings
  PROVE Inv'
  <1>1. UNCHANGED jobVars BY DEF Settings
  <1>2. CacheTypeOK' /\ CacheInv' /\ gone \subseteq gone' /\ overlap' = overlap
    <2>1. ASSUME NEW c \in Channels, DeleteRow(c)
          PROVE CacheTypeOK' /\ CacheInv' /\ gone \subseteq gone' /\ overlap' = overlap
      BY <2>1, <1>1 DEF DeleteRow, Inv, TypeOK, CacheTypeOK, CacheInv, jobVars
    <2>2. ASSUME NEW c \in Channels, EvictKeys(c) \/ EvictDel(c)
          PROVE CacheTypeOK' /\ CacheInv' /\ gone \subseteq gone' /\ overlap' = overlap
      BY <2>2, <1>1 DEF EvictKeys, EvictDel, Inv, TypeOK, CacheTypeOK, CacheInv, jobVars
    <2>3. ASSUME Expire
          PROVE CacheTypeOK' /\ CacheInv' /\ gone \subseteq gone' /\ overlap' = overlap
      BY <2>3, <1>1 DEF Expire, Inv, TypeOK, CacheTypeOK, CacheInv, jobVars
    <2> QED BY <2>1, <2>2, <2>3 DEF Settings
  <1>3. TypeOK' BY <1>1, <1>2 DEF Inv, TypeOK, jobVars
  <1>4. ASSUME NEW t \in Threads PROVE ThreadInv(t)'
    <2>1. ThreadInv(t) BY DEF Inv
    <2> QED BY <2>1, <1>1, <1>2
            DEF ThreadInv, LookInv, LoopInv, Running, Entered, Logged, Delivered, Thrown, Past, Most, TroubleFree, EntryDue, jobVars
  <1>5. ASSUME NEW m \in Msgs PROVE MsgInv(m)'
    <2>1. MsgInv(m) BY DEF Inv
    <2> QED BY <2>1, <1>1 DEF MsgInv, Outside, Running, Entered, Logged, Delivered, Thrown, Past, Most, TroubleFree, EntryDue, jobVars
  <1> QED BY <1>2, <1>3, <1>4, <1>5 DEF Inv

--------------------------------------------------------------------------------
(* The theorems *)

LEMMA InitInv == Init => Inv
  <1> SUFFICES ASSUME Init PROVE Inv OBVIOUS
  <1>1. TypeOK
    <2>1. CacheTypeOK BY SettingAssumption DEF Init, CacheInit, CacheTypeOK
    <2>2. throwsLeft \in 0..MaxThrows BY DispatchAssumption DEF Init
    <2>3. sent \in [Msgs -> [Channels -> Nat]] BY DEF Init
    <2>4. /\ job \in [Threads -> {Idle} \cup Jobs] /\ answer \in [Msgs -> {"none", "true", "false", "thrown"}]
          /\ listed \in [Msgs -> SUBSET Channels] /\ accepted \in [Msgs -> SUBSET Channels]
      BY DEF Init
    <2>5. logs \subseteq [msg : Msgs, channel : Channels, ok : BOOLEAN] /\ aborted \subseteq Msgs /\ stale \subseteq Msgs
      BY DEF Init
    <2> QED BY <2>1, <2>2, <2>3, <2>4, <2>5 DEF TypeOK
  <1>2. CacheInv BY DEF Init, CacheInit, CacheInv
  <1>3. \A t \in Threads : ThreadInv(t) BY DEF Init, ThreadInv, Running
  <1>4. \A c \in Channels : 0 <= Most(c)
    <2> TAKE c \in Channels
    <2>1. Most(c) \in Nat BY <1>1, BoundsKnown
    <2> QED BY <2>1
  <1>5. ASSUME NEW m \in Msgs PROVE MsgInv(m)
    <2>1. /\ answer[m] = "none" /\ listed[m] = {} /\ accepted[m] = {}
          /\ \A c \in Channels : sent[m][c] = 0
      BY DEF Init
    <2> QED BY <2>1, <1>4 DEF MsgInv
  <1> QED BY <1>1, <1>2, <1>3, <1>5 DEF Inv

LEMMA StutterInv ==
  ASSUME Inv, UNCHANGED vars
  PROVE Inv'
  <1>1. UNCHANGED <<cacheVars, job, answer, listed, logs, sent, accepted, aborted, stale, throwsLeft>>
    BY DEF vars, jobVars
  <1>2. CacheTypeOK' /\ CacheInv' BY <1>1, CacheTypeKept, CacheKept DEF Inv
  <1>3. TypeOK' BY <1>1, <1>2 DEF Inv, TypeOK
  <1>4. ASSUME NEW t \in Threads PROVE ThreadInv(t)'
    <2>1. ThreadInv(t) BY DEF Inv
    <2> QED BY <2>1, <1>1
            DEF ThreadInv, LookInv, LoopInv, Running, Entered, Logged, Delivered, Thrown, Past, Most, TroubleFree, EntryDue, cacheVars
  <1>5. ASSUME NEW m \in Msgs PROVE MsgInv(m)'
    <2>1. MsgInv(m) BY DEF Inv
    <2> QED BY <2>1, <1>1 DEF MsgInv, Outside, Running, Entered, Logged, Delivered, Thrown, Past, Most, TroubleFree, EntryDue
  <1> QED BY <1>2, <1>3, <1>4, <1>5 DEF Inv

LEMMA NextInv == Inv /\ [Next]_vars => Inv'
  <1> SUFFICES ASSUME Inv, [Next]_vars PROVE Inv' OBVIOUS
  <1>1. ASSUME NEW t \in Threads, Push(t) PROVE Inv'
    BY <1>1, LookHitInv, LookMissInv, SelectRulesInv, StoreRulesInv, LookThrowsInv, PrepareInv,
       SendNothingInv, SendInv, SendSilentlyInv, ResendInv, SendThrowsInv, RelogInv, LogInv, LogThrowsInv, RecoverInv, RecoverThrowsInv DEF Push
  <1> QED BY <1>1, SettingsInv, StartPushInv, PushUnknownInv, StutterInv DEF Next

\* Inv is an invariant of the dispatch.
THEOREM Invariance == Spec => []Inv
  BY InitInv, NextInv, PTL DEF Spec

LEMMA InvImplies ==
  ASSUME Inv
  PROVE /\ TypeOK /\ TrueMeansDelivered /\ ChannelsAccounted /\ AcceptedIsLogged
        /\ RepeatsHaveACause /\ StaleHasACause
  <1>1. TypeOK /\ StaleHasACause BY DEF Inv, CacheInv, StaleHasACause
  <1>2. TrueMeansDelivered BY DEF Inv, MsgInv, Delivered, TrueMeansDelivered
  <1>3. ChannelsAccounted BY DEF Inv, MsgInv, Entered, ChannelsAccounted
  <1>4. AcceptedIsLogged BY DEF Inv, MsgInv, TroubleFree, AcceptedIsLogged
  <1>5. RepeatsHaveACause
    <2> SUFFICES ASSUME NEW m \in Msgs, NEW c \in Channels
                 PROVE sent[m][c] <= CallsPerAttempt(c) * (1 + Thrown)
      BY DEF RepeatsHaveACause, Thrown
    <2>1. sent[m][c] <= Most(c) BY DEF Inv, MsgInv
    <2>2. Thrown \in Nat BY ThrownKnown DEF Inv
    <2>3. Most(c) = CallsPerAttempt(c) * (1 + Thrown)
      <3>1. CASE c \in Refreshing BY <3>1, <2>2 DEF Most, Past, CallsPerAttempt
      <3>2. CASE c \notin Refreshing BY <3>2, <2>2 DEF Most, Past, CallsPerAttempt
      <3> QED BY <3>1, <3>2
    <2> QED BY <2>1, <2>3
  <1> QED BY <1>1, <1>2, <1>3, <1>4, <1>5

\* The state of the dispatch keeps its types: attempts stay within @Retryable's three.
THEOREM DispatchTypeCorrect == Spec => []TypeOK
  <1>1. Inv => TypeOK BY InvImplies
  <1> QED BY <1>1, Invariance, PTL

\* SynMsgPushService.push answers TRUE only for what some channel took and logged.
THEOREM DeliveredCorrect == Spec => []TrueMeansDelivered
  <1>1. Inv => TrueMeansDelivered BY InvImplies
  <1> QED BY <1>1, Invariance, PTL

\* When push has returned normally, every channel it set out to call is in the send log.
THEOREM AccountedCorrect == Spec => []ChannelsAccounted
  <1>1. Inv => ChannelsAccounted BY InvImplies
  <1> QED BY <1>1, Invariance, PTL

\* What a provider has taken is logged as taken, as long as no call has thrown.
THEOREM AcceptedCorrect == Spec => []AcceptedIsLogged
  <1>1. Inv => AcceptedIsLogged BY InvImplies
  <1> QED BY <1>1, Invariance, PTL

\* A provider is called once, and once more with a new token, for every attempt that threw.
THEOREM RepeatsCorrect == Spec => []RepeatsHaveACause
  <1>1. Inv => RepeatsHaveACause BY InvImplies
  <1> QED BY <1>1, Invariance, PTL

\* A deleted rule is used only when a read of the cache has overlapped its deletion.
THEOREM StaleCorrect == Spec => []StaleHasACause
  <1>1. Inv => StaleHasACause BY InvImplies
  <1> QED BY <1>1, Invariance, PTL

================================================================================
