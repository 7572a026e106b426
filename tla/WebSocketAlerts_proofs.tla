------------------------ MODULE WebSocketAlerts_proofs ------------------------
(***************************************************************************)
(* What can lose an alert, for any number of alerts, threads and sessions.  *)
(***************************************************************************)
EXTENDS WebSocketAlerts, SequenceTheorems, TLAPS

Pushes == [at : {"checking", "sending", "listing", "deleting", "adding", "logging"},
           alert : Alerts, list : Seq(Alerts)]
Handlings == [at : {"listing", "sending", "deleting"}, list : Seq(Alerts)]

--------------------------------------------------------------------------------
(* Lists *)

LEMMA EmptyElements == Elements(<<>>) = {}
  BY DEF Elements

LEMMA AppendElements ==
  ASSUME NEW S, NEW list \in Seq(S), NEW a \in S
  PROVE Append(list, a) \in Seq(S) /\ Elements(Append(list, a)) = Elements(list) \cup {a}
  <1>1. /\ Append(list, a) \in Seq(S)
        /\ Len(Append(list, a)) = Len(list) + 1
        /\ \A n \in 1..Len(list) : Append(list, a)[n] = list[n]
        /\ Append(list, a)[Len(list) + 1] = a
    BY AppendProperties
  <1>2. DOMAIN Append(list, a) = 1..(Len(list) + 1) /\ DOMAIN list = 1..Len(list) /\ Len(list) \in Nat
    BY <1>1, LenProperties
  <1> QED BY <1>1, <1>2 DEF Elements

LEMMA ConcatElements ==
  ASSUME NEW S, NEW list \in Seq(S), NEW more \in Seq(S)
  PROVE /\ list \o more \in Seq(S)
        /\ Elements(list) \cup Elements(more) \subseteq Elements(list \o more)
  <1>1. /\ list \o more \in Seq(S)
        /\ Len(list \o more) = Len(list) + Len(more)
        /\ \A n \in 1..(Len(list) + Len(more)) :
             (list \o more)[n] = IF n <= Len(list) THEN list[n] ELSE more[n - Len(list)]
    BY ConcatProperties
  <1>2. /\ DOMAIN list = 1..Len(list) /\ Len(list) \in Nat
        /\ DOMAIN more = 1..Len(more) /\ Len(more) \in Nat
        /\ DOMAIN (list \o more) = 1..(Len(list) + Len(more))
    BY <1>1, LenProperties
  <1>3. ASSUME NEW n \in DOMAIN list PROVE list[n] \in Elements(list \o more)
    <2>1. n \in DOMAIN (list \o more) /\ (list \o more)[n] = list[n] BY <1>1, <1>2
    <2> QED BY <2>1 DEF Elements
  <1>4. ASSUME NEW n \in DOMAIN more PROVE more[n] \in Elements(list \o more)
    <2>1. n + Len(list) \in DOMAIN (list \o more) /\ (list \o more)[n + Len(list)] = more[n] BY <1>1, <1>2
    <2> QED BY <2>1 DEF Elements
  <1> QED BY <1>1, <1>3, <1>4 DEF Elements

LEMMA TailElements ==
  ASSUME NEW S, NEW list \in Seq(S), list # <<>>
  PROVE /\ Head(list) \in S /\ Tail(list) \in Seq(S)
        /\ Elements(list) \subseteq {Head(list)} \cup Elements(Tail(list))
  <1>1. /\ Head(list) \in S /\ Tail(list) \in Seq(S)
        /\ Head(list) = list[1]
        /\ Len(Tail(list)) = Len(list) - 1
        /\ \A n \in 1..Len(Tail(list)) : Tail(list)[n] = list[n + 1]
    BY HeadTailProperties
  <1>2. /\ DOMAIN list = 1..Len(list) /\ Len(list) \in Nat
        /\ DOMAIN Tail(list) = 1..Len(Tail(list))
    BY <1>1, LenProperties
  <1>3. ASSUME NEW n \in DOMAIN list PROVE list[n] \in {Head(list)} \cup Elements(Tail(list))
    <2>1. CASE n = 1 BY <2>1, <1>1
    <2>2. CASE n # 1
      <3>1. n - 1 \in DOMAIN Tail(list) /\ Tail(list)[n - 1] = list[n] BY <2>2, <1>1, <1>2
      <3> QED BY <3>1 DEF Elements
    <2> QED BY <2>1, <2>2
  <1> QED BY <1>1, <1>3 DEF Elements

--------------------------------------------------------------------------------
(* Types *)

\* The handler goes on sending only while there is something to send.
SendsSomething == \A s \in Sessions : handler[s].at = "sending" => handler[s].list # <<>>

TypeInv ==
    /\ TypeOK
    /\ SendsSomething

LEMMA PushAt ==
  ASSUME TypeOK, NEW p \in Pushers, pusher[p].at # "idle"
  PROVE pusher[p] \in Pushes
  BY DEF TypeOK, Pushes, Idle

LEMMA HandlingAt ==
  ASSUME TypeOK, NEW s \in Sessions, handler[s].at # "idle"
  PROVE handler[s] \in Handlings
  BY DEF TypeOK, Handlings, Idle

LEMMA FaultBound ==
  ASSUME TypeOK, Fault
  PROVE faultsLeft' \in 0..MaxFaults
  BY AlertsAssumption DEF TypeOK, Fault

LEMMA Send2UserType ==
  ASSUME TypeOK, NEW a \in Alerts, Send2User(a)
  PROVE received' \subseteq Alerts /\ unheard' \subseteq Alerts /\ overlap' \in BOOLEAN /\ late' \in BOOLEAN
  BY DEF TypeOK, Send2User

\* A push that moves on keeps its type.
LEMMA PusherMoves ==
  ASSUME TypeOK, NEW p \in Pushers, pusher[p].at # "idle",
         NEW stage \in {"checking", "sending", "listing", "deleting", "adding", "logging"},
         NEW list \in Seq(Alerts),
         pusher' = [pusher EXCEPT ![p] = [pusher[p] EXCEPT !.at = stage, !.list = list]]
  PROVE /\ pusher' \in [Pushers -> {Idle} \cup Pushes]
        /\ pusher'[p].at = stage /\ pusher'[p].alert = pusher[p].alert /\ pusher'[p].list = list
        /\ \A q \in Pushers \ {p} : pusher'[q] = pusher[q]
  <1>1. pusher[p] \in Pushes BY PushAt
  <1> DEFINE job == [pusher[p] EXCEPT !.at = stage, !.list = list]
  <1>2. job.at = stage /\ job.alert = pusher[p].alert /\ job.list = list
    BY <1>1 DEF Pushes
  <1>3. job \in Pushes BY <1>1 DEF Pushes
  <1>4. pusher' = [pusher EXCEPT ![p] = job] OBVIOUS
  <1>5. pusher \in [Pushers -> {Idle} \cup Pushes] BY DEF TypeOK, Pushes
  <1> HIDE DEF job
  <1> QED BY <1>2, <1>3, <1>4, <1>5

LEMMA PusherAtMoves ==
  ASSUME TypeOK, NEW p \in Pushers, pusher[p].at # "idle",
         NEW stage \in {"checking", "sending", "listing", "deleting", "adding", "logging"},
         PusherAt(p, stage)
  PROVE /\ pusher' \in [Pushers -> {Idle} \cup Pushes]
        /\ pusher'[p].at = stage /\ pusher'[p].alert = pusher[p].alert /\ pusher'[p].list = pusher[p].list
        /\ \A q \in Pushers \ {p} : pusher'[q] = pusher[q]
  <1>1. pusher[p] \in Pushes BY PushAt
  <1>2. pusher' = [pusher EXCEPT ![p] = [pusher[p] EXCEPT !.at = stage, !.list = pusher[p].list]]
    BY <1>1 DEF PusherAt, TypeOK, Pushes
  <1>3. pusher[p].list \in Seq(Alerts) BY <1>1 DEF Pushes
  <1> QED BY <1>2, <1>3, PusherMoves

LEMMA HandlerMoves ==
  ASSUME TypeOK, NEW s \in Sessions, NEW stage \in {"listing", "sending", "deleting"},
         NEW list \in Seq(Alerts), HandlerAt(s, stage, list)
  PROVE /\ handler' \in [Sessions -> {Idle} \cup Handlings]
        /\ handler'[s].at = stage /\ handler'[s].list = list
        /\ \A r \in Sessions \ {s} : handler'[r] = handler[r]
  BY DEF HandlerAt, TypeOK, Handlings

LEMMA HandlerEnds ==
  ASSUME TypeOK, NEW s \in Sessions, handler' = [handler EXCEPT ![s] = Idle]
  PROVE /\ handler' \in [Sessions -> {Idle} \cup Handlings]
        /\ handler'[s] = Idle /\ \A r \in Sessions \ {s} : handler'[r] = handler[r]
  BY DEF TypeOK, Handlings

LEMMA SessionType ==
  ASSUME TypeInv, NEW s \in Sessions, Session(s) \/ Broker(s)
  PROVE TypeInv'
  <1>1. CASE Subscribe(s)
    <2>1. <<>> \in Seq(Alerts) /\ HandlerAt(s, "listing", <<>>) BY <1>1, EmptySeq DEF Subscribe, HandlerAt
    <2>2. /\ handler' \in [Sessions -> {Idle} \cup Handlings]
          /\ handler'[s].at = "listing" /\ \A r \in Sessions \ {s} : handler'[r] = handler[r]
      BY <2>1, HandlerMoves DEF TypeInv
    <2> QED BY <1>1, <2>2 DEF Subscribe, TypeInv, SendsSomething, TypeOK, Handlings, history
  <1>2. CASE Connect(s) BY <1>2 DEF Connect, TypeInv, SendsSomething, TypeOK, history
  <1>3. CASE Break(s) BY <1>3 DEF Break, TypeInv, SendsSomething, TypeOK, history
  <1>4. CASE Register(s) BY <1>4 DEF Register, TypeInv, SendsSomething, TypeOK, history
  <1>5. CASE Disconnect(s)
    <2>1. late' \in BOOLEAN BY <1>5 DEF Disconnect
    <2> QED BY <1>5, <2>1 DEF Disconnect, TypeInv, SendsSomething, TypeOK
  <1> QED BY <1>1, <1>2, <1>3, <1>4, <1>5 DEF Session, Broker

LEMMA HandlerType ==
  ASSUME TypeInv, NEW s \in Sessions, Handler(s)
  PROVE TypeInv'
  <1> USE DEF TypeInv, SendsSomething
  <1>1. CASE ListCached(s)
    <2>1. handler[s].at = "listing" BY <1>1 DEF ListCached
    <2>2. CASE cached = <<>>
      <3>1. /\ handler' \in [Sessions -> {Idle} \cup Handlings]
            /\ handler'[s] = Idle /\ \A r \in Sessions \ {s} : handler'[r] = handler[r]
        BY <1>1, <2>2, HandlerEnds DEF ListCached
      <3> QED BY <1>1, <2>2, <3>1 DEF ListCached, TypeOK, Handlings, brokerVars, Idle
    <2>3. CASE cached # <<>>
      <3>1. HandlerAt(s, "sending", cached) /\ cached \in Seq(Alerts) /\ overlap' \in BOOLEAN
        BY <1>1, <2>3 DEF ListCached, TypeOK
      <3>2. /\ handler' \in [Sessions -> {Idle} \cup Handlings]
            /\ handler'[s].at = "sending" /\ handler'[s].list = cached /\ \A r \in Sessions \ {s} : handler'[r] = handler[r]
        BY <3>1, HandlerMoves
      <3> QED BY <1>1, <2>3, <3>1, <3>2 DEF ListCached, TypeOK, Handlings, brokerVars
    <2> QED BY <2>2, <2>3
  <1>2. CASE SendCached(s)
    <2>1. handler[s].at = "sending" /\ handler[s].at # "idle" BY <1>2 DEF SendCached
    <2>2. handler[s].list \in Seq(Alerts) /\ handler[s].list # <<>>
      BY <2>1, HandlingAt DEF Handlings
    <2>3. Head(handler[s].list) \in Alerts /\ Tail(handler[s].list) \in Seq(Alerts)
      BY <2>2, TailElements
    <2>4. PICK rest \in Seq(Alerts) : rest = Tail(handler[s].list) BY <2>3
    <2>5. PICK stage \in {"listing", "sending", "deleting"} : stage = IF rest = <<>> THEN "deleting" ELSE "sending"
      OBVIOUS
    <2>6. HandlerAt(s, stage, rest) BY <1>2, <2>4, <2>5 DEF SendCached
    <2>7. /\ handler' \in [Sessions -> {Idle} \cup Handlings]
          /\ handler'[s].at = stage /\ handler'[s].list = rest /\ \A r \in Sessions \ {s} : handler'[r] = handler[r]
      BY <2>6, HandlerMoves
    <2>8. received' \subseteq Alerts /\ unheard' \subseteq Alerts /\ overlap' \in BOOLEAN /\ late' \in BOOLEAN
      BY <1>2, <2>3, Send2UserType DEF SendCached
    <2>9. handler'[s].at = "sending" => handler'[s].list # <<>> BY <2>5, <2>7
    <2> QED BY <1>2, <2>7, <2>8, <2>9 DEF SendCached, TypeOK, Handlings, brokerVars
  <1>3. CASE DeleteCached(s)
    <2>1. /\ handler' \in [Sessions -> {Idle} \cup Handlings]
          /\ handler'[s] = Idle /\ \A r \in Sessions \ {s} : handler'[r] = handler[r]
      BY <1>3, HandlerEnds DEF DeleteCached
    <2>2. cached' \in Seq(Alerts) BY <1>3, EmptySeq DEF DeleteCached
    <2> QED BY <1>3, <2>1, <2>2 DEF DeleteCached, TypeOK, Handlings, brokerVars, history, Idle
  <1>4. CASE HandlerThrows(s)
    <2>1. /\ handler' \in [Sessions -> {Idle} \cup Handlings]
          /\ handler'[s] = Idle /\ \A r \in Sessions \ {s} : handler'[r] = handler[r]
      BY <1>4, HandlerEnds DEF HandlerThrows
    <2>2. faultsLeft' \in 0..MaxFaults BY <1>4, FaultBound DEF HandlerThrows
    <2> QED BY <1>4, <2>1, <2>2 DEF HandlerThrows, TypeOK, Handlings, brokerVars, Idle
  <1> QED BY <1>1, <1>2, <1>3, <1>4 DEF Handler

LEMMA StartPushType ==
  ASSUME TypeInv, NEW p \in Pushers, NEW a \in Alerts, StartPush(p, a)
  PROVE /\ TypeInv'
        /\ pusher'[p].at = "checking" /\ \A q \in Pushers \ {p} : pusher'[q] = pusher[q]
  <1>1. <<>> \in Seq(Alerts) BY EmptySeq
  <1>2. [at |-> "checking", alert |-> a, list |-> <<>>] \in Pushes BY <1>1 DEF Pushes
  <1>3. /\ pusher' \in [Pushers -> {Idle} \cup Pushes]
        /\ pusher'[p].at = "checking" /\ \A q \in Pushers \ {p} : pusher'[q] = pusher[q]
    BY <1>2 DEF StartPush, TypeInv, TypeOK, Pushes
  <1> QED BY <1>3 DEF StartPush, TypeInv, SendsSomething, TypeOK, Pushes, brokerVars, history

\* Where each step of a push leaves it.
LEMMA CheckOnLineMoves ==
  ASSUME TypeOK, NEW p \in Pushers, CheckOnLine(p)
  PROVE /\ pusher' \in [Pushers -> {Idle} \cup Pushes]
        /\ pusher'[p].at \in {"sending", "listing"}
        /\ \A q \in Pushers \ {p} : pusher'[q] = pusher[q]
  <1>1. PICK stage \in {"checking", "sending", "listing", "deleting", "adding", "logging"} :
          stage = IF onLine THEN "sending" ELSE "listing"
    OBVIOUS
  <1> QED BY <1>1, PusherAtMoves DEF CheckOnLine

LEMMA SendAlertMoves ==
  ASSUME TypeOK, NEW p \in Pushers, SendAlert(p)
  PROVE /\ pusher' \in [Pushers -> {Idle} \cup Pushes]
        /\ pusher'[p].at = "logging" /\ pusher'[p].alert = pusher[p].alert /\ pusher[p].alert \in Alerts
        /\ \A q \in Pushers \ {p} : pusher'[q] = pusher[q]
  <1>1. pusher[p].at # "idle" BY DEF SendAlert
  <1>2. pusher[p].alert \in Alerts BY <1>1, PushAt DEF Pushes
  <1> QED BY <1>1, <1>2, PusherAtMoves DEF SendAlert

LEMMA ListGetMoves ==
  ASSUME TypeOK, NEW p \in Pushers, ListGet(p)
  PROVE /\ pusher' \in [Pushers -> {Idle} \cup Pushes]
        /\ pusher'[p].at = "deleting" /\ pusher'[p].alert = pusher[p].alert
        /\ Elements(pusher'[p].list) = Elements(cached) \cup {pusher[p].alert}
        /\ \A q \in Pushers \ {p} : pusher'[q] = pusher[q]
  <1>1. pusher[p].at # "idle" BY DEF ListGet
  <1>2. pusher[p] \in Pushes /\ pusher[p].alert \in Alerts BY <1>1, PushAt DEF Pushes
  <1>3. PICK list \in Seq(Alerts) :
          list = Append(cached, pusher[p].alert) /\ Elements(list) = Elements(cached) \cup {pusher[p].alert}
    <2>1. cached \in Seq(Alerts) BY DEF TypeOK
    <2>2. /\ Append(cached, pusher[p].alert) \in Seq(Alerts)
          /\ Elements(Append(cached, pusher[p].alert)) = Elements(cached) \cup {pusher[p].alert}
      BY <1>2, <2>1, AppendElements
    <2> QED BY <2>2
  <1>4. pusher' = [pusher EXCEPT ![p] = [pusher[p] EXCEPT !.at = "deleting", !.list = list]]
    BY <1>3 DEF ListGet, TypeOK
  <1> QED BY <1>1, <1>3, <1>4, PusherMoves

LEMMA DelMoves ==
  ASSUME TypeOK, NEW p \in Pushers, Del(p)
  PROVE /\ pusher' \in [Pushers -> {Idle} \cup Pushes]
        /\ pusher'[p].at = "adding" /\ pusher'[p].alert = pusher[p].alert /\ pusher'[p].list = pusher[p].list
        /\ \A q \in Pushers \ {p} : pusher'[q] = pusher[q]
        /\ cached' = <<>> /\ cached' \in Seq(Alerts)
  BY PusherAtMoves, EmptySeq DEF Del

LEMMA ListAddAllMoves ==
  ASSUME TypeOK, NEW p \in Pushers, ListAddAll(p)
  PROVE /\ pusher' \in [Pushers -> {Idle} \cup Pushes]
        /\ pusher'[p].at = "logging" /\ pusher'[p].alert = pusher[p].alert
        /\ \A q \in Pushers \ {p} : pusher'[q] = pusher[q]
        /\ cached' \in Seq(Alerts) /\ Elements(cached) \cup Elements(pusher[p].list) \subseteq Elements(cached')
  <1>1. pusher[p].at # "idle" BY DEF ListAddAll
  <1>2. pusher[p].list \in Seq(Alerts) BY <1>1, PushAt DEF Pushes
  <1>3. cached' \in Seq(Alerts) /\ Elements(cached) \cup Elements(pusher[p].list) \subseteq Elements(cached')
    BY <1>2, ConcatElements DEF ListAddAll, RightPushAll, TypeOK
  <1>4. PICK list \in Seq(Alerts) : list = <<>> BY EmptySeq
  <1>5. pusher' = [pusher EXCEPT ![p] = [pusher[p] EXCEPT !.at = "logging", !.list = list]]
    BY <1>4 DEF ListAddAll, TypeOK
  <1> QED BY <1>1, <1>3, <1>5, PusherMoves

LEMMA ThrowMoves ==
  ASSUME TypeOK, NEW p \in Pushers, Throw(p)
  PROVE /\ pusher' \in [Pushers -> {Idle} \cup Pushes]
        /\ pusher'[p].at = "checking"
        /\ \A q \in Pushers \ {p} : pusher'[q] = pusher[q]
        /\ cached' \in Seq(Alerts)
        /\ \/ cached' = cached
           \/ pusher[p].at = "adding" /\ Elements(cached) \cup Elements(pusher[p].list) \subseteq Elements(cached')
  <1>1. pusher[p].at # "idle" BY DEF Throw
  <1>2. pusher[p].list \in Seq(Alerts) BY <1>1, PushAt DEF Pushes
  <1>3. /\ cached' \in Seq(Alerts)
        /\ \/ cached' = cached
           \/ pusher[p].at = "adding" /\ Elements(cached) \cup Elements(pusher[p].list) \subseteq Elements(cached')
    <2>1. cached \in Seq(Alerts) BY DEF TypeOK
    <2>2. /\ cached \o pusher[p].list \in Seq(Alerts)
          /\ Elements(cached) \cup Elements(pusher[p].list) \subseteq Elements(cached \o pusher[p].list)
      BY <1>2, <2>1, ConcatElements
    <2>3. cached' = cached \/ (pusher[p].at = "adding" /\ cached' = cached \o pusher[p].list)
      BY DEF Throw, RightPushAll
    <2> QED BY <2>1, <2>2, <2>3
  <1>4. PICK list \in Seq(Alerts) : list = <<>> BY EmptySeq
  <1>5. pusher' = [pusher EXCEPT ![p] = [pusher[p] EXCEPT !.at = "checking", !.list = list]]
    BY <1>4 DEF Throw, TypeOK
  <1> QED BY <1>1, <1>3, <1>5, PusherMoves

LEMMA PusherType ==
  ASSUME TypeInv, NEW p \in Pushers, Pusher(p)
  PROVE TypeInv'
  <1> USE DEF TypeInv, SendsSomething
  <1>1. CASE CheckOnLine(p)
    BY <1>1, CheckOnLineMoves DEF CheckOnLine, TypeOK, Pushes, brokerVars, history
  <1>2. CASE SendAlert(p)
    <2>1. received' \subseteq Alerts /\ unheard' \subseteq Alerts /\ overlap' \in BOOLEAN /\ late' \in BOOLEAN
      BY <1>2, SendAlertMoves, Send2UserType DEF SendAlert
    <2> QED BY <1>2, <2>1, SendAlertMoves DEF SendAlert, TypeOK, Pushes, brokerVars
  <1>3. CASE ListGet(p)
    <2>1. overlap' \in BOOLEAN BY <1>3 DEF ListGet
    <2> QED BY <1>3, <2>1, ListGetMoves DEF ListGet, TypeOK, Pushes, brokerVars
  <1>4. CASE Del(p)
    BY <1>4, DelMoves DEF Del, TypeOK, Pushes, brokerVars, history
  <1>5. CASE ListAddAll(p)
    <2>1. late' \in BOOLEAN BY <1>5 DEF ListAddAll
    <2> QED BY <1>5, <2>1, ListAddAllMoves DEF ListAddAll, TypeOK, Pushes, brokerVars
  <1>6. CASE LogPush(p)
    <2>1. pusher[p].at # "idle" BY <1>6 DEF LogPush
    <2>2. pusher[p].alert \in Alerts BY <2>1, PushAt DEF Pushes
    <2> QED BY <1>6, <2>2 DEF LogPush, TypeOK, brokerVars, history
  <1>7. CASE Throw(p)
    <2>1. overlap' \in BOOLEAN /\ late' \in BOOLEAN BY <1>7 DEF Throw, TypeOK
    <2>2. faultsLeft' \in 0..MaxFaults BY <1>7, FaultBound DEF Throw
    <2> QED BY <1>7, <2>1, <2>2, ThrowMoves DEF Throw, TypeOK, Pushes, brokerVars
  <1> QED BY <1>1, <1>2, <1>3, <1>4, <1>5, <1>6, <1>7 DEF Pusher

LEMMA CrashType ==
  ASSUME TypeInv, Crash
  PROVE TypeInv'
  <1>1. overlap' \in BOOLEAN BY DEF Crash
  <1>2. faultsLeft' \in 0..MaxFaults BY FaultBound DEF Crash, TypeInv
  <1> QED BY <1>1, <1>2 DEF Crash, TypeInv, SendsSomething, TypeOK, Idle

LEMMA InitType == Init => TypeInv
  <1> SUFFICES ASSUME Init PROVE TypeInv OBVIOUS
  <1>1. cached \in Seq(Alerts) BY EmptySeq DEF Init
  <1>2. faultsLeft \in 0..MaxFaults BY AlertsAssumption DEF Init
  <1> QED BY <1>1, <1>2 DEF Init, TypeInv, SendsSomething, TypeOK, Idle

LEMMA NextType == TypeInv /\ [Next]_vars => TypeInv'
  <1> SUFFICES ASSUME TypeInv, [Next]_vars PROVE TypeInv' OBVIOUS
  <1>1. CASE UNCHANGED vars
    BY <1>1 DEF TypeInv, SendsSomething, TypeOK, vars, brokerVars, history
  <1> QED BY <1>1, SessionType, HandlerType, StartPushType, PusherType, CrashType DEF Next

\* The state of the alerts keeps its types; the Redis list holds alerts, never a list.
THEOREM AlertsTypeCorrect == Spec => []TypeOK
  <1>1. TypeInv => TypeOK BY DEF TypeInv
  <1> QED BY <1>1, InitType, NextType, PTL DEF Spec

--------------------------------------------------------------------------------
(* Where an alert is safe *)

\* What the access that is replacing the list will put back.
Held == UNION {Elements(pusher[p].list) : p \in PushersAtList}
Safe == received \cup unheard \cup Elements(cached) \cup Held

\* Every push has an alert of its own, which is not logged yet.
OwnAlerts ==
    \A p \in Pushers : pusher[p].at # "idle" =>
        /\ pusher[p].alert \notin logged
        /\ \A q \in Pushers \ {p} : pusher[q].at # "idle" => pusher[q].alert # pusher[p].alert

\* One access at a time.
Alone ==
    /\ \A p, q \in PushersAtList : p = q
    /\ \A s, r \in HandlersAtList : s = r
    /\ PushersAtList = {} \/ HandlersAtList = {}

PushHolds(p) ==
    /\ pusher[p].at = "deleting" => Elements(pusher[p].list) = Elements(cached) \cup {pusher[p].alert}
    /\ pusher[p].at = "adding" => pusher[p].alert \in Elements(pusher[p].list)
    /\ pusher[p].at = "logging" => pusher[p].alert \in Safe

HandlerHolds(s) ==
    /\ handler[s].at = "sending" => Elements(cached) \subseteq Elements(handler[s].list) \cup received \cup unheard
    /\ handler[s].at = "deleting" => Elements(cached) \subseteq received \cup unheard

Holds ==
    /\ Alone
    /\ \A p \in Pushers : PushHolds(p)
    /\ \A s \in Sessions : HandlerHolds(s)
    /\ logged \subseteq Safe

LostInv == TypeInv /\ OwnAlerts /\ (~overlap => Holds)

\* What the history variable says of a step behind which overlap is still FALSE.
LEMMA OverlapGrows ==
  ASSUME NEW b \in BOOLEAN, overlap' = (overlap \/ b), ~overlap'
  PROVE ~overlap /\ ~b
  BY Zenon

\* The accesses to the list are those of the same pushers, with the same lists.
LEMMA HeldSame ==
  ASSUME \A q \in Pushers : /\ (pusher'[q].at \in {"deleting", "adding"}) <=> (pusher[q].at \in {"deleting", "adding"})
                            /\ pusher[q].at \in {"deleting", "adding"} => pusher'[q].list = pusher[q].list
  PROVE PushersAtList' = PushersAtList /\ Held' = Held
  <1>1. PushersAtList' = PushersAtList BY DEF PushersAtList
  <1>2. \A q \in PushersAtList : Elements(pusher'[q].list) = Elements(pusher[q].list)
    BY DEF PushersAtList
  <1> QED BY <1>1, <1>2 DEF Held

\* Only p has the list.
LEMMA HeldAlone ==
  ASSUME Holds, NEW p \in Pushers, pusher[p].at \in {"deleting", "adding"}
  PROVE PushersAtList = {p} /\ HandlersAtList = {} /\ Held = Elements(pusher[p].list)
  <1>1. PushersAtList = {p} BY DEF Holds, Alone, PushersAtList
  <1>2. HandlersAtList = {} BY <1>1 DEF Holds, Alone
  <1> QED BY <1>1, <1>2 DEF Held

LEMMA Send2UserKeeps ==
  ASSUME NEW a, Send2User(a)
  PROVE received \cup unheard \cup {a} \subseteq received' \cup unheard'
  BY DEF Send2User

\* A step that leaves the list, and what is safe, alone.
LEMMA QuietHolds ==
  ASSUME Holds, PushersAtList' = PushersAtList, HandlersAtList' \subseteq HandlersAtList,
         Safe \subseteq Safe', logged' \subseteq logged \cup Safe, cached' = cached,
         received \cup unheard \subseteq received' \cup unheard',
         \A p \in Pushers : pusher'[p] = pusher[p]
                            \/ pusher'[p].at \in {"idle", "checking", "sending", "listing"}
                            \/ (pusher'[p].at = "logging" /\ pusher'[p].alert \in Safe'),
         \A s \in Sessions : handler'[s] = handler[s] \/ handler'[s].at \in {"idle", "listing"}
  PROVE Holds'
  <1>1. Alone' BY DEF Holds, Alone
  <1>2. \A p \in Pushers : PushHolds(p)' BY DEF Holds, PushHolds
  <1>3. \A s \in Sessions : HandlerHolds(s)' BY DEF Holds, HandlerHolds
  <1>4. logged' \subseteq Safe' BY DEF Holds
  <1> QED BY <1>1, <1>2, <1>3, <1>4 DEF Holds

--------------------------------------------------------------------------------
(* One step *)

LEMMA SameAlerts ==
  ASSUME OwnAlerts, logged' = logged,
         \A p \in Pushers : pusher'[p].at # "idle" => pusher[p].at # "idle" /\ pusher'[p].alert = pusher[p].alert
  PROVE OwnAlerts'
  BY DEF OwnAlerts

LEMMA SessionHolds ==
  ASSUME LostInv, NEW s \in Sessions, Session(s) \/ Broker(s)
  PROVE LostInv'
  <1>1. TypeInv' BY SessionType DEF LostInv
  <1>2. /\ pusher' = pusher /\ cached' = cached /\ logged' = logged
        /\ received' = received /\ unheard' = unheard /\ overlap' = overlap
    BY DEF Session, Broker, Connect, Subscribe, Break, Register, Disconnect, history
  <1>3. \A r \in Sessions : handler'[r] = handler[r] \/ handler'[r].at \in {"idle", "listing"}
    BY DEF LostInv, TypeInv, TypeOK, Session, Broker, Connect, Subscribe, Break, Register, Disconnect
  <1>4. OwnAlerts' BY <1>2, SameAlerts DEF LostInv
  <1>5. ASSUME ~overlap' PROVE Holds'
    <2>1. Holds BY <1>2, <1>5 DEF LostInv
    <2>2. PushersAtList' = PushersAtList /\ Held' = Held BY <1>2, HeldSame
    <2>3. HandlersAtList' \subseteq HandlersAtList BY <1>3 DEF HandlersAtList
    <2>4. Safe' = Safe BY <1>2, <2>2 DEF Safe
    <2> QED BY <1>2, <1>3, <2>1, <2>2, <2>3, <2>4, QuietHolds
  <1> QED BY <1>1, <1>4, <1>5 DEF LostInv

LEMMA HandlerHoldsStep ==
  ASSUME LostInv, NEW s \in Sessions, Handler(s)
  PROVE LostInv'
  <1>1. TypeInv' BY HandlerType DEF LostInv
  <1>2. pusher' = pusher /\ logged' = logged
    BY DEF Handler, ListCached, SendCached, DeleteCached, HandlerThrows, history
  <1>3. OwnAlerts' BY <1>2, SameAlerts DEF LostInv
  <1>4. PushersAtList' = PushersAtList /\ Held' = Held BY <1>2, HeldSame
  <1>5. TypeOK BY DEF LostInv, TypeInv
  <1>6. handler \in [Sessions -> {Idle} \cup Handlings] BY <1>5 DEF TypeOK, Handlings
  <1>7. CASE ListCached(s)
    <2> SUFFICES ASSUME ~overlap' PROVE Holds' BY <1>1, <1>3 DEF LostInv
    <2>1. cached' = cached /\ received' = received /\ unheard' = unheard BY <1>7 DEF ListCached
    <2>2. Safe' = Safe BY <1>4, <2>1 DEF Safe
    <2>3. CASE cached = <<>>
      <3>1. handler'[s] = Idle /\ \A r \in Sessions \ {s} : handler'[r] = handler[r] /\ overlap' = overlap
        BY <1>6, <1>7, <2>3 DEF ListCached
      <3>2. HandlersAtList' \subseteq HandlersAtList BY <3>1 DEF HandlersAtList, Idle
      <3>3. Holds BY <1>7, <2>3 DEF LostInv, ListCached
      <3>4. \A r \in Sessions : handler'[r] = handler[r] \/ handler'[r].at = "idle" BY <3>1 DEF Idle
      <3> QED BY <1>2, <1>4, <2>1, <2>2, <3>2, <3>3, <3>4, QuietHolds
    <2>4. CASE cached # <<>>
      <3>1. handler[s].at = "listing" /\ HandlerAt(s, "sending", cached) /\ overlap' = (overlap \/ ListInUse)
        BY <1>7, <2>4 DEF ListCached
      <3>2. ~overlap /\ ~ListInUse BY <3>1, OverlapGrows DEF ListInUse
      <3>3. PushersAtList = {} /\ HandlersAtList = {} BY <3>2 DEF ListInUse
      <3>4. Holds BY <3>2 DEF LostInv
      <3>5. /\ handler'[s].at = "sending" /\ handler'[s].list = cached
            /\ \A r \in Sessions \ {s} : handler'[r] = handler[r]
        BY <1>5, <3>1, HandlerMoves DEF TypeOK
      <3>6. HandlersAtList' = {s} BY <3>3, <3>5 DEF HandlersAtList
      <3>7. Alone' BY <1>4, <3>3, <3>6 DEF Alone
      <3>8. \A p \in Pushers : PushHolds(p)' BY <1>2, <2>1, <2>2, <3>4 DEF Holds, PushHolds
      <3>9. \A r \in Sessions : HandlerHolds(r)' BY <2>1, <3>4, <3>5 DEF Holds, HandlerHolds
      <3>10. logged' \subseteq Safe' BY <1>2, <2>2, <3>4 DEF Holds
      <3> QED BY <3>7, <3>8, <3>9, <3>10 DEF Holds
    <2> QED BY <2>3, <2>4
  <1>8. CASE SendCached(s)
    <2> SUFFICES ASSUME ~overlap' PROVE Holds' BY <1>1, <1>3 DEF LostInv
    <2>1. handler[s].at = "sending" /\ handler[s].at # "idle" /\ Send2User(Head(handler[s].list))
      BY <1>8 DEF SendCached
    <2>2. cached' = cached BY <1>8 DEF SendCached
    <2>3. Holds BY <2>1 DEF LostInv, Send2User
    <2>4. handler[s].list \in Seq(Alerts) /\ handler[s].list # <<>>
      BY <1>5, <2>1, HandlingAt DEF Handlings, LostInv, TypeInv, SendsSomething
    <2>5. PICK rest \in Seq(Alerts) : /\ rest = Tail(handler[s].list)
                                      /\ Elements(handler[s].list) \subseteq {Head(handler[s].list)} \cup Elements(rest)
      BY <2>4, TailElements
    <2>6. PICK stage \in {"listing", "sending", "deleting"} : stage = IF rest = <<>> THEN "deleting" ELSE "sending"
      OBVIOUS
    <2>7. HandlerAt(s, stage, rest) BY <1>8, <2>5, <2>6 DEF SendCached
    <2>8. /\ handler'[s].at = stage /\ handler'[s].list = rest
          /\ \A r \in Sessions \ {s} : handler'[r] = handler[r]
      BY <1>5, <2>7, HandlerMoves
    <2>9. received \cup unheard \cup {Head(handler[s].list)} \subseteq received' \cup unheard'
      BY <2>1, Send2UserKeeps
    <2>10. HandlersAtList' = HandlersAtList BY <2>1, <2>6, <2>8 DEF HandlersAtList
    <2>11. Safe \subseteq Safe' BY <1>4, <2>2, <2>9 DEF Safe
    <2>12. Alone' BY <1>4, <2>3, <2>10 DEF Holds, Alone
    <2>13. \A p \in Pushers : PushHolds(p)' BY <1>2, <2>2, <2>3, <2>11 DEF Holds, PushHolds
    <2>14. HandlerHolds(s)'
      <3>1. Elements(cached) \subseteq Elements(handler[s].list) \cup received \cup unheard
        BY <2>1, <2>3 DEF Holds, HandlerHolds
      <3>2. Elements(cached) \subseteq Elements(rest) \cup received' \cup unheard'
        BY <2>5, <2>9, <3>1
      <3>3. stage = "deleting" => Elements(rest) = {} BY <2>6, EmptyElements
      <3> QED BY <2>2, <2>8, <3>2, <3>3 DEF HandlerHolds
    <2>15. \A r \in Sessions \ {s} : HandlerHolds(r)' BY <2>2, <2>3, <2>8, <2>9 DEF Holds, HandlerHolds
    <2>16. logged' \subseteq Safe' BY <1>2, <2>3, <2>11 DEF Holds
    <2> QED BY <2>12, <2>13, <2>14, <2>15, <2>16 DEF Holds
  <1>9. CASE DeleteCached(s)
    <2> SUFFICES ASSUME ~overlap' PROVE Holds' BY <1>1, <1>3 DEF LostInv
    <2>1. /\ handler[s].at = "deleting" /\ cached' = <<>>
          /\ received' = received /\ unheard' = unheard /\ overlap' = overlap
      BY <1>9 DEF DeleteCached, history
    <2>2. Holds BY <2>1 DEF LostInv
    <2>3. handler'[s] = Idle /\ \A r \in Sessions \ {s} : handler'[r] = handler[r]
      BY <1>5, <1>9, HandlerEnds DEF DeleteCached
    <2>4. s \in HandlersAtList BY <2>1 DEF HandlersAtList
    <2>5. HandlersAtList = {s} /\ PushersAtList = {} BY <2>2, <2>4 DEF Holds, Alone
    <2>6. HandlersAtList' = {} BY <2>3, <2>5 DEF HandlersAtList, Idle
    <2>7. Elements(cached) \subseteq received \cup unheard BY <2>1, <2>2 DEF Holds, HandlerHolds
    <2>8. Safe \subseteq Safe' BY <1>4, <2>1, <2>7 DEF Safe
    <2>9. Alone' BY <1>4, <2>5, <2>6 DEF Alone
    <2>10. \A p \in Pushers : PushHolds(p)' BY <1>2, <2>2, <2>5, <2>8 DEF Holds, PushHolds, PushersAtList
    <2>11. \A r \in Sessions : HandlerHolds(r)' BY <2>6 DEF HandlerHolds, HandlersAtList
    <2>12. logged' \subseteq Safe' BY <1>2, <2>2, <2>8 DEF Holds
    <2> QED BY <2>9, <2>10, <2>11, <2>12 DEF Holds
  <1>10. CASE HandlerThrows(s)
    <2> SUFFICES ASSUME ~overlap' PROVE Holds' BY <1>1, <1>3 DEF LostInv
    <2>1. cached' = cached /\ received' = received /\ unheard' = unheard /\ overlap' = overlap
      BY <1>10 DEF HandlerThrows
    <2>2. handler'[s] = Idle /\ \A r \in Sessions \ {s} : handler'[r] = handler[r]
      BY <1>5, <1>10, HandlerEnds DEF HandlerThrows
    <2>3. Holds BY <2>1 DEF LostInv
    <2>4. HandlersAtList' \subseteq HandlersAtList BY <2>2 DEF HandlersAtList, Idle
    <2>5. Safe' = Safe BY <1>4, <2>1 DEF Safe
    <2>6. \A r \in Sessions : handler'[r] = handler[r] \/ handler'[r].at = "idle" BY <2>2 DEF Idle
    <2> QED BY <1>2, <1>4, <2>1, <2>3, <2>4, <2>5, <2>6, QuietHolds
  <1> QED BY <1>7, <1>8, <1>9, <1>10 DEF Handler

LEMMA StartPushHolds ==
  ASSUME LostInv, NEW p \in Pushers, NEW a \in Alerts, StartPush(p, a)
  PROVE LostInv'
  <1>1. /\ TypeInv'
        /\ pusher'[p].at = "checking" /\ \A q \in Pushers \ {p} : pusher'[q] = pusher[q]
    BY StartPushType DEF LostInv
  <1>2. /\ handler' = handler /\ cached' = cached /\ logged' = logged
        /\ received' = received /\ unheard' = unheard /\ overlap' = overlap
    BY DEF StartPush, history
  <1>3. pusher[p].at = "idle" BY DEF StartPush, Idle
  <1>4. OwnAlerts'
    <2>1. a \notin logged /\ \A q \in Pushers : pusher[q].at # "idle" => pusher[q].alert # a
      BY DEF StartPush, Taken, Idle
    <2>2. pusher'[p].alert = a BY DEF StartPush, LostInv, TypeInv, TypeOK
    <2> QED BY <1>1, <1>2, <2>1, <2>2 DEF LostInv, OwnAlerts
  <1>5. ASSUME ~overlap' PROVE Holds'
    <2>1. Holds BY <1>2, <1>5 DEF LostInv
    <2>2. PushersAtList' = PushersAtList /\ Held' = Held BY <1>1, <1>3, HeldSame
    <2>3. HandlersAtList' = HandlersAtList BY <1>2 DEF HandlersAtList
    <2>4. Safe' = Safe BY <1>2, <2>2 DEF Safe
    <2> QED BY <1>1, <1>2, <2>1, <2>2, <2>3, <2>4, QuietHolds
  <1> QED BY <1>1, <1>4, <1>5 DEF LostInv

LEMMA CheckOnLineHolds ==
  ASSUME LostInv, NEW p \in Pushers, CheckOnLine(p)
  PROVE LostInv'
  <1>1. TypeInv' BY PusherType DEF LostInv, Pusher
  <1>2. /\ handler' = handler /\ cached' = cached /\ logged' = logged
        /\ received' = received /\ unheard' = unheard /\ overlap' = overlap
    BY DEF CheckOnLine, history
  <1>3. /\ pusher[p].at = "checking" /\ pusher'[p].at \in {"sending", "listing"}
        /\ pusher'[p].alert = pusher[p].alert
        /\ \A q \in Pushers \ {p} : pusher'[q] = pusher[q]
    <2>1. pusher[p].at = "checking" BY DEF CheckOnLine
    <2>2. PICK stage \in {"checking", "sending", "listing", "deleting", "adding", "logging"} :
            stage = IF onLine THEN "sending" ELSE "listing"
      OBVIOUS
    <2>3. PusherAt(p, stage) BY <2>2 DEF CheckOnLine
    <2> QED BY <2>1, <2>2, <2>3, PusherAtMoves DEF LostInv, TypeInv
  <1>4. OwnAlerts' BY <1>2, <1>3, SameAlerts DEF LostInv
  <1>5. ASSUME ~overlap' PROVE Holds'
    <2>1. Holds BY <1>2, <1>5 DEF LostInv
    <2>2. PushersAtList' = PushersAtList /\ Held' = Held BY <1>3, HeldSame
    <2>3. HandlersAtList' = HandlersAtList BY <1>2 DEF HandlersAtList
    <2>4. Safe' = Safe BY <1>2, <2>2 DEF Safe
    <2> QED BY <1>2, <1>3, <2>1, <2>2, <2>3, <2>4, QuietHolds
  <1> QED BY <1>1, <1>4, <1>5 DEF LostInv

LEMMA SendAlertHolds ==
  ASSUME LostInv, NEW p \in Pushers, SendAlert(p)
  PROVE LostInv'
  <1>1. TypeInv' BY PusherType DEF LostInv, Pusher
  <1>2. /\ pusher[p].at = "sending" /\ Send2User(pusher[p].alert)
        /\ handler' = handler /\ cached' = cached /\ logged' = logged /\ overlap' = overlap
    BY DEF SendAlert, Send2User
  <1>3. /\ pusher'[p].at = "logging" /\ pusher'[p].alert = pusher[p].alert
        /\ \A q \in Pushers \ {p} : pusher'[q] = pusher[q]
    BY SendAlertMoves DEF LostInv, TypeInv
  <1>4. OwnAlerts' BY <1>2, <1>3, SameAlerts DEF LostInv
  <1>5. ASSUME ~overlap' PROVE Holds'
    <2>1. Holds BY <1>2, <1>5 DEF LostInv
    <2>2. PushersAtList' = PushersAtList /\ Held' = Held BY <1>2, <1>3, HeldSame
    <2>3. HandlersAtList' = HandlersAtList BY <1>2 DEF HandlersAtList
    <2>4. received \cup unheard \cup {pusher[p].alert} \subseteq received' \cup unheard'
      BY <1>2, Send2UserKeeps
    <2>5. Safe \cup {pusher[p].alert} \subseteq Safe' BY <1>2, <2>2, <2>4 DEF Safe
    <2> QED BY <1>2, <1>3, <2>1, <2>2, <2>3, <2>4, <2>5, QuietHolds
  <1> QED BY <1>1, <1>4, <1>5 DEF LostInv

LEMMA ListGetHolds ==
  ASSUME LostInv, NEW p \in Pushers, ListGet(p)
  PROVE LostInv'
  <1>1. TypeInv' BY PusherType DEF LostInv, Pusher
  <1>2. /\ pusher[p].at = "listing" /\ overlap' = (overlap \/ ListInUse)
        /\ handler' = handler /\ cached' = cached /\ logged' = logged
        /\ received' = received /\ unheard' = unheard
    BY DEF ListGet
  <1>3. /\ pusher'[p].at = "deleting" /\ pusher'[p].alert = pusher[p].alert
        /\ Elements(pusher'[p].list) = Elements(cached) \cup {pusher[p].alert}
        /\ \A q \in Pushers \ {p} : pusher'[q] = pusher[q]
    BY ListGetMoves DEF LostInv, TypeInv
  <1>4. OwnAlerts' BY <1>2, <1>3, SameAlerts DEF LostInv
  <1>5. ASSUME ~overlap' PROVE Holds'
    <2>1. ~overlap /\ ~ListInUse BY <1>2, <1>5, OverlapGrows DEF ListInUse
    <2>2. PushersAtList = {} /\ HandlersAtList = {} BY <2>1 DEF ListInUse
    <2>3. Holds BY <2>1 DEF LostInv
    <2>4. PushersAtList' = {p} BY <1>3, <2>2 DEF PushersAtList
    <2>5. HandlersAtList' = {} BY <1>2, <2>2 DEF HandlersAtList
    <2>6. Held = {} BY <2>2 DEF Held
    <2>7. Safe \subseteq Safe' BY <1>2, <2>6 DEF Safe
    <2>8. Alone' BY <2>4, <2>5 DEF Alone
    <2>9. PushHolds(p)' BY <1>2, <1>3 DEF PushHolds
    <2>10. \A q \in Pushers \ {p} : PushHolds(q)' BY <1>2, <1>3, <2>3, <2>7 DEF Holds, PushHolds
    <2>11. \A s \in Sessions : HandlerHolds(s)' BY <1>2, <2>3 DEF Holds, HandlerHolds
    <2>12. logged' \subseteq Safe' BY <1>2, <2>3, <2>7 DEF Holds
    <2> QED BY <2>8, <2>9, <2>10, <2>11, <2>12 DEF Holds
  <1> QED BY <1>1, <1>4, <1>5 DEF LostInv

LEMMA DelHolds ==
  ASSUME LostInv, NEW p \in Pushers, Del(p)
  PROVE LostInv'
  <1>1. TypeInv' BY PusherType DEF LostInv, Pusher
  <1>2. /\ pusher[p].at = "deleting" /\ handler' = handler /\ logged' = logged
        /\ received' = received /\ unheard' = unheard /\ overlap' = overlap
    BY DEF Del, history
  <1>3. /\ pusher'[p].at = "adding" /\ pusher'[p].alert = pusher[p].alert /\ pusher'[p].list = pusher[p].list
        /\ \A q \in Pushers \ {p} : pusher'[q] = pusher[q]
    BY DelMoves DEF LostInv, TypeInv
  <1>4. OwnAlerts' BY <1>2, <1>3, SameAlerts DEF LostInv
  <1>5. ASSUME ~overlap' PROVE Holds'
    <2>1. Holds BY <1>2, <1>5 DEF LostInv
    <2>2. PushersAtList = {p} /\ HandlersAtList = {} /\ Held = Elements(pusher[p].list)
      BY <1>2, <2>1, HeldAlone
    <2>3. PushersAtList' = PushersAtList /\ Held' = Held BY <1>2, <1>3, HeldSame
    <2>4. HandlersAtList' = {} BY <1>2, <2>2 DEF HandlersAtList
    <2>5. Elements(pusher[p].list) = Elements(cached) \cup {pusher[p].alert}
      BY <1>2, <2>1 DEF Holds, PushHolds
    <2>6. Safe \subseteq Safe' BY <1>2, <2>2, <2>3, <2>5 DEF Safe
    <2>7. Alone' BY <2>2, <2>3, <2>4 DEF Alone
    <2>8. PushHolds(p)' BY <1>3, <2>5 DEF PushHolds
    <2>9. \A q \in Pushers \ {p} : PushHolds(q)'
      BY <1>3, <2>1, <2>2, <2>6 DEF Holds, PushHolds, PushersAtList
    <2>10. \A s \in Sessions : HandlerHolds(s)' BY <2>4 DEF HandlerHolds, HandlersAtList
    <2>11. logged' \subseteq Safe' BY <1>2, <2>1, <2>6 DEF Holds
    <2> QED BY <2>7, <2>8, <2>9, <2>10, <2>11 DEF Holds
  <1> QED BY <1>1, <1>4, <1>5 DEF LostInv

\* The list has been put back.
LEMMA AddedHolds ==
  ASSUME Holds, TypeOK, NEW p \in Pushers, pusher[p].at = "adding",
         pusher'[p].at \in {"checking", "logging"}, pusher'[p].alert = pusher[p].alert,
         \A q \in Pushers \ {p} : pusher'[q] = pusher[q],
         Elements(cached) \cup Elements(pusher[p].list) \subseteq Elements(cached'),
         handler' = handler, logged' = logged, received' = received, unheard' = unheard
  PROVE Holds'
  <1>1. PushersAtList = {p} /\ HandlersAtList = {} /\ Held = Elements(pusher[p].list)
    BY HeldAlone
  <1>2. PushersAtList' = {} BY <1>1 DEF PushersAtList
  <1>3. HandlersAtList' = {} BY <1>1 DEF HandlersAtList
  <1>4. Safe \subseteq Safe' BY <1>1 DEF Safe
  <1>5. Alone' BY <1>2, <1>3 DEF Alone
  <1>6. PushHolds(p)'
    <2>1. pusher[p].alert \in Elements(cached') BY DEF Holds, PushHolds
    <2> QED BY <2>1 DEF PushHolds, Safe
  <1>7. \A q \in Pushers \ {p} : PushHolds(q)' BY <1>1, <1>4 DEF Holds, PushHolds, PushersAtList
  <1>8. \A s \in Sessions : HandlerHolds(s)' BY <1>3 DEF HandlerHolds, HandlersAtList
  <1>9. logged' \subseteq Safe' BY <1>4 DEF Holds
  <1> QED BY <1>5, <1>6, <1>7, <1>8, <1>9 DEF Holds

LEMMA ListAddAllHolds ==
  ASSUME LostInv, NEW p \in Pushers, ListAddAll(p)
  PROVE LostInv'
  <1>1. TypeInv' BY PusherType DEF LostInv, Pusher
  <1>2. /\ pusher[p].at = "adding" /\ handler' = handler /\ logged' = logged
        /\ received' = received /\ unheard' = unheard /\ overlap' = overlap
    BY DEF ListAddAll
  <1>3. /\ pusher'[p].at = "logging" /\ pusher'[p].alert = pusher[p].alert
        /\ \A q \in Pushers \ {p} : pusher'[q] = pusher[q]
        /\ Elements(cached) \cup Elements(pusher[p].list) \subseteq Elements(cached')
    BY ListAddAllMoves DEF LostInv, TypeInv
  <1>4. OwnAlerts' BY <1>2, <1>3, SameAlerts DEF LostInv
  <1>5. ASSUME ~overlap' PROVE Holds'
    <2>1. Holds /\ TypeOK BY <1>2, <1>5 DEF LostInv, TypeInv
    <2> QED BY <1>2, <1>3, <2>1, AddedHolds
  <1> QED BY <1>1, <1>4, <1>5 DEF LostInv

LEMMA LogPushHolds ==
  ASSUME LostInv, NEW p \in Pushers, LogPush(p)
  PROVE LostInv'
  <1>1. TypeInv' BY PusherType DEF LostInv, Pusher
  <1>2. /\ pusher[p].at = "logging" /\ logged' = logged \cup {pusher[p].alert}
        /\ handler' = handler /\ cached' = cached
        /\ received' = received /\ unheard' = unheard /\ overlap' = overlap
    BY DEF LogPush, history
  <1>3. pusher'[p].at = "idle" /\ \A q \in Pushers \ {p} : pusher'[q] = pusher[q]
    BY DEF LogPush, LostInv, TypeInv, TypeOK, Idle
  <1>4. OwnAlerts' BY <1>2, <1>3 DEF LostInv, OwnAlerts
  <1>5. ASSUME ~overlap' PROVE Holds'
    <2>1. Holds BY <1>2, <1>5 DEF LostInv
    <2>2. PushersAtList' = PushersAtList /\ Held' = Held BY <1>2, <1>3, HeldSame
    <2>3. HandlersAtList' = HandlersAtList BY <1>2 DEF HandlersAtList
    <2>4. Safe' = Safe BY <1>2, <2>2 DEF Safe
    <2>5. pusher[p].alert \in Safe BY <1>2, <2>1 DEF Holds, PushHolds
    <2> QED BY <1>2, <1>3, <2>1, <2>2, <2>3, <2>4, <2>5, QuietHolds
  <1> QED BY <1>1, <1>4, <1>5 DEF LostInv

\* What is logged, and what a push has done for its alert, does not depend on an
\* alert p has in hand.
LEMMA ThrowHolds ==
  ASSUME LostInv, NEW p \in Pushers, Throw(p)
  PROVE LostInv'
  <1>1. TypeInv' BY PusherType DEF LostInv, Pusher
  <1>2. /\ pusher[p].at \in {"sending", "listing", "deleting", "adding", "logging"}
        /\ handler' = handler /\ logged' = logged /\ received' = received /\ unheard' = unheard
    BY DEF Throw
  <1>3. /\ pusher'[p].at = "checking" /\ \A q \in Pushers \ {p} : pusher'[q] = pusher[q]
        /\ \/ cached' = cached
           \/ pusher[p].at = "adding" /\ Elements(cached) \cup Elements(pusher[p].list) \subseteq Elements(cached')
    BY ThrowMoves DEF LostInv, TypeInv
  <1>4. pusher'[p].alert = pusher[p].alert
    <2>1. pusher[p].at # "idle" BY <1>2
    <2>2. pusher[p] \in Pushes BY <2>1, PushAt DEF LostInv, TypeInv
    <2> QED BY <2>2 DEF Throw, LostInv, TypeInv, TypeOK, Pushes
  <1>5. OwnAlerts' BY <1>2, <1>3, <1>4, SameAlerts DEF LostInv
  <1>6. ASSUME ~overlap' PROVE Holds'
    <2>1. /\ ~overlap
          /\ \/ pusher[p].at = "adding" /\ Elements(cached) \cup Elements(pusher[p].list) \subseteq Elements(cached')
             \/ pusher[p].at # "adding" /\ cached' = cached
      <3>1. CASE UNCHANGED <<cached, late>> /\ overlap' = (overlap \/ pusher[p].at = "adding")
        <4>1. ~overlap /\ pusher[p].at # "adding" BY <1>6, <3>1, OverlapGrows
        <4> QED BY <3>1, <4>1
      <3>2. CASE pusher[p].at = "adding" /\ cached' = RightPushAll(pusher[p].list) /\ UNCHANGED overlap
        <4>1. pusher[p].list \in Seq(Alerts) /\ cached \in Seq(Alerts)
          BY <3>2, PushAt DEF LostInv, TypeInv, TypeOK, Pushes
        <4>2. Elements(cached) \cup Elements(pusher[p].list) \subseteq Elements(cached \o pusher[p].list)
          BY <4>1, ConcatElements
        <4> QED BY <1>6, <3>2, <4>2 DEF RightPushAll
      <3> QED BY <3>1, <3>2 DEF Throw
    <2>2. Holds /\ TypeOK BY <2>1 DEF LostInv, TypeInv
    <2>3. CASE pusher[p].at = "adding"
      BY <1>2, <1>3, <1>4, <2>1, <2>2, <2>3, AddedHolds
    <2>4. CASE pusher[p].at \in {"sending", "listing", "logging"}
      <3>1. PushersAtList' = PushersAtList /\ Held' = Held BY <1>3, <2>4, HeldSame
      <3>2. HandlersAtList' = HandlersAtList BY <1>2 DEF HandlersAtList
      <3>3. cached' = cached BY <2>1, <2>4
      <3>4. Safe' = Safe BY <1>2, <3>1, <3>3 DEF Safe
      <3> QED BY <1>2, <1>3, <2>2, <3>1, <3>2, <3>3, <3>4, QuietHolds
    <2>5. CASE pusher[p].at = "deleting"
      <3>1. cached' = cached BY <2>1, <2>5
      <3>2. PushersAtList = {p} /\ HandlersAtList = {} /\ Held = Elements(pusher[p].list)
        BY <2>2, <2>5, HeldAlone
      <3>3. Elements(pusher[p].list) = Elements(cached) \cup {pusher[p].alert}
        BY <2>2, <2>5 DEF Holds, PushHolds
      <3>4. Safe \ {pusher[p].alert} \subseteq Safe' BY <1>2, <3>1, <3>2, <3>3 DEF Safe
      <3>5. PushersAtList' = {} BY <1>3, <3>2 DEF PushersAtList
      <3>6. HandlersAtList' = {} BY <1>2, <3>2 DEF HandlersAtList
      <3>7. /\ pusher[p].alert \notin logged
            /\ \A q \in Pushers \ {p} : pusher[q].at # "idle" => pusher[q].alert # pusher[p].alert
        BY <2>5 DEF LostInv, OwnAlerts
      <3>8. Alone' BY <3>5, <3>6 DEF Alone
      <3>9. PushHolds(p)' BY <1>3 DEF PushHolds
      <3>10. \A q \in Pushers \ {p} : PushHolds(q)'
        BY <1>3, <2>2, <3>2, <3>4, <3>7 DEF Holds, PushHolds, PushersAtList
      <3>11. \A s \in Sessions : HandlerHolds(s)' BY <3>6 DEF HandlerHolds, HandlersAtList
      <3>12. logged' \subseteq Safe' BY <1>2, <2>2, <3>4, <3>7 DEF Holds
      <3> QED BY <3>8, <3>9, <3>10, <3>11, <3>12 DEF Holds
    <2> QED BY <1>2, <2>3, <2>4, <2>5
  <1> QED BY <1>1, <1>5, <1>6 DEF LostInv

LEMMA CrashHolds ==
  ASSUME LostInv, Crash
  PROVE LostInv'
  <1>1. TypeInv' BY CrashType DEF LostInv
  <1>2. /\ \A p \in Pushers : pusher'[p].at = "idle"
        /\ \A s \in Sessions : handler'[s].at = "idle"
        /\ cached' = cached /\ logged' = logged /\ received' = received /\ unheard' = unheard
        /\ overlap' = (overlap \/ \E p \in Pushers : pusher[p].at = "adding")
    BY DEF Crash, Idle
  <1>3. OwnAlerts' BY <1>2 DEF OwnAlerts
  <1>4. ASSUME ~overlap' PROVE Holds'
    <2>1. ~overlap /\ ~\E p \in Pushers : pusher[p].at = "adding" BY <1>2, <1>4, OverlapGrows
    <2>2. Holds BY <2>1 DEF LostInv
    <2>3. logged \subseteq received \cup unheard \cup Elements(cached)
      <3> SUFFICES ASSUME NEW a \in logged, a \in Held PROVE a \in Elements(cached)
        BY <2>2 DEF Holds, Safe
      <3>1. PICK p \in PushersAtList : a \in Elements(pusher[p].list) BY DEF Held
      <3>2. p \in Pushers /\ pusher[p].at = "deleting" BY <2>1 DEF PushersAtList
      <3>3. a \in Elements(cached) \cup {pusher[p].alert} BY <2>2, <3>1, <3>2 DEF Holds, PushHolds
      <3>4. pusher[p].alert \notin logged BY <3>2 DEF LostInv, OwnAlerts
      <3> QED BY <3>3, <3>4
    <2>4. logged' \subseteq Safe' BY <1>2, <2>3 DEF Safe
    <2>5. PushersAtList' = {} /\ HandlersAtList' = {} BY <1>2 DEF PushersAtList, HandlersAtList
    <2>6. Alone' BY <2>5 DEF Alone
    <2>7. \A p \in Pushers : PushHolds(p)' BY <1>2 DEF PushHolds
    <2>8. \A s \in Sessions : HandlerHolds(s)' BY <1>2 DEF HandlerHolds
    <2> QED BY <2>4, <2>6, <2>7, <2>8 DEF Holds
  <1> QED BY <1>1, <1>3, <1>4 DEF LostInv

LEMMA StutterHolds ==
  ASSUME LostInv, UNCHANGED vars
  PROVE LostInv'
  <1>1. TypeInv' BY NextType DEF LostInv
  <1>2. /\ pusher' = pusher /\ handler' = handler /\ cached' = cached /\ logged' = logged
        /\ received' = received /\ unheard' = unheard /\ overlap' = overlap
    BY DEF vars, history
  <1>3. OwnAlerts' BY <1>2, SameAlerts DEF LostInv
  <1>4. ASSUME ~overlap' PROVE Holds'
    <2>1. Holds BY <1>2, <1>4 DEF LostInv
    <2>2. PushersAtList' = PushersAtList /\ Held' = Held BY <1>2, HeldSame
    <2>3. HandlersAtList' = HandlersAtList BY <1>2 DEF HandlersAtList
    <2>4. Safe' = Safe BY <1>2, <2>2 DEF Safe
    <2> QED BY <1>2, <2>1, <2>2, <2>3, <2>4, QuietHolds
  <1> QED BY <1>1, <1>3, <1>4 DEF LostInv

--------------------------------------------------------------------------------
(* The theorem *)

LEMMA InitHolds == Init => LostInv
  <1> SUFFICES ASSUME Init PROVE LostInv OBVIOUS
  <1>1. TypeInv BY InitType
  <1>2. OwnAlerts BY DEF Init, OwnAlerts, Idle
  <1>3. PushersAtList = {} /\ HandlersAtList = {} BY DEF Init, PushersAtList, HandlersAtList, Idle
  <1>4. Alone BY <1>3 DEF Alone
  <1>5. \A p \in Pushers : PushHolds(p) BY DEF Init, PushHolds, Idle
  <1>6. \A s \in Sessions : HandlerHolds(s) BY DEF Init, HandlerHolds, Idle
  <1>7. logged \subseteq Safe BY DEF Init
  <1> QED BY <1>1, <1>2, <1>4, <1>5, <1>6, <1>7 DEF LostInv, Holds

LEMMA NextHolds == LostInv /\ [Next]_vars => LostInv'
  <1> SUFFICES ASSUME LostInv, [Next]_vars PROVE LostInv' OBVIOUS
  <1>1. ASSUME NEW p \in Pushers, Pusher(p) PROVE LostInv'
    BY <1>1, CheckOnLineHolds, SendAlertHolds, ListGetHolds, DelHolds, ListAddAllHolds, LogPushHolds, ThrowHolds
       DEF Pusher
  <1> QED BY <1>1, SessionHolds, HandlerHoldsStep, StartPushHolds, CrashHolds, StutterHolds DEF Next

\* An alert WebSocketHandler has logged is received, cached or about to be, or was
\* sent when no subscription could take it, unless two accesses to the list overlapped.
THEOREM LostCorrect == Spec => []LostHasACause
  <1>1. LostInv => LostHasACause BY DEF LostInv, Holds, Safe, Held, LostHasACause
  <1> QED BY <1>1, InitHolds, NextHolds, PTL DEF Spec

--------------------------------------------------------------------------------
(* Alerts that wait *)

WaitingInv ==
    /\ TypeInv
    /\ ~late =>
        /\ \A s \in Sessions : Open(s) => onLine
        /\ \A s \in Sessions :
             session[s] \in {"subscribing", "subscribed"} /\ handler[s] = Idle => cached = <<>>

LEMMA LateGrows ==
  ASSUME NEW b \in BOOLEAN, late' = (late \/ b), ~late'
  PROVE ~late /\ ~b
  BY Zenon

LEMMA SessionWaiting ==
  ASSUME WaitingInv, NEW s \in Sessions, Session(s) \/ Broker(s)
  PROVE WaitingInv'
  <1>1. TypeInv' BY SessionType DEF WaitingInv
  <1> SUFFICES ASSUME ~late'
               PROVE /\ \A r \in Sessions : Open(r)' => onLine'
                     /\ \A r \in Sessions :
                          session'[r] \in {"subscribing", "subscribed"} /\ handler'[r] = Idle => cached' = <<>>
    BY <1>1 DEF WaitingInv
  <1>2. session \in [Sessions -> {"closed", "connected", "subscribing", "subscribed", "broken"}]
    BY DEF WaitingInv, TypeInv, TypeOK
  <1>3. handler \in [Sessions -> {Idle} \cup Handlings]
    BY DEF WaitingInv, TypeInv, TypeOK, Handlings
  <1>4. CASE Connect(s) BY <1>2, <1>4 DEF Connect, WaitingInv, Open, history
  <1>5. CASE Subscribe(s)
    <2>1. handler'[s] # Idle BY <1>3, <1>5 DEF Subscribe, Idle
    <2>2. \A r \in Sessions \ {s} : handler'[r] = handler[r] BY <1>3, <1>5 DEF Subscribe
    <2> QED BY <1>2, <1>5, <2>1, <2>2 DEF Subscribe, WaitingInv, Open, history
  <1>6. CASE Register(s) BY <1>2, <1>6 DEF Register, WaitingInv, Open, history
  <1>7. CASE Break(s) BY <1>2, <1>7 DEF Break, WaitingInv, Open, history
  <1>8. CASE Disconnect(s)
    <2>1. ~late /\ ~\E other \in Sessions : Open(other)
      BY <1>8, LateGrows DEF Disconnect
    <2>2. \A r \in Sessions : session'[r] = session[r] \/ session'[r] = "closed" BY <1>2, <1>8 DEF Disconnect
    <2> QED BY <1>8, <2>1, <2>2 DEF Disconnect, WaitingInv, Open
  <1> QED BY <1>4, <1>5, <1>6, <1>7, <1>8 DEF Session, Broker

LEMMA HandlerWaiting ==
  ASSUME WaitingInv, NEW s \in Sessions, Handler(s)
  PROVE WaitingInv'
  <1>1. TypeInv' BY HandlerType DEF WaitingInv
  <1> SUFFICES ASSUME ~late'
               PROVE /\ \A r \in Sessions : Open(r)' => onLine'
                     /\ \A r \in Sessions :
                          session'[r] \in {"subscribing", "subscribed"} /\ handler'[r] = Idle => cached' = <<>>
    BY <1>1 DEF WaitingInv
  <1>2. TypeOK /\ handler \in [Sessions -> {Idle} \cup Handlings]
    BY DEF WaitingInv, TypeInv, TypeOK, Handlings
  <1>3. session' = session /\ onLine' = onLine
    BY DEF Handler, ListCached, SendCached, DeleteCached, HandlerThrows, brokerVars
  <1>4. ~late /\ (~late => (\A r \in Sessions : Open(r)' => onLine'))
    BY <1>3 DEF Handler, ListCached, SendCached, DeleteCached, HandlerThrows, Send2User, history, WaitingInv, Open
  <1>5. CASE cached' = <<>> BY <1>4, <1>5
  <1>6. CASE cached' # <<>>
    <2>1. cached' = cached /\ \A r \in Sessions \ {s} : handler'[r] = handler[r]
      BY <1>2, <1>6 DEF Handler, ListCached, SendCached, DeleteCached, HandlerThrows, HandlerAt
    <2>2. handler'[s] # Idle
      <3>1. CASE ListCached(s)
        BY <1>2, <1>6, <2>1, <3>1 DEF ListCached, HandlerAt, Idle
      <3>2. CASE SendCached(s)
        BY <1>2, <3>2 DEF SendCached, HandlerAt, Idle
      <3>3. CASE DeleteCached(s) BY <1>6, <3>3 DEF DeleteCached
      <3>4. CASE HandlerThrows(s) BY <3>4 DEF HandlerThrows
      <3> QED BY <3>1, <3>2, <3>3, <3>4 DEF Handler
    <2> QED BY <1>3, <1>4, <2>1, <2>2 DEF WaitingInv
  <1> QED BY <1>5, <1>6

LEMMA PusherWaiting ==
  ASSUME WaitingInv, NEW p \in Pushers, Pusher(p)
  PROVE WaitingInv'
  <1>1. TypeInv' BY PusherType DEF WaitingInv
  <1> SUFFICES ASSUME ~late'
               PROVE /\ \A r \in Sessions : Open(r)' => onLine'
                     /\ \A r \in Sessions :
                          session'[r] \in {"subscribing", "subscribed"} /\ handler'[r] = Idle => cached' = <<>>
    BY <1>1 DEF WaitingInv
  <1>2. session' = session /\ onLine' = onLine /\ handler' = handler
    BY DEF Pusher, CheckOnLine, SendAlert, ListGet, Del, ListAddAll, LogPush, Throw, brokerVars
  <1>3. \/ late' = late /\ (cached' = cached \/ cached' = <<>>)
        \/ late' = (late \/ onLine)
    BY DEF Pusher, CheckOnLine, SendAlert, Send2User, ListGet, Del, ListAddAll, LogPush, Throw, history
  <1>4. CASE late' = late /\ (cached' = cached \/ cached' = <<>>)
    BY <1>2, <1>4 DEF WaitingInv, Open
  <1>5. CASE late' = (late \/ onLine)
    <2>1. onLine \in BOOLEAN BY DEF WaitingInv, TypeInv, TypeOK
    <2>2. ~late /\ ~onLine BY <1>5, <2>1, LateGrows
    <2>3. \A r \in Sessions : ~Open(r) BY <2>2 DEF WaitingInv
    <2> QED BY <1>2, <2>3 DEF Open
  <1> QED BY <1>3, <1>4, <1>5

LEMMA NextWaiting == WaitingInv /\ [Next]_vars => WaitingInv'
  <1> SUFFICES ASSUME WaitingInv, [Next]_vars PROVE WaitingInv' OBVIOUS
  <1>1. TypeInv' BY NextType DEF WaitingInv
  <1>2. ASSUME NEW p \in Pushers, NEW a \in Alerts, StartPush(p, a) PROVE WaitingInv'
    BY <1>1, <1>2 DEF StartPush, WaitingInv, brokerVars, history, Open
  <1>3. CASE Crash BY <1>1, <1>3 DEF Crash, WaitingInv, Open
  <1>4. CASE UNCHANGED vars BY <1>1, <1>4 DEF vars, WaitingInv, brokerVars, history, Open
  <1> QED BY <1>2, <1>3, <1>4, SessionWaiting, HandlerWaiting, PusherWaiting DEF Next

\* Alerts wait behind a handled subscription only when one of three things went wrong.
THEOREM WaitingCorrect == Spec => []WaitingHasACause
  <1>1. Init => WaitingInv
    BY InitType DEF Init, WaitingInv, Open
  <1>2. WaitingInv => WaitingHasACause BY DEF WaitingInv, WaitingHasACause
  <1> QED BY <1>1, <1>2, NextWaiting, PTL DEF Spec

--------------------------------------------------------------------------------
(* Alerts the list holds once *)

Calm == ~overlap /\ faultsLeft = MaxFaults
Distinct(list) == \A m, n \in DOMAIN list : list[m] = list[n] => m = n

\* Alerts that are in the list, or were: their pushes are over, or all but logged.
Stored == logged \cup {pusher[p].alert : p \in {q \in Pushers : pusher[q].at = "logging"}}

ListOnce(p) ==
    pusher[p].at \in {"deleting", "adding"} =>
        /\ Distinct(pusher[p].list)
        /\ Elements(pusher[p].list) \subseteq Stored \cup {pusher[p].alert}
        /\ pusher[p].at = "adding" => cached = <<>>

Once ==
    /\ Distinct(cached) /\ Elements(cached) \subseteq Stored
    /\ \A p \in Pushers : ListOnce(p)

OnceInv == LostInv /\ (Calm => Once)

LEMMA DistinctAppend ==
  ASSUME NEW S, NEW list \in Seq(S), NEW a \in S, Distinct(list), a \notin Elements(list)
  PROVE Distinct(Append(list, a))
  <1>1. /\ Append(list, a) \in Seq(S)
        /\ Len(Append(list, a)) = Len(list) + 1
        /\ \A n \in 1..Len(list) : Append(list, a)[n] = list[n]
        /\ Append(list, a)[Len(list) + 1] = a
    BY AppendProperties
  <1>2. DOMAIN Append(list, a) = 1..(Len(list) + 1) /\ DOMAIN list = 1..Len(list) /\ Len(list) \in Nat
    BY <1>1, LenProperties
  <1>3. \A n \in 1..Len(list) : list[n] # a
    BY <1>2 DEF Elements
  <1> SUFFICES ASSUME NEW m \in 1..(Len(list) + 1), NEW n \in 1..(Len(list) + 1),
                      Append(list, a)[m] = Append(list, a)[n]
               PROVE m = n
    BY <1>2 DEF Distinct
  <1>4. CASE m \in 1..Len(list) /\ n \in 1..Len(list)
    BY <1>1, <1>2, <1>4 DEF Distinct
  <1>5. CASE m = Len(list) + 1 \/ n = Len(list) + 1
    <2>1. ASSUME NEW k \in 1..(Len(list) + 1), Append(list, a)[k] = a PROVE k = Len(list) + 1
      <3>1. k \in 1..Len(list) => Append(list, a)[k] # a BY <1>1, <1>3
      <3> QED BY <1>2, <2>1, <3>1
    <2> QED BY <1>1, <1>5, <2>1
  <1> QED BY <1>2, <1>4, <1>5

LEMMA NoFault ==
  ASSUME TypeOK, Fault
  PROVE ~Calm'
  <1>1. faultsLeft \in 0..MaxFaults /\ MaxFaults \in Nat /\ faultsLeft' = faultsLeft - 1
    BY AlertsAssumption DEF TypeOK, Fault
  <1>2. faultsLeft' # MaxFaults BY <1>1
  <1> QED BY <1>2 DEF Calm

\* A step that adds nothing to the list.
LEMMA QuietOnce ==
  ASSUME Once, Stored \subseteq Stored', cached' = cached \/ cached' = <<>>,
         \A p \in Pushers : pusher'[p] = pusher[p] \/ pusher'[p].at \notin {"deleting", "adding"}
  PROVE Once'
  <1>1. Distinct(<<>>) BY DEF Distinct
  <1>2. Distinct(cached') /\ Elements(cached') \subseteq Stored'
    BY <1>1, EmptyElements DEF Once
  <1>3. \A p \in Pushers : ListOnce(p)' BY DEF Once, ListOnce
  <1> QED BY <1>2, <1>3 DEF Once

LEMMA NextOnce == OnceInv /\ [Next]_vars => OnceInv'
  <1> SUFFICES ASSUME OnceInv, [Next]_vars, Calm' PROVE Once'
    BY NextHolds DEF OnceInv
  <1>1. LostInv /\ TypeOK /\ OwnAlerts /\ LostInv'
    BY NextHolds DEF OnceInv, LostInv, TypeInv
  <1>2. ASSUME ~overlap, faultsLeft' = faultsLeft PROVE Once /\ Holds
    BY <1>1, <1>2 DEF OnceInv, Calm, LostInv
  <1>3. CASE UNCHANGED vars
    <2>1. overlap' = overlap /\ faultsLeft' = faultsLeft /\ pusher' = pusher /\ cached' = cached /\ logged' = logged
      BY <1>3 DEF vars, history
    <2>2. Stored' = Stored BY <2>1 DEF Stored
    <2> QED BY <1>2, <2>1, <2>2, QuietOnce DEF Calm
  <1>4. ASSUME NEW s \in Sessions, Session(s) \/ Broker(s) PROVE Once'
    <2>1. overlap' = overlap /\ faultsLeft' = faultsLeft /\ pusher' = pusher /\ cached' = cached /\ logged' = logged
      BY <1>4 DEF Session, Broker, Connect, Subscribe, Break, Register, Disconnect, history
    <2>2. Stored' = Stored BY <2>1 DEF Stored
    <2> QED BY <1>2, <2>1, <2>2, QuietOnce DEF Calm
  <1>5. ASSUME NEW s \in Sessions, Handler(s) PROVE Once'
    <2>1. ~HandlerThrows(s) BY <1>1, NoFault DEF HandlerThrows
    <2>2. ~overlap
      BY <1>5, <2>1, OverlapGrows DEF Handler, ListCached, SendCached, DeleteCached, Send2User, history, ListInUse, Calm
    <2>3. faultsLeft' = faultsLeft /\ pusher' = pusher /\ logged' = logged /\ (cached' = cached \/ cached' = <<>>)
      BY <1>5, <2>1 DEF Handler, ListCached, SendCached, DeleteCached, history
    <2>4. Stored' = Stored BY <2>3 DEF Stored
    <2> QED BY <1>2, <2>2, <2>3, <2>4, QuietOnce
  <1>6. ASSUME NEW p \in Pushers, NEW a \in Alerts, StartPush(p, a) PROVE Once'
    <2>1. /\ overlap' = overlap /\ faultsLeft' = faultsLeft /\ cached' = cached /\ logged' = logged
          /\ pusher[p].at = "idle"
      BY <1>6 DEF StartPush, history, Idle
    <2>2. pusher'[p].at = "checking" /\ \A q \in Pushers \ {p} : pusher'[q] = pusher[q]
      BY <1>1, <1>6, StartPushType DEF LostInv
    <2>3. Stored' = Stored BY <2>1, <2>2 DEF Stored
    <2> QED BY <1>2, <2>1, <2>2, <2>3, QuietOnce DEF Calm
  <1>7. ASSUME NEW p \in Pushers, Pusher(p) PROVE Once'
    <2>1. CASE CheckOnLine(p)
      <3>1. /\ overlap' = overlap /\ faultsLeft' = faultsLeft /\ cached' = cached /\ logged' = logged
            /\ pusher[p].at = "checking"
        BY <2>1 DEF CheckOnLine, history
      <3>2. pusher'[p].at \in {"sending", "listing"} /\ \A q \in Pushers \ {p} : pusher'[q] = pusher[q]
        BY <1>1, <2>1, CheckOnLineMoves
      <3>3. Stored \subseteq Stored' BY <3>1, <3>2 DEF Stored
      <3> QED BY <1>2, <3>1, <3>2, <3>3, QuietOnce DEF Calm
    <2>2. CASE SendAlert(p)
      <3>1. /\ overlap' = overlap /\ faultsLeft' = faultsLeft /\ cached' = cached /\ logged' = logged
            /\ pusher[p].at = "sending"
        BY <2>2 DEF SendAlert, Send2User
      <3>2. pusher'[p].at = "logging" /\ \A q \in Pushers \ {p} : pusher'[q] = pusher[q]
        BY <1>1, <2>2, SendAlertMoves
      <3>3. Stored \subseteq Stored' BY <3>1, <3>2 DEF Stored
      <3> QED BY <1>2, <3>1, <3>2, <3>3, QuietOnce DEF Calm
    <2>3. CASE ListGet(p)
      <3>1. /\ overlap' = (overlap \/ ListInUse) /\ faultsLeft' = faultsLeft /\ cached' = cached /\ logged' = logged
            /\ pusher[p].at = "listing" /\ pusher[p].at # "idle"
        BY <2>3 DEF ListGet
      <3>2. ~overlap BY <3>1, OverlapGrows DEF Calm, ListInUse
      <3>3. Once BY <1>2, <3>1, <3>2
      <3>4. /\ pusher'[p].at = "deleting" /\ pusher'[p].alert = pusher[p].alert
            /\ Elements(pusher'[p].list) = Elements(cached) \cup {pusher[p].alert}
            /\ \A q \in Pushers \ {p} : pusher'[q] = pusher[q]
        BY <1>1, <2>3, ListGetMoves
      <3>5. Stored \subseteq Stored' BY <3>1, <3>4 DEF Stored
      <3>6. pusher[p].alert \notin Stored BY <1>1, <3>1 DEF OwnAlerts, Stored
      <3>7. pusher[p].alert \in Alerts /\ cached \in Seq(Alerts) BY <1>1, <3>1, PushAt DEF Pushes, TypeOK
      <3>8. Distinct(Append(cached, pusher[p].alert)) BY <3>3, <3>6, <3>7, DistinctAppend DEF Once
      <3>9. pusher'[p].list = Append(cached, pusher[p].alert)
        <4>1. pusher[p] \in Pushes BY <1>1, <3>1, PushAt
        <4> QED BY <1>1, <2>3, <4>1 DEF ListGet, TypeOK, Pushes
      <3>10. ListOnce(p)' BY <3>3, <3>4, <3>5, <3>8, <3>9 DEF Once, ListOnce
      <3>11. \A q \in Pushers \ {p} : ListOnce(q)' BY <3>1, <3>3, <3>4, <3>5 DEF Once, ListOnce
      <3>12. Distinct(cached') /\ Elements(cached') \subseteq Stored' BY <3>1, <3>3, <3>5 DEF Once
      <3> QED BY <3>10, <3>11, <3>12 DEF Once
    <2>4. CASE Del(p)
      <3>1. /\ overlap' = overlap /\ faultsLeft' = faultsLeft /\ cached' = <<>> /\ logged' = logged
            /\ pusher[p].at = "deleting"
        BY <2>4 DEF Del, history
      <3>2. Once BY <1>2, <3>1 DEF Calm
      <3>3. /\ pusher'[p].at = "adding" /\ pusher'[p].alert = pusher[p].alert /\ pusher'[p].list = pusher[p].list
            /\ \A q \in Pushers \ {p} : pusher'[q] = pusher[q]
        BY <1>1, <2>4, DelMoves
      <3>4. Stored \subseteq Stored' BY <3>1, <3>3 DEF Stored
      <3>5. \A q \in Pushers : ListOnce(q)' BY <3>1, <3>2, <3>3, <3>4 DEF Once, ListOnce
      <3>6. Distinct(<<>>) BY DEF Distinct
      <3>7. Distinct(cached') /\ Elements(cached') \subseteq Stored' BY <3>1, <3>6, EmptyElements
      <3> QED BY <3>5, <3>7 DEF Once
    <2>5. CASE ListAddAll(p)
      <3>1. /\ overlap' = overlap /\ faultsLeft' = faultsLeft /\ logged' = logged
            /\ pusher[p].at = "adding" /\ cached' = cached \o pusher[p].list
        BY <2>5 DEF ListAddAll, RightPushAll
      <3>2. Once /\ Holds BY <1>2, <3>1 DEF Calm
      <3>3. /\ pusher'[p].at = "logging" /\ pusher'[p].alert = pusher[p].alert
            /\ \A q \in Pushers \ {p} : pusher'[q] = pusher[q]
        BY <1>1, <2>5, ListAddAllMoves
      <3>4. Stored \cup {pusher[p].alert} \subseteq Stored' BY <3>1, <3>3 DEF Stored
      <3>5. pusher[p].list \in Seq(Alerts) BY <1>1, <3>1, PushAt DEF Pushes
      <3>6. cached = <<>> /\ Distinct(pusher[p].list) /\ Elements(pusher[p].list) \subseteq Stored \cup {pusher[p].alert}
        BY <3>1, <3>2 DEF Once, ListOnce
      <3>7. cached' = pusher[p].list BY <3>1, <3>5, <3>6, ConcatEmptySeq
      <3>8. Distinct(cached') /\ Elements(cached') \subseteq Stored' BY <3>4, <3>6, <3>7
      <3>9. PushersAtList = {p} BY <3>1, <3>2, HeldAlone
      <3>10. \A q \in Pushers : pusher'[q].at \notin {"deleting", "adding"}
        BY <3>3, <3>9 DEF PushersAtList
      <3>11. \A q \in Pushers : ListOnce(q)' BY <3>10 DEF ListOnce
      <3> QED BY <3>8, <3>11 DEF Once
    <2>6. CASE LogPush(p)
      <3>1. /\ overlap' = overlap /\ faultsLeft' = faultsLeft /\ cached' = cached
            /\ logged' = logged \cup {pusher[p].alert}
        BY <2>6 DEF LogPush, history
      <3>2. pusher'[p].at = "idle" /\ \A q \in Pushers \ {p} : pusher'[q] = pusher[q]
        BY <1>1, <2>6 DEF LogPush, TypeOK, Idle
      <3>3. Stored \subseteq Stored' BY <3>1, <3>2 DEF Stored
      <3> QED BY <1>2, <3>1, <3>2, <3>3, QuietOnce DEF Calm
    <2>7. ~Throw(p) BY <1>1, NoFault DEF Throw
    <2> QED BY <1>7, <2>1, <2>2, <2>3, <2>4, <2>5, <2>6, <2>7 DEF Pusher
  <1>8. ~Crash BY <1>1, NoFault DEF Crash
  <1> QED BY <1>3, <1>4, <1>5, <1>6, <1>7, <1>8 DEF Next

\* The Redis list holds an alert once, as long as accesses do not overlap and nothing
\* throws or crashes.
THEOREM OnceCorrect == Spec => []CachedOnce
  <1>1. Init => OnceInv
    <2> SUFFICES ASSUME Init PROVE OnceInv OBVIOUS
    <2>1. cached = <<>> /\ \A p \in Pushers : pusher[p].at = "idle" BY DEF Init, Idle
    <2>2. Distinct(<<>>) BY DEF Distinct
    <2> QED BY <2>1, <2>2, InitHolds, EmptyElements DEF OnceInv, Once, ListOnce
  <1>2. OnceInv => CachedOnce BY DEF OnceInv, Once, Calm, Distinct, CachedOnce
  <1> QED BY <1>1, <1>2, NextOnce, PTL DEF Spec

================================================================================
