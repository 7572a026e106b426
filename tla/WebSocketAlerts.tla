---------------------------- MODULE WebSocketAlerts ----------------------------
(***************************************************************************)
(* The alerts one user gets over WebSocket.  A push sends an alert when the *)
(* user is online and caches it in a Redis list when not; a subscription    *)
(* sends the cached alerts and deletes the list.  Each call to Redis is a   *)
(* step of its own, and nothing keeps two of them apart.                    *)
(***************************************************************************)
EXTENDS Naturals, Sequences, FiniteSets

CONSTANTS
    Alerts,     \* alerts pushed to the user
    Pushers,    \* threads that push them
    Sessions,   \* the user's browser sessions
    MaxFaults   \* bound: calls that throw, fewer than the three attempts, and crashes

ASSUME AlertsAssumption == MaxFaults \in 0..2

VARIABLES
    session,     \* session[s]: how far the broker is with s
    onLine,      \* onLineUsers contains the user
    cached,      \* the Redis list
    pusher,      \* pusher[p]: pushMsg of WebSocketHandler on thread p
    handler,     \* handler[s]: webSocketSubscribe for session s
    logged,      \* alerts the send log says were pushed
    received,    \* history: alerts that reached a browser
    unheard,     \* history: alerts sent only when no subscription could take them
    overlap,     \* history: an access to the list began during another one, or ended
                 \* between its delete and its push
    late,        \* history: an alert was cached when the user was online again, the user
                 \* went offline with another session open, or a subscription failed
    faultsLeft   \* calls that may throw, and crashes, to come

brokerVars == <<session, onLine>>
history == <<received, unheard, overlap, late>>
vars == <<brokerVars, cached, pusher, handler, logged, history, faultsLeft>>

Idle == [at |-> "idle"]

TypeOK ==
    /\ session \in [Sessions -> {"closed", "connected", "subscribing", "subscribed", "broken"}]
    /\ onLine \in BOOLEAN
    /\ cached \in Seq(Alerts)
    /\ pusher \in [Pushers -> {Idle} \cup [at : {"checking", "sending", "listing", "deleting", "adding", "logging"},
                                          alert : Alerts, list : Seq(Alerts)]]
    /\ handler \in [Sessions -> {Idle} \cup [at : {"listing", "sending", "deleting"}, list : Seq(Alerts)]]
    /\ logged \subseteq Alerts /\ received \subseteq Alerts /\ unheard \subseteq Alerts
    /\ overlap \in BOOLEAN /\ late \in BOOLEAN
    /\ faultsLeft \in 0..MaxFaults

Init ==
    /\ session = [s \in Sessions |-> "closed"] /\ onLine = FALSE
    /\ cached = <<>>
    /\ pusher = [p \in Pushers |-> Idle]
    /\ handler = [s \in Sessions |-> Idle]
    /\ logged = {} /\ received = {} /\ unheard = {}
    /\ overlap = FALSE /\ late = FALSE
    /\ faultsLeft = MaxFaults

Elements(list) == {list[n] : n \in DOMAIN list}

\* Accesses that have read the list and will still delete or replace it.
PushersAtList == {p \in Pushers : pusher[p].at \in {"deleting", "adding"}}
HandlersAtList == {s \in Sessions : handler[s].at \in {"sending", "deleting"}}
ListInUse == PushersAtList \cup HandlersAtList # {}

\* send2User: the broker passes the alert to the sessions whose subscription it has.
Send2User(a) ==
    /\ IF \E s \in Sessions : session[s] = "subscribed"
       THEN received' = received \cup {a} /\ unheard' = unheard \ {a}
       ELSE unheard' = unheard \cup ({a} \ received) /\ UNCHANGED received
    /\ UNCHANGED <<overlap, late>>

Fault == faultsLeft > 0 /\ faultsLeft' = faultsLeft - 1

--------------------------------------------------------------------------------
(* Sessions *)

\* connectionEstablished.  A new session is not given the name of one whose
\* subscription is still being handled.
Connect(s) ==
    /\ session[s] = "closed" /\ handler[s] = Idle
    /\ session' = [session EXCEPT ![s] = "connected"]
    /\ onLine' = TRUE
    /\ UNCHANGED <<cached, pusher, handler, logged, history, faultsLeft>>

\* SUBSCRIBE is handed to the broker's executor and the event is published.
Subscribe(s) ==
    /\ session[s] = "connected"
    /\ session' = [session EXCEPT ![s] = "subscribing"]
    /\ handler' = [handler EXCEPT ![s] = [at |-> "listing", list |-> <<>>]]
    /\ UNCHANGED <<onLine, cached, pusher, logged, history, faultsLeft>>

\* The executor registers the subscription.
Register(s) ==
    /\ session[s] = "subscribing"
    /\ session' = [session EXCEPT ![s] = "subscribed"]
    /\ UNCHANGED <<onLine, cached, pusher, handler, logged, history, faultsLeft>>

\* The browser is gone, and the server does not know it yet.
Break(s) ==
    /\ session[s] \in {"connected", "subscribing", "subscribed"}
    /\ session' = [session EXCEPT ![s] = "broken"]
    /\ UNCHANGED <<onLine, cached, pusher, handler, logged, history, faultsLeft>>

Open(s) == session[s] \in {"connected", "subscribing", "subscribed"}

\* webSocketDisconnect.
Disconnect(s) ==
    /\ session[s] = "broken"
    /\ session' = [session EXCEPT ![s] = "closed"]
    /\ onLine' = FALSE
    /\ late' = (late \/ \E other \in Sessions : Open(other))
    /\ UNCHANGED <<cached, pusher, handler, logged, received, unheard, overlap, faultsLeft>>

--------------------------------------------------------------------------------
(* webSocketSubscribe *)

HandlerAt(s, stage, list) == handler' = [handler EXCEPT ![s] = [at |-> stage, list |-> list]]

ListCached(s) ==
    /\ handler[s].at = "listing"
    /\ IF cached = <<>>
       THEN handler' = [handler EXCEPT ![s] = Idle] /\ UNCHANGED overlap
       ELSE HandlerAt(s, "sending", cached) /\ overlap' = (overlap \/ ListInUse)
    /\ UNCHANGED <<brokerVars, cached, pusher, logged, received, unheard, late, faultsLeft>>

SendCached(s) ==
    /\ handler[s].at = "sending"
    /\ Send2User(Head(handler[s].list))
    /\ LET rest == Tail(handler[s].list)
       IN HandlerAt(s, IF rest = <<>> THEN "deleting" ELSE "sending", rest)
    /\ UNCHANGED <<brokerVars, cached, pusher, logged, faultsLeft>>

\* Mutant: the list stays, for the next subscription to send again.
DeleteCachedForgotten(s) ==
    /\ handler[s].at = "deleting"
    /\ handler' = [handler EXCEPT ![s] = Idle]
    /\ UNCHANGED <<brokerVars, cached, pusher, logged, history, faultsLeft>>

DeleteCached(s) ==
    /\ handler[s].at = "deleting"
    /\ cached' = <<>>
    /\ handler' = [handler EXCEPT ![s] = Idle]
    /\ UNCHANGED <<brokerVars, pusher, logged, history, faultsLeft>>

\* A call throws; the alerts stay in the list, those that were sent as well.
HandlerThrows(s) ==
    /\ handler[s].at \in {"listing", "sending", "deleting"}
    /\ Fault
    /\ handler' = [handler EXCEPT ![s] = Idle]
    /\ late' = TRUE
    /\ UNCHANGED <<brokerVars, cached, pusher, logged, received, unheard, overlap>>

--------------------------------------------------------------------------------
(* pushMsg, the alert branch *)

PusherAt(p, stage) == pusher' = [pusher EXCEPT ![p].at = stage]

Taken == logged \cup {pusher[p].alert : p \in {q \in Pushers : pusher[q] # Idle}}

StartPush(p, a) ==
    /\ pusher[p] = Idle /\ a \notin Taken
    /\ pusher' = [pusher EXCEPT ![p] = [at |-> "checking", alert |-> a, list |-> <<>>]]
    /\ UNCHANGED <<brokerVars, cached, handler, logged, history, faultsLeft>>

CheckOnLine(p) ==
    /\ pusher[p].at = "checking"
    /\ PusherAt(p, IF onLine THEN "sending" ELSE "listing")
    /\ UNCHANGED <<brokerVars, cached, handler, logged, history, faultsLeft>>

SendAlert(p) ==
    /\ pusher[p].at = "sending"
    /\ Send2User(pusher[p].alert)
    /\ PusherAt(p, "logging")
    /\ UNCHANGED <<brokerVars, cached, handler, logged, faultsLeft>>

\* Mutant: the alert is put alone.
ListGetEmpty(p) ==
    /\ pusher[p].at = "listing"
    /\ pusher' = [pusher EXCEPT ![p].at = "deleting", ![p].list = <<pusher[p].alert>>]
    /\ overlap' = (overlap \/ ListInUse)
    /\ UNCHANGED <<brokerVars, cached, handler, logged, received, unheard, late, faultsLeft>>

ListGet(p) ==
    /\ pusher[p].at = "listing"
    /\ pusher' = [pusher EXCEPT ![p].at = "deleting", ![p].list = Append(cached, pusher[p].alert)]
    /\ overlap' = (overlap \/ ListInUse)
    /\ UNCHANGED <<brokerVars, cached, handler, logged, received, unheard, late, faultsLeft>>

\* Mutant: the old list is not deleted before the new one is pushed.
DelForgotten(p) ==
    /\ pusher[p].at = "deleting"
    /\ PusherAt(p, "adding")
    /\ UNCHANGED <<brokerVars, cached, handler, logged, history, faultsLeft>>

Del(p) ==
    /\ pusher[p].at = "deleting"
    /\ cached' = <<>>
    /\ PusherAt(p, "adding")
    /\ UNCHANGED <<brokerVars, handler, logged, history, faultsLeft>>

\* Mutant: the list is pushed as one element.
PushAllAsOne(list) == Append(cached, list)

RightPushAll(list) == cached \o list

ListAddAll(p) ==
    /\ pusher[p].at = "adding"
    /\ cached' = RightPushAll(pusher[p].list)
    /\ late' = (late \/ onLine)
    /\ pusher' = [pusher EXCEPT ![p].at = "logging", ![p].list = <<>>]
    /\ UNCHANGED <<brokerVars, handler, logged, received, unheard, overlap, faultsLeft>>

LogPush(p) ==
    /\ pusher[p].at = "logging"
    /\ logged' = logged \cup {pusher[p].alert}
    /\ pusher' = [pusher EXCEPT ![p] = Idle]
    /\ UNCHANGED <<brokerVars, cached, handler, history, faultsLeft>>

\* A call throws, the push of the list perhaps after Redis took it, and pushMsg
\* is tried again from its beginning.
Throw(p) ==
    /\ pusher[p].at \in {"sending", "listing", "deleting", "adding", "logging"}
    /\ Fault
    /\ pusher' = [pusher EXCEPT ![p].at = "checking", ![p].list = <<>>]
    /\ \/ UNCHANGED <<cached, late>> /\ overlap' = (overlap \/ pusher[p].at = "adding")
       \/ /\ pusher[p].at = "adding"
          /\ cached' = RightPushAll(pusher[p].list)
          /\ late' = (late \/ onLine)
          /\ UNCHANGED overlap
    /\ UNCHANGED <<brokerVars, handler, logged, received, unheard>>

\* The service stops: its memory and its connections are gone, Redis stays.
Crash ==
    /\ Fault
    /\ session' = [s \in Sessions |-> "closed"] /\ onLine' = FALSE
    /\ pusher' = [p \in Pushers |-> Idle]
    /\ handler' = [s \in Sessions |-> Idle]
    /\ overlap' = (overlap \/ \E p \in Pushers : pusher[p].at = "adding")
    /\ UNCHANGED <<cached, logged, received, unheard, late>>

--------------------------------------------------------------------------------
Session(s) == Connect(s) \/ Subscribe(s) \/ Break(s)
Broker(s) == Register(s) \/ Disconnect(s)
Handler(s) == ListCached(s) \/ SendCached(s) \/ DeleteCached(s) \/ HandlerThrows(s)
Pusher(p) ==
    CheckOnLine(p) \/ SendAlert(p) \/ ListGet(p) \/ Del(p) \/ ListAddAll(p) \/ LogPush(p) \/ Throw(p)

Next ==
    \/ \E s \in Sessions : Session(s) \/ Broker(s) \/ Handler(s)
    \/ \E p \in Pushers : (\E a \in Alerts : StartPush(p, a)) \/ Pusher(p)
    \/ Crash

Spec == Init /\ [][Next]_vars

--------------------------------------------------------------------------------
(* Properties *)

\* An alert the log says was pushed has reached a browser, or is cached, or is in
\* the hands of an access that will put it back, or was sent when no subscription
\* could take it; unless two accesses to the list overlapped or one was cut short.
LostHasACause ==
    ~overlap => \A a \in logged :
        a \in received \cup unheard \cup Elements(cached) \cup UNION {Elements(pusher[p].list) : p \in PushersAtList}

\* Without overlapping accesses, exceptions and crashes, after which a push begins
\* again, the list holds an alert once.
CachedOnce ==
    ~overlap /\ faultsLeft = MaxFaults =>
        \A m, n \in DOMAIN cached : cached[m] = cached[n] => m = n

\* Alerts wait in the list behind a subscription that has been handled only when the
\* push that cached them found the user offline and came late, when the end of
\* another session had taken the user off the set of those online, or when the
\* handling of a subscription failed.
WaitingHasACause ==
    cached # <<>> /\ (\E s \in Sessions : session[s] = "subscribed" /\ handler[s] = Idle) => late

================================================================================
