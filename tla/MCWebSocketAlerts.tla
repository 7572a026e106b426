--------------------------- MODULE MCWebSocketAlerts ---------------------------
(* Alerts, threads and sessions are interchangeable. *)
EXTENDS WebSocketAlerts, TLC

Symmetry == Permutations(Alerts) \cup Permutations(Pushers) \cup Permutations(Sessions)

================================================================================
