----------------------------- MODULE MCEventBus -----------------------------
(* Small instances of EventBus for TLC. *)
EXTENDS EventBus, TLC

CONSTANTS s1, s2, y1, y2

WithAsync  == s1 :> "channel" @@ s2 :> "async"
WithSync   == s1 :> "channel" @@ s2 :> "sync"
Ranks      == [s \in Subs |-> IF s = s1 THEN 0 ELSE -50]
OneTyped   == [s \in Subs |-> IF s = s1 THEN {y1} ELSE {}]
=============================================================================
