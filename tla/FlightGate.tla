----------------------------- MODULE FlightGate -----------------------------
(***************************************************************************)
(* What run_coalesced promises its callers, with no maps, objects, locks   *)
(* or tasks: for each key at most one leader runs the body, a call made    *)
(* while it runs leaves a mark, and a marked leader runs the body again    *)
(* before it steps down.  A call can be aborted: a key whose leader was     *)
(* never has another, and only marks are left on it.                       *)
(***************************************************************************)
CONSTANTS Keys, Runners, None,
          Gone    \* the leader of a key whose leader was aborted

VARIABLES
    asking,   \* key -> calls that have been made and not yet decided
    leader,   \* key -> the call that runs the body, Gone or None
    again     \* key -> whether the leader owes a follow-up run

vars == <<asking, leader, again>>

Init ==
    /\ asking = [k \in Keys |-> {}]
    /\ leader = [k \in Keys |-> None]
    /\ again = [k \in Keys |-> FALSE]

Ask(r, k) ==
    /\ \A j \in Keys : r \notin asking[j] /\ leader[j] # r
    /\ asking' = [asking EXCEPT ![k] = @ \cup {r}]
    /\ UNCHANGED <<leader, again>>

Lead(r, k) ==
    /\ r \in asking[k]
    /\ leader[k] = None
    /\ asking' = [asking EXCEPT ![k] = @ \ {r}]
    /\ leader' = [leader EXCEPT ![k] = r]
    /\ UNCHANGED again

Join(r, k) ==
    /\ r \in asking[k]
    /\ leader[k] # None
    /\ asking' = [asking EXCEPT ![k] = @ \ {r}]
    /\ again' = [again EXCEPT ![k] = TRUE]
    /\ UNCHANGED leader

Rerun(k) ==
    /\ leader[k] \in Runners
    /\ again[k]
    /\ again' = [again EXCEPT ![k] = FALSE]
    /\ UNCHANGED <<asking, leader>>

StepDown(k) ==
    /\ leader[k] \in Runners
    /\ ~again[k]
    /\ leader' = [leader EXCEPT ![k] = None]
    /\ UNCHANGED <<asking, again>>

\* A call is aborted before it is decided.
Withdraw(r, k) ==
    /\ r \in asking[k]
    /\ asking' = [asking EXCEPT ![k] = @ \ {r}]
    /\ UNCHANGED <<leader, again>>

\* A leader is aborted in its body.
Vanish(k) ==
    /\ leader[k] \in Runners
    /\ leader' = [leader EXCEPT ![k] = Gone]
    /\ UNCHANGED <<asking, again>>

Next ==
    \E k \in Keys :
        \/ \E r \in Runners :
            Ask(r, k) \/ Lead(r, k) \/ Join(r, k) \/ Withdraw(r, k)
        \/ Rerun(k)
        \/ StepDown(k)
        \/ Vanish(k)

Spec == Init /\ [][Next]_vars
=============================================================================
