------------------------------ MODULE OnceOnly ------------------------------
(***************************************************************************)
(* What a host is promised of a mutating call: it takes effect at most     *)
(* once, an acknowledged effect is there to stay, and an answer that the   *)
(* service cannot vouch for is reported as such.  Nothing is said here of  *)
(* envelopes, epochs, receipts or connections: Retry implements it.        *)
(***************************************************************************)
EXTENDS Naturals

CONSTANTS
    Calls       \* the mutating calls a host makes

VARIABLES
    told,       \* what the host knows of a call
    effect,     \* how often a call shows in the store
    kept        \* calls whose effect has become durable, now or earlier

Outcomes == {"success", "refused", "failed", "unknown"}

Init ==
    /\ told = [k \in Calls |-> "nothing"]
    /\ effect = [k \in Calls |-> 0]
    /\ kept = {}

Ask(k) ==
    /\ told[k] = "nothing"
    /\ told' = [told EXCEPT ![k] = "asked"]
    /\ UNCHANGED <<effect, kept>>

\* The effect may come after the host has given up waiting for it.
TakeEffect(k) ==
    /\ told[k] \notin {"nothing", "success"}
    /\ effect[k] = 0
    /\ effect' = [effect EXCEPT ![k] = 1]
    /\ UNCHANGED <<told, kept>>

\* Commits reach the disk.
Harden(S) ==
    /\ \A k \in S : effect[k] = 1
    /\ kept' = kept \cup S
    /\ UNCHANGED <<told, effect>>

Answer(k, outcome) ==
    /\ told[k] = "asked"
    /\ outcome = "success" => k \in kept
    /\ told' = [told EXCEPT ![k] = outcome]
    /\ UNCHANGED <<effect, kept>>

\* A power failure takes back what has not become durable.
Lose(S) ==
    /\ S \cap kept = {}
    /\ effect' = [k \in Calls |-> IF k \in S THEN 0 ELSE effect[k]]
    /\ UNCHANGED <<told, kept>>

\* A restore replaces the store, durably, and what it held.
Replace ==
    /\ kept' = kept \cup {k \in Calls : effect[k] = 1}
    /\ effect' = [k \in Calls |-> 0]
    /\ UNCHANGED told

Next ==
    \/ \E k \in Calls : Ask(k) \/ TakeEffect(k)
    \/ \E k \in Calls, outcome \in Outcomes : Answer(k, outcome)
    \/ \E S \in SUBSET Calls : Harden(S) \/ Lose(S)
    \/ Replace

Spec == Init /\ [][Next]_<<told, effect, kept>>
=============================================================================
