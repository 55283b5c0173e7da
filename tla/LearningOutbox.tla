--------------------------- MODULE LearningOutbox --------------------------
(***************************************************************************)
(* What the learning sync promises about each take the phone learned from, *)
(* whatever fails between the phone and the PC: the phone gives a take up  *)
(* as shipped only when the PC holds it, the PC holds it once and for      *)
(* good, and a take that has left the outbox never comes back.             *)
(***************************************************************************)
CONSTANTS Take      \* the takes the phone learns from

VARIABLES
    held,       \* Take -> what the phone does with it
    stored      \* the takes the PC holds, with audio and digest

outboxVars == <<held, stored>>

Held == {"none", "captured", "synced", "evicted"}

OutboxInit ==
    /\ held = [t \in Take |-> "none"]
    /\ stored = {}

(* The phone learns from a take. *)
Capture(t) ==
    /\ held[t] = "none"
    /\ held' = [held EXCEPT ![t] = "captured"]
    /\ UNCHANGED stored

(* The PC takes a learning in; it cannot know of one the phone never had. *)
Store(t) ==
    /\ held[t] # "none" /\ t \notin stored
    /\ stored' = stored \cup {t}
    /\ UNCHANGED held

(* The phone is told that the PC has it. *)
Ship(t) ==
    /\ held[t] # "none" /\ t \in stored
    /\ held' = [held EXCEPT ![t] = "synced"]
    /\ UNCHANGED stored

(* The phone makes room: this take will not be shipped again. *)
GiveUp(t) ==
    /\ held[t] # "none"
    /\ held' = [held EXCEPT ![t] = "evicted"]
    /\ UNCHANGED stored

OutboxNext == \E t \in Take : Capture(t) \/ Store(t) \/ Ship(t) \/ GiveUp(t)

OutboxSpec == OutboxInit /\ [][OutboxNext]_outboxVars

=============================================================================
