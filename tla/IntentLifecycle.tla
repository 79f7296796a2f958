-------------------------- MODULE IntentLifecycle --------------------------
(***************************************************************************)
(* What the outbox promises of an intent to those who queue one: its       *)
(* effect happens at most once, only while the intent is ambiguous, and    *)
(* "confirmed" and "refused" tell the truth for ever.  Several intents may *)
(* move in one step.                                                       *)
(***************************************************************************)
EXTENDS Naturals

CONSTANT Intents

VARIABLES phase, happened

lvars == <<phase, happened>>

Phases == {"absent", "queued", "retry", "ambiguous", "confirmed", "refused"}

LifecycleTypeOK ==
    /\ phase \in [Intents -> Phases]
    /\ happened \in [Intents -> {0, 1}]

LifecycleInit ==
    /\ phase = [k \in Intents |-> "absent"]
    /\ happened = [k \in Intents |-> 0]

(* The moves of one intent from phase p and count h to phase q and count i. *)
Moves(p, h, q, i) ==
    \/ p = "absent" /\ q = "queued" /\ i = h
    \/ p = "queued" /\ q \in {"retry", "refused"} /\ i = h
    \/ p = "retry" /\ q = "queued" /\ i = h
    \/ p = "queued" /\ q = "ambiguous" /\ h = 0 /\ i = 0
    \/ p = "ambiguous" /\ q = "ambiguous" /\ h = 0 /\ i = 1
    \/ p = "ambiguous" /\ q = "confirmed" /\ h = 1 /\ i = 1
    \/ p = "ambiguous" /\ q \in {"retry", "refused"} /\ h = 0 /\ i = 0
    \/ p = q /\ i = h

LifecycleNext ==
    /\ phase' \in [Intents -> Phases]
    /\ happened' \in [Intents -> {0, 1}]
    /\ \A k \in Intents : Moves(phase[k], happened[k], phase'[k], happened'[k])

LifecycleSpec == LifecycleInit /\ [][LifecycleNext]_lvars
=============================================================================
