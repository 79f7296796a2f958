------------------------- MODULE CheckpointRegister -------------------------
(***************************************************************************)
(* What optimistic concurrency promises: a register whose value is only    *)
(* ever replaced by a client that read the value it replaces.  No write    *)
(* is lost under another one, however reads and writes interleave.         *)
(***************************************************************************)
EXTENDS Naturals

CONSTANTS
    Clients,
    Values,     \* what the register may hold
    Nothing     \* a client that holds no copy

VARIABLES
    value,
    version,
    held        \* held[c]: the copy and version c works from, or Nothing

cvars == <<value, version, held>>

Current == [value |-> value, version |-> version]

RInit ==
    /\ value \in Values
    /\ version \in Nat
    /\ held = [c \in Clients |-> Nothing]

Read(c) ==
    /\ held' = [held EXCEPT ![c] = Current]
    /\ UNCHANGED <<value, version>>

Forget(c) ==
    /\ held' = [held EXCEPT ![c] = Nothing]
    /\ UNCHANGED <<value, version>>

(* The writer goes on from what it wrote, or is done.                      *)
Replace(c) ==
    /\ held[c] = Current
    /\ value' \in Values
    /\ version' = version + 1
    /\ \/ held' = [held EXCEPT ![c] = [value |-> value', version |-> version']]
       \/ held' = [held EXCEPT ![c] = Nothing]

RNext == \E c \in Clients : Read(c) \/ Forget(c) \/ Replace(c)

RSpec == RInit /\ [][RNext]_cvars
=============================================================================
