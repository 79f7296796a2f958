-------------------------- MODULE ExecutorReceipts --------------------------
(***************************************************************************)
(* The schedules of the checkpoint, the occurrences that are due at a      *)
(* moment, and the receipts the background executor keeps about them.      *)
(* A receipt list is the executor's only memory: an occurrence whose       *)
(* terminal receipt is in the list is skipped, any other one is run.       *)
(***************************************************************************)
EXTENDS Naturals, FiniteSets, SequencesExt

CONSTANTS
    Schedules,      \* schedule identifiers, numbers because they break ties
    Cadence,        \* Cadence[s]: [at |-> first due time, every |-> period, 0 for ONCE]
    MaxJobs,        \* most occurrences of one batch
    MaxReceipts,    \* most receipts the checkpoint keeps
    MaxAttempts,    \* attempts of one occurrence
    RetryBackoff    \* RetryBackoff[n]: the wait after the n-th failed attempt

ASSUME ExecutorAssumption ==
    /\ Schedules \subseteq Nat /\ IsFiniteSet(Schedules)
    /\ Cadence \in [Schedules -> [at: Nat, every: Nat]]
    /\ MaxJobs \in Nat /\ MaxReceipts \in Nat /\ MaxAttempts \in Nat
    /\ MaxJobs <= MaxReceipts
    /\ \A n \in 1..MaxAttempts : RetryBackoff[n] \in Nat

Terminal == {"SUCCEEDED", "BLOCKED"}

ReceiptStates == Terminal \cup {"FAILED"}

Occurrence == Schedules \X Nat

Receipt == [of: Occurrence, state: ReceiptStates, retry: Nat]

(* The latest time at or before t at which s fell due.                     *)
PreviousDue(s, t) ==
    IF Cadence[s].every = 0 THEN Cadence[s].at
    ELSE Cadence[s].at + ((t - Cadence[s].at) \div Cadence[s].every) * Cadence[s].every

(* Nothing in the program ever sets last_due_at, so a schedule stays due   *)
(* from its first due time on: a ONCE schedule for ever, a recurring one   *)
(* with its latest occurrence.                                             *)
DueAt(t) == {<<s, PreviousDue(s, t)>> : s \in {u \in Schedules : Cadence[u].at <= t}}

Earlier(o, p) == o[2] < p[2] \/ (o[2] = p[2] /\ o[1] < p[1])

(* The batch is cut before the receipts are looked at.                     *)
Batch(t) == {o \in DueAt(t) : Cardinality({p \in DueAt(t) : Earlier(p, o)}) < MaxJobs}

ReceiptsOf(rs, o) == SelectSeq(rs, LAMBDA r : r.of = o)

Settled(rs, o) == \E i \in DOMAIN rs : rs[i].of = o /\ rs[i].state \in Terminal

Failures(rs, o) == Cardinality({i \in DOMAIN rs : rs[i].of = o})

(* Terminal receipt, exhausted attempts, backoff: the three ways to skip.  *)
Runnable(rs, o, t) ==
    /\ ~Settled(rs, o)
    /\ Failures(rs, o) < MaxAttempts
    /\ Failures(rs, o) > 0 => Last(ReceiptsOf(rs, o)).retry <= t

ToRun(rs, t) == {o \in Batch(t) : Runnable(rs, o, t)}

NewReceipt(rs, o, outcome, t) ==
    [of |-> o, state |-> outcome,
     retry |-> IF outcome = "FAILED" /\ Failures(rs, o) + 1 < MaxAttempts
               THEN t + RetryBackoff[Failures(rs, o) + 1] ELSE 0]

Newest(rs) == IF Len(rs) > MaxReceipts
              THEN SubSeq(rs, Len(rs) - MaxReceipts + 1, Len(rs)) ELSE rs

InOrder(S) == CHOOSE q \in SetToSeqs(S) : \A i, j \in DOMAIN q : i < j => Earlier(q[i], q[j])

(* The list after a batch whose occurrences ended as `outcome` says.       *)
AfterBatch(rs, outcome, t) ==
    LET order == InOrder(DOMAIN outcome)
    IN  Newest(rs \o [i \in DOMAIN order |->
                          NewReceipt(rs, order[i], outcome[order[i]], t)])
=============================================================================
