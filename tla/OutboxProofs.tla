---------------------------- MODULE OutboxProofs ----------------------------
(***************************************************************************)
(* Proofs about the execution outbox: what holds whatever the callers do,  *)
(* and what holds when they keep the discipline.                           *)
(***************************************************************************)
EXTENDS ExecutionOutbox, FiniteSetTheorems, TLAPS

LEMMA UnclaimedType ==
    ASSUME NEW r \in OutboxRow, NEW s \in STATES
    PROVE  Unclaimed(r, s) \in OutboxRow /\ Unclaimed(r, s).state = s
  BY DEF Unclaimed, OutboxRow

(* A row that is set to another state loses its claim.                     *)
LEMMA SetStateFacts ==
    ASSUME row \in [Intents -> OutboxRow], NEW k \in Intents, NEW s \in STATES
    PROVE  /\ SetState(k, s) \in [Intents -> OutboxRow]
           /\ SetState(k, s)[k].state = s
           /\ \A j \in Intents : j # k => SetState(k, s)[j] = row[j]
  BY UnclaimedType DEF SetState

(* What releasing the expired claims leaves of a row.                      *)
LEMMA ReleasedFacts ==
    ASSUME row \in [Intents -> OutboxRow]
    PROVE  /\ Released \in [Intents -> OutboxRow]
           /\ \A k \in Intents :
                  \/ Released[k] = row[k] /\ ~ClaimExpired(row[k])
                  \/ ClaimExpired(row[k]) /\ Released[k].state = "RETRY"
  BY UnclaimedType DEF Released, STATES

-----------------------------------------------------------------------------
(* The calls in progress.                                                  *)
LEMMA RunFields ==
    ASSUME NEW v \in Run
    PROVE  /\ v # Idle /\ v.key \in Intents
           /\ v.pc \in {"authorize", "record", "send", "answer"}
           /\ v.pc # "answer" => v.at \in Nat
           /\ v.pc = "answer" => v.answer \in Answers /\ v.ref \in Nat
  BY IdleAssumption DEF Run

LEMMA EarlyRunMade ==
    ASSUME NEW k \in Intents, NEW at \in Nat, NEW pc \in {"authorize", "record", "send"}
    PROVE  LET v == [key |-> k, at |-> at, pc |-> pc]
           IN  v \in Run /\ v # Idle /\ v.key = k /\ v.pc = pc
  BY IdleAssumption DEF Run

LEMMA AnsweredRunMade ==
    ASSUME NEW k \in Intents, NEW a \in Answers, NEW ref \in Nat
    PROVE  LET v == [key |-> k, pc |-> "answer", answer |-> a, ref |-> ref]
           IN  v \in Run /\ v # Idle /\ v.key = k /\ v.pc = "answer" /\ v.answer = a /\ v.ref = ref
  BY IdleAssumption DEF Run

LEMMA RunMoved ==
    ASSUME NEW v \in Run, v.pc # "answer", NEW pc \in {"record", "send"}
    PROVE  LET u == [v EXCEPT !.pc = pc]
           IN  u \in Run /\ u # Idle /\ u.key = v.key /\ u.pc = pc
  <1>1. v \in [key: Intents, at: Nat, pc: {"authorize", "record", "send"}]
    BY DEF Run
  <1>2. [v EXCEPT !.pc = pc] = [key |-> v.key, at |-> v.at, pc |-> pc]
    BY <1>1
  <1>3. v.key \in Intents /\ v.at \in Nat /\ pc \in {"authorize", "record", "send"}
    BY <1>1
  <1>. DEFINE u == [v EXCEPT !.pc = pc]
  <1>4. u = [key |-> v.key, at |-> v.at, pc |-> pc]
    BY <1>2
  <1>. HIDE DEF u
  <1>5. u \in Run /\ u # Idle /\ u.key = v.key /\ u.pc = pc
    BY <1>3, <1>4, EarlyRunMade
  <1>. QED
    BY <1>5 DEF u

LEMMA InquiryFields ==
    ASSUME NEW c \in Inquiry
    PROVE  /\ c # Idle /\ c.key \in Intents /\ c.at \in Nat
           /\ c.found \in BOOLEAN /\ c.ref \in Nat
  BY IdleAssumption DEF Inquiry

LEMMA InquiryMade ==
    ASSUME NEW k \in Intents, NEW at \in Nat, NEW found \in BOOLEAN, NEW ref \in Nat
    PROVE  LET c == [key |-> k, at |-> at, found |-> found, ref |-> ref]
           IN  c \in Inquiry /\ c # Idle /\ c.key = k /\ c.found = found /\ c.ref = ref
  BY IdleAssumption DEF Inquiry

LEMMA TypeFacts ==
    ASSUME OutboxTypeOK
    PROVE  /\ row \in [Intents -> OutboxRow]
           /\ queued \in [Intents -> [at: Nat, seq: Nat]]
           /\ ledger \in [Intents -> Nat] /\ effects \in [Intents -> Nat]
           /\ run \in [Workers -> Run \cup {Idle}]
           /\ inquiry \in [Operators -> Inquiry \cup {Idle}]
           /\ now \in Nat /\ manners \in Manners
  BY DEF OutboxTypeOK

(* What a worker, or an operator, that is at work holds.                   *)
LEMMA WorkerAt ==
    ASSUME OutboxTypeOK, NEW w \in Workers, run[w] # Idle
    PROVE  run[w] \in Run
  BY TypeFacts

LEMMA OperatorAt ==
    ASSUME OutboxTypeOK, NEW p \in Operators, inquiry[p] # Idle
    PROVE  inquiry[p] \in Inquiry
  BY TypeFacts

-----------------------------------------------------------------------------
(* Whatever the callers do.  References come from effects that happened.   *)
LedgerInv ==
    /\ OutboxTypeOK
    /\ LedgerIsTruthful
    /\ \A w \in Workers : run[w] # Idle /\ run[w].pc = "answer" =>
           /\ run[w].ref <= effects[run[w].key]
           /\ run[w].answer = "CONFIRMED" => run[w].ref > 0
    /\ \A p \in Operators : inquiry[p] # Idle =>
           /\ inquiry[p].ref <= effects[inquiry[p].key]
           /\ inquiry[p].found => inquiry[p].ref > 0

LedgerKept == \A k \in Intents : ledger[k] > 0 => ledger'[k] = ledger[k]

(* The parts of a step that the invariant looks at.                        *)
RowsTruthful ==
    /\ row' \in [Intents -> OutboxRow] /\ ledger' \in [Intents -> Nat]
    /\ \A k \in Intents :
           /\ ledger'[k] <= effects'[k]
           /\ row'[k].state = "CONFIRMED" => ledger'[k] > 0

RunTruthful(v) == v # Idle /\ v.pc = "answer" =>
    /\ v.ref <= effects'[v.key]
    /\ v.answer = "CONFIRMED" => v.ref > 0

LEMMA LedgerStep ==
    ASSUME LedgerInv, RowsTruthful,
           effects' \in [Intents -> Nat], \A k \in Intents : effects[k] <= effects'[k],
           \/ run' = run
           \/ \E w \in Workers, v \in Run \cup {Idle} :
                  run' = [run EXCEPT ![w] = v] /\ RunTruthful(v),
           \/ inquiry' = inquiry
           \/ \E p \in Operators, c \in Inquiry \cup {Idle} :
                  /\ inquiry' = [inquiry EXCEPT ![p] = c]
                  /\ c # Idle => c.ref <= effects'[c.key] /\ (c.found => c.ref > 0),
           queued' \in [Intents -> [at: Nat, seq: Nat]], now' \in Nat, manners' = manners
    PROVE  LedgerInv'
  <1>0. OutboxTypeOK
    BY DEF LedgerInv
  <1>1. run' \in [Workers -> Run \cup {Idle}]
    BY <1>0, TypeFacts
  <1>2. inquiry' \in [Operators -> Inquiry \cup {Idle}]
    BY <1>0, TypeFacts
  <1>3. OutboxTypeOK'
    BY <1>0, <1>1, <1>2, TypeFacts DEF OutboxTypeOK, RowsTruthful
  <1>4. LedgerIsTruthful'
    BY DEF LedgerIsTruthful, RowsTruthful
  <1>5. ASSUME NEW w \in Workers
        PROVE  RunTruthful(run'[w])
    <2>1. CASE run'[w] = run[w]
      <3>. SUFFICES ASSUME run[w] # Idle, run[w].pc = "answer"
                    PROVE  /\ run[w].ref <= effects'[run[w].key]
                           /\ run[w].answer = "CONFIRMED" => run[w].ref > 0
        BY <2>1 DEF RunTruthful
      <3>1. run[w].key \in Intents /\ run[w].ref \in Nat
        BY <1>0, WorkerAt, RunFields
      <3>2. /\ run[w].ref <= effects[run[w].key]
            /\ run[w].answer = "CONFIRMED" => run[w].ref > 0
        BY DEF LedgerInv
      <3>3. effects[run[w].key] <= effects'[run[w].key]
        BY <3>1
      <3>4. effects[run[w].key] \in Nat /\ effects'[run[w].key] \in Nat
        BY <1>0, <3>1, TypeFacts
      <3>. QED
        BY <3>1, <3>2, <3>3, <3>4
    <2>2. CASE run'[w] # run[w]
      BY <1>0, <2>2, TypeFacts
    <2>. QED
      BY <2>1, <2>2
  <1>6. ASSUME NEW p \in Operators, inquiry'[p] # Idle
        PROVE  /\ inquiry'[p].ref <= effects'[inquiry'[p].key]
               /\ inquiry'[p].found => inquiry'[p].ref > 0
    <2>1. CASE inquiry'[p] = inquiry[p]
      <3>1. inquiry[p].key \in Intents /\ inquiry[p].ref \in Nat
        BY <1>0, <1>6, <2>1, OperatorAt, InquiryFields
      <3>2. /\ inquiry[p].ref <= effects[inquiry[p].key]
            /\ inquiry[p].found => inquiry[p].ref > 0
        BY <1>6, <2>1 DEF LedgerInv
      <3>3. effects[inquiry[p].key] <= effects'[inquiry[p].key]
        BY <3>1
      <3>4. effects[inquiry[p].key] \in Nat /\ effects'[inquiry[p].key] \in Nat
        BY <1>0, <3>1, TypeFacts
      <3>. QED
        BY <2>1, <3>1, <3>2, <3>3, <3>4
    <2>2. CASE inquiry'[p] # inquiry[p]
      BY <1>0, <1>6, <2>2, TypeFacts
    <2>. QED
      BY <2>1, <2>2
  <1>. QED
    BY <1>3, <1>4, <1>5, <1>6 DEF LedgerInv, RunTruthful

(* Rows that change without becoming CONFIRMED, the ledger left alone.     *)
LEMMA RowsChange ==
    ASSUME LedgerInv, row' \in [Intents -> OutboxRow], ledger' = ledger,
           effects' \in [Intents -> Nat], \A k \in Intents : effects[k] <= effects'[k],
           \A k \in Intents : row'[k] = row[k] \/ row'[k].state # "CONFIRMED"
    PROVE  RowsTruthful /\ LedgerKept
  <1>1. \A k \in Intents : ledger[k] \in Nat /\ effects[k] \in Nat /\ effects'[k] \in Nat
    BY TypeFacts DEF LedgerInv
  <1>2. \A k \in Intents : ledger[k] <= effects'[k]
    BY <1>1 DEF LedgerInv, LedgerIsTruthful
  <1>3. \A k \in Intents : row'[k].state = "CONFIRMED" => ledger[k] > 0
    BY DEF LedgerInv, LedgerIsTruthful
  <1>4. ledger' \in [Intents -> Nat]
    BY TypeFacts DEF LedgerInv
  <1>. QED
    BY <1>2, <1>3, <1>4 DEF RowsTruthful, LedgerKept

(* _confirm with a reference of an effect that happened.                   *)
LEMMA ConfirmIsTruthful ==
    ASSUME LedgerInv, NEW k \in Intents, NEW ref \in Nat,
           ref > 0, ref <= effects[k], Confirm(k, ref), effects' = effects
    PROVE  RowsTruthful /\ LedgerKept
  <1>0. /\ row \in [Intents -> OutboxRow] /\ ledger \in [Intents -> Nat]
        /\ effects \in [Intents -> Nat]
    BY TypeFacts DEF LedgerInv
  <1>1. CASE ledger[k] \in {0, ref}
    <2>1. ledger' = [ledger EXCEPT ![k] = ref] /\ row' = SetState(k, "CONFIRMED")
      BY <1>1 DEF Confirm
    <2>2. /\ row' \in [Intents -> OutboxRow]
          /\ \A j \in Intents : j # k => row'[j] = row[j]
      BY <1>0, <2>1, SetStateFacts DEF STATES
    <2>3. \A j \in Intents : ledger'[j] = IF j = k THEN ref ELSE ledger[j]
      BY <1>0, <2>1
    <2>4. \A j \in Intents : ledger[j] <= effects[j] /\ (row[j].state = "CONFIRMED" => ledger[j] > 0)
      BY DEF LedgerInv, LedgerIsTruthful
    <2>5. ledger' \in [Intents -> Nat]
      BY <1>0, <2>1
    <2>6. RowsTruthful
      BY <2>2, <2>3, <2>4, <2>5 DEF RowsTruthful
    <2>7. LedgerKept
      BY <1>0, <1>1, <2>3 DEF LedgerKept
    <2>. QED
      BY <2>6, <2>7
  <1>2. CASE ledger[k] \notin {0, ref}
    <2>1. ledger' = ledger /\ row' = row
      BY <1>2 DEF Confirm
    <2>. QED
      BY <1>0, <2>1 DEF LedgerInv, LedgerIsTruthful, RowsTruthful, LedgerKept
  <1>. QED
    BY <1>1, <1>2

(* Every action.                                                           *)
LEMMA LedgerActions ==
    ASSUME LedgerInv, OutboxNext
    PROVE  LedgerInv' /\ LedgerKept
  <1>0. /\ row \in [Intents -> OutboxRow] /\ ledger \in [Intents -> Nat]
        /\ queued \in [Intents -> [at: Nat, seq: Nat]]
        /\ effects \in [Intents -> Nat] /\ now \in Nat
        /\ \A k \in Intents : effects[k] <= effects[k]
        /\ OutboxTypeOK
    <2>1. effects \in [Intents -> Nat]
      BY TypeFacts DEF LedgerInv
    <2>2. \A k \in Intents : effects[k] <= effects[k]
      BY <2>1
    <2>. QED
      BY <2>2, TypeFacts DEF LedgerInv
  <1>1. ASSUME NEW k \in Intents, Enqueue(k)
        PROVE  LedgerInv' /\ LedgerKept
    <2>. DEFINE n == Cardinality({j \in Enqueued : Aggregate[j] = Aggregate[k]}) + 1
                q == [at |-> now, seq |-> n]
    <2>1. n \in Nat
      <3>1. IsFiniteSet({j \in Enqueued : Aggregate[j] = Aggregate[k]})
        BY OutboxAssumption, FS_Subset DEF Enqueued
      <3>. QED
        BY <3>1, FS_CardinalityType
    <2>2. queued' = [queued EXCEPT ![k] = q]
      BY <1>1 DEF Enqueue
    <2>. HIDE DEF n
    <2>3. q \in [at: Nat, seq: Nat]
      BY <1>0, <2>1
    <2>. HIDE DEF q
    <2>4. queued' \in [Intents -> [at: Nat, seq: Nat]]
      BY <1>0, <2>2, <2>3
    <2>5. /\ row' = SetState(k, "PENDING") /\ ledger' = ledger /\ run' = run
          /\ inquiry' = inquiry /\ effects' = effects /\ now' = now /\ manners' = manners
      BY <1>1 DEF Enqueue
    <2>6. /\ row' \in [Intents -> OutboxRow]
          /\ \A j \in Intents : row'[j] = row[j] \/ row'[j].state # "CONFIRMED"
      BY <1>0, <2>5, SetStateFacts DEF STATES
    <2>7. RowsTruthful /\ LedgerKept
      BY <1>0, <2>5, <2>6, RowsChange
    <2>. QED
      BY <1>0, <2>4, <2>5, <2>7, LedgerStep
  <1>2. CASE ReleaseExpiredClaims
    <2>1. /\ row' = Released /\ ledger' = ledger /\ run' = run /\ queued' = queued
          /\ inquiry' = inquiry /\ effects' = effects /\ now' = now /\ manners' = manners
      BY <1>2 DEF ReleaseExpiredClaims
    <2>2. RowsTruthful /\ LedgerKept
      BY <1>0, <2>1, ReleasedFacts, RowsChange
    <2>. QED
      BY <1>0, <2>1, <2>2, LedgerStep
  <1>3. ASSUME NEW w \in Workers, WorkerStep(w)
        PROVE  LedgerInv' /\ LedgerKept
    <2>1. CASE ClaimNext(w)
      <3>1. PICK k \in Intents :
                row' = [Released EXCEPT ![k] =
                          [state |-> "CLAIMED", owner |-> w, until |-> now + LeaseSeconds,
                           attempts |-> Released[k].attempts + 1]]
        BY <2>1 DEF ClaimNext
      <3>2. /\ ledger' = ledger /\ run' = run /\ queued' = queued
            /\ inquiry' = inquiry /\ effects' = effects /\ now' = now /\ manners' = manners
        BY <2>1 DEF ClaimNext
      <3>. DEFINE r == [state |-> "CLAIMED", owner |-> w, until |-> now + LeaseSeconds,
                        attempts |-> Released[k].attempts + 1]
      <3>3. Released \in [Intents -> OutboxRow]
        BY <1>0, ReleasedFacts
      <3>4. r \in OutboxRow /\ r.state = "CLAIMED"
        <4>1. Released[k].attempts + 1 \in Nat /\ now + LeaseSeconds \in Nat
          BY <1>0, <3>3, OutboxAssumption DEF OutboxRow
        <4>. QED
          BY <4>1 DEF OutboxRow, STATES
      <3>5. row' = [Released EXCEPT ![k] = r]
        BY <3>1
      <3>. HIDE DEF r
      <3>6. /\ row' \in [Intents -> OutboxRow]
            /\ \A j \in Intents : row'[j] = row[j] \/ row'[j].state # "CONFIRMED"
        BY <1>0, <3>3, <3>4, <3>5, ReleasedFacts
      <3>7. RowsTruthful /\ LedgerKept
        BY <1>0, <3>2, <3>6, RowsChange
      <3>. QED
        BY <1>0, <3>2, <3>7, LedgerStep
    <2>2. ASSUME NEW k \in Intents, BeginDispatch(w, k)
          PROVE  LedgerInv' /\ LedgerKept
      <3>. DEFINE v == [key |-> k, at |-> now, pc |-> "authorize"]
      <3>1. /\ run' = [run EXCEPT ![w] = v] /\ row' = row /\ ledger' = ledger /\ queued' = queued
            /\ inquiry' = inquiry /\ effects' = effects /\ now' = now /\ manners' = manners
        BY <2>2 DEF BeginDispatch
      <3>2. v \in Run /\ v.pc = "authorize"
        BY <1>0, EarlyRunMade
      <3>. HIDE DEF v
      <3>3. RunTruthful(v)
        BY <3>2 DEF RunTruthful
      <3>4. RowsTruthful /\ LedgerKept
        BY <1>0, <3>1, RowsChange
      <3>. QED
        BY <1>0, <3>1, <3>2, <3>3, <3>4, LedgerStep
    <2>3. CASE AuthorizeDispatch(w)
      <3>1. run[w] \in Run /\ run[w].pc = "authorize"
        BY <1>0, <2>3, WorkerAt DEF AuthorizeDispatch, At
      <3>. DEFINE v == [run[w] EXCEPT !.pc = "record"]
      <3>2. /\ run' = [run EXCEPT ![w] = v] /\ row' = row /\ ledger' = ledger /\ queued' = queued
            /\ inquiry' = inquiry /\ effects' = effects /\ now' = now /\ manners' = manners
        BY <2>3 DEF AuthorizeDispatch
      <3>3. v \in Run /\ v.pc = "record"
        BY <3>1, RunMoved
      <3>. HIDE DEF v
      <3>4. RunTruthful(v)
        BY <3>3 DEF RunTruthful
      <3>5. RowsTruthful /\ LedgerKept
        BY <1>0, <3>2, RowsChange
      <3>. QED
        BY <1>0, <3>2, <3>3, <3>4, <3>5, LedgerStep
    <2>4. CASE RefuseDispatch(w)
      <3>1. run[w] \in Run
        BY <1>0, <2>4, WorkerAt DEF RefuseDispatch, At
      <3>2. PICK s \in Blocked : row' = SetState(run[w].key, s)
        BY <2>4 DEF RefuseDispatch, Refusals, Blocked
      <3>3. /\ run' = [run EXCEPT ![w] = Idle] /\ ledger' = ledger /\ queued' = queued
            /\ inquiry' = inquiry /\ effects' = effects /\ now' = now /\ manners' = manners
        BY <2>4 DEF RefuseDispatch
      <3>4. s \in STATES /\ s # "CONFIRMED" /\ run[w].key \in Intents
        BY <3>1, RunFields DEF Blocked, STATES
      <3>5. /\ row' \in [Intents -> OutboxRow]
            /\ \A j \in Intents : row'[j] = row[j] \/ row'[j].state # "CONFIRMED"
        BY <1>0, <3>2, <3>4, SetStateFacts
      <3>6. RowsTruthful /\ LedgerKept
        BY <1>0, <3>3, <3>5, RowsChange
      <3>7. RunTruthful(Idle)
        BY DEF RunTruthful
      <3>. QED
        BY <1>0, <3>3, <3>6, <3>7, LedgerStep
    <2>5. CASE RecordDispatch(w)
      <3>1. run[w] \in Run /\ run[w].pc = "record" /\ run[w].key \in Intents
        BY <1>0, <2>5, WorkerAt, RunFields DEF RecordDispatch, At
      <3>. DEFINE v == [run[w] EXCEPT !.pc = "send"]
                  k == run[w].key
                  r == [row[k] EXCEPT !.state = "UNCERTAIN"]
      <3>2. /\ run' = [run EXCEPT ![w] = v] /\ ledger' = ledger /\ queued' = queued
            /\ inquiry' = inquiry /\ effects' = effects /\ now' = now /\ manners' = manners
            /\ row' \in {row, [row EXCEPT ![k] = r]}
        BY <2>5 DEF RecordDispatch
      <3>3. v \in Run /\ v.pc = "send"
        BY <3>1, RunMoved
      <3>4. r \in OutboxRow /\ r.state = "UNCERTAIN"
        <4>1. row[k] \in OutboxRow
          BY <1>0, <3>1
        <4>. QED
          BY <4>1 DEF OutboxRow, STATES
      <3>. HIDE DEF v, r
      <3>5. /\ row' \in [Intents -> OutboxRow]
            /\ \A j \in Intents : row'[j] = row[j] \/ row'[j].state # "CONFIRMED"
        BY <1>0, <3>2, <3>4
      <3>6. RowsTruthful /\ LedgerKept
        BY <1>0, <3>2, <3>5, RowsChange
      <3>7. RunTruthful(v)
        BY <3>3 DEF RunTruthful
      <3>. QED
        BY <1>0, <3>2, <3>3, <3>6, <3>7, LedgerStep
    <2>6. CASE Send(w)
      <3>1. run[w] \in Run /\ run[w].key \in Intents
        BY <1>0, <2>6, WorkerAt, RunFields DEF Send, At
      <3>. DEFINE k == run[w].key
      <3>2. PICK a \in Answers, happens \in BOOLEAN :
                /\ effects' = IF happens THEN [effects EXCEPT ![k] = @ + 1] ELSE effects
                /\ run' = [run EXCEPT ![w] =
                              [key |-> k, pc |-> "answer", answer |-> a,
                               ref |-> IF happens THEN effects[k] + 1 ELSE 0]]
                /\ ~happens => a # "CONFIRMED"
        BY <2>6 DEF Send, Answers
      <3>. DEFINE ref == IF happens THEN effects[k] + 1 ELSE 0
                  v == [key |-> k, pc |-> "answer", answer |-> a, ref |-> ref]
      <3>3. effects[k] \in Nat
        BY <1>0, <3>1
      <3>4. /\ effects' \in [Intents -> Nat] /\ \A j \in Intents : effects[j] <= effects'[j]
            /\ effects'[k] = IF happens THEN effects[k] + 1 ELSE effects[k]
        BY <1>0, <3>1, <3>2, <3>3
      <3>5. ref \in Nat /\ ref <= effects'[k] /\ (a = "CONFIRMED" => ref > 0)
        BY <3>2, <3>3, <3>4
      <3>6. run' = [run EXCEPT ![w] = v]
        BY <3>2
      <3>. HIDE DEF ref, k
      <3>7. v \in Run /\ v.key = k /\ v.ref = ref /\ v.answer = a
        BY <3>1, <3>5, AnsweredRunMade DEF k
      <3>. HIDE DEF v
      <3>8. RunTruthful(v)
        BY <3>5, <3>7 DEF RunTruthful
      <3>9. /\ row' = row /\ ledger' = ledger /\ queued' = queued
            /\ inquiry' = inquiry /\ now' = now /\ manners' = manners
        BY <2>6 DEF Send
      <3>10. RowsTruthful /\ LedgerKept
        BY <1>0, <3>4, <3>9, RowsChange
      <3>. QED
        BY <1>0, <3>4, <3>6, <3>7, <3>8, <3>9, <3>10, LedgerStep
    <2>7. CASE RecordAnswer(w)
      <3>1. /\ run[w] \in Run /\ run[w].key \in Intents /\ run[w] # Idle
            /\ run[w].pc = "answer" /\ run[w].answer \in Answers /\ run[w].ref \in Nat
        BY <1>0, <2>7, WorkerAt, RunFields DEF RecordAnswer, At
      <3>2. /\ run' = [run EXCEPT ![w] = Idle] /\ queued' = queued
            /\ inquiry' = inquiry /\ effects' = effects /\ now' = now /\ manners' = manners
        BY <2>7 DEF RecordAnswer
      <3>3. RowsTruthful /\ LedgerKept
        <4>1. CASE run[w].answer = "CONFIRMED"
          <5>1. Confirm(run[w].key, run[w].ref)
            BY <2>7, <4>1 DEF RecordAnswer
          <5>2. run[w].ref > 0 /\ run[w].ref <= effects[run[w].key]
            BY <3>1, <4>1 DEF LedgerInv
          <5>. QED
            BY <3>1, <3>2, <5>1, <5>2, ConfirmIsTruthful
        <4>2. CASE run[w].answer # "CONFIRMED"
          <5>1. row' = SetState(run[w].key, StateAfter(run[w].answer)) /\ ledger' = ledger
            BY <2>7, <4>2 DEF RecordAnswer
          <5>2. StateAfter(run[w].answer) \in STATES \ {"CONFIRMED"}
            BY <3>1, <4>2 DEF StateAfter, Answers, STATES
          <5>3. /\ row' \in [Intents -> OutboxRow]
                /\ \A j \in Intents : row'[j] = row[j] \/ row'[j].state # "CONFIRMED"
            BY <1>0, <3>1, <5>1, <5>2, SetStateFacts
          <5>. QED
            BY <1>0, <3>2, <5>1, <5>3, RowsChange
        <4>. QED
          BY <4>1, <4>2
      <3>4. RunTruthful(Idle)
        BY DEF RunTruthful
      <3>. QED
        BY <1>0, <3>2, <3>3, <3>4, LedgerStep
    <2>8. CASE CrashWorker(w)
      <3>1. /\ run' = [run EXCEPT ![w] = Idle] /\ row' = row /\ ledger' = ledger /\ queued' = queued
            /\ inquiry' = inquiry /\ effects' = effects /\ now' = now /\ manners' = manners
        BY <2>8 DEF CrashWorker
      <3>2. RowsTruthful /\ LedgerKept
        BY <1>0, <3>1, RowsChange
      <3>3. RunTruthful(Idle)
        BY DEF RunTruthful
      <3>. QED
        BY <1>0, <3>1, <3>2, <3>3, LedgerStep
    <2>. QED
      BY <1>3, <2>1, <2>2, <2>3, <2>4, <2>5, <2>6, <2>7, <2>8 DEF WorkerStep
  <1>4. ASSUME NEW p \in Operators, OperatorStep(p)
        PROVE  LedgerInv' /\ LedgerKept
    <2>1. ASSUME NEW k \in Intents, BeginReconcile(p, k)
          PROVE  LedgerInv' /\ LedgerKept
      <3>. DEFINE c == [key |-> k, at |-> now, found |-> effects[k] > 0, ref |-> effects[k]]
      <3>1. /\ inquiry' = [inquiry EXCEPT ![p] = c] /\ row' = row /\ ledger' = ledger
            /\ queued' = queued /\ run' = run /\ effects' = effects /\ now' = now
            /\ manners' = manners
        BY <2>1 DEF BeginReconcile
      <3>2. effects[k] \in Nat /\ (effects[k] > 0) \in BOOLEAN
        BY <1>0
      <3>3. c \in Inquiry /\ c.key = k /\ c.ref = effects[k]
        BY <1>0, <3>2, InquiryMade
      <3>6. c.found => effects[k] > 0
        OBVIOUS
      <3>. HIDE DEF c
      <3>4. RowsTruthful /\ LedgerKept
        BY <1>0, <3>1, RowsChange
      <3>5. c.ref <= effects'[c.key] /\ (c.found => c.ref > 0)
        <4>1. c.ref <= effects'[c.key]
          BY <3>1, <3>2, <3>3
        <4>2. c.found => c.ref > 0
          BY <3>3, <3>6
        <4>. QED
          BY <4>1, <4>2
      <3>. QED
        BY <1>0, <3>1, <3>3, <3>4, <3>5, LedgerStep
    <2>2. CASE FinishReconcile(p)
      <3>1. inquiry[p] \in Inquiry /\ inquiry[p] # Idle
        BY <1>0, <2>2, OperatorAt DEF FinishReconcile
      <3>. DEFINE c == inquiry[p]
      <3>2. c.key \in Intents /\ c.ref \in Nat
        BY <3>1, InquiryFields
      <3>3. /\ inquiry' = [inquiry EXCEPT ![p] = Idle] /\ queued' = queued
            /\ run' = run /\ effects' = effects /\ now' = now /\ manners' = manners
        BY <2>2 DEF FinishReconcile
      <3>4. RowsTruthful /\ LedgerKept
        <4>1. CASE c.found
          <5>1. Confirm(c.key, c.ref)
            BY <2>2, <4>1 DEF FinishReconcile
          <5>2. c.ref > 0 /\ c.ref <= effects[c.key]
            BY <3>1, <4>1 DEF LedgerInv
          <5>. QED
            BY <3>2, <3>3, <5>1, <5>2, ConfirmIsTruthful
        <4>2. CASE ~c.found
          <5>1. PICK s \in Blocked \cup {"RETRY"} : row' = SetState(c.key, s)
            BY <2>2, <4>2 DEF FinishReconcile, Refusals, Blocked
          <5>2. ledger' = ledger
            BY <2>2, <4>2 DEF FinishReconcile
          <5>3. s \in STATES /\ s # "CONFIRMED"
            BY DEF Blocked, STATES
          <5>4. /\ row' \in [Intents -> OutboxRow]
                /\ \A j \in Intents : row'[j] = row[j] \/ row'[j].state # "CONFIRMED"
            BY <1>0, <3>2, <5>1, <5>3, SetStateFacts
          <5>. QED
            BY <1>0, <3>3, <5>2, <5>4, RowsChange
        <4>. QED
          BY <4>1, <4>2
      <3>. QED
        BY <1>0, <3>3, <3>4, LedgerStep
    <2>3. CASE CrashOperator(p)
      <3>1. /\ inquiry' = [inquiry EXCEPT ![p] = Idle] /\ row' = row /\ ledger' = ledger
            /\ queued' = queued /\ run' = run /\ effects' = effects /\ now' = now
            /\ manners' = manners
        BY <2>3 DEF CrashOperator
      <3>2. RowsTruthful /\ LedgerKept
        BY <1>0, <3>1, RowsChange
      <3>. QED
        BY <1>0, <3>1, <3>2, LedgerStep
    <2>. QED
      BY <1>4, <2>1, <2>2, <2>3 DEF OperatorStep
  <1>5. CASE Tick
    <2>1. /\ row' = row /\ ledger' = ledger /\ queued' = queued /\ run' = run
          /\ inquiry' = inquiry /\ effects' = effects /\ now' = now + 1 /\ manners' = manners
      BY <1>5 DEF Tick
    <2>2. RowsTruthful /\ LedgerKept
      BY <1>0, <2>1, RowsChange
    <2>3. now' \in Nat
      BY <1>0, <2>1
    <2>. QED
      BY <1>0, <2>1, <2>2, <2>3, LedgerStep
  <1>. QED
    BY <1>1, <1>2, <1>3, <1>4, <1>5 DEF OutboxNext

LEMMA LedgerInit ==
    ASSUME OutboxInit
    PROVE  LedgerInv
  <1>1. OutboxTypeOK
    <2>1. \A k \in Intents :
              [state |-> "ABSENT", owner |-> Idle, until |-> 0, attempts |-> 0] \in OutboxRow
      BY DEF OutboxRow
    <2>. QED
      BY <2>1 DEF OutboxInit, OutboxTypeOK
  <1>2. LedgerIsTruthful
    BY DEF OutboxInit, LedgerIsTruthful
  <1>. QED
    BY <1>1, <1>2 DEF OutboxInit, LedgerInv

LEMMA LedgerStutters ==
    ASSUME LedgerInv, UNCHANGED ovars
    PROVE  LedgerInv' /\ LedgerKept
  BY DEF LedgerInv, LedgerKept, LedgerIsTruthful, OutboxTypeOK, ovars

LEMMA LedgerInvHolds == OutboxSpec => []LedgerInv
  <1>1. LedgerInv /\ [OutboxNext]_ovars => LedgerInv'
    BY LedgerActions, LedgerStutters
  <1>. QED
    BY <1>1, LedgerInit, PTL DEF OutboxSpec

(* The rows, the ledger and the calls in progress always have their types, *)
(* whatever the adapter answers and whoever crashes.                       *)
THEOREM OutboxTypeCorrect == OutboxSpec => []OutboxTypeOK
  <1>1. LedgerInv => OutboxTypeOK
    BY DEF LedgerInv
  <1>. QED
    BY <1>1, LedgerInvHolds, PTL

(* The ledger never claims an effect that did not happen, and no row is    *)
(* CONFIRMED without one, whatever the callers do.                         *)
THEOREM LedgerStaysTruthful == OutboxSpec => []LedgerIsTruthful
  <1>1. LedgerInv => LedgerIsTruthful
    BY DEF LedgerInv
  <1>. QED
    BY <1>1, LedgerInvHolds, PTL

(* A reference that _confirm wrote is never replaced.                      *)
THEOREM LedgerStaysPermanent == OutboxSpec => LedgerIsPermanent
  <1>1. LedgerInv /\ [OutboxNext]_ovars =>
            [\A k \in Intents : ledger[k] > 0 => ledger'[k] = ledger[k]]_ovars
    BY LedgerActions DEF LedgerKept
  <1>. QED
    BY <1>1, LedgerInvHolds, PTL DEF OutboxSpec, LedgerIsPermanent

-----------------------------------------------------------------------------
(* With discipline.  What the row of an intent, its effect, the call that  *)
(* dispatches it and the calls that ask for it say of each other.          *)
RowFits(r, e) ==
    /\ e \in {0, 1}
    /\ r.state \in {"SENT", "CONFIRMED"} => e = 1
    /\ e = 1 => r.state \in {"UNCERTAIN", "SENT", "CONFIRMED"}

AnswerFits(v, e) ==
    /\ v.ref = e
    /\ v.answer \in {"ACCEPTED", "CONFIRMED"} => e = 1
    /\ v.answer \in {"REJECTED", "REJECTED_RETRYABLE"} => e = 0

(* The owner of the row tells whose call it is: there is only one.         *)
RunFits(k, w, v, r, e, t) == v # Idle /\ v.key = k =>
    /\ r.owner = w
    /\ v.pc \in {"authorize", "record"} => r.state = "CLAIMED" /\ t < r.until
    /\ v.pc = "send" => r.state = "UNCERTAIN" /\ e = 0
    /\ v.pc = "answer" => r.state = "UNCERTAIN" /\ AnswerFits(v, e)

AskFits(k, c, r, e) == c # Idle /\ c.key = k =>
    /\ r.state \in {"UNCERTAIN", "SENT"}
    /\ c.found => e = 1
    /\ ~c.found => e = 0
    /\ c.ref = e

KeyFits(k) ==
    /\ RowFits(row[k], effects[k])
    /\ \A w \in Workers : RunFits(k, w, run[w], row[k], effects[k], now)
    /\ \A p \in Operators : AskFits(k, inquiry[p], row[k], effects[k])

(* Nobody works on an intent that an operator asks for.                    *)
AskedAlone ==
    \A p \in Operators : inquiry[p] # Idle =>
        /\ \A w \in Workers : run[w] # Idle => run[w].key # inquiry[p].key
        /\ \A q \in Operators \ {p} : inquiry[q] # Idle => inquiry[q].key # inquiry[p].key

KeysFit == AskedAlone /\ \A k \in Intents : KeyFits(k)

(* How an intent moves in one step.                                        *)
Passes(k) ==
    LET p == row[k].state
        q == row'[k].state
        h == effects[k]
        i == effects'[k]
    IN  \/ p = q /\ i = h
        \/ p = "ABSENT" /\ q = "PENDING" /\ i = h
        \/ p \in {"PENDING", "RETRY"} /\ q = "CLAIMED" /\ i = h
        \/ p = "CLAIMED" /\ q \in {"RETRY", "UNCERTAIN"} \cup Blocked /\ h = 0 /\ i = 0
        \/ p = "UNCERTAIN" /\ q = "UNCERTAIN" /\ h = 0 /\ i = 1
        \/ p \in {"UNCERTAIN", "SENT"} /\ q \in {"SENT", "CONFIRMED"} /\ h = 1 /\ i = 1
        \/ p \in {"UNCERTAIN", "SENT"} /\ q \in {"RETRY", "FAILED"} \cup Blocked /\ h = 0 /\ i = 0

(* An intent that a step leaves alone.                                     *)
LEMMA LeftAlone ==
    ASSUME NEW k \in Intents, KeyFits(k),
           row'[k] = row[k], effects'[k] = effects[k], now' = now,
           \A w \in Workers : \/ run'[w] = run[w] \/ run'[w] = Idle
                              \/ run'[w].key # k,
           \A p \in Operators : \/ inquiry'[p] = inquiry[p] \/ inquiry'[p] = Idle
                                \/ inquiry'[p].key # k
    PROVE  KeyFits(k)' /\ Passes(k)
  <1>1. Passes(k)
    BY DEF Passes
  <1>2. RowFits(row'[k], effects'[k])
    BY DEF KeyFits
  <1>3. ASSUME NEW w \in Workers
        PROVE  RunFits(k, w, run'[w], row'[k], effects'[k], now')
    <2>1. RunFits(k, w, run[w], row[k], effects[k], now)
      BY DEF KeyFits
    <2>2. CASE run'[w] = run[w]
      BY <2>1, <2>2
    <2>3. CASE run'[w] = Idle \/ run'[w].key # k
      BY <2>3 DEF RunFits
    <2>. QED
      BY <2>2, <2>3
  <1>4. ASSUME NEW p \in Operators
        PROVE  AskFits(k, inquiry'[p], row'[k], effects'[k])
    <2>1. AskFits(k, inquiry[p], row[k], effects[k])
      BY DEF KeyFits
    <2>2. CASE inquiry'[p] = inquiry[p]
      BY <2>1, <2>2
    <2>3. CASE inquiry'[p] = Idle \/ inquiry'[p].key # k
      BY <2>3 DEF AskFits
    <2>. QED
      BY <2>2, <2>3
  <1>. QED
    BY <1>1, <1>2, <1>3, <1>4 DEF KeyFits

(* An intent that nobody works on any more.                                *)
LEMMA NobodyLeft ==
    ASSUME NEW k \in Intents, RowFits(row'[k], effects'[k]),
           \A w \in Workers : run'[w] # Idle => run'[w].key # k,
           \A p \in Operators : inquiry'[p] # Idle => inquiry'[p].key # k
    PROVE  KeyFits(k)'
  BY DEF KeyFits, RunFits, AskFits

(* An intent with one call at work on it.                                  *)
LEMMA OneRunLeft ==
    ASSUME NEW k \in Intents, NEW w \in Workers, RowFits(row'[k], effects'[k]),
           RunFits(k, w, run'[w], row'[k], effects'[k], now'),
           \A v \in Workers \ {w} : run'[v] # Idle => run'[v].key # k,
           \A p \in Operators : inquiry'[p] # Idle => inquiry'[p].key # k
    PROVE  KeyFits(k)'
  <1>1. ASSUME NEW v \in Workers
        PROVE  RunFits(k, v, run'[v], row'[k], effects'[k], now')
    <2>1. CASE v = w
      BY <2>1
    <2>2. CASE v # w
      BY <2>2 DEF RunFits
    <2>. QED
      BY <2>1, <2>2
  <1>2. \A p \in Operators : AskFits(k, inquiry'[p], row'[k], effects'[k])
    BY DEF AskFits
  <1>. QED
    BY <1>1, <1>2 DEF KeyFits

(* The call of a worker is the only one at work on its intent.             *)
LEMMA RunIsAlone ==
    ASSUME OutboxTypeOK, KeysFit, NEW w \in Workers, run[w] # Idle
    PROVE  /\ run[w].key \in Intents
           /\ RunFits(run[w].key, w, run[w], row[run[w].key], effects[run[w].key], now)
           /\ RowFits(row[run[w].key], effects[run[w].key])
           /\ \A v \in Workers \ {w} : run[v] # Idle => run[v].key # run[w].key
           /\ \A p \in Operators : inquiry[p] # Idle => inquiry[p].key # run[w].key
  <1>. DEFINE k == run[w].key
  <1>1. k \in Intents
    BY WorkerAt, RunFields
  <1>2. KeyFits(k)
    BY <1>1 DEF KeysFit
  <1>3. row[k].owner = w
    BY <1>2 DEF KeyFits, RunFits
  <1>4. \A v \in Workers \ {w} : run[v] # Idle => run[v].key # k
    BY <1>2, <1>3 DEF KeyFits, RunFits
  <1>5. \A p \in Operators : inquiry[p] # Idle => inquiry[p].key # k
    BY DEF KeysFit, AskedAlone
  <1>. QED
    BY <1>1, <1>2, <1>4, <1>5 DEF KeyFits

(* Nobody works on an intent that is queued, or whose claim has expired.   *)
LEMMA NobodyWorks ==
    ASSUME OutboxTypeOK, KeysFit, NEW k \in Intents,
           \/ row[k].state \notin {"CLAIMED", "UNCERTAIN", "SENT"}
           \/ ClaimExpired(row[k])
    PROVE  /\ \A w \in Workers : run[w] # Idle => run[w].key # k
           /\ \A p \in Operators : inquiry[p] # Idle => inquiry[p].key # k
  <1>0. KeyFits(k)
    BY DEF KeysFit
  <1>1. ASSUME NEW w \in Workers, run[w] # Idle, run[w].key = k
        PROVE  FALSE
    <2>1. RunFits(k, w, run[w], row[k], effects[k], now)
      BY <1>0 DEF KeyFits
    <2>2. run[w].pc \in {"authorize", "record", "send", "answer"}
      BY <1>1, WorkerAt, RunFields
    <2>3. CASE run[w].pc \in {"authorize", "record"}
      <3>1. row[k].state = "CLAIMED" /\ now < row[k].until
        BY <1>1, <2>1, <2>3 DEF RunFits
      <3>2. now \in Nat /\ row[k].until \in Nat
        BY TypeFacts DEF OutboxRow
      <3>. QED
        BY <3>1, <3>2 DEF ClaimExpired
    <2>4. CASE run[w].pc \in {"send", "answer"}
      BY <1>1, <2>1, <2>4 DEF RunFits, ClaimExpired
    <2>. QED
      BY <2>2, <2>3, <2>4
  <1>2. ASSUME NEW p \in Operators, inquiry[p] # Idle, inquiry[p].key = k
        PROVE  FALSE
    BY <1>0, <1>2 DEF KeyFits, AskFits, ClaimExpired
  <1>. QED
    BY <1>1, <1>2

LEMMA AskedAloneKept ==
    ASSUME AskedAlone,
           \A w \in Workers : \/ run'[w] = Idle
                              \/ run[w] # Idle /\ run'[w].key = run[w].key,
           \A p \in Operators : inquiry'[p] \in {inquiry[p], Idle}
    PROVE  AskedAlone'
  BY DEF AskedAlone

(* What releasing the expired claims does to an intent.                    *)
LEMMA ReleaseFits ==
    ASSUME OutboxTypeOK, KeysFit, NEW k \in Intents,
           row'[k] = Released[k], effects' = effects, run' = run, inquiry' = inquiry, now' = now
    PROVE  KeyFits(k)' /\ Passes(k)
  <1>0. KeyFits(k) /\ row \in [Intents -> OutboxRow]
    BY TypeFacts DEF KeysFit
  <1>1. CASE row'[k] = row[k]
    BY <1>0, <1>1, LeftAlone
  <1>2. CASE ClaimExpired(row[k]) /\ row'[k].state = "RETRY"
    <2>1. row[k].state = "CLAIMED" /\ effects[k] = 0
      BY <1>0, <1>2 DEF ClaimExpired, KeyFits, RowFits
    <2>2. Passes(k)
      BY <1>2, <2>1 DEF Passes
    <2>3. RowFits(row'[k], effects'[k])
      BY <1>2, <2>1 DEF RowFits
    <2>. QED
      BY <1>2, <2>2, <2>3, NobodyWorks, NobodyLeft
  <1>. QED
    BY <1>0, <1>1, <1>2, ReleasedFacts

(* A step that touches one intent.                                         *)
LEMMA OneIntentMoves ==
    ASSUME KeysFit, NEW k \in Intents, KeyFits(k)', Passes(k), AskedAlone', now' = now,
           \A j \in Intents \ {k} : row'[j] = row[j] /\ effects'[j] = effects[j],
           \A w \in Workers : \/ run'[w] = run[w] \/ run'[w] = Idle
                              \/ run'[w].key = k,
           \A p \in Operators : \/ inquiry'[p] = inquiry[p] \/ inquiry'[p] = Idle
                                \/ inquiry'[p].key = k
    PROVE  KeysFit' /\ \A j \in Intents : Passes(j)
  <1>1. ASSUME NEW j \in Intents
        PROVE  KeyFits(j)' /\ Passes(j)
    <2>1. CASE j = k
      BY <2>1
    <2>2. CASE j # k
      <3>1. KeyFits(j)
        BY DEF KeysFit
      <3>2. \A w \in Workers : \/ run'[w] = run[w] \/ run'[w] = Idle
                               \/ run'[w].key # j
        BY <2>2
      <3>3. \A p \in Operators : \/ inquiry'[p] = inquiry[p] \/ inquiry'[p] = Idle
                                 \/ inquiry'[p].key # j
        BY <2>2
      <3>. QED
        BY <2>2, <3>1, <3>2, <3>3, LeftAlone
    <2>. QED
      BY <2>1, <2>2
  <1>. QED
    BY <1>1 DEF KeysFit

(* The last write of a call: the row is set and the call ends.             *)
LEMMA RunEnds ==
    ASSUME OutboxTypeOK, KeysFit, NEW w \in Workers, run[w] # Idle,
           NEW k \in Intents, run[w].key = k,
           NEW s \in STATES, row' = SetState(k, s), RowFits(row'[k], effects[k]),
           Passes(k), run' = [run EXCEPT ![w] = Idle],
           inquiry' = inquiry, effects' = effects, now' = now
    PROVE  KeysFit' /\ \A j \in Intents : Passes(j)
  <1>1. /\ \A v \in Workers \ {w} : run[v] # Idle => run[v].key # k
        /\ \A p \in Operators : inquiry[p] # Idle => inquiry[p].key # k
    BY RunIsAlone
  <1>2. row \in [Intents -> OutboxRow] /\ run \in [Workers -> Run \cup {Idle}]
    BY TypeFacts
  <1>3. \A j \in Intents \ {k} : row'[j] = row[j] /\ effects'[j] = effects[j]
    BY <1>1, <1>2, SetStateFacts
  <1>4. \A v \in Workers : run'[v] = IF v = w THEN Idle ELSE run[v]
    BY <1>2
  <1>5. AskedAlone'
    BY <1>4, AskedAloneKept DEF KeysFit
  <1>6. KeyFits(k)'
    BY <1>1, <1>4, NobodyLeft
  <1>. QED
    BY <1>1, <1>3, <1>4, <1>5, <1>6, OneIntentMoves

(* The same for the call of an operator.                                   *)
LEMMA AskEnds ==
    ASSUME OutboxTypeOK, KeysFit, NEW p \in Operators, inquiry[p] # Idle,
           NEW k \in Intents, inquiry[p].key = k,
           NEW s \in STATES, row' = SetState(k, s), RowFits(row'[k], effects[k]), Passes(k),
           inquiry' = [inquiry EXCEPT ![p] = Idle],
           run' = run, effects' = effects, now' = now
    PROVE  KeysFit' /\ \A j \in Intents : Passes(j)
  <1>2. /\ \A w \in Workers : run[w] # Idle => run[w].key # k
        /\ \A q \in Operators \ {p} : inquiry[q] # Idle => inquiry[q].key # k
    BY DEF KeysFit, AskedAlone
  <1>3. row \in [Intents -> OutboxRow] /\ inquiry \in [Operators -> Inquiry \cup {Idle}]
    BY TypeFacts
  <1>4. \A j \in Intents \ {k} : row'[j] = row[j] /\ effects'[j] = effects[j]
    BY <1>3, SetStateFacts
  <1>5. \A q \in Operators : inquiry'[q] = IF q = p THEN Idle ELSE inquiry[q]
    BY <1>3
  <1>6. AskedAlone'
    <2>1. \A w \in Workers : run'[w] = run[w]
      OBVIOUS
    <2>2. \A q \in Operators : inquiry'[q] \in {inquiry[q], Idle}
      BY <1>5
    <2>. QED
      BY <1>2, <1>5 DEF KeysFit, AskedAlone
  <1>7. KeyFits(k)'
    BY <1>2, <1>5, NobodyLeft
  <1>. QED
    BY <1>4, <1>5, <1>6, <1>7, OneIntentMoves

(* A worker's call advances: its row and its effect fit the next stage.    *)
LEMMA RunAdvances ==
    ASSUME OutboxTypeOK, KeysFit, NEW w \in Workers, run[w] # Idle, NEW v \in Run,
           v.key = run[w].key, run' = [run EXCEPT ![w] = v],
           \A j \in Intents \ {v.key} : row'[j] = row[j] /\ effects'[j] = effects[j],
           RowFits(row'[v.key], effects'[v.key]), Passes(v.key),
           RunFits(v.key, w, v, row'[v.key], effects'[v.key], now),
           inquiry' = inquiry, now' = now
    PROVE  KeysFit' /\ \A j \in Intents : Passes(j)
  <1>. DEFINE k == run[w].key
  <1>1. /\ k \in Intents
        /\ \A u \in Workers \ {w} : run[u] # Idle => run[u].key # k
        /\ \A p \in Operators : inquiry[p] # Idle => inquiry[p].key # k
    BY RunIsAlone
  <1>2. run \in [Workers -> Run \cup {Idle}]
    BY TypeFacts
  <1>4. \A u \in Workers : run'[u] = IF u = w THEN v ELSE run[u]
    BY <1>2
  <1>5. AskedAlone'
    BY <1>4, AskedAloneKept DEF KeysFit
  <1>6. KeyFits(k)'
    BY <1>1, <1>4, OneRunLeft
  <1>. QED
    BY <1>1, <1>4, <1>5, <1>6, OneIntentMoves

LEMMA ConfirmSucceeds ==
    ASSUME LedgerInv, NEW k \in Intents, effects[k] = 1, Confirm(k, 1)
    PROVE  row' = SetState(k, "CONFIRMED")
  <1>1. ledger[k] \in Nat /\ ledger[k] <= 1
    BY TypeFacts DEF LedgerInv, LedgerIsTruthful
  <1>2. ledger[k] \in {0, 1}
    BY <1>1
  <1>. QED
    BY <1>2 DEF Confirm

(* The actions, one by one: every intent fits again and has passed as it   *)
(* may.                                                                    *)
LEMMA EnqueueFits ==
    ASSUME LedgerInv, KeysFit, NEW k \in Intents, Enqueue(k)
    PROVE  KeysFit' /\ \A j \in Intents : Passes(j)
  <1>0. OutboxTypeOK /\ row \in [Intents -> OutboxRow] /\ KeyFits(k)
    BY TypeFacts DEF LedgerInv, KeysFit
  <1>1. /\ row' = SetState(k, "PENDING") /\ run' = run /\ row[k].state = "ABSENT"
        /\ inquiry' = inquiry /\ effects' = effects /\ now' = now
    BY DEF Enqueue
  <1>2. /\ row'[k].state = "PENDING"
        /\ \A j \in Intents \ {k} : row'[j] = row[j] /\ effects'[j] = effects[j]
    BY <1>0, <1>1, SetStateFacts DEF STATES
  <1>3. effects[k] = 0
    BY <1>0, <1>1 DEF KeyFits, RowFits
  <1>4. Passes(k) /\ RowFits(row'[k], effects'[k])
    BY <1>1, <1>2, <1>3 DEF Passes, RowFits
  <1>5. KeyFits(k)'
    BY <1>0, <1>1, <1>4, NobodyWorks, NobodyLeft
  <1>6. AskedAlone'
    BY <1>1 DEF KeysFit, AskedAlone
  <1>. QED
    BY <1>1, <1>2, <1>4, <1>5, <1>6, OneIntentMoves

LEMMA ReleaseActionFits ==
    ASSUME LedgerInv, KeysFit, ReleaseExpiredClaims
    PROVE  KeysFit' /\ \A j \in Intents : Passes(j)
  <1>1. /\ row' = Released /\ run' = run
        /\ inquiry' = inquiry /\ effects' = effects /\ now' = now
    BY DEF ReleaseExpiredClaims
  <1>2. \A j \in Intents : KeyFits(j)' /\ Passes(j)
    BY <1>1, ReleaseFits DEF LedgerInv
  <1>3. AskedAlone'
    BY <1>1 DEF KeysFit, AskedAlone
  <1>. QED
    BY <1>2, <1>3 DEF KeysFit

(* claim_next: the claimed intent, and what the release leaves of others.  *)
LEMMA ClaimFacts ==
    ASSUME OutboxTypeOK, NEW w \in Workers, ClaimNext(w)
    PROVE  \E k \in Intents :
               /\ Claimable(Released, k)
               /\ row'[k].state = "CLAIMED"
               /\ \A j \in Intents \ {k} : row'[j] = Released[j]
  <1>1. Released \in [Intents -> OutboxRow]
    BY TypeFacts, ReleasedFacts
  <1>2. PICK k \in Intents :
            /\ Claimable(Released, k)
            /\ row' = [Released EXCEPT ![k] =
                  [state |-> "CLAIMED", owner |-> w, until |-> now + LeaseSeconds,
                   attempts |-> Released[k].attempts + 1]]
    BY DEF ClaimNext
  <1>. QED
    BY <1>1, <1>2

LEMMA ClaimFits ==
    ASSUME LedgerInv, KeysFit, NEW w \in Workers, ClaimNext(w)
    PROVE  KeysFit' /\ \A j \in Intents : Passes(j)
  <1>0. OutboxTypeOK /\ row \in [Intents -> OutboxRow]
    BY TypeFacts DEF LedgerInv
  <1>1. run' = run /\ inquiry' = inquiry /\ effects' = effects /\ now' = now
    BY DEF ClaimNext
  <1>2. PICK k \in Intents :
            /\ Claimable(Released, k)
            /\ row'[k].state = "CLAIMED"
            /\ \A j \in Intents \ {k} : row'[j] = Released[j]
    BY <1>0, ClaimFacts
  <1>3. KeyFits(k)
    BY DEF KeysFit
  <1>4. row[k].state \in {"PENDING", "RETRY"} \/ ClaimExpired(row[k])
    BY <1>0, <1>2, ReleasedFacts DEF Claimable
  <1>5. row[k].state \in {"PENDING", "RETRY", "CLAIMED"}
    BY <1>4 DEF ClaimExpired
  <1>6. effects[k] = 0
    BY <1>3, <1>5 DEF KeyFits, RowFits
  <1>7. Passes(k) /\ RowFits(row'[k], effects'[k])
    BY <1>1, <1>2, <1>5, <1>6 DEF Passes, RowFits
  <1>8. KeyFits(k)'
    BY <1>0, <1>1, <1>4, <1>7, NobodyWorks, NobodyLeft
  <1>9. \A j \in Intents : KeyFits(j)' /\ Passes(j)
    BY <1>0, <1>1, <1>2, <1>7, <1>8, ReleaseFits
  <1>10. AskedAlone'
    BY <1>1 DEF KeysFit, AskedAlone
  <1>. QED
    BY <1>9, <1>10 DEF KeysFit

LEMMA BeginDispatchFits ==
    ASSUME LedgerInv, KeysFit, NEW w \in Workers, NEW k \in Intents, BeginDispatch(w, k)
    PROVE  KeysFit' /\ \A j \in Intents : Passes(j)
  <1>. DEFINE v == [key |-> k, at |-> now, pc |-> "authorize"]
  <1>0. OutboxTypeOK /\ run \in [Workers -> Run \cup {Idle}] /\ now \in Nat /\ KeyFits(k)
    BY TypeFacts DEF LedgerInv, KeysFit
  <1>1. /\ run' = [run EXCEPT ![w] = v] /\ row' = row /\ inquiry' = inquiry
        /\ effects' = effects /\ now' = now /\ run[w] = Idle
        /\ row[k].state = "CLAIMED" /\ row[k].owner = w /\ now < row[k].until
    BY DEF BeginDispatch
  <1>2. v \in Run /\ v # Idle /\ v.key = k /\ v.pc = "authorize"
    BY <1>0, EarlyRunMade
  <1>. HIDE DEF v
  <1>3. \A u \in Workers : run'[u] = IF u = w THEN v ELSE run[u]
    BY <1>0, <1>1
  <1>4. \A u \in Workers \ {w} : run[u] # Idle => run[u].key # k
    <2>. SUFFICES ASSUME NEW u \in Workers \ {w}, run[u] # Idle, run[u].key = k
                  PROVE  FALSE
      OBVIOUS
    <2>. QED
      BY <1>0, <1>1 DEF KeyFits, RunFits
  <1>5. \A p \in Operators : inquiry[p] # Idle => inquiry[p].key # k
    BY <1>0, <1>1 DEF KeyFits, AskFits
  <1>6. RowFits(row'[k], effects'[k]) /\ Passes(k)
    BY <1>0, <1>1 DEF KeyFits, Passes
  <1>7. RunFits(k, w, v, row'[k], effects'[k], now')
    BY <1>1, <1>2 DEF RunFits
  <1>8. KeyFits(k)'
    BY <1>1, <1>3, <1>4, <1>5, <1>6, <1>7, OneRunLeft
  <1>9. AskedAlone'
    BY <1>1, <1>2, <1>3, <1>5 DEF KeysFit, AskedAlone
  <1>. QED
    BY <1>1, <1>2, <1>3, <1>6, <1>8, <1>9, OneIntentMoves

LEMMA AuthorizeFits ==
    ASSUME LedgerInv, KeysFit, NEW w \in Workers, AuthorizeDispatch(w)
    PROVE  KeysFit' /\ \A j \in Intents : Passes(j)
  <1>. DEFINE v == [run[w] EXCEPT !.pc = "record"]
              k == run[w].key
  <1>0. OutboxTypeOK /\ run[w] # Idle /\ run[w].pc = "authorize"
    BY DEF LedgerInv, AuthorizeDispatch, At
  <1>1. /\ run' = [run EXCEPT ![w] = v] /\ row' = row /\ inquiry' = inquiry
        /\ effects' = effects /\ now' = now
    BY DEF AuthorizeDispatch
  <1>2. v \in Run /\ v # Idle /\ v.key = k /\ v.pc = "record"
    BY <1>0, WorkerAt, RunMoved
  <1>. HIDE DEF v
  <1>3. RunFits(k, w, run[w], row[k], effects[k], now) /\ RowFits(row[k], effects[k])
    BY <1>0, RunIsAlone
  <1>4. RunFits(k, w, v, row[k], effects[k], now)
    BY <1>0, <1>2, <1>3 DEF RunFits
  <1>5. Passes(k)
    BY <1>1 DEF Passes
  <1>. QED
    BY <1>0, <1>1, <1>2, <1>3, <1>4, <1>5, RunAdvances

LEMMA RefuseFits ==
    ASSUME LedgerInv, KeysFit, NEW w \in Workers, RefuseDispatch(w)
    PROVE  KeysFit' /\ \A j \in Intents : Passes(j)
  <1>0. /\ OutboxTypeOK /\ run[w] # Idle /\ run[w].pc = "authorize"
        /\ row \in [Intents -> OutboxRow]
    BY TypeFacts DEF LedgerInv, RefuseDispatch, At
  <1>1. PICK k \in Intents : k = run[w].key
    BY <1>0, RunIsAlone
  <1>2. PICK s \in Blocked : row' = SetState(k, s)
    BY <1>1 DEF RefuseDispatch, Refusals, Blocked
  <1>3. /\ run' = [run EXCEPT ![w] = Idle] /\ inquiry' = inquiry
        /\ effects' = effects /\ now' = now
    BY DEF RefuseDispatch
  <1>4. s \in STATES /\ s \in {"REVOKED", "BLOCKED_REAPPROVAL"}
    BY DEF Blocked, STATES
  <1>5. row[k].state = "CLAIMED" /\ effects[k] = 0
    BY <1>0, <1>1, RunIsAlone DEF RunFits, RowFits
  <1>6. row'[k].state = s
    BY <1>0, <1>2, <1>4, SetStateFacts
  <1>7. RowFits(row'[k], effects[k]) /\ Passes(k)
    BY <1>3, <1>4, <1>5, <1>6 DEF RowFits, Passes
  <1>. QED
    BY <1>0, <1>1, <1>2, <1>3, <1>4, <1>7, RunEnds

LEMMA RecordDispatchFits ==
    ASSUME LedgerInv, KeysFit, NEW w \in Workers, RecordDispatch(w)
    PROVE  KeysFit' /\ \A j \in Intents : Passes(j)
  <1>. DEFINE v == [run[w] EXCEPT !.pc = "send"]
              k == run[w].key
              r == [row[k] EXCEPT !.state = "UNCERTAIN"]
  <1>0. /\ OutboxTypeOK /\ run[w] # Idle /\ run[w].pc = "record"
        /\ row \in [Intents -> OutboxRow]
    BY TypeFacts DEF LedgerInv, RecordDispatch, At
  <1>1. k \in Intents /\ RunFits(k, w, run[w], row[k], effects[k], now) /\ RowFits(row[k], effects[k])
    BY <1>0, RunIsAlone
  <1>2. row[k].state = "CLAIMED" /\ row[k].owner = w /\ effects[k] = 0
    BY <1>0, <1>1 DEF RunFits, RowFits
  <1>3. /\ row' = [row EXCEPT ![k] = r] /\ run' = [run EXCEPT ![w] = v] /\ inquiry' = inquiry
        /\ effects' = effects /\ now' = now
    BY <1>2 DEF RecordDispatch
  <1>4. v \in Run /\ v # Idle /\ v.key = k /\ v.pc = "send"
    BY <1>0, WorkerAt, RunMoved
  <1>5. r.state = "UNCERTAIN" /\ r.owner = w
    <2>1. row[k] \in OutboxRow
      BY <1>0, <1>1
    <2>. QED
      BY <1>2, <2>1 DEF OutboxRow
  <1>. HIDE DEF v, r
  <1>6. row'[k] = r /\ \A j \in Intents \ {k} : row'[j] = row[j]
    BY <1>0, <1>1, <1>3
  <1>7. RowFits(r, effects[k]) /\ RunFits(k, w, v, r, effects[k], now)
    BY <1>2, <1>4, <1>5 DEF RowFits, RunFits
  <1>8. Passes(k)
    BY <1>2, <1>3, <1>5, <1>6 DEF Passes
  <1>. QED
    BY <1>0, <1>3, <1>4, <1>6, <1>7, <1>8, RunAdvances

LEMMA SendFits ==
    ASSUME LedgerInv, KeysFit, NEW w \in Workers, Send(w)
    PROVE  KeysFit' /\ \A j \in Intents : Passes(j)
  <1>. DEFINE k == run[w].key
  <1>0. /\ OutboxTypeOK /\ run[w] # Idle /\ run[w].pc = "send"
        /\ effects \in [Intents -> Nat]
    BY TypeFacts DEF LedgerInv, Send, At
  <1>1. k \in Intents /\ RunFits(k, w, run[w], row[k], effects[k], now)
    BY <1>0, RunIsAlone
  <1>2. row[k].state = "UNCERTAIN" /\ row[k].owner = w /\ effects[k] = 0
    BY <1>0, <1>1 DEF RunFits
  <1>3. PICK a \in Answers, e \in {0, 1} :
            /\ effects' = IF e = 1 THEN [effects EXCEPT ![k] = 1] ELSE effects
            /\ run' = [run EXCEPT ![w] = [key |-> k, pc |-> "answer", answer |-> a, ref |-> e]]
            /\ a \in {"ACCEPTED", "CONFIRMED"} => e = 1
            /\ a \in {"REJECTED", "REJECTED_RETRYABLE"} => e = 0
    <2>1. 0 + 1 = 1
      OBVIOUS
    <2>2. CASE \E a \in {"UNKNOWN", "ACCEPTED", "CONFIRMED"} :
                 /\ effects' = [effects EXCEPT ![k] = effects[k] + 1]
                 /\ run' = [run EXCEPT ![w] = [key |-> k, pc |-> "answer", answer |-> a,
                                               ref |-> effects[k] + 1]]
      BY <1>2, <2>1, <2>2 DEF Answers
    <2>3. CASE \E a \in {"UNKNOWN", "REJECTED", "REJECTED_RETRYABLE"} :
                 /\ run' = [run EXCEPT ![w] = [key |-> k, pc |-> "answer", answer |-> a,
                                               ref |-> 0]]
                 /\ effects' = effects
      <3>1. PICK a \in {"UNKNOWN", "REJECTED", "REJECTED_RETRYABLE"} :
                 /\ run' = [run EXCEPT ![w] = [key |-> k, pc |-> "answer", answer |-> a,
                                               ref |-> 0]]
                 /\ effects' = effects
        BY <2>3
      <3>2. a \in Answers /\ a \notin {"ACCEPTED", "CONFIRMED"}
        BY DEF Answers
      <3>3. 0 \in {0, 1} /\ 0 # 1
        OBVIOUS
      <3>. HIDE DEF k
      <3>. QED
        BY <3>1, <3>2, <3>3
    <2>. QED
      BY <2>2, <2>3 DEF Send
  <1>. DEFINE v == [key |-> k, pc |-> "answer", answer |-> a, ref |-> e]
  <1>4. run' = [run EXCEPT ![w] = v]
    BY <1>3
  <1>5. v \in Run /\ v # Idle /\ v.key = k /\ v.pc = "answer" /\ v.answer = a /\ v.ref = e
    BY <1>1, AnsweredRunMade
  <1>. HIDE DEF v
  <1>6. effects'[k] = e /\ \A j \in Intents \ {k} : effects'[j] = effects[j]
    BY <1>0, <1>1, <1>2, <1>3
  <1>7. row' = row /\ inquiry' = inquiry /\ now' = now
    BY DEF Send
  <1>8. RowFits(row'[k], effects'[k]) /\ RunFits(k, w, v, row'[k], effects'[k], now)
    BY <1>2, <1>3, <1>5, <1>6, <1>7 DEF RowFits, RunFits, AnswerFits
  <1>9. Passes(k)
    BY <1>2, <1>6, <1>7 DEF Passes
  <1>. QED
    BY <1>0, <1>4, <1>5, <1>6, <1>7, <1>8, <1>9, RunAdvances

LEMMA RecordAnswerFits ==
    ASSUME LedgerInv, KeysFit, NEW w \in Workers, RecordAnswer(w)
    PROVE  KeysFit' /\ \A j \in Intents : Passes(j)
  <1>0. /\ OutboxTypeOK /\ run[w] # Idle /\ run[w].pc = "answer"
        /\ row \in [Intents -> OutboxRow]
    BY TypeFacts DEF LedgerInv, RecordAnswer, At
  <1>1. PICK k \in Intents : k = run[w].key
    BY <1>0, RunIsAlone
  <1>2. /\ row[k].state = "UNCERTAIN" /\ AnswerFits(run[w], effects[k])
        /\ effects[k] \in {0, 1}
    BY <1>0, <1>1, RunIsAlone DEF RunFits, RowFits
  <1>3. /\ run' = [run EXCEPT ![w] = Idle] /\ inquiry' = inquiry
        /\ effects' = effects /\ now' = now
    BY DEF RecordAnswer
  <1>4. run[w].answer \in Answers
    BY <1>0, WorkerAt, RunFields
  <1>5. PICK s \in STATES :
            /\ row' = SetState(k, s)
            /\ s \in {"UNCERTAIN", "FAILED", "RETRY", "SENT", "CONFIRMED"}
            /\ s \in {"SENT", "CONFIRMED"} => effects[k] = 1
            /\ s \in {"FAILED", "RETRY"} => effects[k] = 0
    <2>1. CASE run[w].answer = "CONFIRMED"
      <3>1. effects[k] = 1 /\ run[w].ref = 1
        BY <1>2, <2>1 DEF AnswerFits
      <3>2. Confirm(k, 1)
        BY <1>1, <2>1, <3>1 DEF RecordAnswer
      <3>. QED
        BY <3>1, <3>2, ConfirmSucceeds DEF STATES
    <2>2. CASE run[w].answer # "CONFIRMED"
      <3>1. row' = SetState(k, StateAfter(run[w].answer))
        BY <1>1, <2>2 DEF RecordAnswer
      <3>2. \/ run[w].answer = "UNKNOWN" /\ StateAfter(run[w].answer) = "UNCERTAIN"
            \/ run[w].answer = "REJECTED" /\ StateAfter(run[w].answer) = "FAILED"
            \/ run[w].answer = "REJECTED_RETRYABLE" /\ StateAfter(run[w].answer) = "RETRY"
            \/ run[w].answer = "ACCEPTED" /\ StateAfter(run[w].answer) = "SENT"
        BY <1>4, <2>2 DEF StateAfter, Answers
      <3>. QED
        BY <1>2, <3>1, <3>2 DEF AnswerFits, STATES
    <2>. QED
      BY <2>1, <2>2
  <1>6. row'[k].state = s
    BY <1>0, <1>5, SetStateFacts
  <1>7. RowFits(row'[k], effects[k]) /\ Passes(k)
    BY <1>2, <1>3, <1>5, <1>6 DEF RowFits, Passes
  <1>. QED
    BY <1>0, <1>1, <1>3, <1>5, <1>7, RunEnds

LEMMA CrashWorkerFits ==
    ASSUME LedgerInv, KeysFit, NEW w \in Workers, CrashWorker(w)
    PROVE  KeysFit' /\ \A j \in Intents : Passes(j)
  <1>0. run \in [Workers -> Run \cup {Idle}]
    BY TypeFacts DEF LedgerInv
  <1>1. /\ \A u \in Workers : run'[u] = run[u] \/ run'[u] = Idle
        /\ row' = row /\ inquiry' = inquiry /\ effects' = effects /\ now' = now
    BY <1>0 DEF CrashWorker
  <1>2. \A j \in Intents : KeyFits(j)' /\ Passes(j)
    BY <1>1, LeftAlone DEF KeysFit
  <1>3. AskedAlone'
    BY <1>1 DEF KeysFit, AskedAlone
  <1>. QED
    BY <1>2, <1>3 DEF KeysFit

LEMMA BeginReconcileFits ==
    ASSUME LedgerInv, KeysFit, Disciplined,
           NEW p \in Operators, NEW k \in Intents, BeginReconcile(p, k)
    PROVE  KeysFit' /\ \A j \in Intents : Passes(j)
  <1>. DEFINE c == [key |-> k, at |-> now, found |-> effects[k] > 0, ref |-> effects[k]]
  <1>0. /\ inquiry \in [Operators -> Inquiry \cup {Idle}] /\ now \in Nat
        /\ effects \in [Intents -> Nat] /\ KeyFits(k)
    BY TypeFacts DEF LedgerInv, KeysFit
  <1>1. /\ inquiry' = [inquiry EXCEPT ![p] = c] /\ inquiry[p] = Idle
        /\ row[k].state \in {"UNCERTAIN", "SENT"}
        /\ row' = row /\ run' = run /\ effects' = effects /\ now' = now
    BY DEF BeginReconcile
  <1>12. /\ \A w \in Workers : run[w] # Idle => run[w].key # k
         /\ \A q \in Operators : inquiry[q] # Idle => inquiry[q].key # k
    <2>1. manners.patient
      BY DEF Disciplined
    <2>2. manners.patient => /\ \A w \in Workers : run[w] # Idle => run[w].key # k
                             /\ \A q \in Operators : inquiry[q] # Idle => inquiry[q].key # k
      BY Zenon DEF BeginReconcile
    <2>. QED
      BY <2>1, <2>2
  <1>2. effects[k] \in {0, 1}
    BY <1>0 DEF KeyFits, RowFits
  <1>3. c.found => effects[k] > 0
    OBVIOUS
  <1>4. ~c.found => ~(effects[k] > 0)
    OBVIOUS
  <1>5. c \in Inquiry /\ c.key = k /\ c.ref = effects[k]
    <2>1. (effects[k] > 0) \in BOOLEAN /\ effects[k] \in Nat
      BY <1>0
    <2>. QED
      BY <1>0, <2>1, InquiryMade
  <1>. HIDE DEF c
  <1>13. c # Idle
    BY <1>5, InquiryFields
  <1>6. \A q \in Operators : inquiry'[q] = IF q = p THEN c ELSE inquiry[q]
    BY <1>0, <1>1
  <1>7. AskFits(k, c, row[k], effects[k])
    <2>1. c.found => effects[k] = 1
      BY <1>2, <1>3
    <2>2. ~c.found => effects[k] = 0
      BY <1>2, <1>4
    <2>. QED
      BY <1>1, <1>5, <2>1, <2>2 DEF AskFits
  <1>8. \A q \in Operators : AskFits(k, inquiry'[q], row'[k], effects'[k])
    <2>. SUFFICES ASSUME NEW q \in Operators
                  PROVE  AskFits(k, inquiry'[q], row[k], effects[k])
      BY <1>1
    <2>1. CASE q = p
      BY <1>6, <1>7, <2>1
    <2>2. CASE q # p
      BY <1>6, <1>12, <2>2 DEF AskFits
    <2>. QED
      BY <2>1, <2>2
  <1>9. KeyFits(k)'
    <2>1. RowFits(row'[k], effects'[k])
      BY <1>0, <1>1 DEF KeyFits
    <2>2. \A w \in Workers : RunFits(k, w, run'[w], row'[k], effects'[k], now')
      BY <1>1, <1>12 DEF RunFits
    <2>. QED
      BY <1>8, <2>1, <2>2 DEF KeyFits
  <1>10. AskedAlone'
    BY <1>1, <1>5, <1>6, <1>12, <1>13 DEF KeysFit, AskedAlone
  <1>11. Passes(k)
    BY <1>1 DEF Passes
  <1>. QED
    BY <1>1, <1>5, <1>6, <1>9, <1>10, <1>11, OneIntentMoves

LEMMA FinishReconcileFits ==
    ASSUME LedgerInv, KeysFit, NEW p \in Operators, FinishReconcile(p)
    PROVE  KeysFit' /\ \A j \in Intents : Passes(j)
  <1>0. OutboxTypeOK /\ inquiry[p] # Idle /\ row \in [Intents -> OutboxRow]
    BY TypeFacts DEF LedgerInv, FinishReconcile
  <1>1. PICK k \in Intents : k = inquiry[p].key
    BY <1>0, OperatorAt, InquiryFields
  <1>2. /\ row[k].state \in {"UNCERTAIN", "SENT"}
        /\ inquiry[p].found => effects[k] = 1
        /\ ~inquiry[p].found => effects[k] = 0
        /\ inquiry[p].ref = effects[k]
    BY <1>0, <1>1 DEF KeysFit, KeyFits, AskFits
  <1>3. /\ inquiry' = [inquiry EXCEPT ![p] = Idle] /\ run' = run
        /\ effects' = effects /\ now' = now
    BY DEF FinishReconcile
  <1>4. PICK s \in STATES :
            /\ row' = SetState(k, s)
            /\ \/ s = "CONFIRMED" /\ effects[k] = 1
               \/ s \in {"REVOKED", "BLOCKED_REAPPROVAL", "RETRY"} /\ effects[k] = 0
    <2>1. CASE inquiry[p].found
      <3>1. effects[k] = 1 /\ Confirm(k, 1)
        BY <1>1, <1>2, <2>1 DEF FinishReconcile
      <3>. QED
        BY <3>1, ConfirmSucceeds DEF STATES
    <2>2. CASE ~inquiry[p].found
      <3>1. PICK s \in Blocked \cup {"RETRY"} : row' = SetState(k, s)
        BY <1>1, <2>2 DEF FinishReconcile, Refusals, Blocked
      <3>. QED
        BY <1>2, <2>2, <3>1 DEF Blocked, STATES
    <2>. QED
      BY <2>1, <2>2
  <1>5. row'[k].state = s
    BY <1>0, <1>4, SetStateFacts
  <1>6. RowFits(row'[k], effects[k]) /\ Passes(k)
    BY <1>2, <1>3, <1>4, <1>5 DEF RowFits, Passes, Blocked
  <1>. QED
    BY <1>0, <1>1, <1>3, <1>4, <1>6, AskEnds

LEMMA CrashOperatorFits ==
    ASSUME LedgerInv, KeysFit, NEW p \in Operators, CrashOperator(p)
    PROVE  KeysFit' /\ \A j \in Intents : Passes(j)
  <1>0. inquiry \in [Operators -> Inquiry \cup {Idle}]
    BY TypeFacts DEF LedgerInv
  <1>1. /\ \A q \in Operators : inquiry'[q] = inquiry[q] \/ inquiry'[q] = Idle
        /\ row' = row /\ run' = run /\ effects' = effects /\ now' = now
    BY <1>0 DEF CrashOperator
  <1>2. \A j \in Intents : KeyFits(j)' /\ Passes(j)
    BY <1>1, LeftAlone DEF KeysFit
  <1>3. AskedAlone'
    BY <1>1 DEF KeysFit, AskedAlone
  <1>. QED
    BY <1>2, <1>3 DEF KeysFit

(* The clock waits while a claim is being authorized.                      *)
LEMMA TickFits ==
    ASSUME LedgerInv, KeysFit, Disciplined, Tick
    PROVE  KeysFit' /\ \A j \in Intents : Passes(j)
  <1>0. OutboxTypeOK
    BY DEF LedgerInv
  <1>1. /\ row' = row /\ run' = run /\ inquiry' = inquiry /\ effects' = effects
        /\ \A w \in Workers : run[w] # Idle => run[w].pc \notin {"authorize", "record"}
    BY DEF Tick, Disciplined, At
  <1>2. ASSUME NEW k \in Intents
        PROVE  KeyFits(k)' /\ Passes(k)
    <2>1. KeyFits(k)
      BY DEF KeysFit
    <2>2. /\ RowFits(row'[k], effects'[k])
          /\ \A p \in Operators : AskFits(k, inquiry'[p], row'[k], effects'[k])
      BY <1>1, <2>1 DEF KeyFits
    <2>3. \A w \in Workers : RunFits(k, w, run'[w], row'[k], effects'[k], now')
      BY <1>1, <2>1 DEF KeyFits, RunFits
    <2>4. Passes(k)
      BY <1>1 DEF Passes
    <2>. QED
      BY <2>2, <2>3, <2>4 DEF KeyFits
  <1>3. AskedAlone'
    BY <1>1 DEF KeysFit, AskedAlone
  <1>. QED
    BY <1>2, <1>3 DEF KeysFit

LEMMA ActionsFit ==
    ASSUME LedgerInv, KeysFit, Disciplined, OutboxNext
    PROVE  KeysFit' /\ \A j \in Intents : Passes(j)
  BY EnqueueFits, ReleaseActionFits, ClaimFits, BeginDispatchFits, AuthorizeFits, RefuseFits,
     RecordDispatchFits, SendFits, RecordAnswerFits, CrashWorkerFits, BeginReconcileFits,
     FinishReconcileFits, CrashOperatorFits, TickFits DEF OutboxNext, WorkerStep, OperatorStep

-----------------------------------------------------------------------------
(* The order within an aggregate.                                          *)
Siblings(k) == {j \in Enqueued : Aggregate[j] = Aggregate[k]}

Started == {"CLAIMED", "UNCERTAIN", "SENT"}

InOrder ==
    /\ \A k \in Enqueued : queued[k].seq <= Cardinality(Siblings(k))
    /\ \A j, k \in Intents :
           Earlier(k, j) /\ row[j].state # "ABSENT" /\ row[k].state \in Started =>
               row[j].state \in TERMINAL_STATES

(* An intent starts only when its predecessors have ended.                 *)
StartsInOrder ==
    \A j, k \in Intents :
        /\ row'[k].state \in Started /\ row[k].state \notin Started
        /\ Earlier(k, j) /\ row[j].state # "ABSENT"
        => row[j].state \in TERMINAL_STATES

LEMMA PassesFacts ==
    ASSUME NEW k \in Intents, Passes(k)
    PROVE  /\ row[k].state \in TERMINAL_STATES => row'[k].state = row[k].state
           /\ row[k].state # "ABSENT" => row'[k].state # "ABSENT"
           /\ row[k].state = "ABSENT" => row'[k].state \in {"ABSENT", "PENDING"}
           /\ row'[k].state \in Started /\ row[k].state \notin Started =>
                  row[k].state \in {"PENDING", "RETRY"} /\ row'[k].state = "CLAIMED"
           /\ effects'[k] # effects[k] => row[k].state = "UNCERTAIN"
  BY DEF Passes, TERMINAL_STATES, Blocked, Started

LEMMA SiblingsFinite ==
    ASSUME NEW k \in Intents
    PROVE  /\ IsFiniteSet(Siblings(k)) /\ Cardinality(Siblings(k)) \in Nat
  <1>1. IsFiniteSet(Siblings(k))
    BY OutboxAssumption, FS_Subset DEF Siblings, Enqueued
  <1>. QED
    BY <1>1, FS_CardinalityType

(* Nothing new is queued.                                                  *)
LEMMA OrderKept ==
    ASSUME InOrder, StartsInOrder, \A k \in Intents : Passes(k), queued' = queued,
           \A k \in Intents : row[k].state = "ABSENT" => row'[k].state = "ABSENT"
    PROVE  InOrder'
  <1>1. Enqueued' = Enqueued
    BY PassesFacts DEF Enqueued
  <1>2. \A k \in Enqueued' : queued'[k].seq <= Cardinality(Siblings(k)')
    <2>1. \A k \in Intents : Siblings(k)' = Siblings(k)
      BY <1>1 DEF Siblings
    <2>. QED
      BY <1>1, <2>1 DEF InOrder, Enqueued
  <1>3. ASSUME NEW j \in Intents, NEW k \in Intents,
               Earlier(k, j)', row'[j].state # "ABSENT", row'[k].state \in Started
        PROVE  row'[j].state \in TERMINAL_STATES
    <2>1. Earlier(k, j) /\ row[j].state # "ABSENT"
      BY <1>3, PassesFacts DEF Earlier
    <2>2. row[j].state \in TERMINAL_STATES
      BY <1>3, <2>1 DEF InOrder, StartsInOrder
    <2>. QED
      BY <2>2, PassesFacts
  <1>. QED
    BY <1>2, <1>3 DEF InOrder

(* A queued intent comes after every sibling.                              *)
LEMMA EnqueueInOrder ==
    ASSUME OutboxTypeOK, InOrder, NEW k \in Intents, Enqueue(k)
    PROVE  InOrder'
  <1>. DEFINE n == Cardinality(Siblings(k)) + 1
  <1>0. /\ row \in [Intents -> OutboxRow] /\ queued \in [Intents -> [at: Nat, seq: Nat]]
    BY TypeFacts
  <1>1. /\ row' = SetState(k, "PENDING") /\ row[k].state = "ABSENT"
        /\ queued' = [queued EXCEPT ![k] = [at |-> now, seq |-> n]]
    BY DEF Enqueue, Siblings
  <1>2. n \in Nat /\ n > Cardinality(Siblings(k))
    BY SiblingsFinite
  <1>3. /\ row'[k].state = "PENDING"
        /\ \A j \in Intents \ {k} : row'[j] = row[j]
    BY <1>0, <1>1, SetStateFacts DEF STATES
  <1>. HIDE DEF n
  <1>4. /\ queued'[k].seq = n
        /\ \A j \in Intents \ {k} : queued'[j] = queued[j]
    BY <1>0, <1>1
  <1>5. k \notin Enqueued /\ Enqueued' = Enqueued \cup {k}
    BY <1>1, <1>3 DEF Enqueued
  <1>6. ASSUME NEW j \in Intents, Aggregate[j] = Aggregate[k]
        PROVE  /\ Siblings(j)' = Siblings(k) \cup {k}
               /\ Cardinality(Siblings(j)') = n
    <2>1. Siblings(j)' = Siblings(k) \cup {k} /\ k \notin Siblings(k)
      BY <1>5, <1>6 DEF Siblings
    <2>2. Cardinality(Siblings(k) \cup {k}) = Cardinality(Siblings(k)) + 1
      BY <2>1, SiblingsFinite, FS_AddElement
    <2>. QED
      BY <2>1, <2>2 DEF n
  <1>7. ASSUME NEW j \in Enqueued'
        PROVE  queued'[j].seq <= Cardinality(Siblings(j)')
    <2>1. j \in Intents
      BY DEF Enqueued
    <2>2. CASE j = k
      BY <1>2, <1>4, <1>6, <2>2
    <2>3. CASE j # k /\ Aggregate[j] = Aggregate[k]
      <3>1. j \in Enqueued
        BY <1>5, <2>3
      <3>2. Siblings(j) = Siblings(k)
        BY <2>3 DEF Siblings
      <3>3. queued[j].seq <= Cardinality(Siblings(k)) /\ queued[j].seq \in Nat
        BY <1>0, <2>1, <3>1, <3>2 DEF InOrder
      <3>4. queued'[j].seq <= n
        BY <1>2, <1>4, <2>1, <2>3, <3>3, SiblingsFinite
      <3>. QED
        BY <1>6, <2>1, <2>3, <3>4
    <2>4. CASE j # k /\ Aggregate[j] # Aggregate[k]
      <3>1. j \in Enqueued
        BY <1>5, <2>4
      <3>2. Siblings(j)' = Siblings(j)
        BY <1>5, <2>4 DEF Siblings
      <3>. QED
        BY <1>4, <2>1, <2>4, <3>1, <3>2 DEF InOrder
    <2>. QED
      BY <2>2, <2>3, <2>4
  <1>8. ASSUME NEW j \in Intents, NEW i \in Intents,
               Earlier(i, j)', row'[j].state # "ABSENT", row'[i].state \in Started
        PROVE  row'[j].state \in TERMINAL_STATES
    <2>1. i # k /\ row[i].state \in Started
      BY <1>3, <1>8 DEF Started
    <2>2. CASE j # k
      <3>1. Earlier(i, j) /\ row[j].state # "ABSENT"
        BY <1>3, <1>4, <1>8, <2>1, <2>2 DEF Earlier
      <3>. QED
        BY <1>3, <2>1, <2>2, <3>1 DEF InOrder
    <2>3. CASE j = k
      <3>1. Aggregate[i] = Aggregate[k] /\ n < queued[i].seq
        BY <1>4, <1>8, <2>1, <2>3 DEF Earlier
      <3>2. i \in Enqueued
        BY <2>1 DEF Enqueued, Started
      <3>3. Siblings(i) = Siblings(k)
        BY <3>1 DEF Siblings
      <3>4. queued[i].seq <= Cardinality(Siblings(k)) /\ queued[i].seq \in Nat
        BY <1>0, <3>2, <3>3 DEF InOrder
      <3>. QED
        BY <1>2, <3>1, <3>4, SiblingsFinite
    <2>. QED
      BY <2>2, <2>3
  <1>. QED
    BY <1>7, <1>8 DEF InOrder

LEMMA ClaimsInOrder ==
    ASSUME OutboxTypeOK, NEW w \in Workers, ClaimNext(w)
    PROVE  /\ StartsInOrder /\ queued' = queued
           /\ \A k \in Intents : row[k].state = "ABSENT" => row'[k].state = "ABSENT"
  <1>0. row \in [Intents -> OutboxRow]
    BY TypeFacts
  <1>1. PICK k \in Intents :
            /\ Claimable(Released, k)
            /\ row'[k].state = "CLAIMED"
            /\ \A j \in Intents \ {k} : row'[j] = Released[j]
    BY ClaimFacts
  <1>2. \A j \in Intents : \/ Released[j] = row[j]
                           \/ row[j].state = "CLAIMED" /\ Released[j].state = "RETRY"
    BY <1>0, ReleasedFacts DEF ClaimExpired
  <1>3. ASSUME NEW j \in Intents, Earlier(k, j), row[j].state # "ABSENT"
        PROVE  row[j].state \in TERMINAL_STATES
    <2>1. Released[j].state \in TERMINAL_STATES
      BY <1>1, <1>3 DEF Claimable, Enqueued
    <2>. QED
      BY <1>2, <2>1 DEF TERMINAL_STATES
  <1>4. StartsInOrder
    BY <1>1, <1>2, <1>3 DEF StartsInOrder, Started
  <1>5. row[k].state # "ABSENT"
    BY <1>1, <1>2 DEF Claimable
  <1>6. queued' = queued
    BY DEF ClaimNext
  <1>. QED
    BY <1>1, <1>2, <1>4, <1>5, <1>6

(* Every other action leaves a row or settles it: none is queued or        *)
(* claimed by it.                                                          *)
Settles ==
    /\ queued' = queued
    /\ \A k \in Intents : row'[k] = row[k] \/ row'[k].state \notin {"PENDING", "CLAIMED"}

LEMMA SettlesInOrder ==
    ASSUME InOrder, Settles, \A k \in Intents : Passes(k)
    PROVE  InOrder'
  <1>1. \A k \in Intents : row[k].state = "ABSENT" => row'[k].state = "ABSENT"
    BY PassesFacts DEF Settles
  <1>2. StartsInOrder
    BY PassesFacts DEF Settles, StartsInOrder
  <1>. QED
    BY <1>1, <1>2, OrderKept DEF Settles

LEMMA SetStateSettles ==
    ASSUME row \in [Intents -> OutboxRow], queued' = queued, NEW k \in Intents, NEW s \in STATES,
           s \notin {"PENDING", "CLAIMED"}, row' = SetState(k, s)
    PROVE  Settles
  BY SetStateFacts DEF Settles

LEMMA ConfirmSettles ==
    ASSUME row \in [Intents -> OutboxRow], queued' = queued, NEW k \in Intents, NEW ref,
           Confirm(k, ref)
    PROVE  Settles
  <1>1. row' = row \/ row' = SetState(k, "CONFIRMED")
    BY DEF Confirm
  <1>. QED
    BY <1>1, SetStateSettles DEF Settles, STATES

LEMMA ActionsSettle ==
    ASSUME OutboxTypeOK,
           \/ ReleaseExpiredClaims \/ Tick
           \/ \E w \in Workers : WorkerStep(w) /\ ~ClaimNext(w)
           \/ \E p \in Operators : OperatorStep(p)
    PROVE  Settles
  <1>0. row \in [Intents -> OutboxRow]
    BY TypeFacts
  <1>1. CASE ReleaseExpiredClaims
    BY <1>0, <1>1, ReleasedFacts DEF ReleaseExpiredClaims, Settles
  <1>2. ASSUME row' = row, queued' = queued
        PROVE  Settles
    BY <1>2 DEF Settles
  <1>3. CASE Tick
    BY <1>2, <1>3 DEF Tick
  <1>4. ASSUME NEW w \in Workers, WorkerStep(w), ~ClaimNext(w)
        PROVE  Settles
    <2>1. CASE \/ \E k \in Intents : BeginDispatch(w, k)
               \/ AuthorizeDispatch(w) \/ Send(w) \/ CrashWorker(w)
      BY <1>2, <2>1 DEF BeginDispatch, AuthorizeDispatch, Send, CrashWorker
    <2>2. CASE RefuseDispatch(w)
      <3>1. run[w] # Idle /\ queued' = queued
        BY <2>2 DEF RefuseDispatch, At
      <3>2. run[w].key \in Intents
        BY <3>1, WorkerAt, RunFields
      <3>3. PICK s \in Blocked : row' = SetState(run[w].key, s)
        BY <2>2 DEF RefuseDispatch, Refusals, Blocked
      <3>4. s \in STATES /\ s \notin {"PENDING", "CLAIMED"}
        BY DEF Blocked, STATES
      <3>. QED
        BY <1>0, <3>1, <3>2, <3>3, <3>4, SetStateSettles
    <2>3. CASE RecordDispatch(w)
      <3>1. run[w] # Idle /\ queued' = queued
        BY <2>3 DEF RecordDispatch, At
      <3>. DEFINE k == run[w].key
                  r == [row[k] EXCEPT !.state = "UNCERTAIN"]
      <3>2. k \in Intents
        BY <3>1, WorkerAt, RunFields
      <3>3. row' \in {row, [row EXCEPT ![k] = r]}
        BY <2>3 DEF RecordDispatch
      <3>4. r.state = "UNCERTAIN"
        <4>1. row[k] \in OutboxRow
          BY <1>0, <3>2
        <4>. QED
          BY <4>1 DEF OutboxRow
      <3>. HIDE DEF r
      <3>. QED
        BY <1>0, <3>1, <3>2, <3>3, <3>4 DEF Settles
    <2>4. CASE RecordAnswer(w)
      <3>1. run[w] # Idle /\ run[w].pc = "answer" /\ queued' = queued
        BY <2>4 DEF RecordAnswer, At
      <3>2. run[w].key \in Intents /\ run[w].answer \in Answers
        BY <3>1, WorkerAt, RunFields
      <3>3. CASE run[w].answer = "CONFIRMED"
        BY <1>0, <2>4, <3>1, <3>2, <3>3, ConfirmSettles DEF RecordAnswer
      <3>4. CASE run[w].answer # "CONFIRMED"
        <4>1. row' = SetState(run[w].key, StateAfter(run[w].answer))
          BY <2>4, <3>4 DEF RecordAnswer
        <4>2. /\ StateAfter(run[w].answer) \in STATES
              /\ StateAfter(run[w].answer) \notin {"PENDING", "CLAIMED"}
          BY <3>2, <3>4 DEF StateAfter, Answers, STATES
        <4>. QED
          BY <1>0, <3>1, <3>2, <4>1, <4>2, SetStateSettles
      <3>. QED
        BY <3>3, <3>4
    <2>. QED
      BY <1>4, <2>1, <2>2, <2>3, <2>4 DEF WorkerStep
  <1>5. ASSUME NEW p \in Operators, OperatorStep(p)
        PROVE  Settles
    <2>1. CASE (\E k \in Intents : BeginReconcile(p, k)) \/ CrashOperator(p)
      BY <1>2, <2>1 DEF BeginReconcile, CrashOperator
    <2>2. CASE FinishReconcile(p)
      <3>1. inquiry[p] # Idle /\ queued' = queued
        BY <2>2 DEF FinishReconcile
      <3>2. inquiry[p].key \in Intents
        BY <3>1, OperatorAt, InquiryFields
      <3>3. CASE inquiry[p].found
        BY <1>0, <2>2, <3>1, <3>2, <3>3, ConfirmSettles DEF FinishReconcile
      <3>4. CASE ~inquiry[p].found
        <4>1. PICK s \in Blocked \cup {"RETRY"} : row' = SetState(inquiry[p].key, s)
          BY <2>2, <3>4 DEF FinishReconcile, Refusals, Blocked
        <4>2. s \in STATES /\ s \notin {"PENDING", "CLAIMED"}
          BY DEF Blocked, STATES
        <4>. QED
          BY <1>0, <3>1, <3>2, <4>1, <4>2, SetStateSettles
      <3>. QED
        BY <3>3, <3>4
    <2>. QED
      BY <1>5, <2>1, <2>2 DEF OperatorStep
  <1>. QED
    BY <1>1, <1>3, <1>4, <1>5

LEMMA OrderActions ==
    ASSUME OutboxTypeOK, InOrder, \A k \in Intents : Passes(k), OutboxNext
    PROVE  InOrder'
  <1>1. CASE \E k \in Intents : Enqueue(k)
    BY <1>1, EnqueueInOrder
  <1>2. CASE \E w \in Workers : ClaimNext(w)
    BY <1>2, ClaimsInOrder, OrderKept
  <1>3. CASE \/ ReleaseExpiredClaims \/ Tick
             \/ \E w \in Workers : WorkerStep(w) /\ ~ClaimNext(w)
             \/ \E p \in Operators : OperatorStep(p)
    BY <1>3, ActionsSettle, SettlesInOrder
  <1>. QED
    BY <1>1, <1>2, <1>3 DEF OutboxNext

-----------------------------------------------------------------------------
(* The invariant of disciplined callers.                                   *)
OutboxInv == LedgerInv /\ (Disciplined => KeysFit /\ InOrder)

StepInv ==
    /\ manners' = manners
    /\ Disciplined => \A k \in Intents : Passes(k)

LEMMA OutboxInvInit ==
    ASSUME OutboxInit
    PROVE  OutboxInv
  <1>1. LedgerInv
    BY LedgerInit
  <1>2. KeysFit
    BY DEF OutboxInit, KeysFit, AskedAlone, KeyFits, RowFits, RunFits, AskFits
  <1>3. InOrder
    BY DEF OutboxInit, InOrder, Enqueued, Started
  <1>. QED
    BY <1>1, <1>2, <1>3 DEF OutboxInv

LEMMA MannersStay ==
    ASSUME OutboxNext
    PROVE  manners' = manners
  BY DEF OutboxNext, WorkerStep, OperatorStep, Enqueue, ReleaseExpiredClaims, ClaimNext,
     BeginDispatch, AuthorizeDispatch, RefuseDispatch, RecordDispatch, Send, RecordAnswer,
     CrashWorker, BeginReconcile, FinishReconcile, CrashOperator, Tick

LEMMA OutboxInvStep ==
    ASSUME OutboxInv, [OutboxNext]_ovars
    PROVE  OutboxInv' /\ StepInv
  <1>1. CASE OutboxNext
    <2>1. LedgerInv /\ LedgerInv' /\ OutboxTypeOK
      BY <1>1, LedgerActions DEF OutboxInv, LedgerInv
    <2>2. manners' = manners /\ (Disciplined' => Disciplined)
      BY <1>1, MannersStay DEF Disciplined
    <2>3. Disciplined => KeysFit' /\ \A k \in Intents : Passes(k)
      BY <1>1, <2>1, ActionsFit DEF OutboxInv
    <2>4. Disciplined => InOrder'
      BY <1>1, <2>1, <2>3, OrderActions DEF OutboxInv
    <2>. QED
      BY <2>1, <2>2, <2>3, <2>4 DEF OutboxInv, StepInv
  <1>2. CASE UNCHANGED ovars
    <2>1. /\ row' = row /\ queued' = queued /\ run' = run /\ inquiry' = inquiry
          /\ effects' = effects /\ now' = now /\ manners' = manners
      BY <1>2 DEF ovars
    <2>2. LedgerInv'
      BY <1>2, LedgerStutters DEF OutboxInv
    <2>3. Disciplined' => Disciplined
      BY <2>1 DEF Disciplined
    <2>4. KeysFit => KeysFit'
      BY <2>1 DEF KeysFit, AskedAlone, KeyFits
    <2>5. InOrder => InOrder'
      BY <2>1 DEF InOrder, Enqueued, Siblings, Earlier
    <2>6. \A k \in Intents : Passes(k)
      BY <2>1 DEF Passes
    <2>. QED
      BY <2>1, <2>2, <2>3, <2>4, <2>5, <2>6 DEF OutboxInv, StepInv
  <1>. QED
    BY <1>1, <1>2

LEMMA OutboxInvHolds == OutboxSpec => []OutboxInv
  BY OutboxInvInit, OutboxInvStep, PTL DEF OutboxSpec

(* With disciplined callers an effect that happened is being answered for, *)
(* ambiguous, sent or confirmed: it is never queued again or given up.     *)
THEOREM EffectsAreAccountedFor == OutboxSpec => []EffectIsAccountedFor
  <1>1. OutboxInv => EffectIsAccountedFor
    <2>. SUFFICES ASSUME OutboxInv, Disciplined, NEW k \in Intents, effects[k] > 0
                  PROVE  row[k].state \in {"UNCERTAIN", "SENT", "CONFIRMED"}
      BY DEF EffectIsAccountedFor
    <2>1. RowFits(row[k], effects[k])
      BY DEF OutboxInv, KeysFit, KeyFits
    <2>2. effects[k] = 1
      BY <2>1 DEF RowFits
    <2>. QED
      BY <2>1, <2>2 DEF RowFits
  <1>. QED
    BY <1>1, OutboxInvHolds, PTL

(* The promise that callers without discipline break: with disciplined     *)
(* ones no effect happens twice, although workers crash, claims expire     *)
(* under them and answers are lost.                                        *)
THEOREM DisciplinedEffectsAreSingle == OutboxSpec => [](Disciplined => AtMostOneEffect)
  <1>1. OutboxInv => (Disciplined => AtMostOneEffect)
    <2>. SUFFICES ASSUME OutboxInv, Disciplined, NEW k \in Intents
                  PROVE  effects[k] <= 1
      BY DEF AtMostOneEffect
    <2>1. effects[k] \in {0, 1}
      BY DEF OutboxInv, KeysFit, KeyFits, RowFits
    <2>. QED
      BY <2>1
  <1>. QED
    BY <1>1, OutboxInvHolds, PTL

(* With disciplined callers the effects of an aggregate happen in the      *)
(* order of its queue.                                                     *)
THEOREM EffectsAreInOrder == OutboxSpec => AggregateOrder
  <1>1. OutboxInv /\ [OutboxNext]_ovars =>
            [\A j, k \in Intents :
                (Disciplined /\ effects'[k] > effects[k] /\ Earlier(k, j) /\ row[j].state # "ABSENT") =>
                    row[j].state \in TERMINAL_STATES]_ovars
    <2>. SUFFICES ASSUME OutboxInv, [OutboxNext]_ovars, Disciplined,
                         NEW j \in Intents, NEW k \in Intents,
                         effects'[k] > effects[k], Earlier(k, j), row[j].state # "ABSENT"
                  PROVE  row[j].state \in TERMINAL_STATES
      OBVIOUS
    <2>1. effects[k] \in Nat /\ Passes(k)
      BY OutboxInvStep, TypeFacts DEF OutboxInv, LedgerInv, StepInv
    <2>2. effects'[k] # effects[k]
      BY <2>1
    <2>3. row[k].state \in Started
      BY <2>1, <2>2, PassesFacts DEF Started
    <2>. QED
      BY <2>3 DEF OutboxInv, InOrder
  <1>. QED
    BY <1>1, OutboxInvHolds, PTL DEF OutboxSpec, AggregateOrder

(* Disciplined callers see every intent live as IntentLifecycle says.      *)
LEMMA PassesAreMoves ==
    ASSUME NEW k \in Intents, row[k] \in OutboxRow, row'[k] \in OutboxRow, Passes(k),
           effects[k] \in {0, 1}
    PROVE  Lifecycle!Moves(PhaseOf(row[k].state), effects[k], PhaseOf(row'[k].state), effects'[k])
  <1>. DEFINE p == row[k].state
              q == row'[k].state
  <1>1. p \in STATES \cup {"ABSENT"} /\ q \in STATES \cup {"ABSENT"}
    BY DEF OutboxRow
  <1>. QED
    BY <1>1 DEF Passes, Lifecycle!Moves, PhaseOf, STATES, Blocked

(* The images of the two variables of IntentLifecycle.                     *)
Phase == [k \in Intents |-> IF Disciplined THEN PhaseOf(row[k].state) ELSE "absent"]
Happened == [k \in Intents |-> IF Disciplined THEN effects[k] ELSE 0]

ImagesTypeOK ==
    Phase \in [Intents -> Lifecycle!Phases] /\ Happened \in [Intents -> {0, 1}]

LEMMA ImagesType ==
    ASSUME OutboxInv
    PROVE  ImagesTypeOK
  <1>1. ASSUME NEW k \in Intents
        PROVE  PhaseOf(row[k].state) \in Lifecycle!Phases
    <2>1. row[k].state \in STATES \cup {"ABSENT"}
      BY TypeFacts DEF OutboxInv, LedgerInv, OutboxRow
    <2>. QED
      BY <2>1 DEF PhaseOf, STATES, Lifecycle!Phases
  <1>2. Disciplined => \A k \in Intents : effects[k] \in {0, 1}
    BY DEF OutboxInv, KeysFit, KeyFits, RowFits
  <1>. QED
    BY <1>1, <1>2 DEF ImagesTypeOK, Phase, Happened, Lifecycle!Phases

LEMMA ImagesMove ==
    ASSUME OutboxInv, OutboxInv', StepInv
    PROVE  \A k \in Intents : Lifecycle!Moves(Phase[k], Happened[k], Phase'[k], Happened'[k])
  <1>2. Disciplined' <=> Disciplined
    BY DEF StepInv, Disciplined
  <1>3. ASSUME NEW k \in Intents
        PROVE  Lifecycle!Moves(Phase[k], Happened[k], Phase'[k], Happened'[k])
    <2>1. CASE ~Disciplined
      BY <1>2, <2>1 DEF Phase, Happened, Lifecycle!Moves
    <2>2. CASE Disciplined
      <3>1. row[k] \in OutboxRow /\ row'[k] \in OutboxRow
        BY DEF OutboxInv, LedgerInv, OutboxTypeOK
      <3>2. effects[k] \in {0, 1} /\ Passes(k)
        BY <2>2 DEF OutboxInv, StepInv, KeysFit, KeyFits, RowFits
      <3>3. /\ Phase[k] = PhaseOf(row[k].state) /\ Phase'[k] = PhaseOf(row'[k].state)
            /\ Happened[k] = effects[k] /\ Happened'[k] = effects'[k]
        BY <1>2, <2>2 DEF Phase, Happened
      <3>. QED
        BY <3>1, <3>2, <3>3, PassesAreMoves
    <2>. QED
      BY <2>1, <2>2
  <1>. QED
    BY <1>3

THEOREM OutboxImplementsLifecycle == OutboxSpec => ImplementsLifecycle
  <1>1. OutboxInit => Lifecycle!LifecycleInit
    BY DEF OutboxInit, Lifecycle!LifecycleInit, PhaseOf
  <1>2. OutboxInv /\ OutboxInv' /\ ImagesTypeOK' /\ StepInv =>
            [Lifecycle!LifecycleNext]_(Lifecycle!lvars)
    BY ImagesMove DEF ImagesTypeOK, Phase, Happened, Lifecycle!LifecycleNext
  <1>3. OutboxInv /\ [OutboxNext]_ovars => OutboxInv' /\ StepInv
    BY OutboxInvStep
  <1>. QED
    BY <1>1, <1>2, <1>3, ImagesType, OutboxInvHolds, PTL
    DEF OutboxSpec, ImplementsLifecycle, Lifecycle!LifecycleSpec

=============================================================================
