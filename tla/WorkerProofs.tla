---------------------------- MODULE WorkerProofs ----------------------------
(***************************************************************************)
(* Proofs about the global worker.  First the receipts of a batch, then    *)
(* what runs and administrator sessions make of the file they share.       *)
(***************************************************************************)
EXTENDS GlobalWorker, FiniteSetTheorems, NaturalLemmas, TLAPS

Sorted(q) == \A i, j \in DOMAIN q : i < j => Earlier(q[i], q[j])

(* The occurrence that is due first.                                       *)
LEMMA FirstOccurrence ==
    ASSUME NEW D \in SUBSET Occurrence, D # {}
    PROVE  \E m \in D : \A p \in D \ {m} : Earlier(m, p)
  <1>1. \A o \in Occurrence : o[1] \in Nat /\ o[2] \in Nat /\ o = <<o[1], o[2]>>
    <2>. SUFFICES ASSUME NEW o \in Occurrence
                  PROVE  o[1] \in Nat /\ o[2] \in Nat /\ o = <<o[1], o[2]>>
      OBVIOUS
    <2>1. PICK s \in Schedules, t \in Nat : o = <<s, t>>
      BY DEF Occurrence
    <2>2. s \in Nat
      BY ExecutorAssumption
    <2>. QED
      BY <2>1, <2>2
  <1>. DEFINE Times == {o[2] : o \in D}
  <1>2. PICK t \in Times : \A u \in Times : t <= u
    <2>1. Times \in SUBSET Nat /\ Times # {}
      BY <1>1
    <2>. HIDE DEF Times
    <2>. QED
      BY <2>1, LeastNatural
  <1>. DEFINE Now == {o[1] : o \in {p \in D : p[2] = t}}
  <1>3. PICK s \in Now : \A u \in Now : s <= u
    <2>1. Now \in SUBSET Nat /\ Now # {}
      BY <1>1, <1>2
    <2>. HIDE DEF Now
    <2>. QED
      BY <2>1, LeastNatural
  <1>4. PICK m \in D : m[2] = t /\ m[1] = s
    BY <1>3
  <1>5. ASSUME NEW p \in D, p # m
        PROVE  Earlier(m, p)
    <2>1. t <= p[2] /\ p[2] \in Nat /\ t \in Nat /\ p[1] \in Nat /\ s \in Nat
      BY <1>1, <1>2, <1>4
    <2>2. CASE p[2] = t
      <3>1. p[1] \in Now
        BY <2>2
      <3>2. s <= p[1]
        BY <1>3, <3>1
      <3>3. p[1] # s
        BY <1>1, <1>4, <1>5, <2>2
      <3>. QED
        BY <1>4, <2>1, <2>2, <3>2, <3>3 DEF Earlier
    <2>3. CASE p[2] # t
      BY <1>4, <2>1, <2>3 DEF Earlier
    <2>. QED
      BY <2>2, <2>3
  <1>. QED
    BY <1>5

(* A sorted listing of all but the first extends to one of all.            *)
LEMMA SortedExtends ==
    ASSUME NEW D \in SUBSET Occurrence, NEW n \in Nat \ {0},
           NEW m \in D, \A p \in D \ {m} : Earlier(m, p),
           NEW q \in [1..(n - 1) -> D \ {m}], Sorted(q),
           \A i, j \in 1..(n - 1) : i # j => q[i] # q[j]
    PROVE  \E r \in [1..n -> D] : Sorted(r) /\ \A i, j \in 1..n : i # j => r[i] # r[j]
  <1>. DEFINE r == [i \in 1..n |-> IF i = 1 THEN m ELSE q[i - 1]]
  <1>1. \A i \in 1..n : i # 1 => i - 1 \in 1..(n - 1)
    OBVIOUS
  <1>2. r \in [1..n -> D]
    BY <1>1
  <1>3. \A i \in 1..n : i # 1 => r[i] = q[i - 1] /\ r[i] \in D \ {m}
    BY <1>1
  <1>4. 1 \in 1..n /\ r[1] = m
    OBVIOUS
  <1>. HIDE DEF r
  <1>5. ASSUME NEW i \in 1..n, NEW j \in 1..n, i < j
        PROVE  Earlier(r[i], r[j]) /\ r[i] # r[j]
    <2>1. j # 1 /\ j - 1 \in 1..(n - 1)
      BY <1>5
    <2>2. CASE i = 1
      BY <1>3, <1>4, <2>1, <2>2
    <2>3. CASE i # 1
      <3>1. i - 1 \in 1..(n - 1) /\ i - 1 < j - 1 /\ i - 1 # j - 1
        BY <1>5, <2>3
      <3>2. Earlier(q[i - 1], q[j - 1])
        BY <2>1, <3>1 DEF Sorted
      <3>3. q[i - 1] # q[j - 1]
        BY <2>1, <3>1
      <3>. QED
        BY <1>3, <2>1, <2>3, <3>2, <3>3
    <2>. QED
      BY <2>2, <2>3
  <1>6. Sorted(r)
    BY <1>2, <1>5 DEF Sorted
  <1>7. \A i, j \in 1..n : i # j => r[i] # r[j]
    <2>. SUFFICES ASSUME NEW i \in 1..n, NEW j \in 1..n, i # j
                  PROVE  r[i] # r[j]
      OBVIOUS
    <2>1. i < j \/ j < i
      OBVIOUS
    <2>. QED
      BY <1>5, <2>1
  <1>. QED
    BY <1>2, <1>6, <1>7

(* Every finite set of occurrences can be listed in order: a smallest one  *)
(* that cannot would be empty, or lose its first occurrence.               *)
LEMMA OrderExists ==
    ASSUME NEW D \in SUBSET Occurrence, IsFiniteSet(D)
    PROVE  InOrder(D) \in SetToSeqs(D) /\ Sorted(InOrder(D))
  <1>. DEFINE Listed(E) == \E q \in SetToSeqs(E) : Sorted(q)
              Bad == {n \in Nat : \E E \in SUBSET Occurrence :
                          IsFiniteSet(E) /\ Cardinality(E) = n /\ ~Listed(E)}
  <1>1. Bad = {}
    <2>. SUFFICES ASSUME Bad # {}
                  PROVE  FALSE
      OBVIOUS
    <2>1. PICK n \in Bad : \A k \in Bad : n <= k
      <3>1. Bad \in SUBSET Nat
        OBVIOUS
      <3>. HIDE DEF Bad
      <3>. QED
        BY <3>1, LeastNatural
    <2>2. PICK E \in SUBSET Occurrence :
              IsFiniteSet(E) /\ Cardinality(E) = n /\ ~Listed(E)
      OBVIOUS
    <2>3. n \in Nat
      OBVIOUS
    <2>4. CASE E = {}
      <3>1. n = 0
        BY <2>2, <2>4, FS_EmptySet
      <3>2. 1..0 = {}
        OBVIOUS
      <3>. DEFINE q == [i \in {} |-> i]
      <3>3. q \in SetToSeqs(E) /\ Sorted(q)
        BY <2>2, <2>4, <3>1, <3>2 DEF SetToSeqs, Sorted
      <3>. QED
        BY <2>2, <3>3
    <2>5. CASE E # {}
      <3>1. PICK m \in E : \A p \in E \ {m} : Earlier(m, p)
        BY <2>5, FirstOccurrence
      <3>2. IsFiniteSet(E \ {m}) /\ Cardinality(E \ {m}) = n - 1
        BY <2>2, FS_RemoveElement
      <3>3. n # 0 /\ n - 1 \in Nat
        BY <2>2, <2>3, <2>5, FS_EmptySet
      <3>4. n - 1 \notin Bad
        BY <2>1, <2>3
      <3>5. Listed(E \ {m})
        BY <3>2, <3>3, <3>4
      <3>6. PICK q \in SetToSeqs(E \ {m}) : Sorted(q)
        BY <3>5
      <3>7. /\ q \in [1..(n - 1) -> E \ {m}]
            /\ \A i, j \in 1..(n - 1) : i # j => q[i] # q[j]
        BY <3>2 DEF SetToSeqs
      <3>. HIDE DEF Bad, Listed
      <3>8. \E r \in [1..n -> E] : Sorted(r) /\ \A i, j \in 1..n : i # j => r[i] # r[j]
        BY <2>3, <3>1, <3>3, <3>6, <3>7, SortedExtends
      <3>9. Listed(E)
        BY <2>2, <3>8 DEF Listed, SetToSeqs
      <3>. QED
        BY <2>2, <3>9
    <2>. QED
      BY <2>4, <2>5
  <1>2. Cardinality(D) \in Nat
    BY FS_CardinalityType
  <1>3. Listed(D)
    BY <1>1, <1>2
  <1>. QED
    BY <1>3 DEF InOrder, Sorted

-----------------------------------------------------------------------------
(* What is due, and what a batch leaves in the receipts.                   *)
LEMMA DueType ==
    ASSUME NEW t \in Nat
    PROVE  /\ DueAt(t) \subseteq Occurrence /\ IsFiniteSet(DueAt(t))
           /\ Batch(t) \subseteq Occurrence /\ IsFiniteSet(Batch(t))
  <1>1. ASSUME NEW s \in Schedules, Cadence[s].at <= t
        PROVE  PreviousDue(s, t) \in Nat
    <2>1. Cadence[s].at \in Nat /\ Cadence[s].every \in Nat
      BY ExecutorAssumption
    <2>. DEFINE k == (t - Cadence[s].at) \div Cadence[s].every
    <2>2. CASE Cadence[s].every # 0
      <3>1. t - Cadence[s].at \in Nat /\ Cadence[s].every \in Nat \ {0}
        BY <1>1, <2>1, <2>2
      <3>2. k \in Nat
        BY <3>1
      <3>. HIDE DEF k
      <3>3. k * Cadence[s].every \in Nat
        BY <2>1, <3>2
      <3>. QED
        BY <2>1, <2>2, <3>3 DEF PreviousDue, k
    <2>. QED
      BY <2>1, <2>2 DEF PreviousDue
  <1>2. DueAt(t) \subseteq Occurrence
    BY <1>1 DEF DueAt, Occurrence
  <1>3. IsFiniteSet(DueAt(t))
    <2>. DEFINE S == {u \in Schedules : Cadence[u].at <= t}
    <2>1. IsFiniteSet(S)
      BY ExecutorAssumption, FS_Subset
    <2>. HIDE DEF S
    <2>2. IsFiniteSet({<<s, PreviousDue(s, t)>> : s \in S})
      <3>. DEFINE f == [s \in S |-> <<s, PreviousDue(s, t)>>]
                  I == {<<s, PreviousDue(s, t)>> : s \in S}
      <3>1. f \in Surjection(S, I)
        BY DEF Surjection
      <3>. HIDE DEF f, I
      <3>2. IsFiniteSet(I)
        BY <2>1, <3>1, FS_Surjection
      <3>. QED
        BY <3>2 DEF I
    <2>. QED
      BY <2>2 DEF DueAt, S
  <1>. QED
    BY <1>2, <1>3, FS_Subset DEF Batch

LEMMA NewReceiptType ==
    ASSUME NEW rs, NEW o \in Occurrence, NEW outcome \in Outcomes, NEW t \in Nat,
           IsFiniteSet(DOMAIN rs)
    PROVE  NewReceipt(rs, o, outcome, t) \in Receipt
  <1>1. Failures(rs, o) \in Nat
    BY FS_CardinalityType, FS_Subset DEF Failures
  <1>2. outcome \in ReceiptStates
    BY GlobalAssumption
  <1>3. Failures(rs, o) + 1 < MaxAttempts => RetryBackoff[Failures(rs, o) + 1] \in Nat
    BY <1>1, ExecutorAssumption
  <1>. QED
    BY <1>1, <1>2, <1>3 DEF NewReceipt, Receipt

LEMMA NewestType ==
    ASSUME NEW rs \in Seq(Receipt)
    PROVE  Newest(rs) \in Seq(Receipt)
  BY ExecutorAssumption DEF Newest

LEMMA AfterBatchType ==
    ASSUME NEW rs \in Seq(Receipt), NEW D \in SUBSET Occurrence, IsFiniteSet(D),
           NEW outcome \in [D -> Outcomes], NEW t \in Nat
    PROVE  AfterBatch(rs, outcome, t) \in Seq(Receipt)
  <1>. DEFINE order == InOrder(D)
              new == [i \in DOMAIN order |-> NewReceipt(rs, order[i], outcome[order[i]], t)]
  <1>1. order \in [1..Cardinality(D) -> D] /\ Cardinality(D) \in Nat
    BY OrderExists, FS_CardinalityType DEF SetToSeqs
  <1>2. IsFiniteSet(DOMAIN rs)
    <2>1. DOMAIN rs = 1..Len(rs) /\ Len(rs) \in Nat
      OBVIOUS
    <2>. QED
      BY <2>1, FS_Interval
  <1>3. new \in [1..Cardinality(D) -> Receipt]
    <2>. HIDE DEF order
    <2>. QED
      BY <1>1, <1>2, NewReceiptType
  <1>4. new \in Seq(Receipt)
    <2>. HIDE DEF new
    <2>. QED
      BY <1>1, <1>3
  <1>5. AfterBatch(rs, outcome, t) = Newest(rs \o new)
    BY DEF AfterBatch
  <1>. HIDE DEF new
  <1>6. rs \o new \in Seq(Receipt)
    BY <1>4
  <1>. QED
    BY <1>5, <1>6, NewestType

-----------------------------------------------------------------------------
(* The records of the model, and what the program makes of them.           *)
LEMMA FileFields ==
    ASSUME NEW f \in File
    PROVE  /\ f.state \in GlobalStates /\ f.arm \in Nat /\ f.fence \in Nat
           /\ f.lease \in Lease \cup {Nobody} /\ f.tick \in Tick_ \cup {Nobody}
           /\ f.receipts \in Seq(Receipt) /\ f.edits \in Nat
           /\ f = [state |-> f.state, arm |-> f.arm, fence |-> f.fence, lease |-> f.lease,
                   tick |-> f.tick, receipts |-> f.receipts, edits |-> f.edits]
  BY DEF File

LEMMA FileMade ==
    ASSUME NEW state \in GlobalStates, NEW arm \in Nat, NEW fence \in Nat,
           NEW lease \in Lease \cup {Nobody}, NEW tick \in Tick_ \cup {Nobody},
           NEW receipts \in Seq(Receipt), NEW edits \in Nat
    PROVE  [state |-> state, arm |-> arm, fence |-> fence, lease |-> lease,
            tick |-> tick, receipts |-> receipts, edits |-> edits] \in File
  BY DEF File

LEMMA UnclaimedType ==
    ASSUME NEW f \in File
    PROVE  /\ Unclaimed(f) \in File
           /\ Unclaimed(f) = [state |-> f.state, arm |-> f.arm, fence |-> f.fence, lease |-> Nobody,
                              tick |-> Nobody, receipts |-> f.receipts, edits |-> f.edits]
  <1>1. Unclaimed(f) = [state |-> f.state, arm |-> f.arm, fence |-> f.fence, lease |-> Nobody,
                        tick |-> Nobody, receipts |-> f.receipts, edits |-> f.edits]
    <2>. DEFINE g == [f EXCEPT !.lease = Nobody]
    <2>1. g = [state |-> f.state, arm |-> f.arm, fence |-> f.fence, lease |-> Nobody,
               tick |-> f.tick, receipts |-> f.receipts, edits |-> f.edits]
      BY DEF File
    <2>2. Unclaimed(f) = [g EXCEPT !.tick = Nobody]
      BY DEF Unclaimed
    <2>. HIDE DEF g
    <2>. QED
      BY <2>1, <2>2
  <1>2. Nobody \in Lease \cup {Nobody} /\ Nobody \in Tick_ \cup {Nobody}
    OBVIOUS
  <1>. QED
    BY <1>1, <1>2, FileFields DEF File

LEMMA StateSet ==
    ASSUME NEW f \in File, NEW state \in GlobalStates
    PROVE  /\ [f EXCEPT !.state = state] \in File
           /\ [f EXCEPT !.state = state]
                = [state |-> state, arm |-> f.arm, fence |-> f.fence, lease |-> f.lease,
                   tick |-> f.tick, receipts |-> f.receipts, edits |-> f.edits]
  <1>1. [f EXCEPT !.state = state]
            = [state |-> state, arm |-> f.arm, fence |-> f.fence, lease |-> f.lease,
               tick |-> f.tick, receipts |-> f.receipts, edits |-> f.edits]
    BY DEF File
  <1>. QED
    BY <1>1, FileFields DEF File

LEMMA ArmedSet ==
    ASSUME NEW f \in File, NEW arm \in Nat
    PROVE  /\ [f EXCEPT !.state = "ARMED", !.arm = arm] \in File
           /\ [f EXCEPT !.state = "ARMED", !.arm = arm]
                = [state |-> "ARMED", arm |-> arm, fence |-> f.fence, lease |-> f.lease,
                   tick |-> f.tick, receipts |-> f.receipts, edits |-> f.edits]
  <1>1. [f EXCEPT !.state = "ARMED", !.arm = arm]
            = [state |-> "ARMED", arm |-> arm, fence |-> f.fence, lease |-> f.lease,
               tick |-> f.tick, receipts |-> f.receipts, edits |-> f.edits]
    <2>. DEFINE g == [f EXCEPT !.state = "ARMED"]
    <2>1. g = [state |-> "ARMED", arm |-> f.arm, fence |-> f.fence, lease |-> f.lease,
               tick |-> f.tick, receipts |-> f.receipts, edits |-> f.edits]
      BY DEF File
    <2>2. [f EXCEPT !.state = "ARMED", !.arm = arm] = [g EXCEPT !.arm = arm]
      OBVIOUS
    <2>. HIDE DEF g
    <2>. QED
      BY <2>1, <2>2
  <1>2. "ARMED" \in GlobalStates
    BY DEF GlobalStates
  <1>. QED
    BY <1>1, <1>2, FileFields DEF File

LEMMA ReceiptsSet ==
    ASSUME NEW f \in File, NEW receipts \in Seq(Receipt)
    PROVE  /\ [f EXCEPT !.receipts = receipts] \in File
           /\ [f EXCEPT !.receipts = receipts]
                = [state |-> f.state, arm |-> f.arm, fence |-> f.fence, lease |-> f.lease,
                   tick |-> f.tick, receipts |-> receipts, edits |-> f.edits]
  <1>1. [f EXCEPT !.receipts = receipts]
            = [state |-> f.state, arm |-> f.arm, fence |-> f.fence, lease |-> f.lease,
               tick |-> f.tick, receipts |-> receipts, edits |-> f.edits]
    BY DEF File
  <1>. QED
    BY <1>1, FileFields DEF File

LEMMA EditsSet ==
    ASSUME NEW f \in File, NEW n \in Nat
    PROVE  /\ [f EXCEPT !.edits = n] \in File
           /\ [f EXCEPT !.edits = n]
                = [state |-> f.state, arm |-> f.arm, fence |-> f.fence, lease |-> f.lease,
                   tick |-> f.tick, receipts |-> f.receipts, edits |-> n]
  <1>1. [f EXCEPT !.edits = n]
            = [state |-> f.state, arm |-> f.arm, fence |-> f.fence, lease |-> f.lease,
               tick |-> f.tick, receipts |-> f.receipts, edits |-> n]
    BY DEF File
  <1>. QED
    BY <1>1, FileFields DEF File

(* What a run and what a session make of a file they read.                 *)
ClaimFrom(f, g) ==
    /\ g.state = f.state /\ g.arm = f.arm /\ g.edits = f.edits /\ g.receipts = f.receipts
    /\ g.lease # Nobody
    /\ f.lease = Nobody => g.fence = f.fence + 1

(* A claim announces the batch of its moment under the token of its lease. *)
ClaimOf(f, t) ==
    /\ f.state = "ARMED"
    /\ f.tick # Nobody
    /\ f.tick.token = f.lease.token /\ f.lease.token \in Nat
    /\ f.tick.work = Batch(t)

LEMMA ClaimedType ==
    ASSUME NEW f \in File, NEW r \in Runtimes, NEW t \in Nat, NEW token \in Nat,
           f.state = "ARMED"
    PROVE  /\ Claimed(f, r, t, token) \in File /\ ClaimOf(Claimed(f, r, t, token), t)
           /\ ClaimFrom(f, Claimed(f, r, t, token))
  <1>. DEFINE own == LeaseActive(f, t)
              fence == IF own THEN f.lease.fence ELSE f.fence + 1
              proof == IF own THEN f.lease.token ELSE token
              lease == [owner |-> r, token |-> proof, fence |-> fence, until |-> t + LeaseSeconds]
              tick == [owner |-> r, token |-> proof, fence |-> fence, at |-> t, work |-> Batch(t)]
              most == IF fence > f.fence THEN fence ELSE f.fence
  <1>1. own => f.lease \in Lease
    BY FileFields DEF LeaseActive
  <1>2. fence \in Nat /\ proof \in Nat
    BY <1>1, FileFields DEF Lease
  <1>. HIDE DEF own, fence, proof
  <1>3. lease \in Lease
    BY <1>2, GlobalAssumption DEF Lease
  <1>4. tick \in Tick_
    BY <1>2, DueType DEF Tick_
  <1>5. most \in Nat
    BY <1>2, FileFields
  <1>6. Claimed(f, r, t, token)
            = [f EXCEPT !.fence = most, !.lease = lease, !.tick = tick]
    BY FileFields DEF Claimed, own, fence, proof
  <1>7. /\ tick # Nobody /\ tick.token = lease.token /\ lease.token \in Nat /\ tick.work = Batch(t)
        /\ lease # Nobody
    BY <1>2, <1>3, <1>4, GlobalAssumption
  <1>10. f.lease = Nobody => most = f.fence + 1
    BY FileFields DEF LeaseActive, own, fence
  <1>. HIDE DEF most, lease, tick
  <1>8. Claimed(f, r, t, token)
            = [state |-> f.state, arm |-> f.arm, fence |-> most, lease |-> lease,
               tick |-> tick, receipts |-> f.receipts, edits |-> f.edits]
    BY <1>6, FileFields
  <1>9. Claimed(f, r, t, token) \in File
    BY <1>3, <1>4, <1>5, <1>8, FileFields, FileMade
  <1>. QED
    BY <1>7, <1>8, <1>9, <1>10 DEF ClaimOf, ClaimFrom

LEMMA RunFields ==
    ASSUME NEW v \in Run
    PROVE  /\ v.pc \in {"loaded", "claimed", "executed"} /\ v.at \in Nat /\ v.sha \in Nat
           /\ v.base \in File /\ v.next \in File
           /\ v = [pc |-> v.pc, at |-> v.at, sha |-> v.sha, base |-> v.base, next |-> v.next]
           /\ v # Blank /\ v # Over
  BY GlobalAssumption DEF Run

LEMMA RunMade ==
    ASSUME NEW pc \in {"loaded", "claimed", "executed"}, NEW at \in Nat, NEW n \in Nat,
           NEW base \in File, NEW next \in File
    PROVE  [pc |-> pc, at |-> at, sha |-> n, base |-> base, next |-> next] \in Run
  BY DEF Run

Deeds == {"nothing", "save", "persist", "arming", "restore"}

LEMMA SessionFields ==
    ASSUME NEW v \in Session
    PROVE  /\ v.work \in File /\ v.source \in File /\ v.dirty \in BOOLEAN
           /\ v.seen \in Nat /\ v.doing \in Deeds
           /\ v = [work |-> v.work, source |-> v.source, dirty |-> v.dirty,
                   seen |-> v.seen, doing |-> v.doing]
           /\ v # Blank
  BY GlobalAssumption DEF Session, Deeds

LEMMA SessionMade ==
    ASSUME NEW work \in File, NEW source \in File, NEW dirty \in BOOLEAN,
           NEW seen \in Nat, NEW doing \in Deeds
    PROVE  LET v == [work |-> work, source |-> source, dirty |-> dirty,
                     doing |-> doing, seen |-> seen]
           IN  v \in Session /\ v # Blank
  BY GlobalAssumption DEF Session, Deeds

-----------------------------------------------------------------------------
(* The invariant.  A copy whose SHA is still the file's is the file, and   *)
(* every run works on a copy that is armed.                                *)
RunOK(v, f, n) ==
    /\ v.sha <= n
    /\ v.sha = n => v.base = f
    /\ v.base.state = "ARMED"
    /\ v.pc = "loaded" => v.base.tick = Nobody /\ ClaimOf(v.next, v.at)
    /\ v.pc # "loaded" => ClaimOf(v.base, v.at)

HeldCopy(v) == IF v.doing = "arming" THEN v.work ELSE v.source

SessionOK(v, f, n) ==
    v.doing # "nothing" => v.seen <= n /\ (v.seen = n => HeldCopy(v) = f)

CopiesOK ==
    /\ \A r \in Runtimes : run[r] \notin {Blank, Over} => RunOK(run[r], file, sha)
    /\ \A u \in Sessions : session[u] # Blank => SessionOK(session[u], file, sha)

WorkerInv == GlobalTypeOK /\ CopiesOK /\ UnrecordedRunsAreFlagged

RegisterStep == Register!RNext \/ UNCHANGED Register!cvars

QuietStep == file.state # "ARMED" /\ session' = session => file' = file

SafeStep == WorkerInv' /\ RegisterStep /\ QuietStep

(* What has happened to the file: nothing, or an accepted write.           *)
Kept == file' = file /\ sha' = sha /\ past' = past

Written(f) == file' = f /\ sha' = sha + 1 /\ past' = past \cup {file}

(* The copies others hold stay good: a write leaves their SHA behind.      *)
LEMMA RunStillOK ==
    ASSUME NEW v \in Run, RunOK(v, file, sha), sha \in Nat,
           Kept \/ \E f \in File : Written(f)
    PROVE  RunOK(v, file', sha')
  BY RunFields DEF RunOK, Kept, Written

LEMMA SessionStillOK ==
    ASSUME NEW v \in Session, SessionOK(v, file, sha), sha \in Nat,
           Kept \/ \E f \in File : Written(f)
    PROVE  SessionOK(v, file', sha')
  BY SessionFields DEF SessionOK, Kept, Written

LEMMA RunCopies ==
    ASSUME WorkerInv, NEW r \in Runtimes, NEW v \in Run \cup {Blank, Over},
           run' = [run EXCEPT ![r] = v], session' = session,
           Kept \/ \E f \in File : Written(f),
           v \in Run => RunOK(v, file', sha')
    PROVE  CopiesOK'
  <1>0. /\ run \in [Runtimes -> Run \cup {Blank, Over}] /\ sha \in Nat
        /\ session \in [Sessions -> Session \cup {Blank}]
    BY DEF WorkerInv, GlobalTypeOK
  <1>1. ASSUME NEW q \in Runtimes, run'[q] \notin {Blank, Over}
        PROVE  RunOK(run'[q], file', sha')
    <2>1. CASE q = r
      BY <1>0, <1>1, <2>1
    <2>2. CASE q # r
      <3>1. run'[q] = run[q] /\ run[q] \in Run
        BY <1>0, <1>1, <2>2
      <3>2. RunOK(run[q], file, sha)
        BY <1>1, <3>1 DEF WorkerInv, CopiesOK
      <3>. QED
        BY <1>0, <3>1, <3>2, RunStillOK
    <2>. QED
      BY <2>1, <2>2
  <1>2. ASSUME NEW u \in Sessions, session'[u] # Blank
        PROVE  SessionOK(session'[u], file', sha')
    <2>1. session'[u] = session[u] /\ session[u] \in Session
      BY <1>0, <1>2
    <2>2. SessionOK(session[u], file, sha)
      BY <1>2, <2>1 DEF WorkerInv, CopiesOK
    <2>. QED
      BY <1>0, <2>1, <2>2, SessionStillOK
  <1>. QED
    BY <1>1, <1>2 DEF CopiesOK

LEMMA SessionCopies ==
    ASSUME WorkerInv, NEW u \in Sessions, NEW v \in Session \cup {Blank},
           session' = [session EXCEPT ![u] = v], run' = run,
           Kept \/ \E f \in File : Written(f),
           v \in Session => SessionOK(v, file', sha')
    PROVE  CopiesOK'
  <1>0. /\ run \in [Runtimes -> Run \cup {Blank, Over}] /\ sha \in Nat
        /\ session \in [Sessions -> Session \cup {Blank}]
    BY DEF WorkerInv, GlobalTypeOK
  <1>1. ASSUME NEW q \in Runtimes, run'[q] \notin {Blank, Over}
        PROVE  RunOK(run'[q], file', sha')
    <2>1. run'[q] = run[q] /\ run[q] \in Run
      BY <1>0, <1>1
    <2>2. RunOK(run[q], file, sha)
      BY <1>1, <2>1 DEF WorkerInv, CopiesOK
    <2>. QED
      BY <1>0, <2>1, <2>2, RunStillOK
  <1>2. ASSUME NEW w \in Sessions, session'[w] # Blank
        PROVE  SessionOK(session'[w], file', sha')
    <2>1. CASE w = u
      BY <1>0, <1>2, <2>1
    <2>2. CASE w # u
      <3>1. session'[w] = session[w] /\ session[w] \in Session
        BY <1>0, <1>2, <2>2
      <3>2. SessionOK(session[w], file, sha)
        BY <1>2, <3>1 DEF WorkerInv, CopiesOK
      <3>. QED
        BY <1>0, <3>1, <3>2, SessionStillOK
    <2>. QED
      BY <2>1, <2>2
  <1>. QED
    BY <1>1, <1>2 DEF CopiesOK

-----------------------------------------------------------------------------
(* What the clients hold, as the register sees it.                         *)
RunHeld(v) == IF v \in {Blank, Over} THEN Blank ELSE [value |-> v.base, version |-> v.sha]

SessionHeld(v) == IF v = Blank \/ v.doing = "nothing" THEN Blank
                  ELSE [value |-> HeldCopy(v), version |-> v.seen]

LEMMA HeldIs ==
    /\ Held = [c \in Runtimes \cup Sessions |->
                   IF c \in Runtimes THEN RunHeld(run[c]) ELSE SessionHeld(session[c])]
    /\ Held' = [c \in Runtimes \cup Sessions |->
                   IF c \in Runtimes THEN RunHeld(run'[c]) ELSE SessionHeld(session'[c])]
  BY DEF Held, HeldByRun, HeldBySession, RunHeld, SessionHeld, HeldCopy, Running, Between, Doing

LEMMA RunHolds ==
    ASSUME GlobalTypeOK, NEW r \in Runtimes, NEW v,
           run' = [run EXCEPT ![r] = v], session' = session
    PROVE  Held' = [Held EXCEPT ![r] = RunHeld(v)]
  <1>1. \A q \in Runtimes : run'[q] = IF q = r THEN v ELSE run[q]
    BY DEF GlobalTypeOK
  <1>. QED
    BY <1>1, HeldIs

LEMMA SessionHolds ==
    ASSUME GlobalTypeOK, NEW u \in Sessions, NEW v,
           session' = [session EXCEPT ![u] = v], run' = run
    PROVE  Held' = [Held EXCEPT ![u] = SessionHeld(v)]
  <1>1. \A w \in Sessions : session'[w] = IF w = u THEN v ELSE session[w]
    BY DEF GlobalTypeOK
  <1>2. u \notin Runtimes
    BY GlobalAssumption
  <1>. QED
    BY <1>1, <1>2, HeldIs

LEMMA ReadStep ==
    ASSUME NEW c \in Runtimes \cup Sessions, Kept,
           Held' = [Held EXCEPT ![c] = [value |-> file, version |-> sha]]
    PROVE  RegisterStep
  BY DEF RegisterStep, Register!RNext, Register!Read, Register!Current, Kept

LEMMA ForgetStep ==
    ASSUME NEW c \in Runtimes \cup Sessions, Kept, Held' = [Held EXCEPT ![c] = Blank]
    PROVE  RegisterStep
  BY DEF RegisterStep, Register!RNext, Register!Forget, Kept

LEMMA IdleStep ==
    ASSUME Kept, Held' = Held
    PROVE  RegisterStep
  BY DEF RegisterStep, Register!cvars, Kept

LEMMA ReplaceStep ==
    ASSUME NEW c \in Runtimes \cup Sessions, NEW f \in File, Written(f),
           Held[c] = [value |-> file, version |-> sha],
           \/ Held' = [Held EXCEPT ![c] = [value |-> file', version |-> sha']]
           \/ Held' = [Held EXCEPT ![c] = Blank]
    PROVE  RegisterStep
  <1>1. Register!Replace(c)
    BY DEF Register!Replace, Register!Current, Written
  <1>. QED
    BY <1>1 DEF RegisterStep, Register!RNext

-----------------------------------------------------------------------------
(* What the rest of a step has to do.                                      *)
RestOK ==
    /\ now \in Nat /\ armings \in Nat
    /\ unrecorded \in SUBSET [of: Occurrence, token: Nat]
    /\ workedUnder \in SUBSET Nat /\ undone \in SUBSET Nat
    /\ careful \in BOOLEAN /\ again \in BOOLEAN
    /\ ran \in SUBSET Occurrence

LEMMA InvFacts ==
    ASSUME WorkerInv
    PROVE  /\ GlobalTypeOK /\ RestOK
           /\ file \in File /\ past \in SUBSET File /\ sha \in Nat \ {0} /\ sha \in Nat
           /\ run \in [Runtimes -> Run \cup {Blank, Over}]
           /\ session \in [Sessions -> Session \cup {Blank}]
  BY DEF WorkerInv, GlobalTypeOK, RestOK

LEMMA RunIsSafe ==
    ASSUME WorkerInv, NEW r \in Runtimes, NEW v \in Run \cup {Blank, Over},
           run' = [run EXCEPT ![r] = v], session' = session,
           Kept \/ \E f \in File : Written(f),
           v \in Run => RunOK(v, file', sha'),
           RestOK', UnrecordedRunsAreFlagged', RegisterStep, QuietStep
    PROVE  SafeStep
  <1>1. CopiesOK'
    BY RunCopies
  <1>2. run' \in [Runtimes -> Run \cup {Blank, Over}]
    BY InvFacts
  <1>3. session' \in [Sessions -> Session \cup {Blank}]
    BY InvFacts
  <1>4. file' \in File /\ past' \in SUBSET File /\ sha' \in Nat \ {0}
    BY InvFacts DEF Kept, Written
  <1>5. GlobalTypeOK'
    BY <1>2, <1>3, <1>4 DEF GlobalTypeOK, RestOK
  <1>. QED
    BY <1>1, <1>5 DEF SafeStep, WorkerInv

LEMMA SessionIsSafe ==
    ASSUME WorkerInv, NEW u \in Sessions, NEW v \in Session \cup {Blank},
           session' = [session EXCEPT ![u] = v], run' = run,
           Kept \/ \E f \in File : Written(f),
           v \in Session => SessionOK(v, file', sha'),
           RestOK', UnrecordedRunsAreFlagged', RegisterStep, QuietStep
    PROVE  SafeStep
  <1>1. CopiesOK'
    BY SessionCopies
  <1>2. session' \in [Sessions -> Session \cup {Blank}]
    BY InvFacts
  <1>3. run' \in [Runtimes -> Run \cup {Blank, Over}]
    BY InvFacts
  <1>4. file' \in File /\ past' \in SUBSET File /\ sha' \in Nat \ {0}
    BY InvFacts DEF Kept, Written
  <1>5. GlobalTypeOK'
    BY <1>2, <1>3, <1>4 DEF GlobalTypeOK, RestOK
  <1>. QED
    BY <1>1, <1>5 DEF SafeStep, WorkerInv

LEMMA KeptIsQuiet ==
    ASSUME WorkerInv, Kept, unrecorded' = unrecorded
    PROVE  UnrecordedRunsAreFlagged' /\ QuietStep
  BY DEF WorkerInv, UnrecordedRunsAreFlagged, Kept, QuietStep

-----------------------------------------------------------------------------
(* The steps of a run.                                                     *)
LEMMA LoadRunIsSafe ==
    ASSUME WorkerInv, NEW r \in Runtimes, LoadRun(r)
    PROVE  SafeStep
  <1>. DEFINE v == [pc |-> "loaded", at |-> now, sha |-> sha, base |-> file,
                    next |-> Claimed(file, r, now, sha + 1)]
  <1>0. /\ MayRun(file) /\ run' = [run EXCEPT ![r] = v] /\ session' = session
        /\ Kept /\ now' = now /\ armings' = armings
        /\ unrecorded' = unrecorded /\ workedUnder' = workedUnder /\ undone' = undone
        /\ careful' = careful /\ ran' = ran /\ again' = again
    BY DEF LoadRun, shared, history, Kept
  <1>1. file \in File /\ sha \in Nat /\ now \in Nat /\ sha + 1 \in Nat
    BY InvFacts DEF RestOK
  <1>2. file.state = "ARMED" /\ file.tick = Nobody
    BY <1>0 DEF MayRun
  <1>3. /\ Claimed(file, r, now, sha + 1) \in File
        /\ ClaimOf(Claimed(file, r, now, sha + 1), now)
    BY <1>1, <1>2, ClaimedType
  <1>4. v \in Run
    BY <1>1, <1>3, RunMade
  <1>5. RunOK(v, file', sha')
    BY <1>0, <1>1, <1>2, <1>3 DEF RunOK, Kept
  <1>6. RestOK'
    BY <1>0, InvFacts DEF RestOK
  <1>7. RunHeld(v) = [value |-> file, version |-> sha]
    BY <1>4, RunFields DEF RunHeld
  <1>. HIDE DEF v
  <1>8. RegisterStep
    BY <1>0, <1>7, InvFacts, RunHolds, ReadStep
  <1>. QED
    BY <1>0, <1>4, <1>5, <1>6, <1>8, KeptIsQuiet, RunIsSafe

LEMMA RunAt ==
    ASSUME WorkerInv, NEW r \in Runtimes, Running(r)
    PROVE  run[r] \in Run /\ RunOK(run[r], file, sha)
  BY InvFacts DEF Running, WorkerInv, CopiesOK

LEMMA PutIsWritten ==
    ASSUME NEW f, Put(f)
    PROVE  Written(f)
  BY DEF Put, Written

LEMMA HeldRun ==
    ASSUME NEW r \in Runtimes, Running(r)
    PROVE  Held[r] = [value |-> run[r].base, version |-> run[r].sha]
  BY HeldIs DEF Running, RunHeld

LEMMA PutClaimIsSafe ==
    ASSUME WorkerInv, NEW r \in Runtimes, PutClaim(r)
    PROVE  SafeStep
  <1>. DEFINE w == run[r]
              v == [w EXCEPT !.pc = "claimed", !.sha = sha', !.base = w.next]
  <1>0. /\ Running(r) /\ w.pc = "loaded" /\ w.sha = sha /\ Written(w.next)
        /\ run' = [run EXCEPT ![r] = v]
        /\ session' = session /\ now' = now /\ armings' = armings
        /\ unrecorded' = unrecorded /\ workedUnder' = workedUnder /\ undone' = undone
        /\ careful' = careful /\ ran' = ran /\ again' = again
    BY PutIsWritten DEF PutClaim, At, Accepted, history
  <1>1. w \in Run /\ RunOK(w, file, sha)
    BY <1>0, RunAt
  <1>2. sha' = sha + 1 /\ sha \in Nat /\ sha' \in Nat
    BY <1>0, InvFacts DEF Written
  <1>. HIDE DEF w
  <1>3. v = [pc |-> "claimed", at |-> w.at, sha |-> sha', base |-> w.next, next |-> w.next]
    <2>. DEFINE a == [w EXCEPT !.pc = "claimed"]
                b == [a EXCEPT !.sha = sha']
    <2>1. a = [pc |-> "claimed", at |-> w.at, sha |-> w.sha, base |-> w.base, next |-> w.next]
      BY <1>1 DEF Run
    <2>2. v = [b EXCEPT !.base = w.next]
      OBVIOUS
    <2>. HIDE DEF a, v
    <2>3. b = [pc |-> "claimed", at |-> w.at, sha |-> sha', base |-> w.base, next |-> w.next]
      BY <2>1
    <2>. HIDE DEF b
    <2>. QED
      BY <2>2, <2>3
  <1>. HIDE DEF v
  <1>4. v \in Run
    BY <1>1, <1>2, <1>3, RunFields, RunMade
  <1>5. ClaimOf(w.next, w.at) /\ w.base.tick = Nobody /\ w.base = file /\ file.state = "ARMED"
    BY <1>0, <1>1, <1>2 DEF RunOK
  <1>6. v.sha = sha' /\ v.base = w.next /\ v.at = w.at /\ v.pc = "claimed"
    BY <1>3
  <1>7. file' = w.next
    BY <1>0 DEF Written
  <1>8. RunOK(v, file', sha')
    BY <1>2, <1>5, <1>6, <1>7 DEF RunOK, ClaimOf
  <1>9. RestOK'
    BY <1>0, InvFacts DEF RestOK
  <1>10. unrecorded = {}
    BY <1>5 DEF WorkerInv, UnrecordedRunsAreFlagged
  <1>11. UnrecordedRunsAreFlagged' /\ QuietStep
    BY <1>0, <1>5, <1>10 DEF UnrecordedRunsAreFlagged, QuietStep
  <1>12. RunHeld(v) = [value |-> file', version |-> sha']
    BY <1>4, <1>6, <1>7, RunFields DEF RunHeld
  <1>13. w.next \in File
    BY <1>1, RunFields
  <1>14. Held[r] = [value |-> file, version |-> sha]
    BY <1>0, <1>5, HeldRun DEF w
  <1>15. Held' = [Held EXCEPT ![r] = RunHeld(v)]
    BY <1>0, InvFacts, RunHolds
  <1>16. RegisterStep
    BY <1>0, <1>12, <1>13, <1>14, <1>15, ReplaceStep
  <1>. QED
    BY <1>0, <1>4, <1>8, <1>9, <1>11, <1>13, <1>16, RunIsSafe

(* What an outcome leaves in the history is typed.                         *)
LEMMA RanType ==
    ASSUME WorkerInv, NEW D \in SUBSET Occurrence, NEW outcome \in [D -> Outcomes],
           NEW kept \in BOOLEAN, Ran(outcome, kept)
    PROVE  careful' \in BOOLEAN /\ again' \in BOOLEAN /\ ran' \in SUBSET Occurrence
  <1>. DEFINE ended == {o \in DOMAIN outcome : outcome[o] \in Terminal}
  <1>1. ended \subseteq Occurrence
    OBVIOUS
  <1>2. careful \in BOOLEAN /\ again \in BOOLEAN /\ ran \in SUBSET Occurrence
    BY InvFacts DEF RestOK
  <1>3. careful' = (careful /\ kept)
    BY DEF Ran
  <1>4. ran' = IF careful /\ kept THEN ran \cup ended ELSE ran
    BY DEF Ran
  <1>5. again' = (again \/ (careful /\ kept /\ ended \cap ran # {}))
    BY DEF Ran
  <1>. HIDE DEF ended
  <1>. QED
    BY <1>1, <1>2, <1>3, <1>4, <1>5

LEMMA ToRunType ==
    ASSUME NEW rs, NEW t \in Nat
    PROVE  ToRun(rs, t) \subseteq Batch(t) /\ ToRun(rs, t) \in SUBSET Occurrence
           /\ IsFiniteSet(ToRun(rs, t))
  <1>1. ToRun(rs, t) \subseteq Batch(t)
    BY DEF ToRun
  <1>. QED
    BY <1>1, DueType, FS_Subset

LEMMA ExecuteRunIsSafe ==
    ASSUME WorkerInv, NEW r \in Runtimes, ExecuteRun(r)
    PROVE  SafeStep
  <1>. DEFINE w == run[r]
              b == w.base
  <1>0. /\ Running(r) /\ w.pc = "claimed" /\ w.sha = sha
        /\ session' = session /\ Kept /\ now' = now /\ armings' = armings /\ undone' = undone
    BY DEF ExecuteRun, At, Accepted, shared, Kept
  <1>1. w \in Run /\ RunOK(w, file, sha) /\ sha \in Nat
    BY <1>0, InvFacts, RunAt
  <1>2. /\ w.at \in Nat /\ w.sha \in Nat /\ b \in File /\ b.receipts \in Seq(Receipt)
        /\ b.arm \in Nat
    BY <1>1, RunFields, FileFields
  <1>3. b = file /\ b.state = "ARMED" /\ ClaimOf(b, w.at)
    BY <1>0, <1>1 DEF RunOK
  <1>. DEFINE D == ToRun(b.receipts, w.at)
  <1>4. D \subseteq Batch(w.at) /\ D \in SUBSET Occurrence /\ IsFiniteSet(D)
    BY <1>2, ToRunType
  <1>5. PICK outcome \in [D -> Outcomes] :
            LET rs == IF DOMAIN outcome = {} THEN b.receipts
                      ELSE AfterBatch(b.receipts, outcome, w.at)
            IN  /\ run' = [run EXCEPT ![r] = [w EXCEPT !.pc = "executed",
                                                       !.next = Released([b EXCEPT !.receipts = rs])]]
                /\ unrecorded' = unrecorded \cup
                       {[of |-> o, token |-> b.lease.token] : o \in DOMAIN outcome}
                /\ Ran(outcome, Remembers(rs, b.receipts, w.at))
                /\ workedUnder' = IF DOMAIN outcome = {} THEN workedUnder
                                  ELSE workedUnder \cup {b.arm}
    BY DEF ExecuteRun
  <1>. DEFINE rs == IF DOMAIN outcome = {} THEN b.receipts
                    ELSE AfterBatch(b.receipts, outcome, w.at)
              next == Released([b EXCEPT !.receipts = rs])
              v == [w EXCEPT !.pc = "executed", !.next = next]
  <1>6. rs \in Seq(Receipt)
    <2>. HIDE DEF D
    <2>. QED
      BY <1>2, <1>4, AfterBatchType
  <1>7. DOMAIN outcome = D
    OBVIOUS
  <1>8. /\ run' = [run EXCEPT ![r] = v]
        /\ unrecorded' = unrecorded \cup {[of |-> o, token |-> b.lease.token] : o \in D}
        /\ Ran(outcome, Remembers(rs, b.receipts, w.at))
        /\ workedUnder' \in {workedUnder, workedUnder \cup {b.arm}}
    BY <1>5
  <1>. HIDE DEF rs, D, b
  <1>9. next \in File
    BY <1>2, <1>6, ReceiptsSet, UnclaimedType DEF Released
  <1>. HIDE DEF next, w
  <1>10. v = [pc |-> "executed", at |-> w.at, sha |-> w.sha, base |-> w.base, next |-> next]
    <2>. DEFINE a == [w EXCEPT !.pc = "executed"]
    <2>1. a = [pc |-> "executed", at |-> w.at, sha |-> w.sha, base |-> w.base, next |-> w.next]
      BY <1>1 DEF Run
    <2>2. v = [a EXCEPT !.next = next]
      OBVIOUS
    <2>. HIDE DEF a, v
    <2>. QED
      BY <2>1, <2>2
  <1>. HIDE DEF v
  <1>11. v \in Run
    BY <1>1, <1>9, <1>10, RunFields, RunMade
  <1>12. RunOK(v, file', sha')
    BY <1>0, <1>1, <1>2, <1>3, <1>10 DEF RunOK, Kept, b
  <1>13. /\ careful' \in BOOLEAN /\ again' \in BOOLEAN /\ ran' \in SUBSET Occurrence
    <2>1. Remembers(rs, b.receipts, w.at) \in BOOLEAN
      BY DEF Remembers
    <2>. HIDE DEF Remembers
    <2>. QED
      BY <1>4, <1>8, <2>1, RanType
  <1>14. b.lease.token \in Nat
    BY <1>3 DEF ClaimOf
  <1>15. RestOK'
    BY <1>0, <1>2, <1>4, <1>8, <1>13, <1>14, InvFacts DEF RestOK
  <1>16. UnrecordedRunsAreFlagged'
    <2>. SUFFICES ASSUME NEW e \in unrecorded'
                  PROVE  file.tick # Nobody /\ file.tick.token = e.token /\ e.of \in file.tick.work
      BY <1>0 DEF UnrecordedRunsAreFlagged, Kept
    <2>1. CASE e \in unrecorded
      BY <2>1 DEF WorkerInv, UnrecordedRunsAreFlagged
    <2>2. CASE e \notin unrecorded
      <3>1. PICK o \in D : e = [of |-> o, token |-> b.lease.token]
        BY <1>8, <2>2
      <3>. QED
        BY <1>3, <1>4, <3>1 DEF ClaimOf
    <2>. QED
      BY <2>1, <2>2
  <1>17. RunHeld(v) = Held[r]
    <2>1. Held[r] = [value |-> w.base, version |-> w.sha]
      BY <1>0, HeldRun DEF w
    <2>. QED
      BY <1>10, <1>11, <2>1, RunFields DEF RunHeld
  <1>18. Held' = Held
    <2>1. Held' = [Held EXCEPT ![r] = RunHeld(v)]
      BY <1>0, <1>8, InvFacts, RunHolds
    <2>. QED
      BY <1>17, <2>1, HeldIs
  <1>19. RegisterStep /\ QuietStep
    BY <1>0, <1>18, IdleStep DEF QuietStep, Kept
  <1>. QED
    BY <1>0, <1>8, <1>11, <1>12, <1>15, <1>16, <1>19, RunIsSafe

(* An accepted result takes the announcement, and all it answers for, away.*)
LEMMA PutResultIsSafe ==
    ASSUME WorkerInv, NEW r \in Runtimes, PutResult(r)
    PROVE  SafeStep
  <1>. DEFINE w == run[r]
  <1>0. /\ Running(r) /\ w.pc = "executed" /\ w.sha = sha /\ Written(w.next)
        /\ unrecorded' = {e \in unrecorded : e.token # w.base.lease.token}
        /\ run' = [run EXCEPT ![r] = Over]
        /\ session' = session /\ now' = now /\ armings' = armings
        /\ workedUnder' = workedUnder /\ undone' = undone
        /\ careful' = careful /\ ran' = ran /\ again' = again
    BY PutIsWritten DEF PutResult, At, Accepted, Stops
  <1>1. w \in Run /\ RunOK(w, file, sha)
    BY <1>0, RunAt
  <1>2. w.base = file /\ ClaimOf(file, w.at) /\ file.state = "ARMED" /\ w.next \in File
    BY <1>0, <1>1, RunFields DEF RunOK
  <1>3. unrecorded' = {}
    BY <1>0, <1>2 DEF WorkerInv, UnrecordedRunsAreFlagged, ClaimOf
  <1>4. UnrecordedRunsAreFlagged' /\ QuietStep
    BY <1>2, <1>3 DEF UnrecordedRunsAreFlagged, QuietStep
  <1>5. RestOK'
    BY <1>0, <1>3, InvFacts DEF RestOK
  <1>6. Held[r] = [value |-> file, version |-> sha]
    BY <1>0, <1>2, HeldRun
  <1>7. Held' = [Held EXCEPT ![r] = RunHeld(Over)]
    BY <1>0, InvFacts, RunHolds
  <1>8. RunHeld(Over) = Blank /\ Over \notin Run
    BY GlobalAssumption DEF RunHeld
  <1>9. RegisterStep
    BY <1>0, <1>2, <1>6, <1>7, <1>8, ReplaceStep
  <1>. HIDE DEF w
  <1>. QED
    BY <1>0, <1>2, <1>4, <1>5, <1>8, <1>9, RunIsSafe

LEMMA AbandonIsSafe ==
    ASSUME WorkerInv, NEW r \in Runtimes, Abandon(r)
    PROVE  SafeStep
  <1>0. /\ run' = [run EXCEPT ![r] = Over] /\ session' = session /\ Kept
        /\ now' = now /\ armings' = armings
        /\ unrecorded' = unrecorded /\ workedUnder' = workedUnder /\ undone' = undone
        /\ careful' = careful /\ ran' = ran /\ again' = again
    BY DEF Abandon, Stops, shared, history, Kept
  <1>1. RestOK'
    BY <1>0, InvFacts DEF RestOK
  <1>2. RunHeld(Over) = Blank /\ Over \notin Run
    BY GlobalAssumption DEF RunHeld
  <1>3. RegisterStep
    BY <1>0, <1>2, InvFacts, RunHolds, ForgetStep
  <1>. QED
    BY <1>0, <1>1, <1>2, <1>3, KeptIsQuiet, RunIsSafe

-----------------------------------------------------------------------------
(* The steps of a session.  Edits are no business of the register's.       *)
LEMMA CopyOf ==
    ASSUME WorkerInv, NEW u \in Sessions
    PROVE  /\ Working(u) \in File /\ Source(u) \in File
           /\ session[u] # Blank => /\ session[u] \in Session
                                    /\ SessionOK(session[u], file, sha)
  <1>1. session[u] \in Session \cup {Blank} /\ file \in File
    BY InvFacts
  <1>2. session[u] # Blank => SessionOK(session[u], file, sha)
    BY DEF WorkerInv, CopiesOK
  <1>. QED
    BY <1>1, <1>2, SessionFields DEF Working, Source

LEMMA StagesIsSafe ==
    ASSUME WorkerInv, NEW u \in Sessions, NEW f \in File, Stages(u, f),
           Kept, run' = run, unrecorded' = unrecorded, RestOK'
    PROVE  SafeStep
  <1>. DEFINE v == [work |-> f, source |-> Source(u), dirty |-> TRUE, doing |-> "nothing", seen |-> 0]
  <1>1. Between(u) /\ session' = [session EXCEPT ![u] = v]
    BY DEF Stages, Becomes
  <1>2. v \in Session /\ v # Blank
    BY CopyOf, SessionMade DEF Deeds
  <1>3. v.doing = "nothing"
    OBVIOUS
  <1>. HIDE DEF v
  <1>4. SessionOK(v, file', sha')
    BY <1>3 DEF SessionOK
  <1>5. u \notin Runtimes
    BY GlobalAssumption
  <1>6. Held[u] = Blank /\ SessionHeld(v) = Blank
    BY <1>1, <1>3, <1>5, HeldIs DEF Between, Doing, SessionHeld
  <1>7. Held' = [Held EXCEPT ![u] = SessionHeld(v)]
    BY <1>1, InvFacts, SessionHolds
  <1>8. Held' = Held
    BY <1>6, <1>7, HeldIs
  <1>9. RegisterStep
    BY <1>8, IdleStep
  <1>. QED
    BY <1>1, <1>2, <1>4, <1>9, KeptIsQuiet, SessionIsSafe

LEMMA BeginsIsSafe ==
    ASSUME WorkerInv, NEW u \in Sessions, NEW f \in File,
           NEW op \in {"save", "persist", "restore"}, Begins(u, op, f)
    PROVE  SafeStep
  <1>. DEFINE v == [work |-> f, source |-> file, dirty |-> session[u] # Blank,
                    doing |-> op, seen |-> sha]
  <1>0. /\ session' = [session EXCEPT ![u] = v] /\ run' = run /\ Kept
        /\ now' = now /\ armings' = armings
        /\ unrecorded' = unrecorded /\ workedUnder' = workedUnder /\ undone' = undone
        /\ careful' = careful /\ ran' = ran /\ again' = again
    BY DEF Begins, Becomes, shared, history, Kept
  <1>1. file \in File /\ sha \in Nat
    BY InvFacts
  <1>2. v \in Session /\ v # Blank
    <2>1. op \in Deeds /\ (session[u] # Blank) \in BOOLEAN
      BY DEF Deeds
    <2>. QED
      BY <1>1, <2>1, SessionMade
  <1>3. v.doing = op /\ v.source = file /\ v.seen = sha
    OBVIOUS
  <1>. HIDE DEF v
  <1>4. SessionOK(v, file', sha')
    BY <1>0, <1>1, <1>3 DEF SessionOK, HeldCopy, Kept
  <1>5. SessionHeld(v) = [value |-> file, version |-> sha]
    BY <1>2, <1>3 DEF SessionHeld, HeldCopy
  <1>6. RestOK'
    BY <1>0, InvFacts DEF RestOK
  <1>7. Held' = [Held EXCEPT ![u] = SessionHeld(v)]
    BY <1>0, InvFacts, SessionHolds
  <1>8. RegisterStep
    BY <1>0, <1>5, <1>7, ReadStep
  <1>. QED
    BY <1>0, <1>2, <1>4, <1>6, <1>8, KeptIsQuiet, SessionIsSafe

(* A session that is through with its write holds nothing any more.        *)
Rests(v) == v = Blank \/ v.doing = "nothing"

LEMMA UnansweredRests ==
    ASSUME WorkerInv, NEW u \in Sessions, session[u] # Blank, Unanswered(u)
    PROVE  \E v \in Session \cup {Blank} :
               /\ Rests(v) /\ Becomes(u, v)
               /\ v # Blank => /\ v.work = session[u].work /\ v.source = session[u].source
                               /\ session[u].dirty /\ v.dirty
               /\ session[u].dirty => v # Blank
  <1>. DEFINE s == session[u]
              v == [s EXCEPT !.doing = "nothing", !.seen = 0]
  <1>1. s \in Session
    BY CopyOf
  <1>2. CASE s.dirty
    <2>1. Becomes(u, v)
      BY <1>2 DEF Unanswered
    <2>. HIDE DEF s
    <2>2. v = [work |-> s.work, source |-> s.source, dirty |-> s.dirty,
               doing |-> "nothing", seen |-> 0]
      <3>. DEFINE a == [s EXCEPT !.doing = "nothing"]
      <3>1. a = [work |-> s.work, source |-> s.source, dirty |-> s.dirty,
                 doing |-> "nothing", seen |-> s.seen]
        BY <1>1 DEF Session
      <3>2. v = [a EXCEPT !.seen = 0]
        OBVIOUS
      <3>. HIDE DEF a, v
      <3>. QED
        BY <3>1, <3>2
    <2>. HIDE DEF v
    <2>3. v \in Session
      BY <1>1, <2>2, SessionFields, SessionMade DEF Deeds
    <2>. QED
      BY <1>2, <2>1, <2>2, <2>3, SessionFields DEF Rests, s
  <1>3. CASE ~s.dirty
    BY <1>3 DEF Unanswered, Rests
  <1>. QED
    BY <1>2, <1>3

LEMMA RestsIsSafe ==
    ASSUME WorkerInv, NEW u \in Sessions, NEW v \in Session \cup {Blank},
           Rests(v), Becomes(u, v), Kept, run' = run, unrecorded' = unrecorded, RestOK'
    PROVE  SafeStep
  <1>1. v \in Session => SessionOK(v, file', sha')
    BY SessionFields DEF Rests, SessionOK
  <1>2. SessionHeld(v) = Blank
    BY DEF Rests, SessionHeld
  <1>3. Held' = [Held EXCEPT ![u] = SessionHeld(v)]
    BY InvFacts, SessionHolds DEF Becomes
  <1>4. RegisterStep
    BY <1>2, <1>3, ForgetStep
  <1>. QED
    BY <1>1, <1>4, KeptIsQuiet, SessionIsSafe DEF Becomes

(* A write of a session: it replaces what the session holds, and when it   *)
(* takes an announcement away it answers for all of it.                    *)
LEMMA OverwritesFacts ==
    ASSUME WorkerInv, NEW u \in Sessions, NEW f \in File, Overwrites(u, f)
    PROVE  /\ Written(f)
           /\ session[u].seen = sha
           /\ unrecorded' \subseteq unrecorded
           /\ UnrecordedRunsAreFlagged'
  <1>1. /\ Written(f) /\ session[u].seen = sha
        /\ unrecorded' = IF Removes(f) THEN {e \in unrecorded : e.token # file.tick.token}
                         ELSE unrecorded
    BY PutIsWritten DEF Overwrites, Accepted
  <1>2. file' = f
    BY <1>1 DEF Written
  <1>3. CASE Removes(f)
    <2>1. unrecorded' = {}
      BY <1>1, <1>3 DEF WorkerInv, UnrecordedRunsAreFlagged
    <2>. QED
      BY <1>1, <2>1 DEF UnrecordedRunsAreFlagged
  <1>4. CASE ~Removes(f)
    <2>1. unrecorded' = unrecorded
      BY <1>1, <1>4
    <2>2. file.tick = Nobody \/ f.tick = file.tick
      BY <1>4 DEF Removes
    <2>. QED
      BY <1>1, <1>2, <2>1, <2>2 DEF WorkerInv, UnrecordedRunsAreFlagged
  <1>. QED
    BY <1>3, <1>4, <1>1

LEMMA OverwriteIsSafe ==
    ASSUME WorkerInv, NEW u \in Sessions, NEW f \in File, NEW v \in Session \cup {Blank},
           session[u] # Blank, session[u].doing # "nothing", HeldCopy(session[u]) = file,
           Overwrites(u, f), Becomes(u, v), run' = run, RestOK',
           \/ Rests(v)
           \/ /\ v \in Session /\ session[u].doing # "arming"
              /\ v.doing = "arming" /\ v.work = f /\ v.seen = sha'
    PROVE  SafeStep
  <1>0. /\ Written(f) /\ session[u].seen = sha /\ UnrecordedRunsAreFlagged'
        /\ file' = f /\ sha' = sha + 1 /\ sha \in Nat
    BY OverwritesFacts, InvFacts DEF Written
  <1>1. v # session[u]
    BY DEF Rests
  <1>2. session' # session
    <2>1. session'[u] = v
      BY InvFacts DEF Becomes
    <2>. QED
      BY <1>1, <2>1
  <1>3. QuietStep
    BY <1>2 DEF QuietStep
  <1>4. v \in Session => SessionOK(v, file', sha')
    BY <1>0, SessionFields DEF Rests, SessionOK, HeldCopy
  <1>5. u \notin Runtimes
    BY GlobalAssumption
  <1>6. Held[u] = [value |-> file, version |-> sha]
    BY <1>0, <1>5, HeldIs DEF SessionHeld
  <1>7. SessionHeld(v) \in {Blank, [value |-> file', version |-> sha']}
    BY <1>0, SessionFields DEF SessionHeld, Rests, HeldCopy
  <1>8. Held' = [Held EXCEPT ![u] = SessionHeld(v)]
    BY InvFacts, SessionHolds DEF Becomes
  <1>9. RegisterStep
    BY <1>0, <1>6, <1>7, <1>8, ReplaceStep
  <1>. QED
    BY <1>0, <1>3, <1>4, <1>9, SessionIsSafe DEF Becomes

(* What a session that writes holds is the file, if the write is accepted. *)
LEMMA HoldsFile ==
    ASSUME WorkerInv, NEW u \in Sessions, NEW op \in Deeds \ {"nothing"}, Doing(u, op),
           session[u].seen = sha
    PROVE  /\ session[u] # Blank /\ session[u].doing = op /\ session[u].doing # "nothing"
           /\ HeldCopy(session[u]) = file
           /\ session[u] \in Session /\ session[u].work \in File /\ session[u].source \in File
  <1>1. session[u] # Blank /\ session[u].doing = op
    BY DEF Doing
  <1>2. session[u] \in Session /\ SessionOK(session[u], file, sha)
    BY <1>1, CopyOf
  <1>. QED
    BY <1>1, <1>2, SessionFields DEF SessionOK

-----------------------------------------------------------------------------
(* Every action of a session.                                              *)
LEMMA StagingIsSafe ==
    ASSUME WorkerInv, NEW u \in Sessions, StageArm(u) \/ StagePause(u) \/ StageKill(u)
    PROVE  SafeStep
  <1>. DEFINE w == Working(u)
  <1>0. w \in File
    BY CopyOf
  <1>1. /\ Kept /\ run' = run /\ armings' \in {armings, armings + 1} /\ now' = now
        /\ unrecorded' = unrecorded /\ workedUnder' = workedUnder /\ undone' = undone
        /\ careful' = careful /\ ran' = ran /\ again' = again
    BY DEF StageArm, StagePause, StageKill, shared, history, Kept
  <1>2. RestOK'
    BY <1>1, InvFacts DEF RestOK
  <1>3. armings + 1 \in Nat
    BY InvFacts DEF RestOK
  <1>4. \/ Stages(u, Unclaimed([w EXCEPT !.state = "ARMED", !.arm = armings + 1]))
        \/ Stages(u, Unclaimed([w EXCEPT !.state = "PAUSED"]))
        \/ Stages(u, Unclaimed([w EXCEPT !.state = "KILLED"]))
    BY DEF StageArm, StagePause, StageKill
  <1>5. {"PAUSED", "KILLED"} \subseteq GlobalStates
    BY DEF GlobalStates
  <1>. HIDE DEF w
  <1>6. /\ [w EXCEPT !.state = "ARMED", !.arm = armings + 1] \in File
        /\ [w EXCEPT !.state = "PAUSED"] \in File
        /\ [w EXCEPT !.state = "KILLED"] \in File
    BY <1>0, <1>3, <1>5, ArmedSet, StateSet
  <1>7. /\ Unclaimed([w EXCEPT !.state = "ARMED", !.arm = armings + 1]) \in File
        /\ Unclaimed([w EXCEPT !.state = "PAUSED"]) \in File
        /\ Unclaimed([w EXCEPT !.state = "KILLED"]) \in File
    BY <1>6, UnclaimedType
  <1>. QED
    BY <1>1, <1>2, <1>4, <1>7, StagesIsSafe

LEMMA HumanRunIsSafe ==
    ASSUME WorkerInv, NEW u \in Sessions, HumanRun(u)
    PROVE  SafeStep
  <1>. DEFINE w == Working(u)
              D == ToRun(w.receipts, now)
  <1>0. w \in File /\ w.receipts \in Seq(Receipt) /\ now \in Nat
    BY CopyOf, FileFields, InvFacts DEF RestOK
  <1>1. D \in SUBSET Occurrence /\ IsFiniteSet(D)
    BY <1>0, ToRunType
  <1>2. PICK outcome \in [D -> Outcomes] :
            LET rs == AfterBatch(w.receipts, outcome, now)
            IN  /\ Stages(u, [w EXCEPT !.receipts = rs])
                /\ Ran(outcome, /\ Source(u) = file /\ file.state # "ARMED"
                                /\ OthersClean(u)
                                /\ Remembers(rs, w.receipts, now))
    BY DEF HumanRun
  <1>. DEFINE rs == AfterBatch(w.receipts, outcome, now)
              kept == /\ Source(u) = file /\ file.state # "ARMED"
                      /\ OthersClean(u)
                      /\ Remembers(rs, w.receipts, now)
  <1>3. Stages(u, [w EXCEPT !.receipts = rs]) /\ Ran(outcome, kept)
    BY <1>2
  <1>4. kept \in BOOLEAN
    OBVIOUS
  <1>. HIDE DEF kept, D
  <1>5. rs \in Seq(Receipt)
    BY <1>0, <1>1, AfterBatchType
  <1>. HIDE DEF rs, w
  <1>6. [w EXCEPT !.receipts = rs] \in File
    BY <1>0, <1>5, ReceiptsSet
  <1>7. careful' \in BOOLEAN /\ again' \in BOOLEAN /\ ran' \in SUBSET Occurrence
    BY <1>1, <1>3, <1>4, RanType
  <1>8. /\ Kept /\ run' = run /\ armings' = armings /\ now' = now
        /\ unrecorded' = unrecorded /\ workedUnder' = workedUnder /\ undone' = undone
    BY DEF HumanRun, shared, Kept
  <1>9. RestOK'
    BY <1>7, <1>8, InvFacts DEF RestOK
  <1>. QED
    BY <1>3, <1>6, <1>8, <1>9, StagesIsSafe

LEMMA BeginningIsSafe ==
    ASSUME WorkerInv, NEW u \in Sessions, BeginSave(u) \/ BeginArming(u) \/ BeginRestore(u)
    PROVE  SafeStep
  <1>0. Working(u) \in File /\ past \in SUBSET File /\ sha \in Nat
    BY CopyOf, InvFacts
  <1>1. CASE BeginSave(u)
    <2>1. PICK f \in Edited(Working(u)) : Begins(u, "save", f)
      BY <1>1 DEF BeginSave
    <2>2. [Working(u) EXCEPT !.edits = sha] \in File
      BY <1>0, EditsSet
    <2>3. f \in File
      BY <1>0, <2>1, <2>2 DEF Edited
    <2>. QED
      BY <2>1, <2>3, BeginsIsSafe
  <1>2. CASE BeginArming(u)
    BY <1>0, <1>2, BeginsIsSafe DEF BeginArming
  <1>3. CASE BeginRestore(u)
    <2>1. PICK f \in past : Begins(u, "restore", [f EXCEPT !.edits = sha])
      BY <1>3 DEF BeginRestore
    <2>2. [f EXCEPT !.edits = sha] \in File
      BY <1>0, EditsSet
    <2>. QED
      BY <2>1, <2>2, BeginsIsSafe
  <1>. QED
    BY <1>1, <1>2, <1>3

LEMMA EndingIsSafe ==
    ASSUME WorkerInv, NEW u \in Sessions, WriteFails(u) \/ ConfirmArming(u) \/ DropEdits(u)
    PROVE  SafeStep
  <1>1. /\ Kept /\ run' = run /\ armings' = armings /\ now' = now
        /\ unrecorded' = unrecorded /\ workedUnder' = workedUnder /\ undone' = undone
        /\ ran' = ran /\ again' = again
    BY DEF WriteFails, ConfirmArming, DropEdits, shared, history, Kept
  <1>2. careful' \in BOOLEAN
    <2>1. CASE WriteFails(u) \/ ConfirmArming(u)
      BY <2>1, InvFacts DEF WriteFails, ConfirmArming, history, RestOK
    <2>2. CASE DropEdits(u)
      <3>. DEFINE kept == Ended(session[u].work.receipts) \subseteq Ended(file.receipts)
      <3>1. careful' = (careful /\ kept) /\ kept \in BOOLEAN
        BY <2>2 DEF DropEdits
      <3>. HIDE DEF kept
      <3>. QED
        BY <3>1, InvFacts DEF RestOK
    <2>. QED
      BY <2>1, <2>2
  <1>3. RestOK'
    BY <1>1, <1>2, InvFacts DEF RestOK
  <1>4. \E v \in Session \cup {Blank} : Rests(v) /\ Becomes(u, v)
    <2>1. CASE WriteFails(u)
      BY <2>1, UnansweredRests DEF WriteFails, Between
    <2>2. CASE ConfirmArming(u)
      BY <2>2 DEF ConfirmArming, Rests
    <2>3. CASE DropEdits(u)
      BY <2>3 DEF DropEdits, Rests
    <2>. QED
      BY <2>1, <2>2, <2>3
  <1>. QED
    BY <1>1, <1>3, <1>4, RestsIsSafe

LEMMA WritingIsSafe ==
    ASSUME WorkerInv, NEW u \in Sessions, NEW f \in File, NEW kept \in BOOLEAN,
           NEW op \in Deeds \ {"nothing"}, Doing(u, op), Overwrites(u, f),
           \/ Becomes(u, Blank)
           \/ Unanswered(u)
           \/ /\ op = "persist" /\ f = session[u].work
              /\ Becomes(u, [session[u] EXCEPT !.doing = "arming", !.seen = sha']),
           run' = run, now' = now, armings' = armings, ran' = ran, again' = again,
           workedUnder' = workedUnder, undone' \in SUBSET Nat,
           careful' = (careful /\ kept)
    PROVE  SafeStep
  <1>1. /\ Written(f) /\ session[u].seen = sha /\ unrecorded' \subseteq unrecorded
        /\ sha' = sha + 1 /\ sha \in Nat
    BY OverwritesFacts, InvFacts DEF Written
  <1>2. /\ session[u] # Blank /\ session[u].doing = op /\ session[u].doing # "nothing"
        /\ HeldCopy(session[u]) = file /\ session[u] \in Session
    BY <1>1, HoldsFile
  <1>3. RestOK'
    BY <1>1, InvFacts DEF RestOK
  <1>4. CASE Becomes(u, Blank) \/ Unanswered(u)
    <2>1. PICK v \in Session \cup {Blank} : Rests(v) /\ Becomes(u, v)
      BY <1>2, <1>4, UnansweredRests DEF Rests
    <2>. QED
      BY <1>2, <1>3, <2>1, OverwriteIsSafe
  <1>5. CASE /\ op = "persist" /\ f = session[u].work
             /\ Becomes(u, [session[u] EXCEPT !.doing = "arming", !.seen = sha'])
    <2>. DEFINE s == session[u]
                v == [s EXCEPT !.doing = "arming", !.seen = sha']
    <2>0. s \in Session /\ Becomes(u, v)
      BY <1>2, <1>5
    <2>. HIDE DEF s
    <2>1. v = [work |-> s.work, source |-> s.source, dirty |-> s.dirty,
               doing |-> "arming", seen |-> sha']
      <3>. DEFINE a == [s EXCEPT !.doing = "arming"]
      <3>1. a = [work |-> s.work, source |-> s.source, dirty |-> s.dirty,
                 doing |-> "arming", seen |-> s.seen]
        BY <2>0 DEF Session
      <3>2. v = [a EXCEPT !.seen = sha']
        OBVIOUS
      <3>. HIDE DEF a, v
      <3>. QED
        BY <3>1, <3>2
    <2>. HIDE DEF v
    <2>2. v \in Session
      <3>1. s.work \in File /\ s.source \in File /\ s.dirty \in BOOLEAN /\ sha' \in Nat
        BY <1>1, <2>0, SessionFields
      <3>. QED
        BY <2>1, <3>1 DEF Session
    <2>3. v.doing = "arming" /\ v.work = s.work /\ v.seen = sha'
      BY <2>1
    <2>4. v.work = f
      BY <1>5, <2>3 DEF s
    <2>5. session[u].doing # "arming"
      BY <1>2, <1>5
    <2>. QED
      BY <1>2, <1>3, <2>0, <2>2, <2>3, <2>4, <2>5, OverwriteIsSafe
  <1>. QED
    BY <1>4, <1>5

LEMMA SessionWritesAreSafe ==
    ASSUME WorkerInv, NEW u \in Sessions,
           SaveSession(u) \/ PersistArming(u) \/ RollBackArming(u) \/ RestoreRevision(u)
    PROVE  SafeStep
  <1>. DEFINE s == session[u]
  <1>0. {"save", "persist", "arming", "restore"} \subseteq Deeds \ {"nothing"} /\ undone \in SUBSET Nat
    BY InvFacts DEF Deeds, RestOK
  <1>1. s # Blank => s.work \in File /\ s.source \in File /\ s.work.arm \in Nat
    BY CopyOf, SessionFields, FileFields
  <1>2. CASE SaveSession(u)
    <2>. DEFINE kept == ~Removes(s.work)
    <2>1. /\ Doing(u, "save") /\ Overwrites(u, s.work)
          /\ Becomes(u, Blank) \/ Unanswered(u)
          /\ careful' = (careful /\ kept)
          /\ run' = run /\ now' = now /\ armings' = armings /\ ran' = ran /\ again' = again
          /\ workedUnder' = workedUnder /\ undone' = undone
      BY <1>2 DEF SaveSession
    <2>2. s.work \in File /\ kept \in BOOLEAN
      BY <1>1, <2>1 DEF Doing
    <2>. HIDE DEF kept, s
    <2>. QED
      BY <1>0, <2>1, <2>2, WritingIsSafe
  <1>3. CASE PersistArming(u)
    <2>. DEFINE kept == ~Removes(s.work) /\ OthersClean(u)
    <2>1. /\ Doing(u, "persist") /\ Overwrites(u, s.work)
          /\ \/ Becomes(u, [s EXCEPT !.doing = "arming", !.seen = sha'])
             \/ Unanswered(u)
          /\ careful' = (careful /\ kept)
          /\ run' = run /\ now' = now /\ armings' = armings /\ ran' = ran /\ again' = again
          /\ workedUnder' = workedUnder /\ undone' = undone \ {s.work.arm}
      BY <1>3 DEF PersistArming
    <2>2. s.work \in File /\ kept \in BOOLEAN
      BY <1>1, <2>1 DEF Doing
    <2>3. undone' \in SUBSET Nat
      BY <1>0, <2>1
    <2>4. s.work = session[u].work
      OBVIOUS
    <2>. HIDE DEF kept
    <2>. QED
      BY <1>0, <2>1, <2>2, <2>3, <2>4, WritingIsSafe
  <1>4. CASE RollBackArming(u)
    <2>. DEFINE kept == Ended(s.work.receipts) \subseteq Ended(s.source.receipts)
    <2>1. /\ Doing(u, "arming") /\ Overwrites(u, s.source)
          /\ Becomes(u, Blank) \/ Unanswered(u)
          /\ careful' = (careful /\ kept)
          /\ run' = run /\ now' = now /\ armings' = armings /\ ran' = ran /\ again' = again
          /\ workedUnder' = workedUnder /\ undone' = undone \cup {s.work.arm}
      BY <1>4 DEF RollBackArming
    <2>2. s.source \in File /\ kept \in BOOLEAN /\ s.work.arm \in Nat
      BY <1>1, <2>1 DEF Doing
    <2>3. undone' \in SUBSET Nat
      BY <1>0, <2>1, <2>2
    <2>. HIDE DEF kept, s
    <2>. QED
      BY <1>0, <2>1, <2>2, <2>3, WritingIsSafe
  <1>5. CASE RestoreRevision(u)
    <2>. DEFINE kept == ~Removes(s.work) /\ Ended(file.receipts) \subseteq Ended(s.work.receipts)
    <2>1. /\ Doing(u, "restore") /\ Overwrites(u, s.work) /\ Unanswered(u)
          /\ careful' = (careful /\ kept)
          /\ run' = run /\ now' = now /\ armings' = armings /\ ran' = ran /\ again' = again
          /\ workedUnder' = workedUnder /\ undone' = undone
      BY <1>5 DEF RestoreRevision
    <2>2. s.work \in File /\ kept \in BOOLEAN
      BY <1>1, <2>1 DEF Doing
    <2>. HIDE DEF kept, s
    <2>. QED
      BY <1>0, <2>1, <2>2, WritingIsSafe
  <1>. QED
    BY <1>2, <1>3, <1>4, <1>5

-----------------------------------------------------------------------------
LEMMA PassIsSafe ==
    ASSUME WorkerInv, Pass
    PROVE  SafeStep
  <1>1. /\ Kept /\ run' = run /\ session' = session /\ armings' = armings /\ now' = now + 1
        /\ unrecorded' = unrecorded /\ workedUnder' = workedUnder /\ undone' = undone
        /\ careful' = careful /\ ran' = ran /\ again' = again
        /\ file' = file /\ sha' = sha /\ past' = past
    BY DEF Pass, shared, history, Kept
  <1>2. now + 1 \in Nat
    BY InvFacts DEF RestOK
  <1>3. GlobalTypeOK' /\ CopiesOK'
    BY <1>1, <1>2, InvFacts DEF GlobalTypeOK, RestOK, CopiesOK, WorkerInv
  <1>4. Held' = Held
    BY <1>1, HeldIs
  <1>. QED
    BY <1>1, <1>3, <1>4, KeptIsQuiet, IdleStep DEF SafeStep, WorkerInv

LEMMA StutterIsSafe ==
    ASSUME WorkerInv, UNCHANGED gvars
    PROVE  SafeStep
  <1>1. /\ Kept /\ run' = run /\ session' = session /\ armings' = armings /\ now' = now
        /\ unrecorded' = unrecorded /\ workedUnder' = workedUnder /\ undone' = undone
        /\ careful' = careful /\ ran' = ran /\ again' = again
        /\ file' = file /\ sha' = sha /\ past' = past
    BY DEF gvars, shared, history, Kept
  <1>2. GlobalTypeOK' /\ CopiesOK'
    BY <1>1, InvFacts DEF GlobalTypeOK, RestOK, CopiesOK, WorkerInv
  <1>3. Held' = Held
    BY <1>1, HeldIs
  <1>. QED
    BY <1>1, <1>2, <1>3, KeptIsQuiet, IdleStep DEF SafeStep, WorkerInv

LEMMA WorkerStepIsSafe ==
    ASSUME WorkerInv, [GlobalNext]_gvars
    PROVE  SafeStep
  <1>1. ASSUME NEW r \in Runtimes, RunStep(r)
        PROVE  SafeStep
    BY <1>1, LoadRunIsSafe, PutClaimIsSafe, ExecuteRunIsSafe, PutResultIsSafe, AbandonIsSafe
       DEF RunStep
  <1>2. ASSUME NEW u \in Sessions, SessionStep(u)
        PROVE  SafeStep
    BY <1>2, StagingIsSafe, HumanRunIsSafe, BeginningIsSafe, EndingIsSafe, SessionWritesAreSafe
       DEF SessionStep
  <1>. QED
    BY <1>1, <1>2, PassIsSafe, StutterIsSafe DEF GlobalNext

LEMMA WorkerStarts ==
    ASSUME GlobalInit
    PROVE  WorkerInv /\ Register!RInit
  <1>1. ASSUME NEW state \in {"ARMED", "PAUSED"}
        PROVE  InitialFile(state) \in File
    <2>1. <<>> \in Seq(Receipt) /\ state \in GlobalStates /\ 0 \in Nat
      BY DEF GlobalStates
    <2>. QED
      BY <2>1 DEF InitialFile, File
  <1>2. file \in File
    BY <1>1 DEF GlobalInit
  <1>3. WorkerInv
    <2>1. GlobalTypeOK
      <3>1. run \in [Runtimes -> Run \cup {Blank, Over}]
        BY DEF GlobalInit
      <3>2. session \in [Sessions -> Session \cup {Blank}]
        BY DEF GlobalInit
      <3>3. past \in SUBSET File
        BY DEF GlobalInit
      <3>4. sha \in Nat \ {0} /\ now \in Nat /\ armings \in Nat
        BY DEF GlobalInit
      <3>5. /\ unrecorded \in SUBSET [of: Occurrence, token: Nat]
            /\ workedUnder \in SUBSET Nat /\ undone \in SUBSET Nat /\ ran \in SUBSET Occurrence
        BY DEF GlobalInit
      <3>6. careful \in BOOLEAN /\ again \in BOOLEAN
        BY DEF GlobalInit
      <3>. QED
        BY <1>2, <3>1, <3>2, <3>3, <3>4, <3>5, <3>6 DEF GlobalTypeOK
    <2>2. CopiesOK
      BY DEF GlobalInit, CopiesOK
    <2>3. UnrecordedRunsAreFlagged
      BY DEF GlobalInit, UnrecordedRunsAreFlagged
    <2>. QED
      BY <2>1, <2>2, <2>3 DEF WorkerInv
  <1>4. Held = [c \in Runtimes \cup Sessions |-> Blank]
    BY HeldIs DEF GlobalInit, RunHeld, SessionHeld
  <1>5. sha \in Nat
    BY DEF GlobalInit
  <1>. QED
    BY <1>2, <1>3, <1>4, <1>5 DEF Register!RInit

LEMMA WorkerInvHolds == GlobalSpec => []WorkerInv
  <1>1. GlobalInit => WorkerInv
    BY WorkerStarts
  <1>2. WorkerInv /\ [GlobalNext]_gvars => WorkerInv'
    BY WorkerStepIsSafe DEF SafeStep
  <1>. QED
    BY <1>1, <1>2, PTL DEF GlobalSpec

-----------------------------------------------------------------------------
(* The variables keep their types.                                         *)
THEOREM GlobalTypeCorrect == GlobalSpec => []GlobalTypeOK
  <1>1. WorkerInv => GlobalTypeOK
    BY DEF WorkerInv
  <1>. QED
    BY <1>1, WorkerInvHolds, PTL

(* Whatever a run did without recording it stays announced in the file     *)
(* until an administrator takes the announcement away.                     *)
THEOREM UnrecordedRunsStayFlagged == GlobalSpec => []UnrecordedRunsAreFlagged
  <1>1. WorkerInv => UnrecordedRunsAreFlagged
    BY DEF WorkerInv
  <1>. QED
    BY <1>1, WorkerInvHolds, PTL

(* No run writes a file that is not armed, however many runs have claimed  *)
(* before it was paused or killed.                                         *)
THEOREM KilledWorkersAreQuiet == GlobalSpec => KilledIsQuiet
  <1>1. WorkerInv /\ [GlobalNext]_gvars
            => [file.state # "ARMED" /\ session' = session => file' = file]_gvars
    BY WorkerStepIsSafe DEF SafeStep, QuietStep
  <1>. QED
    BY <1>1, WorkerInvHolds, PTL DEF GlobalSpec, KilledIsQuiet

(* The checkpoint is a register in which no write is lost under another.   *)
THEOREM CheckpointIsARegister == GlobalSpec => ImplementsRegister
  <1>1. GlobalInit => Register!RInit
    BY WorkerStarts
  <1>2. WorkerInv /\ [GlobalNext]_gvars => [Register!RNext]_Register!cvars
    BY WorkerStepIsSafe DEF SafeStep, RegisterStep
  <1>. QED
    BY <1>1, <1>2, WorkerInvHolds, PTL DEF GlobalSpec, ImplementsRegister, Register!RSpec

-----------------------------------------------------------------------------
(* Why a rollback never undoes an arming that was worked under.  The parts *)
(* of a file that only grow, the version of its last edit and the fence of *)
(* its last claim, date it.  A session that staged an arming goes back to  *)
(* the file it staged it over; once a run has worked under that arming,    *)
(* that file is older than every file a conditional write can still meet.  *)
Older(f, g) == f.edits < g.edits \/ (f.edits = g.edits /\ f.fence < g.fence)

NotNewer(f, g) == f.edits < g.edits \/ (f.edits = g.edits /\ f.fence <= g.fence)

Armed(f, a) == f.state = "ARMED" /\ f.arm = a

StagesArm(v, a) == v # Blank /\ v.doing # "restore" /\ Armed(v.work, a) /\ v.source.arm # a

(* The file, and what a rollback could put back in its place.              *)
Proving(v) == v # Blank /\ v.doing = "arming" /\ v.seen = sha

Back == {file} \cup {session[u].source : u \in {x \in Sessions : Proving(session[x])}}

FileFit(f, n, k) == (f.tick = Nobody <=> f.lease = Nobody) /\ f.arm <= k /\ f.edits < n

(* A working copy differs from its source in what a session may edit.      *)
StagedFrom(w, s) ==
    /\ w.fence = s.fence /\ s.edits <= w.edits /\ w.tick \in {Nobody, s.tick}
    /\ w.state = "ARMED" /\ w.arm = s.arm => s.state = "ARMED"
    /\ w.state = "ARMED" /\ w.arm # s.arm => w.tick = Nobody

SessionFit(v, n, k) ==
    /\ FileFit(v.source, n, k) /\ FileFit(v.work, n + 1, k)
    /\ v.doing = "restore" => ~v.dirty /\ v.work.edits = v.seen
    /\ v.doing # "restore" => StagedFrom(v.work, v.source)
    /\ v.doing \in {"persist", "arming"} => v.work.state = "ARMED" /\ v.work.arm # v.source.arm

RunFit(v, n, k) ==
    /\ FileFit(v.base, n, k) /\ FileFit(v.next, n, k)
    /\ v.next.state = v.base.state /\ v.next.arm = v.base.arm /\ v.next.edits = v.base.edits
    /\ v.pc = "loaded" => v.next.fence = v.base.fence + 1
    /\ v.pc = "executed" => v.next.fence = v.base.fence /\ v.next.tick = Nobody

CopiesFit ==
    /\ FileFit(file, sha, armings)
    /\ \A f \in past : FileFit(f, sha, armings)
    /\ \A r \in Runtimes : run[r] \notin {Blank, Over} => RunFit(run[r], sha, armings)
    /\ \A u \in Sessions : session[u] # Blank => SessionFit(session[u], sha, armings)
    /\ \A a \in workedUnder \cup undone : a <= armings

OneStager ==
    \A u, v \in Sessions : \A a \in Nat :
        StagesArm(session[u], a) /\ StagesArm(session[v], a) => u = v

UndoneStays == \A a \in undone : ~Armed(file, a)

WorkedIsOld ==
    \A u \in Sessions : \A a \in workedUnder :
        StagesArm(session[u], a) => \A g \in Back : Older(session[u].source, g)

ArmedIsOld ==
    \A u \in Sessions : \A a \in Nat :
        StagesArm(session[u], a) /\ Armed(file, a) =>
            /\ NotNewer(session[u].source, file)
            /\ file.tick # Nobody => Older(session[u].source, file)

ArmInv ==
    /\ CopiesFit /\ OneStager /\ UndoneStays /\ WorkedIsOld /\ ArmedIsOld
    /\ RolledBackArmingRanNothing

-----------------------------------------------------------------------------
LEMMA FileFitGrows ==
    ASSUME NEW f \in File, NEW n \in Nat, NEW m \in Nat, NEW k \in Nat, NEW l \in Nat,
           n <= m, k <= l, FileFit(f, n, k)
    PROVE  FileFit(f, m, l)
  BY FileFields DEF FileFit

LEMMA SessionFitGrows ==
    ASSUME NEW v \in Session, NEW n \in Nat, NEW m \in Nat, NEW k \in Nat, NEW l \in Nat,
           n <= m, k <= l, SessionFit(v, n, k)
    PROVE  SessionFit(v, m, l)
  <1>1. v.source \in File /\ v.work \in File
    BY SessionFields
  <1>2. FileFit(v.source, m, l) /\ FileFit(v.work, m + 1, l)
    <2>1. n + 1 \in Nat /\ m + 1 \in Nat /\ n + 1 <= m + 1
      OBVIOUS
    <2>. QED
      BY <1>1, <2>1, FileFitGrows DEF SessionFit
  <1>. QED
    BY <1>2 DEF SessionFit

LEMMA RunFitGrows ==
    ASSUME NEW v \in Run, NEW n \in Nat, NEW m \in Nat, NEW k \in Nat, NEW l \in Nat,
           n <= m, k <= l, RunFit(v, n, k)
    PROVE  RunFit(v, m, l)
  <1>1. v.base \in File /\ v.next \in File
    BY RunFields
  <1>2. FileFit(v.base, m, l) /\ FileFit(v.next, m, l)
    BY <1>1, FileFitGrows DEF RunFit
  <1>. QED
    BY <1>2 DEF RunFit

LEMMA Dating ==
    ASSUME NEW f \in File, NEW g \in File, NEW h \in File
    PROVE  /\ ~Older(f, f) /\ NotNewer(f, f)
           /\ Older(f, g) => NotNewer(f, g)
           /\ Older(f, g) /\ NotNewer(g, h) => Older(f, h)
           /\ NotNewer(f, g) /\ NotNewer(g, h) => NotNewer(f, h)
           /\ NotNewer(f, g) /\ Older(g, h) => Older(f, h)
  BY FileFields DEF Older, NotNewer

LEMMA StagedIsNotOlder ==
    ASSUME NEW w \in File, NEW s \in File, StagedFrom(w, s)
    PROVE  NotNewer(s, w)
  BY FileFields DEF StagedFrom, NotNewer

LEMMA ArmFacts ==
    ASSUME WorkerInv
    PROVE  /\ armings \in Nat /\ workedUnder \in SUBSET Nat /\ undone \in SUBSET Nat
           /\ file.arm \in Nat /\ file \in File /\ sha \in Nat /\ sha + 1 \in Nat
           /\ \A u \in Sessions : session[u] # Blank =>
                  /\ session[u] \in Session
                  /\ session[u].source \in File /\ session[u].work \in File
           /\ Back \subseteq File
  <1>1. \A u \in Sessions : session[u] # Blank =>
            session[u] \in Session /\ session[u].source \in File /\ session[u].work \in File
    BY CopyOf, SessionFields
  <1>2. file \in File
    BY InvFacts
  <1>3. Back \subseteq File
    BY <1>1, <1>2 DEF Back, Proving
  <1>. QED
    BY <1>1, <1>2, <1>3, InvFacts, FileFields DEF RestOK

-----------------------------------------------------------------------------
(* The copies fit after a step of a run, or of a session.                  *)
Grows == Kept \/ \E f \in File : Written(f) /\ FileFit(f, sha + 1, armings')

LEMMA FilesStillFit ==
    ASSUME WorkerInv, CopiesFit, Grows, armings' \in Nat, armings <= armings'
    PROVE  /\ FileFit(file', sha', armings')
           /\ \A f \in past' : FileFit(f, sha', armings')
           /\ sha' \in Nat /\ sha <= sha'
  <1>1. sha \in Nat /\ armings \in Nat /\ file \in File /\ past \in SUBSET File
    BY InvFacts, ArmFacts
  <1>2. sha' \in Nat /\ sha <= sha'
    BY <1>1 DEF Grows, Kept, Written
  <1>3. \A f \in past \cup {file} : FileFit(f, sha', armings')
    BY <1>1, <1>2, FileFitGrows DEF CopiesFit
  <1>. QED
    BY <1>2, <1>3 DEF Grows, Kept, Written

LEMMA OtherCopiesFit ==
    ASSUME WorkerInv, CopiesFit, NEW n \in Nat, NEW k \in Nat, sha <= n, armings <= k
    PROVE  /\ \A r \in Runtimes : run[r] \notin {Blank, Over} => RunFit(run[r], n, k)
           /\ \A u \in Sessions : session[u] # Blank => SessionFit(session[u], n, k)
  <1>1. sha \in Nat /\ armings \in Nat
    BY ArmFacts
  <1>2. \A r \in Runtimes : run[r] \notin {Blank, Over} => run[r] \in Run
    BY InvFacts
  <1>3. \A u \in Sessions : session[u] # Blank => session[u] \in Session
    BY ArmFacts
  <1>. QED
    BY <1>1, <1>2, <1>3, RunFitGrows, SessionFitGrows DEF CopiesFit

LEMMA RunKeepsFit ==
    ASSUME WorkerInv, CopiesFit, NEW r \in Runtimes, NEW v \in Run \cup {Blank, Over},
           run' = [run EXCEPT ![r] = v], session' = session, armings' = armings, Grows,
           v \in Run => RunFit(v, sha', armings),
           \A a \in workedUnder' \cup undone' : a <= armings
    PROVE  CopiesFit'
  <1>0. armings \in Nat /\ armings <= armings' /\ armings' \in Nat
    BY ArmFacts
  <1>1. /\ FileFit(file', sha', armings') /\ \A f \in past' : FileFit(f, sha', armings')
        /\ sha' \in Nat /\ sha <= sha'
    BY <1>0, FilesStillFit
  <1>2. /\ \A q \in Runtimes : run[q] \notin {Blank, Over} => RunFit(run[q], sha', armings')
        /\ \A u \in Sessions : session[u] # Blank => SessionFit(session[u], sha', armings')
    BY <1>0, <1>1, OtherCopiesFit
  <1>3. \A q \in Runtimes : run'[q] = IF q = r THEN v ELSE run[q]
    BY InvFacts
  <1>. QED
    BY <1>1, <1>2, <1>3 DEF CopiesFit

LEMMA SessionKeepsFit ==
    ASSUME WorkerInv, CopiesFit, NEW u \in Sessions, NEW v \in Session \cup {Blank},
           Becomes(u, v), run' = run, armings' \in Nat, armings <= armings', Grows,
           v \in Session => SessionFit(v, sha', armings'),
           \A a \in workedUnder' \cup undone' : a <= armings'
    PROVE  CopiesFit'
  <1>1. /\ FileFit(file', sha', armings') /\ \A f \in past' : FileFit(f, sha', armings')
        /\ sha' \in Nat /\ sha <= sha'
    BY FilesStillFit
  <1>2. /\ \A q \in Runtimes : run[q] \notin {Blank, Over} => RunFit(run[q], sha', armings')
        /\ \A w \in Sessions : session[w] # Blank => SessionFit(session[w], sha', armings')
    BY <1>1, OtherCopiesFit
  <1>3. \A w \in Sessions : session'[w] = IF w = u THEN v ELSE session[w]
    BY InvFacts DEF Becomes
  <1>. QED
    BY <1>1, <1>2, <1>3 DEF CopiesFit

-----------------------------------------------------------------------------
(* Steps that leave the file alone.                                        *)
LEMMA FreshArm ==
    ASSUME WorkerInv, CopiesFit, NEW a \in Nat, armings < a
    PROVE  /\ ~Armed(file, a) /\ a \notin workedUnder /\ a \notin undone
           /\ \A u \in Sessions : ~StagesArm(session[u], a)
  <1>1. armings \in Nat /\ file.arm <= armings /\ file.arm \in Nat
    BY ArmFacts DEF CopiesFit, FileFit
  <1>2. \A u \in Sessions : session[u] # Blank =>
            session[u].work.arm <= armings /\ session[u].work.arm \in Nat
    BY ArmFacts, FileFields DEF CopiesFit, SessionFit, FileFit
  <1>3. \A b \in workedUnder \cup undone : b <= armings /\ b \in Nat
    BY ArmFacts DEF CopiesFit
  <1>. QED
    BY <1>1, <1>2, <1>3 DEF Armed, StagesArm

LEMMA SessionKeepsArm ==
    ASSUME WorkerInv, ArmInv, NEW u \in Sessions, NEW v \in Session \cup {Blank},
           Becomes(u, v), Kept, run' = run, workedUnder' = workedUnder, undone' = undone,
           armings' \in Nat, armings <= armings',
           v \in Session => v.doing # "arming" /\ SessionFit(v, sha, armings'),
           \A a \in Nat : StagesArm(v, a) =>
               \/ StagesArm(session[u], a) /\ v.source = session[u].source
               \/ armings < a
    PROVE  ArmInv'
  <1>0. /\ armings \in Nat /\ workedUnder \in SUBSET Nat /\ undone \in SUBSET Nat
        /\ file' = file /\ sha' = sha /\ sha \in Nat
    BY ArmFacts DEF Kept
  <1>1. \A w \in Sessions : session'[w] = IF w = u THEN v ELSE session[w]
    BY InvFacts DEF Becomes
  <1>2. CopiesFit'
    <2>1. \A a \in workedUnder' \cup undone' : a <= armings'
      <3>1. \A a \in workedUnder \cup undone : a <= armings /\ a \in Nat
        BY <1>0 DEF ArmInv, CopiesFit
      <3>. QED
        BY <1>0, <3>1
    <2>. QED
      BY <1>0, <2>1, SessionKeepsFit DEF Grows, ArmInv
  <1>3. ASSUME NEW w \in Sessions, NEW a \in Nat, StagesArm(session'[w], a)
        PROVE  \/ StagesArm(session[w], a) /\ session'[w].source = session[w].source
               \/ w = u /\ armings < a
    BY <1>1, <1>3
  <1>4. OneStager'
    <2>. SUFFICES ASSUME NEW w \in Sessions, NEW x \in Sessions, NEW a \in Nat,
                         StagesArm(session'[w], a), StagesArm(session'[x], a)
                  PROVE  w = x
      BY DEF OneStager, StagesArm, Armed
    <2>1. CASE armings < a
      <3>1. ~StagesArm(session[w], a) /\ ~StagesArm(session[x], a)
        BY <2>1, FreshArm DEF ArmInv
      <3>. QED
        BY <1>3, <3>1
    <2>2. CASE ~(armings < a)
      BY <1>3, <2>2 DEF ArmInv, OneStager
    <2>. QED
      BY <2>1, <2>2
  <1>5. UndoneStays' /\ RolledBackArmingRanNothing'
    BY <1>0 DEF ArmInv, UndoneStays, RolledBackArmingRanNothing, Armed
  <1>6. Back' \subseteq Back
    <2>1. v # Blank => v \in Session
      OBVIOUS
    <2>2. \A w \in Sessions : Proving(session[w])' =>
              Proving(session[w]) /\ session'[w].source = session[w].source
      BY <1>0, <1>1, <2>1 DEF Proving
    <2>. QED
      BY <1>0, <2>2 DEF Back
  <1>7. WorkedIsOld'
    <2>. SUFFICES ASSUME NEW w \in Sessions, NEW a \in workedUnder, StagesArm(session'[w], a),
                         NEW g \in Back'
                  PROVE  Older(session'[w].source, g)
      BY <1>0 DEF WorkedIsOld, StagesArm, Armed, Older
    <2>1. a \in Nat /\ ~(armings < a)
      BY <1>0, FreshArm DEF ArmInv
    <2>2. StagesArm(session[w], a) /\ session'[w].source = session[w].source
      BY <1>3, <2>1
    <2>. QED
      BY <1>6, <2>2 DEF ArmInv, WorkedIsOld
  <1>8. ArmedIsOld'
    <2>. SUFFICES ASSUME NEW w \in Sessions, NEW a \in Nat, StagesArm(session'[w], a),
                         Armed(file, a)
                  PROVE  /\ NotNewer(session'[w].source, file)
                         /\ file.tick # Nobody => Older(session'[w].source, file)
      BY <1>0 DEF ArmedIsOld, StagesArm, Armed, Older, NotNewer
    <2>1. ~(armings < a)
      BY FreshArm DEF ArmInv
    <2>2. StagesArm(session[w], a) /\ session'[w].source = session[w].source
      BY <1>3, <2>1
    <2>. QED
      BY <2>2 DEF ArmInv, ArmedIsOld
  <1>. QED
    BY <1>2, <1>4, <1>5, <1>7, <1>8 DEF ArmInv

LEMMA IdleKeepsArm ==
    ASSUME WorkerInv, ArmInv, CopiesFit', session' = session, Kept,
           workedUnder' = workedUnder, undone' = undone
    PROVE  ArmInv'
  <1>1. Back' = Back
    BY DEF Back, Proving, Kept
  <1>2. OneStager' /\ UndoneStays' /\ RolledBackArmingRanNothing'
    BY DEF ArmInv, OneStager, UndoneStays, RolledBackArmingRanNothing, StagesArm, Armed, Kept
  <1>3. WorkedIsOld' /\ ArmedIsOld'
    BY <1>1 DEF ArmInv, WorkedIsOld, ArmedIsOld, StagesArm, Armed, Older, NotNewer, Kept
  <1>. QED
    BY <1>2, <1>3 DEF ArmInv

(* A write leaves the claims of all sessions that prove an arming behind.  *)
LEMMA WriteKeepsArm ==
    ASSUME WorkerInv, ArmInv, NEW f \in File, Written(f), CopiesFit',
           \A w \in Sessions : \A a \in Nat : StagesArm(session'[w], a) =>
               StagesArm(session[w], a) /\ session'[w].source = session[w].source,
           Back' \subseteq {f, file}, workedUnder' = workedUnder,
           NotNewer(file, f) \/ f \in Back,
           \A w \in Sessions : \A a \in Nat : StagesArm(session[w], a) /\ Armed(f, a) =>
               /\ NotNewer(session[w].source, f)
               /\ f.tick # Nobody => Older(session[w].source, f),
           UndoneStays', RolledBackArmingRanNothing'
    PROVE  ArmInv'
  <1>0. workedUnder \in SUBSET Nat /\ file \in File /\ file' = f
    BY ArmFacts DEF Written
  <1>1. OneStager'
    BY DEF ArmInv, OneStager, StagesArm, Armed
  <1>2. WorkedIsOld'
    <2>. SUFFICES ASSUME NEW w \in Sessions, NEW a \in workedUnder, StagesArm(session'[w], a),
                         NEW g \in Back'
                  PROVE  Older(session'[w].source, g)
      BY DEF WorkedIsOld, StagesArm, Armed, Older
    <2>1. StagesArm(session[w], a) /\ session'[w].source = session[w].source
      BY <1>0
    <2>2. session[w].source \in File
      BY <2>1, ArmFacts DEF StagesArm
    <2>3. \A h \in Back : Older(session[w].source, h)
      BY <2>1 DEF ArmInv, WorkedIsOld
    <2>4. Older(session[w].source, file)
      BY <2>3 DEF Back
    <2>5. Older(session[w].source, f)
      BY <1>0, <2>2, <2>3, <2>4, Dating
    <2>. QED
      BY <2>1, <2>4, <2>5
  <1>3. ArmedIsOld'
    BY <1>0 DEF ArmedIsOld, StagesArm, Armed, Older, NotNewer
  <1>. QED
    BY <1>1, <1>2, <1>3 DEF ArmInv

(* What a renewed arming, a claim and a result have in common.             *)
LEMMA Continues ==
    ASSUME WorkerInv, ArmInv, NEW f \in File, NotNewer(file, f),
           f.state = "ARMED" => file.state = "ARMED" /\ file.arm = f.arm,
           f.tick \in {Nobody, file.tick} \/ Older(file, f)
    PROVE  /\ \A w \in Sessions : \A a \in Nat : StagesArm(session[w], a) /\ Armed(f, a) =>
                  /\ NotNewer(session[w].source, f)
                  /\ f.tick # Nobody => Older(session[w].source, f)
           /\ \A a \in undone : ~Armed(f, a)
  <1>1. \A a \in undone : ~Armed(f, a)
    BY DEF ArmInv, UndoneStays, Armed
  <1>2. ASSUME NEW w \in Sessions, NEW a \in Nat, StagesArm(session[w], a), Armed(f, a)
        PROVE  /\ NotNewer(session[w].source, f)
               /\ f.tick # Nobody => Older(session[w].source, f)
    <2>1. Armed(file, a)
      BY <1>2 DEF Armed
    <2>2. /\ NotNewer(session[w].source, file)
          /\ file.tick # Nobody => Older(session[w].source, file)
      BY <1>2, <2>1 DEF ArmInv, ArmedIsOld
    <2>3. session[w].source \in File /\ file \in File
      BY <1>2, ArmFacts DEF StagesArm
    <2>. QED
      BY <2>2, <2>3, Dating
  <1>. QED
    BY <1>1, <1>2
-----------------------------------------------------------------------------
(* The steps of a run.                                                     *)
LEMMA RunFitOf ==
    ASSUME WorkerInv, ArmInv, NEW r \in Runtimes, Running(r)
    PROVE  /\ run[r] \in Run /\ RunOK(run[r], file, sha) /\ RunFit(run[r], sha, armings)
           /\ run[r].base \in File /\ run[r].next \in File
  BY RunAt, RunFields DEF ArmInv, CopiesFit, Running

LEMMA LoadRunKeepsArm ==
    ASSUME WorkerInv, ArmInv, NEW r \in Runtimes, LoadRun(r)
    PROVE  ArmInv'
  <1>. DEFINE next == Claimed(file, r, now, sha + 1)
              v == [pc |-> "loaded", at |-> now, sha |-> sha, base |-> file, next |-> next]
  <1>0. /\ MayRun(file) /\ run' = [run EXCEPT ![r] = v] /\ session' = session
        /\ Kept /\ armings' = armings /\ workedUnder' = workedUnder /\ undone' = undone
    BY DEF LoadRun, shared, history, Kept
  <1>1. file \in File /\ sha \in Nat /\ sha + 1 \in Nat /\ now \in Nat
    BY ArmFacts, InvFacts DEF RestOK
  <1>2. file.state = "ARMED" /\ file.tick = Nobody
    BY <1>0 DEF MayRun
  <1>3. next \in File /\ ClaimOf(next, now) /\ ClaimFrom(file, next)
    BY <1>1, <1>2, ClaimedType
  <1>4. FileFit(file, sha, armings)
    BY DEF ArmInv, CopiesFit
  <1>5. v \in Run
    BY <1>1, <1>3, RunMade
  <1>6. v.base = file /\ v.next = next /\ v.pc = "loaded"
    OBVIOUS
  <1>. HIDE DEF next, v
  <1>7. RunFit(v, sha, armings)
    BY <1>2, <1>3, <1>4, <1>6 DEF RunFit, FileFit, ClaimFrom, ClaimOf
  <1>8. CopiesFit'
    <2>1. Grows /\ sha' = sha /\ \A a \in workedUnder' \cup undone' : a <= armings
      BY <1>0 DEF Grows, Kept, ArmInv, CopiesFit
    <2>. QED
      BY <1>0, <1>5, <1>7, <2>1, RunKeepsFit DEF ArmInv
  <1>. QED
    BY <1>0, <1>8, IdleKeepsArm

LEMMA AbandonKeepsArm ==
    ASSUME WorkerInv, ArmInv, NEW r \in Runtimes, Abandon(r)
    PROVE  ArmInv'
  <1>1. /\ run' = [run EXCEPT ![r] = Over] /\ session' = session /\ Kept
        /\ armings' = armings /\ workedUnder' = workedUnder /\ undone' = undone
    BY DEF Abandon, Stops, shared, history, Kept
  <1>2. Over \notin Run
    BY GlobalAssumption
  <1>3. Grows /\ \A a \in workedUnder' \cup undone' : a <= armings
    BY <1>1 DEF Grows, ArmInv, CopiesFit
  <1>4. CopiesFit'
    BY <1>1, <1>2, <1>3, RunKeepsFit DEF ArmInv
  <1>. QED
    BY <1>1, <1>4, IdleKeepsArm

(* A write of a run, whatever it leaves of the run.                        *)
LEMMA RunWriteKeepsArm ==
    ASSUME WorkerInv, ArmInv, NEW r \in Runtimes, NEW v \in Run \cup {Blank, Over},
           NEW f \in File, Written(f), run' = [run EXCEPT ![r] = v], session' = session,
           armings' = armings, workedUnder' = workedUnder, undone' = undone,
           v \in Run => RunFit(v, sha + 1, armings), FileFit(f, sha + 1, armings),
           f.state = file.state, f.arm = file.arm, NotNewer(file, f),
           f.tick = Nobody \/ Older(file, f)
    PROVE  ArmInv'
  <1>0. sha \in Nat /\ sha' = sha + 1 /\ file' = f
    BY ArmFacts DEF Written
  <1>1. Grows /\ \A a \in workedUnder' \cup undone' : a <= armings
    BY DEF Grows, ArmInv, CopiesFit
  <1>2. CopiesFit'
    BY <1>0, <1>1, RunKeepsFit DEF ArmInv
  <1>3. \A u \in Sessions : session[u] # Blank /\ session[u].doing = "arming" => session[u].seen # sha'
    BY <1>0, CopyOf, SessionFields DEF SessionOK
  <1>4. Back' \subseteq {f, file}
    BY <1>0, <1>3 DEF Back, Proving
  <1>5. /\ \A w \in Sessions : \A a \in Nat : StagesArm(session[w], a) /\ Armed(f, a) =>
               /\ NotNewer(session[w].source, f)
               /\ f.tick # Nobody => Older(session[w].source, f)
        /\ \A a \in undone : ~Armed(f, a)
    BY Continues
  <1>6. UndoneStays' /\ RolledBackArmingRanNothing'
    BY <1>0, <1>5 DEF ArmInv, UndoneStays, RolledBackArmingRanNothing, Armed
  <1>. QED
    BY <1>2, <1>4, <1>5, <1>6, WriteKeepsArm

LEMMA PutClaimKeepsArm ==
    ASSUME WorkerInv, ArmInv, NEW r \in Runtimes, PutClaim(r)
    PROVE  ArmInv'
  <1>. DEFINE w == run[r]
              v == [w EXCEPT !.pc = "claimed", !.sha = sha', !.base = w.next]
  <1>0. /\ Running(r) /\ w.pc = "loaded" /\ w.sha = sha /\ Written(w.next)
        /\ run' = [run EXCEPT ![r] = v] /\ session' = session
        /\ armings' = armings /\ workedUnder' = workedUnder /\ undone' = undone
    BY PutIsWritten DEF PutClaim, At, Accepted, history
  <1>1. /\ w \in Run /\ RunOK(w, file, sha) /\ RunFit(w, sha, armings)
        /\ w.base \in File /\ w.next \in File
    BY <1>0, RunFitOf
  <1>2. sha \in Nat /\ sha' = sha + 1 /\ sha' \in Nat /\ armings \in Nat
    BY <1>0, ArmFacts DEF Written
  <1>. HIDE DEF w
  <1>3. v = [pc |-> "claimed", at |-> w.at, sha |-> sha', base |-> w.next, next |-> w.next]
    <2>. DEFINE a == [w EXCEPT !.pc = "claimed"]
                b == [a EXCEPT !.sha = sha']
    <2>1. a = [pc |-> "claimed", at |-> w.at, sha |-> w.sha, base |-> w.base, next |-> w.next]
      BY <1>1 DEF Run
    <2>2. v = [b EXCEPT !.base = w.next]
      OBVIOUS
    <2>. HIDE DEF a, v
    <2>3. b = [pc |-> "claimed", at |-> w.at, sha |-> sha', base |-> w.base, next |-> w.next]
      BY <2>1
    <2>. HIDE DEF b
    <2>. QED
      BY <2>2, <2>3
  <1>. HIDE DEF v
  <1>4. v \in Run
    BY <1>1, <1>2, <1>3, RunFields, RunMade
  <1>5. w.base = file
    BY <1>0, <1>1 DEF RunOK
  <1>6. FileFit(w.next, sha + 1, armings)
    BY <1>1, <1>2, FileFitGrows DEF RunFit
  <1>7. v.base = w.next /\ v.next = w.next /\ v.pc = "claimed"
    BY <1>3
  <1>8. RunFit(v, sha + 1, armings)
    BY <1>6, <1>7 DEF RunFit
  <1>9. /\ w.next.state = file.state /\ w.next.arm = file.arm
        /\ NotNewer(file, w.next) /\ Older(file, w.next)
    BY <1>0, <1>1, <1>5, FileFields DEF RunFit, Older, NotNewer
  <1>. QED
    BY <1>0, <1>1, <1>4, <1>6, <1>8, <1>9, RunWriteKeepsArm

LEMMA PutResultKeepsArm ==
    ASSUME WorkerInv, ArmInv, NEW r \in Runtimes, PutResult(r)
    PROVE  ArmInv'
  <1>. DEFINE w == run[r]
  <1>0. /\ Running(r) /\ w.pc = "executed" /\ w.sha = sha /\ Written(w.next)
        /\ run' = [run EXCEPT ![r] = Over] /\ session' = session
        /\ armings' = armings /\ workedUnder' = workedUnder /\ undone' = undone
    BY PutIsWritten DEF PutResult, At, Accepted, Stops
  <1>1. /\ w \in Run /\ RunOK(w, file, sha) /\ RunFit(w, sha, armings)
        /\ w.base \in File /\ w.next \in File
    BY <1>0, RunFitOf
  <1>2. sha \in Nat /\ sha + 1 \in Nat /\ armings \in Nat /\ sha <= sha + 1
    BY ArmFacts
  <1>3. w.base = file
    BY <1>0, <1>1 DEF RunOK
  <1>4. FileFit(w.next, sha + 1, armings)
    BY <1>1, <1>2, FileFitGrows DEF RunFit
  <1>5. /\ w.next.state = file.state /\ w.next.arm = file.arm
        /\ NotNewer(file, w.next) /\ w.next.tick = Nobody
    BY <1>0, <1>1, <1>3, FileFields DEF RunFit, NotNewer
  <1>6. Over \notin Run
    BY GlobalAssumption
  <1>. HIDE DEF w
  <1>. QED
    BY <1>0, <1>1, <1>4, <1>5, <1>6, RunWriteKeepsArm

(* The file that announces a tick is not one that a session has just       *)
(* armed, and it is newer than the source of every session that staged its *)
(* arming.                                                                 *)
LEMMA ExecuteRunKeepsArm ==
    ASSUME WorkerInv, ArmInv, NEW r \in Runtimes, ExecuteRun(r)
    PROVE  ArmInv'
  <1>. DEFINE w == run[r]
              b == w.base
              D == ToRun(b.receipts, w.at)
  <1>0. /\ Running(r) /\ w.pc = "claimed" /\ w.sha = sha
        /\ session' = session /\ Kept /\ armings' = armings /\ undone' = undone
    BY DEF ExecuteRun, At, Accepted, shared, Kept
  <1>1. /\ w \in Run /\ RunOK(w, file, sha) /\ RunFit(w, sha, armings)
        /\ b \in File /\ b.receipts \in Seq(Receipt) /\ w.at \in Nat
    BY <1>0, RunFitOf, RunFields, FileFields
  <1>2. b = file /\ file.state = "ARMED" /\ file.tick # Nobody
    BY <1>0, <1>1 DEF RunOK, ClaimOf
  <1>3. D \in SUBSET Occurrence /\ IsFiniteSet(D)
    BY <1>1, ToRunType
  <1>4. \E rs \in Seq(Receipt) :
            /\ run' = [run EXCEPT ![r] = [w EXCEPT !.pc = "executed",
                                                   !.next = Released([b EXCEPT !.receipts = rs])]]
            /\ workedUnder' \in {workedUnder, workedUnder \cup {b.arm}}
    <2>1. PICK outcome \in [D -> Outcomes] :
              LET rs == IF DOMAIN outcome = {} THEN b.receipts
                        ELSE AfterBatch(b.receipts, outcome, w.at)
              IN  /\ run' = [run EXCEPT ![r] = [w EXCEPT !.pc = "executed",
                                                         !.next = Released([b EXCEPT !.receipts = rs])]]
                  /\ workedUnder' = IF DOMAIN outcome = {} THEN workedUnder
                                    ELSE workedUnder \cup {b.arm}
      BY DEF ExecuteRun
    <2>. DEFINE rs == IF DOMAIN outcome = {} THEN b.receipts
                      ELSE AfterBatch(b.receipts, outcome, w.at)
    <2>2. rs \in Seq(Receipt)
      <3>. HIDE DEF D
      <3>. QED
        BY <1>1, <1>3, AfterBatchType
    <2>. QED
      BY <2>1, <2>2
  <1>5. PICK rs \in Seq(Receipt) :
            /\ run' = [run EXCEPT ![r] = [w EXCEPT !.pc = "executed",
                                                   !.next = Released([b EXCEPT !.receipts = rs])]]
            /\ workedUnder' \in {workedUnder, workedUnder \cup {b.arm}}
    BY <1>4
  <1>. DEFINE next == Released([b EXCEPT !.receipts = rs])
              v == [w EXCEPT !.pc = "executed", !.next = next]
  <1>. HIDE DEF D, b
  <1>6. /\ next \in File /\ next.state = b.state /\ next.arm = b.arm /\ next.edits = b.edits
        /\ next.fence = b.fence /\ next.tick = Nobody /\ next.lease = Nobody
    <2>. DEFINE g == [b EXCEPT !.receipts = rs]
    <2>0. b \in File
      BY <1>1
    <2>1. g \in File
          /\ g = [state |-> b.state, arm |-> b.arm, fence |-> b.fence, lease |-> b.lease,
                  tick |-> b.tick, receipts |-> rs, edits |-> b.edits]
      BY <2>0, ReceiptsSet
    <2>. HIDE DEF g
    <2>2. Unclaimed(g) \in File
          /\ Unclaimed(g) = [state |-> g.state, arm |-> g.arm, fence |-> g.fence, lease |-> Nobody,
                             tick |-> Nobody, receipts |-> g.receipts, edits |-> g.edits]
      BY <2>1, UnclaimedType
    <2>3. next = Unclaimed(g)
      BY DEF Released, g
    <2>. HIDE DEF next
    <2>. QED
      BY <2>1, <2>2, <2>3
  <1>7. run' = [run EXCEPT ![r] = v]
    BY <1>5
  <1>. HIDE DEF next, w
  <1>8. v = [pc |-> "executed", at |-> w.at, sha |-> w.sha, base |-> w.base, next |-> next]
    <2>. DEFINE a == [w EXCEPT !.pc = "executed"]
    <2>1. a = [pc |-> "executed", at |-> w.at, sha |-> w.sha, base |-> w.base, next |-> w.next]
      BY <1>1 DEF Run
    <2>2. v = [a EXCEPT !.next = next]
      OBVIOUS
    <2>. HIDE DEF a, v
    <2>. QED
      BY <2>1, <2>2
  <1>. HIDE DEF v
  <1>9. v \in Run
    BY <1>1, <1>6, <1>8, RunFields, RunMade
  <1>10. FileFit(b, sha, armings)
    BY <1>1 DEF RunFit, b
  <1>11. RunFit(v, sha, armings)
    BY <1>6, <1>8, <1>10 DEF RunFit, FileFit, b
  <1>12. file.arm <= armings /\ b.arm = file.arm
    BY <1>2 DEF ArmInv, CopiesFit, FileFit
  <1>13. CopiesFit'
    <2>1. Grows /\ sha' = sha /\ \A a \in workedUnder' \cup undone' : a <= armings
      BY <1>0, <1>5, <1>12 DEF Grows, Kept, ArmInv, CopiesFit
    <2>. QED
      BY <1>0, <1>7, <1>9, <1>11, <2>1, RunKeepsFit DEF ArmInv
  <1>14. Armed(file, file.arm) /\ file.arm \notin undone /\ file.arm \in Nat
    BY <1>2, ArmFacts DEF Armed, ArmInv, UndoneStays
  <1>15. \A u \in Sessions : ~Proving(session[u])
    <2>. SUFFICES ASSUME NEW u \in Sessions, Proving(session[u])
                  PROVE  FALSE
      OBVIOUS
    <2>1. session[u].work = file
      BY CopyOf DEF Proving, SessionOK, HeldCopy
    <2>2. StagedFrom(session[u].work, session[u].source)
          /\ session[u].work.state = "ARMED" /\ session[u].work.arm # session[u].source.arm
      BY DEF Proving, ArmInv, CopiesFit, SessionFit
    <2>. QED
      BY <1>2, <2>1, <2>2 DEF StagedFrom
  <1>16. Back = {file} /\ Back' = {file}
    BY <1>0, <1>15 DEF Back, Proving, Kept
  <1>17. WorkedIsOld'
    <2>. SUFFICES ASSUME NEW u \in Sessions, NEW a \in workedUnder', StagesArm(session[u], a)
                  PROVE  Older(session[u].source, file)
      BY <1>0, <1>16 DEF WorkedIsOld, StagesArm, Armed, Older, Kept
    <2>1. CASE a \in workedUnder
      BY <1>16, <2>1 DEF ArmInv, WorkedIsOld
    <2>2. CASE a = file.arm
      BY <1>2, <1>14, <2>2 DEF ArmInv, ArmedIsOld
    <2>. QED
      BY <1>5, <1>12, <2>1, <2>2
  <1>18. OneStager' /\ UndoneStays' /\ ArmedIsOld'
    BY <1>0 DEF ArmInv, OneStager, UndoneStays, ArmedIsOld, StagesArm, Armed, Older, NotNewer, Kept
  <1>19. RolledBackArmingRanNothing'
    BY <1>0, <1>5, <1>12, <1>14 DEF ArmInv, RolledBackArmingRanNothing
  <1>. QED
    BY <1>13, <1>17, <1>18, <1>19 DEF ArmInv
-----------------------------------------------------------------------------
(* The steps of a session.                                                 *)
LEMMA WorkingIsStaged ==
    ASSUME WorkerInv, ArmInv, NEW u \in Sessions, Between(u)
    PROVE  /\ Working(u) \in File /\ Source(u) \in File
           /\ StagedFrom(Working(u), Source(u))
           /\ FileFit(Source(u), sha, armings) /\ FileFit(Working(u), sha + 1, armings)
           /\ \A a \in Nat : Armed(Working(u), a) /\ Source(u).arm # a =>
                  StagesArm(session[u], a) /\ Source(u) = session[u].source
  <1>1. Working(u) \in File /\ Source(u) \in File
    BY CopyOf
  <1>2. CASE session[u] = Blank
    <2>1. Working(u) = file /\ Source(u) = file
      BY <1>2 DEF Working, Source
    <2>2. /\ FileFit(file, sha, armings) /\ file \in File /\ sha \in Nat /\ sha + 1 \in Nat
          /\ armings \in Nat /\ sha <= sha + 1
      BY ArmFacts DEF ArmInv, CopiesFit
    <2>3. FileFit(file, sha + 1, armings)
      BY <2>2, FileFitGrows
    <2>4. StagedFrom(file, file)
      BY <2>2, FileFields DEF StagedFrom
    <2>. QED
      BY <1>1, <2>1, <2>2, <2>3, <2>4 DEF Armed
  <1>3. CASE session[u] # Blank
    <2>1. Working(u) = session[u].work /\ Source(u) = session[u].source
          /\ session[u].doing = "nothing"
      BY <1>3 DEF Working, Source, Between, Doing
    <2>2. SessionFit(session[u], sha, armings)
      BY <1>3 DEF ArmInv, CopiesFit
    <2>. QED
      BY <1>1, <1>3, <2>1, <2>2 DEF SessionFit, StagesArm
  <1>. QED
    BY <1>2, <1>3

LEMMA StagesKeepsArm ==
    ASSUME WorkerInv, ArmInv, NEW u \in Sessions, NEW f \in File, Stages(u, f),
           Kept, run' = run, workedUnder' = workedUnder, undone' = undone,
           armings' \in Nat, armings <= armings',
           FileFit(f, sha + 1, armings'), StagedFrom(f, Source(u)),
           \A a \in Nat : Armed(f, a) => Armed(Working(u), a) \/ armings < a
    PROVE  ArmInv'
  <1>. DEFINE v == [work |-> f, source |-> Source(u), dirty |-> TRUE, doing |-> "nothing", seen |-> 0]
  <1>1. Between(u) /\ Becomes(u, v)
    BY DEF Stages
  <1>2. v \in Session /\ v # Blank
    BY CopyOf, SessionMade DEF Deeds
  <1>3. v.work = f /\ v.source = Source(u) /\ v.doing = "nothing"
    OBVIOUS
  <1>. HIDE DEF v
  <1>4. FileFit(Source(u), sha, armings')
    <2>1. sha \in Nat /\ armings \in Nat /\ sha <= sha
      BY ArmFacts
    <2>. QED
      BY <1>1, <2>1, WorkingIsStaged, FileFitGrows
  <1>5. SessionFit(v, sha, armings')
    BY <1>3, <1>4 DEF SessionFit
  <1>6. \A a \in Nat : StagesArm(v, a) =>
            \/ StagesArm(session[u], a) /\ v.source = session[u].source
            \/ armings < a
    BY <1>1, <1>3, WorkingIsStaged DEF StagesArm
  <1>. QED
    BY <1>1, <1>2, <1>3, <1>5, <1>6, SessionKeepsArm

LEMMA BeginsKeepsArm ==
    ASSUME WorkerInv, ArmInv, NEW u \in Sessions, NEW f \in File,
           NEW op \in {"save", "persist", "restore"}, Begins(u, op, f),
           FileFit(f, sha + 1, armings),
           op = "restore" => session[u] = Blank /\ f.edits = sha,
           op # "restore" => /\ StagedFrom(f, file)
                             /\ \A a \in Nat : Armed(f, a) => Armed(Working(u), a),
           op = "persist" => f.state = "ARMED" /\ f.arm # file.arm
    PROVE  ArmInv'
  <1>. DEFINE v == [work |-> f, source |-> file, dirty |-> session[u] # Blank,
                    doing |-> op, seen |-> sha]
  <1>1. /\ Between(u) /\ Source(u) = file /\ Becomes(u, v) /\ Kept /\ run' = run
        /\ armings' = armings /\ workedUnder' = workedUnder /\ undone' = undone
    BY DEF Begins, shared, history, Kept
  <1>2. v \in Session /\ v # Blank
    <2>1. op \in Deeds /\ (session[u] # Blank) \in BOOLEAN /\ file \in File /\ sha \in Nat
      BY ArmFacts DEF Deeds
    <2>. QED
      BY <2>1, SessionMade
  <1>3. /\ v.work = f /\ v.source = file /\ v.doing = op /\ v.seen = sha
        /\ v.dirty = (session[u] # Blank)
    OBVIOUS
  <1>. HIDE DEF v
  <1>4. FileFit(file, sha, armings) /\ armings \in Nat
    BY ArmFacts DEF ArmInv, CopiesFit
  <1>5. SessionFit(v, sha, armings)
    BY <1>3, <1>4 DEF SessionFit
  <1>6. \A a \in Nat : StagesArm(v, a) => StagesArm(session[u], a) /\ v.source = session[u].source
    BY <1>1, <1>3, WorkingIsStaged DEF StagesArm
  <1>. QED
    BY <1>1, <1>2, <1>3, <1>4, <1>5, <1>6, SessionKeepsArm

(* What a session that rests keeps is what it had.                         *)
RestsWith(v, s) == v # Blank => v.work = s.work /\ v.source = s.source /\ s.dirty

LEMMA RestFits ==
    ASSUME WorkerInv, ArmInv, NEW u \in Sessions, session[u] # Blank,
           NEW v \in Session \cup {Blank}, Rests(v), RestsWith(v, session[u])
    PROVE  /\ v \in Session => v.doing = "nothing" /\ SessionFit(v, sha, armings)
           /\ \A a \in Nat : StagesArm(v, a) =>
                  StagesArm(session[u], a) /\ v.source = session[u].source
  <1>1. SessionFit(session[u], sha, armings)
    BY DEF ArmInv, CopiesFit
  <1>2. v \in Session => v # Blank /\ v.doing = "nothing"
    BY SessionFields DEF Rests
  <1>3. v \in Session => session[u].doing # "restore"
    BY <1>1, <1>2 DEF SessionFit, RestsWith
  <1>4. v \in Session => SessionFit(v, sha, armings)
    BY <1>1, <1>2, <1>3 DEF SessionFit, RestsWith
  <1>5. \A a \in Nat : StagesArm(v, a) =>
                  StagesArm(session[u], a) /\ v.source = session[u].source
    BY <1>3 DEF StagesArm, RestsWith
  <1>. QED
    BY <1>2, <1>4, <1>5

LEMMA RestsKeepsArm ==
    ASSUME WorkerInv, ArmInv, NEW u \in Sessions, session[u] # Blank,
           NEW v \in Session \cup {Blank}, Rests(v), RestsWith(v, session[u]),
           Becomes(u, v), Kept, run' = run, armings' = armings,
           workedUnder' = workedUnder, undone' = undone
    PROVE  ArmInv'
  <1>1. armings \in Nat /\ armings <= armings
    BY ArmFacts
  <1>. QED
    BY <1>1, RestFits, SessionKeepsArm

LEMMA StagingKeepsArm ==
    ASSUME WorkerInv, ArmInv, NEW u \in Sessions, StageArm(u) \/ StagePause(u) \/ StageKill(u)
    PROVE  ArmInv'
  <1>. DEFINE w == Working(u)
  <1>0. Between(u)
    BY DEF StageArm, StagePause, StageKill, Stages
  <1>1. /\ w \in File /\ Source(u) \in File /\ StagedFrom(w, Source(u))
        /\ FileFit(Source(u), sha, armings) /\ FileFit(w, sha + 1, armings)
    BY <1>0, WorkingIsStaged
  <1>2. /\ Kept /\ run' = run /\ workedUnder' = workedUnder /\ undone' = undone
        /\ armings \in Nat /\ armings + 1 \in Nat /\ sha \in Nat
    BY ArmFacts DEF StageArm, StagePause, StageKill, shared, history, Kept
  <1>3. w.arm \in Nat /\ Source(u).arm \in Nat /\ w.edits \in Nat
    BY <1>1, FileFields
  <1>. HIDE DEF w
  <1>4. CASE StageArm(u)
    <2>. DEFINE g == [w EXCEPT !.state = "ARMED", !.arm = armings + 1]
    <2>1. Stages(u, Unclaimed(g)) /\ armings' = armings + 1
      BY <1>4 DEF StageArm, w
    <2>2. g \in File
          /\ g = [state |-> "ARMED", arm |-> armings + 1, fence |-> w.fence, lease |-> w.lease,
                  tick |-> w.tick, receipts |-> w.receipts, edits |-> w.edits]
      BY <1>1, <1>2, ArmedSet
    <2>. HIDE DEF g
    <2>. DEFINE f == Unclaimed(g)
    <2>3. f \in File
          /\ f = [state |-> g.state, arm |-> g.arm, fence |-> g.fence, lease |-> Nobody,
                  tick |-> Nobody, receipts |-> g.receipts, edits |-> g.edits]
      BY <2>2, UnclaimedType
    <2>4. Stages(u, f)
      BY <2>1
    <2>. HIDE DEF f
    <2>5. /\ f.state = "ARMED" /\ f.arm = armings + 1 /\ f.fence = w.fence /\ f.edits = w.edits
          /\ f.tick = Nobody /\ f.lease = Nobody
      BY <2>2, <2>3
    <2>6. FileFit(f, sha + 1, armings')
      BY <1>1, <1>2, <2>1, <2>5 DEF FileFit
    <2>7. StagedFrom(f, Source(u))
      BY <1>1, <1>2, <1>3, <2>5 DEF StagedFrom, FileFit
    <2>8. \A a \in Nat : Armed(f, a) => Armed(Working(u), a) \/ armings < a
      BY <1>2, <2>5 DEF Armed
    <2>9. armings' \in Nat /\ armings <= armings'
      BY <1>2, <2>1
    <2>. QED
      BY <1>2, <2>3, <2>4, <2>6, <2>7, <2>8, <2>9, StagesKeepsArm
  <1>5. CASE StagePause(u) \/ StageKill(u)
    <2>1. PICK state \in {"PAUSED", "KILLED"} :
              Stages(u, Unclaimed([w EXCEPT !.state = state])) /\ armings' = armings
      BY <1>5 DEF StagePause, StageKill, w
    <2>. DEFINE g == [w EXCEPT !.state = state]
    <2>2. g \in File
          /\ g = [state |-> state, arm |-> w.arm, fence |-> w.fence, lease |-> w.lease,
                  tick |-> w.tick, receipts |-> w.receipts, edits |-> w.edits]
      <3>1. state \in GlobalStates
        BY DEF GlobalStates
      <3>. QED
        BY <1>1, <3>1, StateSet
    <2>0. Stages(u, Unclaimed(g))
      BY <2>1
    <2>. HIDE DEF g
    <2>. DEFINE f == Unclaimed(g)
    <2>3. f \in File
          /\ f = [state |-> g.state, arm |-> g.arm, fence |-> g.fence, lease |-> Nobody,
                  tick |-> Nobody, receipts |-> g.receipts, edits |-> g.edits]
      BY <2>2, UnclaimedType
    <2>4. Stages(u, f)
      BY <2>0
    <2>. HIDE DEF f
    <2>5. /\ f.state # "ARMED" /\ f.arm = w.arm /\ f.fence = w.fence /\ f.edits = w.edits
          /\ f.tick = Nobody /\ f.lease = Nobody
      BY <2>2, <2>3
    <2>6. FileFit(f, sha + 1, armings')
      BY <1>1, <2>1, <2>5 DEF FileFit
    <2>7. StagedFrom(f, Source(u))
      BY <1>1, <2>5 DEF StagedFrom
    <2>8. \A a \in Nat : ~Armed(f, a)
      BY <2>5 DEF Armed
    <2>9. armings' \in Nat /\ armings <= armings'
      BY <1>2, <2>1
    <2>. QED
      BY <1>2, <2>3, <2>4, <2>6, <2>7, <2>8, <2>9, StagesKeepsArm
  <1>. QED
    BY <1>4, <1>5

LEMMA HumanRunKeepsArm ==
    ASSUME WorkerInv, ArmInv, NEW u \in Sessions, HumanRun(u)
    PROVE  ArmInv'
  <1>. DEFINE w == Working(u)
              D == ToRun(w.receipts, now)
  <1>0. /\ Between(u) /\ Kept /\ run' = run /\ armings' = armings
        /\ workedUnder' = workedUnder /\ undone' = undone
    BY DEF HumanRun, Stages, shared, Kept
  <1>1. /\ w \in File /\ Source(u) \in File /\ StagedFrom(w, Source(u))
        /\ FileFit(Source(u), sha, armings) /\ FileFit(w, sha + 1, armings)
    BY <1>0, WorkingIsStaged
  <1>2. w.receipts \in Seq(Receipt) /\ now \in Nat /\ armings \in Nat /\ armings <= armings
    BY <1>1, FileFields, InvFacts DEF RestOK
  <1>3. D \in SUBSET Occurrence /\ IsFiniteSet(D)
    BY <1>2, ToRunType
  <1>4. PICK outcome \in [D -> Outcomes] :
            Stages(u, [w EXCEPT !.receipts = AfterBatch(w.receipts, outcome, now)])
    BY DEF HumanRun
  <1>. HIDE DEF D
  <1>5. AfterBatch(w.receipts, outcome, now) \in Seq(Receipt)
    BY <1>2, <1>3, AfterBatchType
  <1>. DEFINE rs == AfterBatch(w.receipts, outcome, now)
              f == [w EXCEPT !.receipts = rs]
  <1>6. rs \in Seq(Receipt) /\ Stages(u, f)
    BY <1>4, <1>5
  <1>. HIDE DEF rs, w
  <1>7. f \in File
        /\ f = [state |-> w.state, arm |-> w.arm, fence |-> w.fence, lease |-> w.lease,
                tick |-> w.tick, receipts |-> rs, edits |-> w.edits]
    BY <1>1, <1>6, ReceiptsSet
  <1>. HIDE DEF f
  <1>8. /\ f.state = w.state /\ f.arm = w.arm /\ f.fence = w.fence /\ f.lease = w.lease
        /\ f.tick = w.tick /\ f.edits = w.edits
    BY <1>7
  <1>9. FileFit(f, sha + 1, armings) /\ StagedFrom(f, Source(u))
    BY <1>1, <1>8 DEF FileFit, StagedFrom
  <1>10. \A a \in Nat : Armed(f, a) => Armed(Working(u), a)
    BY <1>8 DEF Armed, w
  <1>. QED
    BY <1>0, <1>2, <1>6, <1>7, <1>9, <1>10, StagesKeepsArm
LEMMA BeginningKeepsArm ==
    ASSUME WorkerInv, ArmInv, NEW u \in Sessions, BeginSave(u) \/ BeginArming(u) \/ BeginRestore(u)
    PROVE  ArmInv'
  <1>0. /\ sha \in Nat /\ armings \in Nat /\ file \in File /\ past \in SUBSET File
        /\ Between(u)
    BY ArmFacts, InvFacts DEF BeginSave, BeginArming, BeginRestore, Begins
  <1>. DEFINE w == Working(u)
  <1>1. /\ w \in File /\ StagedFrom(w, Source(u)) /\ FileFit(w, sha + 1, armings)
        /\ FileFit(file, sha, armings)
    BY <1>0, WorkingIsStaged DEF ArmInv, CopiesFit
  <1>2. CASE BeginSave(u)
    <2>1. PICK f \in Edited(w) : Begins(u, "save", f)
      BY <1>2 DEF BeginSave
    <2>2. Source(u) = file
      BY <2>1 DEF Begins
    <2>. HIDE DEF w
    <2>3. /\ [w EXCEPT !.edits = sha] \in File
          /\ [w EXCEPT !.edits = sha]
               = [state |-> w.state, arm |-> w.arm, fence |-> w.fence, lease |-> w.lease,
                  tick |-> w.tick, receipts |-> w.receipts, edits |-> sha]
      BY <1>0, <1>1, EditsSet
    <2>4. f \in {w, [w EXCEPT !.edits = sha]}
      BY <2>1 DEF Edited
    <2>5. f \in File /\ FileFit(f, sha + 1, armings) /\ StagedFrom(f, file)
          /\ f.state = w.state /\ f.arm = w.arm
      <3>1. CASE f = w
        BY <1>1, <2>2, <3>1
      <3>2. CASE f = [w EXCEPT !.edits = sha]
        <4>1. /\ f.state = w.state /\ f.arm = w.arm /\ f.fence = w.fence /\ f.lease = w.lease
              /\ f.tick = w.tick /\ f.edits = sha
          BY <2>3, <3>2
        <4>2. file.edits <= sha /\ sha < sha + 1
          BY <1>0, <1>1, FileFields DEF FileFit
        <4>. QED
          BY <1>1, <2>2, <2>3, <3>2, <4>1, <4>2 DEF FileFit, StagedFrom
      <3>. QED
        BY <2>4, <3>1, <3>2
    <2>6. \A a \in Nat : Armed(f, a) => Armed(Working(u), a)
      BY <2>5 DEF Armed, w
    <2>. QED
      BY <2>1, <2>5, <2>6, BeginsKeepsArm
  <1>3. CASE BeginArming(u)
    <2>1. Begins(u, "persist", w) /\ w.state = "ARMED" /\ ~SameArming(w, file)
      BY <1>3 DEF BeginArming
    <2>2. Source(u) = file
      BY <2>1 DEF Begins
    <2>3. w.arm # file.arm
      BY <1>1, <2>1, <2>2 DEF StagedFrom, SameArming
    <2>. HIDE DEF w
    <2>4. \A a \in Nat : Armed(w, a) => Armed(Working(u), a)
      BY DEF w
    <2>. QED
      BY <1>1, <2>1, <2>2, <2>3, <2>4, BeginsKeepsArm
  <1>4. CASE BeginRestore(u)
    <2>1. PICK g \in past : Begins(u, "restore", [g EXCEPT !.edits = sha])
      BY <1>4 DEF BeginRestore
    <2>2. /\ [g EXCEPT !.edits = sha] \in File
          /\ [g EXCEPT !.edits = sha]
               = [state |-> g.state, arm |-> g.arm, fence |-> g.fence, lease |-> g.lease,
                  tick |-> g.tick, receipts |-> g.receipts, edits |-> sha]
      BY <1>0, EditsSet
    <2>3. FileFit(g, sha, armings)
      BY DEF ArmInv, CopiesFit
    <2>. DEFINE f == [g EXCEPT !.edits = sha]
    <2>4. f \in File /\ f.edits = sha /\ f.arm = g.arm /\ f.tick = g.tick /\ f.lease = g.lease
      BY <2>2
    <2>5. Begins(u, "restore", f)
      BY <2>1
    <2>. HIDE DEF f
    <2>6. FileFit(f, sha + 1, armings)
      BY <1>0, <2>3, <2>4 DEF FileFit
    <2>7. session[u] = Blank
      BY <1>4 DEF BeginRestore
    <2>. QED
      BY <2>4, <2>5, <2>6, <2>7, BeginsKeepsArm
  <1>. QED
    BY <1>2, <1>3, <1>4

LEMMA EndingKeepsArm ==
    ASSUME WorkerInv, ArmInv, NEW u \in Sessions, WriteFails(u) \/ ConfirmArming(u) \/ DropEdits(u)
    PROVE  ArmInv'
  <1>1. /\ Kept /\ run' = run /\ armings' = armings /\ session[u] # Blank
        /\ workedUnder' = workedUnder /\ undone' = undone
    BY DEF WriteFails, ConfirmArming, DropEdits, shared, history, Kept, Between, Doing
  <1>2. \E v \in Session \cup {Blank} : Rests(v) /\ RestsWith(v, session[u]) /\ Becomes(u, v)
    <2>1. CASE WriteFails(u)
      BY <1>1, <2>1, UnansweredRests DEF WriteFails, RestsWith
    <2>2. CASE ConfirmArming(u)
      BY <2>2 DEF ConfirmArming, Rests, RestsWith
    <2>3. CASE DropEdits(u)
      BY <2>3 DEF DropEdits, Rests, RestsWith
    <2>. QED
      BY <2>1, <2>2, <2>3
  <1>. QED
    BY <1>1, <1>2, RestsKeepsArm

(* A write of a session leaves it at rest, or with an arming to prove.     *)
Proves(v, s, n) ==
    /\ v \in Session /\ s.doing = "persist" /\ v.doing = "arming" /\ v.seen = n
    /\ v.work = s.work /\ v.source = s.source

(* An arming that is persisted has its flag proof before it, or rests.     *)
LEMMA PersistLeaves ==
    ASSUME WorkerInv, NEW u \in Sessions, session[u] # Blank, session[u].doing = "persist",
           sha \in Nat, sha' = sha + 1,
           \/ Becomes(u, [session[u] EXCEPT !.doing = "arming", !.seen = sha'])
           \/ Unanswered(u)
    PROVE  \E v \in Session \cup {Blank} :
               /\ Becomes(u, v)
               /\ (Rests(v) /\ RestsWith(v, session[u])) \/ Proves(v, session[u], sha')
  <1>. DEFINE s == session[u]
              p == [s EXCEPT !.doing = "arming", !.seen = sha']
  <1>0. /\ s # Blank /\ s.doing = "persist" /\ s \in Session /\ sha \in Nat /\ sha' = sha + 1
        /\ Becomes(u, p) \/ Unanswered(u)
    BY CopyOf
  <1>1. CASE Unanswered(u)
    BY <1>0, <1>1, UnansweredRests DEF RestsWith
  <1>2. CASE Becomes(u, p)
    <2>. HIDE DEF s
    <2>1. p = [work |-> s.work, source |-> s.source, dirty |-> s.dirty,
               doing |-> "arming", seen |-> sha']
      <3>. DEFINE a == [s EXCEPT !.doing = "arming"]
      <3>1. a = [work |-> s.work, source |-> s.source, dirty |-> s.dirty,
                 doing |-> "arming", seen |-> s.seen]
        BY <1>0 DEF Session
      <3>2. p = [a EXCEPT !.seen = sha']
        OBVIOUS
      <3>. HIDE DEF a, p
      <3>. QED
        BY <3>1, <3>2
    <2>. HIDE DEF p
    <2>2. s.work \in File /\ s.source \in File /\ s.dirty \in BOOLEAN /\ sha' \in Nat
      BY <1>0, SessionFields DEF Written
    <2>3. p \in Session
      BY <2>1, <2>2 DEF Session
    <2>4. Proves(p, s, sha')
      BY <1>0, <2>1, <2>3 DEF Proves
    <2>. QED
      BY <1>2, <2>3, <2>4 DEF s
  <1>. QED
    BY <1>0, <1>1, <1>2

LEMMA SessionWriteKeepsArm ==
    ASSUME WorkerInv, ArmInv, NEW u \in Sessions, NEW v \in Session \cup {Blank},
           NEW f \in File, session[u] # Blank, session[u].doing # "nothing",
           HeldCopy(session[u]) = file, Written(f), Becomes(u, v), run' = run,
           armings' = armings, workedUnder' = workedUnder,
           (Rests(v) /\ RestsWith(v, session[u])) \/ Proves(v, session[u], sha'),
           FileFit(f, sha + 1, armings), NotNewer(file, f) \/ f \in Back,
           \A w \in Sessions : \A a \in Nat : StagesArm(session[w], a) /\ Armed(f, a) =>
               /\ NotNewer(session[w].source, f)
               /\ f.tick # Nobody => Older(session[w].source, f),
           undone' \in SUBSET Nat, \A a \in undone' : a <= armings /\ ~Armed(f, a),
           workedUnder \cap undone' = {}
    PROVE  ArmInv'
  <1>0. /\ sha \in Nat /\ sha + 1 \in Nat /\ sha <= sha + 1 /\ armings \in Nat
        /\ sha' = sha + 1 /\ file' = f /\ session[u] \in Session
    BY ArmFacts DEF Written
  <1>1. \A w \in Sessions : session'[w] = IF w = u THEN v ELSE session[w]
    BY InvFacts DEF Becomes
  <1>2. SessionFit(session[u], sha, armings)
    BY DEF ArmInv, CopiesFit
  <1>3. /\ v \in Session => SessionFit(v, sha', armings')
        /\ \A a \in Nat : StagesArm(v, a) =>
               StagesArm(session[u], a) /\ v.source = session[u].source
    <2>1. CASE Rests(v) /\ RestsWith(v, session[u])
      <3>1. v \in Session => SessionFit(v, sha, armings)
        BY <2>1, RestFits
      <3>2. \A a \in Nat : StagesArm(v, a) =>
               StagesArm(session[u], a) /\ v.source = session[u].source
        BY <2>1, RestFits
      <3>3. v \in Session => SessionFit(v, sha + 1, armings)
        BY <1>0, <3>1, SessionFitGrows
      <3>. QED
        BY <1>0, <3>2, <3>3
    <2>2. CASE Proves(v, session[u], sha')
      <3>1. SessionFit(v, sha, armings)
        BY <1>2, <2>2 DEF SessionFit, Proves
      <3>2. SessionFit(v, sha + 1, armings)
        BY <1>0, <2>2, <3>1, SessionFitGrows DEF Proves
      <3>. QED
        BY <1>0, <2>2, <3>2 DEF Proves, StagesArm
    <2>. QED
      BY <2>1, <2>2
  <1>4. CopiesFit'
    <2>1. \A a \in workedUnder' \cup undone' : a <= armings'
      BY DEF ArmInv, CopiesFit
    <2>2. Grows /\ armings' \in Nat /\ armings <= armings'
      BY <1>0 DEF Grows
    <2>. QED
      BY <1>3, <2>1, <2>2, SessionKeepsFit DEF ArmInv
  <1>5. \A w \in Sessions : \A a \in Nat : StagesArm(session'[w], a) =>
            StagesArm(session[w], a) /\ session'[w].source = session[w].source
    BY <1>1, <1>3
  <1>6. Back' \subseteq {f, file}
    <2>1. \A w \in Sessions : session[w] # Blank /\ session[w].doing = "arming"
              => session[w].seen # sha'
      BY <1>0, CopyOf, SessionFields DEF SessionOK
    <2>2. v # Blank /\ v.doing = "arming" => v.source = file
      BY DEF Rests, Proves, HeldCopy
    <2>. QED
      BY <1>0, <1>1, <2>1, <2>2 DEF Back, Proving
  <1>7. UndoneStays' /\ RolledBackArmingRanNothing'
    BY <1>0 DEF UndoneStays, RolledBackArmingRanNothing, Armed
  <1>. QED
    BY <1>4, <1>5, <1>6, <1>7, WriteKeepsArm

(* What every accepted write of a session does.                            *)
LEMMA AcceptedFacts ==
    ASSUME WorkerInv, ArmInv, NEW u \in Sessions, NEW op \in Deeds \ {"nothing"},
           NEW f \in File, Doing(u, op), Overwrites(u, f)
    PROVE  /\ session[u] # Blank /\ session[u].doing = op /\ session[u].seen = sha
           /\ session[u] \in Session /\ session[u].work \in File /\ session[u].source \in File
           /\ HeldCopy(session[u]) = file /\ Written(f)
           /\ SessionFit(session[u], sha, armings) /\ undone \in SUBSET Nat
           /\ sha \in Nat /\ armings \in Nat
           /\ \A a \in undone : a <= armings /\ ~Armed(file, a)
           /\ workedUnder \cap undone = {}
  <1>1. session[u].seen = sha /\ Written(f)
    BY OverwritesFacts
  <1>2. /\ session[u] # Blank /\ session[u].doing = op /\ HeldCopy(session[u]) = file
        /\ session[u] \in Session /\ session[u].work \in File /\ session[u].source \in File
    BY <1>1, HoldsFile
  <1>3. SessionFit(session[u], sha, armings)
    BY <1>2 DEF ArmInv, CopiesFit
  <1>4. undone \in SUBSET Nat /\ sha \in Nat /\ armings \in Nat
    BY ArmFacts
  <1>5. \A a \in undone : a <= armings /\ ~Armed(file, a)
    BY DEF ArmInv, CopiesFit, UndoneStays
  <1>. QED
    BY <1>1, <1>2, <1>3, <1>4, <1>5 DEF ArmInv, RolledBackArmingRanNothing

LEMMA SaveSessionKeepsArm ==
    ASSUME WorkerInv, ArmInv, NEW u \in Sessions, SaveSession(u)
    PROVE  ArmInv'
  <1>. DEFINE s == session[u]
              f == s.work
  <1>0. /\ Doing(u, "save") /\ MaySave(f) /\ Overwrites(u, f)
        /\ Becomes(u, Blank) \/ Unanswered(u)
        /\ run' = run /\ armings' = armings /\ workedUnder' = workedUnder /\ undone' = undone
    BY DEF SaveSession
  <1>1. f \in File
    BY <1>0, ArmFacts DEF Doing
  <1>2. "save" \in Deeds \ {"nothing"}
    BY DEF Deeds
  <1>3. /\ s # Blank /\ s.doing = "save" /\ s.source = file /\ HeldCopy(s) = file
        /\ Written(f) /\ SessionFit(s, sha, armings) /\ undone \in SUBSET Nat
        /\ \A a \in undone : a <= armings /\ ~Armed(file, a)
        /\ workedUnder \cap undone = {}
    BY <1>0, <1>1, <1>2, AcceptedFacts DEF HeldCopy
  <1>4. FileFit(f, sha + 1, armings) /\ StagedFrom(f, file)
    BY <1>3 DEF SessionFit
  <1>5. NotNewer(file, f) /\ f.tick \in {Nobody, file.tick}
    BY <1>1, <1>4, StagedIsNotOlder, ArmFacts DEF StagedFrom
  <1>6. f.state = "ARMED" => file.state = "ARMED" /\ file.arm = f.arm
    BY <1>0 DEF MaySave, SameArming
  <1>7. \E v \in Session \cup {Blank} : Rests(v) /\ RestsWith(v, s) /\ Becomes(u, v)
    BY <1>0, <1>3, UnansweredRests DEF Rests, RestsWith
  <1>8. /\ \A w \in Sessions : \A a \in Nat : StagesArm(session[w], a) /\ Armed(f, a) =>
               /\ NotNewer(session[w].source, f)
               /\ f.tick # Nobody => Older(session[w].source, f)
        /\ \A a \in undone : ~Armed(f, a)
    BY <1>1, <1>5, <1>6, Continues
  <1>9. s.doing # "nothing"
    BY <1>3
  <1>. HIDE DEF f
  <1>. QED
    BY <1>0, <1>1, <1>3, <1>4, <1>5, <1>7, <1>8, <1>9, SessionWriteKeepsArm

LEMMA RestoreKeepsArm ==
    ASSUME WorkerInv, ArmInv, NEW u \in Sessions, RestoreRevision(u)
    PROVE  ArmInv'
  <1>. DEFINE s == session[u]
              f == s.work
  <1>0. /\ Doing(u, "restore") /\ MaySave(f) /\ Overwrites(u, f) /\ Unanswered(u)
        /\ run' = run /\ armings' = armings /\ workedUnder' = workedUnder /\ undone' = undone
    BY DEF RestoreRevision
  <1>1. f \in File
    BY <1>0, ArmFacts DEF Doing
  <1>2. "restore" \in Deeds \ {"nothing"}
    BY DEF Deeds
  <1>3. /\ s # Blank /\ s.doing = "restore" /\ HeldCopy(s) = file /\ s.seen = sha
        /\ Written(f) /\ SessionFit(s, sha, armings) /\ undone \in SUBSET Nat
        /\ \A a \in undone : a <= armings /\ ~Armed(file, a)
        /\ workedUnder \cap undone = {}
    BY <1>0, <1>1, <1>2, AcceptedFacts
  <1>4. FileFit(f, sha + 1, armings) /\ f.edits = sha
    BY <1>3 DEF SessionFit
  <1>5. NotNewer(file, f) /\ Older(file, f)
    BY <1>4 DEF ArmInv, CopiesFit, FileFit, Older, NotNewer
  <1>6. f.state = "ARMED" => file.state = "ARMED" /\ file.arm = f.arm
    BY <1>0 DEF MaySave, SameArming
  <1>7. \E v \in Session \cup {Blank} : Rests(v) /\ RestsWith(v, s) /\ Becomes(u, v)
    BY <1>0, <1>3, UnansweredRests DEF RestsWith
  <1>8. /\ \A w \in Sessions : \A a \in Nat : StagesArm(session[w], a) /\ Armed(f, a) =>
               /\ NotNewer(session[w].source, f)
               /\ f.tick # Nobody => Older(session[w].source, f)
        /\ \A a \in undone : ~Armed(f, a)
    BY <1>1, <1>5, <1>6, Continues
  <1>9. s.doing # "nothing"
    BY <1>3
  <1>. HIDE DEF f
  <1>. QED
    BY <1>0, <1>1, <1>3, <1>4, <1>5, <1>7, <1>8, <1>9, SessionWriteKeepsArm

(* Only the session that staged an arming persists it.                     *)
LEMMA PersistKeepsArm ==
    ASSUME WorkerInv, ArmInv, NEW u \in Sessions, PersistArming(u)
    PROVE  ArmInv'
  <1>. DEFINE s == session[u]
              f == s.work
              p == [s EXCEPT !.doing = "arming", !.seen = sha']
  <1>0. /\ Doing(u, "persist") /\ Overwrites(u, f)
        /\ Becomes(u, p) \/ Unanswered(u)
        /\ run' = run /\ armings' = armings /\ workedUnder' = workedUnder
        /\ undone' = undone \ {f.arm}
    BY DEF PersistArming
  <1>1. f \in File
    BY <1>0, ArmFacts DEF Doing
  <1>2. "persist" \in Deeds \ {"nothing"}
    BY DEF Deeds
  <1>3. /\ s # Blank /\ s.doing = "persist" /\ HeldCopy(s) = file /\ s.source = file
        /\ Written(f) /\ SessionFit(s, sha, armings) /\ undone \in SUBSET Nat
        /\ \A a \in undone : a <= armings /\ ~Armed(file, a)
        /\ workedUnder \cap undone = {} /\ s \in Session /\ sha \in Nat
    BY <1>0, <1>1, <1>2, AcceptedFacts DEF HeldCopy
  <1>4. /\ FileFit(f, sha + 1, armings) /\ StagedFrom(f, file)
        /\ f.state = "ARMED" /\ f.arm # file.arm /\ f.tick = Nobody /\ f.arm \in Nat
    BY <1>1, <1>3, FileFields DEF SessionFit, StagedFrom
  <1>5. NotNewer(file, f)
    BY <1>1, <1>4, StagedIsNotOlder, ArmFacts
  <1>6. StagesArm(s, f.arm)
    BY <1>3, <1>4 DEF StagesArm, Armed
  <1>7. \E v \in Session \cup {Blank} :
            /\ Becomes(u, v)
            /\ (Rests(v) /\ RestsWith(v, s)) \/ Proves(v, s, sha')
    BY <1>0, <1>3, PersistLeaves DEF Written
  <1>8. ASSUME NEW w \in Sessions, NEW a \in Nat, StagesArm(session[w], a), Armed(f, a)
        PROVE  /\ NotNewer(session[w].source, f)
               /\ f.tick # Nobody => Older(session[w].source, f)
    <2>1. a = f.arm
      BY <1>8 DEF Armed
    <2>2. w = u
      BY <1>4, <1>6, <1>8, <2>1 DEF ArmInv, OneStager
    <2>. QED
      BY <1>3, <1>4, <1>5, <2>2
  <1>9. /\ undone' \in SUBSET Nat /\ \A a \in undone' : a <= armings /\ ~Armed(f, a)
        /\ workedUnder \cap undone' = {}
    BY <1>0, <1>3 DEF Armed
  <1>10. s.doing # "nothing"
    BY <1>3
  <1>. HIDE DEF f
  <1>. QED
    BY <1>0, <1>1, <1>3, <1>4, <1>5, <1>7, <1>8, <1>9, <1>10, SessionWriteKeepsArm

(* A rollback is accepted only over the arming it takes back, so that no   *)
(* run has worked under it: its source would have to be older than itself. *)
LEMMA RollBackKeepsArm ==
    ASSUME WorkerInv, ArmInv, NEW u \in Sessions, RollBackArming(u)
    PROVE  ArmInv'
  <1>. DEFINE s == session[u]
              f == s.source
  <1>0. /\ Doing(u, "arming") /\ MaySave(f) /\ Overwrites(u, f)
        /\ Becomes(u, Blank) \/ Unanswered(u)
        /\ run' = run /\ armings' = armings /\ workedUnder' = workedUnder
        /\ undone' = undone \cup {s.work.arm}
    BY DEF RollBackArming
  <1>1. f \in File
    BY <1>0, ArmFacts DEF Doing
  <1>2. "arming" \in Deeds \ {"nothing"}
    BY DEF Deeds
  <1>3. /\ s # Blank /\ s.doing = "arming" /\ HeldCopy(s) = file /\ s.work = file
        /\ s.seen = sha /\ Written(f) /\ SessionFit(s, sha, armings) /\ undone \in SUBSET Nat
        /\ \A a \in undone : a <= armings /\ ~Armed(file, a)
        /\ workedUnder \cap undone = {} /\ s.work \in File /\ sha \in Nat /\ armings \in Nat
    BY <1>0, <1>1, <1>2, AcceptedFacts DEF HeldCopy
  <1>4. /\ FileFit(f, sha, armings) /\ FileFit(file, sha + 1, armings)
        /\ file.state = "ARMED" /\ file.arm # f.arm /\ file.arm \in Nat
    BY <1>3, FileFields DEF SessionFit
  <1>5. FileFit(f, sha + 1, armings)
    <2>1. sha + 1 \in Nat /\ sha <= sha + 1 /\ armings <= armings
      BY <1>3
    <2>. QED
      BY <1>1, <1>3, <1>4, <2>1, FileFitGrows
  <1>6. f \in Back
    BY <1>3 DEF Back, Proving
  <1>7. f.state # "ARMED"
    BY <1>0, <1>4 DEF MaySave, SameArming
  <1>8. file.arm \notin workedUnder
    <2>. SUFFICES ASSUME file.arm \in workedUnder
                  PROVE  FALSE
      OBVIOUS
    <2>1. StagesArm(s, file.arm)
      BY <1>3, <1>4 DEF StagesArm, Armed
    <2>2. Older(f, f)
      BY <1>6, <2>1 DEF ArmInv, WorkedIsOld
    <2>. QED
      BY <1>1, <2>2, Dating
  <1>9. /\ undone' \in SUBSET Nat /\ \A a \in undone' : a <= armings /\ ~Armed(f, a)
        /\ workedUnder \cap undone' = {}
    BY <1>0, <1>3, <1>4, <1>7, <1>8 DEF Armed, FileFit
  <1>10. \E v \in Session \cup {Blank} : Rests(v) /\ RestsWith(v, s) /\ Becomes(u, v)
    BY <1>0, <1>3, UnansweredRests DEF Rests, RestsWith
  <1>11. s.doing # "nothing" /\ \A a \in Nat : ~Armed(f, a)
    BY <1>3, <1>7 DEF Armed
  <1>. HIDE DEF f
  <1>. QED
    BY <1>0, <1>1, <1>3, <1>5, <1>6, <1>9, <1>10, <1>11, SessionWriteKeepsArm

-----------------------------------------------------------------------------
LEMMA ArmStep ==
    ASSUME WorkerInv, ArmInv, [GlobalNext]_gvars
    PROVE  ArmInv'
  <1>1. ASSUME NEW r \in Runtimes, RunStep(r)
        PROVE  ArmInv'
    BY <1>1, LoadRunKeepsArm, PutClaimKeepsArm, ExecuteRunKeepsArm, PutResultKeepsArm,
       AbandonKeepsArm DEF RunStep
  <1>2. ASSUME NEW u \in Sessions, SessionStep(u)
        PROVE  ArmInv'
    BY <1>2, StagingKeepsArm, HumanRunKeepsArm, BeginningKeepsArm, EndingKeepsArm,
       SaveSessionKeepsArm, RestoreKeepsArm, PersistKeepsArm, RollBackKeepsArm DEF SessionStep
  <1>3. CASE Pass \/ UNCHANGED gvars
    <2>1. /\ Kept /\ run' = run /\ session' = session /\ armings' = armings
          /\ workedUnder' = workedUnder /\ undone' = undone
      BY <1>3 DEF Pass, gvars, shared, history, Kept
    <2>2. CopiesFit'
      BY <2>1 DEF ArmInv, CopiesFit, Kept
    <2>. QED
      BY <2>1, <2>2, IdleKeepsArm
  <1>. QED
    BY <1>1, <1>2, <1>3 DEF GlobalNext

LEMMA ArmStarts ==
    ASSUME GlobalInit
    PROVE  ArmInv
  <1>1. \A u \in Sessions : session[u] = Blank
    BY DEF GlobalInit
  <1>2. FileFit(file, sha, armings)
    BY DEF GlobalInit, InitialFile, FileFit
  <1>3. CopiesFit
    BY <1>1, <1>2 DEF GlobalInit, CopiesFit
  <1>. QED
    BY <1>1, <1>3 DEF ArmInv, OneStager, UndoneStays, WorkedIsOld, ArmedIsOld, StagesArm,
       RolledBackArmingRanNothing, GlobalInit

LEMMA ArmInvHolds == GlobalSpec => []ArmInv
  <1>1. GlobalInit => ArmInv
    BY ArmStarts
  <1>2. WorkerInv /\ ArmInv /\ [GlobalNext]_gvars => ArmInv'
    BY ArmStep
  <1>. QED
    BY <1>1, <1>2, WorkerInvHolds, PTL DEF GlobalSpec

(* No occurrence ran, nor will run, under an arming that was rolled back   *)
(* and not persisted again.                                                *)
THEOREM RolledBackArmingsRanNothing == GlobalSpec => []RolledBackArmingRanNothing
  <1>1. ArmInv => RolledBackArmingRanNothing
    BY DEF ArmInv
  <1>. QED
    BY <1>1, ArmInvHolds, PTL

-----------------------------------------------------------------------------
(* An occurrence that was due and is not any more will never be again.     *)
Known(o, t) == \E s \in Nat : s <= t /\ o \in DueAt(s)

Gone(o, t) == \A s \in Nat : t <= s => o \notin DueAt(s)

LEMMA DivisionGrows ==
    ASSUME NEW x \in Nat, NEW y \in Nat, x <= y, NEW e \in Nat \ {0}
    PROVE  x \div e <= y \div e
  <1>. DEFINE p == x \div e
              q == y \div e
  <1>1. p \in Nat /\ q \in Nat
    OBVIOUS
  <1>2. e * p <= x /\ y < e * q + e
    <2>1. x = e * p + (x % e) /\ y = e * q + (y % e)
      OBVIOUS
    <2>2. x % e \in 0..(e - 1) /\ y % e \in 0..(e - 1)
      OBVIOUS
    <2>. QED
      BY <1>1, <2>1, <2>2
  <1>. HIDE DEF p, q
  <1>3. ASSUME q < p
        PROVE  FALSE
    <2>1. PICK d \in Nat : p = q + 1 + d
      <3>1. p - q - 1 \in Nat /\ p = q + 1 + (p - q - 1)
        BY <1>1, <1>3
      <3>. QED
        BY <3>1
    <2>2. e * p = e * q + e + e * d /\ e * d >= 0 /\ e * q \in Nat
      BY <1>1, <2>1
    <2>. QED
      BY <1>2, <2>2
  <1>. QED
    BY <1>1, <1>3 DEF p, q

LEMMA DueGrows ==
    ASSUME NEW s \in Schedules, NEW t \in Nat, NEW u \in Nat, t <= u, Cadence[s].at <= t
    PROVE  /\ PreviousDue(s, t) \in Nat /\ PreviousDue(s, u) \in Nat
           /\ PreviousDue(s, t) <= PreviousDue(s, u)
  <1>1. Cadence[s].at \in Nat /\ Cadence[s].every \in Nat
    BY ExecutorAssumption
  <1>. DEFINE e == Cadence[s].every
              x == t - Cadence[s].at
              y == u - Cadence[s].at
  <1>2. x \in Nat /\ y \in Nat /\ x <= y
    BY <1>1
  <1>3. CASE e = 0
    BY <1>1, <1>3 DEF PreviousDue
  <1>4. CASE e # 0
    <2>0. e \in Nat \ {0}
      BY <1>1, <1>4
    <2>. HIDE DEF e, x, y
    <2>. DEFINE p == x \div e
                q == y \div e
    <2>1. p \in Nat /\ q \in Nat
      BY <1>2, <2>0
    <2>2. p <= q
      BY <1>2, <2>0, DivisionGrows
    <2>. HIDE DEF p, q
    <2>3. PICK d \in Nat : q = p + d
      <3>1. q - p \in Nat /\ q = p + (q - p)
        BY <2>1, <2>2
      <3>. QED
        BY <3>1
    <2>4. p * e \in Nat /\ q * e \in Nat /\ d * e \in Nat /\ q * e = p * e + d * e
      BY <2>0, <2>1, <2>3
    <2>5. /\ PreviousDue(s, t) = Cadence[s].at + p * e
          /\ PreviousDue(s, u) = Cadence[s].at + q * e
      BY <2>0 DEF PreviousDue, p, q, x, y, e
    <2>. QED
      BY <1>1, <2>4, <2>5
  <1>. QED
    BY <1>3, <1>4

LEMMA KnownAndGone ==
    ASSUME NEW o, NEW t \in Nat
    PROVE  /\ Known(o, t) /\ o \notin DueAt(t) => Gone(o, t)
           /\ \A u \in Nat : t <= u => /\ Known(o, t) => Known(o, u)
                                       /\ Gone(o, t) => Gone(o, u)
           /\ o \in DueAt(t) => Known(o, t) /\ ~Gone(o, t)
  <1>1. ASSUME Known(o, t), o \notin DueAt(t), NEW u \in Nat, t <= u, o \in DueAt(u)
        PROVE  FALSE
    <2>1. PICK r \in Nat : r <= t /\ o \in DueAt(r)
      BY <1>1 DEF Known
    <2>2. PICK s \in Schedules : Cadence[s].at <= r /\ o = <<s, PreviousDue(s, r)>>
      BY <2>1 DEF DueAt
    <2>3. PICK v \in Schedules : Cadence[v].at <= u /\ o = <<v, PreviousDue(v, u)>>
      BY <1>1 DEF DueAt
    <2>4. v = s /\ PreviousDue(s, r) = PreviousDue(s, u)
      BY <2>2, <2>3
    <2>5. Cadence[s].at \in Nat
      BY ExecutorAssumption
    <2>6. Cadence[s].at <= t
      BY <2>1, <2>2, <2>5
    <2>7. /\ PreviousDue(s, r) <= PreviousDue(s, t) /\ PreviousDue(s, t) <= PreviousDue(s, u)
          /\ PreviousDue(s, r) \in Nat /\ PreviousDue(s, t) \in Nat
      BY <1>1, <2>1, <2>2, <2>6, DueGrows
    <2>8. o = <<s, PreviousDue(s, t)>>
      BY <2>2, <2>4, <2>7
    <2>. QED
      BY <1>1, <2>6, <2>8 DEF DueAt
  <1>2. \A u \in Nat : t <= u => (Known(o, t) => Known(o, u)) /\ (Gone(o, t) => Gone(o, u))
    BY DEF Known, Gone
  <1>3. o \in DueAt(t) => Known(o, t) /\ ~Gone(o, t)
    BY DEF Known, Gone
  <1>. QED
    BY <1>1, <1>2, <1>3 DEF Gone

-----------------------------------------------------------------------------
(* What a batch ends is in the receipts it leaves.                         *)
LEMMA EndedIn ==
    ASSUME NEW rs \in Seq(Receipt), NEW o
    PROVE  o \in Ended(rs) <=> \E i \in 1..Len(rs) : rs[i].of = o /\ rs[i].state \in Terminal
  BY DEF Ended

(* The batch is cut to MaxJobs.                                            *)
LEMMA BatchFits ==
    ASSUME NEW t \in Nat, NEW D \in SUBSET Batch(t)
    PROVE  IsFiniteSet(D) /\ Cardinality(D) \in Nat /\ Cardinality(D) <= MaxJobs
  <1>1. D \in SUBSET Occurrence /\ IsFiniteSet(D) /\ IsFiniteSet(DueAt(t)) /\ D \subseteq DueAt(t)
    BY DueType, FS_Subset DEF Batch
  <1>. DEFINE n == Cardinality(D)
              q == InOrder(D)
  <1>2. n \in Nat /\ MaxJobs \in Nat
    BY <1>1, FS_CardinalityType, ExecutorAssumption
  <1>3. /\ q \in [1..n -> D] /\ \A i, j \in 1..n : i # j => q[i] # q[j]
    BY <1>1, OrderExists DEF SetToSeqs
  <1>4. \A i, j \in 1..n : i < j => Earlier(q[i], q[j])
    BY <1>1, <1>3, OrderExists DEF Sorted
  <1>. HIDE DEF n, q
  <1>5. ASSUME MaxJobs < n
        PROVE  FALSE
    <2>1. n \in 1..n /\ n - 1 \in Nat
      BY <1>2, <1>5
    <2>. DEFINE E == {p \in DueAt(t) : Earlier(p, q[n])}
                f == [i \in 1..(n - 1) |-> q[i]]
    <2>2. q[n] \in Batch(t)
      BY <1>3, <2>1
    <2>3. Cardinality(E) < MaxJobs
      BY <2>2 DEF Batch
    <2>4. IsFiniteSet(E) /\ Cardinality(E) \in Nat
      BY <1>1, FS_Subset, FS_CardinalityType
    <2>5. f \in [1..(n - 1) -> E]
      BY <1>1, <1>2, <1>3, <1>4, <2>1
    <2>6. \A i, j \in 1..(n - 1) : f[i] = f[j] => i = j
      BY <1>2, <1>3, <2>1
    <2>. HIDE DEF f, E
    <2>7. f \in Injection(1..(n - 1), E)
      BY <2>5, <2>6 DEF Injection, IsInjective
    <2>8. Cardinality(1..(n - 1)) <= Cardinality(E)
      BY <2>4, <2>7, FS_Injection
    <2>9. Cardinality(1..(n - 1)) = n - 1
      BY <2>1, FS_Interval
    <2>. QED
      BY <1>2, <1>5, <2>3, <2>4, <2>8, <2>9
  <1>. QED
    BY <1>1, <1>2, <1>5 DEF n

(* The newest receipts are kept, and nothing else.                         *)
LEMMA NewestKeeps ==
    ASSUME NEW rs \in Seq(Receipt)
    PROVE  /\ \A k \in 1..Len(Newest(rs)) : \E j \in 1..Len(rs) : Newest(rs)[k] = rs[j]
           /\ \A j \in 1..Len(rs) : Len(rs) < MaxReceipts + j =>
                  \E k \in 1..Len(Newest(rs)) : Newest(rs)[k] = rs[j]
  <1>. DEFINE n == Len(rs)
  <1>1. n \in Nat /\ MaxReceipts \in Nat
    BY ExecutorAssumption
  <1>2. CASE n > MaxReceipts
    <2>. DEFINE m == n - MaxReceipts
    <2>1. m \in Nat /\ m + 1 \in 1..(n + 1) /\ m + 1 \in Nat
      BY <1>1, <1>2
    <2>2. Newest(rs) = SubSeq(rs, m + 1, n)
      BY <1>2 DEF Newest
    <2>3. /\ Len(SubSeq(rs, m + 1, n)) = MaxReceipts
          /\ \A k \in 1..MaxReceipts : SubSeq(rs, m + 1, n)[k] = rs[m + k]
      BY <1>1, <1>2, <2>1
    <2>4. \A k \in 1..MaxReceipts : m + k \in 1..n
      BY <1>1, <1>2
    <2>5. \A j \in 1..n : n < MaxReceipts + j => j - m \in 1..MaxReceipts /\ m + (j - m) = j
      BY <1>1, <1>2
    <2>. HIDE DEF m, n
    <2>. QED
      BY <2>2, <2>3, <2>4, <2>5 DEF n
  <1>3. CASE ~(n > MaxReceipts)
    BY <1>1, <1>3 DEF Newest
  <1>. QED
    BY <1>2, <1>3

(* The list before it is cut: the old receipts, and then one of each       *)
(* occurrence of the batch.                                                *)
Appends(rs, D, outcome, all, q) ==
    LET n == Cardinality(D)
    IN  /\ n \in Nat /\ n <= MaxJobs /\ q \in [1..n -> D]
        /\ \A i, j \in 1..n : i # j => q[i] # q[j]
        /\ \A o \in D : \E i \in 1..n : q[i] = o
        /\ all \in Seq(Receipt) /\ Len(all) = Len(rs) + n /\ Len(rs) \in Nat
        /\ \A i \in 1..Len(rs) : all[i] = rs[i]
        /\ \A i \in 1..n : /\ all[Len(rs) + i].of = q[i]
                           /\ all[Len(rs) + i].state = outcome[q[i]]
        /\ \A j \in 1..Len(all) : j \in 1..Len(rs) \/ \E i \in 1..n : j = Len(rs) + i

LEMMA BatchWrites ==
    ASSUME NEW rs \in Seq(Receipt), NEW t \in Nat, NEW D \in SUBSET Batch(t),
           NEW outcome \in [D -> Outcomes]
    PROVE  \E all, q : Appends(rs, D, outcome, all, q) /\ AfterBatch(rs, outcome, t) = Newest(all)
  <1>. DEFINE q == InOrder(D)
              n == Cardinality(D)
              new == [i \in DOMAIN q |-> NewReceipt(rs, q[i], outcome[q[i]], t)]
              all == rs \o new
  <1>1. D \in SUBSET Occurrence /\ IsFiniteSet(D) /\ n \in Nat /\ n <= MaxJobs
    BY DueType, BatchFits
  <1>2. q \in [1..n -> D] /\ \A i, j \in 1..n : i # j => q[i] # q[j]
    BY <1>1, OrderExists DEF SetToSeqs
  <1>3. \A o \in D : \E i \in 1..n : q[i] = o
    <2>1. q \in Injection(1..n, D)
      <3>. HIDE DEF q, n
      <3>. QED
        BY <1>2 DEF Injection, IsInjective
    <2>2. Cardinality(1..n) = n
      BY <1>1, FS_Interval
    <2>3. q \in Surjection(1..n, D)
      BY <1>1, <2>1, <2>2, FS_Injection
    <2>. QED
      BY <2>3 DEF Surjection
  <1>4. IsFiniteSet(DOMAIN rs)
    <2>1. DOMAIN rs = 1..Len(rs) /\ Len(rs) \in Nat
      OBVIOUS
    <2>. QED
      BY <2>1, FS_Interval
  <1>5. AfterBatch(rs, outcome, t) = Newest(all)
    BY DEF AfterBatch
  <1>. HIDE DEF q, n
  <1>6. new \in [1..n -> Receipt]
    BY <1>1, <1>2, <1>4, NewReceiptType
  <1>7. \A i \in 1..n : new[i].of = q[i] /\ new[i].state = outcome[q[i]]
    BY <1>2 DEF NewReceipt
  <1>. HIDE DEF new
  <1>8. new \in Seq(Receipt) /\ Len(new) = n
    BY <1>1, <1>6
  <1>9. /\ all \in Seq(Receipt) /\ Len(all) = Len(rs) + n /\ Len(rs) \in Nat
        /\ \A i \in 1..Len(rs) : all[i] = rs[i]
        /\ \A i \in 1..n : all[Len(rs) + i] = new[i]
        /\ \A j \in 1..Len(all) : j \in 1..Len(rs) \/ \E i \in 1..n : j = Len(rs) + i
    <2>1. all \in Seq(Receipt) /\ Len(all) = Len(rs) + n /\ Len(rs) \in Nat
      BY <1>8
    <2>2. \A i \in 1..Len(rs) : all[i] = rs[i]
      BY <1>1, <1>8
    <2>3. \A i \in 1..n : all[Len(rs) + i] = new[i]
      BY <1>1, <1>8
    <2>4. ASSUME NEW j \in 1..Len(all), j \notin 1..Len(rs)
          PROVE  \E i \in 1..n : j = Len(rs) + i
      <3>1. j - Len(rs) \in 1..n /\ j = Len(rs) + (j - Len(rs))
        BY <1>1, <2>1, <2>4
      <3>. QED
        BY <3>1
    <2>. QED
      BY <2>1, <2>2, <2>3, <2>4
  <1>. HIDE DEF all
  <1>10. \A i \in 1..n : all[Len(rs) + i].of = q[i] /\ all[Len(rs) + i].state = outcome[q[i]]
    BY <1>7, <1>9
  <1>11. Appends(rs, D, outcome, all, q)
    BY <1>1, <1>2, <1>3, <1>9, <1>10 DEF Appends, n
  <1>. QED
    BY <1>5, <1>11

LEMMA BatchEnds ==
    ASSUME NEW rs \in Seq(Receipt), NEW t \in Nat, NEW D \in SUBSET Batch(t),
           NEW outcome \in [D -> Outcomes]
    PROVE  /\ \A o \in D : outcome[o] \in Terminal => o \in Ended(AfterBatch(rs, outcome, t))
           /\ Ended(AfterBatch(rs, outcome, t)) \subseteq Ended(rs) \cup D
  <1>. DEFINE n == Cardinality(D)
  <1>0. PICK all, q : Appends(rs, D, outcome, all, q) /\ AfterBatch(rs, outcome, t) = Newest(all)
    BY BatchWrites
  <1>1. /\ n \in Nat /\ n <= MaxJobs /\ q \in [1..n -> D]
        /\ \A i, j \in 1..n : i # j => q[i] # q[j]
        /\ \A o \in D : \E i \in 1..n : q[i] = o
        /\ all \in Seq(Receipt) /\ Len(all) = Len(rs) + n /\ Len(rs) \in Nat
        /\ \A i \in 1..Len(rs) : all[i] = rs[i]
        /\ \A i \in 1..n : /\ all[Len(rs) + i].of = q[i]
                           /\ all[Len(rs) + i].state = outcome[q[i]]
        /\ \A j \in 1..Len(all) : j \in 1..Len(rs) \/ \E i \in 1..n : j = Len(rs) + i
    BY <1>0 DEF Appends
  <1>. HIDE DEF n
  <1>2. Newest(all) \in Seq(Receipt)
    BY <1>1, NewestType
  <1>3. ASSUME NEW o \in D, outcome[o] \in Terminal
        PROVE  o \in Ended(Newest(all))
    <2>1. PICK i \in 1..n : q[i] = o
      BY <1>1
    <2>2. Len(rs) + i \in 1..Len(all) /\ Len(all) < MaxReceipts + (Len(rs) + i)
      BY <1>1, ExecutorAssumption
    <2>3. PICK k \in 1..Len(Newest(all)) : Newest(all)[k] = all[Len(rs) + i]
      BY <1>1, <2>2, NewestKeeps
    <2>4. Newest(all)[k].of = o /\ Newest(all)[k].state \in Terminal
      BY <1>1, <1>3, <2>1, <2>3
    <2>. QED
      BY <1>2, <2>4, EndedIn
  <1>4. ASSUME NEW o \in Ended(Newest(all))
        PROVE  o \in Ended(rs) \cup D
    <2>1. PICK k \in 1..Len(Newest(all)) : Newest(all)[k].of = o /\ Newest(all)[k].state \in Terminal
      BY <1>2, EndedIn
    <2>2. PICK j \in 1..Len(all) : Newest(all)[k] = all[j]
      BY <1>1, NewestKeeps
    <2>3. CASE j \in 1..Len(rs)
      <3>1. all[j] = rs[j]
        BY <1>1, <2>3
      <3>. QED
        BY <2>1, <2>2, <2>3, <3>1, EndedIn
    <2>4. CASE j \notin 1..Len(rs)
      <3>1. PICK i \in 1..n : j = Len(rs) + i
        BY <1>1, <2>4
      <3>2. all[j].of = q[i] /\ q[i] \in D
        BY <1>1, <3>1
      <3>. QED
        BY <2>1, <2>2, <3>2
    <2>. QED
      BY <2>3, <2>4
  <1>. QED
    BY <1>0, <1>3, <1>4

LEMMA NotEndedYet ==
    ASSUME NEW rs \in Seq(Receipt), NEW t \in Nat
    PROVE  ToRun(rs, t) \cap Ended(rs) = {} /\ ToRun(rs, t) \subseteq DueAt(t)
  BY DEF ToRun, Runnable, Settled, Ended, Batch

-----------------------------------------------------------------------------
(* Where the receipts are of what ended while everybody was careful: in    *)
(* the file; with the run whose tick the file announces; in the edits of a *)
(* session, over a file that no run touches; or nowhere, when the          *)
(* occurrence is not due any more and will not be again.                   *)
FileKnown(f, t) ==
    /\ f.tick # Nobody => f.state = "ARMED"
    /\ \A o \in Ended(f.receipts) : Known(o, t)

Lasts(f, g, t) == \A o \in Ended(f.receipts) : o \in Ended(g.receipts) \/ Gone(o, t)

RunKnown(v, t) ==
    /\ v.at <= t
    /\ \A o \in Ended(v.base.receipts) \cup Ended(v.next.receipts) : Known(o, v.at)
    /\ v.pc = "loaded" => v.next.receipts = v.base.receipts

CopiesKnown ==
    /\ \A f \in past \cup {file} : FileKnown(f, now)
    /\ \A r \in Runtimes : run[r] \notin {Blank, Over} => RunKnown(run[r], now)
    /\ \A u \in Sessions : session[u] # Blank =>
           FileKnown(session[u].work, now) /\ FileKnown(session[u].source, now)

(* A claim belongs to one run.                                             *)
Claims(v) == v \notin {Blank, Over} /\ v.pc # "loaded"

OneClaim ==
    \A q, r \in Runtimes :
        Claims(run[q]) /\ Claims(run[r]) /\ run[q].sha = run[r].sha => q = r

Remembering ==
    careful =>
        /\ \A r \in Runtimes : run[r] \notin {Blank, Over} /\ run[r].pc = "executed" =>
               Lasts(run[r].base, run[r].next, run[r].at)
        /\ \A u \in Sessions : session[u] # Blank /\ session[u].doing # "restore" =>
               Lasts(session[u].source, session[u].work, now)

Current(v) == v \notin {Blank, Over} /\ v.sha = sha

WithRun(o) ==
    /\ file.tick # Nobody
    /\ \A r \in Runtimes : Current(run[r]) =>
           run[r].pc = "executed" /\ o \in Ended(run[r].next.receipts)

HasEdits(v) == v # Blank /\ v.dirty /\ v.doing # "arming"

WithSession(o) ==
    /\ file.state # "ARMED"
    /\ \E u \in Sessions : HasEdits(session[u]) /\ o \in Ended(session[u].work.receipts)

Passed(o) ==
    /\ Gone(o, now)
    /\ \A r \in Runtimes : Current(run[r]) /\ run[r].pc # "executed" => Gone(o, run[r].at)

Covered ==
    careful => \A o \in ran :
        o \in Ended(file.receipts) \/ WithRun(o) \/ WithSession(o) \/ Passed(o)

CareInv == CopiesKnown /\ OneClaim /\ Remembering /\ Covered /\ CarefulWorkEndsOnce

-----------------------------------------------------------------------------
LEMMA Remembered ==
    ASSUME NEW f, NEW g, NEW t \in Nat, Remembers(g.receipts, f.receipts, t),
           \A o \in Ended(f.receipts) : Known(o, t)
    PROVE  Lasts(f, g, t)
  BY KnownAndGone DEF Lasts, Remembers

LEMMA LastsLonger ==
    ASSUME NEW f, NEW g, NEW h, NEW t \in Nat, NEW u \in Nat, t <= u
    PROVE  /\ Lasts(f, g, t) /\ Lasts(g, h, t) => Lasts(f, h, t)
           /\ Lasts(f, f, t)
           /\ Lasts(f, g, t) => Lasts(f, g, u)
  BY KnownAndGone DEF Lasts

LEMMA FileKnownLonger ==
    ASSUME NEW f, NEW t \in Nat, NEW u \in Nat, t <= u, FileKnown(f, t)
    PROVE  FileKnown(f, u)
  BY KnownAndGone DEF FileKnown

LEMMA CareFacts ==
    ASSUME WorkerInv, ArmInv, CareInv
    PROVE  /\ now \in Nat /\ sha \in Nat /\ file \in File /\ FileKnown(file, now)
           /\ careful \in BOOLEAN /\ ran \in SUBSET Occurrence /\ again = FALSE
           /\ \A r \in Runtimes : run[r] \notin {Blank, Over} =>
                  /\ run[r] \in Run /\ run[r].at \in Nat /\ run[r].sha \in Nat /\ run[r].sha <= sha
                  /\ run[r].base \in File /\ run[r].next \in File
                  /\ RunOK(run[r], file, sha) /\ RunFit(run[r], sha, armings)
                  /\ RunKnown(run[r], now)
           /\ \A u \in Sessions : session[u] # Blank =>
                  /\ session[u] \in Session /\ session[u].work \in File /\ session[u].source \in File
                  /\ SessionOK(session[u], file, sha) /\ SessionFit(session[u], sha, armings)
                  /\ FileKnown(session[u].work, now) /\ FileKnown(session[u].source, now)
  <1>1. now \in Nat /\ careful \in BOOLEAN /\ ran \in SUBSET Occurrence /\ again = FALSE
    BY InvFacts DEF RestOK, CareInv, CarefulWorkEndsOnce
  <1>2. sha \in Nat /\ file \in File
    BY InvFacts
  <1>3. FileKnown(file, now)
    BY DEF CareInv, CopiesKnown
  <1>4. ASSUME NEW r \in Runtimes, run[r] \notin {Blank, Over}
        PROVE  /\ run[r] \in Run /\ run[r].at \in Nat /\ run[r].sha \in Nat /\ run[r].sha <= sha
               /\ run[r].base \in File /\ run[r].next \in File
               /\ RunOK(run[r], file, sha) /\ RunFit(run[r], sha, armings)
               /\ RunKnown(run[r], now)
    <2>1. run[r] \in Run
      BY <1>4, InvFacts
    <2>2. RunOK(run[r], file, sha)
      BY <1>4 DEF WorkerInv, CopiesOK
    <2>3. RunFit(run[r], sha, armings) /\ RunKnown(run[r], now)
      BY <1>4 DEF ArmInv, CopiesFit, CareInv, CopiesKnown
    <2>. QED
      BY <2>1, <2>2, <2>3, RunFields DEF RunOK
  <1>5. ASSUME NEW u \in Sessions, session[u] # Blank
        PROVE  /\ session[u] \in Session /\ session[u].work \in File /\ session[u].source \in File
               /\ SessionOK(session[u], file, sha) /\ SessionFit(session[u], sha, armings)
               /\ FileKnown(session[u].work, now) /\ FileKnown(session[u].source, now)
    BY <1>5, CopyOf, SessionFields DEF ArmInv, CopiesFit, CareInv, CopiesKnown
  <1>. QED
    BY <1>1, <1>2, <1>3, <1>4, <1>5

(* The file stays, or is overwritten by one whose receipts are known.      *)
Moves == Kept \/ \E f \in File : Written(f) /\ FileKnown(f, now)

LEMMA FilesStayKnown ==
    ASSUME WorkerInv, ArmInv, CareInv, Moves, now' = now
    PROVE  \A f \in past' \cup {file'} : FileKnown(f, now')
  BY DEF CareInv, CopiesKnown, Moves, Kept, Written

LEMMA RunCares ==
    ASSUME WorkerInv, ArmInv, CareInv, NEW r \in Runtimes, NEW v \in Run \cup {Blank, Over},
           run' = [run EXCEPT ![r] = v], session' = session, now' = now, Moves,
           v \in Run => RunKnown(v, now), OneClaim',
           careful' => careful,
           careful' /\ v \in Run /\ v.pc = "executed" => Lasts(v.base, v.next, v.at),
           again' = FALSE, Covered'
    PROVE  CareInv'
  <1>1. \A q \in Runtimes : run'[q] = IF q = r THEN v ELSE run[q]
    BY InvFacts
  <1>2. v \notin {Blank, Over} => v \in Run
    OBVIOUS
  <1>3. CopiesKnown'
    BY <1>1, <1>2, FilesStayKnown DEF CareInv, CopiesKnown
  <1>4. Remembering'
    BY <1>1, <1>2 DEF CareInv, Remembering
  <1>. QED
    BY <1>3, <1>4 DEF CareInv, CarefulWorkEndsOnce

LEMMA SessionCares ==
    ASSUME WorkerInv, ArmInv, CareInv, NEW u \in Sessions, NEW v \in Session \cup {Blank},
           Becomes(u, v), run' = run, now' = now, Moves,
           v \in Session => FileKnown(v.work, now) /\ FileKnown(v.source, now),
           careful' => careful,
           careful' /\ v \in Session /\ v.doing # "restore" => Lasts(v.source, v.work, now),
           again' = FALSE, Covered'
    PROVE  CareInv'
  <1>1. \A w \in Sessions : session'[w] = IF w = u THEN v ELSE session[w]
    BY InvFacts DEF Becomes
  <1>2. v # Blank => v \in Session
    OBVIOUS
  <1>3. CopiesKnown'
    BY <1>1, <1>2, FilesStayKnown DEF CareInv, CopiesKnown
  <1>4. Remembering'
    BY <1>1, <1>2 DEF CareInv, Remembering
  <1>5. OneClaim'
    BY DEF CareInv, OneClaim, Claims
  <1>. QED
    BY <1>3, <1>4, <1>5 DEF CareInv, CarefulWorkEndsOnce

-----------------------------------------------------------------------------
(* What ended stays covered.  When the file stays, what a session has in   *)
(* its edits has to stay there, or to be in the file.                      *)
LEMMA EditsStayCovered ==
    ASSUME WorkerInv, ArmInv, CareInv, NEW u \in Sessions, NEW v \in Session \cup {Blank},
           Becomes(u, v), run' = run, now' = now, Kept, careful' => careful, ran' = ran,
           careful' => \A o \in Ended(session[u].work.receipts) : HasEdits(session[u]) =>
               (HasEdits(v) /\ o \in Ended(v.work.receipts)) \/ o \in Ended(file.receipts)
    PROVE  Covered'
  <1>1. \A w \in Sessions : session'[w] = IF w = u THEN v ELSE session[w]
    BY InvFacts DEF Becomes
  <1>. SUFFICES ASSUME careful', NEW o \in ran
                PROVE  o \in Ended(file.receipts) \/ WithRun(o)' \/ WithSession(o)' \/ Passed(o)'
    BY DEF Covered, Kept
  <1>2. o \in Ended(file.receipts) \/ WithRun(o) \/ WithSession(o) \/ Passed(o)
    BY DEF CareInv, Covered
  <1>3. CASE WithRun(o) \/ Passed(o)
    BY <1>3 DEF WithRun, Passed, Current, Kept
  <1>4. CASE WithSession(o)
    <2>1. PICK w \in Sessions : HasEdits(session[w]) /\ o \in Ended(session[w].work.receipts)
      BY <1>4 DEF WithSession
    <2>2. file.state # "ARMED" /\ file' = file
      BY <1>4 DEF WithSession, Kept
    <2>3. CASE w = u
      BY <1>1, <2>1, <2>2, <2>3 DEF WithSession, HasEdits
    <2>4. CASE w # u
      BY <1>1, <2>1, <2>2, <2>4 DEF WithSession, HasEdits
    <2>. QED
      BY <2>3, <2>4
  <1>. QED
    BY <1>2, <1>3, <1>4

(* A write leaves the runs behind; it has to keep the receipts of what is  *)
(* due, and the announcement.                                              *)
LEMMA WritesStayCovered ==
    ASSUME WorkerInv, ArmInv, CareInv, NEW u \in Sessions, NEW v \in Session \cup {Blank},
           NEW f \in File, Written(f), Becomes(u, v), run' = run, now' = now,
           careful' => careful, ran' = ran,
           careful' => /\ Lasts(file, f, now)
                       /\ file.tick # Nobody => f.tick # Nobody,
           careful' /\ file.state # "ARMED" =>
               \A w \in Sessions : HasEdits(session[w]) =>
                   \/ w # u /\ f.state # "ARMED"
                   \/ Ended(session[w].work.receipts) \subseteq Ended(f.receipts)
    PROVE  Covered'
  <1>1. \A w \in Sessions : session'[w] = IF w = u THEN v ELSE session[w]
    BY InvFacts DEF Becomes
  <1>2. file' = f /\ sha' = sha + 1 /\ sha \in Nat
    BY CareFacts DEF Written
  <1>3. \A r \in Runtimes : ~Current(run[r])'
    BY <1>2, CareFacts DEF Current
  <1>. SUFFICES ASSUME careful', NEW o \in ran
                PROVE  o \in Ended(f.receipts) \/ WithRun(o)' \/ WithSession(o)' \/ Passed(o)'
    BY <1>2 DEF Covered
  <1>4. o \in Ended(file.receipts) \/ WithRun(o) \/ WithSession(o) \/ Passed(o)
    BY DEF CareInv, Covered
  <1>5. CASE o \in Ended(file.receipts)
    BY <1>3, <1>5 DEF Lasts, Passed
  <1>6. CASE WithRun(o)
    BY <1>2, <1>3, <1>6 DEF WithRun
  <1>7. CASE WithSession(o)
    <2>1. PICK w \in Sessions : HasEdits(session[w]) /\ o \in Ended(session[w].work.receipts)
      BY <1>7 DEF WithSession
    <2>2. file.state # "ARMED"
      BY <1>7 DEF WithSession
    <2>3. CASE w # u /\ f.state # "ARMED"
      BY <1>1, <1>2, <2>1, <2>3 DEF WithSession, HasEdits
    <2>4. CASE Ended(session[w].work.receipts) \subseteq Ended(f.receipts)
      BY <2>1, <2>4
    <2>. QED
      BY <2>1, <2>2, <2>3, <2>4
  <1>8. CASE Passed(o)
    BY <1>3, <1>8 DEF Passed
  <1>. QED
    BY <1>4, <1>5, <1>6, <1>7, <1>8
-----------------------------------------------------------------------------
(* The steps of a run.                                                     *)
LEMMA LoadRunCares ==
    ASSUME WorkerInv, ArmInv, CareInv, NEW r \in Runtimes, LoadRun(r)
    PROVE  CareInv'
  <1>. DEFINE next == Claimed(file, r, now, sha + 1)
              v == [pc |-> "loaded", at |-> now, sha |-> sha, base |-> file, next |-> next]
  <1>0. /\ MayRun(file) /\ run' = [run EXCEPT ![r] = v] /\ session' = session /\ Kept
        /\ now' = now /\ careful' = careful /\ ran' = ran /\ again' = again
    BY DEF LoadRun, shared, history, Kept
  <1>1. file \in File /\ sha \in Nat /\ sha + 1 \in Nat /\ now \in Nat
    BY CareFacts
  <1>2. file.state = "ARMED" /\ file.tick = Nobody
    BY <1>0 DEF MayRun
  <1>3. next \in File /\ next.receipts = file.receipts
    BY <1>1, <1>2, ClaimedType DEF ClaimFrom
  <1>4. v \in Run /\ v \notin {Blank, Over}
    BY <1>1, <1>3, RunMade, RunFields
  <1>5. v.base = file /\ v.next = next /\ v.pc = "loaded" /\ v.at = now /\ v.sha = sha
    OBVIOUS
  <1>. HIDE DEF next, v
  <1>6. \A q \in Runtimes : run'[q] = IF q = r THEN v ELSE run[q]
    BY <1>0, InvFacts
  <1>7. RunKnown(v, now)
    BY <1>1, <1>3, <1>5, CareFacts DEF RunKnown, FileKnown
  <1>8. OneClaim'
    BY <1>5, <1>6 DEF CareInv, OneClaim, Claims
  <1>9. Covered'
    <2>. SUFFICES ASSUME careful, NEW o \in ran
                  PROVE  o \in Ended(file.receipts) \/ Passed(o)'
      BY <1>0 DEF Covered, Kept
    <2>1. o \in Ended(file.receipts) \/ Passed(o)
      BY <1>2 DEF CareInv, Covered, WithRun, WithSession
    <2>2. Passed(o) => Passed(o)'
      BY <1>0, <1>5, <1>6 DEF Passed, Current, Kept
    <2>. QED
      BY <2>1, <2>2
  <1>10. again' = FALSE /\ Moves
    BY <1>0, CareFacts DEF Moves
  <1>. QED
    BY <1>0, <1>4, <1>5, <1>7, <1>8, <1>9, <1>10, RunCares

LEMMA PutClaimCares ==
    ASSUME WorkerInv, ArmInv, CareInv, NEW r \in Runtimes, PutClaim(r)
    PROVE  CareInv'
  <1>. DEFINE w == run[r]
              v == [w EXCEPT !.pc = "claimed", !.sha = sha', !.base = w.next]
  <1>0. /\ w \notin {Blank, Over} /\ w.pc = "loaded" /\ w.sha = sha /\ Written(w.next)
        /\ run' = [run EXCEPT ![r] = v] /\ session' = session
        /\ now' = now /\ careful' = careful /\ ran' = ran /\ again' = again
    BY PutIsWritten DEF PutClaim, At, Running, Accepted, history
  <1>1. /\ w \in Run /\ w.at \in Nat /\ w.next \in File /\ w.base \in File /\ now \in Nat
        /\ RunOK(w, file, sha) /\ RunFit(w, sha, armings) /\ RunKnown(w, now)
    BY <1>0, CareFacts
  <1>2. sha \in Nat /\ sha' = sha + 1 /\ sha' \in Nat /\ file' = w.next
    BY <1>0, CareFacts DEF Written
  <1>. HIDE DEF w
  <1>3. v = [pc |-> "claimed", at |-> w.at, sha |-> sha', base |-> w.next, next |-> w.next]
    <2>. DEFINE a == [w EXCEPT !.pc = "claimed"]
                b == [a EXCEPT !.sha = sha']
    <2>1. a = [pc |-> "claimed", at |-> w.at, sha |-> w.sha, base |-> w.base, next |-> w.next]
      BY <1>1 DEF Run
    <2>2. v = [b EXCEPT !.base = w.next]
      OBVIOUS
    <2>. HIDE DEF a, v
    <2>3. b = [pc |-> "claimed", at |-> w.at, sha |-> sha', base |-> w.base, next |-> w.next]
      BY <2>1
    <2>. HIDE DEF b
    <2>. QED
      BY <2>2, <2>3
  <1>. HIDE DEF v
  <1>4. v \in Run
    BY <1>1, <1>2, <1>3, RunFields, RunMade
  <1>5. v.pc = "claimed" /\ v.at = w.at /\ v.sha = sha' /\ v.base = w.next /\ v.next = w.next
    BY <1>3
  <1>6. \A q \in Runtimes : run'[q] = IF q = r THEN v ELSE run[q]
    BY <1>0, InvFacts
  <1>7. w.base = file /\ file.state = "ARMED" /\ file.tick = Nobody /\ w.next.state = "ARMED"
        /\ w.next.receipts = file.receipts
    BY <1>0, <1>1 DEF RunOK, RunFit, RunKnown
  <1>8. RunKnown(v, now)
    BY <1>1, <1>5 DEF RunKnown
  <1>9. OneClaim'
    <2>1. \A q \in Runtimes : Claims(run[q]) => run[q].sha # sha'
      BY <1>2, CareFacts DEF Claims
    <2>. QED
      BY <1>5, <1>6, <2>1 DEF CareInv, OneClaim, Claims
  <1>10. Moves
    BY <1>0, <1>1, <1>7, CareFacts DEF Moves, FileKnown
  <1>11. Covered'
    <2>. SUFFICES ASSUME careful, NEW o \in ran
                  PROVE  o \in Ended(file.receipts) \/ Passed(o)'
      BY <1>0, <1>2, <1>7 DEF Covered
    <2>1. o \in Ended(file.receipts) \/ Passed(o)
      BY <1>7 DEF CareInv, Covered, WithRun, WithSession
    <2>2. \A q \in Runtimes : run[q] \notin {Blank, Over} => run[q].sha # sha'
      BY <1>2, CareFacts
    <2>3. Passed(o) => Gone(o, w.at)
      BY <1>0 DEF Passed, Current, w
    <2>4. Passed(o) => Passed(o)'
      BY <1>0, <1>5, <1>6, <2>2, <2>3 DEF Passed, Current
    <2>. QED
      BY <2>1, <2>4
  <1>12. again' = FALSE
    BY <1>0, CareFacts
  <1>. QED
    BY <1>0, <1>4, <1>5, <1>8, <1>9, <1>10, <1>11, <1>12, RunCares

LEMMA AbandonCares ==
    ASSUME WorkerInv, ArmInv, CareInv, NEW r \in Runtimes, Abandon(r)
    PROVE  CareInv'
  <1>1. /\ run' = [run EXCEPT ![r] = Over] /\ session' = session /\ Kept
        /\ now' = now /\ careful' = careful /\ ran' = ran /\ again' = again
    BY DEF Abandon, Stops, shared, history, Kept
  <1>2. Over \notin Run
    BY GlobalAssumption
  <1>3. \A q \in Runtimes : run'[q] = IF q = r THEN Over ELSE run[q]
    BY <1>1, InvFacts
  <1>4. OneClaim'
    BY <1>3 DEF CareInv, OneClaim, Claims
  <1>5. Covered'
    <2>1. \A o \in ran : /\ WithRun(o) => WithRun(o)'
                         /\ WithSession(o) => WithSession(o)'
                         /\ Passed(o) => Passed(o)'
      BY <1>1, <1>3 DEF WithRun, WithSession, Passed, Current, HasEdits, Kept
    <2>. QED
      BY <1>1, <2>1 DEF CareInv, Covered, Kept
  <1>6. Moves /\ again' = FALSE
    BY <1>1, CareFacts DEF Moves
  <1>. QED
    BY <1>1, <1>2, <1>4, <1>5, <1>6, RunCares

(* An accepted result takes the announcement away and brings the receipts. *)
LEMMA PutResultCares ==
    ASSUME WorkerInv, ArmInv, CareInv, NEW r \in Runtimes, PutResult(r)
    PROVE  CareInv'
  <1>. DEFINE w == run[r]
  <1>0. /\ w \notin {Blank, Over} /\ w.pc = "executed" /\ w.sha = sha /\ Written(w.next)
        /\ run' = [run EXCEPT ![r] = Over] /\ session' = session
        /\ now' = now /\ careful' = careful /\ ran' = ran /\ again' = again
    BY PutIsWritten DEF PutResult, At, Running, Accepted, Stops
  <1>1. /\ w \in Run /\ w.at \in Nat /\ w.next \in File /\ now \in Nat
        /\ RunOK(w, file, sha) /\ RunFit(w, sha, armings) /\ RunKnown(w, now)
    BY <1>0, CareFacts
  <1>2. sha \in Nat /\ sha' = sha + 1 /\ file' = w.next
    BY <1>0, CareFacts DEF Written
  <1>3. w.base = file /\ file.state = "ARMED" /\ w.next.tick = Nobody
    BY <1>0, <1>1 DEF RunOK, RunFit
  <1>4. \A q \in Runtimes : run'[q] = IF q = r THEN Over ELSE run[q]
    BY <1>0, InvFacts
  <1>5. OneClaim'
    BY <1>4 DEF CareInv, OneClaim, Claims
  <1>6. w.at <= now /\ FileKnown(w.next, now)
    BY <1>1, <1>3, KnownAndGone DEF RunKnown, FileKnown
  <1>7. Moves /\ again' = FALSE /\ Over \notin Run
    BY <1>0, <1>1, <1>6, CareFacts, GlobalAssumption DEF Moves
  <1>8. Covered'
    <2>. SUFFICES ASSUME careful, NEW o \in ran
                  PROVE  o \in Ended(w.next.receipts) \/ Passed(o)'
      BY <1>0, <1>2 DEF Covered
    <2>1. \A q \in Runtimes : run'[q] \notin {Blank, Over} => run'[q].sha # sha'
      BY <1>2, <1>4, CareFacts
    <2>2. Gone(o, now) => Passed(o)'
      BY <1>0, <2>1 DEF Passed, Current
    <2>3. o \in Ended(file.receipts) \/ WithRun(o) \/ Passed(o)
      BY <1>3 DEF CareInv, Covered, WithSession
    <2>4. CASE o \in Ended(file.receipts)
      <3>1. Lasts(file, w.next, w.at)
        BY <1>0, <1>3 DEF CareInv, Remembering
      <3>2. o \in Ended(w.next.receipts) \/ Gone(o, w.at)
        BY <2>4, <3>1 DEF Lasts
      <3>. QED
        BY <1>1, <1>6, <2>2, <3>2, KnownAndGone
    <2>5. CASE WithRun(o)
      BY <1>0, <2>5 DEF WithRun, Current
    <2>6. CASE Passed(o)
      BY <2>2, <2>6 DEF Passed
    <2>. QED
      BY <2>3, <2>4, <2>5, <2>6
  <1>. HIDE DEF w
  <1>. QED
    BY <1>0, <1>5, <1>7, <1>8, RunCares

(* While a claim is current nothing that ended can be due: its receipt     *)
(* would be in the file the batch is taken from.                           *)
LEMMA ExecuteRunCares ==
    ASSUME WorkerInv, ArmInv, CareInv, NEW r \in Runtimes, ExecuteRun(r)
    PROVE  CareInv'
  <1>. DEFINE w == run[r]
              b == w.base
              D == ToRun(b.receipts, w.at)
  <1>0. /\ w \notin {Blank, Over} /\ w.pc = "claimed" /\ w.sha = sha
        /\ session' = session /\ Kept /\ now' = now
    BY DEF ExecuteRun, At, Running, Accepted, shared, Kept
  <1>1. /\ w \in Run /\ w.at \in Nat /\ w.next \in File /\ b \in File /\ now \in Nat
        /\ RunOK(w, file, sha) /\ RunFit(w, sha, armings) /\ RunKnown(w, now)
        /\ b.receipts \in Seq(Receipt)
    BY <1>0, CareFacts, FileFields
  <1>2. b = file /\ file.state = "ARMED" /\ file.tick # Nobody
    BY <1>0, <1>1 DEF RunOK, ClaimOf
  <1>3. /\ D \in SUBSET Occurrence /\ IsFiniteSet(D) /\ D \in SUBSET Batch(w.at)
        /\ D \cap Ended(b.receipts) = {} /\ D \subseteq DueAt(w.at)
    BY <1>1, ToRunType, NotEndedYet
  <1>4. PICK outcome \in [D -> Outcomes] :
            LET rs == IF DOMAIN outcome = {} THEN b.receipts
                      ELSE AfterBatch(b.receipts, outcome, w.at)
            IN  /\ run' = [run EXCEPT ![r] = [w EXCEPT !.pc = "executed",
                                                       !.next = Released([b EXCEPT !.receipts = rs])]]
                /\ Ran(outcome, Remembers(rs, b.receipts, w.at))
    BY DEF ExecuteRun
  <1>. DEFINE rs == IF DOMAIN outcome = {} THEN b.receipts
                    ELSE AfterBatch(b.receipts, outcome, w.at)
              next == Released([b EXCEPT !.receipts = rs])
              v == [w EXCEPT !.pc = "executed", !.next = next]
              kept == Remembers(rs, b.receipts, w.at)
              ended == {o \in D : outcome[o] \in Terminal}
  <1>5. /\ run' = [run EXCEPT ![r] = v]
        /\ careful' = (careful /\ kept)
        /\ ran' = IF careful /\ kept THEN ran \cup ended ELSE ran
        /\ again' = (again \/ (careful /\ kept /\ ended \cap ran # {}))
    BY <1>4 DEF Ran
  <1>. HIDE DEF D, b
  <1>6. /\ rs \in Seq(Receipt) /\ ended \subseteq Ended(rs)
        /\ Ended(rs) \subseteq Ended(b.receipts) \cup D
    <2>1. CASE D = {}
      BY <1>1, <2>1
    <2>2. CASE D # {}
      <3>1. rs = AfterBatch(b.receipts, outcome, w.at)
        BY <2>2
      <3>. HIDE DEF rs, w
      <3>2. rs \in Seq(Receipt)
        BY <1>1, <1>3, <3>1, AfterBatchType
      <3>3. /\ \A o \in D : outcome[o] \in Terminal => o \in Ended(rs)
            /\ Ended(rs) \subseteq Ended(b.receipts) \cup D
        BY <1>1, <1>3, <3>1, BatchEnds
      <3>. QED
        BY <3>2, <3>3
    <2>. QED
      BY <2>1, <2>2
  <1>. HIDE DEF rs
  <1>7. next \in File /\ next.receipts = rs
    <2>. DEFINE g == [b EXCEPT !.receipts = rs]
    <2>0. b \in File
      BY <1>1
    <2>1. g \in File
          /\ g = [state |-> b.state, arm |-> b.arm, fence |-> b.fence, lease |-> b.lease,
                  tick |-> b.tick, receipts |-> rs, edits |-> b.edits]
      BY <1>6, <2>0, ReceiptsSet
    <2>. HIDE DEF g
    <2>2. Unclaimed(g) \in File
          /\ Unclaimed(g) = [state |-> g.state, arm |-> g.arm, fence |-> g.fence, lease |-> Nobody,
                             tick |-> Nobody, receipts |-> g.receipts, edits |-> g.edits]
      BY <2>1, UnclaimedType
    <2>3. next = Unclaimed(g)
      BY DEF Released, g
    <2>. HIDE DEF next
    <2>. QED
      BY <2>1, <2>2, <2>3
  <1>. HIDE DEF next, w
  <1>8. v = [pc |-> "executed", at |-> w.at, sha |-> w.sha, base |-> w.base, next |-> next]
    <2>. DEFINE a == [w EXCEPT !.pc = "executed"]
    <2>1. a = [pc |-> "executed", at |-> w.at, sha |-> w.sha, base |-> w.base, next |-> w.next]
      BY <1>1 DEF Run
    <2>2. v = [a EXCEPT !.next = next]
      OBVIOUS
    <2>. HIDE DEF a, v
    <2>. QED
      BY <2>1, <2>2
  <1>. HIDE DEF v
  <1>9. v \in Run
    BY <1>1, <1>7, <1>8, RunFields, RunMade DEF b
  <1>10. v.pc = "executed" /\ v.at = w.at /\ v.sha = sha /\ v.base = b /\ v.next = next
    BY <1>0, <1>8 DEF b
  <1>11. \A q \in Runtimes : run'[q] = IF q = r THEN v ELSE run[q]
    BY <1>5, InvFacts
  <1>12. \A o \in Ended(b.receipts) \cup Ended(rs) : Known(o, w.at)
    BY <1>1, <1>3, <1>6, KnownAndGone DEF RunKnown, b
  <1>13. RunKnown(v, now)
    BY <1>1, <1>7, <1>10, <1>12 DEF RunKnown
  <1>14. OneClaim'
    BY <1>0, <1>10, <1>11 DEF CareInv, OneClaim, Claims, w
  <1>15. careful' => careful /\ Lasts(v.base, v.next, v.at)
    BY <1>1, <1>5, <1>7, <1>10, <1>12, Remembered
  <1>16. ASSUME careful, NEW o \in ran
         PROVE  o \in Ended(b.receipts) \/ (Passed(o) /\ Gone(o, w.at))
    <2>1. o \in Ended(file.receipts) \/ WithRun(o) \/ Passed(o)
      BY <1>2, <1>16 DEF CareInv, Covered, WithSession
    <2>2. Current(run[r]) /\ run[r].pc # "executed"
      BY <1>0 DEF Current, w
    <2>3. ~WithRun(o)
      BY <2>2 DEF WithRun
    <2>4. Passed(o) => Gone(o, w.at)
      BY <2>2 DEF Passed, w
    <2>. QED
      BY <1>2, <2>1, <2>3, <2>4
  <1>17. careful => ended \cap ran = {}
    BY <1>1, <1>3, <1>16, KnownAndGone
  <1>18. again' = FALSE
    BY <1>5, <1>17, CareFacts
  <1>19. \A q \in Runtimes : q # r => ~Current(run[q]) \/ run[q].pc = "loaded"
    BY <1>0 DEF CareInv, OneClaim, Claims, Current, w
  <1>20. \A q \in Runtimes : q # r => ~Current(run[q])
    BY <1>2, <1>19, CareFacts DEF Current, RunOK
  <1>21. Covered'
    <2>. SUFFICES ASSUME careful', NEW o \in ran'
                  PROVE  o \in Ended(file.receipts) \/ WithRun(o)' \/ Passed(o)'
      BY <1>0 DEF Covered, Kept
    <2>1. CASE o \in ran
      <3>1. o \in Ended(file.receipts) \/ Passed(o)
        BY <1>2, <1>15, <1>16, <2>1
      <3>2. Passed(o) => Passed(o)'
        BY <1>0, <1>10, <1>11 DEF Passed, Current, Kept
      <3>. QED
        BY <3>1, <3>2
    <2>2. CASE o \in ended
      <3>1. o \in Ended(next.receipts)
        BY <1>6, <1>7, <2>2
      <3>2. \A q \in Runtimes : Current(run[q])' => q = r
        BY <1>0, <1>11, <1>20 DEF Current, Kept
      <3>. QED
        BY <1>0, <1>2, <1>10, <1>11, <3>1, <3>2 DEF WithRun, Kept
    <2>. QED
      BY <1>5, <2>1, <2>2
  <1>22. Moves
    BY <1>0 DEF Moves
  <1>. QED
    BY <1>0, <1>5, <1>9, <1>13, <1>14, <1>15, <1>18, <1>21, <1>22, RunCares
-----------------------------------------------------------------------------
(* The steps of a session that leave the file alone.                       *)
LEMMA WorkingIsKnown ==
    ASSUME WorkerInv, ArmInv, CareInv, NEW u \in Sessions, Between(u)
    PROVE  /\ Working(u) \in File /\ Source(u) \in File
           /\ FileKnown(Working(u), now) /\ FileKnown(Source(u), now)
           /\ careful => Lasts(Source(u), Working(u), now)
           /\ session[u] # Blank => session[u].work = Working(u)
  <1>1. Working(u) \in File /\ Source(u) \in File
    BY CopyOf
  <1>2. CASE session[u] = Blank
    <2>1. Working(u) = file /\ Source(u) = file
      BY <1>2 DEF Working, Source
    <2>. QED
      BY <1>1, <1>2, <2>1, CareFacts, LastsLonger
  <1>3. CASE session[u] # Blank
    <2>1. Working(u) = session[u].work /\ Source(u) = session[u].source
          /\ session[u].doing = "nothing"
      BY <1>3 DEF Working, Source, Between, Doing
    <2>. QED
      BY <1>1, <1>3, <2>1, CareFacts DEF CareInv, Remembering
  <1>. QED
    BY <1>2, <1>3

LEMMA StagesCares ==
    ASSUME WorkerInv, ArmInv, CareInv, NEW u \in Sessions, NEW f \in File, Stages(u, f),
           Kept, run' = run, now' = now, FileKnown(f, now),
           careful' => careful /\ Lasts(Source(u), f, now), again' = FALSE,
           (ran' = ran /\ f.receipts = Working(u).receipts) \/ Covered'
    PROVE  CareInv'
  <1>. DEFINE v == [work |-> f, source |-> Source(u), dirty |-> TRUE, doing |-> "nothing", seen |-> 0]
  <1>1. Between(u) /\ Becomes(u, v)
    BY DEF Stages
  <1>2. v \in Session /\ v # Blank
    BY CopyOf, SessionMade DEF Deeds
  <1>3. v.work = f /\ v.source = Source(u) /\ v.doing = "nothing" /\ v.dirty
    OBVIOUS
  <1>. HIDE DEF v
  <1>4. FileKnown(v.work, now) /\ FileKnown(v.source, now)
    BY <1>1, <1>3, WorkingIsKnown
  <1>5. Covered'
    <2>1. CASE Covered'
      BY <2>1
    <2>2. CASE ran' = ran /\ f.receipts = Working(u).receipts
      <3>1. \A o \in Ended(session[u].work.receipts) : HasEdits(session[u]) =>
                HasEdits(v) /\ o \in Ended(v.work.receipts)
        BY <1>1, <1>2, <1>3, <2>2, WorkingIsKnown DEF HasEdits
      <3>. QED
        BY <1>1, <1>2, <2>2, <3>1, EditsStayCovered
    <2>. QED
      BY <2>1, <2>2
  <1>6. Moves
    BY DEF Moves
  <1>. QED
    BY <1>1, <1>2, <1>3, <1>4, <1>5, <1>6, SessionCares

LEMMA StagingCares ==
    ASSUME WorkerInv, ArmInv, CareInv, NEW u \in Sessions,
           StageArm(u) \/ StagePause(u) \/ StageKill(u)
    PROVE  CareInv'
  <1>. DEFINE w == Working(u)
  <1>0. /\ Between(u) /\ Kept /\ run' = run /\ now' = now
        /\ careful' = careful /\ ran' = ran /\ again' = again
    BY DEF StageArm, StagePause, StageKill, Stages, shared, history, Kept
  <1>1. /\ w \in File /\ FileKnown(w, now) /\ (careful => Lasts(Source(u), w, now))
        /\ armings + 1 \in Nat /\ again' = FALSE
    BY <1>0, WorkingIsKnown, ArmFacts, CareFacts
  <1>2. PICK g \in File : Stages(u, Unclaimed(g)) /\ g.receipts = w.receipts
    <2>1. CASE StageArm(u)
      <3>1. Stages(u, Unclaimed([w EXCEPT !.state = "ARMED", !.arm = armings + 1]))
        BY <2>1 DEF StageArm
      <3>. HIDE DEF w
      <3>. DEFINE h == [w EXCEPT !.state = "ARMED", !.arm = armings + 1]
      <3>0. w \in File
        BY <1>1
      <3>2. h \in File
            /\ h = [state |-> "ARMED", arm |-> armings + 1, fence |-> w.fence, lease |-> w.lease,
                    tick |-> w.tick, receipts |-> w.receipts, edits |-> w.edits]
        BY <1>1, <3>0, ArmedSet
      <3>3. Stages(u, Unclaimed(h))
        BY <3>1
      <3>. HIDE DEF h
      <3>. QED
        BY <3>2, <3>3
    <2>2. CASE StagePause(u) \/ StageKill(u)
      <3>1. PICK state \in {"PAUSED", "KILLED"} : Stages(u, Unclaimed([w EXCEPT !.state = state]))
        BY <2>2 DEF StagePause, StageKill
      <3>. HIDE DEF w
      <3>. DEFINE h == [w EXCEPT !.state = state]
      <3>0. w \in File /\ state \in GlobalStates
        BY <1>1 DEF GlobalStates
      <3>2. h \in File
            /\ h = [state |-> state, arm |-> w.arm, fence |-> w.fence, lease |-> w.lease,
                    tick |-> w.tick, receipts |-> w.receipts, edits |-> w.edits]
        BY <3>0, StateSet
      <3>3. Stages(u, Unclaimed(h))
        BY <3>1
      <3>. HIDE DEF h
      <3>. QED
        BY <3>2, <3>3
    <2>. QED
      BY <2>1, <2>2
  <1>. DEFINE f == Unclaimed(g)
  <1>3. f \in File
        /\ f = [state |-> g.state, arm |-> g.arm, fence |-> g.fence, lease |-> Nobody,
                tick |-> Nobody, receipts |-> g.receipts, edits |-> g.edits]
    BY UnclaimedType
  <1>4. Stages(u, f)
    BY <1>2
  <1>. HIDE DEF f, w
  <1>5. f.tick = Nobody /\ f.receipts = w.receipts
    BY <1>2, <1>3
  <1>6. FileKnown(f, now)
    BY <1>1, <1>5 DEF FileKnown
  <1>7. careful' => careful /\ Lasts(Source(u), f, now)
    BY <1>0, <1>1, <1>5 DEF Lasts
  <1>8. f.receipts = Working(u).receipts
    BY <1>5 DEF w
  <1>. QED
    BY <1>0, <1>1, <1>3, <1>4, <1>6, <1>7, <1>8, StagesCares

(* A careful administrator runs what is due only when every receipt is in  *)
(* the file or in the same session.                                        *)
LEMMA HumanRunCares ==
    ASSUME WorkerInv, ArmInv, CareInv, NEW u \in Sessions, HumanRun(u)
    PROVE  CareInv'
  <1>. DEFINE w == Working(u)
              D == ToRun(w.receipts, now)
  <1>0. /\ Between(u) /\ Kept /\ run' = run /\ now' = now
    BY DEF HumanRun, Stages, shared, Kept
  <1>1. /\ w \in File /\ FileKnown(w, now) /\ (careful => Lasts(Source(u), w, now))
        /\ (session[u] # Blank => session[u].work = w)
        /\ w.receipts \in Seq(Receipt) /\ now \in Nat
    BY <1>0, WorkingIsKnown, FileFields, CareFacts
  <1>2. /\ D \in SUBSET Occurrence /\ IsFiniteSet(D) /\ D \in SUBSET Batch(now)
        /\ D \cap Ended(w.receipts) = {} /\ D \subseteq DueAt(now)
    BY <1>1, ToRunType, NotEndedYet
  <1>3. PICK outcome \in [D -> Outcomes] :
            LET rs == AfterBatch(w.receipts, outcome, now)
            IN  /\ Stages(u, [w EXCEPT !.receipts = rs])
                /\ Ran(outcome, /\ Source(u) = file /\ file.state # "ARMED"
                                /\ OthersClean(u)
                                /\ Remembers(rs, w.receipts, now))
    BY DEF HumanRun
  <1>. DEFINE rs == AfterBatch(w.receipts, outcome, now)
              kept == /\ Source(u) = file /\ file.state # "ARMED"
                      /\ OthersClean(u)
                      /\ Remembers(rs, w.receipts, now)
              ended == {o \in D : outcome[o] \in Terminal}
              f == [w EXCEPT !.receipts = rs]
  <1>4. /\ Stages(u, f)
        /\ careful' = (careful /\ kept)
        /\ ran' = IF careful /\ kept THEN ran \cup ended ELSE ran
        /\ again' = (again \/ (careful /\ kept /\ ended \cap ran # {}))
    BY <1>3 DEF Ran
  <1>. HIDE DEF D
  <1>5. /\ rs \in Seq(Receipt) /\ ended \subseteq Ended(rs)
        /\ Ended(rs) \subseteq Ended(w.receipts) \cup D
    <2>1. rs \in Seq(Receipt)
      BY <1>1, <1>2, AfterBatchType
    <2>2. /\ \A o \in D : outcome[o] \in Terminal => o \in Ended(rs)
          /\ Ended(rs) \subseteq Ended(w.receipts) \cup D
      BY <1>1, <1>2, BatchEnds
    <2>. QED
      BY <2>1, <2>2
  <1>. HIDE DEF rs, w
  <1>6. f \in File
        /\ f = [state |-> w.state, arm |-> w.arm, fence |-> w.fence, lease |-> w.lease,
                tick |-> w.tick, receipts |-> rs, edits |-> w.edits]
    BY <1>1, <1>5, ReceiptsSet
  <1>. HIDE DEF f
  <1>7. f.receipts = rs /\ f.tick = w.tick /\ f.state = w.state
    BY <1>6
  <1>8. FileKnown(f, now)
    BY <1>1, <1>2, <1>5, <1>7, KnownAndGone DEF FileKnown
  <1>9. kept => Lasts(w, f, now)
    BY <1>1, <1>7, Remembered DEF FileKnown
  <1>10. careful' => careful /\ Lasts(Source(u), f, now)
    <2>1. Lasts(Source(u), w, now) /\ Lasts(w, f, now) => Lasts(Source(u), f, now)
      BY DEF Lasts
    <2>2. careful' => careful /\ kept
      BY <1>4
    <2>. HIDE DEF kept
    <2>. QED
      BY <1>1, <1>9, <2>1, <2>2
  <1>11. kept => Source(u) = file /\ file.state # "ARMED" /\ OthersClean(u)
    OBVIOUS
  <1>. HIDE DEF kept
  <1>12. ASSUME careful, kept, NEW o \in ran
         PROVE  o \in Ended(w.receipts) \/ Gone(o, now)
    <2>1. file.tick = Nobody
      BY <1>11, <1>12, CareFacts DEF FileKnown
    <2>2. o \in Ended(file.receipts) \/ WithSession(o) \/ Passed(o)
      BY <1>12, <2>1 DEF CareInv, Covered, WithRun
    <2>3. CASE o \in Ended(file.receipts)
      BY <1>1, <1>11, <1>12, <2>3 DEF Lasts
    <2>4. CASE WithSession(o)
      <3>1. PICK x \in Sessions : HasEdits(session[x]) /\ o \in Ended(session[x].work.receipts)
        BY <2>4 DEF WithSession
      <3>2. x = u
        BY <1>11, <1>12, <3>1 DEF OthersClean, HasEdits
      <3>. QED
        BY <1>1, <3>1, <3>2 DEF HasEdits
    <2>5. CASE Passed(o)
      BY <2>5 DEF Passed
    <2>. QED
      BY <2>2, <2>3, <2>4, <2>5
  <1>13. careful /\ kept => ended \cap ran = {}
    BY <1>1, <1>2, <1>12, KnownAndGone
  <1>14. again' = FALSE
    BY <1>4, <1>13, CareFacts
  <1>15. Covered'
    <2>. SUFFICES ASSUME careful', NEW o \in ran'
                  PROVE  (o \in Ended(file.receipts) \/ WithRun(o) \/ WithSession(o) \/ Passed(o))'
      BY DEF Covered
    <2>1. careful /\ kept /\ (o \in ran \/ o \in ended)
      BY <1>4
    <2>2. file' = file /\ file.state # "ARMED" /\ file.tick = Nobody
      BY <1>0, <1>11, <2>1, CareFacts DEF Kept, FileKnown
    <2>3. ASSUME o \in Ended(rs)
          PROVE  WithSession(o)'
      <3>. DEFINE v == [work |-> f, source |-> Source(u), dirty |-> TRUE, doing |-> "nothing", seen |-> 0]
      <3>1. v # Blank /\ v.dirty /\ v.doing = "nothing" /\ v.work = f
        BY <1>6, CopyOf, SessionMade DEF Deeds
      <3>2. session' = [session EXCEPT ![u] = v]
        BY <1>4 DEF Stages, Becomes
      <3>. HIDE DEF v
      <3>3. session'[u] = v
        BY <3>2, InvFacts
      <3>. QED
        BY <1>7, <2>2, <2>3, <3>1, <3>3 DEF WithSession, HasEdits
    <2>4. CASE o \in ended
      BY <1>5, <2>3, <2>4
    <2>5. CASE o \in ran
      <3>1. \A r \in Runtimes : Current(run[r]) => run[r].pc = "executed"
        BY <2>2, CareFacts DEF Current, RunOK
      <3>2. Gone(o, now) => Passed(o)'
        BY <1>0, <3>1 DEF Passed, Current, Kept
      <3>3. o \in Ended(w.receipts) => o \in Ended(rs) \/ Gone(o, now)
        BY <1>7, <1>9, <2>1 DEF Lasts
      <3>. QED
        BY <1>12, <2>1, <2>3, <2>5, <3>2, <3>3
    <2>. QED
      BY <2>1, <2>4, <2>5
  <1>. QED
    BY <1>0, <1>4, <1>6, <1>8, <1>10, <1>14, <1>15, StagesCares

LEMMA BeginsCares ==
    ASSUME WorkerInv, ArmInv, CareInv, NEW u \in Sessions, NEW f \in File,
           NEW op \in {"save", "persist", "restore"}, Begins(u, op, f),
           FileKnown(f, now),
           IF op = "restore" THEN session[u] = Blank ELSE f.receipts = Working(u).receipts
    PROVE  CareInv'
  <1>. DEFINE v == [work |-> f, source |-> file, dirty |-> session[u] # Blank,
                    doing |-> op, seen |-> sha]
  <1>1. /\ Between(u) /\ Source(u) = file /\ Becomes(u, v) /\ Kept /\ run' = run
        /\ now' = now /\ careful' = careful /\ ran' = ran /\ again' = again
    BY DEF Begins, shared, history, Kept
  <1>2. v \in Session /\ v # Blank
    <2>1. op \in Deeds /\ (session[u] # Blank) \in BOOLEAN /\ file \in File /\ sha \in Nat
      BY ArmFacts DEF Deeds
    <2>. QED
      BY <2>1, SessionMade
  <1>3. /\ v.work = f /\ v.source = file /\ v.doing = op
        /\ v.dirty = (session[u] # Blank)
    OBVIOUS
  <1>. HIDE DEF v
  <1>4. FileKnown(v.work, now) /\ FileKnown(v.source, now) /\ again' = FALSE /\ Moves
    BY <1>1, <1>3, CareFacts DEF Moves
  <1>5. careful' /\ v.doing # "restore" => Lasts(v.source, v.work, now)
    BY <1>1, <1>3, WorkingIsKnown DEF Lasts
  <1>6. Covered'
    <2>1. \A o \in Ended(session[u].work.receipts) : HasEdits(session[u]) =>
              HasEdits(v) /\ o \in Ended(v.work.receipts)
      BY <1>1, <1>2, <1>3, WorkingIsKnown DEF HasEdits
    <2>. QED
      BY <1>1, <1>2, <2>1, EditsStayCovered
  <1>. QED
    BY <1>1, <1>2, <1>4, <1>5, <1>6, SessionCares

LEMMA BeginningCares ==
    ASSUME WorkerInv, ArmInv, CareInv, NEW u \in Sessions,
           BeginSave(u) \/ BeginArming(u) \/ BeginRestore(u)
    PROVE  CareInv'
  <1>. DEFINE w == Working(u)
  <1>0. sha \in Nat /\ w \in File /\ past \in SUBSET File /\ FileKnown(w, now)
    BY InvFacts, WorkingIsKnown DEF BeginSave, BeginArming, BeginRestore, Begins
  <1>1. CASE BeginSave(u)
    <2>1. PICK f \in Edited(w) : Begins(u, "save", f)
      BY <1>1 DEF BeginSave
    <2>. HIDE DEF w
    <2>2. /\ [w EXCEPT !.edits = sha] \in File
          /\ [w EXCEPT !.edits = sha]
               = [state |-> w.state, arm |-> w.arm, fence |-> w.fence, lease |-> w.lease,
                  tick |-> w.tick, receipts |-> w.receipts, edits |-> sha]
      BY <1>0, EditsSet
    <2>3. f \in {w, [w EXCEPT !.edits = sha]}
      BY <2>1 DEF Edited
    <2>4. f \in File /\ f.receipts = w.receipts /\ f.tick = w.tick /\ f.state = w.state
      BY <1>0, <2>2, <2>3
    <2>5. FileKnown(f, now)
      BY <1>0, <2>4 DEF FileKnown
    <2>. QED
      BY <2>1, <2>4, <2>5, BeginsCares DEF w
  <1>2. CASE BeginArming(u)
    BY <1>0, <1>2, BeginsCares DEF BeginArming
  <1>3. CASE BeginRestore(u)
    <2>1. PICK g \in past : Begins(u, "restore", [g EXCEPT !.edits = sha])
      BY <1>3 DEF BeginRestore
    <2>2. /\ [g EXCEPT !.edits = sha] \in File
          /\ [g EXCEPT !.edits = sha]
               = [state |-> g.state, arm |-> g.arm, fence |-> g.fence, lease |-> g.lease,
                  tick |-> g.tick, receipts |-> g.receipts, edits |-> sha]
      BY <1>0, EditsSet
    <2>. DEFINE f == [g EXCEPT !.edits = sha]
    <2>3. f \in File /\ f.receipts = g.receipts /\ f.tick = g.tick /\ f.state = g.state
      BY <2>2
    <2>4. Begins(u, "restore", f)
      BY <2>1
    <2>. HIDE DEF f
    <2>5. FileKnown(f, now)
      BY <2>3 DEF CareInv, CopiesKnown, FileKnown
    <2>6. session[u] = Blank
      BY <1>3 DEF BeginRestore
    <2>. QED
      BY <2>3, <2>4, <2>5, <2>6, BeginsCares
  <1>. QED
    BY <1>1, <1>2, <1>3

(* What a session keeps after a write, or a failed one, it had before.     *)
LEMMA KeepsKnown ==
    ASSUME WorkerInv, ArmInv, CareInv, NEW u \in Sessions, session[u] # Blank,
           NEW v \in Session \cup {Blank},
           (Rests(v) /\ RestsWith(v, session[u])) \/ Proves(v, session[u], sha')
    PROVE  /\ v \in Session => FileKnown(v.work, now) /\ FileKnown(v.source, now)
           /\ careful /\ v \in Session => Lasts(v.source, v.work, now)
  <1>1. v \in Session => /\ v.work = session[u].work /\ v.source = session[u].source
                         /\ session[u].dirty \/ session[u].doing = "persist"
    BY SessionFields DEF RestsWith, Proves
  <1>2. v \in Session => session[u].doing # "restore"
    BY <1>1, CareFacts DEF SessionFit
  <1>. QED
    BY <1>1, <1>2, CareFacts DEF CareInv, Remembering

LEMMA EndingCares ==
    ASSUME WorkerInv, ArmInv, CareInv, NEW u \in Sessions,
           WriteFails(u) \/ ConfirmArming(u) \/ DropEdits(u)
    PROVE  CareInv'
  <1>1. /\ Kept /\ run' = run /\ now' = now /\ ran' = ran /\ again' = again
        /\ session[u] # Blank
    BY DEF WriteFails, ConfirmArming, DropEdits, shared, history, Kept, Between, Doing
  <1>2. careful' => careful
    BY DEF WriteFails, ConfirmArming, DropEdits, history
  <1>3. PICK v \in Session \cup {Blank} :
            /\ Rests(v) /\ RestsWith(v, session[u]) /\ Becomes(u, v)
            /\ careful' => \A o \in Ended(session[u].work.receipts) : HasEdits(session[u]) =>
                   (HasEdits(v) /\ o \in Ended(v.work.receipts)) \/ o \in Ended(file.receipts)
    <2>1. CASE WriteFails(u)
      <3>1. PICK v \in Session \cup {Blank} :
                /\ Rests(v) /\ Becomes(u, v)
                /\ v # Blank => /\ v.work = session[u].work /\ v.source = session[u].source
                                /\ session[u].dirty /\ v.dirty
                /\ session[u].dirty => v # Blank
        BY <1>1, <2>1, UnansweredRests DEF WriteFails
      <3>2. RestsWith(v, session[u])
        BY <3>1 DEF RestsWith
      <3>3. HasEdits(session[u]) => HasEdits(v) /\ v.work = session[u].work
        BY <3>1 DEF HasEdits, Rests
      <3>. QED
        BY <3>1, <3>2, <3>3
    <2>2. CASE ConfirmArming(u)
      BY <2>2 DEF ConfirmArming, Doing, Rests, RestsWith, HasEdits
    <2>3. CASE DropEdits(u)
      <3>1. careful' => Ended(session[u].work.receipts) \subseteq Ended(file.receipts)
        BY <2>3 DEF DropEdits
      <3>. QED
        BY <2>3, <3>1 DEF DropEdits, Rests, RestsWith
    <2>. QED
      BY <2>1, <2>2, <2>3
  <1>4. Covered'
    BY <1>1, <1>2, <1>3, EditsStayCovered
  <1>5. Moves /\ again' = FALSE
    BY <1>1, CareFacts DEF Moves
  <1>. QED
    BY <1>1, <1>2, <1>3, <1>4, <1>5, KeepsKnown, SessionCares

-----------------------------------------------------------------------------
(* The writes of a session.                                                *)
LEMMA SessionWriteCares ==
    ASSUME WorkerInv, ArmInv, CareInv, NEW u \in Sessions, NEW v \in Session \cup {Blank},
           NEW f \in File, session[u] # Blank, Written(f), FileKnown(f, now),
           Becomes(u, v), run' = run, now' = now, ran' = ran, again' = again,
           (Rests(v) /\ RestsWith(v, session[u])) \/ Proves(v, session[u], sha'),
           careful' => /\ careful /\ Lasts(file, f, now)
                       /\ file.tick # Nobody => f.tick # Nobody,
           careful' /\ file.state # "ARMED" =>
               \A w \in Sessions : HasEdits(session[w]) =>
                   \/ w # u /\ f.state # "ARMED"
                   \/ Ended(session[w].work.receipts) \subseteq Ended(f.receipts)
    PROVE  CareInv'
  <1>1. Covered'
    BY WritesStayCovered
  <1>2. Moves /\ again' = FALSE
    BY CareFacts DEF Moves
  <1>. QED
    BY <1>1, <1>2, KeepsKnown, SessionCares

LEMMA SaveSessionCares ==
    ASSUME WorkerInv, ArmInv, CareInv, NEW u \in Sessions, SaveSession(u)
    PROVE  CareInv'
  <1>. DEFINE s == session[u]
              f == s.work
  <1>0. /\ Doing(u, "save") /\ MaySave(f) /\ Overwrites(u, f)
        /\ Becomes(u, Blank) \/ Unanswered(u)
        /\ run' = run /\ now' = now /\ ran' = ran /\ again' = again
    BY DEF SaveSession
  <1>1. f \in File /\ FileKnown(f, now)
    BY <1>0, CareFacts DEF Doing
  <1>2. "save" \in Deeds \ {"nothing"}
    BY DEF Deeds
  <1>3. s # Blank /\ s.doing = "save" /\ s.source = file /\ Written(f)
    BY <1>0, <1>1, <1>2, AcceptedFacts DEF HeldCopy
  <1>4. careful' => careful /\ ~Removes(f)
    BY DEF SaveSession
  <1>5. careful' => careful /\ Lasts(file, f, now) /\ (file.tick # Nobody => f.tick # Nobody)
    BY <1>3, <1>4 DEF CareInv, Remembering, Removes
  <1>6. file.state # "ARMED" => f.state # "ARMED"
    BY <1>0 DEF MaySave, SameArming
  <1>7. \E v \in Session \cup {Blank} : Rests(v) /\ RestsWith(v, s) /\ Becomes(u, v)
    BY <1>0, <1>3, UnansweredRests DEF Rests, RestsWith
  <1>8. file.state # "ARMED" =>
            \A w \in Sessions : HasEdits(session[w]) =>
                \/ w # u /\ f.state # "ARMED"
                \/ Ended(session[w].work.receipts) \subseteq Ended(f.receipts)
    BY <1>6
  <1>. HIDE DEF f
  <1>. QED
    BY <1>0, <1>1, <1>3, <1>5, <1>7, <1>8, SessionWriteCares

LEMMA PersistCares ==
    ASSUME WorkerInv, ArmInv, CareInv, NEW u \in Sessions, PersistArming(u)
    PROVE  CareInv'
  <1>. DEFINE s == session[u]
              f == s.work
              p == [s EXCEPT !.doing = "arming", !.seen = sha']
  <1>0. /\ Doing(u, "persist") /\ Overwrites(u, f) /\ (Becomes(u, p) \/ Unanswered(u))
        /\ run' = run /\ now' = now /\ ran' = ran /\ again' = again
    BY DEF PersistArming
  <1>1. f \in File /\ FileKnown(f, now)
    BY <1>0, CareFacts DEF Doing
  <1>2. "persist" \in Deeds \ {"nothing"}
    BY DEF Deeds
  <1>3. /\ s # Blank /\ s.doing = "persist" /\ s.source = file /\ Written(f)
        /\ s \in Session /\ sha \in Nat
    BY <1>0, <1>1, <1>2, AcceptedFacts DEF HeldCopy
  <1>4. careful' => careful /\ ~Removes(f) /\ OthersClean(u)
    BY DEF PersistArming
  <1>5. careful' => careful /\ Lasts(file, f, now) /\ (file.tick # Nobody => f.tick # Nobody)
    BY <1>3, <1>4 DEF CareInv, Remembering, Removes
  <1>6. careful' => \A w \in Sessions : HasEdits(session[w]) => w = u
    BY <1>4 DEF OthersClean, HasEdits
  <1>7. PICK v \in Session \cup {Blank} :
            /\ Becomes(u, v)
            /\ (Rests(v) /\ RestsWith(v, s)) \/ Proves(v, s, sha')
    BY <1>0, <1>3, PersistLeaves DEF Written
  <1>8. careful' /\ file.state # "ARMED" =>
            \A w \in Sessions : HasEdits(session[w]) =>
                \/ w # u /\ f.state # "ARMED"
                \/ Ended(session[w].work.receipts) \subseteq Ended(f.receipts)
    BY <1>6
  <1>. HIDE DEF f
  <1>. QED
    BY <1>0, <1>1, <1>3, <1>5, <1>7, <1>8, SessionWriteCares

LEMMA RollBackCares ==
    ASSUME WorkerInv, ArmInv, CareInv, NEW u \in Sessions, RollBackArming(u)
    PROVE  CareInv'
  <1>. DEFINE s == session[u]
              f == s.source
  <1>0. /\ Doing(u, "arming") /\ Overwrites(u, f) /\ (Becomes(u, Blank) \/ Unanswered(u))
        /\ run' = run /\ now' = now /\ ran' = ran /\ again' = again
    BY DEF RollBackArming
  <1>1. f \in File /\ FileKnown(f, now)
    BY <1>0, CareFacts DEF Doing
  <1>2. "arming" \in Deeds \ {"nothing"}
    BY DEF Deeds
  <1>3. /\ s # Blank /\ s.doing = "arming" /\ s.work = file /\ Written(f)
        /\ SessionFit(s, sha, armings)
    BY <1>0, <1>1, <1>2, AcceptedFacts DEF HeldCopy
  <1>4. careful' => careful /\ Ended(file.receipts) \subseteq Ended(f.receipts)
    BY <1>3 DEF RollBackArming
  <1>5. file.state = "ARMED" /\ file.tick = Nobody
    BY <1>3 DEF SessionFit, StagedFrom
  <1>6. careful' => careful /\ Lasts(file, f, now) /\ (file.tick # Nobody => f.tick # Nobody)
    BY <1>4, <1>5 DEF Lasts
  <1>7. \E v \in Session \cup {Blank} : Rests(v) /\ RestsWith(v, s) /\ Becomes(u, v)
    BY <1>0, <1>3, UnansweredRests DEF Rests, RestsWith
  <1>. HIDE DEF f
  <1>. QED
    BY <1>0, <1>1, <1>3, <1>5, <1>6, <1>7, SessionWriteCares

LEMMA RestoreCares ==
    ASSUME WorkerInv, ArmInv, CareInv, NEW u \in Sessions, RestoreRevision(u)
    PROVE  CareInv'
  <1>. DEFINE s == session[u]
              f == s.work
  <1>0. /\ Doing(u, "restore") /\ MaySave(f) /\ Overwrites(u, f) /\ Unanswered(u)
        /\ run' = run /\ now' = now /\ ran' = ran /\ again' = again
    BY DEF RestoreRevision
  <1>1. f \in File /\ FileKnown(f, now)
    BY <1>0, CareFacts DEF Doing
  <1>2. "restore" \in Deeds \ {"nothing"}
    BY DEF Deeds
  <1>3. s # Blank /\ s.doing = "restore" /\ Written(f) /\ SessionFit(s, sha, armings)
    BY <1>0, <1>1, <1>2, AcceptedFacts
  <1>4. careful' => /\ careful /\ ~Removes(f)
                    /\ Ended(file.receipts) \subseteq Ended(f.receipts)
    BY DEF RestoreRevision
  <1>5. careful' => careful /\ Lasts(file, f, now) /\ (file.tick # Nobody => f.tick # Nobody)
    BY <1>4 DEF Lasts, Removes
  <1>6. file.state # "ARMED" => f.state # "ARMED"
    BY <1>0 DEF MaySave, SameArming
  <1>7. \E v \in Session \cup {Blank} : Rests(v) /\ RestsWith(v, s) /\ Becomes(u, v)
    BY <1>0, <1>3, UnansweredRests DEF RestsWith
  <1>8. ~HasEdits(s)
    BY <1>3 DEF SessionFit, HasEdits
  <1>9. file.state # "ARMED" =>
            \A w \in Sessions : HasEdits(session[w]) =>
                \/ w # u /\ f.state # "ARMED"
                \/ Ended(session[w].work.receipts) \subseteq Ended(f.receipts)
    BY <1>6, <1>8
  <1>. HIDE DEF f
  <1>. QED
    BY <1>0, <1>1, <1>3, <1>5, <1>7, <1>9, SessionWriteCares

-----------------------------------------------------------------------------
LEMMA PassCares ==
    ASSUME WorkerInv, ArmInv, CareInv, Pass
    PROVE  CareInv'
  <1>1. /\ \A u \in Sessions : session'[u] = Blank
        /\ file' = file /\ sha' = sha /\ past' = past /\ run' = run
        /\ careful' = careful /\ ran' = ran /\ again' = again
        /\ now' = now + 1 /\ now \in Nat /\ now' \in Nat /\ now <= now'
    BY CareFacts DEF Pass, shared, history
  <1>2. \A r \in Runtimes : run[r] \notin {Blank, Over} => RunKnown(run[r], now')
    BY <1>1, CareFacts DEF RunKnown
  <1>3. \A f \in past \cup {file} : FileKnown(f, now')
    BY <1>1, FileKnownLonger DEF CareInv, CopiesKnown
  <1>4. CopiesKnown' /\ OneClaim' /\ Remembering'
    BY <1>1, <1>2, <1>3 DEF CareInv, CopiesKnown, OneClaim, Claims, Remembering
  <1>5. Covered'
    <2>. SUFFICES ASSUME careful, NEW o \in ran
                  PROVE  o \in Ended(file.receipts) \/ WithRun(o) \/ Passed(o)'
      BY <1>1 DEF Covered, WithRun, Current
    <2>1. o \in Ended(file.receipts) \/ WithRun(o) \/ Passed(o)
      BY DEF CareInv, Covered, WithSession, HasEdits, Pass
    <2>2. Gone(o, now) => Gone(o, now')
      BY <1>1, KnownAndGone
    <2>. QED
      BY <1>1, <2>1, <2>2 DEF Passed, Current
  <1>. QED
    BY <1>1, <1>4, <1>5 DEF CareInv, CarefulWorkEndsOnce

LEMMA CareStep ==
    ASSUME WorkerInv, ArmInv, CareInv, [GlobalNext]_gvars
    PROVE  CareInv'
  <1>1. ASSUME NEW r \in Runtimes, RunStep(r)
        PROVE  CareInv'
    BY <1>1, LoadRunCares, PutClaimCares, ExecuteRunCares, PutResultCares, AbandonCares DEF RunStep
  <1>2. ASSUME NEW u \in Sessions, SessionStep(u)
        PROVE  CareInv'
    BY <1>2, StagingCares, HumanRunCares, BeginningCares, EndingCares, SaveSessionCares,
       PersistCares, RollBackCares, RestoreCares DEF SessionStep
  <1>3. CASE UNCHANGED gvars
    <2>1. /\ file' = file /\ sha' = sha /\ past' = past /\ run' = run /\ session' = session
          /\ careful' = careful /\ ran' = ran /\ again' = again /\ now' = now
      BY <1>3 DEF gvars, shared, history
    <2>2. CopiesKnown' /\ OneClaim' /\ Remembering'
      BY <2>1 DEF CareInv, CopiesKnown, OneClaim, Claims, Remembering
    <2>3. Covered'
      BY <2>1 DEF CareInv, Covered, WithRun, WithSession, Passed, Current, HasEdits
    <2>. QED
      BY <2>1, <2>2, <2>3 DEF CareInv, CarefulWorkEndsOnce
  <1>. QED
    BY <1>1, <1>2, <1>3, PassCares DEF GlobalNext

LEMMA CareStarts ==
    ASSUME GlobalInit
    PROVE  CareInv
  <1>1. /\ \A u \in Sessions : session[u] = Blank
        /\ \A r \in Runtimes : run[r] = Blank
        /\ file.tick = Nobody /\ file.receipts = <<>> /\ past = {} /\ ran = {} /\ again = FALSE
    BY DEF GlobalInit, InitialFile
  <1>2. FileKnown(file, now)
    BY <1>1 DEF FileKnown, Ended
  <1>. QED
    BY <1>1, <1>2 DEF CareInv, CopiesKnown, OneClaim, Claims, Remembering, Covered,
       CarefulWorkEndsOnce

(* As long as everybody keeps the discipline, no occurrence ends twice.    *)
THEOREM CarefulWorkIsDoneOnce == GlobalSpec => []CarefulWorkEndsOnce
  <1>1. GlobalInit => CareInv
    BY CareStarts
  <1>2. WorkerInv /\ ArmInv /\ CareInv /\ [GlobalNext]_gvars => CareInv'
    BY CareStep
  <1>3. CareInv => CarefulWorkEndsOnce
    BY DEF CareInv
  <1>. QED
    BY <1>1, <1>2, <1>3, WorkerInvHolds, ArmInvHolds, PTL DEF GlobalSpec

-----------------------------------------------------------------------------
(* A legal receipt list: it is within its limit, no occurrence has more    *)
(* receipts than attempts, and after a terminal receipt of an occurrence   *)
(* there is no other one of it.                                            *)
Legal(rs) ==
    /\ Len(rs) <= MaxReceipts
    /\ \A o \in Occurrence : Failures(rs, o) <= MaxAttempts
    /\ \A i, j \in 1..Len(rs) :
           i < j /\ rs[i].of = rs[j].of => rs[i].state \notin Terminal

(* The file and every revision of it have legal lists.                     *)
ReceiptsAreLegal == \A f \in past \cup {file} : Legal(f.receipts)

(* What the cut leaves is a part of the list in its order.                 *)
LEMMA NewestIsSuffix ==
    ASSUME NEW rs \in Seq(Receipt)
    PROVE  \E m \in Nat :
               /\ Len(Newest(rs)) <= MaxReceipts /\ Len(Newest(rs)) \in Nat
               /\ \A k \in 1..Len(Newest(rs)) : m + k \in 1..Len(rs) /\ Newest(rs)[k] = rs[m + k]
  <1>. DEFINE n == Len(rs)
  <1>1. n \in Nat /\ MaxReceipts \in Nat
    BY ExecutorAssumption
  <1>2. CASE n > MaxReceipts
    <2>. DEFINE m == n - MaxReceipts
    <2>1. m \in Nat /\ m + 1 \in 1..(n + 1) /\ m + 1 \in Nat
      BY <1>1, <1>2
    <2>2. Newest(rs) = SubSeq(rs, m + 1, n)
      BY <1>2 DEF Newest
    <2>3. /\ Len(SubSeq(rs, m + 1, n)) = MaxReceipts
          /\ \A k \in 1..MaxReceipts : SubSeq(rs, m + 1, n)[k] = rs[m + k]
      BY <1>1, <1>2, <2>1
    <2>4. \A k \in 1..MaxReceipts : m + k \in 1..n
      BY <1>1, <1>2
    <2>5. /\ Len(Newest(rs)) = MaxReceipts
          /\ \A k \in 1..MaxReceipts : m + k \in 1..n /\ Newest(rs)[k] = rs[m + k]
      BY <2>2, <2>3, <2>4
    <2>6. m \in Nat
      BY <2>1
    <2>. HIDE DEF m
    <2>. WITNESS m \in Nat
    <2>. QED
      BY <1>1, <2>5
  <1>3. CASE ~(n > MaxReceipts)
    <2>1. Newest(rs) = rs
      BY <1>3 DEF Newest
    <2>2. 0 \in Nat /\ \A k \in 1..n : 0 + k = k
      BY <1>1
    <2>. QED
      BY <1>1, <1>3, <2>1, <2>2
  <1>. QED
    BY <1>2, <1>3

(* A batch only writes about occurrences that may still run.               *)
LEMMA BatchIsLegal ==
    ASSUME NEW rs \in Seq(Receipt), NEW t \in Nat, Legal(rs),
           NEW outcome \in [ToRun(rs, t) -> Outcomes]
    PROVE  Legal(AfterBatch(rs, outcome, t))
  <1>. DEFINE D == ToRun(rs, t)
  <1>1. /\ D \in SUBSET Batch(t)
        /\ \A o \in D : ~Settled(rs, o) /\ Failures(rs, o) < MaxAttempts
    BY DEF ToRun, Runnable
  <1>. DEFINE n == Cardinality(D)
  <1>0. PICK all, q : Appends(rs, D, outcome, all, q) /\ AfterBatch(rs, outcome, t) = Newest(all)
    BY <1>1, BatchWrites
  <1>2. /\ n \in Nat /\ n <= MaxJobs /\ q \in [1..n -> D]
        /\ \A i, j \in 1..n : i # j => q[i] # q[j]
        /\ \A o \in D : \E i \in 1..n : q[i] = o
        /\ all \in Seq(Receipt) /\ Len(all) = Len(rs) + n /\ Len(rs) \in Nat
        /\ \A i \in 1..Len(rs) : all[i] = rs[i]
        /\ \A i \in 1..n : /\ all[Len(rs) + i].of = q[i]
                           /\ all[Len(rs) + i].state = outcome[q[i]]
        /\ \A j \in 1..Len(all) : j \in 1..Len(rs) \/ \E i \in 1..n : j = Len(rs) + i
    BY <1>0 DEF Appends
  <1>. HIDE DEF n, D
  <1>. DEFINE About(s, o) == {i \in 1..Len(s) : s[i].of = o}
  <1>3. \A s \in Seq(Receipt) : \A o : /\ Failures(s, o) = Cardinality(About(s, o))
                                       /\ IsFiniteSet(About(s, o)) /\ Failures(s, o) \in Nat
    <2>. SUFFICES ASSUME NEW s \in Seq(Receipt), NEW o
                  PROVE  /\ Failures(s, o) = Cardinality(About(s, o))
                         /\ IsFiniteSet(About(s, o)) /\ Failures(s, o) \in Nat
      OBVIOUS
    <2>1. DOMAIN s = 1..Len(s) /\ Len(s) \in Nat
      OBVIOUS
    <2>2. IsFiniteSet(1..Len(s))
      BY <2>1, FS_Interval
    <2>3. IsFiniteSet(About(s, o))
      BY <2>2, FS_Subset
    <2>. QED
      BY <2>1, <2>3, FS_CardinalityType DEF Failures
  <1>4. ASSUME NEW o \in Occurrence
        PROVE  Failures(all, o) <= MaxAttempts
    <2>1. CASE o \notin D
      <3>1. \A j \in About(all, o) : j \in About(rs, o)
        <4>. SUFFICES ASSUME NEW j \in About(all, o)
                      PROVE  j \in About(rs, o)
          OBVIOUS
        <4>1. j \in 1..Len(rs)
          <5>. SUFFICES ASSUME j \notin 1..Len(rs)
                        PROVE  FALSE
            OBVIOUS
          <5>1. PICK i \in 1..n : j = Len(rs) + i
            BY <1>2
          <5>2. all[j].of = q[i] /\ q[i] \in D
            BY <1>2, <5>1
          <5>. QED
            BY <2>1, <5>2
        <4>. QED
          BY <1>2, <4>1
      <3>2. \A j \in About(rs, o) : j \in About(all, o)
        BY <1>2
      <3>3. About(all, o) = About(rs, o)
        BY <3>1, <3>2
      <3>. HIDE DEF About
      <3>. QED
        BY <1>2, <1>3, <3>3 DEF Legal
    <2>2. CASE o \in D
      <3>1. PICK k \in 1..n : q[k] = o
        BY <1>2, <2>2
      <3>2. About(all, o) = About(rs, o) \cup {Len(rs) + k}
        <4>1. ASSUME NEW j \in About(all, o), j \notin 1..Len(rs)
              PROVE  j = Len(rs) + k
          <5>1. PICK i \in 1..n : j = Len(rs) + i
            BY <1>2, <4>1
          <5>2. q[i] = o
            BY <1>2, <4>1, <5>1
          <5>3. i = k
            BY <1>2, <3>1, <5>2
          <5>. QED
            BY <5>1, <5>3
        <4>2. \A j \in About(all, o) : j \in 1..Len(rs) => j \in About(rs, o)
          BY <1>2
        <4>3. Len(rs) + k \in 1..Len(all) /\ all[Len(rs) + k].of = o
          BY <1>2, <3>1
        <4>4. \A j \in About(rs, o) : j \in 1..Len(all) /\ all[j].of = o
          BY <1>2
        <4>. QED
          BY <4>1, <4>2, <4>3, <4>4
      <3>3. Len(rs) + k \notin About(rs, o)
        BY <1>2
      <3>. HIDE DEF About
      <3>4. Failures(all, o) = Failures(rs, o) + 1
        BY <1>2, <1>3, <3>2, <3>3, FS_AddElement
      <3>. QED
        BY <1>1, <1>3, <2>2, <3>4, ExecutorAssumption
    <2>. QED
      BY <2>1, <2>2
  <1>5. ASSUME NEW i \in 1..Len(all), NEW j \in 1..Len(all), i < j, all[i].of = all[j].of
        PROVE  all[i].state \notin Terminal
    <2>1. CASE j \in 1..Len(rs)
      <3>1. i \in 1..Len(rs)
        BY <1>2, <1>5, <2>1
      <3>. QED
        BY <1>2, <1>5, <2>1, <3>1 DEF Legal
    <2>2. CASE j \notin 1..Len(rs)
      <3>1. PICK k \in 1..n : j = Len(rs) + k
        BY <1>2, <2>2
      <3>2. q[k] \in D /\ all[j].of = q[k]
        BY <1>2, <3>1
      <3>3. CASE i \in 1..Len(rs)
        <4>1. DOMAIN rs = 1..Len(rs)
          OBVIOUS
        <4>2. rs[i].of = q[k] /\ ~Settled(rs, q[k])
          BY <1>1, <1>2, <1>5, <3>2, <3>3
        <4>. QED
          BY <1>2, <3>3, <4>1, <4>2 DEF Settled
      <3>4. CASE i \notin 1..Len(rs)
        <4>1. PICK l \in 1..n : i = Len(rs) + l
          BY <1>2, <3>4
        <4>2. l # k
          BY <1>2, <1>5, <3>1, <4>1
        <4>3. all[i].of = q[l] /\ q[l] # q[k]
          BY <1>2, <4>1, <4>2
        <4>. QED
          BY <1>5, <3>2, <4>3
      <3>. QED
        BY <3>3, <3>4
    <2>. QED
      BY <2>1, <2>2
  <1>. DEFINE kept == Newest(all)
  <1>6. kept \in Seq(Receipt)
    BY <1>2, NewestType
  <1>7. PICK m \in Nat :
            /\ Len(kept) <= MaxReceipts /\ Len(kept) \in Nat
            /\ \A k \in 1..Len(kept) : m + k \in 1..Len(all) /\ kept[k] = all[m + k]
    BY <1>2, NewestIsSuffix
  <1>. HIDE DEF kept
  <1>8. ASSUME NEW o \in Occurrence
        PROVE  Failures(kept, o) <= MaxAttempts
    <2>. DEFINE g == [k \in About(kept, o) |-> m + k]
    <2>1. g \in [About(kept, o) -> About(all, o)]
      BY <1>7
    <2>2. \A k, l \in About(kept, o) : g[k] = g[l] => k = l
      BY <1>7
    <2>. HIDE DEF g, About
    <2>3. g \in Injection(About(kept, o), About(all, o))
      BY <2>1, <2>2 DEF Injection, IsInjective
    <2>4. Failures(kept, o) <= Failures(all, o)
      BY <1>2, <1>3, <1>6, <2>3, FS_Injection
    <2>. QED
      BY <1>2, <1>3, <1>4, <1>6, <2>4, ExecutorAssumption
  <1>9. ASSUME NEW i \in 1..Len(kept), NEW j \in 1..Len(kept), i < j, kept[i].of = kept[j].of
        PROVE  kept[i].state \notin Terminal
    <2>1. m + i \in 1..Len(all) /\ m + j \in 1..Len(all) /\ m + i < m + j
      BY <1>7, <1>9
    <2>. QED
      BY <1>5, <1>7, <1>9, <2>1
  <1>. QED
    BY <1>0, <1>7, <1>8, <1>9 DEF Legal, kept

-----------------------------------------------------------------------------
(* Every copy anybody holds has a legal list.                              *)
LegalInv ==
    /\ ReceiptsAreLegal
    /\ \A r \in Runtimes : run[r] \notin {Blank, Over} =>
           Legal(run[r].base.receipts) /\ Legal(run[r].next.receipts)
    /\ \A u \in Sessions : session[u] # Blank =>
           Legal(session[u].work.receipts) /\ Legal(session[u].source.receipts)

LegalFile == Kept \/ \E f \in File : Legal(f.receipts) /\ Written(f)

LEMMA FilesAreLegal ==
    ASSUME LegalInv, LegalFile
    PROVE  ReceiptsAreLegal'
  BY DEF LegalInv, LegalFile, ReceiptsAreLegal, Kept, Written

LEMMA RunIsLegal ==
    ASSUME WorkerInv, LegalInv, NEW r \in Runtimes, NEW v,
           run' = [run EXCEPT ![r] = v], session' = session, LegalFile,
           v = Over \/ (Legal(v.base.receipts) /\ Legal(v.next.receipts))
    PROVE  LegalInv'
  <1>1. ReceiptsAreLegal'
    BY FilesAreLegal
  <1>2. \A q \in Runtimes : run'[q] = IF q = r THEN v ELSE run[q]
    BY InvFacts
  <1>. HIDE DEF Legal
  <1>. QED
    BY <1>1, <1>2 DEF LegalInv

LEMMA SessionIsLegal ==
    ASSUME WorkerInv, LegalInv, NEW u \in Sessions, NEW v,
           Becomes(u, v), run' = run, LegalFile,
           v = Blank \/ (Legal(v.work.receipts) /\ Legal(v.source.receipts))
    PROVE  LegalInv'
  <1>1. ReceiptsAreLegal'
    BY FilesAreLegal
  <1>2. \A w \in Sessions : session'[w] = IF w = u THEN v ELSE session[w]
    BY InvFacts DEF Becomes
  <1>. HIDE DEF Legal
  <1>. QED
    BY <1>1, <1>2 DEF LegalInv

(* The steps of a run: its batch is the only one that changes a list.      *)
LEMMA RunStepIsLegal ==
    ASSUME WorkerInv, LegalInv, NEW r \in Runtimes, RunStep(r)
    PROVE  LegalInv'
  <1>. DEFINE w == run[r]
  <1>0. file \in File /\ sha \in Nat /\ now \in Nat /\ Legal(file.receipts)
    BY InvFacts DEF RestOK, LegalInv, ReceiptsAreLegal
  <1>1. Running(r) => /\ w \in Run /\ w.base \in File /\ w.next \in File /\ w.at \in Nat
                      /\ Legal(w.base.receipts) /\ Legal(w.next.receipts)
    BY RunAt, RunFields DEF Running, LegalInv
  <1>2. CASE LoadRun(r)
    <2>. DEFINE c == Claimed(file, r, now, sha + 1)
                v == [pc |-> "loaded", at |-> now, sha |-> sha, base |-> file, next |-> c]
    <2>1. run' = [run EXCEPT ![r] = v] /\ session' = session /\ Kept /\ file.state = "ARMED"
      BY <1>2 DEF LoadRun, shared, Kept, MayRun
    <2>2. c.receipts = file.receipts
      <3>1. ClaimFrom(file, c)
        BY <1>0, <2>1, ClaimedType
      <3>. QED
        BY <3>1 DEF ClaimFrom
    <2>3. Legal(v.base.receipts) /\ Legal(v.next.receipts)
      BY <1>0, <2>2
    <2>. HIDE DEF v, c
    <2>. QED
      BY <2>1, <2>3, RunIsLegal DEF LegalFile
  <1>3. CASE PutClaim(r)
    <2>. DEFINE v == [w EXCEPT !.pc = "claimed", !.sha = sha', !.base = w.next]
    <2>1. Running(r) /\ run' = [run EXCEPT ![r] = v] /\ session' = session /\ Written(w.next)
      BY <1>3, PutIsWritten DEF PutClaim, At
    <2>2. v.base = w.next /\ v.next = w.next
      BY <1>1, <2>1 DEF Run
    <2>. HIDE DEF v, w
    <2>. QED
      BY <1>1, <2>1, <2>2, RunIsLegal DEF LegalFile
  <1>4. CASE ExecuteRun(r)
    <2>. DEFINE b == w.base
                D == ToRun(b.receipts, w.at)
    <2>1. Running(r) /\ session' = session /\ Kept
      BY <1>4 DEF ExecuteRun, At, shared, Kept
    <2>2. PICK outcome \in [D -> Outcomes] :
              LET rs == IF DOMAIN outcome = {} THEN b.receipts
                        ELSE AfterBatch(b.receipts, outcome, w.at)
              IN  run' = [run EXCEPT ![r] = [w EXCEPT !.pc = "executed",
                                                      !.next = Released([b EXCEPT !.receipts = rs])]]
      BY <1>4 DEF ExecuteRun
    <2>. DEFINE rs == IF DOMAIN outcome = {} THEN b.receipts
                      ELSE AfterBatch(b.receipts, outcome, w.at)
                next == Released([b EXCEPT !.receipts = rs])
                v == [w EXCEPT !.pc = "executed", !.next = next]
    <2>3. b.receipts \in Seq(Receipt)
      BY <1>1, <2>1, FileFields
    <2>4. rs \in Seq(Receipt)
      <3>1. D \in SUBSET Occurrence /\ IsFiniteSet(D)
        BY <1>1, <2>1, ToRunType
      <3>. HIDE DEF D
      <3>. QED
        BY <1>1, <2>1, <2>3, <3>1, AfterBatchType
    <2>5. Legal(rs)
      <3>1. Legal(AfterBatch(b.receipts, outcome, w.at))
        BY <1>1, <2>1, <2>3, BatchIsLegal
      <3>. QED
        BY <1>1, <2>1, <3>1
    <2>6. run' = [run EXCEPT ![r] = v]
      BY <2>2
    <2>. HIDE DEF rs, D
    <2>7. next.receipts = rs
      <3>. DEFINE g == [b EXCEPT !.receipts = rs]
      <3>1. b \in File
        BY <1>1, <2>1
      <3>. HIDE DEF b
      <3>2. g \in File
        BY <2>4, <3>1, ReceiptsSet
      <3>3. g.receipts = rs
        BY <3>1 DEF File
      <3>4. next = Unclaimed(g)
        BY DEF Released
      <3>. HIDE DEF g, next
      <3>5. Unclaimed(g).receipts = g.receipts
        BY <3>2, UnclaimedType
      <3>. QED
        BY <3>3, <3>4, <3>5
    <2>. HIDE DEF next
    <2>8. v.base = w.base /\ v.next = next
      BY <1>1, <2>1 DEF Run
    <2>. HIDE DEF v
    <2>. QED
      BY <1>1, <2>1, <2>5, <2>6, <2>7, <2>8, RunIsLegal DEF LegalFile
  <1>5. CASE PutResult(r)
    <2>1. Running(r) /\ run' = [run EXCEPT ![r] = Over] /\ session' = session /\ Written(w.next)
      BY <1>5, PutIsWritten DEF PutResult, At, Stops
    <2>. QED
      BY <1>1, <2>1, RunIsLegal DEF LegalFile
  <1>6. CASE Abandon(r)
    <2>1. run' = [run EXCEPT ![r] = Over] /\ session' = session /\ Kept
      BY <1>6 DEF Abandon, Stops, shared, Kept
    <2>. QED
      BY <2>1, RunIsLegal DEF LegalFile
  <1>. QED
    BY <1>2, <1>3, <1>4, <1>5, <1>6 DEF RunStep

(* The copies a session works from.                                        *)
LEMMA CopiesAreLegal ==
    ASSUME WorkerInv, LegalInv, NEW u \in Sessions
    PROVE  /\ Legal(file.receipts)
           /\ Working(u) \in File /\ Legal(Working(u).receipts) /\ Legal(Source(u).receipts)
           /\ session[u] # Blank => /\ session[u] \in Session
                                    /\ session[u].work \in File /\ session[u].source \in File
                                    /\ Legal(session[u].work.receipts)
                                    /\ Legal(session[u].source.receipts)
  <1>1. Legal(file.receipts)
    BY DEF LegalInv, ReceiptsAreLegal
  <1>2. session[u] # Blank => /\ session[u] \in Session
                              /\ Legal(session[u].work.receipts)
                              /\ Legal(session[u].source.receipts)
    BY CopyOf DEF LegalInv
  <1>3. Legal(Working(u).receipts) /\ Legal(Source(u).receipts)
    BY <1>1, <1>2 DEF Working, Source
  <1>. QED
    BY <1>1, <1>2, <1>3, CopyOf, SessionFields

LEMMA StagesIsLegal ==
    ASSUME WorkerInv, LegalInv, NEW u \in Sessions, NEW f, Stages(u, f),
           Legal(f.receipts), run' = run, Kept
    PROVE  LegalInv'
  <1>. DEFINE v == [work |-> f, source |-> Source(u), dirty |-> TRUE, doing |-> "nothing", seen |-> 0]
  <1>1. Becomes(u, v)
    BY DEF Stages
  <1>2. v.work = f /\ v.source = Source(u)
    OBVIOUS
  <1>. HIDE DEF v
  <1>. QED
    BY <1>1, <1>2, CopiesAreLegal, SessionIsLegal DEF LegalFile

LEMMA BeginsIsLegal ==
    ASSUME WorkerInv, LegalInv, NEW u \in Sessions, NEW op, NEW f, Begins(u, op, f),
           Legal(f.receipts)
    PROVE  LegalInv'
  <1>. DEFINE v == [work |-> f, source |-> file, dirty |-> session[u] # Blank,
                    doing |-> op, seen |-> sha]
  <1>1. Becomes(u, v) /\ run' = run /\ Kept
    BY DEF Begins, shared, Kept
  <1>2. v.work = f /\ v.source = file
    OBVIOUS
  <1>. HIDE DEF v
  <1>. QED
    BY <1>1, <1>2, CopiesAreLegal, SessionIsLegal DEF LegalFile

LEMMA RestsIsLegal ==
    ASSUME WorkerInv, LegalInv, NEW u \in Sessions, session[u] # Blank,
           Becomes(u, Blank) \/ Unanswered(u), run' = run, LegalFile
    PROVE  LegalInv'
  <1>1. CASE Becomes(u, Blank)
    BY <1>1, SessionIsLegal
  <1>2. CASE Unanswered(u)
    <2>1. PICK v \in Session \cup {Blank} :
              /\ Becomes(u, v)
              /\ v # Blank => v.work = session[u].work /\ v.source = session[u].source
      BY <1>2, UnansweredRests
    <2>. QED
      BY <2>1, CopiesAreLegal, SessionIsLegal
  <1>. QED
    BY <1>1, <1>2

LEMMA StagingIsLegal ==
    ASSUME WorkerInv, LegalInv, NEW u \in Sessions,
           StageArm(u) \/ StagePause(u) \/ StageKill(u) \/ HumanRun(u)
    PROVE  LegalInv'
  <1>. DEFINE w == Working(u)
  <1>0. /\ w \in File /\ w.receipts \in Seq(Receipt) /\ Legal(w.receipts)
        /\ now \in Nat /\ armings + 1 \in Nat
    BY CopiesAreLegal, FileFields, InvFacts DEF RestOK
  <1>1. run' = run /\ Kept
    BY DEF StageArm, StagePause, StageKill, HumanRun, shared, Kept
  <1>2. ASSUME NEW g \in File, g.receipts = w.receipts, Stages(u, Unclaimed(g))
        PROVE  LegalInv'
    <2>1. Unclaimed(g).receipts = w.receipts
      BY <1>2, UnclaimedType
    <2>. HIDE DEF w
    <2>. QED
      BY <1>0, <1>1, <1>2, <2>1, StagesIsLegal
  <1>3. CASE StageArm(u)
    <2>1. Stages(u, Unclaimed([w EXCEPT !.state = "ARMED", !.arm = armings + 1]))
      BY <1>3 DEF StageArm
    <2>2. /\ [w EXCEPT !.state = "ARMED", !.arm = armings + 1] \in File
          /\ [w EXCEPT !.state = "ARMED", !.arm = armings + 1].receipts = w.receipts
      <3>. HIDE DEF w
      <3>1. [w EXCEPT !.state = "ARMED", !.arm = armings + 1] \in File
        BY <1>0, ArmedSet
      <3>. QED
        BY <1>0, <3>1 DEF File
    <2>. QED
      BY <1>2, <2>1, <2>2
  <1>4. CASE StagePause(u) \/ StageKill(u)
    <2>1. PICK state \in {"PAUSED", "KILLED"} : Stages(u, Unclaimed([w EXCEPT !.state = state]))
      BY <1>4 DEF StagePause, StageKill
    <2>2. state \in GlobalStates
      BY DEF GlobalStates
    <2>3. [w EXCEPT !.state = state] \in File /\ [w EXCEPT !.state = state].receipts = w.receipts
      <3>. HIDE DEF w
      <3>1. [w EXCEPT !.state = state] \in File
        BY <1>0, <2>2, StateSet
      <3>. QED
        BY <1>0, <3>1 DEF File
    <2>. QED
      BY <1>2, <2>1, <2>3
  <1>5. CASE HumanRun(u)
    <2>. DEFINE D == ToRun(w.receipts, now)
    <2>1. PICK outcome \in [D -> Outcomes] :
              Stages(u, [w EXCEPT !.receipts = AfterBatch(w.receipts, outcome, now)])
      BY <1>5 DEF HumanRun
    <2>2. Legal(AfterBatch(w.receipts, outcome, now))
      BY <1>0, BatchIsLegal
    <2>3. AfterBatch(w.receipts, outcome, now) \in Seq(Receipt)
      <3>1. D \in SUBSET Occurrence /\ IsFiniteSet(D)
        BY <1>0, ToRunType
      <3>. HIDE DEF D
      <3>. QED
        BY <1>0, <3>1, AfterBatchType
    <2>. DEFINE rs == AfterBatch(w.receipts, outcome, now)
    <2>. HIDE DEF rs
    <2>4. [w EXCEPT !.receipts = rs].receipts = rs
      BY <1>0, <2>3, ReceiptsSet DEF rs
    <2>. QED
      BY <1>1, <2>1, <2>2, <2>4, StagesIsLegal DEF rs
  <1>. QED
    BY <1>3, <1>4, <1>5

LEMMA BeginningIsLegal ==
    ASSUME WorkerInv, LegalInv, NEW u \in Sessions, BeginSave(u) \/ BeginArming(u) \/ BeginRestore(u)
    PROVE  LegalInv'
  <1>0. /\ Working(u) \in File /\ Legal(Working(u).receipts)
        /\ past \in SUBSET File /\ sha \in Nat
    BY CopiesAreLegal, InvFacts
  <1>1. CASE BeginSave(u)
    <2>1. PICK f \in Edited(Working(u)) : Begins(u, "save", f)
      BY <1>1 DEF BeginSave
    <2>2. f.receipts = Working(u).receipts
      <3>1. [Working(u) EXCEPT !.edits = sha].receipts = Working(u).receipts
        BY <1>0, EditsSet
      <3>2. f = Working(u) \/ f = [Working(u) EXCEPT !.edits = sha]
        BY <2>1 DEF Edited
      <3>. QED
        BY <3>1, <3>2
    <2>. QED
      BY <1>0, <2>1, <2>2, BeginsIsLegal
  <1>2. CASE BeginArming(u)
    BY <1>0, <1>2, BeginsIsLegal DEF BeginArming
  <1>3. CASE BeginRestore(u)
    <2>1. PICK f \in past : Begins(u, "restore", [f EXCEPT !.edits = sha])
      BY <1>3 DEF BeginRestore
    <2>2. [f EXCEPT !.edits = sha].receipts = f.receipts
      BY <1>0, EditsSet
    <2>3. Legal(f.receipts)
      BY DEF LegalInv, ReceiptsAreLegal
    <2>. QED
      BY <2>1, <2>2, <2>3, BeginsIsLegal
  <1>. QED
    BY <1>1, <1>2, <1>3

LEMMA EndingIsLegal ==
    ASSUME WorkerInv, LegalInv, NEW u \in Sessions, WriteFails(u) \/ ConfirmArming(u) \/ DropEdits(u)
    PROVE  LegalInv'
  <1>1. run' = run /\ Kept /\ session[u] # Blank
    BY DEF WriteFails, ConfirmArming, DropEdits, Between, Doing, shared, Kept
  <1>2. Becomes(u, Blank) \/ Unanswered(u)
    BY DEF WriteFails, ConfirmArming, DropEdits
  <1>. QED
    BY <1>1, <1>2, RestsIsLegal DEF LegalFile

LEMMA WritingIsLegal ==
    ASSUME WorkerInv, LegalInv, NEW u \in Sessions,
           SaveSession(u) \/ PersistArming(u) \/ RollBackArming(u) \/ RestoreRevision(u)
    PROVE  LegalInv'
  <1>. DEFINE s == session[u]
  <1>1. s # Blank /\ run' = run
    BY DEF SaveSession, PersistArming, RollBackArming, RestoreRevision, Doing
  <1>2. /\ s \in Session /\ s.work \in File /\ s.source \in File
        /\ Legal(s.work.receipts) /\ Legal(s.source.receipts)
    BY <1>1, CopiesAreLegal
  <1>3. Overwrites(u, s.work) \/ Overwrites(u, s.source)
    BY DEF SaveSession, PersistArming, RollBackArming, RestoreRevision
  <1>4. LegalFile
    <2>. HIDE DEF s
    <2>. QED
      BY <1>2, <1>3, OverwritesFacts DEF LegalFile
  <1>5. CASE Becomes(u, Blank) \/ Unanswered(u)
    BY <1>1, <1>4, <1>5, RestsIsLegal
  <1>6. CASE Becomes(u, [s EXCEPT !.doing = "arming", !.seen = sha'])
    <2>. DEFINE v == [s EXCEPT !.doing = "arming", !.seen = sha']
    <2>1. v.work = s.work /\ v.source = s.source
      BY <1>2 DEF Session
    <2>2. Becomes(u, v)
      BY <1>6
    <2>. HIDE DEF v, s
    <2>. QED
      BY <1>1, <1>2, <1>4, <2>1, <2>2, SessionIsLegal
  <1>. QED
    BY <1>5, <1>6 DEF SaveSession, PersistArming, RollBackArming, RestoreRevision

LEMMA LegalStarts ==
    ASSUME GlobalInit
    PROVE  LegalInv
  <1>1. past = {} /\ file.receipts = <<>>
    BY DEF GlobalInit, InitialFile
  <1>2. \A o : Failures(<<>>, o) = 0
    <2>1. \A o : {i \in DOMAIN <<>> : <<>>[i].of = o} = {}
      OBVIOUS
    <2>. QED
      BY <2>1, FS_EmptySet DEF Failures
  <1>3. Legal(<<>>)
    BY <1>2, ExecutorAssumption DEF Legal
  <1>4. ReceiptsAreLegal
    BY <1>1, <1>3 DEF ReceiptsAreLegal
  <1>. QED
    BY <1>4 DEF GlobalInit, LegalInv

(* No receipt list the executor keeps, in the file or in a revision git    *)
(* still has, says that an occurrence ran more often than it may, or that  *)
(* it ran again after it ended, whoever executes it: what a list remembers *)
(* is respected, and only what it forgot can happen again.                 *)
THEOREM ReceiptListsAreLegal == GlobalSpec => []ReceiptsAreLegal
  <1>1. GlobalInit => LegalInv
    BY LegalStarts
  <1>2. WorkerInv /\ LegalInv /\ [GlobalNext]_gvars => LegalInv'
    <2>. SUFFICES ASSUME WorkerInv, LegalInv, [GlobalNext]_gvars
                  PROVE  LegalInv'
      OBVIOUS
    <2>1. ASSUME NEW u \in Sessions, SessionStep(u)
          PROVE  LegalInv'
      BY <2>1, StagingIsLegal, BeginningIsLegal, EndingIsLegal, WritingIsLegal DEF SessionStep
    <2>2. CASE Pass \/ UNCHANGED gvars
      <3>1. file' = file /\ past' = past /\ run' = run /\ session' = session
        BY <2>2 DEF Pass, gvars, shared
      <3>. QED
        BY <3>1 DEF LegalInv, ReceiptsAreLegal
    <2>. QED
      BY <2>1, <2>2, RunStepIsLegal DEF GlobalNext
  <1>3. LegalInv => ReceiptsAreLegal
    BY DEF LegalInv
  <1>. QED
    BY <1>1, <1>2, <1>3, WorkerInvHolds, PTL DEF GlobalSpec

(* A run of the worker never executes what the file says has ended, or has *)
(* no attempt left: it executes over the file as it is, or not at all.     *)
SettledIsSkipped ==
    [][\A e \in unrecorded' \ unrecorded :
           /\ e.of \notin Ended(file.receipts)
           /\ Failures(file.receipts, e.of) < MaxAttempts]_gvars

THEOREM RunsRespectReceipts == GlobalSpec => SettledIsSkipped
  <1>. DEFINE Skips == \A e \in unrecorded' \ unrecorded :
                           /\ e.of \notin Ended(file.receipts)
                           /\ Failures(file.receipts, e.of) < MaxAttempts
  <1>1. WorkerInv /\ [GlobalNext]_gvars => Skips
    <2>. SUFFICES ASSUME WorkerInv, [GlobalNext]_gvars
                  PROVE  Skips
      OBVIOUS
    <2>1. ASSUME NEW r \in Runtimes, ExecuteRun(r)
          PROVE  Skips
      <3>. DEFINE b == run[r].base
                  D == ToRun(b.receipts, run[r].at)
      <3>1. Running(r) /\ run[r].pc = "claimed" /\ run[r].sha = sha
        BY <2>1 DEF ExecuteRun, At, Accepted
      <3>2. RunOK(run[r], file, sha)
        BY <3>1, RunAt
      <3>3. b = file
        BY <3>1, <3>2 DEF RunOK
      <3>4. PICK outcome \in [D -> Outcomes] :
                unrecorded' = unrecorded \cup {[of |-> o, token |-> b.lease.token] : o \in DOMAIN outcome}
        BY <2>1 DEF ExecuteRun
      <3>5. \A e \in unrecorded' \ unrecorded : e.of \in D
        BY <3>4
      <3>6. \A o \in D : ~Settled(b.receipts, o) /\ Failures(b.receipts, o) < MaxAttempts
        BY DEF ToRun, Runnable
      <3>7. \A o \in D : o \notin Ended(b.receipts)
        BY <3>6 DEF Settled, Ended
      <3>. HIDE DEF D
      <3>. QED
        BY <3>3, <3>5, <3>6, <3>7
    <2>2. ASSUME NEW r \in Runtimes, LoadRun(r) \/ PutClaim(r) \/ PutResult(r) \/ Abandon(r)
          PROVE  unrecorded' \subseteq unrecorded
      BY <2>2 DEF LoadRun, PutClaim, PutResult, Abandon, history
    <2>3. ASSUME NEW u \in Sessions, NEW f, Overwrites(u, f)
          PROVE  unrecorded' \subseteq unrecorded
      BY <2>3 DEF Overwrites
    <2>4. ASSUME NEW u \in Sessions, SessionStep(u)
          PROVE  unrecorded' \subseteq unrecorded
      BY <2>3, <2>4 DEF SessionStep, StageArm, StagePause, StageKill, HumanRun, BeginSave, BeginArming,
         BeginRestore, Begins, SaveSession, PersistArming, ConfirmArming, RollBackArming,
         RestoreRevision, WriteFails, DropEdits, history
    <2>5. CASE Pass \/ UNCHANGED gvars
      BY <2>5 DEF Pass, gvars, history
    <2>. QED
      BY <2>1, <2>2, <2>4, <2>5 DEF GlobalNext, RunStep
  <1>. QED
    BY <1>1, WorkerInvHolds, PTL DEF GlobalSpec, SettledIsSkipped
=============================================================================
