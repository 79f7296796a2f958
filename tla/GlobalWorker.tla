---------------------------- MODULE GlobalWorker ----------------------------
(***************************************************************************)
(* The global durable worker.  Scheduled runs (runtimes) and administrator *)
(* sessions share one checkpoint file on the runtime branch.  Everybody    *)
(* writes the whole file, on condition that its SHA is still the one read: *)
(* the file is the queue, the lease, the receipts and the kill switch.     *)
(***************************************************************************)
EXTENDS ExecutorReceipts

CONSTANTS
    Runtimes,       \* runs of the scheduled workflow
    Sessions,       \* administrator sessions
    Outcomes,       \* the outcomes of a local handler that are explored
    LeaseSeconds,
    Nobody,         \* no lease, no announced tick
    Blank,          \* a run not started, or a session without unsaved edits
    Over,           \* a run that has ended: a runtime identity runs once
    MaxTime,        \* bound on the clock
    MaxWrites,      \* bound on the accepted writes of the file
    MaxArmings,     \* bound on the staged armings
    MaxEdits        \* bound on the versions over which other edits are saved

VARIABLES
    file,           \* the checkpoint on the runtime branch
    sha,            \* its SHA, a counter: every write carries a new timestamp
    now,
    run,            \* run[r]: where the run stands and the copies it holds
    session,        \* session[u]: the working copy of an administrator
    past,           \* the earlier revisions of the file, which git keeps
    armings,        \* armings staged so far: each has its own arm digest
    (* History: what happened, which nothing in the program reads.         *)
    unrecorded,     \* what runs did, until their receipts reach the file or an
                    \* administrator's write removes the announcement
    workedUnder,    \* armings under which an occurrence ran
    undone,         \* armings that were rolled back and not persisted again
    careful,        \* nobody has left the discipline described below
    ran,            \* occurrences that ended while everybody was careful
    again           \* one of them ended twice

shared == <<file, sha, past>>
history == <<unrecorded, workedUnder, undone, careful, ran, again>>
gvars == <<shared, now, run, session, armings, history>>

(* DISABLED, the state of a file that was never armed, is treated like     *)
(* PAUSED everywhere.                                                      *)
GlobalStates == {"ARMED", "PAUSED", "KILLED"}

Lease == [owner: Runtimes, token: Nat, fence: Nat, until: Nat]
Tick_ == [owner: Runtimes, token: Nat, fence: Nat, at: Nat, work: SUBSET Occurrence]

(* The parts of the checkpoint the program decides on.  `arm` stands for   *)
(* the arming contract, `edits` for the rest of the file: the version over *)
(* which it was last changed.  A change leaves an event with its time, so  *)
(* that no later one brings the same file about again.                     *)
File == [state: GlobalStates, arm: Nat, fence: Nat, lease: Lease \cup {Nobody},
         tick: Tick_ \cup {Nobody}, receipts: Seq(Receipt), edits: Nat]

Unclaimed(f) == [f EXCEPT !.lease = Nobody, !.tick = Nobody]

(* A file whose worker was armed before, by arming 0, and may be paused.   *)
InitialFile(state) ==
    [state |-> state, arm |-> 0, fence |-> 0, lease |-> Nobody,
     tick |-> Nobody, receipts |-> <<>>, edits |-> 0]

(* at: when the run started; base: the copy it read, which its next write  *)
(* replaces; next: what that write will put in its place.                  *)
Run == [pc: {"loaded", "claimed", "executed"}, at: Nat, sha: Nat,
        base: File, next: File]

(* source: the content the working copy started from; seen: the SHA that   *)
(* the write in progress names.                                            *)
Session == [work: File, source: File, dirty: BOOLEAN, seen: Nat,
            doing: {"nothing", "save", "persist", "arming", "restore"}]

ASSUME GlobalAssumption ==
    /\ Runtimes \cap Sessions = {}
    /\ Outcomes \subseteq ReceiptStates /\ LeaseSeconds \in Nat
    /\ Nobody \notin Lease \cup Tick_
    /\ Blank \notin Run \cup Session /\ Over \notin Run /\ Over # Blank

GlobalInit ==
    /\ file \in {InitialFile("ARMED"), InitialFile("PAUSED")}
    /\ sha = 1
    /\ now = 0
    /\ run = [r \in Runtimes |-> Blank]
    /\ session = [u \in Sessions |-> Blank]
    /\ past = {}
    /\ armings = 0
    /\ unrecorded = {} /\ workedUnder = {} /\ undone = {}
    /\ careful = TRUE /\ ran = {} /\ again = FALSE

-----------------------------------------------------------------------------
Ended(rs) == {rs[i].of : i \in {j \in DOMAIN rs : rs[j].state \in Terminal}}

(* A conditional write.                                                    *)
Put(f) ==
    /\ sha < MaxWrites
    /\ file' = f
    /\ sha' = sha + 1
    /\ past' = past \cup {file}

(* Faulty variant: the write names no SHA.                                 *)
AcceptedBlindly(seen) == seen <= sha

Accepted(seen) == seen = sha

(* _claim_state.  The lease token is random: the number of the write that  *)
(* publishes it identifies it.                                             *)
LeaseActive(f, t) == f.lease # Nobody /\ t < f.lease.until

LeaseHeld(f, r, t) == LeaseActive(f, t) /\ f.lease.owner # r

Claimed(f, r, t, token) ==
    LET own == LeaseActive(f, t)
        fence == IF own THEN f.lease.fence ELSE f.fence + 1
        proof == IF own THEN f.lease.token ELSE token
    IN  [f EXCEPT !.fence = IF fence > @ THEN fence ELSE @,
                  !.lease = [owner |-> r, token |-> proof, fence |-> fence, until |-> t + LeaseSeconds],
                  !.tick = [owner |-> r, token |-> proof, fence |-> fence, at |-> t, work |-> Batch(t)]]

(* Faulty variant: a release that also leaves a state of its own.          *)
ReleasedAsDone(f) == [Unclaimed(f) EXCEPT !.state = "DONE"]

Released(f) == Unclaimed(f)

(* Faulty variant: an announced tick does not stand in the way.            *)
MayRunBesideTick(f) == f.state = "ARMED"

(* The checks a run makes on the file before it claims.                    *)
MayRun(f) == f.state = "ARMED" /\ f.tick = Nobody

LoadRun(r) ==
    /\ run[r] = Blank
    /\ MayRun(file)
    /\ ~LeaseHeld(file, r, now)
    /\ run' = [run EXCEPT ![r] = [pc |-> "loaded", at |-> now, sha |-> sha, base |-> file,
                                  next |-> Claimed(file, r, now, sha + 1)]]
    /\ UNCHANGED <<shared, now, session, armings, history>>

Running(r) == run[r] \notin {Blank, Over}

At(r, pc) == Running(r) /\ run[r].pc = pc

Stops(r) == run' = [run EXCEPT ![r] = Over]

(* The claim lands; the run has yet to read it back.                       *)
PutClaim(r) ==
    /\ At(r, "loaded")
    /\ Accepted(run[r].sha)
    /\ Put(run[r].next)
    /\ run' = [run EXCEPT ![r] = [@ EXCEPT !.pc = "claimed", !.sha = sha', !.base = run[r].next]]
    /\ UNCHANGED <<now, session, armings, history>>

(* A terminal receipt that is cut off while its occurrence is still due is *)
(* forgotten.                                                              *)
Remembers(rs, older, t) == Ended(older) \cap DueAt(t) \subseteq Ended(rs)

(* kept: the discipline holds in this step.                                *)
Ran(outcome, kept) ==
    LET ended == {o \in DOMAIN outcome : outcome[o] \in Terminal}
    IN  /\ careful' = (careful /\ kept)
        /\ ran' = IF careful /\ kept THEN ran \cup ended ELSE ran
        /\ again' = (again \/ (careful /\ kept /\ ended \cap ran # {}))

(* Read-after-write: the SHA must still be that of the claim.  Then the    *)
(* batch runs in memory, as of the moment the run started, over the        *)
(* claimed copy, and the released file is prepared for the final write.    *)
ExecuteRun(r) ==
    /\ At(r, "claimed")
    /\ Accepted(run[r].sha)
    /\ \E outcome \in [ToRun(run[r].base.receipts, run[r].at) -> Outcomes] :
           LET b == run[r].base
               rs == IF DOMAIN outcome = {} THEN b.receipts
                     ELSE AfterBatch(b.receipts, outcome, run[r].at)
           IN  /\ run' = [run EXCEPT ![r] = [@ EXCEPT !.pc = "executed",
                                                      !.next = Released([b EXCEPT !.receipts = rs])]]
               /\ unrecorded' = unrecorded \cup
                      {[of |-> o, token |-> b.lease.token] : o \in DOMAIN outcome}
               /\ Ran(outcome, Remembers(rs, b.receipts, run[r].at))
               /\ workedUnder' = IF DOMAIN outcome = {} THEN workedUnder
                                 ELSE workedUnder \cup {b.arm}
    /\ UNCHANGED <<shared, now, session, armings, undone>>

(* Faulty variant: the final write is repeated until it is accepted.       *)
PutResultAnyway(r) ==
    /\ At(r, "executed")
    /\ Put(run[r].next)
    /\ unrecorded' = {e \in unrecorded : e.token # run[r].base.lease.token}
    /\ Stops(r)
    /\ UNCHANGED <<now, session, armings, ran, again, workedUnder, undone, careful>>

(* The final write is conditional on the SHA of the claim.                 *)
PutResult(r) ==
    /\ At(r, "executed")
    /\ Accepted(run[r].sha)
    /\ Put(run[r].next)
    /\ unrecorded' = {e \in unrecorded : e.token # run[r].base.lease.token}
    /\ Stops(r)
    /\ UNCHANGED <<now, session, armings, ran, again, workedUnder, undone, careful>>

(* Faulty variant: a run that fails gives its claim back.                  *)
AbandonAndRelease(r) ==
    /\ Running(r)
    /\ Stops(r)
    /\ IF Accepted(run[r].sha) THEN Put(Released(run[r].base)) ELSE UNCHANGED shared
    /\ UNCHANGED <<now, session, armings, history>>

(* Nothing repeats a run that fails: a conflict, an answer that is lost or *)
(* a runner that dies ends it, whatever it has done.                       *)
Abandon(r) ==
    /\ Running(r)
    /\ Stops(r)
    /\ UNCHANGED <<shared, now, session, armings, history>>

-----------------------------------------------------------------------------
(* An administrator session.  Every click runs the page script anew: it    *)
(* reads the file, adopts it unless the working copy holds unsaved edits,  *)
(* and then runs the handler of the button.  So a clean session counts as  *)
(* Blank.                                                                  *)
Doing(u, op) == session[u] # Blank /\ session[u].doing = op

Between(u) == session[u] = Blank \/ Doing(u, "nothing")

Working(u) == IF session[u] = Blank THEN file ELSE session[u].work

Source(u) == IF session[u] = Blank THEN file ELSE session[u].source

Becomes(u, s) == session' = [session EXCEPT ![u] = s]

Stages(u, f) ==
    /\ Between(u)
    /\ Becomes(u, [work |-> f, source |-> Source(u), dirty |-> TRUE, doing |-> "nothing", seen |-> 0])

StageArm(u) ==
    /\ armings < MaxArmings
    /\ Working(u).state # "ARMED"
    /\ Stages(u, Unclaimed([Working(u) EXCEPT !.state = "ARMED", !.arm = armings + 1]))
    /\ armings' = armings + 1
    /\ UNCHANGED <<shared, now, run, history>>

StagePause(u) ==
    /\ Working(u).state = "ARMED"
    /\ Stages(u, Unclaimed([Working(u) EXCEPT !.state = "PAUSED"]))
    /\ UNCHANGED <<shared, now, run, armings, history>>

StageKill(u) ==
    /\ Stages(u, Unclaimed([Working(u) EXCEPT !.state = "KILLED"]))
    /\ UNCHANGED <<shared, now, run, armings, history>>

OthersClean(u) == \A v \in Sessions \ {u} : session[v] = Blank

(* The same executor, on one click, over the working copy: no lease, no    *)
(* announcement.  A careful administrator clicks only while the worker is  *)
(* not armed, on a copy that is not stale, and while nobody else holds     *)
(* unsaved edits.  A page whose own worker runtime is armed runs due work  *)
(* over its working copy as well, every minute and without a click; it is  *)
(* not an actor here, and no careful administrator arms it.                *)
HumanRun(u) ==
    /\ ToRun(Working(u).receipts, now) # {}
    /\ \E outcome \in [ToRun(Working(u).receipts, now) -> Outcomes] :
           LET w == Working(u)
               rs == AfterBatch(w.receipts, outcome, now)
           IN  /\ Stages(u, [w EXCEPT !.receipts = rs])
               /\ Ran(outcome, /\ Source(u) = file /\ file.state # "ARMED"
                               /\ OthersClean(u)
                               /\ Remembers(rs, w.receipts, now))
    /\ UNCHANGED <<shared, now, run, armings, unrecorded, workedUnder, undone>>

-----------------------------------------------------------------------------
(* A write of the session: the script run that begins it has read the file *)
(* and found no conflict; others may write before it arrives.              *)
Begins(u, op, f) ==
    /\ Between(u)
    /\ Source(u) = file
    /\ Becomes(u, [work |-> f, source |-> file, dirty |-> session[u] # Blank,
                   doing |-> op, seen |-> sha])
    /\ UNCHANGED <<shared, now, run, armings, history>>

(* Without a confirmed answer the session keeps what it had.               *)
Unanswered(u) ==
    Becomes(u, IF session[u].dirty THEN [session[u] EXCEPT !.doing = "nothing", !.seen = 0]
               ELSE Blank)

(* Refused, overtaken, or lost on the way; when it is the rollback of an   *)
(* arming this is CRITICAL_ROLLBACK_FAILED.                                *)
WriteFails(u) ==
    /\ ~Between(u)
    /\ Unanswered(u)
    /\ UNCHANGED <<shared, now, run, armings, history>>

(* A write that removes the announcement of a tick answers for it, and a   *)
(* careful administrator does not do that.                                 *)
Removes(f) == file.tick # Nobody /\ f.tick # file.tick

(* Faulty variant: a session's write names no SHA.                         *)
OverwritesBlindly(u, f) ==
    /\ Put(f)
    /\ unrecorded' = IF Removes(f) THEN {e \in unrecorded : e.token # file.tick.token} ELSE unrecorded

Overwrites(u, f) ==
    /\ Accepted(session[u].seen)
    /\ Put(f)
    /\ unrecorded' = IF Removes(f) THEN {e \in unrecorded : e.token # file.tick.token} ELSE unrecorded

(* save_runtime_checkpoint reads the file once more when the copy is       *)
(* ARMED: the generic save only renews an arming that is already there.    *)
SameArming(f, g) == f.state = "ARMED" /\ g.state = "ARMED" /\ f.arm = g.arm

MaySave(f) == f.state = "ARMED" => SameArming(f, file)

(* The save carries whatever else was edited in the working copy.          *)
Edited(f) == {f} \cup (IF sha <= MaxEdits THEN {[f EXCEPT !.edits = sha]} ELSE {})

BeginSave(u) ==
    /\ MaySave(Working(u))
    /\ \E f \in Edited(Working(u)) : Begins(u, "save", f)

SaveSession(u) ==
    /\ Doing(u, "save")
    /\ MaySave(session[u].work)
    /\ Overwrites(u, session[u].work)
    /\ Becomes(u, Blank) \/ Unanswered(u)
    /\ careful' = (careful /\ ~Removes(session[u].work))
    /\ UNCHANGED <<now, run, armings, ran, again, workedUnder, undone>>

(* persist_staged_global_arming: the feature flag must be off before the   *)
(* write and proven off after it, or the source file is written back.  The *)
(* flag is changed from outside and reading it may fail, so either answer  *)
(* is possible each time.                                                  *)
BeginArming(u) ==
    /\ Working(u).state = "ARMED" /\ ~SameArming(Working(u), file)
    /\ Begins(u, "persist", Working(u))

PersistArming(u) ==
    /\ Doing(u, "persist")
    /\ LET w == session[u].work
       IN  /\ Overwrites(u, w)
           /\ \/ Becomes(u, [session[u] EXCEPT !.doing = "arming", !.seen = sha'])
              \/ Unanswered(u)
           /\ careful' = (careful /\ ~Removes(w) /\ OthersClean(u))
           /\ undone' = undone \ {w.arm}
    /\ UNCHANGED <<now, run, armings, ran, again, workedUnder>>

ConfirmArming(u) ==
    /\ Doing(u, "arming")
    /\ Becomes(u, Blank)
    /\ UNCHANGED <<shared, now, run, armings, history>>

(* The rollback goes through the generic save, which refuses to bring back *)
(* an earlier arming.  Receipts of the working copy that the source lacks  *)
(* are lost.                                                               *)
RollBackArming(u) ==
    /\ Doing(u, "arming")
    /\ LET s == session[u]
       IN  /\ MaySave(s.source)
           /\ Overwrites(u, s.source)
           /\ Becomes(u, Blank) \/ Unanswered(u)
           /\ undone' = undone \cup {s.work.arm}
           /\ careful' = (careful /\ Ended(s.work.receipts) \subseteq Ended(s.source.receipts))
    /\ UNCHANGED <<now, run, armings, ran, again, workedUnder>>

(* restore_checkpoint_revision writes an earlier revision over the current *)
(* one, with an event that names the SHA it was written over.              *)
BeginRestore(u) ==
    /\ session[u] = Blank
    /\ \E f \in past \ {file} : Begins(u, "restore", [f EXCEPT !.edits = sha])

RestoreRevision(u) ==
    /\ Doing(u, "restore")
    /\ LET f == session[u].work
       IN  /\ MaySave(f)
           /\ Overwrites(u, f)
           /\ careful' = (careful /\ ~Removes(f) /\ Ended(file.receipts) \subseteq Ended(f.receipts))
    /\ Unanswered(u)
    /\ UNCHANGED <<now, run, armings, ran, again, workedUnder, undone>>

(* Unsaved edits are dropped: on a conflict, or with the session itself.   *)
DropEdits(u) ==
    /\ session[u] # Blank
    /\ Becomes(u, Blank)
    /\ careful' = (careful /\ Ended(session[u].work.receipts) \subseteq Ended(file.receipts))
    /\ UNCHANGED <<shared, now, run, armings, unrecorded, workedUnder, undone, ran, again>>

-----------------------------------------------------------------------------
(* A bound: the clock stands still while a session holds edits.            *)
Pass ==
    /\ now < MaxTime
    /\ \A u \in Sessions : session[u] = Blank
    /\ now' = now + 1
    /\ UNCHANGED <<shared, run, session, armings, history>>

RunStep(r) ==
    \/ LoadRun(r) \/ PutClaim(r) \/ ExecuteRun(r)
    \/ PutResult(r) \/ Abandon(r)

SessionStep(u) ==
    \/ StageArm(u) \/ StagePause(u) \/ StageKill(u) \/ HumanRun(u)
    \/ BeginSave(u) \/ SaveSession(u)
    \/ BeginArming(u) \/ PersistArming(u) \/ ConfirmArming(u) \/ RollBackArming(u)
    \/ BeginRestore(u) \/ RestoreRevision(u)
    \/ WriteFails(u) \/ DropEdits(u)

GlobalNext ==
    \/ \E r \in Runtimes : RunStep(r)
    \/ \E u \in Sessions : SessionStep(u)
    \/ Pass

GlobalSpec == GlobalInit /\ [][GlobalNext]_gvars

-----------------------------------------------------------------------------
GlobalTypeOK ==
    /\ file \in File /\ past \in SUBSET File
    /\ sha \in Nat \ {0} /\ now \in Nat /\ armings \in Nat
    /\ run \in [Runtimes -> Run \cup {Blank, Over}]
    /\ session \in [Sessions -> Session \cup {Blank}]
    /\ unrecorded \in SUBSET [of: Occurrence, token: Nat]
    /\ workedUnder \in SUBSET Nat /\ undone \in SUBSET Nat
    /\ careful \in BOOLEAN /\ again \in BOOLEAN
    /\ ran \in SUBSET Occurrence

(* Work the global worker has done without getting its receipts into the   *)
(* file stays announced there, under the lease token of the run that did   *)
(* it, until an administrator's write takes the announcement away: a run   *)
(* that dies or is overtaken never leaves a file that looks as if nothing  *)
(* had happened.                                                           *)
UnrecordedRunsAreFlagged ==
    \A e \in unrecorded :
        /\ file.tick # Nobody
        /\ file.tick.token = e.token
        /\ e.of \in file.tick.work

(* As long as administrators run due work only while the worker is not     *)
(* armed, keep announcements and receipts, and the receipt list does not   *)
(* overflow, no occurrence ends twice, whatever runs, crashes, slow writes *)
(* and lost answers do.                                                    *)
CarefulWorkEndsOnce == ~again

(* Once the file says anything but ARMED, no run changes it any more, not  *)
(* even one that had claimed before: only a session does.                  *)
KilledIsQuiet == [][file.state # "ARMED" /\ session' = session => file' = file]_gvars

(* No occurrence ever ran, nor will run, under an arming that was rolled   *)
(* back, unless it is persisted once more: the rollback loses against a    *)
(* run that claimed first.                                                 *)
RolledBackArmingRanNothing == workedUnder \cap undone = {}

(* The copy that the next write of a run or of a session will replace.     *)
HeldByRun(r) == IF Running(r) THEN [value |-> run[r].base, version |-> run[r].sha]
                ELSE Blank

HeldBySession(u) ==
    IF Between(u) THEN Blank
    ELSE [value |-> IF session[u].doing = "arming" THEN session[u].work ELSE session[u].source,
          version |-> session[u].seen]

Held == [c \in Runtimes \cup Sessions |-> IF c \in Runtimes THEN HeldByRun(c) ELSE HeldBySession(c)]

Register == INSTANCE CheckpointRegister
    WITH Clients <- Runtimes \cup Sessions, Values <- File, Nothing <- Blank,
         value <- file, version <- sha, held <- Held

(* Nobody's write is lost: each replaces exactly the file its writer read, *)
(* claims, results, saves, rollbacks and recoveries alike.                 *)
ImplementsRegister == Register!RSpec

(* "Once a receipt for an occurrence reaches SUCCEEDED or BLOCKED, that    *)
(* occurrence will not be executed again": no run executes an occurrence   *)
(* that some revision of the file has a terminal receipt of.               *)
EverSettled == UNION {Ended(f.receipts) : f \in past \cup {file}}

SettledStaysSettled ==
    [][\A e \in unrecorded' \ unrecorded : e.of \notin EverSettled]_gvars
=============================================================================
