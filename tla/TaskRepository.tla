--------------------------- MODULE TaskRepository ---------------------------
(***************************************************************************)
(* The repository of durable tasks: one row per task, written by sessions  *)
(* in several processes.  A session loads the task, computes a successor   *)
(* and offers it to compare_and_swap, which is one transaction.  The       *)
(* answer may be lost and the session may die before or after the commit.  *)
(***************************************************************************)
EXTENDS DurableTask

CONSTANTS
    Sessions,
    Submitted,      \* the tasks that callers give to create
    Absent,         \* no row yet
    Idle,           \* a session that holds nothing
    MaxRevision     \* bound on the revisions of the row

VARIABLES
    row,            \* the task in the repository
    session,        \* session[s]: what s holds
    slipped         \* history: a suspended task went on without the word it needs

tvars == <<row, session, slipped>>

Row == Task \cup {Absent}

(* holds: s works from a copy; unsure: it has committed a successor of its *)
(* copy and has no answer.                                                 *)
Session ==
    [pc: {"holds"}, copy: Row]
    \cup [pc: {"unsure"}, copy: Task, next: Task]

ASSUME RepositoryAssumption == Absent \notin Task /\ Idle \notin Session

(* create looks at the revision alone.  No step comes with more retry keys *)
(* than it may remember: normalize_step drops the others.                  *)
ASSUME SubmittedAssumption ==
    \A t \in Submitted :
        /\ t \in Task /\ t.revision = 1
        /\ \A i \in StepNumbers : /\ IsFiniteSet(t.steps[i].keys)
                                  /\ Cardinality(t.steps[i].keys) <= MaxKeys

Silent == [approved |-> FALSE, reason |-> FALSE]

TaskInit ==
    /\ row = Absent
    /\ session = [s \in Sessions |-> Idle]
    /\ slipped = FALSE

Is(s, pc) == session[s] # Idle /\ session[s].pc = pc

Becomes(s, v) == session' = [session EXCEPT ![s] = v]

Holding(t) == [pc |-> "holds", copy |-> t]

-----------------------------------------------------------------------------
Load(s) ==
    /\ session[s] = Idle
    /\ Becomes(s, Holding(row))
    /\ UNCHANGED <<row, slipped>>

(* A session may drop its copy, or die with it.                            *)
Leave(s) ==
    /\ session[s] # Idle
    /\ Becomes(s, Idle)
    /\ UNCHANGED <<row, slipped>>

(* A task that exists is acknowledged if it is the very same, and refused  *)
(* otherwise.                                                              *)
Create(s, t) ==
    /\ Is(s, "holds") /\ session[s].copy = Absent
    /\ row \in {Absent, t}
    /\ row' = t
    /\ Becomes(s, Holding(t)) \/ Becomes(s, Idle)
    /\ UNCHANGED slipped

(* Faulty variant: the candidate's revision may be the row's already.      *)
SwappableLate(copy, next) ==
    /\ row.revision \in {copy.revision, next.revision}
    /\ next.revision = copy.revision + 1
    /\ row.state \in TerminalTask => next.state = row.state

(* compare_and_swap.  A candidate that is the row already, from a call     *)
(* whose answer was lost, is acknowledged again; otherwise the revision    *)
(* decides.  A failure before the commit leaves everything as it was.      *)
Swappable(copy, next) ==
    /\ row.revision = copy.revision
    /\ next.revision = copy.revision + 1
    /\ row.state \in TerminalTask => next.state = row.state

(* A task that waits for approval goes on by an approved call, one that is *)
(* blocked by a call with a reason.                                        *)
Slips(next, say) ==
    /\ next.state \notin Suspended \cup {"CANCELED"}
    /\ \/ row.state = "WAITING_APPROVAL" /\ ~say.approved
       \/ row.state = "BLOCKED" /\ ~say.reason

Commits(s, next, say) ==
    /\ Swappable(session[s].copy, next)
    /\ row' = next
    /\ slipped' = (slipped \/ Slips(next, say))
    /\ \/ Becomes(s, Holding(next))
       \/ Becomes(s, [pc |-> "unsure", copy |-> session[s].copy, next |-> next])

Replays(s, next) ==
    /\ row = next
    /\ Becomes(s, Holding(row))
    /\ UNCHANGED <<row, slipped>>

Refused(s, next) ==
    /\ row # next /\ ~Swappable(session[s].copy, next)
    /\ Becomes(s, Idle)
    /\ UNCHANGED <<row, slipped>>

CompareAndSwap(s, next, say) ==
    Replays(s, next) \/ Commits(s, next, say) \/ Refused(s, next)

-----------------------------------------------------------------------------
Works(s) ==
    /\ Is(s, "holds")
    /\ session[s].copy # Absent
    /\ session[s].copy.revision < MaxRevision
    /\ session[s].copy.state \notin TerminalTask

UpdateStep(s) ==
    /\ Works(s)
    /\ \E i \in StepNumbers, to \in StepStates, say \in Say, stamp \in Stamps :
           LET t == session[s].copy
           IN  /\ StepAllowed(t, i, to, say)
               /\ CompareAndSwap(s, StepUpdated(t, i, to, {}, stamp), say)

(* retry_step gives a reason of its own.                                   *)
RetryStep(s) ==
    /\ Works(s)
    /\ \E i \in StepNumbers, approved \in BOOLEAN, key \in Keys, stamp \in Stamps :
           LET t == session[s].copy
               say == [approved |-> approved, reason |-> TRUE]
           IN  /\ RetryAllowed(t, i, say, key)
               /\ CompareAndSwap(s, StepUpdated(t, i, "RUNNING", {key}, stamp), say)

TransitionTask(s) ==
    /\ Works(s)
    /\ \E to \in TaskStates, say \in Say, stamp \in Stamps :
           /\ TransitionAllowed(session[s].copy, to, say)
           /\ CompareAndSwap(s, Transitioned(session[s].copy, to, stamp), say)

PauseTask(s) ==
    /\ Works(s)
    /\ \E blocker \in BOOLEAN, stamp \in Stamps :
           CompareAndSwap(s, Paused(session[s].copy, blocker, stamp), Silent)

RecordResume(s) ==
    /\ Works(s)
    /\ \E stamp \in Stamps : CompareAndSwap(s, Resumed(session[s].copy, stamp), Silent)

(* The same candidate with the same expected revision.                     *)
OfferAgain(s) ==
    /\ Is(s, "unsure")
    /\ CompareAndSwap(s, session[s].next, Silent)

SessionStep(s) ==
    \/ Load(s) \/ Leave(s)
    \/ \E t \in Submitted : Create(s, t)
    \/ UpdateStep(s) \/ RetryStep(s) \/ TransitionTask(s) \/ PauseTask(s) \/ RecordResume(s)
    \/ OfferAgain(s)

TaskNext == \E s \in Sessions : SessionStep(s)

TaskSpec == TaskInit /\ [][TaskNext]_tvars

-----------------------------------------------------------------------------
TaskTypeOK ==
    /\ row \in Row
    /\ session \in [Sessions -> Session \cup {Idle}]
    /\ slipped \in BOOLEAN

(* Whatever sessions record, in whatever order: a stored task that makes   *)
(* sense goes on making sense (the cursor is exact, a running task has a   *)
(* current step that is neither suspended nor failed, one that is DONE has *)
(* no open step).  But create does not look whether the cursor it is given *)
(* points at a step that is over; if it does, the task is stuck: nothing   *)
(* ever moves the cursor on, and no step starts, is done or skipped.       *)
CursorIsKept == [][row # Absent => KeepsCursor(row, row')]_tvars

(* A suspended task never goes on without the word its state asks for:     *)
(* work on other steps, pauses, resumptions, retries and calls repeated    *)
(* after a lost answer do not set it free.  (An explicit call may turn a   *)
(* wait for approval into a block, which then asks for a reason.)          *)
SuspensionIsReleased == ~slipped

(* The copy that the next write of a session will replace.                 *)
Copy(v) == [value |-> v, version |-> IF v = Absent THEN 0 ELSE v.revision]

Held == [s \in Sessions |-> IF Is(s, "holds") THEN Copy(session[s].copy) ELSE Idle]

Register == INSTANCE CheckpointRegister
    WITH Clients <- Sessions, Values <- Row, Nothing <- Idle,
         value <- row, version <- Copy(row).version, held <- Held

(* No session's write is lost under another one's.                         *)
ImplementsRegister == Register!RSpec
=============================================================================
