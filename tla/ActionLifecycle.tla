-------------------------- MODULE ActionLifecycle --------------------------
(***************************************************************************)
(* The approval registry of zen_ma2_agent/core.py: how an ActionRecord is  *)
(* registered, superseded, cancelled, approved, executed on the grandMA2   *)
(* console and concluded, when several threads of the operator server call *)
(* AgentCore, which holds no lock.                                         *)
(*                                                                         *)
(* A call that only assigns fields is one step, but for _queue_workflow,   *)
(* whose test of the active action decides what it assigns.                *)
(* approve_action talks to the console for seconds; it is cut at every     *)
(* such exchange: the guards, the revalidation, the assignment of          *)
(* APPROVED, each console command, the readback, the trailing ClearAll and *)
(* the conclusion.                                                         *)
(***************************************************************************)
EXTENDS Naturals

CONSTANTS
    Ids,       \* identifiers uuid4() can hand out in one behaviour
    NoId,      \* Python's None where an action id is expected
    Threads,   \* threads that may be inside AgentCore
    Kinds,     \* the families of plans requested in this instance
    Phases     \* clear / set values / store rounds of one command plan

(***************************************************************************)
(* The families of executable plans, by how approve_action treats them.    *)
(*   dynamic_merge   show.program, merge_existing_cue_dynamic_program      *)
(*   position_merge  show.program, merge_existing_cue_position             *)
(*   program_song    show.program around a plan of the generic executor    *)
(*   position_poc    verify_position_application                           *)
(*   raw_poc         verify_position_raw_cue                               *)
(*   seq302          merge_sequence302_authored_resources                  *)
(*   calibration     verify_position_calibration                           *)
(*   cue_effect      verify_cue_effect_application                         *)
(*   song            build_first_song, queued outside show.program         *)
(*   direct          offset_timecode, geometry_clone: the commands name    *)
(*                   their values, the programmer is not used              *)
(*   program_direct  show.program around one of these                      *)
(***************************************************************************)
AllKinds == {"dynamic_merge", "position_merge", "program_song", "position_poc",
             "raw_poc", "seq302", "calibration", "cue_effect", "song", "direct",
             "program_direct"}

ShowProgram == {"dynamic_merge", "position_merge", "program_song", "program_direct"}

Direct == {"direct", "program_direct"}

\* Kinds whose own preview and outcome are projected on root_workflow_status.
RootTracked == {"position_poc", "raw_poc", "seq302", "calibration"}

\* cancel_action's list lacks verify_position_calibration.
CancelTracked == {"position_poc", "raw_poc", "seq302"}

\* Kinds with an executor of their own: one command at a time, stop at the
\* first response that reads as an error, ClearAll in a finally block.
Guarded == {"dynamic_merge", "position_merge", "position_poc", "raw_poc",
            "seq302", "calibration", "cue_effect"}

\* Kinds with an _ensure_..._state_unchanged step before they are approved.
Revalidated == (Guarded \ {"cue_effect"}) \cup Direct

\* Guarded kinds that conclude only on a native Sequence Export.
NativeReadback == Guarded \ {"cue_effect"}

\* Of these: the export must show the plan's own values; verify_position_raw_cue
\* asks for values of PAN and TILT, whatever they are.
OwnReadback == NativeReadback \ {"raw_poc"}

\* Of these: all other content must be what it was before.
ProtectedReadback == {"dynamic_merge", "seq302"}

ASSUME ConstantsAssumption ==
    /\ NoId \notin Ids
    /\ Kinds \subseteq AllKinds
    /\ Phases \in Nat \ {0}

Statuses == {"NONE", "PENDING_APPROVAL", "CANCELLED", "APPROVED",
             "EXECUTED", "FAILED"}

RootStates == {"IDLE", "NEEDS_INPUT", "READY", "PENDING_APPROVAL",
               "CANCELLED", "EXECUTED", "FAILED"}

Points == {"idle", "queue", "checked", "valid", "lead", "values", "store",
           "readback", "trail", "finish"}

\* The points at which a thread is inside the try block of approve_action.
Executing == {"lead", "values", "store", "readback", "trail", "finish"}

VARIABLES
    status,    \* ActionRecord.status; "NONE" before the record exists
    kind,      \* the plan family of each record
    active,    \* AgentCore._active_action_id
    root,      \* AgentCore._root_workflow_status: state and action_id
    fresh,     \* actions whose preview still describes the console's show
    ready,     \* AgentRuntime.ready
    prog,      \* actions whose values are active in the MA2 programmer
    content,   \* content[i][p]: whose values the p-th target of i holds
    pc,        \* where each thread is in approve_action or _queue_workflow
    cur,       \* the action it approves, or is to cancel for a new one
    phase,     \* the round of the plan it executes
    failed     \* whether its execution has raised

registry == <<status, kind, active, root>>
console  == <<fresh, ready, prog, content>>
thread   == <<pc, cur, phase, failed>>
vars     == <<registry, console, thread>>

TypeOK ==
    /\ status  \in [Ids -> Statuses]
    /\ kind    \in [Ids -> AllKinds]
    /\ active  \in Ids \cup {NoId}
    /\ root    \in [state : RootStates, id : Ids \cup {NoId}]
    /\ fresh   \in SUBSET Ids
    /\ ready   \in BOOLEAN
    /\ prog    \in SUBSET Ids
    /\ content \in [Ids -> [1..Phases -> SUBSET Ids]]
    /\ pc      \in [Threads -> Points]
    /\ cur     \in [Threads -> Ids \cup {NoId}]
    /\ phase   \in [Threads -> 1..Phases]
    /\ failed  \in [Threads -> BOOLEAN]

Init ==
    /\ status  = [i \in Ids |-> "NONE"]
    /\ kind    \in [Ids -> Kinds]
    /\ active  = NoId
    /\ root    = [state |-> "IDLE", id |-> NoId]
    /\ fresh   = {}
    /\ ready   = FALSE
    /\ prog    = {}
    /\ content = [i \in Ids |-> [p \in 1..Phases |-> {}]]
    /\ pc      = [t \in Threads |-> "idle"]
    /\ cur     = [t \in Threads |-> NoId]
    /\ phase   = [t \in Threads |-> 1]
    /\ failed  = [t \in Threads |-> FALSE]

-----------------------------------------------------------------------------
(* Registration: the calls that create, supersede or withdraw a record.     *)

\* The new record i takes the place of the active one; those displaced are
\* CANCELLED.
Register(i, displaced) ==
    /\ status[i] = "NONE"
    /\ status' = [j \in Ids |->
                    CASE j = i -> "PENDING_APPROVAL"
                      [] j # i /\ j \in displaced -> "CANCELLED"
                      [] OTHER -> status[j]]
    /\ active' = i
    /\ fresh' \in {fresh, fresh \cup {i}}   \* the show may move while it plans

\* handle_request and _queue_workflow look for a predecessor that is pending.
QueueWorkflow(t) ==
    /\ pc[t] = "idle"
    /\ \E i \in Ids : status[i] = "NONE" /\ kind[i] \notin ShowProgram
    /\ pc'  = [pc EXCEPT ![t] = "queue"]
    /\ cur' = [cur EXCEPT ![t] =
                 IF active # NoId /\ status[active] = "PENDING_APPROVAL" THEN active ELSE NoId]
    /\ UNCHANGED <<registry, console, phase, failed>>

\* They cancel it, whatever it has become, and register their own record, which
\* a position preview method also puts on the root status.
Queued(t, i) ==
    /\ pc[t] = "queue"
    /\ kind[i] \notin ShowProgram
    /\ Register(i, {cur[t]})
    /\ root' = IF kind[i] \in RootTracked THEN [state |-> "READY", id |-> i] ELSE root
    /\ pc'  = [pc EXCEPT ![t] = "idle"]
    /\ cur' = [cur EXCEPT ![t] = NoId]
    /\ UNCHANGED <<kind, ready, prog, content, phase, failed>>

\* program_show_request with an executable child.  The predecessor is
\* cancelled whatever its status, also while another thread executes it.
ProgramShowRequest(t, i) ==
    /\ pc[t] = "idle"
    /\ kind[i] \in ShowProgram
    /\ Register(i, {active})
    /\ root' = [state |-> "PENDING_APPROVAL", id |-> i]
    /\ UNCHANGED <<kind, ready, prog, content, thread>>

\* program_show_request without one: only the root status changes.
ProgramShowBlocked(t) ==
    /\ pc[t] = "idle"
    /\ root' = [state |-> "NEEDS_INPUT", id |-> NoId]
    /\ UNCHANGED <<status, kind, active, console, thread>>

\* Mutant: the status guard is dropped.
CancelAnything(t, i) ==
    /\ pc[t] = "idle"
    /\ status[i] # "NONE"
    /\ status' = [status EXCEPT ![i] = "CANCELLED"]
    /\ active' = IF active = i THEN NoId ELSE active
    /\ root' = IF kind[i] \in CancelTracked THEN [state |-> "CANCELLED", id |-> i] ELSE root
    /\ UNCHANGED <<kind, console, thread>>

CancelAction(t, i) ==
    /\ pc[t] = "idle"
    /\ status[i] = "PENDING_APPROVAL"
    /\ status' = [status EXCEPT ![i] = "CANCELLED"]
    /\ active' = IF active = i THEN NoId ELSE active
    /\ root' = IF kind[i] \in CancelTracked THEN [state |-> "CANCELLED", id |-> i] ELSE root
    /\ UNCHANGED <<kind, console, thread>>

-----------------------------------------------------------------------------
(* approve_action, up to the assignment of APPROVED.                        *)

\* The guards: pending, active, MA2 READY.
ApproveAction(t, i) ==
    /\ pc[t] = "idle"
    /\ status[i] = "PENDING_APPROVAL"
    /\ active = i
    /\ ready
    /\ pc'  = [pc EXCEPT ![t] = "checked"]
    /\ cur' = [cur EXCEPT ![t] = i]
    /\ UNCHANGED <<registry, console, phase, failed>>

\* The fresh reads of _ensure_..._state_unchanged agree with the preview.
Revalidate(t) ==
    /\ pc[t] = "checked"
    /\ kind[cur[t]] \in Revalidated => ready /\ cur[t] \in fresh
    /\ pc' = [pc EXCEPT ![t] = "valid"]
    /\ UNCHANGED <<registry, console, cur, phase, failed>>

\* They disagree or cannot be made: approve_action raises, the record is
\* still PENDING_APPROVAL.
RejectStale(t) ==
    /\ pc[t] = "checked"
    /\ kind[cur[t]] \in Revalidated
    /\ pc'  = [pc EXCEPT ![t] = "idle"]
    /\ cur' = [cur EXCEPT ![t] = NoId]
    /\ UNCHANGED <<registry, console, phase, failed>>

\* Mutant: the plan is executed without the assignment.
MarkNothing(t) ==
    /\ pc[t] = "valid"
    /\ pc' = [pc EXCEPT ![t] = IF kind[cur[t]] \in Direct THEN "store" ELSE "lead"]
    /\ UNCHANGED <<registry, console, cur, phase, failed>>

\* action.status = "APPROVED", with no second look at status or active.
MarkApproved(t) ==
    /\ pc[t] = "valid"
    /\ status' = [status EXCEPT ![cur[t]] = "APPROVED"]
    /\ pc' = [pc EXCEPT ![t] = IF kind[cur[t]] \in Direct THEN "store" ELSE "lead"]
    /\ UNCHANGED <<kind, active, root, console, cur, phase, failed>>

-----------------------------------------------------------------------------
(* The executors.  A console command is applied or lost, and the text drained *)
(* as its response reads as an error or not: a late or foreign line may be    *)
(* taken for its own, so the two are independent.                             *)

\* Go on to point next.  Only the guarded executors look at the response.
Advance(t, next, error) ==
    LET stops == error /\ kind[cur[t]] \in Guarded
    IN /\ pc'     = [pc EXCEPT ![t] = IF stops THEN "trail" ELSE next]
       /\ failed' = [failed EXCEPT ![t] = @ \/ stops]

\* Mutant: a lost connection returns from approve_action with no conclusion.
RefusedSilently(t) ==
    /\ ready'  = FALSE
    /\ failed' = [failed EXCEPT ![t] = TRUE]
    /\ pc'     = [pc EXCEPT ![t] = "idle"]

\* MA2 is not READY, or the socket breaks on this command and is closed.
Refused(t) ==
    /\ ready'  = FALSE
    /\ failed' = [failed EXCEPT ![t] = TRUE]
    /\ pc'     = [pc EXCEPT ![t] = IF kind[cur[t]] \in Guarded THEN "trail" ELSE "finish"]

LeadClear(t) ==
    /\ pc[t] = "lead"
    /\ \/ /\ ready
          /\ prog' \in {prog, {}}
          /\ \E error \in BOOLEAN : Advance(t, "values", error)
          /\ UNCHANGED ready
       \/ Refused(t) /\ UNCHANGED prog
    /\ UNCHANGED <<registry, fresh, content, cur, phase>>

\* Select the fixtures and give them values.
SetValues(t) ==
    /\ pc[t] = "values"
    /\ \/ /\ ready
          /\ prog' \in {prog, prog \cup {cur[t]}}
          /\ \E error \in BOOLEAN : Advance(t, "store", error)
          /\ UNCHANGED ready
       \/ Refused(t) /\ UNCHANGED prog
    /\ UNCHANGED <<registry, fresh, content, cur, phase>>

NextRound(p) == IF p < Phases THEN p + 1 ELSE p

\* The point after the store of round phase[t]: the next round, or what follows
\* the last one.
AfterStore(t) ==
    CASE phase[t] < Phases /\ kind[cur[t]] \in Direct    -> "store"
      [] phase[t] < Phases /\ kind[cur[t]] \notin Direct -> "lead"
      [] phase[t] = Phases /\ kind[cur[t]] \in Guarded \cup Direct -> "readback"
      [] OTHER -> "trail"

\* Store ... /merge takes whatever the programmer holds; a direct command
\* (Clone, a Timecode offset) names its values itself.
Stored(i) == IF kind[i] \in Direct THEN {i} ELSE prog

Store(t) ==
    /\ pc[t] = "store"
    /\ \/ /\ ready
          /\ \/ /\ content' = [content EXCEPT ![cur[t]][phase[t]] = @ \cup Stored(cur[t])]
                /\ fresh' \in SUBSET fresh
             \/ UNCHANGED <<content, fresh>>
          /\ \E error \in BOOLEAN : Advance(t, AfterStore(t), error)
          /\ phase' = [phase EXCEPT ![t] = NextRound(@)]
          /\ UNCHANGED ready
       \/ Refused(t) /\ UNCHANGED <<fresh, content, phase>>
    /\ UNCHANGED <<registry, prog, cur>>

\* Mutant: an export that shows any values counts as a match.
ContentPresent(i) == \A p \in 1..Phases : content[i][p] # {}

\* Mutant: the protected content is not compared.
ContentIncludes(i) == kind[i] \in OwnReadback => \A p \in 1..Phases : i \in content[i][p]

\* What the verifiers compare in the native Sequence Export.
ContentMatches(i) ==
    \A p \in 1..Phases :
        /\ content[i][p] # {}
        /\ kind[i] \in OwnReadback => i \in content[i][p]
        /\ kind[i] \in ProtectedReadback => content[i][p] = {i}

Readback(t) ==
    /\ pc[t] = "readback"
    /\ \/ /\ kind[cur[t]] \in NativeReadback => ready /\ ContentMatches(cur[t])
          /\ UNCHANGED failed
       \/ failed' = [failed EXCEPT ![t] = TRUE]
    /\ pc' = [pc EXCEPT ![t] = IF kind[cur[t]] \in Guarded THEN "trail" ELSE "finish"]
    /\ UNCHANGED <<registry, console, cur, phase>>

\* The last ClearAll: in the finally block of a guarded executor, where its
\* errors are logged and swallowed, or the last command of a plain batch.
TrailClear(t) ==
    /\ pc[t] = "trail"
    /\ \/ /\ ready
          /\ prog' \in {prog, {}}
          /\ pc' = [pc EXCEPT ![t] = IF kind[cur[t]] \in Guarded THEN "finish" ELSE "readback"]
          /\ UNCHANGED <<ready, failed>>
       \/ /\ ready' = FALSE
          /\ failed' = [failed EXCEPT ![t] = @ \/ kind[cur[t]] \notin Guarded]
          /\ pc' = [pc EXCEPT ![t] = "finish"]
          /\ UNCHANGED prog
    /\ UNCHANGED <<registry, fresh, content, cur, phase>>

\* Mutant: the active id is not cleared.
ConcludeStillActive(i, outcome) ==
    /\ status' = [status EXCEPT ![i] = outcome]
    /\ active' = active
    /\ root'   = IF kind[i] \in ShowProgram \cup RootTracked
                 THEN [state |-> outcome, id |-> i] ELSE root

\* Mutant: the root status reports success whatever the outcome.
ConcludeOptimistic(i, outcome) ==
    /\ status' = [status EXCEPT ![i] = outcome]
    /\ active' = NoId
    /\ root'   = IF kind[i] \in ShowProgram \cup RootTracked
                 THEN [state |-> "EXECUTED", id |-> i] ELSE root

\* The two tails of approve_action: the outcome is recorded, _active_action_id
\* is cleared whichever action it names, and the root status follows.
Conclude(i, outcome) ==
    /\ status' = [status EXCEPT ![i] = outcome]
    /\ active' = NoId
    /\ root'   = IF kind[i] \in ShowProgram \cup RootTracked
                 THEN [state |-> outcome, id |-> i] ELSE root

Finish(t) ==
    /\ pc[t] = "finish"
    /\ Conclude(cur[t], IF failed[t] THEN "FAILED" ELSE "EXECUTED")
    /\ pc'     = [pc EXCEPT ![t] = "idle"]
    /\ cur'    = [cur EXCEPT ![t] = NoId]
    /\ phase'  = [phase EXCEPT ![t] = 1]
    /\ failed' = [failed EXCEPT ![t] = FALSE]
    /\ UNCHANGED <<kind, console>>

-----------------------------------------------------------------------------
(* The console and its connection.                                          *)

Connect == ~ready /\ ready' = TRUE /\ UNCHANGED <<registry, fresh, prog, content, thread>>

Disconnect == ready /\ ready' = FALSE /\ UNCHANGED <<registry, fresh, prog, content, thread>>

\* Somebody edits the show at the console: some previews describe it no more.
Drift ==
    /\ fresh # {}
    /\ fresh' \in SUBSET fresh
    /\ UNCHANGED <<registry, ready, prog, content, thread>>

-----------------------------------------------------------------------------

Step(t) ==
    \/ Revalidate(t) \/ RejectStale(t) \/ MarkApproved(t)
    \/ LeadClear(t) \/ SetValues(t) \/ Store(t)
    \/ Readback(t) \/ TrailClear(t) \/ Finish(t)

Call(t) ==
    \/ ProgramShowBlocked(t)
    \/ QueueWorkflow(t)
    \/ \E i \in Ids : \/ Queued(t, i)
                      \/ ProgramShowRequest(t, i)
                      \/ CancelAction(t, i)
                      \/ ApproveAction(t, i)

Next ==
    \/ \E t \in Threads : Step(t) \/ Call(t)
    \/ Connect \/ Disconnect \/ Drift

\* A thread inside approve_action is scheduled, and each exchange with the
\* console ends: reads, exports and sends all carry a timeout.
Spec == Init /\ [][Next]_vars /\ \A t \in Threads : WF_vars(Step(t))

-----------------------------------------------------------------------------
(* What holds however many threads call AgentCore.                          *)

\* Nothing an action would store reaches the show before a human approved it:
\* a record that is still absent or PENDING_APPROVAL has written nothing.
NoWriteBeforeApproval ==
    \A i \in Ids : status[i] \in {"NONE", "PENDING_APPROVAL"} =>
        \A p \in 1..Phases : content[i][p] = {}

\* EXECUTED is only said of a plan whose every target was read back with the
\* plan's own values, although single commands may be lost without an error.
ExecutedIsOnTheShow ==
    \A i \in Ids : status[i] = "EXECUTED" /\ kind[i] \in OwnReadback =>
        \A p \in 1..Phases : i \in content[i][p]

\* No action stays APPROVED for ever: a thread is at work that will conclude it.
ApprovedHasExecutor ==
    \A i \in Ids : status[i] = "APPROVED" =>
        \E t \in Threads : cur[t] = i /\ pc[t] \in Executing

\* The same as a promise: an APPROVED action becomes EXECUTED or FAILED, also
\* when the connection drops or its record is displaced meanwhile.
ApprovedConcludes ==
    \A i \in Ids : status[i] = "APPROVED" ~> status[i] \in {"EXECUTED", "FAILED"}

-----------------------------------------------------------------------------
(* What holds only while the calls of AgentCore are made one at a time.     *)

\* The active action is the one open action, so every pending preview can be
\* approved and no other can.
ActiveIsTheOpenAction ==
    \A i \in Ids : active = i <=> status[i] \in {"PENDING_APPROVAL", "APPROVED"}

\* Where the rest of the cue is protected, an EXECUTED plan left nothing else
\* in it: no values an earlier, failed plan had left in the programmer.
ExecutedExactly ==
    \A i \in Ids : status[i] = "EXECUTED" /\ kind[i] \in ProtectedReadback =>
        \A p \in 1..Phases : content[i][p] = {i}

\* An outcome on the root status is the outcome of the action it names.
RootOutcome ==
    root.state \in {"CANCELLED", "EXECUTED", "FAILED"} =>
        root.id \in Ids /\ status[root.id] = root.state

\* One approval, one execution: no two threads execute the same plan.
OneExecutor ==
    \A s, t \in Threads : s # t /\ pc[s] \in Executing /\ pc[t] \in Executing => cur[s] # cur[t]

=============================================================================
