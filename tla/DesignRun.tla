------------------------------- MODULE DesignRun -------------------------------
(***************************************************************************)
(* run_multi_agent_design (llm/multi_agent_runtime.py): roles are asked    *)
(* one after another, each is given the artifacts of roles before it, and  *)
(* each valid artifact is a checkpoint in the directory of the run.  The   *)
(* process may stop anywhere; a later call with the same run id goes on    *)
(* from the checkpoints it finds.  Files are written in place, so a stop   *)
(* in the middle of a write leaves a torn file.                            *)
(***************************************************************************)
EXTENDS Naturals, Sequences, FiniteSets, SequencesExt

CONSTANTS
    Requests,     \* bound: request texts
    Contexts,     \* bound: designer contexts, [show, text]
    NoShow,       \* the show of a context without a live snapshot
    Gone, Torn,   \* a file that is not there, one that cannot be read
    MaxCalls,     \* bound: calls with this run id
    MaxStops,     \* bound: how often the process stops
    MaxAttempts,  \* of a role
    Restarts,     \* the values restart_run may take
    Faults        \* where a stop may happen: within a "write", an "archive"

ROLE_SEQUENCE == <<"researcher", "lighting_designer", "critic", "finalizer">>
LIVE_SHOW_ROLE_SEQUENCE ==
    <<"researcher", "rig_designer", "position_designer", "lighting_designer",
      "critic", "finalizer">>

Roles == ToSet(LIVE_SHOW_ROLE_SEQUENCE)
Files == Roles \cup {"run", "source", "final", "review"}

RunStates ==
    [request: Requests, context: Contexts, status: {"RUNNING", "FAILED", "COMPLETE"}]

\* The answer of a role: the number of the call that asked it, for what, and
\* the numbers of the artifacts it was shown; 0 is no artifact.
Artifacts ==
    [call: 1..MaxCalls, request: Requests, context: Contexts,
     basis: [Roles -> 0..MaxCalls]]

\* What a file holds is neither of the marks for one that holds nothing.
DesignRunAssumption ==
    /\ MaxCalls \in Nat /\ MaxStops \in Nat /\ MaxAttempts \in Nat \ {0}
    /\ Restarts \subseteq BOOLEAN /\ Faults \subseteq {"write", "archive"}
    /\ Gone # Torn
    /\ \A mark \in {Gone, Torn} :
          /\ mark \notin Requests /\ mark \notin 1..MaxCalls
          /\ mark \notin RunStates /\ mark \notin Artifacts

VARIABLES
    disk,     \* the run directory: what each file holds
    pc,       \* where the call is
    in,       \* its request and context
    call,     \* its number
    role,     \* the role being asked
    attempt,  \* of that role
    result,   \* the design the last call returned
    stops,    \* of the process, and history: what they fell into since the
    spoiled   \*   run was last started afresh

vars == <<disk, pc, in, call, role, attempt, result, stops, spoiled>>

Live      == in.context.show # NoShow
RoleOrder == IF Live THEN LIVE_SHOW_ROLE_SEQUENCE ELSE ROLE_SEQUENCE

\* The artifacts whose role is asked with those of others (_role_context).
Needs(r) ==
    CASE r = "researcher"        -> {}
      [] r = "rig_designer"      -> {"researcher"}
      [] r = "position_designer" -> {"researcher", "rig_designer"}
      [] r = "lighting_designer" -> IF Live THEN {"researcher", "rig_designer", "position_designer"}
                                            ELSE {"researcher"}
      [] r = "critic"            -> ToSet(RoleOrder) \ {"critic", "finalizer"}
      [] OTHER                   -> ToSet(RoleOrder) \ {"finalizer"}

Readable(f) == disk[f] \notin {Gone, Torn}

\* What a role answers now: whose call it was, for what, and from which
\* upstream artifacts.
Artifact(r) ==
    [call |-> call, request |-> in.request, context |-> in.context,
     basis |-> [u \in Roles |-> IF u \in Needs(r) THEN disk[u].call ELSE 0]]

RunState(status) ==
    [request |-> in.request, context |-> in.context, status |-> status]

TypeOK ==
    /\ DOMAIN disk = Files
    /\ disk["run"] \in {Gone, Torn} \cup RunStates
    /\ disk["source"] \in {Gone, Torn} \cup Requests
    /\ \A f \in Roles \cup {"final"} : disk[f] \in {Gone, Torn} \cup Artifacts
    /\ disk["review"] \in {Gone, Torn} \cup 1..MaxCalls
    /\ pc \in {"idle", "archive", "open", "write_source", "check", "write_run",
               "role", "attempt", "write_step", "log", "finish", "write_final",
               "write_review", "write_finalizer", "complete", "failed",
               "returned", "refused", "raised"}
    /\ in \in [request: Requests, context: Contexts]
    /\ call \in 0..MaxCalls /\ role \in Roles
    /\ attempt \in 1..MaxAttempts /\ stops \in 0..MaxStops
    /\ result \in {Gone} \cup Artifacts
    /\ spoiled \subseteq {"write", "archive"}

Init ==
    /\ disk = [f \in Files |-> Gone]
    /\ pc = "idle" /\ call = 0 /\ role = "researcher" /\ attempt = 1
    /\ in \in [request: Requests, context: Contexts]
    /\ result = Gone /\ stops = 0 /\ spoiled = {}

Over == pc \in {"idle", "returned", "refused", "raised"}

Goto(where) == pc' = where
Write(f, what, next) ==
    /\ disk' = [disk EXCEPT ![f] = what]
    /\ Goto(next)
    /\ UNCHANGED <<in, call, role, attempt, result, stops, spoiled>>

-----------------------------------------------------------------------------
(* Opening the run.                                                         *)

Start ==
    /\ Over /\ call < MaxCalls
    /\ call' = call + 1
    /\ in' \in [request: Requests, context: Contexts]
    /\ \E restart \in Restarts : Goto(IF restart THEN "archive" ELSE "open")
    /\ result' = Gone /\ role' = "researcher" /\ attempt' = 1
    /\ UNCHANGED <<disk, stops, spoiled>>

\* _archive_for_restart moves what there is, in this order.
Moves == <<{"run"}, {"source"}, Roles, {"final"}>>

ArchiveNext ==
    LET left == {n \in DOMAIN Moves : \E f \in Moves[n] : disk[f] # Gone} IN
    /\ pc = "archive"
    /\ IF left = {}
       THEN Goto("open") /\ spoiled' = {} /\ UNCHANGED disk
       ELSE /\ disk' = [f \in Files |-> IF f \in Moves[Min(left)] THEN Gone ELSE disk[f]]
            /\ UNCHANGED <<pc, spoiled>>
    /\ UNCHANGED <<in, call, role, attempt, result, stops>>

\* Mutant: the text of the request is not compared.
OpenUnverified ==
    /\ pc = "open"
    /\ Goto(CASE Readable("source") -> "check"
              [] disk["source"] = Torn -> "refused"
              [] OTHER -> "write_source")
    /\ UNCHANGED <<disk, in, call, role, attempt, result, stops, spoiled>>

\* Mutant: a run without its state is refused.
OpenStrict ==
    /\ pc = "open"
    /\ Goto(CASE disk["source"] = Gone -> "write_source"
              [] Readable("run") /\ disk["run"].request = in.request -> "check"
              [] OTHER -> "refused")
    /\ UNCHANGED <<disk, in, call, role, attempt, result, stops, spoiled>>

\* The request must be the one of the run.
Open ==
    /\ pc = "open"
    /\ LET known == Readable("run") => disk["run"].request = in.request IN
       Goto(CASE disk["source"] # Gone ->
                    IF known /\ disk["source"] = in.request THEN "check" ELSE "refused"
              [] disk["source"] = Gone /\ Readable("run") ->
                    IF known THEN "check" ELSE "refused"
              [] OTHER -> "write_source")
    /\ UNCHANGED <<disk, in, call, role, attempt, result, stops, spoiled>>

WriteSource == pc = "write_source" /\ Write("source", in.request, "check")

Checkpoints == {r \in Roles : disk[r] # Gone}

\* Checkpoints that this call may not go on from.
Mixed ==
    Readable("run") /\ Checkpoints # {} /\ disk["run"].context # in.context

NotPrefix ==
    \/ ~(Checkpoints \subseteq ToSet(RoleOrder))
    \/ \E i, j \in DOMAIN RoleOrder :
          i < j /\ RoleOrder[i] \notin Checkpoints /\ RoleOrder[j] \in Checkpoints

Unreadable == \E r \in Checkpoints : disk[r] = Torn

OtherShow == \E r \in Checkpoints : disk[r].context.show # in.context.show

\* validate_final_spatial_consistency: the design refers to this position artifact.
Consistent(design) ==
    Live => design.basis["position_designer"] = disk["position_designer"].call

\* Refuse, return the design of a finished run, or go on.  Nothing reads the
\* snapshot of the live show that every call, a refused one too, writes first
\* (normalized_current_show_snapshot.json): it is left out.
Check ==
    /\ pc = "check"
    /\ IF Unreadable \/ Mixed \/ NotPrefix \/ OtherShow
       THEN Goto("refused") /\ UNCHANGED result
       ELSE IF Checkpoints = ToSet(RoleOrder) /\ Readable("final")
            THEN IF Consistent(disk["final"])
                 THEN Goto("returned") /\ result' = disk["final"]
                 ELSE Goto("refused") /\ UNCHANGED result
            ELSE Goto("write_run") /\ UNCHANGED result
    /\ UNCHANGED <<disk, in, call, role, attempt, stops, spoiled>>

WriteRun == pc = "write_run" /\ Write("run", RunState("RUNNING"), "role")

-----------------------------------------------------------------------------
(* The roles.                                                               *)

Todo  == {i \in DOMAIN RoleOrder : disk[RoleOrder[i]] = Gone}
First == RoleOrder[Min(Todo)]

\* Mutant: every role is asked again.
NextRoleAnew ==
    /\ pc = "role"
    /\ \E r \in ToSet(RoleOrder) :
          /\ \A s \in ToSet(SubSeq(RoleOrder, 1, SelectInSeq(RoleOrder, LAMBDA x : x = r) - 1)) :
                Readable(s) /\ disk[s].call = call
          /\ ~(Readable(r) /\ disk[r].call = call)
          /\ role' = r
    /\ attempt' = 1 /\ Goto("attempt")
    /\ UNCHANGED <<disk, in, call, result, stops, spoiled>>

NextRole ==
    /\ pc = "role"
    /\ IF Todo = {} THEN Goto("finish") /\ UNCHANGED <<role, attempt>>
       ELSE role' = First /\ attempt' = 1 /\ Goto("attempt")
    /\ UNCHANGED <<disk, in, call, result, stops, spoiled>>

\* Designer and critic may be asked of several providers at once: the first
\* valid candidate is taken, and with none the role is asked as any other.
Candidates ==
    /\ pc = "role" /\ Todo # {}
    /\ First \in {"lighting_designer", "critic"}
    /\ role' = First /\ attempt' = 1 /\ Goto("write_step")
    /\ UNCHANGED <<disk, in, call, result, stops, spoiled>>

\* An answer that passes validation.
Accept ==
    /\ pc = "attempt" /\ attempt' = 1 /\ Goto("write_step")
    /\ UNCHANGED <<disk, in, call, role, result, stops, spoiled>>

\* Mutant: the attempts start over.
RejectForever ==
    /\ pc = "attempt"
    /\ attempt' = (attempt % MaxAttempts) + 1
    /\ UNCHANGED <<disk, pc, in, call, role, result, stops, spoiled>>

\* Validation or every provider refuses: the role is asked again, but not
\* after a timeout, nor more often than allowed.
Reject ==
    /\ pc = "attempt"
    /\ \/ attempt < MaxAttempts /\ attempt' = attempt + 1 /\ UNCHANGED pc
       \/ Goto("failed") /\ attempt' = 1
    /\ UNCHANGED <<disk, in, call, role, result, stops, spoiled>>

\* An exception that nothing here expects.
Break ==
    /\ pc = "attempt" /\ Goto("raised")
    /\ UNCHANGED <<disk, in, call, role, attempt, result, stops, spoiled>>

\* The accepted answer holds the key of its provider.
Leaks ==
    /\ pc = "write_step" /\ Goto("failed")
    /\ UNCHANGED <<disk, in, call, role, attempt, result, stops, spoiled>>

WriteStep == pc = "write_step" /\ Write(role, Artifact(role), "log")

Log == pc = "log" /\ Write("run", RunState("RUNNING"), "role")

\* The state says FAILED, and failure.json why.
Fail == pc = "failed" /\ Write("run", RunState("FAILED"), "raised")

-----------------------------------------------------------------------------
(* The end of a run.                                                        *)

Finish ==
    /\ pc = "finish"
    /\ Goto(IF Consistent(disk["finalizer"]) THEN "write_final" ELSE "failed")
    /\ UNCHANGED <<disk, in, call, role, attempt, result, stops, spoiled>>

WriteFinal == pc = "write_final" /\ Write("final", disk["finalizer"], "write_review")

WriteReview ==
    /\ pc = "write_review"
    /\ Write("review", disk["critic"].call, IF Live THEN "write_finalizer" ELSE "complete")

\* The review state is added to the finalizer's checkpoint, in place.
WriteFinalizer ==
    pc = "write_finalizer" /\ Write("finalizer", disk["finalizer"], "complete")

Complete ==
    /\ pc = "complete"
    /\ disk' = [disk EXCEPT !["run"] = RunState("COMPLETE")]
    /\ result' = disk["finalizer"] /\ Goto("returned")
    /\ UNCHANGED <<in, call, role, attempt, stops, spoiled>>

-----------------------------------------------------------------------------
(* The process stops: between two writes, or within one.                    *)

Target ==
    CASE pc = "write_source"  -> "source"
      [] pc \in {"write_run", "log", "complete", "failed"} -> "run"
      [] pc = "write_step"      -> role
      [] pc = "write_final"     -> "final"
      [] pc = "write_review"    -> "review"
      [] pc = "write_finalizer" -> "finalizer"
      [] OTHER                  -> "none"

Stop ==
    /\ ~Over /\ stops < MaxStops
    /\ stops' = stops + 1 /\ Goto("idle")
    /\ \/ /\ UNCHANGED disk
          /\ IF pc = "archive" THEN "archive" \in Faults /\ spoiled' = spoiled \cup {"archive"}
                               ELSE UNCHANGED spoiled
       \/ /\ "write" \in Faults /\ Target # "none"
          /\ disk' = [disk EXCEPT ![Target] = Torn]
          /\ spoiled' = spoiled \cup {"write"}
    /\ UNCHANGED <<in, call, role, attempt, result>>

Step ==
    \/ ArchiveNext \/ Open \/ WriteSource \/ Check \/ WriteRun
    \/ NextRole \/ Candidates \/ Accept \/ Reject \/ Break
    \/ Leaks \/ WriteStep \/ Log \/ Fail
    \/ Finish \/ WriteFinal \/ WriteReview \/ WriteFinalizer \/ Complete

Next == Start \/ Step \/ Stop \/ (Over /\ UNCHANGED vars)

(* A call that was started goes on until it ends or the process stops.      *)
Spec == Init /\ [][Next]_vars /\ WF_vars(Step)

-----------------------------------------------------------------------------
Whole == {r \in Roles : Readable(r)}

(* The checkpoints of a run all answer the one request whose text it keeps, *)
(* whoever called with which request and wherever the process stopped but   *)
(* within a restart.                                                        *)
OneRequest ==
    "archive" \notin spoiled =>
       \A r \in Whole : Readable("source") => disk[r].request = disk["source"]

(* A checkpoint was made from the very artifacts that now stand beside it, *)
(* and no checkpoint stands without those it was made from.                *)
BuiltOnUpstream ==
    \A r \in Whole : \A u \in Roles : disk[r].basis[u] # 0 =>
       disk[u] # Gone /\ (Readable(u) => disk[u].call = disk[r].basis[u])

(* Runtime notes: existing completed artifacts are never overwritten,       *)
(* except by the explicit restart, which moves them away first.             *)
KeepsCheckpoints ==
    \A r \in Whole : pc # "archive" => disk'[r] \in {disk[r], Torn}

(* The design a call returns is the finalizer's artifact for its request.   *)
ReturnsOwn ==
    pc = "returned" /\ "archive" \notin spoiled =>
       result = disk["finalizer"] /\ result.request = in.request

(* What is collected as a completed run is one: every checkpoint, the      *)
(* design of its finalizer, and the review of its critic.                  *)
CompleteIsWhole ==
    Readable("run") /\ disk["run"].status = "COMPLETE" =>
       /\ \A r \in {"researcher", "lighting_designer", "critic", "finalizer"} : Readable(r)
       /\ disk["final"] = disk["finalizer"]
       /\ disk["review"] = disk["critic"].call

(* Runtime notes: a resume fails closed if the designer context has         *)
(* changed, so a run's checkpoints share one.  A stop within a write may    *)
(* take the record of the context away, one within a restart does.          *)
OneContext ==
    spoiled = {} => \A r, s \in Whole : disk[r].context = disk[s].context

(* The call has the request and the context the run is known by.            *)
SameInputs ==
    /\ disk["source"] \in {Gone, in.request}
    /\ Readable("run") => /\ disk["run"].request = in.request
                          /\ disk["run"].context = in.context

(* Design plan: an interrupted run can be resumed.  A call with the inputs  *)
(* of the run is not refused, wherever the process stopped between writes.  *)
Resumes == pc = "refused" /\ SameInputs => spoiled # {}

(* The same wherever it stopped.  It does not hold.                         *)
AlwaysResumes == pc = "refused" => ~SameInputs

(* A call is under way: it ends, unless the process stops.                  *)
UnderWay == ~Over
=============================================================================
