------------------------------ MODULE RevisionLoop ------------------------------
(***************************************************************************)
(* run_spatial_revision_loop (llm/multi_agent_runtime.py): the owner sends *)
(* a finished live design back, and in one or two cycles the rig, position *)
(* and lighting designers and the critic make their artifacts again, until *)
(* the critic blocks no longer.  The finalizer then sums up the latest     *)
(* ones, and revision_run.json records the whole.  The critic is first     *)
(* asked with the picture of the stage, if there is one, and without it    *)
(* when no provider can read pictures.                                     *)
(***************************************************************************)
EXTENDS Naturals, Sequences, FiniteSets, SequencesExt

CONSTANTS
    Ids,           \* bound: revision directories
    Gone, Torn,    \* a file that is not there, one that cannot be read
    MaxCycles,     \* MAX_SPATIAL_REVISION_CYCLES
    MaxAttempts,   \* of a role
    MaxStops       \* bound: how often the process stops

RevisionAssumption ==
    MaxCycles \in Nat \ {0} /\ MaxAttempts \in Nat \ {0} /\ MaxStops \in Nat

revision_roles == <<"rig_designer", "position_designer", "lighting_designer", "critic">>
Revised == ToSet(revision_roles)

VARIABLES
    source,     \* the run to revise: its status, whether its critic blocks
    disk,       \* the revision directories
    pc,         \* where the call is
    in,         \* its arguments, and what its evidence is worth
    cycle,      \* the cycle under way
    role,       \* the role being asked
    look,       \* with the picture
    attempt,    \* of that role
    completed,  \* the accepted artifacts of the cycle before
    fresh,      \* those, and the ones this cycle made
    visual,     \* visual_critic_status
    review,     \* the review state
    final,      \* the finalizer's design
    stops       \* of the process

memory == <<in, cycle, role, look, attempt, completed, fresh, visual, review, final>>
vars   == <<source, disk, pc, memory, stops>>

Inputs ==
    [id: Ids, ready: BOOLEAN, brief: BOOLEAN, image: BOOLEAN, max: 1..MaxCycles]

\* An artifact: the cycle that made it, the cycles of what its role was shown
\* as the rig, position and lighting of now and of before, whether it saw the
\* picture and whether, as a critic, it blocks.
IsArtifact(a) ==
    /\ a.cycle \in 0..MaxCycles /\ a.previous \in 0..a.cycle
    /\ DOMAIN a.basis \subseteq Revised /\ \A u \in DOMAIN a.basis : a.basis[u] \in 0..a.cycle
    /\ a.image \in BOOLEAN /\ a.blocker \in BOOLEAN

Begun == [steps |-> {}, cycles |-> <<>>, final |-> Gone, record |-> Gone]

\* _role_context: what a role is shown of this cycle.
Needs(r) ==
    CASE r = "rig_designer"      -> {}
      [] r = "position_designer" -> {"rig_designer"}
      [] r = "lighting_designer" -> {"rig_designer", "position_designer"}
      [] r = "critic"            -> Revised \ {"critic"}
      [] OTHER                   -> Revised

\* The artifacts of the source run.
Given == [r \in Revised |->
    [cycle |-> 0, basis |-> [u \in Needs(r) |-> 0], previous |-> 0, image |-> FALSE,
     blocker |-> r = "critic" /\ source.blocker]]

TypeOK ==
    /\ source \in [complete: BOOLEAN, blocker: BOOLEAN]
    /\ pc \in {"idle", "begin", "cycle", "attempt", "write_step", "judge", "write_cycle",
               "write_finalizer", "write_final", "write_record",
               "returned", "refused", "raised"}
    /\ in \in Inputs /\ cycle \in 0..MaxCycles
    /\ role \in Revised \cup {"finalizer"} /\ look \in BOOLEAN
    /\ attempt \in 1..MaxAttempts /\ stops \in 0..MaxStops
    /\ DOMAIN completed = Revised /\ DOMAIN fresh = Revised
    /\ \A r \in Revised : IsArtifact(completed[r]) /\ IsArtifact(fresh[r])
    /\ visual \in {"UNAVAILABLE_FREE_PROVIDER", "PASS"}
    /\ review.status \in {"REVIEW_PASSED", "BLOCKED_BY_CRITIC", "BLOCKED_AFTER_REVISION_LIMIT"}
    /\ final # Gone => IsArtifact(final)
    /\ DOMAIN disk = Ids

ReviewState(critic, done, max) ==
    [status |-> CASE ~critic.blocker -> "REVIEW_PASSED"
                  [] critic.blocker /\ done < max -> "BLOCKED_BY_CRITIC"
                  [] OTHER -> "BLOCKED_AFTER_REVISION_LIMIT",
     cycles |-> done]

Init ==
    /\ source \in [complete: BOOLEAN, blocker: BOOLEAN]
    /\ disk = [i \in Ids |-> Gone]
    /\ pc = "idle" /\ stops = 0
    /\ in \in Inputs
    /\ cycle = 0 /\ role = "rig_designer" /\ look = FALSE /\ attempt = 1
    /\ completed = Given /\ fresh = Given
    /\ visual = "UNAVAILABLE_FREE_PROVIDER" /\ final = Gone
    /\ review = ReviewState(Given["critic"], 0, MaxCycles)

Over == pc \in {"idle", "returned", "refused", "raised"}

Goto(where) == pc' = where

-----------------------------------------------------------------------------
(* The gates.                                                               *)

\* The evidence is for this show, the run is finished, and there is a reason
\* to revise it: its critic blocks, or the owner says what to change.
Accepted(i) ==
    /\ i.ready /\ source.complete /\ (source.blocker \/ i.brief)
    /\ disk[i.id] = Gone

Start ==
    /\ Over
    /\ in' \in Inputs
    /\ Goto(IF Accepted(in') THEN "begin" ELSE "refused")
    /\ cycle' = 0 /\ role' = "rig_designer" /\ look' = FALSE /\ attempt' = 1
    /\ completed' = Given /\ fresh' = Given
    /\ visual' = "UNAVAILABLE_FREE_PROVIDER" /\ final' = Gone
    /\ review' = ReviewState(Given["critic"], 0, MaxCycles)
    /\ UNCHANGED <<source, disk, stops>>

Begin ==
    /\ pc = "begin" /\ Goto("cycle")
    /\ disk' = [disk EXCEPT ![in.id] = Begun]
    /\ UNCHANGED <<source, memory, stops>>

-----------------------------------------------------------------------------
(* A cycle.                                                                 *)

Ask(r) ==
    /\ role' = r /\ attempt' = 1
    /\ look' = (r = "critic" /\ in.image)

BeginCycle ==
    /\ pc = "cycle" /\ Goto("attempt")
    /\ cycle' = cycle + 1 /\ fresh' = completed
    /\ visual' = "UNAVAILABLE_FREE_PROVIDER"
    /\ Ask(Head(revision_roles))
    /\ UNCHANGED <<source, disk, in, completed, review, final, stops>>

Answer(blocks) ==
    [cycle |-> cycle, basis |-> [u \in Needs(role) |-> fresh[u].cycle],
     previous |-> completed["critic"].cycle, image |-> look, blocker |-> blocks]

\* An answer that passes validation.
Accept ==
    /\ pc = "attempt" /\ role # "finalizer" /\ Goto("write_step")
    /\ \E blocks \in BOOLEAN :
          /\ blocks => role = "critic"
          /\ fresh' = [fresh EXCEPT ![role] = Answer(blocks)]
    /\ visual' = IF look THEN "PASS" ELSE visual
    /\ UNCHANGED <<source, disk, in, cycle, role, look, attempt, completed, review, final, stops>>

AcceptFinal ==
    /\ pc = "attempt" /\ role = "finalizer" /\ Goto("write_finalizer")
    /\ final' = Answer(FALSE)
    /\ UNCHANGED <<source, disk, in, cycle, role, look, attempt, completed, fresh,
                   visual, review, stops>>

\* Asked again, but not after a timeout, nor more often than allowed.
Again ==
    /\ pc = "attempt" /\ attempt < MaxAttempts
    /\ attempt' = attempt + 1
    /\ UNCHANGED <<source, disk, pc, in, cycle, role, look, completed, fresh, visual,
                   review, final, stops>>

\* The role is given up: the critic is then asked without the picture.
GiveUp ==
    /\ pc = "attempt"
    /\ IF look THEN look' = FALSE /\ attempt' = 1 /\ UNCHANGED pc
               ELSE Goto("raised") /\ UNCHANGED <<look, attempt>>
    /\ UNCHANGED <<source, disk, in, cycle, role, completed, fresh, visual, review,
                   final, stops>>

\* An exception that nothing here expects, or an accepted answer that holds the
\* key of its provider.
Break ==
    /\ pc \in {"attempt", "write_step", "write_finalizer"} /\ Goto("raised")
    /\ UNCHANGED <<source, disk, memory, stops>>

\* The step says whether the picture was sent with the accepted answer.
WriteStep ==
    /\ pc = "write_step"
    /\ disk' = [disk EXCEPT ![in.id].steps = @ \cup
                  {[cycle |-> cycle, role |-> role, sent |-> look, status |-> visual]}]
    /\ IF role = "critic"
       THEN Goto("judge") /\ UNCHANGED <<role, look, attempt>>
       ELSE /\ Goto("attempt")
            /\ \E n \in 1..3 : role = revision_roles[n] /\ Ask(revision_roles[n + 1])
    /\ UNCHANGED <<source, in, cycle, completed, fresh, visual, review, final, stops>>

\* Mutant: what the cycle made is not kept.
JudgeKeeping ==
    /\ pc = "judge" /\ Goto("write_cycle")
    /\ review' = ReviewState(fresh["critic"], cycle, in.max)
    /\ UNCHANGED <<source, disk, in, cycle, role, look, attempt, completed, fresh,
                   visual, final, stops>>

Judge ==
    /\ pc = "judge" /\ Goto("write_cycle")
    /\ review' = ReviewState(fresh["critic"], cycle, in.max)
    /\ completed' = fresh
    /\ UNCHANGED <<source, disk, in, cycle, role, look, attempt, fresh, visual, final, stops>>

\* Another cycle, unless the review passed or this was the last.
WriteCycle ==
    /\ pc = "write_cycle"
    /\ disk' = [disk EXCEPT ![in.id].cycles = Append(@, [status |-> review.status, visual |-> visual])]
    /\ IF review.status = "REVIEW_PASSED" \/ cycle = in.max
       THEN Goto("attempt") /\ Ask("finalizer")
       ELSE Goto("cycle") /\ UNCHANGED <<role, look, attempt>>
    /\ UNCHANGED <<source, in, cycle, completed, fresh, visual, review, final, stops>>

-----------------------------------------------------------------------------
(* The end of a revision.                                                   *)

WriteFinalizer ==
    /\ pc = "write_finalizer" /\ Goto("write_final")
    /\ disk' = [disk EXCEPT ![in.id].steps = @ \cup
                  {[cycle |-> cycle, role |-> "finalizer", sent |-> FALSE, status |-> visual]}]
    /\ UNCHANGED <<source, memory, stops>>

WriteFinal ==
    /\ pc = "write_final" /\ Goto("write_record")
    /\ disk' = [disk EXCEPT ![in.id].final = final]
    /\ UNCHANGED <<source, memory, stops>>

\* revision_run.json
WriteRecord ==
    /\ pc = "write_record" /\ Goto("returned")
    /\ disk' = [disk EXCEPT ![in.id].record =
                  [latest |-> completed, review |-> review, final |-> final, visual |-> visual,
                   done |-> cycle, max |-> in.max]]
    /\ UNCHANGED <<source, memory, stops>>

\* The process stops, between two writes or within one of the last two files.
Stop ==
    /\ ~Over /\ stops < MaxStops
    /\ stops' = stops + 1 /\ Goto("idle")
    /\ \/ UNCHANGED disk
       \/ pc = "write_final"  /\ disk' = [disk EXCEPT ![in.id].final = Torn]
       \/ pc = "write_record" /\ disk' = [disk EXCEPT ![in.id].record = Torn]
    /\ UNCHANGED <<source, memory>>

Step ==
    \/ Begin \/ BeginCycle \/ Accept \/ AcceptFinal \/ Again \/ GiveUp \/ Break
    \/ WriteStep \/ Judge \/ WriteCycle
    \/ WriteFinalizer \/ WriteFinal \/ WriteRecord

Next == Start \/ Step \/ Stop

(* A call goes on until it ends or the process stops.                       *)
Spec == Init /\ [][Next]_vars /\ WF_vars(Step)

-----------------------------------------------------------------------------
Recorded == {i \in Ids : disk[i] # Gone /\ disk[i].record \notin {Gone, Torn}}

(* What a recorded revision calls its latest design is of one cycle, its    *)
(* last: the critic whose verdict is recorded was shown exactly that rig,   *)
(* position and lighting, and the final design was made from them and it.   *)
LatestJudged ==
    \A i \in Recorded :
       LET record == disk[i].record
           latest == record.latest
       IN  /\ \A r \in Revised : latest[r].cycle = record.done
           /\ \A r \in Needs("critic") : latest["critic"].basis[r] = latest[r].cycle
           /\ record.final.basis = [r \in Revised |-> latest[r].cycle]
           /\ record.review.cycles = record.done

(* Revision contract: a blocker is cleared by a later critic only.  The     *)
(* recorded review passed if and only if the last critic did not block,     *)
(* every cycle before it was blocked, and a design that is still blocked    *)
(* had all the cycles it was allowed.                                       *)
BlockerNotCleared ==
    \A i \in Recorded :
       LET record == disk[i].record
           passed(n) == disk[i].cycles[n].status = "REVIEW_PASSED"
       IN  /\ Len(disk[i].cycles) = record.done
           /\ (record.review.status = "REVIEW_PASSED") = ~record.latest["critic"].blocker
           /\ \A n \in 1 .. record.done - 1 : ~passed(n)
           /\ passed(record.done) \/ record.done = record.max

(* The fallback cannot claim that pixels were inspected: the record says    *)
(* PASS if and only if the accepted critic of the last cycle had the        *)
(* picture, and so does every step of a critic.                             *)
NoFalseVisual ==
    \A i \in Recorded :
       LET record == disk[i].record IN
       /\ (record.visual = "PASS") = record.latest["critic"].image
       /\ \A s \in disk[i].steps : s.role = "critic" => (s.status = "PASS") = s.sent
       /\ (record.visual = "PASS") =
             \E s \in disk[i].steps : s.role = "critic" /\ s.cycle = record.done /\ s.sent

(* A revision is recorded once, after all its steps, whatever calls with    *)
(* its id follow and wherever the process stopped.                          *)
RecordIsWhole ==
    \A i \in Recorded :
       /\ disk[i].final = disk[i].record.final
       /\ \A n \in 1 .. disk[i].record.done : \A r \in Revised :
             \E s \in disk[i].steps : s.cycle = n /\ s.role = r

(* Nothing overwrites the record of a revision: what an id holds only       *)
(* grows.                                                                   *)
RecordsStay ==
    \A i \in Ids : disk[i] # Gone =>
       /\ disk[i].steps \subseteq disk'[i].steps
       /\ IsPrefix(disk[i].cycles, disk'[i].cycles)
       /\ disk[i].final \in {Gone, disk'[i].final}
       /\ disk[i].record \in {Gone, disk'[i].record}

(* A call is under way: it ends, unless the process stops.                  *)
UnderWay == ~Over
=============================================================================
