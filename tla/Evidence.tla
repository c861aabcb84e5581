------------------------------ MODULE Evidence ------------------------------
(***************************************************************************)
(* How a Position preset of the show becomes something a design may use:   *)
(* the raw cue probe, the application probe and the calibration, the two   *)
(* catalogs of bindings they and the operator write, and the resource map  *)
(* every design path is given.                                             *)
(*                                                                         *)
(* A probe is proposed from one reading of the show, read again when it is *)
(* approved, carried out command by command, exported and read once more,  *)
(* before its binding is recorded.  The operator edits the same show at    *)
(* the console between any two of these steps, a command may be refused or *)
(* quietly do nothing, a read may fail, and the process may be killed.     *)
(*                                                                         *)
(* Pan and Tilt are one value.  The show has the group the probes are for; *)
(* the other groups, fixture types and geometry only decide whether a read *)
(* counts as SUPPORTED.                                                    *)
(***************************************************************************)
EXTENDS Naturals, Sequences, FiniteSets

CONSTANTS
    Fixtures,     \* that may be in the group
    Presets,      \* numbers of the Position pool
    Slots,        \* numbers of the sequence pool
    Probes,       \* kinds of probe: a subset of {"raw", "application", "calibration"}
    Shows,        \* other shows the operator may load
    None,
    MaxTasks,     \* bound of the requests
    MaxMishaps    \* bound of the operator's edits, ignored commands and crashes

Labels == {None, "ours", "look"}     \* "ours": ZEN_POSITION_CAL_P<its number>

\* In the programmer and in cues: by hand, of the probe, a link to a preset.
Hand    == <<"hand", 0>>
ByProbe == <<"probe", 0>>
Link(n) == <<"preset", n>>
Values  == {None, Hand, ByProbe} \cup {Link(n) : n \in Presets}
Contents == [Fixtures -> Values]     \* of a cue

\* No value, name, cue or sequence is none at all; 0 is the preset of a probe without one.
EvidenceAssumption ==
    /\ Presets \subseteq Nat /\ Slots \subseteq Nat
    /\ Probes \subseteq {"raw", "application", "calibration"}
    /\ None \notin {Hand, ByProbe} \cup {Link(n) : n \in Presets \cup {0}}
    /\ None \notin {"ours", "look"} \cup Contents
    /\ None \notin [name : Labels, cue : (Contents \cup {None}) \X (Contents \cup {None})]
    /\ Shows \subseteq [members : (SUBSET Fixtures) \ {{}}, label : [Presets -> Labels],
                        holds : [Presets -> SUBSET Fixtures], taken : SUBSET Slots]
    /\ MaxTasks \in Nat /\ MaxMishaps \in Nat

VARIABLES
    members,      \* the group's membership
    label, holds, \* the Position presets: label, fixtures they hold values for
    prog, active, \* the programmer: values, and the fixtures whose are active
    selected,
    taken,        \* numbers of the sequences that exist
    seq,          \* the one an action writes: None or [name, cue], of two cues
    store,        \* StateStore: what was read of members, labels, sequences
    fresh, typed, \* the statuses of the profile: all SUPPORTED, types verified
    pc, task, phase,
    plan,         \* the preview that was proposed
    at,           \* next command of its script
    export,       \* the discovery of the exported sequence
    applications, \* ZEN_POSITION_APPLICATION_BINDINGS.json
    targets,      \* ZEN_SEMANTIC_POSITION_BINDINGS.json, for one target
    offered,      \* the Position presets of the last resource map
    aimed,        \* and the presets its semantic target stands for
    linked,       \* history: preset, and fixtures a stored cue linked to it
    during,       \* history: memberships and labels since the task began
    kept,         \* history: a membership of before was kept in this task
    last,         \* history: the row recorded last
    quiet,        \* history: nothing went wrong in this task
    result,       \* history: of the last task
    tasks, mishaps

console == <<members, label, holds, prog, active, selected, taken, seq>>
reading == <<store, fresh, typed>>
control == <<pc, task, phase, plan, at, export>>
files   == <<applications, targets>>
design  == <<offered, aimed>>
history == <<linked, during, kept, last, quiet, result>>
bounds  == <<tasks, mishaps>>
vars == <<console, reading, control, files, design, history, bounds>>

Nothing == [f \in Fixtures |-> None]
Blank   == [members |-> {}, label |-> [n \in Presets |-> None], taken |-> {}]

Init ==
    /\ members \in (SUBSET Fixtures) \ {{}}
    /\ label = [n \in Presets |-> IF n = 1 THEN "look" ELSE None]
    /\ holds \in {h \in [Presets -> SUBSET Fixtures] :
                    \A n \in Presets : (label[n] = None) <=> (h[n] = {})}
    /\ prog = Nothing /\ active = {} /\ selected = {}
    /\ taken = {} /\ seq = None
    /\ store = Blank /\ fresh = FALSE /\ typed = FALSE
    /\ pc = "idle" /\ task = None /\ phase = None /\ plan = None /\ at = 1
    /\ export = None
    /\ applications = {} /\ targets = {} /\ offered = {} /\ aimed = {}
    /\ linked = {} /\ during = {} /\ kept = FALSE /\ last = None /\ quiet = FALSE
    /\ result = None
    /\ tasks = 0 /\ mishaps = 0

-----------------------------------------------------------------------------
(* The profile and the previews that are built from it.                     *)

\* show_identity: groups with their members, presets with their labels; not the
\* sequences, and not what a preset holds.
Identity == [members |-> store.members, label |-> store.label]

\* _exact_refs, _position_capability
Usable == fresh /\ typed /\ store.members # {}

\* first_free_from_front
First(numbers) == CHOOSE n \in numbers : \A k \in numbers : n <= k

FreeSlots   == Slots \ store.taken
FreePresets == {n \in Presets : store.label[n] = None}

\* What each build_..._preview returns; None stands for its error.
Preview(kind, n) ==
    IF \/ ~Usable \/ FreeSlots = {}
       \/ kind = "application" /\ store.label[n] = None
       \/ kind = "calibration" /\ FreePresets = {}
    THEN None
    ELSE LET p == CASE kind = "raw" -> 0
                    [] kind = "application" -> n
                    [] kind = "calibration" -> First(FreePresets)
         IN [kind |-> kind, slot |-> First(FreeSlots), preset |-> p, before |-> Identity,
             after |-> IF kind = "calibration"
                       THEN [Identity EXCEPT !.label[p] = "ours"] ELSE Identity]

\* A calibration that stored its preset without setting the values again.
ScriptUncleared ==
    [raw |-> <<"clear", "select", "probe", "cue1", "name">>,
     application |-> <<"clear", "select", "call", "cue1", "name">>,
     calibration |-> <<"clear", "select", "probe", "cue1",
                       "preset", "check", "clear", "select", "call", "cue2", "name">>]

Script ==
    [raw |-> <<"clear", "select", "probe", "cue1", "name">>,
     application |-> <<"clear", "select", "call", "cue1", "name">>,
     calibration |-> <<"clear", "select", "probe", "cue1", "clear", "select", "probe",
                       "preset", "check", "clear", "select", "call", "cue2", "name">>]

Cues(kind) == IF kind = "calibration" THEN {1, 2} ELSE {1}

-----------------------------------------------------------------------------
(* The catalogs.                                                            *)

\* As if the show a row was recorded in were not compared.
CurrentAnywhere(row) == Usable /\ store.label[row.preset] = row.id.label[row.preset]

\* position_binding_matches_profile, and semantic_position_binding_matches_profile
Current(row) == Usable /\ row.id = Identity /\ store.label[row.preset] # None

Row(n) == [id |-> Identity, preset |-> n]

\* record_after_readback: the rows that match this show, and the new one.
Recorded(n) == {r \in applications : Current(r) /\ r.preset # n} \cup {Row(n)}

\* Fixtures whose Pan and Tilt rows of a cue link to a preset.
Linked(cue, n) == {f \in Fixtures : cue[f] = Link(n)}

\* As if one member that holds the preset were enough.
AppliedToSome(cue, n) == cue # None /\ Linked(cue, n) \cap store.members # {}

\* derive_position_application_binding
Applied(cue, n) == cue # None /\ Linked(cue, n) = store.members

Foreign(cue) == \E f \in Fixtures \ store.members : cue[f] # None

\* verify_raw_position_cue_content: values are not compared, foreign rows refused.
HasRaw(cue) == cue # None /\ ~Foreign(cue) /\ \A f \in store.members : cue[f] # None

\* verify_calibration_raw_content
HasProbe(cue) ==
    cue # None /\ ~Foreign(cue) /\ \A f \in store.members : cue[f] = ByProbe

\* What the executors ask of the exported sequence and the profile read after it.
Verified ==
    /\ Usable /\ Identity = plan.after
    /\ CASE plan.kind = "raw" -> HasRaw(export[1]) /\ export[2] = None
         [] plan.kind = "application" -> Applied(export[1], plan.preset)
         [] plan.kind = "calibration" ->
                HasProbe(export[1]) /\ Applied(export[2], plan.preset)

-----------------------------------------------------------------------------
(* Tasks: a proposal, its approval, a design, a semantic target.            *)

Now == [members |-> members, label |-> label]

Begin(what, ph, p, n) ==
    /\ pc = "idle"
    /\ pc' = "lists" /\ task' = what /\ phase' = ph /\ plan' = p /\ at' = n
    /\ during' = (IF what = "design" THEN {Now} ELSE {}) /\ kept' = FALSE /\ quiet' = TRUE /\ result' = None
    /\ UNCHANGED <<console, reading, export, files, design, linked, last, mishaps>>

\* preview_position_raw_cue_poc, _application_poc, _calibration; which preset an
\* application probe is for comes with the request.
Propose(kind, n) ==
    /\ plan = None /\ tasks < MaxTasks /\ tasks' = tasks + 1
    /\ Begin(kind, "preview", [preset |-> n], 1)

\* An approval that fails its revalidation leaves the action pending.
Approve == plan # None /\ Begin(plan.kind, "approve", plan, 1) /\ UNCHANGED tasks

\* Rejected, or superseded by another preview.
Reject ==
    /\ pc = "idle" /\ plan # None /\ plan' = None
    /\ UNCHANGED <<console, reading, pc, task, phase, at, export, files, design, history,
                   bounds>>

\* _plan_lean_design_child, list_semantic_position_bindings: one reading, then the map.
Design ==
    tasks < MaxTasks /\ tasks' = tasks + 1 /\ Begin("design", "use", plan, 1)

\* bind_semantic_position_target, for one of the presets last listed.
Bind(n) ==
    /\ tasks < MaxTasks /\ tasks' = tasks + 1
    /\ \E o \in offered : o.preset = n
    /\ Begin("bind", "use", plan, n)

Strict == phase # "use"

Outcome(how) ==
    [task |-> task, phase |-> phase, how |-> how,
     preset |-> IF phase = "execute" THEN plan.preset ELSE None]

Leave(how) ==
    /\ pc' = "idle" /\ task' = None /\ phase' = None /\ at' = 1 /\ export' = None
    /\ result' = IF phase \in {"execute", "use"} THEN Outcome(how) ELSE None

\* An exception.  The executors send one more ClearAll before it goes up.
Fails ==
    \/ /\ phase = "execute" /\ pc' = "clear"
       /\ result' = Outcome("failed")
       /\ UNCHANGED <<task, phase, plan, at, export>>
    \/ /\ phase # "execute" /\ Leave("failed")
       /\ plan' = IF phase = "preview" THEN None ELSE plan

-----------------------------------------------------------------------------
(* The reads of a task.                                                     *)

\* A read that raises, whichever it is.
ReadFails ==
    /\ (pc \in {"lists", "presets", "members"} \/ (pc = "direct" /\ Strict))
    /\ Fails /\ quiet' = FALSE
    /\ UNCHANGED <<console, reading, files, design, linked, during, kept, last, bounds>>

\* The sequences and then the presets; a design, which has no use for the
\* sequences, lists them last.
ReadSequences ==
    /\ pc = "lists" /\ pc' = "presets"
    /\ store' = [store EXCEPT !.taken = taken]
    /\ UNCHANGED <<console, fresh, typed, task, phase, plan, at, export, files, design,
                   history, bounds>>

ReadPresets ==
    /\ pc = "presets" /\ pc' = "members"
    /\ store' = [store EXCEPT !.label = label]
    /\ UNCHANGED <<console, fresh, typed, task, phase, plan, at, export, files, design,
                   history, bounds>>

\* The group's members, then the types of its fixtures (fixture_type_profiles):
\* verified for all of them or not, whenever they are read.
ReadMembers ==
    /\ pc = "members" /\ pc' = "direct"
    /\ store' = [store EXCEPT !.members = members] /\ fresh' = TRUE
    /\ typed' \in BOOLEAN /\ quiet' = (quiet /\ typed')
    /\ UNCHANGED <<console, task, phase, plan, at, export, files, design, linked, during,
                   kept, last, result, bounds>>

\* Where the results of refresh_state are not looked at, a membership that could
\* not be exported stays as it was; the export of the next group clears the error.
KeepsMembers ==
    /\ pc = "members" /\ ~Strict /\ pc' = "direct"
    /\ fresh' \in BOOLEAN /\ typed' \in BOOLEAN /\ quiet' = FALSE /\ kept' = TRUE
    /\ UNCHANGED <<console, store, task, phase, plan, at, export, files, design, linked,
                   during, last, result, bounds>>

\* List Preset of the one an application probe is for.
ReadDirect ==
    /\ pc = "direct" /\ Strict
    /\ IF (task # "application") \/ label[plan.preset] = store.label[plan.preset]
       THEN pc' = "judge" /\ UNCHANGED <<task, phase, plan, at, export, result>>
       ELSE Fails
    /\ UNCHANGED <<console, reading, files, design, linked, during, kept, last, quiet, bounds>>

\* _verified_current_position_application_bindings: the rows that a direct read
\* of their preset confirms; one that fails is passed over.
Confirmed(heard) ==
    {r \in applications : /\ Current(r) /\ r.preset \in heard
                          /\ label[r.preset] = r.id.label[r.preset]}

Finish(how) == Leave(how) /\ UNCHANGED plan

OfferMap ==
    /\ pc = "direct" /\ task = "design"
    /\ \E heard \in SUBSET Presets :
        /\ offered' = Confirmed(heard)
        /\ aimed' = {t.preset : t \in {x \in targets : Current(x)}}
                      \cap {r.preset : r \in Confirmed(heard)}
        /\ quiet' = (quiet /\ heard = Presets)
    /\ Finish("done")
    /\ UNCHANGED <<console, reading, files, linked, during, kept, last, bounds>>

Expected == CHOOSE o \in offered : o.preset = at

RecordTarget ==
    /\ pc = "direct" /\ task = "bind"
    /\ \E heard \in SUBSET Presets :
        IF Identity = Expected.id /\ \E r \in Confirmed(heard) : r.preset = at
        THEN targets' = {Row(at)} /\ Finish("done")
        ELSE UNCHANGED targets /\ Finish("failed")
    /\ UNCHANGED <<console, reading, applications, design, linked, during, kept, last, quiet,
                   bounds>>

-----------------------------------------------------------------------------
(* The action: revalidated, sent command by command, exported and judged.   *)

\* _queue_workflow, or the error of the preview.
Register ==
    /\ pc = "judge" /\ phase = "preview"
    /\ LET p == Preview(task, plan.preset)
       IN plan' = p /\ Leave(IF p = None THEN "failed" ELSE "done")
    /\ UNCHANGED <<console, reading, files, design, linked, during, kept, last, quiet, bounds>>

\* What is stored of a cue, for the history.
Links(cue) == {<<n, Linked(cue, n)>> : n \in Presets}

\* A sequence of the operator's, whose cue holds values set by hand, or taken
\* from a preset on some fixtures.
Theirs(n, fs) ==
    [name |-> "theirs", cue |-> <<[f \in Fixtures |-> IF f \in fs THEN Link(n) ELSE Hand], None>>]

\* The sequence the action will write is one of theirs.
TheyHave(ns) ==
    \E n \in Presets : \E fs \in SUBSET ns[n] :
        seq' = Theirs(n, fs) /\ linked' = linked \cup Links(Theirs(n, fs).cue[1])

\* _ensure_position_..._state_unchanged
Revalidate ==
    /\ pc = "judge" /\ phase = "approve"
    /\ IF Preview(task, plan.preset) = plan
       THEN /\ pc' = "send" /\ phase' = "execute" /\ at' = 1
            /\ \/ plan.slot \in taken /\ TheyHave(holds)
               \/ plan.slot \notin taken /\ seq' = None /\ UNCHANGED linked
            /\ UNCHANGED <<task, export, result>>
       ELSE Leave("failed") /\ UNCHANGED <<seq, linked>>
    /\ UNCHANGED <<members, label, holds, prog, active, selected, taken, reading, plan, files,
                   design, during, kept, last, quiet, bounds>>

Stored(cue) == [f \in Fixtures |-> IF f \in active THEN prog[f] ELSE IF cue = None THEN None ELSE cue[f]]

StoreCue(c) ==
    LET old == IF seq = None THEN [name |-> None, cue |-> <<None, None>>] ELSE seq
    IN /\ seq' = [old EXCEPT !.cue[c] = Stored(@)] /\ taken' = taken \cup {plan.slot}
       /\ active' = {}
       /\ linked' = linked \cup Links(Stored(old.cue[c]))
       /\ UNCHANGED <<members, label, holds, prog, selected>>

Set(fs, value) ==
    /\ prog' = [f \in Fixtures |-> IF f \in fs THEN value ELSE prog[f]]
    /\ active' = active \cup fs
    /\ UNCHANGED <<members, label, holds, selected, taken, seq, linked>>

\* What the console does with a command.  Storing a cue deactivates the values
\* of the programmer; a preset takes the active ones only.
Does(command) ==
    \/ /\ command = "clear" /\ prog' = Nothing /\ active' = {} /\ selected' = {}
       /\ UNCHANGED <<members, label, holds, taken, seq, linked>>
    \/ /\ command = "select" /\ selected' = members
       /\ UNCHANGED <<members, label, holds, prog, active, taken, seq, linked>>
    \/ command = "probe" /\ Set(selected, ByProbe)
    \/ command = "call" /\ Set(selected \cap holds[plan.preset], Link(plan.preset))
    \/ command = "cue1" /\ StoreCue(1)
    \/ command = "cue2" /\ StoreCue(2)
    \/ /\ command = "preset"
       /\ label' = [label EXCEPT ![plan.preset] = "ours"]
       /\ holds' = [holds EXCEPT ![plan.preset] = active]
       /\ UNCHANGED <<members, prog, active, selected, taken, seq, linked>>
    \/ /\ command = "name"
       /\ seq' = [seq EXCEPT !.name = "ours"]
       /\ UNCHANGED <<members, label, holds, prog, active, selected, taken, linked>>

Command == Script[plan.kind][at]

Exists == Command # "name" \/ seq # None

Sent ==
    IF at < Len(Script[plan.kind]) THEN at' = at + 1 /\ UNCHANGED pc
    ELSE pc' = "meta" /\ UNCHANGED at

Send ==
    /\ pc = "send" /\ Command # "check" /\ Exists
    /\ Does(Command) /\ Sent
    /\ UNCHANGED <<reading, task, phase, plan, export, files, design, during, kept, last,
                   quiet, result, bounds>>

Mishap == mishaps < MaxMishaps /\ mishaps' = mishaps + 1

\* Answered as if it had been done.
Ignore ==
    /\ pc = "send" /\ Command # "check" /\ Mishap
    /\ Sent /\ quiet' = FALSE
    /\ UNCHANGED <<console, reading, task, phase, plan, export, files, design, linked,
                   during, kept, last, result, tasks>>

\* Refused with an error, or the connection was lost, before it was done or after.
Refuse ==
    /\ pc = "send" /\ Command # "check" /\ quiet' = FALSE
    /\ (Exists /\ Does(Command)) \/ UNCHANGED <<console, linked>>
    /\ Fails
    /\ UNCHANGED <<reading, files, design, during, kept, last, bounds>>

\* List Preset of the new preset, without which nothing calls it.
Check ==
    /\ pc = "send" /\ Command = "check"
    /\ \E heard \in BOOLEAN :
        /\ quiet' = (quiet /\ heard)
        /\ IF heard /\ label[plan.preset] = "ours"
           THEN Sent /\ UNCHANGED <<task, phase, plan, export, result>>
           ELSE Fails
    /\ UNCHANGED <<console, reading, files, design, linked, during, kept, last, bounds>>

\* verify_first_song_metadata
Metadata ==
    /\ pc = "meta"
    /\ \E heard \in BOOLEAN :
        /\ quiet' = (quiet /\ heard)
        /\ IF /\ heard /\ seq # None /\ seq.name = "ours"
              /\ \A c \in Cues(plan.kind) : seq.cue[c] # None
           THEN pc' = "export" /\ UNCHANGED <<task, phase, plan, at, export, result>>
           ELSE Fails
    /\ UNCHANGED <<console, reading, files, design, linked, during, kept, last, bounds>>

\* export_and_discover, after which the show is read once more.
Export ==
    /\ pc = "export"
    /\ \E heard \in BOOLEAN :
        /\ quiet' = (quiet /\ heard)
        /\ IF heard /\ seq # None
           THEN /\ export' = seq.cue /\ pc' = "lists"
                /\ UNCHANGED <<task, phase, plan, at, result>>
           ELSE Fails
    /\ UNCHANGED <<console, reading, files, design, linked, during, kept, last, bounds>>

Judge ==
    /\ pc = "judge" /\ phase = "execute"
    /\ IF Verified THEN pc' = "record" /\ UNCHANGED <<task, phase, plan, at, export, result>>
       ELSE Fails
    /\ UNCHANGED <<console, reading, files, design, linked, during, kept, last, quiet, bounds>>

\* record_after_readback; a raw probe records nothing.
Record ==
    /\ pc = "record" /\ pc' = "clear"
    /\ result' = Outcome("done")
    /\ IF plan.kind = "raw" THEN UNCHANGED <<applications, last>>
       ELSE /\ applications' = Recorded(plan.preset)
            /\ last' = Row(plan.preset)
    /\ UNCHANGED <<console, reading, task, phase, plan, at, export, targets, design, linked,
                   during, kept, quiet, bounds>>

\* The last ClearAll; that it failed is only logged.
Clear ==
    /\ pc = "clear" /\ pc' = "idle" /\ task' = None /\ phase' = None /\ plan' = None
    /\ at' = 1 /\ export' = None
    /\ seq' = None
    /\ \/ prog' = Nothing /\ active' = {} /\ selected' = {}
       \/ UNCHANGED <<prog, active, selected>>
    /\ UNCHANGED <<members, label, holds, taken, reading, files, design, linked, during, kept,
                   last, quiet, result, bounds>>

-----------------------------------------------------------------------------
(* What else happens.                                                       *)

\* The process is killed.  The catalogs are written in place, and a torn one is
\* read as empty.
Crash ==
    /\ pc # "idle" /\ Mishap
    /\ pc' = "idle" /\ task' = None /\ phase' = None /\ plan' = None /\ at' = 1
    /\ export' = None /\ store' = Blank /\ fresh' = FALSE /\ typed' = FALSE
    /\ applications' \in IF pc = "record" THEN {applications, {}} ELSE {applications}
    /\ targets' \in IF task = "bind" THEN {targets, {}} ELSE {targets}
    /\ last' = None /\ quiet' = FALSE /\ result' = None /\ seq' = None
    /\ UNCHANGED <<members, label, holds, prog, active, selected, taken, design, linked, during,
                   kept, tasks>>

\* The operator changes the group, a preset or the programmer, takes a sequence,
\* or loads another show.
Edit(change) ==
    /\ Mishap /\ change
    /\ during' = IF task = "design" THEN during \cup {[members |-> members', label |-> label']}
                 ELSE during
    /\ quiet' = FALSE /\ result' = IF pc = "idle" THEN None ELSE result
    /\ UNCHANGED <<reading, control, files, design, kept, last, tasks>>

Regroup ==
    /\ members' \in (SUBSET Fixtures) \ {{}, members}
    /\ UNCHANGED <<label, holds, prog, active, selected, taken, seq, linked>>

\* Stored, stored again with other contents, renamed, deleted.
Restore(n) ==
    /\ \E name \in Labels, fs \in SUBSET Fixtures :
        /\ (name = None) <=> (fs = {})
        /\ label' = [label EXCEPT ![n] = name] /\ holds' = [holds EXCEPT ![n] = fs]
    /\ UNCHANGED <<members, prog, active, selected, taken, seq, linked>>

Touch ==
    /\ \E f \in Fixtures : prog' = [prog EXCEPT ![f] = Hand] /\ active' = active \cup {f}
    /\ UNCHANGED <<members, label, holds, selected, taken, seq, linked>>

TakeSlot(s) ==
    /\ taken' = taken \cup {s}
    /\ IF phase = "execute" /\ plan.slot = s THEN TheyHave(holds) ELSE UNCHANGED <<seq, linked>>
    /\ UNCHANGED <<members, label, holds, prog, active, selected>>

LoadShow(show) ==
    /\ members' = show.members /\ label' = show.label /\ holds' = show.holds
    /\ taken' = show.taken
    /\ prog' = Nothing /\ active' = {} /\ selected' = {}
    /\ IF phase = "execute" /\ plan.slot \in show.taken THEN TheyHave(show.holds)
       ELSE seq' = None /\ UNCHANGED linked

Reads == ReadSequences \/ ReadPresets \/ ReadMembers \/ KeepsMembers \/ ReadDirect \/ ReadFails
Acts ==
    \/ Register \/ Revalidate \/ Send \/ Ignore \/ Refuse \/ Check \/ Metadata \/ Export
    \/ Judge \/ Record \/ Clear
Uses == OfferMap \/ RecordTarget
Asks ==
    \/ \E n \in Presets : Propose("application", n)
    \/ \E kind \in Probes \ {"application"} : Propose(kind, 0)
    \/ Approve \/ Reject \/ Design \/ \E n \in Presets : Bind(n)
Edits ==
    \/ Edit(Regroup) \/ Edit(Touch)
    \/ \E n \in Presets : Edit(Restore(n))
    \/ \E s \in Slots : Edit(TakeSlot(s))
    \/ \E show \in Shows : Edit(LoadShow(show))

\* Nothing more is asked.
Rest == pc = "idle" /\ tasks = MaxTasks /\ UNCHANGED vars

Next == Asks \/ Reads \/ Uses \/ Acts \/ Crash \/ Edits \/ Rest

Spec == Init /\ [][Next]_vars

-----------------------------------------------------------------------------
(* Properties.                                                              *)

TypeOK ==
    /\ members \in (SUBSET Fixtures) \ {{}}
    /\ label \in [Presets -> Labels] /\ holds \in [Presets -> SUBSET Fixtures]
    /\ prog \in [Fixtures -> Values] /\ active \subseteq Fixtures
    /\ store.members \subseteq Fixtures /\ store.taken \subseteq Slots
    /\ \A r \in applications \cup targets : r.preset \in Presets /\ r.id.members # {}

\* A binding names a preset and a membership such that one cue, when it was
\* stored, was linked to this preset on exactly these fixtures
\* (record_after_readback).
EvidenceIsTrue ==
    \A r \in applications \cup targets : <<r.preset, r.id.members>> \in linked

\* What a design is offered was so during its reading: the members of the group,
\* unless their export failed, and the label of the preset
\* (_build_current_artistic_resource_map).
OfferedIsCurrent ==
    (pc = "idle" /\ result # None /\ result.task = "design" /\ result.how = "done") =>
        \A o \in offered :
            /\ kept \/ \E d \in during : d.members = o.id.members
            /\ \E d \in during : d.label[o.preset] = o.id.label[o.preset]

\* An approved probe that nothing disturbs is verified, whatever happened before
\* its approval, if the preset holds values for every member of the group; and
\* a reading that nothing disturbs offers the row recorded last, while the show
\* is still or again as it was (the three executors, load_verified).
QuietVerifies ==
    (pc = "idle" /\ result # None /\ quiet) =>
        /\ \/ result.phase # "execute" \/ result.how = "done"
           \/ result.task = "application" /\ ~(members \subseteq holds[result.preset])
        /\ (result.task = "design" /\ last # None /\ last.id = Now) => last \in offered
=============================================================================
