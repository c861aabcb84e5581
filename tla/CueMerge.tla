------------------------------- MODULE CueMerge -------------------------------
(***************************************************************************)
(* The three plans that change cues which exist: position values           *)
(* (position_existing_cue_merge.py), positions with verified presets and   *)
(* effects (existing_cue_dynamic_program_merge.py), and positions and      *)
(* effects the plan creates itself (sequence302_resource_merge.py).  A     *)
(* preview is built from an export of the sequence, compared with a second *)
(* export when it is approved, sent to the console command by command, and *)
(* accepted if a third export shows the plan and nothing else.  All the    *)
(* while the operator works on the same console.                           *)
(*                                                                         *)
(* Values of PAN and TILT are in ten-thousandths; PAN and TILT stand for   *)
(* themselves, MARK for the other attributes of the position family, COLOR *)
(* and DIM for the attribute of a preset and of a dimmer chase.            *)
(***************************************************************************)
EXTENDS Integers, Sequences, FiniteSets, SequencesExt

CONSTANTS
    None,
    Order,      \* the fixtures of the plan's group in selection order
    Others,     \* fixtures outside the group
    Cues,       \* of the sequence, all in the plan
    Plans,      \* bound: plans, [kind, cue]
    Rows,       \* bound: what the cues may hold at first
    Edits,      \* bound: what the operator may store, [cue, slot, row]
    MaxEdits,   \* bound: steps of the operator
    MaxIgnored  \* bound: commands the console passes over without an error

Targets    == ToSet(Order)
Fixtures   == Targets \cup Others
Slots      == Fixtures \X {"PAN", "TILT", "MARK", "COLOR", "DIM"}
Blank      == [value |-> None, preset |-> None, effect |-> None]

\* A position preset, the effect the plan creates, one that is there, and the
\* verified preset for COLOR.
Numbers    == 1..(Cardinality(Cues) + 1)
Position(n) == <<2, n>>
Created    == 2500
Verified   == 700
Colour     == <<4, 1>>

\* What a cue may hold: a preset of the colour pool only as a colour.
IsRow(x, r) ==
    /\ r = [value |-> r.value, preset |-> r.preset, effect |-> r.effect]
    /\ r.preset = Colour => x[2] = "COLOR"

\* The values of a row, and what a merge writes where nothing was: none of it
\* is None.
Values     == Int \cup {None}
Names      == {p.cue[c].name : p \in {q \in Plans : q.kind = "resources"}, c \in Cues}
NoneIsNone ==
    /\ None \notin Int \cup {Colour} \cup {Position(n) : n \in Numbers}
    /\ None \notin {"early", "plan"}
    /\ None \notin [label : Names, by : {"plan"}, at : [Fixtures -> Values \X Values]]

\* What a plan holds besides the words, pattern and scale of its positions.
IsPlan(p) ==
    /\ p.kind \in {"position", "dynamic", "resources"}
    /\ \A c \in Cues :
          /\ p.kind = "dynamic" =>
                p.cue[c].colour \in BOOLEAN /\ p.cue[c].effect \in {None, Created, Verified}
          /\ p.kind = "resources" =>
                p.cue[c].raw \in [1..Len(Order) -> Int \X Int] /\ p.cue[c].effect \in {None, Created}

CueMergeAssumption ==
    /\ MaxEdits \in Nat /\ MaxIgnored \in Nat
    /\ Order \in Seq(Targets) /\ IsInjective(Order) /\ Targets \cap Others = {}
    /\ Cues \in SUBSET Nat /\ IsFiniteSet(Cues)
    /\ NoneIsNone
    /\ \A p \in Plans : IsPlan(p)
    /\ \A e \in Edits : e.cue \in Cues /\ e.slot \in Slots /\ IsRow(e.slot, e.row)
    /\ \A rows \in Rows :
          /\ rows = [c \in Cues |-> [x \in Slots |-> rows[c][x]]]
          /\ \A c \in Cues, x \in Slots : IsRow(x, rows[c][x])

VARIABLES
    plan,      \* the plan of the approved preview
    basis,     \* the show the preview was built from
    commands,  \* of the approved workflow
    at,        \* the command that is next
    status,    \* of the action
    show,      \* the show on the console: cues, labels, pools
    prog,      \* its programmer: selection and active values
    export,    \* the show as the last export had it
    quiet,     \* history: nobody edited and no command went astray
    edits, ignored

vars == <<plan, basis, commands, at, status, show, prog, export, quiet, edits,
          ignored>>

-----------------------------------------------------------------------------
(* The positions of a plan.                                                *)

\* From minus to plus m over a group of n, member i (_symmetric).
Symmetric(i, n, m) == IF n = 1 THEN 0 ELSE ((2 * i - n - 1) * m) \div (n - 1)

\* _pattern_offsets: what a pattern adds to pan and tilt of member i of n.
Offsets(i, n) ==
    LET spread6  == Symmetric(i, n, 60000)
        spread12 == Symmetric(i, n, 120000)
        odd(a, b) == IF i % 2 = 1 THEN a ELSE b
    IN  [CENTER     |-> <<0, 0>>,        LEFT      |-> <<60000, 0>>,
         RIGHT      |-> <<-60000, 0>>,   FRONT     |-> <<0, -50000>>,
         UPSTAGE    |-> <<0, 50000>>,    CROSS     |-> <<-Symmetric(i, n, 80000), 0>>,
         NARROW_FAN |-> <<spread6, 0>>,  WIDE_FAN  |-> <<spread12, 0>>,
         ALTERNATE  |-> <<odd(-80000, 80000), odd(-20000, 20000)>>,
         EXPLODE    |-> <<spread12, odd(-40000, 40000)>>,
         COLLAPSE   |-> <<-spread6, 20000>>]

\* pattern_for_label: the first rule that a word of the label fits, or else
\* the cue number decides.
Rules ==
    << <<{"BLACKOUT", "RESET"}, "CENTER">>,
       <<{"FULL WHITE EXPLOSION", "WHITE IMPACT"}, "EXPLODE">>,
       <<{"FINAL HIT", "WHITE HIT", "STRIKE", "PUNCH"}, "ALTERNATE">>,
       <<{"ASCENT", "RISE"}, "UPSTAGE">>,
       <<{"REVEAL", "HALO", "AFTERGLOW", "DREAM"}, "NARROW_FAN">>,
       <<{"TENSION", "RELEASE", "DECAY"}, "COLLAPSE">>,
       <<{"POWER", "PEAK"}, "WIDE_FAN">>, <<{"SNAPBACK"}, "RIGHT">>,
       <<{"DEEP BLUE CUT", "CRIMSON LUXE"}, "LEFT">>,
       <<{"AMBER ACCENT", "RED DROP"}, "RIGHT">>, <<{"BUILD"}, "NARROW_FAN">> >>

Cycle == <<"CENTER", "NARROW_FAN", "CROSS", "FRONT", "WIDE_FAN", "UPSTAGE", "ALTERNATE">>

PatternFor(words, n) ==
    LET fits == SelectSeq(Rules, LAMBDA r : r[1] \cap words # {})
    IN  IF fits # <<>> THEN Head(fits)[2] ELSE Cycle[((n - 1) % 7) + 1]

\* The calibrated position and the range of every fixture.
Baseline == 200000
Limits   == 0..(2 * Baseline)

\* The pan and tilt of the i-th member in cue c: its own values in a plan that
\* creates presets, or else the baseline and the offset of the pattern, which
\* the label or the design chose; the design also chose a scale, in tenths
\* (_bounded_value, retarget_position_preview).
Aim(p, c, i) ==
    LET q == p.cue[c]
        shift == IF p.kind = "position"
                 THEN Offsets(i, Len(Order))[PatternFor(q.words, c)]
                 ELSE [k \in 1..2 |-> (Offsets(i, Len(Order))[q.pattern][k] * q.scale) \div 10]
    IN  IF p.kind = "resources" THEN q.raw[i]
        ELSE [k \in 1..2 |-> Baseline + shift[k]]

\* A value as it is written into a command: three decimals (_fmt).
Fmt(v) == ((v + 5) \div 10) * 10

Sent(p, c, i)     == [k \in 1..2 |-> Fmt(Aim(p, c, i)[k])]
Close(a, b)       == a # None /\ a - b \in -10..10
HasEffect(p, c)   == p.kind # "position" /\ p.cue[c].effect # None
HasColour(p, c)   == p.kind = "dynamic" /\ p.cue[c].colour

-----------------------------------------------------------------------------
(* What is compared.                                                       *)

\* effect_ids_by_cue_ref: the effects stored for a fixture in a cue.
EffectIds(s, c, f) ==
    {s.row[c][x].effect : x \in {y \in Slots : y[1] = f}} \ {None}

PresetRefs(s, c, f) ==
    {s.row[c][x].preset : x \in {y \in Slots : y[1] = f}} \ {None}

OnTarget(x) == x[1] \in Targets

PositionRow(x) == x[2] \in {"PAN", "TILT", "MARK"}

\* Mutant: the attributes of a preset are free on every fixture.
ProtectedAnywhere(p, c, x, r) ==
    LET free == (OnTarget(x) /\ PositionRow(x)) \/ (x[2] = "COLOR" /\ HasColour(p, c))
        held == IF free THEN [r EXCEPT !.value = None, !.preset = None] ELSE r
    IN  IF OnTarget(x) /\ x[2] = "DIM" /\ HasEffect(p, c)
        THEN [held EXCEPT !.effect = None] ELSE held

\* Mutant: the effect a plan adds is not taken out of the comparison.
ProtectedEffects(p, c, x, r) ==
    IF /\ OnTarget(x)
       /\ PositionRow(x) \/ (x[2] = "COLOR" /\ HasColour(p, c))
    THEN [r EXCEPT !.value = None, !.preset = None] ELSE r

\* _normalize_protected_row: a row without what the plan may change there.
Protected(p, c, x, r) ==
    LET free == /\ OnTarget(x)
                /\ PositionRow(x) \/ (x[2] = "COLOR" /\ HasColour(p, c))
        held == IF free THEN [r EXCEPT !.value = None, !.preset = None] ELSE r
    IN  IF OnTarget(x) /\ x[2] = "DIM" /\ HasEffect(p, c)
        THEN [held EXCEPT !.effect = None] ELSE held

\* The rows that are not of the position family, whoever's they are
\* (non_position_snapshot).
NonPosition(s) ==
    [c \in Cues |-> [x \in {y \in Slots : ~PositionRow(y)} |-> s.row[c][x]]]

\* What may not change of the rows; the names of the parts, which both
\* snapshots hold too, are the labels of the show.
Snapshot(p, s) ==
    IF p.kind = "position" THEN NonPosition(s)
    ELSE [c \in Cues |-> [x \in Slots |-> Protected(p, c, x, s.row[c][x])]]

-----------------------------------------------------------------------------
(* The preview.                                                            *)

\* Numbers in their order (sorted).
Sorted(S) ==
    CHOOSE s \in [1..Cardinality(S) -> S] : \A i, j \in DOMAIN s : i < j => s[i] < s[j]

\* Numbers for the presets a plan creates, cue by cue: the smallest that is
\* free, or that of an equal position (_allocate_position_presets).
Distinct(p) == {c \in Cues : \A d \in Cues : d < c => p.cue[d].raw # p.cue[c].raw}

FreeNumbers(s) == Sorted({n \in Numbers : s.preset[n] = None})

NumberOf(p, s, c) ==
    LET first == CHOOSE d \in Distinct(p) : p.cue[d].raw = p.cue[c].raw
    IN  FreeNumbers(s)[Cardinality({d \in Distinct(p) : d <= first})]

InRange(p) ==
    p.kind # "resources" =>
        \A c \in Cues, i \in 1..Len(Order), k \in 1..2 : Aim(p, c, i)[k] \in Limits

\* The capabilities a cue of a dynamic plan makes use of (used_families).
Used(p, c) ==
    {"POSITION"} \cup (IF HasColour(p, c) THEN {"COLOR"} ELSE {})
                 \cup (IF HasEffect(p, c) THEN {"EFFECT", "DIMMER"} ELSE {})

\* build_existing_cue_dynamic_program_preview: an effect is verified, goes
\* where there is none, two cues differ in their effects (no caller waives
\* it), nothing is used that the design said to avoid, and all that it said to
\* use and may be carried out.
DynamicFits(p, s) ==
    LET after(c) == [f \in Targets |->
                       IF HasEffect(p, c) THEN {p.cue[c].effect} ELSE EffectIds(s, c, f)]
    IN  /\ \A c \in Cues :
              /\ HasEffect(p, c) =>
                    /\ s.effect[p.cue[c].effect] # None
                    /\ \A f \in Targets : EffectIds(s, c, f) = {}
              /\ Used(p, c) \cap p.cue[c].avoid = {}
              /\ p.cue[c].use \subseteq Used(p, c)
        /\ Cardinality({after(c) : c \in Cues}) >= 2

\* build_sequence302_resource_merge_preview: no effect on a target, the pool of
\* effects has room, the labels are new.
ResourcesFit(p, s) ==
    /\ \A c \in Cues, f \in Targets : EffectIds(s, c, f) = {}
    /\ s.effect[Created] = None
    /\ Cardinality(Distinct(p)) <= Len(FreeNumbers(s))
    /\ \A c \in Distinct(p) :
          /\ \A n \in Numbers : s.preset[n] # None => s.preset[n].label # p.cue[c].name
          /\ \A d \in Distinct(p) \ {c} : p.cue[d].name # p.cue[c].name

Fits(p, s) ==
    /\ InRange(p)
    /\ p.kind = "dynamic" => DynamicFits(p, s)
    /\ p.kind = "resources" => ResourcesFit(p, s)

-----------------------------------------------------------------------------
(* Its commands.                                                           *)

Clear     == [op |-> "clear"]
Group     == [op |-> "select", fixtures |-> Targets]
Store(c)  == [op |-> "store", cue |-> c]
Call(r)   == [op |-> "preset", preset |-> r]
Effect(e) == [op |-> "effect", effect |-> e]

\* Fixtures with equal values are selected together (_commands_for_cue).
Moves(p, c) ==
    LET alike(i) == {j \in 1..Len(Order) : Sent(p, c, j) = Sent(p, c, i)}
    IN  FlattenSeq([i \in 1..Len(Order) |->
            IF \E j \in alike(i) : j < i THEN <<>>
            ELSE << [op |-> "select", fixtures |-> {Order[j] : j \in alike(i)}],
                    [op |-> "value", attribute |-> "PAN",  to |-> Sent(p, c, i)[1]],
                    [op |-> "value", attribute |-> "TILT", to |-> Sent(p, c, i)[2]] >>])

CallEffect(p, c) ==
    IF HasEffect(p, c) THEN <<Clear, Group, Effect(p.cue[c].effect), Store(c)>> ELSE <<>>

CallPreset(p, s, c) ==
    CASE HasColour(p, c)      -> <<Clear, Group, Call(Colour), Store(c)>>
      [] p.kind = "resources" -> <<Clear, Group, Call(Position(NumberOf(p, s, c))), Store(c)>>
      [] OTHER                -> <<>>

CueCommands(p, s, c) ==
    CallPreset(p, s, c) \o CallEffect(p, c) \o
    (IF p.kind = "resources" THEN <<>> ELSE <<Clear>> \o Moves(p, c) \o <<Store(c)>>)

\* _position_store_commands and template_effect_commands.
Authoring(p, s) ==
    IF p.kind # "resources" THEN <<>>
    ELSE LET cues == Sorted(Distinct(p))
         IN  FlattenSeq([k \in 1..Len(cues) |->
                 <<Clear>> \o Moves(p, cues[k]) \o
                 << [op |-> "create preset", number |-> NumberOf(p, s, cues[k]),
                     label |-> p.cue[cues[k]].name], Clear >>])
             \o << Clear, [op |-> "create effect"], Clear >>

CommandsOf(p, s) ==
    LET cues == Sorted(Cues)
    IN  Authoring(p, s)
        \o FlattenSeq([k \in 1..Len(cues) |-> CueCommands(p, s, cues[k])])
        \o <<Clear>>

-----------------------------------------------------------------------------
(* The console: the programmer holds a selection and active values, Store    *)
(* /merge puts these into the cue and leaves its other rows alone.           *)

Cleared == [selection |-> {}, used |-> FALSE, row |-> [x \in Slots |-> Blank]]

\* A new selection replaces one that was given values.
Selected(F) ==
    [prog EXCEPT !.selection = IF prog.used THEN F ELSE @ \cup F, !.used = FALSE]

Merged(row, active) ==
    [value  |-> IF active.value # None THEN active.value ELSE row.value,
     preset |-> IF active.value # None THEN active.preset ELSE row.preset,
     effect |-> IF active.effect # None THEN active.effect ELSE row.effect]

\* What a preset holds for a fixture: 41 stands for a colour.
Held(r, f, a) ==
    IF r = Colour THEN 41
    ELSE show.preset[r[2]].at[f][IF a = "PAN" THEN 1 ELSE 2]

Has(r) == r = Colour \/ show.preset[r[2]] # None

Accepts(cmd) ==
    CASE cmd.op = "preset" -> Has(cmd.preset)
      [] cmd.op = "effect" -> show.effect[cmd.effect] # None
      [] OTHER             -> TRUE

\* The attributes a command is about, and what it makes of the row r at x.
Attributes(cmd) ==
    CASE cmd.op = "value" -> {cmd.attribute}
      [] cmd.op = "preset" -> IF cmd.preset = Colour THEN {"COLOR"} ELSE {"PAN", "TILT"}
      [] OTHER -> {"DIM"}

Given(cmd, x, r) ==
    CASE cmd.op = "value"  -> [r EXCEPT !.value = cmd.to, !.preset = None]
      [] cmd.op = "preset" -> [r EXCEPT !.value = Held(cmd.preset, x[1], x[2]),
                                        !.preset = cmd.preset]
      [] OTHER             -> [r EXCEPT !.effect = cmd.effect]

Programmer(cmd) ==
    CASE cmd.op = "clear"  -> Cleared
      [] cmd.op = "select" -> Selected(cmd.fixtures)
      [] cmd.op \in {"value", "preset", "effect"} ->
           [prog EXCEPT !.used = TRUE,
                        !.row = [x \in Slots |->
                                   IF x[1] \in prog.selection /\ x[2] \in Attributes(cmd)
                                   THEN Given(cmd, x, prog.row[x]) ELSE prog.row[x]]]
      [] OTHER -> prog

Show(cmd) ==
    CASE cmd.op = "store" ->
           [show EXCEPT !.row[cmd.cue] =
               [x \in Slots |-> Merged(show.row[cmd.cue][x], prog.row[x])]]
      [] cmd.op = "create preset" ->
           [show EXCEPT !.preset[cmd.number] =
               [label |-> cmd.label, by |-> "plan",
                at |-> [f \in Fixtures |-> <<prog.row[<<f, "PAN">>].value,
                                             prog.row[<<f, "TILT">>].value>>]]]
      [] cmd.op = "create effect" -> [show EXCEPT !.effect[Created] = "plan"]
      [] OTHER -> show

-----------------------------------------------------------------------------
Init ==
    /\ plan = None /\ basis = None /\ commands = <<>> /\ at = 1
    /\ status = "none" /\ export = None
    /\ show \in {[row |-> r, labels |-> "old", preset |-> [n \in Numbers |-> None],
                  effect |-> [e \in {Created, Verified} |->
                                IF e = Verified THEN "verified" ELSE None]] : r \in Rows}
    /\ prog = Cleared
    /\ quiet = TRUE /\ edits = 0 /\ ignored = 0

\* The preview owns one export; nothing is written.
Preview(p) ==
    /\ status = "none"
    /\ Fits(p, show)
    /\ plan' = p /\ basis' = show /\ commands' = CommandsOf(p, show)
    /\ status' = "preview"
    /\ UNCHANGED <<at, show, prog, export, quiet, edits, ignored>>

\* What the commands create: presets of these numbers, and an effect.
Reserved ==
    {commands[k].number : k \in {j \in DOMAIN commands : commands[j].op = "create preset"}}

CreatesEffect == \E k \in DOMAIN commands : commands[k].op = "create effect"

\* The preview is built anew and may not differ in its effects.
DynamicUnchanged ==
    /\ DynamicFits(plan, show)
    /\ \A c \in Cues, f \in Targets : EffectIds(show, c, f) = EffectIds(basis, c, f)

\* The numbers of what is created are looked up again.
ResourcesUnchanged ==
    /\ CreatesEffect => show.effect[Created] = None
    /\ \A n \in Reserved : show.preset[n] = None

\* _ensure_..._state_unchanged: what the second export must have in common
\* with the first.
Unchanged ==
    /\ Snapshot(plan, show) = Snapshot(plan, basis)
    /\ show.labels = basis.labels
    /\ plan.kind = "dynamic" => DynamicUnchanged
    /\ ResourcesUnchanged

Approve ==
    /\ status = "preview"
    /\ status' = IF Unchanged THEN "running" ELSE "STALE"
    /\ UNCHANGED <<plan, basis, commands, at, show, prog, export, quiet, edits, ignored>>

\* The ClearAll of the finally block is heard or it is not.
Fail ==
    /\ status' = "FAILED"
    /\ prog' \in {Cleared, prog}

\* A command is left before the last.
More == at \in DOMAIN commands /\ at # Len(commands)

\* One command; its response is not read as an error.
Send ==
    /\ status = "running" /\ More
    /\ LET cmd == commands[at]
       IN  Accepts(cmd) /\ prog' = Programmer(cmd) /\ show' = Show(cmd)
    /\ at' = at + 1
    /\ UNCHANGED <<plan, basis, commands, status, export, quiet, edits, ignored>>

\* The response reads as an error, or the connection is gone.
Refuse ==
    /\ status = "running" /\ More
    /\ Fail
    /\ quiet' = (quiet /\ ~Accepts(commands[at]))
    /\ UNCHANGED <<plan, basis, commands, at, show, export, edits, ignored>>

\* The console passes the command over and its response is none of the words
\* ma2_response_has_error knows; only a creation is read back at once.
Ignore ==
    /\ status = "running" /\ More
    /\ ignored < MaxIgnored /\ ignored' = ignored + 1
    /\ quiet' = FALSE
    /\ IF commands[at].op \in {"create preset", "create effect"}
       THEN Fail /\ UNCHANGED at
       ELSE at' = at + 1 /\ UNCHANGED <<status, prog>>
    /\ UNCHANGED <<plan, basis, commands, show, export, edits>>

\* verify_existing_position_merge, and the exact comparison of
\* verify_sequence302_resource_merge.
ShowsPosition(s, c, i) ==
    LET is(k) == s.row[c][<<Order[i], <<"PAN", "TILT">>[k]>>].value
    IN  \A k \in 1..2 :
          IF plan.kind = "resources" THEN is(k) = Aim(plan, c, i)[k]
          ELSE Close(is(k), Aim(plan, c, i)[k])

\* The effects a fixture should have in a cue afterwards.
EffectsAfter(c, f) ==
    IF HasEffect(plan, c) THEN {plan.cue[c].effect} ELSE EffectIds(basis, c, f)

\* The presets a plan created have their names and are called everywhere.
ShowsResources(s) ==
    /\ \A c \in Cues, f \in Targets :
          Position(NumberOf(plan, basis, c)) \in PresetRefs(s, c, f)
    /\ \A k \in {j \in 1..Len(commands) : commands[j].op = "create preset"} :
          LET stored == s.preset[commands[k].number]
          IN  stored # None /\ stored.label = commands[k].label

\* verify_existing_cue_dynamic_program_merge and its two siblings.
Matches(s) ==
    /\ Snapshot(plan, s) = Snapshot(plan, basis)
    /\ s.labels = basis.labels
    /\ \A c \in Cues, i \in 1..Len(Order) :
          /\ ShowsPosition(s, c, i)
          /\ plan.kind # "position" => EffectIds(s, c, Order[i]) = EffectsAfter(c, Order[i])
          /\ HasColour(plan, c) => Colour \in PresetRefs(s, c, Order[i])
    /\ plan.kind = "resources" => ShowsResources(s)

\* The commands are through: the native export is compared.
Export ==
    /\ status = "running" /\ at = Len(commands)
    /\ export' = show
    /\ IF Matches(show) THEN status' = "exported" /\ UNCHANGED prog ELSE Fail
    /\ UNCHANGED <<plan, basis, commands, at, show, quiet, edits, ignored>>

\* The list of the cues, their labels with it, is read again, but not for a
\* plan that creates its resources; then the trailing ClearAll.
Conclude ==
    /\ status = "exported"
    /\ status' = IF plan.kind = "resources" \/ show.labels = basis.labels
                 THEN "VERIFIED" ELSE "FAILED"
    /\ prog' \in {Cleared, prog}
    /\ UNCHANGED <<plan, basis, commands, at, show, export, quiet, edits, ignored>>

Step == Approve \/ Send \/ Refuse \/ Ignore \/ Export \/ Conclude

-----------------------------------------------------------------------------
(* The operator, who uses the same programmer and the same show.             *)

Open == status \in {"preview", "running", "exported"}

Edit ==
    /\ Open /\ edits < MaxEdits /\ edits' = edits + 1
    /\ quiet' = FALSE
    /\ UNCHANGED <<plan, basis, commands, at, status, export, ignored>>

EditCue(e) ==
    Edit /\ show' = [show EXCEPT !.row[e.cue][e.slot] = e.row] /\ UNCHANGED prog

Touch(e) ==
    /\ Edit
    /\ prog' = [prog EXCEPT !.selection = {e.slot[1]}, !.used = TRUE, !.row[e.slot] = e.row]
    /\ UNCHANGED show

Relabel == Edit /\ show' = [show EXCEPT !.labels = "new"] /\ UNCHANGED prog

\* by: whether the approval could still see it.
Stamp == IF status = "preview" THEN "early" ELSE "late"

StorePreset(n) ==
    /\ Edit
    /\ show' = [show EXCEPT !.preset[n] =
                   [label |-> "own", by |-> Stamp, at |-> [f \in Fixtures |-> <<None, None>>]]]
    /\ UNCHANGED prog

StoreEffect == Edit /\ show' = [show EXCEPT !.effect[Created] = Stamp] /\ UNCHANGED prog

Operator ==
    \/ \E e \in Edits : EditCue(e) \/ Touch(e)
    \/ Relabel \/ StoreEffect
    \/ \E n \in Numbers : StorePreset(n)

\* Nobody has to ask for a merge, and nothing follows its end.
Concluded == status \in {"none", "VERIFIED", "FAILED", "STALE"} /\ UNCHANGED vars

Next == (\E p \in Plans : Preview(p)) \/ Step \/ Operator \/ Concluded

Spec == Init /\ [][Next]_vars /\ WF_vars(Step)

-----------------------------------------------------------------------------
TypeOK ==
    /\ status \in {"none", "preview", "running", "exported", "VERIFIED", "FAILED", "STALE"}
    /\ plan \in Plans \cup {None}
    /\ at \in Nat \ {0}
    /\ DOMAIN show.row = Cues /\ \A c \in Cues : DOMAIN show.row[c] = Slots
    /\ DOMAIN prog.row = Slots
    /\ quiet \in BOOLEAN /\ edits \in 0..MaxEdits /\ ignored \in 0..MaxIgnored

\* The workflow stays within its commands, and its commands within the rig.
InWorkflow == at \in 1..(Len(commands) + 1) /\ prog.selection \subseteq Fixtures

\* What a row that was was becomes by the plan.  MARK of a target may change,
\* and a position plan may change the position of any other fixture and an
\* effect on that of a target: the code compares none of them.
AsPlanned(c, x, was, is) ==
    CASE OnTarget(x) /\ x[2] \in {"PAN", "TILT"} ->
           /\ plan.kind = "position" \/ is.effect = was.effect
           /\ \E i \in 1..Len(Order), k \in 1..2 :
                 /\ x = <<Order[i], <<"PAN", "TILT">>[k]>>
                 /\ is.value = Aim(plan, c, i)[k] \/ Close(is.value, Aim(plan, c, i)[k])
      [] OnTarget(x) /\ x[2] = "COLOR" /\ HasColour(plan, c) ->
           is.preset = Colour /\ is.effect = was.effect
      [] OnTarget(x) /\ x[2] = "DIM" /\ HasEffect(plan, c) ->
           is = [was EXCEPT !.effect = plan.cue[c].effect]
      [] OnTarget(x) /\ x[2] = "MARK" -> TRUE
      [] ~OnTarget(x) /\ PositionRow(x) /\ plan.kind = "position" -> TRUE
      [] OTHER -> is = was

\* A merge is reported VERIFIED only if the cues it left have the labels they
\* had when its preview was built and differ by the plan and by what AsPlanned
\* excepts: whatever the operator did meanwhile to the cues or the shared
\* programmer, and whatever commands went astray.
VerifiedIsApproved ==
    status = "VERIFIED" =>
        /\ export.labels = basis.labels
        /\ \A c \in Cues, x \in Slots : AsPlanned(c, x, basis.row[c][x], export.row[c][x])

\* A merge nobody interferes with is not called stale and does not fail: the
\* console's own way of storing a plan never looks like a foreign change, and
\* a value survives its way through the command.
UndisturbedVerifies == quiet => status \notin {"STALE", "FAILED"}

\* A preset or an effect that the operator stored before the approval is not
\* overwritten by one the plan creates.
OwnKept ==
    /\ \A n \in Numbers :
          (show.preset[n] # None /\ show.preset[n].by = "early") =>
              show'.preset[n] = show.preset[n] \/ show'.preset[n].by = Stamp
    /\ show.effect[Created] = "early" => show'.effect[Created] \in {"early", Stamp}

\* A merge that was approved ends.
UnderWay == status \in {"running", "exported"}
=============================================================================
