------------------------------- MODULE MCDesign -------------------------------
(***************************************************************************)
(* Design for TLC: three contexts, five kinds of provider slots, a rig of  *)
(* three fixtures, and two plans of each kind of merge, besides one that   *)
(* no preview is built for.                                                *)
(***************************************************************************)
EXTENDS Design, TLC

CONSTANTS
    LiveShow, OtherLiveShow, Old, New,   \* what a context is made of
    MergeKinds,                          \* of the plans: position, dynamic, resources
    Fine                                 \* whether their positions have more decimals

MCContexts ==
    {[show |-> NoShow, text |-> Old], [show |-> LiveShow, text |-> Old],
     [show |-> OtherLiveShow, text |-> New]}

\* Profiles that the four modes order differently, and one that is not asked
\* (a slot for "other" roles is passed over like one that is "off").
Slot(kind, cost, priority) == [kind |-> kind, cost |-> cost, priority |-> priority]

MCProfiles ==
    {Slot("other", "FREE", 1), Slot("specific", "FREE", 2), Slot("general", "FREE", 1),
     Slot("specific", "PAID", 1), Slot("general", "LOCAL", 2)}

MCWidths == 1..2

\* Two fixtures in a group, one outside, and two cues.  At first cue 2 may hold
\* an effect that was verified.
MCOrder  == <<"a", "b">>
MCOthers == {"z"}
MCCues   == {1, 2}

Row(v, p, e) == [value |-> v, preset |-> p, effect |-> e]

Plain ==
    [x \in {"a", "b", "z"} \X {"PAN", "TILT", "MARK", "COLOR", "DIM"} |->
        IF x[2] \in {"PAN", "TILT"} THEN Row(200000, None, None)
        ELSE Row(0, None, None)]

MCRows ==
    { [c \in MCCues |-> Plain],
      [c \in MCCues |-> IF c = 2 THEN [Plain EXCEPT ![<<"b", "DIM">>].effect = 700] ELSE Plain] }

\* What the operator stores: a position, a colour or an effect, on a fixture
\* of the group or outside it.
MCEdits ==
    { [cue |-> 1, slot |-> <<"a", "PAN">>,   row |-> Row(1, None, None)],
      [cue |-> 1, slot |-> <<"z", "PAN">>,   row |-> Row(1, None, None)],
      [cue |-> 2, slot |-> <<"b", "MARK">>,  row |-> Row(1, None, None)],
      [cue |-> 1, slot |-> <<"a", "COLOR">>, row |-> Row(7, <<4, 2>>, None)],
      [cue |-> 1, slot |-> <<"z", "COLOR">>, row |-> Row(7, <<4, 2>>, None)],
      [cue |-> 2, slot |-> <<"b", "DIM">>,   row |-> Row(0, None, 700)] }

Positions ==
    << [words |-> {}], [words |-> {"WHITE IMPACT", "BUILD"}], [words |-> {"ASCENT"}] >>

Programs ==
    << [pattern |-> "CENTER",    scale |-> 10, colour |-> FALSE, effect |-> None,
        avoid |-> {}, use |-> {"POSITION"}],
       [pattern |-> "WIDE_FAN",  scale |-> 5,  colour |-> TRUE,  effect |-> 700,
        avoid |-> {}, use |-> {"COLOR", "EFFECT"}],
       [pattern |-> "ALTERNATE", scale |-> 25, colour |-> TRUE,  effect |-> None,
        avoid |-> {"EFFECT"}, use |-> {}],
       [pattern |-> "LEFT",      scale |-> 10, colour |-> FALSE, effect |-> 700,
        avoid |-> {}, use |-> {"COLOR"}] >>

\* With more than three decimals, as the plan in data/ has them, or without.
Raws ==
    LET close == << <<100000, 200000>>, <<100000, 150000>> >>
        far   == << <<90000, 200000>>, <<110010, 200000>> >>
        fine  == << <<157143, 200000>>, <<157143, 200000>> >>
    IN  IF Fine THEN <<fine, fine>> ELSE <<close, close, far>>

\* What cue 1 and cue 2 may be given: one of s and its successor.
Pairs(s) == { <<s[i], s[i + 1]>> : i \in 1..(Len(s) - 1) }

PlansOf(kind) ==
    CASE kind = "position" -> Pairs(Positions)
      [] kind = "dynamic"  -> Pairs(Programs)
      [] OTHER -> { << [raw |-> q[1], effect |-> 2500, name |-> "one"],
                       [raw |-> q[2], effect |-> None, name |-> "two"] >> : q \in Pairs(Raws) }

MCPlans ==
    UNION { {[kind |-> kind, cue |-> q] : q \in PlansOf(kind)} : kind \in MergeKinds }

\* They have three decimals at most where they should.
ASSUME MergesAreExact == Fine \/ \A p \in Plans : Exact(p)
=============================================================================
