------------------------------ MODULE MCBridge ------------------------------
(***************************************************************************)
(* Two ways into the host that neither wait for a model nor share state:   *)
(* requests over the bridge, and the evidence a design may rely on.  A     *)
(* behaviour is one of a part, chosen at the start; the bridge rests while *)
(* the other part runs, whose variables are Off otherwise.                 *)
(***************************************************************************)
EXTENDS Bridge, FiniteSets, TLC

CONSTANTS
    Parts, Off,
    Fixtures, Presets, Slots, Probes, Shows, None, MaxTasks, MaxMishaps   \* Evidence

VARIABLES
    part,   \* what is going on: bridge, evidence
    members, label, holds, prog, active, selected, taken, seq,
    store, fresh, typed,
    pc, task, phase, plan, at, export,
    applications, targets, offered, aimed,
    linked, during, kept, last, quiet, result,
    tasks, mishaps

Proof == INSTANCE Evidence

OwnEvidence ==
    <<members, label, holds, prog, active, selected, taken, seq, store, fresh, typed,
      pc, task, phase, plan, at, export, applications, targets, offered, aimed,
      linked, during, kept, last, quiet, result, tasks, mishaps>>

ASSUME ConstantsFit == Proof!EvidenceAssumption

\* Another show: all fixtures are in the group, preset 1 has its label and preset
\* 2 that of a calibration, and the first sequence is taken.
OtherShows ==
    {[members |-> Fixtures, label |-> [n \in Presets |-> IF n = 1 THEN "look" ELSE "ours"],
      holds |-> [n \in Presets |-> Fixtures], taken |-> Slots]}

-----------------------------------------------------------------------------
OffEvidence ==
    /\ members = Off /\ label = Off /\ holds = Off /\ prog = Off /\ active = Off
    /\ selected = Off /\ taken = Off /\ seq = Off
    /\ store = Off /\ fresh = Off /\ typed = Off
    /\ pc = Off /\ task = Off /\ phase = Off /\ plan = Off /\ at = Off
    /\ export = Off
    /\ applications = Off /\ targets = Off /\ offered = Off /\ aimed = Off
    /\ linked = Off /\ during = Off /\ kept = Off /\ last = Off
    /\ quiet = Off /\ result = Off /\ tasks = Off /\ mishaps = Off

AllInit ==
    /\ part \in Parts /\ Init
    /\ \/ part = "bridge" /\ OffEvidence
       \/ part = "evidence" /\ Proof!Init /\ remote = "NO"

AllNext ==
    \/ part = "bridge" /\ Next /\ UNCHANGED <<part, OwnEvidence>>
    \/ part = "evidence" /\ Proof!Next /\ UNCHANGED <<part, vars>>

AllSpec == AllInit /\ [][AllNext]_<<part, vars, OwnEvidence>>

-----------------------------------------------------------------------------

\* Every recorded binding names a preset and a membership such that a stored cue
\* was linked to it on exactly these fixtures (Evidence, record_after_readback).
EvidenceIsTrue == part = "evidence" => Proof!TypeOK /\ Proof!EvidenceIsTrue

\* A design is offered what was so while it read the show (Evidence,
\* _build_current_artistic_resource_map).
OfferedIsCurrent == part = "evidence" => Proof!OfferedIsCurrent

\* A probe that nothing disturbs is verified, and its binding is offered as
\* long as the show is as it was (Evidence, the three executors).
QuietVerifies == part = "evidence" => Proof!QuietVerifies

Symmetry == Permutations(Fixtures)
=============================================================================
