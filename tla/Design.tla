-------------------------------- MODULE Design --------------------------------
(***************************************************************************)
(* The design of a show by several language models and its way into cues   *)
(* that exist: one request to the pool of providers, the run of all the    *)
(* roles, the revision of a finished run, and the merge of positions and   *)
(* effects into a stored sequence.  As in MCHost a behaviour is one of a   *)
(* part, chosen at the start, while the variables of the others are Off.   *)
(***************************************************************************)
EXTENDS Integers, Sequences, FiniteSets

CONSTANTS
    Parts, Off,
    N, Profiles, Widths,                                       \* ProviderRouter
    Requests, Contexts, NoShow, Gone, Torn, MaxCalls, MaxStops,
    MaxAttempts, Restarts, Faults,                             \* DesignRun
    Ids, MaxCycles,                                            \* RevisionLoop
    None, Order, Others, Cues, Plans, Rows, Edits, MaxEdits, MaxIgnored  \* CueMerge

VARIABLES
    part,   \* what is going on: router, run, revision, merge
    mode, pool, parallel, parallelism, limit, candidates, phase, asked, running,
    reply, results,
    call, result, spoiled,
    source, cycle, look, completed, fresh, visual, review, final,
    disk, pc, in, role, attempt, stops,
    plan, basis, commands, at, status, show, prog, export, quiet, edits, ignored

\* A context without a live show, and two live shows.
Router   == INSTANCE ProviderRouter
Run      == INSTANCE DesignRun
Revision == INSTANCE RevisionLoop
Merge    == INSTANCE CueMerge

OwnRouter ==
    <<mode, pool, parallel, parallelism, limit, candidates, phase, asked, running,
      reply, results>>
OwnRun      == <<call, result, spoiled>>
OwnRevision == <<source, cycle, look, completed, fresh, visual, review, final>>
Shared      == <<disk, pc, in, role, attempt, stops>>
OwnMerge    ==
    <<plan, basis, commands, at, status, show, prog, export, quiet, edits,
      ignored>>
vars        == <<part, OwnRouter, OwnRun, OwnRevision, Shared, OwnMerge>>

ASSUME ConstantsFit ==
    /\ Router!RouterAssumption /\ Run!DesignRunAssumption /\ Revision!RevisionAssumption
    /\ Merge!CueMergeAssumption

-----------------------------------------------------------------------------
OffRouter ==
    /\ mode = Off /\ pool = Off /\ parallel = Off /\ parallelism = Off
    /\ limit = Off /\ candidates = Off /\ phase = Off /\ asked = Off
    /\ running = Off /\ reply = Off /\ results = Off

OffRun == call = Off /\ result = Off /\ spoiled = Off

OffRevision ==
    /\ source = Off /\ cycle = Off /\ look = Off /\ completed = Off
    /\ fresh = Off /\ visual = Off /\ review = Off /\ final = Off

OffShared ==
    /\ disk = Off /\ pc = Off /\ in = Off /\ role = Off /\ attempt = Off
    /\ stops = Off

OffMerge ==
    /\ plan = Off /\ basis = Off /\ commands = Off /\ at = Off
    /\ status = Off /\ show = Off /\ prog = Off /\ export = Off
    /\ quiet = Off /\ edits = Off /\ ignored = Off

RouterStarts ==
    /\ part = "router" /\ Router!Init
    /\ OffRun /\ OffRevision /\ OffShared /\ OffMerge

RunStarts ==
    /\ part = "run" /\ Run!Init
    /\ OffRouter /\ OffRevision /\ OffMerge

RevisionStarts ==
    /\ part = "revision" /\ Revision!Init
    /\ OffRouter /\ OffRun /\ OffMerge

MergeStarts ==
    /\ part = "merge" /\ Merge!Init
    /\ OffRouter /\ OffRun /\ OffRevision /\ OffShared

Init ==
    /\ part \in Parts
    /\ RouterStarts \/ RunStarts \/ RevisionStarts \/ MergeStarts

RouterDoes(A) ==
    /\ part = "router" /\ A
    /\ UNCHANGED <<part, OwnRun, OwnRevision, Shared, OwnMerge>>

RunDoes(A) ==
    part = "run" /\ A /\ UNCHANGED <<part, OwnRouter, OwnRevision, OwnMerge>>

RevisionDoes(A) ==
    part = "revision" /\ A /\ UNCHANGED <<part, OwnRouter, OwnRun, OwnMerge>>

MergeDoes(A) ==
    /\ part = "merge" /\ A
    /\ UNCHANGED <<part, OwnRouter, OwnRun, OwnRevision, Shared>>

Next ==
    \/ RouterDoes(Router!Next)
    \/ RunDoes(Run!Next)
    \/ RevisionDoes(Revision!Next)
    \/ MergeDoes(Merge!Next)

\* What was begun goes on.
Spec ==
    /\ Init /\ [][Next]_vars
    /\ WF_vars(\/ RouterDoes(Router!Step) \/ RunDoes(Run!Step)
               \/ RevisionDoes(Revision!Step) \/ MergeDoes(Merge!Step))

-----------------------------------------------------------------------------

\* A request to the pool returns the answers of the most preferred providers
\* that gave one, after asking every one it should and none it need not
\* (ProviderRouter, complete_parallel_with_diagnostics).
BestAnswers ==
    part = "router" =>
        /\ Router!TypeOK
        /\ Router!ReturnsPreferred /\ Router!Backfilled
        /\ Router!NoneWasted /\ Router!CheapFirst

\* The checkpoints of a run belong together, and what it returns or is
\* recorded to have done is whole and for the request of the call (DesignRun,
\* the resume gates of run_multi_agent_design).
OneRun ==
    part = "run" =>
        /\ Run!TypeOK
        /\ Run!OneRequest /\ Run!OneContext /\ Run!BuiltOnUpstream
        /\ Run!ReturnsOwn /\ Run!CompleteIsWhole

\* Neither a checkpoint nor a revision is overwritten (DesignRun and
\* RevisionLoop, their directories), nor a preset or an effect of the
\* operator's by one that a merge creates (CueMerge, the second export).
NeverOverwritten ==
    [][/\ part = "run" => Run!KeepsCheckpoints
       /\ part = "revision" => Revision!RecordsStay
       /\ part = "merge" => Merge!OwnKept]_vars

\* docs/MULTI_AGENT_DESIGN_PLAN.md: an interrupted run can be resumed, when
\* the process stopped between two writes (DesignRun).
Resumes == part = "run" => Run!Resumes

\* The same when it stopped anywhere.  It does not hold (DesignRun).
AlwaysResumes == part = "run" => Run!AlwaysResumes

\* A recorded revision is of its last cycle, whose critic judged what is
\* returned, and no blocker was cleared otherwise; its record is whole, and
\* claims that the picture was looked at if and only if it was (RevisionLoop).
ReviewIsTrue ==
    part = "revision" =>
        /\ Revision!TypeOK
        /\ Revision!LatestJudged /\ Revision!BlockerNotCleared
        /\ Revision!NoFalseVisual /\ Revision!RecordIsWhole

\* A merge reported VERIFIED changed the cues by its plan and nothing else,
\* whatever the operator did meanwhile, but for what no verifier compares:
\* MARK of a target and, if the plan is of positions only, the position of
\* other fixtures and an effect on a target's position (CueMerge!AsPlanned).
VerifiedIsApproved ==
    part = "merge" => Merge!TypeOK /\ Merge!VerifiedIsApproved

\* The positions of a plan have three decimals at most, which is what a
\* command carries (_fmt).
Exact(p) ==
    p.kind = "resources" =>
        \A c \in Cues, j \in 1..Len(Order), k \in 1..2 :
           Merge!Sent(p, c, j)[k] = Merge!Aim(p, c, j)[k]

\* A merge nobody interferes with does not fail its own verification, and
\* its commands select no fixture but those of the rig (CueMerge).
UndisturbedVerifies == part = "merge" => Merge!InWorkflow /\ Merge!UndisturbedVerifies

\* A request, a run, a revision and an approved merge come to an end
\* (ProviderRouter, DesignRun, RevisionLoop, CueMerge).
Busy ==
    \/ part = "router"   /\ Router!Waiting
    \/ part = "run"      /\ Run!UnderWay
    \/ part = "revision" /\ Revision!UnderWay
    \/ part = "merge"    /\ Merge!UnderWay

Ends == Busy ~> ~Busy
=============================================================================
