---------------------------- MODULE DesignProofs ----------------------------
(***************************************************************************)
(* The four parts of Design are what they should be for every number of    *)
(* slots, calls, stops and attempts, every set of requests, directories,   *)
(* plans, fixtures, cues and edits.  Each has an invariant of its own that *)
(* says what holds at every place of its program: RunInvariant what every  *)
(* checkpoint was built from, RevInvariant what a call has read and        *)
(* written so far, MergeInvariant what the preview was built from, what    *)
(* the approval found free and what the accepted export shows, and         *)
(* RouterInvariant who was asked and who answered so far.                  *)
(***************************************************************************)
EXTENDS Design, FiniteSetTheorems, TLAPS

-----------------------------------------------------------------------------
(* The roles of a run and the order they are asked in.                      *)

InOrder(live) ==
    {"researcher", "lighting_designer", "critic", "finalizer"} \cup
        (IF live THEN {"rig_designer", "position_designer"} ELSE {})

Place(r) ==
    CASE r = "researcher"        -> 1
      [] r = "rig_designer"      -> 2
      [] r = "position_designer" -> 3
      [] r = "lighting_designer" -> 4
      [] r = "critic"            -> 5
      [] r = "finalizer"         -> 6

Shown(r, live) ==
    CASE r = "researcher"        -> {}
      [] r = "rig_designer"      -> {"researcher"}
      [] r = "position_designer" -> {"researcher", "rig_designer"}
      [] r = "lighting_designer" ->
            IF live THEN {"researcher", "rig_designer", "position_designer"} ELSE {"researcher"}
      [] r = "critic"            -> InOrder(live) \ {"critic", "finalizer"}
      [] r = "finalizer"         -> InOrder(live) \ {"finalizer"}

ForLive(context) == context.show # NoShow

LEMMA RolesAre ==
    /\ Run!Roles = {"researcher", "rig_designer", "position_designer", "lighting_designer",
                    "critic", "finalizer"}
    /\ Run!Files = Run!Roles \cup {"run", "source", "final", "review"}
    BY DEF Run!Roles, Run!Files, Run!ToSet, Run!LIVE_SHOW_ROLE_SEQUENCE

LEMMA OrderIs ==
    /\ Run!Live <=> ForLive(in.context)
    /\ \A r : r \in InOrder(ForLive(in.context)) <=> \E i \in DOMAIN Run!RoleOrder : Run!RoleOrder[i] = r
    /\ \A i, j \in DOMAIN Run!RoleOrder :
          i < j <=> Place(Run!RoleOrder[i]) < Place(Run!RoleOrder[j])
<1>1. CASE Run!Live
  <2>1. Run!RoleOrder = Run!LIVE_SHOW_ROLE_SEQUENCE
    BY <1>1 DEF Run!RoleOrder
  <2> QED BY <1>1, <2>1 DEF Run!Live, ForLive, InOrder, Place, Run!LIVE_SHOW_ROLE_SEQUENCE
<1>2. CASE ~Run!Live
  <2>1. Run!RoleOrder = Run!ROLE_SEQUENCE
    BY <1>2 DEF Run!RoleOrder
  <2> QED BY <1>2, <2>1 DEF Run!Live, ForLive, InOrder, Place, Run!ROLE_SEQUENCE
<1> QED BY <1>1, <1>2

LEMMA OrderedRoles ==
    ASSUME NEW live
    PROVE  /\ InOrder(live) \subseteq Run!Roles
           /\ \A r \in InOrder(live) : \A u \in Shown(r, live) :
                 u \in InOrder(live) /\ Place(u) < Place(r)
           /\ \A r, u \in InOrder(live) : u = r \/ Place(u) < Place(r) \/ Place(r) < Place(u)
           /\ \A r, u \in InOrder(live) : ~(Place(u) < Place(r) /\ Place(r) < Place(u))
           /\ \A r \in InOrder(live) : ~(Place(r) < Place(r))
    BY RolesAre DEF InOrder, Place, Shown

LEMMA NeedsAre ==
    ASSUME NEW r \in Run!Roles PROVE Run!Needs(r) = Shown(r, ForLive(in.context))
<1>1. Run!ToSet(Run!RoleOrder) = InOrder(ForLive(in.context))
    BY OrderIs DEF Run!ToSet
<1> QED BY <1>1, OrderIs, RolesAre DEF Run!Needs, Shown

\* The checkpoints are those of the first roles.
FirstOnes(live) ==
    /\ \A r \in Run!Roles : disk[r] # Gone => r \in InOrder(live)
    /\ \A r, u \in InOrder(live) : Place(u) < Place(r) /\ disk[r] # Gone => disk[u] # Gone

LEMMA PrefixIs == ~Run!NotPrefix <=> FirstOnes(ForLive(in.context))
<1>1. Run!ToSet(Run!RoleOrder) = InOrder(ForLive(in.context))
    BY OrderIs DEF Run!ToSet
<1>2. \A i \in DOMAIN Run!RoleOrder : Run!RoleOrder[i] \in Run!Roles
    BY OrderIs, OrderedRoles
<1>3. \A r \in Run!Roles : r \in Run!Checkpoints <=> disk[r] # Gone
    BY DEF Run!Checkpoints
<1>4. Run!Checkpoints \subseteq Run!ToSet(Run!RoleOrder) <=>
          \A r \in Run!Roles : disk[r] # Gone => r \in InOrder(ForLive(in.context))
    BY <1>1 DEF Run!Checkpoints
<1>5. (\E i, j \in DOMAIN Run!RoleOrder :
          i < j /\ Run!RoleOrder[i] \notin Run!Checkpoints /\ Run!RoleOrder[j] \in Run!Checkpoints)
      <=> ~(\A r, u \in InOrder(ForLive(in.context)) : Place(u) < Place(r) /\ disk[r] # Gone => disk[u] # Gone)
    BY <1>2, <1>3, OrderIs
<1> QED BY <1>4, <1>5 DEF Run!NotPrefix, FirstOnes

LEMMA LeastOfSix ==
    ASSUME NEW S \in SUBSET (1..6), S # {} PROVE \E i \in S : \A j \in S : i <= j
<1>1. \A j \in S : j = 1 \/ j = 2 \/ j = 3 \/ j = 4 \/ j = 5 \/ j = 6
    OBVIOUS
<1>2. \E i \in S : TRUE
    OBVIOUS
<1>3. \A k \in 1..6 : k \in S /\ (\A j \in 1..(k - 1) : j \notin S) => \A j \in S : k <= j
    OBVIOUS
<1> QED BY <1>1, <1>2, <1>3

LEMMA FirstIs ==
    /\ Run!Todo = {} => \A r \in InOrder(ForLive(in.context)) : disk[r] # Gone
    /\ Run!Todo # {} =>
          /\ Run!First \in InOrder(ForLive(in.context)) /\ disk[Run!First] = Gone
          /\ \A u \in InOrder(ForLive(in.context)) : Place(u) < Place(Run!First) => disk[u] # Gone
<1>1. Run!Todo = {} => \A r \in InOrder(ForLive(in.context)) : disk[r] # Gone
    BY OrderIs DEF Run!Todo
<1>2. ASSUME Run!Todo # {}
      PROVE  /\ Run!First \in InOrder(ForLive(in.context)) /\ disk[Run!First] = Gone
             /\ \A u \in InOrder(ForLive(in.context)) : Place(u) < Place(Run!First) => disk[u] # Gone
  <2>1. DOMAIN Run!RoleOrder \subseteq 1..6
    BY DEF Run!RoleOrder, Run!LIVE_SHOW_ROLE_SEQUENCE, Run!ROLE_SEQUENCE
  <2>2. Run!Todo \in SUBSET (1..6)
    BY <2>1 DEF Run!Todo
  <2>3. \E i \in Run!Todo : \A j \in Run!Todo : i <= j
    BY <1>2, <2>2, LeastOfSix
  <2>4. Run!Min(Run!Todo) \in Run!Todo /\ \A j \in Run!Todo : Run!Min(Run!Todo) <= j
    BY <2>3 DEF Run!Min
  <2>5. PICK i : i = Run!Min(Run!Todo)
    OBVIOUS
  <2>6. /\ i \in DOMAIN Run!RoleOrder /\ Run!First = Run!RoleOrder[i] /\ disk[Run!First] = Gone
        /\ \A j \in DOMAIN Run!RoleOrder : disk[Run!RoleOrder[j]] = Gone => i <= j
    BY <2>4, <2>5 DEF Run!Todo, Run!First
  <2>7. \A u \in InOrder(ForLive(in.context)) : Place(u) < Place(Run!First) => disk[u] # Gone
    <3> SUFFICES ASSUME NEW j \in DOMAIN Run!RoleOrder,
                        Place(Run!RoleOrder[j]) < Place(Run!First)
                 PROVE  disk[Run!RoleOrder[j]] # Gone
        BY OrderIs
    <3>1. j < i
        BY <2>6, OrderIs
    <3> QED BY <2>1, <2>6, <3>1
  <2> QED BY <2>6, <2>7, OrderIs
<1> QED BY <1>1, <1>2

-----------------------------------------------------------------------------
DiskTypes ==
    /\ disk = [f \in Run!Files |-> disk[f]]
    /\ disk["run"] \in {Gone, Torn} \cup Run!RunStates
    /\ disk["source"] \in {Gone, Torn} \cup Requests
    /\ \A f \in Run!Roles \cup {"final"} : disk[f] \in {Gone, Torn} \cup Run!Artifacts
    /\ disk["review"] \in {Gone, Torn} \cup 1..MaxCalls

RunTypes ==
    /\ pc \in {"idle", "archive", "open", "write_source", "check", "write_run",
               "role", "attempt", "write_step", "log", "finish", "write_final",
               "write_review", "write_finalizer", "complete", "failed",
               "returned", "refused", "raised"}
    /\ in \in [request: Requests, context: Contexts]
    /\ call \in 0..MaxCalls /\ role \in Run!Roles
    /\ attempt \in 1..MaxAttempts /\ stops \in 0..MaxStops
    /\ result \in {Gone} \cup Run!Artifacts
    /\ spoiled \in SUBSET {"write", "archive"}

\* What a call knows of the checkpoints where it is: the gates of the resume let it
\* pass, run.json is its own, the role asked is the first without one.
Asking   == {"role", "attempt", "write_step", "log", "failed"}
Ending   == {"finish", "write_final", "write_review", "write_finalizer", "complete"}
Working  == Asking \cup Ending

Passed ==
    /\ FirstOnes(ForLive(in.context))
    /\ \A r \in Run!Roles :
          /\ disk[r] # Torn
          /\ disk[r] # Gone => (ForLive(disk[r].context) <=> ForLive(in.context))

Complete == Run!Readable("run") /\ disk["run"].status = "COMPLETE"

Gates ==
    /\ pc # "idle" => call \in 1..MaxCalls
    /\ pc = "write_source" => disk["source"] = Gone
    /\ pc \in Working \cup {"write_run"} => Passed
    /\ pc = "write_run" => ~Run!Mixed /\ ~Complete
    /\ pc \in Working => disk["run"] = Run!RunState("RUNNING")

Turn ==
    pc \in {"attempt", "write_step"} =>
        /\ role \in InOrder(ForLive(in.context)) /\ disk[role] = Gone
        /\ \A u \in InOrder(ForLive(in.context)) : Place(u) < Place(role) => disk[u] # Gone

Closing ==
    /\ pc \in Ending => \A r \in InOrder(ForLive(in.context)) : disk[r] # Gone
    /\ pc \in {"write_review", "write_finalizer", "complete"} =>
          disk["final"] = disk["finalizer"]
    /\ pc \in {"write_finalizer", "complete"} => disk["review"] = disk["critic"].call

\* An artifact was made from what its role was shown, which is there still.
Built ==
    \A r \in Run!Roles : Run!Readable(r) =>
        \A u \in Run!Roles :
            /\ disk[r].basis[u] # 0 <=> u \in Shown(r, ForLive(disk[r].context))
            /\ disk[r].basis[u] # 0 =>
                  disk[u] # Gone /\ (Run!Readable(u) => disk[u].call = disk[r].basis[u])

\* As long as no restart was interrupted everything is of the one request.
OneText ==
    \A r \in Run!Whole : Run!Readable("source") => disk[r].request = disk["source"]

Clean ==
    "archive" \notin spoiled =>
        /\ OneText
        /\ Run!Readable("final") /\ Run!Readable("finalizer") =>
              disk["final"] = disk["finalizer"]
        /\ pc # "archive" =>
              /\ ~Run!Readable("source") =>
                    \A f \in Run!Roles \cup {"run", "final"} : disk[f] = Gone
              /\ Run!Readable("final") => disk["finalizer"] # Gone
        /\ pc \in Working \cup {"check", "write_run"} => disk["source"] = in.request
        /\ pc = "returned" => result = disk["finalizer"] /\ result.request = in.request

WholeRun ==
    Complete =>
        /\ \A r \in Run!Roles :
              disk[r] # Torn /\ (disk[r] # Gone <=> r \in InOrder(ForLive(disk["run"].context)))
        /\ disk["final"] = disk["finalizer"] /\ disk["review"] = disk["critic"].call

\* As long as no stop fell into a write or a restart, run.json tells the context of
\* every checkpoint.
Known ==
    /\ Run!Readable("run") /\ FirstOnes(ForLive(disk["run"].context))
    /\ \A r \in Run!Roles :
          disk[r] # Torn /\ (disk[r] # Gone => disk[r].context = disk["run"].context)

Unspoiled ==
    spoiled = {} =>
        /\ \A r, s \in Run!Whole : disk[r].context = disk[s].context
        /\ pc # "archive" /\ (\E r \in Run!Roles : disk[r] # Gone) => Known
        /\ pc = "refused" => ~Run!SameInputs

RunInv ==
    /\ DiskTypes /\ RunTypes /\ Gates /\ Turn /\ Closing
    /\ Built /\ Clean /\ WholeRun /\ Unspoiled

RunInvariant == part = "run" => RunInv

LEMMA RunHasTypes == DiskTypes /\ RunTypes => Run!TypeOK
    BY RolesAre DEF DiskTypes, RunTypes, Run!TypeOK

LEMMA RunTypesNext == DiskTypes' /\ RunTypes' => Run!TypeOK'
    BY RolesAre DEF DiskTypes, RunTypes, Run!TypeOK

LEMMA RunInit ==
    ASSUME Run!DesignRunAssumption, Run!Init PROVE RunInv
<1> USE DEF Run!Init
<1>1. \A f \in Run!Files : disk[f] = Gone
    OBVIOUS
<1>2. DiskTypes
    BY <1>1, RolesAre DEF DiskTypes
<1>3. RunTypes
    BY RolesAre DEF RunTypes, Run!DesignRunAssumption
<1>4. Gates /\ Turn /\ Closing
    BY DEF Gates, Turn, Closing, Working, Asking, Ending
<1>5. \A f \in Run!Files : ~Run!Readable(f)
    BY <1>1 DEF Run!Readable
<1>6. Built /\ WholeRun
    BY <1>5, RolesAre DEF Built, WholeRun, Complete
<1>7. Clean
    BY <1>1, <1>5, RolesAre DEF Clean, OneText, Run!Whole, Working, Asking, Ending
<1>8. Unspoiled
    BY <1>1, <1>5, RolesAre DEF Unspoiled, Run!Whole
<1> QED BY <1>2, <1>3, <1>4, <1>6, <1>7, <1>8 DEF RunInv

\* What is said of the files stays when they do.
LEMMA FilesRest ==
    ASSUME UNCHANGED disk
    PROVE  /\ DiskTypes => DiskTypes'
           /\ Built => Built'
           /\ WholeRun => WholeRun'
           /\ Complete' <=> Complete
           /\ Known' <=> Known
           /\ OneText' <=> OneText
           /\ Run!Whole' = Run!Whole
           /\ \A f : Run!Readable(f)' <=> Run!Readable(f)
           /\ Run!KeepsCheckpoints
<1>1. DiskTypes => DiskTypes'
    BY DEF DiskTypes
<1>2. Built => Built'
    BY DEF Built, Run!Readable
<1>3. WholeRun => WholeRun'
    BY DEF WholeRun, Complete, Run!Readable
<1>4. (Complete' <=> Complete) /\ (Known' <=> Known)
    BY DEF Complete, Known, FirstOnes, Run!Readable
<1>5. \A f : Run!Readable(f)' <=> Run!Readable(f)
    BY DEF Run!Readable
<1>6. Run!Whole' = Run!Whole
    BY <1>5, Zenon DEF Run!Whole
<1>7. OneText' <=> OneText
    BY <1>5, <1>6 DEF OneText
<1>8. Run!KeepsCheckpoints
    BY DEF Run!KeepsCheckpoints, Run!Whole
<1> QED BY <1>1, <1>2, <1>3, <1>4, <1>5, <1>6, <1>7, <1>8

\* A step of a call that writes nothing.
LEMMA Quietly ==
    ASSUME RunInv, UNCHANGED <<disk, in, call, spoiled>>, RunTypes', Turn', Closing',
           pc \notin {"idle", "archive"}, pc' # "archive",
           pc' = "write_source" => disk["source"] = Gone,
           pc' \in Working \cup {"write_run"} => Passed,
           pc' = "write_run" => ~Run!Mixed /\ ~Complete,
           pc' \in Working => disk["run"] = Run!RunState("RUNNING"),
           "archive" \notin spoiled /\ pc' \in Working \cup {"check", "write_run"} =>
               disk["source"] = in.request,
           "archive" \notin spoiled /\ pc' = "returned" =>
               result' = disk["finalizer"] /\ result'.request = in.request,
           spoiled = {} /\ pc' = "refused" => ~Run!SameInputs
    PROVE  RunInv' /\ Run!KeepsCheckpoints
<1>1. DiskTypes' /\ Built' /\ WholeRun' /\ Run!KeepsCheckpoints
    BY FilesRest DEF RunInv
<1>2. /\ Passed' <=> Passed
      /\ Run!Mixed' <=> Run!Mixed
      /\ Run!SameInputs' <=> Run!SameInputs
      /\ Run!RunState("RUNNING")' = Run!RunState("RUNNING")
    BY DEF Passed, FirstOnes, Run!Mixed, Run!SameInputs, Run!RunState, Run!Readable,
           Run!Checkpoints
<1>3. Gates'
    BY <1>2, FilesRest DEF RunInv, Gates
<1>4. Clean'
    BY FilesRest DEF RunInv, Clean
<1>5. Unspoiled'
    BY <1>2, FilesRest DEF RunInv, Unspoiled
<1> QED BY <1>1, <1>3, <1>4, <1>5 DEF RunInv

LEMMA Written ==
    ASSUME DiskTypes, NEW f \in Run!Files, NEW w, disk' = [disk EXCEPT ![f] = w]
    PROVE  /\ disk' = [g \in Run!Files |-> disk'[g]] /\ disk'[f] = w
           /\ \A g \in Run!Files : g # f => disk'[g] = disk[g]
    BY DEF DiskTypes

LEMMA RunRests ==
    ASSUME RunInv, UNCHANGED <<disk, pc, in, call, role, attempt, result, stops, spoiled>>
    PROVE  RunInv' /\ Run!KeepsCheckpoints
<1> USE DEF RunInv
<1>1. DiskTypes' /\ Built' /\ WholeRun' /\ Run!KeepsCheckpoints
    BY FilesRest
<1>2. RunTypes' /\ Turn'
    BY DEF RunTypes, Turn
<1>3. /\ Passed' <=> Passed
      /\ Run!Mixed' <=> Run!Mixed
      /\ Run!SameInputs' <=> Run!SameInputs
      /\ Run!RunState("RUNNING")' = Run!RunState("RUNNING")
    BY DEF Passed, FirstOnes, Run!Mixed, Run!SameInputs, Run!RunState, Run!Readable,
           Run!Checkpoints
<1>4. Gates' /\ Closing'
    BY <1>3, FilesRest DEF Gates, Closing
<1>5. Clean' /\ Unspoiled'
    BY <1>3, FilesRest DEF Clean, Unspoiled
<1> QED BY <1>1, <1>2, <1>4, <1>5

LEMMA RunStep ==
    ASSUME Run!DesignRunAssumption, RunInv, Run!Next
    PROVE  RunInv' /\ Run!KeepsCheckpoints
<1> DEFINE Goal == RunInv' /\ Run!KeepsCheckpoints
<1> USE DEF RunInv
<1>0. Run!Live <=> ForLive(in.context)
    BY OrderIs
<1>1. CASE Run!Start
  <2>1. /\ pc \in {"idle", "returned", "refused", "raised"} /\ call' = call + 1
        /\ call' \in 1..MaxCalls
        /\ in' \in [request: Requests, context: Contexts]
        /\ pc' \in {"archive", "open"} /\ result' = Gone
        /\ role' = "researcher" /\ attempt' = 1
        /\ UNCHANGED <<disk, stops, spoiled>>
    BY <1>1 DEF Run!Start, Run!Over, Run!Goto, RunTypes, Run!DesignRunAssumption
  <2>2. RunTypes'
    BY <2>1, RolesAre DEF RunTypes, Run!DesignRunAssumption
  <2>3. DiskTypes' /\ Built' /\ WholeRun' /\ Run!KeepsCheckpoints
    BY <2>1, FilesRest
  <2>4. Gates' /\ Turn' /\ Closing'
    BY <2>1 DEF Gates, Turn, Closing, Working, Asking, Ending
  <2>5. Clean'
    BY <2>1, FilesRest DEF Clean, Working, Asking, Ending
  <2>6. Unspoiled'
    BY <2>1, FilesRest DEF Unspoiled
  <2> QED BY <2>2, <2>3, <2>4, <2>5, <2>6
<1>2. CASE Run!Open
  <2>1. /\ pc = "open" /\ pc' \in {"check", "refused", "write_source"}
        /\ UNCHANGED <<disk, in, call, role, attempt, result, stops, spoiled>>
        /\ pc' = "write_source" => disk["source"] = Gone /\ ~Run!Readable("run")
        /\ pc' = "check" /\ disk["source"] # Gone => disk["source"] = in.request
        /\ pc' = "check" /\ disk["source"] = Gone => Run!Readable("run")
        /\ pc' = "refused" => ~Run!SameInputs
    BY <1>2 DEF Run!Open, Run!Goto, Run!SameInputs
  <2>2. RunTypes'
    BY <2>1 DEF RunTypes
  <2>3. Turn' /\ Closing'
    BY <2>1 DEF Turn, Closing, Working, Asking, Ending
  <2>4. "archive" \notin spoiled /\ pc' = "check" => disk["source"] = in.request
    BY <2>1, RolesAre DEF Clean, Run!Readable
  <2>5. pc' \notin Working \cup {"write_run", "returned", "archive"}
    BY <2>1 DEF Working, Asking, Ending
  <2> QED BY <2>1, <2>2, <2>3, <2>4, <2>5, Quietly
<1>3. CASE Run!Check
  <2>1. /\ pc = "check" /\ pc' \in {"refused", "returned", "write_run"}
        /\ UNCHANGED <<disk, in, call, role, attempt, stops, spoiled>>
        /\ result' \in {result, disk["final"]}
        /\ pc' = "returned" => /\ Run!Checkpoints = Run!ToSet(Run!RoleOrder) /\ ~Run!Unreadable
                               /\ Run!Readable("final") /\ result' = disk["final"]
        /\ pc' \in {"refused", "write_run"} => result' = result
        /\ pc' = "refused" => \/ Run!Unreadable \/ Run!Mixed \/ Run!NotPrefix \/ Run!OtherShow
                              \/ /\ Run!Checkpoints = Run!ToSet(Run!RoleOrder)
                                 /\ Run!Readable("final")
                                 /\ ~Run!Unreadable /\ ~Run!OtherShow
                                 /\ ~Run!Consistent(disk["final"])
        /\ pc' = "write_run" => /\ ~Run!Unreadable /\ ~Run!Mixed /\ ~Run!NotPrefix /\ ~Run!OtherShow
                                /\ ~(Run!Checkpoints = Run!ToSet(Run!RoleOrder)
                                        /\ Run!Readable("final"))
    BY <1>3 DEF Run!Check, Run!Goto
  <2>2. RunTypes'
    BY <2>1 DEF RunTypes, DiskTypes, Run!Readable
  <2>3. Turn' /\ Closing' /\ pc' \notin Working
    BY <2>1 DEF Turn, Closing, Working, Asking, Ending
  <2>4. Run!ToSet(Run!RoleOrder) = InOrder(ForLive(in.context))
    BY <1>0, OrderIs DEF Run!ToSet
  <2>5. \A r : r \in Run!Checkpoints <=> r \in Run!Roles /\ disk[r] # Gone
    BY DEF Run!Checkpoints
  <2>6. "finalizer" \in InOrder(ForLive(in.context)) /\ "finalizer" \in Run!Roles
    BY RolesAre DEF InOrder
  <2>7. ~Run!Unreadable => \A r \in Run!Roles : disk[r] # Torn
    BY <2>5 DEF Run!Unreadable, Run!DesignRunAssumption
  <2>8. ~Run!OtherShow => \A r \in Run!Roles :
            disk[r] # Gone => (ForLive(disk[r].context) <=> ForLive(in.context))
    BY <2>5 DEF Run!OtherShow, ForLive
  <2>9. pc' = "write_run" => Passed /\ ~Run!Mixed
    BY <1>0, <2>1, <2>7, <2>8, PrefixIs DEF Passed
  <2>10. pc' = "write_run" => ~Complete
    <3> SUFFICES ASSUME pc' = "write_run", Complete PROVE FALSE
        OBVIOUS
    <3>1. /\ \A r \in Run!Roles :
                disk[r] # Torn /\ (disk[r] # Gone <=> r \in InOrder(ForLive(disk["run"].context)))
          /\ disk["final"] = disk["finalizer"] /\ Run!Readable("run")
        BY DEF WholeRun, Complete
    <3>2. disk["finalizer"] # Gone /\ disk["finalizer"] # Torn
        BY <2>6, <3>1, RolesAre DEF InOrder
    <3>3. disk["run"].context = in.context
        BY <2>5, <2>6, <2>9, <3>1, <3>2 DEF Run!Mixed
    <3>4. \A r : r \in Run!Checkpoints <=> r \in Run!ToSet(Run!RoleOrder)
        BY <2>4, <2>5, <3>1, <3>3, OrderedRoles
    <3>5. Run!Readable("final")
        BY <3>1, <3>2 DEF Run!Readable
    <3>6. Run!Checkpoints = Run!ToSet(Run!RoleOrder)
        BY <3>4, Zenon
    <3> QED BY <2>1, <3>5, <3>6
  <2>11. ASSUME "archive" \notin spoiled, Run!Readable("final"), disk["finalizer"] # Gone,
                ~Run!Unreadable
         PROVE  disk["final"] = disk["finalizer"] /\ disk["final"].request = in.request
    <3>1. Run!Readable("finalizer")
        BY <2>6, <2>7, <2>11 DEF Run!Readable
    <3>2. disk["final"] = disk["finalizer"] /\ disk["source"] = in.request
        BY <2>1, <2>11, <3>1 DEF Clean
    <3>3. in.request \notin {Gone, Torn}
        BY DEF RunTypes, Run!DesignRunAssumption
    <3>4. disk["finalizer"].request = disk["source"]
        BY <2>1, <2>6, <2>11, <3>1, <3>2, <3>3 DEF Clean, OneText, Run!Whole, Run!Readable
    <3> QED BY <3>2, <3>4
  <2>12. "archive" \notin spoiled /\ pc' = "returned" =>
             result' = disk["finalizer"] /\ result'.request = in.request
    BY <2>1, <2>4, <2>5, <2>6, <2>11
  <2>13. ASSUME spoiled = {}, pc' = "refused", Run!SameInputs PROVE FALSE
    <3>1. (\E r \in Run!Roles : disk[r] # Gone) => Known
        BY <2>1, <2>13 DEF Unspoiled
    <3>2. Run!Readable("run") => disk["run"].context = in.context
        BY <2>13 DEF Run!SameInputs
    <3>3. ~Run!Unreadable
        BY <2>5, <3>1 DEF Run!Unreadable, Known
    <3>4. ~Run!Mixed
        BY <3>2 DEF Run!Mixed
    <3>5. FirstOnes(ForLive(in.context))
        BY <3>1, <3>2, OrderedRoles DEF Known, FirstOnes
    <3>6. ~Run!NotPrefix
        BY <1>0, <3>5, PrefixIs
    <3>7. ~Run!OtherShow
        BY <2>5, <3>1, <3>2 DEF Run!OtherShow, Known
    <3>8. /\ Run!Checkpoints = Run!ToSet(Run!RoleOrder)
          /\ Run!Readable("final") /\ ~Run!Consistent(disk["final"])
        BY <2>1, <2>13, <3>3, <3>4, <3>6, <3>7
    <3>9. disk["finalizer"] # Gone /\ disk["final"] = disk["finalizer"]
        BY <2>4, <2>5, <2>6, <2>11, <2>13, <3>3, <3>8
    <3>10. Run!Live /\ disk["finalizer"].basis["position_designer"] # disk["position_designer"].call
        BY <3>8, <3>9 DEF Run!Consistent
    <3>11. /\ Run!Readable("finalizer") /\ Run!Readable("position_designer")
           /\ "position_designer" \in Run!Roles
        <4>1. "position_designer" \in InOrder(ForLive(in.context)) \cap Run!Roles
            BY <1>0, <3>10, RolesAre DEF InOrder
        <4>2. disk["position_designer"] # Gone
            BY <2>4, <2>5, <3>8, <4>1
        <4> QED BY <2>6, <2>7, <3>3, <3>9, <4>1, <4>2 DEF Run!Readable
    <3>12. ForLive(disk["finalizer"].context)
        BY <1>0, <2>6, <2>8, <3>7, <3>9, <3>10
    <3>13. "position_designer" \in Shown("finalizer", ForLive(disk["finalizer"].context))
        BY <3>12 DEF Shown, InOrder
    <3> QED BY <2>6, <3>10, <3>11, <3>13 DEF Built
  <2>14. "archive" \notin spoiled => disk["source"] = in.request
    BY <2>1 DEF Clean
  <2> QED BY <2>1, <2>2, <2>3, <2>9, <2>10, <2>12, <2>13, <2>14, Quietly
\* Steps between the gates and the end of a call that write nothing.
<1>4. ASSUME pc \in Working, pc' \in Working \cup {"raised"},
             UNCHANGED <<disk, in, call, spoiled>>, RunTypes', Turn', Closing'
      PROVE  Goal
  <2>1. pc \notin {"idle", "archive"} /\ pc' \notin {"archive", "write_source", "write_run", "check",
                                                     "returned", "refused"}
    BY <1>4 DEF Working, Asking, Ending
  <2>2. Passed /\ disk["run"] = Run!RunState("RUNNING")
    BY <1>4 DEF Gates
  <2>3. "archive" \notin spoiled => disk["source"] = in.request
    BY <1>4 DEF Clean
  <2> QED BY <1>4, <2>1, <2>2, <2>3, Quietly
<1>5. ASSUME Run!NextRole \/ Run!Candidates PROVE Goal
  <2>1. /\ pc = "role" /\ attempt' \in {attempt, 1}
        /\ UNCHANGED <<disk, in, call, result, stops, spoiled>>
        /\ \/ Run!Todo = {} /\ pc' = "finish" /\ role' = role
           \/ Run!Todo # {} /\ pc' \in {"attempt", "write_step"} /\ role' = Run!First
    BY <1>5 DEF Run!NextRole, Run!Candidates, Run!Goto
  <2>2. RunTypes'
    BY <1>0, <2>1, FirstIs, OrderedRoles DEF RunTypes, Run!DesignRunAssumption
  <2>3. Turn'
    BY <1>0, <2>1, FirstIs DEF Turn
  <2>4. Closing'
    BY <1>0, <2>1, FirstIs DEF Closing, Ending
  <2>5. pc \in Working /\ pc' \in Working
    BY <2>1 DEF Working, Asking, Ending
  <2> QED BY <1>4, <2>1, <2>2, <2>3, <2>4, <2>5
<1>6. ASSUME Run!Accept \/ Run!Reject \/ Run!Break \/ Run!Leaks PROVE Goal
  <2>1. /\ pc \in {"attempt", "write_step"} /\ attempt' \in 1..MaxAttempts
        /\ pc' \in {"attempt", "write_step", "failed", "raised"}
        /\ UNCHANGED <<disk, in, call, role, result, stops, spoiled>>
    BY <1>6 DEF Run!Accept, Run!Reject, Run!Break, Run!Leaks, Run!Goto, RunTypes,
                Run!DesignRunAssumption
  <2>2. RunTypes'
    BY <2>1 DEF RunTypes
  <2>3. Turn' /\ Closing'
    BY <2>1 DEF Turn, Closing, Ending
  <2>4. pc \in Working /\ pc' \in Working \cup {"raised"}
    BY <2>1 DEF Working, Asking, Ending
  <2> QED BY <1>4, <2>1, <2>2, <2>3, <2>4
<1>7. CASE Run!Finish
  <2>1. /\ pc = "finish" /\ pc' \in {"write_final", "failed"}
        /\ UNCHANGED <<disk, in, call, role, attempt, result, stops, spoiled>>
    BY <1>7 DEF Run!Finish, Run!Goto
  <2>2. RunTypes'
    BY <2>1 DEF RunTypes
  <2>3. Turn' /\ Closing'
    BY <2>1 DEF Turn, Closing, Ending
  <2>4. pc \in Working /\ pc' \in Working
    BY <2>1 DEF Working, Asking, Ending
  <2> QED BY <1>4, <2>1, <2>2, <2>3, <2>4
\* Nothing but run.json is written.
<1>8. ASSUME NEW word \in {"RUNNING", "FAILED", "COMPLETE"},
             disk' = [disk EXCEPT !["run"] = Run!RunState(word)],
             UNCHANGED <<in, call, role, attempt, stops, spoiled>>,
             pc \in Working \cup {"write_run"}, pc' \in {"role", "raised", "returned"},
             pc' = "role" => word = "RUNNING",
             pc' = "returned" => pc = "complete" /\ result' = disk["finalizer"],
             pc' # "returned" => result' = result,
             word = "COMPLETE" => pc = "complete"
      PROVE  Goal
  <2>1. /\ disk' = [g \in Run!Files |-> disk'[g]] /\ disk'["run"] = Run!RunState(word)
        /\ \A g \in Run!Files : g # "run" => disk'[g] = disk[g]
    <3>1. "run" \in Run!Files
        BY RolesAre
    <3> QED BY <1>8, <3>1, Written
  <2>2. /\ \A r \in Run!Roles : r \in Run!Files /\ disk'[r] = disk[r]
        /\ disk'["source"] = disk["source"] /\ disk'["final"] = disk["final"]
        /\ disk'["review"] = disk["review"]
        /\ "finalizer" \in Run!Roles /\ "critic" \in Run!Roles
    BY <2>1, RolesAre
  <2>3. /\ Run!RunState(word) \in Run!RunStates /\ Run!RunState(word) \notin {Gone, Torn}
        /\ Run!RunState(word).request = in.request /\ Run!RunState(word).context = in.context
        /\ Run!RunState(word).status = word
    BY <1>8 DEF Run!RunState, Run!RunStates, RunTypes, Run!DesignRunAssumption
  <2>4. DiskTypes'
    BY <2>1, <2>2, <2>3 DEF DiskTypes
  <2>5. Passed
    BY <1>8 DEF Gates
  <2>6. pc = "complete" => \A r \in InOrder(ForLive(in.context)) : disk[r] # Gone
    BY DEF Closing, Ending
  <2>7. pc = "complete" => disk["finalizer"] \in Run!Artifacts
    <3>1. "finalizer" \in InOrder(ForLive(in.context))
        BY DEF InOrder
    <3> QED BY <2>2, <2>5, <2>6, <3>1 DEF Passed, DiskTypes
  <2>8. RunTypes'
    BY <1>8, <2>7 DEF RunTypes
  <2>9. /\ FirstOnes(ForLive(in.context))'
        /\ Passed'
    BY <1>8, <2>2, <2>5, OrderedRoles DEF Passed, FirstOnes
  <2>10. Gates'
    BY <1>8, <2>1, <2>9 DEF Gates, Working, Asking, Ending, Run!RunState
  <2>11. Turn' /\ Closing'
    BY <1>8 DEF Turn, Closing, Ending
  <2>12. Built'
    BY <2>2 DEF Built, Run!Readable
  <2>13. Clean'
    <3>1. OneText' <=> OneText
        BY <2>2 DEF OneText, Run!Whole, Run!Readable
    <3>2. "archive" \notin spoiled => disk["source"] = in.request /\ Run!Readable("source")
        BY <1>8 DEF Clean, Run!Readable, RunTypes, Run!DesignRunAssumption
    <3>3. pc # "archive" /\ pc' # "archive"
        BY <1>8 DEF Working, Asking, Ending
    <3>4. "archive" \notin spoiled /\ pc' = "returned" =>
              disk["finalizer"].request = in.request
      <4>1. pc = "complete" => Run!Readable("finalizer")
        BY <2>7 DEF Run!Readable, Run!DesignRunAssumption
      <4> QED BY <1>8, <2>2, <3>2, <4>1 DEF Clean, OneText, Run!Whole
    <3>5. "archive" \notin spoiled /\ Run!Readable("final")' /\ Run!Readable("finalizer")' =>
              disk'["final"] = disk'["finalizer"]
        BY <2>2 DEF Clean, Run!Readable
    <3>6. "archive" \notin spoiled /\ Run!Readable("final")' => disk'["finalizer"] # Gone
        BY <2>2, <3>3 DEF Clean, Run!Readable
    <3>7. "archive" \notin spoiled => Run!Readable("source")'
        BY <2>2, <3>2 DEF Run!Readable
    <3> QED BY <1>8, <2>2, <3>1, <3>2, <3>3, <3>4, <3>5, <3>6, <3>7 DEF Clean
  <2>14. WholeRun'
    <3> SUFFICES ASSUME Complete' PROVE WholeRun'
        BY DEF WholeRun
    <3>1. word = "COMPLETE" /\ pc = "complete"
        BY <1>8, <2>1, <2>3 DEF Complete
    <3>2. \A r \in Run!Roles : disk[r] # Torn /\ (disk[r] # Gone <=> r \in InOrder(ForLive(in.context)))
        BY <2>5, <2>6, <3>1 DEF Passed, FirstOnes
    <3>3. disk["final"] = disk["finalizer"] /\ disk["review"] = disk["critic"].call
        BY <3>1 DEF Closing
    <3> QED BY <2>1, <2>2, <2>3, <3>2, <3>3 DEF WholeRun
  <2>15. Unspoiled'
    <3>1. ASSUME spoiled = {}, NEW r \in Run!Roles, disk[r] # Gone
          PROVE  disk[r].context = in.context
      <4>1. Known
        BY <1>8, <3>1 DEF Unspoiled, Working, Asking, Ending
      <4>2. CASE pc = "write_run"
        <5>1. ~Run!Mixed /\ r \in Run!Checkpoints
            BY <3>1, <4>2 DEF Gates, Run!Checkpoints
        <5>2. disk["run"].context = in.context
            BY <4>1, <5>1 DEF Known, Run!Mixed
        <5> QED BY <3>1, <4>1, <5>2 DEF Known
      <4>3. CASE pc \in Working
        <5>1. disk["run"] = Run!RunState("RUNNING")
            BY <4>3 DEF Gates
        <5>2. disk["run"].context = in.context
            BY <5>1 DEF Run!RunState
        <5> QED BY <3>1, <4>1, <5>2 DEF Known
      <4> QED BY <1>8, <4>2, <4>3
    <3>2. spoiled = {} => Known'
      <4>1. disk'["run"].context = in'.context /\ FirstOnes(ForLive(in.context))'
        BY <1>8, <2>1, <2>3, <2>9
      <4>2. Run!Readable("run")'
        BY <2>1, <2>3 DEF Run!Readable
      <4>3. spoiled = {} => \A r \in Run!Roles :
               disk'[r] # Torn /\ (disk'[r] # Gone => disk'[r].context = disk'["run"].context)
        BY <2>1, <2>2, <2>3, <2>5, <3>1 DEF Passed
      <4> QED BY <4>1, <4>2, <4>3 DEF Known, FirstOnes
    <3>3. spoiled = {} => \A r, q \in Run!Whole' : disk'[r].context = disk'[q].context
        BY <2>2, <3>1 DEF Run!Whole, Run!Readable
    <3> QED BY <1>8, <3>2, <3>3 DEF Unspoiled
  <2>16. Run!KeepsCheckpoints
    BY <2>2 DEF Run!KeepsCheckpoints, Run!Whole
  <2> QED BY <2>4, <2>8, <2>10, <2>11, <2>12, <2>13, <2>14, <2>15, <2>16
<1>9. ASSUME Run!WriteRun \/ Run!Log \/ Run!Fail \/ Run!Complete PROVE Goal
  <2>1. \E word \in {"RUNNING", "FAILED", "COMPLETE"} :
          /\ disk' = [disk EXCEPT !["run"] = Run!RunState(word)]
          /\ UNCHANGED <<in, call, role, attempt, stops, spoiled>>
          /\ pc \in {"write_run", "log", "failed", "complete"}
          /\ pc' \in {"role", "raised", "returned"}
          /\ pc' = "role" => word = "RUNNING"
          /\ pc' = "returned" => pc = "complete" /\ result' = disk["finalizer"]
          /\ pc' # "returned" => result' = result
          /\ word = "COMPLETE" => pc = "complete"
    BY <1>9 DEF Run!WriteRun, Run!Log, Run!Fail, Run!Complete, Run!Write, Run!Goto
  <2>2. pc \in {"write_run", "log", "failed", "complete"} => pc \in Working \cup {"write_run"}
    BY DEF Working, Asking, Ending
  <2> QED BY <1>8, <2>1, <2>2
<1>10. CASE Run!WriteStep
  <2>1. /\ disk' = [disk EXCEPT ![role] = Run!Artifact(role)]
        /\ UNCHANGED <<in, call, role, attempt, result, stops, spoiled>>
        /\ pc = "write_step" /\ pc' = "log"
    BY <1>10 DEF Run!WriteStep, Run!Write, Run!Goto
  <2>2. /\ role \in Run!Roles /\ role \in Run!Files
        /\ role \notin {"run", "source", "final", "review"}
        /\ call \in 1..MaxCalls /\ in \in [request: Requests, context: Contexts]
    BY <2>1, RolesAre DEF RunTypes, Gates
  <2>3. /\ disk' = [g \in Run!Files |-> disk'[g]] /\ disk'[role] = Run!Artifact(role)
        /\ \A g \in Run!Files : g # role => disk'[g] = disk[g]
    BY <2>1, <2>2, Written
  <2>4. /\ disk'["run"] = disk["run"] /\ disk'["source"] = disk["source"]
        /\ disk'["final"] = disk["final"] /\ disk'["review"] = disk["review"]
        /\ \A g \in Run!Roles : g \in Run!Files /\ (g # role => disk'[g] = disk[g])
        /\ "finalizer" \in Run!Roles
    BY <2>2, <2>3, RolesAre
  <2>5. /\ Passed /\ disk["run"] = Run!RunState("RUNNING")
        /\ role \in InOrder(ForLive(in.context)) /\ disk[role] = Gone
        /\ \A u \in InOrder(ForLive(in.context)) : Place(u) < Place(role) => disk[u] # Gone
    BY <2>1 DEF Gates, Turn, Working, Asking
  <2>6. Run!Needs(role) = Shown(role, ForLive(in.context))
    BY <2>2, NeedsAre
  <2>7. \A u \in Shown(role, ForLive(in.context)) :
            /\ u \in Run!Roles /\ u # role /\ disk[u] \in Run!Artifacts
            /\ disk[u] \notin {Gone, Torn} /\ disk[u].call \in 1..MaxCalls
    <3> SUFFICES ASSUME NEW u \in Shown(role, ForLive(in.context))
                 PROVE  /\ u \in Run!Roles /\ u # role /\ disk[u] \in Run!Artifacts
                        /\ disk[u] \notin {Gone, Torn} /\ disk[u].call \in 1..MaxCalls
        OBVIOUS
    <3>1. u \in InOrder(ForLive(in.context)) /\ Place(u) < Place(role) /\ u \in Run!Roles /\ u # role
        BY <2>5, OrderedRoles
    <3>2. disk[u] \notin {Gone, Torn}
        BY <2>5, <3>1 DEF Passed
    <3>3. disk[u] \in Run!Artifacts
        BY <3>1, <3>2 DEF DiskTypes
    <3> QED BY <3>1, <3>2, <3>3 DEF Run!Artifacts
  <2>8. /\ Run!Artifact(role).call = call /\ Run!Artifact(role).request = in.request
        /\ Run!Artifact(role).context = in.context
        /\ \A u \in Run!Roles : Run!Artifact(role).basis[u] =
              IF u \in Shown(role, ForLive(in.context)) THEN disk[u].call ELSE 0
    BY <2>6 DEF Run!Artifact
  <2>9. Run!Artifact(role) \in Run!Artifacts /\ Run!Artifact(role) \notin {Gone, Torn}
    <3>1. MaxCalls \in Nat
        BY DEF Run!DesignRunAssumption
    <3>2. [u \in Run!Roles |-> IF u \in Shown(role, ForLive(in.context)) THEN disk[u].call ELSE 0]
            \in [Run!Roles -> 0..MaxCalls]
        BY <2>7, <3>1
    <3>3. Run!Artifact(role) \in Run!Artifacts
        BY <2>2, <2>6, <3>2 DEF Run!Artifact, Run!Artifacts
    <3> QED BY <3>3 DEF Run!DesignRunAssumption
  <2>10. DiskTypes'
    BY <2>3, <2>4, <2>9 DEF DiskTypes
  <2>11. RunTypes' /\ Turn' /\ Closing'
    BY <2>1 DEF RunTypes, Turn, Closing, Ending
  <2>12. Passed'
    <3>1. \A r \in Run!Roles : disk'[r] # Gone => r \in InOrder(ForLive(in.context))
        BY <2>4, <2>5 DEF Passed, FirstOnes
    <3>2. ASSUME NEW r \in InOrder(ForLive(in.context)), NEW u \in InOrder(ForLive(in.context)),
                 Place(u) < Place(r), disk'[r] # Gone
          PROVE  disk'[u] # Gone
      <4>1. r \in Run!Roles /\ u \in Run!Roles
        BY OrderedRoles
      <4>2. CASE r = role
        <5>1. u # r
            BY <3>2, OrderedRoles
        <5> QED BY <2>4, <2>5, <3>2, <4>1, <4>2, <5>1
      <4>3. CASE r # role
        <5>1. disk[r] # Gone
            BY <2>4, <3>2, <4>1, <4>3
        <5>2. disk[u] # Gone
            BY <2>5, <3>2, <5>1 DEF Passed, FirstOnes
        <5> QED BY <2>4, <2>5, <4>1, <5>2
      <4> QED BY <4>2, <4>3
    <3>3. FirstOnes(ForLive(in.context))'
        BY <2>1, <3>1, <3>2 DEF FirstOnes
    <3>4. \A r \in Run!Roles :
              /\ disk'[r] # Torn
              /\ disk'[r] # Gone => (ForLive(disk'[r].context) <=> ForLive(in.context))
        BY <2>3, <2>4, <2>5, <2>8, <2>9 DEF Passed
    <3> QED BY <2>1, <3>3, <3>4 DEF Passed
  <2>13. Gates'
    BY <2>1, <2>2, <2>4, <2>5, <2>12 DEF Gates, Working, Asking, Ending, Run!RunState
  <2>14. Built'
    <3> SUFFICES ASSUME NEW r \in Run!Roles, disk'[r] \notin {Gone, Torn}, NEW u \in Run!Roles
                 PROVE  /\ disk'[r].basis[u] # 0 <=> u \in Shown(r, ForLive(disk'[r].context))
                        /\ disk'[r].basis[u] # 0 =>
                              /\ disk'[u] # Gone
                              /\ disk'[u] \notin {Gone, Torn} => disk'[u].call = disk'[r].basis[u]
        BY DEF Built, Run!Readable
    <3>1. CASE r = role
      <4>1. disk'[r].basis[u] # 0 <=> u \in Shown(role, ForLive(in.context))
        BY <2>3, <2>7, <2>8, <3>1
      <4>2. u \in Shown(role, ForLive(in.context)) =>
                disk'[u] = disk[u] /\ disk[u] # Gone /\ disk[u].call = disk'[r].basis[u]
        BY <2>3, <2>4, <2>7, <2>8, <3>1
      <4> QED BY <2>3, <2>8, <3>1, <4>1, <4>2
    <3>2. CASE r # role
      <4>1. disk'[r] = disk[r] /\ Run!Readable(r)
        BY <2>4, <3>2 DEF Run!Readable
      <4>2. /\ disk[r].basis[u] # 0 <=> u \in Shown(r, ForLive(disk[r].context))
            /\ disk[r].basis[u] # 0 =>
                  disk[u] # Gone /\ (disk[u] \notin {Gone, Torn} => disk[u].call = disk[r].basis[u])
        BY <4>1 DEF Built, Run!Readable
      <4> QED BY <2>4, <2>5, <4>1, <4>2
    <3> QED BY <3>1, <3>2
  <2>15. Clean'
    <3> SUFFICES ASSUME "archive" \notin spoiled PROVE Clean'
        BY <2>1 DEF Clean
    <3>1. disk["source"] = in.request
        BY <2>1 DEF Clean, Working, Asking
    <3>2. Run!Readable("source")'
        BY <2>2, <2>4, <3>1 DEF Run!Readable, Run!DesignRunAssumption
    <3>3. OneText'
        <4>1. \A r \in Run!Roles : disk'[r] \notin {Gone, Torn} => disk'[r].request = disk["source"]
            BY <2>3, <2>4, <2>8, <3>1, <3>2 DEF Clean, OneText, Run!Whole, Run!Readable
        <4> QED BY <2>4, <4>1 DEF OneText, Run!Whole, Run!Readable
    <3>4. role = "finalizer" => ~Run!Readable("final")
        BY <2>1, <2>5 DEF Clean
    <3>5. Run!Readable("final")' /\ Run!Readable("finalizer")' => disk'["final"] = disk'["finalizer"]
        BY <2>4, <3>4 DEF Clean, Run!Readable
    <3>6. Run!Readable("final")' => disk'["finalizer"] # Gone
        BY <2>1, <2>4, <3>4 DEF Clean, Run!Readable
    <3> QED BY <2>1, <2>4, <3>1, <3>2, <3>3, <3>5, <3>6 DEF Clean
  <2>16. WholeRun'
    BY <2>4, <2>5 DEF WholeRun, Complete, Run!RunState
  <2>17. Unspoiled'
    <3> SUFFICES ASSUME spoiled = {} PROVE Unspoiled'
        BY <2>1 DEF Unspoiled
    <3>1. disk["run"].context = in.context
        BY <2>5 DEF Run!RunState
    <3>2. \A r \in Run!Roles : disk[r] # Gone => disk[r].context = in.context
        BY <2>1, <3>1 DEF Unspoiled, Known
    <3>3. \A r \in Run!Roles : disk'[r] # Gone => disk'[r].context = in.context
        BY <2>3, <2>4, <2>8, <3>2
    <3>4. Run!Readable("run")'
        <4>1. Run!RunState("RUNNING") \in Run!RunStates
            BY <2>2 DEF Run!RunState, Run!RunStates
        <4> QED BY <2>4, <2>5, <4>1 DEF Run!Readable, Run!DesignRunAssumption
    <3>5. Known'
        BY <2>1, <2>4, <2>12, <3>1, <3>3, <3>4 DEF Known, Passed, FirstOnes
    <3> QED BY <2>1, <3>3, <3>5 DEF Unspoiled, Run!Whole, Run!Readable
  <2>18. Run!KeepsCheckpoints
    BY <2>4, <2>5 DEF Run!KeepsCheckpoints, Run!Whole, Run!Readable
  <2> QED BY <2>10, <2>11, <2>13, <2>14, <2>15, <2>16, <2>17, <2>18
<1>11. CASE Run!WriteFinalizer
  <2>1. /\ disk' = [disk EXCEPT !["finalizer"] = disk["finalizer"]]
        /\ UNCHANGED <<in, call, role, attempt, result, stops, spoiled>>
        /\ pc = "write_finalizer" /\ pc' = "complete"
    BY <1>11 DEF Run!WriteFinalizer, Run!Write, Run!Goto
  <2>2. UNCHANGED disk
    BY <2>1 DEF DiskTypes
  <2>3. RunTypes' /\ Turn' /\ Closing' /\ pc \in Working /\ pc' \in Working
    BY <2>1, <2>2 DEF RunTypes, Turn, Closing, Working, Ending
  <2> QED BY <1>4, <2>1, <2>2, <2>3
\* The design and its review are written.
<1>12. ASSUME Run!WriteFinal \/ Run!WriteReview PROVE Goal
  <2>1. /\ pc \in {"write_final", "write_review"}
        /\ pc' \in {"write_review", "write_finalizer", "complete"}
        /\ UNCHANGED <<in, call, role, attempt, result, stops, spoiled>>
        /\ \/ /\ pc = "write_final" /\ pc' = "write_review"
              /\ disk' = [disk EXCEPT !["final"] = disk["finalizer"]]
           \/ /\ pc = "write_review" /\ pc' # "write_review"
              /\ disk' = [disk EXCEPT !["review"] = disk["critic"].call]
    BY <1>12 DEF Run!WriteFinal, Run!WriteReview, Run!Write, Run!Goto
  <2>2. /\ disk' = [g \in Run!Files |-> disk'[g]]
        /\ \A g \in Run!Files : g \notin {"final", "review"} => disk'[g] = disk[g]
        /\ pc = "write_final" => disk'["final"] = disk["finalizer"] /\ disk'["review"] = disk["review"]
        /\ pc = "write_review" => disk'["final"] = disk["final"] /\ disk'["review"] = disk["critic"].call
    <3>1. "final" \in Run!Files /\ "review" \in Run!Files
        BY RolesAre
    <3> QED BY <2>1, <3>1 DEF DiskTypes
  <2>3. /\ disk'["run"] = disk["run"] /\ disk'["source"] = disk["source"]
        /\ \A g \in Run!Roles : disk'[g] = disk[g]
        /\ "finalizer" \in Run!Roles /\ "critic" \in Run!Roles
    BY <2>2, RolesAre
  <2>4. /\ Passed /\ disk["run"] = Run!RunState("RUNNING")
        /\ \A r \in InOrder(ForLive(in.context)) : disk[r] # Gone
        /\ pc = "write_review" => disk["final"] = disk["finalizer"]
    BY <2>1 DEF Gates, Closing, Working, Ending
  <2>5. disk["finalizer"] \in Run!Artifacts /\ disk["critic"] \in Run!Artifacts
    <3>1. "finalizer" \in InOrder(ForLive(in.context)) /\ "critic" \in InOrder(ForLive(in.context))
        BY DEF InOrder
    <3> QED BY <2>3, <2>4, <3>1 DEF DiskTypes, Passed
  <2>6. disk["critic"].call \in 1..MaxCalls
    BY <2>5 DEF Run!Artifacts
  <2>7. DiskTypes'
    BY <2>1, <2>2, <2>3, <2>5, <2>6 DEF DiskTypes
  <2>8. RunTypes' /\ Turn'
    BY <2>1 DEF RunTypes, Turn
  <2>9. Closing'
    BY <2>1, <2>2, <2>3, <2>4, OrderedRoles DEF Closing
  <2>10. Passed'
    BY <2>1, <2>3, <2>4, OrderedRoles DEF Passed, FirstOnes
  <2>11. Gates'
    BY <2>1, <2>3, <2>4, <2>10 DEF Gates, Working, Asking, Ending, Run!RunState
  <2>12. Built'
    BY <2>3 DEF Built, Run!Readable
  <2>13. Clean'
    <3> SUFFICES ASSUME "archive" \notin spoiled PROVE Clean'
        BY <2>1 DEF Clean
    <3>1. disk["source"] = in.request
        BY <2>1 DEF Clean, Working, Ending
    <3>2. Run!Readable("source")'
        BY <2>3, <3>1 DEF Run!Readable, RunTypes, Run!DesignRunAssumption
    <3>3. OneText'
        BY <2>3 DEF Clean, OneText, Run!Whole, Run!Readable
    <3>4. disk'["final"] = disk'["finalizer"] /\ disk'["finalizer"] # Gone
        BY <2>1, <2>2, <2>3, <2>4 DEF InOrder
    <3> QED BY <2>1, <2>3, <3>1, <3>2, <3>3, <3>4 DEF Clean
  <2>14. WholeRun'
    BY <2>3, <2>4 DEF WholeRun, Complete, Run!RunState
  <2>15. Unspoiled'
    <3>1. Known => Known'
        BY <2>3, OrderedRoles DEF Known, FirstOnes, Run!Readable
    <3> QED BY <2>1, <2>3, <3>1 DEF Unspoiled, Run!Whole, Run!Readable
  <2>16. Run!KeepsCheckpoints
    BY <2>3 DEF Run!KeepsCheckpoints, Run!Whole
  <2> QED BY <2>7, <2>8, <2>9, <2>11, <2>12, <2>13, <2>14, <2>15, <2>16
<1>13. CASE Run!WriteSource
  <2>1. /\ pc = "write_source" /\ pc' = "check"
        /\ disk' = [disk EXCEPT !["source"] = in.request]
        /\ UNCHANGED <<in, call, role, attempt, result, stops, spoiled>>
    BY <1>13 DEF Run!WriteSource, Run!Write, Run!Goto
  <2>2. /\ disk' = [g \in Run!Files |-> disk'[g]] /\ disk'["source"] = in.request
        /\ \A g \in Run!Files : g # "source" => disk'[g] = disk[g]
    <3>1. "source" \in Run!Files
        BY RolesAre
    <3> QED BY <2>1, <3>1, Written
  <2>3. /\ disk'["run"] = disk["run"] /\ disk'["final"] = disk["final"]
        /\ disk'["review"] = disk["review"]
        /\ \A g \in Run!Roles : disk'[g] = disk[g]
    BY <2>2, RolesAre
  <2>4. DiskTypes'
    BY <2>2, <2>3 DEF DiskTypes, RunTypes
  <2>5. RunTypes' /\ Turn' /\ Closing' /\ Gates'
    BY <2>1 DEF RunTypes, Turn, Closing, Gates, Working, Asking, Ending
  <2>6. Built' /\ WholeRun' /\ Run!KeepsCheckpoints
    <3>1. Built' /\ Run!KeepsCheckpoints
        BY <2>3 DEF Built, Run!Readable, Run!KeepsCheckpoints, Run!Whole
    <3>2. Complete' <=> Complete
        BY <2>3 DEF Complete, Run!Readable
    <3>3. "finalizer" \in Run!Roles /\ "critic" \in Run!Roles
        BY RolesAre
    <3>4. WholeRun'
        BY <2>3, <3>2, <3>3 DEF WholeRun
    <3> QED BY <3>1, <3>4
  <2>7. Clean'
    <3> SUFFICES ASSUME "archive" \notin spoiled PROVE Clean'
        BY <2>1 DEF Clean
    <3>1. \A f \in Run!Roles \cup {"run", "final"} : disk[f] = Gone /\ disk'[f] = Gone
        BY <2>1, <2>3 DEF Clean, Gates, Run!Readable
    <3> QED BY <2>1, <2>2, <3>1 DEF Clean, OneText, Run!Whole, Run!Readable
  <2>8. Unspoiled'
    <3>1. Known => Known'
        BY <2>3, OrderedRoles DEF Known, FirstOnes, Run!Readable
    <3> QED BY <2>1, <2>3, <3>1 DEF Unspoiled, Run!Whole, Run!Readable
  <2> QED BY <2>4, <2>5, <2>6, <2>7, <2>8
<1>14. CASE Run!ArchiveNext
  <2> DEFINE left == {n \in DOMAIN Run!Moves : \E f \in Run!Moves[n] : disk[f] # Gone}
  <2>1. /\ pc = "archive" /\ UNCHANGED <<in, call, role, attempt, result, stops>>
        /\ \/ left = {} /\ pc' = "open" /\ spoiled' = {} /\ UNCHANGED disk
           \/ /\ left # {} /\ UNCHANGED <<pc, spoiled>>
              /\ disk' = [f \in Run!Files |-> IF f \in Run!Moves[Run!Min(left)] THEN Gone ELSE disk[f]]
    BY <1>14, Zenon DEF Run!ArchiveNext, Run!Goto
  <2>2. /\ Run!Moves[1] = {"run"} /\ Run!Moves[2] = {"source"} /\ Run!Moves[3] = Run!Roles
        /\ Run!Moves[4] = {"final"} /\ DOMAIN Run!Moves = 1..4
    BY DEF Run!Moves
  <2>3. RunTypes' /\ Turn' /\ Closing' /\ Gates' /\ Run!KeepsCheckpoints
    BY <2>1 DEF RunTypes, Turn, Closing, Gates, Working, Asking, Ending, Run!KeepsCheckpoints
  <2>4. CASE left = {}
    <3>1. \A f \in Run!Roles \cup {"run", "source", "final"} : disk[f] = Gone
        BY <2>2, <2>4
    <3>2. DiskTypes' /\ Built' /\ WholeRun'
        BY <2>1, <2>4, FilesRest
    <3>3. Clean'
        BY <2>1, <2>4, <3>1, RolesAre DEF Clean, OneText, Run!Whole, Run!Readable, Working,
                                          Asking, Ending
    <3>4. Unspoiled'
        BY <2>1, <2>4, <3>1 DEF Unspoiled, Run!Whole, Run!Readable
    <3> QED BY <2>3, <3>2, <3>3, <3>4
  <2>5. CASE left # {}
    <3>1. PICK k : k = Run!Min(left)
        OBVIOUS
    <3>2. left \in SUBSET (1..6)
        BY <2>2
    <3>3. \E i \in left : \A j \in left : i <= j
        BY <2>5, <3>2, LeastOfSix
    <3>4. k \in left /\ \A j \in left : k <= j
        BY <3>1, <3>3 DEF Run!Min
    <3> HIDE DEF left
    <3>5. disk' = [f \in Run!Files |-> IF f \in Run!Moves[k] THEN Gone ELSE disk[f]]
        BY <2>1, <2>5, <3>1
    <3>6. k \in 1..4 /\ (k # 1 => disk["run"] = Gone)
        BY <2>2, <3>4 DEF left
    <3>7. \A f \in Run!Files : disk'[f] \in {Gone, disk[f]}
        BY <3>5
    <3>8. disk'["run"] = Gone /\ "finalizer" \in Run!Roles
        BY <2>2, <3>5, <3>6, RolesAre
    <3>9. \/ \A r \in Run!Roles : disk'[r] = disk[r]
          \/ \A r \in Run!Roles : disk'[r] = Gone
        BY <2>2, <3>5, <3>6, RolesAre
    <3>10. DiskTypes'
        BY <3>5, <3>7, RolesAre DEF DiskTypes
    <3>11. Built'
        BY <3>9 DEF Built, Run!Readable
    <3>12. WholeRun'
        BY <3>8 DEF WholeRun, Complete, Run!Readable
    <3>13. disk'["source"] \in {Gone, disk["source"]} /\ disk'["final"] \in {Gone, disk["final"]}
        BY <3>7, RolesAre
    <3>14. Clean'
        BY <2>1, <2>5, <3>8, <3>9, <3>13 DEF Clean, OneText, Run!Whole, Run!Readable, Working,
                                             Asking, Ending
    <3>15. Unspoiled'
        BY <2>1, <2>5, <3>9 DEF Unspoiled, Run!Whole, Run!Readable
    <3> QED BY <2>3, <3>10, <3>11, <3>12, <3>14, <3>15
  <2> QED BY <2>4, <2>5
<1>15. CASE Run!Stop
  <2>1. /\ pc' = "idle" /\ stops' \in 0..MaxStops /\ UNCHANGED <<in, call, role, attempt, result>>
        /\ pc \notin {"idle", "returned", "refused", "raised"}
        /\ \/ /\ UNCHANGED disk
              /\ \/ pc = "archive" /\ spoiled' = spoiled \cup {"archive"}
                 \/ pc # "archive" /\ spoiled' = spoiled
           \/ /\ Run!Target # "none" /\ spoiled' = spoiled \cup {"write"} /\ pc # "archive"
              /\ disk' = [disk EXCEPT ![Run!Target] = Torn]
    BY <1>15 DEF Run!Stop, Run!Target, Run!Over, Run!Goto, RunTypes, Run!DesignRunAssumption
  <2>2. RunTypes' /\ Turn' /\ Closing' /\ Gates'
    BY <2>1 DEF RunTypes, Turn, Closing, Gates, Working, Asking, Ending
  <2>3. CASE UNCHANGED disk
    <3>1. DiskTypes' /\ Built' /\ WholeRun' /\ Run!KeepsCheckpoints
        BY <2>3, FilesRest
    <3>2. "archive" \notin spoiled' => "archive" \notin spoiled /\ pc # "archive"
        BY <2>1
    <3>3. Clean'
        BY <2>1, <2>3, <3>2, FilesRest DEF Clean, Working, Asking, Ending
    <3>4. Unspoiled'
        BY <2>1, <2>3, FilesRest DEF Unspoiled
    <3> QED BY <2>2, <3>1, <3>3, <3>4
  <2>4. ASSUME Run!Target # "none", spoiled' = spoiled \cup {"write"},
               disk' = [disk EXCEPT ![Run!Target] = Torn]
        PROVE  Goal
    <3>1. PICK f : f = Run!Target
        OBVIOUS
    <3>2. /\ f \in Run!Files /\ pc # "archive"
          /\ f = "source" <=> pc = "write_source"
          /\ pc # "write_source" => pc \in Working \cup {"write_run"}
          /\ pc = "write_run" => f = "run"
        BY <2>4, <3>1, RolesAre DEF Run!Target, RunTypes, Working, Asking, Ending
    <3>3. /\ disk' = [g \in Run!Files |-> disk'[g]] /\ disk'[f] = Torn
          /\ \A g \in Run!Files : g # f => disk'[g] = disk[g]
        BY <2>4, <3>1, <3>2, Written
    <3>4. \A g \in Run!Files : disk'[g] \in {disk[g], Torn}
        BY <3>2, <3>3
    <3>5. /\ \A r \in Run!Roles : disk'[r] \in {disk[r], Torn}
          /\ disk'["run"] \in {disk["run"], Torn} /\ disk'["source"] \in {disk["source"], Torn}
          /\ disk'["final"] \in {disk["final"], Torn} /\ disk'["review"] \in {disk["review"], Torn}
          /\ "finalizer" \in Run!Roles
        BY <3>4, RolesAre
    <3>6. Gone # Torn
        BY DEF Run!DesignRunAssumption
    <3>7. DiskTypes'
        BY <3>3, <3>5 DEF DiskTypes
    <3>8. Built'
        <4> SUFFICES ASSUME NEW r \in Run!Roles, disk'[r] \notin {Gone, Torn}, NEW u \in Run!Roles
                     PROVE  /\ disk'[r].basis[u] # 0 <=> u \in Shown(r, ForLive(disk'[r].context))
                            /\ disk'[r].basis[u] # 0 =>
                                  /\ disk'[u] # Gone
                                  /\ disk'[u] \notin {Gone, Torn} => disk'[u].call = disk'[r].basis[u]
            BY DEF Built, Run!Readable
        <4>1. disk'[r] = disk[r] /\ disk'[u] \in {disk[u], Torn}
            BY <3>5
        <4>2. /\ disk[r].basis[u] # 0 <=> u \in Shown(r, ForLive(disk[r].context))
              /\ disk[r].basis[u] # 0 =>
                    disk[u] # Gone /\ (disk[u] \notin {Gone, Torn} => disk[u].call = disk[r].basis[u])
            BY <4>1 DEF Built, Run!Readable
        <4> QED BY <3>6, <4>1, <4>2
    <3>9. Clean'
        <4> SUFFICES ASSUME "archive" \notin spoiled PROVE Clean'
            BY <2>4 DEF Clean
        <4>1. OneText'
            BY <3>5 DEF Clean, OneText, Run!Whole, Run!Readable
        <4>2. disk'["final"] \notin {Gone, Torn} =>
                  disk'["final"] = disk["final"] /\ disk'["finalizer"] \in {disk["finalizer"], Torn}
            BY <3>5
        <4>3. Run!Readable("final")' => disk'["finalizer"] # Gone
            BY <3>2, <3>6, <4>2 DEF Clean, Run!Readable
        <4>4. Run!Readable("final")' /\ Run!Readable("finalizer")' => disk'["final"] = disk'["finalizer"]
            BY <4>2 DEF Clean, Run!Readable
        <4>5. CASE pc = "write_source"
          <5>1. \A g \in Run!Roles \cup {"run", "final"} : disk[g] = Gone /\ g \in Run!Files /\ g # f
            BY <3>2, <4>5, RolesAre DEF Clean, Gates, Run!Readable
          <5>2. \A g \in Run!Roles \cup {"run", "final"} : disk'[g] = Gone
            BY <3>3, <5>1
          <5> QED BY <2>1, <4>1, <4>3, <4>4, <5>2 DEF Clean, Working, Asking, Ending
        <4>6. CASE pc # "write_source"
          <5>1. disk["source"] = in.request /\ "source" \in Run!Files /\ f # "source"
            BY <3>2, <4>6, RolesAre DEF Clean
          <5>2. Run!Readable("source")'
            BY <3>3, <5>1 DEF Run!Readable, RunTypes, Run!DesignRunAssumption
          <5> QED BY <2>1, <4>1, <4>3, <4>4, <5>2 DEF Clean, Working, Asking, Ending
        <4> QED BY <4>5, <4>6
    <3>10. WholeRun'
        <4> SUFFICES ASSUME disk'["run"] \notin {Gone, Torn}, disk'["run"].status = "COMPLETE"
                     PROVE  WholeRun'
            BY DEF WholeRun, Complete, Run!Readable
        <4>1. disk'["run"] = disk["run"] /\ f # "run" /\ Complete
            BY <3>3, <3>5 DEF Complete, Run!Readable
        <4>2. pc = "write_source" /\ f = "source"
            BY <3>2, <4>1 DEF Gates, Complete, Run!RunState
        <4>3. \A g \in Run!Roles \cup {"run", "final", "review"} : g \in Run!Files /\ disk'[g] = disk[g]
            BY <3>3, <4>2, RolesAre
        <4> QED BY <4>1, <4>3, RolesAre DEF WholeRun, Complete, Run!Readable
    <3>11. Unspoiled'
        BY <2>4 DEF Unspoiled
    <3>12. Run!KeepsCheckpoints
        BY <3>5 DEF Run!KeepsCheckpoints, Run!Whole
    <3> QED BY <2>2, <3>7, <3>8, <3>9, <3>10, <3>11, <3>12
  <2> QED BY <2>1, <2>3, <2>4
<1>16. CASE Run!Over /\ UNCHANGED Run!vars
  <2>1. UNCHANGED <<disk, pc, in, call, role, attempt, result, stops, spoiled>>
    BY <1>16 DEF Run!vars
  <2> QED BY <2>1, RunRests
<1> QED BY <1>1, <1>2, <1>3, <1>5, <1>6, <1>7, <1>9, <1>10, <1>11, <1>12, <1>13, <1>14, <1>15,
           <1>16
        DEF Run!Next, Run!Step

-----------------------------------------------------------------------------
\* Whatever the process wrote and wherever it stopped, what is in the run
\* directory was built from the request and the context recorded there, and
\* what a call returns is its own (run_multi_agent_design and its checkpoints).
THEOREM RunInvariantHolds == Spec => []RunInvariant
<1>1. Init => RunInvariant
  <2> SUFFICES ASSUME Init, part = "run" PROVE RunInv
    BY DEF RunInvariant
  <2>1. Run!Init
    BY DEF Init, RouterStarts, RunStarts, RevisionStarts, MergeStarts
  <2> QED BY <2>1, RunInit, ConstantsFit
<1>2. RunInvariant /\ [Next]_vars => RunInvariant'
  <2> SUFFICES ASSUME RunInvariant, [Next]_vars PROVE RunInvariant'
    OBVIOUS
  <2>1. CASE UNCHANGED vars
    <3>1. /\ UNCHANGED <<disk, pc, in, call, role, attempt, result, stops, spoiled>>
          /\ UNCHANGED part
        BY <2>1 DEF vars, OwnRun, Shared
    <3> QED BY <3>1, RunRests DEF RunInvariant
  <2>2. CASE RunDoes(Run!Next)
    BY <2>2, RunStep, ConstantsFit DEF RunDoes, RunInvariant
  <2>3. CASE Next /\ ~RunDoes(Run!Next)
    BY <2>3 DEF Next, RouterDoes, RevisionDoes, MergeDoes, RunInvariant
  <2> QED BY <2>1, <2>2, <2>3
<1> QED BY <1>1, <1>2, PTL DEF Spec

\* The checkpoints of a run belong together, and what it returns or is recorded
\* to have done is whole and for the request of the call (DesignRun).
THEOREM RunIsOne == Spec => []OneRun
<1>1. RunInvariant => OneRun
  <2> SUFFICES ASSUME RunInv
               PROVE  /\ Run!TypeOK /\ Run!OneRequest /\ Run!OneContext /\ Run!BuiltOnUpstream
                      /\ Run!ReturnsOwn /\ Run!CompleteIsWhole
    BY DEF RunInvariant, OneRun
  <2>1. Run!TypeOK
    BY RunHasTypes DEF RunInv
  <2>2. Run!OneRequest /\ Run!OneContext /\ Run!BuiltOnUpstream /\ Run!ReturnsOwn
    BY DEF RunInv, Clean, OneText, Unspoiled, Built, Run!OneRequest, Run!OneContext,
           Run!BuiltOnUpstream, Run!ReturnsOwn, Run!Whole
  <2>3. Run!CompleteIsWhole
    BY OrderedRoles DEF RunInv, WholeRun, Complete, InOrder, Run!CompleteIsWhole, Run!Readable
  <2> QED BY <2>1, <2>2, <2>3
<1> QED BY <1>1, RunInvariantHolds, PTL

\* A run whose process stopped between two writes can be resumed (DesignRun).
THEOREM RunResumes == Spec => []Resumes
<1>1. RunInvariant => Resumes
  BY DEF RunInvariant, RunInv, Unspoiled, Resumes, Run!Resumes
<1> QED BY <1>1, RunInvariantHolds, PTL

-----------------------------------------------------------------------------
(* The revision of a run: what a call has made so far, by where it is.      *)

\* The place of a role in a cycle; the finalizer comes after it.
Round(r) ==
    CASE r = "rig_designer"      -> 1
      [] r = "position_designer" -> 2
      [] r = "lighting_designer" -> 3
      [] r = "critic"            -> 4
      [] OTHER                   -> 5

Begun == {"cycle", "attempt", "write_step", "judge", "write_cycle",
          "write_finalizer", "write_final", "write_record"}

\* Where the cycle is under way, and where all of them are over.
InCycle == pc = "judge" \/ (pc \in {"attempt", "write_step"} /\ role # "finalizer")
Summing == \/ pc = "attempt" /\ role = "finalizer"
           \/ pc \in {"write_finalizer", "write_final", "write_record"}

RevTypes ==
    /\ source \in [complete: BOOLEAN, blocker: BOOLEAN]
    /\ pc \in {"idle", "begin", "cycle", "attempt", "write_step", "judge", "write_cycle",
               "write_finalizer", "write_final", "write_record",
               "returned", "refused", "raised"}
    /\ in \in Revision!Inputs /\ cycle \in 0..MaxCycles
    /\ role \in Revision!Revised \cup {"finalizer"}
    /\ attempt \in 1..MaxAttempts /\ stops \in 0..MaxStops
    /\ visual \in {"UNAVAILABLE_FREE_PROVIDER", "PASS"}

LookType == look \in BOOLEAN

ArtifactTypes ==
    /\ completed = [r \in Revision!Revised |-> completed[r]]
    /\ fresh = [r \in Revision!Revised |-> fresh[r]]
    /\ \A r \in Revision!Revised :
          Revision!IsArtifact(completed[r]) /\ Revision!IsArtifact(fresh[r])
    /\ review.status \in {"REVIEW_PASSED", "BLOCKED_BY_CRITIC", "BLOCKED_AFTER_REVISION_LIMIT"}
    /\ final # Gone => Revision!IsArtifact(final)

\* A directory, once it was made.
IsDirectory(d) ==
    /\ d = [steps |-> d.steps, cycles |-> d.cycles, final |-> d.final, record |-> d.record]
    /\ d.cycles \in Seq([status: {"REVIEW_PASSED", "BLOCKED_BY_CRITIC",
                                  "BLOCKED_AFTER_REVISION_LIMIT"},
                         visual: {"UNAVAILABLE_FREE_PROVIDER", "PASS"}])
    /\ \A s \in d.steps : s.cycle \in Nat /\ s.sent \in BOOLEAN

Directories ==
    /\ disk = [i \in Ids |-> disk[i]]
    /\ \A i \in Ids : disk[i] # Gone => IsDirectory(disk[i])

HasSteps(d, n) ==
    \A r \in Revision!Revised : \E s \in d.steps : s.cycle = n /\ s.role = r

\* The picture was looked at in cycle n.
Seen(d, n) == \E s \in d.steps : s.role = "critic" /\ s.cycle = n /\ s.sent

Done(d) == Len(d.cycles)

\* What the directory of the call holds while it works in it: the steps of the cycles
\* so far, each of which was blocked; of the last ones neither a design nor a record.
OwnDirectory ==
    LET d == disk[in.id] IN
    /\ pc = "begin" => d = Gone
    /\ pc \in Begun =>
          /\ IsDirectory(d) /\ d.record = Gone
          /\ pc # "write_record" => d.final = Gone
          /\ pc = "write_record" => d.final = final
          /\ \A s \in d.steps : s.cycle <= cycle /\ (s.role = "critic" => (s.status = "PASS" <=> s.sent))
          /\ \A n \in 1..(cycle - 1) : HasSteps(d, n) /\ d.cycles[n].status # "REVIEW_PASSED"

Cycles ==
    LET d == disk[in.id] IN
    /\ pc = "begin" => cycle = 0
    /\ pc \in {"begin", "cycle", "write_cycle"} \/ Summing => fresh = completed
    /\ pc = "cycle" =>
          /\ cycle < in.max /\ Done(d) = cycle
          /\ cycle > 0 => HasSteps(d, cycle) /\ d.cycles[cycle].status # "REVIEW_PASSED"
    /\ InCycle \/ pc = "write_cycle" => cycle \in 1..in.max /\ Done(d) = cycle - 1
    /\ pc \in {"judge", "write_cycle"} => HasSteps(d, cycle) /\ role = "critic"
    /\ Summing =>
          /\ cycle \in 1..in.max /\ Done(d) = cycle /\ HasSteps(d, cycle)
          /\ d.cycles[cycle].status = review.status
          /\ review.status = "REVIEW_PASSED" \/ cycle = in.max

\* The artifacts: of which cycle they are, and what the critic was shown.
Cycled(a, n) == \A r \in Revision!Revised : a[r].cycle = n

Judged(a) ==
    \A r \in Revision!Revised \ {"critic"} : a["critic"].basis[r] = a[r].cycle

Ages ==
    /\ pc \in {"begin", "cycle", "write_cycle"} \/ Summing =>
          Cycled(completed, cycle) /\ Judged(completed)
    /\ InCycle =>
          /\ Cycled(completed, cycle - 1)
          /\ \A r \in Revision!Revised :
                fresh[r].cycle = IF \/ Round(r) < Round(role)
                                    \/ pc # "attempt" /\ r = role
                                 THEN cycle ELSE cycle - 1
    /\ InCycle /\ pc # "attempt" /\ role = "critic" => Judged(fresh)
    /\ InCycle /\ pc # "judge" =>
          \A r \in Revision!Revised : Round(r) < Round(role) =>
              \E s \in disk[in.id].steps : s.cycle = cycle /\ s.role = r

\* The review is of the last critic, and the design of the finalizer from the last ones.
Verdicts ==
    /\ pc = "write_cycle" \/ Summing =>
          review = Revision!ReviewState(completed["critic"], cycle, in.max)
    /\ pc \in {"write_finalizer", "write_final", "write_record"} =>
          final.basis = [r \in Revision!Revised |-> completed[r].cycle]
    /\ pc \in {"write_finalizer", "write_final", "write_record"} => role = "finalizer"

\* What is said of the picture.
Pictures ==
    LET d == disk[in.id] IN
    /\ look => role = "critic"
    /\ pc = "attempt" /\ role # "finalizer" => visual # "PASS"
    /\ pc = "write_step" => (visual = "PASS" <=> look) /\ role # "finalizer"
    /\ pc = "write_step" /\ role = "critic" => (fresh["critic"].image <=> look)
    /\ pc \in {"attempt", "write_step"} /\ role # "finalizer" =>
          \A s \in d.steps : s.role = "critic" => s.cycle < cycle
    /\ pc = "judge" =>
          (visual = "PASS" <=> fresh["critic"].image) /\ (visual = "PASS" <=> Seen(d, cycle))
    /\ pc = "write_cycle" \/ Summing =>
          (visual = "PASS" <=> completed["critic"].image) /\ (visual = "PASS" <=> Seen(d, cycle))

\* A directory with its record.
RecordIsTrue(d) ==
    LET record == d.record IN
    /\ \A r \in Revision!Revised : record.latest[r].cycle = record.done
    /\ \A r \in Revision!Revised \ {"critic"} :
          record.latest["critic"].basis[r] = record.latest[r].cycle
    /\ record.final.basis = [r \in Revision!Revised |-> record.latest[r].cycle]
    /\ record.review.cycles = record.done
    /\ Len(d.cycles) = record.done
    /\ record.review.status = "REVIEW_PASSED" <=> ~record.latest["critic"].blocker
    /\ \A n \in 1..(record.done - 1) : d.cycles[n].status # "REVIEW_PASSED"
    /\ d.cycles[record.done].status = "REVIEW_PASSED" \/ record.done = record.max
    /\ record.visual = "PASS" <=> record.latest["critic"].image
    /\ record.latest["critic"].image \in BOOLEAN /\ record.latest["critic"].blocker \in BOOLEAN
    /\ \A s \in d.steps : s.role = "critic" => (s.status = "PASS" <=> s.sent)
    /\ record.visual = "PASS" <=> Seen(d, record.done)
    /\ d.final = record.final
    /\ \A n \in 1..record.done : HasSteps(d, n)

Records == \A i \in Revision!Recorded : RecordIsTrue(disk[i])

RevInv ==
    /\ RevTypes /\ LookType /\ ArtifactTypes /\ Directories /\ OwnDirectory
    /\ Cycles /\ Ages /\ Verdicts /\ Pictures /\ Records

RevInvariant == part = "revision" => RevInv

LEMMA RevisedAre ==
    /\ Revision!Revised = {"rig_designer", "position_designer", "lighting_designer", "critic"}
    /\ Revision!Needs("critic") = Revision!Revised \ {"critic"}
    /\ Revision!Needs("finalizer") = Revision!Revised
    /\ \A r : Revision!Needs(r) \subseteq Revision!Revised
    BY DEF Revision!Revised, Revision!revision_roles, Revision!ToSet, Revision!Needs

LEMMA RevHasTypes == RevTypes /\ LookType /\ ArtifactTypes /\ Directories => Revision!TypeOK
    BY RevisedAre DEF RevTypes, LookType, ArtifactTypes, Directories, Revision!TypeOK

LEMMA GivenIs ==
    ASSUME source \in [complete: BOOLEAN, blocker: BOOLEAN], Revision!RevisionAssumption
    PROVE  /\ Revision!Given = [r \in Revision!Revised |-> Revision!Given[r]]
           /\ \A r \in Revision!Revised : Revision!IsArtifact(Revision!Given[r])
           /\ Cycled(Revision!Given, 0) /\ Judged(Revision!Given)
<1>1. \A r \in Revision!Revised :
          /\ Revision!Given[r].cycle = 0 /\ Revision!Given[r].previous = 0
          /\ Revision!Given[r].basis = [u \in Revision!Needs(r) |-> 0]
          /\ Revision!Given[r].image = FALSE
          /\ Revision!Given[r].blocker = (r = "critic" /\ source.blocker)
    BY DEF Revision!Given
<1>2. \A r \in Revision!Revised : Revision!IsArtifact(Revision!Given[r])
  <2> SUFFICES ASSUME NEW r \in Revision!Revised PROVE Revision!IsArtifact(Revision!Given[r])
    OBVIOUS
  <2>1. Revision!Given[r].image \in BOOLEAN /\ Revision!Given[r].blocker \in BOOLEAN
    BY <1>1
  <2>2. /\ Revision!Given[r].cycle \in 0..MaxCycles
        /\ Revision!Given[r].previous \in 0..Revision!Given[r].cycle
    <3>1. Revision!Given[r].cycle = 0 /\ Revision!Given[r].previous = 0
        BY <1>1
    <3>2. 0 \in 0..MaxCycles /\ 0 \in 0..0
        BY DEF Revision!RevisionAssumption
    <3> QED BY <3>1, <3>2
  <2>3. /\ DOMAIN Revision!Given[r].basis \subseteq Revision!Revised
        /\ \A u \in DOMAIN Revision!Given[r].basis :
              Revision!Given[r].basis[u] \in 0..Revision!Given[r].cycle
    <3>1. DOMAIN Revision!Given[r].basis = Revision!Needs(r)
        BY <1>1
    <3>2. \A u \in Revision!Needs(r) : Revision!Given[r].basis[u] = 0
        BY <1>1
    <3> QED BY <1>1, <3>1, <3>2, RevisedAre
  <2> QED BY <2>1, <2>2, <2>3 DEF Revision!IsArtifact
<1>3. Cycled(Revision!Given, 0) /\ Judged(Revision!Given)
    BY <1>1, RevisedAre DEF Cycled, Judged
<1> QED BY <1>2, <1>3 DEF Revision!Given

LEMMA ReviewIs ==
    ASSUME NEW critic, NEW done, NEW max
    PROVE  /\ Revision!ReviewState(critic, done, max).cycles = done
           /\ Revision!ReviewState(critic, done, max).status \in
                 {"REVIEW_PASSED", "BLOCKED_BY_CRITIC", "BLOCKED_AFTER_REVISION_LIMIT"}
           /\ Revision!ReviewState(critic, done, max).status = "REVIEW_PASSED" <=> ~critic.blocker
    BY DEF Revision!ReviewState

LEMMA Prefixes ==
    ASSUME NEW S, NEW s \in Seq(S), NEW x
    PROVE  Revision!IsPrefix(s, s) /\ Revision!IsPrefix(s, Append(s, x))
<1>1. Len(s) \in Nat /\ Len(Append(s, x)) = Len(s) + 1
    OBVIOUS
<1>2. SubSeq(s, 1, Len(s)) = SubSeq(Append(s, x), 1, Len(s))
    OBVIOUS
<1> QED BY <1>1, <1>2 DEF Revision!IsPrefix

\* The directory of the call is written, and no other.
LEMMA DirectoryWritten ==
    ASSUME Directories, Records, in.id \in Ids, NEW d, IsDirectory(d),
           disk' = [disk EXCEPT ![in.id] = d],
           d.record \notin {Gone, Torn} => RecordIsTrue(d),
           disk[in.id] # Gone =>
               /\ disk[in.id].steps \subseteq d.steps
               /\ Revision!IsPrefix(disk[in.id].cycles, d.cycles)
               /\ disk[in.id].final \in {Gone, d.final}
               /\ disk[in.id].record \in {Gone, d.record}
    PROVE  Directories' /\ Records' /\ disk'[in.id] = d /\ Revision!RecordsStay
<1>1. /\ disk' = [i \in Ids |-> disk'[i]] /\ disk'[in.id] = d
      /\ \A i \in Ids : i # in.id => disk'[i] = disk[i]
    BY DEF Directories
<1>2. Directories'
    BY <1>1 DEF Directories, IsDirectory
<1>3. Records'
    BY <1>1 DEF Records, Revision!Recorded
<1>4. \A i \in Ids : disk[i] # Gone => Revision!IsPrefix(disk[i].cycles, disk[i].cycles)
    BY Prefixes DEF Directories, IsDirectory
<1>5. Revision!RecordsStay
    BY <1>1, <1>4 DEF Revision!RecordsStay
<1> QED BY <1>1, <1>2, <1>3, <1>5

LEMMA DirectoriesRest ==
    ASSUME Directories, Records, UNCHANGED disk
    PROVE  Directories' /\ Records' /\ Revision!RecordsStay
<1>1. Directories' /\ Records'
    BY DEF Directories, Records, Revision!Recorded
<1>2. \A i \in Ids : disk[i] # Gone => Revision!IsPrefix(disk[i].cycles, disk[i].cycles)
    BY Prefixes DEF Directories, IsDirectory
<1>3. Revision!RecordsStay
    BY <1>2 DEF Revision!RecordsStay
<1> QED BY <1>1, <1>3

LEMMA RevInit ==
    ASSUME Revision!RevisionAssumption, Revision!Init PROVE RevInv
<1> USE DEF Revision!Init
<1>0. LookType
    BY DEF LookType
<1>1. RevTypes
    BY RevisedAre DEF RevTypes, Revision!RevisionAssumption
<1>2. ArtifactTypes
    BY GivenIs, ReviewIs DEF ArtifactTypes
<1>3. Directories /\ Records
    BY DEF Directories, Records, Revision!Recorded
<1>4. OwnDirectory /\ Cycles /\ Ages /\ Verdicts /\ Pictures
    BY DEF OwnDirectory, Cycles, Ages, Verdicts, Pictures, Begun, InCycle, Summing
<1> QED BY <1>0, <1>1, <1>2, <1>3, <1>4 DEF RevInv

LEMMA RevRests ==
    ASSUME RevInv, UNCHANGED <<source, disk, pc, in, cycle, role, look, attempt, completed,
                               fresh, visual, review, final, stops>>
    PROVE  RevInv' /\ Revision!RecordsStay
<1> USE DEF RevInv
<1>1. Directories' /\ Records' /\ Revision!RecordsStay
    BY DirectoriesRest
<1>2. RevTypes' /\ LookType' /\ ArtifactTypes'
    BY DEF RevTypes, LookType, ArtifactTypes
<1>3. OwnDirectory' /\ Cycles'
    BY DEF OwnDirectory, Cycles, IsDirectory, HasSteps, Done, InCycle, Summing
<1>4. Ages' /\ Verdicts' /\ Pictures'
    BY DEF Ages, Verdicts, Pictures, Cycled, Judged, Seen, InCycle, Summing, Revision!ReviewState
<1> QED BY <1>1, <1>2, <1>3, <1>4

LEMMA RevStep ==
    ASSUME Revision!RevisionAssumption, RevInv, Revision!Next
    PROVE  RevInv' /\ Revision!RecordsStay
<1> DEFINE Goal == RevInv' /\ Revision!RecordsStay
<1> USE DEF RevInv
<1>0. /\ in.id \in Ids /\ in.max \in 1..MaxCycles /\ cycle \in Nat /\ MaxCycles \in Nat
      /\ in.image \in BOOLEAN
    BY DEF RevTypes, Revision!Inputs, Revision!RevisionAssumption
<1>1. CASE Revision!Start
  <2>1. /\ in' \in Revision!Inputs
        /\ pc' \in {"begin", "refused"} /\ (pc' = "begin" => disk[in'.id] = Gone)
        /\ cycle' = 0 /\ role' = "rig_designer" /\ look' = FALSE /\ attempt' = 1
        /\ completed' = Revision!Given /\ fresh' = Revision!Given
        /\ visual' = "UNAVAILABLE_FREE_PROVIDER" /\ final' = Gone
        /\ review' = Revision!ReviewState(Revision!Given["critic"], 0, MaxCycles)
        /\ UNCHANGED <<source, disk, stops>>
    BY <1>1 DEF Revision!Start, Revision!Goto, Revision!Accepted
  <2>2. RevTypes' /\ LookType'
    <3>1. LookType'
        BY <2>1 DEF LookType
    <3>2. RevTypes'
        BY <2>1, RevisedAre DEF RevTypes, Revision!RevisionAssumption
    <3> QED BY <3>1, <3>2
  <2>3. ArtifactTypes'
    BY <2>1, GivenIs, ReviewIs DEF ArtifactTypes, RevTypes
  <2>4. Directories' /\ Records' /\ Revision!RecordsStay
    BY <2>1, DirectoriesRest
  <2>5. OwnDirectory' /\ Cycles' /\ Verdicts' /\ Pictures'
    BY <2>1 DEF OwnDirectory, Cycles, Verdicts, Pictures, Begun, InCycle, Summing
  <2>6. Ages'
    BY <2>1, GivenIs DEF Ages, RevTypes, InCycle, Summing, Cycled, Judged
  <2> QED BY <2>2, <2>3, <2>4, <2>5, <2>6
<1>2. CASE Revision!Begin
  <2>1. /\ pc = "begin" /\ pc' = "cycle"
        /\ disk' = [disk EXCEPT ![in.id] = Revision!Begun]
        /\ UNCHANGED <<source, in, cycle, role, look, attempt, completed, fresh, visual,
                       review, final, stops>>
    BY <1>2 DEF Revision!Begin, Revision!Goto, Revision!memory
  <2>2. /\ IsDirectory(Revision!Begun) /\ Revision!Begun.record = Gone
        /\ Revision!Begun.final = Gone /\ Revision!Begun.steps = {}
        /\ Len(Revision!Begun.cycles) = 0 /\ disk[in.id] = Gone
        /\ cycle = 0
    BY <2>1 DEF Revision!Begun, IsDirectory, OwnDirectory, Cycles
  <2>3. Directories' /\ Records' /\ disk'[in.id] = Revision!Begun /\ Revision!RecordsStay
    BY <1>0, <2>1, <2>2, DirectoryWritten
  <2>4. RevTypes' /\ LookType' /\ ArtifactTypes'
    BY <2>1 DEF RevTypes, LookType, ArtifactTypes
  <2>5. OwnDirectory'
    BY <2>1, <2>2, <2>3 DEF OwnDirectory, Begun
  <2>6. Cycles'
    BY <1>0, <2>1, <2>2, <2>3 DEF Cycles, Done, InCycle, Summing
  <2>7. Ages'
    BY <2>1 DEF Ages, InCycle, Summing, Cycled, Judged
  <2>8. Verdicts' /\ Pictures'
    BY <2>1 DEF Verdicts, Pictures, InCycle, Summing
  <2> QED BY <2>3, <2>4, <2>5, <2>6, <2>7, <2>8
<1>3. CASE Revision!BeginCycle
  <2>1. /\ pc = "cycle" /\ pc' = "attempt" /\ cycle' = cycle + 1 /\ fresh' = completed
        /\ visual' = "UNAVAILABLE_FREE_PROVIDER" /\ role' = "rig_designer" /\ attempt' = 1
        /\ look' = ("rig_designer" = "critic" /\ in.image)
        /\ UNCHANGED <<source, disk, in, completed, review, final, stops>>
    <3>1. Head(Revision!revision_roles) = "rig_designer"
        BY DEF Revision!revision_roles
    <3> QED BY <1>3, <3>1 DEF Revision!BeginCycle, Revision!Ask, Revision!Goto
  <2>a. ~look' /\ look' \in BOOLEAN
    BY <2>1
  <2>2. /\ cycle < in.max /\ cycle' \in 1..in.max /\ Done(disk[in.id]) = cycle /\ fresh = completed
        /\ cycle > 0 => HasSteps(disk[in.id], cycle)
                        /\ disk[in.id].cycles[cycle].status # "REVIEW_PASSED"
    BY <1>0, <2>1 DEF Cycles
  <2>3. RevTypes' /\ LookType'
    BY <1>0, <2>1, <2>2, <2>a, RevisedAre DEF RevTypes, LookType, Revision!RevisionAssumption
  <2>4. ArtifactTypes'
    BY <2>1 DEF ArtifactTypes
  <2>5. Directories' /\ Records' /\ Revision!RecordsStay
    BY <2>1, DirectoriesRest
  <2>6. /\ IsDirectory(disk[in.id]) /\ disk[in.id].record = Gone /\ disk[in.id].final = Gone
        /\ \A s \in disk[in.id].steps :
              /\ s.cycle \in Nat /\ s.cycle <= cycle
              /\ s.role = "critic" => (s.status = "PASS" <=> s.sent)
        /\ \A n \in 1..(cycle - 1) :
              HasSteps(disk[in.id], n) /\ disk[in.id].cycles[n].status # "REVIEW_PASSED"
    BY <2>1 DEF OwnDirectory, Begun, IsDirectory
  <2>7. \A n \in 1..(cycle' - 1) :
            HasSteps(disk[in.id], n) /\ disk[in.id].cycles[n].status # "REVIEW_PASSED"
    <3>1. \A n \in 1..(cycle' - 1) : n \in 1..(cycle - 1) \/ (n = cycle /\ cycle > 0)
        BY <1>0, <2>1
    <3> QED BY <2>2, <2>6, <3>1
  <2>8. IsDirectory(disk[in.id])' /\ \A n : HasSteps(disk[in.id], n)' <=> HasSteps(disk[in.id], n)
    BY <2>1, <2>6 DEF IsDirectory, HasSteps
  <2>9. OwnDirectory'
    BY <1>0, <2>1, <2>6, <2>7, <2>8 DEF OwnDirectory, Begun
  <2>10. Cycles'
    BY <1>0, <2>1, <2>2 DEF Cycles, Done, InCycle, Summing
  <2>11. Ages'
    <3>1. Cycled(completed, cycle)
        BY <2>1 DEF Ages
    <3>2. \A r \in Revision!Revised : ~(Round(r) < Round("rig_designer"))
        BY RevisedAre DEF Round
    <3> QED BY <1>0, <2>1, <3>1, <3>2 DEF Ages, InCycle, Summing, Cycled
  <2>12. Verdicts' /\ Pictures'
    BY <1>0, <2>1, <2>6, <2>a DEF Verdicts, Pictures, InCycle, Summing
  <2> QED BY <2>3, <2>4, <2>5, <2>9, <2>10, <2>11, <2>12
\* An answer to the role, of the cycle and from what stands.
<1>4. ASSUME NEW blocks \in BOOLEAN, pc = "attempt"
      PROVE  /\ Revision!IsArtifact(Revision!Answer(blocks))
             /\ Revision!Answer(blocks).cycle = cycle
             /\ Revision!Answer(blocks).image = look
             /\ Revision!Answer(blocks).basis = [u \in Revision!Needs(role) |-> fresh[u].cycle]
  <2>1. /\ \A u \in Revision!Revised : fresh[u].cycle \in 0..cycle
        /\ completed["critic"].cycle \in 0..cycle
    <3>1. CASE role = "finalizer"
        <4>1. fresh = completed /\ Cycled(completed, cycle)
            BY <1>4, <3>1 DEF Cycles, Ages, Summing
        <4> QED BY <1>0, <4>1, RevisedAre DEF Cycled
    <3>2. CASE role # "finalizer"
        <4>1. /\ cycle \in 1..in.max /\ Cycled(completed, cycle - 1)
              /\ \A u \in Revision!Revised : fresh[u].cycle \in {cycle, cycle - 1}
            BY <1>4, <3>2 DEF Cycles, Ages, InCycle
        <4> QED BY <1>0, <4>1, RevisedAre DEF Cycled
    <3> QED BY <3>1, <3>2
  <2>2. cycle \in 0..MaxCycles /\ look \in BOOLEAN
    BY DEF RevTypes, LookType
  <2> QED BY <1>0, <1>4, <2>1, <2>2, RevisedAre DEF Revision!Answer, Revision!IsArtifact
<1>5. CASE Revision!Accept
  <2>1. PICK blocks \in BOOLEAN : fresh' = [fresh EXCEPT ![role] = Revision!Answer(blocks)]
    BY <1>5 DEF Revision!Accept
  <2>2. /\ pc = "attempt" /\ role # "finalizer" /\ pc' = "write_step"
        /\ visual' = IF look THEN "PASS" ELSE visual
        /\ UNCHANGED <<source, disk, in, cycle, role, look, attempt, completed, review,
                       final, stops>>
    BY <1>5 DEF Revision!Accept, Revision!Goto
  <2>3. /\ role \in Revision!Revised
        /\ fresh' = [r \in Revision!Revised |-> fresh'[r]]
        /\ fresh'[role] = Revision!Answer(blocks)
        /\ \A r \in Revision!Revised : r # role => fresh'[r] = fresh[r]
    BY <2>1, <2>2 DEF RevTypes, ArtifactTypes
  <2>4. RevTypes' /\ LookType'
    BY <2>2 DEF RevTypes, LookType
  <2>5. ArtifactTypes'
    BY <1>4, <2>2, <2>3 DEF ArtifactTypes
  <2>6. Directories' /\ Records' /\ Revision!RecordsStay
    BY <2>2, DirectoriesRest
  <2>7. OwnDirectory'
    BY <2>2 DEF OwnDirectory, Begun, IsDirectory, HasSteps
  <2>8. Cycles'
    BY <2>2 DEF Cycles, Done, InCycle, Summing
  <2>9. Ages'
    <3>1. /\ Cycled(completed, cycle - 1)
          /\ \A r \in Revision!Revised :
                fresh[r].cycle = IF Round(r) < Round(role) THEN cycle ELSE cycle - 1
          /\ \A r \in Revision!Revised : Round(r) < Round(role) =>
                \E s \in disk[in.id].steps : s.cycle = cycle /\ s.role = r
        BY <2>2 DEF Ages, InCycle
    <3>2. \A r \in Revision!Revised :
              fresh'[r].cycle = IF Round(r) < Round(role) \/ r = role THEN cycle ELSE cycle - 1
        BY <1>4, <2>2, <2>3, <3>1
    <3>3. ASSUME role = "critic" PROVE Judged(fresh')
        <4>1. fresh'["critic"].basis = [u \in Revision!Revised \ {"critic"} |-> fresh[u].cycle]
            BY <1>4, <2>2, <2>3, <3>3, RevisedAre
        <4> QED BY <2>3, <3>3, <4>1 DEF Judged
    <3> QED BY <2>2, <3>1, <3>2, <3>3 DEF Ages, InCycle, Summing, Cycled, Judged
  <2>10. Verdicts'
    BY <2>2 DEF Verdicts, Summing
  <2>11. Pictures'
    BY <1>4, <2>2, <2>3 DEF Pictures, LookType, InCycle, Summing
  <2> QED BY <2>4, <2>5, <2>6, <2>7, <2>8, <2>9, <2>10, <2>11
<1>6. CASE Revision!AcceptFinal
  <2>1. /\ pc = "attempt" /\ role = "finalizer" /\ pc' = "write_finalizer"
        /\ final' = Revision!Answer(FALSE)
        /\ UNCHANGED <<source, disk, in, cycle, role, look, attempt, completed, fresh, visual,
                       review, stops>>
    BY <1>6 DEF Revision!AcceptFinal, Revision!Goto
  <2>2. /\ Revision!IsArtifact(final')
        /\ final'.basis = [r \in Revision!Revised |-> completed[r].cycle]
    <3>1. fresh = completed
        BY <2>1 DEF Cycles, Summing
    <3>2. final'.basis = [u \in Revision!Needs("finalizer") |-> fresh[u].cycle]
        BY <1>4, <2>1
    <3> QED BY <1>4, <2>1, <3>1, <3>2, RevisedAre
  <2>3. RevTypes' /\ LookType' /\ ArtifactTypes'
    BY <2>1, <2>2 DEF RevTypes, LookType, ArtifactTypes
  <2>4. Directories' /\ Records' /\ Revision!RecordsStay
    BY <2>1, DirectoriesRest
  <2>5. OwnDirectory'
    BY <2>1 DEF OwnDirectory, Begun, IsDirectory, HasSteps
  <2>6. Cycles'
    BY <2>1 DEF Cycles, Done, InCycle, Summing, HasSteps
  <2>7. Ages'
    BY <2>1 DEF Ages, InCycle, Summing, Cycled, Judged
  <2>8. Verdicts' /\ Pictures'
    BY <2>1, <2>2 DEF Verdicts, Pictures, InCycle, Summing, Revision!ReviewState, Seen
  <2> QED BY <2>3, <2>4, <2>5, <2>6, <2>7, <2>8
<1>7. ASSUME Revision!Again \/ Revision!GiveUp \/ Revision!Break PROVE Goal
  <2>1. /\ pc \in {"attempt", "write_step", "write_finalizer"} /\ pc' \in {pc, "raised"}
        /\ attempt' \in {attempt, attempt + 1, 1} /\ (attempt' = attempt + 1 => attempt < MaxAttempts)
        /\ look' = look \/ (look' = FALSE /\ pc = "attempt")
        /\ UNCHANGED <<source, disk, in, cycle, role, completed, fresh, visual, review,
                       final, stops>>
    <3>1. CASE Revision!Again
        BY <3>1 DEF Revision!Again, RevTypes
    <3>2. CASE Revision!GiveUp
        BY <3>2 DEF Revision!GiveUp, Revision!Goto, RevTypes
    <3>3. CASE Revision!Break
        BY <3>3 DEF Revision!Break, Revision!Goto, Revision!memory, RevTypes
    <3> QED BY <1>7, <3>1, <3>2, <3>3
  <2>a. RevTypes'
    BY <2>1 DEF RevTypes, Revision!RevisionAssumption
  <2>2. RevTypes' /\ LookType' /\ ArtifactTypes'
    BY <2>1, <2>a DEF LookType, ArtifactTypes
  <2>3. Directories' /\ Records' /\ Revision!RecordsStay
    BY <2>1, DirectoriesRest
  <2>4. OwnDirectory'
    BY <2>1 DEF OwnDirectory, Begun, IsDirectory, HasSteps
  <2>5. Cycles'
    BY <2>1 DEF Cycles, Done, InCycle, Summing, HasSteps
  <2>6. Ages'
    BY <2>1 DEF Ages, InCycle, Summing, Cycled, Judged
  <2>7. Verdicts'
    BY <2>1 DEF Verdicts, InCycle, Summing, Revision!ReviewState
  <2>8. look' => look
    BY <2>1 DEF LookType
  <2>9. Pictures'
    BY <2>1, <2>8 DEF Pictures, InCycle, Summing, Seen
  <2> QED BY <2>2, <2>3, <2>4, <2>5, <2>6, <2>7, <2>9
<1>8. CASE Revision!WriteStep
  <2>a. PICK step : step = [cycle |-> cycle, role |-> role, sent |-> look, status |-> visual]
    OBVIOUS
  <2>b. PICK d : d = [disk[in.id] EXCEPT !.steps = @ \cup {step}]
    OBVIOUS
  <2>1. /\ pc = "write_step" /\ disk' = [disk EXCEPT ![in.id] = d]
        /\ UNCHANGED <<source, in, cycle, completed, fresh, visual, review, final, stops>>
        /\ \/ role = "critic" /\ pc' = "judge" /\ UNCHANGED <<role, look, attempt>>
           \/ /\ role # "critic" /\ pc' = "attempt" /\ attempt' = 1
              /\ look' = (role' = "critic" /\ in.image)
              /\ \E n \in 1..3 : /\ role = Revision!revision_roles[n]
                                 /\ role' = Revision!revision_roles[n + 1]
    BY <1>8, <2>a, <2>b DEF Revision!WriteStep, Revision!Ask, Revision!Goto
  <2>2. /\ role # "finalizer" /\ role \in Revision!Revised
        /\ cycle \in 1..in.max /\ Done(disk[in.id]) = cycle - 1
        /\ (visual = "PASS" <=> look) /\ look \in BOOLEAN /\ (look => role = "critic")
        /\ role = "critic" => (fresh["critic"].image <=> look)
        /\ \A s \in disk[in.id].steps : s.role = "critic" => s.cycle < cycle
    BY <2>1 DEF Pictures, RevTypes, LookType, Cycles, InCycle
  <2>3. pc' = "attempt" =>
            /\ role' \in Revision!Revised
            /\ \A r \in Revision!Revised :
                  Round(r) < Round(role') <=> Round(r) < Round(role) \/ r = role
    BY <2>1, RevisedAre DEF Round, Revision!revision_roles
  <2>4. /\ IsDirectory(disk[in.id]) /\ disk[in.id].record = Gone /\ disk[in.id].final = Gone
        /\ \A s \in disk[in.id].steps :
              /\ s.cycle \in Nat /\ s.cycle <= cycle
              /\ s.role = "critic" => (s.status = "PASS" <=> s.sent)
        /\ \A n \in 1..(cycle - 1) :
              HasSteps(disk[in.id], n) /\ disk[in.id].cycles[n].status # "REVIEW_PASSED"
    BY <2>1 DEF OwnDirectory, Begun, IsDirectory
  <2>5. /\ d.steps = disk[in.id].steps \cup {step} /\ d.cycles = disk[in.id].cycles
        /\ d.final = Gone /\ d.record = Gone
        /\ d = [steps |-> d.steps, cycles |-> d.cycles, final |-> d.final, record |-> d.record]
    BY <2>b, <2>4 DEF IsDirectory
  <2>6. step.cycle = cycle /\ step.role = role /\ step.sent = look /\ step.status = visual
    BY <2>a
  <2>7. IsDirectory(d)
    BY <1>0, <2>2, <2>4, <2>5, <2>6 DEF IsDirectory
  <2>8. Revision!IsPrefix(disk[in.id].cycles, d.cycles)
    BY <2>4, <2>5, Prefixes DEF IsDirectory
  <2>9. Directories' /\ Records' /\ disk'[in.id] = d /\ Revision!RecordsStay
    BY <1>0, <2>1, <2>4, <2>5, <2>7, <2>8, DirectoryWritten
  <2>10. RevTypes' /\ LookType'
    BY <1>0, <2>1, <2>2, <2>3 DEF RevTypes, LookType, Revision!RevisionAssumption
  <2>11. ArtifactTypes'
    BY <2>1 DEF ArtifactTypes
  <2>12. \A n : HasSteps(disk[in.id], n) => HasSteps(d, n)
    BY <2>5 DEF HasSteps
  <2>13. \A s \in d.steps :
             /\ s.cycle \in Nat /\ s.cycle <= cycle
             /\ s.role = "critic" => (s.status = "PASS" <=> s.sent)
    BY <1>0, <2>2, <2>4, <2>5, <2>6
  <2>14. OwnDirectory'
    BY <2>1, <2>4, <2>5, <2>7, <2>9, <2>12, <2>13 DEF OwnDirectory, Begun, IsDirectory, HasSteps
  <2>15. \A r \in Revision!Revised :
             Round(r) < Round(role) \/ r = role => \E s \in d.steps : s.cycle = cycle /\ s.role = r
    BY <2>1, <2>2, <2>5, <2>6 DEF Ages, InCycle
  <2>16. role = "critic" => HasSteps(d, cycle)
    BY <2>15, RevisedAre DEF HasSteps, Round
  <2>17. Cycles'
    <3>1. disk'[in'.id] = d /\ Len(d.cycles) = cycle - 1
        BY <2>1, <2>2, <2>5, <2>9 DEF Done
    <3>2. pc' = "attempt" => role' # "finalizer"
        BY <2>3, RevisedAre
    <3> QED BY <2>1, <2>2, <2>16, <3>1, <3>2 DEF Cycles, Done, InCycle, Summing, HasSteps
  <2>18. Ages'
    <3>1. /\ Cycled(completed, cycle - 1)
          /\ \A r \in Revision!Revised :
                fresh[r].cycle = IF Round(r) < Round(role) \/ r = role THEN cycle ELSE cycle - 1
          /\ role = "critic" => Judged(fresh)
        BY <2>1, <2>2 DEF Ages, InCycle
    <3>2. disk'[in'.id] = d /\ (pc' = "attempt" => role' # "finalizer")
        BY <2>1, <2>3, <2>9, RevisedAre
    <3>3. CASE pc' = "judge"
        BY <2>1, <3>1, <3>3 DEF Ages, InCycle, Summing, Cycled, Judged
    <3>4. CASE pc' = "attempt"
        <4>1. \A r \in Revision!Revised :
                  fresh[r].cycle = IF Round(r) < Round(role') THEN cycle ELSE cycle - 1
            BY <2>3, <3>1, <3>4
        <4>2. \A r \in Revision!Revised :
                  Round(r) < Round(role') => \E s \in d.steps : s.cycle = cycle /\ s.role = r
            BY <2>3, <2>15, <3>4
        <4> QED BY <2>1, <3>1, <3>2, <3>4, <4>1, <4>2 DEF Ages, InCycle, Summing, Cycled
    <3> QED BY <2>1, <3>3, <3>4
  <2>19. Verdicts'
    BY <2>1, <2>2, <2>3, RevisedAre DEF Verdicts, Summing
  <2>20. role = "critic" => (visual = "PASS" <=> Seen(d, cycle))
    BY <1>0, <2>2, <2>4, <2>5, <2>6 DEF Seen
  <2>21. role # "critic" => \A s \in d.steps : s.role = "critic" => s.cycle < cycle
    BY <2>2, <2>5, <2>6
  <2>22. Pictures'
    BY <2>1, <2>2, <2>3, <2>9, <2>20, <2>21, RevisedAre DEF Pictures, InCycle, Summing, Seen
  <2> QED BY <2>9, <2>10, <2>11, <2>14, <2>17, <2>18, <2>19, <2>22
<1>9. CASE Revision!Judge
  <2>1. /\ pc = "judge" /\ pc' = "write_cycle" /\ completed' = fresh
        /\ review' = Revision!ReviewState(fresh["critic"], cycle, in.max)
        /\ UNCHANGED <<source, disk, in, cycle, role, look, attempt, fresh, visual, final, stops>>
    BY <1>9 DEF Revision!Judge, Revision!Goto
  <2>2. RevTypes' /\ LookType'
    BY <2>1 DEF RevTypes, LookType
  <2>3. ArtifactTypes'
    BY <2>1, ReviewIs DEF ArtifactTypes
  <2>4. Directories' /\ Records' /\ Revision!RecordsStay
    BY <2>1, DirectoriesRest
  <2>5. OwnDirectory'
    BY <2>1 DEF OwnDirectory, Begun, IsDirectory, HasSteps
  <2>6. Cycles'
    BY <2>1 DEF Cycles, Done, InCycle, Summing, HasSteps
  <2>7. Ages'
    <3>1. role = "critic"
        BY <2>1 DEF Cycles
    <3>2. \A r \in Revision!Revised : Round(r) < Round(role) \/ r = role
        BY <3>1, RevisedAre DEF Round
    <3>3. Cycled(fresh, cycle) /\ Judged(fresh)
        BY <2>1, <3>1, <3>2 DEF Ages, InCycle, Cycled
    <3> QED BY <2>1, <3>3 DEF Ages, InCycle, Summing, Cycled, Judged
  <2>8. Verdicts'
    BY <2>1 DEF Verdicts, Summing, Revision!ReviewState
  <2>9. Pictures'
    BY <2>1 DEF Pictures, InCycle, Summing, Seen
  <2> QED BY <2>2, <2>3, <2>4, <2>5, <2>6, <2>7, <2>8, <2>9
<1>10. CASE Revision!WriteCycle
  <2>a. PICK entry : entry = [status |-> review.status, visual |-> visual]
    OBVIOUS
  <2>b. PICK d : d = [disk[in.id] EXCEPT !.cycles = Append(@, entry)]
    OBVIOUS
  <2>1. /\ pc = "write_cycle" /\ disk' = [disk EXCEPT ![in.id] = d]
        /\ UNCHANGED <<source, in, cycle, completed, fresh, visual, review, final, stops>>
        /\ \/ /\ review.status = "REVIEW_PASSED" \/ cycle = in.max
              /\ pc' = "attempt" /\ attempt' = 1 /\ role' = "finalizer" /\ look' = FALSE
           \/ /\ review.status # "REVIEW_PASSED" /\ cycle # in.max
              /\ pc' = "cycle" /\ UNCHANGED <<role, look, attempt>>
    BY <1>10, <2>a, <2>b DEF Revision!WriteCycle, Revision!Ask, Revision!Goto
  <2>2. /\ IsDirectory(disk[in.id]) /\ disk[in.id].record = Gone /\ disk[in.id].final = Gone
        /\ \A s \in disk[in.id].steps :
              /\ s.cycle \in Nat /\ s.cycle <= cycle
              /\ s.role = "critic" => (s.status = "PASS" <=> s.sent)
        /\ \A n \in 1..(cycle - 1) :
              HasSteps(disk[in.id], n) /\ disk[in.id].cycles[n].status # "REVIEW_PASSED"
    BY <2>1 DEF OwnDirectory, Begun, IsDirectory
  <2>3. /\ cycle \in 1..in.max /\ Len(disk[in.id].cycles) = cycle - 1
        /\ HasSteps(disk[in.id], cycle) /\ fresh = completed /\ role = "critic"
    BY <2>1 DEF Cycles, Done
  <2>4. /\ d.steps = disk[in.id].steps /\ d.cycles = Append(disk[in.id].cycles, entry)
        /\ d.final = Gone /\ d.record = Gone
        /\ d = [steps |-> d.steps, cycles |-> d.cycles, final |-> d.final, record |-> d.record]
    BY <2>b, <2>2 DEF IsDirectory
  <2>5. entry \in [status: {"REVIEW_PASSED", "BLOCKED_BY_CRITIC",
                            "BLOCKED_AFTER_REVISION_LIMIT"},
                   visual: {"UNAVAILABLE_FREE_PROVIDER", "PASS"}]
        /\ entry.status = review.status
    BY <2>a DEF ArtifactTypes, RevTypes
  <2>6. /\ d.cycles \in Seq([status: {"REVIEW_PASSED", "BLOCKED_BY_CRITIC",
                                      "BLOCKED_AFTER_REVISION_LIMIT"},
                             visual: {"UNAVAILABLE_FREE_PROVIDER", "PASS"}])
        /\ Len(d.cycles) = cycle /\ d.cycles[cycle].status = review.status
        /\ \A n \in 1..(cycle - 1) : d.cycles[n] = disk[in.id].cycles[n]
    BY <1>0, <2>2, <2>3, <2>4, <2>5 DEF IsDirectory
  <2>7. IsDirectory(d)
    BY <2>2, <2>4, <2>6 DEF IsDirectory
  <2>8. Revision!IsPrefix(disk[in.id].cycles, d.cycles)
    BY <2>2, <2>4, Prefixes DEF IsDirectory
  <2>9. Directories' /\ Records' /\ disk'[in.id] = d /\ Revision!RecordsStay
    BY <1>0, <2>1, <2>2, <2>4, <2>7, <2>8, DirectoryWritten
  <2>10. RevTypes' /\ LookType'
    <3>1. LookType'
        BY <2>1 DEF LookType
    <3>2. RevTypes'
        BY <1>0, <2>1 DEF RevTypes, Revision!RevisionAssumption
    <3> QED BY <3>1, <3>2
  <2>11. ArtifactTypes'
    BY <2>1 DEF ArtifactTypes
  <2>12. \A n : HasSteps(disk[in.id], n) <=> HasSteps(d, n)
    BY <2>4 DEF HasSteps
  <2>13. OwnDirectory'
    <3>1. disk'[in'.id] = d /\ IsDirectory(disk[in.id])'
        BY <2>1, <2>7, <2>9 DEF IsDirectory
    <3>2. \A n \in 1..(cycle - 1) : HasSteps(d, n) /\ d.cycles[n].status # "REVIEW_PASSED"
        BY <2>2, <2>6, <2>12
    <3>3. \A s \in d.steps : s.cycle <= cycle /\ (s.role = "critic" => (s.status = "PASS" <=> s.sent))
        BY <2>2, <2>4
    <3>4. /\ in' = in /\ cycle' = cycle /\ pc' \in {"attempt", "cycle"}
          /\ d.record = Gone /\ d.final = Gone
        BY <2>1, <2>4
    <3> QED BY <3>1, <3>2, <3>3, <3>4 DEF OwnDirectory, Begun, HasSteps
  <2>14. Cycles'
    <3>1. /\ disk'[in'.id] = d /\ HasSteps(d, cycle)
          /\ pc' = "cycle" => cycle < in.max
        BY <1>0, <2>1, <2>3, <2>9, <2>12
    <3> QED BY <1>0, <2>1, <2>3, <2>6, <3>1 DEF Cycles, Done, InCycle, Summing, HasSteps
  <2>15. Ages'
    BY <2>1 DEF Ages, InCycle, Summing, Cycled, Judged
  <2>16. Verdicts'
    BY <2>1 DEF Verdicts, InCycle, Summing, Revision!ReviewState
  <2>17. Seen(d, cycle) <=> Seen(disk[in.id], cycle)
    BY <2>4 DEF Seen
  <2>18. Pictures'
    BY <2>1, <2>3, <2>9, <2>17 DEF Pictures, InCycle, Summing, Seen
  <2> QED BY <2>9, <2>10, <2>11, <2>13, <2>14, <2>15, <2>16, <2>18
\* The finalizer's files, and the record of the whole.
<1>11. ASSUME Revision!WriteFinalizer \/ Revision!WriteFinal \/ Revision!WriteRecord PROVE Goal
  <2>1. PICK d : /\ disk' = [disk EXCEPT ![in.id] = d]
                 /\ \/ /\ pc = "write_finalizer" /\ pc' = "write_final"
                       /\ d = [disk[in.id] EXCEPT !.steps = @ \cup
                                 {[cycle |-> cycle, role |-> "finalizer", sent |-> FALSE,
                                   status |-> visual]}]
                    \/ /\ pc = "write_final" /\ pc' = "write_record"
                       /\ d = [disk[in.id] EXCEPT !.final = final]
                    \/ /\ pc = "write_record" /\ pc' = "returned"
                       /\ d = [disk[in.id] EXCEPT !.record =
                                 [latest |-> completed, review |-> review, final |-> final,
                                  visual |-> visual, done |-> cycle, max |-> in.max]]
    BY <1>11 DEF Revision!WriteFinalizer, Revision!WriteFinal, Revision!WriteRecord, Revision!Goto
  <2>2. /\ pc \in {"write_finalizer", "write_final", "write_record"}
        /\ pc' \in {"write_final", "write_record", "returned"}
        /\ UNCHANGED <<source, in, cycle, role, look, attempt, completed, fresh, visual,
                       review, final, stops>>
    BY <1>11 DEF Revision!WriteFinalizer, Revision!WriteFinal, Revision!WriteRecord,
                 Revision!Goto,
                 Revision!memory
  <2>3. /\ IsDirectory(disk[in.id]) /\ disk[in.id].record = Gone
        /\ pc # "write_record" => disk[in.id].final = Gone
        /\ pc = "write_record" => disk[in.id].final = final
        /\ \A s \in disk[in.id].steps :
              /\ s.cycle \in Nat /\ s.cycle <= cycle
              /\ s.role = "critic" => (s.status = "PASS" <=> s.sent)
        /\ \A n \in 1..(cycle - 1) :
              HasSteps(disk[in.id], n) /\ disk[in.id].cycles[n].status # "REVIEW_PASSED"
    BY <2>2 DEF OwnDirectory, Begun, IsDirectory
  <2>4. /\ cycle \in 1..in.max /\ Len(disk[in.id].cycles) = cycle
        /\ HasSteps(disk[in.id], cycle) /\ fresh = completed
        /\ disk[in.id].cycles[cycle].status = review.status
        /\ review.status = "REVIEW_PASSED" \/ cycle = in.max
    BY <2>2 DEF Cycles, Done, Summing
  <2>5. /\ Cycled(completed, cycle) /\ Judged(completed)
        /\ review = Revision!ReviewState(completed["critic"], cycle, in.max)
        /\ final.basis = [r \in Revision!Revised |-> completed[r].cycle]
        /\ role = "finalizer"
    BY <2>2 DEF Ages, Verdicts, Summing
  <2>6. /\ visual = "PASS" <=> completed["critic"].image
        /\ visual = "PASS" <=> Seen(disk[in.id], cycle)
    BY <2>2 DEF Pictures, Summing
  <2>7. /\ d = [steps |-> d.steps, cycles |-> d.cycles, final |-> d.final, record |-> d.record]
        /\ d.cycles = disk[in.id].cycles
        /\ \/ d.steps = disk[in.id].steps
           \/ d.steps = disk[in.id].steps \cup
                 {[cycle |-> cycle, role |-> "finalizer", sent |-> FALSE, status |-> visual]}
        /\ d.final = IF pc = "write_final" THEN final ELSE disk[in.id].final
        /\ pc # "write_record" => d.record = Gone
        /\ pc = "write_record" =>
              d.record = [latest |-> completed, review |-> review, final |-> final,
                          visual |-> visual, done |-> cycle, max |-> in.max]
    BY <2>1, <2>3 DEF IsDirectory
  <2>8. /\ disk[in.id].steps \subseteq d.steps
        /\ \A s \in d.steps :
              /\ s.cycle \in Nat /\ s.cycle <= cycle /\ s.sent \in BOOLEAN
              /\ s.role = "critic" => s \in disk[in.id].steps
    <3>1. PICK step : /\ step.cycle = cycle /\ step.role = "finalizer" /\ step.sent \in BOOLEAN
                      /\ d.steps = disk[in.id].steps \/ d.steps = disk[in.id].steps \cup {step}
        <4>1. [cycle |-> cycle, role |-> "finalizer", sent |-> FALSE, status |-> visual].sent \in BOOLEAN
            OBVIOUS
        <4> QED BY <2>7, <4>1
    <3>2. \A s \in d.steps : s \in disk[in.id].steps \/ s = step
        BY <3>1
    <3>3. step.cycle \in Nat /\ step.cycle <= cycle /\ step.sent \in BOOLEAN /\ step.role # "critic"
        BY <1>0, <3>1
    <3>4. \A s \in disk[in.id].steps : s.cycle \in Nat /\ s.cycle <= cycle /\ s.sent \in BOOLEAN
        BY <2>3 DEF IsDirectory
    <3> QED BY <3>1, <3>2, <3>3, <3>4
  <2>9. /\ \A n : HasSteps(disk[in.id], n) => HasSteps(d, n)
        /\ Seen(d, cycle) <=> Seen(disk[in.id], cycle)
    BY <2>8 DEF HasSteps, Seen
  <2>10. IsDirectory(d)
    BY <2>3, <2>7, <2>8 DEF IsDirectory
  <2>11. pc = "write_record" => RecordIsTrue(d)
    <3> SUFFICES ASSUME pc = "write_record" PROVE RecordIsTrue(d)
        OBVIOUS
    <3>1. /\ d.record.latest = completed /\ d.record.review = review /\ d.record.final = final
          /\ d.record.visual = visual /\ d.record.done = cycle /\ d.record.max = in.max
          /\ d.final = final
        BY <2>3, <2>7
    <3>2. /\ review.cycles = cycle
          /\ review.status = "REVIEW_PASSED" <=> ~completed["critic"].blocker
        BY <2>5, ReviewIs
    <3>3. completed["critic"].image \in BOOLEAN /\ completed["critic"].blocker \in BOOLEAN
        BY RevisedAre DEF ArtifactTypes, Revision!IsArtifact
    <3>4. \A n \in 1..cycle : HasSteps(d, n)
        BY <1>0, <2>3, <2>4, <2>9
    <3>5. \A s \in d.steps : s.role = "critic" => (s.status = "PASS" <=> s.sent)
        BY <2>3, <2>8
    <3> QED BY <2>3, <2>4, <2>5, <2>6, <2>7, <2>9, <3>1, <3>2, <3>3, <3>4, <3>5
            DEF RecordIsTrue, Cycled, Judged
  <2>12. Revision!IsPrefix(disk[in.id].cycles, d.cycles)
    BY <2>3, <2>7, Prefixes DEF IsDirectory
  <2>13. Directories' /\ Records' /\ disk'[in.id] = d /\ Revision!RecordsStay
    BY <1>0, <2>1, <2>2, <2>3, <2>7, <2>8, <2>10, <2>11, <2>12, DirectoryWritten
  <2>14. RevTypes' /\ LookType' /\ ArtifactTypes'
    BY <2>2 DEF RevTypes, LookType, ArtifactTypes
  <2>15. OwnDirectory'
    BY <2>1, <2>2, <2>3, <2>7, <2>8, <2>9, <2>10, <2>13 DEF OwnDirectory, Begun, IsDirectory,
                                                            HasSteps
  <2>16. Cycles'
    BY <2>2, <2>4, <2>7, <2>9, <2>13 DEF Cycles, Done, InCycle, Summing, HasSteps
  <2>17. Ages'
    BY <2>2, <2>5 DEF Ages, InCycle, Summing, Cycled, Judged
  <2>18. Verdicts'
    BY <2>2, <2>5 DEF Verdicts, Summing, Revision!ReviewState
  <2>19. Pictures'
    BY <2>2, <2>5, <2>6, <2>9, <2>13 DEF Pictures, InCycle, Summing, Seen
  <2> QED BY <2>13, <2>14, <2>15, <2>16, <2>17, <2>18, <2>19
<1>12. CASE Revision!Stop
  <2>1. /\ pc' = "idle" /\ stops' \in 0..MaxStops
        /\ UNCHANGED <<source, in, cycle, role, look, attempt, completed, fresh, visual,
                       review, final>>
        /\ \/ UNCHANGED disk
           \/ pc = "write_final"  /\ disk' = [disk EXCEPT ![in.id] = [disk[in.id] EXCEPT !.final = Torn]]
           \/ pc = "write_record" /\ disk' = [disk EXCEPT ![in.id] = [disk[in.id] EXCEPT !.record = Torn]]
    BY <1>12 DEF Revision!Stop, Revision!Goto, Revision!memory, RevTypes,
                 Revision!RevisionAssumption
  <2>2. RevTypes' /\ LookType' /\ ArtifactTypes'
    BY <2>1 DEF RevTypes, LookType, ArtifactTypes
  <2>3. OwnDirectory' /\ Cycles' /\ Ages' /\ Verdicts' /\ Pictures'
    BY <2>1 DEF OwnDirectory, Cycles, Ages, Verdicts, Pictures, Begun, InCycle, Summing
  <2>4. CASE UNCHANGED disk
    BY <2>2, <2>3, <2>4, DirectoriesRest
  <2>5. CASE ~UNCHANGED disk
    <3>1. PICK d : /\ disk' = [disk EXCEPT ![in.id] = d]
                   /\ \/ pc = "write_final"  /\ d = [disk[in.id] EXCEPT !.final = Torn]
                      \/ pc = "write_record" /\ d = [disk[in.id] EXCEPT !.record = Torn]
        BY <2>1, <2>5
    <3>2. /\ IsDirectory(disk[in.id]) /\ disk[in.id].record = Gone
          /\ pc = "write_final" => disk[in.id].final = Gone
        BY <3>1 DEF OwnDirectory, Begun
    <3>3. /\ d = [steps |-> d.steps, cycles |-> d.cycles, final |-> d.final, record |-> d.record]
          /\ d.cycles = disk[in.id].cycles /\ d.steps = disk[in.id].steps
          /\ d.record \in {Gone, Torn} /\ disk[in.id].final \in {Gone, d.final}
        BY <3>1, <3>2 DEF IsDirectory
    <3>4. IsDirectory(d)
        BY <3>2, <3>3 DEF IsDirectory
    <3>5. Revision!IsPrefix(disk[in.id].cycles, d.cycles)
        BY <3>2, <3>3, Prefixes DEF IsDirectory
    <3>6. Directories' /\ Records' /\ Revision!RecordsStay
        BY <1>0, <3>1, <3>2, <3>3, <3>4, <3>5, DirectoryWritten
    <3> QED BY <2>2, <2>3, <3>6
  <2> QED BY <2>4, <2>5
<1> QED BY <1>1, <1>2, <1>3, <1>5, <1>6, <1>7, <1>8, <1>9, <1>10, <1>11, <1>12
        DEF Revision!Next, Revision!Step

-----------------------------------------------------------------------------
\* At every place of a revision its directory holds the steps of the cycles it
\* went through, the artifacts it works with are of the cycle it is in, and
\* every record that was written is true (revise_multi_agent_run).
THEOREM RevisionInvariantHolds == Spec => []RevInvariant
<1>1. Init => RevInvariant
  <2> SUFFICES ASSUME Init, part = "revision" PROVE RevInv
    BY DEF RevInvariant
  <2>1. Revision!Init
    BY DEF Init, RouterStarts, RunStarts, RevisionStarts, MergeStarts
  <2> QED BY <2>1, RevInit, ConstantsFit
<1>2. RevInvariant /\ [Next]_vars => RevInvariant'
  <2> SUFFICES ASSUME RevInvariant, [Next]_vars PROVE RevInvariant'
    OBVIOUS
  <2>1. CASE UNCHANGED vars
    <3>1. /\ UNCHANGED <<source, disk, pc, in, cycle, role, look, attempt, completed,
                         fresh, visual, review, final, stops>>
          /\ UNCHANGED part
        BY <2>1 DEF vars, OwnRevision, Shared
    <3> QED BY <3>1, RevRests DEF RevInvariant
  <2>2. CASE RevisionDoes(Revision!Next)
    BY <2>2, RevStep, ConstantsFit DEF RevisionDoes, RevInvariant
  <2>3. CASE Next /\ ~RevisionDoes(Revision!Next)
    BY <2>3 DEF Next, RouterDoes, RunDoes, MergeDoes, RevInvariant
  <2> QED BY <2>1, <2>2, <2>3
<1> QED BY <1>1, <1>2, PTL DEF Spec

\* A recorded revision is of its last cycle, whose critic judged what is
\* returned, and tells truly whether the picture was looked at (RevisionLoop).
THEOREM ReviewIsTold == Spec => []ReviewIsTrue
<1>1. RevInvariant => ReviewIsTrue
  <2> SUFFICES ASSUME RevInv
               PROVE  /\ Revision!TypeOK
                      /\ Revision!LatestJudged /\ Revision!BlockerNotCleared
                      /\ Revision!NoFalseVisual /\ Revision!RecordIsWhole
    BY DEF RevInvariant, ReviewIsTrue
  <2>1. Revision!TypeOK
    BY RevHasTypes DEF RevInv
  <2>2. \A i \in Revision!Recorded : RecordIsTrue(disk[i]) /\ IsDirectory(disk[i])
    BY DEF RevInv, Records, Directories, Revision!Recorded
  <2>3. Revision!LatestJudged
    BY <2>2, RevisedAre DEF RecordIsTrue, Revision!LatestJudged
  <2>4. Revision!BlockerNotCleared
    BY <2>2 DEF RecordIsTrue, Revision!BlockerNotCleared
  <2>5. Revision!NoFalseVisual
    <3> SUFFICES ASSUME NEW i \in Revision!Recorded
                 PROVE  /\ (disk[i].record.visual = "PASS") = disk[i].record.latest["critic"].image
                        /\ \A s \in disk[i].steps :
                              s.role = "critic" => (s.status = "PASS") = s.sent
                        /\ (disk[i].record.visual = "PASS") =
                              \E s \in disk[i].steps :
                                  s.role = "critic" /\ s.cycle = disk[i].record.done /\ s.sent
        BY DEF Revision!NoFalseVisual
    <3>1. (disk[i].record.visual = "PASS") = disk[i].record.latest["critic"].image
        BY <2>2 DEF RecordIsTrue
    <3>2. \A s \in disk[i].steps : s.role = "critic" => (s.status = "PASS") = s.sent
      <4>1. \A s \in disk[i].steps :
                s.sent \in BOOLEAN /\ (s.role = "critic" => (s.status = "PASS" <=> s.sent))
        BY <2>2 DEF RecordIsTrue, IsDirectory
      <4> QED BY <4>1
    <3>3. (disk[i].record.visual = "PASS") =
              \E s \in disk[i].steps :
                  s.role = "critic" /\ s.cycle = disk[i].record.done /\ s.sent
        BY <2>2 DEF RecordIsTrue, Seen
    <3> QED BY <3>1, <3>2, <3>3
  <2>6. Revision!RecordIsWhole
    BY <2>2 DEF RecordIsTrue, HasSteps, Revision!RecordIsWhole
  <2> QED BY <2>1, <2>3, <2>4, <2>5, <2>6
<1> QED BY <1>1, RevisionInvariantHolds, PTL

-----------------------------------------------------------------------------
(* The merge of a plan into stored cues.                                    *)

\* A show: its cues hold rows, and its pools what has a number.
IsShow(s) ==
    /\ s = [row |-> s.row, labels |-> s.labels, preset |-> s.preset, effect |-> s.effect]
    /\ s.row = [c \in Cues |-> [x \in Merge!Slots |-> s.row[c][x]]]
    /\ \A c \in Cues, x \in Merge!Slots : Merge!IsRow(x, s.row[c][x])
    /\ s.preset = [n \in Merge!Numbers |-> s.preset[n]]
    /\ s.effect = [n \in {Merge!Created, Merge!Verified} |-> s.effect[n]]

IsProgrammer(p) ==
    /\ p = [selection |-> p.selection, used |-> p.used, row |-> p.row]
    /\ p.row = [x \in Merge!Slots |-> p.row[x]]
    /\ \A x \in Merge!Slots : Merge!IsRow(x, p.row[x])

MergeTypes ==
    /\ status \in {"none", "preview", "running", "exported", "VERIFIED", "FAILED", "STALE"}
    /\ plan \in Plans \cup {None}
    /\ at \in Nat \ {0}
    /\ edits \in 0..MaxEdits /\ ignored \in 0..MaxIgnored

QuietType == quiet \in BOOLEAN

\* The preview was built from a show that its plan fits.
Previewed == status # "none" => plan \in Plans /\ IsShow(basis) /\ Merge!Fits(plan, basis)

\* The export that was accepted shows the plan and nothing else.
Accepted == status \in {"exported", "VERIFIED"} => IsShow(export) /\ Merge!Matches(export)

\* What is about to be created was free at the approval.
Free ==
    status = "running" =>
        /\ \A n \in Merge!Reserved :
              n \in Merge!Numbers /\ show.preset[n] # None => show.preset[n].by # "early"
        /\ Merge!CreatesEffect => show.effect[Merge!Created] # "early"

MergeInv ==
    /\ MergeTypes /\ QuietType /\ IsShow(show) /\ IsProgrammer(prog)
    /\ Previewed /\ Accepted /\ Free

MergeInvariant == part = "merge" => MergeInv

LEMMA MergeHasTypes == MergeTypes /\ QuietType /\ IsShow(show) /\ IsProgrammer(prog) => Merge!TypeOK
    BY DEF MergeTypes, QuietType, IsShow, IsProgrammer, Merge!TypeOK

LEMMA SlotsAre ==
    ASSUME NEW x \in Merge!Slots
    PROVE  /\ x = <<x[1], x[2]>> /\ x[1] \in Merge!Fixtures
           /\ x[2] \in {"PAN", "TILT", "MARK", "COLOR", "DIM"}
    BY DEF Merge!Slots

LEMMA SlotIs ==
    ASSUME NEW f \in Merge!Fixtures, NEW a \in {"PAN", "TILT", "MARK", "COLOR", "DIM"}
    PROVE  <<f, a>> \in Merge!Slots /\ <<f, a>>[1] = f /\ <<f, a>>[2] = a
    BY DEF Merge!Slots

LEMMA InitialShow ==
    ASSUME Merge!CueMergeAssumption, NEW rows \in Rows,
           show = [row |-> rows, labels |-> "old", preset |-> [n \in Merge!Numbers |-> None],
                   effect |-> [e \in {Merge!Created, Merge!Verified} |->
                                  IF e = Merge!Verified THEN "verified" ELSE None]]
    PROVE  IsShow(show)
<1>1. /\ show.row = rows /\ show.labels = "old" /\ show.preset = [n \in Merge!Numbers |-> None]
      /\ show.effect = [e \in {Merge!Created, Merge!Verified} |->
                           IF e = Merge!Verified THEN "verified" ELSE None]
    OBVIOUS
<1>2. /\ rows = [c \in Cues |-> [x \in Merge!Slots |-> rows[c][x]]]
      /\ \A c \in Cues, x \in Merge!Slots : Merge!IsRow(x, rows[c][x])
    BY DEF Merge!CueMergeAssumption
<1>3. show = [row |-> show.row, labels |-> show.labels, preset |-> show.preset,
              effect |-> show.effect]
    BY <1>1
<1>4. /\ show.preset = [n \in Merge!Numbers |-> show.preset[n]]
      /\ show.effect = [n \in {Merge!Created, Merge!Verified} |-> show.effect[n]]
    BY <1>1
<1> QED BY <1>1, <1>2, <1>3, <1>4 DEF IsShow

LEMMA ClearedIs == ASSUME Merge!CueMergeAssumption PROVE IsProgrammer(Merge!Cleared)
<1>1. /\ Merge!Cleared.selection = {} /\ Merge!Cleared.used = FALSE
      /\ Merge!Cleared.row = [x \in Merge!Slots |-> Merge!Blank]
    BY DEF Merge!Cleared
<1>2. \A x \in Merge!Slots : Merge!IsRow(x, Merge!Blank)
    BY DEF Merge!IsRow, Merge!Blank, Merge!CueMergeAssumption, Merge!NoneIsNone
<1>3. Merge!Cleared = [selection |-> Merge!Cleared.selection, used |-> Merge!Cleared.used,
                       row |-> Merge!Cleared.row]
    BY DEF Merge!Cleared
<1> QED BY <1>1, <1>2, <1>3 DEF IsProgrammer

LEMMA MergeInit ==
    ASSUME Merge!CueMergeAssumption, Merge!Init PROVE MergeInv
<1>1. IsShow(show)
    BY InitialShow DEF Merge!Init
<1>2. IsProgrammer(prog)
    BY ClearedIs DEF Merge!Init
<1>3. QuietType
    BY DEF Merge!Init, QuietType
<1>4. MergeTypes
    BY DEF Merge!Init, MergeTypes, Merge!CueMergeAssumption
<1>5. Previewed /\ Accepted /\ Free
    BY DEF Merge!Init, Previewed, Accepted, Free
<1> QED BY <1>1, <1>2, <1>3, <1>4, <1>5 DEF MergeInv

\* What was found to match does so as long as the plan is the same.
LEMMA MatchesStays ==
    ASSUME UNCHANGED <<plan, basis, commands>>, NEW s, Merge!Matches(s), export' = s
    PROVE  Merge!Matches(export)'
<1>1. plan' = plan /\ basis' = basis /\ commands' = commands
    OBVIOUS
<1>2. Merge!Snapshot(plan', export') = Merge!Snapshot(plan', basis')
    BY <1>1 DEF Merge!Matches
<1>3. ASSUME NEW c \in Cues, NEW i \in 1..Len(Order)
      PROVE  /\ Merge!ShowsPosition(export, c, i)'
             /\ plan.kind # "position" =>
                   Merge!EffectIds(export', c, Order[i]) = Merge!EffectsAfter(c, Order[i])'
             /\ Merge!HasColour(plan, c) =>
                   Merge!Colour \in Merge!PresetRefs(export', c, Order[i])
  <2>1. Merge!ShowsPosition(export, c, i)'
    BY <1>1, <1>3 DEF Merge!Matches, Merge!ShowsPosition
  <2>2. Merge!EffectsAfter(c, Order[i])' = Merge!EffectsAfter(c, Order[i])
    BY <1>1 DEF Merge!EffectsAfter
  <2> QED BY <1>1, <1>3, <2>1, <2>2 DEF Merge!Matches
<1>4. plan.kind = "resources" => Merge!ShowsResources(export)'
    BY <1>1 DEF Merge!Matches, Merge!ShowsResources
<1>5. export'.labels = basis'.labels
    BY <1>1 DEF Merge!Matches
<1> QED BY <1>1, <1>2, <1>3, <1>4, <1>5 DEF Merge!Matches

LEMMA ReservedStays ==
    ASSUME UNCHANGED commands
    PROVE  /\ Merge!Reserved' = Merge!Reserved
           /\ Merge!CreatesEffect' <=> Merge!CreatesEffect
    BY DEF Merge!Reserved, Merge!CreatesEffect

LEMMA MergeRests ==
    ASSUME MergeInv, UNCHANGED <<plan, basis, commands, at, status, show, prog, export, quiet,
                                 edits, ignored>>
    PROVE  MergeInv' /\ Merge!OwnKept
<1> USE DEF MergeInv
<1>1. MergeTypes' /\ QuietType' /\ IsShow(show)' /\ IsProgrammer(prog)'
    BY DEF MergeTypes, QuietType, IsShow, IsProgrammer
<1>2. Previewed' /\ Accepted'
    BY MatchesStays DEF Previewed, Accepted, IsShow
<1>3. Free'
    BY ReservedStays DEF Free
<1>4. Merge!OwnKept
    BY DEF Merge!OwnKept
<1> QED BY <1>1, <1>2, <1>3, <1>4

\* A row that is given values stays one.
LEMMA GivenRow ==
    ASSUME Merge!CueMergeAssumption, NEW cmd, NEW x \in Merge!Slots, NEW r, Merge!IsRow(x, r),
           cmd.op \in {"value", "preset", "effect"}, x[2] \in Merge!Attributes(cmd)
    PROVE  Merge!IsRow(x, Merge!Given(cmd, x, r))
<1>1. r = [value |-> r.value, preset |-> r.preset, effect |-> r.effect]
      /\ (r.preset = Merge!Colour => x[2] = "COLOR") /\ None # Merge!Colour
    BY DEF Merge!IsRow, Merge!CueMergeAssumption, Merge!NoneIsNone
<1>2. CASE cmd.op = "value"
  <2>1. PICK g : g = Merge!Given(cmd, x, r)
    OBVIOUS
  <2>2. g = [r EXCEPT !.value = cmd.to, !.preset = None]
    BY <1>2, <2>1 DEF Merge!Given
  <2>3. g = [value |-> g.value, preset |-> g.preset, effect |-> g.effect] /\ g.preset = None
    BY <1>1, <2>2
  <2> QED BY <1>1, <2>1, <2>3 DEF Merge!IsRow
<1>3. CASE cmd.op = "preset"
  <2>1. PICK g : g = Merge!Given(cmd, x, r)
    OBVIOUS
  <2>2. g = [r EXCEPT !.value = Merge!Held(cmd.preset, x[1], x[2]), !.preset = cmd.preset]
    BY <1>3, <2>1 DEF Merge!Given
  <2>3. g = [value |-> g.value, preset |-> g.preset, effect |-> g.effect] /\ g.preset = cmd.preset
    BY <1>1, <2>2
  <2>4. cmd.preset = Merge!Colour => x[2] = "COLOR"
    BY <1>3 DEF Merge!Attributes
  <2> QED BY <2>1, <2>3, <2>4 DEF Merge!IsRow
<1>4. CASE cmd.op = "effect"
  <2>1. PICK g : g = Merge!Given(cmd, x, r)
    OBVIOUS
  <2>2. g = [r EXCEPT !.effect = cmd.effect]
    BY <1>4, <2>1 DEF Merge!Given
  <2>3. g = [value |-> g.value, preset |-> g.preset, effect |-> g.effect] /\ g.preset = r.preset
    BY <1>1, <2>2
  <2> QED BY <1>1, <2>1, <2>3 DEF Merge!IsRow
<1> QED BY <1>2, <1>3, <1>4

LEMMA ProgrammerIs ==
    ASSUME Merge!CueMergeAssumption, NEW cmd, IsProgrammer(prog)
    PROVE  IsProgrammer(Merge!Programmer(cmd))
<1>1. PICK p : p = Merge!Programmer(cmd)
    OBVIOUS
<1>2. CASE cmd.op = "clear"
    BY <1>2, ClearedIs DEF Merge!Programmer
<1>3. CASE cmd.op = "select"
  <2>1. p = Merge!Selected(cmd.fixtures)
    BY <1>1, <1>3 DEF Merge!Programmer
  <2>2. p = [prog EXCEPT !.selection = IF prog.used THEN cmd.fixtures ELSE @ \cup cmd.fixtures,
                         !.used = FALSE]
    BY <2>1 DEF Merge!Selected
  <2>3. p = [selection |-> p.selection, used |-> p.used, row |-> p.row] /\ p.row = prog.row
    BY <2>2 DEF IsProgrammer
  <2> QED BY <1>1, <2>3 DEF IsProgrammer
<1>4. CASE cmd.op \in {"value", "preset", "effect"}
  <2>1. p = [prog EXCEPT !.used = TRUE,
                !.row = [x \in Merge!Slots |->
                           IF x[1] \in prog.selection /\ x[2] \in Merge!Attributes(cmd)
                           THEN Merge!Given(cmd, x, prog.row[x]) ELSE prog.row[x]]]
    BY <1>1, <1>4 DEF Merge!Programmer
  <2>2. /\ p = [selection |-> p.selection, used |-> p.used, row |-> p.row]
        /\ p.row = [x \in Merge!Slots |->
                      IF x[1] \in prog.selection /\ x[2] \in Merge!Attributes(cmd)
                      THEN Merge!Given(cmd, x, prog.row[x]) ELSE prog.row[x]]
    BY <2>1 DEF IsProgrammer
  <2>3. \A x \in Merge!Slots : Merge!IsRow(x, p.row[x])
    <3> SUFFICES ASSUME NEW x \in Merge!Slots PROVE Merge!IsRow(x, p.row[x])
        OBVIOUS
    <3>1. Merge!IsRow(x, prog.row[x])
        BY DEF IsProgrammer
    <3>2. CASE x[1] \in prog.selection /\ x[2] \in Merge!Attributes(cmd)
      <4>1. p.row[x] = Merge!Given(cmd, x, prog.row[x])
        BY <2>2, <3>2
      <4> QED BY <1>4, <3>1, <3>2, <4>1, GivenRow
    <3>3. CASE ~(x[1] \in prog.selection /\ x[2] \in Merge!Attributes(cmd))
      <4>1. p.row[x] = prog.row[x]
        BY <2>2, <3>3
      <4> QED BY <3>1, <4>1
    <3> QED BY <3>2, <3>3
  <2>4. p.row = [x \in Merge!Slots |-> p.row[x]]
    BY <2>2
  <2> QED BY <1>1, <2>2, <2>3, <2>4 DEF IsProgrammer
<1>5. CASE cmd.op \notin {"clear", "select", "value", "preset", "effect"}
  <2>1. Merge!Programmer(cmd) = prog
    BY <1>5 DEF Merge!Programmer
  <2> QED BY <2>1
<1> QED BY <1>2, <1>3, <1>4, <1>5

\* A show with other cues, or other pools, is one.
LEMMA RowWritten ==
    ASSUME IsShow(show), NEW c \in Cues, NEW q, NEW s, s = [show EXCEPT !.row[c] = q],
           q = [x \in Merge!Slots |-> q[x]],
           \A x \in Merge!Slots : Merge!IsRow(x, q[x])
    PROVE  IsShow(s) /\ s.preset = show.preset /\ s.effect = show.effect
<1>1. /\ s = [row |-> s.row, labels |-> s.labels, preset |-> s.preset, effect |-> s.effect]
      /\ s.row = [show.row EXCEPT ![c] = q]
      /\ s.preset = show.preset /\ s.effect = show.effect
    BY DEF IsShow
<1>2. s.row = [d \in Cues |-> IF d = c THEN q ELSE show.row[d]]
    BY <1>1 DEF IsShow
<1>3. \A d \in Cues : s.row[d] = [x \in Merge!Slots |-> s.row[d][x]]
    BY <1>2 DEF IsShow
<1>4. \A d \in Cues, x \in Merge!Slots : Merge!IsRow(x, s.row[d][x])
    BY <1>2 DEF IsShow
<1>5. s.row = [d \in Cues |-> [x \in Merge!Slots |-> s.row[d][x]]]
    BY <1>2, <1>3
<1> QED BY <1>1, <1>4, <1>5 DEF IsShow

LEMMA EffectWritten ==
    ASSUME IsShow(show), NEW v, NEW s, s = [show EXCEPT !.effect[Merge!Created] = v]
    PROVE  IsShow(s) /\ s.preset = show.preset /\ s.effect[Merge!Created] = v
<1>1. /\ s = [row |-> s.row, labels |-> s.labels, preset |-> s.preset, effect |-> s.effect]
      /\ s.effect = [show.effect EXCEPT ![Merge!Created] = v]
      /\ s.row = show.row /\ s.preset = show.preset
    BY DEF IsShow
<1>2. s.effect = [k \in {Merge!Created, Merge!Verified} |->
                     IF k = Merge!Created THEN v ELSE show.effect[k]]
    BY <1>1 DEF IsShow
<1> QED BY <1>1, <1>2 DEF IsShow

LEMMA LabelsWritten ==
    ASSUME IsShow(show), NEW v, NEW s, s = [show EXCEPT !.labels = v]
    PROVE  IsShow(s) /\ s.preset = show.preset /\ s.effect = show.effect
<1>1. /\ s = [row |-> s.row, labels |-> s.labels, preset |-> s.preset, effect |-> s.effect]
      /\ s.row = show.row /\ s.preset = show.preset /\ s.effect = show.effect
    BY DEF IsShow
<1> QED BY <1>1 DEF IsShow

\* A row into which active values are stored stays one.
LEMMA MergedIs ==
    ASSUME NEW x, NEW r, NEW q, Merge!IsRow(x, r), Merge!IsRow(x, q)
    PROVE  Merge!IsRow(x, Merge!Merged(r, q))
    BY DEF Merge!IsRow, Merge!Merged

\* What a command makes of the show, and what it leaves.
LEMMA ShowIs ==
    ASSUME Merge!CueMergeAssumption, NEW cmd, IsShow(show), IsProgrammer(prog)
    PROVE  /\ IsShow(Merge!Show(cmd))
           /\ \A n \in Merge!Numbers :
                 \/ Merge!Show(cmd).preset[n] = show.preset[n]
                 \/ /\ cmd.op = "create preset" /\ n = cmd.number
                    /\ Merge!Show(cmd).preset[n].by = "plan"
           /\ \/ Merge!Show(cmd).effect[Merge!Created] = show.effect[Merge!Created]
              \/ /\ cmd.op = "create effect"
                 /\ Merge!Show(cmd).effect[Merge!Created] = "plan"
<1>1. PICK s : s = Merge!Show(cmd)
    OBVIOUS
<1>2. CASE cmd.op = "store" /\ cmd.cue \in Cues
  <2>1. PICK q : q = [x \in Merge!Slots |-> Merge!Merged(show.row[cmd.cue][x], prog.row[x])]
    OBVIOUS
  <2>2. s = [show EXCEPT !.row[cmd.cue] = q]
    BY <1>1, <1>2, <2>1 DEF Merge!Show, IsShow
  <2>3. \A x \in Merge!Slots : Merge!IsRow(x, q[x])
    BY <1>2, <2>1, MergedIs DEF IsShow, IsProgrammer
  <2>4. q = [x \in Merge!Slots |-> q[x]]
    BY <2>1
  <2>5. IsShow(s) /\ s.preset = show.preset /\ s.effect = show.effect
    BY <1>2, <2>2, <2>3, <2>4, RowWritten
  <2> QED BY <1>1, <2>5
<1>6. CASE cmd.op = "store" /\ cmd.cue \notin Cues
  <2>1. s = [show EXCEPT !.row[cmd.cue] =
                [x \in Merge!Slots |-> Merge!Merged(show.row[cmd.cue][x], prog.row[x])]]
    BY <1>1, <1>6 DEF Merge!Show
  <2>2. s = show
    BY <1>6, <2>1 DEF IsShow
  <2> QED BY <1>1, <2>2
<1>3. CASE cmd.op = "create preset"
  <2>1. PICK v : v = [label |-> cmd.label, by |-> "plan",
                at |-> [f \in Merge!Fixtures |-> <<prog.row[<<f, "PAN">>].value,
                                                   prog.row[<<f, "TILT">>].value>>]]
    OBVIOUS
  <2>5. PICK n : n = cmd.number
    OBVIOUS
  <2>2. /\ s = [row |-> s.row, labels |-> s.labels, preset |-> s.preset, effect |-> s.effect]
        /\ s.preset = [show.preset EXCEPT ![n] = v]
        /\ s.row = show.row /\ s.effect = show.effect
    BY <1>1, <1>3, <2>1, <2>5 DEF Merge!Show, IsShow
  <2>3. v.by = "plan"
    BY <2>1
  <2>4. IsShow(s) /\ \A k \in Merge!Numbers : s.preset[k] = IF k = n THEN v ELSE show.preset[k]
    <3>1. s.preset = [k \in Merge!Numbers |-> IF k = n THEN v ELSE show.preset[k]]
        BY <2>2 DEF IsShow
    <3> QED BY <2>2, <3>1 DEF IsShow
  <2> QED BY <1>1, <1>3, <2>2, <2>3, <2>4, <2>5
<1>4. CASE cmd.op = "create effect"
  <2>1. s = [show EXCEPT !.effect[Merge!Created] = "plan"]
    BY <1>1, <1>4 DEF Merge!Show
  <2>2. IsShow(s) /\ s.preset = show.preset /\ s.effect[Merge!Created] = "plan"
    BY <2>1, EffectWritten
  <2> QED BY <1>1, <1>4, <2>2
<1>5. CASE cmd.op \notin {"store", "create preset", "create effect"}
  <2>1. s = show
    BY <1>1, <1>5 DEF Merge!Show
  <2> QED BY <1>1, <2>1
<1> QED BY <1>2, <1>3, <1>4, <1>5, <1>6

-----------------------------------------------------------------------------
(* What is found to match is what was planned.                              *)

LEMMA PlanIs ==
    ASSUME Merge!CueMergeAssumption, plan \in Plans
    PROVE  plan.kind \in {"position", "dynamic", "resources"}
    BY DEF Merge!CueMergeAssumption, Merge!IsPlan

\* A target has a place in the order of selection.
LEMMA TargetIs ==
    ASSUME Merge!CueMergeAssumption, NEW x \in Merge!Slots, Merge!OnTarget(x)
    PROVE  \E i \in 1..Len(Order) : x[1] = Order[i]
<1>1. x[1] \in Merge!Targets
    BY DEF Merge!OnTarget
<1>2. \A y \in Merge!Targets : \E i \in 1..Len(Order) : y = Order[i]
    BY DEF Merge!CueMergeAssumption, Merge!Targets, Merge!ToSet
<1> QED BY <1>1, <1>2 DEF Merge!Targets

\* What a plan is compared by.
LEMMA EqualParts ==
    ASSUME Merge!CueMergeAssumption, plan \in Plans, NEW s,
           Merge!Snapshot(plan, s) = Merge!Snapshot(plan, basis),
           NEW c \in Cues, NEW x \in Merge!Slots
    PROVE  /\ plan.kind = "position" /\ ~Merge!PositionRow(x) => s.row[c][x] = basis.row[c][x]
           /\ plan.kind # "position" =>
                 Merge!Protected(plan, c, x, s.row[c][x])
                     = Merge!Protected(plan, c, x, basis.row[c][x])
<1>1. ASSUME plan.kind = "position", ~Merge!PositionRow(x) PROVE s.row[c][x] = basis.row[c][x]
  <2>1. Merge!NonPosition(s) = Merge!NonPosition(basis)
    BY <1>1 DEF Merge!Snapshot
  <2>2. Merge!NonPosition(s)[c][x] = s.row[c][x]
    BY <1>1 DEF Merge!NonPosition
  <2>3. Merge!NonPosition(basis)[c][x] = basis.row[c][x]
    BY <1>1 DEF Merge!NonPosition
  <2> QED BY <2>1, <2>2, <2>3
<1>2. ASSUME plan.kind # "position"
      PROVE  Merge!Protected(plan, c, x, s.row[c][x])
                 = Merge!Protected(plan, c, x, basis.row[c][x])
  <2>1. [d \in Cues |-> [y \in Merge!Slots |-> Merge!Protected(plan, d, y, s.row[d][y])]]
            = [d \in Cues |-> [y \in Merge!Slots |-> Merge!Protected(plan, d, y, basis.row[d][y])]]
    BY <1>2 DEF Merge!Snapshot
  <2>2. [y \in Merge!Slots |-> Merge!Protected(plan, c, y, s.row[c][y])]
            = [y \in Merge!Slots |-> Merge!Protected(plan, c, y, basis.row[c][y])]
    BY <2>1
  <2> QED BY <2>2
<1> QED BY <1>1, <1>2

\* What equal protected rows have in common.
LEMMA ProtectedParts ==
    ASSUME NEW c, NEW x \in Merge!Slots, NEW r, NEW q, Merge!IsRow(x, r), Merge!IsRow(x, q),
           Merge!Protected(plan, c, x, r) = Merge!Protected(plan, c, x, q)
    PROVE  /\ ~(Merge!OnTarget(x) /\ x[2] = "DIM" /\ Merge!HasEffect(plan, c)) =>
                 r.effect = q.effect
           /\ ~(/\ Merge!OnTarget(x)
                /\ Merge!PositionRow(x) \/ (x[2] = "COLOR" /\ Merge!HasColour(plan, c))) =>
                 r.value = q.value /\ r.preset = q.preset
<1>1. /\ r = [value |-> r.value, preset |-> r.preset, effect |-> r.effect]
      /\ q = [value |-> q.value, preset |-> q.preset, effect |-> q.effect]
    BY DEF Merge!IsRow
<1>2. PICK free : free = (/\ Merge!OnTarget(x)
                          /\ Merge!PositionRow(x) \/ (x[2] = "COLOR" /\ Merge!HasColour(plan, c)))
    OBVIOUS
<1>3. PICK dim : dim = (Merge!OnTarget(x) /\ x[2] = "DIM" /\ Merge!HasEffect(plan, c))
    OBVIOUS
<1>4. PICK h : h = IF free THEN [r EXCEPT !.value = None, !.preset = None] ELSE r
    OBVIOUS
<1>5. PICK k : k = IF free THEN [q EXCEPT !.value = None, !.preset = None] ELSE q
    OBVIOUS
<1>6. /\ Merge!Protected(plan, c, x, r) = IF dim THEN [h EXCEPT !.effect = None] ELSE h
      /\ Merge!Protected(plan, c, x, q) = IF dim THEN [k EXCEPT !.effect = None] ELSE k
    BY <1>2, <1>3, <1>4, <1>5 DEF Merge!Protected
<1>7. /\ h.effect = r.effect /\ k.effect = q.effect
      /\ ~free => h.value = r.value /\ k.value = q.value /\ h.preset = r.preset /\ k.preset = q.preset
      /\ h = [value |-> h.value, preset |-> h.preset, effect |-> h.effect]
      /\ k = [value |-> k.value, preset |-> k.preset, effect |-> k.effect]
    BY <1>1, <1>4, <1>5
<1>8. ~dim => h = k
    BY <1>6
<1>9. h.value = k.value /\ h.preset = k.preset
    BY <1>6, <1>7
<1> QED BY <1>2, <1>3, <1>7, <1>8, <1>9

\* What a merge that is found to match left as it was.
LEMMA Left ==
    ASSUME Merge!CueMergeAssumption, plan \in Plans, IsShow(basis), NEW s, IsShow(s),
           Merge!Snapshot(plan, s) = Merge!Snapshot(plan, basis), NEW c \in Cues,
           NEW x \in Merge!Slots, NEW was, was = basis.row[c][x], NEW is, is = s.row[c][x]
    PROVE  /\ plan.kind = "position" /\ ~Merge!PositionRow(x) => is = was
           /\ plan.kind # "position" =>
                 /\ ~(Merge!OnTarget(x) /\ x[2] = "DIM" /\ Merge!HasEffect(plan, c)) =>
                       is.effect = was.effect
                 /\ ~(/\ Merge!OnTarget(x)
                      /\ Merge!PositionRow(x) \/ (x[2] = "COLOR" /\ Merge!HasColour(plan, c))) =>
                       is.value = was.value /\ is.preset = was.preset
<1>1. /\ Merge!IsRow(x, was) /\ Merge!IsRow(x, is)
      /\ was = [value |-> was.value, preset |-> was.preset, effect |-> was.effect]
      /\ is = [value |-> is.value, preset |-> is.preset, effect |-> is.effect]
    BY DEF IsShow, Merge!IsRow
<1>3. /\ plan.kind = "position" /\ ~Merge!PositionRow(x) => is = was
      /\ plan.kind # "position" =>
            Merge!Protected(plan, c, x, is) = Merge!Protected(plan, c, x, was)
    BY EqualParts
<1>4. plan.kind # "position" =>
         /\ ~(Merge!OnTarget(x) /\ x[2] = "DIM" /\ Merge!HasEffect(plan, c)) =>
               is.effect = was.effect
         /\ ~(/\ Merge!OnTarget(x)
              /\ Merge!PositionRow(x) \/ (x[2] = "COLOR" /\ Merge!HasColour(plan, c))) =>
               is.value = was.value /\ is.preset = was.preset
    BY <1>1, <1>3, ProtectedParts
<1> QED BY <1>3, <1>4

LEMMA Planned ==
    ASSUME Merge!CueMergeAssumption, plan \in Plans, IsShow(basis), NEW s, IsShow(s),
           Merge!Fits(plan, basis), Merge!Matches(s), NEW c \in Cues, NEW x \in Merge!Slots
    PROVE  Merge!AsPlanned(c, x, basis.row[c][x], s.row[c][x])
<1> PICK was : was = basis.row[c][x]
    OBVIOUS
<1> PICK is : is = s.row[c][x]
    OBVIOUS
<1>1. /\ Merge!IsRow(x, was) /\ Merge!IsRow(x, is)
      /\ was = [value |-> was.value, preset |-> was.preset, effect |-> was.effect]
      /\ is = [value |-> is.value, preset |-> is.preset, effect |-> is.effect]
    BY DEF IsShow, Merge!IsRow
<1>2. Merge!Snapshot(plan, s) = Merge!Snapshot(plan, basis)
    BY DEF Merge!Matches
<1>3. plan.kind = "position" /\ ~Merge!PositionRow(x) => is = was
    BY <1>2, Left
<1>4. plan.kind # "position" =>
         /\ ~(Merge!OnTarget(x) /\ x[2] = "DIM" /\ Merge!HasEffect(plan, c)) =>
               is.effect = was.effect
         /\ ~(/\ Merge!OnTarget(x)
              /\ Merge!PositionRow(x) \/ (x[2] = "COLOR" /\ Merge!HasColour(plan, c))) =>
               is.value = was.value /\ is.preset = was.preset
    BY <1>2, Left
<1>5. x[2] \in {"PAN", "TILT", "MARK", "COLOR", "DIM"}
    BY SlotsAre
<1>6. ASSUME Merge!OnTarget(x), x[2] \in {"PAN", "TILT"}
      PROVE  /\ plan.kind = "position" \/ is.effect = was.effect
             /\ \E i \in 1..Len(Order), k \in 1..2 :
                   /\ x = <<Order[i], <<"PAN", "TILT">>[k]>>
                   /\ \/ is.value = Merge!Aim(plan, c, i)[k]
                      \/ Merge!Close(is.value, Merge!Aim(plan, c, i)[k])
  <2>1. plan.kind = "position" \/ is.effect = was.effect
    BY <1>4, <1>6
  <2>2. PICK i \in 1..Len(Order) : x[1] = Order[i]
    BY <1>6, TargetIs
  <2>3. PICK k \in 1..2 : x[2] = <<"PAN", "TILT">>[k]
    <3>1. <<"PAN", "TILT">>[1] = "PAN" /\ <<"PAN", "TILT">>[2] = "TILT" /\ 1 \in 1..2 /\ 2 \in 1..2
        OBVIOUS
    <3> QED BY <1>6, <3>1
  <2>4. x = <<Order[i], <<"PAN", "TILT">>[k]>>
    BY <2>2, <2>3, SlotsAre
  <2>5. Merge!ShowsPosition(s, c, i)
    BY <2>2 DEF Merge!Matches
  <2>6. \/ s.row[c][<<Order[i], <<"PAN", "TILT">>[k]>>].value = Merge!Aim(plan, c, i)[k]
        \/ Merge!Close(s.row[c][<<Order[i], <<"PAN", "TILT">>[k]>>].value, Merge!Aim(plan, c, i)[k])
    BY <2>3, <2>5 DEF Merge!ShowsPosition
  <2>7. \/ is.value = Merge!Aim(plan, c, i)[k]
        \/ Merge!Close(is.value, Merge!Aim(plan, c, i)[k])
    BY <2>4, <2>6
  <2> QED BY <2>1, <2>2, <2>3, <2>4, <2>7
<1>7. ASSUME Merge!OnTarget(x), x[2] = "COLOR", Merge!HasColour(plan, c)
      PROVE  is.preset = Merge!Colour /\ is.effect = was.effect
  <2>1. plan.kind = "dynamic"
    BY <1>7 DEF Merge!HasColour
  <2>2. PICK i \in 1..Len(Order) : x[1] = Order[i]
    BY <1>7, TargetIs
  <2>3. Merge!Colour \in Merge!PresetRefs(s, c, Order[i])
    BY <1>7, <2>2 DEF Merge!Matches
  <2>4. PICK y \in Merge!Slots : y[1] = x[1] /\ s.row[c][y].preset = Merge!Colour
    BY <2>2, <2>3 DEF Merge!PresetRefs
  <2>5. y[2] = "COLOR"
    BY <2>4 DEF IsShow, Merge!IsRow
  <2>6. y = x
    BY <1>7, <2>4, <2>5, SlotsAre
  <2> QED BY <1>4, <1>7, <2>1, <2>4, <2>6
<1>8. ASSUME Merge!OnTarget(x), x[2] = "DIM", Merge!HasEffect(plan, c)
      PROVE  is = [was EXCEPT !.effect = plan.cue[c].effect]
  <2>1. plan.kind # "position" /\ plan.cue[c].effect # None
    BY <1>8 DEF Merge!HasEffect
  <2>2. PICK i \in 1..Len(Order) : x[1] = Order[i]
    BY <1>8, TargetIs
  <2>3. plan.cue[c].effect \in Merge!EffectIds(s, c, x[1])
    BY <1>8, <2>1, <2>2 DEF Merge!Matches, Merge!EffectsAfter
  <2>4. PICK y \in Merge!Slots : y[1] = x[1] /\ s.row[c][y].effect = plan.cue[c].effect
    BY <2>3 DEF Merge!EffectIds
  <2>5. Merge!EffectIds(basis, c, x[1]) = {}
    BY <1>8, <2>1, PlanIs
       DEF Merge!Fits, Merge!DynamicFits, Merge!ResourcesFit, Merge!OnTarget
  <2>6. basis.row[c][y].effect = None
    BY <2>4, <2>5 DEF Merge!EffectIds
  <2>7. y[2] = "DIM"
    <3>1. s.row[c][y].effect = basis.row[c][y].effect \/ y[2] = "DIM"
        BY <1>2, <2>1, Left
    <3> QED BY <2>1, <2>4, <2>6, <3>1
  <2>8. y = x
    BY <1>8, <2>4, <2>7, SlotsAre
  <2>9. is.effect = plan.cue[c].effect
    BY <2>4, <2>8
  <2>10. is.value = was.value /\ is.preset = was.preset
    BY <1>4, <1>8, <2>1 DEF Merge!PositionRow
  <2> QED BY <1>1, <2>9, <2>10
<1>9. ASSUME ~(Merge!OnTarget(x) /\ x[2] \in {"PAN", "TILT"}),
             ~(Merge!OnTarget(x) /\ x[2] = "COLOR" /\ Merge!HasColour(plan, c)),
             ~(Merge!OnTarget(x) /\ x[2] = "DIM" /\ Merge!HasEffect(plan, c)),
             ~(Merge!OnTarget(x) /\ x[2] = "MARK"),
             ~(~Merge!OnTarget(x) /\ Merge!PositionRow(x) /\ plan.kind = "position")
      PROVE  is = was
  <2>1. CASE plan.kind = "position"
    BY <1>3, <1>5, <1>9, <2>1 DEF Merge!PositionRow
  <2>2. CASE plan.kind # "position"
    <3>1. is.effect = was.effect
        BY <1>4, <1>9, <2>2
    <3>2. is.value = was.value /\ is.preset = was.preset
        BY <1>4, <1>9, <2>2 DEF Merge!PositionRow
    <3> QED BY <1>1, <3>1, <3>2
  <2> QED BY <2>1, <2>2
<1> QED BY <1>5, <1>6, <1>7, <1>8, <1>9 DEF Merge!AsPlanned

-----------------------------------------------------------------------------
(* The steps of a merge.                                                    *)

\* A step that leaves the plan and what belongs to it.
LEMMA Follows ==
    ASSUME MergeInv, UNCHANGED <<plan, basis, commands>>, status # "none"
    PROVE  Previewed'
    BY DEF MergeInv, Previewed, IsShow

LEMMA NothingOverwritten ==
    ASSUME show' = show PROVE Merge!OwnKept
    BY DEF Merge!OwnKept

LEMMA StepPreview ==
    ASSUME Merge!CueMergeAssumption, MergeInv, NEW p \in Plans, Merge!Preview(p)
    PROVE  MergeInv' /\ Merge!OwnKept
<1> USE DEF Merge!Preview
<1>1. MergeTypes'
    BY DEF MergeInv, MergeTypes
<1>2. QuietType' /\ IsShow(show)' /\ IsProgrammer(prog)'
    BY DEF MergeInv, QuietType, IsShow, IsProgrammer
<1>3. Previewed'
    BY DEF MergeInv, Previewed, IsShow
<1>4. Accepted' /\ Free'
    BY DEF Accepted, Free
<1>5. Merge!OwnKept
    BY NothingOverwritten
<1> QED BY <1>1, <1>2, <1>3, <1>4, <1>5 DEF MergeInv

LEMMA StepApprove ==
    ASSUME Merge!CueMergeAssumption, MergeInv, Merge!Approve
    PROVE  MergeInv' /\ Merge!OwnKept
<1>1. /\ status = "preview" /\ status' \in {"running", "STALE"}
      /\ status' = "running" => Merge!Unchanged
      /\ UNCHANGED <<plan, basis, commands, at, show, prog, export, quiet, edits, ignored>>
    BY DEF Merge!Approve
<1>2. MergeTypes'
    BY <1>1 DEF MergeInv, MergeTypes
<1>3. QuietType' /\ IsShow(show)' /\ IsProgrammer(prog)'
    BY <1>1 DEF MergeInv, QuietType, IsShow, IsProgrammer
<1>4. Previewed'
    BY <1>1, Follows
<1>5. Accepted'
    BY <1>1 DEF Accepted
<1>6. Free'
  <2>1. status' = "running" =>
           /\ Merge!CreatesEffect => show.effect[Merge!Created] = None
           /\ \A n \in Merge!Reserved : show.preset[n] = None
    BY <1>1 DEF Merge!Unchanged, Merge!ResourcesUnchanged
  <2>2. None # "early"
    BY DEF Merge!CueMergeAssumption, Merge!NoneIsNone
  <2> QED BY <1>1, <2>1, <2>2, ReservedStays DEF Free
<1>7. Merge!OwnKept
    BY <1>1, NothingOverwritten
<1> QED BY <1>2, <1>3, <1>4, <1>5, <1>6, <1>7 DEF MergeInv

LEMMA FailIs ==
    ASSUME Merge!CueMergeAssumption, IsProgrammer(prog), Merge!Fail
    PROVE  status' = "FAILED" /\ IsProgrammer(prog)'
<1>1. status' = "FAILED" /\ (prog' = Merge!Cleared \/ prog' = prog)
    BY DEF Merge!Fail
<1>2. IsProgrammer(prog')
    BY <1>1, ClearedIs
<1> QED BY <1>1, <1>2 DEF IsProgrammer

LEMMA StepSend ==
    ASSUME Merge!CueMergeAssumption, MergeInv, Merge!Send
    PROVE  MergeInv' /\ Merge!OwnKept
<1> PICK cmd : cmd = commands[at]
    OBVIOUS
<1>1. /\ status = "running" /\ status' = "running" /\ at \in DOMAIN commands
      /\ prog' = Merge!Programmer(cmd) /\ show' = Merge!Show(cmd) /\ at' = at + 1
      /\ UNCHANGED <<plan, basis, commands, export, quiet, edits, ignored>>
    BY DEF Merge!Send, Merge!More
<1>2. MergeTypes'
    BY <1>1 DEF MergeInv, MergeTypes
<1>3. QuietType'
    BY <1>1 DEF MergeInv, QuietType
<1>4. IsProgrammer(prog')
    BY <1>1, ProgrammerIs DEF MergeInv
<1>5. /\ IsShow(show')
      /\ \A n \in Merge!Numbers :
            \/ show'.preset[n] = show.preset[n]
            \/ cmd.op = "create preset" /\ n = cmd.number /\ show'.preset[n].by = "plan"
      /\ \/ show'.effect[Merge!Created] = show.effect[Merge!Created]
         \/ cmd.op = "create effect" /\ show'.effect[Merge!Created] = "plan"
    BY <1>1, ShowIs DEF MergeInv
<1>6. Previewed'
    BY <1>1, Follows
<1>7. Accepted'
    BY <1>1 DEF Accepted
<1>8. /\ cmd.op = "create preset" => cmd.number \in Merge!Reserved
      /\ cmd.op = "create effect" => Merge!CreatesEffect
    BY <1>1 DEF Merge!Reserved, Merge!CreatesEffect
<1>9. "plan" # "early"
    OBVIOUS
<1>10. Free'
  <2>1. /\ \A n \in Merge!Reserved :
              n \in Merge!Numbers /\ show.preset[n] # None => show.preset[n].by # "early"
        /\ Merge!CreatesEffect => show.effect[Merge!Created] # "early"
    BY <1>1 DEF MergeInv, Free
  <2>2. \A n \in Merge!Reserved :
           n \in Merge!Numbers /\ show'.preset[n] # None => show'.preset[n].by # "early"
    BY <1>5, <1>9, <2>1
  <2>3. Merge!CreatesEffect => show'.effect[Merge!Created] # "early"
    BY <1>5, <1>9, <2>1
  <2>4. Merge!Numbers' = Merge!Numbers
    BY DEF Merge!Numbers
  <2> QED BY <1>1, <2>2, <2>3, ReservedStays DEF Free
<1>11. Merge!OwnKept
  <2>1. ASSUME NEW n \in Merge!Numbers, show.preset[n] # None, show.preset[n].by = "early"
        PROVE  show'.preset[n] = show.preset[n]
    BY <1>1, <1>5, <1>8, <2>1 DEF MergeInv, Free
  <2>2. show.effect[Merge!Created] = "early" => show'.effect[Merge!Created] = "early"
    BY <1>1, <1>5, <1>8 DEF MergeInv, Free
  <2> QED BY <2>1, <2>2 DEF Merge!OwnKept
<1>12. IsShow(show)' /\ IsProgrammer(prog)'
    BY <1>4, <1>5 DEF IsShow, IsProgrammer
<1> QED BY <1>2, <1>3, <1>6, <1>7, <1>10, <1>11, <1>12 DEF MergeInv

LEMMA StepRefuse ==
    ASSUME Merge!CueMergeAssumption, MergeInv, Merge!Refuse
    PROVE  MergeInv' /\ Merge!OwnKept
<1>1. /\ status = "running" /\ Merge!Fail
      /\ UNCHANGED <<plan, basis, commands, at, show, export, edits, ignored>>
    BY DEF Merge!Refuse
<1>2. status' = "FAILED" /\ IsProgrammer(prog)'
    BY <1>1, FailIs DEF MergeInv
<1>3. MergeTypes'
    BY <1>1, <1>2 DEF MergeInv, MergeTypes
<1>4. QuietType'
    BY DEF Merge!Refuse, QuietType
<1>5. IsShow(show)'
    BY <1>1 DEF MergeInv, IsShow
<1>6. Previewed'
    BY <1>1, Follows
<1>7. Accepted' /\ Free'
    BY <1>2 DEF Accepted, Free
<1>8. Merge!OwnKept
    BY <1>1, NothingOverwritten
<1> QED BY <1>2, <1>3, <1>4, <1>5, <1>6, <1>7, <1>8 DEF MergeInv

LEMMA StepIgnore ==
    ASSUME Merge!CueMergeAssumption, MergeInv, Merge!Ignore
    PROVE  MergeInv' /\ Merge!OwnKept
<1>1. /\ status = "running" /\ ignored < MaxIgnored /\ ignored' = ignored + 1 /\ quiet' = FALSE
      /\ \/ Merge!Fail /\ at' = at
         \/ at' = at + 1 /\ status' = status /\ prog' = prog
      /\ UNCHANGED <<plan, basis, commands, show, export, edits>>
    BY DEF Merge!Ignore
<1>2. \/ status' = "FAILED" /\ IsProgrammer(prog)' /\ at' = at
      \/ status' = "running" /\ IsProgrammer(prog)' /\ at' = at + 1
    BY <1>1, FailIs DEF MergeInv, IsProgrammer
<1>3. MergeTypes'
    BY <1>1, <1>2 DEF MergeInv, MergeTypes, Merge!CueMergeAssumption
<1>4. QuietType'
    BY <1>1 DEF QuietType
<1>5. IsShow(show)'
    BY <1>1 DEF MergeInv, IsShow
<1>6. Previewed'
    BY <1>1, Follows
<1>7. Accepted'
    BY <1>2 DEF Accepted
<1>8. Free'
    BY <1>1, ReservedStays DEF MergeInv, Free
<1>9. Merge!OwnKept
    BY <1>1, NothingOverwritten
<1> QED BY <1>2, <1>3, <1>4, <1>5, <1>6, <1>7, <1>8, <1>9 DEF MergeInv

LEMMA StepExport ==
    ASSUME Merge!CueMergeAssumption, MergeInv, Merge!Export
    PROVE  MergeInv' /\ Merge!OwnKept
<1>1. /\ status = "running" /\ export' = show
      /\ \/ Merge!Matches(show) /\ status' = "exported" /\ prog' = prog
         \/ Merge!Fail
      /\ UNCHANGED <<plan, basis, commands, at, show, quiet, edits, ignored>>
    BY DEF Merge!Export
<1>2. \/ Merge!Matches(show) /\ status' = "exported" /\ IsProgrammer(prog)'
      \/ status' = "FAILED" /\ IsProgrammer(prog)'
    BY <1>1, FailIs DEF MergeInv, IsProgrammer
<1>3. MergeTypes'
    BY <1>1, <1>2 DEF MergeInv, MergeTypes
<1>4. QuietType' /\ IsShow(show)'
    BY <1>1 DEF MergeInv, QuietType, IsShow
<1>5. Previewed'
    BY <1>1, Follows
<1>6. Accepted'
  <2>1. IsShow(export)'
    BY <1>1 DEF MergeInv, IsShow
  <2>2. status' = "exported" => Merge!Matches(export)'
    BY <1>1, <1>2, MatchesStays
  <2> QED BY <1>2, <2>1, <2>2 DEF Accepted
<1>7. Free'
    BY <1>2 DEF Free
<1>8. Merge!OwnKept
    BY <1>1, NothingOverwritten
<1> QED BY <1>2, <1>3, <1>4, <1>5, <1>6, <1>7, <1>8 DEF MergeInv

LEMMA StepConclude ==
    ASSUME Merge!CueMergeAssumption, MergeInv, Merge!Conclude
    PROVE  MergeInv' /\ Merge!OwnKept
<1>1. /\ status = "exported" /\ status' \in {"VERIFIED", "FAILED"}
      /\ prog' = Merge!Cleared \/ prog' = prog
      /\ UNCHANGED <<plan, basis, commands, at, show, export, quiet, edits, ignored>>
    BY DEF Merge!Conclude
<1>2. IsProgrammer(prog')
    BY <1>1, ClearedIs DEF MergeInv
<1>3. MergeTypes'
    BY <1>1 DEF MergeInv, MergeTypes
<1>4. QuietType' /\ IsShow(show)' /\ IsProgrammer(prog)'
    BY <1>1, <1>2 DEF MergeInv, QuietType, IsShow, IsProgrammer
<1>5. Previewed'
    BY <1>1, Follows
<1>6. Accepted'
  <2>1. IsShow(export) /\ Merge!Matches(export)
    BY <1>1 DEF MergeInv, Accepted
  <2>2. IsShow(export)' /\ Merge!Matches(export)'
    BY <1>1, <2>1, MatchesStays DEF IsShow
  <2> QED BY <2>2 DEF Accepted
<1>7. Free'
    BY <1>1 DEF Free
<1>8. Merge!OwnKept
    BY <1>1, NothingOverwritten
<1> QED BY <1>3, <1>4, <1>5, <1>6, <1>7, <1>8 DEF MergeInv

\* What every step of the operator has in common.
LEMMA EditIs ==
    ASSUME Merge!CueMergeAssumption, MergeInv, Merge!Edit, IsShow(show'), IsProgrammer(prog'),
           \A n \in Merge!Numbers : \/ show'.preset[n] = show.preset[n]
                                    \/ show'.preset[n].by = Merge!Stamp,
           \/ show'.effect[Merge!Created] = show.effect[Merge!Created]
           \/ show'.effect[Merge!Created] = Merge!Stamp
    PROVE  MergeInv' /\ Merge!OwnKept
<1>1. /\ status \in {"preview", "running", "exported"}
      /\ edits < MaxEdits /\ edits' = edits + 1 /\ quiet' = FALSE
      /\ UNCHANGED <<plan, basis, commands, at, status, export, ignored>>
    BY DEF Merge!Edit, Merge!Open
<1>2. MergeTypes'
    BY <1>1 DEF MergeInv, MergeTypes, Merge!CueMergeAssumption
<1>3. QuietType'
    BY <1>1 DEF QuietType
<1>4. IsShow(show)' /\ IsProgrammer(prog)'
    BY DEF IsShow, IsProgrammer
<1>5. Previewed'
    BY <1>1, Follows
<1>6. Accepted'
  <2>1. status \in {"exported", "VERIFIED"} => IsShow(export) /\ Merge!Matches(export)
    BY DEF MergeInv, Accepted
  <2>2. status \in {"exported", "VERIFIED"} => IsShow(export)' /\ Merge!Matches(export)'
    BY <1>1, <2>1, MatchesStays DEF IsShow
  <2> QED BY <1>1, <2>2 DEF Accepted
<1>7. Free'
  <2>1. status = "running" => Merge!Stamp # "early"
    BY DEF Merge!Stamp
  <2>2. status = "running" =>
           /\ \A n \in Merge!Reserved :
                 n \in Merge!Numbers /\ show'.preset[n] # None => show'.preset[n].by # "early"
           /\ Merge!CreatesEffect => show'.effect[Merge!Created] # "early"
    BY <2>1 DEF MergeInv, Free
  <2> QED BY <1>1, <2>2, ReservedStays DEF Free
<1>8. Merge!OwnKept
    BY DEF Merge!OwnKept
<1> QED BY <1>2, <1>3, <1>4, <1>5, <1>6, <1>7, <1>8 DEF MergeInv

LEMMA StepEditCue ==
    ASSUME Merge!CueMergeAssumption, MergeInv, NEW e \in Edits, Merge!EditCue(e)
    PROVE  MergeInv' /\ Merge!OwnKept
<1>1. Merge!Edit /\ prog' = prog /\ show' = [show EXCEPT !.row[e.cue][e.slot] = e.row]
    BY DEF Merge!EditCue
<1>2. e.cue \in Cues /\ e.slot \in Merge!Slots /\ Merge!IsRow(e.slot, e.row)
    BY DEF Merge!CueMergeAssumption
<1>3. PICK q : q = [show.row[e.cue] EXCEPT ![e.slot] = e.row]
    OBVIOUS
<1>4. show' = [show EXCEPT !.row[e.cue] = q]
    BY <1>1, <1>2, <1>3 DEF MergeInv, IsShow
<1>5. q = [x \in Merge!Slots |-> IF x = e.slot THEN e.row ELSE show.row[e.cue][x]]
    BY <1>2, <1>3 DEF MergeInv, IsShow
<1>6. \A x \in Merge!Slots : Merge!IsRow(x, q[x])
    BY <1>2, <1>5 DEF MergeInv, IsShow
<1>7. q = [x \in Merge!Slots |-> q[x]]
    BY <1>5
<1>8. IsShow(show') /\ show'.preset = show.preset /\ show'.effect = show.effect
    BY <1>2, <1>4, <1>6, <1>7, RowWritten DEF MergeInv
<1>9. IsProgrammer(prog')
    BY <1>1 DEF MergeInv
<1> QED BY <1>1, <1>8, <1>9, EditIs

LEMMA StepTouch ==
    ASSUME Merge!CueMergeAssumption, MergeInv, NEW e \in Edits, Merge!Touch(e)
    PROVE  MergeInv' /\ Merge!OwnKept
<1>1. /\ Merge!Edit /\ show' = show
      /\ prog' = [prog EXCEPT !.selection = {e.slot[1]}, !.used = TRUE, !.row[e.slot] = e.row]
    BY DEF Merge!Touch
<1>2. e.slot \in Merge!Slots /\ Merge!IsRow(e.slot, e.row)
    BY DEF Merge!CueMergeAssumption
<1>3. /\ prog' = [selection |-> prog'.selection, used |-> prog'.used, row |-> prog'.row]
      /\ prog'.row = [prog.row EXCEPT ![e.slot] = e.row]
    BY <1>1 DEF MergeInv, IsProgrammer
<1>4. prog'.row = [x \in Merge!Slots |-> IF x = e.slot THEN e.row ELSE prog.row[x]]
    BY <1>3 DEF MergeInv, IsProgrammer
<1>5. IsProgrammer(prog')
    BY <1>2, <1>3, <1>4 DEF MergeInv, IsProgrammer
<1>6. IsShow(show')
    BY <1>1 DEF MergeInv
<1> QED BY <1>1, <1>5, <1>6, EditIs

LEMMA StepRelabel ==
    ASSUME Merge!CueMergeAssumption, MergeInv, Merge!Relabel
    PROVE  MergeInv' /\ Merge!OwnKept
<1>1. Merge!Edit /\ prog' = prog /\ show' = [show EXCEPT !.labels = "new"]
    BY DEF Merge!Relabel
<1>2. IsShow(show') /\ show'.preset = show.preset /\ show'.effect = show.effect
    BY <1>1, LabelsWritten DEF MergeInv
<1>3. IsProgrammer(prog')
    BY <1>1 DEF MergeInv
<1> QED BY <1>1, <1>2, <1>3, EditIs

LEMMA StepStoreEffect ==
    ASSUME Merge!CueMergeAssumption, MergeInv, Merge!StoreEffect
    PROVE  MergeInv' /\ Merge!OwnKept
<1>1. Merge!Edit /\ prog' = prog /\ show' = [show EXCEPT !.effect[Merge!Created] = Merge!Stamp]
    BY DEF Merge!StoreEffect
<1>2. /\ IsShow(show') /\ show'.preset = show.preset
      /\ show'.effect[Merge!Created] = Merge!Stamp
    BY <1>1, EffectWritten DEF MergeInv
<1>3. IsProgrammer(prog')
    BY <1>1 DEF MergeInv
<1> QED BY <1>1, <1>2, <1>3, EditIs

LEMMA StepStorePreset ==
    ASSUME Merge!CueMergeAssumption, MergeInv, NEW n \in Merge!Numbers, Merge!StorePreset(n)
    PROVE  MergeInv' /\ Merge!OwnKept
<1>1. PICK v : v = [label |-> "own", by |-> Merge!Stamp,
                    at |-> [f \in Merge!Fixtures |-> <<None, None>>]]
    OBVIOUS
<1>2. Merge!Edit /\ prog' = prog /\ show' = [show EXCEPT !.preset[n] = v] /\ v.by = Merge!Stamp
    BY <1>1 DEF Merge!StorePreset
<1>3. /\ IsShow(show') /\ show'.effect = show.effect
      /\ \A k \in Merge!Numbers : show'.preset[k] = IF k = n THEN v ELSE show.preset[k]
  <2>1. /\ show' = [row |-> show'.row, labels |-> show'.labels, preset |-> show'.preset,
                    effect |-> show'.effect]
        /\ show'.preset = [show.preset EXCEPT ![n] = v]
        /\ show'.row = show.row /\ show'.effect = show.effect
    BY <1>2 DEF MergeInv, IsShow
  <2>2. show'.preset = [k \in Merge!Numbers |-> IF k = n THEN v ELSE show.preset[k]]
    BY <2>1 DEF MergeInv, IsShow
  <2> QED BY <2>1, <2>2 DEF MergeInv, IsShow
<1>4. IsProgrammer(prog')
    BY <1>2 DEF MergeInv
<1>5. \A k \in Merge!Numbers : show'.preset[k] = show.preset[k] \/ show'.preset[k].by = Merge!Stamp
    BY <1>2, <1>3
<1> QED BY <1>2, <1>3, <1>4, <1>5, EditIs

\* Every step of a merge keeps the invariant and what the operator stored.
LEMMA MergeStep ==
    ASSUME Merge!CueMergeAssumption, MergeInv, Merge!Next
    PROVE  MergeInv' /\ Merge!OwnKept
<1>1. CASE \E p \in Plans : Merge!Preview(p)
    BY <1>1, StepPreview
<1>2. CASE Merge!Step
    BY <1>2, StepApprove, StepSend, StepRefuse, StepIgnore, StepExport, StepConclude
       DEF Merge!Step
<1>3. CASE Merge!Operator
    BY <1>3, StepEditCue, StepTouch, StepRelabel, StepStoreEffect, StepStorePreset
       DEF Merge!Operator
<1>4. CASE Merge!Concluded
    BY <1>4, MergeRests DEF Merge!Concluded, Merge!vars
<1> QED BY <1>1, <1>2, <1>3, <1>4 DEF Merge!Next

LEMMA MergeApproved ==
    ASSUME Merge!CueMergeAssumption, MergeInv
    PROVE  Merge!TypeOK /\ Merge!VerifiedIsApproved
<1>1. Merge!TypeOK
    BY MergeHasTypes DEF MergeInv
<1>2. ASSUME status = "VERIFIED", NEW c \in Cues, NEW x \in Merge!Slots
      PROVE  Merge!AsPlanned(c, x, basis.row[c][x], export.row[c][x])
    BY <1>2, Planned DEF MergeInv, Previewed, Accepted
<1>3. status = "VERIFIED" => export.labels = basis.labels
    BY DEF MergeInv, Accepted, Merge!Matches
<1> QED BY <1>1, <1>2, <1>3 DEF Merge!VerifiedIsApproved

-----------------------------------------------------------------------------
LEMMA MergePart ==
    ASSUME MergeInvariant, [Next]_vars
    PROVE  MergeInvariant' /\ (part = "merge" => Merge!OwnKept)
<1> USE DEF MergeInvariant
<1>0. Merge!CueMergeAssumption
    BY ConstantsFit
<1>1. CASE UNCHANGED vars
  <2>1. UNCHANGED <<part, plan, basis, commands, at, status, show, prog, export, quiet, edits,
                    ignored>>
    BY <1>1 DEF vars, OwnMerge
  <2> QED BY <2>1, MergeRests
<1>2. CASE MergeDoes(Merge!Next)
    BY <1>0, <1>2, MergeStep DEF MergeDoes
<1>3. CASE Next /\ ~MergeDoes(Merge!Next)
  <2>1. part # "merge" /\ part' = part
    BY <1>3 DEF Next, RouterDoes, RunDoes, RevisionDoes
  <2> QED BY <2>1
<1> QED BY <1>1, <1>2, <1>3

\* From the preview to the verdict a merge keeps to the plan and the export it
\* was previewed from, and its verdict to the export that was compared
\* (CueMerge, the three executors).
THEOREM MergeInvariantHolds == Spec => []MergeInvariant
<1>1. Init => MergeInvariant
  <2> SUFFICES ASSUME Init, part = "merge" PROVE MergeInv
    BY DEF MergeInvariant
  <2>1. Merge!Init
    BY DEF Init, RouterStarts, RunStarts, RevisionStarts, MergeStarts
  <2> QED BY <2>1, MergeInit, ConstantsFit
<1>2. MergeInvariant /\ [Next]_vars => MergeInvariant'
    BY MergePart
<1> QED BY <1>1, <1>2, PTL DEF Spec

\* A merge reported VERIFIED changed the show by its plan and by nothing else,
\* whatever the operator did meanwhile (CueMerge, the three verifiers).
THEOREM MergeIsApproved == Spec => []VerifiedIsApproved
<1>1. MergeInvariant => VerifiedIsApproved
    BY ConstantsFit, MergeApproved DEF MergeInvariant, VerifiedIsApproved
<1> QED BY <1>1, MergeInvariantHolds, PTL

-----------------------------------------------------------------------------
(* What is written once stays.                                              *)

LEMMA RunKeeps ==
    ASSUME RunInvariant, [Next]_vars PROVE part = "run" => Run!KeepsCheckpoints
<1> SUFFICES ASSUME part = "run" PROVE Run!KeepsCheckpoints
    OBVIOUS
<1>1. CASE UNCHANGED vars
  <2>1. UNCHANGED <<disk, pc, in, call, role, attempt, result, stops, spoiled>>
    BY <1>1 DEF vars, OwnRun, Shared
  <2> QED BY <2>1, RunRests DEF RunInvariant
<1>2. CASE Next
  <2>1. Run!Next
    BY <1>2 DEF Next, RouterDoes, RunDoes, RevisionDoes, MergeDoes
  <2> QED BY <2>1, RunStep, ConstantsFit DEF RunInvariant
<1> QED BY <1>1, <1>2

LEMMA RevisionKeeps ==
    ASSUME RevInvariant, [Next]_vars PROVE part = "revision" => Revision!RecordsStay
<1> SUFFICES ASSUME part = "revision" PROVE Revision!RecordsStay
    OBVIOUS
<1>1. CASE UNCHANGED vars
  <2>1. UNCHANGED <<source, disk, pc, in, cycle, role, look, attempt, completed, fresh, visual,
                    review, final, stops>>
    BY <1>1 DEF vars, OwnRevision, Shared
  <2> QED BY <2>1, RevRests DEF RevInvariant
<1>2. CASE Next
  <2>1. Revision!Next
    BY <1>2 DEF Next, RouterDoes, RunDoes, RevisionDoes, MergeDoes
  <2> QED BY <2>1, RevStep, ConstantsFit DEF RevInvariant
<1> QED BY <1>1, <1>2

\* Neither a checkpoint nor a recorded revision is overwritten, nor a preset or
\* an effect that the operator stored before the approval by one that a merge
\* creates (run_multi_agent_design, revise_multi_agent_run, and the second
\* export of the resource merge).
THEOREM NothingIsOverwritten == Spec => NeverOverwritten
<1>1. RunInvariant /\ RevInvariant /\ MergeInvariant /\ [Next]_vars =>
        [/\ part = "run" => Run!KeepsCheckpoints
         /\ part = "revision" => Revision!RecordsStay
         /\ part = "merge" => Merge!OwnKept]_vars
    BY RunKeeps, RevisionKeeps, MergePart
<1> QED BY <1>1, RunInvariantHolds, RevisionInvariantHolds, MergeInvariantHolds, PTL
        DEF Spec, NeverOverwritten

-----------------------------------------------------------------------------
(* A request to the pool: how the candidates are ordered.                   *)

\* R orders the members of S.
Orders(R, S) ==
    /\ \A s \in S : <<s, s>> \notin R
    /\ \A s, t \in S : s = t \/ <<s, t>> \in R \/ <<t, s>> \in R
    /\ \A s, t, u \in S : <<s, t>> \in R /\ <<t, u>> \in R => <<s, u>> \in R

LEMMA RouterCounts == \A S : Router!Cardinality(S) = Cardinality(S)
  BY Zenon DEF Router!Cardinality, Cardinality

\* A finite set in order: each member once, a lesser one earlier.
LEMMA ListedIs ==
    ASSUME NEW S, IsFiniteSet(S), NEW R, Orders(R, S)
    PROVE  /\ Router!Listed(S, R) \in [1..Cardinality(S) -> S]
           /\ Cardinality(S) \in Nat
           /\ \A s \in S : \E i \in 1..Cardinality(S) : Router!Listed(S, R)[i] = s
           /\ \A i, j \in 1..Cardinality(S) :
                 i < j <=> <<Router!Listed(S, R)[i], Router!Listed(S, R)[j]>> \in R
<1> DEFINE n        == Cardinality(S)
           below(s) == {t \in S : <<t, s>> \in R}
           place(s) == Router!Cardinality(below(s))
           L        == Router!Listed(S, R)
<1>1. n \in Nat
  BY FS_CardinalityType
<1>2. ASSUME NEW s \in S
      PROVE  IsFiniteSet(below(s)) /\ place(s) \in Nat /\ place(s) + 1 \in 1..n
  <2>1. below(s) \in SUBSET (S \ {s})
    BY DEF Orders
  <2>2. IsFiniteSet(S \ {s}) /\ Cardinality(S \ {s}) = n - 1
    BY FS_RemoveElement
  <2>3. IsFiniteSet(below(s)) /\ Cardinality(below(s)) <= Cardinality(S \ {s})
    BY <2>1, <2>2, FS_Subset
  <2>4. place(s) \in Nat
    BY <2>3, FS_CardinalityType, RouterCounts
  <2> HIDE DEF below, n
  <2> QED BY <1>1, <2>2, <2>3, <2>4, RouterCounts
<1>3. ASSUME NEW s \in S, NEW t \in S, <<s, t>> \in R PROVE place(s) < place(t)
  <2>1. below(s) \in SUBSET below(t) /\ s \in below(t) /\ s \notin below(s)
    BY <1>3 DEF Orders
  <2>2. place(s) <= place(t) /\ place(s) # place(t)
    BY <1>2, <2>1, FS_Subset, RouterCounts
  <2>3. place(s) \in Nat /\ place(t) \in Nat
    BY <1>2
  <2> HIDE DEF place
  <2> QED BY <2>2, <2>3
<1>4. \A s, t \in S : place(s) = place(t) => s = t
  <2>1. \A s \in S : place(s) \in Nat
    BY <1>2
  <2>2. \A s, t \in S : <<s, t>> \in R => place(s) < place(t)
    BY <1>3
  <2>3. \A s, t \in S : s = t \/ <<s, t>> \in R \/ <<t, s>> \in R
    BY DEF Orders
  <2> HIDE DEF place
  <2>4. ASSUME NEW s \in S, NEW t \in S, place(s) = place(t) PROVE s = t
    <3>1. place(s) \in Nat /\ ~(place(s) < place(t)) /\ ~(place(t) < place(s))
      BY <2>1, <2>4
    <3> QED BY <2>2, <2>3, <3>1
  <2> QED BY <2>4
<1>5. \A i \in 1..n : \E s \in S : place(s) = i - 1
  <2> DEFINE f == [s \in S |-> place(s) + 1]
  <2>1. \A s \in S : place(s) \in Nat /\ place(s) + 1 \in 1..n
    BY <1>2
  <2>2. f \in Injection(S, 1..n)
    <3> HIDE DEF place, n
    <3> QED BY <1>4, <2>1 DEF Injection, IsInjective
  <2>3. IsFiniteSet(1..n) /\ Cardinality(1..n) = n
    BY <1>1, FS_Interval
  <2>4. f \in Surjection(S, 1..n)
    <3> HIDE DEF f
    <3> QED BY <2>2, <2>3, FS_Injection
  <2>5. ASSUME NEW i \in 1..n PROVE \E s \in S : f[s] = i
    BY <2>4 DEF Surjection
  <2>6. \A s \in S : f[s] = place(s) + 1
    OBVIOUS
  <2> HIDE DEF f, place, n
  <2> QED BY <1>1, <2>1, <2>5, <2>6
<1>6. /\ L = [i \in 1..n |-> CHOOSE s \in S : place(s) = i - 1]
      /\ \A i \in 1..n : L[i] \in S /\ place(L[i]) = i - 1
  <2>1. L = [i \in 1..n |-> CHOOSE s \in S : place(s) = i - 1]
    <3>1. L = [i \in 1..Router!Cardinality(S) |-> CHOOSE s \in S : place(s) = i - 1]
      BY DEF Router!Listed
    <3>2. Router!Cardinality(S) = n
      BY RouterCounts
    <3> QED BY <3>1, <3>2
  <2> HIDE DEF place, n, L
  <2> QED BY <1>5, <2>1
<1>7. \A s \in S : place(s) \in Nat /\ place(s) + 1 \in 1..n
  BY <1>2
<1>8. \A s, t \in S : <<s, t>> \in R => place(s) < place(t)
  BY <1>3
<1> HIDE DEF place, n, L
<1>9. \A s \in S : \E i \in 1..n : L[i] = s
  BY <1>4, <1>6, <1>7
<1>10. \A i, j \in 1..n : i < j <=> <<L[i], L[j]>> \in R
  <2>1. ASSUME NEW i \in 1..n, NEW j \in 1..n PROVE i < j <=> <<L[i], L[j]>> \in R
    <3>1. L[i] \in S /\ L[j] \in S /\ place(L[i]) = i - 1 /\ place(L[j]) = j - 1
      BY <1>6
    <3>2. L[i] = L[j] \/ <<L[i], L[j]>> \in R \/ <<L[j], L[i]>> \in R
      BY <3>1 DEF Orders
    <3>3. <<L[i], L[j]>> \in R => i - 1 < j - 1
      BY <1>8, <3>1
    <3>4. <<L[j], L[i]>> \in R => j - 1 < i - 1
      BY <1>8, <3>1
    <3>5. i \in Int /\ j \in Int
      OBVIOUS
    <3>6. L[i] = L[j] => i = j
      BY <3>1, <3>5
    <3> QED BY <3>2, <3>3, <3>4, <3>5, <3>6
  <2> QED BY <2>1
<1>11. L \in [1..n -> S]
  BY <1>6
<1> QED BY <1>1, <1>9, <1>10, <1>11 DEF n, L

\* What orders a set orders its subsets.
LEMMA OrdersSubset ==
    ASSUME NEW R, NEW S, Orders(R, S), NEW T \in SUBSET S PROVE Orders(R, T)
  BY DEF Orders

\* The pool is configured as a pool can be.
RouterConfig ==
    /\ mode \in Router!Modes /\ pool \in [Router!Slots -> Router!Profile]
    /\ parallel \in BOOLEAN
    /\ parallelism \in Nat \ {0} /\ limit \in Nat \ {0}
    /\ ~parallel => parallelism = 1 /\ limit = 1

LEMMA SlotsFinite ==
    ASSUME Router!RouterAssumption
    PROVE  /\ IsFiniteSet(Router!Slots) /\ Router!Slots \subseteq Nat
           /\ \A S \in SUBSET Router!Slots : IsFiniteSet(S) /\ Cardinality(S) \in Nat
<1>1. IsFiniteSet(Router!Slots) /\ Router!Slots \subseteq Nat
  BY FS_Interval DEF Router!RouterAssumption, Router!Slots
<1> QED BY <1>1, FS_Subset, FS_CardinalityType

LEMMA RankIs ==
    ASSUME RouterConfig, NEW s \in Router!Slots
    PROVE  /\ Router!Rank(s) \in Nat /\ Router!General(s) \in Nat
           /\ pool[s].priority \in Nat /\ pool[s].kind \in Router!Kinds
<1>1. pool[s] \in Router!Profile
  BY DEF RouterConfig
<1>2. pool[s].cost \in Router!Costs /\ pool[s].priority \in Nat /\ pool[s].kind \in Router!Kinds
  BY <1>1 DEF Router!Profile
<1>3. \E i \in 1..4 : Router!CostRank[i] = pool[s].cost
  BY <1>2 DEF Router!Costs, Router!CostRank
<1>4. DOMAIN Router!CostRank = 1..4
  BY DEF Router!CostRank
<1>5. Router!Rank(s) \in 1..4
  BY <1>3, <1>4 DEF Router!Rank
<1> QED BY <1>2, <1>5 DEF Router!General

\* The comparison of two slots, written out for each mode.
LEMMA BeforeIs ==
    ASSUME NEW s, NEW t
    PROVE  /\ mode = "ROUTED" =>
                (Router!Before(s, t) <=>
                    \/ Router!General(s) < Router!General(t)
                    \/ /\ Router!General(s) = Router!General(t)
                       /\ pool[s].priority < pool[t].priority
                    \/ /\ Router!General(s) = Router!General(t)
                       /\ pool[s].priority = pool[t].priority /\ s < t)
           /\ mode = "FREE_FIRST" =>
                (Router!Before(s, t) <=>
                    \/ Router!Rank(s) < Router!Rank(t)
                    \/ /\ Router!Rank(s) = Router!Rank(t)
                       /\ Router!General(s) < Router!General(t)
                    \/ /\ Router!Rank(s) = Router!Rank(t)
                       /\ Router!General(s) = Router!General(t)
                       /\ pool[s].priority < pool[t].priority
                    \/ /\ Router!Rank(s) = Router!Rank(t)
                       /\ Router!General(s) = Router!General(t)
                       /\ pool[s].priority = pool[t].priority /\ s < t)
           /\ mode \notin {"ROUTED", "FREE_FIRST"} => (Router!Before(s, t) <=> s < t)
<1>1. CASE mode = "ROUTED"
  <2>1. \A x \in {s, t} : Router!Key(x) = <<Router!General(x), pool[x].priority, x>>
    BY <1>1 DEF Router!Key
  <2>2. DOMAIN Router!Key(s) = 1..3
    BY <2>1
  <2>3. Router!Before(s, t) <=>
           \/ Router!Key(s)[1] < Router!Key(t)[1]
           \/ Router!Key(s)[1] = Router!Key(t)[1] /\ Router!Key(s)[2] < Router!Key(t)[2]
           \/ /\ Router!Key(s)[1] = Router!Key(t)[1] /\ Router!Key(s)[2] = Router!Key(t)[2]
              /\ Router!Key(s)[3] < Router!Key(t)[3]
    BY <2>2 DEF Router!Before
  <2> QED BY <1>1, <2>1, <2>3
<1>2. CASE mode = "FREE_FIRST"
  <2>1. \A x \in {s, t} :
           Router!Key(x) = <<Router!Rank(x), Router!General(x), pool[x].priority, x>>
    BY <1>2 DEF Router!Key
  <2>2. DOMAIN Router!Key(s) = 1..4
    BY <2>1
  <2>3. Router!Before(s, t) <=>
           \/ Router!Key(s)[1] < Router!Key(t)[1]
           \/ Router!Key(s)[1] = Router!Key(t)[1] /\ Router!Key(s)[2] < Router!Key(t)[2]
           \/ /\ Router!Key(s)[1] = Router!Key(t)[1] /\ Router!Key(s)[2] = Router!Key(t)[2]
              /\ Router!Key(s)[3] < Router!Key(t)[3]
           \/ /\ Router!Key(s)[1] = Router!Key(t)[1] /\ Router!Key(s)[2] = Router!Key(t)[2]
              /\ Router!Key(s)[3] = Router!Key(t)[3] /\ Router!Key(s)[4] < Router!Key(t)[4]
    BY <2>2 DEF Router!Before
  <2> QED BY <1>2, <2>1, <2>3
<1>3. CASE mode \notin {"ROUTED", "FREE_FIRST"}
  <2>1. \A x \in {s, t} : Router!Key(x) = <<x>>
    BY <1>3 DEF Router!Key
  <2>2. DOMAIN Router!Key(s) = 1..1
    BY <2>1
  <2>3. Router!Before(s, t) <=> Router!Key(s)[1] < Router!Key(t)[1]
    BY <2>2 DEF Router!Before
  <2> QED BY <1>3, <2>1, <2>3
<1> QED BY <1>1, <1>2, <1>3

LEMMA PreferenceOrders ==
    ASSUME Router!RouterAssumption, RouterConfig
    PROVE  /\ Orders(Router!Preference, Router!Slots)
           /\ \A s, t \in Router!Slots : <<s, t>> \in Router!Preference <=> Router!Before(s, t)
<1>1. \A s, t \in Router!Slots : <<s, t>> \in Router!Preference <=> Router!Before(s, t)
  BY DEF Router!Preference
<1> DEFINE g(s) == Router!General(s)
           r(s) == Router!Rank(s)
           p(s) == pool[s].priority
           before(s, t) == Router!Before(s, t)
<1>2. \A s \in Router!Slots : g(s) \in Nat /\ r(s) \in Nat /\ p(s) \in Nat /\ s \in Nat
  BY RankIs, SlotsFinite
<1>3. /\ mode = "ROUTED" => \A s, t \in Router!Slots :
                (before(s, t) <=>
                    \/ g(s) < g(t)
                    \/ g(s) = g(t) /\ p(s) < p(t)
                    \/ g(s) = g(t) /\ p(s) = p(t) /\ s < t)
      /\ mode = "FREE_FIRST" => \A s, t \in Router!Slots :
                (before(s, t) <=>
                    \/ r(s) < r(t)
                    \/ r(s) = r(t) /\ g(s) < g(t)
                    \/ r(s) = r(t) /\ g(s) = g(t) /\ p(s) < p(t)
                    \/ r(s) = r(t) /\ g(s) = g(t) /\ p(s) = p(t) /\ s < t)
      /\ mode \notin {"ROUTED", "FREE_FIRST"} =>
            \A s, t \in Router!Slots : before(s, t) <=> s < t
  BY BeforeIs
<1>4. /\ \A s \in Router!Slots : ~before(s, s)
      /\ \A s, t \in Router!Slots : s = t \/ before(s, t) \/ before(t, s)
  <2> HIDE DEF g, r, p, before
  <2>1. CASE mode = "ROUTED"
    BY <1>2, <1>3, <2>1
  <2>2. CASE mode = "FREE_FIRST"
    BY <1>2, <1>3, <2>2
  <2>3. CASE mode \notin {"ROUTED", "FREE_FIRST"}
    BY <1>2, <1>3, <2>3
  <2> QED BY <2>1, <2>2, <2>3
<1>5. \A s, t, u \in Router!Slots : before(s, t) /\ before(t, u) => before(s, u)
  <2> HIDE DEF g, r, p, before
  <2> SUFFICES ASSUME NEW s \in Router!Slots, NEW t \in Router!Slots, NEW u \in Router!Slots,
                      before(s, t), before(t, u)
               PROVE  before(s, u)
    OBVIOUS
  <2>1. CASE mode = "ROUTED"
    BY <1>2, <1>3, <2>1
  <2>2. CASE mode = "FREE_FIRST"
    BY <1>2, <1>3, <2>2
  <2>3. CASE mode \notin {"ROUTED", "FREE_FIRST"}
    BY <1>2, <1>3, <2>3
  <2> QED BY <2>1, <2>2, <2>3
<1> QED BY <1>1, <1>4, <1>5 DEF Orders

\* What is asked in turn: eligible slots, the preferred ones first, none of
\* them left out but by PRIMARY_ONLY, which keeps the first.
LEMMA CandidatesAre ==
    ASSUME Router!RouterAssumption, RouterConfig
    PROVE  /\ Router!Candidates \in Seq(Router!Slots)
           /\ \A i \in 1..Len(Router!Candidates) : Router!Candidates[i] \in Router!Eligible
           /\ \A i, j \in 1..Len(Router!Candidates) :
                 i < j <=> Router!Before(Router!Candidates[i], Router!Candidates[j])
           /\ \A i \in 1..Len(Router!Candidates), s \in Router!Eligible :
                 Router!Before(s, Router!Candidates[i]) =>
                    \E j \in 1..Len(Router!Candidates) : j < i /\ Router!Candidates[j] = s
           /\ mode # "PRIMARY_ONLY" =>
                 \A s \in Router!Eligible :
                    \E i \in 1..Len(Router!Candidates) : Router!Candidates[i] = s
<1> DEFINE E      == Router!Eligible
           n      == Cardinality(E)
           sorted == Router!Listed(E, Router!Preference)
           C      == Router!Candidates
<1>1. E \in SUBSET Router!Slots
  BY DEF Router!Eligible
<1>2. IsFiniteSet(E) /\ Orders(Router!Preference, E)
  BY <1>1, SlotsFinite, PreferenceOrders, OrdersSubset
<1>3. /\ sorted \in [1..n -> E] /\ n \in Nat
      /\ \A s \in E : \E i \in 1..n : sorted[i] = s
      /\ \A i, j \in 1..n : i < j <=> <<sorted[i], sorted[j]>> \in Router!Preference
  <2> HIDE DEF E
  <2> QED BY <1>2, ListedIs
<1>4. sorted \in Seq(E) /\ Len(sorted) = n
  <2> HIDE DEF sorted, n, E
  <2> QED BY <1>3
<1>5. C = IF mode = "PRIMARY_ONLY" /\ sorted # <<>> THEN <<Head(sorted)>> ELSE sorted
  BY DEF Router!Candidates
<1>6. \A s, t \in Router!Slots : <<s, t>> \in Router!Preference <=> Router!Before(s, t)
  BY PreferenceOrders
<1> DEFINE before(s, t) == Router!Before(s, t)
<1>7. \A i, j \in 1..n : i < j <=> before(sorted[i], sorted[j])
  <2>1. \A i \in 1..n : sorted[i] \in Router!Slots
    BY <1>1, <1>3
  <2> HIDE DEF sorted, n, before
  <2> QED BY <1>3, <1>6, <2>1 DEF before
<1>8. \A i \in 1..n, s \in E : before(s, sorted[i]) => \E j \in 1..n : j < i /\ sorted[j] = s
  <2> HIDE DEF sorted, n, before, E
  <2> QED BY <1>3, <1>7
<1> HIDE DEF sorted, n, before, E, C
<1>9. /\ C \in Seq(E) /\ \A i, j \in 1..Len(C) : i < j <=> before(C[i], C[j])
      /\ \A i \in 1..Len(C), s \in E :
            before(s, C[i]) => \E j \in 1..Len(C) : j < i /\ C[j] = s
      /\ mode # "PRIMARY_ONLY" => \A s \in E : \E i \in 1..Len(C) : C[i] = s
  <2>1. CASE mode = "PRIMARY_ONLY" /\ sorted # <<>>
    <3>1. C = <<sorted[1]>> /\ 1 \in 1..n
      BY <1>3, <1>4, <1>5, <2>1
    <3>2. C \in Seq(E) /\ Len(C) = 1 /\ C[1] = sorted[1]
      BY <1>3, <3>1
    <3>3. ~before(sorted[1], sorted[1])
      BY <1>7, <3>1
    <3>4. \A s \in E : ~before(s, sorted[1])
      BY <1>8, <3>1
    <3>5. \A i \in 1..Len(C) : i = 1
      BY <3>2
    <3> QED BY <2>1, <3>2, <3>3, <3>4, <3>5
  <2>2. CASE ~(mode = "PRIMARY_ONLY" /\ sorted # <<>>)
    <3>1. C = sorted
      BY <1>5, <2>2
    <3>2. mode # "PRIMARY_ONLY" => \A s \in E : \E i \in 1..Len(C) : C[i] = s
      BY <1>3, <1>4, <3>1
    <3> QED BY <1>4, <1>7, <1>8, <3>1, <3>2
  <2> QED BY <2>1, <2>2
<1>10. C \in Seq(Router!Slots) /\ \A i \in 1..Len(C) : C[i] \in E
  BY <1>1, <1>9
<1> QED BY <1>9, <1>10 DEF C, E, before

\* The order is that of the configuration, which a request does not change.
LEMMA ConfigRests ==
    ASSUME mode' = mode, pool' = pool
    PROVE  /\ Router!Eligible' = Router!Eligible
           /\ Router!Preference' = Router!Preference
           /\ Router!Candidates' = Router!Candidates
<1>1. Router!Eligible' = Router!Eligible
  BY DEF Router!Eligible, Router!Configured, Router!Supports
<1>2. Router!Preference' = Router!Preference
  BY DEF Router!Preference, Router!Before, Router!Key, Router!Rank, Router!General
<1>3. Router!Candidates' = Router!Candidates
  BY <1>1, <1>2 DEF Router!Candidates
<1> QED BY <1>1, <1>2, <1>3

\* Who answered so far.
Answered == {s \in Router!Slots : Router!Ok(s)}

RouterTypes ==
    /\ phase \in {"new", "asking", "returned", "raised"}
    /\ candidates \in Seq(Router!Slots)
    /\ asked \in Seq(Router!Slots) /\ running \subseteq Router!Slots
    /\ reply \in [Router!Slots -> Router!Replies \cup {"none"}]
    /\ results \in Seq(Router!Slots)

\* A request has its candidates from the start.
CandidatesKnown == candidates = IF phase = "new" THEN <<>> ELSE Router!Candidates

\* The slots asked so far are the first candidates.
AskedFirst ==
    /\ Len(asked) <= Len(Router!Candidates)
    /\ \A i \in 1..Len(asked) : asked[i] = Router!Candidates[i]

\* Those asked answer, or have said something; the others have not.
AskedReply ==
    /\ \A s \in Router!Slots :
          reply[s] # "none" \/ s \in running => \E i \in 1..Len(asked) : asked[i] = s
    /\ \A i \in 1..Len(asked) : asked[i] \in running \/ reply[asked[i]] # "none"

AskingRuns ==
    /\ phase # "asking" => running = {}
    /\ phase = "new" => asked = <<>>

\* Between two batches the answers are taken; a serial request has none before.
AnswersTaken ==
    /\ running = {} => results = Router!Listed(Answered, Router!Preference)
    /\ running # {} /\ ~parallel =>
          results = <<>> /\ Answered = {} /\ Cardinality(running) = 1

\* Fewer answers than wanted are returned when there is nobody left to ask.
ReturnsWhole ==
    phase = "returned" => Len(results) >= limit \/ Len(asked) = Len(Router!Candidates)

RouterInv ==
    /\ RouterConfig /\ RouterTypes
    /\ CandidatesKnown /\ AskedFirst /\ AskedReply /\ AskingRuns /\ AnswersTaken
    /\ ReturnsWhole /\ Router!NoneWasted

RouterInvariant == part = "router" => RouterInv

LEMMA AnswersAre ==
    ASSUME Router!RouterAssumption, RouterConfig, NEW A \in SUBSET Router!Slots
    PROVE  /\ Router!Listed(A, Router!Preference) \in Seq(Router!Slots)
           /\ Len(Router!Listed(A, Router!Preference)) = Cardinality(A)
           /\ \A i \in 1..Cardinality(A) : Router!Listed(A, Router!Preference)[i] \in A
           /\ \A s \in A :
                 \E i \in 1..Cardinality(A) : Router!Listed(A, Router!Preference)[i] = s
           /\ \A i, j \in 1..Cardinality(A) :
                 i < j <=> Router!Before(Router!Listed(A, Router!Preference)[i],
                                         Router!Listed(A, Router!Preference)[j])
<1> DEFINE L == Router!Listed(A, Router!Preference)
           n == Cardinality(A)
<1>1. IsFiniteSet(A) /\ Orders(Router!Preference, A)
  BY SlotsFinite, PreferenceOrders, OrdersSubset
<1>2. /\ L \in [1..n -> A] /\ n \in Nat
      /\ \A s \in A : \E i \in 1..n : L[i] = s
      /\ \A i, j \in 1..n : i < j <=> <<L[i], L[j]>> \in Router!Preference
  BY <1>1, ListedIs
<1>3. \A s, t \in A : <<s, t>> \in Router!Preference <=> Router!Before(s, t)
  BY PreferenceOrders
<1> HIDE DEF L, n
<1>4. L \in Seq(Router!Slots) /\ Len(L) = n /\ \A i \in 1..n : L[i] \in A
  BY <1>2
<1> QED BY <1>2, <1>3, <1>4 DEF L, n

LEMMA NoAnswersYet ==
    ASSUME Router!RouterAssumption, RouterConfig, Answered = {}
    PROVE  Router!Listed(Answered, Router!Preference) = <<>>
<1>1. Cardinality(Answered) = 0
  BY FS_EmptySet
<1>2. /\ Router!Listed(Answered, Router!Preference) \in Seq(Router!Slots)
      /\ Len(Router!Listed(Answered, Router!Preference)) = 0
  BY <1>1, AnswersAre DEF Answered
<1> QED BY <1>2

LEMMA RouterStartsRight ==
    ASSUME Router!RouterAssumption, Router!Init PROVE RouterInv
<1>1. RouterConfig
  <2>1. pool \in [Router!Slots -> Profiles] /\ Profiles \subseteq Router!Profile
    BY DEF Router!Init, Router!RouterAssumption
  <2>2. pool \in [Router!Slots -> Router!Profile]
    BY <2>1
  <2>3. parallelism \in Nat \ {0} /\ limit \in Nat \ {0}
    <3>1. \/ parallelism \in Widths /\ limit \in Widths
          \/ parallelism = 1 /\ limit = 1
      BY DEF Router!Init
    <3>2. \A w \in Widths : w \in Nat /\ w # 0
      BY DEF Router!RouterAssumption
    <3>3. CASE parallelism = 1 /\ limit = 1
      BY <3>3
    <3>4. CASE parallelism \in Widths /\ limit \in Widths
      BY <3>2, <3>4
    <3> QED BY <3>1, <3>3, <3>4
  <2> QED BY <2>2, <2>3 DEF Router!Init, RouterConfig
<1>2. RouterTypes /\ AskingRuns /\ AskedReply
  BY DEF Router!Init, RouterTypes, AskingRuns, AskedReply
<1>3. AskedFirst
  <2>1. Router!Candidates \in Seq(Router!Slots)
    BY <1>1, CandidatesAre
  <2> QED BY <2>1 DEF Router!Init, AskedFirst
<1>4. Answered = {}
  BY DEF Router!Init, Answered, Router!Ok
<1>5. AnswersTaken
  BY <1>1, <1>4, NoAnswersYet DEF Router!Init, AnswersTaken
<1>6. Router!NoneWasted
  <2>1. running = {} /\ Cardinality({}) = 0
    BY FS_EmptySet DEF Router!Init
  <2> QED BY <1>1, <1>4, <2>1, RouterCounts DEF Router!NoneWasted, Answered, RouterConfig
<1>7. ReturnsWhole /\ CandidatesKnown
  BY DEF Router!Init, ReturnsWhole, CandidatesKnown
<1> QED BY <1>1, <1>2, <1>3, <1>5, <1>6, <1>7 DEF RouterInv

\* A step that leaves the attempts as they are.
LEMMA RequestRests ==
    ASSUME RouterInv, UNCHANGED <<Router!config, asked, running, reply, results>>,
           RouterTypes', AskingRuns', ReturnsWhole', CandidatesKnown'
    PROVE  RouterInv'
<1>1. mode' = mode /\ pool' = pool /\ RouterConfig'
  BY DEF Router!config, RouterInv, RouterConfig
<1>2. AskedFirst' /\ AskedReply'
  BY <1>1, ConfigRests DEF RouterInv, AskedFirst, AskedReply
<1>3. Answered' = Answered
  BY DEF Answered, Router!Ok
<1>4. AnswersTaken'
  BY <1>1, <1>3, ConfigRests DEF RouterInv, AnswersTaken, Router!config
<1>5. Router!NoneWasted'
  BY <1>3 DEF RouterInv, Router!NoneWasted, Answered, Router!config
<1> QED BY <1>1, <1>2, <1>4, <1>5 DEF RouterInv

LEMMA RouterCalls ==
    ASSUME Router!RouterAssumption, RouterInv, Router!Call PROVE RouterInv'
<1>1. /\ phase = "new" /\ phase' # "new" /\ candidates' = Router!Candidates
      /\ UNCHANGED <<Router!config, asked, running, reply, results>>
  BY DEF Router!Call
<1>2. candidates' \in Seq(Router!Slots)
  BY <1>1, CandidatesAre DEF RouterInv
<1>3. RouterTypes' /\ AskingRuns' /\ ReturnsWhole'
  BY <1>1, <1>2 DEF Router!Call, RouterInv, RouterTypes, AskingRuns, ReturnsWhole
<1>4. CandidatesKnown'
  BY <1>1, ConfigRests DEF CandidatesKnown, Router!config
<1> QED BY <1>1, <1>3, <1>4, RequestRests

\* Who answered is among those asked, and results are as many.
LEMMA ResultsCount ==
    ASSUME Router!RouterAssumption, RouterInv
    PROVE  /\ Answered \in SUBSET Router!Slots /\ Cardinality(Answered) \in Nat
           /\ IsFiniteSet(Answered)
           /\ running = {} => Len(results) = Cardinality(Answered)
           /\ Cardinality(running) \in Nat /\ IsFiniteSet(running)
           /\ Cardinality(running) <= parallelism
           /\ Cardinality(running) + Cardinality(Answered) <= limit
<1>1. Answered \in SUBSET Router!Slots /\ running \in SUBSET Router!Slots
  BY DEF Answered, RouterInv, RouterTypes
<1>2. running = {} => Len(results) = Cardinality(Answered)
  BY <1>1, AnswersAre DEF RouterInv, AnswersTaken
<1>3. Cardinality(running) <= parallelism /\ Cardinality(running) + Cardinality(Answered) <= limit
  BY RouterCounts DEF RouterInv, Router!NoneWasted, Answered
<1> QED BY <1>1, <1>2, <1>3, SlotsFinite

\* A piece of a sequence has no more members than places.
LEMMA PieceCounts ==
    ASSUME NEW S, NEW s \in Seq(S)
    PROVE  /\ Router!Range(s) = {s[i] : i \in 1..Len(s)}
           /\ IsFiniteSet(Router!Range(s)) /\ Cardinality(Router!Range(s)) \in Nat
           /\ Cardinality(Router!Range(s)) <= Len(s)
<1> DEFINE n == Len(s)
           T == {s[i] : i \in 1..n}
<1>1. Router!Range(s) = T /\ n \in Nat /\ s \in [1..n -> T]
  BY DEF Router!Range
<1>2. IsFiniteSet(1..n) /\ Cardinality(1..n) = n
  BY <1>1, FS_Interval
<1>3. s \in Surjection(1..n, T)
  BY <1>1 DEF Surjection
<1>4. IsFiniteSet(T) /\ Cardinality(T) <= n
  <2> HIDE DEF n, T
  <2> QED BY <1>2, <1>3, FS_Surjection
<1> QED BY <1>1, <1>4, FS_CardinalityType

LEMMA RouterReturns ==
    ASSUME Router!RouterAssumption, RouterInv, Router!Return PROVE RouterInv'
<1> DEFINE C == Router!Candidates
<1>1. /\ RouterTypes' /\ AskingRuns' /\ running = {} /\ candidates = C
      /\ phase = "asking" /\ phase' # "new"
      /\ UNCHANGED <<Router!config, candidates, asked, running, reply, results>>
  BY DEF Router!Return, RouterInv, RouterTypes, AskingRuns, CandidatesKnown
<1>2. /\ Len(results) \in Nat /\ Len(asked) \in Nat /\ Len(C) \in Nat /\ limit \in Nat
      /\ Len(asked) <= Len(C)
  BY CandidatesAre DEF RouterInv, RouterTypes, RouterConfig, AskedFirst
<1>3. Len(results) <= Len(asked)
  <2>1. Answered \subseteq Router!Range(asked)
    BY DEF RouterInv, RouterTypes, AskedReply, Answered, Router!Ok, Router!Range
  <2>2. /\ IsFiniteSet(Router!Range(asked)) /\ Cardinality(Router!Range(asked)) \in Nat
        /\ Cardinality(Router!Range(asked)) <= Len(asked)
    BY PieceCounts DEF RouterInv, RouterTypes
  <2>3. Cardinality(Answered) <= Cardinality(Router!Range(asked))
    BY <2>1, <2>2, FS_Subset
  <2>4. Len(results) = Cardinality(Answered)
    BY <1>1, ResultsCount
  <2> QED BY <1>2, <2>2, <2>3, <2>4
<1>4. Len(results) >= limit \/ Len(asked) = Len(C)
  <2>1. Len(results) = Router!Desired \/ Len(asked) = Len(C)
    BY <1>1 DEF Router!Return
  <2>2. Router!Desired = limit \/ Router!Desired = Len(C)
    BY <1>1 DEF Router!Desired, Router!Smaller
  <2> QED BY <1>2, <1>3, <2>1, <2>2
<1>5. mode' = mode /\ pool' = pool /\ limit' = limit
  BY <1>1 DEF Router!config
<1>6. ReturnsWhole'
  BY <1>1, <1>4, <1>5, ConfigRests DEF ReturnsWhole
<1>7. CandidatesKnown'
  BY <1>1, <1>5, ConfigRests DEF CandidatesKnown
<1> QED BY <1>1, <1>6, <1>7, RequestRests

LEMMA RouterSubmits ==
    ASSUME Router!RouterAssumption, RouterInv, Router!Submit PROVE RouterInv'
<1> DEFINE C == Router!Candidates
           B == Router!Batch
           w == Router!Smaller(Router!Concurrency, Router!Desired - Len(results))
           m == Router!Smaller(Len(asked) + w, Len(C))
<1>1. /\ phase = "asking" /\ running = {} /\ Len(results) < Router!Desired
      /\ Len(asked) < Len(C) /\ asked' = asked \o B /\ running' = Router!Range(B)
      /\ candidates = C
      /\ UNCHANGED <<mode, pool, parallel, parallelism, limit, candidates, phase, reply, results>>
  BY DEF Router!Submit, Router!config, RouterInv, CandidatesKnown
<1>2. /\ C \in Seq(Router!Slots) /\ Len(C) \in Nat
      /\ asked \in Seq(Router!Slots) /\ Len(asked) \in Nat /\ Len(results) \in Nat
      /\ parallelism \in Nat \ {0} /\ limit \in Nat \ {0}
      /\ \A i \in 1..Len(asked) : asked[i] = C[i]
  BY CandidatesAre DEF RouterInv, RouterTypes, RouterConfig, AskedFirst
<1>3. /\ w \in Nat \ {0} /\ w <= parallelism /\ w + Len(results) <= limit
      /\ (~parallel => w = 1)
  <2>1. Router!Desired \in Nat /\ Router!Desired <= limit /\ Router!Desired > 0
    BY <1>1, <1>2 DEF Router!Desired, Router!Smaller
  <2>2. /\ Router!Concurrency \in Nat \ {0} /\ Router!Concurrency <= parallelism
    BY <1>2, <2>1 DEF Router!Concurrency, Router!Smaller
  <2>3. ~parallel => parallelism = 1
    BY DEF RouterInv, RouterConfig
  <2> QED BY <1>1, <1>2, <2>1, <2>2, <2>3 DEF Router!Smaller
<1>4. B = SubSeq(C, Len(asked) + 1, m)
  BY <1>1 DEF Router!Batch
<1> HIDE DEF C, B, w
<1>5. m \in Nat /\ Len(asked) < m /\ m <= Len(C) /\ m - Len(asked) <= w
  BY <1>1, <1>2, <1>3 DEF Router!Smaller
<1> HIDE DEF m
<1>6. /\ B \in Seq(Router!Slots) /\ Len(B) = m - Len(asked)
      /\ \A i \in 1..Len(B) : B[i] = C[Len(asked) + i]
  BY <1>2, <1>4, <1>5
<1>7. /\ asked' \in Seq(Router!Slots) /\ Len(asked') = m
      /\ \A i \in 1..m : asked'[i] = C[i]
  <2>1. asked' \in Seq(Router!Slots) /\ Len(asked') = m
    <3>1. asked \in Seq(Router!Slots) /\ B \in Seq(Router!Slots)
      BY <1>2, <1>6
    <3>2. asked \o B \in Seq(Router!Slots) /\ Len(asked \o B) = Len(asked) + Len(B)
      BY <3>1
    <3> QED BY <1>1, <1>2, <1>5, <1>6, <3>2
  <2>2. ASSUME NEW i \in 1..m PROVE asked'[i] = C[i]
    <3>1. CASE i <= Len(asked)
      BY <1>1, <1>2, <1>5, <1>6, <3>1
    <3>2. CASE i > Len(asked)
      <4>1. i - Len(asked) \in 1..Len(B) /\ asked'[i] = B[i - Len(asked)]
        BY <1>1, <1>2, <1>5, <1>6, <3>2
      <4>2. B[i - Len(asked)] = C[Len(asked) + (i - Len(asked))]
        BY <1>6, <4>1
      <4> QED BY <1>2, <1>5, <4>1, <4>2
    <3> QED BY <1>2, <1>5, <3>1, <3>2
  <2> QED BY <2>1, <2>2
<1>8. /\ running' = {B[i] : i \in 1..Len(B)} /\ IsFiniteSet(running')
      /\ Cardinality(running') \in Nat /\ Cardinality(running') <= w
      /\ running' \subseteq Router!Slots /\ running' # {}
  <2>1. /\ running' = {B[i] : i \in 1..Len(B)} /\ IsFiniteSet(running')
        /\ Cardinality(running') \in Nat /\ Cardinality(running') <= Len(B)
    BY <1>1, <1>6, PieceCounts
  <2>2. 1 \in 1..Len(B)
    BY <1>2, <1>5, <1>6
  <2>3. B[1] \in running'
    BY <2>1, <2>2
  <2>4. running' \subseteq Router!Slots
    BY <1>6, <2>1
  <2>5. Cardinality(running') <= w
    BY <1>2, <1>3, <1>5, <1>6, <2>1
  <2> QED BY <2>1, <2>3, <2>4, <2>5
<1>9. Answered' = Answered
  BY <1>1 DEF Answered, Router!Ok
<1>10. Router!Candidates' = C
  BY <1>1, ConfigRests DEF C
<1>11. AskedFirst'
  BY <1>5, <1>7, <1>10 DEF AskedFirst, C
<1>12. AskedReply'
  <2>1. ASSUME NEW s \in Router!Slots, reply'[s] # "none" \/ s \in running'
        PROVE  \E i \in 1..m : asked'[i] = s
    <3>1. CASE reply[s] # "none"
      <4>1. PICK i \in 1..Len(asked) : asked[i] = s
        BY <3>1 DEF RouterInv, AskedReply
      <4>2. i \in 1..m /\ asked'[i] = s
        BY <1>2, <1>5, <1>7, <4>1
      <4> QED BY <4>2
    <3>2. CASE s \in running'
      <4>1. PICK i \in 1..Len(B) : B[i] = s
        BY <1>8, <3>2
      <4>2. Len(asked) + i \in 1..m
        BY <1>2, <1>5, <1>6
      <4>3. asked'[Len(asked) + i] = s
        BY <1>6, <1>7, <4>1, <4>2
      <4> QED BY <4>2, <4>3
    <3> QED BY <1>1, <2>1, <3>1, <3>2
  <2>2. ASSUME NEW i \in 1..m PROVE asked'[i] \in running' \/ reply'[asked'[i]] # "none"
    <3>1. CASE i <= Len(asked)
      <4>1. i \in 1..Len(asked) /\ asked'[i] = asked[i]
        BY <1>2, <1>5, <1>7, <3>1
      <4> QED BY <1>1, <4>1 DEF RouterInv, AskedReply
    <3>2. CASE i > Len(asked)
      <4>1. i - Len(asked) \in 1..Len(B) /\ Len(asked) + (i - Len(asked)) = i
        BY <1>2, <1>5, <1>6, <3>2
      <4>2. asked'[i] = B[i - Len(asked)]
        BY <1>6, <1>7, <4>1
      <4> QED BY <1>8, <4>1, <4>2
    <3> QED BY <1>2, <1>5, <3>1, <3>2
  <2> QED BY <1>7, <2>1, <2>2 DEF AskedReply
<1>13. RouterConfig' /\ RouterTypes' /\ AskingRuns'
  BY <1>1, <1>7, <1>8 DEF RouterInv, RouterConfig, RouterTypes, AskingRuns
<1>14. Cardinality(Answered) \in Nat /\ Len(results) = Cardinality(Answered)
  BY <1>1, ResultsCount
<1>15. AnswersTaken'
  <2>1. ASSUME ~parallel PROVE results = <<>> /\ Answered = {} /\ Cardinality(running') = 1
    <3>1. w = 1 /\ limit = 1
      BY <1>3, <2>1 DEF RouterInv, RouterConfig
    <3>2. Len(results) = 0
      BY <1>2, <1>3, <3>1
    <3>3. Answered = {}
      BY <1>14, <3>2, ResultsCount, FS_EmptySet
    <3>4. results = <<>>
      BY <1>1, <3>3, NoAnswersYet DEF RouterInv, AnswersTaken
    <3>5. Cardinality(running') # 0
      BY <1>8, FS_EmptySet
    <3> QED BY <1>8, <3>1, <3>3, <3>4, <3>5
  <2> QED BY <1>1, <1>8, <1>9, <2>1 DEF AnswersTaken
<1>16. Router!NoneWasted'
  <2>1. /\ Cardinality(running') <= parallelism
        /\ Cardinality(running') + Cardinality(Answered) <= limit
    BY <1>2, <1>3, <1>8, <1>14
  <2> QED BY <1>1, <1>9, <2>1, RouterCounts DEF Router!NoneWasted, Answered
<1>17. ReturnsWhole' /\ CandidatesKnown'
  BY <1>1, <1>10 DEF ReturnsWhole, RouterInv, CandidatesKnown, C
<1> QED BY <1>11, <1>12, <1>13, <1>15, <1>16, <1>17 DEF RouterInv

\* A thread or a serial attempt ends.
LEMMA AttemptEnds ==
    ASSUME RouterInv, NEW s \in running, NEW r \in Router!Replies,
           reply' = [reply EXCEPT ![s] = r], UNCHANGED <<Router!config, asked>>,
           running' = running \ {s}
    PROVE  /\ RouterConfig' /\ AskedFirst' /\ AskedReply'
           /\ reply' \in [Router!Slots -> Router!Replies \cup {"none"}]
           /\ Answered' \in SUBSET (Answered \cup {s})
           /\ r = "ok" => Answered' = Answered \cup {s}
<1>1. mode' = mode /\ pool' = pool /\ RouterConfig'
  BY DEF Router!config, RouterInv, RouterConfig
<1>2. AskedFirst'
  BY <1>1, ConfigRests DEF RouterInv, AskedFirst
<1>3. /\ s \in Router!Slots /\ reply' \in [Router!Slots -> Router!Replies \cup {"none"}]
      /\ reply \in [Router!Slots -> Router!Replies \cup {"none"}]
      /\ asked \in Seq(Router!Slots)
  BY DEF RouterInv, RouterTypes
<1>4. AskedReply'
  BY <1>3 DEF RouterInv, AskedReply, Router!Replies
<1>5. \A t \in Router!Slots : t # s => reply'[t] = reply[t]
  BY <1>3
<1>6. reply'[s] = r
  BY <1>3
<1> QED BY <1>1, <1>2, <1>3, <1>4, <1>5, <1>6 DEF Answered, Router!Ok

LEMMA StillWasteless ==
    ASSUME Router!RouterAssumption, RouterInv, NEW s \in running,
           running' = running \ {s}, UNCHANGED Router!config,
           Answered' \in SUBSET (Answered \cup {s})
    PROVE  Router!NoneWasted'
<1>1. /\ IsFiniteSet(running) /\ Cardinality(running') = Cardinality(running) - 1
  BY ResultsCount, FS_RemoveElement
<1>2. /\ IsFiniteSet(Answered \cup {s})
      /\ Cardinality(Answered \cup {s}) <= Cardinality(Answered) + 1
  <2>1. /\ IsFiniteSet(Answered \cup {s})
        /\ Cardinality(Answered \cup {s}) =
              IF s \in Answered THEN Cardinality(Answered) ELSE Cardinality(Answered) + 1
    BY ResultsCount, FS_AddElement
  <2>2. Cardinality(Answered) \in Nat
    BY ResultsCount
  <2> QED BY <2>1, <2>2
<1>3. Cardinality(Answered') <= Cardinality(Answered \cup {s}) /\ IsFiniteSet(Answered')
  BY <1>2, FS_Subset
<1>4. Cardinality(Answered') \in Nat /\ Cardinality(Answered \cup {s}) \in Nat
  BY <1>2, <1>3, FS_CardinalityType
<1>5. /\ Cardinality(running') <= parallelism
      /\ Cardinality(running') + Cardinality(Answered') <= limit
  BY <1>1, <1>2, <1>3, <1>4, ResultsCount DEF RouterInv, RouterConfig
<1> QED BY <1>5, RouterCounts DEF Router!NoneWasted, Answered, Router!config

LEMMA RouterFinishes ==
    ASSUME Router!RouterAssumption, RouterInv, NEW s \in Router!Slots, Router!Finish(s)
    PROVE  RouterInv'
<1>1. /\ s \in running /\ parallel /\ running' = running \ {s}
      /\ results' = IF running' # {} THEN results
                    ELSE Router!Listed({t \in Router!Slots : reply'[t] = "ok"}, Router!Preference)
      /\ UNCHANGED <<Router!config, candidates, phase, asked>>
  BY DEF Router!Finish
<1>2. PICK r \in Router!Replies : reply' = [reply EXCEPT ![s] = r]
  BY DEF Router!Finish
<1>3. /\ RouterConfig' /\ AskedFirst' /\ AskedReply'
      /\ reply' \in [Router!Slots -> Router!Replies \cup {"none"}]
      /\ Answered' \in SUBSET (Answered \cup {s})
  BY <1>1, <1>2, AttemptEnds
<1>4. Router!NoneWasted'
  BY <1>1, <1>3, StillWasteless
<1>5. Answered' = {t \in Router!Slots : reply'[t] = "ok"}
  BY DEF Answered, Router!Ok
<1>6. mode' = mode /\ pool' = pool /\ parallel' = parallel
  BY <1>1 DEF Router!config
<1>7. AnswersTaken'
  BY <1>1, <1>5, <1>6, ConfigRests DEF AnswersTaken
<1>8. Router!Listed(Answered', Router!Preference) \in Seq(Router!Slots)
  BY <1>5, AnswersAre DEF RouterInv
<1>9. RouterTypes' /\ AskingRuns'
  BY <1>1, <1>3, <1>5, <1>8 DEF RouterInv, RouterTypes, AskingRuns
<1>10. ReturnsWhole' /\ CandidatesKnown'
  BY <1>1, <1>6, ConfigRests DEF RouterInv, AskingRuns, ReturnsWhole, CandidatesKnown
<1> QED BY <1>3, <1>4, <1>7, <1>9, <1>10 DEF RouterInv

LEMMA RouterSerial ==
    ASSUME Router!RouterAssumption, RouterInv, NEW s \in Router!Slots, Router!Serial(s)
    PROVE  RouterInv'
<1>1. /\ s \in running /\ ~parallel /\ running' = {}
      /\ results' = IF reply'[s] = "ok" THEN <<s>> ELSE results
      /\ phase' = IF reply'[s] = "broken" THEN "raised" ELSE phase
      /\ UNCHANGED <<Router!config, candidates, asked>>
  BY DEF Router!Serial
<1>2. PICK r \in Router!Replies : reply' = [reply EXCEPT ![s] = r]
  BY DEF Router!Serial
<1>3. results = <<>> /\ Answered = {} /\ running = {s}
  <2>1. results = <<>> /\ Answered = {} /\ Cardinality(running) = 1
    BY <1>1 DEF RouterInv, AnswersTaken
  <2>2. \E x : running = {x}
    BY <2>1, ResultsCount, FS_Singleton
  <2> QED BY <1>1, <2>1, <2>2
<1>4. running' = running \ {s}
  BY <1>1, <1>3
<1>5. /\ RouterConfig' /\ AskedFirst' /\ AskedReply'
      /\ reply' \in [Router!Slots -> Router!Replies \cup {"none"}]
      /\ Answered' \in SUBSET (Answered \cup {s})
      /\ r = "ok" => Answered' = Answered \cup {s}
  BY <1>1, <1>2, <1>4, AttemptEnds
<1>6. Router!NoneWasted'
  BY <1>1, <1>4, <1>5, StillWasteless
<1>7. mode' = mode /\ pool' = pool
  BY <1>1 DEF Router!config
<1>8. reply'[s] = r
  BY <1>2 DEF RouterInv, RouterTypes
<1>9. results' = Router!Listed(Answered', Router!Preference)
  <2>1. CASE r = "ok"
    <3>1. Answered' = {s} /\ results' = <<s>>
      BY <1>1, <1>3, <1>5, <1>8, <2>1
    <3>2. Cardinality({s}) = 1
      BY FS_Singleton
    <3>3. /\ Router!Listed({s}, Router!Preference) \in Seq(Router!Slots)
          /\ Len(Router!Listed({s}, Router!Preference)) = 1
          /\ \A i \in 1..1 : Router!Listed({s}, Router!Preference)[i] \in {s}
      BY <3>2, AnswersAre DEF RouterInv
    <3> HIDE DEF Router!Listed
    <3> QED BY <3>1, <3>3
  <2>2. CASE r # "ok"
    <3>1. Answered' = {} /\ results' = <<>>
      <4>1. s \notin Answered'
        BY <1>8, <2>2 DEF Answered, Router!Ok
      <4> QED BY <1>1, <1>3, <1>5, <1>8, <2>2, <4>1
    <3> QED BY <1>3, <3>1, NoAnswersYet DEF RouterInv
  <2> QED BY <2>1, <2>2
<1>10. AnswersTaken'
  BY <1>1, <1>7, <1>9, ConfigRests DEF AnswersTaken
<1>11. RouterTypes' /\ AskingRuns'
  <2>1. phase = "asking"
    BY <1>1 DEF RouterInv, AskingRuns
  <2>2. <<s>> \in Seq(Router!Slots) /\ <<>> \in Seq(Router!Slots)
    OBVIOUS
  <2> QED BY <1>1, <1>3, <1>5, <2>1, <2>2 DEF RouterInv, RouterTypes, AskingRuns
<1>12. ReturnsWhole' /\ CandidatesKnown'
  BY <1>1, <1>7, ConfigRests DEF RouterInv, AskingRuns, ReturnsWhole, CandidatesKnown
<1> QED BY <1>5, <1>6, <1>10, <1>11, <1>12 DEF RouterInv

LEMMA RouterStutters == ASSUME RouterInv, UNCHANGED <<OwnRouter>> PROVE RouterInv'
<1>1. /\ UNCHANGED <<Router!config, candidates, asked, running, reply, results, phase>>
      /\ mode' = mode /\ pool' = pool /\ limit' = limit
  BY DEF OwnRouter, Router!config
<1>2. RouterTypes' /\ AskingRuns'
  BY <1>1 DEF RouterInv, RouterTypes, AskingRuns
<1>3. ReturnsWhole' /\ CandidatesKnown'
  BY <1>1, ConfigRests DEF RouterInv, ReturnsWhole, CandidatesKnown
<1> QED BY <1>1, <1>2, <1>3, RequestRests

LEMMA RouterSteps ==
    ASSUME Router!RouterAssumption, RouterInv, Router!Next PROVE RouterInv'
<1>1. CASE Router!Done
  <2>1. UNCHANGED <<OwnRouter>>
    BY <1>1 DEF Router!Done, Router!vars, Router!config, OwnRouter
  <2> QED BY <2>1, RouterStutters
<1> QED BY <1>1, RouterCalls, RouterSubmits, RouterReturns, RouterFinishes, RouterSerial
        DEF Router!Next, Router!Step

\* What the invariant says once a request has returned.
LEMMA ReturnedIsBest ==
    ASSUME Router!RouterAssumption, RouterInv
    PROVE  /\ Router!TypeOK /\ Router!ReturnsPreferred /\ Router!Backfilled
           /\ Router!NoneWasted /\ Router!CheapFirst
<1> DEFINE C == Router!Candidates
<1>1. /\ C \in Seq(Router!Slots) /\ Len(C) \in Nat
      /\ asked \in Seq(Router!Slots) /\ Len(asked) \in Nat /\ Len(asked) <= Len(C)
      /\ \A i \in 1..Len(asked) : asked[i] = C[i]
  <2>1. C \in Seq(Router!Slots)
    BY CandidatesAre DEF RouterInv
  <2>2. Len(C) \in Nat
    BY <2>1
  <2> QED BY <2>1, <2>2 DEF RouterInv, RouterTypes, AskedFirst
<1>2. /\ \A i, j \in 1..Len(C) : i < j <=> Router!Before(C[i], C[j])
      /\ \A i \in 1..Len(C), s \in Router!Eligible :
            Router!Before(s, C[i]) => \E j \in 1..Len(C) : j < i /\ C[j] = s
  BY CandidatesAre DEF RouterInv
<1>3. ASSUME NEW i \in 1..Len(asked), NEW s \in Router!Eligible, Router!Before(s, asked[i])
      PROVE  \E j \in 1..Len(asked) : asked[j] = s
  <2>1. i \in 1..Len(C) /\ Router!Before(s, C[i])
    BY <1>1, <1>3
  <2>2. PICK j \in 1..Len(C) : j < i /\ C[j] = s
    BY <1>2, <2>1
  <2>3. j \in 1..Len(asked)
    BY <1>1, <2>2
  <2> QED BY <1>1, <2>2, <2>3
<1>4. /\ results \in Seq(Router!Slots)
      /\ running = {} =>
            /\ Len(results) = Cardinality(Answered)
            /\ \A i \in 1..Len(results) : results[i] \in Answered
            /\ \A s \in Answered : \E i \in 1..Len(results) : results[i] = s
            /\ \A i, j \in 1..Len(results) : i < j <=> Router!Before(results[i], results[j])
  <2>1. Answered \in SUBSET Router!Slots
    BY DEF Answered
  <2>2. CASE running = {}
    <3>1. results = Router!Listed(Answered, Router!Preference)
      BY <2>2 DEF RouterInv, AnswersTaken
    <3> QED BY <2>1, <3>1, AnswersAre DEF RouterInv
  <2> QED BY <2>2 DEF RouterInv, RouterTypes
<1>5. phase = "returned" => running = {}
  BY DEF RouterInv, AskingRuns
<1>6. Router!ReturnsPreferred
  <2> SUFFICES ASSUME phase = "returned" PROVE
         /\ Router!Range(results) = {s \in Router!Slots : Router!Ok(s)}
         /\ \A i, j \in DOMAIN results : i < j <=> Router!Before(results[i], results[j])
         /\ \A i \in DOMAIN results : \A s \in Router!Eligible :
               Router!Before(s, results[i]) => reply[s] # "none"
    BY DEF Router!ReturnsPreferred
  <2>1. DOMAIN results = 1..Len(results) /\ running = {}
    BY <1>4, <1>5
  <2>2. Router!Range(results) = Answered
    BY <1>4, <2>1 DEF Router!Range
  <2>3. ASSUME NEW i \in DOMAIN results, NEW s \in Router!Eligible, Router!Before(s, results[i])
        PROVE  reply[s] # "none"
    <3>1. results[i] \in Router!Slots /\ reply[results[i]] # "none"
      BY <1>4, <2>1 DEF Answered, Router!Ok
    <3>2. PICK k \in 1..Len(asked) : asked[k] = results[i]
      BY <3>1 DEF RouterInv, AskedReply
    <3>3. PICK j \in 1..Len(asked) : asked[j] = s
      BY <1>3, <2>3, <3>2
    <3> QED BY <2>1, <3>3 DEF RouterInv, AskedReply
  <2> QED BY <1>4, <2>1, <2>2, <2>3 DEF Answered
<1>7. \A i, j \in 1..Len(asked) : asked[i] = asked[j] => i = j
  <2> SUFFICES ASSUME NEW i \in 1..Len(asked), NEW j \in 1..Len(asked), asked[i] = asked[j]
               PROVE  i = j
    OBVIOUS
  <2>1. i \in 1..Len(C) /\ j \in 1..Len(C) /\ C[i] = C[j]
    BY <1>1
  <2>2. (i < j <=> Router!Before(C[i], C[j])) /\ (j < i <=> Router!Before(C[j], C[i]))
    BY <1>2, <2>1
  <2>3. (i < j <=> i < i) /\ (j < i <=> i < i)
    BY <1>2, <2>1, <2>2
  <2> QED BY <2>3
<1>8. Router!Backfilled
  <2> SUFFICES ASSUME phase = "returned"
               PROVE  Router!IsInjective(asked) /\ (Len(results) < limit => asked = C)
    BY DEF Router!Backfilled
  <2>1. Router!IsInjective(asked)
    BY <1>1, <1>7 DEF Router!IsInjective
  <2>2. Len(asked) = Len(C) => asked = C
    BY <1>1
  <2>3. Len(results) \in Nat /\ limit \in Nat
    BY <1>4 DEF RouterInv, RouterConfig
  <2> QED BY <2>1, <2>2, <2>3 DEF RouterInv, ReturnsWhole
<1>9. Router!CheapFirst
  <2> SUFFICES ASSUME mode = "FREE_FIRST", NEW i \in 1..Len(asked), NEW t \in Router!Eligible,
                      Router!Rank(t) < Router!Rank(asked[i])
               PROVE  t \in Router!Range(asked)
    BY <1>1 DEF Router!CheapFirst, Router!Range
  <2>1. Router!Before(t, asked[i])
    BY BeforeIs
  <2>2. PICK j \in 1..Len(asked) : asked[j] = t
    BY <1>3, <2>1
  <2> QED BY <1>1, <2>2 DEF Router!Range
<1>10. Router!TypeOK
  BY DEF RouterInv, RouterTypes, RouterConfig, Router!TypeOK
<1> QED BY <1>6, <1>8, <1>9, <1>10 DEF RouterInv

\* A request of any pool of slots knows at every step who was asked, who said
\* something, and whose answers were taken (ProviderRouter).
THEOREM RouterInvariantHolds == Spec => []RouterInvariant
<1>1. Init => RouterInvariant
  BY ConstantsFit, RouterStartsRight
  DEF Init, RouterInvariant, RouterStarts, RunStarts, RevisionStarts, MergeStarts
<1>2. RouterInvariant /\ [Next]_vars => RouterInvariant'
  <2> SUFFICES ASSUME RouterInvariant, [Next]_vars PROVE RouterInvariant'
    OBVIOUS
  <2>1. CASE RouterDoes(Router!Next)
    BY <2>1, ConstantsFit, RouterSteps DEF RouterDoes, RouterInvariant
  <2>2. CASE RunDoes(Run!Next) \/ RevisionDoes(Revision!Next) \/ MergeDoes(Merge!Next)
    BY <2>2 DEF RunDoes, RevisionDoes, MergeDoes, RouterInvariant
  <2>3. CASE UNCHANGED vars
    BY <2>3, RouterStutters DEF vars, RouterInvariant
  <2> QED BY <2>1, <2>2, <2>3 DEF Next
<1> QED BY <1>1, <1>2, PTL DEF Spec

\* A request to a pool of any number of slots returns the answers of the most
\* preferred providers that gave one, in the order of preference, after asking
\* all it should and none it need not (ProviderRouter,
\* complete_parallel_with_diagnostics).
THEOREM AnswersAreBest == Spec => []BestAnswers
<1>1. RouterInvariant => BestAnswers
  BY ConstantsFit, ReturnedIsBest DEF RouterInvariant, BestAnswers
<1> QED BY <1>1, RouterInvariantHolds, PTL
=============================================================================
