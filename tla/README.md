# ZEN MA2 Agent in TLA+

TLA+ modules of the control logic of ZEN MA2 Agent: what it promises about
writes to a grandMA2 show, about its session with the console and what it reads
through it, about the bridge, the jobs of the operations worker and the AI
workers it can reach, and about a show designed by several language models on
its way into stored cues. TLC checks small instances; TLAPS proves most of the
safety properties for every value of the constants. Paths are relative to the
root of the repository; `core.py` and the like are in `zen_ma2_agent/`.

## 1. Inventory

| Component | State | Operations | Talks to |
|---|---|---|---|
| Approval registry (`core.py`) | `actions`, `_active_action_id`, `_root_workflow_status` | `handle_request`, `_queue_workflow`, `program_show_request`, `preview_action`, `cancel_action`, `approve_action` | runtime, skills, state providers, event bus |
| Executors and verifiers (`core.py`, `position_*.py`, `existing_cue_dynamic_program_merge.py`, `sequence302_resource_merge.py`, ...) | none; the console's programmer and show | `_execute_*`, `verify_*` | runtime, export providers |
| Position evidence and resource map (`core.py`, `position_*_evidence.py`, `resource_map.py`) | two catalogs on disk | three probes, record after readback, `_collect_lean_design_profile` | executors, designers |
| Planning (`workflow.py`, `show_program.py`, `skill_system.py`, `parser.py`, `safety.py`) | skill registry | `plan_intent`, `compose_show_program_child` | registry |
| `MA2TelnetClient`, `AgentRuntime` | connection state, receive buffer, receiver thread | `connect`, `poll_authentication`, `execute`, `close` | console |
| `FieldHost` | `_ma_next_retry_at`, threads | `start`, `stop`, `_poll_ma_runtime_once` | core, bridge, workers, watchdog, operator server |
| MA bridge (`ma_bridge/`) | `_seen`, `_responses` | `dispatch`, `handle_line` | console plugin, `FieldHost._bridge_status_payload` |
| Worker registry and health (`remote_workers.py`, `worker_health.py`) | state, capabilities, failures per worker; polling thread | `set_state`, `route`, `poll_once`, `start`, `stop` | remote workers, bridge status |
| Watchdog (`watchdog.py`, `host_metrics.py`) | last observation per component, events | `observe`, `snapshot` | FieldHost |
| Operator API and server | none | tool calls on a thread pool | core |
| Operations worker (`deploy/ubuntu/zen-ops-worker.py`) | result files, `worker-state.json` | `process_once` | git control branch, systemd |
| Provider router (`llm/router.py`) | slots | `complete*`, `complete_parallel*` | LLM endpoints |
| Multi-agent runtime (`llm/multi_agent_runtime.py`, `run_checkpoints.py`) | the run's directory | role sequence, resume gates, revision cycles | router |
| Show state adapter (`runtime.read_adapter_state`, `state/`, `lua/ZEN_AGENT.lua`) | one UserVar mailbox, exported files, a store of snapshots | refresh, export, read | console |
| Artifact cache, event bus, department adapters, GUI automation, design and knowledge code, OpenClaw plugin, launcher | see `PROJECT.json` | | |

What is hard, and what makes each component correct:

* **Approval registry.** The operator server calls `AgentCore` from a thread
  pool; `AgentCore` has no lock, and `approve_action` runs for seconds with the
  status, the active id and the root status read at the start and written at the
  end. Correct means: nothing is written before approval; `EXECUTED` is true of
  the show; an approved action is concluded; the active id names the open
  action; the root status does not contradict the records.
* **Executors.** The console confirms nothing: a response is whatever text
  arrived in a time window. A plan may break off anywhere, leaving values in the
  programmer that the next store would take along, and the operator edits the
  same show meanwhile. Correct means: only the readback decides, and VERIFIED is
  said only of a show that changed by the plan and by nothing else (section 5
  names what the code does not compare).
* **Evidence.** What a probe found is believed by every later design. Correct
  means: a catalog binds a preset to fixtures only if the preset was seen to
  work on them, and a design is offered bindings of the show as it is.
* **Session.** A poller, the operators' threads and the receiver thread share
  one client. Correct means: READY is true of the console, there is one session
  at most, and none is taken from under the thread that uses it.
* **Reading the show.** List answers come late, exports are read while they are
  written, one mailbox serves every reader. Correct means: an answer is filed
  under what was asked, and no half file is parsed.
* **Bridge.** A console repeats a request after a timeout. Two LRU caches
  remember the payload and the response of an id. Correct means that a
  repetition is answered like the original.
* **Operations worker.** The process is restarted whenever it dies and knows
  only the last job it finished. Correct means: what is recorded is published,
  every repeated execution has a reason, a posted job is done in the end.
* **Worker registry, watchdog.** Pollers write without a lock while others read;
  a stopped poller may still be at work when the next one starts. Correct means:
  they say what was last heard, and a worker or component that goes or comes is
  noticed.
* **Router, runs, revisions.** Answers arrive in any order, the process may stop
  between or within any two writes, a run is called again with other inputs.
  Correct means: the best answers in order of preference; checkpoints that
  belong together; a review that judges what is returned.

`PROJECT.json` lists every component with its status, and under `hazards` the
places of the code at which these difficulties bite.

## 2. Plan

Modelled: everything this inventory calls stateful, but for the socket server
and the operator server (I/O around modelled cores) and the artifact cache.
Proved: the safety properties of the approval registry, bridge caches, evidence,
operations worker, worker registry, session, watchdog, show cache, exports,
mailbox, requests to the pool of providers, design runs, revisions and merges
(section 6).

What is left are the liveness properties, which the prover does not reach, and
the parts of the inventory without a module (section 7).

## 3. Modules

`ActionLifecycle`, `Bridge`, `OpsWorker` and `Workers` are each checked by an MC
module of their own. The others share two: in `MCHost` and `Design` (and in
`MCBridge`, for `Bridge` and `Evidence`) a behaviour is that of one part, chosen
by `part` in the initial state, while the variables of the other parts hold
`Off`. Each part is an `INSTANCE` of its component over the shared variables, so
a theorem about the composed specification speaks of the component and of
nothing else. `Design` leaves the rig, the plans, the contexts and the slots of
the providers to constants, which the theorems keep and `MCDesign` gives values.

### ActionLifecycle

| Specification | Code |
|---|---|
| `status`, `kind`, `active`, `root` | `ActionRecord.status` and its intent, `_active_action_id`, `_root_workflow_status` |
| `ready`, `prog`, `content` | `AgentRuntime.ready`, the MA2 programmer, the cues a plan stores to |
| `fresh` | previews that still agree with the show |
| `pc`, `cur`, `phase`, `failed` | where a thread is in `approve_action` |
| `QueueWorkflow`, `Queued` | `_queue_workflow`: the look at the open action, and its replacement |
| `ProgramShowRequest`, `ProgramShowBlocked`, `CancelAction` | calls that only assign fields: one step |
| `ApproveAction`, `Revalidate`/`RejectStale`, `MarkApproved` | `approve_action` up to `APPROVED`, cut at every exchange with the console |
| `LeadClear`, `SetValues`, `Store`, `Readback`, `TrailClear`, `Finish` | the executors, one console command or read per step |
| `Connect`, `Disconnect`, `Drift` | the session and the people at the console |

Plans are grouped into families (`AllKinds`) by how `approve_action` treats
them: which are revalidated, which stop at an error, which are read back, which
compare protected content, which move the root status; `direct` and
`program_direct` are the plans whose commands name what they change, without the
programmer, alone and within `show.program`. A command is applied or lost and,
independently, answered by text that reads as an error or not: that is all the
code can rely on. `content[i][p]` is the set of actions whose values the p-th
target of action i holds, so leftovers of a failed plan are visible. Left out:
command texts, single attribute values, progress, chat and events. No plan of
the repository is DANGEROUS, so `danger_confirmed` has no effect.

`ApprovalContract` is the abstract promise: at most one open preview, granted
once, written only when granted, concluded once, and not `EXECUTED` without a
write where success needs a readback. `ActionContract` maps the detailed state
to it (`KeepsContract`).

### Bridge and Evidence (`MCBridge`)

`seen` and `cached` are the orders of the two `OrderedDict`s, `payload` and
`answer` their values. `dispatch` holds one lock, so a request is one step;
`Conflict`, `FromCache`, `Process` and `StatusFails` are its outcomes. `remote`
is what the status provider would say; `WorkersChange` changes it. Malformed
lines are answered without touching any state and are left out. The payload hash
is taken as the payload.

`Evidence` is a probe from its proposal to its record: the preview takes a basis
(rows of the sequence, members of the group), the approval looks again,
`Send` sends one command per step, the export is compared and the catalog
written. `linked` is history: to which presets, and each on which fixtures, the
cues of the sequence were linked when they were stored, by the probe or by
anyone else. A design lists the sequences, then the presets, then exports its
groups (`ReadSequences`, `ReadPresets`, `ReadMembers`), and reads the catalogs
of the identity it finds, a target question those of the fixtures it names. With
its `Edits` the operator regroups fixtures, stores a preset, uses the
programmer, takes the sequence a probe has chosen, with a cue that may be linked
to any preset on some fixtures (`TakeSlot`), or loads another show (`LoadShow`);
`Crash` stops the process.

### OpsWorker

`branch` is the file on the control branch; `kept`, `public`, `latest`,
`lastJob`, `error` are files; `pc`, `job`, `status` the memory of
`process_once`. `Fetch`, `Keep`, `Show`, `ShowLatest`, `Start`, `Conclude`,
`Record` are its steps, one file write each; `Interrupt` is the death of the
process or a write that raises, between any two of them. `outcome`, `runs`,
`posts`, `stops` are history.

### Workers

`state` and `runtime` are the registry: `RegisteredWorker.state` and whether its
`model_runtime_available` is True. `pc`, `at`, `found` say where each thread is
in `poll_once`: the host within `start`, later a thread of the service.
`Health`, `Capabilities`, `SetState`, `SetCapabilities` are the two requests of
`_poll_endpoint` and the two assignments of `set_state`; `Fault` is an exception
the probe does not catch. `Start`, `Spawn`, `Round`, `Leave`, `Stop`, `Joined`
are the service; a join that times out leaves the thread behind. What a worker
would answer (`serves`) changes at any time; `heard` and `overran` are history.
`Counts` is what `remote_ai_available` and `route` ask of a worker.

### Connection, Watchdog, ShowState, ExportTransaction, Mailbox (`MCHost`)

* `Connection`: `state`, `sock`, `inbox`, `current` are fields of the clients
  that `FieldHost` has made, one after another; `peer`, `who`, `greeted` what
  the console makes of each socket. `TryConnect`, `Opened`, `LoginSent`,
  `LoginFails`, `Verdict`, `Close`, `LetGo` and `Poller` are the steps of the
  poller and of the operators' threads, cut where the lock is released or a
  socket call may block. A send may fail although the console is still there.
  NEGOTIATING, which is left without a call that blocks, is no state of the
  model, and the settings do not change within `connect`: but for
  `connect` itself only a test calls `update_connection_settings`.
* `Watchdog`: `actual` is the truth, `known` the last observation, `events` the
  bounded history. `Look` and `Apply` are cut between them, since a probe takes
  its time; `Serve`, `Start`, `Stop` are the threads, one of which may have been
  given up.
* `ShowState`: a refresh is `Ask`, the wait, and the store; `Late` says whether
  an answer may come after the wait is over. `told` is what a refresh reported.
* `ExportTransaction`: the console writes a file chunk by chunk, the reader
  waits for two equal sizes (`stable`) and for a closing tag. `owner` is the
  lock, `ran` and `outcome` history.
* `Mailbox`: one UserVar holds the request and then the answer; the plugin may
  also be run by hand. A reader polls for the sequence number it chose.

### ProviderRouter, DesignRun, RevisionLoop, CueMerge (`Design`, `MCDesign`)

* `ProviderRouter`: one request to a pool in any of the four modes, serial or in
  batches of the width, with backfill; answers arrive in any order. `candidates`
  is the order of the slots, fixed when the request begins.
* `DesignRun`: `disk` is the directory of the run, `Stop` ends the process
  between two writes or within one (`Torn`); `Open` and `Check` are the resume
  gates. An artifact records whose call it is and what it was built from.
  `normalized_current_show_snapshot.json`, which every call with a live show
  overwrites before the gates, is left out: only a test reads it.
* `RevisionLoop`: cycles of designer, critic, picture and finalizer, each in a
  directory of its own; a call picks up the directories it finds.
* `CueMerge`: preview, approval with a second look, commands one by one through
  the programmer, readback and verdict, for positions, dynamic programs and the
  resources of sequence 302. `show` are the rows of the cues, their labels, the
  presets and effects; `Edit` is the operator's; `ignored` a command the console
  passed over. `Fits` is what a preview asks of a plan: values within the range,
  verified effects, and that the capabilities it uses are none it was told to
  avoid and all it was told to use.

## 4. Runs

| Run | Instance | Shows |
|---|---|---|
| `action_serial` | 2 actions, one thread, 9 families, 2 rounds | `ActiveIsTheOpenAction`, `ExecutedExactly`, `RootOutcome`, and the contract, with lost commands, false errors, drift, connection loss |
| `action_concurrent` | 2 actions, two threads, a merge and a direct plan, 1 round | what survives a second caller: `NoWriteBeforeApproval`, `ExecutedIsOnTheShow`, `ApprovedHasExecutor`, `ApprovedConcludes` |
| `action_double` | 2 actions, two threads, raw probes | violation: both execute the same preview (`OneExecutor`) |
| `bridge_evidence` | bridge: 3 ids, 2 arguments, capacity 2; evidence: 2 fixtures, 2 presets, 1 slot, 1 other show, 3 tasks, 1 mishap | `AnswerFits`, `InStep`, `RetryIsIdempotent`; `EvidenceIsTrue`, `OfferedIsCurrent`, `QuietVerifies` |
| `bridge_duplicate` | the bridge, its provider never raises | violation: after a conflict a duplicate is recomputed |
| `ops_worker` | 2 jobs, 2 posts, 1 interruption each | `RecordedIsPublished`, `ExecutionsAccounted`, `RunningIsExplained`, `PostedIsRecorded` |
| `workers` | 2 workers, 1 service thread and the host, 5 kinds of answers | `OneWriter` and `RegistryAsHeard` (until a join gives up), `ChangesAreNoticed` |
| `host` | 2 clients, 2 operators, 2 settings; 2 components, 1 of them required, 2 threads, capacity 2; 2 resources, 2 keys, 2 sessions; 2 requests, 4 chunks | `ReadyMeans`, `OneSession` (until a join gives up), `WorkingStays`; `EventsAgree`, `NeverBackwards` (likewise); `CacheIsTrue`; `ExportsWhole`; `MailboxOwn` |
| `host_live` | smaller, without symmetry | `Reconnects`, `WaitsEnd`, `LossIsShown` |
| `design` | 3 providers, widths 1 and 2; 2 requests, 3 contexts, 3 calls, 1 stop, 2 attempts; 2 cycles; 3 fixtures, 2 cues, 2 plans of each kind, 6 edits, 1 ignored command | `BestAnswers`; `OneRun`, `Resumes`; `ReviewIsTrue`; `VerifiedIsApproved`, `UndisturbedVerifies`; `NeverOverwritten`, `Ends` |
| `design_run_torn` | the run only | violation: a torn checkpoint makes every resume fail (`AlwaysResumes`) |
| `merge_never_verified` | the merge only, `Fine` plan | violation: values with more than three decimals are never verified (`UndisturbedVerifies`) |

**Bounds.** In `ActionLifecycle`, two ids give the action under way a
predecessor or a successor, two rounds (`Phases`) let a plan break off between
its stores, and the kinds of an instance are those of different treatment.
Capacity 2 with three ids makes evictions and recurrences of evicted ids happen;
256 differs only in how long it takes. Two jobs are enough for one to displace
the other and to come back; one interruption per job visits every pair of steps.
One sequence is the one that probes contend for; the other show differs from the
first in its group, its presets and what is taken. Two clients are one that was
given up and its successor; two threads are a poller left behind and the next
one; two components one that is required and one that is not; four chunks let a
file stand still at the same size twice before it is whole. Three calls are one
that stops, one that goes on with other inputs, one that finds what both left;
three contexts are no live show and two. Two cues let a plan fail in the second
after the first was stored; the fixture outside the group shows what a plan may
not touch. `Late` is FALSE in `host`: with late answers `CacheIsTrue` is not
true (section 5), and `ReportsStayLate` proves what remains. The safety theorems
have none of these bounds fixed. Symmetry is used for ids, jobs and requests,
never in a run with a liveness property.

**Fairness.** Weak fairness of the steps of a thread under way, in every module:
each send, read, export and request carries a timeout, and systemd restarts the
operations worker. Beyond it: `OpsWorker.Fetch` (a failed fetch is tried again
every 10 s; the network is assumed not to fail for ever); strong fairness of
`Opened`, `LoginSent` and `Decides` of the session (the console is assumed to
accept and answer a login now and then), of `Look` and `Apply` of the watchdog
and of the export's `Timeout`, each of which other threads can disable for a
moment, again and again, by holding the lock, without ending the attempt.
Nothing is assumed of operators, of an export's console, or of the connection
while it works.

## 5. Findings

With a run that shows them:

* **Double approval** (`action_double`). `approve_action` checks status and
  active id, revalidates for seconds, and then sets `APPROVED` without a second
  look. Two threads that approve one preview both execute its commands. The same
  gap lets a cancelled or superseded preview be executed; with one caller
  neither happens, which the serial run and the theorems show.
* **Recomputed duplicate** (`bridge_duplicate`). A conflicting reuse of an id
  refreshes it in `_seen` only. From then on the caches evict different ids, and
  a duplicate of a known STATUS request gets a newly computed answer, where
  `docs/ZEN_MA_BRIDGE_PROTOCOL_V0_1.md` promises the original one.
* **Torn checkpoint** (`design_run_torn`). A process stopped within the write of
  a checkpoint leaves a file at which every later resume raises.
* **Never verified** (`merge_never_verified`). Commands carry three decimals,
  the readback is compared with the unrounded value, and the committed plan for
  sequence 302 has more than three: the merge writes everything and fails.

Found while modelling, without a run:

* *Threads left behind.* `stop` of the host, of the watchdog's poller and of the
  worker health service joins for a bounded time and goes on without the thread.
  That thread may then open a session beside its successor's or after the stop
  (`field_host.py:365`), apply an older observation over a newer one
  (`watchdog.py:104`), or write the registry beside the next poller
  (`worker_health.py:200`). `OneSession`, `NeverBackwards`, `OneWriter` and
  `RegistryAsHeard` claim nothing from then on (`overran`).
* *Bridge.* A provider that raises leaves its id known without a response, and
  the retry is a duplicate that is processed anew; the properties of the caches
  hold until then.
* *Session and reading.* A worker that lost its model counts by its old
  capabilities between two assignments of `set_state`. A disconnect leaves a
  snapshot fresh whose refresh is in flight (`state/store.py:45`), and of two
  refreshers one can undo the other's rows (`state/store.py:30`); answers that
  come after the wait are filed under the next item asked for. An export's
  cleanup runs outside the lock, and the mailbox is not cleared after use.
* *Router and runs.* A serial request whose provider breaks in an unrecognised
  way goes to no other. A torn `run.json` hides that a later call has another
  context, so contexts mix; a restart that stopped halfway mixes requests; a run
  whose last write was lost is returned but never recorded `COMPLETE`. The
  control file of the operations worker holds one job: one overwritten before
  the next fetch is never seen.
* *Merges.* In a position merge neither MARK and other rows of the position
  family nor, on fixtures outside the plan, PAN and TILT are compared, and
  effects put on a target's PAN and TILT are not protected, although
  `core.py:3318` speaks of unchanged CueData. A preset the operator stores after
  the approval in a slot that was free can be overwritten. The approval of the
  sequence 302 merge does not look again for effects on targets' DIM, its raw
  values are not held to the fixtures' limits, and unchanged cue metadata, which
  its document lists as verified, is not compared. A merge of dynamic programs
  or of sequence 302 that broke off cannot be retried.
* *Evidence.* `_collect_lean_design_profile` ignores whether its refreshes
  succeeded: after a failed export the old members stay, and the next group's
  success clears the error. The identity of a show includes its preset labels,
  so a new preset invalidates every earlier binding, while a preset stored again
  under its label keeps its binding. A sequence number taken between the second
  look and the store is merged into and relabelled, and keeps what it was linked
  to. The capability file of cue effects is bound to no show; catalogs are
  written in place; the raw probe compares no values.

## 6. Proofs

Eight modules hold the theorems listed in `PROJECT.json`. They rest on the
assumptions of the component modules (`ConstantsAssumption`, `BridgeAssumption`,
`OpsAssumption`, `WorkersAssumption`, `ConnectionAssumption`, ...), which TLC
evaluates in the runs, and where said on `OneCaller`, `~Late` or `Exact`. Each
follows one pattern: an inductive invariant, its preservation by one lemma per
action, what it implies, and the temporal step.

* **Approval registry, any number of threads** (`ActionLifecycleProofs`). The
  type invariant is not inductive: `status[cur[t]]` needs to know that a thread
  inside `approve_action` has an action. `ConcurrentInv` adds `InCall` (that),
  that what a thread executes was once approved, and that a thread past its
  readback has seen its content on the show. Theorems: `TypeCorrect`,
  `NothingUnapproved`, `ExecutedVerified`, `ApprovedIsServed`.
* **One caller** (`OneCaller`: any two threads are the same). `SerialInv` adds
  that the action under way is still the active one and still PENDING or
  APPROVED: what a second caller destroys. Theorems: `ActiveIsOpen`,
  `ExecutedIsExact`, `RootTellsTheOutcome`, and the refinement
  `ImplementsContract`, whose step case maps every step to a step of the
  contract or to a stutter.
* **Bridge, any capacity** (`BridgeProofs`). Until a conflict or a failure the
  two caches are the same sequence, hence (`ProcessedIsNew`) only new ids are
  processed and a known id keeps the answer it first got (`AnswersKept`); that
  touching and trimming an LRU adds no other id is `TouchMembers` and
  `TrimMembers`.
* **Evidence, any fixtures, presets, slots, tasks and mishaps**
  (`BridgeProofs`). A binding is written from an export that was read commands
  ago, so the invariant follows the links of a cue from the store to the record:
  whatever the sequence held first and whatever was merged into it, all the
  links of one of its cues were there together when it was last stored
  (`SequenceLinks`), an export has those of the sequence (`ExportLinks`), and
  what is about to be recorded was stored with exactly these fixtures (`Found`);
  a target takes its row from one of the first catalog (`RowsLinked`). From it
  `BindingsAreTrue`. `OffersAreCurrent` adds `DesignReads`: what a design has
  read so far was so at a moment of its reading. `QuietProbesAreVerified`
  follows a probe that nothing disturbs command by command: the reading is the
  show as it is (`SureReading`), the plan is one that was previewed and its slot
  is free (`PlanKept`, with `LeastOfPool`), the show is the one of the plan,
  with the preset of a calibration once that is stored (`ShowPlanned`), the
  programmer holds before each of the fourteen places what the commands up to it
  have set (`Programmer`), and the sequence the cues stored so far (`Written`).
  `QuietIsVerified` then derives what the executor asks of the export, but for
  an application probe whose preset holds no values for a member; `LastKept` is
  what the offer of the row recorded last needs.
* **Operations worker, any number of posts and interruptions**
  (`OpsWorkerProofs`). `Written` says which files already hold the current
  payload, `InMemory` that the job under way is not the recorded one, and
  `Credit` that a job which would be started next has a post or an interruption
  left to account for it: without it `ExecutionsAccounted` is not inductive.
* **Workers, any number of workers and threads** (`WorkersProofs`). `Owned` says
  that a living thread is the one `stop` would wait for and that the host is not
  within `start` meanwhile; `OneWriter` follows. `Told` then needs `Halfway`:
  between the two assignments the state is still ONLINE, which only the one
  writer guarantees. Once a join has timed out (`overran`) nothing is claimed.
* **Session, any number of clients, operators and settings** (`ConsoleProofs`).
  The invariant relates who holds which client, what each client last heard and
  what was concluded from it; `ReadyMeans` and, as long as no join has given up,
  `OneSession` follow from it, and so does the action property `WorkingStays`: a
  close decided on a verdict of an earlier moment meets a client that is no
  longer current.
* **Watchdog, any number of components and threads** (`HostProofs`). Who polls,
  how old what is known may be, and that the bounded list of events is a gapless
  piece of one history whose end the snapshot is. `NeverBackwards` needs that no
  join has given up.
* **Show cache** (`HostProofs`). `CacheIsTrue` is proved from `~Late`: every
  answer comes within the wait. Without it, `ReportsStayLate` says that reports
  stay until the next one of their item unless a snapshot is written over one
  that was not seen.
* **Exports and mailbox** (`ConsoleProofs`). Whose request is whose, who has the
  lock, and what a whole file tells; and where a request is on its way between
  reader and plugin. The history variables are needed: that no reader is given
  another's answer is true because a sequence number is chosen once.
* **Requests to the pool, any number of slots** (`DesignProofs`). That the key
  of each mode orders the slots (`PreferenceOrders`) and that counting the
  better ones puts a set in this order, each member once (`ListedIs`, by the
  pigeonhole principle), comes first. The invariant then says that those asked
  are the first candidates, that each of them is at work or has said something,
  and that between two batches exactly the answers so far are taken. From it
  `AnswersAreBest`, for any timing of the threads.
* **Design runs** (`DesignProofs`). The invariant says at every place of the
  program what each checkpoint was built from, and which gates were passed
  since. From it: `OneRun`, `Resumes`.
* **Revisions** (`DesignProofs`). Per directory and cycle, which artifacts are
  there and of which cycle they are. From it: `ReviewIsTrue`.
* **Merges** (`DesignProofs`). For any plans, fixtures, cues and edits: the
  preview's basis and its fit, that an accepted export equals the show but for
  edits after it, and that what is to be created was free at the approval. From
  it `VerifiedIsApproved`, with the exceptions of `AsPlanned`, which no verifier
  compares (section 5). `NeverOverwritten` combines the three.
* **Undisturbed merges, any plans, fixtures and cues** (`MergeProofs`). The
  commands of a plan are covered by blocks that clear the programmer, fill it
  and store a cue or create something (`Cov`; that the library's recursive
  `FlattenSeq` puts them in a row is shown by its least counterexample, as
  `FS_StrictSubsetOrderingWellFounded` makes the beginnings of a set of numbers
  well founded). The workflow is always the one its plan gives
  (`MergeFollowsItsPlan`). While it is sent and nobody interferes, `Doing` says
  what the programmer holds at each place of the block under way, `Kept` what
  the show keeps, `Called` and `Made` what the blocks that are past have stored
  and created. So no command is refused, neither the approval nor the export
  finds a foreign change, and at the end `Matches` holds
  (`UndisturbedMergeVerifies`). The theorem is for positions of three decimals
  at most (`Exact`, which TLC evaluates for the plans of `design`); for others
  the property is false, as `merge_never_verified` shows, and nothing else about
  positions is assumed.

Assumptions on constants beyond types are those of the code: the marks for a
missing and a torn file are no contents (`DesignRunAssumption`), the names of
the roles and cycles are different (`RevisionAssumption`), the order of the
fixtures names each once, the cues are finitely many and the mark for nothing is
no value, preset or record (`CueMergeAssumption`), nor is it a value, name, cue
or sequence (`EvidenceAssumption`), and the host is no thread of the service.

Only model-checked: `ApprovedConcludes`, `PostedIsRecorded`,
`ChangesAreNoticed`, `Reconnects`, `WaitsEnd`, `LossIsShown` and `Ends`, as
liveness under fairness is out of the prover's reach. Every invariant and action
property of the passing runs is stated by a theorem. `OneExecutor`,
`DuplicateGetsOriginal`, `AlwaysResumes` and `UndisturbedVerifies` of the `Fine`
plan are false.

## 7. Not modelled

Components without a module are in `PROJECT.json` with the reason: pure
planning, design and knowledge code, I/O (sockets, screenshots, deployment
scripts) around modelled cores, thin clients, and the artifact cache, whose one
atomic replace leaves little to check. Within the components that are modelled:
command texts and the parsing of console output, prompts and what validators say
beyond accepting or rejecting, dimmer and effect bindings, and the activity
logs. The three position probes are modelled twice: as families of plans in
`ActionLifecycle`, and command by command, with their records, in `Evidence`.

The console itself is external: it applies or loses a command, answers anything
in time or not, and is edited by people. The Lua plugin's host, the git server,
systemd, the LLM endpoints and the filesystem are external: a fetch gives the
current file or fails, a dead process is restarted, an endpoint answers, breaks
or is silent, a write happens, happens halfway or not at all.
