# DataFoundry verification project

TLA+ models of the parts of DataFoundry whose correctness depends on the order in
which things happen, checked with TLC on small instances, and proofs of their main
safety properties for every instance, checked with TLAPS.

DataFoundry is a data-analysis workspace around an agent. A web or terminal client
posts a *run* to `apps/api`; the run is governed by protocols of
`packages/agent-runtime`; its rows, events, interactions and protocol snapshots are
kept by `packages/metadata` in SQLite. The server is one Node process over a
synchronous database handle. Code between two awaits therefore executes as one step,
and whatever can happen happens at an await: another request, a REST call, a timer, a
parallel tool call, the death of the process. All modules use this granularity.

| module | code | question |
|---|---|---|
| `RunLifecycle` | `apps/api/src`: `server.ts`, `run-identity*.ts`, `stale-active-runs.ts`, `run-cancel-registry.ts`, `run-finalizer.ts`, the cancel endpoint | Who may write the row of a run, and does a run settle once? |
| `ProtocolSegments` | `packages/agent-runtime/src`: `protocol/*.ts`, `capabilities/action-router.ts`; `apps/api/src`: `protocol-run-completion.ts`, `protocol-event-recovery.ts`, `protocol-state-store.ts` | Do the segments, actions and decision of a run stay consistent under parallel calls, handoffs, restarts and throwing sinks? |
| `TraceSections` | `apps/api/src/trace-section-coordinator.ts` | Do the sections cut from a run's events cover them, in order, and get completed? |
| `DataAnalysis` | `protocol/protocols/data-analysis.ts`, `protocol/run-protocol-boundary.ts` | Is what an analysis reports backed by evidence of the SQL it was planned with? |
| `ConversationMemory` | `apps/api/src`: `conversation-memory.ts`, `run-memory-assembly.ts`, `long-term-memory.ts`, `session-branching.ts`, the flush of `run-finalizer.ts` | Does a prompt together with the working memory hold what was said, across runs at once, forks, timeouts and crashes? |
| `RunGovernance` | what the endpoints of `apps/api` promise of a run | The abstract specification that `RunLifecycle` implements |
| `*_proofs` | | theorems; `RunRefinement_proofs` is the refinement |
| `MC*` | | symmetry sets, and the model values they permute |

`PROJECT.json` maps every definition to the lines it models and lists components,
runs, mutants, findings, hazards and theorems.

## The system

### What is modelled

**Run lifecycle** (`apps/api`). *State*: the tables `runs`, `interactions` and
`run_events`; the in-process `RunCancelRegistry`; the closure of each request
(`terminalStarted`, `suspended`, the subscriber). *Operations*: a POST claims a run,
resumes a suspended one, replays a finished one or is refused; preparation registers
a cancel handle; the stream finishes, fails, times out, suspends or is closed by its
client; the finalizer persists a status and logs the terminal event; the cancel endpoint
calls a live handle, or updates the row only; at startup and at a claim, active rows
without a handle are reclaimed. *Hard*: a claim, the registration of the handle, the
stream and the finalization are separated by awaits, and every one of them is the
window of somebody else's claim or cancel. *Correct when*: a run has one owner, a
handle belongs to the owner, a session has one worker, a suspended run can be
answered, a settled row stays settled, an accepted cancel lands.

**Protocol runtime, action router, completion, event journal**
(`packages/agent-runtime` and `apps/api`). *State*: `protocol_state_snapshots`, one
row per segment with its phase, domain state, revision and action records;
`protocol_event_journal`; the closure of `createRunProtocolBoundary`, which holds the
runtime the router uses; the await at which every tool call stands. *Operations*: an
action is admitted or rejected, succeeds, fails; the agent hands off to the other
protocol or has its route corrected; the completion commits the answer, decides the
segment, finalizes the run. *Hard*: a handoff replaces the runtime while other calls
are between their awaits; an event sink may throw after the commit it reports.
*Correct when*: segments form a chain and never reopen, a result is recorded once, the
action budget holds, a completed run has a decision and met its goals, its journal is
delivered.

**Conversation memory** (`apps/api`). *State*: `conversation_messages` (a log per
session), `conversation_summaries` (ranges of it), `session_branches`, the working memory
of the session's thread, the observer of each request with the drafts of the assistant
messages it streams, the flush of each completed run. *Operations*: a claim stores the
user message, mirrors the latest summary into the working memory and builds the prompt
from the messages the summary does not cover; suspensions, cancels, failures and
completions store the drafts; a completion then summarizes old messages, mirrors the
summary and extracts long-term memories, raced against a timeout; a settled run can be
forked. *Hard*: the cancel handle is given back before the flush, so the next run of the
session builds its prompt while the summary is made; several flushes summarize from the
same latest summary; a flush that timed out is still at work. *Correct when*: a summary
is made of all it claims to cover, nothing said is missing from prompt and working
memory, drafts are stored once, a fork knows nothing of the run it replaces.

**Trace sections.** *State*: `trace_sections` rows; the coordinator's pending range,
microtasks and the range being summarized. *Operations*: observe an event, process a
range in chunks, ask a model for a phase, merge or open a section. *Hard*: the sections
are read before the model call and written after it; events arrive meanwhile; a
resumed run has a second coordinator. *Correct when*: no range is left behind, sections
tile the events, stay bounded, and are all completed at the end.

**Data analysis.** *State*: `DataAnalysisState` (schema, semantic context, contract,
current attempt, evidence, requirements, claims), the phase, and the stage of each
tool call. *Operations*: `inspect_schema`, `semantic.context.resolve`,
`analysis.contract.ground`, `data.query.plan`, `data.query.validate`,
`run_sql_readonly`, `analysis.result.validate`, `analysis.evidence.bind`,
`analysis.requirements.commit`, `write_file`. *Hard*: one call of
`run_sql_readonly` is a chain of five actions that all work on the attempt planned
last; the grounder hands back a copy taken before its model call; the guard of a report
file is evaluated awaits before the file is written. *Correct when*: evidence belongs
to the SQL it is bound to, no requirement is reported without it or falls back.

### How the parts interact

A request (`RunLifecycle`) constructs a boundary (`ProtocolSegments`), in which the
router executes the tool calls of the agent; while a data-analysis segment is active,
their reducers are those of `DataAnalysis`. A suspension ends the request but not the
segment, which the resuming request restores. The completion calls the finalizer,
whose status update ends the run for everybody else. Every persisted event passes the
trace coordinator of the request (`TraceSections`). The flush that `ConversationMemory`
takes apart is part of the step `FinalizeCompleted` of `RunLifecycle`, and its claims,
suspensions and cancels are those of `RunLifecycle` with only the row and the handle kept.
The modules meet in few places:
`ProtocolSegments.row` is what the finalizer made of the row, `TraceSections.run` and
`ProtocolSegments.driver` are a request of `RunLifecycle` reduced to whether it drives
the run.

### What is not modelled

| part | why |
|---|---|
| contract grounding, requirement extraction, prompts, provider quirks | text around a model call; its outcome is a choice of the models |
| run assembly, input | reads that prepare a run; preparation that may fail |
| texts, character and token budgets, recall of long-term memories, the modes `off` and `shadow` of the memory | data, or configurations other than the default |
| trace graph, terminal client, docs, scripts, evaluation | display, I/O, or no state of their own |
| data gateway, files, artifacts, knowledge, skills, providers | adapters and I/O |
| datalink service | offline Python; the runtime sees a semantic provider |
| policy and MCP middleware | a filter of one request |
| event pipeline fan-out, checkpoints, session intents, authentication, configuration revisions, `async-memo`, the web client's queue, SQL cache and limits, file collection | planned, see the end |

## The modules

### RunLifecycle

`requests[q]` is the closure of one POST: `stage` says how far its coroutine is
(`unsent`, `preparing`, `registered`, `streaming`, `ended`), `fin` how far its
finalizer (`none`, `completing`, `cancelling`, `closing`, `done`; the code's
`terminalStarted` is `fin # "none"`). `runs`, `interactions` and `events` are the
tables, `registry` the cancel registry. Of the log only what its readers tell apart is
kept: the lifecycle events, the session's title and one entry for whatever a tool call in
flight logs; `background[q]` is what outlives the stream of a request and may log after
it, since `emit` does not look at `terminalStarted`.

| actions | code |
|---|---|
| `RejectConfig`, `Replay`, `Claim`, `Resume`, `Refuse` (together `Submit`) | `resolveRunIdentity`, `resolveLiveSessionActiveRun` and the early failures of `run()` |
| `Register`, `FailEarly`, `StartStream`, `AbortStart` (`Prepare`) | `run()` between the claim and the subscription |
| `Interrupt`, `ToolResult`, `ResultFails`, `ToolCall`, `Finish`, `FinishDeclined`, `RunError`, `RunTimeout`, `CloseStream` (`Stream`) | the subscriber; `ResultFails` is its catch around a resumed answer |
| `TitleSettles`, `ToolSettles` (`Background`) | the title task, and a tool call that ends or was aborted |
| `FinalizeFailed`, `FinalizeCompleted`, `FinalizeCanceled`, `EmitTerminal` (`Finalize`) | `run-finalizer.ts` |
| `CancelByHandle`, `CancelPersistedOnly` | `POST /runs/:id/cancel` |
| `Disconnect`, `Crash`, `Restart` | subscriber teardown; process death; startup reclaim |

The history variable `stolen`, which is not code, holds requests whose row somebody else
wrote.

`RunGovernance` says the same of runs only: `status` and `session` of each row, whether
the server is `working` on the run or `closing` it, which runs are `live` (can be
canceled through a handle) and which are `disturbed` (somebody else wrote the row).
`Governance` in `RunLifecycle` instantiates it: a run is `working` if a request that owns
it neither settled nor canceled it, `live` if it has a handle, `disturbed` if its owner is
`stolen`. So a claim is `Start`, a reclaim, a row-only cancel and a refused duplicate are
`Overrule`, and a disconnect, a crash or a stream that just stops are `Leave` and `Halt`.

### ProtocolSegments

`segs` are the snapshots by segment number, `driver` the closure of the boundary in
the live process, `calls[c].step` the await at which a call stands, `pending` the
journal entries not yet published. Actions of data tools, of other tools, of a handoff
and of the general answer are four names, since admission and reduction tell no more
of them apart here. `Route` is `ActionRouter.execute` from await to await
(`Begin`, `ToolFails`, `ResultRefused`, `ToolSucceeds`, `FailureRecorded`), `Handoff`
the coordinator (`ExtractionFails`, `HandoffRefused`, `HandoffThrows`,
`HandoffAccepted`), `Complete` is `completeProtocolRun`. `Start`, `Flush`, `Suspend`,
`Resume`, `Abort` and `Crash` are what a request does with the boundary. Each step that
publishes events takes a parameter `ok`: whether the sink throws after the commit.

### TraceSections

`sections` is the table keyed by first event; a summary is its phase key, which
decides whether it is merged. `coord[c]` is one coordinator: the merged pending entry,
the microtasks queued, whether it is processing, and the job: the locals of
`summarizeRange`, the section read before the model call among them (`snapshot`).
`Event`, `ContextCompiled` and `Terminate` are `observe`, `LateEvent` what is still logged
after the terminal event; `ProcessRun`,
`ProcessRunAgain`, `NextTurn` and `Summarized` the loop up to and after the model
call; `Suspend`, `Resume` and `Crash` what happens to the request. The sections cover a run
up to its terminal event, in the code as in the model: later events schedule nothing. The
`RUN_ERROR` of an answer that could not be recorded (`server.ts:932`), which forces a
section although the run goes on, is not modelled.

### ConversationMemory

A message is its run and its number in it, 0 for the user's; its position is its index in
`messages[s]`. A summary has the range it is stored under (`from`, `to`), the `first`
position that is part of its id, and `kept`, the positions it was really made of: those
the model or the fallback was given, and those of the summary before. `mirror[s]` is what
the working memory of the thread summarizes, so that "is it remembered" is a question
about sets of positions.

| actions | code |
|---|---|
| `Claim`, `Synced`, `PrepareFails`, `Start`, `Resume` | `createRunMemoryAssembly` up to and after the mirroring of the latest summary, then the agent's start |
| `Refuse` | `persistEarlyFailedUserMessage` |
| `Observe`, `Suspend`, `CancelOrFail`, `Abandon`, `FinishDeclined`, `Finish` | the observer, and the ways a stream ends with their treatment of drafts |
| `CancelOrphan` | the cancel endpoint without a handle |
| `BeginFlush`, `Summarized`, `Mirrored`, `Extracted`, `Timeout` | `flushCompletedMemoryWithTimeout`: the flush from await to await, its abortion |
| `Fork` | `createSessionBranch` |
| `Crash` | process death |

`lost` and `gapped` are history: runs whose drafts were dropped, sessions in which more
messages than the load limit were waiting when a summary was made.

### DataAnalysis

One active data-analysis segment. `domain` is the state the reducers work on,
`calls[c].at` the governed action a call is before or in, or `"contract"`,
`"resolved"`, `"ran"` between two of them. `Reductions` holds one operator per case of
`reduceDataAnalysisAction`; `Begin`, `Succeed`, `Fail` are the router's, `Enter` a
tool call up to its first action, `AssertContract`, `AutomateGrounding`,
`AutomateEvidence` the code between actions, `ProposeCompletion` the decision. The
history variable `overlapped` remembers that two inspections, or two queries, were in
flight at once.

## The runs

| run | expects | shows | distinct states |
|---|---|---|---|
| `run_safety` | pass | ownership of runs, handles, rows and sessions; who may change a settled row; implements `RunGovernance` | 578,033 |
| `run_liveness` | pass | the log tells one outcome and one end, whatever is logged late; a cancel accepted by a handle settles the run | 562,703 |
| `run_settled` | violation | the status of a settled run is replaced by another one | |
| `protocol_safety` | pass | segments, actions and completion | 1,727,563 |
| `protocol_liveness` | pass | admitted actions and completions settle | 203,851 |
| `protocol_resumed` | violation | a resumed run cannot finish | |
| `trace_safety` | pass | sections tile, are bounded and completed | 204,980 |
| `trace_overlap` | violation | a late write reopens a section of a finished run | |
| `data_safety` | pass | evidence, claims and reports | 626,360 |
| `data_overlap` | violation | SQL is admitted on another call's verdict | |
| `memory_safety` | pass | summaries, forks, drafts, prompts, aborted flushes | 3,029,238 |
| `memory_stale` | violation | a prompt leaves out messages the working memory does not have | |

### Bounds, and why they are enough

- `run_safety`: three requests, two runs, two sessions, one body, one interrupt, one
  crash. A claim, its rival and a third party that cancels, resumes or repeats one of
  them are three requests; a run of another session needs the second session. A second
  body would only add refusals, which one body reaches by another session or another
  call. `ReclaimLimit = 1` is below the two runs, so that the limit is met.
  `MaxExtra = 0` leaves out what outlives a stream, which only logs.
- `run_liveness` uses two requests and one session, as liveness is checked without
  symmetry, and `MaxExtra = 1`: at any time the log of a run has one entry, or one task in
  flight that may still log one, that is a title, an aborted tool call or an answer that
  failed. That such an entry comes after any ending, or before it, takes one;
  `OutcomesAreLoggedOnce` proves it for any number of them. In one session a claim settles
  the orphans before it, so at most one waits for a restart; with two sessions and
  `ReclaimLimit = 1` the older of two orphans stays `running` (see below), so the run
  assumes no more orphans than the limit, 500 in the code.
- `run_settled` and the violation runs of the other modules need a run and one rival.
- `protocol_safety`: three calls, three segments, a budget of three actions, two
  drivers, one fault. A handoff, a call in flight during it and a rejected call are
  three; three segments allow a return to the protocol a late call began in; the budget
  is met by three calls and the answer. `protocol_liveness` takes two of each.
- `trace_safety`: up to six events, two coordinators, one crash, a check every second
  context step, chunks of one and sections of two steps, so that chunking, merging,
  the limit and the put-back of an unfinished range all occur within six events.
  `trace_overlap` has the limits of the code (3, 3 and 16) and eleven events.
- `data_safety`: one inspection, two queries, one commit, one report file, two
  requirements of which one demands a value, two calls at once. Two queries are what it
  takes to mix attempts; two requirements to be reported in different states. With a
  single inspection two groundings cannot overlap; the properties exclude that case by
  `~overlapped`, and the theorems cover any number of inspections one after another.
- `memory_safety`: three runs, a session and a fork of it, one assistant message per run,
  two runs at work at once, one mishap (a crash, a refusal, a failure, a cancel, a
  suspension, a client that leaves, a message that is sent again, a mirroring that
  fails). A flush, the run that is claimed during it and the one that reads what both
  left are three; messages of two runs reach the trigger (2), one is kept out of the
  summary (1), and the load and history limits (3) are below the number of messages the
  runs store, so that a backlog beyond the window occurs. `completed`, `failed` and
  `canceled` are one status, since nothing there tells them apart, and the order of
  messages that one flush appends is chosen once. `memory_stale` needs neither forks nor
  mishaps.
- Deadlock is not checked: a run stops when it is settled, suspended with nobody to
  resume it, or its agent stops calling tools.
- Symmetry is used for safety only, on sets of model values no operator orders.

Every property of a passing run has a mutant, a defined variant of one mapped
definition (an omitted guard, a dropped reset, an off-by-one), under which TLC finds it
violated. Mutant operators stand directly before the definition they vary.

### Fairness

- `RunLifecycle`: weak fairness of `Prepare` and `Finalize` of each request and of
  `Restart`. Every await of preparation and finalization is bounded by a timeout or
  caught, and a supervisor restarts the process. Nothing is assumed of the agent's
  stream, which may go on for ever, nor of clients.
- `ProtocolSegments`: weak fairness of `Route` and `Handoff` of each call and of
  `Complete`: every promise the router awaits settles, as tools and models are bounded
  by timeouts. Nothing makes the agent finish or the run be resumed.
- `TraceSections`: weak fairness of `Summarize` of each coordinator: microtasks run,
  and a model call answers or exhausts its attempts.
- `DataAnalysis` and `ConversationMemory` state no liveness: a query or a flush settles
  because its awaits do, which is `AdmittedActionsSettle` and, with the timeout,
  `CancelSettles` again.

## The proofs

| module | inductive invariant | theorems |
|---|---|---|
| `RunLifecycle_proofs` | `TypeOK`, `SentNamed`, `HandleOwnership`, `HandlesKept`, `OneOwnerPerRun`, `OwnedRows`, `DownIsIdle`, `SuspendedIsPending`, `FinishedIsSettled`, `WorkerRowIsRunning`, `ExclusiveUnlessStolen` | types, handles, one owner, suspensions, session exclusion, worker rows, `SettledChangesExplained`, `CancelsLand` |
| | with it: `OneSpeaker`, `OutcomeIsSilent`, `OutcomeIsSettled`, `ClosingAwaits` | `OutcomeIsLoggedOnce` |
| `RunRefinement_proofs` | that of `RunLifecycle_proofs` | `Refinement`: `Spec => ImplementsGovernance` |
| `RunGovernance_proofs` | `TypeOK`, `Exclusive` | `PromiseKept`: of the runs in work in a session at most one was left alone |
| `ProtocolSegments_proofs` | (1) `TypeOK`, `Chain`, `Records`, `BudgetHolds`, `Completion`, `CompletedIsDecided` | types, chain of segments, budget, decisions, `ActionsSettleOnce`, `EndedSegmentsStayEnded` |
| | (2) with (1): `Roles`, `Inspections`, `Unlaundered`, `Deferred`, `StrictSegmentsEndResolved` | `StrictSegmentsEndResolved`, `RejectionsFailTheRun`, `CompletedIsDelivered` |
| | (3) with (1), (2): `OpenActionsAreRunning`, `AnswerIsUnderWay` | `OpenActionsAreRunning`, `CompletionGoesOn` |
| `TraceSections_proofs` | `TypeOK`, `EntriesAreServed`, `SectionsTile`, `OnlyLastIsOpen`, `SectionsAreBounded`, `Ranges`, `Terminals`, `Alone`, `ReadsAreCurrent`, `ChunksAreBounded`, `Duty` | types, entries, tiling, closed sections, limits, `FinishedIsComplete` |
| `DataAnalysis_proofs` | `TypeOK`, `CallKinds`, `Alone`, `PlannedOnce`, `ClaimsAreEvidenced`, `ClonesAreEvidenced`, `EarlyPhases`, `GroundingIsCurrent`, `ReportsWait`, `QueriesAreCurrent`, `EvidenceIsOwn`, `CurrentIsBacked`, `DecidedIsIdle`, `CompletedIsBacked` | types, evidence, contracts, claims, reports, completions, `RequirementsAdvance` |
| `ConversationMemory_proofs` | `TypeOK`, `Idle`, `SessionsGrow`, `RowsAreHome`, `UserFirst`, `BranchesAreHome`, `ForksAreClean`, `SummariesAreWhole`, `PendingIsWhole`, `AbortedIsOver`, `RowsOnce`, `StoredOrDrafted` | types, summaries, forks, drafts, `AbortedFlushIsSilent`, `ConversationIsSeen` |

Each theorem holds for every value of the constants that satisfies the assumptions of
the module: sets of calls and requirements are finite, names are distinct, bounds are
natural numbers. The conjuncts of an inductive invariant that are not properties of a run
were found by checking them with TLC on the instances of the runs.

*Why strengthen.* In `RunLifecycle` the property `OneOwnerPerRun` says nothing of why a
resume finds no owner; that is `OwnedRows` (an owner's row is never suspended), and
`FinishedIsSettled` rules out that a run whose `RUN_FINISHED` is out, or about to go
out, is suspended again. `OutcomeIsLoggedOnce` rests on four parts: of a run's requests one
at most may still log an outcome or an end (`OneSpeaker`), once an outcome is logged only
the one that is about to log the end (`OutcomeIsSilent`), the row is settled then, so that
nobody resumes the run (`OutcomeIsSettled`), and the end it will log follows a completion
or a cancel (`ClosingAwaits`); what a background task logs is neither. In `ProtocolSegments` the
chain survives late handoffs only because no segment before the last is active (`Chain`)
and a call whose tool runs has an open record (`Records`); the completion is safe because nothing is in flight when it
begins (`Completion`). That a strict segment stays resolved when a late result is reduced
into it needs to know that a schema was inspected only by a data action that succeeded in
that segment (`Inspections`); that a refused data action is not completed away, that
nothing refuses one after completeProtocolRun has looked (`Unlaundered`); that the journal
is delivered, that an event is left behind only before the stream starts (`Deferred`).
In `TraceSections` a coordinator reads the sections, awaits the model and writes: tiling is
safe because no other coordinator is at work (`Alone`) and what it read still holds then
(`ReadsAreCurrent`), the limit because a chunk has a context step unless it ends the run,
and never more than `ChunkSteps` of them (`ChunksAreBounded`), and completion because the
forced range of an ended run is pending, in work or done with (`Terminals`, `Duty`).
In `DataAnalysis` a reducer works on the attempt planned last,
so the proof carries, for every stage of a query, that the attempt planned last is
its own (`QueriesAreCurrent`); a grounding replaces all statuses by a copy, so it
carries that a copy which may still be grounded equals the original, since until then
the phase admits no action that could change it (`GroundingIsCurrent`, `EarlyPhases`),
and that even a stale copy says nothing the claims do not bear out
(`ClonesAreEvidenced`). In `ConversationMemory` a summary is whole only because the one a
flush is still writing is (`PendingIsWhole`): it was computed from the latest summary and
the rows of an earlier moment, and since rows are only appended and every summary before
it starts at 1, whatever was stored meanwhile does not make it less so. A
fork is clean because a run's rows stay in its own session (`RowsAreHome`,
`BranchesAreHome`) and its user message, if it has one, comes first (`UserFirst`).

*Refinement.* `RunRefinement_proofs` maps every action of `RunLifecycle`, under its
inductive invariant, to an action of `RunGovernance` or a stutter, one lemma per action.

*Layout.* Lemmas about the operators first, then one lemma per action that it keeps the
invariant, then the theorems.

*Induction over data.* Two proofs need a fact of every number. A chunk ends before the
first event beyond its steps (`TraceSections`, where the proof carries the cardinality of
the context steps of an interval), and `Inherited` of `ConversationMemory` is a function
that recurses over a session's ancestors, which has to exist before its value can be
reasoned about. The library's induction rules take a predicate as parameter and cannot be
used; both proofs take instead a least counterexample, which exists because the order of
the numbers is well-founded (`Least`, `LeastNumber`). `ConversationSeen` follows: what
precedes a new run is in its prompt, or in the working memory that its summary was
mirrored into, through every ancestor.

*Liveness.* `CancelSettles`, `AdmittedActionsSettle`, `CompletionSettles` and
`TerminalCompletes` are model-checked only: fairness and ENABLED are out of the prover's
reach. For each of them the safety part is proved, that is, that what is owed is never
dropped and that a step towards it remains:

| liveness, checked by TLC | proved |
|---|---|
| `CancelSettles` | `CancelsAreNotDropped`: a request leaves the state "cancelling" only by the write of the row as canceled or with the process |
| `AdmittedActionsSettle` | `OpenActionsAreServed`: an open action has its call at work in its segment, or was lost with the process, unless a sink threw |
| `CompletionSettles` | `CompletionsGoOn`: a completion has a live process and nothing of the router in its way, and when it is over the row has settled |
| `TerminalCompletes` | `RestMeansComplete`: a coordinator of an ended run that has no work left has completed the sections |

Every other property of a passing run is stated by a theorem.

## What the code does differently from what is said of it

Each is a run whose counterexample TLC finds; `PROJECT.json` quotes the statement.

1. `run_settled`: the finalizer "Owns terminal run state transitions", but an active row
   "without a cancel handle" is taken for an orphan, while a run has no handle as long as
   it prepares (`stale-active-runs.ts:40`). The counterexample: a request claims a run and
   prepares; a second request of the session claims another run and cancels the first
   one's row; the preparation of the first one fails and its catch writes `failed` over
   `canceled`, while the second run is at work. Two more writers outside the finalizer do
   the same and are not in the counterexample, but among the causes that
   `SettledChangesExplained` lists: a cancel that finds no handle updates the row and
   answers `canceled: true` (`config-api.ts:1795`); a refused request writes `failed` over
   the row it names, also over a completed one (`server.ts:128`).
2. `protocol_resumed`: a resumed request has a context package of its own, the restored
   segment keeps the old one, and every action is refused for its lineage
   (`protocol-runtime.ts:465`).
3. `trace_overlap`: a coordinator that outlives its request reopens a section the next
   one completed (`trace-section-coordinator.ts:212`).
4. `data_overlap`: with two queries at once, one is validated by the other's SQL
   (`protocols/data-analysis.ts:317`).
5. `memory_stale`: a run mirrors the latest summary, awaits, and builds its prompt from the
   summary that is the latest then; if the flush of the run before stored and mirrored a
   newer one meanwhile, the older one overwrites it in the working memory, and the
   messages in between are neither there nor in the prompt (`conversation-memory.ts:229`).

Met while modelling, with no run of their own, as nothing in the repository says otherwise
or, for the first, as the code and a test disagree:

- the task that titles the session is not awaited, so that its `session.title` may be
  persisted after `RUN_FINISHED`, and a replay then ends with it. The comment at
  `server.ts:1022` says so; `scripts/smoke-copilotkit-run.mjs:279`, `:455` and `:468` expect
  `RUN_FINISHED` last;
- an SQL call that the timeout or a cancel aborts logs its failed step after the run's
  `RUN_ERROR` or `canceled` (`data-tools.ts:260`), and an answer that cannot be recorded
  logs a `RUN_ERROR` of a run that goes on to complete (`server.ts:932`);
- a startup reclaims the 500 active rows that started last; a run canceled through its
  handle just before the process died stays `running` if it is not among them, until a
  request of its session (`packages/metadata/src/index.ts:1922`);
- the terminal event is logged after an await that follows the status update: a replay
  in between has no end (`run-finalizer.ts:102-110`);
- a route correction looks at succeeded data actions only, so that one in flight
  succeeds in the aborted segment (`protocol-handoff-coordinator.ts:132`);
- journal entries of a run that is reclaimed are never delivered
  (`protocol-event-recovery.ts:15`);
- a finalizer that throws leaves a failed run with a completed segment
  (`protocol-run-completion.ts:107`);
- a semantic context that changes after the phase `semantic_grounding` un-grounds the
  contract, and no later phase admits grounding: such a run ends partial
  (`protocols/data-analysis.ts:236`);
- a client that disconnects while the run prepares leaves the row `running` until the
  next claim of the session or the next start (`server.ts:1074`);
- after a crash nobody completes the section that was open;
- a run that was resumed with an answer of `false` drops the drafts of what it streamed
  since (`run-finalizer.ts:48`);
- when more messages than the load limit wait for a summary, the oldest are in no
  summary, although the range it is stored under covers them
  (`conversation-memory.ts:519`);
- a run that stored no message forks at the start of its session
  (`session-branching.ts:197`);
- a run that stores two assistant messages makes the prompt of the next one have two in a
  row.

## Assumptions

- One process, synchronous SQLite: a repository call and the code up to the next await
  are one step; a compare-and-set on a revision cannot fail. Two processes on one
  database are not modelled.
- An interrupt of the agent library arrives after the other tool calls of its step have
  settled, so a suspended run has no call in flight.
- The agent library interrupts a tool call only before it has a result (`MayInterrupt`):
  the code would suspend a run also on an interrupt of an answered call, and nobody could
  resume it, since `interactions.request` leaves an existing row as it is.
- The agent library ends a run by `RUN_FINISHED` after its tool calls (`ToolsSettled`); an
  error, the timeout and a cancel come with calls in flight.
- How many tool calls run at once is the library's decision; the models allow any number
  up to a constant. The properties of `DataAnalysis` that fail when queries overlap say
  so by `~overlapped`, and `data_overlap` shows why.
- Action ids are unique per tool call, so the memo of idempotent results never answers.
- A SQL text is sound, unsound (it violates an assertion of its requirements) or invalid
  in itself; a verification passes or fails. The parser's and the verifier's reading of
  a text are not modelled, and a result that fails for its structure is one that fails; the
  values an invalid result verified are recorded all the same, as any choice of them.
- An artifact is named after the call that produced it. A semantic provider is
  configured. A claim may name any requirement as a source. Links between tasks and
  requirements are left out.
- In `ConversationMemory`, `Start` is the registration of the handle, the await of the
  thread (`server.ts:801-817`), the agent's start and its first compiled context in one
  step, and `Synced` the write of the working memory together with the continuation that
  builds the prompt (`conversation-memory.ts:229-239`, `run-memory-assembly.ts:120-131`):
  a flush that stores a summary or mirrors it in between does so, in the model, before or
  after the whole step, with the same outcome.
- Exceptions of the metadata store itself are not modelled, except as sinks that throw.

## The plan

Done: the five modules above, the proofs of all of them, the abstract governance and its
refinement.

1. *The web client.* `data-tasks-app.tsx` queues prompts while a run is at work, and
   unlocks a session that a foreign run holds by canceling it. A listing of runs that
   failed, or a local request in flight, counts as "not foreign" (`data-tasks-app.tsx:521`,
   `:550`); two prompts submitted during that check are both sent; a queued prompt that is
   refused while the queue goes on has its dialog overwritten by the next one. The module
   would compose the queue with `RunGovernance` in the place of the server.
2. *Events.* The pipeline's fan-out, the tool-call bridge, checkpoints and replay: what a
   client that reconnects sees, in which order, and that it ends.
3. *Interactions.* Parallel answers, declines, fingerprints; what a resume finds.
4. *Sessions.* Intent revisions and their conflict with a handoff; deletion while a run is
   active.
5. *Bounded resources.* The SQL cache and execution limit, `async-memo`, login codes and
   sessions, file collection, configuration revisions and interrupted jobs.
6. *Proofs.* The hypothesis `faults = 0` of several properties of `ProtocolSegments` is
   wider than needed: which of them survive a sink that throws in another segment. The
   properties of `DataAnalysis` under overlapping inspections.
