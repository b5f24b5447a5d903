-------------------------- MODULE ProtocolSegments --------------------------
(***************************************************************************)
(* One run under protocol governance (packages/agent-runtime): its chain   *)
(* of protocol segments, the actions recorded in them, and the process     *)
(* that drives them.  Tool calls of one agent step run in parallel and     *)
(* each goes through ActionRouter.execute; a handoff replaces the runtime  *)
(* the router uses while other calls are between two of their awaits.      *)
(*                                                                         *)
(* The store is synchronous SQLite in one process: a get and the           *)
(* compare-and-set that follows it are one step, so a revision conflict    *)
(* cannot occur and the retry loop of commitWithRetry runs once.           *)
(***************************************************************************)
EXTENDS Naturals, FiniteSets

CONSTANTS
  Calls,        \* tool calls of the agent, each made at most once
  AnswerCall,   \* the action id `${runId}:general-answer-commit`
  MaxSegments,  \* bound on protocol segments
  MaxActions,   \* maxActions of the runtime options
  MaxDrivers,   \* bound on processings of the run: one start, then resumes
  MaxFaults     \* bound on event sinks that throw after a commit

ASSUME CallsAssumption == IsFiniteSet(Calls) /\ AnswerCall \notin Calls
ASSUME BoundsAssumption ==
  /\ MaxSegments \in Nat \ {0} /\ MaxActions \in Nat
  /\ MaxDrivers \in Nat \ {0} /\ MaxFaults \in Nat

Ids == Calls \cup {AnswerCall}
Segments == 1..MaxSegments
Protocols == {"general-task", "data-analysis"}

\* "data" stands for the data actions with their automatic actions, "work" for every
\* other tool; the phases of data-analysis after scope are one, "grounded".
Names == {"data", "work", "handoff", "answer"}
Phases == {"understand", "gather", "answer", "scope", "grounded"}

\* Two reason codes of a rejection are told apart: "rejected" is
\* ACTION_NOT_ALLOWED_IN_PHASE, "refused" the budget, a guard or the policy.
Settled == {"succeeded", "failed", "rejected", "refused"}

VARIABLES
  segs,     \* protocol_state_snapshots of the run, by segment number
  last,     \* number of segments; 0 before the run starts
  driver,   \* the closure of createRunProtocolBoundary in the live process
  calls,    \* where each tool call stands in ActionRouter.execute
  row,      \* runs.status
  final,    \* progress of completeProtocolRun
  pending,  \* protocol_event_journal entries with published_at NULL, by commit
  faults

vars == <<segs, last, driver, calls, row, final, pending, faults>>

Domain == [answered : BOOLEAN, inspected : BOOLEAN, resolved : BOOLEAN]
NoDomain == [answered |-> FALSE, inspected |-> FALSE, resolved |-> FALSE]

Segment ==
  [protocol : Protocols, phase : Phases, revision : Nat, package : Nat, domain : Domain,
   status : {"absent", "active", "handed_off", "aborted", "terminal"},
   decision : {"none", "completed", "partial", "failed"},
   actions : [Ids -> {"none", "requested"} \cup Settled]]

InitialPhase(p) == IF p = "general-task" THEN "understand" ELSE "scope"

NewSegment(p, package) ==
  [protocol |-> p, phase |-> InitialPhase(p), revision |-> 0, package |-> package,
   domain |-> NoDomain, status |-> "active", decision |-> "none",
   actions |-> [c \in Ids |-> "none"]]
Absent == [NewSegment("general-task", 0) EXCEPT !.status = "absent"]

Driver == [up : BOOLEAN, number : Nat, seg : Nat, correctable : BOOLEAN, ready : BOOLEAN]
NoDriver == [up |-> FALSE, number |-> 0, seg |-> 0, correctable |-> FALSE, ready |-> FALSE]

Steps == {"unused", "entered", "running", "faulted", "extracting", "switching",
          "returned", "threw", "lost"}
Call == [name : Names, seg : Nat, target : Protocols, step : Steps]
NoCall == [name |-> "work", seg |-> 0, target |-> "general-task", step |-> "unused"]

InFlight == {c \in Ids : calls[c].step \notin {"unused", "returned", "threw", "lost"}}

\* No call is in the middle of a block of code without awaits.
Quiet == \A c \in Ids : calls[c].step \notin {"faulted", "switching"}

\* The definition the router's runtime holds: activeProtocolId.
ActiveProtocol == segs[driver.seg].protocol

-----------------------------------------------------------------------------
(* The definitions of the two protocols.                                    *)

Allowed(p, phase) ==
  CASE p = "general-task" /\ phase \in {"understand", "gather"} -> {"work", "handoff", "answer"}
    [] p = "data-analysis" /\ phase \in {"scope", "grounded"} -> {"data", "work", "handoff"}
    [] OTHER -> {}

\* Mutant: results are reduced whatever protocol is active.
Reductions_AnyProtocol(p, d, name) ==
  {e \in Domain :
     /\ e.answered = (d.answered \/ name = "answer")
     /\ IF name = "data"
        THEN (d.inspected => e.inspected) /\ (e.resolved => e.inspected)
        ELSE e.inspected = d.inspected /\ e.resolved = d.resolved}

\* What the reducer of protocol p may make of domain d: a data action inspects the
\* schema or not, and leaves the goals of the analysis resolved or not.
Reductions(p, d, name) ==
  {e \in Domain :
     /\ e.answered = (d.answered \/ (p = "general-task" /\ name = "answer"))
     /\ IF p = "data-analysis" /\ name = "data"
        THEN (d.inspected => e.inspected) /\ (e.resolved => e.inspected)
        ELSE e.inspected = d.inspected /\ e.resolved = d.resolved}

NextPhase(p, phase, name, d) ==
  CASE name \notin Allowed(p, phase) -> phase
    [] p = "general-task" /\ name = "answer" -> "answer"
    [] p = "general-task" /\ phase = "understand" -> "gather"
    [] p = "data-analysis" /\ d.inspected -> "grounded"
    [] OTHER -> phase

\* completionPolicy, with forceTerminal turning an unmet policy into "partial".
GoalsMet(g) == IF g.protocol = "general-task" THEN g.domain.answered ELSE g.domain.resolved
\* Mutant: forceTerminal decides "completed".
Decision_Forced(g) == "completed"
Decision(g) == IF GoalsMet(g) THEN "completed" ELSE "partial"

\* Mutant: only the actions in flight count against maxActions.
Begun_InFlight(g) == {c \in Ids : g.actions[c] = "requested"}
Begun(g) == {c \in Ids : g.actions[c] # "none"}
WithStatus(g, c, status) == [g EXCEPT !.actions = [g.actions EXCEPT ![c] = status]]
Bumped(g) == [g EXCEPT !.revision = @ + 1]

\* Mutants: a failure is recorded over any record, or never.
Failed_Unconditional(g, c) == Bumped(WithStatus(g, c, "failed"))
Failed_Never(g, c) == g

\* recordActionFailure: settled records are left alone (its throw is swallowed).
Failed(g, c) == IF g.actions[c] = "requested" THEN Bumped(WithStatus(g, c, "failed")) ELSE g

\* latestContextPackageRef refuses a result of another ContextPackage lineage.
SameLineage(g) == g.package = driver.number

-----------------------------------------------------------------------------
(* Commits: the snapshot and its events in one transaction, then the events *)
(* are emitted and acknowledged, or the sink throws (ok is FALSE).          *)

Publish(commits, ok) ==
  IF ok /\ driver.ready
  THEN UNCHANGED <<pending, faults>>
  ELSE /\ pending' = pending \cup commits
       /\ IF ok THEN UNCHANGED faults ELSE faults < MaxFaults /\ faults' = faults + 1

Commit(s, g, ok) ==
  /\ segs' = [segs EXCEPT ![s] = g]
  /\ Publish({<<s, g.revision>>}, ok)

At(c, step) == [calls[c] EXCEPT !.step = step]
Goes(c, step) == calls' = [calls EXCEPT ![c] = At(c, step)]
Came(ok) == IF ok THEN "returned" ELSE "threw"

-----------------------------------------------------------------------------
(* The driver.                                                              *)

Init ==
  /\ segs = [s \in Segments |-> Absent]
  /\ last = 0
  /\ driver = NoDriver
  /\ calls = [c \in Ids |-> NoCall]
  /\ row = "running"
  /\ final = "no"
  /\ pending = {}
  /\ faults = 0

\* A new run is routed and its first segment created; its events are deferred.
Start ==
  /\ last = 0
  /\ \E p \in Protocols, correctable \in BOOLEAN :
       /\ correctable => p = "data-analysis"
       /\ segs' = [segs EXCEPT ![1] = NewSegment(p, 1)]
       /\ driver' = [up |-> TRUE, number |-> 1, seg |-> 1,
                     correctable |-> correctable, ready |-> FALSE]
  /\ last' = 1
  /\ pending' = {<<1, 0>>}
  /\ UNCHANGED <<calls, row, final, faults>>

\* Mutant: the deferred events are emitted but not acknowledged.
Flush_Unacknowledged ==
  /\ driver.up /\ ~driver.ready /\ row = "running" /\ final = "no"
  /\ driver' = [driver EXCEPT !.ready = TRUE]
  /\ UNCHANGED <<segs, last, calls, row, final, pending, faults>>

\* RUN_STARTED reaches the stream: flushProtocolEvents.
Flush ==
  /\ driver.up /\ ~driver.ready /\ row = "running" /\ final = "no"
  /\ driver' = [driver EXCEPT !.ready = TRUE]
  /\ pending' = {}
  /\ UNCHANGED <<segs, last, calls, row, final, faults>>

\* The agent suspends once the tool calls of its step have ended.
Suspend ==
  /\ driver.up /\ driver.ready /\ row = "running" /\ final = "no"
  /\ InFlight = {}
  /\ row' = "suspended"
  /\ driver' = [driver EXCEPT !.up = FALSE]
  /\ UNCHANGED <<segs, last, calls, final, pending, faults>>

\* An answered interaction drives the run again: the journal is replayed, the latest
\* segment restored, and a ContextRunState with a package id of its own created.
Resume ==
  /\ row = "suspended" /\ driver.number < MaxDrivers
  /\ driver' = [up |-> TRUE, number |-> driver.number + 1, seg |-> last,
                correctable |-> FALSE, ready |-> FALSE]
  /\ row' = "running"
  /\ pending' = {}
  /\ UNCHANGED <<segs, last, calls, final, faults>>

\* RUN_ERROR, a timeout, a cancel, or the end of a run whose plan was declined.
Abort ==
  /\ driver.up /\ row = "running" /\ final = "no" /\ Quiet
  /\ row' \in {"failed", "canceled"}
  /\ final' = "done"
  /\ UNCHANGED <<segs, last, driver, calls, pending, faults>>

\* The process ends; at startup the row it was driving is reclaimed.
Crash ==
  /\ driver.up
  /\ driver' = [driver EXCEPT !.up = FALSE]
  /\ calls' = [c \in Ids |-> IF c \in InFlight THEN At(c, "lost") ELSE calls[c]]
  /\ row' = IF row = "running" THEN "canceled" ELSE row
  /\ final' = "done"
  /\ UNCHANGED <<segs, last, pending, faults>>

-----------------------------------------------------------------------------
(* ActionRouter.execute, from one await to the next.                        *)

\* Mutant: a tool may still be called while the run completes.
Enter_Finishing(c) ==
  /\ driver.up /\ driver.ready /\ row = "running" /\ Quiet
  /\ calls[c].step = "unused"
  /\ calls' = [calls EXCEPT ![c] = [name |-> "work", seg |-> driver.seg,
                                   target |-> "general-task", step |-> "entered"]]
  /\ UNCHANGED <<segs, last, driver, row, final, pending, faults>>

\* A governed tool is called: it reads the segment id and awaits the checks.
Enter(c) ==
  /\ driver.up /\ driver.ready /\ row = "running" /\ final = "no" /\ Quiet
  /\ calls[c].step = "unused"
  /\ \E name \in Names \ {"answer"}, target \in Protocols :
       calls' = [calls EXCEPT ![c] = [name |-> name, seg |-> driver.seg,
                                      target |-> target, step |-> "entered"]]
  /\ UNCHANGED <<segs, last, driver, row, final, pending, faults>>

\* What becomes of an action of segment g: a data action is admitted in some phases of
\* data-analysis only, under guards.
Admissions(g, name) ==
  IF Cardinality(Begun(g)) >= MaxActions THEN {"refused"}
  ELSE IF name \notin Allowed(ActiveProtocol, g.phase) THEN {"rejected"}
  ELSE IF name = "data" THEN {"requested", "rejected", "refused"} ELSE {"requested"}

\* beginAction, or the recorded rejection of an action the state does not admit.
Begin(c, ok) ==
  /\ driver.up /\ Quiet
  /\ calls[c].step = "entered"
  /\ \E status \in Admissions(segs[calls[c].seg], calls[c].name) :
       /\ Commit(calls[c].seg, Bumped(WithStatus(segs[calls[c].seg], c, status)), ok)
       /\ Goes(c, IF ok /\ status = "requested" THEN "running" ELSE "threw")
  /\ UNCHANGED <<last, driver, row, final>>

\* The tool throws; the actions the runtime itself executes return their input.
ToolFails(c, ok) ==
  /\ driver.up /\ Quiet
  /\ calls[c].step = "running" /\ calls[c].name \in {"data", "work"}
  /\ Commit(calls[c].seg, Failed(segs[calls[c].seg], c), ok)
  /\ Goes(c, "threw")
  /\ UNCHANGED <<last, driver, row, final>>

\* The result of another lineage is refused after the tool has run.
ResultRefused(c, ok) ==
  /\ driver.up /\ Quiet
  /\ calls[c].step = "running"
  /\ ~SameLineage(segs[calls[c].seg])
  /\ Commit(calls[c].seg, Failed(segs[calls[c].seg], c), ok)
  /\ Goes(c, "threw")
  /\ UNCHANGED <<last, driver, row, final>>

\* Mutant: the new snapshot is written as active.
Succeeded_Reopens(g, c, d) ==
  Bumped([WithStatus(g, c, "succeeded") EXCEPT !.domain = d, !.status = "active"])

Succeeded(g, c, d) ==
  Bumped([WithStatus(g, c, "succeeded") EXCEPT
            !.domain = d, !.phase = NextPhase(ActiveProtocol, g.phase, calls[c].name, d)])

\* recordActionSuccess; a handoff proposal goes on to afterAction, which awaits the
\* extraction of requirements only when the target is data-analysis.
ToolSucceeds(c, ok) ==
  /\ driver.up /\ Quiet
  /\ calls[c].step = "running"
  /\ SameLineage(segs[calls[c].seg])
  /\ \E d \in Reductions(ActiveProtocol, segs[calls[c].seg].domain, calls[c].name) :
       Commit(calls[c].seg, Succeeded(segs[calls[c].seg], c, d), ok)
  /\ Goes(c, IF ~ok THEN "faulted"
             ELSE IF calls[c].name # "handoff" THEN "returned"
             ELSE IF calls[c].target = "data-analysis" THEN "extracting" ELSE "switching")
  /\ UNCHANGED <<last, driver, row, final>>

\* A sink threw after the success was committed: the router records a failure.
FailureRecorded(c) ==
  /\ driver.up
  /\ calls[c].step = "faulted"
  /\ Commit(calls[c].seg, Failed(segs[calls[c].seg], c), TRUE)
  /\ Goes(c, "threw")
  /\ UNCHANGED <<last, driver, row, final>>

-----------------------------------------------------------------------------
(* afterAction of a handoff proposal: ProtocolHandoffCoordinator.handoff.   *)

\* The model call that extracts the requirements throws.
ExtractionFails(c) ==
  /\ driver.up /\ Quiet
  /\ calls[c].step = "extracting"
  /\ Goes(c, "threw")
  /\ UNCHANGED <<segs, last, driver, row, final, pending, faults>>

Coordinates(c) ==
  /\ driver.up
  /\ calls[c].step = "switching" \/ (calls[c].step = "extracting" /\ Quiet)

Current == segs[driver.seg]

RouteCorrection(c) ==
  /\ driver.correctable
  /\ Current.protocol = "data-analysis" /\ Current.phase = InitialPhase("data-analysis")
  /\ calls[c].target = "general-task"

DataSucceeded(g) == \E c \in Ids : calls[c].name = "data" /\ g.actions[c] = "succeeded"

\* evaluateProtocolHandoff and isSafeRouteCorrection; both protocols are authorized.
Refused(c) ==
  \/ RouteCorrection(c) /\ DataSucceeded(Current)
  \/ Current.protocol = calls[c].target
  \/ /\ Current.protocol = "data-analysis" /\ ~GoalsMet(Current)
     /\ ~RouteCorrection(c)

HandoffRefused(c, ok) ==
  /\ Coordinates(c) /\ Refused(c)
  /\ Commit(driver.seg, Bumped(Current), ok)
  /\ Goes(c, "threw")
  /\ UNCHANGED <<last, driver, row, final>>

\* PROTOCOL_HANDOFF_SOURCE_NOT_ACTIVE, or another run of the session has moved the
\* intent head and the transaction is rolled back.
HandoffThrows(c) ==
  /\ Coordinates(c) /\ ~Refused(c)
  /\ Goes(c, "threw")
  /\ UNCHANGED <<segs, last, driver, row, final, pending, faults>>

\* Mutants: the closure keeps the old segment, or moves past the new one.
Switched_Never(s, ok) == driver
Switched_Past(s, ok) == [driver EXCEPT !.seg = IF ok THEN s + 1 ELSE @]

\* The segment ends and the next one starts in one transaction; then the closure is
\* moved to it, unless the sink has thrown.
Switched(s, ok) == [driver EXCEPT !.seg = IF ok THEN s ELSE @]

Ended(c) ==
  [Bumped(Current) EXCEPT !.status = IF RouteCorrection(c) THEN "aborted" ELSE "handed_off"]
Successor(c) == NewSegment(calls[c].target, Current.package)

HandoffAccepted(c, ok) ==
  /\ Coordinates(c) /\ ~Refused(c)
  /\ Current.status = "active" /\ last < MaxSegments
  /\ segs' = [segs EXCEPT ![driver.seg] = Ended(c), ![last + 1] = Successor(c)]
  /\ Publish({<<driver.seg, Ended(c).revision>>, <<last + 1, 0>>}, ok)
  /\ last' = last + 1
  /\ driver' = Switched(last + 1, ok)
  /\ Goes(c, Came(ok))
  /\ UNCHANGED <<row, final>>

-----------------------------------------------------------------------------
(* completeProtocolRun, after the agent's RUN_FINISHED.                     *)

Fails(s) == row' = s /\ final' = "done"

DataRejected(g) == \E c \in Ids : calls[c].name = "data" /\ g.actions[c] = "rejected"

\* The agent's stream ends after all its tool calls have.
Finished ==
  /\ driver.up /\ driver.ready /\ row = "running" /\ final = "no"
  /\ InFlight = {}

Terminal(g, decision) == [Bumped(g) EXCEPT !.status = "terminal", !.decision = decision]

\* Mutant: refused data actions are not looked at.
Laundered_Never == FALSE

Laundered == Current.protocol = "general-task" /\ DataRejected(Current)

\* general-task refused data actions: the run may not end as completed.
FinishRejected(ok) ==
  /\ Finished /\ Laundered
  /\ IF Current.status = "active"
     THEN Commit(driver.seg, Terminal(Current, "failed"), ok)
     ELSE ok /\ UNCHANGED <<segs, pending, faults>>
  /\ Fails("failed")
  /\ UNCHANGED <<last, driver, calls>>

\* general.answer.commit is executed when there is an assistant message to commit.
FinishWithAnswer ==
  /\ Finished /\ ~Laundered
  /\ Current.protocol = "general-task" /\ ~Current.domain.answered
  /\ calls' = [calls EXCEPT ![AnswerCall] = [name |-> "answer", seg |-> driver.seg,
                                             target |-> "general-task", step |-> "entered"]]
  /\ final' = "answering"
  /\ UNCHANGED <<segs, last, driver, row, pending, faults>>

FinishWithoutAnswer ==
  /\ Finished /\ ~Laundered
  /\ final' = "proposing"
  /\ UNCHANGED <<segs, last, driver, calls, row, pending, faults>>

\* Mutant: a failed answer action is waited for again.
AnswerEnds_OnlyReturned ==
  /\ driver.up /\ final = "answering"
  /\ calls[AnswerCall].step = "returned" /\ final' = "proposing"
  /\ UNCHANGED <<segs, last, driver, calls, row, pending, faults>>

AnswerEnds ==
  /\ driver.up /\ final = "answering"
  /\ \/ calls[AnswerCall].step = "returned" /\ final' = "proposing" /\ UNCHANGED row
     \/ calls[AnswerCall].step = "threw" /\ Fails("failed")
  /\ UNCHANGED <<segs, last, driver, calls, pending, faults>>

\* proposeCompletion with forceTerminal, then RunFinalizer.complete.
Propose(ok) ==
  /\ driver.up /\ final = "proposing"
  /\ Commit(driver.seg, Terminal(Current, Decision(Current)), ok)
  /\ IF ok THEN final' = "finalizing" /\ UNCHANGED row ELSE Fails("failed")
  /\ UNCHANGED <<last, driver, calls>>

\* The finalizer completes the row, or throws while it awaits the goal snapshot.
Finalize ==
  /\ driver.up /\ final = "finalizing"
  /\ row' \in {"completed", "failed"}
  /\ final' = "done"
  /\ UNCHANGED <<segs, last, driver, calls, pending, faults>>

-----------------------------------------------------------------------------
Route(c) ==
  \/ FailureRecorded(c)
  \/ \E ok \in BOOLEAN :
       \/ Begin(c, ok)
       \/ ToolFails(c, ok)
       \/ ResultRefused(c, ok)
       \/ ToolSucceeds(c, ok)

Handoff(c) ==
  \/ ExtractionFails(c)
  \/ HandoffThrows(c)
  \/ \E ok \in BOOLEAN : HandoffRefused(c, ok) \/ HandoffAccepted(c, ok)

Complete ==
  \/ FinishWithAnswer
  \/ FinishWithoutAnswer
  \/ AnswerEnds
  \/ Finalize
  \/ \E ok \in BOOLEAN : FinishRejected(ok) \/ Propose(ok)

Next ==
  \/ Start \/ Flush \/ Suspend \/ Resume \/ Abort \/ Crash
  \/ \E c \in Calls : Enter(c)
  \/ \E c \in Ids : Route(c) \/ Handoff(c)
  \/ Complete

Spec == Init /\ [][Next]_vars

\* The agent's stream and every promise the router awaits eventually end.
Fairness ==
  /\ \A c \in Ids : WF_vars(Route(c)) /\ WF_vars(Handoff(c))
  /\ WF_vars(Complete)

FairSpec == Spec /\ Fairness

-----------------------------------------------------------------------------
(* Properties.                                                              *)

\* Type correctness of the persisted segments, the closure and the calls.
TypeOK ==
  /\ segs \in [Segments -> Segment]
  /\ last \in 0..MaxSegments
  /\ driver \in Driver /\ driver.seg \in 0..last
  /\ calls \in [Ids -> Call]
  /\ \A c \in Ids : calls[c].seg \in 0..last
  /\ row \in {"running", "suspended", "completed", "failed", "canceled"}
  /\ final \in {"no", "answering", "proposing", "finalizing", "done"}
  /\ pending \in SUBSET (Segments \X Nat)
  /\ faults \in 0..MaxFaults

\* The segments of a run form a chain: every one but the last has ended by a handoff
\* to the other protocol, and as long as no sink has thrown the closure of the live
\* process drives the last one (transitionSegment and afterAction).
SegmentChain ==
  /\ \A s \in Segments : (s <= last) <=> (segs[s].status # "absent")
  /\ \A s \in Segments : s < last => segs[s].protocol # segs[s + 1].protocol
  /\ faults = 0 => \A s \in Segments : s < last => segs[s].status \in {"handed_off", "aborted"}
  /\ faults = 0 /\ driver.up => driver.seg = last

\* A strict segment is handed off only with its goals met, and results that arrive
\* after the handoff do not take them away; a corrected one holds no data result.
\* It is stated of the segment before the last one: once the run is back in
\* data-analysis, late results reduce into every data-analysis segment.
StrictSegmentsEndResolved ==
  faults = 0 /\ last > 1 /\ segs[last - 1].protocol = "data-analysis" =>
    /\ segs[last - 1].status = "handed_off" => segs[last - 1].domain.resolved
    /\ segs[last - 1].status = "aborted" => ~segs[last - 1].domain.inspected

\* Parallel calls and rejections never let a segment admit more actions than
\* maxActions (assertActionAllowedInState).
Admitted(g) == {c \in Ids : g.actions[c] \in {"requested", "succeeded", "failed"}}
BudgetHolds == \A s \in Segments : Cardinality(Admitted(segs[s])) <= MaxActions

\* A run whose last segment is general-task and refused a data action does not end
\* as completed (completeProtocolRun, "must not launder").
RejectionsFailTheRun ==
  faults = 0 /\ row = "completed" /\ segs[last].protocol = "general-task"
    => ~DataRejected(segs[last])

\* A completed row has a terminal segment with a decision that is not a failure, and
\* "completed" is decided only of a segment whose goals are met.
CompletedIsDecided ==
  /\ row = "completed" => segs[driver.seg].decision \in {"completed", "partial"}
  /\ \A s \in Segments : segs[s].decision = "completed" => GoalsMet(segs[s])

\* The journal of a completed run is delivered in full, also the events deferred until
\* the stream started and those of other segments (flushProtocolEvents), unless a sink
\* threw.
CompletedIsDelivered == row = "completed" /\ faults = 0 => pending = {}

\* A result is recorded once: a settled action record never changes again, whatever
\* throws after its commit (requireRequestedAction).
SettledOnce ==
  \A s \in Segments, c \in Ids :
    segs[s].actions[c] \in Settled => segs'[s].actions[c] = segs[s].actions[c]
ActionsSettleOnce == [][SettledOnce]_vars

\* A segment that has ended stays as it ended, and a change of it is a new
\* revision: late results may be recorded in it but do not reopen or redecide it.
EndedStays ==
  \A s \in Segments :
    /\ segs'[s].revision >= segs[s].revision
    /\ segs'[s].revision = segs[s].revision /\ segs[s].status # "absent" => segs'[s] = segs[s]
    /\ faults = 0 /\ segs[s].status \in {"handed_off", "aborted", "terminal"}
         => segs'[s].status = segs[s].status /\ segs'[s].decision = segs[s].decision
EndedSegmentsStayEnded == [][EndedStays]_vars

\* An admitted action is settled in the end unless the process dies or a sink throws.
AdmittedActionsSettle ==
  \A s \in Segments, c \in Ids :
    segs[s].actions[c] = "requested"
      ~> segs[s].actions[c] \in Settled \/ calls[c].step = "lost" \/ faults > 0

\* Once completeProtocolRun has begun, the run's row settles.
CompletionSettles == final # "no" ~> row \in {"completed", "failed", "canceled"}

-----------------------------------------------------------------------------
(* The inductive invariant.                                                 *)

\* The chain with what keeps it: unused segments are absent, and no segment before
\* the last one is active again, so a closure left behind cannot hand off.
Chain ==
  /\ \A s \in Segments : s > last => segs[s] = Absent
  /\ \A s \in Segments : s <= last => segs[s].status # "absent"
  /\ \A s \in Segments : s < last =>
        segs[s].status # "active" /\ segs[s].protocol # segs[s + 1].protocol
  /\ faults = 0 => \A s \in Segments : s < last => segs[s].status \in {"handed_off", "aborted"}
  /\ faults = 0 /\ driver.up => driver.seg = last
  /\ last > 0 => driver.seg > 0 /\ segs[last].status \in {"active", "terminal"}
  /\ last = 0 => ~driver.up /\ row = "running" /\ final = "no"

\* A call that has not begun has no record, one whose tool runs has an open one.
Records ==
  \A c \in Ids :
    /\ calls[c].step \in {"unused", "entered"} => \A s \in Segments : segs[s].actions[c] = "none"
    /\ calls[c].step = "running" => segs[calls[c].seg].actions[c] = "requested"
    /\ calls[c].step # "unused" => calls[c].seg > 0

\* The completion begins when nothing is in flight and decides last.
Completion ==
  /\ final = "no" => calls[AnswerCall].step = "unused"
  /\ final = "answering" => InFlight \subseteq {AnswerCall}
  /\ final \in {"proposing", "finalizing"} => InFlight = {}
  /\ \A s \in Segments : segs[s].decision # "none" =>
        final \in {"finalizing", "done"} /\ InFlight = {}
  /\ \A s \in Segments : segs[s].status = "terminal" => segs[s].decision # "none"
  /\ final = "finalizing" => segs[driver.seg].decision \in {"completed", "partial"}
  /\ final \in {"answering", "proposing", "finalizing"} => row = "running"
  /\ row = "completed" => final = "done"
  /\ row = "suspended" => final = "no" /\ ~driver.up

IInv == TypeOK /\ Chain /\ Records /\ BudgetHolds /\ Completion /\ CompletedIsDecided

-----------------------------------------------------------------------------
(* Statements of the documentation and the tests that the code does not     *)
(* keep.                                                                    *)

\* docs/en/capabilities.md:55: an interaction can be resumed.  A resumed run whose
\* agent finishes with an answer is not failed.
ResumedRunsFinish ==
  driver.number > 1 /\ faults = 0 /\ final = "done" => calls[AnswerCall].step # "threw"
=============================================================================
