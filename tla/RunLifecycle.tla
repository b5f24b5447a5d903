---------------------------- MODULE RunLifecycle ----------------------------
(***************************************************************************)
(* The life of an agent run in apps/api: the metadata table `runs`, the    *)
(* in-process cancel registry, and the POST /api/copilotkit requests that  *)
(* claim, resume, replay or are refused a run and then drive it.           *)
(*                                                                         *)
(* The server is one Node process over a synchronous SQLite handle, so the *)
(* code between two awaits is one step here and every await is a point     *)
(* where any other request, REST call, timer or crash may come in between. *)
(* `queued` is omitted: the API always claims with status "running".       *)
(***************************************************************************)
EXTENDS Naturals, Sequences, FiniteSets

CONSTANTS
  Runs,          \* run ids clients use
  Sessions,      \* thread ids
  Bodies,        \* request fingerprints (sha256 of the canonical request)
  Requests,      \* POST /api/copilotkit requests, each sent at most once
  Calls,         \* tool call ids of ask_user / submit_plan interrupts
  None,          \* no handle, no call, no fingerprint
  MaxCrashes,    \* bound on process crashes
  MaxExtra,      \* bound on entries of a log at which a task begins or an answer fails
  ReclaimLimit   \* rows the startup reclaim looks at (500 in the code)

Answers == {"accept", "decline"}

ASSUME NoneAssumption ==
  None \notin Runs \cup Sessions \cup Bodies \cup Requests \cup Calls \cup Answers
ASSUME BoundsAssumption == MaxCrashes \in Nat /\ MaxExtra \in Nat /\ ReclaimLimit \in Nat

VARIABLES
  runs,          \* table runs: status, session_id, request_fingerprint, started_at
  interactions,  \* table interactions, by run and tool call
  events,        \* table run_events by run in seq order: the lifecycle events, the
                 \* session's title, and "tool" for what a tool call in flight logs
  claims,        \* rows inserted so far, the source of started_at
  registry,      \* RunCancelRegistry.handles: the request whose handle is held
  requests,      \* the closure of each request in DataFoundryAgUiAgent.run
  background,    \* promises of a request that outlive its stream: title task, tool call
  up,            \* the process is running
  crashes,
  stolen         \* history: requests whose row another actor wrote while they owned it

vars == <<runs, interactions, events, claims, registry, requests, background, up,
          crashes, stolen>>

Terminal == {"completed", "failed", "canceled"}
Active == {"running", "suspended"}
Statuses == Terminal \cup Active \cup {"absent"}
Stages == {"unsent", "preparing", "registered", "streaming", "ended"}
Finals == {"none", "completing", "cancelling", "closing", "done"}
Events == {"RUN_STARTED", "RUN_FINISHED", "RUN_ERROR",
           "suspended", "completed", "failed", "canceled", "session.title", "tool"}
Tasks == {"title", "tool"}

Row == [status: Statuses, session: Sessions \cup {None},
        body: Bodies \cup {None}, started: Nat]
NoRow == [status |-> "absent", session |-> None, body |-> None, started |-> 0]

Interaction == [status: {"none", "pending", "resolved", "canceled"},
                answer: Answers \cup {None}]
NoInteraction == [status |-> "none", answer |-> None]

\* `stage` is how far the coroutine run() is, `fin` how far the finalizer is;
\* terminalStarted in the code is fin # "none".
Request == [stage: Stages, fin: Finals, run: Runs \cup {None},
            session: Sessions \cup {None}, call: Calls \cup {None},
            answer: Answers \cup {None}, open: BOOLEAN]
Unsent == [stage |-> "unsent", fin |-> "none", run |-> None, session |-> None,
           call |-> None, answer |-> None, open |-> TRUE]

TypeOK ==
  /\ runs \in [Runs -> Row]
  /\ interactions \in [Runs -> [Calls -> Interaction]]
  /\ events \in [Runs -> Seq(Events)]
  /\ claims \in Nat
  /\ registry \in [Runs -> Requests \cup {None}]
  /\ requests \in [Requests -> Request]
  /\ background \in [Requests -> SUBSET Tasks]
  /\ up \in BOOLEAN
  /\ crashes \in Nat
  /\ stolen \in SUBSET Requests

Init ==
  /\ runs = [r \in Runs |-> NoRow]
  /\ interactions = [r \in Runs |-> [c \in Calls |-> NoInteraction]]
  /\ events = [r \in Runs |-> <<>>]
  /\ claims = 0
  /\ registry = [r \in Runs |-> None]
  /\ requests = [q \in Requests |-> Unsent]
  /\ background = [q \in Requests |-> {}]
  /\ up = TRUE
  /\ crashes = 0
  /\ stolen = {}

-----------------------------------------------------------------------------
(***************************************************************************)
(* Who owns a run.                                                         *)
(***************************************************************************)

\* The request may still write its run's row: run() can throw into its catch
\* until it has subscribed, the stream may end, or a finalizer is pending.
Owns(q) ==
  \/ requests[q].stage \in {"preparing", "registered"}
  \/ requests[q].stage = "streaming" /\ requests[q].fin = "none"
  \/ requests[q].fin \in {"completing", "cancelling"}

\* The request is doing the run's work: it was neither settled nor canceled.
Working(q) == Owns(q) /\ requests[q].fin \in {"none", "completing"}

OwnersOf(S) == {q \in Requests : Owns(q) /\ requests[q].run \in S}

-----------------------------------------------------------------------------
(***************************************************************************)
(* Claiming a session: stale-active-runs.ts                                *)
(***************************************************************************)

\* Mutant: findActiveBySession forgets the status "running".
ActiveOthers_OnlySuspended(r, s) ==
  {x \in Runs \ {r} : runs[x].session = s /\ runs[x].status = "suspended"}

ActiveOthers(r, s) ==
  {x \in Runs \ {r} : runs[x].session = s /\ runs[x].status \in Active}

\* Mutant: a live handle does not keep the session.
HoldsSession_SuspendedOnly(x) == runs[x].status = "suspended"

\* A suspended run, or one with a live handle in this process, keeps the session.
HoldsSession(x) == runs[x].status = "suspended" \/ registry[x] # None

Blockers(r, s) == {x \in ActiveOthers(r, s) : HoldsSession(x)}

\* The loop takes the active rows latest first and stops at the first blocker.
Reclaimed(r, s) ==
  {x \in ActiveOthers(r, s) :
     /\ ~HoldsSession(x)
     /\ \A y \in Blockers(r, s) : runs[y].started < runs[x].started}

AfterReclaim(r, s) ==
  [x \in Runs |-> IF x \in Reclaimed(r, s)
                  THEN [runs[x] EXCEPT !.status = "canceled"]
                  ELSE runs[x]]

\* Mutant: the failure is written with a status the table does not know.
PersistEarlyFailed_Error(table, r, s) == [table EXCEPT ![r].status = "error"]

\* persistEarlyFailedUserMessage: claim (a no-op on an existing row) and then an
\* unconditional update to "failed".
PersistEarlyFailed(table, r, s) ==
  [table EXCEPT ![r] =
     IF @.status = "absent"
     THEN [status |-> "failed", session |-> s, body |-> None, started |-> claims]
     ELSE [@ EXCEPT !.status = "failed"]]

-----------------------------------------------------------------------------
(***************************************************************************)
(* A request arrives: the synchronous prefix of run(), up to its first     *)
(* await. r and s are its runId and threadId, b its fingerprint, c and a   *)
(* the tool call and answer of a resume command (None without one).        *)
(***************************************************************************)

\* Mutant: a resume does not look at the run's status.
Resumes_AnyStatus(r, c) == c # None /\ runs[r].status # "absent"

Resumes(r, c) == c # None /\ runs[r].status = "suspended"

\* resolveExistingRun returns the persisted events instead of throwing.
Replayable(r, s, b, c, a) ==
  /\ c # None => interactions[r][c] = [status |-> "resolved", answer |-> a]
  /\ runs[r].session = s
  /\ runs[r].body # None
  /\ c = None => runs[r].body = b
  /\ runs[r].status # "running"
  /\ events[r] # <<>>

\* A suspended run's interaction must be the pending one of this session.
ResumeMatches(r, s, c) ==
  runs[r].session = s /\ interactions[r][c].status = "pending"

Becomes(q, request) == requests' = [requests EXCEPT ![q] = request]

Ended(q, r, s, c, a) ==
  Becomes(q, [stage |-> "ended", fin |-> "done", run |-> r, session |-> s,
              call |-> c, answer |-> a, open |-> FALSE])

Begins(q, r, s, c, a) ==
  Becomes(q, [stage |-> "preparing", fin |-> "none", run |-> r, session |-> s,
              call |-> c, answer |-> a, open |-> TRUE])

Arrives(q) == up /\ requests[q].stage = "unsent"

\* resolveRunConfig throws: the failure is persisted for a run of this id.
RejectConfig(q, r, s, c, a) ==
  /\ Arrives(q)
  /\ runs' = IF c = None THEN PersistEarlyFailed(runs, r, s) ELSE runs
  /\ claims' = IF c = None /\ runs[r].status = "absent" THEN claims + 1 ELSE claims
  /\ stolen' = IF c = None THEN stolen \cup OwnersOf({r}) ELSE stolen
  /\ Ended(q, r, s, c, a)
  /\ UNCHANGED <<interactions, events, registry, background, up, crashes>>

Replay(q, r, s, b, c, a) ==
  /\ Arrives(q)
  /\ runs[r].status # "absent"
  /\ ~Resumes(r, c)
  /\ Replayable(r, s, b, c, a)
  /\ Ended(q, r, s, c, a)
  /\ UNCHANGED <<runs, interactions, events, claims, registry, background, up,
                 crashes, stolen>>

Claim(q, r, s, b) ==
  /\ Arrives(q)
  /\ runs[r].status = "absent"
  /\ Blockers(r, s) = {}
  /\ runs' = [AfterReclaim(r, s) EXCEPT ![r] =
       [status |-> "running", session |-> s, body |-> b, started |-> claims]]
  /\ claims' = claims + 1
  /\ stolen' = stolen \cup OwnersOf(Reclaimed(r, s))
  /\ Begins(q, r, s, None, None)
  /\ UNCHANGED <<interactions, events, registry, background, up, crashes>>

\* Mutant: the claim by a resume forgets the status update.
ResumedRows_StillSuspended(r, s) == AfterReclaim(r, s)

ResumedRows(r, s) == [AfterReclaim(r, s) EXCEPT ![r].status = "running"]

Resume(q, r, s, c, a) ==
  /\ Arrives(q)
  /\ Resumes(r, c)
  /\ Blockers(r, s) = {}
  /\ ResumeMatches(r, s, c)
  /\ runs' = ResumedRows(r, s)
  /\ stolen' = stolen \cup OwnersOf(Reclaimed(r, s))
  /\ Begins(q, r, s, c, a)
  /\ UNCHANGED <<interactions, events, claims, registry, background, up, crashes>>

\* resolveRunIdentity throws. An id that exists is refused before the session is
\* looked at; otherwise the orphans ahead of the blocker are already reclaimed. A new
\* run may be refused for its parent run or its data source.
Refused(r, s, b, c, a) ==
  IF runs[r].status # "absent" /\ ~Resumes(r, c)
  THEN ~Replayable(r, s, b, c, a)
  ELSE Resumes(r, c) => Blockers(r, s) # {} \/ ~ResumeMatches(r, s, c)

ReclaimedByRefusal(r, s, c) ==
  IF runs[r].status # "absent" /\ ~Resumes(r, c) THEN {} ELSE Reclaimed(r, s)

\* run().catch persists the refusal unless the request is a resume.
Refuse(q, r, s, b, c, a) ==
  /\ Arrives(q)
  /\ Refused(r, s, b, c, a)
  /\ LET gone == ReclaimedByRefusal(r, s, c)
         table == IF gone = {} THEN runs ELSE AfterReclaim(r, s)
     IN /\ runs' = IF c = None THEN PersistEarlyFailed(table, r, s) ELSE table
        /\ stolen' = stolen \cup OwnersOf(IF c = None THEN gone \cup {r} ELSE gone)
  /\ claims' = IF c = None /\ runs[r].status = "absent" THEN claims + 1 ELSE claims
  /\ Ended(q, r, s, c, a)
  /\ UNCHANGED <<interactions, events, registry, background, up, crashes>>

-----------------------------------------------------------------------------
(***************************************************************************)
(* The coroutine run() after its first await.                              *)
(***************************************************************************)

\* run() and its stream are over: the subscriber is completed and torn down.
Closed(q) == [requests[q] EXCEPT !.stage = "ended", !.open = FALSE,
                                 !.fin = IF @ = "none" THEN "done" ELSE @]

Settling(q, fin) == Becomes(q, [requests[q] EXCEPT !.fin = fin])

\* Mutant: the closure deletes whatever handle the run has.
Unregistered_Unconditional(q) == [registry EXCEPT ![requests[q].run] = None]

\* Mutant: a run that ends keeps its handle.
Unregistered_Never(q) == registry

\* The closure returned by register deletes the handle only if it is still its own.
Unregistered(q) ==
  [registry EXCEPT ![requests[q].run] = IF @ = q THEN None ELSE @]

Status(r, status) == runs' = [runs EXCEPT ![r].status = status]

Answer(r, c, status, answer) ==
  interactions' = [interactions EXCEPT ![r][c] = [status |-> status, answer |-> answer]]

Emit(r, list) == events' = [events EXCEPT ![r] = @ \o list]

\* What MaxExtra bounds: entries that do not belong to the course of a run, and tasks
\* that may still log one.
Extra(r) ==
  Cardinality({i \in DOMAIN events[r] :
                 events[r][i] \in {"session.title", "tool", "RUN_ERROR"}})
  + Cardinality({x \in Requests \X Tasks :
                   requests[x[1]].run = r /\ x[2] \in background[x[1]]})

\* The assemblies are ready: the cancel handle is registered, and taken back at
\* once when the subscriber is already closed.
Register(q) ==
  /\ requests[q].stage = "preparing"
  /\ Becomes(q, [requests[q] EXCEPT !.stage = "registered"])
  /\ registry' = IF requests[q].open
                 THEN [registry EXCEPT ![requests[q].run] = q] ELSE registry
  /\ UNCHANGED <<runs, interactions, events, claims, background, up, crashes,
                 stolen>>

\* An await between the claim and the subscription rejects: run().catch writes
\* "failed" for a new run and leaves a resumed one as it is; the subscriber is
\* completed, so its teardown drops the handle.
FailEarly(q) ==
  /\ requests[q].stage \in {"preparing", "registered"}
  /\ runs' = IF requests[q].call = None
             THEN [runs EXCEPT ![requests[q].run].status = "failed"] ELSE runs
  /\ registry' = Unregistered(q)
  /\ Becomes(q, Closed(q))
  /\ UNCHANGED <<interactions, events, claims, background, up, crashes, stolen>>

\* The agent is subscribed and starts; the first request of a run also starts the task
\* that titles the session.
StartStream(q) ==
  /\ requests[q].stage = "registered"
  /\ requests[q].open
  /\ requests[q].fin = "none"
  /\ Becomes(q, [requests[q] EXCEPT !.stage = "streaming"])
  /\ Emit(requests[q].run, <<"RUN_STARTED">>)
  /\ background' = IF requests[q].call = None /\ Extra(requests[q].run) < MaxExtra
                   THEN [background EXCEPT ![q] = @ \cup {"title"}] ELSE background
  /\ UNCHANGED <<runs, interactions, claims, registry, up, crashes, stolen>>

\* With the subscriber closed the subscription's teardown unsubscribes at once,
\* and after a cancel every event of the stream is ignored.
AbortStart(q) ==
  /\ requests[q].stage = "registered"
  /\ ~(requests[q].open /\ requests[q].fin = "none")
  /\ Becomes(q, Closed(q))
  /\ UNCHANGED <<runs, interactions, events, claims, registry, background, up,
                 crashes, stolen>>

\* The client goes away: the subscriber's teardown runs. A run that is not
\* settling keeps its status; nobody drives it any more.
Disconnect(q) ==
  /\ requests[q].stage \in {"preparing", "registered", "streaming"}
  /\ requests[q].open
  /\ registry' = Unregistered(q)
  /\ Becomes(q, IF requests[q].stage = "streaming" THEN Closed(q)
                ELSE [requests[q] EXCEPT !.open = FALSE])
  /\ UNCHANGED <<runs, interactions, events, claims, background, up, crashes,
                 stolen>>

\* Mutant: the stream's handler does not look at terminalStarted.
Streams_AfterTerminal(q) == requests[q].stage = "streaming"

\* The agent's events are handled: subscribed and terminalStarted is false.
Streams(q) == requests[q].stage = "streaming" /\ requests[q].fin = "none"

\* Mutant: the RUN_FINISHED of a suspension goes through the persisting emitter.
SuspensionLog_Finished == <<"suspended", "RUN_FINISHED">>

\* The RUN_FINISHED the client sees at a suspension is not persisted.
SuspensionLog == <<"suspended">>

\* Assumed of the agent library: it interrupts a tool call only before its result.
MayInterrupt(r, c) == interactions[r][c].status \in {"none", "pending"}

\* Assumed of the agent library: a run finishes when its tool calls have.
ToolsSettled(q) == "tool" \notin background[q]

\* An interaction that exists is left as it is (ON CONFLICT DO NOTHING).
Ask(r, c) ==
  interactions' = [interactions EXCEPT ![r][c] =
    IF @.status = "none" THEN [status |-> "pending", answer |-> None] ELSE @]

\* on_interrupt: the interaction is requested and the run is suspended.
Interrupt(q, c) ==
  LET r == requests[q].run IN
  /\ Streams(q)
  /\ MayInterrupt(r, c)
  /\ Ask(r, c)
  /\ Status(r, "suspended")
  /\ Emit(r, SuspensionLog)
  /\ registry' = Unregistered(q)
  /\ Settling(q, "done")
  /\ UNCHANGED <<claims, background, up, crashes, stolen>>

\* The result of the resumed tool call resolves its interaction.
ToolResult(q) ==
  LET r == requests[q].run
      c == requests[q].call
  IN
  /\ Streams(q)
  /\ c # None
  /\ interactions[r][c].status = "pending"
  /\ Answer(r, c, "resolved", requests[q].answer)
  /\ UNCHANGED <<runs, events, claims, registry, requests, background, up,
                 crashes, stolen>>

\* Resolving the interaction or logging it throws: the handler logs a RUN_ERROR of its
\* own, and the stream goes on.
ResultFails(q) ==
  LET r == requests[q].run
      c == requests[q].call
  IN
  /\ Streams(q)
  /\ c # None
  /\ interactions[r][c].status = "pending"
  /\ Extra(r) < MaxExtra
  /\ Answer(r, c, "resolved", requests[q].answer) \/ UNCHANGED interactions
  /\ Emit(r, <<"RUN_ERROR">>)
  /\ UNCHANGED <<runs, claims, registry, requests, background, up, crashes, stolen>>

\* A tool of the agent is called.
ToolCall(q) ==
  /\ Streams(q)
  /\ Extra(requests[q].run) < MaxExtra
  /\ background' = [background EXCEPT ![q] = @ \cup {"tool"}]
  /\ UNCHANGED <<runs, interactions, events, claims, registry, requests, up,
                 crashes, stolen>>

\* A promise settles, whatever became of the run meanwhile, and may log something by
\* the emitter, which does not look at terminalStarted.
Settles(q, task, entry) ==
  /\ task \in background[q]
  /\ background' = [background EXCEPT ![q] = @ \ {task}]
  /\ Emit(requests[q].run, <<entry>>) \/ UNCHANGED events
  /\ UNCHANGED <<runs, interactions, claims, registry, requests, up, crashes, stolen>>

\* The title task logs the title unless the session has one it may not replace.
TitleSettles(q) == Settles(q, "title", "session.title")

\* A tool call in flight ends; one that was aborted logs its failed step.
ToolSettles(q) == Settles(q, "tool", "tool")

\* RUN_FINISHED of a run that was not declined: finalization starts and awaits.
Finish(q) ==
  /\ Streams(q)
  /\ ToolsSettled(q)
  /\ requests[q].answer # "decline"
  /\ registry' = Unregistered(q)
  /\ Settling(q, "completing")
  /\ UNCHANGED <<runs, interactions, events, claims, background, up, crashes,
                 stolen>>

\* RUN_FINISHED of a run resumed with false: the interaction, if it is still
\* pending, and the run are canceled.
FinishDeclined(q) ==
  LET r == requests[q].run
      c == requests[q].call
  IN
  /\ Streams(q)
  /\ ToolsSettled(q)
  /\ requests[q].answer = "decline"
  /\ registry' = Unregistered(q)
  /\ IF interactions[r][c].status = "pending"
     THEN Answer(r, c, "canceled", "decline") ELSE UNCHANGED interactions
  /\ Status(r, "canceled")
  /\ Emit(r, <<"canceled">>)
  /\ Settling(q, "closing")
  /\ UNCHANGED <<claims, background, up, crashes, stolen>>

FailRun(q, stage) ==
  /\ Streams(q)
  /\ registry' = Unregistered(q)
  /\ Status(requests[q].run, "failed")
  /\ Emit(requests[q].run, <<"failed", "RUN_ERROR">>)
  /\ Becomes(q, [requests[q] EXCEPT !.fin = "done", !.stage = stage,
                                    !.open = (stage = "streaming")])
  /\ UNCHANGED <<interactions, claims, background, up, crashes, stolen>>

\* A RUN_ERROR event of the agent: the stream is still to close.
RunError(q) == FailRun(q, "streaming")

\* The run timeout, or an error of the stream: the subscriber completes as well.
RunTimeout(q) == FailRun(q, "ended")

\* The source completes. Without a terminal event before it the run just stops.
CloseStream(q) ==
  /\ requests[q].stage = "streaming"
  /\ registry' = Unregistered(q)
  /\ Becomes(q, Closed(q))
  /\ UNCHANGED <<runs, interactions, events, claims, background, up, crashes,
                 stolen>>

-----------------------------------------------------------------------------
(***************************************************************************)
(* Finalization: completeProtocolRun and RunFinalizer.                     *)
(***************************************************************************)

\* The protocol decided "failed", or an await of the finalization threw.
FinalizeFailed(q) ==
  /\ requests[q].fin = "completing"
  /\ Status(requests[q].run, "failed")
  /\ Emit(requests[q].run, <<"failed", "RUN_ERROR">>)
  /\ Settling(q, "done")
  /\ UNCHANGED <<interactions, claims, registry, background, up, crashes, stolen>>

FinalizeCompleted(q) ==
  /\ requests[q].fin = "completing"
  /\ Status(requests[q].run, "completed")
  /\ Emit(requests[q].run, <<"completed">>)
  /\ Settling(q, "closing")
  /\ UNCHANGED <<interactions, claims, registry, background, up, crashes, stolen>>

FinalizeCanceled(q) ==
  /\ requests[q].fin = "cancelling"
  /\ Status(requests[q].run, "canceled")
  /\ Emit(requests[q].run, <<"canceled">>)
  /\ Settling(q, "closing")
  /\ UNCHANGED <<interactions, claims, registry, background, up, crashes, stolen>>

\* The workspace is destroyed: the terminal event goes out last.
EmitTerminal(q) ==
  /\ requests[q].fin = "closing"
  /\ Emit(requests[q].run, <<"RUN_FINISHED">>)
  /\ Settling(q, "done")
  /\ UNCHANGED <<runs, interactions, claims, registry, background, up, crashes,
                 stolen>>

-----------------------------------------------------------------------------
(***************************************************************************)
(* POST /api/v1/runs/:id/cancel                                            *)
(***************************************************************************)

\* The handle's cancelRun: terminalStarted, unregister, unsubscribe, finalize.
CancelByHandle(r, q) ==
  /\ up
  /\ registry[r] = q
  /\ registry' = Unregistered(q)
  /\ Becomes(q, [requests[q] EXCEPT !.fin = "cancelling",
                                    !.stage = IF @ = "streaming" THEN "ended" ELSE @])
  /\ UNCHANGED <<runs, interactions, events, claims, background, up, crashes,
                 stolen>>

\* No handle, but the row is active: only the row is canceled.
CancelPersistedOnly(r) ==
  /\ up
  /\ registry[r] = None
  /\ runs[r].status \in Active
  /\ Status(r, "canceled")
  /\ stolen' = stolen \cup OwnersOf({r})
  /\ UNCHANGED <<interactions, events, claims, registry, requests, background,
                 up, crashes>>

-----------------------------------------------------------------------------
(***************************************************************************)
(* The process.                                                            *)
(***************************************************************************)

AfterCrash(q) ==
  IF requests[q].stage = "unsent" THEN requests[q]
  ELSE [requests[q] EXCEPT !.stage = "ended", !.fin = "done", !.open = FALSE]

Crash ==
  /\ up
  /\ crashes < MaxCrashes
  /\ up' = FALSE
  /\ crashes' = crashes + 1
  /\ registry' = [r \in Runs |-> None]
  /\ requests' = [q \in Requests |-> AfterCrash(q)]
  /\ background' = [q \in Requests |-> {}]
  /\ UNCHANGED <<runs, interactions, events, claims, stolen>>

Orphans == {r \in Runs : runs[r].status = "running"}

\* Mutant: the startup reclaim finds nothing.
ListedOrphans_None == {}

\* listByStatuses: the ReclaimLimit running rows that started last.
ListedOrphans ==
  {r \in Orphans :
     Cardinality({x \in Orphans : runs[x].started > runs[r].started}) < ReclaimLimit}

\* createServer: the registry is empty and the listed running rows are canceled.
Restart ==
  /\ ~up
  /\ up' = TRUE
  /\ runs' = [r \in Runs |-> IF r \in ListedOrphans /\ registry[r] = None
                             THEN [runs[r] EXCEPT !.status = "canceled"]
                             ELSE runs[r]]
  /\ UNCHANGED <<interactions, events, claims, registry, requests, background,
                 crashes, stolen>>

-----------------------------------------------------------------------------
\* A resume names an interrupt the client was shown; any other request none.
Shown(r, c) == interactions[r][c].status # "none"

SubmitNew(q, r, s) ==
  \/ RejectConfig(q, r, s, None, None)
  \/ \E b \in Bodies :
       \/ Replay(q, r, s, b, None, None)
       \/ Refuse(q, r, s, b, None, None)
       \/ Claim(q, r, s, b)

SubmitResume(q, r, s, c, a) ==
  /\ Shown(r, c)
  /\ \/ RejectConfig(q, r, s, c, a)
     \/ Resume(q, r, s, c, a)
     \/ \E b \in Bodies :
          \/ Replay(q, r, s, b, c, a)
          \/ Refuse(q, r, s, b, c, a)

Submit(q) ==
  \E r \in Runs, s \in Sessions :
    \/ SubmitNew(q, r, s)
    \/ \E c \in Calls, a \in Answers : SubmitResume(q, r, s, c, a)

Prepare(q) == Register(q) \/ FailEarly(q) \/ StartStream(q) \/ AbortStart(q)
Stream(q) ==
  \/ ToolResult(q) \/ ResultFails(q) \/ ToolCall(q)
  \/ Finish(q) \/ FinishDeclined(q) \/ RunError(q) \/ RunTimeout(q) \/ CloseStream(q)
  \/ \E c \in Calls : Interrupt(q, c)
Finalize(q) ==
  FinalizeFailed(q) \/ FinalizeCompleted(q) \/ FinalizeCanceled(q) \/ EmitTerminal(q)
Background(q) == TitleSettles(q) \/ ToolSettles(q)

Next ==
  \/ \E q \in Requests : Submit(q) \/ Prepare(q) \/ Stream(q) \/ Finalize(q) \/ Disconnect(q)
                         \/ Background(q)
  \/ \E r \in Runs, q \in Requests : CancelByHandle(r, q)
  \/ \E r \in Runs : CancelPersistedOnly(r)
  \/ Crash
  \/ Restart

Spec == Init /\ [][Next]_vars

\* Once the server has accepted work it does it, and a supervisor restarts it:
\* awaits of preparation and finalization settle (each is bounded by a timeout or
\* caught). The model's stream is owed nothing: it may run for ever.
Fairness ==
  /\ \A q \in Requests : WF_vars(Prepare(q)) /\ WF_vars(Finalize(q))
  /\ WF_vars(Restart)

FairSpec == Spec /\ Fairness

-----------------------------------------------------------------------------
(***************************************************************************)
(* Properties                                                              *)
(***************************************************************************)

\* A cancel handle in the registry is the handle of a request that drives that
\* run and has not begun to settle it, and a request that streams always has its
\* handle there, even while an older request of the same run is torn down
\* (run-cancel-registry.ts: "True when this process still owns a live cancel handle").
HandleOwnership ==
  /\ \A r \in Runs, q \in Requests : registry[r] = q =>
       /\ requests[q].run = r
       /\ requests[q].stage \in {"registered", "streaming"}
       /\ requests[q].fin = "none"
       /\ requests[q].open
  /\ \A q \in Requests : Streams(q) => registry[requests[q].run] = q

\* A run is never driven by two requests: a resume starts only once the request
\* that suspended the run can no longer write it (run-identity-orchestrator.ts).
OneOwnerPerRun ==
  \A p, q \in Requests :
    Owns(p) /\ Owns(q) /\ requests[p].run = requests[q].run => p = q

\* Suspended runs are never reclaimed, so one must always be answerable: it has a
\* pending interaction, and no request is still at work on it.
SuspendedIsAnswerable ==
  \A r \in Runs : runs[r].status = "suspended" =>
    /\ \E c \in Calls : interactions[r][c].status = "pending"
    /\ OwnersOf({r}) = {}

\* server.ts: the RUN_FINISHED sent at a suspension "is transport-only; suspended
\* runs must not replay as finished".
SuspendedNotFinished ==
  \A r \in Runs : runs[r].status = "suspended" =>
    \A i \in DOMAIN events[r] : events[r][i] # "RUN_FINISHED"

\* Two requests work in one session only after the row of one of them was written
\* by somebody else: a reclaim, a row-only cancel or a refused duplicate.
ExclusiveUnlessStolen ==
  \A p, q \in Requests :
    /\ Working(p) /\ Working(q) /\ p # q
    /\ requests[p].session = requests[q].session
    => p \in stolen \/ q \in stolen

\* A request that nobody interfered with finds its row as it left it: "running",
\* in its own session, for as long as it works.
WorkerRowIsRunning ==
  \A q \in Requests : Working(q) /\ q \notin stolen =>
    /\ runs[requests[q].run].status = "running"
    /\ runs[requests[q].run].session = requests[q].session

\* Whatever ends a run first, its agent, an error, the timeout, a cancel or a declined
\* answer, and whoever else is at work on it: the log that a duplicate replays tells one
\* outcome, and after it only its terminal event and what the tasks that outlive the
\* stream still log; RUN_FINISHED tells that a run completed or was canceled
\* (terminalStarted in server.ts, and the emit after the await in run-finalizer.ts).
Outcomes == {"completed", "failed", "canceled"}
Ends == {"RUN_FINISHED", "RUN_ERROR"}
LateEvents == {"session.title", "tool"}
OneOutcome(log) ==
  \A i \in DOMAIN log :
    /\ log[i] \in Outcomes => \A j \in DOMAIN log : j > i =>
         /\ log[j] \in Ends \cup LateEvents
         /\ log[j] \in Ends => \A k \in DOMAIN log : log[k] \in Ends => k <= j
    /\ log[i] = "RUN_FINISHED" =>
         \E j \in DOMAIN log : j < i /\ log[j] \in {"completed", "canceled"}

OutcomeIsLoggedOnce == \A r \in Runs : OneOutcome(events[r])

\* A settled row changes only under an owner that was stolen from, under one whose
\* own cancel and early failure raced, or under a new request that names the run.
Explained(r) ==
  \/ \E q \in OwnersOf({r}) : q \in stolen
  \/ \E q \in OwnersOf({r}) : requests[q].fin \in {"cancelling", "closing", "done"}
  \/ \E q \in Requests : /\ requests[q].stage = "unsent"
                          /\ requests'[q].stage = "ended"
                          /\ requests'[q].run = r

SettledChangesExplained ==
  [][\A r \in Runs :
       runs[r].status \in Terminal /\ runs'[r].status # runs[r].status => Explained(r)]_vars

\* A cancel taken by a live handle always lands: the row is settled in the end,
\* also when the process dies between the answer and the write.
CancelSettles ==
  \A r \in Runs :
    (\E q \in Requests : requests[q].run = r /\ requests[q].fin = "cancelling")
      ~> runs[r].status \in Terminal

-----------------------------------------------------------------------------
(***************************************************************************)
(* The inductive invariant behind the safety properties.                   *)
(***************************************************************************)

\* A request that was sent names its run and session; only a cancel can begin to
\* settle it before its stream, and only once it is registered.
SentNamed ==
  \A q \in Requests :
    \/ requests[q] = Unsent
    \/ /\ requests[q].stage # "unsent"
       /\ requests[q].run \in Runs
       /\ requests[q].session \in Sessions
       /\ requests[q].answer = "decline" => requests[q].call \in Calls
       /\ requests[q].stage = "preparing" => requests[q].fin = "none"
       /\ requests[q].stage = "registered" => requests[q].fin # "completing"

\* A request whose subscriber is open keeps the handle it registered, and a
\* stream's subscriber is open until the stream ends.
HandlesKept ==
  \A q \in Requests :
    /\ requests[q].stage \in {"registered", "streaming"}
    /\ requests[q].fin = "none"
    => /\ requests[q].open => registry[requests[q].run] = q
       /\ requests[q].stage = "streaming" => requests[q].open

OwnedRows ==
  \A q \in Requests :
    Owns(q) => runs[requests[q].run].status \notin {"absent", "suspended"}

SuspendedIsPending ==
  \A r \in Runs : runs[r].status = "suspended" =>
    \E c \in Calls : interactions[r][c].status = "pending"

\* The terminal event of a run is out, or about to go out.
FinishedEvent(r) ==
  \/ \E i \in DOMAIN events[r] : events[r][i] = "RUN_FINISHED"
  \/ \E q \in Requests : requests[q].run = r /\ requests[q].fin = "closing"

FinishedIsSettled ==
  \A r \in Runs : FinishedEvent(r) =>
    /\ runs[r].status \in Terminal
    /\ \A q \in OwnersOf({r}) : requests[q].fin # "none"

DownIsIdle == ~up => \A q \in Requests : ~Owns(q)

\* What every step preserves; it implies each safety property above.
IInv ==
  /\ TypeOK
  /\ SentNamed
  /\ HandleOwnership
  /\ HandlesKept
  /\ OneOwnerPerRun
  /\ OwnedRows
  /\ DownIsIdle
  /\ SuspendedIsPending
  /\ FinishedIsSettled
  /\ WorkerRowIsRunning
  /\ ExclusiveUnlessStolen

-----------------------------------------------------------------------------
(***************************************************************************)
(* The abstract view: what RunGovernance calls a run's phase, its handle   *)
(* and its disturbance, read off the requests that own it.                 *)
(***************************************************************************)

PhaseOf(r) ==
  IF OwnersOf({r}) = {} THEN "idle"
  ELSE IF \E q \in OwnersOf({r}) : Working(q) THEN "working" ELSE "closing"

StatusMap == [r \in Runs |-> runs[r].status]
SessionMap == [r \in Runs |-> runs[r].session]
PhaseMap == [r \in Runs |-> PhaseOf(r)]
Handled == {r \in Runs : registry[r] # None}
Disturbed == {r \in Runs : OwnersOf({r}) \cap stolen # {}}

Governance == INSTANCE RunGovernance WITH
  status <- StatusMap, session <- SessionMap, phase <- PhaseMap,
  live <- Handled, disturbed <- Disturbed

\* The server keeps the promise of RunGovernance: every await, race, crash and refusal
\* of the requests is one of its steps or changes nothing it can see.
ImplementsGovernance == Governance!Spec

-----------------------------------------------------------------------------
(***************************************************************************)
(* What comments, docs and tests say and the code does not do.             *)
(***************************************************************************)

\* run-finalizer.ts: the finalizer "Owns terminal run state transitions", and
\* stale-active-runs.ts cancels only "orphans": once another run of the session is
\* running, nobody replaces the status the one before it ended with.
SettledIsFinal ==
  [][\A r, x \in Runs :
       /\ runs[r].status \in Terminal
       /\ runs[x].status = "running"
       /\ runs[x].session = runs[r].session
       => runs'[r].status = runs[r].status]_vars
=============================================================================
