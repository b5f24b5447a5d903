------------------------- MODULE ConversationMemory -------------------------
(***************************************************************************)
(* What is remembered of a conversation (apps/api, conversation-memory.ts, *)
(* run-memory-assembly.ts, long-term-memory.ts, session-branching.ts and   *)
(* the flush in run-finalizer.ts): each run stores its user message and    *)
(* the assistant messages it streams; a run that completes summarizes old  *)
(* messages and extracts long-term memories, raced against a timeout; the  *)
(* next run mirrors the latest summary into the agent's working memory and *)
(* builds its prompt from the messages the summary does not cover; and a   *)
(* conversation forks into sessions that inherit the messages before a     *)
(* run.  The mode is the default one, "working-memory-readonly".           *)
(*                                                                         *)
(* A message is the run it belongs to and its number in that run; its      *)
(* position is its index.  A summary is the range it is stored under and   *)
(* the positions that really went into it.  Texts and the budgets of       *)
(* characters and tokens are left out.                                     *)
(***************************************************************************)
EXTENDS Integers, Sequences, FiniteSets, SequencesExt, FiniteSetsExt

CONSTANTS
  MaxRuns,       \* bound on runs
  MaxSessions,   \* bound on sessions: the root and its forks
  MaxDrafts,     \* bound on assistant messages of one run
  MaxFaults,     \* bound on what goes wrong, see Mishap
  MaxAtWork,     \* bound on runs with a request or a flush at work
  LoadLimit,     \* historyLoadLimit
  HistoryLimit,  \* maxHistoryMessages
  Trigger,       \* summaryTriggerMessages
  KeepRecent     \* summaryKeepRecentMessages

ASSUME BoundsAssumption ==
  /\ MaxRuns \in Nat \ {0} /\ MaxSessions \in Nat \ {0}
  /\ MaxDrafts \in Nat /\ MaxFaults \in Nat /\ MaxAtWork \in Nat
ASSUME PolicyAssumption ==
  /\ LoadLimit \in Nat /\ HistoryLimit \in Nat /\ HistoryLimit <= LoadLimit
  /\ Trigger \in Nat /\ KeepRecent \in Nat

Smaller(a, b) == IF a <= b THEN a ELSE b
Larger(a, b) == IF a <= b THEN b ELSE a

Runs == 1..MaxRuns
Sessions == 1..MaxSessions

VARIABLES
  runs,       \* status and session of each run's row
  worker,     \* the request that drives the run
  drafts,     \* the drafts of its ConversationMemoryEventObserver, by message
  streamed,   \* how many assistant messages the run has streamed
  flush,      \* flushCompletedMemory of the run
  messages,   \* table conversation_messages, by session
  summaries,  \* table conversation_summaries, by session
  mirror,     \* what the working memory of the session's thread summarizes
  memories,   \* runs whose memories were extracted and stored
  branch,     \* table session_branches, by child session
  lost,       \* history: runs whose drafts were dropped
  gapped,     \* history: sessions with a summary that skipped old messages
  faults

tables == <<messages, summaries, mirror, memories, branch>>
vars == <<runs, worker, drafts, streamed, flush, tables, lost, gapped, faults>>

\* "settled" is completed, failed or canceled: nothing here tells them apart.
Statuses == {"absent", "running", "suspended", "settled"}
\* `compiled` is whether a context of the run was compiled, and so a checkpoint made.
Row == [status : Statuses, session : Sessions, compiled : BOOLEAN]
Active == {"running", "suspended"}

\* Message 0 of a run is its user message, n > 0 its n-th assistant message.
Message == [run : Runs, n : 0..MaxDrafts]

\* `first` is in the id of a summary, `kept` the positions it was written from.
Summary == [from : Nat, first : Nat, to : Nat, kept : SUBSET Nat]
NoSummary == [from |-> 0, first |-> 0, to |-> 0, kept |-> {}]

\* `sync` is the summary that syncLatestSummaryToMemory writes and `synced` whether it
\* could; until the agent has it, `prompt` are the messages it is given and `cut` how
\* far others are left out as summarized.
Phases == {"none", "syncing", "preparing", "streaming", "finishing", "finalizing"}
Worker == [phase : Phases, resumed : BOOLEAN, sync : Summary, synced : BOOLEAN, prompt : SUBSET Nat, cut : Nat]
NoWorker == [phase |-> "none", resumed |-> FALSE, sync |-> NoSummary,
             synced |-> FALSE, prompt |-> {}, cut |-> 0]

\* `source` is whether there is a message to extract memories from.
Flush == [step : {"none", "summarizing", "mirroring", "extracting"},
          aborted : BOOLEAN, pending : Summary, source : BOOLEAN]
NoFlush == [step |-> "none", aborted |-> FALSE, pending |-> NoSummary, source |-> FALSE]

Branch == [parent : Nat, run : Nat, end : Nat, checkpoint : BOOLEAN, rowless : BOOLEAN]
NoBranch == [parent |-> 0, run |-> 0, end |-> 0, checkpoint |-> FALSE, rowless |-> FALSE]

Exists(s) == s = 1 \/ branch[s] # NoBranch

Init ==
  /\ runs = [r \in Runs |-> [status |-> "absent", session |-> 1, compiled |-> FALSE]]
  /\ worker = [r \in Runs |-> NoWorker]
  /\ drafts = [r \in Runs |-> {}]
  /\ streamed = [r \in Runs |-> 0]
  /\ flush = [r \in Runs |-> NoFlush]
  /\ messages = [s \in Sessions |-> <<>>]
  /\ summaries = [s \in Sessions |-> <<>>]
  /\ mirror = [s \in Sessions |-> {}]
  /\ memories = {}
  /\ branch = [s \in Sessions |-> NoBranch]
  /\ lost = {} /\ gapped = {} /\ faults = 0

-----------------------------------------------------------------------------
(* The message table and the prompt.                                        *)

Stored(s, r, n) == \E p \in DOMAIN messages[s] : messages[s][p].run = r /\ messages[s][p].n = n

\* A message whose id is stored already is ignored (INSERT OR IGNORE).
NewDrafts(r) == {n \in drafts[r] : ~Stored(runs[r].session, r, n)}

\* persistAssistantDrafts: the drafts are appended, in what order is left open, and
\* cleared.
Appended(r) ==
  messages[runs[r].session]
  \o [i \in 1..Cardinality(NewDrafts(r)) |-> [run |-> r, n |-> SetToSeq(NewDrafts(r))[i]]]

PersistDrafts(r) ==
  /\ messages' = [messages EXCEPT ![runs[r].session] = Appended(r)]
  /\ drafts' = [drafts EXCEPT ![r] = {}]

\* The messages a session inherits from its ancestors, then its own.
Inherited(s) ==
  LET up[c \in Sessions] ==
        IF branch[c] = NoBranch THEN <<>>
        ELSE up[branch[c].parent] \o SubSeq(messages[branch[c].parent], 1, branch[c].end)
  IN  up[s]
Visible(s) == Inherited(s) \o messages[s]

\* ORDER BY to_position DESC, created_at DESC.
Latest(s) ==
  IF summaries[s] = <<>> THEN NoSummary
  ELSE summaries[s][CHOOSE i \in DOMAIN summaries[s] :
         \A j \in DOMAIN summaries[s] :
           summaries[s][j].to < summaries[s][i].to
           \/ (summaries[s][j].to = summaries[s][i].to /\ j <= i)]

\* Mutant: a branch goes by its own latest summary.
Covered_InBranch(s) == Latest(s).to
\* latestVisibleConversationSummary: a branch has none.
Covered(s) == IF branch[s] = NoBranch THEN Latest(s).to ELSE 0

LastOf(S, k) == {p \in S : Cardinality({q \in S : p <= q}) <= k}

\* buildRunMessages, by position in what session s sees: the conversation before run
\* r, and the part of it that goes into the prompt of r.
Before(r, s) == {p \in 1..Len(Visible(s)) : Visible(s)[p].run # r}
Prompt(r, s) ==
  LastOf({p \in LastOf(Before(r, s), LoadLimit) : p > Covered(s)}, HistoryLimit)

-----------------------------------------------------------------------------
(* A run begins: claim, user message, working memory and prompt.            *)

Become(r, w) == worker' = [worker EXCEPT ![r] = w]
Status(r, status) == runs' = [runs EXCEPT ![r].status = status]

AtWork == {r \in Runs : worker[r] # NoWorker \/ flush[r] # NoFlush}

\* The bounded events, all but those of a run that goes well: a crash; a run that is
\* refused, fails, is canceled, suspended or abandoned by its client; a message that is
\* sent again; a summary that could not be mirrored.
Mishap(happens) ==
  IF happens THEN faults < MaxFaults /\ faults' = faults + 1 ELSE UNCHANGED faults

NewRun(r) == runs[r].status = "absent" /\ \A x \in 1..(r - 1) : runs[x].status # "absent"

\* A suspended run keeps its session, and so does one with a handle: it has one while
\* it streams.  Other active runs are reclaimed, although they may be finalizing.
ActiveIn(s) == {x \in Runs : runs[x].session = s /\ runs[x].status \in Active}
Holds(x) == runs[x].status = "suspended" \/ worker[x].phase = "streaming"

\* The user message is stored unless the client sends one that is stored already.
UserMessage(r, s, resent) ==
  messages' = IF resent THEN messages
              ELSE [messages EXCEPT ![s] = Append(@, [run |-> r, n |-> 0])]
Resendable(s) == \E p \in DOMAIN messages[s] : messages[s][p].n = 0

Built(r, s, synced) ==
  [NoWorker EXCEPT !.phase = "preparing", !.synced = synced,
                   !.prompt = Prompt(r, s), !.cut = Covered(s)]

\* resolveRunIdentity, then createRunMemoryAssembly up to its await, if there is a
\* summary to mirror, or to its end.
Claim(r, s, resent) ==
  /\ NewRun(r) /\ Exists(s) /\ (resent => Resendable(s))
  /\ Cardinality(AtWork) < MaxAtWork
  /\ \A x \in ActiveIn(s) : ~Holds(x)
  /\ runs' = [x \in Runs |->
       IF x = r THEN [status |-> "running", session |-> s, compiled |-> FALSE]
       ELSE IF x \in ActiveIn(s) THEN [runs[x] EXCEPT !.status = "settled"]
       ELSE runs[x]]
  /\ UserMessage(r, s, resent)
  /\ Become(r, IF Latest(s) = NoSummary THEN Built(r, s, TRUE)
               ELSE [NoWorker EXCEPT !.phase = "syncing", !.sync = Latest(s)])
  /\ Mishap(resent)
  /\ UNCHANGED <<drafts, streamed, flush, summaries, mirror, memories, branch, lost, gapped>>

\* The configuration is refused, or the session is busy: persistEarlyFailedUserMessage.
Refuse(r, s, resent) ==
  /\ NewRun(r) /\ Exists(s) /\ (resent => Resendable(s))
  /\ runs' = [runs EXCEPT ![r] =
       [status |-> "settled", session |-> s, compiled |-> FALSE]]
  /\ UserMessage(r, s, resent)
  /\ Mishap(TRUE)
  /\ UNCHANGED <<worker, drafts, streamed, flush, summaries, mirror, memories, branch,
                 lost, gapped>>

\* mirrorSummary returned or failed (the failure is swallowed); the prompt is built
\* from the summaries and messages there are now.
Synced(r, ok) ==
  LET s == runs[r].session IN
  /\ worker[r].phase = "syncing"
  /\ mirror' = IF ok THEN [mirror EXCEPT ![s] = worker[r].sync.kept] ELSE mirror
  /\ Mishap(~ok)
  /\ Become(r, Built(r, s, ok))
  /\ UNCHANGED <<runs, drafts, streamed, flush, messages, summaries, memories, branch,
                 lost, gapped>>

\* run().catch: the row of a new run becomes failed, that of a resumed one stays.
PrepareFails(r) ==
  /\ worker[r].phase \in {"syncing", "preparing"}
  /\ IF worker[r].resumed THEN UNCHANGED runs ELSE Status(r, "settled")
  /\ Become(r, NoWorker)
  /\ Mishap(TRUE)
  /\ UNCHANGED <<drafts, streamed, flush, tables, lost, gapped>>

\* The cancel handle is registered and the agent starts, with its prompt; its first
\* context is compiled.
Start(r) ==
  /\ worker[r].phase = "preparing"
  /\ runs' = [runs EXCEPT ![r].compiled = TRUE]
  /\ Become(r, [NoWorker EXCEPT !.phase = "streaming", !.resumed = worker[r].resumed])
  /\ UNCHANGED <<drafts, streamed, flush, tables, lost, gapped, faults>>

-----------------------------------------------------------------------------
(* The run streams and ends.                                                *)

\* An event of an assistant message: text, reasoning or a tool call.  The message may
\* be one that a suspension has stored already.
Observe(r, n) ==
  /\ worker[r].phase = "streaming"
  /\ n <= streamed[r] + 1
  /\ drafts' = [drafts EXCEPT ![r] = @ \cup {n}]
  /\ streamed' = [streamed EXCEPT ![r] = Larger(n, @)]
  /\ UNCHANGED <<runs, worker, flush, tables, lost, gapped, faults>>

\* The finalizer writes the status and the request is over; drafts are persisted first.
Flushed(r, status) ==
  /\ PersistDrafts(r)
  /\ Status(r, status)
  /\ Become(r, NoWorker)
  /\ Mishap(TRUE)
  /\ UNCHANGED <<streamed, flush, summaries, mirror, memories, branch, lost, gapped>>

\* Drafts are dropped with the observer that holds them.
Dropped(r) ==
  /\ drafts' = [drafts EXCEPT ![r] = {}]
  /\ lost' = IF drafts[r] = {} THEN lost ELSE lost \cup {r}
  /\ Become(r, NoWorker)
  /\ UNCHANGED <<streamed, flush, tables, gapped>>

\* Mutant: a suspension does not flush the drafts.
Suspend_Unflushed(r) ==
  /\ worker[r].phase = "streaming"
  /\ drafts' = [drafts EXCEPT ![r] = {}]
  /\ Status(r, "suspended") /\ Become(r, NoWorker)
  /\ Mishap(TRUE)
  /\ UNCHANGED <<streamed, flush, tables, lost, gapped>>
\* RunFinalizer.suspend.
Suspend(r) == worker[r].phase = "streaming" /\ Flushed(r, "suspended")

\* A resumed run stores no user message and is given no history.
Resume(r) ==
  LET s == runs[r].session IN
  /\ runs[r].status = "suspended"
  /\ Cardinality(AtWork) < MaxAtWork
  /\ \A x \in ActiveIn(s) \ {r} : ~Holds(x)
  /\ runs' = [x \in Runs |->
       IF x = r THEN [runs[x] EXCEPT !.status = "running"]
       ELSE IF x \in ActiveIn(s) THEN [runs[x] EXCEPT !.status = "settled"]
       ELSE runs[x]]
  /\ Become(r, [NoWorker EXCEPT !.phase = "preparing", !.resumed = TRUE])
  /\ UNCHANGED <<drafts, streamed, flush, tables, lost, gapped, faults>>

\* RunFinalizer.cancelRun, by the cancel endpoint through the handle, and fail: an
\* error or timeout of the stream, or a run that the protocol does not let complete.
CancelOrFail(r) == worker[r].phase \in {"streaming", "finishing"} /\ Flushed(r, "settled")

\* The cancel endpoint finds no handle: only the row changes.
CancelOrphan(r) ==
  /\ runs[r].status \in Active /\ worker[r].phase # "streaming"
  /\ Status(r, "settled")
  /\ Mishap(TRUE)
  /\ UNCHANGED <<worker, drafts, streamed, flush, tables, lost, gapped>>

\* The client goes away or the stream ends without a terminal event; the row stays.
Abandon(r) ==
  /\ worker[r].phase \in {"preparing", "streaming"}
  /\ Mishap(TRUE)
  /\ Dropped(r) /\ UNCHANGED runs

\* RUN_FINISHED of a run that was resumed with an answer of false: RunFinalizer.cancel
\* does not flush.
FinishDeclined(r) ==
  /\ worker[r].phase = "streaming" /\ worker[r].resumed
  /\ Dropped(r) /\ Status(r, "settled") /\ UNCHANGED faults

\* RUN_FINISHED: the handle is given back and completeProtocolRun awaits.
Finish(r) ==
  /\ worker[r].phase = "streaming"
  /\ Become(r, [worker[r] EXCEPT !.phase = "finishing"])
  /\ UNCHANGED <<runs, drafts, streamed, flush, tables, lost, gapped, faults>>

-----------------------------------------------------------------------------
(* The flush of a run that completes.                                       *)

\* The rows createAutomaticConversationSummary summarizes, of n rows in the table.
Unsummarized(s, n) == Larger(Latest(s).to, n - Smaller(LoadLimit, n)) + 1 .. n

\* Mutant: the recent messages are left out of the range, not of the text.
Source_All(s, n) == Unsummarized(s, n)
Source(s, n) == {p \in Unsummarized(s, n) : p + KeepRecent <= n}

Summarizes(s, n) == Cardinality(Unsummarized(s, n)) >= Trigger /\ Source(s, n) # {}

\* Mutant: the model is not given the previous summary.
Proposed_Fresh(s, n) ==
  LET first == Larger(Latest(s).to, n - Smaller(LoadLimit, n)) + 1 IN
  [from |-> IF Latest(s) = NoSummary THEN first ELSE Latest(s).from,
   first |-> first, to |-> n - KeepRecent, kept |-> Source(s, n)]
\* What a summary of n messages would be, with the latest one before it.
Proposed(s, n) ==
  LET first == Larger(Latest(s).to, n - Smaller(LoadLimit, n)) + 1 IN
  [from |-> IF Latest(s) = NoSummary THEN first ELSE Latest(s).from,
   first |-> first, to |-> n - KeepRecent, kept |-> Latest(s).kept \cup Source(s, n)]

\* create: INSERT OR IGNORE on the id, made of first and to, and on (from, to).
Clashing(s, z) ==
  {i \in DOMAIN summaries[s] :
     summaries[s][i].to = z.to
     /\ (summaries[s][i].first = z.first \/ summaries[s][i].from = z.from)}
SameRange(s, z) == {i \in Clashing(s, z) : summaries[s][i].from = z.from}

\* The flush of r goes on as f.  When it has returned in time, the run is completed.
GoOn(r, f) ==
  /\ flush' = [flush EXCEPT ![r] = f]
  /\ IF f = NoFlush
     THEN Status(r, "settled") /\ Become(r, NoWorker)
     ELSE UNCHANGED runs /\ Become(r, [worker[r] EXCEPT !.phase = "finalizing"])

\* An aborted flush throws at its next check, and nobody listens.
Aborts(r) ==
  /\ flush[r].aborted
  /\ flush' = [flush EXCEPT ![r] = NoFlush]
  /\ UNCHANGED <<runs, worker>>

\* extractAndPersist asks a model only if there are messages to extract from.
Extraction(source) ==
  IF source THEN [NoFlush EXCEPT !.step = "extracting"] ELSE NoFlush

\* flushCompletedMemory up to its first await.
BeginFlush(r) ==
  LET s == runs[r].session
      n == Len(Appended(r))
      source == ~worker[r].resumed \/ drafts[r] # {}
  IN
  /\ worker[r].phase = "finishing"
  /\ PersistDrafts(r)
  /\ IF Summarizes(s, n)
     THEN /\ GoOn(r, [step |-> "summarizing", aborted |-> FALSE,
                      pending |-> Proposed(s, n), source |-> source])
          /\ gapped' = IF n > Latest(s).to + LoadLimit THEN gapped \cup {s} ELSE gapped
     ELSE GoOn(r, Extraction(source)) /\ UNCHANGED gapped
  /\ UNCHANGED <<streamed, summaries, mirror, memories, branch, lost, faults>>

\* Mutant: the signal is not looked at again after the model has answered.
Summarized_Unchecked(r) ==
  LET s == runs[r].session
      f == flush[r]
  IN
  /\ f.step = "summarizing"
  /\ summaries' = IF Clashing(s, f.pending) = {}
                  THEN [summaries EXCEPT ![s] = Append(@, f.pending)] ELSE summaries
  /\ \/ f.aborted /\ Aborts(r)
     \/ ~f.aborted /\ GoOn(r, [f EXCEPT !.step = "mirroring"])
  /\ UNCHANGED <<drafts, streamed, messages, mirror, memories, branch, lost, gapped, faults>>
\* The summary is written, by a model or the fallback; it is stored unless another one
\* has its range, and not mirrored if that one only shares its id.
Summarized(r) ==
  LET s == runs[r].session
      f == flush[r]
  IN
  /\ f.step = "summarizing"
  /\ \/ Aborts(r) /\ UNCHANGED summaries
     \/ /\ ~f.aborted /\ Clashing(s, f.pending) = {}
        /\ summaries' = [summaries EXCEPT ![s] = Append(@, f.pending)]
        /\ GoOn(r, [f EXCEPT !.step = "mirroring"])
     \/ /\ ~f.aborted
        /\ \E i \in SameRange(s, f.pending) :
             GoOn(r, [f EXCEPT !.step = "mirroring", !.pending = summaries[s][i]])
        /\ UNCHANGED summaries
     \/ /\ ~f.aborted /\ Clashing(s, f.pending) # {} /\ SameRange(s, f.pending) = {}
        /\ GoOn(r, Extraction(f.source))
        /\ UNCHANGED summaries
  /\ UNCHANGED <<drafts, streamed, messages, mirror, memories, branch, lost, gapped, faults>>

\* mirrorSummary has written the working memory, or failed, aborted or not.
Mirrored(r, ok) ==
  LET f == flush[r] IN
  /\ f.step = "mirroring"
  /\ mirror' = IF ok THEN [mirror EXCEPT ![runs[r].session] = f.pending.kept] ELSE mirror
  /\ Mishap(~ok)
  /\ Aborts(r) \/ (~f.aborted /\ GoOn(r, Extraction(f.source)))
  /\ UNCHANGED <<drafts, streamed, messages, summaries, memories, branch, lost, gapped>>

\* The memories that were found, if any, are stored and the client is told.
Extracted(r) ==
  /\ flush[r].step = "extracting"
  /\ \/ Aborts(r) /\ UNCHANGED memories
     \/ /\ ~flush[r].aborted
        /\ memories' = memories \cup {r}
        /\ GoOn(r, NoFlush)
  /\ UNCHANGED <<drafts, streamed, messages, summaries, mirror, branch, lost, gapped, faults>>

\* flushCompletedMemoryWithTimeout: the flush is aborted and the run completed.
Timeout(r) ==
  /\ worker[r].phase = "finalizing"
  /\ flush' = [flush EXCEPT ![r].aborted = TRUE]
  /\ Status(r, "settled") /\ Become(r, NoWorker)
  /\ UNCHANGED <<drafts, streamed, tables, lost, gapped, faults>>

-----------------------------------------------------------------------------
(* Forks, and the process.                                                  *)

RowsOf(r) == {p \in DOMAIN messages[runs[r].session] : messages[runs[r].session][p].run = r}
UserRowsOf(r) == {p \in RowsOf(r) : messages[runs[r].session][p].n = 0}

\* Mutant: the run that is rewritten is inherited up to its user message.
ForkEnd_Inclusive(r, checkpoint) ==
  IF UserRowsOf(r) # {} THEN Min(UserRowsOf(r))
  ELSE IF RowsOf(r) # {} THEN Min(RowsOf(r)) - 1 ELSE 0
\* runRewriteForkMessageEndPosition; a fork at a checkpoint keeps the user message.
ForkEnd(r, checkpoint) ==
  IF checkpoint /\ UserRowsOf(r) # {} THEN Min(UserRowsOf(r))
  ELSE IF RowsOf(r) # {} THEN Min(RowsOf(r)) - 1 ELSE 0

\* createSessionBranch: the fork of a settled run becomes session c.
Fork(r, c, checkpoint) ==
  /\ runs[r].status = "settled"
  /\ checkpoint => runs[r].compiled
  /\ c # 1 /\ branch[c] = NoBranch /\ \A x \in 1..(c - 1) : Exists(x)
  /\ branch' = [branch EXCEPT ![c] =
       [parent |-> runs[r].session, run |-> r, end |-> ForkEnd(r, checkpoint),
        checkpoint |-> checkpoint, rowless |-> RowsOf(r) = {}]]
  /\ UNCHANGED <<runs, worker, drafts, streamed, flush, messages, summaries, mirror,
                 memories, lost, gapped, faults>>

Crash ==
  /\ Mishap(TRUE)
  /\ worker' = [r \in Runs |-> NoWorker]
  /\ flush' = [r \in Runs |-> NoFlush]
  /\ drafts' = [r \in Runs |-> {}]
  /\ lost' = lost \cup {r \in Runs : drafts[r] # {}}
  /\ UNCHANGED <<runs, streamed, tables, gapped>>

-----------------------------------------------------------------------------
Begins(r) ==
  \/ \E s \in Sessions, resent \in BOOLEAN : Claim(r, s, resent) \/ Refuse(r, s, resent)
  \/ \E ok \in BOOLEAN : Synced(r, ok)
  \/ PrepareFails(r) \/ Start(r)
  \/ Resume(r)

Streams(r) ==
  \/ \E n \in 1..MaxDrafts : Observe(r, n)
  \/ Suspend(r) \/ CancelOrFail(r) \/ CancelOrphan(r) \/ Abandon(r)
  \/ FinishDeclined(r) \/ Finish(r)

Flushes(r) ==
  \/ BeginFlush(r) \/ Summarized(r) \/ Extracted(r) \/ Timeout(r)
  \/ \E ok \in BOOLEAN : Mirrored(r, ok)

Next ==
  \/ \E r \in Runs : Begins(r) \/ Streams(r) \/ Flushes(r)
  \/ \E r \in Runs, c \in Sessions, checkpoint \in BOOLEAN : Fork(r, c, checkpoint)
  \/ Crash

Spec == Init /\ [][Next]_vars

-----------------------------------------------------------------------------
(* Properties.                                                              *)

\* Every variable keeps its type; a summary is about messages that are stored.
TypeOK ==
  /\ runs \in [Runs -> Row]
  /\ worker \in [Runs -> Worker]
  /\ streamed \in [Runs -> 0..MaxDrafts]
  /\ drafts \in [Runs -> SUBSET (1..MaxDrafts)]
  /\ \A r \in Runs : drafts[r] \subseteq 1..streamed[r]
  /\ flush \in [Runs -> Flush]
  /\ messages \in [Sessions -> Seq(Message)]
  /\ summaries \in [Sessions -> Seq(Summary)]
  /\ \A s \in Sessions : \A i \in DOMAIN summaries[s] :
       /\ summaries[s][i].kept \subseteq 1..summaries[s][i].to
       /\ summaries[s][i].to <= Len(messages[s])
  /\ mirror \in [Sessions -> SUBSET Nat]
  /\ memories \subseteq Runs /\ lost \subseteq Runs /\ gapped \subseteq Sessions
  /\ branch \in [Sessions -> Branch]
  /\ \A s \in Sessions : branch[s] # NoBranch => branch[s].parent \in 1..(s - 1)
  /\ faults \in 0..MaxFaults

\* A summary was written from every message of the range it is stored under, whatever
\* runs flushed at once, unless more messages than the load limit were waiting
\* (createAutomaticConversationSummary).
SummariesAreWhole ==
  \A s \in Sessions \ gapped : \A i \in DOMAIN summaries[s] :
    summaries[s][i].from = 1 /\ summaries[s][i].kept = 1..summaries[s][i].to

\* Positions of session s as positions among all that it sees.
Seen(s, S) == {p + Len(Inherited(s)) : p \in S}

\* When a prompt is built, everything said before is in it or in the working memory,
\* inherited messages included: unless the working memory could not be written or a
\* newer summary came meanwhile, or there is more than the prompt holds
\* (buildRunMessages, resolveSessionLineage).
ConversationIsSeen ==
  [][\A r \in Runs :
       LET s == runs'[r].session
           w == worker'[r]
       IN  (/\ w.phase = "preparing" /\ ~w.resumed /\ w.synced
            /\ worker[r].phase = "none" \/ (worker[r].phase = "syncing" /\ worker[r].sync = Latest(s))
            /\ s \notin gapped
            /\ Cardinality({p \in Before(r, s) : p > w.cut}) <= HistoryLimit)
           => Before(r, s) \subseteq w.prompt \cup Seen(s, mirror'[s])]_vars

\* A fork sees nothing of the run it was forked at, save its user message at a
\* checkpoint, whatever the run stores later; and it sees all that was said before,
\* unless the run had stored nothing (createSessionBranch).
ForksAreClean ==
  \A c \in Sessions : branch[c] # NoBranch =>
    LET b == branch[c]
        m == messages[b.parent]
    IN  /\ b.end <= Len(m)
        /\ \A p \in 1..b.end : m[p].run = b.run => b.checkpoint /\ m[p].n = 0
        /\ b.rowless \/ \A p \in DOMAIN m : p > b.end => \E q \in 1..p : m[q].run = b.run

\* Every message a run streamed is stored once, at the latest when its request is over,
\* unless the drafts were dropped: by a crash, a stream that was abandoned, or a
\* declined interaction (flushDrafts, flushCompleted).
DraftsAreKept ==
  \A r \in Runs \ lost : \A n \in 1..streamed[r] :
    LET at == {p \in RowsOf(r) : messages[runs[r].session][p].n = n}
    IN  Cardinality(at) = 1 \/ (at = {} /\ n \in drafts[r])

\* A flush that was aborted creates no summary and no memory any more, and leaves the
\* status of its run alone (throwIfAborted).
AbortedFlushIsSilent ==
  [][\A r \in Runs : flush[r].aborted /\ flush'[r] # flush[r]
       => UNCHANGED <<runs, summaries, memories>>]_vars

\* scripts/smoke-conversation-memory.mjs:517: "Expected summarized positions to be
\* replaced by latest summary".  When the agent starts and no mirroring is in progress,
\* the messages left out of its prompt as summarized are in its working memory, which
\* was written before.
SummaryStandsIn ==
  [][\A r \in Runs :
       LET s == runs[r].session IN
       (/\ worker[r].phase = "preparing" /\ worker'[r].phase = "streaming"
        /\ worker[r].synced /\ s \notin gapped
        /\ \A x \in Runs : flush[x].step # "mirroring")
       => {p \in Before(r, s) : p <= worker[r].cut} \subseteq Seen(s, mirror[s])]_vars

=============================================================================
