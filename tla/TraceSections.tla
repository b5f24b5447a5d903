--------------------------- MODULE TraceSections ---------------------------
(***************************************************************************)
(* The trace sections of one run (apps/api, trace-section-coordinator.ts): *)
(* while the run's events are persisted, a TraceSectionCoordinator cuts    *)
(* them into sections, asking a model for the phase of each.  Every        *)
(* request that drives the run constructs a coordinator of its own, and a  *)
(* coordinator goes on after its request was suspended.                    *)
(*                                                                         *)
(* Sections are keyed by their first event, which is what their id is made *)
(* of; a summary is its phase key, which decides whether it is merged.     *)
(***************************************************************************)
EXTENDS Naturals, FiniteSets

CONSTANTS
  MaxCoordinators,  \* bound on requests that drive the run
  MaxEvents,        \* bound on persisted events of the run
  MaxCrashes,       \* bound on process crashes
  StepsPerCheck,    \* CONTEXT_STEPS_PER_SECTION_CHECK
  ChunkSteps,       \* MAX_CONTEXT_STEPS_PER_SUMMARY_CHUNK
  SectionSteps,     \* MAX_CONTEXT_STEPS_PER_SECTION
  PhaseKeys         \* phase keys a summary or its fallback may carry

ASSUME BoundsAssumption ==
  /\ MaxCoordinators \in Nat \ {0} /\ MaxEvents \in Nat /\ MaxCrashes \in Nat
ASSUME StepsAssumption ==
  /\ StepsPerCheck \in Nat \ {0} /\ ChunkSteps \in Nat \ {0} /\ SectionSteps \in Nat
  /\ ChunkSteps <= SectionSteps
ASSUME KeysAssumption == PhaseKeys # {}

Coordinators == 1..MaxCoordinators

VARIABLES
  seq,         \* seq of the last persisted event
  contexts,    \* events with a checkpoint of kind context-compiled
  terminal,    \* the RUN_FINISHED or RUN_ERROR event, 0 before it
  run,         \* what the run's request is doing
  driver,      \* the coordinator of the last request
  coord,       \* the fields of each TraceSectionCoordinator
  sections,    \* table trace_sections of the run, by start_event_seq
  crashes,
  overlapped   \* history: a coordinator began while another was still at work

vars == <<seq, contexts, terminal, run, driver, coord, sections, crashes, overlapped>>

Section == [end : Nat, open : BOOLEAN, key : PhaseKeys]
SomeKey == CHOOSE k \in PhaseKeys : TRUE
NoSection == [end |-> 0, open |-> FALSE, key |-> SomeKey]

\* pendingByRun and one summarizeRange; an end of 0 is no entry, a latest of 0 no
\* section, and `range` is the end the pending entry asked for.
Pending == [end : Nat, force : BOOLEAN]
Nothing == [end |-> 0, force |-> FALSE]
Job == [step : {"idle", "asking", "returned"}, range : Nat, force : BOOLEAN,
        start : Nat, end : Nat, latest : Nat, snapshot : Section]
Idle == [step |-> "idle", range |-> 0, force |-> FALSE,
         start |-> 0, end |-> 0, latest |-> 0, snapshot |-> NoSection]

Coordinator == [alive : BOOLEAN, pending : Pending, microtasks : Nat,
                processing : BOOLEAN, job : Job]
Unused == [alive |-> FALSE, pending |-> Nothing, microtasks |-> 0,
           processing |-> FALSE, job |-> Idle]
Fresh == [Unused EXCEPT !.alive = TRUE]

AtWork(c) == coord[c].pending # Nothing \/ coord[c].microtasks > 0 \/ coord[c].processing

Contexts(a, b) == {x \in contexts : a <= x /\ x <= b}

-----------------------------------------------------------------------------
(* observe and schedule.                                                    *)

\* Mutant: the force of an entry that is replaced is forgotten.
Merged_LastForce(p, q) ==
  [end |-> IF p.end >= q.end THEN p.end ELSE q.end, force |-> q.force]
Merged(p, q) ==
  [end |-> IF p.end >= q.end THEN p.end ELSE q.end, force |-> p.force \/ q.force]

\* Mutant: the microtask is queued only for an entry that forces completion.
Woken_Forced(c, entry) == IF coord[c].processing \/ ~entry.force THEN 0 ELSE 1
Woken(c, entry) == IF coord[c].processing THEN 0 ELSE 1

Scheduled(c, entry) ==
  [coord[c] EXCEPT !.pending = Merged(@, entry), !.microtasks = @ + Woken(c, entry)]

\* Mutant: the entry ends one event late.
Entry_Late(force) == [end |-> seq + 2, force |-> force]
\* The entry for the event being persisted.
Entry(force) == [end |-> seq + 1, force |-> force]

Checked(n) == n >= StepsPerCheck /\ n % StepsPerCheck = 0

\* The pipeline persists one event of the run and shows it to the coordinator.
Streams == run = "running" /\ seq < MaxEvents /\ seq' = seq + 1

Event ==
  /\ Streams
  /\ UNCHANGED <<contexts, terminal, run, driver, coord, sections, crashes, overlapped>>

ContextCompiled ==
  /\ Streams
  /\ contexts' = contexts \cup {seq + 1}
  /\ coord' = [coord EXCEPT ![driver] =
       IF Checked(Cardinality(contexts) + 1)
         THEN Scheduled(driver, Entry(FALSE)) ELSE @]
  /\ UNCHANGED <<terminal, run, driver, sections, crashes, overlapped>>

Terminate ==
  /\ Streams
  /\ terminal' = seq + 1
  /\ run' = "ended"
  /\ coord' = [coord EXCEPT ![driver] = Scheduled(driver, Entry(TRUE))]
  /\ UNCHANGED <<contexts, driver, sections, crashes, overlapped>>

\* An event persisted after the terminal one: a session's title, a failed tool.
LateEvent ==
  /\ run = "ended" /\ coord[driver].alive
  /\ seq < MaxEvents /\ seq' = seq + 1
  /\ UNCHANGED <<contexts, terminal, run, driver, coord, sections, crashes, overlapped>>

-----------------------------------------------------------------------------
(* processRun and summarizeRange.                                           *)

\* existingSections.at(-1), and the first event after it.
Latest ==
  IF DOMAIN sections = {} THEN 0
  ELSE CHOOSE s \in DOMAIN sections : \A t \in DOMAIN sections : t <= s
\* Mutant: the next section begins at the end of the latest.
Start_Again == IF Latest = 0 THEN 1 ELSE sections[Latest].end
Start == IF Latest = 0 THEN 1 ELSE sections[Latest].end + 1

\* The context step after a full chunk, if the range has one.
Beyond(p) ==
  {x \in Contexts(Start, p.end) : Cardinality(Contexts(Start, x)) = ChunkSteps + 1}
ChunkEnd(p) == IF Beyond(p) = {} THEN p.end ELSE (CHOOSE x \in Beyond(p) : TRUE) - 1

\* The early returns: the range is covered, or no full chunk is in it yet.
Early(p) == p.end < Start \/ (Beyond(p) = {} /\ ~p.force)

\* A forced range without a context step only extends the latest section.
Extends(p) ==
  ~Early(p) /\ p.force /\ Latest # 0 /\ Contexts(Start, p.end) = {}

\* The code of summarizeRange up to the model call.
Begun(p) ==
  [step |-> IF Early(p) \/ Extends(p) THEN "returned" ELSE "asking",
   range |-> p.end, force |-> p.force, start |-> Start,
   end |-> IF Early(p) \/ Extends(p) THEN p.end ELSE ChunkEnd(p),
   latest |-> Latest, snapshot |-> IF Latest = 0 THEN NoSection ELSE sections[Latest]]

Upserted(table, s, section) ==
  [x \in DOMAIN table \cup {s} |-> IF x = s THEN section ELSE table[x]]

\* One turn of the loop with pending entry p: take it, or stop.
Proceed(c, p, microtasks) ==
  /\ coord' = [coord EXCEPT
       ![c].pending = Nothing, ![c].microtasks = microtasks,
       ![c].processing = (p # Nothing),
       ![c].job = IF p = Nothing THEN Idle ELSE Begun(p)]
  /\ sections' = IF p # Nothing /\ Extends(p)
       THEN Upserted(sections, Latest, [sections[Latest] EXCEPT !.end = p.end, !.open = FALSE])
       ELSE sections
  /\ UNCHANGED <<seq, contexts, terminal, run, driver, crashes, overlapped>>

\* queueMicrotask(processRun), which returns at once when the run is being processed.
ProcessRun(c) ==
  /\ coord[c].microtasks > 0 /\ ~coord[c].processing
  /\ Proceed(c, coord[c].pending, coord[c].microtasks - 1)

ProcessRunAgain(c) ==
  /\ coord[c].microtasks > 0 /\ coord[c].processing
  /\ coord' = [coord EXCEPT ![c].microtasks = @ - 1]
  /\ UNCHANGED <<seq, contexts, terminal, run, driver, sections, crashes, overlapped>>

\* What a turn consumed less than it was asked for is put back before the next one.
PutBack(c) ==
  LET job == coord[c].job
  IN  IF job.end < job.range
        THEN Merged([end |-> job.range, force |-> job.force], coord[c].pending)
        ELSE coord[c].pending

NextTurn(c) ==
  /\ coord[c].job.step = "returned"
  /\ Proceed(c, PutBack(c), coord[c].microtasks)

\* Mutant: the size of the merged section is not bounded.
Merges_Unbounded(job, key) == job.latest # 0 /\ job.snapshot.key = key
\* The candidate continues the latest section, as it was read before the model call.
Merges(job, key) ==
  /\ job.latest # 0 /\ job.snapshot.key = key
  /\ Cardinality(Contexts(job.latest, job.snapshot.end))
       + Cardinality(Contexts(job.start, job.end)) <= SectionSteps

\* Mutant: the latest section is left open when another phase begins.
Closed_Never(job, key) == sections
Closed(job, key) ==
  IF job.latest # 0 /\ job.snapshot.open /\ ~Merges(job, key)
    THEN Upserted(sections, job.latest, [job.snapshot EXCEPT !.open = FALSE])
    ELSE sections

\* The model answered, or three attempts failed and the fallback is used.
Summarized(c, key) ==
  LET job == coord[c].job
      at == IF Merges(job, key) THEN job.latest ELSE job.start
  IN  /\ job.step = "asking"
      /\ sections' = Upserted(Closed(job, key), at,
           [end |-> job.end, open |-> ~(job.force /\ job.end = job.range), key |-> key])
      /\ coord' = [coord EXCEPT ![c].job.step = "returned"]
      /\ UNCHANGED <<seq, contexts, terminal, run, driver, crashes, overlapped>>

-----------------------------------------------------------------------------
(* The requests and the process.                                            *)

\* The request is interrupted.  No event ends the run, and its coordinator goes on.
Suspend ==
  /\ run = "running"
  /\ run' = "suspended"
  /\ UNCHANGED <<seq, contexts, terminal, driver, coord, sections, crashes, overlapped>>

\* A request resumes the run with a coordinator of its own; what the last one queued
\* as a microtask ran before the request came in.
Resume ==
  /\ run = "suspended" /\ driver < MaxCoordinators
  /\ coord[driver].microtasks = 0 /\ coord[driver].job.step # "returned"
  /\ run' = "running"
  /\ driver' = driver + 1
  /\ coord' = [coord EXCEPT ![driver + 1] = Fresh]
  /\ overlapped' = (overlapped \/ AtWork(driver))
  /\ UNCHANGED <<seq, contexts, terminal, sections, crashes>>

\* The process dies with its coordinators.  A running run is reclaimed, which persists
\* no event; a suspended one can still be resumed.
Crash ==
  /\ crashes < MaxCrashes
  /\ crashes' = crashes + 1
  /\ coord' = [c \in Coordinators |-> Unused]
  /\ run' = IF run = "running" THEN "reclaimed" ELSE run
  /\ UNCHANGED <<seq, contexts, terminal, driver, sections, overlapped>>

-----------------------------------------------------------------------------
Init ==
  /\ seq = 0 /\ contexts = {} /\ terminal = 0 /\ run = "running" /\ driver = 1
  /\ coord = [c \in Coordinators |-> IF c = 1 THEN Fresh ELSE Unused]
  /\ sections = [s \in {} |-> NoSection]
  /\ crashes = 0 /\ overlapped = FALSE

Observe == Event \/ ContextCompiled \/ Terminate

Summarize(c) ==
  \/ ProcessRun(c) \/ ProcessRunAgain(c) \/ NextTurn(c)
  \/ \E key \in PhaseKeys : Summarized(c, key)

Next ==
  \/ Observe \/ LateEvent \/ Suspend \/ Resume \/ Crash
  \/ \E c \in Coordinators : Summarize(c)

Spec == Init /\ [][Next]_vars

\* Microtasks and continuations run, and the model call settles: it answers, or its
\* last attempt fails.  Nothing makes the agent go on or the run end.
Fairness == \A c \in Coordinators : WF_vars(Summarize(c))
FairSpec == Spec /\ Fairness

-----------------------------------------------------------------------------
(* Properties.                                                              *)

\* Every variable keeps its type.
TypeOK ==
  /\ seq \in 0..MaxEvents /\ contexts \in SUBSET (1..seq) /\ terminal \in 0..seq
  /\ run \in {"running", "suspended", "ended", "reclaimed"}
  /\ driver \in Coordinators
  /\ coord \in [Coordinators -> Coordinator]
  /\ DOMAIN sections \in SUBSET (1..seq)
  /\ sections \in [DOMAIN sections -> Section]
  /\ \A s \in DOMAIN sections : sections[s].end <= seq
  /\ crashes \in 0..MaxCrashes /\ overlapped \in BOOLEAN

\* An entry of pendingByRun is never left behind: somebody will look at it, although
\* schedule wakes nobody while the run is being processed (schedule, processRun).
EntriesAreServed ==
  \A c \in Coordinators :
    coord[c].pending # Nothing => coord[c].processing \/ coord[c].microtasks > 0

\* The sections of a run tile its first events: each begins right after the one before
\* it, unless two coordinators were at work at once.
SectionsTile ==
  ~overlapped => \A s \in DOMAIN sections :
    /\ s <= sections[s].end
    /\ s = 1 \/ \E t \in DOMAIN sections : sections[t].end + 1 = s
    /\ \A t \in DOMAIN sections : s < t => sections[s].end < t

\* Only the last section of a run is in progress (mergeTarget, reachedTerminalRange).
OnlyLastIsOpen ==
  ~overlapped => \A s \in DOMAIN sections :
    sections[s].open => \A t \in DOMAIN sections : t <= s

\* A section is never cut empty and never merged beyond its limit; a run that ends
\* without a context step is one section.
SectionsAreBounded ==
  ~overlapped => \A s \in DOMAIN sections :
    LET n == Cardinality(Contexts(s, sections[s].end))
    IN  n <= SectionSteps /\ (n > 0 \/ sections[s].end = terminal)

\* Every event of the ended run up to its terminal one is in a section, and every
\* section is completed.
Complete ==
  /\ \E s \in DOMAIN sections : sections[s].end = terminal
  /\ \A s \in DOMAIN sections : ~sections[s].open

\* The sections of a run that ended are all completed in the end, unless two
\* coordinators were at work at once or the process died.
TerminalCompletes ==
  terminal # 0 ~> Complete \/ overlapped \/ ~coord[driver].alive

\* scripts/smoke-trace-sections.mjs:117: "Terminal run should complete every section."
\* Stated of a run that no crash interrupted, when its coordinators have finished.
TerminalRunCompletes ==
  crashes = 0 /\ terminal # 0 /\ (\A c \in Coordinators : ~AtWork(c)) => Complete

=============================================================================
