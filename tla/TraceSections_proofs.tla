------------------------- MODULE TraceSections_proofs -------------------------
(***************************************************************************)
(* Proofs of the safety properties of TraceSections for every number of    *)
(* events, requests and crashes and every size of a chunk and a section,   *)
(* and of what TerminalCompletes leaves to fairness: a coordinator that    *)
(* has no more work to do has completed the sections of an ended run.      *)
(***************************************************************************)
EXTENDS TraceSections, FiniteSetTheorems, WellFoundedInduction, TLAPS

-----------------------------------------------------------------------------
(* The least and the greatest number of a set: the order of the natural     *)
(* numbers is well-founded because strict inclusion of 0..m in 0..n is.      *)

LEMMA Least ==
  ASSUME NEW T \in SUBSET Nat, T # {}
  PROVE  \E n \in T : \A m \in T : n <= m
<1> DEFINE Below == {0..n : n \in T}
<1>1. Below \subseteq FiniteSubsetsOf(Nat)
  <2>1. ASSUME NEW n \in T
        PROVE  0..n \in SUBSET Nat /\ IsFiniteSet(0..n)
    BY FS_Interval
  <2> QED BY <2>1 DEF FiniteSubsetsOf
<1>2. Below # {}
  OBVIOUS
<1>3. PICK x \in Below : \A y \in Below : ~(<<y, x>> \in StrictSubsetOrdering(Nat))
  <2> HIDE DEF Below
  <2> QED BY <1>1, <1>2, FS_StrictSubsetOrderingWellFounded, WFMin
<1>4. PICK n \in T : x = 0..n
  OBVIOUS
<1>5. ASSUME NEW m \in T, m < n
      PROVE  FALSE
  <2>1. /\ 0..m \in Below /\ 0..m \in SUBSET Nat /\ x \in SUBSET Nat
        /\ 0..m \subseteq 0..n /\ 0..m # 0..n
    BY <1>4, <1>5
  <2>2. <<0..m, x>> \in StrictSubsetOrdering(Nat)
    BY <2>1, <1>4 DEF StrictSubsetOrdering
  <2> QED BY <2>1, <2>2, <1>3
<1> QED BY <1>5

LEMMA Greatest ==
  ASSUME NEW T \in SUBSET Nat, T # {}, NEW k \in Nat, \A t \in T : t <= k
  PROVE  \E n \in T : \A m \in T : m <= n
<1> DEFINE Bounds == {n \in Nat : \A m \in T : m <= n}
<1>1. PICK n \in Bounds : \A m \in Bounds : n <= m
  BY Least
<1>2. CASE n \in T
  BY <1>2
<1>3. CASE n \notin T
  <2>1. PICK t \in T : TRUE
    OBVIOUS
  <2>2. n > 0 /\ n - 1 \in Nat
    BY <1>3, <2>1
  <2>3. n - 1 \in Bounds
    BY <1>3, <2>2
  <2> QED BY <1>1, <2>2, <2>3
<1> QED BY <1>2, <1>3

-----------------------------------------------------------------------------
(* Counting the context steps of a range.                                   *)

LEMMA ContextsFinite ==
  ASSUME TypeOK, NEW a \in Nat, NEW b \in Nat
  PROVE  IsFiniteSet(Contexts(a, b)) /\ Cardinality(Contexts(a, b)) \in Nat
<1>1. IsFiniteSet(1..seq)
  <2>1. 1 \in Int /\ seq \in Int
    BY DEF TypeOK
  <2> QED BY <2>1, FS_Interval
<1>2. Contexts(a, b) \in SUBSET (1..seq)
  BY DEF Contexts, TypeOK
<1> QED BY <1>1, <1>2, FS_Subset, FS_CardinalityType

\* The last event of a range adds at most itself.
LEMMA OneMoreContext ==
  ASSUME TypeOK, NEW a \in Nat, NEW n \in Nat \ {0}
  PROVE  Cardinality(Contexts(a, n)) =
           IF n \in Contexts(a, n) THEN Cardinality(Contexts(a, n - 1)) + 1
           ELSE Cardinality(Contexts(a, n - 1))
<1>1. n - 1 \in Nat /\ IsFiniteSet(Contexts(a, n - 1)) /\ n \notin Contexts(a, n - 1)
  BY ContextsFinite DEF Contexts
<1>2. CASE n \in Contexts(a, n)
  <2>1. Contexts(a, n) = Contexts(a, n - 1) \cup {n}
    BY <1>2 DEF Contexts, TypeOK
  <2> QED BY <1>1, <1>2, <2>1, FS_AddElement
<1>3. CASE n \notin Contexts(a, n)
  <2>1. Contexts(a, n) = Contexts(a, n - 1)
    BY <1>3 DEF Contexts, TypeOK
  <2> QED BY <1>3, <2>1
<1> QED BY <1>2, <1>3

\* A range with more than k context steps has a step number k + 1.
LEMMA StepBeyond ==
  ASSUME TypeOK, NEW a \in Nat \ {0}, NEW b \in Nat, NEW k \in Nat,
         Cardinality(Contexts(a, b)) > k
  PROVE  \E x \in Contexts(a, b) : Cardinality(Contexts(a, x)) = k + 1
<1> DEFINE T == {n \in Nat : Cardinality(Contexts(a, n)) > k}
<1>1. PICK n \in T : \A m \in T : n <= m
  <2>1. b \in T
    OBVIOUS
  <2> HIDE DEF T
  <2>2. T \in SUBSET Nat
    BY DEF T
  <2> QED BY <2>1, <2>2, Least
<1>2. n # 0
  <2>1. Contexts(a, 0) = {}
    BY DEF Contexts, TypeOK
  <2> QED BY <2>1, FS_EmptySet
<1>3. n - 1 \in Nat /\ n - 1 \notin T /\ n <= b
  BY <1>1, <1>2
<1>4. Cardinality(Contexts(a, n - 1)) <= k
  BY <1>3, ContextsFinite
<1>5. n \in Contexts(a, n) /\ Cardinality(Contexts(a, n)) = k + 1
  <2>1. Cardinality(Contexts(a, n)) > k /\ n \in Nat \ {0}
    BY <1>2
  <2>2. Cardinality(Contexts(a, n)) =
          IF n \in Contexts(a, n) THEN Cardinality(Contexts(a, n - 1)) + 1
          ELSE Cardinality(Contexts(a, n - 1))
    BY <2>1, OneMoreContext
  <2>3. Cardinality(Contexts(a, n - 1)) \in Nat
    BY <1>3, ContextsFinite
  <2> HIDE DEF T
  <2> QED BY <1>4, <2>1, <2>2, <2>3
<1>6. n \in Contexts(a, b)
  BY <1>3, <1>5 DEF Contexts, TypeOK
<1> QED BY <1>5, <1>6

LEMMA Emptiness ==
  ASSUME TypeOK, NEW a \in Nat, NEW b \in Nat
  PROVE  Cardinality(Contexts(a, b)) = 0 <=> Contexts(a, b) = {}
  BY ContextsFinite, FS_EmptySet

\* Two ranges that follow each other have as many context steps as both together.
LEMMA AdjacentContexts ==
  ASSUME TypeOK, NEW a \in Nat, NEW b \in Nat, NEW c \in Nat, a <= b + 1, b <= c
  PROVE  Cardinality(Contexts(a, c)) =
           Cardinality(Contexts(a, b)) + Cardinality(Contexts(b + 1, c))
<1>0. b + 1 \in Nat
  OBVIOUS
<1>1. IsFiniteSet(Contexts(a, b)) /\ IsFiniteSet(Contexts(b + 1, c))
      /\ Cardinality(Contexts(a, b)) \in Nat /\ Cardinality(Contexts(b + 1, c)) \in Nat
  BY <1>0, ContextsFinite
<1>2. Contexts(a, b) \cap Contexts(b + 1, c) = {}
  BY DEF Contexts, TypeOK
<1>3. Contexts(a, c) = Contexts(a, b) \cup Contexts(b + 1, c)
  BY DEF Contexts, TypeOK
<1>4. Cardinality(Contexts(a, b) \cup Contexts(b + 1, c)) =
        Cardinality(Contexts(a, b)) + Cardinality(Contexts(b + 1, c)) - Cardinality({})
  BY <1>1, <1>2, FS_Union
<1> QED BY <1>1, <1>3, <1>4, FS_EmptySet

-----------------------------------------------------------------------------
(* The latest section and the next chunk.                                   *)

LEMMA LatestIsLast ==
  ASSUME TypeOK
  PROVE  /\ Latest \in 0..seq
         /\ Latest = 0 <=> DOMAIN sections = {}
         /\ Latest # 0 => Latest \in DOMAIN sections /\ Start = sections[Latest].end + 1
         /\ Latest = 0 => Start = 1
         /\ \A t \in DOMAIN sections : t <= Latest
         /\ Start \in 1..(seq + 1)
<1>1. DOMAIN sections \in SUBSET Nat /\ seq \in Nat /\ \A t \in DOMAIN sections : t <= seq
      /\ 0 \notin DOMAIN sections
  BY DEF TypeOK
<1>2. \A t \in DOMAIN sections : sections[t].end \in Nat /\ sections[t].end <= seq
  BY DEF TypeOK, Section
<1>3. CASE DOMAIN sections = {}
  BY <1>1, <1>3 DEF Latest, Start
<1>4. CASE DOMAIN sections # {}
  <2>1. \E s \in DOMAIN sections : \A t \in DOMAIN sections : t <= s
    BY <1>1, <1>4, Greatest
  <2>2. Latest \in DOMAIN sections /\ \A t \in DOMAIN sections : t <= Latest
    BY <1>4, <2>1 DEF Latest
  <2> QED BY <1>1, <1>2, <1>4, <2>2 DEF Start
<1> QED BY <1>3, <1>4

LEMMA NextChunk ==
  ASSUME TypeOK, NEW p \in Pending, p.end <= seq, ~Early(p)
  PROVE  /\ ChunkEnd(p) \in Nat /\ Start <= ChunkEnd(p) /\ ChunkEnd(p) <= p.end
         /\ Cardinality(Contexts(Start, ChunkEnd(p))) <= ChunkSteps
         /\ \/ Cardinality(Contexts(Start, ChunkEnd(p))) > 0
            \/ Contexts(Start, p.end) = {} /\ p.force /\ ChunkEnd(p) = p.end
<1>1. Start \in Nat \ {0} /\ p.end \in Nat /\ Start <= p.end /\ ChunkSteps \in Nat \ {0}
  BY LatestIsLast, StepsAssumption DEF Early, Pending, TypeOK
<1>2. CASE Beyond(p) = {}
  <2>1. ChunkEnd(p) = p.end /\ p.force
    BY <1>2 DEF ChunkEnd, Early
  <2>2. Cardinality(Contexts(Start, p.end)) \in Nat
    BY <1>1, ContextsFinite
  <2>3. ~(Cardinality(Contexts(Start, p.end)) > ChunkSteps)
    BY <1>1, <1>2, StepBeyond DEF Beyond
  <2>4. Cardinality(Contexts(Start, p.end)) = 0 <=> Contexts(Start, p.end) = {}
    BY <1>1, Emptiness
  <2> QED BY <1>1, <2>1, <2>2, <2>3, <2>4
<1>3. CASE Beyond(p) # {}
  <2>1. PICK x : /\ x \in Contexts(Start, p.end) /\ ChunkEnd(p) = x - 1
                 /\ Cardinality(Contexts(Start, x)) = ChunkSteps + 1
    BY <1>3 DEF Beyond, ChunkEnd
  <2>2. x \in Nat \ {0} /\ Start <= x /\ x <= p.end /\ x \in Contexts(Start, x) /\ x - 1 \in Nat
    BY <1>1, <2>1 DEF Contexts, TypeOK
  <2>3. Cardinality(Contexts(Start, x - 1)) = ChunkSteps
    <3>1. Cardinality(Contexts(Start, x)) = Cardinality(Contexts(Start, x - 1)) + 1
      BY <1>1, <2>2, OneMoreContext
    <3>2. Cardinality(Contexts(Start, x - 1)) \in Nat
      BY <1>1, <2>2, ContextsFinite
    <3> QED BY <1>1, <2>1, <3>1, <3>2
  <2>4. Start <= x - 1
    <3>1. CASE x = Start
      <4>1. Contexts(Start, x - 1) = {}
        BY <1>1, <3>1 DEF Contexts, TypeOK
      <4> QED BY <1>1, <2>3, <4>1, FS_EmptySet
    <3> QED BY <1>1, <2>2, <3>1
  <2> QED BY <1>1, <2>1, <2>2, <2>3, <2>4
<1> QED BY <1>2, <1>3

-----------------------------------------------------------------------------
(* The inductive invariant.                                                 *)

Asking(c) == coord[c].job.step = "asking"

\* What a coordinator remembers lies within the events persisted so far, and a range it
\* asks about is not empty.
Ranges ==
  \A c \in Coordinators :
    /\ coord[c].pending.end <= seq
    /\ coord[c].job.range <= seq /\ coord[c].job.latest <= seq /\ coord[c].job.snapshot.end <= seq
    /\ Asking(c) => 1 <= coord[c].job.start /\ coord[c].job.start <= coord[c].job.end
    /\ Asking(c) => coord[c].job.end <= coord[c].job.range
    /\ coord[c].processing <=> coord[c].job.step # "idle"

\* Nothing is cut beyond the terminal event, and a range is forced iff it ends there.
Terminals ==
  /\ terminal # 0 <=> run = "ended"
  /\ \A c \in Coordinators :
       /\ coord[c].pending.force <=> terminal # 0 /\ coord[c].pending.end = terminal
       /\ coord[c].job.force <=> terminal # 0 /\ coord[c].job.range = terminal
       /\ terminal # 0 => /\ coord[c].pending.end <= terminal
                          /\ coord[c].job.range <= terminal
                          /\ coord[c].job.snapshot.end <= terminal
  /\ terminal # 0 => \A s \in DOMAIN sections :
       sections[s].end <= terminal /\ (sections[s].end = terminal => ~sections[s].open)

\* Unless two coordinators overlapped, nobody but the last one is at work.
Alone == ~overlapped => \A c \in Coordinators \ {driver} : ~AtWork(c)

\* What the coordinator read before the model call still holds when the answer comes.
ReadsAreCurrent ==
  ~overlapped /\ Asking(driver) =>
    LET job == coord[driver].job
    IN  /\ job.latest = Latest /\ job.start = Start
        /\ job.latest # 0 => job.snapshot = sections[Latest]

\* The range it asks about holds a context step, unless the run ends with it, and not
\* more of them than a chunk has.
ChunksAreBounded ==
  ~overlapped /\ Asking(driver) =>
    LET n == Cardinality(Contexts(coord[driver].job.start, coord[driver].job.end))
    IN  n <= ChunkSteps /\ (n > 0 \/ coord[driver].job.end = terminal)

\* Once the run has ended, its coordinator has the forced range before it until the
\* sections are complete.
Duty ==
  ~overlapped /\ terminal # 0 /\ coord[driver].alive =>
    \/ coord[driver].pending.force
    \/ /\ coord[driver].job.force
       /\ \/ Asking(driver)
          \/ /\ coord[driver].job.step = "returned"
             /\ coord[driver].job.end < coord[driver].job.range
    \/ Complete

\* A coordinator that has no more work to do has completed the sections of an ended run.
FinishedIsComplete ==
  ~overlapped /\ terminal # 0 /\ coord[driver].alive /\ ~AtWork(driver) => Complete

IInv ==
  /\ TypeOK /\ EntriesAreServed /\ SectionsTile /\ OnlyLastIsOpen /\ SectionsAreBounded
  /\ Ranges /\ Terminals /\ Alone /\ ReadsAreCurrent /\ ChunksAreBounded /\ Duty
-----------------------------------------------------------------------------
(* Events are observed.                                                     *)

LEMMA Fields ==
  ASSUME TypeOK, NEW c \in Coordinators
  PROVE  /\ coord[c] \in Coordinator
         /\ coord[c].alive \in BOOLEAN /\ coord[c].processing \in BOOLEAN
         /\ coord[c].microtasks \in Nat
         /\ coord[c].pending \in Pending
         /\ coord[c].pending.end \in Nat /\ coord[c].pending.force \in BOOLEAN
         /\ coord[c].job \in Job
         /\ coord[c].job.step \in {"idle", "asking", "returned"}
         /\ coord[c].job.range \in Nat /\ coord[c].job.start \in Nat /\ coord[c].job.end \in Nat
         /\ coord[c].job.latest \in Nat /\ coord[c].job.force \in BOOLEAN
         /\ coord[c].job.snapshot \in Section /\ coord[c].job.snapshot.end \in Nat
<1>1. coord[c] \in Coordinator
  BY DEF TypeOK
<1>2. coord[c].pending \in Pending /\ coord[c].job \in Job
  BY <1>1 DEF Coordinator
<1>3. coord[c].job.snapshot \in Section
  BY <1>2 DEF Job
<1> QED BY <1>1, <1>2, <1>3 DEF Coordinator, Pending, Job, Section

LEMMA Table ==
  ASSUME TypeOK
  PROVE  /\ seq \in Nat
         /\ \A s \in DOMAIN sections :
              /\ s \in Nat /\ 1 <= s /\ s <= seq
              /\ sections[s] \in Section
              /\ sections[s].end \in Nat /\ sections[s].end <= seq
              /\ sections[s].open \in BOOLEAN
  BY DEF TypeOK, Section

\* What the driver schedules for the event that is being persisted.
LEMMA ScheduledEntry ==
  ASSUME IInv, terminal = 0, NEW force \in BOOLEAN
  PROVE  LET d == Scheduled(driver, Entry(force))
         IN  /\ d \in Coordinator
             /\ d.job = coord[driver].job /\ d.processing = coord[driver].processing
             /\ d.alive = coord[driver].alive
             /\ d.pending.end = seq + 1 /\ d.pending.force = force
             /\ d.processing \/ d.microtasks > 0
<1>1. driver \in Coordinators /\ seq \in Nat
  BY DEF IInv, TypeOK
<1>2. coord[driver].pending.end <= seq /\ coord[driver].pending.force = FALSE
  BY <1>1, Fields DEF IInv, Ranges, Terminals
<1>3. /\ Merged(coord[driver].pending, Entry(force)) \in Pending
      /\ Merged(coord[driver].pending, Entry(force)).end = seq + 1
      /\ Merged(coord[driver].pending, Entry(force)).force = force
  BY <1>1, <1>2, Fields DEF IInv, Merged, Entry, Pending
<1>4. /\ Woken(driver, Entry(force)) \in Nat
      /\ coord[driver].processing \/ Woken(driver, Entry(force)) > 0
  BY DEF Woken
<1>5. coord[driver] \in Coordinator /\ coord[driver].microtasks \in Nat
  BY <1>1, Fields DEF IInv
<1>6. coord[driver].microtasks + Woken(driver, Entry(force)) \in Nat
  BY <1>4, <1>5
<1>7. coord[driver].processing \/ coord[driver].microtasks + Woken(driver, Entry(force)) > 0
  BY <1>4, <1>5
<1> HIDE DEF Merged, Entry, Woken
<1> QED BY <1>3, <1>5, <1>6, <1>7 DEF Scheduled, Coordinator

LEMMA ObserveShape ==
  ASSUME IInv, Observe
  PROVE  /\ run = "running" /\ terminal = 0 /\ seq < MaxEvents /\ seq' = seq + 1
         /\ UNCHANGED <<driver, sections, crashes, overlapped>>
         /\ contexts' \in {contexts, contexts \cup {seq + 1}}
         /\ \/ terminal' = 0 /\ run' = "running"
            \/ terminal' = seq + 1 /\ run' = "ended"
         /\ coord' \in [Coordinators -> Coordinator]
         /\ \A c \in Coordinators :
              /\ coord'[c].job = coord[c].job /\ coord'[c].processing = coord[c].processing
              /\ coord'[c].alive = coord[c].alive
              /\ coord'[c].pending.end <= seq + 1
              /\ coord'[c].pending.force <=> terminal' # 0 /\ coord'[c].pending.end = terminal'
              /\ coord'[c].pending # Nothing => coord'[c].processing \/ coord'[c].microtasks > 0
              /\ c # driver => coord'[c] = coord[c]
         /\ terminal' # 0 => coord'[driver].pending.force
<1>1. run = "running" /\ terminal = 0 /\ seq < MaxEvents /\ seq' = seq + 1
  BY DEF Observe, Event, ContextCompiled, Terminate, Streams, IInv, Terminals
<1>2. UNCHANGED <<driver, sections, crashes, overlapped>>
  BY DEF Observe, Event, ContextCompiled, Terminate
<1>3. contexts' \in {contexts, contexts \cup {seq + 1}}
  BY DEF Observe, Event, ContextCompiled, Terminate
<1>4. \/ terminal' = 0 /\ run' = "running"
         /\ (coord' = coord \/ coord' = [coord EXCEPT ![driver] = Scheduled(driver, Entry(FALSE))])
      \/ terminal' = seq + 1 /\ run' = "ended"
         /\ coord' = [coord EXCEPT ![driver] = Scheduled(driver, Entry(TRUE))]
  BY <1>1 DEF Observe, Event, ContextCompiled, Terminate, IInv, TypeOK
<1>5. /\ coord \in [Coordinators -> Coordinator] /\ driver \in Coordinators /\ seq \in Nat
      /\ \A c \in Coordinators :
           /\ coord[c].pending.end \in Nat /\ coord[c].pending.end <= seq
           /\ ~coord[c].pending.force
           /\ coord[c].pending # Nothing => coord[c].processing \/ coord[c].microtasks > 0
  BY <1>1, Fields DEF IInv, TypeOK, Ranges, Terminals, EntriesAreServed
<1>6. CASE coord' = coord /\ terminal' = 0 /\ run' = "running"
  BY <1>1, <1>2, <1>3, <1>5, <1>6
<1>7. ASSUME NEW force \in BOOLEAN,
             coord' = [coord EXCEPT ![driver] = Scheduled(driver, Entry(force))],
             IF force THEN terminal' = seq + 1 /\ run' = "ended"
                      ELSE terminal' = 0 /\ run' = "running"
      PROVE  /\ coord' \in [Coordinators -> Coordinator]
             /\ \A c \in Coordinators :
                  /\ coord'[c].job = coord[c].job /\ coord'[c].processing = coord[c].processing
                  /\ coord'[c].alive = coord[c].alive
                  /\ coord'[c].pending.end <= seq + 1
                  /\ coord'[c].pending.force <=> terminal' # 0 /\ coord'[c].pending.end = terminal'
                  /\ coord'[c].pending # Nothing => coord'[c].processing \/ coord'[c].microtasks > 0
                  /\ c # driver => coord'[c] = coord[c]
             /\ terminal' # 0 => coord'[driver].pending.force
  <2>1. LET d == coord'[driver]
        IN  /\ d \in Coordinator
            /\ d.job = coord[driver].job /\ d.processing = coord[driver].processing
            /\ d.alive = coord[driver].alive
            /\ d.pending.end = seq + 1 /\ d.pending.force = force
            /\ d.processing \/ d.microtasks > 0
    BY <1>1, <1>5, <1>7, ScheduledEntry
  <2>2. \A c \in Coordinators : c # driver => coord'[c] = coord[c]
    BY <1>5, <1>7
  <2>3. coord' \in [Coordinators -> Coordinator]
    BY <1>5, <1>7, <2>1
  <2>4. force <=> terminal' # 0 /\ seq + 1 = terminal'
    BY <1>5, <1>7
  <2>5. ASSUME NEW c \in Coordinators
        PROVE
          /\ coord'[c].job = coord[c].job /\ coord'[c].processing = coord[c].processing
          /\ coord'[c].alive = coord[c].alive
          /\ coord'[c].pending.end <= seq + 1
          /\ coord'[c].pending.force <=> terminal' # 0 /\ coord'[c].pending.end = terminal'
          /\ coord'[c].pending # Nothing => coord'[c].processing \/ coord'[c].microtasks > 0
          /\ c # driver => coord'[c] = coord[c]
    <3>1. CASE c = driver
      BY <1>5, <2>1, <2>4, <3>1
    <3>2. CASE c # driver
      <4>1. coord'[c] = coord[c] /\ coord[c].pending.end # seq + 1 /\ coord[c].pending.end <= seq + 1
        BY <1>5, <2>2, <3>2
      <4>2. terminal' \in {0, seq + 1}
        BY <1>7
      <4> QED BY <1>5, <4>1, <4>2
    <3> QED BY <3>1, <3>2
  <2> QED BY <1>7, <2>1, <2>3, <2>5
<1>8. CASE /\ coord' = [coord EXCEPT ![driver] = Scheduled(driver, Entry(FALSE))]
           /\ terminal' = 0 /\ run' = "running"
  BY <1>1, <1>2, <1>3, <1>7, <1>8
<1>9. CASE /\ coord' = [coord EXCEPT ![driver] = Scheduled(driver, Entry(TRUE))]
           /\ terminal' = seq + 1 /\ run' = "ended"
  BY <1>1, <1>2, <1>3, <1>7, <1>9
<1> QED BY <1>4, <1>6, <1>8, <1>9

\* New events do not change what ranges of earlier events hold.
LEMMA EarlierContexts ==
  ASSUME TypeOK, contexts' \in {contexts, contexts \cup {seq + 1}},
         NEW a \in Nat, NEW b \in Nat, b <= seq
  PROVE  {x \in contexts' : a <= x /\ x <= b} = {x \in contexts : a <= x /\ x <= b}
  BY DEF TypeOK

LEMMA ObserveKeeps == ASSUME IInv, Observe PROVE IInv'
<1>1. /\ run = "running" /\ terminal = 0 /\ seq < MaxEvents /\ seq' = seq + 1
      /\ UNCHANGED <<driver, sections, crashes, overlapped>>
      /\ contexts' \in {contexts, contexts \cup {seq + 1}}
      /\ \/ terminal' = 0 /\ run' = "running"
         \/ terminal' = seq + 1 /\ run' = "ended"
      /\ coord' \in [Coordinators -> Coordinator]
  BY ObserveShape
<1>2. \A c \in Coordinators :
        /\ coord'[c].job = coord[c].job /\ coord'[c].processing = coord[c].processing
        /\ coord'[c].alive = coord[c].alive
        /\ coord'[c].pending.end <= seq + 1
        /\ coord'[c].pending.force <=> terminal' # 0 /\ coord'[c].pending.end = terminal'
        /\ coord'[c].pending # Nothing => coord'[c].processing \/ coord'[c].microtasks > 0
        /\ c # driver => coord'[c] = coord[c]
  BY ObserveShape
<1>3. terminal' # 0 => coord'[driver].pending.force
  BY ObserveShape
<1>4. /\ TypeOK /\ seq \in Nat /\ driver \in Coordinators /\ MaxEvents \in Nat
      /\ \A s \in DOMAIN sections :
           s \in Nat /\ sections[s].end \in Nat /\ sections[s].end <= seq /\ 1 <= s
  BY Table, BoundsAssumption DEF IInv, TypeOK
<1>5. TypeOK'
  <2>1. contexts' \in SUBSET (1..seq')
    BY <1>1, <1>4 DEF TypeOK
  <2> QED BY <1>1, <1>4, <2>1 DEF TypeOK
<1>6. EntriesAreServed'
  BY <1>2 DEF EntriesAreServed
<1>7. SectionsTile' /\ OnlyLastIsOpen'
  BY <1>1 DEF IInv, SectionsTile, OnlyLastIsOpen
<1>8. SectionsAreBounded'
  <2>1. ASSUME NEW s \in DOMAIN sections, ~overlapped
        PROVE  /\ Cardinality(Contexts(s, sections[s].end)) <= SectionSteps
               /\ Cardinality(Contexts(s, sections[s].end)) > 0
    <3>1. sections[s].end # 0
      BY <1>4, <2>1 DEF IInv, SectionsTile
    <3> QED BY <1>1, <2>1, <3>1 DEF IInv, SectionsAreBounded
  <2>2. \A s \in DOMAIN sections :
          {x \in contexts' : s <= x /\ x <= sections[s].end} = Contexts(s, sections[s].end)
    BY <1>1, <1>4, EarlierContexts DEF Contexts
  <2> QED BY <1>1, <2>1, <2>2 DEF SectionsAreBounded, Contexts
<1>9. Ranges'
  <2>1. ASSUME NEW c \in Coordinators
        PROVE  /\ coord[c].job.range <= seq + 1 /\ coord[c].job.latest <= seq + 1
               /\ coord[c].job.snapshot.end <= seq + 1
    BY <1>4, Fields DEF IInv, Ranges
  <2> QED BY <1>1, <1>2, <2>1 DEF IInv, Ranges, Asking
<1>10. Terminals'
  <2>1. ASSUME NEW c \in Coordinators
        PROVE  /\ ~coord[c].job.force /\ coord[c].job.range # seq + 1
               /\ coord[c].job.range <= seq + 1 /\ coord[c].job.snapshot.end <= seq + 1
    BY <1>1, <1>4, Fields DEF IInv, Ranges, Terminals
  <2>2. \A s \in DOMAIN sections : sections[s].end # seq + 1 /\ sections[s].end <= seq + 1
    BY <1>4
  <2>3. ASSUME NEW c \in Coordinators
        PROVE  /\ coord'[c].pending.force <=> terminal' # 0 /\ coord'[c].pending.end = terminal'
               /\ coord'[c].job.force <=> terminal' # 0 /\ coord'[c].job.range = terminal'
               /\ terminal' # 0 => /\ coord'[c].pending.end <= terminal'
                                   /\ coord'[c].job.range <= terminal'
                                   /\ coord'[c].job.snapshot.end <= terminal'
    BY <1>1, <1>2, <1>4, <2>1
  <2> QED BY <1>1, <1>4, <2>2, <2>3 DEF Terminals
<1>11. Alone'
  BY <1>1, <1>2 DEF IInv, Alone, AtWork
<1>12. ReadsAreCurrent'
  BY <1>1, <1>2, <1>4 DEF IInv, ReadsAreCurrent, Asking, Latest, Start
<1>13. ChunksAreBounded'
  <2> DEFINE job == coord[driver].job
  <2>1. CASE Asking(driver)
    <3>1. job.start \in Nat /\ job.end \in Nat /\ job.end <= seq /\ job.end # 0
      BY <1>4, <2>1, Fields DEF IInv, Ranges
    <3>2. {x \in contexts' : job.start <= x /\ x <= job.end} = Contexts(job.start, job.end)
      BY <1>1, <1>4, <3>1, EarlierContexts DEF Contexts
    <3>3. ~overlapped => /\ Cardinality(Contexts(job.start, job.end)) <= ChunkSteps
                         /\ Cardinality(Contexts(job.start, job.end)) > 0
      BY <1>1, <2>1, <3>1 DEF IInv, ChunksAreBounded
    <3>4. coord'[driver'].job = job
      BY <1>1, <1>2, <1>4
    <3> QED BY <1>1, <3>2, <3>3, <3>4 DEF ChunksAreBounded, Contexts
  <2>2. CASE ~Asking(driver)
    BY <1>1, <1>2, <1>4, <2>2 DEF ChunksAreBounded, Asking
  <2> QED BY <2>1, <2>2
<1>14. Duty'
  BY <1>1, <1>3 DEF Duty
<1> QED BY <1>5, <1>6, <1>7, <1>8, <1>9, <1>10, <1>11, <1>12, <1>13, <1>14 DEF IInv

LEMMA LateEventKeeps == ASSUME IInv, LateEvent PROVE IInv'
<1>1. /\ run = "ended" /\ seq < MaxEvents /\ seq' = seq + 1
      /\ UNCHANGED <<contexts, terminal, run, driver, coord, sections, crashes, overlapped>>
  BY DEF LateEvent
<1>2. seq \in Nat /\ MaxEvents \in Nat
  BY Table, BoundsAssumption DEF IInv
<1>3. TypeOK'
  BY <1>1, <1>2, Table DEF IInv, TypeOK
<1>4. ASSUME NEW c \in Coordinators
      PROVE  /\ coord[c].pending.end <= seq + 1
             /\ coord[c].job.range <= seq + 1 /\ coord[c].job.latest <= seq + 1
             /\ coord[c].job.snapshot.end <= seq + 1
  BY <1>2, Fields DEF IInv, Ranges
<1>5. Ranges'
  BY <1>1, <1>4 DEF IInv, Ranges, Asking
<1>6. EntriesAreServed' /\ Terminals' /\ Alone'
  BY <1>1 DEF IInv, EntriesAreServed, Terminals, Alone, AtWork
<1>7. SectionsTile' /\ OnlyLastIsOpen' /\ SectionsAreBounded'
  BY <1>1 DEF IInv, SectionsTile, OnlyLastIsOpen, SectionsAreBounded, Contexts
<1>8. ReadsAreCurrent' /\ ChunksAreBounded' /\ Duty'
  BY <1>1 DEF IInv, ReadsAreCurrent, ChunksAreBounded, Duty, Asking, Latest, Start, Contexts,
              Complete
<1> QED BY <1>3, <1>5, <1>6, <1>7, <1>8 DEF IInv

-----------------------------------------------------------------------------
(* A coordinator takes its next range.                                      *)

LEMMA NoSectionType == NoSection \in Section /\ NoSection.end = 0
  BY KeysAssumption DEF NoSection, Section, SomeKey

\* Entry p asks for events that are persisted, and for all of them iff it is forced.
Admissible(p) ==
  /\ p \in Pending /\ p.end <= seq /\ (p.force <=> terminal # 0 /\ p.end = terminal)
  /\ terminal # 0 => p.end <= terminal

LEMMA BegunJob ==
  ASSUME IInv, NEW p, Admissible(p)
  PROVE  LET job == Begun(p)
         IN  /\ job \in Job
             /\ job.range = p.end /\ job.force = p.force
             /\ job.latest = Latest /\ job.latest <= seq
             /\ job.start = Start
             /\ job.latest # 0 => job.snapshot = sections[Latest]
             /\ job.snapshot.end <= seq /\ (terminal # 0 => job.snapshot.end <= terminal)
             /\ \/ /\ job.step = "returned" /\ job.end = p.end
                   /\ Early(p) \/ Extends(p)
                \/ /\ job.step = "asking" /\ ~Early(p) /\ ~Extends(p)
                   /\ 1 <= job.start /\ job.start <= job.end /\ job.end <= p.end
                   /\ Cardinality(Contexts(job.start, job.end)) <= ChunkSteps
                   /\ Cardinality(Contexts(job.start, job.end)) > 0 \/ job.end = terminal
<1> DEFINE snapshot == IF Latest = 0 THEN NoSection ELSE sections[Latest]
<1>1. /\ p \in Pending /\ p.end \in Nat /\ p.force \in BOOLEAN /\ p.end <= seq /\ seq \in Nat
      /\ Latest \in Nat /\ Latest <= seq /\ Start \in Nat /\ 1 <= Start
  BY LatestIsLast, Table DEF IInv, Admissible, Pending
<1>2. /\ snapshot \in Section /\ snapshot.end <= seq
      /\ terminal # 0 => snapshot.end <= terminal
  <2>1. terminal \in Nat
    BY DEF IInv, TypeOK
  <2> QED BY <1>1, <2>1, LatestIsLast, Table, NoSectionType DEF IInv, Terminals
<1>3. CASE Early(p) \/ Extends(p)
  <2>1. Begun(p) = [step |-> "returned", range |-> p.end, force |-> p.force, start |-> Start,
                    end |-> p.end, latest |-> Latest, snapshot |-> snapshot]
    BY <1>3 DEF Begun
  <2> HIDE DEF snapshot
  <2>2. Begun(p) \in Job
    BY <1>1, <1>2, <2>1 DEF Job
  <2> QED BY <1>1, <1>2, <1>3, <2>1, <2>2 DEF snapshot
<1>4. CASE ~Early(p) /\ ~Extends(p)
  <2>1. Begun(p) = [step |-> "asking", range |-> p.end, force |-> p.force, start |-> Start,
                    end |-> ChunkEnd(p), latest |-> Latest, snapshot |-> snapshot]
    BY <1>4 DEF Begun
  <2>2. /\ ChunkEnd(p) \in Nat /\ Start <= ChunkEnd(p) /\ ChunkEnd(p) <= p.end
        /\ Cardinality(Contexts(Start, ChunkEnd(p))) <= ChunkSteps
        /\ \/ Cardinality(Contexts(Start, ChunkEnd(p))) > 0
           \/ p.force /\ ChunkEnd(p) = p.end
    BY <1>1, <1>4, NextChunk DEF IInv
  <2>3. p.force => p.end = terminal
    BY DEF Admissible
  <2> HIDE DEF snapshot
  <2>4. Begun(p) \in Job
    BY <1>1, <1>2, <2>1, <2>2 DEF Job
  <2> QED BY <1>1, <1>2, <1>4, <2>1, <2>2, <2>3, <2>4 DEF snapshot
<1> QED BY <1>3, <1>4

\* Extending the latest section to the end of the run.
LEMMA ExtendedTable ==
  ASSUME IInv, NEW p, Admissible(p), Extends(p)
  PROVE  LET T == Upserted(sections, Latest,
                           [sections[Latest] EXCEPT !.end = p.end, !.open = FALSE])
         IN  /\ Latest \in DOMAIN sections /\ DOMAIN T = DOMAIN sections
             /\ T \in [DOMAIN sections -> Section]
             /\ T[Latest].end = p.end /\ T[Latest].open = FALSE
             /\ \A t \in DOMAIN sections \ {Latest} : T[t] = sections[t]
             /\ p.end = terminal /\ terminal # 0
             /\ Start = sections[Latest].end + 1 /\ sections[Latest].end < p.end
             /\ Contexts(Start, p.end) = {}
<1>1. /\ p.force /\ Latest # 0 /\ Contexts(Start, p.end) = {} /\ ~(p.end < Start)
      /\ p.end \in Nat
  BY DEF Extends, Early, Admissible, Pending
<1>2. Latest \in DOMAIN sections /\ Start = sections[Latest].end + 1
      /\ sections[Latest] \in Section /\ sections[Latest].end \in Nat
  BY <1>1, LatestIsLast, Table DEF IInv
<1>3. p.end = terminal /\ terminal # 0
  BY <1>1 DEF Admissible
<1> DEFINE row == [sections[Latest] EXCEPT !.end = p.end, !.open = FALSE]
<1>4. row \in Section /\ row.end = p.end /\ row.open = FALSE
  BY <1>1, <1>2 DEF Section
<1> HIDE DEF row
<1>5. sections \in [DOMAIN sections -> Section]
  BY DEF IInv, TypeOK
<1> DEFINE T == Upserted(sections, Latest, row)
<1>6. /\ DOMAIN T = DOMAIN sections \cup {Latest}
      /\ T \in [DOMAIN sections \cup {Latest} -> Section]
      /\ T[Latest] = row /\ \A t \in DOMAIN sections \ {Latest} : T[t] = sections[t]
  BY <1>4, <1>5 DEF Upserted
<1> HIDE DEF T
<1>7. /\ DOMAIN T = DOMAIN sections /\ T \in [DOMAIN sections -> Section]
      /\ T[Latest].end = p.end /\ T[Latest].open = FALSE
      /\ \A t \in DOMAIN sections \ {Latest} : T[t] = sections[t]
  <2>1. DOMAIN sections \cup {Latest} = DOMAIN sections
    BY <1>2
  <2> QED BY <1>4, <1>6, <2>1
<1>8. sections[Latest].end < p.end
  BY <1>1, <1>2
<1> QED BY <1>1, <1>2, <1>3, <1>7, <1>8 DEF T, row

\* What is true of the table after a turn, whether it extended the latest section or not.
LEMMA TurnTable ==
  ASSUME IInv, NEW c \in Coordinators, NEW p, Admissible(p), NEW m, Proceed(c, p, m),
         UNCHANGED <<seq, contexts, terminal, overlapped>>
  PROVE  /\ DOMAIN sections' = DOMAIN sections
         /\ sections' \in [DOMAIN sections -> Section]
         /\ \A s \in DOMAIN sections : sections'[s].end <= seq
         /\ SectionsTile' /\ OnlyLastIsOpen' /\ SectionsAreBounded'
         /\ terminal # 0 => \A s \in DOMAIN sections :
              /\ sections'[s].end <= terminal
              /\ sections'[s].end = terminal => ~sections'[s].open
         /\ ~overlapped /\ terminal # 0 /\ Complete => Complete'
         /\ ~overlapped /\ Extends(p) => Complete'
         /\ ~Extends(p) => sections' = sections
<1>1. CASE ~Extends(p)
  <2>1. sections' = sections
    BY <1>1 DEF Proceed
  <2> QED BY <1>1, <2>1 DEF IInv, TypeOK, SectionsTile, OnlyLastIsOpen, SectionsAreBounded,
                            Contexts, Complete, Terminals
<1>2. CASE Extends(p)
  <2>1. sections' = Upserted(sections, Latest,
                             [sections[Latest] EXCEPT !.end = p.end, !.open = FALSE])
    <3>1. p # Nothing
      BY <1>2 DEF Extends, Nothing
    <3> QED BY <1>2, <3>1 DEF Proceed
  <2>2. /\ Latest \in DOMAIN sections /\ DOMAIN sections' = DOMAIN sections
        /\ sections' \in [DOMAIN sections -> Section]
        /\ sections'[Latest].end = p.end /\ sections'[Latest].open = FALSE
        /\ \A t \in DOMAIN sections \ {Latest} : sections'[t] = sections[t]
        /\ p.end = terminal /\ terminal # 0
        /\ Start = sections[Latest].end + 1 /\ sections[Latest].end < p.end
        /\ Contexts(Start, p.end) = {}
    BY <1>2, <2>1, ExtendedTable
  <2>3. /\ seq \in Nat /\ p.end \in Nat
        /\ \A s \in DOMAIN sections :
             s \in Nat /\ s <= Latest /\ sections[s].end \in Nat /\ sections[s].end <= seq
    BY LatestIsLast, Table DEF IInv, Admissible, Pending
  <2>4. SectionsTile'
    <3> SUFFICES ASSUME ~overlapped, NEW s \in DOMAIN sections
                 PROVE  /\ s <= sections'[s].end
                        /\ s = 1 \/ \E t \in DOMAIN sections : sections'[t].end + 1 = s
                        /\ \A t \in DOMAIN sections : s < t => sections'[s].end < t
      BY <2>2 DEF SectionsTile
    <3>1. /\ s <= sections[s].end
          /\ s = 1 \/ \E t \in DOMAIN sections : sections[t].end + 1 = s
          /\ \A t \in DOMAIN sections : s < t => sections[s].end < t
      BY DEF IInv, SectionsTile
    <3>2. s <= sections'[s].end
      BY <2>2, <2>3, <3>1
    <3>3. sections[Latest].end + 1 # s
      <4>1. Latest <= sections[Latest].end
        BY <2>2 DEF IInv, SectionsTile
      <4> QED BY <2>2, <2>3, <4>1
    <3>4. s = 1 \/ \E t \in DOMAIN sections : sections'[t].end + 1 = s
      BY <2>2, <3>1, <3>3
    <3>5. \A t \in DOMAIN sections : s < t => sections'[s].end < t
      BY <2>2, <2>3, <3>1
    <3> QED BY <3>2, <3>4, <3>5
  <2>5. OnlyLastIsOpen'
    BY <2>2 DEF IInv, OnlyLastIsOpen
  <2>6. SectionsAreBounded'
    <3> SUFFICES ASSUME ~overlapped, NEW s \in DOMAIN sections
                 PROVE  /\ Cardinality(Contexts(s, sections'[s].end)) <= SectionSteps
                        /\ \/ Cardinality(Contexts(s, sections'[s].end)) > 0
                           \/ sections'[s].end = terminal
      BY <2>2 DEF SectionsAreBounded, Contexts
    <3>1. /\ Cardinality(Contexts(s, sections[s].end)) <= SectionSteps
          /\ Cardinality(Contexts(s, sections[s].end)) > 0 \/ sections[s].end = terminal
      BY DEF IInv, SectionsAreBounded
    <3>2. CASE s = Latest
      <4>1. Contexts(Latest, p.end) = Contexts(Latest, sections[Latest].end)
        BY <2>2, <2>3 DEF IInv, TypeOK, Contexts
      <4> QED BY <2>2, <3>1, <3>2, <4>1
    <3>3. CASE s # Latest
      BY <2>2, <3>1, <3>3
    <3> QED BY <3>2, <3>3
  <2>7. ~overlapped => Complete'
    <3>1. \A s \in DOMAIN sections \ {Latest} : ~overlapped => ~sections[s].open
      BY <2>2, <2>3 DEF IInv, OnlyLastIsOpen
    <3> QED BY <2>2, <3>1 DEF Complete
  <2>8. \A s \in DOMAIN sections : sections'[s].end <= seq
    <3>1. p.end <= seq
      BY DEF Admissible
    <3> QED BY <2>2, <2>3, <3>1
  <2>9. \A s \in DOMAIN sections :
          sections'[s].end <= terminal /\ (sections'[s].end = terminal => ~sections'[s].open)
    BY <2>2, <2>3 DEF IInv, Terminals
  <2> QED BY <1>2, <2>2, <2>4, <2>5, <2>6, <2>7, <2>8, <2>9
<1> QED BY <1>1, <1>2

LEMMA TurnKeeps ==
  ASSUME IInv, NEW c \in Coordinators, NEW p, Admissible(p), NEW m \in Nat,
         AtWork(c), Proceed(c, p, m),
         ~overlapped /\ terminal # 0 /\ coord[driver].alive /\ ~p.force => Complete
  PROVE  IInv'
<1> DEFINE j == IF p = Nothing THEN Idle ELSE Begun(p)
<1>1. /\ UNCHANGED <<seq, contexts, terminal, run, driver, crashes, overlapped>>
      /\ coord' = [coord EXCEPT ![c].pending = Nothing, ![c].microtasks = m,
                                ![c].processing = (p # Nothing), ![c].job = j]
  BY DEF Proceed
<1>2. /\ DOMAIN sections' = DOMAIN sections
      /\ sections' \in [DOMAIN sections -> Section]
      /\ \A s \in DOMAIN sections : sections'[s].end <= seq
      /\ SectionsTile' /\ OnlyLastIsOpen' /\ SectionsAreBounded'
      /\ terminal # 0 => \A s \in DOMAIN sections :
           /\ sections'[s].end <= terminal
           /\ sections'[s].end = terminal => ~sections'[s].open
      /\ ~overlapped /\ terminal # 0 /\ Complete => Complete'
      /\ ~overlapped /\ Extends(p) => Complete'
      /\ ~Extends(p) => sections' = sections
  BY <1>1, TurnTable
<1>3. /\ j \in Job /\ (p = Nothing <=> j.step = "idle")
      /\ j.range = p.end /\ j.force = p.force /\ j.latest <= seq /\ j.snapshot.end <= seq
      /\ terminal # 0 => j.snapshot.end <= terminal
      /\ j.step = "asking" =>
           /\ j.latest = Latest /\ j.start = Start
           /\ j.latest # 0 => j.snapshot = sections[Latest]
           /\ ~Early(p) /\ ~Extends(p)
           /\ 1 <= j.start /\ j.start <= j.end /\ j.end <= p.end
           /\ Cardinality(Contexts(j.start, j.end)) <= ChunkSteps
           /\ Cardinality(Contexts(j.start, j.end)) > 0 \/ j.end = terminal
      /\ j.step = "returned" => j.end = p.end /\ (Early(p) \/ Extends(p))
  <2>1. CASE p = Nothing
    <3>0. j = Idle
      BY <2>1
    <3>1. Idle \in Job /\ Idle.snapshot.end = 0 /\ Idle.step = "idle" /\ Idle.range = 0
          /\ Idle.force = FALSE /\ Idle.latest = 0
      BY NoSectionType DEF Idle, Job
    <3>2. seq \in Nat /\ p.end = 0 /\ p.force = FALSE
      BY <2>1, Table DEF IInv, Nothing
    <3> HIDE DEF j
    <3>3. j \in Job /\ j.step = "idle" /\ j.range = 0 /\ j.force = FALSE /\ j.latest = 0
          /\ j.snapshot.end = 0
      BY <3>0, <3>1
    <3>4. /\ j.latest <= seq /\ j.snapshot.end <= seq
          /\ terminal # 0 => j.snapshot.end <= terminal
      BY <3>2, <3>3 DEF IInv, TypeOK
    <3> QED BY <2>1, <3>2, <3>3, <3>4
  <2>2. CASE p # Nothing
    <3>1. j = Begun(p)
      BY <2>2
    <3> HIDE DEF j
    <3> QED BY <2>2, <3>1, BegunJob
  <2> QED BY <2>1, <2>2
<1> HIDE DEF j
<1>4. /\ TypeOK /\ seq \in Nat /\ driver \in Coordinators /\ coord[c] \in Coordinator
      /\ Nothing \in Pending /\ Nothing.end = 0 /\ Nothing.force = FALSE
  BY Fields, Table DEF IInv, TypeOK, Nothing, Pending
<1>5. /\ coord' \in [Coordinators -> Coordinator]
      /\ coord'[c].pending = Nothing /\ coord'[c].microtasks = m
      /\ (coord'[c].processing <=> p # Nothing) /\ coord'[c].job = j
      /\ coord'[c].alive = coord[c].alive
      /\ \A d \in Coordinators \ {c} : coord'[d] = coord[d]
  BY <1>1, <1>3, <1>4 DEF TypeOK, Coordinator
<1>6. ~overlapped => c = driver
  BY DEF IInv, Alone
<1>7. TypeOK'
  BY <1>1, <1>2, <1>4, <1>5 DEF TypeOK
<1>8. EntriesAreServed'
  BY <1>5 DEF IInv, EntriesAreServed
<1>9. Ranges'
  <2>1. ASSUME NEW d \in Coordinators
        PROVE  /\ coord'[d].pending.end <= seq
               /\ coord'[d].job.range <= seq /\ coord'[d].job.latest <= seq
               /\ coord'[d].job.snapshot.end <= seq
               /\ coord'[d].job.step = "asking" =>
                    /\ 1 <= coord'[d].job.start /\ coord'[d].job.start <= coord'[d].job.end
                    /\ coord'[d].job.end <= coord'[d].job.range
               /\ coord'[d].processing <=> coord'[d].job.step # "idle"
    <3>1. CASE d = c
      <4>1. p.end <= seq /\ 0 <= seq
        BY <1>4 DEF Admissible
      <4> QED BY <1>3, <1>4, <1>5, <3>1, <4>1
    <3>2. CASE d # c
      BY <1>5, <3>2 DEF IInv, Ranges, Asking
    <3> QED BY <3>1, <3>2
  <2> QED BY <1>1, <2>1 DEF Ranges, Asking
<1>10. Terminals'
  <2>1. ASSUME NEW d \in Coordinators
        PROVE  /\ coord'[d].pending.force <=> terminal # 0 /\ coord'[d].pending.end = terminal
               /\ coord'[d].job.force <=> terminal # 0 /\ coord'[d].job.range = terminal
               /\ terminal # 0 => /\ coord'[d].pending.end <= terminal
                                  /\ coord'[d].job.range <= terminal
                                  /\ coord'[d].job.snapshot.end <= terminal
    <3>1. terminal \in Nat /\ 0 <= terminal
      BY DEF IInv, TypeOK
    <3> QED BY <1>3, <1>4, <1>5, <3>1 DEF IInv, Terminals, Admissible
  <2> QED BY <1>1, <1>2, <2>1 DEF IInv, Terminals
<1>11. Alone'
  BY <1>1, <1>5, <1>6 DEF IInv, Alone, AtWork
<1>12. ReadsAreCurrent'
  <2>1. CASE overlapped
    BY <1>1, <2>1 DEF ReadsAreCurrent
  <2>2. CASE ~overlapped /\ j.step = "asking"
    BY <1>1, <1>2, <1>3, <1>5, <1>6, <2>2 DEF ReadsAreCurrent, Latest, Start
  <2>3. CASE ~overlapped /\ j.step # "asking"
    BY <1>1, <1>5, <1>6, <2>3 DEF ReadsAreCurrent, Asking
  <2> QED BY <2>1, <2>2, <2>3
<1>13. ChunksAreBounded'
  <2>1. CASE overlapped
    BY <1>1, <2>1 DEF ChunksAreBounded
  <2>2. CASE ~overlapped /\ j.step = "asking"
    BY <1>1, <1>3, <1>5, <1>6, <2>2 DEF ChunksAreBounded, Contexts
  <2>3. CASE ~overlapped /\ j.step # "asking"
    BY <1>1, <1>5, <1>6, <2>3 DEF ChunksAreBounded, Asking
  <2> QED BY <2>1, <2>2, <2>3
<1>14. Duty'
  <2> SUFFICES ASSUME ~overlapped, terminal # 0, coord[driver].alive
               PROVE  Complete' \/ (j.force /\ j.step = "asking")
    BY <1>1, <1>4, <1>5, <1>6 DEF Duty, Asking
  <2>1. CASE ~p.force
    BY <1>2, <2>1
  <2>2. CASE p.force /\ Extends(p)
    BY <1>2, <2>2
  <2>3. CASE p.force /\ ~Extends(p) /\ ~Early(p)
    <3>1. p # Nothing
      BY <2>3 DEF Nothing
    <3> QED BY <1>3, <2>3, <3>1 DEF Job
  <2>4. CASE p.force /\ ~Extends(p) /\ Early(p)
    <3>1. p.end < Start /\ p.end = terminal /\ p.end \in Nat
      BY <2>4 DEF Early, Admissible, Pending
    <3>2. Latest # 0 /\ Latest \in DOMAIN sections /\ Start = sections[Latest].end + 1
      BY <1>4, <3>1, LatestIsLast
    <3>3. sections[Latest].end = terminal
      BY <1>4, <3>1, <3>2, Table DEF IInv, Terminals
    <3>4. ~sections[Latest].open
      BY <3>2, <3>3 DEF IInv, Terminals
    <3>5. \A s \in DOMAIN sections \ {Latest} : ~sections[s].open
      BY <1>4, <3>2, LatestIsLast, Table DEF IInv, OnlyLastIsOpen
    <3>6. Complete
      BY <3>2, <3>3, <3>4, <3>5 DEF Complete
    <3> QED BY <1>2, <3>6
  <2> QED BY <2>1, <2>2, <2>3, <2>4
<1> QED BY <1>2, <1>7, <1>8, <1>9, <1>10, <1>11, <1>12, <1>13, <1>14 DEF IInv

LEMMA ProcessRunKeeps ==
  ASSUME IInv, NEW c \in Coordinators, ProcessRun(c)
  PROVE  IInv'
<1> DEFINE p == coord[c].pending
<1>1. /\ coord[c].microtasks > 0 /\ ~coord[c].processing
      /\ coord[c].microtasks - 1 \in Nat /\ Proceed(c, p, coord[c].microtasks - 1)
  BY Fields DEF IInv, ProcessRun
<1>2. AtWork(c)
  BY <1>1 DEF AtWork
<1>3. Admissible(p)
  BY Fields DEF IInv, Admissible, Ranges, Terminals
<1>4. ~overlapped /\ terminal # 0 /\ coord[driver].alive /\ ~p.force => Complete
  <2>1. ~overlapped => c = driver
    BY <1>2 DEF IInv, Alone
  <2>2. coord[c].job.step = "idle"
    BY <1>1 DEF IInv, Ranges
  <2> QED BY <2>1, <2>2 DEF IInv, Duty, Asking
<1> QED BY <1>1, <1>2, <1>3, <1>4, TurnKeeps

LEMMA NextTurnKeeps ==
  ASSUME IInv, NEW c \in Coordinators, NextTurn(c)
  PROVE  IInv'
<1> DEFINE p == PutBack(c)
<1>1. /\ coord[c].job.step = "returned" /\ Proceed(c, p, coord[c].microtasks)
      /\ coord[c].microtasks \in Nat
  BY Fields DEF IInv, NextTurn
<1>2. AtWork(c)
  BY <1>1 DEF IInv, Ranges, AtWork
<1>3. /\ coord[c].pending \in Pending /\ coord[c].pending.end \in Nat /\ coord[c].pending.end <= seq
      /\ coord[c].pending.force \in BOOLEAN
      /\ coord[c].pending.force <=> terminal # 0 /\ coord[c].pending.end = terminal
      /\ coord[c].job.range \in Nat /\ coord[c].job.range <= seq /\ coord[c].job.force \in BOOLEAN
      /\ coord[c].job.force <=> terminal # 0 /\ coord[c].job.range = terminal
      /\ terminal # 0 => coord[c].pending.end <= terminal /\ coord[c].job.range <= terminal
      /\ seq \in Nat
  BY Fields, Table DEF IInv, Ranges, Terminals
<1>4. CASE coord[c].job.end < coord[c].job.range
  <2>1. p = [end |-> IF coord[c].job.range >= coord[c].pending.end
                     THEN coord[c].job.range ELSE coord[c].pending.end,
             force |-> coord[c].job.force \/ coord[c].pending.force]
    BY <1>4 DEF PutBack, Merged
  <2> HIDE DEF p
  <2>2. Admissible(p)
    BY <1>3, <2>1 DEF Admissible, Pending
  <2>3. ~overlapped /\ terminal # 0 /\ coord[driver].alive /\ ~p.force => Complete
    <3>1. ~overlapped => c = driver
      BY <1>2 DEF IInv, Alone
    <3> QED BY <1>1, <2>1, <3>1 DEF IInv, Duty, Asking
  <2> QED BY <1>1, <1>2, <2>2, <2>3, TurnKeeps
<1>5. CASE ~(coord[c].job.end < coord[c].job.range)
  <2>1. p = coord[c].pending
    BY <1>5 DEF PutBack
  <2> HIDE DEF p
  <2>2. Admissible(p)
    BY <1>3, <2>1 DEF Admissible
  <2>3. ~overlapped /\ terminal # 0 /\ coord[driver].alive /\ ~p.force => Complete
    <3>1. ~overlapped => c = driver
      BY <1>2 DEF IInv, Alone
    <3> QED BY <1>1, <1>5, <2>1, <3>1 DEF IInv, Duty, Asking
  <2> QED BY <1>1, <1>2, <2>2, <2>3, TurnKeeps
<1> QED BY <1>4, <1>5

LEMMA ProcessRunAgainKeeps ==
  ASSUME IInv, NEW c \in Coordinators, ProcessRunAgain(c)
  PROVE  IInv'
<1>1. /\ coord[c].processing /\ coord[c].microtasks - 1 \in Nat /\ coord[c] \in Coordinator
      /\ coord' = [coord EXCEPT ![c].microtasks = coord[c].microtasks - 1]
      /\ UNCHANGED <<seq, contexts, terminal, run, driver, sections, crashes, overlapped>>
  BY Fields DEF IInv, ProcessRunAgain
<1>2. coord \in [Coordinators -> Coordinator] /\ driver \in Coordinators
  BY DEF IInv, TypeOK
<1>3. /\ coord' \in [Coordinators -> Coordinator]
      /\ \A d \in Coordinators :
           /\ coord'[d].pending = coord[d].pending /\ coord'[d].processing = coord[d].processing
           /\ coord'[d].job = coord[d].job /\ coord'[d].alive = coord[d].alive
           /\ d # c => coord'[d] = coord[d]
  BY <1>1, <1>2 DEF Coordinator
<1>4. TypeOK' /\ EntriesAreServed'
  BY <1>1, <1>3 DEF IInv, TypeOK, EntriesAreServed
<1>5. SectionsTile' /\ OnlyLastIsOpen' /\ SectionsAreBounded'
  BY <1>1 DEF IInv, SectionsTile, OnlyLastIsOpen, SectionsAreBounded, Contexts
<1>6. Ranges' /\ Terminals'
  BY <1>1, <1>3 DEF IInv, Ranges, Terminals, Asking
<1>7. Alone'
  BY <1>1, <1>3 DEF IInv, Alone, AtWork
<1>8. ReadsAreCurrent'
  BY <1>1, <1>2, <1>3 DEF IInv, ReadsAreCurrent, Asking, Latest, Start
<1>9. ChunksAreBounded'
  BY <1>1, <1>2, <1>3 DEF IInv, ChunksAreBounded, Asking, Contexts
<1>10. Duty'
  BY <1>1, <1>2, <1>3 DEF IInv, Duty, Asking, Complete
<1> QED BY <1>4, <1>5, <1>6, <1>7, <1>8, <1>9, <1>10 DEF IInv

-----------------------------------------------------------------------------
(* A summary is stored.                                                     *)

\* Tables whose sections are typed, lie in the run, and are completed where it ends.
Sound(D, table) ==
  /\ D \in SUBSET (1..seq) /\ table \in [D -> Section]
  /\ \A s \in D : table[s].end <= seq
  /\ terminal # 0 => \A s \in D :
       table[s].end <= terminal /\ (table[s].end = terminal => ~table[s].open)

LEMMA UpsertedSound ==
  ASSUME NEW D, NEW table, Sound(D, table), NEW s \in 1..seq,
         NEW section \in Section, section.end <= seq,
         terminal # 0 => section.end <= terminal /\ (section.end = terminal => ~section.open)
  PROVE  /\ Sound(D \cup {s}, Upserted(table, s, section))
         /\ DOMAIN Upserted(table, s, section) = D \cup {s}
         /\ Upserted(table, s, section)[s] = section
         /\ \A t \in D \ {s} : Upserted(table, s, section)[t] = table[t]
<1>1. table \in [D -> Section]
  BY DEF Sound
<1> QED BY <1>1 DEF Sound, Upserted

LEMMA SummaryJob ==
  ASSUME IInv, NEW c \in Coordinators, Asking(c)
  PROVE  LET job == coord[c].job
         IN  /\ job \in Job /\ job.start \in 1..seq /\ job.end \in Nat /\ job.end <= seq
             /\ job.start <= job.end /\ job.end <= job.range
             /\ job.latest \in Nat /\ (job.latest # 0 => job.latest \in 1..seq)
             /\ job.snapshot \in Section /\ job.snapshot.end \in Nat /\ job.snapshot.end <= seq
             /\ terminal # 0 /\ job.end = terminal => job.force /\ job.end = job.range
             /\ terminal # 0 => job.end <= terminal /\ job.snapshot.end <= terminal
<1>1. seq \in Nat /\ terminal \in Nat
  BY Table DEF IInv, TypeOK
<1> QED BY <1>1, Fields DEF IInv, Ranges, Terminals

\* The section that is stored.
Row(job, key) == [end |-> job.end, open |-> ~(job.force /\ job.end = job.range), key |-> key]
At(job, key) == IF Merges(job, key) THEN job.latest ELSE job.start

LEMMA SummarizedTypes ==
  ASSUME IInv, NEW c \in Coordinators, NEW key \in PhaseKeys, Summarized(c, key)
  PROVE  Sound(DOMAIN sections', sections')
<1> DEFINE job == coord[c].job
<1>1. Asking(c) /\ sections' = Upserted(Closed(job, key), At(job, key), Row(job, key))
  BY DEF Summarized, Asking, At, Row
<1>2. /\ job \in Job /\ job.start \in 1..seq /\ job.end \in Nat /\ job.end <= seq
      /\ job.latest # 0 => job.latest \in 1..seq
      /\ job.snapshot \in Section /\ job.snapshot.end <= seq
      /\ terminal # 0 /\ job.end = terminal => job.force /\ job.end = job.range
      /\ terminal # 0 => job.end <= terminal /\ job.snapshot.end <= terminal
  BY <1>1, SummaryJob
<1>3. Sound(DOMAIN sections, sections)
  BY DEF IInv, TypeOK, Terminals, Sound
<1>4. \E D : Sound(D, Closed(job, key))
  <2>1. CASE job.latest # 0 /\ job.snapshot.open /\ ~Merges(job, key)
    <3> DEFINE row == [job.snapshot EXCEPT !.open = FALSE]
    <3>1. Closed(job, key) = Upserted(sections, job.latest, row)
      BY <2>1 DEF Closed
    <3>2. /\ row \in Section /\ row.end = job.snapshot.end /\ row.end <= seq /\ ~row.open
          /\ job.latest \in 1..seq /\ (terminal # 0 => row.end <= terminal)
      BY <1>2, <2>1 DEF Section
    <3> HIDE DEF job, row
    <3>3. Sound(DOMAIN sections \cup {job.latest}, Upserted(sections, job.latest, row))
      BY <1>3, <3>2, UpsertedSound
    <3>4. Sound(DOMAIN sections \cup {job.latest}, Closed(job, key))
      BY <3>1, <3>3
    <3> QED BY <3>4
  <2>2. CASE ~(job.latest # 0 /\ job.snapshot.open /\ ~Merges(job, key))
    BY <1>3, <2>2 DEF Closed
  <2> QED BY <2>1, <2>2
<1>5. At(job, key) \in 1..seq
  BY <1>2 DEF At, Merges
<1>6. /\ Row(job, key) \in Section /\ Row(job, key).end = job.end
      /\ Row(job, key).end <= seq
      /\ terminal # 0 => /\ Row(job, key).end <= terminal
                         /\ Row(job, key).end = terminal => ~Row(job, key).open
  BY <1>2 DEF Row, Section, Job
<1> HIDE DEF job
<1>7. PICK D : Sound(D, Closed(job, key))
  BY <1>4
<1> DEFINE table == Upserted(Closed(job, key), At(job, key), Row(job, key))
<1>8. Sound(D \cup {At(job, key)}, table) /\ DOMAIN table = D \cup {At(job, key)}
  BY <1>5, <1>6, <1>7, UpsertedSound
<1> QED BY <1>1, <1>8

\* While one coordinator works alone, a summary makes the latest section longer or adds
\* a section after it, and closes the latest one.
LEMMA SummarizedAlone ==
  ASSUME IInv, ~overlapped, NEW key \in PhaseKeys, Summarized(driver, key)
  PROVE  LET job == coord[driver].job
         IN  /\ \/ /\ Merges(job, key) /\ Latest # 0
                   /\ DOMAIN sections' = DOMAIN sections
                   /\ sections'[Latest] = Row(job, key)
                   /\ \A s \in DOMAIN sections \ {Latest} : sections'[s] = sections[s]
                \/ /\ ~Merges(job, key)
                   /\ DOMAIN sections' = DOMAIN sections \cup {Start}
                   /\ sections'[Start] = Row(job, key)
                   /\ \A s \in DOMAIN sections :
                        sections'[s].end = sections[s].end /\ ~sections'[s].open
             /\ \A s \in DOMAIN sections : s <= Latest /\ sections[s].end < Start
             /\ Latest # 0 => job.snapshot = sections[Latest]
             /\ job.start = Start /\ job.latest = Latest
<1> DEFINE job == coord[driver].job
<1>1. /\ Asking(driver) /\ driver \in Coordinators
      /\ sections' = Upserted(Closed(job, key), At(job, key), Row(job, key))
  BY DEF Summarized, Asking, At, Row, IInv, TypeOK
<1>2. /\ job.latest = Latest /\ job.start = Start
      /\ Latest # 0 => job.snapshot = sections[Latest]
  BY <1>1 DEF IInv, ReadsAreCurrent
<1>3. /\ Latest # 0 => Latest \in DOMAIN sections /\ Start = sections[Latest].end + 1
      /\ Start \in Nat /\ Latest \in Nat
      /\ \A s \in DOMAIN sections :
           /\ s <= Latest /\ s \in Nat /\ sections[s] \in Section /\ sections[s].end \in Nat
           /\ Latest # 0
  BY LatestIsLast, Table DEF IInv
<1>4. \A s \in DOMAIN sections : sections[s].end < Start
  <2> SUFFICES ASSUME NEW s \in DOMAIN sections
               PROVE  sections[s].end < Start
    OBVIOUS
  <2>1. Latest <= sections[Latest].end
    BY <1>3 DEF IInv, SectionsTile
  <2>2. s # Latest => sections[s].end < Latest
    BY <1>3 DEF IInv, SectionsTile
  <2> QED BY <1>3, <2>1, <2>2
<1>5. \A s \in DOMAIN sections : s < Start
  <2>1. \A s \in DOMAIN sections : s <= sections[s].end
    BY DEF IInv, SectionsTile
  <2> QED BY <1>3, <1>4, <2>1
<1>6. sections \in [DOMAIN sections -> Section]
  BY DEF IInv, TypeOK
<1>7. \A s \in DOMAIN sections : s # Latest => ~sections[s].open
  BY <1>3 DEF IInv, OnlyLastIsOpen
<1>8. CASE Merges(job, key)
  <2>1. Closed(job, key) = sections /\ At(job, key) = Latest /\ Latest # 0
    BY <1>2, <1>8 DEF Closed, At, Merges
  <2>2. /\ DOMAIN sections' = DOMAIN sections
        /\ sections'[Latest] = Row(job, key)
        /\ \A s \in DOMAIN sections \ {Latest} : sections'[s] = sections[s]
    <3> HIDE DEF job
    <3> QED BY <1>1, <1>3, <2>1 DEF Upserted
  <2> QED BY <1>2, <1>3, <1>4, <1>8, <2>1, <2>2
<1>9. CASE ~Merges(job, key)
  <2> DEFINE table == Closed(job, key)
  <2>1. /\ DOMAIN table = DOMAIN sections
        /\ \A s \in DOMAIN sections : table[s].end = sections[s].end /\ ~table[s].open
    <3>1. CASE Latest # 0 /\ sections[Latest].open
      <4>1. table = Upserted(sections, Latest, [sections[Latest] EXCEPT !.open = FALSE])
        BY <1>2, <1>9, <3>1 DEF Closed
      <4>2. /\ [sections[Latest] EXCEPT !.open = FALSE].end = sections[Latest].end
            /\ ~[sections[Latest] EXCEPT !.open = FALSE].open
        BY <1>3, <3>1 DEF Section
      <4>3. /\ DOMAIN table = DOMAIN sections
            /\ table[Latest] = [sections[Latest] EXCEPT !.open = FALSE]
            /\ \A s \in DOMAIN sections \ {Latest} : table[s] = sections[s]
        <5> HIDE DEF table
        <5> QED BY <1>3, <3>1, <4>1 DEF Upserted
      <4> QED BY <1>7, <4>2, <4>3
    <3>2. CASE ~(Latest # 0 /\ sections[Latest].open)
      <4>1. table = sections
        BY <1>2, <3>2 DEF Closed
      <4> QED BY <1>3, <1>7, <3>2, <4>1
    <3> QED BY <3>1, <3>2
  <2>2. At(job, key) = Start
    BY <1>2, <1>9 DEF At
  <2>3. /\ DOMAIN sections' = DOMAIN sections \cup {Start}
        /\ sections'[Start] = Row(job, key)
        /\ \A s \in DOMAIN sections : sections'[s] = table[s]
    <3> HIDE DEF job, table
    <3>1. sections' = Upserted(table, Start, Row(job, key))
      BY <1>1, <2>2 DEF table
    <3>2. \A s \in DOMAIN sections : s # Start
      BY <1>3, <1>5
    <3> QED BY <2>1, <3>1, <3>2 DEF Upserted
  <2> QED BY <1>2, <1>3, <1>4, <1>9, <2>1, <2>3
<1> QED BY <1>8, <1>9

LEMMA SummarizedTiles ==
  ASSUME IInv, NEW c \in Coordinators, NEW key \in PhaseKeys, Summarized(c, key), ~overlapped
  PROVE  SectionsTile' /\ OnlyLastIsOpen' /\ SectionsAreBounded'
<1> DEFINE job == coord[driver].job
<1>1. /\ c = driver /\ Asking(driver)
      /\ UNCHANGED <<seq, contexts, terminal, overlapped>>
  <2>1. AtWork(c)
    BY DEF Summarized, IInv, Ranges, AtWork
  <2> QED BY <2>1 DEF Summarized, Asking, IInv, Alone
<1>2. /\ \/ /\ Merges(job, key) /\ Latest # 0
            /\ DOMAIN sections' = DOMAIN sections
            /\ sections'[Latest] = Row(job, key)
            /\ \A s \in DOMAIN sections \ {Latest} : sections'[s] = sections[s]
         \/ /\ ~Merges(job, key)
            /\ DOMAIN sections' = DOMAIN sections \cup {Start}
            /\ sections'[Start] = Row(job, key)
            /\ \A s \in DOMAIN sections :
                 sections'[s].end = sections[s].end /\ ~sections'[s].open
      /\ \A s \in DOMAIN sections : s <= Latest /\ sections[s].end < Start
      /\ Latest # 0 => job.snapshot = sections[Latest]
      /\ job.start = Start /\ job.latest = Latest
  BY <1>1, SummarizedAlone
<1>3. /\ Row(job, key).end = job.end /\ job.end \in Nat /\ job.end <= seq /\ Start <= job.end
      /\ Start \in Nat \ {0} /\ seq \in Nat
  BY <1>1, <1>2, SummaryJob, LatestIsLast, Table DEF IInv, Row
<1>4. /\ Latest # 0 => Latest \in DOMAIN sections /\ Start = sections[Latest].end + 1
      /\ Latest = 0 => Start = 1
      /\ Latest \in Nat
      /\ \A s \in DOMAIN sections :
           s \in Nat \ {0} /\ sections[s].end \in Nat /\ s <= sections[s].end
  BY LatestIsLast, Table DEF IInv, SectionsTile
<1>5. \A s \in DOMAIN sections :
        /\ s = 1 \/ \E t \in DOMAIN sections : sections[t].end + 1 = s
        /\ \A t \in DOMAIN sections : s < t => sections[s].end < t
  BY DEF IInv, SectionsTile
<1>6. \A s \in DOMAIN sections :
        /\ Cardinality(Contexts(s, sections[s].end)) <= SectionSteps
        /\ Cardinality(Contexts(s, sections[s].end)) > 0 \/ sections[s].end = terminal
  BY DEF IInv, SectionsAreBounded
<1>7. /\ Cardinality(Contexts(Start, job.end)) <= ChunkSteps
      /\ Cardinality(Contexts(Start, job.end)) > 0 \/ job.end = terminal
      /\ Cardinality(Contexts(Start, job.end)) \in Nat
      /\ ChunkSteps \in Nat /\ SectionSteps \in Nat /\ ChunkSteps <= SectionSteps
  BY <1>1, <1>2, <1>3, ContextsFinite, StepsAssumption DEF IInv, ChunksAreBounded
<1> HIDE DEF job
<1>8. CASE Merges(job, key) /\ Latest # 0
  <2>1. /\ DOMAIN sections' = DOMAIN sections /\ sections'[Latest].end = job.end
        /\ \A s \in DOMAIN sections \ {Latest} : sections'[s] = sections[s]
    BY <1>2, <1>3, <1>8
  <2>2. Latest \in DOMAIN sections /\ sections[Latest].end < job.end
    BY <1>3, <1>4, <1>8
  <2>3. SectionsTile'
    <3> SUFFICES ASSUME NEW s \in DOMAIN sections
                 PROVE  /\ s <= sections'[s].end
                        /\ s = 1 \/ \E t \in DOMAIN sections : sections'[t].end + 1 = s
                        /\ \A t \in DOMAIN sections : s < t => sections'[s].end < t
      BY <2>1 DEF SectionsTile
    <3>1. s <= sections'[s].end
      BY <1>2, <1>3, <1>4, <2>1, <2>2
    <3>2. sections[Latest].end + 1 # s
      BY <1>2, <1>4, <2>2
    <3>3. s = 1 \/ \E t \in DOMAIN sections : sections'[t].end + 1 = s
      BY <1>5, <2>1, <3>2
    <3>4. \A t \in DOMAIN sections : s < t => sections'[s].end < t
      BY <1>2, <1>4, <1>5, <2>1
    <3> QED BY <3>1, <3>3, <3>4
  <2>4. OnlyLastIsOpen'
    BY <1>2, <2>1 DEF IInv, OnlyLastIsOpen
  <2>5. SectionsAreBounded'
    <3> SUFFICES ASSUME NEW s \in DOMAIN sections
                 PROVE  /\ Cardinality(Contexts(s, sections'[s].end)) <= SectionSteps
                        /\ \/ Cardinality(Contexts(s, sections'[s].end)) > 0
                           \/ sections'[s].end = terminal
      BY <1>1, <2>1 DEF SectionsAreBounded, Contexts
    <3>1. CASE s # Latest
      BY <1>6, <2>1, <3>1
    <3>2. CASE s = Latest
      <4>1. Cardinality(Contexts(Latest, job.end)) =
              Cardinality(Contexts(Latest, sections[Latest].end))
                + Cardinality(Contexts(Start, job.end))
        <5>1. Latest <= sections[Latest].end + 1 /\ sections[Latest].end <= job.end
              /\ sections[Latest].end \in Nat /\ Start = sections[Latest].end + 1
          BY <1>3, <1>4, <2>2
        <5> QED BY <1>3, <1>4, <5>1, AdjacentContexts DEF IInv
      <4>2. Cardinality(Contexts(Latest, sections[Latest].end))
              + Cardinality(Contexts(Start, job.end)) <= SectionSteps
        BY <1>2, <1>8 DEF Merges
      <4>3. Cardinality(Contexts(Latest, sections[Latest].end)) \in Nat
        BY <1>4, <2>2, ContextsFinite DEF IInv
      <4> QED BY <1>7, <2>1, <3>2, <4>1, <4>2, <4>3
    <3> QED BY <3>1, <3>2
  <2> QED BY <2>3, <2>4, <2>5
<1>9. CASE ~(Merges(job, key) /\ Latest # 0)
  <2>1. /\ DOMAIN sections' = DOMAIN sections \cup {Start}
        /\ sections'[Start].end = job.end
        /\ \A s \in DOMAIN sections : sections'[s].end = sections[s].end /\ ~sections'[s].open
    BY <1>2, <1>3, <1>9
  <2>2. \A s \in DOMAIN sections : s < Start
    BY <1>2, <1>3, <1>4
  <2>3. SectionsTile'
    <3>1. ASSUME NEW s \in DOMAIN sections
          PROVE  /\ s <= sections'[s].end
                 /\ s = 1 \/ \E t \in DOMAIN sections : sections'[t].end + 1 = s
                 /\ \A t \in DOMAIN sections \cup {Start} : s < t => sections'[s].end < t
      BY <1>2, <1>4, <1>5, <2>1
    <3>2. /\ Start <= sections'[Start].end
          /\ Start = 1 \/ \E t \in DOMAIN sections : sections'[t].end + 1 = Start
          /\ \A t \in DOMAIN sections \cup {Start} : ~(Start < t)
      BY <1>3, <1>4, <2>1, <2>2
    <3> QED BY <2>1, <3>1, <3>2 DEF SectionsTile
  <2>4. OnlyLastIsOpen'
    <3>1. \A s \in DOMAIN sections' : sections'[s].open => s = Start
      BY <2>1
    <3>2. \A t \in DOMAIN sections' : t <= Start
      BY <1>3, <1>4, <2>1, <2>2
    <3> QED BY <3>1, <3>2 DEF OnlyLastIsOpen
  <2>5. SectionsAreBounded'
    <3> SUFFICES ASSUME NEW s \in DOMAIN sections \cup {Start}
                 PROVE  /\ Cardinality(Contexts(s, sections'[s].end)) <= SectionSteps
                        /\ \/ Cardinality(Contexts(s, sections'[s].end)) > 0
                           \/ sections'[s].end = terminal
      BY <1>1, <2>1 DEF SectionsAreBounded, Contexts
    <3>1. CASE s = Start
      BY <1>7, <2>1, <3>1
    <3>2. CASE s # Start
      BY <1>6, <2>1, <3>2
    <3> QED BY <3>1, <3>2
  <2> QED BY <2>3, <2>4, <2>5
<1> QED BY <1>8, <1>9

\* A forced range is complete once the section that ends with it is stored.
LEMMA SummarizedCompletes ==
  ASSUME IInv, ~overlapped, terminal # 0, NEW key \in PhaseKeys, Summarized(driver, key),
         Complete \/ (coord[driver].job.force /\ coord[driver].job.end = coord[driver].job.range)
  PROVE  Complete'
<1> DEFINE job == coord[driver].job
<1>1. /\ Asking(driver) /\ driver \in Coordinators /\ UNCHANGED terminal
  BY DEF Summarized, Asking, IInv, TypeOK
<1>2. /\ \/ /\ Merges(job, key) /\ Latest # 0
            /\ DOMAIN sections' = DOMAIN sections
            /\ sections'[Latest] = Row(job, key)
            /\ \A s \in DOMAIN sections \ {Latest} : sections'[s] = sections[s]
         \/ /\ ~Merges(job, key)
            /\ DOMAIN sections' = DOMAIN sections \cup {Start}
            /\ sections'[Start] = Row(job, key)
            /\ \A s \in DOMAIN sections :
                 sections'[s].end = sections[s].end /\ ~sections'[s].open
      /\ \A s \in DOMAIN sections : s <= Latest /\ sections[s].end < Start
      /\ job.start = Start
  BY SummarizedAlone
<1>3. /\ job.end \in Nat /\ job.end <= seq /\ job.start \in 1..seq /\ job.start <= job.end
      /\ seq \in Nat /\ terminal \in Nat /\ job.end <= terminal
  BY <1>1, SummaryJob, Table DEF IInv, TypeOK
<1>4. /\ job.force => job.range = terminal
  BY <1>1 DEF IInv, Terminals
<1>5. \A s \in DOMAIN sections :
        s # Latest => ~sections[s].open
  BY <1>2, LatestIsLast, Table DEF IInv, OnlyLastIsOpen
<1>6. ~Complete
  <2>1. \A s \in DOMAIN sections : sections[s].end # terminal
    BY <1>2, <1>3, Table DEF IInv
  <2> QED BY <2>1 DEF Complete
<1>7. Row(job, key).end = terminal /\ ~Row(job, key).open
  BY <1>4, <1>6 DEF Row
<1>8. Latest # 0 => Latest \in DOMAIN sections
  BY LatestIsLast DEF IInv
<1> HIDE DEF job
<1> QED BY <1>1, <1>2, <1>5, <1>7, <1>8 DEF Complete

LEMMA SummarizedKeeps ==
  ASSUME IInv, NEW c \in Coordinators, NEW key \in PhaseKeys, Summarized(c, key)
  PROVE  IInv'
<1>1. /\ coord[c].job.step = "asking"
      /\ coord' = [coord EXCEPT ![c].job.step = "returned"]
      /\ UNCHANGED <<seq, contexts, terminal, run, driver, crashes, overlapped>>
  BY DEF Summarized
<1>2. /\ TypeOK /\ driver \in Coordinators /\ seq \in Nat
      /\ coord[c] \in Coordinator /\ coord[c].job \in Job
      /\ coord \in [Coordinators -> Coordinator]
  BY Fields, Table DEF IInv, TypeOK
<1>3. /\ coord' \in [Coordinators -> Coordinator]
      /\ coord'[c].job.step = "returned"
      /\ \A d \in Coordinators :
           /\ coord'[d].pending = coord[d].pending /\ coord'[d].processing = coord[d].processing
           /\ coord'[d].microtasks = coord[d].microtasks /\ coord'[d].alive = coord[d].alive
           /\ coord'[d].job.range = coord[d].job.range /\ coord'[d].job.force = coord[d].job.force
           /\ coord'[d].job.end = coord[d].job.end /\ coord'[d].job.latest = coord[d].job.latest
           /\ coord'[d].job.snapshot = coord[d].job.snapshot
           /\ coord'[d].job.start = coord[d].job.start
           /\ d # c => coord'[d] = coord[d]
  <2> DEFINE job == [coord[c].job EXCEPT !.step = "returned"]
  <2>1. /\ job \in Job /\ job.step = "returned"
        /\ job.range = coord[c].job.range /\ job.force = coord[c].job.force
        /\ job.end = coord[c].job.end /\ job.latest = coord[c].job.latest
        /\ job.snapshot = coord[c].job.snapshot /\ job.start = coord[c].job.start
    BY <1>2 DEF Job
  <2>2. coord' = [coord EXCEPT ![c].job = job]
    BY <1>1, <1>2
  <2> HIDE DEF job
  <2> QED BY <1>2, <2>1, <2>2 DEF Coordinator
<1>4. AtWork(c)
  BY <1>1 DEF IInv, Ranges, AtWork
<1>5. ~overlapped => c = driver
  BY <1>4 DEF IInv, Alone
<1>6. Sound(DOMAIN sections', sections')
  BY SummarizedTypes
<1>7. TypeOK'
  BY <1>1, <1>3, <1>6 DEF IInv, TypeOK, Sound
<1>8. EntriesAreServed'
  BY <1>3 DEF IInv, EntriesAreServed
<1>9. SectionsTile' /\ OnlyLastIsOpen' /\ SectionsAreBounded'
  <2>1. CASE overlapped
    BY <1>1, <2>1 DEF SectionsTile, OnlyLastIsOpen, SectionsAreBounded
  <2>2. CASE ~overlapped
    BY <2>2, SummarizedTiles
  <2> QED BY <2>1, <2>2
<1>10. Ranges'
  BY <1>1, <1>3 DEF IInv, Ranges, Asking
<1>11. Terminals'
  BY <1>1, <1>3, <1>6 DEF IInv, Terminals, Sound
<1>12. Alone'
  BY <1>1, <1>3 DEF IInv, Alone, AtWork
<1>13. ReadsAreCurrent' /\ ChunksAreBounded'
  BY <1>1, <1>3, <1>5 DEF ReadsAreCurrent, ChunksAreBounded, Asking
<1>14. Duty'
  <2> SUFFICES ASSUME ~overlapped, terminal # 0, coord[driver].alive, ~coord[driver].pending.force
               PROVE  \/ /\ coord[driver].job.force
                         /\ coord[driver].job.end < coord[driver].job.range
                      \/ Complete'
    BY <1>1, <1>2, <1>3, <1>5 DEF Duty
  <2>1. coord[driver].job.force \/ Complete
    BY DEF IInv, Duty
  <2>2. coord[driver].job.end \in Nat /\ coord[driver].job.range \in Nat
        /\ coord[driver].job.end <= coord[driver].job.range
    BY <1>1, <1>2, <1>5, Fields DEF IInv, Ranges, Asking
  <2>3. Summarized(driver, key)
    BY <1>5
  <2> QED BY <2>1, <2>2, <2>3, SummarizedCompletes
<1> QED BY <1>7, <1>8, <1>9, <1>10, <1>11, <1>12, <1>13, <1>14 DEF IInv

-----------------------------------------------------------------------------
(* The requests and the process, and the theorems.                          *)

LEMMA SuspendKeeps == ASSUME IInv, Suspend PROVE IInv'
<1>1. /\ run = "running" /\ run' = "suspended" /\ terminal = 0
      /\ UNCHANGED <<seq, contexts, terminal, driver, coord, sections, crashes, overlapped>>
  BY DEF Suspend, IInv, Terminals
<1>2. TypeOK' /\ EntriesAreServed' /\ Ranges' /\ Terminals' /\ Alone'
  BY <1>1 DEF IInv, TypeOK, EntriesAreServed, Ranges, Terminals, Alone, AtWork, Asking
<1>3. SectionsTile' /\ OnlyLastIsOpen' /\ SectionsAreBounded'
  BY <1>1 DEF IInv, SectionsTile, OnlyLastIsOpen, SectionsAreBounded, Contexts
<1>4. ReadsAreCurrent' /\ ChunksAreBounded' /\ Duty'
  BY <1>1 DEF IInv, ReadsAreCurrent, ChunksAreBounded, Duty, Asking, Latest, Start, Contexts
<1> QED BY <1>2, <1>3, <1>4 DEF IInv

LEMMA FreshType ==
  /\ Unused \in Coordinator /\ Fresh \in Coordinator
  /\ \A u \in {Unused, Fresh} :
       /\ u.pending = Nothing /\ u.microtasks = 0 /\ u.processing = FALSE /\ u.job = Idle
  /\ Nothing.end = 0 /\ Nothing.force = FALSE
  /\ Idle.step = "idle" /\ Idle.range = 0 /\ Idle.force = FALSE /\ Idle.latest = 0
  /\ Idle.snapshot.end = 0
<1>1. Idle \in Job /\ Nothing \in Pending /\ Idle.snapshot.end = 0
  BY NoSectionType DEF Idle, Job, Nothing, Pending
<1>2. Idle.step = "idle" /\ Idle.range = 0 /\ Idle.force = FALSE /\ Idle.latest = 0
      /\ Nothing.end = 0 /\ Nothing.force = FALSE
  BY DEF Idle, Nothing
<1>3. Unused \in Coordinator /\ Fresh \in Coordinator
  BY <1>1 DEF Unused, Fresh, Coordinator
<1>4. \A u \in {Unused, Fresh} :
        u.pending = Nothing /\ u.microtasks = 0 /\ u.processing = FALSE /\ u.job = Idle
  BY DEF Unused, Fresh
<1> QED BY <1>1, <1>2, <1>3, <1>4

LEMMA ResumeKeeps == ASSUME IInv, Resume PROVE IInv'
<1>1. /\ run = "suspended" /\ run' = "running" /\ driver < MaxCoordinators
      /\ driver' = driver + 1
      /\ coord' = [coord EXCEPT ![driver + 1] = Fresh]
      /\ overlapped' = (overlapped \/ AtWork(driver))
      /\ UNCHANGED <<seq, contexts, terminal, sections, crashes>>
  BY DEF Resume
<1>2. /\ driver \in Coordinators /\ driver + 1 \in Coordinators /\ driver + 1 # driver
      /\ coord \in [Coordinators -> Coordinator] /\ seq \in Nat /\ overlapped \in BOOLEAN
      /\ terminal = 0
  BY <1>1, BoundsAssumption DEF IInv, TypeOK, Coordinators, Terminals
<1>3. /\ coord'[driver + 1] = Fresh /\ coord' \in [Coordinators -> Coordinator]
      /\ \A c \in Coordinators \ {driver + 1} : coord'[c] = coord[c]
  BY <1>1, <1>2, FreshType
<1>4. TypeOK'
  <2>1. overlapped' \in BOOLEAN
    BY <1>1
  <2>2. driver' \in Coordinators
    BY <1>1, <1>2
  <2> QED BY <1>1, <1>3, <2>1, <2>2 DEF IInv, TypeOK
<1>5. EntriesAreServed'
  BY <1>3, FreshType DEF IInv, EntriesAreServed
<1>6. SectionsTile' /\ OnlyLastIsOpen' /\ SectionsAreBounded'
  BY <1>1 DEF IInv, SectionsTile, OnlyLastIsOpen, SectionsAreBounded, Contexts
<1>7. Ranges'
  <2> SUFFICES ASSUME NEW c \in Coordinators
               PROVE  /\ coord'[c].pending.end <= seq
                      /\ coord'[c].job.range <= seq /\ coord'[c].job.latest <= seq
                      /\ coord'[c].job.snapshot.end <= seq
                      /\ coord'[c].job.step = "asking" =>
                           /\ 1 <= coord'[c].job.start /\ coord'[c].job.start <= coord'[c].job.end
                           /\ coord'[c].job.end <= coord'[c].job.range
                      /\ coord'[c].processing <=> coord'[c].job.step # "idle"
    BY <1>1 DEF Ranges, Asking
  <2>1. CASE c = driver + 1
    <3>1. /\ coord'[c].pending.end = 0 /\ coord'[c].job.range = 0 /\ coord'[c].job.latest = 0
          /\ coord'[c].job.snapshot.end = 0 /\ coord'[c].job.step = "idle"
          /\ coord'[c].processing = FALSE
      BY <1>3, <2>1, FreshType
    <3> QED BY <1>2, <3>1
  <2>2. CASE c # driver + 1
    BY <1>3, <2>2 DEF IInv, Ranges, Asking
  <2> QED BY <2>1, <2>2
<1>8. Terminals'
  <2>1. \A c \in Coordinators : ~coord'[c].pending.force /\ ~coord'[c].job.force
    BY <1>2, <1>3, FreshType DEF IInv, Terminals
  <2> QED BY <1>1, <1>2, <2>1 DEF Terminals
<1>9. Alone'
  <2> SUFFICES ASSUME ~overlapped', NEW c \in Coordinators, c # driver + 1
               PROVE  coord[c].pending = Nothing /\ ~(coord[c].microtasks > 0)
                      /\ ~coord[c].processing
    BY <1>1, <1>3 DEF Alone, AtWork
  <2>1. ~overlapped /\ ~AtWork(driver)
    BY <1>1
  <2>2. ~AtWork(c)
    BY <2>1 DEF IInv, Alone
  <2> QED BY <2>2 DEF AtWork
<1>10. ReadsAreCurrent' /\ ChunksAreBounded'
  <2>1. coord'[driver'].job.step # "asking"
    BY <1>1, <1>3, FreshType
  <2> QED BY <2>1 DEF ReadsAreCurrent, ChunksAreBounded, Asking
<1>11. Duty'
  BY <1>1, <1>2 DEF Duty
<1> QED BY <1>4, <1>5, <1>6, <1>7, <1>8, <1>9, <1>10, <1>11 DEF IInv

LEMMA CrashKeeps == ASSUME IInv, Crash PROVE IInv'
<1>1. /\ crashes < MaxCrashes /\ crashes' = crashes + 1
      /\ coord' = [c \in Coordinators |-> Unused]
      /\ run' = IF run = "running" THEN "reclaimed" ELSE run
      /\ UNCHANGED <<seq, contexts, terminal, driver, sections, overlapped>>
  BY DEF Crash
<1>2. /\ driver \in Coordinators /\ seq \in Nat /\ crashes \in Nat
      /\ coord' \in [Coordinators -> Coordinator]
      /\ \A c \in Coordinators :
           /\ coord'[c].pending = Nothing /\ coord'[c].microtasks = 0 /\ ~coord'[c].processing
           /\ coord'[c].job = Idle /\ ~coord'[c].alive
  <2>1. Unused.alive = FALSE
    BY DEF Unused
  <2> QED BY <1>1, <2>1, FreshType DEF IInv, TypeOK
<1>3. TypeOK'
  <2>1. crashes' \in 0..MaxCrashes
    BY <1>1, <1>2, BoundsAssumption
  <2> QED BY <1>1, <1>2, <2>1 DEF IInv, TypeOK
<1>4. EntriesAreServed'
  BY <1>2 DEF EntriesAreServed
<1>5. SectionsTile' /\ OnlyLastIsOpen' /\ SectionsAreBounded'
  BY <1>1 DEF IInv, SectionsTile, OnlyLastIsOpen, SectionsAreBounded, Contexts
<1>6. Ranges'
  BY <1>1, <1>2, FreshType DEF Ranges, Asking
<1>7. Terminals'
  <2>1. \A c \in Coordinators :
          /\ ~coord'[c].pending.force /\ coord'[c].pending.end = 0
          /\ ~coord'[c].job.force /\ coord'[c].job.range = 0
          /\ coord'[c].job.snapshot.end = 0
    BY <1>2, FreshType
  <2>2. terminal \in Nat
    BY DEF IInv, TypeOK
  <2>3. terminal # 0 <=> run' = "ended"
    BY <1>1 DEF IInv, Terminals
  <2>4. \A c \in Coordinators :
          /\ coord'[c].pending.force <=> terminal # 0 /\ coord'[c].pending.end = terminal
          /\ coord'[c].job.force <=> terminal # 0 /\ coord'[c].job.range = terminal
          /\ terminal # 0 => /\ coord'[c].pending.end <= terminal
                             /\ coord'[c].job.range <= terminal
                             /\ coord'[c].job.snapshot.end <= terminal
    BY <2>1, <2>2
  <2> QED BY <1>1, <2>3, <2>4 DEF IInv, Terminals
<1>8. Alone'
  BY <1>1, <1>2 DEF Alone, AtWork
<1>9. ReadsAreCurrent' /\ ChunksAreBounded' /\ Duty'
  BY <1>1, <1>2, FreshType DEF ReadsAreCurrent, ChunksAreBounded, Duty, Asking
<1> QED BY <1>3, <1>4, <1>5, <1>6, <1>7, <1>8, <1>9 DEF IInv

LEMMA InitHolds == ASSUME Init PROVE IInv
<1>1. /\ seq = 0 /\ contexts = {} /\ terminal = 0 /\ run = "running" /\ driver = 1
      /\ crashes = 0 /\ overlapped = FALSE /\ DOMAIN sections = {}
      /\ coord = [c \in Coordinators |-> IF c = 1 THEN Fresh ELSE Unused]
      /\ sections \in [DOMAIN sections -> Section]
  BY DEF Init
<1>2. /\ 1 \in Coordinators /\ coord \in [Coordinators -> Coordinator]
      /\ \A c \in Coordinators :
           coord[c].pending = Nothing /\ coord[c].microtasks = 0 /\ ~coord[c].processing
           /\ coord[c].job = Idle
  BY <1>1, FreshType, BoundsAssumption DEF Coordinators
<1>3. TypeOK
  <2>1. seq \in 0..MaxEvents /\ terminal \in 0..seq /\ crashes \in 0..MaxCrashes
    BY <1>1, BoundsAssumption
  <2>2. contexts \in SUBSET (1..seq) /\ DOMAIN sections \in SUBSET (1..seq)
    BY <1>1
  <2>3. driver \in Coordinators
    BY <1>1, <1>2
  <2> QED BY <1>1, <1>2, <2>1, <2>2, <2>3 DEF TypeOK
<1>4. SectionsTile /\ OnlyLastIsOpen /\ SectionsAreBounded
  BY <1>1 DEF SectionsTile, OnlyLastIsOpen, SectionsAreBounded
<1>5. EntriesAreServed /\ Ranges /\ Terminals /\ Alone
  BY <1>1, <1>2, FreshType DEF EntriesAreServed, Ranges, Terminals, Alone, AtWork, Asking
<1>6. ReadsAreCurrent /\ ChunksAreBounded /\ Duty
  BY <1>1, <1>2, FreshType DEF ReadsAreCurrent, ChunksAreBounded, Duty, Asking
<1> QED BY <1>3, <1>4, <1>5, <1>6 DEF IInv

LEMMA NextKeeps == ASSUME IInv, Next PROVE IInv'
<1>1. ASSUME NEW c \in Coordinators, Summarize(c)
      PROVE  IInv'
  BY <1>1, ProcessRunKeeps, ProcessRunAgainKeeps, NextTurnKeeps, SummarizedKeeps DEF Summarize
<1> QED BY <1>1, ObserveKeeps, LateEventKeeps, SuspendKeeps, ResumeKeeps, CrashKeeps DEF Next

LEMMA StutterKeeps == ASSUME IInv, UNCHANGED vars PROVE IInv'
<1>1. TypeOK' /\ EntriesAreServed' /\ Ranges' /\ Terminals' /\ Alone'
  BY DEF vars, IInv, TypeOK, EntriesAreServed, Ranges, Terminals, Alone, AtWork, Asking
<1>2. SectionsTile' /\ OnlyLastIsOpen' /\ SectionsAreBounded'
  BY DEF vars, IInv, SectionsTile, OnlyLastIsOpen, SectionsAreBounded, Contexts
<1>3. ReadsAreCurrent' /\ ChunksAreBounded'
  BY DEF vars, IInv, ReadsAreCurrent, ChunksAreBounded, Asking, Latest, Start, Contexts
<1>4. Duty'
  BY DEF vars, IInv, Duty, Asking, Complete
<1> QED BY <1>1, <1>2, <1>3, <1>4 DEF IInv

\* IInv holds in every state of the specification, for all values of the constants.
THEOREM SectionInvariance == Spec => []IInv
<1>1. IInv /\ [Next]_vars => IInv'
  BY NextKeeps, StutterKeeps
<1> QED BY <1>1, InitHolds, PTL DEF Spec

\* Type correctness of TraceSections.
THEOREM SectionTypes == Spec => []TypeOK
  BY SectionInvariance, PTL DEF IInv

\* No entry of pendingByRun is left behind without a microtask or a loop that looks at it.
THEOREM EntriesAreNotLost == Spec => []EntriesAreServed
  BY SectionInvariance, PTL DEF IInv

\* Sections follow each other without a gap or an overlap while one coordinator works.
THEOREM SectionsFollowEachOther == Spec => []SectionsTile
  BY SectionInvariance, PTL DEF IInv

\* Only the last section is in progress while one coordinator works.
THEOREM EarlierSectionsAreClosed == Spec => []OnlyLastIsOpen
  BY SectionInvariance, PTL DEF IInv

\* Sections are neither empty nor longer than their limit while one coordinator works.
THEOREM SectionsKeepTheirLimit == Spec => []SectionsAreBounded
  BY SectionInvariance, PTL DEF IInv

\* When the coordinator of an ended run has come to rest, the run's sections end with its
\* terminal event and are all completed (the safety part of TerminalCompletes).
THEOREM RestMeansComplete == Spec => []FinishedIsComplete
<1>1. IInv => FinishedIsComplete
  <2> SUFFICES ASSUME IInv, ~overlapped, terminal # 0, coord[driver].alive, ~AtWork(driver)
               PROVE  Complete
    BY DEF FinishedIsComplete
  <2>1. driver \in Coordinators
    BY DEF IInv, TypeOK
  <2>2. coord[driver].pending = Nothing /\ coord[driver].job.step = "idle"
    BY <2>1 DEF IInv, AtWork, Ranges
  <2>3. coord[driver].pending.force = FALSE
    BY <2>2 DEF Nothing
  <2> QED BY <2>2, <2>3 DEF IInv, Duty, Asking
<1> QED BY <1>1, SectionInvariance, PTL
=============================================================================
