---------------------- MODULE ConversationMemory_proofs ----------------------
(***************************************************************************)
(* Proofs about ConversationMemory: its types, and that summaries are      *)
(* whole, forks clean, no draft lost, aborted flushes silent and prompts   *)
(* complete, for any number of runs, sessions, messages and faults and any *)
(* memory policy.                                                          *)
(*                                                                         *)
(* A step is described by what it may do to the runs and to the messages   *)
(* (RunsKept, MessagesKept); what the invariant says of rows and forks     *)
(* follows from that, whatever the action.                                 *)
(***************************************************************************)
EXTENDS ConversationMemory, FiniteSetTheorems, SequenceTheorems, WellFoundedInduction, TLAPS

-----------------------------------------------------------------------------
(* Numbers and sets.                                                        *)

\* A set of numbers has a least one.
LEMMA LeastNumber ==
  ASSUME NEW S \in SUBSET Nat, S # {}
  PROVE  /\ \E x \in S : \A y \in S : x <= y
         /\ Min(S) \in S /\ \A y \in S : Min(S) <= y
<1>1. PICK x \in S : \A y \in S : ~ (<<y, x>> \in OpToRel(<,Nat))
  BY WFMin, NatLessThanWellFounded
<1>2. ASSUME NEW y \in S PROVE x <= y
  <2>1. <<y, x>> \in Nat \X Nat /\ ~ (<<y, x>> \in OpToRel(<,Nat))
    BY <1>1
  <2>2. ~ (y < x)
    BY <2>1 DEF OpToRel
  <2>. QED
    BY <2>2
<1>. QED
  BY <1>2 DEF Min

\* A bounded one has a greatest.
LEMMA GreatestNumber ==
  ASSUME NEW S \in SUBSET Nat, S # {}, NEW b \in Nat, \A x \in S : x <= b
  PROVE  \E x \in S : \A y \in S : y <= x
<1>. DEFINE T == {b - x : x \in S}
<1>1. T \in SUBSET Nat /\ T # {}
  <2>1. \A x \in S : b - x \in Nat
    OBVIOUS
  <2>. QED
    BY <2>1
<1>2. PICK t \in T : \A u \in T : t <= u
  BY <1>1, LeastNumber
<1>3. PICK x \in S : t = b - x
  OBVIOUS
<1>4. ASSUME NEW y \in S PROVE y <= x
  <2>1. b - y \in T
    OBVIOUS
  <2>2. b - x <= b - y
    BY <2>1, <1>2, <1>3
  <2>. QED
    BY <2>2
<1>. QED
  BY <1>4

\* SetToSeq lists the members of a finite set, each once.
LEMMA Enumeration ==
  ASSUME NEW S, IsFiniteSet(S)
  PROVE  /\ SetToSeq(S) \in [1..Cardinality(S) -> S]
         /\ \A i, j \in 1..Cardinality(S) : SetToSeq(S)[i] = SetToSeq(S)[j] => i = j
         /\ \A x \in S : \E i \in 1..Cardinality(S) : SetToSeq(S)[i] = x
<1>. DEFINE D == 1..Cardinality(S)
            f == SetToSeq(S)
<1>1. \E g \in [D -> S] : IsInjective(g)
  BY FS_CardinalityType DEF ExistsBijection, Bijection, Injection, IsInjective
<1>2. f \in [D -> S] /\ IsInjective(f)
  BY <1>1 DEF SetToSeq
<1>3. f \in Injection(D, S)
  BY <1>2 DEF Injection, IsInjective
<1>4. Cardinality(S) \in Nat /\ Cardinality(D) = Cardinality(S)
  BY FS_CardinalityType, FS_Interval
<1>. HIDE DEF f
<1>5. f \in Surjection(D, S)
  BY <1>3, <1>4, FS_Injection
<1>. QED
  BY <1>2, <1>5 DEF IsInjective, Surjection, f

-----------------------------------------------------------------------------
(* The operators of the actions.                                            *)

LEMMA Constants ==
  /\ MaxDrafts \in Nat /\ MaxRuns \in Nat /\ MaxSessions \in Nat /\ MaxFaults \in Nat
  /\ LoadLimit \in Nat /\ HistoryLimit \in Nat /\ Trigger \in Nat /\ KeepRecent \in Nat
  /\ 1 \in Sessions
  BY BoundsAssumption, PolicyAssumption DEF Sessions

\* A flush appends messages of its run, none of them the user's.
LEMMA AppendedRows ==
  ASSUME TypeOK, NEW r \in Runs
  PROVE  LET m == messages[runs[r].session] IN
         /\ m \in Seq(Message)
         /\ Appended(r) \in Seq(Message)
         /\ Len(m) <= Len(Appended(r))
         /\ \A p \in 1..Len(m) : Appended(r)[p] = m[p]
         /\ \A p \in (Len(m) + 1)..Len(Appended(r)) :
              Appended(r)[p].run = r /\ Appended(r)[p].n # 0
<1>. DEFINE m == messages[runs[r].session]
            k == Cardinality(NewDrafts(r))
            t == [i \in 1..k |-> [run |-> r, n |-> SetToSeq(NewDrafts(r))[i]]]
<1>1. m \in Seq(Message) /\ Len(m) \in Nat
  BY DEF TypeOK, Row
<1>2. NewDrafts(r) \in SUBSET (1..MaxDrafts)
  BY DEF TypeOK, NewDrafts
<1>3. IsFiniteSet(NewDrafts(r))
  BY <1>2, Constants, FS_Interval, FS_Subset
<1>4. k \in Nat /\ SetToSeq(NewDrafts(r)) \in [1..k -> NewDrafts(r)]
  BY <1>3, FS_CardinalityType, Enumeration
<1>5. ASSUME NEW i \in 1..k
      PROVE  t[i] \in Message /\ t[i].run = r /\ t[i].n # 0
  <2>1. SetToSeq(NewDrafts(r))[i] \in 1..MaxDrafts
    BY <1>2, <1>4
  <2>. QED
    BY <2>1, Constants DEF Message
<1>6. t \in Seq(Message) /\ Len(t) = k
  BY <1>4, <1>5
<1>7. Appended(r) = m \o t
  BY DEF Appended
<1>. HIDE DEF m, t, k
<1>8. /\ Appended(r) \in Seq(Message) /\ Len(Appended(r)) = Len(m) + k
      /\ \A p \in 1..Len(m) : Appended(r)[p] = m[p]
      /\ \A p \in (Len(m) + 1)..(Len(m) + k) : Appended(r)[p] = t[p - Len(m)] /\ p - Len(m) \in 1..k
  <2>1. /\ m \o t \in Seq(Message) /\ Len(m \o t) = Len(m) + k
        /\ \A p \in 1..(Len(m) + k) : (m \o t)[p] = IF p <= Len(m) THEN m[p] ELSE t[p - Len(m)]
    BY <1>1, <1>6, ConcatProperties
  <2>. QED
    BY <1>1, <1>4, <1>7, <2>1
<1>9. ASSUME NEW p \in (Len(m) + 1)..(Len(m) + k)
      PROVE  Appended(r)[p].run = r /\ Appended(r)[p].n # 0
  BY <1>5, <1>8
<1>10. Len(m) <= Len(Appended(r))
  BY <1>1, <1>4, <1>8
<1>. QED
  BY <1>1, <1>8, <1>9, <1>10 DEF m

\* They are the messages that were not stored, each once.
LEMMA AppendedOnce ==
  ASSUME TypeOK, NEW r \in Runs
  PROVE  LET m == messages[runs[r].session]
             new == (Len(m) + 1)..Len(Appended(r))
         IN  /\ \A p \in new : Appended(r)[p].n \in NewDrafts(r)
             /\ \A p, q \in new : Appended(r)[p].n = Appended(r)[q].n => p = q
             /\ \A n \in NewDrafts(r) : \E p \in new : Appended(r)[p].n = n
<1>. DEFINE m == messages[runs[r].session]
            k == Cardinality(NewDrafts(r))
            e == SetToSeq(NewDrafts(r))
            t == [i \in 1..k |-> [run |-> r, n |-> e[i]]]
<1>1. m \in Seq(Message) /\ Len(m) \in Nat
  BY DEF TypeOK, Row
<1>2. NewDrafts(r) \in SUBSET (1..MaxDrafts)
  BY DEF TypeOK, NewDrafts
<1>3. IsFiniteSet(NewDrafts(r))
  BY <1>2, Constants, FS_Interval, FS_Subset
<1>4. /\ k \in Nat
      /\ \A i \in 1..k : e[i] \in NewDrafts(r)
      /\ \A i, j \in 1..k : e[i] = e[j] => i = j
      /\ \A n \in NewDrafts(r) : \E i \in 1..k : e[i] = n
  BY <1>3, FS_CardinalityType, Enumeration
<1>. HIDE DEF e, k
<1>5. \A i \in 1..k : t[i] \in Message /\ t[i].n = e[i]
  BY <1>2, <1>4, Constants DEF Message
<1>6. t \in Seq(Message) /\ Len(t) = k
  BY <1>4, <1>5
<1>7. Appended(r) = m \o t
  BY DEF Appended, k, e
<1>. HIDE DEF m, t
<1>8. /\ Len(Appended(r)) = Len(m) + k
      /\ \A p \in (Len(m) + 1)..(Len(m) + k) : p - Len(m) \in 1..k /\ Appended(r)[p].n = e[p - Len(m)]
  <2>1. /\ Len(m \o t) = Len(m) + k
        /\ \A p \in 1..(Len(m) + k) : (m \o t)[p] = IF p <= Len(m) THEN m[p] ELSE t[p - Len(m)]
    BY <1>1, <1>6, ConcatProperties
  <2>. QED
    BY <1>1, <1>4, <1>5, <1>7, <2>1
<1>9. ASSUME NEW n \in NewDrafts(r)
      PROVE  \E p \in (Len(m) + 1)..(Len(m) + k) : Appended(r)[p].n = n
  <2>1. PICK i \in 1..k : e[i] = n
    BY <1>4
  <2>2. Len(m) + i \in (Len(m) + 1)..(Len(m) + k) /\ (Len(m) + i) - Len(m) = i
    BY <1>1, <1>4
  <2>. QED
    BY <1>8, <2>1, <2>2
<1>10. ASSUME NEW p \in (Len(m) + 1)..(Len(m) + k), NEW q \in (Len(m) + 1)..(Len(m) + k),
              Appended(r)[p].n = Appended(r)[q].n
       PROVE  p = q
  <2>1. p - Len(m) = q - Len(m)
    BY <1>4, <1>8, <1>10
  <2>. QED
    BY <1>1, <1>4, <2>1
<1>. QED
  BY <1>4, <1>8, <1>9, <1>10 DEF m

\* The latest summary of a session is one of its summaries.
LEMMA LatestIsStored ==
  ASSUME TypeOK, NEW s \in Sessions
  PROVE  \/ summaries[s] = <<>> /\ Latest(s) = NoSummary
         \/ summaries[s] # <<>> /\ \E i \in DOMAIN summaries[s] : Latest(s) = summaries[s][i]
<1>1. CASE summaries[s] = <<>>
  BY <1>1 DEF Latest
<1>2. CASE summaries[s] # <<>>
  <2>. DEFINE D == DOMAIN summaries[s]
              to(i) == summaries[s][i].to
  <2>1. /\ summaries[s] \in Seq(Summary) /\ D = 1..Len(summaries[s]) /\ Len(summaries[s]) \in Nat
        /\ Len(messages[s]) \in Nat
        /\ \A i \in D : to(i) \in Nat /\ to(i) <= Len(messages[s])
    <3>1. summaries[s] \in Seq(Summary) /\ messages[s] \in Seq(Message)
      BY DEF TypeOK
    <3>2. \A i \in D : summaries[s][i] \in Summary /\ to(i) <= Len(messages[s])
      BY <3>1 DEF TypeOK
    <3>. QED
      BY <3>1, <3>2 DEF Summary
  <2>2. D # {}
    BY <1>2, <2>1
  <2>. DEFINE T == {to(i) : i \in D}
  <2>3. PICK top \in T : \A t \in T : t <= top
    <3>1. T \in SUBSET Nat /\ T # {} /\ \A t \in T : t <= Len(messages[s])
      BY <2>1, <2>2
    <3>. QED
      BY <2>1, <3>1, GreatestNumber
  <2>. DEFINE I == {i \in D : to(i) = top}
  <2>4. PICK i \in I : \A j \in I : j <= i
    <3>1. I \in SUBSET Nat /\ I # {} /\ \A j \in I : j <= Len(summaries[s])
      BY <2>1
    <3>. QED
      BY <2>1, <3>1, GreatestNumber
  <2>5. i \in D /\ \A j \in D : to(j) < to(i) \/ (to(j) = to(i) /\ j <= i)
    <3>1. i \in D /\ to(i) = top /\ top \in Nat
      BY <2>1, <2>4
    <3>2. ASSUME NEW j \in D PROVE to(j) < top \/ (to(j) = top /\ j <= i)
      <4>1. to(j) \in T /\ to(j) \in Nat
        BY <2>1
      <4>2. to(j) <= top /\ (to(j) = top => j <= i)
        BY <2>3, <2>4, <4>1
      <4>. QED
        BY <3>1, <4>1, <4>2
    <3>. QED
      BY <3>1, <3>2
  <2>. QED
    BY <1>2, <2>5 DEF Latest
<1>. QED
  BY <1>1, <1>2

LEMMA LatestType ==
  ASSUME TypeOK, NEW s \in Sessions
  PROVE  Latest(s) \in Summary /\ Latest(s).kept \subseteq 1..Latest(s).to
<1>1. NoSummary \in Summary /\ NoSummary.kept = {}
  BY DEF NoSummary, Summary
<1>. QED
  BY <1>1, LatestIsStored DEF TypeOK

\* A summary that is proposed covers its whole range, unless rows were not loaded.
LEMMA ProposedIsWhole ==
  ASSUME TypeOK, SummariesAreWhole, NEW s \in Sessions, NEW n \in Nat, Summarizes(s, n)
  PROVE  LET z == Proposed(s, n) IN
         /\ z \in Summary /\ z.kept \subseteq 1..z.to /\ z.to <= n
         /\ s \notin gapped /\ ~ (n > Latest(s).to + LoadLimit)
              => z.from = 1 /\ z.kept = 1..z.to
<1>. DEFINE L == Latest(s)
            first == Larger(L.to, n - Smaller(LoadLimit, n)) + 1
            z == Proposed(s, n)
<1>1. L \in Summary /\ L.kept \subseteq 1..L.to /\ L.to \in Nat /\ L.from \in Nat
  BY LatestType DEF Summary
<1>2. first \in Nat /\ first > L.to
  BY <1>1, Constants DEF Larger, Smaller
<1>3. Source(s, n) = {p \in first..n : p + KeepRecent <= n}
  BY DEF Source, Unsummarized
<1>4. PICK p \in first..n : p + KeepRecent <= n
  BY <1>3 DEF Summarizes
<1>5. n - KeepRecent \in Nat /\ n - KeepRecent >= first /\ n - KeepRecent <= n
  BY <1>2, <1>4, Constants
<1>6. Source(s, n) = first..(n - KeepRecent)
  BY <1>2, <1>3, <1>5, Constants
<1>7. /\ z.from = IF L = NoSummary THEN first ELSE L.from
      /\ z.to = n - KeepRecent /\ z.first = first
      /\ z.kept = L.kept \cup first..(n - KeepRecent)
      /\ z = [from |-> z.from, first |-> first, to |-> n - KeepRecent, kept |-> z.kept]
  BY <1>6 DEF Proposed
<1>. HIDE DEF z, L, first
<1>8. z.kept \subseteq 1..z.to
  BY <1>1, <1>2, <1>5, <1>7
<1>9. z \in Summary
  <2>1. z.from \in Nat /\ z.kept \in SUBSET Nat
    BY <1>1, <1>2, <1>5, <1>7, <1>8
  <2>. QED
    BY <2>1, <1>2, <1>5, <1>7 DEF Summary
<1>10. ASSUME s \notin gapped, ~ (n > L.to + LoadLimit)
       PROVE  z.from = 1 /\ z.kept = 1..z.to
  <2>1. first = L.to + 1
    BY <1>1, <1>10, Constants DEF Larger, Smaller, first
  <2>2. L.kept = 1..L.to /\ (L = NoSummary => L.to = 0) /\ (L # NoSummary => L.from = 1)
    <3>1. CASE L = NoSummary /\ summaries[s] = <<>>
      BY <1>1, <3>1 DEF NoSummary
    <3>2. CASE \E i \in DOMAIN summaries[s] : L = summaries[s][i]
      <4>1. L.from = 1 /\ L.kept = 1..L.to
        BY <1>10, <3>2 DEF SummariesAreWhole
      <4>. QED
        BY <4>1 DEF NoSummary
    <3>. QED
      BY <3>1, <3>2, LatestIsStored DEF L
  <2>. QED
    BY <1>1, <1>5, <1>7, <2>1, <2>2
<1>. QED
  BY <1>5, <1>7, <1>8, <1>9, <1>10 DEF z, L

-----------------------------------------------------------------------------
(* The inductive invariant.                                                 *)

\* A run whose row does not exist has no request and no flush.
Idle ==
  \A r \in Runs : runs[r].status = "absent" => worker[r].phase = "none" /\ flush[r].step = "none"

\* Sessions come into being one after the other, and runs are in one of them.
SessionsGrow ==
  /\ \A s \in Sessions : Exists(s) => \A x \in 1..(s - 1) : Exists(x)
  /\ \A r \in Runs : runs[r].status # "absent" => Exists(runs[r].session)

\* The rows of a run are in its session, its user message before the others.
RowsAreHome ==
  \A s \in Sessions : \A p \in 1..Len(messages[s]) :
    LET x == messages[s][p].run IN runs[x].status # "absent" /\ runs[x].session = s

UserFirst ==
  \A s \in Sessions : \A p, q \in 1..Len(messages[s]) :
    messages[s][p].run = messages[s][q].run /\ messages[s][q].n = 0 => q <= p

\* A branch forks at a run of its parent, which has a row there unless it had none.
BranchesAreHome ==
  \A c \in Sessions : branch[c] # NoBranch =>
    LET b == branch[c] IN
    /\ b.run \in Runs /\ runs[b.run].status # "absent" /\ runs[b.run].session = b.parent
    /\ b.rowless \/ \E p \in 1..Len(messages[b.parent]) : messages[b.parent][p].run = b.run

\* A summary that a model is writing will be whole.
PendingIsWhole ==
  \A r \in Runs : flush[r].step = "summarizing" =>
    LET z == flush[r].pending
        s == runs[r].session
    IN  /\ z.kept \subseteq 1..z.to /\ z.to <= Len(messages[s])
        /\ s \notin gapped => z.from = 1 /\ z.kept = 1..z.to

\* The run of an aborted flush is over, and nothing drives it any more.
AbortedIsOver ==
  \A r \in Runs : flush[r].aborted => worker[r].phase = "none" /\ runs[r].status = "settled"

\* A message is stored once.
RowsOnce ==
  \A s \in Sessions : \A p, q \in 1..Len(messages[s]) :
    messages[s][p].run = messages[s][q].run /\ messages[s][p].n = messages[s][q].n => p = q

\* A message that was streamed is stored or still a draft, unless drafts were dropped.
StoredOrDrafted ==
  /\ \A r \in Runs : runs[r].status = "absent" => streamed[r] = 0
  /\ \A r \in Runs \ lost : \A n \in 1..streamed[r] :
       n \in drafts[r] \/ Stored(runs[r].session, r, n)

IInv ==
  /\ TypeOK /\ Idle /\ SessionsGrow /\ RowsAreHome /\ UserFirst /\ BranchesAreHome
  /\ ForksAreClean /\ SummariesAreWhole /\ PendingIsWhole /\ AbortedIsOver
  /\ RowsOnce /\ StoredOrDrafted

-----------------------------------------------------------------------------
(* What a step does to the runs.                                            *)

\* A row stays, in its session; a new one is of a session that exists.
RunsKept ==
  /\ runs' \in [Runs -> Row]
  /\ \A x \in Runs : runs[x].status # "absent" =>
       runs'[x].status # "absent" /\ runs'[x].session = runs[x].session
  /\ \A x \in Runs : runs'[x].status # "absent" =>
       runs[x].status # "absent" \/ Exists(runs'[x].session)

LEMMA SameRuns ==
  ASSUME TypeOK, UNCHANGED runs
  PROVE  RunsKept
  BY DEF TypeOK, RunsKept

LEMMA StatusKeepsRuns ==
  ASSUME TypeOK, NEW r \in Runs, runs[r].status # "absent",
         NEW status \in Statuses \ {"absent"}, Status(r, status)
  PROVE  RunsKept
<1>1. runs \in [Runs -> Row] /\ runs' = [runs EXCEPT ![r].status = status]
  BY DEF TypeOK, Status
<1>2. \A x \in Runs : runs'[x] = IF x = r THEN [runs[r] EXCEPT !.status = status] ELSE runs[x]
  BY <1>1
<1>3. [runs[r] EXCEPT !.status = status] \in Row
  BY <1>1 DEF Row
<1>4. runs' \in [Runs -> Row]
  BY <1>1, <1>2, <1>3
<1>. QED
  BY <1>1, <1>2, <1>4 DEF RunsKept, Row

CompiledOnly(r) == runs' = [runs EXCEPT ![r].compiled = TRUE]

LEMMA CompilingKeepsRuns ==
  ASSUME TypeOK, NEW r \in Runs, runs[r].status # "absent", CompiledOnly(r)
  PROVE  RunsKept
<1>1. runs \in [Runs -> Row] /\ runs' = [runs EXCEPT ![r].compiled = TRUE]
  BY DEF TypeOK, CompiledOnly
<1>2. \A x \in Runs : runs'[x] = IF x = r THEN [runs[r] EXCEPT !.compiled = TRUE] ELSE runs[x]
  BY <1>1
<1>3. [runs[r] EXCEPT !.compiled = TRUE] \in Row
  BY <1>1 DEF Row
<1>4. runs' \in [Runs -> Row]
  BY <1>1, <1>2, <1>3
<1>. QED
  BY <1>1, <1>2, <1>4 DEF RunsKept, Row

LEMMA GoOnKeepsRuns ==
  ASSUME TypeOK, NEW r \in Runs, runs[r].status # "absent", NEW f, GoOn(r, f)
  PROVE  RunsKept
  BY SameRuns, StatusKeepsRuns DEF GoOn, Statuses

\* A run that is at work has a row.
LEMMA AtWorkHasRow ==
  ASSUME Idle, NEW r \in Runs, worker[r].phase # "none" \/ flush[r].step # "none"
  PROVE  runs[r].status # "absent"
  BY DEF Idle

LEMMA RunsStep ==
  ASSUME TypeOK, Idle, [Next]_vars
  PROVE  RunsKept
<1>1. ASSUME NEW r \in Runs, NEW s \in Sessions, NEW resent \in BOOLEAN, Claim(r, s, resent)
      PROVE  RunsKept
  <2>1. /\ runs[r].status = "absent" /\ Exists(s) /\ runs \in [Runs -> Row]
        /\ runs' = [x \in Runs |->
             IF x = r THEN [status |-> "running", session |-> s, compiled |-> FALSE]
             ELSE IF x \in ActiveIn(s) THEN [runs[x] EXCEPT !.status = "settled"]
             ELSE runs[x]]
    BY <1>1 DEF Claim, NewRun, TypeOK
  <2>2. \A x \in Runs : [runs[x] EXCEPT !.status = "settled"] \in Row
    BY <2>1 DEF Row, Statuses
  <2>3. [status |-> "running", session |-> s, compiled |-> FALSE] \in Row
    BY DEF Row, Statuses
  <2>4. runs' \in [Runs -> Row]
    BY <2>1, <2>2, <2>3
  <2>. QED
    BY <2>1, <2>4 DEF RunsKept, Row, ActiveIn, Active
<1>2. ASSUME NEW r \in Runs, NEW s \in Sessions, NEW resent \in BOOLEAN, Refuse(r, s, resent)
      PROVE  RunsKept
  <2>1. /\ runs[r].status = "absent" /\ Exists(s) /\ runs \in [Runs -> Row]
        /\ runs' = [runs EXCEPT ![r] = [status |-> "settled", session |-> s, compiled |-> FALSE]]
    BY <1>2 DEF Refuse, NewRun, TypeOK
  <2>2. [status |-> "settled", session |-> s, compiled |-> FALSE] \in Row
    BY DEF Row, Statuses
  <2>. QED
    BY <2>1, <2>2 DEF RunsKept
<1>3. ASSUME NEW r \in Runs, Resume(r)
      PROVE  RunsKept
  <2>. DEFINE s == runs[r].session
  <2>1. /\ runs[r].status = "suspended" /\ runs \in [Runs -> Row]
        /\ runs' = [x \in Runs |->
             IF x = r THEN [runs[x] EXCEPT !.status = "running"]
             ELSE IF x \in ActiveIn(s) THEN [runs[x] EXCEPT !.status = "settled"]
             ELSE runs[x]]
    BY <1>3 DEF Resume, TypeOK
  <2>2. \A x \in Runs : /\ [runs[x] EXCEPT !.status = "settled"] \in Row
                        /\ [runs[x] EXCEPT !.status = "running"] \in Row
    BY <2>1 DEF Row, Statuses
  <2>3. runs' \in [Runs -> Row]
    BY <2>1, <2>2
  <2>. QED
    BY <2>1, <2>3 DEF RunsKept, Row, ActiveIn, Active
<1>4. ASSUME NEW r \in Runs, PrepareFails(r)
      PROVE  RunsKept
  BY <1>4, AtWorkHasRow, SameRuns, StatusKeepsRuns DEF PrepareFails, Statuses
<1>5. ASSUME NEW r \in Runs, Suspend(r) \/ CancelOrFail(r) \/ FinishDeclined(r) \/ Timeout(r)
      PROVE  RunsKept
  <2>1. worker[r].phase # "none" /\ (Status(r, "suspended") \/ Status(r, "settled"))
    BY <1>5 DEF Suspend, CancelOrFail, FinishDeclined, Timeout, Flushed
  <2>. QED
    BY <2>1, AtWorkHasRow, StatusKeepsRuns DEF Statuses
<1>6. ASSUME NEW r \in Runs, CancelOrphan(r)
      PROVE  RunsKept
  BY <1>6, StatusKeepsRuns DEF CancelOrphan, Active, Statuses
<1>7. ASSUME NEW r \in Runs, BeginFlush(r)
      PROVE  RunsKept
  <2>1. worker[r].phase # "none" /\ \E f : GoOn(r, f)
    BY <1>7 DEF BeginFlush
  <2>. QED
    BY <2>1, AtWorkHasRow, GoOnKeepsRuns
<1>8. ASSUME NEW r \in Runs, NEW ok \in BOOLEAN, Summarized(r) \/ Mirrored(r, ok) \/ Extracted(r)
      PROVE  RunsKept
  <2>1. flush[r].step # "none" /\ (Aborts(r) \/ \E f : GoOn(r, f))
    BY <1>8 DEF Summarized, Mirrored, Extracted
  <2>. QED
    BY <2>1, AtWorkHasRow, GoOnKeepsRuns, SameRuns DEF Aborts
<1>9. ASSUME NEW r \in Runs,
             \/ \E ok \in BOOLEAN : Synced(r, ok)
             \/ \E n \in 1..MaxDrafts : Observe(r, n)
             \/ Abandon(r) \/ Finish(r)
      PROVE  RunsKept
  BY <1>9, SameRuns DEF Synced, Observe, Abandon, Finish
<1>12. ASSUME NEW r \in Runs, Start(r)
       PROVE  RunsKept
  <2>1. worker[r].phase # "none" /\ CompiledOnly(r)
    BY <1>12 DEF Start, CompiledOnly
  <2>. QED
    BY <2>1, AtWorkHasRow, CompilingKeepsRuns
<1>10. CASE \E r \in Runs, c \in Sessions, checkpoint \in BOOLEAN : Fork(r, c, checkpoint)
  BY <1>10, SameRuns DEF Fork
<1>11. CASE Crash \/ UNCHANGED vars
  BY <1>11, SameRuns DEF Crash, vars
<1>. QED
  BY <1>1, <1>2, <1>3, <1>4, <1>5, <1>6, <1>7, <1>8, <1>9, <1>10, <1>11, <1>12
     DEF Next, Begins, Streams, Flushes

-----------------------------------------------------------------------------
(* What a step does to the messages.                                        *)

\* Rows are only appended, each in the session of its run; the user's message of a run
\* is appended when its row is made, and alone.
MessagesKept ==
  /\ messages' \in [Sessions -> Seq(Message)]
  /\ \A s \in Sessions :
       /\ Len(messages[s]) <= Len(messages'[s])
       /\ \A p \in 1..Len(messages[s]) : messages'[s][p] = messages[s][p]
       /\ \A p \in (Len(messages[s]) + 1)..Len(messages'[s]) :
            LET x == messages'[s][p].run IN
            /\ runs'[x].status # "absent" /\ runs'[x].session = s
            /\ messages'[s][p].n = 0 =>
                 runs[x].status = "absent" /\ p = Len(messages[s]) + 1 /\ Len(messages'[s]) = p

LEMMA LenMessages ==
  ASSUME TypeOK, NEW s \in Sessions
  PROVE  messages[s] \in Seq(Message) /\ Len(messages[s]) \in Nat /\ DOMAIN messages[s] = 1..Len(messages[s])
  BY DEF TypeOK

LEMMA SameMessages ==
  ASSUME TypeOK, UNCHANGED messages
  PROVE  MessagesKept
<1>1. messages \in [Sessions -> Seq(Message)]
  BY DEF TypeOK
<1>. QED
  BY <1>1, LenMessages DEF MessagesKept

LEMMA PersistKeepsMessages ==
  ASSUME TypeOK, RunsKept, NEW r \in Runs, runs[r].status # "absent", PersistDrafts(r)
  PROVE  MessagesKept
<1>. DEFINE h == runs[r].session
<1>1. h \in Sessions /\ messages \in [Sessions -> Seq(Message)]
  BY DEF TypeOK, Row
<1>2. \A s \in Sessions : messages'[s] = IF s = h THEN Appended(r) ELSE messages[s]
  BY <1>1 DEF PersistDrafts
<1>3. messages' \in [Sessions -> Seq(Message)]
  BY <1>1, AppendedRows DEF PersistDrafts
<1>4. runs'[r].status # "absent" /\ runs'[r].session = h
  BY DEF RunsKept
<1>5. ASSUME NEW s \in Sessions, s # h
      PROVE  messages'[s] = messages[s] /\ Len(messages[s]) \in Nat
  BY <1>2, <1>5, LenMessages
<1>6. /\ messages'[h] = Appended(r)
      /\ Len(messages[h]) <= Len(Appended(r))
      /\ \A p \in 1..Len(messages[h]) : Appended(r)[p] = messages[h][p]
      /\ \A p \in (Len(messages[h]) + 1)..Len(Appended(r)) :
           Appended(r)[p].run = r /\ Appended(r)[p].n # 0
  BY <1>1, <1>2, AppendedRows
<1>. HIDE DEF h
<1>7. ASSUME NEW s \in Sessions
      PROVE  /\ Len(messages[s]) <= Len(messages'[s])
             /\ \A p \in 1..Len(messages[s]) : messages'[s][p] = messages[s][p]
             /\ \A p \in (Len(messages[s]) + 1)..Len(messages'[s]) :
                  messages'[s][p].run = r /\ s = h /\ messages'[s][p].n # 0
  BY <1>5, <1>6
<1>. QED
  BY <1>3, <1>4, <1>7 DEF MessagesKept

LEMMA UserMessageKeepsMessages ==
  ASSUME TypeOK, NEW r \in Runs, NEW s \in Sessions, NEW resent \in BOOLEAN,
         runs[r].status = "absent", runs'[r].status # "absent", runs'[r].session = s,
         UserMessage(r, s, resent)
  PROVE  MessagesKept
<1>1. CASE resent
  BY <1>1, SameMessages DEF UserMessage
<1>2. CASE ~resent
  <2>. DEFINE row == [run |-> r, n |-> 0]
  <2>1. messages \in [Sessions -> Seq(Message)] /\ row \in Message
    <3>1. 0 \in 0..MaxDrafts
      BY Constants
    <3>. QED
      BY <3>1 DEF TypeOK, Message
  <2>2. messages' = [messages EXCEPT ![s] = Append(messages[s], row)]
    BY <1>2 DEF UserMessage
  <2>3. messages' \in [Sessions -> Seq(Message)]
    BY <2>1, <2>2
  <2>4. ASSUME NEW t \in Sessions, t # s
        PROVE  messages'[t] = messages[t] /\ Len(messages[t]) \in Nat
    BY <2>1, <2>2, <2>4, LenMessages
  <2>5. /\ messages'[s] = Append(messages[s], row)
        /\ Len(messages'[s]) = Len(messages[s]) + 1 /\ Len(messages[s]) \in Nat
        /\ \A p \in 1..Len(messages[s]) : messages'[s][p] = messages[s][p]
        /\ messages'[s][Len(messages[s]) + 1] = row
    BY <2>1, <2>2, LenMessages
  <2>6. row.run = r /\ row.n = 0
    OBVIOUS
  <2>. HIDE DEF row
  <2>7. ASSUME NEW t \in Sessions
        PROVE  /\ Len(messages[t]) <= Len(messages'[t])
               /\ \A p \in 1..Len(messages[t]) : messages'[t][p] = messages[t][p]
               /\ \A p \in (Len(messages[t]) + 1)..Len(messages'[t]) :
                    /\ t = s /\ messages'[t][p].run = r
                    /\ p = Len(messages[t]) + 1 /\ Len(messages'[t]) = p
    <3>1. CASE t = s
      <4>1. \A p \in (Len(messages[s]) + 1)..Len(messages'[s]) : p = Len(messages[s]) + 1
        BY <2>5
      <4>. QED
        BY <3>1, <4>1, <2>5, <2>6
    <3>2. CASE t # s
      BY <3>2, <2>4
    <3>. QED
      BY <3>1, <3>2
  <2>. QED
    BY <2>3, <2>7 DEF MessagesKept
<1>. QED
  BY <1>1, <1>2

\* A step stores the drafts of a request, or the user message of a run whose row it
\* makes, or nothing.
LEMMA MessagesCases ==
  ASSUME TypeOK, [Next]_vars
  PROVE  \/ UNCHANGED messages
         \/ \E r \in Runs : worker[r].phase # "none" /\ PersistDrafts(r)
         \/ \E r \in Runs, s \in Sessions, resent \in BOOLEAN :
              /\ runs[r].status = "absent" /\ runs'[r].status # "absent" /\ runs'[r].session = s
              /\ UserMessage(r, s, resent) /\ UNCHANGED <<drafts, streamed, lost>>
<1>1. ASSUME NEW r \in Runs, NEW s \in Sessions, NEW resent \in BOOLEAN,
             Claim(r, s, resent) \/ Refuse(r, s, resent)
      PROVE  /\ runs[r].status = "absent" /\ runs'[r].status # "absent" /\ runs'[r].session = s
             /\ UserMessage(r, s, resent) /\ UNCHANGED <<drafts, streamed, lost>>
  <2>1. runs[r].status = "absent" /\ UserMessage(r, s, resent) /\ UNCHANGED <<drafts, streamed, lost>>
    BY <1>1 DEF Claim, Refuse, NewRun
  <2>2. runs'[r].status # "absent" /\ runs'[r].session = s
    <3>1. runs \in [Runs -> Row]
      BY DEF TypeOK
    <3>2. CASE Claim(r, s, resent)
      BY <3>1, <3>2 DEF Claim
    <3>3. CASE Refuse(r, s, resent)
      BY <3>1, <3>3 DEF Refuse
    <3>. QED
      BY <1>1, <3>2, <3>3
  <2>. QED
    BY <2>1, <2>2
<1>2. ASSUME NEW r \in Runs, Suspend(r) \/ CancelOrFail(r) \/ BeginFlush(r)
      PROVE  worker[r].phase # "none" /\ PersistDrafts(r)
  BY <1>2 DEF Suspend, CancelOrFail, BeginFlush, Flushed
<1>3. ASSUME NEW r \in Runs,
             \/ \E ok \in BOOLEAN : Synced(r, ok) \/ Mirrored(r, ok)
             \/ \E n \in 1..MaxDrafts : Observe(r, n)
      PROVE  UNCHANGED messages
  BY <1>3 DEF Synced, Mirrored, Observe, tables
<1>4. ASSUME NEW r \in Runs,
             \/ PrepareFails(r) \/ Start(r) \/ Resume(r) \/ CancelOrphan(r) \/ Abandon(r)
             \/ FinishDeclined(r) \/ Finish(r) \/ Summarized(r) \/ Extracted(r) \/ Timeout(r)
      PROVE  UNCHANGED messages
  BY <1>4
     DEF PrepareFails, Start, Resume, CancelOrphan, Abandon, Dropped, FinishDeclined, Finish,
         Summarized, Extracted, Timeout, tables
<1>5. CASE \E r \in Runs, c \in Sessions, checkpoint \in BOOLEAN : Fork(r, c, checkpoint)
  BY <1>5 DEF Fork
<1>6. CASE Crash \/ UNCHANGED vars
  BY <1>6 DEF Crash, vars, tables
<1>. QED
  BY <1>1, <1>2, <1>3, <1>4, <1>5, <1>6 DEF Next, Begins, Streams, Flushes

LEMMA MessagesStep ==
  ASSUME TypeOK, Idle, [Next]_vars
  PROVE  MessagesKept
  BY RunsStep, MessagesCases, AtWorkHasRow, SameMessages, PersistKeepsMessages, UserMessageKeepsMessages

\* What the invariant says of rows follows.
LEMMA RowsStep ==
  ASSUME TypeOK, RowsAreHome, UserFirst, RunsKept, MessagesKept
  PROVE  RowsAreHome' /\ UserFirst'
<1>1. ASSUME NEW s \in Sessions, NEW p \in 1..Len(messages'[s])
      PROVE  /\ runs'[messages'[s][p].run].status # "absent"
             /\ runs'[messages'[s][p].run].session = s
  <2>1. Len(messages[s]) \in Nat /\ messages[s] \in Seq(Message)
    BY LenMessages
  <2>2. CASE p <= Len(messages[s])
    <3>1. p \in 1..Len(messages[s]) /\ messages'[s][p] = messages[s][p]
      BY <2>1, <2>2 DEF MessagesKept
    <3>2. messages[s][p].run \in Runs
      <4>1. messages[s][p] \in Message
        BY <2>1, <3>1
      <4>. QED
        BY <4>1 DEF Message
    <3>. QED
      BY <3>1, <3>2 DEF RowsAreHome, RunsKept
  <2>3. CASE p > Len(messages[s])
    BY <2>1, <2>3 DEF MessagesKept
  <2>. QED
    BY <2>1, <2>2, <2>3
<1>2. ASSUME NEW s \in Sessions, NEW p \in 1..Len(messages'[s]), NEW q \in 1..Len(messages'[s]),
             messages'[s][p].run = messages'[s][q].run, messages'[s][q].n = 0
      PROVE  q <= p
  <2>1. Len(messages[s]) \in Nat /\ messages[s] \in Seq(Message)
    BY LenMessages
  <2>2. CASE q <= Len(messages[s]) /\ p <= Len(messages[s])
    BY <1>2, <2>1, <2>2 DEF MessagesKept, UserFirst
  <2>3. CASE q > Len(messages[s]) /\ p <= Len(messages[s])
    <3>1. runs[messages'[s][q].run].status = "absent"
      BY <1>2, <2>1, <2>3 DEF MessagesKept
    <3>2. runs[messages[s][p].run].status # "absent" /\ messages'[s][p] = messages[s][p]
      BY <2>1, <2>3 DEF MessagesKept, RowsAreHome
    <3>. QED
      BY <1>2, <3>1, <3>2
  <2>4. CASE q > Len(messages[s]) /\ p > Len(messages[s])
    BY <1>2, <2>1, <2>4 DEF MessagesKept
  <2>. QED
    BY <2>1, <2>2, <2>3, <2>4
<1>. QED
  BY <1>1, <1>2 DEF RowsAreHome, UserFirst

-----------------------------------------------------------------------------
(* Forks.                                                                   *)

\* A fork ends before the rows of its run, or at its user message.
LEMMA ForkEndIsClean ==
  ASSUME TypeOK, UserFirst, NEW r \in Runs, NEW checkpoint \in BOOLEAN
  PROVE  LET m == messages[runs[r].session]
             e == ForkEnd(r, checkpoint)
         IN  /\ e \in Nat /\ e <= Len(m)
             /\ \A p \in 1..e : m[p].run = r => checkpoint /\ m[p].n = 0
             /\ RowsOf(r) = {} \/ \A p \in 1..Len(m) : p > e => \E q \in 1..p : m[q].run = r
             /\ RowsOf(r) # {} => \E p \in 1..Len(m) : m[p].run = r
<1>. DEFINE s == runs[r].session
            m == messages[s]
            e == ForkEnd(r, checkpoint)
<1>1. s \in Sessions
  BY DEF TypeOK, Row
<1>2. Len(m) \in Nat /\ DOMAIN m = 1..Len(m)
  BY <1>1, LenMessages
<1>3. RowsOf(r) = {p \in 1..Len(m) : m[p].run = r}
  BY <1>2 DEF RowsOf
<1>4. UserRowsOf(r) = {p \in RowsOf(r) : m[p].n = 0}
  BY DEF UserRowsOf
<1>5. \A p, q \in RowsOf(r) : m[q].n = 0 => q <= p
  BY <1>1, <1>3 DEF UserFirst
<1>. HIDE DEF m, s
<1>6. CASE checkpoint /\ UserRowsOf(r) # {}
  <2>1. UserRowsOf(r) \in SUBSET Nat
    BY <1>2, <1>3, <1>4
  <2>2. e \in UserRowsOf(r) /\ \A p \in UserRowsOf(r) : e <= p
    BY <1>6, <2>1, LeastNumber DEF ForkEnd
  <2>3. e \in 1..Len(m) /\ m[e].run = r /\ m[e].n = 0 /\ \A p \in RowsOf(r) : e <= p
    BY <1>3, <1>4, <1>5, <2>2
  <2>4. ASSUME NEW p \in 1..e, m[p].run = r PROVE p = e
    BY <1>2, <1>3, <2>3, <2>4
  <2>5. ASSUME NEW p \in 1..Len(m), p > e PROVE \E q \in 1..p : m[q].run = r
    BY <1>2, <2>3, <2>5
  <2>. HIDE DEF e
  <2>6. e \in Nat /\ e <= Len(m) /\ \E p \in 1..Len(m) : m[p].run = r
    BY <1>2, <2>3
  <2>7. \A p \in 1..e : m[p].run = r => checkpoint /\ m[p].n = 0
    BY <1>6, <2>3, <2>4
  <2>. QED
    BY <2>5, <2>6, <2>7 DEF e, m, s
<1>7. CASE ~(checkpoint /\ UserRowsOf(r) # {}) /\ RowsOf(r) # {}
  <2>1. RowsOf(r) \in SUBSET Nat
    BY <1>2, <1>3
  <2>. DEFINE f == Min(RowsOf(r))
  <2>2. f \in RowsOf(r) /\ \A p \in RowsOf(r) : f <= p
    BY <1>7, <2>1, LeastNumber
  <2>. HIDE DEF f
  <2>3. e = f - 1
    BY <1>7 DEF ForkEnd, f
  <2>. HIDE DEF e
  <2>4. f \in 1..Len(m) /\ m[f].run = r
    BY <1>3, <2>2
  <2>5. ASSUME NEW p \in 1..e, m[p].run = r PROVE FALSE
    BY <1>2, <1>3, <2>2, <2>3, <2>4, <2>5
  <2>6. ASSUME NEW p \in 1..Len(m), p > e PROVE \E q \in 1..p : m[q].run = r
    BY <1>2, <2>3, <2>4, <2>6
  <2>. QED
    BY <1>2, <2>3, <2>4, <2>5, <2>6 DEF e, m, s
<1>8. CASE ~(checkpoint /\ UserRowsOf(r) # {}) /\ RowsOf(r) = {}
  <2>1. e = 0
    BY <1>8 DEF ForkEnd
  <2>. QED
    BY <1>2, <1>8, <2>1 DEF m, s
<1>. QED
  BY <1>6, <1>7, <1>8

\* Whatever is appended, a fork stays as clean as it was.
LEMMA ForksStay ==
  ASSUME TypeOK, RunsKept, MessagesKept, NEW c \in Sessions, branch[c] # NoBranch,
         BranchesAreHome, ForksAreClean
  PROVE  LET b == branch[c]
             m == messages'[b.parent]
         IN  /\ b.run \in Runs /\ runs'[b.run].status # "absent" /\ runs'[b.run].session = b.parent
             /\ b.rowless \/ \E p \in 1..Len(m) : m[p].run = b.run
             /\ b.end <= Len(m)
             /\ \A p \in 1..b.end : m[p].run = b.run => b.checkpoint /\ m[p].n = 0
             /\ b.rowless \/ \A p \in 1..Len(m) : p > b.end => \E q \in 1..p : m[q].run = b.run
<1>. DEFINE b == branch[c]
            old == messages[b.parent]
            m == messages'[b.parent]
<1>1. b.parent \in Sessions /\ b.end \in Nat
  <2>1. branch[c] \in Branch /\ branch[c].parent \in 1..(c - 1)
    BY DEF TypeOK
  <2>2. c \in 1..MaxSessions /\ MaxSessions \in Nat
    BY Constants DEF Sessions
  <2>3. branch[c].parent \in 1..MaxSessions
    BY <2>1, <2>2
  <2>. QED
    BY <2>1, <2>3 DEF Branch, Sessions
<1>2. Len(old) \in Nat /\ DOMAIN old = 1..Len(old)
  BY <1>1, LenMessages
<1>3. Len(m) \in Nat
  BY <1>1 DEF MessagesKept
<1>4. Len(old) <= Len(m) /\ \A p \in 1..Len(old) : m[p] = old[p]
  BY <1>1 DEF MessagesKept
<1>5. /\ b.run \in Runs /\ runs[b.run].status # "absent" /\ runs[b.run].session = b.parent
      /\ b.rowless \/ \E p \in 1..Len(old) : old[p].run = b.run
  BY DEF BranchesAreHome
<1>6. /\ b.end <= Len(old)
      /\ \A p \in 1..b.end : old[p].run = b.run => b.checkpoint /\ old[p].n = 0
      /\ b.rowless \/ \A p \in 1..Len(old) : p > b.end => \E q \in 1..p : old[q].run = b.run
  BY <1>2 DEF ForksAreClean
<1>7. runs'[b.run].status # "absent" /\ runs'[b.run].session = b.parent
  BY <1>5 DEF RunsKept
<1>. HIDE DEF b, old, m
<1>8. ASSUME ~b.rowless, NEW p \in 1..Len(m), p > b.end
      PROVE  \E q \in 1..p : m[q].run = b.run
  <2>1. CASE p <= Len(old)
    <3>1. PICK q \in 1..p : old[q].run = b.run
      BY <1>2, <1>6, <1>8, <2>1
    <3>. QED
      BY <1>2, <1>4, <2>1, <3>1
  <2>2. CASE p > Len(old)
    <3>1. PICK q \in 1..Len(old) : old[q].run = b.run
      BY <1>5, <1>8
    <3>. QED
      BY <1>2, <1>3, <1>4, <2>2, <3>1
  <2>. QED
    BY <1>2, <1>3, <2>1, <2>2
<1>9. b.rowless \/ \E p \in 1..Len(m) : m[p].run = b.run
  BY <1>2, <1>3, <1>4, <1>5
<1>10. b.end <= Len(m) /\ \A p \in 1..b.end : m[p].run = b.run => b.checkpoint /\ m[p].n = 0
  BY <1>1, <1>2, <1>3, <1>4, <1>6
<1>. QED
  BY <1>5, <1>7, <1>8, <1>9, <1>10 DEF b, m

LEMMA OnlyForksBranch ==
  ASSUME [Next]_vars
  PROVE  \/ UNCHANGED branch
         \/ \E r \in Runs, c \in Sessions, checkpoint \in BOOLEAN : Fork(r, c, checkpoint)
<1>1. ASSUME NEW r \in Runs, NEW s \in Sessions, NEW resent \in BOOLEAN,
             Claim(r, s, resent) \/ Refuse(r, s, resent)
      PROVE  UNCHANGED branch
  BY <1>1 DEF Claim, Refuse
<1>2. ASSUME NEW r \in Runs,
             \/ \E ok \in BOOLEAN : Synced(r, ok) \/ Mirrored(r, ok)
             \/ \E n \in 1..MaxDrafts : Observe(r, n)
      PROVE  UNCHANGED branch
  BY <1>2 DEF Synced, Mirrored, Observe, tables
<1>3. ASSUME NEW r \in Runs,
             \/ PrepareFails(r) \/ Start(r) \/ Resume(r) \/ CancelOrphan(r) \/ Abandon(r)
             \/ FinishDeclined(r) \/ Finish(r) \/ Timeout(r)
      PROVE  UNCHANGED branch
  BY <1>3 DEF PrepareFails, Start, Resume, CancelOrphan, Abandon, Dropped, FinishDeclined, Finish,
              Timeout, tables
<1>4. ASSUME NEW r \in Runs,
             Suspend(r) \/ CancelOrFail(r) \/ BeginFlush(r) \/ Summarized(r) \/ Extracted(r)
      PROVE  UNCHANGED branch
  BY <1>4 DEF Suspend, CancelOrFail, Flushed, BeginFlush, Summarized, Extracted
<1>5. CASE Crash \/ UNCHANGED vars
  BY <1>5 DEF Crash, vars, tables
<1>. QED
  BY <1>1, <1>2, <1>3, <1>4, <1>5 DEF Next, Begins, Streams, Flushes

BranchType ==
  /\ branch \in [Sessions -> Branch]
  /\ \A s \in Sessions : branch[s] # NoBranch => branch[s].parent \in 1..(s - 1)

LEMMA SameBranches ==
  ASSUME TypeOK, SessionsGrow, BranchesAreHome, ForksAreClean, RunsKept, MessagesKept, UNCHANGED branch
  PROVE  BranchType' /\ SessionsGrow' /\ BranchesAreHome' /\ ForksAreClean'
<1>1. BranchType'
  BY DEF TypeOK, BranchType
<1>2. SessionsGrow'
  BY DEF SessionsGrow, Exists, RunsKept
<1>3. BranchesAreHome'
  BY ForksStay DEF BranchesAreHome
<1>4. ASSUME NEW c \in Sessions, branch[c] # NoBranch
      PROVE  DOMAIN messages'[branch[c].parent] = 1..Len(messages'[branch[c].parent])
  <2>1. branch[c].parent \in Nat /\ branch[c].parent \in 1..(c - 1)
    BY <1>4 DEF TypeOK, Branch
  <2>2. branch[c].parent \in Sessions
    BY <2>1, Constants DEF Sessions
  <2>. QED
    BY <2>2 DEF MessagesKept
<1>5. ForksAreClean'
  BY <1>4, ForksStay DEF ForksAreClean
<1>. QED
  BY <1>1, <1>2, <1>3, <1>5

LEMMA NewFork ==
  ASSUME TypeOK, SessionsGrow, UserFirst, BranchesAreHome, ForksAreClean,
         NEW r \in Runs, NEW c \in Sessions, NEW checkpoint \in BOOLEAN, Fork(r, c, checkpoint)
  PROVE  BranchType' /\ SessionsGrow' /\ BranchesAreHome' /\ ForksAreClean'
<1>. DEFINE h == runs[r].session
            b == [parent |-> h, run |-> r, end |-> ForkEnd(r, checkpoint),
                  checkpoint |-> checkpoint, rowless |-> RowsOf(r) = {}]
<1>1. /\ runs[r].status # "absent" /\ UNCHANGED <<runs, messages>>
      /\ c # 1 /\ branch[c] = NoBranch /\ \A x \in 1..(c - 1) : Exists(x)
      /\ branch' = [branch EXCEPT ![c] = b]
  BY DEF Fork
<1>2. h \in Sessions /\ Exists(h) /\ branch \in [Sessions -> Branch] /\ h \in Nat /\ c \in Nat
  BY <1>1 DEF TypeOK, Row, SessionsGrow, Sessions
<1>3. ~ Exists(c)
  BY <1>1 DEF Exists
<1>4. h \in 1..(c - 1)
  <2>1. ~ (c < h) /\ h # c
    <3>1. c < h => c \in 1..(h - 1)
      BY <1>2 DEF Sessions
    <3>. QED
      BY <1>2, <1>3, <3>1 DEF SessionsGrow
  <2>. QED
    BY <1>2, <2>1 DEF Sessions
<1>5. /\ b.end \in Nat /\ b.end <= Len(messages[h])
      /\ \A p \in 1..b.end : messages[h][p].run = r => checkpoint /\ messages[h][p].n = 0
      /\ b.rowless \/ \A p \in 1..Len(messages[h]) : p > b.end => \E q \in 1..p : messages[h][q].run = r
      /\ b.rowless \/ \E p \in 1..Len(messages[h]) : messages[h][p].run = r
  BY ForkEndIsClean
<1>6. b \in Branch /\ b # NoBranch /\ b.parent = h /\ b.run = r /\ b.checkpoint = checkpoint
  <2>1. r \in Nat /\ h # 0
    BY <1>2, <1>4 DEF Runs
  <2>. QED
    BY <1>2, <1>5, <2>1 DEF Branch, NoBranch
<1>. HIDE DEF b
<1>7. \A x \in Sessions : branch'[x] = IF x = c THEN b ELSE branch[x]
  BY <1>1, <1>2
<1>8. BranchType'
  <2>1. branch' \in [Sessions -> Branch]
    BY <1>1, <1>2, <1>6
  <2>. QED
    BY <1>4, <1>6, <1>7, <2>1 DEF BranchType, TypeOK
<1>9. SessionsGrow'
  <2>1. \A x \in Sessions : Exists(x)' <=> (Exists(x) \/ x = c)
    BY <1>1, <1>6, <1>7 DEF Exists
  <2>2. ASSUME NEW s \in Sessions, Exists(s)', NEW x \in 1..(s - 1) PROVE Exists(x)'
    <3>1. x \in Sessions
      BY Constants DEF Sessions
    <3>2. Exists(x)
      BY <1>1, <2>1, <2>2 DEF SessionsGrow
    <3>. QED
      BY <2>1, <3>1, <3>2
  <2>3. ASSUME NEW x \in Runs, runs'[x].status # "absent" PROVE Exists(runs[x].session)'
    <3>1. runs[x].session \in Sessions /\ Exists(runs[x].session) /\ runs' = runs
      BY <1>1, <2>3 DEF SessionsGrow, TypeOK, Row
    <3>. QED
      BY <1>1, <1>6, <1>7, <3>1 DEF Exists
  <2>. QED
    BY <2>2, <2>3 DEF SessionsGrow
<1>10. BranchesAreHome'
  BY <1>1, <1>5, <1>6, <1>7 DEF BranchesAreHome, h
<1>11. ForksAreClean'
  <2>1. DOMAIN messages[h] = 1..Len(messages[h])
    BY <1>2, LenMessages
  <2>2. ASSUME NEW x \in Sessions, branch'[x] # NoBranch
        PROVE  LET d == branch'[x]
                   m == messages'[d.parent]
               IN  /\ d.end <= Len(m)
                   /\ \A p \in 1..d.end : m[p].run = d.run => d.checkpoint /\ m[p].n = 0
                   /\ d.rowless \/ \A p \in DOMAIN m : p > d.end => \E q \in 1..p : m[q].run = d.run
    <3>1. CASE x = c
      <4>1. branch'[x] = b /\ messages' = messages
        BY <1>1, <1>7, <3>1
      <4>. HIDE DEF h
      <4>2. /\ b.end <= Len(messages[h])
            /\ \A p \in 1..b.end : messages[h][p].run = b.run => b.checkpoint /\ messages[h][p].n = 0
            /\ b.rowless \/ \A p \in DOMAIN messages[h] :
                               p > b.end => \E q \in 1..p : messages[h][q].run = b.run
        BY <1>5, <1>6, <2>1
      <4>. QED
        BY <1>6, <4>1, <4>2
    <3>2. CASE x # c
      <4>1. branch'[x] = branch[x] /\ branch[x] # NoBranch /\ messages' = messages
        BY <1>1, <1>7, <2>2, <3>2
      <4>. QED
        BY <4>1 DEF ForksAreClean
    <3>. QED
      BY <3>1, <3>2
  <2>. QED
    BY <2>2 DEF ForksAreClean
<1>. QED
  BY <1>8, <1>9, <1>10, <1>11

LEMMA BranchStep ==
  ASSUME TypeOK, SessionsGrow, UserFirst, BranchesAreHome, ForksAreClean, RunsKept, MessagesKept,
         [Next]_vars
  PROVE  BranchType' /\ SessionsGrow' /\ BranchesAreHome' /\ ForksAreClean'
  BY OnlyForksBranch, SameBranches, NewFork

-----------------------------------------------------------------------------
(* Requests and flushes.                                                    *)

\* A request is at work for a run that has a row, and whose flush was not aborted.
WorkersKept ==
  /\ worker' \in [Runs -> Worker]
  /\ \A x \in Runs : worker'[x].phase # "none" => runs'[x].status # "absent" /\ ~ flush[x].aborted

LEMMA NoWorkerType == NoWorker \in Worker /\ NoWorker.phase = "none"
  BY DEF NoWorker, Worker, Phases, NoSummary, Summary

LEMMA SameWorkers ==
  ASSUME TypeOK, Idle, AbortedIsOver, RunsKept, UNCHANGED worker
  PROVE  WorkersKept
  BY DEF TypeOK, Idle, AbortedIsOver, RunsKept, WorkersKept

LEMMA BecomeKeepsWorkers ==
  ASSUME TypeOK, Idle, AbortedIsOver, RunsKept, NEW r \in Runs, NEW w \in Worker, Become(r, w),
         w.phase # "none" => runs'[r].status # "absent" /\ ~ flush[r].aborted
  PROVE  WorkersKept
<1>1. worker \in [Runs -> Worker] /\ worker' = [worker EXCEPT ![r] = w]
  BY DEF TypeOK, Become
<1>2. \A x \in Runs : worker'[x] = IF x = r THEN w ELSE worker[x]
  BY <1>1
<1>3. worker' \in [Runs -> Worker]
  BY <1>1
<1>. QED
  BY <1>2, <1>3 DEF Idle, AbortedIsOver, RunsKept, WorkersKept

LEMMA BuiltType ==
  ASSUME TypeOK, NEW r \in Runs, NEW s \in Sessions, NEW synced \in BOOLEAN
  PROVE  Built(r, s, synced) \in Worker
<1>1. Prompt(r, s) \in SUBSET Nat
  BY DEF Prompt, LastOf, Before
<1>2. Covered(s) \in Nat
  BY LatestType DEF Covered, Summary
<1>. QED
  BY <1>1, <1>2, NoWorkerType DEF Built, Worker, Phases

\* A request that is over.
LEMMA OverKeepsWorkers ==
  ASSUME TypeOK, Idle, AbortedIsOver, RunsKept, NEW r \in Runs, Become(r, NoWorker)
  PROVE  WorkersKept
  BY NoWorkerType, BecomeKeepsWorkers

\* One that goes on.
LEMMA PhaseKeepsWorkers ==
  ASSUME TypeOK, Idle, AbortedIsOver, RunsKept, NEW r \in Runs,
         runs[r].status # "absent", ~ flush[r].aborted,
         NEW phase \in Phases, Become(r, [worker[r] EXCEPT !.phase = phase])
  PROVE  WorkersKept
<1>1. worker[r] \in Worker
  BY DEF TypeOK
<1>2. [worker[r] EXCEPT !.phase = phase] \in Worker
  BY <1>1 DEF Worker
<1>3. runs'[r].status # "absent"
  BY DEF RunsKept
<1>. QED
  BY <1>2, <1>3, BecomeKeepsWorkers

LEMMA GoOnKeepsWorkers ==
  ASSUME TypeOK, Idle, AbortedIsOver, RunsKept, NEW r \in Runs, NEW f, GoOn(r, f),
         runs[r].status # "absent", ~ flush[r].aborted
  PROVE  WorkersKept
  BY OverKeepsWorkers, PhaseKeepsWorkers DEF GoOn, Phases

LEMMA WorkerStep ==
  ASSUME TypeOK, Idle, AbortedIsOver, RunsKept, [Next]_vars
  PROVE  WorkersKept
<1>1. ASSUME NEW r \in Runs, NEW s \in Sessions, NEW resent \in BOOLEAN, Claim(r, s, resent)
      PROVE  WorkersKept
  <2>. DEFINE w == IF Latest(s) = NoSummary THEN Built(r, s, TRUE)
                   ELSE [NoWorker EXCEPT !.phase = "syncing", !.sync = Latest(s)]
  <2>1. Become(r, w) /\ runs[r].status = "absent"
    BY <1>1 DEF Claim, NewRun
  <2>2. [NoWorker EXCEPT !.phase = "syncing", !.sync = Latest(s)] \in Worker
    BY LatestType DEF NoWorker, Worker, Phases
  <2>3. w \in Worker
    BY <2>2, BuiltType
  <2>4. runs'[r].status # "absent" /\ ~ flush[r].aborted
    <3>1. runs' = [x \in Runs |->
             IF x = r THEN [status |-> "running", session |-> s, compiled |-> FALSE]
             ELSE IF x \in ActiveIn(s) THEN [runs[x] EXCEPT !.status = "settled"]
             ELSE runs[x]]
      BY <1>1 DEF Claim
    <3>2. ~ flush[r].aborted
      BY <2>1 DEF AbortedIsOver
    <3>. QED
      BY <3>1, <3>2
  <2>. HIDE DEF w
  <2>. QED
    BY <2>1, <2>3, <2>4, BecomeKeepsWorkers
<1>2. ASSUME NEW r \in Runs, NEW ok \in BOOLEAN, Synced(r, ok)
      PROVE  WorkersKept
  <2>1. worker[r].phase # "none" /\ Become(r, Built(r, runs[r].session, ok))
    BY <1>2 DEF Synced
  <2>2. Built(r, runs[r].session, ok) \in Worker
    <3>1. runs[r].session \in Sessions
      BY DEF TypeOK, Row
    <3>. QED
      BY <3>1, BuiltType
  <2>3. runs'[r].status # "absent" /\ ~ flush[r].aborted
    BY <2>1, AtWorkHasRow DEF RunsKept, AbortedIsOver
  <2>. QED
    BY <2>1, <2>2, <2>3, BecomeKeepsWorkers
<1>3. ASSUME NEW r \in Runs, Start(r)
      PROVE  WorkersKept
  <2>. DEFINE w == [NoWorker EXCEPT !.phase = "streaming", !.resumed = worker[r].resumed]
  <2>1. worker[r].phase # "none" /\ Become(r, w)
    BY <1>3 DEF Start
  <2>2. worker[r].resumed \in BOOLEAN
    BY DEF TypeOK, Worker
  <2>3. w \in Worker
    BY <2>2 DEF NoWorker, Worker, Phases, NoSummary, Summary
  <2>4. runs'[r].status # "absent" /\ ~ flush[r].aborted
    BY <2>1, AtWorkHasRow DEF RunsKept, AbortedIsOver
  <2>. HIDE DEF w
  <2>. QED
    BY <2>1, <2>3, <2>4, BecomeKeepsWorkers
<1>4. ASSUME NEW r \in Runs, Resume(r)
      PROVE  WorkersKept
  <2>. DEFINE w == [NoWorker EXCEPT !.phase = "preparing", !.resumed = TRUE]
  <2>1. runs[r].status = "suspended" /\ Become(r, w)
    BY <1>4 DEF Resume
  <2>2. w \in Worker
    BY DEF NoWorker, Worker, Phases, NoSummary, Summary
  <2>3. runs'[r].status # "absent" /\ ~ flush[r].aborted
    BY <2>1 DEF RunsKept, AbortedIsOver
  <2>. HIDE DEF w
  <2>. QED
    BY <2>1, <2>2, <2>3, BecomeKeepsWorkers
<1>5. ASSUME NEW r \in Runs, Finish(r)
      PROVE  WorkersKept
  <2>1. worker[r].phase # "none" /\ Become(r, [worker[r] EXCEPT !.phase = "finishing"])
    BY <1>5 DEF Finish
  <2>. QED
    BY <2>1, AtWorkHasRow, PhaseKeepsWorkers DEF AbortedIsOver, Phases
<1>6. ASSUME NEW r \in Runs,
             \/ PrepareFails(r) \/ Suspend(r) \/ CancelOrFail(r) \/ Abandon(r) \/ FinishDeclined(r)
             \/ Timeout(r)
      PROVE  WorkersKept
  <2>1. Become(r, NoWorker)
    BY <1>6 DEF PrepareFails, Suspend, CancelOrFail, Flushed, Abandon, FinishDeclined, Dropped, Timeout
  <2>. QED
    BY <2>1, OverKeepsWorkers
<1>7. ASSUME NEW r \in Runs, BeginFlush(r)
      PROVE  WorkersKept
  <2>1. worker[r].phase # "none" /\ \E f : GoOn(r, f)
    BY <1>7 DEF BeginFlush
  <2>. QED
    BY <2>1, AtWorkHasRow, GoOnKeepsWorkers DEF AbortedIsOver
<1>8. ASSUME NEW r \in Runs, NEW ok \in BOOLEAN, Summarized(r) \/ Mirrored(r, ok) \/ Extracted(r)
      PROVE  WorkersKept
  <2>1. flush[r].step # "none" /\ (Aborts(r) \/ (~ flush[r].aborted /\ \E f : GoOn(r, f)))
    BY <1>8 DEF Summarized, Mirrored, Extracted
  <2>. QED
    BY <2>1, AtWorkHasRow, GoOnKeepsWorkers, SameWorkers DEF Aborts
<1>9. ASSUME NEW r \in Runs,
             \/ \E s \in Sessions, resent \in BOOLEAN : Refuse(r, s, resent)
             \/ \E n \in 1..MaxDrafts : Observe(r, n)
             \/ CancelOrphan(r)
      PROVE  WorkersKept
  BY <1>9, SameWorkers DEF Refuse, Observe, CancelOrphan
<1>10. CASE \E r \in Runs, c \in Sessions, checkpoint \in BOOLEAN : Fork(r, c, checkpoint)
  BY <1>10, SameWorkers DEF Fork
<1>11. CASE UNCHANGED vars
  BY <1>11, SameWorkers DEF vars
<1>12. CASE Crash
  <2>1. worker' = [r \in Runs |-> NoWorker]
    BY <1>12 DEF Crash
  <2>. QED
    BY <2>1, NoWorkerType DEF WorkersKept
<1>. QED
  BY <1>1, <1>2, <1>3, <1>4, <1>5, <1>6, <1>7, <1>8, <1>9, <1>10, <1>11, <1>12
     DEF Next, Begins, Streams, Flushes

\* The step of a flush is that of a run that has a row; when a flush is aborted, the
\* run is completed and its request is over.
FlushesKept ==
  /\ flush' \in [Runs -> Flush]
  /\ \A x \in Runs : flush'[x].step # "none" => runs'[x].status # "absent"
  /\ \A x \in Runs : flush'[x].aborted =>
       flush[x].aborted \/ (worker'[x].phase = "none" /\ runs'[x].status = "settled")

LEMMA NoFlushType == NoFlush \in Flush /\ NoFlush.step = "none" /\ ~ NoFlush.aborted
  BY DEF NoFlush, Flush, NoSummary, Summary

LEMMA SameFlushes ==
  ASSUME TypeOK, Idle, RunsKept, UNCHANGED flush
  PROVE  FlushesKept
  BY DEF TypeOK, Idle, RunsKept, FlushesKept

LEMMA FlushBecomes ==
  ASSUME TypeOK, Idle, RunsKept, NEW r \in Runs, NEW f \in Flush, ~ f.aborted,
         flush' = [flush EXCEPT ![r] = f], f.step # "none" => runs[r].status # "absent"
  PROVE  FlushesKept
<1>1. flush \in [Runs -> Flush]
  BY DEF TypeOK
<1>2. \A x \in Runs : flush'[x] = IF x = r THEN f ELSE flush[x]
  BY <1>1
<1>3. flush' \in [Runs -> Flush]
  BY <1>1
<1>. QED
  BY <1>2, <1>3 DEF Idle, RunsKept, FlushesKept

LEMMA AbortsKeepsFlushes ==
  ASSUME TypeOK, Idle, RunsKept, NEW r \in Runs, Aborts(r)
  PROVE  FlushesKept
  BY NoFlushType, FlushBecomes DEF Aborts

LEMMA GoOnKeepsFlushes ==
  ASSUME TypeOK, Idle, RunsKept, NEW r \in Runs, runs[r].status # "absent",
         NEW f \in Flush, ~ f.aborted, GoOn(r, f)
  PROVE  FlushesKept
  BY FlushBecomes DEF GoOn

LEMMA ExtractionType ==
  ASSUME NEW source \in BOOLEAN
  PROVE  Extraction(source) \in Flush /\ ~ Extraction(source).aborted
  BY NoFlushType DEF Extraction, Flush

LEMMA FlushStep ==
  ASSUME TypeOK, Idle, SummariesAreWhole, RunsKept, [Next]_vars
  PROVE  FlushesKept
<1>0. \A r \in Runs : flush[r] \in Flush /\ flush[r].source \in BOOLEAN /\ flush[r].pending \in Summary
  BY DEF TypeOK, Flush
<1>1. ASSUME NEW r \in Runs, BeginFlush(r)
      PROVE  FlushesKept
  <2>. DEFINE s == runs[r].session
              n == Len(Appended(r))
              source == ~worker[r].resumed \/ drafts[r] # {}
              f == [step |-> "summarizing", aborted |-> FALSE, pending |-> Proposed(s, n), source |-> source]
  <2>1. s \in Sessions /\ n \in Nat /\ source \in BOOLEAN
    BY AppendedRows DEF TypeOK, Row
  <2>2. worker[r].phase # "none" /\ (GoOn(r, Extraction(source)) \/ (Summarizes(s, n) /\ GoOn(r, f)))
    BY <1>1 DEF BeginFlush
  <2>3. runs[r].status # "absent"
    BY <2>2, AtWorkHasRow
  <2>. HIDE DEF s, n, source
  <2>4. CASE GoOn(r, Extraction(source))
    BY <2>1, <2>3, <2>4, ExtractionType, GoOnKeepsFlushes
  <2>5. CASE Summarizes(s, n) /\ GoOn(r, f)
    <3>1. Proposed(s, n) \in Summary
      BY <2>1, <2>5, ProposedIsWhole
    <3>2. f \in Flush /\ ~ f.aborted
      BY <2>1, <3>1 DEF Flush
    <3>. HIDE DEF f
    <3>. QED
      BY <2>3, <2>5, <3>2, GoOnKeepsFlushes
  <2>. QED
    BY <2>2, <2>4, <2>5
<1>2. ASSUME NEW r \in Runs, Summarized(r)
      PROVE  FlushesKept
  <2>. DEFINE f == flush[r]
              s == runs[r].session
  <2>1. runs[r].status # "absent"
    BY <1>2, AtWorkHasRow DEF Summarized
  <2>2. \/ Aborts(r)
        \/ ~ f.aborted /\ \E z \in Summary : GoOn(r, [f EXCEPT !.step = "mirroring", !.pending = z])
        \/ GoOn(r, Extraction(f.source))
    <3>1. SameRange(s, f.pending) \subseteq DOMAIN summaries[s]
      BY DEF SameRange, Clashing
    <3>2. \A i \in SameRange(s, f.pending) : summaries[s][i] \in Summary
      <4>1. s \in Sessions /\ summaries[s] \in Seq(Summary)
        BY DEF TypeOK, Row
      <4>. QED
        BY <3>1, <4>1
    <3>3. [f EXCEPT !.step = "mirroring"] = [f EXCEPT !.step = "mirroring", !.pending = f.pending]
      BY <1>0 DEF Flush
    <3>. QED
      BY <1>0, <1>2, <3>2, <3>3 DEF Summarized
  <2>3. ASSUME ~ f.aborted, NEW z \in Summary,
               GoOn(r, [f EXCEPT !.step = "mirroring", !.pending = z])
        PROVE  FlushesKept
    <3>. DEFINE g == [f EXCEPT !.step = "mirroring", !.pending = z]
    <3>1. g \in Flush /\ ~ g.aborted
      BY <1>0, <2>3 DEF Flush
    <3>. HIDE DEF g
    <3>. QED
      BY <2>1, <2>3, <3>1, GoOnKeepsFlushes DEF g
  <2>. QED
    BY <1>0, <2>1, <2>2, <2>3, AbortsKeepsFlushes, ExtractionType, GoOnKeepsFlushes
<1>3. ASSUME NEW r \in Runs, NEW ok \in BOOLEAN, Mirrored(r, ok) \/ Extracted(r)
      PROVE  FlushesKept
  <2>1. flush[r].step # "none" /\ (Aborts(r) \/ GoOn(r, NoFlush) \/ GoOn(r, Extraction(flush[r].source)))
    BY <1>3 DEF Mirrored, Extracted
  <2>. QED
    BY <1>0, <2>1, AtWorkHasRow, NoFlushType, ExtractionType, AbortsKeepsFlushes, GoOnKeepsFlushes
<1>4. ASSUME NEW r \in Runs, Timeout(r)
      PROVE  FlushesKept
  <2>1. /\ worker[r].phase # "none" /\ flush \in [Runs -> Flush] /\ runs \in [Runs -> Row]
        /\ worker \in [Runs -> Worker]
        /\ flush' = [flush EXCEPT ![r].aborted = TRUE]
        /\ runs' = [runs EXCEPT ![r].status = "settled"]
        /\ worker' = [worker EXCEPT ![r] = NoWorker]
    BY <1>4 DEF Timeout, TypeOK, Status, Become
  <2>2. [flush[r] EXCEPT !.aborted = TRUE] \in Flush
    BY <2>1 DEF Flush
  <2>3. \A x \in Runs : flush'[x] = IF x = r THEN [flush[r] EXCEPT !.aborted = TRUE] ELSE flush[x]
    BY <2>1
  <2>4. flush' \in [Runs -> Flush]
    BY <2>1, <2>2
  <2>5. runs'[r].status = "settled" /\ worker'[r].phase = "none"
    BY <2>1, NoWorkerType
  <2>6. ASSUME NEW x \in Runs, flush'[x].step # "none" PROVE runs'[x].status # "absent"
    BY <2>3, <2>5, <2>6 DEF Idle, RunsKept
  <2>. QED
    BY <2>3, <2>4, <2>5, <2>6 DEF FlushesKept
<1>5. ASSUME NEW r \in Runs,
             \/ \E s \in Sessions, resent \in BOOLEAN : Claim(r, s, resent) \/ Refuse(r, s, resent)
             \/ \E ok \in BOOLEAN : Synced(r, ok)
             \/ \E n \in 1..MaxDrafts : Observe(r, n)
      PROVE  FlushesKept
  BY <1>5, SameFlushes DEF Claim, Refuse, Synced, Observe
<1>6. ASSUME NEW r \in Runs,
             \/ PrepareFails(r) \/ Start(r) \/ Resume(r) \/ Suspend(r) \/ CancelOrFail(r)
             \/ CancelOrphan(r) \/ Abandon(r) \/ FinishDeclined(r) \/ Finish(r)
      PROVE  FlushesKept
  BY <1>6, SameFlushes
     DEF PrepareFails, Start, Resume, Suspend, CancelOrFail, Flushed, CancelOrphan, Abandon, Dropped,
         FinishDeclined, Finish
<1>7. CASE \E r \in Runs, c \in Sessions, checkpoint \in BOOLEAN : Fork(r, c, checkpoint)
  BY <1>7, SameFlushes DEF Fork
<1>8. CASE UNCHANGED vars
  BY <1>8, SameFlushes DEF vars
<1>9. CASE Crash
  <2>1. flush' = [r \in Runs |-> NoFlush]
    BY <1>9 DEF Crash
  <2>. QED
    BY <2>1, NoFlushType DEF FlushesKept
<1>. QED
  BY <1>1, <1>2, <1>3, <1>4, <1>5, <1>6, <1>7, <1>8, <1>9 DEF Next, Begins, Streams, Flushes

\* A run that is settled and that nothing drives stays so.
LEMMA SettledStays ==
  ASSUME TypeOK, NEW x \in Runs, runs[x].status = "settled", worker[x].phase = "none", [Next]_vars
  PROVE  runs'[x].status = "settled"
<1>0. runs \in [Runs -> Row]
  BY DEF TypeOK
<1>a. ASSUME NEW r \in Runs, Status(r, "settled") \/ UNCHANGED runs
      PROVE  runs'[x].status = "settled"
  <2>1. CASE UNCHANGED runs
    BY <2>1
  <2>2. CASE runs' = [runs EXCEPT ![r] = [runs[r] EXCEPT !.status = "settled"]]
    <3>1. runs'[x] = IF x = r THEN [runs[r] EXCEPT !.status = "settled"] ELSE runs[x]
      BY <1>0, <2>2
    <3>. QED
      BY <1>0, <3>1 DEF Row
  <2>. QED
    BY <1>a, <2>1, <2>2 DEF Status
<1>1. ASSUME NEW r \in Runs, NEW s \in Sessions, NEW resent \in BOOLEAN,
             Claim(r, s, resent) \/ Refuse(r, s, resent)
      PROVE  runs'[x].status = "settled"
  <2>1. runs[r].status = "absent"
    BY <1>1 DEF Claim, Refuse, NewRun
  <2>2. CASE Claim(r, s, resent)
    BY <1>0, <2>1, <2>2 DEF Claim, ActiveIn, Active
  <2>3. CASE Refuse(r, s, resent)
    BY <1>0, <2>1, <2>3 DEF Refuse
  <2>. QED
    BY <1>1, <2>2, <2>3
<1>2. ASSUME NEW r \in Runs, Resume(r)
      PROVE  runs'[x].status = "settled"
  BY <1>0, <1>2 DEF Resume, ActiveIn, Active
<1>3. ASSUME NEW r \in Runs,
             \/ PrepareFails(r) \/ CancelOrFail(r) \/ CancelOrphan(r) \/ FinishDeclined(r) \/ Timeout(r)
      PROVE  runs'[x].status = "settled"
  <2>1. Status(r, "settled") \/ UNCHANGED runs
    BY <1>3 DEF PrepareFails, CancelOrFail, Flushed, CancelOrphan, FinishDeclined, Timeout
  <2>. QED
    BY <1>a, <2>1
<1>4. ASSUME NEW r \in Runs, Suspend(r)
      PROVE  runs'[x].status = "settled"
  BY <1>0, <1>4 DEF Suspend, Flushed, Status
<1>5. ASSUME NEW r \in Runs, NEW ok \in BOOLEAN,
             BeginFlush(r) \/ Summarized(r) \/ Mirrored(r, ok) \/ Extracted(r)
      PROVE  runs'[x].status = "settled"
  <2>1. Aborts(r) \/ \E f : GoOn(r, f)
    BY <1>5 DEF BeginFlush, Summarized, Mirrored, Extracted
  <2>2. Status(r, "settled") \/ UNCHANGED runs
    BY <2>1 DEF Aborts, GoOn
  <2>. QED
    BY <1>a, <2>2
<1>6. ASSUME NEW r \in Runs,
             \/ \E ok \in BOOLEAN : Synced(r, ok)
             \/ \E n \in 1..MaxDrafts : Observe(r, n)
             \/ Abandon(r) \/ Finish(r)
      PROVE  runs'[x].status = "settled"
  BY <1>6 DEF Synced, Observe, Abandon, Finish
<1>10. ASSUME NEW r \in Runs, Start(r)
       PROVE  runs'[x].status = "settled"
  <2>1. runs' = [runs EXCEPT ![r].compiled = TRUE]
    BY <1>10 DEF Start
  <2>2. runs'[x] = IF x = r THEN [runs[r] EXCEPT !.compiled = TRUE] ELSE runs[x]
    BY <1>0, <2>1
  <2>. QED
    BY <1>0, <2>2 DEF Row
<1>7. CASE \E r \in Runs, c \in Sessions, checkpoint \in BOOLEAN : Fork(r, c, checkpoint)
  BY <1>7 DEF Fork
<1>8. CASE Crash \/ UNCHANGED vars
  BY <1>8 DEF Crash, vars
<1>. QED
  BY <1>1, <1>2, <1>3, <1>4, <1>5, <1>6, <1>7, <1>8, <1>10 DEF Next, Begins, Streams, Flushes

LEMMA OverStep ==
  ASSUME TypeOK, Idle, AbortedIsOver, RunsKept, WorkersKept, FlushesKept, [Next]_vars
  PROVE  Idle' /\ AbortedIsOver'
<1>1. Idle'
  BY DEF Idle, WorkersKept, FlushesKept
<1>2. ASSUME NEW x \in Runs, flush'[x].aborted
      PROVE  worker'[x].phase = "none" /\ runs'[x].status = "settled"
  <2>1. CASE flush[x].aborted
    <3>1. worker[x].phase = "none" /\ runs[x].status = "settled"
      BY <2>1 DEF AbortedIsOver
    <3>. QED
      BY <2>1, <3>1, SettledStays DEF WorkersKept
  <2>2. CASE ~ flush[x].aborted
    BY <1>2, <2>2 DEF FlushesKept
  <2>. QED
    BY <2>1, <2>2
<1>. QED
  BY <1>1, <1>2 DEF AbortedIsOver

-----------------------------------------------------------------------------
(* Summaries.                                                               *)

\* z is a summary of stored messages, and a whole one unless some were not loaded.
Whole(z, stored, skipped) ==
  /\ z.kept \subseteq 1..z.to /\ z.to <= stored
  /\ skipped \/ (z.from = 1 /\ z.kept = 1..z.to)

SummariesKept ==
  /\ summaries' \in [Sessions -> Seq(Summary)]
  /\ gapped \subseteq gapped' /\ gapped' \subseteq Sessions
  /\ \A s \in Sessions : \A i \in DOMAIN summaries'[s] :
       Whole(summaries'[s][i], Len(messages'[s]), s \in gapped')
  /\ \A r \in Runs : flush'[r].step = "summarizing" =>
       Whole(flush'[r].pending, Len(messages'[runs'[r].session]), runs'[r].session \in gapped')

\* Messages that come make no summary less whole.
LEMMA WholeStays ==
  ASSUME TypeOK, MessagesKept, gapped \subseteq gapped', NEW s \in Sessions, NEW z \in Summary,
         Whole(z, Len(messages[s]), s \in gapped)
  PROVE  Whole(z, Len(messages'[s]), s \in gapped')
<1>1. Len(messages[s]) \in Nat /\ Len(messages'[s]) \in Nat /\ Len(messages[s]) <= Len(messages'[s])
  BY LenMessages DEF MessagesKept
<1>2. z.to \in Nat
  BY DEF Summary
<1>. QED
  BY <1>1, <1>2 DEF Whole

LEMMA WholeBefore ==
  ASSUME TypeOK, SummariesAreWhole, NEW s \in Sessions, NEW i \in DOMAIN summaries[s]
  PROVE  summaries[s][i] \in Summary /\ Whole(summaries[s][i], Len(messages[s]), s \in gapped)
<1>1. summaries[s] \in Seq(Summary)
  BY DEF TypeOK
<1>2. summaries[s][i] \in Summary
  BY <1>1
<1>. QED
  BY <1>2 DEF TypeOK, SummariesAreWhole, Whole

\* A step that stores no summary and leaves a pending one as it is.
LEMMA SameSummaries ==
  ASSUME TypeOK, Idle, SummariesAreWhole, PendingIsWhole, RunsKept, MessagesKept,
         UNCHANGED summaries, gapped \subseteq gapped', gapped' \subseteq Sessions,
         \A r \in Runs : flush'[r].step = "summarizing" =>
           \/ flush[r].step = "summarizing" /\ flush'[r].pending = flush[r].pending
           \/ Whole(flush'[r].pending, Len(messages'[runs'[r].session]), runs'[r].session \in gapped')
  PROVE  SummariesKept
<1>1. summaries \in [Sessions -> Seq(Summary)]
  BY DEF TypeOK
<1>2. \A s \in Sessions : \A i \in DOMAIN summaries[s] :
        Whole(summaries[s][i], Len(messages'[s]), s \in gapped')
  BY WholeBefore, WholeStays
<1>3. ASSUME NEW r \in Runs, flush[r].step = "summarizing"
      PROVE  Whole(flush[r].pending, Len(messages'[runs'[r].session]), runs'[r].session \in gapped')
  <2>1. flush[r].pending \in Summary /\ runs[r].session \in Sessions
    BY DEF TypeOK, Flush, Row
  <2>2. runs'[r].session = runs[r].session
    BY <1>3, AtWorkHasRow DEF RunsKept
  <2>3. Whole(flush[r].pending, Len(messages[runs[r].session]), runs[r].session \in gapped)
    BY <1>3 DEF PendingIsWhole, Whole
  <2>. QED
    BY <2>1, <2>2, <2>3, WholeStays
<1>. QED
  BY <1>1, <1>2, <1>3 DEF SummariesKept

LEMMA BeginFlushKeepsSummaries ==
  ASSUME TypeOK, Idle, SummariesAreWhole, PendingIsWhole, RunsKept, MessagesKept,
         NEW r \in Runs, BeginFlush(r)
  PROVE  SummariesKept
<1>. DEFINE s == runs[r].session
            n == Len(Appended(r))
            source == ~worker[r].resumed \/ drafts[r] # {}
            f == [step |-> "summarizing", aborted |-> FALSE, pending |-> Proposed(s, n), source |-> source]
<1>1. s \in Sessions /\ n \in Nat /\ source \in BOOLEAN /\ gapped \subseteq Sessions
  BY AppendedRows DEF TypeOK, Row
<1>2. flush \in [Runs -> Flush] /\ messages \in [Sessions -> Seq(Message)]
  BY DEF TypeOK
<1>3. /\ worker[r].phase # "none" /\ UNCHANGED summaries
      /\ messages' = [messages EXCEPT ![s] = Appended(r)]
      /\ \/ flush' = [flush EXCEPT ![r] = Extraction(source)] /\ UNCHANGED gapped
         \/ /\ Summarizes(s, n) /\ flush' = [flush EXCEPT ![r] = f]
            /\ gapped' = IF n > Latest(s).to + LoadLimit THEN gapped \cup {s} ELSE gapped
  BY DEF BeginFlush, PersistDrafts, GoOn
<1>4. runs'[r].session = s
  BY <1>3, AtWorkHasRow DEF RunsKept
<1>5. Len(messages'[s]) = n
  BY <1>1, <1>2, <1>3
<1>. HIDE DEF s, n, source
<1>6. CASE flush' = [flush EXCEPT ![r] = Extraction(source)] /\ UNCHANGED gapped
  <2>1. Extraction(source).step # "summarizing"
    BY DEF Extraction, NoFlush
  <2>2. \A x \in Runs : flush'[x].step = "summarizing" => flush'[x] = flush[x]
    BY <1>2, <1>6, <2>1
  <2>. QED
    BY <1>1, <1>3, <1>6, <2>2, SameSummaries
<1>7. CASE /\ Summarizes(s, n) /\ flush' = [flush EXCEPT ![r] = f]
           /\ gapped' = IF n > Latest(s).to + LoadLimit THEN gapped \cup {s} ELSE gapped
  <2>1. /\ Proposed(s, n) \in Summary /\ Proposed(s, n).kept \subseteq 1..Proposed(s, n).to
        /\ Proposed(s, n).to <= n
        /\ s \notin gapped /\ ~ (n > Latest(s).to + LoadLimit)
             => Proposed(s, n).from = 1 /\ Proposed(s, n).kept = 1..Proposed(s, n).to
    BY <1>1, <1>7, ProposedIsWhole
  <2>2. Whole(Proposed(s, n), n, s \in gapped')
    BY <1>7, <2>1 DEF Whole
  <2>3. flush'[r].pending = Proposed(s, n)
    BY <1>2, <1>7
  <2>4. \A x \in Runs : x # r => flush'[x] = flush[x]
    BY <1>2, <1>7
  <2>5. gapped \subseteq gapped' /\ gapped' \subseteq Sessions
    BY <1>1, <1>7
  <2>6. \A x \in Runs : flush'[x].step = "summarizing" =>
           \/ flush[x].step = "summarizing" /\ flush'[x].pending = flush[x].pending
           \/ Whole(flush'[x].pending, Len(messages'[runs'[x].session]), runs'[x].session \in gapped')
    BY <1>4, <1>5, <2>2, <2>3, <2>4
  <2>. QED
    BY <1>3, <2>5, <2>6, SameSummaries
<1>. QED
  BY <1>3, <1>6, <1>7

LEMMA SummarizedKeepsSummaries ==
  ASSUME TypeOK, Idle, SummariesAreWhole, PendingIsWhole, RunsKept, MessagesKept,
         NEW r \in Runs, Summarized(r)
  PROVE  SummariesKept
<1>. DEFINE s == runs[r].session
            z == flush[r].pending
<1>1. /\ flush[r].step = "summarizing" /\ UNCHANGED <<messages, gapped>>
      /\ summaries' = summaries \/ summaries' = [summaries EXCEPT ![s] = Append(summaries[s], z)]
  BY DEF Summarized
<1>2. flush \in [Runs -> Flush] /\ summaries \in [Sessions -> Seq(Summary)] /\ gapped \subseteq Sessions
      /\ s \in Sessions /\ z \in Summary
  BY DEF TypeOK, Row, Flush
<1>3. \A x \in Runs : flush'[x].step = "summarizing" => flush'[x] = flush[x]
  <2>1. \E f : flush' = [flush EXCEPT ![r] = f] /\ f.step # "summarizing"
    <3>1. \A f : Extraction(f).step # "summarizing" /\ NoFlush.step # "summarizing"
      BY DEF Extraction, NoFlush
    <3>2. \A y \in Summary : /\ [flush[r] EXCEPT !.step = "mirroring", !.pending = y].step # "summarizing"
                             /\ [flush[r] EXCEPT !.step = "mirroring"].step # "summarizing"
      BY <1>2 DEF Flush
    <3>3. SameRange(s, z) \subseteq DOMAIN summaries[s] /\ \A i \in DOMAIN summaries[s] : summaries[s][i] \in Summary
      BY <1>2 DEF SameRange, Clashing
    <3>. QED
      BY <1>2, <3>1, <3>2, <3>3 DEF Summarized, Aborts, GoOn
  <2>. QED
    BY <1>2, <2>1
<1>4. Whole(z, Len(messages[s]), s \in gapped)
  BY <1>1 DEF PendingIsWhole, Whole
<1>. HIDE DEF s, z
<1>5. CASE summaries' = summaries
  BY <1>1, <1>2, <1>3, <1>5, SameSummaries
<1>6. CASE summaries' = [summaries EXCEPT ![s] = Append(summaries[s], z)]
  <2>1. summaries' \in [Sessions -> Seq(Summary)]
    BY <1>2, <1>6
  <2>2. \A t \in Sessions : summaries'[t] = IF t = s THEN Append(summaries[s], z) ELSE summaries[t]
    BY <1>2, <1>6
  <2>3. ASSUME NEW t \in Sessions, NEW i \in DOMAIN summaries'[t]
        PROVE  \/ i \in DOMAIN summaries[t] /\ summaries'[t][i] = summaries[t][i]
               \/ t = s /\ summaries'[t][i] = z
    <3>1. CASE t = s
      <4>1. summaries[s] \in Seq(Summary) /\ i \in DOMAIN Append(summaries[s], z)
        BY <1>2, <2>2, <2>3, <3>1
      <4>2. Append(summaries[s], z)[i] = IF i \in DOMAIN summaries[s] THEN summaries[s][i] ELSE z
        BY <1>2, <4>1
      <4>. QED
        BY <2>2, <3>1, <4>2
    <3>2. CASE t # s
      BY <2>2, <2>3, <3>2
    <3>. QED
      BY <3>1, <3>2
  <2>4. \A t \in Sessions : \A i \in DOMAIN summaries'[t] :
          Whole(summaries'[t][i], Len(messages[t]), t \in gapped)
    BY <1>4, <2>3, WholeBefore
  <2>5. ASSUME NEW x \in Runs, flush'[x].step = "summarizing"
        PROVE  Whole(flush'[x].pending, Len(messages[runs'[x].session]), runs'[x].session \in gapped)
    <3>1. flush'[x] = flush[x] /\ flush[x].step = "summarizing"
      BY <1>3, <2>5
    <3>2. runs'[x].session = runs[x].session
      BY <3>1, AtWorkHasRow DEF RunsKept
    <3>. QED
      BY <3>1, <3>2 DEF PendingIsWhole, Whole
  <2>. QED
    BY <1>1, <1>2, <2>1, <2>4, <2>5 DEF SummariesKept
<1>. QED
  BY <1>1, <1>5, <1>6

LEMMA SummariesStep ==
  ASSUME TypeOK, Idle, SummariesAreWhole, PendingIsWhole, RunsKept, MessagesKept, [Next]_vars
  PROVE  SummariesKept
<1>0. gapped \subseteq Sessions /\ flush \in [Runs -> Flush]
  BY DEF TypeOK
<1>1. ASSUME NEW r \in Runs, NEW ok \in BOOLEAN, Mirrored(r, ok) \/ Extracted(r)
      PROVE  SummariesKept
  <2>1. /\ UNCHANGED <<summaries, gapped>>
        /\ \E f : flush' = [flush EXCEPT ![r] = f] /\ f.step # "summarizing"
    BY <1>1 DEF Mirrored, Extracted, Aborts, GoOn, Extraction, NoFlush
  <2>2. \A x \in Runs : flush'[x].step = "summarizing" => flush'[x] = flush[x]
    BY <1>0, <2>1
  <2>. QED
    BY <1>0, <2>1, <2>2, SameSummaries
<1>2. ASSUME NEW r \in Runs, Timeout(r)
      PROVE  SummariesKept
  <2>1. UNCHANGED <<summaries, gapped>> /\ flush' = [flush EXCEPT ![r].aborted = TRUE]
    BY <1>2 DEF Timeout, tables
  <2>2. \A x \in Runs : flush'[x].step = flush[x].step /\ flush'[x].pending = flush[x].pending
    BY <1>0, <2>1 DEF Flush
  <2>. QED
    BY <1>0, <2>1, <2>2, SameSummaries
<1>3. ASSUME NEW r \in Runs,
             \/ \E s \in Sessions, resent \in BOOLEAN : Claim(r, s, resent) \/ Refuse(r, s, resent)
             \/ \E ok \in BOOLEAN : Synced(r, ok)
             \/ \E n \in 1..MaxDrafts : Observe(r, n)
      PROVE  SummariesKept
  <2>1. UNCHANGED <<summaries, gapped, flush>>
    BY <1>3 DEF Claim, Refuse, Synced, Observe, tables
  <2>. QED
    BY <1>0, <2>1, SameSummaries
<1>4. ASSUME NEW r \in Runs,
             \/ PrepareFails(r) \/ Start(r) \/ Resume(r) \/ Suspend(r) \/ CancelOrFail(r)
             \/ CancelOrphan(r) \/ Abandon(r) \/ FinishDeclined(r) \/ Finish(r)
      PROVE  SummariesKept
  <2>1. UNCHANGED <<summaries, gapped, flush>>
    BY <1>4
       DEF PrepareFails, Start, Resume, Suspend, CancelOrFail, Flushed, CancelOrphan, Abandon, Dropped,
           FinishDeclined, Finish, tables
  <2>. QED
    BY <1>0, <2>1, SameSummaries
<1>5. CASE \E r \in Runs, c \in Sessions, checkpoint \in BOOLEAN : Fork(r, c, checkpoint)
  <2>1. UNCHANGED <<summaries, gapped, flush>>
    BY <1>5 DEF Fork
  <2>. QED
    BY <1>0, <2>1, SameSummaries
<1>6. CASE UNCHANGED vars
  <2>1. UNCHANGED <<summaries, gapped, flush>>
    BY <1>6 DEF vars, tables
  <2>. QED
    BY <1>0, <2>1, SameSummaries
<1>7. CASE Crash
  <2>1. UNCHANGED <<summaries, gapped>> /\ flush' = [r \in Runs |-> NoFlush]
    BY <1>7 DEF Crash, tables
  <2>2. \A x \in Runs : flush'[x].step # "summarizing"
    BY <2>1 DEF NoFlush
  <2>. QED
    BY <1>0, <2>1, <2>2, SameSummaries
<1>. QED
  BY <1>1, <1>2, <1>3, <1>4, <1>5, <1>6, <1>7, BeginFlushKeepsSummaries, SummarizedKeepsSummaries
     DEF Next, Begins, Streams, Flushes

-----------------------------------------------------------------------------
(* The rest of the state.                                                   *)

DraftsType ==
  /\ streamed \in [Runs -> 0..MaxDrafts]
  /\ drafts \in [Runs -> SUBSET (1..MaxDrafts)]
  /\ \A r \in Runs : drafts[r] \subseteq 1..streamed[r]

LEMMA DraftsStep ==
  ASSUME TypeOK, [Next]_vars
  PROVE  DraftsType'
<1>0. DraftsType
  BY DEF TypeOK, DraftsType
<1>. DEFINE Cleared(r) == drafts' = [drafts EXCEPT ![r] = {}] /\ UNCHANGED streamed
<1>1. ASSUME NEW r \in Runs, Cleared(r)
      PROVE  DraftsType'
  BY <1>0, <1>1 DEF DraftsType
<1>2. ASSUME UNCHANGED <<drafts, streamed>>
      PROVE  DraftsType'
  BY <1>0, <1>2 DEF DraftsType
<1>3. ASSUME NEW r \in Runs, NEW n \in 1..MaxDrafts, Observe(r, n)
      PROVE  DraftsType'
  <2>1. /\ n <= streamed[r] + 1
        /\ drafts' = [drafts EXCEPT ![r] = drafts[r] \cup {n}]
        /\ streamed' = [streamed EXCEPT ![r] = Larger(n, streamed[r])]
    BY <1>3 DEF Observe
  <2>2. streamed[r] \in 0..MaxDrafts /\ drafts[r] \subseteq 1..streamed[r] /\ drafts[r] \subseteq 1..MaxDrafts
    BY <1>0 DEF DraftsType
  <2>3. /\ Larger(n, streamed[r]) \in 0..MaxDrafts
        /\ drafts[r] \cup {n} \subseteq 1..Larger(n, streamed[r])
        /\ drafts[r] \cup {n} \in SUBSET (1..MaxDrafts)
    BY <2>2, Constants DEF Larger
  <2>. QED
    BY <1>0, <2>1, <2>3 DEF DraftsType
<1>4. ASSUME NEW r \in Runs,
             \/ Suspend(r) \/ CancelOrFail(r) \/ BeginFlush(r) \/ Abandon(r) \/ FinishDeclined(r)
      PROVE  DraftsType'
  <2>1. Cleared(r)
    BY <1>4 DEF Suspend, CancelOrFail, Flushed, BeginFlush, PersistDrafts, Abandon, FinishDeclined, Dropped
  <2>. QED
    BY <1>1, <2>1
<1>5. ASSUME NEW r \in Runs,
             \/ \E s \in Sessions, resent \in BOOLEAN : Claim(r, s, resent) \/ Refuse(r, s, resent)
             \/ \E ok \in BOOLEAN : Synced(r, ok) \/ Mirrored(r, ok)
             \/ PrepareFails(r) \/ Start(r) \/ Resume(r) \/ CancelOrphan(r) \/ Finish(r)
             \/ Summarized(r) \/ Extracted(r) \/ Timeout(r)
      PROVE  DraftsType'
  <2>1. UNCHANGED <<drafts, streamed>>
    BY <1>5 DEF Claim, Refuse, Synced, Mirrored, PrepareFails, Start, Resume, CancelOrphan, Finish,
                Summarized, Extracted, Timeout
  <2>. QED
    BY <1>2, <2>1
<1>6. CASE \E r \in Runs, c \in Sessions, checkpoint \in BOOLEAN : Fork(r, c, checkpoint)
  BY <1>2, <1>6 DEF Fork
<1>7. CASE UNCHANGED vars
  BY <1>2, <1>7 DEF vars
<1>8. CASE Crash
  BY <1>0, <1>8 DEF Crash, DraftsType
<1>. QED
  BY <1>3, <1>4, <1>5, <1>6, <1>7, <1>8 DEF Next, Begins, Streams, Flushes

\* What a step does to drafts: a message is streamed, the drafts of a run are stored or
\* dropped, or all of them are.
LEMMA DraftsCases ==
  ASSUME [Next]_vars
  PROVE  \/ UNCHANGED <<drafts, streamed, lost>>
         \/ \E r \in Runs : worker[r].phase # "none" /\ PersistDrafts(r) /\ UNCHANGED <<streamed, lost>>
         \/ \E r \in Runs, n \in 1..MaxDrafts : Observe(r, n)
         \/ \E r \in Runs : Dropped(r)
         \/ Crash
<1>1. ASSUME NEW r \in Runs, Suspend(r) \/ CancelOrFail(r) \/ BeginFlush(r)
      PROVE  worker[r].phase # "none" /\ PersistDrafts(r) /\ UNCHANGED <<streamed, lost>>
  BY <1>1 DEF Suspend, CancelOrFail, Flushed, BeginFlush
<1>2. ASSUME NEW r \in Runs, Abandon(r) \/ FinishDeclined(r)
      PROVE  Dropped(r)
  BY <1>2 DEF Abandon, FinishDeclined
<1>3. ASSUME NEW r \in Runs,
             \/ \E s \in Sessions, resent \in BOOLEAN : Claim(r, s, resent) \/ Refuse(r, s, resent)
             \/ \E ok \in BOOLEAN : Synced(r, ok) \/ Mirrored(r, ok)
             \/ PrepareFails(r) \/ Start(r) \/ Resume(r) \/ CancelOrphan(r) \/ Finish(r)
             \/ Summarized(r) \/ Extracted(r) \/ Timeout(r)
      PROVE  UNCHANGED <<drafts, streamed, lost>>
  BY <1>3 DEF Claim, Refuse, Synced, Mirrored, PrepareFails, Start, Resume, CancelOrphan, Finish,
              Summarized, Extracted, Timeout
<1>4. CASE \E r \in Runs, c \in Sessions, checkpoint \in BOOLEAN : Fork(r, c, checkpoint)
  BY <1>4 DEF Fork
<1>5. CASE UNCHANGED vars
  BY <1>5 DEF vars
<1>. QED
  BY <1>1, <1>2, <1>3, <1>4, <1>5 DEF Next, Begins, Streams, Flushes

LEMMA OnceStep ==
  ASSUME TypeOK, RowsAreHome, RowsOnce, [Next]_vars
  PROVE  RowsOnce'
<1>1. CASE UNCHANGED messages
  BY <1>1 DEF RowsOnce
<1>2. ASSUME NEW r \in Runs, PersistDrafts(r)
      PROVE  RowsOnce'
  <2>. DEFINE h == runs[r].session
              m == messages[h]
              a == Appended(r)
  <2>1. h \in Sessions /\ messages \in [Sessions -> Seq(Message)]
    BY DEF TypeOK, Row
  <2>2. \A s \in Sessions : messages'[s] = IF s = h THEN a ELSE messages[s]
    BY <1>2, <2>1 DEF PersistDrafts
  <2>3. /\ Len(m) \in Nat /\ DOMAIN m = 1..Len(m) /\ Len(a) \in Nat
        /\ \A p \in 1..Len(m) : a[p] = m[p]
        /\ \A p \in (Len(m) + 1)..Len(a) : a[p].run = r /\ a[p].n \in NewDrafts(r)
        /\ \A p, q \in (Len(m) + 1)..Len(a) : a[p].n = a[q].n => p = q
    BY <2>1, LenMessages, AppendedRows, AppendedOnce
  <2>4. \A p \in 1..Len(m) : ~ (m[p].run = r /\ m[p].n \in NewDrafts(r))
    BY <2>3 DEF NewDrafts, Stored
  <2>5. \A p, q \in 1..Len(m) : m[p].run = m[q].run /\ m[p].n = m[q].n => p = q
    BY <2>1 DEF RowsOnce
  <2>. HIDE DEF a, m, h
  <2>6. ASSUME NEW p \in 1..Len(a), NEW q \in 1..Len(a), a[p].run = a[q].run, a[p].n = a[q].n
        PROVE  p = q
    <3>1. CASE p <= Len(m) /\ q <= Len(m)
      BY <2>3, <2>5, <2>6, <3>1
    <3>2. CASE p > Len(m) /\ q > Len(m)
      BY <2>3, <2>6, <3>2
    <3>3. CASE p <= Len(m) /\ q > Len(m)
      BY <2>3, <2>4, <2>6, <3>3
    <3>4. CASE p > Len(m) /\ q <= Len(m)
      BY <2>3, <2>4, <2>6, <3>4
    <3>. QED
      BY <2>3, <3>1, <3>2, <3>3, <3>4
  <2>. QED
    BY <2>2, <2>6 DEF RowsOnce
<1>3. ASSUME NEW r \in Runs, NEW s \in Sessions, NEW resent \in BOOLEAN,
             runs[r].status = "absent", UserMessage(r, s, resent)
      PROVE  RowsOnce'
  <2>1. CASE resent
    BY <1>3, <2>1 DEF UserMessage, RowsOnce
  <2>2. CASE ~resent
    <3>. DEFINE m == messages[s]
                a == messages'[s]
    <3>1. /\ messages \in [Sessions -> Seq(Message)]
          /\ messages' = [messages EXCEPT ![s] = Append(messages[s], [run |-> r, n |-> 0])]
      BY <1>3, <2>2 DEF TypeOK, UserMessage
    <3>2. /\ Len(m) \in Nat /\ Len(a) = Len(m) + 1
          /\ \A p \in 1..Len(m) : a[p] = m[p] /\ m[p].run # r
          /\ a[Len(m) + 1].run = r
      BY <1>3, <3>1, LenMessages DEF RowsAreHome
    <3>3. \A t \in Sessions : t # s => messages'[t] = messages[t]
      BY <3>1
    <3>4. \A p, q \in 1..Len(m) : m[p].run = m[q].run /\ m[p].n = m[q].n => p = q
      BY DEF RowsOnce
    <3>. HIDE DEF a, m
    <3>5. ASSUME NEW p \in 1..Len(a), NEW q \in 1..Len(a), a[p].run = a[q].run, a[p].n = a[q].n
          PROVE  p = q
      <4>1. (p \in 1..Len(m) \/ p = Len(m) + 1) /\ (q \in 1..Len(m) \/ q = Len(m) + 1)
        BY <3>2
      <4>. QED
        BY <3>2, <3>4, <3>5, <4>1
    <3>. QED
      BY <3>3, <3>5 DEF RowsOnce, a
  <2>. QED
    BY <2>1, <2>2
<1>. QED
  BY <1>1, <1>2, <1>3, MessagesCases

LEMMA StoredStep ==
  ASSUME TypeOK, Idle, StoredOrDrafted, RunsKept, MessagesKept, [Next]_vars
  PROVE  StoredOrDrafted'
<1>0. /\ streamed \in [Runs -> 0..MaxDrafts] /\ drafts \in [Runs -> SUBSET (1..MaxDrafts)]
      /\ \A x \in Runs : runs[x].session \in Sessions /\ streamed[x] \in Nat
  BY Constants DEF TypeOK, Row
<1>1. ASSUME NEW x \in Runs, runs'[x].status = "absent" PROVE streamed[x] = 0
  BY <1>1 DEF RunsKept, StoredOrDrafted
\* What was stored or a draft, and why it still is.
<1>2. ASSUME NEW x \in Runs \ lost, NEW n \in 1..streamed[x], n \notin drafts[x]
      PROVE  Stored(runs[x].session, x, n)' /\ runs'[x].session = runs[x].session
  <2>1. Stored(runs[x].session, x, n)
    BY <1>2 DEF StoredOrDrafted
  <2>2. runs'[x].session = runs[x].session
    <3>1. runs[x].status # "absent"
      BY <1>0, <1>2 DEF StoredOrDrafted
    <3>. QED
      BY <3>1 DEF RunsKept
  <2>3. \E p \in DOMAIN messages'[runs[x].session] :
          messages'[runs[x].session][p].run = x /\ messages'[runs[x].session][p].n = n
    <3>. DEFINE h == runs[x].session
    <3>1. Len(messages[h]) \in Nat /\ DOMAIN messages[h] = 1..Len(messages[h])
      BY <1>0, LenMessages
    <3>2. Len(messages'[h]) \in Nat /\ DOMAIN messages'[h] = 1..Len(messages'[h])
      BY <1>0 DEF MessagesKept
    <3>3. PICK p \in 1..Len(messages[h]) : messages[h][p].run = x /\ messages[h][p].n = n
      BY <2>1, <3>1 DEF Stored
    <3>4. p \in 1..Len(messages'[h]) /\ messages'[h][p] = messages[h][p]
      BY <1>0, <3>1, <3>2 DEF MessagesKept
    <3>. QED
      BY <3>2, <3>3, <3>4
  <2>. QED
    BY <2>2, <2>3 DEF Stored
<1>3. CASE UNCHANGED <<drafts, streamed, lost>>
  BY <1>1, <1>2, <1>3 DEF StoredOrDrafted
<1>4. ASSUME NEW r \in Runs, worker[r].phase # "none", PersistDrafts(r), UNCHANGED <<streamed, lost>>
      PROVE  StoredOrDrafted'
  <2>. DEFINE h == runs[r].session
  <2>1. runs'[r].session = h /\ h \in Sessions
    BY <1>0, <1>4, AtWorkHasRow DEF RunsKept
  <2>2. messages'[h] = Appended(r)
    BY <1>4, <2>1 DEF PersistDrafts, TypeOK
  <2>3. ASSUME NEW n \in NewDrafts(r)
        PROVE  Stored(runs[r].session, r, n)'
    <3>1. PICK p \in (Len(messages[h]) + 1)..Len(Appended(r)) : Appended(r)[p].n = n
      BY AppendedOnce
    <3>2. /\ Appended(r)[p].run = r /\ Len(messages[h]) \in Nat /\ Appended(r) \in Seq(Message)
      BY <2>1, LenMessages, AppendedRows
    <3>3. p \in DOMAIN Appended(r)
      BY <3>2
    <3>. QED
      BY <2>1, <2>2, <3>1, <3>2, <3>3 DEF Stored
  <2>4. \A x \in Runs : drafts'[x] = IF x = r THEN {} ELSE drafts[x]
    BY <1>0, <1>4 DEF PersistDrafts
  <2>5. ASSUME NEW n \in drafts[r], n \notin NewDrafts(r)
        PROVE  Stored(runs[r].session, r, n)'
    <3>1. Stored(h, r, n)
      BY <2>5 DEF NewDrafts
    <3>2. Len(messages[h]) \in Nat /\ DOMAIN messages[h] = 1..Len(messages[h])
      BY <2>1, LenMessages
    <3>3. PICK p \in 1..Len(messages[h]) : messages[h][p].run = r /\ messages[h][p].n = n
      BY <3>1, <3>2 DEF Stored
    <3>4. p \in DOMAIN Appended(r) /\ Appended(r)[p] = messages[h][p]
      BY <3>2, AppendedRows
    <3>. QED
      BY <2>1, <2>2, <3>3, <3>4 DEF Stored
  <2>. QED
    BY <1>1, <1>2, <1>4, <2>3, <2>4, <2>5 DEF StoredOrDrafted
<1>5. ASSUME NEW r \in Runs, NEW k \in 1..MaxDrafts, Observe(r, k)
      PROVE  StoredOrDrafted'
  <2>1. /\ worker[r].phase # "none" /\ k <= streamed[r] + 1 /\ UNCHANGED <<lost, runs>>
        /\ drafts' = [drafts EXCEPT ![r] = drafts[r] \cup {k}]
        /\ streamed' = [streamed EXCEPT ![r] = Larger(k, streamed[r])]
    BY <1>5 DEF Observe
  <2>2. runs[r].status # "absent"
    BY <2>1, AtWorkHasRow
  <2>3. \A x \in Runs : /\ streamed'[x] = IF x = r THEN Larger(k, streamed[r]) ELSE streamed[x]
                        /\ drafts'[x] = IF x = r THEN drafts[r] \cup {k} ELSE drafts[x]
    BY <1>0, <2>1
  <2>4. \A n \in 1..Larger(k, streamed[r]) : n \in 1..streamed[r] \/ n = k
    BY <1>0, <2>1 DEF Larger
  <2>. QED
    BY <1>1, <1>2, <2>1, <2>2, <2>3, <2>4 DEF StoredOrDrafted
<1>6. ASSUME NEW r \in Runs, Dropped(r)
      PROVE  StoredOrDrafted'
  <2>1. /\ drafts' = [drafts EXCEPT ![r] = {}] /\ UNCHANGED streamed
        /\ lost' = IF drafts[r] = {} THEN lost ELSE lost \cup {r}
    BY <1>6 DEF Dropped
  <2>2. \A x \in Runs \ lost' : x \in Runs \ lost /\ drafts'[x] = drafts[x]
    BY <1>0, <2>1
  <2>. QED
    BY <1>1, <1>2, <2>1, <2>2 DEF StoredOrDrafted
<1>7. CASE Crash
  <2>1. UNCHANGED streamed /\ \A x \in Runs \ lost' : x \in Runs \ lost /\ drafts[x] = {}
    BY <1>7 DEF Crash
  <2>. QED
    BY <1>1, <1>2, <2>1 DEF StoredOrDrafted
<1>. QED
  BY <1>3, <1>4, <1>5, <1>6, <1>7, DraftsCases

LEMMA OnceAndStored ==
  ASSUME TypeOK, RowsOnce, StoredOrDrafted
  PROVE  DraftsAreKept
<1>. SUFFICES ASSUME NEW r \in Runs \ lost, NEW n \in 1..streamed[r]
              PROVE  LET at == {p \in RowsOf(r) : messages[runs[r].session][p].n = n}
                     IN  Cardinality(at) = 1 \/ (at = {} /\ n \in drafts[r])
  BY DEF DraftsAreKept
<1>. DEFINE m == messages[runs[r].session]
            at == {p \in RowsOf(r) : m[p].n = n}
<1>1. runs[r].session \in Sessions
  BY DEF TypeOK, Row
<1>2. DOMAIN m = 1..Len(m) /\ \A p, q \in 1..Len(m) : m[p].run = m[q].run /\ m[p].n = m[q].n => p = q
  BY <1>1, LenMessages DEF RowsOnce
<1>3. at = {p \in DOMAIN m : m[p].run = r /\ m[p].n = n}
  BY DEF RowsOf
<1>4. CASE at = {}
  <2>1. ~ Stored(runs[r].session, r, n)
    BY <1>3, <1>4 DEF Stored
  <2>. QED
    BY <1>4, <2>1 DEF StoredOrDrafted
<1>5. CASE at # {}
  <2>1. PICK p : p \in at
    BY <1>5
  <2>2. at = {p}
    BY <1>2, <1>3, <2>1
  <2>3. Cardinality({p}) = 1
    BY FS_Singleton
  <2>. QED
    BY <2>2, <2>3
<1>. QED
  BY <1>4, <1>5

RestType ==
  /\ mirror \in [Sessions -> SUBSET Nat]
  /\ memories \subseteq Runs /\ lost \subseteq Runs
  /\ faults \in 0..MaxFaults

LEMMA RestStep ==
  ASSUME TypeOK, [Next]_vars
  PROVE  RestType'
<1>. DEFINE Same == UNCHANGED <<mirror, memories, lost>>
<1>0. RestType
  BY DEF TypeOK, RestType
<1>1. ASSUME NEW happens \in BOOLEAN, Mishap(happens) PROVE faults' \in 0..MaxFaults
  BY <1>0, <1>1, Constants DEF Mishap, RestType
<1>2. ASSUME Same, faults' = faults \/ \E happens \in BOOLEAN : Mishap(happens)
      PROVE  RestType'
  BY <1>0, <1>1, <1>2 DEF RestType
<1>3. ASSUME NEW r \in Runs, NEW ok \in BOOLEAN, Synced(r, ok) \/ Mirrored(r, ok)
      PROVE  RestType'
  <2>1. runs[r].session \in Sessions /\ worker[r].sync.kept \in SUBSET Nat /\ flush[r].pending.kept \in SUBSET Nat
    BY DEF TypeOK, Row, Worker, Flush, Summary
  <2>2. \E kept \in SUBSET Nat :
          mirror' = mirror \/ mirror' = [mirror EXCEPT ![runs[r].session] = kept]
    BY <1>3, <2>1 DEF Synced, Mirrored
  <2>3. mirror' \in [Sessions -> SUBSET Nat]
    BY <1>0, <2>1, <2>2 DEF RestType
  <2>4. Mishap(~ok) /\ UNCHANGED <<memories, lost>>
    BY <1>3 DEF Synced, Mirrored
  <2>. QED
    BY <1>0, <1>1, <2>3, <2>4 DEF RestType
<1>4. ASSUME NEW r \in Runs, Extracted(r)
      PROVE  RestType'
  BY <1>0, <1>4 DEF Extracted, RestType
<1>5. ASSUME NEW r \in Runs, Abandon(r) \/ FinishDeclined(r)
      PROVE  RestType'
  <2>1. UNCHANGED <<mirror, memories>> /\ lost' \subseteq lost \cup {r}
    BY <1>5 DEF Abandon, FinishDeclined, Dropped, tables
  <2>2. Mishap(TRUE) \/ faults' = faults
    BY <1>5 DEF Abandon, FinishDeclined
  <2>. QED
    BY <1>0, <1>1, <2>1, <2>2 DEF RestType
<1>6. ASSUME NEW r \in Runs, NEW s \in Sessions, NEW resent \in BOOLEAN,
             Claim(r, s, resent) \/ Refuse(r, s, resent)
      PROVE  RestType'
  <2>1. Same /\ (Mishap(resent) \/ Mishap(TRUE))
    BY <1>6 DEF Claim, Refuse
  <2>. QED
    BY <1>2, <2>1
<1>7. ASSUME NEW r \in Runs, PrepareFails(r) \/ Suspend(r) \/ CancelOrFail(r) \/ CancelOrphan(r)
      PROVE  RestType'
  <2>1. Same /\ Mishap(TRUE)
    BY <1>7 DEF PrepareFails, Suspend, CancelOrFail, Flushed, CancelOrphan, tables
  <2>. QED
    BY <1>2, <2>1
<1>8. ASSUME NEW r \in Runs,
             \/ Start(r) \/ Resume(r) \/ Finish(r) \/ BeginFlush(r) \/ Summarized(r) \/ Timeout(r)
             \/ \E n \in 1..MaxDrafts : Observe(r, n)
      PROVE  RestType'
  <2>1. Same /\ faults' = faults
    BY <1>8 DEF Start, Resume, Finish, BeginFlush, Summarized, Timeout, Observe, tables
  <2>. QED
    BY <1>2, <2>1
<1>9. CASE \E r \in Runs, c \in Sessions, checkpoint \in BOOLEAN : Fork(r, c, checkpoint)
  BY <1>2, <1>9 DEF Fork
<1>10. CASE UNCHANGED vars
  BY <1>2, <1>10 DEF vars, tables
<1>11. CASE Crash
  <2>1. UNCHANGED <<mirror, memories>> /\ lost' \subseteq lost \cup Runs /\ Mishap(TRUE)
    BY <1>11 DEF Crash, tables
  <2>. QED
    BY <1>0, <1>1, <2>1 DEF RestType
<1>. QED
  BY <1>3, <1>4, <1>5, <1>6, <1>7, <1>8, <1>9, <1>10, <1>11 DEF Next, Begins, Streams, Flushes

-----------------------------------------------------------------------------
(* The theorems.                                                            *)

LEMMA InvariantHolds == Init => IInv
<1>. SUFFICES ASSUME Init PROVE IInv
  OBVIOUS
<1>1. TypeOK
  <2>1. 0 \in 0..MaxFaults /\ 0 \in 0..MaxDrafts
    BY Constants
  <2>2. \A r \in Runs : [status |-> "absent", session |-> 1, compiled |-> FALSE] \in Row
    BY Constants DEF Row, Statuses
  <2>3. NoBranch \in Branch
    BY DEF NoBranch, Branch
  <2>. QED
    BY <2>1, <2>2, <2>3, NoWorkerType, NoFlushType DEF Init, TypeOK
<1>2. Idle /\ RowsAreHome /\ UserFirst /\ BranchesAreHome /\ ForksAreClean
  BY NoWorkerType, NoFlushType DEF Init, Idle, RowsAreHome, UserFirst, BranchesAreHome, ForksAreClean
<1>3. SessionsGrow
  BY DEF Init, SessionsGrow, Exists, Sessions
<1>4. SummariesAreWhole /\ PendingIsWhole /\ AbortedIsOver
  BY NoFlushType DEF Init, SummariesAreWhole, PendingIsWhole, AbortedIsOver
<1>5. RowsOnce /\ StoredOrDrafted
  BY DEF Init, RowsOnce, StoredOrDrafted
<1>. QED
  BY <1>1, <1>2, <1>3, <1>4, <1>5 DEF IInv

LEMMA InvariantKept == IInv /\ [Next]_vars => IInv'
<1>. SUFFICES ASSUME IInv, [Next]_vars PROVE IInv'
  OBVIOUS
<1>. USE DEF IInv
<1>1. RunsKept /\ MessagesKept
  BY RunsStep, MessagesStep
<1>2. RowsAreHome' /\ UserFirst'
  BY <1>1, RowsStep
<1>3. BranchType' /\ SessionsGrow' /\ BranchesAreHome' /\ ForksAreClean'
  BY <1>1, BranchStep
<1>4. WorkersKept /\ FlushesKept
  BY <1>1, WorkerStep, FlushStep
<1>5. Idle' /\ AbortedIsOver'
  BY <1>1, <1>4, OverStep
<1>6. SummariesKept
  BY <1>1, SummariesStep
<1>7. DraftsType' /\ RestType'
  BY DraftsStep, RestStep
<1>8. SummariesAreWhole' /\ PendingIsWhole'
  BY <1>6 DEF SummariesKept, Whole, SummariesAreWhole, PendingIsWhole
<1>9. TypeOK'
  <2>1. gapped' \subseteq Sessions /\ summaries' \in [Sessions -> Seq(Summary)]
    BY <1>6 DEF SummariesKept
  <2>2. \A s \in Sessions : \A i \in DOMAIN summaries'[s] :
          summaries'[s][i].kept \subseteq 1..summaries'[s][i].to /\ summaries'[s][i].to <= Len(messages'[s])
    BY <1>6 DEF SummariesKept, Whole
  <2>3. runs' \in [Runs -> Row] /\ messages' \in [Sessions -> Seq(Message)]
    BY <1>1 DEF RunsKept, MessagesKept
  <2>4. worker' \in [Runs -> Worker] /\ flush' \in [Runs -> Flush]
    BY <1>4 DEF WorkersKept, FlushesKept
  <2>. QED
    BY <1>3, <1>7, <2>1, <2>2, <2>3, <2>4 DEF TypeOK, BranchType, DraftsType, RestType
<1>10. RowsOnce' /\ StoredOrDrafted'
  BY <1>1, OnceStep, StoredStep
<1>. QED
  BY <1>2, <1>3, <1>5, <1>8, <1>9, <1>10

\* Every reachable state satisfies the invariant.
THEOREM Invariant == Spec => []IInv
  BY InvariantHolds, InvariantKept, PTL DEF Spec

\* The variables of the conversation memory keep their types.
THEOREM TypeCorrect == Spec => []TypeOK
<1>1. IInv => TypeOK
  BY DEF IInv
<1>. QED
  BY <1>1, Invariant, PTL

\* A stored summary was written from every message of its range, whichever flushes ran
\* at once, as long as no backlog exceeded the load limit.
THEOREM SummariesWhole == Spec => []SummariesAreWhole
<1>1. IInv => SummariesAreWhole
  BY DEF IInv
<1>. QED
  BY <1>1, Invariant, PTL

\* A forked session sees nothing of the run it was forked at, and all that was said before.
THEOREM ForksClean == Spec => []ForksAreClean
<1>1. IInv => ForksAreClean
  BY DEF IInv
<1>. QED
  BY <1>1, Invariant, PTL

\* Every message a run streamed is stored once when its request is over, unless its
\* drafts were dropped.
THEOREM DraftsKept == Spec => []DraftsAreKept
<1>1. IInv => DraftsAreKept
  BY OnceAndStored DEF IInv
<1>. QED
  BY <1>1, Invariant, PTL

LEMMA AbortedStep ==
  ASSUME IInv, [Next]_vars, NEW x \in Runs, flush[x].aborted, flush'[x] # flush[x]
  PROVE  UNCHANGED <<runs, summaries, memories>>
<1>1. worker[x].phase = "none" /\ flush \in [Runs -> Flush]
  BY DEF IInv, AbortedIsOver, TypeOK
<1>2. ASSUME NEW r \in Runs, NEW f, GoOn(r, f), ~ flush[r].aborted
      PROVE  FALSE
  BY <1>1, <1>2 DEF GoOn
<1>3. ASSUME NEW r \in Runs, BeginFlush(r)
      PROVE  FALSE
  <2>1. worker[r].phase = "finishing" /\ \E f : GoOn(r, f)
    BY <1>3 DEF BeginFlush
  <2>. QED
    BY <1>1, <2>1 DEF GoOn
<1>4. ASSUME NEW r \in Runs, Timeout(r)
      PROVE  FALSE
  BY <1>1, <1>4 DEF Timeout
<1>5. ASSUME NEW r \in Runs, Summarized(r)
      PROVE  UNCHANGED <<runs, summaries, memories>>
  BY <1>2, <1>5 DEF Summarized, Aborts
<1>6. ASSUME NEW r \in Runs, NEW ok \in BOOLEAN, Mirrored(r, ok) \/ Extracted(r)
      PROVE  UNCHANGED <<runs, summaries, memories>>
  BY <1>2, <1>6 DEF Mirrored, Extracted, Aborts
<1>7. ASSUME NEW r \in Runs,
             \/ \E s \in Sessions, resent \in BOOLEAN : Claim(r, s, resent) \/ Refuse(r, s, resent)
             \/ \E ok \in BOOLEAN : Synced(r, ok)
             \/ \E n \in 1..MaxDrafts : Observe(r, n)
             \/ PrepareFails(r) \/ Start(r) \/ Resume(r) \/ Suspend(r) \/ CancelOrFail(r)
             \/ CancelOrphan(r) \/ Abandon(r) \/ FinishDeclined(r) \/ Finish(r)
      PROVE  FALSE
  <2>1. UNCHANGED flush
    BY <1>7
       DEF Claim, Refuse, Synced, Observe, PrepareFails, Start, Resume, Suspend, CancelOrFail, Flushed,
           CancelOrphan, Abandon, Dropped, FinishDeclined, Finish
  <2>. QED
    BY <2>1
<1>8. CASE \E r \in Runs, c \in Sessions, checkpoint \in BOOLEAN : Fork(r, c, checkpoint)
  BY <1>8 DEF Fork
<1>9. CASE Crash \/ UNCHANGED vars
  BY <1>9 DEF Crash, vars, tables
<1>. QED
  BY <1>3, <1>4, <1>5, <1>6, <1>7, <1>8, <1>9 DEF Next, Begins, Streams, Flushes

\* A flush that ran into its timeout stores nothing any more.
THEOREM AbortedSilent == Spec => AbortedFlushIsSilent
<1>1. IInv /\ [Next]_vars =>
        [\A r \in Runs : flush[r].aborted /\ flush'[r] # flush[r]
           => UNCHANGED <<runs, summaries, memories>>]_vars
  BY AbortedStep
<1>. QED
  BY <1>1, Invariant, PTL DEF Spec, AbortedFlushIsSilent

-----------------------------------------------------------------------------
(* What a session inherits: the recursive function of Inherited is defined, *)
(* by the least session for which it would not be.                          *)

\* What session c inherits when f says what its ancestors inherit.
Unfolded(f, c) ==
  IF branch[c] = NoBranch THEN <<>>
  ELSE f[branch[c].parent] \o SubSeq(messages[branch[c].parent], 1, branch[c].end)

LEMMA UnfoldedType ==
  ASSUME IInv, NEW c \in Sessions, NEW f,
         branch[c] # NoBranch => f[branch[c].parent] \in Seq(Message)
  PROVE  Unfolded(f, c) \in Seq(Message)
<1>1. CASE branch[c] = NoBranch
  BY <1>1 DEF Unfolded
<1>2. CASE branch[c] # NoBranch
  <2>. DEFINE m == messages[branch[c].parent]
  <2>1. branch[c].parent \in Sessions /\ branch[c].end \in Nat
    <3>1. branch[c].parent \in 1..(c - 1) /\ branch[c].end \in Nat
      BY <1>2 DEF IInv, TypeOK, Branch
    <3>. QED
      BY <3>1, Constants DEF Sessions
  <2>2. m \in Seq(Message) /\ branch[c].end <= Len(m)
    BY <1>2, <2>1 DEF IInv, TypeOK, ForksAreClean
  <2>3. \A i \in 1..branch[c].end : m[i] \in Message
    BY <2>1, <2>2
  <2>4. SubSeq(m, 1, branch[c].end) \in Seq(Message)
    BY <2>1, <2>2, <2>3, SubSeqProperties
  <2>. HIDE DEF m
  <2>5. f[branch[c].parent] \o SubSeq(m, 1, branch[c].end) \in Seq(Message)
    BY <1>2, <2>4, ConcatProperties
  <2>. QED
    BY <1>2, <2>5 DEF Unfolded, m
<1>. QED
  BY <1>1, <1>2

\* Function f says what each of the first n sessions inherits.
Inherits(n, f) == f \in [1..n -> Seq(Message)] /\ \A c \in 1..n : f[c] = Unfolded(f, c)

\* There is such a function for all the sessions.
LEMMA InheritanceExists ==
  ASSUME IInv
  PROVE  \E f : f = [c \in Sessions |-> Unfolded(f, c)]
<1>. DEFINE T == {n \in 0..MaxSessions : ~ \E f : Inherits(n, f)}
<1>1. T = {} => \E f : f = [c \in Sessions |-> Unfolded(f, c)]
  <2>. SUFFICES ASSUME T = {}
                PROVE  \E f : f = [c \in Sessions |-> Unfolded(f, c)]
    OBVIOUS
  <2>1. MaxSessions \in 0..MaxSessions
    BY Constants
  <2>2. PICK f : Inherits(MaxSessions, f)
    BY <2>1
  <2>3. f = [c \in Sessions |-> Unfolded(f, c)]
    BY <2>2 DEF Inherits, Sessions
  <2>. QED
    BY <2>3
<1>. SUFFICES ASSUME T # {}
              PROVE  FALSE
  BY <1>1
<1>2. PICK n \in T : \A m \in T : n <= m
  <2>1. T \in SUBSET Nat
    OBVIOUS
  <2>. QED
    BY <2>1, LeastNumber
<1>3. CASE n = 0
  <2>1. Inherits(0, [c \in 1..0 |-> <<>>])
    BY DEF Inherits
  <2>. QED
    BY <1>2, <1>3, <2>1
<1>4. CASE n > 0
  <2>1. n - 1 \in 0..MaxSessions /\ n \in Sessions /\ n - 1 < n /\ n \in Nat
    BY <1>2, <1>4, Constants DEF Sessions
  <2>2. PICK f : Inherits(n - 1, f)
    BY <1>2, <2>1
  <2>. DEFINE g == [c \in 1..n |-> IF c = n THEN Unfolded(f, n) ELSE f[c]]
  <2>3. Unfolded(f, n) \in Seq(Message)
    <3>1. branch[n] # NoBranch => branch[n].parent \in 1..(n - 1)
      BY <2>1 DEF IInv, TypeOK
    <3>2. branch[n] # NoBranch => f[branch[n].parent] \in Seq(Message)
      BY <2>2, <3>1 DEF Inherits
    <3>. QED
      BY <2>1, <3>2, UnfoldedType
  <2>4. ASSUME NEW c \in 1..n
        PROVE  g[c] \in Seq(Message) /\ g[c] = Unfolded(g, c)
    <3>1. c \in Sessions /\ c <= n /\ (c # n => c \in 1..(n - 1))
      <4>1. n \in 1..MaxSessions /\ c \in Nat /\ MaxSessions \in Nat
        BY <2>1, Constants DEF Sessions
      <4>. QED
        BY <4>1 DEF Sessions
    <3>2. branch[c] # NoBranch => branch[c].parent \in 1..(c - 1)
      BY <3>1 DEF IInv, TypeOK
    <3>3. branch[c] # NoBranch => g[branch[c].parent] = f[branch[c].parent]
      BY <2>1, <3>1, <3>2
    <3>4. Unfolded(g, c) = Unfolded(f, c)
      BY <3>3 DEF Unfolded
    <3>5. CASE c = n
      BY <2>3, <3>4, <3>5
    <3>6. CASE c # n
      BY <2>2, <3>1, <3>4, <3>6 DEF Inherits
    <3>. QED
      BY <3>5, <3>6
  <2>5. Inherits(n, g)
    BY <2>4 DEF Inherits
  <2>. QED
    BY <1>2, <2>5
<1>. QED
  BY <1>2, <1>3, <1>4

\* A session inherits a sequence of messages, and one that is no branch nothing.
LEMMA InheritedType ==
  ASSUME IInv, NEW s \in Sessions
  PROVE  /\ Inherited(s) \in Seq(Message)
         /\ branch[s] = NoBranch => Inherited(s) = <<>>
<1>. DEFINE up == CHOOSE f : f = [c \in Sessions |-> Unfolded(f, c)]
<1>1. up = [c \in Sessions |-> Unfolded(up, c)]
  BY InheritanceExists
<1>2. \A c \in Sessions : Inherited(c) = up[c]
  BY DEF Inherited, Unfolded
<1>. HIDE DEF up
<1>3. \A c \in Sessions : up[c] = Unfolded(up, c)
  BY <1>1
<1>. DEFINE T == {c \in Sessions : up[c] \notin Seq(Message)}
<1>4. T = {}
  <2>. SUFFICES ASSUME T # {}
                PROVE  FALSE
    OBVIOUS
  <2>1. PICK c \in T : \A d \in T : c <= d
    <3>1. T \in SUBSET Nat
      BY DEF Sessions
    <3>. QED
      BY <3>1, LeastNumber
  <2>2. c \in Sessions /\ c \in Nat
    BY DEF Sessions
  <2>3. branch[c] # NoBranch => branch[c].parent \in 1..(c - 1)
    BY <2>2 DEF IInv, TypeOK
  <2>4. branch[c] # NoBranch => branch[c].parent \in Sessions /\ branch[c].parent < c
    BY <2>2, <2>3, Constants DEF Sessions
  <2>5. branch[c] # NoBranch => up[branch[c].parent] \in Seq(Message)
    BY <2>1, <2>2, <2>4 DEF Sessions
  <2>6. up[c] \in Seq(Message)
    BY <1>3, <2>2, <2>5, UnfoldedType
  <2>. QED
    BY <2>6
<1>5. up[s] \in Seq(Message)
  BY <1>4
<1>6. branch[s] = NoBranch => up[s] = <<>>
  BY <1>3 DEF Unfolded
<1>. QED
  BY <1>2, <1>5, <1>6

-----------------------------------------------------------------------------
(* What is seen of a conversation.                                          *)

\* The k last positions of a set that has no more than k.
LEMMA LastOfFew ==
  ASSUME NEW S, IsFiniteSet(S), NEW k \in Nat, NEW p \in S,
         Cardinality({q \in S : p <= q}) <= k
  PROVE  p \in LastOf(S, k)
  BY DEF LastOf

LEMMA BeforeFinite ==
  ASSUME IInv, NEW s \in Sessions, NEW r \in Runs
  PROVE  /\ IsFiniteSet(Before(r, s)) /\ Before(r, s) \in SUBSET Nat
         /\ \A p \in Before(r, s) : p >= 1
<1>1. Visible(s) \in Seq(Message)
  <2>1. Inherited(s) \in Seq(Message) /\ messages[s] \in Seq(Message)
    BY InheritedType DEF IInv, TypeOK
  <2>. QED
    BY <2>1, ConcatProperties DEF Visible
<1>2. Len(Visible(s)) \in Nat
  BY <1>1
<1>3. IsFiniteSet(1..Len(Visible(s))) /\ Before(r, s) \subseteq 1..Len(Visible(s))
  BY <1>2, FS_Interval DEF Before
<1>. QED
  BY <1>2, <1>3, FS_Subset

\* What the summary does not cover fits in the prompt, and is in it.
LEMMA PromptHolds ==
  ASSUME IInv, NEW s \in Sessions, NEW r \in Runs,
         Cardinality({p \in Before(r, s) : p > Covered(s)}) <= HistoryLimit,
         NEW p \in Before(r, s), p > Covered(s)
  PROVE  p \in Prompt(r, s)
<1>. DEFINE B == Before(r, s)
            U == {q \in B : q > Covered(s)}
            V == {q \in LastOf(B, LoadLimit) : q > Covered(s)}
<1>1. IsFiniteSet(B) /\ B \in SUBSET Nat /\ Covered(s) \in Nat /\ p \in Nat
  BY BeforeFinite, LatestType DEF IInv, Covered, Summary
<1>2. IsFiniteSet(U) /\ Cardinality(U) \in Nat /\ Cardinality(U) <= HistoryLimit
  BY <1>1, FS_Subset, FS_CardinalityType
<1>3. p \in V
  <2>1. {q \in B : p <= q} \subseteq U
    BY <1>1
  <2>2. /\ Cardinality({q \in B : p <= q}) <= Cardinality(U)
        /\ Cardinality({q \in B : p <= q}) \in Nat
    BY <1>2, <2>1, FS_Subset, FS_CardinalityType
  <2>3. Cardinality({q \in B : p <= q}) <= LoadLimit
    BY <1>2, <2>2, PolicyAssumption
  <2>. QED
    BY <1>1, <2>3, LastOfFew, Constants
<1>4. p \in LastOf(V, HistoryLimit)
  <2>1. V \subseteq U /\ {q \in V : p <= q} \subseteq U
    BY DEF LastOf
  <2>2. IsFiniteSet(V) /\ Cardinality({q \in V : p <= q}) <= Cardinality(U)
        /\ Cardinality({q \in V : p <= q}) \in Nat
    BY <1>2, <2>1, FS_Subset, FS_CardinalityType
  <2>3. Cardinality({q \in V : p <= q}) <= HistoryLimit
    BY <1>2, <2>2, Constants
  <2>. QED
    BY <1>3, <2>2, <2>3, LastOfFew, Constants
<1>. QED
  BY <1>4 DEF Prompt

\* What the summary covers is what the latest summary was written from, of a session
\* that inherits nothing.
LEMMA SummaryHolds ==
  ASSUME IInv, NEW s \in Sessions \ gapped, NEW r \in Runs,
         NEW p \in Before(r, s), ~ (p > Covered(s))
  PROVE  p \in Seen(s, Latest(s).kept) /\ Latest(s) # NoSummary
<1>1. p \in Nat /\ p >= 1 /\ Covered(s) \in Nat
  BY BeforeFinite, LatestType DEF IInv, Covered, Summary
<1>2. branch[s] = NoBranch /\ Covered(s) = Latest(s).to /\ p <= Latest(s).to
  BY <1>1 DEF Covered
<1>3. Latest(s) # NoSummary
  BY <1>1, <1>2 DEF NoSummary
<1>4. Latest(s).kept = 1..Latest(s).to
  BY <1>3, LatestIsStored DEF IInv, SummariesAreWhole
<1>5. p \in Latest(s).kept
  BY <1>1, <1>2, <1>4
<1>6. Len(Inherited(s)) = 0
  BY <1>2, InheritedType
<1>7. p = p + Len(Inherited(s))
  BY <1>1, <1>6
<1>. QED
  BY <1>3, <1>5, <1>7 DEF Seen

\* A prompt is built when a new run claims a session without a summary, or when its
\* summary has been mirrored.
LEMMA BuildingStep ==
  ASSUME IInv, [Next]_vars, NEW x \in Runs, worker'[x].phase = "preparing", ~ worker'[x].resumed,
         worker[x].phase # "preparing"
  PROVE  \/ \E s \in Sessions, resent \in BOOLEAN : Claim(x, s, resent)
         \/ \E ok \in BOOLEAN : Synced(x, ok)
<1>1. worker \in [Runs -> Worker]
  BY DEF IInv, TypeOK
<1>2. ASSUME NEW r \in Runs, NEW w, Become(r, w)
      PROVE  x = r /\ worker'[x] = w
  BY <1>1, <1>2 DEF Become
<1>3. worker' # worker
  OBVIOUS
<1>4. ASSUME NEW r \in Runs, NEW f, GoOn(r, f) \/ Aborts(r)
      PROVE  FALSE
  <2>1. CASE Become(r, [worker[r] EXCEPT !.phase = "finalizing"])
    <3>1. [worker[r] EXCEPT !.phase = "finalizing"].phase = "finalizing"
      BY <1>1 DEF Worker
    <3>. QED
      BY <1>2, <2>1, <3>1
  <2>2. CASE Become(r, NoWorker)
    BY <1>2, <2>2, NoWorkerType
  <2>. QED
    BY <1>3, <1>4, <2>1, <2>2 DEF GoOn, Aborts
<1>5. ASSUME NEW r \in Runs,
             \/ PrepareFails(r) \/ Suspend(r) \/ CancelOrFail(r) \/ Abandon(r) \/ FinishDeclined(r)
             \/ Timeout(r)
      PROVE  FALSE
  <2>1. Become(r, NoWorker)
    BY <1>5 DEF PrepareFails, Suspend, CancelOrFail, Flushed, Abandon, FinishDeclined, Dropped, Timeout
  <2>. QED
    BY <1>2, <2>1, NoWorkerType
<1>6. ASSUME NEW r \in Runs, Start(r)
      PROVE  FALSE
  BY <1>2, <1>6 DEF Start, NoWorker
<1>7. ASSUME NEW r \in Runs, Resume(r)
      PROVE  FALSE
  <2>. DEFINE w == [NoWorker EXCEPT !.phase = "preparing", !.resumed = TRUE]
  <2>1. Become(r, w)
    BY <1>7 DEF Resume
  <2>2. w.resumed
    BY DEF NoWorker
  <2>. HIDE DEF w
  <2>. QED
    BY <1>2, <2>1, <2>2
<1>8. ASSUME NEW r \in Runs, Finish(r)
      PROVE  FALSE
  <2>1. Become(r, [worker[r] EXCEPT !.phase = "finishing"])
    BY <1>8 DEF Finish
  <2>2. [worker[r] EXCEPT !.phase = "finishing"].phase = "finishing"
    BY <1>1 DEF Worker
  <2>. QED
    BY <1>2, <2>1, <2>2
<1>9. ASSUME NEW r \in Runs, NEW ok \in BOOLEAN,
             BeginFlush(r) \/ Summarized(r) \/ Mirrored(r, ok) \/ Extracted(r)
      PROVE  FALSE
  BY <1>4, <1>9 DEF BeginFlush, Summarized, Mirrored, Extracted
<1>10. ASSUME NEW r \in Runs,
              \/ \E s \in Sessions, resent \in BOOLEAN : Refuse(r, s, resent)
              \/ \E n \in 1..MaxDrafts : Observe(r, n)
              \/ CancelOrphan(r)
       PROVE  FALSE
  BY <1>3, <1>10 DEF Refuse, Observe, CancelOrphan
<1>11. ~ \E r \in Runs, c \in Sessions, checkpoint \in BOOLEAN : Fork(r, c, checkpoint)
  BY <1>3 DEF Fork
<1>12. ~ UNCHANGED vars
  BY <1>3 DEF vars
<1>13. ~ Crash
  BY NoWorkerType DEF Crash
<1>14. ASSUME NEW r \in Runs, NEW s \in Sessions, NEW resent \in BOOLEAN, Claim(r, s, resent)
       PROVE  Claim(x, s, resent)
  BY <1>2, <1>14 DEF Claim
<1>15. ASSUME NEW r \in Runs, NEW ok \in BOOLEAN, Synced(r, ok)
       PROVE  Synced(x, ok)
  BY <1>2, <1>15 DEF Synced
<1>. QED
  BY <1>5, <1>6, <1>7, <1>8, <1>9, <1>10, <1>11, <1>12, <1>13, <1>14, <1>15
     DEF Next, Begins, Streams, Flushes

LEMMA SeenStep ==
  ASSUME IInv, [Next]_vars, NEW r \in Runs,
         worker'[r].phase = "preparing", ~ worker'[r].resumed, worker'[r].synced,
         worker[r].phase = "none"
           \/ (worker[r].phase = "syncing" /\ worker[r].sync = Latest(runs'[r].session)),
         runs'[r].session \notin gapped,
         Cardinality({p \in Before(r, runs'[r].session) : p > worker'[r].cut}) <= HistoryLimit
  PROVE  Before(r, runs'[r].session)
           \subseteq worker'[r].prompt \cup Seen(runs'[r].session, mirror'[runs'[r].session])
<1>1. CASE \E s \in Sessions, resent \in BOOLEAN : Claim(r, s, resent)
  <2>1. PICK s \in Sessions, resent \in BOOLEAN : Claim(r, s, resent)
    BY <1>1
  <2>2. runs'[r].session = s
    BY <2>1 DEF Claim
  <2>3. worker'[r] = IF Latest(s) = NoSummary THEN Built(r, s, TRUE)
                     ELSE [NoWorker EXCEPT !.phase = "syncing", !.sync = Latest(s)]
    BY <2>1 DEF Claim, Become, IInv, TypeOK
  <2>4. Latest(s) = NoSummary /\ worker'[r] = Built(r, s, TRUE)
    BY <2>3 DEF NoWorker
  <2>5. worker'[r].prompt = Prompt(r, s) /\ worker'[r].cut = Covered(s)
    BY <2>4 DEF Built, NoWorker
  <2>6. ASSUME NEW p \in Before(r, s)
        PROVE  p \in Prompt(r, s)
    <3>1. p > Covered(s)
      BY <2>2, <2>4, SummaryHolds
    <3>. QED
      BY <2>2, <2>5, <3>1, PromptHolds
  <2>. QED
    BY <2>2, <2>5, <2>6
<1>2. CASE \E ok \in BOOLEAN : Synced(r, ok)
  <2>. DEFINE s == runs[r].session
  <2>1. PICK ok \in BOOLEAN : Synced(r, ok)
    BY <1>2
  <2>2. s \in Sessions /\ runs'[r].session = s /\ worker[r].phase = "syncing"
    BY <2>1 DEF Synced, IInv, TypeOK, Row
  <2>3. worker'[r] = Built(r, s, ok)
    BY <2>1 DEF Synced, Become, IInv, TypeOK
  <2>4. worker'[r].prompt = Prompt(r, s) /\ worker'[r].cut = Covered(s) /\ worker'[r].synced = ok
    BY <2>3 DEF Built, NoWorker
  <2>5. mirror'[s] = Latest(s).kept
    BY <2>1, <2>2, <2>4 DEF Synced, IInv, TypeOK
  <2>. HIDE DEF s
  <2>. QED
    BY <2>2, <2>4, <2>5, PromptHolds, SummaryHolds
<1>. QED
  BY <1>1, <1>2, BuildingStep

\* Whatever was said before a new run, by any number of sessions it descends from, is in
\* its prompt or in the working memory.
THEOREM ConversationSeen == Spec => ConversationIsSeen
<1>. DEFINE Sees ==
       \A r \in Runs :
         LET s == runs'[r].session
             w == worker'[r]
         IN  (/\ w.phase = "preparing" /\ ~w.resumed /\ w.synced
              /\ worker[r].phase = "none" \/ (worker[r].phase = "syncing" /\ worker[r].sync = Latest(s))
              /\ s \notin gapped
              /\ Cardinality({p \in Before(r, s) : p > w.cut}) <= HistoryLimit)
             => Before(r, s) \subseteq w.prompt \cup Seen(s, mirror'[s])
<1>1. IInv /\ [Next]_vars => [Sees]_vars
  BY SeenStep
<1>. QED
  BY <1>1, Invariant, PTL DEF Spec, ConversationIsSeen
=============================================================================
