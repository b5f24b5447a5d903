------------------------ MODULE RunGovernance_proofs ------------------------
(* Every step of RunGovernance keeps the promise it makes. *)
EXTENDS RunGovernance, TLAPS

LEMMA InitExclusive ==
  ASSUME Init PROVE TypeOK /\ Exclusive
BY DEF Init, TypeOK, Exclusive, InWork, Phases, Active, Terminal

LEMMA StartStep ==
  ASSUME TypeOK, Exclusive, NEW r \in Runs, NEW s \in Sessions, Start(r, s)
  PROVE  TypeOK' /\ Exclusive'
<1> DEFINE gone == Rivals(r, s)
<1>1. /\ gone \subseteq Runs
      /\ r \notin gone
      /\ \A x \in gone : status[x] = "running" /\ x \notin live /\ session[x] = s
  BY DEF Start, Rivals
<1>2. \A x \in Runs : x # r /\ x \notin gone /\ session[x] = s => status[x] # "running"
  BY DEF Rivals, Active
<1>3. /\ \A x \in Runs : /\ status'[x] = IF x = r THEN "running"
                                        ELSE IF x \in gone THEN "canceled" ELSE status[x]
                         /\ session'[x] = IF x = r THEN s ELSE session[x]
                         /\ phase'[x] = IF x = r THEN "working" ELSE phase[x]
      /\ disturbed' = disturbed \cup (gone \cap InWork)
      /\ live' = live
  BY DEF Start, TypeOK
<1>4. phase[r] = "idle" /\ r \notin disturbed
  BY DEF Start, Exclusive, InWork
<1> HIDE DEF gone
<1>5. TypeOK'
  <2>1. status' \in [Runs -> Terminal \cup Active \cup {"absent"}]
    BY DEF Start, TypeOK, Terminal, Active
  <2>2. session' \in [Runs -> Sessions \cup {None}] /\ phase' \in [Runs -> Phases]
    BY DEF Start, TypeOK, Phases
  <2> QED BY <1>1, <1>3, <2>1, <2>2 DEF TypeOK
<1>6. InWork \subseteq InWork'
  BY <1>3 DEF InWork
<1>7. live' \subseteq {x \in Runs : phase'[x] = "working"}
  BY <1>3 DEF Exclusive, TypeOK
<1>8. disturbed' \subseteq InWork'
  BY <1>3, <1>6 DEF Exclusive
<1>9. \A x \in Runs : phase'[x] = "working" /\ x \notin disturbed' =>
        /\ status'[x] = "running"
        /\ session'[x] \in Sessions
  <2> SUFFICES ASSUME NEW x \in Runs, phase'[x] = "working", x \notin disturbed'
               PROVE  status'[x] = "running" /\ session'[x] \in Sessions
    OBVIOUS
  <2>1. CASE x = r
    BY <1>3, <2>1
  <2>2. CASE x # r
    <3>1. phase[x] = "working" /\ x \notin disturbed /\ x \in InWork
      BY <1>3, <2>2 DEF InWork
    <3>2. x \notin gone
      BY <1>3, <3>1
    <3> QED BY <1>3, <2>2, <3>1, <3>2 DEF Exclusive
  <2> QED BY <2>1, <2>2
<1>10. \A x \in Runs : phase'[x] = "working" /\ x \notin disturbed' /\ x # r => session'[x] # s
  BY <1>2, <1>3 DEF Exclusive, InWork
<1>11. \A x, y \in Runs :
         /\ phase'[x] = "working" /\ phase'[y] = "working"
         /\ session'[x] = session'[y]
         /\ x \notin disturbed' /\ y \notin disturbed'
         => x = y
  BY <1>3, <1>10 DEF Exclusive
<1> QED BY <1>5, <1>7, <1>8, <1>9, <1>11 DEF Exclusive

\* A step that starts nobody, disturbs whom it must and takes the handles of those who
\* stop working keeps the promise.
LEMMA NoNewWorkers ==
  ASSUME TypeOK, Exclusive, TypeOK',
         live' \subseteq {r \in Runs : phase'[r] = "working"},
         disturbed' \subseteq InWork',
         \A r \in Runs : phase'[r] = "working" /\ r \notin disturbed' =>
           /\ phase[r] = "working" /\ r \notin disturbed
           /\ status'[r] = status[r] /\ session'[r] = session[r]
  PROVE  Exclusive'
BY DEF Exclusive

LEMMA MovesStep ==
  ASSUME TypeOK, Exclusive, NEW r \in Runs, NEW p \in {"idle", "closing"}, Moves(r, p),
         phase[r] # "idle", session' = session,
         status' \in [Runs -> Terminal \cup Active \cup {"absent"}],
         \A x \in Runs \ {r} : status'[x] = status[x]
  PROVE  TypeOK' /\ Exclusive'
<1>1. \A x \in Runs : phase'[x] = IF x = r THEN p ELSE phase[x]
  BY DEF Moves, TypeOK
<1>2. TypeOK'
  <2>1. phase' \in [Runs -> Phases]
    BY DEF Moves, TypeOK, Phases
  <2> QED BY <2>1 DEF Moves, TypeOK
<1>3. live' \subseteq {x \in Runs : phase'[x] = "working"}
  BY <1>1 DEF Moves, Exclusive
<1>4. disturbed' \subseteq InWork'
  BY <1>1 DEF Moves, Exclusive, InWork
<1>5. \A x \in Runs : phase'[x] = "working" /\ x \notin disturbed' =>
        /\ phase[x] = "working" /\ x \notin disturbed
        /\ status'[x] = status[x] /\ session'[x] = session[x]
  BY <1>1 DEF Moves
<1> QED BY <1>2, <1>3, <1>4, <1>5, NoNewWorkers

LEMMA OverruleStep ==
  ASSUME TypeOK, Exclusive, NEW S \in SUBSET Runs, NEW s \in Sessions \cup {None}, Overrule(S, s)
  PROVE  TypeOK' /\ Exclusive'
<1>1. PICK t \in [S -> Terminal] :
        status' = [x \in Runs |-> IF x \in S THEN t[x] ELSE status[x]]
  BY DEF Overrule
<1>2. TypeOK'
  <2>1. status' \in [Runs -> Terminal \cup Active \cup {"absent"}]
    BY <1>1 DEF TypeOK
  <2>2. session' \in [Runs -> Sessions \cup {None}]
    BY DEF Overrule, TypeOK
  <2> QED BY <2>1, <2>2 DEF Overrule, TypeOK, InWork
<1>3. live' \subseteq {r \in Runs : phase'[r] = "working"}
  BY DEF Overrule, Exclusive
<1>4. disturbed' \subseteq InWork' /\ InWork' = InWork
  BY DEF Overrule, Exclusive, InWork
<1>5. \A r \in Runs : phase'[r] = "working" /\ r \notin disturbed' =>
        /\ phase[r] = "working" /\ r \notin disturbed
        /\ status'[r] = status[r] /\ session'[r] = session[r]
  <2> SUFFICES ASSUME NEW r \in Runs, phase'[r] = "working", r \notin disturbed'
               PROVE  /\ phase[r] = "working" /\ r \notin disturbed
                      /\ status'[r] = status[r] /\ session'[r] = session[r]
    OBVIOUS
  <2>1. phase[r] = "working" /\ r \in InWork
    BY DEF Overrule, InWork
  <2>2. r \notin S /\ r \notin disturbed
    BY <2>1 DEF Overrule
  <2> QED BY <1>1, <2>1, <2>2 DEF Overrule
<1> QED BY <1>2, <1>3, <1>4, <1>5, NoNewWorkers

LEMMA NextExclusive ==
  ASSUME TypeOK, Exclusive, [Next]_vars
  PROVE  TypeOK' /\ Exclusive'
<1>1. ASSUME NEW r \in Runs, Protect(r)
      PROVE  TypeOK' /\ Exclusive'
  BY <1>1 DEF Protect, TypeOK, Exclusive, InWork
<1>2. ASSUME NEW r \in Runs, Unprotect(r)
      PROVE  TypeOK' /\ Exclusive'
  BY <1>2 DEF Unprotect, TypeOK, Exclusive, InWork
<1>3. ASSUME NEW r \in Runs, Suspend(r)
      PROVE  TypeOK' /\ Exclusive'
  <2>1. /\ status' \in [Runs -> Terminal \cup Active \cup {"absent"}]
        /\ \A x \in Runs \ {r} : status'[x] = status[x]
        /\ phase[r] # "idle" /\ session' = session /\ Moves(r, "idle")
    BY <1>3 DEF Suspend, TypeOK, Active
  <2> QED BY <2>1, MovesStep
<1>4. ASSUME NEW r \in Runs, Cancel(r)
      PROVE  TypeOK' /\ Exclusive'
  <2>1. /\ status' = status /\ session' = session /\ Moves(r, "closing")
        /\ phase[r] # "idle"
    BY <1>4 DEF Cancel, Exclusive
  <2> QED BY <2>1, MovesStep DEF TypeOK
<1>5. ASSUME NEW r \in Runs, Leave(r)
      PROVE  TypeOK' /\ Exclusive'
  <2>1. /\ status' = status /\ session' = session /\ Moves(r, "idle")
        /\ phase[r] # "idle"
    BY <1>5 DEF Leave, InWork
  <2> QED BY <2>1, MovesStep DEF TypeOK
<1>6. ASSUME NEW r \in Runs, NEW t \in Terminal, Settle(r, t)
      PROVE  TypeOK' /\ Exclusive'
  <2>1. PICK p \in {"idle", "closing"} : Moves(r, p)
    BY <1>6 DEF Settle
  <2>2. /\ status' \in [Runs -> Terminal \cup Active \cup {"absent"}]
        /\ \A x \in Runs \ {r} : status'[x] = status[x]
        /\ phase[r] # "idle" /\ session' = session
    BY <1>6 DEF Settle, TypeOK
  <2> QED BY <2>1, <2>2, MovesStep
<1>7. CASE Halt
  BY <1>7 DEF Halt, TypeOK, Exclusive, InWork, Phases
<1>8. CASE UNCHANGED vars
  BY <1>8 DEF vars, TypeOK, Exclusive, InWork
<1> QED BY <1>1, <1>2, <1>3, <1>4, <1>5, <1>6, <1>7, <1>8, StartStep, OverruleStep DEF Next

\* Of the runs in work in one session at most one was left alone, its row says
\* running, and only runs in work have a handle: in every behaviour of the promise.
THEOREM PromiseKept == Spec => []Exclusive
<1>1. Init => TypeOK /\ Exclusive
  BY InitExclusive
<1>2. TypeOK /\ Exclusive /\ [Next]_vars => TypeOK' /\ Exclusive'
  BY NextExclusive
<1> QED BY <1>1, <1>2, PTL DEF Spec
=============================================================================
