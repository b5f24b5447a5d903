----------------------- MODULE ProtocolSegments_proofs -----------------------
(***************************************************************************)
(* Proofs of the safety properties of ProtocolSegments for every number of *)
(* tool calls, segments, actions, resumes and throwing sinks. Every step   *)
(* of the router is a RouteEffect: it writes one segment, in which it      *)
(* changes the record of its own call and leaves protocol, status and      *)
(* decision alone. The parts of IInv follow from that for all of them.     *)
(* A second invariant, JInv, is inductive relative to IInv: what late      *)
(* results, refused data actions and undelivered events leave behind.      *)
(***************************************************************************)
EXTENDS ProtocolSegments, FiniteSetTheorems, TLAPS

-----------------------------------------------------------------------------
(* What the operators on segments yield.                                    *)

LEMMA IdsFinite == IsFiniteSet(Ids)
  BY CallsAssumption, FS_AddElement DEF Ids

LEMMA OneMore ==
  ASSUME NEW S, NEW x, IsFiniteSet(S)
  PROVE  /\ IsFiniteSet(S \cup {x})
         /\ Cardinality(S \cup {x}) <= Cardinality(S) + 1
         /\ Cardinality(S) \in Nat
<1>1. IsFiniteSet(S \cup {x})
  BY FS_AddElement
<1>2. Cardinality(S \cup {x}) = IF x \in S THEN Cardinality(S) ELSE Cardinality(S) + 1
  BY FS_AddElement
<1>3. Cardinality(S) \in Nat
  BY FS_CardinalityType
<1> QED BY <1>1, <1>2, <1>3

LEMMA NextPhaseType ==
  ASSUME NEW p \in Protocols, NEW phase \in Phases, NEW name \in Names, NEW d \in Domain
  PROVE  NextPhase(p, phase, name, d) \in Phases
  BY DEF NextPhase, Phases

LEMMA NewSegmentType ==
  ASSUME NEW p \in Protocols, NEW package \in Nat
  PROVE  /\ NewSegment(p, package) \in Segment
         /\ NewSegment(p, package).protocol = p
         /\ NewSegment(p, package).status = "active"
         /\ NewSegment(p, package).decision = "none"
         /\ \A c \in Ids : NewSegment(p, package).actions[c] = "none"
  BY DEF NewSegment, InitialPhase, NoDomain, Domain, Protocols, Phases, Segment

LEMMA AbsentType ==
  /\ Absent \in Segment
  /\ Absent.status = "absent"
  /\ Absent.decision = "none"
  /\ \A c \in Ids : Absent.actions[c] = "none"
  BY NewSegmentType DEF Absent, Segment, Protocols

\* h is segment g after a commit that changes at most the record of action c.
Amends(g, h, c) ==
  /\ h \in Segment
  /\ h.protocol = g.protocol /\ h.status = g.status /\ h.decision = g.decision
  /\ h.revision >= g.revision
  /\ h.revision = g.revision => h = g
  /\ \A d \in Ids \ {c} : h.actions[d] = g.actions[d]

LEMMA BumpedType ==
  ASSUME NEW g \in Segment, NEW c \in Ids
  PROVE  /\ Amends(g, Bumped(g), c)
         /\ Bumped(g).actions[c] = g.actions[c]
         /\ Bumped(g).domain = g.domain
  BY DEF Amends, Bumped, Segment

LEMMA StatusType ==
  ASSUME NEW g \in Segment, NEW c \in Ids, NEW status \in {"requested"} \cup Settled
  PROVE  /\ Amends(g, Bumped(WithStatus(g, c, status)), c)
         /\ Bumped(WithStatus(g, c, status)).actions[c] = status
         /\ Bumped(WithStatus(g, c, status)).domain = g.domain
<1> DEFINE w == WithStatus(g, c, status)
<1>1. w \in Segment /\ w.revision = g.revision /\ w.protocol = g.protocol
      /\ w.status = g.status /\ w.decision = g.decision /\ w.domain = g.domain
      /\ w.actions[c] = status /\ \A e \in Ids \ {c} : w.actions[e] = g.actions[e]
  BY DEF WithStatus, Segment
<1> HIDE DEF w
<1>2. Bumped(w) \in Segment /\ Bumped(w).revision = w.revision + 1
      /\ Bumped(w).protocol = w.protocol /\ Bumped(w).status = w.status
      /\ Bumped(w).decision = w.decision /\ Bumped(w).actions = w.actions
      /\ Bumped(w).domain = w.domain
  BY <1>1 DEF Bumped, Segment
<1>3. g.revision \in Nat
  BY DEF Segment
<1> QED BY <1>1, <1>2, <1>3 DEF Amends, w

LEMMA FailedType ==
  ASSUME NEW g \in Segment, NEW c \in Ids
  PROVE  /\ Amends(g, Failed(g, c), c)
         /\ Failed(g, c).actions[c] =
              IF g.actions[c] = "requested" THEN "failed" ELSE g.actions[c]
         /\ Failed(g, c).domain = g.domain
<1>1. CASE g.actions[c] = "requested"
  BY <1>1, StatusType DEF Failed, Settled
<1>2. CASE g.actions[c] # "requested"
  BY <1>2 DEF Failed, Amends, Segment
<1> QED BY <1>1, <1>2

LEMMA SucceededType ==
  ASSUME NEW g \in Segment, NEW c \in Ids, NEW d \in Domain, TypeOK, driver.seg \in Segments
  PROVE  /\ Amends(g, Succeeded(g, c, d), c)
         /\ Succeeded(g, c, d).actions[c] = "succeeded"
         /\ Succeeded(g, c, d).domain = d
<1> DEFINE phase == NextPhase(ActiveProtocol, g.phase, calls[c].name, d)
           w == WithStatus(g, c, "succeeded")
<1>1. phase \in Phases
  BY NextPhaseType DEF TypeOK, Call, ActiveProtocol, Segment
<1>2. w \in Segment /\ w.revision = g.revision /\ w.protocol = g.protocol
      /\ w.status = g.status /\ w.decision = g.decision
      /\ w.actions[c] = "succeeded" /\ \A e \in Ids \ {c} : w.actions[e] = g.actions[e]
  BY DEF WithStatus, Segment, Settled
<1>3. Succeeded(g, c, d) = Bumped([w EXCEPT !.domain = d, !.phase = phase])
  BY DEF Succeeded
<1> HIDE DEF w, phase
<1> DEFINE h == [w EXCEPT !.domain = d, !.phase = phase]
<1>4. h \in Segment /\ h.revision = w.revision /\ h.protocol = w.protocol
      /\ h.status = w.status /\ h.decision = w.decision /\ h.actions = w.actions
      /\ h.domain = d
  BY <1>1, <1>2 DEF Segment
<1> HIDE DEF h
<1>5. Bumped(h) \in Segment /\ Bumped(h).revision = h.revision + 1
      /\ Bumped(h).protocol = h.protocol /\ Bumped(h).status = h.status
      /\ Bumped(h).decision = h.decision /\ Bumped(h).actions = h.actions
      /\ Bumped(h).domain = h.domain
  BY <1>4 DEF Bumped, Segment
<1>6. g.revision \in Nat
  BY DEF Segment
<1>7. Succeeded(g, c, d) = Bumped(h)
  BY <1>3 DEF h
<1> QED BY <1>2, <1>4, <1>5, <1>6, <1>7 DEF Amends
-----------------------------------------------------------------------------
(* Steps of the router.                                                     *)

Progress(c, g, st) ==
  \/ /\ calls[c].step = "entered"
     /\ g.actions[c] \in {"requested", "rejected", "refused"}
     /\ g.actions[c] = "requested" => Cardinality(Begun(segs[calls[c].seg])) < MaxActions
     /\ st = "running" => g.actions[c] = "requested"
     /\ st \in {"running", "threw"}
  \/ /\ calls[c].step = "running"
     /\ g.actions[c] \in {"failed", "succeeded"}
     /\ st \in {"returned", "threw", "faulted", "extracting", "switching"}
  \/ /\ calls[c].step = "faulted"
     /\ \/ g = segs[calls[c].seg]
        \/ segs[calls[c].seg].actions[c] = "requested" /\ g.actions[c] = "failed"
     /\ st = "threw"

\* Call c writes g over the segment it was called in and goes on to step st.
RouteEffect(c, g, st) ==
  /\ driver.up
  /\ Amends(segs[calls[c].seg], g, c)
  /\ Progress(c, g, st)
  /\ segs' = [segs EXCEPT ![calls[c].seg] = g]
  /\ Goes(c, st)
  /\ UNCHANGED <<last, driver, row, final>>

LEMMA InSegment ==
  ASSUME IInv, NEW c \in Ids, calls[c].step # "unused"
  PROVE  calls[c].seg \in 1..last /\ calls[c].seg \in Segments /\ segs[calls[c].seg] \in Segment
  BY BoundsAssumption DEF IInv, TypeOK, Records, Segments

LEMMA DriverSegment ==
  ASSUME IInv, driver.up
  PROVE  driver.seg \in 1..last /\ driver.seg \in Segments /\ segs[driver.seg] \in Segment
  BY BoundsAssumption DEF IInv, TypeOK, Chain, Segments, Driver

LEMMA BeginEffect ==
  ASSUME IInv, NEW c \in Ids, NEW ok \in BOOLEAN, Begin(c, ok)
  PROVE  \E g \in Segment, st \in Steps :
           RouteEffect(c, g, st) /\ Publish({<<calls[c].seg, g.revision>>}, ok)
<1> DEFINE s == segs[calls[c].seg]
<1>1. PICK status \in Admissions(s, calls[c].name) :
        /\ Commit(calls[c].seg, Bumped(WithStatus(s, c, status)), ok)
        /\ Goes(c, IF ok /\ status = "requested" THEN "running" ELSE "threw")
  BY DEF Begin
<1>2. s \in Segment /\ calls[c].step = "entered"
  BY InSegment DEF Begin
<1>3. /\ status \in {"requested", "rejected", "refused"}
      /\ status = "requested" => ~(Cardinality(Begun(s)) >= MaxActions)
  BY <1>1 DEF Admissions
<1>4. status = "requested" => Cardinality(Begun(s)) < MaxActions
  <2>1. Cardinality(Begun(s)) \in Nat
    BY IdsFinite, FS_Subset, FS_CardinalityType DEF Begun
  <2> QED BY <1>3, <2>1, BoundsAssumption
<1> DEFINE g == Bumped(WithStatus(s, c, status))
           st == IF ok /\ status = "requested" THEN "running" ELSE "threw"
<1>5. Amends(s, g, c) /\ g.actions[c] = status
  BY <1>2, <1>3, StatusType DEF Settled
<1>6. st \in Steps /\ st \in {"running", "threw"} /\ (st = "running" => status = "requested")
  BY DEF Steps
<1>7. RouteEffect(c, g, st)
  <2>1. segs' = [segs EXCEPT ![calls[c].seg] = g]
    BY <1>1 DEF Commit
  <2>2. Progress(c, g, st)
    BY <1>2, <1>3, <1>4, <1>5, <1>6 DEF Progress
  <2> QED BY <1>1, <1>5, <2>1, <2>2 DEF RouteEffect, Begin
<1>8. Publish({<<calls[c].seg, g.revision>>}, ok)
  BY <1>1 DEF Commit
<1> QED BY <1>5, <1>6, <1>7, <1>8 DEF Amends

LEMMA FailEffect ==
  ASSUME IInv, NEW c \in Ids, NEW ok \in BOOLEAN, ToolFails(c, ok) \/ ResultRefused(c, ok)
  PROVE  \E g \in Segment, st \in Steps :
           RouteEffect(c, g, st) /\ Publish({<<calls[c].seg, g.revision>>}, ok)
<1> DEFINE s == segs[calls[c].seg]
           g == Failed(s, c)
<1>1. s \in Segment /\ calls[c].step = "running"
  BY InSegment DEF ToolFails, ResultRefused
<1>2. s.actions[c] = "requested"
  BY <1>1 DEF IInv, Records
<1>3. Amends(s, g, c) /\ g.actions[c] = "failed"
  BY <1>1, <1>2, FailedType
<1>4. Commit(calls[c].seg, g, ok)
  BY DEF ToolFails, ResultRefused
<1>5. Progress(c, g, "threw")
  BY <1>1, <1>3 DEF Progress
<1>6. RouteEffect(c, g, "threw")
  BY <1>3, <1>4, <1>5 DEF RouteEffect, Commit, ToolFails, ResultRefused
<1>7. Publish({<<calls[c].seg, g.revision>>}, ok)
  BY <1>4 DEF Commit
<1>8. "threw" \in Steps
  BY DEF Steps
<1> QED BY <1>3, <1>6, <1>7, <1>8 DEF Amends

LEMMA SucceedEffect ==
  ASSUME IInv, NEW c \in Ids, NEW ok \in BOOLEAN, ToolSucceeds(c, ok)
  PROVE  \E g \in Segment, st \in Steps :
           RouteEffect(c, g, st) /\ Publish({<<calls[c].seg, g.revision>>}, ok)
<1> DEFINE s == segs[calls[c].seg]
           st == IF ~ok THEN "faulted"
                 ELSE IF calls[c].name # "handoff" THEN "returned"
                 ELSE IF calls[c].target = "data-analysis" THEN "extracting" ELSE "switching"
<1>1. PICK d \in Reductions(ActiveProtocol, s.domain, calls[c].name) :
        Commit(calls[c].seg, Succeeded(s, c, d), ok)
  BY DEF ToolSucceeds
<1>2. s \in Segment /\ calls[c].step = "running"
  BY InSegment DEF ToolSucceeds
<1>3. d \in Domain
  BY <1>1 DEF Reductions
<1> DEFINE g == Succeeded(s, c, d)
<1>4. Amends(s, g, c) /\ g.actions[c] = "succeeded"
  BY <1>2, <1>3, SucceededType, DriverSegment DEF IInv, ToolSucceeds
<1>5. Progress(c, g, st)
  BY <1>2, <1>4 DEF Progress
<1>6. RouteEffect(c, g, st)
  <2>1. segs' = [segs EXCEPT ![calls[c].seg] = g]
    BY <1>1 DEF Commit
  <2> QED BY <1>4, <1>5, <2>1 DEF RouteEffect, ToolSucceeds
<1>7. Publish({<<calls[c].seg, g.revision>>}, ok)
  BY <1>1 DEF Commit
<1>8. st \in Steps
  BY DEF Steps
<1> QED BY <1>4, <1>6, <1>7, <1>8 DEF Amends

LEMMA RecordEffect ==
  ASSUME IInv, NEW c \in Ids, FailureRecorded(c)
  PROVE  \E g \in Segment, st \in Steps :
           RouteEffect(c, g, st) /\ Publish({<<calls[c].seg, g.revision>>}, TRUE)
<1> DEFINE s == segs[calls[c].seg]
           g == Failed(s, c)
<1>1. s \in Segment /\ calls[c].step = "faulted"
  BY InSegment DEF FailureRecorded
<1>2. Amends(s, g, c)
  BY <1>1, FailedType
<1>3. g = s \/ (s.actions[c] = "requested" /\ g.actions[c] = "failed")
  BY <1>1, FailedType DEF Failed
<1>4. Commit(calls[c].seg, g, TRUE)
  BY DEF FailureRecorded
<1>5. Progress(c, g, "threw")
  BY <1>1, <1>3 DEF Progress
<1>6. RouteEffect(c, g, "threw")
  BY <1>2, <1>4, <1>5 DEF RouteEffect, Commit, FailureRecorded
<1>7. Publish({<<calls[c].seg, g.revision>>}, TRUE)
  BY <1>4 DEF Commit
<1>8. "threw" \in Steps
  BY DEF Steps
<1> QED BY <1>2, <1>6, <1>7, <1>8 DEF Amends

LEMMA RouteHasEffect ==
  ASSUME IInv, NEW c \in Ids, Route(c)
  PROVE  \E g \in Segment, st \in Steps, ok \in BOOLEAN :
           RouteEffect(c, g, st) /\ Publish({<<calls[c].seg, g.revision>>}, ok)
  BY BeginEffect, FailEffect, SucceedEffect, RecordEffect DEF Route

-----------------------------------------------------------------------------
(* What a step of the router keeps.                                         *)

LEMMA PublishType ==
  ASSUME TypeOK, NEW ok \in BOOLEAN, NEW commits \in SUBSET (Segments \X Nat),
         Publish(commits, ok)
  PROVE  /\ pending' \in SUBSET (Segments \X Nat)
         /\ faults' \in 0..MaxFaults
         /\ faults' = 0 => faults = 0
  BY BoundsAssumption DEF TypeOK, Publish

LEMMA GoesType ==
  ASSUME TypeOK, NEW c \in Ids, NEW st \in Steps, Goes(c, st)
  PROVE  /\ calls' \in [Ids -> Call]
         /\ calls'[c].step = st /\ calls'[c].seg = calls[c].seg /\ calls'[c].name = calls[c].name
         /\ \A d \in Ids \ {c} : calls'[d] = calls[d]
  BY DEF TypeOK, Goes, At, Call

LEMMA RouteTypes ==
  ASSUME IInv, NEW c \in Ids, NEW g \in Segment, NEW st \in Steps, NEW ok \in BOOLEAN,
         RouteEffect(c, g, st), Publish({<<calls[c].seg, g.revision>>}, ok)
  PROVE  TypeOK' /\ (faults' = 0 => faults = 0)
<1>1. calls[c].seg \in Segments
  BY InSegment DEF RouteEffect, Progress
<1>2. {<<calls[c].seg, g.revision>>} \in SUBSET (Segments \X Nat)
  BY <1>1 DEF Segment
<1>3. segs' \in [Segments -> Segment]
  BY <1>1 DEF IInv, TypeOK, RouteEffect
<1>4. calls' \in [Ids -> Call] /\ \A d \in Ids : calls'[d].seg = calls[d].seg
  BY GoesType DEF IInv, RouteEffect
<1> QED BY <1>2, <1>3, <1>4, PublishType DEF IInv, TypeOK, RouteEffect

LEMMA RouteCounts ==
  ASSUME IInv, NEW c \in Ids, NEW g \in Segment, NEW st \in Steps, RouteEffect(c, g, st)
  PROVE  BudgetHolds'
<1> DEFINE s == segs[calls[c].seg]
<1>1. calls[c].seg \in Segments /\ s \in Segment
  BY InSegment DEF RouteEffect, Progress
<1>2. /\ segs'[calls[c].seg] = g
      /\ \A x \in Segments \ {calls[c].seg} : segs'[x] = segs[x]
  BY <1>1 DEF IInv, TypeOK, RouteEffect
<1>3. IsFiniteSet(Admitted(s)) /\ IsFiniteSet(Begun(s)) /\ IsFiniteSet(Admitted(g))
  BY IdsFinite, FS_Subset DEF Admitted, Begun
<1>4. Cardinality(Admitted(g)) <= MaxActions
  <2>1. CASE calls[c].step = "entered" /\ g.actions[c] = "requested"
    <3>1. Cardinality(Begun(s)) < MaxActions
      BY <2>1 DEF RouteEffect, Progress
    <3>2. Admitted(g) \subseteq Begun(s) \cup {c}
      BY DEF Admitted, Begun, RouteEffect, Amends
    <3>3. /\ IsFiniteSet(Begun(s) \cup {c})
          /\ Cardinality(Begun(s) \cup {c}) <= Cardinality(Begun(s)) + 1
          /\ Cardinality(Begun(s)) \in Nat
      BY <1>3, OneMore
    <3>4. /\ Cardinality(Admitted(g)) <= Cardinality(Begun(s) \cup {c})
          /\ Cardinality(Admitted(g)) \in Nat /\ Cardinality(Begun(s) \cup {c}) \in Nat
      BY <3>2, <3>3, <1>3, FS_Subset, FS_CardinalityType
    <3> QED BY <3>1, <3>3, <3>4, BoundsAssumption
  <2>2. CASE ~(calls[c].step = "entered" /\ g.actions[c] = "requested")
    <3>1. Admitted(g) \subseteq Admitted(s)
      <4>1. g.actions[c] \in {"requested", "succeeded", "failed"} =>
              s.actions[c] \in {"requested", "succeeded", "failed"}
        BY <2>2 DEF IInv, Records, RouteEffect, Progress
      <4> QED BY <4>1 DEF Admitted, RouteEffect, Amends
    <3>2. Cardinality(Admitted(s)) <= MaxActions
      BY <1>1 DEF IInv, BudgetHolds
    <3>3. /\ Cardinality(Admitted(g)) <= Cardinality(Admitted(s))
          /\ Cardinality(Admitted(g)) \in Nat /\ Cardinality(Admitted(s)) \in Nat
      BY <3>1, <1>3, FS_Subset, FS_CardinalityType
    <3> QED BY <3>2, <3>3, BoundsAssumption
  <2> QED BY <2>1, <2>2
<1> QED BY <1>2, <1>4 DEF IInv, BudgetHolds

LEMMA RouteKeeps ==
  ASSUME IInv, NEW c \in Ids, NEW g \in Segment, NEW st \in Steps, NEW ok \in BOOLEAN,
         RouteEffect(c, g, st), Publish({<<calls[c].seg, g.revision>>}, ok)
  PROVE  IInv'
<1>1. calls[c].seg \in 1..last /\ calls[c].seg \in Segments /\ calls[c].step # "unused"
  BY InSegment DEF RouteEffect, Progress
<1>2. /\ segs'[calls[c].seg] = g
      /\ \A x \in Segments \ {calls[c].seg} : segs'[x] = segs[x]
  BY <1>1 DEF IInv, TypeOK, RouteEffect
<1>3. \A x \in Segments : /\ segs'[x].protocol = segs[x].protocol
                          /\ segs'[x].status = segs[x].status
                          /\ segs'[x].decision = segs[x].decision
                          /\ \A d \in Ids \ {c} : segs'[x].actions[d] = segs[x].actions[d]
  BY <1>2 DEF RouteEffect, Amends
<1>4. /\ calls'[c].step = st /\ calls'[c].seg = calls[c].seg
      /\ \A d \in Ids \ {c} : calls'[d] = calls[d]
  BY GoesType DEF IInv, RouteEffect
<1>5. last' = last /\ driver' = driver /\ row' = row /\ final' = final
  BY DEF RouteEffect
<1>6. TypeOK' /\ (faults' = 0 => faults = 0)
  BY RouteTypes
<1>7. Chain'
  <2>1. \A x \in Segments : x > last => segs'[x] = segs[x]
    BY <1>1, <1>2 DEF IInv, TypeOK, Segments
  <2>2. \A x \in Segments : x < last => x + 1 \in Segments
    BY BoundsAssumption DEF IInv, TypeOK, Segments
  <2>3. last > 0 => last \in Segments
    BY BoundsAssumption DEF IInv, TypeOK, Segments
  <2> QED BY <1>3, <1>5, <1>6, <2>1, <2>2, <2>3 DEF IInv, Chain
<1>8. Records'
  <2>1. ASSUME NEW d \in Ids \ {c}
        PROVE  /\ calls[d].step \in {"unused", "entered"} => \A x \in Segments : segs'[x].actions[d] = "none"
               /\ calls[d].step = "running" => segs'[calls[d].seg].actions[d] = "requested"
               /\ calls[d].step # "unused" => calls[d].seg > 0
    BY <1>3, <2>1, InSegment DEF IInv, Records
  <2>2. st \notin {"unused", "entered"} /\ (st = "running" => g.actions[c] = "requested")
    BY DEF RouteEffect, Progress
  <2> QED BY <1>1, <1>2, <1>4, <2>1, <2>2 DEF IInv, Records
<1>9. BudgetHolds'
  BY RouteCounts
<1>10. c \in InFlight /\ InFlight' \subseteq InFlight
  <2>1. c \in InFlight
    BY DEF RouteEffect, Progress, InFlight
  <2> QED BY <1>4, <2>1 DEF InFlight
<1>11. \A x \in Segments : segs'[x].decision = "none"
  BY <1>3, <1>10 DEF IInv, Completion
<1>12. Completion'
  <2>1. c = AnswerCall => final # "no"
    BY <1>1 DEF IInv, Completion
  <2>2. final \notin {"proposing", "finalizing"}
    BY <1>10 DEF IInv, Completion
  <2>3. final' = "no" => calls'[AnswerCall].step = "unused"
    BY <1>4, <1>5, <2>1 DEF IInv, Completion, Ids
  <2>4. final' = "answering" => InFlight' \subseteq {AnswerCall}
    BY <1>5, <1>10 DEF IInv, Completion
  <2>5. final' \notin {"proposing", "finalizing"}
    BY <1>5, <2>2
  <2>6. (row' = "completed" => final' = "done") /\ (row' = "suspended" => final' = "no" /\ ~driver'.up)
    BY <1>5 DEF IInv, Completion
  <2>7. \A x \in Segments : segs'[x].status # "terminal"
    BY <1>3, <1>10 DEF IInv, Completion
  <2>8. final' \in {"answering", "proposing", "finalizing"} => row' = "running"
    BY <1>5 DEF IInv, Completion
  <2> QED BY <1>11, <2>3, <2>4, <2>5, <2>6, <2>7, <2>8 DEF Completion
<1>13. CompletedIsDecided'
  <2>1. row # "completed"
    <3>1. row = "completed" => driver.seg \in Segments
      BY BoundsAssumption DEF IInv, TypeOK, Chain, Segments, Driver
    <3> QED BY <3>1, <1>10 DEF IInv, CompletedIsDecided, Completion
  <2> QED BY <1>5, <1>11, <2>1 DEF CompletedIsDecided
<1> QED BY <1>6, <1>7, <1>8, <1>9, <1>12, <1>13 DEF IInv

\* A step of the router is explained by the two action properties.
LEMMA RouteSettles ==
  ASSUME IInv, NEW c \in Ids, NEW g \in Segment, NEW st \in Steps, RouteEffect(c, g, st)
  PROVE  SettledOnce /\ EndedStays
<1>1. calls[c].seg \in Segments /\ segs[calls[c].seg] \in Segment
  BY InSegment DEF RouteEffect, Progress
<1>2. /\ segs'[calls[c].seg] = g
      /\ \A x \in Segments \ {calls[c].seg} : segs'[x] = segs[x]
  BY <1>1 DEF IInv, TypeOK, RouteEffect
<1>3. segs[calls[c].seg].actions[c] \in Settled => g.actions[c] = segs[calls[c].seg].actions[c]
  BY <1>1 DEF IInv, Records, RouteEffect, Progress, Settled
<1>4. SettledOnce
  BY <1>2, <1>3 DEF SettledOnce, RouteEffect, Amends
<1>5. \A x \in Segments : segs[x].revision \in Nat
  BY DEF IInv, TypeOK, Segment
<1>6. EndedStays
  BY <1>2, <1>5 DEF EndedStays, RouteEffect, Amends
<1> QED BY <1>4, <1>6

-----------------------------------------------------------------------------
(* Steps of the process: the segments stay, or the first one is created.    *)

LEMMA StartKeeps == ASSUME IInv, Start PROVE IInv'
<1>1. PICK p \in Protocols, correctable \in BOOLEAN :
        /\ segs' = [segs EXCEPT ![1] = NewSegment(p, 1)]
        /\ driver' = [up |-> TRUE, number |-> 1, seg |-> 1,
                      correctable |-> correctable, ready |-> FALSE]
  BY DEF Start
<1>2. /\ NewSegment(p, 1) \in Segment /\ NewSegment(p, 1).status = "active"
      /\ NewSegment(p, 1).decision = "none"
      /\ \A c \in Ids : NewSegment(p, 1).actions[c] = "none"
  BY NewSegmentType
<1>3. 1 \in Segments /\ segs'[1] = NewSegment(p, 1)
      /\ \A x \in Segments \ {1} : segs'[x] = Absent
  BY <1>1, BoundsAssumption DEF IInv, TypeOK, Chain, Segments, Start
<1>4. \A c \in Ids : calls[c].step = "unused"
  BY DEF IInv, TypeOK, Records, Start
<1>5. TypeOK'
  <2>1. segs' \in [Segments -> Segment]
    BY <1>1, <1>2 DEF IInv, TypeOK
  <2>2. driver' \in Driver /\ driver'.seg \in 0..1
    BY <1>1 DEF Driver
  <2>3. last' = 1 /\ last' \in 0..MaxSegments
    BY BoundsAssumption DEF Start
  <2>4. \A c \in Ids : calls[c].seg \in 0..1
    BY DEF IInv, TypeOK, Start
  <2>5. pending' \in SUBSET (Segments \X Nat)
    BY <1>3 DEF Start
  <2> QED BY <2>1, <2>2, <2>3, <2>4, <2>5 DEF IInv, TypeOK, Start
<1>6. Chain'
  <2>1. \A x \in Segments : x <= 1 => x = 1
    BY DEF Segments
  <2>2. driver'.seg = 1 /\ last' = 1
    BY <1>1 DEF Start
  <2> QED BY <1>2, <1>3, <2>1, <2>2 DEF Chain, Segments
<1>7. Records'
  BY <1>2, <1>3, <1>4, AbsentType DEF Records, Start
<1>8. BudgetHolds'
  <2>1. \A x \in Segments : Admitted(segs'[x]) = {}
    BY <1>2, <1>3, AbsentType DEF Admitted
  <2> QED BY <2>1, FS_EmptySet, BoundsAssumption DEF BudgetHolds
<1>9. \A x \in Segments : segs'[x].decision = "none"
  BY <1>2, <1>3, AbsentType
<1>10. row' = "running" /\ final' = "no" /\ calls' = calls
  BY DEF IInv, Chain, Start
<1>11. Completion'
  <2>1. \A x \in Segments : segs'[x].status # "terminal"
    BY <1>2, <1>3, AbsentType
  <2> QED BY <1>4, <1>9, <1>10, <2>1 DEF Completion, Ids
<1>12. CompletedIsDecided'
  BY <1>9, <1>10 DEF CompletedIsDecided
<1> QED BY <1>5, <1>6, <1>7, <1>8, <1>11, <1>12 DEF IInv

LEMMA FlushKeeps == ASSUME IInv, Flush PROVE IInv'
<1>1. TypeOK'
  BY DEF IInv, TypeOK, Flush, Driver
<1>2. driver'.up = driver.up /\ driver'.seg = driver.seg
  BY DEF IInv, TypeOK, Flush, Driver
<1>3. Chain'
  BY <1>2 DEF IInv, Chain, Flush
<1>4. Records' /\ BudgetHolds'
  BY DEF IInv, Records, BudgetHolds, Flush
<1>5. Completion'
  BY <1>2 DEF IInv, Completion, InFlight, Flush
<1>6. CompletedIsDecided'
  BY <1>2 DEF IInv, CompletedIsDecided, Flush
<1> QED BY <1>1, <1>3, <1>4, <1>5, <1>6 DEF IInv

LEMMA SuspendKeeps == ASSUME IInv, Suspend PROVE IInv'
<1>1. driver' \in Driver /\ ~driver'.up /\ driver'.seg = driver.seg
  BY DEF IInv, TypeOK, Suspend, Driver
<1>2. TypeOK'
  BY <1>1 DEF IInv, TypeOK, Suspend
<1>3. Chain'
  <2>1. last # 0
    BY DEF IInv, Chain, Suspend
  <2> QED BY <1>1, <2>1 DEF IInv, Chain, Suspend
<1>4. Records' /\ BudgetHolds'
  BY DEF IInv, Records, BudgetHolds, Suspend
<1>5. Completion'
  BY <1>1 DEF IInv, Completion, InFlight, Suspend
<1>6. CompletedIsDecided'
  BY <1>1 DEF IInv, CompletedIsDecided, Suspend
<1> QED BY <1>2, <1>3, <1>4, <1>5, <1>6 DEF IInv

LEMMA ResumeKeeps == ASSUME IInv, Resume PROVE IInv'
<1>1. driver' \in Driver /\ driver'.seg = last
  BY DEF IInv, TypeOK, Resume, Driver
<1>2. last \in 1..MaxSegments
  BY DEF IInv, TypeOK, Chain, Resume
<1>3. TypeOK'
  BY <1>1, <1>2 DEF IInv, TypeOK, Resume
<1>4. Chain'
  BY <1>1, <1>2 DEF IInv, Chain, Resume
<1>5. Records' /\ BudgetHolds'
  BY DEF IInv, Records, BudgetHolds, Resume
<1>6. final = "no" /\ final' = "no" /\ row' = "running"
  BY DEF IInv, Completion, Resume
<1>7. Completion'
  BY <1>6 DEF IInv, Completion, InFlight, Resume
<1>8. CompletedIsDecided'
  BY <1>6 DEF IInv, CompletedIsDecided, Resume
<1> QED BY <1>3, <1>4, <1>5, <1>7, <1>8 DEF IInv

LEMMA AbortKeeps == ASSUME IInv, Abort PROVE IInv'
<1>1. TypeOK'
  BY DEF IInv, TypeOK, Abort
<1>2. Chain'
  BY DEF IInv, Chain, Abort
<1>3. Records' /\ BudgetHolds'
  BY DEF IInv, Records, BudgetHolds, Abort
<1>4. Completion'
  BY DEF IInv, Completion, InFlight, Abort
<1>5. CompletedIsDecided'
  BY DEF IInv, CompletedIsDecided, Abort
<1> QED BY <1>1, <1>2, <1>3, <1>4, <1>5 DEF IInv

LEMMA CrashKeeps == ASSUME IInv, Crash PROVE IInv'
<1>1. driver' \in Driver /\ ~driver'.up /\ driver'.seg = driver.seg
  BY DEF IInv, TypeOK, Crash, Driver
<1>2. /\ calls' \in [Ids -> Call]
      /\ \A c \in Ids : /\ calls'[c].seg = calls[c].seg
                        /\ c \in InFlight => calls'[c].step = "lost"
                        /\ c \notin InFlight => calls'[c] = calls[c]
  BY DEF IInv, TypeOK, Crash, At, Call, Steps
<1>3. InFlight' = {}
  BY <1>2 DEF InFlight
<1>4. row # "suspended"
  BY DEF IInv, Completion, Crash
<1>5. TypeOK'
  <2>1. row' \in {"running", "suspended", "completed", "failed", "canceled"}
    BY DEF IInv, TypeOK, Crash
  <2> QED BY <1>1, <1>2, <2>1 DEF IInv, TypeOK, Crash
<1>6. Chain'
  <2>1. last # 0
    BY DEF IInv, Chain, Crash
  <2> QED BY <1>1, <2>1 DEF IInv, Chain, Crash
<1>7. Records'
  BY <1>2 DEF IInv, Records, InFlight, Crash
<1>8. BudgetHolds'
  BY DEF IInv, BudgetHolds, Crash
<1>9. Completion'
  BY <1>3, <1>4 DEF IInv, Completion, Crash
<1>10. CompletedIsDecided'
  BY <1>1 DEF IInv, CompletedIsDecided, Crash
<1> QED BY <1>5, <1>6, <1>7, <1>8, <1>9, <1>10 DEF IInv

LEMMA EnterKeeps == ASSUME IInv, NEW c \in Calls, Enter(c) PROVE IInv'
<1>1. PICK name \in Names \ {"answer"}, target \in Protocols :
        calls' = [calls EXCEPT ![c] = [name |-> name, seg |-> driver.seg,
                                       target |-> target, step |-> "entered"]]
  BY DEF Enter
<1>2. c \in Ids /\ c # AnswerCall /\ driver.seg \in 1..last
  BY CallsAssumption, DriverSegment DEF Ids, Enter
<1>3. /\ calls' \in [Ids -> Call]
      /\ calls'[c].step = "entered" /\ calls'[c].seg = driver.seg
      /\ \A d \in Ids \ {c} : calls'[d] = calls[d]
  BY <1>1, <1>2 DEF IInv, TypeOK, Call, Names, Steps
<1>4. TypeOK'
  BY <1>2, <1>3 DEF IInv, TypeOK, Enter
<1>5. Chain' /\ BudgetHolds'
  BY DEF IInv, Chain, BudgetHolds, Enter
<1>6. Records'
  BY <1>2, <1>3 DEF IInv, Records, Enter
<1>7. Completion'
  <2>1. \A x \in Segments : segs[x].decision = "none"
    BY DEF IInv, Completion, Enter
  <2> QED BY <1>2, <1>3, <2>1 DEF IInv, Completion, Ids, Enter
<1>8. CompletedIsDecided'
  BY DEF IInv, CompletedIsDecided, Enter
<1> QED BY <1>4, <1>5, <1>6, <1>7, <1>8 DEF IInv

-----------------------------------------------------------------------------
(* Steps of a handoff.                                                      *)

\* A call that is past its action ends; the rest of the calls stay.
LEMMA CallEnds ==
  ASSUME IInv, NEW c \in Ids, NEW st \in {"returned", "threw"}, Goes(c, st),
         calls[c].step \in {"extracting", "switching"}
  PROVE  /\ calls' \in [Ids -> Call]
         /\ calls'[c].step = st
         /\ \A d \in Ids : calls'[d].seg = calls[d].seg
         /\ \A d \in Ids \ {c} : calls'[d] = calls[d]
         /\ c \in InFlight /\ InFlight' \subseteq InFlight
<1>1. st \in Steps
  BY DEF Steps
<1>2. c \in InFlight
  BY DEF InFlight
<1>3. /\ calls' \in [Ids -> Call]
      /\ calls'[c].step = st /\ calls'[c].seg = calls[c].seg
      /\ \A d \in Ids \ {c} : calls'[d] = calls[d]
  BY <1>1, GoesType DEF IInv
<1> QED BY <1>2, <1>3 DEF InFlight

\* While a call is in flight nothing has been decided and the completion has not begun,
\* except for the answer itself.
LEMMA InFlightUndecided ==
  ASSUME IInv, NEW c \in InFlight
  PROVE  /\ \A s \in Segments : segs[s].decision = "none"
         /\ final \notin {"proposing", "finalizing"}
         /\ row # "completed"
<1>1. \A s \in Segments : segs[s].decision = "none"
  BY DEF IInv, Completion
<1>2. row # "completed"
  <2>1. row = "completed" => driver.seg \in Segments
    BY BoundsAssumption DEF IInv, TypeOK, Chain, Segments, Driver
  <2> QED BY <1>1, <2>1 DEF IInv, CompletedIsDecided
<1> QED BY <1>1, <1>2 DEF IInv, Completion

LEMMA ExtractionFailsKeeps ==
  ASSUME IInv, NEW c \in Ids, ExtractionFails(c) \/ HandoffThrows(c)
  PROVE  IInv'
<1>1. /\ calls[c].step \in {"extracting", "switching"} /\ Goes(c, "threw")
      /\ UNCHANGED <<segs, last, driver, row, final, pending, faults>>
  BY DEF ExtractionFails, HandoffThrows, Coordinates
<1>2. /\ calls' \in [Ids -> Call]
      /\ calls'[c].step = "threw"
      /\ \A d \in Ids : calls'[d].seg = calls[d].seg
      /\ \A d \in Ids \ {c} : calls'[d] = calls[d]
      /\ c \in InFlight /\ InFlight' \subseteq InFlight
  BY <1>1, CallEnds
<1>3. TypeOK'
  BY <1>1, <1>2 DEF IInv, TypeOK
<1>4. Chain' /\ BudgetHolds' /\ CompletedIsDecided'
  BY <1>1 DEF IInv, Chain, BudgetHolds, CompletedIsDecided
<1>5. Records'
  BY <1>1, <1>2 DEF IInv, Records
<1>6. Completion'
  BY <1>1, <1>2 DEF IInv, Completion, Ids
<1> QED BY <1>3, <1>4, <1>5, <1>6 DEF IInv

LEMMA HandoffRefusedKeeps ==
  ASSUME IInv, NEW c \in Ids, NEW ok \in BOOLEAN, HandoffRefused(c, ok)
  PROVE  IInv' /\ SettledOnce /\ EndedStays
<1> DEFINE g == Bumped(Current)
<1>1. /\ calls[c].step \in {"extracting", "switching"} /\ Goes(c, "threw")
      /\ segs' = [segs EXCEPT ![driver.seg] = g] /\ driver.up
      /\ Publish({<<driver.seg, g.revision>>}, ok)
      /\ UNCHANGED <<last, driver, row, final>>
  BY DEF HandoffRefused, Coordinates, Commit
<1>2. /\ calls' \in [Ids -> Call]
      /\ calls'[c].step = "threw"
      /\ \A d \in Ids : calls'[d].seg = calls[d].seg
      /\ \A d \in Ids \ {c} : calls'[d] = calls[d]
      /\ c \in InFlight /\ InFlight' \subseteq InFlight
  BY <1>1, CallEnds
<1>3. driver.seg \in 1..last /\ driver.seg \in Segments /\ Current \in Segment
  BY <1>1, DriverSegment DEF Current
<1>4. Amends(Current, g, c) /\ g.actions[c] = Current.actions[c]
  BY <1>3, BumpedType
<1>5. /\ segs' \in [Segments -> Segment]
      /\ segs'[driver.seg] = g
      /\ \A x \in Segments \ {driver.seg} : segs'[x] = segs[x]
  BY <1>1, <1>3, <1>4 DEF IInv, TypeOK, Amends
<1>6. \A x \in Segments : /\ segs'[x].protocol = segs[x].protocol
                          /\ segs'[x].status = segs[x].status
                          /\ segs'[x].decision = segs[x].decision
                          /\ \A d \in Ids : segs'[x].actions[d] = segs[x].actions[d]
  BY <1>4, <1>5 DEF Amends, Current
<1>7. /\ pending' \in SUBSET (Segments \X Nat) /\ faults' \in 0..MaxFaults
      /\ faults' = 0 => faults = 0
  BY <1>1, <1>3, <1>4, PublishType DEF IInv, Amends, Segment
<1>8. TypeOK'
  BY <1>1, <1>2, <1>5, <1>7 DEF IInv, TypeOK
<1>9. Chain'
  <2>1. \A x \in Segments : x > last => segs'[x] = segs[x]
    BY <1>3, <1>5 DEF IInv, TypeOK, Segments
  <2>2. \A x \in Segments : x < last => x + 1 \in Segments
    BY BoundsAssumption DEF IInv, TypeOK, Segments
  <2>3. last > 0 => last \in Segments
    BY BoundsAssumption DEF IInv, TypeOK, Segments
  <2> QED BY <1>1, <1>6, <1>7, <2>1, <2>2, <2>3 DEF IInv, Chain
<1>10. Records'
  <2>1. ASSUME NEW d \in Ids
        PROVE  /\ calls'[d].step \in {"unused", "entered"} =>
                    \A x \in Segments : segs'[x].actions[d] = "none"
               /\ calls'[d].step = "running" => segs'[calls'[d].seg].actions[d] = "requested"
               /\ calls'[d].step # "unused" => calls'[d].seg > 0
    <3>1. CASE d = c
      BY <3>1, <1>1, <1>2, InSegment
    <3>2. CASE d # c
      BY <3>2, <1>2, <1>6, InSegment DEF IInv, Records
    <3> QED BY <3>1, <3>2
  <2> QED BY <2>1 DEF Records
<1>11. BudgetHolds'
  <2>1. \A x \in Segments : Admitted(segs'[x]) = Admitted(segs[x])
    BY <1>6 DEF Admitted
  <2> QED BY <2>1 DEF IInv, BudgetHolds
<1>12. Completion'
  BY <1>1, <1>2, <1>6, InFlightUndecided DEF IInv, Completion, Ids
<1>13. CompletedIsDecided'
  BY <1>1, <1>2, <1>6, InFlightUndecided DEF CompletedIsDecided
<1>14. SettledOnce
  BY <1>6 DEF SettledOnce
<1>15. EndedStays
  <2>1. \A x \in Segments : segs[x].revision \in Nat
    BY DEF IInv, TypeOK, Segment
  <2> QED BY <1>4, <1>5, <1>6, <2>1 DEF EndedStays, Amends, Current
<1> QED BY <1>8, <1>9, <1>10, <1>11, <1>12, <1>13, <1>14, <1>15 DEF IInv

LEMMA HandoffAcceptedKeeps ==
  ASSUME IInv, NEW c \in Ids, NEW ok \in BOOLEAN, HandoffAccepted(c, ok)
  PROVE  IInv' /\ SettledOnce /\ EndedStays
<1>1. /\ calls[c].step \in {"extracting", "switching"} /\ Goes(c, Came(ok))
      /\ segs' = [segs EXCEPT ![driver.seg] = Ended(c), ![last + 1] = Successor(c)]
      /\ driver.up /\ ~Refused(c) /\ Current.status = "active" /\ last < MaxSegments
      /\ Publish({<<driver.seg, Ended(c).revision>>, <<last + 1, 0>>}, ok)
      /\ last' = last + 1 /\ driver' = Switched(last + 1, ok)
      /\ UNCHANGED <<row, final>>
  BY DEF HandoffAccepted, Coordinates
<1>2. Came(ok) \in {"returned", "threw"}
  BY DEF Came
<1>3. /\ calls' \in [Ids -> Call]
      /\ calls'[c].step \in {"returned", "threw"}
      /\ \A d \in Ids : calls'[d].seg = calls[d].seg
      /\ \A d \in Ids \ {c} : calls'[d] = calls[d]
      /\ c \in InFlight /\ InFlight' \subseteq InFlight
  BY <1>1, <1>2, CallEnds
<1>4. driver.seg \in 1..last /\ driver.seg \in Segments /\ Current \in Segment
  BY <1>1, DriverSegment DEF Current
<1>5. driver.seg = last /\ last \in Segments /\ last + 1 \in Segments /\ last + 1 # last
  <2>1. ~(driver.seg < last)
    BY <1>1, <1>4 DEF IInv, Chain, Current
  <2> QED BY <1>1, <1>4, <2>1, BoundsAssumption DEF IInv, TypeOK, Segments
<1>6. /\ Ended(c) \in Segment /\ Ended(c).status \in {"aborted", "handed_off"}
      /\ Ended(c).decision = Current.decision /\ Ended(c).protocol = Current.protocol
      /\ Ended(c).revision = Current.revision + 1
      /\ \A d \in Ids : Ended(c).actions[d] = Current.actions[d]
  <2>1. /\ Bumped(Current) \in Segment /\ Bumped(Current).protocol = Current.protocol
        /\ Bumped(Current).decision = Current.decision
        /\ Bumped(Current).revision = Current.revision + 1
        /\ Bumped(Current).actions = Current.actions
    BY <1>4 DEF Bumped, Segment
  <2> DEFINE status == IF RouteCorrection(c) THEN "aborted" ELSE "handed_off"
  <2>2. Ended(c) = [Bumped(Current) EXCEPT !.status = status]
    BY DEF Ended
  <2>3. status \in {"aborted", "handed_off"}
    OBVIOUS
  <2> HIDE DEF status
  <2> QED BY <2>1, <2>2, <2>3 DEF Segment
<1>7. /\ Successor(c) \in Segment /\ Successor(c).status = "active"
      /\ Successor(c).protocol = calls[c].target /\ Successor(c).decision = "none"
      /\ \A d \in Ids : Successor(c).actions[d] = "none"
  <2>1. calls[c].target \in Protocols /\ Current.package \in Nat
    BY <1>4 DEF IInv, TypeOK, Call, Segment
  <2> QED BY <2>1, NewSegmentType DEF Successor
<1>8. /\ segs' \in [Segments -> Segment]
      /\ segs'[last] = Ended(c) /\ segs'[last + 1] = Successor(c)
      /\ \A x \in Segments \ {last, last + 1} : segs'[x] = segs[x]
  BY <1>1, <1>5, <1>6, <1>7 DEF IInv, TypeOK
<1>9. segs[last] = Current /\ segs[last + 1] = Absent /\ Current.protocol # calls[c].target
  BY <1>1, <1>5 DEF IInv, TypeOK, Chain, Current, Refused
<1>10. \A x \in Segments, d \in Ids : segs'[x].actions[d] = segs[x].actions[d]
  BY <1>6, <1>7, <1>8, <1>9, AbsentType
<1>11. \A x \in Segments : segs'[x].decision = segs[x].decision
  BY <1>6, <1>7, <1>8, <1>9, AbsentType
<1>12. /\ pending' \in SUBSET (Segments \X Nat) /\ faults' \in 0..MaxFaults
       /\ faults' = 0 => faults = 0 /\ ok
  <2>1. {<<driver.seg, Ended(c).revision>>, <<last + 1, 0>>} \in SUBSET (Segments \X Nat)
    BY <1>5, <1>6 DEF Segment
  <2>2. faults' = 0 => ok
    BY <1>1 DEF IInv, TypeOK, Publish
  <2> QED BY <1>1, <2>1, <2>2, PublishType DEF IInv
<1>13. driver' \in Driver /\ driver'.up = driver.up
       /\ driver'.seg = IF ok THEN last + 1 ELSE last
  <2>1. driver \in Driver /\ last \in Nat /\ last + 1 \in Nat
    BY BoundsAssumption DEF IInv, TypeOK
  <2>2. driver' = [driver EXCEPT !.seg = IF ok THEN last + 1 ELSE driver.seg]
    BY <1>1 DEF Switched
  <2> QED BY <1>5, <2>1, <2>2 DEF Driver
<1>14. TypeOK'
  <2>1. last' \in 0..MaxSegments
    BY <1>1, BoundsAssumption DEF IInv, TypeOK
  <2>2. driver'.seg \in 0..last' /\ \A d \in Ids : calls'[d].seg \in 0..last'
    BY <1>1, <1>3, <1>13 DEF IInv, TypeOK
  <2> QED BY <1>1, <1>3, <1>8, <1>12, <1>13, <2>1, <2>2 DEF IInv, TypeOK
<1>15. Chain'
  <2>1. \A x \in Segments : x > last' => segs'[x] = Absent
    BY <1>1, <1>8 DEF IInv, TypeOK, Chain, Segments
  <2>2. \A x \in Segments : x <= last' => segs'[x].status # "absent"
    BY <1>1, <1>6, <1>7, <1>8 DEF IInv, TypeOK, Chain, Segments
  <2>3. ASSUME NEW x \in Segments, x < last'
        PROVE  /\ segs'[x].status # "active" /\ segs'[x].protocol # segs'[x + 1].protocol
               /\ faults' = 0 => segs'[x].status \in {"handed_off", "aborted"}
    <3>1. CASE x = last
      BY <3>1, <1>6, <1>7, <1>8, <1>9
    <3>2. CASE x # last
      <4>1. x < last /\ x + 1 <= last /\ x + 1 \in Segments /\ x # last + 1 /\ x + 1 # last + 1
        BY <1>1, <2>3, <3>2, BoundsAssumption DEF IInv, TypeOK, Segments
      <4>2. segs'[x] = segs[x] /\ segs'[x + 1].protocol = segs[x + 1].protocol
        BY <4>1, <3>2, <1>6, <1>8, <1>9
      <4> QED BY <4>1, <4>2, <1>12 DEF IInv, Chain
    <3> QED BY <3>1, <3>2
  <2>4. last' # 0
    BY <1>1 DEF IInv, TypeOK
  <2>5. last \in Nat /\ last' = last + 1 /\ (faults' = 0 => driver'.seg = last') /\ driver'.seg > 0
    BY <1>1, <1>4, <1>5, <1>12, <1>13, BoundsAssumption DEF IInv, TypeOK
  <2>6. \A x \in Segments : x < last' =>
          segs'[x].status # "active" /\ segs'[x].protocol # segs'[x + 1].protocol
    BY <2>3
  <2>7. faults' = 0 => \A x \in Segments : x < last' => segs'[x].status \in {"handed_off", "aborted"}
    BY <2>3
  <2>8. segs'[last'].status = "active"
    BY <1>1, <1>7, <1>8
  <2> QED BY <2>1, <2>2, <2>4, <2>5, <2>6, <2>7, <2>8 DEF Chain
<1>16. Records'
  <2>1. ASSUME NEW d \in Ids
        PROVE  /\ calls'[d].step \in {"unused", "entered"} =>
                    \A x \in Segments : segs'[x].actions[d] = "none"
               /\ calls'[d].step = "running" => segs'[calls'[d].seg].actions[d] = "requested"
               /\ calls'[d].step # "unused" => calls'[d].seg > 0
    <3>1. CASE d = c
      BY <3>1, <1>1, <1>3, InSegment
    <3>2. CASE d # c
      BY <3>2, <1>3, <1>10, InSegment DEF IInv, Records
    <3> QED BY <3>1, <3>2
  <2> QED BY <2>1 DEF Records
<1>17. BudgetHolds'
  <2>1. \A x \in Segments : Admitted(segs'[x]) = Admitted(segs[x])
    BY <1>10 DEF Admitted
  <2> QED BY <2>1 DEF IInv, BudgetHolds
<1>18. Completion'
  <2>1. final' = "no" => calls'[AnswerCall].step = "unused"
    <3>1. calls[c].step # "unused"
      BY <1>1
    <3> QED BY <1>1, <1>3, <3>1 DEF IInv, Completion, Ids
  <2>2. final' = "answering" => InFlight' \subseteq {AnswerCall}
    BY <1>1, <1>3 DEF IInv, Completion
  <2>3. row' = row /\ final' = final /\ ~(row = "suspended")
    BY <1>1 DEF IInv, Completion
  <2>4. \A x \in Segments : segs'[x].status # "terminal"
    BY <1>3, <1>6, <1>7, <1>8, InFlightUndecided DEF IInv, Completion
  <2>5. \A x \in Segments : segs'[x].decision = "none"
    BY <1>3, <1>11, InFlightUndecided
  <2>6. /\ final \notin {"proposing", "finalizing"} /\ row # "completed"
        /\ final = "answering" => row = "running"
    BY <1>3, InFlightUndecided DEF IInv, Completion
  <2> QED BY <2>1, <2>2, <2>3, <2>4, <2>5, <2>6 DEF Completion
<1>19. CompletedIsDecided'
  BY <1>1, <1>3, <1>11, InFlightUndecided DEF CompletedIsDecided
<1>20. SettledOnce
  BY <1>10 DEF SettledOnce
<1>21. EndedStays
  <2>1. Current.revision \in Nat /\ Absent.status = "absent" /\ Absent.revision = 0
    BY <1>4, AbsentType DEF Segment, Absent, NewSegment
  <2>2. Successor(c).revision \in Nat
    BY <1>7 DEF Segment
  <2>3. \A x \in Segments : segs[x].revision \in Nat
    BY DEF IInv, TypeOK, Segment
  <2> QED BY <1>1, <1>6, <1>8, <1>9, <2>1, <2>2, <2>3 DEF EndedStays
<1> QED BY <1>14, <1>15, <1>16, <1>17, <1>18, <1>19, <1>20, <1>21 DEF IInv

-----------------------------------------------------------------------------
(* Steps of the completion.                                                 *)

LEMMA TerminalType ==
  ASSUME NEW g \in Segment, NEW decision \in {"completed", "partial", "failed"}
  PROVE  /\ Terminal(g, decision) \in Segment
         /\ Terminal(g, decision).protocol = g.protocol
         /\ Terminal(g, decision).status = "terminal"
         /\ Terminal(g, decision).decision = decision
         /\ Terminal(g, decision).domain = g.domain
         /\ Terminal(g, decision).revision = g.revision + 1
         /\ \A c \in Ids : Terminal(g, decision).actions[c] = g.actions[c]
<1>1. /\ Bumped(g) \in Segment /\ Bumped(g).protocol = g.protocol
      /\ Bumped(g).domain = g.domain /\ Bumped(g).actions = g.actions
      /\ Bumped(g).revision = g.revision + 1
  BY DEF Bumped, Segment
<1> QED BY <1>1 DEF Terminal, Segment

\* Deciding the segment the closure drives, when no decision was taken before. The
\* parts of IInv that do not speak of the progress of the completion are kept.
LEMMA DecisionKeeps ==
  ASSUME IInv, driver.up, NEW ok \in BOOLEAN,
         NEW decision \in {"completed", "partial", "failed"},
         decision = "completed" => GoalsMet(Current),
         \A s \in Segments : segs[s].decision = "none",
         Commit(driver.seg, Terminal(Current, decision), ok),
         UNCHANGED <<last, driver, calls>>,
         row' \in {row, "failed"}, row = "running",
         final' \in {"finalizing", "done"}
  PROVE  /\ TypeOK' /\ Chain' /\ Records' /\ BudgetHolds'
         /\ segs'[driver.seg].decision = decision
         /\ \A s \in Segments : segs'[s].decision = "completed" => GoalsMet(segs'[s])
         /\ \A s \in Segments : segs'[s].status = "terminal" => segs'[s].decision # "none"
         /\ SettledOnce /\ EndedStays
<1> DEFINE g == Terminal(Current, decision)
<1>1. driver.seg \in 1..last /\ driver.seg \in Segments /\ Current \in Segment
  BY DriverSegment DEF Current
<1>2. /\ g \in Segment /\ g.protocol = Current.protocol /\ g.status = "terminal"
      /\ g.decision = decision /\ g.domain = Current.domain
      /\ g.revision = Current.revision + 1
      /\ \A c \in Ids : g.actions[c] = Current.actions[c]
  BY <1>1, TerminalType
<1> HIDE DEF g
<1>3. /\ segs' = [segs EXCEPT ![driver.seg] = g]
      /\ Publish({<<driver.seg, g.revision>>}, ok)
  BY DEF Commit, g
<1>4. /\ segs' \in [Segments -> Segment]
      /\ segs'[driver.seg] = g
      /\ \A x \in Segments \ {driver.seg} : segs'[x] = segs[x]
  BY <1>1, <1>2, <1>3 DEF IInv, TypeOK
<1>5. /\ pending' \in SUBSET (Segments \X Nat) /\ faults' \in 0..MaxFaults
      /\ faults' = 0 => faults = 0
  <2>1. {<<driver.seg, g.revision>>} \in SUBSET (Segments \X Nat)
    BY <1>1, <1>2 DEF Segment
  <2> QED BY <1>3, <2>1, PublishType DEF IInv
<1>6. TypeOK'
  BY <1>4, <1>5 DEF IInv, TypeOK
<1>7. \A x \in Segments : /\ segs'[x].protocol = segs[x].protocol
                          /\ \A d \in Ids : segs'[x].actions[d] = segs[x].actions[d]
  BY <1>2, <1>4 DEF Current
<1>8. Chain'
  <2>1. \A x \in Segments : x > last => segs'[x] = segs[x]
    BY <1>1, <1>4 DEF IInv, TypeOK, Segments
  <2>2. \A x \in Segments : x < last => x + 1 \in Segments
    BY BoundsAssumption DEF IInv, TypeOK, Segments
  <2>3. \A x \in Segments : x <= last => segs'[x].status # "absent"
    BY <1>2, <1>4 DEF IInv, Chain
  <2>4. \A x \in Segments : x < last =>
          segs'[x].status # "active" /\ segs'[x].protocol # segs'[x + 1].protocol
    BY <1>2, <1>4, <1>7, <2>2 DEF IInv, Chain
  <2>5. faults' = 0 => driver.seg = last
    BY <1>5 DEF IInv, Chain
  <2>6. faults' = 0 => \A x \in Segments : x < last => segs'[x].status \in {"handed_off", "aborted"}
    BY <1>1, <1>4, <1>5, <2>5 DEF IInv, Chain
  <2>7. last # 0 /\ segs'[last].status \in {"active", "terminal"}
    BY <1>1, <1>2, <1>4, BoundsAssumption DEF IInv, TypeOK, Chain, Segments
  <2> QED BY <2>1, <2>3, <2>4, <2>5, <2>6, <2>7 DEF IInv, Chain
<1>9. Records'
  <2>1. ASSUME NEW d \in Ids
        PROVE  /\ calls[d].step \in {"unused", "entered"} =>
                    \A x \in Segments : segs'[x].actions[d] = "none"
               /\ calls[d].step = "running" => segs'[calls[d].seg].actions[d] = "requested"
               /\ calls[d].step # "unused" => calls[d].seg > 0
    BY <1>7, InSegment DEF IInv, Records
  <2> QED BY <2>1 DEF Records
<1>10. BudgetHolds'
  <2>1. \A x \in Segments : Admitted(segs'[x]) = Admitted(segs[x])
    BY <1>7 DEF Admitted
  <2> QED BY <2>1 DEF IInv, BudgetHolds
<1>11. \A s \in Segments : segs'[s].decision = "completed" => GoalsMet(segs'[s])
  BY <1>2, <1>4 DEF GoalsMet
<1>12. SettledOnce
  BY <1>7 DEF SettledOnce
<1>13. EndedStays
  <2>1. \A x \in Segments : segs[x].revision \in Nat
    BY DEF IInv, TypeOK, Segment
  <2>2. faults = 0 => segs[driver.seg].status \notin {"handed_off", "aborted", "terminal"}
    BY <1>1 DEF IInv, TypeOK, Chain, Completion
  <2> QED BY <1>2, <1>4, <2>1, <2>2 DEF EndedStays, Current
<1>14. \A s \in Segments : segs'[s].status = "terminal" => segs'[s].decision # "none"
  BY <1>2, <1>4 DEF IInv, Completion
<1> QED BY <1>2, <1>4, <1>6, <1>8, <1>9, <1>10, <1>11, <1>12, <1>13, <1>14

LEMMA ProposeKeeps ==
  ASSUME IInv, NEW ok \in BOOLEAN, Propose(ok)
  PROVE  IInv' /\ SettledOnce /\ EndedStays
<1>1. /\ \A s \in Segments : segs[s].decision = "none"
      /\ InFlight = {} /\ row = "running" /\ driver.up
  BY DEF IInv, Completion, Propose
<1>2. Decision(Current) \in {"completed", "partial", "failed"}
      /\ (Decision(Current) = "completed" => GoalsMet(Current))
      /\ Decision(Current) # "failed"
  BY DEF Decision
<1>3. /\ Commit(driver.seg, Terminal(Current, Decision(Current)), ok)
      /\ UNCHANGED <<last, driver, calls>>
      /\ row' \in {row, "failed"} /\ final' \in {"finalizing", "done"}
      /\ final' = "finalizing" => row' = row
  BY DEF Propose, Fails
<1>4. /\ TypeOK' /\ Chain' /\ Records' /\ BudgetHolds'
      /\ segs'[driver.seg].decision = Decision(Current)
      /\ \A s \in Segments : segs'[s].decision = "completed" => GoalsMet(segs'[s])
      /\ \A s \in Segments : segs'[s].status = "terminal" => segs'[s].decision # "none"
      /\ SettledOnce /\ EndedStays
  BY <1>1, <1>2, <1>3, DecisionKeeps
<1>5. InFlight' = {}
  BY <1>1, <1>3 DEF InFlight
<1>6. Completion'
  BY <1>1, <1>2, <1>3, <1>4, <1>5 DEF Completion
<1>7. CompletedIsDecided'
  BY <1>1, <1>3, <1>4 DEF CompletedIsDecided, GoalsMet
<1> QED BY <1>4, <1>6, <1>7 DEF IInv

LEMMA FinishRejectedKeeps ==
  ASSUME IInv, NEW ok \in BOOLEAN, FinishRejected(ok)
  PROVE  IInv' /\ SettledOnce /\ EndedStays
<1>1. /\ driver.up /\ row = "running" /\ final = "no" /\ InFlight = {}
      /\ row' = "failed" /\ final' = "done" /\ UNCHANGED <<last, driver, calls>>
  BY DEF FinishRejected, Finished, Fails
<1>2. \A s \in Segments : segs[s].decision = "none"
  BY <1>1 DEF IInv, Completion
<1>3. InFlight' = {}
  BY <1>1 DEF InFlight
<1>4. CASE Commit(driver.seg, Terminal(Current, "failed"), ok)
  <2>1. /\ TypeOK' /\ Chain' /\ Records' /\ BudgetHolds'
        /\ segs'[driver.seg].decision = "failed"
        /\ \A s \in Segments : segs'[s].decision = "completed" => GoalsMet(segs'[s])
        /\ \A s \in Segments : segs'[s].status = "terminal" => segs'[s].decision # "none"
        /\ SettledOnce /\ EndedStays
    BY <1>1, <1>2, <1>4, DecisionKeeps
  <2>2. Completion' /\ CompletedIsDecided'
    BY <1>1, <1>3, <2>1 DEF Completion, CompletedIsDecided, GoalsMet
  <2> QED BY <2>1, <2>2 DEF IInv
<1>5. CASE UNCHANGED <<segs, pending, faults>>
  <2>1. TypeOK' /\ Records' /\ BudgetHolds'
    BY <1>1, <1>5 DEF IInv, TypeOK, Records, BudgetHolds
  <2>2. Chain'
    BY <1>1, <1>5 DEF IInv, Chain
  <2>3. Completion'
    BY <1>1, <1>2, <1>3, <1>5 DEF IInv, Completion
  <2>4. CompletedIsDecided'
    BY <1>1, <1>2, <1>5 DEF CompletedIsDecided
  <2>5. SettledOnce /\ EndedStays
    BY <1>5 DEF IInv, TypeOK, Segment, SettledOnce, EndedStays
  <2> QED BY <2>1, <2>2, <2>3, <2>4, <2>5 DEF IInv
<1> QED BY <1>4, <1>5 DEF FinishRejected

LEMMA FinishKeeps ==
  ASSUME IInv, FinishWithAnswer \/ FinishWithoutAnswer
  PROVE  IInv'
<1>1. /\ driver.up /\ row = "running" /\ final = "no" /\ InFlight = {}
      /\ final' \in {"answering", "proposing"}
      /\ UNCHANGED <<segs, last, driver, row, pending, faults>>
  BY DEF FinishWithAnswer, FinishWithoutAnswer, Finished
<1>2. \A s \in Segments : segs[s].decision = "none"
  BY <1>1 DEF IInv, Completion
<1>3. Chain' /\ BudgetHolds' /\ CompletedIsDecided'
  BY <1>1 DEF IInv, Chain, BudgetHolds, CompletedIsDecided
<1>4. CASE FinishWithoutAnswer
  <2>1. calls' = calls /\ final' = "proposing"
    BY <1>4 DEF FinishWithoutAnswer
  <2>2. TypeOK' /\ Records'
    BY <1>1, <2>1 DEF IInv, TypeOK, Records
  <2>3. Completion'
    BY <1>1, <1>2, <2>1 DEF IInv, Completion, InFlight
  <2> QED BY <1>3, <2>2, <2>3 DEF IInv
<1>5. CASE FinishWithAnswer
  <2>1. /\ final' = "answering" /\ AnswerCall \in Ids /\ driver.seg \in 1..last
        /\ calls[AnswerCall].step = "unused"
    BY <1>1, <1>5, DriverSegment DEF FinishWithAnswer, IInv, Completion, Ids
  <2>2. /\ calls' \in [Ids -> Call]
        /\ calls'[AnswerCall].step = "entered" /\ calls'[AnswerCall].seg = driver.seg
        /\ \A d \in Ids \ {AnswerCall} : calls'[d] = calls[d]
    BY <1>1, <1>5, <2>1 DEF FinishWithAnswer, IInv, TypeOK, Call, Names, Steps, Driver, Protocols
  <2>3. TypeOK'
    BY <1>1, <2>1, <2>2 DEF IInv, TypeOK
  <2>4. Records'
    BY <1>1, <2>1, <2>2 DEF IInv, Records
  <2>5. InFlight' \subseteq {AnswerCall}
    BY <1>1, <2>2 DEF InFlight
  <2>6. Completion'
    BY <1>1, <1>2, <2>1, <2>5 DEF IInv, Completion
  <2> QED BY <1>3, <2>3, <2>4, <2>6 DEF IInv
<1> QED BY <1>4, <1>5

LEMMA AnswerEndsKeeps == ASSUME IInv, AnswerEnds PROVE IInv'
<1>1. /\ final = "answering" /\ calls[AnswerCall].step \in {"returned", "threw"}
      /\ \/ final' = "proposing" /\ row' = row
         \/ final' = "done" /\ row' = "failed"
      /\ UNCHANGED <<segs, last, driver, calls, pending, faults>>
  BY DEF AnswerEnds, Fails
<1>2. /\ row = "running" /\ last # 0
      /\ \A s \in Segments : segs[s].decision = "none"
  BY <1>1 DEF IInv, Completion, Chain
<1>3. InFlight = {} /\ InFlight' = {}
  BY <1>1 DEF IInv, Completion, InFlight
<1>4. TypeOK' /\ Records' /\ BudgetHolds'
  BY <1>1 DEF IInv, TypeOK, Records, BudgetHolds
<1>5. Chain'
  BY <1>1, <1>2 DEF IInv, Chain
<1>6. Completion'
  BY <1>1, <1>2, <1>3 DEF IInv, Completion
<1>7. CompletedIsDecided'
  BY <1>1, <1>2 DEF CompletedIsDecided
<1> QED BY <1>4, <1>5, <1>6, <1>7 DEF IInv

LEMMA FinalizeKeeps == ASSUME IInv, Finalize PROVE IInv'
<1>1. /\ final = "finalizing" /\ final' = "done" /\ row' \in {"completed", "failed"}
      /\ UNCHANGED <<segs, last, driver, calls, pending, faults>>
  BY DEF Finalize
<1>2. last # 0 /\ segs[driver.seg].decision \in {"completed", "partial"} /\ InFlight = {}
  BY <1>1 DEF IInv, Completion, Chain
<1>3. TypeOK' /\ Records' /\ BudgetHolds'
  BY <1>1 DEF IInv, TypeOK, Records, BudgetHolds
<1>4. Chain'
  BY <1>1, <1>2 DEF IInv, Chain
<1>5. Completion'
  BY <1>1, <1>2 DEF IInv, Completion, InFlight
<1>6. CompletedIsDecided'
  BY <1>1, <1>2 DEF IInv, CompletedIsDecided
<1> QED BY <1>3, <1>4, <1>5, <1>6 DEF IInv

-----------------------------------------------------------------------------
(* The invariant and the theorems.                                          *)

LEMMA InitHolds == ASSUME Init PROVE IInv
<1>1. segs \in [Segments -> Segment] /\ \A s \in Segments : segs[s] = Absent
  BY AbsentType DEF Init
<1>2. TypeOK
  <2>1. NoCall \in Call
    BY DEF NoCall, Call, Names, Protocols, Steps
  <2>2. NoDriver \in Driver /\ NoDriver.seg = 0
    BY DEF NoDriver, Driver
  <2>3. \A c \in Ids : calls[c] = NoCall /\ NoCall.seg = 0
    BY DEF Init, NoCall
  <2> QED BY <1>1, <2>1, <2>2, <2>3, BoundsAssumption DEF Init, TypeOK
<1>3. Chain
  BY <1>1 DEF Init, Chain, Segments, NoDriver
<1>4. Records
  BY <1>1, AbsentType DEF Init, Records, NoCall
<1>5. BudgetHolds
  <2>1. \A s \in Segments : Admitted(segs[s]) = {}
    BY <1>1, AbsentType DEF Admitted
  <2> QED BY <2>1, FS_EmptySet, BoundsAssumption DEF BudgetHolds
<1>6. \A s \in Segments : segs[s].decision = "none" /\ segs[s].status # "terminal"
  BY <1>1, AbsentType
<1>7. Completion /\ CompletedIsDecided
  BY <1>6 DEF Init, Completion, CompletedIsDecided, NoCall, Ids
<1> QED BY <1>2, <1>3, <1>4, <1>5, <1>7 DEF IInv

\* Steps that leave the segments alone satisfy the action properties.
LEMMA UnchangedSegments ==
  ASSUME IInv, UNCHANGED segs
  PROVE  SettledOnce /\ EndedStays
  BY DEF IInv, TypeOK, Segment, SettledOnce, EndedStays

LEMMA StartSettles == ASSUME IInv, Start PROVE SettledOnce /\ EndedStays
<1>1. PICK p \in Protocols : segs' = [segs EXCEPT ![1] = NewSegment(p, 1)]
  BY DEF Start
<1>2. 1 \in Segments /\ segs[1] = Absent /\ segs'[1] = NewSegment(p, 1)
      /\ \A x \in Segments \ {1} : segs'[x] = segs[x]
  BY <1>1, BoundsAssumption DEF IInv, TypeOK, Chain, Segments, Start
<1>3. NewSegment(p, 1).revision = 0 /\ Absent.revision = 0 /\ Absent.status = "absent"
  BY DEF NewSegment, Absent
<1>4. \A x \in Segments : segs[x].revision \in Nat
  BY DEF IInv, TypeOK, Segment
<1>5. SettledOnce
  BY <1>2, AbsentType DEF SettledOnce, Settled
<1>6. EndedStays
  BY <1>2, <1>3, <1>4 DEF EndedStays
<1> QED BY <1>5, <1>6

LEMMA NextKeeps == ASSUME IInv, Next PROVE IInv' /\ SettledOnce /\ EndedStays
<1>1. CASE Start
  BY <1>1, StartKeeps, StartSettles
<1>2. CASE Flush
  BY <1>2, FlushKeeps, UnchangedSegments DEF Flush
<1>3. CASE Suspend
  BY <1>3, SuspendKeeps, UnchangedSegments DEF Suspend
<1>4. CASE Resume
  BY <1>4, ResumeKeeps, UnchangedSegments DEF Resume
<1>5. CASE Abort
  BY <1>5, AbortKeeps, UnchangedSegments DEF Abort
<1>6. CASE Crash
  BY <1>6, CrashKeeps, UnchangedSegments DEF Crash
<1>7. ASSUME NEW c \in Calls, Enter(c)
      PROVE  IInv' /\ SettledOnce /\ EndedStays
  BY <1>7, EnterKeeps, UnchangedSegments DEF Enter
<1>8. ASSUME NEW c \in Ids, Route(c)
      PROVE  IInv' /\ SettledOnce /\ EndedStays
  <2>1. PICK g \in Segment, st \in Steps, ok \in BOOLEAN :
          RouteEffect(c, g, st) /\ Publish({<<calls[c].seg, g.revision>>}, ok)
    BY <1>8, RouteHasEffect
  <2> QED BY <2>1, RouteKeeps, RouteSettles
<1>9. ASSUME NEW c \in Ids, Handoff(c)
      PROVE  IInv' /\ SettledOnce /\ EndedStays
  <2>1. CASE ExtractionFails(c) \/ HandoffThrows(c)
    BY <2>1, ExtractionFailsKeeps, UnchangedSegments DEF ExtractionFails, HandoffThrows
  <2>2. ASSUME NEW ok \in BOOLEAN, HandoffRefused(c, ok)
        PROVE  IInv' /\ SettledOnce /\ EndedStays
    BY <2>2, HandoffRefusedKeeps
  <2>3. ASSUME NEW ok \in BOOLEAN, HandoffAccepted(c, ok)
        PROVE  IInv' /\ SettledOnce /\ EndedStays
    BY <2>3, HandoffAcceptedKeeps
  <2> QED BY <1>9, <2>1, <2>2, <2>3 DEF Handoff
<1>10. CASE Complete
  <2>1. CASE FinishWithAnswer \/ FinishWithoutAnswer
    BY <2>1, FinishKeeps, UnchangedSegments DEF FinishWithAnswer, FinishWithoutAnswer
  <2>2. CASE AnswerEnds
    BY <2>2, AnswerEndsKeeps, UnchangedSegments DEF AnswerEnds
  <2>3. CASE Finalize
    BY <2>3, FinalizeKeeps, UnchangedSegments DEF Finalize
  <2>4. ASSUME NEW ok \in BOOLEAN, FinishRejected(ok)
        PROVE  IInv' /\ SettledOnce /\ EndedStays
    BY <2>4, FinishRejectedKeeps
  <2>5. ASSUME NEW ok \in BOOLEAN, Propose(ok)
        PROVE  IInv' /\ SettledOnce /\ EndedStays
    BY <2>5, ProposeKeeps
  <2> QED BY <1>10, <2>1, <2>2, <2>3, <2>4, <2>5 DEF Complete
<1> QED BY <1>1, <1>2, <1>3, <1>4, <1>5, <1>6, <1>7, <1>8, <1>9, <1>10 DEF Next

LEMMA StutterKeeps ==
  ASSUME IInv, UNCHANGED vars
  PROVE  IInv' /\ SettledOnce /\ EndedStays
<1>1. IInv'
  BY DEF vars, IInv, TypeOK, Chain, Records, BudgetHolds, Completion, InFlight, CompletedIsDecided
<1> QED BY <1>1, UnchangedSegments DEF vars

\* IInv holds in every state of the specification, for all values of the constants.
THEOREM SegmentInvariance == Spec => []IInv
<1>1. IInv /\ [Next]_vars => IInv'
  BY NextKeeps, StutterKeeps
<1> QED BY <1>1, InitHolds, PTL DEF Spec

\* Type correctness of ProtocolSegments.
THEOREM SegmentTypes == Spec => []TypeOK
  BY SegmentInvariance, PTL DEF IInv

\* The segments form a chain that the live closure follows while no sink throws.
THEOREM SegmentsFormAChain == Spec => []SegmentChain
<1>1. IInv => SegmentChain
  BY AbsentType DEF IInv, TypeOK, Chain, SegmentChain, Segments
<1> QED BY <1>1, SegmentInvariance, PTL

\* No segment admits more actions than maxActions, however calls interleave.
THEOREM BudgetIsKept == Spec => []BudgetHolds
  BY SegmentInvariance, PTL DEF IInv

\* A completed row has a decision, and "completed" is decided only with the goals met.
THEOREM CompletionsAreDecided == Spec => []CompletedIsDecided
  BY SegmentInvariance, PTL DEF IInv

\* A settled action record never changes.
THEOREM ResultsAreRecordedOnce == Spec => ActionsSettleOnce
<1>1. IInv /\ [Next]_vars => [SettledOnce]_vars
  BY NextKeeps
<1> QED BY <1>1, SegmentInvariance, PTL DEF Spec, ActionsSettleOnce

\* An ended segment keeps its status and decision, and every change is a new revision.
THEOREM EndedSegmentsStay == Spec => EndedSegmentsStayEnded
<1>1. IInv /\ [Next]_vars => [EndedStays]_vars
  BY NextKeeps
<1> QED BY <1>1, SegmentInvariance, PTL DEF Spec, EndedSegmentsStayEnded

-----------------------------------------------------------------------------
(* The second invariant: what late results, refused data actions and       *)
(* undelivered events leave behind.                                         *)

\* Only a handoff goes on to afterAction, and the answer action is neither a handoff nor
\* a data action.
Roles ==
  /\ \A c \in Ids : calls[c].step \in {"extracting", "switching"} => calls[c].name = "handoff"
  /\ calls[AnswerCall].name \in {"work", "answer"}

\* A segment in which the schema was inspected holds the data action that did it.
Inspections == \A s \in Segments : segs[s].domain.inspected => DataSucceeded(segs[s])

\* The run completes: completeProtocolRun has passed its check for refused data actions.
Completing == final \in {"answering", "proposing", "finalizing"} \/ row = "completed"

\* The check holds from then on: nothing refuses a data action in the segment that ends.
Unlaundered ==
  faults = 0 /\ Completing /\ segs[last].protocol = "general-task" => ~DataRejected(segs[last])

\* Events are left behind only while the stream has not started, or by a throwing sink.
Deferred ==
  /\ faults = 0 /\ driver.ready => pending = {}
  /\ Completing => driver.ready

JInv == Roles /\ Inspections /\ Unlaundered /\ Deferred /\ StrictSegmentsEndResolved

-----------------------------------------------------------------------------
(* What the calls do under the second invariant.                            *)

\* A call keeps the name it was made with.
NamesStay == \A d \in Ids : calls[d].step # "unused" => calls'[d].name = calls[d].name

LEMMA RouteStep ==
  ASSUME NEW c \in Ids, Route(c)
  PROVE  \E st \in Steps :
           Goes(c, st) /\ (st \in {"extracting", "switching"} => calls[c].name = "handoff")
<1>1. CASE FailureRecorded(c)
  BY <1>1 DEF FailureRecorded, Steps
<1>2. ASSUME NEW ok \in BOOLEAN, Begin(c, ok) PROVE Goes(c, "running") \/ Goes(c, "threw")
  BY <1>2 DEF Begin
<1>3. ASSUME NEW ok \in BOOLEAN, ToolFails(c, ok) \/ ResultRefused(c, ok) PROVE Goes(c, "threw")
  BY <1>3 DEF ToolFails, ResultRefused
<1>4. ASSUME NEW ok \in BOOLEAN, ToolSucceeds(c, ok)
      PROVE  \/ Goes(c, "faulted") \/ Goes(c, "returned")
             \/ calls[c].name = "handoff" /\ (Goes(c, "extracting") \/ Goes(c, "switching"))
  BY <1>4 DEF ToolSucceeds
<1> QED BY <1>1, <1>2, <1>3, <1>4 DEF Route, Steps

\* Call c goes on, and the other calls stay.
LEMMA GoesKeepsRoles ==
  ASSUME TypeOK, Roles, NEW c \in Ids, NEW st \in Steps, Goes(c, st),
         st \in {"extracting", "switching"} => calls[c].name = "handoff"
  PROVE  Roles' /\ NamesStay
<1>1. /\ calls'[c].step = st /\ calls'[c].name = calls[c].name
      /\ \A d \in Ids \ {c} : calls'[d] = calls[d]
  BY GoesType
<1> QED BY <1>1 DEF Roles, NamesStay, Ids

LEMMA EnterKeepsRoles ==
  ASSUME TypeOK, Roles, NEW c \in Ids, NEW name \in Names, calls[c].step = "unused",
         NEW target \in Protocols,
         calls' = [calls EXCEPT ![c] = [name |-> name, seg |-> driver.seg,
                                        target |-> target, step |-> "entered"]],
         c = AnswerCall => name = "answer"
  PROVE  /\ Roles' /\ NamesStay
         /\ calls'[c].name = name /\ \A d \in Ids \ {c} : calls'[d] = calls[d]
<1>1. /\ calls'[c].step = "entered" /\ calls'[c].name = name
      /\ \A d \in Ids \ {c} : calls'[d] = calls[d]
  BY DEF TypeOK
<1> QED BY <1>1 DEF Roles, NamesStay, Ids

LEMMA CallsKeep ==
  ASSUME IInv, Roles, Next
  PROVE  Roles' /\ NamesStay
<1>1. TypeOK
  BY DEF IInv
<1>2. CASE UNCHANGED calls
  BY <1>2 DEF Roles, NamesStay
<1>3. CASE Crash
  <2>1. \A d \in Ids : /\ calls'[d].name = calls[d].name
                       /\ calls'[d].step \in {calls[d].step, "lost"}
    BY <1>1, <1>3 DEF Crash, TypeOK, At, Call
  <2> QED BY <2>1 DEF Roles, NamesStay, Ids
<1>4. ASSUME NEW c \in Calls, Enter(c)
      PROVE  Roles' /\ NamesStay
  <2>1. PICK name \in Names \ {"answer"}, target \in Protocols :
          calls' = [calls EXCEPT ![c] = [name |-> name, seg |-> driver.seg,
                                         target |-> target, step |-> "entered"]]
    BY <1>4 DEF Enter
  <2>2. c \in Ids /\ c # AnswerCall /\ calls[c].step = "unused"
    BY <1>4, CallsAssumption DEF Ids, Enter
  <2> QED BY <1>1, <2>1, <2>2, EnterKeepsRoles
<1>5. ASSUME NEW c \in Ids, Route(c)
      PROVE  Roles' /\ NamesStay
  BY <1>1, <1>5, RouteStep, GoesKeepsRoles
<1>6. ASSUME NEW c \in Ids, Handoff(c)
      PROVE  Roles' /\ NamesStay
  <2>1. Goes(c, "returned") \/ Goes(c, "threw")
    BY <1>6 DEF Handoff, ExtractionFails, HandoffThrows, HandoffRefused, HandoffAccepted, Came
  <2> QED BY <1>1, <2>1, GoesKeepsRoles DEF Steps
<1>7. CASE FinishWithAnswer
  <2>1. /\ AnswerCall \in Ids /\ calls[AnswerCall].step = "unused" /\ "answer" \in Names
        /\ "general-task" \in Protocols
    BY <1>7 DEF FinishWithAnswer, Finished, IInv, Completion, Ids, Names, Protocols
  <2> QED BY <1>1, <1>7, <2>1, EnterKeepsRoles DEF FinishWithAnswer
<1> QED BY <1>2, <1>3, <1>4, <1>5, <1>6, <1>7
    DEF Next, Start, Flush, Suspend, Resume, Abort, Complete, FinishWithoutAnswer, AnswerEnds,
        Finalize, FinishRejected, Propose

-----------------------------------------------------------------------------
(* What is left in the journal.                                             *)

\* A commit leaves its events behind only while the stream has not started, or with a fault.
LEMMA PublishDefers ==
  ASSUME IInv, Deferred, NEW commits, NEW ok \in BOOLEAN, Publish(commits, ok)
  PROVE  faults' = 0 /\ driver.ready => pending' = {}
  BY BoundsAssumption DEF IInv, TypeOK, Deferred, Publish

LEMMA RouteDefers ==
  ASSUME IInv, Deferred, NEW c \in Ids, Route(c)
  PROVE  Deferred'
<1>1. PICK g \in Segment, st \in Steps, ok \in BOOLEAN :
        RouteEffect(c, g, st) /\ Publish({<<calls[c].seg, g.revision>>}, ok)
  BY RouteHasEffect
<1>2. UNCHANGED <<driver, row, final>>
  BY <1>1 DEF RouteEffect
<1>3. faults' = 0 /\ driver.ready => pending' = {}
  BY <1>1, PublishDefers
<1> QED BY <1>2, <1>3 DEF Deferred, Completing

LEMMA HandoffDefers ==
  ASSUME IInv, Deferred, NEW c \in Ids, Handoff(c)
  PROVE  Deferred'
<1>1. CASE UNCHANGED <<driver, row, final, pending, faults>>
  BY <1>1 DEF Deferred, Completing
<1>2. ASSUME NEW ok \in BOOLEAN, HandoffRefused(c, ok)
      PROVE  Deferred'
  <2>1. UNCHANGED <<driver, row, final>>
    BY <1>2 DEF HandoffRefused
  <2>2. faults' = 0 /\ driver.ready => pending' = {}
    BY <1>2, PublishDefers DEF HandoffRefused, Commit
  <2> QED BY <2>1, <2>2 DEF Deferred, Completing
<1>3. ASSUME NEW ok \in BOOLEAN, HandoffAccepted(c, ok)
      PROVE  Deferred'
  <2>1. UNCHANGED <<row, final>> /\ driver'.ready = driver.ready
    BY <1>3 DEF HandoffAccepted, Switched, IInv, TypeOK, Driver
  <2>2. faults' = 0 /\ driver.ready => pending' = {}
    BY <1>3, PublishDefers DEF HandoffAccepted
  <2> QED BY <2>1, <2>2 DEF Deferred, Completing
<1> QED BY <1>1, <1>2, <1>3 DEF Handoff, ExtractionFails, HandoffThrows

LEMMA CompleteDefers ==
  ASSUME IInv, Deferred, Complete
  PROVE  Deferred'
<1>1. driver' = driver
  BY DEF Complete, FinishWithAnswer, FinishWithoutAnswer, AnswerEnds, Finalize, FinishRejected, Propose
<1>2. driver.ready
  BY DEF Complete, FinishWithAnswer, FinishWithoutAnswer, AnswerEnds, Finalize, FinishRejected,
         Propose, Finished, Deferred, Completing
<1>3. faults' = 0 => pending' = {}
  <2>1. CASE UNCHANGED <<pending, faults>>
    BY <1>2, <2>1 DEF Deferred
  <2>2. ASSUME NEW ok \in BOOLEAN, Propose(ok)
        PROVE  faults' = 0 => pending' = {}
    BY <1>2, <2>2, PublishDefers DEF Propose, Commit
  <2>3. ASSUME NEW ok \in BOOLEAN, FinishRejected(ok)
        PROVE  faults' = 0 => pending' = {}
    <3>1. CASE Commit(driver.seg, Terminal(Current, "failed"), ok)
      BY <1>2, <3>1, PublishDefers DEF Commit
    <3> QED BY <2>1, <2>3, <3>1 DEF FinishRejected
  <2> QED BY <2>1, <2>2, <2>3 DEF Complete, FinishWithAnswer, FinishWithoutAnswer, AnswerEnds, Finalize
<1> QED BY <1>1, <1>2, <1>3 DEF Deferred

LEMMA DeferredKeeps ==
  ASSUME IInv, Deferred, Next
  PROVE  Deferred'
<1>1. CASE Start
  <2>1. driver'.ready = FALSE /\ row' = "running" /\ final' = "no"
    BY <1>1 DEF Start, IInv, Chain
  <2> QED BY <2>1 DEF Deferred, Completing
<1>2. CASE Flush
  <2>1. driver'.ready /\ pending' = {}
    BY <1>2 DEF Flush, IInv, TypeOK, Driver
  <2> QED BY <2>1 DEF Deferred
<1>3. CASE Suspend \/ Crash
  <2>1. driver'.ready = driver.ready /\ UNCHANGED <<pending, faults>>
    BY <1>3 DEF Suspend, Crash, IInv, TypeOK, Driver
  <2>2. Completing' => Completing
    BY <1>3 DEF Suspend, Crash, Completing
  <2> QED BY <2>1, <2>2 DEF Deferred
<1>4. CASE Resume
  <2>1. pending' = {} /\ final' = "no" /\ row' = "running"
    BY <1>4 DEF Resume, IInv, Completion
  <2> QED BY <2>1 DEF Deferred, Completing
<1>5. CASE Abort
  BY <1>5 DEF Abort, Deferred, Completing
<1>6. ASSUME NEW c \in Calls, Enter(c)
      PROVE  Deferred'
  BY <1>6 DEF Enter, Deferred, Completing
<1> QED BY <1>1, <1>2, <1>3, <1>4, <1>5, <1>6, RouteDefers, HandoffDefers, CompleteDefers DEF Next

-----------------------------------------------------------------------------
(* What the segments keep under the second invariant.                       *)

\* A step inspects the schema only by a data action it records as succeeded.
NewlyInspected ==
  \A x \in Segments :
    segs'[x].domain.inspected => segs[x].domain.inspected \/ DataSucceeded(segs[x])'

\* A segment that ends a handoff or a completion stays as it is.
SegmentStays(x) ==
  /\ segs'[x].protocol = segs[x].protocol /\ segs'[x].status = segs[x].status
  /\ segs'[x].domain.inspected <=> segs[x].domain.inspected
  /\ segs'[x].domain.resolved <=> segs[x].domain.resolved

LEMMA InspectionsKeep ==
  ASSUME IInv, Inspections, SettledOnce, NamesStay, NewlyInspected
  PROVE  Inspections'
<1> SUFFICES ASSUME NEW x \in Segments, segs'[x].domain.inspected
             PROVE  DataSucceeded(segs[x])'
  BY DEF Inspections
<1>1. CASE segs[x].domain.inspected
  <2>1. PICK d \in Ids : calls[d].name = "data" /\ segs[x].actions[d] = "succeeded"
    BY <1>1 DEF Inspections, DataSucceeded
  <2>2. calls'[d].name = "data"
    BY <2>1 DEF IInv, Records, NamesStay
  <2>3. segs'[x].actions[d] = "succeeded"
    BY <2>1 DEF SettledOnce, Settled
  <2> QED BY <2>2, <2>3 DEF DataSucceeded
<1> QED BY <1>1 DEF NewlyInspected

\* The segment before the last one is data-analysis only if the last one, which the
\* live closure drives, is general-task: a step that leaves it alone in that case keeps
\* its goals.
LEMMA StrictKeeps ==
  ASSUME IInv, IInv', StrictSegmentsEndResolved, last' = last, faults' = 0 => faults = 0,
         faults = 0 /\ last > 1 /\ last - 1 \in Segments
           /\ segs[last].protocol = "general-task" /\ segs'[last - 1].protocol = "data-analysis"
           => SegmentStays(last - 1),
         segs'[last].protocol = segs[last].protocol
  PROVE  StrictSegmentsEndResolved'
<1> SUFFICES ASSUME faults' = 0, last > 1, segs'[last - 1].protocol = "data-analysis"
             PROVE  /\ segs'[last - 1].status = "handed_off" => segs'[last - 1].domain.resolved
                    /\ segs'[last - 1].status = "aborted" => ~segs'[last - 1].domain.inspected
  BY DEF StrictSegmentsEndResolved
<1>1. last \in Segments /\ last - 1 \in Segments /\ last - 1 < last /\ (last - 1) + 1 = last
  BY BoundsAssumption DEF IInv, TypeOK, Segments
<1>2. segs'[last].protocol = "general-task"
  <2>1. segs'[last - 1].protocol # segs'[last].protocol /\ segs'[last].protocol \in Protocols
    BY <1>1 DEF IInv, TypeOK, Chain, Segment
  <2> QED BY <2>1 DEF Protocols
<1>3. SegmentStays(last - 1)
  BY <1>1, <1>2
<1> QED BY <1>3 DEF SegmentStays, StrictSegmentsEndResolved

-----------------------------------------------------------------------------
(* Steps of the router.                                                     *)

\* What call c makes of the domain of its segment.
DomainEffect(c) ==
  LET s == segs[calls[c].seg]
      g == segs'[calls[c].seg]
  IN  /\ g.domain.inspected =>
           s.domain.inspected \/ (calls[c].name = "data" /\ g.actions[c] = "succeeded")
      /\ ActiveProtocol = "general-task" =>
           /\ g.domain.inspected <=> s.domain.inspected
           /\ g.domain.resolved <=> s.domain.resolved

LEMMA SameDomain ==
  ASSUME IInv, NEW c \in Ids, calls[c].step # "unused", NEW g \in Segment,
         segs' = [segs EXCEPT ![calls[c].seg] = g],
         g.domain = segs[calls[c].seg].domain
  PROVE  DomainEffect(c)
<1>1. segs'[calls[c].seg] = g
  BY InSegment DEF IInv, TypeOK
<1> QED BY <1>1 DEF DomainEffect

LEMMA SucceedDomain ==
  ASSUME IInv, NEW c \in Ids, NEW ok \in BOOLEAN, ToolSucceeds(c, ok)
  PROVE  DomainEffect(c)
<1> DEFINE s == segs[calls[c].seg]
<1>1. PICK d \in Reductions(ActiveProtocol, s.domain, calls[c].name) :
        Commit(calls[c].seg, Succeeded(s, c, d), ok)
  BY DEF ToolSucceeds
<1>2. s \in Segment /\ calls[c].seg \in Segments /\ driver.seg \in Segments
  BY InSegment, DriverSegment DEF ToolSucceeds
<1>3. /\ d \in Domain
      /\ d.inspected =>
           s.domain.inspected \/ (ActiveProtocol = "data-analysis" /\ calls[c].name = "data")
      /\ ActiveProtocol = "general-task" =>
           d.inspected = s.domain.inspected /\ d.resolved = s.domain.resolved
  BY <1>1 DEF Reductions
<1> DEFINE g == Succeeded(s, c, d)
<1>4. g.domain = d /\ g.actions[c] = "succeeded" /\ g \in Segment
  BY <1>2, <1>3, SucceededType DEF IInv, Amends
<1>5. segs'[calls[c].seg] = g
  BY <1>1, <1>2 DEF Commit, IInv, TypeOK
<1> QED BY <1>3, <1>4, <1>5 DEF DomainEffect

LEMMA RouteDomain ==
  ASSUME IInv, NEW c \in Ids, Route(c)
  PROVE  DomainEffect(c)
<1>1. CASE FailureRecorded(c)
  <2>1. calls[c].step # "unused" /\ segs[calls[c].seg] \in Segment
    BY <1>1, InSegment DEF FailureRecorded
  <2> QED BY <1>1, <2>1, FailedType, SameDomain DEF FailureRecorded, Commit, Amends
<1>2. ASSUME NEW ok \in BOOLEAN, ToolFails(c, ok) \/ ResultRefused(c, ok)
      PROVE  DomainEffect(c)
  <2>1. calls[c].step # "unused" /\ segs[calls[c].seg] \in Segment
    BY <1>2, InSegment DEF ToolFails, ResultRefused
  <2> QED BY <1>2, <2>1, FailedType, SameDomain DEF ToolFails, ResultRefused, Commit, Amends
<1>3. ASSUME NEW ok \in BOOLEAN, Begin(c, ok)
      PROVE  DomainEffect(c)
  <2>1. calls[c].step # "unused" /\ segs[calls[c].seg] \in Segment
    BY <1>3, InSegment DEF Begin
  <2>2. PICK status \in Admissions(segs[calls[c].seg], calls[c].name) :
          segs' = [segs EXCEPT ![calls[c].seg] =
                     Bumped(WithStatus(segs[calls[c].seg], c, status))]
    BY <1>3 DEF Begin, Commit
  <2>3. status \in {"requested"} \cup Settled
    BY DEF Admissions, Settled
  <2> QED BY <2>1, <2>2, <2>3, StatusType, SameDomain DEF Amends
<1> QED BY <1>1, <1>2, <1>3, SucceedDomain DEF Route

LEMMA RouteKeepsJ ==
  ASSUME IInv, JInv, NEW c \in Ids, Route(c), IInv', Roles', NamesStay
  PROVE  NewlyInspected /\ StrictSegmentsEndResolved' /\ Unlaundered'
<1>1. PICK g \in Segment, st \in Steps, ok \in BOOLEAN :
        RouteEffect(c, g, st) /\ Publish({<<calls[c].seg, g.revision>>}, ok)
  BY RouteHasEffect
<1>2. /\ calls[c].step # "unused" /\ calls[c].seg \in Segments /\ driver.up
      /\ UNCHANGED <<last, driver, row, final>> /\ c \in InFlight
  BY <1>1, InSegment DEF RouteEffect, Progress, InFlight
<1>3. /\ segs'[calls[c].seg] = g
      /\ \A x \in Segments \ {calls[c].seg} : segs'[x] = segs[x]
  BY <1>1, <1>2 DEF IInv, TypeOK, RouteEffect
<1>4. \A x \in Segments : /\ segs'[x].protocol = segs[x].protocol
                          /\ segs'[x].status = segs[x].status
                          /\ \A d \in Ids \ {c} : segs'[x].actions[d] = segs[x].actions[d]
  BY <1>1, <1>3 DEF RouteEffect, Amends
<1>5. DomainEffect(c)
  BY RouteDomain
<1>6. faults' = 0 => faults = 0
  BY <1>1, RouteTypes
<1>7. NewlyInspected
  <2>1. ASSUME NEW x \in Segments, x = calls[c].seg, segs'[x].domain.inspected
        PROVE  segs[x].domain.inspected \/ DataSucceeded(segs[x])'
    BY <2>1, <1>2, <1>5 DEF DomainEffect, DataSucceeded, NamesStay
  <2> QED BY <1>3, <2>1 DEF NewlyInspected
<1>8. StrictSegmentsEndResolved'
  <2>1. ASSUME faults = 0, last > 1, last - 1 \in Segments, segs[last].protocol = "general-task"
        PROVE  SegmentStays(last - 1)
    <3>1. ActiveProtocol = "general-task"
      BY <1>2, <2>1 DEF IInv, Chain, ActiveProtocol
    <3> QED BY <1>3, <1>4, <1>5, <2>1, <3>1 DEF SegmentStays, DomainEffect
  <2>2. segs'[last].protocol = segs[last].protocol
    BY <1>2, <1>4, DriverSegment, BoundsAssumption DEF IInv, TypeOK, Segments
  <2> QED BY <1>2, <1>6, <2>1, <2>2, StrictKeeps DEF JInv
<1>9. Unlaundered'
  <2> SUFFICES ASSUME faults' = 0, Completing', segs'[last'].protocol = "general-task"
               PROVE  ~DataRejected(segs[last])'
    BY DEF Unlaundered
  <2>1. final = "answering" /\ c = AnswerCall
    BY <1>2, InFlightUndecided DEF Completing, IInv, Completion
  <2>2. calls[c].name # "data" /\ calls'[c].name = calls[c].name
    BY <1>2, <2>1 DEF JInv, Roles, NamesStay
  <2>3. last \in Segments
    BY <1>2, DriverSegment, BoundsAssumption DEF IInv, TypeOK, Segments
  <2>4. ~DataRejected(segs[last])
    BY <1>2, <1>4, <1>6, <2>1, <2>3 DEF JInv, Unlaundered, Completing
  <2>5. \A d \in Ids \ {c} : segs[last].actions[d] # "none" => calls'[d].name = calls[d].name
    BY <2>3 DEF IInv, Records, NamesStay
  <2> QED BY <1>2, <1>4, <2>2, <2>3, <2>4, <2>5 DEF DataRejected
<1> QED BY <1>7, <1>8, <1>9

-----------------------------------------------------------------------------
(* Steps that keep the domains of the segments.                             *)

LEMMA LastSegment ==
  ASSUME IInv, Completing
  PROVE  last \in Segments
  BY BoundsAssumption DEF IInv, TypeOK, Chain, Segments, Completing

\* Nothing is recorded, and at most the last segment is decided.
LEMMA SameDomains ==
  ASSUME IInv, IInv', JInv, NamesStay, last' = last, faults' = 0 => faults = 0,
         \A x \in Segments : /\ segs'[x].protocol = segs[x].protocol
                             /\ segs'[x].domain = segs[x].domain
                             /\ \A d \in Ids : segs'[x].actions[d] = segs[x].actions[d],
         faults = 0 => \A x \in Segments \ {last} : segs'[x].status = segs[x].status,
         Completing' /\ faults = 0 /\ segs[last].protocol = "general-task"
           => ~DataRejected(segs[last])
  PROVE  NewlyInspected /\ StrictSegmentsEndResolved' /\ Unlaundered'
<1>1. NewlyInspected
  BY DEF NewlyInspected
<1>2. last > 1 => last \in Segments
  BY BoundsAssumption DEF IInv, TypeOK, Segments
<1>3. StrictSegmentsEndResolved'
  <2>1. CASE last > 1
    <3>1. last \in Segments /\ last - 1 # last
      BY <1>2, <2>1, BoundsAssumption DEF IInv, TypeOK
    <3>2. faults = 0 /\ last - 1 \in Segments => SegmentStays(last - 1)
      BY <3>1 DEF SegmentStays
    <3>3. segs'[last].protocol = segs[last].protocol
      BY <3>1
    <3> QED BY <3>2, <3>3, StrictKeeps DEF JInv
  <2> QED BY <2>1 DEF StrictSegmentsEndResolved
<1>4. Unlaundered'
  <2> SUFFICES ASSUME faults' = 0, Completing', segs'[last'].protocol = "general-task",
                      NEW d \in Ids, calls'[d].name = "data", segs'[last'].actions[d] = "rejected"
               PROVE  FALSE
    BY DEF Unlaundered, DataRejected
  <2>1. last \in Segments
    <3>1. last' \in Segments
      BY BoundsAssumption DEF IInv, TypeOK, Chain, Segments, Completing
    <3> QED BY <3>1
  <2>2. segs[last].actions[d] = "rejected" /\ segs[last].protocol = "general-task"
    BY <2>1
  <2>3. calls[d].name = "data"
    BY <2>1, <2>2 DEF IInv, Records, NamesStay
  <2> QED BY <2>2, <2>3 DEF DataRejected
<1> QED BY <1>1, <1>3, <1>4

\* The common case: the segments are not written, and the completion does not begin.
LEMMA SameSegments ==
  ASSUME IInv, IInv', JInv, NamesStay, UNCHANGED <<segs, last, faults>>, Completing' => Completing
  PROVE  NewlyInspected /\ StrictSegmentsEndResolved' /\ Unlaundered'
<1>1. Completing' /\ faults = 0 /\ segs[last].protocol = "general-task"
        => ~DataRejected(segs[last])
  BY DEF JInv, Unlaundered
<1> QED BY <1>1, SameDomains

LEMMA ProcessKeepsJ ==
  ASSUME IInv, IInv', JInv, NamesStay,
         Flush \/ Suspend \/ Resume \/ Abort \/ Crash \/ \E c \in Calls : Enter(c)
  PROVE  NewlyInspected /\ StrictSegmentsEndResolved' /\ Unlaundered'
<1>1. UNCHANGED <<segs, last, faults>>
  BY DEF Flush, Suspend, Resume, Abort, Crash, Enter
<1>2. Completing' => Completing
  BY DEF Flush, Suspend, Resume, Abort, Crash, Enter, Completing, IInv, Completion
<1> QED BY <1>1, <1>2, SameSegments

LEMMA StartKeepsJ ==
  ASSUME IInv, JInv, Start
  PROVE  NewlyInspected /\ StrictSegmentsEndResolved' /\ Unlaundered'
<1>1. PICK p \in Protocols : segs' = [segs EXCEPT ![1] = NewSegment(p, 1)]
  BY DEF Start
<1>2. /\ segs'[1] = NewSegment(p, 1) /\ \A x \in Segments \ {1} : segs'[x] = segs[x]
      /\ last' = 1 /\ final' = "no" /\ row' = "running"
  BY <1>1, BoundsAssumption DEF IInv, TypeOK, Chain, Segments, Start
<1>3. ~NewSegment(p, 1).domain.inspected
  BY DEF NewSegment, NoDomain
<1> QED BY <1>2, <1>3 DEF NewlyInspected, StrictSegmentsEndResolved, Unlaundered, Completing

-----------------------------------------------------------------------------
(* A handoff under the second invariant.                                    *)

\* A handoff goes on after the agent has finished in no run: only the answer action is
\* then in flight, which is no handoff.
LEMMA HandoffNotCompleting ==
  ASSUME IInv, Roles, NEW c \in Ids, Handoff(c)
  PROVE  ~Completing /\ (UNCHANGED <<row, final>>) /\ driver.up
<1>1. calls[c].step \in {"extracting", "switching"}
  BY DEF Handoff, ExtractionFails, HandoffThrows, HandoffRefused, HandoffAccepted, Coordinates
<1>2. c \in InFlight /\ c # AnswerCall
  BY <1>1 DEF InFlight, Roles
<1>3. UNCHANGED <<row, final>> /\ driver.up
  BY DEF Handoff, ExtractionFails, HandoffThrows, HandoffRefused, HandoffAccepted, Coordinates
<1> QED BY <1>2, <1>3, InFlightUndecided DEF Completing, IInv, Completion

LEMMA HandoffRefusedKeepsJ ==
  ASSUME IInv, IInv', JInv, NamesStay, NEW c \in Ids, NEW ok \in BOOLEAN, HandoffRefused(c, ok)
  PROVE  NewlyInspected /\ StrictSegmentsEndResolved' /\ Unlaundered'
<1> DEFINE g == Bumped(Current)
<1>1. driver.up /\ UNCHANGED <<last, row, final>> /\ ~Completing
  BY HandoffNotCompleting DEF HandoffRefused, Handoff, JInv
<1>2. driver.seg \in 1..last /\ driver.seg \in Segments /\ Current \in Segment
  BY <1>1, DriverSegment DEF Current
<1>3. g.domain = Current.domain /\ Amends(Current, g, c) /\ g.actions[c] = Current.actions[c]
  BY <1>2, BumpedType
<1>4. segs' = [segs EXCEPT ![driver.seg] = g] /\ Publish({<<driver.seg, g.revision>>}, ok)
  BY DEF HandoffRefused, Commit
<1>5. segs'[driver.seg] = g /\ \A x \in Segments \ {driver.seg} : segs'[x] = segs[x]
  BY <1>2, <1>4 DEF IInv, TypeOK
<1>6. \A x \in Segments : /\ segs'[x].protocol = segs[x].protocol
                          /\ segs'[x].status = segs[x].status
                          /\ segs'[x].domain = segs[x].domain
                          /\ \A d \in Ids : segs'[x].actions[d] = segs[x].actions[d]
  BY <1>3, <1>5 DEF Amends, Current
<1>7. faults' = 0 => faults = 0
  BY <1>2, <1>3, <1>4, PublishType DEF IInv, Amends, Segment
<1>8. ~Completing'
  BY <1>1 DEF Completing
<1> QED BY <1>1, <1>6, <1>7, <1>8, SameDomains

LEMMA HandoffAcceptedKeepsJ ==
  ASSUME IInv, IInv', JInv, NamesStay, NEW c \in Ids, NEW ok \in BOOLEAN, HandoffAccepted(c, ok)
  PROVE  NewlyInspected /\ StrictSegmentsEndResolved' /\ Unlaundered'
<1>1. driver.up /\ ~Completing /\ UNCHANGED <<row, final>>
  BY HandoffNotCompleting DEF HandoffAccepted, Handoff, JInv
<1>2. /\ segs' = [segs EXCEPT ![driver.seg] = Ended(c), ![last + 1] = Successor(c)]
      /\ ~Refused(c) /\ last' = last + 1 /\ last < MaxSegments
      /\ Current.status = "active"
  BY DEF HandoffAccepted
<1>3. driver.seg \in 1..last /\ driver.seg \in Segments /\ Current \in Segment
  BY <1>1, DriverSegment DEF Current
<1>4. driver.seg = last /\ last \in Segments /\ last + 1 \in Segments /\ last + 1 # last
  <2>1. ~(driver.seg < last)
    BY <1>2, <1>3 DEF IInv, Chain, Current
  <2> QED BY <1>2, <1>3, <2>1, BoundsAssumption DEF IInv, TypeOK, Segments
<1>5. /\ Ended(c).domain = Current.domain
      /\ Ended(c).status = IF RouteCorrection(c) THEN "aborted" ELSE "handed_off"
      /\ Ended(c).protocol = Current.protocol
  <2>1. /\ Bumped(Current) \in Segment /\ Bumped(Current).domain = Current.domain
        /\ Bumped(Current).protocol = Current.protocol
    BY <1>3 DEF Bumped, Segment
  <2> QED BY <2>1 DEF Ended, Segment
<1>6. ~Successor(c).domain.inspected
  BY DEF Successor, NewSegment, NoDomain
<1>7. /\ segs'[last] = Ended(c) /\ segs'[last + 1] = Successor(c)
      /\ \A x \in Segments \ {last, last + 1} : segs'[x] = segs[x]
  BY <1>2, <1>4 DEF IInv, TypeOK
<1>8. NewlyInspected
  BY <1>4, <1>5, <1>6, <1>7 DEF NewlyInspected, Current
<1>9. StrictSegmentsEndResolved'
  <2>1. last' - 1 = last
    BY <1>2, BoundsAssumption DEF IInv, TypeOK
  <2> SUFFICES ASSUME segs'[last].protocol = "data-analysis"
               PROVE  /\ segs'[last].status = "handed_off" => segs'[last].domain.resolved
                      /\ segs'[last].status = "aborted" => ~segs'[last].domain.inspected
    BY <2>1 DEF StrictSegmentsEndResolved
  <2>2. Current.protocol = "data-analysis" /\ segs[last] = Current
    BY <1>4, <1>5, <1>7 DEF Current
  <2>3. CASE RouteCorrection(c)
    <3>1. ~DataSucceeded(Current)
      BY <1>2, <2>3 DEF Refused
    <3>2. ~Current.domain.inspected
      BY <1>4, <2>2, <3>1 DEF JInv, Inspections
    <3> QED BY <1>5, <1>7, <2>3, <3>2
  <2>4. CASE ~RouteCorrection(c)
    <3>1. Current.domain.resolved
      BY <1>2, <2>2, <2>4 DEF Refused, GoalsMet
    <3> QED BY <1>5, <1>7, <2>4, <3>1
  <2> QED BY <2>3, <2>4
<1>10. Unlaundered'
  BY <1>1 DEF Unlaundered, Completing
<1> QED BY <1>8, <1>9, <1>10

LEMMA HandoffKeepsJ ==
  ASSUME IInv, IInv', JInv, NamesStay, NEW c \in Ids, Handoff(c)
  PROVE  NewlyInspected /\ StrictSegmentsEndResolved' /\ Unlaundered'
<1>1. CASE ExtractionFails(c) \/ HandoffThrows(c)
  <2>1. UNCHANGED <<segs, last, row, final, faults>>
    BY <1>1 DEF ExtractionFails, HandoffThrows
  <2> QED BY <2>1, SameSegments DEF Completing
<1> QED BY <1>1, HandoffRefusedKeepsJ, HandoffAcceptedKeepsJ DEF Handoff

-----------------------------------------------------------------------------
(* The completion under the second invariant.                               *)

\* The check for refused data actions is made of the last segment.
LEMMA FinishKeepsJ ==
  ASSUME IInv, IInv', JInv, NamesStay, FinishWithAnswer \/ FinishWithoutAnswer
  PROVE  NewlyInspected /\ StrictSegmentsEndResolved' /\ Unlaundered'
<1>1. driver.up /\ ~Laundered /\ UNCHANGED <<segs, last, faults>>
  BY DEF FinishWithAnswer, FinishWithoutAnswer, Finished
<1>2. faults = 0 => Current = segs[last]
  BY <1>1 DEF IInv, Chain, Current
<1>3. faults = 0 /\ segs[last].protocol = "general-task" => ~DataRejected(segs[last])
  BY <1>1, <1>2 DEF Laundered
<1> QED BY <1>1, <1>3, SameDomains

\* The decision about the segment the closure drives.
LEMMA DecisionKeepsJ ==
  ASSUME IInv, IInv', JInv, NamesStay, driver.up, NEW ok \in BOOLEAN,
         NEW decision \in {"completed", "partial", "failed"},
         Commit(driver.seg, Terminal(Current, decision), ok), last' = last,
         Completing' => Completing
  PROVE  NewlyInspected /\ StrictSegmentsEndResolved' /\ Unlaundered'
<1> DEFINE g == Terminal(Current, decision)
<1>1. driver.seg \in 1..last /\ driver.seg \in Segments /\ Current \in Segment
  BY DriverSegment DEF Current
<1>2. /\ g \in Segment /\ g.protocol = Current.protocol /\ g.domain = Current.domain
      /\ \A d \in Ids : g.actions[d] = Current.actions[d]
  BY <1>1, TerminalType
<1> HIDE DEF g
<1>3. segs' = [segs EXCEPT ![driver.seg] = g] /\ Publish({<<driver.seg, g.revision>>}, ok)
  BY DEF Commit, g
<1>4. segs'[driver.seg] = g /\ \A x \in Segments \ {driver.seg} : segs'[x] = segs[x]
  BY <1>1, <1>3 DEF IInv, TypeOK
<1>5. \A x \in Segments : /\ segs'[x].protocol = segs[x].protocol
                          /\ segs'[x].domain = segs[x].domain
                          /\ \A d \in Ids : segs'[x].actions[d] = segs[x].actions[d]
  BY <1>2, <1>4 DEF Current
<1>6. faults' = 0 => faults = 0
  BY <1>1, <1>2, <1>3, PublishType DEF IInv, Segment
<1>7. faults = 0 => \A x \in Segments \ {last} : segs'[x].status = segs[x].status
  BY <1>4 DEF IInv, Chain
<1>8. Completing' /\ faults = 0 /\ segs[last].protocol = "general-task"
        => ~DataRejected(segs[last])
  BY DEF JInv, Unlaundered
<1> QED BY <1>5, <1>6, <1>7, <1>8, SameDomains

LEMMA CompleteKeepsJ ==
  ASSUME IInv, IInv', JInv, NamesStay, Complete
  PROVE  NewlyInspected /\ StrictSegmentsEndResolved' /\ Unlaundered'
<1>1. CASE AnswerEnds \/ Finalize
  <2>1. UNCHANGED <<segs, last, faults>> /\ Completing
    BY <1>1 DEF AnswerEnds, Finalize, Completing
  <2> QED BY <2>1, SameSegments
<1>2. ASSUME NEW ok \in BOOLEAN, Propose(ok)
      PROVE  NewlyInspected /\ StrictSegmentsEndResolved' /\ Unlaundered'
  <2>1. /\ driver.up /\ Completing /\ last' = last
        /\ Commit(driver.seg, Terminal(Current, Decision(Current)), ok)
    BY <1>2 DEF Propose, Completing
  <2>2. Decision(Current) \in {"completed", "partial", "failed"}
    BY DEF Decision
  <2> QED BY <2>1, <2>2, DecisionKeepsJ
<1>3. ASSUME NEW ok \in BOOLEAN, FinishRejected(ok)
      PROVE  NewlyInspected /\ StrictSegmentsEndResolved' /\ Unlaundered'
  <2>1. driver.up /\ last' = last /\ ~Completing'
    BY <1>3 DEF FinishRejected, Finished, Fails, Completing
  <2>2. CASE Commit(driver.seg, Terminal(Current, "failed"), ok)
    BY <2>1, <2>2, DecisionKeepsJ
  <2>3. CASE UNCHANGED <<segs, pending, faults>>
    BY <2>1, <2>3, SameSegments
  <2> QED BY <1>3, <2>2, <2>3 DEF FinishRejected
<1> QED BY <1>1, <1>2, <1>3, FinishKeepsJ DEF Complete

-----------------------------------------------------------------------------
(* The second invariant and its theorems.                                   *)

LEMMA InitHoldsJ == ASSUME Init PROVE JInv
<1>1. \A s \in Segments : segs[s] = Absent
  BY DEF Init
<1>2. ~Absent.domain.inspected
  BY DEF Absent, NewSegment, NoDomain
<1>3. Roles
  BY DEF Init, Roles, NoCall, Ids
<1>4. Inspections
  BY <1>1, <1>2 DEF Inspections
<1>5. Unlaundered /\ Deferred /\ StrictSegmentsEndResolved
  BY DEF Init, Unlaundered, Deferred, Completing, StrictSegmentsEndResolved, NoDriver
<1> QED BY <1>3, <1>4, <1>5 DEF JInv

LEMMA NextKeepsJ == ASSUME IInv, JInv, Next PROVE JInv'
<1>1. IInv' /\ SettledOnce
  BY NextKeeps
<1>2. Roles' /\ NamesStay
  BY CallsKeep DEF JInv
<1>3. Deferred'
  BY DeferredKeeps DEF JInv
<1>4. NewlyInspected /\ StrictSegmentsEndResolved' /\ Unlaundered'
  BY <1>1, <1>2, StartKeepsJ, ProcessKeepsJ, RouteKeepsJ, HandoffKeepsJ, CompleteKeepsJ DEF Next
<1>5. Inspections'
  BY <1>1, <1>2, <1>4, InspectionsKeep DEF JInv
<1> QED BY <1>2, <1>3, <1>4, <1>5 DEF JInv

LEMMA StutterKeepsJ == ASSUME JInv, UNCHANGED vars PROVE JInv'
  BY DEF vars, JInv, Roles, Inspections, DataSucceeded, Completing, Unlaundered, DataRejected,
         Deferred, StrictSegmentsEndResolved

\* JInv holds in every state of the specification, for all values of the constants.
THEOREM LateResultInvariance == Spec => []JInv
<1>1. IInv /\ JInv /\ [Next]_vars => JInv'
  BY NextKeepsJ, StutterKeepsJ
<1> QED BY <1>1, InitHoldsJ, SegmentInvariance, PTL DEF Spec

\* A strict segment is handed off with its goals met or corrected without a data result,
\* and results that arrive after the handoff change neither.
THEOREM HandoffsAreEarned == Spec => []StrictSegmentsEndResolved
  BY LateResultInvariance, PTL DEF JInv

\* A run whose last segment is general-task with a refused data action is not completed.
THEOREM RejectionsAreNotLaundered == Spec => []RejectionsFailTheRun
<1>1. JInv => RejectionsFailTheRun
  BY DEF JInv, Unlaundered, Completing, RejectionsFailTheRun
<1> QED BY <1>1, LateResultInvariance, PTL

\* A completed run has no event left in the journal unless a sink threw.
THEOREM CompletedRunsAreDelivered == Spec => []CompletedIsDelivered
<1>1. JInv => CompletedIsDelivered
  BY DEF JInv, Deferred, Completing, CompletedIsDelivered
<1> QED BY <1>1, LateResultInvariance, PTL

-----------------------------------------------------------------------------
(* The third invariant: what the liveness properties leave to fairness.     *)

\* An action stays open only while the call that made it runs its tool in the segment it
\* was made in, or when the process died: no answer of a tool is dropped.
OpenActionsAreRunning ==
  faults = 0 =>
    \A s \in Segments, c \in Ids : segs[s].actions[c] = "requested" =>
      calls[c].seg = s /\ calls[c].step \in {"running", "lost"}

\* A completion in progress has a live process and a step to take, with nothing of the
\* router in its way, and one that is over has settled the row.
CompletionGoesOn ==
  /\ final \in {"answering", "proposing", "finalizing"} => driver.up
  /\ final = "answering" =>
       \/ calls[AnswerCall].step \in {"returned", "threw", "faulted"}
       \/ calls[AnswerCall].step \in {"entered", "running"} /\ Quiet
  /\ final = "done" => row \in {"completed", "failed", "canceled"}

\* The part of it the steps keep.
AnswerIsUnderWay ==
  /\ final \in {"answering", "proposing", "finalizing"} => driver.up
  /\ final = "answering" =>
       calls[AnswerCall].step \in {"entered", "running", "returned", "threw", "faulted"}
  /\ final = "done" => row \in {"completed", "failed", "canceled"}

KInv == OpenActionsAreRunning /\ AnswerIsUnderWay

-----------------------------------------------------------------------------
(* Open actions.                                                            *)

\* Segment x holds no open action but those whose calls run in it.
OpenIn(x) ==
  \A c \in Ids : segs[x].actions[c] = "requested" =>
    calls[c].seg = x /\ calls[c].step \in {"running", "lost"}

\* A step that opens nothing and stops no call that runs its tool.
LEMMA OpenStays ==
  ASSUME NEW x \in Segments, OpenIn(x),
         \A c \in Ids : segs'[x].actions[c] = "requested" => segs[x].actions[c] = "requested",
         \A c \in Ids : calls[c].step \in {"running", "lost"} =>
            calls'[c].seg = calls[c].seg /\ calls'[c].step \in {"running", "lost"}
  PROVE  OpenIn(x)'
  BY DEF OpenIn

LEMMA RouteOpens ==
  ASSUME IInv, NEW c \in Ids, NEW g \in Segment, NEW st \in Steps, NEW ok \in BOOLEAN,
         RouteEffect(c, g, st), Publish({<<calls[c].seg, g.revision>>}, ok),
         calls[c].step = "entered" /\ g.actions[c] = "requested" => st = "running",
         faults' = 0, NEW x \in Segments, OpenIn(x)
  PROVE  OpenIn(x)'
<1> DEFINE n == calls[c].seg
<1>1. /\ n \in Segments /\ segs[n] \in Segment
      /\ calls[c].step \in {"entered", "running", "faulted"}
  BY InSegment DEF RouteEffect, Progress
<1>2. segs'[n] = g /\ \A y \in Segments \ {n} : segs'[y] = segs[y]
  BY <1>1 DEF IInv, TypeOK, RouteEffect
<1>3. /\ calls'[c].step = st /\ calls'[c].seg = n
      /\ \A d \in Ids \ {c} : calls'[d] = calls[d]
  BY GoesType DEF IInv, RouteEffect
<1>4. \A d \in Ids \ {c} : g.actions[d] = segs[n].actions[d]
  BY DEF RouteEffect, Amends
<1>5. ASSUME NEW d \in Ids, segs'[x].actions[d] = "requested"
      PROVE  calls'[d].seg = x /\ calls'[d].step \in {"running", "lost"}
  <2>1. CASE d # c
    <3>1. segs[x].actions[d] = "requested"
      BY <1>2, <1>4, <1>5, <2>1
    <3> QED BY <1>3, <2>1, <3>1 DEF OpenIn
  <2>2. CASE d = c /\ x = n
    <3>1. g.actions[c] = "requested"
      BY <1>2, <1>5, <2>2
    <3>2. calls[c].step # "running"
      BY <3>1 DEF RouteEffect, Progress
    <3>3. calls[c].step # "faulted"
      <4>1. CASE g = segs[n]
        BY <1>1, <2>2, <3>1, <4>1 DEF OpenIn
      <4>2. CASE g # segs[n] /\ calls[c].step = "faulted"
        BY <3>1, <4>2 DEF RouteEffect, Progress
      <4> QED BY <4>1, <4>2
    <3> QED BY <1>1, <1>3, <2>2, <3>1, <3>2, <3>3
  <2>3. CASE d = c /\ x # n
    <3>1. segs[x].actions[c] = "requested"
      BY <1>2, <1>5, <2>3
    <3> QED BY <2>3, <3>1 DEF OpenIn
  <2> QED BY <2>1, <2>2, <2>3
<1> QED BY <1>5 DEF OpenIn

\* An admitted action runs its tool unless a sink threw.
LEMMA BeginRuns ==
  ASSUME IInv, NEW c \in Ids, Route(c), calls[c].step = "entered", faults' = 0,
         segs'[calls[c].seg].actions[c] = "requested"
  PROVE  calls'[c].step = "running"
<1> DEFINE s == segs[calls[c].seg]
<1>1. PICK ok \in BOOLEAN : Begin(c, ok)
  BY DEF Route, FailureRecorded, ToolFails, ResultRefused, ToolSucceeds
<1>2. PICK status \in Admissions(s, calls[c].name) :
        /\ Commit(calls[c].seg, Bumped(WithStatus(s, c, status)), ok)
        /\ Goes(c, IF ok /\ status = "requested" THEN "running" ELSE "threw")
  BY <1>1 DEF Begin
<1>3. calls[c].seg \in Segments /\ s \in Segment
  BY InSegment
<1>4. status \in {"requested"} \cup Settled
  BY <1>2 DEF Admissions, Settled
<1>5. Bumped(WithStatus(s, c, status)).actions[c] = status
  BY <1>3, <1>4, StatusType
<1>6. status = "requested"
  <2>1. segs'[calls[c].seg] = Bumped(WithStatus(s, c, status))
    BY <1>2, <1>3 DEF Commit, IInv, TypeOK
  <2> QED BY <1>5, <2>1
<1>7. ok
  <2>1. Publish({<<calls[c].seg, Bumped(WithStatus(s, c, status)).revision>>}, ok)
    BY <1>2 DEF Commit
  <2>2. faults \in Nat
    BY BoundsAssumption DEF IInv, TypeOK
  <2> QED BY <2>1, <2>2 DEF Publish
<1>8. Goes(c, "running")
  BY <1>2, <1>6, <1>7
<1> QED BY <1>8, GoesType DEF IInv, Steps

LEMMA RouteKeepsOpen ==
  ASSUME IInv, NEW c \in Ids, Route(c), faults' = 0, NEW x \in Segments, OpenIn(x)
  PROVE  OpenIn(x)'
<1>1. PICK g \in Segment, st \in Steps, ok \in BOOLEAN :
        RouteEffect(c, g, st) /\ Publish({<<calls[c].seg, g.revision>>}, ok)
  BY RouteHasEffect
<1>2. calls[c].seg \in Segments
  BY <1>1, InSegment DEF RouteEffect, Progress
<1>3. segs'[calls[c].seg] = g /\ calls'[c].step = st
  BY <1>1, <1>2, GoesType DEF IInv, TypeOK, RouteEffect
<1>4. calls[c].step = "entered" /\ g.actions[c] = "requested" => st = "running"
  BY <1>3, BeginRuns
<1> QED BY <1>1, <1>4, RouteOpens

\* No action opens in segment x and no running call goes on.
Calm(x) ==
  /\ \A c \in Ids : segs'[x].actions[c] = "requested" => segs[x].actions[c] = "requested"
  /\ \A c \in Ids : calls[c].step \in {"running", "lost"} =>
        calls'[c].seg = calls[c].seg /\ calls'[c].step \in {"running", "lost"}

\* The segment written is of the same actions, or has none.
LEMMA CalmCommit ==
  ASSUME IInv, NEW n \in Segments, NEW g \in Segment, NEW x \in Segments,
         segs' = [segs EXCEPT ![n] = g],
         g.actions = segs[n].actions
  PROVE  \A c \in Ids : segs'[x].actions[c] = "requested" => segs[x].actions[c] = "requested"
<1>1. segs'[n] = g /\ \A y \in Segments \ {n} : segs'[y] = segs[y]
  BY DEF IInv, TypeOK
<1> QED BY <1>1

LEMMA HandoffIsCalm ==
  ASSUME IInv, NEW c \in Ids, Handoff(c), NEW x \in Segments
  PROVE  Calm(x)
<1>1. driver.up /\ calls[c].step \in {"extracting", "switching"}
  BY DEF Handoff, ExtractionFails, HandoffThrows, HandoffRefused, HandoffAccepted, Coordinates
<1>2. PICK st \in {"returned", "threw"} : Goes(c, st)
  BY DEF Handoff, ExtractionFails, HandoffThrows, HandoffRefused, HandoffAccepted, Came
<1>3. \A d \in Ids \ {c} : calls'[d] = calls[d]
  BY <1>1, <1>2, CallEnds
<1>4. driver.seg \in 1..last /\ driver.seg \in Segments /\ Current \in Segment
  BY <1>1, DriverSegment DEF Current
<1>5. CASE UNCHANGED segs
  BY <1>1, <1>3, <1>5 DEF Calm
<1>6. ASSUME NEW ok \in BOOLEAN, HandoffRefused(c, ok) PROVE Calm(x)
  <2>1. segs' = [segs EXCEPT ![driver.seg] = Bumped(Current)]
    BY <1>6 DEF HandoffRefused, Commit
  <2>2. Bumped(Current) \in Segment /\ Bumped(Current).actions = Current.actions
    BY <1>4, BumpedType DEF Bumped, Segment
  <2> QED BY <1>1, <1>3, <1>4, <2>1, <2>2, CalmCommit DEF Calm, Current
<1>7. ASSUME NEW ok \in BOOLEAN, HandoffAccepted(c, ok) PROVE Calm(x)
  <2>1. last + 1 \in Segments /\ driver.seg # last + 1
    BY <1>4, <1>7, BoundsAssumption DEF HandoffAccepted, Segments, IInv, TypeOK
  <2>2. /\ segs'[driver.seg] = Ended(c) /\ segs'[last + 1] = Successor(c)
        /\ \A y \in Segments \ {driver.seg, last + 1} : segs'[y] = segs[y]
    BY <1>4, <1>7, <2>1 DEF HandoffAccepted, IInv, TypeOK
  <2>3. Ended(c).actions = segs[driver.seg].actions
    BY <1>4 DEF Ended, Bumped, Segment, Current
  <2>4. \A d \in Ids : Successor(c).actions[d] = "none"
    BY DEF Successor, NewSegment
  <2> QED BY <1>1, <1>3, <2>2, <2>3, <2>4 DEF Calm
<1> QED BY <1>5, <1>6, <1>7 DEF Handoff, ExtractionFails, HandoffThrows

LEMMA ProcessIsCalm ==
  ASSUME IInv, Start \/ Flush \/ Suspend \/ Resume \/ Abort \/ Crash, NEW x \in Segments
  PROVE  Calm(x)
<1>1. CASE Start
  <2>1. PICK p \in Protocols : segs' = [segs EXCEPT ![1] = NewSegment(p, 1)]
    BY <1>1 DEF Start
  <2>2. x = 1 => segs'[x] = NewSegment(p, 1)
    BY <2>1 DEF IInv, TypeOK
  <2>3. x # 1 => segs'[x] = segs[x]
    BY <2>1 DEF IInv, TypeOK
  <2>4. \A d \in Ids : NewSegment(p, 1).actions[d] = "none"
    BY DEF NewSegment
  <2> QED BY <1>1, <2>2, <2>3, <2>4 DEF Calm, Start
<1>2. CASE Crash
  <2>1. \A d \in Ids : /\ calls'[d].seg = calls[d].seg
                       /\ calls'[d].step \in {calls[d].step, "lost"}
    BY <1>2 DEF Crash, IInv, TypeOK, At, Call
  <2> QED BY <1>2, <2>1 DEF Calm, Crash
<1> QED BY <1>1, <1>2 DEF Calm, Flush, Suspend, Resume, Abort

LEMMA EnterIsCalm ==
  ASSUME IInv, NEW c \in Calls, Enter(c), NEW x \in Segments
  PROVE  Calm(x)
<1>1. c \in Ids /\ calls[c].step = "unused" /\ segs' = segs
  BY DEF Enter, Ids
<1>2. \A d \in Ids \ {c} : calls'[d] = calls[d]
  BY DEF Enter, IInv, TypeOK
<1> QED BY <1>1, <1>2 DEF Calm

LEMMA CompleteIsCalm ==
  ASSUME IInv, Complete, NEW x \in Segments
  PROVE  Calm(x)
<1>1. CASE FinishWithAnswer
  <2>1. calls[AnswerCall].step = "unused" /\ segs' = segs
    BY <1>1 DEF FinishWithAnswer, Finished, IInv, Completion
  <2>2. \A d \in Ids \ {AnswerCall} : calls'[d] = calls[d]
    BY <1>1 DEF FinishWithAnswer, IInv, TypeOK
  <2> QED BY <2>1, <2>2 DEF Calm
<1>2. ASSUME NEW ok \in BOOLEAN, NEW decision \in {"completed", "partial", "failed"},
             driver.up, Commit(driver.seg, Terminal(Current, decision), ok), calls' = calls
      PROVE  Calm(x)
  <2>1. driver.seg \in Segments /\ Current \in Segment
    BY <1>2, DriverSegment DEF Current
  <2>2. Terminal(Current, decision) \in Segment
    BY <2>1, TerminalType
  <2>3. Terminal(Current, decision).actions = segs[driver.seg].actions
    BY <2>1 DEF Terminal, Bumped, Segment, Current
  <2> QED BY <1>2, <2>1, <2>2, <2>3, CalmCommit DEF Calm, Commit
<1>3. ASSUME NEW ok \in BOOLEAN, Propose(ok) PROVE Calm(x)
  <2>1. Decision(Current) \in {"completed", "partial", "failed"}
    BY DEF Decision
  <2> QED BY <1>2, <1>3, <2>1 DEF Propose
<1>4. ASSUME NEW ok \in BOOLEAN, FinishRejected(ok) PROVE Calm(x)
  <2>1. CASE Commit(driver.seg, Terminal(Current, "failed"), ok)
    BY <1>2, <1>4, <2>1 DEF FinishRejected, Finished
  <2>2. CASE UNCHANGED segs
    BY <1>4, <2>2 DEF FinishRejected, Calm
  <2> QED BY <1>4, <2>1, <2>2 DEF FinishRejected
<1> QED BY <1>1, <1>3, <1>4 DEF Complete, Calm, FinishWithoutAnswer, AnswerEnds, Finalize

\* A fault is never taken back.
LEMMA FaultsStay == ASSUME IInv, Next, faults' = 0 PROVE faults = 0
<1>1. faults \in Nat
  BY BoundsAssumption DEF IInv, TypeOK
<1>2. ASSUME NEW commits, NEW ok \in BOOLEAN, Publish(commits, ok) PROVE faults = 0
  BY <1>1, <1>2 DEF Publish
<1>3. ASSUME NEW c \in Ids, Route(c) PROVE faults = 0
  BY <1>2, <1>3, RouteHasEffect
<1>4. ASSUME NEW c \in Ids, Handoff(c) PROVE faults = 0
  BY <1>2, <1>4
     DEF Handoff, ExtractionFails, HandoffThrows, HandoffRefused, HandoffAccepted, Commit
<1>5. CASE Complete
  BY <1>2, <1>5
     DEF Complete, FinishWithAnswer, FinishWithoutAnswer, AnswerEnds, Finalize, FinishRejected,
         Propose, Commit
<1> QED BY <1>3, <1>4, <1>5 DEF Next, Start, Flush, Suspend, Resume, Abort, Crash, Enter

LEMMA OpenActionsKeep ==
  ASSUME IInv, OpenActionsAreRunning, Next
  PROVE  OpenActionsAreRunning'
<1> SUFFICES ASSUME faults' = 0, NEW x \in Segments
             PROVE  OpenIn(x)'
  BY DEF OpenActionsAreRunning, OpenIn
<1>1. OpenIn(x)
  BY FaultsStay DEF OpenActionsAreRunning, OpenIn
<1>2. CASE Calm(x)
  BY <1>1, <1>2, OpenStays DEF Calm
<1> QED BY <1>1, <1>2, ProcessIsCalm, EnterIsCalm, RouteKeepsOpen, HandoffIsCalm, CompleteIsCalm
        DEF Next

-----------------------------------------------------------------------------
(* Completions.                                                             *)

LEMMA RouteAnswers ==
  ASSUME IInv, Roles, AnswerIsUnderWay, NEW c \in Ids, Route(c)
  PROVE  AnswerIsUnderWay'
<1>1. PICK g \in Segment, st \in Steps, ok \in BOOLEAN : RouteEffect(c, g, st)
  BY RouteHasEffect
<1>2. PICK to \in Steps :
        Goes(c, to) /\ (to \in {"extracting", "switching"} => calls[c].name = "handoff")
  BY RouteStep
<1>3. calls'[c].step = st /\ calls'[c].step = to /\ \A d \in Ids \ {c} : calls'[d] = calls[d]
  BY <1>1, <1>2, GoesType DEF IInv, RouteEffect
<1>4. st \in {"running", "threw", "returned", "faulted", "extracting", "switching"}
  BY <1>1 DEF RouteEffect, Progress
<1>5. c = AnswerCall => st \in {"running", "threw", "returned", "faulted"}
  BY <1>2, <1>3, <1>4 DEF Roles
<1> QED BY <1>1, <1>3, <1>5 DEF AnswerIsUnderWay, RouteEffect, Ids

LEMMA HandoffAnswers ==
  ASSUME IInv, AnswerIsUnderWay, NEW c \in Ids, Handoff(c)
  PROVE  AnswerIsUnderWay'
<1>1. /\ calls[c].step \in {"extracting", "switching"}
      /\ final' = final /\ row' = row /\ driver'.up = driver.up
  BY DEF Handoff, ExtractionFails, HandoffThrows, HandoffRefused, HandoffAccepted, Coordinates,
         Switched, IInv, TypeOK, Driver
<1>2. final # "answering"
  <2>1. c \in InFlight
    BY <1>1 DEF InFlight
  <2> QED BY <1>1, <2>1 DEF IInv, Completion, AnswerIsUnderWay
<1> QED BY <1>1, <1>2 DEF AnswerIsUnderWay

LEMMA AnswerKeeps ==
  ASSUME IInv, Roles, AnswerIsUnderWay, Next
  PROVE  AnswerIsUnderWay'
<1>1. CASE Start \/ Flush \/ Suspend \/ Resume \/ Abort
  BY <1>1 DEF AnswerIsUnderWay, IInv, TypeOK, Driver, Completion, Start, Flush, Suspend, Resume,
              Abort
<1>2. CASE Crash
  BY <1>2 DEF AnswerIsUnderWay, IInv, TypeOK, Completion, Crash
<1>3. ASSUME NEW c \in Calls, Enter(c) PROVE AnswerIsUnderWay'
  BY <1>3 DEF AnswerIsUnderWay, Enter
<1>4. CASE FinishWithAnswer
  <2>1. calls'[AnswerCall].step = "entered"
    BY <1>4 DEF FinishWithAnswer, IInv, TypeOK, Ids
  <2> QED BY <1>4, <2>1 DEF AnswerIsUnderWay, FinishWithAnswer, Finished
<1>5. CASE Complete /\ ~FinishWithAnswer
  BY <1>5 DEF Complete, AnswerIsUnderWay, FinishWithoutAnswer, Finished, AnswerEnds, Fails,
              Finalize, FinishRejected, Propose
<1> QED BY <1>1, <1>2, <1>3, <1>4, <1>5, RouteAnswers, HandoffAnswers DEF Next

-----------------------------------------------------------------------------
(* The third invariant and its theorems.                                    *)

LEMMA InitHoldsK == ASSUME Init PROVE KInv
<1>1. \A s \in Segments, c \in Ids : segs[s].actions[c] = "none"
  BY AbsentType DEF Init
<1> QED BY <1>1 DEF Init, KInv, OpenActionsAreRunning, AnswerIsUnderWay

LEMMA StutterKeepsK == ASSUME KInv, UNCHANGED vars PROVE KInv'
  BY DEF vars, KInv, OpenActionsAreRunning, AnswerIsUnderWay

LEMMA UnderWayGoesOn == ASSUME IInv, AnswerIsUnderWay PROVE CompletionGoesOn
<1>1. CASE final = "answering" /\ calls[AnswerCall].step \in {"entered", "running"}
  <2>1. \A c \in Ids \ {AnswerCall} : calls[c].step \in {"unused", "returned", "threw", "lost"}
    BY <1>1 DEF IInv, Completion, InFlight
  <2>2. Quiet
    BY <1>1, <2>1 DEF Quiet
  <2> QED BY <1>1, <2>2 DEF AnswerIsUnderWay, CompletionGoesOn
<1> QED BY <1>1 DEF AnswerIsUnderWay, CompletionGoesOn

\* KInv holds in every state of the specification, for all values of the constants.
THEOREM ProgressInvariance == Spec => []KInv
<1>1. IInv /\ JInv /\ KInv /\ [Next]_vars => KInv'
  BY OpenActionsKeep, AnswerKeeps, StutterKeepsK DEF JInv, KInv
<1> QED BY <1>1, InitHoldsK, SegmentInvariance, LateResultInvariance, PTL DEF Spec

\* An open action has a call that runs its tool, or was lost with the process: the safety
\* part of AdmittedActionsSettle (the router's records and its calls never come apart).
THEOREM OpenActionsAreServed == Spec => []OpenActionsAreRunning
  BY ProgressInvariance, PTL DEF KInv

\* A completion never waits on a process that has ended or on another call, and one that
\* is over has settled the row: the safety part of CompletionSettles.
THEOREM CompletionsGoOn == Spec => []CompletionGoesOn
<1>1. IInv /\ KInv => CompletionGoesOn
  BY UnderWayGoesOn DEF KInv
<1> QED BY <1>1, SegmentInvariance, ProgressInvariance, PTL
=============================================================================
