------------------------- MODULE DataAnalysis_proofs -------------------------
(***************************************************************************)
(* Proofs about DataAnalysis: its inductive invariant and the safety       *)
(* properties it implies, for every set of calls and requirements.         *)
(*                                                                         *)
(* First what each reducer does to the fields of the state, then what a    *)
(* step of a call does to the invariant.                                   *)
(***************************************************************************)
EXTENDS DataAnalysis, TLAPS

-----------------------------------------------------------------------------
(* What may become of the fields of a DataAnalysisState.                    *)

KeepsPlan(d, e) ==
  /\ e.current = d.current /\ e.validated = d.validated /\ e.executed = d.executed
  /\ e.passed = d.passed /\ e.refs = d.refs /\ e.attempts = d.attempts

KeepsEvidence(d, e) == e.bindings = d.bindings /\ e.claims = d.claims

KeepsContext(d, e) ==
  e.inspected = d.inspected /\ e.resolved = d.resolved /\ e.grounded = d.grounded

\* No status falls back, and no requirement becomes reported.
Rises(d, e) == \A g \in Goals : e.status[g] >= d.status[g]
NoReports(d, e) == \A r \in Requirements : e.status[r] = Reported => d.status[r] = Reported

\* The plan of an attempt is what its evidence is judged by.
KeepsTexts(d, e) ==
  \A q \in Queries : e.attempts[q].reqs = d.attempts[q].reqs /\ e.attempts[q].sql = d.attempts[q].sql

-----------------------------------------------------------------------------
(* The helpers of the reducers.                                             *)

\* advanceStatus raises statuses only, and only those of its goals.
LEMMA AdvancedFields ==
  ASSUME NEW d \in Domain, NEW goals, NEW s \in Statuses, NEW e, e = Advanced(d, goals, s)
  PROVE  /\ e \in Domain
         /\ KeepsPlan(d, e) /\ KeepsEvidence(d, e) /\ KeepsContext(d, e)
         /\ Rises(d, e)
         /\ \A g \in Goals : e.status[g] = Reported => d.status[g] = Reported \/ (g \in goals /\ s = Reported)
<1>. DEFINE f == [g \in Goals |-> IF g \in goals /\ s > d.status[g] THEN s ELSE d.status[g]]
<1>1. e = [d EXCEPT !.status = f]
  BY DEF Advanced
<1>2. d.status \in [Goals -> 0..4]
  BY DEF Domain, Statuses
<1>3. f \in [Goals -> 0..4]
  BY <1>2 DEF Statuses
<1>4. e \in Domain
  BY <1>1, <1>3 DEF Domain, Statuses
<1>5. e.status = f
  BY <1>1 DEF Domain
<1>6. KeepsPlan(d, e) /\ KeepsEvidence(d, e) /\ KeepsContext(d, e)
  BY <1>1 DEF KeepsPlan, KeepsEvidence, KeepsContext, Domain
<1>7. Rises(d, e)
  BY <1>2, <1>5 DEF Rises, Statuses
<1>. QED
  BY <1>2, <1>4, <1>5, <1>6, <1>7 DEF Reported, Statuses

\* updateCurrentAttempt touches the current attempt only.
LEMMA WithCurrentFields ==
  ASSUME NEW d \in Domain, NEW a \in Attempt, NEW e, e = WithCurrent(d, a)
  PROVE  /\ e \in Domain
         /\ KeepsEvidence(d, e) /\ KeepsContext(d, e)
         /\ e.current = d.current /\ e.validated = d.validated /\ e.executed = d.executed
         /\ e.passed = d.passed /\ e.refs = d.refs /\ e.status = d.status
         /\ d.current # None => e.attempts[d.current] = a
         /\ \A q \in Queries : q # d.current => e.attempts[q] = d.attempts[q]
<1>1. CASE d.current = None
  BY <1>1 DEF WithCurrent, KeepsEvidence, KeepsContext
<1>2. CASE d.current # None
  <2>1. d.current \in Queries /\ d.attempts \in [Queries -> Attempt]
    BY <1>2 DEF Domain
  <2>. DEFINE f == [d.attempts EXCEPT ![d.current] = a]
  <2>2. f \in [Queries -> Attempt] /\ f[d.current] = a
        /\ \A q \in Queries : q # d.current => f[q] = d.attempts[q]
    BY <2>1
  <2>3. e = [d EXCEPT !.attempts = f]
    BY <1>2 DEF WithCurrent, Domain
  <2>4. e \in Domain
    BY <2>2, <2>3 DEF Domain
  <2>5. e.attempts = f
    BY <2>3 DEF Domain
  <2>6. /\ KeepsEvidence(d, e) /\ KeepsContext(d, e)
        /\ e.current = d.current /\ e.validated = d.validated /\ e.executed = d.executed
        /\ e.passed = d.passed /\ e.refs = d.refs /\ e.status = d.status
    BY <2>3 DEF KeepsEvidence, KeepsContext, Domain
  <2>. QED BY <2>2, <2>4, <2>5, <2>6
<1>. QED BY <1>1, <1>2

LEMMA CurrentAttemptType ==
  ASSUME NEW d \in Domain
  PROVE  CurrentAttempt(d) \in Attempt /\ CurrentReqs(d) \subseteq Requirements
<1>1. NoAttempt \in Attempt
  BY DEF NoAttempt, Attempt, Texts
<1>2. CurrentAttempt(d) \in Attempt
  BY <1>1 DEF CurrentAttempt, Domain
<1>. QED BY <1>2 DEF CurrentReqs, Attempt

\* Queried, Validated and Evidenced are statuses below Reported.
LEMMA BelowReported ==
  ASSUME NEW d \in Domain, NEW goals, NEW s \in {Queried, Validated, Evidenced},
         NEW e, e = Advanced(d, goals, s)
  PROVE  /\ e \in Domain
         /\ KeepsPlan(d, e) /\ KeepsEvidence(d, e) /\ KeepsContext(d, e)
         /\ Rises(d, e) /\ NoReports(d, e)
<1>1. s \in Statuses /\ s # Reported
  BY DEF Statuses, Queried, Validated, Evidenced, Reported
<1>. QED
  BY <1>1, AdvancedFields DEF NoReports, Goals

-----------------------------------------------------------------------------
(* The reducers.                                                            *)

LEMMA InspectedFields ==
  ASSUME domain \in Domain, NEW e \in Inspected(domain)
  PROVE  /\ e \in Domain
         /\ KeepsPlan(domain, e) /\ KeepsEvidence(domain, e)
         /\ Rises(domain, e) /\ NoReports(domain, e) /\ e.inspected
<1>. DEFINE d1 == [domain EXCEPT !.inspected = TRUE, !.grounded = @ \/ Requirements = {}]
<1>1. /\ d1 \in Domain /\ d1.status = domain.status /\ d1.inspected
      /\ KeepsPlan(domain, d1) /\ KeepsEvidence(domain, d1)
  BY DEF Domain, KeepsPlan, KeepsEvidence
<1>2. e = Advanced(d1, {"CORE_SCHEMA"}, Validated)
  BY DEF Inspected
<1>3. /\ e \in Domain /\ KeepsPlan(d1, e) /\ KeepsEvidence(d1, e)
      /\ KeepsContext(d1, e) /\ Rises(d1, e) /\ NoReports(d1, e)
  BY ONLY <1>1, <1>2, BelowReported
<1>. QED
  BY <1>1, <1>3 DEF KeepsPlan, KeepsEvidence, KeepsContext, Rises, NoReports

LEMMA ResolvedFields ==
  ASSUME domain \in Domain, NEW e \in Resolved(domain)
  PROVE  /\ e \in Domain
         /\ KeepsPlan(domain, e) /\ KeepsEvidence(domain, e)
         /\ Rises(domain, e) /\ NoReports(domain, e)
<1>1. PICK found \in BOOLEAN, changed \in BOOLEAN : e = ResolvedTo(domain, found, changed)
  BY DEF Resolved
<1>. DEFINE d1 == [domain EXCEPT !.resolved = found,
                     !.grounded = Requirements = {} \/ (@ /\ ~changed)]
            goals == IF found THEN {"CORE_SEMANTIC"} ELSE {}
<1>2. /\ d1 \in Domain /\ d1.status = domain.status
      /\ KeepsPlan(domain, d1) /\ KeepsEvidence(domain, d1)
  BY DEF Domain, KeepsPlan, KeepsEvidence
<1>3. e = Advanced(d1, goals, Validated)
  BY <1>1 DEF ResolvedTo
<1>4. /\ e \in Domain /\ KeepsPlan(d1, e) /\ KeepsEvidence(d1, e)
      /\ Rises(d1, e) /\ NoReports(d1, e)
  <2>. HIDE DEF d1, goals
  <2>. QED BY <1>2, <1>3, BelowReported
<1>. QED
  BY <1>2, <1>4 DEF KeepsPlan, KeepsEvidence, Rises, NoReports

LEMMA GroundedFields ==
  ASSUME domain \in Domain, calls \in [Calls -> Call],
         NEW c \in Calls, NEW e \in Grounded(domain, c)
  PROVE  /\ e \in Domain
         /\ KeepsPlan(domain, e) /\ KeepsEvidence(domain, e)
         /\ e.status = calls[c].clone
<1>1. calls[c].clone \in [Goals -> Statuses]
  BY DEF Call
<1>. QED
  BY <1>1 DEF Grounded, Domain, KeepsPlan, KeepsEvidence

LEMMA PlannedFields ==
  ASSUME domain \in Domain, calls \in [Calls -> Call],
         NEW c \in Queries, NEW e \in Planned(domain, c)
  PROVE  /\ e \in Domain
         /\ KeepsEvidence(domain, e) /\ KeepsContext(domain, e)
         /\ Rises(domain, e) /\ NoReports(domain, e)
         /\ e.current = c /\ ~e.passed /\ e.refs = {} /\ e.attempts[c].sql = calls[c].sql
         /\ \A q \in Queries : q # c => e.attempts[q] = domain.attempts[q]
<1>. DEFINE a == [NoAttempt EXCEPT !.status = "planned", !.reqs = calls[c].reqs,
                    !.sql = calls[c].sql]
            f == [domain.attempts EXCEPT ![c] = a]
            d1 == [domain EXCEPT !.current = c, !.validated = FALSE, !.executed = FALSE,
                     !.passed = FALSE, !.refs = {}, !.attempts = f]
<1>1. calls[c].reqs \subseteq Requirements /\ calls[c].sql \in Texts
  BY DEF Calls, Call
<1>2. a \in Attempt /\ a.sql = calls[c].sql
  BY <1>1 DEF NoAttempt, Attempt
<1>3. /\ f \in [Queries -> Attempt] /\ f[c] = a
      /\ \A q \in Queries : q # c => f[q] = domain.attempts[q]
  <2>1. domain.attempts \in [Queries -> Attempt]
    BY DEF Domain
  <2>. HIDE DEF a
  <2>. QED BY <1>2, <2>1
<1>4. e = Advanced(d1, calls[c].reqs, Queried)
  BY DEF Planned
<1>5. /\ d1 \in Domain /\ d1.status = domain.status
      /\ d1.current = c /\ ~d1.passed /\ d1.refs = {} /\ d1.attempts = f
      /\ KeepsEvidence(domain, d1) /\ KeepsContext(domain, d1)
  <2>. HIDE DEF f
  <2>. QED BY <1>3 DEF Domain, KeepsEvidence, KeepsContext
<1>6. /\ e \in Domain /\ KeepsPlan(d1, e) /\ KeepsEvidence(d1, e) /\ KeepsContext(d1, e)
      /\ Rises(d1, e) /\ NoReports(d1, e)
  <2>. HIDE DEF d1
  <2>. QED BY <1>4, <1>5, BelowReported
<1>. HIDE DEF d1, f, a
<1>. QED
  BY <1>2, <1>3, <1>5, <1>6 DEF KeepsPlan, KeepsEvidence, KeepsContext, Rises, NoReports

\* A reducer that marks the current attempt leaves its plan alone.
LEMMA MarkedFields ==
  ASSUME NEW d \in Domain, NEW a \in Attempt, NEW e, e = WithCurrent(d, a),
         a.reqs = CurrentAttempt(d).reqs, a.sql = CurrentAttempt(d).sql
  PROVE  KeepsTexts(d, e)
<1>. SUFFICES ASSUME NEW q \in Queries
     PROVE e.attempts[q].reqs = d.attempts[q].reqs /\ e.attempts[q].sql = d.attempts[q].sql
  BY DEF KeepsTexts
<1>1. CASE q = d.current
  <2>1. d.current # None
    BY <1>1, CallsAssumption DEF Calls
  <2>2. e.attempts[q] = a
    BY <1>1, <2>1, WithCurrentFields
  <2>. QED BY <1>1, <2>1, <2>2 DEF CurrentAttempt
<1>2. CASE q # d.current
  BY <1>2, WithCurrentFields
<1>. QED BY <1>1, <1>2

LEMMA QueryValidatedFields ==
  ASSUME domain \in Domain, NEW c \in Queries, NEW e \in QueryValidated(domain, c)
  PROVE  /\ e \in Domain
         /\ KeepsEvidence(domain, e) /\ KeepsContext(domain, e) /\ KeepsTexts(domain, e)
         /\ Rises(domain, e) /\ NoReports(domain, e)
         /\ e.current = domain.current /\ e.passed = domain.passed /\ e.refs = domain.refs
         /\ \A q \in Queries : e.attempts[q].verified = domain.attempts[q].verified
         /\ e.validated => calls[c].sql # "invalid" /\ CurrentAttempt(domain).sql # "unsound"
<1>1. PICK v \in Verdicts(domain, c) :
        e = Advanced(WithCurrent([domain EXCEPT !.validated = v],
              [CurrentAttempt(domain) EXCEPT !.status = IF v THEN "validated" ELSE "planned"]),
              IF v THEN {"CORE_QUERY"} ELSE {}, Validated)
  BY DEF QueryValidated
<1>2. /\ v \in BOOLEAN
      /\ v => calls[c].sql # "invalid" /\ CurrentAttempt(domain).sql # "unsound"
  BY DEF Verdicts
<1>. DEFINE d1 == [domain EXCEPT !.validated = v]
            a == [CurrentAttempt(domain) EXCEPT !.status = IF v THEN "validated" ELSE "planned"]
            d2 == WithCurrent(d1, a)
<1>3. /\ d1 \in Domain /\ d1.status = domain.status /\ d1.validated = v
      /\ d1.current = domain.current /\ d1.passed = domain.passed /\ d1.refs = domain.refs
      /\ d1.attempts = domain.attempts
      /\ KeepsEvidence(domain, d1) /\ KeepsContext(domain, d1)
  BY <1>2 DEF Domain, KeepsEvidence, KeepsContext
<1>4. CurrentAttempt(d1) = CurrentAttempt(domain)
  BY <1>3 DEF CurrentAttempt
<1>5. /\ a \in Attempt /\ a.reqs = CurrentAttempt(d1).reqs
      /\ a.sql = CurrentAttempt(d1).sql /\ a.verified = CurrentAttempt(d1).verified
  BY <1>4, CurrentAttemptType DEF Attempt
<1>. HIDE DEF d1, a
<1>6. /\ d2 \in Domain /\ KeepsEvidence(d1, d2) /\ KeepsContext(d1, d2)
      /\ d2.current = d1.current /\ d2.validated = d1.validated
      /\ d2.passed = d1.passed /\ d2.refs = d1.refs /\ d2.status = d1.status
      /\ d1.current # None => d2.attempts[d1.current] = a
      /\ \A q \in Queries : q # d1.current => d2.attempts[q] = d1.attempts[q]
  BY <1>3, <1>5, WithCurrentFields
<1>7. KeepsTexts(d1, d2)
  BY <1>3, <1>5, MarkedFields
<1>8. \A q \in Queries : d2.attempts[q].verified = d1.attempts[q].verified
  BY <1>5, <1>6, CallsAssumption DEF CurrentAttempt, Calls
<1>. HIDE DEF d2
<1>9. e = Advanced(d2, IF v THEN {"CORE_QUERY"} ELSE {}, Validated)
  BY <1>1 DEF d2, d1, a
<1>10. /\ e \in Domain /\ KeepsPlan(d2, e) /\ KeepsEvidence(d2, e) /\ KeepsContext(d2, e)
       /\ Rises(d2, e) /\ NoReports(d2, e)
  BY <1>6, <1>9, BelowReported
<1>. QED
  BY <1>2, <1>3, <1>6, <1>7, <1>8, <1>10
  DEF KeepsPlan, KeepsEvidence, KeepsContext, KeepsTexts, Rises, NoReports

LEMMA ExecutedFields ==
  ASSUME domain \in Domain, NEW c \in Queries, NEW e \in Executed(domain, c)
  PROVE  /\ e \in Domain
         /\ KeepsEvidence(domain, e) /\ KeepsContext(domain, e) /\ KeepsTexts(domain, e)
         /\ e.status = domain.status
         /\ e.current = domain.current /\ ~e.passed /\ e.refs \subseteq {c}
         /\ e.validated = domain.validated /\ e.executed
<1>1. PICK stored \in BOOLEAN :
        e = WithCurrent([domain EXCEPT !.executed = TRUE, !.passed = FALSE,
                           !.refs = IF stored THEN {c} ELSE {}],
              [CurrentAttempt(domain) EXCEPT !.status = "executed",
                 !.artifact = IF stored THEN c ELSE @])
  BY DEF Executed
<1>. DEFINE d1 == [domain EXCEPT !.executed = TRUE, !.passed = FALSE,
                     !.refs = IF stored THEN {c} ELSE {}]
            a == [CurrentAttempt(domain) EXCEPT !.status = "executed",
                    !.artifact = IF stored THEN c ELSE @]
<1>2. /\ d1 \in Domain /\ d1.status = domain.status /\ d1.validated = domain.validated
      /\ d1.current = domain.current /\ ~d1.passed /\ d1.refs \subseteq {c} /\ d1.executed
      /\ d1.attempts = domain.attempts
      /\ KeepsEvidence(domain, d1) /\ KeepsContext(domain, d1)
  BY DEF Domain, KeepsEvidence, KeepsContext
<1>3. CurrentAttempt(d1) = CurrentAttempt(domain)
  BY <1>2 DEF CurrentAttempt
<1>4. /\ a \in Attempt /\ a.reqs = CurrentAttempt(d1).reqs /\ a.sql = CurrentAttempt(d1).sql
  BY <1>3, CurrentAttemptType DEF Attempt
<1>5. e = WithCurrent(d1, a)
  BY <1>1
<1>. HIDE DEF d1, a
<1>6. KeepsTexts(d1, e)
  BY <1>2, <1>4, <1>5, MarkedFields
<1>7. /\ e \in Domain /\ KeepsEvidence(d1, e) /\ KeepsContext(d1, e)
      /\ e.current = d1.current /\ e.validated = d1.validated /\ e.executed = d1.executed
      /\ e.passed = d1.passed /\ e.refs = d1.refs /\ e.status = d1.status
  BY ONLY <1>2, <1>4, <1>5, WithCurrentFields
<1>. QED
  BY <1>2, <1>6, <1>7 DEF KeepsEvidence, KeepsContext, KeepsTexts

LEMMA CheckedFields ==
  ASSUME domain \in Domain, calls \in [Calls -> Call],
         NEW c \in Queries, NEW e \in Checked(domain, c)
  PROVE  /\ e \in Domain
         /\ KeepsEvidence(domain, e) /\ KeepsContext(domain, e) /\ KeepsTexts(domain, e)
         /\ Rises(domain, e) /\ NoReports(domain, e)
         /\ e.current = domain.current /\ e.passed = calls[c].valid /\ e.refs = domain.refs
         /\ e.validated = domain.validated
         /\ calls[c].valid /\ domain.current # None => e.attempts[domain.current].verified
<1>0. PICK verified \in VerifiedValues(c) :
        e = Advanced(WithCurrent([domain EXCEPT !.passed = calls[c].valid],
                                 [CurrentAttempt(domain) EXCEPT !.verified = verified]),
              IF calls[c].valid THEN {"CORE_RESULT"} \cup CurrentReqs(domain) ELSE {}, Validated)
  BY DEF Checked
<1>. DEFINE d1 == [domain EXCEPT !.passed = calls[c].valid]
            a == [CurrentAttempt(domain) EXCEPT !.verified = verified]
            d2 == WithCurrent(d1, a)
<1>1. /\ calls[c].valid \in BOOLEAN /\ verified \in BOOLEAN
      /\ calls[c].valid => verified
  BY DEF Calls, Call, VerifiedValues
<1>2. /\ d1 \in Domain /\ d1.status = domain.status /\ d1.validated = domain.validated
      /\ d1.current = domain.current /\ d1.passed = calls[c].valid /\ d1.refs = domain.refs
      /\ d1.attempts = domain.attempts
      /\ KeepsEvidence(domain, d1) /\ KeepsContext(domain, d1)
  BY <1>1 DEF Domain, KeepsEvidence, KeepsContext
<1>3. CurrentAttempt(d1) = CurrentAttempt(domain)
  BY <1>2 DEF CurrentAttempt
<1>4. /\ a \in Attempt /\ a.reqs = CurrentAttempt(d1).reqs
      /\ a.sql = CurrentAttempt(d1).sql /\ a.verified = verified
  BY <1>1, <1>3, CurrentAttemptType DEF Attempt
<1>5. e = Advanced(d2, IF calls[c].valid THEN {"CORE_RESULT"} \cup CurrentReqs(domain) ELSE {},
                   Validated)
  BY <1>0 DEF d1, d2, a
<1>. HIDE DEF d1, a
<1>6. /\ d2 \in Domain /\ KeepsEvidence(d1, d2) /\ KeepsContext(d1, d2)
      /\ d2.current = d1.current /\ d2.validated = d1.validated
      /\ d2.passed = d1.passed /\ d2.refs = d1.refs /\ d2.status = d1.status
      /\ d1.current # None => d2.attempts[d1.current] = a
  BY <1>2, <1>4, WithCurrentFields
<1>7. KeepsTexts(d1, d2)
  BY <1>2, <1>4, MarkedFields
<1>. HIDE DEF d2
<1>8. /\ e \in Domain /\ KeepsPlan(d2, e) /\ KeepsEvidence(d2, e) /\ KeepsContext(d2, e)
      /\ Rises(d2, e) /\ NoReports(d2, e)
  BY <1>5, <1>6, BelowReported
<1>9. d1.current # None => e.attempts[d1.current] = a
  BY <1>6, <1>8 DEF KeepsPlan
<1>10. a.verified <=> verified
  BY <1>4
<1>11. calls[c].valid /\ domain.current # None => e.attempts[domain.current].verified
  BY <1>1, <1>2, <1>9, <1>10
<1>. QED
  BY <1>2, <1>4, <1>6, <1>7, <1>8, <1>11
  DEF KeepsPlan, KeepsEvidence, KeepsContext, KeepsTexts, Rises, NoReports

LEMMA BoundFields ==
  ASSUME domain \in Domain, calls \in [Calls -> Call],
         NEW c \in Queries, NEW e \in Bound(domain, c)
  PROVE  /\ e \in Domain
         /\ KeepsContext(domain, e) /\ KeepsTexts(domain, e)
         /\ Rises(domain, e) /\ NoReports(domain, e)
         /\ CurrentReqs(domain) # {} => domain.passed
         /\ e.current = domain.current /\ e.passed = domain.passed
         /\ e.refs = domain.refs \cup {c} /\ e.claims = domain.claims
         /\ e.validated = domain.validated
         /\ e.bindings = domain.bindings \cup NewBindings(domain, c)
         /\ \A q \in Queries : e.attempts[q].verified = domain.attempts[q].verified
<1>. DEFINE d1 == [domain EXCEPT !.refs = @ \cup {c}, !.bindings = @ \cup NewBindings(domain, c)]
            a == [CurrentAttempt(domain) EXCEPT !.status = "evidenced"]
            d2 == WithCurrent(d1, a)
            d3 == Advanced(d2, CurrentReqs(domain), Evidenced)
<1>1. NewBindings(domain, c) \subseteq Binding
  BY CurrentAttemptType DEF NewBindings, Binding, Domain
<1>2. /\ d1 \in Domain /\ d1.status = domain.status /\ d1.validated = domain.validated
      /\ d1.current = domain.current /\ d1.passed = domain.passed
      /\ d1.refs = domain.refs \cup {c} /\ d1.claims = domain.claims
      /\ d1.bindings = domain.bindings \cup NewBindings(domain, c)
      /\ d1.attempts = domain.attempts
      /\ KeepsContext(domain, d1)
  BY <1>1 DEF Domain, KeepsContext
<1>3. CurrentAttempt(d1) = CurrentAttempt(domain)
  BY <1>2 DEF CurrentAttempt
<1>4. /\ a \in Attempt /\ a.reqs = CurrentAttempt(d1).reqs
      /\ a.sql = CurrentAttempt(d1).sql /\ a.verified = CurrentAttempt(d1).verified
  BY <1>3, CurrentAttemptType DEF Attempt
<1>5. /\ CurrentReqs(domain) # {} => domain.passed
      /\ e = Advanced(d3, {"CORE_EVIDENCE"}, Evidenced)
  BY DEF Bound
<1>. HIDE DEF d1, a
<1>6. /\ d2 \in Domain /\ KeepsEvidence(d1, d2) /\ KeepsContext(d1, d2)
      /\ d2.current = d1.current /\ d2.validated = d1.validated
      /\ d2.passed = d1.passed /\ d2.refs = d1.refs /\ d2.status = d1.status
      /\ d1.current # None => d2.attempts[d1.current] = a
      /\ \A q \in Queries : q # d1.current => d2.attempts[q] = d1.attempts[q]
  BY <1>2, <1>4, WithCurrentFields
<1>7. KeepsTexts(d1, d2)
  BY <1>2, <1>4, MarkedFields
<1>8. \A q \in Queries : d2.attempts[q].verified = d1.attempts[q].verified
  BY <1>4, <1>6, CallsAssumption DEF CurrentAttempt, Calls
<1>. HIDE DEF d2
<1>9. /\ d3 \in Domain /\ KeepsPlan(d2, d3) /\ KeepsEvidence(d2, d3) /\ KeepsContext(d2, d3)
      /\ Rises(d2, d3) /\ NoReports(d2, d3)
  BY <1>6, BelowReported
<1>. HIDE DEF d3
<1>10. /\ e \in Domain /\ KeepsPlan(d3, e) /\ KeepsEvidence(d3, e) /\ KeepsContext(d3, e)
       /\ Rises(d3, e) /\ NoReports(d3, e)
  BY <1>5, <1>9, BelowReported
<1>11. Rises(domain, e)
  <2>. SUFFICES ASSUME NEW g \in Goals PROVE e.status[g] >= domain.status[g]
    BY DEF Rises
  <2>1. /\ d2.status[g] \in Nat /\ d3.status[g] \in Nat /\ e.status[g] \in Nat
        /\ d2.status = domain.status
    BY <1>2, <1>6, <1>9, <1>10 DEF Domain, Statuses
  <2>. QED BY <1>9, <1>10, <2>1 DEF Rises
<1>. QED
  BY <1>2, <1>5, <1>6, <1>7, <1>8, <1>9, <1>10, <1>11
  DEF KeepsPlan, KeepsEvidence, KeepsContext, KeepsTexts, NoReports

LEMMA CommittedFields ==
  ASSUME domain \in Domain, calls \in [Calls -> Call],
         NEW c \in Calls, NEW e \in Committed(domain, c)
  PROVE  /\ e \in Domain
         /\ KeepsPlan(domain, e) /\ KeepsContext(domain, e)
         /\ Rises(domain, e) /\ e.bindings = domain.bindings
         /\ \A r \in Requirements :
              /\ domain.claims[r] \subseteq e.claims[r]
              /\ e.claims[r] \subseteq domain.claims[r] \cup domain.bindings
              /\ e.status[r] = Reported => domain.status[r] = Reported \/ Cited(e, r)
<1>1. PICK cited \in [Requirements -> SUBSET domain.bindings] :
        /\ \A r \in Requirements :
             IF r \in calls[c].reqs THEN Citable(domain, r, cited[r]) ELSE cited[r] = {}
        /\ e = Advanced([domain EXCEPT !.claims = [r \in Requirements |-> domain.claims[r] \cup cited[r]]],
                        calls[c].reqs, Reported)
  BY DEF Committed
<1>. DEFINE f == [r \in Requirements |-> domain.claims[r] \cup cited[r]]
            d1 == [domain EXCEPT !.claims = f]
<1>2. /\ f \in [Requirements -> SUBSET Binding]
      /\ \A r \in Requirements : f[r] = domain.claims[r] \cup cited[r]
  BY <1>1 DEF Domain
<1>. HIDE DEF f
<1>3. /\ d1 \in Domain /\ d1.status = domain.status /\ d1.bindings = domain.bindings
      /\ d1.claims = f /\ KeepsPlan(domain, d1) /\ KeepsContext(domain, d1)
  BY <1>2 DEF Domain, KeepsPlan, KeepsContext
<1>4. e = Advanced(d1, calls[c].reqs, Reported)
  BY <1>1 DEF f
<1>. HIDE DEF d1
<1>5. Reported \in Statuses
  BY DEF Reported, Statuses
<1>6. /\ e \in Domain /\ KeepsPlan(d1, e) /\ KeepsEvidence(d1, e) /\ KeepsContext(d1, e)
      /\ Rises(d1, e)
      /\ \A g \in Goals : e.status[g] = Reported => d1.status[g] = Reported \/ g \in calls[c].reqs
  BY ONLY <1>3, <1>4, <1>5, AdvancedFields
<1>7. /\ e.attempts = domain.attempts /\ e.claims = f
  BY <1>3, <1>6 DEF KeepsPlan, KeepsEvidence
<1>8. ASSUME NEW r \in Requirements, r \in calls[c].reqs PROVE Cited(e, r)
  <2>1. Citable(domain, r, cited[r])
    BY <1>1, <1>8
  <2>. QED
    BY <1>2, <1>7, <2>1 DEF Citable, Cited
<1>. QED
  BY <1>1, <1>2, <1>3, <1>6, <1>7, <1>8 DEF KeepsPlan, KeepsEvidence, KeepsContext, Rises, Goals

-----------------------------------------------------------------------------
(* A step of a call.                                                        *)

LEMMA CallTypes ==
  /\ Uncalled \in Call /\ [Uncalled EXCEPT !.at = "settled"] \in Call
  /\ Uncalled.clone = Unmet /\ ~Uncalled.begun
  /\ \A r \in Goals : Unmet[r] # Reported
<1>1. Unmet \in [Goals -> Statuses] /\ \A r \in Goals : Unmet[r] # Reported
  BY DEF Unmet, Statuses, Pending, Reported
<1>. QED
  BY <1>1 DEF Uncalled, Call, Texts, Steps

\* What a settled call looks like.
LEMMA SettledCall ==
  ASSUME TypeOK, NEW c \in Calls, Settles(c)
  PROVE  /\ calls' \in [Calls -> Call]
         /\ \A b \in Calls : b # c => calls'[b] = calls[b]
         /\ calls'[c].at = "settled" /\ ~calls'[c].begun /\ calls'[c].clone = Unmet
<1>. DEFINE x == [Uncalled EXCEPT !.at = "settled"]
<1>1. x \in Call /\ x.at = "settled" /\ ~x.begun /\ x.clone = Unmet
  BY CallTypes DEF Uncalled
<1>. HIDE DEF x
<1>2. calls' = [calls EXCEPT ![c] = x]
  BY DEF Settles, x
<1>. QED BY <1>1, <1>2 DEF TypeOK

LEMMA ReducedCall ==
  ASSUME TypeOK, CallKinds, NEW c \in Calls, Succeed(c)
  PROVE  /\ calls[c].at \in Actions /\ calls[c].begun
         /\ calls' \in [Calls -> Call]
         /\ \A b \in Calls : b # c => calls'[b] = calls[b]
         /\ calls'[c].at = After(c) /\ ~calls'[c].begun
         /\ calls'[c].clone = Unmet \/ calls'[c].clone = calls[c].clone
         /\ After(c) # "settled" =>
              /\ calls'[c].sql = calls[c].sql /\ calls'[c].valid = calls[c].valid
              /\ calls[c].at = "run" => calls'[c].stored = (domain'.refs # {})
<1>1. calls[c].begun /\ calls[c].at \in Actions
  BY DEF Succeed, CallKinds
<1>2. After(c) \in Steps
  BY <1>1 DEF After, Steps, Actions
<1>3. CASE After(c) = "settled"
  BY <1>1, <1>3, SettledCall DEF Succeed
<1>4. CASE After(c) # "settled"
  <2>. DEFINE st == IF calls[c].at = "run" THEN domain'.refs # {} ELSE calls[c].stored
              x == [calls[c] EXCEPT !.at = After(c), !.begun = FALSE, !.stored = st]
  <2>1. calls[c] \in Call
    BY DEF TypeOK
  <2>2. st \in BOOLEAN
    BY <2>1 DEF Call
  <2>3. /\ x \in Call /\ x.at = After(c) /\ ~x.begun /\ x.clone = calls[c].clone
        /\ x.sql = calls[c].sql /\ x.valid = calls[c].valid /\ x.stored = st
    <3>. HIDE DEF st
    <3>. QED BY <1>2, <2>1, <2>2 DEF Call
  <2>4. calls' = [calls EXCEPT ![c] = x]
    BY <1>4 DEF Succeed
  <2>. HIDE DEF x
  <2>. QED BY <1>1, <1>4, <2>3, <2>4 DEF TypeOK
<1>. QED BY <1>3, <1>4

\* Where an action leads.
LEMMA AfterAction ==
  ASSUME NEW c, calls[c].at \in Actions
  PROVE  /\ calls[c].at = "inspect" => After(c) = "resolve"
         /\ calls[c].at = "resolve" => After(c) = "resolved"
         /\ calls[c].at = "plan" => After(c) = "validate"
         /\ calls[c].at = "validate" => After(c) = "contract"
         /\ calls[c].at = "run" => After(c) = "ran"
         /\ calls[c].at = "check" =>
              After(c) = IF calls[c].stored /\ calls[c].valid THEN "bind" ELSE "settled"
         /\ calls[c].at \in {"ground", "bind", "commit", "write"} => After(c) = "settled"
BY DEF After, Actions

\* Where a phase leads: never back to an earlier one before the contract is grounded.
LEMMA PhaseSteps ==
  ASSUME phase \in Phases, NEW action \in Actions, NEW d, NEW p, p = NextPhase(phase, action, d)
  PROVE  /\ p \in Phases
         /\ p = "scope" => phase = "scope"
         /\ p = "scope" /\ action = "inspect" => ~d.inspected
         /\ p = "semantic_grounding" => phase \in {"scope", "semantic_grounding"}
         /\ phase = "semantic_grounding" /\ ~d.grounded => p = "semantic_grounding"
         /\ phase = "execution" /\ action = "run" /\ d.executed => p = "validation"
         /\ phase \in {"validation", "synthesis"} /\ action # "plan" =>
              p \in {"validation", "synthesis"}
         /\ phase \in {"validation", "synthesis"} /\ action = "check" /\ d.passed /\ d.refs # {} =>
              p = "synthesis"
         /\ phase = "synthesis" /\ action # "plan" => p = "synthesis"
BY DEF NextPhase, Phases, Allowed, Actions

\* What a successful action may do to the state of the segment.
ReducedTo(d, e, c) ==
  LET at == calls[c].at
  IN  /\ e \in Domain
      /\ IF at = "plan" THEN e.current = c ELSE e.current = d.current
      /\ \A q \in Queries :
           at # "plan" \/ q # c =>
             e.attempts[q].reqs = d.attempts[q].reqs /\ e.attempts[q].sql = d.attempts[q].sql
      /\ d.bindings \subseteq e.bindings
      /\ \A b \in e.bindings \ d.bindings :
           /\ at = "bind" /\ d.passed /\ d.current # None
           /\ b.attempt = d.current /\ b.artifact = c /\ b.req \in CurrentReqs(d)
      /\ \A r \in Requirements :
           /\ d.claims[r] \subseteq e.claims[r]
           /\ e.claims[r] \subseteq d.claims[r] \cup d.bindings
           /\ e.status[r] = Reported =>
                \/ d.status[r] = Reported \/ Cited(e, r)
                \/ at = "ground" /\ calls[c].clone[r] = Reported
      /\ IF at = "ground" THEN e.status = calls[c].clone ELSE Rises(d, e)
      /\ at \in {"inspect", "resolve", "ground", "commit", "write"} => KeepsPlan(d, e)
      /\ at \notin {"inspect", "resolve", "ground"} => KeepsContext(d, e)
      /\ at = "write" => e = d

LEMMA Same ==
  ASSUME NEW d \in Domain
  PROVE  Rises(d, d)
BY DEF Rises, Domain, Statuses

LEMMA ReducedDomain ==
  ASSUME TypeOK, CallKinds, NEW c \in Calls, Succeed(c)
  PROVE  ReducedTo(domain, domain', c)
<1>. DEFINE at == calls[c].at
<1>1. calls[c].begun /\ at \in Actions /\ domain' \in Reductions(c)
  BY DEF Succeed, CallKinds
<1>2. domain \in Domain /\ calls \in [Calls -> Call]
  BY DEF TypeOK
<1>3. \A r \in Requirements : r \in Goals /\ domain.claims[r] \subseteq domain.claims[r] \cup domain.bindings
  BY DEF Goals
<1>4. CASE at = "inspect"
  <2>1. domain' \in Inspected(domain)
    BY <1>1, <1>4 DEF Reductions
  <2>. QED
    BY <1>2, <1>3, <1>4, <2>1, InspectedFields DEF ReducedTo, KeepsPlan, KeepsEvidence, NoReports
<1>5. CASE at = "resolve"
  <2>1. domain' \in Resolved(domain)
    BY <1>1, <1>5 DEF Reductions
  <2>. QED
    BY <1>2, <1>3, <1>5, <2>1, ResolvedFields DEF ReducedTo, KeepsPlan, KeepsEvidence, NoReports
<1>6. CASE at = "ground"
  <2>1. domain' \in Grounded(domain, c)
    BY <1>1, <1>6 DEF Reductions
  <2>. QED
    BY <1>2, <1>3, <1>6, <2>1, GroundedFields DEF ReducedTo, KeepsPlan, KeepsEvidence, NoReports
<1>7. CASE at = "plan"
  <2>1. domain' \in Planned(domain, c) /\ c \in Queries
    BY <1>1, <1>7 DEF Reductions, CallKinds, QuerySteps
  <2>. QED
    BY <1>2, <1>3, <1>7, <2>1, PlannedFields DEF ReducedTo, KeepsEvidence, NoReports
<1>8. CASE at = "validate"
  <2>1. domain' \in QueryValidated(domain, c) /\ c \in Queries
    BY <1>1, <1>8 DEF Reductions, CallKinds, QuerySteps
  <2>. QED
    BY <1>2, <1>3, <1>8, <2>1, QueryValidatedFields DEF ReducedTo, KeepsEvidence, KeepsTexts, NoReports
<1>9. CASE at = "run"
  <2>1. domain' \in Executed(domain, c) /\ c \in Queries
    BY <1>1, <1>9 DEF Reductions, CallKinds, QuerySteps
  <2>2. Rises(domain, domain')
    BY <1>2, <2>1, ExecutedFields, Same DEF Rises
  <2>. QED
    BY <1>2, <1>3, <1>9, <2>1, <2>2, ExecutedFields DEF ReducedTo, KeepsEvidence, KeepsTexts
<1>10. CASE at = "check"
  <2>1. domain' \in Checked(domain, c) /\ c \in Queries
    BY <1>1, <1>10 DEF Reductions, CallKinds, QuerySteps
  <2>. QED
    BY <1>2, <1>3, <1>10, <2>1, CheckedFields DEF ReducedTo, KeepsEvidence, KeepsTexts, NoReports
<1>11. CASE at = "bind"
  <2>1. domain' \in Bound(domain, c) /\ c \in Queries
    BY <1>1, <1>11 DEF Reductions, CallKinds, QuerySteps
  <2>2. \A b \in NewBindings(domain, c) :
          /\ domain.passed /\ domain.current # None
          /\ b.attempt = domain.current /\ b.artifact = c /\ b.req \in CurrentReqs(domain)
    BY DEF NewBindings
  <2>. QED
    BY <1>2, <1>3, <1>11, <2>1, <2>2, BoundFields DEF ReducedTo, KeepsEvidence, KeepsTexts, NoReports
<1>12. CASE at = "commit"
  <2>1. domain' \in Committed(domain, c)
    BY <1>1, <1>12 DEF Reductions
  <2>. QED
    BY <1>2, <1>12, <2>1, CommittedFields DEF ReducedTo, KeepsPlan
<1>13. CASE at = "write"
  <2>1. domain' = domain
    BY <1>1, <1>13 DEF Reductions
  <2>. QED
    BY <1>2, <1>3, <1>13, <2>1, Same DEF ReducedTo, KeepsPlan, KeepsContext
<1>. QED
  BY <1>1, <1>4, <1>5, <1>6, <1>7, <1>8, <1>9, <1>10, <1>11, <1>12, <1>13 DEF Actions

-----------------------------------------------------------------------------
(* A successful action keeps the invariant.                                 *)

\* Before the contract is grounded only inspections and files succeed.
LEMMA EarlySuccess ==
  ASSUME IInv, NEW c \in Calls, Succeed(c), phase \in {"scope", "semantic_grounding"}
  PROVE  calls[c].at \in {"inspect", "resolve", "ground", "write"}
<1>1. calls[c].begun /\ calls[c].at \in Actions
  BY DEF Succeed, IInv, CallKinds
<1>2. c \notin Queries \cup Commits
  BY <1>1 DEF IInv, EarlyPhases
<1>. QED
  BY <1>1, <1>2 DEF IInv, CallKinds, QuerySteps, Actions

\* No status falls back when no two groundings were in flight at once.
LEMMA SuccessRises ==
  ASSUME IInv, NEW c \in Calls, Succeed(c), ~overlapped
  PROVE  Rises(domain, domain')
<1>1. ReducedTo(domain, domain', c)
  BY ReducedDomain DEF IInv
<1>2. CASE calls[c].at # "ground"
  BY <1>1, <1>2 DEF ReducedTo
<1>3. CASE calls[c].at = "ground"
  <2>1. c \in Inspects /\ calls[c].begun
    BY <1>3 DEF IInv, CallKinds, InspectSteps, Succeed
  <2>2. calls[c].clone = domain.status
    BY <1>3, <2>1 DEF IInv, GroundingIsCurrent
  <2>. QED
    BY <1>1, <1>3, <2>2, Same DEF ReducedTo, Rises, IInv, TypeOK
<1>. QED BY <1>2, <1>3

LEMMA SuccessCalls ==
  ASSUME IInv, NEW c \in Calls, Succeed(c)
  PROVE  TypeOK' /\ CallKinds' /\ Alone' /\ PlannedOnce' /\ DecidedIsIdle' /\ CompletedIsBacked'
<1>1. /\ calls[c].at \in Actions /\ calls[c].begun
      /\ calls' \in [Calls -> Call]
      /\ \A b \in Calls : b # c => calls'[b] = calls[b]
      /\ calls'[c].at = After(c) /\ ~calls'[c].begun
  BY ReducedCall DEF IInv
<1>2. ReducedTo(domain, domain', c)
  BY ReducedDomain DEF IInv
<1>3. UNCHANGED <<decision, overlapped>> /\ phase' = NextPhase(phase, calls[c].at, domain')
  BY DEF Succeed
<1>4. phase' \in Phases
  BY <1>1, <1>3, PhaseSteps DEF IInv, TypeOK
<1>5. TypeOK'
  BY <1>1, <1>2, <1>3, <1>4 DEF IInv, TypeOK, ReducedTo
<1>6. After(c) \notin {"unused", "commit", "write"} \cup {"inspect", "ground", "plan"}
  BY <1>1, AfterAction DEF Actions
<1>7. CallKinds'
  BY <1>1, AfterAction DEF IInv, CallKinds, QuerySteps, InspectSteps, Actions
<1>8. \A b \in Calls : InFlight(b)' => InFlight(b)
  BY <1>1 DEF InFlight, Actions
<1>9. Alone'
  BY <1>3, <1>8 DEF IInv, Alone
<1>10. \A q \in Calls : HasPlanned(q) => HasPlanned(q)'
  BY <1>1, <1>6 DEF HasPlanned
<1>11. HasPlanned(c)'
  BY <1>1, <1>6 DEF HasPlanned
<1>12. domain.current \in Queries \cup {None} /\ Queries \subseteq Calls
       /\ \A b \in domain.bindings \cup domain'.bindings : b.attempt \in Queries
  BY <1>2 DEF IInv, TypeOK, Domain, Calls, ReducedTo, Binding
<1>13. PlannedOnce'
  <2>1. domain'.current # None => calls'[domain'.current].at \notin {"unused", "plan"}
    BY <1>2, <1>10, <1>11, <1>12 DEF IInv, PlannedOnce, HasPlanned, ReducedTo
  <2>2. ASSUME NEW b \in domain'.bindings PROVE HasPlanned(b.attempt)'
    BY <1>2, <1>10, <1>12, <2>2 DEF IInv, PlannedOnce, ReducedTo
  <2>. QED BY <2>1, <2>2 DEF PlannedOnce, HasPlanned
<1>14. decision = "none"
  BY <1>1 DEF IInv, DecidedIsIdle, InFlight, Actions
<1>. QED
  BY <1>3, <1>5, <1>7, <1>9, <1>13, <1>14 DEF DecidedIsIdle, CompletedIsBacked

\* A requirement that was cited stays cited: claims and bindings only grow, and the
\* attempts they name have been planned.
LEMMA CitedStays ==
  ASSUME IInv, NEW c \in Calls, Succeed(c), NEW r \in Requirements, Cited(domain, r)
  PROVE  Cited(domain', r)
<1>1. ReducedTo(domain, domain', c)
  BY ReducedDomain DEF IInv
<1>2. domain'.claims[r] # {}
  BY <1>1 DEF Cited, ReducedTo
<1>3. ASSUME r \in Valued
      PROVE  \E b \in domain'.claims[r] : r \in domain'.attempts[b.attempt].reqs
  <2>1. PICK b \in domain.claims[r] : r \in domain.attempts[b.attempt].reqs
    BY <1>3 DEF Cited
  <2>2. b \in domain.bindings
    BY <2>1 DEF IInv, ClaimsAreEvidenced
  <2>3. b.attempt \in Queries /\ calls[b.attempt].at # "plan"
    BY <2>2 DEF IInv, TypeOK, Domain, Binding, PlannedOnce, HasPlanned
  <2>4. domain'.attempts[b.attempt].reqs = domain.attempts[b.attempt].reqs
    BY <1>1, <2>3 DEF ReducedTo
  <2>5. b \in domain'.claims[r]
    BY <1>1, <2>1 DEF ReducedTo
  <2>. QED BY <2>1, <2>4, <2>5
<1>. QED BY <1>2, <1>3 DEF Cited

LEMMA SuccessClaims ==
  ASSUME IInv, NEW c \in Calls, Succeed(c)
  PROVE  ClaimsAreEvidenced' /\ ClonesAreEvidenced'
<1>1. ReducedTo(domain, domain', c)
  BY ReducedDomain DEF IInv
<1>2. ASSUME NEW r \in Requirements, domain'.status[r] = Reported PROVE Cited(domain', r)
  <2>1. domain.status[r] = Reported \/ Cited(domain', r) \/ calls[c].clone[r] = Reported
    BY <1>1, <1>2 DEF ReducedTo
  <2>2. domain.status[r] = Reported \/ calls[c].clone[r] = Reported => Cited(domain, r)
    BY DEF IInv, ClaimsAreEvidenced, ClonesAreEvidenced, Cited
  <2>. QED BY <2>1, <2>2, CitedStays
<1>3. \A r \in Requirements : domain'.claims[r] \subseteq domain'.bindings
  BY <1>1 DEF ReducedTo, IInv, ClaimsAreEvidenced
<1>4. ClaimsAreEvidenced'
  BY <1>2, <1>3 DEF ClaimsAreEvidenced, Cited
<1>5. ASSUME NEW b \in Calls, NEW r \in Requirements, calls'[b].clone[r] = Reported
      PROVE  Cited(domain', r)
  <2>1. calls'[b].clone = Unmet \/ calls'[b].clone = calls[b].clone
    BY ReducedCall DEF IInv
  <2>2. calls[b].clone[r] = Reported
    BY <1>5, <2>1, CallTypes DEF Goals
  <2>. QED BY <2>2, CitedStays DEF IInv, ClonesAreEvidenced
<1>. QED BY <1>4, <1>5 DEF ClonesAreEvidenced, Cited

LEMMA SuccessPhases ==
  ASSUME IInv, NEW c \in Calls, Succeed(c)
  PROVE  EarlyPhases' /\ GroundingIsCurrent' /\ ReportsWait'
<1>1. /\ calls[c].at \in Actions /\ calls[c].begun
      /\ \A b \in Calls : b # c => calls'[b] = calls[b]
      /\ calls'[c].at = After(c) /\ ~calls'[c].begun
  BY ReducedCall DEF IInv
<1>2. ReducedTo(domain, domain', c)
  BY ReducedDomain DEF IInv
<1>3. overlapped' = overlapped /\ phase' = NextPhase(phase, calls[c].at, domain')
  BY DEF Succeed
<1>4. /\ phase' = "scope" => phase = "scope"
      /\ phase' = "scope" /\ calls[c].at = "inspect" => ~domain'.inspected
      /\ phase' = "semantic_grounding" => phase \in {"scope", "semantic_grounding"}
      /\ phase = "semantic_grounding" /\ ~domain'.grounded => phase' = "semantic_grounding"
  BY <1>1, <1>3, PhaseSteps DEF IInv, TypeOK
<1>5. Inspects \subseteq Calls /\ Queries \subseteq Calls /\ Commits \subseteq Calls
  BY DEF Calls
<1>6. EarlyPhases'
  <2>1. ASSUME phase' = "scope", NEW i \in Inspects
        PROVE  calls'[i].at \in {"unused", "inspect", "settled"}
    <3>1. calls[i].at \in {"unused", "inspect", "settled"}
      BY <1>4, <2>1 DEF IInv, EarlyPhases
    <3>2. CASE i # c
      BY <1>1, <1>5, <3>1, <3>2
    <3>3. CASE i = c
      <4>1. calls[c].at = "inspect"
        BY <1>1, <3>1, <3>3 DEF Actions
      <4>2. domain' \in Inspected(domain)
        BY <4>1 DEF Succeed, Reductions
      <4>3. domain'.inspected
        BY <4>2, InspectedFields DEF IInv, TypeOK
      <4>. QED BY <1>4, <2>1, <4>1, <4>3
    <3>. QED BY <3>2, <3>3
  <2>2. ASSUME phase' \in {"scope", "semantic_grounding"}, NEW q \in Queries \cup Commits
        PROVE  ~calls'[q].begun /\ calls'[q].at \in {"unused", "plan", "commit", "settled"}
    <3>1. ~calls[q].begun /\ calls[q].at \in {"unused", "plan", "commit", "settled"}
      BY <1>4, <2>2 DEF IInv, EarlyPhases
    <3>. QED BY <1>1, <1>5, <3>1
  <2>. QED BY <2>1, <2>2 DEF EarlyPhases
<1>7. GroundingIsCurrent'
  <2>1. SUFFICES ASSUME ~overlapped, NEW i \in Inspects, calls'[i].at = "ground"
        PROVE  /\ calls'[i].begun => phase' = "semantic_grounding"
               /\ phase' = "semantic_grounding" =>
                    calls'[i].clone = domain'.status /\ ~domain'.grounded
    BY <1>3 DEF GroundingIsCurrent
  <2>2. i # c
    BY <1>1, <2>1, AfterAction DEF Actions
  <2>3. calls'[i] = calls[i] /\ calls[i].at = "ground"
    BY <1>1, <1>5, <2>1, <2>2
  <2>4. c \notin Inspects
    BY <1>1, <1>5, <2>1, <2>2, <2>3 DEF IInv, Alone, InFlight, Actions
  <2>5. /\ calls[i].begun => phase = "semantic_grounding"
        /\ phase = "semantic_grounding" => calls[i].clone = domain.status /\ ~domain.grounded
    BY <2>1, <2>3 DEF IInv, GroundingIsCurrent
  <2>6. phase = "semantic_grounding" => domain' = domain
    BY <1>2, <2>4, EarlySuccess DEF IInv, CallKinds, InspectSteps, ReducedTo
  <2>7. phase # "scope"
    BY <2>1, <2>3 DEF IInv, EarlyPhases
  <2>. QED BY <1>4, <2>3, <2>5, <2>6, <2>7
<1>8. ReportsWait'
  <2>1. SUFFICES ASSUME ~overlapped, NEW b \in Calls, calls'[b].at = "write",
                        NEW r \in Requirements
        PROVE  domain'.status[r] = Reported
    BY <1>3 DEF ReportsWait, AllReported
  <2>2. b # c
    BY <1>1, <2>1, AfterAction DEF Actions
  <2>3. domain.status[r] = Reported
    BY <1>1, <2>1, <2>2 DEF IInv, ReportsWait, AllReported
  <2>4. domain'.status[r] >= domain.status[r] /\ domain'.status[r] \in 0..4
    BY <1>2, <2>1, SuccessRises DEF Rises, Goals, ReducedTo, Domain, Statuses
  <2>. QED BY <2>3, <2>4 DEF Reported
<1>. QED BY <1>6, <1>7, <1>8

\* While queries run one at a time, the one at work is the one whose attempt is current.
LEMMA SuccessQueries ==
  ASSUME IInv, NEW c \in Calls, Succeed(c)
  PROVE  QueriesAreCurrent' /\ EvidenceIsOwn'
<1>1. /\ calls[c].at \in Actions /\ calls[c].begun
      /\ \A b \in Calls : b # c => calls'[b] = calls[b]
      /\ calls'[c].at = After(c)
      /\ After(c) # "settled" => calls'[c].sql = calls[c].sql
  BY ReducedCall DEF IInv
<1>2. ReducedTo(domain, domain', c)
  BY ReducedDomain DEF IInv
<1>3. overlapped' = overlapped
  BY DEF Succeed
<1>4. Queries \subseteq Calls /\ None \notin Queries
  BY CallsAssumption DEF Calls
<1>5. domain \in Domain /\ calls \in [Calls -> Call]
  BY DEF IInv, TypeOK
<1>6. QueriesAreCurrent'
  <2>1. SUFFICES ASSUME ~overlapped, NEW q \in Queries
        PROVE  /\ calls'[q].at \in QuerySteps \ {"plan"} =>
                    domain'.current = q /\ domain'.attempts[q].sql = calls'[q].sql
               /\ calls'[q].at = "contract" /\ domain'.validated => calls'[q].sql = "sound"
               /\ calls'[q].at \in {"run", "ran", "check", "bind"} => calls'[q].sql = "sound"
    BY <1>3 DEF QueriesAreCurrent
  <2>2. /\ calls[q].at \in QuerySteps \ {"plan"} =>
             domain.current = q /\ domain.attempts[q].sql = calls[q].sql
        /\ calls[q].at = "contract" /\ domain.validated => calls[q].sql = "sound"
        /\ calls[q].at \in {"run", "ran", "check", "bind"} => calls[q].sql = "sound"
    BY <2>1 DEF IInv, QueriesAreCurrent
  <2>3. CASE q # c
    <3>1. calls'[q] = calls[q]
      BY <1>1, <1>4, <2>3
    <3>2. ASSUME calls[q].at \in QuerySteps \ {"plan"} PROVE KeepsPlan(domain, domain')
      <4>1. c \notin Queries
        BY <1>1, <1>4, <2>1, <2>3, <3>2 DEF IInv, Alone, InFlight, Actions, QuerySteps
      <4>2. calls[c].at \in {"inspect", "resolve", "ground", "commit", "write"}
        BY <1>1, <4>1 DEF IInv, CallKinds, QuerySteps, Actions
      <4>. QED BY <1>2, <4>2 DEF ReducedTo
    <3>. QED BY <2>2, <3>1, <3>2 DEF KeepsPlan, QuerySteps
  <2>4. CASE q = c
    <3>1. calls[c].at \in QuerySteps
      BY <1>1, <1>4, <2>4, CallsAssumption DEF IInv, CallKinds, InspectSteps, QuerySteps, Actions
    <3>2. CASE calls[c].at = "plan"
      <4>1. domain' \in Planned(domain, c)
        BY <3>2 DEF Succeed, Reductions
      <4>2. domain'.current = c /\ domain'.attempts[c].sql = calls[c].sql
        BY <1>5, <2>4, <4>1, PlannedFields
      <4>. QED BY <1>1, <2>4, <3>2, <4>2, AfterAction
    <3>3. CASE calls[c].at # "plan"
      <4>1. /\ domain.current = c /\ domain'.current = c
            /\ domain'.attempts[c].sql = calls[c].sql
            /\ domain.attempts[c].sql = calls[c].sql
        BY <1>2, <2>2, <2>4, <3>1, <3>3 DEF ReducedTo
      <4>2. ASSUME calls[c].at = "validate", domain'.validated PROVE calls[c].sql = "sound"
        <5>1. domain' \in QueryValidated(domain, c)
          BY <4>2 DEF Succeed, Reductions
        <5>2. calls[c].sql # "invalid" /\ CurrentAttempt(domain).sql # "unsound"
          BY <1>5, <2>4, <4>2, <5>1, QueryValidatedFields
        <5>3. CurrentAttempt(domain).sql = calls[c].sql /\ calls[c].sql \in Texts
          BY <1>4, <1>5, <2>4, <4>1 DEF CurrentAttempt, Call
        <5>. QED BY <5>2, <5>3 DEF Texts
      <4>3. /\ calls[c].at = "validate" => After(c) = "contract"
            /\ calls[c].at = "run" => After(c) = "ran"
            /\ calls[c].at = "check" => After(c) \in {"bind", "settled"}
            /\ calls[c].at = "bind" => After(c) = "settled"
        BY <1>1, AfterAction
      <4>4. calls[c].at \in {"validate", "run", "check", "bind"}
        BY <1>1, <3>1, <3>3 DEF QuerySteps, Actions
      <4>. QED BY <1>1, <2>2, <2>4, <4>1, <4>2, <4>3, <4>4 DEF QuerySteps
    <3>. QED BY <3>2, <3>3
  <2>. QED BY <2>3, <2>4
<1>7. EvidenceIsOwn'
  <2>1. SUFFICES ASSUME ~overlapped, NEW b \in domain'.bindings
        PROVE  Backed(domain', b)
    BY <1>3 DEF EvidenceIsOwn, Backed
  <2>2. b.attempt \in Queries
    BY <1>2 DEF ReducedTo, Domain, Binding
  <2>3. CASE b \in domain.bindings
    <3>1. Backed(domain, b) /\ calls[b.attempt].at # "plan"
      BY <2>1, <2>3 DEF IInv, EvidenceIsOwn, PlannedOnce, HasPlanned
    <3>2. /\ domain'.attempts[b.attempt].reqs = domain.attempts[b.attempt].reqs
          /\ domain'.attempts[b.attempt].sql = domain.attempts[b.attempt].sql
      BY <1>2, <2>2, <3>1 DEF ReducedTo
    <3>. QED BY <3>1, <3>2 DEF Backed
  <2>4. CASE b \notin domain.bindings
    <3>1. /\ calls[c].at = "bind" /\ domain.current # None
          /\ b.attempt = domain.current /\ b.artifact = c /\ b.req \in CurrentReqs(domain)
      BY <1>2, <2>1, <2>4 DEF ReducedTo
    <3>2. c \in Queries
      BY <3>1 DEF IInv, CallKinds, QuerySteps
    <3>3. /\ domain.current = c /\ domain.attempts[c].sql = calls[c].sql
          /\ calls[c].sql = "sound"
      BY <2>1, <3>1, <3>2 DEF IInv, QueriesAreCurrent, QuerySteps
    <3>4. /\ domain'.attempts[c].reqs = domain.attempts[c].reqs
          /\ domain'.attempts[c].sql = domain.attempts[c].sql
      BY <1>2, <3>1, <3>2 DEF ReducedTo
    <3>. QED BY <3>1, <3>3, <3>4 DEF Backed, CurrentReqs, CurrentAttempt
  <2>. QED BY <2>3, <2>4
<1>. QED BY <1>6, <1>7

\* Bindings of the current attempt are not lost while its plan is kept.
LEMMA BoundStays ==
  ASSUME IInv, NEW c \in Calls, Succeed(c), CurrentBound,
         domain.current \in Queries, domain'.current = domain.current, calls[c].at # "plan"
  PROVE  CurrentBound'
<1>1. ReducedTo(domain, domain', c)
  BY ReducedDomain DEF IInv
<1>2. domain.current # None
  BY CallsAssumption DEF Calls
<1>3. CurrentReqs(domain)' = CurrentReqs(domain)
  BY <1>1, <1>2 DEF CurrentReqs, CurrentAttempt, ReducedTo
<1>4. domain.bindings \subseteq domain'.bindings
  BY <1>1 DEF ReducedTo
<1>. QED BY <1>3, <1>4 DEF CurrentBound

LEMMA SuccessVerified ==
  ASSUME IInv, NEW c \in Calls, Succeed(c), domain'.passed, domain'.current # None
  PROVE  domain'.attempts[domain'.current].verified
<1>1. /\ calls[c].at \in Actions /\ domain \in Domain /\ calls \in [Calls -> Call]
      /\ ReducedTo(domain, domain', c)
  BY ReducedCall, ReducedDomain DEF IInv, TypeOK
<1>2. domain'.current \in Queries
  BY <1>1 DEF ReducedTo, Domain
<1>3. domain.passed /\ domain.current # None => domain.attempts[domain.current].verified
  BY DEF IInv, CurrentIsBacked
<1>4. calls[c].at \in QuerySteps => c \in Queries
  BY DEF IInv, CallKinds
<1>5. CASE calls[c].at = "plan"
  <2>1. domain' \in Planned(domain, c) /\ c \in Queries
    BY <1>4, <1>5 DEF Succeed, Reductions, QuerySteps
  <2>. QED BY <1>1, <2>1, PlannedFields
<1>6. CASE calls[c].at = "validate"
  <2>1. domain' \in QueryValidated(domain, c) /\ c \in Queries
    BY <1>4, <1>6 DEF Succeed, Reductions, QuerySteps
  <2>. QED BY <1>1, <1>2, <1>3, <2>1, QueryValidatedFields
<1>7. CASE calls[c].at = "run"
  <2>1. domain' \in Executed(domain, c) /\ c \in Queries
    BY <1>4, <1>7 DEF Succeed, Reductions, QuerySteps
  <2>. QED BY <1>1, <2>1, ExecutedFields
<1>8. CASE calls[c].at = "check"
  <2>1. domain' \in Checked(domain, c) /\ c \in Queries
    BY <1>4, <1>8 DEF Succeed, Reductions, QuerySteps
  <2>. QED BY <1>1, <2>1, CheckedFields
<1>9. CASE calls[c].at = "bind"
  <2>1. domain' \in Bound(domain, c) /\ c \in Queries
    BY <1>4, <1>9 DEF Succeed, Reductions, QuerySteps
  <2>. QED BY <1>1, <1>2, <1>3, <2>1, BoundFields
<1>10. CASE calls[c].at \in {"inspect", "resolve", "ground", "commit", "write"}
  BY <1>1, <1>3, <1>10 DEF ReducedTo, KeepsPlan
<1>. QED
  BY <1>1, <1>5, <1>6, <1>7, <1>8, <1>9, <1>10 DEF Actions

LEMMA SuccessBacked ==
  ASSUME IInv, NEW c \in Calls, Succeed(c)
  PROVE  CurrentIsBacked'
<1>1. /\ calls[c].at \in Actions /\ calls[c].begun
      /\ \A b \in Calls : b # c => calls'[b] = calls[b]
      /\ calls'[c].at = After(c) /\ ~calls'[c].begun
      /\ calls[c].at = "run" /\ After(c) # "settled" => calls'[c].stored = (domain'.refs # {})
  BY ReducedCall DEF IInv
<1>2. ReducedTo(domain, domain', c) /\ domain \in Domain /\ calls \in [Calls -> Call]
  BY ReducedDomain DEF IInv, TypeOK
<1>3. overlapped' = overlapped /\ phase' = NextPhase(phase, calls[c].at, domain')
  BY DEF Succeed
<1>4. Queries \subseteq Calls /\ None \notin Queries
  BY CallsAssumption DEF Calls
<1>. DEFINE cur == domain'.current
<1>5. SUFFICES ASSUME ~overlapped, domain'.current # None
      PROVE  /\ domain'.refs \subseteq {cur}
             /\ calls'[cur].at \in {"ran", "check"} => calls'[cur].stored = (domain'.refs # {})
             /\ calls'[cur].at = "check" /\ calls'[cur].begun => phase' \in {"validation", "synthesis"}
             /\ calls'[cur].at = "bind" => domain'.passed /\ phase' = "synthesis"
             /\ domain'.passed /\ domain'.refs # {} => calls'[cur].at = "bind" \/ CurrentBound'
  BY <1>3, SuccessVerified DEF CurrentIsBacked
<1>6. cur \in Queries
  BY <1>2, <1>5 DEF ReducedTo, Domain
<1>7. CASE calls[c].at = "plan"
  <2>1. domain' \in Planned(domain, c) /\ c \in Queries
    BY <1>7 DEF Succeed, Reductions, IInv, CallKinds, QuerySteps
  <2>2. cur = c /\ ~domain'.passed /\ domain'.refs = {}
    BY <1>2, <2>1, PlannedFields
  <2>. QED BY <1>1, <1>7, <2>2, AfterAction
<1>8. CASE calls[c].at # "plan"
  <2>1. cur = domain.current /\ domain.current \in Queries
    BY <1>2, <1>6, <1>8 DEF ReducedTo
  <2>2. /\ domain.refs \subseteq {cur}
        /\ calls[cur].at \in {"ran", "check"} => calls[cur].stored = (domain.refs # {})
        /\ calls[cur].at = "check" /\ calls[cur].begun => phase \in {"validation", "synthesis"}
        /\ calls[cur].at = "bind" => domain.passed /\ phase = "synthesis"
        /\ domain.passed /\ domain.refs # {} => calls[cur].at = "bind" \/ CurrentBound
    BY <1>5, <2>1 DEF IInv, CurrentIsBacked
  <2>3. CurrentBound => CurrentBound'
    BY <1>8, <2>1, BoundStays
  <2>4. CASE c \in Queries
    <3>1. calls[c].at \in {"validate", "run", "check", "bind"}
      BY <1>1, <1>8, <2>4, CallsAssumption DEF IInv, CallKinds, InspectSteps, Actions
    <3>2. cur = c
      BY <1>5, <2>1, <2>4, <3>1 DEF IInv, QueriesAreCurrent, QuerySteps
    <3>3. CASE calls[c].at = "validate"
      <4>1. domain' \in QueryValidated(domain, c)
        BY <3>3 DEF Succeed, Reductions
      <4>2. domain'.passed = domain.passed /\ domain'.refs = domain.refs
        BY <1>2, <2>4, <4>1, QueryValidatedFields
      <4>. QED BY <1>1, <2>2, <2>3, <3>2, <3>3, <4>2, AfterAction
    <3>4. CASE calls[c].at = "run"
      <4>1. domain' \in Executed(domain, c)
        BY <3>4 DEF Succeed, Reductions
      <4>2. ~domain'.passed /\ domain'.refs \subseteq {c}
        BY <1>2, <2>4, <4>1, ExecutedFields
      <4>. QED BY <1>1, <3>2, <3>4, <4>2, AfterAction
    <3>5. CASE calls[c].at = "check"
      <4>1. domain' \in Checked(domain, c)
        BY <3>5 DEF Succeed, Reductions
      <4>2. domain'.passed = calls[c].valid /\ domain'.refs = domain.refs
        BY <1>2, <2>4, <4>1, CheckedFields
      <4>3. phase \in {"validation", "synthesis"} /\ calls[c].stored = (domain.refs # {})
        BY <1>1, <2>2, <3>2, <3>5
      <4>4. domain'.passed /\ domain'.refs # {} => phase' = "synthesis"
        BY <1>1, <1>3, <3>5, <4>3, PhaseSteps DEF IInv, TypeOK
      <4>5. After(c) = IF calls[c].stored /\ calls[c].valid THEN "bind" ELSE "settled"
        BY <1>1, <3>5, AfterAction
      <4>. QED BY <1>1, <2>2, <3>2, <4>2, <4>3, <4>4, <4>5
    <3>6. CASE calls[c].at = "bind"
      <4>1. domain' \in Bound(domain, c)
        BY <3>6 DEF Succeed, Reductions
      <4>2. /\ domain'.refs = domain.refs \cup {c}
            /\ domain'.bindings = domain.bindings \cup NewBindings(domain, c)
        BY <1>2, <2>4, <4>1, BoundFields
      <4>3. domain.passed
        BY <2>2, <3>2, <3>6
      <4>4. CurrentReqs(domain)' = CurrentReqs(domain)
        BY <1>2, <1>4, <1>8, <2>1 DEF CurrentReqs, CurrentAttempt, ReducedTo
      <4>5. ASSUME NEW r \in CurrentReqs(domain)
            PROVE  \E b \in domain'.bindings : b.req = r /\ b.attempt = cur
        <5>. DEFINE b == [req |-> r, attempt |-> domain.current, artifact |-> c]
        <5>1. b \in NewBindings(domain, c)
          BY <1>4, <2>1, <4>3, <4>5 DEF NewBindings
        <5>. QED BY <2>1, <4>2, <5>1
      <4>6. CurrentBound'
        BY <2>1, <4>4, <4>5 DEF CurrentBound
      <4>. QED BY <1>1, <2>2, <3>2, <3>6, <4>2, <4>6, AfterAction
    <3>. QED BY <3>1, <3>3, <3>4, <3>5, <3>6
  <2>5. CASE c \notin Queries
    <3>1. calls[c].at \in {"inspect", "resolve", "ground", "commit", "write"}
      BY <1>1, <2>5 DEF IInv, CallKinds, QuerySteps, Actions
    <3>2. KeepsPlan(domain, domain')
      BY <1>2, <3>1 DEF ReducedTo
    <3>3. calls'[cur] = calls[cur]
      BY <1>1, <1>4, <1>6, <2>5
    <3>4. /\ phase \in {"validation", "synthesis"} => phase' \in {"validation", "synthesis"}
          /\ phase = "synthesis" => phase' = "synthesis"
      BY <1>1, <1>3, <1>8, PhaseSteps DEF IInv, TypeOK
    <3>. QED BY <2>2, <2>3, <3>2, <3>3, <3>4 DEF KeepsPlan
  <2>. QED BY <2>4, <2>5
<1>. QED BY <1>7, <1>8

LEMMA SuccessKeeps ==
  ASSUME IInv, NEW c \in Calls, Succeed(c)
  PROVE  IInv'
BY SuccessCalls, SuccessClaims, SuccessPhases, SuccessQueries, SuccessBacked DEF IInv

-----------------------------------------------------------------------------
(* The steps that move one call and leave the segment alone.                *)

\* What a call may become while the segment is left alone.
MayBecome(c, x) ==
  /\ x \in Call
  /\ x.at \in QuerySteps => c \in Queries
  /\ x.at \in InspectSteps => c \in Inspects
  /\ x.at = "commit" => c \in Commits
  /\ x.at = "write" => c \in Reports /\ calls[c].at = "write"
  /\ x.begun => x.at \in Actions
  /\ x.at # "unused" /\ (x.at = "plan" => calls[c].at = "plan")
  /\ \A r \in Requirements : x.clone[r] = Reported =>
       calls[c].clone[r] = Reported \/ domain.status[r] = Reported
  /\ phase = "scope" /\ c \in Inspects => x.at \in {"inspect", "settled"}
  /\ phase \in {"scope", "semantic_grounding"} /\ c \in Queries \cup Commits =>
       ~x.begun /\ x.at \in {"plan", "commit", "settled"}
  /\ ~overlapped /\ x.at = "ground" =>
       /\ x.begun => phase = "semantic_grounding"
       /\ phase = "semantic_grounding" => x.clone = domain.status /\ ~domain.grounded
  /\ ~overlapped /\ c \in Queries =>
       /\ x.at \in QuerySteps \ {"plan"} =>
            domain.current = c /\ domain.attempts[c].sql = x.sql
       /\ x.at = "contract" /\ domain.validated => x.sql = "sound"
       /\ x.at \in {"run", "ran", "check", "bind"} => x.sql = "sound"
  /\ ~overlapped /\ c = domain.current =>
       /\ x.at \in {"ran", "check"} => x.stored = (domain.refs # {})
       /\ x.at = "check" /\ x.begun => phase \in {"validation", "synthesis"}
       /\ x.at = "bind" => domain.passed /\ phase = "synthesis"
       /\ calls[c].at = "bind" => x.at = "bind"

LEMMA MoveKeeps ==
  ASSUME IInv, NEW c \in Calls, InFlight(c), NEW x, MayBecome(c, x),
         calls' = [calls EXCEPT ![c] = x],
         UNCHANGED <<phase, domain, decision, overlapped>>
  PROVE  IInv'
<1>1. /\ calls' \in [Calls -> Call] /\ calls'[c] = x
      /\ \A b \in Calls : b # c => calls'[b] = calls[b]
  BY DEF MayBecome, IInv, TypeOK
<1>2. TypeOK'
  BY <1>1 DEF IInv, TypeOK
<1>3. CallKinds'
  BY <1>1 DEF IInv, CallKinds, MayBecome
<1>4. \A b \in Calls : InFlight(b)' => InFlight(b)
  BY <1>1 DEF InFlight
<1>5. Alone'
  BY <1>4 DEF IInv, Alone
<1>6. \A q \in Calls : HasPlanned(q) => HasPlanned(q)'
  BY <1>1 DEF HasPlanned, MayBecome
<1>7. PlannedOnce'
  <2>1. domain.current # None => domain.current \in Calls
    BY DEF IInv, TypeOK, Domain, Calls
  <2>2. \A b \in domain.bindings : b.attempt \in Calls
    BY DEF IInv, TypeOK, Domain, Binding, Calls
  <2>. QED BY <1>6, <2>1, <2>2 DEF IInv, PlannedOnce, HasPlanned
<1>8. ClaimsAreEvidenced' /\ EvidenceIsOwn'
  BY DEF IInv, ClaimsAreEvidenced, EvidenceIsOwn, Backed
<1>9. ClonesAreEvidenced'
  <2>1. \A r \in Requirements : domain.status[r] = Reported => Cited(domain, r)
    BY DEF IInv, ClaimsAreEvidenced, Cited
  <2>2. \A b \in Calls, r \in Requirements :
          calls'[b].clone[r] = Reported => calls[b].clone[r] = Reported \/ domain.status[r] = Reported
    BY <1>1 DEF MayBecome
  <2>. QED BY <2>1, <2>2 DEF IInv, ClonesAreEvidenced, Cited
<1>10. Inspects \subseteq Calls /\ Queries \subseteq Calls /\ Commits \subseteq Calls
  BY DEF Calls
<1>11. EarlyPhases'
  BY <1>1, <1>10 DEF IInv, EarlyPhases, MayBecome
<1>12. GroundingIsCurrent'
  BY <1>1, <1>10 DEF IInv, GroundingIsCurrent, MayBecome
<1>13. ReportsWait'
  BY <1>1 DEF IInv, ReportsWait, AllReported, MayBecome
<1>14. QueriesAreCurrent'
  BY <1>1, <1>10 DEF IInv, QueriesAreCurrent, MayBecome
<1>15. CurrentIsBacked'
  <2>1. domain.current # None => domain.current \in Calls
    BY DEF IInv, TypeOK, Domain, Calls
  <2>2. CurrentBound' = CurrentBound
    BY DEF CurrentBound, CurrentReqs, CurrentAttempt
  <2>3. CASE domain.current = c
    BY <1>1, <2>1, <2>2, <2>3 DEF IInv, CurrentIsBacked, MayBecome
  <2>4. CASE domain.current # c
    BY <1>1, <2>1, <2>2, <2>4 DEF IInv, CurrentIsBacked
  <2>. QED BY <2>3, <2>4
<1>16. decision = "none"
  BY DEF IInv, DecidedIsIdle
<1>17. DecidedIsIdle' /\ CompletedIsBacked'
  BY <1>16 DEF DecidedIsIdle, CompletedIsBacked
<1>. QED
  BY <1>2, <1>3, <1>5, <1>7, <1>8, <1>9, <1>11, <1>12, <1>13, <1>14, <1>15, <1>17 DEF IInv

\* A call may settle at any point, except between a passing result and its binding.
LEMMA SettlesKeeps ==
  ASSUME IInv, NEW c \in Calls, InFlight(c), Settles(c), calls[c].at = "bind" => overlapped,
         UNCHANGED <<phase, domain, decision, overlapped>>
  PROVE  IInv'
<1>. DEFINE x == [Uncalled EXCEPT !.at = "settled"]
<1>1. x \in Call /\ x.at = "settled" /\ ~x.begun /\ x.clone = Unmet
  BY CallTypes DEF Uncalled
<1>2. \A r \in Requirements : x.clone[r] # Reported
  BY <1>1, CallTypes DEF Goals
<1>3. calls' = [calls EXCEPT ![c] = x]
  BY DEF Settles
<1>. HIDE DEF x
<1>4. MayBecome(c, x)
  BY <1>1, <1>2 DEF MayBecome, QuerySteps, InspectSteps
<1>. QED BY <1>3, <1>4, MoveKeeps

\* With queries one at a time the binding of a passing result is always admitted.
LEMMA BindIsAdmitted ==
  ASSUME IInv, NEW c \in Calls, calls[c].at = "bind", ~overlapped
  PROVE  phase = "synthesis" /\ domain.passed
<1>1. c \in Queries
  BY DEF IInv, CallKinds, QuerySteps
<1>2. domain.current = c
  BY <1>1 DEF IInv, QueriesAreCurrent, QuerySteps
<1>3. domain.current # None
  BY <1>1, <1>2, CallsAssumption DEF Calls
<1>. QED BY <1>2, <1>3 DEF IInv, CurrentIsBacked

LEMMA BeginKeeps ==
  ASSUME IInv, NEW c \in Calls, Begin(c)
  PROVE  IInv'
<1>1. /\ calls[c].at \in Actions /\ ~calls[c].begun
      /\ UNCHANGED <<phase, domain, decision, overlapped>>
  BY DEF Begin
<1>2. InFlight(c)
  BY <1>1 DEF InFlight, Actions
<1>3. CASE calls[c].at \notin Allowed(phase)
  <2>1. Settles(c)
    BY <1>3 DEF Begin
  <2>2. calls[c].at = "bind" => overlapped
    BY <1>3, BindIsAdmitted DEF Allowed
  <2>. QED BY <1>1, <1>2, <2>1, <2>2, SettlesKeeps
<1>4. CASE calls[c].at \in Allowed(phase)
  <2>. DEFINE x == [calls[c] EXCEPT !.begun = TRUE]
  <2>1. calls' = [calls EXCEPT ![c] = x]
    BY <1>4 DEF Begin
  <2>2. calls[c] \in Call /\ phase \in Phases
    BY DEF IInv, TypeOK
  <2>3. /\ x \in Call /\ x.at = calls[c].at /\ x.begun /\ x.clone = calls[c].clone
        /\ x.sql = calls[c].sql /\ x.stored = calls[c].stored
    BY <2>2 DEF Call
  <2>. HIDE DEF x
  <2>4. /\ calls[c].at = "ground" => phase = "semantic_grounding"
        /\ calls[c].at = "check" => phase \in {"validation", "synthesis"}
        /\ phase \in {"scope", "semantic_grounding"} =>
             calls[c].at \in {"inspect", "write", "resolve", "ground"}
        /\ phase = "scope" => calls[c].at \in {"inspect", "write"}
    BY <1>4, <2>2 DEF Allowed, Phases
  <2>5. phase \in {"scope", "semantic_grounding"} => c \notin Queries \cup Commits
    BY <1>1, <2>4 DEF IInv, EarlyPhases
  <2>6. /\ calls[c].at \in QuerySteps => c \in Queries
        /\ calls[c].at \in InspectSteps => c \in Inspects
        /\ calls[c].at = "commit" => c \in Commits
        /\ calls[c].at = "write" => c \in Reports
    BY DEF IInv, CallKinds
  <2>7. phase = "scope" /\ c \in Inspects => calls[c].at \in {"inspect", "settled"}
    BY <1>1, <2>4 DEF IInv, EarlyPhases, Actions
  <2>8. ~overlapped /\ calls[c].at = "ground" /\ phase = "semantic_grounding" =>
          calls[c].clone = domain.status /\ ~domain.grounded
    BY <2>6 DEF IInv, GroundingIsCurrent, InspectSteps
  <2>9. ~overlapped /\ c \in Queries =>
          /\ calls[c].at \in QuerySteps \ {"plan"} =>
               domain.current = c /\ domain.attempts[c].sql = calls[c].sql
          /\ calls[c].at = "contract" /\ domain.validated => calls[c].sql = "sound"
          /\ calls[c].at \in {"run", "ran", "check", "bind"} => calls[c].sql = "sound"
    BY DEF IInv, QueriesAreCurrent
  <2>10. ~overlapped /\ c = domain.current =>
          /\ calls[c].at \in {"ran", "check"} => calls[c].stored = (domain.refs # {})
          /\ calls[c].at = "bind" => domain.passed /\ phase = "synthesis"
    BY CallsAssumption, BindIsAdmitted DEF IInv, CurrentIsBacked
  <2>11. MayBecome(c, x)
    BY <1>1, <2>3, <2>4, <2>5, <2>6, <2>7, <2>8, <2>9, <2>10 DEF MayBecome, Actions
  <2>. QED BY <1>1, <1>2, <2>1, <2>11, MoveKeeps
<1>. QED BY <1>3, <1>4

LEMMA FailKeeps ==
  ASSUME IInv, NEW c \in Calls, Fail(c)
  PROVE  IInv'
<1>1. /\ calls[c].begun /\ calls[c].at \in Actions /\ Settles(c)
      /\ UNCHANGED <<phase, domain, decision, overlapped>>
  BY DEF Fail, IInv, CallKinds
<1>2. InFlight(c)
  BY <1>1 DEF InFlight, Actions
<1>3. ASSUME calls[c].at = "bind", ~overlapped PROVE FALSE
  <2>1. domain.passed
    BY <1>3, BindIsAdmitted
  <2>2. Reductions(c) = {}
    BY <1>3 DEF Fail
  <2>3. Reductions(c) # {}
    BY <1>3, <2>1 DEF Reductions, Bound
  <2>. QED BY <2>2, <2>3
<1>. QED BY <1>1, <1>2, <1>3, SettlesKeeps

LEMMA AssertContractKeeps ==
  ASSUME IInv, NEW c \in Calls, AssertContract(c)
  PROVE  IInv'
<1>1. calls[c].at = "contract" /\ UNCHANGED <<phase, domain, decision, overlapped>>
  BY DEF AssertContract
<1>2. InFlight(c) /\ c \in Queries
  BY <1>1 DEF InFlight, IInv, CallKinds, QuerySteps
<1>3. CASE ~domain.validated
  <2>1. Settles(c)
    BY <1>3 DEF AssertContract
  <2>. QED BY <1>1, <1>2, <2>1, SettlesKeeps
<1>4. CASE domain.validated
  <2>. DEFINE y == [calls[c] EXCEPT !.at = "run", !.begun = FALSE]
  <2>1. calls[c] \in Call /\ calls \in [Calls -> Call]
    BY DEF IInv, TypeOK
  <2>2. calls' = [calls EXCEPT ![c] = y]
    BY <1>4, <2>1 DEF AssertContract, Goes
  <2>3. /\ y \in Call /\ y.at = "run" /\ ~y.begun /\ y.clone = calls[c].clone
        /\ y.sql = calls[c].sql
    BY <2>1 DEF Call, Steps, Actions
  <2>. HIDE DEF y
  <2>4. phase \notin {"scope", "semantic_grounding"}
    BY <1>1, <1>2 DEF IInv, EarlyPhases
  <2>5. ~overlapped => /\ domain.current = c /\ domain.attempts[c].sql = calls[c].sql
                       /\ calls[c].sql = "sound"
    BY <1>1, <1>2, <1>4 DEF IInv, QueriesAreCurrent, QuerySteps
  <2>6. MayBecome(c, y)
    BY <1>1, <1>2, <2>3, <2>4, <2>5 DEF MayBecome, InspectSteps
  <2>. QED BY <1>1, <1>2, <2>2, <2>6, MoveKeeps
<1>. QED BY <1>3, <1>4

LEMMA AutomateGroundingKeeps ==
  ASSUME IInv, NEW c \in Calls, AutomateGrounding(c)
  PROVE  IInv'
<1>1. calls[c].at = "resolved" /\ UNCHANGED <<phase, domain, decision, overlapped>>
  BY DEF AutomateGrounding
<1>2. InFlight(c) /\ c \in Inspects /\ ~calls[c].begun
  BY <1>1 DEF InFlight, IInv, CallKinds, InspectSteps, Actions
<1>3. CASE Requirements = {} \/ domain.grounded
  <2>1. Settles(c)
    BY <1>3 DEF AutomateGrounding
  <2>. QED BY <1>1, <1>2, <2>1, SettlesKeeps
<1>4. CASE ~(Requirements = {} \/ domain.grounded)
  <2>. DEFINE x == [calls[c] EXCEPT !.at = "ground", !.clone = domain.status]
  <2>1. calls[c] \in Call /\ calls \in [Calls -> Call] /\ domain.status \in [Goals -> Statuses]
    BY DEF IInv, TypeOK, Domain
  <2>2. calls' = [calls EXCEPT ![c] = x]
    BY <1>4, <2>1 DEF AutomateGrounding
  <2>3. x \in Call /\ x.at = "ground" /\ ~x.begun /\ x.clone = domain.status
    BY <1>2, <2>1 DEF Call, Steps, Actions
  <2>. HIDE DEF x
  <2>4. phase # "scope"
    BY <1>1, <1>2 DEF IInv, EarlyPhases
  <2>5. c \notin Queries \cup Commits /\ c # domain.current
    BY <1>2, CallsAssumption DEF IInv, TypeOK, Domain, Calls
  <2>6. MayBecome(c, x)
    BY <1>2, <1>4, <2>3, <2>4, <2>5 DEF MayBecome, QuerySteps
  <2>. QED BY <1>1, <1>2, <2>2, <2>6, MoveKeeps
<1>. QED BY <1>3, <1>4

LEMMA AutomateEvidenceKeeps ==
  ASSUME IInv, NEW c \in Calls, AutomateEvidence(c)
  PROVE  IInv'
<1>1. calls[c].at = "ran" /\ UNCHANGED <<phase, domain, decision, overlapped>>
  BY DEF AutomateEvidence
<1>2. InFlight(c) /\ c \in Queries /\ ~calls[c].begun
  BY <1>1 DEF InFlight, IInv, CallKinds, QuerySteps, Actions
<1>3. PICK valid \in BOOLEAN : calls' = [calls EXCEPT ![c].at = "check", ![c].valid = valid]
  BY DEF AutomateEvidence, Verifications
<1>. DEFINE x == [calls[c] EXCEPT !.at = "check", !.valid = valid]
<1>4. calls[c] \in Call /\ calls \in [Calls -> Call]
  BY DEF IInv, TypeOK
<1>5. calls' = [calls EXCEPT ![c] = x]
  BY <1>3, <1>4
<1>6. /\ x \in Call /\ x.at = "check" /\ ~x.begun /\ x.clone = calls[c].clone
      /\ x.sql = calls[c].sql /\ x.stored = calls[c].stored
  BY <1>2, <1>4 DEF Call, Steps, Actions
<1>. HIDE DEF x
<1>7. phase \notin {"scope", "semantic_grounding"}
  BY <1>1, <1>2 DEF IInv, EarlyPhases
<1>8. ~overlapped => /\ domain.current = c /\ domain.attempts[c].sql = calls[c].sql
                     /\ calls[c].sql = "sound"
  BY <1>1, <1>2 DEF IInv, QueriesAreCurrent, QuerySteps
<1>9. ~overlapped /\ c = domain.current => calls[c].stored = (domain.refs # {})
  BY <1>1, <1>2, CallsAssumption DEF IInv, CurrentIsBacked, Calls
<1>10. MayBecome(c, x)
  BY <1>1, <1>2, <1>6, <1>7, <1>8, <1>9 DEF MayBecome, InspectSteps
<1>. QED BY <1>1, <1>2, <1>5, <1>10, MoveKeeps

-----------------------------------------------------------------------------
(* A tool is called, and the agent stops.                                   *)

LEMMA EnterKeeps ==
  ASSUME IInv, NEW c \in Calls, Enter(c)
  PROVE  IInv'
<1>1. PICK reqs \in SUBSET Requirements, sql \in Texts :
        calls' = [calls EXCEPT ![c] =
          [Uncalled EXCEPT !.reqs = reqs, !.sql = sql, !.at = First(c)]]
  BY DEF Enter
<1>. DEFINE x == [Uncalled EXCEPT !.reqs = reqs, !.sql = sql, !.at = First(c)]
<1>2. /\ decision = "none" /\ calls[c].at = "unused"
      /\ UNCHANGED <<phase, domain, decision>>
      /\ overlapped' = (overlapped \/ \E b \in Rivals(c) : InFlight(b))
      /\ c \in Reports => AllReported(domain)
  BY DEF Enter
<1>3. First(c) \in {"inspect", "plan", "commit", "write"}
      /\ (First(c) = "inspect" => c \in Inspects) /\ (First(c) = "plan" => c \in Queries)
      /\ (First(c) = "commit" => c \in Commits) /\ (First(c) = "write" => c \in Reports)
  BY DEF First, Calls
<1>4. /\ c \in Inspects => First(c) = "inspect"
      /\ c \in Queries => First(c) = "plan"
      /\ c \in Commits => First(c) = "commit"
  BY CallsAssumption DEF First
<1>5. x \in Call /\ x.at = First(c) /\ ~x.begun /\ x.clone = Unmet
  BY <1>3, CallTypes DEF Call, Uncalled, Steps, Actions
<1>6. calls' = [calls EXCEPT ![c] = x]
  BY <1>1
<1>. HIDE DEF x
<1>7. /\ calls' \in [Calls -> Call] /\ calls'[c] = x
      /\ \A b \in Calls : b # c => calls'[b] = calls[b]
  BY <1>5, <1>6 DEF IInv, TypeOK
<1>8. TypeOK'
  BY <1>2, <1>7 DEF IInv, TypeOK
<1>9. CallKinds'
  BY <1>3, <1>5, <1>7 DEF IInv, CallKinds, QuerySteps, InspectSteps
<1>10. Inspects \subseteq Calls /\ Queries \subseteq Calls /\ Commits \subseteq Calls
       /\ Reports \subseteq Calls
  BY DEF Calls
<1>11. ~overlapped' => ~overlapped /\ \A b \in Rivals(c) : ~InFlight(b)
  BY <1>2
<1>12. Alone'
  <2>. SUFFICES ASSUME ~overlapped', NEW a \in Calls, NEW b \in Calls, a # b,
                       InFlight(a)', InFlight(b)',
                       {a, b} \subseteq Inspects \/ {a, b} \subseteq Queries
       PROVE FALSE
    BY DEF Alone
  <2>1. CASE a # c /\ b # c
    BY <1>7, <1>11, <2>1 DEF IInv, Alone, InFlight
  <2>2. CASE a = c
    BY <1>7, <1>11, <2>2, CallsAssumption DEF Rivals, InFlight
  <2>3. CASE b = c
    BY <1>7, <1>11, <2>3, CallsAssumption DEF Rivals, InFlight
  <2>. QED BY <2>1, <2>2, <2>3
<1>13. \A q \in Calls : HasPlanned(q) => q # c /\ HasPlanned(q)'
  BY <1>2, <1>7 DEF HasPlanned
<1>14. /\ domain.current # None => domain.current \in Calls
       /\ \A b \in domain.bindings : b.attempt \in Calls
  BY DEF IInv, TypeOK, Domain, Binding, Calls
<1>15. PlannedOnce' /\ (domain.current # None => domain.current # c)
  BY <1>2, <1>13, <1>14 DEF IInv, PlannedOnce, HasPlanned
<1>16. ClaimsAreEvidenced' /\ EvidenceIsOwn'
  BY <1>2, <1>11 DEF IInv, ClaimsAreEvidenced, EvidenceIsOwn, Backed
<1>17. ClonesAreEvidenced'
  <2>1. \A r \in Requirements : x.clone[r] # Reported
    BY <1>5, CallTypes DEF Goals
  <2>. QED BY <1>2, <1>7, <2>1 DEF IInv, ClonesAreEvidenced, Cited
<1>18. EarlyPhases'
  BY <1>2, <1>4, <1>5, <1>7, <1>10 DEF IInv, EarlyPhases
<1>19. GroundingIsCurrent'
  BY <1>2, <1>3, <1>5, <1>7, <1>10, <1>11 DEF IInv, GroundingIsCurrent
<1>20. ReportsWait'
  BY <1>2, <1>3, <1>5, <1>7, <1>11 DEF IInv, ReportsWait, AllReported
<1>21. QueriesAreCurrent'
  BY <1>2, <1>4, <1>5, <1>7, <1>10, <1>11 DEF IInv, QueriesAreCurrent, QuerySteps
<1>22. CurrentIsBacked'
  <2>1. CurrentBound' = CurrentBound
    BY <1>2 DEF CurrentBound, CurrentReqs, CurrentAttempt
  <2>. QED BY <1>2, <1>7, <1>11, <1>14, <1>15, <2>1 DEF IInv, CurrentIsBacked
<1>23. DecidedIsIdle' /\ CompletedIsBacked'
  BY <1>2 DEF DecidedIsIdle, CompletedIsBacked
<1>. QED
  BY <1>8, <1>9, <1>12, <1>15, <1>16, <1>17, <1>18, <1>19, <1>20, <1>21, <1>22, <1>23
  DEF IInv

\* The agent stops when no call is in flight: what is bound is bound for good.
LEMMA ProposeKeeps ==
  ASSUME IInv, ProposeCompletion
  PROVE  IInv'
<1>1. /\ \A c \in Calls : ~InFlight(c)
      /\ decision' \in {"completed", "partial"} /\ (decision' = "completed" => GoalsMet(domain))
      /\ UNCHANGED <<phase, domain, calls, overlapped>>
  BY DEF ProposeCompletion
<1>2. TypeOK' /\ CallKinds' /\ Alone' /\ PlannedOnce'
  BY <1>1 DEF IInv, TypeOK, CallKinds, Alone, InFlight, PlannedOnce, HasPlanned
<1>3. ClaimsAreEvidenced' /\ ClonesAreEvidenced' /\ EarlyPhases'
  BY <1>1 DEF IInv, ClaimsAreEvidenced, ClonesAreEvidenced, Cited, EarlyPhases
<1>4. GroundingIsCurrent' /\ ReportsWait' /\ QueriesAreCurrent' /\ EvidenceIsOwn'
  BY <1>1
  DEF IInv, GroundingIsCurrent, ReportsWait, AllReported, QueriesAreCurrent, EvidenceIsOwn, Backed
<1>5. CurrentBound' = CurrentBound /\ CurrentReqs(domain)' = CurrentReqs(domain)
  BY <1>1 DEF CurrentBound, CurrentReqs, CurrentAttempt
<1>6. CurrentIsBacked'
  BY <1>1, <1>5 DEF IInv, CurrentIsBacked
<1>7. DecidedIsIdle'
  BY <1>1 DEF DecidedIsIdle, InFlight
<1>8. ASSUME decision' = "completed"
      PROVE  /\ \A r \in Requirements : domain.claims[r] # {}
             /\ ~overlapped => /\ domain.refs = {domain.current}
                               /\ domain.attempts[domain.current].verified
                               /\ CurrentBound
  <2>1. /\ domain.current # None /\ domain.passed /\ domain.refs # {}
        /\ \A r \in Requirements : domain.status[r] = Reported
    BY <1>1, <1>8 DEF GoalsMet, Complete
  <2>2. \A r \in Requirements : domain.claims[r] # {}
    BY <2>1 DEF IInv, ClaimsAreEvidenced
  <2>3. domain.current \in Calls /\ calls[domain.current].at # "bind"
    BY <1>1, <2>1 DEF IInv, TypeOK, Domain, Calls, InFlight
  <2>. QED BY <2>1, <2>2, <2>3 DEF IInv, CurrentIsBacked
<1>9. CompletedIsBacked'
  BY <1>1, <1>5, <1>8 DEF CompletedIsBacked, CurrentBound
<1>. QED BY <1>2, <1>3, <1>4, <1>6, <1>7, <1>9 DEF IInv

-----------------------------------------------------------------------------
(* The theorems.                                                            *)

LEMMA InitIInv == Init => IInv
<1>. SUFFICES ASSUME Init PROVE IInv
  OBVIOUS
<1>1. NoAttempt \in Attempt /\ Unmet \in [Goals -> Statuses]
  BY DEF NoAttempt, Attempt, Texts, Unmet, Statuses, Pending
<1>2. Uncalled \in Call /\ Uncalled.at = "unused" /\ ~Uncalled.begun /\ Uncalled.clone = Unmet
  BY CallTypes DEF Uncalled
<1>3. domain \in Domain
  <2>. DEFINE f == [q \in Queries |-> NoAttempt]
              g == [r \in Requirements |-> {}]
  <2>1. f \in [Queries -> Attempt] /\ g \in [Requirements -> SUBSET Binding]
    BY <1>1
  <2>. HIDE DEF f, g
  <2>. QED BY <1>1, <2>1 DEF Init, Domain, f, g
<1>4. /\ domain.current = None /\ domain.bindings = {} /\ domain.status = Unmet
      /\ \A r \in Requirements : domain.claims[r] = {}
      /\ ~domain.passed
  BY DEF Init
<1>5. \A c \in Calls : calls[c] = Uncalled
  BY DEF Init
<1>6. \A r \in Requirements : Unmet[r] # Reported
  BY CallTypes DEF Goals
<1>7. TypeOK
  BY <1>2, <1>3 DEF Init, TypeOK, Phases
<1>8. CallKinds /\ Alone /\ PlannedOnce /\ EarlyPhases
  BY <1>2, <1>4, <1>5
  DEF CallKinds, Alone, InFlight, PlannedOnce, EarlyPhases, QuerySteps, InspectSteps, Calls
<1>9. ClaimsAreEvidenced /\ ClonesAreEvidenced
  BY <1>2, <1>4, <1>5, <1>6 DEF ClaimsAreEvidenced, ClonesAreEvidenced
<1>10. GroundingIsCurrent /\ ReportsWait /\ QueriesAreCurrent
  BY <1>2, <1>5 DEF GroundingIsCurrent, ReportsWait, QueriesAreCurrent, QuerySteps, Calls
<1>11. EvidenceIsOwn /\ CurrentIsBacked /\ DecidedIsIdle /\ CompletedIsBacked
  BY <1>4 DEF Init, EvidenceIsOwn, CurrentIsBacked, DecidedIsIdle, CompletedIsBacked
<1>. QED BY <1>7, <1>8, <1>9, <1>10, <1>11 DEF IInv

LEMMA NextKeeps == IInv /\ [Next]_vars => IInv'
<1>. SUFFICES ASSUME IInv, [Next]_vars PROVE IInv'
  OBVIOUS
<1>1. CASE UNCHANGED vars
  BY <1>1
  DEF vars, IInv, TypeOK, CallKinds, Alone, InFlight, PlannedOnce, HasPlanned,
      ClaimsAreEvidenced, ClonesAreEvidenced, Cited, EarlyPhases, GroundingIsCurrent,
      ReportsWait, AllReported, QueriesAreCurrent, EvidenceIsOwn, Backed, CurrentIsBacked,
      CurrentBound, CurrentReqs, CurrentAttempt, DecidedIsIdle, CompletedIsBacked
<1>2. ASSUME NEW c \in Calls, Enter(c) PROVE IInv'
  BY <1>2, EnterKeeps
<1>3. ASSUME NEW c \in Calls, Begin(c) PROVE IInv'
  BY <1>3, BeginKeeps
<1>4. ASSUME NEW c \in Calls, Succeed(c) PROVE IInv'
  BY <1>4, SuccessKeeps
<1>5. ASSUME NEW c \in Calls, Fail(c) PROVE IInv'
  BY <1>5, FailKeeps
<1>6. ASSUME NEW c \in Calls, AssertContract(c) PROVE IInv'
  BY <1>6, AssertContractKeeps
<1>7. ASSUME NEW c \in Calls, AutomateGrounding(c) PROVE IInv'
  BY <1>7, AutomateGroundingKeeps
<1>8. ASSUME NEW c \in Calls, AutomateEvidence(c) PROVE IInv'
  BY <1>8, AutomateEvidenceKeeps
<1>9. CASE ProposeCompletion
  BY <1>9, ProposeKeeps
<1>. QED BY <1>1, <1>2, <1>3, <1>4, <1>5, <1>6, <1>7, <1>8, <1>9 DEF Next

\* The inductive invariant holds in every reachable state: what a call may be doing in
\* each phase, and how its step relates to the attempt planned last.
THEOREM DataInvariance == Spec => []IInv
<1>1. Init => IInv
  BY InitIInv
<1>2. IInv /\ [Next]_vars => IInv'
  BY NextKeeps
<1>. QED BY <1>1, <1>2, PTL DEF Spec

\* The reducers keep the protocol's state well-formed, whatever the calls interleave.
THEOREM DataTypes == Spec => []TypeOK
<1>1. IInv => TypeOK
  BY DEF IInv
<1>. QED BY <1>1, DataInvariance, PTL

\* createEvidenceBindings binds a requirement to the result of sound SQL that was planned
\* for it, unless two queries overlapped.
THEOREM EvidenceBelongs == Spec => []EvidenceIsOwn
<1>1. IInv => EvidenceIsOwn
  BY DEF IInv
<1>. QED BY <1>1, DataInvariance, PTL

\* SQL runs only as the attempt planned last, with its assertions satisfied, unless two
\* queries overlapped.
THEOREM ContractedOnly == Spec => []ContractedSqlRuns
<1>1. IInv => ContractedSqlRuns
  <2>. SUFFICES ASSUME IInv, ~overlapped, NEW c \in Calls, calls[c].at = "run"
       PROVE domain.current = c /\ calls[c].sql = "sound"
    BY DEF ContractedSqlRuns
  <2>1. c \in Queries
    BY DEF IInv, CallKinds, QuerySteps
  <2>. QED BY <2>1 DEF IInv, QueriesAreCurrent, QuerySteps
<1>. QED BY <1>1, DataInvariance, PTL

\* commitReportedClaims reports no requirement without a claim that cites evidence on
\* record, and nothing that happens later takes that evidence away.
THEOREM ClaimsHaveEvidence == Spec => []ClaimsAreEvidenced
<1>1. IInv => ClaimsAreEvidenced
  BY DEF IInv
<1>. QED BY <1>1, DataInvariance, PTL

\* A report file is written only while every requirement is reported and claimed, unless
\* two groundings overlapped.
THEOREM ReportsAfterClaims == Spec => []ReportsFollowClaims
<1>1. IInv => ReportsFollowClaims
  BY DEF IInv, ReportsWait, AllReported, ClaimsAreEvidenced, ReportsFollowClaims
<1>. QED BY <1>1, DataInvariance, PTL

\* A completed run has a claim for every requirement, and the query planned last is
\* verified and bound, unless two queries overlapped.
THEOREM CompletionsAreBacked == Spec => []CompletedIsBacked
<1>1. IInv => CompletedIsBacked
  BY DEF IInv
<1>. QED BY <1>1, DataInvariance, PTL

LEMMA StepAdvances == IInv /\ [Next]_vars => Advances
<1>. SUFFICES ASSUME IInv, [Next]_vars, ~overlapped' PROVE Rises(domain, domain')
  BY DEF Advances, Rises
<1>1. Rises(domain, domain)
  BY Same DEF IInv, TypeOK
<1>2. CASE domain' = domain
  BY <1>1, <1>2
<1>3. ASSUME NEW c \in Calls, Succeed(c) PROVE Rises(domain, domain')
  BY <1>3, SuccessRises DEF Succeed
<1>. QED
  BY <1>2, <1>3
  DEF Next, vars, Enter, Begin, Fail, AssertContract, AutomateGrounding, AutomateEvidence,
      ProposeCompletion

\* No requirement falls back, although a grounder hands back a copy that was taken
\* before its model call, unless two groundings overlapped.
THEOREM NoStatusFallsBack == Spec => RequirementsAdvance
<1>1. IInv /\ [Next]_vars => [Advances]_vars
  BY StepAdvances
<1>. QED BY <1>1, DataInvariance, PTL DEF Spec, RequirementsAdvance

=============================================================================
