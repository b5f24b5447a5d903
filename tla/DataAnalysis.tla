---------------------------- MODULE DataAnalysis ----------------------------
(***************************************************************************)
(* A segment of the data-analysis protocol (packages/agent-runtime,        *)
(* protocols/data-analysis.ts and run-protocol-boundary.ts): how the tool  *)
(* calls of an agent ground a contract, plan, validate and run SQL, bind   *)
(* the results as evidence and report the user's requirements.             *)
(*                                                                         *)
(* One call of run_sql_readonly is a chain of five governed actions with   *)
(* awaits between them, and every reducer works on the current attempt,    *)
(* the one planned last.  The segment stays active: handoffs, the action   *)
(* budget and faulting sinks are the subject of ProtocolSegments.          *)
(***************************************************************************)
EXTENDS Naturals, FiniteSets

CONSTANTS
  Inspects,      \* tool calls of inspect_schema
  Queries,       \* of run_sql_readonly; each is also its attempt and its artifact
  Commits,       \* of analysis.requirements.commit
  Reports,       \* of write_file, on a report file
  None,          \* no attempt, no artifact
  Parallel,      \* how many tool calls the agent's loop runs at once
  Requirements,  \* requirements extracted from the user's words
  Valued         \* those with an assertion that requires a claim value

Calls == Inspects \cup Queries \cup Commits \cup Reports

ASSUME CallsAssumption ==
  /\ IsFiniteSet(Calls) /\ None \notin Calls
  /\ Inspects \cap (Queries \cup Commits \cup Reports) = {}
  /\ Queries \cap (Commits \cup Reports) = {} /\ Commits \cap Reports = {}
ASSUME ParallelAssumption == Parallel \in Nat \ {0}
ASSUME RequirementsAssumption ==
  /\ IsFiniteSet(Requirements) /\ Valued \subseteq Requirements
  /\ Requirements \cap {"CORE_SCHEMA", "CORE_SEMANTIC", "CORE_QUERY", "CORE_RESULT",
                        "CORE_EVIDENCE"} = {}

Core == {"CORE_SCHEMA", "CORE_SEMANTIC", "CORE_QUERY", "CORE_RESULT", "CORE_EVIDENCE"}
Goals == Core \cup Requirements

\* pending, queried, validated, evidenced, reported.
Statuses == 0..4
Pending == 0
Queried == 1
Validated == 2
Evidenced == 3
Reported == 4

Phases == {"scope", "semantic_grounding", "query_planning", "execution", "validation",
           "synthesis"}

\* The governed actions: inspect_schema, semantic.context.resolve, analysis.contract.ground,
\* data.query.plan, data.query.validate, run_sql_readonly, analysis.result.validate,
\* analysis.evidence.bind, analysis.requirements.commit and write_file.
Actions == {"inspect", "resolve", "ground", "plan", "validate", "run", "check", "bind",
            "commit", "write"}

VARIABLES
  phase,      \* phase of the segment
  domain,     \* its DataAnalysisState
  calls,      \* where each tool call stands in ActionRouter.execute
  decision,   \* its terminal decision
  overlapped  \* history: two calls that ground, or two that query, were in flight at once

vars == <<phase, domain, calls, decision, overlapped>>

\* The SQL of a call satisfies the assertions of the requirements it names ("sound"),
\* violates them ("unsound") or is refused by its own text ("invalid").
Texts == {"sound", "unsound", "invalid"}

\* `verified` stands for the required values the check of its result verified.
Attempt == [status : {"none", "planned", "validated", "executed", "evidenced"},
            reqs : SUBSET Requirements, sql : Texts, verified : BOOLEAN,
            artifact : Queries \cup {None}]
NoAttempt == [status |-> "none", reqs |-> {}, sql |-> "sound", verified |-> FALSE,
              artifact |-> None]
Binding == [req : Requirements, attempt : Queries, artifact : Queries]

\* An artifact is named after the call that produced it.
Domain == [inspected : BOOLEAN, resolved : BOOLEAN, grounded : BOOLEAN,
           current : Queries \cup {None}, validated : BOOLEAN, executed : BOOLEAN,
           passed : BOOLEAN, refs : SUBSET Queries, attempts : [Queries -> Attempt],
           bindings : SUBSET Binding, status : [Goals -> Statuses],
           claims : [Requirements -> SUBSET Binding]]

Unmet == [g \in Goals |-> Pending]

\* A call is between two actions, before or in one, or settled (it returned or threw).
Steps == {"unused", "contract", "resolved", "ran", "settled"} \cup Actions
Call == [at : Steps, begun : BOOLEAN, reqs : SUBSET Requirements,
         sql : Texts, clone : [Goals -> Statuses], stored : BOOLEAN,
         valid : BOOLEAN]
Uncalled == [at |-> "unused", begun |-> FALSE, reqs |-> {},
             sql |-> "sound", clone |-> Unmet, stored |-> FALSE, valid |-> FALSE]

InFlight(c) == calls[c].at \notin {"unused", "settled"}

-----------------------------------------------------------------------------
(* The protocol's definition.                                               *)

\* Mutant: queries may be planned while the contract is being grounded.
Allowed_PlanEarly(p) ==
  CASE p = "scope" -> {"inspect", "write"}
    [] p = "semantic_grounding" -> {"inspect", "write", "resolve", "ground", "plan"}
    [] p = "query_planning" -> {"inspect", "write", "resolve", "plan", "validate"}
    [] p = "execution" -> {"inspect", "write", "resolve", "plan", "run"}
    [] p \in {"validation", "synthesis"} ->
         {"inspect", "write", "resolve", "plan", "check", "bind", "commit"}

\* The actions a phase allows.
Allowed(p) ==
  CASE p = "scope" -> {"inspect", "write"}
    [] p = "semantic_grounding" -> {"inspect", "write", "resolve", "ground"}
    [] p = "query_planning" -> {"inspect", "write", "resolve", "plan", "validate"}
    [] p = "execution" -> {"inspect", "write", "resolve", "plan", "run"}
    [] p \in {"validation", "synthesis"} ->
         {"inspect", "write", "resolve", "plan", "check", "bind", "commit"}

\* A transition is looked for only when the phase still allows the action.
NextPhase(p, action, d) ==
  CASE action \notin Allowed(p) -> p
    [] p = "scope" /\ d.inspected -> "semantic_grounding"
    [] p = "semantic_grounding" /\ d.resolved /\ d.grounded -> "query_planning"
    [] p = "query_planning" /\ d.validated -> "execution"
    [] p \in {"execution", "validation", "synthesis"} /\ action = "plan" -> "query_planning"
    [] p = "execution" /\ action = "run" /\ d.executed -> "validation"
    [] p = "validation" /\ action # "plan" /\ d.passed /\ d.refs # {} -> "synthesis"
    [] OTHER -> p

\* Mutant: evidence is enough, the claim need not be reported.
Complete_Evidenced(d) ==
  /\ \A g \in Core : d.status[g] >= Validated
  /\ \A r \in Requirements : d.status[r] >= Evidenced

\* incompleteRequirementReasons: a core requirement must be validated, a user's reported.
Complete(d) ==
  /\ \A g \in Core : d.status[g] >= Validated
  /\ \A r \in Requirements : d.status[r] = Reported

\* completionPolicy; a degraded run (local semantic context) counts as completed.
GoalsMet(d) ==
  /\ d.resolved /\ d.grounded /\ d.current # None /\ d.validated /\ d.executed
  /\ d.passed /\ d.refs # {}
  /\ Complete(d)

-----------------------------------------------------------------------------
(* reduceDataAnalysisAction: what each action makes of the state.  A        *)
(* reducer that throws has no result.                                       *)

\* updateRequirements with advanceStatus.
Advanced(d, goals, status) ==
  [d EXCEPT !.status = [g \in Goals |->
     IF g \in goals /\ status > d.status[g] THEN status ELSE d.status[g]]]

\* currentAttempt and updateCurrentAttempt: without an attempt nothing is updated.
CurrentAttempt(d) == IF d.current = None THEN NoAttempt ELSE d.attempts[d.current]
CurrentReqs(d) == CurrentAttempt(d).reqs
WithCurrent(d, attempt) ==
  IF d.current = None THEN d ELSE [d EXCEPT !.attempts[d.current] = attempt]

Inspected(d) ==
  {Advanced([d EXCEPT !.inspected = TRUE, !.grounded = @ \/ Requirements = {}],
            {"CORE_SCHEMA"}, Validated)}

\* A provider may find no context, or one of another mode, trust or revision.
ResolvedTo(d, found, changed) ==
  Advanced([d EXCEPT !.resolved = found,
                     !.grounded = Requirements = {} \/ (@ /\ ~changed)],
           IF found THEN {"CORE_SEMANTIC"} ELSE {}, Validated)
Resolved(d) == {ResolvedTo(d, found, changed) : found \in BOOLEAN, changed \in BOOLEAN}

\* The requirements are replaced by the clone that was handed to the grounder.
Grounded(d, c) == {[d EXCEPT !.grounded = TRUE, !.status = calls[c].clone]}

Planned(d, c) ==
  IF Requirements # {} /\ calls[c].reqs = {} THEN {}
  ELSE {Advanced([d EXCEPT !.current = c, !.validated = FALSE, !.executed = FALSE,
                           !.passed = FALSE, !.refs = {},
                           !.attempts[c] = [NoAttempt EXCEPT !.status = "planned",
                             !.reqs = calls[c].reqs, !.sql = calls[c].sql]],
                 calls[c].reqs, Queried)}

\* Mutant: only the call's own text is checked.
Verdicts_Textual(d, c) == {calls[c].sql # "invalid"}

\* The call's own text is checked, then the current attempt's SQL against its assertions.
Verdicts(d, c) ==
  LET readable == calls[c].sql # "invalid"
      sql == CurrentAttempt(d).sql
  IN  {v \in BOOLEAN : /\ v => readable /\ sql # "unsound"
                       /\ readable /\ sql = "sound" => v}

QueryValidated(d, c) ==
  {Advanced(WithCurrent([d EXCEPT !.validated = v],
              [CurrentAttempt(d) EXCEPT !.status = IF v THEN "validated" ELSE "planned"]),
            IF v THEN {"CORE_QUERY"} ELSE {}, Validated) : v \in Verdicts(d, c)}

\* Mutant: a result without an artifact is recorded like one with an artifact.
Executed_NoArtifact(d, c) ==
  {WithCurrent([d EXCEPT !.executed = TRUE, !.passed = FALSE,
                         !.refs = IF stored THEN {c} ELSE {None}],
     [CurrentAttempt(d) EXCEPT !.status = "executed", !.artifact = IF stored THEN c ELSE @]) :
     stored \in BOOLEAN}

Executed(d, c) ==
  {WithCurrent([d EXCEPT !.executed = TRUE, !.passed = FALSE,
                         !.refs = IF stored THEN {c} ELSE {}],
     [CurrentAttempt(d) EXCEPT !.status = "executed", !.artifact = IF stored THEN c ELSE @]) :
     stored \in BOOLEAN}

\* A passing result verified the values its plan requires; one that does not pass may
\* have verified them all the same.
VerifiedValues(c) == IF calls[c].valid THEN {TRUE} ELSE BOOLEAN

Checked(d, c) ==
  {Advanced(WithCurrent([d EXCEPT !.passed = calls[c].valid],
                        [CurrentAttempt(d) EXCEPT !.verified = verified]),
            IF calls[c].valid THEN {"CORE_RESULT"} \cup CurrentReqs(d) ELSE {}, Validated) :
     verified \in VerifiedValues(c)}

\* Mutant: a passing result is bound to every requirement.
NewBindings_Every(d, c) ==
  IF d.current = None \/ ~d.passed THEN {}
  ELSE [req : Requirements, attempt : {d.current}, artifact : {c}]

\* createEvidenceBindings.
NewBindings(d, c) ==
  IF d.current = None \/ ~d.passed THEN {}
  ELSE [req : CurrentReqs(d), attempt : {d.current}, artifact : {c}]

Bound(d, c) ==
  IF CurrentReqs(d) # {} /\ ~d.passed THEN {}
  ELSE {Advanced(
          Advanced(
            WithCurrent([d EXCEPT !.refs = @ \cup {c}, !.bindings = @ \cup NewBindings(d, c)],
                        [CurrentAttempt(d) EXCEPT !.status = "evidenced"]),
            CurrentReqs(d), Evidenced),
          {"CORE_EVIDENCE"}, Evidenced)}

\* Mutant: a required value is not looked for among the verified ones.
Citable_Unverified(d, r, cited) == cited # {}

\* A claim cites bindings of its own requirement or of those it names as its sources,
\* at least one; a required value must have been verified for an attempt they are of.
Citable(d, r, cited) ==
  /\ cited # {}
  /\ r \in Valued => \E b \in cited :
       r \in d.attempts[b.attempt].reqs /\ d.attempts[b.attempt].verified

\* commitReportedClaims: all claims of the call, or none.
Committed(d, c) ==
  {Advanced([d EXCEPT !.claims = [r \in Requirements |-> d.claims[r] \cup cited[r]]],
            calls[c].reqs, Reported) :
     cited \in {f \in [Requirements -> SUBSET d.bindings] :
                  \A r \in Requirements :
                    IF r \in calls[c].reqs THEN Citable(d, r, f[r]) ELSE f[r] = {}}}

Reductions(c) ==
  LET d == domain
      at == calls[c].at
  IN  CASE at = "inspect" -> Inspected(d)
        [] at = "resolve" -> Resolved(d)
        [] at = "ground" -> Grounded(d, c)
        [] at = "plan" -> Planned(d, c)
        [] at = "validate" -> QueryValidated(d, c)
        [] at = "run" -> Executed(d, c)
        [] at = "check" -> Checked(d, c)
        [] at = "bind" -> Bound(d, c)
        [] at = "commit" -> Committed(d, c)
        [] OTHER -> {d}

-----------------------------------------------------------------------------
(* ActionRouter.execute, from one await to the next.                        *)

Rivals(c) == IF c \in Inspects THEN Inspects ELSE IF c \in Queries THEN Queries ELSE {}

First(c) ==
  CASE c \in Inspects -> "inspect" [] c \in Queries -> "plan"
    [] c \in Commits -> "commit" [] c \in Reports -> "write"

\* Mutant: a requirement with evidence does not hold a report back.
AllReported_Evidenced(d) == \A r \in Requirements : d.status[r] >= Evidenced

AllReported(d) == \A r \in Requirements : d.status[r] = Reported

\* A tool is called.  A report file is refused until every claim is committed, which
\* leaves no trace here (assertRequirementsCommittedBeforeReport).
Enter(c) ==
  /\ decision = "none" /\ calls[c].at = "unused"
  /\ Cardinality({b \in Calls : InFlight(b)}) < Parallel
  /\ c \in Reports => AllReported(domain)
  /\ \E reqs \in SUBSET Requirements, sql \in Texts :
       /\ c \in Inspects \cup Reports => reqs = {}
       /\ c \in Commits => reqs # {}
       /\ c \notin Queries => sql = "sound"
       /\ calls' = [calls EXCEPT ![c] =
            [Uncalled EXCEPT !.reqs = reqs, !.sql = sql, !.at = First(c)]]
  /\ overlapped' = (overlapped \/ \E b \in Rivals(c) : InFlight(b))
  /\ UNCHANGED <<phase, domain, decision>>

Goes(c, at) == calls' = [calls EXCEPT ![c].at = at, ![c].begun = FALSE]
\* The locals of a call die with it.
Settles(c) == calls' = [calls EXCEPT ![c] = [Uncalled EXCEPT !.at = "settled"]]

\* beginAction, or its rejection by the phase.
Begin(c) ==
  /\ calls[c].at \in Actions /\ ~calls[c].begun
  /\ IF calls[c].at \in Allowed(phase)
       THEN calls' = [calls EXCEPT ![c].begun = TRUE]
       ELSE Settles(c)
  /\ UNCHANGED <<phase, domain, decision, overlapped>>

\* Mutant: a result that failed its verification is bound all the same.
After_Unverified(c) ==
  LET at == calls[c].at
  IN  CASE at = "inspect" -> "resolve" [] at = "resolve" -> "resolved"
        [] at = "plan" -> "validate" [] at = "validate" -> "contract"
        [] at = "run" -> "ran"
        [] at = "check" /\ calls[c].stored -> "bind"
        [] OTHER -> "settled"

\* What follows an action that succeeded.
After(c) ==
  LET at == calls[c].at
  IN  CASE at = "inspect" -> "resolve" [] at = "resolve" -> "resolved"
        [] at = "plan" -> "validate" [] at = "validate" -> "contract"
        [] at = "run" -> "ran"
        [] at = "check" /\ calls[c].stored /\ calls[c].valid -> "bind"
        [] OTHER -> "settled"

\* recordActionSuccess: reduce, transit, and go on.
Succeed(c) ==
  /\ calls[c].begun
  /\ \E d \in Reductions(c) :
       /\ domain' = d
       /\ phase' = NextPhase(phase, calls[c].at, d)
       /\ IF After(c) = "settled" THEN Settles(c)
          ELSE calls' = [calls EXCEPT ![c].at = After(c), ![c].begun = FALSE,
                           ![c].stored = IF calls[c].at = "run" THEN d.refs # {} ELSE @]
  /\ UNCHANGED <<decision, overlapped>>

\* The executor throws, or the reducer does: a schema, a provider, a grounder, a query,
\* a file write, or a claim with a value that does not match.
Fail(c) ==
  /\ calls[c].begun
  /\ \/ Reductions(c) = {}
     \/ calls[c].at \in {"inspect", "resolve", "ground", "run", "commit", "write"}
  /\ Settles(c)
  /\ UNCHANGED <<phase, domain, decision, overlapped>>

\* assertCurrentQueryContract.
AssertContract(c) ==
  /\ calls[c].at = "contract"
  /\ IF domain.validated THEN Goes(c, "run") ELSE Settles(c)
  /\ UNCHANGED <<phase, domain, decision, overlapped>>

\* dataAnalysisAutomaticActions after semantic.context.resolve.
AutomateGrounding(c) ==
  /\ calls[c].at = "resolved"
  /\ IF Requirements = {} \/ domain.grounded
       THEN Settles(c)
       ELSE calls' = [calls EXCEPT ![c].at = "ground", ![c].clone = domain.status]
  /\ UNCHANGED <<phase, domain, decision, overlapped>>

\* verifyAnalysisResult: the result passes the checks of the assertions, or not.
Verifications == BOOLEAN

\* dataAnalysisAutomaticActions after run_sql_readonly: the result is verified.
AutomateEvidence(c) ==
  /\ calls[c].at = "ran"
  /\ \E valid \in Verifications :
       calls' = [calls EXCEPT ![c].at = "check", ![c].valid = valid]
  /\ UNCHANGED <<phase, domain, decision, overlapped>>

\* The agent is done: proposeCompletion with forceTerminal, or out of time.
ProposeCompletion ==
  /\ decision = "none" /\ \A c \in Calls : ~InFlight(c)
  /\ \/ decision' = "completed" /\ GoalsMet(domain)
     \/ decision' = "partial"
  /\ UNCHANGED <<phase, domain, calls, overlapped>>

-----------------------------------------------------------------------------
Init ==
  /\ phase = "scope"
  /\ domain = [inspected |-> FALSE, resolved |-> FALSE, grounded |-> FALSE, current |-> None,
               validated |-> FALSE, executed |-> FALSE, passed |-> FALSE, refs |-> {},
               attempts |-> [q \in Queries |-> NoAttempt], bindings |-> {}, status |-> Unmet,
               claims |-> [r \in Requirements |-> {}]]
  /\ calls = [c \in Calls |-> Uncalled]
  /\ decision = "none" /\ overlapped = FALSE

Next ==
  \/ \E c \in Calls :
       \/ Enter(c) \/ Begin(c) \/ Succeed(c) \/ Fail(c)
       \/ AssertContract(c) \/ AutomateGrounding(c) \/ AutomateEvidence(c)
  \/ ProposeCompletion

Spec == Init /\ [][Next]_vars

-----------------------------------------------------------------------------
(* Properties.                                                              *)

\* Every variable keeps its type.
TypeOK ==
  /\ phase \in Phases /\ domain \in Domain /\ calls \in [Calls -> Call]
  /\ decision \in {"none", "completed", "partial"} /\ overlapped \in BOOLEAN

Backed(d, b) ==
  /\ b.artifact = b.attempt
  /\ b.req \in d.attempts[b.attempt].reqs /\ d.attempts[b.attempt].sql = "sound"

\* Evidence bound to a requirement is the result of the SQL that was planned for it and
\* satisfied its assertions, although every reducer works on the attempt planned last
\* (updateCurrentAttempt, createEvidenceBindings), unless two queries overlapped.
EvidenceIsOwn == ~overlapped => \A b \in domain.bindings : Backed(domain, b)

\* SQL runs only after the plan and the validation of that very SQL
\* (assertCurrentQueryContract), unless two queries overlapped.
ContractedSqlRuns ==
  ~overlapped => \A c \in Calls :
    calls[c].at = "run" /\ calls[c].begun => domain.current = c /\ calls[c].sql = "sound"

\* A reported requirement has a claim that cites evidence still on record, of an attempt
\* planned for the requirement when it demands a value (commitReportedClaims).
ClaimsAreEvidenced ==
  \A r \in Requirements :
    /\ domain.claims[r] \subseteq domain.bindings
    /\ domain.status[r] = Reported => domain.claims[r] # {}
    /\ domain.status[r] = Reported /\ r \in Valued =>
         \E b \in domain.claims[r] : r \in domain.attempts[b.attempt].reqs

\* A report file is being written only while every requirement is reported, although its
\* guard was evaluated when the tool was called, unless two groundings overlapped.
ReportsFollowClaims ==
  ~overlapped => \A c \in Calls :
    calls[c].at = "write" /\ calls[c].begun =>
      \A r \in Requirements : domain.status[r] = Reported /\ domain.claims[r] # {}

\* No requirement falls back (advanceStatus), although a grounder hands back a copy of
\* the requirements taken before its model call, unless two groundings overlapped.
Advances == ~overlapped' => \A g \in Goals : domain'.status[g] >= domain.status[g]
RequirementsAdvance == [][Advances]_vars

\* "the runtime rejects SQL that violates declared source, aggregate, grain, filter, or
\* time-range semantics" (packages/agent-runtime/src/index.ts:1013): no such SQL is ever
\* being executed, whatever calls run at once.
ViolatingSqlIsRejected ==
  \A c \in Queries : calls[c].at = "run" /\ calls[c].begun => calls[c].sql # "unsound"

\* A run decided "completed" has evidence for every claim, and the query planned last was
\* validated, executed, and verified itself, unless two queries overlapped.
CompletedIsBacked ==
  decision = "completed" =>
    /\ \A r \in Requirements : domain.claims[r] # {}
    /\ ~overlapped => /\ domain.refs = {domain.current}
                      /\ domain.attempts[domain.current].verified
                      /\ \A r \in CurrentReqs(domain) :
                           \E b \in domain.bindings : b.req = r /\ b.attempt = domain.current

-----------------------------------------------------------------------------
(* The inductive invariant.                                                 *)

QuerySteps == {"plan", "validate", "contract", "run", "ran", "check", "bind"}
InspectSteps == {"inspect", "resolve", "resolved", "ground"}

\* A call takes the steps of its tool.
CallKinds ==
  \A c \in Calls :
    /\ calls[c].at \in QuerySteps => c \in Queries
    /\ calls[c].at \in InspectSteps => c \in Inspects
    /\ calls[c].at = "commit" => c \in Commits
    /\ calls[c].at = "write" => c \in Reports
    /\ calls[c].begun => calls[c].at \in Actions

\* What `overlapped` remembers.
Alone ==
  ~overlapped => \A b, c \in Calls :
    /\ InFlight(b) /\ InFlight(c)
    /\ {b, c} \subseteq Inspects \/ {b, c} \subseteq Queries
    => b = c

\* The attempts that count are those of calls past their plan, which plan only once.
HasPlanned(q) == calls[q].at \notin {"unused", "plan"}
PlannedOnce ==
  /\ domain.current # None => HasPlanned(domain.current)
  /\ \A b \in domain.bindings : HasPlanned(b.attempt)

\* Nor does a copy of the requirements say more than the claims bear out.
Cited(d, r) ==
  /\ d.claims[r] # {}
  /\ r \in Valued => \E b \in d.claims[r] : r \in d.attempts[b.attempt].reqs
ClonesAreEvidenced ==
  \A c \in Calls, r \in Requirements : calls[c].clone[r] = Reported => Cited(domain, r)

\* Before the contract is grounded no query and no claim is under way.
EarlyPhases ==
  /\ phase = "scope" =>
       \A c \in Inspects : calls[c].at \in {"unused", "inspect", "settled"}
  /\ phase \in {"scope", "semantic_grounding"} =>
       \A c \in Queries \cup Commits :
         ~calls[c].begun /\ calls[c].at \in {"unused", "plan", "commit", "settled"}

\* So a copy that may still be grounded is what it was copied from.
GroundingIsCurrent ==
  ~overlapped => \A c \in Inspects : calls[c].at = "ground" =>
    /\ calls[c].begun => phase = "semantic_grounding"
    /\ phase = "semantic_grounding" => calls[c].clone = domain.status /\ ~domain.grounded

ReportsWait ==
  ~overlapped => \A c \in Calls : calls[c].at = "write" => AllReported(domain)

\* A query past its plan works on its own attempt, and past its contract on sound SQL.
QueriesAreCurrent ==
  ~overlapped => \A c \in Queries :
    /\ calls[c].at \in QuerySteps \ {"plan"} =>
         domain.current = c /\ domain.attempts[c].sql = calls[c].sql
    /\ calls[c].at = "contract" /\ domain.validated => calls[c].sql = "sound"
    /\ calls[c].at \in {"run", "ran", "check", "bind"} => calls[c].sql = "sound"

\* What a passing result of the current attempt stands for, once it is bound.
CurrentBound ==
  \A r \in CurrentReqs(domain) :
    \E b \in domain.bindings : b.req = r /\ b.attempt = domain.current
CurrentIsBacked ==
  /\ domain.passed /\ domain.current # None => domain.attempts[domain.current].verified
  /\ ~overlapped /\ domain.current # None =>
       /\ domain.refs \subseteq {domain.current}
       /\ calls[domain.current].at \in {"ran", "check"} =>
            calls[domain.current].stored = (domain.refs # {})
       /\ calls[domain.current].at = "check" /\ calls[domain.current].begun =>
            phase \in {"validation", "synthesis"}
       /\ calls[domain.current].at = "bind" => domain.passed /\ phase = "synthesis"
       /\ domain.passed /\ domain.refs # {} =>
            calls[domain.current].at = "bind" \/ CurrentBound

\* A decided run is at rest.
DecidedIsIdle == decision # "none" => \A c \in Calls : ~InFlight(c)

IInv ==
  /\ TypeOK
  /\ CallKinds
  /\ Alone
  /\ PlannedOnce
  /\ ClaimsAreEvidenced
  /\ ClonesAreEvidenced
  /\ EarlyPhases
  /\ GroundingIsCurrent
  /\ ReportsWait
  /\ QueriesAreCurrent
  /\ EvidenceIsOwn
  /\ CurrentIsBacked
  /\ DecidedIsIdle
  /\ CompletedIsBacked

=============================================================================
