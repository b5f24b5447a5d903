---------------------------- MODULE RunGovernance ----------------------------
(***************************************************************************)
(* What the API promises about runs, without requests, coroutines, handles *)
(* or timers: a session is worked in by one run at a time, a run under a   *)
(* live cancel handle is never taken over, and a run that nobody disturbed *)
(* ends by its own worker's decision. RunLifecycle implements it.          *)
(***************************************************************************)
CONSTANTS
  Runs,
  Sessions,
  None      \* the session of a run that does not exist

VARIABLES
  status,     \* the status column of table runs
  session,    \* its session_id column
  phase,      \* what the server is doing for the run
  live,       \* the runs a cancel handle is registered for
  disturbed   \* the runs in work whose row somebody else wrote

vars == <<status, session, phase, live, disturbed>>

Terminal == {"completed", "failed", "canceled"}
Active == {"running", "suspended"}
Phases == {"idle", "working", "closing"}

TypeOK ==
  /\ status \in [Runs -> Terminal \cup Active \cup {"absent"}]
  /\ session \in [Runs -> Sessions \cup {None}]
  /\ phase \in [Runs -> Phases]
  /\ live \in SUBSET Runs
  /\ disturbed \in SUBSET Runs

Init ==
  /\ status = [r \in Runs |-> "absent"]
  /\ session = [r \in Runs |-> None]
  /\ phase = [r \in Runs |-> "idle"]
  /\ live = {}
  /\ disturbed = {}

InWork == {r \in Runs : phase[r] # "idle"}

\* Everybody else's active runs of the session.
Rivals(r, s) == {x \in Runs \ {r} : session[x] = s /\ status[x] \in Active}

\* A new run, or a suspended one that is answered, takes the session. It passes over
\* rivals that no handle protects, and never over one that waits for its user.
Start(r, s) ==
  /\ \/ status[r] = "absent"
     \/ status[r] = "suspended" /\ session[r] = s
  /\ phase[r] = "idle"
  /\ \A x \in Rivals(r, s) : status[x] = "running" /\ x \notin live
  /\ status' = [x \in Runs |-> IF x = r THEN "running"
                               ELSE IF x \in Rivals(r, s) THEN "canceled" ELSE status[x]]
  /\ session' = [session EXCEPT ![r] = s]
  /\ phase' = [phase EXCEPT ![r] = "working"]
  /\ disturbed' = disturbed \cup (Rivals(r, s) \cap InWork)
  /\ UNCHANGED live

\* The worker's run can be canceled from now on.
Protect(r) ==
  /\ phase[r] = "working"
  /\ live' = live \cup {r}
  /\ UNCHANGED <<status, session, phase, disturbed>>

\* The worker is about to end the run: no handle any more.
Unprotect(r) ==
  /\ r \in live
  /\ live' = live \ {r}
  /\ UNCHANGED <<status, session, phase, disturbed>>

\* The worker of r goes on to phase p without a handle; an idle run is not disturbed.
Moves(r, p) ==
  /\ phase' = [phase EXCEPT ![r] = p]
  /\ live' = live \ {r}
  /\ disturbed' = IF p = "idle" THEN disturbed \ {r} ELSE disturbed

\* The run asks its user and leaves the session to the answer.
Suspend(r) ==
  /\ phase[r] = "working"
  /\ status' = [status EXCEPT ![r] = "suspended"]
  /\ Moves(r, "idle")
  /\ UNCHANGED session

\* A cancel by the handle: the worker stops and is to write the row.
Cancel(r) ==
  /\ r \in live
  /\ Moves(r, "closing")
  /\ UNCHANGED <<status, session>>

Settle(r, t) ==
  /\ \/ phase[r] = "working" /\ Moves(r, "idle")
     \/ phase[r] = "closing" /\ (Moves(r, "idle") \/ Moves(r, "closing"))
  /\ status' = [status EXCEPT ![r] = t]
  /\ UNCHANGED session

\* The worker goes away and leaves the row as it is.
Leave(r) ==
  /\ r \in InWork
  /\ Moves(r, "idle")
  /\ UNCHANGED <<status, session>>

\* Somebody who is not the worker writes rows: a reclaim, a cancel without a handle,
\* a refused duplicate. The rows end, a new one in session s; whoever works on them is
\* disturbed.
Overrule(S, s) ==
  /\ S # {}
  /\ \E t \in [S -> Terminal] :
       status' = [x \in Runs |-> IF x \in S THEN t[x] ELSE status[x]]
  /\ session' = [x \in Runs |-> IF x \in S /\ status[x] = "absent" THEN s ELSE session[x]]
  /\ disturbed' = disturbed \cup (S \cap InWork)
  /\ UNCHANGED <<phase, live>>

\* The process dies: all work is over.
Halt ==
  /\ phase' = [r \in Runs |-> "idle"]
  /\ live' = {}
  /\ disturbed' = {}
  /\ UNCHANGED <<status, session>>

Next ==
  \/ \E r \in Runs :
       \/ Protect(r) \/ Unprotect(r) \/ Suspend(r) \/ Cancel(r) \/ Leave(r)
       \/ \E t \in Terminal : Settle(r, t)
       \/ \E s \in Sessions : Start(r, s)
  \/ \E S \in SUBSET Runs, s \in Sessions \cup {None} : Overrule(S, s)
  \/ Halt

Spec == Init /\ [][Next]_vars

-----------------------------------------------------------------------------
\* The promise: of the runs in work in one session at most one was left alone, and
\* its row says running; only runs in work have a handle.
Exclusive ==
  /\ live \subseteq {r \in Runs : phase[r] = "working"}
  /\ disturbed \subseteq InWork
  /\ \A r \in Runs : phase[r] = "working" /\ r \notin disturbed =>
       /\ status[r] = "running"
       /\ session[r] \in Sessions
  /\ \A x, y \in Runs :
       /\ phase[x] = "working" /\ phase[y] = "working"
       /\ session[x] = session[y]
       /\ x \notin disturbed /\ y \notin disturbed
       => x = y
=============================================================================
