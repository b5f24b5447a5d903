------------------------ MODULE RunRefinement_proofs ------------------------
(***************************************************************************)
(* RunLifecycle implements RunGovernance: under the inductive invariant    *)
(* every step of the server is a step of the promise or changes nothing    *)
(* the promise speaks of.                                                  *)
(***************************************************************************)
EXTENDS RunLifecycle_proofs

GovernanceStep == Governance!Next \/ UNCHANGED Governance!vars

\* What the promise sees of the requests: who is in work, and on whose row.
SameWork == PhaseMap' = PhaseMap /\ Disturbed' = Disturbed
SameRows == StatusMap' = StatusMap /\ SessionMap' = SessionMap

LEMMA Stuttering ==
  ASSUME SameWork, SameRows, Handled' = Handled
  PROVE  GovernanceStep
BY DEF GovernanceStep, SameWork, SameRows, Governance!vars

\* The run a request drives has no other driver, and no other request's handle.
LEMMA Driver ==
  ASSUME IInv, NEW q \in Requests, Owns(q)
  PROVE  /\ requests[q].run \in Runs
         /\ OwnersOf({requests[q].run}) = {q}
         /\ PhaseOf(requests[q].run) = IF Working(q) THEN "working" ELSE "closing"
         /\ registry[requests[q].run] \in {q, None}
         /\ requests[q].fin # "none" => registry[requests[q].run] = None
<1> DEFINE r == requests[q].run
<1>1. r \in Runs
  BY DEF IInv, SentNamed, Unsent, Owns
<1>2. OwnersOf({r}) = {q}
  BY DEF IInv, OneOwnerPerRun, OwnersOf
<1>3. PhaseOf(r) = IF Working(q) THEN "working" ELSE "closing"
  BY <1>2 DEF PhaseOf
<1>4. registry[r] \in Requests => registry[r] = q /\ requests[q].fin = "none"
  <2> SUFFICES ASSUME registry[r] \in Requests
               PROVE  registry[r] = q /\ requests[q].fin = "none"
    OBVIOUS
  <2> DEFINE p == registry[r]
  <2>1. requests[p].run = r /\ requests[p].fin = "none"
        /\ requests[p].stage \in {"registered", "streaming"}
    BY <1>1 DEF IInv, HandleOwnership
  <2>2. Owns(p)
    BY <2>1 DEF Owns
  <2> HIDE DEF p
  <2>3. p = q
    BY <2>1, <2>2 DEF IInv, OneOwnerPerRun, p
  <2> QED BY <2>1, <2>3 DEF p
<1>5. registry[r] \in Requests \cup {None}
  BY <1>1 DEF IInv, TypeOK
<1> QED BY <1>1, <1>2, <1>3, <1>4, <1>5

\* One request changes, and it stays with its run.
OneMoves(q) ==
  /\ \A p \in Requests \ {q} : requests'[p] = requests[p]
  /\ requests'[q].run = requests[q].run
  /\ stolen' = stolen

LEMMA Others ==
  ASSUME NEW q \in Requests, OneMoves(q), NEW x \in Runs,
         x # requests[q].run \/ (~Owns(q) /\ ~Owns(q)')
  PROVE  PhaseOf(x)' = PhaseOf(x) /\ OwnersOf({x})' = OwnersOf({x})
<1>1. \A p \in Requests \ {q} : (Owns(p)' <=> Owns(p)) /\ (Working(p)' <=> Working(p))
  BY DEF OneMoves, Owns, Working
<1>2. OwnersOf({x})' = OwnersOf({x})
  BY <1>1 DEF OneMoves, OwnersOf
<1>3. \A p \in OwnersOf({x}) : p # q
  BY DEF OwnersOf
<1> QED BY <1>1, <1>2, <1>3 DEF PhaseOf, OwnersOf

LEMMA BystanderStep ==
  ASSUME NEW q \in Requests, OneMoves(q), ~Owns(q), ~Owns(q)'
  PROVE  SameWork
BY Others DEF SameWork, PhaseMap, Disturbed, OneMoves

NextPhase(q) == IF ~Owns(q)' THEN "idle" ELSE IF Working(q)' THEN "working" ELSE "closing"

LEMMA DriverStep ==
  ASSUME IInv, NEW q \in Requests, Owns(q), OneMoves(q)
  PROVE  /\ PhaseMap' = [PhaseMap EXCEPT ![requests[q].run] = NextPhase(q)]
         /\ Disturbed' = IF Owns(q)' THEN Disturbed ELSE Disturbed \ {requests[q].run}
         /\ PhaseMap[requests[q].run] = IF Working(q) THEN "working" ELSE "closing"
<1>0. PICK r \in Runs : r = requests[q].run
  BY Driver
<1>1. r \in Runs /\ OwnersOf({r}) = {q} /\ PhaseOf(r) = IF Working(q) THEN "working" ELSE "closing"
  BY <1>0, Driver
<1>2. \A x \in Runs \ {r} : PhaseOf(x)' = PhaseOf(x) /\ OwnersOf({x})' = OwnersOf({x})
  BY <1>0, Others
<1>3. \A p \in Requests \ {q} : Owns(p)' <=> Owns(p)
  BY DEF OneMoves, Owns
<1>4. OwnersOf({r})' = IF Owns(q)' THEN {q} ELSE {}
  <2>1. \A p \in Requests \ {q} : ~(Owns(p)' /\ requests'[p].run = r)
    BY <1>0, <1>1, <1>3 DEF OneMoves, OwnersOf
  <2> QED BY <1>0, <2>1 DEF OneMoves, OwnersOf
<1>5. PhaseOf(r)' = NextPhase(q)
  BY <1>4 DEF PhaseOf, NextPhase
<1>6. PhaseMap' = [PhaseMap EXCEPT ![r] = NextPhase(q)]
  <2>1. \A x \in Runs : PhaseMap'[x] = IF x = r THEN NextPhase(q) ELSE PhaseMap[x]
    BY <1>1, <1>2, <1>5 DEF PhaseMap
  <2>2. PhaseMap' = [x \in Runs |-> PhaseMap'[x]] /\ PhaseMap = [x \in Runs |-> PhaseMap[x]]
    BY DEF PhaseMap
  <2> QED BY <1>1, <2>1, <2>2
<1>7. Disturbed' = IF Owns(q)' THEN Disturbed ELSE Disturbed \ {r}
  <2>1. \A x \in Runs \ {r} : x \in Disturbed' <=> x \in Disturbed
    BY <1>2 DEF Disturbed, OneMoves
  <2>2. r \in Disturbed' <=> q \in stolen /\ Owns(q)'
    BY <1>1, <1>4 DEF Disturbed, OneMoves
  <2>3. r \in Disturbed <=> q \in stolen
    BY <1>1 DEF Disturbed
  <2>4. Disturbed \subseteq Runs /\ Disturbed' \subseteq Runs
    BY DEF Disturbed
  <2> QED BY <2>1, <2>2, <2>3, <2>4
<1> QED BY <1>0, <1>1, <1>6, <1>7 DEF PhaseMap

LEMMA DriverMoves ==
  ASSUME IInv, NEW q \in Requests, Owns(q), OneMoves(q),
         Handled' = Handled \ {requests[q].run}
  PROVE  /\ ~Owns(q)' => Governance!Moves(requests[q].run, "idle")
         /\ Owns(q)' /\ ~Working(q)' => Governance!Moves(requests[q].run, "closing")
BY DriverStep DEF Governance!Moves, NextPhase

LEMMA DriverStays ==
  ASSUME IInv, NEW q \in Requests, Owns(q), OneMoves(q), Owns(q)', Working(q)' <=> Working(q)
  PROVE  SameWork
<1>1. requests[q].run \in Runs
  BY Driver
<1>2. PhaseMap' = [PhaseMap EXCEPT ![requests[q].run] = PhaseMap[requests[q].run]]
  BY DriverStep DEF NextPhase
<1> QED BY <1>1, <1>2, DriverStep DEF SameWork, PhaseMap

LEMMA HandleDropped ==
  ASSUME IInv, NEW q \in Requests, Owns(q), registry' = Unregistered(q)
  PROVE  Handled' = Handled \ {requests[q].run}
<1> DEFINE r == requests[q].run
<1>1. r \in Runs /\ registry[r] \in {q, None}
  BY Driver
<1>2. registry \in [Runs -> Requests \cup {None}]
  BY DEF IInv, TypeOK
<1>3. registry'[r] = None /\ \A x \in Runs \ {r} : registry'[x] = registry[x]
  BY <1>1, <1>2 DEF Unregistered
<1> QED BY <1>1, <1>3 DEF Handled

\* With the handle already gone, leaving the registry alone drops it just as well.
LEMMA NoHandle ==
  ASSUME IInv, NEW q \in Requests, Owns(q), requests[q].fin # "none", registry' = registry
  PROVE  Handled' = Handled \ {requests[q].run}
BY Driver DEF Handled

LEMMA StatusWritten ==
  ASSUME IInv, NEW r \in Runs, NEW t, Status(r, t)
  PROVE  StatusMap' = [StatusMap EXCEPT ![r] = t] /\ SessionMap' = SessionMap
<1>1. runs \in [Runs -> Row]
  BY DEF IInv, TypeOK
<1>2. /\ \A x \in Runs \ {r} : runs'[x] = runs[x]
      /\ runs'[r].status = t /\ runs'[r].session = runs[r].session
  BY <1>1 DEF Status, Row
<1> QED BY <1>2 DEF StatusMap, SessionMap

LEMMA RowsKept ==
  ASSUME runs' = runs PROVE SameRows
BY DEF SameRows, StatusMap, SessionMap

LEMMA HandlesSame ==
  ASSUME registry' = registry PROVE Handled' = Handled
BY DEF Handled

-----------------------------------------------------------------------------
(***************************************************************************)
(* Abstract steps from what a concrete step does.                          *)
(***************************************************************************)

LEMMA SettleFrom ==
  ASSUME IInv, NEW q \in Requests, Owns(q), OneMoves(q), NEW t \in Terminal,
         Status(requests[q].run, t), ~(Owns(q)' /\ Working(q)'), Working(q) => ~Owns(q)',
         Handled' = Handled \ {requests[q].run}
  PROVE  GovernanceStep
<1> DEFINE r == requests[q].run
<1>1. r \in Runs
  BY Driver
<1>2. StatusMap' = [StatusMap EXCEPT ![r] = t] /\ SessionMap' = SessionMap
  BY <1>1, StatusWritten
<1>3. \/ PhaseMap[r] = "working" /\ Governance!Moves(r, "idle")
      \/ PhaseMap[r] = "closing" /\ (Governance!Moves(r, "idle") \/ Governance!Moves(r, "closing"))
  BY DriverStep, DriverMoves
<1>4. t \in Governance!Terminal
  BY DEF Governance!Terminal, Terminal
<1>5. Governance!Settle(r, t)
  BY <1>2, <1>3 DEF Governance!Settle
<1> QED BY <1>1, <1>4, <1>5 DEF GovernanceStep, Governance!Next

LEMMA LeaveFrom ==
  ASSUME IInv, NEW q \in Requests, Owns(q), OneMoves(q), ~Owns(q)', runs' = runs,
         Handled' = Handled \ {requests[q].run}
  PROVE  GovernanceStep
<1> DEFINE r == requests[q].run
<1>1. r \in Runs
  BY Driver
<1>2. r \in Governance!InWork
  BY <1>1, DriverStep DEF Governance!InWork
<1>3. Governance!Leave(r)
  BY <1>2, DriverMoves, RowsKept DEF Governance!Leave, SameRows
<1> QED BY <1>1, <1>3 DEF GovernanceStep, Governance!Next

LEMMA UnprotectFrom ==
  ASSUME NEW r \in Runs, SameWork, SameRows, Handled' = Handled \ {r}
  PROVE  GovernanceStep
<1>1. CASE r \in Handled
  BY <1>1 DEF GovernanceStep, Governance!Next, Governance!Unprotect, SameWork, SameRows
<1>2. CASE r \notin Handled
  BY <1>2, Stuttering
<1> QED BY <1>1, <1>2

-----------------------------------------------------------------------------
(***************************************************************************)
(* The coroutine's steps.                                                  *)
(***************************************************************************)

LEMMA RecordMoves ==
  ASSUME TypeOK, NEW q \in Requests, NEW rec \in Request, Becomes(q, rec), stolen' = stolen,
         rec.run = requests[q].run
  PROVE  OneMoves(q) /\ requests'[q] = rec
BY DEF TypeOK, Becomes, OneMoves

LEMMA RegisterRefines ==
  ASSUME IInv, NEW q \in Requests, Register(q)
  PROVE  GovernanceStep
<1> DEFINE r == requests[q].run
           rec == [requests[q] EXCEPT !.stage = "registered"]
<1>1. requests[q] \in Request
  BY DEF IInv, TypeOK
<1>2. rec \in Request /\ rec.run = r /\ rec.stage = "registered" /\ rec.fin = requests[q].fin
  BY <1>1 DEF Request, Stages
<1>3. OneMoves(q) /\ requests'[q] = rec
  BY <1>2, RecordMoves DEF IInv, Register
<1>4. Owns(q) /\ Owns(q)' /\ Working(q) /\ Working(q)'
  BY <1>2, <1>3 DEF IInv, Register, SentNamed, Unsent, Owns, Working
<1>5. SameWork /\ SameRows
  BY <1>3, <1>4, DriverStays, RowsKept DEF Register
<1>6. CASE requests[q].open
  <2>1. r \in Runs /\ PhaseMap[r] = "working"
    BY <1>3, <1>4, Driver, DriverStep
  <2>2. registry' = [registry EXCEPT ![r] = q] /\ q # None
    BY <1>6, NoneAssumption DEF Register
  <2>3. Handled' = Handled \cup {r}
    BY <2>1, <2>2 DEF Handled, IInv, TypeOK
  <2> QED BY <1>5, <2>1, <2>3
          DEF GovernanceStep, Governance!Next, Governance!Protect, SameWork, SameRows
<1>7. CASE ~requests[q].open
  BY <1>5, <1>7, HandlesSame, Stuttering DEF Register
<1> QED BY <1>6, <1>7

LEMMA ClosedRecord ==
  ASSUME IInv, NEW q \in Requests, requests[q].stage # "unsent", Becomes(q, Closed(q)),
         stolen' = stolen
  PROVE  /\ OneMoves(q)
         /\ requests'[q].stage = "ended"
         /\ requests'[q].fin = IF requests[q].fin = "none" THEN "done" ELSE requests[q].fin
<1>1. requests[q] \in Request
  BY DEF IInv, TypeOK
<1>2. /\ Closed(q) \in Request /\ Closed(q).stage = "ended"
      /\ Closed(q).run = requests[q].run
      /\ Closed(q).fin = IF requests[q].fin = "none" THEN "done" ELSE requests[q].fin
  BY <1>1 DEF Closed, Request, Stages, Finals
<1> QED BY <1>2, RecordMoves DEF IInv

\* A request whose run() is over leaves its run, unless a finalizer is still to write.
LEMMA ClosingRefines ==
  ASSUME IInv, NEW q \in Requests, requests[q].stage \notin {"unsent", "ended"},
         Becomes(q, Closed(q)), stolen' = stolen, runs' = runs,
         registry' = Unregistered(q) \/ (registry' = registry /\ registry[requests[q].run] # q)
  PROVE  GovernanceStep
<1> DEFINE r == requests[q].run
<1>1. /\ OneMoves(q)
      /\ requests'[q].stage = "ended"
      /\ requests'[q].fin = IF requests[q].fin = "none" THEN "done" ELSE requests[q].fin
  BY ClosedRecord
<1>2. CASE Owns(q)
  <2>1. r \in Runs /\ registry[r] \in {q, None}
    BY <1>2, Driver
  <2>2. Handled' = Handled \ {r}
    BY <1>2, <2>1, HandleDropped DEF Handled
  <2>3. CASE Owns(q)'
    <3>1. Working(q)' <=> Working(q)
      BY <1>1, <1>2, <2>3 DEF Working, Owns
    <3> QED BY <1>1, <1>2, <2>1, <2>2, <2>3, <3>1, DriverStays, RowsKept, UnprotectFrom
  <2>4. CASE ~Owns(q)'
    BY <1>1, <1>2, <2>2, <2>4, LeaveFrom
  <2> QED BY <2>3, <2>4
<1>3. CASE ~Owns(q)
  <2>1. ~Owns(q)'
    BY <1>1, <1>3 DEF Owns
  <2>2. requests[q].fin # "none"
    BY <1>3 DEF Owns, IInv, TypeOK, Request, Stages
  <2>3. r \in Runs /\ registry[r] # q
    BY <2>2 DEF IInv, SentNamed, Unsent, HandleOwnership
  <2>4. registry' = registry
    BY <2>3 DEF Unregistered, IInv, TypeOK
  <2> QED BY <1>1, <1>3, <2>1, <2>4, BystanderStep, RowsKept, HandlesSame, Stuttering
<1> QED BY <1>2, <1>3

LEMMA FailEarlyRefines ==
  ASSUME IInv, NEW q \in Requests, FailEarly(q)
  PROVE  GovernanceStep
<1> DEFINE r == requests[q].run
<1>1. /\ OneMoves(q)
      /\ requests'[q].stage = "ended"
      /\ requests'[q].fin = IF requests[q].fin = "none" THEN "done" ELSE requests[q].fin
  BY ClosedRecord DEF FailEarly
<1>2. Owns(q) /\ Handled' = Handled \ {r}
  BY HandleDropped DEF FailEarly, Owns
<1>3. CASE requests[q].call = None
  <2>1. Status(r, "failed")
    BY <1>3 DEF FailEarly, Status
  <2>2. ~(Owns(q)' /\ Working(q)') /\ (Working(q) => ~Owns(q)')
    BY <1>1 DEF FailEarly, Owns, Working, IInv, SentNamed, Unsent
  <2> QED BY <1>1, <1>2, <2>1, <2>2, SettleFrom DEF Terminal
<1>4. CASE requests[q].call # None
  BY <1>4, ClosingRefines DEF FailEarly
<1> QED BY <1>3, <1>4

LEMMA StartStreamRefines ==
  ASSUME IInv, NEW q \in Requests, StartStream(q)
  PROVE  GovernanceStep
<1> DEFINE rec == [requests[q] EXCEPT !.stage = "streaming"]
<1>1. rec \in Request /\ rec.run = requests[q].run /\ rec.stage = "streaming"
      /\ rec.fin = requests[q].fin
  BY DEF IInv, TypeOK, Request, Stages
<1>2. OneMoves(q) /\ requests'[q] = rec
  BY <1>1, RecordMoves DEF IInv, StartStream
<1>3. Owns(q) /\ Owns(q)' /\ Working(q) /\ Working(q)'
  BY <1>1, <1>2 DEF StartStream, Owns, Working
<1> QED BY <1>2, <1>3, DriverStays, RowsKept, HandlesSame, Stuttering DEF StartStream

LEMMA AbortStartRefines ==
  ASSUME IInv, NEW q \in Requests, AbortStart(q)
  PROVE  GovernanceStep
<1>1. registry[requests[q].run] # q
  BY DEF IInv, AbortStart, HandleOwnership, SentNamed, Unsent
<1> QED BY <1>1, ClosingRefines DEF AbortStart

LEMMA DisconnectRefines ==
  ASSUME IInv, NEW q \in Requests, Disconnect(q)
  PROVE  GovernanceStep
<1>1. CASE requests[q].stage = "streaming"
  BY <1>1, ClosingRefines DEF Disconnect
<1>2. CASE requests[q].stage # "streaming"
  <2> DEFINE rec == [requests[q] EXCEPT !.open = FALSE]
  <2>1. rec \in Request /\ rec.run = requests[q].run /\ rec.stage = requests[q].stage
        /\ rec.fin = requests[q].fin
    BY DEF IInv, TypeOK, Request
  <2>2. OneMoves(q) /\ requests'[q] = rec
    BY <1>2, <2>1, RecordMoves DEF IInv, Disconnect
  <2>3. Owns(q) /\ Owns(q)' /\ (Working(q)' <=> Working(q))
    BY <1>2, <2>1, <2>2 DEF Disconnect, Owns, Working
  <2> QED BY <2>2, <2>3, Driver, DriverStays, HandleDropped, RowsKept, UnprotectFrom
          DEF Disconnect
<1> QED BY <1>1, <1>2

LEMMA SettlingRecord ==
  ASSUME IInv, NEW q \in Requests, NEW fin \in Finals, Settling(q, fin), stolen' = stolen
  PROVE  /\ OneMoves(q)
         /\ requests'[q].stage = requests[q].stage
         /\ requests'[q].fin = fin
<1> DEFINE rec == [requests[q] EXCEPT !.fin = fin]
<1>1. rec \in Request /\ rec.run = requests[q].run /\ rec.stage = requests[q].stage
      /\ rec.fin = fin
  BY DEF IInv, TypeOK, Request
<1> QED BY <1>1, RecordMoves DEF IInv, Settling

LEMMA StreamingWorks ==
  ASSUME NEW q \in Requests, Streams(q)
  PROVE  Owns(q) /\ Working(q) /\ requests[q].stage = "streaming"
BY DEF Streams, Owns, Working

LEMMA InterruptRefines ==
  ASSUME IInv, NEW q \in Requests, NEW c \in Calls, Interrupt(q, c)
  PROVE  GovernanceStep
<1> DEFINE r == requests[q].run
<1>1. Streams(q) /\ Owns(q) /\ Working(q) /\ requests[q].stage = "streaming"
  BY StreamingWorks DEF Interrupt
<1>2. OneMoves(q) /\ requests'[q].stage = "streaming" /\ requests'[q].fin = "done"
  BY <1>1, SettlingRecord DEF Interrupt, Finals
<1>3. ~Owns(q)'
  BY <1>2 DEF Owns
<1>4. r \in Runs /\ Handled' = Handled \ {r} /\ PhaseMap[r] = "working"
  BY <1>1, <1>2, Driver, DriverStep, HandleDropped DEF Interrupt
<1>5. Governance!Moves(r, "idle")
  BY <1>1, <1>2, <1>3, <1>4, DriverMoves
<1>6. StatusMap' = [StatusMap EXCEPT ![r] = "suspended"] /\ SessionMap' = SessionMap
  BY <1>4, StatusWritten DEF Interrupt
<1> QED BY <1>4, <1>5, <1>6 DEF GovernanceStep, Governance!Next, Governance!Suspend

LEMMA FinishRefines ==
  ASSUME IInv, NEW q \in Requests, Finish(q)
  PROVE  GovernanceStep
<1>1. Owns(q) /\ Working(q) /\ requests[q].stage = "streaming"
  BY StreamingWorks DEF Finish
<1>2. OneMoves(q) /\ requests'[q].stage = "streaming" /\ requests'[q].fin = "completing"
  BY <1>1, SettlingRecord DEF Finish, Finals
<1>3. Owns(q)' /\ Working(q)'
  BY <1>2 DEF Owns, Working
<1> QED BY <1>1, <1>2, <1>3, Driver, DriverStays, HandleDropped, RowsKept, UnprotectFrom
        DEF Finish

LEMMA FinishDeclinedRefines ==
  ASSUME IInv, NEW q \in Requests, FinishDeclined(q)
  PROVE  GovernanceStep
<1>1. Owns(q) /\ requests[q].stage = "streaming"
  BY StreamingWorks DEF FinishDeclined
<1>2. OneMoves(q) /\ requests'[q].stage = "streaming" /\ requests'[q].fin = "closing"
  BY <1>1, SettlingRecord DEF FinishDeclined, Finals
<1>3. ~Owns(q)'
  BY <1>2 DEF Owns
<1> QED BY <1>1, <1>2, <1>3, HandleDropped, SettleFrom DEF FinishDeclined, Terminal

LEMMA FailRunRefines ==
  ASSUME IInv, NEW q \in Requests, NEW stage \in {"streaming", "ended"}, FailRun(q, stage)
  PROVE  GovernanceStep
<1> DEFINE rec == [requests[q] EXCEPT !.fin = "done", !.stage = stage,
                                      !.open = (stage = "streaming")]
<1>1. Owns(q)
  BY StreamingWorks DEF FailRun
<1>2. rec \in Request /\ rec.run = requests[q].run /\ rec.stage = stage /\ rec.fin = "done"
  BY DEF IInv, TypeOK, Request, Finals, Stages
<1>3. OneMoves(q) /\ requests'[q] = rec
  BY <1>2, RecordMoves DEF IInv, FailRun
<1>4. ~Owns(q)'
  BY <1>2, <1>3 DEF Owns
<1> QED BY <1>1, <1>3, <1>4, HandleDropped, SettleFrom DEF FailRun, Terminal

LEMMA FinalizeRefines ==
  ASSUME IInv, NEW q \in Requests, Finalize(q)
  PROVE  GovernanceStep
<1>1. CASE FinalizeFailed(q)
  <2>1. OneMoves(q) /\ requests'[q].stage = requests[q].stage /\ requests'[q].fin = "done"
    BY <1>1, SettlingRecord DEF FinalizeFailed, Finals
  <2>2. Owns(q) /\ ~Owns(q)'
    BY <1>1, <2>1 DEF FinalizeFailed, Owns, IInv, SentNamed, Unsent
  <2> QED BY <1>1, <2>1, <2>2, NoHandle, SettleFrom DEF FinalizeFailed, Terminal
<1>2. CASE FinalizeCompleted(q)
  <2>1. OneMoves(q) /\ requests'[q].stage = requests[q].stage /\ requests'[q].fin = "closing"
    BY <1>2, SettlingRecord DEF FinalizeCompleted, Finals
  <2>2. Owns(q) /\ ~Owns(q)'
    BY <1>2, <2>1 DEF FinalizeCompleted, Owns, IInv, SentNamed, Unsent
  <2> QED BY <1>2, <2>1, <2>2, NoHandle, SettleFrom DEF FinalizeCompleted, Terminal
<1>3. CASE FinalizeCanceled(q)
  <2>1. OneMoves(q) /\ requests'[q].stage = requests[q].stage /\ requests'[q].fin = "closing"
    BY <1>3, SettlingRecord DEF FinalizeCanceled, Finals
  <2>2. Owns(q) /\ ~Working(q) /\ ~Working(q)'
    BY <1>3, <2>1 DEF FinalizeCanceled, Owns, Working
  <2> QED BY <1>3, <2>1, <2>2, NoHandle, SettleFrom DEF FinalizeCanceled, Terminal
<1>4. CASE EmitTerminal(q)
  <2>1. OneMoves(q) /\ requests'[q].stage = requests[q].stage /\ requests'[q].fin = "done"
    BY <1>4, SettlingRecord DEF EmitTerminal, Finals
  <2>2. (Owns(q)' <=> Owns(q)) /\ ~Working(q) /\ ~Working(q)'
    BY <1>4, <2>1 DEF EmitTerminal, Owns, Working
  <2>3. SameWork
    BY <2>1, <2>2, DriverStays, BystanderStep
  <2> QED BY <1>4, <2>3, RowsKept, HandlesSame, Stuttering DEF EmitTerminal
<1> QED BY <1>1, <1>2, <1>3, <1>4 DEF Finalize

LEMMA CancelByHandleRefines ==
  ASSUME IInv, NEW r \in Runs, NEW q \in Requests, CancelByHandle(r, q)
  PROVE  GovernanceStep
<1> DEFINE rec == [requests[q] EXCEPT !.fin = "cancelling",
                                      !.stage = IF @ = "streaming" THEN "ended" ELSE @]
<1>1. /\ requests[q].run = r /\ requests[q].fin = "none"
      /\ requests[q].stage \in {"registered", "streaming"}
  BY DEF IInv, HandleOwnership, CancelByHandle
<1>2. Owns(q)
  BY <1>1 DEF Owns
<1>3. rec \in Request /\ rec.run = r /\ rec.fin = "cancelling"
  BY <1>1 DEF IInv, TypeOK, Request, Finals, Stages
<1>4. OneMoves(q) /\ requests'[q] = rec
  <2>1. Becomes(q, rec) /\ stolen' = stolen
    BY DEF CancelByHandle
  <2> HIDE DEF rec
  <2> QED BY <1>1, <1>3, <2>1, RecordMoves DEF IInv
<1>5. Owns(q)' /\ ~Working(q)'
  BY <1>3, <1>4 DEF Owns, Working
<1>6. Governance!Moves(r, "closing")
  BY <1>1, <1>2, <1>4, <1>5, HandleDropped, DriverMoves DEF CancelByHandle
<1>7. r \in Handled
  BY NoneAssumption DEF Handled, CancelByHandle
<1>8. SameRows
  BY RowsKept DEF CancelByHandle
<1> QED BY <1>6, <1>7, <1>8 DEF GovernanceStep, Governance!Next, Governance!Cancel, SameRows

\* A tool's result, a tool call and what outlives the stream change nothing the promise
\* speaks of.
LEMMA LogsAndAnswersStutter ==
  ASSUME NEW q \in Requests, ToolResult(q) \/ ResultFails(q) \/ ToolCall(q) \/ Background(q)
  PROVE  GovernanceStep
<1>1. requests' = requests /\ stolen' = stolen /\ registry' = registry /\ runs' = runs
  BY DEF ToolResult, ResultFails, ToolCall, Background, TitleSettles, ToolSettles, Settles
<1>2. SameWork
  BY <1>1 DEF SameWork, PhaseMap, PhaseOf, Disturbed, OwnersOf, Owns, Working
<1> QED BY <1>1, <1>2, RowsKept, HandlesSame, Stuttering

LEMMA StreamRefines ==
  ASSUME IInv, NEW q \in Requests, Stream(q)
  PROVE  GovernanceStep
<1>1. CASE CloseStream(q)
  BY <1>1, ClosingRefines DEF CloseStream
<1>2. CASE RunError(q) \/ RunTimeout(q)
  BY <1>2, FailRunRefines DEF RunError, RunTimeout
<1> QED BY <1>1, <1>2, LogsAndAnswersStutter, FinishRefines, FinishDeclinedRefines,
           InterruptRefines DEF Stream

LEMMA PrepareRefines ==
  ASSUME IInv, NEW q \in Requests, Prepare(q)
  PROVE  GovernanceStep
BY RegisterRefines, FailEarlyRefines, StartStreamRefines, AbortStartRefines DEF Prepare

-----------------------------------------------------------------------------
(***************************************************************************)
(* Steps from outside the workers: arrivals that end at once, row-only     *)
(* cancels, the startup reclaim, and a crash.                              *)
(***************************************************************************)

LEMMA OwnersUntouched ==
  ASSUME IInv, EndsAtOnce, NEW x \in Runs
  PROVE  OwnersOf({x})' = OwnersOf({x}) /\ PhaseOf(x)' = PhaseOf(x)
<1>1. \A p \in Requests : /\ Owns(p)' <=> Owns(p)
                          /\ Owns(p) => requests'[p] = requests[p]
  BY DEF IInv, EndsAtOnce, SentNamed, Unsent, Owns
<1>2. OwnersOf({x})' = OwnersOf({x})
  BY <1>1 DEF OwnersOf
<1>3. \A p \in OwnersOf({x}) : Working(p)' <=> Working(p)
  BY <1>1 DEF OwnersOf, Working
<1> QED BY <1>2, <1>3 DEF PhaseOf

LEMMA ArrivalStutters ==
  ASSUME IInv, EndsAtOnce, SameRows, stolen' = stolen, registry' = registry
  PROVE  GovernanceStep
<1>1. SameWork
  BY OwnersUntouched DEF SameWork, PhaseMap, Disturbed
<1> QED BY <1>1, HandlesSame, Stuttering

\* The rows of S end, a new one in session s, and their owners are recorded.
RowsEnd(S, s) ==
  /\ \A x \in S : /\ runs'[x].status \in Terminal
                 /\ runs'[x].session =
                      IF runs[x].status = "absent" THEN s ELSE runs[x].session
  /\ \A x \in Runs \ S : /\ runs'[x].status = runs[x].status
                         /\ runs'[x].session = runs[x].session

LEMMA OverruleFrom ==
  ASSUME IInv, EndsAtOnce, NEW S \in SUBSET Runs, S # {}, NEW s \in Sessions \cup {None},
         RowsEnd(S, s), stolen' = stolen \cup OwnersOf(S), registry' = registry
  PROVE  GovernanceStep
<1> DEFINE t == [x \in S |-> runs'[x].status]
<1>1. t \in [S -> Governance!Terminal]
  BY DEF RowsEnd, Terminal, Governance!Terminal
<1>2. StatusMap' = [x \in Runs |-> IF x \in S THEN t[x] ELSE StatusMap[x]]
  BY DEF RowsEnd, StatusMap
<1>3. SessionMap' =
        [x \in Runs |-> IF x \in S /\ StatusMap[x] = "absent" THEN s ELSE SessionMap[x]]
  BY DEF RowsEnd, StatusMap, SessionMap
<1>4. PhaseMap' = PhaseMap /\ Handled' = Handled
  BY OwnersUntouched, HandlesSame DEF PhaseMap
<1>5. Disturbed' = Disturbed \cup (S \cap Governance!InWork)
  <2>1. \A x \in Runs : x \in Governance!InWork <=> OwnersOf({x}) # {}
    BY DEF Governance!InWork, PhaseMap, PhaseOf
  <2>2. \A x \in Runs : OwnersOf({x}) \cap OwnersOf(S) = IF x \in S THEN OwnersOf({x}) ELSE {}
    BY DEF OwnersOf
  <2>3. \A x \in Runs : x \in Disturbed' <=> x \in Disturbed \/ (x \in S /\ x \in Governance!InWork)
    <3> SUFFICES ASSUME NEW x \in Runs
                 PROVE  x \in Disturbed' <=> x \in Disturbed \/ (x \in S /\ x \in Governance!InWork)
      OBVIOUS
    <3>1. x \in Disturbed' <=> OwnersOf({x}) \cap (stolen \cup OwnersOf(S)) # {}
      BY OwnersUntouched DEF Disturbed
    <3>2. x \in Disturbed <=> OwnersOf({x}) \cap stolen # {}
      BY DEF Disturbed
    <3> HIDE DEF Disturbed
    <3> QED BY <2>1, <2>2, <3>1, <3>2
  <2>4. Governance!InWork \subseteq Runs /\ Disturbed \subseteq Runs /\ Disturbed' \subseteq Runs
    BY DEF Governance!InWork, Disturbed
  <2> QED BY <2>3, <2>4
<1> HIDE DEF t
<1>6. Governance!Overrule(S, s)
  BY <1>1, <1>2, <1>3, <1>4, <1>5 DEF Governance!Overrule
<1> QED BY <1>6 DEF GovernanceStep, Governance!Next

LEMMA EarlyFailureEnds ==
  ASSUME TypeOK, NEW table \in [Runs -> Row], NEW r \in Runs, NEW s \in Sessions
  PROVE  /\ PersistEarlyFailed(table, r, s)[r].status = "failed"
         /\ PersistEarlyFailed(table, r, s)[r].session =
              IF table[r].status = "absent" THEN s ELSE table[r].session
         /\ \A x \in Runs \ {r} : PersistEarlyFailed(table, r, s)[x] = table[x]
BY DEF PersistEarlyFailed, Row

LEMMA RejectConfigRefines ==
  ASSUME IInv, NEW q \in Requests, NEW r, NEW s, NEW c, NEW a,
         Named(r, s, c, a), RejectConfig(q, r, s, c, a)
  PROVE  GovernanceStep
<1>1. EndsAtOnce
  BY EndedEndsAtOnce DEF IInv, RejectConfig
<1>2. CASE c = None
  <2>1. RowsEnd({r}, s)
    <3>1. runs' = PersistEarlyFailed(runs, r, s) /\ runs \in [Runs -> Row]
      BY <1>2 DEF IInv, TypeOK, RejectConfig
    <3>2. /\ runs'[r].status = "failed"
          /\ runs'[r].session = IF runs[r].status = "absent" THEN s ELSE runs[r].session
          /\ \A x \in Runs \ {r} : runs'[x] = runs[x]
      BY <3>1, EarlyFailureEnds DEF IInv, Named
    <3> QED BY <3>2 DEF RowsEnd, Terminal
  <2>2. {r} \in SUBSET Runs /\ s \in Sessions
    BY DEF Named
  <2> QED BY <1>1, <1>2, <2>1, <2>2, OverruleFrom DEF RejectConfig
<1>3. CASE c # None
  BY <1>1, <1>3, ArrivalStutters, RowsKept DEF RejectConfig
<1> QED BY <1>2, <1>3

LEMMA ReplayRefines ==
  ASSUME IInv, NEW q \in Requests, NEW r, NEW s, NEW b, NEW c, NEW a,
         Named(r, s, c, a), Replay(q, r, s, b, c, a)
  PROVE  GovernanceStep
<1>1. EndsAtOnce
  BY EndedEndsAtOnce DEF IInv, Replay
<1> QED BY <1>1, ArrivalStutters, RowsKept DEF Replay

LEMMA RefuseRefines ==
  ASSUME IInv, NEW q \in Requests, NEW r, NEW s, NEW b, NEW c, NEW a,
         Named(r, s, c, a), Refuse(q, r, s, b, c, a)
  PROVE  GovernanceStep
<1> DEFINE gone == ReclaimedByRefusal(r, s, c)
           table == IF gone = {} THEN runs ELSE AfterReclaim(r, s)
           S == IF c = None THEN gone \cup {r} ELSE gone
<1>1. EndsAtOnce
  BY EndedEndsAtOnce DEF IInv, Refuse
<1>2. /\ r \in Runs /\ s \in Sessions
      /\ gone \subseteq Runs \ {r}
      /\ \A x \in gone : runs[x].status # "absent"
  BY DEF Named, ReclaimedByRefusal, Reclaimed, ActiveOthers, Active
<1>3. /\ table \in [Runs -> Row]
      /\ \A x \in Runs : /\ table[x].session = runs[x].session
                         /\ x \in gone => table[x].status = "canceled"
                         /\ x \notin gone => table[x] = runs[x]
  BY ReclaimedRows DEF IInv, TypeOK, Named, ReclaimedByRefusal
<1>4. /\ runs' = IF c = None THEN PersistEarlyFailed(table, r, s) ELSE table
      /\ stolen' = stolen \cup OwnersOf(S)
      /\ registry' = registry
  BY DEF Refuse
<1> HIDE DEF gone, table
<1>5. RowsEnd(S, s)
  <2>1. CASE c = None
    <3>1. /\ runs'[r].status = "failed"
          /\ runs'[r].session = IF table[r].status = "absent" THEN s ELSE table[r].session
          /\ \A x \in Runs \ {r} : runs'[x] = table[x]
      BY <1>2, <1>3, <1>4, <2>1, EarlyFailureEnds DEF IInv
    <3> QED BY <1>2, <1>3, <2>1, <3>1 DEF RowsEnd, Terminal
  <2>2. CASE c # None
    BY <1>2, <1>3, <1>4, <2>2 DEF RowsEnd, Terminal
  <2> QED BY <2>1, <2>2
<1>6. CASE S # {}
  BY <1>1, <1>2, <1>4, <1>5, <1>6, OverruleFrom
<1>7. CASE S = {}
  <2>1. SameRows
    BY <1>5, <1>7 DEF RowsEnd, SameRows, StatusMap, SessionMap
  <2>2. stolen' = stolen
    BY <1>4, <1>7 DEF OwnersOf
  <2> QED BY <1>1, <1>4, <2>1, <2>2, ArrivalStutters
<1> QED BY <1>6, <1>7

LEMMA CancelPersistedOnlyRefines ==
  ASSUME IInv, NEW r \in Runs, CancelPersistedOnly(r)
  PROVE  GovernanceStep
<1>1. EndsAtOnce
  BY DEF CancelPersistedOnly, EndsAtOnce
<1>2. RowsEnd({r}, None)
  BY DEF IInv, TypeOK, CancelPersistedOnly, Status, RowsEnd, Row, Terminal, Active
<1>3. {r} \in SUBSET Runs
  OBVIOUS
<1> QED BY <1>1, <1>2, <1>3, OverruleFrom DEF CancelPersistedOnly

LEMMA RestartRefines ==
  ASSUME IInv, Restart
  PROVE  GovernanceStep
<1> DEFINE S == {r \in ListedOrphans : registry[r] = None}
<1>1. EndsAtOnce
  BY DEF Restart, EndsAtOnce
<1>2. S \in SUBSET Runs /\ \A x \in S : runs[x].status = "running"
  BY DEF ListedOrphans, Orphans
<1>3. RowsEnd(S, None)
  BY <1>2 DEF IInv, TypeOK, Restart, RowsEnd, Row, Terminal
<1>4. OwnersOf(S) = {}
  BY DEF IInv, DownIsIdle, Restart, OwnersOf
<1>5. CASE S # {}
  BY <1>1, <1>2, <1>3, <1>4, <1>5, OverruleFrom DEF Restart
<1>6. CASE S = {}
  <2>1. SameRows
    BY <1>3, <1>6 DEF RowsEnd, SameRows, StatusMap, SessionMap
  <2> QED BY <1>1, <2>1, ArrivalStutters DEF Restart
<1> QED BY <1>5, <1>6

LEMMA CrashRefines ==
  ASSUME IInv, Crash
  PROVE  GovernanceStep
<1>1. \A p \in Requests : ~Owns(p)'
  <2> SUFFICES ASSUME NEW p \in Requests PROVE ~Owns(p)'
    OBVIOUS
  <2>1. requests[p] \in Request
    BY DEF IInv, TypeOK
  <2>2. requests'[p] = AfterCrash(p)
    BY DEF Crash
  <2>3. AfterCrash(p).stage \in {"unsent", "ended"} /\ AfterCrash(p).fin \in {"none", "done"}
    BY <2>1 DEF AfterCrash, IInv, SentNamed, Unsent, Request
  <2> QED BY <2>2, <2>3 DEF Owns
<1>2. \A x \in Runs : OwnersOf({x})' = {}
  BY <1>1 DEF OwnersOf
<1>3. PhaseMap' = [x \in Runs |-> "idle"]
  BY <1>2 DEF PhaseMap, PhaseOf
<1>4. Disturbed' = {} /\ Handled' = {}
  BY <1>2 DEF Disturbed, Handled, Crash
<1>5. SameRows
  BY RowsKept DEF Crash
<1> QED BY <1>3, <1>4, <1>5 DEF GovernanceStep, Governance!Next, Governance!Halt, SameRows

-----------------------------------------------------------------------------
(***************************************************************************)
(* A run is begun or resumed: the promise's Start.                         *)
(***************************************************************************)

\* Only a request that was sent can lose its row to somebody else.
StolenWereSent == \A q \in stolen : requests[q].stage # "unsent"

LEMMA OwnersWereSent ==
  ASSUME IInv, NEW S
  PROVE  OwnersOf(S) \subseteq {q \in Requests : requests[q].stage # "unsent"}
BY DEF IInv, SentNamed, Unsent, OwnersOf, Owns

LEMMA StartFrom ==
  ASSUME IInv, StolenWereSent, NEW q \in Requests, NEW r \in Runs, NEW s \in Sessions,
         Arrives(q), BeginsOwning(q, r, s),
         \/ runs[r].status = "absent"
         \/ runs[r].status = "suspended" /\ runs[r].session = s,
         Blockers(r, s) = {},
         runs'[r].status = "running",
         runs'[r].session = s,
         \A x \in Runs \ {r} : runs'[x] = AfterReclaim(r, s)[x],
         stolen' = stolen \cup OwnersOf(Reclaimed(r, s)),
         registry' = registry
  PROVE  GovernanceStep
<1> DEFINE gone == Reclaimed(r, s)
<1>1. ~Owns(q) /\ Owns(q)' /\ Working(q)' /\ requests'[q].run = r
  BY DEF IInv, SentNamed, Unsent, Arrives, Owns, Working, BeginsOwning
<1>2. \A p \in Requests \ {q} : /\ requests'[p] = requests[p]
                                /\ Owns(p)' <=> Owns(p)
                                /\ Working(p)' <=> Working(p)
  BY DEF BeginsOwning, Owns, Working
<1>3. \A x \in Runs \ {r} : OwnersOf({x})' = OwnersOf({x}) /\ PhaseOf(x)' = PhaseOf(x)
  <2> SUFFICES ASSUME NEW x \in Runs \ {r}
               PROVE  OwnersOf({x})' = OwnersOf({x}) /\ PhaseOf(x)' = PhaseOf(x)
    OBVIOUS
  <2>1. OwnersOf({x})' = OwnersOf({x}) /\ q \notin OwnersOf({x})
    BY <1>1, <1>2 DEF OwnersOf
  <2> QED BY <1>2, <2>1 DEF PhaseOf, OwnersOf
<1>4. OwnersOf({r}) = {}
  BY DEF IInv, OwnedRows, OwnersOf
<1>5. OwnersOf({r})' = {q}
  BY <1>1, <1>2, <1>4 DEF OwnersOf
<1>6. PhaseMap[r] = "idle" /\ PhaseMap' = [PhaseMap EXCEPT ![r] = "working"]
  <2>1. PhaseOf(r) = "idle" /\ PhaseOf(r)' = "working"
    BY <1>1, <1>4, <1>5 DEF PhaseOf
  <2> QED BY <1>3, <2>1 DEF PhaseMap
<1>7. /\ gone = Governance!Rivals(r, s)
      /\ \A x \in gone : StatusMap[x] = "running" /\ x \notin Handled
  <2>1. Governance!Rivals(r, s) = ActiveOthers(r, s)
    BY DEF Governance!Rivals, Governance!Active, ActiveOthers, Active, StatusMap, SessionMap
  <2>2. gone = ActiveOthers(r, s) /\ \A x \in gone : ~HoldsSession(x)
    BY DEF Blockers, Reclaimed
  <2>3. \A x \in gone : x \in Runs /\ runs[x].status \in Active
    BY DEF Reclaimed, ActiveOthers
  <2> QED BY <2>1, <2>2, <2>3 DEF HoldsSession, Active, StatusMap, Handled
<1>8. gone \subseteq Runs \ {r}
  BY DEF Reclaimed, ActiveOthers
<1>9. \A x \in Runs \ {r} :
        /\ runs'[x].status = IF x \in gone THEN "canceled" ELSE runs[x].status
        /\ runs'[x].session = runs[x].session
  BY ReclaimedRows DEF IInv
<1>10. StatusMap' = [x \in Runs |-> IF x = r THEN "running"
                                    ELSE IF x \in gone THEN "canceled" ELSE StatusMap[x]]
  BY <1>9 DEF StatusMap
<1>11. SessionMap' = [SessionMap EXCEPT ![r] = s]
  BY <1>9 DEF SessionMap
<1>12. Disturbed' = Disturbed \cup (gone \cap Governance!InWork)
  <2>1. \A x \in Runs : x \in Governance!InWork <=> OwnersOf({x}) # {}
    BY DEF Governance!InWork, PhaseMap, PhaseOf
  <2>2. \A x \in Runs : OwnersOf({x}) \cap OwnersOf(gone) = IF x \in gone THEN OwnersOf({x}) ELSE {}
    BY DEF OwnersOf
  <2>3. \A x \in Runs \ {r} :
          x \in Disturbed' <=> x \in Disturbed \/ (x \in gone /\ x \in Governance!InWork)
    <3> SUFFICES ASSUME NEW x \in Runs \ {r}
                 PROVE  x \in Disturbed' <=> x \in Disturbed \/ (x \in gone /\ x \in Governance!InWork)
      OBVIOUS
    <3>1. x \in Disturbed' <=> OwnersOf({x}) \cap (stolen \cup OwnersOf(gone)) # {}
      BY <1>3 DEF Disturbed
    <3>2. x \in Disturbed <=> OwnersOf({x}) \cap stolen # {}
      BY DEF Disturbed
    <3> QED BY <2>1, <2>2, <3>1, <3>2
  <2>4. q \notin stolen'
    BY <1>1 DEF OwnersOf, StolenWereSent, Arrives
  <2>5. r \notin Disturbed' /\ r \notin Disturbed
    BY <1>4, <1>5, <2>4 DEF Disturbed
  <2>6. Governance!InWork \subseteq Runs /\ Disturbed \subseteq Runs /\ Disturbed' \subseteq Runs
    BY DEF Governance!InWork, Disturbed
  <2> QED BY <1>8, <2>3, <2>5, <2>6
<1>13. Handled' = Handled
  BY HandlesSame
<1>14. StatusMap[r] = "absent" \/ (StatusMap[r] = "suspended" /\ SessionMap[r] = s)
  BY DEF StatusMap, SessionMap
<1> HIDE DEF gone
<1>15. Governance!Start(r, s)
  BY <1>6, <1>7, <1>10, <1>11, <1>12, <1>13, <1>14 DEF Governance!Start
<1> QED BY <1>15 DEF GovernanceStep, Governance!Next

LEMMA ClaimRefines ==
  ASSUME IInv, StolenWereSent, NEW q \in Requests, NEW r \in Runs, NEW s \in Sessions,
         NEW b \in Bodies, Claim(q, r, s, b)
  PROVE  GovernanceStep
<1>1. BeginsOwning(q, r, s)
  BY BeginsType DEF IInv, Claim, Named
<1>2. AfterReclaim(r, s) \in [Runs -> Row]
  BY ReclaimedRows DEF IInv
<1>3. /\ runs'[r].status = "running" /\ runs'[r].session = s
      /\ \A x \in Runs \ {r} : runs'[x] = AfterReclaim(r, s)[x]
  BY <1>2 DEF Claim
<1> QED BY <1>1, <1>3, StartFrom DEF Claim

LEMMA ResumeRefines ==
  ASSUME IInv, StolenWereSent, NEW q \in Requests, NEW r \in Runs, NEW s \in Sessions,
         NEW c \in Calls, NEW a \in Answers, Resume(q, r, s, c, a)
  PROVE  GovernanceStep
<1>1. BeginsOwning(q, r, s)
  BY BeginsType, NoneAssumption DEF IInv, Resume, Named
<1>2. AfterReclaim(r, s) \in [Runs -> Row] /\ AfterReclaim(r, s)[r].session = s
  BY ReclaimedRows DEF IInv, Resume, ResumeMatches
<1>3. /\ runs'[r].status = "running" /\ runs'[r].session = s
      /\ \A x \in Runs \ {r} : runs'[x] = AfterReclaim(r, s)[x]
  BY <1>2 DEF Resume, ResumedRows, Row
<1> QED BY <1>1, <1>3, StartFrom DEF Resume, Resumes, ResumeMatches

LEMMA SubmitRefines ==
  ASSUME IInv, StolenWereSent, NEW q \in Requests, Submit(q)
  PROVE  GovernanceStep
<1> PICK r \in Runs, s \in Sessions :
      \/ SubmitNew(q, r, s)
      \/ \E c \in Calls, a \in Answers : SubmitResume(q, r, s, c, a)
  BY DEF Submit
<1>1. CASE SubmitNew(q, r, s)
  <2>1. Named(r, s, None, None)
    BY DEF Named
  <2> QED BY <1>1, <2>1, RejectConfigRefines, ReplayRefines, RefuseRefines, ClaimRefines
          DEF SubmitNew
<1>2. CASE \E c \in Calls, a \in Answers : SubmitResume(q, r, s, c, a)
  <2> PICK c \in Calls, a \in Answers : SubmitResume(q, r, s, c, a)
    BY <1>2
  <2>1. Named(r, s, c, a)
    BY NoneAssumption DEF Named, Answers
  <2> QED BY <2>1, RejectConfigRefines, ReplayRefines, RefuseRefines, ResumeRefines
          DEF SubmitResume
<1> QED BY <1>1, <1>2

-----------------------------------------------------------------------------
LEMMA SentKept ==
  ASSUME IInv, StolenWereSent,
         \A q \in Requests : requests[q].stage # "unsent" => requests'[q].stage # "unsent",
         \E S : stolen' \subseteq stolen \cup OwnersOf(S)
  PROVE  StolenWereSent'
BY OwnersWereSent DEF StolenWereSent, IInv, TypeOK

LEMMA ArrivalsAreSent ==
  ASSUME IInv, NEW q \in Requests, Submit(q)
  PROVE  /\ \A p \in Requests : requests[p].stage # "unsent" => requests'[p] = requests[p]
         /\ \E S : stolen' \subseteq stolen \cup OwnersOf(S)
<1>1. /\ \E rec : Becomes(q, rec)
      /\ \E S : stolen' \subseteq stolen \cup OwnersOf(S)
      /\ requests[q].stage = "unsent"
  BY DEF Submit, SubmitNew, SubmitResume, RejectConfig, Replay, Refuse, Claim, Resume,
     Ended, Begins, Arrives
<1> QED BY <1>1 DEF Becomes, IInv, TypeOK

\* A request that is at work changes only itself, and is not unsent afterwards.
Proceeds(q) ==
  /\ \A p \in Requests \ {q} : requests'[p] = requests[p]
  /\ requests'[q].stage = "unsent" => requests[q].stage = "unsent"
  /\ stolen' = stolen

LEMMA RecordProceeds ==
  ASSUME TypeOK, NEW q \in Requests, NEW rec, Becomes(q, rec), stolen' = stolen,
         rec.stage = "unsent" => requests[q].stage = "unsent"
  PROVE  Proceeds(q)
BY DEF TypeOK, Becomes, Proceeds

LEMMA SettlingProceeds ==
  ASSUME TypeOK, NEW q \in Requests, NEW fin, Settling(q, fin), stolen' = stolen
  PROVE  Proceeds(q)
<1>1. [requests[q] EXCEPT !.fin = fin].stage = requests[q].stage
  BY DEF TypeOK, Request
<1> QED BY <1>1, RecordProceeds DEF Settling

LEMMA ClosedProceeds ==
  ASSUME TypeOK, NEW q \in Requests, Becomes(q, Closed(q)), stolen' = stolen
  PROVE  Proceeds(q)
<1>1. Closed(q).stage = "ended"
  BY DEF TypeOK, Request, Closed
<1> QED BY <1>1, RecordProceeds

LEMMA WorkProceeds ==
  ASSUME IInv, NEW q \in Requests,
         \/ Prepare(q) \/ Stream(q) \/ Finalize(q) \/ Disconnect(q) \/ Background(q)
         \/ \E r \in Runs : CancelByHandle(r, q)
  PROVE  Proceeds(q)
<1> USE DEF IInv
<1>1. requests[q] \in Request
  BY DEF TypeOK
<1>2. CASE Prepare(q)
  <2>1. CASE Register(q) \/ StartStream(q)
    <3>1. PICK stage \in {"registered", "streaming"} :
            Becomes(q, [requests[q] EXCEPT !.stage = stage]) /\ stolen' = stolen
      BY <2>1 DEF Register, StartStream
    <3>2. [requests[q] EXCEPT !.stage = stage].stage = stage
      BY <1>1 DEF Request
    <3> QED BY <3>1, <3>2, RecordProceeds
  <2> QED BY <1>2, <2>1, ClosedProceeds DEF Prepare, FailEarly, AbortStart
<1>3. CASE Stream(q)
  <2>1. CASE RunError(q) \/ RunTimeout(q)
    <3>1. PICK stage \in {"streaming", "ended"} : FailRun(q, stage)
      BY <2>1 DEF RunError, RunTimeout
    <3>2. [requests[q] EXCEPT !.fin = "done", !.stage = stage,
                              !.open = (stage = "streaming")].stage = stage
      BY <1>1 DEF Request
    <3> QED BY <3>1, <3>2, RecordProceeds DEF FailRun
  <2>2. CASE ToolResult(q) \/ ResultFails(q) \/ ToolCall(q)
    BY <2>2 DEF ToolResult, ResultFails, ToolCall, Proceeds
  <2> QED BY <1>3, <2>1, <2>2, ClosedProceeds, SettlingProceeds
          DEF Stream, CloseStream, Finish, FinishDeclined, Interrupt
<1>4. CASE Finalize(q)
  BY <1>4, SettlingProceeds
  DEF Finalize, FinalizeFailed, FinalizeCompleted, FinalizeCanceled, EmitTerminal
<1>5. CASE Disconnect(q)
  <2>1. CASE requests[q].stage = "streaming"
    BY <1>5, <2>1, ClosedProceeds DEF Disconnect
  <2>2. CASE requests[q].stage # "streaming"
    <3>1. [requests[q] EXCEPT !.open = FALSE].stage = requests[q].stage
      BY <1>1 DEF Request
    <3> QED BY <1>5, <2>2, <3>1, RecordProceeds DEF Disconnect
  <2> QED BY <2>1, <2>2
<1>6. CASE \E r \in Runs : CancelByHandle(r, q)
  <2> DEFINE rec == [requests[q] EXCEPT !.fin = "cancelling",
                                        !.stage = IF @ = "streaming" THEN "ended" ELSE @]
  <2>1. Becomes(q, rec) /\ stolen' = stolen
    BY <1>6 DEF CancelByHandle
  <2>2. rec.stage = "unsent" => requests[q].stage = "unsent"
    BY <1>1 DEF Request
  <2> HIDE DEF rec
  <2> QED BY <2>1, <2>2, RecordProceeds
<1>7. CASE Background(q)
  BY <1>7 DEF Background, TitleSettles, ToolSettles, Settles, Proceeds
<1> QED BY <1>2, <1>3, <1>4, <1>5, <1>6, <1>7

LEMMA NextKeepsSent ==
  ASSUME IInv, StolenWereSent, [Next]_vars
  PROVE  StolenWereSent'
<1>1. ASSUME NEW q \in Requests, Submit(q) PROVE StolenWereSent'
  BY <1>1, ArrivalsAreSent, SentKept
<1>2. ASSUME NEW q \in Requests,
             \/ Prepare(q) \/ Stream(q) \/ Finalize(q) \/ Disconnect(q) \/ Background(q)
             \/ \E r \in Runs : CancelByHandle(r, q)
      PROVE  StolenWereSent'
  BY <1>2, WorkProceeds DEF Proceeds, StolenWereSent, IInv, TypeOK
<1>3. ASSUME NEW r \in Runs, CancelPersistedOnly(r) PROVE StolenWereSent'
  BY <1>3, SentKept DEF CancelPersistedOnly
<1>4. CASE Crash
  <2>1. \A p \in Requests : requests[p].stage # "unsent" => requests'[p].stage # "unsent"
    BY <1>4 DEF Crash, AfterCrash, IInv, TypeOK, Request
  <2> QED BY <1>4, <2>1 DEF Crash, StolenWereSent, IInv, TypeOK
<1>5. CASE Restart \/ UNCHANGED vars
  BY <1>5 DEF Restart, vars, StolenWereSent
<1> QED BY <1>1, <1>2, <1>3, <1>4, <1>5 DEF Next

LEMMA NextRefines ==
  ASSUME IInv, StolenWereSent, [Next]_vars
  PROVE  GovernanceStep
<1>1. CASE UNCHANGED vars
  <2>1. SameWork
    BY <1>1 DEF vars, SameWork, PhaseMap, PhaseOf, Disturbed, OwnersOf, Owns, Working
  <2> QED BY <1>1, <2>1, RowsKept, HandlesSame, Stuttering DEF vars
<1> QED
  BY <1>1, SubmitRefines, PrepareRefines, StreamRefines, FinalizeRefines, DisconnectRefines,
     LogsAndAnswersStutter, CancelByHandleRefines, CancelPersistedOnlyRefines, CrashRefines, RestartRefines DEF Next

LEMMA InitRefines ==
  ASSUME Init PROVE Governance!Init /\ StolenWereSent
<1>1. \A q \in Requests : ~Owns(q)
  BY DEF Init, Unsent, Owns
<1>2. \A x \in Runs : OwnersOf({x}) = {}
  BY <1>1 DEF OwnersOf
<1>3. PhaseMap = [x \in Runs |-> "idle"] /\ Disturbed = {}
  BY <1>2 DEF PhaseMap, PhaseOf, Disturbed
<1>4. StatusMap = [x \in Runs |-> "absent"] /\ SessionMap = [x \in Runs |-> None]
  BY DEF Init, StatusMap, SessionMap, NoRow
<1>5. Handled = {}
  BY DEF Init, Handled
<1> QED BY <1>3, <1>4, <1>5 DEF Governance!Init, StolenWereSent, Init

\* Every behaviour of the server is one the promise allows.
THEOREM Refinement == Spec => ImplementsGovernance
<1>1. Init => Governance!Init /\ StolenWereSent
  BY InitRefines
<1>2. IInv /\ StolenWereSent /\ [Next]_vars => StolenWereSent'
  BY NextKeepsSent
<1>3. IInv /\ StolenWereSent /\ [Next]_vars => [Governance!Next]_(Governance!vars)
  BY NextRefines DEF GovernanceStep
<1> QED BY <1>1, <1>2, <1>3, Invariance, PTL DEF Spec, ImplementsGovernance, Governance!Spec
=============================================================================
