------------------------- MODULE RunLifecycle_proofs -------------------------
(***************************************************************************)
(* Proofs of the safety properties of RunLifecycle for every number of     *)
(* runs, sessions, requests, tool calls and crashes. IInv is inductive:    *)
(* one lemma per action shows that the action preserves it.                *)
(***************************************************************************)
EXTENDS RunLifecycle, SequenceTheorems, TLAPS

-----------------------------------------------------------------------------
(***************************************************************************)
(* Types: what the shared operators yield.                                 *)
(***************************************************************************)

LEMMA BecomesType ==
  ASSUME TypeOK, NEW q \in Requests, NEW request \in Request, Becomes(q, request)
  PROVE  /\ requests' \in [Requests -> Request]
         /\ requests'[q] = request
         /\ \A p \in Requests \ {q} : requests'[p] = requests[p]
  BY DEF TypeOK, Becomes

LEMMA UnregisteredType ==
  ASSUME TypeOK, NEW q \in Requests
  PROVE  Unregistered(q) \in [Runs -> Requests \cup {None}]
  BY DEF TypeOK, Unregistered

LEMMA StatusType ==
  ASSUME TypeOK, NEW r \in Runs, NEW status \in Statuses, Status(r, status)
  PROVE  runs' \in [Runs -> Row]
  BY DEF TypeOK, Status, Row

LEMMA EmitType ==
  ASSUME TypeOK, NEW r \in Runs, NEW list \in Seq(Events), Emit(r, list)
  PROVE  events' \in [Runs -> Seq(Events)]
  BY DEF TypeOK, Emit

LEMMA AnswerType ==
  ASSUME TypeOK, NEW r \in Runs, NEW c \in Calls,
         NEW status \in {"pending", "resolved", "canceled"},
         NEW answer \in Answers \cup {None}, Answer(r, c, status, answer)
  PROVE  interactions' \in [Runs -> [Calls -> Interaction]]
  BY DEF TypeOK, Answer, Interaction

LEMMA AskType ==
  ASSUME TypeOK, NEW r \in Runs, NEW c \in Calls, Ask(r, c)
  PROVE  interactions' \in [Runs -> [Calls -> Interaction]]
  BY DEF TypeOK, Ask, Interaction

LEMMA ClosedType ==
  ASSUME TypeOK, NEW q \in Requests
  PROVE  Closed(q) \in Request
  BY DEF TypeOK, Closed, Request, Stages, Finals

LEMMA EventLists ==
  /\ <<"RUN_STARTED">> \in Seq(Events)
  /\ <<"RUN_FINISHED">> \in Seq(Events)
  /\ <<"completed">> \in Seq(Events)
  /\ <<"canceled">> \in Seq(Events)
  /\ <<"failed", "RUN_ERROR">> \in Seq(Events)
  /\ <<"RUN_ERROR">> \in Seq(Events)
  /\ <<"session.title">> \in Seq(Events)
  /\ <<"tool">> \in Seq(Events)
  /\ SuspensionLog \in Seq(Events)
  BY DEF Events, SuspensionLog

-----------------------------------------------------------------------------
(***************************************************************************)
(* Owners only leave: in a step that sends no request nobody begins to own *)
(* or to work on a run.                                                    *)
(***************************************************************************)

OwnersLeave ==
  \A p \in Requests : Owns(p)' =>
    /\ Owns(p)
    /\ Working(p)' => Working(p)
    /\ requests'[p].run = requests[p].run
    /\ requests'[p].session = requests[p].session

LEMMA LeavingIsSafe ==
  ASSUME IInv, OwnersLeave, stolen \subseteq stolen', ~up' => ~up
  PROVE  OneOwnerPerRun' /\ ExclusiveUnlessStolen' /\ DownIsIdle'
  BY DEF IInv, OwnersLeave, Working, OneOwnerPerRun, ExclusiveUnlessStolen, DownIsIdle

-----------------------------------------------------------------------------
(***************************************************************************)
(* The steps of a request at work. In each lemma <1>1 types the record the *)
(* request becomes, <1>2 says what the invariant knows of the request, and *)
(* one step follows for each part of the invariant.                        *)
(***************************************************************************)

LEMMA RegisterStep ==
  ASSUME IInv, NEW q \in Requests, Register(q)
  PROVE  IInv'
<1>1. requests[q] \in Request /\ [requests[q] EXCEPT !.stage = "registered"] \in Request
  BY ClosedType DEF IInv, TypeOK, Request, Stages, Finals
<1>2. /\ requests[q].run \in Runs /\ requests[q].session \in Sessions
      /\ Owns(q) /\ requests[q] # Unsent
  BY NoneAssumption DEF IInv, SentNamed, HandleOwnership, Register, Unsent, Owns
<1>3. TypeOK'
  <2>1. requests' \in [Requests -> Request]
    BY <1>1, <1>2, BecomesType DEF IInv, Register, Settling
  <2>2. registry' \in [Runs -> Requests \cup {None}]
    BY <1>2 DEF IInv, TypeOK, Register
  <2> QED BY <2>1, <2>2 DEF IInv, TypeOK, Register
<1>4. SentNamed'
  BY <1>1, <1>2 DEF IInv, TypeOK, Register, Becomes, SentNamed, Request
<1>5. HandleOwnership'
  <2>1. \A p \in Requests : (Streams(p) => registry[requests[p].run] = p)'
    BY <1>1, <1>2, NoneAssumption DEF IInv, TypeOK, Register, Becomes, HandleOwnership,
       OneOwnerPerRun, Streams, Owns, HandlesKept, Request
  <2>2. ASSUME NEW x \in Runs, NEW p \in Requests, registry'[x] = p
        PROVE  /\ requests'[p].run = x
               /\ requests'[p].stage \in {"registered", "streaming"}
               /\ requests'[p].fin = "none"
               /\ requests'[p].open
    BY <1>1, <1>2, <2>2, NoneAssumption DEF IInv, TypeOK, Register, Becomes,
       HandleOwnership, Request, OneOwnerPerRun, Owns, SentNamed
  <2> QED BY <2>1, <2>2 DEF HandleOwnership, Streams
<1>6. HandlesKept'
  BY <1>1, <1>2 DEF IInv, TypeOK, Register, Becomes, HandlesKept, HandleOwnership,
     OneOwnerPerRun, Owns, Request
<1>7. OwnersLeave
  BY <1>1, <1>2 DEF IInv, TypeOK, Register, Becomes, OwnersLeave, Working, Owns, Request
<1>8. OwnedRows'
  BY <1>1, <1>2 DEF IInv, TypeOK, Register, Becomes, OwnedRows, OneOwnerPerRun, Owns,
     Request, Row
<1>9. SuspendedIsPending'
  BY <1>1, <1>2 DEF IInv, TypeOK, Register, Becomes, SuspendedIsPending, OwnedRows, Row,
     Interaction
<1>10. FinishedIsSettled'
  BY <1>1, <1>2 DEF IInv, TypeOK, Register, Becomes, FinishedIsSettled, FinishedEvent,
     OwnersOf, OneOwnerPerRun, Owns, Request, Row, Terminal
<1>11. WorkerRowIsRunning'
  BY <1>1, <1>2 DEF IInv, TypeOK, Register, Becomes, WorkerRowIsRunning, OneOwnerPerRun,
     Working, Owns, Request, Row, SentNamed
<1> QED
  BY <1>3, <1>4, <1>5, <1>6, <1>7, <1>8, <1>9, <1>10, <1>11, LeavingIsSafe
  DEF IInv, Register

LEMMA FailEarlyStep ==
  ASSUME IInv, NEW q \in Requests, FailEarly(q)
  PROVE  IInv'
<1>1. requests[q] \in Request /\ Closed(q) \in Request
  BY ClosedType DEF IInv, TypeOK, Request, Stages, Finals
<1>2. /\ requests[q].run \in Runs /\ requests[q].session \in Sessions
      /\ Owns(q) /\ requests[q] # Unsent
  BY NoneAssumption DEF IInv, SentNamed, HandleOwnership, FailEarly, Unsent, Owns
<1>3. TypeOK'
  <2>1. requests' \in [Requests -> Request]
    BY <1>1, <1>2, BecomesType DEF IInv, FailEarly, Settling
  <2>2. runs' \in [Runs -> Row]
    BY <1>2 DEF IInv, TypeOK, FailEarly, Row, Statuses, Terminal
  <2>3. registry' \in [Runs -> Requests \cup {None}]
    BY <1>2, UnregisteredType DEF IInv, FailEarly
  <2> QED BY <2>1, <2>2, <2>3 DEF IInv, TypeOK, FailEarly
<1>4. SentNamed'
  BY <1>1, <1>2 DEF IInv, TypeOK, FailEarly, Becomes, Closed, Unregistered, SentNamed,
     Request
<1>5. HandleOwnership'
  <2>1. \A p \in Requests : (Streams(p) => registry[requests[p].run] = p)'
    BY <1>1, <1>2, NoneAssumption DEF IInv, TypeOK, FailEarly, Becomes, Closed,
       Unregistered, HandleOwnership, OneOwnerPerRun, Streams, Owns, HandlesKept, Request
  <2>2. ASSUME NEW x \in Runs, NEW p \in Requests, registry'[x] = p
        PROVE  /\ requests'[p].run = x
               /\ requests'[p].stage \in {"registered", "streaming"}
               /\ requests'[p].fin = "none"
               /\ requests'[p].open
    BY <1>1, <1>2, <2>2, NoneAssumption DEF IInv, TypeOK, FailEarly, Becomes, Closed,
       Unregistered, HandleOwnership, Request
  <2> QED BY <2>1, <2>2 DEF HandleOwnership, Streams
<1>6. HandlesKept'
  BY <1>1, <1>2 DEF IInv, TypeOK, FailEarly, Becomes, Closed, Unregistered, HandlesKept,
     HandleOwnership, OneOwnerPerRun, Owns, Request
<1>7. OwnersLeave
  BY <1>1, <1>2 DEF IInv, TypeOK, FailEarly, Becomes, Closed, Unregistered, OwnersLeave,
     Working, Owns, Request
<1>8. OwnedRows'
  BY <1>1, <1>2 DEF IInv, TypeOK, FailEarly, Becomes, Closed, Unregistered, OwnedRows,
     OneOwnerPerRun, Owns, Request, Row
<1>9. SuspendedIsPending'
  BY <1>1, <1>2 DEF IInv, TypeOK, FailEarly, Becomes, Closed, Unregistered,
     SuspendedIsPending, OwnedRows, Row, Interaction
<1>10. FinishedIsSettled'
  BY <1>1, <1>2 DEF IInv, TypeOK, FailEarly, Becomes, Closed, Unregistered,
     FinishedIsSettled, FinishedEvent, OwnersOf, OneOwnerPerRun, Owns, Request, Row,
     Terminal
<1>11. WorkerRowIsRunning'
  BY <1>1, <1>2 DEF IInv, TypeOK, FailEarly, Becomes, Closed, Unregistered,
     WorkerRowIsRunning, OneOwnerPerRun, Working, Owns, Request, Row, SentNamed
<1> QED
  BY <1>3, <1>4, <1>5, <1>6, <1>7, <1>8, <1>9, <1>10, <1>11, LeavingIsSafe
  DEF IInv, FailEarly

LEMMA StartStreamStep ==
  ASSUME IInv, NEW q \in Requests, StartStream(q)
  PROVE  IInv'
<1>1. requests[q] \in Request /\ [requests[q] EXCEPT !.stage = "streaming"] \in Request
  BY ClosedType DEF IInv, TypeOK, Request, Stages, Finals
<1>2. /\ requests[q].run \in Runs /\ requests[q].session \in Sessions
      /\ Owns(q) /\ requests[q] # Unsent
  BY NoneAssumption DEF IInv, SentNamed, HandleOwnership, StartStream, Unsent, Owns
<1>3. TypeOK'
  <2>1. requests' \in [Requests -> Request]
    BY <1>1, <1>2, BecomesType DEF IInv, StartStream, Settling
  <2>2. events' \in [Runs -> Seq(Events)]
    BY <1>2, EmitType, EventLists DEF IInv, StartStream
  <2>3. background' \in [Requests -> SUBSET Tasks]
    BY DEF IInv, TypeOK, StartStream, Tasks
  <2> QED BY <2>1, <2>2, <2>3 DEF IInv, TypeOK, StartStream
<1>4. SentNamed'
  BY <1>1, <1>2 DEF IInv, TypeOK, StartStream, Becomes, Emit, SentNamed, Request
<1>5. HandleOwnership'
  <2>1. \A p \in Requests : (Streams(p) => registry[requests[p].run] = p)'
    BY <1>1, <1>2, NoneAssumption DEF IInv, TypeOK, StartStream, Becomes, Emit,
       HandleOwnership, OneOwnerPerRun, Streams, Owns, HandlesKept, Request
  <2>2. ASSUME NEW x \in Runs, NEW p \in Requests, registry'[x] = p
        PROVE  /\ requests'[p].run = x
               /\ requests'[p].stage \in {"registered", "streaming"}
               /\ requests'[p].fin = "none"
               /\ requests'[p].open
    BY <1>1, <1>2, <2>2, NoneAssumption DEF IInv, TypeOK, StartStream, Becomes, Emit,
       HandleOwnership, Request
  <2> QED BY <2>1, <2>2 DEF HandleOwnership, Streams
<1>6. HandlesKept'
  BY <1>1, <1>2 DEF IInv, TypeOK, StartStream, Becomes, Emit, HandlesKept, HandleOwnership,
     OneOwnerPerRun, Owns, Request
<1>7. OwnersLeave
  BY <1>1, <1>2 DEF IInv, TypeOK, StartStream, Becomes, Emit, OwnersLeave, Working, Owns,
     Request
<1>8. OwnedRows'
  BY <1>1, <1>2 DEF IInv, TypeOK, StartStream, Becomes, Emit, OwnedRows, OneOwnerPerRun,
     Owns, Request, Row
<1>9. SuspendedIsPending'
  BY <1>1, <1>2 DEF IInv, TypeOK, StartStream, Becomes, Emit, SuspendedIsPending, OwnedRows,
     Row, Interaction
<1>10. FinishedIsSettled'
  BY <1>1, <1>2 DEF IInv, TypeOK, StartStream, Becomes, Emit, FinishedIsSettled,
     FinishedEvent, OwnersOf, OneOwnerPerRun, Owns, Request, Row, Terminal
<1>11. WorkerRowIsRunning'
  BY <1>1, <1>2 DEF IInv, TypeOK, StartStream, Becomes, Emit, WorkerRowIsRunning,
     OneOwnerPerRun, Working, Owns, Request, Row, SentNamed
<1> QED
  BY <1>3, <1>4, <1>5, <1>6, <1>7, <1>8, <1>9, <1>10, <1>11, LeavingIsSafe
  DEF IInv, StartStream

LEMMA AbortStartStep ==
  ASSUME IInv, NEW q \in Requests, AbortStart(q)
  PROVE  IInv'
<1>1. requests[q] \in Request /\ Closed(q) \in Request
  BY ClosedType DEF IInv, TypeOK, Request, Stages, Finals
<1>2. /\ requests[q].run \in Runs /\ requests[q].session \in Sessions
      /\ Owns(q) /\ requests[q] # Unsent
  BY NoneAssumption DEF IInv, SentNamed, HandleOwnership, AbortStart, Unsent, Owns
<1>3. TypeOK'
  <2>1. requests' \in [Requests -> Request]
    BY <1>1, <1>2, BecomesType DEF IInv, AbortStart, Settling
  <2> QED BY <2>1 DEF IInv, TypeOK, AbortStart
<1>4. SentNamed'
  BY <1>1, <1>2 DEF IInv, TypeOK, AbortStart, Becomes, Closed, SentNamed, Request
<1>5. HandleOwnership'
  <2>1. \A p \in Requests : (Streams(p) => registry[requests[p].run] = p)'
    BY <1>1, <1>2, NoneAssumption DEF IInv, TypeOK, AbortStart, Becomes, Closed,
       HandleOwnership, OneOwnerPerRun, Streams, Owns, HandlesKept, Request
  <2>2. ASSUME NEW x \in Runs, NEW p \in Requests, registry'[x] = p
        PROVE  /\ requests'[p].run = x
               /\ requests'[p].stage \in {"registered", "streaming"}
               /\ requests'[p].fin = "none"
               /\ requests'[p].open
    BY <1>1, <1>2, <2>2, NoneAssumption DEF IInv, TypeOK, AbortStart, Becomes, Closed,
       HandleOwnership, Request, HandlesKept
  <2> QED BY <2>1, <2>2 DEF HandleOwnership, Streams
<1>6. HandlesKept'
  BY <1>1, <1>2 DEF IInv, TypeOK, AbortStart, Becomes, Closed, HandlesKept, HandleOwnership,
     OneOwnerPerRun, Owns, Request
<1>7. OwnersLeave
  BY <1>1, <1>2 DEF IInv, TypeOK, AbortStart, Becomes, Closed, OwnersLeave, Working, Owns,
     Request
<1>8. OwnedRows'
  BY <1>1, <1>2 DEF IInv, TypeOK, AbortStart, Becomes, Closed, OwnedRows, OneOwnerPerRun,
     Owns, Request, Row
<1>9. SuspendedIsPending'
  BY <1>1, <1>2 DEF IInv, TypeOK, AbortStart, Becomes, Closed, SuspendedIsPending,
     OwnedRows, Row, Interaction
<1>10. FinishedIsSettled'
  BY <1>1, <1>2 DEF IInv, TypeOK, AbortStart, Becomes, Closed, FinishedIsSettled,
     FinishedEvent, OwnersOf, OneOwnerPerRun, Owns, Request, Row, Terminal
<1>11. WorkerRowIsRunning'
  BY <1>1, <1>2 DEF IInv, TypeOK, AbortStart, Becomes, Closed, WorkerRowIsRunning,
     OneOwnerPerRun, Working, Owns, Request, Row, SentNamed
<1> QED
  BY <1>3, <1>4, <1>5, <1>6, <1>7, <1>8, <1>9, <1>10, <1>11, LeavingIsSafe
  DEF IInv, AbortStart

LEMMA DisconnectStep ==
  ASSUME IInv, NEW q \in Requests, Disconnect(q)
  PROVE  IInv'
<1>1. /\ requests[q] \in Request /\ Closed(q) \in Request
      /\ [requests[q] EXCEPT !.open = FALSE] \in Request
  BY ClosedType DEF IInv, TypeOK, Request, Stages, Finals
<1>2. requests[q].run \in Runs /\ requests[q].session \in Sessions /\ requests[q] # Unsent
  BY NoneAssumption DEF IInv, SentNamed, HandleOwnership, Disconnect, Unsent, Owns
<1>3. TypeOK'
  <2>1. requests' \in [Requests -> Request]
    BY <1>1, <1>2, BecomesType DEF IInv, Disconnect, Settling
  <2>2. registry' \in [Runs -> Requests \cup {None}]
    BY <1>2, UnregisteredType DEF IInv, Disconnect
  <2> QED BY <2>1, <2>2 DEF IInv, TypeOK, Disconnect
<1>4. SentNamed'
  BY <1>1, <1>2 DEF IInv, TypeOK, Disconnect, Becomes, Closed, Unregistered, SentNamed,
     Request
<1>5. HandleOwnership'
  <2>1. \A p \in Requests : (Streams(p) => registry[requests[p].run] = p)'
    BY <1>1, <1>2, NoneAssumption DEF IInv, TypeOK, Disconnect, Becomes, Closed,
       Unregistered, HandleOwnership, OneOwnerPerRun, Streams, Owns, HandlesKept, Request
  <2>2. ASSUME NEW x \in Runs, NEW p \in Requests, registry'[x] = p
        PROVE  /\ requests'[p].run = x
               /\ requests'[p].stage \in {"registered", "streaming"}
               /\ requests'[p].fin = "none"
               /\ requests'[p].open
    BY <1>1, <1>2, <2>2, NoneAssumption DEF IInv, TypeOK, Disconnect, Becomes, Closed,
       Unregistered, HandleOwnership, Request
  <2> QED BY <2>1, <2>2 DEF HandleOwnership, Streams
<1>6. HandlesKept'
  BY <1>1, <1>2 DEF IInv, TypeOK, Disconnect, Becomes, Closed, Unregistered, HandlesKept,
     HandleOwnership, OneOwnerPerRun, Owns, Request
<1>7. OwnersLeave
  BY <1>1, <1>2 DEF IInv, TypeOK, Disconnect, Becomes, Closed, Unregistered, OwnersLeave,
     Working, Owns, Request
<1>8. OwnedRows'
  BY <1>1, <1>2 DEF IInv, TypeOK, Disconnect, Becomes, Closed, Unregistered, OwnedRows,
     OneOwnerPerRun, Owns, Request, Row
<1>9. SuspendedIsPending'
  BY <1>1, <1>2 DEF IInv, TypeOK, Disconnect, Becomes, Closed, Unregistered,
     SuspendedIsPending, OwnedRows, Row, Interaction
<1>10. FinishedIsSettled'
  BY <1>1, <1>2 DEF IInv, TypeOK, Disconnect, Becomes, Closed, Unregistered,
     FinishedIsSettled, FinishedEvent, OwnersOf, OneOwnerPerRun, Owns, Request, Row,
     Terminal
<1>11. WorkerRowIsRunning'
  BY <1>1, <1>2 DEF IInv, TypeOK, Disconnect, Becomes, Closed, Unregistered,
     WorkerRowIsRunning, OneOwnerPerRun, Working, Owns, Request, Row, SentNamed
<1> QED
  BY <1>3, <1>4, <1>5, <1>6, <1>7, <1>8, <1>9, <1>10, <1>11, LeavingIsSafe
  DEF IInv, Disconnect

LEMMA InterruptStep ==
  ASSUME IInv, NEW q \in Requests, NEW c \in Calls, Interrupt(q, c)
  PROVE  IInv'
<1>1. requests[q] \in Request /\ [requests[q] EXCEPT !.fin = "done"] \in Request
  BY ClosedType DEF IInv, TypeOK, Request, Stages, Finals
<1>2. /\ requests[q].run \in Runs /\ requests[q].session \in Sessions
      /\ Owns(q) /\ requests[q] # Unsent
  BY NoneAssumption DEF IInv, SentNamed, HandleOwnership, Interrupt, Streams, Unsent, Owns
<1>3. TypeOK'
  <2>1. requests' \in [Requests -> Request]
    BY <1>1, <1>2, BecomesType DEF IInv, Interrupt, Settling
  <2>2. runs' \in [Runs -> Row]
    BY <1>2, StatusType DEF IInv, Interrupt, Statuses, Terminal, Active
  <2>3. events' \in [Runs -> Seq(Events)]
    BY <1>2, EmitType, EventLists DEF IInv, Interrupt
  <2>4. registry' \in [Runs -> Requests \cup {None}]
    BY <1>2, UnregisteredType DEF IInv, Interrupt
  <2>5. interactions' \in [Runs -> [Calls -> Interaction]]
    BY <1>2, AskType DEF IInv, Interrupt
  <2> QED BY <2>1, <2>2, <2>3, <2>4, <2>5 DEF IInv, TypeOK, Interrupt
<1>4. SentNamed'
  BY <1>1, <1>2 DEF IInv, TypeOK, Interrupt, Streams, Settling, Becomes, Status, Ask,
     Emit, SuspensionLog, Unregistered, SentNamed, Request
<1>5. HandleOwnership'
  <2>1. \A p \in Requests : (Streams(p) => registry[requests[p].run] = p)'
    BY <1>1, <1>2, NoneAssumption DEF IInv, TypeOK, Interrupt, Streams, Settling, Becomes,
       Status, Ask, Emit, SuspensionLog, Unregistered, HandleOwnership, OneOwnerPerRun,
       Streams, Owns, HandlesKept, Request
  <2>2. ASSUME NEW x \in Runs, NEW p \in Requests, registry'[x] = p
        PROVE  /\ requests'[p].run = x
               /\ requests'[p].stage \in {"registered", "streaming"}
               /\ requests'[p].fin = "none"
               /\ requests'[p].open
    BY <1>1, <1>2, <2>2, NoneAssumption DEF IInv, TypeOK, Interrupt, Streams, Settling,
       Becomes, Status, Ask, Emit, SuspensionLog, Unregistered, HandleOwnership, Request
  <2> QED BY <2>1, <2>2 DEF HandleOwnership, Streams
<1>6. HandlesKept'
  BY <1>1, <1>2 DEF IInv, TypeOK, Interrupt, Streams, Settling, Becomes, Status, Ask,
     Emit, SuspensionLog, Unregistered, HandlesKept, HandleOwnership, OneOwnerPerRun, Owns,
     Request
<1>7. OwnersLeave
  BY <1>1, <1>2 DEF IInv, TypeOK, Interrupt, Streams, Settling, Becomes, Status, Ask,
     Emit, SuspensionLog, Unregistered, OwnersLeave, Working, Owns, Request
<1>8. OwnedRows'
  BY <1>1, <1>2 DEF IInv, TypeOK, Interrupt, Streams, Settling, Becomes, Status, Ask,
     Emit, SuspensionLog, Unregistered, OwnedRows, OneOwnerPerRun, Owns, Request, Row
<1>9. SuspendedIsPending'
  BY <1>1, <1>2 DEF IInv, TypeOK, Interrupt, Streams, Settling, Becomes, Status, Ask,
     Emit, SuspensionLog, Unregistered, MayInterrupt, SuspendedIsPending, OwnedRows, Row,
     Interaction
<1>10. FinishedIsSettled'
  <2>1. ~FinishedEvent(requests[q].run)
    BY <1>1, <1>2 DEF IInv, FinishedIsSettled, OwnersOf, Interrupt, Streams
  <2>2. \A x \in Runs : FinishedEvent(x)' => FinishedEvent(x)
    BY <1>1, <1>2, <2>1 DEF IInv, TypeOK, Interrupt, Settling, Becomes, Emit, SuspensionLog,
       FinishedEvent, Request
  <2> QED BY <1>1, <1>2, <2>1, <2>2 DEF IInv, TypeOK, FinishedIsSettled, OwnersOf, Interrupt,
             Settling, Becomes, Status, Owns, Request, Row
<1>11. WorkerRowIsRunning'
  BY <1>1, <1>2 DEF IInv, TypeOK, Interrupt, Streams, Settling, Becomes, Status, Ask,
     Emit, SuspensionLog, Unregistered, WorkerRowIsRunning, OneOwnerPerRun, Working, Owns,
     Request, Row, SentNamed
<1> QED
  BY <1>3, <1>4, <1>5, <1>6, <1>7, <1>8, <1>9, <1>10, <1>11, LeavingIsSafe
  DEF IInv, Interrupt

LEMMA ToolResultStep ==
  ASSUME IInv, NEW q \in Requests, ToolResult(q)
  PROVE  IInv'
<1>1. requests[q] \in Request
  BY ClosedType DEF IInv, TypeOK, Request, Stages, Finals
<1>2. /\ requests[q].run \in Runs /\ requests[q].session \in Sessions
      /\ Owns(q) /\ requests[q] # Unsent
  BY NoneAssumption DEF IInv, SentNamed, HandleOwnership, ToolResult, Streams, Unsent, Owns
<1>3. TypeOK'
  <2>1. interactions' \in [Runs -> [Calls -> Interaction]]
    BY <1>1, <1>2, AnswerType DEF IInv, TypeOK, ToolResult, Streams, Answers, Request
  <2> QED BY <2>1 DEF IInv, TypeOK, ToolResult
<1>4. SentNamed'
  BY <1>1, <1>2 DEF IInv, TypeOK, ToolResult, Streams, Answer, SentNamed, Request
<1>5. HandleOwnership'
  <2>1. \A p \in Requests : (Streams(p) => registry[requests[p].run] = p)'
    BY <1>1, <1>2, NoneAssumption DEF IInv, TypeOK, ToolResult, Streams, Answer,
       HandleOwnership, OneOwnerPerRun, Streams, Owns, HandlesKept, Request
  <2>2. ASSUME NEW x \in Runs, NEW p \in Requests, registry'[x] = p
        PROVE  /\ requests'[p].run = x
               /\ requests'[p].stage \in {"registered", "streaming"}
               /\ requests'[p].fin = "none"
               /\ requests'[p].open
    BY <1>1, <1>2, <2>2, NoneAssumption DEF IInv, TypeOK, ToolResult, Streams, Answer,
       HandleOwnership, Request
  <2> QED BY <2>1, <2>2 DEF HandleOwnership, Streams
<1>6. HandlesKept'
  BY <1>1, <1>2 DEF IInv, TypeOK, ToolResult, Streams, Answer, HandlesKept, HandleOwnership,
     OneOwnerPerRun, Owns, Request
<1>7. OwnersLeave
  BY <1>1, <1>2 DEF IInv, TypeOK, ToolResult, Streams, Answer, OwnersLeave, Working, Owns,
     Request
<1>8. OwnedRows'
  BY <1>1, <1>2 DEF IInv, TypeOK, ToolResult, Streams, Answer, OwnedRows, OneOwnerPerRun,
     Owns, Request, Row
<1>9. SuspendedIsPending'
  BY <1>1, <1>2 DEF IInv, TypeOK, ToolResult, Streams, Answer, SuspendedIsPending,
     OwnedRows, Row, Interaction
<1>10. FinishedIsSettled'
  BY <1>1, <1>2 DEF IInv, TypeOK, ToolResult, Streams, Answer, FinishedIsSettled,
     FinishedEvent, OwnersOf, OneOwnerPerRun, Owns, Request, Row, Terminal
<1>11. WorkerRowIsRunning'
  BY <1>1, <1>2 DEF IInv, TypeOK, ToolResult, Streams, Answer, WorkerRowIsRunning,
     OneOwnerPerRun, Working, Owns, Request, Row, SentNamed
<1> QED
  BY <1>3, <1>4, <1>5, <1>6, <1>7, <1>8, <1>9, <1>10, <1>11, LeavingIsSafe
  DEF IInv, ToolResult

\* Steps that write only the log, the interaction of their run and the tasks.
LEMMA LogOnlyIsSafe ==
  ASSUME IInv, TypeOK', SuspendedIsPending', UNCHANGED <<runs, registry, requests, up, stolen>>,
         \A r \in Runs : FinishedEvent(r)' => FinishedEvent(r)
  PROVE  IInv'
<1>1. SentNamed' /\ HandleOwnership' /\ HandlesKept' /\ OneOwnerPerRun' /\ OwnedRows'
  BY DEF IInv, SentNamed, HandleOwnership, HandlesKept, OneOwnerPerRun, OwnedRows, Streams, Owns
<1>2. DownIsIdle' /\ WorkerRowIsRunning' /\ ExclusiveUnlessStolen'
  BY DEF IInv, DownIsIdle, WorkerRowIsRunning, ExclusiveUnlessStolen, Working, Owns
<1>3. FinishedIsSettled'
  BY DEF IInv, FinishedIsSettled, OwnersOf, Owns
<1> QED BY <1>1, <1>2, <1>3 DEF IInv

\* An entry that is not RUN_FINISHED finishes no run.
LEMMA OtherEntries ==
  ASSUME TypeOK, NEW r \in Runs, NEW entry \in Events, entry # "RUN_FINISHED",
         Emit(r, <<entry>>), UNCHANGED requests
  PROVE  \A x \in Runs : FinishedEvent(x)' => FinishedEvent(x)
<1>1. ASSUME NEW x \in Runs, NEW i \in DOMAIN events'[x], events'[x][i] = "RUN_FINISHED"
      PROVE  \E j \in DOMAIN events[x] : events[x][j] = "RUN_FINISHED"
  <2>1. CASE x # r
    BY <1>1, <2>1 DEF TypeOK, Emit
  <2>2. CASE x = r
    <3>1. events[r] \in Seq(Events) /\ events'[r] = events[r] \o <<entry>>
      BY DEF TypeOK, Emit
    <3> QED BY <1>1, <2>2, <3>1
  <2> QED BY <2>1, <2>2
<1> QED BY <1>1 DEF FinishedEvent

LEMMA ResultFailsStep ==
  ASSUME IInv, NEW q \in Requests, ResultFails(q)
  PROVE  IInv'
<1>1. requests[q] \in Request
  BY DEF IInv, TypeOK
<1>2. requests[q].run \in Runs /\ Owns(q)
  BY NoneAssumption DEF IInv, SentNamed, ResultFails, Streams, Unsent, Owns
<1>3. requests[q].call \in Calls
  BY <1>1 DEF ResultFails, Request
<1>4. interactions' \in [Runs -> [Calls -> Interaction]]
  BY <1>1, <1>2, <1>3, AnswerType DEF IInv, TypeOK, ResultFails, Request
<1>5. events' \in [Runs -> Seq(Events)]
  BY <1>2, EmitType, EventLists DEF IInv, ResultFails
<1>6. TypeOK'
  BY <1>4, <1>5 DEF IInv, TypeOK, ResultFails
<1>7. SuspendedIsPending'
  BY <1>2, <1>3 DEF IInv, TypeOK, ResultFails, Answer, SuspendedIsPending, OwnedRows
<1>8. \A x \in Runs : FinishedEvent(x)' => FinishedEvent(x)
  BY <1>2, OtherEntries DEF IInv, ResultFails, Events
<1> QED BY <1>6, <1>7, <1>8, LogOnlyIsSafe DEF ResultFails

LEMMA ToolCallStep ==
  ASSUME IInv, NEW q \in Requests, ToolCall(q)
  PROVE  IInv'
<1>1. TypeOK'
  BY DEF IInv, TypeOK, ToolCall, Tasks
<1>2. SuspendedIsPending' /\ \A x \in Runs : FinishedEvent(x)' => FinishedEvent(x)
  BY DEF IInv, ToolCall, SuspendedIsPending, FinishedEvent
<1> QED BY <1>1, <1>2, LogOnlyIsSafe DEF ToolCall

\* A task that settles writes the log of its run, or of no run.
LEMMA SettledTaskLogs ==
  ASSUME IInv, NEW q \in Requests, NEW task, NEW entry, Settles(q, task, entry)
  PROVE  \/ UNCHANGED events
         \/ requests[q].run \in Runs /\ Emit(requests[q].run, <<entry>>)
<1>1. CASE requests[q].run \in Runs
  BY <1>1 DEF Settles
<1>2. CASE requests[q].run \notin Runs
  BY <1>2 DEF IInv, TypeOK, Settles, Emit
<1> QED BY <1>1, <1>2

LEMMA BackgroundStep ==
  ASSUME IInv, NEW q \in Requests, Background(q)
  PROVE  IInv'
<1>1. PICK entry \in {"session.title", "tool"}, task \in Tasks : Settles(q, task, entry)
  BY DEF Background, TitleSettles, ToolSettles, Tasks
<1>2. TypeOK'
  <2>1. events' \in [Runs -> Seq(Events)]
    BY <1>1, SettledTaskLogs, EmitType, EventLists DEF IInv, TypeOK
  <2>2. background' \in [Requests -> SUBSET Tasks]
    BY <1>1 DEF IInv, TypeOK, Settles
  <2> QED BY <1>1, <2>1, <2>2 DEF IInv, TypeOK, Settles
<1>3. SuspendedIsPending'
  BY <1>1 DEF IInv, Settles, SuspendedIsPending
<1>4. \A x \in Runs : FinishedEvent(x)' => FinishedEvent(x)
  <2>1. CASE UNCHANGED events
    BY <1>1, <2>1 DEF Settles, FinishedEvent
  <2>2. CASE requests[q].run \in Runs /\ Emit(requests[q].run, <<entry>>)
    BY <1>1, <2>2, OtherEntries DEF IInv, Settles, Events
  <2> QED BY <1>1, <2>1, <2>2, SettledTaskLogs
<1> QED BY <1>1, <1>2, <1>3, <1>4, LogOnlyIsSafe DEF Settles

LEMMA FinishStep ==
  ASSUME IInv, NEW q \in Requests, Finish(q)
  PROVE  IInv'
<1>1. requests[q] \in Request /\ [requests[q] EXCEPT !.fin = "completing"] \in Request
  BY ClosedType DEF IInv, TypeOK, Request, Stages, Finals
<1>2. /\ requests[q].run \in Runs /\ requests[q].session \in Sessions
      /\ Owns(q) /\ requests[q] # Unsent
  BY NoneAssumption DEF IInv, SentNamed, HandleOwnership, Finish, Streams, Unsent, Owns
<1>3. TypeOK'
  <2>1. requests' \in [Requests -> Request]
    BY <1>1, <1>2, BecomesType DEF IInv, Finish, Settling
  <2>2. registry' \in [Runs -> Requests \cup {None}]
    BY <1>2, UnregisteredType DEF IInv, Finish
  <2> QED BY <2>1, <2>2 DEF IInv, TypeOK, Finish
<1>4. SentNamed'
  BY <1>1, <1>2 DEF IInv, TypeOK, Finish, Streams, Settling, Becomes, Unregistered,
     SentNamed, Request
<1>5. HandleOwnership'
  <2>1. \A p \in Requests : (Streams(p) => registry[requests[p].run] = p)'
    BY <1>1, <1>2, NoneAssumption DEF IInv, TypeOK, Finish, Streams, Settling, Becomes,
       Unregistered, HandleOwnership, OneOwnerPerRun, Streams, Owns, HandlesKept, Request
  <2>2. ASSUME NEW x \in Runs, NEW p \in Requests, registry'[x] = p
        PROVE  /\ requests'[p].run = x
               /\ requests'[p].stage \in {"registered", "streaming"}
               /\ requests'[p].fin = "none"
               /\ requests'[p].open
    BY <1>1, <1>2, <2>2, NoneAssumption DEF IInv, TypeOK, Finish, Streams, Settling,
       Becomes, Unregistered, HandleOwnership, Request
  <2> QED BY <2>1, <2>2 DEF HandleOwnership, Streams
<1>6. HandlesKept'
  BY <1>1, <1>2 DEF IInv, TypeOK, Finish, Streams, Settling, Becomes, Unregistered,
     HandlesKept, HandleOwnership, OneOwnerPerRun, Owns, Request
<1>7. OwnersLeave
  BY <1>1, <1>2 DEF IInv, TypeOK, Finish, Streams, Settling, Becomes, Unregistered,
     OwnersLeave, Working, Owns, Request
<1>8. OwnedRows'
  BY <1>1, <1>2 DEF IInv, TypeOK, Finish, Streams, Settling, Becomes, Unregistered,
     OwnedRows, OneOwnerPerRun, Owns, Request, Row
<1>9. SuspendedIsPending'
  BY <1>1, <1>2 DEF IInv, TypeOK, Finish, Streams, Settling, Becomes, Unregistered,
     SuspendedIsPending, OwnedRows, Row, Interaction
<1>10. FinishedIsSettled'
  BY <1>1, <1>2 DEF IInv, TypeOK, Finish, Streams, Settling, Becomes, Unregistered,
     FinishedIsSettled, FinishedEvent, OwnersOf, OneOwnerPerRun, Owns, Request, Row,
     Terminal
<1>11. WorkerRowIsRunning'
  BY <1>1, <1>2 DEF IInv, TypeOK, Finish, Streams, Settling, Becomes, Unregistered,
     WorkerRowIsRunning, OneOwnerPerRun, Working, Owns, Request, Row, SentNamed
<1> QED
  BY <1>3, <1>4, <1>5, <1>6, <1>7, <1>8, <1>9, <1>10, <1>11, LeavingIsSafe
  DEF IInv, Finish

LEMMA FinishDeclinedStep ==
  ASSUME IInv, NEW q \in Requests, FinishDeclined(q)
  PROVE  IInv'
<1>1. requests[q] \in Request /\ [requests[q] EXCEPT !.fin = "closing"] \in Request
  BY ClosedType DEF IInv, TypeOK, Request, Stages, Finals
<1>2. /\ requests[q].run \in Runs /\ requests[q].session \in Sessions
      /\ Owns(q) /\ requests[q] # Unsent /\ requests[q].call \in Calls
  BY NoneAssumption DEF IInv, SentNamed, HandleOwnership, FinishDeclined, Streams, Unsent,
     Owns
<1>3. TypeOK'
  <2>1. requests' \in [Requests -> Request]
    BY <1>1, <1>2, BecomesType DEF IInv, FinishDeclined, Settling
  <2>2. runs' \in [Runs -> Row]
    BY <1>2, StatusType DEF IInv, FinishDeclined, Statuses, Terminal, Active
  <2>3. events' \in [Runs -> Seq(Events)]
    BY <1>2, EmitType, EventLists DEF IInv, FinishDeclined
  <2>4. registry' \in [Runs -> Requests \cup {None}]
    BY <1>2, UnregisteredType DEF IInv, FinishDeclined
  <2>5. interactions' \in [Runs -> [Calls -> Interaction]]
    BY <1>1, <1>2, AnswerType DEF IInv, TypeOK, FinishDeclined, Streams, Answers, Request
  <2> QED BY <2>1, <2>2, <2>3, <2>4, <2>5 DEF IInv, TypeOK, FinishDeclined
<1>4. SentNamed'
  BY <1>1, <1>2 DEF IInv, TypeOK, FinishDeclined, Streams, Settling, Becomes, Status,
     Answer, Emit, Unregistered, SentNamed, Request
<1>5. HandleOwnership'
  <2>1. \A p \in Requests : (Streams(p) => registry[requests[p].run] = p)'
    BY <1>1, <1>2, NoneAssumption DEF IInv, TypeOK, FinishDeclined, Streams, Settling,
       Becomes, Status, Answer, Emit, Unregistered, HandleOwnership, OneOwnerPerRun,
       Streams, Owns, HandlesKept, Request
  <2>2. ASSUME NEW x \in Runs, NEW p \in Requests, registry'[x] = p
        PROVE  /\ requests'[p].run = x
               /\ requests'[p].stage \in {"registered", "streaming"}
               /\ requests'[p].fin = "none"
               /\ requests'[p].open
    BY <1>1, <1>2, <2>2, NoneAssumption DEF IInv, TypeOK, FinishDeclined, Streams, Settling,
       Becomes, Status, Answer, Emit, Unregistered, HandleOwnership, Request
  <2> QED BY <2>1, <2>2 DEF HandleOwnership, Streams
<1>6. HandlesKept'
  BY <1>1, <1>2 DEF IInv, TypeOK, FinishDeclined, Streams, Settling, Becomes, Status,
     Answer, Emit, Unregistered, HandlesKept, HandleOwnership, OneOwnerPerRun, Owns, Request
<1>7. OwnersLeave
  BY <1>1, <1>2 DEF IInv, TypeOK, FinishDeclined, Streams, Settling, Becomes, Status,
     Answer, Emit, Unregistered, OwnersLeave, Working, Owns, Request
<1>8. OwnedRows'
  BY <1>1, <1>2 DEF IInv, TypeOK, FinishDeclined, Streams, Settling, Becomes, Status,
     Answer, Emit, Unregistered, OwnedRows, OneOwnerPerRun, Owns, Request, Row
<1>9. SuspendedIsPending'
  BY <1>1, <1>2 DEF IInv, TypeOK, FinishDeclined, Streams, Settling, Becomes, Status,
     Answer, Emit, Unregistered, SuspendedIsPending, OwnedRows, Row, Interaction
<1>10. FinishedIsSettled'
  BY <1>1, <1>2 DEF IInv, TypeOK, FinishDeclined, Streams, Settling, Becomes, Status,
     Answer, Emit, Unregistered, FinishedIsSettled, FinishedEvent, OwnersOf, OneOwnerPerRun,
     Owns, Request, Row, Terminal
<1>11. WorkerRowIsRunning'
  BY <1>1, <1>2 DEF IInv, TypeOK, FinishDeclined, Streams, Settling, Becomes, Status,
     Answer, Emit, Unregistered, WorkerRowIsRunning, OneOwnerPerRun, Working, Owns, Request,
     Row, SentNamed
<1> QED
  BY <1>3, <1>4, <1>5, <1>6, <1>7, <1>8, <1>9, <1>10, <1>11, LeavingIsSafe
  DEF IInv, FinishDeclined

LEMMA FailRunStep ==
  ASSUME IInv, NEW q \in Requests, NEW stage \in {"streaming", "ended"}, FailRun(q, stage)
  PROVE  IInv'
<1>1. /\ requests[q] \in Request
      /\ [requests[q] EXCEPT !.fin = "done", !.stage = stage,
                             !.open = (stage = "streaming")] \in Request
  BY DEF IInv, TypeOK, Request, Stages, Finals
<1>2. /\ requests[q].run \in Runs /\ requests[q].session \in Sessions
      /\ Owns(q) /\ requests[q] # Unsent
  BY NoneAssumption DEF IInv, SentNamed, HandleOwnership, FailRun, Streams, Unsent, Owns
<1>3. TypeOK'
  <2>1. requests' \in [Requests -> Request]
    BY <1>1, <1>2, BecomesType DEF IInv, FailRun, Settling
  <2>2. runs' \in [Runs -> Row]
    BY <1>2, StatusType DEF IInv, FailRun, Statuses, Terminal, Active
  <2>3. events' \in [Runs -> Seq(Events)]
    BY <1>2, EmitType, EventLists DEF IInv, FailRun
  <2>4. registry' \in [Runs -> Requests \cup {None}]
    BY <1>2, UnregisteredType DEF IInv, FailRun
  <2> QED BY <2>1, <2>2, <2>3, <2>4 DEF IInv, TypeOK, FailRun
<1>4. SentNamed'
  BY <1>1, <1>2 DEF IInv, TypeOK, FailRun, Streams, Becomes, Status, Emit, Unregistered,
     SentNamed, Request
<1>5. HandleOwnership'
  <2>1. \A p \in Requests : (Streams(p) => registry[requests[p].run] = p)'
    BY <1>1, <1>2, NoneAssumption DEF IInv, TypeOK, FailRun, Streams, Becomes, Status, Emit,
       Unregistered, HandleOwnership, OneOwnerPerRun, Streams, Owns, HandlesKept, Request
  <2>2. ASSUME NEW x \in Runs, NEW p \in Requests, registry'[x] = p
        PROVE  /\ requests'[p].run = x
               /\ requests'[p].stage \in {"registered", "streaming"}
               /\ requests'[p].fin = "none"
               /\ requests'[p].open
    BY <1>1, <1>2, <2>2, NoneAssumption DEF IInv, TypeOK, FailRun, Streams, Becomes, Status,
       Emit, Unregistered, HandleOwnership, Request
  <2> QED BY <2>1, <2>2 DEF HandleOwnership, Streams
<1>6. HandlesKept'
  BY <1>1, <1>2 DEF IInv, TypeOK, FailRun, Streams, Becomes, Status, Emit, Unregistered,
     HandlesKept, HandleOwnership, OneOwnerPerRun, Owns, Request
<1>7. OwnersLeave
  BY <1>1, <1>2 DEF IInv, TypeOK, FailRun, Streams, Becomes, Status, Emit, Unregistered,
     OwnersLeave, Working, Owns, Request
<1>8. OwnedRows'
  BY <1>1, <1>2 DEF IInv, TypeOK, FailRun, Streams, Becomes, Status, Emit, Unregistered,
     OwnedRows, OneOwnerPerRun, Owns, Request, Row
<1>9. SuspendedIsPending'
  BY <1>1, <1>2 DEF IInv, TypeOK, FailRun, Streams, Becomes, Status, Emit, Unregistered,
     SuspendedIsPending, OwnedRows, Row, Interaction
<1>10. FinishedIsSettled'
  BY <1>1, <1>2 DEF IInv, TypeOK, FailRun, Streams, Becomes, Status, Emit, Unregistered,
     FinishedIsSettled, FinishedEvent, OwnersOf, OneOwnerPerRun, Owns, Request, Row,
     Terminal
<1>11. WorkerRowIsRunning'
  BY <1>1, <1>2 DEF IInv, TypeOK, FailRun, Streams, Becomes, Status, Emit, Unregistered,
     WorkerRowIsRunning, OneOwnerPerRun, Working, Owns, Request, Row, SentNamed
<1> QED
  BY <1>3, <1>4, <1>5, <1>6, <1>7, <1>8, <1>9, <1>10, <1>11, LeavingIsSafe
  DEF IInv, FailRun

LEMMA CloseStreamStep ==
  ASSUME IInv, NEW q \in Requests, CloseStream(q)
  PROVE  IInv'
<1>1. requests[q] \in Request /\ Closed(q) \in Request
  BY ClosedType DEF IInv, TypeOK, Request, Stages, Finals
<1>2. requests[q].run \in Runs /\ requests[q].session \in Sessions /\ requests[q] # Unsent
  BY NoneAssumption DEF IInv, SentNamed, HandleOwnership, CloseStream, Unsent, Owns
<1>3. TypeOK'
  <2>1. requests' \in [Requests -> Request]
    BY <1>1, <1>2, BecomesType DEF IInv, CloseStream, Settling
  <2>2. registry' \in [Runs -> Requests \cup {None}]
    BY <1>2, UnregisteredType DEF IInv, CloseStream
  <2> QED BY <2>1, <2>2 DEF IInv, TypeOK, CloseStream
<1>4. SentNamed'
  BY <1>1, <1>2 DEF IInv, TypeOK, CloseStream, Becomes, Closed, Unregistered, SentNamed,
     Request
<1>5. HandleOwnership'
  <2>1. \A p \in Requests : (Streams(p) => registry[requests[p].run] = p)'
    BY <1>1, <1>2, NoneAssumption DEF IInv, TypeOK, CloseStream, Becomes, Closed,
       Unregistered, HandleOwnership, OneOwnerPerRun, Streams, Owns, HandlesKept, Request
  <2>2. ASSUME NEW x \in Runs, NEW p \in Requests, registry'[x] = p
        PROVE  /\ requests'[p].run = x
               /\ requests'[p].stage \in {"registered", "streaming"}
               /\ requests'[p].fin = "none"
               /\ requests'[p].open
    BY <1>1, <1>2, <2>2, NoneAssumption DEF IInv, TypeOK, CloseStream, Becomes, Closed,
       Unregistered, HandleOwnership, Request
  <2> QED BY <2>1, <2>2 DEF HandleOwnership, Streams
<1>6. HandlesKept'
  BY <1>1, <1>2 DEF IInv, TypeOK, CloseStream, Becomes, Closed, Unregistered, HandlesKept,
     HandleOwnership, OneOwnerPerRun, Owns, Request
<1>7. OwnersLeave
  BY <1>1, <1>2 DEF IInv, TypeOK, CloseStream, Becomes, Closed, Unregistered, OwnersLeave,
     Working, Owns, Request
<1>8. OwnedRows'
  BY <1>1, <1>2 DEF IInv, TypeOK, CloseStream, Becomes, Closed, Unregistered, OwnedRows,
     OneOwnerPerRun, Owns, Request, Row
<1>9. SuspendedIsPending'
  BY <1>1, <1>2 DEF IInv, TypeOK, CloseStream, Becomes, Closed, Unregistered,
     SuspendedIsPending, OwnedRows, Row, Interaction
<1>10. FinishedIsSettled'
  BY <1>1, <1>2 DEF IInv, TypeOK, CloseStream, Becomes, Closed, Unregistered,
     FinishedIsSettled, FinishedEvent, OwnersOf, OneOwnerPerRun, Owns, Request, Row,
     Terminal
<1>11. WorkerRowIsRunning'
  BY <1>1, <1>2 DEF IInv, TypeOK, CloseStream, Becomes, Closed, Unregistered,
     WorkerRowIsRunning, OneOwnerPerRun, Working, Owns, Request, Row, SentNamed
<1> QED
  BY <1>3, <1>4, <1>5, <1>6, <1>7, <1>8, <1>9, <1>10, <1>11, LeavingIsSafe
  DEF IInv, CloseStream

LEMMA FinalizeFailedStep ==
  ASSUME IInv, NEW q \in Requests, FinalizeFailed(q)
  PROVE  IInv'
<1>1. requests[q] \in Request /\ [requests[q] EXCEPT !.fin = "done"] \in Request
  BY ClosedType DEF IInv, TypeOK, Request, Stages, Finals
<1>2. /\ requests[q].run \in Runs /\ requests[q].session \in Sessions
      /\ Owns(q) /\ requests[q] # Unsent
  BY NoneAssumption DEF IInv, SentNamed, HandleOwnership, FinalizeFailed, Unsent, Owns
<1>3. TypeOK'
  <2>1. requests' \in [Requests -> Request]
    BY <1>1, <1>2, BecomesType DEF IInv, FinalizeFailed, Settling
  <2>2. runs' \in [Runs -> Row]
    BY <1>2, StatusType DEF IInv, FinalizeFailed, Statuses, Terminal, Active
  <2>3. events' \in [Runs -> Seq(Events)]
    BY <1>2, EmitType, EventLists DEF IInv, FinalizeFailed
  <2> QED BY <2>1, <2>2, <2>3 DEF IInv, TypeOK, FinalizeFailed
<1>4. SentNamed'
  BY <1>1, <1>2 DEF IInv, TypeOK, FinalizeFailed, Settling, Becomes, Status, Emit,
     SentNamed, Request
<1>5. HandleOwnership'
  <2>1. \A p \in Requests : (Streams(p) => registry[requests[p].run] = p)'
    BY <1>1, <1>2, NoneAssumption DEF IInv, TypeOK, FinalizeFailed, Settling, Becomes,
       Status, Emit, HandleOwnership, OneOwnerPerRun, Streams, Owns, HandlesKept, Request
  <2>2. ASSUME NEW x \in Runs, NEW p \in Requests, registry'[x] = p
        PROVE  /\ requests'[p].run = x
               /\ requests'[p].stage \in {"registered", "streaming"}
               /\ requests'[p].fin = "none"
               /\ requests'[p].open
    BY <1>1, <1>2, <2>2, NoneAssumption DEF IInv, TypeOK, FinalizeFailed, Settling, Becomes,
       Status, Emit, HandleOwnership, Request
  <2> QED BY <2>1, <2>2 DEF HandleOwnership, Streams
<1>6. HandlesKept'
  BY <1>1, <1>2 DEF IInv, TypeOK, FinalizeFailed, Settling, Becomes, Status, Emit,
     HandlesKept, HandleOwnership, OneOwnerPerRun, Owns, Request
<1>7. OwnersLeave
  BY <1>1, <1>2 DEF IInv, TypeOK, FinalizeFailed, Settling, Becomes, Status, Emit,
     OwnersLeave, Working, Owns, Request
<1>8. OwnedRows'
  BY <1>1, <1>2 DEF IInv, TypeOK, FinalizeFailed, Settling, Becomes, Status, Emit,
     OwnedRows, OneOwnerPerRun, Owns, Request, Row
<1>9. SuspendedIsPending'
  BY <1>1, <1>2 DEF IInv, TypeOK, FinalizeFailed, Settling, Becomes, Status, Emit,
     SuspendedIsPending, OwnedRows, Row, Interaction
<1>10. FinishedIsSettled'
  BY <1>1, <1>2 DEF IInv, TypeOK, FinalizeFailed, Settling, Becomes, Status, Emit,
     FinishedIsSettled, FinishedEvent, OwnersOf, OneOwnerPerRun, Owns, Request, Row,
     Terminal
<1>11. WorkerRowIsRunning'
  BY <1>1, <1>2 DEF IInv, TypeOK, FinalizeFailed, Settling, Becomes, Status, Emit,
     WorkerRowIsRunning, OneOwnerPerRun, Working, Owns, Request, Row, SentNamed
<1> QED
  BY <1>3, <1>4, <1>5, <1>6, <1>7, <1>8, <1>9, <1>10, <1>11, LeavingIsSafe
  DEF IInv, FinalizeFailed

LEMMA FinalizeCompletedStep ==
  ASSUME IInv, NEW q \in Requests, FinalizeCompleted(q)
  PROVE  IInv'
<1>1. requests[q] \in Request /\ [requests[q] EXCEPT !.fin = "closing"] \in Request
  BY ClosedType DEF IInv, TypeOK, Request, Stages, Finals
<1>2. /\ requests[q].run \in Runs /\ requests[q].session \in Sessions
      /\ Owns(q) /\ requests[q] # Unsent
  BY NoneAssumption DEF IInv, SentNamed, HandleOwnership, FinalizeCompleted, Unsent, Owns
<1>3. TypeOK'
  <2>1. requests' \in [Requests -> Request]
    BY <1>1, <1>2, BecomesType DEF IInv, FinalizeCompleted, Settling
  <2>2. runs' \in [Runs -> Row]
    BY <1>2, StatusType DEF IInv, FinalizeCompleted, Statuses, Terminal, Active
  <2>3. events' \in [Runs -> Seq(Events)]
    BY <1>2, EmitType, EventLists DEF IInv, FinalizeCompleted
  <2> QED BY <2>1, <2>2, <2>3 DEF IInv, TypeOK, FinalizeCompleted
<1>4. SentNamed'
  BY <1>1, <1>2 DEF IInv, TypeOK, FinalizeCompleted, Settling, Becomes, Status, Emit,
     SentNamed, Request
<1>5. HandleOwnership'
  <2>1. \A p \in Requests : (Streams(p) => registry[requests[p].run] = p)'
    BY <1>1, <1>2, NoneAssumption DEF IInv, TypeOK, FinalizeCompleted, Settling, Becomes,
       Status, Emit, HandleOwnership, OneOwnerPerRun, Streams, Owns, HandlesKept, Request
  <2>2. ASSUME NEW x \in Runs, NEW p \in Requests, registry'[x] = p
        PROVE  /\ requests'[p].run = x
               /\ requests'[p].stage \in {"registered", "streaming"}
               /\ requests'[p].fin = "none"
               /\ requests'[p].open
    BY <1>1, <1>2, <2>2, NoneAssumption DEF IInv, TypeOK, FinalizeCompleted, Settling,
       Becomes, Status, Emit, HandleOwnership, Request
  <2> QED BY <2>1, <2>2 DEF HandleOwnership, Streams
<1>6. HandlesKept'
  BY <1>1, <1>2 DEF IInv, TypeOK, FinalizeCompleted, Settling, Becomes, Status, Emit,
     HandlesKept, HandleOwnership, OneOwnerPerRun, Owns, Request
<1>7. OwnersLeave
  BY <1>1, <1>2 DEF IInv, TypeOK, FinalizeCompleted, Settling, Becomes, Status, Emit,
     OwnersLeave, Working, Owns, Request
<1>8. OwnedRows'
  BY <1>1, <1>2 DEF IInv, TypeOK, FinalizeCompleted, Settling, Becomes, Status, Emit,
     OwnedRows, OneOwnerPerRun, Owns, Request, Row
<1>9. SuspendedIsPending'
  BY <1>1, <1>2 DEF IInv, TypeOK, FinalizeCompleted, Settling, Becomes, Status, Emit,
     SuspendedIsPending, OwnedRows, Row, Interaction
<1>10. FinishedIsSettled'
  BY <1>1, <1>2 DEF IInv, TypeOK, FinalizeCompleted, Settling, Becomes, Status, Emit,
     FinishedIsSettled, FinishedEvent, OwnersOf, OneOwnerPerRun, Owns, Request, Row,
     Terminal
<1>11. WorkerRowIsRunning'
  BY <1>1, <1>2 DEF IInv, TypeOK, FinalizeCompleted, Settling, Becomes, Status, Emit,
     WorkerRowIsRunning, OneOwnerPerRun, Working, Owns, Request, Row, SentNamed
<1> QED
  BY <1>3, <1>4, <1>5, <1>6, <1>7, <1>8, <1>9, <1>10, <1>11, LeavingIsSafe
  DEF IInv, FinalizeCompleted

LEMMA FinalizeCanceledStep ==
  ASSUME IInv, NEW q \in Requests, FinalizeCanceled(q)
  PROVE  IInv'
<1>1. requests[q] \in Request /\ [requests[q] EXCEPT !.fin = "closing"] \in Request
  BY ClosedType DEF IInv, TypeOK, Request, Stages, Finals
<1>2. /\ requests[q].run \in Runs /\ requests[q].session \in Sessions
      /\ Owns(q) /\ requests[q] # Unsent
  BY NoneAssumption DEF IInv, SentNamed, HandleOwnership, FinalizeCanceled, Unsent, Owns
<1>3. TypeOK'
  <2>1. requests' \in [Requests -> Request]
    BY <1>1, <1>2, BecomesType DEF IInv, FinalizeCanceled, Settling
  <2>2. runs' \in [Runs -> Row]
    BY <1>2, StatusType DEF IInv, FinalizeCanceled, Statuses, Terminal, Active
  <2>3. events' \in [Runs -> Seq(Events)]
    BY <1>2, EmitType, EventLists DEF IInv, FinalizeCanceled
  <2> QED BY <2>1, <2>2, <2>3 DEF IInv, TypeOK, FinalizeCanceled
<1>4. SentNamed'
  BY <1>1, <1>2 DEF IInv, TypeOK, FinalizeCanceled, Settling, Becomes, Status, Emit,
     SentNamed, Request
<1>5. HandleOwnership'
  <2>1. \A p \in Requests : (Streams(p) => registry[requests[p].run] = p)'
    BY <1>1, <1>2, NoneAssumption DEF IInv, TypeOK, FinalizeCanceled, Settling, Becomes,
       Status, Emit, HandleOwnership, OneOwnerPerRun, Streams, Owns, HandlesKept, Request
  <2>2. ASSUME NEW x \in Runs, NEW p \in Requests, registry'[x] = p
        PROVE  /\ requests'[p].run = x
               /\ requests'[p].stage \in {"registered", "streaming"}
               /\ requests'[p].fin = "none"
               /\ requests'[p].open
    BY <1>1, <1>2, <2>2, NoneAssumption DEF IInv, TypeOK, FinalizeCanceled, Settling,
       Becomes, Status, Emit, HandleOwnership, Request
  <2> QED BY <2>1, <2>2 DEF HandleOwnership, Streams
<1>6. HandlesKept'
  BY <1>1, <1>2 DEF IInv, TypeOK, FinalizeCanceled, Settling, Becomes, Status, Emit,
     HandlesKept, HandleOwnership, OneOwnerPerRun, Owns, Request
<1>7. OwnersLeave
  BY <1>1, <1>2 DEF IInv, TypeOK, FinalizeCanceled, Settling, Becomes, Status, Emit,
     OwnersLeave, Working, Owns, Request
<1>8. OwnedRows'
  BY <1>1, <1>2 DEF IInv, TypeOK, FinalizeCanceled, Settling, Becomes, Status, Emit,
     OwnedRows, OneOwnerPerRun, Owns, Request, Row
<1>9. SuspendedIsPending'
  BY <1>1, <1>2 DEF IInv, TypeOK, FinalizeCanceled, Settling, Becomes, Status, Emit,
     SuspendedIsPending, OwnedRows, Row, Interaction
<1>10. FinishedIsSettled'
  BY <1>1, <1>2 DEF IInv, TypeOK, FinalizeCanceled, Settling, Becomes, Status, Emit,
     FinishedIsSettled, FinishedEvent, OwnersOf, OneOwnerPerRun, Owns, Request, Row,
     Terminal
<1>11. WorkerRowIsRunning'
  BY <1>1, <1>2 DEF IInv, TypeOK, FinalizeCanceled, Settling, Becomes, Status, Emit,
     WorkerRowIsRunning, OneOwnerPerRun, Working, Owns, Request, Row, SentNamed
<1> QED
  BY <1>3, <1>4, <1>5, <1>6, <1>7, <1>8, <1>9, <1>10, <1>11, LeavingIsSafe
  DEF IInv, FinalizeCanceled

LEMMA EmitTerminalStep ==
  ASSUME IInv, NEW q \in Requests, EmitTerminal(q)
  PROVE  IInv'
<1>1. requests[q] \in Request /\ [requests[q] EXCEPT !.fin = "done"] \in Request
  BY ClosedType DEF IInv, TypeOK, Request, Stages, Finals
<1>2. requests[q].run \in Runs /\ requests[q].session \in Sessions /\ requests[q] # Unsent
  BY NoneAssumption DEF IInv, SentNamed, HandleOwnership, EmitTerminal, Unsent, Owns
<1>3. TypeOK'
  <2>1. requests' \in [Requests -> Request]
    BY <1>1, <1>2, BecomesType DEF IInv, EmitTerminal, Settling
  <2>2. events' \in [Runs -> Seq(Events)]
    BY <1>2, EmitType, EventLists DEF IInv, EmitTerminal
  <2> QED BY <2>1, <2>2 DEF IInv, TypeOK, EmitTerminal
<1>4. SentNamed'
  BY <1>1, <1>2 DEF IInv, TypeOK, EmitTerminal, Settling, Becomes, Emit, SentNamed, Request
<1>5. HandleOwnership'
  <2>1. \A p \in Requests : (Streams(p) => registry[requests[p].run] = p)'
    BY <1>1, <1>2, NoneAssumption DEF IInv, TypeOK, EmitTerminal, Settling, Becomes, Emit,
       HandleOwnership, OneOwnerPerRun, Streams, Owns, HandlesKept, Request
  <2>2. ASSUME NEW x \in Runs, NEW p \in Requests, registry'[x] = p
        PROVE  /\ requests'[p].run = x
               /\ requests'[p].stage \in {"registered", "streaming"}
               /\ requests'[p].fin = "none"
               /\ requests'[p].open
    BY <1>1, <1>2, <2>2, NoneAssumption DEF IInv, TypeOK, EmitTerminal, Settling, Becomes,
       Emit, HandleOwnership, Request
  <2> QED BY <2>1, <2>2 DEF HandleOwnership, Streams
<1>6. HandlesKept'
  BY <1>1, <1>2 DEF IInv, TypeOK, EmitTerminal, Settling, Becomes, Emit, HandlesKept,
     HandleOwnership, OneOwnerPerRun, Owns, Request
<1>7. OwnersLeave
  BY <1>1, <1>2 DEF IInv, TypeOK, EmitTerminal, Settling, Becomes, Emit, OwnersLeave,
     Working, Owns, Request
<1>8. OwnedRows'
  BY <1>1, <1>2 DEF IInv, TypeOK, EmitTerminal, Settling, Becomes, Emit, OwnedRows,
     OneOwnerPerRun, Owns, Request, Row
<1>9. SuspendedIsPending'
  BY <1>1, <1>2 DEF IInv, TypeOK, EmitTerminal, Settling, Becomes, Emit, SuspendedIsPending,
     OwnedRows, Row, Interaction
<1>10. FinishedIsSettled'
  BY <1>1, <1>2 DEF IInv, TypeOK, EmitTerminal, Settling, Becomes, Emit, FinishedIsSettled,
     FinishedEvent, OwnersOf, OneOwnerPerRun, Owns, Request, Row, Terminal
<1>11. WorkerRowIsRunning'
  BY <1>1, <1>2 DEF IInv, TypeOK, EmitTerminal, Settling, Becomes, Emit, WorkerRowIsRunning,
     OneOwnerPerRun, Working, Owns, Request, Row, SentNamed
<1> QED
  BY <1>3, <1>4, <1>5, <1>6, <1>7, <1>8, <1>9, <1>10, <1>11, LeavingIsSafe
  DEF IInv, EmitTerminal

LEMMA CancelByHandleStep ==
  ASSUME IInv, NEW q \in Requests, NEW r \in Runs, CancelByHandle(r, q)
  PROVE  IInv'
<1>1. /\ requests[q] \in Request
      /\ [requests[q] EXCEPT !.fin = "cancelling",
                             !.stage = IF @ = "streaming" THEN "ended" ELSE @] \in Request
  BY ClosedType DEF IInv, TypeOK, Request, Stages, Finals
<1>2. /\ requests[q].run \in Runs /\ requests[q].session \in Sessions
      /\ Owns(q) /\ requests[q] # Unsent
  BY NoneAssumption DEF IInv, SentNamed, HandleOwnership, CancelByHandle, Unsent, Owns
<1>3. TypeOK'
  <2>1. requests' \in [Requests -> Request]
    BY <1>1, <1>2, BecomesType DEF IInv, CancelByHandle, Settling
  <2>2. registry' \in [Runs -> Requests \cup {None}]
    BY <1>2, UnregisteredType DEF IInv, CancelByHandle
  <2> QED BY <2>1, <2>2 DEF IInv, TypeOK, CancelByHandle
<1>4. SentNamed'
  <2>1. requests'[q].stage \in {"registered", "ended"} /\ requests'[q].fin = "cancelling"
    BY <1>1 DEF IInv, TypeOK, CancelByHandle, Becomes, HandleOwnership, Request
  <2> QED BY <1>1, <1>2, <2>1 DEF IInv, TypeOK, CancelByHandle, Becomes, SentNamed, Request
<1>5. HandleOwnership'
  <2>1. \A p \in Requests : (Streams(p) => registry[requests[p].run] = p)'
    BY <1>1, <1>2, NoneAssumption DEF IInv, TypeOK, CancelByHandle, Becomes, Unregistered,
       HandleOwnership, OneOwnerPerRun, Streams, Owns, HandlesKept, Request
  <2>2. ASSUME NEW x \in Runs, NEW p \in Requests, registry'[x] = p
        PROVE  /\ requests'[p].run = x
               /\ requests'[p].stage \in {"registered", "streaming"}
               /\ requests'[p].fin = "none"
               /\ requests'[p].open
    BY <1>1, <1>2, <2>2, NoneAssumption DEF IInv, TypeOK, CancelByHandle, Becomes,
       Unregistered, HandleOwnership, Request
  <2> QED BY <2>1, <2>2 DEF HandleOwnership, Streams
<1>6. HandlesKept'
  BY <1>1, <1>2 DEF IInv, TypeOK, CancelByHandle, Becomes, Unregistered, HandlesKept,
     HandleOwnership, OneOwnerPerRun, Owns, Request
<1>7. OwnersLeave
  BY <1>1, <1>2 DEF IInv, TypeOK, CancelByHandle, Becomes, Unregistered, OwnersLeave,
     Working, Owns, Request
<1>8. OwnedRows'
  BY <1>1, <1>2 DEF IInv, TypeOK, CancelByHandle, Becomes, Unregistered, OwnedRows,
     OneOwnerPerRun, Owns, Request, Row
<1>9. SuspendedIsPending'
  BY <1>1, <1>2 DEF IInv, TypeOK, CancelByHandle, Becomes, Unregistered, SuspendedIsPending,
     OwnedRows, Row, Interaction
<1>10. FinishedIsSettled'
  BY <1>1, <1>2 DEF IInv, TypeOK, CancelByHandle, Becomes, Unregistered, FinishedIsSettled,
     FinishedEvent, OwnersOf, OneOwnerPerRun, Owns, Request, Row, Terminal
<1>11. WorkerRowIsRunning'
  BY <1>1, <1>2 DEF IInv, TypeOK, CancelByHandle, Becomes, Unregistered, WorkerRowIsRunning,
     OneOwnerPerRun, Working, Owns, Request, Row, SentNamed
<1> QED
  BY <1>3, <1>4, <1>5, <1>6, <1>7, <1>8, <1>9, <1>10, <1>11, LeavingIsSafe
  DEF IInv, CancelByHandle
-----------------------------------------------------------------------------
(***************************************************************************)
(* Steps that settle rows from outside: refusals, row-only cancels and the *)
(* startup reclaim. Whoever owned a row they write is recorded as stolen   *)
(* from, so no property about undisturbed owners is at risk.               *)
(***************************************************************************)

SettlesRows ==
  \A x \in Runs :
    \/ /\ runs'[x].status = runs[x].status
       /\ runs'[x].session = runs[x].session
    \/ /\ runs'[x].status \in {"failed", "canceled"}
       /\ OwnersOf({x}) \subseteq stolen'

\* A request stays as it is, or arrives and ends at once.
EndsAtOnce ==
  \A p \in Requests :
    \/ requests'[p] = requests[p]
    \/ /\ requests[p].stage = "unsent"
       /\ requests'[p].stage = "ended"
       /\ requests'[p].fin = "done"
       /\ requests'[p].run \in Runs
       /\ requests'[p].session \in Sessions
       /\ requests'[p].answer = "decline" => requests'[p].call \in Calls

LEMMA OutsideStep ==
  ASSUME IInv, TypeOK', SettlesRows, EndsAtOnce, stolen \subseteq stolen',
         ~up' => ~up, UNCHANGED <<interactions, events, registry>>
  PROVE  IInv'
<1>1. ASSUME NEW p \in Requests
      PROVE  /\ Owns(p)' => requests'[p] = requests[p]
             /\ requests[p].fin = "closing" => requests'[p] = requests[p]
             /\ requests[p].stage # "unsent" => requests'[p] = requests[p]
             /\ requests'[p] # requests[p] =>
                  /\ requests'[p].fin = "done"
                  /\ requests'[p].stage = "ended"
  BY DEF IInv, EndsAtOnce, SentNamed, Unsent, Owns
<1>2. SentNamed'
  BY DEF IInv, EndsAtOnce, SentNamed
<1>3. OwnersLeave
  BY <1>1 DEF OwnersLeave, Owns, Working
<1>4. HandleOwnership' /\ HandlesKept'
  BY <1>1 DEF IInv, HandleOwnership, HandlesKept, Streams
<1>5. OwnedRows'
  <2> SUFFICES ASSUME NEW p \in Requests, Owns(p)'
               PROVE  runs'[requests'[p].run].status \notin {"absent", "suspended"}
    BY DEF OwnedRows
  <2>1. Owns(p) /\ requests'[p] = requests[p]
    BY <1>1 DEF Owns
  <2>2. requests[p].run \in Runs
    BY <2>1 DEF IInv, SentNamed, Unsent, Owns
  <2> QED BY <2>1, <2>2 DEF IInv, OwnedRows, SettlesRows
<1>6. SuspendedIsPending'
  BY DEF IInv, SuspendedIsPending, SettlesRows
<1>7. FinishedIsSettled'
  BY <1>1 DEF IInv, FinishedIsSettled, FinishedEvent, SettlesRows, OwnersOf, Owns, Terminal
<1>8. WorkerRowIsRunning'
  <2> SUFFICES ASSUME NEW p \in Requests, Working(p)', p \notin stolen'
               PROVE  /\ runs'[requests'[p].run].status = "running"
                      /\ runs'[requests'[p].run].session = requests'[p].session
    BY DEF WorkerRowIsRunning
  <2>1. Working(p) /\ p \notin stolen /\ requests'[p] = requests[p]
    BY <1>1 DEF Working, Owns
  <2>2. requests[p].run \in Runs /\ p \in OwnersOf({requests[p].run})
    BY <2>1 DEF IInv, SentNamed, Unsent, Working, Owns, OwnersOf
  <2> QED BY <2>1, <2>2 DEF IInv, WorkerRowIsRunning, SettlesRows
<1> QED BY <1>2, <1>3, <1>4, <1>5, <1>6, <1>7, <1>8, LeavingIsSafe DEF IInv

\* The parameters of a request that arrives.
Named(r, s, c, a) ==
  /\ r \in Runs
  /\ s \in Sessions
  /\ c \in Calls \cup {None}
  /\ a \in Answers \cup {None}
  /\ a = None <=> c = None

LEMMA EndedEndsAtOnce ==
  ASSUME TypeOK, NEW q \in Requests, Arrives(q), NEW r, NEW s, NEW c, NEW a,
         Named(r, s, c, a), Ended(q, r, s, c, a)
  PROVE  EndsAtOnce /\ requests' \in [Requests -> Request]
<1> DEFINE over == [stage |-> "ended", fin |-> "done", run |-> r, session |-> s,
                    call |-> c, answer |-> a, open |-> FALSE]
<1>1. over \in Request
  BY DEF Named, Request, Stages, Finals
<1> QED BY <1>1, BecomesType, NoneAssumption DEF Arrives, Named, Ended, EndsAtOnce, Answers

LEMMA RowSettled ==
  ASSUME TypeOK, NEW table \in [Runs -> Row], NEW r \in Runs, NEW s \in Sessions
  PROVE  /\ PersistEarlyFailed(table, r, s) \in [Runs -> Row]
         /\ PersistEarlyFailed(table, r, s)[r].status = "failed"
         /\ \A x \in Runs \ {r} : PersistEarlyFailed(table, r, s)[x] = table[x]
<1> DEFINE row == IF table[r].status = "absent"
                  THEN [status |-> "failed", session |-> s, body |-> None,
                        started |-> claims]
                  ELSE [table[r] EXCEPT !.status = "failed"]
<1>1. row \in Row /\ row.status = "failed"
  BY DEF TypeOK, Row, Statuses, Terminal
<1>2. PersistEarlyFailed(table, r, s) = [table EXCEPT ![r] = row]
  BY DEF PersistEarlyFailed
<1> QED BY <1>1, <1>2

LEMMA RejectConfigStep ==
  ASSUME IInv, NEW q \in Requests, NEW r, NEW s, NEW c, NEW a,
         Named(r, s, c, a), RejectConfig(q, r, s, c, a)
  PROVE  IInv'
<1>1. EndsAtOnce /\ requests' \in [Requests -> Request]
  BY EndedEndsAtOnce DEF IInv, RejectConfig
<1>2. SettlesRows /\ runs' \in [Runs -> Row]
  <2>1. CASE c = None
    <3>1. runs' = PersistEarlyFailed(runs, r, s) /\ OwnersOf({r}) \subseteq stolen'
      BY <2>1 DEF RejectConfig
    <3>2. /\ runs' \in [Runs -> Row]
          /\ runs'[r].status = "failed"
          /\ \A x \in Runs \ {r} : runs'[x] = runs[x]
      BY <3>1, RowSettled DEF IInv, TypeOK, Named
    <3> QED BY <3>1, <3>2 DEF SettlesRows, Named
  <2>2. CASE c # None
    BY <2>2 DEF IInv, TypeOK, RejectConfig, SettlesRows
  <2> QED BY <2>1, <2>2
<1>3. TypeOK'
  BY <1>1, <1>2 DEF IInv, TypeOK, RejectConfig, OwnersOf
<1> QED BY <1>1, <1>2, <1>3, OutsideStep DEF RejectConfig, Arrives

LEMMA ReplayStep ==
  ASSUME IInv, NEW q \in Requests, NEW r, NEW s, NEW b, NEW c, NEW a,
         Named(r, s, c, a), Replay(q, r, s, b, c, a)
  PROVE  IInv'
<1>1. EndsAtOnce /\ requests' \in [Requests -> Request]
  BY EndedEndsAtOnce DEF IInv, Replay
<1>2. TypeOK' /\ SettlesRows
  BY <1>1 DEF IInv, TypeOK, Replay, SettlesRows
<1> QED BY <1>1, <1>2, OutsideStep DEF Replay, Arrives

LEMMA ReclaimedRows ==
  ASSUME TypeOK, NEW r \in Runs, NEW s \in Sessions
  PROVE  /\ AfterReclaim(r, s) \in [Runs -> Row]
         /\ \A x \in Runs :
              /\ AfterReclaim(r, s)[x].session = runs[x].session
              /\ x \in Reclaimed(r, s) => AfterReclaim(r, s)[x].status = "canceled"
              /\ x \notin Reclaimed(r, s) => AfterReclaim(r, s)[x] = runs[x]
  BY DEF TypeOK, AfterReclaim, Row, Statuses, Terminal

LEMMA RefuseStep ==
  ASSUME IInv, NEW q \in Requests, NEW r, NEW s, NEW b, NEW c, NEW a,
         Named(r, s, c, a), Refuse(q, r, s, b, c, a)
  PROVE  IInv'
<1> DEFINE gone == ReclaimedByRefusal(r, s, c)
           table == IF gone = {} THEN runs ELSE AfterReclaim(r, s)
<1>1. EndsAtOnce /\ requests' \in [Requests -> Request]
  BY EndedEndsAtOnce DEF IInv, Refuse
<1>2. /\ table \in [Runs -> Row]
      /\ \A x \in Runs : /\ table[x].session = runs[x].session
                         /\ x \in gone => table[x].status = "canceled"
                         /\ x \notin gone => table[x] = runs[x]
  BY ReclaimedRows DEF IInv, TypeOK, Named, ReclaimedByRefusal
<1>3. SettlesRows /\ runs' \in [Runs -> Row]
  <2>1. CASE c = None
    <3>1. /\ runs' = PersistEarlyFailed(table, r, s)
          /\ stolen' = stolen \cup OwnersOf(gone \cup {r})
      BY <2>1 DEF Refuse
    <3>2. /\ runs' \in [Runs -> Row]
          /\ runs'[r].status = "failed"
          /\ \A x \in Runs \ {r} : runs'[x] = table[x]
      BY <1>2, <3>1, RowSettled DEF IInv, Named
    <3> QED BY <1>2, <3>1, <3>2 DEF SettlesRows, OwnersOf, Named
  <2>2. CASE c # None
    BY <1>2, <2>2 DEF Refuse, SettlesRows, OwnersOf
  <2> QED BY <2>1, <2>2
<1>4. TypeOK'
  BY <1>1, <1>3 DEF IInv, TypeOK, Refuse, OwnersOf
<1> QED BY <1>1, <1>3, <1>4, OutsideStep DEF Refuse, Arrives

LEMMA CancelPersistedOnlyStep ==
  ASSUME IInv, NEW r \in Runs, CancelPersistedOnly(r)
  PROVE  IInv'
<1>1. runs' \in [Runs -> Row]
  BY StatusType DEF IInv, CancelPersistedOnly, Statuses, Terminal
<1>2. TypeOK'
  BY <1>1 DEF IInv, TypeOK, CancelPersistedOnly, OwnersOf
<1>3. SettlesRows /\ EndsAtOnce
  BY DEF IInv, TypeOK, CancelPersistedOnly, Status, SettlesRows, EndsAtOnce, Row
<1> QED BY <1>2, <1>3, OutsideStep DEF CancelPersistedOnly

LEMMA RestartStep ==
  ASSUME IInv, Restart
  PROVE  IInv'
<1>1. runs' \in [Runs -> Row]
  BY DEF IInv, TypeOK, Restart, Row, Statuses, Terminal
<1>2. TypeOK'
  BY <1>1 DEF IInv, TypeOK, Restart
<1>3. SettlesRows /\ EndsAtOnce
  BY DEF IInv, TypeOK, DownIsIdle, Restart, SettlesRows, EndsAtOnce, OwnersOf, Row
<1> QED BY <1>2, <1>3, OutsideStep DEF Restart

-----------------------------------------------------------------------------
(***************************************************************************)
(* Requests that begin to work: nobody owns the run they begin, and every  *)
(* other worker of the session is stolen from by the reclaim.              *)
(***************************************************************************)

BeginsOwning(q, r, s) ==
  /\ requests'[q].stage = "preparing"
  /\ requests'[q].fin = "none"
  /\ requests'[q].run = r
  /\ requests'[q].session = s
  /\ requests'[q].answer = "decline" => requests'[q].call \in Calls
  /\ \A p \in Requests \ {q} : requests'[p] = requests[p]

LEMMA BeginsType ==
  ASSUME TypeOK, NEW q \in Requests, NEW r, NEW s, NEW c, NEW a,
         Named(r, s, c, a), Begins(q, r, s, c, a)
  PROVE  BeginsOwning(q, r, s) /\ requests' \in [Requests -> Request]
<1> DEFINE new == [stage |-> "preparing", fin |-> "none", run |-> r, session |-> s,
                   call |-> c, answer |-> a, open |-> TRUE]
<1>1. new \in Request
  BY DEF Named, Request, Stages, Finals
<1> QED BY <1>1, BecomesType, NoneAssumption DEF Named, Begins, BeginsOwning, Answers

LEMMA BeginStep ==
  ASSUME IInv, TypeOK', NEW q \in Requests, NEW r \in Runs, NEW s \in Sessions,
         Arrives(q), BeginsOwning(q, r, s),
         runs[r].status \in {"absent", "suspended"},
         Blockers(r, s) = {},
         runs'[r].status = "running",
         runs'[r].session = s,
         \A x \in Runs \ {r} : runs'[x] = AfterReclaim(r, s)[x],
         stolen' = stolen \cup OwnersOf(Reclaimed(r, s)),
         UNCHANGED <<interactions, events, registry, up>>
  PROVE  IInv'
<1>1. requests[q] = Unsent /\ ~Owns(q)
  <2>1. requests[q] = Unsent
    BY DEF IInv, SentNamed, Arrives
  <2> QED BY <2>1 DEF Unsent, Owns
<1>2. \A p \in Requests \ {q} : /\ requests'[p] = requests[p]
                                /\ Owns(p)' <=> Owns(p)
                                /\ Working(p)' <=> Working(p)
  BY DEF BeginsOwning, Owns, Working
<1>3. \A p \in Requests : Owns(p) => requests[p].run \in Runs \ {r}
  BY DEF IInv, OwnedRows, SentNamed, Unsent, Owns
<1>4. \A x \in Runs \ {r} :
        \/ runs'[x] = runs[x] /\ x \notin Reclaimed(r, s)
        \/ runs'[x].status = "canceled" /\ x \in Reclaimed(r, s)
  BY ReclaimedRows DEF IInv
<1>5. SentNamed'
  BY DEF IInv, SentNamed, BeginsOwning
<1>6. HandleOwnership' /\ HandlesKept'
  BY <1>1, <1>2 DEF IInv, HandleOwnership, HandlesKept, Streams, BeginsOwning, Unsent
<1>7. OneOwnerPerRun'
  BY <1>2, <1>3 DEF IInv, OneOwnerPerRun, BeginsOwning
<1>8. OwnedRows' /\ DownIsIdle'
  <2>1. OwnedRows'
    BY <1>2, <1>3, <1>4 DEF IInv, OwnedRows, BeginsOwning
  <2>2. DownIsIdle'
    BY DEF DownIsIdle, Arrives
  <2> QED BY <2>1, <2>2
<1>9. SuspendedIsPending'
  BY <1>4 DEF IInv, SuspendedIsPending
<1>10. FinishedIsSettled'
  <2> SUFFICES ASSUME NEW x \in Runs, FinishedEvent(x)'
               PROVE  /\ runs'[x].status \in Terminal
                      /\ \A p \in OwnersOf({x})' : requests'[p].fin # "none"
    BY DEF FinishedIsSettled
  <2>1. FinishedEvent(x)
    BY <1>1 DEF FinishedEvent, BeginsOwning, Unsent
  <2>2. x # r /\ runs[x].status \in Terminal /\ runs'[x] = runs[x]
    BY <1>4, <2>1 DEF IInv, FinishedIsSettled, Terminal, Reclaimed, ActiveOthers, Active
  <2> QED BY <1>2, <2>1, <2>2 DEF IInv, FinishedIsSettled, OwnersOf, BeginsOwning
<1>11. \A p \in Requests \ {q} :
         Working(p) /\ p \notin stolen' =>
           /\ p \notin stolen
           /\ runs'[requests[p].run] = runs[requests[p].run]
           /\ runs[requests[p].run].status = "running"
           /\ runs[requests[p].run].session = requests[p].session
           /\ requests[p].session # s
  <2> SUFFICES ASSUME NEW p \in Requests \ {q}, Working(p), p \notin stolen'
               PROVE  /\ p \notin stolen
                      /\ runs'[requests[p].run] = runs[requests[p].run]
                      /\ runs[requests[p].run].status = "running"
                      /\ runs[requests[p].run].session = requests[p].session
                      /\ requests[p].session # s
    OBVIOUS
  <2>1. p \notin stolen /\ Owns(p) /\ requests[p].run \in Runs \ {r}
    BY <1>3 DEF Working
  <2>2. requests[p].run \notin Reclaimed(r, s)
    BY <2>1 DEF OwnersOf
  <2>3. /\ runs[requests[p].run].status = "running"
        /\ runs[requests[p].run].session = requests[p].session
    BY <2>1 DEF IInv, WorkerRowIsRunning
  <2>4. requests[p].session # s
    BY <2>1, <2>2, <2>3 DEF Reclaimed, Blockers, ActiveOthers, Active
  <2> QED BY <1>4, <2>1, <2>2, <2>3, <2>4
<1>12. WorkerRowIsRunning'
  BY <1>2, <1>11 DEF WorkerRowIsRunning, BeginsOwning
<1>13. ExclusiveUnlessStolen'
  BY <1>2, <1>11 DEF IInv, ExclusiveUnlessStolen, BeginsOwning
<1> QED BY <1>5, <1>6, <1>7, <1>8, <1>9, <1>10, <1>12, <1>13 DEF IInv

LEMMA ClaimStep ==
  ASSUME IInv, NEW q \in Requests, NEW r \in Runs, NEW s \in Sessions, NEW b \in Bodies,
         Claim(q, r, s, b)
  PROVE  IInv'
<1>1. BeginsOwning(q, r, s) /\ requests' \in [Requests -> Request]
  BY BeginsType DEF IInv, Claim, Named
<1>2. /\ runs' \in [Runs -> Row]
      /\ runs'[r].status = "running"
      /\ runs'[r].session = s
      /\ \A x \in Runs \ {r} : runs'[x] = AfterReclaim(r, s)[x]
  <2> DEFINE row == [status |-> "running", session |-> s, body |-> b, started |-> claims]
  <2>1. row \in Row
    BY DEF IInv, TypeOK, Row, Statuses, Active
  <2> QED BY <2>1, ReclaimedRows DEF IInv, Claim
<1>3. TypeOK'
  BY <1>1, <1>2 DEF IInv, TypeOK, Claim, OwnersOf
<1> QED BY <1>1, <1>2, <1>3, BeginStep DEF Claim

LEMMA ResumeStep ==
  ASSUME IInv, NEW q \in Requests, NEW r \in Runs, NEW s \in Sessions, NEW c \in Calls,
         NEW a \in Answers, Resume(q, r, s, c, a)
  PROVE  IInv'
<1>1. BeginsOwning(q, r, s) /\ requests' \in [Requests -> Request]
  BY BeginsType, NoneAssumption DEF IInv, Resume, Named
<1>2. /\ runs' \in [Runs -> Row]
      /\ runs'[r].status = "running"
      /\ runs'[r].session = s
      /\ \A x \in Runs \ {r} : runs'[x] = AfterReclaim(r, s)[x]
  <2>1. AfterReclaim(r, s)[r].session = s
    BY ReclaimedRows DEF IInv, Resume, ResumeMatches
  <2>2. AfterReclaim(r, s) \in [Runs -> Row]
    BY ReclaimedRows DEF IInv
  <2>3. runs' = [AfterReclaim(r, s) EXCEPT ![r].status = "running"]
    BY DEF Resume, ResumedRows
  <2> QED BY <2>1, <2>2, <2>3 DEF Row, Statuses, Active
<1>3. TypeOK'
  BY <1>1, <1>2 DEF IInv, TypeOK, Resume, OwnersOf
<1> QED BY <1>1, <1>2, <1>3, BeginStep DEF Resume, Resumes

-----------------------------------------------------------------------------
(***************************************************************************)
(* A cancel by handle, and a crash.                                        *)
(***************************************************************************)

LEMMA CrashStep ==
  ASSUME IInv, Crash
  PROVE  IInv'
<1>1. \A p \in Requests :
        /\ AfterCrash(p) \in Request
        /\ requests[p] = Unsent => AfterCrash(p) = Unsent
        /\ requests[p] # Unsent =>
             /\ AfterCrash(p).stage = "ended"
             /\ AfterCrash(p).fin = "done"
             /\ AfterCrash(p).run = requests[p].run
             /\ AfterCrash(p).session = requests[p].session
             /\ AfterCrash(p).call = requests[p].call
             /\ AfterCrash(p).answer = requests[p].answer
  <2> SUFFICES ASSUME NEW p \in Requests
               PROVE  /\ AfterCrash(p) \in Request
                      /\ requests[p] = Unsent => AfterCrash(p) = Unsent
                      /\ requests[p] # Unsent =>
                           /\ AfterCrash(p).stage = "ended"
                           /\ AfterCrash(p).fin = "done"
                           /\ AfterCrash(p).run = requests[p].run
                           /\ AfterCrash(p).session = requests[p].session
                           /\ AfterCrash(p).call = requests[p].call
                           /\ AfterCrash(p).answer = requests[p].answer
    OBVIOUS
  <2>1. requests[p] \in Request
    BY DEF IInv, TypeOK
  <2>2. requests[p] # Unsent => requests[p].stage # "unsent"
    BY DEF IInv, SentNamed
  <2>3. requests[p] = Unsent => requests[p].stage = "unsent"
    BY DEF Unsent
  <2> QED BY <2>1, <2>2, <2>3 DEF AfterCrash, Request, Stages, Finals
<1>2. \A p \in Requests : requests'[p] = AfterCrash(p)
  BY DEF Crash
<1>3. Unsent.stage = "unsent" /\ Unsent.fin = "none"
  BY DEF Unsent
<1>4. \A p \in Requests : ~Owns(p)'
  BY <1>1, <1>2, <1>3 DEF Owns
<1>5. TypeOK' /\ SentNamed'
  <2>1. requests' \in [Requests -> Request]
    BY <1>1, <1>2 DEF Crash
  <2>2. registry' \in [Runs -> Requests \cup {None}] /\ crashes' \in Nat
    BY DEF IInv, TypeOK, Crash
  <2>3. TypeOK'
    BY <2>1, <2>2 DEF IInv, TypeOK, Crash
  <2> QED BY <1>1, <1>2, <2>3 DEF IInv, SentNamed
<1>6. HandleOwnership' /\ HandlesKept'
  <2>1. \A r \in Runs : registry'[r] = None
    BY DEF Crash
  <2>2. \A p \in Requests : p # None
    BY NoneAssumption
  <2>3. \A p \in Requests : requests'[p].stage \notin {"registered", "streaming"}
    BY <1>1, <1>2, <1>3
  <2>4. \A p \in Requests : ~Streams(p)'
    BY <2>3 DEF Streams
  <2> QED BY <2>1, <2>2, <2>3, <2>4 DEF HandleOwnership, HandlesKept
<1>7. OneOwnerPerRun' /\ OwnedRows' /\ DownIsIdle'
  BY <1>4 DEF OneOwnerPerRun, OwnedRows, DownIsIdle
<1>8. SuspendedIsPending'
  BY DEF IInv, SuspendedIsPending, Crash
<1>9. FinishedIsSettled'
  <2>1. \A x \in Runs : FinishedEvent(x)' => FinishedEvent(x)
    BY <1>1, <1>2, <1>3 DEF FinishedEvent, Crash
  <2> QED BY <1>4, <2>1 DEF IInv, FinishedIsSettled, OwnersOf, Crash
<1>10. WorkerRowIsRunning' /\ ExclusiveUnlessStolen'
  BY <1>4 DEF WorkerRowIsRunning, ExclusiveUnlessStolen, Working
<1> QED BY <1>5, <1>6, <1>7, <1>8, <1>9, <1>10 DEF IInv

-----------------------------------------------------------------------------
(***************************************************************************)
(* The invariant, and what it implies.                                     *)
(***************************************************************************)

LEMMA InitIInv ==
  ASSUME Init
  PROVE  IInv
<1>1. \A q \in Requests : requests[q] = Unsent /\ ~Owns(q) /\ requests[q].fin = "none"
  BY DEF Init, Unsent, Owns
<1>2. TypeOK
  <2>1. Unsent \in Request /\ NoRow \in Row /\ NoInteraction \in Interaction
    BY DEF Unsent, Request, Stages, Finals, NoRow, Row, Statuses, NoInteraction, Interaction
  <2> QED BY <2>1 DEF Init, TypeOK
<1>3. HandleOwnership /\ HandlesKept
  BY NoneAssumption DEF Init, HandleOwnership, HandlesKept, Streams, Unsent
<1>4. SuspendedIsPending
  BY DEF Init, SuspendedIsPending, NoRow
<1>5. FinishedIsSettled
  <2>1. \A r \in Runs : events[r] = <<>>
    BY DEF Init
  <2> QED BY <1>1, <2>1 DEF FinishedIsSettled, FinishedEvent
<1> QED BY <1>1, <1>2, <1>3, <1>4, <1>5
        DEF IInv, SentNamed, OneOwnerPerRun, OwnedRows, DownIsIdle, WorkerRowIsRunning,
            ExclusiveUnlessStolen, Working, Init

LEMMA SubmitStep ==
  ASSUME IInv, NEW q \in Requests, Submit(q)
  PROVE  IInv'
<1> PICK r \in Runs, s \in Sessions :
      \/ SubmitNew(q, r, s)
      \/ \E c \in Calls, a \in Answers : SubmitResume(q, r, s, c, a)
  BY DEF Submit
<1>1. CASE SubmitNew(q, r, s)
  <2>1. Named(r, s, None, None)
    BY DEF Named
  <2> QED BY <1>1, <2>1, RejectConfigStep, ReplayStep, RefuseStep, ClaimStep DEF SubmitNew
<1>2. CASE \E c \in Calls, a \in Answers : SubmitResume(q, r, s, c, a)
  <2> PICK c \in Calls, a \in Answers : SubmitResume(q, r, s, c, a)
    BY <1>2
  <2>1. Named(r, s, c, a)
    BY NoneAssumption DEF Named, Answers
  <2> QED BY <2>1, RejectConfigStep, ReplayStep, RefuseStep, ResumeStep DEF SubmitResume
<1> QED BY <1>1, <1>2

LEMMA StutterStep ==
  ASSUME IInv, UNCHANGED vars
  PROVE  IInv'
<1>1. TypeOK'
  BY DEF IInv, TypeOK, vars
<1>2. SettlesRows /\ EndsAtOnce
  BY DEF vars, SettlesRows, EndsAtOnce
<1> QED BY <1>1, <1>2, OutsideStep DEF vars

LEMMA NextIInv ==
  ASSUME IInv, [Next]_vars
  PROVE  IInv'
<1>1. ASSUME NEW q \in Requests, Submit(q) PROVE IInv'
  BY <1>1, SubmitStep
<1>2. ASSUME NEW q \in Requests, Prepare(q) PROVE IInv'
  BY <1>2, RegisterStep, FailEarlyStep, StartStreamStep, AbortStartStep DEF Prepare
<1>3. ASSUME NEW q \in Requests, Stream(q) PROVE IInv'
  <2>1. ASSUME RunError(q) \/ RunTimeout(q) PROVE IInv'
    BY <2>1, FailRunStep DEF RunError, RunTimeout
  <2> QED BY <1>3, <2>1, ToolResultStep, ResultFailsStep, ToolCallStep, FinishStep,
             FinishDeclinedStep, CloseStreamStep, InterruptStep DEF Stream
<1>4. ASSUME NEW q \in Requests, Finalize(q) PROVE IInv'
  BY <1>4, FinalizeFailedStep, FinalizeCompletedStep, FinalizeCanceledStep, EmitTerminalStep
     DEF Finalize
<1>5. ASSUME NEW q \in Requests, Disconnect(q) PROVE IInv'
  BY <1>5, DisconnectStep
<1>6. ASSUME NEW r \in Runs, NEW q \in Requests, CancelByHandle(r, q) PROVE IInv'
  BY <1>6, CancelByHandleStep
<1>7. ASSUME NEW r \in Runs, CancelPersistedOnly(r) PROVE IInv'
  BY <1>7, CancelPersistedOnlyStep
<1>8. CASE Crash
  BY <1>8, CrashStep
<1>9. CASE Restart
  BY <1>9, RestartStep
<1>10. ASSUME NEW q \in Requests, Background(q) PROVE IInv'
  BY <1>10, BackgroundStep
<1>11. CASE UNCHANGED vars
  BY <1>11, StutterStep
<1> QED BY <1>1, <1>2, <1>3, <1>4, <1>5, <1>6, <1>7, <1>8, <1>9, <1>10, <1>11 DEF Next

\* The inductive invariant holds in every reachable state.
THEOREM Invariance == Spec => []IInv
<1>1. Init => IInv
  BY InitIInv
<1>2. IInv /\ [Next]_vars => IInv'
  BY NextIInv
<1> QED BY <1>1, <1>2, PTL DEF Spec

\* Every variable keeps its type.
THEOREM TypeCorrectness == Spec => []TypeOK
<1>1. IInv => TypeOK
  BY DEF IInv
<1> QED BY <1>1, Invariance, PTL

\* The handle the cancel registry holds for a run belongs to the one request that
\* drives the run, and every stream can be canceled through its handle.
THEOREM HandlesBelongToDrivers == Spec => []HandleOwnership
<1>1. IInv => HandleOwnership
  BY DEF IInv
<1> QED BY <1>1, Invariance, PTL

\* No two requests ever drive the same run.
THEOREM OneOwner == Spec => []OneOwnerPerRun
<1>1. IInv => OneOwnerPerRun
  BY DEF IInv
<1> QED BY <1>1, Invariance, PTL

\* A suspended run, which no reclaim touches, always has an interaction to answer,
\* and no request is at work on it.
THEOREM SuspensionsAreAnswerable == Spec => []SuspendedIsAnswerable
<1>1. IInv => SuspendedIsAnswerable
  BY DEF IInv, SuspendedIsAnswerable, SuspendedIsPending, OwnedRows, OwnersOf
<1> QED BY <1>1, Invariance, PTL

\* The log of a suspended run never says that the run is finished.
THEOREM SuspensionsAreOpen == Spec => []SuspendedNotFinished
<1>1. IInv => SuspendedNotFinished
  BY DEF IInv, SuspendedNotFinished, FinishedIsSettled, FinishedEvent, Terminal
<1> QED BY <1>1, Invariance, PTL

\* Two requests work in one session only if somebody wrote the row of one of them.
THEOREM SessionsAreExclusive == Spec => []ExclusiveUnlessStolen
<1>1. IInv => ExclusiveUnlessStolen
  BY DEF IInv
<1> QED BY <1>1, Invariance, PTL

\* A request that nobody interfered with finds its row as it left it.
THEOREM WorkersFindTheirRow == Spec => []WorkerRowIsRunning
<1>1. IInv => WorkerRowIsRunning
  BY DEF IInv
<1> QED BY <1>1, Invariance, PTL

-----------------------------------------------------------------------------
(***************************************************************************)
(* How a settled row can change.                                           *)
(***************************************************************************)

SettledChanges(r) == runs[r].status \in Terminal /\ runs'[r].status # runs[r].status

LEMMA OwnerOfSettled ==
  ASSUME IInv, NEW q \in Requests, Owns(q), runs[requests[q].run].status \in Terminal
  PROVE  Explained(requests[q].run)
<1>1. requests[q].fin \in {"cancelling", "closing", "done"} \/ q \in stolen
  BY DEF IInv, TypeOK, WorkerRowIsRunning, Working, Terminal, Request, Finals
<1> QED BY <1>1 DEF Explained, OwnersOf

\* A driver writes the row of its own run and no other.
LEMMA DriverWrites ==
  ASSUME IInv, NEW q \in Requests, Prepare(q) \/ Stream(q) \/ Finalize(q), NEW r \in Runs,
         runs'[r].status # runs[r].status
  PROVE  Owns(q) /\ requests[q].run = r
<1>1. CASE Prepare(q)
  BY <1>1 DEF IInv, TypeOK, Prepare, Register, FailEarly, StartStream, AbortStart, Owns
<1>2. CASE Stream(q)
  BY <1>2 DEF IInv, TypeOK, Stream, Streams, Owns, ToolResult, ResultFails, ToolCall,
     Finish, FinishDeclined, RunError, RunTimeout, FailRun, CloseStream, Interrupt, Status
<1>3. CASE Finalize(q)
  BY <1>3 DEF IInv, TypeOK, Finalize, FinalizeFailed, FinalizeCompleted, FinalizeCanceled,
     EmitTerminal, Status, Owns
<1> QED BY <1>1, <1>2, <1>3

LEMMA RefusalExplained ==
  ASSUME TypeOK, NEW q \in Requests, Arrives(q), NEW r, NEW s, NEW c, NEW a,
         Ended(q, r, s, c, a)
  PROVE  Explained(r)
  BY DEF TypeOK, Arrives, Ended, Becomes, Explained

LEMMA ReclaimSparesSettled ==
  ASSUME TypeOK, NEW r \in Runs, NEW s \in Sessions, NEW x \in Runs,
         runs[x].status \in Terminal
  PROVE  AfterReclaim(r, s)[x] = runs[x]
  BY DEF TypeOK, AfterReclaim, Reclaimed, ActiveOthers, Active, Terminal

LEMMA ArrivalExplained ==
  ASSUME IInv, NEW q \in Requests, Submit(q), NEW x \in Runs, SettledChanges(x)
  PROVE  Explained(x)
<1> PICK r \in Runs, s \in Sessions :
      \/ SubmitNew(q, r, s)
      \/ \E c \in Calls, a \in Answers : SubmitResume(q, r, s, c, a)
  BY DEF Submit
<1>1. AfterReclaim(r, s)[x] = runs[x] /\ AfterReclaim(r, s) \in [Runs -> Row]
  BY ReclaimSparesSettled, ReclaimedRows DEF IInv, SettledChanges
<1>2. \A table \in [Runs -> Row] : PersistEarlyFailed(table, r, s)[x] # table[x] => x = r
  BY RowSettled DEF IInv
<1>3. ASSUME NEW c, NEW a, RejectConfig(q, r, s, c, a) PROVE Explained(x)
  <2>1. x = r
    BY <1>2, <1>3 DEF IInv, TypeOK, RejectConfig, SettledChanges
  <2> QED BY <1>3, <2>1, RefusalExplained DEF IInv, RejectConfig
<1>4. ASSUME NEW b, NEW c, NEW a, Refuse(q, r, s, b, c, a) PROVE Explained(x)
  <2>1. x = r
    BY <1>1, <1>2, <1>4 DEF IInv, TypeOK, Refuse, SettledChanges
  <2> QED BY <1>4, <2>1, RefusalExplained DEF IInv, Refuse
<1>5. ASSUME NEW b, NEW c, NEW a, Replay(q, r, s, b, c, a) PROVE FALSE
  BY <1>5 DEF Replay, SettledChanges
<1>6. ASSUME NEW b, Claim(q, r, s, b) PROVE FALSE
  BY <1>1, <1>6 DEF Claim, SettledChanges, Terminal
<1>7. ASSUME NEW c, NEW a, Resume(q, r, s, c, a) PROVE FALSE
  BY <1>1, <1>7 DEF Resume, Resumes, ResumedRows, SettledChanges, Terminal
<1> QED BY <1>3, <1>4, <1>5, <1>6, <1>7 DEF SubmitNew, SubmitResume

LEMMA StepExplained ==
  ASSUME IInv, Next, NEW r \in Runs, SettledChanges(r)
  PROVE  Explained(r)
<1>1. ASSUME NEW q \in Requests, Submit(q) PROVE Explained(r)
  BY <1>1, ArrivalExplained
<1>2. ASSUME NEW q \in Requests, Prepare(q) \/ Stream(q) \/ Finalize(q) PROVE Explained(r)
  BY <1>2, DriverWrites, OwnerOfSettled DEF SettledChanges
<1>3. ASSUME NEW q \in Requests, Disconnect(q) PROVE FALSE
  BY <1>3 DEF Disconnect, SettledChanges
<1>4. ASSUME NEW x \in Runs, NEW q \in Requests, CancelByHandle(x, q) PROVE FALSE
  BY <1>4 DEF CancelByHandle, SettledChanges
<1>5. ASSUME NEW x \in Runs, CancelPersistedOnly(x) PROVE FALSE
  BY <1>5 DEF IInv, TypeOK, CancelPersistedOnly, Status, SettledChanges, Active, Terminal
<1>6. CASE Crash
  BY <1>6 DEF Crash, SettledChanges
<1>7. CASE Restart
  BY <1>7 DEF Restart, ListedOrphans, Orphans, SettledChanges, Terminal
<1>8. ASSUME NEW q \in Requests, Background(q) PROVE FALSE
  BY <1>8 DEF Background, TitleSettles, ToolSettles, Settles, SettledChanges
<1> QED BY <1>1, <1>2, <1>3, <1>4, <1>5, <1>6, <1>7, <1>8 DEF Next

\* A settled row changes only under an owner that was stolen from, under an owner
\* that was canceled or settled before, or under a new request that names the run.
THEOREM SettledRowsChangeExplained == Spec => SettledChangesExplained
<1>1. IInv /\ [Next]_vars =>
        [\A r \in Runs :
           runs[r].status \in Terminal /\ runs'[r].status # runs[r].status
           => Explained(r)]_vars
  BY StepExplained DEF SettledChanges
<1> QED BY <1>1, Invariance, PTL DEF Spec, SettledChangesExplained

-----------------------------------------------------------------------------
(***************************************************************************)
(* One outcome. A request speaks as long as it may log the outcome of its  *)
(* run or its terminal event: no run has two that do, once an outcome is   *)
(* logged only a closing request speaks, and it finds no terminal event    *)
(* after the outcome; a run with an outcome is never taken up again.       *)
(***************************************************************************)

Speaks(q) ==
  requests[q].fin = "closing" \/ (Owns(q) /\ requests[q].fin # "done")

OneSpeaker ==
  \A p, q \in Requests :
    Speaks(p) /\ Speaks(q) /\ requests[p].run = requests[q].run => p = q

HasOutcome(log) == \E i \in DOMAIN log : log[i] \in Outcomes

\* Some entry of O is logged, and no terminal event after it.
Awaits(log, O) ==
  \E i \in DOMAIN log : log[i] \in O /\ \A j \in DOMAIN log : j > i => log[j] \notin Ends

Done == {"completed", "canceled"}

OutcomeIsSilent ==
  \A q \in Requests :
    Speaks(q) /\ requests[q].run \in Runs /\ HasOutcome(events[requests[q].run])
    => requests[q].fin = "closing"
OutcomeIsSettled == \A r \in Runs : HasOutcome(events[r]) => runs[r].status \in Terminal
ClosingAwaits ==
  \A q \in Requests : requests[q].fin = "closing" /\ requests[q].run \in Runs =>
    Awaits(events[requests[q].run], Done)

Endings ==
  OneSpeaker /\ OutcomeIsSilent /\ OutcomeIsSettled /\ ClosingAwaits /\ OutcomeIsLoggedOnce

\* Nobody begins to speak or to close.
Keeps(p) ==
  /\ Speaks(p)' => Speaks(p)
  /\ requests'[p].fin = "closing" <=> requests[p].fin = "closing"
  /\ Speaks(p) => requests'[p].run = requests[p].run
NoNewSpeakers == \A p \in Requests : Keeps(p)

OutcomeStays ==
  \A r \in Runs : runs[r].status \in Terminal => runs'[r].status \in Terminal

LEMMA SilentStep ==
  ASSUME Endings, events' = events, NoNewSpeakers, OutcomeStays
  PROVE  Endings'
<1>1. OneSpeaker' /\ OutcomeIsSilent'
  BY DEF Endings, NoNewSpeakers, Keeps, OneSpeaker, OutcomeIsSilent, HasOutcome
<1>2. OutcomeIsSettled' /\ OutcomeIsLoggedOnce'
  BY DEF Endings, OutcomeStays, OutcomeIsSettled, OutcomeIsLoggedOnce, OneOutcome, HasOutcome
<1>3. ClosingAwaits'
  BY DEF Endings, NoNewSpeakers, Keeps, Speaks, ClosingAwaits, Awaits
<1> QED BY <1>1, <1>2, <1>3 DEF Endings

\* A log and the same log with one more entry.
LEMMA Appended ==
  ASSUME NEW log \in Seq(Events), NEW entry \in Events, NEW longer, longer = log \o <<entry>>
  PROVE  /\ longer \in Seq(Events)
         /\ Len(longer) = Len(log) + 1
         /\ DOMAIN longer = 1..Len(longer) /\ DOMAIN log = 1..Len(log)
         /\ \A i \in DOMAIN log : i \in DOMAIN longer /\ longer[i] = log[i]
         /\ longer[Len(longer)] = entry
  OBVIOUS

\* Entries before the outcome.
LEMMA AppendOpen ==
  ASSUME NEW log \in Seq(Events), OneOutcome(log), ~HasOutcome(log),
         NEW entry \in Events, entry \notin Outcomes \cup {"RUN_FINISHED"},
         NEW longer, longer = log \o <<entry>>
  PROVE  longer \in Seq(Events) /\ OneOutcome(longer) /\ ~HasOutcome(longer)
<1>1. \A i \in DOMAIN log : log[i] \notin Outcomes \cup {"RUN_FINISHED"}
  BY DEF OneOutcome, HasOutcome, Outcomes
<1>2. \A i \in DOMAIN longer : longer[i] \notin Outcomes \cup {"RUN_FINISHED"}
  <2>1. ASSUME NEW i \in DOMAIN longer PROVE longer[i] \notin Outcomes \cup {"RUN_FINISHED"}
    <3>1. i = Len(longer) \/ i \in DOMAIN log
      BY Appended
    <3> QED BY <1>1, <3>1, Appended
  <2> QED BY <2>1
<1> QED BY <1>2, Appended DEF OneOutcome, HasOutcome

\* The outcome itself.
LEMMA AppendOutcome ==
  ASSUME NEW log \in Seq(Events), OneOutcome(log), ~HasOutcome(log),
         NEW entry \in Outcomes, NEW longer, longer = log \o <<entry>>
  PROVE  longer \in Seq(Events) /\ OneOutcome(longer) /\ Awaits(longer, {entry})
<1>0. entry \in Events /\ entry # "RUN_FINISHED"
  BY DEF Outcomes, Events
<1>1. \A i \in DOMAIN log : log[i] \notin Outcomes \cup {"RUN_FINISHED"}
  BY DEF OneOutcome, HasOutcome, Outcomes
<1>2. \A i \in DOMAIN longer : i < Len(longer) => longer[i] \notin Outcomes \cup {"RUN_FINISHED"}
  BY <1>0, <1>1, Appended
<1>3. /\ longer[Len(longer)] = entry /\ DOMAIN longer = 1..Len(longer)
      /\ Len(longer) \in Nat \ {0} /\ longer \in Seq(Events)
  BY <1>0, Appended
<1>4. \A i \in DOMAIN longer : longer[i] # "RUN_FINISHED"
  BY <1>0, <1>2, <1>3
<1>5. ASSUME NEW i \in DOMAIN longer, longer[i] \in Outcomes PROVE i = Len(longer)
  BY <1>2, <1>3, <1>5
<1>6. ASSUME NEW i \in DOMAIN longer, NEW j \in DOMAIN longer, longer[i] \in Outcomes, j > i
      PROVE  FALSE
  BY <1>3, <1>5, <1>6
<1>7. OneOutcome(longer)
  BY <1>4, <1>6 DEF OneOutcome
<1>8. Awaits(longer, {entry})
  BY <1>3 DEF Awaits
<1> QED BY <1>3, <1>7, <1>8

\* What the tasks of a request log, before the outcome and after it.
LEMMA AppendLate ==
  ASSUME NEW log \in Seq(Events), OneOutcome(log), NEW entry \in LateEvents,
         NEW longer, longer = log \o <<entry>>
  PROVE  /\ OneOutcome(longer)
         /\ HasOutcome(longer) => HasOutcome(log)
         /\ \A O : Awaits(log, O) => Awaits(longer, O)
<1>0. entry \in Events /\ entry \notin Outcomes \cup Ends
  BY DEF LateEvents, Outcomes, Ends, Events
<1>1. /\ DOMAIN longer = 1..Len(longer) /\ Len(longer) = Len(log) + 1 /\ Len(log) \in Nat
      /\ DOMAIN log = 1..Len(log)
      /\ longer[Len(longer)] = entry
      /\ \A i \in DOMAIN log : i \in DOMAIN longer /\ longer[i] = log[i]
  BY <1>0, Appended
<1>2. \A i \in DOMAIN longer : longer[i] \in Outcomes \cup Ends => i \in DOMAIN log
  BY <1>0, <1>1
<1>3. HasOutcome(longer) => HasOutcome(log)
  BY <1>1, <1>2 DEF HasOutcome
<1>4. ASSUME NEW O, Awaits(log, O) PROVE Awaits(longer, O)
  <2>1. PICK i \in DOMAIN log : log[i] \in O /\ \A j \in DOMAIN log : j > i => log[j] \notin Ends
    BY <1>4 DEF Awaits
  <2>2. i \in DOMAIN longer /\ longer[i] \in O
    BY <1>1, <2>1
  <2>3. \A j \in DOMAIN longer : j > i => longer[j] \notin Ends
    BY <1>1, <1>2, <2>1
  <2> QED BY <2>2, <2>3 DEF Awaits
<1>5. ASSUME NEW i \in DOMAIN longer, longer[i] \in Outcomes, NEW j \in DOMAIN longer, j > i
      PROVE  /\ longer[j] \in Ends \cup LateEvents
             /\ longer[j] \in Ends => \A k \in DOMAIN longer : longer[k] \in Ends => k <= j
  <2>1. i \in DOMAIN log /\ log[i] \in Outcomes
    BY <1>1, <1>2, <1>5
  <2>2. CASE j \in DOMAIN log
    <3>1. /\ log[j] \in Ends \cup LateEvents
          /\ log[j] \in Ends => \A k \in DOMAIN log : log[k] \in Ends => k <= j
      BY <1>5, <2>1, <2>2 DEF OneOutcome
    <3> QED BY <1>1, <1>2, <2>2, <3>1
  <2>3. CASE j \notin DOMAIN log
    <3>1. longer[j] = entry
      BY <1>1, <2>3
    <3> QED BY <1>0, <3>1
  <2> QED BY <2>2, <2>3
<1>6. ASSUME NEW i \in DOMAIN longer, longer[i] = "RUN_FINISHED"
      PROVE  \E j \in DOMAIN longer : j < i /\ longer[j] \in {"completed", "canceled"}
  <2>1. i \in DOMAIN log /\ log[i] = "RUN_FINISHED"
    BY <1>1, <1>2, <1>6 DEF Ends
  <2> QED BY <1>1, <2>1 DEF OneOutcome
<1>7. OneOutcome(longer)
  BY <1>5, <1>6 DEF OneOutcome
<1> QED BY <1>3, <1>4, <1>7

\* The terminal event of a run whose outcome is logged.
LEMMA AppendEnd ==
  ASSUME NEW log \in Seq(Events), OneOutcome(log), NEW entry \in Ends, NEW O,
         O \subseteq Outcomes, Awaits(log, O), entry = "RUN_FINISHED" => O \subseteq Done,
         NEW longer, longer = log \o <<entry>>
  PROVE  OneOutcome(longer)
<1>0. entry \in Events /\ entry \notin Outcomes
  BY DEF Outcomes, Ends, Events
<1>1. /\ DOMAIN longer = 1..Len(longer) /\ Len(longer) = Len(log) + 1 /\ Len(log) \in Nat
      /\ DOMAIN log = 1..Len(log)
      /\ longer[Len(longer)] = entry
      /\ \A i \in DOMAIN log : i \in DOMAIN longer /\ longer[i] = log[i]
  BY <1>0, Appended
<1>2. PICK o \in DOMAIN log : log[o] \in O /\ \A j \in DOMAIN log : j > o => log[j] \notin Ends
  BY DEF Awaits
<1>3. ASSUME NEW i \in DOMAIN log, log[i] \in Outcomes PROVE i = o
  <2>1. ~(i > o)
    BY <1>2, <1>3 DEF OneOutcome, Ends, LateEvents, Outcomes
  <2>2. ~(o > i)
    BY <1>2, <1>3 DEF OneOutcome, Ends, LateEvents, Outcomes
  <2> QED BY <1>1, <2>1, <2>2
<1>4. ASSUME NEW i \in DOMAIN longer, longer[i] \in Outcomes, NEW j \in DOMAIN longer, j > i
      PROVE  /\ longer[j] \in Ends \cup LateEvents
             /\ longer[j] \in Ends => \A k \in DOMAIN longer : longer[k] \in Ends => k <= j
  <2>1. i \in DOMAIN log /\ i = o
    BY <1>0, <1>1, <1>3, <1>4
  <2>2. CASE j \in DOMAIN log
    <3>1. log[j] \in Ends \cup LateEvents /\ log[j] \notin Ends
      BY <1>2, <1>4, <2>1, <2>2 DEF OneOutcome
    <3> QED BY <1>1, <2>2, <3>1
  <2>3. CASE j = Len(longer)
    BY <1>1, <2>3
  <2> QED BY <1>1, <2>2, <2>3
<1>5. ASSUME NEW i \in DOMAIN longer, longer[i] = "RUN_FINISHED"
      PROVE  \E j \in DOMAIN longer : j < i /\ longer[j] \in {"completed", "canceled"}
  <2>1. CASE i \in DOMAIN log
    BY <1>1, <1>5, <2>1 DEF OneOutcome
  <2>2. CASE i = Len(longer)
    BY <1>1, <1>2, <1>5, <2>2 DEF Done
  <2> QED BY <1>1, <2>1, <2>2
<1> QED BY <1>4, <1>5 DEF OneOutcome

\* A request, or a task of it, logs a list in the log of its run. The others stay as they
\* are, and so do the rows of other runs that are settled.
LEMMA LogStep ==
  ASSUME TypeOK, Endings, NEW q \in Requests, NEW r \in Runs, requests[q].run = r,
         NEW list, Emit(r, list),
         \A p \in Requests \ {q} : requests'[p] = requests[p],
         requests'[q].run = r, Speaks(q)' => Speaks(q), OneOutcome(events[r] \o list),
         \A x \in Runs \ {r} : runs[x].status \in Terminal => runs'[x].status \in Terminal,
         HasOutcome(events[r] \o list) =>
           /\ runs'[r].status \in Terminal
           /\ Speaks(q)' => requests'[q].fin = "closing"
           /\ \A p \in Requests \ {q} :
                Speaks(p) /\ requests[p].run = r => requests[p].fin = "closing",
         \A p \in Requests : requests'[p].run = r /\ requests'[p].fin = "closing" =>
           Awaits(events[r] \o list, Done)
  PROVE  Endings'
<1>1. /\ events'[r] = events[r] \o list
      /\ \A x \in Runs \ {r} : events'[x] = events[x]
  BY DEF TypeOK, Emit
<1>2. \A p \in Requests :
        /\ Speaks(p)' => Speaks(p)
        /\ requests'[p].run = requests[p].run
  BY DEF Speaks, Owns
<1>3. OneSpeaker'
  BY <1>2 DEF Endings, OneSpeaker
<1>4. OutcomeIsLoggedOnce'
  BY <1>1 DEF Endings, OutcomeIsLoggedOnce
<1>5. OutcomeIsSettled'
  BY <1>1 DEF Endings, OutcomeIsSettled
<1>6. OutcomeIsSilent'
  <2> SUFFICES ASSUME NEW p \in Requests, Speaks(p)', requests'[p].run \in Runs,
                      HasOutcome(events'[requests'[p].run])
               PROVE  requests'[p].fin = "closing"
    BY DEF OutcomeIsSilent
  <2>1. CASE p = q
    BY <1>1, <2>1
  <2>2. CASE p # q /\ requests[p].run = r
    BY <1>1, <1>2, <2>2
  <2>3. CASE p # q /\ requests[p].run # r
    BY <1>1, <1>2, <2>3 DEF Endings, OutcomeIsSilent
  <2> QED BY <2>1, <2>2, <2>3
<1>7. ClosingAwaits'
  <2> SUFFICES ASSUME NEW p \in Requests, requests'[p].fin = "closing", requests'[p].run \in Runs
               PROVE  Awaits(events'[requests'[p].run], Done)
    BY DEF ClosingAwaits
  <2>1. CASE requests'[p].run = r
    BY <1>1, <2>1
  <2>2. CASE requests'[p].run # r
    BY <1>1, <2>2 DEF Endings, ClosingAwaits
  <2> QED BY <2>1, <2>2
<1> QED BY <1>3, <1>4, <1>5, <1>6, <1>7 DEF Endings

\* The request of a step becomes a record; the others keep theirs.
LEMMA OneBecomes ==
  ASSUME TypeOK, NEW q \in Requests, NEW request \in Request, Becomes(q, request),
         request.run = requests[q].run, Speaks(q)' => Speaks(q),
         request.fin = "closing" <=> requests[q].fin = "closing"
  PROVE  NoNewSpeakers
<1>1. requests'[q] = request /\ \A p \in Requests \ {q} : requests'[p] = requests[p]
  BY BecomesType
<1>2. Keeps(q)
  BY <1>1 DEF Keeps
<1>3. \A p \in Requests \ {q} : Keeps(p)
  BY <1>1 DEF Keeps, Speaks, Owns
<1> QED BY <1>2, <1>3 DEF NoNewSpeakers

\* A request that speaks is a sent one.
LEMMA SpeakersAreSent ==
  ASSUME IInv, NEW q \in Requests, Speaks(q)
  PROVE  requests[q] # Unsent /\ requests[q].run \in Runs
  BY DEF IInv, SentNamed, Speaks, Owns, Unsent

LEMMA ClosingIsQuiet ==
  ASSUME TypeOK, NEW q \in Requests, Becomes(q, Closed(q))
  PROVE  NoNewSpeakers
<1>1. requests[q] \in Request /\ Closed(q) \in Request
  BY ClosedType DEF TypeOK
<1>2. requests'[q] = Closed(q)
  BY <1>1, BecomesType
<1>3. Closed(q).run = requests[q].run /\ Closed(q).stage = "ended"
  BY <1>1 DEF Closed, Request
<1>4. /\ Closed(q).fin = requests[q].fin \/ Closed(q).fin = "done"
      /\ requests[q].fin = "closing" => Closed(q).fin = "closing"
  BY <1>1 DEF Closed, Request
<1>5. Speaks(q)' => Speaks(q)
  BY <1>2, <1>3, <1>4 DEF Speaks, Owns
<1> QED BY <1>1, <1>3, <1>4, <1>5, OneBecomes

\* Steps of a driver that log nothing.
LEMMA QuietSteps ==
  ASSUME IInv, Endings, NEW q \in Requests,
         \/ Register(q) \/ FailEarly(q) \/ AbortStart(q) \/ ToolResult(q) \/ ToolCall(q)
         \/ Finish(q) \/ CloseStream(q) \/ Disconnect(q)
  PROVE  Endings'
<1>1. requests[q] \in Request /\ Closed(q) \in Request
  BY ClosedType DEF IInv, TypeOK
<1>2. NoNewSpeakers
  <2>1. CASE Register(q)
    <3>1. [requests[q] EXCEPT !.stage = "registered"] \in Request
      BY <1>1 DEF Request, Stages
    <3>2. Speaks(q)' => Speaks(q)
      BY <1>1, <2>1, <3>1, BecomesType DEF IInv, Register, Speaks, Owns, Request
    <3> QED BY <1>1, <2>1, <3>1, <3>2, OneBecomes DEF IInv, Register, Request
  <2>2. CASE Disconnect(q)
    <3>1. [requests[q] EXCEPT !.open = FALSE] \in Request
      BY <1>1 DEF Request
    <3>2. Becomes(q, Closed(q)) => NoNewSpeakers
      BY ClosingIsQuiet DEF IInv
    <3>3. ASSUME Becomes(q, [requests[q] EXCEPT !.open = FALSE]) PROVE NoNewSpeakers
      <4>1. Speaks(q)' => Speaks(q)
        BY <1>1, <3>1, <3>3, BecomesType DEF IInv, Speaks, Owns, Request
      <4> QED BY <1>1, <3>1, <3>3, <4>1, OneBecomes DEF IInv, Request
    <3> QED BY <2>2, <3>2, <3>3 DEF Disconnect
  <2>3. CASE FailEarly(q) \/ AbortStart(q) \/ CloseStream(q)
    BY <2>3, ClosingIsQuiet DEF IInv, FailEarly, AbortStart, CloseStream
  <2>4. CASE ToolResult(q) \/ ToolCall(q)
    BY <2>4 DEF ToolResult, ToolCall, NoNewSpeakers, Keeps, Speaks, Owns
  <2>5. CASE Finish(q)
    <3>1. [requests[q] EXCEPT !.fin = "completing"] \in Request
      BY <1>1 DEF Request, Finals
    <3>2. Speaks(q) /\ requests[q].fin # "closing"
      BY <2>5 DEF Finish, Streams, Speaks, Owns
    <3> QED BY <1>1, <2>5, <3>1, <3>2, OneBecomes DEF IInv, Finish, Settling, Request
  <2> QED BY <2>1, <2>2, <2>3, <2>4, <2>5
<1>3. OutcomeStays
  <2>1. CASE FailEarly(q)
    BY <2>1 DEF IInv, TypeOK, FailEarly, OutcomeStays, Terminal, Row
  <2>2. CASE ~FailEarly(q)
    BY <2>2 DEF Register, AbortStart, ToolResult, ToolCall, Finish, CloseStream, Disconnect,
       OutcomeStays
  <2> QED BY <2>1, <2>2
<1>4. events' = events
  BY DEF Register, FailEarly, AbortStart, ToolResult, ToolCall, Finish, CloseStream,
     Disconnect
<1> QED BY <1>2, <1>3, <1>4, SilentStep

\* What is known of a request that speaks and has not come to its outcome: no outcome of
\* its run is logged, and nobody else speaks for the run.
LEMMA OutcomeOpen ==
  ASSUME IInv, Endings, NEW q \in Requests, Speaks(q), requests[q].fin # "closing"
  PROVE  /\ requests[q].run \in Runs
         /\ events[requests[q].run] \in Seq(Events)
         /\ OneOutcome(events[requests[q].run])
         /\ ~HasOutcome(events[requests[q].run])
         /\ \A p \in Requests \ {q} : requests[p].run = requests[q].run => ~Speaks(p)
  BY SpeakersAreSent
  DEF IInv, TypeOK, Endings, OutcomeIsSilent, OutcomeIsLoggedOnce, OneSpeaker

\* Entries while the outcome is open.
LEMMA OpenSteps ==
  ASSUME IInv, Endings, NEW q \in Requests,
         StartStream(q) \/ ResultFails(q) \/ \E c \in Calls : Interrupt(q, c)
  PROVE  Endings'
<1>1. /\ requests[q] \in Request /\ Owns(q) /\ requests[q].fin = "none"
  BY DEF IInv, TypeOK, StartStream, ResultFails, Interrupt, Streams, Owns
<1>2. Speaks(q)
  BY <1>1 DEF Speaks
<1> DEFINE r == requests[q].run
<1>3. /\ r \in Runs /\ events[r] \in Seq(Events) /\ OneOutcome(events[r])
      /\ ~HasOutcome(events[r])
      /\ \A p \in Requests \ {q} : requests[p].run = r => ~Speaks(p)
  BY <1>1, <1>2, OutcomeOpen
<1>4. PICK entry \in {"RUN_STARTED", "suspended", "RUN_ERROR"} : Emit(r, <<entry>>)
  BY DEF StartStream, ResultFails, Interrupt, SuspensionLog
<1>5. OneOutcome(events[r] \o <<entry>>) /\ ~HasOutcome(events[r] \o <<entry>>)
  BY <1>3, AppendOpen DEF Events, Outcomes
<1>6. /\ \A p \in Requests \ {q} : requests'[p] = requests[p]
      /\ requests'[q].run = r /\ requests'[q].fin # "closing"
  <2>1. /\ [requests[q] EXCEPT !.stage = "streaming"] \in Request
        /\ [requests[q] EXCEPT !.fin = "done"] \in Request
    BY <1>1 DEF Request, Stages, Finals
  <2>2. CASE StartStream(q)
    BY <1>1, <2>1, <2>2, BecomesType DEF IInv, StartStream, Request
  <2>3. CASE ResultFails(q)
    BY <1>1, <2>3 DEF ResultFails
  <2>4. CASE \E c \in Calls : Interrupt(q, c)
    BY <1>1, <2>1, <2>4, BecomesType DEF IInv, Interrupt, Settling, Request
  <2> QED BY <2>2, <2>3, <2>4
<1>7. \A x \in Runs \ {r} : runs'[x] = runs[x]
  BY DEF IInv, TypeOK, StartStream, ResultFails, Interrupt, Status
<1>8. \A p \in Requests \ {q} : requests'[p].run = r => requests'[p].fin # "closing"
  BY <1>3, <1>6 DEF Speaks
<1> HIDE DEF r
<1> QED BY <1>2, <1>3, <1>4, <1>5, <1>6, <1>7, <1>8, LogStep DEF IInv, r

\* The outcome while it is open: the row is written with it, and the request closes.
LEMMA OutcomeSteps ==
  ASSUME IInv, Endings, NEW q \in Requests,
         FinishDeclined(q) \/ FinalizeCompleted(q) \/ FinalizeCanceled(q)
  PROVE  Endings'
<1>1. /\ requests[q] \in Request /\ Owns(q)
      /\ requests[q].fin \in {"none", "completing", "cancelling"}
  BY DEF IInv, TypeOK, FinishDeclined, FinalizeCompleted, FinalizeCanceled, Streams, Owns
<1>2. Speaks(q) /\ requests[q].fin # "closing"
  BY <1>1 DEF Speaks
<1> DEFINE r == requests[q].run
<1>3. /\ r \in Runs /\ events[r] \in Seq(Events) /\ OneOutcome(events[r])
      /\ ~HasOutcome(events[r])
      /\ \A p \in Requests \ {q} : requests[p].run = r => ~Speaks(p)
  BY <1>2, OutcomeOpen
<1>4. PICK entry \in Done : Emit(r, <<entry>>) /\ Status(r, entry)
  BY DEF FinishDeclined, FinalizeCompleted, FinalizeCanceled, Done
<1>5. OneOutcome(events[r] \o <<entry>>) /\ Awaits(events[r] \o <<entry>>, {entry})
  BY <1>3, AppendOutcome DEF Outcomes, Done
<1>6. Awaits(events[r] \o <<entry>>, Done)
  BY <1>5 DEF Awaits
<1>7. /\ \A p \in Requests \ {q} : requests'[p] = requests[p]
      /\ requests'[q].run = r /\ requests'[q].fin = "closing"
  <2>1. [requests[q] EXCEPT !.fin = "closing"] \in Request
    BY <1>1 DEF Request, Finals
  <2>2. Becomes(q, [requests[q] EXCEPT !.fin = "closing"])
    BY DEF FinishDeclined, FinalizeCompleted, FinalizeCanceled, Settling
  <2> QED BY <1>1, <2>1, <2>2, BecomesType DEF IInv, Request
<1>8. /\ runs'[r].status \in Terminal
      /\ \A x \in Runs \ {r} : runs'[x] = runs[x]
  BY <1>3, <1>4 DEF IInv, TypeOK, Status, Row, Done, Terminal
<1> HIDE DEF r
<1> QED BY <1>2, <1>3, <1>4, <1>5, <1>6, <1>7, <1>8, LogStep DEF IInv, r

\* A list of two is logged one entry after the other.
LEMMA TwoEntries ==
  ASSUME NEW log \in Seq(Events), NEW a \in Events, NEW b \in Events
  PROVE  log \o <<a, b>> = (log \o <<a>>) \o <<b>>
<1>1. /\ log \o <<a, b>> \in Seq(Events) /\ (log \o <<a>>) \o <<b>> \in Seq(Events)
      /\ Len(log \o <<a, b>>) = Len(log) + 2 /\ Len((log \o <<a>>) \o <<b>>) = Len(log) + 2
  OBVIOUS
<1>2. ASSUME NEW i \in 1..(Len(log) + 2)
      PROVE  (log \o <<a, b>>)[i] = ((log \o <<a>>) \o <<b>>)[i]
  <2>1. CASE i <= Len(log)
    BY <2>1
  <2>2. CASE i = Len(log) + 1
    BY <2>2
  <2>3. CASE i = Len(log) + 2
    BY <2>3
  <2> QED BY <2>1, <2>2, <2>3
<1> QED BY <1>1, <1>2, SeqEqual

\* A failure: its outcome and its terminal event are logged at once, and the request is
\* done with the run.
LEMMA FailingSteps ==
  ASSUME IInv, Endings, NEW q \in Requests,
         RunError(q) \/ RunTimeout(q) \/ FinalizeFailed(q)
  PROVE  Endings'
<1>1. /\ requests[q] \in Request /\ Owns(q) /\ requests[q].fin \in {"none", "completing"}
  BY DEF IInv, TypeOK, RunError, RunTimeout, FailRun, FinalizeFailed, Streams, Owns
<1>2. Speaks(q) /\ requests[q].fin # "closing"
  BY <1>1 DEF Speaks
<1> DEFINE r == requests[q].run
           list == <<"failed", "RUN_ERROR">>
<1>3. /\ r \in Runs /\ events[r] \in Seq(Events) /\ OneOutcome(events[r])
      /\ ~HasOutcome(events[r])
      /\ \A p \in Requests \ {q} : requests[p].run = r => ~Speaks(p)
  BY <1>2, OutcomeOpen
<1>4. Emit(r, list) /\ Status(r, "failed")
  BY DEF RunError, RunTimeout, FailRun, FinalizeFailed
<1>5. OneOutcome(events[r] \o list)
  <2> DEFINE failed == events[r] \o <<"failed">>
  <2>1. failed \in Seq(Events) /\ OneOutcome(failed) /\ Awaits(failed, {"failed"})
    BY <1>3, AppendOutcome DEF Outcomes
  <2>2. events[r] \o list = failed \o <<"RUN_ERROR">>
    BY <1>3, TwoEntries DEF Events
  <2> HIDE DEF failed
  <2> QED BY <2>1, <2>2, AppendEnd DEF Ends, Outcomes
<1>6. /\ \A p \in Requests \ {q} : requests'[p] = requests[p]
      /\ requests'[q].run = r /\ requests'[q].fin = "done"
  <2>1. CASE FinalizeFailed(q)
    <3>1. [requests[q] EXCEPT !.fin = "done"] \in Request
      BY <1>1 DEF Request, Finals
    <3> QED BY <1>1, <2>1, <3>1, BecomesType DEF IInv, FinalizeFailed, Settling, Request
  <2>2. ASSUME NEW stage \in {"streaming", "ended"}, FailRun(q, stage)
        PROVE  /\ \A p \in Requests \ {q} : requests'[p] = requests[p]
               /\ requests'[q].run = r /\ requests'[q].fin = "done"
    <3>1. [requests[q] EXCEPT !.fin = "done", !.stage = stage,
                              !.open = (stage = "streaming")] \in Request
      BY <1>1 DEF Request, Stages, Finals
    <3>2. TypeOK /\ Becomes(q, [requests[q] EXCEPT !.fin = "done", !.stage = stage,
                                                   !.open = (stage = "streaming")])
      BY <2>2 DEF IInv, FailRun
    <3>3. /\ requests'[q] = [requests[q] EXCEPT !.fin = "done", !.stage = stage,
                                                !.open = (stage = "streaming")]
          /\ \A p \in Requests \ {q} : requests'[p] = requests[p]
      BY <3>1, <3>2, BecomesType
    <3> QED BY <1>1, <3>3 DEF Request
  <2> QED BY <2>1, <2>2 DEF RunError, RunTimeout
<1>7. ~Speaks(q)'
  BY <1>6 DEF Speaks
<1>8. /\ runs'[r].status \in Terminal
      /\ \A x \in Runs \ {r} : runs'[x] = runs[x]
  BY <1>3, <1>4 DEF IInv, TypeOK, Status, Row, Terminal
<1>9. \A p \in Requests : requests'[p].run = r => requests'[p].fin # "closing"
  BY <1>3, <1>6 DEF Speaks
<1> HIDE DEF r, list
<1> QED BY <1>2, <1>3, <1>4, <1>5, <1>6, <1>7, <1>8, <1>9, LogStep DEF IInv, r

\* The terminal event of a run that completed or was canceled.
LEMMA EmitTerminalEnds ==
  ASSUME IInv, Endings, NEW q \in Requests, EmitTerminal(q)
  PROVE  Endings'
<1>1. /\ requests[q] \in Request /\ Speaks(q) /\ requests[q].fin = "closing"
  BY DEF IInv, TypeOK, EmitTerminal, Speaks
<1> DEFINE r == requests[q].run
<1>2. /\ r \in Runs /\ events[r] \in Seq(Events) /\ OneOutcome(events[r])
      /\ Awaits(events[r], Done) /\ runs[r].status \in Terminal
  <2>1. r \in Runs
    BY <1>1, SpeakersAreSent
  <2>2. FinishedEvent(r)
    BY <1>1 DEF FinishedEvent
  <2> QED BY <1>1, <2>1, <2>2
          DEF IInv, TypeOK, FinishedIsSettled, Endings, ClosingAwaits, OutcomeIsLoggedOnce
<1>3. OneOutcome(events[r] \o <<"RUN_FINISHED">>)
  BY <1>2, AppendEnd DEF Ends, Outcomes, Done
<1>4. /\ \A p \in Requests \ {q} : requests'[p] = requests[p]
      /\ requests'[q].run = r /\ requests'[q].fin = "done"
  <2>1. [requests[q] EXCEPT !.fin = "done"] \in Request
    BY <1>1 DEF Request, Finals
  <2> QED BY <1>1, <2>1, BecomesType DEF IInv, EmitTerminal, Settling, Request
<1>5. ~Speaks(q)'
  BY <1>4 DEF Speaks
<1>6. \A p \in Requests \ {q} : requests[p].run = r => ~Speaks(p)
  BY <1>1 DEF Endings, OneSpeaker
<1>7. \A p \in Requests : requests'[p].run = r => requests'[p].fin # "closing"
  BY <1>4, <1>6 DEF Speaks
<1>8. Emit(r, <<"RUN_FINISHED">>) /\ runs' = runs
  BY DEF EmitTerminal
<1> HIDE DEF r
<1> QED BY <1>2, <1>3, <1>4, <1>5, <1>6, <1>7, <1>8, LogStep DEF IInv, r

\* What outlives the stream logs no outcome and no terminal event.
LEMMA BackgroundKeepsEndings ==
  ASSUME IInv, Endings, NEW q \in Requests, Background(q)
  PROVE  Endings'
<1>1. PICK entry \in LateEvents, task \in Tasks : Settles(q, task, entry)
  BY DEF Background, TitleSettles, ToolSettles, Tasks, LateEvents
<1>2. UNCHANGED <<runs, requests>>
  BY <1>1 DEF Settles
<1>3. CASE UNCHANGED events
  BY <1>2, <1>3, SilentStep DEF NoNewSpeakers, Keeps, Speaks, Owns, OutcomeStays
<1>4. CASE requests[q].run \in Runs /\ Emit(requests[q].run, <<entry>>)
  <2> DEFINE r == requests[q].run
  <2>1. r \in Runs /\ events[r] \in Seq(Events) /\ OneOutcome(events[r])
    BY <1>4 DEF IInv, TypeOK, Endings, OutcomeIsLoggedOnce
  <2>2. /\ OneOutcome(events[r] \o <<entry>>)
        /\ HasOutcome(events[r] \o <<entry>>) => HasOutcome(events[r])
        /\ Awaits(events[r], Done) => Awaits(events[r] \o <<entry>>, Done)
    BY <2>1, AppendLate
  <2>3. Speaks(q)' <=> Speaks(q)
    BY <1>2 DEF Speaks, Owns
  <2>4. HasOutcome(events[r]) =>
          /\ runs'[r].status \in Terminal
          /\ \A p \in Requests :
               Speaks(p) /\ requests[p].run = r => requests[p].fin = "closing"
    BY <1>2, <2>1 DEF Endings, OutcomeIsSettled, OutcomeIsSilent
  <2>5. \A p \in Requests : requests'[p].run = r /\ requests'[p].fin = "closing" =>
          Awaits(events[r] \o <<entry>>, Done)
    BY <1>2, <2>1, <2>2 DEF Endings, ClosingAwaits
  <2>6. Emit(r, <<entry>>)
    BY <1>4
  <2> HIDE DEF r
  <2> QED BY <1>2, <2>1, <2>2, <2>3, <2>4, <2>5, <2>6, LogStep DEF IInv, r
<1> QED BY <1>1, <1>3, <1>4, SettledTaskLogs

\* A cancel by handle: a request that has not begun to settle now has.
LEMMA CancelQuiet ==
  ASSUME IInv, Endings, NEW r \in Runs, NEW q \in Requests, CancelByHandle(r, q)
  PROVE  Endings'
<1>1. /\ requests[q] \in Request /\ requests[q].fin = "none"
      /\ requests[q].stage \in {"registered", "streaming"}
  BY DEF IInv, TypeOK, HandleOwnership, CancelByHandle
<1>2. [requests[q] EXCEPT !.fin = "cancelling",
         !.stage = IF @ = "streaming" THEN "ended" ELSE @] \in Request
  BY <1>1 DEF Request, Stages, Finals
<1>3. /\ requests'[q].run = requests[q].run /\ requests'[q].fin = "cancelling"
      /\ \A p \in Requests \ {q} : requests'[p] = requests[p]
  <2>1. /\ requests'[q] = [requests[q] EXCEPT !.fin = "cancelling",
                             !.stage = IF @ = "streaming" THEN "ended" ELSE @]
        /\ \A p \in Requests \ {q} : requests'[p] = requests[p]
    BY <1>2, BecomesType DEF IInv, CancelByHandle
  <2> QED BY <1>1, <2>1 DEF Request
<1>4. Speaks(q)
  BY <1>1 DEF Speaks, Owns
<1>5. NoNewSpeakers
  BY <1>1, <1>3, <1>4 DEF NoNewSpeakers, Keeps, Speaks, Owns
<1> QED BY <1>5, SilentStep DEF CancelByHandle, OutcomeStays

\* What others do: nobody begins to speak, and a settled row stays settled.
LEMMA OutsideQuiet ==
  ASSUME IInv, Endings, EndsAtOnce, OutcomeStays, UNCHANGED events
  PROVE  Endings'
<1>1. ASSUME NEW p \in Requests PROVE Keeps(p)
  <2>1. CASE requests'[p] = requests[p]
    BY <2>1 DEF Keeps, Speaks, Owns
  <2>2. CASE requests[p].stage = "unsent" /\ requests'[p].stage = "ended"
             /\ requests'[p].fin = "done"
    <3>1. requests[p].fin = "none"
      BY <2>2 DEF IInv, SentNamed, Unsent
    <3> QED BY <2>2, <3>1 DEF Keeps, Speaks, Owns
  <2> QED BY <2>1, <2>2 DEF EndsAtOnce
<1> QED BY <1>1, SilentStep DEF NoNewSpeakers

LEMMA EarlyFailureSettles ==
  ASSUME TypeOK, NEW table \in [Runs -> Row], NEW r \in Runs, NEW s \in Sessions,
         \A x \in Runs : runs[x].status \in Terminal => table[x].status \in Terminal,
         runs' = PersistEarlyFailed(table, r, s) \/ runs' = table
  PROVE  OutcomeStays
<1>1. /\ PersistEarlyFailed(table, r, s)[r].status = "failed"
      /\ \A x \in Runs \ {r} : PersistEarlyFailed(table, r, s)[x] = table[x]
  BY RowSettled
<1> QED BY <1>1 DEF OutcomeStays, Terminal

\* Requests that end at once.
LEMMA RefusedQuiet ==
  ASSUME IInv, Endings, NEW q \in Requests, NEW r, NEW s, NEW b, NEW c, NEW a,
         Named(r, s, c, a),
         RejectConfig(q, r, s, c, a) \/ Replay(q, r, s, b, c, a) \/ Refuse(q, r, s, b, c, a)
  PROVE  Endings'
<1>1. EndsAtOnce /\ events' = events
  BY EndedEndsAtOnce DEF IInv, RejectConfig, Replay, Refuse
<1>2. OutcomeStays
  <2>1. CASE RejectConfig(q, r, s, c, a)
    BY <2>1, EarlyFailureSettles DEF IInv, TypeOK, RejectConfig, Named
  <2>2. CASE Replay(q, r, s, b, c, a)
    BY <2>2 DEF Replay, OutcomeStays
  <2>3. CASE Refuse(q, r, s, b, c, a)
    <3> DEFINE table == IF ReclaimedByRefusal(r, s, c) = {} THEN runs ELSE AfterReclaim(r, s)
    <3>1. /\ table \in [Runs -> Row]
          /\ \A x \in Runs : runs[x].status \in Terminal => table[x].status \in Terminal
      BY ReclaimedRows, ReclaimSparesSettled DEF IInv, TypeOK, Named
    <3>2. runs' = PersistEarlyFailed(table, r, s) \/ runs' = table
      BY <2>3 DEF Refuse
    <3> HIDE DEF table
    <3> QED BY <3>1, <3>2, EarlyFailureSettles DEF IInv, Named
  <2> QED BY <2>1, <2>2, <2>3
<1> QED BY <1>1, <1>2, OutsideQuiet

\* A request that begins speaks for a run for which nobody speaks and that has no outcome.
LEMMA BeginQuiet ==
  ASSUME IInv, Endings, NEW q \in Requests, NEW r \in Runs, NEW s \in Sessions,
         BeginsOwning(q, r, s), runs[r].status \in {"absent", "suspended"},
         \A x \in Runs \ {r} : runs'[x] = AfterReclaim(r, s)[x], UNCHANGED events
  PROVE  Endings'
<1>1. ~HasOutcome(events[r])
  BY DEF Endings, OutcomeIsSettled, Terminal
<1>2. \A p \in Requests : requests[p].run = r => ~Speaks(p)
  <2>1. \A p \in Requests : Owns(p) => requests[p].run # r
    BY DEF IInv, OwnedRows
  <2>2. ASSUME NEW p \in Requests, requests[p].run = r, requests[p].fin = "closing"
        PROVE  FALSE
    <3>1. FinishedEvent(r)
      BY <2>2 DEF FinishedEvent
    <3> QED BY <3>1 DEF IInv, FinishedIsSettled, Terminal
  <2> QED BY <2>1, <2>2 DEF Speaks
<1>3. \A p \in Requests \ {q} :
        requests'[p] = requests[p] /\ (Speaks(p)' => Speaks(p))
  BY DEF BeginsOwning, Speaks, Owns
<1>4. requests'[q].run = r /\ requests'[q].fin = "none"
  BY DEF BeginsOwning
<1>5. OneSpeaker'
  BY <1>2, <1>3, <1>4 DEF Endings, OneSpeaker
<1>6. OutcomeIsSilent' /\ ClosingAwaits'
  BY <1>1, <1>3, <1>4 DEF Endings, OutcomeIsSilent, ClosingAwaits
<1>7. OutcomeIsSettled'
  BY <1>1, ReclaimSparesSettled DEF IInv, Endings, OutcomeIsSettled
<1>8. OutcomeIsLoggedOnce'
  BY DEF Endings, OutcomeIsLoggedOnce
<1> QED BY <1>5, <1>6, <1>7, <1>8 DEF Endings

LEMMA ClaimQuiet ==
  ASSUME IInv, Endings, NEW q \in Requests, NEW r \in Runs, NEW s \in Sessions,
         \/ \E b \in Bodies : Claim(q, r, s, b)
         \/ \E c \in Calls, a \in Answers : Resume(q, r, s, c, a)
  PROVE  Endings'
<1>1. AfterReclaim(r, s) \in [Runs -> Row]
  BY ReclaimedRows DEF IInv
<1>2. ASSUME NEW b \in Bodies, Claim(q, r, s, b) PROVE Endings'
  <2>1. BeginsOwning(q, r, s)
    BY <1>2, BeginsType DEF IInv, Claim, Named
  <2>2. \A x \in Runs \ {r} : runs'[x] = AfterReclaim(r, s)[x]
    BY <1>1, <1>2 DEF Claim
  <2> QED BY <1>2, <2>1, <2>2, BeginQuiet DEF Claim
<1>3. ASSUME NEW c \in Calls, NEW a \in Answers, Resume(q, r, s, c, a) PROVE Endings'
  <2>1. BeginsOwning(q, r, s)
    BY <1>3, BeginsType, NoneAssumption DEF IInv, Resume, Named
  <2>2. \A x \in Runs \ {r} : runs'[x] = AfterReclaim(r, s)[x]
    BY <1>1, <1>3 DEF Resume, ResumedRows
  <2> QED BY <1>3, <2>1, <2>2, BeginQuiet DEF Resume, Resumes
<1> QED BY <1>2, <1>3

LEMMA SubmitQuiet ==
  ASSUME IInv, Endings, NEW q \in Requests, Submit(q)
  PROVE  Endings'
<1> PICK r \in Runs, s \in Sessions :
      \/ SubmitNew(q, r, s)
      \/ \E c \in Calls, a \in Answers : SubmitResume(q, r, s, c, a)
  BY DEF Submit
<1>1. CASE SubmitNew(q, r, s)
  <2>1. Named(r, s, None, None)
    BY DEF Named
  <2> QED BY <1>1, <2>1, RefusedQuiet, ClaimQuiet DEF SubmitNew
<1>2. CASE \E c \in Calls, a \in Answers : SubmitResume(q, r, s, c, a)
  <2> PICK c \in Calls, a \in Answers : SubmitResume(q, r, s, c, a)
    BY <1>2
  <2>1. Named(r, s, c, a)
    BY NoneAssumption DEF Named, Answers
  <2> QED BY <2>1, RefusedQuiet, ClaimQuiet DEF SubmitResume
<1> QED BY <1>1, <1>2

LEMMA CrashQuiet ==
  ASSUME IInv, Endings, Crash
  PROVE  Endings'
<1>1. \A p \in Requests : requests'[p] = AfterCrash(p)
  BY DEF Crash
<1>2. \A p \in Requests : requests'[p].fin # "closing" /\ ~Speaks(p)'
  <2> SUFFICES ASSUME NEW p \in Requests PROVE requests'[p].fin # "closing" /\ ~Speaks(p)'
    OBVIOUS
  <2>1. requests[p] \in Request
    BY DEF IInv, TypeOK
  <2>2. CASE requests[p].stage = "unsent"
    <3>1. requests[p] = Unsent
      BY <2>2 DEF IInv, SentNamed
    <3>2. requests'[p] = Unsent
      <4>1. AfterCrash(p) = requests[p]
        BY <2>2 DEF AfterCrash
      <4> QED BY <1>1, <3>1, <4>1
    <3>3. Unsent.stage = "unsent" /\ Unsent.fin = "none"
      BY DEF Unsent
    <3> QED BY <3>2, <3>3 DEF Speaks, Owns
  <2>3. CASE requests[p].stage # "unsent"
    <3>1. AfterCrash(p).fin = "done"
      BY <2>1, <2>3 DEF AfterCrash, Request
    <3>2. requests'[p].fin = "done"
      BY <1>1, <3>1
    <3> QED BY <3>2 DEF Speaks
  <2> QED BY <2>2, <2>3
<1>3. OneSpeaker' /\ OutcomeIsSilent' /\ ClosingAwaits'
  BY <1>2 DEF OneSpeaker, OutcomeIsSilent, ClosingAwaits
<1>4. OutcomeIsSettled' /\ OutcomeIsLoggedOnce'
  BY DEF Crash, Endings, OutcomeIsSettled, OutcomeIsLoggedOnce
<1> QED BY <1>3, <1>4 DEF Endings

LEMMA NextEndings ==
  ASSUME IInv, Endings, [Next]_vars
  PROVE  Endings'
<1>1. ASSUME NEW q \in Requests, Prepare(q) \/ Disconnect(q) PROVE Endings'
  BY <1>1, QuietSteps, OpenSteps DEF Prepare
<1>2. ASSUME NEW q \in Requests, Stream(q) PROVE Endings'
  BY <1>2, QuietSteps, OpenSteps, OutcomeSteps, FailingSteps DEF Stream
<1>3. ASSUME NEW q \in Requests, Finalize(q) PROVE Endings'
  BY <1>3, OutcomeSteps, FailingSteps, EmitTerminalEnds DEF Finalize
<1>4. ASSUME NEW r \in Runs, CancelPersistedOnly(r) PROVE Endings'
  <2>1. EndsAtOnce /\ OutcomeStays
    BY <1>4 DEF IInv, TypeOK, CancelPersistedOnly, Status, EndsAtOnce, OutcomeStays, Terminal,
       Row
  <2> QED BY <1>4, <2>1, OutsideQuiet DEF CancelPersistedOnly
<1>5. CASE Restart
  <2>1. EndsAtOnce /\ OutcomeStays
    BY <1>5 DEF IInv, TypeOK, Restart, EndsAtOnce, OutcomeStays, Terminal, Row
  <2> QED BY <1>5, <2>1, OutsideQuiet DEF Restart
<1>6. CASE UNCHANGED vars
  BY <1>6, OutsideQuiet DEF vars, EndsAtOnce, OutcomeStays
<1> QED BY <1>1, <1>2, <1>3, <1>4, <1>5, <1>6, SubmitQuiet, CancelQuiet, CrashQuiet,
           BackgroundKeepsEndings DEF Next

\* Whatever ends a run first and whoever else is at work on it, its log tells one outcome;
\* after that only its terminal event follows, once, and what outlives the stream logs.
THEOREM OutcomesAreLoggedOnce == Spec => []OutcomeIsLoggedOnce
<1>1. Init => Endings
  <2>1. ASSUME Init, NEW r \in Runs PROVE events[r] = <<>>
    BY <2>1 DEF Init
  <2>2. ASSUME Init, NEW q \in Requests PROVE ~Speaks(q) /\ requests[q].fin = "none"
    BY <2>2 DEF Init, Unsent, Speaks, Owns
  <2>3. Init => OneSpeaker /\ OutcomeIsSilent /\ ClosingAwaits
    BY <2>2 DEF OneSpeaker, OutcomeIsSilent, ClosingAwaits
  <2>4. Init => OutcomeIsSettled /\ OutcomeIsLoggedOnce
    BY <2>1 DEF OutcomeIsSettled, OutcomeIsLoggedOnce, HasOutcome, OneOutcome
  <2> QED BY <2>3, <2>4 DEF Endings
<1>2. IInv /\ Endings /\ [Next]_vars => Endings'
  BY NextEndings
<1>3. Endings => OutcomeIsLoggedOnce
  BY DEF Endings
<1> QED BY <1>1, <1>2, <1>3, Invariance, PTL DEF Spec

-----------------------------------------------------------------------------
(* What CancelSettles leaves to fairness: a cancel taken by a handle is put *)
(* aside by nothing but the write of the row or the end of the process.     *)

CancelsLand ==
  [][\A q \in Requests :
       requests[q].fin = "cancelling" /\ requests'[q].fin # "cancelling"
       => runs'[requests[q].run].status = "canceled" \/ ~up']_vars

\* What the coroutine itself does to a cancel under way.
LEMMA OwnStepsKeepCancel ==
  ASSUME TypeOK, NEW q \in Requests, requests[q].fin = "cancelling",
         \/ Prepare(q) \/ Stream(q) \/ Disconnect(q) \/ Background(q)
         \/ FinalizeFailed(q) \/ FinalizeCompleted(q) \/ EmitTerminal(q)
  PROVE  requests'[q].fin = "cancelling"
<1>1. ~Streams(q) /\ ~StartStream(q) /\ ~FinalizeFailed(q) /\ ~FinalizeCompleted(q)
      /\ ~EmitTerminal(q)
  BY DEF Streams, StartStream, FinalizeFailed, FinalizeCompleted, EmitTerminal
<1>2. Closed(q).fin = "cancelling"
  BY DEF TypeOK, Request, Closed
<1>3. CASE Register(q)
  BY <1>3 DEF TypeOK, Request, Register, Becomes
<1>4. CASE FailEarly(q) \/ AbortStart(q) \/ CloseStream(q)
  BY <1>2, <1>4 DEF TypeOK, FailEarly, AbortStart, CloseStream, Becomes
<1>5. CASE Disconnect(q)
  BY <1>2, <1>5 DEF TypeOK, Request, Disconnect, Becomes
<1> QED BY <1>1, <1>3, <1>4, <1>5
        DEF Prepare, Stream, ToolResult, ResultFails, ToolCall, Finish, FinishDeclined, RunError,
            RunTimeout, FailRun, Interrupt, Background, TitleSettles, ToolSettles, Settles

\* What the other requests do to it, and an arrival is never this one.
LEMMA OthersKeepCancel ==
  ASSUME IInv, NEW q \in Requests, requests[q].fin = "cancelling", NEW p \in Requests,
         \/ Submit(p)
         \/ p # q /\ (Prepare(p) \/ Stream(p) \/ Finalize(p) \/ Disconnect(p)
                         \/ Background(p))
  PROVE  requests'[q].fin = "cancelling"
<1>1. CASE Submit(p)
  <2>1. PICK r, s, b, c, a :
          \/ RejectConfig(p, r, s, c, a) \/ Replay(p, r, s, b, c, a)
          \/ Refuse(p, r, s, b, c, a) \/ Claim(p, r, s, b) \/ Resume(p, r, s, c, a)
    <3>1. PICK r \in Runs, s \in Sessions :
            SubmitNew(p, r, s) \/ \E c \in Calls, a \in Answers : SubmitResume(p, r, s, c, a)
      BY <1>1 DEF Submit
    <3>2. CASE SubmitNew(p, r, s)
      BY <3>2 DEF SubmitNew
    <3>3. ASSUME NEW c \in Calls, NEW a \in Answers, SubmitResume(p, r, s, c, a)
          PROVE  \E b : \/ RejectConfig(p, r, s, c, a) \/ Replay(p, r, s, b, c, a)
                        \/ Refuse(p, r, s, b, c, a) \/ Resume(p, r, s, c, a)
      BY <3>3 DEF SubmitResume
    <3> QED BY <3>1, <3>2, <3>3
  <2>2. p # q
    <3>1. requests[p].stage = "unsent"
      BY <2>1 DEF RejectConfig, Replay, Refuse, Claim, Resume, Arrives
    <3> QED BY <3>1 DEF IInv, SentNamed, Unsent
  <2>3. \E x : requests' = [requests EXCEPT ![p] = x]
    BY <2>1 DEF RejectConfig, Replay, Refuse, Claim, Resume, Ended, Begins, Becomes
  <2> QED BY <2>2, <2>3 DEF IInv, TypeOK
<1>2. CASE p # q /\ (Prepare(p) \/ Stream(p) \/ Finalize(p) \/ Disconnect(p)
                      \/ Background(p))
  <2>1. requests' = requests \/ \E x : requests' = [requests EXCEPT ![p] = x]
    <3>1. CASE Prepare(p) \/ Disconnect(p)
      BY <3>1 DEF Prepare, Register, FailEarly, StartStream, AbortStart, Disconnect, Becomes
    <3>2. CASE Stream(p)
      BY <3>2 DEF Stream, ToolResult, ResultFails, ToolCall, Finish, FinishDeclined, RunError, RunTimeout, FailRun,
                  CloseStream, Interrupt, Settling, Becomes
    <3>3. CASE Finalize(p)
      BY <3>3 DEF Finalize, FinalizeFailed, FinalizeCompleted, FinalizeCanceled, EmitTerminal,
                  Settling, Becomes
    <3>4. CASE Background(p)
      BY <3>4 DEF Background, TitleSettles, ToolSettles, Settles
    <3> QED BY <1>2, <3>1, <3>2, <3>3, <3>4
  <2> QED BY <1>2, <2>1 DEF IInv, TypeOK
<1> QED BY <1>1, <1>2

LEMMA CancelStep ==
  ASSUME IInv, [Next]_vars, NEW q \in Requests,
         requests[q].fin = "cancelling", requests'[q].fin # "cancelling"
  PROVE  runs'[requests[q].run].status = "canceled" \/ ~up'
<1>1. ASSUME NEW p \in Requests,
             \/ Submit(p) \/ Prepare(p) \/ Stream(p) \/ Finalize(p) \/ Disconnect(p)
             \/ Background(p)
      PROVE  runs'[requests[q].run].status = "canceled"
  <2>1. p = q /\ FinalizeCanceled(q)
    BY <1>1, OwnStepsKeepCancel, OthersKeepCancel DEF IInv, Finalize
  <2>2. requests[q].run \in Runs
    BY DEF IInv, SentNamed, Unsent
  <2> QED BY <2>1, <2>2 DEF IInv, TypeOK, FinalizeCanceled, Status, Row
<1>2. ASSUME NEW r \in Runs, NEW p \in Requests, CancelByHandle(r, p) PROVE FALSE
  BY <1>2 DEF IInv, TypeOK, Request, CancelByHandle, Becomes
<1>3. CASE Crash
  BY <1>3 DEF Crash
<1> QED BY <1>1, <1>2, <1>3 DEF Next, CancelPersistedOnly, Restart, vars

\* A cancel that the handle of a live run has taken is settled by no timeout, disconnect,
\* failed start, late event or other request: the row is written "canceled", unless the
\* process ends first and leaves it to the reclaim.
THEOREM CancelsAreNotDropped == Spec => CancelsLand
<1>1. IInv /\ [Next]_vars =>
        [\A q \in Requests :
           requests[q].fin = "cancelling" /\ requests'[q].fin # "cancelling"
           => runs'[requests[q].run].status = "canceled" \/ ~up']_vars
  BY CancelStep
<1> QED BY <1>1, Invariance, PTL DEF Spec, CancelsLand
=============================================================================
