-------------------------- MODULE AsyncModesProofs --------------------------
(***************************************************************************)
(* Theorems about the client as its default constructor configures it,     *)
(* with one line and 0 ms: those of AsyncDeliveryProofs, of which it is    *)
(* an instance.                                                            *)
(***************************************************************************)
EXTENDS AsyncModes, TLAPS

Serial == INSTANCE AsyncDeliveryProofs WITH window_max_lines <- 1, window_max_ms <- 0

-----------------------------------------------------------------------------
(* The instance is the default client *)

LEMMA Configured == Serial!ConfigAssumption /\ Serial!NoBatching /\ Serial!OneThread
  BY ModesAssumption DEF Serial!ConfigAssumption, Serial!NoBatching, Serial!OneThread

LEMMA SameParts ==
  /\ Single!NoBatching = Serial!NoBatching
  /\ Single!CountLimit = Serial!CountLimit
  /\ Single!WindowLoop = Serial!WindowLoop
  /\ Single!StartedReads = Serial!StartedReads
  /\ Single!EntryReads = Serial!EntryReads
  /\ Single!Requested = Serial!Requested
  /\ Single!Applied = Serial!Applied
  /\ Single!vars = Serial!vars
  BY DEF Single!NoBatching, Serial!NoBatching, Single!CountLimit, Serial!CountLimit,
     Single!WindowLoop, Serial!WindowLoop, Single!StartedReads, Serial!StartedReads,
     Single!EntryReads, Serial!EntryReads, Single!Requested, Serial!Requested,
     Single!Applied, Serial!Applied, Single!vars, Serial!vars,
     Single!lineVars, Serial!lineVars, Single!wireVars, Serial!wireVars,
     Single!lifeVars, Serial!lifeVars

LEMMA SameLines ==
  ASSUME Single!insert \/ Single!TakeLine \/ Single!WindowExpires
  PROVE  Serial!insert \/ Serial!TakeLine \/ Serial!WindowExpires
  BY DEF Single!insert, Serial!insert, Single!TakeLine, Serial!TakeLine,
     Single!WindowExpires, Serial!WindowExpires, Single!CloseWindow, Serial!CloseWindow,
     Single!WindowFull, Serial!WindowFull, Single!CountLimit, Serial!CountLimit,
     Single!Busy, Serial!Busy, Single!Running, Serial!Running,
     Single!LoopOf, Serial!LoopOf, Single!NoBatching, Serial!NoBatching,
     Single!WindowLoop, Serial!WindowLoop,
     Single!lineVars, Serial!lineVars, Single!wireVars, Serial!wireVars,
     Single!lifeVars, Serial!lifeVars

LEMMA SameCallback ==
  ASSUME NEW b, Single!Callback(b)
  PROVE  Serial!Callback(b)
<1> USE SameParts
    DEF Single!Goto, Serial!Goto, Single!Publish, Serial!Publish, Single!Lines, Serial!Lines,
        Single!lineVars, Serial!lineVars, Single!wireVars, Serial!wireVars,
        Single!lifeVars, Serial!lifeVars
<1>0. \A s : Single!Rethrow(s) = Serial!Rethrow(s)
  BY DEF Single!Rethrow, Serial!Rethrow
<1>1. Single!RunBatch(b) => Serial!RunBatch(b)
  BY DEF Single!RunBatch, Serial!RunBatch, Single!MyTurn, Serial!MyTurn, Single!Enter, Serial!Enter,
     Single!Finished, Serial!Finished, Single!Over, Serial!Over
<1>2. Single!InsertReturns(b) => Serial!InsertReturns(b)
  BY DEF Single!InsertReturns, Serial!InsertReturns
<1>3. Single!InsertThrows(b) => Serial!InsertThrows(b)
  BY <1>0 DEF Single!InsertThrows, Serial!InsertThrows
<1>4. Single!EmitSuccess(b) => Serial!EmitSuccess(b)
  BY DEF Single!EmitSuccess, Serial!EmitSuccess
<1>5. Single!EmitFailure(b) => Serial!EmitFailure(b)
  BY <1>0 DEF Single!EmitFailure, Serial!EmitFailure
<1>6. Single!EmitError(b) => Serial!EmitError(b)
  BY DEF Single!EmitError, Serial!EmitError
<1>7. Single!InsertBegins(b) => Serial!InsertBegins(b)
  BY DEF Single!InsertBegins, Serial!InsertBegins
<1> QED
  BY <1>1, <1>2, <1>3, <1>4, <1>5, <1>6, <1>7 DEF Single!Callback, Serial!Callback

LEMMA SameServer ==
  ASSUME NEW b, Single!ServerApplies(b)
  PROVE  Serial!ServerApplies(b)
  BY SameParts DEF Single!ServerApplies, Serial!ServerApplies,
     Single!lineVars, Serial!lineVars, Single!lifeVars, Serial!lifeVars

LEMMA SameDestructor ==
  ASSUME Single!StopAccepting \/ Single!UnsubscribeListener \/ Single!DestroyMembers
  PROVE  Serial!StopAccepting \/ Serial!UnsubscribeListener \/ Serial!DestroyMembers
  BY DEF Single!StopAccepting, Serial!StopAccepting,
     Single!UnsubscribeListener, Serial!UnsubscribeListener,
     Single!DestroyMembers, Serial!DestroyMembers, Single!Finished, Serial!Finished,
     Single!Over, Serial!Over, Single!lineVars, Serial!lineVars, Single!wireVars, Serial!wireVars

LEMMA SameNext == Single!Next => Serial!Next
  BY SameLines, SameCallback, SameServer, SameDestructor DEF Single!Next, Serial!Next

LEMMA SameInit == Single!Init => Serial!Init
  BY DEF Single!Init, Serial!Init

\* The mode is chosen at the start: a client without batching is the instance.
LEMMA ModeSpec == Spec => [](~(mode = "single")) \/ ([](mode = "single") /\ Serial!Spec)
<1>1. Init => ~(mode = "single") \/ (mode = "single" /\ Serial!Init)
  BY SameInit DEF Init
<1>2. mode = "single" /\ [Next]_vars => (mode = "single")' /\ [Serial!Next]_(Serial!vars)
  <2> SUFFICES ASSUME mode = "single", [Next]_vars
               PROVE  (mode = "single")' /\ [Serial!Next]_(Serial!vars)
    OBVIOUS
  <2>1. CASE Next
    BY <2>1, SameNext DEF Next
  <2>2. CASE UNCHANGED vars
    <3>1. UNCHANGED <<mode, accepted, taken, cut, idle, batches, requests, database, events,
                      started, listening, dtor>>
      BY <2>2 DEF vars, Single!vars, Single!lineVars, Single!wireVars, Single!lifeVars
    <3> QED
      BY <3>1 DEF Serial!vars, Serial!lineVars, Serial!wireVars, Serial!lifeVars
  <2> QED
    BY <2>1, <2>2
<1>3. ~(mode = "single") /\ [Next]_vars => ~(mode = "single")'
  BY DEF Next, vars
<1> QED
  BY <1>1, <1>2, <1>3, PTL DEF Spec, Serial!Spec

-----------------------------------------------------------------------------
(* The default client *)

\* It runs one callback at a time, with its request and with its events.
THEOREM DefaultIsSerial == Spec => []SerialWithoutBatching
<1>1. Serial!Spec => []Serial!SerialCallbacks
  BY Configured, Serial!CallbacksAreSerial, PTL
<1>2. Serial!SerialCallbacks => SerialWithoutBatching
  BY DEF Serial!SerialCallbacks, SerialWithoutBatching, Single!SerialCallbacks,
     Single!Running, Serial!Running
<1>3. ~(mode = "single") => SerialWithoutBatching
  BY DEF SerialWithoutBatching
<1> QED
  BY <1>1, <1>2, <1>3, ModeSpec, PTL

\* What the server acknowledged is written in the order of the inserts.
THEOREM DefaultIsInOrder == Spec => []InOrderWithoutBatching
<1>1. Serial!Spec => []Serial!AckedInOrder
  BY Configured, Serial!InsertOrder, PTL
<1>2. Serial!AckedInOrder => InOrderWithoutBatching
  BY DEF Serial!AckedInOrder, InOrderWithoutBatching, Single!AckedInOrder,
     Serial!Acknowledged, Single!Acknowledged
<1>3. ~(mode = "single") => InOrderWithoutBatching
  BY DEF InOrderWithoutBatching
<1> QED
  BY <1>1, <1>2, <1>3, ModeSpec, PTL

\* The events count its requests.
THEOREM DefaultHasOneEvent == Spec => []OneEventWithoutBatching
<1>1. Serial!Spec => []Serial!OneEventPerRequest
  BY Configured, Serial!OneEvent, PTL
<1>2. Serial!OneEventPerRequest => OneEventWithoutBatching
  BY DEF Serial!OneEventPerRequest, OneEventWithoutBatching, Single!OneEventPerRequest
<1>3. ~(mode = "single") => OneEventWithoutBatching
  BY DEF OneEventWithoutBatching
<1> QED
  BY <1>1, <1>2, <1>3, ModeSpec, PTL

=============================================================================
