------------------------ MODULE AsyncDeliveryProofs ------------------------
(***************************************************************************)
(* What the asynchronous client promises as a whole.  On one thread, and   *)
(* so in the client without batching, callbacks run one at a time and in   *)
(* the order of the inserts; in every configuration each step is one of    *)
(* Delivery or none.  (That every line is sooner or later reported is the  *)
(* fairness of Delivery, which is only model-checked.)                     *)
(***************************************************************************)
EXTENDS AsyncDelivery, AsyncDbProofs

USE DEF lineVars, wireVars, lifeVars

-----------------------------------------------------------------------------
(* The client with one thread *)

\* Without batching every callback has the listener's thread.
OneThread == NoBatching \/ NLoops = 1

\* The thread all batches have in that case.
LoopInv == \A b \in DOMAIN batches : batches[b].loop = WindowLoop

LEMMA LoopOfOneThread ==
  ASSUME OneThread, NEW k \in Nat
  PROVE  LoopOf(k) = WindowLoop
<1>1. CASE NoBatching
  BY <1>1 DEF LoopOf
<1>2. CASE NLoops = 1
  <2>1. LoopOf(k) \in 0 .. 0 /\ WindowLoop \in 0 .. 0
    BY <1>2, LoopType, ConfigAssumption DEF WindowLoop, Loops
  <2> QED
    BY <2>1
<1> QED
  BY <1>1, <1>2 DEF OneThread

LEMMA LoopHolds ==
  ASSUME OneThread
  PROVE  Spec => []LoopInv
<1>1. Init => LoopInv
  BY DEF Init, LoopInv
<1>2. Inv /\ LoopInv /\ [Next]_vars => LoopInv'
  <2> SUFFICES ASSUME Inv, LoopInv, [Next]_vars PROVE LoopInv'
    OBVIOUS
  <2>1. CASE TakeLine \/ WindowExpires
    <3>1. DOMAIN batches' \subseteq Nat
      <4>1. batches' \in Seq(Batch)
        BY InvStep DEF Inv, TypeOK
      <4> QED
        BY <4>1
    <3>2. /\ \A b \in DOMAIN batches : batches'[b] = batches[b]
          /\ \A b \in DOMAIN batches' \ DOMAIN batches : batches'[b].loop = LoopOf(b)
      BY <2>1, WindowStep
    <3> QED
      BY <3>1, <3>2, LoopOfOneThread DEF LoopInv
  <2>2. ASSUME NEW c \in DOMAIN batches, Callback(c) PROVE LoopInv'
    <3>1. PICK pc \in Stages : Goto(c, pc)
      BY <2>2, CallbackStep
    <3>2. /\ DOMAIN batches' = DOMAIN batches
          /\ \A a \in DOMAIN batches : batches'[a].loop = batches[a].loop
      BY <3>1, GotoBatches DEF Inv, TypeOK
    <3> QED
      BY <3>2 DEF LoopInv
  <2>3. insert \/ (\E b \in DOMAIN batches : ServerApplies(b))
          \/ StopAccepting \/ UnsubscribeListener \/ DestroyMembers \/ UNCHANGED vars
        => UNCHANGED batches
    BY DEF insert, ServerApplies, StopAccepting, UnsubscribeListener, DestroyMembers, vars
  <2> QED
    BY <2>1, <2>2, <2>3 DEF Next, LoopInv
<1> QED
  BY <1>1, <1>2, InvHolds, PTL DEF Spec

\* The default client runs one callback at a time, with its request and with its
\* events.
THEOREM CallbacksAreSerial ==
  ASSUME OneThread
  PROVE  Spec => []SerialCallbacks
<1>1. Inv /\ TurnInv /\ LoopInv => SerialCallbacks
  <2> SUFFICES ASSUME Inv, TurnInv, LoopInv, NEW a \in DOMAIN batches, NEW b \in DOMAIN batches,
                      {batches[a].pc, batches[b].pc} \subseteq Running
               PROVE  a = b
    BY DEF SerialCallbacks
  <2>1. batches[a].loop = batches[b].loop
    BY DEF LoopInv
  <2> QED
    BY <2>1, OneRunsPerThread
<1> QED
  BY <1>1, InvHolds, TurnHolds, LoopHolds, PTL

-----------------------------------------------------------------------------
(* Without batching, one event for each request *)

\* Nothing is thrown again, so no callback gets to its error handler.
LEMMA NeverRethrown ==
  ASSUME NoBatching, Inv, NEW b \in DOMAIN batches, Callback(b), batches[b].pc # "error"
  PROVE  \E pc \in Stages \ {"error"} : Goto(b, pc)
<1>1. CASE RunBatch(b)
  <2>1. PICK s \in EntryReads : Goto(b, Enter(s, Lines(b)))
    BY <1>1 DEF RunBatch
  <2>2. Enter(s, Lines(b)) \in Stages \ {"error"}
    BY DEF Enter, Stages, Running, Over
  <2> QED
    BY <2>1, <2>2
<1>2. CASE InsertReturns(b) \/ InsertThrows(b) \/ EmitSuccess(b) \/ EmitFailure(b)
  <2>1. \E pc \in {"success", "failure", "done"} : Goto(b, pc)
    BY <1>2 DEF InsertReturns, InsertThrows, EmitSuccess, EmitFailure, Rethrow
  <2> QED
    BY <2>1 DEF Stages, Running, Over
<1>3. CASE InsertBegins(b)
  BY <1>3 DEF InsertBegins, Stages, Running
<1> QED
  BY <1>1, <1>2, <1>3 DEF Callback, EmitError

\* An event ends the callback that publishes it.
OneEventInv ==
  /\ \A b \in DOMAIN batches : batches[b].pc # "error"
  /\ OneEventPerRequest

LEMMA OneEventStep ==
  ASSUME NoBatching, Inv, EventInv, OneEventInv, [Next]_vars
  PROVE  OneEventInv'
<1>1. CASE TakeLine \/ WindowExpires
  <2>1. /\ \A b \in DOMAIN batches : batches'[b] = batches[b]
        /\ \A b \in DOMAIN batches' \ DOMAIN batches : batches'[b].pc = "queued"
        /\ events' = events
    BY <1>1, WindowStep
  <2> QED
    BY <2>1 DEF OneEventInv, OneEventPerRequest
<1>2. ASSUME NEW b \in DOMAIN batches, Callback(b) PROVE OneEventInv'
  <2>1. PICK pc \in Stages \ {"error"} : Goto(b, pc)
    BY <1>2, NeverRethrown DEF OneEventInv
  <2>2. /\ DOMAIN batches' = DOMAIN batches
        /\ \A a \in DOMAIN batches : batches'[a].pc = IF a = b THEN pc ELSE batches[a].pc
    BY <2>1, GotoBatches DEF Inv, TypeOK
  <2>3. \A a \in DOMAIN batches' : batches'[a].pc # "error"
    BY <2>2 DEF OneEventInv
  <2>4. CASE events' = events
    BY <2>3, <2>4 DEF OneEventInv, OneEventPerRequest
  <2>5. ASSUME NEW ok, NEW n, batches[b].pc \in {"success", "failure", "error"}, Publish(b, ok, n)
        PROVE  OneEventPerRequest'
    <3>1. \A i \in DOMAIN events : events[i].batch # b
      BY <2>5 DEF EventInv, OneEventInv
    <3> DEFINE k == Len(events) + 1
    <3>2. /\ DOMAIN events' = DOMAIN events \union {k}
          /\ \A i \in DOMAIN events : events'[i] = events[i]
          /\ events'[k].batch = b
      BY <2>5, PublishEvent
    <3> HIDE DEF k
    <3> QED
      BY <3>1, <3>2 DEF OneEventInv, OneEventPerRequest
  <2>6. \/ events' = events
        \/ /\ batches[b].pc \in {"success", "failure", "error"}
           /\ \E ok \in BOOLEAN, n \in Nat : Publish(b, ok, n)
    BY <1>2, EventStep, LinesType
  <2> QED
    BY <2>3, <2>4, <2>5, <2>6 DEF OneEventInv
<1>3. insert \/ (\E b \in DOMAIN batches : ServerApplies(b))
        \/ StopAccepting \/ UnsubscribeListener \/ DestroyMembers \/ UNCHANGED vars
      => UNCHANGED <<batches, events>>
  BY DEF insert, ServerApplies, StopAccepting, UnsubscribeListener, DestroyMembers, vars
<1> QED
  BY <1>1, <1>2, <1>3 DEF Next, OneEventInv, OneEventPerRequest

\* Without batching the events count the requests: a failed request is not
\* reported a second time by an error handler.
THEOREM OneEvent ==
  ASSUME NoBatching
  PROVE  Spec => []OneEventPerRequest
<1>1. Init => OneEventInv
  BY DEF Init, OneEventInv, OneEventPerRequest
<1>2. Inv /\ EventInv /\ OneEventInv /\ [Next]_vars => OneEventInv'
  BY OneEventStep
<1>3. OneEventInv => OneEventPerRequest
  BY DEF OneEventInv
<1> QED
  BY <1>1, <1>2, <1>3, InvHolds, EventHolds, PTL DEF Spec

-----------------------------------------------------------------------------
(* With one thread, the order of the inserts *)

\* The client knows that the server has applied the batch.
Confirmed(b) == batches[b].pc = "success" \/ Acknowledged(b)

\* What was applied before a confirmed batch is older than it.
OrderInv ==
  \A i, j \in DOMAIN database :
    i < j /\ Confirmed(database[j]) => database[i] < database[j]

\* A batch is confirmed when insert_async() returns, and then it is applied.
LEMMA ConfirmStep ==
  ASSUME Inv, NEW b \in DOMAIN batches, Callback(b)
  PROVE  \A a \in DOMAIN batches :
           Confirmed(a)' => Confirmed(a) \/ (a = b /\ batches[b].pc = "posting")
<1>1. CASE batches[b].pc = "posting"
  <2>1. events' = events
    BY <1>1, EventStep
  <2>2. PICK pc \in Stages : Goto(b, pc)
    BY CallbackStep
  <2>3. \A a \in DOMAIN batches : batches'[a].pc = IF a = b THEN pc ELSE batches[a].pc
    BY <2>2, GotoBatches DEF Inv, TypeOK
  <2> QED
    BY <1>1, <2>1, <2>3 DEF Confirmed, Acknowledged
<1>2. CASE batches[b].pc # "posting"
  <2>1. PICK pc \in Stages \ {"success"} : Goto(b, pc)
    <3>1. CASE RunBatch(b)
      <4>1. PICK s \in EntryReads : Goto(b, Enter(s, Lines(b)))
        BY <3>1 DEF RunBatch
      <4>2. Enter(s, Lines(b)) \in Stages \ {"success"}
        BY DEF Enter, Stages, Running, Over
      <4> QED
        BY <4>1, <4>2
    <3>2. CASE EmitSuccess(b) \/ EmitFailure(b) \/ EmitError(b)
      <4>1. \E pc \in {"error", "done"} : Goto(b, pc)
        BY <3>2 DEF EmitSuccess, EmitFailure, EmitError, Rethrow
      <4> QED
        BY <4>1 DEF Stages, Running, Over
    <3>3. CASE InsertBegins(b)
      BY <3>3 DEF InsertBegins, Stages, Running
    <3> QED
      BY <1>2, <3>1, <3>2, <3>3 DEF Callback, InsertReturns, InsertThrows
  <2>2. \A a \in DOMAIN batches : batches'[a].pc = IF a = b THEN pc ELSE batches[a].pc
    BY <2>1, GotoBatches DEF Inv, TypeOK
  <2>3. CASE events' = events
    BY <2>2, <2>3 DEF Confirmed, Acknowledged
  <2>4. ASSUME NEW ok \in BOOLEAN, NEW n, Publish(b, ok, n), ok = TRUE => batches[b].pc = "success"
        PROVE  \A a \in DOMAIN batches : Confirmed(a)' => Confirmed(a)
    <3> DEFINE k == Len(events) + 1
    <3>1. /\ DOMAIN events' = DOMAIN events \union {k}
          /\ \A i \in DOMAIN events : events'[i] = events[i]
          /\ events'[k].batch = b /\ events'[k].ok = ok
      BY <2>4, PublishEvent
    <3> HIDE DEF k
    <3> QED
      BY <2>2, <2>4, <3>1 DEF Confirmed, Acknowledged
  <2>5. \/ events' = events
        \/ \E ok \in BOOLEAN, n \in Nat :
             Publish(b, ok, n) /\ (ok = TRUE => batches[b].pc = "success")
    BY EventStep, LinesType
  <2> QED
    BY <2>3, <2>4, <2>5
<1> QED
  BY <1>1, <1>2

LEMMA OrderStep ==
  ASSUME Inv, WireInv, EventInv, TurnInv, LoopInv, OrderInv, [Next]_vars
  PROVE  OrderInv'
<1>1. database \in Seq(Nat) /\ DOMAIN database = 1 .. Len(database) /\ Len(database) \in Nat
  BY DEF Inv, TypeOK
<1>2. DOMAIN batches \subseteq Nat
  BY DEF Inv, TypeOK
<1>3. \A i \in DOMAIN database : /\ database[i] \in DOMAIN batches
                                 /\ batches[database[i]].pc # "queued"
  BY DEF WireInv, Values
<1>4. CASE TakeLine \/ WindowExpires
  <2>1. /\ \A b \in DOMAIN batches : batches'[b] = batches[b]
        /\ UNCHANGED <<database, events>>
    BY <1>4, WindowStep
  <2> QED
    BY <1>3, <2>1 DEF OrderInv, Confirmed, Acknowledged
<1>5. ASSUME NEW b \in DOMAIN batches, Callback(b) PROVE OrderInv'
  <2>1. database' = database
    BY <1>5, CallbackStep
  <2> SUFFICES ASSUME NEW i \in DOMAIN database, NEW j \in DOMAIN database, i < j,
                      Confirmed(database[j])'
               PROVE  database[i] < database[j]
    BY <2>1 DEF OrderInv, Confirmed, Acknowledged
  <2>2. Confirmed(database[j]) \/ (database[j] = b /\ batches[b].pc = "posting")
    <3>1. \A a \in DOMAIN batches :
            Confirmed(a)' => Confirmed(a) \/ (a = b /\ batches[b].pc = "posting")
      BY <1>5, ConfirmStep
    <3>2. database[j] \in DOMAIN batches
      BY <1>3
    <3> QED
      BY <2>1, <3>1, <3>2 DEF Confirmed, Acknowledged
  <2>3. CASE Confirmed(database[j])
    BY <2>3 DEF OrderInv
  <2>4. CASE database[j] = b /\ batches[b].pc = "posting"
    <3> DEFINE a == database[i]
    <3>1. a \in DOMAIN batches /\ batches[a].pc # "queued"
      BY <1>3
    <3>2. a # b
      BY <1>1, <2>4 DEF WireInv, Distinct
    <3>3. ~(b < a)
      <4>1. batches[a].loop = batches[b].loop
        BY <3>1 DEF LoopInv
      <4>2. ~Finished(b)
        BY <1>5, FinishedIsOver
      <4> QED
        BY <3>1, <4>1, <4>2 DEF TurnInv
    <3> QED
      BY <1>2, <2>4, <3>1, <3>2, <3>3
  <2> QED
    BY <2>2, <2>3, <2>4
<1>6. ASSUME NEW b \in DOMAIN batches, ServerApplies(b) PROVE OrderInv'
  <2>1. /\ b \in Values(requests) \ Values(database) /\ database' = Append(database, b)
        /\ UNCHANGED <<batches, events>>
    BY <1>6 DEF ServerApplies, Requested, Applied, Values
  <2>2. /\ DOMAIN database' = DOMAIN database \union {Len(database) + 1}
        /\ \A i \in DOMAIN database : database'[i] = database[i] /\ i < Len(database) + 1
        /\ database'[Len(database) + 1] = b
    BY <1>1, <1>2, <2>1
  <2>3. ~Confirmed(b)
    BY <2>1 DEF EventInv, Truthful, Confirmed, Acknowledged
  <2>4. \A a : Confirmed(a)' <=> Confirmed(a)
    BY <2>1 DEF Confirmed, Acknowledged
  <2> SUFFICES ASSUME NEW i \in DOMAIN database', NEW j \in DOMAIN database', i < j,
                      Confirmed(database'[j])
               PROVE  database'[i] < database'[j]
    BY <2>4 DEF OrderInv
  <2>5. j \in DOMAIN database
    BY <2>2, <2>3
  <2>6. i \in DOMAIN database
    BY <1>1, <2>2, <2>5
  <2> QED
    BY <2>2, <2>5, <2>6 DEF OrderInv
<1>7. insert \/ StopAccepting \/ UnsubscribeListener \/ DestroyMembers \/ UNCHANGED vars
        => UNCHANGED <<batches, events, database>>
  BY DEF insert, StopAccepting, UnsubscribeListener, DestroyMembers, vars
<1>8. CASE UNCHANGED <<batches, events, database>>
  BY <1>8 DEF OrderInv, Confirmed, Acknowledged
<1> QED
  BY <1>4, <1>5, <1>6, <1>7, <1>8 DEF Next

\* What the server acknowledged is written in the order of the inserts: a later
\* batch is not even sent before the answer to an earlier one.
THEOREM InsertOrder ==
  ASSUME OneThread
  PROVE  Spec => []AckedInOrder
<1>1. Init => OrderInv
  BY DEF Init, OrderInv
<1>2. Inv /\ WireInv /\ EventInv /\ TurnInv /\ LoopInv /\ OrderInv /\ [Next]_vars => OrderInv'
  BY OrderStep
<1>3. OrderInv => AckedInOrder
  BY DEF OrderInv, Confirmed, AckedInOrder
<1> QED
  BY <1>1, <1>2, <1>3, InvHolds, WireHolds, EventHolds, TurnHolds, LoopHolds, PTL DEF Spec

-----------------------------------------------------------------------------
(* Where the batches are *)

\* Batches lie in the order of the lines, among those that are cut.
PlaceInv ==
  /\ \A b \in DOMAIN batches : 1 <= batches[b].first /\ batches[b].last <= cut
  /\ \A a, b \in DOMAIN batches : a < b => batches[a].last < batches[b].first

LEMMA BoundTypes ==
  ASSUME Inv
  PROVE  /\ \A b \in DOMAIN batches : batches[b].first \in Nat /\ batches[b].last \in Nat
         /\ DOMAIN batches = 1 .. Len(batches) /\ Len(batches) \in Nat
<1>1. batches \in Seq(Batch)
  BY DEF Inv, TypeOK
<1>2. \A b \in DOMAIN batches : batches[b] \in Batch
  BY <1>1
<1> QED
  BY <1>1, <1>2 DEF Batch

LEMMA PlaceGrows ==
  ASSUME Inv, PlaceInv, NEW n \in Nat, cut <= n, CloseWindow(n)
  PROVE  PlaceInv'
<1>1. PICK k : k = Len(batches) + 1
  OBVIOUS
<1>2. /\ DOMAIN batches' = DOMAIN batches \union {k}
      /\ \A b \in DOMAIN batches : batches'[b] = batches[b] /\ b < k /\ ~(k < b)
      /\ ~(k < k)
      /\ batches'[k].first = cut + 1 /\ batches'[k].last = n /\ cut' = n
  <2>1. /\ DOMAIN batches' = 1 .. Len(batches) + 1
        /\ \A b \in DOMAIN batches : batches'[b] = batches[b]
        /\ batches'[Len(batches) + 1].first = cut + 1
        /\ batches'[Len(batches) + 1].last = n
        /\ cut' = n
    BY CloseWindowBatches
  <2> QED
    BY <1>1, <2>1, BoundTypes
<1>3. cut \in Nat
  BY DEF Inv, TypeOK
<1>4. \A b \in DOMAIN batches : 1 <= batches[b].first /\ batches[b].last <= n
                                  /\ batches[b].last < cut + 1
  BY <1>3, BoundTypes DEF PlaceInv
<1>5. 1 <= cut + 1 /\ n <= n
  BY <1>3
<1> QED
  BY <1>2, <1>4, <1>5 DEF PlaceInv

\* A step of a callback leaves the bounds of the batches as they are.
LEMMA BoundsKept ==
  ASSUME Inv, NEW c \in DOMAIN batches, Callback(c)
  PROVE  /\ DOMAIN batches' = DOMAIN batches
         /\ \A b \in DOMAIN batches : /\ batches'[b].first = batches[b].first
                                      /\ batches'[b].last = batches[b].last
<1>1. PICK pc \in Stages : Goto(c, pc)
  BY CallbackStep
<1> QED
  BY <1>1, GotoBatches DEF Inv, TypeOK

LEMMA PlaceHolds == Spec => []PlaceInv
<1>1. Init => PlaceInv
  BY DEF Init, PlaceInv
<1>2. Inv /\ PlaceInv /\ [Next]_vars => PlaceInv'
  <2> SUFFICES ASSUME Inv, PlaceInv, [Next]_vars PROVE PlaceInv'
    OBVIOUS
  <2>1. cut \in Nat /\ taken \in Nat /\ cut <= taken
    BY DEF Inv, TypeOK, WindowsPartition
  <2>2. CASE TakeLine
    <3>1. CASE CloseWindow(taken + 1)
      BY <2>1, <3>1, PlaceGrows
    <3>2. CASE UNCHANGED <<cut, batches>>
      BY <3>2 DEF PlaceInv
    <3> QED
      BY <2>2, <3>1, <3>2 DEF TakeLine
  <2>3. CASE WindowExpires
    BY <2>1, <2>3, PlaceGrows DEF WindowExpires
  <2>4. ASSUME NEW c \in DOMAIN batches, Callback(c) PROVE PlaceInv'
    <3>1. cut' = cut
      BY <2>4, CallbackStep
    <3> QED
      BY <2>4, <3>1, BoundsKept DEF PlaceInv
  <2>5. insert \/ (\E b \in DOMAIN batches : ServerApplies(b))
          \/ StopAccepting \/ UnsubscribeListener \/ DestroyMembers \/ UNCHANGED vars
        => UNCHANGED <<cut, batches>>
    BY DEF insert, ServerApplies, StopAccepting, UnsubscribeListener, DestroyMembers, vars
  <2> QED
    BY <2>2, <2>3, <2>4, <2>5 DEF Next, PlaceInv
<1> QED
  BY <1>1, <1>2, InvHolds, PTL DEF Spec

\* No line is in two batches, and each line of a batch has been accepted.
LEMMA LinesApart ==
  ASSUME Inv, PlaceInv, NEW bs, bs \subseteq DOMAIN batches, NEW b \in DOMAIN batches \ bs
  PROVE  LinesOf(b) \cap LinesOfAll(bs) = {}
<1> SUFFICES ASSUME NEW a \in bs, NEW n \in LinesOf(a), n \in LinesOf(b) PROVE FALSE
  BY DEF LinesOfAll
<1>1. /\ batches[a].first \in Nat /\ batches[a].last \in Nat
      /\ batches[b].first \in Nat /\ batches[b].last \in Nat
      /\ a \in Int /\ b \in Int /\ a \in DOMAIN batches
  BY BoundTypes
<1>2. a < b \/ b < a
  BY <1>1
<1>3. batches[a].last < batches[b].first \/ batches[b].last < batches[a].first
  BY <1>1, <1>2 DEF PlaceInv
<1> QED
  BY <1>1, <1>3 DEF LinesOf

LEMMA LinesAccepted ==
  ASSUME Inv, PlaceInv, NEW b \in DOMAIN batches
  PROVE  LinesOf(b) \subseteq 1 .. accepted
<1>1. /\ batches[b].first \in Nat /\ batches[b].last \in Nat
      /\ cut \in Nat /\ taken \in Nat /\ accepted \in Nat /\ cut <= taken /\ taken <= accepted
  BY BoundTypes DEF Inv, TypeOK, WindowsPartition
<1>2. 1 <= batches[b].first /\ batches[b].last <= accepted
  BY <1>1 DEF PlaceInv
<1> QED
  BY <1>1, <1>2 DEF LinesOf

-----------------------------------------------------------------------------
(* The mapping *)

\* All batches the server or an event knows exist.
LEMMA MappedBatches ==
  ASSUME WireInv, EventInv
  PROVE  /\ Applied \subseteq DOMAIN batches
         /\ \A ok \in BOOLEAN : EventsOf(ok) \subseteq DOMAIN batches
<1>1. Applied = Values(database)
  BY DEF Applied, Values
<1> QED
  BY <1>1 DEF WireInv, EventInv, EventsOf

\* As long as the bounds stay, the lines of the batches do.
LEMMA LinesStay ==
  ASSUME NEW bs, bs \subseteq DOMAIN batches,
         \A b \in DOMAIN batches : /\ batches'[b].first = batches[b].first
                                   /\ batches'[b].last = batches[b].last
  PROVE  LinesOfAll(bs)' = LinesOfAll(bs)
<1>1. \A b \in bs : LinesOf(b)' = LinesOf(b)
  BY DEF LinesOf
<1> QED
  BY <1>1 DEF LinesOfAll

\* What a step adds to the database or to the events, it adds to their lines.
LEMMA AppliedMapped ==
  ASSUME WireInv, EventInv,
         \A b \in DOMAIN batches : /\ batches'[b].first = batches[b].first
                                   /\ batches'[b].last = batches[b].last,
         NEW bs, bs \subseteq DOMAIN batches, Applied' = Applied \union bs
  PROVE  LinesOfAll(Applied)' = LinesOfAll(Applied) \union LinesOfAll(bs)
<1>1. PICK all : all = Applied'
  OBVIOUS
<1>2. all \subseteq DOMAIN batches
  BY <1>1, MappedBatches
<1>3. LinesOfAll(all)' = LinesOfAll(all)
  BY <1>2, LinesStay
<1>4. LinesOfAll(Applied)' = LinesOfAll(all)'
  BY <1>1 DEF LinesOfAll
<1> QED
  BY <1>1, <1>3, <1>4 DEF LinesOfAll

LEMMA EventsMapped ==
  ASSUME WireInv, EventInv,
         \A b \in DOMAIN batches : /\ batches'[b].first = batches[b].first
                                   /\ batches'[b].last = batches[b].last,
         NEW ok \in BOOLEAN,
         NEW bs, bs \subseteq DOMAIN batches, EventsOf(ok)' = EventsOf(ok) \union bs
  PROVE  LinesOfAll(EventsOf(ok))' = LinesOfAll(EventsOf(ok)) \union LinesOfAll(bs)
<1>1. PICK all : all = EventsOf(ok)'
  OBVIOUS
<1>2. all \subseteq DOMAIN batches
  BY <1>1, MappedBatches
<1>3. LinesOfAll(all)' = LinesOfAll(all)
  BY <1>2, LinesStay
<1>4. LinesOfAll(EventsOf(ok))' = LinesOfAll(all)'
  BY <1>1 DEF LinesOfAll
<1> QED
  BY <1>1, <1>3, <1>4 DEF LinesOfAll

LEMMA EventsGrow ==
  ASSUME Inv, NEW b, NEW ok \in BOOLEAN, NEW n, Publish(b, ok, n)
  PROVE  /\ EventsOf(ok)' = EventsOf(ok) \union {b}
         /\ \A other \in BOOLEAN \ {ok} : EventsOf(other)' = EventsOf(other)
<1>1. PICK k : /\ DOMAIN events' = DOMAIN events \union {k}
               /\ k \notin DOMAIN events
               /\ \A i \in DOMAIN events : events'[i] = events[i]
               /\ events'[k].batch = b /\ events'[k].ok = ok
  BY PublishEvent
<1> QED
  BY <1>1 DEF EventsOf

\* A step that touches neither is none of Delivery.
LEMMA Stutters ==
  ASSUME WireInv, EventInv,
         \A b \in DOMAIN batches : /\ batches'[b].first = batches[b].first
                                   /\ batches'[b].last = batches[b].last,
         UNCHANGED <<accepted, database, events, started>>
  PROVE  UNCHANGED D!vars
<1>1. /\ Applied' = Applied \union {}
      /\ EventsOf(TRUE)' = EventsOf(TRUE) \union {}
      /\ EventsOf(FALSE)' = EventsOf(FALSE) \union {}
  BY DEF Applied, EventsOf
<1>2. /\ LinesOfAll(Applied)' = LinesOfAll(Applied) \union LinesOfAll({})
      /\ LinesOfAll(EventsOf(TRUE))' = LinesOfAll(EventsOf(TRUE)) \union LinesOfAll({})
      /\ LinesOfAll(EventsOf(FALSE))' = LinesOfAll(EventsOf(FALSE)) \union LinesOfAll({})
  BY <1>1, AppliedMapped, EventsMapped
<1>3. LinesOfAll({}) = {}
  BY DEF LinesOfAll
<1> QED
  BY <1>2, <1>3 DEF D!vars

-----------------------------------------------------------------------------
(* Each step of the client is one of Delivery *)

\* Everything that is known of the client when it takes a step.
Safe == Inv /\ PlaceInv /\ WireInv /\ EventInv /\ FateInv

LEMMA SafeHolds == Spec => []Safe
  BY InvHolds, PlaceHolds, WireHolds, EventHolds, FateHolds, PTL DEF Safe

\* The server applies lines that it has not applied.
LEMMA ApplyStep ==
  ASSUME Safe, NEW b \in DOMAIN batches, ServerApplies(b)
  PROVE  D!Apply(LinesOf(b)) /\ LinesOf(b) \subseteq 1 .. accepted
<1>1. /\ b \notin Applied /\ database' = Append(database, b)
      /\ UNCHANGED <<accepted, batches, events, started>>
  BY DEF ServerApplies
<1>2. PICK one, none : one = {b} /\ none = {}
  OBVIOUS
<1>3. Applied' = Applied \union one
  <2>1. database \in Seq(Nat) /\ b \in Nat
    BY BoundTypes DEF Safe, Inv, TypeOK
  <2>2. Values(database)' = Values(database) \union {b}
    BY <1>1, <2>1, AppendDistinct
  <2> QED
    BY <1>2, <2>2 DEF Applied, Values
<1>4. EventsOf(TRUE)' = EventsOf(TRUE) \union none /\ EventsOf(FALSE)' = EventsOf(FALSE) \union none
  BY <1>1, <1>2 DEF EventsOf
<1>5. /\ LinesOfAll(Applied)' = LinesOfAll(Applied) \union LinesOfAll(one)
      /\ LinesOfAll(EventsOf(TRUE))' = LinesOfAll(EventsOf(TRUE)) \union LinesOfAll(none)
      /\ LinesOfAll(EventsOf(FALSE))' = LinesOfAll(EventsOf(FALSE)) \union LinesOfAll(none)
  <2>1. /\ one \subseteq DOMAIN batches /\ none \subseteq DOMAIN batches
        /\ \A a \in DOMAIN batches : /\ batches'[a].first = batches[a].first
                                     /\ batches'[a].last = batches[a].last
    BY <1>1, <1>2
  <2> QED
    BY <1>3, <1>4, <2>1, AppliedMapped, EventsMapped DEF Safe
<1>6. LinesOfAll(none) = {} /\ LinesOfAll(one) = LinesOf(b)
  BY <1>2 DEF LinesOfAll
<1>7. LinesOf(b) \cap LinesOfAll(Applied) = {} /\ LinesOf(b) \subseteq 1 .. accepted
  BY <1>1, MappedBatches, LinesApart, LinesAccepted DEF Safe
<1> QED
  BY <1>1, <1>5, <1>6, <1>7 DEF D!Apply, D!Accepted

\* A callback is silent, or reports its lines: as written if they are and were
\* not reported before, as failed if they were not reported as written.
LEMMA ReportStep ==
  ASSUME Safe, NEW b \in DOMAIN batches, Callback(b)
  PROVE  \/ UNCHANGED D!vars
         \/ /\ LinesOf(b) \subseteq 1 .. accepted
            /\ D!ReportSuccess(LinesOf(b)) \/ D!ReportFailure(LinesOf(b))
<1>1. UNCHANGED <<accepted, database, started>>
  BY CallbackStep DEF Safe
<1>2. \A a \in DOMAIN batches : /\ batches'[a].first = batches[a].first
                                /\ batches'[a].last = batches[a].last
  BY BoundsKept DEF Safe
<1>3. PICK one, none : one = {b} /\ none = {}
  OBVIOUS
<1>4. LinesOfAll(none) = {} /\ LinesOfAll(one) = LinesOf(b) /\ Applied' = Applied \union none
  BY <1>1, <1>3 DEF LinesOfAll, Applied
<1>5. /\ LinesOf(b) \subseteq 1 .. accepted
      /\ one \subseteq DOMAIN batches /\ none \subseteq DOMAIN batches
  BY <1>3, LinesAccepted DEF Safe
<1>6. CASE events' = events
  BY <1>1, <1>2, <1>6, Stutters DEF Safe
<1>7. CASE batches[b].pc = "success" /\ Publish(b, TRUE, Lines(b))
  <2>1. EventsOf(TRUE)' = EventsOf(TRUE) \union one
        /\ EventsOf(FALSE)' = EventsOf(FALSE) \union none
    BY <1>3, <1>7, EventsGrow DEF Safe
  <2>2. /\ LinesOfAll(Applied)' = LinesOfAll(Applied) \union LinesOfAll(none)
        /\ LinesOfAll(EventsOf(TRUE))' = LinesOfAll(EventsOf(TRUE)) \union LinesOfAll(one)
        /\ LinesOfAll(EventsOf(FALSE))' = LinesOfAll(EventsOf(FALSE)) \union LinesOfAll(none)
    BY <1>2, <1>4, <1>5, <2>1, AppliedMapped, EventsMapped DEF Safe
  <2>3. b \in Applied
    BY <1>7 DEF Safe, EventInv, Applied, Values
  <2>4. b \notin EventsOf(TRUE) /\ b \notin EventsOf(FALSE)
    BY <1>7 DEF Safe, EventInv, EventsOf
  <2>5. LinesOf(b) \subseteq LinesOfAll(Applied)
    BY <2>3 DEF LinesOfAll
  <2>6. LinesOf(b) \cap LinesOfAll(EventsOf(TRUE)) = {}
        /\ LinesOf(b) \cap LinesOfAll(EventsOf(FALSE)) = {}
    BY <2>4, MappedBatches, LinesApart DEF Safe
  <2>7. D!ReportSuccess(LinesOf(b))
    BY <1>1, <1>4, <2>2, <2>5, <2>6 DEF D!ReportSuccess
  <2> QED
    BY <1>5, <2>7
<1>8. ASSUME batches[b].pc \in {"failure", "error"}, NEW n \in Nat, Publish(b, FALSE, n)
      PROVE  D!ReportFailure(LinesOf(b))
  <2>1. EventsOf(TRUE)' = EventsOf(TRUE) \union none
        /\ EventsOf(FALSE)' = EventsOf(FALSE) \union one
    BY <1>3, <1>8, EventsGrow DEF Safe
  <2>2. /\ LinesOfAll(Applied)' = LinesOfAll(Applied) \union LinesOfAll(none)
        /\ LinesOfAll(EventsOf(TRUE))' = LinesOfAll(EventsOf(TRUE)) \union LinesOfAll(none)
        /\ LinesOfAll(EventsOf(FALSE))' = LinesOfAll(EventsOf(FALSE)) \union LinesOfAll(one)
    BY <1>2, <1>4, <1>5, <2>1, AppliedMapped, EventsMapped DEF Safe
  <2>3. b \notin EventsOf(TRUE)
    BY <1>8 DEF Safe, EventInv, Truthful, EventsOf
  <2>4. LinesOf(b) \cap LinesOfAll(EventsOf(TRUE)) = {}
    BY <2>3, MappedBatches, LinesApart DEF Safe
  <2> QED
    BY <1>1, <1>4, <1>5, <2>2, <2>4 DEF D!ReportFailure, D!Accepted
<1> QED
  BY <1>5, <1>6, <1>7, <1>8, EventStep DEF Safe

LEMMA DeliveryStep == Safe /\ [Next]_vars => [D!Next]_(D!vars)
<1> SUFFICES ASSUME Safe, [Next]_vars PROVE D!Next \/ UNCHANGED D!vars
  OBVIOUS
<1>1. CASE insert
  <2>1. ~~started
    BY <1>1 DEF insert, Safe, FateInv
  <2>2. D!Accept
    BY <1>1, <2>1 DEF insert, D!Accept, LinesOfAll, LinesOf, Applied, EventsOf
  <2> QED
    BY <2>2 DEF D!Next
<1>2. CASE TakeLine \/ WindowExpires
  <2>1. (\A b \in DOMAIN batches : batches'[b] = batches[b])
        /\ UNCHANGED <<database, events, started>>
    BY <1>2, WindowStep DEF Safe
  <2>2. accepted' = accepted
    BY <1>2 DEF TakeLine, WindowExpires
  <2> QED
    BY <2>1, <2>2, Stutters DEF Safe
<1>3. ASSUME NEW b \in DOMAIN batches, ServerApplies(b) PROVE D!Next
  <2>1. D!Apply(LinesOf(b)) /\ LinesOf(b) \in SUBSET (1 .. accepted)
    BY <1>3, ApplyStep
  <2> QED
    BY <2>1 DEF D!Next, D!Accepted
<1>4. ASSUME NEW b \in DOMAIN batches, Callback(b) PROVE D!Next \/ UNCHANGED D!vars
  <2>1. CASE /\ LinesOf(b) \in SUBSET (1 .. accepted)
             /\ D!ReportSuccess(LinesOf(b)) \/ D!ReportFailure(LinesOf(b))
    BY <2>1 DEF D!Next, D!Accepted
  <2> QED
    BY <1>4, <2>1, ReportStep
<1>5. CASE StopAccepting
  <2>1. D!Stop
    BY <1>5 DEF StopAccepting, D!Stop, LinesOfAll, LinesOf, Applied, EventsOf
  <2> QED
    BY <2>1 DEF D!Next
<1>6. CASE UnsubscribeListener \/ DestroyMembers \/ UNCHANGED vars
  <2>1. UNCHANGED <<accepted, batches, database, events, started>>
    BY <1>6 DEF UnsubscribeListener, DestroyMembers, vars
  <2> QED
    BY <2>1, Stutters DEF Safe
<1> QED
  BY <1>1, <1>2, <1>3, <1>4, <1>5, <1>6 DEF Next

\* The asynchronous client keeps what it promises: the server writes no line
\* twice, and the events report no line as written that is not, and none both as
\* written and, afterwards, as failed.
THEOREM DeliverySafety == Spec => D!Init /\ [][D!Next]_(D!vars)
<1>1. Init => D!Init
  BY DEF Init, D!Init, LinesOfAll, LinesOf, Applied, EventsOf
<1>2. Safe /\ [Next]_vars => [D!Next]_(D!vars)
  BY DeliveryStep
<1> QED
  BY <1>1, <1>2, SafeHolds, PTL DEF Spec

=============================================================================
