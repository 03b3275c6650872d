--------------------------- MODULE AsyncDbProofs ---------------------------
(***************************************************************************)
(* Theorems about the asynchronous client, for every configuration, every  *)
(* number of loop threads and every number of lines.                       *)
(***************************************************************************)
EXTENDS AsyncDb, TLAPS

\* The typing invariant needs the partition: the count in an event is a
\* difference of two line numbers.
Inv == TypeOK /\ WindowsPartition

USE DEF lineVars, wireVars, lifeVars

-----------------------------------------------------------------------------
(* How the steps change the batches *)

\* A callback that moves on leaves everything else of every batch as it was.
LEMMA GotoBatches ==
  ASSUME batches \in Seq(Batch), NEW b \in DOMAIN batches, NEW pc \in Stages, Goto(b, pc)
  PROVE  /\ batches' \in Seq(Batch)
         /\ DOMAIN batches' = DOMAIN batches
         /\ Len(batches') = Len(batches)
         /\ \A a \in DOMAIN batches :
              /\ batches'[a].first = batches[a].first
              /\ batches'[a].last = batches[a].last
              /\ batches'[a].loop = batches[a].loop
              /\ batches'[a].pc = IF a = b THEN pc ELSE batches[a].pc
<1>1. batches \in [1 .. Len(batches) -> Batch]
  OBVIOUS
<1>2. batches' = [batches EXCEPT ![b] = [batches[b] EXCEPT !.pc = pc]]
  BY DEF Goto
<1>3. [batches[b] EXCEPT !.pc = pc] \in Batch
  BY <1>1 DEF Batch
<1>4. batches' \in [1 .. Len(batches) -> Batch]
  BY <1>1, <1>2, <1>3
<1>5. batches' \in Seq(Batch) /\ Len(batches') = Len(batches)
  BY <1>4
<1>6. ASSUME NEW a \in DOMAIN batches
      PROVE  /\ batches'[a].first = batches[a].first
             /\ batches'[a].last = batches[a].last
             /\ batches'[a].loop = batches[a].loop
             /\ batches'[a].pc = IF a = b THEN pc ELSE batches[a].pc
  BY <1>1, <1>2 DEF Batch
<1> QED
  BY <1>1, <1>4, <1>5, <1>6

LEMMA LoopType == \A k \in Nat : LoopOf(k) \in Loops
  BY ConfigAssumption DEF LoopOf, Loops, WindowLoop

\* Closing a window appends one batch that begins where the last one ends.
LEMMA CloseWindowBatches ==
  ASSUME Inv, NEW n \in Nat, cut <= n, CloseWindow(n)
  PROVE  /\ batches' \in Seq(Batch)
         /\ Len(batches') = Len(batches) + 1
         /\ DOMAIN batches' = 1 .. Len(batches) + 1
         /\ \A b \in DOMAIN batches : batches'[b] = batches[b]
         /\ batches'[Len(batches) + 1].first = cut + 1
         /\ batches'[Len(batches) + 1].last = n
         /\ batches'[Len(batches) + 1].loop = LoopOf(Len(batches) + 1)
         /\ batches'[Len(batches) + 1].pc = "queued"
         /\ cut' = n
<1> DEFINE new == [first |-> cut + 1, last |-> n,
                   loop |-> LoopOf(Len(batches) + 1), pc |-> "queued"]
<1>1. batches \in Seq(Batch) /\ cut \in Nat /\ Len(batches) \in Nat
  BY DEF Inv, TypeOK
<1>2. LoopOf(Len(batches) + 1) \in Loops
  BY <1>1, LoopType
<1>3. new \in Batch
  BY <1>1, <1>2 DEF Batch, Stages
<1>4. batches' = Append(batches, new) /\ cut' = n
  BY DEF CloseWindow
<1> HIDE DEF new
<1>5. /\ batches' \in Seq(Batch)
      /\ Len(batches') = Len(batches) + 1
      /\ DOMAIN batches' = 1 .. Len(batches) + 1
      /\ \A b \in DOMAIN batches : batches'[b] = batches[b]
      /\ batches'[Len(batches) + 1] = new
  BY <1>1, <1>3, <1>4
<1> QED
  BY <1>4, <1>5 DEF new

-----------------------------------------------------------------------------
(* Types, and the partition of the lines into windows *)

\* What a batch holds is a number of lines.
LEMMA LinesType == Inv => \A b \in DOMAIN batches : Lines(b) \in Nat
<1> SUFFICES ASSUME Inv, NEW b \in DOMAIN batches PROVE Lines(b) \in Nat
  OBVIOUS
<1>1. batches[b] \in Batch
  BY DEF Inv, TypeOK
<1>2. batches[b].first \in Nat /\ batches[b].last \in Nat
  BY <1>1 DEF Batch
<1> QED
  BY <1>2 DEF Inv, WindowsPartition, Lines

\* The partition looks at the batches only through their bounds.
LEMMA PartitionKept ==
  ASSUME WindowsPartition, batches \in Seq(Batch), batches' \in Seq(Batch),
         Len(batches') = Len(batches),
         \A a \in DOMAIN batches : /\ batches'[a].first = batches[a].first
                                   /\ batches'[a].last = batches[a].last,
         UNCHANGED <<accepted, taken, cut>>
  PROVE  WindowsPartition'
<1>1. DOMAIN batches = 1 .. Len(batches) /\ DOMAIN batches' = 1 .. Len(batches)
  OBVIOUS
<1>2. (batches = <<>> <=> Len(batches) = 0) /\ (batches' = <<>> <=> Len(batches) = 0)
  OBVIOUS
<1> QED
  BY <1>1, <1>2 DEF WindowsPartition

LEMMA PartitionGrows ==
  ASSUME Inv, NEW n \in Nat, cut <= n, n <= taken', CloseWindow(n),
         taken' <= accepted', taken' \in Nat
  PROVE  WindowsPartition'
<1> DEFINE k == Len(batches) + 1
<1>1. /\ batches' \in Seq(Batch)
      /\ Len(batches') = k
      /\ DOMAIN batches' = 1 .. k
      /\ \A b \in DOMAIN batches : batches'[b] = batches[b]
      /\ batches'[k].first = cut + 1
      /\ batches'[k].last = n
      /\ cut' = n
  BY CloseWindowBatches
<1>2. batches \in Seq(Batch) /\ Len(batches) \in Nat /\ DOMAIN batches = 1 .. Len(batches)
      /\ cut \in Nat
  BY DEF Inv, TypeOK
<1>3. ASSUME NEW b \in DOMAIN batches'
      PROVE  /\ batches'[b].first = IF b = 1 THEN 1 ELSE batches'[b - 1].last + 1
             /\ batches'[b].first <= batches'[b].last + 1
  <2>1. CASE b \in DOMAIN batches
    <3>1. b = 1 \/ b - 1 \in DOMAIN batches
      BY <2>1, <1>2
    <3> QED
      BY <2>1, <3>1, <1>1 DEF Inv, WindowsPartition
  <2>2. CASE b = k
    <3>1. CASE k = 1
      <4>1. batches = <<>>
        BY <3>1, <1>2
      <4> QED
        BY <2>2, <3>1, <4>1, <1>1 DEF Inv, WindowsPartition
    <3>2. CASE k > 1
      <4>1. Len(batches) \in DOMAIN batches /\ batches # <<>> /\ k - 1 = Len(batches) /\ k # 1
        BY <3>2, <1>2
      <4>2. batches'[k - 1].last = cut
        BY <4>1, <1>1 DEF Inv, WindowsPartition
      <4> QED
        BY <2>2, <4>1, <4>2, <1>1, <1>2
    <3> QED
      BY <3>1, <3>2, <1>2
  <2> QED
    BY <2>1, <2>2, <1>1, <1>2
<1>4. batches' # <<>>
  BY <1>1, <1>2
<1> QED
  BY <1>1, <1>3, <1>4 DEF WindowsPartition

LEMMA StartedReadsType == TypeOK => StartedReads \subseteq BOOLEAN /\ EntryReads \subseteq BOOLEAN
  BY DEF TypeOK, StartedReads, EntryReads

\* A callback's step moves one batch on, and may publish one event.
LEMMA CallbackStep ==
  ASSUME Inv, NEW b \in DOMAIN batches, Callback(b)
  PROVE  /\ \E pc \in Stages : Goto(b, pc)
         /\ UNCHANGED <<lineVars, database, lifeVars>>
         /\ requests' = requests \/ requests' = Append(requests, b)
         /\ \/ events' = events
            \/ \E ok \in BOOLEAN, n \in Nat : Publish(b, ok, n)
<1>1. CASE RunBatch(b)
  <2>1. PICK s \in EntryReads : Goto(b, Enter(s, Lines(b)))
    BY <1>1 DEF RunBatch
  <2>2. Enter(s, Lines(b)) \in Stages
    BY DEF Enter, Stages, Running, Over
  <2> QED
    BY <1>1, <2>1, <2>2 DEF RunBatch
<1>2. CASE InsertReturns(b)
  <2>1. \E pc \in {"success", "done"} : Goto(b, pc)
    BY <1>2 DEF InsertReturns
  <2> QED
    BY <1>2, <2>1 DEF InsertReturns, Stages, Running, Over
<1>3. CASE InsertThrows(b)
  <2>1. \E pc \in {"failure", "error", "done"} : Goto(b, pc)
    BY <1>3 DEF InsertThrows, Rethrow
  <2> QED
    BY <1>3, <2>1 DEF InsertThrows, Stages, Running, Over
<1>4. CASE EmitSuccess(b)
  BY <1>4, LinesType DEF EmitSuccess, Stages, Running, Over
<1>5. CASE EmitFailure(b)
  <2>1. \E pc \in {"error", "done"} : Goto(b, pc)
    BY <1>5 DEF EmitFailure, Rethrow
  <2> QED
    BY <1>5, <2>1, LinesType DEF EmitFailure, Stages, Running, Over
<1>6. CASE EmitError(b)
  BY <1>6 DEF EmitError, Stages, Running, Over
<1>7. CASE InsertBegins(b)
  BY <1>7 DEF InsertBegins, Stages, Running, Over
<1> QED
  BY <1>1, <1>2, <1>3, <1>4, <1>5, <1>6, <1>7 DEF Callback

\* Typing and the partition hold in every state: the invariant is inductive.
LEMMA InvInit == Init => Inv
<1> SUFFICES ASSUME Init PROVE Inv
  OBVIOUS
<1>1. batches = <<>> /\ DOMAIN batches = {}
  BY DEF Init
<1> QED
  BY <1>1 DEF Init, Inv, TypeOK, WindowsPartition

LEMMA InvStep == Inv /\ [Next]_vars => Inv'
<1> SUFFICES ASSUME Inv, [Next]_vars PROVE TypeOK' /\ WindowsPartition'
  BY DEF Inv
<1> USE DEF Inv
<1>1. CASE insert
  BY <1>1 DEF insert, TypeOK, WindowsPartition
<1>2. CASE TakeLine
  <2>1. taken \in Nat /\ cut \in Nat /\ accepted \in Nat /\ taken < accepted /\ taken' = taken + 1
        /\ accepted' = accepted /\ cut <= taken
    BY <1>2 DEF TakeLine, TypeOK, WindowsPartition
  <2>2. CASE CloseWindow(taken + 1)
    <3>1. batches' \in Seq(Batch) /\ cut' = taken + 1
      BY <2>1, <2>2, CloseWindowBatches
    <3> QED
      BY <1>2, <2>1, <2>2, <3>1, PartitionGrows DEF TakeLine, TypeOK
  <2>3. CASE UNCHANGED <<cut, batches>>
    BY <1>2, <2>1, <2>3 DEF TakeLine, TypeOK, WindowsPartition
  <2> QED
    BY <1>2, <2>2, <2>3 DEF TakeLine
<1>3. CASE WindowExpires
  <2>1. taken \in Nat /\ cut \in Nat /\ accepted \in Nat /\ cut <= taken /\ taken <= accepted
        /\ taken' = taken /\ accepted' = accepted /\ CloseWindow(taken) /\ idle' \in Nat
    BY <1>3 DEF WindowExpires, TypeOK, WindowsPartition
  <2>2. batches' \in Seq(Batch) /\ cut' = taken
    BY <2>1, CloseWindowBatches
  <2> QED
    BY <1>3, <2>1, <2>2, PartitionGrows DEF WindowExpires, TypeOK
<1>4. ASSUME NEW b \in DOMAIN batches, Callback(b) PROVE TypeOK' /\ WindowsPartition'
  <2>1. PICK pc \in Stages : Goto(b, pc)
    BY <1>4, CallbackStep
  <2>2. /\ batches \in Seq(Batch) /\ batches' \in Seq(Batch)
        /\ Len(batches') = Len(batches)
        /\ \A a \in DOMAIN batches : /\ batches'[a].first = batches[a].first
                                     /\ batches'[a].last = batches[a].last
    BY <2>1, GotoBatches DEF TypeOK
  <2>3. UNCHANGED <<lineVars, database, lifeVars>>
    BY <1>4, CallbackStep
  <2>4. WindowsPartition'
    BY <2>2, <2>3, PartitionKept
  <2>5. b \in Nat
    BY <2>2
  <2>6. requests' \in Seq(Nat)
    <3>1. requests' = requests \/ requests' = Append(requests, b)
      BY <1>4, CallbackStep
    <3>2. requests \in Seq(Nat)
      BY DEF TypeOK
    <3>3. Append(requests, b) \in Seq(Nat)
      BY <2>5, <3>2
    <3> QED
      BY <3>1, <3>2, <3>3
  <2>7. events' \in Seq(Event)
    <3>1. CASE events' = events
      BY <3>1 DEF TypeOK
    <3>2. ASSUME NEW ok \in BOOLEAN, NEW n \in Nat, Publish(b, ok, n) PROVE events' \in Seq(Event)
      <4>1. [batch |-> b, ok |-> ok, lines |-> n] \in Event
        BY <2>5 DEF Event
      <4> QED
        BY <3>2, <4>1 DEF Publish, TypeOK
    <3> QED
      BY <1>4, <3>1, <3>2, CallbackStep
  <2> QED
    BY <2>2, <2>3, <2>4, <2>6, <2>7 DEF TypeOK
<1>5. ASSUME NEW b \in DOMAIN batches, ServerApplies(b) PROVE TypeOK' /\ WindowsPartition'
  <2>1. b \in Nat
    BY DEF TypeOK
  <2>2. database' = Append(database, b) /\ UNCHANGED <<lineVars, batches, requests, events, lifeVars>>
    BY <1>5 DEF ServerApplies
  <2>3. database' \in Seq(Nat)
    BY <2>1, <2>2 DEF TypeOK
  <2>4. TypeOK'
    BY <2>2, <2>3 DEF TypeOK, lineVars, lifeVars
  <2>5. WindowsPartition'
    BY <2>2 DEF WindowsPartition, lineVars
  <2> QED
    BY <2>4, <2>5
<1>6. CASE StopAccepting \/ UnsubscribeListener \/ DestroyMembers
  BY <1>6 DEF StopAccepting, UnsubscribeListener, DestroyMembers, TypeOK, WindowsPartition
<1>7. CASE UNCHANGED vars
  BY <1>7 DEF vars, TypeOK, WindowsPartition
<1> QED
  BY <1>1, <1>2, <1>3, <1>4, <1>5, <1>6, <1>7 DEF Next

LEMMA InvHolds == Spec => []Inv
  BY InvInit, InvStep, PTL DEF Spec

\* The variables of the client always have their types.
THEOREM TypeCorrect == Spec => []TypeOK
  BY InvHolds, PTL DEF Inv

\* However many windows are cut, by count or by time, no line is lost between
\* them, is in two of them, or overtakes another.
THEOREM WindowsPartitionLines == Spec => []WindowsPartition
  BY InvHolds, PTL DEF Inv

-----------------------------------------------------------------------------
(* The size of a batch *)

\* The open window is never full: it closes with the line that fills it.
SizeInv ==
  /\ \A b \in DOMAIN batches : Lines(b) <= window_max_lines
  /\ taken - cut < window_max_lines

\* A closed window of at most max_lines keeps the bound.
LEMMA SizeGrows ==
  ASSUME Inv, SizeInv, NEW n \in Nat, cut <= n, CloseWindow(n),
         n - cut <= window_max_lines, taken' = n, window_max_lines \in Nat \ {0}
  PROVE  SizeInv'
<1> DEFINE k == Len(batches) + 1
<1>1. /\ DOMAIN batches' = 1 .. k
      /\ \A b \in DOMAIN batches : batches'[b] = batches[b]
      /\ batches'[k].first = cut + 1
      /\ batches'[k].last = n
      /\ cut' = n
  BY CloseWindowBatches
<1>2. DOMAIN batches = 1 .. Len(batches) /\ Len(batches) \in Nat /\ cut \in Nat
  BY DEF Inv, TypeOK
<1>3. ASSUME NEW b \in 1 .. k PROVE Lines(b)' <= window_max_lines
  <2>1. CASE b = k
    BY <2>1, <1>1, <1>2 DEF Lines
  <2>2. CASE b \in DOMAIN batches
    BY <2>2, <1>1 DEF Lines, SizeInv
  <2> QED
    BY <2>1, <2>2, <1>2
<1> QED
  BY <1>1, <1>3 DEF SizeInv

LEMMA SizeStep ==
  ASSUME window_max_lines \in 1 .. IntMax, Inv, SizeInv, [Next]_vars
  PROVE  SizeInv'
<1>1. /\ IntMax \in Nat /\ window_max_lines \in Nat \ {0} /\ CountLimit = window_max_lines
      /\ taken \in Nat /\ cut \in Nat /\ cut <= taken
  BY ConfigAssumption DEF CountLimit, Inv, TypeOK, WindowsPartition
<1>2. CASE TakeLine
  <2>1. CASE CloseWindow(taken + 1)
    <3>1. taken' = taken + 1 /\ cut <= taken + 1 /\ taken + 1 - cut <= window_max_lines
      BY <1>1, <1>2 DEF TakeLine, SizeInv
    <3> QED
      BY <1>1, <2>1, <3>1, SizeGrows
  <2>2. CASE UNCHANGED <<cut, batches>> /\ taken + 1 - cut # CountLimit
    BY <1>1, <1>2, <2>2 DEF TakeLine, SizeInv, Lines
  <2> QED
    BY <1>2, <2>1, <2>2 DEF TakeLine, WindowFull
<1>3. CASE WindowExpires
  <2>1. CloseWindow(taken) /\ taken' = taken /\ taken - cut <= window_max_lines
    BY <1>1, <1>3 DEF WindowExpires, SizeInv
  <2> QED
    BY <1>1, <2>1, SizeGrows
<1>4. ASSUME NEW b \in DOMAIN batches, Callback(b) PROVE SizeInv'
  <2>1. PICK pc \in Stages : Goto(b, pc)
    BY <1>4, CallbackStep
  <2>2. /\ DOMAIN batches' = DOMAIN batches
        /\ \A a \in DOMAIN batches : Lines(a)' = Lines(a)
    BY <2>1, GotoBatches DEF Inv, TypeOK, Lines
  <2>3. UNCHANGED lineVars
    BY <1>4, CallbackStep
  <2> QED
    BY <2>2, <2>3 DEF SizeInv
<1>5. ASSUME UNCHANGED <<batches, taken, cut>> PROVE SizeInv'
  BY <1>5 DEF SizeInv, Lines
<1>6. insert \/ (\E b \in DOMAIN batches : ServerApplies(b))
        \/ StopAccepting \/ UnsubscribeListener \/ DestroyMembers \/ UNCHANGED vars
      => UNCHANGED <<batches, taken, cut>>
  BY DEF insert, ServerApplies, StopAccepting, UnsubscribeListener, DestroyMembers, vars
<1> QED
  BY <1>2, <1>3, <1>4, <1>5, <1>6 DEF Next

LEMMA SizeHolds ==
  ASSUME window_max_lines \in 1 .. IntMax
  PROVE  Spec => []SizeInv
<1>1. Init => SizeInv
  <2> SUFFICES ASSUME Init PROVE SizeInv
    OBVIOUS
  <2>1. DOMAIN batches = {} /\ taken - cut = 0
    BY DEF Init
  <2> QED
    BY <2>1 DEF SizeInv
<1>2. Inv /\ SizeInv /\ [Next]_vars => SizeInv'
  BY SizeStep
<1> QED
  BY <1>1, <1>2, InvHolds, PTL DEF Spec

\* batch_config.max_lines is a bound on every batch and on the open window,
\* provided it is positive and fits the int it is cast to.
THEOREM SizeBound ==
  ASSUME window_max_lines \in 1 .. IntMax
  PROVE  Spec => []WithinMaxLines
<1>1. Inv /\ SizeInv => WithinMaxLines
  <2>1. Inv => taken \in Nat /\ cut \in Nat
    BY DEF Inv, TypeOK
  <2> QED
    BY <2>1 DEF SizeInv, WithinMaxLines
<1> QED
  BY <1>1, SizeHolds, InvHolds, PTL

-----------------------------------------------------------------------------
(* What becomes of a batch: its request, its events and the destructor *)

\* The worker only appends batches, and they have not run yet.
LEMMA WindowStep ==
  ASSUME Inv, TakeLine \/ WindowExpires
  PROVE  /\ DOMAIN batches \subseteq DOMAIN batches'
         /\ \A b \in DOMAIN batches : batches'[b] = batches[b]
         /\ \A b \in DOMAIN batches' \ DOMAIN batches :
              /\ batches'[b].pc = "queued"
              /\ batches'[b].loop = LoopOf(b)
              /\ \A a \in DOMAIN batches : a < b
         /\ UNCHANGED <<wireVars, events, lifeVars>>
         /\ listening
<1>1. cut \in Nat /\ taken \in Nat /\ cut <= taken
  BY DEF Inv, TypeOK, WindowsPartition
<1>2. DOMAIN batches = 1 .. Len(batches) /\ Len(batches) \in Nat
  BY DEF Inv, TypeOK
<1>3. ASSUME NEW n \in Nat, cut <= n, CloseWindow(n)
      PROVE  /\ DOMAIN batches \subseteq DOMAIN batches'
             /\ \A b \in DOMAIN batches : batches'[b] = batches[b]
             /\ \A b \in DOMAIN batches' \ DOMAIN batches :
                  /\ batches'[b].pc = "queued"
                  /\ batches'[b].loop = LoopOf(b)
                  /\ \A a \in DOMAIN batches : a < b
  <2>1. /\ DOMAIN batches' = 1 .. Len(batches) + 1
        /\ \A b \in DOMAIN batches : batches'[b] = batches[b]
        /\ batches'[Len(batches) + 1].loop = LoopOf(Len(batches) + 1)
        /\ batches'[Len(batches) + 1].pc = "queued"
    BY <1>3, CloseWindowBatches
  <2>2. DOMAIN batches' \ DOMAIN batches = {Len(batches) + 1}
    BY <1>2, <2>1
  <2> QED
    BY <1>2, <2>1, <2>2
<1>4. CASE TakeLine
  <2>1. CASE CloseWindow(taken + 1)
    BY <1>1, <1>3, <1>4, <2>1 DEF TakeLine
  <2>2. CASE UNCHANGED batches
    BY <1>4, <2>2 DEF TakeLine
  <2> QED
    BY <1>4, <2>1, <2>2 DEF TakeLine
<1>5. CASE WindowExpires
  BY <1>1, <1>3, <1>5 DEF WindowExpires
<1> QED
  BY <1>4, <1>5

-----------------------------------------------------------------------------
(* No line is given up in silence *)

\* A callback that ended, or is in its error handler, has reported its lines.
Told(b) == batches[b].pc \in {"dropped", "done", "error"} /\ Lines(b) > 0 => Reported(b)

\* It may not have only when the destructor has begun, and that shows in started.
FateInv ==
  /\ dtor = "alive" => started = TRUE /\ listening = TRUE
  /\ dtor # "alive" => started = FALSE
  /\ dtor = "alive" => \A b \in DOMAIN batches : Told(b)

\* While the client is alive, started reads as it is.
LEMMA ReadsWhileAlive ==
  ASSUME FateInv, dtor = "alive"
  PROVE  StartedReads = {TRUE} /\ EntryReads = {TRUE}
<1>1. started = TRUE /\ listening = TRUE /\ dtor # "destroyed"
  BY DEF FateInv
<1> QED
  BY <1>1 DEF StartedReads, EntryReads

\* Events are only added.
LEMMA ReportedStays ==
  ASSUME Inv, NEW b \in DOMAIN batches,
         \/ events' = events
         \/ \E c \in DOMAIN batches, ok \in BOOLEAN, n \in Nat : Publish(c, ok, n)
  PROVE  Reported(b) => Reported(b)'
<1>1. events \in Seq(Event)
  BY DEF Inv, TypeOK
<1>2. CASE events' = events
  BY <1>2 DEF Reported
<1>3. ASSUME NEW c, NEW ok, NEW n, Publish(c, ok, n) PROVE Reported(b) => Reported(b)'
  <2> DEFINE e == [batch |-> c, ok |-> ok, lines |-> n]
  <2>1. events' = Append(events, e)
    BY <1>3 DEF Publish
  <2> HIDE DEF e
  <2>2. \A i \in DOMAIN events : i \in DOMAIN events' /\ events'[i] = events[i]
    BY <1>1, <2>1
  <2> QED
    BY <2>2 DEF Reported
<1> QED
  BY <1>2, <1>3

\* A published event reports its batch.
LEMMA PublishReports ==
  ASSUME Inv, NEW b, NEW ok, NEW n, Publish(b, ok, n)
  PROVE  Reported(b)'
<1>1. events \in Seq(Event)
  BY DEF Inv, TypeOK
<1> DEFINE e == [batch |-> b, ok |-> ok, lines |-> n]
<1>2. events' = Append(events, e) /\ e.batch = b
  BY DEF Publish
<1> HIDE DEF e
<1>3. Len(events) + 1 \in DOMAIN events' /\ events'[Len(events) + 1] = e
  BY <1>1, <1>2
<1> QED
  BY <1>2, <1>3 DEF Reported

LEMMA FateStep ==
  ASSUME Inv, FateInv, [Next]_vars
  PROVE  FateInv'
<1>1. CASE TakeLine \/ WindowExpires
  <2>1. /\ DOMAIN batches \subseteq DOMAIN batches'
        /\ \A b \in DOMAIN batches : batches'[b] = batches[b]
        /\ \A b \in DOMAIN batches' \ DOMAIN batches : batches'[b].pc = "queued"
        /\ UNCHANGED <<events, lifeVars>>
    BY <1>1, WindowStep
  <2>2. \A b \in DOMAIN batches : Told(b) => Told(b)'
    BY <2>1 DEF Told, Lines, Reported
  <2>3. \A b \in DOMAIN batches' \ DOMAIN batches : Told(b)'
    BY <2>1 DEF Told
  <2> QED
    BY <2>1, <2>2, <2>3 DEF FateInv
<1>2. ASSUME NEW b \in DOMAIN batches, Callback(b) PROVE FateInv'
  <2>1. PICK pc \in Stages : Goto(b, pc)
    BY <1>2, CallbackStep
  <2>2. /\ DOMAIN batches' = DOMAIN batches
        /\ \A a \in DOMAIN batches : /\ Lines(a)' = Lines(a)
                                     /\ batches'[a].pc = IF a = b THEN pc ELSE batches[a].pc
    BY <2>1, GotoBatches DEF Inv, TypeOK, Lines
  <2>3. UNCHANGED lifeVars
    BY <1>2, CallbackStep
  <2>4. \A a \in DOMAIN batches : Reported(a) => Reported(a)'
    BY <1>2, CallbackStep, ReportedStays
  <2>5. ASSUME dtor = "alive", batches'[b].pc \in {"dropped", "done", "error"}, Lines(b) > 0
        PROVE  Reported(b)'
    <3>1. StartedReads = {TRUE} /\ EntryReads = {TRUE}
      BY <2>5, ReadsWhileAlive
    <3>2. CASE RunBatch(b)
      <4>1. Goto(b, Enter(TRUE, Lines(b)))
        BY <3>1, <3>2 DEF RunBatch
      <4>2. Enter(TRUE, Lines(b)) = "entered"
        BY <2>5 DEF Enter
      <4>3. batches'[b].pc = "entered"
        BY <4>1, <4>2, GotoBatches DEF Inv, TypeOK, Stages, Running
      <4> QED
        BY <2>5, <4>3
    <3>3. CASE InsertReturns(b)
      <4>1. Goto(b, "success")
        BY <3>1, <3>3 DEF InsertReturns
      <4>2. batches'[b].pc = "success"
        BY <4>1, GotoBatches DEF Inv, TypeOK, Stages, Running
      <4> QED
        BY <2>5, <4>2
    <3>4. CASE InsertThrows(b)
      <4>1. Goto(b, "failure")
        BY <3>1, <3>4 DEF InsertThrows
      <4>2. batches'[b].pc = "failure"
        BY <4>1, GotoBatches DEF Inv, TypeOK, Stages, Running
      <4> QED
        BY <2>5, <4>2
    <3>5. CASE EmitSuccess(b) \/ EmitFailure(b) \/ EmitError(b)
      BY <3>5, PublishReports DEF EmitSuccess, EmitFailure, EmitError
    <3>6. CASE InsertBegins(b)
      <4>1. Goto(b, "posting")
        BY <3>6 DEF InsertBegins
      <4>2. batches'[b].pc = "posting"
        BY <4>1, GotoBatches DEF Inv, TypeOK, Stages, Running
      <4> QED
        BY <2>5, <4>2
    <3> QED
      BY <1>2, <3>2, <3>3, <3>4, <3>5, <3>6 DEF Callback
  <2>6. ASSUME dtor = "alive", NEW a \in DOMAIN batches PROVE Told(a)'
    <3>1. CASE a = b
      BY <2>2, <2>5, <2>6, <3>1 DEF Told
    <3>2. CASE a # b
      BY <2>2, <2>4, <2>6, <3>2 DEF Told, FateInv
    <3> QED
      BY <3>1, <3>2
  <2> QED
    BY <2>2, <2>3, <2>6 DEF FateInv
<1>3. ASSUME UNCHANGED <<batches, events>> PROVE \A b \in DOMAIN batches : Told(b)' <=> Told(b)
  BY <1>3 DEF Told, Lines, Reported
<1>4. CASE insert \/ (\E b \in DOMAIN batches : ServerApplies(b)) \/ UNCHANGED vars
  <2>1. UNCHANGED <<batches, events, lifeVars>>
    BY <1>4 DEF insert, ServerApplies, vars
  <2> QED
    BY <1>3, <2>1 DEF FateInv
<1>5. CASE StopAccepting \/ UnsubscribeListener \/ DestroyMembers
  BY <1>3, <1>5 DEF StopAccepting, UnsubscribeListener, DestroyMembers, FateInv
<1> QED
  BY <1>1, <1>2, <1>4, <1>5 DEF Next

LEMMA FateHolds == Spec => []FateInv
<1>1. Init => FateInv
  <2> SUFFICES ASSUME Init PROVE FateInv
    OBVIOUS
  <2>1. DOMAIN batches = {}
    BY DEF Init
  <2> QED
    BY <2>1 DEF Init, FateInv
<1>2. Inv /\ FateInv /\ [Next]_vars => FateInv'
  BY FateStep
<1> QED
  BY <1>1, <1>2, InvHolds, PTL DEF Spec

\* As long as the client is not being destroyed, each batch that is done with
\* has an event, whatever the server did.
THEOREM LossIsReported == Spec => []NoSilentLoss
<1>1. FateInv => NoSilentLoss
  BY DEF FateInv, Told, NoSilentLoss, Finished, Over
<1> QED
  BY <1>1, FateHolds, PTL

-----------------------------------------------------------------------------
(* Requests *)

Values(s) == {s[i] : i \in DOMAIN s}
Distinct(s) == \A i, j \in DOMAIN s : s[i] = s[j] => i = j

LEMMA AppendDistinct ==
  ASSUME NEW S, NEW s \in Seq(S), NEW e \in S
  PROVE  /\ Values(Append(s, e)) = Values(s) \union {e}
         /\ e \notin Values(s) /\ Distinct(s) => Distinct(Append(s, e))
<1>1. /\ DOMAIN s = 1 .. Len(s) /\ Len(s) \in Nat
      /\ DOMAIN Append(s, e) = 1 .. Len(s) + 1
      /\ \A i \in DOMAIN s : Append(s, e)[i] = s[i]
      /\ Append(s, e)[Len(s) + 1] = e
  OBVIOUS
<1>2. DOMAIN Append(s, e) = DOMAIN s \union {Len(s) + 1} /\ Len(s) + 1 \notin DOMAIN s
  BY <1>1
<1>3. Values(Append(s, e)) = Values(s) \union {e}
  BY <1>1, <1>2 DEF Values
<1>4. ASSUME e \notin Values(s), Distinct(s) PROVE Distinct(Append(s, e))
  BY <1>1, <1>2, <1>4 DEF Values, Distinct
<1> QED
  BY <1>3, <1>4

\* Only a callback that has passed its tests, with lines to send, makes a
\* request, and only a request is applied.
WireInv ==
  /\ Distinct(requests) /\ Distinct(database)
  /\ Values(database) \subseteq Values(requests)
  /\ \A b \in Values(requests) :
       b \in DOMAIN batches /\ batches[b].pc \notin {"queued", "entered"} /\ Lines(b) > 0
  /\ \A b \in Entered : Lines(b) > 0

\* A callback that has begun never queues again, and to pass its tests it has
\* to come from the queue, to hold lines and to read that started is true.
LEMMA TestsPassed ==
  ASSUME Inv, NEW b \in DOMAIN batches, Callback(b)
  PROVE  \E pc \in Stages \ {"queued"} :
           /\ Goto(b, pc)
           /\ pc = "entered" => batches[b].pc = "queued" /\ Lines(b) > 0 /\ TRUE \in EntryReads
<1>1. CASE RunBatch(b)
  <2>1. PICK s \in EntryReads : Goto(b, Enter(s, Lines(b)))
    BY <1>1 DEF RunBatch
  <2>2. Enter(s, Lines(b)) \in Stages \ {"queued"}
    BY DEF Enter, Stages, Running, Over
  <2>3. CASE Enter(s, Lines(b)) = "entered"
    <3>1. s \in BOOLEAN
      BY StartedReadsType DEF Inv
    <3>2. s = TRUE /\ Lines(b) # 0
      BY <2>3, <3>1 DEF Enter
    <3>3. Lines(b) > 0
      BY <3>2, LinesType
    <3>4. TRUE \in EntryReads
      BY <3>2, Zenon
    <3>5. batches[b].pc = "queued"
      BY <1>1 DEF RunBatch
    <3> QED
      BY <2>1, <2>2, <3>3, <3>4, <3>5, Zenon
  <2> QED
    BY <2>1, <2>2, <2>3
<1>2. CASE InsertReturns(b)
  <2>1. \E pc \in {"success", "done"} : Goto(b, pc)
    BY <1>2 DEF InsertReturns
  <2> QED
    BY <2>1 DEF Stages, Running, Over
<1>3. CASE InsertThrows(b)
  <2>1. \E pc \in {"failure", "error", "done"} : Goto(b, pc)
    BY <1>3 DEF InsertThrows, Rethrow
  <2> QED
    BY <2>1 DEF Stages, Running, Over
<1>4. CASE EmitSuccess(b) \/ EmitFailure(b) \/ EmitError(b)
  <2>1. \E pc \in {"error", "done"} : Goto(b, pc)
    BY <1>4 DEF EmitSuccess, EmitFailure, EmitError, Rethrow
  <2> QED
    BY <2>1 DEF Stages, Running, Over
<1>5. CASE InsertBegins(b)
  BY <1>5 DEF InsertBegins, Stages, Running
<1> QED
  BY <1>1, <1>2, <1>3, <1>4, <1>5 DEF Callback

\* Only a callback that has passed its tests makes a request.
LEMMA RequestStep ==
  ASSUME NEW b \in DOMAIN batches, Callback(b)
  PROVE  \/ requests' = requests
         \/ requests' = Append(requests, b) /\ batches[b].pc = "entered" /\ Goto(b, "posting")
  BY DEF Callback, RunBatch, InsertBegins, InsertReturns, InsertThrows,
         EmitSuccess, EmitFailure, EmitError

LEMMA WireStep ==
  ASSUME Inv, WireInv, [Next]_vars
  PROVE  WireInv'
<1>1. CASE TakeLine \/ WindowExpires
  <2>1. /\ DOMAIN batches \subseteq DOMAIN batches'
        /\ \A b \in DOMAIN batches : batches'[b] = batches[b]
        /\ UNCHANGED wireVars
    BY <1>1, WindowStep
  <2>2. \A b \in DOMAIN batches' \ DOMAIN batches : batches'[b].pc = "queued"
    BY <1>1, WindowStep
  <2>3. Entered' \subseteq Entered
    BY <2>1, <2>2 DEF Entered
  <2>4. \A b \in DOMAIN batches : Lines(b)' = Lines(b)
    BY <2>1 DEF Lines
  <2>5. \A b \in Entered' : Lines(b)' > 0
    BY <2>3, <2>4 DEF WireInv, Entered
  <2> QED
    BY <2>1, <2>4, <2>5 DEF WireInv, Values, Distinct
<1>2. ASSUME NEW b \in DOMAIN batches, Callback(b) PROVE WireInv'
  <2>1. PICK pc \in Stages \ {"queued"} :
          Goto(b, pc) /\ (pc = "entered" => batches[b].pc = "queued" /\ Lines(b) > 0)
    BY <1>2, TestsPassed
  <2>2. /\ DOMAIN batches' = DOMAIN batches
        /\ \A a \in DOMAIN batches : /\ Lines(a)' = Lines(a)
                                     /\ batches'[a].pc = IF a = b THEN pc ELSE batches[a].pc
    BY <2>1, GotoBatches DEF Inv, TypeOK, Lines
  <2>3. database' = database
    BY <1>2, CallbackStep
  <2>4. \A a \in Entered' : Lines(a)' > 0
    <3> SUFFICES ASSUME NEW a \in Entered' PROVE Lines(a)' > 0
      OBVIOUS
    <3>1. a \in DOMAIN batches /\ batches'[a].pc = "entered"
      BY <2>2 DEF Entered
    <3>2. CASE a = b
      BY <2>1, <2>2, <3>1, <3>2
    <3>3. CASE a # b
      BY <2>2, <3>1, <3>3 DEF WireInv, Entered
    <3> QED
      BY <3>2, <3>3
  <2>5. CASE requests' = requests
    <3>1. ASSUME NEW a \in Values(requests)
          PROVE  a \in DOMAIN batches' /\ batches'[a].pc \notin {"queued", "entered"}
                 /\ Lines(a)' > 0
      <4>1. /\ a \in DOMAIN batches /\ batches[a].pc \notin {"queued", "entered"}
            /\ Lines(a) > 0
        BY <3>1 DEF WireInv
      <4> QED
        BY <2>1, <2>2, <4>1
    <3> QED
      BY <2>3, <2>4, <2>5, <3>1 DEF WireInv, Values, Distinct
  <2>6. CASE requests' = Append(requests, b) /\ batches[b].pc = "entered" /\ Goto(b, "posting")
    <3>1. b \in Nat /\ requests \in Seq(Nat)
      BY DEF Inv, TypeOK
    <3>2. b \notin Values(requests)
      BY <2>6 DEF WireInv
    <3>3. Values(requests') = Values(requests) \union {b} /\ Distinct(requests')
      BY <2>6, <3>1, <3>2, AppendDistinct DEF WireInv
    <3>4. Distinct(database') /\ Values(database') \subseteq Values(requests')
      BY <2>3, <3>3 DEF WireInv
    <3>5. batches'[b].pc = "posting"
      BY <2>6, GotoBatches DEF Inv, TypeOK, Stages, Running
    <3>6. Lines(b) > 0
      BY <2>6 DEF WireInv, Entered
    <3>7. ASSUME NEW a \in Values(requests')
          PROVE  a \in DOMAIN batches' /\ batches'[a].pc \notin {"queued", "entered"}
                 /\ Lines(a)' > 0
      <4>1. CASE a = b
        BY <2>2, <3>5, <3>6, <4>1
      <4>2. CASE a # b
        BY <2>2, <3>3, <3>7, <4>2 DEF WireInv
      <4> QED
        BY <4>1, <4>2
    <3> QED
      BY <2>4, <3>3, <3>4, <3>7 DEF WireInv
  <2> QED
    BY <1>2, <2>5, <2>6, RequestStep
<1>3. ASSUME NEW b \in DOMAIN batches, ServerApplies(b) PROVE WireInv'
  <2>1. b \in Nat /\ database \in Seq(Nat)
    BY DEF Inv, TypeOK
  <2>2. b \in Values(requests) /\ b \notin Values(database) /\ database' = Append(database, b)
        /\ UNCHANGED <<requests, batches>>
    BY <1>3 DEF ServerApplies, Requested, Applied, Values
  <2>3. Values(database') = Values(database) \union {b} /\ Distinct(database')
    BY <2>1, <2>2, AppendDistinct DEF WireInv
  <2> QED
    BY <2>2, <2>3 DEF WireInv, Entered, Lines
<1>4. CASE UNCHANGED <<batches, wireVars>>
  BY <1>4 DEF WireInv, Values, Distinct, Entered, Lines
<1>5. insert \/ StopAccepting \/ UnsubscribeListener \/ DestroyMembers \/ UNCHANGED vars
        => UNCHANGED <<batches, wireVars>>
  BY DEF insert, StopAccepting, UnsubscribeListener, DestroyMembers, vars
<1> QED
  BY <1>1, <1>2, <1>3, <1>4, <1>5 DEF Next

LEMMA WireHolds == Spec => []WireInv
<1>1. Init => WireInv
  BY DEF Init, WireInv, Values, Distinct, Entered
<1>2. Inv /\ WireInv /\ [Next]_vars => WireInv'
  BY WireStep
<1> QED
  BY <1>1, <1>2, InvHolds, PTL DEF Spec

\* A batch is sent at most once and applied at most once, and never an empty
\* one: failures, late answers and the destructor included.
THEOREM WrittenAtMostOnce == Spec => []AtMostOnce
<1>1. WireInv => AtMostOnce
  BY DEF WireInv, AtMostOnce, Distinct, Values, Requested
<1> QED
  BY <1>1, WireHolds, PTL

-----------------------------------------------------------------------------
(* One callback at a time on each thread *)

\* A callback has begun only after all earlier ones of its thread have ended.
TurnInv ==
  \A a, b \in DOMAIN batches :
    a < b /\ batches[a].loop = batches[b].loop /\ batches[b].pc # "queued" => Finished(a)

\* A callback that is over does nothing.
LEMMA FinishedIsOver ==
  ASSUME NEW b \in DOMAIN batches, Callback(b)
  PROVE  ~Finished(b)
  BY DEF Callback, RunBatch, InsertBegins, InsertReturns, InsertThrows,
         EmitSuccess, EmitFailure, EmitError, Finished, Over

\* A callback that begins has its turn, and one that has ended does nothing.
LEMMA TurnTaken ==
  ASSUME NEW b \in DOMAIN batches, Callback(b)
  PROVE  ~Finished(b) /\ (batches[b].pc = "queued" => MyTurn(b))
  BY FinishedIsOver DEF Callback, RunBatch, InsertBegins, InsertReturns, InsertThrows,
     EmitSuccess, EmitFailure, EmitError

LEMMA TurnStep ==
  ASSUME Inv, TurnInv, [Next]_vars
  PROVE  TurnInv'
<1>1. CASE TakeLine \/ WindowExpires
  <2>1. /\ DOMAIN batches \subseteq DOMAIN batches'
        /\ \A b \in DOMAIN batches : batches'[b] = batches[b]
        /\ \A b \in DOMAIN batches' \ DOMAIN batches :
             batches'[b].pc = "queued" /\ \A a \in DOMAIN batches : a < b
    BY <1>1, WindowStep
  <2>2. DOMAIN batches \subseteq Int /\ DOMAIN batches' \subseteq Int
    <3>1. batches \in Seq(Batch) /\ batches' \in Seq(Batch)
      BY InvStep DEF Inv, TypeOK
    <3> QED
      BY <3>1
  <2> SUFFICES ASSUME NEW a \in DOMAIN batches', NEW b \in DOMAIN batches', a < b,
                      batches'[a].loop = batches'[b].loop, batches'[b].pc # "queued"
               PROVE  Finished(a)'
    BY DEF TurnInv
  <2>3. b \in DOMAIN batches
    BY <2>1
  <2>4. a \in DOMAIN batches
    BY <2>1, <2>2, <2>3
  <2> QED
    BY <2>1, <2>3, <2>4 DEF TurnInv, Finished
<1>2. ASSUME NEW c \in DOMAIN batches, Callback(c) PROVE TurnInv'
  <2>1. PICK pc \in Stages : Goto(c, pc)
    BY <1>2, CallbackStep
  <2>2. /\ DOMAIN batches' = DOMAIN batches
        /\ \A a \in DOMAIN batches : /\ batches'[a].loop = batches[a].loop
                                     /\ batches'[a].pc = IF a = c THEN pc ELSE batches[a].pc
    BY <2>1, GotoBatches DEF Inv, TypeOK
  <2>3. ~Finished(c) /\ (batches[c].pc = "queued" => MyTurn(c))
    BY <1>2, TurnTaken
  <2> SUFFICES ASSUME NEW a \in DOMAIN batches, NEW b \in DOMAIN batches, a < b,
                      batches[a].loop = batches[b].loop, batches'[b].pc # "queued"
               PROVE  Finished(a)'
    BY <2>2 DEF TurnInv
  <2>4. DOMAIN batches = 1 .. Len(batches) /\ Len(batches) \in Nat
    BY DEF Inv, TypeOK
  <2>5. Finished(a)
    <3>1. CASE batches[b].pc # "queued"
      BY <3>1 DEF TurnInv
    <3>2. CASE batches[b].pc = "queued"
      <4>1. b = c /\ MyTurn(b)
        BY <2>2, <2>3, <3>2
      <4>2. a \in 1 .. b - 1
        BY <2>4
      <4> QED
        BY <4>1, <4>2 DEF MyTurn
    <3> QED
      BY <3>1, <3>2
  <2> QED
    BY <2>2, <2>3, <2>5 DEF Finished
<1>3. CASE UNCHANGED batches
  BY <1>3 DEF TurnInv, Finished
<1>4. insert \/ (\E b \in DOMAIN batches : ServerApplies(b))
        \/ StopAccepting \/ UnsubscribeListener \/ DestroyMembers \/ UNCHANGED vars
      => UNCHANGED batches
  BY DEF insert, ServerApplies, StopAccepting, UnsubscribeListener, DestroyMembers, vars
<1> QED
  BY <1>1, <1>2, <1>3, <1>4 DEF Next

LEMMA TurnHolds == Spec => []TurnInv
<1>1. Init => TurnInv
  BY DEF Init, TurnInv
<1>2. Inv /\ TurnInv /\ [Next]_vars => TurnInv'
  BY TurnStep
<1> QED
  BY <1>1, <1>2, InvHolds, PTL DEF Spec

\* Two callbacks of one thread are never both under way.
LEMMA OneRunsPerThread ==
  ASSUME Inv, TurnInv, NEW a \in DOMAIN batches, NEW b \in DOMAIN batches,
         batches[a].loop = batches[b].loop,
         batches[a].pc \in Running, batches[b].pc \in Running
  PROVE  a = b
<1>1. a \in Int /\ b \in Int
  BY DEF Inv, TypeOK
<1>2. ~Finished(a) /\ ~Finished(b) /\ batches[a].pc # "queued" /\ batches[b].pc # "queued"
  BY DEF Finished, Running, Over
<1>3. ~(a < b) /\ ~(b < a)
  BY <1>2 DEF TurnInv
<1> QED
  BY <1>1, <1>3

-----------------------------------------------------------------------------
(* The destructor *)

StopInv ==
  /\ dtor \in {"unsubscribed", "destroyed"} => listening = FALSE
  /\ dtor = "destroyed" => \A b \in DOMAIN batches : Finished(b)

LEMMA StopStep ==
  ASSUME ~RequestsOutlive, Inv, StopInv, [Next]_vars
  PROVE  StopInv'
<1>1. CASE TakeLine \/ WindowExpires
  <2>1. listening = TRUE /\ UNCHANGED lifeVars
    BY <1>1, WindowStep DEF Inv, TypeOK
  <2> QED
    BY <2>1 DEF StopInv
<1>2. ASSUME NEW b \in DOMAIN batches, Callback(b) PROVE StopInv'
  <2>1. UNCHANGED lifeVars
    BY <1>2, CallbackStep
  <2>2. dtor # "destroyed"
    BY <1>2, FinishedIsOver DEF StopInv
  <2> QED
    BY <2>1, <2>2 DEF StopInv
<1>3. CASE insert \/ (\E b \in DOMAIN batches : ServerApplies(b)) \/ UNCHANGED vars
  <2>1. UNCHANGED <<batches, lifeVars>>
    BY <1>3 DEF insert, ServerApplies, vars
  <2> QED
    BY <2>1 DEF StopInv, Finished
<1>4. CASE StopAccepting \/ UnsubscribeListener
  BY <1>4 DEF StopAccepting, UnsubscribeListener, StopInv
<1>5. CASE DestroyMembers
  BY <1>5 DEF DestroyMembers, StopInv, Finished
<1> QED
  BY <1>1, <1>2, <1>3, <1>4, <1>5 DEF Next

\* The steps of the destructor, of the callers and of the server neither start
\* a request nor run a callback.
LEMMA OthersStartNothing ==
  ASSUME insert \/ (\E b \in DOMAIN batches : ServerApplies(b)) \/ StopAccepting
           \/ UnsubscribeListener \/ DestroyMembers \/ UNCHANGED vars
  PROVE  UNCHANGED <<batches, requests>>
  BY DEF insert, ServerApplies, StopAccepting, UnsubscribeListener, DestroyMembers, vars

\* After the destructor has begun, the only requests still to come are those of
\* callbacks that passed the test of started before, at most one on each loop
\* thread.  This holds if requests do not outlast the destructor's sleeps; a
\* callback that runs after them may read anything in started.
THEOREM StopsRequests ==
  ASSUME ~RequestsOutlive
  PROVE  Spec => FewRequestsAfterStop
<1> DEFINE Few == /\ Entered' \subseteq Entered
                  /\ Requested' \subseteq Requested \union Entered
                  /\ \A a, b \in Entered : batches[a].loop = batches[b].loop => a = b
<1>1. Init => StopInv
  BY DEF Init, StopInv
<1>2. Inv /\ StopInv /\ [Next]_vars => StopInv'
  BY StopStep
<1>3. Inv /\ StopInv /\ TurnInv /\ [Next]_vars => [~started => Few]_vars
  <2> SUFFICES ASSUME Inv, StopInv, TurnInv, [Next]_vars, ~started PROVE Few
    OBVIOUS
  <2>1. started = FALSE
    BY DEF Inv, TypeOK
  <2>2. \A a, b \in Entered : batches[a].loop = batches[b].loop => a = b
    BY OneRunsPerThread DEF Entered, Running
  <2>3. ASSUME NEW c \in DOMAIN batches, Callback(c)
        PROVE  Entered' \subseteq Entered /\ Requested' \subseteq Requested \union Entered
    <3>1. dtor # "destroyed"
      BY <2>3, FinishedIsOver DEF StopInv
    <3>2. TRUE \notin EntryReads
      BY <2>1, <3>1 DEF EntryReads, StartedReads
    <3>3. PICK pc \in Stages : Goto(c, pc) /\ pc # "entered"
      BY <2>3, <3>2, TestsPassed
    <3>4. Entered' \subseteq Entered
      <4>1. /\ DOMAIN batches' = DOMAIN batches
            /\ \A a \in DOMAIN batches : batches'[a].pc = IF a = c THEN pc ELSE batches[a].pc
        BY <3>3, GotoBatches DEF Inv, TypeOK
      <4> QED
        BY <3>3, <4>1 DEF Entered
    <3>5. CASE requests' = requests
      BY <3>4, <3>5 DEF Requested
    <3>6. CASE requests' = Append(requests, c) /\ batches[c].pc = "entered"
      <4>1. requests \in Seq(Nat) /\ c \in Nat
        BY DEF Inv, TypeOK
      <4>2. Values(requests') = Values(requests) \union {c}
        BY <3>6, <4>1, AppendDistinct
      <4>3. c \in Entered
        BY <3>6 DEF Entered
      <4> QED
        BY <3>4, <4>2, <4>3 DEF Requested, Values
    <3> QED
      BY <2>3, <3>5, <3>6, RequestStep
  <2>4. CASE TakeLine \/ WindowExpires
    <3>1. /\ \A b \in DOMAIN batches : batches'[b] = batches[b]
          /\ \A b \in DOMAIN batches' \ DOMAIN batches : batches'[b].pc = "queued"
          /\ requests' = requests
      BY <2>4, WindowStep
    <3>2. Entered' \subseteq Entered
      BY <3>1 DEF Entered
    <3> QED
      BY <2>2, <3>1, <3>2 DEF Requested
  <2>5. CASE UNCHANGED <<batches, requests>>
    BY <2>2, <2>5 DEF Entered, Requested
  <2> QED
    BY <2>2, <2>3, <2>4, <2>5, OthersStartNothing DEF Next
<1> QED
  BY <1>1, <1>2, <1>3, InvHolds, TurnHolds, PTL DEF Spec, FewRequestsAfterStop

-----------------------------------------------------------------------------
(* Events *)

\* A success event is published as the last act of a callback, after the server
\* has applied the batch.
Truthful(i) ==
  events[i].ok = TRUE =>
    /\ events[i].batch \in Values(database)
    /\ batches[events[i].batch].pc = "done"
    /\ events[i].lines = Lines(events[i].batch)
    /\ \A j \in DOMAIN events : events[j].batch = events[i].batch => j = i

\* Other events are published at the end of it, too.
EventInv ==
  /\ \A b \in DOMAIN batches : batches[b].pc = "success" => b \in Values(database)
  /\ \A i \in DOMAIN events :
       /\ events[i].batch \in DOMAIN batches
       /\ batches[events[i].batch].pc \in {"error", "done"}
  /\ \A i \in DOMAIN events : Truthful(i)

\* An event only comes out of one of the three states that emit.
LEMMA EventStep ==
  ASSUME Inv, NEW b \in DOMAIN batches, Callback(b)
  PROVE  \/ /\ events' = events
            /\ batches[b].pc \notin {"error", "done"}
            /\ \E pc \in Stages : Goto(b, pc) /\ (pc = "success" => b \in Values(database))
         \/ /\ batches[b].pc = "success" /\ Publish(b, TRUE, Lines(b)) /\ Goto(b, "done")
         \/ /\ batches[b].pc \in {"failure", "error"}
            /\ \E n \in Nat : Publish(b, FALSE, n)
            /\ \E pc \in {"error", "done"} : Goto(b, pc)
<1>1. CASE RunBatch(b)
  <2>1. PICK s \in EntryReads : Goto(b, Enter(s, Lines(b)))
    BY <1>1 DEF RunBatch
  <2>2. Enter(s, Lines(b)) \in Stages /\ Enter(s, Lines(b)) # "success"
    BY DEF Enter, Stages, Running, Over
  <2> QED
    BY <1>1, <2>1, <2>2 DEF RunBatch
<1>2. CASE InsertReturns(b)
  <2>1. \E pc \in {"success", "done"} : Goto(b, pc)
    BY <1>2 DEF InsertReturns
  <2>2. b \in Values(database)
    BY <1>2 DEF InsertReturns, Applied, Values
  <2> QED
    BY <1>2, <2>1, <2>2 DEF InsertReturns, Stages, Running, Over
<1>3. CASE InsertThrows(b)
  <2>1. \E pc \in {"failure", "error", "done"} : Goto(b, pc)
    BY <1>3 DEF InsertThrows, Rethrow
  <2> QED
    BY <1>3, <2>1 DEF InsertThrows, Stages, Running, Over
<1>4. CASE EmitSuccess(b)
  BY <1>4 DEF EmitSuccess
<1>5. CASE EmitFailure(b)
  <2>1. \E pc \in {"error", "done"} : Goto(b, pc)
    BY <1>5 DEF EmitFailure, Rethrow
  <2> QED
    BY <1>5, <2>1, LinesType DEF EmitFailure
<1>6. CASE EmitError(b)
  BY <1>6 DEF EmitError
<1>7. CASE InsertBegins(b)
  BY <1>7 DEF InsertBegins, Stages, Running
<1> QED
  BY <1>1, <1>2, <1>3, <1>4, <1>5, <1>6, <1>7 DEF Callback

\* What an event appended to the others looks like.
LEMMA PublishEvent ==
  ASSUME Inv, NEW b, NEW ok, NEW n, Publish(b, ok, n)
  PROVE  /\ DOMAIN events' = DOMAIN events \union {Len(events) + 1}
         /\ Len(events) + 1 \notin DOMAIN events
         /\ \A i \in DOMAIN events : events'[i] = events[i]
         /\ events'[Len(events) + 1].batch = b
         /\ events'[Len(events) + 1].ok = ok
         /\ events'[Len(events) + 1].lines = n
<1> DEFINE e == [batch |-> b, ok |-> ok, lines |-> n]
<1>1. events' = Append(events, e) /\ e.batch = b /\ e.ok = ok /\ e.lines = n
  BY DEF Publish
<1>2. events \in Seq(Event)
  BY DEF Inv, TypeOK
<1> HIDE DEF e
<1> QED
  BY <1>1, <1>2

LEMMA EventInvStep ==
  ASSUME Inv, EventInv, [Next]_vars
  PROVE  EventInv'
<1>1. CASE TakeLine \/ WindowExpires
  <2>1. /\ DOMAIN batches \subseteq DOMAIN batches'
        /\ \A b \in DOMAIN batches : batches'[b] = batches[b]
        /\ \A b \in DOMAIN batches' \ DOMAIN batches : batches'[b].pc = "queued"
        /\ UNCHANGED <<database, events>>
    BY <1>1, WindowStep
  <2> QED
    BY <2>1 DEF EventInv, Truthful, Values, Lines
<1>2. ASSUME NEW b \in DOMAIN batches, Callback(b) PROVE EventInv'
  <2>1. database' = database
    BY <1>2, CallbackStep
  <2>2. ASSUME NEW pc \in Stages, Goto(b, pc)
        PROVE  /\ DOMAIN batches' = DOMAIN batches
               /\ \A a \in DOMAIN batches : /\ Lines(a)' = Lines(a)
                                            /\ batches'[a].pc = IF a = b THEN pc ELSE batches[a].pc
    BY <2>2, GotoBatches DEF Inv, TypeOK, Lines
  <2>3. ASSUME events' = events, batches[b].pc \notin {"error", "done"},
               NEW pc \in Stages, Goto(b, pc), pc = "success" => b \in Values(database)
        PROVE  EventInv'
    <3>1. \A i \in DOMAIN events : events[i].batch # b
      BY <2>3 DEF EventInv
    <3> QED
      BY <2>1, <2>2, <2>3, <3>1 DEF EventInv, Truthful, Values, Lines
  <2>4. ASSUME batches[b].pc = "success", Publish(b, TRUE, Lines(b)), Goto(b, "done")
        PROVE  EventInv'
    <3>1. \A i \in DOMAIN events : events[i].batch # b
      BY <2>4 DEF EventInv
    <3>2. "done" \in Stages
      BY DEF Stages, Over
    <3>3. b \in Values(database) /\ Values(database') = Values(database)
      BY <2>1, <2>4 DEF EventInv
    <3> DEFINE k == Len(events) + 1
    <3>4. /\ DOMAIN batches' = DOMAIN batches
          /\ \A a \in DOMAIN batches : /\ Lines(a)' = Lines(a)
                                       /\ batches'[a].pc = IF a = b THEN "done" ELSE batches[a].pc
      BY <2>2, <2>4, <3>2
    <3>5. /\ DOMAIN events' = DOMAIN events \union {k} /\ k \notin DOMAIN events
          /\ \A i \in DOMAIN events : events'[i] = events[i]
          /\ events'[k].batch = b /\ events'[k].ok = TRUE /\ events'[k].lines = Lines(b)
      BY <2>4, PublishEvent
    <3> HIDE DEF k
    <3>6. \A a \in DOMAIN batches' : batches'[a].pc = "success" => a \in Values(database')
      BY <3>3, <3>4 DEF EventInv
    <3>7. \A i \in DOMAIN events' : /\ events'[i].batch \in DOMAIN batches'
                                   /\ batches'[events'[i].batch].pc \in {"error", "done"}
      BY <3>4, <3>5 DEF EventInv
    <3>8. ASSUME NEW i \in DOMAIN events' PROVE Truthful(i)'
      <4>1. CASE i = k
        BY <3>1, <3>3, <3>4, <3>5, <4>1 DEF Truthful, Lines
      <4>2. CASE i \in DOMAIN events
        BY <3>1, <3>3, <3>4, <3>5, <4>2 DEF EventInv, Truthful, Lines
      <4> QED
        BY <3>5, <4>1, <4>2
    <3> QED
      BY <3>6, <3>7, <3>8 DEF EventInv
  <2>5. ASSUME batches[b].pc \in {"failure", "error"}, NEW n \in Nat, Publish(b, FALSE, n),
               NEW pc \in {"error", "done"}, Goto(b, pc)
        PROVE  EventInv'
    <3>1. \A i \in DOMAIN events : events[i].ok = TRUE => events[i].batch # b
      BY <2>5 DEF EventInv, Truthful
    <3>2. pc \in Stages
      BY DEF Stages, Running, Over
    <3>3. Values(database') = Values(database)
      BY <2>1
    <3> DEFINE k == Len(events) + 1
    <3>4. /\ DOMAIN batches' = DOMAIN batches
          /\ \A a \in DOMAIN batches : /\ Lines(a)' = Lines(a)
                                       /\ batches'[a].pc = IF a = b THEN pc ELSE batches[a].pc
      BY <2>2, <2>5, <3>2
    <3>5. /\ DOMAIN events' = DOMAIN events \union {k} /\ k \notin DOMAIN events
          /\ \A i \in DOMAIN events : events'[i] = events[i]
          /\ events'[k].batch = b /\ events'[k].ok = FALSE
      BY <2>5, PublishEvent
    <3> HIDE DEF k
    <3>6. \A a \in DOMAIN batches' : batches'[a].pc = "success" => a \in Values(database')
      BY <2>5, <3>3, <3>4 DEF EventInv
    <3>7. \A i \in DOMAIN events' : /\ events'[i].batch \in DOMAIN batches'
                                   /\ batches'[events'[i].batch].pc \in {"error", "done"}
      BY <2>5, <3>4, <3>5 DEF EventInv
    <3>8. ASSUME NEW i \in DOMAIN events' PROVE Truthful(i)'
      <4>1. CASE i = k
        BY <3>5, <4>1 DEF Truthful
      <4>2. CASE i \in DOMAIN events
        BY <3>1, <3>3, <3>4, <3>5, <4>2 DEF EventInv, Truthful, Lines
      <4> QED
        BY <3>5, <4>1, <4>2
    <3> QED
      BY <3>6, <3>7, <3>8 DEF EventInv
  <2> QED
    BY <1>2, <2>3, <2>4, <2>5, EventStep
<1>3. ASSUME NEW b \in DOMAIN batches, ServerApplies(b) PROVE EventInv'
  <2>1. b \in Nat /\ database \in Seq(Nat)
    BY DEF Inv, TypeOK
  <2>2. database' = Append(database, b) /\ UNCHANGED <<batches, events>>
    BY <1>3 DEF ServerApplies
  <2>3. Values(database) \subseteq Values(database')
    BY <2>1, <2>2, AppendDistinct
  <2> QED
    BY <2>2, <2>3 DEF EventInv, Truthful, Lines
<1>4. CASE UNCHANGED <<batches, events, database>>
  BY <1>4 DEF EventInv, Truthful, Values, Lines
<1>5. insert \/ StopAccepting \/ UnsubscribeListener \/ DestroyMembers \/ UNCHANGED vars
        => UNCHANGED <<batches, events, database>>
  BY DEF insert, StopAccepting, UnsubscribeListener, DestroyMembers, vars
<1> QED
  BY <1>1, <1>2, <1>3, <1>4, <1>5 DEF Next

LEMMA EventHolds == Spec => []EventInv
<1>1. Init => EventInv
  BY DEF Init, EventInv
<1>2. Inv /\ EventInv /\ [Next]_vars => EventInv'
  BY EventInvStep
<1> QED
  BY <1>1, <1>2, InvHolds, PTL DEF Spec

\* A success event is right: the server has applied the batch, the event has
\* its size, and no other event, before or after it, speaks of that batch.
THEOREM SuccessIsTrue == Spec => []EventsTruthful
<1>1. EventInv => EventsTruthful
  BY DEF EventInv, Truthful, EventsTruthful, Applied, Values
<1> QED
  BY <1>1, EventHolds, PTL

=============================================================================
