------------------------- MODULE AsyncTimingProofs -------------------------
(***************************************************************************)
(* Theorems about the two places where the client trusts the clock: the    *)
(* destructor's sleeps are enough if they outlast every request, and the   *)
(* quiet period of wait_for_submission() if it outlasts a window and a     *)
(* request.                                                                *)
(***************************************************************************)
EXTENDS AsyncTiming, AsyncDeliveryProofs, Recursion

USE DEF lineVars, wireVars, lifeVars, clocks

-----------------------------------------------------------------------------
(* Time added, nothing else *)

LEMMA ACallback ==
  ASSUME NEW b, Run(b) \/ Request(b) \/ Emit(b)
  PROVE  Callback(b)
  BY DEF Run, Request, Emit, Callback

\* With its clocks the client does nothing it would not do without.
LEMMA TimedStepIsStep == [TimedNext]_timedVars => [Next]_vars
<1>1. CASE CutWindow \/ Others \/ Destroy
  BY <1>1 DEF CutWindow, Others, Destroy, Next
<1>2. ASSUME NEW b \in DOMAIN batches, Run(b) \/ Request(b) \/ Emit(b)
      PROVE  Next
  BY <1>2, ACallback DEF Next
<1>3. CASE IdleWindow \/ wait_for_submission \/ WaitReturns \/ Tick \/ UNCHANGED timedVars
  BY <1>3 DEF IdleWindow, wait_for_submission, WaitReturns, Tick, timedVars
<1> QED
  BY <1>1, <1>2, <1>3 DEF TimedNext

LEMMA TimedIsSpec == TimedSpec => Spec
<1>1. TimedInit => Init
  BY DEF TimedInit
<1> QED
  BY <1>1, TimedStepIsStep, PTL DEF TimedSpec, Spec

\* What is known of the client without its clocks.
Known == Inv /\ TurnInv /\ FateInv

LEMMA KnownHolds == TimedSpec => []Known
  BY TimedIsSpec, InvHolds, TurnHolds, FateHolds, PTL DEF Known

LEMMA LatencyType == MaxLatency \in Nat
  BY TimingAssumption DEF MaxLatency

\* Besides the callbacks and the worker nothing changes the batches.
LEMMA BatchesStay ==
  ASSUME IdleWindow \/ wait_for_submission \/ WaitReturns \/ Tick \/ Destroy \/ Others
           \/ UNCHANGED timedVars
  PROVE  UNCHANGED <<batches, taken, cut, requests, events>>
  BY DEF IdleWindow, wait_for_submission, WaitReturns, Tick, Destroy, Others, timedVars, vars,
         insert, ServerApplies, StopAccepting, UnsubscribeListener, DestroyMembers

LEMMA MovesOn ==
  ASSUME Inv, NEW c \in DOMAIN batches, Callback(c)
  PROVE  /\ DOMAIN batches' = DOMAIN batches
         /\ \A a \in DOMAIN batches : /\ batches'[a].first = batches[a].first
                                      /\ batches'[a].last = batches[a].last
                                      /\ batches'[a].loop = batches[a].loop
         /\ \A a \in DOMAIN batches \ {c} : batches'[a].pc = batches[a].pc
         /\ UNCHANGED <<accepted, taken, cut, started, listening, dtor>>
<1>1. PICK pc \in Stages : Goto(c, pc)
  BY CallbackStep
<1>2. UNCHANGED <<lineVars, lifeVars>>
  BY CallbackStep
<1> QED
  BY <1>1, <1>2, GotoBatches DEF Inv, TypeOK

LEMMA BatchType ==
  ASSUME Inv, NEW b \in DOMAIN batches
  PROVE  batches[b].loop \in Loops /\ batches[b].pc \in Stages
<1>1. batches[b] \in Batch
  BY DEF Inv, TypeOK
<1> QED
  BY <1>1 DEF Batch

\* The types of the clocks.
ClockInv ==
  /\ windowAge \in 0 .. WindowTicks
  /\ requestAge \in [Loops -> Nat]
  /\ graceAge \in 0 .. Grace
  /\ quietAge \in 0 .. Quiet
  /\ waitedFor \in 0 .. accepted

LEMMA ClockStep ==
  ASSUME Inv, ClockInv, [TimedNext]_timedVars
  PROVE  ClockInv'
<1> USE TimingAssumption DEF ClockInv
<1>1. accepted \in Nat
  BY DEF Inv, TypeOK
<1>2. CASE CutWindow
  <2>1. accepted' = accepted
    BY <1>2 DEF CutWindow, TakeLine, WindowExpires
  <2> QED
    BY <1>2, <2>1 DEF CutWindow
<1>3. CASE IdleWindow \/ WaitReturns \/ wait_for_submission \/ UNCHANGED timedVars
  BY <1>1, <1>3 DEF IdleWindow, WaitReturns, wait_for_submission, timedVars, vars
<1>4. ASSUME NEW b \in DOMAIN batches, Run(b) \/ Request(b) \/ Emit(b)
      PROVE  ClockInv'
  <2>1. accepted' = accepted
    BY <1>4, ACallback, MovesOn
  <2>2. 0 \in 0 .. Quiet
    OBVIOUS
  <2>3. [requestAge EXCEPT ![batches[b].loop] = 0] \in [Loops -> Nat]
    OBVIOUS
  <2> QED
    BY <1>4, <2>1, <2>2, <2>3 DEF Run, Request, Emit
<1>5. CASE Destroy
  BY <1>5 DEF Destroy, StopAccepting, UnsubscribeListener, DestroyMembers
<1>6. CASE Others
  <2>1. accepted' \in {accepted, accepted + 1}
    BY <1>6 DEF Others, insert, ServerApplies
  <2> QED
    BY <1>1, <1>6, <2>1 DEF Others
<1>7. CASE Tick
  <2>1. /\ \A limit \in Nat : \A age \in 0 .. limit : Older(age, limit) \in 0 .. limit
        /\ accepted' = accepted
    BY <1>7 DEF Older, Tick, vars
  <2>2. requestAge' \in [Loops -> Nat]
    BY <1>7 DEF Tick
  <2> QED
    BY <1>7, <2>1, <2>2 DEF Tick
<1> QED
  BY <1>2, <1>3, <1>4, <1>5, <1>6, <1>7 DEF TimedNext

-----------------------------------------------------------------------------
(* Requests end with their timeout *)

\* No callback has been at it for longer than the timeout of its request.
LatencyInv ==
  \A b \in DOMAIN batches :
    batches[b].pc \in Running => requestAge[batches[b].loop] <= MaxLatency

\* Time does not pass while a thread could begin its next callback: if a batch
\* is not done with, its thread has a request under way.
LEMMA SomeRequest ==
  ASSUME Inv, ~Urgent, NEW b \in DOMAIN batches, ~Finished(b)
  PROVE  \E a \in DOMAIN batches :
           /\ batches[a].loop = batches[b].loop /\ batches[a].pc = "posting"
           /\ requestAge[batches[a].loop] # MaxLatency
<1> DEFINE M == {a \in DOMAIN batches : batches[a].loop = batches[b].loop /\ ~Finished(a)}
<1>1. DOMAIN batches = 1 .. Len(batches) /\ Len(batches) \in Nat
  BY DEF Inv, TypeOK
<1>2. PICK a \in M : \A k \in M : a <= k
  <2>1. M \in SUBSET Nat /\ M # {}
    BY <1>1
  <2> QED
    BY <2>1, Least
<1>3. MyTurn(a)
  <2> SUFFICES ASSUME NEW k \in 1 .. a - 1, batches[k].loop = batches[a].loop, ~Finished(k)
               PROVE  FALSE
    BY DEF MyTurn
  <2>1. k \in M /\ ~(a <= k)
    BY <1>1
  <2> QED
    BY <1>2, <2>1
<1>4. batches[a].pc \in Stages
  BY BatchType
<1>5. batches[a].pc \notin {"queued", "entered", "success", "failure", "error"}
  BY <1>3 DEF Urgent
<1>6. batches[a].pc = "posting"
  BY <1>4, <1>5 DEF Stages, Running, Finished
<1> QED
  BY <1>6 DEF Urgent

LEMMA LatencyStep ==
  ASSUME Inv, ClockInv, LatencyInv, [TimedNext]_timedVars
  PROVE  LatencyInv'
<1>1. CASE CutWindow
  <2>1. /\ \A b \in DOMAIN batches : b \in DOMAIN batches' /\ batches'[b] = batches[b]
        /\ \A b \in DOMAIN batches' \ DOMAIN batches : batches'[b].pc = "queued"
    BY <1>1, WindowStep DEF CutWindow
  <2>2. "queued" \notin Running /\ requestAge' = requestAge /\ MaxLatency' = MaxLatency
    BY <1>1 DEF Running, CutWindow, MaxLatency
  <2> QED
    BY <2>1, <2>2 DEF LatencyInv
<1>2. ASSUME NEW c \in DOMAIN batches, Run(c) PROVE LatencyInv'
  <2>1. /\ requestAge' = [requestAge EXCEPT ![batches[c].loop] = 0] /\ MaxLatency' = MaxLatency
        /\ requestAge \in [Loops -> Nat]
    BY <1>2 DEF Run, MaxLatency, ClockInv
  <2>2. \A b \in DOMAIN batches : batches[b].loop \in Loops
    BY BatchType
  <2>3. /\ DOMAIN batches' = DOMAIN batches
        /\ \A a \in DOMAIN batches : batches'[a].loop = batches[a].loop
        /\ \A a \in DOMAIN batches \ {c} : batches'[a].pc = batches[a].pc
    BY <1>2, ACallback, MovesOn
  <2> SUFFICES ASSUME NEW b \in DOMAIN batches, batches'[b].pc \in Running
               PROVE  requestAge'[batches[b].loop] <= MaxLatency
    BY <2>1, <2>3 DEF LatencyInv
  <2>4. CASE batches[b].loop = batches[c].loop
    BY <2>1, <2>2, <2>4, LatencyType
  <2>5. CASE batches[b].loop # batches[c].loop
    BY <2>1, <2>2, <2>3, <2>5 DEF LatencyInv
  <2> QED
    BY <2>4, <2>5
<1>3. ASSUME NEW c \in DOMAIN batches, Request(c) \/ Emit(c) PROVE LatencyInv'
  <2>1. requestAge' = requestAge /\ MaxLatency' = MaxLatency /\ batches[c].pc \in Running
    BY <1>3 DEF Request, Emit, InsertBegins, InsertReturns, InsertThrows,
                EmitSuccess, EmitFailure, EmitError, Running, MaxLatency
  <2>2. /\ DOMAIN batches' = DOMAIN batches
        /\ \A a \in DOMAIN batches : batches'[a].loop = batches[a].loop
        /\ \A a \in DOMAIN batches \ {c} : batches'[a].pc = batches[a].pc
    BY <1>3, ACallback, MovesOn
  <2> QED
    BY <2>1, <2>2 DEF LatencyInv
<1>4. CASE Tick
  <2>1. /\ ~Urgent /\ batches' = batches /\ MaxLatency' = MaxLatency
        /\ requestAge' = [l \in Loops |-> IF Busy(l) THEN requestAge[l] + 1 ELSE 0]
    BY <1>4 DEF Tick, vars, MaxLatency
  <2> SUFFICES ASSUME NEW b \in DOMAIN batches, batches[b].pc \in Running
               PROVE  requestAge'[batches[b].loop] <= MaxLatency
    BY <2>1 DEF LatencyInv
  <2> DEFINE l == batches[b].loop
  <2>2. l \in Loops /\ requestAge[l] \in Nat /\ MaxLatency \in Nat
    BY LatencyType, BatchType DEF ClockInv
  <2>3. requestAge[l] # MaxLatency /\ requestAge[l] <= MaxLatency /\ Busy(l)
    BY <2>1 DEF Urgent, Running, LatencyInv, Busy
  <2>4. requestAge'[l] = requestAge[l] + 1
    BY <2>1, <2>2, <2>3
  <2> HIDE DEF l
  <2>5. requestAge'[l] <= MaxLatency
    BY <2>2, <2>3, <2>4
  <2> QED
    BY <2>5 DEF l
<1>5. CASE IdleWindow \/ wait_for_submission \/ WaitReturns \/ Destroy \/ Others
             \/ UNCHANGED timedVars
  <2>1. UNCHANGED batches /\ requestAge' = requestAge /\ MaxLatency' = MaxLatency
    BY <1>5, BatchesStay DEF IdleWindow, wait_for_submission, WaitReturns, Destroy, Others,
       timedVars, MaxLatency
  <2> QED
    BY <2>1 DEF LatencyInv
<1> QED
  BY <1>1, <1>2, <1>3, <1>4, <1>5 DEF TimedNext

-----------------------------------------------------------------------------
(* The destructor *)

\* While the destructor sleeps no request is younger than its sleep, and when it
\* has slept for as long as a request can last, nothing is left to run.
GraceInv ==
  /\ dtor \in {"unsubscribed", "destroyed"} => listening = FALSE
  /\ dtor \in {"alive", "stopped"} => graceAge = 0
  /\ dtor = "unsubscribed" =>
       /\ \A b \in DOMAIN batches :
            batches[b].pc \in Running => graceAge <= requestAge[batches[b].loop]
       /\ graceAge > MaxLatency => \A b \in DOMAIN batches : Finished(b)
  /\ dtor = "destroyed" => \A b \in DOMAIN batches : Finished(b)

\* The thread of a callback that begins is free.
LEMMA ThreadIsFree ==
  ASSUME Known, NEW c \in DOMAIN batches, RunBatch(c), NEW b \in DOMAIN batches,
         batches[b].loop = batches[c].loop
  PROVE  batches[b].pc \notin Running
<1>1. batches[c].pc = "queued" /\ MyTurn(c) /\ ~Finished(c)
  BY DEF RunBatch, Finished, Over
<1>2. b \in Int /\ c \in Int /\ (b < c => b \in 1 .. c - 1)
  BY DEF Known, Inv, TypeOK
<1>3. CASE b < c
  BY <1>1, <1>2, <1>3 DEF MyTurn, Finished, Running, Over
<1>4. CASE c < b
  BY <1>1, <1>4 DEF Known, TurnInv, Running
<1>5. CASE b = c
  BY <1>1, <1>5 DEF Running
<1> QED
  BY <1>2, <1>3, <1>4, <1>5

\* Once the listener is unsubscribed, a callback that begins gives up at once.
LEMMA BeginsInVain ==
  ASSUME Known, dtor = "unsubscribed", NEW c \in DOMAIN batches, RunBatch(c)
  PROVE  batches'[c].pc = "dropped"
<1>1. started = FALSE
  BY DEF Known, FateInv
<1>2. EntryReads = {FALSE}
  BY <1>1 DEF EntryReads, StartedReads
<1>3. Goto(c, "dropped")
  BY <1>2 DEF RunBatch, Enter
<1>4. "dropped" \in Stages /\ batches \in Seq(Batch)
  BY DEF Stages, Over, Known, Inv, TypeOK
<1> QED
  BY <1>3, <1>4, GotoBatches

LEMMA GraceStep ==
  ASSUME MaxLatency < Grace, Known, ClockInv, LatencyInv, GraceInv, [TimedNext]_timedVars
  PROVE  GraceInv'
<1>0. /\ Inv /\ MaxLatency \in Nat /\ Grace \in Nat /\ MaxLatency' = MaxLatency
      /\ dtor \in {"alive", "stopped", "unsubscribed", "destroyed"}
  BY LatencyType, TimingAssumption DEF Known, Inv, TypeOK, MaxLatency
<1>1. CASE CutWindow
  <2>1. listening = TRUE /\ UNCHANGED lifeVars /\ graceAge' = graceAge
    BY <1>0, <1>1, WindowStep DEF CutWindow, Inv, TypeOK
  <2> QED
    BY <2>1 DEF GraceInv
<1>2. ASSUME NEW c \in DOMAIN batches, Run(c) \/ Request(c) \/ Emit(c)
      PROVE  GraceInv'
  <2>1. Callback(c) /\ graceAge' = graceAge
    BY <1>2, ACallback DEF Run, Request, Emit
  <2>2. /\ DOMAIN batches' = DOMAIN batches
        /\ \A a \in DOMAIN batches : batches'[a].loop = batches[a].loop
        /\ \A a \in DOMAIN batches \ {c} : batches'[a].pc = batches[a].pc
        /\ listening' = listening /\ dtor' = dtor
    BY <1>0, <2>1, MovesOn
  <2>3. ~Finished(c)
    BY <2>1, FinishedIsOver
  <2>4. dtor # "destroyed"
    BY <2>3 DEF GraceInv
  <2>5. ASSUME dtor = "unsubscribed"
        PROVE  /\ ~(graceAge > MaxLatency)
               /\ \A b \in DOMAIN batches :
                    batches'[b].pc \in Running => graceAge <= requestAge'[batches[b].loop]
    <3>1. ~(graceAge > MaxLatency)
      BY <2>3, <2>5 DEF GraceInv
    <3>2. ASSUME NEW b \in DOMAIN batches, batches'[b].pc \in Running
          PROVE  graceAge <= requestAge'[batches[b].loop]
      <4>1. CASE RunBatch(c) /\ requestAge' = [requestAge EXCEPT ![batches[c].loop] = 0]
        <5>1. b # c
          BY <2>5, <3>2, <4>1, BeginsInVain DEF Running
        <5>2. batches[b].pc \in Running
          BY <2>2, <3>2, <5>1
        <5>3. batches[b].loop # batches[c].loop
          BY <4>1, <5>2, ThreadIsFree
        <5>4. requestAge'[batches[b].loop] = requestAge[batches[b].loop]
          BY <1>0, <4>1, <5>3, BatchType DEF ClockInv
        <5> QED
          BY <2>5, <5>2, <5>4 DEF GraceInv
      <4>2. CASE batches[c].pc \in Running /\ requestAge' = requestAge
        <5>1. batches[b].pc \in Running
          BY <2>2, <3>2, <4>2
        <5> QED
          BY <2>5, <4>2, <5>1 DEF GraceInv
      <4> QED
        BY <1>2, <4>1, <4>2 DEF Run, Request, Emit, InsertBegins, InsertReturns, InsertThrows,
           EmitSuccess, EmitFailure, EmitError, Running
    <3> QED
      BY <3>1, <3>2
  <2> QED
    BY <1>0, <2>1, <2>2, <2>4, <2>5 DEF GraceInv
<1>3. CASE Tick
  <2>1. /\ ~Urgent /\ UNCHANGED <<batches, lifeVars>>
        /\ requestAge' = [l \in Loops |-> IF Busy(l) THEN requestAge[l] + 1 ELSE 0]
        /\ graceAge' = IF dtor = "unsubscribed" THEN Older(graceAge, Grace) ELSE graceAge
    BY <1>3 DEF Tick, vars
  <2>2. ASSUME dtor = "unsubscribed", NEW b \in DOMAIN batches, ~Finished(b)
        PROVE  graceAge < MaxLatency
    <3>1. PICK a \in DOMAIN batches : /\ batches[a].pc = "posting"
                                      /\ requestAge[batches[a].loop] # MaxLatency
      BY <1>0, <2>1, <2>2, SomeRequest
    <3>2. graceAge <= requestAge[batches[a].loop] /\ requestAge[batches[a].loop] <= MaxLatency
      BY <2>2, <3>1 DEF Running, GraceInv, LatencyInv
    <3>3. requestAge[batches[a].loop] \in Nat /\ graceAge \in Nat
      BY <1>0, BatchType DEF ClockInv
    <3> QED
      BY <1>0, <3>1, <3>2, <3>3
  <2>3. ASSUME dtor = "unsubscribed", NEW b \in DOMAIN batches, batches[b].pc \in Running
        PROVE  graceAge' <= requestAge'[batches[b].loop]
    <3>1. batches[b].loop \in Loops /\ Busy(batches[b].loop)
      BY <1>0, <2>3, BatchType DEF Busy
    <3>2. requestAge'[batches[b].loop] = requestAge[batches[b].loop] + 1
      BY <2>1, <3>1
    <3>3. requestAge[batches[b].loop] \in Nat /\ graceAge \in Nat
      BY <1>0, <3>1 DEF ClockInv
    <3>4. graceAge <= requestAge[batches[b].loop] /\ graceAge' <= graceAge + 1
      BY <1>0, <2>1, <2>3, <3>3 DEF GraceInv, Older
    <3>5. graceAge' \in Nat
      BY <1>0, <2>1, <3>3 DEF Older
    <3> QED
      BY <3>2, <3>3, <3>4, <3>5
  <2>4. ASSUME dtor = "unsubscribed", graceAge' > MaxLatency, NEW b \in DOMAIN batches
        PROVE  Finished(b)
    <3>1. graceAge' <= graceAge + 1 /\ graceAge \in Nat /\ graceAge' \in Nat
      BY <1>0, <2>1 DEF Older, ClockInv
    <3> QED
      BY <1>0, <2>2, <2>4, <3>1
  <2> QED
    BY <1>0, <2>1, <2>3, <2>4 DEF GraceInv, Finished
<1>4. CASE Destroy
  <2>1. UNCHANGED <<batches, requestAge, graceAge>>
    BY <1>4, BatchesStay DEF Destroy
  <2>2. CASE StopAccepting
    BY <1>0, <2>1, <2>2 DEF StopAccepting, GraceInv
  <2>3. CASE UnsubscribeListener
    <3>1. graceAge = 0 /\ dtor' = "unsubscribed" /\ listening' = FALSE
      BY <2>3 DEF UnsubscribeListener, GraceInv
    <3>2. \A b \in DOMAIN batches : 0 <= requestAge[batches[b].loop]
      BY <1>0, BatchType DEF ClockInv
    <3> QED
      BY <1>0, <2>1, <3>1, <3>2 DEF GraceInv
  <2>4. CASE graceAge = Grace /\ DestroyMembers
    <3>1. dtor = "unsubscribed" /\ dtor' = "destroyed" /\ listening' = listening
      BY <2>4 DEF DestroyMembers
    <3>2. \A b \in DOMAIN batches : Finished(b)
      BY <1>0, <2>4, <3>1 DEF GraceInv
    <3> QED
      BY <2>1, <3>1, <3>2 DEF GraceInv, Finished
  <2> QED
    BY <1>4, <2>2, <2>3, <2>4 DEF Destroy
<1>5. CASE IdleWindow \/ wait_for_submission \/ WaitReturns \/ Others \/ UNCHANGED timedVars
  <2>1. UNCHANGED <<batches, requestAge, graceAge, lifeVars>>
    BY <1>5, BatchesStay DEF IdleWindow, wait_for_submission, WaitReturns, Others, timedVars, vars,
       insert, ServerApplies
  <2> QED
    BY <1>0, <2>1 DEF GraceInv, Finished
<1> QED
  BY <1>1, <1>2, <1>3, <1>4, <1>5 DEF TimedNext

\* The clocks are typed and requests end in time, whatever the configuration.
LEMMA LatencyHolds == TimedSpec => [](Known /\ ClockInv /\ LatencyInv)
<1>1. TimedInit => ClockInv /\ LatencyInv
  BY TimingAssumption DEF TimedInit, Init, ClockInv, LatencyInv
<1>2. Known /\ ClockInv /\ LatencyInv /\ [TimedNext]_timedVars => ClockInv' /\ LatencyInv'
  BY ClockStep, LatencyStep DEF Known
<1> QED
  BY <1>1, <1>2, KnownHolds, PTL DEF TimedSpec

\* The two sleeps of the destructor are enough if they outlast the timeout of a
\* request: no callback is left to use the members when they are destroyed.
THEOREM SleepsAreEnough ==
  ASSUME MaxLatency < Grace
  PROVE  TimedSpec => []NoCallbackAfterDestroy
<1>1. TimedInit => GraceInv
  BY DEF TimedInit, Init, GraceInv
<1>2. Known /\ ClockInv /\ LatencyInv /\ GraceInv /\ [TimedNext]_timedVars => GraceInv'
  BY GraceStep
<1>3. GraceInv => NoCallbackAfterDestroy
  BY DEF GraceInv, NoCallbackAfterDestroy
<1> QED
  BY <1>1, <1>2, <1>3, LatencyHolds, PTL DEF TimedSpec

-----------------------------------------------------------------------------
(* wait_for_submission() *)

\* How long a batch of thread l may have kept the events quiet.
Slack(l) == IF Busy(l) THEN WindowTicks + requestAge[l] ELSE WindowTicks

\* While it waits for a line, the events are quiet only for as long as the line's
\* window is open and, after it, a request of the line's thread is under way: a
\* request that ends is an event, and the next one begins with it.
WaitInv ==
  wait = "waiting" /\ started =>
    /\ waitedFor > taken /\ ~Busy(WindowLoop) => quietAge = 0
    /\ waitedFor > cut =>
         quietAge <= IF Busy(WindowLoop) THEN WindowTicks + requestAge[WindowLoop] ELSE windowAge
    /\ \A b \in DOMAIN batches :
         batches[b].first <= waitedFor /\ ~Finished(b) => quietAge <= Slack(batches[b].loop)

\* Batches that have not begun do not keep a thread busy.
LEMMA WindowBusy ==
  ASSUME Inv, TakeLine \/ WindowExpires, NEW l
  PROVE  Busy(l)' <=> Busy(l)
<1>1. /\ DOMAIN batches \subseteq DOMAIN batches'
      /\ \A b \in DOMAIN batches : batches'[b] = batches[b]
      /\ \A b \in DOMAIN batches' \ DOMAIN batches : batches'[b].pc = "queued"
  BY WindowStep
<1>2. "queued" \notin Running
  BY DEF Running
<1> QED
  BY <1>1, <1>2 DEF Busy

\* The line that closes a window has the events quiet for no longer than it.
LEMMA WaitCut ==
  ASSUME Inv, ClockInv, WaitInv, wait = "waiting", started, ~Busy(WindowLoop),
         NEW n \in Nat, cut <= n, taken <= n, taken' = n, CloseWindow(n),
         TakeLine \/ WindowExpires, windowAge' = 0, UNCHANGED <<requestAge, quietAge, waitedFor>>
  PROVE  WaitInv'
<1>1. /\ taken \in Nat /\ cut \in Nat /\ cut <= taken /\ waitedFor \in Nat /\ accepted \in Nat
      /\ batches \in Seq(Batch) /\ Len(batches) \in Nat
  BY DEF Inv, TypeOK, ClockInv, WindowsPartition
<1>2. /\ DOMAIN batches' = DOMAIN batches \union {Len(batches) + 1}
      /\ \A b \in DOMAIN batches : batches'[b] = batches[b]
      /\ batches'[Len(batches) + 1].first = cut + 1
      /\ batches'[Len(batches) + 1].loop = LoopOf(Len(batches) + 1)
      /\ cut' = n
  <2>1. /\ DOMAIN batches' = 1 .. Len(batches) + 1
        /\ \A b \in DOMAIN batches : batches'[b] = batches[b]
        /\ batches'[Len(batches) + 1].first = cut + 1
        /\ batches'[Len(batches) + 1].loop = LoopOf(Len(batches) + 1)
        /\ cut' = n
    BY CloseWindowBatches
  <2> QED
    BY <1>1, <2>1
<1>3. \A l : (Busy(l)' <=> Busy(l)) /\ Slack(l)' = Slack(l)
  BY WindowBusy DEF Slack
<1>4. waitedFor > cut => quietAge <= WindowTicks /\ \A l \in Loops : quietAge <= Slack(l)
  <2>1. \A l \in Loops : WindowTicks <= Slack(l) /\ Slack(l) \in Nat
    BY TimingAssumption DEF Slack, ClockInv
  <2>2. waitedFor > cut => quietAge <= windowAge
    BY DEF WaitInv
  <2> QED
    BY <2>1, <2>2, TimingAssumption DEF ClockInv
<1>5. waitedFor' > taken' => quietAge = 0
  BY <1>1 DEF WaitInv
<1>6. waitedFor' > cut' => quietAge' <= windowAge'
  BY <1>2, <1>5
<1>7. ASSUME NEW b \in DOMAIN batches', batches'[b].first <= waitedFor, ~Finished(b)'
      PROVE  quietAge <= Slack(batches'[b].loop)
  <2>1. CASE b \in DOMAIN batches
    <3>1. batches[b].first <= waitedFor /\ ~Finished(b)
      BY <1>2, <1>7, <2>1 DEF Finished
    <3> QED
      BY <1>2, <2>1, <3>1 DEF WaitInv
  <2>2. CASE b = Len(batches) + 1
    <3>1. waitedFor > cut
      BY <1>1, <1>2, <1>7, <2>2
    <3>2. batches'[b].loop \in Loops
      BY <1>1, <1>2, <2>2, LoopType
    <3> QED
      BY <1>4, <3>1, <3>2
  <2> QED
    BY <1>2, <2>1, <2>2
<1> QED
  BY <1>3, <1>5, <1>6, <1>7 DEF WaitInv

LEMMA WaitWindow ==
  ASSUME Known, ClockInv, WaitInv, wait = "waiting", started, CutWindow
  PROVE  WaitInv'
<1>1. /\ taken \in Nat /\ cut \in Nat /\ cut <= taken /\ waitedFor \in Nat
      /\ batches \in Seq(Batch) /\ Len(batches) \in Nat /\ Inv
  BY DEF Known, Inv, TypeOK, ClockInv, WindowsPartition
<1>2. /\ UNCHANGED <<requestAge, quietAge, wait, waitedFor>>
      /\ windowAge' = IF Len(batches') = Len(batches) THEN windowAge ELSE 0
      /\ ~Busy(WindowLoop)
  BY DEF CutWindow, TakeLine, WindowExpires
<1>3. ASSUME NEW n \in Nat, cut <= n, CloseWindow(n) PROVE windowAge' = 0
  <2>1. Len(batches') = Len(batches) + 1
    BY <1>1, <1>3, CloseWindowBatches
  <2> QED
    BY <1>1, <1>2, <2>1
<1>4. CASE TakeLine
  <2>1. CASE CloseWindow(taken + 1)
    BY <1>1, <1>2, <1>3, <1>4, <2>1, WaitCut DEF TakeLine
  <2>2. CASE UNCHANGED <<cut, batches>>
    <3>1. windowAge' = windowAge /\ taken' = taken + 1
      BY <1>2, <1>4, <2>2 DEF TakeLine
    <3>2. \A l : (Busy(l)' <=> Busy(l)) /\ Slack(l)' = Slack(l)
      BY <1>2, <2>2 DEF Busy, Slack
    <3>3. waitedFor > taken + 1 => waitedFor > taken
      BY <1>1
    <3> QED
      BY <1>2, <2>2, <3>1, <3>2, <3>3 DEF WaitInv, Finished
  <2> QED
    BY <1>4, <2>1, <2>2 DEF TakeLine
<1>5. CASE WindowExpires
  <2>1. CloseWindow(taken) /\ taken' = taken
    BY <1>5 DEF WindowExpires
  <2> QED
    BY <1>1, <1>2, <1>3, <1>5, <2>1, WaitCut
<1> QED
  BY <1>4, <1>5 DEF CutWindow

\* A callback that begins finds its thread free, and starts its clock.
LEMMA WaitStart ==
  ASSUME Known, ClockInv, WaitInv, wait = "waiting", started,
         NEW c \in DOMAIN batches, Run(c)
  PROVE  WaitInv'
<1>0. PICK r : r = batches[c].loop
  OBVIOUS
<1>1. /\ DOMAIN batches' = DOMAIN batches
      /\ \A a \in DOMAIN batches : /\ batches'[a].first = batches[a].first
                                   /\ batches'[a].loop = batches[a].loop
      /\ \A a \in DOMAIN batches \ {c} : batches'[a].pc = batches[a].pc
      /\ UNCHANGED <<taken, cut>>
  BY ACallback, MovesOn DEF Known
<1>2. /\ requestAge' = [requestAge EXCEPT ![r] = 0]
      /\ UNCHANGED <<windowAge, quietAge, waitedFor>>
      /\ batches[c].pc \notin Running /\ ~Finished(c)
  BY <1>0 DEF Run, RunBatch, Running, Finished, Over
<1>3. r \in Loops /\ WindowLoop \in Loops
  BY <1>0, BatchType, ConfigAssumption DEF Known, WindowLoop, Loops
<1>4. ~Busy(r)
  BY <1>0, ThreadIsFree DEF Run, Busy
<1>5. \A l : l # r => (Busy(l)' <=> Busy(l))
  BY <1>0, <1>1 DEF Busy
<1>6. requestAge'[r] = 0 /\ \A l \in Loops \ {r} : requestAge'[l] = requestAge[l]
  BY <1>2, <1>3 DEF ClockInv
<1>7. \A l \in Loops : Slack(l)' = Slack(l)
  <2>1. WindowTicks + requestAge'[r] = WindowTicks
    BY <1>6, TimingAssumption
  <2>2. Slack(r)' = WindowTicks /\ Slack(r) = WindowTicks
    BY <1>4, <2>1 DEF Slack
  <2>3. \A l \in Loops \ {r} : Slack(l)' = Slack(l)
    BY <1>5, <1>6 DEF Slack
  <2> QED
    BY <2>2, <2>3
<1>8. waitedFor > taken /\ ~Busy(WindowLoop)' => quietAge = 0
  BY <1>4, <1>5 DEF WaitInv
<1>9. ASSUME waitedFor > cut
      PROVE  quietAge <= IF Busy(WindowLoop)' THEN WindowTicks + requestAge'[WindowLoop]
                       ELSE windowAge
  <2>1. CASE WindowLoop = r
    <3>1. quietAge <= windowAge /\ windowAge <= WindowTicks
      BY <1>4, <1>9, <2>1, TimingAssumption DEF WaitInv, ClockInv
    <3> QED
      BY <1>6, <2>1, <3>1, TimingAssumption DEF ClockInv
  <2>2. CASE WindowLoop # r
    BY <1>3, <1>5, <1>6, <1>9, <2>2 DEF WaitInv
  <2> QED
    BY <2>1, <2>2
<1>10. ASSUME NEW b \in DOMAIN batches, batches[b].first <= waitedFor, ~Finished(b)'
       PROVE  quietAge <= Slack(batches[b].loop)'
  <2>1. ~Finished(b)
    BY <1>1, <1>2, <1>10 DEF Finished
  <2>2. quietAge <= Slack(batches[b].loop) /\ batches[b].loop \in Loops
    BY <1>10, <2>1, BatchType DEF WaitInv, Known
  <2>3. \A l \in Loops : quietAge <= Slack(l) => quietAge <= Slack(l)'
    BY <1>7
  <2> QED
    BY <1>1, <1>7, <2>2
<1> QED
  BY <1>1, <1>2, <1>8, <1>9, <1>10 DEF WaitInv

\* A request that begins is under way, and one that ends while the client is
\* alive is about to be reported.
LEMMA WaitRequest ==
  ASSUME Known, ClockInv, WaitInv, wait = "waiting", started,
         NEW c \in DOMAIN batches, Request(c)
  PROVE  WaitInv'
<1>1. /\ DOMAIN batches' = DOMAIN batches
      /\ \A a \in DOMAIN batches : /\ batches'[a].first = batches[a].first
                                   /\ batches'[a].loop = batches[a].loop
      /\ \A a \in DOMAIN batches \ {c} : batches'[a].pc = batches[a].pc
      /\ UNCHANGED <<taken, cut>>
  BY ACallback, MovesOn DEF Known
<1>2. UNCHANGED <<clocks, waitedFor>> /\ batches[c].pc \in Running
  BY DEF Request, InsertBegins, InsertReturns, InsertThrows, Running
<1>3. batches'[c].pc \in Running
  <2>1. StartedReads = {TRUE}
    <3>1. dtor = "alive"
      BY DEF Known, FateInv
    <3> QED
      BY <3>1, ReadsWhileAlive DEF Known
  <2>2. \E pc \in {"posting", "success", "failure"} : Goto(c, pc)
    BY <2>1 DEF Request, InsertBegins, InsertReturns, InsertThrows
  <2>3. {"posting", "success", "failure"} \subseteq Stages \cap Running /\ batches \in Seq(Batch)
    BY DEF Stages, Running, Known, Inv, TypeOK
  <2> QED
    BY <2>2, <2>3, GotoBatches
<1>4. \A l : (Busy(l)' <=> Busy(l)) /\ Slack(l)' = Slack(l)
  <2>1. \A l : Busy(l)' <=> Busy(l)
    BY <1>1, <1>2, <1>3 DEF Busy
  <2> QED
    BY <1>2, <2>1 DEF Slack
<1>5. \A b \in DOMAIN batches : ~Finished(b)' => ~Finished(b)
  BY <1>1, <1>2 DEF Finished, Running, Over
<1> QED
  BY <1>1, <1>2, <1>4, <1>5 DEF WaitInv

\* An event, and the call itself, start the quiet period.
LEMMA WaitQuiet ==
  ASSUME Inv', ClockInv', quietAge' = 0
  PROVE  WaitInv'
<1>1. \A l \in Loops : 0 <= WindowTicks + requestAge'[l] /\ 0 <= WindowTicks /\ 0 <= windowAge'
  BY TimingAssumption DEF ClockInv
<1>2. WindowLoop' \in Loops /\ \A b \in DOMAIN batches' : batches'[b].loop \in Loops
  <2>1. WindowLoop \in Loops /\ WindowLoop' = WindowLoop
    BY ConfigAssumption DEF WindowLoop, Loops
  <2>2. ASSUME NEW b \in DOMAIN batches' PROVE batches'[b].loop \in Loops
    <3>1. batches'[b] \in Batch
      BY DEF Inv, TypeOK
    <3> QED
      BY <3>1 DEF Batch
  <2> QED
    BY <2>1, <2>2
<1>3. \A b \in DOMAIN batches' : 0 <= Slack(batches[b].loop)'
  BY <1>1, <1>2 DEF Slack
<1> QED
  BY <1>1, <1>2, <1>3 DEF WaitInv

\* Without batching, the open window never has a line in it.
LEMMA NoOpenWindow ==
  ASSUME NoBatching
  PROVE  Spec => [](taken = cut)
<1>1. window_max_lines \in 1 .. IntMax
  BY ConfigAssumption DEF NoBatching
<1>2. Inv /\ SizeInv => taken = cut
  BY DEF Inv, TypeOK, WindowsPartition, SizeInv, NoBatching
<1> QED
  BY <1>1, <1>2, SizeHolds, InvHolds, PTL

\* Time passes only while a window is open or the line's thread has a request.
LEMMA WaitTick ==
  ASSUME Known, ClockInv, WaitInv, NoBatching => taken = cut, wait = "waiting", started, Tick
  PROVE  WaitInv'
<1>1. /\ ~Urgent /\ UNCHANGED <<batches, taken, cut, accepted, waitedFor>> /\ listening = TRUE
      /\ windowAge' = Older(windowAge, WindowTicks)
      /\ requestAge' = [l \in Loops |-> IF Busy(l) THEN requestAge[l] + 1 ELSE 0]
      /\ quietAge' = Older(quietAge, Quiet)
  BY DEF Tick, vars, Known, FateInv
<1>2. /\ quietAge \in Nat /\ quietAge' \in Nat /\ quietAge' <= quietAge + 1
      /\ windowAge \in 0 .. WindowTicks /\ WindowTicks \in Nat /\ requestAge \in [Loops -> Nat]
      /\ taken \in Nat /\ cut \in Nat /\ waitedFor \in 0 .. accepted /\ accepted \in Nat
  BY <1>1, TimingAssumption DEF ClockInv, Older, Known, Inv, TypeOK
<1>3. \A l : Busy(l)' <=> Busy(l)
  BY <1>1 DEF Busy
<1>4. WindowLoop \in Loops
  BY ConfigAssumption DEF WindowLoop, Loops
<1>5. \A l \in Loops : Busy(l) => requestAge'[l] = requestAge[l] + 1 /\ requestAge[l] \in Nat
  BY <1>1, <1>2
<1>6. ~Busy(WindowLoop) => waitedFor <= taken
  BY <1>1, <1>2 DEF Urgent
<1>7. ASSUME waitedFor > cut
      PROVE  quietAge' <= IF Busy(WindowLoop) THEN WindowTicks + requestAge'[WindowLoop]
                                              ELSE windowAge'
  <2>1. CASE Busy(WindowLoop)
    <3>1. quietAge <= WindowTicks + requestAge[WindowLoop]
      BY <1>7, <2>1 DEF WaitInv
    <3> QED
      BY <1>2, <1>4, <1>5, <2>1, <3>1
  <2>2. CASE ~Busy(WindowLoop)
    <3>1. quietAge <= windowAge
      BY <1>7, <2>2 DEF WaitInv
    <3>2. ~NoBatching
      BY <1>2, <1>6, <1>7, <2>2
    <3>3. windowAge # WindowTicks
      BY <1>1, <2>2, <3>2 DEF Urgent
    <3>4. windowAge' = windowAge + 1
      BY <1>1, <1>2, <3>3 DEF Older
    <3> QED
      BY <1>2, <2>2, <3>1, <3>4
  <2> QED
    BY <2>1, <2>2
<1>8. ASSUME NEW b \in DOMAIN batches, batches[b].first <= waitedFor, ~Finished(b)
      PROVE  quietAge' <= Slack(batches[b].loop)'
  <2>1. PICK l \in Loops : l = batches[b].loop
    BY BatchType DEF Known
  <2>2. Busy(l)
    <3>1. PICK a \in DOMAIN batches : batches[a].loop = l /\ batches[a].pc = "posting"
      BY <1>1, <1>8, <2>1, SomeRequest DEF Known
    <3> QED
      BY <3>1 DEF Busy, Running
  <2>3. quietAge <= WindowTicks + requestAge[l]
    BY <1>8, <2>1, <2>2 DEF WaitInv, Slack
  <2>4. quietAge' <= WindowTicks + requestAge'[l]
    BY <1>2, <1>5, <2>2, <2>3
  <2>5. quietAge' <= Slack(l)'
    BY <1>3, <2>2, <2>4 DEF Slack
  <2> QED
    BY <1>1, <2>1, <2>5
<1> QED
  BY <1>1, <1>3, <1>6, <1>7, <1>8, <1>2 DEF WaitInv, Finished

LEMMA WaitStep ==
  ASSUME Known, ClockInv, WaitInv, NoBatching => taken = cut, [TimedNext]_timedVars
  PROVE  WaitInv'
<1>1. Inv' /\ ClockInv'
  BY TimedStepIsStep, InvStep, ClockStep DEF Known
<1> SUFFICES ASSUME wait' = "waiting", started' PROVE WaitInv'
  BY DEF WaitInv
<1>2. CASE CutWindow
  <2>1. wait = "waiting" /\ started
    BY <1>2 DEF CutWindow, TakeLine, WindowExpires
  <2> QED
    BY <1>2, <2>1, WaitWindow
<1>3. CASE IdleWindow
  <2>1. /\ UNCHANGED <<vars, requestAge, quietAge, wait, waitedFor>>
        /\ windowAge' = 0 /\ taken = cut /\ ~Busy(WindowLoop)
    BY <1>3 DEF IdleWindow
  <2>2. \A l : (Busy(l)' <=> Busy(l)) /\ Slack(l)' = Slack(l)
    BY <2>1 DEF Busy, Slack, vars
  <2>3. waitedFor > cut => quietAge = 0
    BY <2>1 DEF WaitInv, vars
  <2> QED
    BY <2>1, <2>2, <2>3 DEF WaitInv, vars, Finished
<1>4. ASSUME NEW c \in DOMAIN batches, Run(c) PROVE WaitInv'
  <2>1. wait = "waiting" /\ started
    BY <1>4 DEF Run, RunBatch
  <2> QED
    BY <1>4, <2>1, WaitStart
<1>5. ASSUME NEW c \in DOMAIN batches, Request(c) PROVE WaitInv'
  <2>1. wait = "waiting" /\ started
    BY <1>5 DEF Request, InsertBegins, InsertReturns, InsertThrows
  <2> QED
    BY <1>5, <2>1, WaitRequest
<1>6. CASE wait_for_submission \/ \E c \in DOMAIN batches : Emit(c)
  <2>1. quietAge' = 0
    BY <1>6 DEF Emit, wait_for_submission
  <2> QED
    BY <1>1, <2>1, WaitQuiet
<1>7. CASE WaitReturns \/ Destroy
  BY <1>7 DEF WaitReturns, Destroy
<1>8. CASE Tick
  <2>1. wait = "waiting" /\ started
    BY <1>8 DEF Tick, vars
  <2> QED
    BY <1>8, <2>1, WaitTick
<1>9. CASE Others \/ UNCHANGED timedVars
  <2>1. UNCHANGED <<batches, taken, cut, started, windowAge, requestAge, quietAge, wait, waitedFor>>
    BY <1>9 DEF Others, insert, ServerApplies, timedVars, vars
  <2>2. \A l : (Busy(l)' <=> Busy(l)) /\ Slack(l)' = Slack(l)
    BY <2>1 DEF Busy, Slack
  <2> QED
    BY <2>1, <2>2 DEF WaitInv, Finished
<1> QED
  BY <1>2, <1>3, <1>4, <1>5, <1>6, <1>7, <1>8, <1>9 DEF TimedNext

\* Each line of a closed window is in a batch.
LEMMA EachLineHasABatch ==
  ASSUME Inv, NEW n \in 1 .. cut
  PROVE  \E b \in DOMAIN batches : batches[b].first <= n /\ n <= batches[b].last
<1> DEFINE M == {b \in DOMAIN batches : n <= batches[b].last}
<1>1. /\ DOMAIN batches = 1 .. Len(batches) /\ Len(batches) \in Nat /\ cut \in Nat /\ n \in Nat
      /\ (batches = <<>> <=> Len(batches) = 0)
  BY DEF Inv, TypeOK
<1>2. \A b \in DOMAIN batches : batches[b].first \in Nat /\ batches[b].last \in Nat
  <2>1. \A b \in DOMAIN batches : batches[b] \in Batch
    BY DEF Inv, TypeOK
  <2> QED
    BY <2>1 DEF Batch
<1>3. Len(batches) \in M
  <2>1. batches # <<>>
    BY <1>1 DEF Inv, WindowsPartition
  <2>2. cut = batches[Len(batches)].last
    BY <2>1 DEF Inv, WindowsPartition
  <2>3. Len(batches) \in DOMAIN batches
    BY <1>1, <2>1
  <2> QED
    BY <1>1, <2>2, <2>3
<1>4. PICK b \in M : \A k \in M : b <= k
  <2>1. M \in SUBSET Nat
    BY <1>1
  <2> QED
    BY <1>3, <2>1, Least
<1>5. batches[b].first <= n
  <2>1. CASE b = 1
    BY <1>1, <2>1 DEF Inv, WindowsPartition
  <2>2. CASE b # 1
    <3>1. b - 1 \in DOMAIN batches /\ ~(b <= b - 1)
      BY <1>1, <2>2
    <3>2. b - 1 \notin M
      BY <1>4, <3>1
    <3>3. ~(n <= batches[b - 1].last)
      BY <3>1, <3>2
    <3>4. batches[b].first = batches[b - 1].last + 1
      BY <2>2 DEF Inv, WindowsPartition
    <3> QED
      BY <1>1, <1>2, <3>1, <3>3, <3>4
  <2> QED
    BY <2>1, <2>2
<1> QED
  BY <1>4, <1>5

\* When the events have been quiet for longer than a window and a request last,
\* all lines waited for have their batches, and these are done with.
LEMMA QuietSettles ==
  ASSUME WindowTicks + MaxLatency < Quiet, Known, ClockInv, LatencyInv, WaitInv,
         wait = "waiting", quietAge = Quiet, started, NEW n \in 1 .. waitedFor
  PROVE  Settled(n)
<1>1. /\ MaxLatency \in Nat /\ WindowTicks \in Nat /\ Quiet \in Nat /\ cut \in Nat
      /\ waitedFor \in Nat /\ windowAge \in 0 .. WindowTicks
  BY LatencyType, TimingAssumption DEF Known, Inv, TypeOK, ClockInv
<1>2. ASSUME NEW l \in Loops, Busy(l)
      PROVE  WindowTicks + requestAge[l] < Quiet
  <2>1. requestAge[l] \in Nat /\ requestAge[l] <= MaxLatency
    BY <1>2 DEF Busy, LatencyInv, ClockInv
  <2> QED
    BY <1>1, <2>1
<1>3. WindowLoop \in Loops
  BY ConfigAssumption DEF WindowLoop, Loops
<1>4. waitedFor <= cut
  <2> SUFFICES ASSUME waitedFor > cut PROVE FALSE
    BY <1>1
  <2>1. quietAge <= IF Busy(WindowLoop) THEN WindowTicks + requestAge[WindowLoop] ELSE windowAge
    BY DEF WaitInv
  <2>2. CASE Busy(WindowLoop)
    <3>1. requestAge[WindowLoop] \in Nat
      BY <1>3 DEF ClockInv
    <3> QED
      BY <1>1, <1>2, <1>3, <2>1, <2>2, <3>1
  <2>3. CASE ~Busy(WindowLoop)
    BY <1>1, <2>1, <2>3
  <2> QED
    BY <2>2, <2>3
<1>5. PICK b \in DOMAIN batches : batches[b].first <= n /\ n <= batches[b].last
  <2>1. n \in 1 .. cut
    BY <1>1, <1>4
  <2> QED
    BY <2>1, EachLineHasABatch DEF Known
<1>6. Finished(b)
  <2> SUFFICES ASSUME ~Finished(b) PROVE FALSE
    OBVIOUS
  <2>1. batches[b].first <= waitedFor
    <3>1. batches[b] \in Batch
      BY DEF Known, Inv, TypeOK
    <3>2. batches[b].first \in Nat
      BY <3>1 DEF Batch
    <3> QED
      BY <1>1, <1>5, <3>2
  <2>2. PICK l \in Loops : l = batches[b].loop
    BY BatchType DEF Known
  <2>3. quietAge <= Slack(l)
    BY <2>1, <2>2 DEF WaitInv
  <2>4. requestAge[l] \in Nat
    BY DEF ClockInv
  <2>5. CASE Busy(l)
    BY <1>1, <1>2, <2>3, <2>4, <2>5 DEF Slack
  <2>6. CASE ~Busy(l)
    BY <1>1, <2>3, <2>6 DEF Slack
  <2> QED
    BY <2>5, <2>6
<1> QED
  BY <1>5, <1>6 DEF Settled

\* What is settled stays so.
LEMMA SettledStays ==
  ASSUME Inv, [TimedNext]_timedVars, NEW n, Settled(n)
  PROVE  Settled(n)'
<1>1. PICK b \in DOMAIN batches :
        batches[b].first <= n /\ n <= batches[b].last /\ Finished(b)
  BY DEF Settled
<1>2. CASE CutWindow
  <2>1. b \in DOMAIN batches' /\ batches'[b] = batches[b]
    BY <1>2, WindowStep DEF CutWindow
  <2> QED
    BY <1>1, <2>1 DEF Settled, Finished
<1>3. ASSUME NEW c \in DOMAIN batches, Run(c) \/ Request(c) \/ Emit(c)
      PROVE  Settled(n)'
  <2>1. b # c
    BY <1>1, <1>3, ACallback, FinishedIsOver
  <2>2. /\ b \in DOMAIN batches' /\ batches'[b].first = batches[b].first
        /\ batches'[b].last = batches[b].last /\ batches'[b].pc = batches[b].pc
    BY <1>3, <2>1, ACallback, MovesOn
  <2> QED
    BY <1>1, <2>2 DEF Settled, Finished
<1>4. CASE IdleWindow \/ wait_for_submission \/ WaitReturns \/ Tick \/ Destroy \/ Others
             \/ UNCHANGED timedVars
  BY <1>1, <1>4, BatchesStay DEF Settled, Finished
<1> QED
  BY <1>2, <1>3, <1>4 DEF TimedNext

LEMMA StaysStopped ==
  ASSUME [TimedNext]_timedVars, ~started
  PROVE  ~started'
<1>1. [Next]_vars
  BY TimedStepIsStep
<1>2. CASE insert \/ TakeLine \/ WindowExpires \/ StopAccepting \/ UnsubscribeListener
             \/ DestroyMembers \/ UNCHANGED vars
  BY <1>2 DEF insert, TakeLine, WindowExpires, StopAccepting, UnsubscribeListener, DestroyMembers,
     vars
<1>3. ASSUME NEW b \in DOMAIN batches, Callback(b) \/ ServerApplies(b) PROVE ~started'
  BY <1>3 DEF Callback, RunBatch, InsertBegins, InsertReturns, InsertThrows,
     EmitSuccess, EmitFailure, EmitError, ServerApplies
<1> QED
  BY <1>1, <1>2, <1>3 DEF Next

LEMMA WaitHolds == TimedSpec => []WaitInv
<1>1. TimedInit => WaitInv
  BY DEF TimedInit, WaitInv
<1>2. Known /\ ClockInv /\ WaitInv /\ (NoBatching => taken = cut) /\ [TimedNext]_timedVars
        => WaitInv'
  BY WaitStep
<1>3. CASE NoBatching
  BY <1>1, <1>2, <1>3, NoOpenWindow, TimedIsSpec, LatencyHolds, PTL DEF TimedSpec
<1>4. CASE ~NoBatching
  BY <1>1, <1>2, <1>4, LatencyHolds, PTL DEF TimedSpec
<1> QED
  BY <1>3, <1>4

\* wait_for_submission() returns only when the requests of all lines inserted
\* before it have ended, if its quiet period is longer than a window and the
\* timeout of a request together; unless the client is destroyed meanwhile.
THEOREM QuietIsEnough ==
  ASSUME WindowTicks + MaxLatency < Quiet
  PROVE  TimedSpec => []WaitCovers
<1>1. TimedInit => WaitCovers
  BY DEF TimedInit, WaitCovers
<1>2. ASSUME Known, ClockInv, LatencyInv, WaitInv, WaitCovers, [TimedNext]_timedVars
      PROVE  WaitCovers'
  <2>1. CASE WaitReturns
    <3>1. wait = "waiting" /\ quietAge = Quiet /\ UNCHANGED <<vars, waitedFor>>
      BY <2>1 DEF WaitReturns
    <3>2. \A n \in 1 .. waitedFor : Settled(n) \/ ~started
      BY <1>2, <3>1, QuietSettles
    <3> QED
      BY <3>1, <3>2 DEF WaitCovers, Settled, Finished, vars
  <2>2. CASE wait' = "returned" /\ ~WaitReturns
    <3>1. wait = "returned" /\ waitedFor' = waitedFor
      BY <1>2, <2>2 DEF TimedNext, CutWindow, IdleWindow, Run, Request, Emit,
         wait_for_submission, Destroy, Others, Tick, timedVars
    <3>2. \A n : Settled(n) => Settled(n)'
      BY <1>2, SettledStays DEF Known
    <3>3. ~started => ~started'
      BY <1>2, StaysStopped
    <3> QED
      BY <1>2, <3>1, <3>2, <3>3 DEF WaitCovers
  <2> QED
    BY <2>1, <2>2 DEF WaitCovers
<1> QED
  BY <1>1, <1>2, LatencyHolds, WaitHolds, PTL DEF TimedSpec

=============================================================================
