---------------------------- MODULE AsyncTiming ----------------------------
(***************************************************************************)
(* The asynchronous client against the clock: wait_for_submission(), which *)
(* trusts a quiet period of the event stream, and the destructor, which    *)
(* trusts two sleeps.                                                      *)
(*                                                                         *)
(* Time passes in ticks.  Everything a loop thread can do at once it does  *)
(* before the next tick; only a request, a window, a quiet period and the  *)
(* sleeps take time.                                                       *)
(***************************************************************************)
EXTENDS AsyncDb

CONSTANTS
  WindowTicks,  \* window_max_ms
  timeout_ms,   \* of http_config, in ticks
  DefaultMs,    \* cpprestsdk's own timeout of 30 s, in ticks
  Quiet,        \* quiet_period_ms
  Grace         \* the two sleeps of the destructor

ASSUME TimingAssumption ==
  {WindowTicks, timeout_ms, DefaultMs, Quiet, Grace} \subseteq Nat

VARIABLES
  windowAge,   \* ticks since the open window was opened
  requestAge,  \* for each loop, ticks since its request began
  graceAge,    \* ticks the destructor has slept
  wait,        \* wait_for_submission(): "none", "waiting" or "returned"
  waitedFor,   \* the lines accepted when it was called
  quietAge     \* ticks since it saw an event

clocks == <<windowAge, requestAge, graceAge, quietAge>>
timedVars == <<vars, clocks, wait, waitedFor>>

-----------------------------------------------------------------------------

\* make_http_client_config(): 0 leaves the timeout of cpprestsdk as it is, and no
\* request takes longer than the timeout.
MaxLatency == IF timeout_ms > 0 THEN timeout_ms ELSE DefaultMs

TimedInit ==
  /\ Init
  /\ windowAge = 0 /\ requestAge = [l \in Loops |-> 0] /\ graceAge = 0 /\ quietAge = 0
  /\ wait = "none" /\ waitedFor = 0

\* A new window is a new timer.
CutWindow ==
  /\ \/ TakeLine
     \/ windowAge = WindowTicks /\ WindowExpires
  /\ windowAge' = IF Len(batches') = Len(batches) THEN windowAge ELSE 0
  /\ UNCHANGED <<requestAge, graceAge, quietAge, wait, waitedFor>>

\* Mutant: an empty window has an event, too.
IdleWindowEmits ==
  /\ listening /\ ~Busy(WindowLoop)
  /\ windowAge = WindowTicks /\ taken = cut /\ idle = MaxIdle
  /\ windowAge' = 0 /\ quietAge' = 0
  /\ UNCHANGED <<vars, requestAge, graceAge, wait, waitedFor>>

\* bound: an empty window after MaxIdle others is not queued as a batch; it would
\* only occupy its thread.
IdleWindow ==
  /\ listening /\ ~Busy(WindowLoop)
  /\ windowAge = WindowTicks /\ taken = cut /\ idle = MaxIdle
  /\ windowAge' = 0
  /\ UNCHANGED <<vars, requestAge, graceAge, quietAge, wait, waitedFor>>

\* A request begins in the tick in which its callback does.
Run(b) ==
  /\ RunBatch(b)
  /\ requestAge' = [requestAge EXCEPT ![batches[b].loop] = 0]
  /\ UNCHANGED <<windowAge, graceAge, quietAge, wait, waitedFor>>

Request(b) ==
  /\ InsertBegins(b) \/ InsertReturns(b) \/ InsertThrows(b)
  /\ UNCHANGED <<clocks, wait, waitedFor>>

\* Mutant: an event does not start the timer again.
EmitUnseen(b) ==
  /\ EmitSuccess(b) \/ EmitFailure(b) \/ EmitError(b)
  /\ UNCHANGED <<clocks, wait, waitedFor>>

\* debounce() starts its timer again with each event.
Emit(b) ==
  /\ EmitSuccess(b) \/ EmitFailure(b) \/ EmitError(b)
  /\ quietAge' = 0
  /\ UNCHANGED <<windowAge, requestAge, graceAge, wait, waitedFor>>

\* start_with() is the first event.
wait_for_submission ==
  /\ dtor = "alive" /\ wait = "none"
  /\ wait' = "waiting" /\ waitedFor' = accepted /\ quietAge' = 0
  /\ UNCHANGED <<vars, windowAge, requestAge, graceAge>>

\* debounce() lets the last event through, and take(1) ends the wait.
WaitReturns ==
  /\ wait = "waiting"
  /\ quietAge = Quiet
  /\ wait' = "returned"
  /\ UNCHANGED <<vars, clocks, waitedFor>>

\* Mutant: the destructor does not sleep.
DestroyAtOnce ==
  /\ wait # "waiting"
  /\ StopAccepting \/ UnsubscribeListener \/ DestroyMembers
  /\ UNCHANGED <<clocks, wait, waitedFor>>

Destroy ==
  /\ wait # "waiting"
  /\ \/ StopAccepting
     \/ UnsubscribeListener
     \/ graceAge = Grace /\ DestroyMembers
  /\ UNCHANGED <<clocks, wait, waitedFor>>

Others ==
  /\ insert \/ \E b \in DOMAIN batches : ServerApplies(b)
  /\ UNCHANGED <<clocks, wait, waitedFor>>

-----------------------------------------------------------------------------
(* Time *)

\* The loop threads have something to do before time passes.
Urgent ==
  \/ /\ listening /\ ~Busy(WindowLoop)
     /\ taken < accepted \/ (~NoBatching /\ windowAge = WindowTicks)
  \/ \E b \in DOMAIN batches :
       \/ batches[b].pc = "queued" /\ MyTurn(b)
       \/ batches[b].pc = "posting" /\ requestAge[batches[b].loop] = MaxLatency
       \/ batches[b].pc \in {"entered", "success", "failure", "error"}

\* A clock that has reached its limit stays there.
Older(age, limit) == IF age < limit THEN age + 1 ELSE age

Tick ==
  /\ ~Urgent
  /\ windowAge' = Older(windowAge, WindowTicks)
  /\ requestAge' = [l \in Loops |-> IF Busy(l) THEN requestAge[l] + 1 ELSE 0]
  /\ graceAge' = IF dtor = "unsubscribed" THEN Older(graceAge, Grace) ELSE graceAge
  /\ quietAge' = IF wait = "waiting" THEN Older(quietAge, Quiet) ELSE quietAge
  /\ UNCHANGED <<vars, wait, waitedFor>>

TimedNext ==
  \/ CutWindow \/ IdleWindow
  \/ \E b \in DOMAIN batches : Run(b) \/ Request(b) \/ Emit(b)
  \/ wait_for_submission \/ WaitReturns
  \/ Destroy \/ Others \/ Tick

TimedSpec == TimedInit /\ [][TimedNext]_timedVars

\* Time passes, the loop threads run, requests end at the latest with their
\* timeout, and the waiting thread is woken.
TimedFairness ==
  /\ WF_timedVars(Tick) /\ WF_timedVars(CutWindow \/ IdleWindow) /\ WF_timedVars(WaitReturns)
  /\ \A b \in 1 .. MaxBatches :
       WF_timedVars(b \in DOMAIN batches /\ (Run(b) \/ Request(b) \/ Emit(b)))

TimedFairSpec == TimedSpec /\ TimedFairness

-----------------------------------------------------------------------------
(* Properties *)

\* Has the request for line n ended?
Settled(n) == \E b \in DOMAIN batches :
  batches[b].first <= n /\ n <= batches[b].last /\ Finished(b)

\* wait_for_submission(): when it returns, the requests of all the lines
\* inserted before the call have ended and have been reported.
WaitCovers == wait = "returned" => \A n \in 1 .. waitedFor : Settled(n) \/ ~started

\* wait_for_submission() returns, if inserts do not go on for ever: each event
\* starts its quiet period again, so that an unending stream of events would not
\* let it.
WaitEnds == wait = "waiting" ~> wait = "returned"

=============================================================================
