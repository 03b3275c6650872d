------------------------------ MODULE AsyncDb ------------------------------
(***************************************************************************)
(* influxdb::async_api::simple_db, the asynchronous client, as one machine.*)
(*                                                                         *)
(* Callers insert lines; a worker cuts the lines into windows, by count or *)
(* by time; every closed window becomes a batch whose callback runs on an  *)
(* event-loop thread, writes the batch with one blocking HTTP request and  *)
(* publishes what came of it on the http_events subject; the destructor    *)
(* may run at any moment.                                                  *)
(*                                                                         *)
(* Lines are numbered in the order in which insert() queued them, so every *)
(* queue of lines is an interval:                                          *)
(*     1 .. cut            lines of closed windows (in batches),           *)
(*     cut+1 .. taken      lines of the open window,                       *)
(*     taken+1 .. accepted lines still queued for the windowing worker.    *)
(*                                                                         *)
(* RxCpp and cpprestsdk are not in the repository.  They are modelled from *)
(* how the client uses them: make_event_loop() is a pool of NLoops threads *)
(* that create_worker() hands out in turn, a worker runs its callbacks one *)
(* at a time and in order, and a subscriber whose on_next throws has its   *)
(* on_error called.                                                        *)
(***************************************************************************)
EXTENDS Integers, Sequences

CONSTANTS
  window_max_lines,  \* an unsigned: inserts per window
  window_max_ms,     \* milliseconds per window
  IntMax,            \* the largest int of the platform
  NLoops,            \* threads of the event loop
  RequestsOutlive,   \* may a request outlast the destructor's two sleeps?
  MaxInserts,        \* bound: calls of insert()
  MaxIdle            \* bound: windows that expire with no line in them

ASSUME ConfigAssumption ==
  /\ IntMax \in Nat \ {0}
  /\ window_max_lines \in 0 .. 2 * IntMax + 1
  /\ window_max_ms \in Nat
  /\ NLoops \in Nat \ {0}
  /\ RequestsOutlive \in BOOLEAN
  /\ MaxInserts \in Nat
  /\ MaxIdle \in Nat

VARIABLES
  accepted,   \* lines insert() has queued
  taken,      \* lines the windowing worker has put in a window
  cut,        \* lines in closed windows
  idle,       \* windows that expired empty
  batches,    \* the closed windows, oldest first, with the state of each callback
  requests,   \* batches sent to the server, in the order the requests began
  database,   \* batches the server has applied, in that order
  events,     \* results published by http_events()
  started,    \* impl::started
  listening,  \* is impl::listener subscribed?
  dtor        \* how far the destructor has got

lineVars == <<accepted, taken, cut, idle>>
wireVars == <<requests, database>>
lifeVars == <<started, listening, dtor>>
vars == <<lineVars, batches, wireVars, events, lifeVars>>

-----------------------------------------------------------------------------
(* Configuration *)

\* Sends each line at once: start_once() takes its first branch.
NoBatching == window_max_lines = 1 /\ window_max_ms = 0

\* (int)window_max_lines
CountLimit ==
  IF window_max_lines <= IntMax THEN window_max_lines
                                ELSE window_max_lines - (2 * IntMax + 2)

Loops == 0 .. NLoops - 1

\* Workers take the threads in turn: the first is shared_worker's, the second
\* the one the lines are queued on, and each window then takes the next.
WindowLoop == 2 % NLoops
\* Mutant: the pool's index is not taken modulo its size.
LoopPastEnd(k) == 2 + k

\* Mutant: without batching, too, every line takes the next thread.
LoopForEachLine(k) == (2 + k) % NLoops

LoopOf(k) == IF NoBatching THEN WindowLoop ELSE (2 + k) % NLoops

Running == {"entered", "posting", "success", "failure", "error"}
Over == {"done", "dropped"}

Stages == {"queued"} \union Running \union Over

Batch == [first : Nat, last : Nat, loop : Loops, pc : Stages]
Event == [batch : Nat, ok : BOOLEAN, lines : Nat]

-----------------------------------------------------------------------------
(* Helpers *)

Lines(b) == batches[b].last + 1 - batches[b].first
Finished(b) == batches[b].pc \in Over
Busy(loop) == \E b \in DOMAIN batches : batches[b].loop = loop /\ batches[b].pc \in Running
Applied == {database[i] : i \in DOMAIN database}
Requested == {requests[i] : i \in DOMAIN requests}

Goto(b, pc) == batches' = [batches EXCEPT ![b].pc = pc]
Publish(b, ok, n) == events' = Append(events, [batch |-> b, ok |-> ok, lines |-> n])

\* What started.load() may return: of a destroyed object, anything.
StartedReads == IF dtor = "destroyed" THEN BOOLEAN ELSE {started}

-----------------------------------------------------------------------------
(* The callers and the windowing worker *)

Init ==
  /\ accepted = 0 /\ taken = 0 /\ cut = 0 /\ idle = 0
  /\ batches = <<>>
  /\ requests = <<>> /\ database = <<>> /\ events = <<>>
  /\ started = TRUE /\ listening = TRUE /\ dtor = "alive"

\* insert(): the subject passes the line to the worker's queue.
insert ==
  /\ dtor = "alive"
  /\ accepted < MaxInserts
  /\ accepted' = accepted + 1
  /\ UNCHANGED <<taken, cut, idle, batches, wireVars, events, lifeVars>>

\* Mutant: the line that fills the window is in neither window.
CloseWindowEarly(n) ==
  /\ cut' = n
  /\ batches' = Append(batches, [first |-> cut + 1, last |-> IF n > cut THEN n - 1 ELSE n,
                                 loop |-> LoopOf(Len(batches) + 1), pc |-> "queued"])

\* Completes the window that ends with line n and opens the next one.
CloseWindow(n) ==
  /\ cut' = n
  /\ batches' = Append(batches, [first |-> cut + 1, last |-> n,
                                 loop |-> LoopOf(Len(batches) + 1), pc |-> "queued"])

\* Mutant: cursor++ == count.
WindowOverfull(cursor) == cursor - 1 = CountLimit

\* ++cursor == count
WindowFull(cursor) == cursor = CountLimit

\* The worker puts the next line in the open window, which it may fill.
TakeLine ==
  /\ listening
  /\ ~Busy(WindowLoop)
  /\ taken < accepted
  /\ taken' = taken + 1
  /\ IF WindowFull(taken + 1 - cut) THEN CloseWindow(taken + 1)
                                    ELSE UNCHANGED <<cut, batches>>
  /\ UNCHANGED <<accepted, idle, wireVars, events, lifeVars>>

\* The open window has lasted window_max_ms.
WindowExpires ==
  /\ ~NoBatching
  /\ listening
  /\ ~Busy(WindowLoop)
  /\ IF taken = cut THEN idle < MaxIdle /\ idle' = idle + 1 ELSE UNCHANGED idle
  /\ CloseWindow(taken)
  /\ UNCHANGED <<accepted, taken, wireVars, events, lifeVars>>

-----------------------------------------------------------------------------
(* The callback of a batch *)

\* A worker runs its callbacks in order and one at a time.
MyTurn(b) == \A a \in 1 .. b - 1 : batches[a].loop = batches[b].loop => Finished(a)

\* Mutant: no test of w->empty().
EnterEmpty(s, n) == IF ~s THEN "dropped" ELSE "entered"

\* Mutant: no test of started.
EnterStopped(s, n) == IF n = 0 THEN "done" ELSE "entered"

\* Where the callback goes from its first two tests.
Enter(s, n) == IF ~s THEN "dropped" ELSE IF n = 0 THEN "done" ELSE "entered"

\* Without batching the callback is the listener itself, and stops with it.
EntryReads == IF NoBatching /\ ~listening THEN {FALSE} ELSE StartedReads

\* The callback runs up to its tests of started and of w->empty().
RunBatch(b) ==
  /\ batches[b].pc = "queued"
  /\ MyTurn(b)
  /\ \E s \in EntryReads : Goto(b, Enter(s, Lines(b)))
  /\ UNCHANGED <<lineVars, wireVars, events, lifeVars>>

\* insert_async() sends the request, which the destructor may have overtaken.
InsertBegins(b) ==
  /\ batches[b].pc = "entered"
  /\ Goto(b, "posting")
  /\ requests' = Append(requests, b)
  /\ UNCHANGED <<lineVars, database, events, lifeVars>>

\* The server applies a request, maybe after the client has given it up.
ServerApplies(b) ==
  /\ b \in Requested \ Applied
  /\ database' = Append(database, b)
  /\ UNCHANGED <<lineVars, batches, requests, events, lifeVars>>

\* Mutant: the status code is not looked at.
InsertIgnoresStatus(b) ==
  /\ batches[b].pc = "posting"
  /\ \E s \in StartedReads : Goto(b, IF s THEN "success" ELSE "done")
  /\ UNCHANGED <<lineVars, wireVars, events, lifeVars>>

\* insert_async() returns: the server answered 200 or 204.
InsertReturns(b) ==
  /\ batches[b].pc = "posting"
  /\ b \in Applied
  /\ \E s \in StartedReads : Goto(b, IF s THEN "success" ELSE "done")
  /\ UNCHANGED <<lineVars, wireVars, events, lifeVars>>

\* Mutant: the callback of the client without batching throws again as well.
RethrowAlways(s) == IF s THEN "error" ELSE "done"

\* The batching callback throws again and lands in its own error handler.
Rethrow(s) == IF NoBatching \/ ~s THEN "done" ELSE "error"

\* Mutant: the failure is only printed.
InsertThrowsUnseen(b) ==
  /\ batches[b].pc = "posting"
  /\ Goto(b, "done")
  /\ UNCHANGED <<lineVars, wireVars, events, lifeVars>>

\* Mutant: the exception ends the subscription to the windows.
InsertThrowsOutside(b) ==
  /\ batches[b].pc = "posting"
  /\ Goto(b, "failure")
  /\ listening' = FALSE
  /\ UNCHANGED <<lineVars, wireVars, events, started, dtor>>

\* insert_async() throws: an error status, a timeout or a lost connection.
InsertThrows(b) ==
  /\ batches[b].pc = "posting"
  /\ \E s, t \in StartedReads : Goto(b, IF s THEN "failure" ELSE Rethrow(t))
  /\ UNCHANGED <<lineVars, wireVars, events, lifeVars>>

EmitSuccess(b) ==
  /\ batches[b].pc = "success"
  /\ Publish(b, TRUE, Lines(b))
  /\ Goto(b, "done")
  /\ UNCHANGED <<lineVars, wireVars, lifeVars>>

EmitFailure(b) ==
  /\ batches[b].pc = "failure"
  /\ Publish(b, FALSE, Lines(b))
  /\ \E s \in StartedReads : Goto(b, Rethrow(s))
  /\ UNCHANGED <<lineVars, wireVars, lifeVars>>

\* The error handler's event does not know the size of the request.
EmitError(b) ==
  /\ batches[b].pc = "error"
  /\ Publish(b, FALSE, 0)
  /\ Goto(b, "done")
  /\ UNCHANGED <<lineVars, wireVars, lifeVars>>

Callback(b) ==
  RunBatch(b) \/ InsertBegins(b) \/ InsertReturns(b) \/ InsertThrows(b)
    \/ EmitSuccess(b) \/ EmitFailure(b) \/ EmitError(b)

-----------------------------------------------------------------------------
(* The destructor *)

StopAccepting ==
  /\ dtor = "alive"
  /\ dtor' = "stopped"
  /\ started' = FALSE
  /\ UNCHANGED <<lineVars, batches, wireVars, events, listening>>

UnsubscribeListener ==
  /\ dtor = "stopped"
  /\ dtor' = "unsubscribed"
  /\ listening' = FALSE
  /\ UNCHANGED <<lineVars, batches, wireVars, events, started>>

\* The sleeps are over, and the members are destroyed.
DestroyMembers ==
  /\ dtor = "unsubscribed"
  /\ RequestsOutlive \/ \A b \in DOMAIN batches : Finished(b)
  /\ dtor' = "destroyed"
  /\ UNCHANGED <<lineVars, batches, wireVars, events, started, listening>>

Next ==
  \/ insert \/ TakeLine \/ WindowExpires
  \/ \E b \in DOMAIN batches : Callback(b) \/ ServerApplies(b)
  \/ StopAccepting \/ UnsubscribeListener \/ DestroyMembers

Spec == Init /\ [][Next]_vars

\* A window holds a line or is one of the MaxIdle empty ones.
MaxBatches == MaxInserts + MaxIdle

\* The loop threads run and every request ends, at the latest when the HTTP
\* client times it out; nothing obliges a caller to insert or to destroy.
Fairness ==
  /\ WF_vars(TakeLine) /\ WF_vars(WindowExpires)
  /\ \A b \in 1 .. MaxBatches : WF_vars(b \in DOMAIN batches /\ Callback(b))

FairSpec == Spec /\ Fairness

-----------------------------------------------------------------------------
(* Properties *)

\* The types of the variables.
TypeOK ==
  /\ accepted \in Nat /\ taken \in Nat /\ cut \in Nat /\ idle \in Nat
  /\ batches \in Seq(Batch)
  /\ requests \in Seq(Nat) /\ database \in Seq(Nat) /\ events \in Seq(Event)
  /\ started \in BOOLEAN /\ listening \in BOOLEAN
  /\ dtor \in {"alive", "stopped", "unsubscribed", "destroyed"}

\* Windowing neither loses, repeats nor reorders a line: the batches are
\* consecutive pieces of what was inserted, and the rest is still on its way.
WindowsPartition ==
  /\ cut <= taken /\ taken <= accepted
  /\ \A b \in DOMAIN batches :
       /\ batches[b].first = IF b = 1 THEN 1 ELSE batches[b - 1].last + 1
       /\ batches[b].first <= batches[b].last + 1
  /\ cut = IF batches = <<>> THEN 0 ELSE batches[Len(batches)].last

\* batch_config: no batch, and no open window, exceeds max_lines inserts.  (The line
\* object of one insert may hold several lines of text.)
WithinMaxLines ==
  /\ \A b \in DOMAIN batches : Lines(b) <= window_max_lines
  /\ taken - cut <= window_max_lines

Reported(b) == \E i \in DOMAIN events : events[i].batch = b
Acknowledged(b) == \E i \in DOMAIN events : events[i].batch = b /\ events[i].ok

\* A callback gives its lines up without an event only when the client is
\* being destroyed; a failed request is always reported.
NoSilentLoss ==
  \A b \in DOMAIN batches :
    Finished(b) /\ Lines(b) > 0 /\ ~Reported(b) => ~started

\* A success event is never wrong: the server has applied the batch, no failure
\* is reported of the same batch, and the event counts what was sent.
EventsTruthful ==
  \A i \in DOMAIN events : events[i].ok =>
    LET b == events[i].batch
    IN /\ b \in Applied
       /\ events[i].lines = Lines(b)
       /\ \A j \in DOMAIN events : events[j].batch = b => j = i

\* There is no retry: a batch is sent once, never empty, and so no line is
\* written twice, however the request ends and whenever the server applies it.
AtMostOnce ==
  /\ \A i, j \in DOMAIN requests : requests[i] = requests[j] => i = j
  /\ \A i, j \in DOMAIN database : database[i] = database[j] => i = j
  /\ \A b \in Requested : b \in DOMAIN batches /\ Lines(b) > 0

Entered == {b \in DOMAIN batches : batches[b].pc = "entered"}

\* The destructor does not stop a callback that has already passed its test of
\* started; but once it has begun no other passes, and so it is followed by one
\* request at most on each loop thread.
FewRequestsAfterStop ==
  [][~started =>
       /\ Entered' \subseteq Entered
       /\ Requested' \subseteq Requested \union Entered
       /\ \A a, b \in Entered : batches[a].loop = batches[b].loop => a = b]_vars

\* No two callbacks run at once, from the test of started to the last event.
SerialCallbacks ==
  \A a, b \in DOMAIN batches : {batches[a].pc, batches[b].pc} \subseteq Running => a = b

\* No two threads are in http_events_subj's on_next at once: RxCpp subjects are
\* not synchronised, their observers are called on the thread that emits.
SerialEvents ==
  \A a, b \in DOMAIN batches :
    {batches[a].pc, batches[b].pc} \subseteq {"success", "failure", "error"} => a = b

\* Acknowledged batches are applied in the order in which they were inserted.
AckedInOrder ==
  \A i, j \in DOMAIN database :
    i < j /\ Acknowledged(database[i]) /\ Acknowledged(database[j])
      => database[i] < database[j]

\* The events count the requests: one event at most for each.
OneEventPerRequest ==
  \A i, j \in DOMAIN events : events[i].batch = events[j].batch => i = j

\* No callback uses the client's members after they are destroyed.
NoCallbackAfterDestroy ==
  dtor = "destroyed" => \A b \in DOMAIN batches : Finished(b)

=============================================================================
