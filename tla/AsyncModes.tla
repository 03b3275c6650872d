----------------------------- MODULE AsyncModes -----------------------------
(***************************************************************************)
(* The asynchronous client as its constructors configure it: with windows  *)
(* of two lines, or with one line and 0 ms, which sends each line at once. *)
(* The configuration is chosen at the start and stays.                     *)
(***************************************************************************)
EXTENDS Integers, Sequences

CONSTANTS IntMax, NLoops, RequestsOutlive, MaxInserts, MaxIdle

ASSUME ModesAssumption ==
  /\ IntMax \in Nat \ {0} /\ NLoops \in Nat \ {0}
  /\ RequestsOutlive \in BOOLEAN
  /\ MaxInserts \in Nat /\ MaxIdle \in Nat

VARIABLES
  mode,   \* "batching" or "single"
  accepted, taken, cut, idle, batches, requests, database, events,
  started, listening, dtor

Batching == INSTANCE AsyncDelivery WITH window_max_lines <- 2, window_max_ms <- 100
Single == INSTANCE AsyncDelivery WITH window_max_lines <- 1, window_max_ms <- 0

vars == <<mode, Single!vars>>

-----------------------------------------------------------------------------

Init ==
  \/ mode = "batching" /\ Batching!Init
  \/ mode = "single" /\ Single!Init

Next ==
  \/ mode = "batching" /\ Batching!Next /\ UNCHANGED mode
  \/ mode = "single" /\ Single!Next /\ UNCHANGED mode

\* As in AsyncDb; windows expire in one mode only.
Fairness ==
  /\ WF_vars(mode = "batching" /\ Batching!TakeLine /\ UNCHANGED mode)
  /\ WF_vars(mode = "batching" /\ Batching!WindowExpires /\ UNCHANGED mode)
  /\ WF_vars(mode = "single" /\ Single!TakeLine /\ UNCHANGED mode)
  /\ \A b \in 1 .. Single!MaxBatches :
       /\ WF_vars(mode = "batching" /\ b \in DOMAIN batches /\ Batching!Callback(b)
                    /\ UNCHANGED mode)
       /\ WF_vars(mode = "single" /\ b \in DOMAIN batches /\ Single!Callback(b)
                    /\ UNCHANGED mode)

Spec == Init /\ [][Next]_vars /\ Fairness

-----------------------------------------------------------------------------
(* Properties *)

\* The abstract delivery is kept in both modes; nothing of it depends on the
\* configuration.
ImplementsDelivery == Batching!ImplementsDelivery

\* The default client is an active object: its callbacks, with their requests and
\* their events, run one at a time,
SerialWithoutBatching == mode = "single" => Single!SerialCallbacks

\* what the server acknowledged is written in the order of the inserts,
InOrderWithoutBatching == mode = "single" => Single!AckedInOrder

\* and a request has one event at most.
OneEventWithoutBatching == mode = "single" => Single!OneEventPerRequest

=============================================================================
