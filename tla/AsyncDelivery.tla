---------------------------- MODULE AsyncDelivery ----------------------------
(***************************************************************************)
(* The asynchronous client implements the delivery it promises: windows,   *)
(* threads and callbacks are forgotten, and only the fate of each line is  *)
(* left.                                                                   *)
(***************************************************************************)
EXTENDS AsyncDb

LinesOf(b) == batches[b].first .. batches[b].last

LinesOfAll(bs) == UNION {LinesOf(b) : b \in bs}

EventsOf(ok) == {events[i].batch : i \in {j \in DOMAIN events : events[j].ok = ok}}

D == INSTANCE Delivery WITH
  applied <- LinesOfAll(Applied),
  succeeded <- LinesOfAll(EventsOf(TRUE)),
  failed <- LinesOfAll(EventsOf(FALSE)),
  stopping <- ~started

\* The client is an implementation of Delivery: no line is written twice,
\* reported as written when it is not, or reported both ways; and none is left
\* unreported for ever unless the client is destroyed.
ImplementsDelivery == D!Spec

=============================================================================
