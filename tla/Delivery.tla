------------------------------ MODULE Delivery ------------------------------
(***************************************************************************)
(* What the asynchronous client promises the code that uses it.            *)
(*                                                                         *)
(* Lines are accepted; the server applies each of them at most once, in    *)
(* any order; the client reports each of them, as written only if it is,   *)
(* and as failed only if it was not reported as written.  A failed line    *)
(* may be applied all the same.  Until the client is destroyed, every line *)
(* it has accepted is sooner or later reported; from then on lines may be  *)
(* given up in silence.                                                    *)
(***************************************************************************)
EXTENDS Integers

CONSTANT MaxInserts  \* bound: lines

VARIABLES
  accepted,   \* how many lines the client has taken
  applied,    \* the lines the server has written
  succeeded,  \* the lines a success event covers
  failed,     \* the lines a failure event covers
  stopping    \* has the destructor begun?

vars == <<accepted, applied, succeeded, failed, stopping>>

Accepted == 1 .. accepted

Init ==
  /\ accepted = 0
  /\ applied = {} /\ succeeded = {} /\ failed = {}
  /\ stopping = FALSE

Accept ==
  /\ ~stopping
  /\ accepted < MaxInserts
  /\ accepted' = accepted + 1
  /\ UNCHANGED <<applied, succeeded, failed, stopping>>

Apply(S) ==
  /\ S \subseteq Accepted \ applied
  /\ applied' = applied \union S
  /\ UNCHANGED <<accepted, succeeded, failed, stopping>>

ReportSuccess(S) ==
  /\ S \subseteq applied \ (succeeded \union failed)
  /\ succeeded' = succeeded \union S
  /\ UNCHANGED <<accepted, applied, failed, stopping>>

ReportFailure(S) ==
  /\ S \subseteq Accepted \ succeeded
  /\ failed' = failed \union S
  /\ UNCHANGED <<accepted, applied, succeeded, stopping>>

Stop ==
  /\ stopping' = TRUE
  /\ UNCHANGED <<accepted, applied, succeeded, failed>>

Next ==
  \/ Accept \/ Stop
  \/ \E S \in SUBSET Accepted : Apply(S) \/ ReportSuccess(S) \/ ReportFailure(S)

\* Reports line n, in whatever company.
Report(n) ==
  /\ n \in Accepted \ (succeeded \union failed)
  /\ ~stopping
  /\ \E S \in SUBSET Accepted : n \in S /\ (ReportSuccess(S) \/ ReportFailure(S))

Spec ==
  /\ Init /\ [][Next]_vars
  /\ \A n \in 1 .. MaxInserts : WF_vars(Report(n))

=============================================================================
