-------------------------- MODULE MC_RuntimeOverload --------------------------
(***************************************************************************)
(* Runtime under a producer that offers frames faster than the worker      *)
(* processes them: no commands, no stop, one start.                        *)
(***************************************************************************)
EXTENDS Runtime

Overload == Submit \/ Receive \/ StartCheck \/ StartClaim \/ CreateThread \/ Worker

OverloadSpec == Init /\ [][Overload]_vars

\* The comment in submit_frame: "A flood of rejected frames must not produce
\* an unbounded semaphore backlog."  Every queued frame and the one pending
\* notice account for a token each; twice that many leave room for tokens that
\* are on their way.
RejectionBacklogBounded == wake <= 2 * (Depth + 1)
=============================================================================
