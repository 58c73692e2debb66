-------------------------- MODULE MCRetryPipeline --------------------------
(***************************************************************************)
(* Small instances of RetryPipeline. All calls use one service, so that    *)
(* their updates of its status document overlap.                           *)
(***************************************************************************)
EXTENDS RetryPipeline, TLC

MCServices == {"spotify"}
MCServiceOf == [c \in Calls |-> "spotify"]

Deployed(max) == [enabled |-> TRUE, useRabbit |-> TRUE, maxAttempts |-> max,
                  migrated |-> MCServices, registered |-> MCServices]

\* The smallest chain: one retry.
ShortConfig == {Deployed(2)}

\* Redeployments that lower the limit, that switch retries off, or that no
\* longer know the service.
ManyConfigs == {Deployed(3), [Deployed(2) EXCEPT !.migrated = {}],
                [Deployed(3) EXCEPT !.registered = {}],
                [Deployed(2) EXCEPT !.useRabbit = FALSE]}

Symmetry == Permutations(Calls) \cup Permutations(Handlers)

=============================================================================
