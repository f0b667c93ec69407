---------------------------- MODULE RateLimiter ----------------------------
(***************************************************************************)
(* A process that limits its BITS calls: newZoneRateLimiter chooses the     *)
(* distributed limiter when a cache is configured, and otherwise the        *)
(* in-memory one, and the choice stands until the process ends.             *)
(***************************************************************************)
EXTENDS ZoneRateLimit, InMemoryRateLimit

VARIABLE limiter  \* the limiter that was chosen

limiterVars == <<vars, memoryVars, limiter>>

newZoneRateLimiter == limiter \in {"distributed", "in-memory"}

LimiterInit == Init /\ MemoryInit /\ newZoneRateLimiter

LimiterNext ==
  \/ limiter = "distributed" /\ Next /\ UNCHANGED <<memoryVars, limiter>>
  \/ limiter = "in-memory" /\ MemoryNext /\ UNCHANGED <<vars, limiter>>

LimiterSpec == LimiterInit /\ [][LimiterNext]_limiterVars

=============================================================================
