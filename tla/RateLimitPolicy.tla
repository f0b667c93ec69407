-------------------------- MODULE RateLimitPolicy --------------------------
(* The configured quota: RateLimit and RateLimitPolicy of the Worker.       *)
EXTENDS Integers

CONSTANTS Zone,    \* BITS endpoints
          Hits,    \* RateLimit.Hits
          Window   \* RateLimit.Window, in ticks

(* The quota is enabled; a disabled one is never enforced. *)
ASSUME QuotaAssumption == Hits \in Nat \ {0} /\ Window \in Nat \ {0}

=============================================================================
