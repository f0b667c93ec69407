--------------------------- MODULE ZoneRateLimit ---------------------------
(***************************************************************************)
(* The per-zone BITS quota shared by all Worker processes and the Master    *)
(* through Dragonfly: the INCR/PEXPIRE script, the Worker goroutines that   *)
(* wait for the reset (awaitZoneRateLimit), the Master's live requests that *)
(* are refused instead (Verify), and the fail-open answer to a limiter      *)
(* error.  Time is counted in ticks and every deadline as the ticks left    *)
(* until it, so the model needs no clock and no horizon.                    *)
(***************************************************************************)
EXTENDS RateLimitPolicy, FiniteSets

CONSTANTS Client,     \* goroutines asking for a slot
          Patient,    \* those of the Workers, which wait; the others are refused
          NoZone,     \* no request in progress
          MaxOutages  \* bound: limiter errors

ASSUME RateLimitAssumption ==
  /\ Patient \subseteq Client
  /\ NoZone \notin Zone
  /\ MaxOutages \in Nat

VARIABLES
  count,    \* count[z]: the counter of z, 0 when the key does not exist
  ttl,      \* ttl[z]: ticks until the key expires
  request,  \* request[c]: the zone c wants to call
  wait,     \* wait[c]: ticks c still sleeps
  recent,   \* recent[z][i]: grants for z during the i-th last tick
  outages

vars == <<count, ttl, request, wait, recent, outages>>

TypeOK ==
  /\ count \in [Zone -> 0 .. Hits + 1]
  /\ ttl \in [Zone -> 0 .. Window]
  /\ request \in [Client -> Zone \union {NoZone}]
  /\ wait \in [Client -> 0 .. Window]
  /\ recent \in [Zone -> [1 .. Window -> Nat]]
  /\ outages \in 0 .. MaxOutages

Init ==
  /\ count = [z \in Zone |-> 0]
  /\ ttl = [z \in Zone |-> 0]
  /\ request = [c \in Client |-> NoZone]
  /\ wait = [c \in Client |-> 0]
  /\ recent = [z \in Zone |-> [i \in 1 .. Window |-> 0]]
  /\ outages = 0

-----------------------------------------------------------------------------
Ask(c, z) ==
  /\ request[c] = NoZone
  /\ request' = [request EXCEPT ![c] = z]
  /\ UNCHANGED <<count, ttl, wait, recent, outages>>

(* Mutant: the expiry is a second command, which a crash may prevent. *)
RunTwoCommands(z) ==
  LET n == IF count[z] > Hits THEN count[z] ELSE count[z] + 1 IN
  /\ count' = [count EXCEPT ![z] = n]
  /\ ttl' \in IF n = 1 THEN {ttl, [ttl EXCEPT ![z] = Window]} ELSE {ttl}

(* Mutant: every hit renews the expiry. *)
RunScriptRenewing(z) ==
  LET n == IF count[z] > Hits THEN count[z] ELSE count[z] + 1 IN
  /\ count' = [count EXCEPT ![z] = n]
  /\ ttl' = [ttl EXCEPT ![z] = Window]

(* The script: count the hit and give a new counter its expiry, atomically.  *)
(* Values above Hits + 1 make no difference and are not kept apart.          *)
RunScript(z) ==
  LET n == IF count[z] > Hits THEN count[z] ELSE count[z] + 1 IN
  /\ count' = [count EXCEPT ![z] = n]
  /\ ttl' = IF n = 1 THEN [ttl EXCEPT ![z] = Window] ELSE ttl

Done(c) == request' = [request EXCEPT ![c] = NoZone]

(* Mutant: one hit too many is within the quota. *)
GrantedOneMore(c) ==
  LET z == request[c] IN
  /\ request[c] # NoZone /\ wait[c] = 0
  /\ RunScript(z)
  /\ count[z] <= Hits
  /\ recent' = [recent EXCEPT ![z][1] = @ + 1]
  /\ Done(c)
  /\ UNCHANGED <<wait, outages>>

Granted(c) ==
  LET z == request[c] IN
  /\ request[c] # NoZone /\ wait[c] = 0
  /\ RunScript(z)
  /\ count'[z] <= Hits
  /\ recent' = [recent EXCEPT ![z][1] = @ + 1]
  /\ Done(c)
  /\ UNCHANGED <<wait, outages>>

(* Mutant: a Worker sleeps for a whole window. *)
RefusedForAWindow(c) ==
  LET z == request[c] IN
  /\ request[c] # NoZone /\ wait[c] = 0
  /\ RunScript(z)
  /\ count'[z] > Hits
  /\ IF c \in Patient
     THEN wait' = [wait EXCEPT ![c] = Window] /\ UNCHANGED request
     ELSE Done(c) /\ UNCHANGED wait
  /\ UNCHANGED <<recent, outages>>

(* Over quota: a Worker sleeps until the reset, the Master answers with the  *)
(* time to retry after.                                                      *)
Refused(c) ==
  LET z == request[c] IN
  /\ request[c] # NoZone /\ wait[c] = 0
  /\ RunScript(z)
  /\ count'[z] > Hits
  /\ IF c \in Patient
     THEN wait' = [wait EXCEPT ![c] = ttl'[z]] /\ UNCHANGED request
     ELSE Done(c) /\ UNCHANGED wait
  /\ UNCHANGED <<recent, outages>>

(* The limiter fails, before or after the script ran, and the call is        *)
(* allowed.  Such a call is outside the quota.                               *)
FailOpen(c) ==
  LET z == request[c] IN
  /\ request[c] # NoZone /\ wait[c] = 0
  /\ outages < MaxOutages
  /\ outages' = outages + 1
  /\ RunScript(z) \/ UNCHANGED <<count, ttl>>
  /\ Done(c)
  /\ UNCHANGED <<wait, recent>>

(* The context ends the wait. *)
Abandon(c) ==
  /\ request[c] # NoZone /\ wait[c] > 0
  /\ wait' = [wait EXCEPT ![c] = 0]
  /\ Done(c)
  /\ UNCHANGED <<count, ttl, recent, outages>>

Decrement(n) == IF n > 0 THEN n - 1 ELSE 0

Tick ==
  /\ ttl' = [z \in Zone |-> Decrement(ttl[z])]
  /\ count' = [z \in Zone |-> IF ttl'[z] = 0 THEN 0 ELSE count[z]]
  /\ wait' = [c \in Client |-> Decrement(wait[c])]
  /\ recent' = [z \in Zone |-> [i \in 1 .. Window |-> IF i = 1 THEN 0 ELSE recent[z][i - 1]]]
  /\ UNCHANGED <<request, outages>>

Next ==
  \/ \E c \in Client : \/ Granted(c) \/ Refused(c) \/ FailOpen(c) \/ Abandon(c)
                       \/ \E z \in Zone : Ask(c, z)
  \/ Tick

Spec == Init /\ [][Next]_vars

-----------------------------------------------------------------------------
(* The grants for z in the last Window ticks: the n-th one i ticks ago. *)
Grants(z) == UNION {{i} \X (1 .. recent[z][i]) : i \in 1 .. Window}

(* No zone is granted more than 2 * Hits requests in any span of Window      *)
(* ticks, and no more than Hits in one window.  The factor is inherent: the  *)
(* end of one window and the start of the next fit into one span.            *)
SlidingQuota == \A z \in Zone : Cardinality(Grants(z)) <= 2 * Hits

(* A counter always has an expiry (rate_limiter.go:28-31, "a crash cannot    *)
(* leave a counter without a TTL"): no zone stays blocked forever.           *)
CounterExpires == \A z \in Zone : count[z] > 0 <=> ttl[z] > 0

(* A goroutine never sleeps past the reset it waits for: while the window    *)
(* that refused it lasts, it wakes exactly when it ends.                     *)
WakesAtReset ==
  \A c \in Client :
    wait[c] > 0 => /\ c \in Patient /\ request[c] \in Zone
                   /\ wait[c] = ttl[request[c]]

(* The counter behaves as the fixed-window quota of the specification: its   *)
(* windows open, fill and end as FR-013 says, whoever asks and whatever the  *)
(* limiter's clients do meanwhile; a hit whose answer was lost counts.       *)
Quota == INSTANCE WindowQuota
           WITH left    <- ttl,
                granted <- [z \in Zone |-> IF count[z] > Hits THEN Hits ELSE count[z]]
KeepsQuota == Quota!Spec

=============================================================================
