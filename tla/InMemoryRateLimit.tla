------------------------- MODULE InMemoryRateLimit -------------------------
(***************************************************************************)
(* InMemoryZoneRateLimiter, the limiter of a single Worker process: per     *)
(* zone the start of the last window, kept after the window has ended, and  *)
(* its hit count, under one mutex.  Ages are counted in ticks; a window as  *)
(* old as Window has ended and does not age further in the model.           *)
(***************************************************************************)
EXTENDS RateLimitPolicy

VARIABLES memoryAge,   \* memoryAge[z]: now.Sub(window.start), Window without a window
          memoryCount  \* memoryCount[z]: window.count

memoryVars == <<memoryAge, memoryCount>>

MemoryTypeOK == /\ memoryAge \in [Zone -> 0 .. Window]
                /\ memoryCount \in [Zone -> 0 .. Hits]

MemoryInit == /\ memoryAge = [z \in Zone |-> Window]
              /\ memoryCount = [z \in Zone |-> 0]

(* Mutant: an expired window is reused with its count. *)
AcquireInOldWindow(z) ==
  /\ memoryCount[z] < Hits
  /\ memoryAge' = [memoryAge EXCEPT ![z] = IF memoryAge[z] = Window THEN 0 ELSE @]
  /\ memoryCount' = [memoryCount EXCEPT ![z] = @ + 1]

(* An Acquire that is allowed: the first hit of a fresh window, or one more  *)
(* in the current one.  A refused Acquire changes nothing.                   *)
Acquire(z) ==
  \/ /\ memoryAge[z] >= Window
     /\ memoryAge' = [memoryAge EXCEPT ![z] = 0]
     /\ memoryCount' = [memoryCount EXCEPT ![z] = 1]
  \/ /\ memoryAge[z] < Window
     /\ memoryCount[z] < Hits
     /\ memoryCount' = [memoryCount EXCEPT ![z] = @ + 1]
     /\ UNCHANGED memoryAge

MemoryTick ==
  /\ memoryAge' = [z \in Zone |-> IF memoryAge[z] < Window THEN memoryAge[z] + 1 ELSE Window]
  /\ UNCHANGED memoryCount

MemoryNext == MemoryTick \/ \E z \in Zone : Acquire(z)

MemorySpec == MemoryInit /\ [][MemoryNext]_memoryVars

(* The in-memory limiter grants what the distributed one grants (spec.md:80, *)
(* "an equivalent in-memory limiter"): the same fixed-window quota, although *)
(* it keeps ended windows and the distributed one forgets them.              *)
MemoryQuota == INSTANCE WindowQuota
           WITH left    <- [z \in Zone |-> Window - memoryAge[z]],
                granted <- [z \in Zone |-> IF memoryAge[z] < Window THEN memoryCount[z] ELSE 0]
MemoryKeepsQuota == MemoryQuota!Spec

=============================================================================
