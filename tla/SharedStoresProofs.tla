------------------------- MODULE SharedStoresProofs -------------------------
(***************************************************************************)
(* Proofs about what several processes keep in a store without holding a    *)
(* lock over a call: the zone counters (ZoneRateLimit, InMemoryRateLimit),   *)
(* an operator's rows (OperatorRegistry) and the trip documents with their   *)
(* index (TripDocuments), for any values of their constants.                 *)
(***************************************************************************)
EXTENDS RateLimiter, OperatorRegistry, TripDocuments, TLAPS, FiniteSetTheorems

-----------------------------------------------------------------------------
(***************************************************************************)
(* ZoneRateLimit, for any zones, clients, quota and window: no counter     *)
(* without an expiry, no sleep past the reset, and the fixed-window quota of*)
(* the specification implemented by the counter.                           *)
(***************************************************************************)

(* The inductive invariant.  WakesAtReset alone is not inductive: that a new *)
(* expiry never replaces one somebody sleeps on needs CounterExpires.        *)
RInv == TypeOK /\ CounterExpires /\ WakesAtReset

LEMMA CountersInitInv == Init => RInv
  BY RateLimitAssumption, QuotaAssumption DEF Init, RInv, TypeOK, CounterExpires, WakesAtReset

(* The three things the script can do to a zone's counter. *)
LEMMA ScriptCases ==
  ASSUME RInv, NEW z \in Zone, RunScript(z)
  PROVE  \/ /\ count[z] = 0 /\ ttl[z] = 0
            /\ count' = [count EXCEPT ![z] = 1]
            /\ ttl' = [ttl EXCEPT ![z] = Window]
         \/ /\ count[z] \in 1 .. Hits /\ ttl[z] > 0
            /\ count' = [count EXCEPT ![z] = count[z] + 1]
            /\ ttl' = ttl
         \/ /\ count[z] = Hits + 1 /\ ttl[z] > 0
            /\ count' = count
            /\ ttl' = ttl
  <1>1. /\ Hits \in Nat \ {0}
        /\ count \in [Zone -> 0 .. Hits + 1] /\ ttl \in [Zone -> 0 .. Window]
        /\ count[z] > 0 <=> ttl[z] > 0
    BY RateLimitAssumption, QuotaAssumption DEF RInv, TypeOK, CounterExpires
  <1> DEFINE n == IF count[z] > Hits THEN count[z] ELSE count[z] + 1
  <1>2. /\ count' = [count EXCEPT ![z] = n]
        /\ ttl' = IF n = 1 THEN [ttl EXCEPT ![z] = Window] ELSE ttl
    BY DEF RunScript
  <1>3. CASE count[z] = 0
    <2>1. n = 1
      BY <1>1, <1>3
    <2>2. ttl[z] = 0
      BY <1>1, <1>3, RateLimitAssumption, QuotaAssumption
    <2> HIDE DEF n
    <2> QED BY <1>2, <1>3, <2>1, <2>2
  <1>4. CASE count[z] \in 1 .. Hits
    <2>1. n = count[z] + 1 /\ n # 1 /\ ttl[z] > 0
      BY <1>1, <1>4
    <2> HIDE DEF n
    <2> QED BY <1>2, <1>4, <2>1
  <1>5. CASE count[z] = Hits + 1
    <2>1. n = count[z] /\ n # 1 /\ ttl[z] > 0
      BY <1>1, <1>5
    <2> HIDE DEF n
    <2>2. count' = count
      BY <1>1, <1>2, <2>1
    <2> QED BY <1>2, <1>5, <2>1, <2>2
  <1> QED BY <1>1, <1>3, <1>4, <1>5

(* The script keeps the counters well formed and moves no pending reset. *)
LEMMA ScriptStep ==
  ASSUME RInv, NEW z \in Zone, RunScript(z)
  PROVE  /\ count' \in [Zone -> 0 .. Hits + 1]
         /\ ttl' \in [Zone -> 0 .. Window]
         /\ CounterExpires'
         /\ \A y \in Zone : ttl[y] > 0 => ttl'[y] = ttl[y]
  <1>1. /\ Hits \in Nat \ {0} /\ Window \in Nat \ {0}
        /\ count \in [Zone -> 0 .. Hits + 1] /\ ttl \in [Zone -> 0 .. Window]
        /\ \A y \in Zone : count[y] > 0 <=> ttl[y] > 0
    BY RateLimitAssumption, QuotaAssumption DEF RInv, TypeOK, CounterExpires
  <1>2. CASE /\ count[z] = 0 /\ ttl[z] = 0
             /\ count' = [count EXCEPT ![z] = 1]
             /\ ttl' = [ttl EXCEPT ![z] = Window]
    <2>1. 1 \in 0 .. Hits + 1 /\ Window \in 0 .. Window
      BY <1>1
    <2>2. count' \in [Zone -> 0 .. Hits + 1] /\ ttl' \in [Zone -> 0 .. Window]
      BY <1>1, <1>2, <2>1
    <2>3. \A y \in Zone : count'[y] > 0 <=> ttl'[y] > 0
      BY <1>1, <1>2
    <2>4. \A y \in Zone : ttl[y] > 0 => ttl'[y] = ttl[y]
      BY <1>1, <1>2
    <2> QED BY <2>2, <2>3, <2>4 DEF CounterExpires
  <1>3. CASE /\ count[z] \in 1 .. Hits /\ ttl[z] > 0
             /\ count' = [count EXCEPT ![z] = count[z] + 1]
             /\ ttl' = ttl
    <2>1. count[z] + 1 \in 0 .. Hits + 1
      BY <1>1, <1>3
    <2>2. count' \in [Zone -> 0 .. Hits + 1]
      BY <1>1, <1>3, <2>1
    <2>3. \A y \in Zone : count'[y] > 0 <=> ttl'[y] > 0
      BY <1>1, <1>3
    <2> QED BY <1>1, <1>3, <2>2, <2>3 DEF CounterExpires
  <1>4. CASE count' = count /\ ttl' = ttl
    BY <1>1, <1>4 DEF CounterExpires
  <1> QED BY <1>2, <1>3, <1>4, ScriptCases

(* One more grant keeps the history well formed. *)
LEMMA GrantCounted ==
  ASSUME RInv, NEW z \in Zone, recent' = [recent EXCEPT ![z][1] = @ + 1]
  PROVE  recent' \in [Zone -> [1 .. Window -> Nat]]
  <1> DEFINE Age == 1 .. Window
  <1>1. recent[z] \in [Age -> Nat] /\ 1 \in Age
    BY RateLimitAssumption, QuotaAssumption DEF RInv, TypeOK
  <1>2. [recent[z] EXCEPT ![1] = @ + 1] \in [Age -> Nat]
    <2> HIDE DEF Age
    <2>1. recent[z][1] + 1 \in Nat
      BY <1>1
    <2> QED BY <1>1, <2>1
  <1>3. recent' = [recent EXCEPT ![z] = [recent[z] EXCEPT ![1] = @ + 1]]
    OBVIOUS
  <1> QED BY <1>2, <1>3 DEF RInv, TypeOK

LEMMA CountersNextInv == RInv /\ [Next]_vars => RInv'
  <1> SUFFICES ASSUME RInv, [Next]_vars PROVE RInv'
    OBVIOUS
  <1>1. ASSUME NEW c \in Client, NEW z \in Zone, Ask(c, z) PROVE RInv'
    <2>1. TypeOK'
      BY <1>1 DEF Ask, RInv, TypeOK
    <2>2. CounterExpires'
      BY <1>1 DEF Ask, RInv, CounterExpires
    <2>3. WakesAtReset'
      BY <1>1, RateLimitAssumption, QuotaAssumption DEF Ask, RInv, TypeOK, WakesAtReset
    <2> QED BY <2>1, <2>2, <2>3 DEF RInv
  <1>2. ASSUME NEW c \in Client, Granted(c) PROVE RInv'
    <2>1. request[c] \in Zone /\ RunScript(request[c])
      BY <1>2 DEF Granted, RInv, TypeOK
    <2>2. TypeOK'
      BY <1>2, <2>1, ScriptStep, GrantCounted DEF Granted, Done, RInv, TypeOK
    <2>3. WakesAtReset'
      BY <1>2, <2>1, ScriptStep DEF Granted, Done, RInv, TypeOK, WakesAtReset
    <2> QED BY <2>1, <2>2, <2>3, ScriptStep DEF RInv
  <1>3. ASSUME NEW c \in Client, Refused(c) PROVE RInv'
    <2>1. request[c] \in Zone /\ RunScript(request[c])
      BY <1>3 DEF Refused, RInv, TypeOK
    <2>2. TypeOK'
      BY <1>3, <2>1, ScriptStep DEF Refused, Done, RInv, TypeOK
    <2>3. ASSUME NEW b \in Client, wait'[b] > 0
          PROVE  /\ b \in Patient /\ request'[b] \in Zone
                 /\ wait'[b] = ttl'[request'[b]]
      <3>1. CASE b = c /\ c \in Patient
        BY <1>3, <2>1, <3>1 DEF Refused, RInv, TypeOK
      <3>2. CASE b # c \/ c \notin Patient
        <4>1. wait'[b] = wait[b] /\ b # c
          BY <1>3, <2>3, <3>2 DEF Refused, Done, RInv, TypeOK
        <4>2. request'[b] = request[b]
          BY <1>3, <4>1 DEF Refused, Done, RInv, TypeOK
        <4>3. /\ b \in Patient /\ request[b] \in Zone
              /\ wait[b] = ttl[request[b]]
          BY <2>3, <4>1 DEF RInv, WakesAtReset
        <4> QED BY <2>1, <2>3, <4>1, <4>2, <4>3, ScriptStep
      <3> QED BY <3>1, <3>2
    <2> QED BY <2>1, <2>2, <2>3, ScriptStep DEF RInv, WakesAtReset
  <1>4. ASSUME NEW c \in Client, FailOpen(c) PROVE RInv'
    <2>1. request[c] \in Zone
      BY <1>4 DEF FailOpen, RInv, TypeOK
    <2>2. /\ count' \in [Zone -> 0 .. Hits + 1]
          /\ ttl' \in [Zone -> 0 .. Window]
          /\ CounterExpires'
          /\ \A y \in Zone : ttl[y] > 0 => ttl'[y] = ttl[y]
      <3>1. CASE RunScript(request[c])
        BY <2>1, <3>1, ScriptStep
      <3>2. CASE UNCHANGED <<count, ttl>>
        BY <3>2 DEF RInv, TypeOK, CounterExpires
      <3> QED BY <1>4, <3>1, <3>2 DEF FailOpen
    <2>3. TypeOK'
      <3>1. outages' \in 0 .. MaxOutages
        BY <1>4, RateLimitAssumption, QuotaAssumption DEF FailOpen, RInv, TypeOK
      <3> QED BY <1>4, <2>2, <3>1 DEF FailOpen, Done, RInv, TypeOK
    <2>4. WakesAtReset'
      BY <1>4, <2>1, <2>2 DEF FailOpen, Done, RInv, TypeOK, WakesAtReset
    <2> QED BY <2>2, <2>3, <2>4 DEF RInv
  <1>5. ASSUME NEW c \in Client, Abandon(c) PROVE RInv'
    <2>1. TypeOK'
      BY <1>5, RateLimitAssumption, QuotaAssumption DEF Abandon, Done, RInv, TypeOK
    <2>2. CounterExpires'
      BY <1>5 DEF Abandon, RInv, CounterExpires
    <2>3. WakesAtReset'
      BY <1>5 DEF Abandon, Done, RInv, TypeOK, WakesAtReset
    <2> QED BY <2>1, <2>2, <2>3 DEF RInv
  <1>6. ASSUME Tick PROVE RInv'
    <2>1. TypeOK'
      <3>1. count' \in [Zone -> 0 .. Hits + 1] /\ ttl' \in [Zone -> 0 .. Window]
        BY <1>6, RateLimitAssumption, QuotaAssumption DEF Tick, Decrement, RInv, TypeOK
      <3>2. wait' \in [Client -> 0 .. Window]
        BY <1>6, RateLimitAssumption, QuotaAssumption DEF Tick, Decrement, RInv, TypeOK
      <3>3. recent' \in [Zone -> [1 .. Window -> Nat]]
        BY <1>6, RateLimitAssumption, QuotaAssumption DEF Tick, RInv, TypeOK
      <3> QED BY <1>6, <3>1, <3>2, <3>3 DEF Tick, RInv, TypeOK
    <2>2. CounterExpires'
      BY <1>6 DEF Tick, Decrement, RInv, TypeOK, CounterExpires
    <2>3. WakesAtReset'
      BY <1>6 DEF Tick, Decrement, RInv, TypeOK, WakesAtReset
    <2> QED BY <2>1, <2>2, <2>3 DEF RInv
  <1>7. CASE UNCHANGED vars
    BY <1>7 DEF vars, RInv, TypeOK, CounterExpires, WakesAtReset
  <1> QED BY <1>1, <1>2, <1>3, <1>4, <1>5, <1>6, <1>7 DEF Next

LEMMA CountersInvariance == Spec => []RInv
  BY CountersInitInv, CountersNextInv, PTL DEF Spec

(* Every variable keeps its type. *)
THEOREM CountersTypeCorrect == Spec => []TypeOK
  BY CountersInvariance, PTL DEF RInv

(* No counter outlives its window, whichever of the concurrent clients gets  *)
(* an error or leaves: no zone is blocked forever.                           *)
THEOREM CountersExpire == Spec => []CounterExpires
  BY CountersInvariance, PTL DEF RInv

(* A Worker goroutine over quota sleeps exactly until its zone's reset.      *)
THEOREM SleepersWakeAtReset == Spec => []WakesAtReset
  BY CountersInvariance, PTL DEF RInv

-----------------------------------------------------------------------------
(* Refinement of WindowQuota.                                               *)

Used == [z \in Zone |-> IF count[z] > Hits THEN Hits ELSE count[z]]

LEMMA ScriptKeepsQuota ==
  ASSUME RInv, NEW z \in Zone, RunScript(z)
  PROVE  [Quota!Next]_(Quota!vars)
  <1>1. /\ Hits \in Nat \ {0}
        /\ count \in [Zone -> 0 .. Hits + 1]
        /\ Used \in [Zone -> 0 .. Hits]
    BY RateLimitAssumption, QuotaAssumption DEF Used, RInv, TypeOK
  <1>2. Used' = [y \in Zone |-> IF count'[y] > Hits THEN Hits ELSE count'[y]]
    BY DEF Used
  <1>3. CASE /\ count[z] = 0 /\ ttl[z] = 0
             /\ count' = [count EXCEPT ![z] = 1]
             /\ ttl' = [ttl EXCEPT ![z] = Window]
    <2>1. \A y \in Zone : Used'[y] = [Used EXCEPT ![z] = 1][y]
      BY <1>1, <1>2, <1>3 DEF Used
    <2>2. Used' = [Used EXCEPT ![z] = 1]
      BY <1>1, <1>2, <2>1
    <2> QED BY <1>3, <2>2 DEF Quota!Next, Quota!Open, Used
  <1>4. CASE /\ count[z] \in 1 .. Hits - 1 /\ ttl[z] > 0
             /\ count' = [count EXCEPT ![z] = count[z] + 1]
             /\ ttl' = ttl
    <2>1. Used[z] < Hits /\ Used[z] = count[z]
      BY <1>1, <1>4 DEF Used
    <2>2. \A y \in Zone : Used'[y] = [Used EXCEPT ![z] = Used[z] + 1][y]
      BY <1>1, <1>2, <1>4, <2>1 DEF Used
    <2>3. Used' = [Used EXCEPT ![z] = Used[z] + 1]
      BY <1>1, <1>2, <2>2
    <2> QED BY <1>4, <2>1, <2>3 DEF Quota!Next, Quota!Grant, Used
  <1>5. CASE /\ count[z] = Hits
             /\ count' = [count EXCEPT ![z] = count[z] + 1]
             /\ ttl' = ttl
    <2>1. \A y \in Zone : Used'[y] = Used[y]
      BY <1>1, <1>2, <1>5 DEF Used
    <2>2. Used' = Used
      BY <1>1, <1>2, <2>1
    <2> QED BY <1>5, <2>2 DEF Quota!vars, Used
  <1>6. CASE count' = count /\ ttl' = ttl
    BY <1>6 DEF Quota!vars
  <1>7. \/ count[z] \notin 1 .. Hits
        \/ count[z] = Hits
        \/ count[z] \in 1 .. Hits - 1
    BY <1>1
  <1> QED BY <1>3, <1>4, <1>5, <1>6, <1>7, ScriptCases

LEMMA StepKeepsQuota == RInv /\ [Next]_vars => [Quota!Next]_(Quota!vars)
  <1> SUFFICES ASSUME RInv, [Next]_vars PROVE [Quota!Next]_(Quota!vars)
    OBVIOUS
  <1>1. CASE UNCHANGED <<count, ttl>>
    BY <1>1 DEF Quota!vars
  <1>2. ASSUME NEW z \in Zone, RunScript(z) PROVE [Quota!Next]_(Quota!vars)
    BY <1>2, ScriptKeepsQuota
  <1>3. CASE Tick
    <2>1. ttl' = [z \in Zone |-> IF ttl[z] > 0 THEN ttl[z] - 1 ELSE 0]
      BY <1>3 DEF Tick, Decrement
    <2>2. \A z \in Zone : count'[z] = IF ttl[z] > 1 THEN count[z] ELSE 0
      BY <1>3 DEF Tick, Decrement, RInv, TypeOK
    <2>3. Used' = [z \in Zone |-> IF ttl[z] > 1 THEN Used[z] ELSE 0]
      BY <2>2, RateLimitAssumption, QuotaAssumption DEF Used, RInv, TypeOK
    <2> QED BY <2>1, <2>3 DEF Quota!Next, Quota!Tick, Used
  <1>4. ASSUME NEW c \in Client, Granted(c) \/ Refused(c) \/ FailOpen(c)
        PROVE  request[c] \in Zone /\ (RunScript(request[c]) \/ UNCHANGED <<count, ttl>>)
    BY <1>4 DEF Granted, Refused, FailOpen, RInv, TypeOK
  <1> QED BY <1>1, <1>2, <1>3, <1>4 DEF Next, vars, Ask, Abandon

(* The shared counter implements the quota of FR-013 and FR-015.             *)
THEOREM CounterKeepsQuota == Spec => KeepsQuota
  <1>1. Init => Quota!Init
    BY RateLimitAssumption, QuotaAssumption DEF Init, Quota!Init
  <1>2. RInv /\ [Next]_vars => [Quota!Next]_(Quota!vars)
    BY StepKeepsQuota
  <1> QED BY <1>1, <1>2, CountersInvariance, PTL DEF Spec, KeepsQuota, Quota!Spec

-----------------------------------------------------------------------------
(***************************************************************************)
(* ZoneRateLimit: the quota of a span that no window is aligned with.       *)
(***************************************************************************)

(* The size of a set, known to be finite. *)
AtMost(S, n) == IsFiniteSet(S) /\ Cardinality(S) <= n

(* The grants in z's window, and those of the Window ticks before.          *)
InWindow(z)     == {g \in Grants(z) : ttl[z] > 0 /\ g[1] <= Window - ttl[z] + 1}
BeforeWindow(z) == Grants(z) \ InWindow(z)

(* Each is within the quota; and no grant is as young as a window that has    *)
(* yet to begin.                                                            *)
ZoneQuota(z) ==
  /\ AtMost(InWindow(z), Used[z])
  /\ AtMost(BeforeWindow(z), Hits)
  /\ ttl[z] = 0 => recent[z][1] = 0

QuotaInv == RInv /\ \A z \in Zone : ZoneQuota(z)

LEMMA SmallerSet ==
  ASSUME NEW S, NEW n \in Nat, AtMost(S, n), NEW T, T \subseteq S, NEW m \in Nat, n <= m
  PROVE  AtMost(T, m)
<1>1. IsFiniteSet(T) /\ Cardinality(T) <= Cardinality(S)
  BY FS_Subset DEF AtMost
<1> QED
  BY <1>1, FS_CardinalityType DEF AtMost

LEMMA OneMore ==
  ASSUME NEW S, NEW n \in Nat, AtMost(S, n), NEW x, NEW T, T \subseteq S \union {x}, NEW m, m = n + 1
  PROVE  AtMost(T, m)
<1>1. /\ IsFiniteSet(S \union {x})
      /\ Cardinality(S \union {x}) = IF x \in S THEN Cardinality(S) ELSE Cardinality(S) + 1
  BY FS_AddElement DEF AtMost
<1>2. Cardinality(S) \in Nat /\ Cardinality(S) <= n
  BY FS_CardinalityType DEF AtMost
<1>3. m \in Nat /\ AtMost(S \union {x}, m)
  BY <1>1, <1>2 DEF AtMost
<1> QED
  BY <1>3, SmallerSet

(* A tick later every grant is a tick older. *)
Aged(g) == <<g[1] + 1, g[2]>>

LEMMA OlderSet ==
  ASSUME NEW S, NEW n \in Nat, AtMost(S, n), NEW T, \A g \in T : \E h \in S : g = Aged(h)
  PROVE  AtMost(T, n)
<1> DEFINE All == {Aged(h) : h \in S}
           f == [h \in S |-> Aged(h)]
<1>1. f \in Surjection(S, All)
  BY DEF Surjection
<1>2. IsFiniteSet(All) /\ Cardinality(All) <= Cardinality(S)
  BY <1>1, FS_Surjection DEF AtMost
<1>3. T \subseteq All
  OBVIOUS
<1>4. AtMost(All, n)
  BY <1>2, FS_CardinalityType DEF AtMost
<1> QED
  BY <1>3, <1>4, SmallerSet

LEMMA GrantsAre ==
  ASSUME NEW z, NEW g
  PROVE  /\ g \in Grants(z) <=> \E i \in 1 .. Window : \E n \in 1 .. recent[z][i] : g = <<i, n>>
         /\ g \in Grants(z)' <=> \E i \in 1 .. Window : \E n \in 1 .. recent'[z][i] : g = <<i, n>>
<1>1. ASSUME NEW Of(_)
      PROVE  g \in UNION {{i} \X (1 .. Of(i)) : i \in 1 .. Window}
               <=> \E i \in 1 .. Window : \E n \in 1 .. Of(i) : g = <<i, n>>
  <2>1. \A i : g \in {i} \X (1 .. Of(i)) <=> \E n \in 1 .. Of(i) : g = <<i, n>>
    OBVIOUS
  <2>2. g \in UNION {{i} \X (1 .. Of(i)) : i \in 1 .. Window}
          <=> \E i \in 1 .. Window : g \in {i} \X (1 .. Of(i))
    OBVIOUS
  <2> QED
    BY <2>1, <2>2
<1>2. g \in Grants(z) <=> \E i \in 1 .. Window : \E n \in 1 .. recent[z][i] : g = <<i, n>>
  BY <1>1 DEF Grants
<1> QED
  BY <1>2 DEF Grants

LEMMA QuotaTypes ==
  ASSUME RInv
  PROVE  /\ Hits \in Nat \ {0} /\ Window \in Nat \ {0}
         /\ \A z \in Zone : /\ count[z] \in 0 .. Hits + 1 /\ ttl[z] \in 0 .. Window
                            /\ Used[z] \in 0 .. Hits
                            /\ Used[z] = IF count[z] > Hits THEN Hits ELSE count[z]
                            /\ ttl[z] = 0 <=> count[z] = 0
                            /\ \A i \in 1 .. Window : recent[z][i] \in Nat
BY QuotaAssumption DEF RInv, TypeOK, CounterExpires, Used

LEMMA QuotaTypesAfter ==
  ASSUME RInv', NEW z \in Zone
  PROVE  ttl'[z] \in 0 .. Window /\ Used'[z] \in 0 .. Hits
BY QuotaAssumption DEF RInv, TypeOK, Used

LEMMA QuotaInit == Init => QuotaInv
<1> SUFFICES ASSUME Init PROVE QuotaInv
  OBVIOUS
<1>1. RInv
  BY CountersInitInv
<1>2. ASSUME NEW z \in Zone PROVE ZoneQuota(z)
  <2>1. \A i \in 1 .. Window : recent[z][i] = 0
    BY <1>2 DEF Init
  <2>2. Grants(z) = {}
    <3>1. ASSUME NEW g \in Grants(z) PROVE FALSE
      BY <2>1, <3>1, GrantsAre
    <3> QED BY <3>1
  <2>3. InWindow(z) = {} /\ BeforeWindow(z) = {}
    BY <2>2 DEF InWindow, BeforeWindow
  <2>4. Used[z] \in Nat /\ Hits \in Nat /\ 1 \in 1 .. Window
    BY <1>1, <1>2, QuotaTypes
  <2>5. AtMost({}, Used[z]) /\ AtMost({}, Hits)
    BY <2>4, FS_EmptySet DEF AtMost
  <2> QED BY <2>1, <2>3, <2>4, <2>5 DEF ZoneQuota
<1> QED BY <1>1, <1>2 DEF QuotaInv

(* A step that grants nothing: the window stays, or begins without a grant.  *)
LEMMA NothingGranted ==
  ASSUME RInv, RInv', NEW z \in Zone, ZoneQuota(z), recent'[z] = recent[z],
         Used[z] <= Used'[z],
         ttl'[z] = ttl[z] \/ (ttl[z] = 0 /\ ttl'[z] = Window)
  PROVE  ZoneQuota(z)'
<1>1. /\ Window \in Nat \ {0} /\ ttl[z] \in 0 .. Window
      /\ Used[z] \in 0 .. Hits /\ Used'[z] \in 0 .. Hits /\ Hits \in Nat \ {0}
  BY QuotaTypes, QuotaTypesAfter
<1>2. Grants(z)' = Grants(z)
  BY DEF Grants
<1>3. CASE ttl'[z] = ttl[z]
  <2>1. InWindow(z)' = InWindow(z) /\ BeforeWindow(z)' = BeforeWindow(z)
    BY <1>2, <1>3 DEF InWindow, BeforeWindow
  <2>2. AtMost(InWindow(z), Used'[z])
    BY <1>1, SmallerSet DEF ZoneQuota
  <2> QED BY <1>3, <2>1, <2>2 DEF ZoneQuota
<1>4. CASE ttl[z] = 0 /\ ttl'[z] = Window
  <2>1. ASSUME NEW g \in Grants(z) PROVE g[1] \in 2 .. Window
    <3>1. PICK i \in 1 .. Window : \E n \in 1 .. recent[z][i] : g = <<i, n>>
      BY <2>1, GrantsAre
    <3>2. i # 1
      BY <1>4, <3>1 DEF ZoneQuota
    <3> QED BY <1>1, <3>1, <3>2
  <2>2. InWindow(z)' \subseteq InWindow(z)
    BY <1>1, <1>2, <1>4, <2>1 DEF InWindow
  <2>3. BeforeWindow(z)' \subseteq BeforeWindow(z)
    BY <1>1, <1>2, <1>4 DEF InWindow, BeforeWindow
  <2>4. AtMost(InWindow(z)', Used'[z]) /\ AtMost(BeforeWindow(z)', Hits)
    BY <1>1, <2>2, <2>3, SmallerSet DEF ZoneQuota
  <2> QED BY <1>1, <1>4, <2>4 DEF ZoneQuota
<1> QED BY <1>3, <1>4

LEMMA GrantAdded ==
  ASSUME NEW z, NEW k \in Nat, Window \in Nat, recent[z] \in [1 .. Window -> Nat],
         recent'[z] = [recent[z] EXCEPT ![1] = k + 1], recent[z][1] = k,
         NEW g \in Grants(z)', g # <<1, k + 1>>
  PROVE  g \in Grants(z)
<1>1. PICK i \in 1 .. Window : \E n \in 1 .. recent'[z][i] : g = <<i, n>>
  BY GrantsAre
<1>2. PICK n \in 1 .. recent'[z][i] : g = <<i, n>>
  BY <1>1
<1>3. n \in 1 .. recent[z][i]
  <2>1. CASE i = 1
    <3>1. recent'[z][i] = k + 1 /\ n # k + 1
      BY <1>2, <2>1
    <3> QED BY <1>2, <2>1, <3>1
  <2>2. CASE i # 1
    BY <1>2, <2>2
  <2> QED BY <2>1, <2>2
<1> QED BY <1>2, <1>3, GrantsAre

(* A grant, in the window there is or in one that begins with it. *)
LEMMA OneGranted ==
  ASSUME RInv, RInv', NEW z \in Zone, ZoneQuota(z),
         NEW k \in Nat, recent[z][1] = k, recent[z] \in [1 .. Window -> Nat],
         recent'[z] = [recent[z] EXCEPT ![1] = k + 1],
         Used'[z] = Used[z] + 1, ttl'[z] > 0,
         ttl'[z] = ttl[z] \/ (ttl[z] = 0 /\ ttl'[z] = Window)
  PROVE  ZoneQuota(z)'
<1>1. /\ Window \in Nat \ {0} /\ ttl[z] \in 0 .. Window /\ ttl'[z] \in 0 .. Window
      /\ Used[z] \in 0 .. Hits /\ Used'[z] \in 0 .. Hits /\ Hits \in Nat \ {0}
  BY QuotaTypes, QuotaTypesAfter
<1>2. ASSUME NEW g \in Grants(z)', g # <<1, k + 1>> PROVE g \in Grants(z)
  BY <1>1, <1>2, GrantAdded
<1>3. \A g \in Grants(z) : g[1] \in 1 .. Window /\ (ttl[z] = 0 => g[1] # 1)
  <2> SUFFICES ASSUME NEW g \in Grants(z) PROVE g[1] \in 1 .. Window /\ (ttl[z] = 0 => g[1] # 1)
    OBVIOUS
  <2>1. PICK i \in 1 .. Window : \E n \in 1 .. recent[z][i] : g = <<i, n>>
    BY GrantsAre
  <2>2. ttl[z] = 0 => i # 1
    BY <2>1 DEF ZoneQuota
  <2> QED BY <2>1, <2>2
<1>4. <<1, k + 1>>[1] <= Window - ttl'[z] + 1
  BY <1>1
<1>5. ASSUME NEW g \in InWindow(z)', g # <<1, k + 1>> PROVE g \in InWindow(z)
  BY <1>1, <1>2, <1>3, <1>5 DEF InWindow
<1>6. BeforeWindow(z)' \subseteq BeforeWindow(z)
  BY <1>1, <1>2, <1>4 DEF InWindow, BeforeWindow
<1>7. AtMost(InWindow(z)', Used'[z])
  <2>1. InWindow(z)' \subseteq InWindow(z) \union {<<1, k + 1>>}
    BY <1>5
  <2>2. AtMost(InWindow(z), Used[z]) /\ Used[z] \in Nat
    BY <1>1 DEF ZoneQuota
  <2> QED BY <2>1, <2>2, OneMore
<1>8. AtMost(BeforeWindow(z)', Hits)
  BY <1>1, <1>6, SmallerSet DEF ZoneQuota
<1> QED BY <1>1, <1>7, <1>8 DEF ZoneQuota

(* A tick: all grants are older by one, and a window that ends is all that    *)
(* the last Window ticks have.                                              *)
LEMMA AllAged ==
  ASSUME RInv, RInv', NEW z \in Zone, ZoneQuota(z), Tick
  PROVE  ZoneQuota(z)'
<1>1. /\ Window \in Nat \ {0} /\ ttl[z] \in 0 .. Window
      /\ Used[z] \in 0 .. Hits /\ Used'[z] \in 0 .. Hits /\ Hits \in Nat \ {0}
      /\ ttl[z] = 0 <=> count[z] = 0
  BY QuotaTypes, QuotaTypesAfter
<1>2. /\ ttl'[z] = IF ttl[z] > 0 THEN ttl[z] - 1 ELSE 0
      /\ count'[z] = IF ttl'[z] = 0 THEN 0 ELSE count[z]
      /\ \A i \in 1 .. Window : recent'[z][i] = IF i = 1 THEN 0 ELSE recent[z][i - 1]
  BY DEF Tick, Decrement
<1>3. ASSUME NEW g \in Grants(z)'
      PROVE  \E h \in Grants(z) : g = Aged(h) /\ g[1] = h[1] + 1 /\ g[1] <= Window /\ h[1] <= Window
  <2>1. PICK i \in 1 .. Window : \E n \in 1 .. recent'[z][i] : g = <<i, n>>
    BY <1>3, GrantsAre
  <2>2. PICK n \in 1 .. recent'[z][i] : g = <<i, n>>
    BY <2>1
  <2>3. i # 1
    BY <1>2, <2>2
  <2>4. i - 1 \in 1 .. Window /\ n \in 1 .. recent[z][i - 1]
    BY <1>1, <1>2, <2>2, <2>3
  <2>5. <<i - 1, n>> \in Grants(z)
    BY <2>4, GrantsAre
  <2> QED BY <1>1, <2>2, <2>4, <2>5 DEF Aged
<1>4. recent'[z][1] = 0
  BY <1>1, <1>2
<1>5. \A g \in Grants(z) : g[1] \in 1 .. Window
  BY GrantsAre
<1>6. CASE ttl[z] > 1
  <2>1. Used'[z] = Used[z]
    BY <1>1, <1>2, <1>6 DEF Used
  <2>2. \A g \in InWindow(z)' : \E h \in InWindow(z) : g = Aged(h)
    BY <1>1, <1>2, <1>3, <1>5, <1>6 DEF InWindow
  <2>3. \A g \in BeforeWindow(z)' : \E h \in BeforeWindow(z) : g = Aged(h)
    BY <1>1, <1>2, <1>3, <1>5, <1>6 DEF InWindow, BeforeWindow
  <2>4. AtMost(InWindow(z)', Used[z]) /\ AtMost(BeforeWindow(z)', Hits)
    BY <1>1, <2>2, <2>3, OlderSet DEF ZoneQuota
  <2> QED BY <1>4, <2>1, <2>4 DEF ZoneQuota
<1>7. CASE ttl[z] <= 1
  <2>1. ttl'[z] = 0 /\ InWindow(z)' = {} /\ BeforeWindow(z)' = Grants(z)'
    BY <1>1, <1>2, <1>7 DEF InWindow, BeforeWindow
  <2>2. AtMost(InWindow(z)', Used'[z])
    BY <1>1, <2>1, FS_EmptySet DEF AtMost
  <2>3. CASE ttl[z] = 1
    <3>1. \A g \in Grants(z) : g \in InWindow(z)
      BY <1>1, <1>5, <2>3 DEF InWindow
    <3>2. \A g \in BeforeWindow(z)' : \E h \in InWindow(z) : g = Aged(h)
      BY <1>3, <2>1, <3>1
    <3>3. AtMost(BeforeWindow(z)', Used[z])
      BY <1>1, <3>2, OlderSet DEF ZoneQuota
    <3>4. AtMost(BeforeWindow(z)', Hits)
      BY <1>1, <3>3, SmallerSet
    <3> QED BY <1>4, <2>2, <3>4 DEF ZoneQuota
  <2>4. CASE ttl[z] = 0
    <3>1. \A g \in Grants(z) : g \in BeforeWindow(z)
      BY <1>1, <2>4 DEF InWindow, BeforeWindow
    <3>2. \A g \in BeforeWindow(z)' : \E h \in BeforeWindow(z) : g = Aged(h)
      BY <1>3, <2>1, <3>1
    <3>3. AtMost(BeforeWindow(z)', Hits)
      BY <1>1, <3>2, OlderSet DEF ZoneQuota
    <3> QED BY <1>4, <2>2, <3>3 DEF ZoneQuota
  <2> QED BY <1>1, <1>7, <2>3, <2>4
<1> QED BY <1>1, <1>6, <1>7

(* What the script does to its zone. *)
LEMMA ScriptAt ==
  ASSUME RInv, NEW z \in Zone, RunScript(z)
  PROVE  /\ count'[z] = IF count[z] > Hits THEN count[z] ELSE count[z] + 1
         /\ ttl'[z] = IF count[z] = 0 THEN Window ELSE ttl[z]
<1>1. Hits \in Nat \ {0} /\ count \in [Zone -> 0 .. Hits + 1] /\ ttl \in [Zone -> 0 .. Window]
  BY QuotaAssumption DEF RInv, TypeOK
<1>2. count[z] \in 0 .. Hits + 1
  BY <1>1
<1> QED BY <1>1, <1>2 DEF RunScript

LEMMA QuotaStep == QuotaInv /\ [Next]_vars => QuotaInv'
<1> SUFFICES ASSUME QuotaInv, [Next]_vars PROVE QuotaInv'
  OBVIOUS
<1>1. RInv /\ RInv'
  BY CountersNextInv DEF QuotaInv
<1>2. SUFFICES ASSUME NEW z \in Zone PROVE ZoneQuota(z)'
  BY <1>1 DEF QuotaInv
<1>3. ZoneQuota(z)
  BY DEF QuotaInv
<1>4. /\ Hits \in Nat \ {0} /\ Window \in Nat \ {0} /\ Used[z] \in 0 .. Hits
      /\ count[z] \in 0 .. Hits + 1 /\ ttl[z] \in 0 .. Window /\ (ttl[z] = 0 <=> count[z] = 0)
      /\ Used[z] = IF count[z] > Hits THEN Hits ELSE count[z]
      /\ Used'[z] = IF count'[z] > Hits THEN Hits ELSE count'[z]
  BY <1>1, QuotaTypes DEF Used
<1>5. CASE UNCHANGED <<count, ttl, recent>>
  BY <1>1, <1>3, <1>4, <1>5, NothingGranted
<1>6. ASSUME NEW y \in Zone, RunScript(y), y # z, recent'[z] = recent[z] PROVE ZoneQuota(z)'
  <2>1. count'[z] = count[z] /\ ttl'[z] = ttl[z]
    BY <1>1, <1>6 DEF RunScript, RInv, TypeOK
  <2> QED BY <1>1, <1>3, <1>4, <1>6, <2>1, NothingGranted
<1>7. ASSUME RunScript(z), recent'[z] = recent[z] PROVE ZoneQuota(z)'
  <2>1. ttl'[z] = ttl[z] \/ (ttl[z] = 0 /\ ttl'[z] = Window)
    BY <1>1, <1>4, <1>7, ScriptAt
  <2>2. Used[z] <= Used'[z]
    BY <1>1, <1>4, <1>7, ScriptAt
  <2> QED BY <1>1, <1>3, <1>7, <2>1, <2>2, NothingGranted
<1>8. ASSUME NEW c \in Client, Granted(c) PROVE ZoneQuota(z)'
  <2>1. /\ request[c] \in Zone /\ RunScript(request[c]) /\ count'[request[c]] <= Hits
        /\ recent' = [recent EXCEPT ![request[c]] = [recent[request[c]] EXCEPT ![1] = recent[request[c]][1] + 1]]
    BY <1>1, <1>8 DEF Granted, RInv, TypeOK
  <2>2. CASE request[c] # z
    BY <1>1, <1>6, <2>1, <2>2 DEF RInv, TypeOK
  <2>3. CASE request[c] = z
    <3>1. /\ recent[z] \in [1 .. Window -> Nat] /\ recent[z][1] \in Nat
          /\ recent'[z] = [recent[z] EXCEPT ![1] = recent[z][1] + 1]
      BY <1>1, <1>4, <2>1, <2>3 DEF RInv, TypeOK
    <3>2. /\ ttl'[z] > 0
          /\ ttl'[z] = ttl[z] \/ (ttl[z] = 0 /\ ttl'[z] = Window)
          /\ Used'[z] = Used[z] + 1
      BY <1>1, <1>4, <2>1, <2>3, ScriptAt
    <3> QED BY <1>1, <1>3, <3>1, <3>2, OneGranted
  <2> QED BY <2>2, <2>3
<1>9. ASSUME NEW c \in Client, Refused(c) \/ FailOpen(c) PROVE ZoneQuota(z)'
  <2>1. request[c] \in Zone /\ recent' = recent
    BY <1>1, <1>9 DEF Refused, FailOpen, RInv, TypeOK
  <2>2. CASE RunScript(request[c])
    BY <1>6, <1>7, <2>1, <2>2
  <2>3. CASE UNCHANGED <<count, ttl>>
    BY <1>5, <2>1, <2>3
  <2> QED BY <1>9, <2>2, <2>3 DEF Refused, FailOpen
<1>10. CASE Tick
  BY <1>1, <1>3, <1>10, AllAged
<1> QED BY <1>5, <1>8, <1>9, <1>10 DEF Next, vars, Ask, Abandon

(* The grants of any span of Window ticks are those of one window and those  *)
(* that came before it, neither of which is over quota, whoever asks, leaves *)
(* or is let through (rate_limiter.go:28-36).                                *)
THEOREM SpansKeepQuota == Spec => []SlidingQuota
<1>1. ASSUME QuotaInv PROVE SlidingQuota
  <2> SUFFICES ASSUME NEW z \in Zone PROVE Cardinality(Grants(z)) <= 2 * Hits
    BY DEF SlidingQuota
  <2>1. /\ AtMost(InWindow(z), Used[z]) /\ AtMost(BeforeWindow(z), Hits)
        /\ Used[z] \in 0 .. Hits /\ Hits \in Nat
    BY <1>1, QuotaTypes DEF QuotaInv, ZoneQuota
  <2>2. Grants(z) = InWindow(z) \union BeforeWindow(z) /\ InWindow(z) \intersect BeforeWindow(z) = {}
    BY DEF InWindow, BeforeWindow
  <2>3. Cardinality(Grants(z)) = Cardinality(InWindow(z)) + Cardinality(BeforeWindow(z)) - Cardinality({})
    BY <2>1, <2>2, FS_Union DEF AtMost
  <2>4. Cardinality({}) = 0
    BY FS_EmptySet
  <2>5. Cardinality(InWindow(z)) \in Nat /\ Cardinality(BeforeWindow(z)) \in Nat
    BY <2>1, FS_CardinalityType DEF AtMost
  <2> QED BY <2>1, <2>3, <2>4, <2>5 DEF AtMost
<1> QED BY <1>1, QuotaInit, QuotaStep, PTL DEF Spec

-----------------------------------------------------------------------------
(***************************************************************************)
(* InMemoryRateLimit: both limiters implement the same fixed-window quota. *)
(***************************************************************************)

LEMMA WindowsInitType == MemoryInit => MemoryTypeOK
  BY QuotaAssumption DEF MemoryInit, MemoryTypeOK

LEMMA WindowsNextType == MemoryTypeOK /\ [MemoryNext]_memoryVars => MemoryTypeOK'
  <1> SUFFICES ASSUME MemoryTypeOK, [MemoryNext]_memoryVars PROVE MemoryTypeOK'
    OBVIOUS
  <1>1. ASSUME NEW z \in Zone, Acquire(z) PROVE MemoryTypeOK'
    <2>1. 0 \in 0 .. Window /\ 1 \in 0 .. Hits
      BY QuotaAssumption
    <2>2. memoryCount[z] < Hits => memoryCount[z] + 1 \in 0 .. Hits
      BY QuotaAssumption DEF MemoryTypeOK
    <2> QED BY <1>1, <2>1, <2>2 DEF Acquire, MemoryTypeOK
  <1>2. CASE MemoryTick
    BY <1>2, QuotaAssumption DEF MemoryTick, MemoryTypeOK
  <1>3. CASE UNCHANGED memoryVars
    BY <1>3 DEF memoryVars, MemoryTypeOK
  <1> QED BY <1>1, <1>2, <1>3 DEF MemoryNext

(* A count never exceeds the quota, and no window is older than its length.  *)
THEOREM WindowsTypeCorrect == MemorySpec => []MemoryTypeOK
  BY WindowsInitType, WindowsNextType, PTL DEF MemorySpec

-----------------------------------------------------------------------------
AgeLeft    == [z \in Zone |-> Window - memoryAge[z]]
AgeGranted == [z \in Zone |-> IF memoryAge[z] < Window THEN memoryCount[z] ELSE 0]

LEMMA AcquireKeepsQuota ==
  ASSUME MemoryTypeOK, NEW z \in Zone, Acquire(z)
  PROVE  MemoryQuota!Open(z) \/ MemoryQuota!Grant(z)
  <1>1. /\ Hits \in Nat \ {0} /\ Window \in Nat \ {0}
        /\ memoryAge \in [Zone -> 0 .. Window] /\ memoryCount \in [Zone -> 0 .. Hits]
    BY QuotaAssumption DEF MemoryTypeOK
  <1>2. /\ AgeLeft' = [y \in Zone |-> Window - memoryAge'[y]]
        /\ AgeGranted' = [y \in Zone |-> IF memoryAge'[y] < Window THEN memoryCount'[y] ELSE 0]
    BY DEF AgeLeft, AgeGranted
  <1>3. CASE /\ memoryAge[z] >= Window
             /\ memoryAge' = [memoryAge EXCEPT ![z] = 0]
             /\ memoryCount' = [memoryCount EXCEPT ![z] = 1]
    <2>1. AgeLeft[z] = 0
      BY <1>1, <1>3 DEF AgeLeft
    <2>2. AgeLeft' = [AgeLeft EXCEPT ![z] = Window]
      <3>1. \A y \in Zone : AgeLeft'[y] = [AgeLeft EXCEPT ![z] = Window][y]
        BY <1>1, <1>2, <1>3 DEF AgeLeft
      <3> QED BY <1>2, <3>1 DEF AgeLeft
    <2>3. AgeGranted' = [AgeGranted EXCEPT ![z] = 1]
      <3>1. \A y \in Zone : AgeGranted'[y] = [AgeGranted EXCEPT ![z] = 1][y]
        BY <1>1, <1>2, <1>3 DEF AgeGranted
      <3> QED BY <1>2, <3>1 DEF AgeGranted
    <2> QED BY <2>1, <2>2, <2>3 DEF MemoryQuota!Open, AgeLeft, AgeGranted
  <1>4. CASE /\ memoryAge[z] < Window
             /\ memoryCount[z] < Hits
             /\ memoryCount' = [memoryCount EXCEPT ![z] = @ + 1]
             /\ UNCHANGED memoryAge
    <2>1. AgeLeft[z] > 0 /\ AgeGranted[z] < Hits /\ AgeGranted[z] = memoryCount[z]
      BY <1>1, <1>4 DEF AgeLeft, AgeGranted
    <2>2. AgeGranted' = [AgeGranted EXCEPT ![z] = AgeGranted[z] + 1]
      <3>1. \A y \in Zone : AgeGranted'[y] = [AgeGranted EXCEPT ![z] = AgeGranted[z] + 1][y]
        BY <1>1, <1>2, <1>4, <2>1 DEF AgeGranted
      <3> QED BY <1>2, <3>1 DEF AgeGranted
    <2>3. AgeLeft' = AgeLeft
      BY <1>2, <1>4 DEF AgeLeft
    <2> QED BY <2>1, <2>2, <2>3 DEF MemoryQuota!Grant, AgeLeft, AgeGranted
  <1> QED BY <1>3, <1>4 DEF Acquire

LEMMA TickKeepsQuota == MemoryTypeOK /\ MemoryTick => MemoryQuota!Tick
  <1> SUFFICES ASSUME MemoryTypeOK, MemoryTick PROVE MemoryQuota!Tick
    OBVIOUS
  <1>1. /\ Window \in Nat \ {0}
        /\ memoryAge \in [Zone -> 0 .. Window] /\ memoryCount \in [Zone -> 0 .. Hits]
        /\ memoryAge' = [z \in Zone |-> IF memoryAge[z] < Window THEN memoryAge[z] + 1 ELSE Window]
        /\ memoryCount' = memoryCount
    BY QuotaAssumption DEF MemoryTypeOK, MemoryTick
  <1>2. AgeLeft' = [z \in Zone |-> IF AgeLeft[z] > 0 THEN AgeLeft[z] - 1 ELSE 0]
    BY <1>1 DEF AgeLeft
  <1>3. AgeGranted' = [z \in Zone |-> IF AgeLeft[z] > 1 THEN AgeGranted[z] ELSE 0]
    BY <1>1 DEF AgeLeft, AgeGranted
  <1> QED BY <1>2, <1>3 DEF MemoryQuota!Tick, AgeLeft, AgeGranted

(* The in-memory limiter implements the quota that the distributed one does. *)
THEOREM WindowsKeepQuota == MemorySpec => MemoryKeepsQuota
  <1>1. MemoryInit => MemoryQuota!Init
    BY QuotaAssumption DEF MemoryInit, MemoryQuota!Init
  <1>2. MemoryTypeOK /\ [MemoryNext]_memoryVars => [MemoryQuota!Next]_(MemoryQuota!vars)
    BY AcquireKeepsQuota, TickKeepsQuota DEF MemoryNext, memoryVars, MemoryQuota!Next, MemoryQuota!vars
  <1> QED BY <1>1, <1>2, WindowsTypeCorrect, PTL DEF MemorySpec, MemoryKeepsQuota, MemoryQuota!Spec

-----------------------------------------------------------------------------
(***************************************************************************)
(* OperatorRegistry: type correctness, and that a known operator stays known*)
(* while one administrator at a time switches it.                          *)
(***************************************************************************)

LEMMA RegistryInitInv == RegistryInit => RegistryInv
BY RegistryAssumption
   DEF RegistryInit, RegistryInv, RegistryTypeOK, RegistersZone, SwitcherSwitches, TargetWritten, Operation, Partition, MovesFoundRow

(* What a statement does to the table: it writes zone codes only, a deletion *)
(* concerns the partition the row was found in, and a move writes the other. *)
LEMMA EffectFacts ==
  ASSUME RegistryInv, NEW c \in Caller, pc[c] \in Change
  PROVE  /\ Effect(c) \in [Partition -> ZoneCode \union {NoRow}]
         /\ pc[c] # "delete" =>
              \A p \in Partition : row[p] # NoRow => Effect(c)[p] # NoRow
         /\ pc[c] = "move" => Effect(c)[op[c].to] # NoRow
         /\ \A p \in Partition : p # at[c] \/ pc[c] # "delete" =>
              (row[p] # NoRow => Effect(c)[p] # NoRow)
<1> USE DEF Partition
<1>0. /\ row \in [Partition -> ZoneCode \union {NoRow}]
      /\ at[c] \in Partition /\ op[c] \in Operation
      /\ zone[c] \in ZoneCode \union {NoRow}
  BY DEF RegistryInv, RegistryTypeOK
<1>1. CASE pc[c] = "insert"
  <2>1. op[c].zone \in ZoneCode
    BY <1>0, <1>1 DEF RegistryInv, RegistersZone, Operation
  <2>2. Effect(c) = [row EXCEPT !["active"] = IF @ = NoRow THEN op[c].zone ELSE @]
    BY <1>1 DEF Effect
  <2> QED BY <1>0, <1>1, <2>1, <2>2, RegistryAssumption
<1>2. CASE pc[c] = "update"
  <2>1. op[c].zone \in ZoneCode
    BY <1>0, <1>2 DEF RegistryInv, RegistersZone, Operation
  <2>2. Effect(c) = [row EXCEPT ![at[c]] = op[c].zone]
    BY <1>2 DEF Effect
  <2> QED BY <1>0, <1>2, <2>1, <2>2, RegistryAssumption
<1>3. CASE pc[c] = "move"
  <2>1. op[c].to \in Partition /\ zone[c] # NoRow
    BY <1>0, <1>3 DEF RegistryInv, RegistryTypeOK, MovesFoundRow, Operation
  <2>2. Effect(c) = [row EXCEPT ![op[c].to] = zone[c]]
    BY <1>3 DEF Effect
  <2> QED BY <1>0, <1>3, <2>1, <2>2
<1>4. CASE pc[c] = "delete"
  <2>1. Effect(c) = [row EXCEPT ![at[c]] = NoRow]
    BY <1>4 DEF Effect
  <2> QED BY <1>0, <1>4, <2>1
<1> QED BY <1>1, <1>2, <1>3, <1>4 DEF Change

(* Calls that look or begin leave the table alone. *)
LEMMA BeginInv ==
  ASSUME RegistryInv, NEW c \in Caller, NEW o \in Operation, Begin(c, o),
         o.do = "switch" => c \in Switcher
  PROVE  RegistryInv'
<1>1. RegistryTypeOK'
  <2>1. op' \in [Caller -> Operation] /\ pc' \in [Caller -> {"idle"} \union Look \union Change]
    BY DEF RegistryInv, RegistryTypeOK, Begin, Look
  <2>3. alone' \in [Caller -> BOOLEAN]
    BY DEF Begin
  <2>4. calls' \in 0 .. MaxCalls
    BY RegistryAssumption DEF RegistryInv, RegistryTypeOK, Begin
  <2>5. MovesFoundRow'
    BY DEF RegistryInv, RegistryTypeOK, Begin, MovesFoundRow
  <2> QED BY <2>1, <2>3, <2>4, <2>5 DEF RegistryInv, RegistryTypeOK, Begin
<1>2. RegistersZone'
  BY DEF RegistryInv, RegistryTypeOK, Begin, RegistersZone
<1>3. TargetWritten'
  BY DEF RegistryInv, RegistryTypeOK, Begin, TargetWritten, OneSwitcher
<1>4. SwitcherSwitches'
  <2>1. op' = [op EXCEPT ![c] = o] /\ op \in [Caller -> Operation]
    BY DEF RegistryInv, RegistryTypeOK, Begin
  <2>2. \A d \in Caller : op[d].do = "switch" => d \in Switcher
    BY DEF RegistryInv, SwitcherSwitches
  <2> QED BY <2>1, <2>2 DEF SwitcherSwitches
<1> QED BY <1>1, <1>2, <1>3, <1>4 DEF RegistryInv

LEMMA FoundInv ==
  ASSUME RegistryInv, NEW c \in Caller, NEW p \in Partition, pc[c] \in Look, Found(c, p),
         UNCHANGED <<row, op, alone, calls, faults>>
  PROVE  RegistryInv'
<1>1. /\ row[p] \in ZoneCode /\ op[c] \in Operation
      /\ at' = [at EXCEPT ![c] = p] /\ zone' = [zone EXCEPT ![c] = row[p]]
  BY DEF RegistryInv, RegistryTypeOK, Found
<1>2. \/ /\ op[c].do = "register"
         /\ pc' = [pc EXCEPT ![c] = "update"] /\ result' = result
      \/ /\ op[c].do = "switch" /\ op[c].to # p
         /\ pc' = [pc EXCEPT ![c] = "move"] /\ result' = result
      \/ pc' = [pc EXCEPT ![c] = "idle"] /\ result' = [result EXCEPT ![c] = p]
  BY DEF Found, GoTo, Return
<1>3. RegistryTypeOK'
  <2>1. pc' \in [Caller -> {"idle"} \union Look \union Change]
    BY <1>2 DEF RegistryInv, RegistryTypeOK, Change
  <2>2. result' \in [Caller -> Partition \union {"error", "unknown"}]
    BY <1>2 DEF RegistryInv, RegistryTypeOK
  <2>3. MovesFoundRow'
    <3> SUFFICES ASSUME NEW d \in Caller, pc'[d] \in {"move", "delete"}
                 PROVE  /\ op'[d].do = "switch" /\ d \in Switcher
                        /\ op'[d].to # at'[d] /\ zone'[d] # NoRow
      BY DEF MovesFoundRow
    <3>1. CASE d = c
      <4>1. op'[c] = op[c] /\ at'[c] = p /\ zone'[c] = row[p] /\ row[p] # NoRow
        BY <1>1, RegistryAssumption DEF RegistryInv, RegistryTypeOK
      <4>2. pc'[c] = "move" /\ op[c].do = "switch" /\ op[c].to # p
        BY <1>2, <3>1 DEF RegistryInv, RegistryTypeOK
      <4>3. c \in Switcher
        BY <4>2 DEF RegistryInv, SwitcherSwitches
      <4> QED BY <3>1, <4>1, <4>2, <4>3
    <3>2. CASE d # c
      BY <1>1, <1>2, <3>2 DEF RegistryInv, RegistryTypeOK, MovesFoundRow
    <3> QED BY <3>1, <3>2
  <2>4. at' \in [Caller -> Partition] /\ zone' \in [Caller -> ZoneCode \union {NoRow}]
    BY <1>1 DEF RegistryInv, RegistryTypeOK
  <2> QED BY <2>1, <2>2, <2>3, <2>4 DEF RegistryInv, RegistryTypeOK
<1>4. RegistersZone'
  BY <1>2 DEF RegistryInv, RegistryTypeOK, RegistersZone
<1>5. TargetWritten'
  BY <1>2 DEF RegistryInv, RegistryTypeOK, TargetWritten, OneSwitcher
<1> QED BY <1>3, <1>4, <1>5 DEF RegistryInv, SwitcherSwitches

LEMMA NotFoundInv ==
  ASSUME RegistryInv, NEW c \in Caller, UNCHANGED <<row, op, at, zone, alone, calls, faults>>,
         \/ \E step \in {"lookOff", "lookOffAgain", "insert"} :
              /\ step # "lookOff" => op[c].do = "register"
              /\ GoTo(c, step)
         \/ \E answer \in {"unknown", "error"} : Return(c, answer)
  PROVE  RegistryInv'
<1>1. RegistryTypeOK'
  <2>1. pc' \in [Caller -> {"idle"} \union Look \union Change]
    BY DEF RegistryInv, RegistryTypeOK, GoTo, Return, Look, Change
  <2>2. result' \in [Caller -> Partition \union {"error", "unknown"}]
    BY DEF RegistryInv, RegistryTypeOK, GoTo, Return
  <2>3. MovesFoundRow'
    BY DEF RegistryInv, RegistryTypeOK, GoTo, Return, MovesFoundRow
  <2> QED BY <2>1, <2>2, <2>3 DEF RegistryInv, RegistryTypeOK
<1>2. RegistersZone'
  BY DEF RegistryInv, RegistryTypeOK, GoTo, Return, RegistersZone
<1>3. TargetWritten'
  BY DEF RegistryInv, RegistryTypeOK, GoTo, Return, TargetWritten, OneSwitcher
<1> QED BY <1>1, <1>2, <1>3 DEF RegistryInv, SwitcherSwitches

LEMMA LookActiveInv ==
  ASSUME RegistryInv, NEW c \in Caller, LookActive(c)
  PROVE  RegistryInv'
<1>1. CASE pc[c] \in {"look", "lookAgain"} /\ Found(c, "active")
  BY <1>1, FoundInv DEF LookActive, Partition, Look
<1>2. CASE pc[c] = "look" /\ NotFound(c, "active") /\ GoTo(c, "lookOff")
  BY <1>2, NotFoundInv DEF LookActive, NotFound
<1>3. CASE pc[c] = "lookAgain" /\ NotFound(c, "active") /\ GoTo(c, "lookOffAgain")
  <2>1. op[c].do = "register"
    BY <1>3 DEF RegistryInv, RegistersZone
  <2> QED BY <1>3, <2>1, NotFoundInv DEF LookActive, NotFound
<1> QED BY <1>1, <1>2, <1>3 DEF LookActive

LEMMA LookInactiveInv ==
  ASSUME RegistryInv, NEW c \in Caller, LookInactive(c)
  PROVE  RegistryInv'
<1>1. CASE pc[c] \in {"lookOff", "lookOffAgain"} /\ Found(c, "inactive")
  BY <1>1, FoundInv DEF LookInactive, Partition, Look
<1>2. CASE /\ NotFound(c, "inactive")
           /\ \/ op[c].do = "register" /\ GoTo(c, "insert")
              \/ Return(c, "unknown")
              \/ Return(c, "error")
  BY <1>2, NotFoundInv DEF LookInactive, NotFound
<1> QED BY <1>1, <1>2 DEF LookInactive

LEMMA ExecuteInv ==
  ASSUME RegistryInv, NEW c \in Caller, Execute(c)
  PROVE  RegistryInv'
<1>1. pc[c] \in Change /\ row' = Effect(c)
  BY DEF Execute
<1>2. \/ pc[c] = "insert" /\ pc' = [pc EXCEPT ![c] = "lookAgain"] /\ result' = result
      \/ pc[c] = "update" /\ pc' = [pc EXCEPT ![c] = "idle"]
                          /\ result' = [result EXCEPT ![c] = at[c]]
      \/ pc[c] = "move" /\ pc' = [pc EXCEPT ![c] = "delete"] /\ result' = result
      \/ pc[c] = "delete" /\ pc' = [pc EXCEPT ![c] = "idle"]
                          /\ result' = [result EXCEPT ![c] = op[c].to]
  BY DEF Execute, GoTo, Return
<1>3. UNCHANGED <<op, at, zone, alone, calls, faults>>
  BY DEF Execute
<1>4. pc[c] = "delete" => op[c].to \in Partition
  BY DEF RegistryInv, RegistryTypeOK, MovesFoundRow, Operation
<1>5. RegistryTypeOK'
  <2>1. row' \in [Partition -> ZoneCode \union {NoRow}]
    BY <1>1, EffectFacts
  <2>2. pc' \in [Caller -> {"idle"} \union Look \union Change]
    BY <1>2 DEF RegistryInv, RegistryTypeOK, Look, Change
  <2>3. result' \in [Caller -> Partition \union {"error", "unknown"}]
    BY <1>2, <1>4 DEF RegistryInv, RegistryTypeOK
  <2>4. MovesFoundRow'
    BY <1>2, <1>3 DEF RegistryInv, RegistryTypeOK, MovesFoundRow
  <2> QED BY <1>3, <2>1, <2>2, <2>3, <2>4 DEF RegistryInv, RegistryTypeOK
<1>6. RegistersZone'
  BY <1>2, <1>3 DEF RegistryInv, RegistryTypeOK, RegistersZone
<1>7. TargetWritten'
  <2> SUFFICES ASSUME NEW d \in Caller, OneSwitcher, pc'[d] = "delete"
               PROVE  row'[op'[d].to] # NoRow
    BY DEF TargetWritten, OneSwitcher
  <2>1. CASE d = c
    BY <1>1, <1>2, <1>3, <2>1, EffectFacts DEF RegistryInv, RegistryTypeOK
  <2>2. CASE d # c
    <3>1. pc[d] = "delete" /\ op'[d] = op[d] /\ row[op[d].to] # NoRow
      BY <1>2, <1>3, <2>2 DEF RegistryInv, RegistryTypeOK, TargetWritten
    <3>2. op[d].to \in Partition /\ d \in Switcher
      BY <3>1 DEF RegistryInv, RegistryTypeOK, MovesFoundRow, Operation
    <3>3. pc[c] # "delete"
      BY <2>2, <3>2 DEF RegistryInv, RegistryTypeOK, MovesFoundRow, OneSwitcher
    <3> QED BY <1>1, <3>1, <3>2, <3>3, EffectFacts
  <2> QED BY <2>1, <2>2
<1> QED BY <1>3, <1>5, <1>6, <1>7 DEF RegistryInv, SwitcherSwitches

LEMMA FailInv ==
  ASSUME RegistryInv, NEW c \in Caller, Fail(c)
  PROVE  RegistryInv'
<1>1. /\ pc' = [pc EXCEPT ![c] = "idle"] /\ result' = [result EXCEPT ![c] = "error"]
      /\ UNCHANGED <<op, at, zone, alone, calls>>
      /\ faults < MaxFaults /\ faults' = faults + 1
  BY DEF Fail, Return
<1>2. \/ row' = row
      \/ pc[c] \in Change /\ row' = Effect(c)
  BY DEF Fail
<1>3. RegistryTypeOK'
  <2>1. row' \in [Partition -> ZoneCode \union {NoRow}]
    BY <1>2, EffectFacts DEF RegistryInv, RegistryTypeOK
  <2>2. pc' \in [Caller -> {"idle"} \union Look \union Change] /\ MovesFoundRow'
    BY <1>1 DEF RegistryInv, RegistryTypeOK, MovesFoundRow
  <2>3. result' \in [Caller -> Partition \union {"error", "unknown"}]
    BY <1>1 DEF RegistryInv, RegistryTypeOK
  <2>4. faults' \in 0 .. MaxFaults
    BY <1>1, RegistryAssumption DEF RegistryInv, RegistryTypeOK
  <2> QED BY <1>1, <2>1, <2>2, <2>3, <2>4 DEF RegistryInv, RegistryTypeOK
<1>4. RegistersZone'
  BY <1>1 DEF RegistryInv, RegistryTypeOK, RegistersZone
<1>5. TargetWritten'
  <2> SUFFICES ASSUME NEW d \in Caller, OneSwitcher, pc'[d] = "delete"
               PROVE  row'[op'[d].to] # NoRow
    BY DEF TargetWritten, OneSwitcher
  <2>1. d # c /\ pc[d] = "delete" /\ op'[d] = op[d] /\ row[op[d].to] # NoRow
    BY <1>1 DEF RegistryInv, RegistryTypeOK, TargetWritten
  <2>2. op[d].to \in Partition /\ d \in Switcher
    BY <2>1 DEF RegistryInv, RegistryTypeOK, MovesFoundRow, Operation
  <2>3. pc[c] # "delete"
    BY <2>1, <2>2 DEF RegistryInv, RegistryTypeOK, MovesFoundRow, OneSwitcher
  <2> QED BY <1>2, <2>1, <2>2, <2>3, EffectFacts
<1> QED BY <1>1, <1>3, <1>4, <1>5 DEF RegistryInv, SwitcherSwitches

LEMMA RegistryStepInv == RegistryInv /\ [RegistryNext]_registryVars => RegistryInv'
<1> SUFFICES ASSUME RegistryInv, [RegistryNext]_registryVars PROVE RegistryInv'
  OBVIOUS
<1>1. ASSUME NEW c \in Caller, RegisterOperator(c) PROVE RegistryInv'
  <2>1. PICK z \in ZoneCode : Begin(c, [do |-> "register", zone |-> z])
    BY <1>1 DEF RegisterOperator
  <2> QED BY <2>1, BeginInv DEF Operation
<1>2. ASSUME NEW c \in Caller, SetOperatorActive(c) PROVE RegistryInv'
  <2>1. PICK p \in Partition : Begin(c, [do |-> "switch", to |-> p])
    BY <1>2 DEF SetOperatorActive
  <2> QED BY <1>2, <2>1, BeginInv DEF Operation, SetOperatorActive
<1>3. ASSUME NEW c \in Caller, FindOperator(c) PROVE RegistryInv'
  BY <1>3, BeginInv DEF FindOperator, Operation
<1>4. CASE UNCHANGED registryVars
  BY <1>4 DEF registryVars, RegistryInv, RegistryTypeOK, MovesFoundRow, RegistersZone, SwitcherSwitches, TargetWritten, OneSwitcher
<1> QED BY <1>1, <1>2, <1>3, <1>4, LookActiveInv, LookInactiveInv, ExecuteInv, FailInv DEF RegistryNext

LEMMA RegistryInvariance == RegistrySpec => []RegistryInv
BY RegistryInitInv, RegistryStepInv, PTL DEF RegistrySpec

(* The types of the registry's state, and that only a switch to the other    *)
(* partition moves a row it has found (SetOperatorActive's early return).    *)
THEOREM RegistryTypeCorrect == RegistrySpec => []RegistryTypeOK
<1>1. RegistryInv => RegistryTypeOK
  BY DEF RegistryInv
<1> QED BY <1>1, RegistryInvariance, PTL

(* A known operator stays known, for any number of registrations, failures   *)
(* and zones, as long as one administrator at a time switches it: the move   *)
(* writes the new row before it deletes the old one.                         *)
THEOREM OperatorsStayKnown == RegistrySpec => KnownStays
<1>1. RegistryInv /\ [RegistryNext]_registryVars => [OneSwitcher /\ Known => Known']_registryVars
  <2> SUFFICES ASSUME RegistryInv, RegistryNext, OneSwitcher, Known PROVE Known'
    OBVIOUS
  <2>1. PICK c \in Caller : \/ row' = row
                            \/ pc[c] \in Change /\ row' = Effect(c)
    BY DEF RegistryNext, RegisterOperator, SetOperatorActive, FindOperator, Begin,
           LookActive, LookInactive, Execute, Fail
  <2>2. PICK p \in Partition : row[p] # NoRow
    BY DEF Known
  <2>3. CASE pc[c] = "delete"
    <3>1. op[c].to \in Partition /\ row[op[c].to] # NoRow /\ op[c].to # at[c]
      BY <2>3 DEF RegistryInv, RegistryTypeOK, MovesFoundRow, TargetWritten, Operation
    <3> QED BY <2>1, <3>1, EffectFacts DEF Known
  <2>4. CASE pc[c] # "delete"
    BY <2>1, <2>2, <2>4, EffectFacts DEF Known
  <2> QED BY <2>3, <2>4
<1> QED BY <1>1, RegistryInvariance, PTL DEF RegistrySpec, KnownStays

(* What a call that nobody has overlapped may rely on: it is the only one, and *)
(* each statement finds what the last one saw or left.                         *)
SeesOwnWork(c) ==
  /\ \A d \in Caller \ {c} : pc[d] = "idle"
  /\ pc[c] # "lookOffAgain"
  /\ pc[c] \in {"lookOff", "insert"} => row["active"] = NoRow
  /\ pc[c] = "insert" => row["inactive"] = NoRow
  /\ pc[c] = "lookAgain" => row["active"] # NoRow
  /\ pc[c] \in {"update", "move"} =>
       row[at[c]] # NoRow /\ (at[c] = "active" \/ row["active"] = NoRow)
  /\ pc[c] = "move" => row[at[c]] = zone[c]
  /\ pc[c] = "delete" => row[op[c].to] = zone[c]

AloneSees == \A c \in Caller : alone[c] /\ pc[c] # "idle" => SeesOwnWork(c)

(* What the call does while it stays alone, and what it returns. *)
Agrees(c) ==
  /\ result'[c] = IF Known' THEN Status' ELSE "unknown"
  /\ op[c].do = "switch" /\ Known' => Status' = op[c].to /\ row'[Status'] = zone'[c]
  /\ op[c].do = "register" => row'[Status'] = op[c].zone

LEMMA FoundAlone ==
  ASSUME RegistryInv, NEW c \in Caller, SeesOwnWork(c), NEW p \in Partition, pc[c] \in Look, Found(c, p),
         p = "active" \/ row["active"] = NoRow,
         UNCHANGED <<row, op>>
  PROVE  /\ pc'[c] # "idle" => SeesOwnWork(c)'
         /\ pc'[c] = "idle" => Agrees(c)
<1>1. /\ row[p] # NoRow /\ at'[c] = p /\ zone'[c] = row[p] /\ row' = row /\ op' = op
      /\ \A d \in Caller \ {c} : pc'[d] = "idle"
  BY DEF Found, GoTo, Return, SeesOwnWork, RegistryInv, RegistryTypeOK
<1>2. \/ op[c].do = "register" /\ pc'[c] = "update"
      \/ op[c].do = "switch" /\ pc'[c] = "move"
      \/ op[c].do = "switch" /\ op[c].to = p /\ pc'[c] = "idle" /\ result'[c] = p
      \/ op[c].do = "find" /\ pc'[c] = "idle" /\ result'[c] = p
  BY DEF Found, GoTo, Return, RegistryInv, RegistryTypeOK
<1>3. Status' = p /\ Known'
  BY <1>1 DEF Status, Known, Partition
<1> QED BY <1>1, <1>2, <1>3 DEF SeesOwnWork, Agrees

LEMMA StepAlone ==
  ASSUME RegistryInv, NEW c \in Caller, SeesOwnWork(c),
         LookActive(c) \/ LookInactive(c) \/ Execute(c) \/ Fail(c)
  PROVE  /\ pc'[c] # "idle" => SeesOwnWork(c)'
         /\ pc'[c] = "idle" /\ result'[c] # "error" => Agrees(c)
<1>1. CASE pc[c] \in {"look", "lookAgain"} /\ Found(c, "active") /\ UNCHANGED <<row, op>>
  BY <1>1, FoundAlone DEF Partition, Look
<1>2. CASE pc[c] = "look" /\ NotFound(c, "active") /\ GoTo(c, "lookOff") /\ UNCHANGED <<row, op>>
  BY <1>2 DEF NotFound, GoTo, SeesOwnWork, RegistryInv, RegistryTypeOK
<1>3. CASE pc[c] = "lookAgain" /\ NotFound(c, "active")
  BY <1>3 DEF NotFound, SeesOwnWork
<1>4. CASE pc[c] \in {"lookOff", "lookOffAgain"} /\ Found(c, "inactive") /\ UNCHANGED <<row, op>>
  BY <1>4, FoundAlone DEF Partition, Look, SeesOwnWork
<1>5. CASE /\ pc[c] = "lookOff" /\ NotFound(c, "inactive") /\ op[c].do = "register" /\ GoTo(c, "insert")
           /\ UNCHANGED <<row, op>>
  BY <1>5 DEF NotFound, GoTo, SeesOwnWork, RegistryInv, RegistryTypeOK
<1>6. CASE /\ pc[c] = "lookOff" /\ NotFound(c, "inactive") /\ op[c].do # "register" /\ Return(c, "unknown")
           /\ UNCHANGED <<row, op>>
  <2>1. ~Known'
    BY <1>6 DEF Known, Partition, NotFound, SeesOwnWork
  <2> QED BY <1>6, <2>1 DEF Agrees, Return, RegistryInv, RegistryTypeOK
<1>7. CASE pc[c] = "lookOffAgain"
  BY <1>7 DEF SeesOwnWork
<1>8. CASE Execute(c)
  <2>0. /\ row \in [Partition -> ZoneCode \union {NoRow}] /\ at[c] \in Partition /\ op[c] \in Operation
        /\ NoRow \notin ZoneCode /\ op' = op /\ at' = at /\ zone' = zone
        /\ pc \in [Caller -> {"idle"} \union Look \union Change]
        /\ result \in [Caller -> Partition \union {"error", "unknown"}]
    BY <1>8, RegistryAssumption DEF Execute, RegistryInv, RegistryTypeOK
  <2>1. CASE pc[c] = "insert" /\ row' = Effect(c) /\ GoTo(c, "lookAgain")
    <3>1. op[c].zone \in ZoneCode
      BY <2>0, <2>1 DEF RegistryInv, RegistersZone, Operation
    <3>2. row'["active"] # NoRow
      BY <2>0, <2>1, <3>1 DEF Effect, Partition
    <3> QED BY <2>0, <2>1, <3>2 DEF GoTo, SeesOwnWork
  <2>2. CASE pc[c] = "update" /\ row' = Effect(c) /\ Return(c, at[c])
    <3>1. op[c].do = "register" /\ op[c].zone \in ZoneCode
      BY <2>0, <2>2 DEF RegistryInv, RegistersZone, Operation
    <3>2. row' = [row EXCEPT ![at[c]] = op[c].zone]
      BY <2>2 DEF Effect
    <3>3. /\ row'[at[c]] = op[c].zone /\ row'[at[c]] # NoRow
          /\ at[c] = "active" \/ row'["active"] = NoRow
      BY <2>0, <2>2, <3>1, <3>2 DEF Partition, SeesOwnWork
    <3>4. Known' /\ Status' = at[c]
      BY <2>0, <3>3 DEF Known, Status, Partition
    <3>5. pc'[c] = "idle" /\ result'[c] = at[c]
      BY <2>0, <2>2 DEF Return
    <3> QED BY <3>1, <3>3, <3>4, <3>5 DEF Agrees
  <2>3. CASE pc[c] = "move" /\ row' = Effect(c) /\ GoTo(c, "delete")
    <3>1. op[c].to \in Partition
      BY <2>0, <2>3 DEF RegistryInv, RegistryTypeOK, MovesFoundRow, Operation
    <3>2. row' = [row EXCEPT ![op[c].to] = zone[c]]
      BY <2>3 DEF Effect
    <3> QED BY <2>0, <2>3, <3>1, <3>2 DEF GoTo, SeesOwnWork
  <2>4. CASE pc[c] = "delete" /\ row' = Effect(c) /\ Return(c, op[c].to)
    <3>1. op[c].to \in Partition /\ op[c].do = "switch" /\ op[c].to # at[c] /\ zone[c] # NoRow
      BY <2>0, <2>4 DEF RegistryInv, RegistryTypeOK, MovesFoundRow, Operation
    <3>2. row' = [row EXCEPT ![at[c]] = NoRow]
      BY <2>4 DEF Effect
    <3>3. row'[at[c]] = NoRow /\ row'[op[c].to] = zone[c]
      BY <2>0, <2>4, <3>1, <3>2 DEF SeesOwnWork
    <3>4. Known' /\ Status' = op[c].to
      BY <2>0, <3>1, <3>3 DEF Known, Status, Partition
    <3>5. pc'[c] = "idle" /\ result'[c] = op[c].to
      BY <2>0, <2>4 DEF Return
    <3> QED BY <2>0, <3>1, <3>3, <3>4, <3>5 DEF Agrees
  <2> QED BY <1>8, <2>1, <2>2, <2>3, <2>4 DEF Execute
<1>9. CASE Fail(c)
  BY <1>9 DEF Fail, Return, RegistryInv, RegistryTypeOK
<1> QED BY <1>1, <1>2, <1>3, <1>4, <1>5, <1>6, <1>7, <1>8, <1>9 DEF LookActive, LookInactive

LEMMA AloneStepInv == RegistryInv /\ AloneSees /\ [RegistryNext]_registryVars => AloneSees'
<1> SUFFICES ASSUME RegistryInv, AloneSees, [RegistryNext]_registryVars,
                    NEW d \in Caller, alone'[d], pc'[d] # "idle"
             PROVE  SeesOwnWork(d)'
  BY DEF AloneSees
<1>1. ASSUME NEW c \in Caller, NEW o, Begin(c, o) PROVE SeesOwnWork(d)'
  <2>1. d = c /\ \A e \in Caller \ {c} : pc[e] = "idle"
    BY <1>1 DEF Begin
  <2> QED BY <1>1, <2>1 DEF Begin, SeesOwnWork, RegistryInv, RegistryTypeOK
<1>2. ASSUME NEW c \in Caller, LookActive(c) \/ LookInactive(c) \/ Execute(c) \/ Fail(c)
      PROVE  SeesOwnWork(d)'
  <2>1. pc[c] # "idle" /\ alone' = alone /\ \A e \in Caller \ {c} : pc'[e] = pc[e]
    BY <1>2 DEF LookActive, LookInactive, Execute, Fail, Found, NotFound, GoTo, Return, Change,
                RegistryInv, RegistryTypeOK
  <2>2. pc[d] # "idle"
    BY <2>1
  <2>3. SeesOwnWork(d)
    BY <2>1, <2>2 DEF AloneSees
  <2>4. d = c
    BY <2>1, <2>3 DEF SeesOwnWork
  <2> QED BY <1>2, <2>3, <2>4, StepAlone
<1>3. CASE UNCHANGED registryVars
  BY <1>3 DEF registryVars, AloneSees, SeesOwnWork
<1> QED BY <1>1, <1>2, <1>3 DEF RegistryNext, RegisterOperator, SetOperatorActive, FindOperator

(* A call that no other call overlapped tells the truth about what it left.  *)
THEOREM UndisturbedCallsTellTruth == RegistrySpec => UndisturbedCallsAgree
<1>1. RegistryInit => AloneSees
  BY DEF RegistryInit, AloneSees
<1>2. RegistryInv /\ AloneSees /\ [RegistryNext]_registryVars =>
        [\A c \in Caller :
           pc[c] # "idle" /\ pc'[c] = "idle" /\ alone[c] /\ result'[c] # "error" => Agrees(c)]_registryVars
  <2> SUFFICES ASSUME RegistryInv, AloneSees, RegistryNext, NEW d \in Caller,
                      pc[d] # "idle", pc'[d] = "idle", alone[d], result'[d] # "error"
               PROVE  Agrees(d)
    OBVIOUS
  <2>1. SeesOwnWork(d)
    BY DEF AloneSees
  <2>2. ASSUME NEW c \in Caller, NEW o, Begin(c, o) PROVE FALSE
    BY <2>2 DEF Begin, RegistryInv, RegistryTypeOK
  <2>3. ASSUME NEW c \in Caller, LookActive(c) \/ LookInactive(c) \/ Execute(c) \/ Fail(c)
        PROVE  c = d
    BY <2>3 DEF LookActive, LookInactive, Execute, Fail, Found, NotFound, GoTo, Return,
                RegistryInv, RegistryTypeOK
  <2>4. LookActive(d) \/ LookInactive(d) \/ Execute(d) \/ Fail(d)
    BY <2>2, <2>3 DEF RegistryNext, RegisterOperator, SetOperatorActive, FindOperator
  <2> QED BY <2>1, <2>4, StepAlone
<1> QED BY <1>1, <1>2, AloneStepInv, RegistryInvariance, PTL DEF RegistrySpec, UndisturbedCallsAgree, Agrees

-----------------------------------------------------------------------------
(***************************************************************************)
(* TripDocuments: what is indexed is what is matched, no document speaks of*)
(* another trip or stage, only a live seat map leaves gaps, and a live     *)
(* Search leaves nothing to repair.                                        *)
(***************************************************************************)

(* The sets of identifiers that a seat map may lack. *)
Omissible == SUBSET {"tripCode", "tripStageCode", "stations"}

Walk(stations) == stations \in Seq(Station) /\ Len(stations) > 1

GoodEntry(e) ==
  /\ {"tripCode", "tripStageCode", "stations"} \subseteq DOMAIN e
  /\ e["tripStageCode"] \in Stage
  /\ e["tripCode"] = TripOf[e["tripStageCode"]]
  /\ Walk(e["stations"])
  /\ \A f \in {"availableSeatCount", "bus"} : f \in DOMAIN e => e[f].of = e["tripCode"]
  /\ "stageFare" \in DOMAIN e => e["stageFare"].of = e["tripStageCode"]
  /\ "additionalAttributes" \in DOMAIN e => TripOf[e["additionalAttributes"].of] = e["tripCode"]

GoodSeats(e) ==
  /\ e["seatLayoutList"].of = e["tripStageCode"]
  /\ e["additionalAttributes"].of = e["tripStageCode"]

SeatsOfTrip(e) == e["seatLayoutList"].of \in {s \in Stage : TripOf[s] = e["tripCode"]}

Whole(e) == SearchFields \subseteq DOMAIN e

-----------------------------------------------------------------------------
(* What BITS says of a stage, field by field. *)
LEMMA BitsValues ==
  ASSUME NEW s \in Stage, NEW v \in 1 .. MaxVersion
  PROVE  /\ BitsValue(s, v, "tripCode") = TripOf[s]
         /\ BitsValue(s, v, "tripStageCode") = s
         /\ BitsValue(s, v, "stations") = Path[s][v]
         /\ BitsValue(s, v, "availableSeatCount").of = TripOf[s]
         /\ BitsValue(s, v, "bus").of = TripOf[s]
         /\ BitsValue(s, v, "stageFare").of = s
         /\ BitsValue(s, v, "seatLayoutList").of = s
         /\ BitsValue(s, v, "additionalAttributes").of = s
         /\ Walk(BitsValue(s, v, "stations"))
<1>1. Walk(Path[s][v])
  BY DocumentsAssumption DEF DocumentsAssumption, Walk
<1> QED BY <1>1 DEF BitsValue, About

LEMMA SearchEntryFields ==
  ASSUME NEW s \in Stage, NEW v \in 1 .. MaxVersion
  PROVE  /\ DOMAIN SearchEntry(s, v) = SearchFields
         /\ \A f \in SearchFields : SearchEntry(s, v)[f] = BitsValue(s, v, f)
         /\ SearchEntry(s, v)["tripCode"] = TripOf[s]
         /\ SearchEntry(s, v)["tripStageCode"] = s
         /\ SearchEntry(s, v)["stations"] = Path[s][v]
         /\ GoodEntry(SearchEntry(s, v))
<1>1. /\ DOMAIN SearchEntry(s, v) = SearchFields
      /\ \A f \in SearchFields : SearchEntry(s, v)[f] = BitsValue(s, v, f)
  BY DEF SearchEntry
<1> HIDE DEF SearchEntry
<1>2. {"tripCode", "tripStageCode", "stations", "availableSeatCount", "bus", "stageFare"} \subseteq SearchFields
  BY DEF SearchFields
<1> QED BY <1>1, <1>2, BitsValues DEF GoodEntry

LEMMA BusMapEntryFields ==
  ASSUME NEW s, NEW v, NEW omitted
  PROVE  DOMAIN BusMapEntry(s, v, omitted) = BusMapFields \ omitted
BY DEF BusMapEntry

LEMMA BusMapEntryValues ==
  ASSUME NEW s \in Stage, NEW v \in 1 .. MaxVersion, NEW omitted \in Omissible
  PROVE  /\ BusMapEntry(s, v, omitted)["bus"].of = TripOf[s]
         /\ BusMapEntry(s, v, omitted)["seatLayoutList"].of = s
         /\ BusMapEntry(s, v, omitted)["additionalAttributes"].of = s
         /\ "tripCode" \notin omitted => BusMapEntry(s, v, omitted)["tripCode"] = TripOf[s]
         /\ "tripStageCode" \notin omitted => BusMapEntry(s, v, omitted)["tripStageCode"] = s
         /\ "stations" \notin omitted => Walk(BusMapEntry(s, v, omitted)["stations"])
<1>1. \A f \in BusMapFields \ omitted : BusMapEntry(s, v, omitted)[f] = BitsValue(s, v, f)
  BY DEF BusMapEntry
<1>2. /\ {"bus", "seatLayoutList", "additionalAttributes"} \subseteq BusMapFields \ omitted
      /\ {"tripCode", "tripStageCode", "stations"} \subseteq BusMapFields
  BY DEF BusMapFields, Omissible
<1> QED BY <1>1, <1>2, BitsValues

-----------------------------------------------------------------------------
(* A nonempty document is not the absence of one. *)
LEMMA DocumentsHaveFields ==
  ASSUME NEW d, NEW f \in DOMAIN d
  PROVE  d # NoDocument
BY DEF NoDocument

LEMMA StoresFacts ==
  ASSUME NEW c, NEW entries, NEW withBusMap \in BOOLEAN, NEW d \in Stores(c, entries, withBusMap)
  PROVE  /\ DOMAIN d.trip = Trip /\ DOMAIN d.stage = Stage /\ DOMAIN d.busmap = Stage
         /\ DOMAIN d = {"trip", "stage", "busmap", "rows"}
         /\ \A t \in Trip :
              \/ d.trip[t] = c.trip[t] /\ \A e \in entries : e["tripCode"] # t
              \/ \E e \in entries : e["tripCode"] = t /\ d.trip[t] = commonTripProjection(e)
         /\ \A s \in Stage :
              \/ d.stage[s] = c.stage[s] /\ \A e \in entries : e["tripStageCode"] # s
              \/ \E e \in entries : e["tripStageCode"] = s /\ d.stage[s] = stageProjection(e)
         /\ \A s \in Stage :
              \/ d.busmap[s] = c.busmap[s]
              \/ withBusMap /\ \E e \in entries : e["tripStageCode"] = s /\ d.busmap[s] = e
         /\ c.rows \subseteq d.rows
         /\ \A e \in entries : \A r \in stageMetadataRecords(e["stations"]) :
              <<r, e["tripStageCode"]>> \in d.rows
<1> DEFINE trips == {e["tripCode"] : e \in entries}
           Of(s) == {e \in entries : e["tripStageCode"] = s}
           T(last) == [t \in Trip |-> IF t \in trips THEN StoreTrip(c.trip[t], last[t]) ELSE c.trip[t]]
           G == [s \in Stage |-> IF Of(s) = {} THEN c.stage[s]
                                 ELSE stageProjection(CHOOSE e \in Of(s) : TRUE)]
           B == [s \in Stage |-> IF Of(s) = {} \/ ~withBusMap THEN c.busmap[s]
                                 ELSE CHOOSE e \in Of(s) : TRUE]
           R == c.rows \union UNION {{<<r, e["tripStageCode"]>> :
                                       r \in stageMetadataRecords(e["stations"])} : e \in entries}
           L == {l \in [trips -> entries] : \A t \in trips : l[t]["tripCode"] = t}
<1>1. PICK last \in L : d = [trip |-> T(last), stage |-> G, busmap |-> B, rows |-> R]
  BY Zenon DEF Stores
<1>2. /\ d.trip = T(last) /\ d.stage = G /\ d.busmap = B /\ d.rows = R
      /\ DOMAIN d = {"trip", "stage", "busmap", "rows"}
  <2> HIDE DEF T, G, B, R
  <2> QED BY <1>1
<1>3. ASSUME NEW t \in Trip
      PROVE  \/ d.trip[t] = c.trip[t] /\ \A e \in entries : e["tripCode"] # t
             \/ \E e \in entries : e["tripCode"] = t /\ d.trip[t] = commonTripProjection(e)
  <2>1. CASE t \in trips
    <3>1. d.trip[t] = commonTripProjection(last[t])
      BY <1>2, <2>1 DEF StoreTrip
    <3>2. last[t] \in entries /\ last[t]["tripCode"] = t
      BY <2>1
    <3> QED BY <3>1, <3>2
  <2>2. CASE t \notin trips
    BY <1>2, <2>2
  <2> QED BY <2>1, <2>2
<1>4. ASSUME NEW s \in Stage
      PROVE  /\ \/ d.stage[s] = c.stage[s] /\ \A e \in entries : e["tripStageCode"] # s
                \/ \E e \in entries : e["tripStageCode"] = s /\ d.stage[s] = stageProjection(e)
             /\ \/ d.busmap[s] = c.busmap[s]
                \/ withBusMap /\ \E e \in entries : e["tripStageCode"] = s /\ d.busmap[s] = e
  <2>1. CASE Of(s) = {}
    <3>1. d.stage[s] = c.stage[s] /\ d.busmap[s] = c.busmap[s]
      BY <1>2, <2>1
    <3>2. \A e \in entries : e["tripStageCode"] # s
      BY <2>1
    <3> QED BY <3>1, <3>2
  <2>2. CASE Of(s) # {}
    <3> DEFINE one == CHOOSE e \in Of(s) : TRUE
    <3>1. one \in Of(s)
      BY <2>2, Zenon
    <3>2. one \in entries /\ one["tripStageCode"] = s
      BY <3>1
    <3>3. d.stage[s] = stageProjection(one)
      BY <1>2, <2>2, Zenon
    <3>4. d.busmap[s] = IF withBusMap THEN one ELSE c.busmap[s]
      BY <1>2, <2>2, Zenon
    <3> HIDE DEF one
    <3> QED BY <3>2, <3>3, <3>4
  <2> QED BY <2>1, <2>2
<1>5. /\ c.rows \subseteq R
      /\ \A e \in entries : \A r \in stageMetadataRecords(e["stations"]) : <<r, e["tripStageCode"]>> \in R
  OBVIOUS
<1>6. DOMAIN T(last) = Trip /\ DOMAIN G = Stage /\ DOMAIN B = Stage
  OBVIOUS
<1> HIDE DEF T, G, B, R, L
<1> QED BY <1>2, <1>3, <1>4, <1>5, <1>6
-----------------------------------------------------------------------------
VersionsOK == version \in [Trip -> 1 .. MaxVersion] /\ offered \subseteq Stage

LEMMA TripsOfStages == \A s \in Stage : TripOf[s] \in Trip
BY DocumentsAssumption DEF DocumentsAssumption

LEMMA AnswerFields ==
  ASSUME VersionsOK, NEW t \in Trip, NEW route, NEW b \in BusMapAnswers(t, route)
  PROVE  \E s \in Stage, omitted \in Omissible :
           /\ b = BusMapEntry(s, version[TripOf[s]], omitted)
           /\ omitted # {} =>
                omitted \in Omission /\ TripOf[s] = t /\ Ends(Path[s][version[t]]) = route
<1>1. CASE \E s \in {x \in Stage : TripOf[x] = t /\ Ends(Path[x][version[t]]) = route}, omitted \in Omission :
             b = BusMapEntry(s, version[t], omitted)
  BY <1>1, DocumentsAssumption DEF DocumentsAssumption, Omissible
<1>2. CASE \E s \in Stage : b = BusMapEntry(s, version[TripOf[s]], {})
  BY <1>2 DEF Omissible
<1> QED BY <1>1, <1>2 DEF BusMapAnswers

LEMMA MergedFields ==
  ASSUME VersionsOK, NEW s \in Stage, NEW v \in 1 .. MaxVersion, NEW route,
         Ends(Path[s][v]) = route,
         NEW b \in BusMapAnswers(TripOf[s], route), validateBusMapIdentity(b, SearchEntry(s, v))
  PROVE  LET e == mergeJSONObjects(SearchEntry(s, v), b)
         IN  /\ GoodEntry(e) /\ Whole(e)
             /\ e["tripStageCode"] = s
             /\ SeatsOfTrip(e)
             /\ StagesToldApart => GoodSeats(e)
<1> DEFINE search == SearchEntry(s, v)
           e == mergeJSONObjects(search, b)
<1>1. PICK x \in Stage, omitted \in Omissible :
        /\ b = BusMapEntry(x, version[TripOf[x]], omitted)
        /\ omitted # {} =>
             omitted \in Omission /\ TripOf[x] = TripOf[s] /\ Ends(Path[x][version[TripOf[s]]]) = route
  <2>1. TripOf[s] \in Trip
    BY TripsOfStages
  <2> QED BY <2>1, AnswerFields
<1>2. version[TripOf[x]] \in 1 .. MaxVersion
  BY TripsOfStages DEF VersionsOK
<1>3. /\ DOMAIN b = BusMapFields \ omitted
      /\ b["bus"].of = TripOf[x]
      /\ b["seatLayoutList"].of = x
      /\ b["additionalAttributes"].of = x
      /\ "tripCode" \notin omitted => b["tripCode"] = TripOf[x]
      /\ "tripStageCode" \notin omitted => b["tripStageCode"] = x
      /\ "stations" \notin omitted => Walk(b["stations"])
  <2>1. DOMAIN b = BusMapFields \ omitted
    BY <1>1, BusMapEntryFields
  <2>2. /\ b["bus"].of = TripOf[x]
        /\ b["seatLayoutList"].of = x
        /\ b["additionalAttributes"].of = x
        /\ "tripCode" \notin omitted => b["tripCode"] = TripOf[x]
        /\ "tripStageCode" \notin omitted => b["tripStageCode"] = x
        /\ "stations" \notin omitted => Walk(b["stations"])
    BY <1>1, <1>2, BusMapEntryValues
  <2> QED BY <2>1, <2>2
<1>4. /\ DOMAIN search = SearchFields
      /\ search["tripCode"] = TripOf[s] /\ search["tripStageCode"] = s
      /\ GoodEntry(search)
  BY SearchEntryFields
<1> HIDE DEF search
<1>5. /\ DOMAIN e = SearchFields \union DOMAIN b
      /\ e["tripCode"] = search["tripCode"] /\ e["tripStageCode"] = search["tripStageCode"]
      /\ \A f \in (SearchFields \union DOMAIN b) \ {"tripCode", "tripStageCode"} :
           e[f] = IF f \in DOMAIN b THEN b[f] ELSE search[f]
  BY <1>4 DEF mergeJSONObjects, Over, Only, SearchFields
<1> HIDE DEF e
<1>6. TripOf[x] = TripOf[s]
  <2>1. CASE "tripCode" \in omitted
    BY <1>1, <2>1
  <2>2. CASE "tripCode" \notin omitted
    BY <1>3, <1>4, <2>2 DEF validateBusMapIdentity, BusMapFields, search
  <2> QED BY <2>1, <2>2
<1>7. StagesToldApart => x = s
  <2>1. CASE "tripStageCode" \in omitted
    BY <1>1, <1>2, <1>6, <2>1 DEF StagesToldApart
  <2>2. CASE "tripStageCode" \notin omitted
    BY <1>3, <1>4, <2>2 DEF validateBusMapIdentity, BusMapFields, search
  <2> QED BY <2>1, <2>2
<1>8. Walk(e["stations"])
  BY <1>3, <1>4, <1>5 DEF GoodEntry, SearchFields, BusMapFields
<1>9. e["bus"] = b["bus"] /\ e["seatLayoutList"] = b["seatLayoutList"]
      /\ e["additionalAttributes"] = b["additionalAttributes"]
      /\ e["availableSeatCount"] = search["availableSeatCount"] /\ e["stageFare"] = search["stageFare"]
  BY <1>3, <1>5 DEF SearchFields, BusMapFields, Omissible
<1>10. GoodEntry(e)
  BY <1>3, <1>4, <1>5, <1>6, <1>8, <1>9 DEF GoodEntry, SearchFields
<1>11. StagesToldApart => GoodSeats(e)
  BY <1>3, <1>4, <1>5, <1>7, <1>9 DEF GoodSeats
<1>12. SeatsOfTrip(e)
  BY <1>3, <1>4, <1>5, <1>6, <1>9 DEF SeatsOfTrip
<1> QED BY <1>4, <1>5, <1>10, <1>11, <1>12 DEF Whole, e, search

LEMMA LiveFields ==
  ASSUME VersionsOK, NEW t \in Trip, NEW route \in Route, NEW b \in BusMapAnswers(t, route),
         requireKeyComponents(enrichBusMapRepairEntry(b, t, route))
  PROVE  GoodEntry(enrichBusMapRepairEntry(b, t, route)) /\ GoodSeats(enrichBusMapRepairEntry(b, t, route))
<1> DEFINE e == enrichBusMapRepairEntry(b, t, route)
<1>1. PICK x \in Stage, omitted \in Omissible :
        /\ b = BusMapEntry(x, version[TripOf[x]], omitted)
        /\ omitted # {} => TripOf[x] = t /\ Ends(Path[x][version[t]]) = route
  BY AnswerFields
<1>2. version[TripOf[x]] \in 1 .. MaxVersion
  BY TripsOfStages DEF VersionsOK
<1>3. /\ DOMAIN b = BusMapFields \ omitted
      /\ b["bus"].of = TripOf[x]
      /\ b["seatLayoutList"].of = x
      /\ b["additionalAttributes"].of = x
      /\ "tripCode" \notin omitted => b["tripCode"] = TripOf[x]
      /\ "tripStageCode" \notin omitted => b["tripStageCode"] = x
      /\ "stations" \notin omitted => Walk(b["stations"])
  <2>1. DOMAIN b = BusMapFields \ omitted
    BY <1>1, BusMapEntryFields
  <2>2. /\ b["bus"].of = TripOf[x]
        /\ b["seatLayoutList"].of = x
        /\ b["additionalAttributes"].of = x
        /\ "tripCode" \notin omitted => b["tripCode"] = TripOf[x]
        /\ "tripStageCode" \notin omitted => b["tripStageCode"] = x
        /\ "stations" \notin omitted => Walk(b["stations"])
    BY <1>1, <1>2, BusMapEntryValues
  <2> QED BY <2>1, <2>2
<1>4. /\ DOMAIN e = (DOMAIN b) \union {"tripCode", "stations"}
      /\ \A f \in DOMAIN b : e[f] = b[f]
      /\ "tripCode" \notin DOMAIN b => e["tripCode"] = t
      /\ "stations" \notin DOMAIN b => e["stations"] = route
  BY DEF enrichBusMapRepairEntry, Over
<1>5. {"tripCode", "tripStageCode", "stations"} \subseteq DOMAIN e
  BY DEF requireKeyComponents
<1> HIDE DEF e
<1>6. /\ e["tripStageCode"] = x /\ e["seatLayoutList"] = b["seatLayoutList"] /\ e["bus"] = b["bus"]
      /\ e["additionalAttributes"] = b["additionalAttributes"]
  BY <1>3, <1>4, <1>5 DEF BusMapFields, Omissible
<1>7. e["tripCode"] = TripOf[x]
  BY <1>1, <1>3, <1>4 DEF BusMapFields
<1>8. Walk(e["stations"])
  <2>1. route \in Station \X Station
    BY DocumentsAssumption DEF DocumentsAssumption
  <2>2. PICK a1 \in Station, a2 \in Station : route = <<a1, a2>>
    BY <2>1
  <2>3. Walk(route)
    BY <2>2 DEF Walk
  <2> QED BY <1>3, <1>4, <2>3 DEF BusMapFields
<1>9. "stageFare" \notin DOMAIN e /\ "availableSeatCount" \notin DOMAIN e
  BY <1>3, <1>4 DEF BusMapFields
<1>10. GoodEntry(e)
  BY <1>3, <1>5, <1>6, <1>7, <1>8, <1>9 DEF GoodEntry
<1>11. GoodSeats(e)
  BY <1>3, <1>6 DEF GoodSeats
<1> QED BY <1>10, <1>11 DEF e

-----------------------------------------------------------------------------
(* The inductive invariant, in parts that speak of a cache c. *)

CacheShape(c) ==
  /\ DOMAIN c = {"trip", "stage", "busmap", "rows"}
  /\ DOMAIN c.trip = Trip /\ DOMAIN c.stage = Stage /\ DOMAIN c.busmap = Stage

(* A Trip document is about its trip alone, its attributes about some stage. *)
TripOwn(d, t) ==
  d # NoDocument =>
    /\ "tripCode" \in DOMAIN d /\ d["tripCode"] = t
    /\ {"tripStageCode", "stations", "stageFare", "seatLayoutList"} \intersect DOMAIN d = {}
    /\ \A f \in {"availableSeatCount", "bus"} : f \in DOMAIN d => d[f].of = t
    /\ "additionalAttributes" \in DOMAIN d => TripOf[d["additionalAttributes"].of] = t

(* A Stage document is about its stage alone, and is indexed as it is. *)
StageOwn(d, s, rows) ==
  d # NoDocument =>
    /\ {"tripStageCode", "stations"} \subseteq DOMAIN d
    /\ DOMAIN d \subseteq {"tripStageCode", "stations", "stageFare"}
    /\ d["tripStageCode"] = s
    /\ "stageFare" \in DOMAIN d => d["stageFare"].of = s
    /\ Walk(d["stations"])
    /\ \A r \in stageMetadataRecords(d["stations"]) : <<r, s>> \in rows

(* A seat map is that of its trip, and that of the stage it names. *)
SeatsOwn(d, s) == d # NoDocument => d["tripCode"] = TripOf[s] /\ SeatsOfTrip(d)
StageSeatsOwn(d) == d # NoDocument => GoodSeats(d)

DocumentsOwn(c) ==
  /\ CacheShape(c)
  /\ \A t \in Trip : TripOwn(c.trip[t], t)
  /\ \A s \in Stage : StageOwn(c.stage[s], s, c.rows) /\ SeatsOwn(c.busmap[s], s)

SeatMapsOwn(c) == \A s \in Stage : StageSeatsOwn(c.busmap[s])

(* Only what a seat map left is incomplete. *)
TripWhole(d, t, b) ==
  d # NoDocument /\ <<"trip", t>> \notin b => {"tripCode", "availableSeatCount", "bus"} \subseteq DOMAIN d
StageWhole(d, s, b) ==
  d # NoDocument /\ <<"stage", s>> \notin b => {"tripStageCode", "stations", "stageFare"} \subseteq DOMAIN d
DocumentsWhole(c, b) ==
  /\ \A t \in Trip : TripWhole(c.trip[t], t, b)
  /\ \A s \in Stage : StageWhole(c.stage[s], s, b)

(* What is stored of a stage that BITS lists on a route. *)
Listed(s) == SearchEntry(s, version[TripOf[s]])
RouteAgrees(c, route) ==
  \A s \in Sold(route, version) :
    /\ c.stage[s] = stageProjection(Listed(s))
    /\ c.trip[TripOf[s]] = commonTripProjection(Listed(s))

DInv ==
  /\ VersionsOK
  /\ agreed \subseteq Route
  /\ DocumentsOwn(cache)
  /\ DocumentsWhole(cache, bare)
  /\ \A route \in agreed : RouteAgrees(cache, route)

(* With the stages of seat maps, which BITS must tell apart.                 *)
SeatInv == DInv /\ SeatMapsOwn(cache)

-----------------------------------------------------------------------------
(* What is taken of an entry. *)
LEMMA Projections ==
  ASSUME NEW e, GoodEntry(e), NEW rows,
         \A r \in stageMetadataRecords(e["stations"]) : <<r, e["tripStageCode"]>> \in rows
  PROVE  /\ TripOwn(commonTripProjection(e), e["tripCode"])
         /\ StageOwn(stageProjection(e), e["tripStageCode"], rows)
<1> DEFINE trip == commonTripProjection(e)
           stage == stageProjection(e)
<1>1. /\ DOMAIN trip = (DOMAIN e) \ {"tripStageCode", "stations", "stageFare", "seatLayoutList"}
      /\ \A f \in DOMAIN trip : trip[f] = e[f]
  BY DEF commonTripProjection, Only, searchStageFields
<1>2. /\ DOMAIN stage = (DOMAIN e) \intersect {"tripStageCode", "stations", "stageFare"}
      /\ \A f \in DOMAIN stage : stage[f] = e[f]
  BY DEF stageProjection, Only, searchStageFields
<1> HIDE DEF trip, stage
<1>3. TripOwn(trip, e["tripCode"])
  BY <1>1 DEF TripOwn, GoodEntry
<1>4. StageOwn(stage, e["tripStageCode"], rows)
  BY <1>2 DEF StageOwn, GoodEntry
<1> QED BY <1>3, <1>4 DEF trip, stage

LEMMA WholeProjections ==
  ASSUME NEW e, Whole(e)
  PROVE  /\ {"tripCode", "availableSeatCount", "bus"} \subseteq DOMAIN commonTripProjection(e)
         /\ {"tripStageCode", "stations", "stageFare"} \subseteq DOMAIN stageProjection(e)
BY DEF commonTripProjection, stageProjection, Only, searchStageFields, Whole, SearchFields

LEMMA StoresOwn ==
  ASSUME NEW c, NEW entries, NEW withBusMap \in BOOLEAN, NEW d \in Stores(c, entries, withBusMap),
         DocumentsOwn(c), \A e \in entries : GoodEntry(e),
         withBusMap => \A e \in entries : SeatsOfTrip(e)
  PROVE  /\ DocumentsOwn(d)
         /\ SeatMapsOwn(c) /\ (withBusMap => \A e \in entries : GoodSeats(e)) => SeatMapsOwn(d)
<1>1. CacheShape(d) /\ c.rows \subseteq d.rows
  BY StoresFacts DEF CacheShape
<1>2. \A e \in entries : \A r \in stageMetadataRecords(e["stations"]) : <<r, e["tripStageCode"]>> \in d.rows
  BY StoresFacts
<1>3. ASSUME NEW t \in Trip PROVE TripOwn(d.trip[t], t)
  <2>1. CASE d.trip[t] = c.trip[t]
    BY <2>1 DEF DocumentsOwn
  <2>2. ASSUME NEW e \in entries, e["tripCode"] = t, d.trip[t] = commonTripProjection(e)
        PROVE  TripOwn(d.trip[t], t)
    BY <1>2, <2>2, Projections
  <2> QED BY <2>1, <2>2, StoresFacts
<1>4. ASSUME NEW s \in Stage PROVE StageOwn(d.stage[s], s, d.rows)
  <2>1. CASE d.stage[s] = c.stage[s]
    <3>1. StageOwn(c.stage[s], s, c.rows)
      BY DEF DocumentsOwn
    <3> QED BY <1>1, <2>1, <3>1 DEF StageOwn
  <2>2. ASSUME NEW e \in entries, e["tripStageCode"] = s, d.stage[s] = stageProjection(e)
        PROVE  StageOwn(d.stage[s], s, d.rows)
    BY <1>2, <2>2, Projections
  <2> QED BY <2>1, <2>2, StoresFacts
<1>5. ASSUME SeatMapsOwn(c), withBusMap => \A e \in entries : GoodSeats(e), NEW s \in Stage
      PROVE  StageSeatsOwn(d.busmap[s])
  <2>1. CASE d.busmap[s] = c.busmap[s]
    BY <1>5, <2>1 DEF SeatMapsOwn
  <2>2. ASSUME withBusMap, NEW e \in entries, e["tripStageCode"] = s, d.busmap[s] = e
        PROVE  StageSeatsOwn(d.busmap[s])
    BY <1>5, <2>2 DEF StageSeatsOwn
  <2> QED BY <2>1, <2>2, StoresFacts
<1>6. ASSUME NEW s \in Stage PROVE SeatsOwn(d.busmap[s], s)
  <2>1. CASE d.busmap[s] = c.busmap[s]
    BY <2>1 DEF DocumentsOwn
  <2>2. ASSUME withBusMap, NEW e \in entries, e["tripStageCode"] = s, d.busmap[s] = e
        PROVE  SeatsOwn(d.busmap[s], s)
    BY <2>2 DEF SeatsOwn, GoodEntry
  <2> QED BY <2>1, <2>2, StoresFacts
<1> QED BY <1>1, <1>3, <1>4, <1>5, <1>6 DEF DocumentsOwn, SeatMapsOwn

LEMMA StoresWhole ==
  ASSUME NEW c, NEW entries, NEW withBusMap \in BOOLEAN, NEW d \in Stores(c, entries, withBusMap),
         \A e \in entries : GoodEntry(e), NEW b, DocumentsWhole(c, b)
  PROVE  /\ DocumentsWhole(d, b \union Restored(entries))
         /\ (\A e \in entries : Whole(e)) => DocumentsWhole(d, b \ Restored(entries))
<1>1. \A e \in entries : <<"trip", e["tripCode"]>> \in Restored(entries)
                         /\ <<"stage", e["tripStageCode"]>> \in Restored(entries)
  BY DEF Restored
<1>2. ASSUME NEW t \in Trip, (\A e \in entries : e["tripCode"] # t) PROVE <<"trip", t>> \notin Restored(entries)
  BY <1>2 DEF Restored
<1>3. ASSUME NEW s \in Stage, (\A e \in entries : e["tripStageCode"] # s)
      PROVE <<"stage", s>> \notin Restored(entries)
  BY <1>3 DEF Restored
<1>4. ASSUME NEW t \in Trip
      PROVE  /\ TripWhole(d.trip[t], t, b \union Restored(entries))
             /\ (\A e \in entries : Whole(e)) => TripWhole(d.trip[t], t, b \ Restored(entries))
  <2>1. CASE d.trip[t] = c.trip[t] /\ \A e \in entries : e["tripCode"] # t
    BY <1>2, <2>1 DEF DocumentsWhole, TripWhole
  <2>2. ASSUME NEW e \in entries, e["tripCode"] = t, d.trip[t] = commonTripProjection(e)
        PROVE  /\ <<"trip", t>> \in Restored(entries)
               /\ Whole(e) => {"tripCode", "availableSeatCount", "bus"} \subseteq DOMAIN d.trip[t]
    BY <1>1, <2>2, WholeProjections
  <2> QED BY <2>1, <2>2, StoresFacts DEF TripWhole
<1>5. ASSUME NEW s \in Stage
      PROVE  /\ StageWhole(d.stage[s], s, b \union Restored(entries))
             /\ (\A e \in entries : Whole(e)) => StageWhole(d.stage[s], s, b \ Restored(entries))
  <2>1. CASE d.stage[s] = c.stage[s] /\ \A e \in entries : e["tripStageCode"] # s
    BY <1>3, <2>1 DEF DocumentsWhole, StageWhole
  <2>2. ASSUME NEW e \in entries, e["tripStageCode"] = s, d.stage[s] = stageProjection(e)
        PROVE  /\ <<"stage", s>> \in Restored(entries)
               /\ Whole(e) => {"tripStageCode", "stations", "stageFare"} \subseteq DOMAIN d.stage[s]
    BY <1>1, <2>2, WholeProjections
  <2> QED BY <2>1, <2>2, StoresFacts DEF StageWhole
<1> QED BY <1>4, <1>5 DEF DocumentsWhole

-----------------------------------------------------------------------------
(* Agreement with BITS. *)
LEMMA ListedFields ==
  ASSUME VersionsOK, NEW route, NEW s \in Sold(route, version)
  PROVE  /\ s \in Stage /\ Listed(s) \in SearchAnswer(route, version)
         /\ GoodEntry(Listed(s)) /\ Whole(Listed(s))
         /\ Listed(s)["tripCode"] = TripOf[s] /\ Listed(s)["tripStageCode"] = s
         /\ DOMAIN Listed(s) = SearchFields
         /\ Listed(s)["stations"] = Path[s][version[TripOf[s]]]
         /\ Ends(Path[s][version[TripOf[s]]]) = route
<1>1. s \in Stage /\ Ends(Path[s][version[TripOf[s]]]) = route
  BY DEF Sold, VersionsOK
<1>2. version[TripOf[s]] \in 1 .. MaxVersion
  BY <1>1, TripsOfStages DEF VersionsOK
<1>3. /\ GoodEntry(Listed(s)) /\ DOMAIN Listed(s) = SearchFields
      /\ Listed(s)["tripCode"] = TripOf[s] /\ Listed(s)["tripStageCode"] = s
      /\ Listed(s)["stations"] = Path[s][version[TripOf[s]]]
  BY <1>1, <1>2, SearchEntryFields DEF Listed
<1>4. Listed(s) \in SearchAnswer(route, version)
  BY DEF Listed, SearchAnswer
<1> QED BY <1>1, <1>3, <1>4 DEF Whole

LEMMA AnsweredEntries ==
  ASSUME NEW route, NEW told \in [Trip -> 1 .. MaxVersion], offered \subseteq Stage,
         NEW e \in SearchAnswer(route, told)
  PROVE  /\ GoodEntry(e) /\ Whole(e)
         /\ \E s \in Sold(route, told) : e = SearchEntry(s, told[TripOf[s]]) /\ e["tripStageCode"] = s
<1>1. PICK s \in Sold(route, told) : e = SearchEntry(s, told[TripOf[s]])
  BY DEF SearchAnswer
<1>2. s \in Stage /\ told[TripOf[s]] \in 1 .. MaxVersion
  BY TripsOfStages DEF Sold
<1> QED BY <1>1, <1>2, SearchEntryFields DEF Whole

(* Stages of a trip say the same of the trip. *)
LEMMA TripIsCommon ==
  ASSUME NEW s \in Stage, NEW x \in Stage, TripOf[s] = TripOf[x], NEW v \in 1 .. MaxVersion
  PROVE  commonTripProjection(SearchEntry(s, v)) = commonTripProjection(SearchEntry(x, v))
<1> DEFINE F == {"tripCode", "availableSeatCount", "bus"}
<1>1. SearchFields \ {"tripStageCode", "stations", "stageFare", "seatLayoutList"} = F
  BY DEF SearchFields
<1>2. ASSUME NEW y \in Stage
      PROVE  commonTripProjection(SearchEntry(y, v)) = [f \in F |-> BitsValue(y, v, f)]
  <2>1. /\ DOMAIN SearchEntry(y, v) = SearchFields
        /\ \A f \in SearchFields : SearchEntry(y, v)[f] = BitsValue(y, v, f)
    BY SearchEntryFields
  <2> HIDE DEF F
  <2>2. SearchFields \intersect F = F
    BY <1>1
  <2>3. commonTripProjection(SearchEntry(y, v)) = [f \in F |-> SearchEntry(y, v)[f]]
    BY <1>1, <2>1, <2>2 DEF commonTripProjection, Only, searchStageFields
  <2> QED BY <2>1, <2>2, <2>3
<1>3. \A f \in F : BitsValue(s, v, f) = BitsValue(x, v, f)
  BY DEF BitsValue
<1> HIDE DEF F
<1> QED BY <1>2, <1>3

LEMMA StoresAgree ==
  ASSUME VersionsOK, NEW c, NEW route, NEW entries, entries = SearchAnswer(route, version),
         NEW withBusMap \in BOOLEAN, NEW d \in Stores(c, entries, withBusMap)
  PROVE  /\ RouteAgrees(d, route)
         /\ \A r \in Route : RouteAgrees(c, r) => RouteAgrees(d, r)
<1>1. ASSUME NEW e \in entries
      PROVE  \E x \in Stage : /\ x \in Sold(route, version) /\ e = Listed(x)
                              /\ e["tripStageCode"] = x /\ e["tripCode"] = TripOf[x]
  <2>1. PICK x \in Sold(route, version) : e = Listed(x)
    BY DEF SearchAnswer, Listed
  <2> QED BY <2>1, ListedFields
<1>3. \A s \in Sold(route, version) : Listed(s) \in entries /\ Listed(s)["tripCode"] = TripOf[s]
                                       /\ Listed(s)["tripStageCode"] = s /\ s \in Stage
  BY ListedFields
<1>2. /\ \A t \in Trip :
              \/ d.trip[t] = c.trip[t] /\ \A e \in entries : e["tripCode"] # t
              \/ \E e \in entries : e["tripCode"] = t /\ d.trip[t] = commonTripProjection(e)
      /\ \A s \in Stage :
              \/ d.stage[s] = c.stage[s] /\ \A e \in entries : e["tripStageCode"] # s
              \/ \E e \in entries : e["tripStageCode"] = s /\ d.stage[s] = stageProjection(e)
  BY StoresFacts
<1>4. ASSUME NEW s \in Stage, NEW e \in entries, e["tripCode"] = TripOf[s]
      PROVE  commonTripProjection(e) = commonTripProjection(Listed(s))
  <2>1. PICK x \in Stage : e = Listed(x) /\ TripOf[x] = TripOf[s]
    BY <1>1, <1>4
  <2>2. version[TripOf[s]] \in 1 .. MaxVersion
    BY TripsOfStages DEF VersionsOK
  <2> QED BY <2>1, <2>2, TripIsCommon DEF Listed
<1>5. ASSUME NEW s \in Stage
      PROVE  /\ d.stage[s] = c.stage[s] \/ d.stage[s] = stageProjection(Listed(s))
             /\ d.trip[TripOf[s]] = c.trip[TripOf[s]] \/ d.trip[TripOf[s]] = commonTripProjection(Listed(s))
             /\ s \in Sold(route, version) =>
                  d.stage[s] = stageProjection(Listed(s)) /\ d.trip[TripOf[s]] = commonTripProjection(Listed(s))
  <2>1. ASSUME NEW e \in entries, e["tripStageCode"] = s PROVE e = Listed(s)
    BY <1>1, <2>1
  <2>2. TripOf[s] \in Trip
    BY TripsOfStages
  <2> QED BY <1>2, <1>3, <1>4, <2>1, <2>2
<1>6. RouteAgrees(d, route)
  BY <1>3, <1>5 DEF RouteAgrees
<1>7. ASSUME NEW r \in Route, RouteAgrees(c, r) PROVE RouteAgrees(d, r)
  BY <1>5, <1>7, ListedFields DEF RouteAgrees
<1> QED BY <1>6, <1>7

-----------------------------------------------------------------------------
LEMMA DocumentsInitInv == DocumentsInit => SeatInv
<1> SUFFICES ASSUME DocumentsInit PROVE SeatInv
  OBVIOUS
<1>1. VersionsOK /\ agreed = {}
  BY DocumentsAssumption DEF DocumentsAssumption, DocumentsInit, VersionsOK
<1>2. /\ CacheShape(cache)
      /\ \A t \in Trip : cache.trip[t] = NoDocument
      /\ \A s \in Stage : cache.stage[s] = NoDocument /\ cache.busmap[s] = NoDocument
  BY DEF DocumentsInit, CacheShape
<1> QED BY <1>1, <1>2
        DEF SeatInv, DInv, DocumentsOwn, DocumentsWhole, SeatMapsOwn, TripOwn, StageOwn, SeatsOwn, StageSeatsOwn,
            TripWhole, StageWhole

LEMMA AgreeFrame ==
  ASSUME UNCHANGED <<version, offered>>, NEW route, RouteAgrees(cache', route)
  PROVE  RouteAgrees(cache, route)'
BY DEF RouteAgrees, Listed, Sold

(* A step that stores the entries of a Search of one route, or nothing, over  *)
(* a cache c.                                                                *)
LEMMA SearchStored ==
  ASSUME DInv, NEW route \in Route, NEW told \in [Trip -> 1 .. MaxVersion],
         NEW c, DocumentsOwn(c), NEW b, DocumentsWhole(c, b),
         NEW entries, entries = SearchAnswer(route, told) \/ (entries = {} /\ agreed' = {}),
         NEW withBusMap \in BOOLEAN, ~withBusMap, cache' \in Stores(c, entries, withBusMap),
         bare' = b \ Restored(entries),
         UNCHANGED <<version, offered>>,
         \/ agreed' = {}
         \/ told = version /\ agreed' = {route}
         \/ told = version /\ c = cache /\ agreed' = agreed \union {route}
  PROVE  DInv' /\ (SeatMapsOwn(c) => SeatMapsOwn(cache)')
<1>1. /\ \A e \in entries : GoodEntry(e)
      /\ \A e \in entries : Whole(e)
  BY AnsweredEntries DEF DInv, VersionsOK
<1>2. /\ DocumentsOwn(cache')
      /\ SeatMapsOwn(c) => SeatMapsOwn(cache')
  BY <1>1, StoresOwn
<1>3. DocumentsWhole(cache', b \ Restored(entries))
  BY <1>1, StoresWhole
<1>4. ASSUME NEW r \in agreed' PROVE RouteAgrees(cache', r)
  <2>1. told = version /\ (r = route \/ (c = cache /\ r \in agreed))
    BY <1>4
  <2>2. VersionsOK /\ r \in Route /\ (c = cache /\ r \in agreed => RouteAgrees(c, r))
    BY <2>1 DEF DInv
  <2>3. entries = SearchAnswer(route, version)
    BY <1>4, <2>1
  <2> QED BY <2>1, <2>2, <2>3, StoresAgree
<1>5. DocumentsOwn(cache)' /\ DocumentsWhole(cache, bare)' /\ (SeatMapsOwn(c) => SeatMapsOwn(cache)')
  BY <1>2, <1>3
<1>6. VersionsOK' /\ agreed' \subseteq Route
  BY DEF DInv, VersionsOK
<1> QED BY <1>4, <1>5, <1>6, AgreeFrame DEF DInv

LEMMA WorkerSearchInv ==
  ASSUME DInv, NEW route \in Route, WorkerSearch(route)
  PROVE  DInv' /\ (SeatMapsOwn(cache) => SeatMapsOwn(cache)')
<1> DEFINE withBusMap == FALSE
<1>1. PICK told \in Earlier :
        /\ cache' \in Stores(cache, SearchAnswer(route, told), withBusMap)
        /\ agreed' = IF told = version THEN agreed \union {route} ELSE {}
        /\ bare' = bare \ Restored(SearchAnswer(route, told))
  BY DEF WorkerSearch
<1>2. told \in [Trip -> 1 .. MaxVersion]
  BY DEF Earlier
<1>3. withBusMap \in BOOLEAN /\ ~withBusMap
  OBVIOUS
<1> HIDE DEF withBusMap
<1>4. UNCHANGED <<version, offered>> /\ DocumentsOwn(cache) /\ DocumentsWhole(cache, bare)
  BY DEF WorkerSearch, DInv
<1> QED BY <1>1, <1>2, <1>3, <1>4, SearchStored

LEMMA VerifySearchInv ==
  ASSUME DInv, NEW route \in Route, VerifySearch(route)
  PROVE  DInv' /\ (SeatMapsOwn(cache) => SeatMapsOwn(cache)')
<1> DEFINE withBusMap == FALSE
<1>1. /\ cache' \in Stores(cache, SearchAnswer(route, version), withBusMap)
      /\ agreed' = agreed \union {route}
      /\ bare' = bare \ Restored(SearchAnswer(route, version))
  BY DEF VerifySearch
<1>2. version \in [Trip -> 1 .. MaxVersion]
  BY DEF DInv, VersionsOK
<1>3. withBusMap \in BOOLEAN /\ ~withBusMap
  OBVIOUS
<1> HIDE DEF withBusMap
<1>4. UNCHANGED <<version, offered>> /\ DocumentsOwn(cache) /\ DocumentsWhole(cache, bare)
  BY DEF VerifySearch, DInv
<1> QED BY <1>1, <1>2, <1>3, <1>4, SearchStored

LEMMA WorkerSearchBusMapInv ==
  ASSUME DInv, NEW route \in Route, WorkerSearchBusMap(route)
  PROVE  DInv' /\ (StagesToldApart /\ SeatMapsOwn(cache) => SeatMapsOwn(cache)')
<1> DEFINE withBusMap == TRUE
           Combined(told, s) ==
             {mergeJSONObjects(SearchEntry(s, told[TripOf[s]]), b) :
                b \in {a \in BusMapAnswers(TripOf[s], route) :
                       validateBusMapIdentity(a, SearchEntry(s, told[TripOf[s]]))}}
<1>0. PICK told \in Earlier :
        \E entries \in SUBSET UNION {Combined(told, s) : s \in Sold(route, told)} :
          /\ cache' \in Stores(cache, entries, withBusMap)
          /\ bare' = bare \ Restored(entries)
  BY Zenon DEF WorkerSearchBusMap
<1>1. PICK entries \in SUBSET UNION {Combined(told, s) : s \in Sold(route, told)} :
        /\ cache' \in Stores(cache, entries, withBusMap)
        /\ bare' = bare \ Restored(entries)
  BY <1>0, Zenon
<1>2. withBusMap \in BOOLEAN
  OBVIOUS
<1> HIDE DEF withBusMap
<1>3. ASSUME NEW e \in entries
      PROVE  GoodEntry(e) /\ Whole(e) /\ SeatsOfTrip(e) /\ (StagesToldApart => GoodSeats(e))
  <2>1. PICK s \in Sold(route, told) : e \in Combined(told, s)
    OBVIOUS
  <2>2. PICK b \in BusMapAnswers(TripOf[s], route) :
          /\ validateBusMapIdentity(b, SearchEntry(s, told[TripOf[s]]))
          /\ e = mergeJSONObjects(SearchEntry(s, told[TripOf[s]]), b)
    BY <2>1
  <2>3. s \in Stage /\ told[TripOf[s]] \in 1 .. MaxVersion /\ Ends(Path[s][told[TripOf[s]]]) = route
    BY TripsOfStages DEF Sold, Earlier, DInv, VersionsOK
  <2> QED BY <2>2, <2>3, MergedFields DEF DInv
<1> HIDE DEF Combined
<1>4. /\ UNCHANGED <<version, offered>> /\ agreed' = {}
      /\ DocumentsOwn(cache) /\ DocumentsWhole(cache, bare) /\ VersionsOK
  BY DEF WorkerSearchBusMap, DInv
<1>5. /\ DocumentsOwn(cache')
      /\ StagesToldApart /\ SeatMapsOwn(cache) => SeatMapsOwn(cache')
  BY <1>1, <1>2, <1>3, <1>4, StoresOwn
<1>6. DocumentsWhole(cache', bare')
  BY <1>1, <1>2, <1>3, <1>4, StoresWhole
<1>7. DInv'
  BY <1>4, <1>5, <1>6 DEF DInv, VersionsOK
<1> QED BY <1>5, <1>7

LEMMA VerifyBusMapInv ==
  ASSUME DInv, NEW t \in Trip, NEW route \in Route, VerifyBusMap(t, route)
  PROVE  DInv' /\ (SeatMapsOwn(cache) => SeatMapsOwn(cache)')
<1> DEFINE with == TRUE
           without == FALSE
           seatsOf(live) == IF requireKeyComponents(live) THEN {live} ELSE {}
           fetchedEntries(fetched) == IF fetched THEN SearchAnswer(route, version) ELSE {}
<1>1. PICK answer \in BusMapAnswers(t, route), fetched \in BOOLEAN :
        /\ \E c \in Stores(cache, seatsOf(enrichBusMapRepairEntry(answer, t, route)), with) :
             cache' \in Stores(c, fetchedEntries(fetched), without)
        /\ bare' = (bare \union Restored(seatsOf(enrichBusMapRepairEntry(answer, t, route))))
                     \ Restored(fetchedEntries(fetched))
        /\ agreed' = IF fetched THEN {route} ELSE {}
  BY Zenon DEF VerifyBusMap
<1> DEFINE seats == seatsOf(enrichBusMapRepairEntry(answer, t, route))
           entries == fetchedEntries(fetched)
<1>2. PICK c \in Stores(cache, seats, with) : cache' \in Stores(c, entries, without)
  BY <1>1
<1>3. with \in BOOLEAN /\ without \in BOOLEAN /\ ~without
  OBVIOUS
<1>4. ASSUME NEW e \in seats PROVE GoodEntry(e) /\ GoodSeats(e) /\ SeatsOfTrip(e)
  <2>1. GoodEntry(e) /\ GoodSeats(e)
    BY LiveFields DEF DInv
  <2> HIDE DEF seats
  <2> QED BY <2>1 DEF GoodEntry, GoodSeats, SeatsOfTrip
<1>5. /\ fetched => entries = SearchAnswer(route, version) /\ agreed' = {route}
      /\ ~fetched => entries = {} /\ agreed' = {}
  BY <1>1
<1>6. bare' = (bare \union Restored(seats)) \ Restored(entries)
  BY <1>1
<1> HIDE DEF with, without, seats, entries
<1>7. DocumentsOwn(c) /\ (SeatMapsOwn(cache) => SeatMapsOwn(c))
  BY <1>2, <1>3, <1>4, StoresOwn DEF DInv
<1>8. DocumentsWhole(c, bare \union Restored(seats))
  BY <1>2, <1>3, <1>4, StoresWhole DEF DInv
<1>9. UNCHANGED <<version, offered>> /\ version \in [Trip -> 1 .. MaxVersion]
  BY DEF VerifyBusMap, DInv, VersionsOK
<1> QED BY <1>2, <1>3, <1>5, <1>6, <1>7, <1>8, <1>9, SearchStored

LEMMA WorkerBusMapInv ==
  ASSUME DInv, NEW s \in Stage, WorkerBusMap(s)
  PROVE  DInv' /\ (SeatMapsOwn(cache) => SeatMapsOwn(cache)')
<1>1. PICK told \in Earlier, omitted \in Omission \intersect SUBSET {"stations"} :
        cache' = [cache EXCEPT !.busmap[s] = BusMapEntry(s, told[TripOf[s]], omitted)]
  BY DEF WorkerBusMap
<1>2. told[TripOf[s]] \in 1 .. MaxVersion /\ omitted \in Omissible
      /\ "tripCode" \notin omitted /\ "tripStageCode" \notin omitted
  BY TripsOfStages DEF Earlier, Omissible
<1> DEFINE b == BusMapEntry(s, told[TripOf[s]], omitted)
<1>3. /\ b["tripCode"] = TripOf[s] /\ b["tripStageCode"] = s
      /\ b["seatLayoutList"].of = s /\ b["additionalAttributes"].of = s
  BY <1>2, BusMapEntryValues
<1> HIDE DEF b
<1>4. CacheShape(cache)
  BY DEF DInv, DocumentsOwn
<1>5. /\ cache'.trip = cache.trip /\ cache'.stage = cache.stage /\ cache'.rows = cache.rows
      /\ cache'.busmap = [cache.busmap EXCEPT ![s] = b]
      /\ CacheShape(cache')
  BY <1>1, <1>4 DEF CacheShape, b
<1>6. UNCHANGED <<version, offered, agreed, bare>>
  BY DEF WorkerBusMap
<1>7. DInv'
  <2>1. \A x \in Stage : SeatsOwn(cache'.busmap[x], x)
    BY <1>3, <1>4, <1>5 DEF DInv, DocumentsOwn, SeatsOwn, SeatsOfTrip, CacheShape
  <2>2. DocumentsOwn(cache') /\ DocumentsWhole(cache', bare')
    BY <1>5, <1>6, <2>1 DEF DInv, DocumentsOwn, DocumentsWhole
  <2>3. ASSUME NEW route \in agreed PROVE RouteAgrees(cache', route)
    BY <1>5 DEF DInv, RouteAgrees
  <2> QED BY <1>6, <2>2, <2>3, AgreeFrame DEF DInv, VersionsOK
<1>8. SeatMapsOwn(cache) => SeatMapsOwn(cache')
  BY <1>3, <1>4, <1>5 DEF SeatMapsOwn, StageSeatsOwn, GoodSeats, CacheShape
<1> QED BY <1>7, <1>8

LEMMA ExpireInv ==
  ASSUME DInv, Expire
  PROVE  DInv' /\ (SeatMapsOwn(cache) => SeatMapsOwn(cache)')
<1>1. CacheShape(cache) /\ UNCHANGED <<version, offered, bare>> /\ agreed' = {}
  BY DEF DInv, DocumentsOwn, Expire
<1> DEFINE Shorter ==
             /\ CacheShape(cache') /\ cache'.rows = cache.rows
             /\ \A t \in Trip : cache'.trip[t] \in {cache.trip[t], NoDocument}
             /\ \A s \in Stage : /\ cache'.stage[s] \in {cache.stage[s], NoDocument}
                                 /\ cache'.busmap[s] \in {cache.busmap[s], NoDocument}
<1>2. Shorter
  <2>1. ASSUME NEW t \in Trip, cache' = [cache EXCEPT !.trip[t] = NoDocument] PROVE Shorter
    BY <1>1, <2>1 DEF CacheShape
  <2>2. ASSUME NEW s \in Stage, cache' = [cache EXCEPT !.stage[s] = NoDocument] PROVE Shorter
    BY <1>1, <2>2 DEF CacheShape
  <2>3. ASSUME NEW s \in Stage, cache' = [cache EXCEPT !.busmap[s] = NoDocument] PROVE Shorter
    BY <1>1, <2>3 DEF CacheShape
  <2> QED BY <2>1, <2>2, <2>3 DEF Expire
<1>3. DocumentsOwn(cache')
  <2>1. \A t \in Trip : TripOwn(cache'.trip[t], t)
    BY <1>2 DEF DInv, DocumentsOwn, TripOwn
  <2>2. \A s \in Stage : StageOwn(cache'.stage[s], s, cache'.rows)
    BY <1>2 DEF DInv, DocumentsOwn, StageOwn
  <2>3. \A s \in Stage : SeatsOwn(cache'.busmap[s], s)
    BY <1>2 DEF DInv, DocumentsOwn, SeatsOwn
  <2> QED BY <1>2, <2>1, <2>2, <2>3 DEF DocumentsOwn
<1>4. DocumentsWhole(cache', bare)
  BY <1>2 DEF DInv, DocumentsWhole, TripWhole, StageWhole
<1>5. SeatMapsOwn(cache) => SeatMapsOwn(cache')
  BY <1>2 DEF SeatMapsOwn, StageSeatsOwn
<1> QED BY <1>1, <1>3, <1>4, <1>5 DEF DInv, VersionsOK

LEMMA BitsChangesInv ==
  ASSUME DInv, BitsChanges
  PROVE  DInv' /\ (SeatMapsOwn(cache) => SeatMapsOwn(cache)')
<1>1. UNCHANGED <<cache, bare>> /\ agreed' = {}
  BY DEF BitsChanges
<1>2. VersionsOK'
  <2>1. ASSUME NEW t \in Trip, version[t] < MaxVersion, version' = [version EXCEPT ![t] = @ + 1], offered' = offered
        PROVE  VersionsOK'
    BY <2>1, DocumentsAssumption DEF DocumentsAssumption, DInv, VersionsOK
  <2>2. ASSUME NEW s \in Stage, offered' \in {offered \ {s}, offered \union {s}}, version' = version
        PROVE  VersionsOK'
    BY <2>2 DEF DInv, VersionsOK
  <2> QED BY <2>1, <2>2 DEF BitsChanges
<1> QED BY <1>1, <1>2 DEF DInv

LEMMA DocumentsStepInv ==
  ASSUME DInv, [DocumentsNext]_documentsVars
  PROVE  DInv' /\ (StagesToldApart /\ SeatMapsOwn(cache) => SeatMapsOwn(cache)')
<1>1. CASE UNCHANGED documentsVars
  <2>1. UNCHANGED <<version, offered, cache, agreed, bare>>
    BY <1>1 DEF documentsVars
  <2>2. \A route \in agreed : RouteAgrees(cache', route)
    BY <2>1 DEF DInv
  <2> QED BY <2>1, <2>2, AgreeFrame DEF DInv, VersionsOK
<1>2. CASE DocumentsNext
  BY <1>2, WorkerSearchInv, WorkerSearchBusMapInv, VerifySearchInv, VerifyBusMapInv, WorkerBusMapInv,
     ExpireInv, BitsChangesInv DEF DocumentsNext
<1> QED BY <1>1, <1>2

LEMMA DocumentsInvariance == DocumentsSpec => []DInv
<1>1. DInv /\ [DocumentsNext]_documentsVars => DInv'
  BY DocumentsStepInv
<1>2. DocumentsInit => DInv
  BY DocumentsInitInv DEF SeatInv
<1> QED BY <1>1, <1>2, PTL DEF DocumentsSpec

LEMMA SeatInvariance == StagesToldApart => (DocumentsSpec => []SeatInv)
<1> SUFFICES ASSUME StagesToldApart PROVE DocumentsSpec => []SeatInv
  OBVIOUS
<1>1. SeatInv /\ [DocumentsNext]_documentsVars => SeatInv'
  BY DocumentsStepInv DEF SeatInv
<1> QED BY <1>1, DocumentsInitInv, PTL DEF DocumentsSpec

-----------------------------------------------------------------------------
(* What a read finds. *)

(* A stage that covers a route is indexed under it. *)
LEMMA CoveredIsIndexed ==
  ASSUME NEW stations, Walk(stations), NEW route \in Station \X Station, stageContainsRoute(stations, route)
  PROVE  route \in stageMetadataRecords(stations)
<1>1. PICK i \in DOMAIN stations :
        /\ stations[i] = route[1]
        /\ \E j \in i + 1 .. Len(stations) : stations[j] = route[2]
  BY DEF stageContainsRoute
<1>2. PICK j \in i + 1 .. Len(stations) : stations[j] = route[2]
  BY <1>1
<1>3. Len(stations) \in Nat /\ DOMAIN stations = 1 .. Len(stations)
  BY DEF Walk
<1>4. i \in DOMAIN stations /\ j \in DOMAIN stations /\ i < j
  BY <1>2, <1>3
<1>5. route = <<stations[i], stations[j]>>
  BY <1>1, <1>2
<1>6. <<i, j>> \in {q \in (DOMAIN stations) \X (DOMAIN stations) : q[1] < q[2]}
  BY <1>4
<1> QED BY <1>5, <1>6 DEF stageMetadataRecords

(* A stage covers the route of its first and last station. *)
LEMMA EndsAreCovered ==
  ASSUME NEW stations, Walk(stations), NEW route, Ends(stations) = route
  PROVE  stageContainsRoute(stations, route)
<1>1. Len(stations) \in Nat /\ DOMAIN stations = 1 .. Len(stations) /\ Len(stations) > 1
  BY DEF Walk
<1>2. route[1] = stations[1] /\ route[2] = stations[Len(stations)]
  BY DEF Ends
<1>3. 1 \in DOMAIN stations /\ Len(stations) \in 1 + 1 .. Len(stations) /\ 1 .. 1 - 1 = {}
  BY <1>1
<1> QED BY <1>2, <1>3 DEF stageContainsRoute

LEMMA FoundEntries ==
  ASSUME DInv, NEW route, NEW e \in Search(route)
  PROVE  \E s \in Stage :
           /\ e = Over(cache.stage[s], cache.trip[TripOf[s]])
           /\ cache.stage[s] # NoDocument /\ cache.trip[TripOf[s]] # NoDocument
           /\ StageOwn(cache.stage[s], s, cache.rows) /\ TripOwn(cache.trip[TripOf[s]], TripOf[s])
           /\ DOMAIN e = (DOMAIN cache.stage[s]) \union (DOMAIN cache.trip[TripOf[s]])
           /\ \A f \in DOMAIN cache.stage[s] : e[f] = cache.stage[s][f]
           /\ \A f \in DOMAIN cache.trip[TripOf[s]] : e[f] = cache.trip[TripOf[s]][f]
           /\ e["tripCode"] = TripOf[s] /\ e["tripStageCode"] = s
<1>1. PICK s \in resolveStages(route) :
        cache.trip[TripOf[s]] # NoDocument /\ e = Over(cache.stage[s], cache.trip[TripOf[s]])
  BY DEF Search
<1>2. s \in Stage /\ cache.stage[s] # NoDocument
  BY <1>1 DEF resolveStages, FindStagesByRoute
<1>3. StageOwn(cache.stage[s], s, cache.rows) /\ TripOwn(cache.trip[TripOf[s]], TripOf[s])
  BY <1>2, TripsOfStages DEF DInv, DocumentsOwn
<1>4. (DOMAIN cache.stage[s]) \intersect (DOMAIN cache.trip[TripOf[s]]) = {}
  BY <1>1, <1>2, <1>3 DEF StageOwn, TripOwn
<1>5. /\ DOMAIN e = (DOMAIN cache.stage[s]) \union (DOMAIN cache.trip[TripOf[s]])
      /\ \A f \in DOMAIN cache.stage[s] : e[f] = cache.stage[s][f]
      /\ \A f \in DOMAIN cache.trip[TripOf[s]] : e[f] = cache.trip[TripOf[s]][f]
  BY <1>1, <1>4 DEF Over
<1>6. e["tripCode"] = TripOf[s] /\ e["tripStageCode"] = s
  BY <1>1, <1>2, <1>3, <1>5 DEF StageOwn, TripOwn
<1> QED BY <1>1, <1>2, <1>3, <1>5, <1>6

(* Every route that a stored stage covers leads to it. *)
THEOREM CoverageIsIndexed == DocumentsSpec => []CoveredRoutesAreFound
<1>1. ASSUME DInv PROVE CoveredRoutesAreFound
  <2> SUFFICES ASSUME NEW s \in Stage, NEW route \in Station \X Station, cache.stage[s] # NoDocument,
                      stageContainsRoute(cache.stage[s]["stations"], route)
               PROVE  s \in FindStagesByRoute(route)
    BY DEF CoveredRoutesAreFound
  <2>1. StageOwn(cache.stage[s], s, cache.rows)
    BY <1>1 DEF DInv, DocumentsOwn
  <2>2. <<route, s>> \in cache.rows
    BY <2>1, CoveredIsIndexed DEF StageOwn
  <2> QED BY <2>2 DEF FindStagesByRoute
<1> QED BY <1>1, DocumentsInvariance, PTL

(* Only what a live seat map left is served incomplete. *)
THEOREM SearchesAreWhole == DocumentsSpec => []EntriesAreWhole
<1>1. ASSUME DInv PROVE EntriesAreWhole
  <2> SUFFICES ASSUME NEW route \in Route, NEW e \in Search(route),
                      <<"trip", e["tripCode"]>> \notin bare, <<"stage", e["tripStageCode"]>> \notin bare
               PROVE  SearchFields \subseteq DOMAIN e
    BY DEF EntriesAreWhole
  <2>1. PICK s \in Stage :
           /\ cache.stage[s] # NoDocument /\ cache.trip[TripOf[s]] # NoDocument
           /\ DOMAIN e = (DOMAIN cache.stage[s]) \union (DOMAIN cache.trip[TripOf[s]])
           /\ e["tripCode"] = TripOf[s] /\ e["tripStageCode"] = s
    BY <1>1, FoundEntries
  <2>2. TripWhole(cache.trip[TripOf[s]], TripOf[s], bare) /\ StageWhole(cache.stage[s], s, bare)
    BY <1>1, TripsOfStages DEF DInv, DocumentsWhole
  <2> QED BY <2>1, <2>2 DEF TripWhole, StageWhole, SearchFields
<1> QED BY <1>1, DocumentsInvariance, PTL

LEMMA FoundAreOwn ==
  ASSUME DInv
  PROVE  EntriesAreOwn
<1> SUFFICES ASSUME NEW route \in Route, NEW e \in Search(route)
             PROVE  /\ \A f \in (DOMAIN e) \intersect {"availableSeatCount", "bus"} : e[f].of = e["tripCode"]
                    /\ "stageFare" \in DOMAIN e => e["stageFare"].of = e["tripStageCode"]
                    /\ "seatLayoutList" \notin DOMAIN e
                    /\ "additionalAttributes" \in DOMAIN e =>
                         TripOf[e["additionalAttributes"].of] = e["tripCode"]
  BY DEF EntriesAreOwn
<1>1. PICK s \in Stage :
       /\ cache.stage[s] # NoDocument /\ cache.trip[TripOf[s]] # NoDocument
       /\ StageOwn(cache.stage[s], s, cache.rows) /\ TripOwn(cache.trip[TripOf[s]], TripOf[s])
       /\ DOMAIN e = (DOMAIN cache.stage[s]) \union (DOMAIN cache.trip[TripOf[s]])
       /\ \A f \in DOMAIN cache.stage[s] : e[f] = cache.stage[s][f]
       /\ \A f \in DOMAIN cache.trip[TripOf[s]] : e[f] = cache.trip[TripOf[s]][f]
       /\ e["tripCode"] = TripOf[s] /\ e["tripStageCode"] = s
  BY FoundEntries
<1> QED BY <1>1 DEF StageOwn, TripOwn

LEMMA FoundSeats ==
  ASSUME DInv, NEW t \in Trip, NEW route \in Route, NEW b \in BusMap(t, route)
  PROVE  /\ b["tripCode"] = t /\ SeatsOfTrip(b)
         /\ SeatMapsOwn(cache) => GoodSeats(b)
<1>1. PICK s \in Stage : TripOf[s] = t /\ cache.busmap[s] # NoDocument /\ b = cache.busmap[s]
  BY DEF BusMap, resolveStages, FindStagesByRoute
<1> QED BY <1>1 DEF DInv, DocumentsOwn, SeatMapsOwn, SeatsOwn, StageSeatsOwn

(* Nothing of one trip is served as another's, whichever identifiers BITS    *)
(* leaves out of its seat maps and whichever stage it answers about          *)
(* (search_busmap.go:129).                                                   *)
THEOREM NoOtherTrip == DocumentsSpec => []TripsAreApart
<1>1. ASSUME DInv PROVE TripsAreApart
  BY <1>1, FoundAreOwn, FoundSeats DEF TripsAreApart, SeatsOfTrip
<1> QED BY <1>1, DocumentsInvariance, PTL

(* Nothing of one trip or stage is served as another's, but the attributes    *)
(* that SEARCHBUSMAP leaves in a Trip document, provided that BITS tells the  *)
(* stages of a trip apart: a seat map that does not name its stage is taken   *)
(* for that of the stage it was asked for, by trip and route.                 *)
THEOREM OnlyAttributesOfAnother == StagesToldApart => (DocumentsSpec => []OnlyAttributesAreMixed)
<1>1. ASSUME SeatInv PROVE OnlyAttributesAreMixed
  BY <1>1, FoundAreOwn, FoundSeats DEF SeatInv, OnlyAttributesAreMixed, GoodSeats
<1> QED BY <1>1, SeatInvariance, PTL

(* After a live Search nothing is missing or different while BITS stays as it *)
(* was.                                                                       *)
THEOREM RepairsConverge == DocumentsSpec => []RepairConverges
<1>1. ASSUME DInv PROVE RepairConverges
  <2> SUFFICES ASSUME NEW route \in agreed, NEW l \in SearchAnswer(route, version)
               PROVE  /\ \E e \in Search(route) : EntryIdentityOf(e) = EntryIdentityOf(l)
                      /\ \A e \in Search(route) : EntryIdentityOf(e) = EntryIdentityOf(l) => CompareEntries(e, l) = {}
    BY DEF RepairConverges, pairAndCompare
  <2>1. PICK s \in Sold(route, version) : l = Listed(s)
    BY DEF SearchAnswer, Listed
  <2>2. /\ s \in Stage /\ l["tripCode"] = TripOf[s] /\ l["tripStageCode"] = s
        /\ GoodEntry(l) /\ Whole(l) /\ DOMAIN l = SearchFields
        /\ Ends(l["stations"]) = route
    BY <1>1, <2>1, ListedFields DEF DInv
  <2>3. cache.stage[s] = stageProjection(l) /\ cache.trip[TripOf[s]] = commonTripProjection(l)
    BY <1>1, <2>1 DEF DInv, RouteAgrees
  <2>4. Over(stageProjection(l), commonTripProjection(l)) = l
    <3>1. l = [f \in DOMAIN l |-> l[f]]
      BY <2>1 DEF Listed, SearchEntry
    <3>2. (DOMAIN stageProjection(l)) \union (DOMAIN commonTripProjection(l)) = DOMAIN l
      BY <2>2 DEF stageProjection, commonTripProjection, Only, searchStageFields, SearchFields
    <3>3. /\ \A f \in DOMAIN stageProjection(l) : stageProjection(l)[f] = l[f]
          /\ \A f \in DOMAIN commonTripProjection(l) : commonTripProjection(l)[f] = l[f]
      BY DEF stageProjection, commonTripProjection, Only
    <3> HIDE DEF stageProjection, commonTripProjection
    <3>4. Over(stageProjection(l), commonTripProjection(l)) = [f \in DOMAIN l |-> l[f]]
      BY <3>2, <3>3 DEF Over
    <3> QED BY <3>1, <3>4
  <2>5. l \in Search(route)
    <3>1. stageProjection(l) # NoDocument /\ commonTripProjection(l) # NoDocument
      BY <2>2, WholeProjections, DocumentsHaveFields
    <3>2. /\ StageOwn(cache.stage[s], s, cache.rows)
          /\ cache.stage[s]["stations"] = l["stations"]
      BY <1>1, <2>2, <2>3 DEF DInv, DocumentsOwn, stageProjection, Only, searchStageFields, GoodEntry
    <3>3. stageContainsRoute(l["stations"], route) /\ route \in Station \X Station
      BY <1>1, <2>2, EndsAreCovered, DocumentsAssumption DEF DocumentsAssumption, DInv, GoodEntry
    <3>4. <<route, s>> \in cache.rows
      BY <2>2, <2>3, <3>1, <3>2, <3>3, CoveredIsIndexed DEF StageOwn, GoodEntry
    <3>5. s \in resolveStages(route)
      BY <2>2, <2>3, <3>1, <3>2, <3>3, <3>4 DEF resolveStages, FindStagesByRoute
    <3> QED BY <2>3, <2>4, <3>1, <3>5 DEF Search
  <2>6. ASSUME NEW e \in Search(route), EntryIdentityOf(e) = EntryIdentityOf(l) PROVE e = l
    <3>1. PICK x \in Stage :
            /\ e = Over(cache.stage[x], cache.trip[TripOf[x]])
            /\ e["tripStageCode"] = x
            /\ "tripStageCode" \in DOMAIN e
      <4>1. PICK x \in Stage :
             /\ e = Over(cache.stage[x], cache.trip[TripOf[x]])
             /\ cache.stage[x] # NoDocument
             /\ StageOwn(cache.stage[x], x, cache.rows)
             /\ DOMAIN e = (DOMAIN cache.stage[x]) \union (DOMAIN cache.trip[TripOf[x]])
             /\ e["tripStageCode"] = x
        BY <1>1, FoundEntries
      <4> QED BY <4>1 DEF StageOwn
    <3>2. x = s
      BY <2>2, <2>6, <3>1 DEF EntryIdentityOf, ValueAt, GoodEntry
    <3> QED BY <2>3, <2>4, <3>1, <3>2
  <2>7. CompareEntries(l, l) = {}
    BY DEF CompareEntries
  <2> QED BY <2>5, <2>6, <2>7
<1> QED BY <1>1, DocumentsInvariance, PTL

=============================================================================
