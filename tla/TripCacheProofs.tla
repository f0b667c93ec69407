--------------------------- MODULE TripCacheProofs ---------------------------
(* Proofs about TripCache: for any threads, retentions and bounds, slots are  *)
(* given back, a Search with trusted metadata is served, and so is a read     *)
(* that repaired the cache.                                                   *)
EXTENDS TripCache, FiniteSetTheorems, TLAPS

(* The order in which an entry is written. *)
LEMMA WriteOrder ==
  ASSUME NEW a \in Action, NEW s \in Remaining(a)
  PROVE  /\ Head(s) \in Document \union {"route"} /\ s # <<>>
         /\ Tail(s) # <<>> =>
              /\ Tail(s) \in Remaining(a)
              /\ Head(Tail(s)) = "stage" => Head(s) = "trip"
              /\ Head(Tail(s)) = "route" => Head(s) = "stage"
              /\ Head(Tail(s)) = "busmap" => Head(s) = "route"
         /\ Tail(s) = <<>> => Head(s) = IF a = "SEARCH" THEN "route" ELSE "busmap"
<1>1. /\ Tail(<<"busmap">>) = <<>> /\ Tail(<<"route">>) = <<>>
      /\ Head(<<"busmap">>) = "busmap" /\ Head(<<"route">>) = "route"
  OBVIOUS
<1>2. /\ Tail(<<"stage", "route">>) = <<"route">> /\ Head(<<"stage", "route">>) = "stage"
      /\ Tail(<<"trip", "stage", "route">>) = <<"stage", "route">>
      /\ Head(<<"trip", "stage", "route">>) = "trip"
  OBVIOUS
<1>3. /\ Tail(<<"route", "busmap">>) = <<"busmap">> /\ Head(<<"route", "busmap">>) = "route"
      /\ Tail(<<"stage", "route", "busmap">>) = <<"route", "busmap">>
      /\ Head(<<"stage", "route", "busmap">>) = "stage"
      /\ Tail(<<"trip", "stage", "route", "busmap">>) = <<"stage", "route", "busmap">>
      /\ Head(<<"trip", "stage", "route", "busmap">>) = "trip"
  OBVIOUS
<1>4. CASE s = <<"busmap">> /\ a # "SEARCH"
  BY <1>1, <1>4 DEF Document
<1>5. CASE a = "SEARCH"
  <2>1. Remaining(a) = {<<"trip", "stage", "route">>, <<"stage", "route">>, <<"route">>}
    BY <1>5 DEF Remaining
  <2>2. CASE s = <<"trip", "stage", "route">>
    BY <1>2, <1>5, <2>1, <2>2 DEF Document
  <2>3. CASE s = <<"stage", "route">>
    BY <1>1, <1>2, <1>5, <2>1, <2>3 DEF Document
  <2>4. CASE s = <<"route">>
    BY <1>1, <1>5, <2>4 DEF Document
  <2> QED BY <2>1, <2>2, <2>3, <2>4
<1>6. CASE a = "SEARCHBUSMAP" /\ s # <<"busmap">>
  <2>1. Remaining(a) = {<<"trip", "stage", "route", "busmap">>, <<"stage", "route", "busmap">>,
                        <<"route", "busmap">>, <<"busmap">>}
    BY <1>6 DEF Remaining
  <2>2. CASE s = <<"trip", "stage", "route", "busmap">>
    BY <1>3, <1>6, <2>1, <2>2 DEF Document
  <2>3. CASE s = <<"stage", "route", "busmap">>
    BY <1>3, <1>6, <2>1, <2>3 DEF Document
  <2>4. CASE s = <<"route", "busmap">>
    BY <1>1, <1>3, <1>6, <2>1, <2>4 DEF Document
  <2> QED BY <1>6, <2>1, <2>2, <2>3, <2>4
<1>7. a = "BUSMAP" => s = <<"busmap">>
  BY DEF Remaining
<1> QED BY <1>4, <1>5, <1>6, <1>7 DEF Action

-----------------------------------------------------------------------------
(* Slots.                                                                   *)

LEMMA VerifyingFinite == IsFiniteSet(Verifying) /\ Cardinality(Verifying) \in Nat
BY CacheAssumption, FS_Subset, FS_CardinalityType DEF Verifying

SlotPlace == {"limit", "fetch", "compare"}

LEMMA SlotKept ==
  ASSUME TypeOK, SlotsInUse, NEW t \in Thread, NEW p \in Place,
         pc' = [pc EXCEPT ![t] = p], (pc[t] \in SlotPlace) <=> (p \in SlotPlace), slots' = slots
  PROVE  SlotsInUse'
<1>1. Verifying' = Verifying
  BY DEF TypeOK, Verifying, SlotPlace
<1> QED BY <1>1 DEF SlotsInUse

LEMMA SlotTaken ==
  ASSUME TypeOK, SlotsInUse, NEW t \in Thread, NEW p \in SlotPlace,
         pc' = [pc EXCEPT ![t] = p], pc[t] \notin SlotPlace, slots' = slots + 1
  PROVE  SlotsInUse'
<1>1. Verifying' = Verifying \union {t} /\ t \notin Verifying
  BY DEF TypeOK, Verifying, SlotPlace
<1>2. Cardinality(Verifying \union {t}) = Cardinality(Verifying) + 1
  BY <1>1, VerifyingFinite, FS_AddElement
<1> QED BY <1>1, <1>2 DEF SlotsInUse

LEMMA SlotFreed ==
  ASSUME TypeOK, SlotsInUse, NEW t \in Thread, NEW p \in Place \ SlotPlace,
         pc' = [pc EXCEPT ![t] = p], pc[t] \in SlotPlace, slots' = slots - 1
  PROVE  SlotsInUse' /\ slots' \in 0 .. MaxSlots
<1>1. Verifying' = Verifying \ {t} /\ t \in Verifying
  BY DEF TypeOK, Verifying, SlotPlace
<1>2. Cardinality(Verifying \ {t}) = Cardinality(Verifying) - 1 /\ Cardinality(Verifying) > 0
  BY <1>1, VerifyingFinite, FS_RemoveElement, FS_EmptySet
<1>3. slots - 1 \in 0 .. MaxSlots
  BY <1>2, CacheAssumption DEF TypeOK, SlotsInUse
<1> QED BY <1>1, <1>2, <1>3 DEF SlotsInUse

-----------------------------------------------------------------------------
(* The cache.                                                               *)

CacheType == /\ age \in [Document -> 0 .. OldAge]
             /\ ttl \in [Document -> Nat] /\ \A d \in Document : ttl[d] <= Retention[d]
             /\ updated \in 0 .. OldAge \union {NoRow}
CacheInv == CacheType /\ KeptForRetention /\ MetadataBacked

(* Whatever is there stays, and gets no older. *)
NoWorse == \A d \in Document : ttl[d] > 0 => ttl'[d] > 0 /\ age'[d] <= age[d]

LEMMA RetentionFacts ==
  /\ Retention \in [Document -> Nat] /\ \A d \in Document : Retention[d] > 1
  /\ Retention["trip"] = HotTTL /\ Retention["stage"] = HotTTL
  /\ HotTTL \in Nat /\ ColdAfter \in Nat /\ ColdAfter + 2 < HotTTL /\ NoRow \notin Nat
  /\ OldAge = HotTTL
BY CacheAssumption DEF Retention, Document, OldAge

LEMMA Unwritten == ASSUME CacheInv, UNCHANGED cache PROVE CacheInv' /\ NoWorse
BY DEF CacheInv, CacheType, KeptForRetention, MetadataBacked, NoWorse, cache, Document

LEMMA Renewed ==
  ASSUME CacheInv, UNCHANGED <<age, updated>>, ttl' \in [Document -> Nat],
         \A d \in Document : ttl'[d] = ttl[d] \/ (ttl[d] > 0 /\ ttl'[d] = Retention[d])
  PROVE  CacheInv' /\ NoWorse
<1>1. CacheType' /\ NoWorse
  BY RetentionFacts DEF CacheInv, CacheType, NoWorse
<1>2. KeptForRetention'
  BY RetentionFacts DEF CacheInv, CacheType, KeptForRetention
<1>3. MetadataBacked'
  BY <1>1 DEF CacheInv, CacheType, MetadataBacked, NoWorse, Document
<1> QED BY <1>1, <1>2, <1>3 DEF CacheInv

(* A write keeps the metadata backed if the row goes in after the content. *)
LEMMA Written ==
  ASSUME CacheInv, NEW k \in Document \union {"route"}, Write(k),
         k = "route" => \A d \in {"trip", "stage"} : ttl[d] > 0 /\ age[d] <= 1
  PROVE  CacheInv' /\ NoWorse /\ (k # "route" => ttl'[k] > 0 /\ age'[k] = 0)
<1>1. CASE k = "route"
  <2>1. updated' = 0 /\ UNCHANGED <<age, ttl>>
    BY <1>1 DEF Write
  <2>2. CacheType' /\ NoWorse
    BY <2>1, RetentionFacts DEF CacheInv, CacheType, NoWorse
  <2>3. KeptForRetention'
    BY <2>1 DEF CacheInv, KeptForRetention
  <2>4. MetadataBacked'
    BY <1>1, <2>1 DEF MetadataBacked
  <2> QED BY <1>1, <2>2, <2>3, <2>4 DEF CacheInv
<1>2. CASE k # "route"
  <2>1. /\ age' = [age EXCEPT ![k] = 0] /\ ttl' = [ttl EXCEPT ![k] = Retention[k]]
        /\ UNCHANGED updated /\ k \in Document
    BY <1>2 DEF Write
  <2>0. /\ age \in [Document -> 0 .. OldAge] /\ ttl \in [Document -> Nat]
        /\ \A d \in Document : ttl[d] <= Retention[d]
        /\ updated \in 0 .. OldAge \union {NoRow} /\ Retention[k] \in Nat /\ 0 \in 0 .. OldAge
    <3>1. Retention[k] \in Nat
      BY <2>1, RetentionFacts
    <3>2. 0 \in 0 .. OldAge
      BY CacheAssumption DEF OldAge
    <3> QED BY <3>1, <3>2 DEF CacheInv, CacheType
  <2>a. /\ age'[k] = 0 /\ ttl'[k] = Retention[k] /\ ttl'[k] > 0
        /\ \A d \in Document : d # k => age'[d] = age[d] /\ ttl'[d] = ttl[d]
        /\ age' \in [Document -> 0 .. OldAge] /\ ttl' \in [Document -> Nat]
    <3>1. age'[k] = 0 /\ \A d \in Document : d # k => age'[d] = age[d]
      BY <2>0, <2>1
    <3>2. ttl'[k] = Retention[k] /\ \A d \in Document : d # k => ttl'[d] = ttl[d]
      BY <2>0, <2>1
    <3>3. age' \in [Document -> 0 .. OldAge] /\ ttl' \in [Document -> Nat]
      BY <2>0, <2>1
    <3> QED BY <2>1, <3>1, <3>2, <3>3, RetentionFacts
  <2>2. CacheType' /\ NoWorse
    <3>1. \A d \in Document : ttl'[d] <= Retention[d]
      BY <2>0, <2>a, RetentionFacts
    <3>2. CacheType'
      BY <2>0, <2>1, <2>a, <3>1 DEF CacheType, Retention, OldAge
    <3>3. NoWorse
      BY <2>0, <2>a, RetentionFacts DEF NoWorse
    <3> QED BY <3>2, <3>3
  <2>3. KeptForRetention'
    <3>1. \A d \in Document : ttl'[d] > 0 => age'[d] = OldAge \/ age'[d] + ttl'[d] >= Retention[d]
      BY <2>0, <2>a, RetentionFacts DEF CacheInv, KeptForRetention
    <3> QED BY <3>1 DEF KeptForRetention, OldAge, Retention
  <2>4. MetadataBacked'
    BY <2>1, <2>2 DEF CacheInv, CacheType, MetadataBacked, NoWorse, Document
  <2> QED BY <2>2, <2>3, <2>4, <2>a DEF CacheInv
<1> QED BY <1>1, <1>2

(* Metadata ages with the content it points to. *)
LEMMA TickedCache ==
  ASSUME CacheInv, Tick PROVE CacheInv'
<1>1. /\ ttl' = [d \in Document |-> IF ttl[d] > 0 THEN ttl[d] - 1 ELSE 0]
      /\ age' = [d \in Document |-> IF ttl[d] > 1 THEN Older(age[d]) ELSE 0]
      /\ updated' = IF updated = NoRow THEN NoRow ELSE Older(updated)
  BY DEF Tick
<1>2. \A a \in 0 .. OldAge : Older(a) \in 0 .. OldAge /\ Older(a) = IF a < OldAge THEN a + 1 ELSE a
  BY RetentionFacts DEF Older
<1>3. /\ age \in [Document -> 0 .. OldAge] /\ ttl \in [Document -> Nat]
      /\ \A d \in Document : ttl[d] <= Retention[d]
      /\ updated \in 0 .. OldAge \union {NoRow}
  BY DEF CacheInv, CacheType
<1>4. ASSUME NEW d \in Document
      PROVE  /\ ttl'[d] \in Nat /\ ttl'[d] <= Retention[d] /\ age'[d] \in 0 .. OldAge
             /\ ttl'[d] > 0 => ttl[d] > 1 /\ ttl'[d] = ttl[d] - 1 /\ age'[d] = Older(age[d])
             /\ ttl[d] > 1 => ttl'[d] > 0
  <2>1. /\ ttl'[d] = IF ttl[d] > 0 THEN ttl[d] - 1 ELSE 0
        /\ age'[d] = IF ttl[d] > 1 THEN Older(age[d]) ELSE 0
    BY <1>1
  <2>2. ttl[d] \in Nat /\ ttl[d] <= Retention[d] /\ age[d] \in 0 .. OldAge /\ Retention[d] \in Nat
    BY <1>3, RetentionFacts
  <2>3. 0 \in 0 .. OldAge /\ Older(age[d]) \in 0 .. OldAge
    BY <1>2, <2>2, RetentionFacts
  <2> QED BY <2>1, <2>2, <2>3
<1>5. CacheType'
  <2>1. updated' \in 0 .. OldAge \union {NoRow}
    BY <1>1, <1>2, <1>3
  <2>2. age' \in [Document -> 0 .. OldAge]
    BY <1>1, <1>4
  <2>3. ttl' \in [Document -> Nat]
    BY <1>1, <1>4
  <2> QED BY <1>4, <2>1, <2>2, <2>3, RetentionFacts DEF CacheType, OldAge, Retention
<1>6. KeptForRetention'
  <2> SUFFICES ASSUME NEW d \in Document, ttl'[d] > 0, age'[d] # OldAge
               PROVE  age'[d] + ttl'[d] >= Retention[d]
    BY DEF KeptForRetention, OldAge, Retention
  <2>1. ttl[d] > 1 /\ ttl'[d] = ttl[d] - 1 /\ age'[d] = Older(age[d])
        /\ age[d] \in 0 .. OldAge /\ ttl[d] \in Nat /\ Retention[d] \in Nat
    BY <1>3, <1>4, RetentionFacts
  <2>2. age[d] < OldAge /\ age'[d] = age[d] + 1
    BY <1>2, <2>1, RetentionFacts
  <2>3. age[d] + ttl[d] >= Retention[d]
    BY <2>1, <2>2, RetentionFacts DEF CacheInv, KeptForRetention
  <2> QED BY <2>1, <2>2, <2>3
<1>7. MetadataBacked'
  <2> SUFFICES ASSUME updated' # NoRow, updated' + 1 < HotTTL, NEW d \in {"trip", "stage"}
               PROVE  ttl'[d] > 0 /\ age'[d] <= updated' + 1
    <3>1. updated' = NoRow \/ updated' \in Nat
      BY <1>5, RetentionFacts DEF CacheType, OldAge
    <3> SUFFICES ASSUME updated' # NoRow, NEW d \in {"trip", "stage"}
                 PROVE  (ttl'[d] > 0 /\ age'[d] <= updated' + 1) \/ updated' + 1 >= HotTTL
      BY DEF MetadataBacked
    <3>2. updated' + 1 >= HotTTL \/ updated' + 1 < HotTTL
      BY <3>1, RetentionFacts
    <3> QED BY <3>2
  <2>1. updated # NoRow /\ updated' = updated + 1 /\ updated \in Nat /\ updated + 2 < HotTTL
    BY <1>1, <1>2, <1>3, RetentionFacts
  <2>2. ttl[d] > 0 /\ age[d] <= updated + 1 /\ d \in Document
    BY <2>1, RetentionFacts DEF CacheInv, MetadataBacked, Document
  <2>3. age[d] \in 0 .. OldAge /\ ttl[d] \in Nat /\ age[d] + ttl[d] >= HotTTL
    BY <1>3, <2>1, <2>2, RetentionFacts DEF CacheInv, KeptForRetention
  <2>4. ttl[d] > 1
    BY <2>1, <2>2, <2>3, RetentionFacts
  <2> QED BY <1>2, <1>4, <2>1, <2>2, <2>3, <2>4, RetentionFacts
<1> QED BY <1>5, <1>6, <1>7 DEF CacheInv

-----------------------------------------------------------------------------
(* Threads.                                                                 *)

LEMMA InvCache == ASSUME IInv PROVE CacheInv
BY DEF IInv, TypeOK, CacheInv, CacheType

LEMMA StillThere ==
  ASSUME CacheInv, CacheInv', NoWorse, NEW d \in Thread, (d \in ticked') <=> (d \in ticked),
         NEW k \in Document
  PROVE  (Recent(d, k) => Recent(d, k)') /\ (Trusted(d, k) => Trusted(d, k)')
<1>1. /\ age[k] \in Nat /\ age'[k] \in Nat
      /\ ttl[k] > 0 => ttl'[k] > 0 /\ age'[k] <= age[k]
  BY RetentionFacts DEF CacheInv, CacheType, NoWorse, OldAge
<1>2. Slack(d)' = Slack(d) /\ Slack(d) \in Nat /\ ColdAfter \in Nat
  BY RetentionFacts DEF Slack
<1>3. /\ Recent(d, k)' <=> ttl'[k] > 0 /\ age'[k] <= Slack(d)
      /\ Trusted(d, k)' <=> ttl'[k] > 0 /\ age'[k] <= ColdAfter + 1 + Slack(d)
  BY <1>2 DEF Recent, Trusted
<1>4. ASSUME NEW n \in Nat, ttl[k] > 0, age[k] <= n PROVE ttl'[k] > 0 /\ age'[k] <= n
  BY <1>1, <1>4
<1>5. Recent(d, k) => Recent(d, k)'
  BY <1>2, <1>3, <1>4 DEF Recent
<1>6. Trusted(d, k) => Trusted(d, k)'
  <2>1. ColdAfter + 1 + Slack(d) \in Nat
    BY <1>2
  <2> QED BY <1>3, <1>4, <2>1 DEF Trusted
<1> QED BY <1>5, <1>6

LEMMA OtherThread ==
  ASSUME CacheInv, CacheInv', NoWorse, NEW d \in Thread, ThreadInv(d),
         pc'[d] = pc[d], task'[d] = task[d], todo'[d] = todo[d], seen'[d] = seen[d],
         oldest'[d] = oldest[d], result'[d] = result[d],
         (d \in ticked') <=> (d \in ticked), (d \in repaired') <=> (d \in repaired)
  PROVE  ThreadInv(d)'
<1>1. \A k \in Document : (Recent(d, k) => Recent(d, k)') /\ (Trusted(d, k) => Trusted(d, k)')
  BY StillThere
<1>2. InOrder(d)'
  BY DEF ThreadInv, InOrder, StoredAction, Remaining, Storing
<1>3. WrittenSoFar(d)'
  BY <1>1 DEF ThreadInv, WrittenSoFar, Storing, Document
<1>4. ReadsTrusted(d)'
  BY <1>1 DEF ThreadInv, ReadsTrusted, Document
<1>5. ReadsRepaired(d)'
  BY <1>1 DEF ThreadInv, ReadsRepaired, Repaired, Document
<1> QED BY <1>2, <1>3, <1>4, <1>5 DEF ThreadInv

(* A step of one thread. *)
Alone(t) == \A d \in Thread \ {t} :
  /\ pc'[d] = pc[d] /\ task'[d] = task[d] /\ todo'[d] = todo[d] /\ seen'[d] = seen[d]
  /\ oldest'[d] = oldest[d] /\ result'[d] = result[d]
  /\ (d \in ticked') <=> (d \in ticked)
  /\ (d \in repaired') <=> (d \in repaired)

LEMMA StepInv ==
  ASSUME IInv, NEW t \in Thread, Alone(t), TypeOK', SlotsInUse', CacheInv', NoWorse, ThreadInv(t)'
  PROVE  IInv'
<1>1. \A d \in Thread \ {t} : ThreadInv(d)'
  BY InvCache, OtherThread DEF IInv, Alone
<1> QED BY <1>1 DEF IInv, CacheInv

LEMMA WritesFacts ==
  ASSUME NEW a \in Action
  PROVE  /\ Writes(a) \in Remaining(a) /\ Writes(a) \in Seq(Document \union {"route"})
         /\ Head(Writes(a)) = IF a = "BUSMAP" THEN "busmap" ELSE "trip"
<1>1. <<"busmap">> \in Seq(Document \union {"route"})
      /\ <<"trip", "stage", "route">> \in Seq(Document \union {"route"})
      /\ <<"trip", "stage", "route", "busmap">> \in Seq(Document \union {"route"})
  BY DEF Document
<1>2. Head(<<"busmap">>) = "busmap" /\ Head(<<"trip", "stage", "route">>) = "trip"
      /\ Head(<<"trip", "stage", "route", "busmap">>) = "trip"
  OBVIOUS
<1>3. CASE a = "BUSMAP"
  BY <1>1, <1>2, <1>3 DEF Writes, Remaining
<1>4. CASE a = "SEARCH"
  BY <1>1, <1>2, <1>4 DEF Writes, Remaining
<1>5. CASE a = "SEARCHBUSMAP"
  BY <1>1, <1>2, <1>5 DEF Writes, Remaining
<1> QED BY <1>3, <1>4, <1>5 DEF Action

LEMMA BeginInv ==
  ASSUME IInv, NEW t \in Thread, NEW k \in Task, Begin(t, k) PROVE IInv'
<1>1. /\ pc[t] = "idle" /\ k.action \in Action
      /\ pc' = [pc EXCEPT ![t] = IF k.do = "push" THEN "store"
                                 ELSE IF k.do = "live read" THEN "slot" ELSE "lookup"]
      /\ task' = [task EXCEPT ![t] = k]
      /\ todo' = [todo EXCEPT ![t] = IF k.do = "push" THEN Writes(k.action) ELSE <<>>]
      /\ seen' = [seen EXCEPT ![t] = "none"] /\ oldest' = [oldest EXCEPT ![t] = 0]
      /\ result' = [result EXCEPT ![t] = "none"]
      /\ ticked' = ticked \ {t} /\ repaired' = repaired \ {t}
  BY DEF Begin, Task
<1>2. Alone(t)
  BY <1>1 DEF Alone, IInv, TypeOK
<1>3. CacheInv' /\ NoWorse
  BY InvCache, Unwritten DEF Begin
<1>4. SlotsInUse'
  BY <1>1, SlotKept DEF IInv, Begin, SlotPlace, Place
<1>5. TypeOK'
  <2>1. pc' \in [Thread -> Place] /\ task' \in [Thread -> Task] /\ result' \in [Thread -> Answer]
        /\ seen' \in [Thread -> {"none", "fresh", "cold"}]
    BY <1>1 DEF IInv, TypeOK, Place, Answer
  <2>2. todo' \in [Thread -> Seq(Document \union {"route"})]
    <3>1. Writes(k.action) \in Seq(Document \union {"route"})
      BY <1>1, WritesFacts
    <3>2. <<>> \in Seq(Document \union {"route"})
      OBVIOUS
    <3> QED BY <1>1, <3>1, <3>2 DEF IInv, TypeOK
  <2>3. oldest' \in [Thread -> 0 .. OldAge]
    <3>1. 0 \in 0 .. OldAge
      BY CacheAssumption DEF OldAge
    <3> QED BY <1>1, <3>1 DEF IInv, TypeOK
  <2>4. calls' \in 0 .. MaxCalls
    <3>1. calls < MaxCalls /\ calls' = calls + 1
      BY DEF Begin
    <3>2. calls \in 0 .. MaxCalls
      BY DEF IInv, TypeOK
    <3> QED BY <3>1, <3>2, CacheAssumption
  <2> QED BY <1>1, <1>3, <2>1, <2>2, <2>3, <2>4
      DEF IInv, TypeOK, Begin, CacheInv, CacheType, OldAge, Retention
<1>6. ThreadInv(t)'
  <2>1. /\ pc'[t] = IF k.do = "push" THEN "store" ELSE IF k.do = "live read" THEN "slot" ELSE "lookup"
        /\ task'[t] = k /\ todo'[t] = IF k.do = "push" THEN Writes(k.action) ELSE <<>>
        /\ seen'[t] = "none" /\ oldest'[t] = 0 /\ result'[t] = "none"
        /\ t \notin ticked' /\ t \notin repaired'
    BY <1>1 DEF IInv, TypeOK
  <2>2. CASE k.do = "push"
    <3>1. pc'[t] = "store" /\ todo'[t] = Writes(k.action) /\ StoredAction(t)' = k.action
      BY <2>1, <2>2 DEF StoredAction
    <3>2. todo'[t] \in Remaining(StoredAction(t)')
      BY <1>1, <3>1, WritesFacts
    <3>3. InOrder(t)'
      BY <2>1, <2>2, <3>1, <3>2 DEF InOrder
    <3>4. WrittenSoFar(t)'
      BY <1>1, <3>1, WritesFacts DEF WrittenSoFar
    <3> QED BY <2>1, <3>3, <3>4 DEF ThreadInv, ReadsTrusted, ReadsRepaired
  <2>3. CASE k.do # "push"
    <3>1. pc'[t] \in {"slot", "lookup"}
      BY <2>1, <2>3
    <3>2. InOrder(t)' /\ WrittenSoFar(t)'
      BY <2>1, <2>3, <3>1 DEF InOrder, WrittenSoFar, Storing
    <3> QED BY <2>1, <3>2 DEF ThreadInv, ReadsTrusted, ReadsRepaired
  <2> QED BY <2>2, <2>3
<1> QED BY <1>2, <1>3, <1>4, <1>5, <1>6, StepInv

(* Types of the steps after Begin. *)

LEMMA TypeStep ==
  ASSUME TypeOK, CacheInv', slots' \in 0 .. MaxSlots, pc' \in [Thread -> Place],
         todo' \in [Thread -> Seq(Document \union {"route"})], repaired' \subseteq Thread,
         seen' \in [Thread -> {"none", "fresh", "cold"}], oldest' \in [Thread -> 0 .. OldAge],
         result' \in [Thread -> Answer], faults' \in 0 .. MaxFaults,
         UNCHANGED <<task, ticked, calls>>
  PROVE  TypeOK'
BY DEF TypeOK, CacheInv, CacheType, OldAge, Retention

LEMMA FaultFacts == ASSUME TypeOK, Fault PROVE faults' \in 0 .. MaxFaults
<1>1. faults \in 0 .. MaxFaults /\ faults < MaxFaults /\ faults' = faults + 1
  BY DEF TypeOK, Fault
<1> QED BY <1>1, CacheAssumption

LEMMA GoToFacts ==
  ASSUME TypeOK, NEW t \in Thread, NEW p \in Place, GoTo(t, p)
  PROVE  /\ pc' = [pc EXCEPT ![t] = p] /\ pc' \in [Thread -> Place] /\ pc'[t] = p
         /\ result' = result /\ result' \in [Thread -> Answer]
         /\ \A d \in Thread \ {t} : pc'[d] = pc[d] /\ result'[d] = result[d]
BY DEF TypeOK, GoTo

LEMMA ReturnFacts ==
  ASSUME TypeOK, NEW t \in Thread, NEW a \in Answer, Return(t, a)
  PROVE  /\ pc' = [pc EXCEPT ![t] = "idle"] /\ pc' \in [Thread -> Place] /\ pc'[t] = "idle"
         /\ result' \in [Thread -> Answer] /\ result'[t] = a
         /\ \A d \in Thread \ {t} : pc'[d] = pc[d] /\ result'[d] = result[d]
BY DEF TypeOK, Return, Place

(* Where a request is after Verify, and what it was answered. *)
Returned(t) ==
  \E p \in {"idle", "again", "stage"} :
    /\ pc' = [pc EXCEPT ![t] = p] /\ pc' \in [Thread -> Place] /\ pc'[t] = p
    /\ result' \in [Thread -> Answer]
    /\ result'[t] = result[t] \/ (p = "idle" /\ result'[t] \in {"live", "refused"})
    /\ \A d \in Thread \ {t} : pc'[d] = pc[d] /\ result'[d] = result[d]

LEMMA VerifyReturnsFacts ==
  ASSUME TypeOK, NEW t \in Thread, NEW ok \in BOOLEAN, VerifyReturns(t, ok)
  PROVE  Returned(t)
<1>1. CASE task[t].do = "live read"
  <2>1. PICK a \in {"live", "refused"} : Return(t, a)
    BY <1>1 DEF VerifyReturns
  <2>2. a \in Answer
    BY DEF Answer
  <2> QED BY <2>1, <2>2, ReturnFacts DEF Returned
<1>2. CASE task[t].do # "live read"
  <2>1. PICK p \in {"again", "stage"} : GoTo(t, p)
    BY <1>2 DEF VerifyReturns
  <2>2. p \in Place
    BY DEF Place
  <2> QED BY <2>1, <2>2, GoToFacts DEF Returned
<1> QED BY <1>1, <1>2

Verification == {"slot", "limit", "fetch", "compare", "companion", "repair", "companion repair"}

LEMMA InVerification ==
  ASSUME IInv, NEW t \in Thread, pc[t] \in Verification
  PROVE  /\ task[t].do # "push" /\ oldest[t] = 0 /\ oldest[t] <= 1 /\ result[t] = "none"
         /\ ~ (task[t].action = "SEARCH" /\ seen[t] = "fresh")
<1>1. oldest[t] = 0
  BY DEF IInv, ThreadInv, InOrder, Verification
<1>2. oldest[t] <= 1
  BY <1>1
<1> QED BY <1>1, <1>2 DEF IInv, ThreadInv, InOrder, ReadsTrusted, Verification

LEMMA ReturnedInv ==
  ASSUME IInv, NEW t \in Thread, Returned(t), pc[t] \in Verification,
         UNCHANGED <<task, ticked, seen, oldest>>, t \in repaired' => Repaired(t)'
  PROVE  ThreadInv(t)'
<1>1. /\ task[t].do # "push" /\ oldest'[t] = 0 /\ oldest'[t] <= 1 /\ result[t] = "none"
      /\ ~ (task[t].action = "SEARCH" /\ seen[t] = "fresh")
  BY InVerification
<1>2. PICK p \in {"idle", "again", "stage"} :
        /\ pc'[t] = p
        /\ result'[t] = result[t] \/ (p = "idle" /\ result'[t] \in {"live", "refused"})
  BY DEF Returned
<1>3. InOrder(t)' /\ WrittenSoFar(t)' /\ ReadsTrusted(t)'
  BY <1>1, <1>2 DEF InOrder, WrittenSoFar, ReadsTrusted, Storing
<1>4. ReadsRepaired(t)'
  BY <1>1, <1>2 DEF ReadsRepaired, Repaired
<1> QED BY <1>3, <1>4 DEF ThreadInv

(* A request goes on within Verify. *)
LEMMA ProceedsInv ==
  ASSUME IInv, NEW t \in Thread, NEW p \in {"limit", "fetch", "compare", "companion"}, GoTo(t, p),
         pc[t] \in Verification, p = "companion" => task[t].action = "BUSMAP",
         UNCHANGED <<task, ticked, seen, oldest>>,
         t \in repaired' => p = "companion" /\ Repaired(t)'
  PROVE  ThreadInv(t)'
<1>1. /\ task[t].do # "push" /\ oldest'[t] = 0 /\ oldest'[t] <= 1 /\ result[t] = "none"
      /\ ~ (task[t].action = "SEARCH" /\ seen[t] = "fresh")
  BY InVerification
<1>2. pc'[t] = p /\ result' = result
  BY GoToFacts DEF IInv, Place
<1>3. InOrder(t)' /\ WrittenSoFar(t)' /\ ReadsTrusted(t)'
  BY <1>1, <1>2 DEF InOrder, WrittenSoFar, ReadsTrusted, Storing
<1>4. ReadsRepaired(t)'
  BY <1>1, <1>2 DEF ReadsRepaired, Repaired
<1> QED BY <1>3, <1>4 DEF ThreadInv

(* Verify. *)

LEMMA NotRepaired ==
  ASSUME IInv, NEW t \in Thread, pc[t] \in {"store", "lookup", "slot", "limit", "fetch", "compare", "repair"}
  PROVE  t \notin repaired
BY DEF IInv, ThreadInv, ReadsRepaired

LEMMA ReturnedSlot ==
  ASSUME TypeOK, SlotsInUse, NEW t \in Thread, Returned(t)
  PROVE  /\ pc[t] \notin SlotPlace /\ slots' = slots => SlotsInUse'
         /\ pc[t] \in SlotPlace /\ slots' = slots - 1 => SlotsInUse' /\ slots' \in 0 .. MaxSlots
<1>1. PICK p \in {"idle", "again", "stage"} : pc' = [pc EXCEPT ![t] = p]
  BY DEF Returned
<1>2. p \in Place \ SlotPlace
  BY DEF Place, SlotPlace
<1> QED BY <1>1, <1>2, SlotKept, SlotFreed

LEMMA AcquireSlotInv ==
  ASSUME IInv, NEW t \in Thread, AcquireSlot(t) PROVE IInv'
<1>1. /\ TypeOK /\ SlotsInUse /\ pc[t] = "slot" /\ t \notin repaired
      /\ UNCHANGED <<cache, task, todo, ticked, repaired, seen, oldest, calls, faults>>
  BY NotRepaired DEF IInv, AcquireSlot
<1>2. CacheInv' /\ NoWorse
  BY <1>1, InvCache, Unwritten
<1>3. CASE slots < MaxSlots /\ slots' = slots + 1 /\ GoTo(t, "limit")
  <2>1. "limit" \in Place /\ "limit" \in SlotPlace /\ pc[t] \notin SlotPlace
    BY <1>1 DEF Place, SlotPlace
  <2>2. /\ pc' = [pc EXCEPT ![t] = "limit"] /\ pc' \in [Thread -> Place]
        /\ result' \in [Thread -> Answer]
        /\ \A d \in Thread \ {t} : pc'[d] = pc[d] /\ result'[d] = result[d]
    BY <1>1, <1>3, <2>1, GoToFacts
  <2>3. SlotsInUse'
    BY <1>1, <1>3, <2>1, <2>2, SlotTaken
  <2>4. slots' \in 0 .. MaxSlots
    BY <1>1, <1>3, CacheAssumption DEF TypeOK
  <2>5. TypeOK'
    BY <1>1, <1>2, <2>2, <2>4, TypeStep DEF TypeOK
  <2>6. ThreadInv(t)'
    BY <1>1, <1>3, ProceedsInv DEF Verification
  <2>7. Alone(t)
    BY <1>1, <2>2 DEF Alone
  <2> QED BY <1>2, <2>3, <2>5, <2>6, <2>7, StepInv
<1>4. CASE VerifyReturns(t, FALSE) /\ UNCHANGED slots
  <2>1. Returned(t)
    BY <1>1, <1>4, VerifyReturnsFacts
  <2>2. SlotsInUse'
    BY <1>1, <1>4, <2>1, ReturnedSlot DEF SlotPlace
  <2>3. TypeOK'
    BY <1>1, <1>2, <1>4, <2>1, TypeStep DEF TypeOK, Returned
  <2>4. ThreadInv(t)'
    BY <1>1, <2>1, ReturnedInv DEF Verification
  <2>5. Alone(t)
    BY <1>1, <2>1 DEF Alone, Returned
  <2> QED BY <1>2, <2>2, <2>3, <2>4, <2>5, StepInv
<1> QED BY <1>3, <1>4 DEF AcquireSlot

(* A request with a slot goes on with it, or returns it. *)
LEMMA WithSlotInv ==
  ASSUME IInv, NEW t \in Thread, pc[t] \in {"limit", "fetch"}, NEW p \in {"fetch", "compare"},
         (GoTo(t, p) /\ UNCHANGED slots) \/ (VerifyReturns(t, FALSE) /\ slots' = slots - 1),
         UNCHANGED <<cache, task, todo, ticked, repaired, seen, oldest, calls, faults>>
  PROVE  IInv'
<1>1. TypeOK /\ SlotsInUse /\ t \notin repaired /\ pc[t] \in SlotPlace /\ pc[t] \in Verification
  BY NotRepaired DEF IInv, SlotPlace, Verification
<1>2. CacheInv' /\ NoWorse
  BY InvCache, Unwritten
<1>3. CASE GoTo(t, p) /\ UNCHANGED slots
  <2>1. p \in Place /\ p \in SlotPlace
    BY DEF Place, SlotPlace
  <2>2. /\ pc' = [pc EXCEPT ![t] = p] /\ pc' \in [Thread -> Place]
        /\ result' \in [Thread -> Answer]
        /\ \A d \in Thread \ {t} : pc'[d] = pc[d] /\ result'[d] = result[d]
    BY <1>1, <1>3, <2>1, GoToFacts
  <2>3. SlotsInUse'
    BY <1>1, <1>3, <2>1, <2>2, SlotKept
  <2>4. TypeOK'
    BY <1>1, <1>2, <1>3, <2>2, TypeStep DEF TypeOK
  <2>5. ThreadInv(t)'
    BY <1>1, <1>3, ProceedsInv
  <2>6. Alone(t)
    BY <2>2 DEF Alone
  <2> QED BY <1>2, <2>3, <2>4, <2>5, <2>6, StepInv
<1>4. CASE VerifyReturns(t, FALSE) /\ slots' = slots - 1
  <2>1. Returned(t)
    BY <1>1, <1>4, VerifyReturnsFacts
  <2>2. SlotsInUse' /\ slots' \in 0 .. MaxSlots
    BY <1>1, <1>4, <2>1, ReturnedSlot
  <2>3. TypeOK'
    BY <1>1, <1>2, <2>1, <2>2, TypeStep DEF TypeOK, Returned
  <2>4. ThreadInv(t)'
    BY <1>1, <2>1, ReturnedInv
  <2>5. Alone(t)
    BY <2>1 DEF Alone, Returned
  <2> QED BY <1>2, <2>2, <2>3, <2>4, <2>5, StepInv
<1> QED BY <1>3, <1>4

LEMMA RateLimitInv == ASSUME IInv, NEW t \in Thread, RateLimit(t) PROVE IInv'
<1>1. /\ pc[t] \in {"limit", "fetch"} /\ "fetch" \in {"fetch", "compare"}
      /\ (GoTo(t, "fetch") /\ UNCHANGED slots) \/ (VerifyReturns(t, FALSE) /\ slots' = slots - 1)
      /\ UNCHANGED <<cache, task, todo, ticked, repaired, seen, oldest, calls, faults>>
  BY DEF RateLimit
<1> QED BY <1>1, WithSlotInv

LEMMA FetchInv == ASSUME IInv, NEW t \in Thread, Fetch(t) PROVE IInv'
<1>1. /\ pc[t] \in {"limit", "fetch"} /\ "compare" \in {"fetch", "compare"}
      /\ (GoTo(t, "compare") /\ UNCHANGED slots) \/ (VerifyReturns(t, FALSE) /\ slots' = slots - 1)
      /\ UNCHANGED <<cache, task, todo, ticked, repaired, seen, oldest, calls, faults>>
  BY DEF Fetch
<1> QED BY <1>1, WithSlotInv

(* A request begins to store what it fetched. *)
LEMMA StoringInv ==
  ASSUME IInv, NEW t \in Thread, NEW p \in {"repair", "companion repair"}, GoTo(t, p),
         NEW stored \in Action, todo' = [todo EXCEPT ![t] = Writes(stored)],
         pc[t] \in Verification, p = "companion repair" => task[t].action = "BUSMAP",
         (p = "repair" /\ task[t].action = "BUSMAP") => stored = "SEARCHBUSMAP",
         ~ (p = "repair" /\ task[t].action = "BUSMAP") => stored = "SEARCH",
         UNCHANGED <<task, ticked, seen, oldest>>,
         t \in repaired' => p = "companion repair" /\ Repaired(t)'
  PROVE  ThreadInv(t)' /\ todo' \in [Thread -> Seq(Document \union {"route"})]
<1>1. /\ task[t].do # "push" /\ oldest'[t] = 0 /\ oldest'[t] <= 1 /\ result[t] = "none"
      /\ ~ (task[t].action = "SEARCH" /\ seen[t] = "fresh")
  BY InVerification
<1>2. pc'[t] = p /\ result' = result
  BY GoToFacts DEF IInv, Place
<1>3. todo'[t] = Writes(stored) /\ todo' \in [Thread -> Seq(Document \union {"route"})]
  BY WritesFacts DEF IInv, TypeOK
<1>4. InOrder(t)'
  <2>1. StoredAction(t)' = stored
    BY <1>2 DEF StoredAction
  <2>2. todo'[t] \in Remaining(StoredAction(t)')
    BY <1>3, <2>1, WritesFacts
  <2> QED BY <1>1, <1>2, <2>2 DEF InOrder
<1>5. WrittenSoFar(t)'
  BY <1>2, <1>3, WritesFacts DEF WrittenSoFar
<1>6. ReadsTrusted(t)'
  BY <1>1, <1>2 DEF ReadsTrusted
<1>7. ReadsRepaired(t)'
  BY <1>1, <1>2 DEF ReadsRepaired, Repaired
<1> QED BY <1>3, <1>4, <1>5, <1>6, <1>7 DEF ThreadInv

LEMMA CompareInv ==
  ASSUME IInv, NEW t \in Thread, Compare(t) PROVE IInv'
<1>1. /\ TypeOK /\ SlotsInUse /\ pc[t] = "compare" /\ t \notin repaired
      /\ UNCHANGED <<age, updated, task, ticked, repaired, seen, oldest, calls, faults>>
      /\ slots' = slots - 1 /\ pc[t] \in SlotPlace /\ pc[t] \in Verification
      /\ task[t].action \in Action
  BY NotRepaired DEF IInv, Compare, SlotPlace, Verification, TypeOK, Task
<1>2. CacheInv' /\ NoWorse
  <2>1. PICK renewed \in SUBSET CachedCopy(t) :
          ttl' = [d \in Document |-> IF d \in renewed /\ ttl[d] > 0 THEN Retention[d] ELSE ttl[d]]
    BY DEF Compare
  <2>2. ttl \in [Document -> Nat]
    BY <1>1 DEF TypeOK
  <2>3. ttl' \in [Document -> Nat]
    BY <2>1, <2>2, RetentionFacts
  <2>4. \A d \in Document : ttl'[d] = ttl[d] \/ (ttl[d] > 0 /\ ttl'[d] = Retention[d])
    BY <2>1
  <2> QED BY <1>1, <2>3, <2>4, InvCache, Renewed
<1>3. CASE GoTo(t, "repair") /\ todo' = [todo EXCEPT ![t] = RepairWrites(task[t].action)]
  <2>1. "repair" \in Place /\ "repair" \notin SlotPlace
    BY DEF Place, SlotPlace
  <2>2. /\ pc' = [pc EXCEPT ![t] = "repair"] /\ pc' \in [Thread -> Place]
        /\ result' \in [Thread -> Answer]
        /\ \A d \in Thread \ {t} : pc'[d] = pc[d] /\ result'[d] = result[d]
    BY <1>1, <1>3, <2>1, GoToFacts
  <2>3. SlotsInUse' /\ slots' \in 0 .. MaxSlots
    BY <1>1, <2>1, <2>2, SlotFreed
  <2> DEFINE a == IF task[t].action = "BUSMAP" THEN "SEARCHBUSMAP" ELSE "SEARCH"
  <2>4. task[t].action # "SEARCHBUSMAP"
    BY <1>1 DEF IInv, ThreadInv, InOrder, TypeOK, Task
  <2>5. RepairWrites(task[t].action) = Writes(a) /\ a \in Action
    BY <1>1, <2>4 DEF RepairWrites, Action
  <2>6. ThreadInv(t)' /\ todo' \in [Thread -> Seq(Document \union {"route"})]
    <3>1. todo' = [todo EXCEPT ![t] = Writes(a)]
      BY <1>3, <2>5
    <3> HIDE DEF a
    <3>2. a = IF task[t].action = "BUSMAP" THEN "SEARCHBUSMAP" ELSE "SEARCH"
      BY DEF a
    <3> QED BY <1>1, <1>3, <2>5, <3>1, <3>2, StoringInv
  <2>7. TypeOK'
    BY <1>1, <1>2, <2>2, <2>3, <2>6, TypeStep DEF TypeOK
  <2>8. Alone(t)
    BY <1>1, <1>3, <2>2 DEF Alone, TypeOK
  <2> QED BY <1>2, <2>3, <2>6, <2>7, <2>8, StepInv
<1>4. CASE task[t].action = "BUSMAP" /\ GoTo(t, "companion") /\ UNCHANGED todo
  <2>1. "companion" \in Place /\ "companion" \notin SlotPlace
    BY DEF Place, SlotPlace
  <2>2. /\ pc' = [pc EXCEPT ![t] = "companion"] /\ pc' \in [Thread -> Place]
        /\ result' \in [Thread -> Answer]
        /\ \A d \in Thread \ {t} : pc'[d] = pc[d] /\ result'[d] = result[d]
    BY <1>1, <1>4, <2>1, GoToFacts
  <2>3. SlotsInUse' /\ slots' \in 0 .. MaxSlots
    BY <1>1, <2>1, <2>2, SlotFreed
  <2>4. ThreadInv(t)'
    BY <1>1, <1>4, ProceedsInv
  <2>5. TypeOK'
    BY <1>1, <1>2, <1>4, <2>2, <2>3, TypeStep DEF TypeOK
  <2>6. Alone(t)
    BY <1>1, <1>4, <2>2 DEF Alone
  <2> QED BY <1>2, <2>3, <2>4, <2>5, <2>6, StepInv
<1>5. CASE VerifyReturns(t, TRUE) /\ UNCHANGED todo
  <2>1. Returned(t)
    BY <1>1, <1>5, VerifyReturnsFacts
  <2>2. SlotsInUse' /\ slots' \in 0 .. MaxSlots
    BY <1>1, <2>1, ReturnedSlot
  <2>3. TypeOK'
    BY <1>1, <1>2, <1>5, <2>1, <2>2, TypeStep DEF TypeOK, Returned
  <2>4. ThreadInv(t)'
    BY <1>1, <2>1, ReturnedInv
  <2>5. Alone(t)
    BY <1>1, <1>5, <2>1 DEF Alone, Returned
  <2> QED BY <1>2, <2>2, <2>3, <2>4, <2>5, StepInv
<1> QED BY <1>3, <1>4, <1>5 DEF Compare

LEMMA CompanionInv ==
  ASSUME IInv, NEW t \in Thread, Companion(t) PROVE IInv'
<1>1. /\ TypeOK /\ SlotsInUse /\ pc[t] = "companion" /\ task[t].action = "BUSMAP"
      /\ UNCHANGED <<cache, slots, task, ticked, repaired, seen, oldest, calls, faults>>
      /\ pc[t] \notin SlotPlace /\ pc[t] \in Verification
  BY DEF IInv, Companion, SlotPlace, Verification, ThreadInv, InOrder
<1>2. CacheInv' /\ NoWorse
  BY <1>1, InvCache, Unwritten
<1>3. t \in repaired' => Repaired(t)'
  <2>1. t \in repaired => Repaired(t)
    BY <1>1 DEF IInv, ThreadInv, ReadsRepaired
  <2> QED BY <1>1, <1>2, <2>1, InvCache, StillThere DEF Repaired, Document
<1>4. CASE GoTo(t, "companion repair") /\ todo' = [todo EXCEPT ![t] = Writes("SEARCH")]
  <2>1. "companion repair" \in Place /\ "companion repair" \notin SlotPlace
    BY DEF Place, SlotPlace
  <2>2. /\ pc' = [pc EXCEPT ![t] = "companion repair"] /\ pc' \in [Thread -> Place]
        /\ result' \in [Thread -> Answer]
        /\ \A d \in Thread \ {t} : pc'[d] = pc[d] /\ result'[d] = result[d]
    BY <1>1, <1>4, <2>1, GoToFacts
  <2>3. SlotsInUse'
    BY <1>1, <2>1, <2>2, SlotKept
  <2>4. ThreadInv(t)' /\ todo' \in [Thread -> Seq(Document \union {"route"})]
    BY <1>1, <1>3, <1>4, StoringInv DEF Action
  <2>5. TypeOK'
    BY <1>1, <1>2, <2>2, <2>4, TypeStep DEF TypeOK
  <2>6. Alone(t)
    BY <1>1, <1>4, <2>2 DEF Alone, TypeOK
  <2> QED BY <1>2, <2>3, <2>4, <2>5, <2>6, StepInv
<1>5. CASE VerifyReturns(t, TRUE) /\ UNCHANGED todo
  <2>1. Returned(t)
    BY <1>1, <1>5, VerifyReturnsFacts
  <2>2. SlotsInUse'
    BY <1>1, <2>1, ReturnedSlot
  <2>3. TypeOK'
    BY <1>1, <1>2, <1>5, <2>1, TypeStep DEF TypeOK, Returned
  <2>4. ThreadInv(t)'
    BY <1>1, <1>3, <2>1, ReturnedInv
  <2>5. Alone(t)
    BY <1>1, <1>5, <2>1 DEF Alone, Returned
  <2> QED BY <1>2, <2>2, <2>3, <2>4, <2>5, StepInv
<1> QED BY <1>4, <1>5 DEF Companion

(* Reads of the cache. *)

(* Metadata that is not cold vouches for content. *)
LEMMA TierFacts ==
  ASSUME IInv, NEW t \in Thread, updated # NoRow, Tier = "fresh"
  PROVE  Trusted(t, "stage") /\ Trusted(t, "trip")
<1>1. updated \in Nat /\ updated <= ColdAfter
  BY DEF IInv, TypeOK, Tier, OldAge
<1>2. Slack(t) \in Nat
  BY DEF Slack
<1>3. ASSUME NEW d \in {"stage", "trip"} PROVE ttl[d] > 0 /\ age[d] <= ColdAfter + 1
  <2>1. age[d] \in Nat
    BY RetentionFacts DEF IInv, TypeOK, Document, OldAge
  <2>2. ttl[d] > 0 /\ age[d] <= updated + 1
    BY <1>1, RetentionFacts DEF IInv, MetadataBacked
  <2> QED BY <1>1, <2>1, <2>2, RetentionFacts
<1>4. ASSUME NEW d \in {"stage", "trip"} PROVE Trusted(t, d)
  <2>1. age[d] \in Nat
    BY RetentionFacts DEF IInv, TypeOK, Document, OldAge
  <2>2. age[d] <= ColdAfter + 1 + Slack(t)
    BY <1>2, <1>3, <2>1, RetentionFacts
  <2> QED BY <1>3, <2>2 DEF Trusted
<1> QED BY <1>4

LEMMA RepairedStays ==
  ASSUME IInv, NEW t \in Thread, CacheInv', NoWorse, UNCHANGED <<task, ticked>>
  PROVE  /\ Repaired(t) => Repaired(t)'
         /\ \A d \in Document : Trusted(t, d) => Trusted(t, d)'
BY InvCache, StillThere DEF Repaired, Document

LEMMA LookupInv ==
  ASSUME IInv, NEW t \in Thread, Lookup(t) PROVE IInv'
<1>1. /\ TypeOK /\ SlotsInUse /\ pc[t] = "lookup" /\ t \notin repaired /\ pc[t] \notin SlotPlace
      /\ UNCHANGED <<cache, slots, task, todo, ticked, repaired, oldest, calls>>
      /\ task[t].do # "push" /\ oldest[t] = 0 /\ oldest[t] <= ColdAfter + 2 /\ result[t] = "none"
      /\ ~ (task[t].action = "SEARCH" /\ seen[t] = "fresh")
  <2>1. pc[t] = "lookup"
    BY DEF Lookup
  <2>2. oldest[t] = 0
    BY <2>1 DEF IInv, ThreadInv, InOrder
  <2>3. oldest[t] <= ColdAfter + 2
    BY <2>2, RetentionFacts
  <2> QED BY <2>1, <2>2, <2>3, NotRepaired DEF IInv, Lookup, SlotPlace, ThreadInv, InOrder, ReadsTrusted
<1>2. CacheInv' /\ NoWorse
  BY <1>1, InvCache, Unwritten
<1>3. SlotsInUse'
  <2>1. PICK p \in {"idle", "slot", "stage"} : pc' = [pc EXCEPT ![t] = p]
    BY DEF Lookup, GoTo, Return
  <2>2. p \in Place \ SlotPlace
    BY DEF Place, SlotPlace
  <2> QED BY <1>1, <2>1, <2>2, SlotKept
<1>4. ASSUME NEW a \in {"not found", "error"}, Return(t, a), UNCHANGED seen, faults' \in 0 .. MaxFaults
      PROVE  IInv'
  <2>1. a \in Answer
    BY DEF Answer
  <2>2. /\ pc' \in [Thread -> Place] /\ pc'[t] = "idle" /\ result' \in [Thread -> Answer]
        /\ \A d \in Thread \ {t} : pc'[d] = pc[d] /\ result'[d] = result[d]
    BY <1>1, <1>4, <2>1, ReturnFacts
  <2>3. TypeOK'
    BY <1>1, <1>2, <1>4, <2>2, TypeStep DEF TypeOK
  <2>4. ThreadInv(t)'
    BY <1>1, <1>4, <2>2 DEF ThreadInv, InOrder, WrittenSoFar, ReadsTrusted, ReadsRepaired, Storing
  <2>5. Alone(t)
    BY <1>1, <1>4, <2>2 DEF Alone
  <2> QED BY <1>2, <1>3, <2>3, <2>4, <2>5, StepInv
<1>5. ASSUME updated # NoRow, seen' = [seen EXCEPT ![t] = Tier], UNCHANGED faults,
             NEW p \in {"slot", "stage"}, GoTo(t, p), p = "slot" => Tier = "cold"
      PROVE  IInv'
  <2>1. p \in Place
    BY DEF Place
  <2>2. /\ pc' \in [Thread -> Place] /\ pc'[t] = p /\ result' \in [Thread -> Answer] /\ result' = result
        /\ \A d \in Thread \ {t} : pc'[d] = pc[d] /\ result'[d] = result[d]
    BY <1>1, <1>5, <2>1, GoToFacts
  <2>3. seen' \in [Thread -> {"none", "fresh", "cold"}] /\ seen'[t] = Tier
    BY <1>1, <1>5 DEF TypeOK, Tier
  <2>4. TypeOK'
    BY <1>1, <1>2, <1>5, <2>2, <2>3, TypeStep DEF TypeOK
  <2>5. InOrder(t)' /\ WrittenSoFar(t)' /\ ReadsRepaired(t)'
    BY <1>1, <2>2 DEF InOrder, WrittenSoFar, ReadsRepaired, Storing
  <2>6. ReadsTrusted(t)'
    <3>1. Tier = "fresh" => Trusted(t, "stage")' /\ Trusted(t, "trip")'
      BY <1>1, <1>2, <1>5, TierFacts, RepairedStays DEF Document
    <3>2. Tier = "fresh" => p = "stage"
      BY <1>5
    <3> QED BY <1>1, <2>2, <2>3, <3>1, <3>2 DEF ReadsTrusted
  <2>7. Alone(t)
    BY <1>1, <1>5, <2>2 DEF Alone, TypeOK
  <2> QED BY <1>2, <1>3, <2>4, <2>5, <2>6, <2>7, StepInv DEF ThreadInv
<1>6. faults \in 0 .. MaxFaults
  BY <1>1 DEF TypeOK
<1> QED BY <1>1, <1>4, <1>5, <1>6, FaultFacts DEF Lookup

LEMMA LookupAgainInv ==
  ASSUME IInv, NEW t \in Thread, LookupAgain(t) PROVE IInv'
<1>1. /\ TypeOK /\ SlotsInUse /\ pc[t] = "again" /\ pc[t] \notin SlotPlace /\ GoTo(t, "stage")
      /\ UNCHANGED <<cache, slots, task, todo, ticked, repaired, oldest, calls>>
      /\ task[t].do # "push" /\ oldest[t] = 0 /\ oldest[t] <= ColdAfter + 2 /\ oldest[t] <= 1
      /\ result[t] = "none"
      /\ ~ (task[t].action = "SEARCH" /\ seen[t] = "fresh")
  <2>1. pc[t] = "again"
    BY DEF LookupAgain
  <2>2. oldest[t] = 0
    BY <2>1 DEF IInv, ThreadInv, InOrder
  <2>3. oldest[t] <= ColdAfter + 2 /\ oldest[t] <= 1
    BY <2>2, RetentionFacts
  <2> QED BY <2>1, <2>2, <2>3 DEF IInv, LookupAgain, SlotPlace, ThreadInv, InOrder, ReadsTrusted
<1>2. CacheInv' /\ NoWorse
  BY <1>1, InvCache, Unwritten
<1>3. "stage" \in Place /\ "stage" \notin SlotPlace
  BY DEF Place, SlotPlace
<1>4. /\ pc' = [pc EXCEPT ![t] = "stage"] /\ pc' \in [Thread -> Place] /\ pc'[t] = "stage"
      /\ result' \in [Thread -> Answer] /\ result' = result
      /\ \A d \in Thread \ {t} : pc'[d] = pc[d] /\ result'[d] = result[d]
  BY <1>1, <1>3, GoToFacts
<1>5. SlotsInUse'
  BY <1>1, <1>3, <1>4, SlotKept
<1>6. /\ seen' \in [Thread -> {"none", "fresh", "cold"}]
      /\ seen'[t] = seen[t] \/ (updated # NoRow /\ seen'[t] = Tier)
      /\ \A d \in Thread \ {t} : seen'[d] = seen[d]
  BY <1>1 DEF LookupAgain, TypeOK, Tier
<1>7. faults' \in 0 .. MaxFaults
  BY <1>1, FaultFacts DEF LookupAgain, TypeOK
<1>8. TypeOK'
  BY <1>1, <1>2, <1>4, <1>6, <1>7, TypeStep DEF TypeOK
<1>9. InOrder(t)' /\ WrittenSoFar(t)'
  BY <1>1, <1>4 DEF InOrder, WrittenSoFar, Storing
<1>10. ReadsRepaired(t)'
  <2>1. t \in repaired => Repaired(t)
    BY <1>1 DEF IInv, ThreadInv, ReadsRepaired
  <2> QED BY <1>1, <1>2, <1>4, <2>1, RepairedStays DEF ReadsRepaired
<1>11. ReadsTrusted(t)'
  <2>1. CASE seen'[t] = seen[t]
    BY <1>1, <2>1 DEF ReadsTrusted
  <2>2. CASE updated # NoRow /\ seen'[t] = Tier
    <3>1. Tier = "fresh" => Trusted(t, "stage")' /\ Trusted(t, "trip")'
      BY <1>1, <1>2, <2>2, TierFacts, RepairedStays DEF Document
    <3> QED BY <1>1, <1>4, <2>2, <3>1 DEF ReadsTrusted
  <2> QED BY <1>6, <2>1, <2>2
<1>12. Alone(t)
  BY <1>1, <1>4, <1>6 DEF Alone
<1> QED BY <1>2, <1>5, <1>8, <1>9, <1>10, <1>11, <1>12, StepInv DEF ThreadInv

(* What reading document d tells. *)
LEMMA ReadFacts ==
  ASSUME IInv, NEW t \in Thread, NEW d \in Document, pc[t] = d, NEW e \in Document \union {"idle"},
         Read(t, d, IF e = "idle" THEN Return(t, "served") ELSE GoTo(t, e))
  PROVE  /\ CacheInv' /\ NoWorse
         /\ UNCHANGED <<slots, task, todo, ticked, repaired, seen, calls>>
         /\ faults' \in 0 .. MaxFaults
         /\ oldest' \in [Thread -> 0 .. OldAge]
         /\ \A u \in Thread \ {t} : oldest'[u] = oldest[u]
         /\ \A n \in Nat : oldest[t] <= n /\ age[d] <= n => oldest'[t] <= n
         /\ \/ ttl[d] = 0 /\ Return(t, "not found")
            \/ Return(t, "error")
            \/ ttl[d] > 0 /\ (IF e = "idle" THEN Return(t, "served") ELSE GoTo(t, e))
<1>1. TypeOK /\ UNCHANGED <<age, updated, slots, task, todo, ticked, repaired, seen, calls>>
  BY DEF IInv, Read
<1>2. ttl' = ttl \/ (ttl[d] > 0 /\ ttl' = [ttl EXCEPT ![d] = Retention[d]])
  BY DEF Read
<1>3. ttl' \in [Document -> Nat] /\ \A k \in Document : ttl'[k] = ttl[k] \/ (ttl[k] > 0 /\ ttl'[k] = Retention[k])
  <2>1. ttl \in [Document -> Nat] /\ Retention[d] \in Nat
    BY <1>1, RetentionFacts DEF TypeOK
  <2> QED BY <1>2, <2>1
<1>4. CacheInv' /\ NoWorse
  BY <1>1, <1>3, InvCache, Renewed
<1>5. faults' \in 0 .. MaxFaults
  <2>1. faults' = faults \/ Fault
    BY DEF Read
  <2> QED BY <1>1, <2>1, FaultFacts DEF TypeOK
<1>6. oldest' = oldest \/ oldest' = [oldest EXCEPT ![t] = IF age[d] > @ THEN age[d] ELSE @]
  BY DEF Read
<1>7. oldest \in [Thread -> 0 .. OldAge] /\ age[d] \in 0 .. OldAge
  BY <1>1 DEF TypeOK
<1>8. /\ oldest' \in [Thread -> 0 .. OldAge]
      /\ \A u \in Thread \ {t} : oldest'[u] = oldest[u]
      /\ oldest'[t] = oldest[t] \/ oldest'[t] = age[d]
  BY <1>6, <1>7
<1>9. \A n \in Nat : oldest[t] <= n /\ age[d] <= n => oldest'[t] <= n
  BY <1>8
<1>10. \/ ttl[d] = 0 /\ Return(t, "not found")
       \/ Return(t, "error")
       \/ ttl[d] > 0 /\ (IF e = "idle" THEN Return(t, "served") ELSE GoTo(t, e))
  BY DEF Read
<1> QED BY <1>1, <1>4, <1>5, <1>8, <1>9, <1>10

(* A read of a document that ends the request, or goes on to the next.      *)
LEMMA ReadInv ==
  ASSUME IInv, NEW t \in Thread, NEW d \in Document, pc[t] = d,
         NEW e \in Document \union {"idle"}, d = "stage" <=> e # "idle",
         d = "stage" /\ task[t].action = "SEARCH" => e = "trip",
         d = "stage" /\ task[t].action # "SEARCH" => e = "busmap" /\ task[t].action = "BUSMAP",
         Read(t, d, IF e = "idle" THEN Return(t, "served") ELSE GoTo(t, e))
  PROVE  IInv'
<1>1. /\ TypeOK /\ SlotsInUse /\ ThreadInv(t) /\ pc[t] \notin SlotPlace
      /\ task[t].do # "push" /\ task[t].action \in Action /\ result[t] = "none"
      /\ pc[t] # "idle" /\ pc[t] \notin Storing /\ pc[t] \in Document
  BY DEF IInv, ThreadInv, InOrder, SlotPlace, Document, TypeOK, Task, Storing
<1>2. /\ CacheInv' /\ NoWorse
      /\ UNCHANGED <<slots, task, todo, ticked, repaired, seen, calls>>
      /\ faults' \in 0 .. MaxFaults
      /\ oldest' \in [Thread -> 0 .. OldAge]
      /\ \A u \in Thread \ {t} : oldest'[u] = oldest[u]
      /\ \A n \in Nat : oldest[t] <= n /\ age[d] <= n => oldest'[t] <= n
      /\ \/ ttl[d] = 0 /\ Return(t, "not found")
         \/ Return(t, "error")
         \/ ttl[d] > 0 /\ (IF e = "idle" THEN Return(t, "served") ELSE GoTo(t, e))
  BY ReadFacts
<1>3. PICK p \in Place \ SlotPlace :
        /\ pc' = [pc EXCEPT ![t] = p] /\ pc' \in [Thread -> Place] /\ pc'[t] = p
        /\ p = "idle" \/ (p = e /\ result'[t] = "none")
        /\ result' \in [Thread -> Answer]
        /\ result'[t] = "not found" => ttl[d] = 0
        /\ \A u \in Thread \ {t} : pc'[u] = pc[u] /\ result'[u] = result[u]
  <2>1. "idle" \in Place \ SlotPlace /\ Document \subseteq Place \ SlotPlace
    BY DEF Place, SlotPlace, Document
  <2>2. ASSUME NEW a \in {"not found", "error", "served"}, Return(t, a), a = "not found" => ttl[d] = 0
        PROVE  /\ pc' = [pc EXCEPT ![t] = "idle"] /\ pc' \in [Thread -> Place] /\ pc'[t] = "idle"
               /\ result' \in [Thread -> Answer]
               /\ result'[t] = "not found" => ttl[d] = 0
               /\ \A u \in Thread \ {t} : pc'[u] = pc[u] /\ result'[u] = result[u]
    <3>1. a \in Answer
      BY DEF Answer
    <3> QED BY <1>1, <2>2, <3>1, ReturnFacts
  <2>3. ASSUME e # "idle", GoTo(t, e)
        PROVE  /\ pc' = [pc EXCEPT ![t] = e] /\ pc' \in [Thread -> Place] /\ pc'[t] = e
               /\ result' \in [Thread -> Answer] /\ result'[t] = "none"
               /\ \A u \in Thread \ {t} : pc'[u] = pc[u] /\ result'[u] = result[u]
    <3>1. e \in Place
      BY <2>1
    <3> QED BY <1>1, <2>3, <3>1, GoToFacts
  <2>4. (Return(t, "not found") /\ ttl[d] = 0) \/ Return(t, "error") \/ Return(t, "served")
        \/ (e # "idle" /\ GoTo(t, e))
    BY <1>2
  <2> QED BY <2>1, <2>2, <2>3, <2>4
<1>4. SlotsInUse'
  BY <1>1, <1>2, <1>3, SlotKept
<1>5. TypeOK'
  BY <1>1, <1>2, <1>3, TypeStep DEF TypeOK
<1>6. Alone(t)
  BY <1>2, <1>3 DEF Alone
<1>7. InOrder(t)' /\ WrittenSoFar(t)'
  BY <1>1, <1>2, <1>3 DEF InOrder, WrittenSoFar, Storing, Document
<1>8. ASSUME task[t].action = "SEARCH", seen[t] = "fresh"
      PROVE  /\ pc'[t] \in {"idle", "trip"}
             /\ pc'[t] = "trip" => Trusted(t, "trip")'
             /\ result'[t] # "not found" /\ oldest'[t] <= ColdAfter + 2
  <2>1. /\ pc[t] \in {"stage", "trip"} /\ Trusted(t, d) /\ oldest[t] <= ColdAfter + 2
        /\ pc[t] = "stage" => Trusted(t, "trip")
    BY <1>1, <1>8 DEF ThreadInv, InOrder, ReadsTrusted, Document
  <2>2. ttl[d] # 0 /\ age[d] <= ColdAfter + 2
    <3>1. Slack(t) \in {0, 1}
      BY DEF Slack
    <3>2. ttl[d] \in Nat /\ age[d] \in Nat /\ ColdAfter \in Nat
      BY <1>1, RetentionFacts DEF TypeOK, OldAge
    <3> QED BY <2>1, <3>1, <3>2 DEF Trusted
  <2>3. ColdAfter + 2 \in Nat
    BY RetentionFacts
  <2>4. pc[t] = "stage" => Trusted(t, "trip")'
    BY <1>2, <2>1, RepairedStays DEF Document
  <2>5. oldest'[t] <= ColdAfter + 2
    BY <1>2, <2>1, <2>2, <2>3
  <2>6. result'[t] # "not found"
    BY <1>3, <2>2
  <2> QED BY <1>3, <1>8, <2>1, <2>4, <2>5, <2>6
<1>9. ReadsTrusted(t)'
  BY <1>2, <1>8 DEF ReadsTrusted
<1>10. ASSUME t \in repaired
       PROVE  Repaired(t)' /\ result'[t] # "not found" /\ oldest'[t] <= 1
  <2>1. Repaired(t) /\ oldest[t] <= 1 /\ Recent(t, d)
    BY <1>1, <1>10 DEF ThreadInv, InOrder, ReadsRepaired, Repaired, Document
  <2>2. ttl[d] # 0 /\ age[d] <= 1
    <3>1. Slack(t) \in {0, 1}
      BY DEF Slack
    <3>2. ttl[d] \in Nat /\ age[d] \in Nat
      BY <1>1, RetentionFacts DEF TypeOK, OldAge
    <3> QED BY <2>1, <3>1, <3>2 DEF Recent
  <2>3. oldest'[t] <= 1 /\ result'[t] # "not found"
    BY <1>2, <1>3, <2>1, <2>2
  <2> QED BY <1>2, <2>1, <2>3, RepairedStays
<1>11. ReadsRepaired(t)'
  BY <1>2, <1>3, <1>10 DEF ReadsRepaired, Document
<1> QED BY <1>2, <1>4, <1>5, <1>6, <1>7, <1>9, <1>11, StepInv DEF ThreadInv

LEMMA ReadStageInv == ASSUME IInv, NEW t \in Thread, ReadStage(t) PROVE IInv'
<1>1. /\ pc[t] = "stage" /\ task[t].action \in {"SEARCH", "BUSMAP"} /\ "stage" \in Document
  <2>1. pc[t] = "stage"
    BY DEF ReadStage, Read
  <2>2. task[t].do # "push" /\ task[t] \in Task
    BY <2>1 DEF IInv, ThreadInv, InOrder, TypeOK
  <2> QED BY <2>1, <2>2 DEF Task, Action, Document
<1>2. CASE task[t].action = "SEARCH"
  <2>1. Read(t, "stage", IF "trip" = "idle" THEN Return(t, "served") ELSE GoTo(t, "trip"))
    BY <1>2 DEF ReadStage
  <2> QED BY <1>1, <1>2, <2>1, ReadInv DEF Document
<1>3. CASE task[t].action = "BUSMAP"
  <2>1. Read(t, "stage", IF "busmap" = "idle" THEN Return(t, "served") ELSE GoTo(t, "busmap"))
    BY <1>3 DEF ReadStage
  <2> QED BY <1>1, <1>3, <2>1, ReadInv DEF Document
<1> QED BY <1>1, <1>2, <1>3

LEMMA ReadTripInv == ASSUME IInv, NEW t \in Thread, ReadTrip(t) PROVE IInv'
<1>1. Read(t, "trip", IF "idle" = "idle" THEN Return(t, "served") ELSE GoTo(t, "idle"))
  BY DEF ReadTrip
<1> QED BY <1>1, ReadInv DEF Document, Read

LEMMA ReadBusMapInv == ASSUME IInv, NEW t \in Thread, ReadBusMap(t) PROVE IInv'
<1>1. Read(t, "busmap", IF "idle" = "idle" THEN Return(t, "served") ELSE GoTo(t, "idle"))
  BY DEF ReadBusMap
<1> QED BY <1>1, ReadInv DEF Document, Read

(* Store. *)

LEMMA StoreReturnsInv ==
  ASSUME IInv, NEW t \in Thread, pc[t] \in Storing, NEW ok \in BOOLEAN, StoreReturns(t, ok),
         CacheInv', NoWorse, faults' \in 0 .. MaxFaults,
         UNCHANGED <<slots, task, ticked, seen, oldest, calls>>,
         ok /\ pc[t] = "repair" => Repaired(t)'
  PROVE  IInv'
<1>1. /\ TypeOK /\ SlotsInUse /\ ThreadInv(t) /\ pc[t] \notin SlotPlace
  BY DEF IInv, Storing, SlotPlace
<1>2. /\ todo' = [todo EXCEPT ![t] = <<>>]
      /\ repaired' = repaired \/ (ok /\ pc[t] = "repair" /\ repaired' = repaired \union {t})
  BY DEF StoreReturns
<1>3. /\ todo' \in [Thread -> Seq(Document \union {"route"})]
      /\ \A d \in Thread \ {t} : todo'[d] = todo[d]
      /\ repaired' \subseteq Thread /\ \A d \in Thread \ {t} : (d \in repaired') <=> (d \in repaired)
  <2>1. <<>> \in Seq(Document \union {"route"})
    OBVIOUS
  <2> QED BY <1>1, <1>2, <2>1 DEF TypeOK
<1>4. t \in repaired' => Repaired(t)'
  <2>1. t \in repaired => Repaired(t)
    BY <1>1 DEF ThreadInv, ReadsRepaired, Storing
  <2> QED BY <1>2, <2>1, RepairedStays
<1>5. CASE pc[t] = "store"
  <2>1. PICK a \in {"stored", "error"} : Return(t, a)
    BY <1>5 DEF StoreReturns
  <2>2. a \in Answer
    BY DEF Answer
  <2>3. /\ pc' = [pc EXCEPT ![t] = "idle"] /\ pc' \in [Thread -> Place] /\ pc'[t] = "idle"
        /\ result' \in [Thread -> Answer] /\ result'[t] = a
        /\ \A d \in Thread \ {t} : pc'[d] = pc[d] /\ result'[d] = result[d]
    BY <1>1, <2>1, <2>2, ReturnFacts
  <2>4. "idle" \in Place /\ "idle" \notin SlotPlace
    BY DEF Place, SlotPlace
  <2>5. SlotsInUse'
    BY <1>1, <2>3, <2>4, SlotKept
  <2>6. TypeOK'
    BY <1>1, <1>3, <2>3, TypeStep DEF TypeOK
  <2>7. t \notin repaired' /\ ~ (task[t].action = "SEARCH" /\ seen[t] = "fresh")
    BY <1>1, <1>2, <1>5, NotRepaired DEF ThreadInv, ReadsTrusted
  <2>8. ThreadInv(t)'
    BY <2>3, <2>7 DEF ThreadInv, InOrder, WrittenSoFar, ReadsTrusted, ReadsRepaired, Storing
  <2>9. Alone(t)
    BY <1>3, <2>3 DEF Alone
  <2> QED BY <2>5, <2>6, <2>8, <2>9, StepInv
<1>6. CASE pc[t] = "repair" /\ task[t].action = "BUSMAP"
  <2>1. GoTo(t, "companion") /\ pc[t] \in Verification
    BY <1>6 DEF StoreReturns, Verification
  <2>2. "companion" \in Place /\ "companion" \notin SlotPlace
    BY DEF Place, SlotPlace
  <2>3. /\ pc' = [pc EXCEPT ![t] = "companion"] /\ pc' \in [Thread -> Place]
        /\ result' \in [Thread -> Answer]
        /\ \A d \in Thread \ {t} : pc'[d] = pc[d] /\ result'[d] = result[d]
    BY <1>1, <2>1, <2>2, GoToFacts
  <2>4. SlotsInUse'
    BY <1>1, <2>2, <2>3, SlotKept
  <2>5. TypeOK'
    BY <1>1, <1>3, <2>3, TypeStep DEF TypeOK
  <2>6. ThreadInv(t)'
    BY <1>4, <1>6, <2>1, ProceedsInv
  <2>7. Alone(t)
    BY <1>3, <2>3 DEF Alone
  <2> QED BY <2>4, <2>5, <2>6, <2>7, StepInv
<1>7. CASE pc[t] # "store" /\ ~ (pc[t] = "repair" /\ task[t].action = "BUSMAP")
  <2>1. VerifyReturns(t, TRUE) /\ pc[t] \in Verification
    BY <1>7 DEF StoreReturns, Storing, Verification
  <2>2. Returned(t)
    BY <1>1, <2>1, VerifyReturnsFacts
  <2>3. SlotsInUse'
    BY <1>1, <2>2, ReturnedSlot
  <2>4. TypeOK'
    BY <1>1, <1>3, <2>2, TypeStep DEF TypeOK, Returned
  <2>5. ThreadInv(t)'
    BY <1>4, <2>1, <2>2, ReturnedInv
  <2>6. Alone(t)
    BY <1>3, <2>2 DEF Alone, Returned
  <2> QED BY <2>3, <2>4, <2>5, <2>6, StepInv
<1> QED BY <1>5, <1>6, <1>7

LEMMA StoreInv ==
  ASSUME IInv, NEW t \in Thread, Store(t) PROVE IInv'
<1>a. PICK s : s = todo[t]
  OBVIOUS
<1>b. PICK h : h = Head(s)
  OBVIOUS
<1>c. PICK w : w = StoredAction(t)
  OBVIOUS
<1>1. /\ TypeOK /\ SlotsInUse /\ ThreadInv(t) /\ pc[t] \in Storing
      /\ UNCHANGED <<slots, task, ticked, seen, oldest, calls>>
  BY DEF IInv, Store, Storing
<1>2. w \in Action /\ s \in Remaining(w)
  BY <1>1, <1>a, <1>c DEF ThreadInv, InOrder, StoredAction, TypeOK, Task, Action
<1>3. /\ h \in Document \union {"route"}
      /\ Tail(s) # <<>> =>
           /\ Tail(s) \in Remaining(w)
           /\ Head(Tail(s)) = "stage" => h = "trip"
           /\ Head(Tail(s)) = "route" => h = "stage"
           /\ Head(Tail(s)) = "busmap" => h = "route"
      /\ Tail(s) = <<>> => h = IF w = "SEARCH" THEN "route" ELSE "busmap"
  BY <1>2, <1>b, WriteOrder
<1>4. /\ h = "stage" => Recent(t, "trip")
      /\ h = "route" \/ (h = "busmap" /\ pc[t] = "repair") => Recent(t, "trip") /\ Recent(t, "stage")
  BY <1>1, <1>a, <1>b DEF ThreadInv, WrittenSoFar
<1>5. ASSUME Write(h)
      PROVE  CacheInv' /\ NoWorse /\ (h # "route" => Recent(t, h)')
             /\ \A d \in Document : Recent(t, d) => Recent(t, d)'
  <2>1. Slack(t) \in {0, 1} /\ Slack(t)' = Slack(t)
    BY <1>1 DEF Slack
  <2>2. h = "route" => \A d \in {"trip", "stage"} : ttl[d] > 0 /\ age[d] <= 1
    <3>1. \A d \in {"trip", "stage"} : age[d] \in Nat
      BY <1>1, RetentionFacts DEF TypeOK, OldAge, Document
    <3> QED BY <1>4, <2>1, <3>1 DEF Recent
  <2>3. CacheInv' /\ NoWorse /\ (h # "route" => ttl'[h] > 0 /\ age'[h] = 0)
    BY <1>3, <1>5, <2>2, InvCache, Written
  <2>4. h # "route" => Recent(t, h)'
    BY <2>1, <2>3 DEF Recent
  <2>5. \A d \in Document : Recent(t, d) => Recent(t, d)'
    BY <1>1, <2>3, InvCache, StillThere
  <2> QED BY <2>3, <2>4, <2>5
<1>6. CASE Write(h) /\ Tail(s) # <<>> /\ todo' = [todo EXCEPT ![t] = Tail(@)]
           /\ UNCHANGED <<pc, repaired, result, faults>>
  <2>1. /\ todo' \in [Thread -> Seq(Document \union {"route"})] /\ todo'[t] = Tail(s)
        /\ \A d \in Thread \ {t} : todo'[d] = todo[d]
    <3>1. Tail(s) \in Seq(Document \union {"route"})
      <4>1. s \in Seq(Document \union {"route"})
        BY <1>1, <1>a DEF TypeOK
      <4>2. s # <<>>
        BY <1>2, WriteOrder
      <4> QED BY <4>1, <4>2
    <3> QED BY <1>1, <1>6, <1>a, <3>1 DEF TypeOK
  <2>2. SlotsInUse'
    BY <1>1, <1>6 DEF SlotsInUse, Verifying
  <2>3. TypeOK'
    BY <1>1, <1>5, <1>6, <2>1, TypeStep DEF TypeOK
  <2>4. InOrder(t)'
    <3>1. todo'[t] \in Remaining(StoredAction(t)')
      BY <1>1, <1>3, <1>6, <1>c, <2>1 DEF StoredAction
    <3> QED BY <1>1, <1>6, <3>1 DEF ThreadInv, InOrder
  <2>5. WrittenSoFar(t)'
    BY <1>1, <1>3, <1>4, <1>5, <1>6, <2>1 DEF WrittenSoFar, Document
  <2>6. ReadsTrusted(t)'
    BY <1>1, <1>6 DEF ThreadInv, ReadsTrusted, Storing
  <2>7. ReadsRepaired(t)'
    BY <1>1, <1>5, <1>6, RepairedStays DEF ThreadInv, ReadsRepaired
  <2>8. Alone(t)
    BY <1>1, <1>6, <2>1 DEF Alone
  <2> QED BY <1>5, <1>6, <2>2, <2>3, <2>4, <2>5, <2>6, <2>7, <2>8, StepInv DEF ThreadInv
<1>7. CASE Write(h) /\ Tail(s) = <<>> /\ StoreReturns(t, TRUE) /\ UNCHANGED faults
  <2>1. ASSUME pc[t] = "repair" PROVE Repaired(t)'
    <3>1. w = IF task[t].action = "BUSMAP" THEN "SEARCHBUSMAP" ELSE "SEARCH"
      BY <1>c, <2>1 DEF StoredAction
    <3>2. h = IF task[t].action = "BUSMAP" THEN "busmap" ELSE "route"
      BY <1>3, <1>7, <3>1
    <3>3. Recent(t, "trip") /\ Recent(t, "stage")
      BY <1>4, <2>1, <3>2
    <3> QED BY <1>1, <1>5, <1>7, <3>2, <3>3 DEF Repaired, Document
  <2>2. faults' \in 0 .. MaxFaults
    BY <1>1, <1>7 DEF TypeOK
  <2> QED BY <1>1, <1>5, <1>7, <2>1, <2>2, StoreReturnsInv
<1>8. CASE Fault /\ (Write(h) \/ UNCHANGED cache) /\ StoreReturns(t, FALSE)
  <2>1. CacheInv' /\ NoWorse
    BY <1>5, <1>8, InvCache, Unwritten
  <2>2. faults' \in 0 .. MaxFaults
    BY <1>1, <1>8, FaultFacts
  <2> QED BY <1>1, <1>8, <2>1, <2>2, StoreReturnsInv
<1> QED BY <1>6, <1>7, <1>8, <1>a, <1>b DEF Store

(* Time. *)

LEMMA TickInv == ASSUME IInv, Tick PROVE IInv'
<1>1. /\ \A t \in ticked : pc[t] = "idle"
      /\ ticked' = {t \in Thread : pc[t] # "idle"}
      /\ UNCHANGED <<slots, pc, local, calls, faults>>
      /\ TypeOK /\ SlotsInUse /\ CacheInv
  BY InvCache DEF IInv, Tick
<1>2. CacheInv'
  BY <1>1, TickedCache
<1>3. TypeOK'
  BY <1>1, <1>2 DEF TypeOK, local, CacheInv, CacheType, OldAge, Retention
<1>4. SlotsInUse'
  BY <1>1 DEF SlotsInUse, Verifying
<1>5. ASSUME NEW t \in Thread, pc[t] # "idle"
      PROVE  \A d \in Document : /\ Recent(t, d) => Recent(t, d)'
                                 /\ d # "busmap" => (Trusted(t, d) => Trusted(t, d)')
  <2>1. Slack(t) = 0 /\ Slack(t)' = 1
    BY <1>1, <1>5 DEF Slack
  <2> SUFFICES ASSUME NEW d \in Document
               PROVE  /\ Recent(t, d) => Recent(t, d)'
                      /\ d # "busmap" => (Trusted(t, d) => Trusted(t, d)')
    OBVIOUS
  <2>2. /\ ttl' = [k \in Document |-> IF ttl[k] > 0 THEN ttl[k] - 1 ELSE 0]
        /\ age' = [k \in Document |-> IF ttl[k] > 1 THEN Older(age[k]) ELSE 0]
    BY DEF Tick
  <2>3. /\ ttl[d] \in Nat /\ age[d] \in Nat /\ Retention[d] \in Nat /\ Retention[d] > 1
        /\ ttl[d] > 0 => age[d] = HotTTL \/ age[d] + ttl[d] >= Retention[d]
    BY <1>1, RetentionFacts DEF CacheInv, CacheType, KeptForRetention, OldAge
  <2>4. ASSUME NEW n \in Nat, n < HotTTL, n + 1 < Retention[d], ttl[d] > 0, age[d] <= n
        PROVE  ttl'[d] > 0 /\ age'[d] <= n + 1
    <3>1. ttl[d] > 1
      BY <2>3, <2>4, RetentionFacts
    <3>a. ttl'[d] = IF ttl[d] > 0 THEN ttl[d] - 1 ELSE 0
      BY <2>2
    <3>b. age'[d] = IF ttl[d] > 1 THEN Older(age[d]) ELSE 0
      BY <2>2
    <3>2. ttl'[d] = ttl[d] - 1 /\ age'[d] = Older(age[d])
      BY <2>4, <3>1, <3>a, <3>b
    <3>3. Older(age[d]) = age[d] + 1
      BY <2>3, <2>4, RetentionFacts DEF Older
    <3> QED BY <2>3, <2>4, <3>1, <3>2, <3>3
  <2>5. Recent(t, d) => Recent(t, d)'
    BY <2>1, <2>3, <2>4, RetentionFacts DEF Recent
  <2>6. ASSUME d # "busmap", Trusted(t, d) PROVE Trusted(t, d)'
    <3>1. Retention[d] = HotTTL
      BY <2>6, RetentionFacts DEF Document
    <3>2. ttl[d] > 0 /\ age[d] <= ColdAfter + 1
      BY <2>1, <2>3, <2>6, RetentionFacts DEF Trusted
    <3>3. ColdAfter + 1 \in Nat /\ ColdAfter + 1 < HotTTL /\ ColdAfter + 1 + 1 < Retention[d]
      BY <3>1, RetentionFacts
    <3>4. ttl'[d] > 0 /\ age'[d] <= ColdAfter + 1 + 1
      BY <2>4, <3>2, <3>3
    <3> QED BY <2>1, <3>4 DEF Trusted
  <2> QED BY <2>5, <2>6
<1>6. ASSUME NEW t \in Thread PROVE ThreadInv(t)'
  <2>1. /\ ThreadInv(t) /\ pc'[t] = pc[t] /\ task'[t] = task[t] /\ todo'[t] = todo[t]
        /\ seen'[t] = seen[t] /\ oldest'[t] = oldest[t] /\ result'[t] = result[t]
        /\ repaired' = repaired
    BY <1>1 DEF IInv, local
  <2>2. CASE pc[t] = "idle"
    BY <2>1, <2>2 DEF ThreadInv, InOrder, WrittenSoFar, ReadsTrusted, ReadsRepaired, Storing
  <2>3. CASE pc[t] # "idle"
    <3>1. InOrder(t)'
      BY <2>1 DEF ThreadInv, InOrder, StoredAction, Remaining, Storing
    <3>2. WrittenSoFar(t)'
      BY <1>5, <2>1, <2>3 DEF ThreadInv, WrittenSoFar, Storing, Document
    <3>3. ReadsTrusted(t)'
      BY <1>5, <2>1, <2>3 DEF ThreadInv, ReadsTrusted, Document
    <3>4. ReadsRepaired(t)'
      BY <1>5, <2>1, <2>3 DEF ThreadInv, ReadsRepaired, Repaired, Document
    <3> QED BY <3>1, <3>2, <3>3, <3>4 DEF ThreadInv
  <2> QED BY <2>2, <2>3
<1> QED BY <1>2, <1>3, <1>4, <1>6 DEF IInv, CacheInv

-----------------------------------------------------------------------------
LEMMA InitInv == Init => IInv
<1> SUFFICES ASSUME Init PROVE IInv
  OBVIOUS
<1>1. 0 \in 0 .. OldAge /\ 0 \in 0 .. MaxSlots /\ 0 \in 0 .. MaxCalls /\ 0 \in 0 .. MaxFaults
  BY CacheAssumption DEF OldAge
<1>2. TypeOK
  <2>1. [do |-> "push", action |-> "SEARCH"] \in Task
    BY DEF Task, Action
  <2>2. <<>> \in Seq(Document \union {"route"})
    OBVIOUS
  <2>3. \A d \in Document : ttl[d] <= Retention[d]
    BY RetentionFacts DEF Init
  <2> QED BY <1>1, <2>1, <2>2, <2>3 DEF Init, TypeOK, Place, Answer
<1>3. SlotsInUse
  <2>1. Verifying = {}
    BY DEF Init, Verifying
  <2> QED BY <2>1, FS_EmptySet DEF Init, SlotsInUse
<1>4. KeptForRetention /\ MetadataBacked
  BY DEF Init, KeptForRetention, MetadataBacked
<1>5. ASSUME NEW t \in Thread PROVE ThreadInv(t)
  <2>1. /\ pc[t] = "idle" /\ task[t] = [do |-> "push", action |-> "SEARCH"] /\ seen[t] = "none"
        /\ t \notin repaired
    BY DEF Init
  <2> QED BY <2>1 DEF ThreadInv, InOrder, WrittenSoFar, ReadsTrusted, ReadsRepaired, Storing
<1> QED BY <1>2, <1>3, <1>4, <1>5 DEF IInv

LEMMA NextInv == IInv /\ [Next]_vars => IInv'
<1> SUFFICES ASSUME IInv, [Next]_vars PROVE IInv'
  OBVIOUS
<1>1. ASSUME NEW t \in Thread, NEW k \in Task, Begin(t, k) PROVE IInv'
  BY <1>1, BeginInv
<1>2. ASSUME NEW t \in Thread, Store(t) PROVE IInv'
  BY <1>2, StoreInv
<1>3. ASSUME NEW t \in Thread, Lookup(t) \/ LookupAgain(t) PROVE IInv'
  BY <1>3, LookupInv, LookupAgainInv
<1>4. ASSUME NEW t \in Thread, ReadStage(t) \/ ReadTrip(t) \/ ReadBusMap(t) PROVE IInv'
  BY <1>4, ReadStageInv, ReadTripInv, ReadBusMapInv
<1>5. ASSUME NEW t \in Thread, Verify(t) PROVE IInv'
  BY <1>5, AcquireSlotInv, RateLimitInv, FetchInv, CompareInv, CompanionInv DEF Verify
<1>6. CASE Tick
  BY <1>6, TickInv
<1>7. CASE UNCHANGED vars
  <2>1. UNCHANGED <<age, ttl, updated, slots, pc, task, todo, ticked, repaired, seen, oldest, result, calls, faults>>
    BY <1>7 DEF vars, cache, local
  <2>2. CacheInv' /\ NoWorse
    BY <2>1, InvCache, Unwritten DEF cache
  <2>3. TypeOK' /\ SlotsInUse'
    BY <2>1 DEF IInv, TypeOK, SlotsInUse, Verifying, OldAge, Retention
  <2>4. \A d \in Thread : ThreadInv(d)'
    BY <2>1, <2>2, InvCache, OtherThread DEF IInv
  <2> QED BY <2>2, <2>3, <2>4 DEF IInv, CacheInv
<1> QED BY <1>1, <1>2, <1>3, <1>4, <1>5, <1>6, <1>7 DEF Next

LEMMA Invariant == Spec => []IInv
BY InitInv, NextInv, PTL DEF Spec

(* The types of the cache model, and slots never exceed their limit. *)
THEOREM TypeCorrect == Spec => []TypeOK
<1>1. IInv => TypeOK
  BY DEF IInv
<1> QED BY <1>1, Invariant, PTL

(* However requests end, the slots in use are those of the requests that     *)
(* call BITS (AcquireSlot and its deferred release).                         *)
THEOREM SlotsReturned == Spec => []SlotsInUse
<1>1. IInv => SlotsInUse
  BY DEF IInv
<1> QED BY <1>1, Invariant, PTL

(* A Search whose metadata is not cold finds content, of the age the         *)
(* metadata tells (storeEntry writes metadata last, and content is kept      *)
(* longer than metadata is trusted).                                         *)
THEOREM TrustedSearchServed == Spec => []TrustedSearchIsServed
<1>1. IInv => TrustedSearchIsServed
  BY DEF IInv, ThreadInv, ReadsTrusted, TrustedSearchIsServed
<1> QED BY <1>1, Invariant, PTL

(* After a refresh that repaired the cache a read is served from the repair  *)
(* (repairCache writes all that the read path needs).                        *)
THEOREM RepairServed == Spec => []RepairIsServed
<1>1. IInv => RepairIsServed
  BY DEF IInv, TypeOK, ThreadInv, ReadsRepaired, RepairIsServed
<1> QED BY <1>1, Invariant, PTL

-----------------------------------------------------------------------------
(* Seat maps.  All that is written of one is its whole retention.            *)

(* Nothing but its own write touches the seat map. *)
SeatMapKept == age'["busmap"] = age["busmap"] /\ ttl'["busmap"] = ttl["busmap"]

LEMMA StoreSeatMap ==
  ASSUME TypeOK, NEW t, Store(t)
  PROVE  SeatMapKept \/ (age'["busmap"] = 0 /\ ttl'["busmap"] = WarmTTL)
<1>1. ASSUME NEW k, Write(k)
      PROVE  SeatMapKept \/ (age'["busmap"] = 0 /\ ttl'["busmap"] = WarmTTL)
  <2>1. CASE k = "busmap"
    BY <1>1, <2>1 DEF Write, Retention, Document, TypeOK
  <2>2. CASE k # "busmap"
    BY <1>1, <2>2 DEF Write, Document, TypeOK, SeatMapKept
  <2> QED BY <2>1, <2>2
<1> QED BY <1>1 DEF Store, cache, SeatMapKept

LEMMA ReadSeatMap ==
  ASSUME TypeOK, NEW t, ReadStage(t) \/ ReadTrip(t) \/ ReadBusMap(t)
  PROVE  SeatMapKept
<1>1. ASSUME NEW d \in Document, NEW step, Read(t, d, step) PROVE SeatMapKept
  BY <1>1 DEF Read, SeatMapKept, TypeOK, Document
<1> QED BY <1>1 DEF ReadStage, ReadTrip, ReadBusMap, Document

LEMMA CompareSeatMap ==
  ASSUME TypeOK, NEW t, Compare(t) PROVE SeatMapKept
<1>1. "busmap" \notin CachedCopy(t)
  BY DEF CachedCopy
<1>2. age' = age /\ ttl'["busmap"] = ttl["busmap"]
  BY <1>1 DEF Compare, Document
<1> QED BY <1>2 DEF SeatMapKept

(* A seat map is served until its retention is over and not a tick longer,   *)
(* for any requests, retentions and faults; Trip and Stage documents, which  *)
(* reads renew, are kept as long as they are asked for.                      *)
THEOREM SeatMapsExpire == Spec => []SeatMapExpires
<1>1. Init => SeatMapExpires
  BY DEF Init, SeatMapExpires, Document
<1>2. TypeOK /\ SeatMapExpires /\ [Next]_vars => SeatMapExpires'
  <2> SUFFICES ASSUME TypeOK, SeatMapExpires, [Next]_vars PROVE SeatMapExpires'
    OBVIOUS
  <2>1. CASE SeatMapKept
    BY <2>1 DEF SeatMapKept, SeatMapExpires
  <2>2. ASSUME NEW t \in Thread, Store(t) PROVE SeatMapExpires'
    BY <2>1, <2>2, StoreSeatMap, CacheAssumption DEF SeatMapExpires
  <2>3. ASSUME NEW t \in Thread,
               \/ \E k \in Task : Begin(t, k)
               \/ Lookup(t) \/ LookupAgain(t)
               \/ AcquireSlot(t) \/ RateLimit(t) \/ Fetch(t) \/ Companion(t)
        PROVE  SeatMapKept
    BY <2>3 DEF Begin, Lookup, LookupAgain, AcquireSlot, RateLimit, Fetch, Companion, cache, SeatMapKept
  <2>4. CASE Tick
    <3>1. /\ ttl["busmap"] \in Nat /\ age["busmap"] \in Nat
          /\ ttl'["busmap"] = IF ttl["busmap"] > 0 THEN ttl["busmap"] - 1 ELSE 0
          /\ age'["busmap"] = IF ttl["busmap"] > 1 THEN Older(age["busmap"]) ELSE 0
      BY <2>4, CacheAssumption DEF Tick, TypeOK, Document, OldAge
    <3>2. Older(age["busmap"]) <= age["busmap"] + 1 /\ Older(age["busmap"]) \in Nat
      BY <3>1 DEF Older
    <3> QED BY <3>1, <3>2, CacheAssumption DEF SeatMapExpires
  <2>5. CASE UNCHANGED vars
    BY <2>1, <2>5 DEF vars, cache, SeatMapKept
  <2> QED BY <2>1, <2>2, <2>3, <2>4, <2>5, ReadSeatMap, CompareSeatMap DEF Next, Verify
<1> QED BY <1>1, <1>2, TypeCorrect, PTL DEF Spec

=============================================================================
