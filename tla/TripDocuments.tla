---------------------------- MODULE TripDocuments ----------------------------
(***************************************************************************)
(* What the cached documents say: how answers of BITS are merged by the      *)
(* Worker, split into Trip, Stage and BUSMAP documents and indexed by route  *)
(* when stored, put together again for reads, and compared with BITS and     *)
(* overwritten by live reads.  Operations are whole here: how their writes   *)
(* interleave, fail and expire by the clock is TripCache's question.         *)
(*                                                                         *)
(* A document is a function from the fields it has to their values.  Of      *)
(* several fields that go together one stands for all: "stations" for        *)
(* fromStation, toStation and stationPoint, the codes of the stations in     *)
(* order; "seatLayoutList" is the member of "bus" of that name;              *)
(* "additionalAttributes" those attributes that only a seat map has, which   *)
(* merging keeps as they are; operator and date are the same in all.         *)
(***************************************************************************)
EXTENDS Naturals, Sequences, FiniteSets

CONSTANTS Trip, Stage,
          TripOf,      \* TripOf[s]: the trip of stage s
          MaxVersion,  \* bound: changes of a trip at BITS
          Path,        \* Path[s][v]: stations of s when its trip is at version v
          Route,       \* the routes that are asked for, <<from, to>>
          Omission,    \* sets of identifying fields that BUSMAP answers may lack
          Nothing,     \* what an absent field, null, [] and {} say
          MaxStores,   \* bound: stores, live reads and expiries
          MaxChanges   \* bound: changes at BITS

Station == UNION {{Path[s][v][i] : i \in DOMAIN Path[s][v]} : s \in Stage, v \in 1 .. MaxVersion}

ASSUME DocumentsAssumption ==
  /\ TripOf \in [Stage -> Trip]
  /\ MaxVersion \in Nat \ {0} /\ MaxStores \in Nat /\ MaxChanges \in Nat
  /\ \A s \in Stage : \A v \in 1 .. MaxVersion : Path[s][v] \in Seq(Station) /\ Len(Path[s][v]) > 1
  /\ Route \subseteq Station \X Station
  /\ Omission \subseteq SUBSET {"tripCode", "tripStageCode", "stations"}

VARIABLES
  version,  \* version[t]: how often trip t has changed at BITS
  offered,  \* the stages BITS sells
  cache,    \* Trip, Stage and BUSMAP documents, and the metadata by route
  agreed,   \* routes stored from BITS as a whole, with nothing changed since
  bare,     \* trips and stages last stored from a seat map alone
  stores, changes

documentsVars == <<version, offered, cache, agreed, bare, stores, changes>>

FareIsCommon == {"tripStageCode", "stations"}  \* mutant
searchStageFields == {"tripStageCode", "stations", "stageFare"}

SearchFields == {"tripCode", "availableSeatCount", "bus", "tripStageCode", "stations", "stageFare"}
BusMapFields == {"tripCode", "tripStageCode", "stations", "bus", "seatLayoutList", "additionalAttributes"}

NoDocument == <<>>
Only(d, fields) == [f \in (DOMAIN d) \intersect fields |-> d[f]]
Over(d, e) == [f \in (DOMAIN d) \union (DOMAIN e) |-> IF f \in DOMAIN d THEN d[f] ELSE e[f]]
ValueAt(d, f) == IF f \in DOMAIN d THEN d[f] ELSE Nothing
Ends(stations) == <<stations[1], stations[Len(stations)]>>

DocumentsInit ==
  /\ version = [t \in Trip |-> 1]
  /\ offered = Stage
  /\ cache = [trip |-> [t \in Trip |-> NoDocument], stage |-> [s \in Stage |-> NoDocument],
              busmap |-> [s \in Stage |-> NoDocument], rows |-> {}]
  /\ agreed = {}
  /\ bare = {}
  /\ stores = 0
  /\ changes = 0

-----------------------------------------------------------------------------
(* BITS.                                                                    *)

About(thing, v) == [of |-> thing, version |-> v]

BitsValue(s, v, f) ==
  CASE f = "tripCode" -> TripOf[s]
    [] f = "tripStageCode" -> s
    [] f = "stations" -> Path[s][v]
    [] f \in {"availableSeatCount", "bus"} -> About(TripOf[s], v)
    [] OTHER -> About(s, v)

SearchEntry(s, v) == [f \in SearchFields |-> BitsValue(s, v, f)]
BusMapEntry(s, v, omitted) == [f \in BusMapFields \ omitted |-> BitsValue(s, v, f)]

(* A Search lists the stages that begin and end where it asks.              *)
Sold(route, at) == {s \in offered : Ends(Path[s][at[TripOf[s]]]) = route}
SearchAnswer(route, at) == {SearchEntry(s, at[TripOf[s]]) : s \in Sold(route, at)}

(* A seat map is asked for by trip and route.  The answer can leave          *)
(* identifiers out; one about another stage names it.                        *)
BusMapAnswers(t, route) ==
  {BusMapEntry(s, version[t], omitted) : s \in {x \in Stage : TripOf[x] = t /\ Ends(Path[x][version[t]]) = route},
                                         omitted \in Omission}
    \union {BusMapEntry(s, version[TripOf[s]], {}) : s \in Stage}

(* A delayed answer. *)
Earlier == {at \in [Trip -> 1 .. MaxVersion] : \A t \in Trip : at[t] <= version[t]}

-----------------------------------------------------------------------------
(* The Worker's combination of a Search entry with its seat map.            *)

validateBusMapIdentity(busMap, search) ==
  /\ \A f \in {"tripCode", "tripStageCode"} : f \in DOMAIN busMap => busMap[f] = search[f]
  /\ "stations" \in DOMAIN busMap => Ends(busMap["stations"]) = Ends(search["stations"])

OverlayOnly(search, busMap) ==  \* mutant: only identifiers are taken from Search
  Over(Only(search, {"tripCode", "tripStageCode", "stations"}), busMap)

decodeSearchResponse(entries) == entries # {}

mergeJSONObjects(search, busMap) ==
  Over(Only(search, {"tripCode", "tripStageCode"}), Over(busMap, search))

-----------------------------------------------------------------------------
(* Storing.                                                                 *)

extractEntries(entries) == entries # {}

requireKeyComponents(e) == {"tripCode", "tripStageCode", "stations"} \subseteq DOMAIN e

commonTripProjection(e) == Only(e, (DOMAIN e) \ (searchStageFields \union {"seatLayoutList"}))

stageProjection(e) == Only(e, searchStageFields)

HopsOnly(stations) == {<<stations[i], stations[i + 1]>> : i \in 1 .. Len(stations) - 1}  \* mutant

(* The routes an entry is indexed under.                                    *)
stageMetadataRecords(stations) ==
  {<<stations[p[1]], stations[p[2]]>> : p \in {q \in (DOMAIN stations) \X (DOMAIN stations) : q[1] < q[2]}}

FirstTripStays(old, e) == IF old = NoDocument THEN commonTripProjection(e) ELSE old  \* mutant
StoreTrip(old, e) == commonTripProjection(e)

(* The caches that may result: entries are stored one after another, so the  *)
(* last of a trip leaves its Trip document.                                  *)
Stores(c, entries, withBusMap) ==
  LET trips == {e["tripCode"] : e \in entries}
      Of(s) == {e \in entries : e["tripStageCode"] = s}
  IN  {[trip   |-> [t \in Trip |-> IF t \in trips THEN StoreTrip(c.trip[t], last[t]) ELSE c.trip[t]],
        stage  |-> [s \in Stage |-> IF Of(s) = {} THEN c.stage[s]
                                    ELSE stageProjection(CHOOSE e \in Of(s) : TRUE)],
        busmap |-> [s \in Stage |-> IF Of(s) = {} \/ ~withBusMap THEN c.busmap[s]
                                    ELSE CHOOSE e \in Of(s) : TRUE],
        rows   |-> c.rows \union UNION {{<<r, e["tripStageCode"]>> :
                                          r \in stageMetadataRecords(e["stations"])} : e \in entries}]
       : last \in {l \in [trips -> entries] : \A t \in trips : l[t]["tripCode"] = t}}

Restored(entries) ==
  {<<"trip", e["tripCode"]>> : e \in entries} \union {<<"stage", e["tripStageCode"]>> : e \in entries}

-----------------------------------------------------------------------------
(* Reading.                                                                 *)

stageContainsRoute(stations, route) ==
  \E i \in DOMAIN stations :
    /\ stations[i] = route[1] /\ \A k \in 1 .. i - 1 : stations[k] # route[1]
    /\ \E j \in i + 1 .. Len(stations) : stations[j] = route[2]

FindStagesByRoute(route) == {s \in Stage : <<route, s>> \in cache.rows}

resolveStages(route) ==
  {s \in FindStagesByRoute(route) :
     cache.stage[s] # NoDocument /\ stageContainsRoute(cache.stage[s]["stations"], route)}

Search(route) ==
  {Over(cache.stage[s], cache.trip[TripOf[s]]) :
     s \in {s2 \in resolveStages(route) : cache.trip[TripOf[s2]] # NoDocument}}

(* One of these, the first in metadata order; each is complete, so that the  *)
(* legacy reconstruction is not needed.                                      *)
BusMap(t, route) ==
  {cache.busmap[s] : s \in {s2 \in resolveStages(route) : TripOf[s2] = t /\ cache.busmap[s2] # NoDocument}}

-----------------------------------------------------------------------------
(* Comparing.                                                               *)

EntryIdentityOf(e) == <<ValueAt(e, "tripCode"), ValueAt(e, "tripStageCode")>>

CompareEntries(cached, live) ==
  {f \in (DOMAIN cached) \union (DOMAIN live) : ValueAt(cached, f) # ValueAt(live, f)}

pairAndCompare(cached, live) ==
  LET Paired(e, others) == {o \in others : EntryIdentityOf(o) = EntryIdentityOf(e)}
  IN  {"MISSING_IN_CACHE" : e \in {l \in live : Paired(l, cached) = {}}}
        \union {"MISSING_IN_BITS" : e \in {c \in cached : Paired(c, live) = {}}}
        \union {"VALUE_MISMATCH" : e \in {l \in live : \E c \in Paired(l, cached) : CompareEntries(c, l) # {}}}

-----------------------------------------------------------------------------
Call == stores < MaxStores /\ stores' = stores + 1 /\ UNCHANGED changes

(* Results of the Worker.                                                   *)

WorkerSearch(route) ==
  /\ Call
  /\ \E at \in Earlier :
       LET entries == SearchAnswer(route, at) IN
       /\ extractEntries(entries)
       /\ cache' \in Stores(cache, entries, FALSE)
       /\ agreed' = IF at = version THEN agreed \union {route} ELSE {}
       /\ bare' = bare \ Restored(entries)
  /\ UNCHANGED <<version, offered>>

(* fetchSearchAndBusMaps: one answer that does not fit fails it.             *)
WorkerSearchBusMap(route) ==
  /\ Call
  /\ \E at \in Earlier :
       LET sold == Sold(route, at)
           Combined(s) == {mergeJSONObjects(SearchEntry(s, at[TripOf[s]]), b) :
                             b \in {a \in BusMapAnswers(TripOf[s], route) :
                                    validateBusMapIdentity(a, SearchEntry(s, at[TripOf[s]]))}}
       IN  /\ decodeSearchResponse(SearchAnswer(route, at))
           /\ \E entries \in SUBSET UNION {Combined(s) : s \in sold} :
                /\ {e["tripStageCode"] : e \in entries} = sold /\ Cardinality(entries) = Cardinality(sold)
                /\ cache' \in Stores(cache, entries, TRUE)
                /\ bare' = bare \ Restored(entries)
  /\ agreed' = {}
  /\ UNCHANGED <<version, offered>>

(* A seat map alone: its document is all that is written.                   *)
WorkerBusMap(s) ==
  /\ Call
  /\ \E at \in Earlier, omitted \in Omission \intersect SUBSET {"stations"} :
       cache' = [cache EXCEPT !.busmap[s] = BusMapEntry(s, at[TripOf[s]], omitted)]
  /\ UNCHANGED <<version, offered, agreed, bare>>

(* Live reads, which store what they fetch.                                 *)

VerifySearch(route) ==
  /\ Call
  /\ LET entries == SearchAnswer(route, version) IN
     /\ cache' \in Stores(cache, entries, FALSE)
     /\ bare' = bare \ Restored(entries)
  /\ agreed' = agreed \union {route}
  /\ UNCHANGED <<version, offered>>

enrichBusMapRepairEntry(e, t, route) ==
  Over(e, [f \in {"tripCode", "stations"} |-> IF f = "tripCode" THEN t ELSE route])

(* A live seat map is stored, unless it does not name its stage, with what   *)
(* it has of Trip and Stage; then the route's Search, if it can be fetched.  *)
VerifyBusMap(t, route) ==
  /\ Call
  /\ \E answer \in BusMapAnswers(t, route), fetched \in BOOLEAN :
       LET live    == enrichBusMapRepairEntry(answer, t, route)
           seats   == IF requireKeyComponents(live) THEN {live} ELSE {}
           entries == IF fetched THEN SearchAnswer(route, version) ELSE {}
       IN  /\ \E c \in Stores(cache, seats, TRUE) : cache' \in Stores(c, entries, FALSE)
           /\ bare' = (bare \union Restored(seats)) \ Restored(entries)
           /\ agreed' = IF fetched THEN {route} ELSE {}
  /\ UNCHANGED <<version, offered>>

-----------------------------------------------------------------------------
(* A document expires. *)
Expire ==
  /\ Call
  /\ \/ \E t \in Trip : cache' = [cache EXCEPT !.trip[t] = NoDocument]
     \/ \E s \in Stage : cache' = [cache EXCEPT !.stage[s] = NoDocument]
     \/ \E s \in Stage : cache' = [cache EXCEPT !.busmap[s] = NoDocument]
  /\ agreed' = {}
  /\ UNCHANGED <<version, offered, bare>>

(* A trip changes, or a stage is withdrawn or offered again.                *)
BitsChanges ==
  /\ changes < MaxChanges
  /\ changes' = changes + 1
  /\ \/ \E t \in Trip : /\ version[t] < MaxVersion
                        /\ version' = [version EXCEPT ![t] = @ + 1]
                        /\ UNCHANGED offered
     \/ \E s \in Stage : offered' \in {offered \ {s}, offered \union {s}} \ {offered}
                         /\ UNCHANGED version
  /\ agreed' = {}
  /\ UNCHANGED <<cache, bare, stores>>

DocumentsNext ==
  \/ \E route \in Route :
       \/ WorkerSearch(route) \/ WorkerSearchBusMap(route) \/ VerifySearch(route)
       \/ \E t \in Trip : VerifyBusMap(t, route)
  \/ \E s \in Stage : WorkerBusMap(s)
  \/ Expire \/ BitsChanges

DocumentsSpec == DocumentsInit /\ [][DocumentsNext]_documentsVars

-----------------------------------------------------------------------------
(* BITS tells stages apart: a seat map names its stage, unless its trip is   *)
(* sold as one stage on its route, for which the Worker then takes it        *)
(* (search_busmap.go:84-88).                                                 *)
StagesToldApart ==
  \A s, x \in Stage, v, w \in 1 .. MaxVersion, omitted \in Omission :
    "tripStageCode" \in omitted /\ TripOf[s] = TripOf[x] /\ Ends(Path[s][v]) = Ends(Path[x][w]) => s = x

(* A Search entry tells of its own trip and stage, without a seat map.  Only *)
(* attributes that a seat map has left in the Trip document may be those of  *)
(* another stage, of the same trip: SEARCHBUSMAP merges them into what all   *)
(* stages share, although BUSMAP content "must not mix data across stages"   *)
(* (phase-2-cache-requirements.md:76).                                       *)
EntriesAreOwn ==
  \A route \in Route : \A e \in Search(route) :
    /\ \A f \in (DOMAIN e) \intersect {"availableSeatCount", "bus"} : e[f].of = e["tripCode"]
    /\ "stageFare" \in DOMAIN e => e["stageFare"].of = e["tripStageCode"]
    /\ "seatLayoutList" \notin DOMAIN e
    /\ "additionalAttributes" \in DOMAIN e => TripOf[e["additionalAttributes"].of] = e["tripCode"]

(* Stages of a trip share a document and BITS may answer about another       *)
(* stage than asked.  Nothing of a trip is served as another's, and nothing   *)
(* of a stage as another's but the attributes in Search entries: a seat map   *)
(* is, with its attributes, that of the stage and trip it says               *)
(* (phase-2-cache-requirements.md:49, :53).                                  *)
OnlyAttributesAreMixed ==
  /\ EntriesAreOwn
  /\ \A t \in Trip, route \in Route : \A b \in BusMap(t, route) :
       /\ b["tripCode"] = t
       /\ b["seatLayoutList"].of = b["tripStageCode"]
       /\ b["additionalAttributes"].of = b["tripStageCode"]

(* What holds of it whatever BITS leaves out: trips are never mixed.         *)
TripsAreApart ==
  /\ EntriesAreOwn
  /\ \A t \in Trip, route \in Route : \A b \in BusMap(t, route) :
       b["tripCode"] = t /\ b["seatLayoutList"].of \in {s \in Stage : TripOf[s] = t}

(* Every route that a stored stage covers, between intermediate stations     *)
(* too, leads to it, whatever its stations were when it was stored before:   *)
(* the index that is written and the matching of stages that is applied to   *)
(* what it returns agree (stage_route_matcher.go:5).                         *)
CoveredRoutesAreFound ==
  \A s \in Stage, route \in Station \X Station :
    cache.stage[s] # NoDocument /\ stageContainsRoute(cache.stage[s]["stations"], route)
      => s \in FindStagesByRoute(route)

(* A Search entry has all fields of a Search answer, however Search answers  *)
(* and seat maps were stored over each other, unless a live seat map was     *)
(* stored last and no Search of its route restored its trip and stage        *)
(* (cache_freshness_verifier.go:152-158).                                    *)
EntriesAreWhole ==
  \A route \in Route : \A e \in Search(route) :
    {<<"trip", e["tripCode"]>>, <<"stage", e["tripStageCode"]>>} \intersect bare = {} => SearchFields \subseteq DOMAIN e

(* A live Search leaves nothing to repair: while BITS stays as it was, the   *)
(* next one finds all that BITS has, unchanged, and differences only in what *)
(* BITS no longer lists there (cache_freshness_verifier.go:214-215 promises  *)
(* MATCH).                                                                   *)
RepairConverges ==
  \A route \in agreed : pairAndCompare(Search(route), SearchAnswer(route, version)) \subseteq {"MISSING_IN_BITS"}

=============================================================================
