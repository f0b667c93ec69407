---------------------------- MODULE StartUpProofs ----------------------------
(***************************************************************************)
(* Proofs about the two processes' starts and about the content of one job,  *)
(* for every environment they may start in and any number of signals, days,  *)
(* environments and overrides.                                               *)
(*                                                                         *)
(* Worker.  What each step of main leaves behind is what a later step relies  *)
(* on: the configuration in use is one that Validate accepted, the limiter is *)
(* the one newZoneRateLimiter chose for it, and there is no forwarder before  *)
(* Consume.  Master.  What failed is recorded before main gives up.  Job.     *)
(* What the Master builds has a reference, an action and a date without time, *)
(* and no code of it is empty: what the Worker can object to is the rest.     *)
(***************************************************************************)
EXTENDS WorkerStartup, MasterStartup, JobContract, TLAPS

-----------------------------------------------------------------------------
(* The Worker.                                                              *)

(* Main's places in their order, for as long as the Worker may still serve.  *)
BeforeConsume == {"loading", "limiter", "health", "connect", "clients", "consume"}
WithLimiter   == {"health", "connect", "clients", "consume", "pool", "closing"}
Configured    == (BeforeConsume \ {"loading"}) \union {"pool", "closing", "closed", "stopping"}

WorkerTypeOK ==
  /\ at \in BeforeConsume \union {"pool", "closing", "closed", "stopping", "shutdown",
                                  "fatal", "killed", "ended"}
  /\ limiter \in {"none", "all", "memory", "distributed", "closed"}
  /\ health \in {"none", "up", "stopping", "down"}
  /\ connection \in {"none", "open", "lost", "closed"}
  /\ forwarder \in {"none", "running", "cancelling", "marked", "ended"}
  /\ handler \in {"none", "waiting", "signalled", "marked", "ended"}
  /\ signals \in 0 .. MaxSignals

ConfigIsValid ==
  at \in Configured => Validate(config) /\ config.user \in BOOLEAN /\ config.password \in BOOLEAN

LimiterIsChosen ==
  at \in WithLimiter /\ config.limited
    => limiter = IF config.cache THEN "distributed" ELSE "memory"

ForwarderInOrder ==
  /\ at \in BeforeConsume => forwarder = "none"
  /\ forwarder \in {"marked", "ended"} => ~ready

WorkerInv == WorkerTypeOK /\ ConfigIsValid /\ LimiterIsChosen /\ ForwarderInOrder /\ ~refused

(* The constructors' own checks are implied by Validate: the consumer's, and  *)
(* those of the three clients and of the Worker (config.go against           *)
(* rabbitmq, orbit and worker constructors).                                 *)
LEMMA ValidIsAccepted ==
  ASSUME NEW c, Validate(c), c.user \in BOOLEAN, c.password \in BOOLEAN
  PROVE  ConsumerAccepts(c) /\ ClientsAccept(c)
BY DEF Validate, KnownEnvironment, RabbitMQValid, OrbitValid, ConsumerAccepts, ClientsAccept

(* A limiter that could be made for a limit is the shared one if there is a   *)
(* cache, and never none at all.                                             *)
LEMMA LimiterForLimit ==
  ASSUME NEW c, NEW reachable, c.limited, newZoneRateLimiter(c, reachable) # "error"
  PROVE  newZoneRateLimiter(c, reachable) = IF c.cache THEN "distributed" ELSE "memory"
BY DEF newZoneRateLimiter

LEMMA LimiterType ==
  ASSUME NEW c, NEW reachable
  PROVE  newZoneRateLimiter(c, reachable) \in {"all", "memory", "distributed", "error"}
BY DEF newZoneRateLimiter

(* Whether a user or a password is there is a yes or a no.                   *)
LEMMA CredentialsAreSwitches ==
  ASSUME NEW d
  PROVE  applyEnvironment(d).user \in BOOLEAN /\ applyEnvironment(d).password \in BOOLEAN
BY DEF applyEnvironment, Set

LEMMA WorkerStarts == StartupInit => WorkerInv
BY DeploymentAssumption
   DEF StartupInit, WorkerInv, WorkerTypeOK, ConfigIsValid, LimiterIsChosen, ForwarderInOrder,
       BeforeConsume, WithLimiter, Configured

(* The steps of main keep the invariant: each is taken from its own place.   *)
LEMMA MainStep == WorkerInv /\ Main => WorkerInv'
<1> USE DEF WorkerTypeOK, BeforeConsume
<1>1. ASSUME WorkerInv, LoadRuntimeConfig PROVE WorkerInv'
  <2>1. PICK d \in Deployment :
          LET c  == applyEnvironment(d)
              ok == EnvironmentApplies(loadDotEnv(d)) /\ Validate(c)
          IN  /\ at' = IF ok THEN "limiter" ELSE "fatal"
              /\ config' = IF ok THEN c ELSE config
    BY <1>1 DEF LoadRuntimeConfig
  <2>2. ConfigIsValid'
    BY <2>1, CredentialsAreSwitches DEF ConfigIsValid, Configured
  <2>3. LimiterIsChosen'
    BY <2>1 DEF LimiterIsChosen, WithLimiter
  <2>4. WorkerTypeOK' /\ ForwarderInOrder' /\ ~refused'
    BY <1>1, <2>1 DEF WorkerInv, LoadRuntimeConfig, ForwarderInOrder
  <2> QED BY <2>2, <2>3, <2>4 DEF WorkerInv
<1>2. ASSUME WorkerInv, ChooseLimiter PROVE WorkerInv'
  <2>1. PICK reachable \in BOOLEAN :
          LET chosen == newZoneRateLimiter(config, reachable) IN
          /\ at' = IF chosen = "error" THEN "fatal" ELSE "health"
          /\ limiter' = IF chosen = "error" THEN limiter ELSE chosen
    BY <1>2 DEF ChooseLimiter
  <2>2. LimiterIsChosen'
    BY <1>2, <2>1, LimiterForLimit DEF ChooseLimiter, LimiterIsChosen, WithLimiter
  <2>3. WorkerTypeOK'
    BY <1>2, <2>1, LimiterType DEF WorkerInv, ChooseLimiter
  <2>4. ConfigIsValid' /\ ForwarderInOrder' /\ ~refused'
    BY <1>2, <2>1 DEF WorkerInv, ChooseLimiter, ConfigIsValid, Configured, ForwarderInOrder
  <2> QED BY <2>2, <2>3, <2>4 DEF WorkerInv
<1>3. ASSUME WorkerInv, startHealthServer PROVE WorkerInv'
  BY <1>3 DEF WorkerInv, startHealthServer, ConfigIsValid, Configured, LimiterIsChosen, WithLimiter,
              ForwarderInOrder
<1>4. ASSUME WorkerInv, ConnectRabbitMQConsumer PROVE WorkerInv'
  <2>1. ConsumerAccepts(config)
    BY <1>4, ValidIsAccepted DEF WorkerInv, ConnectRabbitMQConsumer, ConfigIsValid, Configured
  <2>2. ~refused'
    BY <1>4, <2>1, Zenon DEF WorkerInv, ConnectRabbitMQConsumer
  <2> QED
    BY <1>4, <2>2 DEF WorkerInv, ConnectRabbitMQConsumer, ConfigIsValid, Configured, LimiterIsChosen,
                      WithLimiter, ForwarderInOrder
<1>5. ASSUME WorkerInv, BuildClients PROVE WorkerInv'
  <2>1. ClientsAccept(config)
    BY <1>5, ValidIsAccepted DEF WorkerInv, BuildClients, ConfigIsValid, Configured
  <2>2. ~refused'
    BY <1>5, <2>1, Zenon DEF WorkerInv, BuildClients
  <2> QED
    BY <1>5, <2>2 DEF WorkerInv, BuildClients, ConfigIsValid, Configured, LimiterIsChosen,
                      WithLimiter, ForwarderInOrder
<1>6. ASSUME WorkerInv, Consume PROVE WorkerInv'
  BY <1>6 DEF WorkerInv, Consume, ConfigIsValid, Configured, LimiterIsChosen, WithLimiter,
              ForwarderInOrder
<1>7. ASSUME WorkerInv, Run PROVE WorkerInv'
  BY <1>7 DEF WorkerInv, Run, RunMayReturn, ConfigIsValid, Configured, LimiterIsChosen, WithLimiter,
              ForwarderInOrder
<1>8. ASSUME WorkerInv, Close PROVE WorkerInv'
  BY <1>8 DEF WorkerInv, Close, ConfigIsValid, Configured, LimiterIsChosen, WithLimiter,
              ForwarderInOrder
<1>9. ASSUME WorkerInv, CompleteShutdown PROVE WorkerInv'
  BY <1>9 DEF WorkerInv, CompleteShutdown, ConfigIsValid, Configured, LimiterIsChosen, WithLimiter,
              ForwarderInOrder
<1>10. ASSUME WorkerInv, ReleaseRest PROVE WorkerInv'
  BY <1>10 DEF WorkerInv, ReleaseRest, ConfigIsValid, Configured, LimiterIsChosen, WithLimiter,
               ForwarderInOrder
<1> QED
  BY <1>1, <1>2, <1>3, <1>4, <1>5, <1>6, <1>7, <1>8, <1>9, <1>10 DEF Main

(* So do the forwarder, the signal goroutine, a signal and the broker: none   *)
(* of them sets ready, and none moves main except a signal that kills.       *)
LEMMA BesideMainStep ==
  WorkerInv /\ (StopForwarding \/ EndForwarding \/ MarkNotReady \/ ShutdownHealthServer \/ cancelRun
                \/ Signal \/ LoseConnection)
    => WorkerInv'
<1> USE DEF WorkerInv, WorkerTypeOK, BeforeConsume, ConfigIsValid, Configured, LimiterIsChosen,
            WithLimiter, ForwarderInOrder
<1>1. ASSUME WorkerInv, StopForwarding PROVE WorkerInv'
  BY <1>1 DEF StopForwarding
<1>2. ASSUME WorkerInv, EndForwarding PROVE WorkerInv'
  BY <1>2 DEF EndForwarding
<1>3. ASSUME WorkerInv, MarkNotReady PROVE WorkerInv'
  BY <1>3 DEF MarkNotReady
<1>4. ASSUME WorkerInv, ShutdownHealthServer PROVE WorkerInv'
  BY <1>4 DEF ShutdownHealthServer, BeginShutdown, HealthShutDown
<1>5. ASSUME WorkerInv, cancelRun PROVE WorkerInv'
  BY <1>5 DEF cancelRun
<1>6. ASSUME WorkerInv, Signal PROVE WorkerInv'
  BY <1>6, DeploymentAssumption DEF Signal, Unhandled
<1>7. ASSUME WorkerInv, LoseConnection PROVE WorkerInv'
  BY <1>7 DEF LoseConnection
<1> QED BY <1>1, <1>2, <1>3, <1>4, <1>5, <1>6, <1>7

LEMMA WorkerInvariant == StartupSpec => []WorkerInv
<1>1. WorkerInv /\ [StartupNext]_workerVars => WorkerInv'
  <2>1. ASSUME WorkerInv, UNCHANGED workerVars PROVE WorkerInv'
    BY <2>1 DEF workerVars, WorkerInv, WorkerTypeOK, ConfigIsValid, LimiterIsChosen, ForwarderInOrder
  <2> QED BY <2>1, MainStep, BesideMainStep DEF StartupNext, Goroutines
<1> QED BY <1>1, WorkerStarts, PTL DEF StartupSpec

(* Once the forwarder's output is closed the process is not ready, whichever  *)
(* of a signal, a lost connection and the start of the consumer came first:   *)
(* the forwarder marks before it closes, and only Consume, which no process   *)
(* reaches twice, marks ready again (health.go:9).                           *)
THEOREM StoppedStaysUnready == StartupSpec => []StoppedIsNotReady
<1>1. WorkerInv => StoppedIsNotReady
  BY DEF WorkerInv, ForwarderInOrder, StoppedIsNotReady
<1> QED BY <1>1, WorkerInvariant, PTL

(* A Worker that takes jobs keeps the configured limit, in the shared store   *)
(* if one is configured, whether or not it could be reached (main.go:111).   *)
THEOREM LimitIsKept == StartupSpec => []NeverDowngraded
<1>1. WorkerInv => NeverDowngraded
  BY DEF WorkerInv, LimiterIsChosen, WithLimiter, NeverDowngraded
<1> QED BY <1>1, WorkerInvariant, PTL

(* For every deployment: a configuration that LoadRuntimeConfig accepts is    *)
(* refused by no constructor after it (config.go's Validate against the       *)
(* constructors of the consumer, the clients and the Worker).                *)
THEOREM AcceptedIsUsable == StartupSpec => []AcceptedIsNotRefused
<1>1. WorkerInv => AcceptedIsNotRefused
  BY DEF WorkerInv, AcceptedIsNotRefused
<1> QED BY <1>1, WorkerInvariant, PTL

-----------------------------------------------------------------------------
(* The Master.                                                              *)

(* The groups that are optional are never "bad".                             *)
LEMMA OptionalIsNotBad ==
  ASSUME NEW s
  PROVE  Loaded(s)["refresh"] # "bad" /\ Loaded(s)["verification"] # "bad"
BY DEF Loaded, Group, loadOrbitRouteRefreshConfig, loadVerificationConfig

(* Whatever the Master runs without, live verification, the recording of      *)
(* differences, the scheduler or the refresher, is not what ended its start   *)
(* (config.go:93, main.go:214-216, 287-288).                                *)
THEOREM OptionalIsOptional == MasterSpec => []OptionalNeverFatal
<1>1. MasterInit => OptionalNeverFatal
  BY DEF MasterInit, OptionalNeverFatal
<1>2. OptionalNeverFatal /\ [MasterNext]_masterVars => OptionalNeverFatal'
  <2> SUFFICES ASSUME OptionalNeverFatal, [MasterNext]_masterVars PROVE OptionalNeverFatal'
    OBVIOUS
  <2>1. ASSUME LoadMasterConfig PROVE OptionalNeverFatal'
    <3>1. PICK s \in Settings :
            LET bad == {g \in Group : Loaded(s)[g] = "bad"} \union (IF s.port = "bad" THEN {"port"} ELSE {})
            IN  broken' = bad /\ step' = IF bad = {} THEN "stores" ELSE "failed"
      BY <2>1 DEF LoadMasterConfig
    <3>2. broken' \subseteq LoadBearing
      BY <3>1, OptionalIsNotBad DEF Group, LoadBearing
    <3>3. step' = "failed" => broken' # {}
      BY <3>1
    <3> QED BY <3>2, <3>3 DEF OptionalNeverFatal
  <2>2. ASSUME newMasterServices PROVE OptionalNeverFatal'
    BY <2>2 DEF newMasterServices, StoreFailureIsFatal, OptionalNeverFatal
  <2>3. ASSUME ConnectPublisher PROVE OptionalNeverFatal'
    BY <2>3 DEF ConnectPublisher, OptionalNeverFatal
  <2>4. ASSUME ComposeServices PROVE OptionalNeverFatal'
    BY <2>4 DEF ComposeServices, OptionalNeverFatal
  <2>5. ASSUME ListenAndServe PROVE OptionalNeverFatal'
    BY <2>5 DEF ListenAndServe, OptionalNeverFatal, LoadBearing
  <2>6. ASSUME Serve PROVE OptionalNeverFatal'
    BY <2>6 DEF Serve, OptionalNeverFatal
  <2>7. ASSUME UNCHANGED masterVars PROVE OptionalNeverFatal'
    BY <2>7 DEF masterVars, OptionalNeverFatal
  <2> QED BY <2>1, <2>2, <2>3, <2>4, <2>5, <2>6, <2>7 DEF MasterNext
<1> QED BY <1>1, <1>2, PTL DEF MasterSpec

-----------------------------------------------------------------------------
(* One job.                                                                 *)

Stages == {"none", "rejected", "queued", "parsed", "discarded", "fetched", "failed", "refused",
           "completed", "unreported", "dead", "abandoned"}

(* A job as the Master builds it, from an item or from a stored route.       *)
BuiltJob(j) ==
  /\ \A t \in {j.ref, j.operator, j.from, j.to} : t \in {"spaces", "x"}
  /\ j.action = "searchbusmap"
  /\ j.date.date \in Dates /\ ~j.date.time

JobInv ==
  /\ today \in 0 .. LastDay
  /\ stage \in Stages
  /\ stage \notin {"none", "rejected"} => BuiltJob(job)
  /\ PublishedIsAccepted

LEMMA Days == LastDay \in Nat
BY JobAssumption DEF JobAssumption

(* An item with an empty code, or a date that is none, yields no job.        *)
LEMMA BuiltFromItem ==
  ASSUME NEW item \in Item, NEW candidates, NEW override,
         buildInventoryRefreshJob(item, candidates, override) # None
  PROVE  BuiltJob(buildInventoryRefreshJob(item, candidates, override))
<1> DEFINE given == {item.ref, item.operator, item.source, item.destination}
<1>1. "empty" \notin given /\ normalizeTripDate(item.doj) # NoDate
  BY DEF buildInventoryRefreshJob
<1>2. buildInventoryRefreshJob(item, candidates, override)
        = [ref |-> item.ref, action |-> "searchbusmap", operator |-> item.operator,
           from |-> item.source, to |-> item.destination,
           date |-> metricTripDate(item.doj), zoneURL |-> zoneURLFor(item.zone, override),
           tripCode |-> resolveInventoryTripCode(item, candidates)]
  BY DEF buildInventoryRefreshJob
<1>3. \A t \in given : t \in {"spaces", "x"}
  BY <1>1 DEF Item, Text
<1>4. /\ metricTripDate(item.doj).date \in Dates
      /\ metricTripDate(item.doj).time = FALSE
  BY <1>1 DEF normalizeTripDate, metricTripDate, Item
<1> QED BY <1>2, <1>3, <1>4 DEF BuiltJob

(* What the Worker objects to in such a job is a code of spaces or a date     *)
(* that is over.                                                            *)
LEMMA ObjectionIsExcused ==
  ASSUME BuiltJob(job), today \in 0 .. LastDay, ~MessageValid(job)
  PROVE  job.date.date < today \/ "spaces" \in {job.operator, job.from, job.to}
<1>1. job.date.date # NoDate /\ job.date.date \in Nat /\ today \in Nat
  BY Days DEF BuiltJob, Dates, NoDate
<1>2. CASE ~validateCurrentOrFutureDate(job.date)
  BY <1>1, <1>2 DEF validateCurrentOrFutureDate, BuiltJob
<1>3. CASE \E t \in {job.operator, job.from, job.to} : TrimSpace(t) = "empty"
  BY <1>3 DEF TrimSpace, BuiltJob, Text
<1> QED BY <1>2, <1>3 DEF MessageValid, BuiltJob

LEMMA JobStep == JobInv /\ [JobNext]_jobVars => JobInv'
<1> SUFFICES ASSUME JobInv, [JobNext]_jobVars PROVE JobInv'
  OBVIOUS
<1> USE DEF JobInv, Stages
<1>1. ASSUME ReceiveItem PROVE JobInv'
  <2>1. PICK item \in Item, candidates \in 0 .. 2, override \in Overrides :
          /\ job' = buildInventoryRefreshJob(item, candidates, override)
          /\ stage' = IF buildInventoryRefreshJob(item, candidates, override) = None
                      THEN "rejected" ELSE "queued"
    BY <1>1 DEF ReceiveItem
  <2>2. stage' # "rejected" => BuiltJob(job')
    BY <2>1, BuiltFromItem
  <2> QED BY <1>1, <2>1, <2>2 DEF ReceiveItem, PublishedIsAccepted, BuiltJob
<1>2. ASSUME publishRoute PROVE JobInv'
  <2>1. PICK r \in Row, override \in Overrides :
          /\ IsFutureRoute(r)
          /\ job' = [ref |-> "x", action |-> "searchbusmap", operator |-> "x",
                     from |-> r.from, to |-> r.to, date |-> [date |-> r.date, time |-> FALSE],
                     zoneURL |-> zoneURLFor("listed", override), tripCode |-> "empty"]
    BY <1>2 DEF publishRoute
  <2>2. r.date \in Dates
    BY <2>1, Days DEF IsFutureRoute, Dates
  <2>3. BuiltJob(job')
    BY <2>1, <2>2 DEF BuiltJob, IsFutureRoute, Row, Text
  <2> QED BY <1>2, <2>3 DEF publishRoute, PublishedIsAccepted, BuiltJob
<1>3. ASSUME parseTripDetailsRefreshMessage PROVE JobInv'
  BY <1>3, ObjectionIsExcused, Days
     DEF parseTripDetailsRefreshMessage, PublishedIsAccepted, Excused, BuiltJob, ValidateBitsURL
<1>4. ASSUME FetchTripDetails PROVE JobInv'
  BY <1>4, ObjectionIsExcused, Days
     DEF FetchTripDetails, PublishedIsAccepted, Excused, BuiltJob, ValidateBitsURL
<1>5. ASSUME RetryJob PROVE JobInv'
  BY <1>5 DEF RetryJob, PublishedIsAccepted, BuiltJob
<1>6. ASSUME SendTripDetails PROVE JobInv'
  BY <1>6, ObjectionIsExcused, Days
     DEF SendTripDetails, PublishedIsAccepted, Excused, BuiltJob, ValidateBitsURL
<1>7. ASSUME SendTripDetailsDLQ PROVE JobInv'
  BY <1>7 DEF SendTripDetailsDLQ, PublishedIsAccepted, Excused, BuiltJob, ValidateBitsURL, TrimSpace, Text
<1>8. ASSUME Midnight PROVE JobInv'
  <2>1. today' \in 0 .. LastDay /\ today' >= today
    BY <1>8, Days DEF Midnight
  <2>2. BuiltJob(job) => job.date.date \in Nat
    BY Days DEF BuiltJob, Dates
  <2> QED BY <1>8, <2>1, <2>2, Days DEF Midnight, PublishedIsAccepted, Excused, BuiltJob, ValidateBitsURL
<1>9. ASSUME UNCHANGED jobVars PROVE JobInv'
  BY <1>9 DEF jobVars, PublishedIsAccepted, Excused, BuiltJob, ValidateBitsURL
<1> QED BY <1>1, <1>2, <1>3, <1>4, <1>5, <1>6, <1>7, <1>8, <1>9 DEF JobNext

(* The payload the Master builds is one the Worker accepts, whenever midnight *)
(* passes: a job that is dropped or given up with no service having failed    *)
(* had a date that is over, a code of spaces, or a zone without a URL for     *)
(* that Worker (orionmax_inventory_job_builder.go and orbit_route_refresh.go  *)
(* against what the Worker checks).                                          *)
THEOREM MasterJobsAreAccepted == JobSpec => []PublishedIsAccepted
<1>1. JobInit => JobInv
  BY Days DEF JobInit, JobInv, Stages, PublishedIsAccepted
<1>2. JobInv => PublishedIsAccepted
  BY DEF JobInv
<1> QED BY <1>1, <1>2, JobStep, PTL DEF JobSpec

=============================================================================
