---------------------------- MODULE MasterStartup ----------------------------
(***************************************************************************)
(* The Master process from its environment to its listener: the groups of    *)
(* settings, the stores and clients built in main's order, some of them      *)
(* optional, the services composed from what was built, and what a request   *)
(* finds when the component behind it is missing.  Before it listens the     *)
(* process is sequential; a step fails or succeeds.                          *)
(***************************************************************************)
EXTENDS FiniteSets

CONSTANT Settings  \* the environments to start in

(* A switch is set or not; a group of settings that are read alike is "none" *)
(* (nothing set), "bad" (something missing or not parsed) or "good".  APP_ENV *)
(* is not among them: any value is taken, and it decides nothing before a    *)
(* request's zone URL is looked at.                                         *)
ASSUME SettingsAssumption ==
  Settings \subseteq [port : {"bad", "good"},
                      dragonfly : BOOLEAN, cassandra : BOOLEAN, stores : {"bad", "good"},
                      url : BOOLEAN, host : BOOLEAN, exchange : BOOLEAN, amqp : {"bad", "good"},
                      management : {"none", "bad", "good"}, managementHost : BOOLEAN,
                      refresh : {"none", "bad", "good"}, verification : {"bad", "good"}]

VARIABLES
  step,    \* where main is
  active,  \* the groups that are configured
  built,   \* the components that exist
  broken,  \* what failed
  claimed, \* a route's claim is held by the inventory service
  answer   \* the endpoint asked last, and how it answered

masterVars == <<step, active, built, broken, claimed, answer>>

-----------------------------------------------------------------------------
(* The configuration.  A group is "none", "bad" or "good".                  *)

loadStorageConfig(s) ==
  CASE ~s.dragonfly /\ ~s.cassandra -> "none"
    [] s.dragonfly # s.cassandra    -> "bad"
    [] OTHER                        -> s.stores

(* A single URL makes the parts irrelevant, the exchange excepted.          *)
loadQueueConfig(s) ==
  CASE ~s.url /\ ~s.host /\ ~s.exchange -> "none"
    [] ~s.url /\ (~s.host \/ s.amqp = "bad") -> "bad"
    [] OTHER -> IF s.exchange THEN "good" ELSE "bad"

loadRabbitMQManagementConfig(s) ==
  IF s.management = "good" /\ ~s.managementHost /\ ~s.host THEN "bad" ELSE s.management

loadOrbitRouteRefreshConfig(s) == IF s.refresh = "good" THEN "good" ELSE "none"

loadVerificationConfig(s) ==
  IF s.verification = "good" /\ loadStorageConfig(s) = "good" THEN "good" ELSE "none"

Group == {"storage", "queue", "management", "refresh", "verification"}

Loaded(s) == [g \in Group |->
  CASE g = "storage"      -> loadStorageConfig(s)
    [] g = "queue"        -> loadQueueConfig(s)
    [] g = "management"   -> loadRabbitMQManagementConfig(s)
    [] g = "refresh"      -> loadOrbitRouteRefreshConfig(s)
    [] g = "verification" -> loadVerificationConfig(s)]

LoadBearing == {"port", "storage", "queue", "management"}

-----------------------------------------------------------------------------
MasterInit ==
  /\ step = "loading" /\ active = {} /\ built = {} /\ broken = {}
  /\ claimed = FALSE /\ answer = <<"none", "none">>

LoadMasterConfig ==
  /\ step = "loading"
  /\ \E s \in Settings :
       LET bad == {g \in Group : Loaded(s)[g] = "bad"} \union (IF s.port = "bad" THEN {"port"} ELSE {})
           ok  == bad = {}
       IN  /\ broken' = bad
           /\ step' = IF ok THEN "stores" ELSE "failed"
           /\ active' = IF ok THEN {g \in Group : Loaded(s)[g] = "good"} ELSE {}
  /\ UNCHANGED <<built, claimed, answer>>

(* With storage: the cache, the limiter on it, the metadata and the metrics  *)
(* end the start if they fail, what is open already being closed; without    *)
(* the difference store there is no recording.                              *)
FailedRecordingIsFatal(missing) ==  \* mutant: every repository is treated alike
  missing # {}
StoreFailureIsFatal(missing) == missing \intersect {"cache", "metadata", "metrix"} # {}

newMasterServices ==
  /\ step = "stores"
  /\ IF "storage" \notin active
     THEN step' = "publisher" /\ UNCHANGED <<built, broken>>
     ELSE \E missing \in SUBSET {"cache", "metadata", "metrix", "differences"} :
            LET fatal == StoreFailureIsFatal(missing) IN
            /\ broken' = missing
            /\ step' = IF fatal THEN "failed" ELSE "publisher"
            /\ built' = IF fatal THEN {}
                        ELSE ({"cache", "metadata", "metrix", "differences"} \ missing)
                             \union (IF "verification" \in active THEN {"limiter"} ELSE {})
  /\ UNCHANGED <<active, claimed, answer>>

(* The publisher dials; the management client does not.                     *)
ConnectPublisher ==
  /\ step = "publisher"
  /\ \/ /\ "queue" \in active
        /\ step' = "failed" /\ broken' = broken \union {"publisher"} /\ UNCHANGED built
     \/ /\ step' = "compose"
        /\ built' = built \union (IF "queue" \in active THEN {"publisher"} ELSE {})
                          \union (IF "management" \in active THEN {"management"} ELSE {})
        /\ UNCHANGED broken
  /\ UNCHANGED <<active, claimed, answer>>

(* The scheduler and the refresher are left out when anything that they need *)
(* is; the verifier only needs its settings.                                *)
ComposeServices ==
  /\ step = "compose"
  /\ LET scheduler == "refresh" \in active /\ {"metadata", "metrix", "publisher"} \subseteq built
         verifier  == "verification" \in active
     IN  built' = built \union (IF scheduler THEN {"scheduler"} ELSE {})
                        \union (IF verifier THEN {"verifier"} ELSE {})
                        \union (IF verifier /\ {"cache", "metrix"} \subseteq built THEN {"refresher"} ELSE {})
  /\ step' = "listen"
  /\ UNCHANGED <<active, broken, claimed, answer>>

ListenAndServe ==
  /\ step = "listen"
  /\ \/ step' = "serving" /\ UNCHANGED broken
     \/ step' = "failed" /\ broken' = broken \union {"port"}
  /\ UNCHANGED <<active, built, claimed, answer>>

-----------------------------------------------------------------------------
(* Requests.                                                                *)

Needs == [tripdetails |-> {}, health |-> {}, logs |-> {},
          dlq |-> {"metrix"}, inventory |-> {"publisher", "metrix"},
          search |-> {"cache", "metadata"}, live |-> {"verifier"},
          queueJobs |-> {"metrix"}, queueSummary |-> {"metrix"}, tripHistory |-> {"metrix"},
          tables |-> {"metadata"}, operators |-> {"metrix"}, cache |-> {"cache"},
          rabbitmq |-> {"management"}, analytics |-> {"differences"},
          dashboard |-> {"metrix", "metadata", "management"}]

(* Services to which main gives the repository's pointer as it is: a nil     *)
(* pointer is then not a nil interface, and their guards pass.               *)
GivenPointer == [queueJobs |-> {"metrix"}, queueSummary |-> {"metrix"}, inventory |-> {"metrix"},
                 tables |-> {"metadata"}, dashboard |-> {"metrix", "metadata"}]
PassesGuard(e, c) == c \in built \/ (e \in DOMAIN GivenPointer /\ c \in GivenPointer[e])

(* The dashboard reports each of its sources by itself.                     *)
Answer(e) ==
  CASE e # "dashboard" /\ \E c \in Needs[e] : ~PassesGuard(e, c)             -> "not configured"
    [] \E c \in Needs[e] : c \notin built /\ PassesGuard(e, c) -> "aborted"
    [] OTHER                                                      -> "served"

(* The server recovers from a handler's panic.  The inventory service has    *)
(* the route's claim by then, and a route that is claimed is skipped.        *)
Serve ==
  /\ step = "serving"
  /\ \E e \in DOMAIN Needs :
       LET skips == e = "inventory" /\ claimed /\ Answer(e) = "aborted" IN
       /\ answer' = <<e, IF skips THEN "served" ELSE Answer(e)>>
       /\ claimed' = (claimed \/ (e = "inventory" /\ Answer(e) = "aborted"))
  /\ UNCHANGED <<step, active, built, broken>>

MasterNext == \/ LoadMasterConfig \/ newMasterServices \/ ConnectPublisher
              \/ ComposeServices \/ ListenAndServe \/ Serve

MasterSpec == MasterInit /\ [][MasterNext]_masterVars

-----------------------------------------------------------------------------
(* The Master does not start only if something load-bearing failed: live      *)
(* verification, recording of differences, the scheduler and the refresher    *)
(* never keep cached reads from being served, however they are broken         *)
(* (config.go:93, main.go:214-216, 287-288).                                *)
OptionalNeverFatal ==
  step = "failed" => broken \intersect (LoadBearing \union {"cache", "metadata", "metrix", "publisher"}) # {}

(* A component that is not configured is reported as such and hides nothing  *)
(* else (admin_dashboard_handler.go:48): no request ends without an answer.  *)
UnavailableIsReported == answer[2] # "aborted"

=============================================================================
