---------------------------- MODULE WorkerStartup ----------------------------
(***************************************************************************)
(* The Worker process from its environment to its end: the configuration is  *)
(* loaded and validated, the limiter, the health server, the RabbitMQ        *)
(* connection and the clients are built in main's order, the consumer is     *)
(* started, and main's deferred calls take everything down again.  Beside    *)
(* main run the goroutine that waits for a signal and, once consuming, the   *)
(* forwarder of deliveries; the broker may drop the connection at any time.  *)
(* What the pool does with deliveries is WorkerDelivery.                     *)
(*                                                                         *)
(* A setting is a string: "unset", "blank" (empty), "bad" (does not parse,   *)
(* or a file that cannot be read or is empty), or a value; of several settings that are treated alike one    *)
(* stands for all.                                                           *)
(***************************************************************************)
EXTENDS Naturals, FiniteSets

CONSTANTS Deployment,  \* the environments to start in: see DeploymentAssumption
          MaxSignals   \* bound: signals sent to the process

SettingName == {"APP_ENV", "RABBITMQ_HOST", "RABBITMQ_TLS", "RABBITMQ_PORT", "RABBITMQ_QUEUE",
                "RABBITMQ_USERNAME", "RABBITMQ_USERNAME_FILE", "RABBITMQ_USER",
                "RABBITMQ_PASSWORD", "RABBITMQ_PASSWORD_FILE", "ORBIT_URL", "ORBIT_ACCESS_TOKEN",
                "WORKER_MAX_ATTEMPTS", "WORKER_RETRY_DELAYS", "WORKER_BITS_RATE_LIMIT",
                "DRAGONFLY_ADDRESS", "HEALTH_API_PORT"}

(* process: the variables of the process; dotenv: those of .env; file: the   *)
(* JSON file, by the environment variable that would override it.            *)
ASSUME DeploymentAssumption ==
  /\ \A d \in Deployment : /\ DOMAIN d = {"process", "dotenv", "file"}
                           /\ \A l \in DOMAIN d : DOMAIN d[l] = SettingName
  /\ MaxSignals \in Nat

VARIABLES
  at,         \* where main is
  config,     \* the accepted configuration
  limiter,    \* the limiter in use
  health,     \* the health server
  ready,      \* Readiness
  connection, \* the RabbitMQ connection, with its channel
  forwarder,  \* the goroutine that forwards deliveries
  handler,    \* the goroutine that waits for a signal
  cancelled,  \* runContext is
  signals,    \* how many have been sent
  refused     \* a constructor refused the configuration that was accepted

workerVars == <<at, config, limiter, health, ready, connection, forwarder, handler,
                cancelled, signals, refused>>

-----------------------------------------------------------------------------
(* Reading the settings.                                                    *)

Set(v) == v \notin {"unset", "blank"}
Number == [n \in {"1", "2", "3", "10"} |-> CASE n = "1" -> 1 [] n = "2" -> 2 [] n = "3" -> 3 [] n = "10" -> 10]

(* .env sets what the process does not have, be it empty.                   *)
loadDotEnv(d) ==
  [n \in SettingName |-> IF d.process[n] # "unset" THEN d.process[n] ELSE d.dotenv[n]]

Defaults ==
  [n \in SettingName |-> CASE n = "APP_ENV" -> "production"
                           [] n = "WORKER_MAX_ATTEMPTS" -> "3"
                           [] n = "WORKER_RETRY_DELAYS" -> "2"  \* so many of them
                           [] n = "HEALTH_API_PORT" -> "8080"
                           [] OTHER -> "unset"]

Over(base, top) == [n \in SettingName |-> IF Set(top[n]) THEN top[n] ELSE base[n]]

(* What fails while the environment is applied.  A number that is set but    *)
(* empty fails too; empty strings, lists and switches count as unset.        *)
loadSecret(env, name, fileName) ==
  CASE Set(env[name]) /\ Set(env[fileName]) -> "error"
    [] Set(env[name])                       -> env[name]
    [] Set(env[fileName])                   -> IF env[fileName] = "bad" THEN "error" ELSE env[fileName]
    [] OTHER                                -> "unset"

setPositiveInt(env, name) == env[name] \notin {"blank", "bad"}

Parses(env, name) == env[name] # "bad"

buildRabbitMQURL(env) ==
  IF ~Set(env["RABBITMQ_HOST"]) \/ ~Parses(env, "RABBITMQ_TLS") \/ ~Parses(env, "RABBITMQ_PORT") THEN "error"
  ELSE IF env["RABBITMQ_TLS"] = "true" THEN "amqps" ELSE "amqp"

rabbitMQUsername(env) ==
  LET name == loadSecret(env, "RABBITMQ_USERNAME", "RABBITMQ_USERNAME_FILE")
  IN  IF name = "unset" /\ Set(env["RABBITMQ_USER"]) THEN env["RABBITMQ_USER"] ELSE name

applyCache(env) == Set(env["DRAGONFLY_ADDRESS"])
applyRateLimit(env) == Set(env["WORKER_BITS_RATE_LIMIT"])

EnvironmentApplies(env) ==
  /\ buildRabbitMQURL(env) # "error"
  /\ rabbitMQUsername(env) # "error"
  /\ loadSecret(env, "RABBITMQ_PASSWORD", "RABBITMQ_PASSWORD_FILE") # "error"
  /\ \A n \in {"WORKER_MAX_ATTEMPTS", "HEALTH_API_PORT"} : setPositiveInt(env, n)
  /\ \A n \in {"WORKER_RETRY_DELAYS", "WORKER_BITS_RATE_LIMIT"} : Parses(env, n)

(* The JSON file has no credentials, limits or cache, and the URL that it    *)
(* may have is replaced by the one built from the environment.               *)
applyEnvironment(d) ==
  LET env  == loadDotEnv(d)
      base == Over(Defaults, d.file)
      top  == Over(base, env)
  IN  [environment |-> IF env["APP_ENV"] # "unset" THEN env["APP_ENV"] ELSE Defaults["APP_ENV"],
       scheme      |-> buildRabbitMQURL(env),
       queue       |-> Set(top["RABBITMQ_QUEUE"]),
       user        |-> Set(rabbitMQUsername(env)),
       password    |-> Set(loadSecret(env, "RABBITMQ_PASSWORD", "RABBITMQ_PASSWORD_FILE")),
       orbit       |-> top["ORBIT_URL"],
       token       |-> Set(env["ORBIT_ACCESS_TOKEN"]),
       attempts    |-> top["WORKER_MAX_ATTEMPTS"],
       delays      |-> top["WORKER_RETRY_DELAYS"],
       limited     |-> applyRateLimit(env),
       cache       |-> applyCache(env)]

-----------------------------------------------------------------------------
(* Validation.                                                              *)

KnownEnvironment(c) == c.environment \in {"development", "production"}

validateEndpointURL(scheme, environment, secure, insecure) ==
  scheme = secure \/ (environment = "development" /\ scheme = insecure)

WorkerConfigValid(c) ==
  /\ c.attempts \in DOMAIN Number
  /\ c.delays \in DOMAIN Number \union {"none"}
  /\ (IF c.delays = "none" THEN 0 ELSE Number[c.delays]) = Number[c.attempts] - 1

RabbitMQValid(c) ==
  /\ validateEndpointURL(c.scheme, c.environment, "amqps", "amqp")
  /\ c.queue
  /\ c.user = c.password

OrbitValid(c) == validateEndpointURL(c.orbit, c.environment, "https", "http") /\ c.token

PasswordAlone(c) ==  \* mutant: the password is asked for by who has a user name
  /\ KnownEnvironment(c) /\ WorkerConfigValid(c) /\ OrbitValid(c)
  /\ validateEndpointURL(c.scheme, c.environment, "amqps", "amqp") /\ c.queue
  /\ c.user => c.password

Validate(c) == KnownEnvironment(c) /\ WorkerConfigValid(c) /\ RabbitMQValid(c) /\ OrbitValid(c)

-----------------------------------------------------------------------------
NoConfig == [environment |-> "none"]

StartupInit ==
  /\ at = "loading" /\ config = NoConfig /\ limiter = "none" /\ health = "none"
  /\ ready = FALSE /\ connection = "none" /\ forwarder = "none" /\ handler = "none"
  /\ cancelled = FALSE /\ signals = 0 /\ refused = FALSE

LoadRuntimeConfig ==
  /\ at = "loading"
  /\ \E d \in Deployment :
       LET c  == applyEnvironment(d)
           ok == EnvironmentApplies(loadDotEnv(d)) /\ Validate(c)
       IN  /\ at' = IF ok THEN "limiter" ELSE "fatal"
           /\ config' = IF ok THEN c ELSE config
  /\ UNCHANGED <<limiter, health, ready, connection, forwarder, handler, cancelled, signals, refused>>

(* Dragonfly is asked only when both a limit and a cache are configured.    *)
LocalWhenUnreachable(c, reachable) ==  \* mutant: a cache that is down is done without
  IF ~c.limited THEN "all" ELSE IF c.cache /\ reachable THEN "distributed" ELSE "memory"

newZoneRateLimiter(c, reachable) ==
  CASE ~c.limited -> "all"
    [] c.limited /\ ~c.cache -> "memory"
    [] OTHER -> IF reachable THEN "distributed" ELSE "error"

ChooseLimiter ==
  /\ at = "limiter"
  /\ \E reachable \in BOOLEAN :
       LET chosen == newZoneRateLimiter(config, reachable) IN
       /\ at' = IF chosen = "error" THEN "fatal" ELSE "health"
       /\ limiter' = IF chosen = "error" THEN limiter ELSE chosen
  /\ UNCHANGED <<config, health, ready, connection, forwarder, handler, cancelled, signals, refused>>

(* log.Fatalf runs no deferred call: the limiter stays open.                *)
startHealthServer ==
  /\ at = "health"
  /\ \/ /\ at' = "connect" /\ health' = "up" /\ handler' = "waiting"
     \/ /\ at' = "fatal" /\ UNCHANGED <<health, handler>>
  /\ UNCHANGED <<config, limiter, ready, connection, forwarder, cancelled, signals, refused>>

(* The consumer checks what it is given by itself; then it dials, with TLS    *)
(* files that may not load.                                                  *)
ConsumerAccepts(c) ==
  /\ validateEndpointURL(c.scheme, c.environment, "amqps", "amqp")
  /\ c.queue /\ (c.user <=> c.password)

ConnectRabbitMQConsumer ==
  /\ at = "connect"
  /\ \/ /\ ConsumerAccepts(config)
        /\ at' = "clients" /\ connection' = "open" /\ UNCHANGED refused
     \/ /\ at' = "stopping" /\ refused' = ~ConsumerAccepts(config)
        /\ UNCHANGED connection
  /\ UNCHANGED <<config, limiter, health, ready, forwarder, handler, cancelled, signals>>

(* The BITS, the Orbit and the OrbitPlus client and the Worker.              *)
ClientsAccept(c) ==
  /\ c.environment \in {"development", "production"}
  /\ validateEndpointURL(c.orbit, c.environment, "https", "http") /\ c.token
  /\ WorkerConfigValid(c)

BuildClients ==
  /\ at = "clients"
  /\ \/ /\ ClientsAccept(config)
        /\ at' = "consume" /\ UNCHANGED refused
     \/ /\ at' = "closing" /\ refused' = (refused \/ ~ClientsAccept(config))
  /\ UNCHANGED <<config, limiter, health, ready, connection, forwarder, handler, cancelled, signals>>

(* The channel is opened whatever the context says; any refusal ends Run.    *)
Consume ==
  /\ at = "consume"
  /\ \/ /\ connection = "open"
        /\ at' = "pool" /\ ready' = TRUE /\ forwarder' = "running"
     \/ /\ at' = "closing" /\ UNCHANGED <<ready, forwarder>>
  /\ UNCHANGED <<config, limiter, health, connection, handler, cancelled, signals, refused>>

(* The goroutines of Run end when the context or the deliveries do.          *)
RunMayReturn == at = "pool" /\ (cancelled \/ forwarder = "ended")

Run ==
  /\ RunMayReturn
  /\ at' = "closing"
  /\ UNCHANGED <<config, limiter, health, ready, connection, forwarder, handler, cancelled, signals, refused>>

-----------------------------------------------------------------------------
(* The forwarder.                                                           *)

(* It may prefer a delivery to a cancelled context any number of times; that *)
(* it does not for ever is fairness.                                         *)
StopForwarding ==
  /\ forwarder = "running"
  /\ cancelled \/ connection # "open"
  /\ forwarder' = "cancelling"
  /\ UNCHANGED <<at, config, limiter, health, ready, connection, handler, cancelled, signals, refused>>

(* channel.Cancel, then MarkNotReady, then close(output).                    *)
ForgetsReadiness ==  \* mutant
  /\ forwarder = "cancelling" /\ forwarder' = "ended"
  /\ UNCHANGED <<at, config, limiter, health, ready, connection, handler, cancelled, signals, refused>>

EndForwarding ==
  /\ \/ /\ forwarder = "cancelling" /\ forwarder' = "marked" /\ ready' = FALSE
     \/ /\ forwarder = "marked" /\ forwarder' = "ended" /\ UNCHANGED ready
  /\ UNCHANGED <<at, config, limiter, health, connection, handler, cancelled, signals, refused>>

-----------------------------------------------------------------------------
(* The signal goroutine and the deferred calls.                             *)

(* Before signal.Notify and after signal.Stop a signal ends the process at   *)
(* once.                                                                    *)
Unhandled == at \in {"loading", "limiter", "health", "shutdown"}

Signal ==
  /\ signals < MaxSignals /\ at \notin {"fatal", "killed", "ended"}
  /\ signals' = signals + 1
  /\ \/ /\ Unhandled /\ at' = "killed" /\ UNCHANGED handler
     \/ /\ ~Unhandled /\ UNCHANGED at
        /\ handler' = IF handler = "waiting" THEN "signalled" ELSE handler
  /\ UNCHANGED <<config, limiter, health, ready, connection, forwarder, cancelled, refused>>

MarkNotReady ==
  /\ handler = "signalled"
  /\ handler' = "marked" /\ ready' = FALSE
  /\ UNCHANGED <<at, config, limiter, health, connection, forwarder, cancelled, signals, refused>>

(* shutdownOnce: the first caller shuts the server down, for at most ten     *)
(* seconds; another one waits for it.                                        *)
BeginShutdown == health = "up" /\ health' = "stopping"
HealthShutDown == health = "stopping" /\ health' = "down"

ShutdownHealthServer ==
  /\ handler = "marked" \/ at = "shutdown"
  /\ BeginShutdown \/ HealthShutDown
  /\ UNCHANGED <<at, config, limiter, ready, connection, forwarder, handler, cancelled, signals, refused>>

OnlyShutDown ==  \* mutant: the context is left to the deferred calls
  /\ handler = "marked" /\ health = "down" /\ handler' = "ended"
  /\ UNCHANGED <<at, config, limiter, health, ready, connection, forwarder, cancelled, signals, refused>>

cancelRun ==
  /\ handler = "marked" /\ health = "down"
  /\ handler' = "ended" /\ cancelled' = TRUE
  /\ UNCHANGED <<at, config, limiter, health, ready, connection, forwarder, signals, refused>>

(* consumer.Close: not ready first, then channel and connection.            *)
Close ==
  /\ \/ /\ at = "closing" /\ at' = "closed" /\ ready' = FALSE /\ UNCHANGED connection
     \/ /\ at = "closed" /\ at' = "stopping" /\ connection' = "closed" /\ UNCHANGED ready
  /\ UNCHANGED <<config, limiter, health, forwarder, handler, cancelled, signals, refused>>

(* close(shutdownComplete) ends the signal goroutine if it still waits; one   *)
(* that has a signal too takes either.                                       *)
CompleteShutdown ==
  /\ at = "stopping"
  /\ at' = "shutdown" /\ ready' = FALSE
  /\ handler' \in CASE handler = "waiting"   -> {"ended"}
                     [] handler = "signalled" -> {"signalled", "ended"}
                     [] OTHER                 -> {handler}
  /\ UNCHANGED <<config, limiter, health, connection, forwarder, cancelled, signals, refused>>

ReleaseRest ==
  /\ at = "shutdown" /\ health = "down"
  /\ at' = "ended" /\ cancelled' = TRUE /\ limiter' = "closed"
  /\ UNCHANGED <<config, health, ready, connection, forwarder, handler, signals, refused>>

-----------------------------------------------------------------------------
(* The broker.                                                              *)
LoseConnection ==
  /\ connection = "open" /\ at \notin {"killed", "ended"}
  /\ connection' = "lost"
  /\ UNCHANGED <<at, config, limiter, health, ready, forwarder, handler, cancelled, signals, refused>>

Main == \/ LoadRuntimeConfig \/ ChooseLimiter \/ startHealthServer \/ ConnectRabbitMQConsumer
        \/ BuildClients \/ Consume \/ Run \/ Close \/ CompleteShutdown \/ ReleaseRest

Running == at \notin {"fatal", "killed", "ended"}

Goroutines ==
  \/ Main
  \/ Running /\ (StopForwarding \/ EndForwarding)
  \/ Running /\ (MarkNotReady \/ ShutdownHealthServer \/ cancelRun)

StartupNext == Goroutines \/ Signal \/ LoseConnection

StartupSpec == StartupInit /\ [][StartupNext]_workerVars

(* Every call of main returns: dials and the shutdown of the health server   *)
(* have timeouts, and that the pool drains is WorkerDelivery's              *)
(* ShutdownCompletes.  The goroutines are scheduled.  Nothing is asked of    *)
(* the loading of the configuration: a signal ends it at once.               *)
StartupFairness ==
  /\ WF_workerVars(at # "loading" /\ Main)
  /\ WF_workerVars(Running /\ (StopForwarding \/ EndForwarding))
  /\ WF_workerVars(Running /\ (MarkNotReady \/ ShutdownHealthServer \/ cancelRun))

-----------------------------------------------------------------------------
(* Whoever finds the forwarder's output closed finds the process not ready,  *)
(* and it stays so, whichever of a signal, a lost connection and the start   *)
(* of the consumer came first: no probe sends work to a Worker that takes    *)
(* none (health.go:9).                                                       *)
StoppedIsNotReady == forwarder = "ended" => ~ready

(* While a Worker processes jobs, a configured limit is kept, and by the     *)
(* shared store if one is configured, reachable at the start or not          *)
(* (main.go:111-112: "never silently downgraded").                           *)
NeverDowngraded ==
  at \in {"pool", "closing"} /\ config.limited
    => limiter = IF config.cache THEN "distributed" ELSE "memory"

(* The settings are validated in four places by different code.  What        *)
(* LoadRuntimeConfig accepts, from whichever source each setting came, no    *)
(* constructor refuses later, when the health server is already up.          *)
AcceptedIsNotRefused == ~refused

(* A signal ends the process at whatever point it finds main: while it       *)
(* connects, consumes or already shuts down, with or without a connection.   *)
SignalEndsIt == signals > 0 ~> ~Running

=============================================================================
