------------------------------ MODULE MCStartUp ------------------------------
(* The two processes' starts and one job's content, for TLC: none of them    *)
(* shares state with another, so each runs while the others rest.            *)
EXTENDS WorkerStartup, MasterStartup, JobContract

(* Everything in .env, as it is deployed.                                   *)
Complete ==
  [n \in SettingName |->
     CASE n \in {"RABBITMQ_USERNAME_FILE", "RABBITMQ_USER", "RABBITMQ_PASSWORD_FILE", "RABBITMQ_PORT",
                 "APP_ENV", "WORKER_MAX_ATTEMPTS", "WORKER_RETRY_DELAYS", "DRAGONFLY_ADDRESS",
                 "HEALTH_API_PORT"} -> "unset"
       [] n = "RABBITMQ_TLS"           -> "true"
       [] n = "ORBIT_URL"              -> "https"
       [] n = "WORKER_BITS_RATE_LIMIT" -> "3"
       [] OTHER                        -> "v"]
Nothing == [n \in SettingName |-> "unset"]
Deployed == [process |-> Nothing, dotenv |-> Complete, file |-> Nothing]

Values(n) == {"unset", "blank", "bad"} \union
  CASE n = "APP_ENV"      -> {"development", "production"}
    [] n = "ORBIT_URL"    -> {"http", "https"}
    [] n = "RABBITMQ_TLS" -> {"true", "false"}
    [] n \in {"WORKER_MAX_ATTEMPTS", "WORKER_RETRY_DELAYS"} -> {"1", "2", "3"}
    [] OTHER              -> {"v"}

(* The settings that the JSON file may have.                                *)
InFile == {"RABBITMQ_QUEUE", "ORBIT_URL", "WORKER_MAX_ATTEMPTS", "WORKER_RETRY_DELAYS", "HEALTH_API_PORT"}

Change == UNION {{"process", "dotenv"} \X {n} \X Values(n) : n \in SettingName}
          \union UNION {{"file"} \X {n} \X Values(n) : n \in InFile}
          \union {<<"file", "WORKER_RETRY_DELAYS", "none">>}
Changed(d, c) == [d EXCEPT ![c[1]][c[2]] = c[3]]

(* Any two settings of it are different, in any source.                      *)
MCDeployment == {Changed(Changed(Deployed, c), k) : c \in Change, k \in Change}

MCSettings ==
  [port : {"bad", "good"}, dragonfly : BOOLEAN, cassandra : BOOLEAN, stores : {"bad", "good"},
   url : BOOLEAN, host : BOOLEAN, exchange : BOOLEAN, amqp : {"bad", "good"},
   management : {"none", "bad", "good"}, managementHost : BOOLEAN,
   refresh : {"none", "bad", "good"}, verification : {"bad", "good"}]

MCInit == StartupInit /\ MasterInit /\ JobInit

MCNext ==
  \/ MasterInit /\ JobInit /\ StartupNext /\ UNCHANGED <<step, active, built, broken, claimed, answer,
                                                         today, environment, job, stage>>
  \/ StartupInit /\ JobInit /\ MasterNext
       /\ UNCHANGED <<at, config, limiter, health, ready, connection, forwarder, handler, cancelled,
                      signals, refused, today, environment, job, stage>>
  \/ StartupInit /\ MasterInit /\ JobNext
       /\ UNCHANGED <<at, config, limiter, health, ready, connection, forwarder, handler, cancelled,
                      signals, refused, step, active, built, broken, claimed, answer>>

MCVars == <<workerVars, masterVars, jobVars>>

MCSpec == MCInit /\ [][MCNext]_MCVars /\ StartupFairness

=============================================================================
