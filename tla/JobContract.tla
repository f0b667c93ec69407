----------------------------- MODULE JobContract -----------------------------
(***************************************************************************)
(* What one refresh job says, from the Orionmax item or the stored route it  *)
(* is built from to the Worker's answer.  The Master builds the payload with  *)
(* its own checks; the Worker checks it again, four times and with stricter  *)
(* rules: when it parses the delivery, before it asks BITS, when it sees the  *)
(* zone's URL and before it pushes the result.  Midnight may pass anywhere    *)
(* in between.  Deliveries, retries and crashes are WorkerDelivery.          *)
(***************************************************************************)
EXTENDS Naturals, FiniteSets

CONSTANTS LastDay,      \* bound: days that pass
          Environments, \* the APP_ENV a Worker may have
          Overrides     \* BITS_ZONE_..._URL of the Master: "none", or a kind of URL

ASSUME JobAssumption ==
  /\ LastDay \in Nat
  /\ Environments \subseteq {"development", "production"}
  /\ Overrides \subseteq {"none", "https", "http", "garbage"}

(* A text is empty, only spaces, or "x".                                    *)
Text  == {"empty", "spaces", "x"}
Dates == 0 .. (LastDay + 1)
NoDate == LastDay + 2  \* not a date

(* An item's date may be followed by a time of day.                         *)
Item == [ref : Text, operator : Text, source : Text, destination : Text,
         doj : [date : Dates \union {NoDate}, time : BOOLEAN],
         zone : {"listed", "other"}, tripCode : Text, schedule : {"empty", "NA", "s"}]

(* A row of route metadata with an active operator.                         *)
Row == [from : Text, to : Text, date : Dates \union {NoDate}]

VARIABLES
  today,       \* the date
  environment, \* of the Worker
  job,         \* the payload, None before there is one
  stage        \* what was done with it last

jobVars == <<today, environment, job, stage>>

None == [ref |-> "none"]

-----------------------------------------------------------------------------
(* The Master.                                                              *)

TrimSpace(t) == IF t = "spaces" THEN "empty" ELSE t

metricTripDate(d) == [d EXCEPT !.time = FALSE]

normalizeTripDate(d) == IF metricTripDate(d).date = NoDate THEN NoDate ELSE metricTripDate(d).date

(* Overrides are taken as they are.                                         *)
zoneURLFor(zone, override) ==
  CASE zone # "listed"     -> "none"
    [] override # "none"   -> override
    [] OTHER               -> "http"

(* Candidates are the trip codes the schedule's metadata names, if it can be *)
(* read.  A trip code that cannot be resolved is left out of the job.        *)
resolveInventoryTripCode(item, candidates) ==
  CASE TrimSpace(item.tripCode) # "empty"  -> item.tripCode
    [] item.schedule \in {"empty", "NA"}   -> "empty"
    [] OTHER                          -> IF candidates = 1 THEN "x" ELSE "empty"

(* The job of an item, or None.                                             *)
buildInventoryRefreshJob(item, candidates, override) ==
  LET given == {item.ref, item.operator, item.source, item.destination} IN
  IF "empty" \in given \/ normalizeTripDate(item.doj) = NoDate \/ zoneURLFor(item.zone, override) = "none" THEN None
  ELSE [ref |-> item.ref, action |-> "searchbusmap", operator |-> item.operator,
        from |-> item.source, to |-> item.destination,
        date |-> metricTripDate(item.doj), zoneURL |-> zoneURLFor(item.zone, override),
        tripCode |-> resolveInventoryTripCode(item, candidates)]

(* Rows from today to the seventh day, of which the bound leaves LastDay.    *)
IsFutureRoute(r) == r.date \in today .. (LastDay + 1) /\ r.from # "empty" /\ r.to # "empty"

JobInit == today = 0 /\ environment = "none" /\ job = None /\ stage = "none"

ReceiveItem ==
  /\ stage = "none"
  /\ environment' \in Environments
  /\ \E item \in Item, candidates \in 0 .. 2, override \in Overrides :
       LET j == buildInventoryRefreshJob(item, candidates, override) IN
       /\ job' = j
       /\ stage' = IF j = None THEN "rejected" ELSE "queued"
  /\ UNCHANGED today

publishRoute ==
  /\ stage = "none"
  /\ environment' \in Environments
  /\ \E r \in Row, override \in Overrides :
       /\ IsFutureRoute(r)
       /\ job' = [ref |-> "x", action |-> "searchbusmap", operator |-> "x",
                  from |-> r.from, to |-> r.to, date |-> [date |-> r.date, time |-> FALSE],
                  zoneURL |-> zoneURLFor("listed", override), tripCode |-> "empty"]
  /\ stage' = "queued"
  /\ UNCHANGED today

-----------------------------------------------------------------------------
(* The Worker.                                                              *)

TodayIsOver(d) ==  \* mutant: the trips of the day are refused
  ~d.time /\ d.date # NoDate /\ d.date > today
validateCurrentOrFutureDate(d) == ~d.time /\ d.date # NoDate /\ d.date >= today

(* TripDetailsRefreshMessage.Validate.                                      *)
MessageValid(j) ==
  /\ \A t \in {j.operator, j.from, j.to} : TrimSpace(t) # "empty"
  /\ j.action \in {"search", "searchbusmap"}
  /\ validateCurrentOrFutureDate(j.date)

(* An envelope that is not valid is acknowledged and reported to nobody.     *)
parseTripDetailsRefreshMessage ==
  /\ stage = "queued"
  /\ stage' = IF MessageValid(job) THEN "parsed" ELSE "discarded"
  /\ UNCHANGED <<today, environment, job>>

ValidateBitsURL(url) == url = "https" \/ (url = "http" /\ environment = "development")

(* The credential is resolved and BITS asked; either may fail by itself.     *)
FetchTripDetails ==
  /\ stage = "parsed"
  /\ stage' \in IF MessageValid(job) /\ ValidateBitsURL(job.zoneURL) THEN {"fetched", "failed"} ELSE {"refused"}
  /\ UNCHANGED <<today, environment, job>>

(* A retry begins with the credential again.                                *)
RetryJob ==
  /\ stage = "failed"
  /\ stage' = "parsed"
  /\ UNCHANGED <<today, environment, job>>

SendTripDetails ==
  /\ stage = "fetched"
  /\ stage' \in IF MessageValid(job) THEN {"completed", "failed"} ELSE {"refused"}
  /\ UNCHANGED <<today, environment, job>>

(* The report of a job that is given up needs a reference.                  *)
SendTripDetailsDLQ ==
  /\ stage \in {"refused", "failed"}
  /\ stage' = IF TrimSpace(job.ref) = "empty" THEN "unreported"
              ELSE IF stage = "failed" THEN "dead" ELSE "abandoned"
  /\ UNCHANGED <<today, environment, job>>

Midnight ==
  /\ today < LastDay
  /\ today' = today + 1
  /\ UNCHANGED <<environment, job, stage>>

JobNext == \/ ReceiveItem \/ publishRoute \/ parseTripDetailsRefreshMessage \/ FetchTripDetails
           \/ RetryJob \/ SendTripDetails \/ SendTripDetailsDLQ \/ Midnight

JobSpec == JobInit /\ [][JobNext]_jobVars

-----------------------------------------------------------------------------
(* The payload that the Master builds is one the Worker accepts: a published  *)
(* job is dropped or given up, no service having failed, only if its date is  *)
(* over, one of its codes is only spaces (the Master does not trim, the       *)
(* Worker trims), or its zone has no URL for its environment; and only a      *)
(* reference of spaces keeps an outcome from its row.                        *)
Excused == \/ job.date.date < today
           \/ "spaces" \in {job.operator, job.from, job.to}
           \/ stage # "discarded" /\ ~ValidateBitsURL(job.zoneURL)

PublishedIsAccepted ==
  /\ stage \in {"discarded", "refused", "abandoned"} => Excused
  /\ stage = "unreported" => job.ref = "spaces"

=============================================================================
