--------------------------- MODULE OperatorRegistry ---------------------------
(***************************************************************************)
(* The row of one operator in the two partitions of Cassandra's operators   *)
(* table (active_flag 1 and 0).  Inventory events register the operator and *)
(* record its zone, administrators switch it on and off, reads look it up.  *)
(* Every call is a sequence of statements, each of which sees or changes    *)
(* one partition atomically, and any of which may fail with or without      *)
(* effect.  No statement concerns two operators.                            *)
(***************************************************************************)
EXTENDS Naturals

CONSTANTS Caller,    \* concurrent requests
          Switcher,  \* those that may change the active flag
          ZoneCode,      \* zone codes
          NoRow,     \* no row in the partition
          MaxCalls,  \* bound: calls
          MaxFaults  \* bound: failed statements

ASSUME RegistryAssumption ==
  /\ Switcher \subseteq Caller
  /\ NoRow \notin ZoneCode
  /\ MaxCalls \in Nat
  /\ MaxFaults \in Nat

VARIABLES
  row,     \* row[p]: the zone_code of the row in partition p
  pc,      \* pc[c]: the statement c executes next
  op,      \* op[c]: what c was asked to do
  at,      \* at[c]: the partition operatorByCode found the operator in
  zone,    \* zone[c]: the zone_code it found there
  result,  \* result[c]: what the last call of c returned
  alone,   \* alone[c]: no other call has overlapped that call
  calls, faults

registryVars == <<row, pc, op, at, zone, result, alone, calls, faults>>

Partition == {"active", "inactive"}
Operation == [do : {"register"}, zone : ZoneCode] \union [do : {"switch"}, to : Partition]
               \union [do : {"find"}]
Look      == {"look", "lookOff", "lookAgain", "lookOffAgain"}
Change    == {"insert", "update", "move", "delete"}

(* Only a switch to the other partition moves the row it has found. *)
MovesFoundRow ==
  \A c \in Caller : pc[c] \in {"move", "delete"} =>
    op[c].do = "switch" /\ c \in Switcher /\ op[c].to # at[c] /\ zone[c] # NoRow

RegistryTypeOK ==
  /\ row \in [Partition -> ZoneCode \union {NoRow}]
  /\ pc \in [Caller -> {"idle"} \union Look \union Change]
  /\ op \in [Caller -> Operation]
  /\ at \in [Caller -> Partition]
  /\ zone \in [Caller -> ZoneCode \union {NoRow}]
  /\ result \in [Caller -> Partition \union {"error", "unknown"}]
  /\ alone \in [Caller -> BOOLEAN]
  /\ calls \in 0 .. MaxCalls
  /\ faults \in 0 .. MaxFaults
  /\ MovesFoundRow

RegistryInit ==
  /\ row = [p \in Partition |-> NoRow]
  /\ pc = [c \in Caller |-> "idle"]
  /\ op = [c \in Caller |-> [do |-> "find"]]
  /\ at = [c \in Caller |-> "inactive"]
  /\ zone = [c \in Caller |-> NoRow]
  /\ result = [c \in Caller |-> "unknown"]
  /\ alone = [c \in Caller |-> FALSE]
  /\ calls = 0
  /\ faults = 0

(* What a lookup answers now: the active partition comes first. *)
Known  == \E p \in Partition : row[p] # NoRow
Status == IF row["active"] # NoRow THEN "active" ELSE "inactive"

-----------------------------------------------------------------------------
Begin(c, o) ==
  /\ pc[c] = "idle"
  /\ calls < MaxCalls
  /\ calls' = calls + 1
  /\ op' = [op EXCEPT ![c] = o]
  /\ pc' = [pc EXCEPT ![c] = "look"]
  /\ alone' = [d \in Caller |-> d = c /\ \A e \in Caller \ {c} : pc[e] = "idle"]
  /\ UNCHANGED <<row, at, zone, result, faults>>

RegisterOperator(c) == \E z \in ZoneCode : Begin(c, [do |-> "register", zone |-> z])
SetOperatorActive(c) == c \in Switcher /\ \E p \in Partition : Begin(c, [do |-> "switch", to |-> p])
FindOperator(c) == Begin(c, [do |-> "find"])

GoTo(c, step) == pc' = [pc EXCEPT ![c] = step] /\ UNCHANGED result

Return(c, answer) == /\ pc' = [pc EXCEPT ![c] = "idle"]
                     /\ result' = [result EXCEPT ![c] = answer]

(* operatorByCode finds the operator in partition p; what the call does next. *)
Found(c, p) ==
  /\ row[p] # NoRow
  /\ at' = [at EXCEPT ![c] = p]
  /\ zone' = [zone EXCEPT ![c] = row[p]]
  /\ \/ op[c].do = "register" /\ GoTo(c, "update")
     \/ op[c].do = "switch" /\ op[c].to # p /\ GoTo(c, "move")
     \/ op[c].do = "switch" /\ op[c].to = p /\ Return(c, p)
     \/ op[c].do = "find" /\ Return(c, p)

NotFound(c, p) == row[p] = NoRow /\ UNCHANGED <<at, zone>>

LookActive(c) ==
  /\ \/ pc[c] \in {"look", "lookAgain"} /\ Found(c, "active")
     \/ pc[c] = "look" /\ NotFound(c, "active") /\ GoTo(c, "lookOff")
     \/ pc[c] = "lookAgain" /\ NotFound(c, "active") /\ GoTo(c, "lookOffAgain")
  /\ UNCHANGED <<row, op, alone, calls, faults>>

(* In neither partition: RegisterOperator inserts a new operator and looks   *)
(* again.                                                                    *)
LookInactive(c) ==
  /\ \/ pc[c] \in {"lookOff", "lookOffAgain"} /\ Found(c, "inactive")
     \/ /\ pc[c] = "lookOff" /\ NotFound(c, "inactive")
        /\ \/ op[c].do = "register" /\ GoTo(c, "insert")
           \/ op[c].do # "register" /\ Return(c, "unknown")
     \/ pc[c] = "lookOffAgain" /\ NotFound(c, "inactive") /\ Return(c, "error")
  /\ UNCHANGED <<row, op, alone, calls, faults>>

(* Mutant: the operator leaves its old partition first. *)
EffectDeleteFirst(c) ==
  CASE pc[c] = "insert" -> [row EXCEPT !["active"] = IF @ = NoRow THEN op[c].zone ELSE @]
    [] pc[c] = "update" -> [row EXCEPT ![at[c]] = op[c].zone]
    [] pc[c] = "move"   -> [row EXCEPT ![at[c]] = NoRow]
    [] pc[c] = "delete" -> [row EXCEPT ![op[c].to] = zone[c]]

(* Mutant: the row is copied and the original left in place. *)
EffectKeepOld(c) ==
  CASE pc[c] = "insert" -> [row EXCEPT !["active"] = IF @ = NoRow THEN op[c].zone ELSE @]
    [] pc[c] = "update" -> [row EXCEPT ![at[c]] = op[c].zone]
    [] pc[c] = "move"   -> [row EXCEPT ![op[c].to] = zone[c]]
    [] pc[c] = "delete" -> row

(* What the statement does to the table.  The INSERT of a new operator is    *)
(* IF NOT EXISTS; UPDATE and the INSERT of a move are upserts, which write   *)
(* the row whether or not it is (still) there.                               *)
Effect(c) ==
  CASE pc[c] = "insert" -> [row EXCEPT !["active"] = IF @ = NoRow THEN op[c].zone ELSE @]
    [] pc[c] = "update" -> [row EXCEPT ![at[c]] = op[c].zone]
    [] pc[c] = "move"   -> [row EXCEPT ![op[c].to] = zone[c]]
    [] pc[c] = "delete" -> [row EXCEPT ![at[c]] = NoRow]

Execute(c) ==
  /\ pc[c] \in Change
  /\ row' = Effect(c)
  /\ \/ pc[c] = "insert" /\ GoTo(c, "lookAgain")
     \/ pc[c] = "update" /\ Return(c, at[c])
     \/ pc[c] = "move"   /\ GoTo(c, "delete")
     \/ pc[c] = "delete" /\ Return(c, op[c].to)
  /\ UNCHANGED <<op, at, zone, alone, calls, faults>>

(* A statement fails: the call returns at once and undoes nothing. *)
Fail(c) ==
  /\ pc[c] # "idle"
  /\ faults < MaxFaults
  /\ faults' = faults + 1
  /\ row' \in {row} \union (IF pc[c] \in Change THEN {Effect(c)} ELSE {})
  /\ Return(c, "error")
  /\ UNCHANGED <<op, at, zone, alone, calls>>

RegistryNext == \E c \in Caller :
  \/ RegisterOperator(c) \/ SetOperatorActive(c) \/ FindOperator(c)
  \/ LookActive(c) \/ LookInactive(c) \/ Execute(c) \/ Fail(c)

RegistrySpec == RegistryInit /\ [][RegistryNext]_registryVars

-----------------------------------------------------------------------------
OneSwitcher == \A c, d \in Switcher : c = d

(* With one administrator at a time an operator that is known stays known,   *)
(* whatever fails and whoever registers meanwhile: the row is in its new     *)
(* partition before it leaves the old one.  Two administrators who switch in *)
(* opposite directions can delete both rows.                                 *)
KnownStays == [][OneSwitcher /\ Known => Known']_registryVars

(* The inductive invariant behind it: only registrations insert and update,  *)
(* and a lone administrator who is about to delete a row has written the     *)
(* other one, which nobody else deletes.                                     *)
RegistersZone ==
  \A c \in Caller :
    pc[c] \in {"insert", "update", "lookAgain", "lookOffAgain"} => op[c].do = "register"
TargetWritten ==
  \A c \in Caller : OneSwitcher /\ pc[c] = "delete" => row[op[c].to] # NoRow
SwitcherSwitches == \A c \in Caller : op[c].do = "switch" => c \in Switcher
RegistryInv == RegistryTypeOK /\ RegistersZone /\ SwitcherSwitches /\ TargetWritten

(* A call that no other call overlapped tells the truth, also after failed   *)
(* calls have left rows in both partitions: a switch has taken effect and    *)
(* kept the zone, a registration has recorded the zone and returns the       *)
(* status by which the event is processed or skipped, a lookup finds what is *)
(* there.                                                                    *)
UndisturbedCallsAgree ==
  [][\A c \in Caller :
       pc[c] # "idle" /\ pc'[c] = "idle" /\ alone[c] /\ result'[c] # "error" =>
         /\ result'[c] = IF Known' THEN Status' ELSE "unknown"
         /\ op[c].do = "switch" /\ Known' => Status' = op[c].to /\ row'[Status'] = zone'[c]
         /\ op[c].do = "register" => row'[Status'] = op[c].zone]_registryVars

(* operator.go:19, "RegisterOperator preserves an existing active state": no *)
(* statement of a registration changes the status of a known operator.       *)
RegisterPreservesStatus ==
  [][\A c \in Caller :
       op[c].do = "register" /\ pc[c] \in Change /\ pc'[c] # pc[c] /\ Known
         => Status' = Status]_registryVars

=============================================================================
