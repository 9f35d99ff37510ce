------------------------ MODULE DeviceRegistryProofs ------------------------
(***************************************************************************)
(* Proofs about DeviceRegistry, for any number of terminals and requests.  *)
(***************************************************************************)
EXTENDS DeviceRegistry, TLAPS

(***************************************************************************)
(* The requests of the registry keep its types.                            *)
(***************************************************************************)
LEMMA RegistryStepType ==
    ASSUME RegistryTypeOK, RegistryNext
    PROVE  RegistryTypeOK'
<1> USE DEF RegistryTypeOK
<1>1. CASE \E e \in Enrollers :
             \/ \E d \in Devices : EnrollFind(e, d)
             \/ EnrollInsert(e)
             \/ EnrollConflict(e)
             \/ LoseEnroll(e)
  <2> PICK e \in Enrollers :
             \/ \E d \in Devices : EnrollFind(e, d)
             \/ EnrollInsert(e)
             \/ EnrollConflict(e)
             \/ LoseEnroll(e)
    BY <1>1
  <2>1. NoEnroll \in EnrollRequest
    BY DEF EnrollRequest
  <2>2. CASE \E d \in Devices : EnrollFind(e, d)
    <3> PICK d \in Devices : EnrollFind(e, d)
      BY <2>2
    <3>1. [pc |-> "insert", dev |-> d] \in EnrollRequest
      BY DEF EnrollRequest
    <3> QED BY <3>1 DEF EnrollFind
  <2>3. CASE EnrollInsert(e)
    BY <2>1, <2>3 DEF EnrollInsert, DeviceStatus
  <2>4. CASE EnrollConflict(e)
    BY <2>1, <2>4 DEF EnrollConflict
  <2>5. CASE LoseEnroll(e)
    BY <2>1, <2>5 DEF LoseEnroll
  <2> QED BY <2>2, <2>3, <2>4, <2>5
<1>2. CASE \E a \in Admins :
             \/ \E d \in Devices, target \in Inactive : AdminFind(a, d, target)
             \/ AdminSelect(a)
             \/ AdminUpdate(a)
             \/ AdminAudit(a)
             \/ LoseAdmin(a)
  <2> PICK a \in Admins :
             \/ \E d \in Devices, target \in Inactive : AdminFind(a, d, target)
             \/ AdminSelect(a)
             \/ AdminUpdate(a)
             \/ AdminAudit(a)
             \/ LoseAdmin(a)
    BY <1>2
  <2>1. NoAdmin \in AdminRequest
    BY DEF AdminRequest
  <2>2. CASE \E d \in Devices, target \in Inactive : AdminFind(a, d, target)
    <3> PICK d \in Devices, target \in Inactive : AdminFind(a, d, target)
      BY <2>2
    <3>1. [pc |-> "select", dev |-> d, target |-> target, loaded |-> "absent"]
             \in AdminRequest
      BY DEF AdminRequest
    <3> QED BY <3>1 DEF AdminFind
  <2>3. CASE AdminSelect(a)
    <3>1. admin[a] \in [pc : {"select", "update", "audit"}, dev : Devices,
                        target : Inactive, loaded : DeviceStatus \cup {"absent"}]
      BY <2>3 DEF AdminSelect, AdminRequest, NoAdmin
    <3>2. status[admin[a].dev] \in DeviceStatus \cup {"absent"}
      BY <3>1
    <3>3. admin' \in [Admins -> AdminRequest]
      BY <2>3, <3>1, <3>2 DEF AdminSelect, AdminRequest
    <3> QED BY <2>3, <3>3 DEF AdminSelect
  <2>4. CASE AdminUpdate(a)
    <3>1. /\ admin[a].dev \in Devices
          /\ admin[a].target \in Inactive
      BY <2>4 DEF AdminUpdate, AdminRequest, NoAdmin
    <3>2. status' \in [Devices -> DeviceStatus \cup {"absent"}]
      BY <2>4, <3>1 DEF AdminUpdate, Column, NewStatus, Inactive, DeviceStatus
    <3>3. admin' \in [Admins -> AdminRequest]
      BY <2>4 DEF AdminUpdate, AdminRequest, NoAdmin
    <3> QED BY <2>4, <3>2, <3>3 DEF AdminUpdate
  <2>5. CASE AdminAudit(a)
    BY <2>1, <2>5 DEF AdminAudit
  <2>6. CASE LoseAdmin(a)
    BY <2>1, <2>6 DEF LoseAdmin
  <2> QED BY <2>2, <2>3, <2>4, <2>5, <2>6
<1> QED BY <1>1, <1>2 DEF RegistryNext

(***************************************************************************)
(* The table and the requests of the registry keep their shape.            *)
(***************************************************************************)
THEOREM RegistryTypeCorrect == RegistrySpec => []RegistryTypeOK
<1>1. RegistryInit => RegistryTypeOK
  BY DEF RegistryInit, RegistryTypeOK, DeviceStatus, EnrollRequest, AdminRequest
<1>2. RegistryTypeOK /\ [RegistryNext]_registryVars => RegistryTypeOK'
  <2> SUFFICES ASSUME RegistryTypeOK, [RegistryNext]_registryVars
               PROVE  RegistryTypeOK'
    OBVIOUS
  <2>1. CASE RegistryNext
    BY <2>1, RegistryStepType
  <2>2. CASE UNCHANGED registryVars
    BY <2>2 DEF registryVars, RegistryTypeOK
  <2> QED BY <2>1, <2>2
<1> QED BY <1>1, <1>2, PTL DEF RegistrySpec

(***************************************************************************)
(* The requests of the registry never bring a terminal back into use, nor  *)
(* out of the table: enroll inserts only a free key, block and revoke      *)
(* write one of the two inactive statuses.                                 *)
(***************************************************************************)
LEMMA RegistryStepInactive ==
    ASSUME RegistryTypeOK, RegistryNext, NEW d \in Devices,
           status[d] \in Inactive
    PROVE  status'[d] \in Inactive
<1>1. CASE \E e \in Enrollers : EnrollInsert(e)
  <2> PICK e \in Enrollers : EnrollInsert(e)
    BY <1>1
  <2>1. d # enroll[e].dev
    BY DEF EnrollInsert, KeyIsFree, Inactive
  <2> QED BY <2>1 DEF EnrollInsert, RegistryTypeOK
<1>2. CASE \E a \in Admins : AdminUpdate(a)
  <2> PICK a \in Admins : AdminUpdate(a)
    BY <1>2
  <2>1. admin[a].target \in Inactive
    BY DEF AdminUpdate, RegistryTypeOK, AdminRequest, NoAdmin
  <2> QED BY <2>1 DEF AdminUpdate, RegistryTypeOK, Column, NewStatus
<1>3. CASE UNCHANGED status
  BY <1>3
<1> QED
  BY <1>1, <1>2, <1>3 DEF RegistryNext, EnrollFind, EnrollConflict, LoseEnroll,
     AdminFind, AdminSelect, AdminAudit, LoseAdmin

(***************************************************************************)
(* Every step of the registry is a step of TerminalLife or leaves the      *)
(* table alone: an INSERT needs a free key, and an UPDATE is of a row that *)
(* its request found.  That a row once found stays found is what the type  *)
(* invariant does not say and FoundRowsStay adds.                          *)
(***************************************************************************)
FoundRowsStay ==
    \A a \in Admins : admin[a] # NoAdmin => status[admin[a].dev] # "absent"

LEMMA RegistryStepLife ==
    ASSUME RegistryTypeOK, FoundRowsStay, RegistryNext
    PROVE  Life!Next \/ UNCHANGED status
<1>1. CASE \E e \in Enrollers : EnrollInsert(e)
  <2> PICK e \in Enrollers : EnrollInsert(e)
    BY <1>1
  <2>1. enroll[e].dev \in Devices
    BY DEF EnrollInsert, RegistryTypeOK, EnrollRequest, NoEnroll
  <2>2. Life!Enroll(enroll[e].dev)
    BY DEF EnrollInsert, KeyIsFree, Life!Enroll
  <2> QED BY <2>1, <2>2 DEF Life!Next
<1>2. CASE \E a \in Admins : AdminUpdate(a)
  <2> PICK a \in Admins : AdminUpdate(a)
    BY <1>2
  <2>1. /\ admin[a] # NoAdmin
        /\ admin[a].dev \in Devices
        /\ admin[a].target \in Inactive
    BY DEF AdminUpdate, RegistryTypeOK, AdminRequest, NoAdmin
  <2>2. status[admin[a].dev] # "absent"
    BY <2>1 DEF FoundRowsStay
  <2>3. CASE admin[a].target = admin[a].loaded
    BY <2>1, <2>3 DEF AdminUpdate, NewStatus, Column, RegistryTypeOK
  <2>4. CASE admin[a].target # admin[a].loaded
    <3>1. Life!Deactivate(admin[a].dev, admin[a].target)
      BY <2>2, <2>4 DEF AdminUpdate, NewStatus, Column, Life!Deactivate
    <3>2. admin[a].target \in Life!Inactive
      BY <2>1 DEF Inactive, Life!Inactive
    <3> QED BY <2>1, <3>1, <3>2 DEF Life!Next
  <2> QED BY <2>3, <2>4
<1>3. CASE UNCHANGED status
  BY <1>3
<1> QED
  BY <1>1, <1>2, <1>3 DEF RegistryNext, EnrollFind, EnrollConflict, LoseEnroll,
     AdminFind, AdminSelect, AdminAudit, LoseAdmin

LEMMA FoundRowsStayStep ==
    ASSUME RegistryTypeOK, FoundRowsStay, RegistryNext
    PROVE  FoundRowsStay'
<1>1. \A d \in Devices : status[d] # "absent" => status'[d] # "absent"
  <2>1. CASE Life!Next
    BY <2>1 DEF Life!Next, Life!Enroll, Life!Deactivate, Life!Inactive, RegistryTypeOK
  <2>2. CASE UNCHANGED status
    BY <2>2
  <2> QED BY <2>1, <2>2, RegistryStepLife
<1>2. SUFFICES ASSUME NEW a \in Admins, admin'[a] # NoAdmin
               PROVE  status'[admin'[a].dev] # "absent"
  BY DEF FoundRowsStay
<1>3. CASE admin'[a] = admin[a]
  BY <1>1, <1>2, <1>3 DEF FoundRowsStay, RegistryTypeOK, AdminRequest, NoAdmin
<1>4. CASE \E d \in Devices, target \in Inactive : AdminFind(a, d, target)
  <2> PICK d \in Devices, target \in Inactive : AdminFind(a, d, target)
    BY <1>4
  <2>1. admin'[a].dev = d
    BY DEF AdminFind, RegistryTypeOK
  <2> QED BY <2>1 DEF AdminFind
<1>5. CASE AdminSelect(a) \/ AdminUpdate(a)
  <2>1. admin'[a].dev = admin[a].dev /\ admin[a] # NoAdmin /\ admin[a].dev \in Devices
    BY <1>5 DEF AdminSelect, AdminUpdate, RegistryTypeOK, AdminRequest, NoAdmin
  <2> QED BY <1>1, <2>1 DEF FoundRowsStay
<1>6. CASE AdminAudit(a) \/ LoseAdmin(a)
  BY <1>2, <1>6 DEF AdminAudit, LoseAdmin, RegistryTypeOK
<1> QED
  BY <1>3, <1>4, <1>5, <1>6 DEF RegistryNext, EnrollFind, EnrollInsert,
     EnrollConflict, LoseEnroll, AdminFind, AdminSelect, AdminUpdate,
     AdminAudit, LoseAdmin, RegistryTypeOK

(***************************************************************************)
(* The registry implements the life of terminals that LoginSession and     *)
(* DeviceKeyStore rely on.                                                 *)
(***************************************************************************)
THEOREM TerminalLifeImplemented == RegistrySpec => ImplementsTerminalLife
<1>1. RegistryInit => Life!Init /\ FoundRowsStay
  BY DEF RegistryInit, Life!Init, FoundRowsStay
<1>2. RegistryTypeOK /\ FoundRowsStay /\ [RegistryNext]_registryVars => FoundRowsStay'
  BY FoundRowsStayStep DEF registryVars, FoundRowsStay
<1>3. RegistryTypeOK /\ FoundRowsStay /\ [RegistryNext]_registryVars => [Life!Next]_status
  BY RegistryStepLife DEF registryVars
<1> QED
  BY <1>1, <1>2, <1>3, RegistryTypeCorrect, PTL
     DEF RegistrySpec, ImplementsTerminalLife, Life!Spec

(***************************************************************************)
(* The inductive form of DeactivationLogIsTruthful: the entry of a request *)
(* will be true from its save on, also when that save wrote nothing        *)
(* because the row it loaded had the status already.                       *)
(***************************************************************************)
LogInv ==
    /\ \A entry \in audit :
          entry.entity \in Devices /\ status[entry.entity] \in Inactive
    /\ \A a \in Admins :
          LET r == admin[a] IN
          /\ r.pc = "update" /\ r.loaded \in Inactive => status[r.dev] \in Inactive
          /\ r.pc = "audit" => status[r.dev] \in Inactive

LEMMA LogRequestStep ==
    ASSUME RegistryTypeOK, LogInv, RegistryNext, NEW a \in Admins
    PROVE  /\ admin'[a].pc = "update" /\ admin'[a].loaded \in Inactive
              => status'[admin'[a].dev] \in Inactive
           /\ admin'[a].pc = "audit" => status'[admin'[a].dev] \in Inactive
<1> USE DEF RegistryTypeOK
<1>1. \A d \in Devices : status[d] \in Inactive => status'[d] \in Inactive
  BY RegistryStepInactive
<1>2. CASE admin'[a] = admin[a]
  <2>1. admin[a].pc \in {"update", "audit"} => admin[a].dev \in Devices
    BY DEF AdminRequest, NoAdmin
  <2> QED BY <1>1, <1>2, <2>1 DEF LogInv
<1>3. CASE \E d \in Devices, target \in Inactive : AdminFind(a, d, target)
  BY <1>3 DEF AdminFind
<1>4. CASE AdminSelect(a)
  <2>1. admin'[a].pc = "update" /\ admin'[a].dev = admin[a].dev
        /\ admin'[a].loaded = status[admin[a].dev] /\ status' = status
    BY <1>4 DEF AdminSelect, AdminRequest, NoAdmin
  <2> QED BY <2>1
<1>5. CASE AdminUpdate(a)
  <2>1. /\ admin'[a].pc = "audit" /\ admin'[a].dev = admin[a].dev
        /\ admin[a].dev \in Devices /\ admin[a].target \in Inactive
    BY <1>5 DEF AdminUpdate, AdminRequest, NoAdmin
  <2>2. status'[admin[a].dev] \in Inactive
    BY <1>5, <2>1 DEF AdminUpdate, Column, NewStatus, LogInv
  <2> QED BY <2>1, <2>2
<1>6. CASE AdminAudit(a) \/ LoseAdmin(a)
  BY <1>6 DEF AdminAudit, LoseAdmin, NoAdmin
<1> QED
  BY <1>2, <1>3, <1>4, <1>5, <1>6 DEF RegistryNext, EnrollFind, EnrollInsert,
     EnrollConflict, LoseEnroll, AdminFind, AdminSelect, AdminUpdate,
     AdminAudit, LoseAdmin

LEMMA LogEntryStep ==
    ASSUME RegistryTypeOK, LogInv, RegistryNext, NEW entry \in audit'
    PROVE  entry.entity \in Devices /\ status'[entry.entity] \in Inactive
<1>1. CASE entry \in audit
  BY <1>1, RegistryStepInactive DEF LogInv
<1>2. ASSUME NEW a \in Admins, AdminAudit(a), entry \notin audit
      PROVE  entry.entity \in Devices /\ status'[entry.entity] \in Inactive
  <2>1. admin[a].dev \in Devices
    BY <1>2 DEF AdminAudit, RegistryTypeOK, AdminRequest, NoAdmin
  <2>2. entry.entity = admin[a].dev /\ status' = status
    BY <1>2 DEF AdminAudit, Record, Entry
  <2> QED BY <1>2, <2>1, <2>2 DEF AdminAudit, LogInv
<1> QED
  BY <1>1, <1>2 DEF RegistryNext, EnrollFind, EnrollInsert, EnrollConflict,
     LoseEnroll, AdminFind, AdminSelect, AdminUpdate, LoseAdmin

(***************************************************************************)
(* What the log says of a deactivation is true of the table, whichever     *)
(* requests overlap or die.                                                *)
(***************************************************************************)
THEOREM DeactivationLogTruthful == RegistrySpec => []DeactivationLogIsTruthful
<1>1. RegistryInit => LogInv
  BY DEF RegistryInit, LogInv, NoAdmin
<1>2. RegistryTypeOK /\ LogInv /\ [RegistryNext]_registryVars => LogInv'
  <2>1. ASSUME LogInv, UNCHANGED registryVars
        PROVE  LogInv'
    BY <2>1 DEF LogInv, registryVars
  <2>2. ASSUME RegistryTypeOK, LogInv, RegistryNext
        PROVE  LogInv'
    BY <2>2, LogRequestStep, LogEntryStep DEF LogInv
  <2> QED BY <2>1, <2>2
<1>3. LogInv => DeactivationLogIsTruthful
  BY DEF LogInv, DeactivationLogIsTruthful
<1> QED BY <1>1, <1>2, <1>3, RegistryTypeCorrect, PTL DEF RegistrySpec

=============================================================================
