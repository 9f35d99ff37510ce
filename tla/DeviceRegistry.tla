--------------------------- MODULE DeviceRegistry ---------------------------
(***************************************************************************)
(* The table of enrolled terminals and the three requests that change it:  *)
(* enroll, block and revoke (src/src/devices/devices.service.ts), one      *)
(* action per await as Persistence says.                                   *)
(*                                                                         *)
(* A terminal stands for its key pair: publicKey is unique, so a row of    *)
(* the table is determined by it.  The columns blockedReason, lastSyncAt   *)
(* and the dates are left out: no code of the backend reads them.          *)
(***************************************************************************)
EXTENDS Persistence, Integers, FiniteSets

CONSTANTS
    Devices,      \* the terminals, one per key pair
    PreEnrolled,  \* those already in the table when the model starts
    Enrollers,    \* slots of concurrent POST /devices/enroll requests
    Admins,       \* slots of concurrent block and revoke requests
    Faults,       \* TRUE when a request may die at any await
    None          \* no terminal, no ticket, no person

ASSUME RegistryAssumption ==
    /\ PreEnrolled \subseteq Devices
    /\ Faults \in BOOLEAN
    /\ None \notin Devices

VARIABLES
    status,  \* the table: the status of each terminal, "absent" with no row
    enroll,  \* the enroll requests in flight
    admin    \* the block and revoke requests in flight

registryVars == <<status, audit, enroll, admin>>

DeviceStatus == {"active", "blocked", "revoked"}
Inactive == {"blocked", "revoked"}

DeviceAudit == [action : {"DEVICE_BLOCK", "DEVICE_REVOKE"},
                entity : Devices, actor : Admins]

-----------------------------------------------------------------------------
(* enroll: findOne by public key, then an INSERT that the unique index on  *)
(* publicKey refuses when another request inserted the key meanwhile.      *)

NoEnroll == [pc |-> "idle", dev |-> None]
EnrollRequest == {NoEnroll} \cup [pc : {"insert"}, dev : Devices]

\* The unique index on publicKey.
KeyNotUnique(d) == TRUE
KeyIsFree(d) == status[d] = "absent"

EnrollFind(e, d) ==
    /\ enroll[e] = NoEnroll
    /\ status[d] = "absent"
    /\ enroll' = [enroll EXCEPT ![e] = [pc |-> "insert", dev |-> d]]
    /\ UNCHANGED <<status, audit, admin>>

EnrollInsert(e) ==
    LET d == enroll[e].dev IN
    /\ enroll[e].pc = "insert"
    /\ KeyIsFree(d)
    /\ status' = [status EXCEPT ![d] = "active"]
    /\ enroll' = [enroll EXCEPT ![e] = NoEnroll]
    /\ UNCHANGED <<audit, admin>>

EnrollConflict(e) ==
    /\ enroll[e].pc = "insert"
    /\ ~KeyIsFree(enroll[e].dev)
    /\ enroll' = [enroll EXCEPT ![e] = NoEnroll]
    /\ UNCHANGED <<status, audit, admin>>

-----------------------------------------------------------------------------
(* block and revoke: getOrThrow, save (SELECT and UPDATE), audit.  Neither *)
(* looks at the status it read.                                            *)

NoAdmin == [pc |-> "idle", dev |-> None, target |-> "none", loaded |-> "absent"]
AdminRequest ==
    {NoAdmin} \cup
    [pc : {"select", "update", "audit"}, dev : Devices,
     target : Inactive, loaded : DeviceStatus \cup {"absent"}]

NewStatusIsReason(target) == "lost"
\* The status block or revoke writes into the entity it loaded.
NewStatus(target) == target

AdminAction(target) ==
    IF target = "revoked" THEN "DEVICE_REVOKE" ELSE "DEVICE_BLOCK"

AdminFind(a, d, target) ==
    /\ admin[a] = NoAdmin
    /\ status[d] # "absent"
    /\ admin' = [admin EXCEPT ![a] = [pc |-> "select", dev |-> d,
                                      target |-> target, loaded |-> "absent"]]
    /\ UNCHANGED <<status, audit, enroll>>

AdminSelect(a) ==
    /\ admin[a].pc = "select"
    /\ admin' = [admin EXCEPT ![a].pc = "update",
                              ![a].loaded = status[admin[a].dev]]
    /\ UNCHANGED <<status, audit, enroll>>

AdminUpdate(a) ==
    LET r == admin[a] IN
    /\ r.pc = "update"
    /\ status' = [status EXCEPT ![r.dev] =
                     Column(NewStatus(r.target), r.loaded, status[r.dev])]
    /\ admin' = [admin EXCEPT ![a].pc = "audit"]
    /\ UNCHANGED <<audit, enroll>>

AdminAudit(a) ==
    /\ admin[a].pc = "audit"
    /\ Record(AdminAction(admin[a].target), admin[a].dev, a)
    /\ admin' = [admin EXCEPT ![a] = NoAdmin]
    /\ UNCHANGED <<status, enroll>>

-----------------------------------------------------------------------------
(* The process dies, or the database answers the statement with an error:  *)
(* the request is gone and what it wrote stays.                            *)

LoseEnroll(e) ==
    /\ Faults
    /\ enroll[e] # NoEnroll
    /\ enroll' = [enroll EXCEPT ![e] = NoEnroll]
    /\ UNCHANGED <<status, audit, admin>>

LoseAdmin(a) ==
    /\ Faults
    /\ admin[a] # NoAdmin
    /\ admin' = [admin EXCEPT ![a] = NoAdmin]
    /\ UNCHANGED <<status, audit, enroll>>

-----------------------------------------------------------------------------

RegistryInit ==
    /\ status = [d \in Devices |->
                    IF d \in PreEnrolled THEN "active" ELSE "absent"]
    /\ audit = {}
    /\ enroll = [e \in Enrollers |-> NoEnroll]
    /\ admin = [a \in Admins |-> NoAdmin]

AdminStep(a) == AdminSelect(a) \/ AdminUpdate(a) \/ AdminAudit(a)

RegistryNext ==
    \/ \E e \in Enrollers :
          \/ \E d \in Devices : EnrollFind(e, d)
          \/ EnrollInsert(e)
          \/ EnrollConflict(e)
          \/ LoseEnroll(e)
    \/ \E a \in Admins :
          \/ \E d \in Devices, target \in Inactive : AdminFind(a, d, target)
          \/ AdminSelect(a)
          \/ AdminUpdate(a)
          \/ AdminAudit(a)
          \/ LoseAdmin(a)

RegistrySpec == RegistryInit /\ [][RegistryNext]_registryVars

-----------------------------------------------------------------------------
(* Properties.                                                             *)

\* The shape of the table and of the requests in flight.
RegistryTypeOK ==
    /\ status \in [Devices -> DeviceStatus \cup {"absent"}]
    /\ enroll \in [Enrollers -> EnrollRequest]
    /\ admin \in [Admins -> AdminRequest]

\* A terminal of which the log says that it was blocked or revoked is out of
\* use: the entry follows the save, no stale save of another request and no
\* enrollment race puts the terminal back, and a request that died before its
\* save left no entry.
DeactivationLogIsTruthful ==
    \A entry \in audit :
        entry.action \in {"DEVICE_BLOCK", "DEVICE_REVOKE"} =>
            status[entry.entity] \in Inactive

\* A terminal is blocked, or revoked, only with the entry of a block, or of a
\* revocation, in the log, or with the request that did it about to write it.
\* A request that dies between its save and its entry breaks this.
DeactivationIsAudited ==
    \A d \in Devices, target \in Inactive : status[d] = target =>
        \/ \E entry \in audit :
              entry.entity = d /\ entry.action = AdminAction(target)
        \/ \E a \in Admins : /\ admin[a].pc = "audit"
                              /\ admin[a].dev = d
                              /\ admin[a].target = target

\* A terminal somebody started to block or to revoke ends out of use, even when
\* both requests run at the same time and each saves what it loaded.
DeactivationCompletes ==
    \A a \in Admins, d \in Devices :
        (admin[a].dev = d) ~> (status[d] \in Inactive)

\* Whoever reads the status of a terminal sees the life of TerminalLife: the
\* statements of all the requests, whichever dies, come down to one enrollment
\* and to deactivations of a terminal that exists, or to nothing.
Life == INSTANCE TerminalLife
ImplementsTerminalLife == Life!Spec

-----------------------------------------------------------------------------
(* What the comments of the code say, and the code does not do.            *)

\* The comment of revoke says that it is irreversible.
RevocationIsFinal ==
    [][\A d \in Devices : status[d] = "revoked" => status'[d] = "revoked"]_status

=============================================================================
