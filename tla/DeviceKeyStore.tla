---------------------------- MODULE DeviceKeyStore ----------------------------
(***************************************************************************)
(* The key pair of a phone: generated in memory, enrolled with the server, *)
(* then written to the secure storage in two steps                         *)
(* (src/mobile/lib/core/crypto/ed25519_key_service.dart,                   *)
(* core/storage/secure_storage_service.dart,                               *)
(* features/enrollment/enrollment_screen.dart).  The application may be    *)
(* killed between any two awaits: the storage survives, the memory does    *)
(* not.                                                                    *)
(*                                                                         *)
(* A key stands for the terminal that is enrolled with it, as in           *)
(* DeviceRegistry; the server's side of the terminals is TerminalLife.     *)
(* A key pair is random; it is known here by its number, in the order in   *)
(* which the phone generates them.                                         *)
(***************************************************************************)
EXTENDS Integers

CONSTANTS
    Keys,  \* the key pairs the phone may generate, by number
    None   \* no key, no terminal, no ticket

ASSUME KeyStoreAssumption == Keys \subseteq Nat /\ None \notin Keys

VARIABLES
    status,     \* the server's table of terminals
    cache,      \* _cachedKeyPair, in memory
    storedKey,  \* device_ed25519_private_key
    storedId,   \* device_id
    enrolling,  \* how far the enrollment that generated each key has come
    session,    \* the terminal in the token of the agent, None if no agent is in
    renewed     \* history: a key was generated although the phone had a terminal
                \* or was getting one

keyVars == <<status, cache, storedKey, storedId, enrolling, session, renewed>>

Terminals == INSTANCE TerminalLife WITH Devices <- Keys

UnderWay == {"asked", "granted", "keyWritten"}
Stages == UnderWay \cup {"new", "over"}

\* A supervisor, signed in instead of the agent, enrolls the phone.  The new key
\* replaces the one in memory before the server has answered.  _loading belongs to
\* the screen: on one opened anew, an enrollment starts while another is under way.
GenerateKeyPair(k) ==
    /\ session = None
    /\ enrolling[k] = "new"
    /\ \A j \in Keys : j < k => enrolling[j] # "new"
    /\ enrolling' = [enrolling EXCEPT ![k] = "asked"]
    /\ cache' = k
    /\ renewed' = \/ renewed
                  \/ storedId # None
                  \/ \E j \in Keys : enrolling[j] \in UnderWay
    /\ UNCHANGED <<status, storedKey, storedId, session>>

EnrollOnServer(k) ==
    /\ enrolling[k] = "asked"
    /\ Terminals!Enroll(k)
    /\ enrolling' = [enrolling EXCEPT ![k] = "granted"]
    /\ UNCHANGED <<cache, storedKey, storedId, session, renewed>>

\* The server refuses, its answer does not arrive, or a write to the storage
\* fails: the error is shown, and the key in memory stays.
EnrollFails(k) ==
    /\ enrolling[k] \in UnderWay
    /\ enrolling' = [enrolling EXCEPT ![k] = "over"]
    /\ UNCHANGED <<status, cache, storedKey, storedId, session, renewed>>

\* A variant for the mutation checks: a stored key is never overwritten.
WriteKeyOnce(k) ==
    /\ enrolling[k] = "granted"
    /\ storedKey' = IF storedKey = None THEN k ELSE storedKey
    /\ enrolling' = [enrolling EXCEPT ![k] = "keyWritten"]
    /\ UNCHANGED <<status, cache, storedId, session, renewed>>

\* persistKeyPair: the key first, then the terminal.
WriteKey(k) ==
    /\ enrolling[k] = "granted"
    /\ storedKey' = k
    /\ enrolling' = [enrolling EXCEPT ![k] = "keyWritten"]
    /\ UNCHANGED <<status, cache, storedId, session, renewed>>

WriteId(k) ==
    /\ enrolling[k] = "keyWritten"
    /\ storedId' = k
    /\ enrolling' = [enrolling EXCEPT ![k] = "over"]
    /\ UNCHANGED <<status, cache, storedKey, session, renewed>>

\* The agent signs in; the token carries the stored terminal (LoginSession).
AgentLogin ==
    /\ session = None
    /\ storedId # None
    /\ status[storedId] = "active"
    /\ session' = storedId
    /\ UNCHANGED <<status, cache, storedKey, storedId, enrolling, renewed>>

\* The agent logs out, or the application locks itself when it starts.
SignOut ==
    /\ session # None
    /\ session' = None
    /\ UNCHANGED <<status, cache, storedKey, storedId, enrolling, renewed>>

\* The mairie blocks or revokes a terminal.
TerminalDeactivated ==
    /\ \E k \in Keys, target \in Terminals!Inactive : Terminals!Deactivate(k, target)
    /\ UNCHANGED <<cache, storedKey, storedId, enrolling, session, renewed>>

\* _loadKeyPair: the key in memory if there is one, else the stored one.
LoadedKey == IF cache # None THEN cache ELSE storedKey

KeyInit ==
    /\ status = [k \in Keys |-> "absent"]
    /\ cache = None /\ storedKey = None /\ storedId = None
    /\ enrolling = [k \in Keys |-> "new"]
    /\ session = None
    /\ renewed = FALSE

\* Every key the phone holds is one it generated.
KeyTypeOK ==
    /\ status \in [Keys -> {"absent", "active"} \cup Terminals!Inactive]
    /\ enrolling \in [Keys -> Stages]
    /\ {cache, storedKey, storedId, session}
          \subseteq {k \in Keys : enrolling[k] # "new"} \cup {None}
    /\ renewed \in BOOLEAN

=============================================================================
