--------------------------- MODULE SecretStorage ---------------------------
(***************************************************************************)
(* The at-rest secret storage: which of three backends seals the secrets   *)
(* of tunnels.json, and how a switch of backend survives a crash.          *)
(* src/app/store/secret-storage.js, with the session keys of crypto.js and *)
(* the sealing done by credential-store.js.                                *)
(*                                                                         *)
(* Every operation is synchronous, so no two interleave; but the process   *)
(* can die between any two file writes.  A call is therefore a program     *)
(* counter (`call.at`) and a step makes at most one durable change, after  *)
(* which Crash may strike.  atomicWrite() makes each file all-or-nothing,  *)
(* so one write is one step.                                               *)
(*                                                                         *)
(* Key material is a number, fresh each time one is minted; the OS         *)
(* keychain's key never changes and is NoKey.  A password stands for the   *)
(* key derived from it with the salt in the config: a wrong one changes    *)
(* nothing and is left out, and so is an iteration count.                  *)
(***************************************************************************)
EXTENDS Naturals, FiniteSets

CONSTANTS
  Secrets,  \* the secret fields of the credentials in tunnels.json
  None,     \* null
  Windows,  \* BOOLEAN: process.platform = "win32"
  MaxKeys   \* BOUND: app keys and master keys minted in a behaviour

ASSUME PlatformAssumption == Windows \in BOOLEAN /\ MaxKeys \in Nat

Modes == {"app-key", "os-keychain", "master-password"}

ASSUME NoneAssumption == None \notin Modes

NoKey == 0

VARIABLES
  config,      \* secret-storage.json: mode, migration target, kdf + verifier
  keyFile,     \* the app-key file
  doc,         \* tunnels.json: how each secret is sealed
  keystore,    \* safeStorage.isEncryptionAvailable(), as the OS has it
  activeMode,  \* crypto._activeMode
  appKey,      \* crypto._appKey
  masterKey,   \* crypto._masterKey
  call,        \* the operation in progress and how far it got
  minted,      \* how many keys have been minted
  torn,        \* history: a write failed in a switch already past its conversion
  lost         \* history: the config file was lost

durable == <<config, keyFile, doc>>
session == <<activeMode, appKey, masterKey>>
vars == <<config, keyFile, doc, keystore, activeMode, appKey, masterKey, call,
          minted, torn, lost>>

history == <<torn, lost>>

Keys == 1..minted

Sealed == [by : Modes, key : {NoKey} \cup Keys]

(* `mode` is None while there is no config file.  The marker's `from` is   *)
(* always the recorded mode, so `migration` is its `to`.  `kdf` is the key *)
(* that the stored salt and verifier belong to.                            *)
Configs == [mode : Modes \cup {None}, migration : Modes \cup {None},
            kdf : {NoKey} \cup Keys]

Ops == {"boot", "set", "unlock"}

Stops == {"down", "idle", "persist", "resume", "mark", "convert", "flip", "drop",
          "configure"}

Calls == [op : Ops, at : Stops, to : Modes \cup {None}, key : {NoKey} \cup Keys]

TypeOK ==
  /\ config \in Configs
  /\ keyFile \in {NoKey} \cup Keys
  /\ doc \in [Secrets -> Sealed \cup {None}]
  /\ keystore \in BOOLEAN
  /\ activeMode \in Modes
  /\ appKey \in {NoKey} \cup Keys
  /\ masterKey \in {NoKey} \cup Keys
  /\ call \in Calls
  /\ minted \in 0..MaxKeys
  /\ torn \in BOOLEAN
  /\ lost \in BOOLEAN

-----------------------------------------------------------------------------
(* crypto.js                                                               *)

IsLocked == activeMode = "master-password" /\ masterKey = NoKey

(* _rawEncryptTo refuses without the key, or without the keychain.         *)
CanSeal(mode) ==
  CASE mode = "os-keychain"     -> keystore
    [] mode = "app-key"         -> appKey # NoKey
    [] mode = "master-password" -> masterKey # NoKey

SealedBy(mode) ==
  [by  |-> mode,
   key |-> CASE mode = "os-keychain"     -> NoKey
             [] mode = "app-key"         -> appKey
             [] mode = "master-password" -> masterKey]

(* decryptString dispatches on the prefix; the GCM tag tells a wrong key.  *)
Opens(v) ==
  CASE v.by = "os-keychain"     -> keystore
    [] v.by = "app-key"         -> appKey # NoKey /\ appKey = v.key
    [] v.by = "master-password" -> masterKey # NoKey /\ masterKey = v.key

-----------------------------------------------------------------------------
Started(op, at, to, key) == [op |-> op, at |-> at, to |-> to, key |-> key]
Reaches(at) == [call EXCEPT !.at = at]

(* Where a call goes when it is over: bootstrap() still has to load the    *)
(* backend, setMode() and unlock() return.                                 *)
Over == Reaches(IF call.op = "boot" THEN "configure" ELSE "idle")

NeedsPassword(from, to) == "master-password" \in {from, to}

PendingMigration == config.migration # None
PendingNeedsPassword ==
  PendingMigration /\ NeedsPassword(config.mode, config.migration)

(* ensureAppKey(): the key in the file, a fresh one written if there is    *)
(* none.                                                                   *)
EnsureAppKey ==
  IF keyFile # NoKey
  THEN UNCHANGED <<keyFile, minted>>
  ELSE minted < MaxKeys /\ minted' = minted + 1 /\ keyFile' = minted + 1

SealedInFamily(mode) == \E s \in Secrets : doc[s] # None /\ doc[s].by = mode

InferMode ==
  IF SealedInFamily("master-password") THEN "master-password"
  ELSE IF SealedInFamily("os-keychain") THEN "os-keychain"
  ELSE IF SealedInFamily("app-key") THEN "app-key"
  ELSE IF Windows /\ keystore THEN "os-keychain" ELSE "app-key"

(* Mutant: the source's key is not loaded.                                 *)
LoadForResume_Mutant(key) ==
  /\ IF config.migration = "app-key"
     THEN EnsureAppKey /\ appKey' = keyFile'
     ELSE appKey' = NoKey /\ UNCHANGED <<keyFile, minted>>
  /\ activeMode' = config.mode
  /\ masterKey' = key

(* The loading of keys at the head of resumeMigration().                   *)
LoadForResume(key) ==
  /\ IF "app-key" \in {config.mode, config.migration}
     THEN EnsureAppKey
     ELSE UNCHANGED <<keyFile, minted>>
  /\ activeMode' = config.mode
  /\ appKey' = keyFile'
  /\ masterKey' = key

-----------------------------------------------------------------------------
Init ==
  /\ config = [mode |-> None, migration |-> None, kdf |-> NoKey]
  /\ keyFile = NoKey
  /\ doc = [s \in Secrets |-> None]
  /\ keystore \in BOOLEAN
  /\ activeMode = "os-keychain"
  /\ appKey = NoKey
  /\ masterKey = NoKey
  /\ call = Started("boot", "down", None, NoKey)
  /\ minted = 0
  /\ torn = FALSE
  /\ lost = FALSE

(* The process starts: bootstrap() reads the config, or infers the mode    *)
(* and, for app-key, makes sure of the key file.                           *)
Launch ==
  /\ call.at = "down"
  /\ IF config.mode = None
     THEN /\ call' = Started("boot", "persist", InferMode, NoKey)
          /\ IF InferMode = "app-key"
             THEN EnsureAppKey
             ELSE UNCHANGED <<keyFile, minted>>
     ELSE /\ call' = Started("boot", "resume", None, NoKey)
          /\ UNCHANGED <<keyFile, minted>>
  /\ UNCHANGED <<config, doc, keystore, session, history>>

(* _inferAndPersist(): the inferred mode is recorded.                      *)
Persist ==
  /\ call.at = "persist"
  /\ config' = [mode |-> call.to, migration |-> None, kdf |-> NoKey]
  /\ call' = Started("boot", "resume", None, NoKey)
  /\ UNCHANGED <<keyFile, doc, keystore, session, minted, history>>

(* bootstrap() finishes an interrupted switch that needs no password; one  *)
(* that does waits for unlock().                                           *)
BootResume ==
  /\ call.at = "resume"
  /\ PendingMigration /\ ~PendingNeedsPassword
  /\ LoadForResume(NoKey)
  /\ call' = Started("boot", "convert", config.migration, NoKey)
  /\ UNCHANGED <<config, doc, keystore, history>>

BootSkip ==
  /\ call.at = "resume"
  /\ PendingMigration => PendingNeedsPassword
  /\ call' = Reaches("configure")
  /\ UNCHANGED <<durable, keystore, session, minted, history>>

(* The end of bootstrap(): a pending switch to or from a password boots    *)
(* locked in master-password mode; the app key is loaded when it exists.   *)
BootedMode == IF PendingNeedsPassword THEN "master-password" ELSE config.mode

Configure ==
  /\ call.at = "configure"
  /\ IF BootedMode = "app-key"
     THEN EnsureAppKey
     ELSE UNCHANGED <<keyFile, minted>>
  /\ activeMode' = BootedMode
  /\ appKey' = keyFile'
  /\ masterKey' = NoKey
  /\ call' = Reaches("idle")
  /\ UNCHANGED <<config, doc, keystore, history>>

-----------------------------------------------------------------------------
(* setMode(): the guards and the target's key material.                    *)
SetMode(to) ==
  /\ call.at = "idle"
  /\ to # activeMode
  /\ ~IsLocked
  /\ \/ /\ to = "app-key"
        /\ EnsureAppKey
        /\ appKey' = keyFile'
        /\ call' = Started("set", "mark", to, NoKey)
     \/ /\ to = "os-keychain"
        /\ keystore
        /\ call' = Started("set", "mark", to, NoKey)
        /\ UNCHANGED <<keyFile, minted, appKey>>
     \/ /\ to = "master-password"
        /\ minted < MaxKeys
        /\ minted' = minted + 1
        /\ call' = Started("set", "mark", to, minted + 1)
        /\ UNCHANGED <<keyFile, appKey>>
  /\ UNCHANGED <<config, doc, keystore, activeMode, masterKey, history>>

(* Mutant: the salt and verifier of a password being left are dropped.     *)
Mark_Mutant ==
  /\ call.at = "mark"
  /\ config' = [mode |-> activeMode, migration |-> call.to, kdf |-> call.key]
  /\ masterKey' = IF call.key # NoKey THEN call.key ELSE masterKey
  /\ call' = Reaches("convert")
  /\ UNCHANGED <<keyFile, doc, keystore, activeMode, appKey, minted, history>>

(* markMigration(): the recorded mode stays `from`, key material that is   *)
(* already there is kept.                                                  *)
Mark ==
  /\ call.at = "mark"
  /\ LET toPassword == call.to = "master-password"
     IN  /\ config' = [mode      |-> activeMode,
                       migration |-> call.to,
                       kdf       |-> IF toPassword THEN call.key ELSE config.kdf]
         /\ masterKey' = IF toPassword THEN call.key ELSE masterKey
  /\ call' = Reaches("convert")
  /\ UNCHANGED <<keyFile, doc, keystore, activeMode, appKey, minted, history>>

(* reencryptValue() passes the target's own prefix through untouched.      *)
Stragglers == {s \in Secrets : doc[s] # None /\ doc[s].by # call.to}

(* Pass 1 of reencryptAll().                                               *)
Convertible == \A s \in Stragglers : Opens(doc[s]) /\ CanSeal(call.to)

(* Mutant: no validating pass, what cannot be opened is left as it is.     *)
Convert_Mutant ==
  /\ call.at = "convert"
  /\ CanSeal(call.to)
  /\ doc' = [s \in Secrets |-> IF s \in Stragglers /\ Opens(doc[s])
                              THEN SealedBy(call.to) ELSE doc[s]]
  /\ call' = Reaches("flip")
  /\ UNCHANGED <<config, keyFile, keystore, session, minted, history>>

(* reencryptAll(), both passes: one write of tunnels.json.                 *)
Convert ==
  /\ call.at = "convert"
  /\ Convertible
  /\ doc' = [s \in Secrets |-> IF s \in Stragglers THEN SealedBy(call.to) ELSE doc[s]]
  /\ call' = Reaches("flip")
  /\ UNCHANGED <<config, keyFile, keystore, session, minted, history>>

(* Pass 1 found a secret it cannot open or seal: setMode() gives the switch *)
(* up, a resumed switch keeps its marker.                                  *)
GiveUp ==
  /\ call.at = "convert"
  /\ ~Convertible
  /\ IF call.op # "set"
     THEN UNCHANGED <<config, masterKey>>
     ELSE IF call.to = "master-password"
     THEN /\ config' = [config EXCEPT !.migration = None, !.kdf = NoKey]
          /\ masterKey' = NoKey
     ELSE /\ config' = [config EXCEPT !.migration = None]
          /\ UNCHANGED masterKey
  /\ call' = Over
  /\ UNCHANGED <<keyFile, doc, keystore, activeMode, appKey, minted, history>>

(* Mutant: the session's app key is cleared whatever the target.           *)
Flip_Mutant ==
  /\ call.at = "flip"
  /\ LET key == IF call.to = "master-password" THEN call.key ELSE NoKey
     IN  /\ config' = [mode |-> call.to, migration |-> None, kdf |-> key]
         /\ masterKey' = key
  /\ activeMode' = call.to
  /\ appKey' = NoKey
  /\ call' = IF call.to = "app-key" THEN Over ELSE Reaches("drop")
  /\ UNCHANGED <<keyFile, doc, keystore, minted, history>>

(* _flipMode(): the target config is written, the session follows.         *)
Flip ==
  /\ call.at = "flip"
  /\ LET key == IF call.to = "master-password" THEN call.key ELSE NoKey
     IN  /\ config' = [mode |-> call.to, migration |-> None, kdf |-> key]
         /\ masterKey' = key
  /\ activeMode' = call.to
  /\ appKey' = IF call.to = "app-key" THEN keyFile ELSE NoKey
  /\ call' = IF call.to = "app-key" THEN Over ELSE Reaches("drop")
  /\ UNCHANGED <<keyFile, doc, keystore, minted, history>>

(* deleteAppKey(), which swallows a failed removal.                        *)
Drop ==
  /\ call.at = "drop"
  /\ keyFile' \in {NoKey, keyFile}
  /\ call' = Over
  /\ UNCHANGED <<config, doc, keystore, session, minted, history>>

(* A write of the marker, of tunnels.json or of the target config throws:  *)
(* the exception leaves the call, past every clean-up.                     *)
WriteFails ==
  /\ call.at \in {"mark", "convert", "flip"}
  /\ call.at = "convert" => Convertible
  /\ torn' = (torn \/ call.at = "flip" \/ call.op # "set")
  /\ call' = Over
  /\ UNCHANGED <<durable, keystore, session, minted, lost>>

-----------------------------------------------------------------------------
(* unlock() with the right password, and the switch it finishes.           *)
Unlock ==
  /\ call.at = "idle"
  /\ config.kdf # NoKey
  /\ config.mode = "master-password" \/ PendingNeedsPassword
  /\ IF PendingMigration
     THEN /\ LoadForResume(config.kdf)
          /\ call' = Started("unlock", "convert", config.migration, config.kdf)
     ELSE /\ masterKey' = config.kdf
          /\ UNCHANGED <<keyFile, minted, activeMode, appKey, call>>
  /\ UNCHANGED <<config, doc, keystore, history>>

(* lock()                                                                  *)
Lock ==
  /\ call.at = "idle"
  /\ masterKey' = NoKey
  /\ UNCHANGED <<durable, keystore, activeMode, appKey, call, minted, history>>

(* A credential is saved with a new secret, sealed under the active mode.  *)
Save(s) ==
  /\ call.at = "idle"
  /\ CanSeal(activeMode)
  /\ doc' = [doc EXCEPT ![s] = SealedBy(activeMode)]
  /\ UNCHANGED <<config, keyFile, keystore, session, call, minted, history>>

(* A credential is deleted, or saved with its secret cleared.              *)
Clear(s) ==
  /\ call.at = "idle"
  /\ doc' = [doc EXCEPT ![s] = None]
  /\ UNCHANGED <<config, keyFile, keystore, session, call, minted, history>>

(* The process dies, or is quit, wherever it is.                           *)
Crash ==
  /\ call.at # "down"
  /\ call' = Started("boot", "down", None, NoKey)
  /\ activeMode' = "os-keychain"
  /\ appKey' = NoKey
  /\ masterKey' = NoKey
  /\ UNCHANGED <<durable, keystore, minted, history>>

(* While the program is down its config file is deleted, or found corrupt  *)
(* and set aside.                                                          *)
LoseConfig ==
  /\ call.at = "down"
  /\ config.mode # None
  /\ config' = [mode |-> None, migration |-> None, kdf |-> NoKey]
  /\ lost' = TRUE
  /\ UNCHANGED <<keyFile, doc, keystore, session, call, minted, torn>>

(* The OS keychain comes or goes.                                          *)
KeystoreChanges ==
  /\ keystore' = ~keystore
  /\ UNCHANGED <<durable, session, call, minted, history>>

Next ==
  \/ Launch \/ Persist \/ BootResume \/ BootSkip \/ Configure
  \/ \E to \in Modes : SetMode(to)
  \/ Mark \/ Convert \/ GiveUp \/ Flip \/ Drop \/ WriteFails
  \/ Unlock \/ Lock
  \/ \E s \in Secrets : Save(s) \/ Clear(s)
  \/ Crash \/ LoseConfig \/ KeystoreChanges

Spec == Init /\ [][Next]_vars

-----------------------------------------------------------------------------
(* A sealed secret whose key still exists: in the key file, in the OS, or  *)
(* derivable from the password and the salt in the config, unless the salt *)
(* went with a lost config.                                                *)
HasItsKey(v) ==
  CASE v.by = "os-keychain"     -> TRUE
    [] v.by = "app-key"         -> keyFile = v.key
    [] v.by = "master-password" -> config.kdf = v.key \/ lost

AllHaveTheirKey == \A s \in Secrets : doc[s] # None => HasItsKey(doc[s])

(* No crash, keychain outage or failed write between two steps of a switch *)
(* leaves a secret without the key that opens it, as long as no write has  *)
(* failed in a switch past its conversion.  (secret-storage.js:34-41)      *)
NoneOrphaned == ~torn => AllHaveTheirKey

(* An idle, unlocked session with a working keychain can open every        *)
(* secret, also while a switch is pending: the keys of both families are   *)
(* loaded.  (secret-storage.js:287-291, 424-429)                           *)
UnlockedReadsAll ==
  (call.at = "idle" /\ ~IsLocked /\ keystore /\ ~torn)
    => \A s \in Secrets : doc[s] # None => Opens(doc[s])

(* With no switch pending the session runs the recorded mode and every     *)
(* secret is sealed by it: a switch, an abandoned one and a resumed one    *)
(* all end with one family.  (secret-storage.js:514-516, 553-578)          *)
SettledIsUniform ==
  (call.at = "idle" /\ ~PendingMigration /\ ~torn)
    => /\ activeMode = config.mode
       /\ \A s \in Secrets : doc[s] # None => doc[s].by = config.mode

(* An interrupted switch can always be finished once the keychain is       *)
(* there: launch, or unlock with the password, finds every key it needs.   *)
(* (secret-storage.js:263-276, 424-439)                                    *)
ResumeCanFinish ==
  (call.at = "convert" /\ call.op # "set" /\ keystore /\ ~torn) => Convertible
=============================================================================
