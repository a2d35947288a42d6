------------------------- MODULE SecretStorageProofs -------------------------
(***************************************************************************)
(* Proofs about SecretStorage.tla for any number of secrets and keys: no   *)
(* crash and no failed write short of a torn switch orphans a secret, an   *)
(* unlocked session reads all of them, a settled store is uniform and an   *)
(* interrupted switch can be finished.                                     *)
(*                                                                         *)
(* The reason behind all four is one: at every moment all secrets are      *)
(* sealed by ONE backend, the recorded mode or the target of the switch    *)
(* that is marked, and which of the two is known wherever a step depends   *)
(* on it.  Families says so for every value of call.at; DocKeys and        *)
(* SessionKeys say where the keys are.  A torn switch gives up these       *)
(* three, never Shape.                                                     *)
(***************************************************************************)
EXTENDS SecretStorage, Files, TLAPS

Uniform(m) == \A s \in Secrets : doc[s] # None => doc[s].by = m

(* What the program counter and the config say of each other.              *)
Shape ==
  /\ config.mode = None => /\ config.migration = None /\ config.kdf = NoKey
                           /\ call.at \in {"down", "persist"}
  /\ config.migration # config.mode \/ config.mode = None
  /\ call.at = "persist" => config.mode = None /\ call.op = "boot"
  /\ call.at \in {"persist", "mark", "convert", "flip", "drop"} => call.to \in Modes
  /\ call.at = "mark" => call.op = "set" /\ call.to # activeMode
  /\ call.at \in {"convert", "flip"} =>
       /\ call.to = config.migration
       /\ call.to = "master-password" => call.key = config.kdf

(* Where the key of a sealed secret is.                                    *)
DocKeys ==
  \A s \in Secrets : doc[s] # None =>
    /\ doc[s].by = "app-key" => doc[s].key # NoKey /\ doc[s].key = keyFile
    /\ doc[s].by = "master-password" =>
         doc[s].key = config.kdf \/ (lost /\ config.kdf = NoKey)

(* What the session seals with is what the files hold.                     *)
SessionKeys ==
  /\ activeMode = "app-key" => appKey = keyFile
  /\ activeMode = "master-password" => masterKey \in {NoKey, config.kdf}
  /\ call.at \in {"mark", "convert", "flip"} =>
       /\ activeMode = config.mode
       /\ call.to = "app-key" => appKey = keyFile
  /\ call.at \in {"convert", "flip"} /\ call.to = "master-password" => masterKey = config.kdf
  /\ call.at = "convert" /\ call.op # "set" =>
       /\ "app-key" \in {config.mode, config.migration} => appKey = keyFile /\ appKey # NoKey
       /\ PendingNeedsPassword => masterKey = config.kdf /\ masterKey # NoKey
  /\ call.at \in {"down", "persist", "resume"} => activeMode = "os-keychain"

(* The one backend that seals the secrets.                                 *)
Families ==
  /\ config.mode = None => \E m \in Modes : Uniform(m)
  /\ config.mode # None =>
       Uniform(config.mode) \/ (PendingMigration /\ Uniform(config.migration))
  /\ call.at = "persist" => Uniform(call.to)
  /\ call.at = "configure" => PendingNeedsPassword \/ Uniform(config.mode)
  /\ call.at = "idle" => \/ activeMode = config.mode /\ Uniform(activeMode)
                         \/ PendingNeedsPassword /\ IsLocked
  /\ call.at = "mark" => Uniform(activeMode)
  /\ call.at = "convert" /\ call.op = "set" => Uniform(config.mode)
  /\ call.at = "flip" => Uniform(call.to)
  /\ call.at = "drop" => /\ call.to # "app-key" /\ call.to = config.mode
                         /\ activeMode = config.mode /\ Uniform(config.mode)

IInv ==
  /\ TypeOK
  /\ Shape
  /\ ~torn => DocKeys /\ SessionKeys /\ Families
-----------------------------------------------------------------------------
(* Launch.                                                                 *)

LEMMA LaunchKeeps ==
  ASSUME IInv, Launch
  PROVE  IInv'
<1> USE DEF IInv, Launch
<1>1. TypeOK'
  BY PlatformAssumption DEF Modes, session, history, Keys, Sealed, Configs,
                            Ops, Stops, Calls, TypeOK, Started,
                            EnsureAppKey, InferMode
<1>2. Shape'
  BY DEF Modes, Started, InferMode, Shape
<1>3. ASSUME ~torn' PROVE DocKeys'
  BY <1>3 DEF history, EnsureAppKey, DocKeys
<1>4. ASSUME ~torn' PROVE SessionKeys'
  BY <1>4 DEF session, history, Started, SessionKeys
<1>5. ASSUME ~torn' PROVE Families'
  BY <1>5 DEF Modes, history, Started, PendingMigration, SealedInFamily,
              InferMode, Uniform, Families
<1>6. QED
  BY <1>1, <1>2, <1>3, <1>4, <1>5

LEMMA PersistKeeps ==
  ASSUME IInv, Persist
  PROVE  IInv'
<1> USE DEF IInv, Persist
<1>1. TypeOK'
  BY DEF session, history, Keys, Sealed, Configs, Ops, Stops, Calls, TypeOK,
         Started
<1>2. Shape'
  BY NoneAssumption DEF Started, Shape
<1>3. ASSUME ~torn' PROVE DocKeys'
  BY <1>3 DEF history, Shape, DocKeys
<1>4. ASSUME ~torn' PROVE SessionKeys'
  BY <1>4 DEF session, history, Started, SessionKeys
<1>5. ASSUME ~torn' PROVE Families'
  BY <1>5 DEF history, Sealed, TypeOK, Started, Uniform, Families
<1>6. QED
  BY <1>1, <1>2, <1>3, <1>4, <1>5

LEMMA BootResumeKeeps ==
  ASSUME IInv, BootResume
  PROVE  IInv'
<1> USE DEF IInv, BootResume
<1>1. TypeOK'
  BY PlatformAssumption DEF history, Keys, Sealed, Configs, Ops, Stops,
                            Calls, TypeOK, Started, EnsureAppKey,
                            LoadForResume, Shape
<1>2. Shape'
  BY DEF Configs, TypeOK, Started, NeedsPassword, PendingMigration,
         PendingNeedsPassword, Shape
<1>3. ASSUME ~torn' PROVE DocKeys'
  BY <1>3 DEF history, EnsureAppKey, LoadForResume, DocKeys
<1>4. ASSUME ~torn' PROVE SessionKeys'
  BY <1>4 DEF NoKey, TypeOK, Started, NeedsPassword, PendingNeedsPassword,
              EnsureAppKey, LoadForResume, SessionKeys
<1>5. ASSUME ~torn' PROVE Families'
  BY <1>5 DEF history, Started, PendingMigration, Uniform, Families
<1>6. QED
  BY <1>1, <1>2, <1>3, <1>4, <1>5

LEMMA BootSkipKeeps ==
  ASSUME IInv, BootSkip
  PROVE  IInv'
<1> USE DEF IInv, BootSkip
<1>1. TypeOK'
  BY DEF durable, session, history, Keys, Sealed, Configs, Stops, Calls,
         TypeOK, Reaches
<1>2. Shape'
  BY DEF durable, Reaches, Shape
<1>3. ASSUME ~torn' PROVE DocKeys'
  BY <1>3 DEF durable, history, DocKeys
<1>4. ASSUME ~torn' PROVE SessionKeys'
  BY <1>4 DEF session, history, Reaches, SessionKeys
<1>5. ASSUME ~torn' PROVE Families'
  BY <1>5 DEF durable, history, Reaches, PendingMigration,
              PendingNeedsPassword, Uniform, Shape, Families
<1>6. QED
  BY <1>1, <1>2, <1>3, <1>4, <1>5

LEMMA ConfigureKeeps ==
  ASSUME IInv, Configure
  PROVE  IInv'
<1> USE DEF IInv, Configure
<1>1. TypeOK'
  BY PlatformAssumption DEF Modes, history, Keys, Sealed, Configs, Stops,
                            Calls, TypeOK, Reaches, EnsureAppKey,
                            BootedMode, Shape
<1>2. Shape'
  BY DEF Reaches, Shape
<1>3. ASSUME ~torn' PROVE DocKeys'
  BY <1>3 DEF history, EnsureAppKey, DocKeys
<1>4. ASSUME ~torn' PROVE SessionKeys'
  BY <1>4 DEF Reaches, SessionKeys
<1>5. ASSUME ~torn' PROVE Families'
  BY <1>5 DEF history, IsLocked, Reaches, PendingMigration,
              PendingNeedsPassword, BootedMode, Uniform, Families
<1>6. QED
  BY <1>1, <1>2, <1>3, <1>4, <1>5

-----------------------------------------------------------------------------
(* A switch: every step keeps one backend for all secrets.                 *)

LEMMA SetModeKeeps ==
  ASSUME IInv, NEW to \in Modes, SetMode(to)
  PROVE  IInv'
<1> USE DEF IInv, SetMode
<1>1. TypeOK'
  BY PlatformAssumption DEF history, Keys, Sealed, Configs, Ops, Stops,
                            Calls, TypeOK, Started, EnsureAppKey
<1>2. Shape'
  BY DEF Started, Shape
<1>3. ASSUME ~torn' PROVE DocKeys'
  BY <1>3 DEF history, EnsureAppKey, DocKeys
<1>4. ASSUME ~torn' PROVE SessionKeys'
  BY <1>4 DEF history, Started, SessionKeys, Families
<1>5. ASSUME ~torn' PROVE Families'
  BY <1>5 DEF history, Started, Uniform, Families
<1>6. QED
  BY <1>1, <1>2, <1>3, <1>4, <1>5

LEMMA MarkKeeps ==
  ASSUME IInv, Mark
  PROVE  IInv'
<1> USE DEF IInv, Mark
<1>1. TypeOK'
  BY DEF history, Keys, Sealed, Configs, Stops, Calls, TypeOK, Reaches
<1>2. Shape'
  BY NoneAssumption DEF TypeOK, Reaches, Shape
<1>3. ASSUME ~torn' PROVE DocKeys'
  BY <1>3 DEF history, Uniform, Shape, DocKeys, Families
<1>4. ASSUME ~torn' PROVE SessionKeys'
  BY <1>4 DEF history, Reaches, Shape, SessionKeys
<1>5. ASSUME ~torn' PROVE Families'
  BY <1>5 DEF history, TypeOK, Reaches, Uniform, Families
<1>6. QED
  BY <1>1, <1>2, <1>3, <1>4, <1>5

LEMMA ConvertKeeps ==
  ASSUME IInv, Convert
  PROVE  IInv'
<1> USE DEF IInv, Convert
<1>1. TypeOK'
  BY DEF Modes, session, history, Keys, Sealed, Configs, Stops, Calls,
         TypeOK, SealedBy, Reaches, Shape
<1>2. Shape'
  BY DEF Reaches, Shape
<1>3. ASSUME ~torn' PROVE DocKeys'
  BY <1>3 DEF history, CanSeal, SealedBy, Convertible, DocKeys, SessionKeys
<1>4. ASSUME ~torn' PROVE SessionKeys'
  BY <1>4 DEF session, history, Reaches, SessionKeys
<1>5. ASSUME ~torn' PROVE Families'
  BY <1>5, NoneAssumption DEF SealedBy, Reaches, PendingMigration,
                              Stragglers, Uniform, Shape, Families
<1>6. QED
  BY <1>1, <1>2, <1>3, <1>4, <1>5

LEMMA GiveUpKeeps ==
  ASSUME IInv, GiveUp
  PROVE  IInv'
<1> USE DEF IInv, GiveUp
<1>1. TypeOK'
  BY NoneAssumption, PlatformAssumption DEF NoKey, history, Keys, Sealed,
                                            Configs, Ops, Stops, Calls,
                                            TypeOK, CanSeal, Opens, Reaches,
                                            Over, Stragglers, Convertible,
                                            Shape
<1>2. Shape'
  BY DEF Configs, Calls, TypeOK, Reaches, Over, Shape
<1>3. ASSUME ~torn' PROVE DocKeys'
  BY <1>3 DEF history, Configs, TypeOK, Stragglers, Convertible, Uniform,
              DocKeys, Families
<1>4. ASSUME ~torn' PROVE SessionKeys'
  BY <1>4 DEF history, Configs, TypeOK, Reaches, Over, SessionKeys
<1>5. ASSUME ~torn' PROVE Families'
  BY <1>5 DEF history, Configs, Calls, TypeOK, Reaches, Over, Stragglers,
              Convertible, Uniform, Shape, SessionKeys, Families
<1>6. QED
  BY <1>1, <1>2, <1>3, <1>4, <1>5

LEMMA FlipKeeps ==
  ASSUME IInv, Flip
  PROVE  IInv'
<1> USE DEF IInv, Flip
<1>1. TypeOK'
  BY DEF history, Keys, Sealed, Configs, Stops, Calls, TypeOK, Reaches,
         Over, Shape
<1>2. Shape'
  BY NoneAssumption DEF Reaches, Over, Shape
<1>3. ASSUME ~torn' PROVE DocKeys'
  BY <1>3 DEF history, Uniform, Shape, DocKeys, Families
<1>4. ASSUME ~torn' PROVE SessionKeys'
  BY <1>4 DEF Reaches, Over, SessionKeys
<1>5. ASSUME ~torn' PROVE Families'
  BY <1>5 DEF history, Sealed, TypeOK, Reaches, Over, Uniform, Families
<1>6. QED
  BY <1>1, <1>2, <1>3, <1>4, <1>5

LEMMA DropKeeps ==
  ASSUME IInv, Drop
  PROVE  IInv'
<1> USE DEF IInv, Drop
<1>1. TypeOK'
  BY DEF session, history, Keys, Sealed, Configs, Stops, Calls, TypeOK,
         Reaches, Over
<1>2. Shape'
  BY DEF Reaches, Over, Shape
<1>3. ASSUME ~torn' PROVE DocKeys'
  BY <1>3 DEF history, Uniform, DocKeys, Families
<1>4. ASSUME ~torn' PROVE SessionKeys'
  BY <1>4 DEF session, history, Reaches, Over, SessionKeys, Families
<1>5. ASSUME ~torn' PROVE Families'
  BY <1>5 DEF session, history, Reaches, Over, Uniform, Families
<1>6. QED
  BY <1>1, <1>2, <1>3, <1>4, <1>5

LEMMA WriteFailsKeeps ==
  ASSUME IInv, WriteFails
  PROVE  IInv'
<1> USE DEF IInv, WriteFails
<1>1. TypeOK'
  BY DEF durable, session, Keys, Sealed, Configs, Stops, Calls, TypeOK,
         Reaches, Over
<1>2. Shape'
  BY DEF durable, Reaches, Over, Shape
<1>3. ASSUME ~torn' PROVE DocKeys'
  BY <1>3 DEF durable, DocKeys
<1>4. ASSUME ~torn' PROVE SessionKeys'
  BY <1>4 DEF durable, session, TypeOK, Reaches, Over, SessionKeys
<1>5. ASSUME ~torn' PROVE Families'
  BY <1>5 DEF durable, session, Calls, TypeOK, Reaches, Over, Uniform,
              SessionKeys, Families
<1>6. QED
  BY <1>1, <1>2, <1>3, <1>4, <1>5

-----------------------------------------------------------------------------
(* The session.                                                            *)

LEMMA UnlockKeeps ==
  ASSUME IInv, Unlock
  PROVE  IInv'
<1> USE DEF IInv, Unlock
<1>1. TypeOK'
  BY PlatformAssumption DEF history, Keys, Sealed, Configs, Ops, Stops,
                            Calls, TypeOK, Started, EnsureAppKey,
                            LoadForResume, Shape
<1>2. Shape'
  BY DEF Configs, TypeOK, Started, PendingMigration, Shape
<1>3. ASSUME ~torn' PROVE DocKeys'
  BY <1>3 DEF history, EnsureAppKey, LoadForResume, DocKeys
<1>4. ASSUME ~torn' PROVE SessionKeys'
  BY <1>4 DEF NoKey, history, TypeOK, Started, EnsureAppKey, LoadForResume,
              SessionKeys
<1>5. ASSUME ~torn' PROVE Families'
  BY <1>5 DEF history, Started, PendingMigration, PendingNeedsPassword,
              Uniform, Families
<1>6. QED
  BY <1>1, <1>2, <1>3, <1>4, <1>5

LEMMA LockKeeps ==
  ASSUME IInv, Lock
  PROVE  IInv'
<1> USE DEF IInv, Lock
<1>1. TypeOK'
  BY DEF durable, history, Keys, Sealed, Configs, Calls, TypeOK
<1>2. Shape'
  BY DEF durable, Shape
<1>3. ASSUME ~torn' PROVE DocKeys'
  BY <1>3 DEF durable, history, DocKeys
<1>4. ASSUME ~torn' PROVE SessionKeys'
  BY <1>4 DEF durable, history, SessionKeys
<1>5. ASSUME ~torn' PROVE Families'
  BY <1>5 DEF durable, history, IsLocked, PendingMigration,
              PendingNeedsPassword, Uniform, Families
<1>6. QED
  BY <1>1, <1>2, <1>3, <1>4, <1>5

LEMMA SaveKeeps ==
  ASSUME IInv, NEW s \in Secrets, Save(s)
  PROVE  IInv'
<1> USE DEF IInv, Save
<1>1. TypeOK'
  BY DEF Modes, session, history, Keys, Sealed, Configs, Calls, TypeOK,
         SealedBy
<1>2. Shape'
  BY DEF Shape
<1>3. ASSUME ~torn' PROVE DocKeys'
  BY <1>3 DEF history, TypeOK, CanSeal, SealedBy, DocKeys, SessionKeys
<1>4. ASSUME ~torn' PROVE SessionKeys'
  BY <1>4 DEF session, history, SessionKeys
<1>5. ASSUME ~torn' PROVE Families'
  BY <1>5 DEF session, history, TypeOK, IsLocked, CanSeal, SealedBy,
              Uniform, Families
<1>6. QED
  BY <1>1, <1>2, <1>3, <1>4, <1>5

LEMMA ClearKeeps ==
  ASSUME IInv, NEW s \in Secrets, Clear(s)
  PROVE  IInv'
<1> USE DEF IInv, Clear
<1>1. TypeOK'
  BY DEF session, history, Keys, Sealed, Configs, Calls, TypeOK
<1>2. Shape'
  BY DEF Shape
<1>3. ASSUME ~torn' PROVE DocKeys'
  BY <1>3 DEF history, DocKeys
<1>4. ASSUME ~torn' PROVE SessionKeys'
  BY <1>4 DEF session, history, SessionKeys
<1>5. ASSUME ~torn' PROVE Families'
  BY <1>5 DEF session, history, IsLocked, PendingMigration,
              PendingNeedsPassword, Uniform, Families
<1>6. QED
  BY <1>1, <1>2, <1>3, <1>4, <1>5

-----------------------------------------------------------------------------
(* The environment.                                                        *)

LEMMA CrashKeeps ==
  ASSUME IInv, Crash
  PROVE  IInv'
<1> USE DEF IInv, Crash
<1>1. TypeOK'
  BY DEF Modes, durable, history, Keys, Sealed, Configs, Ops, Stops, Calls,
         TypeOK, Started
<1>2. Shape'
  BY DEF durable, Started, Shape
<1>3. ASSUME ~torn' PROVE DocKeys'
  BY <1>3 DEF durable, history, DocKeys
<1>4. ASSUME ~torn' PROVE SessionKeys'
  BY <1>4 DEF Started, SessionKeys
<1>5. ASSUME ~torn' PROVE Families'
  BY <1>5 DEF durable, history, Started, PendingMigration, Uniform, Families
<1>6. QED
  BY <1>1, <1>2, <1>3, <1>4, <1>5

LEMMA LoseConfigKeeps ==
  ASSUME IInv, LoseConfig
  PROVE  IInv'
<1> USE DEF IInv, LoseConfig
<1>1. TypeOK'
  BY DEF session, Keys, Sealed, Configs, Calls, TypeOK
<1>2. Shape'
  BY DEF Shape
<1>3. ASSUME ~torn' PROVE DocKeys'
  BY <1>3 DEF DocKeys
<1>4. ASSUME ~torn' PROVE SessionKeys'
  BY <1>4 DEF session, SessionKeys
<1>5. ASSUME ~torn' PROVE Families'
  BY <1>5 DEF Sealed, TypeOK, Uniform, Families
<1>6. QED
  BY <1>1, <1>2, <1>3, <1>4, <1>5

LEMMA KeystoreChangesKeeps ==
  ASSUME IInv, KeystoreChanges
  PROVE  IInv'
<1> USE DEF IInv, KeystoreChanges
<1>1. TypeOK'
  BY DEF durable, session, history, Keys, Sealed, Configs, Calls, TypeOK
<1>2. Shape'
  BY DEF durable, session, Shape
<1>3. ASSUME ~torn' PROVE DocKeys'
  BY <1>3 DEF durable, history, DocKeys
<1>4. ASSUME ~torn' PROVE SessionKeys'
  BY <1>4 DEF durable, session, history, PendingMigration,
              PendingNeedsPassword, SessionKeys
<1>5. ASSUME ~torn' PROVE Families'
  BY <1>5 DEF durable, session, history, IsLocked, PendingMigration,
              PendingNeedsPassword, Uniform, Families
<1>6. QED
  BY <1>1, <1>2, <1>3, <1>4, <1>5

-----------------------------------------------------------------------------
LEMMA InitSound == Init => IInv
<1> SUFFICES ASSUME Init PROVE IInv
  OBVIOUS
<1> USE NoneAssumption DEF Init, Started, NoKey, Modes
<1>1. TypeOK
  <2>1. config \in Configs /\ call \in Calls
    BY DEF Configs, Calls, Ops, Stops
  <2>2. minted \in 0..MaxKeys
    BY PlatformAssumption
  <2>3. QED
    BY <2>1, <2>2 DEF TypeOK
<1>2. Shape
  BY DEF Shape
<1>3. DocKeys /\ SessionKeys /\ Families
  BY DEF DocKeys, SessionKeys, Families, Uniform
<1>4. QED
  BY <1>1, <1>2, <1>3 DEF IInv

(* Every reachable state has one backend that seals every secret, and the  *)
(* keys it takes, unless a switch past its conversion was torn by a failed *)
(* write.                                                                  *)
(* secret-storage.js:244-307, 338-409, 413-439, 514-578                    *)
THEOREM Inductive == Spec => []IInv
<1>1. IInv /\ [Next]_vars => IInv'
  <2> SUFFICES ASSUME IInv, [Next]_vars PROVE IInv'
    OBVIOUS
  <2>1. CASE Launch
    BY <2>1, LaunchKeeps
  <2>2. CASE Persist
    BY <2>2, PersistKeeps
  <2>3. CASE BootResume
    BY <2>3, BootResumeKeeps
  <2>4. CASE BootSkip
    BY <2>4, BootSkipKeeps
  <2>5. CASE Configure
    BY <2>5, ConfigureKeeps
  <2>6. CASE \E to \in Modes : SetMode(to)
    BY <2>6, SetModeKeeps
  <2>7. CASE Mark
    BY <2>7, MarkKeeps
  <2>8. CASE Convert
    BY <2>8, ConvertKeeps
  <2>9. CASE GiveUp
    BY <2>9, GiveUpKeeps
  <2>10. CASE Flip
    BY <2>10, FlipKeeps
  <2>11. CASE Drop
    BY <2>11, DropKeeps
  <2>12. CASE WriteFails
    BY <2>12, WriteFailsKeeps
  <2>13. CASE Unlock
    BY <2>13, UnlockKeeps
  <2>14. CASE Lock
    BY <2>14, LockKeeps
  <2>15. CASE \E s \in Secrets : Save(s) \/ Clear(s)
    BY <2>15, SaveKeeps, ClearKeeps
  <2>16. CASE Crash
    BY <2>16, CrashKeeps
  <2>17. CASE LoseConfig
    BY <2>17, LoseConfigKeeps
  <2>18. CASE KeystoreChanges
    BY <2>18, KeystoreChangesKeeps
  <2>19. CASE UNCHANGED vars
    BY <2>19 DEF vars, IInv, TypeOK, Shape, DocKeys, SessionKeys, Families, Uniform,
                 IsLocked, PendingMigration, PendingNeedsPassword, NeedsPassword,
                 Configs, Keys, Sealed, Calls
  <2>20. QED
    BY <2>1, <2>2, <2>3, <2>4, <2>5, <2>6, <2>7, <2>8, <2>9, <2>10, <2>11, <2>12,
       <2>13, <2>14, <2>15, <2>16, <2>17, <2>18, <2>19 DEF Next
<1>2. QED
  BY <1>1, InitSound, PTL DEF Spec

-----------------------------------------------------------------------------
(* No crash, keychain outage or failed write between two steps of a switch *)
(* leaves a secret without the key that opens it, as long as no write has  *)
(* failed in a switch past its conversion.  (secret-storage.js:34-41)      *)
THEOREM NoSecretIsOrphaned == Spec => []NoneOrphaned
<1>1. IInv => NoneOrphaned
  BY DEF IInv, DocKeys, NoneOrphaned, AllHaveTheirKey, HasItsKey, TypeOK, Sealed, Modes
<1>2. QED
  BY <1>1, Inductive, PTL

(* With no switch pending every secret is sealed by the recorded mode, and *)
(* the session runs it.  (secret-storage.js:514-516, 553-578)              *)
THEOREM SettlesUniform == Spec => []SettledIsUniform
<1>1. IInv => SettledIsUniform
  BY DEF IInv, Families, Uniform, SettledIsUniform, PendingNeedsPassword
<1>2. QED
  BY <1>1, Inductive, PTL

(* An idle, unlocked session with a working keychain opens every secret,   *)
(* whatever switch is pending.  (secret-storage.js:287-291, 424-429)       *)
THEOREM UnlockedSessionReads == Spec => []UnlockedReadsAll
<1>1. IInv => UnlockedReadsAll
  <2> SUFFICES ASSUME IInv, call.at = "idle", ~IsLocked, keystore, ~torn,
                      NEW s \in Secrets, doc[s] # None
               PROVE  Opens(doc[s])
    BY DEF UnlockedReadsAll
  <2>1. doc[s].by = activeMode /\ activeMode = config.mode
    BY DEF IInv, Families, Uniform
  <2>2. doc[s].by = "app-key" => appKey # NoKey /\ appKey = doc[s].key
    BY <2>1 DEF IInv, DocKeys, SessionKeys
  <2>3. doc[s].by = "master-password" => masterKey # NoKey /\ masterKey = doc[s].key
    BY <2>1 DEF IInv, DocKeys, SessionKeys, IsLocked
  <2>4. doc[s].by \in Modes
    BY DEF IInv, TypeOK, Sealed
  <2>5. QED
    BY <2>2, <2>3, <2>4 DEF Opens, Modes
<1>2. QED
  BY <1>1, Inductive, PTL

(* A switch that launch or unlock resumes finds every key it needs: it can *)
(* always be finished once the keychain is there.                          *)
(* secret-storage.js:263-276, 424-439                                      *)
THEOREM ResumedSwitchFinishes == Spec => []ResumeCanFinish
<1>1. IInv => ResumeCanFinish
  <2> SUFFICES ASSUME IInv, call.at = "convert", call.op # "set", keystore, ~torn,
                      NEW s \in Stragglers
               PROVE  Opens(doc[s]) /\ CanSeal(call.to)
    BY DEF ResumeCanFinish, Convertible
  <2>1. s \in Secrets /\ doc[s] # None /\ doc[s].by # call.to
    BY DEF Stragglers
  <2>2. /\ config.mode # None
        /\ call.to = config.migration /\ call.to \in Modes
        /\ PendingMigration
    BY NoneAssumption DEF IInv, Shape, PendingMigration
  <2>3. doc[s].by = config.mode /\ doc[s].by \in Modes
    BY <2>1, <2>2 DEF IInv, Families, Uniform, TypeOK, Sealed
  <2>4. /\ "app-key" \in {config.mode, call.to} => appKey = keyFile /\ appKey # NoKey
        /\ "master-password" \in {config.mode, call.to} =>
             masterKey = config.kdf /\ masterKey # NoKey
    BY <2>2 DEF IInv, SessionKeys, PendingNeedsPassword, NeedsPassword
  <2>5. Opens(doc[s])
    BY <2>1, <2>3, <2>4 DEF IInv, DocKeys, Opens, Modes
  <2>6. CanSeal(call.to)
    BY <2>2, <2>4 DEF CanSeal, Modes
  <2>7. QED
    BY <2>5, <2>6
<1>2. QED
  BY <1>1, Inductive, PTL

-----------------------------------------------------------------------------
(***************************************************************************)
(* The write protocol of Files.tla keeps what its callers were told and    *)
(* implements DurableDoc.tla: every step of a store request, of a kill, a     *)
(* power loss, a restart or a damage maps to a step of the abstract        *)
(* document or to a stutter.                                               *)
(*                                                                         *)
(* Inv says what the names between OpenTemp and Rename are for: the temp   *)
(* file named by the counter holds what the request wants to write, whole and *)
(* flushed when it is renamed, and that document is one item away from the *)
(* one a reader sees.                                                      *)
(***************************************************************************)

\* What a request is about to put in place.
OneItemAway(d) ==
  \E i \in Items : d = ItemsOf(shown) \cup {i} \/ d = ItemsOf(shown) \ {i}

WriteIsReady ==
  /\ pc \in {"open", "fill", "flush", "rename"} => OneItemAway(next)
  /\ pc \in {"fill", "flush", "rename"} => count \in DOMAIN temps
  /\ pc \in {"flush", "rename"} => temps[count].data = next
  /\ pc = "rename" => temps[count].flushed = TRUE
  /\ pc = "sync" => shown = next

\* The types the proof needs: the bounds of the counter are not among them.
Types ==
  /\ shown \in Content
  /\ kept \in SUBSET Content
  /\ \A n \in DOMAIN temps : temps[n] \in Temp
  /\ temps = [n \in DOMAIN temps |-> temps[n]]
  /\ request \in Requests
  /\ next \in SUBSET Items

Inv ==
  /\ Types
  /\ shown \in kept
  /\ WriteIsReady
  /\ AckedSurvives

-----------------------------------------------------------------------------
\* Documents are contents, and none of them is Missing or Torn.
LEMMA Contents ==
  /\ \A d \in SUBSET Items : d \in Content /\ ItemsOf(d) = d
  /\ \A c \in Content : ItemsOf(c) \in SUBSET Items
  /\ Missing \in Content /\ Torn \in Content
  /\ ItemsOf(Missing) = {} /\ ItemsOf(Torn) = {}
BY ItemsAssumption DEF Content, ItemsOf

\* The initial states satisfy Inv.
LEMMA InitInv == FilesInit => Inv
<1> SUFFICES ASSUME FilesInit PROVE Inv
  OBVIOUS
<1>1. Types
  BY Contents DEF FilesInit, Types
<1>2. shown \in kept /\ WriteIsReady
  BY DEF FilesInit, WriteIsReady
<1>3. AckedSurvives
  BY Contents DEF FilesInit, AckedSurvives
<1> QED
  BY <1>1, <1>2, <1>3 DEF Inv

\* Every step keeps Inv, one case per action.
LEMMA StepInv == Inv /\ [FilesNext]_fileVars => Inv'
<1> SUFFICES ASSUME Inv, [FilesNext]_fileVars PROVE Inv'
  OBVIOUS
<1> USE DEF Inv
<1>1. ASSUME NEW c \in Requests, Call(c) PROVE Inv'
  BY <1>1 DEF Call, Types, WriteIsReady, AckedSurvives
<1>2. CASE Load
  <2>1. CASE pc' = "idle" /\ UNCHANGED <<shown, kept, next>>
    BY <1>2, <2>1 DEF Load, Types, WriteIsReady, AckedSurvives
  <2>2. CASE ~(pc' = "idle" /\ UNCHANGED <<shown, kept, next>>)
    <3>1. PICK aside \in BOOLEAN :
            LET base  == ItemsOf(shown)
                moved == shown = Torn /\ aside
            IN /\ shown' = IF moved THEN Missing ELSE shown
               /\ kept' = IF moved THEN kept \cup {Missing} ELSE kept
               /\ next' = IF request.adds THEN base \cup {request.item}
                                       ELSE base \ {request.item}
               /\ pc' = IF request.adds \/ request.item \in base THEN "open" ELSE "idle"
      BY <1>2, <2>2 DEF Load
    <3>2. UNCHANGED <<temps, count, request, owed>>
      BY <1>2 DEF Load
    <3>3. ItemsOf(shown') = ItemsOf(shown) /\ request.item \in Items
          /\ ItemsOf(shown) \in SUBSET Items
      BY <3>1, Contents DEF Types, Requests
    <3>4. Types'
      BY <3>1, <3>2, <3>3, Contents DEF Types
    <3>5. WriteIsReady' /\ (shown \in kept)'
      BY <3>1, <3>2, <3>3 DEF WriteIsReady, OneItemAway
    <3>6. AckedSurvives'
      BY <3>1, <3>2, <3>3, Contents DEF AckedSurvives
    <3> QED
      BY <3>4, <3>5, <3>6
  <2> QED
    BY <2>1, <2>2
<1>3. CASE OpenTemp
  BY <1>3, Contents DEF OpenTemp, Types, Temp, WriteIsReady, OneItemAway, AckedSurvives
<1>4. CASE FillTemp
  BY <1>4, Contents DEF FillTemp, Types, Temp, WriteIsReady, OneItemAway, AckedSurvives
<1>5. CASE FlushTemp
  BY <1>5, Contents DEF FlushTemp, Types, Temp, WriteIsReady, OneItemAway, AckedSurvives
<1>6. CASE Rename
  BY <1>6, Contents
  DEF Rename, Types, Temp, Without, Surviving, WriteIsReady, AckedSurvives
<1>7. CASE SyncDir
  BY <1>7, Contents DEF SyncDir, Types, WriteIsReady, AckedSurvives
<1>8. CASE Fail
  BY <1>8 DEF Fail, Types, Without, WriteIsReady, AckedSurvives
<1>9. CASE Kill
  BY <1>9 DEF Kill, Types, WriteIsReady, AckedSurvives
<1>10. CASE PowerLoss
  BY <1>10, Contents DEF PowerLoss, Types, Temp, Surviving, WriteIsReady, AckedSurvives
<1>11. CASE Restart
  BY <1>11 DEF Restart, Types, WriteIsReady, AckedSurvives
<1>12. CASE Damage
  BY <1>12, Contents DEF Damage, Types, WriteIsReady, AckedSurvives
<1>13. CASE UNCHANGED fileVars
  BY <1>13 DEF fileVars, Types, WriteIsReady, OneItemAway, AckedSurvives
<1> QED
  BY <1>1, <1>2, <1>3, <1>4, <1>5, <1>6, <1>7, <1>8, <1>9, <1>10, <1>11,
     <1>12, <1>13 DEF FilesNext

\* What a caller was told is there survives kills and power losses, and a request
\* that failed or was cut off changed nothing or everything.
THEOREM AckedChangesSurvive == FilesSpec => []AckedSurvives
<1>1. Inv => AckedSurvives
  BY DEF Inv
<1> QED
  BY <1>1, InitInv, StepInv, PTL DEF FilesSpec

-----------------------------------------------------------------------------
\* The abstract document as the refinement mapping sees it.
Back == {ItemsOf(c) : c \in kept}

\* A step under Inv is a step of the abstract document or a stutter of it.
LEMMA StepImplements ==
  Inv /\ Inv' /\ [FilesNext]_fileVars => [Durable!Next]_(Durable!vars)
<1> SUFFICES ASSUME Inv, Inv', [FilesNext]_fileVars PROVE [Durable!Next]_(Durable!vars)
  OBVIOUS
<1> DEFINE Still == ItemsOf(shown)' = ItemsOf(shown) /\ Back' = Back
<1>1. ASSUME Still PROVE [Durable!Next]_(Durable!vars)
  BY <1>1 DEF Durable!vars, Back
<1>2. ASSUME UNCHANGED <<shown, kept>> PROVE Still
  BY <1>2 DEF Back
<1>3. CASE Load
  <2>1. \/ shown' = shown /\ kept' = kept
        \/ shown = Torn /\ shown' = Missing /\ kept' = kept \cup {Missing}
    BY <1>3 DEF Load
  <2>2. shown \in kept
    BY DEF Inv
  <2> QED BY <1>1, <1>2, <2>1, <2>2, Contents DEF Back
<1>4. CASE Rename
  <2>1. shown' = next /\ kept' = kept \cup {next} /\ OneItemAway(next)
    BY <1>4 DEF Rename, Inv, WriteIsReady, Surviving
  <2>2. next \in SUBSET Items /\ ItemsOf(next) = next
    BY Contents DEF Inv, Types
  <2>3. ItemsOf(shown)' = next /\ Back' = Back \cup {next}
    BY <2>1, <2>2 DEF Back
  <2>4. Durable!Put(next)
    BY <2>1, <2>3 DEF Durable!Put, OneItemAway, Back
  <2> QED
    BY <2>2, <2>4 DEF Durable!Next
<1>5. CASE SyncDir
  <2>1. ItemsOf(shown)' = ItemsOf(shown) /\ (Back' = Back \/ Back' = {ItemsOf(shown)})
    BY <1>5 DEF SyncDir, Back
  <2>2. Back' = Back \/ Durable!Settle
    BY <2>1 DEF Durable!Settle, Back
  <2> QED
    BY <1>1, <2>1, <2>2 DEF Durable!Next
<1>6. CASE PowerLoss
  <2>1. PICK c \in kept : shown' = c /\ kept' = {c}
    BY <1>6 DEF PowerLoss
  <2>2. Durable!Lose
    BY <2>1 DEF Durable!Lose
  <2> QED
    BY <2>2 DEF Durable!Next
<1>7. CASE Damage
  <2>1. Durable!Spoil
    BY <1>7, Contents DEF Damage, Durable!Spoil
  <2> QED
    BY <2>1 DEF Durable!Next
<1>8. CASE \/ \E c \in Requests : Call(c)
           \/ OpenTemp \/ FillTemp \/ FlushTemp \/ Fail \/ Kill \/ Restart
           \/ UNCHANGED fileVars
  BY <1>1, <1>2, <1>8
  DEF Call, OpenTemp, FillTemp, FlushTemp, Fail, Kill, Restart, fileVars
<1> QED
  BY <1>3, <1>4, <1>5, <1>6, <1>7, <1>8 DEF FilesNext

\* The write protocol implements the document that changes whole.
THEOREM FilesImplementDurableDoc == FilesSpec => ImplementsDurableDoc
<1>1. ASSUME FilesInit PROVE Durable!Init
  <2>1. shown = Missing /\ kept = {Missing}
    BY <1>1 DEF FilesInit
  <2>2. {ItemsOf(c) : c \in {Missing}} = {ItemsOf(Missing)}
    OBVIOUS
  <2> QED
    BY <2>1, <2>2, Contents DEF Durable!Init
<1>2. FilesSpec => []Inv
  BY InitInv, StepInv, PTL DEF FilesSpec
<1> QED
  BY <1>1, <1>2, StepImplements, PTL DEF FilesSpec, ImplementsDurableDoc, Durable!Spec
=============================================================================
