------------------------------- MODULE MCCrash -------------------------------
(***************************************************************************)
(* What survives a crash: the secret store with two secrets, so that one   *)
(* can be sealed before and one after an interrupted switch, or one file   *)
(* of any store.                                                           *)
(***************************************************************************)
EXTENDS SecretStorage, Files, TLC

CONSTANTS s1, s2

VARIABLE part

MCSecrets == {s1, s2}
Symmetry == Permutations(MCSecrets)

MCInit ==
  /\ part \in {"secrets", "files"} /\ Init /\ FilesInit
  /\ part = "secrets" => request = [adds |-> TRUE, item |-> CHOOSE i \in Items : TRUE]
  /\ part = "files" => keystore

MCNext ==
  \/ part = "secrets" /\ Next /\ UNCHANGED <<part, fileVars>>
  \/ part = "files" /\ FilesNext /\ UNCHANGED <<part, vars>>

MCSpec == MCInit /\ [][MCNext]_<<part, vars, fileVars>>
=============================================================================
