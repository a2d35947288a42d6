------------------------------ MODULE MCEngine ------------------------------
(***************************************************************************)
(* The engine on its own, or what its broadcasts tell the user.            *)
(***************************************************************************)
EXTENDS Engine, Notices, TLC

VARIABLE part

MCInit ==
  /\ part \in {"engine", "notices"} /\ Init /\ NoticesInit
  /\ part = "notices" => store = [i \in Ids |-> "absent"]

MCNext ==
  \/ part = "engine" /\ Next /\ UNCHANGED <<part, noticeVars>>
  \/ part = "notices" /\ NoticesNext /\ UNCHANGED <<part, vars>>

MCSpec == MCInit /\ [][MCNext]_<<part, vars, noticeVars>>

Symmetry == Permutations(Tunnels) \cup Permutations(Calls)
=============================================================================
