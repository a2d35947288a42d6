------------------------------ MODULE MCTunnel ------------------------------
EXTENDS Tunnel, TLC

CONSTANTS MCKinds

Base == [remote |-> FALSE, keepAlive |-> FALSE, autoReconnect |-> FALSE,
         enabled |-> TRUE, port |-> 1]

Lazy == Base
Moved == [Base EXCEPT !.port = 2]
Auto == [Base EXCEPT !.autoReconnect = TRUE]
Kept == [Base EXCEPT !.keepAlive = TRUE]
Remote == [Base EXCEPT !.remote = TRUE]

DefOf == [lazy |-> Lazy, moved |-> Moved, auto |-> Auto, kept |-> Kept, remote |-> Remote,
          off |-> [Base EXCEPT !.enabled = FALSE]]

MCDefs == {DefOf[k] : k \in MCKinds}

(* BOUND: once a start or an edit has landed on a suspended call, every     *)
(* definition in play is one of these.                                      *)
Crossing == {DefOf["auto"], DefOf["remote"]}

InPlay == {saved, tun.def, tun.pendingDef} \cup {f.next : f \in tun.frames}

FewCrossings == crossed => InPlay \subseteq Crossing \cup {None}

(* No property says anything of the histories once `crossed` is set.        *)
WhatCounts == <<tun, saved, IF crossed THEN <<>> ELSE <<wanted, belated>>>>

(* NeedIsServed speaks of behaviours that stay Undisturbed: no others are   *)
(* generated.                                                              *)
CalmSpec == Init /\ [][Next /\ Undisturbed']_vars /\ Fairness

Symmetry == Permutations(Attempts) \cup Permutations(Conns) \cup Permutations(Socks)
=============================================================================
