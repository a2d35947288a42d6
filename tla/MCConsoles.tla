----------------------------- MODULE MCConsoles -----------------------------
EXTENDS Consoles, TLC
CONSTANTS h1, h2, k1, k2, k3
MCRoute == <<h1, h2>>
MCHandshakes == Sessions \X {1, 2}
MCHostOf == [x \in MCHandshakes |-> MCRoute[x[2]]]
MCKindOf == [k \in Keys |-> IF k = k3 THEN "ecdsa" ELSE "ed25519"]
MCKnownHosts == [h \in Hosts |-> IF h = h1 THEN {k1} ELSE {}]
=============================================================================
