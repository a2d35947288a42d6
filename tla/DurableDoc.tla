----------------------------- MODULE DurableDoc -----------------------------
(***************************************************************************)
(* What the storage layer promises a store about one document: a set of    *)
(* items that changes whole, one item at a time, and that after a power    *)
(* loss is one of the versions it has had since it was last made safe,     *)
(* never a part of one.  Files.tla is shown to implement it.               *)
(***************************************************************************)

CONSTANT Items

VARIABLES
  doc,    \* the items a read returns
  back    \* the versions a power loss may bring back, doc among them

vars == <<doc, back>>

Init == doc = {} /\ back = {{}}

\* One item more or one item less, visible at once, not yet safe.
Put(v) ==
  /\ \E i \in Items : v = doc \cup {i} \/ v = doc \ {i}
  /\ doc' = v
  /\ back' = back \cup {v}

\* The current version is made safe: there is nothing else to fall back to.
Settle == back' = {doc} /\ doc' = doc

Lose == \E v \in back : doc' = v /\ back' = {v}

\* The medium or a user's editor destroys the file: the document is empty.
Spoil == doc' = {} /\ back' = {{}}

Next == \/ \E v \in SUBSET Items : Put(v)
        \/ Settle
        \/ Lose
        \/ Spoil

Spec == Init /\ [][Next]_vars
=============================================================================
