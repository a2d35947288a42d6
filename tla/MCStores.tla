------------------------------ MODULE MCStores ------------------------------
(***************************************************************************)
(* The definitions document under all that writes it; or the pickers of a  *)
(* form over the two stores of what it refers to; or imports and exports,  *)
(* as the engine and the list of tunnels hear of them.                     *)
(***************************************************************************)
EXTENDS Stores, Pickers, Transfer, FiniteSets

CONSTANTS c1, c2, j1, j2, t1, l1, l2, w1, w2,
  MaxRecords   \* bound on the size of the document

Pw(l, s) == [label |-> l, auth |-> "password", secret |-> s]
Ag(l) == [label |-> l, auth |-> "agent", secret |-> FALSE]
Via(c, js) == [cred |-> c, jumps |-> js]

\* A whole backup, two of a machine whose ids and labels clash with this one's,
\* a stripped one, and two that refer to records they do not have.
MCBundles == {
  [creds |-> (c1 :> Pw(l1, TRUE) @@ c2 :> Ag(l2)),
   jumps |-> (j1 :> [label |-> l1, cred |-> c2]),
   tunnels |-> (t1 :> Via(c1, {j1}))],
  [creds |-> (c1 :> Pw(l2, FALSE) @@ c2 :> Pw(l1, TRUE)),
   jumps |-> (j2 :> [label |-> l1, cred |-> c1]),
   tunnels |-> (t1 :> Via(c2, {j2}))],
  [creds |-> (c2 :> Pw(l1, FALSE)),
   jumps |-> Empty,
   tunnels |-> (t1 :> Via(c2, {}))],
  [creds |-> (c1 :> Pw(l1, TRUE)), jumps |-> Empty, tunnels |-> (t1 :> Via(c2, {}))],
  [creds |-> (c1 :> Ag(l1)), jumps |-> (j1 :> [label |-> l1, cred |-> c2]),
   tunnels |-> Empty]}

MCProposals == {[label |-> l1, jump |-> None, jumpCred |-> l1],
                [label |-> l1, jump |-> l2, jumpCred |-> l2]}
\* Bound: documents of at most MaxRecords records, imports into larger ones left out.
Records == Cardinality(DOMAIN doc.creds) + Cardinality(DOMAIN doc.jumps)
             + Cardinality(DOMAIN doc.tunnels) + Cardinality(DOMAIN doc.consoles)
             + Cardinality(doc.groups)
SmallDoc == Records <= MaxRecords

\* A sealed bundle that lacks a tunnel, an open one that has both, a damaged one.
MCPacks ==
  {[rows |-> {w1}, sealed |-> TRUE, sound |-> TRUE],
   [rows |-> {w1, w2}, sealed |-> FALSE, sound |-> TRUE],
   [rows |-> {w1}, sealed |-> FALSE, sound |-> FALSE]}

\* Bound: reads of the list on their way and sweeps under way, together.
FewUnderWay == Len(view.reads) + Len(sweeps) <= 2

Alike == Permutations(Creds) \cup Permutations(Hosts)

VARIABLE part

MCInit ==
  /\ part \in {"document", "pickers", "transfer"}
  /\ Init /\ PickersInit /\ TransferInit
  /\ part = "document" => Present(credStore) = {}
  /\ part = "pickers" => locked = FALSE
  /\ part = "transfer" => Present(credStore) = {} /\ locked = FALSE
  /\ part # "transfer" => Stored(kept) = {}

MCNext ==
  \/ part = "document" /\ Next /\ UNCHANGED <<part, pickerVars, transferVars>>
  \/ part = "pickers" /\ PickersNext /\ UNCHANGED <<part, vars, transferVars>>
  \/ part = "transfer" /\ TransferNext /\ UNCHANGED <<part, vars, pickerVars>>

MCSpec == MCInit /\ [][MCNext]_<<part, vars, pickerVars, transferVars>>
=============================================================================
