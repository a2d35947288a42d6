------------------------------ MODULE MCWindow ------------------------------
(***************************************************************************)
(* The main window: the tunnel editor's form and the record it writes, its *)
(* dialog with the checks and tests in flight, the grouped lists of the    *)
(* sidebar, the console panes, or the card grid.                           *)
(***************************************************************************)
EXTENDS Form, Editor, Sidebar, Panes, Grid, TLC

CONSTANTS near, bad, t1, t2, t3, c1, c2, g1, g2, g3, k1, k2, ka, kb, kc, ta, tb,
  MaxLate,    \* bound on the look-ups in flight and the tests begun, together
  MaxTransit  \* bound on the console messages on their way, both ways together

VARIABLE part

CardList == <<ka, kb, kc>>
TabList == <<ta, tb>>

\* First run, a hand-edited layout with two cards in one cell, and the layouts
\* of a version that kept one per tunnel.
OldSettings ==
  LET Crossed == (ka :> <<1, 0>>) @@ (kb :> <<0, 0>>) @@ (kc :> <<1, 0>>)
      Partial == (ka :> <<0, 1>>) @@ (Retired :> <<0, 0>>)
  IN {[order |-> Nothing, layout |-> Nothing, legacy |-> Bare],
      [order |-> <<kb, Retired, kb, ka>>, layout |-> Crossed, legacy |-> Bare],
      [order |-> Nothing, layout |-> Nothing, legacy |-> (tb :> Partial)]}

\* The tunnels of a section stand together at the start, as one drop after
\* another leaves them, the first in g1; the console already defined is in g2.
Rank(s) == IF s = Ungrouped THEN Len(groups) + 1 ELSE Place(groups, s)
TreesTidy ==
  /\ \A i, j \in DOMAIN recs["tunnels"].order :
       i < j => Rank(recs["tunnels"].member[recs["tunnels"].order[i]])
                  <= Rank(recs["tunnels"].member[recs["tunnels"].order[j]])
  /\ part = "tree" => recs["tunnels"].member[t1] = g1
  /\ recs["consoles"].member[c1] = g2

Bounds ==
  /\ Cardinality(checks) + Cardinality({t \in Tests : tests[t] # "new"}) <= MaxLate
  /\ Len(up) + Len(down) <= MaxTransit /\ ~raced

Alike == Permutations(Shells)

MCInit ==
  /\ part \in {"form", "editor", "tree", "panes", "grid"}
  /\ FormInit /\ EditorInit /\ TreeInit /\ PanesInit /\ GridInit
  /\ TreesTidy
  /\ part # "form" => record = Plain
  /\ part # "tree" => \A t \in Tunnels : recs["tunnels"].member[t] = Ungrouped
  /\ part # "grid" => store.layout = Nothing /\ store.legacy = Bare

MCNext ==
  \/ part = "form" /\ FormNext /\ UNCHANGED <<part, editorVars, treeVars, paneVars, gridVars>>
  \/ part = "editor" /\ EditorNext /\ UNCHANGED <<part, fieldVars, treeVars, paneVars, gridVars>>
  \/ part = "tree" /\ TreeNext /\ UNCHANGED <<part, fieldVars, editorVars, paneVars, gridVars>>
  \/ part = "panes" /\ PanesNext /\ UNCHANGED <<part, fieldVars, editorVars, treeVars, gridVars>>
  \/ part = "grid" /\ GridNext /\ UNCHANGED <<part, fieldVars, editorVars, treeVars, paneVars>>

MCSpec == MCInit /\ [][MCNext]_<<part, fieldVars, editorVars, treeVars, paneVars, gridVars>>
=============================================================================
