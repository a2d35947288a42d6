--------------------------------- MODULE Grid ---------------------------------
(***************************************************************************)
(* The card grid of a tunnel's details: where each visible card stands,    *)
(* what a drag and a drop do to the others, and the one layout every       *)
(* tunnel shares, kept by the view and in the settings (grid-layout.js,    *)
(* card-canvas.js, tunnel-detail.js, tunnels-view.js).                     *)
(*                                                                         *)
(* A reload reads the settings and applies them later; overtaken records that  *)
(* the user changed cards or columns in between. Abstraction: a cell is a  *)
(* column and a row, Columns wide in reading order; one reload is in       *)
(* flight at a time; of the definitions only their order counts.           *)
(***************************************************************************)
EXTENDS Naturals, FiniteSets, SequencesExt, Lists

CONSTANTS
  Cards,     \* CARDS: the catalogue, in its default order
  Retired,   \* a card an older version knew
  NoHold,
  Tabs,      \* the tunnels, in list order
  NoTab,
  Nothing,   \* a setting that is not stored
  OldStores, \* the layouts the settings file may hold at the start
  Columns,   \* DEFAULT_COLS
  Reach,     \* bound on how far out a card is dragged
  MaxMoves   \* bound on the changes the user makes

KnownCards == ToSet(Cards) \cup {Retired}
IsLayout(l) == \E S \in SUBSET KnownCards : l \in [S -> Nat \X Nat]

IsSettings(s) ==
  /\ s = [order |-> s.order, layout |-> s.layout, legacy |-> s.legacy]
  /\ s.order = Nothing \/ s.order \in Seq(KnownCards)
  /\ s.layout = Nothing \/ IsLayout(s.layout)
  /\ \A t \in DOMAIN s.legacy : IsLayout(s.legacy[t])

ASSUME GridAssumption ==
  /\ Columns \in Nat \ {0} /\ Reach \in Nat /\ MaxMoves \in Nat
  /\ Cards \in Seq(KnownCards) /\ Retired \notin ToSet(Cards) /\ NoHold \notin KnownCards
  /\ Tabs \in Seq(ToSet(Tabs)) /\ Tabs # <<>> /\ NoTab \notin ToSet(Tabs)
  /\ ~IsLayout(Nothing)
  /\ \A s \in OldStores : IsSettings(s)

VARIABLES
  tab,      \* the tunnel the details show
  laidFor,  \* CardCanvas #tunnelId
  visible,   \* #visible of the details and of the table
  cells,    \* CardCanvas #positions
  homes,    \* CardCanvas #homes: where a displaced card belongs
  held,     \* the card being dragged; Retired when its node was replaced
  layout,   \* TunnelsView #cardLayout
  store,    \* the settings: order, layout, legacy
  fetched,  \* the settings a reload has read but not applied
  overtaken, moves

gridVars == <<tab, laidFor, visible, cells, homes, held, layout, store, fetched, overtaken, moves>>

CardSet == ToSet(Cards)
Bare == [k \in {} |-> {}]
AsMap(l) == IF l = Nothing THEN Bare ELSE l

\* visibleCards: nothing saved shows every card, an unknown or repeated one
\* is dropped.
Visible(saved) ==
  LET out[n \in 0 .. Len(saved)] ==
        IF n = 0 THEN <<>>
        ELSE IF saved[n] \in CardSet \ ToSet(out[n - 1]) THEN Append(out[n - 1], saved[n])
        ELSE out[n - 1]
  IN IF saved = Nothing THEN Cards ELSE out[Len(saved)]

---------------------------------------------------------------------------
(* Placement.                                                              *)

\* firstFreeCell: reading order, Columns wide.
FirstFree(taken) ==
  LET free == {c \in (0 .. Columns - 1) \X (0 .. Cardinality(taken)) : c \notin taken}
  IN CHOOSE c \in free : \A d \in free : c[2] < d[2] \/ (c[2] = d[2] /\ c[1] <= d[1])

\* placeCards: a card keeps its cell unless an earlier one has it; the
\* others take the first free cell in turn.
Placed(keys, base) ==
  LET keeps(i) == keys[i] \in DOMAIN base
                  /\ \A j \in 1 .. i - 1 :
                       keys[j] \in DOMAIN base => base[keys[j]] # base[keys[i]]
      kept == {keys[i] : i \in {i \in DOMAIN keys : keeps(i)}}
      put[n \in 0 .. Len(keys)] ==
        IF n = 0 THEN [k \in kept |-> base[k]]
        ELSE LET at == put[n - 1]
             IN  IF keys[n] \in DOMAIN at THEN at
                 ELSE [k \in DOMAIN at \cup {keys[n]} |->
                         IF k = keys[n] THEN FirstFree(Range(at)) ELSE at[k]]
  IN put[Len(keys)]

\* resolveReturnHomes: a displaced card goes home once nobody else stands
\* there, or whoever did has gone home too; the least such set returns.
Returning(at, away) ==
  LET closed(R) == \A k \in DOMAIN away :
                     (\A j \in DOMAIN at \ {k} : at[j] = away[k] => j \in R) => k \in R
  IN CHOOSE R \in SUBSET DOMAIN away :
       closed(R) /\ \A S \in SUBSET DOMAIN away : closed(S) => R \subseteq S

\* applyDrop without the question whether another card claims that home.
Dropped_Mutant(at, away, k, target) ==
  LET origin == at[k]
      evicted == {j \in DOMAIN at \ {k} : at[j] = target}
      at1 == [j \in DOMAIN at |-> IF j = k THEN target
                                  ELSE IF j \in evicted THEN origin ELSE at[j]]
      away0 == [j \in DOMAIN away \ {k} |-> away[j]]
      away1 == [j \in DOMAIN away0 \cup evicted |->
                  IF j \in DOMAIN away0 THEN away0[j] ELSE target]
      back == Returning(at1, away1)
  IN [at |-> [j \in DOMAIN at |-> IF j \in back THEN away1[j] ELSE at1[j]],
      away |-> [j \in DOMAIN away1 \ back |-> away1[j]]]

\* applyDrop: the occupant swaps cells with the dragged card and remembers
\* the target as its home, unless it has one or another card claims it.
Dropped(at, away, k, target) ==
  LET origin == at[k]
      evicted == {j \in DOMAIN at \ {k} : at[j] = target}
      at1 == [j \in DOMAIN at |-> IF j = k THEN target
                                  ELSE IF j \in evicted THEN origin ELSE at[j]]
      away0 == [j \in DOMAIN away \ {k} |-> away[j]]
      homeless == {j \in evicted : target \notin Range(away0)}
      away1 == [j \in DOMAIN away0 \cup homeless |->
                  IF j \in DOMAIN away0 THEN away0[j] ELSE target]
      back == Returning(at1, away1)
  IN [at |-> [j \in DOMAIN at |-> IF j \in back THEN away1[j] ELSE at1[j]],
      away |-> [j \in DOMAIN away1 \ back |-> away1[j]]]

---------------------------------------------------------------------------
(* The canvas.                                                             *)

\* #emitLayout reaches the settings but not the view's own copy.
Persist_Mutant(at) == store' = [store EXCEPT !.layout = at] /\ UNCHANGED layout

\* #emitLayout -> #persistCardLayout.
Persist(at) == layout' = at /\ store' = [store EXCEPT !.layout = at]

\* #persistCardOrder.
WithOrder(order) == [store EXCEPT !.order = order]

\* setCards: another tunnel starts from the base given and forgets who was
\* displaced; the same one keeps its cells.
SetCards(t, keys) ==
  /\ laidFor' = t
  /\ homes' = IF t # laidFor THEN Bare
              ELSE [k \in DOMAIN homes \cap ToSet(keys) |-> homes[k]]

Dragging == held # NoHold

\* The pointer is down on a card: nothing else is clicked.
InHand == held \in CardSet

\* #renderCards replaces the nodes: the card in hand is no longer the one
\* that listens for the pointer.
NodesReplaced == held' = IF Dragging THEN Retired ELSE NoHold

Touch == moves < MaxMoves /\ moves' = moves + 1
Overtake == overtaken' = (overtaken \/ fetched # Nothing)

\* #select -> #renderDetail -> show -> setCards; the first load lists the
\* tunnels.
ShowTab(t) ==
  /\ laidFor # NoTab
  /\ tab' = t /\ SetCards(t, visible) /\ NodesReplaced
  /\ LET base == IF t # laidFor THEN AsMap(layout) ELSE cells
         at == Placed(visible, base)
     IN /\ cells' = at
        /\ IF at # base THEN Persist(at) /\ Overtake ELSE UNCHANGED <<layout, store, overtaken>>
  /\ Touch /\ ~InHand
  /\ UNCHANGED <<visible, fetched>>

\* clearSelection, or a selected tunnel that is gone.
ClearTab ==
  /\ tab # NoTab /\ tab' = NoTab /\ ~InHand /\ Touch
  /\ UNCHANGED <<laidFor, visible, cells, homes, held, layout, store, fetched, overtaken>>

\* The cards become keys: the details draw them while a tunnel is shown.
Redraw(keys) ==
  /\ visible' = keys
  /\ IF tab = NoTab THEN store' = WithOrder(keys) /\ UNCHANGED <<laidFor, cells, homes, layout>>
     ELSE LET at == Placed(keys, cells)
          IN /\ SetCards(tab, keys) /\ cells' = at
             /\ layout' = IF at # cells THEN at ELSE layout
             /\ store' = [store EXCEPT !.order = keys,
                            !.layout = IF at # cells THEN at ELSE @]
  /\ Overtake

\* #toggleCard, #toggleColumn: the checklist of either view.
ToggleField(k) ==
  /\ ~InHand /\ Touch
  /\ Redraw(IF k \in ToSet(visible) THEN Without(visible, k)
            ELSE Append(visible, k))
  /\ UNCHANGED <<tab, held, fetched>>

\* #onHeaderDrop, reorderCards: the column takes the other's slot.
MoveColumn(from, to) ==
  /\ ~InHand /\ Touch /\ from # to /\ {from, to} \subseteq ToSet(visible)
  /\ LET rest == Without(visible, from)
         i == CHOOSE i \in DOMAIN rest : rest[i] = to
     IN Redraw(InsertAt(rest, i, from))
  /\ UNCHANGED <<tab, held, fetched>>

\* #pointerDown; any drag still recorded refuses it.
Press(k) ==
  /\ tab # NoTab /\ k \in DOMAIN cells /\ ~Dragging /\ held' = k /\ Touch
  /\ UNCHANGED <<tab, laidFor, visible, cells, homes, layout, store, fetched, overtaken>>

\* #pointerUp of a press that never lifted, or cancelled.
LetGo ==
  /\ InHand /\ held' = NoHold
  /\ UNCHANGED <<tab, laidFor, visible, cells, homes, layout, store, fetched, overtaken, moves>>

\* #pointerUp -> #commitDrop; the card's own cell changes nothing.
DropCard ==
  /\ InHand /\ held' = NoHold
  /\ \E target \in (0 .. Reach) \X (0 .. Reach) :
       /\ target # cells[held]
       /\ LET d == Dropped(cells, homes, held, target)
          IN cells' = d.at /\ homes' = d.away /\ Persist(d.at)
  /\ Overtake
  /\ UNCHANGED <<tab, laidFor, visible, fetched, moves>>

\* #pointerUp over the Data Fields selector.
DropAway ==
  /\ InHand /\ held' = NoHold
  /\ Redraw(Without(visible, held))
  /\ UNCHANGED <<tab, fetched, moves>>

---------------------------------------------------------------------------
(* The reload.                                                             *)

\* #loadCardLayout: the shared layout, else the first tunnel's legacy one.
Adopted(s) ==
  LET old == {i \in DOMAIN Tabs : Tabs[i] \in DOMAIN s.legacy}
  IN IF s.layout # Nothing THEN s.layout
     ELSE IF old = {} THEN Nothing
          ELSE s.legacy[Tabs[CHOOSE i \in old : \A j \in old : i <= j]]

LoadReads ==
  /\ fetched = Nothing /\ fetched' = store /\ Touch
  /\ UNCHANGED <<tab, laidFor, visible, cells, homes, held, layout, store, overtaken>>

\* load(): the order, the layout, then the details of the selected tunnel,
\* the first one when none is.
LoadLands ==
  /\ fetched # Nothing /\ fetched' = Nothing
  /\ LET keys == Visible(fetched.order)
         adopted == Adopted(fetched)
         migrates == fetched.layout = Nothing /\ DOMAIN fetched.legacy # {}
         at1 == IF tab = NoTab THEN cells ELSE Placed(keys, cells)
         given == IF at1 # cells THEN at1 ELSE adopted
         next == IF tab = NoTab THEN Head(Tabs) ELSE tab
         base == IF next # laidFor THEN AsMap(given) ELSE at1
         at2 == Placed(keys, base)
         kept == IF at2 # base THEN at2 ELSE given
     IN /\ visible' = keys /\ tab' = next /\ cells' = at2 /\ SetCards(next, keys)
        /\ layout' = kept
        /\ store' = IF at2 # base \/ at1 # cells
                      THEN [store EXCEPT !.layout = kept,
                                         !.legacy = IF migrates THEN Bare ELSE @]
                    ELSE IF migrates
                      THEN [store EXCEPT !.layout = adopted, !.legacy = Bare]
                    ELSE store
  /\ NodesReplaced
  /\ UNCHANGED <<overtaken, moves>>

---------------------------------------------------------------------------
\* The window opens with its first load() under way.
GridInit ==
  /\ tab = NoTab /\ laidFor = NoTab /\ visible = Cards /\ cells = Bare /\ homes = Bare
  /\ held = NoHold
  /\ layout = Nothing /\ store \in OldStores /\ fetched = store
  /\ overtaken = FALSE /\ moves = 0

GridNext ==
  \/ \E i \in DOMAIN Tabs : ShowTab(Tabs[i])
  \/ ClearTab
  \/ \E k \in CardSet : ToggleField(k) \/ Press(k)
  \/ \E from, to \in CardSet : MoveColumn(from, to)
  \/ LetGo \/ DropCard \/ DropAway
  \/ LoadReads \/ LoadLands

GridSpec == GridInit /\ [][GridNext]_gridVars

---------------------------------------------------------------------------
(* Properties.                                                             *)

\* The visible cards all stand in the grid, no two in one cell, and no two
\* displaced cards wait for the same home, whatever was dragged, swapped,
\* sent home, hidden, shown or restored before (applyDrop, placeCards).
CardsApart ==
  tab # NoTab =>
    /\ DOMAIN cells = ToSet(visible)
    /\ \A j, k \in DOMAIN cells : j # k => cells[j] # cells[k]
    /\ \A j, k \in DOMAIN homes : j # k => homes[j] # homes[k]

\* Unless the user overtook a reload, the layout on screen is the one the
\* view hands to the next tunnel and the one the settings keep: changing
\* tunnels never moves a card (#persistCardLayout, setCards).
LayoutIsShared ==
  tab # NoTab /\ ~overtaken => AsMap(layout) = cells /\ AsMap(store.layout) = cells

\* One layout without collisions, whichever tunnel is on show.
GridIsSound == CardsApart /\ LayoutIsShared
=============================================================================
