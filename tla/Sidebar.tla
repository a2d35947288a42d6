------------------------------- MODULE Sidebar -------------------------------
(***************************************************************************)
(* The two trees of the sidebar, tunnels and consoles, over the groups     *)
(* they share: dragging rows and group headers, the group menus and        *)
(* dialogs, the requests each of them sends to the stores, and the         *)
(* reloads that bring the stored lists back (tunnel-list.js,               *)
(* tunnels-view.js and their console copies).                              *)
(*                                                                         *)
(* A view is a snapshot of the stores; every gesture is planned from it    *)
(* and carried out later, one request at a time, while other requests and  *)
(* reloads come in between.  A request is served in one step and a reload  *)
(* reads everything in the step that serves it; its reply is applied in a  *)
(* step of its own, replies in order.  The two reloads of one announcement *)
(* are one.  The browser ends every drag with a drop or a dragend.  A row  *)
(* is its id and its group.                                                *)
(***************************************************************************)
EXTENDS Naturals, FiniteSets, SequencesExt, Lists

CONSTANTS
  Tunnels, Consoles,   \* ids of the records of the two trees
  Groups,              \* ids of groups
  Unborn,              \* the ids of all three that are not in use at first
  Ungrouped, NoRow,    \* the trailing section; no row
  MaxActs              \* bound on the user's gestures

ASSUME TreeAssumption ==
  /\ IsFiniteSet(Tunnels) /\ IsFiniteSet(Consoles) /\ IsFiniteSet(Groups)
  /\ Tunnels \cap Consoles = {} /\ (Tunnels \cup Consoles) \cap Groups = {}
  /\ Ungrouped \notin Groups /\ NoRow \notin Tunnels \cup Consoles

VARIABLES
  groups,  \* GroupStore: group ids in display order
  recs,    \* per tree, the stored records: order, and the group of each
  kept,    \* per tree, the settings' collapsed sections
  view,    \* per tree, what the renderer holds
  drag,    \* the drag under way
  spot,    \* #insert of a row drag, or the header a group drag is over
  ops,     \* gestures being carried out
  reads,   \* per tree, replies to load() not yet applied
  edit,    \* per tree, the group dialog and #pendingAssignIds
  alive, gone,  \* history: ids in the stores, ids deleted from them
  acts     \* gestures so far

treeVars == <<groups, recs, kept, view, drag, spot, ops, reads, edit, alive,
              gone, acts>>

Trees == {"tunnels", "consoles"}
Sections == Groups \cup {Ungrouped}
NoDrag == [tree |-> "none", kind |-> "none", id |-> NoRow]
NoSpot == [kind |-> "none"]

---------------------------------------------------------------------------
(* What a view shows.                                                      *)

GroupOf(v, t) ==
  IF v.member[t] \in ToSet(v.groups) THEN v.member[t] ELSE Ungrouped

RowsIn(v, s) == Only(v.order, {t \in ToSet(v.order) : GroupOf(v, t) = s})

\* The sections with a row in them, Ungrouped last; none at all without groups.
BuildSections(v) ==
  IF v.groups = <<>> THEN <<>>
  ELSE Only(Append(v.groups, Ungrouped), {s \in Sections : RowsIn(v, s) # <<>>})

\* The rendered list, top to bottom: headers (no row) and rows.
Elements(v) ==
  LET Shown(s) == IF s \in v.kept THEN <<>>
                  ELSE [i \in DOMAIN RowsIn(v, s) |->
                          [section |-> s, row |-> RowsIn(v, s)[i]]]
      Part(s) == <<[section |-> s, row |-> NoRow]>> \o Shown(s)
  IN FlattenSeq([i \in DOMAIN BuildSections(v) |-> Part(BuildSections(v)[i])])

IdsInSection(v, s) ==
  {t \in ToSet(v.order) :
     IF s = Ungrouped THEN v.member[t] \notin ToSet(v.groups)
     ELSE v.member[t] = s}

Place(seq, x) == CHOOSE i \in DOMAIN seq : seq[i] = x

\* Without the records the request does not name.
Reordered_Mutant(old, ids) == Only(ids, ToSet(old))

\* Stored order after a reorder: known ids as asked, the rest as they were.
Reordered(old, ids) == Only(ids, ToSet(old)) \o Only(old, ToSet(old) \ ToSet(ids))

---------------------------------------------------------------------------
(* The gap under a dragged row, and the move a drop there asks for.        *)

\* The gap right after (or before) element e of the rendered list: the row
\* it comes before, none at the end of its section; history: the rows its
\* section will then show.
GapAt(v, id, e, after) ==
  LET els == Elements(v)
      cut == IF after THEN e ELSE e - 1
      Rest(seq) == Only(seq, {x \in ToSet(seq) : x.row # id})
      above == Rest(SubSeq(els, 1, cut))
      below == Rest(SubSeq(els, cut + 1, Len(els)))
      s == els[e].section
      RowsAmong(seq) ==
        LET own == Only(seq, {x \in ToSet(seq) : x.section = s /\ x.row # NoRow})
        IN [i \in DOMAIN own |-> own[i].row]
  IN [kind |-> "gap", group |-> s,
      before |-> IF below # <<>> /\ Head(below).section = s
                 THEN Head(below).row ELSE NoRow,
      fresh |-> TRUE, shown |-> s \notin v.kept,
      want |-> RowsAmong(above) \o <<id>> \o RowsAmong(below)]

\* With the place looked up in the order that still has the row in it.
MovePlan_Mutant(v, id, group, before) ==
  LET to == IF group \in ToSet(v.groups) THEN group ELSE Ungrouped
      rest == Without(v.order, id)
      members == Without(RowsIn(v, to), id)
      at == IF before \in ToSet(rest) THEN Place(v.order, before)
            ELSE IF members # <<>> THEN Place(rest, Last(members)) + 1
                 ELSE Len(rest) + 1
  IN [to |-> to, order |-> InsertAt(rest, at, id)]

\* #moveTunnel's plan: the group to be in and the whole new order.
MovePlan(v, id, group, before) ==
  LET to == IF group \in ToSet(v.groups) THEN group ELSE Ungrouped
      rest == Without(v.order, id)
      members == Without(RowsIn(v, to), id)
      at == IF before \in ToSet(rest) THEN Place(rest, before)
            ELSE IF members # <<>> THEN Place(rest, Last(members)) + 1
                 ELSE Len(rest) + 1
  IN [to |-> to, order |-> InsertAt(rest, at, id)]

PlanIsIdle(v, id, plan) == GroupOf(v, id) = plan.to /\ plan.order = v.order

---------------------------------------------------------------------------
Stored(k) == [order |-> recs[k].order, member |-> recs[k].member,
              groups |-> groups, kept |-> kept[k]]

ViewIsStored(k) == view[k] = [Stored(k) EXCEPT !.kept = view[k].kept]

Calm == edit["tunnels"].open = "no" /\ edit["consoles"].open = "no"
           /\ drag = NoDrag /\ acts < MaxActs

\* Any other write makes what an operation planned from out of date.
Dirty(S) == {[o EXCEPT !.clean = FALSE] : o \in S}

Op(k, next) ==
  [tree |-> k, n |-> acts, next |-> next, row |-> NoRow, ids |-> {},
   to |-> Ungrouped, list |-> <<>>, clean |-> FALSE,
   shown |-> FALSE, want |-> <<>>, was |-> recs[k]]

\* load() of the trees in ks.
Reload(ks) ==
  reads' = [k \in Trees |-> IF k \in ks THEN Append(reads[k], Stored(k))
                                        ELSE reads[k]]

TreeInit ==
  /\ groups = SetToSeq(Groups \ Unborn)
  /\ \E m \in [Tunnels -> Sections \ Unborn], c \in [Consoles -> Sections \ Unborn] :
       /\ \A x \in Unborn : /\ x \in Tunnels => m[x] = Ungrouped
                            /\ x \in Consoles => c[x] = Ungrouped
       /\ recs = [k \in Trees |->
            IF k = "tunnels" THEN [order |-> SetToSeq(Tunnels \ Unborn), member |-> m]
            ELSE [order |-> SetToSeq(Consoles \ Unborn), member |-> c]]
  /\ kept = [k \in Trees |-> {}]
  /\ view = [k \in Trees |-> Stored(k)]
  /\ drag = NoDrag /\ spot = NoSpot
  /\ ops = {} /\ reads = [k \in Trees |-> <<>>]
  /\ edit = [k \in Trees |-> [open |-> "no", pending |-> {}]]
  /\ alive = (Tunnels \cup Consoles \cup Groups) \ Unborn /\ gone = {}
  /\ acts = 0

---------------------------------------------------------------------------
(* Dragging.                                                               *)

\* #onRowDragStart, #onHeaderDragStart: only a real group's header is draggable.
DragStart(k) ==
  /\ Calm
  /\ \E e \in ToSet(Elements(view[k])) :
       /\ e.row = NoRow => e.section # Ungrouped
       /\ drag' = IF e.row = NoRow THEN [tree |-> k, kind |-> "group", id |-> e.section]
                  ELSE [tree |-> k, kind |-> "row", id |-> e.row]
  /\ spot' = NoSpot /\ acts' = acts + 1
  /\ UNCHANGED <<groups, recs, kept, view, ops, reads, edit, alive, gone>>

\* A row over the list: over the upper or lower half of a row, or a header.
RowDragOver(k) ==
  /\ drag.tree = k /\ drag.kind = "row"
  /\ \E e \in DOMAIN Elements(view[k]), after \in BOOLEAN :
       /\ Elements(view[k])[e].row = NoRow => after
       /\ spot' = GapAt(view[k], drag.id, e, after)
  /\ UNCHANGED <<groups, recs, kept, view, drag, ops, reads, edit, alive, gone, acts>>

\* A group header over another group's header; anywhere else is no target.
HeaderDragOver(k) ==
  /\ drag.tree = k /\ drag.kind = "group"
  /\ \E s \in ToSet(BuildSections(view[k])) \ {Ungrouped} :
       /\ s # drag.id
       /\ spot' = [kind |-> "header", group |-> s]
  /\ UNCHANGED <<groups, recs, kept, view, drag, ops, reads, edit, alive, gone, acts>>

\* Off every group, or out of the list.
DragLeave ==
  /\ spot # NoSpot /\ spot' = NoSpot
  /\ UNCHANGED <<groups, recs, kept, view, drag, ops, reads, edit, alive, gone, acts>>

DragEnd ==
  /\ drag # NoDrag /\ drag' = NoDrag /\ spot' = NoSpot
  /\ UNCHANGED <<groups, recs, kept, view, ops, reads, edit, alive, gone, acts>>

\* #moveTunnel up to its first request.
MoveRow(k, id, gap) ==
  LET v == view[k]
      plan == MovePlan(v, id, gap.group, gap.before)
      clean == gap.fresh /\ ops = {} /\ reads[k] = <<>> /\ ViewIsStored(k)
      o == [Op(k, IF GroupOf(v, id) # plan.to THEN "update" ELSE "reorder")
              EXCEPT !.row = id, !.to = plan.to, !.list = plan.order,
                     !.clean = clean, !.shown = gap.shown, !.want = gap.want]
  IN ops' = IF id \notin ToSet(v.order) \/ PlanIsIdle(v, id, plan) THEN ops
            ELSE ops \cup {o}

\* #reorderGroups up to its request.
MoveGroup(k, from, to) ==
  LET v == view[k]
      rest == Without(v.groups, from)
      at == IF to \in ToSet(rest) THEN Place(rest, to) ELSE Len(rest) + 1
  IN ops' = IF from \notin ToSet(v.groups) \/ from = to THEN ops
            ELSE ops \cup {[Op(k, "groups") EXCEPT !.list = InsertAt(rest, at, from)]}

\* #onListDrop.
Drop(k) ==
  /\ drag.tree = k /\ spot # NoSpot
  /\ IF spot.kind = "gap" THEN MoveRow(k, drag.id, spot)
     ELSE /\ spot.group \in ToSet(view[k].groups)
          /\ MoveGroup(k, drag.id, spot.group)
  /\ drag' = NoDrag /\ spot' = NoSpot
  /\ UNCHANGED <<groups, recs, kept, view, reads, edit, alive, gone, acts>>

---------------------------------------------------------------------------
(* Groups: the row menu, the table's drop, the group menu and the dialog.  *)

\* #assignMany up to its requests.
AssignMany(k, ids, to) ==
  ops' = ops \cup {[Op(k, "assign") EXCEPT
                      !.ids = ids \cap ToSet(view[k].order), !.to = to]}

\* "Assign to group" of a row: another of the groups, or none.
AssignRow(k) ==
  /\ Calm
  /\ \E t \in ToSet(view[k].order), to \in ToSet(view[k].groups) \cup {Ungrouped} :
       /\ to # view[k].member[t]
       /\ AssignMany(k, {t}, to)
  /\ acts' = acts + 1
  /\ UNCHANGED <<groups, recs, kept, view, drag, spot, reads, edit, alive, gone>>

\* #assignTunnelToSection: the table's drop takes a group and no place in it.
TableDrop ==
  /\ Calm
  /\ \E t \in ToSet(view["tunnels"].order), s \in ToSet(BuildSections(view["tunnels"])) :
       /\ GroupOf(view["tunnels"], t) # s
       /\ AssignMany("tunnels", {t}, s)
  /\ acts' = acts + 1
  /\ UNCHANGED <<groups, recs, kept, view, drag, spot, reads, edit, alive, gone>>

\* #newGroup, for rows to be moved into it.
NewGroup(k) ==
  /\ Calm
  /\ \E t \in ToSet(view[k].order) :
       edit' = [edit EXCEPT ![k] = [open |-> "new", pending |-> {t}]]
  /\ acts' = acts + 1
  /\ UNCHANGED <<groups, recs, kept, view, drag, spot, ops, reads, alive, gone>>

\* #editGroup, from a rendered header: the rows waiting stay as they are.
EditGroup(k) ==
  /\ Calm
  /\ \E g \in ToSet(BuildSections(view[k])) \ {Ungrouped} :
       edit' = [edit EXCEPT ![k].open = g]
  /\ acts' = acts + 1
  /\ UNCHANGED <<groups, recs, kept, view, drag, spot, ops, reads, alive, gone>>

\* Cancel and Escape: onCancel closes the dialog and nothing else.
CancelGroup(k) ==
  /\ edit[k].open # "no"
  /\ edit' = [edit EXCEPT ![k].open = "no"]
  /\ UNCHANGED <<groups, recs, kept, view, drag, spot, ops, reads, alive, gone, acts>>

\* #save: one at a time (Dialog's #submitting).
SaveGroup(k) ==
  /\ edit[k].open # "no"
  /\ \A o \in ops : o.tree = k => o.next \notin {"save", "saved"}
  /\ ops' = ops \cup {[Op(k, "save") EXCEPT
                         !.to = IF edit[k].open = "new" THEN Ungrouped ELSE edit[k].open]}
  /\ UNCHANGED <<groups, recs, kept, view, drag, spot, reads, edit, alive, gone, acts>>

DeleteGroup(k) ==
  /\ Calm
  /\ \E g \in ToSet(BuildSections(view[k])) \ {Ungrouped} :
       ops' = ops \cup {[Op(k, "delete") EXCEPT !.to = g]}
  /\ acts' = acts + 1
  /\ UNCHANGED <<groups, recs, kept, view, drag, spot, reads, edit, alive, gone>>

\* #toggleCollapse and #persistCollapsed: the whole map is written.
ToggleCollapse(k) ==
  /\ Calm
  /\ \E s \in ToSet(BuildSections(view[k])) :
       LET now == SymDiff(view[k].kept, {s})
       IN view' = [view EXCEPT ![k].kept = now] /\ kept' = [kept EXCEPT ![k] = now]
  /\ acts' = acts + 1
  /\ UNCHANGED <<groups, recs, drag, spot, ops, reads, edit, alive, gone>>

---------------------------------------------------------------------------
(* The requests, as main serves them.                                      *)

\* tunnels.update / consoles.update of o's row: refused for a deleted row or
\* group; else the record as the view had it, in the new group.
CanUpdate(o, t) == t \in ToSet(recs[o.tree].order)
                   /\ o.to \in ToSet(groups) \cup {Ungrouped}

Regroup(o, t) == recs' = [recs EXCEPT ![o.tree].member[t] = o.to]

Rest(o) == Dirty(ops \ {o})

\* The move's first request; refused, the move ends there.
ServeMoveUpdate ==
  \E o \in ops :
    /\ o.next = "update"
    /\ \/ /\ CanUpdate(o, o.row) /\ Regroup(o, o.row)
          /\ ops' = Rest(o) \cup {[o EXCEPT !.next = "reorder"]}
       \/ /\ ~CanUpdate(o, o.row) /\ ops' = ops \ {o} /\ UNCHANGED recs
    /\ UNCHANGED <<groups, kept, view, drag, spot, reads, edit, alive, gone, acts>>

\* Its second; nobody looks at its result.
ServeMoveReorder ==
  \E o \in ops :
    /\ o.next = "reorder"
    /\ recs' = [recs EXCEPT ![o.tree].order = Reordered(@, o.list)]
    /\ ops' = Rest(o) \cup {[o EXCEPT !.next = "landed"]}
    /\ UNCHANGED <<groups, kept, view, drag, spot, reads, edit, alive, gone, acts>>

\* The move's load().
ServeMoveLoad ==
  \E o \in ops :
    /\ o.next = "landed" /\ ops' = ops \ {o} /\ Reload({o.tree})
    /\ UNCHANGED <<groups, recs, kept, view, drag, spot, edit, alive, gone, acts>>

\* One update of #assignMany, a refusal ignored; after the last, load().
ServeAssign ==
  \E o \in ops :
    /\ o.next = "assign"
    /\ IF o.ids = {}
       THEN ops' = ops \ {o} /\ Reload({o.tree}) /\ UNCHANGED recs
       ELSE \E t \in o.ids :
              /\ IF CanUpdate(o, t) THEN Regroup(o, t) ELSE UNCHANGED recs
              /\ ops' = Rest(o) \cup {[o EXCEPT !.ids = @ \ {t}]}
              /\ UNCHANGED reads
    /\ UNCHANGED <<groups, kept, view, drag, spot, edit, alive, gone, acts>>

\* groups.reorder, then both trees reload.
ServeGroups ==
  \E o \in ops :
    /\ o.next = "groups"
    /\ groups' = Reordered(groups, o.list)
    /\ ops' = Rest(o) \cup {[o EXCEPT !.next = "announce"]}
    /\ UNCHANGED <<recs, kept, view, drag, spot, reads, edit, alive, gone, acts>>

\* groups.delete takes every record of both trees out of it in one write.
ServeDelete ==
  \E o \in ops :
    /\ o.next = "delete"
    /\ IF o.to \in ToSet(groups)
       THEN /\ groups' = Without(groups, o.to)
            /\ recs' = [k \in Trees |-> [recs[k] EXCEPT !.member =
                 [t \in DOMAIN @ |-> IF @[t] = o.to THEN Ungrouped ELSE @[t]]]]
            /\ alive' = alive \ {o.to} /\ gone' = gone \cup {o.to}
            /\ ops' = Rest(o) \cup {[o EXCEPT !.next = "announce"]}
       ELSE ops' = ops \ {o} /\ UNCHANGED <<groups, recs, alive, gone>>
    /\ UNCHANGED <<kept, view, drag, spot, reads, edit, acts>>

\* Only the tree that made the change reloads.
Announce_Mutant ==
  \E o \in ops :
    /\ o.next = "announce" /\ ops' = ops \ {o} /\ Reload({o.tree})
    /\ UNCHANGED <<groups, recs, kept, view, drag, spot, edit, alive, gone, acts>>

\* jumphippo:groups-changed.
Announce ==
  \E o \in ops :
    /\ o.next = "announce" /\ ops' = ops \ {o} /\ Reload(Trees)
    /\ UNCHANGED <<groups, recs, kept, view, drag, spot, edit, alive, gone, acts>>

\* groups.create / groups.update; a deleted group is refused and the dialog stays.
ServeSave ==
  \E o \in ops :
    /\ o.next = "save"
    /\ IF o.to = Ungrouped
       THEN \E g \in Groups \ (alive \cup gone) :
              /\ groups' = Append(groups, g) /\ alive' = alive \cup {g}
              /\ ops' = Rest(o) \cup {[o EXCEPT !.next = "saved", !.to = g]}
       ELSE /\ ops' = (ops \ {o}) \cup IF o.to \in ToSet(groups)
                        THEN {[o EXCEPT !.next = "saved"]} ELSE {}
            /\ UNCHANGED <<groups, alive>>
    /\ UNCHANGED <<recs, kept, view, drag, spot, reads, edit, gone, acts>>

\* The reply: the dialog closes, both trees reload, and #afterGroupSaved moves
\* the rows that are waiting, if any, into the saved group.
GroupSaved ==
  \E o \in ops :
    /\ o.next = "saved"
    /\ edit' = [edit EXCEPT ![o.tree] = [open |-> "no", pending |-> {}]]
    /\ ops' = (ops \ {o}) \cup
         IF edit[o.tree].pending = {} THEN {}
         ELSE {[o EXCEPT !.next = "assign",
                         !.ids = edit[o.tree].pending \cap ToSet(view[o.tree].order)]}
    /\ Reload(Trees)
    /\ UNCHANGED <<groups, recs, kept, view, drag, spot, alive, gone, acts>>

---------------------------------------------------------------------------
(* Records come and go through their editors; then the tree reloads.       *)

NewRow(k) ==
  /\ Calm
  /\ \E t \in DOMAIN recs[k].member \ (alive \cup gone) :
       /\ recs' = [recs EXCEPT ![k].order = Append(@, t)]
       /\ alive' = alive \cup {t}
  /\ ops' = Dirty(ops) \cup {Op(k, "landed")}
  /\ acts' = acts + 1
  /\ UNCHANGED <<groups, kept, view, drag, spot, reads, edit, gone>>

\* #confirmDelete of a row; one deleted already is refused, with no reload.
DeleteRow(k) ==
  /\ Calm
  /\ \E t \in ToSet(view[k].order) \cap ToSet(recs[k].order) :
       /\ recs' = [recs EXCEPT ![k].order = Without(@, t)]
       /\ alive' = alive \ {t} /\ gone' = gone \cup {t}
  /\ ops' = Dirty(ops) \cup {Op(k, "landed")}
  /\ acts' = acts + 1
  /\ UNCHANGED <<groups, kept, view, drag, spot, reads, edit>>

\* load()'s reply: the view is replaced; a drag under way keeps its #insert.
ApplyLoad(k) ==
  /\ reads[k] # <<>>
  /\ view' = [view EXCEPT ![k] = Head(reads[k])]
  /\ reads' = [reads EXCEPT ![k] = Tail(@)]
  /\ spot' = IF drag.tree = k /\ spot.kind = "gap" THEN [spot EXCEPT !.fresh = FALSE]
             ELSE spot
  /\ UNCHANGED <<groups, recs, kept, drag, ops, edit, alive, gone, acts>>

---------------------------------------------------------------------------
DragsOver(k) == DragStart(k) \/ RowDragOver(k) \/ HeaderDragOver(k)

GroupActs(k) ==
  \/ AssignRow(k) \/ NewGroup(k) \/ EditGroup(k) \/ CancelGroup(k)
  \/ SaveGroup(k) \/ DeleteGroup(k) \/ ToggleCollapse(k)

RowActs(k) == NewRow(k) \/ DeleteRow(k) \/ ApplyLoad(k)

\* The console tree is a copy of the tunnel tree's code (console-list.js:371).
ConsoleDragsOver == DragsOver("consoles")
ConsoleDrop == Drop("consoles")
ConsoleGroupActs == GroupActs("consoles")
ConsoleRowActs == RowActs("consoles")

Serve ==
  \/ ServeMoveUpdate \/ ServeMoveReorder \/ ServeMoveLoad \/ ServeAssign
  \/ ServeGroups \/ ServeDelete \/ Announce \/ ServeSave \/ GroupSaved

TreeNext ==
  \/ DragsOver("tunnels") \/ Drop("tunnels") \/ TableDrop
  \/ GroupActs("tunnels") \/ RowActs("tunnels")
  \/ ConsoleDragsOver \/ ConsoleDrop \/ ConsoleGroupActs \/ ConsoleRowActs
  \/ DragLeave \/ DragEnd \/ Serve

TreeSpec == TreeInit /\ [][TreeNext]_treeVars

---------------------------------------------------------------------------
\* A row dropped into an open section ends exactly where its gap was, with no
\* other row moved, as long as nothing else was written since it was picked
\* up; and a drop that asks for nothing is one whose gap was its own place.
DropLandsAtGap ==
  /\ \A o \in ops : o.next = "landed" /\ o.clean =>
       LET now == Stored(o.tree)
       IN /\ GroupOf(now, o.row) = o.to
          /\ o.shown => RowsIn(now, o.to) = o.want
          /\ Without(now.order, o.row) = Without(o.was.order, o.row)
          /\ \A t \in DOMAIN now.member \ {o.row} : now.member[t] = o.was.member[t]
  /\ (drag.kind = "row" /\ spot # NoSpot /\ spot.kind = "gap") =>
       LET v == view[drag.tree]
           plan == MovePlan(v, drag.id, spot.group, spot.before)
       IN (spot.fresh /\ spot.shown /\ PlanIsIdle(v, drag.id, plan)) =>
            spot.want = RowsIn(v, spot.group)

\* Reorders and moves planned from an out-of-date list lose and duplicate no
\* record and no group, and leave no record in a group that is gone.
TreeKeepsAll ==
  LET all == recs["tunnels"].order \o recs["consoles"].order \o groups
  IN /\ ToSet(all) = alive /\ Len(all) = Cardinality(alive)
     /\ \A k \in Trees : \A t \in ToSet(recs[k].order) :
          recs[k].member[t] \in ToSet(groups) \cup {Ungrouped}

\* Once every request and reload is through, both trees show what is stored,
\* whichever of them made the change; and a section's menu acts on its rows.
SettledTreeIsStore ==
  \A k \in Trees :
    /\ ops = {} /\ reads[k] = <<>> => ViewIsStored(k)
    /\ view[k].groups # <<>> => \A s \in Sections :
         IdsInSection(view[k], s) = ToSet(RowsIn(view[k], s))

\* Nothing is lost on the way, and what is on screen is what is stored.
TreeIsSound == TreeKeepsAll /\ SettledTreeIsStore
=============================================================================
