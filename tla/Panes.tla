-------------------------------- MODULE Panes --------------------------------
(***************************************************************************)
(* The Console Manager's panes in the centre of the main window: which     *)
(* console session the details pane shows, which sessions the main process *)
(* is told to stream, and what either side knows of the other over two     *)
(* queues of messages (consoles-view.js, console-detail.js, app.js,        *)
(* console-manager.js).                                                    *)
(*                                                                         *)
(* A reload asks for the sessions and for the rest; its replies come one   *)
(* by one and are applied together with the last, so that a session's own  *)
(* event may be handled in between: raced records that one was.            *)
(* Abstraction: of a snapshot its session and state; sessions are numbered *)
(* in the order they open; groups and rows are Sidebar's.                  *)
(***************************************************************************)
EXTENDS Naturals, FiniteSets, Sequences

CONSTANTS
  Shells,       \* console definitions
  NoShell,      \* no console selected
  MaxSessions,  \* bound on the sessions opened
  MaxDeeds      \* bound on what the user does

ASSUME PanesAssumption == MaxSessions \in Nat /\ MaxDeeds \in Nat

VARIABLES
  sess,     \* main: each session's console and state
  watched,  \* main: the sessions it streams
  up,       \* requests on their way to main
  down,     \* replies and broadcasts on their way to the window
  seen,     \* window: the state of each session it knows of
  reload,   \* window: no reload in flight, one asked, or one told of the sessions
  stash,    \* window: the sessions it was told of
  chosen,   \* #selectedId
  pinned,   \* #pinnedSessionId (0: none)
  onShow,   \* #shownSessionId (0: null, Unset: undefined)
  card,     \* the snapshot the details pane renders (s = 0: none)
  centre,   \* what has the centre: the tunnel's detail or a console pane
  raced, deeds

paneVars == <<sess, watched, up, down, seen, reload, stash, chosen, pinned, onShow, card,
              centre, raced, deeds>>

Ids == 1 .. MaxSessions
Unset == MaxSessions + 1
Phases == {"connecting", "connected", "closed"}
NotSeen == [s \in Ids |-> "no"]
NoCard == [s |-> 0, phase |-> "no"]

Live(s) == sess[s].phase \in {"connecting", "connected"}

PanesInit ==
  /\ sess = [s \in Ids |-> [of |-> NoShell, phase |-> "no"]] /\ watched = {}
  /\ up = <<>> /\ down = <<>>
  /\ seen = NotSeen /\ reload = "no" /\ stash = NotSeen
  /\ chosen = NoShell /\ pinned = 0 /\ onShow = Unset /\ card = NoCard
  /\ centre = "tunnel" /\ raced = FALSE /\ deeds = 0

---------------------------------------------------------------------------
(* The main process.                                                       *)

\* A session opens, connects or ends: #sessions and one broadcast.
Report(s, c, phase) ==
  /\ sess' = [sess EXCEPT ![s] = [of |-> c, phase |-> phase]]
  /\ down' = Append(down, [kind |-> "state", s |-> s, of |-> c, phase |-> phase])

\* open: the session is announced before it connects.
OpenSession ==
  /\ \E s \in Ids, c \in Shells :
       /\ sess[s].phase = "no" /\ \A r \in Ids : r < s => sess[r].phase # "no"
       /\ Report(s, c, "connecting")
  /\ UNCHANGED <<watched, up, seen, reload, stash, chosen, pinned, onShow, card, centre, raced, deeds>>

SessionMoves ==
  /\ \E s \in Ids, phase \in {"connected", "closed"} :
       /\ Live(s) /\ phase # sess[s].phase
       /\ Report(s, sess[s].of, phase)
  /\ UNCHANGED <<watched, up, seen, reload, stash, chosen, pinned, onShow, card, centre, raced, deeds>>

\* The next request; session() of an ended session has nothing to answer.
ServeRequest ==
  /\ up # <<>> /\ up' = Tail(up)
  /\ LET m == Head(up)
         alive == [s \in Ids |-> IF Live(s) THEN sess[s].phase ELSE "no"]
     IN /\ watched' = IF m.kind = "watch" THEN m.ids ELSE watched
        /\ down' = CASE m.kind = "watch" -> down
                     [] m.kind = "sessions" -> Append(down, [kind |-> "sessions", all |-> alive])
                     [] m.kind = "rest" -> Append(down, [kind |-> "rest"])
                     [] m.kind = "session" ->
                          Append(down, [kind |-> "session", s |-> m.s, phase |-> alive[m.s]])
  /\ UNCHANGED <<sess, seen, reload, stash, chosen, pinned, onShow, card, centre, raced, deeds>>

---------------------------------------------------------------------------
(* The window.                                                             *)

\* watch() with null and with an empty list are the same to main.
Watch(ids) == [kind |-> "watch", ids |-> ids]
LoadRequests == <<[kind |-> "sessions"], [kind |-> "rest"]>>

\* #targetSession: the pinned window while it is open, else the newest.
Target(c, known, pin) ==
  LET mine == {s \in Ids : known[s] # "no" /\ sess[s].of = c}
  IN IF mine = {} THEN 0
     ELSE IF pin \in mine THEN pin
          ELSE CHOOSE s \in mine : \A r \in mine : r <= s

\* #syncSelectedDetail without the #watch that follows a change of session.
SyncDetail_Mutant(c, known, pin, shown) ==
  LET s == Target(c, known, pin)
      snap == IF s = 0 THEN NoCard ELSE [s |-> s, phase |-> known[s]]
  IN IF c = NoShell THEN onShow' = shown /\ UNCHANGED <<card, up>>
     ELSE IF s # shown
          THEN /\ onShow' = s /\ card' = snap
               /\ up' = up \o IF s = 0 THEN <<>> ELSE <<[kind |-> "session", s |-> s]>>
          ELSE /\ onShow' = shown /\ UNCHANGED up
               /\ card' = IF s # 0 /\ card.s \in {0, s} THEN snap ELSE card

\* #syncSelectedDetail: another session is shown, watched and seeded anew;
\* the same one has its snapshot replaced (ConsoleDetail#updateSnapshot).
SyncDetail(c, known, pin, shown) ==
  LET s == Target(c, known, pin)
      snap == IF s = 0 THEN NoCard ELSE [s |-> s, phase |-> known[s]]
  IN IF c = NoShell THEN onShow' = shown /\ UNCHANGED <<card, up>>
     ELSE IF s # shown
          THEN /\ onShow' = s /\ card' = snap
               /\ up' = up \o IF s = 0 THEN <<Watch({})>>
                              ELSE <<Watch({s}), [kind |-> "session", s |-> s]>>
          ELSE /\ onShow' = shown /\ UNCHANGED up
               /\ card' = IF s # 0 /\ card.s \in {0, s} THEN snap ELSE card

Deed == deeds < MaxDeeds /\ deeds' = deeds + 1

\* #select: a fresh selection tracks the newest window and takes the centre.
SelectShell ==
  /\ Deed
  /\ \E c \in Shells : chosen' = c /\ SyncDetail(c, seen, 0, Unset)
  /\ pinned' = 0 /\ centre' = "detail"
  /\ UNCHANGED <<sess, watched, down, seen, reload, stash, raced>>

\* selectOverview: every session known now is watched.
SelectOverview ==
  /\ Deed
  /\ chosen' = NoShell /\ onShow' = Unset /\ centre' = "overview"
  /\ up' = Append(up, Watch({s \in Ids : seen[s] # "no"}))
  /\ UNCHANGED <<sess, watched, down, seen, reload, stash, pinned, card, raced>>

\* A tunnel is selected: it reclaims the centre (clearSelection).
SelectTunnel ==
  /\ Deed
  /\ chosen' = NoShell /\ onShow' = Unset /\ card' = NoCard /\ centre' = "tunnel"
  /\ up' = Append(up, Watch({}))
  /\ UNCHANGED <<sess, watched, down, seen, reload, stash, pinned, raced>>

\* #switchSession: a pill of the window switcher, one per open window.
SwitchSession ==
  /\ Deed /\ centre = "detail" /\ chosen # NoShell
  /\ \E s \in Ids :
       /\ seen[s] # "no" /\ sess[s].of = chosen /\ s # onShow
       /\ pinned' = s /\ SyncDetail(chosen, seen, s, Unset)
  /\ UNCHANGED <<sess, watched, down, seen, reload, stash, chosen, centre, raced>>

\* consoleShowOutput is switched: the shown pane is shown afresh.
OutputSetting ==
  /\ Deed
  /\ \/ centre = "detail" /\ chosen # NoShell /\ SyncDetail(chosen, seen, pinned, Unset)
     \/ /\ centre = "overview" /\ up' = Append(up, Watch({s \in Ids : seen[s] # "no"}))
        /\ UNCHANGED <<onShow, card>>
  /\ UNCHANGED <<sess, watched, down, seen, reload, stash, chosen, pinned, centre, raced>>

\* load(), from an announcement, one at a time here.
AskLoad == reload = "no" /\ reload' = "asked" /\ up' = up \o LoadRequests

Refresh ==
  /\ Deed /\ AskLoad
  /\ UNCHANGED <<sess, watched, down, seen, stash, chosen, pinned, onShow, card, centre, raced>>

\* #afterSaved selects the saved console's row, wherever the centre is.
ShellSaved ==
  /\ Deed /\ AskLoad /\ \E c \in Shells : chosen' = c
  /\ UNCHANGED <<sess, watched, down, seen, stash, pinned, onShow, card, centre, raced>>

\* The selected console is deleted: no row is selected, its pane stays.
ShellDeleted ==
  /\ Deed /\ AskLoad /\ chosen # NoShell /\ chosen' = NoShell
  /\ UNCHANGED <<sess, watched, down, seen, stash, pinned, onShow, card, centre, raced>>

---------------------------------------------------------------------------
(* What arrives at the window.                                             *)

Arrives(kind) == down # <<>> /\ Head(down).kind = kind /\ down' = Tail(down)

\* #applyState: a pane whose session ends stays on it.
ApplyState ==
  /\ Arrives("state")
  /\ LET m == Head(down)
         known == [seen EXCEPT ![m.s] = IF m.phase = "closed" THEN "no" ELSE m.phase]
     IN /\ seen' = known
        /\ IF chosen # m.of THEN UNCHANGED <<onShow, card, up>>
           ELSE IF m.phase = "closed" /\ onShow = m.s
           THEN /\ card' = IF card.s \in {0, m.s} THEN [s |-> m.s, phase |-> "closed"] ELSE card
                /\ UNCHANGED <<onShow, up>>
           ELSE SyncDetail(chosen, known, pinned, onShow)
  /\ raced' = (raced \/ reload = "told")
  /\ UNCHANGED <<sess, watched, reload, stash, chosen, pinned, centre, deeds>>

StashSessions ==
  /\ Arrives("sessions") /\ stash' = Head(down).all /\ reload' = "told"
  /\ UNCHANGED <<sess, watched, up, seen, chosen, pinned, onShow, card, centre, raced, deeds>>

\* The last reply: the sessions of the stashed one replace the known ones.
ApplyReload ==
  /\ Arrives("rest")
  /\ seen' = stash /\ stash' = NotSeen /\ reload' = "no"
  /\ SyncDetail(chosen, stash, pinned, onShow)
  /\ UNCHANGED <<sess, watched, chosen, pinned, centre, raced, deeds>>

\* #seedSession without the question whether its session is still shown.
SeedSession_Mutant ==
  /\ Arrives("session")
  /\ LET m == Head(down)
     IN card' = IF m.phase = "no" THEN card ELSE [s |-> m.s, phase |-> m.phase]
  /\ UNCHANGED <<sess, watched, up, seen, reload, stash, chosen, pinned, onShow, centre, raced, deeds>>

\* #seedSession: dropped when the session has gone or is no longer the shown one.
SeedSession ==
  /\ Arrives("session")
  /\ LET m == Head(down)
     IN card' = IF m.phase = "no" \/ onShow # m.s THEN card
                ELSE [s |-> m.s, phase |-> m.phase]
  /\ UNCHANGED <<sess, watched, up, seen, reload, stash, chosen, pinned, onShow, centre, raced, deeds>>

PanesNext ==
  \/ OpenSession \/ SessionMoves \/ ServeRequest
  \/ SelectShell \/ SelectOverview \/ SelectTunnel \/ SwitchSession \/ OutputSetting
  \/ Refresh \/ ShellSaved \/ ShellDeleted
  \/ ApplyState \/ StashSessions \/ ApplyReload \/ SeedSession

PanesSpec == PanesInit /\ [][PanesNext]_paneVars

---------------------------------------------------------------------------
AtRest == up = <<>> /\ down = <<>> /\ reload = "no" /\ ~raced

\* Once every message is through, the main process streams exactly the session
\* the details pane shows, and nothing while a tunnel has the centre and no
\* console is selected; a pinned window that is still open stays on show.
PaneIsFed ==
  AtRest =>
    /\ centre = "detail" /\ onShow \in Ids /\ Live(onShow) => watched = {onShow}
    /\ centre = "tunnel" /\ chosen = NoShell /\ onShow = Unset => watched = {}
    /\ chosen # NoShell /\ pinned # 0 /\ Live(pinned) /\ sess[pinned].of = chosen =>
         onShow = pinned

\* And the window knows the sessions as they are, the pane of the selected
\* console among them: its session's state to the end, or none only when the
\* console has no open session.
PaneIsCurrent ==
  AtRest =>
    /\ \A s \in Ids : seen[s] = IF Live(s) THEN sess[s].phase ELSE "no"
    /\ chosen # NoShell =>
         /\ onShow \in Ids => card = [s |-> onShow, phase |-> sess[onShow].phase]
         /\ onShow = 0 => card = NoCard /\ \A s \in Ids : Live(s) => sess[s].of # chosen

\* The pane shows what its session is and does.
PaneIsTrue == PaneIsFed /\ PaneIsCurrent
=============================================================================
