------------------------------- MODULE Notices -------------------------------
(***************************************************************************)
(* What the user is told of the tunnels outside the window: the desktop    *)
(* notices of drops, recoveries and surrenders, and the tray's menu.  Both *)
(* follow the engine's broadcasts, which a bulk action holds back and      *)
(* thins out: of the snapshots of a tunnel only the last is sent.          *)
(*                                                                         *)
(* Abstraction: a tunnel is its link as the engine reports it; the time    *)
(* since the last drop notice is whether the cooldown is over; of the      *)
(* settings, the notices the user wants.                                   *)
(***************************************************************************)
EXTENDS FiniteSets

CONSTANT Listed  \* the tunnels

Links == {"disarmed", "listening", "connecting", "connected", "error"}
Events == {"dropped", "recovered", "gave-up"}

VARIABLES
  stored,    \* the saved definitions
  link,      \* the state of each tunnel; "connecting" is the wait for a retry
  bulk,      \* a bulk action is running
  held,      \* its snapshots: the last transition of each tunnel it has heard of
  wanted,    \* the notices the settings want: all off is the master switch
  cooling,   \* tunnels with a lastDropAt within the cooldown
  dropShown, \* tunnels with a drop notice that no recovery or surrender followed
  shown,     \* history: the last notice the user saw of each tunnel
  menu,      \* the tray's menu: the state of each tunnel it lists
  muted      \* history: tunnels disarmAll ended since the menu was built

noticeVars == <<stored, link, bulk, held, wanted, cooling, dropShown, shown, menu, muted>>

-----------------------------------------------------------------------------
\* The tray.

\* What the menu lists: every saved tunnel, as the engine has it at this moment.
GetStatus(ids, states) == [i \in ids |-> states[i]]

LiveStates == {"listening", "connecting", "connected"}

\* The menu's rollup and the items it offers.
Health(status) ==
  LET are(s) == \E i \in DOMAIN status : status[i] = s
  IN  IF are("error") THEN "error" ELSE IF are("connecting") THEN "reconnecting" ELSE "healthy"

CanArm(status, i) == status[i] \notin LiveStates
CanArmAll(status) == \E i \in DOMAIN status : CanArm(status, i)
CanDisarmAll(status) == \E i \in DOMAIN status : ~CanArm(status, i)

UpdateTray == menu' = GetStatus(stored', link') /\ muted' = {}

-----------------------------------------------------------------------------
\* The notices.

NoticesInit ==
  /\ stored = Listed /\ link = [i \in Listed |-> "disarmed"]
  /\ bulk = FALSE /\ held = [i \in {} |-> "none"]
  /\ wanted = Events /\ cooling = {} /\ dropShown = {}
  /\ shown = [i \in Listed |-> "none"]
  /\ menu = GetStatus(stored, link) /\ muted = {}

\* The notice a snapshot brings on, if any.
Notice(i, e) ==
  CASE e = "dropped" -> IF e \in wanted /\ i \notin cooling THEN e ELSE "none"
    [] e = "recovered" -> IF e \in wanted /\ i \in dropShown THEN e ELSE "none"
    [] e = "gave-up" -> IF e \in wanted THEN e ELSE "none"
    [] e \in {"none", "removed"} -> "none"

Told(heard, e) == {i \in DOMAIN heard : Notice(i, heard[i]) = e}
Having(heard, es) == {i \in DOMAIN heard : heard[i] \in es}

\* A give-up leaves the episode open.
OnTunnelState_Mutant(heard) ==
  /\ cooling' = (cooling \cup Told(heard, "dropped")) \ Having(heard, {"removed"})
  /\ dropShown' = (dropShown \cup Told(heard, "dropped")) \ Having(heard, {"recovered", "removed"})
  /\ shown' = [i \in Listed |-> IF i \in DOMAIN heard /\ Notice(i, heard[i]) # "none"
                             THEN Notice(i, heard[i]) ELSE shown[i]]

\* heard: the transition, or none, in the snapshot of each tunnel of a broadcast.
OnTunnelState(heard) ==
  /\ cooling' = (cooling \cup Told(heard, "dropped")) \ Having(heard, {"removed"})
  /\ dropShown' = (dropShown \cup Told(heard, "dropped"))
                    \ Having(heard, {"recovered", "gave-up", "removed"})
  /\ shown' = [i \in Listed |-> IF i \in DOMAIN heard /\ Notice(i, heard[i]) # "none"
                             THEN Notice(i, heard[i]) ELSE shown[i]]

Unheard == UNCHANGED <<cooling, dropShown, shown>>

\* The engine's broadcast: the tray first, then the notices.
Announce(heard) == UpdateTray /\ OnTunnelState(heard)

\* onStateChange of a tunnel: `first` and `last` are what it emits in one go;
\* a bulk action keeps the last only.
Emit(i, first, last) ==
  IF bulk THEN /\ held' = [j \in DOMAIN held \cup {i} |-> IF j = i THEN last ELSE held[j]]
               /\ Unheard /\ UNCHANGED <<menu, muted>>
          ELSE /\ Announce([j \in {i} |-> IF first # "none" THEN first ELSE last])
               /\ held' = held

-----------------------------------------------------------------------------
\* The tunnels.

Becomes(i, s) == link' = [link EXCEPT ![i] = s]

LinkArmed(i) ==
  /\ i \in stored /\ link[i] = "disarmed" /\ Becomes(i, "listening")
  /\ UNCHANGED <<stored, bulk, wanted>>
  /\ Emit(i, "none", "none")

LinkDisarmed(i) ==
  /\ i \in stored /\ link[i] # "disarmed" /\ Becomes(i, "disarmed")
  /\ UNCHANGED <<stored, bulk, wanted>>
  /\ Emit(i, "none", "none")

LinkConnects(i) ==
  /\ link[i] \in {"listening", "error"} /\ Becomes(i, "connected")
  /\ UNCHANGED <<stored, bulk, wanted>>
  /\ Emit(i, "none", "none")

\* A drop is announced, then the wait for a retry or, for one that does not
\* reconnect, the bare listener.
LinkDrops(i, hot) ==
  /\ link[i] = "connected" /\ Becomes(i, IF hot THEN "connecting" ELSE "listening")
  /\ UNCHANGED <<stored, bulk, wanted>>
  /\ Emit(i, "dropped", "none")

LinkRecovers(i) ==
  /\ link[i] = "connecting" /\ Becomes(i, "connected")
  /\ UNCHANGED <<stored, bulk, wanted>>
  /\ Emit(i, "none", "recovered")

LinkGivesUp(i) ==
  /\ link[i] = "connecting" /\ Becomes(i, "error")
  /\ UNCHANGED <<stored, bulk, wanted>>
  /\ Emit(i, "none", "gave-up")

BatchBegins ==
  /\ ~bulk /\ bulk' = TRUE /\ held' = [i \in {} |-> "none"] /\ Unheard
  /\ UNCHANGED <<stored, link, wanted, menu, muted>>

\* The broadcast is made even when nothing was heard.
BatchEnds ==
  /\ bulk /\ bulk' = FALSE /\ held' = [i \in {} |-> "none"]
  /\ UNCHANGED <<stored, link, wanted>> /\ Announce(held)

\* disarmAll() disposes of every tunnel, and dispose() emits nothing.
AllDisarmed ==
  /\ link' = [i \in Listed |-> "disarmed"]
  /\ muted' = muted \cup {i \in stored : link[i] # "disarmed"}
  /\ Unheard /\ UNCHANGED <<stored, bulk, held, wanted, menu>>

-----------------------------------------------------------------------------
\* Definitions and settings.

\* A store write rebuilds the menu: an edit may emit no broadcast.
AfterWrite == UpdateTray

Created(i) ==
  /\ i \notin stored /\ link[i] = "disarmed" /\ stored' = stored \cup {i}
  /\ Unheard /\ UNCHANGED <<link, bulk, held, wanted>> /\ AfterWrite

Deleted(i) ==
  /\ i \in stored /\ stored' = stored \ {i}
  /\ Unheard /\ UNCHANGED <<link, bulk, held, wanted>> /\ AfterWrite

\* The reconcile of a deleted tunnel has disposed of it; this broadcast does not
\* wait for a bulk action.
Gone(i) ==
  /\ i \notin stored /\ link[i] # "disarmed" /\ Becomes(i, "disarmed")
  /\ UNCHANGED <<stored, bulk, held, wanted>>
  /\ Announce([j \in {i} |-> "removed"])

Prefer(w) ==
  /\ wanted' = w /\ w # wanted
  /\ Unheard /\ UNCHANGED <<stored, link, bulk, held, menu, muted>>

CoolsDown(i) ==
  /\ i \in cooling /\ cooling' = cooling \ {i}
  /\ UNCHANGED <<stored, link, bulk, held, wanted, dropShown, shown, menu, muted>>

NoticesNext ==
  \/ \E i \in Listed : \/ LinkArmed(i) \/ LinkDisarmed(i) \/ LinkConnects(i) \/ LinkRecovers(i) \/ LinkGivesUp(i)
                    \/ Created(i) \/ Deleted(i) \/ Gone(i) \/ CoolsDown(i)
  \/ \E i \in Listed, hot \in BOOLEAN : LinkDrops(i, hot)
  \/ BatchBegins \/ BatchEnds \/ AllDisarmed
  \/ \E w \in {{}, Events} : Prefer(w)

NoticesSpec == NoticesInit /\ [][NoticesNext]_noticeVars

-----------------------------------------------------------------------------
\* Properties.

\* A tunnel with an open drop episode was last told of as dropped: its recovery
\* answers a drop the user knows of, and no second one or surrender came between.
NoticesPair == \A i \in dropShown : shown[i] = "dropped"

\* Outside of a bulk action the tray lists the saved tunnels as they are, but for
\* those that disarmAll() ended and nobody has spoken of since.
TrayIsCurrent ==
  /\ DOMAIN menu = stored
  /\ ~bulk => \A i \in stored \ muted : menu[i] = link[i]

\* What the user is told outside the window: of outages in pairs, of states as they are.
StatusIsTold == NoticesPair /\ TrayIsCurrent
=============================================================================
