------------------------------ MODULE Consoles ------------------------------
(***************************************************************************)
(* Console sessions: the manager's map of sessions, their terminal         *)
(* windows, the chain of SSH hops each one dials through, the shell at its *)
(* end, and the activity heartbeat of the sessions the main window shows.  *)
(* Composed with HostKeys: every hop of a chain is one handshake.          *)
(*                                                                         *)
(* A session is one window of the console; opening the console again makes *)
(* another session.  The terminal page reports ready once, when it loads.  *)
(***************************************************************************)
EXTENDS HostKeys, Naturals

CONSTANTS
  Sessions,
  Route        \* the hosts of the chain in order, jump hosts first

Hops == 1..Len(Route)

ASSUME ConsolesAssumption ==
  /\ Route \in Seq(Hosts) /\ Len(Route) > 0
  /\ Handshakes = Sessions \X Hops
  /\ \A x \in Handshakes : HostOf[x] = Route[x[2]]

VARIABLES
  phase,      \* of each session: see Phases
  dial,       \* what its connectChain is waiting for, "no" when none runs
  clients,    \* how many SSH clients connectChain has made and nobody ended
  listed,     \* the manager's map of sessions
  windows,    \* the terminal windows
  watched, dirty, flushing,   \* the heartbeat: sets of sessions, and its timer
  unseen,     \* sessions with traffic the main window has not been told of
  quit        \* the app is quitting: the consoles are gone, the tunnels close

sessionVars == <<phase, dial, clients, listed, windows>>
beatVars == <<watched, dirty, flushing, unseen>>
vars == <<keyVars, sessionVars, beatVars, quit>>

Phases == {"none", "opened", "connecting", "shell", "connected", "ended"}

Init ==
  /\ KeysInit
  /\ phase = [s \in Sessions |-> "none"]
  /\ dial = [s \in Sessions |-> "no"]
  /\ clients = [s \in Sessions |-> 0]
  /\ listed = {} /\ windows = {}
  /\ watched = {} /\ dirty = {} /\ unseen = {}
  /\ flushing = FALSE
  /\ quit = FALSE

\* The chain a session owns once connectChain has returned.
HasChain(s) == phase[s] \in {"shell", "connected"}

\* #end of the sessions of S: once each; ends the chain they own, not a dial
\* that is still running.
Ended(S) ==
  /\ phase' = [s \in Sessions |-> IF s \in S THEN "ended" ELSE phase[s]]
  /\ clients' = [s \in Sessions |-> IF s \in S /\ HasChain(s) THEN 0 ELSE clients[s]]

-----------------------------------------------------------------------------
\* The manager.
Open(s) ==
  /\ phase[s] = "none"
  /\ phase' = [phase EXCEPT ![s] = "opened"]
  /\ listed' = listed \cup {s}
  /\ windows' = windows \cup {s}
  /\ UNCHANGED <<keyVars, dial, clients, beatVars, quit>>

\* The window has its size: the first hop dials.
Ready(s) ==
  /\ s \in listed /\ phase[s] = "opened"
  /\ phase' = [phase EXCEPT ![s] = "connecting"]
  /\ dial' = [dial EXCEPT ![s] = "hop"]
  /\ Dial(<<s, 1>>)
  /\ UNCHANGED <<clients, listed, windows, beatVars, quit>>

Forgotten(s) ==
  /\ listed' = listed \ {s}
  /\ watched' = watched \ {s}
  /\ dirty' = dirty \ {s}

\* close: by the user, or by the window that has been closed.
Close(s) ==
  /\ s \in listed
  /\ Forgotten(s)
  /\ Ended({s})
  /\ windows' = windows \ {s}
  /\ UNCHANGED <<keyVars, dial, flushing, unseen, quit>>

\* The window of a session that ended by itself is closed later.
CloseWindow(s) ==
  /\ s \in windows \ listed
  /\ windows' = windows \ {s}
  /\ UNCHANGED <<keyVars, phase, dial, clients, listed, beatVars, quit>>

\* close, then open again.
Restart(s, new) ==
  /\ s \in listed /\ phase[new] = "none"
  /\ listed' = (listed \ {s}) \cup {new}
  /\ windows' = (windows \ {s}) \cup {new}
  /\ watched' = watched \ {s} /\ dirty' = dirty \ {s}
  /\ phase' = [phase EXCEPT ![s] = "ended", ![new] = "opened"]
  /\ clients' = [clients EXCEPT ![s] = IF HasChain(s) THEN 0 ELSE @]
  /\ UNCHANGED <<keyVars, dial, flushing, unseen, quit>>

\* before-quit: disposeAll and closeConsoleWindows, while the tunnels close.
Quit ==
  /\ ~quit /\ quit' = TRUE
  /\ Ended(listed)
  /\ listed' = {} /\ windows' = {}
  /\ watched' = {} /\ dirty' = {} /\ flushing' = FALSE
  /\ UNCHANGED <<keyVars, dial, unseen>>

\* disarmAll is through: the prompts of tunnels and consoles are answered no.
LastAnswers ==
  /\ quit /\ prompts # {}
  /\ RejectAll
  /\ UNCHANGED <<sessionVars, beatVars, quit>>

-----------------------------------------------------------------------------
\* connectChain, one hop after the other.
Shake(s) == <<s, clients[s] + 1>>

ShowKey(s, k) ==
  /\ dial[s] = "hop"
  /\ Present(Shake(s), k)
  /\ UNCHANGED <<sessionVars, beatVars, quit>>

\* Mutant: a chain that comes up after the session has ended is not disposed.
ChainUp_Mutant(s) ==
  /\ phase' = [phase EXCEPT ![s] = IF @ = "ended" THEN "ended" ELSE "shell"]
  /\ clients' = [clients EXCEPT ![s] = @ + 1]

\* The last hop is in: the session takes the chain, or drops it if it has
\* ended meanwhile.
ChainUp(s) ==
  \/ /\ phase[s] = "ended"
     /\ clients' = [clients EXCEPT ![s] = 0]
     /\ UNCHANGED phase
  \/ /\ phase[s] # "ended"
     /\ clients' = [clients EXCEPT ![s] = @ + 1]
     /\ phase' = [phase EXCEPT ![s] = "shell"]

HopReady(s) ==
  /\ dial[s] = "hop" /\ verdict[Shake(s)] = "ok"
  /\ \/ /\ clients[s] + 1 < Len(Route)
        /\ dial' = [dial EXCEPT ![s] = "forward"]
        /\ clients' = [clients EXCEPT ![s] = @ + 1]
        /\ UNCHANGED phase
     \/ /\ clients[s] + 1 = Len(Route)
        /\ dial' = [dial EXCEPT ![s] = "no"]
        /\ ChainUp(s)
  /\ UNCHANGED <<keyVars, listed, windows, beatVars, quit>>

Forward(s) ==
  /\ dial[s] = "forward"
  /\ dial' = [dial EXCEPT ![s] = "hop"]
  /\ Dial(Shake(s))
  /\ UNCHANGED <<phase, clients, listed, windows, beatVars, quit>>

\* Mutant: the hops that did connect are not ended.
Undone_Mutant(s) == clients' = clients

Undone(s) == clients' = [clients EXCEPT ![s] = 0]

\* A hop is refused, cannot log in, drops or runs into ssh2's ready timeout,
\* or the forward to the next hop fails: what there is of the chain is ended.
DialFails(s) ==
  /\ dial[s] # "no"
  /\ dial' = [dial EXCEPT ![s] = "no"]
  /\ Undone(s)
  /\ \/ dial[s] = "hop" /\ GiveUp(Shake(s))
     \/ dial[s] = "forward" /\ UNCHANGED keyVars
  /\ phase' = [phase EXCEPT ![s] = "ended"]
  /\ listed' = listed \ {s}
  /\ UNCHANGED <<windows, beatVars, quit>>

-----------------------------------------------------------------------------
\* The shell.
ShellOpens(s) ==
  /\ phase[s] = "shell"
  /\ phase' = [phase EXCEPT ![s] = "connected"]
  /\ UNCHANGED <<keyVars, dial, clients, listed, windows, beatVars, quit>>

\* Mutant: the manager is not told.
Drop_Mutant(s) ==
  /\ HasChain(s)
  /\ Ended({s})
  /\ UNCHANGED <<keyVars, dial, listed, windows, beatVars, quit>>

\* The shell exits or is refused, or the chain drops: the window stays, to
\* show why.
Drop(s) ==
  /\ HasChain(s)
  /\ Ended({s})
  /\ listed' = listed \ {s}
  /\ UNCHANGED <<keyVars, dial, windows, beatVars, quit>>

-----------------------------------------------------------------------------
\* The heartbeat.  Bytes pass, in or out.
Traffic(s) ==
  /\ phase[s] = "connected"
  /\ unseen' = unseen \cup {s}
  /\ IF s \in watched THEN dirty' = dirty \cup {s} /\ flushing' = TRUE
                      ELSE UNCHANGED <<dirty, flushing>>
  /\ UNCHANGED <<keyVars, sessionVars, watched, quit>>

\* The timer: what is still watched and still there is broadcast.
Flush ==
  /\ flushing /\ flushing' = FALSE
  /\ dirty' = {}
  /\ unseen' = unseen \ (dirty \cap watched \cap listed)
  /\ UNCHANGED <<keyVars, sessionVars, watched, quit>>

\* The main window says which sessions it shows.
Watch(S) ==
  /\ S # watched
  /\ watched' = S
  /\ unseen' = unseen \ (S \cap listed)
  /\ UNCHANGED <<keyVars, sessionVars, dirty, flushing, quit>>

-----------------------------------------------------------------------------
\* The user, in the main window.
Answer == (Trust \/ Reject \/ Reload) /\ UNCHANGED <<sessionVars, beatVars, quit>>
Forget(h) == Revoke(h) /\ UNCHANGED <<sessionVars, beatVars, quit>>

DialStep(s) == HopReady(s) \/ Forward(s) \/ DialFails(s)

Next ==
  \/ \E s \in Sessions :
       \/ Open(s) \/ Ready(s) \/ Close(s) \/ CloseWindow(s)
       \/ DialStep(s) \/ ShellOpens(s) \/ Drop(s) \/ Traffic(s)
       \/ \E k \in Keys : ShowKey(s, k)
       \/ \E new \in Sessions : Restart(s, new)
  \/ \E S \in SUBSET Sessions : Watch(S)
  \/ \E h \in Hosts : Forget(h)
  \/ Flush \/ Answer \/ Quit \/ LastAnswers

\* ssh2 gives a handshake twenty seconds, and a forward is answered or drops
\* with its connection: a dial goes on until it is up or has failed.  A timer
\* that is set fires.
Fairness == WF_vars(Flush) /\ \A s \in Sessions : WF_vars(DialStep(s))

Spec == Init /\ [][Next]_vars
FairSpec == Spec /\ Fairness

-----------------------------------------------------------------------------
\* Every SSH client is in hand: its session is alive and owns it, or a dial is
\* still running that will hand it over or end it.  Windows closed, restarts
\* and failures at any point of connectChain leave none behind.
NothingOutlives ==
  \A s \in Sessions : clients[s] > 0 =>
    dial[s] # "no" \/ (s \in listed /\ HasChain(s))

\* A session in the manager's map has the window that shows it and is alive, and
\* one with a shell has had all its hops vouched for.
ListedIsAlive ==
  \A s \in listed :
    /\ s \in windows /\ phase[s] # "ended"
    /\ HasChain(s) => \A i \in Hops : verdict[<<s, i>>] = "ok"

\* What a watched session does is reported in the end, whatever changes of the
\* watch came between.
WatchedIsHeard ==
  unseen \cap watched \cap listed # {} ~> unseen \cap watched \cap listed = {}

\* The connections of a session that has ended are let go.
Lingering == {s \in Sessions : phase[s] = "ended" /\ (clients[s] > 0 \/ dial[s] # "no")}

EndedLetsGo == Lingering # {} ~> Lingering = {}

\* A session is heard while it lives and lets go when it ends.
SessionsReport == WatchedIsHeard /\ EndedLetsGo
=============================================================================
