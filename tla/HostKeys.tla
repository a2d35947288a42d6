------------------------------ MODULE HostKeys ------------------------------
(***************************************************************************)
(* Trust on first use of SSH host keys: the verifier of a hop, the prompts *)
(* of the mediator that tunnels, consoles and probes share, the popups     *)
(* that show them, and the store of accepted keys.                         *)
(*                                                                         *)
(* A handshake is one connection attempt of one hop.  Its verifier looks   *)
(* at what is on record once, when the key arrives; the user's answer to a *)
(* prompt is applied whenever it comes, with nothing looked at again.      *)
(***************************************************************************)
EXTENDS Sequences

CONSTANTS
  Handshakes,   \* connection attempts, each for one hop of one chain
  HostOf,       \* the host (and port) a handshake is with
  Hosts, Keys,
  KindOf,       \* the algorithm of a key
  KnownHosts,   \* the keys ~/.ssh/known_hosts has for each host
  None

ASSUME HostKeysAssumption ==
  /\ HostOf \in [Handshakes -> Hosts]
  /\ KnownHosts \in [Hosts -> SUBSET Keys]
  /\ None \notin Keys

VARIABLES
  tofu,       \* the accepted-keys store: a key or None for each host
  verdict,    \* what each handshake's verifier has said
  key,        \* the key each handshake was shown
  prompts,    \* the mediator's prompts nobody has answered
  popups,     \* the popups of the main window, the first one on screen
  trusted     \* what the user has accepted so far, for each host

keyVars == <<tofu, verdict, key, prompts, popups, trusted>>

Verdicts == {"idle", "waiting", "asking", "ok", "refused", "over"}

KeysInit ==
  /\ tofu = [h \in Hosts |-> None]
  /\ verdict = [x \in Handshakes |-> "idle"]
  /\ key = [x \in Handshakes |-> None]
  /\ prompts = {}
  /\ popups = <<>>
  /\ trusted = [h \in Hosts |-> {}]

\* buildVerifier: the hop dials, its server has not shown a key yet.
Dial(x) ==
  /\ verdict[x] = "idle"
  /\ verdict' = [verdict EXCEPT ![x] = "waiting"]
  /\ UNCHANGED <<tofu, key, prompts, popups, trusted>>

\* Mutant: a known host is enough, whatever the key.
OnRecord_Mutant(h, k) == tofu[h] = k \/ KnownHosts[h] # {}

OnRecord(h, k) == tofu[h] = k \/ k \in KnownHosts[h]

\* A different key has been accepted, or known_hosts has one of this algorithm.
Changed(h, k) ==
  /\ ~OnRecord(h, k)
  /\ tofu[h] # None \/ \E o \in KnownHosts[h] : KindOf[o] = KindOf[k]

\* The verifier of a handshake that is shown key k.
Present(x, k) ==
  LET h == HostOf[x]
  IN /\ verdict[x] = "waiting"
     /\ key' = [key EXCEPT ![x] = k]
     /\ \/ /\ OnRecord(h, k)
           /\ verdict' = [verdict EXCEPT ![x] = "ok"]
           /\ UNCHANGED <<prompts, popups>>
        \/ /\ Changed(h, k)
           /\ verdict' = [verdict EXCEPT ![x] = "refused"]
           /\ UNCHANGED <<prompts, popups>>
        \/ /\ ~OnRecord(h, k) /\ ~Changed(h, k)
           /\ verdict' = [verdict EXCEPT ![x] = "asking"]
           /\ prompts' = prompts \cup {x}
           /\ popups' = Append(popups, x)
     /\ UNCHANGED <<tofu, trusted>>

\* The attempt ends: it timed out, its socket dropped or it was refused.  A
\* prompt it raised stays, in the mediator and on the screen.
GiveUp(x) ==
  /\ verdict' = [verdict EXCEPT ![x] = "over"]
  /\ UNCHANGED <<tofu, key, prompts, popups, trusted>>

\* verify() after the handshake is over has no effect.
Said(x, v) == IF verdict[x] = "asking" THEN [verdict EXCEPT ![x] = v] ELSE verdict

\* The user answers the popup on screen; saving the key is best effort.
Trust ==
  /\ popups # <<>>
  /\ popups' = Tail(popups)
  /\ LET x == Head(popups)
         h == HostOf[x]
     IN \/ /\ x \in prompts
           /\ prompts' = prompts \ {x}
           /\ trusted' = [trusted EXCEPT ![h] = @ \cup {key[x]}]
           /\ tofu' \in {tofu, [tofu EXCEPT ![h] = key[x]]}
           /\ verdict' = Said(x, "ok")
        \/ /\ x \notin prompts
           /\ UNCHANGED <<tofu, verdict, prompts, trusted>>
  /\ UNCHANGED key

Reject ==
  /\ popups # <<>>
  /\ popups' = Tail(popups)
  /\ LET x == Head(popups)
     IN \/ /\ x \in prompts
           /\ prompts' = prompts \ {x}
           /\ verdict' = Said(x, "refused")
        \/ /\ x \notin prompts
           /\ UNCHANGED <<verdict, prompts>>
  /\ UNCHANGED <<tofu, key, trusted>>

\* The main window reloads, as a change of language makes it: its popups go,
\* the prompts behind them stay in the mediator.
Reload ==
  /\ popups # <<>>
  /\ popups' = <<>>
  /\ UNCHANGED <<tofu, verdict, key, prompts, trusted>>

\* The user forgets the key accepted for a host.
Revoke(h) ==
  /\ tofu[h] # None
  /\ tofu' = [tofu EXCEPT ![h] = None]
  /\ UNCHANGED <<verdict, key, prompts, popups, trusted>>

\* Quit: every prompt is answered no.
RejectAll ==
  /\ verdict' = [x \in Handshakes |->
                   IF x \in prompts /\ verdict[x] = "asking" THEN "refused" ELSE verdict[x]]
  /\ prompts' = {}
  /\ UNCHANGED <<tofu, key, popups, trusted>>

KeysNext ==
  \/ \E x \in Handshakes : Dial(x) \/ GiveUp(x) \/ \E k \in Keys : Present(x, k)
  \/ Trust \/ Reject \/ Reload \/ RejectAll
  \/ \E h \in Hosts : Revoke(h)

KeysSpec == KeysInit /\ [][KeysNext]_keyVars

-----------------------------------------------------------------------------
KeysTypeOK ==
  /\ tofu \in [Hosts -> Keys \cup {None}]
  /\ verdict \in [Handshakes -> Verdicts]
  /\ key \in [Handshakes -> Keys \cup {None}]
  /\ prompts \subseteq Handshakes
  /\ popups \in Seq(Handshakes)
  /\ trusted \in [Hosts -> SUBSET Keys]

\* A handshake passes on a key the user has vouched for: one of known_hosts,
\* or one accepted in a prompt for that host, there or by an earlier attempt
\* whose acceptance was recorded, however late the answer came and whoever
\* asked ("never silently accept a changed key").
AcceptedIsVouched ==
  \A x \in Handshakes : verdict[x] = "ok" =>
    key[x] \in KnownHosts[HostOf[x]] \cup trusted[HostOf[x]]
=============================================================================
