--------------------------- MODULE ConsolesProofs ---------------------------
(***************************************************************************)
(* Host keys and console sessions.                                         *)
(*                                                                         *)
(* What passes a host-key verifier has been vouched for, for any hosts,    *)
(* keys and handshakes.  The invariant is that whatever makes a verifier   *)
(* say yes without asking, the store of accepted keys, holds only what the *)
(* user accepted for that host, and that what the user accepted is kept.   *)
(*                                                                         *)
(* Console sessions, for any number of windows and any chain of hops: they *)
(* use the host keys as HostKeys says, they leave no SSH client behind,    *)
(* and a listed session is alive and vouched for.                          *)
(*                                                                         *)
(* The invariant ties a session's phase to the dial that runs for it: only *)
(* a session that is connecting, or one that ended while it was, has a     *)
(* dial, and the hops a dial has passed are exactly the clients it made.   *)
(***************************************************************************)
EXTENDS Consoles, TLAPS

KInv ==
  /\ KeysTypeOK
  /\ \A h \in Hosts : tofu[h] # None => tofu[h] \in trusted[h]
  /\ \A x \in prompts : key[x] \in Keys
  /\ \A x \in Handshakes : verdict[x] = "asking" => key[x] \in Keys
  /\ AcceptedIsVouched

USE HostKeysAssumption

LEMMA InitKInv == KeysInit => KInv
<1> SUFFICES ASSUME KeysInit PROVE KInv
  OBVIOUS
<1>1. KeysTypeOK
  BY SMT DEF KeysInit, KeysTypeOK, Verdicts
<1>2. QED
  BY <1>1, SMT DEF KeysInit, KInv, AcceptedIsVouched

\* An answer is for a handshake: the popup on screen is one of them.
LEMMA HeadIsHandshake ==
  ASSUME KeysTypeOK, popups # <<>>
  PROVE Head(popups) \in Handshakes /\ Tail(popups) \in Seq(Handshakes)
BY SMT DEF KeysTypeOK

LEMMA PresentKeeps ==
  ASSUME KInv, NEW x \in Handshakes, NEW k \in Keys, Present(x, k)
  PROVE KInv'
<1> DEFINE h == HostOf[x]
<1>1. h \in Hosts
  OBVIOUS
<1>2. KeysTypeOK'
  <2>1. verdict' \in [Handshakes -> Verdicts] /\ key' \in [Handshakes -> Keys \cup {None}]
    BY SMT DEF Present, KInv, KeysTypeOK, Verdicts
  <2>3. Append(popups, x) \in Seq(Handshakes)
    BY SMT DEF KInv, KeysTypeOK
  <2>2. prompts' \subseteq Handshakes /\ popups' \in Seq(Handshakes)
    BY <2>3, Zenon DEF Present, KInv, KeysTypeOK
  <2> QED
    BY <2>1, <2>2, SMT DEF Present, KInv, KeysTypeOK
<1>3. \A y \in prompts' : key'[y] \in Keys
  BY SMT DEF Present, KInv, KeysTypeOK
<1>4. \A y \in Handshakes : verdict'[y] = "asking" => key'[y] \in Keys
  BY SMT DEF Present, KInv, KeysTypeOK
<1>5. AcceptedIsVouched'
  <2> SUFFICES ASSUME NEW y \in Handshakes, verdict'[y] = "ok"
      PROVE key'[y] \in KnownHosts[HostOf[y]] \cup trusted[HostOf[y]]
    BY DEF AcceptedIsVouched, Present
  <2>1. CASE y # x
    BY <2>1, SMT DEF Present, KInv, KeysTypeOK, AcceptedIsVouched
  <2>2. CASE y = x
    <3>1. OnRecord(h, k) /\ key'[y] = k
      BY <2>2, SMT DEF Present, KInv, KeysTypeOK
    <3>2. tofu[h] = k => k \in trusted[h]
      BY <1>1, SMT DEF KInv
    <3> QED
      BY <2>2, <3>1, <3>2 DEF OnRecord
  <2> QED
    BY <2>1, <2>2
<1>6. \A g \in Hosts : tofu'[g] # None => tofu'[g] \in trusted'[g]
  BY SMT DEF Present, KInv
<1> QED
  BY <1>2, <1>3, <1>4, <1>5, <1>6 DEF KInv

LEMMA TrustKeeps == ASSUME KInv, Trust PROVE KInv'
<1> DEFINE x == Head(popups)
           h == HostOf[x]
<1>1. x \in Handshakes /\ Tail(popups) \in Seq(Handshakes)
  BY HeadIsHandshake DEF Trust, KInv
<1>2. h \in Hosts
  BY <1>1
<1>3. CASE x \notin prompts
  <2>1. UNCHANGED <<tofu, verdict, key, prompts, trusted>> /\ popups' \in Seq(Handshakes)
    BY <1>1, <1>3 DEF Trust
  <2> QED
    BY <2>1, SMT DEF KInv, KeysTypeOK, AcceptedIsVouched
<1>4. CASE x \in prompts
  <2>1. /\ prompts' = prompts \ {x} /\ key' = key /\ popups' = Tail(popups)
        /\ trusted' = [trusted EXCEPT ![h] = @ \cup {key[x]}]
        /\ tofu' \in {tofu, [tofu EXCEPT ![h] = key[x]]}
        /\ verdict' = Said(x, "ok")
    BY <1>4 DEF Trust
  <2>2. key[x] \in Keys
    BY <1>4 DEF KInv
  <2>3. KeysTypeOK'
    <3>1. verdict' \in [Handshakes -> Verdicts]
      BY <1>1, <2>1, SMT DEF KInv, KeysTypeOK, Said, Verdicts
    <3>2. tofu' \in [Hosts -> Keys \cup {None}] /\ trusted' \in [Hosts -> SUBSET Keys]
      BY <1>2, <2>1, <2>2, SMT DEF KInv, KeysTypeOK
    <3> QED
      BY <1>1, <2>1, <3>1, <3>2, SMT DEF KInv, KeysTypeOK
  <2>4. \A g \in Hosts : /\ trusted[g] \subseteq trusted'[g]
                         /\ tofu'[g] # None => tofu'[g] \in trusted'[g]
    BY <1>2, <2>1, SMT DEF KInv, KeysTypeOK
  <2>5. key[x] \in trusted'[h]
    BY <1>2, <2>1, SMT DEF KInv, KeysTypeOK
  <2>6. AcceptedIsVouched'
    <3> SUFFICES ASSUME NEW y \in Handshakes, verdict'[y] = "ok"
        PROVE key[y] \in KnownHosts[HostOf[y]] \cup trusted'[HostOf[y]]
      BY <2>1 DEF AcceptedIsVouched
    <3>1. y = x \/ verdict[y] = "ok"
      BY <1>1, <2>1, SMT DEF KInv, KeysTypeOK, Said
    <3> QED
      BY <2>4, <2>5, <3>1, SMT DEF KInv, AcceptedIsVouched
  <2>7. \A y \in Handshakes : verdict'[y] = "asking" => verdict[y] = "asking"
    BY <1>1, <2>1, SMT DEF KInv, KeysTypeOK, Said
  <2>8. \A y \in prompts' : key'[y] \in Keys
    BY <2>1 DEF KInv
  <2>9. \A y \in Handshakes : verdict'[y] = "asking" => key'[y] \in Keys
    BY <2>1, <2>7 DEF KInv
  <2> QED
    BY <2>3, <2>4, <2>6, <2>8, <2>9 DEF KInv
<1> QED
  BY <1>3, <1>4

LEMMA RejectKeeps == ASSUME KInv, Reject PROVE KInv'
<1> DEFINE x == Head(popups)
<1>1. x \in Handshakes /\ Tail(popups) \in Seq(Handshakes)
  BY HeadIsHandshake DEF Reject, KInv
<1>2. /\ UNCHANGED <<tofu, key, trusted>> /\ prompts' \subseteq prompts
      /\ popups' \in Seq(Handshakes)
      /\ verdict' \in {verdict, [verdict EXCEPT ![x] = "refused"]}
  BY <1>1 DEF Reject, Said
<1> QED
  BY <1>1, <1>2, SMT DEF KInv, KeysTypeOK, Verdicts, AcceptedIsVouched

LEMMA KeyStepKeeps == KInv /\ [KeysNext]_keyVars => KInv'
<1> SUFFICES ASSUME KInv, [KeysNext]_keyVars PROVE KInv'
  OBVIOUS
<1>1. CASE \E x \in Handshakes : Dial(x) \/ GiveUp(x)
  BY <1>1, SMT DEF Dial, GiveUp, KInv, KeysTypeOK, Verdicts, AcceptedIsVouched
<1>2. CASE \E x \in Handshakes, k \in Keys : Present(x, k)
  BY <1>2, PresentKeeps
<1>3. CASE Trust
  BY <1>3, TrustKeeps
<1>4. CASE Reject
  BY <1>4, RejectKeeps
<1>5. CASE Reload
  <2>1. popups' \in Seq(Handshakes)
    BY <1>5, SMT DEF Reload
  <2> QED
    BY <1>5, <2>1, SMT DEF Reload, KInv, KeysTypeOK, AcceptedIsVouched
<1>6. CASE RejectAll
  BY <1>6, SMT DEF RejectAll, KInv, KeysTypeOK, Verdicts, AcceptedIsVouched
<1>7. CASE \E h \in Hosts : Revoke(h)
  BY <1>7, SMT DEF Revoke, KInv, KeysTypeOK, AcceptedIsVouched
<1>8. CASE UNCHANGED keyVars
  BY <1>8, SMT DEF keyVars, KInv, KeysTypeOK, AcceptedIsVouched
<1> QED
  BY <1>1, <1>2, <1>3, <1>4, <1>5, <1>6, <1>7, <1>8 DEF KeysNext

\* Whatever the servers show, the user answers and is late with, a handshake
\* that passes was vouched for: a line of known_hosts, or a prompt answered for
\* that host.
THEOREM KeysAreVouched == KeysSpec => []AcceptedIsVouched
<1>1. KInv => AcceptedIsVouched
  BY DEF KInv
<1> QED
  BY <1>1, InitKInv, KeyStepKeeps, PTL DEF KeysSpec

HIDE HostKeysAssumption

-----------------------------------------------------------------------------
(* Sessions.                                                               *)

Dials == {"no", "hop", "forward"}

SessionTypeOK ==
  /\ phase \in [Sessions -> Phases]
  /\ dial \in [Sessions -> Dials]
  /\ clients \in [Sessions -> Nat]
  /\ verdict \in [Handshakes -> Verdicts]
  /\ listed \subseteq Sessions

\* What is true of session s at any time.
SessionInv(s) ==
  /\ s \in listed <=> phase[s] \notin {"none", "ended"}
  /\ s \in listed => s \in windows
  /\ HasChain(s) => s \in listed /\ dial[s] = "no" /\ clients[s] = Len(Route)
  /\ dial[s] # "no" => phase[s] \in {"connecting", "ended"}
  /\ phase[s] = "connecting" => dial[s] # "no"
  /\ dial[s] = "no" /\ ~HasChain(s) => clients[s] = 0
  /\ dial[s] = "hop" => clients[s] < Len(Route)
  /\ dial[s] = "forward" => clients[s] < Len(Route)
  /\ \A i \in 1..clients[s] : verdict[<<s, i>>] = "ok"

CInv == SessionTypeOK /\ \A s \in Sessions : SessionInv(s)

\* A step of the sessions leaves the verdicts of the hops that passed.
VerdictsStay ==
  \A x \in Handshakes : verdict[x] = "ok" => verdict'[x] = "ok"

LEMMA RouteFacts ==
  /\ Len(Route) \in Nat /\ Len(Route) > 0
  /\ \A s \in Sessions, i \in Hops : <<s, i>> \in Handshakes
BY ConsolesAssumption, SMT DEF Hops

\* The other sessions keep what they have, and their windows.
OthersStay(s) ==
  \A t \in Sessions \ {s} :
    /\ phase'[t] = phase[t] /\ dial'[t] = dial[t] /\ clients'[t] = clients[t]
    /\ t \in listed' <=> t \in listed
    /\ t \in windows => t \in windows'

\* And what their hops have passed.
HopsStay(s) ==
  \A t \in Sessions \ {s}, i \in Hops :
    verdict[<<t, i>>] = "ok" => verdict'[<<t, i>>] = "ok"

LEMMA HopsStayToo == ASSUME VerdictsStay, NEW s \in Sessions PROVE HopsStay(s)
BY RouteFacts, Zenon DEF VerdictsStay, HopsStay

-----------------------------------------------------------------------------
LEMMA InitCInv == Init => CInv
<1> SUFFICES ASSUME Init PROVE CInv
  OBVIOUS
<1> QED
  BY SMT DEF Init, KeysInit, CInv, SessionTypeOK, SessionInv, Phases, Dials, Verdicts, HasChain

\* Steps that touch one session only keep the others' part.
LEMMA FrameKeeps ==
  ASSUME CInv, NEW s \in Sessions, OthersStay(s), HopsStay(s),
         NEW t \in Sessions \ {s}
  PROVE SessionInv(t)'
<1>1. clients[t] \in Nat /\ clients[t] <= Len(Route)
  BY RouteFacts, SMT DEF CInv, SessionTypeOK, SessionInv, Dials
<1>2. \A i \in 1..clients[t] : verdict'[<<t, i>>] = "ok"
  BY <1>1, RouteFacts, SMT DEF CInv, SessionInv, Hops, HopsStay
<1> QED
  BY <1>2, SMT DEF CInv, SessionInv, HasChain, OthersStay

\* What the handshakes do to the verdicts.
LEMMA DialKeeps ==
  ASSUME CInv, NEW x \in Handshakes, Dial(x)
  PROVE VerdictsStay /\ verdict' \in [Handshakes -> Verdicts]
BY SMT DEF Dial, VerdictsStay, CInv, SessionTypeOK, Verdicts

LEMMA PresentStays ==
  ASSUME CInv, NEW x \in Handshakes, NEW k \in Keys, Present(x, k)
  PROVE VerdictsStay /\ verdict' \in [Handshakes -> Verdicts]
<1>1. PICK v \in {"ok", "refused", "asking"} :
        verdict[x] = "waiting" /\ verdict' = [verdict EXCEPT ![x] = v]
  BY Zenon DEF Present
<1> QED
  BY <1>1, SMT DEF VerdictsStay, CInv, SessionTypeOK, Verdicts

LEMMA AnswerStays ==
  ASSUME CInv, Trust \/ Reject \/ Reload \/ RejectAll
  PROVE VerdictsStay /\ verdict' \in [Handshakes -> Verdicts]
<1>1. CASE Trust \/ Reject \/ Reload
  <2>1. PICK v \in {"ok", "refused"} :
          verdict' \in {verdict, Said(Head(popups), v)}
    BY <1>1, Zenon DEF Trust, Reject, Reload
  <2>2. CASE verdict' = verdict
    BY <2>2, SMT DEF VerdictsStay, CInv, SessionTypeOK
  <2>3. CASE verdict' = Said(Head(popups), v)
    <3> DEFINE x == Head(popups)
    <3>1. verdict' = verdict \/ (verdict[x] = "asking" /\ verdict' = [verdict EXCEPT ![x] = v])
      BY <2>3 DEF Said
    <3> HIDE DEF x
    <3> QED
      BY <3>1, SMT DEF VerdictsStay, CInv, SessionTypeOK, Verdicts
  <2> QED
    BY <2>1, <2>2, <2>3
<1>2. CASE RejectAll
  BY <1>2, SMT DEF RejectAll, VerdictsStay, CInv, SessionTypeOK, Verdicts
<1> QED
  BY <1>1, <1>2

\* Steps that leave the sessions alone.
LEMMA QuietKeeps ==
  ASSUME CInv, UNCHANGED sessionVars, VerdictsStay,
         verdict' \in [Handshakes -> Verdicts]
  PROVE CInv'
<1>1. SessionTypeOK'
  BY SMT DEF CInv, SessionTypeOK, sessionVars
<1>2. ASSUME NEW s \in Sessions PROVE SessionInv(s)'
  <2>1. clients[s] \in Nat /\ clients[s] <= Len(Route)
    BY RouteFacts, SMT DEF CInv, SessionTypeOK, SessionInv, Dials
  <2>2. \A i \in 1..clients[s] : verdict'[<<s, i>>] = "ok"
    BY <2>1, RouteFacts, SMT DEF CInv, SessionInv, Hops, VerdictsStay
  <2> QED
    BY <2>2, SMT DEF CInv, SessionInv, HasChain, sessionVars
<1> QED
  BY <1>1, <1>2 DEF CInv

\* Steps of one session: its own part, and the frame of the others.
LEMMA OneSession ==
  ASSUME CInv, NEW s \in Sessions, SessionTypeOK', SessionInv(s)',
         OthersStay(s), HopsStay(s)
  PROVE CInv'
<1>1. ASSUME NEW t \in Sessions \ {s} PROVE SessionInv(t)'
  BY <1>1, FrameKeeps
<1> QED
  BY <1>1 DEF CInv

LEMMA OpenKeeps == ASSUME CInv, NEW s \in Sessions, Open(s) PROVE CInv'
<1>1. SessionTypeOK'
  BY SMT DEF Open, CInv, SessionTypeOK, Phases, keyVars
<1>2. SessionInv(s)'
  BY SMT DEF Open, CInv, SessionTypeOK, SessionInv, HasChain, keyVars, Dials
<1>7. OthersStay(s)
  BY SMT DEF Open, CInv, SessionTypeOK, OthersStay
<1>8. HopsStay(s)
  BY SMT DEF Open, keyVars, HopsStay
<1> QED
  BY <1>1, <1>2, <1>7, <1>8, OneSession

LEMMA ReadyKeeps == ASSUME CInv, NEW s \in Sessions, Ready(s) PROVE CInv'
<1>1. VerdictsStay /\ verdict' \in [Handshakes -> Verdicts]
  BY RouteFacts, DialKeeps DEF Ready, Hops
<1>2. SessionTypeOK'
  BY <1>1, SMT DEF Ready, CInv, SessionTypeOK, Phases, Dials
<1>3. clients[s] = 0
  BY SMT DEF Ready, CInv, SessionInv, HasChain
<1>4. SessionInv(s)'
  BY <1>3, RouteFacts, SMT DEF Ready, CInv, SessionTypeOK, SessionInv, HasChain
<1>7. OthersStay(s)
  BY SMT DEF Ready, CInv, SessionTypeOK, OthersStay
<1>8. HopsStay(s)
  BY <1>1, HopsStayToo
<1> QED
  BY <1>2, <1>4, <1>7, <1>8, OneSession

LEMMA CloseKeeps == ASSUME CInv, NEW s \in Sessions, Close(s) PROVE CInv'
<1>1. SessionTypeOK'
  BY SMT DEF Close, Forgotten, Ended, CInv, SessionTypeOK, Phases, keyVars
<1>2. SessionInv(s)'
  BY SMT DEF Close, Forgotten, Ended, CInv, SessionTypeOK, SessionInv, HasChain, keyVars, Dials
<1>7. OthersStay(s)
  BY SMT DEF Close, Forgotten, Ended, CInv, SessionTypeOK, OthersStay
<1>8. HopsStay(s)
  BY SMT DEF Close, keyVars, HopsStay
<1> QED
  BY <1>1, <1>2, <1>7, <1>8, OneSession

LEMMA CloseWindowKeeps == ASSUME CInv, NEW s \in Sessions, CloseWindow(s) PROVE CInv'
<1>1. SessionTypeOK'
  BY SMT DEF CloseWindow, CInv, SessionTypeOK, keyVars
<1>2. SessionInv(s)'
  BY SMT DEF CloseWindow, CInv, SessionTypeOK, SessionInv, HasChain, keyVars
<1>7. OthersStay(s)
  BY SMT DEF CloseWindow, CInv, SessionTypeOK, OthersStay
<1>8. HopsStay(s)
  BY SMT DEF CloseWindow, keyVars, HopsStay
<1> QED
  BY <1>1, <1>2, <1>7, <1>8, OneSession

LEMMA RestartKeeps ==
  ASSUME CInv, NEW s \in Sessions, NEW new \in Sessions, Restart(s, new)
  PROVE CInv'
<1>1. SessionTypeOK'
  BY SMT DEF Restart, CInv, SessionTypeOK, Phases, keyVars
<1>2. s # new
  BY SMT DEF Restart, CInv, SessionInv
<1>3. SessionInv(s)'
  BY <1>2, SMT DEF Restart, CInv, SessionTypeOK, SessionInv, HasChain, keyVars, Dials
<1>4. SessionInv(new)'
  BY <1>2, SMT DEF Restart, CInv, SessionTypeOK, SessionInv, HasChain, keyVars, Dials
<1>5. ASSUME NEW t \in Sessions \ {s, new} PROVE SessionInv(t)'
  BY SMT DEF Restart, CInv, SessionTypeOK, SessionInv, HasChain, keyVars
<1> QED
  BY <1>1, <1>3, <1>4, <1>5 DEF CInv

LEMMA QuitKeeps == ASSUME CInv, Quit PROVE CInv'
<1>1. SessionTypeOK'
  BY SMT DEF Quit, Ended, CInv, SessionTypeOK, Phases, keyVars
<1>2. ASSUME NEW s \in Sessions PROVE SessionInv(s)'
  BY SMT DEF Quit, Ended, CInv, SessionTypeOK, SessionInv, HasChain, keyVars
<1> QED
  BY <1>1, <1>2 DEF CInv

LEMMA HopReadyKeeps == ASSUME CInv, NEW s \in Sessions, HopReady(s) PROVE CInv'
<1>1. clients[s] \in Nat /\ clients[s] < Len(Route) /\ verdict' = verdict
  BY SMT DEF HopReady, CInv, SessionTypeOK, SessionInv, keyVars
<1>2. \A i \in 1..(clients[s] + 1) : verdict[<<s, i>>] = "ok"
  BY <1>1, SMT DEF HopReady, CInv, SessionInv, Shake
<1>3. SessionTypeOK'
  <2>1. dial' \in [Sessions -> Dials] /\ listed' = listed
    BY SMT DEF HopReady, CInv, SessionTypeOK, Dials
  <2>2. phase' \in [Sessions -> Phases]
    BY SMT DEF HopReady, ChainUp, CInv, SessionTypeOK, Phases
  <2>3. \/ clients' = [clients EXCEPT ![s] = @ + 1]
        \/ clients' = [clients EXCEPT ![s] = 0]
    BY Zenon DEF HopReady, ChainUp
  <2>4. clients' \in [Sessions -> Nat]
    BY <1>1, <2>3, SMT DEF CInv, SessionTypeOK
  <2> QED
    BY <1>1, <2>1, <2>2, <2>4 DEF CInv, SessionTypeOK
<1>6. OthersStay(s)
  BY SMT DEF HopReady, ChainUp, CInv, SessionTypeOK, OthersStay
<1>7. HopsStay(s)
  BY <1>1, SMT DEF HopsStay
<1>4. CASE clients[s] + 1 < Len(Route)
  <2>1. /\ dial' = [dial EXCEPT ![s] = "forward"]
        /\ clients' = [clients EXCEPT ![s] = @ + 1]
        /\ UNCHANGED <<phase, listed, windows, verdict>>
    BY <1>1, <1>4, RouteFacts, SMT DEF HopReady, keyVars
  <2>2. SessionInv(s)'
    BY <1>1, <1>2, <1>4, <2>1, SMT DEF HopReady, CInv, SessionTypeOK, SessionInv, HasChain
  <2> QED
    BY <1>3, <1>6, <1>7, <2>2, OneSession
<1>5. CASE clients[s] + 1 = Len(Route)
  <2>1. /\ dial' = [dial EXCEPT ![s] = "no"] /\ ChainUp(s)
        /\ UNCHANGED <<listed, windows, verdict>>
    BY <1>1, <1>5, RouteFacts, SMT DEF HopReady, keyVars
  <2>2. SessionInv(s)'
    <3>3. SessionInv(s) /\ dial[s] = "hop" /\ dial'[s] = "no"
      BY <2>1, SMT DEF HopReady, CInv, SessionTypeOK
    <3>4. CASE phase[s] = "ended"
      <4>1. clients'[s] = 0 /\ phase' = phase
        BY <2>1, <3>4, SMT DEF ChainUp, CInv, SessionTypeOK
      <4> QED
        BY <2>1, <3>3, <3>4, <4>1, SMT DEF SessionInv, HasChain
    <3>5. CASE phase[s] # "ended"
      <4>1. clients'[s] = clients[s] + 1 /\ phase'[s] = "shell"
        BY <2>1, <3>5, SMT DEF ChainUp, CInv, SessionTypeOK
      <4>2. s \in listed /\ s \in windows
        BY <3>3, <3>5, SMT DEF SessionInv
      <4> QED
        BY <1>2, <1>5, <2>1, <3>3, <4>1, <4>2, SMT DEF SessionInv, HasChain
    <3> QED
      BY <3>4, <3>5
  <2> QED
    BY <1>3, <1>6, <1>7, <2>2, OneSession
<1> QED
  BY <1>1, <1>4, <1>5, SMT DEF HopReady
-------------------------------------------------------------------------

LEMMA ForwardKeeps == ASSUME CInv, NEW s \in Sessions, Forward(s) PROVE CInv'
<1>1. clients[s] \in Nat /\ clients[s] < Len(Route) /\ Shake(s) \in Handshakes
  BY RouteFacts, SMT DEF Forward, CInv, SessionTypeOK, SessionInv, Hops, Shake
<1>2. VerdictsStay /\ verdict' \in [Handshakes -> Verdicts]
  BY <1>1, DialKeeps DEF Forward
<1>3. SessionTypeOK'
  BY <1>2, SMT DEF Forward, CInv, SessionTypeOK, Dials
<1>4. \A i \in 1..clients[s] : verdict'[<<s, i>>] = "ok"
  BY <1>1, <1>2, RouteFacts, SMT DEF CInv, SessionInv, VerdictsStay, Hops
<1>5. SessionInv(s)'
  BY <1>1, <1>4, SMT DEF Forward, CInv, SessionTypeOK, SessionInv, HasChain
<1>6. OthersStay(s)
  BY SMT DEF Forward, CInv, SessionTypeOK, OthersStay
<1> QED
  BY <1>2, <1>3, <1>5, <1>6, HopsStayToo, OneSession

LEMMA ExceptKeeps ==
  ASSUME NEW S, NEW T, NEW f \in [S -> T], NEW x, NEW y \in T
  PROVE  [f EXCEPT ![x] = y] \in [S -> T]
OBVIOUS

LEMMA DialFailsKeeps == ASSUME CInv, NEW s \in Sessions, DialFails(s) PROVE CInv'
<1>1. \/ verdict' = verdict
      \/ verdict' = [verdict EXCEPT ![<<s, clients[s] + 1>>] = "over"]
  BY Zenon DEF DialFails, GiveUp, Shake, keyVars
<1>2. verdict' \in [Handshakes -> Verdicts] /\ HopsStay(s)
  <2>1. CASE verdict' = verdict
    BY <2>1, SMT DEF CInv, SessionTypeOK, HopsStay
  <2>2. CASE verdict' = [verdict EXCEPT ![<<s, clients[s] + 1>>] = "over"]
    <3>0. verdict \in [Handshakes -> Verdicts] /\ "over" \in Verdicts
      BY SMT DEF CInv, SessionTypeOK, Verdicts
    <3>1. verdict' \in [Handshakes -> Verdicts]
      BY <2>2, <3>0, ExceptKeeps, Zenon
    <3>2. HopsStay(s)
      BY <2>2, RouteFacts, SMT DEF CInv, SessionTypeOK, HopsStay
    <3> QED
      BY <3>1, <3>2
  <2> QED
    BY <1>1, <2>1, <2>2
<1>3. SessionTypeOK'
  BY <1>2, SMT DEF DialFails, Undone, CInv, SessionTypeOK, Phases, Dials
<1>4. SessionInv(s)'
  <2>1. phase'[s] = "ended" /\ dial'[s] = "no" /\ clients'[s] = 0 /\ s \notin listed'
    BY SMT DEF DialFails, Undone, CInv, SessionTypeOK
  <2> QED
    BY <2>1, SMT DEF SessionInv, HasChain
<1>5. OthersStay(s)
  BY SMT DEF DialFails, Undone, CInv, SessionTypeOK, OthersStay
<1> QED
  BY <1>2, <1>3, <1>4, <1>5, OneSession

LEMMA ShellOpensKeeps == ASSUME CInv, NEW s \in Sessions, ShellOpens(s) PROVE CInv'
<1>1. SessionTypeOK'
  BY SMT DEF ShellOpens, CInv, SessionTypeOK, Phases, keyVars
<1>2. SessionInv(s)'
  BY SMT DEF ShellOpens, CInv, SessionTypeOK, SessionInv, HasChain, keyVars
<1>3. OthersStay(s) /\ HopsStay(s)
  BY SMT DEF ShellOpens, CInv, SessionTypeOK, OthersStay, HopsStay, keyVars
<1> QED
  BY <1>1, <1>2, <1>3, OneSession

LEMMA DropKeeps == ASSUME CInv, NEW s \in Sessions, Drop(s) PROVE CInv'
<1>1. SessionTypeOK'
  BY SMT DEF Drop, Ended, CInv, SessionTypeOK, Phases, keyVars
<1>2. SessionInv(s)'
  BY SMT DEF Drop, Ended, CInv, SessionTypeOK, SessionInv, HasChain, keyVars
<1>3. OthersStay(s) /\ HopsStay(s)
  BY SMT DEF Drop, Ended, CInv, SessionTypeOK, OthersStay, HopsStay, keyVars
<1> QED
  BY <1>1, <1>2, <1>3, OneSession

LEMMA ShowKeyKeeps ==
  ASSUME CInv, NEW s \in Sessions, NEW k \in Keys, ShowKey(s, k)
  PROVE CInv'
<1>1. Shake(s) \in Handshakes
  BY RouteFacts, SMT DEF ShowKey, CInv, SessionTypeOK, SessionInv, Hops, Shake
<1> QED
  BY <1>1, PresentStays, QuietKeeps DEF ShowKey

LEMMA OtherKeeps ==
  ASSUME CInv, \/ Answer \/ LastAnswers \/ Flush
               \/ \E s \in Sessions : Traffic(s)
               \/ \E S \in SUBSET Sessions : Watch(S)
               \/ \E h \in Hosts : Forget(h)
               \/ UNCHANGED vars
  PROVE CInv'
<1>1. CASE Answer \/ LastAnswers
  BY <1>1, AnswerStays, QuietKeeps DEF Answer, LastAnswers
<1>2. CASE ~(Answer \/ LastAnswers)
  <2>1. UNCHANGED <<sessionVars, verdict>>
    BY <1>2, Zenon DEF Flush, Traffic, Watch, Forget, Revoke, vars, keyVars
  <2> QED
    BY <2>1, QuietKeeps DEF VerdictsStay, CInv, SessionTypeOK
<1> QED
  BY <1>1, <1>2

LEMMA StepCInv == CInv /\ [Next]_vars => CInv'
<1> SUFFICES ASSUME CInv, [Next]_vars PROVE CInv'
  OBVIOUS
<1>1. ASSUME NEW s \in Sessions,
             \/ Open(s) \/ Ready(s) \/ Close(s) \/ CloseWindow(s)
             \/ DialStep(s) \/ ShellOpens(s) \/ Drop(s)
             \/ \E k \in Keys : ShowKey(s, k)
             \/ \E new \in Sessions : Restart(s, new)
      PROVE CInv'
  BY <1>1, OpenKeeps, ReadyKeeps, CloseKeeps, CloseWindowKeeps, HopReadyKeeps,
     ForwardKeeps, DialFailsKeeps, ShellOpensKeeps, DropKeeps, ShowKeyKeeps,
     RestartKeeps DEF DialStep
<1> QED
  BY <1>1, QuitKeeps, OtherKeeps DEF Next

-----------------------------------------------------------------------------
\* No window that closes, no restart, no failure half way down the chain and no
\* quit leaves an SSH client that nothing will end.
THEOREM NoClientOutlives == Spec => []NothingOutlives
<1>1. CInv => NothingOutlives
  BY SMT DEF CInv, SessionTypeOK, SessionInv, NothingOutlives, HasChain, Dials
<1> QED
  BY <1>1, InitCInv, StepCInv, PTL DEF Spec

\* A session the manager lists is alive, has its window, and has a shell only
\* behind hops that were all verified.
THEOREM ListedSessionsAreAlive == Spec => []ListedIsAlive
<1>1. CInv => ListedIsAlive
  <2> SUFFICES ASSUME CInv PROVE ListedIsAlive
    OBVIOUS
  <2>1. ASSUME NEW s \in Sessions PROVE SessionInv(s)
    BY DEF CInv
  <2> QED
    BY <2>1, SMT DEF CInv, SessionTypeOK, SessionInv, ListedIsAlive, Hops
<1> QED
  BY <1>1, InitCInv, StepCInv, PTL DEF Spec

-----------------------------------------------------------------------------
LEMMA StepIsKeyStep == CInv /\ [Next]_vars => [KeysNext]_keyVars
<1> SUFFICES ASSUME CInv, [Next]_vars PROVE [KeysNext]_keyVars
  OBVIOUS
<1>1. ASSUME NEW s \in Sessions, dial[s] = "hop" \/ dial[s] = "forward" \/ clients[s] = 0
      PROVE Shake(s) \in Handshakes /\ <<s, 1>> \in Handshakes
  BY <1>1, RouteFacts, SMT DEF CInv, SessionTypeOK, SessionInv, Hops, Shake
<1>2. ASSUME NEW s \in Sessions, Ready(s) PROVE KeysNext
  BY <1>1, <1>2, RouteFacts DEF Ready, KeysNext, Hops
<1>3. ASSUME NEW s \in Sessions, NEW k \in Keys, ShowKey(s, k) PROVE KeysNext
  BY <1>1, <1>3, Zenon DEF ShowKey, KeysNext
<1>4. ASSUME NEW s \in Sessions, DialStep(s) PROVE [KeysNext]_keyVars
  BY <1>1, <1>4, Zenon DEF DialStep, HopReady, Forward, DialFails, KeysNext
<1>5. ASSUME Answer \/ LastAnswers \/ \E h \in Hosts : Forget(h)
      PROVE KeysNext
  BY <1>5, Zenon DEF Answer, LastAnswers, Forget, KeysNext
<1>6. ASSUME NEW s \in Sessions,
             \/ Open(s) \/ Close(s) \/ CloseWindow(s) \/ ShellOpens(s) \/ Drop(s)
             \/ Traffic(s) \/ \E new \in Sessions : Restart(s, new)
      PROVE UNCHANGED keyVars
  BY <1>6, Zenon DEF Open, Close, CloseWindow, ShellOpens, Drop, Traffic, Restart
<1>7. ASSUME Flush \/ Quit \/ (\E S \in SUBSET Sessions : Watch(S)) \/ UNCHANGED vars
      PROVE UNCHANGED keyVars
  BY <1>7, Zenon DEF Flush, Quit, Watch, vars
<1> QED
  BY <1>2, <1>3, <1>4, <1>5, <1>6, <1>7, Zenon DEF Next

\* Sessions, windows and the heartbeat use the host keys only as HostKeys lets
\* them: what holds of the verifiers and prompts alone holds here.
THEOREM ConsolesUseHostKeys == Spec => KeysSpec
<1>1. Init => KeysInit
  BY DEF Init
<1> QED
  BY <1>1, InitCInv, StepCInv, StepIsKeyStep, PTL DEF Spec, KeysSpec

\* A console's hop passes only on a key that was vouched for.
THEOREM ConsoleKeysAreVouched == Spec => []AcceptedIsVouched
BY ConsolesUseHostKeys, KeysAreVouched, PTL
=============================================================================
