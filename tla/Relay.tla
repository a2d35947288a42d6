------------------------------- MODULE Relay -------------------------------
(***************************************************************************)
(* The relays of one tunnel, with the connection counts of its Stats.      *)
(* src/src/app/tunnel/relay.js, stats.js and what tunnel.js does to its    *)
(* relays.                                                                 *)
(*                                                                         *)
(* A relay bridges the end that called (`near`: an accepted socket, or for *)
(* a reverse forward the accepted channel) and the end it opens itself     *)
(* (`far`: the forwarded channel, or the local target).  The three kinds   *)
(* differ in what precedes the opening: "local" opens at once, "socks"     *)
(* reads a handshake first, "reverse" dials.  An action is one event of    *)
(* Node's loop; a stream that flows is read, and what is read with no pipe *)
(* and no listener is gone.                                                *)
(*                                                                         *)
(* Left out: the bytes (an end has some to be read or none), the byte      *)
(* counters, rates and time stamps of Stats, the replies of SOCKS, and the *)
(* tunnel's own state, which is module Tunnel.  The tunnel's calls do not  *)
(* overlap.                                                                *)
(***************************************************************************)
EXTENDS Naturals, FiniteSets

CONSTANTS
  Relays,  \* BOUND: identities of the relays that exist at a time
  Kinds    \* the kinds of relay to run, of "local", "socks", "reverse"

ASSUME RelaysAssumption == IsFiniteSet(Relays)
ASSUME KindsAssumption == Kinds \subseteq {"local", "socks", "reverse"}

Ends == {"near", "far"}

VARIABLES
  rel,    \* the relays
  tunnel, \* the tunnel that owns them: "armed", "paused" or "down"
  stats   \* its Stats: activeConnections and peakConnections

vars == <<rel, tunnel, stats>>

Phases == {"free", "handshake", "opening", "open", "closed"}

RelayRecords ==
  [kind    : {"local", "socks", "reverse"},
   at      : Phases,
   pending : BOOLEAN,       \* the far end was asked for and has not answered
   paused  : BOOLEAN,
   ends    : SUBSET Ends,   \* the ends not destroyed
   echo    : SUBSET Ends,   \* destroyed, their "close" still to be heard
   flowing : SUBSET Ends,   \* the ends that are read
   choked  : SUBSET Ends,   \* the ends whose pipe waits for a "drain"
   unread  : SUBSET Ends,   \* the ends with bytes to be read
   lost    : BOOLEAN,       \* history: bytes were read by nobody
   told    : Nat]           \* history: calls of onClose

TypeOK ==
  /\ rel \in [Relays -> RelayRecords]
  /\ tunnel \in {"armed", "paused", "down"}
  /\ stats \in [active : 0..Cardinality(Relays), peak : 0..Cardinality(Relays)]
  /\ stats.active <= stats.peak

-----------------------------------------------------------------------------
Free ==
  [kind |-> "local", at |-> "free", pending |-> FALSE, paused |-> FALSE, ends |-> {},
   echo |-> {}, flowing |-> {}, choked |-> {}, unread |-> {},
   lost |-> FALSE, told |-> 0]

NewRelay(kind) ==
  IF kind = "socks"
  THEN [Free EXCEPT !.kind = kind, !.at = "handshake", !.ends = {"near"}, !.flowing = {"near"}]
  ELSE [Free EXCEPT !.kind = kind, !.at = "opening", !.ends = {"near"}, !.pending = TRUE]

Alive(x) == x.at \in {"handshake", "opening", "open"}

IsOpen(x) == x.at = "open"

(* Mutant: resuming forgets the far end.                                   *)
ApplyFlow_Mutant(x) ==
  IF ~Alive(x) THEN x
  ELSE [x EXCEPT !.flowing = IF x.paused THEN {} ELSE {"near"}]

(* applyFlow(): the state of `paused` on the ends that exist.              *)
ApplyFlow(x) ==
  IF ~Alive(x) THEN x ELSE [x EXCEPT !.flowing = IF x.paused THEN {} ELSE x.ends]

SetPaused(x, b) == ApplyFlow([x EXCEPT !.paused = b])

(* finish() past its guard: both ends are destroyed, onClose is called.  A *)
(* dial is destroyed with its socket; a forwarded channel may still come.  *)
Ended(x) ==
  [Free EXCEPT !.kind = x.kind, !.at = "closed", !.echo = x.ends, !.told = x.told + 1,
               !.pending = x.pending /\ x.kind # "reverse"]

Finish(x) == IF Alive(x) THEN Ended(x) ELSE x

(* Stats.connOpened()                                                      *)
CountOpened(s) ==
  [s EXCEPT !.active = @ + 1, !.peak = IF s.active + 1 > @ THEN s.active + 1 ELSE @]

(* Mutant: the close of a relay that never opened is counted too.          *)
CountClosed_Mutant(s, n) ==
  [s EXCEPT !.active = IF n > 0 THEN @ - n ELSE IF @ > 0 THEN @ - 1 ELSE 0]

(* Stats.connClosed(), n times.                                            *)
CountClosed(s, n) ==
  [s EXCEPT !.active = IF @ >= n THEN @ - n ELSE 0]

(* Stats.onArmed()                                                         *)
FreshStats == [active |-> 0, peak |-> 0]

NumOpen == Cardinality({r \in Relays : IsOpen(rel[r])})

Init ==
  /\ rel = [r \in Relays |-> Free]
  /\ tunnel = "armed"
  /\ stats = FreshStats

-----------------------------------------------------------------------------
(* The tunnel.                                                             *)

(* A client gets its relay.  One that waited for the SSH session while the *)
(* tunnel was paused is paused at once; a reverse connection is refused.   *)
Start(r) ==
  /\ rel[r].at = "free"
  /\ \E kind \in Kinds :
       /\ tunnel = "armed" \/ (tunnel = "paused" /\ kind # "reverse")
       /\ rel' = [rel EXCEPT ![r] = IF tunnel = "paused" THEN SetPaused(NewRelay(kind), TRUE)
                                    ELSE NewRelay(kind)]
  /\ UNCHANGED <<tunnel, stats>>

Pause ==
  /\ tunnel = "armed"
  /\ tunnel' = "paused"
  /\ rel' = [r \in Relays |-> SetPaused(rel[r], TRUE)]
  /\ UNCHANGED stats

Resume ==
  /\ tunnel = "paused"
  /\ tunnel' = "armed"
  /\ rel' = [r \in Relays |-> SetPaused(rel[r], FALSE)]
  /\ UNCHANGED stats

(* #failAllConnections(): the session drops, or the tunnel goes down.      *)
FailAll ==
  /\ tunnel # "down"
  /\ tunnel' \in {tunnel, "down"}
  /\ rel' = [r \in Relays |-> Finish(rel[r])]
  /\ stats' = CountClosed(stats, NumOpen)

Rearm ==
  /\ tunnel = "down"
  /\ tunnel' = "armed"
  /\ stats' = FreshStats
  /\ UNCHANGED rel

-----------------------------------------------------------------------------
(* One relay.                                                              *)

(* The client's bytes are handshake: more is needed, or it is refused, or  *)
(* they hold the request.  Bytes behind it wait in the closure.            *)
Handshake(r) ==
  LET x == [rel[r] EXCEPT !.unread = {}]
  IN  /\ rel[r].at = "handshake" /\ "near" \in rel[r].flowing \cap rel[r].unread
      /\ \/ rel' = [rel EXCEPT ![r] = x]
         \/ rel' = [rel EXCEPT ![r] = Finish(x)]
         \/ rel' = [rel EXCEPT ![r] = [x EXCEPT !.at = "opening", !.pending = TRUE,
                                                !.flowing = {}]]
      /\ UNCHANGED <<tunnel, stats>>

(* The pipes resume both ends.  Bytes behind the SOCKS request go first.   *)
Wired(x) ==
  [x EXCEPT !.at = "open", !.pending = FALSE, !.ends = Ends, !.flowing = Ends]

(* Mutant: the pause that came meanwhile is not applied again.             *)
Opens_Mutant(r) ==
  LET x == rel[r]
  IN  /\ x.pending
      /\ IF Alive(x)
         THEN rel' = [rel EXCEPT ![r] = Wired(x)] /\ stats' = CountOpened(stats)
         ELSE rel' = [rel EXCEPT ![r].pending = FALSE] /\ UNCHANGED stats
      /\ UNCHANGED tunnel

(* The far end opens; a pause that came meanwhile is applied again.  A     *)
(* channel that comes too late is destroyed.                               *)
Opens(r) ==
  LET x == rel[r]
  IN  /\ x.pending
      /\ IF Alive(x)
         THEN /\ rel' = [rel EXCEPT ![r] = IF x.paused THEN ApplyFlow(Wired(x)) ELSE Wired(x)]
              /\ stats' = CountOpened(stats)
         ELSE /\ rel' = [rel EXCEPT ![r].pending = FALSE]
              /\ UNCHANGED stats
      /\ UNCHANGED tunnel

(* Refused, unreachable, or the dial failed.                               *)
OpenFails(r) ==
  LET x == [rel[r] EXCEPT !.pending = FALSE]
  IN  /\ rel[r].pending
      /\ rel' = [rel EXCEPT ![r] = Finish(x)]
      /\ UNCHANGED <<tunnel, stats>>

(* An end closes or fails: its peer left, or it is the echo of a destroy.  *)
EndCloses(r, e) ==
  LET x == rel[r]
  IN  /\ e \in x.ends \cup x.echo
      /\ rel' = [rel EXCEPT ![r] = [Finish(x) EXCEPT !.echo = (x.echo \cup x.ends) \ {e}]]
      /\ stats' = CountClosed(stats, IF IsOpen(x) THEN 1 ELSE 0)
      /\ UNCHANGED tunnel

(* A relay that is over is referred to by nobody.                          *)
Forget(r) ==
  /\ rel[r].at = "closed" /\ ~rel[r].pending /\ rel[r].echo = {}
  /\ rel' = [rel EXCEPT ![r] = Free]
  /\ UNCHANGED <<tunnel, stats>>

-----------------------------------------------------------------------------
(* Node's streams.                                                         *)

(* The peer of an end sends.                                               *)
PeerSends(r, e) ==
  /\ e \in rel[r].ends \ rel[r].unread
  /\ rel' = [rel EXCEPT ![r].unread = @ \cup {e}]
  /\ UNCHANGED <<tunnel, stats>>

(* A flowing end is read: into the pipe, which pauses it when the other    *)
(* end is full, or, before there is a pipe, into nothing.                  *)
Reads(r, e) ==
  LET x == [rel[r] EXCEPT !.unread = @ \ {e}]
  IN  /\ rel[r].at \in {"opening", "open"} /\ e \in rel[r].flowing \cap rel[r].unread
      /\ \/ /\ ~IsOpen(x)
            /\ rel' = [rel EXCEPT ![r] = [x EXCEPT !.lost = TRUE]]
         \/ /\ IsOpen(x)
            /\ rel' = [rel EXCEPT ![r] = x]
         \/ /\ IsOpen(x)
            /\ rel' = [rel EXCEPT ![r] = [x EXCEPT !.flowing = @ \ {e}, !.choked = @ \cup {e}]]
      /\ UNCHANGED <<tunnel, stats>>

(* The other end can take more: the pipe resumes this one.                 *)
Drains(r, e) ==
  /\ IsOpen(rel[r]) /\ e \in rel[r].choked
  /\ rel' = [rel EXCEPT ![r].choked = @ \ {e}, ![r].flowing = @ \cup {e}]
  /\ UNCHANGED <<tunnel, stats>>

Next ==
  \/ Pause \/ Resume \/ FailAll \/ Rearm
  \/ \E r \in Relays :
       \/ Start(r) \/ Handshake(r) \/ Opens(r) \/ OpenFails(r) \/ Forget(r)
       \/ \E e \in Ends : EndCloses(r, e) \/ PeerSends(r, e) \/ Reads(r, e) \/ Drains(r, e)

Spec == Init /\ [][Next]_vars

(* The event loop delivers what has arrived, and a full end drains.        *)
FairSpec ==
  /\ Spec
  /\ \A r \in Relays, e \in Ends : WF_vars(Reads(r, e)) /\ WF_vars(Drains(r, e))

-----------------------------------------------------------------------------
(* However the two ends, the answer of the far end and the tunnel race, a  *)
(* relay that is over told its owner once and left no end open, not even a *)
(* channel that came too late.  (relay.js:24-27, 124-150)                  *)
ClosesOnce ==
  \A r \in Relays :
    /\ rel[r].told = IF rel[r].at = "closed" THEN 1 ELSE 0
    /\ rel[r].at = "closed" => rel[r].ends = {}

(* The live connections that Monitoring shows are the relays that are      *)
(* open: across drops, teardowns, openings that fail or come late, and the *)
(* zeroing at a re-arm.  (stats.js:116-127, 163-180; relay.js:120, 152)    *)
CountBalances == stats.active = NumOpen

(* A pause keeps: an end of an open, paused relay that is held is let go   *)
(* by nothing but the "drain" of the pipe it was choked by, and a relay    *)
(* that opens paused opens held.  (relay.js:28-33, 87-88, 175)             *)
PauseHolds ==
  [][\A r \in Relays, e \in Ends :
       (/\ IsOpen(rel'[r]) /\ rel'[r].paused
        /\ ~(IsOpen(rel[r]) /\ rel[r].paused /\ e \in rel[r].flowing \cup rel[r].choked))
         => e \notin rel'[r].flowing]_vars

(* What an end has received goes on to the other unless the relay is       *)
(* paused or over: a resume brings back both directions, also when the     *)
(* pause fell into the opening or on a full pipe.  (relay.js:167-175, 196) *)
DataFlows ==
  \A r \in Relays, e \in Ends :
    (IsOpen(rel[r]) /\ ~rel[r].paused /\ e \in rel[r].unread)
      ~> (e \notin rel[r].unread \/ rel[r].paused \/ ~IsOpen(rel[r]))
=============================================================================
