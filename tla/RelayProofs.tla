---------------------------- MODULE RelayProofs ----------------------------
(***************************************************************************)
(* Proofs about Relay.tla for any number of relays of any kinds: a relay   *)
(* that is over told its owner once and left nothing open, and the         *)
(* connections counted are the relays that are open.                       *)
(*                                                                         *)
(* The count needs two facts that are not about counting: a far end still  *)
(* to be answered belongs to a relay that is not open yet (else an answer  *)
(* would count it twice), and a tunnel that is down has no live relay      *)
(* (else the zeroing at the next arm would forget one).                    *)
(*                                                                         *)
(* And about Shell.tla, the application around the engine: what launch     *)
(* puts off while the secret store is locked is done once, and the page    *)
(* shows the lock as it is.  What is on its way to the page is true of the *)
(* store, for it is never locked again while the process lives.            *)
(*                                                                         *)
(* And about Socks.tla, the bytes of one SOCKS connection: what the parser *)
(* does is what the protocol says of the bytes so far, however they were   *)
(* cut up on the way.                                                      *)
(***************************************************************************)
EXTENDS Relay, Shell, Socks, FiniteSetTheorems, SequenceTheorems, TLAPS

Good(x) ==
  /\ x \in RelayRecords
  /\ x.told = IF x.at = "closed" THEN 1 ELSE 0
  /\ x.at = "closed" => x.ends = {}
  /\ x.pending => x.at \in {"opening", "closed"}

OpenRelays(f) == {r \in Relays : IsOpen(f[r])}

RelaysAreGood == rel \in [Relays -> RelayRecords] /\ \A r \in Relays : Good(rel[r])

DownIsOver == tunnel = "down" => \A r \in Relays : ~Alive(rel[r])

IInv ==
  /\ RelaysAreGood
  /\ tunnel \in {"armed", "paused", "down"}
  /\ DownIsOver
  /\ DOMAIN stats = {"active", "peak"} /\ stats = [active |-> stats.active, peak |-> stats.peak]
  /\ stats.active = Cardinality(OpenRelays(rel))
  /\ stats.peak \in stats.active..Cardinality(Relays)

-----------------------------------------------------------------------------
(* The operators on one relay.                                             *)

LEMMA FreeIsGood == Good(Free) /\ ~Alive(Free) /\ Free.ends = {}
BY DEF Free, Good, RelayRecords, Phases, Ends, Alive

LEMMA NewIsGood ==
  ASSUME NEW kind \in {"local", "socks", "reverse"}
  PROVE  Good(NewRelay(kind)) /\ Alive(NewRelay(kind)) /\ ~IsOpen(NewRelay(kind))
<1>1. Free \in RelayRecords /\ Free.told = 0 /\ ~Free.pending
  BY FreeIsGood DEF Good, Free
<1>2. CASE kind = "socks"
  <2> DEFINE y == [Free EXCEPT !.kind = kind, !.at = "handshake", !.ends = {"near"},
                               !.flowing = {"near"}]
  <2>1. NewRelay(kind) = y
    BY <1>2 DEF NewRelay
  <2>2. y \in RelayRecords /\ y.at = "handshake" /\ y.told = 0 /\ ~y.pending
    BY <1>1 DEF RelayRecords, Phases, Ends
  <2>3. QED
    BY <2>1, <2>2 DEF Good, Alive, IsOpen
<1>3. CASE kind # "socks"
  <2> DEFINE y == [Free EXCEPT !.kind = kind, !.at = "opening", !.ends = {"near"},
                               !.pending = TRUE]
  <2>1. NewRelay(kind) = y
    BY <1>3 DEF NewRelay
  <2>2. y \in RelayRecords /\ y.at = "opening" /\ y.told = 0
    BY <1>1 DEF RelayRecords, Phases, Ends
  <2>3. QED
    BY <2>1, <2>2 DEF Good, Alive, IsOpen
<1>4. QED
  BY <1>2, <1>3

LEMMA ApplyFlowKeeps ==
  ASSUME NEW x, Good(x)
  PROVE  Good(ApplyFlow(x)) /\ ApplyFlow(x).at = x.at
BY DEF ApplyFlow, Good, RelayRecords

LEMMA SetPausedKeeps ==
  ASSUME NEW x, Good(x), NEW b \in BOOLEAN
  PROVE  Good(SetPaused(x, b)) /\ SetPaused(x, b).at = x.at
<1>1. Good([x EXCEPT !.paused = b]) /\ [x EXCEPT !.paused = b].at = x.at
  BY DEF Good, RelayRecords
<1>2. QED
  BY <1>1, ApplyFlowKeeps DEF SetPaused

LEMMA ApplyFlowHolds ==
  ASSUME NEW x, Good(x), Alive(x), ApplyFlow(x).paused
  PROVE  ApplyFlow(x).flowing = {}
BY DEF ApplyFlow, Good, RelayRecords

LEMMA SetPausedHolds ==
  ASSUME NEW x, Good(x), NEW b \in BOOLEAN, IsOpen(SetPaused(x, b)), SetPaused(x, b).paused
  PROVE  SetPaused(x, b).flowing = {}
<1> DEFINE y == [x EXCEPT !.paused = b]
<1>1. Good(y)
  BY DEF Good, RelayRecords
<1>2. SetPaused(x, b) = ApplyFlow(y)
  BY DEF SetPaused
<1> HIDE DEF y
<1>3. Alive(y)
  BY <1>1, <1>2, ApplyFlowKeeps DEF IsOpen, Alive
<1>4. QED
  BY <1>1, <1>2, <1>3, ApplyFlowHolds

LEMMA FinishKeeps ==
  ASSUME NEW x, Good(x)
  PROVE  Good(Finish(x)) /\ ~Alive(Finish(x))
<1>1. CASE Alive(x)
  <2>1. x.told = 0
    BY <1>1 DEF Good, Alive
  <2>2. Ended(x) \in RelayRecords
    <3> DEFINE p == x.pending /\ x.kind # "reverse"
    <3>1. p \in BOOLEAN
      OBVIOUS
    <3>2. Ended(x) = [Free EXCEPT !.kind = x.kind, !.at = "closed", !.echo = x.ends,
                                  !.told = x.told + 1, !.pending = p]
      BY DEF Ended
    <3>3. x.kind \in {"local", "socks", "reverse"} /\ x.ends \in SUBSET Ends /\ x.told + 1 \in Nat
      BY <2>1 DEF Good, RelayRecords
    <3>4. Free \in RelayRecords /\ "closed" \in Phases
      BY FreeIsGood DEF Good, Phases
    <3> HIDE DEF p
    <3>5. QED
      BY <3>1, <3>2, <3>3, <3>4 DEF RelayRecords
  <2>3. Good(Ended(x)) /\ ~Alive(Ended(x))
    BY <2>1, <2>2, FreeIsGood DEF Ended, Good, RelayRecords, Alive
  <2>4. QED
    BY <1>1, <2>3 DEF Finish
<1>2. CASE ~Alive(x)
  BY <1>2 DEF Finish
<1>3. QED
  BY <1>1, <1>2

LEMMA WiredKeeps ==
  ASSUME NEW x, Good(x), x.pending, Alive(x)
  PROVE  /\ Good(Wired(x)) /\ IsOpen(Wired(x))
         /\ Good(ApplyFlow(Wired(x))) /\ IsOpen(ApplyFlow(Wired(x)))
         /\ ~IsOpen(x)
<1>1. Good(Wired(x)) /\ IsOpen(Wired(x)) /\ ~IsOpen(x)
  BY DEF Wired, Good, RelayRecords, Phases, Alive, IsOpen
<1>2. QED
  BY <1>1, ApplyFlowKeeps DEF IsOpen

-----------------------------------------------------------------------------
(* Counting.                                                               *)

LEMMA OpenIsFinite ==
  ASSUME NEW f
  PROVE  /\ IsFiniteSet(OpenRelays(f))
         /\ Cardinality(OpenRelays(f)) \in Nat
         /\ Cardinality(Relays) \in Nat
         /\ Cardinality(OpenRelays(f)) <= Cardinality(Relays)
<1>1. OpenRelays(f) \in SUBSET Relays
  BY DEF OpenRelays
<1>2. QED
  BY <1>1, FS_Subset, FS_CardinalityType, RelaysAssumption

LEMMA NoneOpen ==
  ASSUME NEW f, \A r \in Relays : ~IsOpen(f[r])
  PROVE  Cardinality(OpenRelays(f)) = 0
BY FS_EmptySet DEF OpenRelays

LEMMA SameOpen ==
  ASSUME NEW f, NEW g, \A r \in Relays : IsOpen(f[r]) <=> IsOpen(g[r])
  PROVE  OpenRelays(f) = OpenRelays(g)
BY DEF OpenRelays

LEMMA OneOpens ==
  ASSUME NEW f, NEW r \in Relays, NEW y, f \in [Relays -> RelayRecords],
         ~IsOpen(f[r]), IsOpen(y)
  PROVE  Cardinality(OpenRelays([f EXCEPT ![r] = y])) = Cardinality(OpenRelays(f)) + 1
<1>1. OpenRelays([f EXCEPT ![r] = y]) = OpenRelays(f) \cup {r}
  BY DEF OpenRelays
<1>2. r \notin OpenRelays(f)
  BY DEF OpenRelays
<1>3. QED
  BY <1>1, <1>2, OpenIsFinite, FS_AddElement

LEMMA OneEnds ==
  ASSUME NEW f, NEW r \in Relays, NEW y, f \in [Relays -> RelayRecords],
         IsOpen(f[r]), ~IsOpen(y)
  PROVE  /\ Cardinality(OpenRelays([f EXCEPT ![r] = y])) = Cardinality(OpenRelays(f)) - 1
         /\ Cardinality(OpenRelays(f)) >= 1
<1>1. OpenRelays([f EXCEPT ![r] = y]) = OpenRelays(f) \ {r}
  BY DEF OpenRelays
<1>2. r \in OpenRelays(f)
  BY DEF OpenRelays
<1>3. Cardinality(OpenRelays([f EXCEPT ![r] = y])) = Cardinality(OpenRelays(f)) - 1
  BY <1>1, <1>2, OpenIsFinite, FS_RemoveElement
<1>4. Cardinality(OpenRelays(f)) # 0
  BY <1>2, OpenIsFinite, FS_EmptySet
<1>5. QED
  BY <1>3, <1>4, OpenIsFinite

(* A step of one relay that neither opens nor ends it, nor revives it.     *)
LEMMA OneStays ==
  ASSUME IInv, NEW r \in Relays, NEW y, Good(y), IsOpen(y) <=> IsOpen(rel[r]),
         Alive(y) => Alive(rel[r]) \/ tunnel # "down",
         rel' = [rel EXCEPT ![r] = y], UNCHANGED <<tunnel, stats>>
  PROVE  IInv'
<1>1. RelaysAreGood'
  BY DEF IInv, RelaysAreGood, Good
<1>2. DownIsOver'
  BY DEF IInv, RelaysAreGood, DownIsOver
<1>3. OpenRelays(rel') = OpenRelays(rel)
  BY SameOpen DEF IInv, RelaysAreGood
<1>4. QED
  BY <1>1, <1>2, <1>3 DEF IInv

-----------------------------------------------------------------------------
(* The actions.                                                            *)

LEMMA StartKeeps ==
  ASSUME IInv, NEW r \in Relays, Start(r)
  PROVE  IInv'
<1>1. PICK kind \in Kinds :
        /\ tunnel = "armed" \/ (tunnel = "paused" /\ kind # "reverse")
        /\ rel' = [rel EXCEPT ![r] = IF tunnel = "paused" THEN SetPaused(NewRelay(kind), TRUE)
                                     ELSE NewRelay(kind)]
  BY DEF Start
<1> DEFINE y == IF tunnel = "paused" THEN SetPaused(NewRelay(kind), TRUE) ELSE NewRelay(kind)
<1>2. Good(y) /\ ~IsOpen(y)
  BY KindsAssumption, NewIsGood, SetPausedKeeps DEF IsOpen
<1>3. ~IsOpen(rel[r]) /\ tunnel # "down"
  BY <1>1 DEF Start, IsOpen
<1> HIDE DEF y
<1>4. QED
  BY <1>1, <1>2, <1>3, OneStays DEF Start, y

LEMMA PauseResumeKeep ==
  ASSUME IInv, Pause \/ Resume
  PROVE  IInv'
<1>1. PICK b \in BOOLEAN : rel' = [r \in Relays |-> SetPaused(rel[r], b)]
  BY DEF Pause, Resume
<1>2. \A r \in Relays : Good(rel'[r]) /\ rel'[r].at = rel[r].at
  BY <1>1, SetPausedKeeps DEF IInv, RelaysAreGood
<1>3. RelaysAreGood'
  BY <1>1, <1>2 DEF RelaysAreGood, Good
<1>4. tunnel' \in {"armed", "paused"} /\ stats' = stats
  BY DEF Pause, Resume
<1>5. OpenRelays(rel') = OpenRelays(rel)
  BY <1>2, SameOpen DEF IsOpen
<1>6. QED
  BY <1>3, <1>4, <1>5 DEF IInv, DownIsOver

LEMMA FailAllKeeps ==
  ASSUME IInv, FailAll
  PROVE  IInv'
<1>1. \A r \in Relays : Good(rel'[r]) /\ ~Alive(rel'[r])
  BY FinishKeeps DEF FailAll, IInv, RelaysAreGood
<1>2. RelaysAreGood' /\ DownIsOver'
  BY <1>1 DEF FailAll, RelaysAreGood, DownIsOver, Good
<1>3. Cardinality(OpenRelays(rel')) = 0
  BY <1>1, NoneOpen DEF Alive, IsOpen
<1>4. NumOpen = stats.active
  BY DEF NumOpen, OpenRelays, IInv
<1>5. stats.active \in Nat
  BY OpenIsFinite DEF IInv
<1>6. stats' = [active |-> 0, peak |-> stats.peak]
  BY <1>4, <1>5 DEF FailAll, CountClosed, IInv
<1>7. stats.peak \in 0..Cardinality(Relays)
  BY <1>5, OpenIsFinite DEF IInv
<1>8. tunnel' \in {"armed", "paused", "down"}
  BY DEF FailAll, IInv
<1>9. QED
  BY <1>2, <1>3, <1>6, <1>7, <1>8 DEF IInv

LEMMA RearmKeeps ==
  ASSUME IInv, Rearm
  PROVE  IInv'
<1>1. Cardinality(OpenRelays(rel)) = 0
  BY NoneOpen DEF Rearm, IInv, DownIsOver, Alive, IsOpen
<1>2. stats' = [active |-> 0, peak |-> 0]
  BY DEF Rearm, FreshStats
<1>3. 0 \in 0..Cardinality(Relays)
  BY OpenIsFinite
<1>4. QED
  BY <1>1, <1>2, <1>3 DEF Rearm, IInv, RelaysAreGood, DownIsOver, Good

LEMMA HandshakeKeeps ==
  ASSUME IInv, NEW r \in Relays, Handshake(r)
  PROVE  IInv'
<1> DEFINE x == [rel[r] EXCEPT !.unread = {}]
           opens == [x EXCEPT !.at = "opening", !.pending = TRUE, !.flowing = {}]
<1>1. Good(x) /\ x.at = "handshake" /\ rel[r].at = "handshake"
  BY DEF Handshake, IInv, RelaysAreGood, Good, RelayRecords
<1>2. Good(opens) /\ ~IsOpen(opens)
  BY <1>1 DEF Good, RelayRecords, Phases, IsOpen
<1>3. Good(Finish(x)) /\ ~IsOpen(Finish(x)) /\ ~IsOpen(x) /\ ~IsOpen(rel[r]) /\ Alive(rel[r])
  BY <1>1, FinishKeeps DEF IsOpen, Alive
<1>4. \/ rel' = [rel EXCEPT ![r] = x]
      \/ rel' = [rel EXCEPT ![r] = Finish(x)]
      \/ rel' = [rel EXCEPT ![r] = opens]
  BY DEF Handshake
<1>5. UNCHANGED <<tunnel, stats>>
  BY DEF Handshake
<1> HIDE DEF x, opens
<1>6. QED
  BY <1>1, <1>2, <1>3, <1>4, <1>5, OneStays

LEMMA OpensKeeps ==
  ASSUME IInv, NEW r \in Relays, Opens(r)
  PROVE  IInv'
<1> DEFINE x == rel[r]
           y == IF x.paused THEN ApplyFlow(Wired(x)) ELSE Wired(x)
<1>1. Good(x) /\ x.pending
  BY DEF Opens, IInv, RelaysAreGood
<1>2. CASE Alive(x)
  <2>1. Good(y) /\ IsOpen(y) /\ ~IsOpen(x)
    BY <1>1, <1>2, WiredKeeps
  <2>2. rel' = [rel EXCEPT ![r] = y] /\ stats' = CountOpened(stats) /\ tunnel' = tunnel
    BY <1>2 DEF Opens
  <2> HIDE DEF y
  <2>3. RelaysAreGood' /\ tunnel # "down"
    BY <1>2, <2>1, <2>2 DEF IInv, RelaysAreGood, DownIsOver, Good
  <2>4. Cardinality(OpenRelays(rel')) = Cardinality(OpenRelays(rel)) + 1
    BY <2>1, <2>2, OneOpens DEF IInv, RelaysAreGood
  <2>5. /\ stats'.active = stats.active + 1
        /\ stats'.peak = IF stats.active + 1 > stats.peak THEN stats.active + 1 ELSE stats.peak
        /\ DOMAIN stats' = {"active", "peak"}
        /\ stats' = [active |-> stats'.active, peak |-> stats'.peak]
    BY <2>2 DEF CountOpened, IInv
  <2>6. stats'.active <= Cardinality(Relays)
    BY <2>4, <2>5, OpenIsFinite DEF IInv
  <2>7. stats'.peak \in stats'.active..Cardinality(Relays)
    BY <2>5, <2>6, OpenIsFinite DEF IInv
  <2>8. QED
    BY <2>2, <2>3, <2>4, <2>5, <2>7 DEF IInv, DownIsOver
<1>3. CASE ~Alive(x)
  <2> DEFINE z == [x EXCEPT !.pending = FALSE]
  <2>1. Good(z) /\ z.at = x.at
    BY <1>1 DEF Good, RelayRecords
  <2>2. rel' = [rel EXCEPT ![r] = z] /\ UNCHANGED <<tunnel, stats>>
    BY <1>3 DEF Opens
  <2> HIDE DEF z
  <2>3. QED
    BY <2>1, <2>2, OneStays DEF IsOpen, Alive
<1>4. QED
  BY <1>2, <1>3

LEMMA OpenFailsKeeps ==
  ASSUME IInv, NEW r \in Relays, OpenFails(r)
  PROVE  IInv'
<1> DEFINE x == [rel[r] EXCEPT !.pending = FALSE]
<1>1. Good(x) /\ ~IsOpen(rel[r])
  BY DEF OpenFails, IInv, RelaysAreGood, Good, RelayRecords, IsOpen
<1>2. Good(Finish(x)) /\ ~Alive(Finish(x)) /\ ~IsOpen(Finish(x))
  BY <1>1, FinishKeeps DEF Alive, IsOpen
<1>3. rel' = [rel EXCEPT ![r] = Finish(x)] /\ UNCHANGED <<tunnel, stats>>
  BY DEF OpenFails
<1> HIDE DEF x
<1>4. QED
  BY <1>1, <1>2, <1>3, OneStays

LEMMA EndClosesKeeps ==
  ASSUME IInv, NEW r \in Relays, NEW e \in Ends, EndCloses(r, e)
  PROVE  IInv'
<1> DEFINE x == rel[r]
           y == [Finish(x) EXCEPT !.echo = (x.echo \cup x.ends) \ {e}]
<1>1. Good(x)
  BY DEF IInv, RelaysAreGood
<1>2. Good(Finish(x)) /\ ~Alive(Finish(x))
  BY <1>1, FinishKeeps
<1>3. Good(y) /\ ~Alive(y) /\ ~IsOpen(y)
  BY <1>1, <1>2 DEF Good, RelayRecords, Alive, IsOpen
<1>4. /\ rel' = [rel EXCEPT ![r] = y]
      /\ stats' = CountClosed(stats, IF IsOpen(x) THEN 1 ELSE 0)
      /\ tunnel' = tunnel
  BY DEF EndCloses
<1> HIDE DEF y
<1>5. stats.active \in Nat
  BY OpenIsFinite DEF IInv
<1>6. CASE IsOpen(x)
  <2>1. RelaysAreGood'
    BY <1>3, <1>4 DEF IInv, RelaysAreGood, Good
  <2>2. /\ Cardinality(OpenRelays(rel')) = Cardinality(OpenRelays(rel)) - 1
        /\ Cardinality(OpenRelays(rel)) >= 1
    BY <1>3, <1>4, <1>6, OneEnds DEF IInv, RelaysAreGood
  <2>3. stats' = [active |-> stats.active - 1, peak |-> stats.peak]
    BY <1>4, <1>5, <1>6, <2>2 DEF CountClosed, IInv
  <2>4. stats.peak \in (stats.active - 1)..Cardinality(Relays)
    BY <1>5, OpenIsFinite DEF IInv
  <2>5. DownIsOver'
    BY <1>3, <1>4 DEF IInv, RelaysAreGood, DownIsOver
  <2>6. QED
    BY <1>4, <2>1, <2>2, <2>3, <2>4, <2>5 DEF IInv
<1>7. CASE ~IsOpen(x)
  <2>1. stats' = stats
    BY <1>4, <1>5, <1>7 DEF CountClosed, IInv
  <2>2. QED
    BY <1>3, <1>4, <1>7, <2>1, OneStays
<1>8. QED
  BY <1>6, <1>7

LEMMA ForgetKeeps ==
  ASSUME IInv, NEW r \in Relays, Forget(r)
  PROVE  IInv'
<1>1. Good(Free) /\ ~Alive(Free) /\ ~IsOpen(Free) /\ ~IsOpen(rel[r])
  BY FreeIsGood DEF Forget, Alive, IsOpen
<1>2. QED
  BY <1>1, OneStays DEF Forget

LEMMA StreamsKeep ==
  ASSUME IInv, NEW r \in Relays, NEW e \in Ends,
         PeerSends(r, e) \/ Reads(r, e) \/ Drains(r, e)
  PROVE  IInv'
<1> DEFINE x == rel[r]
           y(u, f, c, l) == [x EXCEPT !.unread = u, !.flowing = f, !.choked = c, !.lost = l]
<1>1. /\ Good(x) /\ x \in RelayRecords /\ rel \in [Relays -> RelayRecords]
      /\ UNCHANGED <<tunnel, stats>>
  BY DEF IInv, RelaysAreGood, PeerSends, Reads, Drains
<1>2. ASSUME NEW u \in SUBSET Ends, NEW f \in SUBSET Ends, NEW c \in SUBSET Ends,
             NEW l \in BOOLEAN, rel' = [rel EXCEPT ![r] = y(u, f, c, l)]
      PROVE  IInv'
  <2>1. Good(y(u, f, c, l)) /\ y(u, f, c, l).at = x.at
    BY <1>1 DEF Good, RelayRecords
  <2> HIDE DEF y
  <2>2. QED
    BY <1>1, <1>2, <2>1, OneStays DEF IsOpen, Alive
<1>3. /\ x.unread \in SUBSET Ends /\ x.flowing \in SUBSET Ends /\ x.choked \in SUBSET Ends
      /\ x.lost \in BOOLEAN
  BY <1>1 DEF RelayRecords
<1>4. CASE PeerSends(r, e)
  <2>1. rel' = [rel EXCEPT ![r] = y(x.unread \cup {e}, x.flowing, x.choked, x.lost)]
    BY <1>1, <1>4 DEF PeerSends, RelayRecords
  <2>2. x.unread \cup {e} \in SUBSET Ends
    BY <1>3
  <2> HIDE DEF y
  <2>3. QED
    BY <1>2, <1>3, <2>1, <2>2
<1>5. CASE Reads(r, e)
  <2>1. \/ rel' = [rel EXCEPT ![r] = y(x.unread \ {e}, x.flowing, x.choked, TRUE)]
        \/ rel' = [rel EXCEPT ![r] = y(x.unread \ {e}, x.flowing, x.choked, x.lost)]
        \/ rel' = [rel EXCEPT ![r] = y(x.unread \ {e}, x.flowing \ {e}, x.choked \cup {e}, x.lost)]
    BY <1>1, <1>5 DEF Reads, RelayRecords
  <2>2. /\ x.unread \ {e} \in SUBSET Ends /\ x.flowing \ {e} \in SUBSET Ends
        /\ x.choked \cup {e} \in SUBSET Ends
    BY <1>3
  <2> HIDE DEF y
  <2>3. QED
    BY <1>2, <1>3, <2>1, <2>2
<1>6. CASE Drains(r, e)
  <2>1. rel' = [rel EXCEPT ![r] = y(x.unread, x.flowing \cup {e}, x.choked \ {e}, x.lost)]
    BY <1>1, <1>6 DEF Drains, RelayRecords
  <2>2. x.flowing \cup {e} \in SUBSET Ends /\ x.choked \ {e} \in SUBSET Ends
    BY <1>3
  <2> HIDE DEF y
  <2>3. QED
    BY <1>2, <1>3, <2>1, <2>2
<1>7. QED
  BY <1>4, <1>5, <1>6

-----------------------------------------------------------------------------
LEMMA InitIsSound == Init => IInv
<1> SUFFICES ASSUME Init PROVE IInv
  OBVIOUS
<1>1. RelaysAreGood /\ \A r \in Relays : ~IsOpen(rel[r])
  BY FreeIsGood DEF Init, RelaysAreGood, Good, Alive, IsOpen
<1>2. Cardinality(OpenRelays(rel)) = 0
  BY <1>1, NoneOpen
<1>3. 0 \in 0..Cardinality(Relays)
  BY OpenIsFinite
<1>4. QED
  BY <1>1, <1>2, <1>3 DEF Init, FreshStats, IInv, DownIsOver

(* The invariant of the relays, for whatever order of their events.        *)
THEOREM Inductive == Spec => []IInv
<1>1. IInv /\ [Next]_vars => IInv'
  <2> SUFFICES ASSUME IInv, [Next]_vars PROVE IInv'
    OBVIOUS
  <2>1. CASE UNCHANGED vars
    BY <2>1 DEF vars, IInv, RelaysAreGood, DownIsOver, OpenRelays
  <2>2. CASE Pause \/ Resume \/ FailAll \/ Rearm
    BY <2>2, PauseResumeKeep, FailAllKeeps, RearmKeeps
  <2>3. ASSUME NEW r \in Relays, 
               \/ Start(r) \/ Handshake(r) \/ Opens(r) \/ OpenFails(r) \/ Forget(r)
        PROVE  IInv'
    BY <2>3, StartKeeps, HandshakeKeeps, OpensKeeps, OpenFailsKeeps, ForgetKeeps
  <2>4. ASSUME NEW r \in Relays, NEW e \in Ends,
               EndCloses(r, e) \/ PeerSends(r, e) \/ Reads(r, e) \/ Drains(r, e)
        PROVE  IInv'
    BY <2>4, EndClosesKeeps, StreamsKeep
  <2>5. QED
    BY <2>1, <2>2, <2>3, <2>4 DEF Next
<1>2. QED
  BY <1>1, InitIsSound, PTL DEF Spec

(* A relay that is over told its owner once and left no end open, in every *)
(* race of its two ends, the far end's answer and the tunnel.              *)
THEOREM RelaysCloseOnce == Spec => []ClosesOnce
<1>1. IInv => ClosesOnce
  BY DEF IInv, RelaysAreGood, Good, ClosesOnce
<1>2. QED
  BY <1>1, Inductive, PTL

(* The live connections shown are the relays that are open.                *)
THEOREM CountsBalance == Spec => []CountBalances
<1>1. IInv => CountBalances
  BY DEF IInv, CountBalances, NumOpen, OpenRelays
<1>2. QED
  BY <1>1, Inductive, PTL

(* Types; its content is the bound of the high-water mark.                 *)
THEOREM TypeCorrect == Spec => []TypeOK
<1>1. IInv => TypeOK
  <2> SUFFICES ASSUME IInv PROVE TypeOK
    OBVIOUS
  <2>1. stats.active \in Nat /\ Cardinality(Relays) \in Nat
    BY OpenIsFinite DEF IInv
  <2>2. stats.active \in 0..Cardinality(Relays) /\ stats.peak \in 0..Cardinality(Relays)
        /\ stats.active <= stats.peak
    BY <2>1 DEF IInv
  <2>3. QED
    BY <2>2 DEF TypeOK, IInv, RelaysAreGood
<1>2. QED
  BY <1>1, Inductive, PTL

(* A pause keeps: nothing but the "drain" of a pipe lets an end of a       *)
(* paused relay go, and a relay that opens paused opens held.              *)
THEOREM PausesHold == Spec => PauseHolds
<1> DEFINE Holds(r, e) ==
      (/\ IsOpen(rel'[r]) /\ rel'[r].paused
       /\ ~(IsOpen(rel[r]) /\ rel[r].paused /\ e \in rel[r].flowing \cup rel[r].choked))
        => e \notin rel'[r].flowing
<1>1. IInv /\ [Next]_vars => [\A r \in Relays, e \in Ends : Holds(r, e)]_vars
  <2> SUFFICES ASSUME IInv, Next, NEW r \in Relays, NEW e \in Ends,
                      IsOpen(rel'[r]), rel'[r].paused,
                      ~(IsOpen(rel[r]) /\ rel[r].paused
                        /\ e \in rel[r].flowing \cup rel[r].choked)
               PROVE  e \notin rel'[r].flowing
    OBVIOUS
  <2>0. rel \in [Relays -> RelayRecords] /\ Good(rel[r])
    BY DEF IInv, RelaysAreGood
  <2>1. CASE Pause \/ Resume
    <3>1. \E b \in BOOLEAN : rel'[r] = SetPaused(rel[r], b)
      BY <2>1 DEF Pause, Resume
    <3>2. QED
      BY <2>0, <3>1, SetPausedHolds
  <2>2. CASE FailAll
    <3>1. ~Alive(rel'[r])
      BY <2>0, <2>2, FinishKeeps DEF FailAll
    <3>2. QED
      BY <3>1 DEF IsOpen, Alive
  <2>3. CASE Rearm
    BY <2>3 DEF Rearm
  <2>4. ASSUME NEW q \in Relays, q # r,
               \/ Start(q) \/ Handshake(q) \/ Opens(q) \/ OpenFails(q) \/ Forget(q)
               \/ \E d \in Ends : EndCloses(q, d) \/ PeerSends(q, d) \/ Reads(q, d) \/ Drains(q, d)
        PROVE  e \notin rel'[r].flowing
    <3>1. rel'[r] = rel[r]
      BY <2>0, <2>4 DEF Start, Handshake, Opens, OpenFails, Forget, EndCloses, PeerSends,
                        Reads, Drains
    <3>2. QED
      BY <3>1
  <2>5. CASE Start(r) \/ Handshake(r) \/ Forget(r)
    <3>1. ~IsOpen(rel'[r])
      <4>1. CASE Start(r)
        <5>1. \E kind \in Kinds : rel'[r] \in {NewRelay(kind), SetPaused(NewRelay(kind), TRUE)}
          BY <2>0, <4>1 DEF Start
        <5>2. QED
          BY <5>1, NewIsGood, SetPausedKeeps, KindsAssumption DEF IsOpen
      <4>2. CASE Handshake(r)
        <5> DEFINE x == [rel[r] EXCEPT !.unread = {}]
        <5>1. Good(x) /\ x.at = "handshake"
          BY <2>0, <4>2 DEF Handshake, Good, RelayRecords
        <5>2. \/ rel'[r] = x
              \/ rel'[r] = Finish(x)
              \/ rel'[r] = [x EXCEPT !.at = "opening", !.pending = TRUE, !.flowing = {}]
          BY <2>0, <4>2 DEF Handshake
        <5>3. ~IsOpen(Finish(x)) /\ ~IsOpen(x)
          BY <5>1, FinishKeeps DEF IsOpen, Alive
        <5>4. QED
          BY <5>1, <5>2, <5>3 DEF IsOpen, Good, RelayRecords
      <4>3. CASE Forget(r)
        BY <2>0, <4>3, FreeIsGood DEF Forget, IsOpen, Alive
      <4>4. QED
        BY <2>5, <4>1, <4>2, <4>3
    <3>2. QED
      BY <3>1
  <2>6. CASE Opens(r)
    <3> DEFINE x == rel[r]
    <3>1. CASE Alive(x)
      <4>1. rel'[r] = IF x.paused THEN ApplyFlow(Wired(x)) ELSE Wired(x)
        BY <2>0, <2>6, <3>1 DEF Opens
      <4>2. Good(Wired(x)) /\ Alive(Wired(x)) /\ Wired(x).paused = x.paused
        BY <2>0, <2>6, <3>1, WiredKeeps DEF Opens, Wired, IsOpen, Alive, RelayRecords
      <4>3. QED
        BY <4>1, <4>2, ApplyFlowHolds
    <3>2. CASE ~Alive(x)
      BY <2>0, <2>6, <3>2 DEF Opens, IsOpen, Alive, RelayRecords
    <3>3. QED
      BY <3>1, <3>2
  <2>7. CASE OpenFails(r) \/ \E d \in Ends : EndCloses(r, d)
    <3>1. ~IsOpen(rel'[r])
      <4>1. CASE OpenFails(r)
        <5> DEFINE x == [rel[r] EXCEPT !.pending = FALSE]
        <5>1. Good(x) /\ rel'[r] = Finish(x)
          BY <2>0, <4>1 DEF OpenFails, Good, RelayRecords
        <5>2. QED
          BY <5>1, FinishKeeps DEF IsOpen, Alive
      <4>2. ASSUME NEW d \in Ends, EndCloses(r, d)
            PROVE  ~IsOpen(rel'[r])
        <5>1. Finish(rel[r]) \in RelayRecords /\ ~Alive(Finish(rel[r]))
          BY <2>0, FinishKeeps DEF Good
        <5>2. \E s \in SUBSET Ends : rel'[r] = [Finish(rel[r]) EXCEPT !.echo = s]
          BY <2>0, <4>2 DEF EndCloses, RelayRecords
        <5>3. QED
          BY <5>1, <5>2 DEF IsOpen, Alive, RelayRecords
      <4>3. QED
        BY <2>7, <4>1, <4>2
    <3>2. QED
      BY <3>1
  <2>8. CASE \E d \in Ends : PeerSends(r, d) \/ Reads(r, d) \/ Drains(r, d)
    <3> DEFINE Held == /\ IsOpen(rel[r]) /\ rel[r].paused = rel'[r].paused
                       /\ rel'[r].flowing \subseteq rel[r].flowing \cup rel[r].choked
    <3>1. ASSUME NEW d \in Ends, PeerSends(r, d) PROVE Held
      BY <2>0, <3>1 DEF PeerSends, IsOpen, RelayRecords
    <3>2. ASSUME NEW d \in Ends, Reads(r, d) PROVE Held
      <4> DEFINE x == [rel[r] EXCEPT !.unread = @ \ {d}]
      <4>1. /\ x \in RelayRecords /\ x.at = rel[r].at /\ x.paused = rel[r].paused
            /\ x.flowing = rel[r].flowing
        BY <2>0 DEF RelayRecords
      <4>2. \/ ~IsOpen(x) /\ rel'[r] = [x EXCEPT !.lost = TRUE]
            \/ IsOpen(x) /\ rel'[r] = x
            \/ IsOpen(x) /\ rel'[r] = [x EXCEPT !.flowing = @ \ {d}, !.choked = @ \cup {d}]
        BY <2>0, <3>2 DEF Reads
      <4> HIDE DEF x
      <4>3. IsOpen(x) /\ IsOpen(rel[r])
        BY <4>1, <4>2 DEF IsOpen, RelayRecords
      <4>4. QED
        BY <4>1, <4>2, <4>3 DEF RelayRecords
    <3>3. ASSUME NEW d \in Ends, Drains(r, d) PROVE Held
      BY <2>0, <3>3 DEF Drains, IsOpen, RelayRecords
    <3>4. QED
      BY <2>8, <3>1, <3>2, <3>3
  <2>9. QED
    BY <2>1, <2>2, <2>3, <2>4, <2>5, <2>6, <2>7, <2>8 DEF Next
<1>2. QED
  BY <1>1, Inductive, PTL DEF Spec, PauseHolds

-----------------------------------------------------------------------------
(* The application.                                                        *)

Messages == [to : {"prompt", "all", "unlock", "panel", "load", "settings"},
             mode : Modes, locked : BOOLEAN, ok : BOOLEAN]

(* What startup arming waits for.                                          *)
LaunchInv ==
  /\ proc \in {"off", "up", "gone"} /\ launches \in {0, 1}
  /\ boot \in Settings /\ onDisk \in Settings /\ sched \in BOOLEAN /\ hasKey \in BOOLEAN
  /\ postponed \in [arm : BOOLEAN, sched : BOOLEAN]
  /\ sweeps \subseteq [kind : {"launch", "all"}, left : SUBSET Tunnels, obey : BOOLEAN]
  /\ proc = "off" => launches = 0 /\ sweeps = {} /\ ~postponed.arm /\ ~postponed.sched
  /\ postponed.arm => launches = 0
  /\ proc = "up" /\ boot.armOnLaunch => (launches = 0 <=> postponed.arm)
  /\ postponed.arm \/ postponed.sched => Locked
  /\ proc = "up" /\ onDisk.sched => sched \/ postponed.sched
  /\ \A s \in sweeps : s.kind = "launch" /\ s.obey => s.left \cap Governed = {}

PageType ==
  /\ mode \in Modes /\ win \in {"none", "shown", "hidden"} /\ page \in {"none", "loading", "live"}
  /\ pipe \in Seq(Messages) /\ popups \in Seq(Popups) /\ open \in BOOLEAN /\ later \in BOOLEAN
  /\ panel \in [mode : Modes, locked : BOOLEAN, switch : Modes \cup {"none"}, read : BOOLEAN]
  /\ proc = "up" => win # "none" /\ page # "none"
  /\ proc # "up" => page = "none"
  /\ page # "live" => pipe = <<>> /\ popups = <<>> /\ ~open /\ ~later /\ panel = NoPanel

(* What is on its way to the page.                                         *)
Sent(q, k) == \E i \in DOMAIN q : q[i].to = k
Informs(m) == m.to \in {"all", "load"}
NoneTold(q) == \A i \in DOMAIN q : ~Informs(q[i])

(* A word that says the store is unlocked is sent when it is, and it is    *)
(* not locked again.                                                       *)
TrueWord(m, locked) ==
  /\ ~m.locked => ~locked
  /\ m.to = "all" => ~m.locked
  /\ m.to = "unlock" /\ m.ok => ~m.locked

(* The first word a page waits for is about its lock.                      *)
PromptFirst(q, locked) == \A i \in DOMAIN q : q[i].to = "prompt" => i = 1 /\ (q[i].locked <=> locked)

(* The last word to the panel is about the store as it is.                 *)
LastTold(q, md, locked) ==
  \A i \in DOMAIN q :
    Informs(q[i]) /\ (\A j \in DOMAIN q : i < j => ~Informs(q[j])) => q[i].mode = md /\ (q[i].locked <=> locked)

(* Until the first word has come nothing is on screen that could unlock.   *)
WordsAreTrue ==
  /\ \A i \in DOMAIN pipe : TrueWord(pipe[i], Locked)
  /\ PromptFirst(pipe, Locked)
  /\ Sent(pipe, "prompt") => popups = <<>> /\ ~open

PanelFollows ==
  /\ LastTold(pipe, mode, Locked)
  /\ panel.read /\ NoneTold(pipe) => panel.mode = mode /\ (panel.locked <=> Locked)

(* A prompt on screen is in the queue of the popups, and once the store is *)
(* unlocked the news is on its way.                                        *)
PromptGoes ==
  /\ open => \E i \in DOMAIN popups : popups[i] = "unlock"
  /\ open /\ ~Locked => Sent(pipe, "all")
  /\ page = "live" /\ Locked /\ ~Sent(pipe, "prompt") => open \/ later

PageInv == PageType /\ WordsAreTrue /\ PanelFollows /\ PromptGoes

ShellInv == LaunchInv /\ PageInv

LEMMA SweepIs ==
  ASSUME NEW k \in {"launch", "all"}, NEW ids, ids \subseteq Tunnels, onDisk' \in Settings
  PROVE  /\ Sweep(k, ids) \subseteq [kind : {"launch", "all"}, left : SUBSET Tunnels, obey : BOOLEAN]
         /\ \A s \in Sweep(k, ids) : s.kind = k /\ s.left = ids /\ s.obey = onDisk'.sched
BY DEF Sweep, Settings

(* Startup arming leaves the scheduled tunnels alone when it goes by the   *)
(* settings on disk and the scheduler is on if these have it on.           *)
LEMMA LaunchSweepIs ==
  ASSUME NEW on \in BOOLEAN, onDisk' \in Settings, onDisk'.sched => on
  PROVE  /\ LaunchArm(on) \subseteq [kind : {"launch", "all"}, left : SUBSET Tunnels, obey : BOOLEAN]
         /\ \A s \in LaunchArm(on) : s.kind = "launch" /\ s.obey => s.left \cap Governed = {}
<1>1. Tunnels \ GovernedIds(on) \subseteq Tunnels
  OBVIOUS
<1>2. \A s \in LaunchArm(on) : s.left = Tunnels \ GovernedIds(on) /\ s.obey = onDisk'.sched
  BY <1>1, SweepIs DEF LaunchArm
<1>3. on => (Tunnels \ GovernedIds(on)) \cap Governed = {}
  BY DEF GovernedIds
<1>4. \A s \in LaunchArm(on) : s.kind = "launch" /\ s.obey => s.left \cap Governed = {}
  BY <1>2, <1>3
<1>5. QED
  BY <1>1, <1>4, SweepIs DEF LaunchArm

LEMMA AllSweepIs ==
  ASSUME onDisk' \in Settings
  PROVE  /\ Sweep("all", Tunnels \ GovernedIds(sched)) \subseteq
              [kind : {"launch", "all"}, left : SUBSET Tunnels, obey : BOOLEAN]
         /\ \A s \in Sweep("all", Tunnels \ GovernedIds(sched)) : s.kind = "all"
BY SweepIs

LEMMA BootLaunches ==
  ASSUME LaunchInv, NEW s \in Settings, NEW m \in Modes, Boot(s, m)
  PROVE  LaunchInv'
<1> DEFINE locked == ~hasKey'
           on == s.sched /\ ~locked
           now == s.armOnLaunch /\ ~locked
<1>1. /\ proc = "off" /\ proc' = "up" /\ boot' = s /\ onDisk' = s
      /\ hasKey' = (m # "master-password")
      /\ postponed' = [arm |-> s.armOnLaunch /\ locked, sched |-> s.sched /\ locked]
      /\ sched' = on
      /\ sweeps' = (IF now THEN LaunchArm(on) ELSE {})
      /\ launches' = (IF now THEN 1 ELSE 0)
  BY DEF Boot
<1>2. /\ s.sched \in BOOLEAN /\ s.armOnLaunch \in BOOLEAN
  BY DEF Settings
<1>3. hasKey' \in BOOLEAN /\ on \in BOOLEAN /\ now \in BOOLEAN
  BY <1>1, <1>2
<1>4. now => LaunchArm(on) \subseteq [kind : {"launch", "all"}, left : SUBSET Tunnels, obey : BOOLEAN]
               /\ \A x \in LaunchArm(on) : x.kind = "launch" /\ x.obey => x.left \cap Governed = {}
  <2>1. now => (onDisk'.sched => on)
    BY <1>1
  <2> HIDE DEF on, now
  <2>2. QED
    BY <1>1, <1>3, <2>1, LaunchSweepIs
<1>5. /\ sweeps' \subseteq [kind : {"launch", "all"}, left : SUBSET Tunnels, obey : BOOLEAN]
      /\ \A x \in sweeps' : x.kind = "launch" /\ x.obey => x.left \cap Governed = {}
  <2> HIDE DEF on, now
  <2>1. QED
    BY <1>1, <1>4
<1>6. /\ postponed' \in [arm : BOOLEAN, sched : BOOLEAN]
      /\ (postponed'.arm <=> s.armOnLaunch /\ locked) /\ (postponed'.sched <=> s.sched /\ locked)
  BY <1>1, <1>2, <1>3
<1>7. launches' \in {0, 1} /\ (launches' = 0 <=> ~now)
  BY <1>1, <1>3
<1>8. QED
  BY <1>1, <1>2, <1>3, <1>5, <1>6, <1>7 DEF LaunchInv, Locked

LEMMA ResumeLaunches ==
  ASSUME LaunchInv, proc = "up", ResumeDeferredArm, hasKey' = TRUE, UNCHANGED <<proc, boot, onDisk>>
  PROVE  LaunchInv'
<1>1. /\ sched' = (sched \/ postponed.sched)
      /\ postponed' = [arm |-> FALSE, sched |-> FALSE]
      /\ launches' = launches + (IF postponed.arm THEN 1 ELSE 0)
      /\ sweeps' = sweeps \cup Sweep("all", Tunnels \ GovernedIds(sched))
                     \cup (IF postponed.arm THEN LaunchArm(sched') ELSE {})
  BY DEF ResumeDeferredArm
<1>2. sched' \in BOOLEAN /\ (onDisk'.sched => sched') /\ onDisk' \in Settings
  BY <1>1 DEF LaunchInv
<1>3. LaunchArm(sched') \subseteq [kind : {"launch", "all"}, left : SUBSET Tunnels, obey : BOOLEAN]
        /\ \A x \in LaunchArm(sched') : x.kind = "launch" /\ x.obey => x.left \cap Governed = {}
  <2>1. ASSUME NEW on \in BOOLEAN, on = sched'
        PROVE  LaunchArm(on) \subseteq [kind : {"launch", "all"}, left : SUBSET Tunnels, obey : BOOLEAN]
                /\ \A x \in LaunchArm(on) : x.kind = "launch" /\ x.obey => x.left \cap Governed = {}
    BY <1>2, <2>1, LaunchSweepIs
  <2>2. QED
    BY <1>2, <2>1
<1>4. /\ sweeps' \subseteq [kind : {"launch", "all"}, left : SUBSET Tunnels, obey : BOOLEAN]
      /\ \A x \in sweeps' : x.kind = "launch" /\ x.obey => x.left \cap Governed = {}
  BY <1>1, <1>2, <1>3, AllSweepIs DEF LaunchInv
<1>5. launches' \in {0, 1} /\ (launches' = 0 <=> launches = 0 /\ ~postponed.arm)
  BY <1>1 DEF LaunchInv
<1>6. postponed' \in [arm : BOOLEAN, sched : BOOLEAN] /\ ~postponed'.arm /\ ~postponed'.sched
  BY <1>1
<1>7. QED
  BY <1>2, <1>4, <1>5, <1>6 DEF LaunchInv, Locked

LEMMA SetModeLaunches ==
  ASSUME LaunchInv, proc = "up", NEW m, NEW can, SetMode(m, can), UNCHANGED proc
  PROVE  LaunchInv'
<1>1. CASE Locked \/ ~can
  BY <1>1 DEF SetMode, mainVars, LaunchInv, Locked
<1>2. CASE ~(Locked \/ ~can)
  <2>1. /\ hasKey' = TRUE /\ onDisk' = onDisk /\ UNCHANGED <<boot, postponed, sched, launches>>
        /\ sweeps' = sweeps \cup (IF m = mode THEN {} ELSE Sweep("all", Tunnels \ GovernedIds(sched)))
    BY <1>2 DEF SetMode
  <2>2. /\ sweeps' \subseteq [kind : {"launch", "all"}, left : SUBSET Tunnels, obey : BOOLEAN]
        /\ \A x \in sweeps' : x.kind = "launch" /\ x.obey => x.left \cap Governed = {}
    BY <2>1, AllSweepIs DEF LaunchInv
  <2>3. QED
    BY <1>2, <2>1, <2>2 DEF LaunchInv, Locked
<1>3. QED
  BY <1>1, <1>2

LEMMA SweepStepLaunches ==
  ASSUME LaunchInv, NEW s, NEW t, SweepStep(s, t)
  PROVE  LaunchInv'
<1> DEFINE r == [s EXCEPT !.left = @ \ {t}]
<1>1. /\ s \in sweeps /\ sweeps' \subseteq sweeps \cup {r}
      /\ UNCHANGED <<boot, onDisk, mode, hasKey, postponed, sched, launches, proc>> /\ proc = "up"
  BY DEF SweepStep, quitVars
<1>2. /\ r \in [kind : {"launch", "all"}, left : SUBSET Tunnels, obey : BOOLEAN]
      /\ r.kind = s.kind /\ r.obey = s.obey /\ r.left \subseteq s.left
  BY <1>1 DEF LaunchInv
<1>3. /\ sweeps' \subseteq [kind : {"launch", "all"}, left : SUBSET Tunnels, obey : BOOLEAN]
      /\ \A x \in sweeps' : x.kind = "launch" /\ x.obey => x.left \cap Governed = {}
  BY <1>1, <1>2 DEF LaunchInv
<1>4. QED
  BY <1>1, <1>3 DEF LaunchInv, Locked

LEMMA ByHandLaunches ==
  ASSUME LaunchInv, NEW ids \in {Tunnels, Governed}, NEW arm, ByHand(ids, arm)
  PROVE  LaunchInv'
<1> DEFINE r == [kind |-> "all", left |-> ids, obey |-> FALSE]
<1>1. /\ sweeps' \subseteq sweeps \cup {r} /\ proc = "up"
      /\ UNCHANGED <<boot, onDisk, mode, hasKey, postponed, sched, launches, proc>>
  BY DEF ByHand, quitVars
<1>2. r \in [kind : {"launch", "all"}, left : SUBSET Tunnels, obey : BOOLEAN] /\ r.kind = "all"
  BY ShellAssumption
<1>3. /\ sweeps' \subseteq [kind : {"launch", "all"}, left : SUBSET Tunnels, obey : BOOLEAN]
      /\ \A x \in sweeps' : x.kind = "launch" /\ x.obey => x.left \cap Governed = {}
  BY <1>1, <1>2 DEF LaunchInv
<1>4. QED
  BY <1>1, <1>3 DEF LaunchInv, Locked

LEMMA SettingLaunches ==
  ASSUME LaunchInv, NEW s \in Settings, EmitChange(s)
  PROVE  LaunchInv'
<1>1. /\ onDisk' = s /\ sched' = s.sched /\ UNCHANGED proc
      /\ UNCHANGED <<boot, mode, hasKey, postponed, armed, sweeps, launches>>
  BY DEF EmitChange, Still, quitVars
<1>2. sched' \in BOOLEAN /\ (onDisk'.sched => sched')
  BY <1>1 DEF Settings
<1>3. QED
  BY <1>1, <1>2 DEF LaunchInv, Locked

LEMMA ExitLaunches ==
  ASSUME LaunchInv, Exit
  PROVE  LaunchInv'
<1>1. /\ proc' = "gone" /\ sweeps' = {}
      /\ UNCHANGED <<boot, onDisk, mode, hasKey, postponed, sched, launches>>
  BY DEF Exit
<1>2. QED
  BY <1>1 DEF LaunchInv, Locked

LEMMA StillLaunches ==
  ASSUME LaunchInv, UNCHANGED <<boot, onDisk, hasKey, postponed, sched, sweeps, launches, proc>>
  PROVE  LaunchInv'
BY DEF LaunchInv, Locked

(* Queues: r is q with m behind, or q without its first message.           *)

Behind(q, r, m) ==
  /\ DOMAIN q \subseteq Nat \ {0} /\ DOMAIN r = DOMAIN q \cup {Len(q) + 1}
  /\ \A i \in DOMAIN q : i < Len(q) + 1 /\ r[i] = q[i]
  /\ r[Len(q) + 1] = m /\ Len(q) \in Nat

Taken(q, r, m) ==
  /\ DOMAIN q \subseteq Nat \ {0} /\ DOMAIN r \subseteq Nat \ {0} /\ 1 \in DOMAIN q /\ q[1] = m
  /\ \A i \in DOMAIN r : i + 1 \in DOMAIN q /\ r[i] = q[i + 1]
  /\ \A i \in DOMAIN q : i # 1 => i - 1 \in DOMAIN r /\ q[i] = r[i - 1]

LEMMA AppendIsBehind ==
  ASSUME NEW S, NEW q \in Seq(S), NEW m \in S
  PROVE  Append(q, m) \in Seq(S) /\ Behind(q, Append(q, m), m)
<1> DEFINE r == Append(q, m)
<1>1. r \in Seq(S) /\ Len(r) = Len(q) + 1 /\ Len(q) \in Nat
  OBVIOUS
<1>2. \A i \in 1 .. Len(q) : r[i] = q[i]
  OBVIOUS
<1>3. r[Len(q) + 1] = m
  OBVIOUS
<1>4. DOMAIN q = 1 .. Len(q) /\ DOMAIN r = 1 .. Len(r)
  BY <1>1
<1> HIDE DEF r
<1>5. Behind(q, r, m)
  BY <1>1, <1>2, <1>3, <1>4 DEF Behind
<1>6. QED
  BY <1>1, <1>5 DEF r

LEMMA TailIsTaken ==
  ASSUME NEW S, NEW q \in Seq(S), q # <<>>
  PROVE  Tail(q) \in Seq(S) /\ Head(q) \in S /\ Taken(q, Tail(q), Head(q))
<1> DEFINE r == Tail(q)
           n == Len(q)
<1>1. r \in Seq(S) /\ Len(r) = n - 1 /\ n \in Nat \ {0} /\ Head(q) \in S
  OBVIOUS
<1>2. (\A i \in 1 .. Len(r) : r[i] = q[i + 1]) /\ q[1] = Head(q)
  OBVIOUS
<1>3. DOMAIN q = 1 .. n /\ DOMAIN r = 1 .. Len(r)
  BY <1>1
<1> HIDE DEF r, n
<1>4. \A i \in DOMAIN r : i + 1 \in DOMAIN q /\ r[i] = q[i + 1]
  BY <1>1, <1>2, <1>3
<1>5. \A i \in DOMAIN q : i # 1 => i - 1 \in DOMAIN r /\ q[i] = r[i - 1]
  <2> SUFFICES ASSUME NEW i \in DOMAIN q, i # 1 PROVE i - 1 \in DOMAIN r /\ q[i] = r[i - 1]
    OBVIOUS
  <2>1. i - 1 \in 1 .. Len(r) /\ (i - 1) + 1 = i
    BY <1>1, <1>3
  <2>2. QED
    BY <1>2, <1>3, <2>1
<1>6. Taken(q, r, Head(q))
  BY <1>1, <1>2, <1>3, <1>4, <1>5 DEF Taken
<1>7. QED
  BY <1>1, <1>6 DEF r

LEMMA BehindSends ==
  ASSUME NEW q, NEW r, NEW m, Behind(q, r, m)
  PROVE  /\ \A k : Sent(r, k) <=> Sent(q, k) \/ m.to = k
         /\ NoneTold(r) <=> NoneTold(q) /\ ~Informs(m)
BY DEF Behind, Sent, NoneTold

LEMMA BehindWords ==
  ASSUME NEW q, NEW r, NEW m, Behind(q, r, m), NEW locked, m.to # "prompt", TrueWord(m, locked),
         \A i \in DOMAIN q : TrueWord(q[i], locked), PromptFirst(q, locked)
  PROVE  (\A i \in DOMAIN r : TrueWord(r[i], locked)) /\ PromptFirst(r, locked)
BY DEF Behind, PromptFirst

LEMMA BehindTold ==
  ASSUME NEW q, NEW r, NEW m, Behind(q, r, m), NEW md, NEW locked,
         Informs(m) => m.mode = md /\ (m.locked <=> locked),
         Informs(m) \/ LastTold(q, md, locked)
  PROVE  LastTold(r, md, locked)
<1>1. SUFFICES ASSUME NEW i \in DOMAIN r, Informs(r[i]), \A j \in DOMAIN r : i < j => ~Informs(r[j])
               PROVE  r[i].mode = md /\ (r[i].locked <=> locked)
  BY DEF LastTold
<1>2. CASE i = Len(q) + 1
  BY <1>1, <1>2 DEF Behind
<1>3. CASE i \in DOMAIN q
  <2>1. ~Informs(m)
    BY <1>1, <1>3 DEF Behind
  <2>2. Informs(q[i]) /\ \A j \in DOMAIN q : i < j => ~Informs(q[j])
    BY <1>1, <1>3 DEF Behind
  <2>3. q[i].mode = md /\ (q[i].locked <=> locked)
    BY <1>3, <2>1, <2>2 DEF LastTold
  <2>4. QED
    BY <1>3, <2>3 DEF Behind
<1>4. QED
  BY <1>2, <1>3 DEF Behind

LEMMA TakenSends ==
  ASSUME NEW q, NEW r, NEW m, Taken(q, r, m)
  PROVE  /\ \A k : Sent(q, k) <=> Sent(r, k) \/ m.to = k
         /\ NoneTold(q) <=> NoneTold(r) /\ ~Informs(m)
<1>1. ASSUME NEW k PROVE Sent(q, k) <=> Sent(r, k) \/ m.to = k
  <2>1. ASSUME Sent(q, k) PROVE Sent(r, k) \/ m.to = k
    BY <2>1 DEF Taken, Sent
  <2>2. ASSUME Sent(r, k) PROVE Sent(q, k)
    BY <2>2 DEF Taken, Sent
  <2>3. ASSUME m.to = k PROVE Sent(q, k)
    BY <2>3 DEF Taken, Sent
  <2>4. QED
    BY <2>1, <2>2, <2>3
<1>2. NoneTold(q) => NoneTold(r) /\ ~Informs(m)
  BY DEF Taken, NoneTold
<1>3. ASSUME NoneTold(r), ~Informs(m), NEW i \in DOMAIN q PROVE ~Informs(q[i])
  BY <1>3 DEF Taken, NoneTold
<1>4. QED
  BY <1>1, <1>2, <1>3 DEF NoneTold

LEMMA TakenWords ==
  ASSUME NEW q, NEW r, NEW m, Taken(q, r, m), NEW locked,
         \A i \in DOMAIN q : TrueWord(q[i], locked), PromptFirst(q, locked)
  PROVE  /\ TrueWord(m, locked) /\ (m.to = "prompt" => (m.locked <=> locked))
         /\ \A i \in DOMAIN r : TrueWord(r[i], locked)
         /\ PromptFirst(r, locked) /\ ~Sent(r, "prompt")
<1>1. TrueWord(m, locked) /\ (m.to = "prompt" => (m.locked <=> locked))
  BY DEF Taken, PromptFirst
<1>2. \A i \in DOMAIN r : TrueWord(r[i], locked)
  BY DEF Taken
<1>3. \A i \in DOMAIN r : r[i].to # "prompt"
  <2> SUFFICES ASSUME NEW i \in DOMAIN r, r[i].to = "prompt" PROVE FALSE
    OBVIOUS
  <2>1. i + 1 \in DOMAIN q /\ q[i + 1].to = "prompt" /\ i \in Nat \ {0}
    BY DEF Taken
  <2>2. i + 1 = 1
    BY <2>1 DEF PromptFirst
  <2>3. QED
    BY <2>1, <2>2
<1>4. QED
  BY <1>1, <1>2, <1>3 DEF PromptFirst, Sent

LEMMA TakenTold ==
  ASSUME NEW q, NEW r, NEW m, Taken(q, r, m), NEW md, NEW locked, LastTold(q, md, locked)
  PROVE  /\ LastTold(r, md, locked)
         /\ Informs(m) /\ NoneTold(r) => m.mode = md /\ (m.locked <=> locked)
<1>1. ASSUME NEW i \in DOMAIN r, Informs(r[i]), \A j \in DOMAIN r : i < j => ~Informs(r[j])
      PROVE  r[i].mode = md /\ (r[i].locked <=> locked)
  <2>1. i + 1 \in DOMAIN q /\ r[i] = q[i + 1] /\ i \in Nat \ {0}
    BY DEF Taken
  <2>2. ASSUME NEW j \in DOMAIN q, i + 1 < j PROVE ~Informs(q[j])
    <3>1. j \in Nat /\ j # 1 /\ j - 1 \in DOMAIN r /\ q[j] = r[j - 1] /\ i < j - 1
      BY <2>1, <2>2 DEF Taken
    <3>2. QED
      BY <1>1, <3>1
  <2>3. q[i + 1].mode = md /\ (q[i + 1].locked <=> locked)
    BY <1>1, <2>1, <2>2 DEF LastTold
  <2>4. QED
    BY <2>1, <2>3
<1>2. ASSUME Informs(m), NoneTold(r) PROVE m.mode = md /\ (m.locked <=> locked)
  <2>1. 1 \in DOMAIN q /\ q[1] = m
    BY DEF Taken
  <2>2. ASSUME NEW j \in DOMAIN q, 1 < j PROVE ~Informs(q[j])
    BY <1>2, <2>2 DEF Taken, NoneTold
  <2>3. QED
    BY <1>2, <2>1, <2>2 DEF LastTold
<1>3. QED
  BY <1>1, <1>2 DEF LastTold

(* A word is sent to a page on which nothing else changes.                 *)
LEMMA SendKeeps ==
  ASSUME PageInv, page = "live", NEW m \in Messages, pipe' = Append(pipe, m), m.to # "prompt",
         TrueWord(m, Locked), Informs(m) => m.mode = mode /\ (m.locked <=> Locked),
         UNCHANGED <<proc, mode, hasKey, page, popups, open, later, panel>>,
         win' \in {"shown", "hidden"}
  PROVE  PageInv'
<1> USE DEF PageInv
<1>1. pipe' \in Seq(Messages) /\ Behind(pipe, pipe', m)
  BY AppendIsBehind DEF PageType
<1>2. PageType'
  BY <1>1 DEF PageType
<1>3. Locked' <=> Locked
  BY DEF Locked
<1>4. /\ \A k : Sent(pipe', k) <=> Sent(pipe, k) \/ m.to = k
      /\ NoneTold(pipe') <=> NoneTold(pipe) /\ ~Informs(m)
  BY <1>1, BehindSends
<1>5. /\ \A i \in DOMAIN pipe' : TrueWord(pipe'[i], Locked)
      /\ PromptFirst(pipe', Locked)
  BY <1>1, BehindWords DEF WordsAreTrue
<1>6. WordsAreTrue'
  BY <1>4, <1>5 DEF WordsAreTrue, Locked
<1>7. LastTold(pipe', mode, Locked)
  BY <1>1, BehindTold DEF PanelFollows
<1>8. PanelFollows'
  BY <1>4, <1>7 DEF PanelFollows, Locked
<1>9. PromptGoes'
  BY <1>4 DEF PromptGoes, Locked
<1>10. QED
  BY <1>2, <1>6, <1>8, <1>9

(* A change of the store is told to everyone before it is answered.        *)
LEMMA NewsKeeps ==
  ASSUME PageInv, page = "live", popups # <<>>, NEW who \in {"unlock", "panel"},
         pipe' = pipe \o <<Told("all"), Told(who)>>, hasKey' = TRUE, mode' \in Modes,
         UNCHANGED <<proc, page, win, popups, open, later, panel>>
  PROVE  PageInv'
<1> USE DEF PageInv
<1> DEFINE a == Told("all")
           b == Told(who)
           q == Append(pipe, a)
<1>1. /\ a \in Messages /\ a.to = "all" /\ a.mode = mode' /\ ~a.locked
      /\ b \in Messages /\ b.to = who /\ ~b.locked
  BY DEF Told, Messages
<1> HIDE DEF a, b
<1>2. pipe' = Append(q, b)
  BY <1>1 DEF PageType, a, b
<1>3. q \in Seq(Messages) /\ Behind(pipe, q, a)
  BY <1>1, AppendIsBehind DEF PageType
<1> HIDE DEF q
<1>4. pipe' \in Seq(Messages) /\ Behind(q, pipe', b)
  BY <1>1, <1>2, <1>3, AppendIsBehind
<1>5. PageType'
  BY <1>4 DEF PageType
<1>6. ~Sent(pipe, "prompt")
  BY DEF WordsAreTrue
<1>7. ~Locked'
  BY DEF Locked
<1>8. /\ \A k : Sent(pipe', k) <=> Sent(pipe, k) \/ k = "all" \/ k = who
      /\ ~NoneTold(pipe')
  <2>1. /\ \A k : Sent(q, k) <=> Sent(pipe, k) \/ a.to = k
        /\ NoneTold(q) <=> NoneTold(pipe) /\ ~Informs(a)
    BY <1>3, BehindSends
  <2>2. /\ \A k : Sent(pipe', k) <=> Sent(q, k) \/ b.to = k
        /\ NoneTold(pipe') <=> NoneTold(q) /\ ~Informs(b)
    BY <1>4, BehindSends
  <2>3. QED
    BY <1>1, <2>1, <2>2 DEF Informs
<1>9. \A i \in DOMAIN pipe : TrueWord(pipe[i], FALSE)
  BY DEF WordsAreTrue, TrueWord
<1>10. PromptFirst(pipe, FALSE)
  BY <1>6 DEF PromptFirst, Sent
<1>11. TrueWord(a, FALSE) /\ TrueWord(b, FALSE)
  BY <1>1 DEF TrueWord
<1>12. (\A i \in DOMAIN q : TrueWord(q[i], FALSE)) /\ PromptFirst(q, FALSE)
  BY <1>1, <1>3, <1>9, <1>10, <1>11, BehindWords
<1>13. (\A i \in DOMAIN pipe' : TrueWord(pipe'[i], FALSE)) /\ PromptFirst(pipe', FALSE)
  BY <1>1, <1>4, <1>11, <1>12, BehindWords
<1>14. WordsAreTrue'
  <2>1. ~Sent(pipe', "prompt")
    BY <1>6, <1>8
  <2>2. \A i \in DOMAIN pipe' : TrueWord(pipe'[i], Locked')
    BY <1>7, <1>13 DEF TrueWord
  <2>3. PromptFirst(pipe', Locked')
    BY <2>1 DEF PromptFirst, Sent
  <2>4. QED
    BY <2>1, <2>2, <2>3 DEF WordsAreTrue
<1>15. LastTold(q, mode', FALSE)
  BY <1>1, <1>3, BehindTold DEF Informs
<1>16. ~Informs(b)
  BY <1>1 DEF Informs
<1>17. LastTold(pipe', mode', FALSE)
  BY <1>4, <1>15, <1>16, BehindTold
<1>18. LastTold(pipe', mode', Locked')
  BY <1>7, <1>17 DEF LastTold
<1>19. PanelFollows'
  BY <1>8, <1>18 DEF PanelFollows
<1>20. PromptGoes'
  BY <1>7, <1>8 DEF PromptGoes
<1>21. QED
  BY <1>5, <1>14, <1>19, <1>20

LEMMA RefusedIs ==
  ASSUME PageInv, NEW who \in {"unlock", "panel"}
  PROVE  /\ Refused(who) \in Messages /\ Refused(who).to # "prompt"
         /\ TrueWord(Refused(who), Locked) /\ ~Informs(Refused(who))
<1> DEFINE r == Refused(who)
<1>1. r = [to |-> who, mode |-> mode, locked |-> Locked, ok |-> FALSE]
  BY DEF Refused
<1>2. Locked \in BOOLEAN /\ mode \in Modes
  BY DEF Locked, PageInv, PageType
<1>3. r.to = who /\ r.ok = FALSE /\ (r.locked <=> Locked)
  BY <1>1, <1>2
<1>4. r \in Messages
  BY <1>1, <1>2 DEF Messages
<1>5. QED
  BY <1>3, <1>4 DEF TrueWord, Informs

LEMMA UnlockKeeps ==
  ASSUME PageInv, page = "live", popups # <<>>, NEW who \in {"unlock", "panel"}, NEW right,
         Unlock(who, right), UNCHANGED <<proc, page, win, popups, open, later, panel>>
  PROVE  PageInv'
<1>1. CASE right
  <2>1. hasKey' = TRUE /\ mode' = mode /\ pipe' = pipe \o <<Told("all"), Told(who)>>
    BY <1>1 DEF Unlock, Announced
  <2>2. QED
    BY <2>1, NewsKeeps DEF PageInv, PageType
<1>2. CASE ~right
  <2>1. pipe' = Append(pipe, Refused(who)) /\ UNCHANGED <<mode, hasKey>>
    BY <1>2 DEF Unlock, mainVars
  <2>2. win \in {"shown", "hidden"}
    BY DEF PageInv, PageType
  <2>3. QED
    BY <2>1, <2>2, RefusedIs, SendKeeps
<1>3. QED
  BY <1>1, <1>2

LEMMA SetModeKeeps ==
  ASSUME PageInv, page = "live", popups # <<>>, NEW m \in Modes, NEW can, hasKey \in BOOLEAN,
         SetMode(m, can), UNCHANGED <<proc, page, win, popups, open, later, panel>>
  PROVE  PageInv'
<1>0. win \in {"shown", "hidden"}
  BY DEF PageInv, PageType
<1>1. CASE Locked \/ ~can
  <2>1. pipe' = Append(pipe, Refused("panel")) /\ UNCHANGED <<mode, hasKey>>
    BY <1>1 DEF SetMode, mainVars
  <2>2. QED
    BY <1>0, <2>1, RefusedIs, SendKeeps
<1>2. CASE ~(Locked \/ ~can) /\ m = mode
  <2>1. hasKey = TRUE /\ hasKey' = TRUE /\ mode' = mode /\ pipe' = Append(pipe, Told("panel"))
    BY <1>2 DEF SetMode, Locked
  <2>2. Told("panel") \in Messages /\ Told("panel").to = "panel" /\ Told("panel").locked = FALSE
    BY <2>1 DEF Told, Messages, PageInv, PageType
  <2>3. TrueWord(Told("panel"), Locked) /\ ~Informs(Told("panel")) /\ Told("panel").to # "prompt"
    BY <1>2, <2>2 DEF TrueWord, Informs
  <2>4. QED
    BY <1>0, <2>1, <2>2, <2>3, SendKeeps
<1>3. CASE ~(Locked \/ ~can) /\ m # mode
  <2>1. hasKey' = TRUE /\ mode' = m /\ pipe' = pipe \o <<Told("all"), Told("panel")>>
    BY <1>3 DEF SetMode
  <2>2. QED
    BY <2>1, NewsKeeps
<1>4. QED
  BY <1>1, <1>2, <1>3

(* The page stays as it is.                                                *)
LEMMA StillKeeps ==
  ASSUME PageInv, UNCHANGED <<proc, mode, hasKey, page, pipe, popups, open, later>>,
         win' \in {win, "shown", "hidden"},
         panel' \in [mode : Modes, locked : BOOLEAN, switch : Modes \cup {"none"}, read : BOOLEAN],
         panel'.mode = panel.mode, panel'.locked = panel.locked, panel'.read = panel.read,
         page # "live" => panel' = panel
  PROVE  PageInv'
<1> USE DEF PageInv
<1>1. PageType'
  BY DEF PageType
<1>2. WordsAreTrue'
  BY DEF WordsAreTrue, Locked
<1>3. PanelFollows'
  BY DEF PanelFollows, Locked
<1>4. PromptGoes'
  BY DEF PromptGoes, Locked
<1>5. QED
  BY <1>1, <1>2, <1>3, <1>4

(* A page that is not there, or is only loading.                           *)
LEMMA BlankKeeps ==
  ASSUME page' \in {"none", "loading"}, mode' \in Modes, win' \in {"none", "shown", "hidden"},
         pipe' = <<>>, popups' = <<>>, open' = FALSE, later' = FALSE, panel' = NoPanel,
         proc' = "up" => win' # "none" /\ page' # "none",
         proc' # "up" => page' = "none"
  PROVE  PageInv'
<1>1. NoPanel \in [mode : Modes, locked : BOOLEAN, switch : Modes \cup {"none"}, read : BOOLEAN] /\ ~NoPanel.read
  BY DEF NoPanel, Modes
<1>0. <<>> \in Seq(Messages) /\ <<>> \in Seq(Popups)
  OBVIOUS
<1>2. PageType'
  BY <1>1, <1>0 DEF PageType
<1>3. WordsAreTrue' /\ PanelFollows' /\ PromptGoes'
  BY <1>1 DEF WordsAreTrue, PromptFirst, Sent, PanelFollows, LastTold, PromptGoes
<1>4. QED
  BY <1>2, <1>3 DEF PageInv

(* A word that was read is about the store as it is, and what remains on   *)
(* the way is as true as before.                                           *)
LEMMA ReadLeaves ==
  ASSUME PageInv, pipe # <<>>
  PROVE  LET m == Head(pipe)
             q == Tail(pipe)
         IN  /\ m \in Messages /\ q \in Seq(Messages) /\ TrueWord(m, Locked)
             /\ m.to = "prompt" => (m.locked <=> Locked) /\ popups = <<>> /\ ~open
             /\ \A i \in DOMAIN q : TrueWord(q[i], Locked)
             /\ PromptFirst(q, Locked) /\ ~Sent(q, "prompt")
             /\ m.to # "prompt" => ~Sent(pipe, "prompt")
             /\ Sent(pipe, "all") <=> Sent(q, "all") \/ m.to = "all"
             /\ LastTold(q, mode, Locked)
             /\ NoneTold(pipe) <=> NoneTold(q) /\ ~Informs(m)
             /\ Informs(m) /\ NoneTold(q) => m.mode = mode /\ (m.locked <=> Locked)
<1> DEFINE m == Head(pipe)
           q == Tail(pipe)
<1>1. m \in Messages /\ q \in Seq(Messages) /\ Taken(pipe, q, m)
  BY TailIsTaken DEF PageInv, PageType
<1> HIDE DEF m, q
<1>2. /\ \A k : Sent(pipe, k) <=> Sent(q, k) \/ m.to = k
      /\ NoneTold(pipe) <=> NoneTold(q) /\ ~Informs(m)
  BY <1>1, TakenSends
<1>3. /\ TrueWord(m, Locked) /\ (m.to = "prompt" => (m.locked <=> Locked))
      /\ \A i \in DOMAIN q : TrueWord(q[i], Locked)
      /\ PromptFirst(q, Locked) /\ ~Sent(q, "prompt")
  BY <1>1, TakenWords DEF PageInv, WordsAreTrue
<1>4. /\ LastTold(q, mode, Locked)
      /\ Informs(m) /\ NoneTold(q) => m.mode = mode /\ (m.locked <=> Locked)
  BY <1>1, TakenTold DEF PageInv, PanelFollows
<1>5. m.to = "prompt" => popups = <<>> /\ ~open
  BY <1>2 DEF PageInv, WordsAreTrue
<1>6. QED
  BY <1>1, <1>2, <1>3, <1>4, <1>5 DEF m, q

(* The words after one was read, and what the panel then shows.            *)
LEMMA ReadKeeps ==
  ASSUME PageInv, pipe # <<>>, UNCHANGED <<mode, hasKey>>,
         \/ pipe' = Tail(pipe)
         \/ \E x \in Messages :
              /\ pipe' = Append(Tail(pipe), x) /\ x.to \notin {"prompt", "all"} /\ TrueWord(x, Locked)
              /\ Informs(x) => x.mode = mode /\ (x.locked <=> Locked),
         IF Informs(Head(pipe)) THEN panel' = Shows(Head(pipe))
         ELSE panel'.mode = panel.mode /\ panel'.locked = panel.locked /\ panel'.read = panel.read
  PROVE  /\ WordsAreTrue' /\ PanelFollows' /\ pipe' \in Seq(Messages) /\ ~Sent(pipe', "prompt")
         /\ Sent(pipe, "all") <=> Sent(pipe', "all") \/ Head(pipe).to = "all"
<1> DEFINE m == Head(pipe)
           q == Tail(pipe)
<1>1. /\ m \in Messages /\ q \in Seq(Messages) /\ TrueWord(m, Locked)
      /\ \A i \in DOMAIN q : TrueWord(q[i], Locked)
      /\ PromptFirst(q, Locked) /\ ~Sent(q, "prompt")
      /\ Sent(pipe, "all") <=> Sent(q, "all") \/ m.to = "all"
      /\ LastTold(q, mode, Locked)
      /\ NoneTold(pipe) <=> NoneTold(q) /\ ~Informs(m)
      /\ Informs(m) /\ NoneTold(q) => m.mode = mode /\ (m.locked <=> Locked)
  BY ReadLeaves
<1>2. /\ panel'.read /\ NoneTold(q) => panel'.mode = mode /\ (panel'.locked <=> Locked)
  <2>1. CASE Informs(m)
    <3>1. panel'.mode = m.mode /\ panel'.locked = m.locked
      BY <2>1 DEF Shows
    <3>2. QED
      BY <1>1, <2>1, <3>1
  <2>2. CASE ~Informs(m)
    BY <1>1, <2>2 DEF PageInv, PanelFollows
  <2>3. QED
    BY <2>1, <2>2
<1> HIDE DEF m, q
<1> DEFINE Kept(r) == /\ r \in Seq(Messages) /\ (\A i \in DOMAIN r : TrueWord(r[i], Locked))
                      /\ PromptFirst(r, Locked) /\ ~Sent(r, "prompt")
                      /\ Sent(r, "all") <=> Sent(q, "all")
                      /\ LastTold(r, mode, Locked)
                      /\ NoneTold(r) => NoneTold(q)
<1>3. Kept(pipe')
  <2>1. CASE pipe' = q
    BY <1>1, <2>1
  <2>2. ASSUME NEW x \in Messages, pipe' = Append(q, x), x.to \notin {"prompt", "all"}, TrueWord(x, Locked),
               Informs(x) => x.mode = mode /\ (x.locked <=> Locked)
        PROVE  Kept(pipe')
    <3>1. pipe' \in Seq(Messages) /\ Behind(q, pipe', x)
      BY <1>1, <2>2, AppendIsBehind
    <3>2. /\ \A k : Sent(pipe', k) <=> Sent(q, k) \/ x.to = k
          /\ NoneTold(pipe') <=> NoneTold(q) /\ ~Informs(x)
      BY <3>1, BehindSends
    <3>3. (\A i \in DOMAIN pipe' : TrueWord(pipe'[i], Locked)) /\ PromptFirst(pipe', Locked)
      BY <1>1, <2>2, <3>1, BehindWords
    <3>4. LastTold(pipe', mode, Locked)
      BY <1>1, <2>2, <3>1, BehindTold
    <3>5. QED
      BY <1>1, <2>2, <3>1, <3>2, <3>3, <3>4
  <2>3. QED
    BY <2>1, <2>2 DEF q
<1>4. Locked' <=> Locked
  BY DEF Locked
<1>5. WordsAreTrue'
  BY <1>3 DEF WordsAreTrue, Locked
<1>6. PanelFollows'
  BY <1>2, <1>3 DEF PanelFollows, Locked
<1>7. Sent(pipe, "all") <=> Sent(pipe', "all") \/ m.to = "all"
  BY <1>1, <1>3
<1> USE DEF m, q
<1>8. QED
  BY <1>3, <1>5, <1>6, <1>7

LEMMA PopupsStay ==
  ASSUME popups \in Seq(Popups)
  PROVE  /\ Append(popups, "unlock") \in Seq(Popups) /\ Append(popups, "settings") \in Seq(Popups)
         /\ \E i \in DOMAIN Append(popups, "unlock") : Append(popups, "unlock")[i] = "unlock"
         /\ (\E i \in DOMAIN popups : popups[i] = "unlock") =>
              \E i \in DOMAIN Append(popups, "settings") : Append(popups, "settings")[i] = "unlock"
         /\ (IF popups = <<>> THEN <<>> ELSE Tail(popups)) \in Seq(Popups)
<1>1. "unlock" \in Popups /\ "settings" \in Popups
  BY DEF Popups
<1>2. /\ Append(popups, "unlock") \in Seq(Popups) /\ Append(popups, "settings") \in Seq(Popups)
      /\ Behind(popups, Append(popups, "unlock"), "unlock")
      /\ Behind(popups, Append(popups, "settings"), "settings")
  BY <1>1, AppendIsBehind
<1>3. \E i \in DOMAIN Append(popups, "unlock") : Append(popups, "unlock")[i] = "unlock"
  BY <1>2 DEF Behind
<1>4. (\E i \in DOMAIN popups : popups[i] = "unlock") =>
        \E i \in DOMAIN Append(popups, "settings") : Append(popups, "settings")[i] = "unlock"
  BY <1>2 DEF Behind
<1>5. (IF popups = <<>> THEN <<>> ELSE Tail(popups)) \in Seq(Popups)
  BY TailIsTaken
<1>6. QED
  BY <1>2, <1>3, <1>4, <1>5

LEMMA ReceiveKeeps ==
  ASSUME PageInv, Receive
  PROVE  PageInv'
<1> USE DEF PageInv
<1> DEFINE m == Head(pipe)
           q == Tail(pipe)
<1>1. /\ page = "live" /\ pipe # <<>>
      /\ UNCHANGED <<proc, mode, hasKey, win, page, later>>
  BY DEF Receive, mainVars, quitVars
<1>2. /\ m \in Messages /\ TrueWord(m, Locked)
      /\ m.to = "prompt" => (m.locked <=> Locked) /\ popups = <<>> /\ ~open
      /\ m.to # "prompt" => ~Sent(pipe, "prompt")
  BY <1>1, ReadLeaves
<1>3. Locked' <=> Locked
  BY <1>1 DEF Locked
<1>4. ASSUME popups' \in Seq(Popups), open' \in BOOLEAN,
             panel' \in [mode : Modes, locked : BOOLEAN, switch : Modes \cup {"none"}, read : BOOLEAN],
             pipe' \in Seq(Messages)
      PROVE  PageType'
  BY <1>1, <1>4 DEF PageType
<1>5. popups \in Seq(Popups) /\ open \in BOOLEAN /\ mode \in Modes /\ Locked \in BOOLEAN
      /\ panel \in [mode : Modes, locked : BOOLEAN, switch : Modes \cup {"none"}, read : BOOLEAN]
  BY DEF PageType, Locked
<1>6. Shows(m) \in [mode : Modes, locked : BOOLEAN, switch : Modes \cup {"none"}, read : BOOLEAN]
  BY <1>2 DEF Shows, Messages
<1>7. ClosePrompt => popups' \in Seq(Popups) /\ ~open' /\ open' \in BOOLEAN
  BY <1>5, PopupsStay DEF ClosePrompt, CloseTop
<1>8. CASE m.to = "prompt"
  <2>1. /\ IF m.locked THEN ShowPrompt ELSE UNCHANGED <<popups, open>>
        /\ pipe' = q /\ UNCHANGED panel
    BY <1>8 DEF Receive
  <2>2. ~Informs(m)
    BY <1>8 DEF Informs
  <2>3. /\ WordsAreTrue' /\ PanelFollows' /\ pipe' \in Seq(Messages) /\ ~Sent(pipe', "prompt")
    BY <1>1, <2>1, <2>2, ReadKeeps
  <2>4. CASE m.locked
    <3>1. open' = TRUE /\ popups' = Append(popups, "unlock")
      BY <1>2, <1>8, <2>1, <2>4 DEF ShowPrompt
    <3>2. popups' \in Seq(Popups) /\ \E i \in DOMAIN popups' : popups'[i] = "unlock"
      BY <1>5, <3>1, PopupsStay
    <3>3. Locked'
      BY <1>2, <1>3, <1>8, <2>4
    <3>4. PromptGoes'
      BY <3>1, <3>2, <3>3 DEF PromptGoes
    <3>5. PageType'
      BY <1>4, <1>5, <2>1, <2>3, <3>1, <3>2
    <3>6. QED
      BY <2>3, <3>4, <3>5
  <2>5. CASE ~m.locked
    <3>1. UNCHANGED <<popups, open>> /\ ~open /\ ~Locked'
      BY <1>2, <1>3, <1>8, <2>1, <2>5
    <3>2. PromptGoes'
      BY <3>1 DEF PromptGoes
    <3>3. PageType'
      BY <1>4, <1>5, <2>1, <2>3, <3>1
    <3>4. QED
      BY <2>3, <3>2, <3>3
  <2>6. QED
    BY <2>4, <2>5
<1>9. CASE m.to = "all"
  <2>1. OnStateChanged(m) /\ pipe' = q
    BY <1>9 DEF Receive
  <2>2. ~m.locked /\ ~Locked
    BY <1>2, <1>9 DEF TrueWord
  <2>3. panel' = Shows(m) /\ ClosePrompt /\ Informs(m)
    BY <1>9, <2>1, <2>2 DEF OnStateChanged, Informs
  <2>4. /\ WordsAreTrue' /\ PanelFollows' /\ pipe' \in Seq(Messages)
    BY <1>1, <2>1, <2>3, ReadKeeps
  <2>5. PromptGoes'
    BY <1>3, <1>7, <2>2, <2>3 DEF PromptGoes
  <2>6. PageType'
    BY <1>4, <1>6, <1>7, <2>3, <2>4
  <2>7. QED
    BY <2>4, <2>5, <2>6
<1>10. CASE m.to = "unlock"
  <2>1. /\ IF m.ok THEN ClosePrompt ELSE UNCHANGED <<popups, open>>
        /\ pipe' = q /\ UNCHANGED panel
    BY <1>10 DEF Receive
  <2>2. ~Informs(m) /\ m.to # "all" /\ m.to # "prompt"
    BY <1>10 DEF Informs
  <2>3. /\ WordsAreTrue' /\ PanelFollows' /\ pipe' \in Seq(Messages) /\ ~Sent(pipe', "prompt")
        /\ Sent(pipe, "all") <=> Sent(pipe', "all") \/ m.to = "all"
    BY <1>1, <2>1, <2>2, ReadKeeps
  <2>4. CASE m.ok
    <3>1. ~Locked' /\ ClosePrompt
      BY <1>2, <1>3, <1>10, <2>1, <2>4 DEF TrueWord
    <3>2. PromptGoes'
      BY <1>7, <3>1 DEF PromptGoes
    <3>3. PageType'
      BY <1>4, <1>5, <1>7, <2>1, <2>3, <3>1
    <3>4. QED
      BY <2>3, <3>2, <3>3
  <2>5. CASE ~m.ok
    <3>1. UNCHANGED <<popups, open>>
      BY <2>1, <2>5
    <3>2. PromptGoes'
      BY <1>1, <1>2, <1>3, <2>2, <2>3, <3>1 DEF PromptGoes
    <3>3. PageType'
      BY <1>4, <1>5, <2>1, <2>3, <3>1
    <3>4. QED
      BY <2>3, <3>2, <3>3
  <2>6. QED
    BY <2>4, <2>5
<1>11. CASE m.to = "panel"
  <2> DEFINE x == [m EXCEPT !.to = "load", !.mode = mode, !.locked = Locked]
  <2>1. /\ IF m.ok THEN pipe' = Append(q, x) /\ UNCHANGED panel
           ELSE pipe' = q /\ panel' = [panel EXCEPT !.switch = "none"]
        /\ UNCHANGED <<popups, open>>
    BY <1>11 DEF Receive
  <2>2. ~Informs(m) /\ m.to # "all" /\ m.to # "prompt"
    BY <1>11 DEF Informs
  <2>3. /\ x \in Messages /\ x.to = "load" /\ x.mode = mode /\ x.locked = Locked
    BY <1>2, <1>5 DEF Messages
  <2> HIDE DEF x
  <2>4. TrueWord(x, Locked)
    BY <2>3 DEF TrueWord
  <2>5. panel'.mode = panel.mode /\ panel'.locked = panel.locked /\ panel'.read = panel.read
        /\ panel' \in [mode : Modes, locked : BOOLEAN, switch : Modes \cup {"none"}, read : BOOLEAN]
    BY <1>5, <2>1
  <2>6. \/ pipe' = Tail(pipe)
        \/ \E y \in Messages :
              /\ pipe' = Append(Tail(pipe), y) /\ y.to \notin {"prompt", "all"} /\ TrueWord(y, Locked)
              /\ Informs(y) => y.mode = mode /\ (y.locked <=> Locked)
    BY <2>1, <2>3, <2>4
  <2>7. /\ WordsAreTrue' /\ PanelFollows' /\ pipe' \in Seq(Messages) /\ ~Sent(pipe', "prompt")
        /\ Sent(pipe, "all") <=> Sent(pipe', "all") \/ m.to = "all"
    BY <1>1, <2>2, <2>5, <2>6, ReadKeeps
  <2>8. PromptGoes'
    BY <1>1, <1>2, <1>3, <2>1, <2>2, <2>7 DEF PromptGoes
  <2>9. PageType'
    BY <1>4, <1>5, <2>1, <2>5, <2>7
  <2>10. QED
    BY <2>7, <2>8, <2>9
<1>12. CASE m.to = "load"
  <2>1. panel' = Shows(m) /\ pipe' = q /\ UNCHANGED <<popups, open>>
    BY <1>12 DEF Receive
  <2>2. Informs(m) /\ m.to # "all" /\ m.to # "prompt"
    BY <1>12 DEF Informs
  <2>3. /\ WordsAreTrue' /\ PanelFollows' /\ pipe' \in Seq(Messages) /\ ~Sent(pipe', "prompt")
        /\ Sent(pipe, "all") <=> Sent(pipe', "all") \/ m.to = "all"
    BY <1>1, <2>1, <2>2, ReadKeeps
  <2>4. PromptGoes'
    BY <1>1, <1>2, <1>3, <2>1, <2>2, <2>3 DEF PromptGoes
  <2>5. PageType'
    BY <1>4, <1>5, <1>6, <2>1, <2>3
  <2>6. QED
    BY <2>3, <2>4, <2>5
<1>13. CASE m.to = "settings"
  <2> DEFINE x == [m EXCEPT !.ok = TRUE]
  <2>1. /\ IF m.ok THEN popups' = Append(popups, "settings") /\ pipe' = q
           ELSE pipe' = Append(q, x) /\ UNCHANGED popups
        /\ UNCHANGED <<open, panel>>
    BY <1>13 DEF Receive
  <2>2. ~Informs(m) /\ m.to # "all" /\ m.to # "prompt"
    BY <1>13 DEF Informs
  <2>3. /\ x \in Messages /\ x.to = "settings" /\ x.locked = m.locked
    BY <1>2, <1>13 DEF Messages
  <2> HIDE DEF x
  <2>4. TrueWord(x, Locked) /\ ~Informs(x)
    BY <1>2, <2>3 DEF TrueWord, Informs
  <2>5. \/ pipe' = Tail(pipe)
        \/ \E y \in Messages :
              /\ pipe' = Append(Tail(pipe), y) /\ y.to \notin {"prompt", "all"} /\ TrueWord(y, Locked)
              /\ Informs(y) => y.mode = mode /\ (y.locked <=> Locked)
    BY <2>1, <2>3, <2>4
  <2>6. /\ WordsAreTrue' /\ PanelFollows' /\ pipe' \in Seq(Messages) /\ ~Sent(pipe', "prompt")
        /\ Sent(pipe, "all") <=> Sent(pipe', "all") \/ m.to = "all"
    BY <1>1, <2>1, <2>2, <2>5, ReadKeeps
  <2>7. /\ popups' \in Seq(Popups)
        /\ (\E i \in DOMAIN popups : popups[i] = "unlock") => \E i \in DOMAIN popups' : popups'[i] = "unlock"
    BY <1>5, <2>1, PopupsStay
  <2>8. PromptGoes'
    BY <1>1, <1>2, <1>3, <2>1, <2>2, <2>6, <2>7 DEF PromptGoes
  <2>9. PageType'
    BY <1>4, <1>5, <2>1, <2>6, <2>7
  <2>10. QED
    BY <2>6, <2>8, <2>9
<1>14. QED
  BY <1>2, <1>8, <1>9, <1>10, <1>11, <1>12, <1>13 DEF Messages

LEMMA PageStartsAgain ==
  ASSUME PageInv, PageLoads
  PROVE  PageInv'
<1> USE DEF PageInv
<1> DEFINE x == [to |-> "prompt", mode |-> mode, locked |-> Locked, ok |-> TRUE]
<1>1. /\ proc = "up" /\ page = "loading" /\ page' = "live" /\ pipe' = <<x>>
      /\ UNCHANGED <<mode, hasKey, proc, win, popups, open, later, panel>>
  BY DEF PageLoads, mainVars, quitVars
<1>2. Locked \in BOOLEAN /\ mode \in Modes
  BY DEF Locked, PageType
<1>3. x \in Messages /\ x.to = "prompt" /\ x.locked = Locked
  BY <1>2 DEF Messages
<1> HIDE DEF x
<1>4. pipe' \in Seq(Messages) /\ DOMAIN pipe' = {1} /\ pipe'[1] = x
  BY <1>1, <1>3
<1>5. popups = <<>> /\ ~open /\ ~later /\ panel = NoPanel /\ ~panel.read
  BY <1>1 DEF PageType, NoPanel
<1>6. PageType'
  BY <1>1, <1>4, <1>5 DEF PageType
<1>7. WordsAreTrue'
  <2>1. TrueWord(x, Locked)
    BY <1>3 DEF TrueWord
  <2>2. (\A i \in DOMAIN pipe' : TrueWord(pipe'[i], Locked)) /\ PromptFirst(pipe', Locked)
    BY <1>3, <1>4, <2>1 DEF PromptFirst
  <2>3. QED
    BY <1>1, <1>5, <2>2 DEF WordsAreTrue, Locked
<1>8. PanelFollows'
  BY <1>1, <1>3, <1>4, <1>5 DEF PanelFollows, LastTold, Informs
<1>9. PromptGoes'
  BY <1>1, <1>3, <1>4, <1>5 DEF PromptGoes, Sent
<1>10. QED
  BY <1>6, <1>7, <1>8, <1>9

(* The user closes what is on screen.                                      *)
LEMMA CloseKeeps ==
  ASSUME PageInv, Later \/ CloseSettings
  PROVE  PageInv'
<1> USE DEF PageInv
<1>1. /\ page = "live" /\ popups # <<>> /\ popups' = Tail(popups)
      /\ UNCHANGED <<mode, hasKey, proc, win, page, pipe, panel>>
      /\ \/ ~open' /\ open' \in BOOLEAN /\ later' = TRUE
         \/ Head(popups) = "settings" /\ UNCHANGED <<open, later>>
  BY DEF Later, CloseSettings, Top, ClosePrompt, CloseTop, Still, mainVars, quitVars
<1>2. popups' \in Seq(Popups) /\ Taken(popups, popups', Head(popups))
  BY <1>1, TailIsTaken DEF PageType
<1>3. PageType'
  BY <1>1, <1>2 DEF PageType
<1>4. WordsAreTrue'
  <2>1. ~Sent(pipe, "prompt")
    BY <1>1 DEF WordsAreTrue
  <2>2. QED
    BY <1>1, <2>1 DEF WordsAreTrue, Locked
<1>5. PanelFollows'
  BY <1>1 DEF PanelFollows, Locked
<1>6. PromptGoes'
  <2>1. CASE ~open' /\ later' = TRUE
    BY <1>1, <2>1 DEF PromptGoes, Locked
  <2>2. CASE Head(popups) = "settings" /\ UNCHANGED <<open, later>>
    <3>1. ASSUME NEW i \in DOMAIN popups, popups[i] = "unlock"
          PROVE  \E j \in DOMAIN popups' : popups'[j] = "unlock"
      <4>1. i # 1
        BY <1>2, <2>2, <3>1 DEF Taken
      <4>2. QED
        BY <1>2, <3>1, <4>1 DEF Taken
    <3>2. QED
      BY <1>1, <2>2, <3>1 DEF PromptGoes, Locked
  <2>3. QED
    BY <1>1, <2>1, <2>2
<1>7. QED
  BY <1>3, <1>4, <1>5, <1>6

LEMMA RevealKeeps ==
  ASSUME PageInv, RevealSecurity
  PROVE  PageInv'
<1> DEFINE x == [to |-> "load", mode |-> mode, locked |-> Locked, ok |-> TRUE]
<1>1. /\ page = "live" /\ win = "shown" /\ pipe' = Append(pipe, x)
      /\ UNCHANGED <<proc, mode, hasKey, win, page, popups, open, later, panel>>
  BY DEF RevealSecurity, Asking, Still, mainVars, quitVars
<1>2. Locked \in BOOLEAN /\ mode \in Modes
  BY DEF Locked, PageInv, PageType
<1>3. x \in Messages /\ x.to = "load" /\ x.locked = Locked /\ x.mode = mode
  BY <1>2 DEF Messages
<1> HIDE DEF x
<1>4. TrueWord(x, Locked) /\ x.to # "prompt"
  BY <1>3 DEF TrueWord
<1>5. QED
  BY <1>1, <1>3, <1>4, SendKeeps

LEMMA OpenSettingsKeeps ==
  ASSUME PageInv, OpenSettings
  PROVE  PageInv'
<1> DEFINE x == [to |-> "settings", mode |-> mode, locked |-> Locked, ok |-> FALSE]
<1>1. /\ win' = "shown" /\ pipe' = (IF page = "live" THEN Append(pipe, x) ELSE pipe)
      /\ UNCHANGED <<proc, mode, hasKey, page, popups, open, later, panel>>
  BY DEF OpenSettings, ShowWindow, mainVars, quitVars
<1>2. Locked \in BOOLEAN /\ mode \in Modes
  BY DEF Locked, PageInv, PageType
<1>3. x \in Messages /\ x.to = "settings" /\ x.locked = Locked
  BY <1>2 DEF Messages
<1> HIDE DEF x
<1>4. TrueWord(x, Locked) /\ x.to # "prompt" /\ ~Informs(x)
  BY <1>3 DEF TrueWord, Informs
<1>5. CASE page = "live"
  BY <1>1, <1>3, <1>4, <1>5, SendKeeps
<1>6. CASE page # "live"
  BY <1>1, <1>6, StillKeeps DEF PageInv, PageType
<1>7. QED
  BY <1>5, <1>6

LEMMA ShellStarts == ShellInit => ShellInv
<1> SUFFICES ASSUME ShellInit PROVE ShellInv
  OBVIOUS
<1> USE DEF ShellInit
<1>1. LaunchInv
  BY DEF LaunchInv, Settings, Locked
<1>2. NoPanel \in [mode : Modes, locked : BOOLEAN, switch : Modes \cup {"none"}, read : BOOLEAN] /\ ~NoPanel.read
  BY DEF NoPanel, Modes
<1>3. <<>> \in Seq(Messages) /\ <<>> \in Seq(Popups) /\ mode \in Modes
  BY DEF Modes
<1>4. PageType
  BY <1>2, <1>3 DEF PageType
<1>5. WordsAreTrue /\ PanelFollows /\ PromptGoes
  BY <1>2 DEF WordsAreTrue, PromptFirst, Sent, PanelFollows, LastTold, PromptGoes
<1>6. QED
  BY <1>1, <1>4, <1>5 DEF ShellInv, PageInv

LEMMA ExitKeeps ==
  ASSUME ShellInv, Exit
  PROVE  ShellInv'
<1>1. LaunchInv'
  BY ExitLaunches DEF ShellInv
<1>2. PageInv'
  BY BlankKeeps DEF ShellInv, PageInv, PageType, Exit
<1>3. QED
  BY <1>1, <1>2 DEF ShellInv

LEMMA QuitKeeps ==
  ASSUME ShellInv, Quit \/ QuitEarly \/ Drained
  PROVE  ShellInv'
<1>1. CASE Exit
  BY <1>1, ExitKeeps
<1>2. CASE Drain
  <2>1. UNCHANGED <<boot, onDisk, mode, hasKey, postponed, sched, sweeps, launches, proc, win, page, pageVars>>
    BY <1>2 DEF Drain
  <2>2. LaunchInv'
    BY <2>1, StillLaunches DEF ShellInv
  <2>3. PageInv'
    BY <2>1, StillKeeps DEF ShellInv, PageInv, PageType, pageVars
  <2>4. QED
    BY <2>2, <2>3 DEF ShellInv
<1>3. QED
  BY <1>1, <1>2 DEF Quit, QuitEarly, Drained, BeforeQuit

LEMMA ShellKeeps == ShellInv /\ [ShellNext]_shellVars => ShellInv'
<1> SUFFICES ASSUME ShellInv, [ShellNext]_shellVars PROVE ShellInv'
  OBVIOUS
<1> USE DEF ShellInv
<1>0. hasKey \in BOOLEAN /\ PageType /\ (page = "live" => proc = "up")
  BY DEF LaunchInv, PageInv, PageType
<1>1. ASSUME NEW s \in Settings, NEW m \in {"app-key", "master-password"}, Boot(s, m) PROVE ShellInv'
  <2>1. m \in Modes
    BY DEF Modes
  <2>2. LaunchInv'
    BY <1>1, <2>1, BootLaunches
  <2>3. /\ page' = "loading" /\ mode' = m /\ win' \in {"shown", "hidden"} /\ proc' = "up" /\ proc = "off"
        /\ UNCHANGED <<pipe, popups, open, later, panel>>
    BY <1>1 DEF Boot, pageVars
  <2>4. pipe' = <<>> /\ popups' = <<>> /\ open' = FALSE /\ later' = FALSE /\ panel' = NoPanel
    BY <1>0, <2>3 DEF PageType
  <2>5. PageInv'
    BY <2>1, <2>3, <2>4, BlankKeeps
  <2>6. QED
    BY <2>2, <2>5
<1>2. ASSUME NEW s \in sweeps, NEW t \in Tunnels, SweepStep(s, t) PROVE ShellInv'
  <2>1. LaunchInv'
    BY <1>2, SweepStepLaunches
  <2>2. UNCHANGED <<proc, mode, hasKey, win, page, pipe, popups, open, later, panel>>
    BY <1>2 DEF SweepStep, quitVars, pageVars
  <2>3. PageInv'
    BY <1>0, <2>2, StillKeeps DEF PageType
  <2>4. QED
    BY <2>1, <2>3
<1>3. ASSUME NEW t \in Governed, SchedulerActs(t) PROVE ShellInv'
  <2>1. UNCHANGED <<boot, onDisk, mode, hasKey, postponed, sched, sweeps, launches, proc, win, page, pageVars>>
    BY <1>3 DEF SchedulerActs, quitVars
  <2>2. PageInv'
    BY <1>0, <2>1, StillKeeps DEF PageType, pageVars
  <2>3. LaunchInv'
    BY <2>1, StillLaunches
  <2>4. QED
    BY <2>2, <2>3
<1>4. CASE PageLoads \/ Receive \/ Later \/ CloseSettings \/ RevealSecurity
  <2>1. UNCHANGED <<boot, onDisk, hasKey, postponed, sched, sweeps, launches, proc>>
    BY <1>4 DEF PageLoads, Receive, Later, CloseSettings, RevealSecurity, Still, mainVars, quitVars
  <2>2. PageInv'
    BY <1>4, PageStartsAgain, ReceiveKeeps, CloseKeeps, RevealKeeps
  <2>3. QED
    BY <2>1, <2>2, StillLaunches
<1>5. CASE Reload
  <2>1. /\ page' = "loading" /\ pipe' = <<>> /\ popups' = <<>> /\ open' = FALSE /\ later' = FALSE /\ panel' = NoPanel
        /\ UNCHANGED <<boot, onDisk, mode, hasKey, postponed, sched, sweeps, launches, proc, win>> /\ proc = "up"
    BY <1>5 DEF Reload, mainVars, quitVars
  <2>2. PageInv'
    BY <1>0, <2>1, BlankKeeps DEF PageType
  <2>3. LaunchInv'
    BY <2>1, StillLaunches
  <2>4. QED
    BY <2>2, <2>3
<1>6. ASSUME NEW right \in BOOLEAN, SubmitUnlock(right) \/ PanelUnlock(right) PROVE ShellInv'
  <2>1. PICK who \in {"unlock", "panel"} :
          /\ Unlock(who, right) /\ page = "live" /\ popups # <<>>
          /\ UNCHANGED <<proc, page, win, popups, open, later, panel>>
    BY <1>6 DEF SubmitUnlock, PanelUnlock, Asking, Top, Still, quitVars
  <2>2. PageInv'
    BY <2>1, UnlockKeeps
  <2>3. CASE right
    <3>1. hasKey' = TRUE /\ UNCHANGED <<boot, onDisk>> /\ ResumeDeferredArm
      BY <2>1, <2>3 DEF Unlock
    <3>2. QED
      BY <1>0, <2>1, <2>2, <3>1, ResumeLaunches
  <2>4. CASE ~right
    <3>1. UNCHANGED <<boot, onDisk, hasKey, postponed, sched, sweeps, launches, proc>>
      BY <2>1, <2>4 DEF Unlock, mainVars
    <3>2. QED
      BY <2>2, <3>1, StillLaunches
  <2>5. QED
    BY <2>3, <2>4
<1>7. ASSUME NEW can \in BOOLEAN, ApplyMode(can) PROVE ShellInv'
  <2>1. /\ SetMode(panel.switch, can) /\ page = "live" /\ popups # <<>> /\ panel.switch # "none"
        /\ UNCHANGED <<proc, page, win, popups, open, later, panel>>
    BY <1>7 DEF ApplyMode, Asking, Top, Still, quitVars
  <2>2. panel.switch \in Modes
    BY <1>0, <2>1 DEF PageType
  <2>3. PageInv'
    BY <1>0, <2>1, <2>2, SetModeKeeps
  <2>4. LaunchInv'
    BY <1>0, <2>1, SetModeLaunches
  <2>5. QED
    BY <2>3, <2>4
<1>8. ASSUME NEW m \in Modes, PickMode(m) PROVE ShellInv'
  <2>1. /\ page = "live" /\ panel' = [panel EXCEPT !.switch = IF m = panel.mode THEN "none" ELSE m]
        /\ UNCHANGED <<mainVars, quitVars, win, page, pipe, popups, open, later>>
    BY <1>8 DEF PickMode, Still
  <2>2. PageInv'
    BY <1>0, <2>1, StillKeeps DEF PageType, mainVars, quitVars
  <2>3. LaunchInv'
    BY <2>1, StillLaunches DEF mainVars, quitVars
  <2>4. QED
    BY <2>2, <2>3
<1>9. ASSUME NEW s \in Settings, EmitChange(s) PROVE ShellInv'
  <2>1. UNCHANGED <<proc, mode, hasKey, win, page, pageVars>>
    BY <1>9 DEF EmitChange, Still, quitVars
  <2>2. PageInv'
    BY <1>0, <2>1, StillKeeps DEF PageType, pageVars
  <2>3. QED
    BY <1>9, <2>2, SettingLaunches
<1>10. CASE Show
  <2>1. /\ win' = "shown" /\ UNCHANGED <<mainVars, quitVars, page, pageVars>>
    BY <1>0, <1>10 DEF Show, ShowWindow, PageType
  <2>2. PageInv'
    BY <1>0, <2>1, StillKeeps DEF PageType, pageVars, mainVars, quitVars
  <2>3. LaunchInv'
    BY <2>1, StillLaunches DEF mainVars, quitVars
  <2>4. QED
    BY <2>2, <2>3
<1>11. CASE OpenSettings
  <2>1. UNCHANGED <<mainVars, quitVars>>
    BY <1>11 DEF OpenSettings
  <2>2. LaunchInv'
    BY <2>1, StillLaunches DEF mainVars, quitVars
  <2>3. QED
    BY <1>11, <2>2, OpenSettingsKeeps
<1>12. CASE Hide
  <2>1. win' = "hidden" /\ UNCHANGED <<mainVars, quitVars, page, pageVars>>
    BY <1>12 DEF Hide
  <2>2. PageInv'
    BY <1>0, <2>1, StillKeeps DEF PageType, pageVars, mainVars, quitVars
  <2>3. LaunchInv'
    BY <2>1, StillLaunches DEF mainVars, quitVars
  <2>4. QED
    BY <2>2, <2>3
<1>13. ASSUME NEW ids \in {Tunnels, Governed}, NEW arm \in BOOLEAN, ByHand(ids, arm) PROVE ShellInv'
  <2>1. LaunchInv'
    BY <1>13, ByHandLaunches
  <2>2. UNCHANGED <<proc, mode, hasKey, win, page, pageVars>>
    BY <1>13 DEF ByHand, quitVars
  <2>3. PageInv'
    BY <1>0, <2>2, StillKeeps DEF PageType, pageVars
  <2>4. QED
    BY <2>1, <2>3
<1>14. CASE Quit \/ QuitEarly \/ Drained
  BY <1>14, QuitKeeps
<1>15. CASE UNCHANGED shellVars
  <2>1. UNCHANGED <<mainVars, quitVars, win, page, pageVars>>
    BY <1>15 DEF shellVars
  <2>2. PageInv'
    BY <1>0, <2>1, StillKeeps DEF PageType, pageVars, mainVars, quitVars
  <2>3. LaunchInv'
    BY <2>1, StillLaunches DEF mainVars, quitVars
  <2>4. QED
    BY <2>2, <2>3
<1>16. QED
  BY <1>1, <1>2, <1>3, <1>4, <1>5, <1>6, <1>7, <1>8, <1>9, <1>10, <1>11, <1>12, <1>13, <1>14, <1>15
  DEF ShellNext

(* Launch, unlock, the settings, the page's loads and the quit keep        *)
(* ShellInv (main.js, secret-storage IPC, unlock-prompt.js and the         *)
(* security panel of the settings).                                        *)
THEOREM ShellInductive == ShellSpec => []ShellInv
<1>1. QED
  BY ShellStarts, ShellKeeps, PTL DEF ShellSpec

(* What launch puts off while the store is locked is done once when it is  *)
(* unlocked and never before, startup arming leaves the scheduled tunnels  *)
(* alone, and the prompt and the security panel show the lock as it is,    *)
(* whatever the order of answers, broadcasts, reloads and popups.          *)
THEOREM LaunchHandled == ShellSpec => []LaunchIsHandled
<1>1. ShellInv => LaunchIsHandled
  <2> SUFFICES ASSUME ShellInv PROVE LaunchIsHandled
    OBVIOUS
  <2> USE DEF ShellInv
  <2>1. LaunchArmsOnce
    <3>1. launches <= 1 /\ postponed.arm \in BOOLEAN
      BY DEF LaunchInv
    <3>2. proc = "up" /\ boot.armOnLaunch => (launches = 0) = postponed.arm
      BY <3>1 DEF LaunchInv
    <3>3. QED
      BY <3>1, <3>2 DEF LaunchArmsOnce, LaunchInv
  <2>2. LockIsShown
    <3>1. pipe \in Seq(Messages) /\ popups \in Seq(Popups) /\ panel.locked \in BOOLEAN
      BY DEF PageInv, PageType
    <3>2. DOMAIN pipe = 1 .. Len(pipe) /\ DOMAIN popups = 1 .. Len(popups)
      BY <3>1
    <3>3. page = "live" /\ Locked /\ ~Awaited("prompt") => open \/ later
      BY <3>2 DEF PageInv, PromptGoes, Sent, Awaited
    <3>4. open => \E i \in 1 .. Len(popups) : popups[i] = "unlock"
      BY <3>2 DEF PageInv, PromptGoes
    <3>5. pipe = <<>> => (open => Locked) /\ (panel.read => panel.mode = mode /\ panel.locked = Locked)
      <4>1. SUFFICES ASSUME pipe = <<>>
                     PROVE (open => Locked) /\ (panel.read => panel.mode = mode /\ panel.locked = Locked)
        OBVIOUS
      <4>2. ~Sent(pipe, "all") /\ NoneTold(pipe)
        BY <4>1 DEF Sent, NoneTold
      <4>3. panel.read => panel.mode = mode /\ (panel.locked <=> Locked)
        BY <4>2 DEF PageInv, PanelFollows
      <4>4. Locked \in BOOLEAN
        BY DEF Locked
      <4>5. QED
        BY <3>1, <4>2, <4>3, <4>4 DEF PageInv, PromptGoes
    <3>6. QED
      BY <3>3, <3>4, <3>5 DEF LockIsShown
  <2>3. QED
    BY <2>1, <2>2 DEF LaunchIsHandled
<1>2. QED
  BY <1>1, ShellInductive, PTL
-----------------------------------------------------------------------------
\* The bytes of a SOCKS connection (module Socks).  However they are cut up, the
\* parser has read exactly what the protocol says of the bytes so far: the lemmas
\* below compare one call of each phase with the protocol, for any bytes.
Byte == 0..255

LEMMA CatIs ==
  ASSUME NEW T, NEW s \in Seq(T), NEW t \in Seq(T)
  PROVE  /\ s \o t \in Seq(T) /\ Len(s \o t) = Len(s) + Len(t)
         /\ \A k \in 1..Len(s) : (s \o t)[k] = s[k]
         /\ \A k \in 1..Len(t) : (s \o t)[Len(s) + k] = t[k]
OBVIOUS

LEMMA SubIs ==
  ASSUME NEW T, NEW s \in Seq(T), NEW a \in Nat \ {0}, NEW e \in Nat,
         e <= Len(s), a <= e + 1
  PROVE  /\ SubSeq(s, a, e) \in Seq(T) /\ Len(SubSeq(s, a, e)) = e + 1 - a
         /\ \A k \in 1..(e + 1 - a) : SubSeq(s, a, e)[k] = s[a + k - 1]
OBVIOUS

LEMMA FromIs ==
  ASSUME NEW T, NEW s \in Seq(T), NEW n \in 0..Len(s)
  PROVE  /\ From(s, n) \in Seq(T) /\ Len(From(s, n)) = Len(s) - n
         /\ \A k \in 1..(Len(s) - n) : From(s, n)[k] = s[n + k]
BY DEF From

LEMMA ByteAt ==
  ASSUME NEW b \in Seq(Byte), NEW k \in 1..Len(b)
  PROVE  b[k] \in Byte /\ b[k] \in Nat /\ b[k] < 256 /\ Len(b) \in Nat
<1>1. b[k] \in Byte /\ Len(b) \in Nat
  OBVIOUS
<1>2. \A x \in Byte : x \in Nat /\ x < 256
  BY DEF Byte
<1> QED
  BY <1>1, <1>2

\* The two bytes of a port.
LEMMA PortIs ==
  ASSUME NEW a \in Byte, NEW b \in Byte
  PROVE  (256 * a + b) \div 256 = a /\ (256 * a + b) % 256 = b
BY DEF Byte

\* A greeting that offers no-auth stands at the start of b, up to its byte i.
GreetingIn(b, i) == i \in 2..Len(b) /\ IsGreeting(SubSeq(b, 1, i))

Greeted(b) ==
  /\ Len(b) >= 2 /\ b[1] = 5 /\ Len(b) >= 2 + b[2]
  /\ \E k \in 3..(2 + b[2]) : b[k] = 0

\* The parser sees a greeting where the protocol has one.
LEMMA GreetingIs ==
  ASSUME NEW b \in Seq(Byte), NEW i
  PROVE  GreetingIn(b, i) <=> Greeted(b) /\ i = 2 + b[2]
<1>1. ASSUME i \in 2..Len(b)
      PROVE  IsGreeting(SubSeq(b, 1, i)) <=> Greeted(b) /\ i = 2 + b[2]
  <2> DEFINE g == SubSeq(b, 1, i)
  <2>1. Len(b) \in Nat /\ i \in Nat /\ 2 <= i /\ i <= Len(b)
    BY <1>1
  <2>2. Len(g) = i /\ \A k \in 1..i : g[k] = b[k]
    BY <2>1, SubIs
  <2> HIDE DEF g
  <2>3. g[1] = b[1] /\ g[2] = b[2] /\ b[2] \in Nat
    BY <2>1, <2>2, ByteAt
  <2>4. ASSUME i = 2 + b[2]
        PROVE  (\E k \in 3..i : g[k] = 0) <=> (\E k \in 3..(2 + b[2]) : b[k] = 0)
    BY <2>1, <2>2, <2>4
  <2> QED
    BY <2>1, <2>2, <2>3, <2>4 DEF IsGreeting, Greeted, Ver, g
<1>2. Greeted(b) => 2 + b[2] \in 2..Len(b)
  <2>1. Len(b) \in Nat /\ (Len(b) >= 2 => b[2] \in Nat)
    BY ByteAt
  <2> QED
    BY <2>1 DEF Greeted
<1> QED
  BY <1>1, <1>2 DEF GreetingIn

LEMMA GreetingParsed ==
  ASSUME NEW b \in Seq(Byte)
  PROVE  /\ Greeted(b) => ParseGreeting(b) = [status |-> "greeting", buf |-> From(b, 2 + b[2]),
                                              send |-> <<5, 0>>]
         /\ ~Greeted(b) =>
              /\ ParseGreeting(b).status \in {"need-more", "error"}
              /\ ParseGreeting(b).status = "need-more" => ParseGreeting(b) = NeedMore(b)
<1>1. CASE Greeted(b)
  <2>1. ~(Len(b) < 2) /\ b[1] = Ver /\ ~(Len(b) < 2 + b[2])
    <3>1. Len(b) \in Nat /\ (Len(b) >= 2 => b[2] \in Nat)
      BY ByteAt
    <3> QED
      BY <1>1, <3>1 DEF Greeted, Ver
  <2>2. \E i \in 3..(2 + b[2]) : b[i] = 0
    BY <1>1 DEF Greeted
  <2> QED
    BY <1>1, <2>1, <2>2 DEF ParseGreeting, Ver
<1>2. CASE ~Greeted(b)
  <2>1. CASE Len(b) < 2
    BY <1>2, <2>1 DEF ParseGreeting, NeedMore
  <2>2. CASE ~(Len(b) < 2) /\ b[1] # Ver
    BY <1>2, <2>2 DEF ParseGreeting, Failed
  <2>3. CASE ~(Len(b) < 2) /\ b[1] = Ver /\ Len(b) < 2 + b[2]
    BY <1>2, <2>3 DEF ParseGreeting, NeedMore
  <2>4. CASE ~(Len(b) < 2) /\ b[1] = Ver /\ ~(Len(b) < 2 + b[2])
    <3>3. Len(b) \in Nat
      OBVIOUS
    <3>1. Len(b) \in Nat /\ b[2] \in Nat
      BY <2>4, <3>3, ByteAt
    <3>2. ~\E i \in 3..(2 + b[2]) : b[i] = 0
      BY <1>2, <2>4, <3>1 DEF Greeted, Ver
    <3> QED
      BY <1>2, <2>4, <3>2 DEF ParseGreeting, Failed
  <2> QED
    BY <2>1, <2>2, <2>3, <2>4
<1> QED
  BY <1>1, <1>2

\* A CONNECT request stands at the start of c, up to its byte n.
RequestIn(c, n) ==
  /\ n \in 7..Len(c)
  /\ IsConnect(SubSeq(c, 1, n), Destination(SubSeq(c, 1, n), n - 2))

EndOf(c) == IF c[4] = 1 THEN 8 ELSE IF c[4] = 4 THEN 20 ELSE 5 + c[5]

Asks(c) ==
  /\ Len(c) >= 4 /\ c[1] = 5 /\ c[2] = 1 /\ c[4] \in {1, 3, 4}
  /\ c[4] = 3 => Len(c) >= 5
  /\ Len(c) >= EndOf(c) + 2

LEMMA RequestParsed ==
  ASSUME NEW c \in Seq(Byte)
  PROVE  /\ Asks(c) => ParseRequest(c) =
              [status |-> "request", buf |-> <<>>, send |-> <<>>,
               dst |-> Destination(c, EndOf(c)), leftover |-> From(c, EndOf(c) + 2)]
         /\ ~Asks(c) =>
              \/ ParseRequest(c) = NeedMore(c)
              \/ \E rep \in {1, 8} : ParseRequest(c) = Failed(c, <<>>, rep)
              \/ ParseRequest(c) = Failed(<<>>, <<>>, 7)
<1>1. Len(c) \in Nat /\ (Len(c) >= 5 => c[5] \in Nat)
  BY ByteAt
<1>2. CASE Len(c) < 4
  BY <1>1, <1>2 DEF ParseRequest, NeedMore, Asks
<1>3. CASE ~(Len(c) < 4) /\ c[1] # Ver
  BY <1>1, <1>3 DEF ParseRequest, Failed, Asks, Ver
<1>4. CASE ~(Len(c) < 4) /\ c[1] = Ver /\ c[4] \notin AddressTypes
  BY <1>1, <1>4 DEF ParseRequest, Failed, Asks, AddressTypes
<1>5. CASE ~(Len(c) < 4) /\ c[1] = Ver /\ c[4] \in AddressTypes
  <2> DEFINE end == AddressEnd(c)
             all == ~(end = 0 \/ Len(c) < end + 2)
  <2>1. /\ all => end = EndOf(c)
        /\ all <=> (c[4] = 3 => Len(c) >= 5) /\ Len(c) >= EndOf(c) + 2
    <3>1. CASE c[4] = 1
      BY <1>1, <3>1 DEF AddressEnd, EndOf
    <3>2. CASE c[4] = 4
      BY <1>1, <3>2 DEF AddressEnd, EndOf
    <3>3. CASE c[4] = 3 /\ Len(c) < 5
      BY <1>1, <3>3 DEF AddressEnd, EndOf
    <3>4. CASE c[4] = 3 /\ ~(Len(c) < 5)
      BY <1>1, <3>4 DEF AddressEnd, EndOf
    <3> QED
      BY <1>5, <3>1, <3>2, <3>3, <3>4 DEF AddressTypes
  <2>2. ParseRequest(c) =
          IF ~all THEN NeedMore(c)
          ELSE IF c[2] # Connect THEN Failed(<<>>, <<>>, 7)
          ELSE [status |-> "request", buf |-> <<>>, send |-> <<>>,
                dst |-> Destination(c, end), leftover |-> From(c, end + 2)]
    BY <1>5 DEF ParseRequest
  <2>3. Asks(c) <=> all /\ c[2] = Connect
    BY <1>1, <1>5, <2>1 DEF Asks, Connect, Ver, AddressTypes
  <2> HIDE DEF end, all
  <2>4. CASE Asks(c)
    BY <2>1, <2>2, <2>3, <2>4
  <2>5. CASE ~Asks(c) /\ all
    BY <2>2, <2>3, <2>5 DEF Failed
  <2>6. CASE ~Asks(c) /\ ~all
    BY <2>2, <2>6 DEF NeedMore
  <2> QED
    BY <2>4, <2>5, <2>6
<1> QED
  BY <1>2, <1>3, <1>4, <1>5

\* The destination is the same whether or not bytes follow the request.
LEMMA DestinationIs ==
  ASSUME NEW c \in Seq(Byte), NEW n \in 7..Len(c)
  PROVE  Destination(SubSeq(c, 1, n), n - 2) = Destination(c, n - 2)
<1> DEFINE q == SubSeq(c, 1, n)
           a == IF c[4] = 3 THEN 6 ELSE 5
<1>1. Len(c) \in Nat /\ n \in Nat /\ 7 <= n /\ n <= Len(c)
  OBVIOUS
<1>2. q \in Seq(Byte) /\ Len(q) = n /\ \A k \in 1..n : q[k] = c[k]
  BY <1>1, SubIs
<1> HIDE DEF q
<1>3. q[4] = c[4] /\ q[n - 1] = c[n - 1] /\ q[n] = c[n]
  BY <1>1, <1>2
<1>4. a \in Nat \ {0} /\ a <= 6
  OBVIOUS
<1> HIDE DEF a
<1>5. SubSeq(q, a, n - 2) = SubSeq(c, a, n - 2)
  <2>1. n - 2 \in Nat /\ n - 2 <= Len(c) /\ n - 2 <= Len(q) /\ a <= (n - 2) + 1
    BY <1>1, <1>2, <1>4
  <2>2. /\ SubSeq(c, a, n - 2) \in Seq(Byte) /\ SubSeq(q, a, n - 2) \in Seq(Byte)
        /\ Len(SubSeq(c, a, n - 2)) = (n - 2) + 1 - a
        /\ Len(SubSeq(q, a, n - 2)) = (n - 2) + 1 - a
        /\ \A k \in 1..((n - 2) + 1 - a) :
             SubSeq(q, a, n - 2)[k] = q[a + k - 1] /\ SubSeq(c, a, n - 2)[k] = c[a + k - 1]
    BY <1>2, <1>4, <2>1, SubIs
  <2>3. \A k \in 1..((n - 2) + 1 - a) : a + k - 1 \in 1..n
    BY <1>1, <1>4
  <2> QED
    BY <1>2, <2>2, <2>3, SeqEqual
<1>6. n - 2 + 1 = n - 1 /\ n - 2 + 2 = n
  BY <1>1
<1> QED
  BY <1>3, <1>5, <1>6 DEF Destination, q, a


LEMMA BytesAreNumbers ==
  ASSUME NEW q \in Seq(Byte)
  PROVE  q \in Seq(Nat)
<1>1. Byte \subseteq Nat
  BY DEF Byte
<1> QED
  BY <1>1, SeqMonotonic

StartsWith(q, H) == \A k \in 1..Len(H) : q[k] = H[k]

Around(q, H) ==
  (H \o SubSeq(q, Len(H) + 1, Len(q) - 2)) \o <<q[Len(q) - 1], q[Len(q)]>>

\* A sequence is its head, its middle and its last two elements.
LEMMA ThreePieces ==
  ASSUME NEW q \in Seq(Nat), NEW H \in Seq(Nat), NEW h \in Nat, NEW n \in Nat,
         Len(H) = h, Len(q) = n, h + 2 <= n
  PROVE  q = Around(q, H) <=> StartsWith(q, H)
<1> DEFINE m == SubSeq(q, h + 1, n - 2)
           P == <<q[n - 1], q[n]>>
           s == H \o m
           t == s \o P
<1>1. /\ h + 1 \in Nat \ {0} /\ n - 2 \in Nat /\ n - 2 <= Len(q) /\ h + 1 <= (n - 2) + 1
      /\ (n - 2) + 1 - (h + 1) = n - 2 - h
  OBVIOUS
<1>2. m \in Seq(Nat) /\ Len(m) = n - 2 - h /\ \A k \in 1..(n - 2 - h) : m[k] = q[(h + 1) + k - 1]
  BY <1>1, SubIs
<1>3. n - 1 \in 1..Len(q) /\ n \in 1..Len(q)
  OBVIOUS
<1>4. q[n - 1] \in Nat /\ q[n] \in Nat
  BY <1>3
<1>5. P \in Seq(Nat) /\ Len(P) = 2 /\ P[1] = q[n - 1] /\ P[2] = q[n]
  BY <1>4
<1> HIDE DEF m, P
<1>6. /\ s \in Seq(Nat) /\ Len(s) = n - 2
      /\ \A k \in 1..h : s[k] = H[k]
      /\ \A k \in 1..(n - 2 - h) : s[h + k] = m[k]
  <2>1. Len(s) = Len(H) + Len(m) /\ s \in Seq(Nat)
    BY <1>2, CatIs
  <2>2. \A k \in 1..Len(H) : s[k] = H[k]
    BY <1>2, CatIs
  <2>3. \A k \in 1..Len(m) : s[Len(H) + k] = m[k]
    BY <1>2, CatIs
  <2> HIDE DEF s
  <2> QED
    BY <1>2, <2>1, <2>2, <2>3
<1> HIDE DEF s
<1>7. /\ t \in Seq(Nat) /\ Len(t) = n
      /\ \A k \in 1..(n - 2) : t[k] = s[k]
      /\ t[n - 1] = q[n - 1] /\ t[n] = q[n]
  <2>6. s \in Seq(Nat) /\ P \in Seq(Nat)
    BY <1>5, <1>6
  <2>1. Len(t) = Len(s) + Len(P) /\ t \in Seq(Nat)
    BY <2>6, CatIs
  <2>2. \A k \in 1..Len(s) : t[k] = s[k]
    BY <2>6, CatIs
  <2>3. \A k \in 1..Len(P) : t[Len(s) + k] = P[k]
    BY <2>6, CatIs
  <2> HIDE DEF t
  <2>4. t[(n - 2) + 1] = P[1] /\ t[(n - 2) + 2] = P[2]
    BY <1>5, <1>6, <2>3
  <2>5. (n - 2) + 1 = n - 1 /\ (n - 2) + 2 = n
    OBVIOUS
  <2> QED
    BY <1>5, <1>6, <2>1, <2>2, <2>4, <2>5
<1> HIDE DEF t
<1>8. \A k \in (h + 1)..(n - 2) : t[k] = q[k]
  <2> SUFFICES ASSUME NEW k \in (h + 1)..(n - 2) PROVE t[k] = q[k]
    OBVIOUS
  <2>1. k - h \in 1..(n - 2 - h) /\ h + (k - h) = k /\ (h + 1) + (k - h) - 1 = k /\ k \in 1..(n - 2)
    OBVIOUS
  <2>2. m[k - h] = q[(h + 1) + (k - h) - 1]
    BY <1>2, <2>1
  <2>3. s[h + (k - h)] = m[k - h]
    BY <1>6, <2>1
  <2>4. t[k] = s[k]
    BY <1>7, <2>1
  <2> QED
    BY <2>1, <2>2, <2>3, <2>4
<1>9. \A k \in 1..h : t[k] = H[k]
  <2>1. \A k \in 1..h : k \in 1..(n - 2)
    OBVIOUS
  <2> QED
    BY <1>6, <1>7, <2>1
<1>10. ASSUME \A k \in 1..h : q[k] = H[k]
       PROVE  q = t
  <2>1. \A k \in 1..n : k \in 1..h \/ k \in (h + 1)..(n - 2) \/ k = n - 1 \/ k = n
    OBVIOUS
  <2>2. \A k \in 1..Len(q) : q[k] = t[k]
    BY <1>7, <1>8, <1>9, <1>10, <2>1
  <2> QED
    BY <1>7, <2>2, SeqEqual
<1>11. ASSUME q = t
       PROVE  \A k \in 1..h : q[k] = H[k]
  BY <1>9, <1>11
<1> QED
  BY <1>10, <1>11 DEF t, s, m, P, StartsWith, Around

\* The parser sees a request where the protocol has one.
LEMMA RequestIs ==
  ASSUME NEW c \in Seq(Byte), NEW n
  PROVE  RequestIn(c, n) <=> Asks(c) /\ n = EndOf(c) + 2
<1>0. Len(c) \in Nat /\ (Len(c) >= 5 => c[5] \in Nat)
  BY ByteAt
<1>1. Asks(c) => EndOf(c) + 2 \in 7..Len(c)
  BY <1>0 DEF Asks, EndOf
<1>2. ASSUME n \in 7..Len(c)
      PROVE  IsConnect(SubSeq(c, 1, n), Destination(SubSeq(c, 1, n), n - 2))
               <=> Asks(c) /\ n = EndOf(c) + 2
  <2> DEFINE q == SubSeq(c, 1, n)
             d == Destination(q, n - 2)
             a == IF c[4] = 3 THEN 5 ELSE 4
  <2>1. n \in Nat /\ 7 <= n /\ n <= Len(c) /\ c[5] \in Nat
    BY <1>0, <1>2
  <2>2. q \in Seq(Byte) /\ Len(q) = n /\ \A k \in 1..n : q[k] = c[k]
    BY <2>1, SubIs
  <2> HIDE DEF q
  <2>3. q[1] = c[1] /\ q[2] = c[2] /\ q[3] = c[3] /\ q[4] = c[4] /\ q[5] = c[5]
    BY <2>1, <2>2
  <2>4. a \in Nat /\ a <= 5 /\ a + 2 <= n
    BY <2>1
  <2>5. q[n - 1] \in Byte /\ q[n] \in Byte
    BY <2>1, <2>2
  <2>6. q \in Seq(Nat)
    BY <2>2, BytesAreNumbers
  <2>7. /\ d.atyp = c[4] /\ d.addr = SubSeq(q, a + 1, n - 2)
        /\ d.port \div 256 = q[n - 1] /\ d.port % 256 = q[n]
    <3>1. n - 2 + 1 = n - 1 /\ n - 2 + 2 = n
      BY <2>1
    <3>2. d.atyp = c[4] /\ d.port = 256 * q[n - 1] + q[n]
      BY <2>3, <3>1 DEF Destination
    <3>4. a + 1 = IF q[4] = 3 THEN 6 ELSE 5
      BY <2>3
    <3>3. d.addr = SubSeq(q, a + 1, n - 2)
      BY <3>4 DEF Destination
    <3> QED
      BY <2>5, <3>2, <3>3, PortIs
  <2>8. Len(d.addr) = n - 2 - a
    <3>1. /\ a + 1 \in Nat \ {0} /\ n - 2 \in Nat /\ n - 2 <= Len(q) /\ a + 1 <= (n - 2) + 1
          /\ (n - 2) + 1 - (a + 1) = n - 2 - a
      BY <2>1, <2>2, <2>4
    <3> HIDE DEF a, d
    <3>2. Len(SubSeq(q, a + 1, n - 2)) = (n - 2) + 1 - (a + 1)
      BY <2>6, <3>1, SubIs
    <3> QED
      BY <2>7, <3>1, <3>2
  <2> DEFINE H == IF c[4] = 3 THEN <<5, 1, q[3], c[4], n - 7>> ELSE <<5, 1, q[3], c[4]>>
  <2>9. q[3] \in Nat /\ c[4] \in Nat
    <3>1. q[3] \in Nat /\ q[4] \in Nat
      BY <2>1, <2>2, <2>6
    <3> QED
      BY <2>3, <3>1
  <2>10. H \in Seq(Nat) /\ Len(H) = a
    BY <2>1, <2>9
  <2>11. <<Ver, Connect, q[3], d.atyp>>
           \o (IF d.atyp = 3 THEN <<Len(d.addr)>> ELSE <<>>) = H
    <3>1. CASE c[4] = 3
      <4>1. n - 2 - a = n - 7
        BY <2>1, <3>1
      <4>2. <<5, 1, q[3], c[4]>> \o <<n - 7>> = <<5, 1, q[3], c[4], n - 7>>
        <5>1. /\ <<5, 1, q[3], c[4]>> \in Seq(Nat) /\ <<n - 7>> \in Seq(Nat)
              /\ Len(<<5, 1, q[3], c[4]>>) = 4 /\ Len(<<n - 7>>) = 1
          BY <2>1, <2>9
        <5>2. <<5, 1, q[3], c[4], n - 7>> \in Seq(Nat) /\ Len(<<5, 1, q[3], c[4], n - 7>>) = 5
          BY <2>1, <2>9
        <5> DEFINE j == <<5, 1, q[3], c[4]>> \o <<n - 7>>
        <5>3. j \in Seq(Nat) /\ Len(j) = 5
          BY <5>1, CatIs
        <5>4. \A k \in 1..4 : j[k] = <<5, 1, q[3], c[4]>>[k]
          BY <5>1, CatIs
        <5>5. \A k \in 1..1 : j[4 + k] = <<n - 7>>[k]
          BY <5>1, CatIs
        <5> HIDE DEF j
        <5>6. j[1] = 5 /\ j[2] = 1 /\ j[3] = q[3] /\ j[4] = c[4]
          BY <5>4
        <5>7. j[5] = n - 7
          BY <5>5
        <5>8. \A k \in 1..Len(j) : j[k] = <<5, 1, q[3], c[4], n - 7>>[k]
          BY <5>3, <5>6, <5>7
        <5>9. j = <<5, 1, q[3], c[4], n - 7>>
          BY <5>2, <5>3, <5>8, SeqEqual
        <5> QED
          BY <5>9 DEF j
      <4> QED
        BY <2>7, <2>8, <3>1, <4>1, <4>2 DEF Ver, Connect
    <3>2. CASE c[4] # 3
      <4>1. <<5, 1, q[3], c[4]>> \o << >> = <<5, 1, q[3], c[4]>>
        BY <2>9
      <4> QED
        BY <2>7, <3>2, <4>1 DEF Ver, Connect
    <3> QED
      BY <3>1, <3>2
  <2>12. StartsWith(q, H) <=> c[1] = 5 /\ c[2] = 1 /\ (c[4] = 3 => c[5] = n - 7)
    <3>1. CASE c[4] = 3
      BY <2>3, <3>1 DEF StartsWith
    <3>2. CASE c[4] # 3
      BY <2>3, <3>2 DEF StartsWith
    <3> QED
      BY <3>1, <3>2
  <2> HIDE DEF H, a, d
  <2>17. n \in Nat /\ a \in Nat /\ Len(H) = a /\ Len(q) = n /\ a + 2 <= n
    BY <2>1, <2>2, <2>4, <2>10
  <2>13. q = Around(q, H) <=> StartsWith(q, H)
    BY <2>6, <2>10, <2>17, ThreePieces
  <2>18. Around(q, H) = (H \o SubSeq(q, a + 1, n - 2)) \o <<q[n - 1], q[n]>>
    BY <2>17 DEF Around
  <2>14. IsConnect(q, d) <=>
           /\ StartsWith(q, H)
           /\ \/ c[4] = 1 /\ n - 2 - a = 4
              \/ c[4] = 3
              \/ c[4] = 4 /\ n - 2 - a = 16
    BY <2>7, <2>8, <2>11, <2>13, <2>18 DEF IsConnect
  <2>15. IsConnect(q, d) <=>
           /\ c[1] = 5 /\ c[2] = 1
           /\ \/ c[4] = 1 /\ n = 10
              \/ c[4] = 3 /\ c[5] = n - 7
              \/ c[4] = 4 /\ n = 22
    BY <2>1, <2>12, <2>14 DEF a
  <2>16. Asks(c) /\ n = EndOf(c) + 2 <=>
           /\ c[1] = 5 /\ c[2] = 1
           /\ \/ c[4] = 1 /\ n = 10
              \/ c[4] = 3 /\ c[5] = n - 7
              \/ c[4] = 4 /\ n = 22
    BY <1>0, <2>1 DEF Asks, EndOf
  <2> QED
    BY <2>15, <2>16 DEF q, d
<1> QED
  BY <1>1, <1>2 DEF RequestIn

-----------------------------------------------------------------------------
\* What the bytes b a client has sent so far come to.
Rest(b) == From(b, 2 + b[2])
HasRequest(b) == Greeted(b) /\ Asks(Rest(b))
Wanted(b) == Destination(Rest(b), EndOf(Rest(b)))
Leftover(b) == From(Rest(b), EndOf(Rest(b)) + 2)

Heard == SubSeq(stream, 1, got)

\* While the handshake lasts, the parser's buffer is what it has not used.
Reading ==
  /\ asked = <<>> /\ passed = <<>>
  /\ \/ ~Greeted(Heard) /\ hs = [buf |-> Heard, phase |-> "greeting"] /\ wrote = <<>>
     \/ /\ Greeted(Heard) /\ ~Asks(Rest(Heard)) /\ wrote = <<5, 0>>
        /\ hs = [buf |-> Rest(Heard), phase |-> "request"]

SocksInv ==
  /\ stream \in Seq(Byte) /\ got \in 0..Len(stream)
  /\ link = "handshake" => Reading
  /\ asked = <<>> => ~HasRequest(Heard) /\ link \notin {"opening", "open"}
  /\ asked # <<>> =>
       /\ HasRequest(Heard) /\ asked = <<Wanted(Heard)>> /\ SubSeq(wrote, 1, 2) = <<5, 0>>
       /\ link = "opening" => wrote = <<5, 0>> /\ held = Leftover(Heard) /\ passed = <<>>
       /\ link = "open" => passed = Leftover(Heard)

\* More bytes at the end leave what was read as it was.
LEMMA FromGrows ==
  ASSUME NEW b \in Seq(Byte), NEW d \in Seq(Byte), NEW n \in 0..Len(b)
  PROVE  From(b \o d, n) = From(b, n) \o d
<1> DEFINE s == b \o d
           f == From(b, n)
           l == From(s, n)
           r == f \o d
<1>1. Len(b) \in Nat /\ Len(d) \in Nat /\ n \in Nat /\ n <= Len(b)
  OBVIOUS
<1>2. s \in Seq(Byte) /\ Len(s) = Len(b) + Len(d)
  BY ConcatProperties
<1>3. \A k \in 1..(Len(b) + Len(d)) : s[k] = IF k <= Len(b) THEN b[k] ELSE d[k - Len(b)]
  BY ConcatProperties
<1>4. f \in Seq(Byte) /\ Len(f) = Len(b) - n
  BY FromIs
<1>5. \A k \in 1..(Len(b) - n) : f[k] = b[n + k]
  BY FromIs
<1> HIDE DEF s, f
<1>6. n \in 0..Len(s)
  BY <1>1, <1>2
<1>7. l \in Seq(Byte) /\ Len(l) = Len(s) - n
  BY <1>2, <1>6, FromIs
<1>8. \A k \in 1..(Len(s) - n) : l[k] = s[n + k]
  BY <1>2, <1>6, FromIs
<1>9. r \in Seq(Byte) /\ Len(r) = Len(f) + Len(d)
  BY <1>4, ConcatProperties
<1>10. \A k \in 1..(Len(f) + Len(d)) : r[k] = IF k <= Len(f) THEN f[k] ELSE d[k - Len(f)]
  BY <1>4, ConcatProperties
<1> HIDE DEF l, r
<1>11. Len(l) = Len(r)
  BY <1>1, <1>2, <1>4, <1>7, <1>9
<1>12. ASSUME NEW k \in 1..Len(l)
       PROVE  l[k] = r[k]
  <2>1. k \in Nat /\ k \in 1..(Len(s) - n) /\ k \in 1..(Len(f) + Len(d)) /\ n + k \in 1..(Len(b) + Len(d))
    BY <1>1, <1>2, <1>4, <1>7
  <2>2. l[k] = IF n + k <= Len(b) THEN b[n + k] ELSE d[(n + k) - Len(b)]
    BY <1>3, <1>8, <2>1
  <2>3. r[k] = IF k <= Len(f) THEN f[k] ELSE d[k - Len(f)]
    BY <1>10, <2>1
  <2>4. CASE n + k <= Len(b)
    <3>1. k <= Len(f) /\ k \in 1..(Len(b) - n)
      BY <1>1, <1>4, <2>1, <2>4
    <3> QED
      BY <1>5, <2>2, <2>3, <2>4, <3>1
  <2>5. CASE ~(n + k <= Len(b))
    <3>1. ~(k <= Len(f)) /\ (n + k) - Len(b) = k - Len(f)
      BY <1>1, <1>4, <2>1, <2>5
    <3> QED
      BY <2>2, <2>3, <2>5, <3>1
  <2> QED
    BY <2>4, <2>5
<1> QED
  BY <1>7, <1>9, <1>11, <1>12, SeqEqual DEF l, r, s, f

LEMMA GreetedFits ==
  ASSUME NEW b \in Seq(Byte), Greeted(b)
  PROVE  b[2] \in Nat /\ 2 + b[2] \in 0..Len(b) /\ Rest(b) \in Seq(Byte)
<1>1. Len(b) \in Nat /\ Len(b) >= 2
  BY DEF Greeted
<1>2. b[2] \in Nat /\ 2 + b[2] \in 0..Len(b)
  BY <1>1, ByteAt DEF Greeted
<1>3. From(b, 2 + b[2]) \in Seq(Byte)
  BY <1>2, FromIs
<1> QED
  BY <1>2, <1>3 DEF Rest

LEMMA GreetedStays ==
  ASSUME NEW b \in Seq(Byte), NEW d \in Seq(Byte), Greeted(b)
  PROVE  Greeted(b \o d) /\ Rest(b \o d) = Rest(b) \o d /\ Rest(b) \in Seq(Byte)
<1> DEFINE s == b \o d
<1>1. Len(b) \in Nat /\ Len(d) \in Nat /\ Len(b) >= 2
  BY DEF Greeted
<1>2. b[2] \in Nat /\ 2 + b[2] \in 0..Len(b) /\ Rest(b) \in Seq(Byte)
  BY GreetedFits
<1>3. Len(s) = Len(b) + Len(d)
  BY CatIs
<1>4. \A k \in 1..Len(b) : s[k] = b[k]
  BY CatIs
<1> HIDE DEF s
<1>5. s[1] = b[1] /\ s[2] = b[2] /\ Len(s) >= Len(b)
  BY <1>1, <1>3, <1>4
<1>6. \E k \in 3..(2 + s[2]) : s[k] = 0
  <2>1. PICK k \in 3..(2 + b[2]) : b[k] = 0
    BY DEF Greeted
  <2>2. k \in 1..Len(b)
    BY <1>1, <1>2
  <2> QED
    BY <1>4, <1>5, <2>1, <2>2
<1>7. Greeted(s)
  BY <1>1, <1>2, <1>3, <1>5, <1>6 DEF Greeted
<1>8. From(b \o d, 2 + b[2]) = From(b, 2 + b[2]) \o d
  BY <1>2, FromGrows
<1> QED
  BY <1>2, <1>5, <1>7, <1>8 DEF Rest, s

LEMMA AskedEnd ==
  ASSUME NEW c \in Seq(Byte), Asks(c)
  PROVE  EndOf(c) + 2 \in 7..Len(c)
<1>0. Len(c) \in Nat /\ (Len(c) >= 5 => c[5] \in Nat)
  BY ByteAt
<1> QED
  BY <1>0 DEF Asks, EndOf

LEMMA AsksStays ==
  ASSUME NEW c \in Seq(Byte), NEW d \in Seq(Byte), Asks(c)
  PROVE  /\ Asks(c \o d) /\ EndOf(c \o d) = EndOf(c)
         /\ Destination(c \o d, EndOf(c)) = Destination(c, EndOf(c))
<1> DEFINE s == c \o d
           n == EndOf(c) + 2
<1>0. Len(c) \in Nat /\ Len(d) \in Nat /\ n \in 7..Len(c)
  BY AskedEnd
<1>1. n \in Nat /\ 7 <= n /\ n <= Len(c) /\ EndOf(c) = n - 2
  <2>1. EndOf(c) \in Nat
    <3>1. Len(c) >= 5 => c[5] \in Nat
      BY <1>0, ByteAt
    <3> QED
      BY <3>1 DEF EndOf, Asks
  <2> QED
    BY <1>0, <2>1
<1> HIDE DEF n
<1>2. s \in Seq(Byte) /\ Len(s) = Len(c) + Len(d)
  BY CatIs
<1>3. \A k \in 1..Len(c) : s[k] = c[k]
  BY CatIs
<1>4. SubSeq(s, 1, n) = SubSeq(c, 1, n)
  <2>1. 1 \in 1..Len(c) /\ n \in 1..Len(c)
    BY <1>0, <1>1
  <2> QED
    BY <2>1, SubSeqOfConcat1
<1> HIDE DEF s
<1>5. s[1] = c[1] /\ s[2] = c[2] /\ s[4] = c[4] /\ s[5] = c[5] /\ Len(s) >= Len(c)
  BY <1>0, <1>1, <1>2, <1>3
<1>6. EndOf(s) = EndOf(c)
  BY <1>5 DEF EndOf
<1>7. Asks(s)
  BY <1>0, <1>1, <1>2, <1>5, <1>6 DEF Asks
<1>8. Destination(s, n - 2) = Destination(c, n - 2)
  <2>1. n \in 7..Len(c) /\ n \in 7..Len(s)
    BY <1>0, <1>1, <1>2
  <2>2. Destination(SubSeq(c, 1, n), n - 2) = Destination(c, n - 2)
    BY <2>1, DestinationIs
  <2>3. Destination(SubSeq(s, 1, n), n - 2) = Destination(s, n - 2)
    BY <1>2, <2>1, DestinationIs
  <2> QED
    BY <1>4, <2>2, <2>3
<1> QED
  BY <1>1, <1>6, <1>7, <1>8 DEF s

LEMMA RequestStays ==
  ASSUME NEW b \in Seq(Byte), NEW d \in Seq(Byte), HasRequest(b)
  PROVE  /\ HasRequest(b \o d) /\ Wanted(b \o d) = Wanted(b)
         /\ Leftover(b \o d) = Leftover(b) \o d
<1>1. Greeted(b \o d) /\ Rest(b \o d) = Rest(b) \o d /\ Rest(b) \in Seq(Byte) /\ Asks(Rest(b))
  BY GreetedStays DEF HasRequest
<1> DEFINE c == Rest(b)
<1> HIDE DEF c
<1>2. c \in Seq(Byte) /\ Asks(c) /\ Rest(b \o d) = c \o d
  BY <1>1 DEF c
<1>3. /\ Asks(c \o d) /\ EndOf(c \o d) = EndOf(c)
      /\ Destination(c \o d, EndOf(c)) = Destination(c, EndOf(c))
  BY <1>2, AsksStays
<1>4. EndOf(c) + 2 \in 0..Len(c)
  <2>1. EndOf(c) + 2 \in 7..Len(c)
    BY <1>2, AskedEnd
  <2> QED
    BY <2>1
<1>5. From(c \o d, EndOf(c) + 2) = From(c, EndOf(c) + 2) \o d
  BY <1>2, <1>4, FromGrows
<1>6. Wanted(b \o d) = Destination(c, EndOf(c)) /\ Leftover(b \o d) = From(c, EndOf(c) + 2) \o d
  BY <1>2, <1>3, <1>5 DEF Wanted, Leftover
<1> QED
  BY <1>1, <1>2, <1>3, <1>6 DEF HasRequest, Wanted, Leftover, c

\* One call of feed(): b is what the parser has not used, with the new bytes.
LEMMA StepOnGreeting ==
  ASSUME NEW h, NEW chunk, NEW b \in Seq(Byte), h.phase = "greeting", h.buf \o chunk = b
  PROVE  /\ ~Greeted(b) =>
              /\ Step(h, chunk).phase = "greeting"
              /\ Step(h, chunk).reply.status \in {"need-more", "error"}
              /\ Step(h, chunk).reply.status = "need-more" => Step(h, chunk).reply = NeedMore(b)
         /\ Greeted(b) => Step(h, chunk) =
              [phase |-> "request", reply |-> [ParseRequest(Rest(b)) EXCEPT !.send = <<5, 0>>]]
<1>1. CASE Greeted(b)
  <2>1. ParseGreeting(b) = [status |-> "greeting", buf |-> Rest(b), send |-> <<5, 0>>]
    BY <1>1, GreetingParsed DEF Rest
  <2>2. Step(h, chunk) =
          [phase |-> "request", reply |-> [ParseRequest(Rest(b)) EXCEPT !.send = <<5, 0>>]]
    BY <2>1 DEF Step
  <2> QED
    BY <1>1, <2>2
<1>2. CASE ~Greeted(b)
  <2>1. /\ ParseGreeting(b).status \in {"need-more", "error"}
        /\ ParseGreeting(b).status = "need-more" => ParseGreeting(b) = NeedMore(b)
    BY <1>2, GreetingParsed
  <2>2. Step(h, chunk) = [phase |-> "greeting", reply |-> ParseGreeting(b)]
    BY <2>1 DEF Step
  <2>3. Step(h, chunk).phase = "greeting" /\ Step(h, chunk).reply = ParseGreeting(b)
    BY <2>2
  <2> QED
    BY <1>2, <2>1, <2>3
<1> QED
  BY <1>1, <1>2

LEMMA StepOnRequest ==
  ASSUME NEW h, NEW chunk, NEW b, h.phase = "request", h.buf \o chunk = b
  PROVE  Step(h, chunk) = [phase |-> "request", reply |-> ParseRequest(b)]
BY DEF Step

-----------------------------------------------------------------------------
LEMMA HeardGrows ==
  ASSUME stream \in Seq(Byte), got \in 0..Len(stream), NEW n \in 1..Len(stream),
         got + n <= Len(stream)
  PROVE  /\ Heard \in Seq(Byte) /\ Chunk(n) \in Seq(Byte)
         /\ SubSeq(stream, 1, got + n) = Heard \o Chunk(n)
         /\ got + n \in 0..Len(stream)
<1>1. /\ Len(stream) \in Nat /\ got \in Nat /\ n \in Nat /\ got + n \in Nat
      /\ got <= Len(stream) /\ 1 <= got + 1 /\ got + 1 <= (got + n) + 1
      /\ got + 1 \in Nat \ {0} /\ got + n \in 0..Len(stream)
  OBVIOUS
<1>2. 1 \in 1..(Len(stream) + 1) /\ got \in (1 - 1)..Len(stream) /\ got + n \in got..Len(stream)
  BY <1>1
<1>3. SubSeq(stream, 1, got) \in Seq(Byte)
  BY <1>1, SubIs
<1>4. SubSeq(stream, got + 1, got + n) \in Seq(Byte)
  BY <1>1, SubIs
<1>5. SubSeq(stream, 1, got) \o SubSeq(stream, got + 1, got + n) = SubSeq(stream, 1, got + n)
  BY <1>2, ConcatAdjacentSubSeq
<1> QED
  BY <1>1, <1>3, <1>4, <1>5 DEF Heard, Chunk

\* What a call of feed() comes to, by the bytes heard when it returns.
LEMMA FeedReplies ==
  ASSUME SocksInv, link = "handshake", NEW n \in 1..Len(stream), got + n <= Len(stream),
         NEW b, b = SubSeq(stream, 1, got + n), NEW s, s = Step(hs, Chunk(n))
  PROVE  /\ b \in Seq(Byte)
         /\ HasRequest(b) =>
              /\ s.reply.status = "request" /\ wrote \o s.reply.send = <<5, 0>>
              /\ s.reply.dst = Wanted(b) /\ s.reply.leftover = Leftover(b)
         /\ ~HasRequest(b) =>
              /\ s.reply.status \in {"need-more", "error"}
              /\ s.reply.status = "need-more" =>
                   \/ /\ ~Greeted(b) /\ s.reply.buf = b /\ s.phase = "greeting"
                      /\ wrote \o s.reply.send = <<>>
                   \/ /\ Greeted(b) /\ s.reply.buf = Rest(b) /\ s.phase = "request"
                      /\ wrote \o s.reply.send = <<5, 0>>
<1>1. Reading /\ stream \in Seq(Byte) /\ got \in 0..Len(stream)
  BY DEF SocksInv
<1>2. Heard \in Seq(Byte) /\ Chunk(n) \in Seq(Byte) /\ b = Heard \o Chunk(n)
  BY <1>1, HeardGrows
<1>3. b \in Seq(Byte) /\ (Greeted(b) => Rest(b) \in Seq(Byte))
  <2>1. b \in Seq(Byte)
    BY <1>2, CatIs
  <2>2. Greeted(b) => Rest(b) \in Seq(Byte)
    BY <2>1, GreetedFits
  <2> QED
    BY <2>1, <2>2
<1>4. <<>> \o <<>> = <<>> /\ <<>> \o <<5, 0>> = <<5, 0>> /\ <<5, 0>> \o <<>> = <<5, 0>>
  <2>1. <<5, 0>> \in Seq(Nat) /\ << >> \in Seq(Nat)
    OBVIOUS
  <2> QED
    BY <2>1, ConcatEmptySeq
<1> DEFINE c == Rest(b)
<1>5. CASE ~Greeted(Heard) /\ hs = [buf |-> Heard, phase |-> "greeting"] /\ wrote = <<>>
  <2>1. hs.phase = "greeting" /\ hs.buf \o Chunk(n) = b
    BY <1>2, <1>5
  <2>2. CASE ~Greeted(b)
    <3>1. /\ s.phase = "greeting" /\ s.reply.status \in {"need-more", "error"}
          /\ s.reply.status = "need-more" => s.reply = NeedMore(b)
      BY <1>3, <2>1, <2>2, StepOnGreeting
    <3>2. NeedMore(b).buf = b /\ NeedMore(b).send = <<>>
      BY DEF NeedMore
    <3> QED
      BY <1>3, <1>4, <1>5, <2>2, <3>1, <3>2 DEF HasRequest
  <2>3. CASE Greeted(b)
    <3>1. s = [phase |-> "request", reply |-> [ParseRequest(c) EXCEPT !.send = <<5, 0>>]]
      BY <1>3, <2>1, <2>3, StepOnGreeting
    <3> HIDE DEF c
    <3>2. c \in Seq(Byte)
      BY <1>3, <2>3 DEF c
    <3>3. CASE Asks(c)
      <4>1. ParseRequest(c) =
              [status |-> "request", buf |-> <<>>, send |-> <<>>,
               dst |-> Destination(c, EndOf(c)), leftover |-> From(c, EndOf(c) + 2)]
        BY <3>2, <3>3, RequestParsed
      <4>2. /\ s.reply.status = "request" /\ s.reply.send = <<5, 0>>
            /\ s.reply.dst = Destination(c, EndOf(c)) /\ s.reply.leftover = From(c, EndOf(c) + 2)
        BY <3>1, <4>1
      <4> QED
        BY <1>3, <1>4, <1>5, <2>3, <3>3, <4>2 DEF HasRequest, Wanted, Leftover, c
    <3>4. CASE ~Asks(c)
      <4>1. \/ ParseRequest(c) = NeedMore(c)
            \/ \E rep \in {1, 8} : ParseRequest(c) = Failed(c, <<>>, rep)
            \/ ParseRequest(c) = Failed(<<>>, <<>>, 7)
        BY <3>2, <3>4, RequestParsed
      <4>2. s.reply.status \in {"need-more", "error"} /\ s.phase = "request"
        BY <3>1, <4>1 DEF NeedMore, Failed
      <4>3. s.reply.status = "need-more" => s.reply.buf = c /\ s.reply.send = <<5, 0>>
        BY <3>1, <4>1 DEF NeedMore, Failed
      <4> QED
        BY <1>3, <1>4, <1>5, <2>3, <3>4, <4>2, <4>3 DEF HasRequest, c
    <3> QED
      BY <3>3, <3>4
  <2> QED
    BY <2>2, <2>3
<1>6. CASE /\ Greeted(Heard) /\ ~Asks(Rest(Heard)) /\ wrote = <<5, 0>>
           /\ hs = [buf |-> Rest(Heard), phase |-> "request"]
  <2>1. Greeted(b) /\ c = Rest(Heard) \o Chunk(n)
    BY <1>2, <1>6, GreetedStays
  <2>2. hs.phase = "request" /\ hs.buf \o Chunk(n) = c
    BY <1>6, <2>1
  <2>3. s = [phase |-> "request", reply |-> ParseRequest(c)]
    BY <2>2, StepOnRequest
  <2> HIDE DEF c
  <2>4. c \in Seq(Byte)
    BY <1>3, <2>1 DEF c
  <2>5. CASE Asks(c)
    <3>1. ParseRequest(c) =
            [status |-> "request", buf |-> <<>>, send |-> <<>>,
             dst |-> Destination(c, EndOf(c)), leftover |-> From(c, EndOf(c) + 2)]
      BY <2>4, <2>5, RequestParsed
    <3>2. /\ s.reply.status = "request" /\ s.reply.send = <<>>
          /\ s.reply.dst = Destination(c, EndOf(c)) /\ s.reply.leftover = From(c, EndOf(c) + 2)
      BY <2>3, <3>1
    <3> QED
      BY <1>3, <1>4, <1>6, <2>1, <2>5, <3>2 DEF HasRequest, Wanted, Leftover, c
  <2>6. CASE ~Asks(c)
    <3>4. \/ ParseRequest(c) = NeedMore(c)
          \/ \E rep \in {1, 8} : ParseRequest(c) = Failed(c, <<>>, rep)
          \/ ParseRequest(c) = Failed(<<>>, <<>>, 7)
      BY <2>4, <2>6, RequestParsed
    <3>1. /\ ParseRequest(c).status \in {"need-more", "error"}
          /\ ParseRequest(c).status = "need-more" => ParseRequest(c) = NeedMore(c)
      BY <3>4 DEF NeedMore, Failed
    <3>2. s.reply = ParseRequest(c) /\ s.phase = "request"
      BY <2>3
    <3>3. NeedMore(c).buf = c /\ NeedMore(c).send = <<>>
      BY DEF NeedMore
    <3> QED
      BY <1>3, <1>4, <1>6, <2>1, <2>6, <3>1, <3>2, <3>3 DEF HasRequest, c
  <2> QED
    BY <2>5, <2>6
<1> QED
  BY <1>1, <1>5, <1>6 DEF Reading

LEMMA FeedKeeps ==
  ASSUME SocksInv, NEW n \in 1..Len(stream), Feed(n)
  PROVE  SocksInv'
<1> DEFINE b == SubSeq(stream, 1, got + n)
           s == Step(hs, Chunk(n))
           r == s.reply
<1>1. link = "handshake" /\ got + n <= Len(stream) /\ got' = got + n /\ stream' = stream
  BY DEF Feed
<1>2. hs' = [buf |-> r.buf, phase |-> IF r.status = "request" THEN "done" ELSE s.phase]
  BY DEF Feed
<1>3. \/ /\ r.status = "need-more" /\ wrote' = wrote \o r.send
         /\ link' = link /\ held' = held /\ asked' = asked
      \/ r.status = "error" /\ link' = "over" /\ asked' = asked
      \/ /\ r.status = "request" /\ wrote' = wrote \o r.send /\ link' = "opening"
         /\ asked' = Append(asked, r.dst) /\ held' = r.leftover
  BY DEF Feed
<1>4. passed' = passed /\ passed = <<>> /\ asked = <<>>
  BY <1>1 DEF Feed, SocksInv, Reading
<1>5. Heard' = b /\ stream' \in Seq(Byte) /\ got' \in 0..Len(stream')
  <2>1. stream \in Seq(Byte) /\ got \in 0..Len(stream)
    BY DEF SocksInv
  <2>2. got + n \in 0..Len(stream)
    BY <1>1, <2>1, HeardGrows
  <2> QED
    BY <1>1, <2>1, <2>2 DEF Heard
<1>6. /\ HasRequest(b) =>
           /\ s.reply.status = "request" /\ wrote \o s.reply.send = <<5, 0>>
           /\ s.reply.dst = Wanted(b) /\ s.reply.leftover = Leftover(b)
      /\ ~HasRequest(b) =>
           /\ s.reply.status \in {"need-more", "error"}
           /\ s.reply.status = "need-more" =>
                \/ /\ ~Greeted(b) /\ s.reply.buf = b /\ s.phase = "greeting"
                   /\ wrote \o s.reply.send = <<>>
                \/ /\ Greeted(b) /\ s.reply.buf = Rest(b) /\ s.phase = "request"
                   /\ wrote \o s.reply.send = <<5, 0>>
  BY <1>1, FeedReplies
<1> HIDE DEF b, s
<1>7. CASE HasRequest(b)
  <2>1. /\ wrote' = <<5, 0>> /\ link' = "opening" /\ held' = Leftover(b)
        /\ asked' = Append(<<>>, Wanted(b))
    BY <1>3, <1>4, <1>6, <1>7
  <2>2. asked' = <<Wanted(b)>>
    BY <2>1
  <2>3. SubSeq(<<5, 0>>, 1, 2) = <<5, 0>>
    <3>1. <<5, 0>> \in Seq(Nat) /\ Len(<<5, 0>>) = 2
      OBVIOUS
    <3> QED
      BY <3>1, SubSeqFull
  <2>4. <<Wanted(b)>> # <<>>
    OBVIOUS
  <2>5. HasRequest(Heard') /\ asked' = <<Wanted(Heard')>> /\ held' = Leftover(Heard')
    BY <1>5, <1>7, <2>1, <2>2
  <2>6. SubSeq(wrote', 1, 2) = <<5, 0>> /\ wrote' = <<5, 0>> /\ passed' = <<>> /\ asked' # <<>>
    BY <1>4, <2>1, <2>2, <2>3, <2>4
  <2> QED
    BY <1>5, <2>1, <2>5, <2>6 DEF SocksInv, HasRequest, Greeted, Asks, Wanted, Leftover, Rest, Destination, EndOf, From
<1>8. CASE ~HasRequest(b) /\ r.status = "need-more"
  <2>1. link' = "handshake" /\ asked' = <<>> /\ wrote' = wrote \o r.send
    BY <1>1, <1>3, <1>4, <1>8
  <2>2. hs' = [buf |-> r.buf, phase |-> s.phase]
    BY <1>2, <1>8
  <2>3. \/ ~Greeted(b) /\ hs' = [buf |-> b, phase |-> "greeting"] /\ wrote' = <<>>
        \/ /\ Greeted(b) /\ ~Asks(Rest(b)) /\ hs' = [buf |-> Rest(b), phase |-> "request"]
           /\ wrote' = <<5, 0>>
    BY <1>6, <1>8, <2>1, <2>2 DEF HasRequest
  <2> QED
    BY <1>4, <1>5, <1>8, <2>1, <2>3 DEF SocksInv, Reading
<1>9. CASE ~HasRequest(b) /\ r.status = "error"
  <2>1. link' = "over" /\ asked' = <<>>
    BY <1>3, <1>4, <1>9
  <2> QED
    BY <1>5, <1>9, <2>1 DEF SocksInv
<1> QED
  BY <1>6, <1>7, <1>8, <1>9

LEMMA LeftoverFits ==
  ASSUME NEW b \in Seq(Byte), HasRequest(b)
  PROVE  Leftover(b) \in Seq(Byte)
<1> DEFINE c == Rest(b)
<1>1. c \in Seq(Byte) /\ Asks(c)
  BY GreetedFits DEF HasRequest
<1> HIDE DEF c
<1>2. EndOf(c) + 2 \in 7..Len(c)
  BY <1>1, AskedEnd
<1>3. EndOf(c) + 2 \in 0..Len(c)
  BY <1>2
<1>4. From(c, EndOf(c) + 2) \in Seq(Byte)
  BY <1>1, <1>3, FromIs
<1> QED
  BY <1>4 DEF Leftover, c

LEMMA AnswerStarts ==
  ASSUME NEW rep
  PROVE  SubSeq(<<5, 0>> \o ReplyBuffer(rep), 1, 2) = <<5, 0>>
<1> DEFINE U == Nat \cup {rep}
           w == <<5, 0>>
           t == ReplyBuffer(rep)
<1>1. w \in Seq(U) /\ Len(w) = 2
  OBVIOUS
<1>2. t \in Seq(U)
  BY DEF ReplyBuffer, Ver
<1>3. 1 \in 1..Len(w) /\ 2 \in 1..Len(w)
  BY <1>1
<1> HIDE DEF w, t, U
<1>4. SubSeq(w \o t, 1, 2) = SubSeq(w, 1, 2)
  BY <1>1, <1>2, <1>3, SubSeqOfConcat1
<1>5. SubSeq(w, 1, Len(w)) = w
  BY <1>1, SubSeqFull
<1> QED
  BY <1>1, <1>4, <1>5 DEF w, t

LEMMA HeardStays ==
  ASSUME SocksInv, stream' = stream, got' = got
  PROVE  stream' \in Seq(Byte) /\ got' \in 0..Len(stream') /\ Heard' = Heard
BY DEF SocksInv, Heard

LEMMA ChannelOpensKeeps ==
  ASSUME SocksInv, ChannelOpens
  PROVE  SocksInv'
<1>1. /\ link = "opening" /\ link' = "open" /\ stream' = stream /\ got' = got /\ asked' = asked
      /\ wrote' = wrote \o ReplyBuffer(0) /\ passed' = passed \o held
  BY DEF ChannelOpens
<1>2. stream' \in Seq(Byte) /\ got' \in 0..Len(stream') /\ Heard' = Heard
  BY <1>1, HeardStays
<1>3. /\ asked # <<>> /\ HasRequest(Heard) /\ asked = <<Wanted(Heard)>>
      /\ wrote = <<5, 0>> /\ held = Leftover(Heard) /\ passed = <<>>
  BY <1>1 DEF SocksInv
<1>4. Heard \in Seq(Byte)
  BY SubIs DEF SocksInv, Heard
<1>5. Leftover(Heard) \in Seq(Byte)
  BY <1>3, <1>4, LeftoverFits
<1>6. passed' = Leftover(Heard)
  BY <1>1, <1>3, <1>5, ConcatEmptySeq
<1>7. SubSeq(wrote', 1, 2) = <<5, 0>>
  BY <1>1, <1>3, AnswerStarts
<1>8. HasRequest(Heard') /\ asked' = <<Wanted(Heard')>> /\ passed' = Leftover(Heard') /\ asked' # <<>>
  BY <1>1, <1>2, <1>3, <1>6
<1> QED
  BY <1>1, <1>2, <1>7, <1>8 DEF SocksInv

LEMMA ChannelFailsKeeps ==
  ASSUME SocksInv, NEW rep \in Refusals, ChannelFails(rep)
  PROVE  SocksInv'
<1>1. /\ link = "opening" /\ link' = "over" /\ stream' = stream /\ got' = got /\ asked' = asked
      /\ wrote' = wrote \o ReplyBuffer(rep)
  BY DEF ChannelFails
<1>2. stream' \in Seq(Byte) /\ got' \in 0..Len(stream') /\ Heard' = Heard
  BY <1>1, HeardStays
<1>3. asked # <<>> /\ HasRequest(Heard) /\ asked = <<Wanted(Heard)>> /\ wrote = <<5, 0>>
  BY <1>1 DEF SocksInv
<1>4. SubSeq(wrote', 1, 2) = <<5, 0>>
  BY <1>1, <1>3, AnswerStarts
<1>5. HasRequest(Heard') /\ asked' = <<Wanted(Heard')>> /\ asked' # <<>>
  BY <1>1, <1>2, <1>3
<1> QED
  BY <1>1, <1>2, <1>4, <1>5 DEF SocksInv

LEMMA PipedKeeps ==
  ASSUME SocksInv, NEW n \in 1..Len(stream), Piped(n)
  PROVE  SocksInv'
<1>1. /\ link = "open" /\ link' = link /\ stream' = stream /\ got' = got + n /\ asked' = asked
      /\ wrote' = wrote /\ passed' = passed \o Chunk(n) /\ got + n <= Len(stream)
  BY DEF Piped
<1>2. stream \in Seq(Byte) /\ got \in 0..Len(stream)
  BY DEF SocksInv
<1>3. /\ Heard \in Seq(Byte) /\ Chunk(n) \in Seq(Byte)
      /\ SubSeq(stream, 1, got + n) = Heard \o Chunk(n) /\ got + n \in 0..Len(stream)
  BY <1>1, <1>2, HeardGrows
<1>4. Heard' = Heard \o Chunk(n) /\ stream' \in Seq(Byte) /\ got' \in 0..Len(stream')
  BY <1>1, <1>2, <1>3 DEF Heard
<1>5. /\ asked # <<>> /\ HasRequest(Heard) /\ asked = <<Wanted(Heard)>>
      /\ passed = Leftover(Heard) /\ SubSeq(wrote, 1, 2) = <<5, 0>>
  BY <1>1 DEF SocksInv
<1>6. /\ HasRequest(Heard \o Chunk(n)) /\ Wanted(Heard \o Chunk(n)) = Wanted(Heard)
      /\ Leftover(Heard \o Chunk(n)) = Leftover(Heard) \o Chunk(n)
  BY <1>3, <1>5, RequestStays
<1>7. /\ HasRequest(Heard') /\ asked' = <<Wanted(Heard')>> /\ asked' # <<>>
      /\ passed' = Leftover(Heard') /\ SubSeq(wrote', 1, 2) = <<5, 0>>
  BY <1>1, <1>4, <1>5, <1>6
<1> QED
  BY <1>1, <1>4, <1>7 DEF SocksInv

LEMMA ClientGoneKeeps ==
  ASSUME SocksInv, ClientGone
  PROVE  SocksInv'
<1>1. /\ link' = "over" /\ stream' = stream /\ got' = got /\ asked' = asked /\ wrote' = wrote
      /\ link # "over"
  BY DEF ClientGone
<1>2. stream' \in Seq(Byte) /\ got' \in 0..Len(stream') /\ Heard' = Heard
  BY <1>1, HeardStays
<1>3. /\ asked = <<>> => ~HasRequest(Heard)
      /\ asked # <<>> =>
           HasRequest(Heard) /\ asked = <<Wanted(Heard)>> /\ SubSeq(wrote, 1, 2) = <<5, 0>>
  BY DEF SocksInv
<1>4. /\ asked' = <<>> => ~HasRequest(Heard')
      /\ asked' # <<>> =>
           HasRequest(Heard') /\ asked' = <<Wanted(Heard')>> /\ SubSeq(wrote', 1, 2) = <<5, 0>>
  BY <1>1, <1>2, <1>3
<1> QED
  BY <1>1, <1>2, <1>4 DEF SocksInv

LEMMA SocksInitKeeps ==
  ASSUME SocksInit
  PROVE  SocksInv
<1>1. stream \in Streams /\ got = 0 /\ link = "handshake" /\ asked = <<>> /\ passed = <<>> /\ wrote = <<>>
  BY DEF SocksInit
<1>2. hs = [buf |-> <<>>, phase |-> "greeting"]
  BY DEF SocksInit
<1>3. stream \in Seq(Byte) /\ got \in 0..Len(stream)
  BY <1>1, SocksAssumption DEF Byte
<1>4. Heard = <<>>
  BY <1>1, SubSeqEmpty DEF Heard
<1>5. ~Greeted(<<>>)
  BY DEF Greeted
<1> QED
  BY <1>1, <1>2, <1>3, <1>4, <1>5 DEF SocksInv, Reading, HasRequest

LEMMA SocksStepKeeps ==
  ASSUME SocksInv, [SocksNext]_socksVars
  PROVE  SocksInv'
<1>1. CASE UNCHANGED socksVars
  <2>1. /\ stream' = stream /\ got' = got /\ hs' = hs /\ link' = link /\ held' = held
        /\ asked' = asked /\ wrote' = wrote /\ passed' = passed
    BY <1>1 DEF socksVars
  <2>2. stream' \in Seq(Byte) /\ got' \in 0..Len(stream') /\ Heard' = Heard
    BY <2>1, HeardStays
  <2> QED
    BY <2>1, <2>2 DEF SocksInv, Reading
<1>2. CASE SocksNext
  BY <1>2, FeedKeeps, PipedKeeps, ChannelOpensKeeps, ClientGoneKeeps, ChannelFailsKeeps
     DEF SocksNext
<1> QED
  BY <1>1, <1>2

\* The one place where a request may lie in the bytes.
RequestAt(b, i, j) ==
  LET q == SubSeq(b, i + 1, j)
  IN  IsGreeting(SubSeq(b, 1, i)) /\ IsConnect(q, Destination(q, Len(q) - 2))

LEMMA RequestAtIs ==
  ASSUME NEW b \in Seq(Byte), NEW i \in 2..Len(b), NEW j \in 8..Len(b), i + 6 < j
  PROVE  /\ RequestAt(b, i, j) => HasRequest(b)
         /\ RequestAt(b, i, j) =>
              /\ Destination(SubSeq(b, i + 1, j), Len(SubSeq(b, i + 1, j)) - 2) = Wanted(b)
              /\ From(b, j) = Leftover(b)
         /\ HasRequest(b) /\ i = 2 + b[2] /\ j = i + (EndOf(Rest(b)) + 2) => RequestAt(b, i, j)
<1> DEFINE c == From(b, i)
           n == j - i
           q == SubSeq(b, i + 1, j)
<1>1. /\ Len(b) \in Nat /\ i \in Nat /\ j \in Nat /\ n \in Nat /\ 2 <= i /\ i <= Len(b)
      /\ j <= Len(b) /\ 7 <= n /\ i + n = j /\ i \in 0..Len(b)
  OBVIOUS
<1>2. c \in Seq(Byte) /\ Len(c) = Len(b) - i
  BY <1>1, FromIs
<1>3. \A k \in 1..(Len(b) - i) : c[k] = b[i + k]
  BY <1>1, FromIs
<1>4. q \in Seq(Byte) /\ Len(q) = n /\ \A k \in 1..n : q[k] = b[i + k]
  <2>1. i + 1 \in Nat \ {0} /\ j <= Len(b) /\ i + 1 <= j + 1 /\ j + 1 - (i + 1) = n
    BY <1>1
  <2>2. q \in Seq(Byte) /\ Len(q) = n
    BY <1>1, <2>1, SubIs
  <2>3. \A k \in 1..(j + 1 - (i + 1)) : q[k] = b[(i + 1) + k - 1]
    BY <1>1, <2>1, SubIs
  <2>4. \A k \in 1..n : (i + 1) + k - 1 = i + k
    BY <1>1
  <2> HIDE DEF q
  <2> QED
    BY <2>1, <2>2, <2>3, <2>4
<1> HIDE DEF c, n, q
<1>5. n \in 7..Len(c)
  BY <1>1, <1>2
<1>6. SubSeq(c, 1, n) = q
  <2>1. n <= Len(c) /\ 1 <= n + 1 /\ n + 1 - 1 = n
    BY <1>1, <1>2
  <2>2. SubSeq(c, 1, n) \in Seq(Byte) /\ Len(SubSeq(c, 1, n)) = n
    BY <1>1, <1>2, <2>1, SubIs
  <2>3. \A k \in 1..n : SubSeq(c, 1, n)[k] = c[k]
    BY <1>1, <1>2, <2>1, SubIs
  <2>4. \A k \in 1..n : k \in 1..(Len(b) - i)
    BY <1>1, <1>2, <2>1
  <2>5. \A k \in 1..Len(q) : q[k] = SubSeq(c, 1, n)[k]
    BY <1>3, <1>4, <2>3, <2>4
  <2> QED
    BY <1>4, <2>2, <2>5, SeqEqual
<1>7. RequestAt(b, i, j) <=> GreetingIn(b, i) /\ RequestIn(c, n)
  BY <1>4, <1>5, <1>6 DEF RequestAt, GreetingIn, RequestIn, q
<1>8. GreetingIn(b, i) <=> Greeted(b) /\ i = 2 + b[2]
  BY GreetingIs
<1>9. RequestIn(c, n) <=> Asks(c) /\ n = EndOf(c) + 2
  BY <1>2, RequestIs
<1>10. i = 2 + b[2] => c = Rest(b)
  BY DEF Rest, c
<1>11. From(b, j) = From(c, n)
  <2>1. From(b, j) \in Seq(Byte) /\ Len(From(b, j)) = Len(b) - j
    BY <1>1, FromIs
  <2>2. \A k \in 1..(Len(b) - j) : From(b, j)[k] = b[j + k]
    BY <1>1, FromIs
  <2>3. n \in 0..Len(c) /\ Len(c) - n = Len(b) - j
    BY <1>1, <1>2
  <2>4. From(c, n) \in Seq(Byte) /\ Len(From(c, n)) = Len(c) - n
    BY <1>2, <2>3, FromIs
  <2>5. \A k \in 1..(Len(c) - n) : From(c, n)[k] = c[n + k]
    BY <1>2, <2>3, FromIs
  <2>6. ASSUME NEW k \in 1..(Len(b) - j)
        PROVE  From(b, j)[k] = From(c, n)[k]
    <3>1. n + k \in 1..(Len(b) - i) /\ i + (n + k) = j + k
      BY <1>1, <1>2
    <3>2. From(c, n)[k] = b[i + (n + k)]
      BY <1>3, <2>3, <2>5, <3>1
    <3> QED
      BY <2>2, <3>1, <3>2
  <2> QED
    BY <2>1, <2>3, <2>4, <2>6, SeqEqual
<1>12. ASSUME RequestAt(b, i, j)
       PROVE  /\ HasRequest(b) /\ From(b, j) = Leftover(b)
              /\ Destination(q, Len(q) - 2) = Wanted(b)
  <2>1. Greeted(b) /\ Asks(c) /\ n = EndOf(c) + 2 /\ c = Rest(b)
    BY <1>7, <1>8, <1>9, <1>10, <1>12
  <2>2. Destination(SubSeq(c, 1, n), n - 2) = Destination(c, n - 2)
    BY <1>2, <1>5, DestinationIs
  <2>3. EndOf(c) \in Nat
    <3>1. Len(c) >= 5 => c[5] \in Nat
      BY <1>2, ByteAt
    <3> QED
      BY <2>1, <3>1 DEF EndOf, Asks
  <2>4. n - 2 = EndOf(c)
    BY <2>1, <2>3
  <2>5. Destination(q, Len(q) - 2) = Destination(c, EndOf(c))
    BY <1>4, <1>6, <2>2, <2>4
  <2> QED
    BY <1>11, <2>1, <2>5 DEF HasRequest, Leftover, Wanted
<1>13. ASSUME HasRequest(b), i = 2 + b[2], j = i + (EndOf(Rest(b)) + 2)
       PROVE  RequestAt(b, i, j)
  <2>1. c = Rest(b) /\ Greeted(b) /\ Asks(c)
    BY <1>10, <1>13 DEF HasRequest
  <2>2. EndOf(c) + 2 \in 7..Len(c)
    BY <1>2, <2>1, AskedEnd
  <2>3. n = EndOf(c) + 2
    BY <1>1, <1>13, <2>1, <2>2
  <2> QED
    BY <1>7, <1>8, <1>9, <1>13, <2>1, <2>3
<1> QED
  BY <1>12, <1>13 DEF q

LEMMA RequestFits ==
  ASSUME NEW b \in Seq(Byte), HasRequest(b)
  PROVE  \E i \in 2..Len(b), j \in 8..Len(b) : i + 6 < j /\ RequestAt(b, i, j)
<1> DEFINE c == Rest(b)
           i == 2 + b[2]
           n == EndOf(c) + 2
           j == i + n
<1>1. b[2] \in Nat /\ i \in 0..Len(b) /\ c \in Seq(Byte) /\ Asks(c) /\ Len(b) \in Nat
  BY GreetedFits DEF HasRequest
<1>2. n \in 7..Len(c)
  <2> HIDE DEF c
  <2> QED
    BY <1>1, AskedEnd
<1>3. Len(c) = Len(b) - i
  BY <1>1, FromIs DEF Rest
<1> HIDE DEF c, n
<1>4. i \in 2..Len(b) /\ j \in 8..Len(b) /\ i + 6 < j
  BY <1>1, <1>2, <1>3
<1>5. i = 2 + b[2] /\ j = i + (EndOf(Rest(b)) + 2)
  BY DEF n, c
<1> HIDE DEF i, j
<1>6. RequestAt(b, i, j)
  BY <1>4, <1>5, RequestAtIs
<1> QED
  BY <1>4, <1>6

\* However a client's bytes are cut up on the way, a channel is asked for exactly
\* when a greeting and a CONNECT request have arrived, for the address in it; the
\* answers so far and the bytes passed on are those the protocol names: for any
\* streams, of any length, in pieces of any size (socks5.js:172-180; relay.js:463-471).
THEOREM ChunksIrrelevant == SocksSpec => []ChunksDoNotMatter
<1>1. SocksInit => SocksInv
  BY SocksInitKeeps
<1>2. SocksInv /\ [SocksNext]_socksVars => SocksInv'
  BY SocksStepKeeps
<1>3. SocksInv => ChunksDoNotMatter
  <2> SUFFICES ASSUME SocksInv PROVE ChunksDoNotMatter
    OBVIOUS
  <2> DEFINE b == Heard
             Fits(p) == p[1] + 6 < p[2] /\ RequestAt(b, p[1], p[2])
             Requests == {p \in (2..got) \X (8..got) : Fits(p)}
  <2>1. stream \in Seq(Byte) /\ got \in 0..Len(stream) /\ got \in Nat
    BY DEF SocksInv
  <2>2. b \in Seq(Byte) /\ Len(b) = got
    BY <2>1, SubIs DEF Heard
  <2>3. /\ asked = <<>> => ~HasRequest(b) /\ link \notin {"opening", "open"}
        /\ asked # <<>> =>
             /\ HasRequest(b) /\ asked = <<Wanted(b)>> /\ SubSeq(wrote, 1, 2) = <<5, 0>>
             /\ link = "opening" => wrote = <<5, 0>>
             /\ link = "open" => passed = Leftover(b)
    BY DEF SocksInv
  <2> HIDE DEF b
  <2>4. HasRequest(b) => Requests # {}
    <3> SUFFICES ASSUME HasRequest(b) PROVE Requests # {}
      OBVIOUS
    <3>1. PICK i \in 2..Len(b), j \in 8..Len(b) : i + 6 < j /\ RequestAt(b, i, j)
      BY <2>2, RequestFits
    <3>2. <<i, j>> \in (2..got) \X (8..got) /\ Fits(<<i, j>>)
      BY <2>2, <3>1
    <3> HIDE DEF Fits
    <3> QED
      BY <3>2
  <2>5. ASSUME NEW p \in Requests
        PROVE  LET q == SubSeq(b, p[1] + 1, p[2])
               IN  /\ asked = <<Destination(q, Len(q) - 2)>>
                   /\ SubSeq(wrote, 1, 2) = <<Ver, 0>>
                   /\ link = "opening" => Len(wrote) = 2
                   /\ link = "open" => passed = From(b, p[2])
    <3>1. p[1] \in 2..Len(b) /\ p[2] \in 8..Len(b) /\ p[1] + 6 < p[2] /\ RequestAt(b, p[1], p[2])
      BY <2>2, <2>5
    <3> DEFINE q == SubSeq(b, p[1] + 1, p[2])
    <3>2. HasRequest(b) /\ Destination(q, Len(q) - 2) = Wanted(b) /\ From(b, p[2]) = Leftover(b)
      BY <2>2, <3>1, RequestAtIs
    <3>3. asked # <<>>
      BY <2>3, <3>2
    <3> HIDE DEF q
    <3>4. Len(<<5, 0>>) = 2
      OBVIOUS
    <3> QED
      BY <2>3, <3>2, <3>3, <3>4 DEF q, Ver
  <2>6. Requests = {} => asked = <<>>
    BY <2>3, <2>4
  <2> QED
    BY <2>5, <2>6 DEF ChunksDoNotMatter, RequestAt, b, Heard
<1>4. QED
  BY <1>1, <1>2, <1>3, PTL DEF SocksSpec
====
