---------------------------- MODULE EngineProofs ----------------------------
(***************************************************************************)
(* Proofs about Engine.tla and Notices.tla, for any ids, any number of     *)
(* tunnels and of calls that overlap.                                      *)
(*                                                                         *)
(* EInv says what holds between any two macrotasks.  Of the map: a tunnel  *)
(* that is not disposed is the one in it (Owns); a call that is closing an *)
(* old tunnel has buried every tunnel of its id (Buried), alone (Alone);   *)
(* what is mapped of a deleted definition has a reconcile() due or a       *)
(* removal under way (Leaves), and nothing else brings it back (Kept).     *)
(* Only ids on which calls were noted to clash are excused.  Of what is    *)
(* told: outside a bulk action the timer runs while a tunnel is up, and    *)
(* whatever the renderer has not heard, a call in progress will say        *)
(* (Informed); a batch has a bulk action to close it (Closes).             *)
(*                                                                         *)
(* An operation runs in pieces, with a call between two frames: Inv(e, fr, *)
(* X) is the invariant for an engine e half way, where fr leaves the call  *)
(* out and the ids of X are owed a word by it.  Each operation is followed *)
(* from there to the end of its macrotask.                                 *)
(***************************************************************************)
EXTENDS Engine, Notices, TLAPS

-----------------------------------------------------------------------------
(* The invariant, for an engine e and the calls fr in progress.            *)

Ends == {"replacing", "removing"}

TypedEngine(e) ==
  /\ e \in EngineRecords
  /\ \A i \in Ids : e.map[i] # None => e.tun[e.map[i]] # None /\ e.tun[e.map[i]].id = i

TypedFrames(fr) == fr \in [Calls -> FrameRecords \cup {None}]

Points(e, fr) ==
  \A c \in Calls : fr[c] # None =>
    IF fr[c].at = "ready" THEN fr[c].id = None /\ fr[c].on = None
    ELSE /\ fr[c].on \in Tunnels /\ fr[c].id \in Ids
         /\ e.tun[fr[c].on] # None /\ e.tun[fr[c].on].id = fr[c].id

(* A tunnel that is not disposed is the one in the map.                    *)
Owns(e) ==
  \A n \in Tunnels :
    (e.tun[n] # None /\ ~e.tun[n].disposed /\ e.tun[n].id \notin e.clash)
      => e.map[e.tun[n].id] = n

AllBuried(e, i) ==
  \A n \in Tunnels : (e.tun[n] # None /\ e.tun[n].id = i) => e.tun[n].disposed

Buried(e, fr) ==
  \A c \in Calls : (fr[c] # None /\ fr[c].at \in Ends /\ fr[c].id \notin e.clash) =>
    AllBuried(e, fr[c].id)

Alone(e, fr) ==
  \A c, d \in Calls :
    (/\ c # d /\ fr[c] # None /\ fr[d] # None /\ fr[c].id = fr[d].id
     /\ fr[c].at = "replacing" /\ fr[d].at \in Ends) => fr[c].id \in e.clash

Due(fr, i) ==
  \E d \in Calls : fr[d] # None /\ fr[d].at = "ready" /\ fr[d].todo = {<<"reconcile", i>>}

Going(fr, i) == \E d \in Calls : fr[d] # None /\ fr[d].at = "removing" /\ fr[d].id = i

Kept(e, fr) ==
  \A c \in Calls : fr[c] # None =>
    /\ fr[c].at = "removing" => store[fr[c].id] = "absent"
    /\ (fr[c].at = "replacing" /\ store[fr[c].id] = "absent")
         => fr[c].id \in e.clash \/ Due(fr, fr[c].id)

Leaves(e, fr) ==
  \A i \in Ids : (store[i] = "absent" /\ i \notin e.clash /\ e.map[i] # None) =>
    Due(fr, i) \/ Going(fr, i)

MapInv(e, fr) ==
  /\ TypedEngine(e) /\ TypedFrames(fr)
  /\ Points(e, fr) /\ Owns(e) /\ Buried(e, fr) /\ Alone(e, fr) /\ Kept(e, fr) /\ Leaves(e, fr)

Unused(e, i) == \A n \in Tunnels : e.tun[n] # None => e.tun[n].id # i

Blank(e, i) == e.view[i] = "disarmed" /\ (e.batch # None => e.batch[i] = None)

Over(e, fr, i) ==
  /\ store[i] = "absent" /\ Unused(e, i)
  /\ \A c \in Calls : fr[c] # None => fr[c].id # i /\ \A t \in fr[c].todo : t[2] # i

Forgotten(e, fr) == \A i \in Ids : Over(e, fr, i) => Blank(e, i)

Unmapped(e) ==
  \A i \in Ids : (store[i] # "absent" /\ e.map[i] = None /\ i \notin e.muted)
    => Unused(e, i) /\ Blank(e, i)

AnyLive(e) == \E i \in Ids : Live(StateOf(e, i))

WillTell(e, f) ==
  f # None /\ (f.at \in Ends \/ (f.at = "binding" /\ ~e.tun[f.on].disposed))

(* Outside a bulk action whatever is not told yet will be, but for what is *)
(* being done to the ids of X.                                             *)
Informed(e, fr, X) ==
  e.batch = None =>
    /\ AnyLive(e) => e.timer
    /\ (e.timer /\ ~AnyLive(e) /\ X = {}) => \E c \in Calls : WillTell(e, fr[c])
    /\ \A i \in Ids \ X : (e.map[i] # None /\ e.view[i] # StateOf(e, i)) =>
         \E c \in Calls : WillTell(e, fr[c]) /\ fr[c].id = i

Closes(e, fr) == e.batch # None => \E c \in Calls : fr[c] # None /\ fr[c].bulk

TellInv(e, fr, X) == Unmapped(e) /\ Informed(e, fr, X) /\ Closes(e, fr)

Inv(e, fr, X) == MapInv(e, fr) /\ TellInv(e, fr, X)

EInv == store \in [Ids -> Defs] /\ Inv(eng, frames, {}) /\ Forgotten(eng, frames)

-----------------------------------------------------------------------------
(* The engine's operators.                                                 *)

Put(e, n, r) == [e EXCEPT !.tun = [e.tun EXCEPT ![n] = r]]

Grown(e, f) ==
  /\ f.map = e.map /\ e.clash \subseteq f.clash
  /\ \A n \in Tunnels :
       /\ f.tun[n] # None <=> e.tun[n] # None
       /\ e.tun[n] # None => f.tun[n].id = e.tun[n].id /\ (e.tun[n].disposed => f.tun[n].disposed)

(* null is no value of the model.                                           *)
LEMMA NotNull ==
  /\ None \notin Ids /\ None \notin Tunnels /\ None \notin TunnelRecords /\ None \notin FrameRecords
  /\ None \notin Reported /\ \A b \in [Ids -> Reported \cup {None}] : b # None
BY NoneAssumption

(* What changes neither the map nor whose a tunnel is, disposes of some and *)
(* notes more clashes keeps the map sound.                                 *)
LEMMA GrownKeeps ==
  ASSUME NEW e, NEW f, NEW fr, MapInv(e, fr), TypedEngine(f), Grown(e, f)
  PROVE  MapInv(f, fr)
<1> USE DEF MapInv
<1>1. Points(f, fr)
  BY DEF Points, Grown
<1>2. Owns(f)
  <2> SUFFICES ASSUME NEW n \in Tunnels, f.tun[n] # None, ~f.tun[n].disposed, f.tun[n].id \notin f.clash
               PROVE  f.map[f.tun[n].id] = n
    BY DEF Owns
  <2>1. e.tun[n] # None /\ e.tun[n].id = f.tun[n].id /\ ~e.tun[n].disposed /\ e.tun[n].id \notin e.clash
    BY DEF Grown
  <2>2. QED
    BY <2>1 DEF Owns, Grown
<1>3. Buried(f, fr)
  BY DEF Buried, AllBuried, Grown
<1>4. Alone(f, fr)
  BY DEF Alone, Grown
<1>5. Kept(f, fr)
  BY DEF Kept, Grown
<1>6. Leaves(f, fr)
  BY DEF Leaves, Grown
<1>7. QED
  BY <1>1, <1>2, <1>3, <1>4, <1>5, <1>6

(* One tunnel changes.                                                     *)
LEMMA PutFacts ==
  ASSUME NEW e, TypedEngine(e), NEW n \in Tunnels, e.tun[n] # None, NEW r \in TunnelRecords,
         r.id = e.tun[n].id
  PROVE  LET f == Put(e, n, r)
         IN  /\ TypedEngine(f)
             /\ f.map = e.map /\ f.batch = e.batch /\ f.timer = e.timer /\ f.view = e.view
             /\ f.muted = e.muted /\ f.clash = e.clash
             /\ f.tun[n] = r
             /\ \A m \in Tunnels \ {n} : f.tun[m] = e.tun[m]
             /\ (e.tun[n].disposed => r.disposed) => Grown(e, f)
<1> DEFINE f == Put(e, n, r)
<1>1. /\ f.map = e.map /\ f.batch = e.batch /\ f.timer = e.timer /\ f.view = e.view
      /\ f.muted = e.muted /\ f.clash = e.clash /\ f.tun = [e.tun EXCEPT ![n] = r]
      /\ f \in EngineRecords
  BY DEF Put, TypedEngine, EngineRecords
<1> HIDE DEF f
<1>2. f.tun[n] = r /\ \A m \in Tunnels \ {n} : f.tun[m] = e.tun[m]
  BY <1>1 DEF TypedEngine, EngineRecords
<1>3. r # None
  BY NotNull
<1>4. TypedEngine(f)
  <2> SUFFICES ASSUME NEW i \in Ids, f.map[i] # None
               PROVE  f.tun[f.map[i]] # None /\ f.tun[f.map[i]].id = i
    BY <1>1 DEF TypedEngine
  <2>1. e.map[i] # None /\ e.map[i] \in Tunnels /\ e.tun[e.map[i]] # None /\ e.tun[e.map[i]].id = i
    BY <1>1 DEF TypedEngine, EngineRecords
  <2>2. QED
    BY <2>1, <1>1, <1>2, <1>3
<1>5. (e.tun[n].disposed => r.disposed) => Grown(e, f)
  BY <1>1, <1>2, <1>3 DEF Grown
<1>6. QED
  BY <1>1, <1>2, <1>4, <1>5 DEF f

LEMMA StateOfType ==
  ASSUME NEW e, TypedEngine(e), NEW i \in Ids
  PROVE  StateOf(e, i) \in Reported
<1>1. CASE e.map[i] = None
  BY <1>1 DEF StateOf, Reported, States
<1>2. CASE e.map[i] # None
  <2>1. e.tun[e.map[i]] \in TunnelRecords
    BY <1>2 DEF TypedEngine, EngineRecords
  <2>2. QED
    BY <1>2, <2>1 DEF StateOf, Shown, TunnelRecords, Reported
<1>3. QED
  BY <1>1, <1>2

(* What is said of all tunnels at once.                                    *)
LEMMA SpokenFacts ==
  ASSUME NEW e, TypedEngine(e)
  PROVE  LET f == OnTunnelStateChange(e)
         IN  /\ TypedEngine(f) /\ Grown(e, f)
             /\ f.map = e.map /\ f.tun = e.tun /\ f.batch = e.batch
             /\ f.muted = e.muted /\ f.clash = e.clash
             /\ f.timer <=> AnyLive(e)
             /\ \A j \in Ids : f.view[j] = IF e.map[j] = None THEN e.view[j] ELSE StateOf(e, j)
<1> DEFINE t == \E i \in Ids : Live(StateOf(e, i))
           g == [e EXCEPT !.timer = t]
           v == [i \in Ids |-> IF g.map[i] = None THEN g.view[i] ELSE StateOf(g, i)]
           f == [g EXCEPT !.view = v]
<1>1. OnTunnelStateChange(e) = f
  BY DEF OnTunnelStateChange, EmitStats, RefreshStatsTimer
<1>2. t \in BOOLEAN /\ (t <=> AnyLive(e))
  BY DEF AnyLive
<1> HIDE DEF t
<1>3. /\ g.map = e.map /\ g.tun = e.tun /\ g.batch = e.batch /\ g.view = e.view
      /\ g.muted = e.muted /\ g.clash = e.clash /\ g.timer = t
      /\ g \in EngineRecords
  BY <1>2 DEF TypedEngine, EngineRecords
<1> HIDE DEF g
<1>4. \A i \in Ids : StateOf(g, i) = StateOf(e, i)
  BY <1>3 DEF StateOf
<1>5. v \in [Ids -> Reported] /\ \A i \in Ids : v[i] = IF e.map[i] = None THEN e.view[i] ELSE StateOf(e, i)
  BY <1>3, <1>4, StateOfType DEF TypedEngine, EngineRecords
<1> HIDE DEF v
<1>6. /\ f.map = e.map /\ f.tun = e.tun /\ f.batch = e.batch /\ f.view = v
      /\ f.muted = e.muted /\ f.clash = e.clash /\ f.timer = t
      /\ f \in EngineRecords
  BY <1>3, <1>5 DEF EngineRecords
<1> HIDE DEF f
<1>7. TypedEngine(f)
  BY <1>6 DEF TypedEngine
<1>8. Grown(e, f)
  BY <1>6 DEF Grown
<1>9. QED
  BY <1>1, <1>2, <1>5, <1>6, <1>7, <1>8

(* Once it is said nothing is owed.                                        *)
LEMMA SpokenTells ==
  ASSUME NEW e, NEW f, NEW fr, TypedEngine(e),
         f.map = e.map, f.tun = e.tun, f.timer <=> AnyLive(e),
         \A j \in Ids : e.map[j] # None => f.view[j] = StateOf(e, j)
  PROVE  Informed(f, fr, {})
<1>1. \A i \in Ids : StateOf(f, i) = StateOf(e, i)
  BY DEF StateOf
<1>2. AnyLive(f) <=> AnyLive(e)
  BY <1>1 DEF AnyLive
<1>3. QED
  BY <1>1, <1>2 DEF Informed

LEMMA BroadcastFacts ==
  ASSUME NEW e, TypedEngine(e), NEW i \in Ids, NEW s \in Reported
  PROVE  LET f == Broadcast(e, i, s)
         IN  /\ TypedEngine(f) /\ Grown(e, f)
             /\ f.map = e.map /\ f.tun = e.tun /\ f.batch = e.batch
             /\ f.muted = e.muted /\ f.clash = e.clash
             /\ f.timer <=> AnyLive(e)
             /\ \A j \in Ids : f.view[j] = IF e.map[j] # None THEN StateOf(e, j)
                                           ELSE IF j = i THEN s ELSE e.view[j]
<1> DEFINE g == [e EXCEPT !.view = [e.view EXCEPT ![i] = s]]
           f == OnTunnelStateChange(g)
<1>1. Broadcast(e, i, s) = f
  BY DEF Broadcast
<1>2. /\ g.map = e.map /\ g.tun = e.tun /\ g.batch = e.batch /\ g.timer = e.timer
      /\ g.muted = e.muted /\ g.clash = e.clash
      /\ g.view = [e.view EXCEPT ![i] = s]
      /\ g \in EngineRecords
  BY DEF TypedEngine, EngineRecords
<1> HIDE DEF g
<1>3. TypedEngine(g)
  BY <1>2 DEF TypedEngine
<1>4. \A j \in Ids : StateOf(g, j) = StateOf(e, j)
  BY <1>2 DEF StateOf
<1>5. AnyLive(g) <=> AnyLive(e)
  BY <1>4 DEF AnyLive
<1>6. \A j \in Ids : g.view[j] = IF j = i THEN s ELSE e.view[j]
  BY <1>2 DEF TypedEngine, EngineRecords
<1>7. /\ TypedEngine(f) /\ Grown(g, f)
      /\ f.map = g.map /\ f.tun = g.tun /\ f.batch = g.batch
      /\ f.muted = g.muted /\ f.clash = g.clash
      /\ f.timer <=> AnyLive(g)
      /\ \A j \in Ids : f.view[j] = IF g.map[j] = None THEN g.view[j] ELSE StateOf(g, j)
  BY <1>3, SpokenFacts
<1> HIDE DEF f
<1>8. Grown(e, f)
  BY <1>2, <1>7 DEF Grown
<1>9. \A j \in Ids : f.view[j] = IF e.map[j] # None THEN StateOf(e, j)
                                 ELSE IF j = i THEN s ELSE e.view[j]
  BY <1>2, <1>4, <1>6, <1>7
<1>10. QED
  BY <1>1, <1>2, <1>5, <1>7, <1>8, <1>9

LEMMA ShownType ==
  ASSUME NEW t \in TunnelRecords
  PROVE  Shown(t) \in Reported /\ t.id \in Ids
BY DEF Shown, TunnelRecords, Reported

(* A tunnel says how it is.                                                *)
LEMMA Speaks ==
  ASSUME NEW e, NEW fr, MapInv(e, fr), Unmapped(e), Closes(e, fr), NEW n \in Tunnels,
         e.tun[n] # None
  PROVE  LET f == OnStateChange(e, n)
         IN  /\ Inv(f, fr, {}) /\ Grown(e, f)
             /\ f.map = e.map /\ f.tun = e.tun /\ f.muted = e.muted /\ f.clash = e.clash
<1> DEFINE t == e.tun[n]
           f == OnStateChange(e, n)
<1>1. TypedEngine(e) /\ t \in TunnelRecords
  BY DEF MapInv, TypedEngine, EngineRecords
<1>2. Shown(t) \in Reported /\ t.id \in Ids
  BY <1>1, ShownType
<1>3. \A i \in Ids : (store[i] # "absent" /\ e.map[i] = None /\ i \notin e.muted) => i # t.id
  BY DEF Unmapped, Unused
<1>4. CASE e.batch = None
  <2>1. f = Broadcast(e, t.id, Shown(t))
    BY <1>4 DEF OnStateChange
  <2> HIDE DEF f
  <2>2. /\ TypedEngine(f) /\ Grown(e, f)
        /\ f.map = e.map /\ f.tun = e.tun /\ f.batch = e.batch
        /\ f.muted = e.muted /\ f.clash = e.clash
        /\ f.timer <=> AnyLive(e)
        /\ \A j \in Ids : f.view[j] = IF e.map[j] # None THEN StateOf(e, j)
                                      ELSE IF j = t.id THEN Shown(t) ELSE e.view[j]
    BY <1>1, <1>2, <2>1, BroadcastFacts
  <2>3. MapInv(f, fr)
    BY <2>2, GrownKeeps
  <2>4. Informed(f, fr, {})
    BY <1>1, <2>2, SpokenTells
  <2>5. Unmapped(f) /\ Closes(f, fr)
    BY <1>3, <1>4, <2>2 DEF Unmapped, Unused, Blank, Closes
  <2>6. QED
    BY <2>2, <2>3, <2>4, <2>5 DEF Inv, TellInv, f
<1>5. CASE e.batch # None
  <2> DEFINE g == [e EXCEPT !.batch = [e.batch EXCEPT ![t.id] = Shown(t)]]
  <2>1. f = g
    BY <1>5 DEF OnStateChange
  <2> HIDE DEF f
  <2>2. e.batch \in [Ids -> Reported \cup {None}]
    BY <1>1, <1>5 DEF TypedEngine, EngineRecords
  <2>3. /\ g.map = e.map /\ g.tun = e.tun /\ g.timer = e.timer /\ g.view = e.view
        /\ g.muted = e.muted /\ g.clash = e.clash
        /\ g.batch = [e.batch EXCEPT ![t.id] = Shown(t)]
        /\ g \in EngineRecords
    BY <1>1, <1>2, <2>2 DEF TypedEngine, EngineRecords
  <2> HIDE DEF g
  <2>4. TypedEngine(g) /\ Grown(e, g)
    BY <1>1, <2>3 DEF TypedEngine, Grown
  <2>5. MapInv(g, fr)
    BY <2>4, GrownKeeps
  <2>6. g.batch \in [Ids -> Reported \cup {None}] /\ g.batch # None
    BY <1>2, <2>2, <2>3, NotNull
  <2>7. Informed(g, fr, {}) /\ Closes(g, fr)
    BY <1>5, <2>6 DEF Informed, Closes
  <2>8. Unmapped(g)
    BY <1>3, <1>5, <2>2, <2>3 DEF Unmapped, Unused, Blank
  <2>9. QED
    BY <2>1, <2>3, <2>4, <2>5, <2>7, <2>8 DEF Inv, TellInv, f
<1>6. QED
  BY <1>4, <1>5

(* Tidying up forgets nothing that matters.                                *)
LEMMA TidyKeeps ==
  ASSUME NEW e, NEW fr, Inv(e, fr, {})
  PROVE  Inv(Tidy(e, fr), fr, {}) /\ Forgotten(Tidy(e, fr), fr)
<1> DEFINE dropped(n) == /\ e.tun[n] # None /\ n \notin Mapped(e) \cup Referred(fr)
                         /\ e.tun[n].disposed \/ e.tun[n].id \in e.clash
           tun == [n \in Tunnels |-> IF dropped(n) THEN None ELSE e.tun[n]]
           over == {i \in Ids :
                     /\ store[i] = "absent"
                     /\ \A n \in Tunnels : tun[n] # None => tun[n].id # i
                     /\ \A c \in Calls : fr[c] # None =>
                          fr[c].id # i /\ \A todo \in fr[c].todo : todo[2] # i}
           v == [i \in Ids |-> IF i \in over THEN "disarmed" ELSE e.view[i]]
           b == IF e.batch = None THEN None
                ELSE [i \in Ids |-> IF i \in over THEN None ELSE e.batch[i]]
           t == [e EXCEPT !.tun = tun, !.muted = e.muted \ over, !.clash = e.clash \ over,
                          !.view = v, !.batch = b]
<1>1. Tidy(e, fr) = t
  <2>1. /\ tun = [n \in Tunnels |->
               IF /\ e.tun[n] # None /\ n \notin Mapped(e) \cup Referred(fr)
                  /\ e.tun[n].disposed \/ e.tun[n].id \in e.clash
               THEN None ELSE e.tun[n]]
    OBVIOUS
  <2>2. QED
    BY DEF Tidy
<1>2. /\ TypedEngine(e) /\ TypedFrames(fr) /\ Points(e, fr) /\ Owns(e) /\ Buried(e, fr)
      /\ Alone(e, fr) /\ Kept(e, fr) /\ Leaves(e, fr)
      /\ Unmapped(e) /\ Informed(e, fr, {}) /\ Closes(e, fr)
  BY DEF Inv, MapInv, TellInv
<1>3. \A n \in Tunnels : tun[n] # None => tun[n] = e.tun[n] /\ e.tun[n] # None
  OBVIOUS
<1>4. \A i \in Ids : e.map[i] # None => e.map[i] \in Tunnels /\ tun[e.map[i]] = e.tun[e.map[i]]
  BY <1>2 DEF TypedEngine, EngineRecords, Mapped
<1>5. \A c \in Calls : (fr[c] # None /\ fr[c].at # "ready") => tun[fr[c].on] = e.tun[fr[c].on]
  <2> SUFFICES ASSUME NEW c \in Calls, fr[c] # None, fr[c].at # "ready"
               PROVE  tun[fr[c].on] = e.tun[fr[c].on]
    OBVIOUS
  <2>1. fr[c].on \in Tunnels
    BY <1>2 DEF Points
  <2>2. fr[c].on \in Referred(fr)
    BY <2>1, NotNull DEF Referred
  <2>3. QED
    BY <2>1, <2>2
<1>6. tun \in [Tunnels -> TunnelRecords \cup {None}]
  BY <1>2 DEF TypedEngine, EngineRecords
<1>7. v \in [Ids -> Reported]
  BY <1>2 DEF TypedEngine, EngineRecords, Reported, States
<1>8. b \in {None} \cup [Ids -> Reported \cup {None}] /\ (b # None => e.batch # None)
  <2>1. CASE e.batch = None
    BY <2>1
  <2>2. CASE e.batch # None
    <3>1. e.batch \in [Ids -> Reported \cup {None}]
      BY <1>2, <2>2 DEF TypedEngine, EngineRecords
    <3>2. QED
      BY <2>2, <3>1
  <2>3. QED
    BY <2>1, <2>2
<1>9. e.batch = None => b = None
  OBVIOUS
<1>10. \A i \in Ids : b # None => b[i] = IF i \in over THEN None ELSE e.batch[i]
  BY <1>8
<1>11. \A i \in Ids : v[i] = IF i \in over THEN "disarmed" ELSE e.view[i]
  OBVIOUS
<1>12. \A i \in over : /\ i \in Ids /\ store[i] = "absent"
                       /\ \A n \in Tunnels : tun[n] # None => tun[n].id # i
                       /\ \A c \in Calls : fr[c] # None => fr[c].id # i
  OBVIOUS
<1>13. \A i \in Ids : (/\ store[i] = "absent"
                       /\ \A n \in Tunnels : tun[n] # None => tun[n].id # i
                       /\ \A c \in Calls : fr[c] # None =>
                            fr[c].id # i /\ \A todo \in fr[c].todo : todo[2] # i) => i \in over
  OBVIOUS
<1>14. over \subseteq Ids
  OBVIOUS
<1> HIDE DEF tun, over, v, b
<1>15. /\ t.map = e.map /\ t.tun = tun /\ t.timer = e.timer /\ t.view = v /\ t.batch = b
       /\ t.muted = e.muted \ over /\ t.clash = e.clash \ over /\ t \in EngineRecords
  BY <1>2, <1>6, <1>7, <1>8 DEF TypedEngine, EngineRecords
<1> HIDE DEF t
<1>16. \A i \in Ids : e.map[i] # None => i \notin over
  BY <1>2, <1>4, <1>12 DEF TypedEngine
<1>17. \A i \in Ids : StateOf(t, i) = StateOf(e, i)
  BY <1>4, <1>15 DEF StateOf
<1>18. \A c \in Calls : WillTell(e, fr[c]) => WillTell(t, fr[c])
  BY <1>5, <1>15 DEF WillTell
<1>19. TypedEngine(t)
  BY <1>2, <1>4, <1>15 DEF TypedEngine
<1>20. Points(t, fr)
  BY <1>2, <1>5, <1>15 DEF Points
<1>21. Owns(t)
  BY <1>2, <1>3, <1>12, <1>15 DEF Owns
<1>22. Buried(t, fr)
  <2> SUFFICES ASSUME NEW c \in Calls, fr[c] # None, fr[c].at \in Ends, fr[c].id \notin t.clash
               PROVE  AllBuried(t, fr[c].id)
    BY DEF Buried
  <2>1. fr[c].id \notin e.clash
    BY <1>12, <1>15
  <2>2. AllBuried(e, fr[c].id)
    BY <1>2, <2>1 DEF Buried
  <2>3. QED
    BY <2>2, <1>3, <1>15 DEF AllBuried
<1>23. Alone(t, fr)
  BY <1>2, <1>12, <1>15 DEF Alone
<1>24. Kept(t, fr)
  BY <1>2, <1>12, <1>15 DEF Kept
<1>25. Leaves(t, fr)
  BY <1>2, <1>15, <1>16 DEF Leaves
<1>26. Unmapped(t)
  <2> SUFFICES ASSUME NEW i \in Ids, store[i] # "absent", t.map[i] = None, i \notin t.muted
               PROVE  Unused(t, i) /\ Blank(t, i)
    BY DEF Unmapped
  <2>1. i \notin over /\ e.map[i] = None /\ i \notin e.muted
    BY <1>12, <1>15
  <2>2. Unused(e, i) /\ Blank(e, i)
    BY <1>2, <2>1 DEF Unmapped
  <2>3. Unused(t, i)
    BY <2>2, <1>3, <1>15 DEF Unused
  <2>4. Blank(t, i)
    BY <2>1, <2>2, <1>8, <1>10, <1>11, <1>15 DEF Blank
  <2>5. QED
    BY <2>3, <2>4
<1>27. Informed(t, fr, {})
  <2> SUFFICES ASSUME t.batch = None
               PROVE  /\ AnyLive(t) => t.timer
                      /\ (t.timer /\ ~AnyLive(t)) => \E c \in Calls : WillTell(t, fr[c])
                      /\ \A i \in Ids : (t.map[i] # None /\ t.view[i] # StateOf(t, i)) =>
                           \E c \in Calls : WillTell(t, fr[c]) /\ fr[c].id = i
    BY DEF Informed
  <2>1. e.batch = None
    <3>1. CASE e.batch # None
      <4>1. b = [i \in Ids |-> IF i \in over THEN None ELSE e.batch[i]]
        BY <3>1 DEF b
      <4>2. e.batch \in [Ids -> Reported \cup {None}]
        BY <3>1, <1>2 DEF TypedEngine, EngineRecords
      <4>3. b \in [Ids -> Reported \cup {None}]
        BY <4>1, <4>2
      <4>4. QED
        BY <4>3, <1>15, NotNull
    <3>2. QED
      BY <3>1
  <2>2. AnyLive(t) <=> AnyLive(e)
    BY <1>17 DEF AnyLive
  <2>3. /\ AnyLive(e) => e.timer
        /\ (e.timer /\ ~AnyLive(e)) => \E c \in Calls : WillTell(e, fr[c])
        /\ \A i \in Ids : (e.map[i] # None /\ e.view[i] # StateOf(e, i)) =>
             \E c \in Calls : WillTell(e, fr[c]) /\ fr[c].id = i
    BY <1>2, <2>1 DEF Informed
  <2>4. \A i \in Ids : e.map[i] # None => t.view[i] = e.view[i]
    BY <1>11, <1>15, <1>16
  <2>5. QED
    BY <2>2, <2>3, <2>4, <1>15, <1>17, <1>18
<1>28. Closes(t, fr)
  BY <1>2, <1>8, <1>15 DEF Closes
<1>29. Forgotten(t, fr)
  <2> SUFFICES ASSUME NEW i \in Ids, Over(t, fr, i)
               PROVE  Blank(t, i)
    BY DEF Forgotten
  <2>1. i \in over
    BY <1>13, <1>15 DEF Over, Unused
  <2>2. QED
    BY <2>1, <1>10, <1>11, <1>15 DEF Blank
<1>30. QED
  BY <1>1, <1>2, <1>19, <1>20, <1>21, <1>22, <1>23, <1>24, <1>25, <1>26, <1>27, <1>28, <1>29
     DEF Inv, MapInv, TellInv

(* A macrotask that ends in a sound engine restores the invariant.         *)
LEMMA Settles ==
  ASSUME NEW e, NEW fr, Inv(e, fr, {}), Continues(e, fr), store' = store,
         store \in [Ids -> Defs]
  PROVE  EInv'
<1>1. Inv(Tidy(e, fr), fr, {}) /\ Forgotten(Tidy(e, fr), fr)
  BY TidyKeeps
<1>2. eng' = Tidy(e, fr) /\ frames' = fr
  BY DEF Continues
<1>3. Inv(eng', frames', {}) /\ Forgotten(eng', frames')
  BY <1>1, <1>2
<1>4. QED
  BY <1>3 DEF EInv, Inv, MapInv, TellInv, Forgotten, Over, Kept, Leaves, Unmapped, Informed, Closes,
     TypedEngine, TypedFrames, Points, Owns, Buried, AllBuried, Alone, Due, Going, Unused, Blank,
     AnyLive, WillTell

(* A tunnel changes without a word: what it was is owed to its id.         *)
LEMMA PutOwes ==
  ASSUME NEW e, NEW fr, NEW X, Inv(e, fr, X), NEW n \in Tunnels, e.tun[n] # None,
         NEW r \in TunnelRecords, r.id = e.tun[n].id, e.tun[n].disposed => r.disposed,
         Live(Shown(r)) => Live(Shown(e.tun[n]))
  PROVE  /\ Inv(Put(e, n, r), fr, X \cup {r.id})
         /\ (r.disposed = e.tun[n].disposed /\ Shown(r) = Shown(e.tun[n])) => Inv(Put(e, n, r), fr, X)
<1> DEFINE f == Put(e, n, r)
<1>1. MapInv(e, fr) /\ Unmapped(e) /\ Informed(e, fr, X) /\ Closes(e, fr) /\ TypedEngine(e) /\ Points(e, fr)
  BY DEF Inv, TellInv, MapInv
<1>2. /\ TypedEngine(f)
      /\ f.map = e.map /\ f.batch = e.batch /\ f.timer = e.timer /\ f.view = e.view
      /\ f.muted = e.muted /\ f.clash = e.clash
      /\ f.tun[n] = r
      /\ \A m \in Tunnels \ {n} : f.tun[m] = e.tun[m]
      /\ Grown(e, f)
  BY <1>1, PutFacts
<1> HIDE DEF f
<1>3. MapInv(f, fr)
  BY <1>1, <1>2, GrownKeeps
<1>4. Unmapped(f) /\ Closes(f, fr)
  BY <1>1, <1>2 DEF Unmapped, Unused, Blank, Closes, Grown
<1>5. \A i \in Ids : Live(StateOf(f, i)) => Live(StateOf(e, i))
  BY <1>1, <1>2 DEF StateOf, TypedEngine, EngineRecords
<1>6. \A i \in Ids \ {r.id} : StateOf(f, i) = StateOf(e, i)
  BY <1>1, <1>2 DEF StateOf, TypedEngine, EngineRecords
<1>7. \A c \in Calls : (WillTell(e, fr[c]) /\ fr[c].id # r.id) => WillTell(f, fr[c])
  BY <1>1, <1>2 DEF WillTell, Points
<1>8. r.id \in Ids
  BY DEF TunnelRecords
<1>9. Informed(f, fr, X \cup {r.id})
  <2>1. AnyLive(f) => AnyLive(e)
    BY <1>5 DEF AnyLive
  <2>2. QED
    BY <1>1, <1>2, <1>6, <1>7, <2>1 DEF Informed
<1>10. ASSUME r.disposed = e.tun[n].disposed, Shown(r) = Shown(e.tun[n])
       PROVE  Informed(f, fr, X)
  <2>1. \A i \in Ids : StateOf(f, i) = StateOf(e, i)
    BY <1>1, <1>2, <1>10 DEF StateOf, TypedEngine, EngineRecords
  <2>2. AnyLive(f) <=> AnyLive(e)
    BY <2>1 DEF AnyLive
  <2>3. \A c \in Calls : WillTell(e, fr[c]) => WillTell(f, fr[c])
    BY <1>1, <1>2, <1>10 DEF WillTell, Points
  <2>4. QED
    BY <1>1, <1>2, <2>1, <2>2, <2>3 DEF Informed
<1>11. QED
  BY <1>3, <1>4, <1>9, <1>10 DEF Inv, TellInv, f

(* The engine with a new tunnel n of i in the map.                         *)
Anew(e, n, r, i) ==
  [e EXCEPT !.tun = [e.tun EXCEPT ![n] = r], !.map = [e.map EXCEPT ![i] = n], !.muted = e.muted \ {i}]

(* A new tunnel takes the place of buried ones.                            *)
LEMMA Fresh ==
  ASSUME NEW e, NEW fr, NEW X, Inv(e, fr, X), NEW n \in Tunnels, e.tun[n] = None, NEW i \in Ids,
         i \in e.clash \/ /\ AllBuried(e, i)
                          /\ store[i] # "absent"
                          /\ \A c \in Calls : fr[c] # None /\ fr[c].at \in Ends => fr[c].id # i,
         NEW r \in TunnelRecords, r.id = i, Shown(r) = "disarmed"
  PROVE  Inv(Anew(e, n, r, i), fr, X \cup {i}) /\ Anew(e, n, r, i).tun[n] = r
<1> DEFINE f == Anew(e, n, r, i)
<1>1. /\ TypedEngine(e) /\ TypedFrames(fr) /\ Points(e, fr) /\ Owns(e) /\ Buried(e, fr)
      /\ Alone(e, fr) /\ Kept(e, fr) /\ Leaves(e, fr)
      /\ Unmapped(e) /\ Informed(e, fr, X) /\ Closes(e, fr)
  BY DEF Inv, MapInv, TellInv
<1>2. /\ f.batch = e.batch /\ f.timer = e.timer /\ f.view = e.view
      /\ f.muted = e.muted \ {i} /\ f.clash = e.clash
      /\ f.tun = [e.tun EXCEPT ![n] = r] /\ f.map = [e.map EXCEPT ![i] = n]
      /\ f \in EngineRecords
  BY <1>1 DEF Anew, TypedEngine, EngineRecords
<1> HIDE DEF f
<1>3. /\ f.tun[n] = r /\ (\A m \in Tunnels \ {n} : f.tun[m] = e.tun[m])
      /\ f.map[i] = n /\ (\A j \in Ids \ {i} : f.map[j] = e.map[j])
  BY <1>1, <1>2 DEF TypedEngine, EngineRecords
<1>4. r # None /\ n # None
  BY NotNull
<1>5. \A j \in Ids : e.map[j] # None => e.map[j] \in Tunnels \ {n} /\ e.tun[e.map[j]] # None /\ e.tun[e.map[j]].id = j
  BY <1>1 DEF TypedEngine, EngineRecords
<1>6. TypedEngine(f)
  BY <1>2, <1>3, <1>4, <1>5 DEF TypedEngine
<1>7. Points(f, fr)
  BY <1>1, <1>3 DEF Points
<1>8. Owns(f)
  BY <1>1, <1>2, <1>3 DEF Owns, AllBuried, TypedEngine, EngineRecords, TunnelRecords
<1>9. Buried(f, fr)
  <2> SUFFICES ASSUME NEW c \in Calls, fr[c] # None, fr[c].at \in Ends, fr[c].id \notin f.clash
               PROVE  AllBuried(f, fr[c].id)
    BY DEF Buried
  <2>1. fr[c].id # i /\ AllBuried(e, fr[c].id)
    BY <1>1, <1>2 DEF Buried
  <2>2. QED
    BY <2>1, <1>3 DEF AllBuried
<1>10. Alone(f, fr) /\ Kept(f, fr)
  BY <1>1, <1>2 DEF Alone, Kept
<1>11. Leaves(f, fr)
  BY <1>1, <1>2, <1>3 DEF Leaves
<1>12. Unmapped(f)
  BY <1>1, <1>2, <1>3, <1>4 DEF Unmapped, Unused, Blank
<1>13. Closes(f, fr)
  BY <1>1, <1>2 DEF Closes
<1>14. \A j \in Ids \ {i} : StateOf(f, j) = StateOf(e, j)
  BY <1>3, <1>5 DEF StateOf
<1>15. StateOf(f, i) = "disarmed"
  BY <1>3, <1>4 DEF StateOf
<1>16. AnyLive(f) => AnyLive(e)
  BY <1>14, <1>15 DEF AnyLive, Live
<1>17. \A c \in Calls : WillTell(e, fr[c]) => WillTell(f, fr[c])
  BY <1>1, <1>3 DEF WillTell, Points
<1>18. Informed(f, fr, X \cup {i})
  BY <1>1, <1>2, <1>3, <1>14, <1>16, <1>17 DEF Informed
<1>19. QED
  BY <1>1, <1>2, <1>3, <1>6, <1>7, <1>8, <1>9, <1>10, <1>11, <1>12, <1>13, <1>18 DEF Inv, MapInv, TellInv, f

(* What makes x a sound next frame of a call, in an engine e beside the    *)
(* frames fr of the others.                                                *)
Fits(e, fr, c, x) ==
  x # None =>
    /\ IF x.at = "ready" THEN x.id = None /\ x.on = None
       ELSE x.on \in Tunnels /\ x.id \in Ids /\ e.tun[x.on] # None /\ e.tun[x.on].id = x.id
    /\ x.at \in Ends =>
         /\ x.id \in e.clash \/ AllBuried(e, x.id)
         /\ \A d \in Calls \ {c} :
              (/\ fr[d] # None /\ fr[d].id = x.id /\ fr[d].at \in Ends
               /\ "replacing" \in {x.at, fr[d].at}) => x.id \in e.clash
    /\ x.at = "removing" => store[x.id] = "absent"
    /\ (x.at = "replacing" /\ store[x.id] = "absent") => x.id \in e.clash

(* What the old frame of the call stood for.                               *)
Relieves(e, fr, c, x) ==
  /\ \A j \in Ids :
       (fr[c] # None /\ fr[c].at = "ready" /\ fr[c].todo = {<<"reconcile", j>>}) =>
         \A d \in Calls \ {c} : (fr[d] # None /\ fr[d].at = "replacing" /\ fr[d].id = j)
           => j \in e.clash
  /\ \A j \in Ids :
       (/\ store[j] = "absent" /\ j \notin e.clash /\ e.map[j] # None
        /\ fr[c] # None
        /\ \/ fr[c].at = "ready" /\ fr[c].todo = {<<"reconcile", j>>}
           \/ fr[c].at = "removing" /\ fr[c].id = j)
         => x # None /\ x.at = "removing" /\ x.id = j

(* Another frame for a call keeps the map sound.                           *)
LEMMA Reframed ==
  ASSUME NEW e, NEW fr, MapInv(e, fr), NEW c \in Calls, NEW x \in FrameRecords \cup {None},
         Fits(e, fr, c, x), Relieves(e, fr, c, x)
  PROVE  MapInv(e, [fr EXCEPT ![c] = x])
<1> DEFINE g == [fr EXCEPT ![c] = x]
<1>1. /\ TypedEngine(e) /\ TypedFrames(fr) /\ Points(e, fr) /\ Owns(e) /\ Buried(e, fr)
      /\ Alone(e, fr) /\ Kept(e, fr) /\ Leaves(e, fr)
  BY DEF MapInv
<1>2. TypedFrames(g) /\ g[c] = x /\ \A d \in Calls \ {c} : g[d] = fr[d]
  BY <1>1 DEF TypedFrames
<1> HIDE DEF g
<1>4. Points(e, g)
  BY <1>1, <1>2 DEF Points, Fits
<1>5. Buried(e, g)
  BY <1>1, <1>2 DEF Buried, Fits
<1>6. Alone(e, g)
  <2> SUFFICES ASSUME NEW p \in Calls, NEW q \in Calls, p # q, g[p] # None, g[q] # None,
                      g[p].id = g[q].id, g[p].at = "replacing", g[q].at \in Ends
               PROVE  g[p].id \in e.clash
    BY DEF Alone
  <2>1. CASE p = c
    BY <2>1, <1>2 DEF Fits, Ends
  <2>2. CASE q = c
    BY <2>2, <1>2 DEF Fits, Ends
  <2>3. CASE p # c /\ q # c
    BY <2>3, <1>1, <1>2 DEF Alone
  <2>4. QED
    BY <2>1, <2>2, <2>3
<1>7. Kept(e, g)
  <2> SUFFICES ASSUME NEW p \in Calls, g[p] # None
               PROVE  /\ g[p].at = "removing" => store[g[p].id] = "absent"
                      /\ (g[p].at = "replacing" /\ store[g[p].id] = "absent")
                           => g[p].id \in e.clash \/ Due(g, g[p].id)
    BY DEF Kept
  <2>1. CASE p = c
    BY <2>1, <1>2 DEF Fits
  <2>2. CASE p # c
    <3>1. g[p] = fr[p]
      BY <2>2, <1>2
    <3>2. ASSUME fr[p].at = "replacing", store[fr[p].id] = "absent", fr[p].id \notin e.clash
          PROVE  Due(g, fr[p].id)
      <4>1. fr[p].id \in Ids
        BY <3>1, <3>2, <1>1 DEF Points
      <4>2. PICK d \in Calls : fr[d] # None /\ fr[d].at = "ready" /\ fr[d].todo = {<<"reconcile", fr[p].id>>}
        BY <3>1, <3>2, <1>1 DEF Kept, Due
      <4>3. d # c
        BY <4>1, <4>2, <3>1, <3>2, <2>2 DEF Relieves
      <4>4. QED
        BY <4>2, <4>3, <1>2 DEF Due
    <3>3. QED
      BY <3>1, <3>2, <1>1 DEF Kept
  <2>3. QED
    BY <2>1, <2>2
<1>8. Leaves(e, g)
  <2> SUFFICES ASSUME NEW j \in Ids, store[j] = "absent", j \notin e.clash, e.map[j] # None
               PROVE  Due(g, j) \/ Going(g, j)
    BY DEF Leaves
  <2>1. Due(fr, j) \/ Going(fr, j)
    BY <1>1 DEF Leaves
  <2>2. ASSUME NEW d \in Calls, fr[d] # None,
               \/ fr[d].at = "ready" /\ fr[d].todo = {<<"reconcile", j>>}
               \/ fr[d].at = "removing" /\ fr[d].id = j
        PROVE  Due(g, j) \/ Going(g, j)
    <3>1. CASE d = c
      BY <2>2, <3>1, <1>2 DEF Relieves, Going
    <3>2. CASE d # c
      BY <2>2, <3>2, <1>2 DEF Due, Going
    <3>3. QED
      BY <3>1, <3>2
  <2>3. QED
    BY <2>1, <2>2 DEF Due, Going
<1>9. QED
  BY <1>1, <1>2, <1>4, <1>5, <1>6, <1>7, <1>8 DEF MapInv, g

(* ... and what is owed, if the new frame takes over the debts.            *)
LEMMA ReframedTells ==
  ASSUME NEW e, NEW fr, TypedFrames(fr), NEW X, NEW Y, TellInv(e, fr, X), NEW c \in Calls,
         NEW x \in FrameRecords \cup {None},
         (fr[c] # None /\ fr[c].bulk) => x # None /\ x.bulk,
         WillTell(e, fr[c]) => fr[c].id \in Y \/ (WillTell(e, x) /\ x.id = fr[c].id),
         \A i \in X : i \in Y \/ (WillTell(e, x) /\ x.id = i)
  PROVE  TellInv(e, [fr EXCEPT ![c] = x], Y)
<1> DEFINE g == [fr EXCEPT ![c] = x]
<1>1. Unmapped(e) /\ Informed(e, fr, X) /\ Closes(e, fr)
  BY DEF TellInv
<1>2. TypedFrames(g) /\ g[c] = x /\ \A d \in Calls \ {c} : g[d] = fr[d]
  BY DEF TypedFrames
<1> HIDE DEF g
<1>3. Closes(e, g)
  BY <1>1, <1>2 DEF Closes
<1>4. Informed(e, g, Y)
  <2> SUFFICES ASSUME e.batch = None
               PROVE  /\ AnyLive(e) => e.timer
                      /\ (e.timer /\ ~AnyLive(e) /\ Y = {}) => \E d \in Calls : WillTell(e, g[d])
                      /\ \A i \in Ids \ Y : (e.map[i] # None /\ e.view[i] # StateOf(e, i)) =>
                           \E d \in Calls : WillTell(e, g[d]) /\ g[d].id = i
    BY DEF Informed
  <2>1. /\ AnyLive(e) => e.timer
        /\ (e.timer /\ ~AnyLive(e) /\ X = {}) => \E d \in Calls : WillTell(e, fr[d])
        /\ \A i \in Ids \ X : (e.map[i] # None /\ e.view[i] # StateOf(e, i)) =>
             \E d \in Calls : WillTell(e, fr[d]) /\ fr[d].id = i
    BY <1>1 DEF Informed
  <2>2. ASSUME e.timer, ~AnyLive(e), Y = {}
        PROVE  \E d \in Calls : WillTell(e, g[d])
    <3>1. CASE X = {}
      BY <2>1, <2>2, <3>1, <1>2
    <3>2. CASE X # {}
      BY <2>2, <3>2, <1>2
    <3>3. QED
      BY <3>1, <3>2
  <2>3. ASSUME NEW i \in Ids \ Y, e.map[i] # None, e.view[i] # StateOf(e, i)
        PROVE  \E d \in Calls : WillTell(e, g[d]) /\ g[d].id = i
    <3>1. CASE i \in X
      BY <3>1, <1>2
    <3>2. CASE i \notin X
      <4>1. PICK d \in Calls : WillTell(e, fr[d]) /\ fr[d].id = i
        BY <2>1, <2>3, <3>2
      <4>2. QED
        BY <4>1, <1>2
    <3>3. QED
      BY <3>1, <3>2
  <2>4. QED
    BY <2>1, <2>2, <2>3
<1>5. QED
  BY <1>1, <1>3, <1>4 DEF TellInv, g

LEMMA PutOnce ==
  ASSUME NEW e, TypedEngine(e), NEW n \in Tunnels, NEW r
  PROVE  Put(e, n, r).tun[n] = r
<1>1. e.tun \in [Tunnels -> TunnelRecords \cup {None}] /\ e \in EngineRecords
  BY DEF TypedEngine, EngineRecords
<1>2. QED
  BY <1>1 DEF Put, EngineRecords

LEMMA PutTwice ==
  ASSUME NEW e, TypedEngine(e), NEW n \in Tunnels, NEW r, NEW q
  PROVE  Put(Put(e, n, r), n, q) = Put(e, n, q)
<1>1. e.tun \in [Tunnels -> TunnelRecords \cup {None}] /\ e \in EngineRecords
  BY DEF TypedEngine, EngineRecords
<1>2. [[e.tun EXCEPT ![n] = r] EXCEPT ![n] = q] = [e.tun EXCEPT ![n] = q]
  BY <1>1
<1>3. Put(e, n, r).tun = [e.tun EXCEPT ![n] = r]
  BY <1>1 DEF Put, EngineRecords
<1>4. [Put(e, n, r) EXCEPT !.tun = [e.tun EXCEPT ![n] = q]] = [e EXCEPT !.tun = [e.tun EXCEPT ![n] = q]]
  BY <1>1 DEF Put, EngineRecords
<1>5. QED
  BY <1>2, <1>3, <1>4 DEF Put

(* Two changes of one tunnel are one.                                      *)
LEMMA PutAfter ==
  ASSUME NEW e, TypedEngine(e), NEW n \in Tunnels, NEW d, NEW r, NEW q, d = Put(e, n, r)
  PROVE  d.tun[n] = r /\ Put(d, n, q) = Put(e, n, q)
BY PutOnce, PutTwice

LEMMA DisposedIsPut ==
  ASSUME NEW e, TypedEngine(e), NEW n \in Tunnels
  PROVE  Disposed(e, n)
          = Put(e, n, [e.tun[n] EXCEPT !.state = "disarmed", !.paused = FALSE, !.pending = "absent"])
<1> DEFINE t == e.tun[n]
           q1 == [t EXCEPT !.state = "disarmed"]
           q2 == [t EXCEPT !.state = "disarmed", !.paused = FALSE]
           q3 == [t EXCEPT !.state = "disarmed", !.paused = FALSE, !.pending = "absent"]
           p1 == Put(e, n, q1)
           p2 == Put(p1, n, [p1.tun[n] EXCEPT !.paused = FALSE])
           p3 == Put(p2, n, [p2.tun[n] EXCEPT !.pending = "absent"])
<1>1. Disposed(e, n) = p3
  BY DEF Disposed, Put
<1>2. [q1 EXCEPT !.paused = FALSE] = q2 /\ [q2 EXCEPT !.pending = "absent"] = q3
  OBVIOUS
<1> HIDE DEF q1, q2, q3
<1>3. p1.tun[n] = q1 /\ Put(p1, n, q2) = Put(e, n, q2)
  BY PutAfter
<1>4. p2 = Put(e, n, q2)
  BY <1>2, <1>3
<1> HIDE DEF p2
<1>5. p2.tun[n] = q2 /\ Put(p2, n, q3) = Put(e, n, q3)
  BY <1>4, PutAfter
<1>6. p3 = Put(e, n, q3)
  BY <1>2, <1>5
<1>7. QED
  BY <1>1, <1>6 DEF q3

LEMMA OpsArePuts ==
  ASSUME NEW e, TypedEngine(e), NEW n \in Tunnels, e.tun[n] # None
  PROVE  LET t == e.tun[n]
         IN  /\ t \in TunnelRecords
             /\ Closing(e, n) = Put(e, n, [t EXCEPT !.bound = FALSE])
             /\ Dispose(e, n) = Put(e, n, [t EXCEPT !.bound = FALSE, !.disposed = TRUE])
             /\ Disposed(Dispose(e, n), n)
                  = Put(e, n, [t EXCEPT !.bound = FALSE, !.disposed = TRUE, !.state = "disarmed",
                                        !.paused = FALSE, !.pending = "absent"])
             /\ [Closing(e, n) EXCEPT !.tun[n].paused = FALSE]
                  = Put(e, n, [t EXCEPT !.bound = FALSE, !.paused = FALSE])
             /\ \A s : SetState(e, n, s) = OnStateChange(Put(e, n, [t EXCEPT !.state = s]), n)
             /\ Disarmed(e, n)
                  = OnStateChange(Put(e, n, [t EXCEPT !.paused = FALSE, !.state = "disarmed"]), n)
<1> DEFINE t == e.tun[n]
           r1 == [t EXCEPT !.bound = FALSE]
           r2 == [t EXCEPT !.bound = FALSE, !.disposed = TRUE]
           r4 == [t EXCEPT !.paused = FALSE]
           p1 == Put(e, n, r1)
           p4 == Put(e, n, r4)
<1>0. t \in TunnelRecords
  BY DEF TypedEngine, EngineRecords
<1>1. Closing(e, n) = p1
  BY DEF Closing, Put
<1>2. Dispose(e, n) = Put(e, n, r2)
  <2>1. Dispose(e, n) = Put(p1, n, [p1.tun[n] EXCEPT !.disposed = TRUE])
    BY <1>1 DEF Dispose, Put
  <2>2. [r1 EXCEPT !.disposed = TRUE] = r2
    OBVIOUS
  <2> HIDE DEF r1, r2
  <2>3. p1.tun[n] = r1 /\ Put(p1, n, r2) = Put(e, n, r2)
    BY PutAfter
  <2>4. QED
    BY <2>1, <2>2, <2>3
<1>3. [Closing(e, n) EXCEPT !.tun[n].paused = FALSE] = Put(e, n, [t EXCEPT !.bound = FALSE, !.paused = FALSE])
  <2> DEFINE q == [t EXCEPT !.bound = FALSE, !.paused = FALSE]
  <2>1. [Closing(e, n) EXCEPT !.tun[n].paused = FALSE] = Put(p1, n, [p1.tun[n] EXCEPT !.paused = FALSE])
    BY <1>1 DEF Put
  <2>2. [r1 EXCEPT !.paused = FALSE] = q
    OBVIOUS
  <2> HIDE DEF r1, q
  <2>3. p1.tun[n] = r1 /\ Put(p1, n, q) = Put(e, n, q)
    BY PutAfter
  <2>4. QED
    BY <2>1, <2>2, <2>3 DEF q
<1>4. \A s : SetState(e, n, s) = OnStateChange(Put(e, n, [t EXCEPT !.state = s]), n)
  BY DEF SetState, Put
<1>6. Disarmed(e, n) = OnStateChange(Put(e, n, [t EXCEPT !.paused = FALSE, !.state = "disarmed"]), n)
  <2> DEFINE q == [t EXCEPT !.paused = FALSE, !.state = "disarmed"]
  <2>1. Disarmed(e, n) = OnStateChange(Put(p4, n, [p4.tun[n] EXCEPT !.state = "disarmed"]), n)
    BY DEF Disarmed, SetState, Put
  <2>2. [r4 EXCEPT !.state = "disarmed"] = q
    OBVIOUS
  <2> HIDE DEF r4, q
  <2>3. p4.tun[n] = r4 /\ Put(p4, n, q) = Put(e, n, q)
    BY PutAfter
  <2>4. QED
    BY <2>1, <2>2, <2>3 DEF q
<1>5. Disposed(Dispose(e, n), n)
        = Put(e, n, [t EXCEPT !.bound = FALSE, !.disposed = TRUE, !.state = "disarmed",
                              !.paused = FALSE, !.pending = "absent"])
  <2> DEFINE d == Put(e, n, r2)
  <2>1. r2 \in TunnelRecords /\ r2.id = t.id
    BY <1>0 DEF TunnelRecords
  <2> HIDE DEF r2
  <2>2. TypedEngine(d)
    BY <2>1, PutFacts
  <2>3. d.tun[n] = r2
    BY PutOnce
  <2> HIDE DEF d
  <2>4. Disposed(d, n)
          = Put(d, n, [d.tun[n] EXCEPT !.state = "disarmed", !.paused = FALSE, !.pending = "absent"])
    BY <2>2, DisposedIsPut
  <2>5. Put(d, n, [r2 EXCEPT !.state = "disarmed", !.paused = FALSE, !.pending = "absent"])
         = Put(e, n, [r2 EXCEPT !.state = "disarmed", !.paused = FALSE, !.pending = "absent"])
    BY PutTwice DEF d
  <2>6. [r2 EXCEPT !.state = "disarmed", !.paused = FALSE, !.pending = "absent"]
         = [t EXCEPT !.bound = FALSE, !.disposed = TRUE, !.state = "disarmed",
                     !.paused = FALSE, !.pending = "absent"]
    BY DEF r2
  <2>7. Dispose(e, n) = d
    BY <1>2 DEF d
  <2>8. QED
    BY <2>3, <2>4, <2>5, <2>6, <2>7
<1> HIDE DEF r1, r2, r4
<1>8. QED
  BY <1>0, <1>1, <1>2, <1>3, <1>4, <1>5, <1>6 DEF r1, r2

-----------------------------------------------------------------------------
(* The place of a call while what it does next is worked out.              *)
Parked(f) ==
  IF f.bulk THEN [f EXCEPT !.at = "ready", !.todo = {}, !.id = None, !.on = None, !.def = "absent"]
  ELSE None

Park(c, f) == [frames EXCEPT ![c] = Parked(f)]

LEMMA ParkedFacts ==
  ASSUME NEW f \in FrameRecords
  PROVE  /\ Parked(f) \in FrameRecords \cup {None}
         /\ Parked(f) # None => /\ Parked(f).at = "ready" /\ Parked(f).bulk /\ f.bulk
                                /\ Parked(f).id = None /\ Parked(f).on = None
                                /\ \A j : Parked(f).todo # {<<"reconcile", j>>}
         /\ f.bulk => Parked(f) # None
         /\ \A e : ~WillTell(e, Parked(f))
<1>1. CASE f.bulk
  <2> DEFINE p == [f EXCEPT !.at = "ready", !.todo = {}, !.id = None, !.on = None, !.def = "absent"]
  <2>1. Parked(f) = p
    BY <1>1 DEF Parked
  <2>2. /\ p.at = "ready" /\ p.bulk /\ p.id = None /\ p.on = None /\ p.todo = {}
        /\ p \in FrameRecords
    BY <1>1 DEF FrameRecords, Defs
  <2> HIDE DEF p
  <2>3. p # None
    BY <2>2, NotNull
  <2>4. \A j : {<<"reconcile", j>>} # {}
    OBVIOUS
  <2>5. QED
    BY <1>1, <2>1, <2>2, <2>3, <2>4 DEF WillTell, Ends
<1>2. CASE ~f.bulk
  BY <1>2 DEF Parked, WillTell
<1>3. QED
  BY <1>1, <1>2

LEMMA IdleFacts ==
  ASSUME NEW f \in FrameRecords
  PROVE  /\ Idle(f) \in FrameRecords \cup {None}
         /\ Idle(f) # None => Idle(f).at = "ready" /\ Idle(f).id = None /\ Idle(f).on = None
         /\ f.bulk => Idle(f) # None /\ Idle(f).bulk
         /\ \A e, fr, c : Fits(e, fr, c, Idle(f))
         /\ ~Loops(f) => Idle(f) = None /\ ~f.bulk
<1>1. CASE Loops(f)
  <2> DEFINE p == [f EXCEPT !.at = "ready", !.id = None, !.on = None, !.def = "absent"]
  <2>1. Idle(f) = p
    BY <1>1 DEF Idle
  <2>2. /\ p.at = "ready" /\ p.bulk = f.bulk /\ p.id = None /\ p.on = None
        /\ p \in FrameRecords
    BY <1>1 DEF FrameRecords, Defs
  <2> HIDE DEF p
  <2>3. p # None
    BY <2>2, NotNull
  <2>4. QED
    BY <1>1, <2>1, <2>2, <2>3 DEF Fits, Ends
<1>2. CASE ~Loops(f)
  BY <1>2 DEF Idle, Loops, Fits
<1>3. QED
  BY <1>1, <1>2

(* The call goes on with frame x.                                          *)
LEMMA Goes ==
  ASSUME store' = store, store \in [Ids -> Defs], TypedFrames(frames),
         NEW c \in Calls, NEW f \in FrameRecords,
         NEW e, NEW X, Inv(e, Park(c, f), X), NEW x \in FrameRecords \cup {None},
         Fits(e, Park(c, f), c, x), f.bulk => x # None /\ x.bulk,
         \A i \in X : WillTell(e, x) /\ x.id = i,
         Continues(e, [frames EXCEPT ![c] = x])
  PROVE  EInv'
<1> DEFINE fr == Park(c, f)
           g == [fr EXCEPT ![c] = x]
<1>1. /\ MapInv(e, fr) /\ TellInv(e, fr, X) /\ TypedFrames(fr)
  BY DEF Inv, MapInv
<1>2. fr[c] = Parked(f)
  BY DEF Park, TypedFrames
<1>3. [frames EXCEPT ![c] = x] = g
  BY DEF Park, TypedFrames
<1> HIDE DEF fr
<1>4. Relieves(e, fr, c, x)
  BY <1>2, ParkedFacts DEF Relieves
<1>5. MapInv(e, g)
  BY <1>1, <1>4, Reframed DEF fr
<1>6. ~WillTell(e, fr[c]) /\ ((fr[c] # None /\ fr[c].bulk) => x # None /\ x.bulk)
  BY <1>2, ParkedFacts
<1>7. TellInv(e, g, {})
  BY <1>1, <1>6, ReframedTells
<1>8. Inv(e, g, {})
  BY <1>5, <1>7 DEF Inv
<1>9. QED
  BY <1>3, <1>8, Settles

LEMMA ReturnsSettle ==
  ASSUME store' = store, store \in [Ids -> Defs], TypedFrames(frames),
         NEW c \in Calls, NEW f \in FrameRecords,
         NEW e, Inv(e, Park(c, f), {}), Returns(c, f, e)
  PROVE  EInv'
<1>1. Continues(e, [frames EXCEPT ![c] = Idle(f)])
  BY DEF Returns
<1>2. QED
  BY <1>1, IdleFacts, Goes

LEMMA AwaitsSettle ==
  ASSUME store' = store, store \in [Ids -> Defs], TypedFrames(frames),
         NEW c \in Calls, NEW f \in FrameRecords,
         NEW e, NEW X, Inv(e, Park(c, f), X), NEW i \in Ids, NEW n \in Tunnels,
         NEW at \in {"replacing", "binding", "disarming", "removing"},
         e.tun[n] # None, e.tun[n].id = i, X \subseteq {i},
         X = {} \/ at \in Ends \/ (at = "binding" /\ ~e.tun[n].disposed),
         at \in Ends =>
            /\ i \in e.clash \/ AllBuried(e, i)
            /\ \A d \in Calls \ {c} :
                (/\ frames[d] # None /\ frames[d].id = i /\ frames[d].at \in Ends
                 /\ "replacing" \in {at, frames[d].at}) => i \in e.clash,
         at = "removing" => store[i] = "absent",
         (at = "replacing" /\ store[i] = "absent") => i \in e.clash,
         Awaits(c, f, e, at, i, n)
  PROVE  EInv'
<1> DEFINE x == [f EXCEPT !.at = at, !.id = i, !.on = n]
<1>1. /\ x.at = at /\ x.id = i /\ x.on = n /\ x.bulk = f.bulk /\ x \in FrameRecords
  BY DEF FrameRecords
<1>2. Continues(e, [frames EXCEPT ![c] = x])
  BY DEF Awaits
<1> HIDE DEF x
<1>3. x # None
  BY <1>1, NotNull
<1>4. \A d \in Calls \ {c} : Park(c, f)[d] = frames[d]
  BY DEF Park, TypedFrames
<1>5. Fits(e, Park(c, f), c, x)
  BY <1>1, <1>4 DEF Fits
<1>6. \A j \in X : WillTell(e, x) /\ x.id = j
  BY <1>1, <1>3 DEF WillTell
<1>7. QED
  BY <1>1, <1>2, <1>3, <1>5, <1>6, Goes

(* A tunnel changes and says so.                                           *)
LEMMA SaysSo ==
  ASSUME NEW e, NEW fr, MapInv(e, fr), Unmapped(e), Closes(e, fr), NEW n \in Tunnels,
         e.tun[n] # None, NEW r \in TunnelRecords, r.id = e.tun[n].id, e.tun[n].disposed => r.disposed
  PROVE  Inv(OnStateChange(Put(e, n, r), n), fr, {})
<1> DEFINE f == Put(e, n, r)
<1>1. TypedEngine(e)
  BY DEF MapInv
<1>2. /\ TypedEngine(f) /\ Grown(e, f)
      /\ f.map = e.map /\ f.batch = e.batch /\ f.view = e.view /\ f.muted = e.muted
      /\ f.tun[n] = r
  BY <1>1, PutFacts
<1> HIDE DEF f
<1>3. MapInv(f, fr) /\ Unmapped(f) /\ Closes(f, fr)
  BY <1>2, GrownKeeps DEF Unmapped, Unused, Blank, Closes, Grown
<1>4. f.tun[n] # None
  BY <1>2, NotNull
<1>5. Inv(OnStateChange(f, n), fr, {})
  BY <1>3, <1>4, Speaks
<1>6. QED
  BY <1>5 DEF f

(* What the invariant says of a mapped tunnel.                             *)
LEMMA InvFacts ==
  ASSUME NEW e, NEW fr, NEW X, Inv(e, fr, X)
  PROVE  /\ MapInv(e, fr) /\ Unmapped(e) /\ Closes(e, fr) /\ TypedEngine(e)
         /\ \A n \in Tunnels : e.tun[n] # None => e.tun[n] \in TunnelRecords /\ e.tun[n].id \in Ids
         /\ \A i \in Ids : e.map[i] # None =>
              e.map[i] \in Tunnels /\ e.tun[e.map[i]] # None /\ e.tun[e.map[i]].id = i
BY DEF Inv, MapInv, TellInv, TypedEngine, EngineRecords, TunnelRecords

(* The pieces of the operations, each to the end of its macrotask.         *)
LEMMA ArmTunnelSettles ==
  ASSUME store' = store, store \in [Ids -> Defs], TypedFrames(frames),
         NEW c \in Calls, NEW f \in FrameRecords, NEW e, NEW X, Inv(e, Park(c, f), X),
         NEW n \in Tunnels, e.tun[n] # None, X \subseteq {e.tun[n].id}, e.tun[n].disposed => X = {},
         ArmTunnel(c, f, e, n)
  PROVE  EInv'
<1>1. CASE e.tun[n].disposed
  BY <1>1, ReturnsSettle DEF ArmTunnel
<1>2. CASE ~e.tun[n].disposed
  <2> DEFINE t == e.tun[n]
             r == [t EXCEPT !.bound = FALSE, !.paused = FALSE]
             d == Put(e, n, r)
  <2>1. TypedEngine(e) /\ t \in TunnelRecords /\ t.id \in Ids
    BY InvFacts
  <2>2. [Closing(e, n) EXCEPT !.tun[n].paused = FALSE] = d
    BY <2>1, OpsArePuts
  <2>3. Awaits(c, f, d, "binding", t.id, n)
    BY <1>2, <2>2 DEF ArmTunnel
  <2>4. r \in TunnelRecords /\ r.id = t.id /\ r.disposed = t.disposed /\ r.state = t.state /\ ~r.paused
    BY <2>1 DEF TunnelRecords
  <2> HIDE DEF r
  <2>5. Live(Shown(r)) => Live(Shown(t))
    BY <2>4 DEF Live, Shown
  <2> HIDE DEF d
  <2>6. Inv(d, Park(c, f), X \cup {r.id})
    BY <2>4, <2>5, PutOwes DEF d
  <2>7. d.tun[n] = r
    BY <2>1, PutOnce DEF d
  <2>8. d.tun[n] # None /\ d.tun[n].id = t.id /\ ~d.tun[n].disposed
    BY <1>2, <2>4, <2>7, NotNull
  <2>9. X \cup {r.id} \subseteq {t.id}
    BY <2>4
  <2> HIDE DEF t
  <2>10. QED
    BY <2>1, <2>3, <2>6, <2>8, <2>9, AwaitsSettle DEF Ends
<1>3. QED
  BY <1>1, <1>2

LEMMA MakeAndArmSettles ==
  ASSUME store' = store, store \in [Ids -> Defs], TypedFrames(frames),
         NEW c \in Calls, NEW f \in FrameRecords, NEW e, NEW X, Inv(e, Park(c, f), X),
         NEW i \in Ids, X \subseteq {i},
         i \in e.clash \/ /\ AllBuried(e, i)
                          /\ store[i] # "absent"
                          /\ \A d \in Calls \ {c} :
                               frames[d] # None /\ frames[d].at \in Ends => frames[d].id # i,
         MakeAndArm(c, f, e, i)
  PROVE  EInv'
<1> DEFINE r == [id |-> i, state |-> "disarmed", paused |-> FALSE, disposed |-> FALSE, bound |-> FALSE,
                 pending |-> "absent"]
           g(n) == Anew(e, n, r, i)
<1>1. PICK n \in {m \in Tunnels : e.tun[m] = None} :
        ArmTunnel(c, f, [e EXCEPT !.tun[n] = r, !.map[i] = n, !.muted = @ \ {i}], n)
  BY DEF MakeAndArm
<1>2. ArmTunnel(c, f, g(n), n)
  BY <1>1 DEF Anew
<1>3. r \in TunnelRecords /\ r.id = i /\ Shown(r) = "disarmed" /\ ~r.disposed
  BY DEF TunnelRecords, States, Defs, Shown
<1> HIDE DEF r
<1>4. \A d \in Calls \ {c} : Park(c, f)[d] = frames[d]
  BY DEF Park, TypedFrames
<1>5. Park(c, f)[c] = Parked(f)
  BY DEF Park, TypedFrames
<1>6. i \in e.clash \/ /\ AllBuried(e, i)
                       /\ store[i] # "absent"
                       /\ \A d \in Calls :
                            Park(c, f)[d] # None /\ Park(c, f)[d].at \in Ends => Park(c, f)[d].id # i
  BY <1>4, <1>5, ParkedFacts DEF Ends
<1> DEFINE fr == Park(c, f)
<1> HIDE DEF fr
<1>7. Inv(g(n), fr, X \cup {i}) /\ g(n).tun[n] = r
  <2>1. n \in Tunnels /\ e.tun[n] = None
    BY <1>1
  <2>2. i \in e.clash \/ /\ AllBuried(e, i)
                         /\ store[i] # "absent"
                         /\ \A d \in Calls : fr[d] # None /\ fr[d].at \in Ends => fr[d].id # i
    BY <1>6 DEF fr
  <2>3. Inv(e, fr, X)
    BY DEF fr
  <2>4. QED
    BY <1>3, <2>1, <2>2, <2>3, Fresh
<1> HIDE DEF g
<1> USE DEF fr
<1>8. g(n).tun[n] # None /\ X \cup {i} \subseteq {g(n).tun[n].id} /\ ~g(n).tun[n].disposed /\ n \in Tunnels
  BY <1>1, <1>3, <1>7, NotNull
<1>9. QED
  BY <1>2, <1>7, <1>8, ArmTunnelSettles

(* The one tunnel of i that may be live is disposed.                       *)
LEMMA AllBuriedBut ==
  ASSUME NEW e, NEW fr, MapInv(e, fr), NEW i \in Ids, i \notin e.clash,
         NEW n \in Tunnels, e.map[i] = n, e.tun[n] # None, NEW r, r.disposed, r.id = i
  PROVE  AllBuried(Put(e, n, r), i)
<1>1. TypedEngine(e) /\ Owns(e)
  BY DEF MapInv
<1>2. Put(e, n, r).tun[n] = r /\ \A m \in Tunnels \ {n} : Put(e, n, r).tun[m] = e.tun[m]
  BY <1>1 DEF Put, TypedEngine, EngineRecords
<1>3. QED
  BY <1>1, <1>2 DEF AllBuried, Owns

LEMMA AllBuriedIfNone ==
  ASSUME NEW e, NEW fr, MapInv(e, fr), NEW i \in Ids, i \notin e.clash, e.map[i] = None
  PROVE  AllBuried(e, i)
BY NotNull DEF MapInv, AllBuried, Owns

LEMMA ArmIdSettles ==
  ASSUME store' = store, store \in [Ids -> Defs], TypedFrames(frames),
         NEW c \in Calls, NEW f \in FrameRecords, NEW e, Inv(e, Park(c, f), {}),
         NEW i \in Ids,
         \A d \in Calls \ {c} :
           (frames[d] # None /\ frames[d].at = "replacing" /\ frames[d].id = i) => i \in e.clash,
         ArmId(c, f, e, i)
  PROVE  EInv'
<1> DEFINE n == e.map[i]
           t == e.tun[n]
<1>1. CASE store[i] = "absent" \/ Live(StateOf(e, i))
  BY <1>1, ReturnsSettle DEF ArmId
<1>2. MapInv(e, Park(c, f)) /\ TypedEngine(e)
  BY InvFacts
<1>3. ASSUME store[i] # "absent", i \notin e.clash
      PROVE  \A d \in Calls \ {c} : frames[d] # None /\ frames[d].at \in Ends => frames[d].id # i
  <2> SUFFICES ASSUME NEW d \in Calls \ {c}, frames[d] # None, frames[d].at = "removing"
               PROVE  frames[d].id # i
    BY <1>3 DEF Ends
  <2>1. Park(c, f)[d] = frames[d]
    BY DEF Park, TypedFrames
  <2>2. QED
    BY <1>2, <1>3, <2>1 DEF MapInv, Kept
<1>4. CASE ~(store[i] = "absent" \/ Live(StateOf(e, i))) /\ n = None
  <2>1. MakeAndArm(c, f, e, i)
    BY <1>4 DEF ArmId
  <2>2. i \in e.clash \/ AllBuried(e, i)
    BY <1>2, <1>4, AllBuriedIfNone
  <2>3. QED
    BY <1>3, <1>4, <2>1, <2>2, MakeAndArmSettles
<1>5. CASE ~(store[i] = "absent" \/ Live(StateOf(e, i))) /\ n # None
  <2>1. n \in Tunnels /\ t # None /\ t.id = i /\ t \in TunnelRecords
    BY <1>5, InvFacts
  <2>2. CASE t.bound
    <3> DEFINE r == [t EXCEPT !.bound = FALSE, !.disposed = TRUE]
               d == Put(e, n, r)
    <3>1. Dispose(e, n) = d
      BY <1>2, <2>1, OpsArePuts
    <3>2. Awaits(c, f, d, "replacing", i, n)
      BY <1>5, <2>2, <3>1 DEF ArmId
    <3>3. r \in TunnelRecords /\ r.id = i /\ r.disposed /\ Shown(r) = Shown(t)
      BY <2>1 DEF TunnelRecords, Shown
    <3> HIDE DEF r
    <3>4. Inv(d, Park(c, f), {} \cup {r.id})
      BY <2>1, <3>3, PutOwes
    <3>5. d.tun[n] = r /\ d.clash = e.clash
      BY <1>2, <2>1, <3>3, PutFacts
    <3>6. i \in d.clash \/ AllBuried(d, i)
      BY <1>2, <2>1, <3>3, <3>5, AllBuriedBut
    <3> HIDE DEF d
    <3>7. d.tun[n] # None /\ d.tun[n].id = i /\ {} \cup {r.id} \subseteq {i}
      BY <3>3, <3>5, NotNull
    <3>8. \A b \in Calls \ {c} : frames[b] # None /\ frames[b].id = i /\ frames[b].at \in Ends => i \in d.clash
      BY <1>3, <1>5, <3>5
    <3>9. "replacing" \in Ends /\ "replacing" \in {"replacing", "binding", "disarming", "removing"}
      BY DEF Ends
    <3> HIDE DEF n, t
    <3>10. QED
      BY <1>5, <2>1, <3>2, <3>4, <3>6, <3>7, <3>8, <3>9, AwaitsSettle
  <2>3. CASE ~t.bound
    <3> DEFINE r == [t EXCEPT !.bound = FALSE, !.disposed = TRUE, !.state = "disarmed",
                              !.paused = FALSE, !.pending = "absent"]
               d == Put(e, n, r)
    <3>1. Disposed(Dispose(e, n), n) = d
      BY <1>2, <2>1, OpsArePuts
    <3>2. MakeAndArm(c, f, d, i)
      BY <1>5, <2>3, <3>1 DEF ArmId
    <3>3. r \in TunnelRecords /\ r.id = i /\ r.disposed /\ ~Live(Shown(r))
      BY <2>1 DEF TunnelRecords, Shown, Live, States, Defs
    <3> HIDE DEF r
    <3>4. Inv(d, Park(c, f), {} \cup {r.id})
      BY <2>1, <3>3, PutOwes
    <3>5. d.clash = e.clash
      BY <1>2, <2>1, <3>3, PutFacts
    <3>6. i \in d.clash \/ AllBuried(d, i)
      BY <1>2, <2>1, <3>3, <3>5, AllBuriedBut
    <3> HIDE DEF d, n, t
    <3>7. QED
      BY <1>3, <1>5, <3>2, <3>3, <3>4, <3>5, <3>6, MakeAndArmSettles
  <2>4. QED
    BY <2>2, <2>3
<1>6. QED
  BY <1>1, <1>4, <1>5

LEMMA DisarmIdSettles ==
  ASSUME store' = store, store \in [Ids -> Defs], TypedFrames(frames),
         NEW c \in Calls, NEW f \in FrameRecords, NEW e, Inv(e, Park(c, f), {}),
         NEW i \in Ids, DisarmId(c, f, e, i)
  PROVE  EInv'
<1> DEFINE n == e.map[i]
           t == e.tun[n]
           r == [t EXCEPT !.pending = "absent"]
           d == Put(e, n, r)
<1>1. CASE n = None
  BY <1>1, ReturnsSettle DEF DisarmId
<1>2. CASE n # None
  <2>1. n \in Tunnels /\ t # None /\ t.id = i /\ t \in TunnelRecords /\ TypedEngine(e)
    BY <1>2, InvFacts
  <2>2. [e EXCEPT !.tun[n].pending = "absent"] = d
    BY DEF Put
  <2>3. r \in TunnelRecords /\ r.id = i /\ r.disposed = t.disposed /\ Shown(r) = Shown(t)
    BY <2>1 DEF TunnelRecords, Shown, Defs
  <2> HIDE DEF r
  <2>4. Inv(d, Park(c, f), {})
    BY <2>1, <2>3, PutOwes
  <2>5. d.tun[n] = r /\ r # None /\ TypedEngine(d)
    BY <2>1, <2>3, <2>4, PutOnce, NotNull, InvFacts
  <2>6. IF d.tun[n].bound THEN Awaits(c, f, Closing(d, n), "disarming", i, n)
        ELSE Returns(c, f, Disarmed(d, n))
    BY <1>2, <2>2 DEF DisarmId
  <2> HIDE DEF d, n
  <2>7. CASE r.bound
    <3> DEFINE q == [r EXCEPT !.bound = FALSE]
               g == Put(d, n, q)
    <3>1. Closing(d, n) = g
      BY <2>1, <2>5, OpsArePuts
    <3>2. q \in TunnelRecords /\ q.id = i /\ q.disposed = r.disposed /\ Shown(q) = Shown(r)
      BY <2>3 DEF TunnelRecords, Shown
    <3> HIDE DEF q
    <3>3. Inv(g, Park(c, f), {})
      BY <2>1, <2>3, <2>4, <2>5, <3>2, PutOwes
    <3>4. g.tun[n] = q /\ q # None
      BY <2>1, <2>5, <3>2, PutOnce, NotNull
    <3>5. Awaits(c, f, g, "disarming", i, n)
      BY <2>5, <2>6, <2>7, <3>1
    <3> HIDE DEF g
    <3>6. g.tun[n] # None /\ g.tun[n].id = i
      BY <3>2, <3>4
    <3>7. QED
      BY <2>1, <3>3, <3>5, <3>6, AwaitsSettle DEF Ends
  <2>8. CASE ~r.bound
    <3> DEFINE q == [r EXCEPT !.paused = FALSE, !.state = "disarmed"]
    <3>1. Disarmed(d, n) = OnStateChange(Put(d, n, q), n)
      BY <2>1, <2>5, OpsArePuts
    <3>2. q \in TunnelRecords /\ q.id = i /\ q.disposed = r.disposed
      BY <2>3 DEF TunnelRecords, States
    <3> HIDE DEF q
    <3>3. MapInv(d, Park(c, f)) /\ Unmapped(d) /\ Closes(d, Park(c, f))
      BY <2>4, InvFacts
    <3>4. Inv(Disarmed(d, n), Park(c, f), {})
      BY <2>1, <2>3, <2>5, <3>1, <3>2, <3>3, SaysSo
    <3>5. QED
      BY <2>5, <2>6, <2>8, <3>4, ReturnsSettle
  <2>9. QED
    BY <2>7, <2>8
<1>3. QED
  BY <1>1, <1>2

LEMMA PauseIdSettles ==
  ASSUME store' = store, store \in [Ids -> Defs], TypedFrames(frames),
         NEW c \in Calls, NEW f \in FrameRecords, NEW e, Inv(e, Park(c, f), {}),
         NEW i \in Ids, NEW pausing \in BOOLEAN, PauseId(c, f, e, i, pausing)
  PROVE  EInv'
<1> DEFINE n == e.map[i]
           t == e.tun[n]
           r == [t EXCEPT !.paused = pausing]
<1>1. CASE n # None /\ ~t.disposed /\ t.paused # pausing /\ (pausing => t.state = "listening")
  <2>1. n \in Tunnels /\ t # None /\ t.id = i /\ t \in TunnelRecords /\ TypedEngine(e)
    BY <1>1, InvFacts
  <2>2. [e EXCEPT !.tun[n].paused = pausing] = Put(e, n, r)
    BY DEF Put
  <2>3. Returns(c, f, OnStateChange(Put(e, n, r), n))
    BY <1>1, <2>2 DEF PauseId
  <2>4. r \in TunnelRecords /\ r.id = i /\ r.disposed = t.disposed
    BY <2>1 DEF TunnelRecords
  <2> HIDE DEF r
  <2>5. MapInv(e, Park(c, f)) /\ Unmapped(e) /\ Closes(e, Park(c, f))
    BY InvFacts
  <2> HIDE DEF n
  <2>6. Inv(OnStateChange(Put(e, n, r), n), Park(c, f), {})
    BY <2>1, <2>4, <2>5, SaysSo
  <2>7. QED
    BY <2>3, <2>6, ReturnsSettle
<1>2. CASE ~(n # None /\ ~t.disposed /\ t.paused # pausing /\ (pausing => t.state = "listening"))
  <2>1. Returns(c, f, e)
    BY <1>2 DEF PauseId
  <2>2. QED
    BY <2>1, ReturnsSettle
<1>3. QED
  BY <1>1, <1>2

LEMMA ReapplyTunnelSettles ==
  ASSUME store' = store, store \in [Ids -> Defs], TypedFrames(frames),
         NEW c \in Calls, NEW f \in FrameRecords, NEW e, Inv(e, Park(c, f), {}),
         NEW n \in Tunnels, e.tun[n] # None, NEW d \in Defs, ReapplyTunnel(c, f, e, n, d)
  PROVE  EInv'
<1> DEFINE t == e.tun[n]
           at == IF t.bound THEN "reapplying" ELSE "reapplied"
           x == [bulk |-> FALSE, todo |-> {}, at |-> at, id |-> t.id, on |-> n, def |-> d]
           r == [t EXCEPT !.bound = FALSE]
           g == Put(e, n, r)
           own == IF Loops(f) THEN {b \in Calls : frames[b] = None} \ {c} ELSE {c}
<1>1. TypedEngine(e) /\ t \in TunnelRecords /\ t.id \in Ids
  BY InvFacts
<1>2. Closing(e, n) = g
  BY <1>1, OpsArePuts
<1>3. PICK b \in own : Continues(g, [frames EXCEPT ![c] = Idle(f), ![b] = x])
  BY <1>2 DEF ReapplyTunnel
<1>4. /\ x.at \in {"reapplying", "reapplied"} /\ x.id = t.id /\ x.on = n /\ ~x.bulk /\ x \in FrameRecords
  BY <1>1 DEF FrameRecords
<1> HIDE DEF x
<1>5. x # None
  BY <1>4, NotNull
<1>6. r \in TunnelRecords /\ r.id = t.id /\ r.disposed = t.disposed /\ Shown(r) = Shown(t)
  BY <1>1 DEF TunnelRecords, Shown
<1> HIDE DEF r
<1>7. Inv(g, Park(c, f), {})
  BY <1>6, PutOwes
<1>8. g.tun[n] # None /\ g.tun[n].id = t.id
  BY <1>1, <1>6, PutOnce, NotNull
<1> HIDE DEF g, t
<1>9. \A fr, a : Fits(g, fr, a, x)
  BY <1>1, <1>4, <1>8 DEF Fits, Ends
<1>10. CASE ~Loops(f)
  <2>1. b = c
    BY <1>10, <1>3
  <2>2. [frames EXCEPT ![c] = Idle(f), ![b] = x] = [frames EXCEPT ![c] = x]
    BY <2>1 DEF TypedFrames
  <2>3. ~f.bulk
    BY <1>10 DEF Loops
  <2>4. Continues(g, [frames EXCEPT ![c] = x])
    BY <1>3, <2>2
  <2>5. Fits(g, Park(c, f), c, x)
    BY <1>9
  <2>6. QED
    BY <1>4, <1>7, <2>3, <2>4, <2>5, Goes
<1>11. CASE Loops(f)
  <2> DEFINE p == Park(c, f)
             y == Idle(f)
             h == [p EXCEPT ![c] = y]
             k == [h EXCEPT ![b] = x]
  <2>1. b \in Calls /\ b # c /\ frames[b] = None
    BY <1>11, <1>3
  <2>2. y \in FrameRecords \cup {None} /\ (f.bulk => y # None /\ y.bulk) /\ Fits(g, p, c, y)
    BY IdleFacts
  <2>3. TypedFrames(p) /\ p[c] = Parked(f) /\ p[b] = None
    BY <2>1, <1>7 DEF Park, TypedFrames, Inv, MapInv
  <2>4. [frames EXCEPT ![c] = y, ![b] = x] = k
    BY DEF Park, TypedFrames
  <2> HIDE DEF y
  <2>5. MapInv(g, p) /\ TellInv(g, p, {})
    BY <1>7 DEF Inv
  <2> HIDE DEF p
  <2>6. Relieves(g, p, c, y)
    <3> DEFINE q == Parked(f)
    <3>0. q # None => q.at = "ready" /\ \A j : q.todo # {<<"reconcile", j>>}
      BY ParkedFacts
    <3> HIDE DEF q
    <3>1. p[c] # None => p[c].at = "ready" /\ \A j : p[c].todo # {<<"reconcile", j>>}
      BY <2>3, <3>0 DEF q
    <3>2. QED
      BY <3>1 DEF Relieves
  <2>7. MapInv(g, h)
    BY <2>2, <2>5, <2>6, Reframed
  <2>8. ~WillTell(g, p[c]) /\ ((p[c] # None /\ p[c].bulk) => y # None /\ y.bulk)
    BY <2>2, <2>3, ParkedFacts
  <2>9. TellInv(g, h, {})
    BY <2>2, <2>3, <2>5, <2>8, ReframedTells
  <2>10. TypedFrames(h) /\ h[b] = None
    BY <2>1, <2>2, <2>3 DEF TypedFrames
  <2> HIDE DEF h
  <2>11. Fits(g, h, b, x) /\ Relieves(g, h, b, x)
    BY <1>9, <2>10 DEF Relieves
  <2>12. MapInv(g, k)
    BY <1>4, <2>1, <2>7, <2>11, Reframed
  <2>13. ~WillTell(g, h[b])
    BY <2>10 DEF WillTell
  <2>14. TellInv(g, k, {})
    <3>1. ~(h[b] # None /\ h[b].bulk) /\ x \in FrameRecords \cup {None}
      BY <1>4, <2>10
    <3>2. QED
      BY <2>1, <2>9, <2>10, <2>13, <3>1, ReframedTells
  <2>15. Inv(g, k, {})
    BY <2>12, <2>14 DEF Inv
  <2> HIDE DEF k
  <2>16. Continues(g, k)
    BY <1>3, <2>4 DEF y
  <2>17. QED
    BY <2>15, <2>16, Settles
<1>12. QED
  BY <1>10, <1>11

LEMMA ReapplySettles ==
  ASSUME store' = store, store \in [Ids -> Defs], TypedFrames(frames),
         NEW c \in Calls, NEW f \in FrameRecords, NEW e, Inv(e, Park(c, f), {}),
         f.on \in Tunnels, e.tun[f.on] # None, Reapply(c, f, e)
  PROVE  EInv'
<1>1. CASE f.def = "on"
  <2>1. ArmTunnel(c, f, e, f.on)
    BY <1>1 DEF Reapply
  <2>2. QED
    BY <2>1, ArmTunnelSettles
<1>2. CASE f.def # "on"
  <2> DEFINE t == e.tun[f.on]
             r == [t EXCEPT !.state = "disarmed"]
  <2>1. TypedEngine(e) /\ t \in TunnelRecords /\ MapInv(e, Park(c, f)) /\ Unmapped(e) /\ Closes(e, Park(c, f))
    BY InvFacts
  <2>2. SetState(e, f.on, "disarmed") = OnStateChange(Put(e, f.on, r), f.on)
    BY DEF SetState, Put
  <2>3. r \in TunnelRecords /\ r.id = t.id /\ r.disposed = t.disposed
    BY <2>1 DEF TunnelRecords, States
  <2> HIDE DEF r
  <2>4. Inv(SetState(e, f.on, "disarmed"), Park(c, f), {})
    BY <2>1, <2>2, <2>3, SaysSo
  <2>5. QED
    BY <1>2, <2>4, ReturnsSettle DEF Reapply
<1>3. QED
  BY <1>1, <1>2

LEMMA ApplyPendingSettles ==
  ASSUME store' = store, store \in [Ids -> Defs], TypedFrames(frames),
         NEW c \in Calls, NEW f \in FrameRecords, NEW e, Inv(e, Park(c, f), {}),
         NEW n \in Tunnels, e.tun[n] # None, ApplyPending(c, f, e, n)
  PROVE  EInv'
<1> DEFINE t == e.tun[n]
           r == [t EXCEPT !.pending = "absent"]
           d == Put(e, n, r)
<1>1. TypedEngine(e) /\ t \in TunnelRecords
  BY InvFacts
<1>2. [e EXCEPT !.tun[n].pending = "absent"] = d
  BY DEF Put
<1>3. ReapplyTunnel(c, f, d, n, t.pending)
  BY <1>2 DEF ApplyPending
<1>4. r \in TunnelRecords /\ r.id = t.id /\ r.disposed = t.disposed /\ Shown(r) = Shown(t) /\ t.pending \in Defs
  BY <1>1 DEF TunnelRecords, Shown, Defs
<1> HIDE DEF r
<1>5. Inv(d, Park(c, f), {})
  BY <1>4, PutOwes
<1>6. d.tun[n] # None
  BY <1>1, <1>4, PutOnce, NotNull
<1> HIDE DEF d
<1>7. QED
  BY <1>3, <1>4, <1>5, <1>6, ReapplyTunnelSettles

LEMMA ApplyIdSettles ==
  ASSUME store' = store, store \in [Ids -> Defs], TypedFrames(frames),
         NEW c \in Calls, NEW f \in FrameRecords, NEW e, Inv(e, Park(c, f), {}),
         NEW i \in Ids, ApplyId(c, f, e, i)
  PROVE  EInv'
<1>1. CASE e.map[i] = None \/ e.tun[e.map[i]].pending = "absent"
  BY <1>1, ReturnsSettle DEF ApplyId
<1>2. CASE ~(e.map[i] = None \/ e.tun[e.map[i]].pending = "absent")
  <2>1. e.map[i] \in Tunnels /\ e.tun[e.map[i]] # None
    BY <1>2, InvFacts
  <2>2. ApplyPending(c, f, e, e.map[i])
    BY <1>2 DEF ApplyId
  <2>3. QED
    BY <2>1, <2>2, ApplyPendingSettles
<1>3. QED
  BY <1>1, <1>2

LEMMA EditedSettles ==
  ASSUME store' = store, store \in [Ids -> Defs], TypedFrames(frames),
         NEW c \in Calls, NEW f \in FrameRecords, NEW e, Inv(e, Park(c, f), {}),
         NEW n \in Tunnels, e.tun[n] # None, NEW d \in Defs, Edited(c, f, e, n, d)
  PROVE  EInv'
<1>1. MapInv(e, Park(c, f)) /\ Unmapped(e) /\ Closes(e, Park(c, f)) /\ e.tun[n] \in TunnelRecords
  BY InvFacts
<1>2. CASE Returns(c, f, OnStateChange(e, n))
  <2>1. Inv(OnStateChange(e, n), Park(c, f), {})
    BY <1>1, Speaks
  <2>2. QED
    BY <1>2, <2>1, ReturnsSettle
<1>3. CASE Returns(c, f, OnStateChange([e EXCEPT !.tun[n].pending = d], n))
  <2> DEFINE r == [e.tun[n] EXCEPT !.pending = d]
  <2>1. [e EXCEPT !.tun[n].pending = d] = Put(e, n, r)
    BY DEF Put
  <2>2. r \in TunnelRecords /\ r.id = e.tun[n].id /\ r.disposed = e.tun[n].disposed
    BY <1>1 DEF TunnelRecords
  <2> HIDE DEF r
  <2>3. Inv(OnStateChange(Put(e, n, r), n), Park(c, f), {})
    BY <1>1, <2>2, SaysSo
  <2>4. QED
    BY <1>3, <2>1, <2>3, ReturnsSettle
<1>4. CASE ReapplyTunnel(c, f, e, n, d)
  BY <1>4, ReapplyTunnelSettles
<1>5. QED
  BY <1>2, <1>3, <1>4 DEF Edited

LEMMA ReconcileIdSettles ==
  ASSUME store' = store, store \in [Ids -> Defs], TypedFrames(frames),
         NEW c \in Calls, NEW f \in FrameRecords, NEW e, Inv(e, Park(c, f), {}),
         NEW i \in Ids, store[i] # "absent" \/ e.map[i] = None,
         \A d \in Calls \ {c} :
           (frames[d] # None /\ frames[d].at = "replacing" /\ frames[d].id = i) => i \in e.clash,
         ReconcileId(c, f, e, i)
  PROVE  EInv'
<1> DEFINE n == e.map[i]
           mayArm == store[i] = "on" /\ i \notin Managed
<1>1. CASE n = None
  <2>1. Returns(c, f, e) \/ ArmId(c, f, e, i)
    BY <1>1 DEF ReconcileId
  <2>2. QED
    BY <2>1, ReturnsSettle, ArmIdSettles
<1>2. CASE n # None
  <2>1. store[i] # "absent" /\ store[i] \in Defs
    BY <1>2
  <2>2. n \in Tunnels /\ e.tun[n] # None
    BY <1>2, InvFacts
  <2>3. MapInv(e, Park(c, f)) /\ Unmapped(e) /\ Closes(e, Park(c, f))
    BY InvFacts
  <2>4. CASE e.tun[n].state = "disarmed"
    <3>1. PICK told \in {e, OnStateChange(e, n)} :
            IF mayArm THEN ArmTunnel(c, f, told, n) ELSE Returns(c, f, told)
      BY <1>2, <2>1, <2>4 DEF ReconcileId
    <3>2. Inv(told, Park(c, f), {}) /\ told.tun = e.tun
      BY <2>2, <2>3, <3>1, Speaks
    <3>3. told.tun[n] # None
      BY <2>2, <3>2
    <3> HIDE DEF mayArm, n
    <3>4. QED
      BY <2>2, <3>1, <3>2, <3>3, ReturnsSettle, ArmTunnelSettles
  <2>5. CASE e.tun[n].state # "disarmed"
    <3>1. Edited(c, f, e, n, store[i])
      BY <1>2, <2>1, <2>5 DEF ReconcileId
    <3>2. QED
      BY <2>1, <2>2, <3>1, EditedSettles
  <2>6. QED
    BY <2>4, <2>5
<1>3. QED
  BY <1>1, <1>2

(* A deleted definition's tunnel leaves the map.                           *)
LEMMA RemovedFacts ==
  ASSUME NEW e, NEW fr, MapInv(e, fr), Unmapped(e), NEW i \in Ids, store[i] = "absent",
         i \in e.clash \/ AllBuried(e, i)
  PROVE  LET f == Removed(e, i)
         IN  /\ MapInv(f, fr) /\ Unmapped(f) /\ (\A g : Informed(f, g, {}))
             /\ f.batch = e.batch /\ f.clash = e.clash
             /\ \A j \in Ids : f.map[j] = IF j = i THEN None ELSE e.map[j]
<1> DEFINE d == [e EXCEPT !.map = [e.map EXCEPT ![i] = None]]
           f == Broadcast(d, i, "disarmed")
<1>1. Removed(e, i) = f
  BY DEF Removed
<1>2. /\ TypedEngine(e) /\ TypedFrames(fr) /\ Points(e, fr) /\ Owns(e) /\ Buried(e, fr)
      /\ Alone(e, fr) /\ Kept(e, fr) /\ Leaves(e, fr)
  BY DEF MapInv
<1>3. /\ d.tun = e.tun /\ d.batch = e.batch /\ d.timer = e.timer /\ d.view = e.view
      /\ d.muted = e.muted /\ d.clash = e.clash /\ d.map = [e.map EXCEPT ![i] = None]
      /\ d \in EngineRecords
  BY <1>2 DEF TypedEngine, EngineRecords
<1> HIDE DEF d
<1>4. \A j \in Ids : d.map[j] = IF j = i THEN None ELSE e.map[j]
  BY <1>2, <1>3 DEF TypedEngine, EngineRecords
<1>5. TypedEngine(d)
  BY <1>2, <1>3, <1>4 DEF TypedEngine
<1>6. Points(d, fr) /\ Buried(d, fr) /\ Alone(d, fr) /\ Kept(d, fr)
  BY <1>2, <1>3 DEF Points, Buried, AllBuried, Alone, Kept
<1>7. Owns(d)
  <2> SUFFICES ASSUME NEW n \in Tunnels, d.tun[n] # None, ~d.tun[n].disposed, d.tun[n].id \notin d.clash
               PROVE  d.map[d.tun[n].id] = n
    BY DEF Owns
  <2>1. e.tun[n].id # i
    BY <1>3 DEF AllBuried
  <2>2. e.map[e.tun[n].id] = n /\ e.tun[n].id \in Ids
    BY <1>2, <1>3 DEF Owns, TypedEngine, EngineRecords, TunnelRecords
  <2>3. QED
    BY <1>3, <1>4, <2>1, <2>2
<1>8. Leaves(d, fr)
  BY <1>2, <1>3, <1>4 DEF Leaves
<1>9. MapInv(d, fr)
  BY <1>2, <1>5, <1>6, <1>7, <1>8 DEF MapInv
<1>10. Unmapped(d)
  BY <1>3, <1>4 DEF Unmapped, Unused, Blank
<1>11. "disarmed" \in Reported
  BY DEF Reported, States
<1>12. /\ TypedEngine(f) /\ Grown(d, f)
       /\ f.map = d.map /\ f.tun = d.tun /\ f.batch = d.batch
       /\ f.muted = d.muted /\ f.clash = d.clash
       /\ f.timer <=> AnyLive(d)
       /\ \A j \in Ids : f.view[j] = IF d.map[j] # None THEN StateOf(d, j)
                                     ELSE IF j = i THEN "disarmed" ELSE d.view[j]
  BY <1>5, <1>11, BroadcastFacts
<1> HIDE DEF f
<1>13. MapInv(f, fr)
  BY <1>9, <1>12, GrownKeeps
<1>14. ASSUME NEW g PROVE Informed(f, g, {})
  BY <1>5, <1>12, SpokenTells
<1>15. Unmapped(f)
  BY <1>10, <1>12 DEF Unmapped, Unused, Blank
<1>16. QED
  BY <1>1, <1>3, <1>4, <1>12, <1>13, <1>14, <1>15

(* The call c goes on with frame x, whatever it was about.                 *)
LEMMA GoesOn ==
  ASSUME store' = store, store \in [Ids -> Defs], NEW c \in Calls,
         NEW e, NEW X, Inv(e, frames, X), NEW x \in FrameRecords \cup {None},
         Fits(e, frames, c, x), Relieves(e, frames, c, x),
         (frames[c] # None /\ frames[c].bulk) => x # None /\ x.bulk,
         WillTell(e, frames[c]) => WillTell(e, x) /\ x.id = frames[c].id,
         \A i \in X : WillTell(e, x) /\ x.id = i,
         Continues(e, [frames EXCEPT ![c] = x])
  PROVE  EInv'
<1> DEFINE g == [frames EXCEPT ![c] = x]
<1>1. MapInv(e, frames) /\ TellInv(e, frames, X) /\ TypedFrames(frames)
  BY DEF Inv, MapInv
<1>2. MapInv(e, g)
  BY <1>1, Reframed
<1>3. TellInv(e, g, {})
  BY <1>1, ReframedTells
<1>4. Inv(e, g, {})
  BY <1>2, <1>3 DEF Inv
<1>5. QED
  BY <1>4, Settles

(* A call is taken out of the frames while it works.                       *)
LEMMA ParkStarts ==
  ASSUME NEW e, Inv(e, frames, {}), NEW c \in Calls, NEW f \in FrameRecords, frames[c] # None,
         f.bulk = frames[c].bulk, NEW X, WillTell(e, frames[c]) => frames[c].id \in X,
         Relieves(e, frames, c, Parked(f))
  PROVE  Inv(e, Park(c, f), X)
<1> DEFINE p == Parked(f)
<1>1. MapInv(e, frames) /\ TellInv(e, frames, {}) /\ TypedFrames(frames)
  BY DEF Inv, MapInv
<1>2. /\ p \in FrameRecords \cup {None}
      /\ p # None => p.at = "ready" /\ p.id = None /\ p.on = None
      /\ f.bulk => p # None /\ p.bulk
  BY ParkedFacts
<1> HIDE DEF p
<1>3. Fits(e, frames, c, p)
  BY <1>2 DEF Fits, Ends
<1>4. MapInv(e, [frames EXCEPT ![c] = p])
  BY <1>1, <1>2, <1>3, Reframed DEF p
<1>5. TellInv(e, [frames EXCEPT ![c] = p], X)
  <2>1. \A i \in {} : i \in X \/ (WillTell(e, p) /\ p.id = i)
    OBVIOUS
  <2>2. frames[c].bulk => p # None /\ p.bulk
    BY <1>2
  <2>3. /\ p \in FrameRecords \cup {None}
        /\ TypedFrames(frames) /\ TellInv(e, frames, {})
        /\ (frames[c] # None /\ frames[c].bulk) => p # None /\ p.bulk
        /\ WillTell(e, frames[c]) => frames[c].id \in X \/ (WillTell(e, p) /\ p.id = frames[c].id)
    BY <1>1, <1>2, <2>2
  <2>4. QED
    BY <2>1, <2>3, ReframedTells
<1>6. QED
  BY <1>4, <1>5 DEF Inv, Park, p

(* The call on one id: what was noted of calls that overlap.               *)
LEMMA Noted ==
  ASSUME NEW e, Inv(eng, frames, {}), NEW k, k \subseteq Ids, eng.clash \subseteq k,
         e = [eng EXCEPT !.clash = k]
  PROVE  /\ Inv(e, frames, {}) /\ e.clash = k /\ e.map = eng.map /\ e.tun = eng.tun
<1>1. /\ e.map = eng.map /\ e.tun = eng.tun /\ e.batch = eng.batch /\ e.timer = eng.timer
      /\ e.view = eng.view /\ e.muted = eng.muted /\ e.clash = k /\ e \in EngineRecords
  BY DEF Inv, MapInv, TypedEngine, EngineRecords
<1>2. TypedEngine(e) /\ Grown(eng, e)
  BY <1>1 DEF Inv, MapInv, TypedEngine, Grown
<1>3. MapInv(e, frames)
  BY <1>2, GrownKeeps DEF Inv
<1>4. \A i : StateOf(e, i) = StateOf(eng, i)
  BY <1>1 DEF StateOf
<1>5. AnyLive(e) <=> AnyLive(eng)
  BY <1>4 DEF AnyLive
<1>6. \A x : WillTell(e, x) <=> WillTell(eng, x)
  BY <1>1 DEF WillTell
<1>7. TellInv(eng, frames, {})
  BY DEF Inv
<1>8. Unmapped(e) /\ Closes(e, frames)
  BY <1>1, <1>7 DEF TellInv, Unmapped, Unused, Blank, Closes
<1>9. Informed(e, frames, {})
  BY <1>1, <1>4, <1>5, <1>6, <1>7 DEF TellInv, Informed
<1>10. QED
  BY <1>1, <1>3, <1>8, <1>9 DEF Inv, TellInv

(* reconcile() of a deleted definition.                                    *)
LEMMA DeletedSettles ==
  ASSUME store' = store, store \in [Ids -> Defs],
         NEW c \in Calls, frames[c] # None, frames[c].at = "ready",
         NEW f \in FrameRecords, f.bulk = frames[c].bulk,
         NEW e, Inv(e, frames, {}), NEW i \in Ids, store[i] = "absent", e.map[i] # None,
         \A j \in Ids : frames[c].todo = {<<"reconcile", j>>} => j = i,
         \A d \in Calls \ {c} :
           (frames[d] # None /\ frames[d].at = "replacing" /\ frames[d].id = i) => i \in e.clash,
         ReconcileId(c, f, e, i)
  PROVE  EInv'
<1> DEFINE n == e.map[i]
           t == e.tun[n]
<1>1. n \in Tunnels /\ t # None /\ t.id = i /\ t \in TunnelRecords /\ TypedEngine(e) /\ MapInv(e, frames)
      /\ Unmapped(e) /\ Closes(e, frames)
  BY InvFacts
<1>2. IF t.bound THEN Awaits(c, f, Dispose(e, n), "removing", i, n)
      ELSE Returns(c, f, Removed(Disposed(Dispose(e, n), n), i))
  BY DEF ReconcileId
<1>3. CASE t.bound
  <2> DEFINE r == [t EXCEPT !.bound = FALSE, !.disposed = TRUE]
             d == Put(e, n, r)
             x == [f EXCEPT !.at = "removing", !.id = i, !.on = n]
  <2>1. Dispose(e, n) = d
    BY <1>1, OpsArePuts
  <2>2. Continues(d, [frames EXCEPT ![c] = x])
    BY <1>2, <1>3, <2>1 DEF Awaits
  <2>3. r \in TunnelRecords /\ r.id = i /\ r.disposed /\ Shown(r) = Shown(t)
    BY <1>1 DEF TunnelRecords, Shown
  <2>4. x.at = "removing" /\ x.id = i /\ x.on = n /\ x.bulk = f.bulk /\ x \in FrameRecords
    BY <1>1 DEF FrameRecords
  <2> HIDE DEF r, x
  <2>5. Inv(d, frames, {} \cup {r.id})
    BY <1>1, <2>3, PutOwes
  <2>6. d.tun[n] = r /\ d.clash = e.clash
    BY <1>1, <2>3, PutFacts
  <2>7. i \in d.clash \/ AllBuried(d, i)
    BY <1>1, <2>3, <2>6, AllBuriedBut
  <2>8. x # None /\ d.tun[n] # None /\ d.tun[n].id = i /\ {} \cup {r.id} = {i}
    BY <2>3, <2>4, <2>6, NotNull
  <2> HIDE DEF d, n, t
  <2>9. Fits(d, frames, c, x)
    BY <1>1, <2>4, <2>6, <2>7, <2>8 DEF Fits
  <2>10. Relieves(d, frames, c, x)
    BY <2>4, <2>6, <2>8 DEF Relieves
  <2>11. ~WillTell(d, frames[c])
    BY DEF WillTell, Ends
  <2>12. WillTell(d, x)
    BY <2>4, <2>8 DEF WillTell, Ends
  <2>13. x \in FrameRecords \cup {None} /\ (frames[c].bulk => x.bulk) /\ \A j \in {} \cup {r.id} : x.id = j
    BY <2>4, <2>8
  <2>14. QED
    BY <2>2, <2>5, <2>8, <2>9, <2>10, <2>11, <2>12, <2>13, GoesOn
<1>4. CASE ~t.bound
  <2> DEFINE r == [t EXCEPT !.bound = FALSE, !.disposed = TRUE, !.state = "disarmed",
                            !.paused = FALSE, !.pending = "absent"]
             d == Put(e, n, r)
             g == Removed(d, i)
             x == Idle(f)
  <2>1. Disposed(Dispose(e, n), n) = d
    BY <1>1, OpsArePuts
  <2>2. Continues(g, [frames EXCEPT ![c] = x])
    BY <1>2, <1>4, <2>1 DEF Returns
  <2>3. r \in TunnelRecords /\ r.id = i /\ r.disposed /\ ~Live(Shown(r))
    BY <1>1 DEF TunnelRecords, Shown, Live, States, Defs
  <2> HIDE DEF r
  <2>4. Inv(d, frames, {} \cup {r.id})
    BY <1>1, <2>3, PutOwes
  <2>5. d.clash = e.clash /\ d.batch = e.batch
    BY <1>1, <2>3, PutFacts
  <2>6. i \in d.clash \/ AllBuried(d, i)
    BY <1>1, <2>3, <2>5, AllBuriedBut
  <2> HIDE DEF d, n, t
  <2>7. MapInv(d, frames) /\ Unmapped(d)
    BY <2>4, InvFacts
  <2>8. /\ MapInv(g, frames) /\ Unmapped(g) /\ (\A h : Informed(g, h, {}))
        /\ g.batch = d.batch /\ g.clash = d.clash
        /\ \A j \in Ids : g.map[j] = IF j = i THEN None ELSE d.map[j]
    BY <2>6, <2>7, RemovedFacts
  <2> HIDE DEF g
  <2>9. Inv(g, frames, {})
    BY <1>1, <2>5, <2>8 DEF Inv, TellInv, Closes
  <2>10. Fits(g, frames, c, x) /\ x \in FrameRecords \cup {None} /\ (f.bulk => x # None /\ x.bulk)
    BY IdleFacts
  <2> HIDE DEF x
  <2>11. Relieves(g, frames, c, x)
    BY <2>5, <2>8 DEF Relieves
  <2>12. ~WillTell(g, frames[c])
    BY DEF WillTell, Ends
  <2>13. QED
    BY <2>2, <2>9, <2>10, <2>11, <2>12, GoesOn
<1>5. QED
  BY <1>3, <1>4

LEMMA VisitSettles ==
  ASSUME EInv, store' = store, NEW c \in Calls, frames[c] # None, frames[c].at = "ready",
         NEW todo \in frames[c].todo, Visit(c, todo[1], todo[2])
  PROVE  EInv'
<1> DEFINE act == todo[1]
           i == todo[2]
           f == [frames[c] EXCEPT !.todo = @ \ {<<act, i>>}]
           k == IF act \in {"arm", "reconcile"} /\ Replacing(i) THEN eng.clash \cup {i} ELSE eng.clash
           e == [eng EXCEPT !.clash = k]
<1>1. store \in [Ids -> Defs] /\ Inv(eng, frames, {}) /\ TypedFrames(frames) /\ frames[c] \in FrameRecords
  BY DEF EInv, Inv, MapInv, TypedFrames
<1>2. /\ act \in {"arm", "disarm", "pause", "resume", "apply", "reconcile"} /\ i \in Ids
      /\ todo = <<act, i>>
  BY <1>1 DEF FrameRecords
<1>3. /\ act = "arm" => ArmId(c, f, e, i)
      /\ act = "disarm" => DisarmId(c, f, e, i)
      /\ act \in {"pause", "resume"} => PauseId(c, f, e, i, act = "pause")
      /\ act = "apply" => ApplyId(c, f, e, i)
      /\ act = "reconcile" => ReconcileId(c, f, e, i)
  <2>1. e = [eng EXCEPT !.clash = IF act \in {"arm", "reconcile"} /\ Replacing(i) THEN @ \cup {i} ELSE @]
    OBVIOUS
  <2>2. QED
    BY <2>1 DEF Visit
<1>4. f \in FrameRecords /\ f.bulk = frames[c].bulk
  BY <1>1 DEF FrameRecords
<1>5. k \subseteq Ids /\ eng.clash \subseteq k
  BY <1>1, <1>2 DEF Inv, MapInv, TypedEngine, EngineRecords
<1>6. \A j \in Ids : frames[c].todo = {<<"reconcile", j>>} => act = "reconcile" /\ j = i
  BY <1>2
<1>7. act \in {"arm", "reconcile"} =>
        \A d \in Calls : (frames[d] # None /\ frames[d].at = "replacing" /\ frames[d].id = i) => i \in k
  BY DEF Replacing
<1> HIDE DEF f, act, i, k
<1>8. Inv(e, frames, {}) /\ e.clash = k
  BY <1>1, <1>5, Noted
<1> HIDE DEF e
<1>9. CASE act = "reconcile" /\ store[i] = "absent" /\ e.map[i] # None
  <2>1. ReconcileId(c, f, e, i)
    BY <1>3, <1>9
  <2>2. QED
    BY <1>1, <1>2, <1>4, <1>6, <1>7, <1>8, <1>9, <2>1, DeletedSettles
<1>10. CASE ~(act = "reconcile" /\ store[i] = "absent" /\ e.map[i] # None)
  <2>1. Relieves(e, frames, c, Parked(f))
    BY <1>6, <1>7, <1>8, <1>10 DEF Relieves
  <2>2. ~WillTell(e, frames[c])
    BY DEF WillTell, Ends
  <2>3. Inv(e, Park(c, f), {})
    BY <1>4, <1>8, <2>1, <2>2, ParkStarts
  <2>4. CASE act = "arm"
    <3>1. ArmId(c, f, e, i)
      BY <1>3, <2>4
    <3>2. QED
      BY <1>1, <1>2, <1>4, <1>7, <1>8, <2>3, <2>4, <3>1, ArmIdSettles
  <2>5. CASE act = "disarm"
    <3>1. DisarmId(c, f, e, i)
      BY <1>3, <2>5
    <3>2. QED
      BY <1>1, <1>2, <1>4, <2>3, <3>1, DisarmIdSettles
  <2>6. CASE act \in {"pause", "resume"}
    <3>1. PauseId(c, f, e, i, act = "pause")
      BY <1>3, <2>6
    <3>2. (act = "pause") \in BOOLEAN
      OBVIOUS
    <3>3. QED
      BY <1>1, <1>2, <1>4, <2>3, <3>1, <3>2, PauseIdSettles
  <2>7. CASE act = "apply"
    <3>1. ApplyId(c, f, e, i)
      BY <1>3, <2>7
    <3>2. QED
      BY <1>1, <1>2, <1>4, <2>3, <3>1, ApplyIdSettles
  <2>8. CASE act = "reconcile"
    <3>1. ReconcileId(c, f, e, i)
      BY <1>3, <2>8
    <3>2. store[i] # "absent" \/ e.map[i] = None
      BY <1>10, <2>8
    <3>3. QED
      BY <1>1, <1>2, <1>4, <1>7, <1>8, <2>3, <2>8, <3>1, <3>2, ReconcileIdSettles
  <2>9. QED
    BY <1>2, <2>4, <2>5, <2>6, <2>7, <2>8
<1>11. QED
  BY <1>9, <1>10

LEMMA EInvFacts ==
  ASSUME EInv
  PROVE  /\ store \in [Ids -> Defs] /\ Inv(eng, frames, {}) /\ Forgotten(eng, frames)
         /\ MapInv(eng, frames) /\ TellInv(eng, frames, {})
         /\ Unmapped(eng) /\ Closes(eng, frames) /\ Informed(eng, frames, {})
         /\ TypedEngine(eng) /\ TypedFrames(frames)
         /\ Points(eng, frames) /\ Owns(eng) /\ Buried(eng, frames) /\ Alone(eng, frames)
         /\ Kept(eng, frames) /\ Leaves(eng, frames)
BY DEF EInv, Inv, TellInv, MapInv

LEMMA FrameFacts ==
  ASSUME EInv, NEW c \in Calls, frames[c] # None
  PROVE  /\ frames[c] \in FrameRecords
         /\ frames[c].at # "ready" =>
              /\ frames[c].on \in Tunnels /\ frames[c].id \in Ids
              /\ eng.tun[frames[c].on] # None /\ eng.tun[frames[c].on].id = frames[c].id
              /\ eng.tun[frames[c].on] \in TunnelRecords
BY EInvFacts DEF TypedFrames, Points, TypedEngine, EngineRecords

(* A call that comes back from an await other than a removal.              *)
LEMMA ComesBack ==
  ASSUME EInv, NEW c \in Calls, frames[c] # None, frames[c].at \notin {"ready", "removing"}, NEW X,
         WillTell(eng, frames[c]) => frames[c].id \in X
  PROVE  Inv(eng, Park(c, frames[c]), X)
<1>1. frames[c] \in FrameRecords
  BY FrameFacts
<1>2. Relieves(eng, frames, c, Parked(frames[c]))
  BY DEF Relieves
<1>3. QED
  BY <1>1, <1>2, EInvFacts, ParkStarts

LEMMA ReappliedSettles ==
  ASSUME EInv, store' = store, NEW c \in Calls, frames[c] # None,
         frames[c].at \in {"reapplying", "reapplied"}, Reapply(c, frames[c], eng)
  PROVE  EInv'
<1> DEFINE f == frames[c]
<1>1. f \in FrameRecords /\ f.on \in Tunnels /\ eng.tun[f.on] # None
  BY FrameFacts
<1>2. Inv(eng, Park(c, f), {})
  BY ComesBack DEF WillTell, Ends
<1>3. store \in [Ids -> Defs] /\ TypedFrames(frames)
  BY EInvFacts
<1> HIDE DEF f
<1>4. Reapply(c, f, eng)
  BY DEF f
<1>5. QED
  BY <1>1, <1>2, <1>3, <1>4, ReapplySettles

LEMMA BulkEndsSettles ==
  ASSUME EInv, store' = store, NEW c \in Calls, frames[c] # None,
         frames[c].at = "ready", frames[c].todo = {}, BulkEnds(c)
  PROVE  EInv'
<1> DEFINE g == [frames EXCEPT ![c] = None]
           e == IF eng.batch = None THEN eng ELSE OnTunnelStateChange(Flushed(eng))
<1>1. \A j : {<<"reconcile", j>>} # {}
  OBVIOUS
<1>2. \A h : Fits(h, frames, c, None) /\ Relieves(h, frames, c, None)
  BY <1>1 DEF Fits, Relieves
<1>3. MapInv(e, frames) /\ Unmapped(e) /\ Informed(e, g, {}) /\ Closes(e, g)
  <2>1. CASE eng.batch = None
    <3>1. \A d \in Calls : WillTell(eng, frames[d]) => d # c
      BY DEF WillTell, Ends
    <3>2. \A d \in Calls \ {c} : g[d] = frames[d]
      BY EInvFacts DEF TypedFrames
    <3> HIDE DEF g
    <3>3. Informed(eng, g, {})
      BY <3>1, <3>2, EInvFacts DEF Informed
    <3>4. QED
      BY <2>1, <3>3, EInvFacts DEF Closes
  <2>2. CASE eng.batch # None
    <3> DEFINE v == [i \in Ids |-> IF eng.batch[i] = None THEN eng.view[i] ELSE eng.batch[i]]
               d == [eng EXCEPT !.view = v, !.batch = None]
    <3>1. eng.batch \in [Ids -> Reported \cup {None}] /\ eng \in EngineRecords
      BY <2>2, EInvFacts DEF TypedEngine, EngineRecords
    <3>2. v \in [Ids -> Reported] /\ \A i \in Ids : v[i] = IF eng.batch[i] = None THEN eng.view[i] ELSE eng.batch[i]
      BY <3>1 DEF EngineRecords
    <3>3. Flushed(eng) = d
      BY DEF Flushed
    <3> HIDE DEF v
    <3>4. /\ d.map = eng.map /\ d.tun = eng.tun /\ d.timer = eng.timer /\ d.muted = eng.muted
          /\ d.clash = eng.clash /\ d.batch = None /\ d.view = v /\ d \in EngineRecords
      BY <3>1, <3>2 DEF EngineRecords
    <3> HIDE DEF d
    <3>5. TypedEngine(d) /\ Grown(eng, d)
      BY <3>4, EInvFacts DEF TypedEngine, Grown
    <3>6. Unmapped(d)
      BY <2>2, <3>2, <3>4, EInvFacts DEF Unmapped, Unused, Blank
    <3>7. MapInv(d, frames)
      BY <3>5, EInvFacts, GrownKeeps
    <3> DEFINE s == OnTunnelStateChange(d)
    <3>8. /\ TypedEngine(s) /\ Grown(d, s)
          /\ s.map = d.map /\ s.tun = d.tun /\ s.batch = d.batch /\ s.muted = d.muted
          /\ s.timer <=> AnyLive(d)
          /\ \A j \in Ids : s.view[j] = IF d.map[j] = None THEN d.view[j] ELSE StateOf(d, j)
      BY <3>5, SpokenFacts
    <3>9. e = s
      BY <2>2, <3>3
    <3> HIDE DEF s, e
    <3>10. MapInv(s, frames)
      BY <3>7, <3>8, GrownKeeps
    <3>11. Informed(s, g, {})
      BY <3>5, <3>8, SpokenTells
    <3>12. Unmapped(s) /\ Closes(s, g)
      BY <3>4, <3>6, <3>8 DEF Unmapped, Unused, Blank, Closes
    <3>13. QED
      BY <3>9, <3>10, <3>11, <3>12
  <2>3. QED
    BY <2>1, <2>2
<1>4. Continues(e, g)
  BY DEF BulkEnds
<1> HIDE DEF e
<1>5. MapInv(e, g)
  BY <1>2, <1>3, Reframed
<1>6. Inv(e, g, {})
  BY <1>3, <1>5 DEF Inv, TellInv
<1> HIDE DEF g
<1>7. QED
  BY <1>4, <1>6, EInvFacts, Settles

LEMMA StepSettles ==
  ASSUME EInv, NEW c \in Calls, Step(c)
  PROVE  EInv'
<1>1. frames[c] # None /\ store' = store
  BY DEF Step
<1>2. CASE frames[c].at = "ready" /\ \E todo \in frames[c].todo : Visit(c, todo[1], todo[2])
  BY <1>1, <1>2, VisitSettles
<1>3. CASE frames[c].at = "ready" /\ frames[c].todo = {} /\ frames[c].bulk /\ BulkEnds(c)
  BY <1>1, <1>3, BulkEndsSettles
<1>4. CASE frames[c].at = "reapplied" /\ Reapply(c, frames[c], eng)
  BY <1>1, <1>4, ReappliedSettles
<1>5. QED
  BY <1>2, <1>3, <1>4 DEF Step

LEMMA ReplacedSettles ==
  ASSUME EInv, store' = store, Quiet, NEW c \in Calls, frames[c] # None, frames[c].at = "replacing",
         MakeAndArm(c, frames[c], Disposed(eng, frames[c].on), frames[c].id)
  PROVE  EInv'
<1> DEFINE f == frames[c]
           n == f.on
           i == f.id
           t == eng.tun[n]
           r == [t EXCEPT !.state = "disarmed", !.paused = FALSE, !.pending = "absent"]
           d == Put(eng, n, r)
<1>1. f \in FrameRecords /\ n \in Tunnels /\ i \in Ids /\ t # None /\ t.id = i /\ t \in TunnelRecords
  BY FrameFacts
<1>2. Inv(eng, Park(c, f), {i})
  BY ComesBack
<1>3. Disposed(eng, n) = d
  BY <1>1, EInvFacts, DisposedIsPut
<1>4. r \in TunnelRecords /\ r.id = i /\ r.disposed = t.disposed /\ ~Live(Shown(r))
  BY <1>1 DEF TunnelRecords, Shown, Live, States, Defs
<1>5. MakeAndArm(c, f, d, i)
  BY <1>3
<1>6. i \in eng.clash \/ AllBuried(eng, i)
  BY EInvFacts DEF Buried, Ends
<1>7. i \in eng.clash \/ store[i] # "absent"
  <2>1. ~Due(frames, i)
    BY DEF Due, Quiet
  <2>2. QED
    BY <2>1, EInvFacts DEF Kept
<1>8. i \in eng.clash \/ \A b \in Calls \ {c} : frames[b] # None /\ frames[b].at \in Ends => frames[b].id # i
  BY EInvFacts DEF Alone
<1> HIDE DEF r
<1>9. Inv(d, Park(c, f), {i} \cup {r.id})
  BY <1>1, <1>2, <1>4, PutOwes
<1>10. d.clash = eng.clash /\ Grown(eng, d)
  BY <1>1, <1>4, EInvFacts, PutFacts
<1>11. i \in d.clash \/ AllBuried(d, i)
  BY <1>6, <1>10 DEF AllBuried, Grown
<1>12. {i} \cup {r.id} \subseteq {i}
  BY <1>4
<1>13. store \in [Ids -> Defs] /\ TypedFrames(frames)
  BY EInvFacts
<1> HIDE DEF d, i, f
<1>14. i \in d.clash \/ /\ AllBuried(d, i)
                        /\ store[i] # "absent"
                        /\ \A b \in Calls \ {c} : frames[b] # None /\ frames[b].at \in Ends => frames[b].id # i
  BY <1>7, <1>8, <1>10, <1>11
<1>15. QED
  BY <1>1, <1>5, <1>9, <1>12, <1>13, <1>14, MakeAndArmSettles

LEMMA RemovedSettles ==
  ASSUME EInv, store' = store, NEW c \in Calls, frames[c] # None, frames[c].at = "removing",
         Returns(c, frames[c], Removed(Disposed(eng, frames[c].on), frames[c].id))
  PROVE  EInv'
<1> DEFINE f == frames[c]
           n == f.on
           i == f.id
           t == eng.tun[n]
           r == [t EXCEPT !.state = "disarmed", !.paused = FALSE, !.pending = "absent"]
           d == Put(eng, n, r)
           g == Removed(d, i)
           x == Idle(f)
           h == [frames EXCEPT ![c] = x]
<1>1. f \in FrameRecords /\ n \in Tunnels /\ i \in Ids /\ t # None /\ t.id = i /\ t \in TunnelRecords
  BY FrameFacts
<1>2. Disposed(eng, n) = d
  BY <1>1, EInvFacts, DisposedIsPut
<1>3. r \in TunnelRecords /\ r.id = i /\ r.disposed = t.disposed
  BY <1>1 DEF TunnelRecords, States, Defs
<1>4. Continues(g, h)
  BY <1>2 DEF Returns
<1>5. (i \in eng.clash \/ AllBuried(eng, i)) /\ store[i] = "absent"
  BY EInvFacts DEF Buried, Kept, Ends
<1> HIDE DEF r
<1>6. /\ d.map = eng.map /\ d.batch = eng.batch /\ d.view = eng.view /\ d.muted = eng.muted
      /\ d.clash = eng.clash /\ Grown(eng, d) /\ TypedEngine(d)
  BY <1>1, <1>3, EInvFacts, PutFacts
<1> HIDE DEF d
<1>7. MapInv(d, frames)
  BY <1>6, EInvFacts, GrownKeeps
<1>8. Unmapped(d)
  BY <1>6, EInvFacts DEF Unmapped, Unused, Blank, Grown
<1>9. i \in d.clash \/ AllBuried(d, i)
  BY <1>5, <1>6 DEF AllBuried, Grown
<1>10. /\ MapInv(g, frames) /\ Unmapped(g) /\ (\A k : Informed(g, k, {}))
       /\ g.batch = d.batch /\ g.clash = d.clash
       /\ \A j \in Ids : g.map[j] = IF j = i THEN None ELSE d.map[j]
  BY <1>1, <1>5, <1>7, <1>8, <1>9, RemovedFacts
<1> HIDE DEF g
<1>11. Fits(g, frames, c, x) /\ x \in FrameRecords \cup {None} /\ (f.bulk => x # None /\ x.bulk)
  BY <1>1, IdleFacts
<1> HIDE DEF x
<1>12. Relieves(g, frames, c, x)
  BY <1>10 DEF Relieves
<1>13. MapInv(g, h)
  BY <1>10, <1>11, <1>12, Reframed
<1>14. TypedFrames(frames) /\ h[c] = x /\ \A b \in Calls \ {c} : h[b] = frames[b]
  BY EInvFacts DEF TypedFrames
<1> HIDE DEF h
<1>15. Closes(g, h)
  BY <1>6, <1>10, <1>11, <1>14, EInvFacts DEF Closes
<1>16. Inv(g, h, {})
  BY <1>10, <1>13, <1>15 DEF Inv, TellInv
<1>17. QED
  BY <1>4, <1>16, EInvFacts, Settles

LEMMA DisarmedIsPut ==
  ASSUME NEW e, TypedEngine(e), NEW n \in Tunnels, e.tun[n] # None
  PROVE  Disarmed(e, n)
          = OnStateChange(Put(e, n, [e.tun[n] EXCEPT !.paused = FALSE, !.state = "disarmed"]), n)
BY OpsArePuts

LEMMA ClosedSettles ==
  ASSUME EInv, NEW c \in Calls, Closed(c)
  PROVE  EInv'
<1> DEFINE f == frames[c]
<1>1. f # None /\ store' = store /\ Quiet
  BY DEF Closed
<1>2. CASE f.at = "replacing" /\ MakeAndArm(c, f, Disposed(eng, f.on), f.id)
  BY <1>1, <1>2, ReplacedSettles
<1>3. CASE f.at = "disarming" /\ Returns(c, f, Disarmed(eng, f.on))
  <2> DEFINE n == f.on
             t == eng.tun[n]
             r == [t EXCEPT !.paused = FALSE, !.state = "disarmed"]
  <2>1. f \in FrameRecords /\ n \in Tunnels /\ t # None /\ t \in TunnelRecords
    BY <1>1, <1>3, FrameFacts
  <2>2. Inv(eng, Park(c, f), {})
    BY <1>1, <1>3, ComesBack DEF WillTell, Ends
  <2>0. TypedEngine(eng)
    BY EInvFacts
  <2>3. Disarmed(eng, n) = OnStateChange(Put(eng, n, r), n)
    BY <2>0, <2>1, DisarmedIsPut
  <2>4. r \in TunnelRecords /\ r.id = t.id /\ r.disposed = t.disposed
    BY <2>1 DEF TunnelRecords, States
  <2> HIDE DEF r
  <2>5. MapInv(eng, Park(c, f)) /\ Unmapped(eng) /\ Closes(eng, Park(c, f))
    BY <2>2, InvFacts
  <2>6. Inv(Disarmed(eng, n), Park(c, f), {})
    BY <2>1, <2>3, <2>4, <2>5, SaysSo
  <2> HIDE DEF f
  <2>7. QED
    BY <1>1, <1>3, <2>1, <2>6, EInvFacts, ReturnsSettle
<1>4. CASE f.at = "removing" /\ Returns(c, f, Removed(Disposed(eng, f.on), f.id))
  BY <1>1, <1>4, RemovedSettles
<1>5. CASE f.at = "reapplying" /\ Reapply(c, f, eng)
  BY <1>1, <1>5, ReappliedSettles
<1>6. QED
  BY <1>2, <1>3, <1>4, <1>5 DEF Closed

LEMMA Primed ==
  ASSUME store' = store, store \in [Ids -> Defs], Inv(eng', frames', {}), Forgotten(eng', frames')
  PROVE  EInv'
BY DEF EInv, Inv, MapInv, TellInv, Forgotten, Over, Kept, Leaves, Unmapped, Informed, Closes,
     TypedEngine, TypedFrames, Points, Owns, Buried, AllBuried, Alone, Due, Going, Unused, Blank,
     AnyLive, WillTell

LEMMA BoundIsPut ==
  ASSUME NEW e, TypedEngine(e), NEW n \in Tunnels, e.tun[n] # None, NEW s
  PROVE  SetState([e EXCEPT !.tun[n].bound = TRUE], n, s)
          = OnStateChange(Put(e, n, [e.tun[n] EXCEPT !.bound = TRUE, !.state = s]), n)
<1> DEFINE t == e.tun[n]
           r == [t EXCEPT !.bound = TRUE]
           q == [t EXCEPT !.bound = TRUE, !.state = s]
           p == Put(e, n, r)
<1>1. SetState([e EXCEPT !.tun[n].bound = TRUE], n, s)
        = OnStateChange(Put(p, n, [p.tun[n] EXCEPT !.state = s]), n)
  BY DEF SetState, Put
<1>2. [r EXCEPT !.state = s] = q
  OBVIOUS
<1> HIDE DEF r, q
<1>3. p.tun[n] = r /\ Put(p, n, q) = Put(e, n, q)
  BY PutAfter
<1>4. QED
  BY <1>1, <1>2, <1>3 DEF q

LEMMA BindOkSettles ==
  ASSUME EInv, NEW c \in Calls, BindOk(c)
  PROVE  EInv'
<1> DEFINE f == frames[c]
           n == f.on
           t == eng.tun[n]
<1>1. f # None /\ store' = store /\ f.at = "binding"
  BY DEF BindOk
<1>2. f \in FrameRecords /\ n \in Tunnels /\ f.id \in Ids /\ t # None /\ t.id = f.id /\ t \in TunnelRecords
  BY <1>1, FrameFacts
<1>3. TypedEngine(eng) /\ store \in [Ids -> Defs] /\ TypedFrames(frames)
  BY EInvFacts
<1>4. CASE t.disposed
  <2>1. Returns(c, f, eng)
    BY <1>4 DEF BindOk
  <2>2. Inv(eng, Park(c, f), {})
    BY <1>1, <1>4, ComesBack DEF WillTell, Ends
  <2> HIDE DEF f
  <2>3. QED
    BY <1>1, <1>2, <1>3, <2>1, <2>2, ReturnsSettle
<1>5. CASE ~t.disposed
  <2> DEFINE r == [t EXCEPT !.bound = TRUE, !.state = "listening"]
             g == SetState([eng EXCEPT !.tun[n].bound = TRUE], n, "listening")
  <2>1. Returns(c, f, g)
    BY <1>5 DEF BindOk
  <2>2. g = OnStateChange(Put(eng, n, r), n)
    BY <1>2, <1>3, BoundIsPut
  <2>3. Inv(eng, Park(c, f), {f.id})
    BY <1>1, ComesBack
  <2>4. MapInv(eng, Park(c, f)) /\ Unmapped(eng) /\ Closes(eng, Park(c, f))
    BY <2>3, InvFacts
  <2>5. r \in TunnelRecords /\ r.id = t.id /\ r.disposed = t.disposed
    BY <1>2 DEF TunnelRecords, States
  <2> HIDE DEF r, g
  <2>6. Inv(g, Park(c, f), {})
    BY <1>2, <2>2, <2>4, <2>5, SaysSo
  <2> HIDE DEF f
  <2>7. QED
    BY <1>1, <1>2, <1>3, <2>1, <2>6, ReturnsSettle
<1>6. QED
  BY <1>4, <1>5

LEMMA BindFailsSettles ==
  ASSUME EInv, NEW c \in Calls, BindFails(c)
  PROVE  EInv'
<1> DEFINE f == frames[c]
           n == f.on
           t == eng.tun[n]
           r == [t EXCEPT !.state = "error"]
           g == SetState(eng, n, "error")
<1>1. f # None /\ store' = store /\ f.at = "binding" /\ Returns(c, f, g)
  BY DEF BindFails
<1>2. f \in FrameRecords /\ n \in Tunnels /\ f.id \in Ids /\ t # None /\ t.id = f.id /\ t \in TunnelRecords
  BY <1>1, FrameFacts
<1>3. TypedEngine(eng) /\ store \in [Ids -> Defs] /\ TypedFrames(frames)
  BY EInvFacts
<1>4. g = OnStateChange(Put(eng, n, r), n)
  BY DEF SetState, Put
<1>5. Inv(eng, Park(c, f), {f.id})
  BY <1>1, ComesBack
<1>6. MapInv(eng, Park(c, f)) /\ Unmapped(eng) /\ Closes(eng, Park(c, f))
  BY <1>5, InvFacts
<1>7. r \in TunnelRecords /\ r.id = t.id /\ r.disposed = t.disposed
  BY <1>2 DEF TunnelRecords, States
<1> HIDE DEF r, g
<1>8. Inv(g, Park(c, f), {})
  BY <1>2, <1>4, <1>6, <1>7, SaysSo
<1> HIDE DEF f
<1>9. QED
  BY <1>1, <1>2, <1>3, <1>8, ReturnsSettle

LEMMA DisarmAllSettles ==
  ASSUME EInv, DisarmAll
  PROVE  EInv'
<1> DEFINE m == [i \in Ids |-> None]
           gone(n) == Disposed(Dispose(eng, n), n).tun[n]
           tun == [n \in Tunnels |-> IF n \in Mapped(eng) THEN gone(n) ELSE eng.tun[n]]
           silent == eng.muted \cup {i \in Ids : eng.map[i] # None}
           d == [eng EXCEPT !.map = m, !.timer = FALSE, !.tun = tun, !.muted = silent]
<1>1. eng' = Tidy(d, frames) /\ store' = store /\ frames' = frames
  BY DEF DisarmAll
<1>2. /\ TypedEngine(eng) /\ eng \in EngineRecords /\ TypedFrames(frames) /\ Points(eng, frames)
      /\ Owns(eng) /\ Buried(eng, frames) /\ Alone(eng, frames) /\ Kept(eng, frames)
      /\ Leaves(eng, frames) /\ Unmapped(eng) /\ Closes(eng, frames)
  BY EInvFacts DEF TypedEngine
<1>3. ASSUME NEW n \in Mapped(eng)
      PROVE  n \in Tunnels /\ eng.tun[n] # None /\ gone(n) \in TunnelRecords
             /\ gone(n).id = eng.tun[n].id /\ gone(n).disposed
  <2> DEFINE t == eng.tun[n]
             r == [t EXCEPT !.bound = FALSE, !.disposed = TRUE, !.state = "disarmed",
                            !.paused = FALSE, !.pending = "absent"]
  <2>1. n \in Tunnels /\ t # None /\ t \in TunnelRecords
    BY <1>2 DEF Mapped, TypedEngine, EngineRecords
  <2>2. Disposed(Dispose(eng, n), n) = Put(eng, n, r)
    BY <1>2, <2>1, OpsArePuts
  <2>3. r \in TunnelRecords /\ r.id = t.id /\ r.disposed
    BY <2>1 DEF TunnelRecords, States, Defs
  <2> HIDE DEF r
  <2>4. Put(eng, n, r).tun[n] = r
    BY <1>2, <2>1, PutOnce
  <2>5. QED
    BY <2>1, <2>2, <2>3, <2>4
<1> HIDE DEF gone
<1>4. /\ tun \in [Tunnels -> TunnelRecords \cup {None}]
      /\ \A n \in Tunnels : tun[n] = IF n \in Mapped(eng) THEN gone(n) ELSE eng.tun[n]
  BY <1>2, <1>3 DEF EngineRecords
<1>5. m \in [Ids -> Tunnels \cup {None}] /\ \A i \in Ids : m[i] = None
  OBVIOUS
<1>6. silent \subseteq Ids
  BY <1>2 DEF EngineRecords
<1>7. \A i \in Ids : i \in silent <=> i \in eng.muted \/ eng.map[i] # None
  OBVIOUS
<1> HIDE DEF tun, m, silent
<1>8. /\ d.map = m /\ d.tun = tun /\ d.timer = FALSE /\ d.muted = silent /\ d.batch = eng.batch
      /\ d.view = eng.view /\ d.clash = eng.clash /\ d \in EngineRecords
  BY <1>2, <1>4, <1>5, <1>6 DEF EngineRecords
<1> HIDE DEF d
<1>9. \A n \in Tunnels :
        /\ d.tun[n] # None <=> eng.tun[n] # None
        /\ eng.tun[n] # None => d.tun[n].id = eng.tun[n].id /\ (eng.tun[n].disposed => d.tun[n].disposed)
        /\ n \in Mapped(eng) => d.tun[n].disposed
  BY <1>3, <1>4, <1>8, NotNull
<1>10. TypedEngine(d) /\ Points(d, frames)
  BY <1>2, <1>5, <1>8, <1>9 DEF TypedEngine, Points
<1>11. Owns(d)
  <2> SUFFICES ASSUME NEW n \in Tunnels, d.tun[n] # None, ~d.tun[n].disposed, d.tun[n].id \notin d.clash
               PROVE  FALSE
    BY DEF Owns
  <2>1. eng.tun[n] # None /\ ~eng.tun[n].disposed /\ eng.tun[n].id \notin eng.clash /\ eng.tun[n].id \in Ids
    BY <1>2, <1>8, <1>9 DEF EngineRecords, TunnelRecords
  <2>2. eng.map[eng.tun[n].id] = n
    BY <1>2, <2>1 DEF Owns
  <2>3. n \in Mapped(eng)
    BY <2>1, <2>2, NotNull DEF Mapped
  <2>4. QED
    BY <1>9, <2>3
<1>12. Buried(d, frames) /\ Alone(d, frames) /\ Kept(d, frames)
  BY <1>2, <1>8, <1>9 DEF Buried, AllBuried, Alone, Kept
<1>13. Leaves(d, frames)
  BY <1>5, <1>8 DEF Leaves
<1>14. Unmapped(d) /\ Closes(d, frames)
  BY <1>2, <1>7, <1>8, <1>9 DEF Unmapped, Unused, Blank, Closes
<1>15. Informed(d, frames, {})
  <2>1. \A i \in Ids : d.map[i] = None /\ StateOf(d, i) = "disarmed"
    BY <1>5, <1>8 DEF StateOf
  <2>2. ~AnyLive(d)
    BY <2>1 DEF AnyLive, Live
  <2>3. QED
    BY <1>8, <2>1, <2>2 DEF Informed
<1>16. Inv(d, frames, {})
  BY <1>2, <1>10, <1>11, <1>12, <1>13, <1>14, <1>15 DEF Inv, MapInv, TellInv
<1>17. Continues(d, frames)
  BY <1>1 DEF Continues
<1>18. QED
  BY <1>1, <1>16, <1>17, EInvFacts, Settles

(* What a tunnel says is about its own id and those in the map.            *)
LEMMA SpeaksApart ==
  ASSUME NEW e, TypedEngine(e), NEW n \in Tunnels, e.tun[n] # None, NEW i \in Ids,
         Unused(e, i), Blank(e, i)
  PROVE  Blank(OnStateChange(e, n), i)
<1> DEFINE t == e.tun[n]
           f == OnStateChange(e, n)
<1>1. Shown(t) \in Reported /\ t.id \in Ids /\ t.id # i /\ e.map[i] = None
  BY ShownType, NotNull DEF Unused, TypedEngine, EngineRecords
<1>2. CASE e.batch = None
  <2>1. f = Broadcast(e, t.id, Shown(t))
    BY <1>2 DEF OnStateChange
  <2>2. f.batch = None /\ f.view[i] = e.view[i]
    BY <1>1, <1>2, <2>1, BroadcastFacts
  <2>3. QED
    BY <2>2 DEF Blank
<1>3. CASE e.batch # None
  <2> DEFINE g == [e EXCEPT !.batch = [e.batch EXCEPT ![t.id] = Shown(t)]]
  <2>1. f = g
    BY <1>3 DEF OnStateChange
  <2>2. e.batch \in [Ids -> Reported \cup {None}] /\ e \in EngineRecords
    BY <1>3 DEF TypedEngine, EngineRecords
  <2>3. g.view = e.view /\ g.batch = [e.batch EXCEPT ![t.id] = Shown(t)]
    BY <2>2 DEF EngineRecords
  <2> HIDE DEF g, f
  <2>4. g.batch[i] = e.batch[i]
    BY <1>1, <2>2, <2>3
  <2>5. QED
    BY <1>3, <2>1, <2>3, <2>4 DEF Blank, f
<1>4. QED
  BY <1>2, <1>3

LEMMA FailsSettles ==
  ASSUME EInv, NEW n \in Tunnels, NEW s \in {"listening", "error"}, Fails(n, s)
  PROVE  EInv'
<1> DEFINE t == eng.tun[n]
           r == [t EXCEPT !.state = s]
           d == Put(eng, n, r)
           g == SetState(eng, n, s)
<1>1. t # None /\ eng' = g /\ store' = store /\ frames' = frames
  BY DEF Fails
<1>2. TypedEngine(eng) /\ store \in [Ids -> Defs] /\ t \in TunnelRecords
  BY <1>1, EInvFacts DEF TypedEngine, EngineRecords
<1>3. g = OnStateChange(d, n)
  BY DEF SetState, Put
<1>4. r \in TunnelRecords /\ r.id = t.id /\ r.disposed = t.disposed
  BY <1>2 DEF TunnelRecords, States
<1> HIDE DEF r, g
<1>5. Inv(g, frames, {})
  BY <1>1, <1>3, <1>4, EInvFacts, SaysSo
<1>6. TypedEngine(d) /\ Grown(eng, d) /\ d.batch = eng.batch /\ d.view = eng.view /\ d.tun[n] = r
  BY <1>1, <1>2, <1>4, PutFacts
<1> HIDE DEF d
<1>7. /\ g.tun = d.tun
      /\ \A i \in Ids : Unused(d, i) /\ Blank(d, i) => Blank(g, i)
  <2>1. d.tun[n] # None
    BY <1>4, <1>6, NotNull
  <2>2. \A i \in Ids : Unused(d, i) /\ Blank(d, i) => Blank(g, i)
    BY <1>3, <1>6, <2>1, SpeaksApart
  <2>3. MapInv(d, frames) /\ Unmapped(d) /\ Closes(d, frames)
    BY <1>6, EInvFacts, GrownKeeps, PutFacts, <1>1, <1>2, <1>4
       DEF Unmapped, Unused, Blank, Closes, Grown, d
  <2>4. g.tun = d.tun
    BY <1>3, <2>1, <2>3, Speaks
  <2>5. QED
    BY <2>2, <2>4
<1>8. Forgotten(g, frames)
  <2> SUFFICES ASSUME NEW i \in Ids, Over(g, frames, i)
               PROVE  Blank(g, i)
    BY DEF Forgotten
  <2>1. Unused(d, i) /\ Over(eng, frames, i)
    BY <1>6, <1>7 DEF Over, Unused, Grown
  <2>2. Blank(d, i)
    BY <1>6, <2>1, EInvFacts DEF Forgotten, Blank
  <2>3. QED
    BY <1>7, <2>1, <2>2
<1>9. QED
  BY <1>1, <1>2, <1>5, <1>8, Primed

LEMMA BeatSettles ==
  ASSUME EInv, Beat
  PROVE  EInv'
<1> DEFINE v == [i \in Ids |-> IF eng.map[i] = None THEN eng.view[i] ELSE StateOf(eng, i)]
           g == [eng EXCEPT !.view = v]
<1>1. eng' = g /\ store' = store /\ frames' = frames /\ eng.timer
  BY DEF Beat, EmitStats
<1>2. TypedEngine(eng) /\ eng \in EngineRecords
  BY EInvFacts DEF TypedEngine
<1>3. v \in [Ids -> Reported] /\ \A i \in Ids : v[i] = IF eng.map[i] = None THEN eng.view[i] ELSE StateOf(eng, i)
  BY <1>2, StateOfType DEF EngineRecords
<1> HIDE DEF v
<1>4. /\ g.map = eng.map /\ g.tun = eng.tun /\ g.batch = eng.batch /\ g.timer = eng.timer
      /\ g.muted = eng.muted /\ g.clash = eng.clash /\ g.view = v /\ g \in EngineRecords
  BY <1>2, <1>3 DEF EngineRecords
<1> HIDE DEF g
<1>5. TypedEngine(g) /\ Grown(eng, g)
  BY <1>2, <1>4 DEF TypedEngine, Grown
<1>6. MapInv(g, frames)
  BY <1>5, EInvFacts, GrownKeeps
<1>7. Unmapped(g) /\ Closes(g, frames)
  BY <1>3, <1>4, EInvFacts DEF Unmapped, Unused, Blank, Closes
<1>8. Informed(g, frames, {})
  <2>1. \A i : StateOf(g, i) = StateOf(eng, i)
    BY <1>4 DEF StateOf
  <2>2. AnyLive(g) <=> AnyLive(eng)
    BY <2>1 DEF AnyLive
  <2>3. \A x : WillTell(g, x) <=> WillTell(eng, x)
    BY <1>4 DEF WillTell
  <2>4. QED
    BY <1>3, <1>4, <2>1, <2>2, <2>3, EInvFacts DEF Informed
<1>9. Forgotten(g, frames)
  <2> SUFFICES ASSUME NEW i \in Ids, Over(g, frames, i)
               PROVE  Blank(g, i)
    BY DEF Forgotten
  <2>1. Unused(eng, i) /\ Over(eng, frames, i)
    BY <1>4 DEF Over, Unused
  <2>2. eng.map[i] = None
    BY <1>2, <2>1 DEF Unused, TypedEngine, EngineRecords
  <2>3. QED
    BY <1>3, <1>4, <2>1, <2>2, EInvFacts DEF Forgotten, Blank
<1>10. QED
  BY <1>1, <1>6, <1>7, <1>8, <1>9, EInvFacts, Primed DEF Inv, TellInv

LEMMA CallFacts == Call \in FrameRecords /\ ~Call.bulk /\ Call.at = "ready" /\ Call.id = None /\ Call.on = None
BY DEF Call, FrameRecords, Defs

LEMMA ClientsLeaveSettles ==
  ASSUME EInv, NEW n \in Tunnels, ClientsLeave(n)
  PROVE  EInv'
<1>1. eng.tun[n] # None /\ store' = store
  BY DEF ClientsLeave
<1>2. PICK c \in Calls : frames[c] = None /\ ApplyPending(c, Call, eng, n)
  BY DEF ClientsLeave
<1>3. Parked(Call) = None
  BY CallFacts DEF Parked
<1>4. Park(c, Call) = frames
  BY <1>2, <1>3, EInvFacts DEF Park, TypedFrames
<1>5. QED
  BY <1>1, <1>2, <1>4, CallFacts, EInvFacts, ApplyPendingSettles

Acts == {"arm", "disarm", "pause", "resume", "apply", "reconcile"}

(* A call begins: its frame.                                               *)
LEMMA Begun ==
  ASSUME EInv, NEW many \in BOOLEAN, NEW act \in Acts, NEW ids \in SUBSET Ids, Begin(many, act, ids),
         NEW e, MapInv(e, frames), Unmapped(e), Informed(e, frames, {}), Closes(e, frames) \/ many
  PROVE  /\ Inv(e, frames', {})
         /\ \A i \in Ids : Over(e, frames', i) => Over(e, frames, i) /\ i \notin ids
         /\ \E c \in Calls :
              /\ frames[c] = None /\ \A d \in Calls \ {c} : frames'[d] = frames[d]
              /\ frames'[c] # None /\ frames'[c].at = "ready" /\ frames'[c].id = None
              /\ frames'[c].todo = {act} \X ids
<1> DEFINE x == [Call EXCEPT !.bulk = many, !.todo = {act} \X ids]
<1>1. PICK c \in Calls : frames[c] = None /\ frames' = [frames EXCEPT ![c] = x]
  BY DEF Begin
<1>2. /\ x \in FrameRecords /\ x.at = "ready" /\ x.id = None /\ x.on = None
      /\ x.bulk = many /\ x.todo = {act} \X ids
  BY DEF Call, FrameRecords, Defs, Acts
<1> HIDE DEF x
<1>3. x # None
  BY <1>2, NotNull
<1>4. TypedFrames(frames)
  BY EInvFacts
<1>5. frames'[c] = x /\ \A d \in Calls \ {c} : frames'[d] = frames[d]
  BY <1>1, <1>4 DEF TypedFrames
<1>6. Fits(e, frames, c, x) /\ Relieves(e, frames, c, x)
  BY <1>1, <1>2 DEF Fits, Relieves, Ends
<1>7. MapInv(e, frames')
  BY <1>1, <1>2, <1>6, Reframed
<1>8. Informed(e, frames', {})
  <2>1. \A d \in Calls : WillTell(e, frames[d]) => WillTell(e, frames'[d]) /\ frames'[d] = frames[d]
    BY <1>1, <1>5 DEF WillTell
  <2>2. QED
    BY <2>1 DEF Informed
<1>9. Closes(e, frames')
  BY <1>1, <1>2, <1>3, <1>5 DEF Closes
<1>10. ASSUME NEW i \in Ids, Over(e, frames', i)
       PROVE  Over(e, frames, i) /\ i \notin ids
  <2>1. Over(e, frames, i)
    BY <1>1, <1>5, <1>10 DEF Over
  <2>2. \A t \in {act} \X ids : t[2] # i
    BY <1>2, <1>3, <1>5, <1>10 DEF Over
  <2>3. i \notin ids
    <3>1. \A j \in ids : <<act, j>> \in {act} \X ids /\ <<act, j>>[2] = j
      OBVIOUS
    <3>2. QED
      BY <2>2, <3>1
  <2>4. QED
    BY <2>1, <2>3
<1>11. QED
  BY <1>1, <1>2, <1>3, <1>5, <1>7, <1>8, <1>9, <1>10 DEF Inv, TellInv

LEMMA CallSettles ==
  ASSUME EInv, store' = store, eng' = eng, NEW act \in Acts, NEW ids \in SUBSET Ids,
         Begin(FALSE, act, ids)
  PROVE  EInv'
<1>1. /\ Inv(eng, frames', {})
      /\ \A i \in Ids : Over(eng, frames', i) => Over(eng, frames, i)
  BY EInvFacts, Begun
<1>2. Forgotten(eng, frames')
  BY <1>1, EInvFacts DEF Forgotten
<1>3. QED
  BY <1>1, <1>2, EInvFacts, Primed

LEMMA BulkSettles ==
  ASSUME EInv, NEW ids \in SUBSET Ids, NEW act \in Acts, Bulk(ids, act)
  PROVE  EInv'
<1> DEFINE b == [i \in Ids |-> None]
           e == [eng EXCEPT !.batch = b]
<1>1. eng' = e /\ store' = store /\ Begin(TRUE, act, ids)
  BY DEF Bulk
<1>2. b \in [Ids -> Reported \cup {None}] /\ b # None /\ \A i \in Ids : b[i] = None
  <2>1. b \in [Ids -> Reported \cup {None}]
    OBVIOUS
  <2>2. QED
    BY <2>1, NotNull
<1> HIDE DEF b
<1>3. /\ e.map = eng.map /\ e.tun = eng.tun /\ e.batch = b /\ e.timer = eng.timer
      /\ e.muted = eng.muted /\ e.clash = eng.clash /\ e.view = eng.view /\ e \in EngineRecords
  BY <1>2, EInvFacts DEF TypedEngine, EngineRecords
<1> HIDE DEF e
<1>4. TypedEngine(e) /\ Grown(eng, e)
  BY <1>3, EInvFacts DEF TypedEngine, Grown
<1>5. MapInv(e, frames)
  BY <1>4, EInvFacts, GrownKeeps
<1>6. Unmapped(e)
  BY <1>2, <1>3, EInvFacts DEF Unmapped, Unused, Blank
<1>7. Informed(e, frames, {})
  BY <1>2, <1>3 DEF Informed
<1>8. /\ Inv(e, frames', {})
      /\ \A i \in Ids : Over(e, frames', i) => Over(e, frames, i)
  BY <1>1, <1>5, <1>6, <1>7, Begun
<1>9. Forgotten(e, frames')
  <2> SUFFICES ASSUME NEW i \in Ids, Over(e, frames', i)
               PROVE  Blank(e, i)
    BY DEF Forgotten
  <2>1. Over(eng, frames, i)
    BY <1>3, <1>8 DEF Over, Unused
  <2>2. Blank(eng, i)
    BY <2>1, EInvFacts DEF Forgotten
  <2>3. QED
    BY <1>2, <1>3, <2>2 DEF Blank
<1>10. QED
  BY <1>1, <1>8, <1>9, EInvFacts, Primed

(* What is stored of i changes, and its reconcile() begins.                *)
LEMMA StoreSettles ==
  ASSUME EInv, NEW i \in Ids, NEW d \in Defs, store' = [store EXCEPT ![i] = d], eng' = eng,
         Begin(FALSE, "reconcile", {i}),
         store[i] # "absent" \/ (d # "absent" /\ ~Busy(i) /\ Over(eng, frames, i))
  PROVE  EInv'
<1>1. /\ Inv(eng, frames', {})
      /\ \A j \in Ids : Over(eng, frames', j) => Over(eng, frames, j) /\ j # i
      /\ \E c \in Calls :
           /\ frames[c] = None /\ \A b \in Calls \ {c} : frames'[b] = frames[b]
           /\ frames'[c] # None /\ frames'[c].at = "ready" /\ frames'[c].id = None
           /\ frames'[c].todo = {"reconcile"} \X {i}
  <2>1. "reconcile" \in Acts /\ {i} \in SUBSET Ids /\ FALSE \in BOOLEAN
    BY DEF Acts
  <2>2. MapInv(eng, frames) /\ Unmapped(eng) /\ Informed(eng, frames, {}) /\ Closes(eng, frames)
    BY EInvFacts
  <2> DEFINE ids == {i}
             act == "reconcile"
             many == FALSE
  <2>3. ids \in SUBSET Ids /\ act \in Acts /\ many \in BOOLEAN /\ Begin(many, act, ids)
    BY <2>1
  <2> HIDE DEF ids, act, many
  <2>4. /\ Inv(eng, frames', {})
        /\ \A j \in Ids : Over(eng, frames', j) => Over(eng, frames, j) /\ j \notin ids
        /\ \E c \in Calls :
             /\ frames[c] = None /\ \A b \in Calls \ {c} : frames'[b] = frames[b]
             /\ frames'[c] # None /\ frames'[c].at = "ready" /\ frames'[c].id = None
             /\ frames'[c].todo = {act} \X ids
    BY <2>2, <2>3, Begun
  <2>5. QED
    BY <2>4 DEF ids, act
<1>2. PICK c \in Calls :
        /\ frames[c] = None /\ \A b \in Calls \ {c} : frames'[b] = frames[b]
        /\ frames'[c] # None /\ frames'[c].at = "ready" /\ frames'[c].id = None
        /\ frames'[c].todo = {"reconcile"} \X {i}
  BY <1>1
<1>3. {"reconcile"} \X {i} = {<<"reconcile", i>>}
  OBVIOUS
<1>4. Due(frames', i)
  BY <1>2, <1>3 DEF Due
<1>5. store' \in [Ids -> Defs] /\ store'[i] = d /\ \A j \in Ids \ {i} : store'[j] = store[j]
  BY EInvFacts
<1>6. /\ MapInv(eng, frames') /\ TellInv(eng, frames', {}) /\ TypedFrames(frames')
      /\ Points(eng, frames') /\ Kept(eng, frames') /\ Leaves(eng, frames') /\ Unmapped(eng)
  BY <1>1 DEF Inv, MapInv, TellInv
<1>7. store[i] = "absent" => \A p \in Calls : frames'[p] # None => frames'[p].id # i
  BY <1>2, NotNull DEF Busy
<1>8. Kept(eng, frames)'
  <2> SUFFICES ASSUME NEW p \in Calls, frames'[p] # None
               PROVE  /\ frames'[p].at = "removing" => store'[frames'[p].id] = "absent"
                      /\ (frames'[p].at = "replacing" /\ store'[frames'[p].id] = "absent")
                           => frames'[p].id \in eng.clash \/ Due(frames', frames'[p].id)
    BY DEF Kept, Due
  <2>1. frames'[p].at \in Ends => frames'[p].id \in Ids
    BY <1>6 DEF Points, Ends
  <2>2. /\ frames'[p].at = "removing" => store[frames'[p].id] = "absent"
        /\ (frames'[p].at = "replacing" /\ store[frames'[p].id] = "absent")
             => frames'[p].id \in eng.clash \/ Due(frames', frames'[p].id)
    BY <1>6 DEF Kept
  <2>3. QED
    BY <1>4, <1>5, <1>7, <2>1, <2>2 DEF Ends
<1>9. Leaves(eng, frames)'
  <2> SUFFICES ASSUME NEW j \in Ids, store'[j] = "absent", j \notin eng.clash, eng.map[j] # None
               PROVE  Due(frames', j) \/ Going(frames', j)
    BY DEF Leaves, Due, Going
  <2>1. QED
    BY <1>4, <1>5, <1>6 DEF Leaves
<1>10. Unmapped(eng)'
  <2> SUFFICES ASSUME NEW j \in Ids, store'[j] # "absent", eng.map[j] = None, j \notin eng.muted
               PROVE  Unused(eng, j) /\ Blank(eng, j)
    BY DEF Unmapped, Unused, Blank
  <2>1. CASE store[j] # "absent"
    BY <1>6, <2>1 DEF Unmapped
  <2>2. CASE store[j] = "absent"
    <3>1. j = i
      BY <1>5, <2>2
    <3>2. Over(eng, frames, j)
      BY <2>2, <3>1
    <3>3. QED
      BY <3>2, EInvFacts DEF Over, Forgotten
  <2>3. QED
    BY <2>1, <2>2
<1>11. Forgotten(eng, frames)'
  <2> SUFFICES ASSUME NEW j \in Ids, Over(eng, frames, j)'
               PROVE  Blank(eng, j)
    BY DEF Forgotten, Blank
  <2>1. CASE j = i
    <3>1. <<"reconcile", i>>[2] = i /\ <<"reconcile", i>> \in frames'[c].todo
      BY <1>2, <1>3
    <3>2. QED
      BY <1>2, <2>1, <3>1 DEF Over
  <2>2. CASE j # i
    <3>1. Over(eng, frames', j)
      BY <1>5, <2>2 DEF Over, Unused
    <3>2. QED
      BY <1>1, <3>1, EInvFacts DEF Forgotten
  <2>3. QED
    BY <2>1, <2>2
<1>12. QED
  BY <1>5, <1>6, <1>8, <1>9, <1>10, <1>11
     DEF EInv, Inv, MapInv, TellInv, Informed, Closes, TypedEngine, TypedFrames, Points, Owns,
         Buried, AllBuried, Alone, AnyLive, WillTell

-----------------------------------------------------------------------------
(* The invariant holds for any number of overlapping calls.                *)
(* (engine.js:110-490)                                                     *)
THEOREM EngineInductive == Spec => []EInv
<1>1. Init => EInv
  <2> SUFFICES ASSUME Init PROVE EInv
    OBVIOUS
  <2> DEFINE e == [map |-> [i \in Ids |-> None], tun |-> [n \in Tunnels |-> None], batch |-> None,
                   timer |-> FALSE, view |-> [i \in Ids |-> "disarmed"], muted |-> {}, clash |-> {}]
  <2>1. eng = e /\ frames = [c \in Calls |-> None] /\ store \in [Ids -> Defs]
    BY DEF Init
  <2>2. e \in EngineRecords
    BY DEF EngineRecords, Reported, States
  <2>3. /\ e.map = [i \in Ids |-> None] /\ e.tun = [n \in Tunnels |-> None] /\ e.batch = None
        /\ e.timer = FALSE /\ e.view = [i \in Ids |-> "disarmed"]
    OBVIOUS
  <2> HIDE DEF e
  <2>4. /\ \A i \in Ids : eng.map[i] = None /\ eng.view[i] = "disarmed" /\ StateOf(eng, i) = "disarmed"
        /\ \A n \in Tunnels : eng.tun[n] = None
        /\ \A c \in Calls : frames[c] = None
        /\ eng.batch = None /\ ~eng.timer
    BY <2>1, <2>3 DEF StateOf
  <2>5. ~AnyLive(eng)
    BY <2>4 DEF AnyLive, Live
  <2>6. TypedEngine(eng) /\ TypedFrames(frames)
    BY <2>1, <2>2, <2>4 DEF TypedEngine, TypedFrames
  <2>7. MapInv(eng, frames)
    BY <2>4, <2>6 DEF MapInv, Points, Owns, Buried, Alone, Kept, Leaves
  <2>8. TellInv(eng, frames, {}) /\ Forgotten(eng, frames)
    BY <2>4, <2>5 DEF TellInv, Unmapped, Unused, Blank, Informed, Closes, Forgotten
  <2>9. QED
    BY <2>1, <2>7, <2>8 DEF EInv, Inv
<1>2. EInv /\ [Next]_vars => EInv'
  <2> SUFFICES ASSUME EInv, [Next]_vars PROVE EInv'
    OBVIOUS
  <2>1. ASSUME NEW i \in Ids, NEW act \in {"arm", "disarm", "pause", "resume", "apply"}, CallOne(i, act)
        PROVE  EInv'
    <3>1. act \in Acts /\ {i} \in SUBSET Ids
      BY DEF Acts
    <3>2. QED
      BY <2>1, <3>1, CallSettles DEF CallOne
  <2>2. ASSUME NEW i \in Ids, NEW d \in Defs, Write(i, d)
        PROVE  EInv'
    BY <2>2, StoreSettles DEF Write
  <2>3. ASSUME NEW i \in Ids, NEW d \in {"off", "on"}, Create(i, d)
        PROVE  EInv'
    <3>1. d \in Defs /\ d # "absent"
      BY DEF Defs
    <3>2. ~Busy(i) /\ Over(eng, frames, i)
      BY <2>3 DEF Create, Known, Over, Unused, Busy
    <3>3. QED
      BY <2>3, <3>1, <3>2, StoreSettles DEF Create
  <2>4. ASSUME NEW ids \in SUBSET Ids \ {{}}, NEW act \in {"arm", "disarm", "pause", "resume"}, Bulk(ids, act)
        PROVE  EInv'
    <3>1. act \in Acts
      BY DEF Acts
    <3>2. QED
      BY <2>4, <3>1, BulkSettles
  <2>5. CASE ArmAll
    <3>1. "arm" \in Acts /\ {i \in Ids \ Managed : store[i] = "on"} \in SUBSET Ids
      BY DEF Acts
    <3>2. QED
      BY <2>5, <3>1, CallSettles DEF ArmAll
  <2>6. CASE ReconcileAll
    <3>1. "reconcile" \in Acts /\ {i \in Ids : store[i] # "absent"} \in SUBSET Ids
      BY DEF Acts
    <3>2. QED
      BY <2>6, <3>1, CallSettles DEF ReconcileAll
  <2>7. CASE DisarmAll
    BY <2>7, DisarmAllSettles
  <2>8. ASSUME NEW c \in Calls, Step(c) \/ Closed(c) \/ BindOk(c) \/ BindFails(c)
        PROVE  EInv'
    BY <2>8, StepSettles, ClosedSettles, BindOkSettles, BindFailsSettles
  <2>9. ASSUME NEW n \in Tunnels, NEW s \in {"listening", "error"}, Fails(n, s)
        PROVE  EInv'
    BY <2>9, FailsSettles
  <2>10. CASE Beat
    BY <2>10, BeatSettles
  <2>11. ASSUME NEW n \in Tunnels, ClientsLeave(n)
         PROVE  EInv'
    BY <2>11, ClientsLeaveSettles
  <2>12. CASE UNCHANGED vars
    BY <2>12, EInvFacts, Primed DEF vars
  <2>13. QED
    BY <2>1, <2>2, <2>3, <2>4, <2>5, <2>6, <2>7, <2>8, <2>9, <2>10, <2>11, <2>12 DEF Next
<1>3. QED
  BY <1>1, <1>2, PTL DEF Spec

(* Whatever calls overlap, a tunnel that holds a port is the one in the    *)
(* map, and a deleted definition leaves none behind: arm(), disarm(),      *)
(* reconcile() and disarmAll() never lose a live listener, but where an    *)
(* arm() or reconcile() began while another replaced the tunnel.           *)
(* (engine.js:137-141, 254, 278-290)                                       *)
THEOREM MapSound == Spec => []MapIsSound
<1>1. EInv => MapIsSound
  <2> SUFFICES ASSUME EInv PROVE MapIsSound
    OBVIOUS
  <2>1. TypeOK
    BY EInvFacts DEF TypeOK, TypedEngine, TypedFrames
  <2>2. OwnsEveryLive
    BY EInvFacts DEF OwnsEveryLive, Owns
  <2>3. DeletedStaysGone
    <3> SUFFICES ASSUME NEW i \in Ids, Quiet, ~Busy(i), store[i] = "absent", i \notin eng.clash
                 PROVE  eng.map[i] = None
      BY DEF DeletedStaysGone
    <3>1. ~Due(frames, i) /\ ~Going(frames, i)
      BY DEF Due, Going, Quiet, Busy
    <3>2. QED
      BY <3>1, EInvFacts DEF Leaves
  <2>4. QED
    BY <2>1, <2>2, <2>3 DEF MapIsSound
<1>2. QED
  BY <1>1, EngineInductive, PTL

(* The renderer ends up with the truth: the heartbeat runs exactly while a *)
(* tunnel is up, a batch is always closed by a bulk action, and what was   *)
(* last said of a tunnel is how it is once its calls are over.             *)
(* (engine.js:43-47, 192-208, 410-422, 477-490)                            *)
THEOREM RendererTold == Spec => []RendererIsTold
<1>1. EInv => RendererIsTold
  <2> SUFFICES ASSUME EInv PROVE RendererIsTold
    OBVIOUS
  <2>1. HeartbeatRuns
    <3> SUFFICES ASSUME Quiet, eng.batch = None
                 PROVE  /\ AnyLive(eng) => eng.timer
                        /\ (eng.timer /\ \A c \in Calls : frames[c] = None) => AnyLive(eng)
      BY DEF HeartbeatRuns, AnyLive
    <3>1. /\ AnyLive(eng) => eng.timer
          /\ (eng.timer /\ ~AnyLive(eng)) => \E c \in Calls : WillTell(eng, frames[c])
      BY EInvFacts DEF Informed
    <3>2. QED
      BY <3>1 DEF WillTell
  <2>2. BatchIsClosed
    BY EInvFacts DEF BatchIsClosed, Closes
  <2>3. ViewIsCurrent
    <3> SUFFICES ASSUME Quiet, eng.batch = None, NEW i \in Ids \ eng.muted, ~Busy(i), store[i] # "absent"
                 PROVE  eng.view[i] = StateOf(eng, i)
      BY DEF ViewIsCurrent
    <3>1. CASE eng.map[i] = None
      <4>1. Blank(eng, i)
        BY <3>1, EInvFacts DEF Unmapped
      <4>2. QED
        BY <3>1, <4>1 DEF Blank, StateOf
    <3>2. CASE eng.map[i] # None
      <4>1. eng.view[i] # StateOf(eng, i) => \E c \in Calls : WillTell(eng, frames[c]) /\ frames[c].id = i
        BY <3>2, EInvFacts DEF Informed
      <4>2. QED
        BY <4>1 DEF WillTell, Busy
    <3>3. QED
      BY <3>1, <3>2
  <2>4. QED
    BY <2>1, <2>2, <2>3 DEF RendererIsTold
<1>2. QED
  BY <1>1, EngineInductive, PTL

-----------------------------------------------------------------------------
(* What the user is told outside the window.                                *)

NType ==
  /\ stored \subseteq Listed
  /\ DOMAIN link = Listed
  /\ DOMAIN held \subseteq Listed
  /\ \A i \in DOMAIN held : held[i] \in Events \cup {"none", "removed"}
  /\ dropShown \subseteq Listed
  /\ DOMAIN shown = Listed

NInv == NType /\ NoticesPair /\ TrayIsCurrent

(* A broadcast keeps the pairs: only a drop that is shown opens an episode,*)
(* and whatever is shown next closes it.                                   *)
LEMMA HeardInPairs ==
  ASSUME NEW heard, DOMAIN heard \subseteq Listed,
         \A i \in DOMAIN heard : heard[i] \in Events \cup {"none", "removed"},
         dropShown \subseteq Listed, NoticesPair, OnTunnelState(heard)
  PROVE  dropShown' \subseteq Listed /\ DOMAIN shown' = Listed /\ NoticesPair'
<1>1. dropShown' \subseteq Listed /\ DOMAIN shown' = Listed
  BY DEF OnTunnelState, Told
<1>2. ASSUME NEW i \in dropShown'
      PROVE  shown'[i] = "dropped"
  <2>1. i \in Listed
    BY <1>1
  <2>2. shown'[i] = IF i \in DOMAIN heard /\ Notice(i, heard[i]) # "none"
                    THEN Notice(i, heard[i]) ELSE shown[i]
    BY <2>1 DEF OnTunnelState
  <2>3. i \notin Having(heard, {"recovered", "gave-up", "removed"})
    BY DEF OnTunnelState
  <2>4. CASE i \in DOMAIN heard
    <3>1. heard[i] \in {"dropped", "none"}
      BY <2>3, <2>4 DEF Having, Events
    <3>2. CASE heard[i] = "dropped" /\ Notice(i, heard[i]) = "dropped"
      BY <2>2, <2>4, <3>2
    <3>3. CASE heard[i] = "none" \/ Notice(i, heard[i]) # "dropped"
      <4>1. Notice(i, heard[i]) = "none"
        BY <3>1, <3>3 DEF Notice
      <4>2. i \in dropShown
        BY <2>4, <4>1 DEF OnTunnelState, Told
      <4>3. QED
        BY <2>2, <4>1, <4>2 DEF NoticesPair
    <3>4. QED
      BY <3>1, <3>2, <3>3
  <2>5. CASE i \notin DOMAIN heard
    <3>1. i \in dropShown
      BY <2>5 DEF OnTunnelState, Told
    <3>2. QED
      BY <2>2, <2>5, <3>1 DEF NoticesPair
  <2>6. QED
    BY <2>4, <2>5
<1>3. QED
  BY <1>1, <1>2 DEF NoticesPair

LEMMA TrayRebuilt ==
  ASSUME UpdateTray
  PROVE  TrayIsCurrent'
BY DEF UpdateTray, GetStatus, TrayIsCurrent

LEMMA AnnounceKeeps ==
  ASSUME NInv, NEW heard, DOMAIN heard \subseteq Listed,
         \A i \in DOMAIN heard : heard[i] \in Events \cup {"none", "removed"},
         Announce(heard)
  PROVE  dropShown' \subseteq Listed /\ DOMAIN shown' = Listed /\ NoticesPair' /\ TrayIsCurrent'
BY HeardInPairs, TrayRebuilt DEF Announce, NInv, NType

LEMMA EmitKeeps ==
  ASSUME NInv, NEW i \in Listed, NEW first \in Events \cup {"none", "removed"},
         NEW last \in Events \cup {"none", "removed"}, Emit(i, first, last),
         stored' = stored, bulk' = bulk, DOMAIN link' = Listed
  PROVE  NInv'
<1>1. CASE bulk
  <2>1. /\ held' = [j \in DOMAIN held \cup {i} |-> IF j = i THEN last ELSE held[j]]
        /\ UNCHANGED <<cooling, dropShown, shown, menu, muted>>
    BY <1>1 DEF Emit, Unheard
  <2>2. NType'
    BY <2>1 DEF NInv, NType
  <2>3. QED
    BY <1>1, <2>1, <2>2 DEF NInv, NoticesPair, TrayIsCurrent
<1>2. CASE ~bulk
  <2> DEFINE heard == [j \in {i} |-> IF first # "none" THEN first ELSE last]
  <2>1. Announce(heard) /\ held' = held
    BY <1>2 DEF Emit
  <2>2. DOMAIN heard \subseteq Listed /\ \A j \in DOMAIN heard : heard[j] \in Events \cup {"none", "removed"}
    OBVIOUS
  <2> HIDE DEF heard
  <2>3. dropShown' \subseteq Listed /\ DOMAIN shown' = Listed /\ NoticesPair' /\ TrayIsCurrent'
    BY <2>1, <2>2, AnnounceKeeps
  <2>4. QED
    BY <2>1, <2>3 DEF NInv, NType
<1>3. QED
  BY <1>1, <1>2

LEMMA NoticesStep == NInv /\ [NoticesNext]_noticeVars => NInv'
<1> SUFFICES ASSUME NInv, [NoticesNext]_noticeVars PROVE NInv'
  OBVIOUS
<1>0. /\ {"none", "dropped", "recovered", "gave-up"} \subseteq Events \cup {"none", "removed"}
      /\ DOMAIN link = Listed
  BY DEF Events, NInv, NType
<1>1. ASSUME NEW i \in Listed, LinkArmed(i) \/ LinkDisarmed(i) \/ LinkConnects(i)
      PROVE  NInv'
  BY <1>0, <1>1, EmitKeeps DEF LinkArmed, LinkDisarmed, LinkConnects, Becomes
<1>2. ASSUME NEW i \in Listed, LinkRecovers(i) \/ LinkGivesUp(i)
      PROVE  NInv'
  BY <1>0, <1>2, EmitKeeps DEF LinkRecovers, LinkGivesUp, Becomes
<1>3. ASSUME NEW i \in Listed, NEW hot \in BOOLEAN, LinkDrops(i, hot)
      PROVE  NInv'
  BY <1>0, <1>3, EmitKeeps DEF LinkDrops, Becomes
<1>4. ASSUME NEW i \in Listed, Created(i) \/ Deleted(i)
      PROVE  NInv'
  <2>1. TrayIsCurrent'
    BY <1>4, TrayRebuilt DEF Created, Deleted, AfterWrite
  <2>2. QED
    BY <1>4, <2>1 DEF Created, Deleted, Unheard, NInv, NType, NoticesPair
<1>5. ASSUME NEW i \in Listed, Gone(i)
      PROVE  NInv'
  <2> DEFINE heard == [j \in {i} |-> "removed"]
  <2>1. Announce(heard)
    BY <1>5 DEF Gone
  <2>2. DOMAIN heard \subseteq Listed /\ \A j \in DOMAIN heard : heard[j] \in Events \cup {"none", "removed"}
    OBVIOUS
  <2> HIDE DEF heard
  <2>3. dropShown' \subseteq Listed /\ DOMAIN shown' = Listed /\ NoticesPair' /\ TrayIsCurrent'
    BY <2>1, <2>2, AnnounceKeeps
  <2>4. QED
    BY <1>5, <2>3 DEF Gone, Becomes, NInv, NType
<1>6. ASSUME NEW i \in Listed, CoolsDown(i)
      PROVE  NInv'
  BY <1>6 DEF CoolsDown, NInv, NType, NoticesPair, TrayIsCurrent
<1>7. CASE BatchBegins
  BY <1>7 DEF BatchBegins, Unheard, NInv, NType, NoticesPair, TrayIsCurrent
<1>8. CASE BatchEnds
  <2>1. dropShown' \subseteq Listed /\ DOMAIN shown' = Listed /\ NoticesPair' /\ TrayIsCurrent'
    BY <1>8, AnnounceKeeps DEF BatchEnds, NInv, NType
  <2>2. QED
    BY <1>8, <2>1 DEF BatchEnds, NInv, NType
<1>9. CASE AllDisarmed
  BY <1>9 DEF AllDisarmed, Unheard, NInv, NType, NoticesPair, TrayIsCurrent
<1>10. ASSUME NEW w \in {{}, Events}, Prefer(w)
       PROVE  NInv'
  BY <1>10 DEF Prefer, Unheard, NInv, NType, NoticesPair, TrayIsCurrent
<1>11. CASE UNCHANGED noticeVars
  BY <1>11 DEF noticeVars, NInv, NType, NoticesPair, TrayIsCurrent
<1>12. QED
  BY <1>1, <1>2, <1>3, <1>4, <1>5, <1>6, <1>7, <1>8, <1>9, <1>10, <1>11 DEF NoticesNext

(* Drops and recoveries are told in pairs and the tray is never stale, for *)
(* any set of tunnels and whatever a bulk action holds back.               *)
THEOREM StatusTold == NoticesSpec => []StatusIsTold
<1>1. NoticesInit => NInv
  BY DEF NoticesInit, NInv, NType, NoticesPair, TrayIsCurrent, GetStatus
<1>2. NInv => StatusIsTold
  BY DEF NInv, StatusIsTold
<1>3. QED
  BY <1>1, <1>2, NoticesStep, PTL DEF NoticesSpec

=============================================================================
