------------------------------- MODULE Engine -------------------------------
(***************************************************************************)
(* The TunnelEngine: the map of live tunnels, the calls on it that overlap *)
(* at their awaits, bulk actions with their one broadcast, and the stats   *)
(* heartbeat.  src/src/app/tunnel/engine.js                                *)
(*                                                                         *)
(* An action is one macrotask.  A Tunnel is what the engine sees of it:    *)
(* its state, whether it is paused, disposed, its listener bound; its own  *)
(* calls, in module Tunnel, suspend while they close a bound listener or   *)
(* bind one.  Tunnels here are local or dynamic forwards.                  *)
(*                                                                         *)
(* Left out: host-key prompts, the probe, what snapshots hold besides the  *)
(* state, and changes of the set the scheduler manages.                    *)
(***************************************************************************)
EXTENDS Naturals, FiniteSets

CONSTANTS
  Ids,      \* identities of tunnel definitions
  Managed,  \* the ids that belong to the scheduler (getManagedIds)
  Tunnels,  \* BOUND: Tunnel objects that exist at a time
  Calls,    \* BOUND: calls in progress at a time
  Crowd,    \* BOUND: ids in use when a call begins beside another
  None

ASSUME ManagedAssumption == Managed \subseteq Ids
ASSUME CrowdAssumption == Crowd \in Nat

(* #state: "listening" stands for connecting and connected too.            *)
States == {"disarmed", "listening", "error"}

Reported == States \cup {"paused"}

(* What is stored of a definition: absent, or its `enabled` flag.          *)
Defs == {"absent", "off", "on"}

(* `pending` is the stashed edit, "absent" when there is none.             *)
TunnelRecords ==
  [id : Ids, state : States, paused : BOOLEAN, disposed : BOOLEAN, bound : BOOLEAN,
   pending : Defs]

(* A call in progress: `todo` is what it has still to do, and to which id; *)
(* it is `at` an await on the tunnel `on` of `id`, or, at "ready" and      *)
(* "reapplied", about to go on in a microtask.  `def` is the edit of a     *)
(* re-apply.                                                               *)
FrameRecords ==
  [bulk : BOOLEAN,
   todo : SUBSET ({"arm", "disarm", "pause", "resume", "apply", "reconcile"} \X Ids),
   at   : {"ready", "replacing", "binding", "disarming", "removing", "reapplying", "reapplied"},
   id   : Ids \cup {None},
   on   : Tunnels \cup {None},
   def  : Defs]

(* null is none of the values that stand beside it.                        *)
ASSUME NoneAssumption ==
  /\ None \notin Ids \cup Tunnels \cup Calls \cup Reported
  /\ None \notin TunnelRecords \cup FrameRecords \cup [Ids -> Reported \cup {None}]

VARIABLES
  store,  \* the saved definitions
  eng,    \* the engine and its tunnels
  frames  \* the calls in progress

vars == <<store, eng, frames>>

(* `map` is #tunnels, `batch` #batch, `timer` #statsTimer.  `view` is the  *)
(* state of each id in the renderer, by the last message that named it.    *)
(* History: `muted` are the ids that disarmAll() ended, `clash` those on   *)
(* which an arm() or reconcile() began while an arm() replaced the tunnel. *)
EngineRecords ==
  [map   : [Ids -> Tunnels \cup {None}],
   tun   : [Tunnels -> TunnelRecords \cup {None}],
   batch : {None} \cup [Ids -> Reported \cup {None}],
   timer : BOOLEAN,
   view  : [Ids -> Reported],
   muted : SUBSET Ids,
   clash : SUBSET Ids]

TypeOK ==
  /\ store \in [Ids -> Defs]
  /\ eng \in EngineRecords
  /\ frames \in [Calls -> FrameRecords \cup {None}]
  /\ \A i \in Ids : eng.map[i] # None => eng.tun[eng.map[i]] # None /\ eng.tun[eng.map[i]].id = i

-----------------------------------------------------------------------------
(* Tunnel.state                                                            *)
Shown(t) == IF t.paused THEN "paused" ELSE t.state

StateOf(e, i) == IF e.map[i] = None THEN "disarmed" ELSE Shown(e.tun[e.map[i]])

Live(s) == s \in {"listening", "paused"}

Busy(i) == \E c \in Calls : frames[c] # None /\ frames[c].id = i

Replacing(i) ==
  \E c \in Calls : frames[c] # None /\ frames[c].id = i /\ frames[c].at = "replacing"

Quiet == \A c \in Calls : frames[c] # None => frames[c].at \notin {"ready", "reapplied"}

Mapped(e) == {e.map[i] : i \in Ids} \ {None}

Referred(fr) == {fr[c].on : c \in {d \in Calls : fr[d] # None}} \ {None}

(* A disposed tunnel that nothing refers to is gone, and one that was lost *)
(* when calls overlapped is followed no further.  Nothing is remembered of *)
(* an id that is stored no more and whose tunnels and calls are over.      *)
Tidy(e, fr) ==
  LET tun == [n \in Tunnels |->
               IF /\ e.tun[n] # None /\ n \notin Mapped(e) \cup Referred(fr)
                  /\ e.tun[n].disposed \/ e.tun[n].id \in e.clash
               THEN None ELSE e.tun[n]]
      over == {i \in Ids :
                /\ store[i] = "absent"
                /\ \A n \in Tunnels : tun[n] # None => tun[n].id # i
                /\ \A c \in Calls : fr[c] # None =>
                     fr[c].id # i /\ \A todo \in fr[c].todo : todo[2] # i}
  IN  [e EXCEPT !.tun = tun, !.muted = @ \ over, !.clash = @ \ over,
                !.view = [i \in Ids |-> IF i \in over THEN "disarmed" ELSE @[i]],
                !.batch = IF @ = None THEN None
                          ELSE [i \in Ids |-> IF i \in over THEN None ELSE @[i]]]

(* #refreshStatsTimer()                                                    *)
RefreshStatsTimer(e) == [e EXCEPT !.timer = \E i \in Ids : Live(StateOf(e, i))]

(* #emitStats(): a snapshot of every tunnel in the map.                    *)
EmitStats(e) ==
  [e EXCEPT !.view = [i \in Ids |-> IF e.map[i] = None THEN @[i] ELSE StateOf(e, i)]]

(* #onTunnelStateChange()                                                  *)
OnTunnelStateChange(e) == EmitStats(RefreshStatsTimer(e))

(* A "tunnel-state" message, and the statistics that follow it.            *)
Broadcast(e, i, s) == OnTunnelStateChange([e EXCEPT !.view[i] = s])

(* The onStateChange of #makeTunnel(): collected during a bulk action,     *)
(* else broadcast.                                                         *)
OnStateChange(e, n) ==
  LET t == e.tun[n]
  IN  IF e.batch # None THEN [e EXCEPT !.batch[t.id] = Shown(t)]
      ELSE Broadcast(e, t.id, Shown(t))

(* Tunnel #setState()                                                      *)
SetState(e, n, s) == OnStateChange([e EXCEPT !.tun[n].state = s], n)

(* The ends of Tunnel disarm() and dispose(); the second says nothing.     *)
Disarmed(e, n) == SetState([e EXCEPT !.tun[n].paused = FALSE], n, "disarmed")

Disposed(e, n) ==
  [e EXCEPT !.tun[n].state = "disarmed", !.tun[n].paused = FALSE, !.tun[n].pending = "absent"]

Closing(e, n) == [e EXCEPT !.tun[n].bound = FALSE]

Dispose(e, n) == [Closing(e, n) EXCEPT !.tun[n].disposed = TRUE]

Init ==
  /\ store \in [Ids -> Defs]
  /\ eng = [map |-> [i \in Ids |-> None], tun |-> [n \in Tunnels |-> None], batch |-> None,
            timer |-> FALSE, view |-> [i \in Ids |-> "disarmed"], muted |-> {}, clash |-> {}]
  /\ frames = [c \in Calls |-> None]

-----------------------------------------------------------------------------
(* What a call c does next; `f` is its frame so far, `e` the engine.       *)

Continues(e, fr) == eng' = Tidy(e, fr) /\ frames' = fr

Awaits(c, f, e, at, i, n) ==
  Continues(e, [frames EXCEPT ![c] = [f EXCEPT !.at = at, !.id = i, !.on = n]])

Loops(f) == f.bulk \/ f.todo # {}

(* One id is done: a loop goes on, a single call is over.                  *)
Idle(f) ==
  IF Loops(f) THEN [f EXCEPT !.at = "ready", !.id = None, !.on = None, !.def = "absent"]
  ELSE None

Returns(c, f, e) == Continues(e, [frames EXCEPT ![c] = Idle(f)])

(* Tunnel arm().  On a disposed tunnel it does nothing.  A listener that   *)
(* the tunnel still has closes first, in the same wait.                    *)
ArmTunnel(c, f, e, n) ==
  IF e.tun[n].disposed THEN Returns(c, f, e)
  ELSE Awaits(c, f, [Closing(e, n) EXCEPT !.tun[n].paused = FALSE], "binding", e.tun[n].id, n)

(* The rest of arm(): the new tunnel takes the place in the map.           *)
MakeAndArm(c, f, e, i) ==
  \E n \in {m \in Tunnels : e.tun[m] = None} :
    ArmTunnel(c, f, [e EXCEPT !.tun[n] = [id |-> i, state |-> "disarmed", paused |-> FALSE,
                                          disposed |-> FALSE, bound |-> FALSE,
                                          pending |-> "absent"],
                              !.map[i] = n, !.muted = @ \ {i}], n)

(* Mutant: a tunnel in error is replaced without being disposed.           *)
ArmId_Mutant(c, f, e, i) ==
  IF store[i] = "absent" \/ Live(StateOf(e, i)) THEN Returns(c, f, e)
  ELSE MakeAndArm(c, f, e, i)

(* arm(): a tunnel that is up is left alone, one that is not is replaced.  *)
ArmId(c, f, e, i) ==
  LET n == e.map[i]
  IN  IF store[i] = "absent" \/ Live(StateOf(e, i)) THEN Returns(c, f, e)
      ELSE IF n = None THEN MakeAndArm(c, f, e, i)
      ELSE IF e.tun[n].bound THEN Awaits(c, f, Dispose(e, n), "replacing", i, n)
      ELSE MakeAndArm(c, f, Disposed(Dispose(e, n), n), i)

(* disarm()                                                                *)
DisarmId(c, f, e, i) ==
  LET n == e.map[i]
  IN  IF n = None THEN Returns(c, f, e)
      ELSE LET d == [e EXCEPT !.tun[n].pending = "absent"]
           IN  IF d.tun[n].bound THEN Awaits(c, f, Closing(d, n), "disarming", i, n)
               ELSE Returns(c, f, Disarmed(d, n))

(* pause() and resume(): on a disposed tunnel, or one not up, no-ops.      *)
PauseId(c, f, e, i, pausing) ==
  LET n == e.map[i]
  IN  IF n # None /\ ~e.tun[n].disposed /\ e.tun[n].paused # pausing
           /\ (pausing => e.tun[n].state = "listening")
      THEN Returns(c, f, OnStateChange([e EXCEPT !.tun[n].paused = pausing], n))
      ELSE Returns(c, f, e)

(* Tunnel #reapply() of the edit d, which no loop waits for.               *)
ReapplyTunnel(c, f, e, n, d) ==
  LET at == IF e.tun[n].bound THEN "reapplying" ELSE "reapplied"
      frame == [bulk |-> FALSE, todo |-> {}, at |-> at, id |-> e.tun[n].id, on |-> n, def |-> d]
      own == IF Loops(f) THEN {b \in Calls : frames[b] = None} \ {c} ELSE {c}
  IN  \E b \in own :
        Continues(Closing(e, n), [frames EXCEPT ![c] = Idle(f), ![b] = frame])

(* ... after the teardown.                                                 *)
Reapply(c, f, e) ==
  IF f.def = "on" THEN ArmTunnel(c, f, e, f.on)
  ELSE Returns(c, f, SetState(e, f.on, "disarmed"))

(* The stashed edit of tunnel n is applied.                                *)
ApplyPending(c, f, e, n) ==
  ReapplyTunnel(c, f, [e EXCEPT !.tun[n].pending = "absent"], n, e.tun[n].pending)

(* apply()                                                                 *)
ApplyId(c, f, e, i) ==
  LET n == e.map[i]
  IN  IF n = None \/ e.tun[n].pending = "absent" THEN Returns(c, f, e)
      ELSE ApplyPending(c, f, e, n)

(* The end of reconcile() of a deleted definition.                         *)
Removed(e, i) == Broadcast([e EXCEPT !.map[i] = None], i, "disarmed")

(* Tunnel applyDefinition() on one that is up: the edit is cosmetic, or    *)
(* waits for the clients, or there are none and it is applied.  What the   *)
(* edit changes is left open.                                              *)
Edited(c, f, e, n, d) ==
  \/ Returns(c, f, OnStateChange(e, n))
  \/ Returns(c, f, OnStateChange([e EXCEPT !.tun[n].pending = d], n))
  \/ ReapplyTunnel(c, f, e, n, d)

(* reconcile(): a deleted one is disposed, a new one armed.  To one that   *)
(* is not up an edit is cosmetic and announced, or awaits the next arm.    *)
ReconcileId(c, f, e, i) ==
  LET n == e.map[i]
      mayArm == store[i] = "on" /\ i \notin Managed
  IN  CASE store[i] = "absent" /\ n = None -> Returns(c, f, e)
        [] store[i] = "absent" /\ n # None ->
             IF e.tun[n].bound THEN Awaits(c, f, Dispose(e, n), "removing", i, n)
             ELSE Returns(c, f, Removed(Disposed(Dispose(e, n), n), i))
        [] store[i] # "absent" /\ n = None ->
             IF mayArm THEN ArmId(c, f, e, i) ELSE Returns(c, f, e)
        [] store[i] # "absent" /\ n # None /\ e.tun[n].state = "disarmed" ->
             \E told \in {e, OnStateChange(e, n)} :
               IF mayArm THEN ArmTunnel(c, f, told, n) ELSE Returns(c, f, told)
        [] OTHER -> Edited(c, f, e, n, store[i])

(* The call on one id.                                                     *)
Visit(c, act, i) ==
  LET f == [frames[c] EXCEPT !.todo = @ \ {<<act, i>>}]
      e == [eng EXCEPT !.clash = IF act \in {"arm", "reconcile"} /\ Replacing(i) THEN @ \cup {i}
                                 ELSE @]
  IN  CASE act = "arm" -> ArmId(c, f, e, i)
        [] act = "disarm" -> DisarmId(c, f, e, i)
        [] act \in {"pause", "resume"} -> PauseId(c, f, e, i, act = "pause")
        [] act = "apply" -> ApplyId(c, f, e, i)
        [] act = "reconcile" -> ReconcileId(c, f, e, i)

-----------------------------------------------------------------------------
(* Calls begin.                                                            *)

Call == [bulk |-> FALSE, todo |-> {}, at |-> "ready", id |-> None, on |-> None, def |-> "absent"]

(* Is anything there of i?                                                 *)
Known(i) ==
  \/ store[i] # "absent" \/ Busy(i)
  \/ \E n \in Tunnels : eng.tun[n] # None /\ eng.tun[n].id = i

(* A call may begin: nothing is about to go on, and the calls in progress  *)
(* leave room.                                                             *)
CanBegin(ids) ==
  /\ Quiet
  /\ \/ \A c \in Calls : frames[c] = None
     \/ Cardinality(ids \cup {i \in Ids : Known(i)}) <= Crowd

Begin(bulk, act, ids) ==
  /\ CanBegin(ids)
  /\ \E c \in Calls :
       /\ frames[c] = None
       /\ frames' = [frames EXCEPT ![c] = [Call EXCEPT !.bulk = bulk, !.todo = {act} \X ids]]

(* arm(), disarm(), pause(), resume(), apply() of one id.                  *)
CallOne(i, act) ==
  /\ store[i] # "absent"
  /\ Begin(FALSE, act, {i})
  /\ UNCHANGED <<store, eng>>

(* A definition is saved or deleted, and reconcile() called.               *)
Write(i, d) ==
  /\ store[i] # "absent"
  /\ store' = [store EXCEPT ![i] = d]
  /\ Begin(FALSE, "reconcile", {i})
  /\ UNCHANGED eng

(* A definition is created, with an id that never was.                     *)
Create(i, d) ==
  /\ ~Known(i)
  /\ \A c \in Calls : frames[c] # None => \A todo \in frames[c].todo : todo[2] # i
  /\ store' = [store EXCEPT ![i] = d]
  /\ UNCHANGED eng
  /\ Begin(FALSE, "reconcile", {i})

(* applyToMany()                                                           *)
Bulk(ids, act) ==
  /\ Begin(TRUE, act, ids)
  /\ eng' = [eng EXCEPT !.batch = [i \in Ids |-> None]]
  /\ UNCHANGED store

(* armAll(), less what the scheduler arms.                                 *)
ArmAll ==
  /\ \E i \in Ids \ Managed : store[i] = "on"
  /\ Begin(FALSE, "arm", {i \in Ids \ Managed : store[i] = "on"})
  /\ UNCHANGED <<store, eng>>

(* reconcileAll()                                                          *)
ReconcileAll ==
  /\ \E i \in Ids : store[i] # "absent"
  /\ Begin(FALSE, "reconcile", {i \in Ids : store[i] # "absent"})
  /\ UNCHANGED <<store, eng>>

(* disarmAll()                                                             *)
DisarmAll ==
  /\ Quiet /\ Mapped(eng) # {}
  /\ eng' = Tidy([eng EXCEPT !.map = [i \in Ids |-> None],
                             !.timer = FALSE,
                             !.tun = [n \in Tunnels |-> IF n \in Mapped(eng)
                                                       THEN Disposed(Dispose(eng, n), n).tun[n]
                                                       ELSE @[n]],
                             !.muted = @ \cup {i \in Ids : eng.map[i] # None}], frames)
  /\ UNCHANGED <<store, frames>>

-----------------------------------------------------------------------------
(* Calls go on.                                                            *)

(* The batch's message, before the statistics.                             *)
Flushed(e) ==
  [e EXCEPT !.view = [i \in Ids |-> IF e.batch[i] = None THEN @[i] ELSE e.batch[i]],
            !.batch = None]

(* Mutant: no statistics follow.                                           *)
BulkEnds_Mutant(c) ==
  Continues(IF eng.batch = None THEN eng ELSE RefreshStatsTimer(Flushed(eng)),
            [frames EXCEPT ![c] = None])

(* The end of applyToMany(): its one message.  When another bulk action    *)
(* has ended the batch meanwhile, the call throws.                         *)
BulkEnds(c) ==
  Continues(IF eng.batch = None THEN eng ELSE OnTunnelStateChange(Flushed(eng)),
            [frames EXCEPT ![c] = None])

Step(c) ==
  LET f == frames[c]
  IN  /\ f # None
      /\ \/ f.at = "ready" /\ \E todo \in f.todo : Visit(c, todo[1], todo[2])
         \/ f.at = "ready" /\ f.todo = {} /\ f.bulk /\ BulkEnds(c)
         \/ f.at = "reapplied" /\ Reapply(c, f, eng)
      /\ UNCHANGED store

(* The listening socket that the call waits for has closed.                *)
Closed(c) ==
  LET f == frames[c]
  IN  /\ Quiet /\ f # None
      /\ \/ f.at = "replacing" /\ MakeAndArm(c, f, Disposed(eng, f.on), f.id)
         \/ f.at = "disarming" /\ Returns(c, f, Disarmed(eng, f.on))
         \/ f.at = "removing" /\ Returns(c, f, Removed(Disposed(eng, f.on), f.id))
         \/ f.at = "reapplying" /\ Reapply(c, f, eng)
      /\ UNCHANGED store

(* A bind ends.  On a tunnel disposed meanwhile the socket is closed, but  *)
(* a failure is reported all the same.                                     *)
BindOk(c) ==
  LET f == frames[c]
  IN  /\ Quiet /\ f # None /\ f.at = "binding"
      /\ Returns(c, f, IF eng.tun[f.on].disposed THEN eng
                       ELSE SetState([eng EXCEPT !.tun[f.on].bound = TRUE], f.on, "listening"))
      /\ UNCHANGED store

BindFails(c) ==
  LET f == frames[c]
  IN  /\ Quiet /\ f # None /\ f.at = "binding"
      /\ Returns(c, f, SetState(eng, f.on, "error"))
      /\ UNCHANGED store

-----------------------------------------------------------------------------
(* Tunnels on their own.                                                   *)

(* The SSH side fails for good, or comes back.                             *)
Fails(n, s) ==
  /\ Quiet /\ eng.tun[n] # None
  /\ eng.tun[n].bound /\ ~eng.tun[n].disposed /\ eng.tun[n].state # s
  /\ eng' = SetState(eng, n, s)
  /\ UNCHANGED <<store, frames>>

(* The heartbeat.                                                          *)
Beat ==
  /\ Quiet /\ eng.timer
  /\ eng' = EmitStats(eng)
  /\ UNCHANGED <<store, frames>>

(* The last client leaves, and the stashed edit is applied.                *)
ClientsLeave(n) ==
  LET t == eng.tun[n]
  IN  /\ t # None /\ CanBegin({t.id}) /\ t.bound /\ t.pending # "absent"
      /\ \E c \in Calls :
           /\ frames[c] = None
           /\ ApplyPending(c, Call, eng, n)
      /\ UNCHANGED store

Next ==
  \/ \E i \in Ids, act \in {"arm", "disarm", "pause", "resume", "apply"} : CallOne(i, act)
  \/ \E i \in Ids, d \in Defs : Write(i, d)
  \/ \E i \in Ids, d \in {"off", "on"} : Create(i, d)
  \/ \E ids \in SUBSET Ids \ {{}}, act \in {"arm", "disarm", "pause", "resume"} : Bulk(ids, act)
  \/ ArmAll \/ ReconcileAll \/ DisarmAll
  \/ \E c \in Calls : Step(c) \/ Closed(c) \/ BindOk(c) \/ BindFails(c)
  \/ \E n \in Tunnels, s \in {"listening", "error"} : Fails(n, s)
  \/ Beat
  \/ \E n \in Tunnels : ClientsLeave(n)

Spec == Init /\ [][Next]_vars

-----------------------------------------------------------------------------
(* The stats heartbeat runs while a tunnel is up, and no longer: across    *)
(* bulk actions, replaced and deleted tunnels and disarmAll(), which       *)
(* broadcast late or never.  (engine.js:43-47, 208, 254, 298, 477-490)     *)
HeartbeatRuns ==
  (Quiet /\ eng.batch = None) =>
    /\ (\E i \in Ids : Live(StateOf(eng, i))) => eng.timer
    /\ (eng.timer /\ \A c \in Calls : frames[c] = None) => \E i \in Ids : Live(StateOf(eng, i))

(* The engine owns every live tunnel: one that holds a port is the one in  *)
(* the map, whatever replaces it, deletes it or disarms all while it is    *)
(* binding or closing, unless two calls on it overlapped.                  *)
(* (engine.js:2, 19-20, 137-141, 254)                                      *)
OwnsEveryLive ==
  \A n \in Tunnels :
    (eng.tun[n] # None /\ eng.tun[n].bound /\ ~eng.tun[n].disposed
      /\ eng.tun[n].id \notin eng.clash) => eng.map[eng.tun[n].id] = n

(* What the renderer was last told of a tunnel is how it is, once the      *)
(* calls on it are over: one that a bulk action changed silently, whose    *)
(* batch another replaced, that a disposed predecessor spoke over; but not *)
(* one that disarmAll() ended.  (engine.js:196-208, 410-422, 478-490)      *)
ViewIsCurrent ==
  (Quiet /\ eng.batch = None) =>
    \A i \in Ids \ eng.muted :
      (~Busy(i) /\ store[i] # "absent") => eng.view[i] = StateOf(eng, i)

(* A batch that stayed open would silence the engine for good: there is    *)
(* one only while a bulk action is on its way to close it, however two of  *)
(* them overlap and replace each other's.  (engine.js:192-205)             *)
BatchIsClosed == eng.batch # None => \E c \in Calls : frames[c] # None /\ frames[c].bulk

(* A deleted definition leaves no tunnel behind, whatever was in progress  *)
(* on it, unless an arm() was replacing it.  (engine.js:262, 278-290)      *)
DeletedStaysGone ==
  \A i \in Ids :
    (Quiet /\ ~Busy(i) /\ store[i] = "absent" /\ i \notin eng.clash) => eng.map[i] = None

(* The map holds what is live and nothing that was deleted.                *)
MapIsSound == TypeOK /\ OwnsEveryLive /\ DeletedStaysGone

(* What is broadcast, when, and for how long.                              *)
RendererIsTold == HeartbeatRuns /\ BatchIsClosed /\ ViewIsCurrent
=============================================================================
