---------------------------- MODULE TunnelProofs ----------------------------
(***************************************************************************)
(* Proofs about Tunnel.tla for every value of its constants: every safety  *)
(* and action property of the module. Under any overlap of calls, answers  *)
(* and timers: the type invariant, the link, the idle timer and the        *)
(* waiting clients (IInv), and the inertness of a disposed tunnel          *)
(* (Buried). Until a start or an edit meets a suspended call, and with     *)
(* stops at any moment: what clients, edits and the last call can rely on  *)
(* (SInv). Until, besides, an invalidated handshake answers late: that     *)
(* link and timers follow the need (UInv). The last two read the histories *)
(* of Tunnel.tla; nothing is assumed of the calls. Liveness stays with     *)
(* TLC.                                                                    *)
(*                                                                         *)
(* Sound is the inductive invariant.  The private methods do not preserve  *)
(* it one by one: between the lines of #teardown() the promise and the     *)
(* clients still name a handshake that is already invalidated, and after a *)
(* drop the idle timer has lost its session for a moment.  Linked is what  *)
(* every method preserves, Current and LingerHasSession what is restored   *)
(* before the turn is over; each operator has one lemma that says which of *)
(* the three it keeps and which it establishes.  The parameter x is the    *)
(* attempt that settles in this turn, None in any other: its clients have  *)
(* not been told yet.                                                      *)
(***************************************************************************)
EXTENDS Tunnel, FiniteSetTheorems, TLAPS

(* A re-apply always carries the definition it is to apply.                *)
Typed(s) ==
  /\ WellTyped(s)
  /\ \A f \in s.frames : f.kind = "reapply" => f.next \in Defs

(* A client that has no relay hangs on a handshake that is not over.       *)
Hanging(s, x) ==
  \A c \in Conns : s.conn[c] \in {"waiting", "gone"} =>
    /\ s.via[c] # None
    /\ s.via[c] # x => s.dial[s.via[c]] \in {"dialing", "stale"}

Linked(s, x) ==
  /\ Typed(s)
  /\ SessionIsUp(s)
  /\ PromiseOrSession(s)
  /\ Hanging(s, x)

Current(s, x) ==
  /\ PromiseIsCurrent(s)
  /\ \A c \in Conns : s.conn[c] = "waiting" /\ s.via[c] # x => s.dial[s.via[c]] = "dialing"

Sound(s, x) == Linked(s, x) /\ Current(s, x) /\ LingerHasSession(s)

IInv == Sound(tun, None) /\ saved \in Defs

-----------------------------------------------------------------------------
(* Timers.                                                                 *)

LEMMA MaybeStartLingerKeeps ==
  ASSUME NEW s, NEW x, Linked(s, x)
  PROVE  /\ Linked(MaybeStartLinger(s), x)
         /\ Current(s, x) => Current(MaybeStartLinger(s), x)
         /\ LingerHasSession(s) => LingerHasSession(MaybeStartLinger(s))
         /\ Live(MaybeStartLinger(s)) = Live(s)
         /\ MaybeStartLinger(s).pendingDef = s.pendingDef
<1> DEFINE t == [s EXCEPT !.lingerTimer = TRUE]
<1>1. CASE s.paused \/ HoldsOpen(s) \/ Live(s) # {} \/ s.sshConnection = None
  BY <1>1 DEF MaybeStartLinger
<1>2. CASE ~(s.paused \/ HoldsOpen(s) \/ Live(s) # {} \/ s.sshConnection = None)
  <2>1. MaybeStartLinger(s) = t
    BY <1>2 DEF MaybeStartLinger
  <2>2. Typed(t)
    BY DEF Linked, Typed, WellTyped
  <2>3. QED
    BY <1>2, <2>1, <2>2 DEF Linked, Typed, WellTyped, SessionIsUp, PromiseOrSession,
                            Hanging, Current, PromiseIsCurrent, LingerHasSession, Live
<1>3. QED
  BY <1>1, <1>2

LEMMA CancelLingerKeeps ==
  ASSUME NEW s, NEW x, Linked(s, x)
  PROVE  /\ Linked(CancelLinger(s), x)
         /\ Current(s, x) => Current(CancelLinger(s), x)
         /\ LingerHasSession(CancelLinger(s))
         /\ Live(CancelLinger(s)) = Live(s)
<1>1. Typed(CancelLinger(s))
  BY DEF CancelLinger, Linked, Typed, WellTyped
<1>2. QED
  BY <1>1 DEF CancelLinger, Linked, Typed, WellTyped, SessionIsUp, PromiseOrSession,
              Hanging, Current, PromiseIsCurrent, LingerHasSession, Live

LEMMA CancelReconnectKeeps ==
  ASSUME NEW s, NEW x, Linked(s, x)
  PROVE  Linked(CancelReconnect(s), x) /\ Live(CancelReconnect(s)) = Live(s)
<1>1. Typed(CancelReconnect(s))
  BY PolicyAssumption DEF CancelReconnect, Linked, Typed, WellTyped
<1>2. QED
  BY <1>1 DEF CancelReconnect, Linked, Typed, WellTyped, SessionIsUp, PromiseOrSession,
              Hanging, Live

LEMMA AttemptReconnectKeeps ==
  ASSUME NEW s, NEW x, Sound(s, x)
  PROVE  Sound(AttemptReconnect(s), x) /\ AttemptReconnect(s).via = s.via
<1>1. CASE s.disposed \/ s.reconnectTimer
  BY <1>1 DEF AttemptReconnect
<1>2. CASE ~(s.disposed \/ s.reconnectTimer)
  <2> DEFINE t == [s EXCEPT !.reconnecting = TRUE, !.state = "connecting", !.reconnectTimer = TRUE]
  <2>1. AttemptReconnect(s) = t
    BY <1>2 DEF AttemptReconnect
  <2>2. Typed(t)
    BY DEF Sound, Linked, Typed, WellTyped, States
  <2>3. QED
    BY <2>1, <2>2 DEF Sound, Linked, Typed, WellTyped, SessionIsUp, PromiseOrSession,
                      Hanging, Current, PromiseIsCurrent, LingerHasSession
<1>3. QED
  BY <1>1, <1>2

(* Setting the state shows nothing of the link.                            *)
LEMMA StateKeeps ==
  ASSUME NEW s, NEW x, Sound(s, x), NEW v \in States
  PROVE  Sound([s EXCEPT !.state = v], x) /\ [s EXCEPT !.state = v].via = s.via
<1> DEFINE t == [s EXCEPT !.state = v]
<1>1. Typed(t)
  BY DEF Sound, Linked, Typed, WellTyped
<1>2. QED
  BY <1>1 DEF Sound, Linked, Typed, WellTyped, SessionIsUp, PromiseOrSession,
              Hanging, Current, PromiseIsCurrent, LingerHasSession

LEMMA OnReconnectFailedKeeps ==
  ASSUME NEW s, NEW x, Sound(s, x), NEW limit \in RetryLimits
  PROVE  Sound(OnReconnectFailed(s, limit), x) /\ OnReconnectFailed(s, limit).via = s.via
<1> DEFINE n == s.reconnectAttempts + 1
           At(k) == [s EXCEPT !.reconnectAttempts = k]
           quit == [s EXCEPT !.reconnectAttempts = 0, !.reconnecting = FALSE, !.state = "error"]
<1>1. /\ MaxReconnectAttempts \in Nat /\ s.reconnectAttempts \in 0..MaxReconnectAttempts
      /\ limit \in 0..MaxReconnectAttempts
  BY PolicyAssumption DEF RetryLimits, Sound, Linked, Typed, WellTyped
<1>2. ASSUME NEW k \in 0..MaxReconnectAttempts PROVE Sound(At(k), x) /\ At(k).via = s.via
  <2>1. Typed(At(k))
    BY DEF Sound, Linked, Typed, WellTyped
  <2>2. QED
    BY <2>1 DEF Sound, Linked, Typed, WellTyped, SessionIsUp, PromiseOrSession,
                Hanging, Current, PromiseIsCurrent, LingerHasSession
<1>3. Sound(quit, x) /\ quit.via = s.via
  <2>1. Typed(quit)
    BY <1>1 DEF Sound, Linked, Typed, WellTyped, States
  <2>2. QED
    BY <2>1 DEF Sound, Linked, Typed, WellTyped, SessionIsUp, PromiseOrSession,
                Hanging, Current, PromiseIsCurrent, LingerHasSession
<1> HIDE DEF At, quit
<1>4. CASE n < limit
  <2>1. Sound(At(n), x) /\ At(n).via = s.via
    BY <1>1, <1>2, <1>4
  <2>2. OnReconnectFailed(s, limit) = AttemptReconnect(At(n))
    BY <1>4 DEF OnReconnectFailed, At
  <2>3. QED
    BY <2>1, <2>2, AttemptReconnectKeeps
<1>5. CASE ~(n < limit) /\ HoldsOpen(s)
  <2>1. Sound(At(limit), x) /\ At(limit).via = s.via
    BY <1>1, <1>2
  <2>2. OnReconnectFailed(s, limit) = AttemptReconnect(At(limit))
    BY <1>5 DEF OnReconnectFailed, At
  <2>3. QED
    BY <2>1, <2>2, AttemptReconnectKeeps
<1>6. CASE ~(n < limit) /\ ~HoldsOpen(s)
  BY <1>3, <1>6 DEF OnReconnectFailed, quit
<1>7. QED
  BY <1>4, <1>5, <1>6

LEMMA FailConnectKeeps ==
  ASSUME NEW s, NEW x, Sound(s, x)
  PROVE  Sound(FailConnect(s), x) /\ FailConnect(s).via = s.via
<1>1. CASE ShouldStayHot(s)
  BY <1>1, AttemptReconnectKeeps DEF FailConnect
<1>2. CASE ~ShouldStayHot(s)
  <2> DEFINE v == IF s.armed THEN "error" ELSE "disarmed"
  <2>1. v \in States
    BY DEF States
  <2>2. FailConnect(s) = [s EXCEPT !.state = v]
    BY <1>2 DEF FailConnect
  <2> HIDE DEF v
  <2>3. QED
    BY <2>1, <2>2, StateKeeps
<1>3. QED
  BY <1>1, <1>2

-----------------------------------------------------------------------------
(* Teardown.                                                               *)

LEMMA DisposeSshKeeps ==
  ASSUME NEW s, NEW x, Linked(s, x)
  PROVE  /\ Linked(DisposeSsh(s), x)
         /\ Current(s, x) => Current(DisposeSsh(s), x)
         /\ DisposeSsh(s).sshConnection = None
         /\ DisposeSsh(s).connectPromise = None
         /\ Live(DisposeSsh(s)) = Live(s)
<1>1. Typed(DisposeSsh(s))
  BY DEF DisposeSsh, Linked, Typed, WellTyped, DialPhases
<1>2. QED
  BY <1>1, NoneAssumption
     DEF DisposeSsh, Linked, Typed, WellTyped, SessionIsUp, PromiseOrSession,
         Hanging, Current, PromiseIsCurrent, Live

LEMMA AwaitStopKeeps ==
  ASSUME NEW s, NEW x, Linked(s, x),
         NEW kind \in {"arm", "disarm", "dispose", "reapply"},
         NEW next \in Defs \cup {None}, kind = "reapply" => next \in Defs
  PROVE  /\ Linked(AwaitStop(s, kind, next), x)
         /\ Current(s, x) => Current(AwaitStop(s, kind, next), x)
         /\ LingerHasSession(s) => LingerHasSession(AwaitStop(s, kind, next))
         /\ Live(AwaitStop(s, kind, next)) = Live(s)
<1> DEFINE t == AwaitStop(s, kind, next)
           waits == s.listener # None /\ s.sock[s.listener].phase = "bound"
           frame == [kind |-> kind, next |-> next,
                     pc   |-> IF waits THEN "stopping" ELSE "settling",
                     sock |-> IF waits THEN s.listener ELSE None]
<1>1. frame \in FrameRecords
  BY DEF FrameRecords, Linked, Typed, WellTyped
<1>2. frame.kind = "reapply" => frame.next \in Defs
  OBVIOUS
<1>3. t.sock \in [Socks -> [phase : SockPhases, port : Nat]]
  BY DEF AwaitStop, Linked, Typed, WellTyped, SockPhases
<1>4. t.frames = s.frames \cup {frame}
  BY DEF AwaitStop, Linked, Typed, WellTyped
<1>5. Typed(t)
  BY <1>1, <1>2, <1>3, <1>4 DEF AwaitStop, Linked, Typed, WellTyped
<1>6. QED
  BY <1>5 DEF AwaitStop, Linked, Typed, WellTyped, SessionIsUp, PromiseOrSession,
              Hanging, Current, PromiseIsCurrent, LingerHasSession, Live

LEMMA InvalidateKeeps ==
  ASSUME NEW s, NEW x, Linked(s, x)
  PROVE  Linked(Invalidate(s), x) /\ Live(Invalidate(s)) = Live(s)
<1> DEFINE q == CancelReconnect(s)
<1>1. Linked(q, x) /\ Live(q) = Live(s)
  BY CancelReconnectKeeps
<1> HIDE DEF q
<1>2. Invalidate(s) = [q EXCEPT !.armed = FALSE,
                         !.dial = [a \in Attempts |-> IF @[a] = "dialing" THEN "stale" ELSE @[a]]]
  BY DEF Invalidate, q
<1>3. Typed(Invalidate(s))
  BY <1>1, <1>2 DEF Linked, Typed, WellTyped, DialPhases
<1>4. QED
  BY <1>1, <1>2, <1>3 DEF Linked, Typed, WellTyped, SessionIsUp, PromiseOrSession, Hanging, Live

(* Releasing what is left once no client is: everything agrees again.      *)
LEMMA ReleaseSettles ==
  ASSUME NEW s, NEW x, Linked(s, x), Live(s) = {},
         NEW kind \in {"arm", "disarm", "dispose", "reapply"},
         NEW next \in Defs \cup {None}, kind = "reapply" => next \in Defs
  PROVE  Sound(Release(s, kind, next), x) /\ Live(Release(s, kind, next)) = {}
<1> DEFINE d == DisposeSsh(s)
           q == CancelLinger(d)
<1>1. Linked(d, x) /\ Live(d) = {} /\ d.connectPromise = None
  BY DisposeSshKeeps
<1>2. Current(d, x)
  BY <1>1 DEF Current, PromiseIsCurrent, Live
<1> HIDE DEF d
<1>3. Sound(q, x) /\ Live(q) = {}
  BY <1>1, <1>2, CancelLingerKeeps DEF Sound
<1> HIDE DEF q
<1>4. Release(s, kind, next) = AwaitStop(q, kind, next)
  BY DEF Release, q, d
<1>5. QED
  BY <1>3, <1>4, AwaitStopKeeps DEF Sound

LEMMA ReapplyIdleSettles ==
  ASSUME NEW s, NEW x, Linked(s, x), Live(s) = {}, NEW next \in Defs
  PROVE  Sound(ReapplyIdle(s, next), x) /\ Live(ReapplyIdle(s, next)) = {}
BY InvalidateKeeps, ReleaseSettles DEF ReapplyIdle

LEMMA MaybeApplyPendingKeeps ==
  ASSUME NEW s, NEW x, Linked(s, x)
  PROVE  /\ Linked(MaybeApplyPending(s), x)
         /\ Current(s, x) => Current(MaybeApplyPending(s), x)
         /\ LingerHasSession(s) => LingerHasSession(MaybeApplyPending(s))
         /\ Live(MaybeApplyPending(s)) = Live(s)
<1>1. CASE s.pendingDef = None \/ Live(s) # {}
  BY <1>1 DEF MaybeApplyPending
<1>2. CASE ~(s.pendingDef = None \/ Live(s) # {})
  <2> DEFINE q == [s EXCEPT !.pendingDef = None]
  <2>1. s.pendingDef \in Defs
    BY <1>2 DEF Linked, Typed, WellTyped
  <2>2. Typed(q)
    BY DEF Linked, Typed, WellTyped
  <2>3. Linked(q, x) /\ Live(q) = {}
    BY <1>2, <2>2 DEF Linked, Typed, WellTyped, SessionIsUp, PromiseOrSession, Hanging, Live
  <2> HIDE DEF q
  <2>4. MaybeApplyPending(s) = ReapplyIdle(q, s.pendingDef)
    BY <1>2 DEF MaybeApplyPending, q
  <2>5. QED
    BY <1>2, <2>1, <2>3, <2>4, ReapplyIdleSettles DEF Sound
<1>3. QED
  BY <1>1, <1>2

LEMMA OnIdleCheckKeeps ==
  ASSUME NEW s, NEW x, Linked(s, x)
  PROVE  /\ Linked(OnIdleCheck(s), x)
         /\ Current(s, x) => Current(OnIdleCheck(s), x)
         /\ LingerHasSession(s) => LingerHasSession(OnIdleCheck(s))
         /\ Live(OnIdleCheck(s)) = Live(s)
<1>1. CASE Live(s) # {}
  BY <1>1 DEF OnIdleCheck
<1>2. CASE Live(s) = {}
  BY <1>2, MaybeStartLingerKeeps, MaybeApplyPendingKeeps DEF OnIdleCheck
<1>3. QED
  BY <1>1, <1>2

LEMMA ClearConnsKeeps ==
  ASSUME NEW s, NEW x, Linked(s, x)
  PROVE  /\ Linked(ClearConns(s), x)
         /\ Current(s, x) => Current(ClearConns(s), x)
         /\ LingerHasSession(s) => LingerHasSession(ClearConns(s))
         /\ Live(ClearConns(s)) = {}
<1>1. Typed(ClearConns(s))
  BY DEF ClearConns, Linked, Typed, WellTyped, ConnPhases
<1>2. QED
  BY <1>1 DEF ClearConns, Linked, Typed, WellTyped, SessionIsUp, PromiseOrSession,
              Hanging, Current, PromiseIsCurrent, LingerHasSession, Live, ConnPhases

LEMMA FailAllConnectionsKeeps ==
  ASSUME NEW s, NEW x, Linked(s, x)
  PROVE  /\ Linked(FailAllConnections(s), x)
         /\ Current(s, x) => Current(FailAllConnections(s), x)
         /\ LingerHasSession(s) => LingerHasSession(FailAllConnections(s))
         /\ Live(FailAllConnections(s)) = {}
<1> DEFINE q == ClearConns(s)
<1>1. FailAllConnections(s) = q \/ FailAllConnections(s) = OnIdleCheck(q)
  BY DEF FailAllConnections
<1> HIDE DEF q
<1>2. /\ Linked(q, x) /\ (Current(s, x) => Current(q, x))
      /\ (LingerHasSession(s) => LingerHasSession(q)) /\ Live(q) = {}
  BY ClearConnsKeeps DEF q
<1>3. QED
  BY <1>1, <1>2, OnIdleCheckKeeps

LEMMA TeardownSettles ==
  ASSUME NEW s, NEW x, Linked(s, x),
         NEW kind \in {"arm", "disarm", "dispose", "reapply"},
         NEW next \in Defs \cup {None}, kind = "reapply" => next \in Defs
  PROVE  Sound(Teardown(s, kind, next), x)
BY InvalidateKeeps, FailAllConnectionsKeeps, ReleaseSettles DEF Teardown

-----------------------------------------------------------------------------
(* Connecting.                                                             *)

LEMMA EnsureConnectedKeeps ==
  ASSUME NEW s, Sound(s, None), NEW a \in FreeAttempts(s)
  PROVE  /\ Sound(EnsureConnected(s, a), None)
         /\ EnsureConnected(s, a).sshConnection = s.sshConnection
         /\ s.sshConnection = None => EnsureConnected(s, a).connectPromise \in Attempts
<1>1. CASE s.sshConnection # None \/ s.connectPromise # None
  BY <1>1 DEF EnsureConnected, Sound, Linked, Typed, WellTyped
<1>2. CASE ~(s.sshConnection # None \/ s.connectPromise # None)
  <2> DEFINE t == [s EXCEPT !.state = "connecting", !.connectPromise = a, !.dial[a] = "dialing"]
  <2>1. EnsureConnected(s, a) = t
    BY <1>2 DEF EnsureConnected
  <2>2. a \in Attempts /\ s.dial[a] = "free"
    BY DEF FreeAttempts
  <2>3. Typed(t)
    BY <2>2 DEF Sound, Linked, Typed, WellTyped, States, DialPhases
  <2>4. QED
    BY <1>2, <2>1, <2>2, <2>3, NoneAssumption
       DEF Sound, Linked, Typed, WellTyped, SessionIsUp, PromiseOrSession,
           Hanging, Current, PromiseIsCurrent, LingerHasSession
<1>3. QED
  BY <1>1, <1>2

LEMMA ConnectEagerlyKeeps ==
  ASSUME NEW s, Sound(s, None), NEW a \in FreeAttempts(s)
  PROVE  Sound(ConnectEagerly(s, a), None)
<1> DEFINE q == EnsureConnected(s, a)
<1>1. Sound(q, None)
  BY EnsureConnectedKeeps
<1>2. ConnectEagerly(s, a) =
        IF q.sshConnection # None THEN q ELSE [q EXCEPT !.eager[q.connectPromise] = TRUE]
  BY DEF ConnectEagerly
<1> HIDE DEF q
<1>3. CASE q.sshConnection # None
  BY <1>1, <1>2, <1>3
<1>4. CASE q.sshConnection = None
  <2> DEFINE t == [q EXCEPT !.eager[q.connectPromise] = TRUE]
  <2>1. Typed(t)
    BY <1>1 DEF Sound, Linked, Typed, WellTyped
  <2>2. QED
    BY <1>1, <1>2, <1>4, <2>1
       DEF Sound, Linked, Typed, WellTyped, SessionIsUp, PromiseOrSession,
           Hanging, Current, PromiseIsCurrent, LingerHasSession
<1>5. QED
  BY <1>3, <1>4

LEMMA ArmUnboundKeeps ==
  ASSUME NEW s, Sound(s, None), NEW l \in FreeSocks(s), NEW a \in FreeAttempts(s)
  PROVE  Sound(ArmUnbound(s, l, a), None)
<1>1. CASE s.def.remote
  <2> DEFINE q == [[s EXCEPT !.paused = FALSE] EXCEPT !.armed = TRUE, !.state = "listening"]
  <2>1. ArmUnbound(s, l, a) = ConnectEagerly(q, a)
    BY <1>1 DEF ArmUnbound
  <2>2. Typed(q)
    BY DEF Sound, Linked, Typed, WellTyped, States
  <2>3. Sound(q, None) /\ a \in FreeAttempts(q)
    BY <2>2 DEF Sound, Linked, Typed, WellTyped, SessionIsUp, PromiseOrSession, FreeAttempts,
                Hanging, Current, PromiseIsCurrent, LingerHasSession
  <2> HIDE DEF q
  <2>4. QED
    BY <2>1, <2>3, ConnectEagerlyKeeps
<1>2. CASE ~s.def.remote
  <2> DEFINE p == [s EXCEPT !.paused = FALSE]
             frame == [kind |-> "arm", pc |-> "binding", sock |-> l, next |-> None]
             t == [p EXCEPT !.sock[l] = [phase |-> "binding", port |-> s.def.port],
                            !.frames = @ \cup {frame}]
  <2>1. ArmUnbound(s, l, a) = t
    BY <1>2 DEF ArmUnbound
  <2>2. s.def.port \in Nat /\ l \in Socks
    BY DefsAssumption DEF Sound, Linked, Typed, WellTyped, FreeSocks
  <2>3. frame \in FrameRecords /\ frame.kind # "reapply"
    BY <2>2 DEF FrameRecords
  <2>4. [phase |-> "binding", port |-> s.def.port] \in [phase : SockPhases, port : Nat]
    BY <2>2 DEF SockPhases
  <2> HIDE DEF frame
  <2>5. Typed(t)
    BY <2>2, <2>3, <2>4 DEF Sound, Linked, Typed, WellTyped
  <2>6. QED
    BY <2>1, <2>5 DEF Sound, Linked, Typed, WellTyped, SessionIsUp, PromiseOrSession,
                      Hanging, Current, PromiseIsCurrent, LingerHasSession
<1>3. QED
  BY <1>1, <1>2

LEMMA ArmTunnelKeeps ==
  ASSUME NEW s, Sound(s, None), NEW l \in FreeSocks(s), NEW a \in FreeAttempts(s)
  PROVE  Sound(ArmTunnel(s, l, a), None)
<1>1. CASE s.disposed
  BY <1>1 DEF ArmTunnel
<1>2. CASE ~s.disposed /\ s.listener # None
  BY <1>2, AwaitStopKeeps DEF ArmTunnel, Sound
<1>3. CASE ~s.disposed /\ s.listener = None
  BY <1>3, ArmUnboundKeeps DEF ArmTunnel
<1>4. QED
  BY <1>1, <1>2, <1>3

LEMMA ApplyDefinitionKeeps ==
  ASSUME NEW s, Sound(s, None), NEW d \in Defs
  PROVE  Sound(ApplyDefinition(s, d), None)
<1>1. Sound([s EXCEPT !.def = d], None)
  <2> DEFINE t == [s EXCEPT !.def = d]
  <2>1. Typed(t)
    BY DEF Sound, Linked, Typed, WellTyped
  <2>2. QED
    BY <2>1 DEF Sound, Linked, Typed, WellTyped, SessionIsUp, PromiseOrSession,
                Hanging, Current, PromiseIsCurrent, LingerHasSession
<1>2. Sound([s EXCEPT !.pendingDef = d], None)
  <2> DEFINE t == [s EXCEPT !.pendingDef = d]
  <2>1. Typed(t)
    BY DEF Sound, Linked, Typed, WellTyped
  <2>2. QED
    BY <2>1 DEF Sound, Linked, Typed, WellTyped, SessionIsUp, PromiseOrSession,
                Hanging, Current, PromiseIsCurrent, LingerHasSession
<1>3. Live(s) = {} => Sound(ReapplyIdle(s, d), None)
  BY ReapplyIdleSettles DEF Sound
<1>4. \/ ApplyDefinition(s, d) = [s EXCEPT !.def = d]
      \/ ApplyDefinition(s, d) = [s EXCEPT !.pendingDef = d]
      \/ ApplyDefinition(s, d) = ReapplyIdle(s, d) /\ Live(s) = {}
  BY DEF ApplyDefinition
<1>5. QED
  BY <1>1, <1>2, <1>3, <1>4

-----------------------------------------------------------------------------
(* An attempt settles.                                                     *)

LEMMA ForgetKeeps ==
  ASSUME NEW s, NEW x, Sound(s, x), NEW a \in Attempts
  PROVE  /\ Sound(Forget(s, a), x)
         /\ Forget(s, a).connectPromise = None
         /\ Forget(s, a).dial = s.dial /\ Forget(s, a).via = s.via
         /\ Forget(s, a).disposed = s.disposed
<1> DEFINE t == Forget(s, a)
<1>1. Typed(t)
  BY DEF Forget, Sound, Linked, Typed, WellTyped
<1>2. QED
  BY <1>1 DEF Forget, Sound, Linked, Typed, WellTyped, SessionIsUp, PromiseOrSession,
              Hanging, Current, PromiseIsCurrent, LingerHasSession

(* The attempt is over: only its own clients are still to be told.         *)
LEMMA FreeingKeeps ==
  ASSUME NEW s, Sound(s, None), s.connectPromise = None,
         NEW a \in Attempts, s.dial[a] # "up"
  PROVE  Sound([s EXCEPT !.dial[a] = "free"], a)
<1> DEFINE t == [s EXCEPT !.dial[a] = "free"]
<1>1. Typed(t)
  BY DEF Sound, Linked, Typed, WellTyped, DialPhases
<1>2. QED
  BY <1>1 DEF Sound, Linked, Typed, WellTyped, SessionIsUp, PromiseOrSession,
              Hanging, Current, PromiseIsCurrent, LingerHasSession

LEMMA AdoptKeeps ==
  ASSUME NEW s, Sound(s, None), s.connectPromise = None, NEW a \in Attempts
  PROVE  Sound(Adopt(s, a), a)
<1> DEFINE q == [s EXCEPT !.sshConnection = a, !.dial[a] = "up", !.forward[a] = s.def.remote,
                          !.reconnectAttempts = 0, !.reconnecting = FALSE, !.state = "connected"]
<1>1. Adopt(s, a) = MaybeStartLinger(q)
  BY DEF Adopt
<1>2. s.def.remote \in BOOLEAN /\ 0 \in 0..MaxReconnectAttempts
  BY DefsAssumption, PolicyAssumption DEF Sound, Linked, Typed, WellTyped
<1>3. Typed(q)
  BY <1>2 DEF Sound, Linked, Typed, WellTyped, DialPhases, States
<1>4. Sound(q, a)
  BY <1>3, NoneAssumption
     DEF Sound, Linked, Typed, WellTyped, SessionIsUp, PromiseOrSession,
         Hanging, Current, PromiseIsCurrent, LingerHasSession
<1> HIDE DEF q
<1>5. QED
  BY <1>1, <1>4, MaybeStartLingerKeeps DEF Sound

(* Telling the attempt's clients makes the state sound for every client.   *)
LEMMA StartRelaysSettles ==
  ASSUME NEW s, NEW a \in Attempts, Sound(s, a)
  PROVE  Sound(StartRelays(s, a), None)
<1> DEFINE t == StartRelays(s, a)
<1>1. Typed(t)
  BY DEF StartRelays, Sound, Linked, Typed, WellTyped, ConnPhases
<1>2. QED
  BY <1>1, NoneAssumption
     DEF StartRelays, Sound, Linked, Typed, WellTyped, SessionIsUp, PromiseOrSession,
         Hanging, Current, PromiseIsCurrent, LingerHasSession

LEMMA HandleDropSettles ==
  ASSUME NEW s, Linked([s EXCEPT !.sshConnection = None], None),
         Current([s EXCEPT !.sshConnection = None], None)
  PROVE  Sound(HandleDrop(s), None)
<1> DEFINE p == [s EXCEPT !.sshConnection = None]
           q == CancelLinger(FailAllConnections(p))
<1>1. Linked(p, None) /\ Current(p, None)
  OBVIOUS
<1> HIDE DEF p
<1>2. Sound(q, None)
  BY <1>1, FailAllConnectionsKeeps, CancelLingerKeeps DEF Sound
<1>3. HandleDrop(s) = IF ShouldStayHot(q) THEN AttemptReconnect(q)
                      ELSE MaybeApplyPending([q EXCEPT !.state = "listening"])
  BY DEF HandleDrop, p
<1> HIDE DEF q
<1>4. Sound([q EXCEPT !.state = "listening"], None)
  BY <1>2, StateKeeps DEF States
<1>5. QED
  BY <1>2, <1>3, <1>4, AttemptReconnectKeeps, MaybeApplyPendingKeeps DEF Sound

-----------------------------------------------------------------------------
(* The actions.                                                            *)

LEMMA InitSound == Init => IInv
<1> SUFFICES ASSUME Init PROVE IInv
  OBVIOUS
<1>1. Typed(tun)
  BY PolicyAssumption
     DEF Init, NewTunnel, Typed, WellTyped, States, DialPhases, ConnPhases, SockPhases
<1>2. QED
  BY <1>1 DEF Init, NewTunnel, IInv, Sound, Linked, SessionIsUp, PromiseOrSession,
              Hanging, Current, PromiseIsCurrent, LingerHasSession

LEMMA CallsKeep ==
  ASSUME IInv, Arm \/ Disarm \/ Dispose \/ ForceApply \/ Pause \/ Resume
                 \/ \E d \in Defs : Reconcile(d)
  PROVE  IInv'
<1> USE DEF IInv
<1>1. CASE Arm
  BY <1>1, ArmTunnelKeeps DEF Arm
<1>2. CASE Disarm
  <2> DEFINE q == [tun EXCEPT !.pendingDef = None]
  <2>1. Typed(q)
    BY DEF Sound, Linked, Typed, WellTyped
  <2>2. Linked(q, None)
    BY <2>1 DEF Sound, Linked, Typed, WellTyped, SessionIsUp, PromiseOrSession, Hanging
  <2> HIDE DEF q
  <2>3. QED
    BY <1>2, <2>2, TeardownSettles DEF Disarm, q
<1>3. CASE Dispose
  <2> DEFINE q == [tun EXCEPT !.disposed = TRUE]
  <2>1. Typed(q)
    BY DEF Sound, Linked, Typed, WellTyped
  <2>2. Linked(q, None)
    BY <2>1 DEF Sound, Linked, Typed, WellTyped, SessionIsUp, PromiseOrSession, Hanging
  <2> HIDE DEF q
  <2>3. QED
    BY <1>3, <2>2, TeardownSettles DEF Dispose, q
<1>4. CASE ForceApply
  <2> DEFINE q == [tun EXCEPT !.pendingDef = None]
  <2>1. Typed(q)
    BY DEF Sound, Linked, Typed, WellTyped
  <2>2. Linked(q, None)
    BY <2>1 DEF Sound, Linked, Typed, WellTyped, SessionIsUp, PromiseOrSession, Hanging
  <2>3. tun.pendingDef \in Defs
    BY <1>4 DEF ForceApply, Sound, Linked, Typed, WellTyped
  <2> HIDE DEF q
  <2>4. QED
    BY <1>4, <2>2, <2>3, TeardownSettles DEF ForceApply, q
<1>5. CASE Pause
  <2> DEFINE q == CancelLinger(tun)
             t == [q EXCEPT !.paused = TRUE,
                            !.frozen = [c \in Conns |-> tun.conn[c] = "relay"]]
  <2>1. Sound(q, None) /\ ~q.lingerTimer
    BY CancelLingerKeeps DEF Sound, Linked, Typed, WellTyped, CancelLinger
  <2> HIDE DEF q
  <2>2. Typed(t)
    BY <2>1 DEF Sound, Linked, Typed, WellTyped
  <2>3. Sound(t, None)
    BY <2>1, <2>2 DEF Sound, Linked, Typed, WellTyped, SessionIsUp, PromiseOrSession,
                      Hanging, Current, PromiseIsCurrent, LingerHasSession
  <2>4. QED
    BY <1>5, <2>3 DEF Pause, q
<1>6. CASE Resume
  <2> DEFINE q == [tun EXCEPT !.paused = FALSE, !.frozen = [c \in Conns |-> FALSE]]
  <2>1. Typed(q)
    BY DEF Sound, Linked, Typed, WellTyped
  <2>2. Sound(q, None)
    BY <2>1 DEF Sound, Linked, Typed, WellTyped, SessionIsUp, PromiseOrSession,
                Hanging, Current, PromiseIsCurrent, LingerHasSession
  <2> HIDE DEF q
  <2>3. QED
    BY <1>6, <2>2, MaybeStartLingerKeeps DEF Resume, Sound, q
<1>7. ASSUME NEW d \in Defs, Reconcile(d) PROVE IInv'
  <2> DEFINE q == ApplyDefinition(tun, d)
  <2>1. Sound(q, None)
    BY ApplyDefinitionKeeps
  <2>2. \/ tun' = q
        \/ \E l \in FreeSocks(q), a \in FreeAttempts(q) : tun' = ArmTunnel(q, l, a)
    BY <1>7 DEF Reconcile
  <2> HIDE DEF q
  <2>3. Sound(tun', None)
    BY <2>1, <2>2, ArmTunnelKeeps
  <2>4. QED
    BY <1>7, <2>3 DEF Reconcile
<1>8. QED
  BY <1>1, <1>2, <1>3, <1>4, <1>5, <1>6, <1>7

(* A bind or a close that calls back moves its socket to another phase.    *)
LEMMA SockPhaseKeeps ==
  ASSUME NEW k \in [Socks -> [phase : SockPhases, port : Nat]],
         NEW l \in Socks \cup {None}, NEW v \in SockPhases
  PROVE  [k EXCEPT ![l].phase = v] \in [Socks -> [phase : SockPhases, port : Nat]]
<1>1. CASE l \in Socks
  BY <1>1
<1>2. CASE l \notin Socks
  BY <1>2
<1>3. QED
  BY <1>1, <1>2

LEMMA FramesKeep ==
  ASSUME IInv, NEW f \in tun.frames, BindOk(f) \/ BindFails(f) \/ Settle(f)
  PROVE  IInv'
<1> USE DEF IInv
<1>1. f \in FrameRecords
  BY DEF Sound, Linked, Typed, WellTyped
<1>2. f.sock \in Socks \cup {None} /\ (f.kind = "reapply" => f.next \in Defs)
  BY <1>1 DEF Sound, Linked, Typed, WellTyped, FrameRecords
<1>3. CASE BindOk(f)
  <2> DEFINE q == [tun EXCEPT !.frames = @ \ {f}]
             z == [q EXCEPT !.sock[f.sock].phase = "closing"]
             b == [q EXCEPT !.sock[f.sock].phase = "bound",
                            !.listener = f.sock, !.armed = TRUE, !.state = "listening"]
  <2>1. Typed(q)
    BY DEF Sound, Linked, Typed, WellTyped
  <2>2. Sound(q, None)
    BY <2>1 DEF Sound, Linked, Typed, WellTyped, SessionIsUp, PromiseOrSession,
                Hanging, Current, PromiseIsCurrent, LingerHasSession
  <2> HIDE DEF q
  <2>3. /\ z.sock \in [Socks -> [phase : SockPhases, port : Nat]]
        /\ b.sock \in [Socks -> [phase : SockPhases, port : Nat]]
    BY <1>2, <2>2, SockPhaseKeeps DEF Sound, Linked, Typed, WellTyped, SockPhases
  <2>4. Typed(z) /\ Typed(b)
    BY <1>2, <2>2, <2>3 DEF Sound, Linked, Typed, WellTyped, States
  <2>5. Sound(z, None) /\ Sound(b, None)
    BY <2>2, <2>4 DEF Sound, Linked, Typed, WellTyped, SessionIsUp, PromiseOrSession,
                      Hanging, Current, PromiseIsCurrent, LingerHasSession
  <2>6. \/ tun' = z \/ tun' = b
        \/ \E a \in FreeAttempts(b) : tun' = ConnectEagerly(b, a)
    BY <1>3 DEF BindOk, q
  <2> HIDE DEF z, b
  <2>7. Sound(tun', None)
    BY <2>5, <2>6, ConnectEagerlyKeeps
  <2>8. QED
    BY <1>3, <2>7 DEF BindOk
<1>4. CASE BindFails(f)
  <2> DEFINE t == [tun EXCEPT !.frames = @ \ {f}, !.sock[f.sock].phase = "free", !.state = "error"]
  <2> DEFINE k == [tun.sock EXCEPT ![f.sock].phase = "free"]
  <2>0. k \in [Socks -> [phase : SockPhases, port : Nat]]
    BY <1>2, SockPhaseKeeps DEF Sound, Linked, Typed, WellTyped, SockPhases
  <2>1. Typed(t)
    BY <2>0 DEF Sound, Linked, Typed, WellTyped, States
  <2>2. Sound(t, None)
    BY <2>1 DEF Sound, Linked, Typed, WellTyped, SessionIsUp, PromiseOrSession,
                Hanging, Current, PromiseIsCurrent, LingerHasSession
  <2>3. QED
    BY <1>4, <2>2 DEF BindFails
<1>5. CASE Settle(f)
  <2> DEFINE q == [tun EXCEPT !.frames = @ \ {f}, !.listener = None]
             r == [q EXCEPT !.def = f.next]
             u == [q EXCEPT !.paused = FALSE, !.state = "disarmed"]
             v == [q EXCEPT !.pendingDef = None, !.paused = FALSE, !.state = "disarmed"]
             w == [r EXCEPT !.state = "disarmed"]
  <2>1. Typed(q)
    BY DEF Sound, Linked, Typed, WellTyped
  <2>2. Sound(q, None)
    BY <2>1 DEF Sound, Linked, Typed, WellTyped, SessionIsUp, PromiseOrSession,
                Hanging, Current, PromiseIsCurrent, LingerHasSession
  <2> HIDE DEF q
  <2>3. Typed(u) /\ Typed(v)
    BY <2>2 DEF Sound, Linked, Typed, WellTyped, States
  <2>4. Sound(u, None) /\ Sound(v, None)
    BY <2>2, <2>3 DEF Sound, Linked, Typed, WellTyped, SessionIsUp, PromiseOrSession,
                      Hanging, Current, PromiseIsCurrent, LingerHasSession
  <2>5. f.kind = "reapply" => Sound(r, None)
    <3> HAVE f.kind = "reapply"
    <3>1. Typed(r)
      BY <1>2, <2>2 DEF Sound, Linked, Typed, WellTyped
    <3>2. QED
      BY <2>2, <3>1 DEF Sound, Linked, Typed, WellTyped, SessionIsUp, PromiseOrSession,
                        Hanging, Current, PromiseIsCurrent, LingerHasSession
  <2> HIDE DEF r, u, v
  <2>6. f.kind = "reapply" => Sound(w, None)
    BY <2>5, StateKeeps DEF States
  <2> HIDE DEF w
  <2>7. \/ tun' = u \/ tun' = v
        \/ f.kind = "reapply" /\ tun' = w
        \/ f.kind = "reapply" /\ \E l \in FreeSocks(r), a \in FreeAttempts(r) : tun' = ArmTunnel(r, l, a)
        \/ \E l \in FreeSocks(q), a \in FreeAttempts(q) : tun' = ArmUnbound(q, l, a)
    BY <1>5 DEF Settle, q, r, u, v, w
  <2>8. Sound(tun', None)
    BY <2>2, <2>4, <2>5, <2>6, <2>7, ArmTunnelKeeps, ArmUnboundKeeps
  <2>9. QED
    BY <1>5, <2>8 DEF Settle
<1>6. QED
  BY <1>3, <1>4, <1>5

LEMMA SocketsKeep ==
  ASSUME IInv, NEW l \in Socks, ListenerError(l) \/ SockClosed(l)
  PROVE  IInv'
<1> USE DEF IInv
<1>1. CASE ListenerError(l)
  BY <1>1, StateKeeps DEF ListenerError, States
<1>2. CASE SockClosed(l)
  <2> DEFINE Woken(f) == IF f.sock = l /\ f.pc = "stopping"
                         THEN [f EXCEPT !.pc = "settling", !.sock = None] ELSE f
             t == [tun EXCEPT !.sock[l].phase = "free", !.frames = {Woken(f) : f \in @}]
  <2>1. ASSUME NEW f \in tun.frames
        PROVE  Woken(f) \in FrameRecords /\ (Woken(f).kind = "reapply" => Woken(f).next \in Defs)
    <3>1. f \in FrameRecords /\ (f.kind = "reapply" => f.next \in Defs)
      BY DEF Sound, Linked, Typed, WellTyped
    <3>2. QED
      BY <3>1 DEF FrameRecords
  <2>2. tun' = t
    BY <1>2 DEF SockClosed
  <2> HIDE DEF Woken
  <2>3. Typed(t)
    BY <2>1 DEF Sound, Linked, Typed, WellTyped, SockPhases
  <2>4. Sound(t, None)
    BY <2>3 DEF Sound, Linked, Typed, WellTyped, SessionIsUp, PromiseOrSession,
                Hanging, Current, PromiseIsCurrent, LingerHasSession
  <2>5. QED
    BY <1>2, <2>2, <2>4 DEF SockClosed
<1>3. QED
  BY <1>1, <1>2

LEMMA ClientsKeep ==
  ASSUME IInv, NEW c \in Conns, LocalAccess(c) \/ ReverseAccess(c) \/ ConnCloses(c)
  PROVE  IInv'
<1> USE DEF IInv
<1>1. CASE LocalAccess(c)
  <2>1. PICK a \in FreeAttempts(tun) :
          LET q == EnsureConnected(CancelLinger(tun), a)
          IN tun' = IF q.sshConnection # None
                    THEN [q EXCEPT !.conn[c] = "relay"]
                    ELSE [q EXCEPT !.conn[c] = "waiting", !.via[c] = q.connectPromise]
    BY <1>1 DEF LocalAccess
  <2> DEFINE p == CancelLinger(tun)
             q == EnsureConnected(p, a)
             y == [q EXCEPT !.conn[c] = "relay"]
             z == [q EXCEPT !.conn[c] = "waiting", !.via[c] = q.connectPromise]
  <2>2. Sound(p, None) /\ a \in FreeAttempts(p)
    BY CancelLingerKeeps DEF Sound, Linked, Typed, WellTyped, CancelLinger, FreeAttempts
  <2> HIDE DEF p
  <2>3. Sound(q, None) /\ (q.sshConnection = None => q.connectPromise \in Attempts)
    BY <2>2, EnsureConnectedKeeps
  <2>4. tun' = IF q.sshConnection # None THEN y ELSE z
    BY <2>1 DEF p
  <2> HIDE DEF q
  <2>5. Typed(y) /\ Typed(z)
    BY <2>3 DEF Sound, Linked, Typed, WellTyped, ConnPhases
  <2>6. Sound(y, None)
    BY <2>3, <2>5 DEF Sound, Linked, Typed, WellTyped, SessionIsUp, PromiseOrSession,
                      Hanging, Current, PromiseIsCurrent, LingerHasSession
  <2>7. q.sshConnection = None => Sound(z, None)
    BY <2>3, <2>5, NoneAssumption
       DEF Sound, Linked, Typed, WellTyped, SessionIsUp, PromiseOrSession,
           Hanging, Current, PromiseIsCurrent, LingerHasSession
  <2> HIDE DEF y, z
  <2>8. QED
    BY <1>1, <2>4, <2>6, <2>7 DEF LocalAccess
<1>2. CASE ReverseAccess(c)
  <2> DEFINE t == [tun EXCEPT !.conn[c] = "relay"]
  <2>1. Typed(t)
    BY DEF Sound, Linked, Typed, WellTyped, ConnPhases
  <2>2. Sound(t, None)
    BY <2>1 DEF Sound, Linked, Typed, WellTyped, SessionIsUp, PromiseOrSession,
                Hanging, Current, PromiseIsCurrent, LingerHasSession
  <2>3. QED
    BY <1>2, <2>2 DEF ReverseAccess
<1>3. CASE ConnCloses(c)
  <2> DEFINE t == DeleteConn(tun, c)
  <2>1. Typed(t)
    BY DEF DeleteConn, Sound, Linked, Typed, WellTyped, ConnPhases
  <2>2. Sound(t, None)
    BY <2>1 DEF DeleteConn, Sound, Linked, Typed, WellTyped, SessionIsUp, PromiseOrSession,
                Hanging, Current, PromiseIsCurrent, LingerHasSession
  <2> HIDE DEF t
  <2>3. QED
    BY <1>3, <2>2, OnIdleCheckKeeps DEF ConnCloses, Sound, t
<1>4. QED
  BY <1>1, <1>2, <1>3

LEMMA ConnectOkKeeps ==
  ASSUME IInv, NEW a \in Attempts, ConnectOk(a)
  PROVE  IInv'
<1> DEFINE q == Forget(tun, a)
           p == [q EXCEPT !.dial[a] = "free"]
<1>1. Sound(q, None) /\ q.connectPromise = None /\ q.dial[a] # "up"
  BY ForgetKeeps DEF IInv, ConnectOk
<1>2. tun' = StartRelays(p, a) \/ tun' = StartRelays(Adopt(q, a), a)
  BY DEF ConnectOk
<1> HIDE DEF q
<1>3. Sound(p, a) /\ Sound(Adopt(q, a), a)
  BY <1>1, FreeingKeeps, AdoptKeeps
<1> HIDE DEF p
<1>4. QED
  BY <1>2, <1>3, StartRelaysSettles DEF IInv, ConnectOk

LEMMA ConnectFailsKeeps ==
  ASSUME IInv, NEW a \in Attempts, ConnectFails(a)
  PROVE  IInv'
<1> PICK limit \in RetryLimits : ConnectFails(a)!3!(limit)
  BY DEF ConnectFails
<1> DEFINE mine == {c \in Conns : tun.via[c] = a}
           p == Forget(tun, a)
           q == [p EXCEPT !.dial[a] = "free"]
           e == IF tun.eager[a] THEN FailConnect(q) ELSE q
           r == IF tun.retry[a] THEN OnReconnectFailed(e, limit) ELSE e
           w == [r EXCEPT !.conn = [c \in Conns |-> IF c \in mine THEN "none" ELSE @[c]],
                          !.via = [c \in Conns |-> IF c \in mine THEN None ELSE @[c]]]
<1>1. Sound(p, None) /\ p.connectPromise = None /\ p.dial[a] # "up" /\ p.via = tun.via
  BY ForgetKeeps DEF IInv, ConnectFails
<1>2. tun' = IF mine # {} THEN FailConnect(w) ELSE w
  BY DEF ConnectFails
<1> HIDE DEF p
<1>3. Sound(q, a) /\ q.via = tun.via
  BY <1>1, FreeingKeeps DEF Sound, Linked, Typed, WellTyped
<1> HIDE DEF q
<1>4. Sound(e, a) /\ e.via = tun.via
  BY <1>3, FailConnectKeeps
<1> HIDE DEF e
<1>5. Sound(r, a) /\ r.via = tun.via
  BY <1>4, OnReconnectFailedKeeps
<1> HIDE DEF r
<1>6. Typed(w)
  BY <1>5 DEF Sound, Linked, Typed, WellTyped, ConnPhases
<1>7. Sound(w, None)
  BY <1>5, <1>6 DEF Sound, Linked, Typed, WellTyped, SessionIsUp, PromiseOrSession,
                    Hanging, Current, PromiseIsCurrent, LingerHasSession
<1> HIDE DEF w
<1>8. QED
  BY <1>2, <1>7, FailConnectKeeps DEF IInv, ConnectFails

LEMMA SessionsKeep ==
  ASSUME IInv, NEW a \in Attempts,
         Drop(a) \/ RemoteForwardOk(a) \/ RemoteForwardFails(a)
  PROVE  IInv'
<1> USE DEF IInv
<1> DEFINE g == [tun EXCEPT !.forward[a] = FALSE]
<1>1. Sound(g, None)
  <2>1. Typed(g)
    BY DEF Sound, Linked, Typed, WellTyped
  <2>2. QED
    BY <2>1 DEF Sound, Linked, Typed, WellTyped, SessionIsUp, PromiseOrSession,
                Hanging, Current, PromiseIsCurrent, LingerHasSession
<1>2. CASE Drop(a)
  <2> DEFINE q == [tun EXCEPT !.dial[a] = "free", !.forward[a] = FALSE]
             p == [q EXCEPT !.sshConnection = None]
  <2>1. Typed(q) /\ Typed(p)
    BY DEF Sound, Linked, Typed, WellTyped, DialPhases
  <2>2. tun.dial[a] = "up"
    BY <1>2 DEF Drop
  <2>3. tun.sshConnection # a => Sound(q, None)
    BY <2>1, <2>2 DEF Sound, Linked, Typed, WellTyped, SessionIsUp, PromiseOrSession,
                      Hanging, Current, PromiseIsCurrent, LingerHasSession
  <2>4. Linked(p, None) /\ Current(p, None)
    BY <2>1, <2>2 DEF Sound, Linked, Typed, WellTyped, SessionIsUp, PromiseOrSession,
                      Hanging, Current, PromiseIsCurrent
  <2>5. tun' = IF tun.sshConnection = a THEN HandleDrop(q) ELSE q
    BY <1>2 DEF Drop
  <2> HIDE DEF q
  <2>6. QED
    BY <1>2, <2>3, <2>4, <2>5, HandleDropSettles DEF Drop
<1>3. CASE RemoteForwardOk(a)
  BY <1>1, <1>3 DEF RemoteForwardOk
<1>4. CASE RemoteForwardFails(a)
  <2> DEFINE r == CancelLinger(FailAllConnections(DisposeSsh(g)))
             v == IF r.armed THEN "error" ELSE "disarmed"
  <2> HIDE DEF g
  <2>1. Sound(r, None)
    BY <1>1, DisposeSshKeeps, FailAllConnectionsKeeps, CancelLingerKeeps DEF Sound
  <2>2. tun' = IF tun.sshConnection # a THEN g
               ELSE IF ShouldStayHot(r) THEN AttemptReconnect(r)
               ELSE [r EXCEPT !.state = v]
    BY <1>4 DEF RemoteForwardFails, g
  <2> HIDE DEF r
  <2>3. v \in States
    BY DEF States
  <2> HIDE DEF v
  <2>4. Sound(AttemptReconnect(r), None) /\ Sound([r EXCEPT !.state = v], None)
    BY <2>1, <2>3, AttemptReconnectKeeps, StateKeeps
  <2>5. QED
    BY <1>1, <1>4, <2>2, <2>4 DEF RemoteForwardFails
<1>5. QED
  BY <1>2, <1>3, <1>4

LEMMA TimersKeep ==
  ASSUME IInv, RetryFires \/ LingerFires
  PROVE  IInv'
<1> USE DEF IInv
<1>1. CASE RetryFires
  <2> DEFINE q == [tun EXCEPT !.reconnectTimer = FALSE]
  <2>1. Typed(q)
    BY DEF Sound, Linked, Typed, WellTyped
  <2>2. Sound(q, None)
    BY <2>1 DEF Sound, Linked, Typed, WellTyped, SessionIsUp, PromiseOrSession,
                Hanging, Current, PromiseIsCurrent, LingerHasSession
  <2>3. \/ tun' = q
        \/ \E a \in FreeAttempts(q) :
             LET r == EnsureConnected(q, a)
             IN tun' = IF r.sshConnection # None THEN r
                       ELSE [r EXCEPT !.retry[r.connectPromise] = TRUE]
    BY <1>1 DEF RetryFires
  <2> HIDE DEF q
  <2>4. ASSUME NEW a \in FreeAttempts(q)
        PROVE  LET r == EnsureConnected(q, a)
               IN Sound(r, None) /\ Sound([r EXCEPT !.retry[r.connectPromise] = TRUE], None)
    <3> DEFINE r == EnsureConnected(q, a)
               t == [r EXCEPT !.retry[r.connectPromise] = TRUE]
    <3>1. Sound(r, None)
      BY <2>2, EnsureConnectedKeeps
    <3> HIDE DEF r
    <3>2. Typed(t)
      BY <3>1 DEF Sound, Linked, Typed, WellTyped
    <3>3. Sound(t, None)
      BY <3>1, <3>2 DEF Sound, Linked, Typed, WellTyped, SessionIsUp, PromiseOrSession,
                        Hanging, Current, PromiseIsCurrent, LingerHasSession
    <3>4. QED
      BY <3>1, <3>3 DEF r
  <2>5. Sound(tun', None)
    BY <2>2, <2>3, <2>4
  <2>6. QED
    BY <1>1, <2>5 DEF RetryFires
<1>2. CASE LingerFires
  <2> DEFINE q == CancelLinger(tun)
             p == DisposeSsh(q)
             t == [p EXCEPT !.state = "listening"]
  <2>1. Sound(q, None) /\ ~q.lingerTimer
    BY CancelLingerKeeps DEF Sound, Linked, Typed, WellTyped, CancelLinger
  <2>2. tun' = q \/ tun' = MaybeApplyPending(t)
    BY <1>2 DEF LingerFires
  <2> HIDE DEF q
  <2>3. Sound(p, None)
    <3>1. p.lingerTimer = q.lingerTimer
      BY <2>1 DEF DisposeSsh, Sound, Linked, Typed, WellTyped
    <3>2. QED
      BY <2>1, <3>1, DisposeSshKeeps DEF Sound, LingerHasSession
  <2> HIDE DEF p
  <2>4. Sound(t, None)
    BY <2>3, StateKeeps DEF States
  <2> HIDE DEF t
  <2>5. QED
    BY <1>2, <2>1, <2>2, <2>4, MaybeApplyPendingKeeps DEF LingerFires, Sound
<1>3. QED
  BY <1>1, <1>2

-----------------------------------------------------------------------------
(* The theorems.                                                           *)

LEMMA NextKeeps == IInv /\ [Next]_vars => IInv'
<1> SUFFICES ASSUME IInv, [Next]_vars PROVE IInv'
  OBVIOUS
<1>1. CASE UNCHANGED vars
  BY <1>1 DEF vars, IInv
<1>2. CASE Next
  BY <1>2, CallsKeep, FramesKeep, SocketsKeep, ClientsKeep, ConnectOkKeeps,
     ConnectFailsKeeps, SessionsKeep, TimersKeep DEF Next
<1>3. QED
  BY <1>1, <1>2

Histories == wanted \in Wants /\ crossed \in BOOLEAN /\ belated \in BOOLEAN

LEMMA HistoriesKeep == Histories /\ [Next]_vars => Histories'
<1> SUFFICES ASSUME Histories, [Next]_vars PROVE Histories'
  OBVIOUS
<1> USE DEF Histories
<1>1. CASE UNCHANGED vars
  BY <1>1 DEF vars
<1>2. ASSUME NEW d \in Defs, Reconcile(d) PROVE Histories'
  BY <1>2 DEF Reconcile, Wants
<1>3. ASSUME Arm \/ Disarm \/ Dispose \/ ForceApply \/ Pause \/ Resume PROVE Histories'
  BY <1>3 DEF Arm, Disarm, Dispose, ForceApply, Pause, Resume, Wants
<1>4. ASSUME NEW f \in tun.frames, BindOk(f) \/ BindFails(f) \/ Settle(f) PROVE Histories'
  BY <1>4 DEF BindOk, BindFails, Settle
<1>5. ASSUME NEW l \in Socks, ListenerError(l) \/ SockClosed(l) PROVE Histories'
  BY <1>5 DEF ListenerError, SockClosed
<1>6. ASSUME NEW c \in Conns, LocalAccess(c) \/ ReverseAccess(c) \/ ConnCloses(c) PROVE Histories'
  BY <1>6 DEF LocalAccess, ReverseAccess, ConnCloses
<1>7. ASSUME NEW a \in Attempts, ConnectOk(a) \/ ConnectFails(a) PROVE Histories'
  <2>1. UNCHANGED <<wanted, crossed>>
    BY <1>7 DEF ConnectOk, ConnectFails
  <2>2. belated' \in BOOLEAN
    BY <1>7 DEF ConnectOk, ConnectFails
  <2>3. QED
    BY <2>1, <2>2
<1>8. ASSUME NEW a \in Attempts, Drop(a) \/ RemoteForwardOk(a) \/ RemoteForwardFails(a)
      PROVE  Histories'
  BY <1>8 DEF Drop, RemoteForwardOk, RemoteForwardFails
<1>9. ASSUME RetryFires \/ LingerFires PROVE Histories'
  BY <1>9 DEF RetryFires, LingerFires
<1>10. QED
  BY <1>1, <1>2, <1>3, <1>4, <1>5, <1>6, <1>7, <1>8, <1>9 DEF Next

THEOREM Inductive == Spec => []IInv
BY InitSound, NextKeeps, PTL DEF Spec

(* Every state the code reaches is well typed: no field of the object ever *)
(* holds a null, an edit or an attempt where its users expect another, and *)
(* the retry count stays within the policy.                                *)
THEOREM TypeCorrect == Spec => []TypeOK
<1>1. IInv /\ Histories => TypeOK
  BY DEF IInv, Sound, Linked, Typed, TypeOK, Histories
<1>2. Init => Histories
  BY DEF Init, Histories, Wants
<1>3. QED
  BY <1>1, <1>2, HistoriesKeep, Inductive, PTL DEF Spec

(* Under any overlap of calls, answers and timers #sshConnection is a live *)
(* session, #connectPromise a handshake nobody invalidated, and there is   *)
(* never one beside the other: what #ensureConnected() returns is usable.  *)
THEOREM LinkSound == Spec => []LinkIsSound
<1>1. IInv => LinkIsSound
  BY DEF IInv, Sound, Linked, Current, LinkIsSound
<1>2. QED
  BY <1>1, Inductive, PTL

(* Under any overlap an idle timer has a session to end and none runs      *)
(* while paused, and a client without a relay waits for a handshake that   *)
(* will answer it.                                                         *)
THEOREM TimersAndWaitersSound == Spec => []TimersAndWaitersAreSound
<1>1. IInv => TimersAndWaitersAreSound
  BY NoneAssumption DEF IInv, Sound, Linked, Typed, WellTyped, Hanging, Current,
     TimersAndWaitersAreSound, WaitersAreReachable
<1>2. QED
  BY <1>1, Inductive, PTL

-----------------------------------------------------------------------------
(* What each method does, field by field: the next proofs cite these facts *)
(* rather than the definitions.  Same says what a step may have changed.   *)

Fields ==
  {"def", "pendingDef", "armed", "disposed", "paused", "state", "listener",
   "sshConnection", "connectPromise", "lingerTimer", "reconnectTimer",
   "reconnectAttempts", "reconnecting", "dial", "eager", "retry", "forward",
   "conn", "via", "frozen", "sock", "frames"}

(* From s to t nothing but the fields F has changed.                       *)
Same(s, t, F) == \A f \in Fields \ F : t[f] = s[f]

LEMMA MaybeStartLingerEffect ==
  ASSUME NEW s, NEW x, Linked(s, x)
  PROVE  /\ Linked(MaybeStartLinger(s), x)
         /\ Same(s, MaybeStartLinger(s), {"lingerTimer"})
         /\ MaybeStartLinger(s).lingerTimer <=>
              \/ s.lingerTimer
              \/ /\ ~s.paused /\ ~HoldsOpen(s) /\ Live(s) = {}
                 /\ s.sshConnection # None
<1>1. Linked(MaybeStartLinger(s), x)
  BY MaybeStartLingerKeeps
<1>2. WellTyped(s)
  BY DEF Linked, Typed
<1>3. Same(s, MaybeStartLinger(s), {"lingerTimer"})
  BY <1>2 DEF MaybeStartLinger, Same, Fields, WellTyped
<1>4. MaybeStartLinger(s).lingerTimer <=>
              \/ s.lingerTimer
              \/ /\ ~s.paused /\ ~HoldsOpen(s) /\ Live(s) = {}
                 /\ s.sshConnection # None
  BY <1>2 DEF MaybeStartLinger, WellTyped
<1>5. QED
  BY <1>1, <1>3, <1>4


(* The retry timer, the count and the state shown follow a failure.        *)
Retried(s, t) ==
  /\ Same(s, t, {"reconnectAttempts", "reconnecting", "state", "reconnectTimer"})
  /\ s.reconnectTimer => t.reconnectTimer
  /\ s.disposed => (t.reconnectTimer <=> s.reconnectTimer)
  /\ \/ t.state = s.state
     \/ t.state = "connecting" /\ t.reconnectTimer
     \/ t.state = "error"
     \/ t.state = "disarmed" /\ ~s.armed

(* Somebody has reacted to it.                                             *)
Answered(s, t) ==
  ~s.disposed =>
    /\ HoldsOpen(s) => t.reconnectTimer
    /\ t.reconnectTimer \/ t.state \in {"error", "disarmed"}

LEMMA AttemptReconnectEffect ==
  ASSUME NEW s, NEW x, Sound(s, x)
  PROVE  /\ Retried(s, AttemptReconnect(s)) /\ Answered(s, AttemptReconnect(s))
         /\ ~s.disposed => AttemptReconnect(s).reconnectTimer
<1>1. WellTyped(s)
  BY DEF Sound, Linked, Typed
<1>2. QED
  BY <1>1 DEF AttemptReconnect, Retried, Answered, Same, Fields, WellTyped

LEMMA FailConnectEffect ==
  ASSUME NEW s, NEW x, Sound(s, x)
  PROVE  Retried(s, FailConnect(s)) /\ Answered(s, FailConnect(s))
<1>1. WellTyped(s)
  BY DEF Sound, Linked, Typed
<1>2. CASE ShouldStayHot(s)
  BY <1>2, AttemptReconnectEffect DEF FailConnect
<1>3. CASE ~ShouldStayHot(s)
  BY <1>1, <1>3 DEF FailConnect, ShouldStayHot, Retried, Answered, Same, Fields, WellTyped
<1>4. QED
  BY <1>2, <1>3

LEMMA OnReconnectFailedEffect ==
  ASSUME NEW s, NEW x, Sound(s, x), NEW limit \in RetryLimits
  PROVE  Retried(s, OnReconnectFailed(s, limit)) /\ Answered(s, OnReconnectFailed(s, limit))
<1>1. WellTyped(s)
  BY DEF Sound, Linked, Typed
<1>2. QED
  BY <1>1 DEF OnReconnectFailed, AttemptReconnect, HoldsOpen, Retried, Answered, Same, Fields, WellTyped

LEMMA RetriedTwice ==
  ASSUME NEW s, NEW t, NEW u, Retried(s, t), Retried(t, u)
  PROVE  /\ Retried(s, u)
         /\ Answered(s, t) \/ Answered(t, u) => Answered(s, u)
BY DEF Retried, Answered, Same, Fields, HoldsOpen

-----------------------------------------------------------------------------
Frame(s, kind, next) ==
  LET waits == s.listener # None /\ s.sock[s.listener].phase = "bound"
  IN  [kind |-> kind, next |-> next,
                            pc   |-> IF waits THEN "stopping" ELSE "settling",
                            sock |-> IF waits THEN s.listener ELSE None]

(* The listener's socket is closing and no other has changed.              *)
Stopped(s, t) ==
  \A l \in Socks :
    t.sock[l] = IF l = s.listener /\ s.sock[l].phase = "bound"
                THEN [phase |-> "closing", port |-> s.sock[l].port] ELSE s.sock[l]

LEMMA AwaitStopEffect ==
  ASSUME NEW s, NEW x, Linked(s, x),
         NEW kind \in {"arm", "disarm", "dispose", "reapply"},
         NEW next \in Defs \cup {None}, kind = "reapply" => next \in Defs
  PROVE  LET t == AwaitStop(s, kind, next)
         IN  /\ Linked(t, x)
             /\ Same(s, t, {"sock", "frames"})
             /\ Stopped(s, t)
             /\ t.frames = s.frames \cup {Frame(s, kind, next)}
<1>1. Linked(AwaitStop(s, kind, next), x)
  BY AwaitStopKeeps
<1>2. Same(s, AwaitStop(s, kind, next), {"sock", "frames"})
  BY DEF AwaitStop, Same, Fields, Linked, Typed, WellTyped
<1>3. Stopped(s, AwaitStop(s, kind, next))
  BY NoneAssumption DEF AwaitStop, Stopped, Linked, Typed, WellTyped
<1>4. AwaitStop(s, kind, next).frames = s.frames \cup {Frame(s, kind, next)}
  BY DEF AwaitStop, Frame, Linked, Typed, WellTyped
<1>5. QED
  BY <1>1, <1>2, <1>3, <1>4


Torn(s, t) ==
  /\ Same(s, t, {"pendingDef", "armed", "sshConnection", "connectPromise", "lingerTimer",
                 "reconnectTimer", "reconnectAttempts", "reconnecting", "dial", "forward",
                 "conn", "via", "frozen", "sock", "frames"})
  /\ ~t.armed /\ t.sshConnection = None /\ t.connectPromise = None
  /\ ~t.lingerTimer /\ ~t.reconnectTimer
  /\ \A a \in Attempts :
       t.dial[a] = IF a = s.sshConnection THEN "free"
                   ELSE IF s.dial[a] = "dialing" THEN "stale" ELSE s.dial[a]
  /\ \A c \in Conns : /\ t.conn[c] = IF s.conn[c] \in {"waiting", "gone"} THEN "gone" ELSE "none"
                      /\ t.via[c] = IF s.conn[c] = "relay" THEN None ELSE s.via[c]
                      /\ t.frozen[c] => s.frozen[c] /\ s.conn[c] # "relay"
  /\ Stopped(s, t)

LEMMA TornTwice ==
  ASSUME NEW s, NEW t, NEW u, Torn(s, t), Torn(t, u)
  PROVE  Torn(s, u)
<1>1. t.listener = s.listener
  BY DEF Torn, Same, Fields
<1>2. Stopped(s, u)
  <2>1. Stopped(s, t) /\ Stopped(t, u)
    BY DEF Torn
  <2>2. ASSUME NEW l \in Socks
        PROVE  u.sock[l] = IF l = s.listener /\ s.sock[l].phase = "bound"
                           THEN [phase |-> "closing", port |-> s.sock[l].port] ELSE s.sock[l]
    BY <1>1, <2>1 DEF Stopped
  <2>3. QED
    BY <2>2 DEF Stopped
<1>3. Same(s, u, {"pendingDef", "armed", "sshConnection", "connectPromise", "lingerTimer",
                 "reconnectTimer", "reconnectAttempts", "reconnecting", "dial", "forward",
                 "conn", "via", "frozen", "sock", "frames"})
  BY DEF Torn, Same
<1>4. QED
  BY <1>2, <1>3, NoneAssumption DEF Torn

(* f is a call of this kind, suspended in s until the listener has closed. *)
Suspended(s, f, kind, next) ==
  /\ f.kind = kind /\ f.next = next
  /\ f.pc \in {"stopping", "settling"}
  /\ f.pc = "stopping" => s.listener # None /\ s.sock[s.listener].phase = "bound"

LEMMA ReleaseEffect ==
  ASSUME NEW s, NEW x, Linked(s, x), ~s.armed, ~s.reconnectTimer, Live(s) = {},
         \A a \in Attempts : s.dial[a] # "dialing",
         NEW kind \in {"arm", "disarm", "dispose", "reapply"},
         NEW next \in Defs \cup {None}, kind = "reapply" => next \in Defs
  PROVE  LET t == Release(s, kind, next)
         IN  /\ Torn(s, t)
             /\ t.pendingDef = s.pendingDef
             /\ t.frames = s.frames \cup {Frame(s, kind, next)}
<1> DEFINE d == DisposeSsh(s)
           q == CancelLinger(d)
           t == AwaitStop(q, kind, next)
<1>1. WellTyped(s)
  BY DEF Linked, Typed
<1>2. Linked(d, x)
  BY DisposeSshKeeps
<1>3. Linked(q, x)
  BY <1>2, CancelLingerKeeps
<1>4. /\ Same(s, q, {"sshConnection", "connectPromise", "dial", "forward", "lingerTimer"})
      /\ q.sshConnection = None /\ q.connectPromise = None /\ ~q.lingerTimer
      /\ \A a \in Attempts : q.dial[a] = IF a = s.sshConnection THEN "free" ELSE s.dial[a]
  BY <1>1 DEF DisposeSsh, CancelLinger, Same, Fields, WellTyped
<1>5. \A c \in Conns : s.conn[c] \in {"none", "gone"}
  BY <1>1 DEF Live, WellTyped, ConnPhases
<1> HIDE DEF q
<1>6. /\ Same(q, t, {"sock", "frames"}) /\ Stopped(q, t)
      /\ t.frames = q.frames \cup {Frame(q, kind, next)}
  BY <1>3, AwaitStopEffect
<1>7. Release(s, kind, next) = t
  BY DEF Release, q
<1>8. Frame(q, kind, next) = Frame(s, kind, next) /\ Stopped(s, t)
  BY <1>4, <1>6 DEF Same, Fields, Frame, Stopped
<1> HIDE DEF t
<1>9. QED
  BY <1>4, <1>5, <1>6, <1>7, <1>8 DEF Same, Fields, Torn

LEMMA InvalidateEffect ==
  ASSUME NEW s, NEW x, Linked(s, x)
  PROVE  LET t == Invalidate(s)
         IN  /\ Linked(t, x) /\ Live(t) = Live(s)
             /\ Same(s, t, {"armed", "reconnectTimer", "reconnectAttempts", "reconnecting", "dial"})
             /\ ~t.armed /\ ~t.reconnectTimer
             /\ \A a \in Attempts :
                  t.dial[a] = IF s.dial[a] = "dialing" THEN "stale" ELSE s.dial[a]
<1>1. WellTyped(s)
  BY DEF Linked, Typed
<1>2. Linked(Invalidate(s), x) /\ Live(Invalidate(s)) = Live(s)
  BY InvalidateKeeps
<1>3. QED
  BY <1>1, <1>2 DEF Invalidate, CancelReconnect, Same, Fields, WellTyped

(* The idle tunnel s has taken up the edit d: t is torn down and the call  *)
(* that will apply it is suspended.                                        *)
Reapplying(s, t, d) ==
  /\ Torn(s, t)
  /\ t.frames = s.frames \cup {Frame(s, "reapply", d)}

LEMMA ReapplyIdleEffect ==
  ASSUME NEW s, NEW x, Linked(s, x), Live(s) = {}, NEW d \in Defs
  PROVE  LET t == ReapplyIdle(s, d)
         IN  /\ Reapplying(s, t, d)
             /\ t.pendingDef = s.pendingDef
<1> DEFINE q == Invalidate(s)
           t == ReapplyIdle(s, d)
<1>1. /\ Linked(q, x) /\ Live(q) = Live(s)
      /\ Same(s, q, {"armed", "reconnectTimer", "reconnectAttempts", "reconnecting", "dial"})
      /\ ~q.armed /\ ~q.reconnectTimer
      /\ \A a \in Attempts :
           q.dial[a] = IF s.dial[a] = "dialing" THEN "stale" ELSE s.dial[a]
  BY InvalidateEffect
<1>2. t = Release(q, "reapply", d)
  BY DEF ReapplyIdle
<1> HIDE DEF q, t
<1>3. /\ Torn(q, t) /\ t.pendingDef = q.pendingDef
      /\ t.frames = q.frames \cup {Frame(q, "reapply", d)}
  BY <1>1, <1>2, ReleaseEffect
<1>4. Frame(q, "reapply", d) = Frame(s, "reapply", d)
  BY <1>1 DEF Same, Fields, Frame
<1>5. Torn(s, t)
  BY <1>1, <1>3 DEF Torn, Same, Fields, Stopped
<1>6. QED
  BY <1>1, <1>3, <1>4, <1>5 DEF Reapplying, Same, Fields, t

(* The stashed edit is what t takes up.                                    *)
Applied(s, t) ==
  /\ s.pendingDef \in Defs /\ Live(s) = {}
  /\ Reapplying(s, t, s.pendingDef)
  /\ t.pendingDef = None

LEMMA MaybeApplyPendingEffect ==
  ASSUME NEW s, NEW x, Linked(s, x)
  PROVE  LET t == MaybeApplyPending(s)
         IN  \/ t = s /\ (s.pendingDef = None \/ Live(s) # {})
             \/ Applied(s, t)
<1> DEFINE q == [s EXCEPT !.pendingDef = None]
           t == MaybeApplyPending(s)
<1>1. CASE s.pendingDef = None \/ Live(s) # {}
  BY <1>1 DEF MaybeApplyPending
<1>2. CASE s.pendingDef # None /\ Live(s) = {}
  <2>1. WellTyped(s) /\ s.pendingDef \in Defs
    BY <1>2 DEF Linked, Typed, WellTyped
  <2>2. Typed(q)
    BY DEF Linked, Typed, WellTyped
  <2>3. Linked(q, x) /\ Live(q) = {} /\ Same(s, q, {"pendingDef"}) /\ q.pendingDef = None
    BY <1>2, <2>1, <2>2 DEF Linked, WellTyped, SessionIsUp, PromiseOrSession, Hanging, Live,
                            Same, Fields
  <2>4. t = ReapplyIdle(q, s.pendingDef)
    BY <1>2 DEF MaybeApplyPending
  <2> HIDE DEF q, t
  <2>5. Reapplying(q, t, s.pendingDef) /\ t.pendingDef = q.pendingDef
    BY <2>1, <2>3, <2>4, ReapplyIdleEffect
  <2>6. Frame(q, "reapply", s.pendingDef) = Frame(s, "reapply", s.pendingDef)
    BY <2>3 DEF Same, Fields, Frame
  <2>7. Torn(s, t)
    BY <2>3, <2>5 DEF Reapplying, Torn, Same, Fields, Stopped
  <2>8. QED
    BY <1>2, <2>1, <2>3, <2>5, <2>6, <2>7 DEF Applied, Reapplying, Same, Fields, t
<1>3. QED
  BY <1>1, <1>2

(* Reapplying(s, t, d) speaks only of what the idle timer does not touch.  *)
LEMMA AppliedFrom ==
  ASSUME NEW s, NEW q, NEW t, Applied(q, t), Same(s, q, {"lingerTimer"})
  PROVE  Applied(s, t)
<1>1. Frame(q, "reapply", q.pendingDef) = Frame(s, "reapply", s.pendingDef)
  BY DEF Same, Fields, Frame
<1>2. Torn(s, t)
  BY DEF Applied, Reapplying, Torn, Same, Fields, Stopped
<1>3. Live(s) = Live(q)
  BY DEF Live, Same, Fields
<1>4. QED
  BY <1>1, <1>2, <1>3 DEF Applied, Reapplying, Same, Fields

LEMMA OnIdleCheckEffect ==
  ASSUME NEW s, NEW x, Linked(s, x)
  PROVE  LET t == OnIdleCheck(s)
         IN  \/ t = MaybeStartLinger(s) /\ (s.pendingDef = None \/ Live(s) # {})
             \/ Applied(s, t)
<1> DEFINE q == MaybeStartLinger(s)
<1>1. CASE Live(s) # {}
  BY <1>1 DEF OnIdleCheck, MaybeStartLinger
<1>2. CASE Live(s) = {}
  <2>1. Linked(q, x) /\ Same(s, q, {"lingerTimer"}) /\ q.pendingDef = s.pendingDef /\ Live(q) = {}
    BY <1>2, MaybeStartLingerEffect, MaybeStartLingerKeeps
  <2>2. OnIdleCheck(s) = MaybeApplyPending(q)
    BY <1>2 DEF OnIdleCheck
  <2> HIDE DEF q
  <2>3. \/ OnIdleCheck(s) = q /\ q.pendingDef = None
        \/ Applied(q, OnIdleCheck(s))
    BY <2>1, <2>2, MaybeApplyPendingEffect
  <2>4. QED
    BY <2>1, <2>3, AppliedFrom DEF q
<1>3. QED
  BY <1>1, <1>2

(* Every client has left the set, and nothing else has changed.            *)
Cleared(s, t) ==
  /\ Same(s, t, {"conn", "via", "frozen"})
  /\ Live(t) = {}
  /\ \A c \in Conns :
       /\ t.conn[c] = IF s.conn[c] \in {"waiting", "gone"} THEN "gone" ELSE "none"
       /\ ~t.frozen[c]
       /\ t.via[c] = IF s.conn[c] = "relay" THEN None ELSE s.via[c]

LEMMA ClearConnsEffect ==
  ASSUME NEW s, NEW x, Linked(s, x)
  PROVE  Linked(ClearConns(s), x) /\ Cleared(s, ClearConns(s))
<1>1. WellTyped(s)
  BY DEF Linked, Typed
<1>2. Linked(ClearConns(s), x) /\ Live(ClearConns(s)) = {}
  BY ClearConnsKeeps
<1>3. QED
  BY <1>1, <1>2 DEF ClearConns, Cleared, Same, Fields, WellTyped, ConnPhases

(* Failing the clients leaves a stashed edit only when one was waiting.    *)
LEMMA FailAllConnectionsEffect ==
  ASSUME NEW s, NEW x, Linked(s, x)
  PROVE  LET q == ClearConns(s)
             t == FailAllConnections(s)
         IN  /\ Linked(t, x) /\ Linked(q, x) /\ Cleared(s, q)
             /\ t = q \/ (t = MaybeStartLinger(q) /\ s.pendingDef = None) \/ (Applied(q, t) /\ Live(s) # {})
<1> DEFINE q == ClearConns(s)
           t == FailAllConnections(s)
<1>1. Linked(q, x) /\ Cleared(s, q)
  BY ClearConnsEffect
<1>2. Linked(t, x)
  BY FailAllConnectionsKeeps
<1>3. t = q \/ (t = OnIdleCheck(q) /\ Live(s) # {})
  BY DEF FailAllConnections
<1> HIDE DEF q, t
<1>4. (OnIdleCheck(q) = MaybeStartLinger(q) /\ s.pendingDef = None) \/ Applied(q, OnIdleCheck(q))
  BY <1>1, OnIdleCheckEffect DEF Cleared, Same, Fields
<1>5. QED
  BY <1>1, <1>2, <1>3, <1>4 DEF q, t

(* A teardown for the call `kind`, which first takes up the stashed edit   *)
(* when the last relay closes under it.                                    *)
TornFor(s, t, kind, next) ==
  /\ Torn(s, t)
  /\ \E f : /\ Suspended(s, f, kind, next)
            /\ \/ t.pendingDef = s.pendingDef /\ t.frames = s.frames \cup {f}
               \/ /\ Live(s) # {} /\ s.pendingDef \in Defs /\ t.pendingDef = None
                  /\ t.frames = s.frames \cup {f, Frame(s, "reapply", s.pendingDef)}

LEMMA TeardownEffect ==
  ASSUME NEW s, NEW x, Linked(s, x),
         NEW kind \in {"arm", "disarm", "dispose", "reapply"},
         NEW next \in Defs \cup {None}, kind = "reapply" => next \in Defs
  PROVE  TornFor(s, Teardown(s, kind, next), kind, next)
<1> DEFINE i == Invalidate(s)
           q == ClearConns(i)
           e == FailAllConnections(i)
           t == Release(e, kind, next)
<1>1. /\ Linked(i, x)
      /\ Same(s, i, {"armed", "reconnectTimer", "reconnectAttempts", "reconnecting", "dial"})
      /\ ~i.armed /\ ~i.reconnectTimer
      /\ \A a \in Attempts :
           i.dial[a] = IF s.dial[a] = "dialing" THEN "stale" ELSE s.dial[a]
  BY InvalidateEffect
<1> HIDE DEF i
<1>2. /\ Linked(e, x) /\ Linked(q, x) /\ Cleared(i, q)
      /\ e = q \/ (e = MaybeStartLinger(q) /\ i.pendingDef = None) \/ (Applied(q, e) /\ Live(i) # {})
  BY <1>1, FailAllConnectionsEffect
<1>3. MaybeStartLinger(q).lingerTimer \in BOOLEAN /\ Same(q, MaybeStartLinger(q), {"lingerTimer"})
  BY <1>2, MaybeStartLingerEffect DEF Linked, Typed, WellTyped
<1>4. Teardown(s, kind, next) = t
  BY DEF Teardown, i
<1> HIDE DEF q, e
<1>5. CASE Same(q, e, {"lingerTimer"})
  <2>1. ~e.armed /\ ~e.reconnectTimer /\ Live(e) = {} /\ \A a \in Attempts : e.dial[a] # "dialing"
    BY <1>1, <1>2, <1>5 DEF Cleared, Same, Fields, Live
  <2>2. Torn(e, t) /\ t.pendingDef = e.pendingDef /\ t.frames = e.frames \cup {Frame(e, kind, next)}
    BY <1>2, <2>1, ReleaseEffect
  <2> HIDE DEF t
  <2>3. Torn(s, t)
    BY <1>1, <1>2, <1>5, <2>2 DEF Torn, Cleared, Same, Fields, Stopped
  <2>4. Suspended(s, Frame(e, kind, next), kind, next)
    BY <1>1, <1>2, <1>5 DEF Frame, Suspended, Cleared, Same, Fields
  <2>5. t.pendingDef = s.pendingDef /\ t.frames = s.frames \cup {Frame(e, kind, next)}
    BY <1>1, <1>2, <1>5, <2>2 DEF Cleared, Same, Fields
  <2>6. QED
    BY <1>4, <2>3, <2>4, <2>5 DEF TornFor
<1>6. CASE Applied(q, e) /\ Live(i) # {}
  <2>1. ~e.armed /\ ~e.reconnectTimer /\ Live(e) = {} /\ \A a \in Attempts : e.dial[a] # "dialing"
    BY <1>1, <1>2, <1>6 DEF Applied, Reapplying, Torn, Cleared, Same, Fields, Live
  <2>2. Torn(e, t) /\ t.pendingDef = e.pendingDef /\ t.frames = e.frames \cup {Frame(e, kind, next)}
    BY <1>2, <2>1, ReleaseEffect
  <2> HIDE DEF t
  <2>3. Torn(q, e)
    BY <1>6 DEF Applied, Reapplying
  <2>4. Torn(s, e)
    BY <1>1, <1>2, <2>3 DEF Torn, Cleared, Same, Fields, Stopped
  <2>5. Torn(s, t)
    BY <2>2, <2>4, TornTwice
  <2>6. Suspended(s, Frame(e, kind, next), kind, next)
    <3>1. e.listener \in Socks \cup {None} /\ e.listener = s.listener
      BY <1>2, <2>4 DEF Linked, Typed, WellTyped, Torn, Same, Fields
    <3>2. Stopped(s, e)
      BY <2>4 DEF Torn
    <3>3. QED
      BY ONLY <3>1, <3>2 DEF Frame, Suspended, Stopped
  <2>7. Frame(q, "reapply", q.pendingDef) = Frame(s, "reapply", s.pendingDef)
    BY <1>1, <1>2 DEF Cleared, Same, Fields, Frame
  <2>0. Live(s) # {}
    BY <1>1, <1>6 DEF Same, Fields, Live
  <2>8. /\ s.pendingDef \in Defs /\ t.pendingDef = None
        /\ t.frames = s.frames \cup {Frame(e, kind, next), Frame(s, "reapply", s.pendingDef)}
    BY <1>1, <1>2, <1>6, <2>2, <2>7 DEF Applied, Reapplying, Cleared, Same, Fields
  <2>9. QED
    BY <1>4, <2>0, <2>5, <2>8, <2>6 DEF TornFor
<1>7. QED
  <2>1. CASE e = q
    BY <1>5, <2>1 DEF Same, Fields
  <2>2. CASE e = MaybeStartLinger(q)
    BY <1>3, <1>5, <2>2
  <2>3. QED
    BY <1>2, <1>6, <2>1, <2>2

(* t has a session, joins the handshake in flight or starts one.           *)
Dialed(s, t) ==
  \/ t = s /\ (s.sshConnection # None \/ s.connectPromise # None)
  \/ /\ Same(s, t, {"state", "connectPromise", "dial"})
     /\ s.sshConnection = None /\ s.connectPromise = None
     /\ t.state = "connecting"
     /\ t.connectPromise \in Attempts /\ s.dial[t.connectPromise] = "free"
     /\ \A b \in Attempts :
          t.dial[b] = IF b = t.connectPromise THEN "dialing" ELSE s.dial[b]

LEMMA EnsureConnectedEffect ==
  ASSUME NEW s, Sound(s, None), NEW a \in FreeAttempts(s)
  PROVE  /\ Sound(EnsureConnected(s, a), None)
         /\ Dialed(s, EnsureConnected(s, a))
<1>1. WellTyped(s) /\ a \in Attempts /\ s.dial[a] = "free"
  BY DEF Sound, Linked, Typed, FreeAttempts
<1>2. Sound(EnsureConnected(s, a), None)
  BY EnsureConnectedKeeps
<1>3. Dialed(s, EnsureConnected(s, a))
  BY <1>1 DEF EnsureConnected, Dialed, Same, Fields, WellTyped
<1>4. QED
  BY <1>2, <1>3

(* The same, and a failure of the handshake will be answered.              *)
DialedEagerly(s, t) ==
  \E q : /\ Sound(q, None) /\ Dialed(s, q)
         /\ Same(q, t, {"eager"})
         /\ q.sshConnection = None =>
              /\ q.connectPromise \in Attempts /\ t.eager[q.connectPromise]
              /\ \A b \in Attempts : q.eager[b] => t.eager[b]
         /\ q.sshConnection # None => t = q

LEMMA ConnectEagerlyEffect ==
  ASSUME NEW s, Sound(s, None), NEW a \in FreeAttempts(s)
  PROVE  DialedEagerly(s, ConnectEagerly(s, a))
<1> DEFINE q == EnsureConnected(s, a)
           t == ConnectEagerly(s, a)
<1>1. Sound(q, None) /\ Dialed(s, q)
  BY EnsureConnectedEffect
<1>2. q.sshConnection = None => q.connectPromise \in Attempts
  BY <1>1 DEF Dialed, Same, Fields, Sound, Linked, Typed, WellTyped
<1>3. t = IF q.sshConnection # None THEN q ELSE [q EXCEPT !.eager[q.connectPromise] = TRUE]
  BY DEF ConnectEagerly
<1> HIDE DEF q, t
<1>4. WellTyped(q)
  BY <1>1 DEF Sound, Linked, Typed
<1>5. /\ Same(q, t, {"eager"})
      /\ q.sshConnection = None =>
              /\ q.connectPromise \in Attempts /\ t.eager[q.connectPromise]
              /\ \A b \in Attempts : q.eager[b] => t.eager[b]
      /\ q.sshConnection # None => t = q
  BY <1>2, <1>3, <1>4 DEF Same, Fields, WellTyped
<1>6. QED
  BY <1>1, <1>5 DEF DialedEagerly, t

(* arm() goes on without a listener: a remote forward dials, any other     *)
(* binds.                                                                  *)
Arming(s, t) ==
  IF s.def.remote
  THEN \E q : /\ Sound(q, None) /\ DialedEagerly(q, t)
              /\ Same(s, q, {"paused", "armed", "state"})
              /\ ~q.paused /\ q.armed /\ q.state = "listening"
  ELSE /\ Same(s, t, {"paused", "sock", "frames"})
       /\ ~t.paused
       /\ \E l \in Socks :
            /\ s.sock[l].phase = "free"
            /\ t.frames = s.frames \cup {[kind |-> "arm", pc |-> "binding", sock |-> l, next |-> None]}
            /\ \A k \in Socks :
                 t.sock[k] = IF k = l THEN [phase |-> "binding", port |-> s.def.port] ELSE s.sock[k]

LEMMA ArmUnboundEffect ==
  ASSUME NEW s, Sound(s, None), NEW l \in FreeSocks(s), NEW a \in FreeAttempts(s)
  PROVE  Arming(s, ArmUnbound(s, l, a))
<1>1. WellTyped(s)
  BY DEF Sound, Linked, Typed
<1>2. CASE s.def.remote
  <2> DEFINE q == [[s EXCEPT !.paused = FALSE] EXCEPT !.armed = TRUE, !.state = "listening"]
  <2>1. ArmUnbound(s, l, a) = ConnectEagerly(q, a)
    BY <1>2 DEF ArmUnbound
  <2>2. Typed(q)
    BY DEF Sound, Linked, Typed, WellTyped, States
  <2>3. Sound(q, None) /\ a \in FreeAttempts(q)
    BY <2>2 DEF Sound, Linked, Typed, WellTyped, SessionIsUp, PromiseOrSession, FreeAttempts,
                Hanging, Current, PromiseIsCurrent, LingerHasSession
  <2>4. /\ Same(s, q, {"paused", "armed", "state"})
        /\ ~q.paused /\ q.armed /\ q.state = "listening"
    BY <1>1 DEF Same, Fields, WellTyped
  <2> HIDE DEF q
  <2>5. DialedEagerly(q, ConnectEagerly(q, a))
    BY <2>3, ConnectEagerlyEffect
  <2>6. QED
    BY <1>2, <2>1, <2>3, <2>4, <2>5 DEF Arming
<1>3. CASE ~s.def.remote
  <2> DEFINE t == ArmUnbound(s, l, a)
  <2>1. l \in Socks /\ s.sock[l].phase = "free"
    BY DEF FreeSocks
  <2>2. /\ Same(s, t, {"paused", "sock", "frames"})
        /\ ~t.paused
        /\ t.frames = s.frames \cup {[kind |-> "arm", pc |-> "binding", sock |-> l, next |-> None]}
        /\ \A k \in Socks :
             t.sock[k] = IF k = l THEN [phase |-> "binding", port |-> s.def.port] ELSE s.sock[k]
    BY <1>1, <1>3, <2>1 DEF ArmUnbound, Same, Fields, WellTyped
  <2> HIDE DEF t
  <2>3. QED
    BY <1>3, <2>1, <2>2 DEF Arming, t
<1>4. QED
  BY <1>2, <1>3

-----------------------------------------------------------------------------
(* A disposed tunnel stays inert, under any overlap of calls.  Buried is the *)
(* invariant; its lemmas follow the effects, never the code.               *)

(* What serves a port belongs to an armed tunnel, so arm() never waits for *)
(* a listener to close, and ...                                            *)
BoundIsArmed(s) ==
  (s.listener # None /\ s.sock[s.listener].phase = "bound") =>
    s.armed /\ ~s.disposed /\ s.state # "disarmed"

WaitsByKind(s) ==
  \A f \in s.frames : /\ f.kind = "arm" => f.pc # "stopping"
                      /\ f.pc = "binding" => f.kind = "arm"

(* ... nothing on its way brings a disposed tunnel back.                   *)
Interred(s) ==
  s.disposed =>
    /\ ~s.armed /\ ~s.reconnectTimer /\ ~s.lingerTimer
    /\ s.sshConnection = None /\ Live(s) = {}
    /\ \A f \in s.frames : f.kind = "arm" => f.pc = "binding"
    /\ s.listener # None => \E f \in s.frames : f.pc # "binding"
    /\ s.pendingDef # None => \E f \in s.frames : f.kind = "dispose"

Buried(s) == BoundIsArmed(s) /\ WaitsByKind(s) /\ Interred(s)

(* Any teardown buries.                                                    *)
LEMMA TornBuries ==
  ASSUME NEW s, NEW t, WellTyped(s), Torn(s, t), WaitsByKind(s),
         s.frames \subseteq t.frames,
         \A f \in t.frames \ s.frames : f.kind # "arm" /\ f.pc # "binding",
         \E f \in t.frames : f.pc # "binding",
         s.disposed => \A f \in s.frames : f.kind = "arm" => f.pc = "binding",
         s.disposed /\ t.pendingDef # None => \E f \in t.frames : f.kind = "dispose"
  PROVE  Buried(t)
<1>1. t.listener = s.listener /\ t.disposed = s.disposed
  <2>1. Torn(s, t)
    OBVIOUS
  <2>2. QED
    BY ONLY <2>1 DEF Torn, Same, Fields
<1>2. s.listener \in Socks \cup {None}
  BY DEF WellTyped
<1>3. t.listener # None => t.sock[t.listener].phase # "bound"
  <2>1. ASSUME NEW l \in Socks, l = s.listener
        PROVE  t.sock[l].phase # "bound"
    <3>1. t.sock[l] = IF s.sock[l].phase = "bound"
                      THEN [phase |-> "closing", port |-> s.sock[l].port] ELSE s.sock[l]
      BY <2>1 DEF Torn, Stopped
    <3>2. QED
      BY ONLY <3>1
  <2>2. QED
    BY <1>1, <1>2, <2>1
<1>4. Live(t) = {}
  BY DEF Torn, Live
<1>5. BoundIsArmed(t) /\ WaitsByKind(t)
  BY <1>3 DEF BoundIsArmed, WaitsByKind
<1>6. Interred(t)
  BY <1>1, <1>4 DEF Interred, Torn
<1>7. QED
  BY <1>5, <1>6 DEF Buried

LEMMA TeardownBuries ==
  ASSUME NEW s, NEW x, Linked(s, x), WaitsByKind(s),
         NEW kind \in {"disarm", "dispose", "reapply"},
         NEW next \in Defs \cup {None}, kind = "reapply" => next \in Defs,
         s.disposed => \A f \in s.frames : f.kind = "arm" => f.pc = "binding",
         s.disposed /\ s.pendingDef # None =>
            kind = "dispose" \/ \E f \in s.frames : f.kind = "dispose"
  PROVE  Buried(Teardown(s, kind, next))
<1> DEFINE t == Teardown(s, kind, next)
<1>1. TornFor(s, t, kind, next)
  BY TeardownEffect
<1> HIDE DEF t
<1>2. Torn(s, t) /\ WellTyped(s)
  BY <1>1 DEF TornFor, Linked, Typed
<1>3. /\ s.frames \subseteq t.frames
      /\ \A f \in t.frames \ s.frames : f.kind # "arm" /\ f.pc # "binding"
      /\ \E f \in t.frames : f.pc # "binding" /\ f.kind = kind
  BY ONLY <1>1 DEF TornFor, Suspended, Frame
<1>4. t.pendingDef \in {None, s.pendingDef}
  BY <1>1 DEF TornFor
<1>5. QED
  BY <1>2, <1>3, <1>4, TornBuries DEF t

LEMMA ReapplyingBuries ==
  ASSUME NEW s, NEW d, NEW t, WellTyped(s), Buried(s), Reapplying(s, t, d), t.pendingDef \in {None, s.pendingDef}
  PROVE  Buried(t)
<1>1. /\ Torn(s, t) /\ s.frames \subseteq t.frames
      /\ \A f \in t.frames \ s.frames : f.kind # "arm" /\ f.pc # "binding"
      /\ \E f \in t.frames : f.pc # "binding"
  <2>1. Frame(s, "reapply", d).kind = "reapply" /\ Frame(s, "reapply", d).pc # "binding"
    BY DEF Frame
  <2>2. Torn(s, t) /\ t.frames = s.frames \cup {Frame(s, "reapply", d)}
    BY DEF Reapplying
  <2>3. QED
    BY <2>1, <2>2
<1>2. QED
  BY <1>1, TornBuries DEF Buried, Interred

LEMMA MaybeStartLingerBuries ==
  ASSUME NEW s, NEW x, Linked(s, x), Buried(s)
  PROVE  Buried(MaybeStartLinger(s))
<1>1. Same(s, MaybeStartLinger(s), {"lingerTimer"}) /\ (MaybeStartLinger(s).lingerTimer => s.lingerTimer \/ s.sshConnection # None)
  BY MaybeStartLingerEffect
<1>2. Live(MaybeStartLinger(s)) = Live(s)
  BY <1>1 DEF Live, Same, Fields
<1>3. QED
  BY <1>1, <1>2 DEF Buried, BoundIsArmed, WaitsByKind, Interred, Same, Fields

LEMMA OnIdleCheckBuries ==
  ASSUME NEW s, NEW x, Linked(s, x), Buried(s)
  PROVE  Buried(OnIdleCheck(s))
<1>1. WellTyped(s)
  BY DEF Linked, Typed
<1>2. QED
  BY <1>1, OnIdleCheckEffect, MaybeStartLingerBuries, ReapplyingBuries DEF Applied

LEMMA MaybeApplyPendingBuries ==
  ASSUME NEW s, NEW x, Linked(s, x), Buried(s)
  PROVE  Buried(MaybeApplyPending(s))
<1>1. WellTyped(s)
  BY DEF Linked, Typed
<1>2. QED
  BY <1>1, MaybeApplyPendingEffect, ReapplyingBuries DEF Applied

LEMMA FailAllConnectionsBuries ==
  ASSUME NEW s, NEW x, Linked(s, x), Buried(s)
  PROVE  Buried(FailAllConnections(s))
<1> DEFINE q == ClearConns(s)
<1>1. Linked(q, x) /\ Cleared(s, q)
  BY ClearConnsEffect
<1>2. FailAllConnections(s) = q \/ FailAllConnections(s) = OnIdleCheck(q)
  BY DEF FailAllConnections
<1> HIDE DEF q
<1>3. Buried(q)
  BY <1>1 DEF Cleared, Buried, BoundIsArmed, WaitsByKind, Interred, Same, Fields
<1>4. QED
  BY <1>1, <1>2, <1>3, OnIdleCheckBuries

LEMMA CancelLingerEffect ==
  ASSUME NEW s, NEW x, Linked(s, x)
  PROVE  /\ Linked(CancelLinger(s), x)
         /\ Same(s, CancelLinger(s), {"lingerTimer"})
         /\ ~CancelLinger(s).lingerTimer
<1>1. WellTyped(s)
  BY DEF Linked, Typed
<1>2. Linked(CancelLinger(s), x)
  BY CancelLingerKeeps
<1>3. QED
  BY <1>1, <1>2 DEF CancelLinger, Same, Fields, WellTyped

(* What concerns neither the listener nor a call of a live tunnel.         *)
LEMMA AliveStays ==
  ASSUME NEW s, NEW t, Buried(s), ~s.disposed,
         Same(s, t, Fields \ {"disposed", "listener", "frames", "sock", "armed", "state"}),
         t.armed = s.armed,
         t.state = "disarmed" => s.state = "disarmed" \/ ~s.armed
  PROVE  Buried(t)
BY DEF Buried, BoundIsArmed, WaitsByKind, Interred, Same, Fields

LEMMA RetriedBuries ==
  ASSUME NEW s, NEW t, Buried(s), Retried(s, t)
  PROVE  Buried(t)
BY DEF Buried, BoundIsArmed, WaitsByKind, Interred, Retried, Same, Fields, Live

LEMMA DialedBuries ==
  ASSUME NEW s, NEW t, Buried(s), ~s.disposed, Dialed(s, t)
  PROVE  Buried(t) /\ ~t.disposed
BY DEF Dialed, Buried, BoundIsArmed, WaitsByKind, Interred, Same, Fields

LEMMA DialedEagerlyBuries ==
  ASSUME NEW s, NEW t, Buried(s), ~s.disposed, DialedEagerly(s, t)
  PROVE  Buried(t) /\ ~t.disposed
<1> PICK q : DialedEagerly(s, t)!(q)
  BY DEF DialedEagerly
<1>1. Buried(q) /\ ~q.disposed
  BY DialedBuries
<1>2. Same(q, t, {"eager"})
  BY DEF Same, Fields
<1>3. QED
  BY ONLY <1>1, <1>2 DEF Buried, BoundIsArmed, WaitsByKind, Interred, Same, Fields

LEMMA ArmingBuries ==
  ASSUME NEW s, NEW t, WellTyped(s), Buried(s), ~s.disposed, Arming(s, t)
  PROVE  Buried(t)
<1>1. CASE s.def.remote
  <2> PICK q : /\ Sound(q, None) /\ DialedEagerly(q, t)
               /\ Same(s, q, {"paused", "armed", "state"})
               /\ ~q.paused /\ q.armed /\ q.state = "listening"
    BY <1>1 DEF Arming
  <2>1. Buried(q) /\ ~q.disposed
    BY DEF Buried, BoundIsArmed, WaitsByKind, Interred, Same, Fields
  <2>2. QED
    BY <2>1, DialedEagerlyBuries
<1>2. CASE ~s.def.remote
  <2> DEFINE frame(l) == [kind |-> "arm", pc |-> "binding", sock |-> l, next |-> None]
  <2> PICK l \in Socks :
            /\ s.sock[l].phase = "free"
            /\ t.frames = s.frames \cup {frame(l)}
            /\ \A k \in Socks :
                 t.sock[k] = IF k = l THEN [phase |-> "binding", port |-> s.def.port] ELSE s.sock[k]
    BY <1>2 DEF Arming
  <2>1. Same(s, t, {"paused", "sock", "frames"})
    BY <1>2 DEF Arming
  <2>2. s.listener \in Socks \cup {None}
    BY DEF WellTyped
  <2>3. t.listener = s.listener /\ t.armed = s.armed /\ t.disposed = s.disposed /\ t.state = s.state
    BY ONLY <2>1 DEF Same, Fields
  <2>4. \A k \in Socks : t.sock[k].phase = "bound" => s.sock[k].phase = "bound"
    OBVIOUS
  <2>5. BoundIsArmed(t)
    BY <2>2, <2>3, <2>4 DEF Buried, BoundIsArmed
  <2>6. WaitsByKind(t)
    BY DEF Buried, WaitsByKind
  <2>7. QED
    BY <2>3, <2>5, <2>6 DEF Buried, Interred
<1>3. QED
  BY <1>1, <1>2

LEMMA ArmTunnelBuries ==
  ASSUME NEW s, Sound(s, None), NEW l \in FreeSocks(s), NEW a \in FreeAttempts(s),
         Buried(s), s.state = "disarmed" \/ s.listener = None
  PROVE  Buried(ArmTunnel(s, l, a))
<1>1. CASE s.disposed
  BY <1>1 DEF ArmTunnel
<1>2. CASE ~s.disposed /\ s.listener = None
  BY <1>2, ArmUnboundEffect, ArmingBuries DEF ArmTunnel, Sound, Linked, Typed
<1>3. CASE ~s.disposed /\ s.listener # None
  <2> DEFINE t == AwaitStop(s, "arm", None)
             f == Frame(s, "arm", None)
  <2>1. Same(s, t, {"sock", "frames"}) /\ Stopped(s, t) /\ t.frames = s.frames \cup {f}
    BY AwaitStopEffect DEF Sound
  <2>2. ArmTunnel(s, l, a) = t
    BY <1>3 DEF ArmTunnel
  <2>3. s.sock[s.listener].phase # "bound"
    BY <1>3 DEF Buried, BoundIsArmed
  <2>4. f.pc = "settling" /\ s.listener \in Socks
    BY <1>3, <2>3 DEF Frame, Sound, Linked, Typed, WellTyped
  <2> HIDE DEF t, f
  <2>5. t.sock[s.listener] = s.sock[s.listener] /\ t.listener = s.listener /\ ~t.disposed
    BY <1>3, <2>1, <2>3, <2>4 DEF Stopped, Same, Fields
  <2>6. BoundIsArmed(t)
    BY <2>3, <2>5 DEF BoundIsArmed
  <2>7. WaitsByKind(t)
    BY <2>1, <2>4 DEF Buried, WaitsByKind
  <2>8. QED
    BY <2>2, <2>5, <2>6, <2>7 DEF Buried, Interred
<1>4. QED
  BY <1>1, <1>2, <1>3

LEMMA ApplyDefinitionBuries ==
  ASSUME NEW s, Sound(s, None), NEW d \in Defs, Buried(s), ~s.disposed
  PROVE  Buried(ApplyDefinition(s, d)) /\ ~ApplyDefinition(s, d).disposed
<1>1. WellTyped(s) /\ Linked(s, None)
  BY DEF Sound, Linked, Typed
<1>2. CASE ApplyDefinition(s, d) \in {[s EXCEPT !.def = d], [s EXCEPT !.pendingDef = d]}
  BY <1>1, <1>2 DEF Buried, BoundIsArmed, WaitsByKind, Interred, WellTyped
<1>3. CASE ApplyDefinition(s, d) = ReapplyIdle(s, d) /\ Live(s) = {}
  <2> DEFINE t == ReapplyIdle(s, d)
  <2>1. Reapplying(s, t, d) /\ t.pendingDef = s.pendingDef
    BY <1>1, <1>3, ReapplyIdleEffect
  <2>2. Buried(t)
    BY <1>1, <2>1, ReapplyingBuries
  <2>3. ~t.disposed
    BY <2>1 DEF Reapplying, Torn, Same, Fields
  <2>4. QED
    BY <1>3, <2>2, <2>3
<1>4. QED
  BY <1>2, <1>3 DEF ApplyDefinition

LEMMA CallsBury ==
  ASSUME IInv, Buried(tun),
         Arm \/ Disarm \/ Dispose \/ ForceApply \/ Pause \/ Resume \/ \E d \in Defs : Reconcile(d)
  PROVE  Buried(tun')
<1>0. WellTyped(tun) /\ Sound(tun, None)
  BY DEF IInv, Sound, Linked, Typed
<1>1. CASE Arm
  BY <1>0, <1>1, ArmTunnelBuries DEF Arm, NewTunnel
<1>2. CASE Disarm
  <2> DEFINE q == [tun EXCEPT !.pendingDef = None]
  <2>1. Typed(q)
    BY DEF IInv, Sound, Linked, Typed, WellTyped
  <2>2. Linked(q, None)
    BY <2>1 DEF IInv, Sound, Linked, Typed, WellTyped, SessionIsUp, PromiseOrSession, Hanging
  <2>3. q.frames = tun.frames /\ q.disposed = tun.disposed /\ q.pendingDef = None
    BY <1>0 DEF WellTyped
  <2>4. WaitsByKind(q) /\ ~q.disposed
    BY <1>2, <2>3 DEF Buried, WaitsByKind, Disarm
  <2> HIDE DEF q
  <2>5. QED
    BY <1>2, <2>2, <2>4, TeardownBuries DEF Disarm, q
<1>3. CASE Dispose
  <2> DEFINE q == [tun EXCEPT !.disposed = TRUE]
  <2>1. Typed(q)
    BY DEF IInv, Sound, Linked, Typed, WellTyped
  <2>2. Linked(q, None)
    BY <2>1 DEF IInv, Sound, Linked, Typed, WellTyped, SessionIsUp, PromiseOrSession, Hanging
  <2>3. q.frames = tun.frames
    BY <1>0 DEF WellTyped
  <2>4. \A f \in tun.frames : f.kind = "arm" => f.pc = "binding"
    BY <1>0, <1>3 DEF Dispose, Quiet, Buried, WaitsByKind, WellTyped, FrameRecords
  <2>5. WaitsByKind(q)
    BY <2>3 DEF Buried, WaitsByKind
  <2> HIDE DEF q
  <2>6. QED
    BY <1>3, <2>2, <2>3, <2>4, <2>5, TeardownBuries DEF Dispose, q
<1>4. CASE ForceApply
  <2> DEFINE q == [tun EXCEPT !.pendingDef = None]
  <2>1. Typed(q)
    BY DEF IInv, Sound, Linked, Typed, WellTyped
  <2>2. Linked(q, None)
    BY <2>1 DEF IInv, Sound, Linked, Typed, WellTyped, SessionIsUp, PromiseOrSession, Hanging
  <2>3. q.frames = tun.frames /\ q.disposed = tun.disposed /\ q.pendingDef = None
    BY <1>0 DEF WellTyped
  <2>4. WaitsByKind(q) /\ (q.disposed => \A f \in q.frames : f.kind = "arm" => f.pc = "binding")
    BY <2>3 DEF Buried, WaitsByKind, Interred
  <2>5. tun.pendingDef \in Defs
    BY <1>0, <1>4 DEF ForceApply, WellTyped
  <2> HIDE DEF q
  <2>6. QED
    BY <1>4, <2>2, <2>3, <2>4, <2>5, TeardownBuries DEF ForceApply, q
<1>5. CASE Pause
  BY <1>0, <1>5 DEF Pause, CancelLinger, WellTyped, Buried, BoundIsArmed, WaitsByKind, Interred
<1>6. CASE Resume
  BY <1>0, <1>6 DEF Resume, MaybeStartLinger, WellTyped, Buried, BoundIsArmed, WaitsByKind, Interred
<1>7. ASSUME NEW d \in Defs, Reconcile(d) PROVE Buried(tun')
  <2> DEFINE q == ApplyDefinition(tun, d)
  <2>1. Sound(q, None) /\ Buried(q) /\ ~q.disposed
    BY <1>0, <1>7, ApplyDefinitionKeeps, ApplyDefinitionBuries DEF Reconcile
  <2>2. \/ tun' = q
        \/ /\ ReportedState(q) = "disarmed"
           /\ \E l \in FreeSocks(q), a \in FreeAttempts(q) : tun' = ArmTunnel(q, l, a)
    BY <1>7 DEF Reconcile
  <2> HIDE DEF q
  <2>3. ReportedState(q) = "disarmed" => q.state = "disarmed"
    BY DEF ReportedState
  <2>4. QED
    BY <2>1, <2>2, <2>3, ArmTunnelBuries
<1>8. QED
  BY <1>1, <1>2, <1>3, <1>4, <1>5, <1>6, <1>7

LEMMA FramesBury ==
  ASSUME IInv, Buried(tun), NEW f \in tun.frames, BindOk(f) \/ BindFails(f) \/ Settle(f)
  PROVE  Buried(tun')
<1>0. WellTyped(tun) /\ Sound(tun, None)
  BY DEF IInv, Sound, Linked, Typed
<1>1. f \in FrameRecords /\ f.sock \in Socks \cup {None} /\ (f.kind = "reapply" => f.next \in Defs)
  BY DEF IInv, Sound, Linked, Typed, WellTyped, FrameRecords
<1>2. CASE BindOk(f)
  <2> DEFINE q == [tun EXCEPT !.frames = @ \ {f}]
             z == [q EXCEPT !.sock[f.sock].phase = "closing"]
             b == [q EXCEPT !.sock[f.sock].phase = "bound",
                            !.listener = f.sock, !.armed = TRUE, !.state = "listening"]
  <2>1. f.pc = "binding"
    BY <1>2 DEF BindOk
  <2>2. CASE tun.disposed
    <3>1. tun' = z
      BY <1>0, <1>2, <2>2 DEF BindOk, WellTyped
    <3>2. Same(tun, z, {"frames", "sock"}) /\ z.frames = tun.frames \ {f}
      BY <1>0 DEF Same, Fields, WellTyped
    <3>3. \A l \in Socks : z.sock[l].phase = "bound" => tun.sock[l].phase = "bound"
      BY <1>0, <1>1 DEF WellTyped
    <3> HIDE DEF z
    <3>4. BoundIsArmed(z)
      BY <1>0, <3>2, <3>3 DEF Buried, BoundIsArmed, Same, Fields, WellTyped
    <3>5. \A g \in tun.frames : g.kind = "dispose" => g # f
      <4>1. f.kind # "dispose"
        BY <2>1, <2>2 DEF Buried, WaitsByKind
      <4>2. QED
        BY <4>1
    <3>6. Interred(z) /\ WaitsByKind(z)
      BY <2>1, <2>2, <3>2, <3>5 DEF Buried, Interred, WaitsByKind, Live, Same, Fields
    <3>7. QED
      BY <3>1, <3>4, <3>6 DEF Buried
  <2>3. CASE ~tun.disposed
    <3>1. Same(tun, b, {"frames", "sock", "listener", "armed", "state"})
          /\ b.frames = tun.frames \ {f} /\ b.armed /\ b.state = "listening"
      BY <1>0 DEF Same, Fields, WellTyped
    <3>2. tun' = b \/ \E a \in FreeAttempts(b) : tun' = ConnectEagerly(b, a)
      BY <1>0, <1>2, <2>3 DEF BindOk, WellTyped
    <3>3. Sound(b, None)
      <4>1. [tun.sock EXCEPT ![f.sock].phase = "bound"] \in [Socks -> [phase : SockPhases, port : Nat]]
        BY <1>0, <1>1, SockPhaseKeeps DEF WellTyped, SockPhases
      <4>2. Typed(b)
        BY <1>0, <1>1, <4>1 DEF Sound, Linked, Typed, WellTyped, States
      <4>3. QED
        BY <1>0, <4>2 DEF Sound, Linked, Typed, WellTyped, SessionIsUp, PromiseOrSession,
                      Hanging, Current, PromiseIsCurrent, LingerHasSession
    <3> HIDE DEF b
    <3>4. Buried(b) /\ ~b.disposed
      BY <2>3, <3>1 DEF Buried, BoundIsArmed, WaitsByKind, Interred, Same, Fields
    <3>5. QED
      BY <3>2, <3>3, <3>4, ConnectEagerlyEffect, DialedEagerlyBuries
  <2>4. QED
    BY <1>0, <2>2, <2>3 DEF WellTyped
<1>3. CASE BindFails(f)
  <2> DEFINE z == [tun EXCEPT !.frames = @ \ {f}, !.sock[f.sock].phase = "free", !.state = "error"]
  <2>1. f.pc = "binding" /\ tun' = z
    BY <1>3 DEF BindFails
  <2>2. Same(tun, z, {"frames", "sock", "state"}) /\ z.frames = tun.frames \ {f} /\ z.state = "error"
    BY <1>0 DEF Same, Fields, WellTyped
  <2>3. \A l \in Socks : z.sock[l].phase = "bound" => tun.sock[l].phase = "bound"
    BY <1>0, <1>1 DEF WellTyped
  <2> HIDE DEF z
  <2>4. BoundIsArmed(z)
    BY <1>0, <2>2, <2>3 DEF Buried, BoundIsArmed, Same, Fields, WellTyped
  <2>5. f.kind # "dispose"
    BY <2>1 DEF Buried, WaitsByKind
  <2>6. Interred(z) /\ WaitsByKind(z)
    BY <2>1, <2>2, <2>5 DEF Buried, Interred, WaitsByKind, Live, Same, Fields
  <2>7. QED
    BY <2>1, <2>4, <2>6 DEF Buried
<1>4. CASE Settle(f)
  <2> DEFINE q == [tun EXCEPT !.frames = @ \ {f}, !.listener = None]
             r == [q EXCEPT !.def = f.next]
             u == [q EXCEPT !.paused = FALSE, !.state = "disarmed"]
             v == [q EXCEPT !.pendingDef = None, !.paused = FALSE, !.state = "disarmed"]
             w == [r EXCEPT !.state = "disarmed"]
  <2>1. Typed(q)
    BY <1>0 DEF Sound, Linked, Typed, WellTyped
  <2>2. Sound(q, None)
    BY <1>0, <2>1 DEF Sound, Linked, Typed, WellTyped, SessionIsUp, PromiseOrSession,
                Hanging, Current, PromiseIsCurrent, LingerHasSession
  <2>3. /\ f.pc = "settling" /\ f.kind \in {"arm", "disarm", "dispose", "reapply"}
        /\ \/ f.kind = "disarm" /\ tun' = u
           \/ f.kind = "dispose" /\ tun' = v
           \/ f.kind = "reapply" /\ tun' = w
           \/ f.kind = "reapply" /\ \E l \in FreeSocks(r), a \in FreeAttempts(r) : tun' = ArmTunnel(r, l, a)
           \/ f.kind = "arm" /\ \E l \in FreeSocks(q), a \in FreeAttempts(q) : tun' = ArmUnbound(q, l, a)
    BY <1>1, <1>4 DEF Settle, FrameRecords
  <2>4. /\ Same(tun, q, {"frames", "listener"}) /\ q.frames = tun.frames \ {f} /\ q.listener = None
        /\ Same(q, u, {"paused", "state"}) /\ u.state = "disarmed"
        /\ Same(q, v, {"paused", "state", "pendingDef"}) /\ v.state = "disarmed" /\ v.pendingDef = None
        /\ Same(q, r, {"def"}) /\ Same(q, w, {"def", "state"})
    BY <1>0 DEF Same, Fields, WellTyped
  <2>5. f.kind = "reapply" => Sound(r, None)
    <3> HAVE f.kind = "reapply"
    <3>1. Typed(r)
      BY <1>1, <2>2 DEF Sound, Linked, Typed, WellTyped
    <3>2. QED
      BY <2>2, <3>1 DEF Sound, Linked, Typed, WellTyped, SessionIsUp, PromiseOrSession,
                        Hanging, Current, PromiseIsCurrent, LingerHasSession
  <2> HIDE DEF q, r, u, v, w
  <2>6. f.kind # "dispose" => Buried(q)
    BY <2>4 DEF Buried, BoundIsArmed, WaitsByKind, Interred, Live, Same, Fields
  <2>7. CASE f.kind = "disarm" /\ tun' = u
    BY <2>4, <2>6, <2>7 DEF Buried, BoundIsArmed, WaitsByKind, Interred, Live, Same, Fields
  <2>8. CASE f.kind = "dispose" /\ tun' = v
    BY <2>4, <2>8 DEF Buried, BoundIsArmed, WaitsByKind, Interred, Live, Same, Fields
  <2>9. CASE f.kind = "reapply" /\ tun' = w
    BY <2>4, <2>6, <2>9 DEF Buried, BoundIsArmed, WaitsByKind, Interred, Live, Same, Fields
  <2>10. CASE f.kind = "reapply" /\ \E l \in FreeSocks(r), a \in FreeAttempts(r) : tun' = ArmTunnel(r, l, a)
    <3>1. Buried(r) /\ r.listener = None
      BY <2>4, <2>6, <2>10 DEF Buried, BoundIsArmed, WaitsByKind, Interred, Live, Same, Fields
    <3>2. QED
      BY <2>5, <2>10, <3>1, ArmTunnelBuries
  <2>11. CASE f.kind = "arm" /\ \E l \in FreeSocks(q), a \in FreeAttempts(q) : tun' = ArmUnbound(q, l, a)
    <3>1. ~tun.disposed
      BY <2>3, <2>11 DEF Buried, Interred
    <3>2. ~q.disposed
      BY <2>4, <3>1 DEF Same, Fields
    <3>3. QED
      BY <2>1, <2>2, <2>6, <2>11, <3>2, ArmUnboundEffect, ArmingBuries DEF Typed
  <2>12. QED
    BY <2>3, <2>7, <2>8, <2>9, <2>10, <2>11
<1>5. QED
  BY <1>2, <1>3, <1>4

LEMMA SocketsBury ==
  ASSUME IInv, Buried(tun), NEW l \in Socks, ListenerError(l) \/ SockClosed(l)
  PROVE  Buried(tun')
<1>0. WellTyped(tun)
  BY DEF IInv, Sound, Linked, Typed
<1>1. CASE ListenerError(l)
  BY <1>0, <1>1 DEF ListenerError, WellTyped, Buried, BoundIsArmed, WaitsByKind, Interred, Live
<1>2. CASE SockClosed(l)
  <2> DEFINE Woken(f) == IF f.sock = l /\ f.pc = "stopping"
                         THEN [f EXCEPT !.pc = "settling", !.sock = None] ELSE f
             t == [tun EXCEPT !.sock[l].phase = "free", !.frames = {Woken(f) : f \in @}]
  <2>1. ASSUME NEW f \in tun.frames
        PROVE  /\ Woken(f).kind = f.kind
               /\ Woken(f).pc # f.pc => f.pc = "stopping" /\ Woken(f).pc = "settling"
    <3>1. f \in FrameRecords
      BY <1>0 DEF WellTyped
    <3>2. QED
      BY <3>1 DEF FrameRecords
  <2>2. tun' = t
    BY <1>2 DEF SockClosed
  <2>3. /\ Same(tun, t, {"sock", "frames"})
        /\ t.frames = {Woken(f) : f \in tun.frames}
        /\ \A k \in Socks : t.sock[k].phase = "bound" => tun.sock[k].phase = "bound"
    BY <1>0 DEF Same, Fields, WellTyped
  <2> HIDE DEF Woken, t
  <2>4. BoundIsArmed(t)
    BY <1>0, <2>3 DEF Buried, BoundIsArmed, Same, Fields, WellTyped
  <2>5. WaitsByKind(t)
    BY <2>1, <2>3 DEF Buried, WaitsByKind
  <2>6. Interred(t)
    <3> SUFFICES ASSUME t.disposed PROVE Interred(t)!2
      BY DEF Interred
    <3>1. Interred(tun)!2
      BY <2>3 DEF Buried, Interred, Same, Fields
    <3>2. \A f \in t.frames : f.kind = "arm" => f.pc = "binding"
      BY <2>1, <2>3, <3>1
    <3>3. t.listener # None => \E f \in t.frames : f.pc # "binding"
      <4>1. t.listener = tun.listener
        BY <2>3 DEF Same, Fields
      <4>2. ASSUME NEW f \in tun.frames, f.pc # "binding"
            PROVE  Woken(f) \in t.frames /\ Woken(f).pc # "binding"
        BY <2>1, <2>3, <4>2
      <4>3. QED
        BY <3>1, <4>1, <4>2
    <3>4. t.pendingDef # None => \E f \in t.frames : f.kind = "dispose"
      <4>1. t.pendingDef = tun.pendingDef
        BY <2>3 DEF Same, Fields
      <4>2. ASSUME NEW f \in tun.frames, f.kind = "dispose"
            PROVE  Woken(f) \in t.frames /\ Woken(f).kind = "dispose"
        BY <2>1, <2>3, <4>2
      <4>3. QED
        BY <3>1, <4>1, <4>2
    <3>5. QED
      BY <2>3, <3>1, <3>2, <3>3, <3>4 DEF Same, Fields, Live
  <2>7. QED
    BY <2>2, <2>4, <2>5, <2>6 DEF Buried
<1>3. QED
  BY <1>1, <1>2

LEMMA ClientsBury ==
  ASSUME IInv, Buried(tun), NEW c \in Conns, LocalAccess(c) \/ ReverseAccess(c) \/ ConnCloses(c)
  PROVE  Buried(tun')
<1>0. WellTyped(tun) /\ Sound(tun, None)
  BY DEF IInv, Sound, Linked, Typed
<1>1. CASE LocalAccess(c)
  <2> PICK a \in FreeAttempts(tun) :
          LET q == EnsureConnected(CancelLinger(tun), a)
          IN tun' = IF q.sshConnection # None
                    THEN [q EXCEPT !.conn[c] = "relay"]
                    ELSE [q EXCEPT !.conn[c] = "waiting", !.via[c] = q.connectPromise]
    BY <1>1 DEF LocalAccess
  <2> DEFINE p == CancelLinger(tun)
             q == EnsureConnected(p, a)
  <2>1. Sound(p, None) /\ a \in FreeAttempts(p)
    BY <1>0, CancelLingerKeeps DEF Sound, WellTyped, CancelLinger, FreeAttempts
  <2>2. Buried(p) /\ ~p.disposed
    BY <1>0, <1>1 DEF LocalAccess, CancelLinger, WellTyped, Buried, BoundIsArmed, WaitsByKind, Interred
  <2> HIDE DEF p
  <2>3. Buried(q) /\ ~q.disposed /\ WellTyped(q)
    BY <2>1, <2>2, EnsureConnectedEffect, DialedBuries DEF Sound, Linked, Typed
  <2>4. \/ tun' = [q EXCEPT !.conn[c] = "relay"]
        \/ tun' = [q EXCEPT !.conn[c] = "waiting", !.via[c] = q.connectPromise]
    BY DEF p
  <2> HIDE DEF q
  <2>5. QED
    BY <2>3, <2>4 DEF WellTyped, Buried, BoundIsArmed, WaitsByKind, Interred
<1>2. CASE ReverseAccess(c)
  BY <1>0, <1>2 DEF ReverseAccess, WellTyped, Buried, BoundIsArmed, WaitsByKind, Interred
<1>3. CASE ConnCloses(c)
  <2> DEFINE t == DeleteConn(tun, c)
  <2>1. Typed(t)
    BY DEF DeleteConn, IInv, Sound, Linked, Typed, WellTyped, ConnPhases
  <2>2. Linked(t, None)
    BY <2>1 DEF DeleteConn, IInv, Sound, Linked, Typed, WellTyped, SessionIsUp, PromiseOrSession, Hanging
  <2>3. ~tun.disposed
    BY <1>3 DEF ConnCloses, Buried, Interred
  <2>4. Same(tun, t, {"conn", "via", "frozen"})
    BY <1>0 DEF DeleteConn, Same, Fields, WellTyped
  <2> HIDE DEF t
  <2>5. Buried(t)
    BY <2>3, <2>4 DEF Buried, BoundIsArmed, WaitsByKind, Interred, Same, Fields
  <2>6. QED
    BY <1>3, <2>2, <2>5, OnIdleCheckBuries DEF ConnCloses, t
<1>4. QED
  BY <1>1, <1>2, <1>3


(* The handshake a is over and its clients are told: relays start when t   *)
(* has adopted it as its session, and every client is dropped otherwise.   *)
Told(s, t, a, started) ==
  /\ t.connectPromise = None
  /\ \A b \in Attempts \ {a} :
       t.dial[b] = s.dial[b] /\ t.eager[b] = s.eager[b] /\ t.retry[b] = s.retry[b]
  /\ \A c \in Conns :
       IF s.via[c] = a
       THEN /\ t.conn[c] = IF s.conn[c] = "waiting" /\ started THEN "relay" ELSE "none"
            /\ t.via[c] = None
       ELSE t.conn[c] = s.conn[c] /\ t.via[c] = s.via[c]

Connected(s, t, a) ==
  /\ Same(s, t, {"connectPromise", "eager", "retry", "dial", "sshConnection", "forward",
                 "reconnectAttempts", "reconnecting", "state", "lingerTimer", "conn",
                 "frozen", "via"})
  /\ Told(s, t, a, ~s.disposed)
  /\ \A c \in Conns :
       t.frozen[c] = IF s.via[c] = a /\ s.conn[c] = "waiting" /\ ~s.disposed
                     THEN s.paused ELSE s.frozen[c]
  /\ IF s.disposed \/ s.dial[a] = "stale"
     THEN /\ t.dial[a] = "free" /\ Same(s, t, {"connectPromise", "eager", "retry", "dial", "conn", "frozen", "via"})
     ELSE /\ t.dial[a] = "up" /\ t.sshConnection = a /\ t.state = "connected"
          /\ t.lingerTimer <=>
               s.lingerTimer \/ (~s.paused /\ ~HoldsOpen(s) /\ Live(s) = {})

LEMMA ConnectOkEffect ==
  ASSUME WellTyped(tun), NEW a \in Attempts, ConnectOk(a)
  PROVE  Connected(tun, tun', a)
<1> DEFINE q == Forget(tun, a)
           p == [q EXCEPT !.dial[a] = "free"]
           k == [q EXCEPT !.sshConnection = a, !.dial[a] = "up", !.forward[a] = q.def.remote,
                          !.reconnectAttempts = 0, !.reconnecting = FALSE, !.state = "connected"]
           e == MaybeStartLinger(k)
           z == IF tun.disposed \/ tun.dial[a] = "stale" THEN p ELSE e
<1>1. /\ Same(tun, q, {"connectPromise", "eager", "retry"}) /\ q.connectPromise = None
      /\ \A b \in Attempts \ {a} : q.eager[b] = tun.eager[b] /\ q.retry[b] = tun.retry[b]
      /\ WellTyped(q)
  BY DEF Forget, Same, Fields, WellTyped
<1>2. tun' = StartRelays(z, a)
  BY DEF ConnectOk, Adopt
<1> HIDE DEF q
<1>3. /\ Same(q, p, {"dial"}) /\ p.dial[a] = "free" /\ WellTyped(p)
      /\ \A b \in Attempts \ {a} : p.dial[b] = q.dial[b]
  BY <1>1 DEF Same, Fields, WellTyped, DialPhases
<1>4. /\ Same(q, k, {"sshConnection", "dial", "forward", "reconnectAttempts", "reconnecting", "state"})
      /\ k.state = "connected" /\ k.sshConnection = a /\ k.dial[a] = "up"
      /\ \A b \in Attempts \ {a} : k.dial[b] = q.dial[b]
  BY <1>1 DEF Same, Fields, WellTyped
<1>5. WellTyped(k)
  <2>1. q.def.remote \in BOOLEAN /\ 0 \in 0..MaxReconnectAttempts
    BY <1>1, DefsAssumption, PolicyAssumption DEF WellTyped
  <2>2. QED
    BY <1>1, <2>1 DEF WellTyped, DialPhases, States
<1> HIDE DEF p, k
<1>6. /\ Same(k, e, {"lingerTimer"}) /\ WellTyped(e)
      /\ e.lingerTimer <=> k.lingerTimer \/ (~k.paused /\ ~HoldsOpen(k) /\ Live(k) = {})
  BY <1>4, <1>5, NoneAssumption DEF MaybeStartLinger, Same, Fields, WellTyped
<1>7. HoldsOpen(k) = HoldsOpen(tun) /\ Live(k) = Live(tun)
  BY <1>1, <1>4 DEF HoldsOpen, Live, Same, Fields
<1> HIDE DEF e
<1>8. /\ z.disposed = tun.disposed /\ z.paused = tun.paused /\ z.connectPromise = None
      /\ z.conn = tun.conn /\ z.via = tun.via /\ z.frozen = tun.frozen
      /\ \A b \in Attempts \ {a} :
           z.dial[b] = tun.dial[b] /\ z.eager[b] = tun.eager[b] /\ z.retry[b] = tun.retry[b]
      /\ Same(tun, z, {"connectPromise", "eager", "retry", "dial", "sshConnection", "forward",
                 "reconnectAttempts", "reconnecting", "state", "lingerTimer"})
      /\ WellTyped(z)
  BY <1>1, <1>3, <1>4, <1>6 DEF Same, Fields
<1>9. IF tun.disposed \/ tun.dial[a] = "stale"
      THEN z.dial[a] = "free" /\ Same(tun, z, {"connectPromise", "eager", "retry", "dial"})
      ELSE /\ z.dial[a] = "up" /\ z.sshConnection = a /\ z.state = "connected"
           /\ z.lingerTimer <=>
               tun.lingerTimer \/ (~tun.paused /\ ~HoldsOpen(tun) /\ Live(tun) = {})
  BY <1>1, <1>3, <1>4, <1>6, <1>7 DEF Same, Fields
<1> HIDE DEF z
<1>10. /\ Same(z, StartRelays(z, a), {"conn", "frozen", "via"})
       /\ \A c \in Conns :
            IF z.via[c] = a
            THEN /\ StartRelays(z, a).conn[c] = IF z.conn[c] = "waiting" /\ ~z.disposed THEN "relay" ELSE "none"
                 /\ StartRelays(z, a).via[c] = None
            ELSE StartRelays(z, a).conn[c] = z.conn[c] /\ StartRelays(z, a).via[c] = z.via[c]
       /\ \A c \in Conns :
            StartRelays(z, a).frozen[c] = IF z.via[c] = a /\ z.conn[c] = "waiting" /\ ~z.disposed
                              THEN z.paused ELSE z.frozen[c]
  BY <1>8 DEF StartRelays, Same, Fields, WellTyped
<1>11. Told(tun, tun', a, ~tun.disposed)
  BY <1>2, <1>8, <1>10 DEF Told, Same, Fields
<1>12. QED
  BY <1>2, <1>8, <1>9, <1>10, <1>11 DEF Connected, Same, Fields

LEMMA ConnectOkBuries ==
  ASSUME IInv, Buried(tun), NEW a \in Attempts, ConnectOk(a)
  PROVE  Buried(tun')
<1>1. Connected(tun, tun', a)
  BY ConnectOkEffect DEF IInv, Sound, Linked, Typed
<1>2. BoundIsArmed(tun') /\ WaitsByKind(tun')
  BY <1>1 DEF Connected, Buried, BoundIsArmed, WaitsByKind, Same, Fields
<1>3. Interred(tun')
  <2>1. tun.disposed => Live(tun') \subseteq Live(tun)
    BY <1>1 DEF Connected, Told, Live
  <2>2. QED
    BY <1>1, <2>1 DEF Connected, Buried, Interred, Same, Fields
<1>4. QED
  BY <1>2, <1>3 DEF Buried

Failed(s, t, a) ==
  \E q : /\ Same(s, q, {"connectPromise", "eager", "retry", "dial", "conn", "via"})
         /\ q.dial[a] = "free"
         /\ Told(s, q, a, FALSE)
         /\ Retried(q, t)
         /\ IF s.eager[a] \/ s.retry[a] \/ \E c \in Conns : s.via[c] = a
            THEN Answered(q, t) ELSE t = q

LEMMA RetriedBeside ==
  ASSUME NEW s, NEW t, NEW q, NEW u, Retried(s, t),
         Same(s, q, {"conn", "via"}), Same(t, u, {"conn", "via"}),
         q.conn = u.conn, q.via = u.via
  PROVE  Retried(q, u) /\ (Answered(s, t) => Answered(q, u))
<1>1. HoldsOpen(q) = HoldsOpen(s)
  BY DEF Same, Fields, HoldsOpen
<1>2. Same(q, u, {"reconnectAttempts", "reconnecting", "state", "reconnectTimer"})
  BY DEF Retried, Same, Fields
<1>3. QED
  BY <1>1, <1>2 DEF Retried, Answered, Same, Fields

LEMMA RetriedNot ==
  ASSUME NEW s
  PROVE  Retried(s, s)
BY DEF Retried, Same

LEMMA ConnectFailsEffect ==
  ASSUME IInv, NEW a \in Attempts, ConnectFails(a)
  PROVE  Failed(tun, tun', a)
<1> PICK limit \in RetryLimits : ConnectFails(a)!3!(limit)
  BY DEF ConnectFails
<1> DEFINE mine == {c \in Conns : tun.via[c] = a}
           Drop0(s) == [s EXCEPT !.conn = [c \in Conns |-> IF c \in mine THEN "none" ELSE @[c]],
                                 !.via = [c \in Conns |-> IF c \in mine THEN None ELSE @[c]]]
           p == Forget(tun, a)
           q == [p EXCEPT !.dial[a] = "free"]
           e == IF tun.eager[a] THEN FailConnect(q) ELSE q
           r == IF tun.retry[a] THEN OnReconnectFailed(e, limit) ELSE e
           w == Drop0(r)
           z == Drop0(q)
<1>0. WellTyped(tun)
  BY DEF IInv, Sound, Linked, Typed
<1>1. /\ Sound(p, None) /\ p.connectPromise = None /\ p.dial[a] # "up" /\ p.via = tun.via
      /\ Same(tun, p, {"connectPromise", "eager", "retry"})
      /\ \A b \in Attempts \ {a} : p.eager[b] = tun.eager[b] /\ p.retry[b] = tun.retry[b]
  <2>1. Sound(p, None) /\ p.connectPromise = None /\ p.dial[a] # "up" /\ p.via = tun.via
    BY ForgetKeeps DEF IInv, ConnectFails
  <2>2. /\ Same(tun, p, {"connectPromise", "eager", "retry"})
        /\ \A b \in Attempts \ {a} : p.eager[b] = tun.eager[b] /\ p.retry[b] = tun.retry[b]
    BY <1>0 DEF Forget, Same, Fields, WellTyped
  <2>3. QED
    BY <2>1, <2>2
<1>2. tun' = IF mine # {} THEN FailConnect(w) ELSE w
  BY DEF ConnectFails
<1> HIDE DEF p
<1>3. Sound(q, a) /\ q.via = tun.via
  BY <1>1, FreeingKeeps DEF Sound, Linked, Typed, WellTyped
<1>4. Same(p, q, {"dial"}) /\ q.dial[a] = "free" /\ \A b \in Attempts \ {a} : q.dial[b] = p.dial[b]
  BY <1>1 DEF Sound, Linked, Typed, WellTyped, Same, Fields
<1> HIDE DEF q
<1>5. /\ Sound(e, a) /\ e.via = tun.via
      /\ Retried(q, e) /\ (IF tun.eager[a] THEN Answered(q, e) ELSE e = q)
  BY <1>3, FailConnectKeeps, FailConnectEffect, RetriedNot
<1> HIDE DEF e
<1>6. /\ Sound(r, a) /\ r.via = tun.via
      /\ Retried(e, r) /\ (IF tun.retry[a] THEN Answered(e, r) ELSE r = e)
  BY <1>5, OnReconnectFailedKeeps, OnReconnectFailedEffect, RetriedNot
<1>7. Retried(q, r) /\ (tun.eager[a] \/ tun.retry[a] => Answered(q, r))
  BY <1>5, <1>6, RetriedTwice
<1> HIDE DEF r
<1>8. Sound(w, None)
  <2>1. Typed(w)
    BY <1>6 DEF Sound, Linked, Typed, WellTyped, ConnPhases
  <2>2. QED
    BY <1>6, <2>1 DEF Sound, Linked, Typed, WellTyped, SessionIsUp, PromiseOrSession,
                      Hanging, Current, PromiseIsCurrent, LingerHasSession
<1>9. Same(r, w, {"conn", "via"}) /\ Same(q, z, {"conn", "via"}) /\ z.conn = w.conn /\ z.via = w.via
  <2>1. r.conn = q.conn /\ r.via = q.via
    BY <1>7 DEF Retried, Same, Fields
  <2>2. WellTyped(q) /\ WellTyped(r)
    BY <1>3, <1>6 DEF Sound, Linked, Typed
  <2>3. ASSUME NEW s, WellTyped(s) PROVE Same(s, Drop0(s), {"conn", "via"})
    BY <2>3 DEF WellTyped, Same, Fields
  <2> HIDE DEF Drop0
  <2>4. Same(r, w, {"conn", "via"}) /\ Same(q, z, {"conn", "via"})
    BY <2>2, <2>3
  <2>5. /\ z.conn = [c \in Conns |-> IF c \in mine THEN "none" ELSE q.conn[c]]
        /\ z.via = [c \in Conns |-> IF c \in mine THEN None ELSE q.via[c]]
    BY <2>2 DEF Drop0, WellTyped
  <2>6. /\ w.conn = [c \in Conns |-> IF c \in mine THEN "none" ELSE r.conn[c]]
        /\ w.via = [c \in Conns |-> IF c \in mine THEN None ELSE r.via[c]]
    BY <2>2 DEF Drop0, WellTyped
  <2> HIDE DEF w, z, mine
  <2>7. QED
    BY <2>1, <2>4, <2>5, <2>6
<1>10. \A c \in Conns :
         IF tun.via[c] = a THEN z.conn[c] = "none" /\ z.via[c] = None
         ELSE z.conn[c] = tun.conn[c] /\ z.via[c] = tun.via[c]
  <2>1. WellTyped(q) /\ q.conn = tun.conn /\ q.via = tun.via
    BY <1>1, <1>3, <1>4 DEF Sound, Linked, Typed, Same, Fields
  <2>2. QED
    BY <2>1 DEF WellTyped
<1>11. ~tun.eager[a] /\ ~tun.retry[a] => w = z
  BY <1>5, <1>6
<1> HIDE DEF w, z
<1>12. Retried(z, w) /\ (tun.eager[a] \/ tun.retry[a] => Answered(z, w))
  BY <1>7, <1>9, RetriedBeside
<1>13. Retried(w, tun') /\ (mine # {} => Answered(w, tun'))
  BY <1>2, <1>8, FailConnectEffect, RetriedNot
<1>14. Retried(z, tun') /\ (tun.eager[a] \/ tun.retry[a] \/ mine # {} => Answered(z, tun'))
  BY <1>12, <1>13, RetriedTwice
<1>15. Same(tun, z, {"connectPromise", "eager", "retry", "dial", "conn", "via"}) /\ z.dial[a] = "free"
  BY <1>1, <1>4, <1>9 DEF Same, Fields
<1>16. Told(tun, z, a, FALSE)
  BY <1>1, <1>4, <1>9, <1>10 DEF Told, Same, Fields
<1>17. ~tun.eager[a] /\ ~tun.retry[a] /\ mine = {} => tun' = z
  BY <1>2, <1>11
<1>18. QED
  BY <1>14, <1>15, <1>16, <1>17 DEF Failed

LEMMA ConnectFailsBuries ==
  ASSUME IInv, Buried(tun), NEW a \in Attempts, ConnectFails(a)
  PROVE  Buried(tun')
<1>1. Failed(tun, tun', a)
  BY ConnectFailsEffect
<1> PICK q : /\ Same(tun, q, {"connectPromise", "eager", "retry", "dial", "conn", "via"})
             /\ Told(tun, q, a, FALSE) /\ Retried(q, tun')
  BY <1>1 DEF Failed
<1>2. Live(q) \subseteq Live(tun)
  BY DEF Told, Live
<1>3. Buried(q)
  BY <1>2 DEF Buried, BoundIsArmed, WaitsByKind, Interred, Same, Fields
<1>4. QED
  BY <1>3, RetriedBuries

LEMMA SessionsBury ==
  ASSUME IInv, Buried(tun), NEW a \in Attempts,
         Drop(a) \/ RemoteForwardOk(a) \/ RemoteForwardFails(a)
  PROVE  Buried(tun')
<1>0. WellTyped(tun) /\ Sound(tun, None)
  BY DEF IInv, Sound, Linked, Typed
<1>1. CASE Drop(a)
  <2> DEFINE q == [tun EXCEPT !.dial[a] = "free", !.forward[a] = FALSE]
             p == [q EXCEPT !.sshConnection = None]
             e == CancelLinger(FailAllConnections(p))
             g == [e EXCEPT !.state = "listening"]
  <2>1. Typed(p)
    BY <1>0 DEF Sound, Linked, Typed, WellTyped, DialPhases
  <2>2. Linked(p, None)
    BY <1>0, <1>1, <2>1 DEF Drop, Sound, Linked, Typed, WellTyped, SessionIsUp, PromiseOrSession,
                      Hanging, Current, PromiseIsCurrent
  <2>3. Buried(p) /\ Buried(q)
    BY <1>0 DEF WellTyped, Buried, BoundIsArmed, WaitsByKind, Interred, Live
  <2>4. tun' \in {q, AttemptReconnect(e), MaybeApplyPending(g)}
    BY <1>1 DEF Drop, HandleDrop
  <2> HIDE DEF p, q
  <2>5. Sound(e, None) /\ Buried(e)
    <3>1. Linked(FailAllConnections(p), None) /\ Buried(FailAllConnections(p))
      BY <2>2, <2>3, FailAllConnectionsKeeps, FailAllConnectionsBuries
    <3>2. Linked(e, None) /\ Same(FailAllConnections(p), e, {"lingerTimer"}) /\ ~e.lingerTimer
      BY <3>1, CancelLingerEffect
    <3>3. Current(e, None)
      <4>1. Current(p, None)
        BY <1>0, <1>1 DEF Drop, Sound, Linked, Typed, WellTyped, Current, PromiseIsCurrent, p, q
      <4>2. QED
        BY <2>2, <3>1, <4>1, FailAllConnectionsKeeps, CancelLingerKeeps
    <3> HIDE DEF e
    <3>4. Buried(e)
      BY <3>1, <3>2 DEF Buried, BoundIsArmed, WaitsByKind, Interred, Live, Same, Fields
    <3>5. QED
      BY <3>2, <3>3, <3>4 DEF Sound, LingerHasSession
  <2> HIDE DEF e
  <2>6. Buried(AttemptReconnect(e))
    BY <2>5, AttemptReconnectEffect, RetriedBuries
  <2>7. Linked(g, None) /\ Buried(g)
    <3>1. Linked(g, None)
      BY <2>5, StateKeeps DEF Sound, States
    <3>2. QED
      BY <2>5, <3>1 DEF Sound, Linked, Typed, WellTyped, Buried, BoundIsArmed, WaitsByKind, Interred, Live
  <2> HIDE DEF g
  <2>8. QED
    BY <2>3, <2>4, <2>6, <2>7, MaybeApplyPendingBuries
<1>2. CASE RemoteForwardOk(a)
  BY <1>0, <1>2 DEF RemoteForwardOk, WellTyped, Buried, BoundIsArmed, WaitsByKind, Interred, Live
<1>3. CASE RemoteForwardFails(a)
  <2> DEFINE q == [tun EXCEPT !.forward[a] = FALSE]
             d == DisposeSsh(q)
             r == CancelLinger(FailAllConnections(d))
             v == IF r.armed THEN "error" ELSE "disarmed"
             w == [r EXCEPT !.state = v]
  <2>1. Typed(q)
    BY <1>0 DEF Sound, Linked, Typed, WellTyped
  <2>2. Sound(q, None)
    BY <1>0, <2>1 DEF Sound, Linked, Typed, WellTyped, SessionIsUp, PromiseOrSession,
                      Hanging, Current, PromiseIsCurrent, LingerHasSession
  <2>3. Buried(q)
    BY <1>0 DEF WellTyped, Buried, BoundIsArmed, WaitsByKind, Interred, Live
  <2>4. tun' \in {q, AttemptReconnect(r), w}
    BY <1>3 DEF RemoteForwardFails
  <2> HIDE DEF q
  <2>5. Linked(d, None) /\ Current(d, None)
    BY <2>2, DisposeSshKeeps DEF Sound
  <2>6. Buried(d)
    BY <2>2, <2>3 DEF DisposeSsh, Sound, Linked, Typed, WellTyped, Buried, BoundIsArmed, WaitsByKind, Interred, Live
  <2> HIDE DEF d
  <2>7. Sound(r, None) /\ Buried(r)
    <3>1. Linked(FailAllConnections(d), None) /\ Buried(FailAllConnections(d))
      BY <2>5, <2>6, FailAllConnectionsKeeps, FailAllConnectionsBuries
    <3>2. Linked(r, None) /\ Same(FailAllConnections(d), r, {"lingerTimer"}) /\ ~r.lingerTimer
      BY <3>1, CancelLingerEffect
    <3>3. Current(r, None)
      BY <2>5, <3>1, FailAllConnectionsKeeps, CancelLingerKeeps
    <3> HIDE DEF r
    <3>4. Buried(r)
      BY <3>1, <3>2 DEF Buried, BoundIsArmed, WaitsByKind, Interred, Live, Same, Fields
    <3>5. QED
      BY <3>2, <3>3, <3>4 DEF Sound, LingerHasSession
  <2> HIDE DEF r
  <2>8. Buried(w)
    BY <2>7 DEF Sound, Linked, Typed, WellTyped, Buried, BoundIsArmed, WaitsByKind, Interred, Live
  <2>9. QED
    BY <2>3, <2>4, <2>7, <2>8, AttemptReconnectEffect, RetriedBuries
<1>4. QED
  BY <1>1, <1>2, <1>3

LEMMA TimersBury ==
  ASSUME IInv, Buried(tun), RetryFires \/ LingerFires
  PROVE  Buried(tun')
<1>0. WellTyped(tun) /\ Sound(tun, None)
  BY DEF IInv, Sound, Linked, Typed
<1>1. CASE RetryFires
  <2> DEFINE q == [tun EXCEPT !.reconnectTimer = FALSE]
  <2>1. Typed(q)
    BY <1>0 DEF Sound, Linked, Typed, WellTyped
  <2>2. Sound(q, None)
    BY <1>0, <2>1 DEF Sound, Linked, Typed, WellTyped, SessionIsUp, PromiseOrSession,
                Hanging, Current, PromiseIsCurrent, LingerHasSession
  <2>3. \/ tun' = q
        \/ /\ ~q.disposed
           /\ \E a \in FreeAttempts(q) :
             LET r == EnsureConnected(q, a)
             IN tun' = IF r.sshConnection # None THEN r
                       ELSE [r EXCEPT !.retry[r.connectPromise] = TRUE]
    BY <1>1 DEF RetryFires
  <2>4. Buried(q)
    BY <1>0 DEF WellTyped, Buried, BoundIsArmed, WaitsByKind, Interred, Live
  <2> HIDE DEF q
  <2>5. ASSUME NEW a \in FreeAttempts(q), ~q.disposed
        PROVE  LET r == EnsureConnected(q, a)
               IN Buried(r) /\ Buried([r EXCEPT !.retry[r.connectPromise] = TRUE])
    <3> DEFINE r == EnsureConnected(q, a)
               t == [r EXCEPT !.retry[r.connectPromise] = TRUE]
    <3>1. Buried(r) /\ WellTyped(r)
      BY <2>2, <2>4, <2>5, EnsureConnectedEffect, DialedBuries DEF Sound, Linked, Typed
    <3> HIDE DEF r
    <3>2. Buried(t)
      BY <3>1 DEF WellTyped, Buried, BoundIsArmed, WaitsByKind, Interred, Live
    <3>3. QED
      BY <3>1, <3>2 DEF r
  <2>6. QED
    BY <2>3, <2>4, <2>5
<1>2. CASE LingerFires
  <2> DEFINE q == CancelLinger(tun)
             p == DisposeSsh(q)
             t == [p EXCEPT !.state = "listening"]
  <2>1. Linked(q, None) /\ Same(tun, q, {"lingerTimer"}) /\ ~q.lingerTimer
    BY <1>0, CancelLingerEffect DEF Sound
  <2>2. tun' = q \/ tun' = MaybeApplyPending(t)
    BY <1>2 DEF LingerFires
  <2> HIDE DEF q
  <2>3. Buried(q)
    BY <2>1 DEF Buried, BoundIsArmed, WaitsByKind, Interred, Live, Same, Fields
  <2>4. Linked(p, None)
    BY <2>1, DisposeSshKeeps
  <2>5. Buried(p)
    BY <2>1, <2>3 DEF DisposeSsh, Linked, Typed, WellTyped, Buried, BoundIsArmed, WaitsByKind, Interred, Live
  <2> HIDE DEF p
  <2>6. Typed(t)
    BY <2>4 DEF Linked, Typed, WellTyped, States
  <2>7. Linked(t, None) /\ Buried(t)
    BY <2>4, <2>5, <2>6 DEF Linked, Typed, WellTyped, SessionIsUp, PromiseOrSession, Hanging,
          Buried, BoundIsArmed, WaitsByKind, Interred, Live
  <2> HIDE DEF t
  <2>8. QED
    BY <2>2, <2>3, <2>7, MaybeApplyPendingBuries
<1>3. QED
  BY <1>1, <1>2

LEMMA NextBuries == IInv /\ Buried(tun) /\ [Next]_vars => Buried(tun')
<1> SUFFICES ASSUME IInv, Buried(tun), [Next]_vars PROVE Buried(tun')
  OBVIOUS
<1>1. CASE UNCHANGED vars
  BY <1>1 DEF vars
<1>2. CASE Next
  BY <1>2, CallsBury, FramesBury, SocketsBury, ClientsBury, ConnectOkBuries,
     ConnectFailsBuries, SessionsBury, TimersBury DEF Next
<1>3. QED
  BY <1>1, <1>2

(* Under any overlap of calls, drops, answers and timers a disposed tunnel *)
(* is inert: no call suspended across dispose() arms the dead object, no   *)
(* timer of it is set, and once the calls have run out it has no listener  *)
(* and no stashed edit.                                                    *)
THEOREM BuriedForGood == Spec => []DisposedIsInert
<1>1. Init => Buried(tun)
  BY DEF Init, NewTunnel, Buried, BoundIsArmed, WaitsByKind, Interred
<1>2. Buried(tun) => DisposedIsInert
  BY DEF Buried, Interred, DisposedIsInert
<1>3. Buried(tun) /\ IInv /\ [Next]_vars => Buried(tun)'
  BY NextBuries
<1>4. QED
  BY <1>1, <1>2, <1>3, Inductive, PTL DEF Spec

-----------------------------------------------------------------------------
(* Until a start or an edit meets a suspended call.  Stops may land on one: *)
(* disarm() and dispose() suspend beside it.  Orderly is the object's      *)
(* invariant, and Handled what a method that is no engine call makes of an *)
(* orderly tunnel.                                                         *)

(* The tunnel is down under a suspended call.  One that started it or edits *)
(* it is alone, but for stops that have landed on it: they found no socket *)
(* bound and have nothing to wait for.                                     *)
OneCall(s) ==
  /\ s.frames # {} => ~s.armed
  /\ ~s.disposed =>
       \A f, g \in s.frames : f # g /\ f.kind \in {"arm", "reapply"} =>
         f.pc # "settling" /\ g.pc = "settling"
  /\ \A f \in s.frames :
       /\ f.pc = "binding" <=> f.kind = "arm"
       /\ f.kind = "arm" =>
            /\ f.sock \in Socks
            /\ ~s.disposed => s.sock[f.sock].phase = "binding" /\ s.sock[f.sock].port = s.def.port
       /\ f.kind = "dispose" => s.disposed

(* Down but for the listener a call is about to forget.                    *)
DownWhenUnarmed(s) ==
  /\ ~s.armed =>
       /\ s.sshConnection = None /\ Live(s) = {} /\ ~s.lingerTimer
       /\ \A a \in Attempts : s.dial[a] # "dialing"
       /\ s.listener # None => \E f \in s.frames : f.pc # "binding"
  /\ s.armed => s.state # "disarmed"

OwnsPorts(s) ==
  \A l \in Socks : s.sock[l].phase = "bound" =>
    s.armed /\ s.listener = l /\ s.sock[l].port = s.def.port

FlowsWell(s) ==
  \A c \in Conns : IF s.conn[c] = "relay" THEN s.frozen[c] <=> s.paused ELSE ~s.frozen[c]

IdleTimed(s) == s.lingerTimer => Live(s) = {} /\ ~HoldsOpen(s)

Attached(s) == \A c \in Conns : s.via[c] # None => s.conn[c] \in {"waiting", "gone"}

Orderly(s) ==
  /\ OneCall(s)
  /\ DownWhenUnarmed(s)
  /\ OwnsPorts(s)
  /\ FlowsWell(s)
  /\ IdleTimed(s)
  /\ Attached(s)

(* The edit is still stashed or has been handed to a re-apply.             *)
EditKept(s, t) ==
  /\ t.def = s.def
  /\ t.pendingDef # s.pendingDef =>
       /\ s.frames = {} /\ t.pendingDef = None
       /\ \E f \in t.frames : f.kind = "reapply" /\ f.next = s.pendingDef

(* A teardown, on suspended calls or on none.                              *)
LEMMA TornOrders ==
  ASSUME NEW s, NEW t, WellTyped(s), Torn(s, t),
         OwnsPorts(s), FlowsWell(s), Attached(s),
         OneCall(t), \E f \in t.frames : f.pc # "binding"
  PROVE  Orderly(t)
<1>0. Torn(s, t)
  OBVIOUS
<1>1. /\ t.def = s.def /\ t.listener = s.listener /\ t.disposed = s.disposed
      /\ t.paused = s.paused /\ ~t.armed /\ t.sshConnection = None /\ ~t.lingerTimer
  BY ONLY <1>0 DEF Torn, Same, Fields
<1>2. Live(t) = {}
  BY ONLY <1>0 DEF Torn, Live
<1>3. DownWhenUnarmed(t)
  <2>1. \A a \in Attempts : t.dial[a] # "dialing"
    BY ONLY <1>0 DEF Torn
  <2>2. QED
    BY <1>1, <1>2, <2>1 DEF DownWhenUnarmed
<1>4. OwnsPorts(t)
  <2>1. ASSUME NEW l \in Socks PROVE t.sock[l].phase # "bound"
    <3>1. t.sock[l] = IF l = s.listener /\ s.sock[l].phase = "bound"
                      THEN [phase |-> "closing", port |-> s.sock[l].port] ELSE s.sock[l]
      BY ONLY <1>0, l \in Socks DEF Torn, Stopped
    <3>2. s.sock[l].phase = "bound" => s.listener = l
      BY DEF OwnsPorts
    <3>3. QED
      BY ONLY <3>1, <3>2
  <2>2. QED
    BY <2>1 DEF OwnsPorts
<1>5. FlowsWell(t) /\ Attached(t)
  <2>1. ASSUME NEW c \in Conns
        PROVE  /\ t.conn[c] # "relay" /\ ~t.frozen[c]
               /\ t.via[c] # None => t.conn[c] \in {"waiting", "gone"}
    <3>1. /\ t.conn[c] = IF s.conn[c] \in {"waiting", "gone"} THEN "gone" ELSE "none"
          /\ t.via[c] = IF s.conn[c] = "relay" THEN None ELSE s.via[c]
          /\ t.frozen[c] => s.frozen[c] /\ s.conn[c] # "relay"
      BY ONLY <1>0, c \in Conns DEF Torn
    <3>2. QED
      BY <3>1 DEF FlowsWell, Attached
  <2>2. QED
    BY <2>1 DEF FlowsWell, Attached
<1>6. QED
  BY <1>1, <1>3, <1>4, <1>5 DEF Orderly, IdleTimed

LEMMA TeardownOrders ==
  ASSUME NEW s, NEW x, Linked(s, x), Quiet(s), OneCall(s),
         s.frames # {} => Live(s) = {},
         OwnsPorts(s), FlowsWell(s), Attached(s),
         NEW kind \in {"disarm", "dispose", "reapply"},
         NEW next \in Defs \cup {None}, kind = "reapply" => next \in Defs,
         kind = "dispose" => s.disposed,
         kind = "reapply" => s.frames = {},
         s.disposed \/ s.pendingDef = None
  PROVE  LET t == Teardown(s, kind, next)
         IN  /\ Orderly(t) /\ EditKept(s, t) /\ t.disposed = s.disposed
             /\ \E f \in t.frames : f.kind = kind /\ f.next = next
             /\ \A f \in t.frames \ s.frames : f.kind = kind \/ s.disposed
             /\ t.frames # {}
             /\ ~t.armed /\ t.sshConnection = None /\ Live(t) = {}
             /\ t.pendingDef # None => s.pendingDef # None
<1> DEFINE t == Teardown(s, kind, next)
<1>1. TornFor(s, t, kind, next)
  BY TeardownEffect
<1> HIDE DEF t
<1>2. WellTyped(s)
  BY DEF Linked, Typed
<1>3. Torn(s, t)
  BY <1>1 DEF TornFor
<1>4. PICK f : /\ Suspended(s, f, kind, next)
               /\ \/ t.pendingDef = s.pendingDef /\ t.frames = s.frames \cup {f}
                  \/ /\ Live(s) # {} /\ s.pendingDef \in Defs /\ t.pendingDef = None
                     /\ t.frames = s.frames \cup {f, Frame(s, "reapply", s.pendingDef)}
  BY <1>1 DEF TornFor
<1>5. /\ f.kind = kind /\ f.next = next /\ f.pc # "binding"
      /\ s.frames # {} => f.pc = "settling"
  BY <1>4 DEF Suspended, OwnsPorts, OneCall, Linked, Typed, WellTyped
<1> DEFINE g == Frame(s, "reapply", s.pendingDef)
<1>6. g.kind = "reapply" /\ g.next = s.pendingDef /\ g.pc # "binding"
  BY DEF Frame
<1> HIDE DEF g
<1>7. \/ t.pendingDef = s.pendingDef /\ t.frames = s.frames \cup {f}
      \/ /\ s.disposed /\ t.pendingDef = None /\ s.frames = {} /\ t.frames = {f, g}
         /\ s.pendingDef \in Defs
  BY <1>4, NoneAssumption DEF g
<1>8. OneCall(t)
  <2>1. /\ ~t.armed /\ t.disposed = s.disposed /\ t.def = s.def
        /\ \A l \in Socks : s.sock[l].phase = "binding" => t.sock[l] = s.sock[l]
    BY <1>3 DEF Torn, Same, Fields, Stopped
  <2>2. ASSUME NEW h \in t.frames
        PROVE  /\ h.pc = "binding" <=> h.kind = "arm"
               /\ h.kind = "arm" =>
                    /\ h.sock \in Socks
                    /\ ~t.disposed => t.sock[h.sock].phase = "binding" /\ t.sock[h.sock].port = t.def.port
               /\ h.kind = "dispose" => t.disposed
    BY <1>5, <1>6, <1>7, <2>1 DEF OneCall
  <2>3. ASSUME ~t.disposed, NEW h \in t.frames, NEW k \in t.frames,
               h # k, h.kind \in {"arm", "reapply"}
        PROVE  h.pc # "settling" /\ k.pc = "settling"
    <3>1. t.frames = s.frames \cup {f} /\ ~s.disposed
      BY <1>7, <2>1, <2>3
    <3>2. h # f /\ h \in s.frames
      BY <1>5, <2>3, <3>1
    <3>3. h.pc # "settling"
      BY <3>2 DEF Quiet
    <3>4. k \in s.frames => k.pc = "settling"
      BY <2>3, <3>1, <3>2 DEF OneCall
    <3>5. QED
      BY <1>5, <3>1, <3>2, <3>3, <3>4
  <2>4. QED
    BY <2>1, <2>2, <2>3 DEF OneCall
<1>9. Orderly(t)
  BY <1>2, <1>3, <1>5, <1>7, <1>8, TornOrders
<1>10. t.disposed = s.disposed /\ t.def = s.def /\ ~t.armed /\ t.sshConnection = None
  BY <1>3 DEF Torn, Same, Fields
<1>11. EditKept(s, t)
  BY <1>6, <1>7, <1>10 DEF EditKept
<1>12. Live(t) = {}
  BY <1>3 DEF Torn, Live
<1>13. QED
  BY <1>5, <1>7, <1>10, <1>11, <1>12, <1>9 DEF t

LEMMA ReapplyingOrders ==
  ASSUME NEW s, NEW d, NEW t, WellTyped(s), Reapplying(s, t, d), s.frames = {},
         OwnsPorts(s), FlowsWell(s), Attached(s)
  PROVE  /\ Orderly(t) /\ t.def = s.def
         /\ \E f \in t.frames : f.kind = "reapply" /\ f.next = d
         /\ \A f \in t.frames : f.kind = "reapply" /\ f.next = d
         /\ ~t.armed /\ t.sshConnection = None /\ Live(t) = {}
<1> DEFINE f == Frame(s, "reapply", d)
<1>1. f.kind = "reapply" /\ f.next = d /\ f.pc # "binding"
  BY DEF Frame
<1>2. Torn(s, t) /\ t.frames = {f}
  BY DEF Reapplying
<1> HIDE DEF f
<1>3. OneCall(t)
  BY <1>1, <1>2 DEF OneCall, Torn
<1>4. Orderly(t)
  BY <1>1, <1>2, <1>3, TornOrders
<1>5. t.def = s.def /\ Live(t) = {} /\ ~t.armed /\ t.sshConnection = None
  BY <1>2 DEF Torn, Same, Fields, Live
<1>6. QED
  BY <1>1, <1>2, <1>4, <1>5

(* Nothing is stashed, or the tunnel is armed and nobody is calling it.    *)
MayTakeEdit(s) == s.armed \/ s.pendingDef = None

(* What a turn that may take up the edit guarantees.                       *)
Handled(s, t) ==
  /\ Orderly(t) /\ EditKept(s, t)
  /\ MayTakeEdit(s) => MayTakeEdit(t)
  /\ t.disposed = s.disposed
  /\ t.armed => s.armed
  /\ t.pendingDef # None => s.pendingDef # None
  /\ s.frames # {} => t.frames = s.frames
  /\ t.armed => t.frames = s.frames
  /\ \A f \in t.frames \ s.frames : s.armed /\ f.kind = "reapply"
  /\ \A f \in s.frames : f \in t.frames

LEMMA HandledTwice ==
  ASSUME NEW s, NEW t, NEW u, Handled(s, t), Handled(t, u)
  PROVE  Handled(s, u)
BY DEF Handled, EditKept, MayTakeEdit

LEMMA MaybeStartLingerOrders ==
  ASSUME NEW s, NEW x, Linked(s, x), Orderly(s)
  PROVE  Handled(s, MaybeStartLinger(s))
<1> DEFINE t == MaybeStartLinger(s)
<1>1. /\ Same(s, t, {"lingerTimer"})
      /\ t.lingerTimer <=>
              \/ s.lingerTimer
              \/ /\ ~s.paused /\ ~HoldsOpen(s) /\ Live(s) = {}
                 /\ s.sshConnection # None
  BY MaybeStartLingerEffect
<1> HIDE DEF t
<1>2. Live(t) = Live(s) /\ HoldsOpen(t) = HoldsOpen(s)
  BY <1>1 DEF Live, HoldsOpen, Same, Fields
<1>3. Orderly(t)
  BY <1>1, <1>2 DEF Orderly, OneCall, DownWhenUnarmed, OwnsPorts, FlowsWell, IdleTimed, Attached,
                    Same, Fields
<1>4. QED
  BY <1>1, <1>3 DEF Handled, EditKept, MayTakeEdit, Same, Fields, t

LEMMA AppliedOrders ==
  ASSUME NEW s, NEW t, WellTyped(s), Orderly(s), s.armed, Applied(s, t)
  PROVE  Handled(s, t)
<1>1. s.frames = {} /\ OwnsPorts(s) /\ FlowsWell(s) /\ Attached(s)
  BY DEF Orderly, OneCall
<1>2. Reapplying(s, t, s.pendingDef) /\ t.pendingDef = None /\ s.pendingDef # None
  BY NoneAssumption DEF Applied
<1>3. /\ Orderly(t) /\ t.def = s.def /\ ~t.armed
      /\ \E f \in t.frames : f.kind = "reapply" /\ f.next = s.pendingDef
      /\ \A f \in t.frames : f.kind = "reapply"
  BY <1>1, <1>2, ReapplyingOrders
<1>4. t.disposed = s.disposed
  BY <1>2 DEF Reapplying, Torn, Same, Fields
<1>5. QED
  BY <1>1, <1>2, <1>3, <1>4 DEF Handled, EditKept, MayTakeEdit

LEMMA OrderlyStays ==
  ASSUME NEW s, Orderly(s)
  PROVE  Handled(s, s)
BY DEF Handled, EditKept

LEMMA MaybeApplyPendingOrders ==
  ASSUME NEW s, NEW x, Linked(s, x), Orderly(s), MayTakeEdit(s)
  PROVE  Handled(s, MaybeApplyPending(s))
<1>1. WellTyped(s)
  BY DEF Linked, Typed
<1>2. Applied(s, MaybeApplyPending(s)) => s.armed
  BY NoneAssumption DEF Applied, MayTakeEdit
<1>3. QED
  BY <1>1, <1>2, MaybeApplyPendingEffect, AppliedOrders, OrderlyStays

LEMMA OnIdleCheckOrders ==
  ASSUME NEW s, NEW x, Linked(s, x), Orderly(s), MayTakeEdit(s)
  PROVE  Handled(s, OnIdleCheck(s))
<1>1. WellTyped(s)
  BY DEF Linked, Typed
<1>2. Applied(s, OnIdleCheck(s)) => s.armed
  BY NoneAssumption DEF Applied, MayTakeEdit
<1>3. QED
  BY <1>1, <1>2, OnIdleCheckEffect, AppliedOrders, MaybeStartLingerOrders

LEMMA FailAllConnectionsOrders ==
  ASSUME NEW s, NEW x, Linked(s, x), Orderly(s), MayTakeEdit(s)
  PROVE  Handled(s, FailAllConnections(s))
<1> DEFINE q == ClearConns(s)
<1>1. Linked(q, x) /\ Cleared(s, q)
  BY ClearConnsEffect
<1>2. FailAllConnections(s) = q \/ FailAllConnections(s) = OnIdleCheck(q)
  BY DEF FailAllConnections
<1> HIDE DEF q
<1>3. Orderly(q)
  <2>1. HoldsOpen(q) = HoldsOpen(s)
    BY <1>1 DEF Cleared, HoldsOpen, Same, Fields
  <2>2. FlowsWell(q) /\ Attached(q)
    BY <1>1 DEF Orderly, FlowsWell, Attached, Cleared
  <2>3. QED
    BY <1>1, <2>1, <2>2 DEF Orderly, OneCall, DownWhenUnarmed, OwnsPorts, IdleTimed,
                    Cleared, Same, Fields
<1>4. Handled(s, q) /\ MayTakeEdit(q)
  BY <1>1, <1>3 DEF Cleared, Handled, EditKept, MayTakeEdit, Same, Fields
<1>5. QED
  BY <1>1, <1>2, <1>3, <1>4, OnIdleCheckOrders, HandledTwice

(* A turn that touches neither calls, clients nor the listener, and takes  *)
(* at most the session away.                                               *)
LEMMA EasedOrders ==
  ASSUME NEW s, NEW t, Orderly(s),
         Same(s, t, {"lingerTimer", "state", "sshConnection", "connectPromise", "dial", "eager",
                     "retry", "forward", "reconnectTimer", "reconnectAttempts", "reconnecting"}),
         t.lingerTimer => s.lingerTimer,
         s.armed => t.state # "disarmed",
         ~s.armed => t.sshConnection = None /\ \A a \in Attempts : t.dial[a] # "dialing"
  PROVE  Handled(s, t)
<1>1. Live(t) = Live(s) /\ HoldsOpen(t) = HoldsOpen(s)
  BY DEF Live, HoldsOpen, Same, Fields
<1>2. Orderly(t)
  BY <1>1 DEF Orderly, OneCall, DownWhenUnarmed, OwnsPorts, FlowsWell, IdleTimed, Attached,
              Same, Fields
<1>3. QED
  BY <1>2 DEF Handled, EditKept, MayTakeEdit, Same, Fields

LEMMA RetriedOrders ==
  ASSUME NEW s, NEW t, Orderly(s), Retried(s, t)
  PROVE  Handled(s, t)
<1>1. /\ Same(s, t, {"lingerTimer", "state", "sshConnection", "connectPromise", "dial", "eager",
                     "retry", "forward", "reconnectTimer", "reconnectAttempts", "reconnecting"})
      /\ t.lingerTimer = s.lingerTimer /\ t.sshConnection = s.sshConnection /\ t.dial = s.dial
  BY DEF Retried, Same, Fields
<1>2. s.armed => t.state # "disarmed"
  BY DEF Retried, Orderly, DownWhenUnarmed
<1>3. QED
  BY <1>1, <1>2, EasedOrders DEF Orderly, DownWhenUnarmed

-----------------------------------------------------------------------------
(* The order of calls over the whole state.                                *)

(* Who does not want the tunnel up has nothing under way that arms it.     *)
Heeded ==
  /\ wanted = "down" => /\ ~tun.armed
                        /\ tun.disposed \/ Starters(tun) = {}
                        /\ tun.pendingDef # None => tun.disposed
  /\ tun.disposed => wanted = "down"

Ordered == IInv /\ Buried(tun) /\ Orderly(tun) /\ Heeded

SInv == IInv /\ Buried(tun) /\ (~crossed => Orderly(tun) /\ Heeded)

(* What every step must show.                                              *)
InOrder == Orderly(tun') /\ Heeded' /\ EditIsUsedOnce /\ EditWaitsForTeardown

LEMMA HandledInOrder ==
  ASSUME Ordered, Handled(tun, tun'), UNCHANGED <<saved, wanted>>
  PROVE  InOrder
<1>1. Orderly(tun')
  BY DEF Handled
<1>2. Heeded'
  BY DEF Ordered, Heeded, Handled, Starters, WillArm, Orderly, OneCall
<1>3. EditIsUsedOnce
  BY DEF Handled, EditKept, EditIsUsedOnce
<1>4. EditWaitsForTeardown
  BY DEF Handled, EditKept, EditWaitsForTeardown, ConnectionAffectingChange
<1>5. QED
  BY <1>1, <1>2, <1>3, <1>4 DEF InOrder

(* What a start finds.                                                     *)
LEMMA DownAtRest ==
  ASSUME NEW s, WellTyped(s), Orderly(s), ~s.armed, s.frames = {}
  PROVE  /\ s.sshConnection = None /\ Live(s) = {} /\ ~s.lingerTimer /\ s.listener = None
         /\ \A l \in Socks : s.sock[l].phase # "bound"
         /\ \A c \in Conns : s.conn[c] # "relay" /\ ~s.frozen[c]
<1>1. s.sshConnection = None /\ Live(s) = {} /\ ~s.lingerTimer /\ s.listener = None
  BY DEF Orderly, DownWhenUnarmed
<1>2. \A l \in Socks : s.sock[l].phase # "bound"
  BY DEF Orderly, OwnsPorts
<1>3. \A c \in Conns : s.conn[c] # "relay"
  BY <1>1 DEF Live
<1>4. QED
  BY <1>1, <1>2, <1>3 DEF Orderly, FlowsWell

LEMMA DialedOrders ==
  ASSUME NEW s, NEW t, Orderly(s), s.armed, Dialed(s, t)
  PROVE  Orderly(t) /\ t.armed /\ t.frames = s.frames /\ t.disposed = s.disposed
         /\ t.def = s.def /\ t.pendingDef = s.pendingDef /\ t.sshConnection = s.sshConnection
         /\ t.conn = s.conn
<1>1. Same(s, t, {"state", "connectPromise", "dial"}) /\ (t.state = s.state \/ t.state = "connecting")
  BY DEF Dialed, Same, Fields
<1>2. Live(t) = Live(s) /\ HoldsOpen(t) = HoldsOpen(s)
  BY <1>1 DEF Live, HoldsOpen, Same, Fields
<1>3. Orderly(t)
  BY <1>1, <1>2 DEF Orderly, OneCall, DownWhenUnarmed, OwnsPorts, FlowsWell, IdleTimed, Attached,
                    Same, Fields
<1>4. QED
  BY <1>1, <1>3 DEF Same, Fields

LEMMA DialedEagerlyOrders ==
  ASSUME NEW s, NEW t, Orderly(s), s.armed, DialedEagerly(s, t)
  PROVE  Orderly(t) /\ t.armed /\ t.frames = s.frames /\ t.disposed = s.disposed
         /\ t.def = s.def /\ t.pendingDef = s.pendingDef /\ t.sshConnection = s.sshConnection
         /\ t.conn = s.conn
<1> PICK q : DialedEagerly(s, t)!(q)
  BY DEF DialedEagerly
<1>1. /\ Orderly(q) /\ q.armed /\ q.frames = s.frames /\ q.disposed = s.disposed
      /\ q.def = s.def /\ q.pendingDef = s.pendingDef /\ q.sshConnection = s.sshConnection
      /\ q.conn = s.conn
  BY DialedOrders
<1>2. Same(q, t, {"eager"})
  BY DEF Same
<1>3. Live(t) = Live(q) /\ HoldsOpen(t) = HoldsOpen(q)
  BY <1>2 DEF Live, HoldsOpen, Same, Fields
<1>4. Orderly(t)
  BY ONLY <1>1, <1>2, <1>3 DEF Orderly, OneCall, DownWhenUnarmed, OwnsPorts, FlowsWell, IdleTimed,
                    Attached, Same, Fields
<1>5. QED
  BY ONLY <1>1, <1>2, <1>4 DEF Same, Fields

LEMMA ArmingOrders ==
  ASSUME NEW s, NEW t, WellTyped(s), Orderly(s), ~s.armed, ~s.disposed, s.frames = {}, Arming(s, t)
  PROVE  /\ Orderly(t) /\ t.def = s.def /\ t.pendingDef = s.pendingDef /\ t.disposed = s.disposed
         /\ t.sshConnection = None /\ Live(t) = {}
<1>0. /\ s.sshConnection = None /\ Live(s) = {} /\ ~s.lingerTimer /\ s.listener = None
      /\ \A l \in Socks : s.sock[l].phase # "bound"
      /\ \A c \in Conns : s.conn[c] # "relay" /\ ~s.frozen[c]
  BY DownAtRest
<1>1. CASE s.def.remote
  <2> PICK q : /\ Sound(q, None) /\ DialedEagerly(q, t)
               /\ Same(s, q, {"paused", "armed", "state"})
               /\ ~q.paused /\ q.armed /\ q.state = "listening"
    BY <1>1 DEF Arming
  <2>1. Live(q) = {}
    BY <1>0 DEF Live, Same, Fields
  <2>2. FlowsWell(q)
    BY <1>0 DEF FlowsWell, Same, Fields
  <2>3. Orderly(q)
    BY <1>0, <2>1, <2>2 DEF Orderly, OneCall, DownWhenUnarmed, OwnsPorts, IdleTimed,
                      Attached, Same, Fields
  <2>4. /\ Orderly(t) /\ t.frames = q.frames /\ t.disposed = q.disposed
        /\ t.def = q.def /\ t.pendingDef = q.pendingDef /\ t.sshConnection = q.sshConnection
        /\ t.conn = q.conn
    BY <2>3, DialedEagerlyOrders
  <2>5. QED
    BY <1>0, <2>1, <2>4 DEF Same, Fields, Live
<1>2. CASE ~s.def.remote
  <2> DEFINE frame(l) == [kind |-> "arm", pc |-> "binding", sock |-> l, next |-> None]
  <2> PICK l \in Socks :
            /\ s.sock[l].phase = "free"
            /\ t.frames = s.frames \cup {frame(l)}
            /\ \A k \in Socks :
                 t.sock[k] = IF k = l THEN [phase |-> "binding", port |-> s.def.port] ELSE s.sock[k]
    BY <1>2 DEF Arming
  <2>1. Same(s, t, {"paused", "sock", "frames"}) /\ ~t.paused
    BY <1>2 DEF Arming
  <2>2. Live(t) = {} /\ HoldsOpen(t) = HoldsOpen(s)
    BY <1>0, <2>1 DEF Live, HoldsOpen, Same, Fields
  <2>3. FlowsWell(t)
    BY <1>0, <2>1 DEF FlowsWell, Same, Fields
  <2>4. t.frames = {frame(l)} /\ t.sock[l].phase = "binding" /\ t.sock[l].port = t.def.port
    BY <2>1 DEF Same, Fields
  <2>5. OneCall(t)
    BY <2>1, <2>4 DEF OneCall, Same, Fields
  <2>6. OwnsPorts(t)
    <3>1. \A k \in Socks : t.sock[k].phase # "bound"
      BY <1>0
    <3>2. QED
      BY <3>1 DEF OwnsPorts
  <2>7. DownWhenUnarmed(t) /\ IdleTimed(t) /\ Attached(t)
    BY <1>0, <2>1, <2>2 DEF Orderly, DownWhenUnarmed, IdleTimed, Attached, Same, Fields
  <2>8. QED
    BY <1>0, <2>1, <2>2, <2>3, <2>5, <2>6, <2>7 DEF Orderly, Same, Fields
<1>3. QED
  BY <1>1, <1>2

LEMMA ArmTunnelOrders ==
  ASSUME NEW s, Sound(s, None), Orderly(s), ~s.armed, s.frames = {},
         NEW l \in FreeSocks(s), NEW a \in FreeAttempts(s)
  PROVE  LET t == ArmTunnel(s, l, a)
         IN  /\ Orderly(t) /\ t.def = s.def /\ t.pendingDef = s.pendingDef /\ t.disposed = s.disposed
             /\ t.sshConnection = None /\ Live(t) = {}
<1>1. WellTyped(s)
  BY DEF Sound, Linked, Typed
<1>2. s.listener = None /\ s.sshConnection = None /\ Live(s) = {}
  BY <1>1, DownAtRest
<1>3. CASE s.disposed
  BY <1>2, <1>3 DEF ArmTunnel
<1>4. CASE ~s.disposed
  BY <1>1, <1>2, <1>4, ArmUnboundEffect, ArmingOrders DEF ArmTunnel
<1>5. QED
  BY <1>3, <1>4

LEMMA ReconcileInOrder ==
  ASSUME Ordered, ~crossed', NEW d \in Defs, Reconcile(d)
  PROVE  InOrder
<1> DEFINE q == ApplyDefinition(tun, d)
<1>0. WellTyped(tun) /\ Sound(tun, None) /\ Linked(tun, None) /\ Orderly(tun)
  BY DEF Ordered, IInv, Sound, Linked, Typed
<1>1. ~tun.disposed /\ saved' = d /\ wanted' = (IF d.enabled THEN "up" ELSE wanted)
  BY DEF Reconcile
<1>2. Sound(q, None)
  BY <1>0, ApplyDefinitionKeeps
<1>3. \/ tun' = q
      \/ /\ ReportedState(q) = "disarmed" /\ tun.frames = {} /\ wanted' = "up"
         /\ \E l \in FreeSocks(q), a \in FreeAttempts(q) : tun' = ArmTunnel(q, l, a)
  BY DEF Reconcile
<1>4. ConnectionAffectingChange(tun.def, d) => tun.frames = {}
  BY DEF Reconcile
<1>5. wanted' = "down" => wanted = "down" /\ (wanted # "up")
  BY <1>1
<1> HIDE DEF q
(* The edit is taken as it is.                                             *)
<1>6. CASE q = [tun EXCEPT !.def = d]
           /\ (tun.state = "disarmed" \/ ~ConnectionAffectingChange(tun.def, d))
  <2>1. Same(tun, q, {"def"}) /\ q.def = d
    BY <1>0, <1>6 DEF Same, Fields, WellTyped
  <2>2. ~ConnectionAffectingChange(tun.def, d) =>
          /\ d.port = tun.def.port /\ d.keepAlive = tun.def.keepAlive /\ d.remote = tun.def.remote
    BY <1>0, DefsAssumption DEF ConnectionAffectingChange, WellTyped
  <2>3. tun.state = "disarmed" => ~tun.armed
    BY <1>0 DEF Orderly, DownWhenUnarmed
  <2>4. Orderly(q)
    <3>1. Live(q) = Live(tun)
      BY <2>1 DEF Live, Same, Fields
    <3>2. q.lingerTimer => ~HoldsOpen(q)
      <4>1. tun.armed => HoldsOpen(q) = HoldsOpen(tun)
        BY <1>6, <2>1, <2>2, <2>3 DEF HoldsOpen
      <4>2. QED
        BY <1>0, <2>1, <4>1 DEF Orderly, DownWhenUnarmed, IdleTimed, Same, Fields
    <3>3. OwnsPorts(q)
      BY <1>0, <1>6, <2>1, <2>2, <2>3 DEF Orderly, OwnsPorts, Same, Fields
    <3>4. OneCall(q)
      <4>1. tun.frames = {} \/ q.def.port = tun.def.port
        BY <1>4, <2>1, <2>2
      <4>2. QED
        BY <1>0, <2>1, <4>1 DEF Orderly, OneCall, Same, Fields
    <3>5. QED
      BY <1>0, <1>1, <2>1, <3>1, <3>2, <3>3, <3>4
         DEF Orderly, DownWhenUnarmed, FlowsWell, IdleTimed, Attached, Same, Fields
  <2>5. q.frames = tun.frames /\ q.pendingDef = tun.pendingDef /\ ~q.disposed /\ q.sshConnection = tun.sshConnection
        /\ q.armed = tun.armed /\ q.state = tun.state /\ Live(q) = Live(tun)
    BY <1>1, <2>1 DEF Same, Fields, Live
  <2>6. CASE tun' = q
    <3>1. ConnectionAffectingChange(tun.def, tun'.def) => ~tun.armed
      BY <1>6, <2>1, <2>3, <2>6
    <3>2. QED
      BY <1>0, <1>1, <1>5, <2>4, <2>5, <2>6, <3>1
         DEF Ordered, InOrder, Heeded, Starters, EditIsUsedOnce, EditWaitsForTeardown, Orderly, DownWhenUnarmed
  <2>7. CASE /\ ReportedState(q) = "disarmed" /\ tun.frames = {} /\ wanted' = "up"
             /\ \E l \in FreeSocks(q), a \in FreeAttempts(q) : tun' = ArmTunnel(q, l, a)
    <3>1. ~q.armed
      BY <2>3, <2>5, <2>7 DEF ReportedState
    <3>2. /\ Orderly(tun') /\ tun'.def = q.def /\ tun'.pendingDef = q.pendingDef
          /\ tun'.disposed = q.disposed /\ tun'.sshConnection = None /\ Live(tun') = {}
      BY <1>2, <2>4, <2>5, <2>7, <3>1, ArmTunnelOrders
    <3>3. QED
      BY <1>1, <2>5, <2>7, <3>2 DEF InOrder, Heeded, EditIsUsedOnce, EditWaitsForTeardown
  <2>8. QED
    BY <1>3, <2>6, <2>7
(* It waits for the last client.                                           *)
<1>7. CASE q = [tun EXCEPT !.pendingDef = d] /\ tun.state # "disarmed" /\ Live(tun) # {}
  <2>1. Same(tun, q, {"pendingDef"}) /\ q.pendingDef = d
    BY <1>0, <1>7 DEF Same, Fields, WellTyped
  <2>2. tun' = q
    BY <1>3, <1>7, <2>1 DEF ReportedState, Same, Fields
  <2>3. Live(q) = Live(tun) /\ HoldsOpen(q) = HoldsOpen(tun)
    BY <2>1 DEF Live, HoldsOpen, Same, Fields
  <2>4. Orderly(q)
    BY <1>0, <2>1, <2>3 DEF Orderly, OneCall, DownWhenUnarmed, OwnsPorts, FlowsWell, IdleTimed, Attached,
                Same, Fields
  <2>5. d # None
    BY NoneAssumption
  <2>6. tun.armed
    BY <1>0, <1>7 DEF Orderly, DownWhenUnarmed
  <2>7. wanted' # "down"
    BY <1>5, <2>6 DEF Ordered, Heeded
  <2>8. QED
    BY <1>1, <2>1, <2>2, <2>4, <2>5, <2>7
       DEF InOrder, Heeded, EditIsUsedOnce, EditWaitsForTeardown, ConnectionAffectingChange, Same, Fields
(* Nobody is served: it is taken up at once.                               *)
<1>8. CASE /\ q = ReapplyIdle(tun, d) /\ tun.state # "disarmed" /\ Live(tun) = {}
           /\ ConnectionAffectingChange(tun.def, d)
  <2>1. Reapplying(tun, q, d) /\ q.pendingDef = tun.pendingDef
    BY <1>0, <1>8, ReapplyIdleEffect
  <2>2. /\ Orderly(q) /\ q.def = tun.def /\ ~q.armed
        /\ \A f \in q.frames : f.kind = "reapply" /\ f.next = d
    BY <1>0, <1>8, <1>4, <2>1, ReapplyingOrders DEF Orderly
  <2>3. q.state = tun.state /\ q.disposed = tun.disposed
    BY <2>1 DEF Reapplying, Torn, Same, Fields
  <2>4. tun' = q
    BY <1>3, <1>8, <2>3 DEF ReportedState
  <2>5. wanted' = "down" => Starters(q) = {}
    BY <1>1, <2>2 DEF Starters, WillArm
  <2>6. QED
    BY <1>1, <1>5, <2>1, <2>2, <2>3, <2>4, <2>5
       DEF Ordered, InOrder, Heeded, EditIsUsedOnce, EditWaitsForTeardown, ConnectionAffectingChange
<1>9. QED
  BY <1>6, <1>7, <1>8 DEF ApplyDefinition, q

LEMMA CallsInOrder ==
  ASSUME Ordered, ~crossed',
         Arm \/ Disarm \/ Dispose \/ ForceApply \/ Pause \/ Resume
  PROVE  InOrder
<1>0. WellTyped(tun) /\ Sound(tun, None) /\ Linked(tun, None) /\ Orderly(tun)
  BY DEF Ordered, IInv, Sound, Linked, Typed
<1>1. CASE Arm
  <2>1. /\ tun.frames = {} /\ ~tun.armed /\ ~tun.disposed /\ tun.pendingDef = None
        /\ \E l \in FreeSocks(tun), a \in FreeAttempts(tun) : tun' = ArmTunnel(tun, l, a)
        /\ wanted' = "up"
    BY <1>1 DEF Arm, NewTunnel
  <2>2. /\ Orderly(tun') /\ tun'.def = tun.def /\ tun'.pendingDef = None /\ ~tun'.disposed
    BY <1>0, <2>1, ArmTunnelOrders
  <2>3. QED
    BY <2>1, <2>2 DEF InOrder, Heeded, EditIsUsedOnce, EditWaitsForTeardown, ConnectionAffectingChange
<1>2. CASE Disarm
  <2> DEFINE q == [tun EXCEPT !.pendingDef = None]
  <2>1. Typed(q)
    BY <1>0 DEF Sound, Linked, Typed, WellTyped
  <2>2. Linked(q, None)
    BY <1>0, <2>1 DEF Sound, Linked, Typed, WellTyped, SessionIsUp, PromiseOrSession, Hanging
  <2>3. Same(tun, q, {"pendingDef"}) /\ q.pendingDef = None
    BY <1>0 DEF Same, Fields, WellTyped
  <2> HIDE DEF q
  <2>4. /\ OwnsPorts(q) /\ FlowsWell(q) /\ Attached(q) /\ ~q.disposed /\ q.frames = tun.frames
        /\ OneCall(q) /\ Quiet(q)
    BY <1>0, <1>2, <2>3
       DEF Disarm, Quiet, Orderly, OneCall, OwnsPorts, FlowsWell, Attached, Same, Fields
  <2>5. q.frames # {} => Live(q) = {}
    BY <1>0, <2>3, <2>4 DEF Orderly, OneCall, DownWhenUnarmed, Live, Same, Fields
  <2>6. /\ tun' = Teardown(q, "disarm", None)
        /\ wanted' = IF Starters(tun) = {} THEN "down" ELSE "overtaken"
    BY <1>2 DEF Disarm, q
  <2>7. /\ Orderly(tun') /\ EditKept(q, tun') /\ ~tun'.disposed
        /\ \A f \in tun'.frames \ tun.frames : f.kind = "disarm"
        /\ ~tun'.armed /\ tun'.pendingDef = None
    BY <2>2, <2>3, <2>4, <2>6, <2>5, TeardownOrders
  <2>8. tun'.def = tun.def
    BY <2>3, <2>7 DEF EditKept, Same, Fields
  <2>9. wanted' = "down" => Starters(tun') = {}
    BY <2>6, <2>7 DEF Starters, WillArm
  <2>10. QED
    BY <2>6, <2>7, <2>8, <2>9 DEF InOrder, Heeded, EditIsUsedOnce, EditWaitsForTeardown, ConnectionAffectingChange
<1>3. CASE Dispose
  <2> DEFINE q == [tun EXCEPT !.disposed = TRUE]
  <2>1. Typed(q)
    BY <1>0 DEF Sound, Linked, Typed, WellTyped
  <2>2. Linked(q, None)
    BY <1>0, <2>1 DEF Sound, Linked, Typed, WellTyped, SessionIsUp, PromiseOrSession, Hanging
  <2>3. Same(tun, q, {"disposed"}) /\ q.disposed
    BY <1>0 DEF Same, Fields, WellTyped
  <2> HIDE DEF q
  <2>4. /\ OwnsPorts(q) /\ FlowsWell(q) /\ Attached(q) /\ q.frames = tun.frames
        /\ OneCall(q) /\ Quiet(q)
    BY <1>0, <1>3, <2>3
       DEF Dispose, Quiet, Orderly, OneCall, OwnsPorts, FlowsWell, Attached, Same, Fields
  <2>5. q.frames # {} => Live(q) = {}
    BY <1>0, <2>3, <2>4 DEF Orderly, OneCall, DownWhenUnarmed, Live, Same, Fields
  <2>6. tun' = Teardown(q, "dispose", None) /\ wanted' = "down"
    BY <1>3 DEF Dispose, q
  <2>7. Orderly(tun') /\ EditKept(q, tun') /\ tun'.disposed /\ ~tun'.armed
    BY <2>2, <2>3, <2>4, <2>6, <2>5, TeardownOrders
  <2>8. tun'.def = tun.def /\ q.pendingDef = tun.pendingDef
    BY <2>3, <2>7 DEF EditKept, Same, Fields
  <2>9. Heeded'
    BY <2>6, <2>7 DEF Heeded
  <2>10. EditIsUsedOnce
    BY <2>4, <2>6, <2>7, <2>8 DEF EditKept, EditIsUsedOnce
  <2>11. QED
    BY <2>7, <2>8, <2>9, <2>10 DEF InOrder, EditWaitsForTeardown, ConnectionAffectingChange
<1>4. CASE ForceApply
  <2> DEFINE q == [tun EXCEPT !.pendingDef = None]
  <2>1. Typed(q)
    BY <1>0 DEF Sound, Linked, Typed, WellTyped
  <2>2. Linked(q, None)
    BY <1>0, <2>1 DEF Sound, Linked, Typed, WellTyped, SessionIsUp, PromiseOrSession, Hanging
  <2>3. Same(tun, q, {"pendingDef"}) /\ q.pendingDef = None
    BY <1>0 DEF Same, Fields, WellTyped
  <2>4. tun.pendingDef \in Defs /\ tun.frames = {}
    BY <1>0, <1>4 DEF ForceApply, WellTyped
  <2> HIDE DEF q
  <2>5. ~tun.disposed
    BY <1>4, <2>4 DEF ForceApply, Ordered, Buried, Interred
  <2>6. OwnsPorts(q) /\ FlowsWell(q) /\ Attached(q) /\ q.frames = {} /\ ~q.disposed
    BY <1>0, <2>3, <2>4, <2>5 DEF Orderly, OwnsPorts, FlowsWell, Attached, Same, Fields
  <2>7. OneCall(q) /\ Quiet(q)
    BY <2>6 DEF OneCall, Quiet
  <2>8. tun' = Teardown(q, "reapply", tun.pendingDef) /\ wanted' = "up"
    BY <1>4 DEF ForceApply, q
  <2>9. /\ Orderly(tun') /\ EditKept(q, tun') /\ ~tun'.disposed
        /\ \E f \in tun'.frames : f.kind = "reapply" /\ f.next = tun.pendingDef
    BY <2>2, <2>3, <2>4, <2>6, <2>8, <2>7, TeardownOrders
  <2>10. tun'.def = tun.def
    BY <2>3, <2>9 DEF EditKept, Same, Fields
  <2>11. QED
    BY <2>4, <2>8, <2>9, <2>10 DEF InOrder, Heeded, EditIsUsedOnce, EditWaitsForTeardown, ConnectionAffectingChange
<1>5. CASE Pause
  <2>1. /\ Same(tun, tun', {"lingerTimer", "paused", "frozen"})
        /\ ~tun'.lingerTimer /\ tun'.paused
        /\ \A c \in Conns : tun'.frozen[c] <=> tun.conn[c] = "relay"
    BY <1>0, <1>5 DEF Pause, CancelLinger, Same, Fields, WellTyped
  <2>2. Live(tun') = Live(tun) /\ HoldsOpen(tun') = HoldsOpen(tun)
    BY <2>1 DEF Live, HoldsOpen, Same, Fields
  <2>3. FlowsWell(tun')
    BY <2>1 DEF FlowsWell, Same, Fields
  <2>4. Orderly(tun')
    BY <1>0, <2>1, <2>2, <2>3 DEF Orderly, OneCall, DownWhenUnarmed, OwnsPorts, IdleTimed, Attached,
                Same, Fields
  <2>5. Handled(tun, tun')
    BY <2>1, <2>4 DEF Handled, EditKept, MayTakeEdit, Same, Fields
  <2>6. QED
    BY <1>5, <2>5, HandledInOrder DEF Pause
<1>6. CASE Resume
  <2> DEFINE q == [tun EXCEPT !.paused = FALSE, !.frozen = [c \in Conns |-> FALSE]]
  <2>1. Typed(q)
    BY <1>0 DEF Sound, Linked, Typed, WellTyped
  <2>2. Linked(q, None)
    BY <1>0, <2>1 DEF Sound, Linked, Typed, WellTyped, SessionIsUp, PromiseOrSession, Hanging
  <2>3. /\ Same(tun, q, {"paused", "frozen"}) /\ ~q.paused
        /\ \A c \in Conns : ~q.frozen[c]
    BY <1>0 DEF Same, Fields, WellTyped
  <2>4. tun' = MaybeStartLinger(q)
    BY <1>6 DEF Resume
  <2> HIDE DEF q
  <2>5. Live(q) = Live(tun) /\ HoldsOpen(q) = HoldsOpen(tun)
    BY <2>3 DEF Live, HoldsOpen, Same, Fields
  <2>6. FlowsWell(q)
    BY <2>3 DEF FlowsWell, Same, Fields
  <2>7. Orderly(q)
    BY <1>0, <2>3, <2>5, <2>6 DEF Orderly, OneCall, DownWhenUnarmed, OwnsPorts, IdleTimed, Attached,
                Same, Fields
  <2>8. Handled(tun, q) /\ Handled(q, tun')
    BY <2>2, <2>3, <2>4, <2>7, MaybeStartLingerOrders DEF Handled, EditKept, MayTakeEdit, Same, Fields
  <2>9. QED
    BY <1>6, <2>8, HandledTwice, HandledInOrder DEF Resume
<1>7. QED
  BY <1>1, <1>2, <1>3, <1>4, <1>5, <1>6

LEMMA FramesInOrder ==
  ASSUME Ordered, NEW f \in tun.frames, BindOk(f) \/ BindFails(f) \/ Settle(f)
  PROVE  InOrder
<1>0. WellTyped(tun) /\ Sound(tun, None) /\ Linked(tun, None) /\ Orderly(tun) /\ Typed(tun)
  BY DEF Ordered, IInv, Sound, Linked, Typed
<1>1. f \in FrameRecords /\ (f.kind = "reapply" => f.next \in Defs)
  BY <1>0 DEF Typed, WellTyped
<1>2. /\ ~tun.armed /\ tun.sshConnection = None /\ Live(tun) = {} /\ ~tun.lingerTimer
      /\ \A l \in Socks : tun.sock[l].phase # "bound"
      /\ \A c \in Conns : tun.conn[c] # "relay" /\ ~tun.frozen[c]
  <2>1. ~tun.armed /\ tun.sshConnection = None /\ Live(tun) = {} /\ ~tun.lingerTimer
    BY <1>0 DEF Orderly, OneCall, DownWhenUnarmed
  <2>2. \A l \in Socks : tun.sock[l].phase # "bound"
    BY <1>0, <2>1 DEF Orderly, OwnsPorts
  <2>3. \A c \in Conns : tun.conn[c] # "relay"
    BY <2>1 DEF Live
  <2>4. QED
    BY <1>0, <2>1, <2>2, <2>3 DEF Orderly, FlowsWell
<1>3. UNCHANGED <<saved, wanted>>
  BY DEF BindOk, BindFails, Settle
<1>4. ASSUME f.pc = "binding", Quiet(tun)
      PROVE  /\ f.kind = "arm" /\ f.sock \in Socks
             /\ ~tun.disposed => /\ tun.frames \ {f} = {} /\ tun.sock[f.sock].port = tun.def.port
                                /\ wanted # "down"
  <2>1. /\ f.kind = "arm" /\ f.sock \in Socks
        /\ ~tun.disposed => tun.sock[f.sock].port = tun.def.port
    BY <1>0, <1>4 DEF Orderly, OneCall
  <2>2. ~tun.disposed => tun.frames \ {f} = {}
    BY <1>0, <1>4, <2>1 DEF Orderly, OneCall, Quiet
  <2>3. ~tun.disposed => wanted # "down"
    BY <2>1 DEF Ordered, Heeded, Starters, WillArm
  <2>4. QED
    BY <2>1, <2>2, <2>3
(* A call that ends leaves a tunnel that is down to the calls that remain. *)
<1>5. ASSUME NEW t, Same(tun, t, {"frames", "state", "sock"}), t.frames = tun.frames \ {f},
             f.pc = "binding", Quiet(tun), \A l \in Socks : t.sock[l].phase # "bound", tun' = t
      PROVE  InOrder
  <2>1. Live(t) = {} /\ ~t.armed /\ t.sshConnection = None /\ ~t.lingerTimer /\ t.def = tun.def
        /\ t.disposed = tun.disposed /\ t.pendingDef = tun.pendingDef
    BY <1>2, <1>5 DEF Live, Same, Fields
  <2>2. OwnsPorts(t) /\ FlowsWell(t)
    BY <1>2, <1>5 DEF OwnsPorts, FlowsWell, Same, Fields
  <2>3. OneCall(t)
    BY <1>0, <1>4, <1>5, <2>1 DEF Orderly, OneCall
  <2>4. DownWhenUnarmed(t)
    BY <1>0, <1>5, <2>1 DEF Orderly, DownWhenUnarmed, Same, Fields
  <2>5. Orderly(t)
    BY <1>0, <1>5, <2>1, <2>2, <2>3, <2>4 DEF Orderly, IdleTimed, Attached, Same, Fields
  <2>6. QED
    BY <1>3, <1>5, <2>1, <2>5
       DEF Ordered, InOrder, Heeded, Starters, EditIsUsedOnce, EditWaitsForTeardown, ConnectionAffectingChange
<1>6. CASE BindOk(f) /\ tun.disposed
  <2> DEFINE z == [tun EXCEPT !.frames = @ \ {f}, !.sock[f.sock].phase = "closing"]
  <2>1. f.sock \in Socks /\ f.pc = "binding" /\ Quiet(tun) /\ tun' = z
    BY <1>0, <1>4, <1>6 DEF BindOk, WellTyped
  <2>2. Same(tun, z, {"frames", "state", "sock"}) /\ z.frames = tun.frames \ {f}
    BY <1>0 DEF Same, Fields, WellTyped
  <2>3. \A l \in Socks : z.sock[l].phase # "bound"
    BY <1>0, <1>2, <2>1 DEF WellTyped
  <2> HIDE DEF z
  <2>4. QED
    BY <1>5, <2>1, <2>2, <2>3
<1>7. CASE BindOk(f) /\ ~tun.disposed
  <2> DEFINE b == [tun EXCEPT !.frames = @ \ {f}, !.sock[f.sock].phase = "bound",
                              !.listener = f.sock, !.armed = TRUE, !.state = "listening"]
  <2>1. /\ f.kind = "arm" /\ ~tun.disposed /\ f.sock \in Socks /\ tun.frames \ {f} = {}
        /\ tun.sock[f.sock].port = tun.def.port /\ wanted # "down"
    BY <1>4, <1>7 DEF BindOk
  <2>2. /\ Same(tun, b, {"frames", "sock", "listener", "armed", "state"})
        /\ b.frames = {} /\ b.armed /\ b.state = "listening" /\ b.listener = f.sock
        /\ \A l \in Socks \ {f.sock} : b.sock[l] = tun.sock[l]
        /\ b.sock[f.sock].port = tun.def.port
    <3>1. Same(tun, b, {"frames", "sock", "listener", "armed", "state"})
      BY <1>0 DEF Same, Fields, WellTyped
    <3>2. b.frames = tun.frames \ {f} /\ b.armed /\ b.state = "listening" /\ b.listener = f.sock
      BY <1>0 DEF WellTyped
    <3>3. b.sock = [tun.sock EXCEPT ![f.sock].phase = "bound"]
      BY <1>0 DEF WellTyped
    <3>4. /\ \A l \in Socks \ {f.sock} : b.sock[l] = tun.sock[l]
          /\ b.sock[f.sock].port = tun.sock[f.sock].port
      BY <1>0, <2>1, <3>3 DEF WellTyped
    <3>5. QED
      BY <2>1, <3>1, <3>2, <3>4
  <2>3. tun' = b \/ \E a \in FreeAttempts(b) : tun' = ConnectEagerly(b, a)
    BY <1>0, <1>7, <2>1 DEF BindOk, WellTyped
  <2>4. Sound(b, None)
    <3>1. [tun.sock EXCEPT ![f.sock].phase = "bound"] \in [Socks -> [phase : SockPhases, port : Nat]]
      BY <1>0, <2>1, SockPhaseKeeps DEF WellTyped, SockPhases
    <3>2. Typed(b)
      BY <1>0, <2>1, <3>1 DEF Sound, Linked, Typed, WellTyped, States
    <3>3. QED
      BY <1>0, <3>2 DEF Sound, Linked, Typed, WellTyped, SessionIsUp, PromiseOrSession,
                    Hanging, Current, PromiseIsCurrent, LingerHasSession
  <2> HIDE DEF b
  <2>5. Orderly(b)
    <3>1. OwnsPorts(b)
      BY <1>2, <2>2 DEF OwnsPorts, Same, Fields
    <3>2. FlowsWell(b)
      BY <1>2, <2>2 DEF FlowsWell, Same, Fields
    <3>3. QED
      BY <1>0, <1>2, <2>2, <3>1, <3>2 DEF Orderly, OneCall, DownWhenUnarmed, IdleTimed, Attached, Same, Fields
  <2>6. /\ Orderly(tun') /\ tun'.frames = {} /\ tun'.disposed = b.disposed
        /\ tun'.def = b.def /\ tun'.pendingDef = b.pendingDef /\ tun'.sshConnection = b.sshConnection
        /\ tun'.armed
    BY <2>2, <2>3, <2>4, <2>5, ConnectEagerlyEffect, DialedEagerlyOrders
  <2>7. ~tun'.disposed /\ tun'.def = tun.def /\ tun'.pendingDef = tun.pendingDef /\ wanted' # "down"
    BY <1>3, <2>1, <2>2, <2>6 DEF Same, Fields
  <2>8. QED
    BY <2>6, <2>7 DEF InOrder, Heeded, EditIsUsedOnce, EditWaitsForTeardown, ConnectionAffectingChange
<1>8. CASE BindFails(f)
  <2> DEFINE z == [tun EXCEPT !.frames = @ \ {f}, !.sock[f.sock].phase = "free", !.state = "error"]
  <2>1. f.sock \in Socks /\ f.pc = "binding" /\ Quiet(tun) /\ tun' = z
    BY <1>4, <1>8 DEF BindFails
  <2>2. Same(tun, z, {"frames", "state", "sock"}) /\ z.frames = tun.frames \ {f}
    BY <1>0 DEF Same, Fields, WellTyped
  <2>3. \A l \in Socks : z.sock[l].phase # "bound"
    BY <1>0, <1>2, <2>1 DEF WellTyped
  <2> HIDE DEF z
  <2>4. QED
    BY <1>5, <2>1, <2>2, <2>3
<1>9. CASE Settle(f)
  <2> DEFINE q == [tun EXCEPT !.frames = @ \ {f}, !.listener = None]
             r == [q EXCEPT !.def = f.next]
             u == [q EXCEPT !.paused = FALSE, !.state = "disarmed"]
             v == [q EXCEPT !.pendingDef = None, !.paused = FALSE, !.state = "disarmed"]
             w == [r EXCEPT !.state = "disarmed"]
  <2>1. f.kind # "arm" /\ (f.kind = "dispose" => tun.disposed)
    BY <1>0, <1>9 DEF Settle, Orderly, OneCall
  <2>2. \/ f.kind = "disarm" /\ tun' = u
        \/ f.kind = "dispose" /\ tun' = v
        \/ f.kind = "reapply" /\ tun' = w
        \/ /\ f.kind = "reapply" /\ f.next.enabled
           /\ \E l \in FreeSocks(r), a \in FreeAttempts(r) : tun' = ArmTunnel(r, l, a)
    BY <1>9, <2>1 DEF Settle
  <2>3. /\ Same(tun, q, {"frames", "listener"}) /\ q.frames = tun.frames \ {f} /\ q.listener = None
        /\ Same(q, u, {"paused", "state"}) /\ u.state = "disarmed" /\ ~u.paused
        /\ Same(q, v, {"paused", "state", "pendingDef"}) /\ v.state = "disarmed" /\ v.pendingDef = None
        /\ ~v.paused
        /\ Same(q, r, {"def"}) /\ Same(q, w, {"def", "state"}) /\ r.def = f.next
    BY <1>0 DEF Same, Fields, WellTyped
  <2>4. Typed(q)
    BY <1>0 DEF Sound, Linked, Typed, WellTyped
  <2>5. Sound(q, None)
    BY <1>0, <2>4 DEF Sound, Linked, Typed, WellTyped, SessionIsUp, PromiseOrSession,
                Hanging, Current, PromiseIsCurrent, LingerHasSession
  <2>6. f.kind = "reapply" => Sound(r, None)
    <3> HAVE f.kind = "reapply"
    <3>1. Typed(r)
      BY <1>1, <2>5 DEF Sound, Linked, Typed, WellTyped
    <3>2. QED
      BY <2>5, <3>1 DEF Sound, Linked, Typed, WellTyped, SessionIsUp, PromiseOrSession,
                        Hanging, Current, PromiseIsCurrent, LingerHasSession
  <2> HIDE DEF q, r, u, v, w
  (* What resumes stays down, whatever definition it has taken.            *)
  <2>7. ASSUME NEW t, Same(tun, t, {"frames", "listener", "paused", "state", "pendingDef", "def"}),
               t.frames = tun.frames \ {f}, t.listener = None,
               t.def = tun.def \/ f.kind = "reapply"
        PROVE  Orderly(t) /\ ~t.armed /\ t.sshConnection = None /\ Live(t) = {}
    <3>1. Live(t) = {} /\ ~t.armed /\ t.sshConnection = None /\ ~t.lingerTimer
      BY <1>2, <2>7 DEF Live, Same, Fields
    <3>2. OwnsPorts(t) /\ FlowsWell(t)
      BY <1>2, <2>7 DEF OwnsPorts, FlowsWell, Same, Fields
    <3>3. OneCall(t)
      <4>1. t.sock = tun.sock /\ t.disposed = tun.disposed
        BY <2>7 DEF Same, Fields
      <4>2. ASSUME NEW g \in t.frames, ~tun.disposed PROVE t.def = tun.def
        <5>1. g \in tun.frames /\ g # f /\ f.pc = "settling"
          BY <1>9, <2>7, <4>2 DEF Settle
        <5>2. QED
          BY <1>0, <2>7, <4>2, <5>1 DEF Orderly, OneCall
      <4>3. QED
        BY <1>0, <2>7, <3>1, <4>1, <4>2 DEF Orderly, OneCall
    <3>4. QED
      BY <1>0, <2>7, <3>1, <3>2, <3>3 DEF Orderly, DownWhenUnarmed, IdleTimed, Attached, Same, Fields
  <2>8. Orderly(q) /\ Orderly(u) /\ Orderly(v)
    BY <2>3, <2>7 DEF Same, Fields
  <2>9. f.kind = "reapply" => Orderly(r) /\ Orderly(w) /\ w.sshConnection = None /\ Live(w) = {}
    BY <2>3, <2>7 DEF Same, Fields
  <2>10. UNCHANGED <<saved, wanted>>
    BY <1>3
  <2>11. CASE f.kind = "disarm" /\ tun' = u
    <3>1. /\ u.def = tun.def /\ u.pendingDef = tun.pendingDef /\ u.disposed = tun.disposed
          /\ u.frames \subseteq tun.frames /\ ~u.armed
      BY <1>2, <2>3 DEF Same, Fields
    <3>2. QED
      BY <2>8, <2>10, <2>11, <3>1
         DEF Ordered, InOrder, Heeded, Starters, EditIsUsedOnce, EditWaitsForTeardown, ConnectionAffectingChange
  <2>12. CASE f.kind = "dispose" /\ tun' = v
    <3>1. /\ v.def = tun.def /\ v.pendingDef = None /\ v.disposed = tun.disposed /\ tun.disposed
          /\ v.frames \subseteq tun.frames /\ ~v.armed
      BY <1>2, <2>1, <2>3, <2>12 DEF Same, Fields
    <3>2. QED
      BY <2>8, <2>10, <2>12, <3>1
         DEF Ordered, InOrder, Heeded, Starters, EditIsUsedOnce, EditWaitsForTeardown, ConnectionAffectingChange
  <2>13. CASE f.kind = "reapply" /\ tun' = w
    <3>1. /\ w.pendingDef = tun.pendingDef /\ w.disposed = tun.disposed
          /\ w.frames \subseteq tun.frames /\ ~w.armed
      BY <1>2, <2>3 DEF Same, Fields
    <3>2. QED
      BY <2>9, <2>10, <2>13, <3>1 DEF Ordered, InOrder, Heeded, Starters, EditIsUsedOnce, EditWaitsForTeardown
  <2>14. CASE /\ f.kind = "reapply" /\ f.next.enabled
              /\ \E l \in FreeSocks(r), a \in FreeAttempts(r) : tun' = ArmTunnel(r, l, a)
    <3>1. /\ r.pendingDef = tun.pendingDef /\ r.disposed = tun.disposed
          /\ r.frames = tun.frames \ {f} /\ ~r.armed /\ r.sshConnection = None /\ Live(r) = {}
      BY <1>2, <2>3 DEF Same, Fields, Live
    <3>2. CASE tun.disposed
      <4>1. tun' = r
        BY <2>14, <3>1, <3>2 DEF ArmTunnel
      <4>2. QED
        BY <2>9, <2>10, <2>14, <3>1, <3>2, <4>1 DEF Ordered, InOrder, Heeded, EditIsUsedOnce, EditWaitsForTeardown
    <3>3. CASE ~tun.disposed
      <4>1. r.frames = {} /\ wanted # "down"
        <5>1. f.pc = "settling" /\ f \in Starters(tun)
          BY <1>9, <2>14 DEF Settle, Starters, WillArm
        <5>2. QED
          BY <1>0, <2>14, <3>1, <3>3, <5>1 DEF Ordered, Heeded, Orderly, OneCall
      <4>2. /\ Orderly(tun') /\ tun'.pendingDef = r.pendingDef /\ tun'.disposed = r.disposed
            /\ tun'.sshConnection = None /\ Live(tun') = {}
        BY <2>6, <2>9, <2>14, <3>1, <4>1, ArmTunnelOrders
      <4>3. QED
        BY <2>10, <3>1, <3>3, <4>1, <4>2 DEF InOrder, Heeded, EditIsUsedOnce, EditWaitsForTeardown
    <3>4. QED
      BY <3>2, <3>3, <1>0 DEF WellTyped
  <2>15. QED
    BY <2>2, <2>11, <2>12, <2>13, <2>14
<1>10. QED
  BY <1>0, <1>7, <1>8, <1>9, <1>6 DEF WellTyped

LEMMA SocketsInOrder ==
  ASSUME Ordered, NEW l \in Socks, ListenerError(l) \/ SockClosed(l)
  PROVE  InOrder
<1>0. WellTyped(tun) /\ Orderly(tun)
  BY DEF Ordered, IInv, Sound, Linked, Typed
<1>1. CASE ListenerError(l)
  <2>1. tun' = [tun EXCEPT !.state = "error"] /\ UNCHANGED <<saved, wanted>>
    BY <1>1 DEF ListenerError
  <2>2. /\ Same(tun, tun', {"state"}) /\ tun'.state = "error"
        /\ tun'.lingerTimer = tun.lingerTimer /\ tun'.sshConnection = tun.sshConnection
        /\ tun'.dial = tun.dial
    BY <1>0, <2>1 DEF Same, Fields, WellTyped
  <2>3. Same(tun, tun', {"lingerTimer", "state", "sshConnection", "connectPromise", "dial", "eager",
                     "retry", "forward", "reconnectTimer", "reconnectAttempts", "reconnecting"})
    BY <2>2 DEF Same
  <2>4. ~tun.armed => tun.sshConnection = None /\ \A a \in Attempts : tun.dial[a] # "dialing"
    BY <1>0 DEF Orderly, DownWhenUnarmed
  <2>5. Handled(tun, tun')
    BY <1>0, <2>2, <2>3, <2>4, EasedOrders
  <2>6. QED
    BY <2>1, <2>5, HandledInOrder
<1>2. CASE SockClosed(l)
  <2> DEFINE Woken(f) == IF f.sock = l /\ f.pc = "stopping"
                         THEN [f EXCEPT !.pc = "settling", !.sock = None] ELSE f
             t == [tun EXCEPT !.sock[l].phase = "free", !.frames = {Woken(f) : f \in @}]
  <2>1. ASSUME NEW f \in tun.frames
        PROVE  /\ Woken(f).kind = f.kind /\ Woken(f).next = f.next
               /\ f.pc = "binding" => Woken(f) = f
               /\ Woken(f).pc = "binding" => f.pc = "binding"
    <3>1. f \in FrameRecords
      BY <1>0 DEF WellTyped
    <3>2. QED
      BY <3>1 DEF FrameRecords
  <2>2. tun' = t /\ tun.sock[l].phase = "closing" /\ UNCHANGED <<saved, wanted>>
    BY <1>2 DEF SockClosed
  <2>3. /\ Same(tun, t, {"sock", "frames"})
        /\ t.frames = {Woken(f) : f \in tun.frames}
        /\ \A k \in Socks \ {l} : t.sock[k] = tun.sock[k]
        /\ t.sock[l].phase = "free"
    BY <1>0 DEF Same, Fields, WellTyped
  <2> HIDE DEF Woken, t
  <2>4. Live(t) = Live(tun) /\ HoldsOpen(t) = HoldsOpen(tun)
    BY <2>3 DEF Live, HoldsOpen, Same, Fields
  <2>5. OneCall(t)
    <3>1. t.armed = tun.armed /\ t.disposed = tun.disposed /\ t.def = tun.def
      BY <2>3 DEF Same, Fields
    <3>2. /\ t.frames # {} => tun.frames # {}
          /\ ~t.disposed => \A f, g \in tun.frames : f # g => f.kind \notin {"arm", "reapply"}
      BY <1>0, <1>2, <2>3, <3>1 DEF SockClosed, Quiet, Orderly, OneCall
    <3>3. ASSUME NEW f \in tun.frames
          PROVE  /\ Woken(f).pc = "binding" <=> Woken(f).kind = "arm"
                 /\ Woken(f).kind = "arm" =>
                      /\ Woken(f).sock \in Socks
                      /\ ~t.disposed => /\ t.sock[Woken(f).sock].phase = "binding"
                                        /\ t.sock[Woken(f).sock].port = t.def.port
                 /\ Woken(f).kind = "dispose" => t.disposed
      <4>1. /\ f.pc = "binding" <=> f.kind = "arm"
            /\ f.kind = "arm" =>
                 /\ f.sock \in Socks
                 /\ ~tun.disposed => tun.sock[f.sock].phase = "binding" /\ tun.sock[f.sock].port = tun.def.port
            /\ f.kind = "dispose" => tun.disposed
        BY <1>0 DEF Orderly, OneCall
      <4>2. f.kind = "arm" /\ ~tun.disposed => f.sock # l
        BY <2>2, <4>1
      <4>3. QED
        BY <2>1, <2>3, <3>1, <4>1, <4>2
    <3>4. ~t.disposed => \A f, g \in t.frames : f # g => f.kind \notin {"arm", "reapply"}
      BY <2>1, <2>3, <3>2
    <3>5. QED
      BY <1>0, <2>3, <3>1, <3>2, <3>3, <3>4 DEF Orderly, OneCall
  <2>6. DownWhenUnarmed(t)
    <3>1. ASSUME NEW f \in tun.frames, f.pc # "binding" PROVE \E g \in t.frames : g.pc # "binding"
      BY <2>1, <2>3, <3>1
    <3>2. QED
      BY <1>0, <2>3, <2>4, <3>1 DEF Orderly, DownWhenUnarmed, Same, Fields
  <2>7. OwnsPorts(t) /\ FlowsWell(t) /\ IdleTimed(t) /\ Attached(t)
    BY <1>0, <2>3, <2>4 DEF Orderly, OwnsPorts, FlowsWell, IdleTimed, Attached, Same, Fields
  <2>8. Heeded'
    BY <2>1, <2>2, <2>3 DEF Ordered, Heeded, Starters, WillArm, Same, Fields
  <2>9. t.pendingDef = tun.pendingDef /\ t.def = tun.def
    BY <2>3 DEF Same, Fields
  <2>10. QED
    BY <2>2, <2>5, <2>6, <2>7, <2>8, <2>9
       DEF InOrder, Orderly, EditIsUsedOnce, EditWaitsForTeardown, ConnectionAffectingChange
<1>3. QED
  BY <1>1, <1>2

LEMMA ClientsInOrder ==
  ASSUME Ordered, NEW c \in Conns, LocalAccess(c) \/ ReverseAccess(c) \/ ConnCloses(c)
  PROVE  InOrder
<1>0. WellTyped(tun) /\ Orderly(tun) /\ Sound(tun, None)
  BY DEF Ordered, IInv, Sound, Linked, Typed
<1>1. CASE LocalAccess(c)
  <2> PICK a \in FreeAttempts(tun) :
          LET q == EnsureConnected(CancelLinger(tun), a)
          IN tun' = IF q.sshConnection # None
                    THEN [q EXCEPT !.conn[c] = "relay"]
                    ELSE [q EXCEPT !.conn[c] = "waiting", !.via[c] = q.connectPromise]
    BY <1>1 DEF LocalAccess
  <2> DEFINE p == CancelLinger(tun)
             q == EnsureConnected(p, a)
  <2>1. Sound(p, None) /\ a \in FreeAttempts(p)
    BY <1>0, CancelLingerKeeps DEF Sound, WellTyped, CancelLinger, FreeAttempts
  <2>2. tun.armed /\ ~tun.paused /\ tun.conn[c] = "none" /\ tun.frames = {}
    BY <1>0, <1>1 DEF LocalAccess, Orderly, OwnsPorts, OneCall
  <2>3. Same(tun, p, {"lingerTimer"}) /\ ~p.lingerTimer
    BY <1>0 DEF CancelLinger, Same, Fields, WellTyped
  <2> HIDE DEF p
  <2>4. Orderly(p) /\ p.armed /\ p.frames = {} /\ ~p.paused /\ p.conn = tun.conn
        /\ p.def = tun.def /\ p.pendingDef = tun.pendingDef /\ p.disposed = tun.disposed
    <3>1. Live(p) = Live(tun)
      BY <2>3 DEF Live, Same, Fields
    <3>2. QED
      BY <1>0, <2>2, <2>3, <3>1 DEF Orderly, OneCall, DownWhenUnarmed, OwnsPorts, FlowsWell, IdleTimed,
                                    Attached, Same, Fields
  <2>5. Sound(q, None) /\ Dialed(p, q)
    BY <2>1, EnsureConnectedEffect
  <2>6. Same(p, q, {"state", "connectPromise", "dial"})
    BY <2>5 DEF Dialed, Same
  <2>7. Orderly(q) /\ q.armed /\ q.frames = {} /\ ~q.paused /\ q.conn = tun.conn /\ ~q.lingerTimer
        /\ q.def = tun.def /\ q.pendingDef = tun.pendingDef /\ q.disposed = tun.disposed
    BY <2>3, <2>4, <2>5, <2>6, DialedOrders DEF Same, Fields
  <2>8. \/ tun' = [q EXCEPT !.conn[c] = "relay"]
        \/ tun' = [q EXCEPT !.conn[c] = "waiting", !.via[c] = q.connectPromise]
    BY DEF p
  <2> HIDE DEF q
  <2>9. WellTyped(q)
    BY <2>5 DEF Sound, Linked, Typed
  <2>10. /\ Same(q, tun', {"conn", "via"})
         /\ \A d \in Conns \ {c} : tun'.conn[d] = q.conn[d] /\ tun'.via[d] = q.via[d]
         /\ \/ tun'.conn[c] = "relay" /\ tun'.via[c] = q.via[c]
            \/ tun'.conn[c] = "waiting"
    <3>1. CASE tun' = [q EXCEPT !.conn[c] = "relay"]
      BY <2>9, <3>1 DEF Same, Fields, WellTyped
    <3>2. CASE tun' = [q EXCEPT !.conn[c] = "waiting", !.via[c] = q.connectPromise]
      <4>1. Same(q, tun', {"conn", "via"})
        BY <2>9, <3>2 DEF Same, Fields, WellTyped
      <4>2. tun'.conn = [q.conn EXCEPT ![c] = "waiting"] /\ tun'.via = [q.via EXCEPT ![c] = q.connectPromise]
        BY <2>9, <3>2 DEF WellTyped
      <4>3. QED
        BY <2>9, <4>1, <4>2 DEF WellTyped
    <3>3. QED
      BY <2>8, <3>1, <3>2
  <2>11. q.via[c] = None
    BY <2>2, <2>7 DEF Orderly, Attached
  <2>12. ~q.frozen[c]
    BY <2>2, <2>7 DEF Orderly, FlowsWell
  <2>13. FlowsWell(tun') /\ Attached(tun')
    <3>1. /\ tun'.frozen = q.frozen /\ tun'.paused = q.paused
          /\ FlowsWell(q) /\ Attached(q)
      BY <2>7, <2>10 DEF Orderly, Same, Fields
    <3>2. FlowsWell(tun')
      BY <2>7, <2>10, <2>12, <3>1 DEF FlowsWell
    <3>3. Attached(tun')
      BY <2>10, <2>11, <3>1 DEF Attached
    <3>4. QED
      BY <3>2, <3>3
  <2>14. Orderly(tun')
    <3>1. /\ tun'.armed /\ tun'.frames = {} /\ ~tun'.lingerTimer /\ tun'.state = q.state
          /\ tun'.sock = q.sock /\ tun'.listener = q.listener /\ tun'.def = q.def
      BY <2>7, <2>10 DEF Same, Fields
    <3>2. QED
      <4>1. OneCall(tun') /\ IdleTimed(tun')
        BY <3>1 DEF OneCall, IdleTimed
      <4>2. DownWhenUnarmed(tun')
        BY <2>7, <3>1 DEF Orderly, DownWhenUnarmed
      <4>3. OwnsPorts(tun')
        BY <2>7, <3>1 DEF Orderly, OwnsPorts
      <4>4. QED
        BY <2>13, <4>1, <4>2, <4>3 DEF Orderly
  <2>15. Handled(tun, tun')
    <3>1. /\ tun'.frames = {} /\ tun'.armed /\ tun'.def = tun.def
          /\ tun'.pendingDef = tun.pendingDef /\ tun'.disposed = tun.disposed
      BY <2>7, <2>10 DEF Same, Fields
    <3>2. QED
      BY ONLY <2>2, <2>14, <3>1 DEF Handled, EditKept, MayTakeEdit
  <2>16. QED
    BY <1>1, <2>15, HandledInOrder DEF LocalAccess
<1>2. CASE ReverseAccess(c)
  <2>1. /\ Same(tun, tun', {"conn"}) /\ tun'.conn[c] = "relay"
        /\ \A d \in Conns \ {c} : tun'.conn[d] = tun.conn[d]
    BY <1>0, <1>2 DEF ReverseAccess, Same, Fields, WellTyped
  <2>2. tun.armed /\ ~tun.paused /\ tun.conn[c] = "none" /\ tun.via[c] = None /\ ~tun.frozen[c]
        /\ ~tun.lingerTimer
    BY <1>0, <1>2 DEF ReverseAccess, Orderly, DownWhenUnarmed, FlowsWell, Attached, IdleTimed, HoldsOpen
  <2>3. FlowsWell(tun') /\ Attached(tun')
    BY <1>0, <2>1, <2>2 DEF Orderly, FlowsWell, Attached, Same, Fields
  <2>4. Orderly(tun')
    BY <1>0, <2>1, <2>2, <2>3 DEF Orderly, OneCall, DownWhenUnarmed, OwnsPorts, IdleTimed, Same, Fields
  <2>5. Handled(tun, tun')
    BY <2>1, <2>4 DEF Handled, EditKept, MayTakeEdit, Same, Fields
  <2>6. QED
    BY <1>2, <2>5, HandledInOrder DEF ReverseAccess
<1>3. CASE ConnCloses(c)
  <2> DEFINE t == DeleteConn(tun, c)
  <2>1. Typed(t)
    BY <1>0 DEF DeleteConn, Sound, Linked, Typed, WellTyped, ConnPhases
  <2>2. Linked(t, None)
    BY <1>0, <2>1 DEF DeleteConn, Sound, Linked, Typed, WellTyped, SessionIsUp, PromiseOrSession, Hanging
  <2>3. c \in Live(tun) /\ tun.armed
    BY <1>0, <1>3 DEF ConnCloses, Orderly, DownWhenUnarmed
  <2>4. /\ Same(tun, t, {"conn", "via", "frozen"})
        /\ \A d \in Conns \ {c} : t.conn[d] = tun.conn[d] /\ t.via[d] = tun.via[d] /\ t.frozen[d] = tun.frozen[d]
        /\ ~t.frozen[c] /\ t.conn[c] \in {"none", "gone"}
        /\ t.via[c] # None => t.conn[c] = "gone"
    BY <1>0 DEF DeleteConn, Same, Fields, WellTyped
  <2> HIDE DEF t
  <2>5. FlowsWell(t) /\ Attached(t)
    BY <1>0, <2>4 DEF Orderly, FlowsWell, Attached, Same, Fields
  <2>6. ~t.lingerTimer
    <3>1. ~tun.lingerTimer
      BY <1>0, <2>3 DEF Orderly, IdleTimed
    <3>2. QED
      BY <2>4, <3>1 DEF Same, Fields
  <2>7. Orderly(t) /\ t.armed
    BY <1>0, <2>3, <2>4, <2>5, <2>6 DEF Orderly, OneCall, DownWhenUnarmed, OwnsPorts, IdleTimed, Same, Fields
  <2>8. Handled(tun, t)
    BY <2>4, <2>7 DEF Handled, EditKept, MayTakeEdit, Same, Fields
  <2>9. tun' = OnIdleCheck(t) /\ UNCHANGED <<saved, wanted>>
    BY <1>3 DEF ConnCloses, t
  <2>10. Handled(t, tun')
    BY <2>2, <2>7, <2>9, OnIdleCheckOrders DEF MayTakeEdit
  <2>11. QED
    BY <2>8, <2>9, <2>10, HandledTwice, HandledInOrder
<1>4. QED
  BY <1>1, <1>2, <1>3

LEMMA ConnectOkInOrder ==
  ASSUME Ordered, NEW a \in Attempts, ConnectOk(a)
  PROVE  InOrder
<1>0. WellTyped(tun) /\ Orderly(tun) /\ Sound(tun, None)
  BY DEF Ordered, IInv, Sound, Linked, Typed
<1>1. Connected(tun, tun', a)
  BY <1>0, ConnectOkEffect
<1>2. /\ Same(tun, tun', {"connectPromise", "eager", "retry", "dial", "sshConnection", "forward",
                 "reconnectAttempts", "reconnecting", "state", "lingerTimer", "conn",
                 "frozen", "via"})
      /\ Told(tun, tun', a, ~tun.disposed)
      /\ \A c \in Conns :
           tun'.frozen[c] = IF tun.via[c] = a /\ tun.conn[c] = "waiting" /\ ~tun.disposed
                            THEN tun.paused ELSE tun.frozen[c]
  BY <1>1 DEF Connected
<1>3. tun.disposed => Live(tun) = {}
  BY DEF Ordered, Buried, Interred
<1>4. Live(tun') = Live(tun) /\ HoldsOpen(tun') = HoldsOpen(tun)
  <2>1. ASSUME NEW c \in Conns, tun.via[c] = a PROVE tun.conn[c] \in {"waiting", "gone"}
    BY <1>0, <2>1, NoneAssumption DEF Orderly, Attached
  <2>2. QED
    BY <1>2, <1>3, <2>1 DEF Told, Live, HoldsOpen, Same, Fields
<1>5. FlowsWell(tun') /\ Attached(tun')
  <2>1. ASSUME NEW c \in Conns
        PROVE  /\ IF tun'.conn[c] = "relay" THEN tun'.frozen[c] <=> tun'.paused ELSE ~tun'.frozen[c]
               /\ tun'.via[c] # None => tun'.conn[c] \in {"waiting", "gone"}
    <3>1. /\ IF tun.conn[c] = "relay" THEN tun.frozen[c] <=> tun.paused ELSE ~tun.frozen[c]
          /\ tun.via[c] # None => tun.conn[c] \in {"waiting", "gone"}
      BY <1>0 DEF Orderly, FlowsWell, Attached
    <3>2. tun'.paused = tun.paused
      BY <1>2 DEF Same, Fields
    <3>3. CASE tun.via[c] = a
      <4>1. /\ tun'.conn[c] = IF tun.conn[c] = "waiting" /\ ~tun.disposed THEN "relay" ELSE "none"
            /\ tun'.via[c] = None
        BY <1>2, <3>3 DEF Told
      <4>2. a # None
        BY NoneAssumption
      <4>3. QED
        BY <1>2, <3>1, <3>2, <3>3, <4>1, <4>2
    <3>4. CASE tun.via[c] # a
      BY <1>2, <3>1, <3>2, <3>4 DEF Told
    <3>5. QED
      BY <3>3, <3>4
  <2>2. QED
    BY <2>1 DEF FlowsWell, Attached
<1>6. CASE tun.disposed \/ tun.dial[a] = "stale"
  <2>1. tun'.dial[a] = "free" /\ Same(tun, tun', {"connectPromise", "eager", "retry", "dial", "conn", "frozen", "via"})
    BY <1>1, <1>6 DEF Connected
  <2>2. \A b \in Attempts : tun'.dial[b] = "dialing" => tun.dial[b] = "dialing"
    BY <1>2, <2>1 DEF Told
  <2>3. Orderly(tun')
    BY <1>0, <1>4, <1>5, <2>1, <2>2 DEF Orderly, OneCall, DownWhenUnarmed, OwnsPorts, IdleTimed, Same, Fields
  <2>4. Handled(tun, tun')
    BY <1>2, <2>3 DEF Handled, EditKept, MayTakeEdit, Same, Fields
  <2>5. QED
    BY <2>4, HandledInOrder DEF ConnectOk
<1>7. CASE ~(tun.disposed \/ tun.dial[a] = "stale")
  <2>1. /\ tun'.sshConnection = a /\ tun'.state = "connected"
        /\ tun'.lingerTimer => tun.lingerTimer \/ (~HoldsOpen(tun) /\ Live(tun) = {})
    BY <1>1, <1>7 DEF Connected
  <2>2. tun.armed
    BY <1>0, <1>7 DEF ConnectOk, Orderly, DownWhenUnarmed
  <2>3. Orderly(tun')
    BY <1>0, <1>2, <1>4, <1>5, <2>1, <2>2 DEF Orderly, OneCall, DownWhenUnarmed, OwnsPorts, IdleTimed, Same, Fields
  <2>4. Handled(tun, tun')
    BY <1>2, <2>3 DEF Handled, EditKept, MayTakeEdit, Same, Fields
  <2>5. QED
    BY <2>4, HandledInOrder DEF ConnectOk
<1>8. QED
  BY <1>6, <1>7

LEMMA ConnectFailsInOrder ==
  ASSUME Ordered, NEW a \in Attempts, ConnectFails(a)
  PROVE  InOrder
<1>0. WellTyped(tun) /\ Orderly(tun) /\ Sound(tun, None)
  BY DEF Ordered, IInv, Sound, Linked, Typed
<1>1. Failed(tun, tun', a)
  BY ConnectFailsEffect DEF Ordered
<1> PICK q : /\ Same(tun, q, {"connectPromise", "eager", "retry", "dial", "conn", "via"})
             /\ q.dial[a] = "free" /\ Told(tun, q, a, FALSE) /\ Retried(q, tun')
  BY <1>1 DEF Failed
<1>2. Live(q) \subseteq Live(tun) /\ HoldsOpen(q) = HoldsOpen(tun)
  BY DEF Told, Live, HoldsOpen, Same, Fields
<1>3. FlowsWell(q) /\ Attached(q)
  <2>1. ASSUME NEW c \in Conns
        PROVE  /\ IF q.conn[c] = "relay" THEN q.frozen[c] <=> q.paused ELSE ~q.frozen[c]
               /\ q.via[c] # None => q.conn[c] \in {"waiting", "gone"}
    <3>1. /\ IF tun.conn[c] = "relay" THEN tun.frozen[c] <=> tun.paused ELSE ~tun.frozen[c]
          /\ tun.via[c] # None => tun.conn[c] \in {"waiting", "gone"}
      BY <1>0 DEF Orderly, FlowsWell, Attached
    <3>2. q.paused = tun.paused /\ q.frozen = tun.frozen
      BY DEF Same, Fields
    <3>3. QED
      BY <3>1, <3>2, NoneAssumption DEF Told
  <2>2. QED
    BY <2>1 DEF FlowsWell, Attached
<1>4. \A b \in Attempts : q.dial[b] = "dialing" => tun.dial[b] = "dialing"
  BY DEF Told
<1>5. Orderly(q)
  BY <1>0, <1>2, <1>3, <1>4 DEF Orderly, OneCall, DownWhenUnarmed, OwnsPorts, IdleTimed, Same, Fields
<1>6. Handled(tun, q)
  BY <1>5 DEF Handled, EditKept, MayTakeEdit, Same, Fields
<1>7. QED
  BY <1>5, <1>6, RetriedOrders, HandledTwice, HandledInOrder DEF ConnectFails

LEMMA SessionsInOrder ==
  ASSUME Ordered, NEW a \in Attempts,
         Drop(a) \/ RemoteForwardOk(a) \/ RemoteForwardFails(a)
  PROVE  InOrder
<1>0. WellTyped(tun) /\ Orderly(tun) /\ Sound(tun, None)
  BY DEF Ordered, IInv, Sound, Linked, Typed
<1> DEFINE Eased == {"lingerTimer", "state", "sshConnection", "connectPromise", "dial", "eager",
                     "retry", "forward", "reconnectTimer", "reconnectAttempts", "reconnecting"}
<1>1. CASE Drop(a)
  <2> DEFINE q == [tun EXCEPT !.dial[a] = "free", !.forward[a] = FALSE]
             p == [q EXCEPT !.sshConnection = None]
             h == FailAllConnections(p)
             e == CancelLinger(h)
             g == [e EXCEPT !.state = "listening"]
  <2>1. Typed(p)
    BY <1>0 DEF Sound, Linked, Typed, WellTyped, DialPhases
  <2>2. Linked(p, None)
    BY <1>0, <1>1, <2>1 DEF Drop, Sound, Linked, Typed, WellTyped, SessionIsUp, PromiseOrSession,
                      Hanging, Current, PromiseIsCurrent
  <2>3. /\ Same(tun, q, {"dial", "forward"}) /\ Same(tun, p, {"dial", "forward", "sshConnection"})
        /\ \A b \in Attempts : q.dial[b] = "dialing" => tun.dial[b] = "dialing"
        /\ p.sshConnection = None /\ p.dial = q.dial
    BY <1>0 DEF Same, Fields, WellTyped
  <2>4. \/ tun.sshConnection # a /\ tun' = q
        \/ tun.sshConnection = a /\ tun' \in {AttemptReconnect(e), MaybeApplyPending(g)}
    BY <1>1 DEF Drop, HandleDrop
  <2> HIDE DEF p, q
  <2>5. Handled(tun, q) /\ Handled(tun, p)
    <3>1. /\ Same(tun, q, Eased) /\ Same(tun, p, Eased)
          /\ q.lingerTimer = tun.lingerTimer /\ p.lingerTimer = tun.lingerTimer
          /\ q.state = tun.state /\ p.state = tun.state /\ q.sshConnection = tun.sshConnection
      BY <2>3 DEF Same, Fields
    <3>2. QED
      BY <1>0, <2>3, <3>1, EasedOrders DEF Orderly, DownWhenUnarmed
  <2>6. CASE tun.sshConnection = a
    <3>1. tun.armed
      BY <1>0, <2>6, NoneAssumption DEF Orderly, DownWhenUnarmed
    <3>2. Linked(h, None) /\ Handled(p, h)
      BY <2>2, <2>5, <3>1, FailAllConnectionsKeeps, FailAllConnectionsOrders DEF Handled, MayTakeEdit
    <3>3. Handled(tun, h)
      BY <2>5, <3>2, HandledTwice
    <3>4. Linked(e, None) /\ Same(h, e, {"lingerTimer"}) /\ ~e.lingerTimer
      BY <3>2, CancelLingerEffect
    <3>5. Current(e, None)
      <4>1. Current(p, None)
        BY <1>0, <1>1 DEF Drop, Sound, Linked, Typed, WellTyped, Current, PromiseIsCurrent, p, q
      <4>2. QED
        BY <2>2, <3>2, <4>1, FailAllConnectionsKeeps, CancelLingerKeeps
    <3>6. Linked(g, None) /\ Same(h, g, {"lingerTimer", "state"}) /\ ~g.lingerTimer /\ g.state = "listening"
      <4>1. Sound(e, None) /\ WellTyped(e)
        BY <3>4, <3>5 DEF Sound, LingerHasSession, Linked, Typed
      <4>2. Linked(g, None)
        BY <4>1, StateKeeps DEF Sound, States
      <4>3. Same(e, g, {"state"}) /\ g.state = "listening"
        BY <4>1 DEF Same, Fields, WellTyped
      <4>4. QED
        BY <3>4, <4>2, <4>3 DEF Same, Fields
    <3> HIDE DEF h, e, g
    <3>7. Handled(h, e) /\ Handled(h, g)
      <4>1. /\ Same(h, e, Eased) /\ Same(h, g, Eased) /\ e.state = h.state
            /\ e.sshConnection = h.sshConnection /\ g.sshConnection = h.sshConnection
            /\ e.dial = h.dial /\ g.dial = h.dial
        BY <3>4, <3>6 DEF Same, Fields
      <4>2. /\ h.armed => h.state # "disarmed"
            /\ ~h.armed => h.sshConnection = None /\ \A b \in Attempts : h.dial[b] # "dialing"
        BY <3>2 DEF Handled, Orderly, DownWhenUnarmed
      <4>3. Orderly(h)
        BY <3>2 DEF Handled
      <4>4. QED
        BY <3>4, <3>6, <4>1, <4>2, <4>3, EasedOrders
    <3>8. Handled(tun, e) /\ Handled(tun, g)
      BY <3>3, <3>7, HandledTwice
    <3>9. CASE tun' = AttemptReconnect(e)
      <4>1. Retried(e, tun')
        BY <3>4, <3>5, <3>9, AttemptReconnectEffect DEF Sound, LingerHasSession
      <4>2. QED
        BY <1>1, <3>8, <4>1, RetriedOrders, HandledTwice, HandledInOrder DEF Drop, Handled
    <3>10. CASE tun' = MaybeApplyPending(g)
      <4>1. Orderly(g) /\ MayTakeEdit(g)
        BY <3>1, <3>8 DEF Handled, MayTakeEdit
      <4>2. Handled(g, tun')
        BY <3>6, <3>10, <4>1, MaybeApplyPendingOrders
      <4>3. QED
        BY <1>1, <3>8, <4>2, HandledTwice, HandledInOrder DEF Drop
    <3>11. QED
      BY <2>4, <2>6, <3>9, <3>10 DEF e, g
  <2>7. QED
    BY <1>1, <2>4, <2>5, <2>6, HandledInOrder DEF Drop
<1>2. CASE RemoteForwardOk(a)
  <2>1. Same(tun, tun', {"forward"})
    BY <1>0, <1>2 DEF RemoteForwardOk, Same, Fields, WellTyped
  <2>2. /\ Same(tun, tun', Eased) /\ tun'.lingerTimer = tun.lingerTimer /\ tun'.state = tun.state
        /\ tun'.sshConnection = tun.sshConnection /\ tun'.dial = tun.dial
    BY <2>1 DEF Same, Fields
  <2>3. Handled(tun, tun')
    BY <1>0, <2>2, EasedOrders DEF Orderly, DownWhenUnarmed
  <2>4. QED
    BY <1>2, <2>3, HandledInOrder DEF RemoteForwardOk
<1>3. CASE RemoteForwardFails(a)
  <2> DEFINE q == [tun EXCEPT !.forward[a] = FALSE]
             d == DisposeSsh(q)
             h == FailAllConnections(d)
             r == CancelLinger(h)
             v == IF r.armed THEN "error" ELSE "disarmed"
             w == [r EXCEPT !.state = v]
  <2>1. Typed(q)
    BY <1>0 DEF Sound, Linked, Typed, WellTyped
  <2>2. Sound(q, None)
    BY <1>0, <2>1 DEF Sound, Linked, Typed, WellTyped, SessionIsUp, PromiseOrSession,
                      Hanging, Current, PromiseIsCurrent, LingerHasSession
  <2>3. Same(tun, q, {"forward"})
    BY <1>0 DEF Same, Fields, WellTyped
  <2>4. \/ tun.sshConnection # a /\ tun' = q
        \/ tun.sshConnection = a /\ tun' \in {AttemptReconnect(r), w}
    BY <1>3 DEF RemoteForwardFails
  <2> HIDE DEF q
  <2>5. Handled(tun, q)
    <3>1. /\ Same(tun, q, Eased) /\ q.lingerTimer = tun.lingerTimer /\ q.state = tun.state
          /\ q.sshConnection = tun.sshConnection /\ q.dial = tun.dial
      BY <2>3 DEF Same, Fields
    <3>2. QED
      BY <1>0, <3>1, EasedOrders DEF Orderly, DownWhenUnarmed
  <2>6. CASE tun.sshConnection = a
    <3>1. tun.armed
      BY <1>0, <2>6, NoneAssumption DEF Orderly, DownWhenUnarmed
    <3>2. q.armed /\ Orderly(q)
      BY <2>3, <2>5, <3>1 DEF Same, Fields, Handled
    <3>3. Linked(d, None) /\ Current(d, None)
      BY <2>2, DisposeSshKeeps DEF Sound
    <3>4. /\ Same(q, d, {"sshConnection", "connectPromise", "dial", "forward"})
          /\ d.sshConnection = None
      BY <2>2 DEF DisposeSsh, Sound, Linked, Typed, WellTyped, Same, Fields
    <3> HIDE DEF d
    <3>5. Handled(q, d)
      <4>1. Same(q, d, Eased) /\ d.lingerTimer = q.lingerTimer /\ d.state = q.state
        BY <3>4 DEF Same, Fields
      <4>2. QED
        BY <3>2, <4>1, EasedOrders DEF Orderly, DownWhenUnarmed
    <3>6. Linked(h, None) /\ Current(h, None) /\ Handled(d, h)
      <4>1. Orderly(d) /\ MayTakeEdit(d)
        BY <3>2, <3>5 DEF Handled, MayTakeEdit
      <4>2. QED
        BY <3>3, <4>1, FailAllConnectionsKeeps, FailAllConnectionsOrders
    <3>7. Handled(tun, h)
      BY <2>5, <3>5, <3>6, HandledTwice
    <3>8. Sound(r, None) /\ Same(h, r, {"lingerTimer"}) /\ ~r.lingerTimer
      <4>1. Linked(r, None) /\ Same(h, r, {"lingerTimer"}) /\ ~r.lingerTimer
        BY <3>6, CancelLingerEffect
      <4>2. Current(r, None)
        BY <3>6, CancelLingerKeeps
      <4>3. QED
        BY <4>1, <4>2 DEF Sound, LingerHasSession
    <3> HIDE DEF h, r
    <3>9. Same(h, w, {"lingerTimer", "state"}) /\ ~w.lingerTimer /\ w.state = v
      <4>0. WellTyped(r)
        BY <3>8 DEF Sound, Linked, Typed
      <4> HIDE DEF v
      <4>1. Same(r, w, {"state"}) /\ w.state = v
        BY <4>0 DEF WellTyped, Same, Fields
      <4>2. QED
        BY <3>8, <4>1 DEF Same, Fields
    <3> HIDE DEF w
    <3>10. Handled(h, r) /\ Handled(h, w)
      <4>1. /\ Same(h, r, Eased) /\ Same(h, w, Eased) /\ r.state = h.state /\ r.armed = h.armed
            /\ r.sshConnection = h.sshConnection /\ w.sshConnection = h.sshConnection
            /\ r.dial = h.dial /\ w.dial = h.dial
        BY <3>8, <3>9 DEF Same, Fields
      <4>2. /\ h.armed => h.state # "disarmed"
            /\ ~h.armed => h.sshConnection = None /\ \A b \in Attempts : h.dial[b] # "dialing"
        BY <3>6 DEF Handled, Orderly, DownWhenUnarmed
      <4>3. Orderly(h)
        BY <3>6 DEF Handled
      <4>4. QED
        BY <3>8, <3>9, <4>1, <4>2, <4>3, EasedOrders
    <3>11. Handled(tun, r) /\ Handled(tun, w)
      BY <3>7, <3>10, HandledTwice
    <3>12. CASE tun' = AttemptReconnect(r)
      <4>1. Retried(r, tun')
        BY <3>8, <3>12, AttemptReconnectEffect
      <4>2. Orderly(r)
        BY <3>11 DEF Handled
      <4>3. Handled(r, tun')
        BY <4>1, <4>2, RetriedOrders
      <4>4. Handled(tun, tun')
        BY <3>11, <4>3, HandledTwice
      <4>5. UNCHANGED <<saved, wanted>>
        BY <1>3 DEF RemoteForwardFails
      <4>6. QED
        BY <4>4, <4>5, HandledInOrder
    <3>13. QED
      BY <1>3, <2>4, <2>6, <3>11, <3>12, HandledInOrder DEF RemoteForwardFails, r, w
  <2>7. QED
    BY <1>3, <2>4, <2>5, <2>6, HandledInOrder DEF RemoteForwardFails
<1>4. QED
  BY <1>1, <1>2, <1>3

LEMMA TimersInOrder ==
  ASSUME Ordered, RetryFires \/ LingerFires
  PROVE  InOrder
<1>0. WellTyped(tun) /\ Orderly(tun) /\ Sound(tun, None)
  BY DEF Ordered, IInv, Sound, Linked, Typed
<1> DEFINE Eased == {"lingerTimer", "state", "sshConnection", "connectPromise", "dial", "eager",
                     "retry", "forward", "reconnectTimer", "reconnectAttempts", "reconnecting"}
<1>1. CASE RetryFires
  <2> DEFINE q == [tun EXCEPT !.reconnectTimer = FALSE]
  <2>1. Typed(q)
    BY <1>0 DEF Sound, Linked, Typed, WellTyped
  <2>2. Sound(q, None)
    BY <1>0, <2>1 DEF Sound, Linked, Typed, WellTyped, SessionIsUp, PromiseOrSession,
                Hanging, Current, PromiseIsCurrent, LingerHasSession
  <2>3. \/ tun' = q
        \/ /\ q.armed
           /\ \E a \in FreeAttempts(q) :
             LET r == EnsureConnected(q, a)
             IN tun' = IF r.sshConnection # None THEN r
                       ELSE [r EXCEPT !.retry[r.connectPromise] = TRUE]
    BY <1>1 DEF RetryFires
  <2>4. Same(tun, q, {"reconnectTimer"})
    BY <1>0 DEF Same, Fields, WellTyped
  <2> HIDE DEF q
  <2>5. Handled(tun, q)
    <3>1. /\ Same(tun, q, Eased) /\ q.lingerTimer = tun.lingerTimer /\ q.state = tun.state
          /\ q.sshConnection = tun.sshConnection /\ q.dial = tun.dial
      BY <2>4 DEF Same, Fields
    <3>2. QED
      BY <1>0, <3>1, EasedOrders DEF Orderly, DownWhenUnarmed
  <2>6. ASSUME NEW a \in FreeAttempts(q), q.armed
        PROVE  LET r == EnsureConnected(q, a)
               IN Handled(q, r) /\ Handled(q, [r EXCEPT !.retry[r.connectPromise] = TRUE])
    <3> DEFINE r == EnsureConnected(q, a)
               t == [r EXCEPT !.retry[r.connectPromise] = TRUE]
    <3>1. Dialed(q, r) /\ WellTyped(r)
      BY <2>2, EnsureConnectedEffect DEF Sound, Linked, Typed
    <3> HIDE DEF r
    <3>2. Same(r, t, {"retry"})
      BY <3>1 DEF WellTyped, Same, Fields
    <3>3. Same(q, r, Eased) /\ r.lingerTimer = q.lingerTimer /\ (r.state = q.state \/ r.state = "connecting")
      BY <3>1 DEF Dialed, Same, Fields
    <3>4. Same(q, t, Eased) /\ t.lingerTimer = q.lingerTimer /\ t.state = r.state
      BY <3>2, <3>3 DEF Same, Fields
    <3>5. Orderly(q) /\ q.state # "disarmed"
      BY <2>5, <2>6 DEF Handled, Orderly, DownWhenUnarmed
    <3>6. Handled(q, r) /\ Handled(q, t)
      BY <2>6, <3>3, <3>4, <3>5, EasedOrders
    <3>7. QED
      BY <3>6 DEF r
  <2>7. QED
    BY <1>1, <2>3, <2>5, <2>6, HandledTwice, HandledInOrder DEF RetryFires
<1>2. CASE LingerFires
  <2> DEFINE q == CancelLinger(tun)
             p == DisposeSsh(q)
             t == [p EXCEPT !.state = "listening"]
  <2>1. Linked(q, None) /\ Same(tun, q, {"lingerTimer"}) /\ ~q.lingerTimer
    BY <1>0, CancelLingerEffect DEF Sound
  <2>2. tun' = q \/ (q.sshConnection # None /\ tun' = MaybeApplyPending(t))
    BY <1>2 DEF LingerFires
  <2> HIDE DEF q
  <2>3. Handled(tun, q)
    <3>1. /\ Same(tun, q, Eased) /\ q.state = tun.state
          /\ q.sshConnection = tun.sshConnection /\ q.dial = tun.dial
      BY <2>1 DEF Same, Fields
    <3>2. QED
      BY <1>0, <2>1, <3>1, EasedOrders DEF Orderly, DownWhenUnarmed
  <2>4. CASE q.sshConnection # None /\ tun' = MaybeApplyPending(t)
    <3>1. q.armed
      BY <2>3, <2>4 DEF Handled, Orderly, DownWhenUnarmed
    <3>2. Linked(p, None) /\ Same(q, p, {"sshConnection", "connectPromise", "dial", "forward"})
      <4>1. Linked(p, None)
        BY <2>1, DisposeSshKeeps
      <4>2. WellTyped(q)
        BY <2>1 DEF Linked, Typed
      <4>3. Same(q, p, {"sshConnection", "connectPromise", "dial", "forward"})
        BY <4>2 DEF DisposeSsh, WellTyped, Same, Fields
      <4>4. QED
        BY <4>1, <4>3
    <3> HIDE DEF p
    <3>3. Typed(t)
      BY <3>2 DEF Linked, Typed, WellTyped, States
    <3>4. Linked(t, None) /\ Same(p, t, {"state"}) /\ t.state = "listening"
      BY <3>2, <3>3 DEF Linked, Typed, WellTyped, SessionIsUp, PromiseOrSession, Hanging, Same, Fields
    <3> HIDE DEF t
    <3>5. Same(q, t, Eased) /\ t.lingerTimer = q.lingerTimer /\ t.armed
      BY <3>1, <3>2, <3>4 DEF Same, Fields
    <3>6. Handled(q, t)
      BY <2>3, <3>1, <3>4, <3>5, EasedOrders DEF Handled
    <3>7. Handled(t, tun')
      BY <2>4, <3>4, <3>5, <3>6, MaybeApplyPendingOrders DEF Handled, MayTakeEdit
    <3>8. QED
      BY <1>2, <2>3, <3>6, <3>7, HandledTwice, HandledInOrder DEF LingerFires
  <2>5. QED
    BY <1>2, <2>2, <2>3, <2>4, HandledInOrder DEF LingerFires
<1>3. QED
  BY <1>1, <1>2

(* Once calls have met, the history says so for good.                      *)
LEMMA CrossedStays == [Next]_vars /\ ~crossed' => ~crossed
BY DEF Next, vars, Arm, Disarm, Dispose, ForceApply, Pause, Resume, Reconcile, BindOk, BindFails,
       Settle, ListenerError, SockClosed, LocalAccess, ReverseAccess, ConnCloses, ConnectOk,
       ConnectFails, Drop, RemoteForwardOk, RemoteForwardFails, RetryFires, LingerFires

LEMMA NextInOrder ==
  ASSUME SInv, [Next]_vars
  PROVE  SInv' /\ (~crossed' => (EditIsUsedOnce /\ EditWaitsForTeardown) \/ UNCHANGED vars)
<1>1. IInv' /\ Buried(tun')
  BY NextKeeps, NextBuries DEF SInv
<1>2. CASE crossed'
  BY <1>1, <1>2 DEF SInv
<1>3. CASE ~crossed'
  <2>1. Ordered
    BY <1>3, CrossedStays DEF SInv, Ordered
  <2>2. CASE UNCHANGED vars
    BY <1>1, <2>1, <2>2 DEF vars, SInv, Ordered, Heeded, Starters
  <2>3. CASE Next
    <3>1. InOrder
      BY <1>3, <2>1, <2>3, CallsInOrder, ReconcileInOrder, FramesInOrder, SocketsInOrder, ClientsInOrder,
         ConnectOkInOrder, ConnectFailsInOrder, SessionsInOrder, TimersInOrder DEF Next
    <3>2. QED
      BY <1>1, <3>1 DEF InOrder, SInv
  <2>4. QED
    BY <2>2, <2>3
<1>4. QED
  BY <1>2, <1>3

(* The invariant the next three rest on.                                   *)
THEOREM OrderInductive == Spec => []SInv
<1>1. Init => SInv
  <2> SUFFICES ASSUME Init PROVE SInv
    OBVIOUS
  <2>1. IInv
    BY InitSound
  <2>2. Buried(tun)
    BY DEF Init, NewTunnel, Buried, BoundIsArmed, WaitsByKind, Interred
  <2>3. Live(tun) = {}
    BY DEF Init, NewTunnel, Live
  <2>4. Orderly(tun)
    BY <2>3 DEF Init, NewTunnel, Orderly, OneCall, DownWhenUnarmed, OwnsPorts, FlowsWell, IdleTimed, Attached
  <2>5. Heeded
    BY DEF Init, NewTunnel, Heeded, Starters
  <2>6. QED
    BY <2>1, <2>2, <2>4, <2>5 DEF SInv
<1>2. SInv /\ [Next]_vars => SInv'
  BY NextInOrder
<1>3. QED
  BY <1>1, <1>2, PTL DEF Spec

(* Until a start or an edit meets a suspended call, and with stops at any  *)
(* moment, a torn-down tunnel holds no session, client or idle timer,      *)
(* every bound port is its own on the port of the definition in force,     *)
(* relays flow exactly when it is not paused, and the idle timer never     *)
(* runs beside a client.                                                   *)
THEOREM ClientsServed == Spec => []ServesItsClients
<1>1. SInv => ServesItsClients
  BY DEF SInv, Orderly, DownWhenUnarmed, OwnsPorts, FlowsWell, IdleTimed, ServesItsClients,
         TornDownIsQuiet, ListenerIsOwned, RelaysFollowPause, LingerOnlyIdle
<1>2. QED
  BY <1>1, OrderInductive, PTL

(* A stop that lands on no call that will arm is the last word, also on a  *)
(* suspended stop or disabling edit: no retry, handshake or stashed edit   *)
(* brings the tunnel back.                                                 *)
THEOREM LastCallHeeded == Spec => []LastCallWins
<1>1. SInv => LastCallWins
  BY DEF SInv, Heeded, Orderly, DownWhenUnarmed, OwnsPorts, LastCallWins, Down
<1>2. QED
  BY <1>1, OrderInductive, PTL

(* A stashed edit is used at most once and never lost, and no definition   *)
(* is exchanged under a live session or client, wherever stops fall.       *)
THEOREM EditsInTurn == Spec => EditsWaitTheirTurn
<1>1. SInv /\ [Next]_vars => [~crossed' => EditIsUsedOnce /\ EditWaitsForTeardown]_vars
  BY NextInOrder
<1>2. QED
  BY <1>1, OrderInductive, PTL DEF Spec, EditsWaitTheirTurn

-----------------------------------------------------------------------------
(* Until calls meet or an invalidated handshake answers late. Followed is  *)
(* the invariant: every attempt is the promise's, the session's or one a   *)
(* teardown has invalidated, and a tunnel that is held open or shows       *)
(* itself connecting has what will bring it back.                          *)

(* A failure of the handshake a will be answered.                          *)
Awaited(s, a) == s.eager[a] \/ s.retry[a] \/ \E c \in Conns : s.via[c] = a

(* A handshake under way is the promise's, an attempt that is up the       *)
(* session's.                                                              *)
LinkedOnce(s) ==
  \A a \in Attempts :
    /\ s.dial[a] = "dialing" => s.connectPromise = a /\ Awaited(s, a)
    /\ s.dial[a] = "up" => s.sshConnection = a

IdleEnds(s) ==
  s.sshConnection # None /\ Live(s) = {} /\ ~HoldsOpen(s) /\ ~s.paused => s.lingerTimer

StaysHot(s) ==
  s.armed /\ HoldsOpen(s) =>
    s.sshConnection # None \/ s.connectPromise # None \/ s.reconnectTimer

EndsDown(s) ==
  /\ ~s.armed /\ s.frames = {} => s.state \in {"disarmed", "error"}
  /\ s.disposed => s.state \in {"disarmed", "error"} \/ \E f \in s.frames : f.kind = "dispose"

Tells(s) ==
  /\ s.state = "connecting" /\ s.frames = {} => s.connectPromise # None \/ s.reconnectTimer
  /\ s.sshConnection # None => s.state \in {"connected", "error"}

Followed(s) == LinkedOnce(s) /\ IdleEnds(s) /\ StaysHot(s) /\ EndsDown(s) /\ Tells(s)

Steady == Ordered /\ Followed(tun)

UInv == SInv /\ (Undisturbed => Followed(tun))

Unlinked(s) ==
  /\ s.sshConnection = None /\ s.connectPromise = None
  /\ \A a \in Attempts : s.dial[a] \in {"free", "stale"}

LEMMA UnlinkedFollows ==
  ASSUME NEW s, Unlinked(s), EndsDown(s),
         s.armed /\ HoldsOpen(s) => s.reconnectTimer,
         s.state = "connecting" /\ s.frames = {} => s.reconnectTimer
  PROVE  Followed(s)
BY DEF Followed, Unlinked, LinkedOnce, IdleEnds, StaysHot, Tells

LEMMA TornUnlinks ==
  ASSUME NEW s, NEW t, WellTyped(s), LinkedOnce(s), Torn(s, t)
  PROVE  Unlinked(t) /\ ~t.armed
<1>1. t.sshConnection = None /\ t.connectPromise = None /\ ~t.armed
  BY DEF Torn
<1>2. ASSUME NEW a \in Attempts PROVE t.dial[a] \in {"free", "stale"}
  <2>1. t.dial[a] = IF a = s.sshConnection THEN "free"
                    ELSE IF s.dial[a] = "dialing" THEN "stale" ELSE s.dial[a]
    BY DEF Torn
  <2>2. s.dial[a] \in DialPhases
    BY DEF WellTyped
  <2>3. QED
    BY <2>1, <2>2 DEF LinkedOnce, DialPhases
<1>3. QED
  BY <1>1, <1>2 DEF Unlinked

LEMMA TornFollows ==
  ASSUME NEW s, NEW t, WellTyped(s), LinkedOnce(s), Torn(s, t),
         t.frames # {},
         s.disposed => s.state \in {"disarmed", "error"} \/ \E f \in t.frames : f.kind = "dispose"
  PROVE  Followed(t)
<1>1. Unlinked(t) /\ ~t.armed
  BY TornUnlinks
<1>2. t.disposed = s.disposed /\ t.state = s.state
  BY DEF Torn, Same, Fields
<1>3. QED
  BY <1>1, <1>2, UnlinkedFollows DEF EndsDown

LEMMA ReapplyingFollows ==
  ASSUME NEW s, NEW t, NEW d, WellTyped(s), LinkedOnce(s), EndsDown(s),
         Reapplying(s, t, d)
  PROVE  Followed(t)
<1>1. Torn(s, t) /\ t.frames = s.frames \cup {Frame(s, "reapply", d)}
  BY DEF Reapplying
<1>2. QED
  BY <1>1, TornFollows DEF EndsDown

LEMMA RestIsUnlinked ==
  ASSUME NEW s, Sound(s, None), Orderly(s), LinkedOnce(s), ~s.armed
  PROVE  Unlinked(s)
<1>1. s.sshConnection = None /\ \A a \in Attempts : s.dial[a] # "dialing"
  BY DEF Orderly, DownWhenUnarmed
<1>2. s.connectPromise = None
  BY <1>1 DEF Sound, Linked, Typed, WellTyped, Current, PromiseIsCurrent
<1>3. ASSUME NEW a \in Attempts PROVE s.dial[a] \in {"free", "stale"}
  <2>1. s.dial[a] \in {"free", "dialing", "stale", "up"}
    BY DEF Sound, Linked, Typed, WellTyped, DialPhases
  <2>2. a # None
    BY NoneAssumption
  <2>3. QED
    BY <1>1, <2>1, <2>2 DEF LinkedOnce
<1>4. QED
  BY <1>1, <1>2, <1>3 DEF Unlinked

LEMMA DialedFollows ==
  ASSUME NEW s, NEW t, WellTyped(s), LinkedOnce(s), Dialed(s, t)
  PROVE  /\ \A a \in Attempts :
              /\ t.dial[a] = "dialing" => t.connectPromise = a
              /\ t.dial[a] = "up" => t.sshConnection = a
              /\ t.dial[a] = "dialing" /\ a # t.connectPromise => Awaited(t, a)
         /\ t.sshConnection # None \/ t.connectPromise # None
<1>1. CASE t = s
  BY <1>1 DEF Dialed, LinkedOnce
<1>2. CASE t # s
  <2>1. /\ Same(s, t, {"state", "connectPromise", "dial"})
        /\ s.sshConnection = None /\ s.connectPromise = None
        /\ t.connectPromise \in Attempts /\ s.dial[t.connectPromise] = "free"
        /\ \A b \in Attempts :
             t.dial[b] = IF b = t.connectPromise THEN "dialing" ELSE s.dial[b]
    BY <1>2 DEF Dialed
  <2>2. t.sshConnection = None
    BY <2>1 DEF Same, Fields
  <2>3. \A b \in Attempts : s.dial[b] # "dialing" /\ s.dial[b] # "up"
    BY <2>1, NoneAssumption DEF LinkedOnce
  <2>4. t.connectPromise # None
    BY <2>1, NoneAssumption
  <2>5. QED
    BY <2>1, <2>2, <2>3, <2>4
<1>3. QED
  BY <1>1, <1>2

(* A tunnel that was down and has been armed.                              *)
LEMMA DialedEagerlyFollows ==
  ASSUME NEW s, NEW t, Unlinked(s), s.armed, ~s.disposed, DialedEagerly(s, t)
  PROVE  Followed(t)
<1> PICK q : /\ Sound(q, None) /\ Dialed(s, q)
             /\ Same(q, t, {"eager"})
             /\ q.sshConnection = None =>
                  /\ q.connectPromise \in Attempts /\ t.eager[q.connectPromise]
                  /\ \A b \in Attempts : q.eager[b] => t.eager[b]
  BY DEF DialedEagerly
<1>1. /\ Same(s, q, {"state", "connectPromise", "dial"})
      /\ q.state = "connecting"
      /\ q.connectPromise \in Attempts
      /\ \A b \in Attempts :
           q.dial[b] = IF b = q.connectPromise THEN "dialing" ELSE s.dial[b]
  BY DEF Dialed, Unlinked
<1>2. /\ t.sshConnection = None /\ t.connectPromise = q.connectPromise /\ t.dial = q.dial
      /\ t.armed /\ ~t.disposed /\ t.state = "connecting"
  BY <1>1 DEF Same, Fields, Unlinked
<1>3. t.connectPromise # None /\ t.eager[t.connectPromise]
  BY <1>1, <1>2, NoneAssumption DEF Unlinked, Same, Fields
<1>4. LinkedOnce(t)
  BY <1>1, <1>2, <1>3 DEF LinkedOnce, Unlinked, Awaited
<1>5. QED
  BY <1>2, <1>3, <1>4 DEF Followed, IdleEnds, StaysHot, EndsDown, Tells

LEMMA ArmingFollows ==
  ASSUME NEW s, NEW t, Unlinked(s), ~s.armed, ~s.disposed, Arming(s, t)
  PROVE  Followed(t)
<1>1. CASE s.def.remote
  <2> PICK q : /\ DialedEagerly(q, t)
               /\ Same(s, q, {"paused", "armed", "state"}) /\ q.armed
    BY <1>1 DEF Arming
  <2>1. Unlinked(q) /\ ~q.disposed
    BY DEF Unlinked, Same, Fields
  <2>2. QED
    BY <2>1, DialedEagerlyFollows
<1>2. CASE ~s.def.remote
  <2>1. Same(s, t, {"paused", "sock", "frames"}) /\ t.frames # {}
    BY <1>2 DEF Arming
  <2>2. Unlinked(t) /\ ~t.armed /\ ~t.disposed
    BY <2>1 DEF Unlinked, Same, Fields
  <2>3. QED
    BY <2>1, <2>2, UnlinkedFollows DEF EndsDown
<1>3. QED
  BY <1>1, <1>2

LEMMA ArmTunnelFollows ==
  ASSUME NEW s, Sound(s, None), Unlinked(s), ~s.armed, EndsDown(s),
         s.listener = None,
         s.disposed => (s.state = "connecting" => s.frames # {}),
         NEW l \in FreeSocks(s), NEW a \in FreeAttempts(s)
  PROVE  Followed(ArmTunnel(s, l, a))
<1>1. CASE s.disposed
  <2>1. ArmTunnel(s, l, a) = s
    BY <1>1 DEF ArmTunnel
  <2>2. QED
    BY <1>1, <2>1, UnlinkedFollows
<1>2. CASE ~s.disposed
  BY <1>2, ArmUnboundEffect, ArmingFollows DEF ArmTunnel
<1>3. QED
  BY <1>1, <1>2

(* A call that stops the tunnel or replaces its definition.                *)
LEMMA StopFollows ==
  ASSUME NEW s, WellTyped(tun), Followed(tun),
         Same(tun, s, {"pendingDef", "disposed"}), Linked(s, None),
         NEW kind \in {"disarm", "dispose", "reapply"},
         NEW next \in Defs \cup {None}, kind = "reapply" => next \in Defs,
         s.disposed => kind = "dispose" \/ tun.disposed,
         tun' = Teardown(s, kind, next)
  PROVE  Followed(tun')
<1>1. TornFor(s, tun', kind, next)
  BY TeardownEffect
<1>2. Torn(s, tun') /\ \E f \in tun'.frames : f.kind = kind
  BY <1>1 DEF TornFor, Suspended
<1>3. \A f \in tun.frames : f \in tun'.frames
  <2>1. \A f \in s.frames : f \in tun'.frames
    BY <1>1 DEF TornFor
  <2>2. QED
    BY <2>1 DEF Same, Fields
<1>4. WellTyped(s) /\ LinkedOnce(s)
  <2>1. WellTyped(s)
    BY DEF Linked, Typed
  <2>2. QED
    BY <2>1 DEF Followed, LinkedOnce, Awaited, Same, Fields
<1>5. s.disposed => s.state \in {"disarmed", "error"} \/ \E f \in tun'.frames : f.kind = "dispose"
  BY <1>2, <1>3 DEF Followed, EndsDown, Same, Fields
<1>6. QED
  BY <1>2, <1>4, <1>5, TornFollows

LEMMA CallsFollow ==
  ASSUME Steady, Arm \/ Disarm \/ Dispose \/ ForceApply \/ Pause \/ Resume
  PROVE  Followed(tun')
<1>0. WellTyped(tun) /\ Orderly(tun) /\ Sound(tun, None) /\ Linked(tun, None) /\ Followed(tun)
  BY DEF Steady, Ordered, IInv, Sound, Linked, Typed
<1>1. CASE Arm
  <2>1. PICK l \in FreeSocks(tun), a \in FreeAttempts(tun) : tun' = ArmTunnel(tun, l, a)
    BY <1>1 DEF Arm
  <2>2. ~tun.armed /\ ~tun.disposed /\ tun.listener = None
    BY <1>1 DEF Arm, NewTunnel
  <2>3. Unlinked(tun)
    BY <1>0, <2>2, RestIsUnlinked DEF Followed
  <2>4. QED
    BY <1>0, <2>1, <2>2, <2>3, ArmTunnelFollows DEF Followed
<1>2. CASE Disarm
  <2> DEFINE s == [tun EXCEPT !.pendingDef = None]
  <2>1. ~tun.disposed /\ tun' = Teardown(s, "disarm", None)
    BY <1>2 DEF Disarm
  <2>2. Typed(s)
    BY <1>0 DEF Linked, Typed, WellTyped
  <2>3. Linked(s, None)
    BY <1>0, <2>2 DEF Linked, SessionIsUp, PromiseOrSession, Hanging, Typed, WellTyped
  <2>4. Same(tun, s, {"pendingDef", "disposed"})
    BY <1>0 DEF Same, Fields, WellTyped
  <2> HIDE DEF s
  <2>5. ~s.disposed
    BY <2>1, <1>0 DEF s, WellTyped
  <2>6. QED
    BY <1>0, <2>1, <2>3, <2>4, <2>5, StopFollows
<1>3. CASE Dispose
  <2> DEFINE s == [tun EXCEPT !.disposed = TRUE]
  <2>1. tun' = Teardown(s, "dispose", None)
    BY <1>3 DEF Dispose
  <2>2. Typed(s)
    BY <1>0 DEF Linked, Typed, WellTyped
  <2>3. Linked(s, None)
    BY <1>0, <2>2 DEF Linked, SessionIsUp, PromiseOrSession, Hanging, Typed, WellTyped
  <2>4. Same(tun, s, {"pendingDef", "disposed"})
    BY <1>0 DEF Same, Fields, WellTyped
  <2> HIDE DEF s
  <2>5. QED
    BY <1>0, <2>1, <2>3, <2>4, StopFollows
<1>4. CASE ForceApply
  <2> DEFINE s == [tun EXCEPT !.pendingDef = None]
  <2>1. tun' = Teardown(s, "reapply", tun.pendingDef) /\ tun.pendingDef \in Defs
    BY <1>0, <1>4 DEF ForceApply, WellTyped
  <2>2. Typed(s)
    BY <1>0 DEF Linked, Typed, WellTyped
  <2>3. Linked(s, None)
    BY <1>0, <2>2 DEF Linked, SessionIsUp, PromiseOrSession, Hanging, Typed, WellTyped
  <2>4. Same(tun, s, {"pendingDef", "disposed"}) /\ s.disposed = tun.disposed
    BY <1>0 DEF Same, Fields, WellTyped
  <2> HIDE DEF s
  <2>5. QED
    BY <1>0, <2>1, <2>3, <2>4, StopFollows
<1>5. CASE Pause
  <2>1. Same(tun, tun', {"lingerTimer", "paused", "frozen"}) /\ tun'.paused
    BY <1>0, <1>5 DEF Pause, CancelLinger, Same, Fields, WellTyped
  <2>2. QED
    BY <1>0, <2>1 DEF Followed, LinkedOnce, Awaited, IdleEnds, StaysHot, HoldsOpen, EndsDown, Tells, Same, Fields
<1>6. CASE Resume
  <2> DEFINE s == [tun EXCEPT !.paused = FALSE, !.frozen = [c \in Conns |-> FALSE]]
  <2>1. Same(tun, s, {"paused", "frozen"}) /\ tun' = MaybeStartLinger(s)
    BY <1>0, <1>6 DEF Resume, Same, Fields, WellTyped
  <2>2. Typed(s)
    BY <1>0 DEF Linked, Typed, WellTyped
  <2>3. Linked(s, None)
    BY <1>0, <2>2 DEF Linked, SessionIsUp, PromiseOrSession, Hanging, Typed, WellTyped
  <2> HIDE DEF s
  <2>4. /\ Same(s, tun', {"lingerTimer"})
        /\ ~s.paused /\ ~HoldsOpen(s) /\ Live(s) = {} /\ s.sshConnection # None => tun'.lingerTimer
    BY <2>1, <2>3, MaybeStartLingerEffect
  <2>5. Live(tun') = Live(s) /\ HoldsOpen(tun') = HoldsOpen(s)
    BY <2>4 DEF Live, HoldsOpen, Same, Fields
  <2>6. IdleEnds(tun')
    BY <2>4, <2>5 DEF IdleEnds, Same, Fields
  <2>7. Same(tun, tun', {"lingerTimer", "paused", "frozen"})
    BY <2>1, <2>4 DEF Same, Fields
  <2>8. QED
    BY <1>0, <2>6, <2>7 DEF Followed, LinkedOnce, Awaited, StaysHot, HoldsOpen, EndsDown, Tells, Same, Fields
<1>7. QED
  BY <1>1, <1>2, <1>3, <1>4, <1>5, <1>6

LEMMA ReconcileFollows ==
  ASSUME Steady, ~crossed', NEW d \in Defs, Reconcile(d)
  PROVE  Followed(tun')
<1> DEFINE q == ApplyDefinition(tun, d)
<1>0. WellTyped(tun) /\ Sound(tun, None) /\ Linked(tun, None) /\ Orderly(tun) /\ Followed(tun)
  BY DEF Steady, Ordered, IInv, Sound, Linked, Typed
<1>1. ~tun.disposed
  BY DEF Reconcile
<1>2. Sound(q, None)
  BY <1>0, ApplyDefinitionKeeps
<1>3. \/ tun' = q
      \/ /\ ReportedState(q) = "disarmed" /\ tun.frames = {}
         /\ \E l \in FreeSocks(q), a \in FreeAttempts(q) : tun' = ArmTunnel(q, l, a)
  BY DEF Reconcile
<1> HIDE DEF q
<1>4. CASE q = [tun EXCEPT !.def = d]
           /\ (tun.state = "disarmed" \/ ~ConnectionAffectingChange(tun.def, d))
  <2>1. Same(tun, q, {"def"}) /\ q.def = d
    BY <1>0, <1>4 DEF Same, Fields, WellTyped
  <2>2. ~ConnectionAffectingChange(tun.def, d) =>
          d.keepAlive = tun.def.keepAlive /\ d.remote = tun.def.remote
    BY <1>0, DefsAssumption DEF ConnectionAffectingChange, WellTyped
  <2>3. tun.state = "disarmed" => ~tun.armed /\ tun.sshConnection = None
    BY <1>0 DEF Orderly, DownWhenUnarmed
  <2>4. Live(q) = Live(tun)
    BY <2>1 DEF Live, Same, Fields
  <2>5. tun.armed \/ tun.sshConnection # None => HoldsOpen(q) = HoldsOpen(tun)
    BY <1>4, <2>1, <2>2, <2>3 DEF HoldsOpen
  <2>6. IdleEnds(q) /\ StaysHot(q)
    BY <1>0, <2>1, <2>4, <2>5 DEF Followed, IdleEnds, StaysHot, Same, Fields
  <2>7. LinkedOnce(q) /\ EndsDown(q) /\ Tells(q)
    BY <1>0, <2>1 DEF Followed, LinkedOnce, Awaited, EndsDown, Tells, Same, Fields
  <2>8. Followed(q)
    BY <2>6, <2>7 DEF Followed
  <2>9. CASE /\ ReportedState(q) = "disarmed" /\ tun.frames = {}
             /\ \E l \in FreeSocks(q), a \in FreeAttempts(q) : tun' = ArmTunnel(q, l, a)
    <3>1. tun.state = "disarmed"
      BY <2>1, <2>9 DEF ReportedState, Same, Fields
    <3>2. Unlinked(tun) /\ tun.listener = None
      BY <1>0, <2>3, <2>9, <3>1, RestIsUnlinked DEF Followed, Orderly, DownWhenUnarmed
    <3>3. Unlinked(q) /\ q.listener = None /\ ~q.armed /\ ~q.disposed
      BY <1>1, <2>1, <2>3, <3>1, <3>2 DEF Unlinked, Same, Fields
    <3>4. QED
      BY <1>2, <2>7, <2>9, <3>3, ArmTunnelFollows
  <2>10. QED
    BY <1>3, <2>8, <2>9
<1>5. CASE q = [tun EXCEPT !.pendingDef = d] /\ tun.state # "disarmed"
  <2>1. Same(tun, q, {"pendingDef"})
    BY <1>0, <1>5 DEF Same, Fields, WellTyped
  <2>2. tun' = q
    BY <1>3, <1>5, <2>1 DEF ReportedState, Same, Fields
  <2>3. Live(q) = Live(tun) /\ HoldsOpen(q) = HoldsOpen(tun)
    BY <2>1 DEF Live, HoldsOpen, Same, Fields
  <2>4. QED
    BY <1>0, <2>1, <2>2, <2>3
       DEF Followed, LinkedOnce, Awaited, IdleEnds, StaysHot, EndsDown, Tells, Same, Fields
<1>6. CASE q = ReapplyIdle(tun, d) /\ tun.state # "disarmed" /\ Live(tun) = {}
  <2>1. Reapplying(tun, q, d)
    BY <1>0, <1>6, ReapplyIdleEffect
  <2>2. q.state = tun.state
    BY <2>1 DEF Reapplying, Torn, Same, Fields
  <2>3. tun' = q
    BY <1>3, <1>6, <2>2 DEF ReportedState
  <2>4. QED
    BY <1>0, <2>1, <2>3, ReapplyingFollows DEF Followed
<1>7. QED
  BY <1>4, <1>5, <1>6 DEF ApplyDefinition, q

LEMMA FramesFollow ==
  ASSUME Steady, NEW f \in tun.frames, BindOk(f) \/ BindFails(f) \/ Settle(f)
  PROVE  Followed(tun')
<1>0. WellTyped(tun) /\ Sound(tun, None) /\ Linked(tun, None) /\ Orderly(tun) /\ Typed(tun) /\ Followed(tun)
  BY DEF Steady, Ordered, IInv, Sound, Linked, Typed
<1>1. f \in FrameRecords /\ (f.kind = "reapply" => f.next \in Defs)
  BY <1>0 DEF Typed, WellTyped
<1>2. ~tun.armed
  BY <1>0 DEF Orderly, OneCall
<1>3. Unlinked(tun)
  BY <1>0, <1>2, RestIsUnlinked DEF Followed
<1>4. f.pc = "binding" => f.sock \in Socks /\ f.kind = "arm"
  BY <1>0 DEF Orderly, OneCall
<1>5. CASE BindOk(f) /\ tun.disposed
  <2>1. f.sock \in Socks /\ f.kind = "arm"
    BY <1>4, <1>5 DEF BindOk
  <2>2. Same(tun, tun', {"frames", "sock"}) /\ tun'.frames = tun.frames \ {f}
    BY <1>0, <1>5 DEF BindOk, Same, Fields, WellTyped
  <2>3. Unlinked(tun') /\ ~tun'.armed /\ tun'.disposed /\ tun'.state = tun.state
    BY <1>2, <1>3, <1>5, <2>2 DEF Unlinked, Same, Fields
  <2>4. tun'.state \in {"disarmed", "error"} \/ \E g \in tun'.frames : g.kind = "dispose"
    BY <1>0, <1>5, <2>1, <2>2, <2>3 DEF Followed, EndsDown
  <2>5. QED
    BY <2>3, <2>4, UnlinkedFollows DEF EndsDown
<1>6. CASE BindOk(f) /\ ~tun.disposed
  <2> DEFINE b == [tun EXCEPT !.frames = @ \ {f}, !.sock[f.sock].phase = "bound",
                              !.listener = f.sock, !.armed = TRUE, !.state = "listening"]
  <2>1. ~tun.disposed /\ f.sock \in Socks
    BY <1>4, <1>6 DEF BindOk
  <2>2. Same(tun, b, {"frames", "sock", "listener", "armed", "state"}) /\ b.armed /\ b.state = "listening"
    BY <1>0 DEF Same, Fields, WellTyped
  <2>3. \/ tun' = b /\ ~HoldsOpen(b)
        \/ \E a \in FreeAttempts(b) : tun' = ConnectEagerly(b, a)
    BY <1>0, <1>6, <2>1 DEF BindOk, WellTyped
  <2>4. Sound(b, None)
    <3>1. [tun.sock EXCEPT ![f.sock].phase = "bound"] \in [Socks -> [phase : SockPhases, port : Nat]]
      BY <1>0, <2>1, SockPhaseKeeps DEF WellTyped, SockPhases
    <3>2. Typed(b)
      BY <1>0, <2>1, <3>1 DEF Sound, Linked, Typed, WellTyped, States
    <3>3. QED
      BY <1>0, <3>2 DEF Sound, Linked, Typed, WellTyped, SessionIsUp, PromiseOrSession,
                    Hanging, Current, PromiseIsCurrent, LingerHasSession
  <2> HIDE DEF b
  <2>5. Unlinked(b) /\ ~b.disposed
    BY <1>3, <2>1, <2>2 DEF Unlinked, Same, Fields
  <2>6. CASE tun' = b /\ ~HoldsOpen(b)
    BY <2>2, <2>5, <2>6, UnlinkedFollows DEF EndsDown
  <2>7. CASE \E a \in FreeAttempts(b) : tun' = ConnectEagerly(b, a)
    BY <2>2, <2>4, <2>5, <2>7, ConnectEagerlyEffect, DialedEagerlyFollows
  <2>8. QED
    BY <2>3, <2>6, <2>7
<1>7. CASE BindFails(f)
  <2>1. Same(tun, tun', {"frames", "sock", "state"}) /\ tun'.state = "error"
    BY <1>0, <1>7 DEF BindFails, Same, Fields, WellTyped
  <2>2. Unlinked(tun') /\ ~tun'.armed
    BY <1>2, <1>3, <2>1 DEF Unlinked, Same, Fields
  <2>3. QED
    BY <2>1, <2>2, UnlinkedFollows DEF EndsDown
<1>8. CASE Settle(f)
  <2> DEFINE q == [tun EXCEPT !.frames = @ \ {f}, !.listener = None]
             r == [q EXCEPT !.def = f.next]
             u == [q EXCEPT !.paused = FALSE, !.state = "disarmed"]
             v == [q EXCEPT !.pendingDef = None, !.paused = FALSE, !.state = "disarmed"]
             w == [r EXCEPT !.state = "disarmed"]
  <2>1. f.kind # "arm"
    BY <1>0, <1>8 DEF Settle, Orderly, OneCall
  <2>2. \/ tun' \in {u, v, w}
        \/ f.kind = "reapply" /\ \E l \in FreeSocks(r), a \in FreeAttempts(r) : tun' = ArmTunnel(r, l, a)
    BY <1>8, <2>1 DEF Settle
  <2>3. /\ Same(tun, q, {"frames", "listener"}) /\ q.frames = tun.frames \ {f} /\ q.listener = None
        /\ Same(q, u, {"paused", "state"}) /\ u.state = "disarmed"
        /\ Same(q, v, {"paused", "state", "pendingDef"}) /\ v.state = "disarmed"
        /\ Same(q, r, {"def"}) /\ Same(q, w, {"def", "state"}) /\ w.state = "disarmed"
    BY <1>0 DEF Same, Fields, WellTyped
  <2>4. Typed(q)
    BY <1>0 DEF Sound, Linked, Typed, WellTyped
  <2>5. Sound(q, None)
    BY <1>0, <2>4 DEF Sound, Linked, Typed, WellTyped, SessionIsUp, PromiseOrSession,
                Hanging, Current, PromiseIsCurrent, LingerHasSession
  <2>6. f.kind = "reapply" => Sound(r, None)
    <3> HAVE f.kind = "reapply"
    <3>1. Typed(r)
      BY <1>1, <2>5 DEF Sound, Linked, Typed, WellTyped
    <3>2. QED
      BY <2>5, <3>1 DEF Sound, Linked, Typed, WellTyped, SessionIsUp, PromiseOrSession,
                        Hanging, Current, PromiseIsCurrent, LingerHasSession
  <2> HIDE DEF q, r, u, v, w
  <2>7. CASE tun' \in {u, v, w}
    <3>1. Same(tun, tun', {"frames", "listener", "paused", "state", "pendingDef", "def"})
          /\ tun'.state = "disarmed"
      BY <2>3, <2>7 DEF Same, Fields
    <3>2. Unlinked(tun') /\ ~tun'.armed
      BY <1>2, <1>3, <3>1 DEF Unlinked, Same, Fields
    <3>3. QED
      BY <3>1, <3>2, UnlinkedFollows DEF EndsDown
  <2>8. CASE f.kind = "reapply" /\ \E l \in FreeSocks(r), a \in FreeAttempts(r) : tun' = ArmTunnel(r, l, a)
    <3>1. /\ Same(tun, r, {"frames", "listener", "def"})
          /\ r.frames = tun.frames \ {f} /\ r.listener = None
      BY <2>3 DEF Same, Fields
    <3>2. Unlinked(r) /\ ~r.armed /\ r.disposed = tun.disposed /\ r.state = tun.state
      BY <1>2, <1>3, <3>1 DEF Unlinked, Same, Fields
    <3>3. CASE tun.disposed
      <4>1. tun' = r
        BY <2>8, <3>2, <3>3 DEF ArmTunnel
      <4>2. r.state \in {"disarmed", "error"} \/ \E g \in r.frames : g.kind = "dispose"
        BY <1>0, <2>8, <3>1, <3>2, <3>3 DEF Followed, EndsDown
      <4>3. QED
        BY <3>2, <4>1, <4>2, UnlinkedFollows DEF EndsDown
    <3>4. CASE ~tun.disposed
      <4>1. PICK l \in FreeSocks(r), a \in FreeAttempts(r) : tun' = ArmTunnel(r, l, a)
        BY <2>8
      <4>2. tun' = ArmUnbound(r, l, a)
        BY <3>1, <3>2, <3>4, <4>1 DEF ArmTunnel
      <4>3. Arming(r, tun')
        BY <2>6, <2>8, <4>2, ArmUnboundEffect
      <4>4. QED
        BY <3>2, <3>4, <4>3, ArmingFollows
    <3>5. QED
      BY <3>3, <3>4
  <2>9. QED
    BY <2>2, <2>7, <2>8
<1>9. QED
  BY <1>0, <1>6, <1>7, <1>8, <1>5 DEF WellTyped

LEMMA SocketsFollow ==
  ASSUME Steady, NEW l \in Socks, ListenerError(l) \/ SockClosed(l)
  PROVE  Followed(tun')
<1>0. WellTyped(tun) /\ Followed(tun) /\ Orderly(tun)
  BY DEF Steady, Ordered, IInv, Sound, Linked, Typed
<1>1. CASE ListenerError(l)
  <2>1. Same(tun, tun', {"state"}) /\ tun'.state = "error"
    BY <1>0, <1>1 DEF ListenerError, Same, Fields, WellTyped
  <2>2. Live(tun') = Live(tun) /\ HoldsOpen(tun') = HoldsOpen(tun)
    BY <2>1 DEF Live, HoldsOpen, Same, Fields
  <2>3. QED
    BY <1>0, <2>1, <2>2
       DEF Followed, LinkedOnce, Awaited, IdleEnds, StaysHot, EndsDown, Tells, Same, Fields
<1>2. CASE SockClosed(l)
  <2> DEFINE g(f) == IF f.sock = l /\ f.pc = "stopping"
                     THEN [f EXCEPT !.pc = "settling", !.sock = None] ELSE f
  <2>1. Same(tun, tun', {"sock", "frames"}) /\ tun'.frames = {g(f) : f \in tun.frames}
    BY <1>0, <1>2 DEF SockClosed, Same, Fields, WellTyped
  <2>2. \A f \in tun.frames : g(f).kind = f.kind
    BY <1>0 DEF WellTyped, FrameRecords
  <2> HIDE DEF g
  <2>3. /\ tun'.frames = {} => tun.frames = {}
        /\ (\E f \in tun.frames : f.kind = "dispose") => \E f \in tun'.frames : f.kind = "dispose"
    BY <2>1, <2>2
  <2>4. Live(tun') = Live(tun) /\ HoldsOpen(tun') = HoldsOpen(tun)
    BY <2>1 DEF Live, HoldsOpen, Same, Fields
  <2>5. EndsDown(tun') /\ Tells(tun')
    BY <1>0, <2>1, <2>3 DEF Followed, EndsDown, Tells, Same, Fields
  <2>6. QED
    BY <1>0, <2>1, <2>4, <2>5
       DEF Followed, LinkedOnce, Awaited, IdleEnds, StaysHot, Same, Fields
<1>3. QED
  BY <1>1, <1>2

LEMMA ClientsFollow ==
  ASSUME Steady, NEW c \in Conns, LocalAccess(c) \/ ReverseAccess(c) \/ ConnCloses(c)
  PROVE  Followed(tun')
<1>0. WellTyped(tun) /\ Orderly(tun) /\ Sound(tun, None) /\ Followed(tun)
  BY DEF Steady, Ordered, IInv, Sound, Linked, Typed
<1>1. CASE LocalAccess(c)
  <2> PICK a \in FreeAttempts(tun) :
          LET q == EnsureConnected(CancelLinger(tun), a)
          IN tun' = IF q.sshConnection # None
                    THEN [q EXCEPT !.conn[c] = "relay"]
                    ELSE [q EXCEPT !.conn[c] = "waiting", !.via[c] = q.connectPromise]
    BY <1>1 DEF LocalAccess
  <2> DEFINE p == CancelLinger(tun)
             q == EnsureConnected(p, a)
             relay == [q EXCEPT !.conn[c] = "relay"]
             waiting == [q EXCEPT !.conn[c] = "waiting", !.via[c] = q.connectPromise]
  <2>1. Sound(p, None) /\ a \in FreeAttempts(p)
    BY <1>0, CancelLingerKeeps DEF Sound, WellTyped, CancelLinger, FreeAttempts
  <2>2. tun.armed /\ tun.frames = {} /\ ~tun.disposed /\ tun.conn[c] = "none" /\ tun.via[c] = None
    BY <1>0, <1>1 DEF LocalAccess, Orderly, OwnsPorts, OneCall, Attached
  <2>3. Same(tun, p, {"lingerTimer"})
    BY <1>0 DEF CancelLinger, Same, Fields, WellTyped
  <2> HIDE DEF p
  <2>4. Sound(q, None) /\ Dialed(p, q) /\ WellTyped(p)
    BY <2>1, EnsureConnectedEffect DEF Sound, Linked, Typed
  <2>5. LinkedOnce(p)
    BY <1>0, <2>3 DEF Followed, LinkedOnce, Awaited, Same, Fields
  <2>6. /\ \A b \in Attempts :
             /\ q.dial[b] = "dialing" => q.connectPromise = b
             /\ q.dial[b] = "up" => q.sshConnection = b
             /\ q.dial[b] = "dialing" /\ b # q.connectPromise => Awaited(q, b)
        /\ q.sshConnection # None \/ q.connectPromise # None
    BY <2>4, <2>5, DialedFollows
  <2>7. Same(tun, q, {"lingerTimer", "state", "connectPromise", "dial"})
    BY <2>3, <2>4 DEF Dialed, Same, Fields
  <2>8. tun.sshConnection # None => q.state = tun.state
    BY <2>3, <2>4 DEF Dialed, Same, Fields
  <2>9. \/ tun' = relay /\ q.sshConnection # None
        \/ tun' = waiting /\ q.sshConnection = None
    BY DEF p
  <2> HIDE DEF q
  <2>10. WellTyped(q) /\ PromiseOrSession(q) /\ SessionIsUp(q)
    BY <2>4 DEF Sound, Linked, Typed
  <2>11. CASE tun' = relay /\ q.sshConnection # None
    <3>1. Same(q, relay, {"conn"}) /\ relay.conn[c] = "relay"
      BY <2>10 DEF Same, Fields, WellTyped
    <3>2. Live(relay) # {} /\ relay.via = q.via
      BY <3>1 DEF Live, Same, Fields
    <3> HIDE DEF relay
    <3>3. relay.frames = {} /\ ~relay.disposed /\ relay.armed
      BY <2>2, <2>7, <3>1 DEF Same, Fields
    <3>4. \A b \in Attempts : q.dial[b] # "dialing"
      BY <2>6, <2>10, <2>11, NoneAssumption DEF PromiseOrSession
    <3>5. LinkedOnce(relay)
      BY <2>6, <3>1, <3>4 DEF LinkedOnce, Same, Fields
    <3>6. Tells(relay) /\ StaysHot(relay)
      BY <1>0, <2>7, <2>8, <2>11, <3>1 DEF Followed, Tells, StaysHot, Same, Fields
    <3>7. QED
      BY <2>11, <3>2, <3>3, <3>5, <3>6 DEF Followed, IdleEnds, EndsDown
  <2>12. CASE tun' = waiting /\ q.sshConnection = None
    <3>1. Same(q, waiting, {"conn", "via"})
      BY <2>10 DEF Same, Fields, WellTyped
    <3>2. waiting.via = [q.via EXCEPT ![c] = q.connectPromise]
      BY <2>10 DEF WellTyped
    <3>3. waiting.via[c] = q.connectPromise
      BY <2>10, <3>2 DEF WellTyped
    <3> HIDE DEF waiting
    <3>4. /\ waiting.frames = {} /\ ~waiting.disposed /\ waiting.armed
          /\ waiting.sshConnection = None /\ waiting.connectPromise # None
      BY <2>2, <2>6, <2>7, <2>12, <3>1 DEF Same, Fields
    <3>5. LinkedOnce(waiting)
      BY <2>6, <3>1, <3>3 DEF LinkedOnce, Awaited, Same, Fields
    <3>6. QED
      BY <2>12, <3>4, <3>5 DEF Followed, IdleEnds, StaysHot, EndsDown, Tells
  <2>13. QED
    BY <2>9, <2>11, <2>12
<1>2. CASE ReverseAccess(c)
  <2>1. Same(tun, tun', {"conn"}) /\ tun'.conn[c] = "relay"
    BY <1>0, <1>2 DEF ReverseAccess, Same, Fields, WellTyped
  <2>2. Live(tun') # {} /\ HoldsOpen(tun') = HoldsOpen(tun)
    BY <2>1 DEF Live, HoldsOpen, Same, Fields
  <2>3. QED
    BY <1>0, <2>1, <2>2
       DEF Followed, LinkedOnce, Awaited, IdleEnds, StaysHot, EndsDown, Tells, Same, Fields
<1>3. CASE ConnCloses(c)
  <2> DEFINE t == DeleteConn(tun, c)
  <2>1. Typed(t)
    BY <1>0 DEF DeleteConn, Sound, Linked, Typed, WellTyped, ConnPhases
  <2>2. Linked(t, None)
    BY <1>0, <2>1 DEF DeleteConn, Sound, Linked, Typed, WellTyped, SessionIsUp, PromiseOrSession, Hanging
  <2>3. c \in Live(tun) /\ tun.armed /\ tun.frames = {}
    BY <1>0, <1>3 DEF ConnCloses, Orderly, DownWhenUnarmed, OneCall
  <2>4. Same(tun, t, {"conn", "via", "frozen"}) /\ tun' = OnIdleCheck(t)
    BY <1>0, <1>3 DEF ConnCloses, DeleteConn, Same, Fields, WellTyped
  <2>5. t.via = [tun.via EXCEPT ![c] = IF tun.conn[c] = "waiting" THEN @ ELSE None]
    BY <1>0 DEF DeleteConn, WellTyped
  <2>6. \A d \in Conns : t.via[d] = tun.via[d]
    <3>1. tun.conn[c] # "waiting" => tun.via[c] = None
      BY <1>0, <2>3 DEF Live, Orderly, Attached
    <3>2. QED
      BY <1>0, <2>5, <3>1 DEF WellTyped
  <2> HIDE DEF t
  <2>7. LinkedOnce(t) /\ EndsDown(t) /\ Tells(t) /\ StaysHot(t)
    BY <1>0, <2>4, <2>6 DEF Followed, LinkedOnce, Awaited, EndsDown, Tells, StaysHot, HoldsOpen, Same, Fields
  <2>8. \/ tun' = MaybeStartLinger(t)
        \/ Applied(t, tun')
    BY <2>2, <2>4, OnIdleCheckEffect
  <2>9. CASE tun' = MaybeStartLinger(t)
    <3>1. /\ Same(t, tun', {"lingerTimer"})
          /\ ~t.paused /\ ~HoldsOpen(t) /\ Live(t) = {} /\ t.sshConnection # None => tun'.lingerTimer
      BY <2>2, <2>9, MaybeStartLingerEffect
    <3>2. Live(tun') = Live(t) /\ HoldsOpen(tun') = HoldsOpen(t)
      BY <3>1 DEF Live, HoldsOpen, Same, Fields
    <3>3. IdleEnds(tun')
      BY <3>1, <3>2 DEF IdleEnds, Same, Fields
    <3>4. QED
      BY <2>7, <3>1, <3>2, <3>3 DEF Followed, LinkedOnce, Awaited, EndsDown, Tells, StaysHot, Same, Fields
  <2>10. CASE Applied(t, tun')
    BY <2>1, <2>7, <2>10, ReapplyingFollows DEF Applied, Typed
  <2>11. QED
    BY <2>8, <2>9, <2>10
<1>4. QED
  BY <1>1, <1>2, <1>3

LEMMA ConnectOkFollows ==
  ASSUME Steady, ~belated', NEW a \in Attempts, ConnectOk(a)
  PROVE  Followed(tun')
<1>0. WellTyped(tun) /\ Orderly(tun) /\ Sound(tun, None) /\ Followed(tun)
  BY DEF Steady, Ordered, IInv, Sound, Linked, Typed
<1>1. Connected(tun, tun', a)
  BY <1>0, ConnectOkEffect
<1>2. CASE tun.dial[a] = "dialing"
  <2>1. tun.connectPromise = a
    BY <1>0, <1>2 DEF Followed, LinkedOnce
  <2>2. tun.armed /\ tun.frames = {} /\ ~tun.disposed /\ tun.sshConnection = None
    <3>1. tun.armed
      BY <1>0, <1>2 DEF Orderly, DownWhenUnarmed
    <3>2. ~tun.disposed
      BY <3>1 DEF Steady, Ordered, Buried, Interred
    <3>3. QED
      BY <1>0, <2>1, <3>1, <3>2, NoneAssumption DEF Orderly, OneCall, Sound, Linked, PromiseOrSession
  <2>3. \A b \in Attempts \ {a} : tun.dial[b] \in {"free", "stale"}
    <3>1. \A b \in Attempts : tun.dial[b] \in {"free", "dialing", "stale", "up"} /\ b # None
      BY <1>0, NoneAssumption DEF WellTyped, DialPhases
    <3>2. QED
      BY <1>0, <2>1, <2>2, <3>1 DEF Followed, LinkedOnce
  <2>4. /\ tun'.sshConnection = a /\ tun'.state = "connected"
        /\ \A b \in Attempts \ {a} : tun'.dial[b] \in {"free", "stale"}
        /\ tun'.dial[a] = "up"
        /\ ~tun.paused /\ ~HoldsOpen(tun) /\ Live(tun) = {} => tun'.lingerTimer
    BY <1>1, <1>2, <2>2, <2>3 DEF Connected, Told
  <2>5. tun'.armed /\ tun'.frames = {} /\ ~tun'.disposed /\ tun'.def = tun.def /\ tun'.paused = tun.paused
    BY <1>1, <2>2 DEF Connected, Same, Fields
  <2>6. Live(tun) \subseteq Live(tun')
    <3> SUFFICES ASSUME NEW c \in Live(tun) PROVE c \in Live(tun')
      OBVIOUS
    <3>1. c \in Conns /\ tun.conn[c] \in {"waiting", "relay"}
      BY DEF Live
    <3>2. tun.via[c] = a => tun.conn[c] = "waiting"
      BY <1>0, <3>1, NoneAssumption DEF Orderly, Attached
    <3>3. tun'.conn[c] \in {"waiting", "relay"}
      BY <1>1, <2>2, <3>1, <3>2 DEF Connected, Told
    <3>4. QED
      BY <3>1, <3>3 DEF Live
  <2>7. LinkedOnce(tun')
    BY <2>4 DEF LinkedOnce
  <2>8. IdleEnds(tun')
    BY <2>4, <2>5, <2>6 DEF IdleEnds, HoldsOpen
  <2>9. a # None
    BY NoneAssumption
  <2>10. QED
    BY <2>4, <2>5, <2>7, <2>8, <2>9 DEF Followed, StaysHot, EndsDown, Tells
(* Nobody waits for an invalidated handshake.                              *)
<1>3. CASE tun.dial[a] = "stale"
  <2>1. tun.connectPromise = None
    BY <1>3 DEF ConnectOk
  <2>2. /\ Same(tun, tun', {"connectPromise", "eager", "retry", "dial", "conn", "frozen", "via"})
        /\ tun'.dial[a] = "free" /\ tun'.connectPromise = None
        /\ \A b \in Attempts \ {a} :
             tun'.dial[b] = tun.dial[b] /\ tun'.eager[b] = tun.eager[b] /\ tun'.retry[b] = tun.retry[b]
    BY <1>1, <1>3 DEF Connected, Told
  <2>3. \A c \in Conns : tun.conn[c] \in {"waiting", "relay"} <=> tun'.conn[c] \in {"waiting", "relay"}
    <3>1. \A c \in Conns : tun.via[c] = a => tun.conn[c] \notin {"waiting", "relay"}
      BY <1>0, <1>3, NoneAssumption DEF Sound, Linked, Hanging, Orderly, Attached, Current
    <3>2. QED
      BY <1>1, <3>1 DEF Connected, Told
  <2>4. Live(tun') = Live(tun) /\ HoldsOpen(tun') = HoldsOpen(tun)
    BY <2>2, <2>3 DEF Live, HoldsOpen, Same, Fields
  <2>5. LinkedOnce(tun')
    <3>1. \A b \in Attempts : tun.dial[b] # "dialing"
      BY <1>0, <2>1, NoneAssumption DEF Followed, LinkedOnce
    <3>2. QED
      BY <1>0, <2>2, <3>1 DEF Followed, LinkedOnce, Same, Fields
  <2>6. QED
    BY <1>0, <2>1, <2>2, <2>4, <2>5 DEF Followed, IdleEnds, StaysHot, EndsDown, Tells, Same, Fields
<1>4. QED
  BY <1>2, <1>3 DEF ConnectOk

LEMMA ConnectFailsFollows ==
  ASSUME Steady, ~belated', NEW a \in Attempts, ConnectFails(a)
  PROVE  Followed(tun')
<1>0. WellTyped(tun) /\ Orderly(tun) /\ Sound(tun, None) /\ Followed(tun) /\ IInv
  BY DEF Steady, Ordered, IInv, Sound, Linked, Typed
<1>1. Failed(tun, tun', a)
  BY <1>0, ConnectFailsEffect
<1> PICK q : /\ Same(tun, q, {"connectPromise", "eager", "retry", "dial", "conn", "via"})
             /\ q.dial[a] = "free"
             /\ Told(tun, q, a, FALSE)
             /\ Retried(q, tun')
             /\ IF Awaited(tun, a) THEN Answered(q, tun') ELSE tun' = q
  BY <1>1 DEF Failed, Awaited
<1>2. Same(q, tun', {"reconnectAttempts", "reconnecting", "state", "reconnectTimer"})
  BY DEF Retried
<1>3. CASE tun.dial[a] = "dialing"
  <2>1. tun.connectPromise = a /\ Awaited(tun, a)
    BY <1>0, <1>3 DEF Followed, LinkedOnce
  <2>2. tun.armed /\ tun.frames = {} /\ ~tun.disposed /\ tun.sshConnection = None
    <3>1. tun.armed
      BY <1>0, <1>3 DEF Orderly, DownWhenUnarmed
    <3>2. ~tun.disposed
      BY <3>1 DEF Steady, Ordered, Buried, Interred
    <3>3. QED
      BY <1>0, <2>1, <3>1, <3>2, NoneAssumption DEF Orderly, OneCall, Sound, Linked, PromiseOrSession
  <2>3. \A b \in Attempts \ {a} : tun.dial[b] \in {"free", "stale"}
    <3>1. \A b \in Attempts : tun.dial[b] \in {"free", "dialing", "stale", "up"} /\ b # None
      BY <1>0, NoneAssumption DEF WellTyped, DialPhases
    <3>2. QED
      BY <1>0, <2>1, <2>2, <3>1 DEF Followed, LinkedOnce
  <2>4. Unlinked(q) /\ q.armed /\ ~q.disposed
    BY <2>2, <2>3 DEF Unlinked, Told, Same, Fields
  <2>5. Unlinked(tun') /\ tun'.armed /\ ~tun'.disposed /\ HoldsOpen(tun') = HoldsOpen(q)
    BY <1>2, <2>4 DEF Unlinked, HoldsOpen, Same, Fields
  <2>6. /\ HoldsOpen(q) => tun'.reconnectTimer
        /\ tun'.reconnectTimer \/ tun'.state \in {"error", "disarmed"}
    BY <2>1, <2>4 DEF Answered
  <2>7. QED
    BY <2>5, <2>6, UnlinkedFollows DEF EndsDown
(* An invalidated handshake that nobody waits for: nothing reacts.         *)
<1>4. CASE tun.dial[a] = "stale" /\ ~tun.disposed
  <2>1. tun.connectPromise = None /\ tun' = q
    BY <1>4 DEF ConnectFails, StillAsked, Awaited
  <2>2. /\ Same(tun, tun', {"connectPromise", "eager", "retry", "dial", "conn", "via"})
        /\ tun'.dial[a] = "free" /\ tun'.connectPromise = None
        /\ \A b \in Attempts \ {a} :
             tun'.dial[b] = tun.dial[b] /\ tun'.eager[b] = tun.eager[b] /\ tun'.retry[b] = tun.retry[b]
    BY <2>1 DEF Told
  <2>3. \A c \in Conns : tun'.conn[c] = tun.conn[c]
    BY <1>4, <2>1 DEF Told, ConnectFails, StillAsked
  <2>4. Live(tun') = Live(tun) /\ HoldsOpen(tun') = HoldsOpen(tun)
    BY <2>2, <2>3 DEF Live, HoldsOpen, Same, Fields
  <2>5. LinkedOnce(tun')
    <3>1. \A b \in Attempts : tun.dial[b] # "dialing"
      BY <1>0, <2>1, NoneAssumption DEF Followed, LinkedOnce
    <3>2. QED
      BY <1>0, <2>2, <3>1 DEF Followed, LinkedOnce, Same, Fields
  <2>6. QED
    BY <1>0, <2>1, <2>2, <2>4, <2>5 DEF Followed, IdleEnds, StaysHot, EndsDown, Tells, Same, Fields
(* A disposed tunnel retries nothing.                                      *)
<1>5. CASE tun.dial[a] = "stale" /\ tun.disposed
  <2>1. ~tun.armed /\ ~tun.reconnectTimer
    BY <1>5 DEF Steady, Ordered, Buried, Interred
  <2>2. Unlinked(tun)
    BY <1>0, <2>1, RestIsUnlinked DEF Followed
  <2>3. /\ tun'.frames = tun.frames /\ ~tun'.armed /\ tun'.disposed
        /\ tun'.sshConnection = None /\ tun'.connectPromise = None
        /\ tun'.state \in {tun.state, "error", "disarmed"}
    BY <1>5, <2>1, <2>2 DEF Retried, Unlinked, Told, Same, Fields
  <2>4. tun'.dial = q.dial
    BY <1>2 DEF Same, Fields
  <2>5. Unlinked(tun')
    BY <2>2, <2>3, <2>4 DEF Unlinked, Told
  <2>6. EndsDown(tun')
    BY <1>0, <1>5, <2>1, <2>3 DEF Followed, EndsDown
  <2>7. QED
    BY <2>3, <2>5, <2>6, UnlinkedFollows DEF EndsDown
<1>6. QED
  BY <1>0, <1>3, <1>4, <1>5 DEF ConnectFails, WellTyped

(* A tunnel whose session is gone, its clients failed with it: it retries, *)
(* or waits for the next client.                                           *)
LEMMA LostFollows ==
  ASSUME NEW p, NEW t, Linked(p, None), Unlinked(p), p.armed, ~p.disposed,
         LET e == CancelLinger(FailAllConnections(p))
         IN  \/ ShouldStayHot(e) /\ t = AttemptReconnect(e)
             \/ ~ShouldStayHot(e) /\ \E v \in {"listening", "error", "disarmed"} :
                  /\ v = "disarmed" => ~e.armed
                  /\ t = [e EXCEPT !.state = v] \/ t = MaybeApplyPending([e EXCEPT !.state = v])
  PROVE  Followed(t)
<1> DEFINE q == ClearConns(p)
           h == FailAllConnections(p)
           e == CancelLinger(h)
<1>1. /\ Linked(h, None) /\ Linked(q, None) /\ Cleared(p, q)
      /\ h = q \/ h = MaybeStartLinger(q) \/ Applied(q, h)
  BY FailAllConnectionsEffect
<1>2. Unlinked(q) /\ q.armed /\ ~q.disposed /\ LinkedOnce(q) /\ Live(q) = {}
  BY <1>1 DEF Cleared, Unlinked, LinkedOnce, Live, Same, Fields
<1>3. WellTyped(q)
  BY <1>1 DEF Linked, Typed
<1> HIDE DEF q, h
<1>4. Unlinked(h) /\ ~h.disposed /\ (~h.armed => h.frames # {}) /\ Linked(h, None) /\ Live(h) = {}
  <2>1. CASE h = q
    BY <1>1, <1>2, <2>1
  <2>2. CASE h = MaybeStartLinger(q)
    <3>1. Same(q, h, {"lingerTimer"})
      BY <1>1, <2>2, MaybeStartLingerEffect
    <3>2. QED
      BY <1>1, <1>2, <3>1 DEF Unlinked, Live, Same, Fields
  <2>3. CASE Applied(q, h)
    <3>1. Torn(q, h) /\ h.frames # {}
      BY <2>3 DEF Applied, Reapplying
    <3>2. h.disposed = q.disposed /\ Live(h) = {}
      BY <3>1 DEF Torn, Live, Same, Fields
    <3>3. QED
      BY <1>1, <1>2, <1>3, <3>1, <3>2, TornUnlinks
  <2>4. QED
    BY <1>1, <2>1, <2>2, <2>3
<1>5. Linked(e, None) /\ Same(h, e, {"lingerTimer"}) /\ ~e.lingerTimer
  BY <1>4, CancelLingerEffect
<1> HIDE DEF e
<1>6. Unlinked(e) /\ ~e.disposed /\ (~e.armed => e.frames # {}) /\ Live(e) = {}
  BY <1>4, <1>5 DEF Unlinked, Live, Same, Fields
<1>7. WellTyped(e)
  BY <1>5 DEF Linked, Typed
<1>8. CASE ShouldStayHot(e) /\ t = AttemptReconnect(e)
  <2>1. Sound(e, None)
    BY <1>5, <1>6, <1>7 DEF Sound, Current, PromiseIsCurrent, LingerHasSession, Unlinked, Live, Linked
  <2>2. Retried(e, t) /\ t.reconnectTimer
    BY <1>6, <1>8, <2>1, AttemptReconnectEffect
  <2>3. Same(e, t, {"reconnectAttempts", "reconnecting", "state", "reconnectTimer"})
    BY <2>2 DEF Retried
  <2>4. Unlinked(t) /\ ~t.disposed /\ (~t.armed => t.frames # {})
    BY <1>6, <2>3 DEF Unlinked, Same, Fields
  <2>5. QED
    BY <2>2, <2>4, UnlinkedFollows DEF EndsDown
<1>9. ASSUME NEW v \in {"listening", "error", "disarmed"}, ~ShouldStayHot(e), v = "disarmed" => ~e.armed,
             t = [e EXCEPT !.state = v] \/ t = MaybeApplyPending([e EXCEPT !.state = v])
      PROVE  Followed(t)
  <2> DEFINE w == [e EXCEPT !.state = v]
  <2>1. Same(e, w, {"state"}) /\ w.state = v
    BY <1>7 DEF WellTyped, Same, Fields
  <2>2. Linked(w, None)
    <3>1. Typed(w)
      BY <1>5 DEF Linked, Typed, WellTyped, States
    <3>2. QED
      BY <1>5, <3>1 DEF Linked, Typed, WellTyped, SessionIsUp, PromiseOrSession, Hanging
  <2>3. t = w \/ t = MaybeApplyPending(w)
    BY <1>9
  <2> HIDE DEF w
  <2>4. Unlinked(w) /\ ~w.disposed /\ (~w.armed => w.frames # {}) /\ ~HoldsOpen(w)
    BY <1>6, <1>9, <2>1 DEF Unlinked, ShouldStayHot, HoldsOpen, Same, Fields
  <2>5. EndsDown(w)
    BY <2>4 DEF EndsDown
  <2>6. Followed(w)
    BY <2>1, <2>4, <2>5, UnlinkedFollows
  <2>7. CASE Applied(w, t)
    <3>1. WellTyped(w)
      BY <2>2 DEF Linked, Typed
    <3>2. QED
      BY <2>5, <2>6, <2>7, <3>1, ReapplyingFollows DEF Followed, Applied
  <2>8. QED
    BY <2>2, <2>3, <2>6, <2>7, MaybeApplyPendingEffect
<1>10. QED
  BY <1>8, <1>9 DEF e, h

LEMMA SessionsFollow ==
  ASSUME Steady, NEW a \in Attempts,
         Drop(a) \/ RemoteForwardOk(a) \/ RemoteForwardFails(a)
  PROVE  Followed(tun')
<1>0. WellTyped(tun) /\ Orderly(tun) /\ Sound(tun, None) /\ Linked(tun, None) /\ Typed(tun) /\ Followed(tun)
  BY DEF Steady, Ordered, IInv, Sound, Linked, Typed
<1>1. ASSUME tun.sshConnection = a
      PROVE  /\ tun.armed /\ ~tun.disposed /\ tun.connectPromise = None
             /\ \A b \in Attempts \ {a} : tun.dial[b] \in {"free", "stale"}
             /\ tun.dial[a] = "up"
  <2>1. tun.sshConnection # None
    BY <1>1, NoneAssumption
  <2>2. tun.armed
    BY <1>0, <2>1 DEF Orderly, DownWhenUnarmed
  <2>3. ~tun.disposed
    BY <2>2 DEF Steady, Ordered, Buried, Interred
  <2>4. tun.connectPromise = None /\ tun.dial[a] = "up"
    BY <1>0, <1>1, <2>1 DEF Linked, PromiseOrSession, SessionIsUp
  <2>5. \A b \in Attempts : tun.dial[b] \in {"free", "dialing", "stale", "up"} /\ b # None
    BY <1>0, NoneAssumption DEF WellTyped, DialPhases
  <2>6. \A b \in Attempts \ {a} : tun.dial[b] \in {"free", "stale"}
    BY <1>0, <1>1, <2>4, <2>5 DEF Followed, LinkedOnce
  <2>7. QED
    BY <2>2, <2>3, <2>4, <2>6
<1>2. CASE Drop(a)
  <2> DEFINE q == [tun EXCEPT !.dial[a] = "free", !.forward[a] = FALSE]
             p == [q EXCEPT !.sshConnection = None]
  <2>1. tun.dial[a] = "up" /\ tun.sshConnection = a
    BY <1>0, <1>2 DEF Drop, Followed, LinkedOnce
  <2>2. tun' = HandleDrop(q)
    BY <1>2, <2>1 DEF Drop
  <2>3. Typed(p)
    BY <1>0 DEF Typed, WellTyped, DialPhases
  <2>4. Linked(p, None)
    BY <1>0, <2>1, <2>3 DEF Linked, Typed, WellTyped, SessionIsUp, PromiseOrSession, Hanging
  <2>5. Same(tun, p, {"dial", "forward", "sshConnection"}) /\ p.sshConnection = None
    BY <1>0 DEF Same, Fields, WellTyped
  <2>6. \A b \in Attempts : p.dial[b] = IF b = a THEN "free" ELSE tun.dial[b]
    BY <1>0 DEF WellTyped
  <2>7. Unlinked(p) /\ p.armed /\ ~p.disposed
    BY <1>1, <2>1, <2>5, <2>6 DEF Unlinked, Same, Fields
  <2>8. LET e == CancelLinger(FailAllConnections(p))
        IN  \/ ShouldStayHot(e) /\ tun' = AttemptReconnect(e)
            \/ ~ShouldStayHot(e) /\ tun' = MaybeApplyPending([e EXCEPT !.state = "listening"])
    BY <2>2 DEF HandleDrop
  <2> HIDE DEF p
  <2>9. QED
    BY <2>4, <2>7, <2>8, LostFollows
<1>3. CASE RemoteForwardOk(a)
  <2>1. Same(tun, tun', {"forward"})
    BY <1>0, <1>3 DEF RemoteForwardOk, Same, Fields, WellTyped
  <2>2. Live(tun') = Live(tun) /\ HoldsOpen(tun') = HoldsOpen(tun)
    BY <2>1 DEF Live, HoldsOpen, Same, Fields
  <2>3. QED
    BY <1>0, <2>1, <2>2
       DEF Followed, LinkedOnce, Awaited, IdleEnds, StaysHot, EndsDown, Tells, Same, Fields
<1>4. CASE RemoteForwardFails(a)
  <2> DEFINE q == [tun EXCEPT !.forward[a] = FALSE]
             p == DisposeSsh(q)
  <2>1. Same(tun, q, {"forward"})
    BY <1>0 DEF Same, Fields, WellTyped
  <2>2. Linked(q, None) /\ WellTyped(q)
    <3>1. Typed(q)
      BY <1>0 DEF Typed, WellTyped
    <3>2. QED
      BY <1>0, <3>1 DEF Linked, Typed, WellTyped, SessionIsUp, PromiseOrSession, Hanging
  <2>3. LET e == CancelLinger(FailAllConnections(p))
        IN tun' = IF tun.sshConnection # a THEN q
                  ELSE IF ShouldStayHot(e) THEN AttemptReconnect(e)
                  ELSE [e EXCEPT !.state = IF e.armed THEN "error" ELSE "disarmed"]
    BY <1>4 DEF RemoteForwardFails
  <2> HIDE DEF q
  <2>4. CASE tun.sshConnection # a
    <3>1. tun' = q
      BY <2>3, <2>4
    <3>2. Live(tun') = Live(tun) /\ HoldsOpen(tun') = HoldsOpen(tun)
      BY <2>1, <3>1 DEF Live, HoldsOpen, Same, Fields
    <3>3. QED
      BY <1>0, <2>1, <3>1, <3>2
         DEF Followed, LinkedOnce, Awaited, IdleEnds, StaysHot, EndsDown, Tells, Same, Fields
  <2>5. CASE tun.sshConnection = a
    <3>1. Linked(p, None)
      BY <2>2, DisposeSshKeeps
    <3>2. /\ Same(q, p, {"sshConnection", "connectPromise", "dial", "forward"})
          /\ p.sshConnection = None /\ p.connectPromise = None
          /\ \A b \in Attempts : p.dial[b] = IF b = q.sshConnection THEN "free" ELSE q.dial[b]
      BY <2>2 DEF DisposeSsh, WellTyped, Same, Fields
    <3> HIDE DEF p
    <3>3. q.sshConnection = a /\ q.dial = tun.dial /\ q.armed /\ ~q.disposed
      BY <1>1, <2>1, <2>5 DEF Same, Fields
    <3>4. Unlinked(p) /\ p.armed /\ ~p.disposed
      BY <1>1, <2>5, <3>2, <3>3 DEF Unlinked, Same, Fields
    <3>5. LET e == CancelLinger(FailAllConnections(p))
          IN  \/ ShouldStayHot(e) /\ tun' = AttemptReconnect(e)
              \/ ~ShouldStayHot(e) /\ e.armed /\ tun' = [e EXCEPT !.state = "error"]
              \/ ~ShouldStayHot(e) /\ ~e.armed /\ tun' = [e EXCEPT !.state = "disarmed"]
      BY <2>3, <2>5
    <3>6. QED
      BY <3>1, <3>4, <3>5, LostFollows
  <2>6. QED
    BY <2>4, <2>5
<1>5. QED
  BY <1>2, <1>3, <1>4

LEMMA TimersFollow ==
  ASSUME Steady, RetryFires \/ LingerFires
  PROVE  Followed(tun')
<1>0. WellTyped(tun) /\ Orderly(tun) /\ Sound(tun, None) /\ Linked(tun, None) /\ Typed(tun) /\ Followed(tun)
  BY DEF Steady, Ordered, IInv, Sound, Linked, Typed
<1>1. CASE RetryFires
  <2> DEFINE q == [tun EXCEPT !.reconnectTimer = FALSE]
  <2>1. Same(tun, q, {"reconnectTimer"})
    BY <1>0 DEF Same, Fields, WellTyped
  <2>2. Sound(q, None)
    <3>1. Typed(q)
      BY <1>0 DEF Typed, WellTyped
    <3>2. QED
      BY <1>0, <3>1 DEF Sound, Linked, Typed, WellTyped, SessionIsUp, PromiseOrSession,
                  Hanging, Current, PromiseIsCurrent, LingerHasSession
  <2>3. \/ tun' = q /\ (q.disposed \/ ~q.armed)
        \/ /\ ~q.disposed /\ q.armed
           /\ \E a \in FreeAttempts(q) :
             LET r == EnsureConnected(q, a)
             IN tun' = IF r.sshConnection # None THEN r
                       ELSE [r EXCEPT !.retry[r.connectPromise] = TRUE]
    BY <1>1 DEF RetryFires
  <2> HIDE DEF q
  <2>4. LinkedOnce(q) /\ IdleEnds(q) /\ EndsDown(q)
    <3>1. Live(q) = Live(tun) /\ HoldsOpen(q) = HoldsOpen(tun)
      BY <2>1 DEF Live, HoldsOpen, Same, Fields
    <3>2. QED
      BY <1>0, <2>1, <3>1 DEF Followed, LinkedOnce, Awaited, IdleEnds, EndsDown, Same, Fields
  <2>5. CASE tun' = q /\ (q.disposed \/ ~q.armed)
    <3>1. ~q.armed
      <4>1. tun.disposed => ~tun.armed
        BY DEF Steady, Ordered, Buried, Interred
      <4>2. QED
        BY <2>1, <2>5, <4>1 DEF Same, Fields
    <3>2. StaysHot(q) /\ Tells(q)
      BY <1>0, <2>1, <2>4, <3>1 DEF Followed, StaysHot, EndsDown, Tells, Same, Fields
    <3>3. QED
      BY <2>4, <2>5, <3>2 DEF Followed
  <2>6. ASSUME ~q.disposed, q.armed, NEW a \in FreeAttempts(q),
               LET r == EnsureConnected(q, a)
               IN tun' = IF r.sshConnection # None THEN r
                         ELSE [r EXCEPT !.retry[r.connectPromise] = TRUE]
        PROVE  Followed(tun')
    <3> DEFINE r == EnsureConnected(q, a)
               t == [r EXCEPT !.retry[r.connectPromise] = TRUE]
    <3>1. Sound(r, None) /\ Dialed(q, r)
      BY <2>2, EnsureConnectedEffect
    <3>2. /\ \A b \in Attempts :
               /\ r.dial[b] = "dialing" => r.connectPromise = b
               /\ r.dial[b] = "up" => r.sshConnection = b
               /\ r.dial[b] = "dialing" /\ b # r.connectPromise => Awaited(r, b)
          /\ r.sshConnection # None \/ r.connectPromise # None
      BY <2>2, <2>4, <3>1, DialedFollows DEF Sound, Linked, Typed
    <3>3. (tun' = r /\ r.sshConnection # None) \/ (tun' = t /\ r.sshConnection = None)
      BY <2>6
    <3> HIDE DEF r
    <3>4. WellTyped(r)
      BY <3>1 DEF Sound, Linked, Typed
    <3>5. Same(q, r, {"state", "connectPromise", "dial"}) /\ r.armed /\ ~r.disposed
      BY <2>6, <3>1 DEF Dialed, Same, Fields
    <3>6. CASE tun' = r /\ r.sshConnection # None
      <4>1. r = q
        BY <3>1, <3>5, <3>6 DEF Dialed, Same, Fields
      <4>2. StaysHot(q) /\ Tells(q)
        <5>1. q.sshConnection # None /\ q.sshConnection = tun.sshConnection
          BY <2>1, <3>6, <4>1 DEF Same, Fields
        <5>2. q.state = tun.state /\ tun.state \in {"connected", "error"}
          BY <1>0, <2>1, <5>1 DEF Followed, Tells, Same, Fields
        <5>3. QED
          BY <5>1, <5>2 DEF StaysHot, Tells
      <4>3. QED
        BY <2>4, <3>6, <4>1, <4>2 DEF Followed
    <3>7. CASE tun' = t /\ r.sshConnection = None
      <4>1. r.connectPromise \in Attempts
        BY <3>2, <3>4, <3>7 DEF WellTyped
      <4>2. Same(r, t, {"retry"}) /\ t.retry[r.connectPromise]
        BY <3>4, <4>1 DEF WellTyped, Same, Fields
      <4> HIDE DEF t
      <4>3. LinkedOnce(t)
        BY <3>2, <4>2 DEF LinkedOnce, Awaited, Same, Fields
      <4>4. t.sshConnection = None /\ t.connectPromise # None /\ t.armed /\ ~t.disposed
        BY <3>2, <3>5, <3>7, <4>2 DEF Same, Fields
      <4>5. QED
        BY <3>7, <4>3, <4>4 DEF Followed, IdleEnds, StaysHot, EndsDown, Tells
    <3>8. QED
      BY <3>3, <3>6, <3>7
  <2>7. QED
    BY <2>3, <2>5, <2>6
<1>2. CASE LingerFires
  <2> DEFINE q == CancelLinger(tun)
             p == DisposeSsh(q)
             t == [p EXCEPT !.state = "listening"]
  <2>1. /\ tun.sshConnection # None /\ Live(tun) = {} /\ ~HoldsOpen(tun) /\ tun.armed
        /\ tun.frames = {} /\ ~tun.disposed /\ tun.connectPromise = None
    <3>1. tun.sshConnection # None /\ Live(tun) = {} /\ ~HoldsOpen(tun)
      BY <1>0, <1>2 DEF LingerFires, Orderly, IdleTimed, Sound, LingerHasSession
    <3>2. tun.armed /\ tun.frames = {}
      BY <1>0, <3>1 DEF Orderly, DownWhenUnarmed, OneCall
    <3>3. ~tun.disposed /\ tun.connectPromise = None
      BY <1>0, <3>1, <3>2 DEF Steady, Ordered, Buried, Interred, Linked, PromiseOrSession
    <3>4. QED
      BY <3>1, <3>2, <3>3
  <2>2. Linked(q, None) /\ Same(tun, q, {"lingerTimer"})
    BY <1>0, CancelLingerEffect
  <2>3. tun' = MaybeApplyPending(t) \/ Live(q) # {} \/ q.sshConnection = None
    BY <1>2 DEF LingerFires
  <2> HIDE DEF q
  <2>4. Linked(p, None) /\ WellTyped(q)
    BY <2>2, DisposeSshKeeps DEF Linked, Typed
  <2>5. /\ Same(q, p, {"sshConnection", "connectPromise", "dial", "forward"})
        /\ p.sshConnection = None /\ p.connectPromise = None
        /\ \A b \in Attempts : p.dial[b] = IF b = q.sshConnection THEN "free" ELSE q.dial[b]
    BY <2>4 DEF DisposeSsh, WellTyped, Same, Fields
  <2> HIDE DEF p
  <2>6. WellTyped(p)
    BY <2>4 DEF Linked, Typed
  <2>7. Linked(t, None) /\ Same(p, t, {"state"}) /\ t.state = "listening"
    <3>1. Typed(t)
      BY <2>4 DEF Linked, Typed, WellTyped, States
    <3>2. Linked(t, None)
      BY <2>4, <3>1 DEF Linked, Typed, WellTyped, SessionIsUp, PromiseOrSession, Hanging
    <3>3. Same(p, t, {"state"}) /\ t.state = "listening"
      BY <2>6 DEF Same, Fields, WellTyped
    <3>4. QED
      BY <3>2, <3>3
  <2> HIDE DEF t
  <2>8. Unlinked(t)
    <3>1. ASSUME NEW b \in Attempts PROVE t.dial[b] \in {"free", "stale"}
      <4>1. t.dial[b] = IF b = tun.sshConnection THEN "free" ELSE tun.dial[b]
        BY <2>2, <2>5, <2>7 DEF Same, Fields
      <4>2. tun.dial[b] \in {"free", "dialing", "stale", "up"} /\ b # None
        BY <1>0, NoneAssumption DEF WellTyped, DialPhases
      <4>3. QED
        BY <1>0, <2>1, <4>1, <4>2 DEF Followed, LinkedOnce
    <3>2. t.sshConnection = None /\ t.connectPromise = None
      BY <2>5, <2>7 DEF Same, Fields
    <3>3. QED
      BY <3>1, <3>2 DEF Unlinked
  <2>9. t.armed /\ ~t.disposed /\ ~HoldsOpen(t) /\ t.frames = {}
    BY <2>1, <2>2, <2>5, <2>7 DEF HoldsOpen, Same, Fields
  <2>10. Followed(t)
    BY <2>7, <2>8, <2>9, UnlinkedFollows DEF EndsDown
  <2>11. tun' = MaybeApplyPending(t)
    BY <2>1, <2>2, <2>3 DEF Live, Same, Fields
  <2>12. CASE Applied(t, tun')
    <3>1. WellTyped(t)
      BY <2>7 DEF Linked, Typed
    <3>2. QED
      BY <2>10, <2>12, <3>1, ReapplyingFollows DEF Followed, Applied
  <2>13. QED
    BY <2>7, <2>10, <2>11, <2>12, MaybeApplyPendingEffect
<1>3. QED
  BY <1>1, <1>2

(* Once an invalidated handshake has counted, the history says so for good. *)
LEMMA BelatedStays == [Next]_vars /\ ~belated' => ~belated
BY DEF Next, vars, Arm, Disarm, Dispose, ForceApply, Pause, Resume, Reconcile, BindOk, BindFails,
       Settle, ListenerError, SockClosed, LocalAccess, ReverseAccess, ConnCloses, ConnectOk,
       ConnectFails, Drop, RemoteForwardOk, RemoteForwardFails, RetryFires, LingerFires

LEMMA NextFollows ==
  ASSUME UInv, [Next]_vars
  PROVE  UInv'
<1>1. SInv'
  BY NextInOrder DEF UInv
<1>2. CASE ~Undisturbed'
  BY <1>1, <1>2 DEF UInv
<1>3. CASE Undisturbed'
  <2>1. ~crossed' /\ ~belated' /\ Undisturbed
    BY <1>3, CrossedStays, BelatedStays DEF Undisturbed
  <2>2. Steady
    BY <2>1 DEF UInv, SInv, Steady, Ordered, Undisturbed
  <2>3. CASE UNCHANGED vars
    BY <1>1, <2>2, <2>3 DEF vars, UInv, Steady
  <2>4. CASE Next
    <3>1. Followed(tun')
      BY <2>1, <2>2, <2>4, CallsFollow, ReconcileFollows, FramesFollow, SocketsFollow, ClientsFollow,
         ConnectOkFollows, ConnectFailsFollows, SessionsFollow, TimersFollow DEF Next
    <3>2. QED
      BY <1>1, <3>1 DEF UInv
  <2>5. QED
    BY <2>3, <2>4
<1>4. QED
  BY <1>2, <1>3

(* The invariant the last theorem rests on.                                *)
THEOREM LinkFollowsInductive == Spec => []UInv
<1>1. Init /\ SInv => UInv
  BY DEF UInv, Init, NewTunnel, Followed, LinkedOnce, IdleEnds, StaysHot, EndsDown, Tells
<1>2. UInv /\ [Next]_vars => UInv'
  BY NextFollows
<1>3. QED
  BY <1>1, <1>2, OrderInductive, PTL DEF Spec

(* Until an invalidated handshake answers where it still counts (and no    *)
(* start or edit has met a suspended call), with stops, edits and drops in *)
(* any handshake: there is one link at a time, an idle session is on the   *)
(* timer, a held-open tunnel has its session or what will bring it back,   *)
(* and the state shown is true.                                            *)
THEOREM NeedFollowed == Spec => []LinkFollowsNeed
<1>1. UInv => LinkFollowsNeed
  <2> SUFFICES ASSUME UInv, Undisturbed PROVE LinkFollowsNeed
    BY DEF LinkFollowsNeed
  <2>1. Followed(tun)
    BY DEF UInv
  <2>2. IdleSessionIsTimed /\ HeldOpenNeverStalls /\ StateTellsSession
    BY <2>1 DEF Followed, IdleEnds, StaysHot, Tells, IdleSessionIsTimed, HeldOpenNeverStalls,
                StateTellsSession
  <2>3. DisarmedIsFinal
    BY <2>1 DEF Followed, EndsDown, DisarmedIsFinal
  <2>4. OneLink
    <3> DEFINE D == {a \in Attempts : tun.dial[a] = "dialing"}
    <3>1. \A a \in Attempts : tun.dial[a] = "up" => tun.sshConnection = a
      BY <2>1 DEF Followed, LinkedOnce
    <3>2. D = {} \/ D = {tun.connectPromise}
      BY <2>1 DEF Followed, LinkedOnce
    <3> HIDE DEF D
    <3>3. Cardinality(D) \in {0, 1}
      BY <3>2, FS_EmptySet, FS_Singleton
    <3>4. Cardinality(D) <= 1
      BY <3>3
    <3>5. QED
      BY <3>1, <3>4 DEF OneLink, D
  <2>5. QED
    BY <2>2, <2>3, <2>4 DEF LinkFollowsNeed
<1>2. QED
  BY <1>1, LinkFollowsInductive, PTL

===============================================================================
