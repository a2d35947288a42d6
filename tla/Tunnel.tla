------------------------------- MODULE Tunnel -------------------------------
(***************************************************************************)
(* One Tunnel object (src/app/tunnel/tunnel.js) with the Listener it binds *)
(* and the SSH attempts it starts: arm / disarm / dispose, edits, pause,   *)
(* lazy connect, drop and reconnect, idle teardown.                        *)
(*                                                                         *)
(* The program is one JavaScript event loop.  An action is one macrotask:  *)
(* everything a handler does up to its first `await`, synchronous          *)
(* callbacks included.  A private method is an operator from the object's  *)
(* state to its next state, so a nested call is a nested application.      *)
(* What an `await` suspends is a frame in tun.frames; the promise          *)
(* continuations of one settled SSH attempt run in the macrotask that      *)
(* settles it, before any other handler can.                               *)
(*                                                                         *)
(* Left out: error strings, the event log, snapshots, byte counts and the  *)
(* length of delays (a running timer may fire at any moment).  A dynamic   *)
(* tunnel differs from a local one only in the relay it starts, so a       *)
(* definition says `remote` or not.                                        *)
(***************************************************************************)
EXTENDS Naturals, FiniteSets

CONSTANTS
  Defs,                 \* the definitions a user may save
  Attempts,             \* connectChain calls that can be outstanding at once
  Conns,                \* accepted client connections alive at once
  Socks,                \* listening sockets alive at once
  None,                 \* null
  MaxReconnectAttempts  \* BOUND: the largest maxAttempts a policy sets

ASSUME DefsAssumption ==
  Defs \subseteq [remote : BOOLEAN, keepAlive : BOOLEAN, autoReconnect : BOOLEAN,
                  enabled : BOOLEAN, port : Nat]

ASSUME NoneAssumption == None \notin Defs \cup Attempts \cup Conns \cup Socks

ASSUME PolicyAssumption == MaxReconnectAttempts \in Nat

VARIABLES
  tun,    \* the Tunnel object and the sockets and attempts it has started
  saved,  \* the definition the store holds: what engine.reconcile() reads
  wanted,  \* history: what the last engine call asked for
  crossed, \* history: a start or an edit has met a suspended call
  belated  \* history: an invalidated handshake has answered where it still counts

(* The histories are read by properties only; no guard depends on them.    *)
vars == <<tun, saved, wanted, crossed, belated>>

(* "overtaken": a stop that met a suspended call which goes on to arm.      *)
Wants == {"up", "down", "overtaken"}

States == {"disarmed", "listening", "connecting", "connected", "error"}

(* "stale" is "dialing" under an older #connectGeneration.                 *)
DialPhases == {"free", "dialing", "stale", "up"}

(* "gone": out of #connections, its ensureConnected() continuation still   *)
(* attached to the attempt.                                                *)
ConnPhases == {"none", "waiting", "gone", "relay"}

SockPhases == {"free", "binding", "bound", "closing"}

(* A suspended call: "stopping" awaits a socket's close, "settling" awaits *)
(* an already resolved promise, "binding" awaits listener.start().         *)
FrameRecords ==
  [kind : {"arm", "disarm", "dispose", "reapply"},
   pc   : {"stopping", "settling", "binding"},
   sock : Socks \cup {None},
   next : Defs \cup {None}]

(* The fields of the object, and what each may hold.                       *)
WellTyped(s) ==
  /\ DOMAIN s =
       {"def", "pendingDef", "armed", "disposed", "paused", "state", "listener",
        "sshConnection", "connectPromise", "lingerTimer", "reconnectTimer",
        "reconnectAttempts", "reconnecting", "dial", "eager", "retry", "forward",
        "conn", "via", "frozen", "sock", "frames"}
  /\ s.def               \in Defs
  /\ s.pendingDef        \in Defs \cup {None}
  /\ s.armed             \in BOOLEAN
  /\ s.disposed          \in BOOLEAN
  /\ s.paused            \in BOOLEAN
  /\ s.state             \in States
  /\ s.listener          \in Socks \cup {None}
  /\ s.sshConnection     \in Attempts \cup {None}
  /\ s.connectPromise    \in Attempts \cup {None}
  /\ s.lingerTimer       \in BOOLEAN
  /\ s.reconnectTimer    \in BOOLEAN
  /\ s.reconnectAttempts \in 0..MaxReconnectAttempts
  /\ s.reconnecting      \in BOOLEAN
  /\ s.dial              \in [Attempts -> DialPhases]
  /\ s.eager             \in [Attempts -> BOOLEAN]   \* .catch(#failConnect) attached
  /\ s.retry             \in [Attempts -> BOOLEAN]   \* .catch(#onReconnectFailed) attached
  /\ s.forward           \in [Attempts -> BOOLEAN]   \* forwardIn() outstanding
  /\ s.conn              \in [Conns -> ConnPhases]
  /\ s.via               \in [Conns -> Attempts \cup {None}]
  /\ s.frozen            \in [Conns -> BOOLEAN]      \* the relay's flow is paused
  /\ s.sock              \in [Socks -> [phase : SockPhases, port : Nat]]
  /\ s.frames            \in SUBSET FrameRecords

(* new Tunnel(def, deps)                                                   *)
NewTunnel(d) ==
  [def |-> d, pendingDef |-> None, armed |-> FALSE, disposed |-> FALSE,
   paused |-> FALSE, state |-> "disarmed", listener |-> None,
   sshConnection |-> None, connectPromise |-> None, lingerTimer |-> FALSE,
   reconnectTimer |-> FALSE, reconnectAttempts |-> 0, reconnecting |-> FALSE,
   dial |-> [a \in Attempts |-> "free"],
   eager |-> [a \in Attempts |-> FALSE],
   retry |-> [a \in Attempts |-> FALSE],
   forward |-> [a \in Attempts |-> FALSE],
   conn |-> [c \in Conns |-> "none"],
   via |-> [c \in Conns |-> None],
   frozen |-> [c \in Conns |-> FALSE],
   sock |-> [l \in Socks |-> [phase |-> "free", port |-> 0]],
   frames |-> {}]

Init ==
  /\ saved \in Defs
  /\ wanted = "down"
  /\ crossed = FALSE
  /\ belated = FALSE
  /\ tun = NewTunnel(saved)

-----------------------------------------------------------------------------
(* Derived values.                                                         *)

Live(s) == {c \in Conns : s.conn[c] \in {"waiting", "relay"}}

HoldsOpen(s) == s.def.keepAlive \/ s.def.remote

ShouldStayHot(s) == HoldsOpen(s) \/ s.def.autoReconnect

ReportedState(s) == IF s.paused THEN "paused" ELSE s.state

(* Every field but the cosmetic autoReconnect asks for a re-arm.           *)
ConnectionAffectingChange(a, b) ==
  \E f \in DOMAIN a \ {"autoReconnect"} : a[f] # b[f]

FreeAttempts(s) == {a \in Attempts : s.dial[a] = "free"}
FreeSocks(s) == {l \in Socks : s.sock[l].phase = "free"}

(* No microtask is due: an event-loop turn may start.                      *)
Quiet(s) == \A f \in s.frames : f.pc # "settling"

(* A suspended call that arms the tunnel when it goes on.                  *)
WillArm(f) == f.kind = "arm" \/ (f.kind = "reapply" /\ f.next.enabled)

Starters(s) == {f \in s.frames : WillArm(f)}

(* BOUND.  A suspended call that arms can take an attempt and, unless it is *)
(* binding already, a socket: a turn that may dial, or suspend one such     *)
(* call more, waits until there is room for it.  A stop needs none.         *)
MayDial(s) == Cardinality(Starters(s)) < Cardinality(FreeAttempts(s))

HasRoom(s) ==
  /\ MayDial(s)
  /\ Cardinality({f \in Starters(s) : f.pc # "binding"}) < Cardinality(FreeSocks(s))

MayApply(s) == s.pendingDef = None \/ HasRoom(s)

-----------------------------------------------------------------------------
(* Timers.                                                                 *)

MaybeStartLinger(s) ==
  IF s.paused \/ HoldsOpen(s) \/ Live(s) # {} \/ s.sshConnection = None
  THEN s ELSE [s EXCEPT !.lingerTimer = TRUE]

CancelLinger(s) == [s EXCEPT !.lingerTimer = FALSE]

CancelReconnect(s) ==
  [s EXCEPT !.reconnectTimer = FALSE, !.reconnectAttempts = 0, !.reconnecting = FALSE]

(* Mutant: a disposed tunnel schedules a retry.                            *)
AttemptReconnect_Mutant(s) ==
  IF s.reconnectTimer THEN s
  ELSE [s EXCEPT !.reconnecting = TRUE, !.state = "connecting", !.reconnectTimer = TRUE]

AttemptReconnect(s) ==
  IF s.disposed \/ s.reconnectTimer THEN s
  ELSE [s EXCEPT !.reconnecting = TRUE, !.state = "connecting", !.reconnectTimer = TRUE]

(* What #retryPolicy() may answer.  The settings and the tunnel's own       *)
(* override are read afresh at each failure, so the limit may be another   *)
(* one each time.                                                          *)
RetryLimits == 0..MaxReconnectAttempts

(* Mutant: a held-open tunnel gives up like any other.                     *)
OnReconnectFailed_Mutant(s, limit) ==
  LET n == s.reconnectAttempts + 1
  IN IF n < limit
     THEN AttemptReconnect([s EXCEPT !.reconnectAttempts = n])
     ELSE [s EXCEPT !.reconnectAttempts = 0, !.reconnecting = FALSE, !.state = "error"]

OnReconnectFailed(s, limit) ==
  LET n == s.reconnectAttempts + 1
  IN IF n < limit
     THEN AttemptReconnect([s EXCEPT !.reconnectAttempts = n])
     ELSE IF HoldsOpen(s)
     THEN AttemptReconnect([s EXCEPT !.reconnectAttempts = limit])
     ELSE [s EXCEPT !.reconnectAttempts = 0, !.reconnecting = FALSE, !.state = "error"]

FailConnect(s) ==
  IF ShouldStayHot(s) THEN AttemptReconnect(s)
  ELSE [s EXCEPT !.state = IF s.armed THEN "error" ELSE "disarmed"]

-----------------------------------------------------------------------------
(* Teardown helpers.                                                       *)

(* Mutant: the promise of the handshake is kept.                           *)
DisposeSsh_Mutant(s) ==
  [s EXCEPT !.sshConnection = None,
            !.dial = [a \in Attempts |-> IF a = s.sshConnection THEN "free" ELSE @[a]],
            !.forward = [a \in Attempts |-> a # s.sshConnection /\ @[a]]]

(* conn.dispose() ends the client; #connectPromise is only forgotten.      *)
DisposeSsh(s) ==
  [s EXCEPT !.sshConnection = None,
            !.connectPromise = None,
            !.dial = [a \in Attempts |-> IF a = s.sshConnection THEN "free" ELSE @[a]],
            !.forward = [a \in Attempts |-> a # s.sshConnection /\ @[a]]]

(* A call suspends on listener.stop().  A socket somebody else is already  *)
(* closing has no server any more, so stop() resolves at once.             *)
AwaitStop(s, kind, next) ==
  LET waits == s.listener # None /\ s.sock[s.listener].phase = "bound"
  IN [s EXCEPT
        !.sock = [l \in Socks |-> IF waits /\ l = s.listener
                                  THEN [@[l] EXCEPT !.phase = "closing"] ELSE @[l]],
        !.frames = @ \cup {[kind |-> kind, next |-> next,
                            pc   |-> IF waits THEN "stopping" ELSE "settling",
                            sock |-> IF waits THEN s.listener ELSE None]}]

(* #teardown() up to #failAllConnections() ...                             *)
Invalidate(s) ==
  [CancelReconnect(s) EXCEPT
     !.armed = FALSE,
     !.dial = [a \in Attempts |-> IF @[a] = "dialing" THEN "stale" ELSE @[a]]]

(* ... and after it.                                                       *)
Release(s, kind, next) == AwaitStop(CancelLinger(DisposeSsh(s)), kind, next)

(* #reapply() with no connection to fail: the only way MaybeApplyPending   *)
(* and an idle edit call it.                                               *)
ReapplyIdle(s, next) == Release(Invalidate(s), "reapply", next)

(* Mutant: the edit is cleared before it is read.                          *)
MaybeApplyPending_Mutant(s) ==
  LET q == [s EXCEPT !.pendingDef = None]
  IN IF s.pendingDef = None \/ Live(s) # {} THEN s ELSE ReapplyIdle(q, q.pendingDef)

MaybeApplyPending(s) ==
  IF s.pendingDef = None \/ Live(s) # {} THEN s
  ELSE ReapplyIdle([s EXCEPT !.pendingDef = None], s.pendingDef)

OnIdleCheck(s) ==
  IF Live(s) # {} THEN s ELSE MaybeApplyPending(MaybeStartLinger(s))

(* #connections.delete(conn)                                               *)
DeleteConn(s, c) ==
  [s EXCEPT !.conn[c] = IF @ = "waiting" THEN "gone" ELSE "none",
            !.via[c] = IF s.conn[c] = "waiting" THEN @ ELSE None,
            !.frozen[c] = FALSE]

ClearConns(s) ==
  [s EXCEPT
     !.conn = [c \in Conns |-> IF @[c] = "waiting" THEN "gone"
                               ELSE IF @[c] = "relay" THEN "none" ELSE @[c]],
     !.via = [c \in Conns |-> IF s.conn[c] = "relay" THEN None ELSE @[c]],
     !.frozen = [c \in Conns |-> FALSE]]

(* A relay's close() deletes its connection and runs the idle check in the *)
(* same call, so failing the last of a set of relays re-enters it; sockets *)
(* still waiting only leave the set when the loop is over.                 *)
FailAllConnections(s) ==
  IF Live(s) # {} /\ \A c \in Live(s) : s.conn[c] = "relay"
  THEN OnIdleCheck(ClearConns(s))
  ELSE ClearConns(s)

Teardown(s, kind, next) == Release(FailAllConnections(Invalidate(s)), kind, next)

-----------------------------------------------------------------------------
(* Connecting.  `a` is the attempt a new connectChain() call would be.     *)

EnsureConnected(s, a) ==
  IF s.sshConnection # None \/ s.connectPromise # None THEN s
  ELSE [s EXCEPT !.state = "connecting", !.connectPromise = a, !.dial[a] = "dialing"]

(* ensureConnected().catch(#failConnect)                                   *)
ConnectEagerly(s, a) ==
  LET q == EnsureConnected(s, a)
  IN IF q.sshConnection # None THEN q ELSE [q EXCEPT !.eager[q.connectPromise] = TRUE]

(* arm() from the point where no listener is held.                         *)
ArmUnbound(s, l, a) ==
  LET q == [s EXCEPT !.paused = FALSE]
  IN IF s.def.remote
     THEN ConnectEagerly([q EXCEPT !.armed = TRUE, !.state = "listening"], a)
     ELSE [q EXCEPT !.sock[l] = [phase |-> "binding", port |-> s.def.port],
                    !.frames = @ \cup {[kind |-> "arm", pc |-> "binding",
                                        sock |-> l, next |-> None]}]

ArmTunnel(s, l, a) ==
  IF s.disposed THEN s
  ELSE IF s.listener # None THEN AwaitStop(s, "arm", None)
  ELSE ArmUnbound(s, l, a)

(* Mutant: an idle tunnel takes the edit without a teardown.               *)
ApplyDefinition_Mutant(s, d) ==
  IF ~ConnectionAffectingChange(s.def, d) \/ s.state = "disarmed" \/ Live(s) = {}
  THEN [s EXCEPT !.def = d] ELSE [s EXCEPT !.pendingDef = d]

ApplyDefinition(s, d) ==
  IF ~ConnectionAffectingChange(s.def, d) THEN [s EXCEPT !.def = d]
  ELSE IF s.state = "disarmed" THEN [s EXCEPT !.def = d]
  ELSE IF Live(s) = {} THEN ReapplyIdle(s, d)
  ELSE [s EXCEPT !.pendingDef = d]

-----------------------------------------------------------------------------
(* Calls from the engine.                                                  *)

(* engine.arm(): a disarmed or failed tunnel is replaced by a new object.  *)
Arm ==
  /\ tun = NewTunnel(saved)
  /\ \E l \in FreeSocks(tun), a \in FreeAttempts(tun) : tun' = ArmTunnel(tun, l, a)
  /\ wanted' = "up"
  /\ UNCHANGED <<saved, crossed, belated>>

(* engine.reconcile() after a save, or a sweep of unchanged definitions.   *)
Reconcile(d) ==
  /\ Quiet(tun) /\ HasRoom(tun) /\ ~tun.disposed
  /\ saved' = d
  /\ wanted' = IF d.enabled THEN "up" ELSE wanted
  /\ LET q == ApplyDefinition(tun, d)
         arms == d.enabled /\ ReportedState(q) = "disarmed"
     IN /\ IF arms
           THEN \E l \in FreeSocks(q), a \in FreeAttempts(q) : tun' = ArmTunnel(q, l, a)
           ELSE tun' = q
        /\ crossed' = (crossed \/ (tun.frames # {} /\ (arms \/ ConnectionAffectingChange(tun.def, d))))
  /\ UNCHANGED belated

ForceApply ==
  /\ Quiet(tun) /\ HasRoom(tun)
  /\ tun.pendingDef # None
  /\ tun' = Teardown([tun EXCEPT !.pendingDef = None], "reapply", tun.pendingDef)
  /\ wanted' = "up"
  /\ crossed' = (crossed \/ tun.frames # {})
  /\ UNCHANGED <<saved, belated>>

(* Mutant: the stashed edit is still there when the relays close.          *)
Disarm_Mutant ==
  /\ Quiet(tun) /\ ~tun.disposed /\ MayApply(tun)
  /\ tun' = Teardown(tun, "disarm", None)
  /\ wanted' = IF Starters(tun) = {} THEN "down" ELSE "overtaken"
  /\ UNCHANGED <<saved, crossed, belated>>

Disarm ==
  /\ Quiet(tun) /\ ~tun.disposed
  /\ tun' = Teardown([tun EXCEPT !.pendingDef = None], "disarm", None)
  /\ wanted' = IF Starters(tun) = {} THEN "down" ELSE "overtaken"
  /\ UNCHANGED <<saved, crossed, belated>>

Dispose ==
  /\ Quiet(tun) /\ MayApply(tun) /\ ~tun.disposed
  /\ tun' = Teardown([tun EXCEPT !.disposed = TRUE], "dispose", None)
  /\ wanted' = "down"
  /\ UNCHANGED <<saved, crossed, belated>>

(* Mutant: pausing leaves the idle timer running.                          *)
Pause_Mutant ==
  /\ Quiet(tun) /\ ~tun.disposed /\ ~tun.paused
  /\ tun.state \notin {"disarmed", "error"}
  /\ tun' = [tun EXCEPT !.paused = TRUE,
                        !.frozen = [c \in Conns |-> tun.conn[c] = "relay"]]
  /\ UNCHANGED <<saved, wanted, crossed, belated>>

Pause ==
  /\ Quiet(tun) /\ ~tun.disposed /\ ~tun.paused
  /\ tun.state \notin {"disarmed", "error"}
  /\ tun' = [CancelLinger(tun) EXCEPT
               !.paused = TRUE,
               !.frozen = [c \in Conns |-> tun.conn[c] = "relay"]]
  /\ UNCHANGED <<saved, wanted, crossed, belated>>

Resume ==
  /\ Quiet(tun) /\ ~tun.disposed /\ tun.paused
  /\ tun' = MaybeStartLinger([tun EXCEPT !.paused = FALSE,
                                         !.frozen = [c \in Conns |-> FALSE]])
  /\ UNCHANGED <<saved, wanted, crossed, belated>>

-----------------------------------------------------------------------------
(* The listening socket.                                                   *)

BindOk(f) ==
  /\ Quiet(tun) /\ f \in tun.frames /\ f.pc = "binding"
  /\ \A l \in Socks \ {f.sock} : tun.sock[l].phase = "bound" => tun.sock[l].port # tun.sock[f.sock].port
  /\ LET q == [tun EXCEPT !.frames = @ \ {f}]
     IN IF q.disposed
        THEN tun' = [q EXCEPT !.sock[f.sock].phase = "closing"]
        ELSE LET b == [q EXCEPT !.sock[f.sock].phase = "bound",
                                !.listener = f.sock, !.armed = TRUE, !.state = "listening"]
             IN IF HoldsOpen(b)
                THEN \E a \in FreeAttempts(b) : tun' = ConnectEagerly(b, a)
                ELSE tun' = b
  /\ UNCHANGED <<saved, wanted, crossed, belated>>

(* Mutant: a bind error is only reported; the promise never settles.       *)
BindFails_Mutant(f) ==
  /\ Quiet(tun) /\ f \in tun.frames /\ f.pc = "binding"
  /\ tun' = [tun EXCEPT !.frames = (@ \ {f}) \cup {[f EXCEPT !.pc = "stopping"]},
                        !.sock[f.sock].phase = "free", !.state = "error"]
  /\ UNCHANGED <<saved, wanted, crossed, belated>>

BindFails(f) ==
  /\ Quiet(tun) /\ f \in tun.frames /\ f.pc = "binding"
  /\ tun' = [tun EXCEPT !.frames = @ \ {f}, !.sock[f.sock].phase = "free", !.state = "error"]
  /\ UNCHANGED <<saved, wanted, crossed, belated>>

ListenerError(l) ==
  /\ Quiet(tun) /\ tun.sock[l].phase = "bound"
  /\ tun' = [tun EXCEPT !.state = "error"]
  /\ UNCHANGED <<saved, wanted, crossed, belated>>

SockClosed(l) ==
  /\ Quiet(tun) /\ tun.sock[l].phase = "closing"
  /\ tun' = [tun EXCEPT
               !.sock[l].phase = "free",
               !.frames = {IF f.sock = l /\ f.pc = "stopping"
                           THEN [f EXCEPT !.pc = "settling", !.sock = None] ELSE f : f \in @}]
  /\ UNCHANGED <<saved, wanted, crossed, belated>>

(* A suspended call resumes after `await this.#teardown()` (or the stop()  *)
(* at the head of arm()): the listener it stopped is forgotten first.      *)
Settle(f) ==
  /\ f \in tun.frames /\ f.pc = "settling"
  /\ LET q == [tun EXCEPT !.frames = @ \ {f}, !.listener = None]
         r == [q EXCEPT !.def = f.next]
     IN \/ /\ f.kind = "disarm"
           /\ tun' = [q EXCEPT !.paused = FALSE, !.state = "disarmed"]
        \/ /\ f.kind = "dispose"
           /\ tun' = [q EXCEPT !.pendingDef = None, !.paused = FALSE, !.state = "disarmed"]
        \/ /\ f.kind = "reapply" /\ ~f.next.enabled
           /\ tun' = [r EXCEPT !.state = "disarmed"]
        \/ /\ f.kind = "reapply" /\ f.next.enabled
           /\ \E l \in FreeSocks(r), a \in FreeAttempts(r) : tun' = ArmTunnel(r, l, a)
        \/ /\ f.kind = "arm"
           /\ \E l \in FreeSocks(q), a \in FreeAttempts(q) : tun' = ArmUnbound(q, l, a)
  /\ UNCHANGED <<saved, wanted, crossed, belated>>

-----------------------------------------------------------------------------
(* Client connections.                                                     *)

(* A client is accepted on a bound socket.  With a session up its relay    *)
(* starts in the same turn; without one it waits on the attempt.           *)
LocalAccess(c) ==
  /\ Quiet(tun) /\ MayDial(tun)
  /\ tun.conn[c] = "none"
  /\ \E l \in Socks : tun.sock[l].phase = "bound"
  /\ tun.listener # None /\ ~tun.disposed /\ ~tun.paused
  /\ \E a \in FreeAttempts(tun) :
       LET q == EnsureConnected(CancelLinger(tun), a)
       IN tun' = IF q.sshConnection # None
                 THEN [q EXCEPT !.conn[c] = "relay"]
                 ELSE [q EXCEPT !.conn[c] = "waiting", !.via[c] = q.connectPromise]
  /\ UNCHANGED <<saved, wanted, crossed, belated>>

(* The server forwards a connection on the port it bound for us.           *)
ReverseAccess(c) ==
  /\ Quiet(tun)
  /\ tun.conn[c] = "none"
  /\ tun.def.remote /\ tun.sshConnection # None /\ ~tun.paused /\ ~tun.disposed
  /\ tun' = [tun EXCEPT !.conn[c] = "relay"]
  /\ UNCHANGED <<saved, wanted, crossed, belated>>

(* The socket closes before its relay exists, or the relay closes.         *)
ConnCloses(c) ==
  /\ Quiet(tun) /\ MayApply(tun)
  /\ c \in Live(tun)
  /\ tun' = OnIdleCheck(DeleteConn(tun, c))
  /\ UNCHANGED <<saved, wanted, crossed, belated>>

-----------------------------------------------------------------------------
(* SSH attempts and sessions.                                              *)

(* connectChain() resolves; then the continuations of its waiters run.     *)
Forget(s, a) == [s EXCEPT !.connectPromise = None, !.eager[a] = FALSE, !.retry[a] = FALSE]

(* Mutant: a pause that landed in the handshake is not applied.            *)
StartRelays_Mutant(s, a) ==
  LET mine == {c \in Conns : s.via[c] = a}
  IN [s EXCEPT
        !.conn = [c \in Conns |-> IF c \notin mine THEN @[c]
                                  ELSE IF @[c] = "waiting" /\ ~s.disposed THEN "relay" ELSE "none"],
        !.via = [c \in Conns |-> IF c \in mine THEN None ELSE @[c]]]

StartRelays(s, a) ==
  LET mine == {c \in Conns : s.via[c] = a}
  IN [s EXCEPT
        !.conn = [c \in Conns |-> IF c \notin mine THEN @[c]
                                  ELSE IF @[c] = "waiting" /\ ~s.disposed THEN "relay" ELSE "none"],
        !.frozen = [c \in Conns |-> IF c \in mine /\ s.conn[c] = "waiting" /\ ~s.disposed
                                    THEN s.paused ELSE @[c]],
        !.via = [c \in Conns |-> IF c \in mine THEN None ELSE @[c]]]

Adopt(s, a) ==
  MaybeStartLinger(
    [s EXCEPT !.sshConnection = a, !.dial[a] = "up", !.forward[a] = s.def.remote,
              !.reconnectAttempts = 0, !.reconnecting = FALSE, !.state = "connected"])

ConnectOk(a) ==
  /\ Quiet(tun)
  /\ tun.dial[a] \in {"dialing", "stale"}
  /\ LET q == Forget(tun, a)
     IN tun' = StartRelays(IF tun.disposed \/ tun.dial[a] = "stale"
                           THEN [q EXCEPT !.dial[a] = "free"]
                           ELSE Adopt(q, a), a)
  /\ belated' = (belated \/ (tun.dial[a] = "stale" /\ tun.connectPromise # None))
  /\ UNCHANGED <<saved, wanted, crossed>>

(* A catch that would act on the failure of this attempt.                  *)
StillAsked(s, a) ==
  ~s.disposed /\ (s.eager[a] \/ s.retry[a] \/ \E c \in Conns : s.via[c] = a)

(* connectChain() rejects.  The catches put directly on the promise run    *)
(* first, those behind a waiter's then() one tick later.                   *)
ConnectFails(a) ==
  /\ Quiet(tun)
  /\ tun.dial[a] \in {"dialing", "stale"}
  /\ \E limit \in RetryLimits :
       LET mine == {c \in Conns : tun.via[c] = a}
           q == [Forget(tun, a) EXCEPT !.dial[a] = "free"]
           e == IF tun.eager[a] THEN FailConnect(q) ELSE q
           r == IF tun.retry[a] THEN OnReconnectFailed(e, limit) ELSE e
           w == [r EXCEPT !.conn = [c \in Conns |-> IF c \in mine THEN "none" ELSE @[c]],
                          !.via = [c \in Conns |-> IF c \in mine THEN None ELSE @[c]]]
       IN tun' = IF mine # {} THEN FailConnect(w) ELSE w
  /\ belated' = (belated \/ (tun.dial[a] = "stale" /\ (tun.connectPromise # None \/ StillAsked(tun, a))))
  /\ UNCHANGED <<saved, wanted, crossed>>

(* Mutant: only autoReconnect decides, not keepAlive.                      *)
HandleDrop_Mutant(s) ==
  LET q == CancelLinger(FailAllConnections([s EXCEPT !.sshConnection = None]))
  IN IF q.def.autoReconnect THEN AttemptReconnect(q)
     ELSE MaybeApplyPending([q EXCEPT !.state = "listening"])

HandleDrop(s) ==
  LET q == CancelLinger(FailAllConnections([s EXCEPT !.sshConnection = None]))
  IN IF ShouldStayHot(q) THEN AttemptReconnect(q)
     ELSE MaybeApplyPending([q EXCEPT !.state = "listening"])

(* The peer or the network ends a session; one the tunnel no longer holds  *)
(* is ignored.                                                             *)
Drop(a) ==
  /\ Quiet(tun) /\ MayApply(tun)
  /\ tun.dial[a] = "up"
  /\ LET q == [tun EXCEPT !.dial[a] = "free", !.forward[a] = FALSE]
     IN tun' = IF tun.sshConnection = a THEN HandleDrop(q) ELSE q
  /\ UNCHANGED <<saved, wanted, crossed, belated>>

RemoteForwardOk(a) ==
  /\ Quiet(tun) /\ tun.forward[a]
  /\ tun' = [tun EXCEPT !.forward[a] = FALSE]
  /\ UNCHANGED <<saved, wanted, crossed, belated>>

RemoteForwardFails(a) ==
  /\ Quiet(tun) /\ MayApply(tun) /\ tun.forward[a]
  /\ LET q == [tun EXCEPT !.forward[a] = FALSE]
         r == CancelLinger(FailAllConnections(DisposeSsh(q)))
     IN tun' = IF tun.sshConnection # a THEN q
               ELSE IF ShouldStayHot(r) THEN AttemptReconnect(r)
               ELSE [r EXCEPT !.state = IF r.armed THEN "error" ELSE "disarmed"]
  /\ UNCHANGED <<saved, wanted, crossed, belated>>

-----------------------------------------------------------------------------
(* Timers.                                                                 *)

(* BOUND: a second retry does not join an attempt that carries one already *)
(* (the timer fires after that attempt has settled).                       *)
RetryFires ==
  /\ Quiet(tun) /\ MayDial(tun)
  /\ tun.reconnectTimer
  /\ tun.connectPromise # None => ~tun.retry[tun.connectPromise]
  /\ LET q == [tun EXCEPT !.reconnectTimer = FALSE]
     IN IF q.disposed \/ ~q.armed THEN tun' = q
        ELSE \E a \in FreeAttempts(q) :
               LET r == EnsureConnected(q, a)
               IN tun' = IF r.sshConnection # None THEN r
                         ELSE [r EXCEPT !.retry[r.connectPromise] = TRUE]
  /\ UNCHANGED <<saved, wanted, crossed, belated>>

LingerFires ==
  /\ Quiet(tun) /\ MayApply(tun)
  /\ tun.lingerTimer
  /\ LET q == CancelLinger(tun)
     IN tun' = IF Live(q) = {} /\ q.sshConnection # None
               THEN MaybeApplyPending([DisposeSsh(q) EXCEPT !.state = "listening"])
               ELSE q
  /\ UNCHANGED <<saved, wanted, crossed, belated>>

-----------------------------------------------------------------------------
Next ==
  \/ Arm \/ Disarm \/ Dispose \/ ForceApply \/ Pause \/ Resume
  \/ \E d \in Defs : Reconcile(d)
  \/ \E f \in tun.frames : BindOk(f) \/ BindFails(f) \/ Settle(f)
  \/ \E l \in Socks : ListenerError(l) \/ SockClosed(l)
  \/ \E c \in Conns : LocalAccess(c) \/ ReverseAccess(c) \/ ConnCloses(c)
  \/ \E a \in Attempts : ConnectOk(a) \/ ConnectFails(a) \/ Drop(a)
                           \/ RemoteForwardOk(a) \/ RemoteForwardFails(a)
  \/ RetryFires \/ LingerFires

Spec == Init /\ [][Next]_vars

-----------------------------------------------------------------------------
(* Fairness: what the code and the event loop see through.  A resolved     *)
(* promise runs its continuation, a bind and a close call back, an SSH     *)
(* handshake ends (ssh2's readyTimeout), a timer that is set fires.  No    *)
(* user, client or network event is owed.  Strong where another turn's     *)
(* microtasks hold an event off for a moment: the loop serves what is      *)
(* ready in turn, however many calls arrive.                               *)
Fairness ==
  /\ WF_vars(\E f \in tun.frames : Settle(f))
  /\ SF_vars(\E f \in tun.frames : BindOk(f) \/ BindFails(f))
  /\ SF_vars(\E l \in Socks : SockClosed(l))
  /\ SF_vars(\E a \in Attempts : ConnectOk(a) \/ ConnectFails(a))
  /\ SF_vars(RetryFires)
  /\ SF_vars(LingerFires)

FairSpec == Spec /\ Fairness

-----------------------------------------------------------------------------
(* Properties.                                                             *)

(* Every field has its type: the object is always one the code builds.     *)
TypeOK ==
  /\ WellTyped(tun)
  /\ saved \in Defs
  /\ wanted \in Wants
  /\ crossed \in BOOLEAN
  /\ belated \in BOOLEAN

(* #sshConnection is never a client that has ended or a handshake that has *)
(* not finished, however calls, drops and answers interleave.              *)
SessionIsUp(s) == s.sshConnection # None => s.dial[s.sshConnection] = "up"

(* #connectPromise is a handshake still in flight and not one a teardown   *)
(* has invalidated: a client that joins it is never joined to a lost one.  *)
PromiseIsCurrent(s) == s.connectPromise # None => s.dial[s.connectPromise] = "dialing"

(* #ensureConnected() never dials while it holds a session.                *)
PromiseOrSession(s) == s.sshConnection = None \/ s.connectPromise = None

(* An idle timer runs only while it has a session to end, and never while  *)
(* the tunnel is paused: pausing holds the session open.                   *)
LingerHasSession(s) == s.lingerTimer => s.sshConnection # None /\ ~s.paused

(* A client in #connections with no relay yet hangs on a handshake that    *)
(* will still answer it; only a client teardown has forgotten may hang on  *)
(* an invalidated one.                                                     *)
WaitersAreReachable(s) ==
  \A c \in Conns :
    /\ s.conn[c] = "waiting" => s.via[c] # None /\ s.dial[s.via[c]] = "dialing"
    /\ s.conn[c] = "gone" => s.via[c] # None /\ s.dial[s.via[c]] \in {"dialing", "stale"}

(* The session, the handshake and the promise that stands for it agree,    *)
(* under any overlap of engine calls.                                      *)
LinkIsSound ==
  /\ SessionIsUp(tun)
  /\ PromiseIsCurrent(tun)
  /\ PromiseOrSession(tun)

(* The idle timer and every client that waits hang on something that will  *)
(* still end, under any overlap of engine calls.                           *)
TimersAndWaitersAreSound == LingerHasSession(tun) /\ WaitersAreReachable(tun)

(* After dispose() nothing of the tunnel is left once its suspended calls  *)
(* have run out: no listener, session, timer, client or stashed edit, and  *)
(* no call that was suspended across it has armed the dead object.         *)
DisposedIsInert ==
  tun.disposed =>
    /\ ~tun.armed /\ ~tun.reconnectTimer /\ ~tun.lingerTimer
    /\ tun.sshConnection = None /\ Live(tun) = {}
    /\ tun.frames = {} => tun.listener = None /\ tun.pendingDef = None

(* A torn-down tunnel holds no session, client or idle timer, even with a  *)
(* handshake it started still in flight.                                   *)
TornDownIsQuiet ==
  ~tun.armed => tun.sshConnection = None /\ Live(tun) = {} /\ ~tun.lingerTimer

(* Every listening port is the tunnel's own listener, on the port of the   *)
(* definition in force: a re-arm leaves no earlier socket bound.           *)
ListenerIsOwned ==
  \A l \in Socks : tun.sock[l].phase = "bound" =>
    tun.listener = l /\ tun.sock[l].port = tun.def.port

(* Traffic flows exactly when the tunnel is not paused, also on a relay    *)
(* whose handshake was in flight when the pause or the resume landed.      *)
RelaysFollowPause ==
  \A c \in Conns : tun.conn[c] = "relay" => (tun.frozen[c] <=> tun.paused)

(* The idle timer never runs while clients are connected or for a tunnel   *)
(* that holds its session open: it cannot cut live traffic.                *)
LingerOnlyIdle == tun.lingerTimer => Live(tun) = {} /\ ~HoldsOpen(tun)

(* The four together, with stops at any moment, a suspended bind or re-apply *)
(* included, until a start or an edit lands on a suspended call.           *)
ServesItsClients ==
  ~crossed =>
    /\ TornDownIsQuiet
    /\ ListenerIsOwned
    /\ RelaysFollowPause
    /\ LingerOnlyIdle

Down ==
  /\ ~tun.armed /\ tun.sshConnection = None /\ Live(tun) = {}
  /\ \A l \in Socks : tun.sock[l].phase # "bound"

(* A stop is the last word until the next call that arms, also when it     *)
(* lands on a suspended stop or a suspended disabling edit: once the       *)
(* suspended calls have run out the tunnel is down.  What the code does    *)
(* not keep is a stop that lands on a call which goes on to arm.           *)
LastCallWins == (wanted = "down" /\ tun.frames = {} /\ ~crossed) => Down

(* Every stop is the last word, as the re-check after a bind (tunnel.js:267) *)
(* and disarm() (tunnel.js:288) say.                                       *)
EveryStopWins == (wanted # "up" /\ tun.frames = {} /\ ~crossed) => Down

(* A stashed edit is used at most once and never lost: it is replaced by a *)
(* later save, handed whole to one re-apply, or dropped by a stop.         *)
EditIsUsedOnce ==
  (tun.pendingDef # None /\ tun'.pendingDef # tun.pendingDef) =>
    \/ tun'.pendingDef # None /\ tun'.pendingDef = saved'
    \/ \E f \in tun'.frames \ tun.frames : f.kind = "reapply" /\ f.next = tun.pendingDef
    \/ wanted' # "up" /\ tun'.pendingDef = None

(* The definition is never exchanged under a session or a client: what     *)
(* relays and reconnects read is what the session was opened for.          *)
EditWaitsForTeardown ==
  ConnectionAffectingChange(tun.def, tun'.def) =>
    tun'.sshConnection = None /\ Live(tun') = {}

-----------------------------------------------------------------------------
(* What holds besides until an invalidated handshake answers while another *)
(* is in flight, or fails with a catch still attached.                     *)

Undisturbed == ~crossed /\ ~belated

(* A session without clients that nothing holds open is on the idle timer: *)
(* it does not stay up for ever.                                           *)
IdleSessionIsTimed ==
  (tun.sshConnection # None /\ Live(tun) = {} /\ ~HoldsOpen(tun) /\ ~tun.paused)
    => tun.lingerTimer

(* A tunnel that promises to hold its session open always has it, or the   *)
(* handshake or retry timer that will bring it back: nothing else would.   *)
HeldOpenNeverStalls ==
  (tun.armed /\ HoldsOpen(tun) /\ Quiet(tun)) =>
    tun.sshConnection # None \/ tun.connectPromise # None \/ tun.reconnectTimer

(* One SSH link at a time: concurrent first accesses share one handshake,  *)
(* and every live client is the one the tunnel holds.                      *)
OneLink ==
  /\ \A a \in Attempts : tun.dial[a] = "up" => tun.sshConnection = a
  /\ Cardinality({a \in Attempts : tun.dial[a] = "dialing"}) <= 1

(* A stopped tunnel says so: it never shows itself connecting or listening *)
(* once the stop has run.                                                  *)
DisarmedIsFinal ==
  (~tun.armed /\ tun.frames = {}) => tun.state \in {"disarmed", "error"}

(* A tunnel that shows itself connecting is waiting for something that     *)
(* will happen; one that holds a session says so.                          *)
StateTellsSession ==
  /\ (tun.state = "connecting" /\ tun.frames = {}) =>
       tun.connectPromise # None \/ tun.reconnectTimer
  /\ tun.sshConnection # None => tun.state \in {"connected", "error"}

(* The five together: the link, its timers and the state shown are what    *)
(* the clients and the definition need.  Teardowns and edits may fall into *)
(* a handshake.                                                            *)
LinkFollowsNeed ==
  Undisturbed =>
    /\ IdleSessionIsTimed
    /\ HeldOpenNeverStalls
    /\ OneLink
    /\ DisarmedIsFinal
    /\ StateTellsSession

(* An idle session is given up unless a client, a pause or an edit claims  *)
(* it first.                                                               *)
IdleReleased ==
  (tun.sshConnection # None /\ Live(tun) = {} /\ ~HoldsOpen(tun)) ~>
    (tun.sshConnection = None \/ Live(tun) # {} \/ HoldsOpen(tun) \/ tun.paused)

(* A held-open tunnel without a session dials again, for as long as it is  *)
(* armed and however often it has failed.                                  *)
HeldOpenKeepsDialing ==
  (tun.armed /\ HoldsOpen(tun) /\ tun.sshConnection = None) ~>
    (tun.connectPromise # None \/ tun.sshConnection # None \/ ~tun.armed)

(* Every arm, disarm, edit and dispose comes to its end.                   *)
CallsFinish == tun.frames # {} ~> tun.frames = {}

(* A session nobody needs goes, one that is promised comes back, and no    *)
(* call waits for ever.                                                    *)
NeedIsServed ==
  []Undisturbed => IdleReleased /\ HeldOpenKeepsDialing /\ CallsFinish

(* An edit is used once, and only when nothing runs by the old definition. *)
EditsWaitTheirTurn ==
  [][~crossed' => EditIsUsedOnce /\ EditWaitsForTeardown]_vars
===============================================================================
