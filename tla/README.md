# Jump Hippo in TLA+

Jump Hippo is an Electron application that keeps SSH tunnels (local, dynamic
SOCKS and reverse forwards), opens SSH consoles, arms tunnels on a schedule and
keeps its definitions and secrets on disk.  This directory models the parts of
its main process (`src/app/`) and of its main window (`src/web/`) where order,
interruption and failure decide whether it is right, checks them with TLC and
proves the central invariants with TLAPS.

| module | models | kind |
|---|---|---|
| `Tunnel` | one `Tunnel` object, its listener, its SSH attempts | state machine |
| `Relay`, `Socks` | the relays of a tunnel and their connection counts; the bytes of one SOCKS handshake | state machine, streams |
| `Engine`, `Notices` | the map of tunnels, overlapping and bulk calls, broadcasts; what desktop notices and tray make of them | state machines |
| `Scheduler` | the auto-arm driver and its pure evaluation | state machine + functions |
| `SecretStorage` | which backend seals the secrets, and switching it | state machine, crashes |
| `DurableDoc`, `Files` | what a document on disk promises; the file protocol that implements it | abstract + detailed |
| `Stores` | `tunnels.json`: references, backups, imports | state machine, data |
| `Pickers` | the credential and jump-host pickers and their editors, over two stores | state machine, window + main |
| `Transfer` | import and export: dialog, handlers, engine sweep, list | state machine, window + main |
| `HostKeys` | trust on first use: verifiers, prompts, popups, accepted keys | state machine |
| `Consoles` | console sessions, windows, SSH chains; composed with `HostKeys` | state machine, composition |
| `Shell` | launch, unlock, settings, page loads, quit | state machine, window + main |
| `Editor`, `Form` | the tunnel editor: look-ups, tests, saves; its form against the record | state machines |
| `Sidebar`, `Panes`, `Grid`, `Lists` | grouped lists and drags; console panes and what they stream; the card grid | state machines, window + main |
| `TunnelProofs`, `EngineProofs` (with `Notices`), `SchedulerProofs`, `RelayProofs` (with `Socks`, `Shell`), `SecretStorageProofs` (with `Files`), `StoresProofs` (with `Transfer`), `ConsolesProofs` (with `HostKeys`), `WindowProofs` (`Editor`, `Form`, `Panes`, `Grid`, `Sidebar`) | theorems about the modules they are named for, for every value of the constants | proofs |
| `MCTunnel`, `MCRelay`, `MCEngine`, `MCScheduler`, `MCCrash`, `MCStores`, `MCConsoles`, `MCWindow`, `MCForm` | the instances TLC checks | model checking |

`tlc -config MCTunnel_calls.cfg MCTunnel` checks one run; `tlapm
TunnelProofs.tla` checks the proofs of one module.  `PROJECT.json` lists runs, mutants,
hazards, findings, theorems and the source lines behind each definition.

Some MC modules hold several components that share no variable.  Their variable
`part`, chosen at the start and never changed, says which one a behaviour is
about; the others stay where they started, in one fixed state.  That is one run
for several machines, not a composition.  The compositions are `Consoles` with
`HostKeys`, and the modules that span the window and the main process.

## 1. Inventory

The main process is one JavaScript event loop, the window another; they talk
over ordered queues of requests, answers and broadcasts.  Within a process
nothing runs in parallel, but every `await`, callback and timer lets anything
else in between.  A store write is synchronous, so it interleaves with nothing;
the process can still die between two system calls of it.

| component | state | operations | talks to | what is hard |
|---|---|---|---|---|
| Tunnel (`tunnel/tunnel.js`), listener | definition in force, stashed edit, armed / disposed / paused flags, listener, current SSH session, promise of the handshake in flight, connect generation, linger and reconnect timers, live connections | `arm`, `disarm`, `dispose`, `applyDefinition`, `forceApply`, `pause`, `resume`; a client connects or leaves; a session drops; timers | called by the engine; calls Listener, SSH chain, Relay; calls back the engine on every state change | teardown while a bind or a handshake is suspended; late settlements; synchronous re-entry through `onClose`; retry, lazy access and idle timer competing for one session |
| Engine (`tunnel/engine.js`) | map of tunnels, batch of a bulk action, statistics timer | per-tunnel calls, `applyToMany`, `armAll`, `disarmAll`, `reconcile`, `reconcileAll` | IPC, scheduler, stores, tunnels | overlapping bulk actions share `#batch`; the map changes across awaits |
| SSH chain (`tunnel/ssh-chain.js`) | clients of the hops built so far | `connectChain`, `probeChain` | Tunnel, Console, Editor's test, host keys | disposal of a half-built chain; a hop dropping while the next connects |
| Relay, SOCKS5 (`tunnel/relay.js`, `socks5.js`) | socket, channel, `closed` / `opened` / `paused`; parser buffer and phase | start, pause, resume, close; `feed` | Tunnel, Stats | the client leaving while the channel opens; requests cut at any byte |
| Statistics (`tunnel/stats.js`) | counters, connection count, session time stamps, rate window | `onArmed`, `connOpened`, `connClosed`, samples | Tunnel, Relay | counters zeroed by a re-arm under live relays |
| Host keys (`host-key-mediator.js`, `host-verifier.js`, `known-hosts-store.js`) | pending prompts, accepted keys on disk, popups | verify, trust, reject, rejectAll, revoke | SSH chain, IPC, window, disk | an answer that comes after the handshake timed out or the record changed |
| Consoles (`console/*`) | session, chain, shell stream, window, watched and dirty sets | open, ready, input, close, restart, watch | SSH chain, windows, panes | a window closing while its session connects; activity between two watches |
| Secret storage (`store/secret-storage.js`, `crypto.js`) | mode and migration marker on disk, app-key file, session keys | `bootstrap`, `setMode`, `unlock`, `lock`, `resumeMigration` | credential store, OS keychain | a crash or failed write between two of a switch's four writes |
| File primitives (`store/io.js`, `secure-file.js`) | files, temp files | `atomicWrite`, `readJSON`, quarantine, sweep | every store | all-or-nothing under kill and power loss |
| Definition stores (`store/*-store.js`, `definitions-doc.js`) | one JSON document: tunnels, groups, jump hosts, credentials, consoles | create, read, update, delete, duplicate, reorder | IPC, engine, scheduler | references between records |
| Import / export (`store/portable.js`, `ssh-config.js`, `ipc/portable.js`, the dialog) | the dialog, a call on its way | export, preview, merge, replace, add proposals | stores, engine, list | clashes of identifiers; answers for a dialog that moved on |
| Scheduler (`scheduler.js`), network reads | on/off, verdict per tunnel with override, boundary timer, re-check timer, pass in progress and pending | `setEnabled`, `refresh`, `noteManual`, `reevaluate`, `dispose` | engine, network reads, power events | edits, toggles and switching off in the middle of a pass; lost wake-ups; wrap-around time windows |
| Application (`main.js`, `ipc/*`) | deferred-arm flags, windows, quit state | launch, store hooks, IPC handlers, settings, unlock, quit | everything | what launch puts off against unlock, reload and quit |
| Notifications, tray, menus | outage episodes, cooldown; the menu as last built | broadcasts of the engine | engine, settings | bulk actions thin the broadcasts out |
| Tunnel editor (`tunnel-editor-dialog.js`, `dialog.js`, resolve check) | form, debounce, look-ups and tests in flight, a save in flight | open, edit, save, test, cancel | stores, resolve IPC | one dialog object reused by every opening |
| Pickers and record editors | options, choice, chain, their editors | pick, new, edit, delete, save, refresh | stores, the form around | an editor inside a form inside a form |
| Lists, groups, panes, cards (`tunnels-view.js`, `consoles-view.js`, `tunnel-list.js`, `card-canvas.js`, `grid-layout.js`) | snapshot of the stores, drag, selection, layout | load, drag and drop, group menus, select, watch | stores, settings, console manager | a plan made from a list that changes under it |
| Prompts and popups (`popup-host.js`, unlock, host key, settings) | queue of popups | show, answer, reload | main process | a prompt behind another popup; a reload that loses it |
| Update check, logging, i18n, diagnostics, themes, help, packaging | presentation or output | - | - | none of protocol |

What makes each of them right, in one line: a tunnel that was stopped stays
stopped and one that is held open never stalls; one listener and one session at
a time, and each belongs to the definition in force; an edit is applied once,
and never under live traffic; an idle session is released; bytes arrive in order
and a count is never off; no secret ever loses the key that opens it; a document
changes whole or not at all and no reference of it dangles; no key passes that
nobody vouched for; no SSH client outlives its session; the scheduler comes to
the answer of the saved schedule and never fights a hand toggle; what launch put
off happens once; and what the window shows, at rest, is what is stored and
running, whatever was clicked while the answers were on their way.
`PROJECT.json` lists the hazards behind these, each at its line.

## 2. Tunnel

**State.** `tun` is the object, one record field per private field of the class
(`#pendingDef` is `pendingDef`, and so on), together with what it has started:

| field | code |
|---|---|
| `dial[a]` | a `connectChain()` call: `dialing`, `stale` (its `generation` is older than `#connectGeneration`), `up` |
| `eager[a]`, `retry[a]` | `.catch(#failConnect)` / `.catch(#onReconnectFailed)` attached to its promise |
| `forward[a]` | a `forwardIn()` not yet answered |
| `conn[c]`, `via[c]`, `frozen[c]` | an accepted client: `waiting` on attempt `via[c]`, `relay`, or `gone` (out of `#connections` but its continuation still hangs on the attempt); whether its flow is paused |
| `sock[l]` | a listening socket: `binding`, `bound`, `closing`, and its port |
| `frames` | calls suspended at an `await`: which call, at which await, with which socket or edit |

`saved` is the definition in the store.  Three histories are read by properties
and by no guard.  `wanted`: what the last call asked for, `up`, `down`, or
`overtaken` for a disarm that met a suspended call which goes on to arm.
`crossed`: an edit, a forced one or an arm has met a suspended call.  `belated`:
a handshake that a teardown had invalidated has answered while another was in
flight, or failed with a catch still attached.  A definition is the record of
the fields that decide something: `remote`, `keepAlive`, `autoReconnect`, `enabled`,
`port` (every field but `autoReconnect` is a connection-affecting change).

**Actions.** An action is one macrotask: a handler up to its first `await`,
every synchronous callback included.  A private method is an operator from the
object's state to its next state (`MaybeStartLinger(s)`, `FailConnect(s)`,
`Teardown(s, kind, next)`), so a nested call is a nested application, and
re-entry (failing the last relay runs the idle check inside the teardown) is
kept.  A call that suspends leaves a frame; `Settle`, `BindOk`, `BindFails`
resume it.  A frame at `settling` awaits an already resolved promise, a
microtask: `Quiet` keeps every other handler out until it has run.  The
continuations of one settled SSH attempt run in the order they were attached,
in the action that settles it (`ConnectOk`, `ConnectFails`).

| actions | code |
|---|---|
| `Arm`, `Disarm`, `Dispose`, `ForceApply`, `Reconcile(d)`, `Pause`, `Resume` | the engine's calls as they reach one tunnel |
| `BindOk`, `BindFails`, `ListenerError`, `SockClosed` | the listening socket |
| `LocalAccess`, `ReverseAccess`, `ConnCloses` | clients |
| `ConnectOk`, `ConnectFails`, `Drop`, `RemoteForwardOk`, `RemoteForwardFails` | the SSH side |
| `RetryFires`, `LingerFires` | the two timers |
| `Settle` | a suspended call goes on |

Any call may come at any moment: into a bind, into a handshake, into the close of
a listener that a `void this.#reapply()` awaits and nobody else does.

**Bounds.** `Attempts` (2), `Conns` (1-2), `Socks` (2-3) bound what may be
outstanding at once, not how often it happens: identities are reused, so
behaviours are unbounded.  Two attempts are enough for a stale handshake beside
a current one, two clients for the last-one-leaves cases and shared
handshakes, three sockets for one closing, one bound and one binding.  A suspended call that
goes on to arm needs an attempt and mostly a socket: `HasRoom`, `MayDial` and
`MayApply` hold back a turn that would suspend one more than there is room for.
A stop needs no room and is never held back.  `MaxReconnectAttempts` 2 separates
the first retry from the last; the policy is read afresh at each failure
(`RetryLimits`), so a failure is judged by any limit up to it.  `Defs` in the runs:
`lazy`, `moved` (another port), `auto` (autoReconnect), `kept` (keepAlive),
`remote`, `off` (disabled).  In `tunnel_calls` attempts, clients and sockets are
symmetric, the definitions in play once something has `crossed` are two of the
four (`FewCrossings`), and the view forgets the histories no property reads any
more (`WhatCounts`).  The run with liveness uses none of these and generates only
the behaviours its property speaks of (`CalmSpec`).  `CHECK_DEADLOCK FALSE`: a
disposed tunnel has nothing left to do.

**Properties.**  Three kinds, by how much they ask of what the calls have met.

Of every behaviour: `LinkIsSound`, `TimersAndWaitersAreSound` - session, handshake
promise, idle timer and waiting clients agree; `DisposedIsInert` - a disposed
object is inert once its suspended calls have run out.

Until something has `crossed`, with stops, pauses, drops and answers anywhere:
`ServesItsClients` - a stopped tunnel holds nothing, each bound port is the
tunnel's own, relays follow the pause, also one that landed in their handshake,
and the idle timer never threatens traffic; `EditsWaitTheirTurn` - a stashed edit
is used at most once and never lost, and no definition is swapped under a session
or a client; `LastCallWins` - a stop is the last word, but for one that meets a
call which goes on to arm.  That the code promises it for these too, and does not
keep it, is finding 3 (`EveryStopWins`, run `tunnel_stop`).

Until besides a handshake was `belated` (`Undisturbed`): `LinkFollowsNeed` - an idle
session is on the timer, a held-open tunnel always has something that will bring
its session back, there is one link at a time, a disarmed tunnel stays so and the
state reported is the state it is in; `NeedIsServed` - an idle session is released,
a held-open tunnel keeps dialing, every call ends.  Teardowns and edits may fall
into a handshake; what is left out is the late answer the code mistakes for a
current one.  The steps behind `crossed` and `belated` are in section 15.

**Fairness**: a resolved promise runs its continuation (weak); a bind and a close
call back, a handshake ends (ssh2's `readyTimeout`), a timer that is set fires
(strong, since another turn's microtasks hold an event off for a moment: the event
loop serves what is ready in turn, however many calls arrive).  No user, client or
network event is owed.

## 3. SecretStorage and Files

Every operation is synchronous, so no two interleave, but the process can die
between two file writes.  `call.at` is the program counter of the call in
progress; a step makes at most one durable change and `Crash` may follow any
step.  `config` is `secret-storage.json` (mode, migration target, the key the
stored salt and verifier belong to), `keyFile` the app-key file, `doc` how each
secret of `tunnels.json` is sealed (by which backend, under which key);
`activeMode`, `appKey`, `masterKey` are the session's copies in `crypto.js`.  A
key is a number, fresh each time one is minted.

A switch is `SetMode`, `Mark`, `Convert` (both passes of `reencryptAll`, one
write), `Flip`, `Drop`; it can end in `GiveUp` (a secret cannot be opened or
sealed) or `WriteFails` (a write throws past every clean-up).  A launch is
`Launch`, `Persist`, `BootResume` or `BootSkip`, `Configure`; `Unlock` finishes
a switch that needed a password.  `LoseConfig` removes the config while the
program is down, `KeystoreChanges` lets the OS keychain come and go.

History variables: `torn` is set once a write has failed in a switch past its
conversion, `lost` once the config was lost.  What the program promises there
is less, and section 15 says what.

In `crash`: two secrets, so that one can be sealed before
and one after an interrupted switch; four keys, enough for two app keys and two
master keys, that is for two interrupted switches in a row; Windows, where the
inferred default may also be the keychain.  `NoneOrphaned`: no secret loses its
key.  `UnlockedReadsAll`: an unlocked session opens every secret, also while a
switch is pending.  `SettledIsUniform`: with no switch pending everything is
sealed by the recorded mode.  `ResumeCanFinish`: an interrupted switch finds the
keys it needs.  There is no liveness here: nothing finishes a switch unless the
user launches and unlocks.

**Files.**  `SecretStorage` and `Stores` take a write as one step.  `Files` is that
step: `Call` and `Load` begin a store call and read the document (a damaged one
is set aside), then `OpenTemp`, `FillTemp`, `FlushTemp`, `Rename`, `SyncDir`, each
a system call that may fail (`Fail`), be cut off by `Kill`, or be followed by
a `PowerLoss`; `Restart` sweeps the temp files left behind and `Damage` spoils the
file.  `shown` is what a process reads under the name, `kept` the set of contents
a power loss may leave there, `temps` the temp files by the counter in their
names.  `AckedSurvives` says that a change whose call returned is there after any
kill and, where directories can be flushed, after any power loss, and that a
failed or cut-off call has changed nothing or everything.  `DurableDoc` is the
abstract statement: a set of items, one changed at a time, and the versions it
may fall back to.  `ImplementsDurableDoc` is
`DurableDoc` under `doc <- ItemsOf(shown)` and the versions of `kept` for
`back`: checked in `crash`, proved in `SecretStorageProofs`.  Bounds: two items, two temp
files per process life (`MaxTemps`), so that a second write meets the remains of
a first.

## 4. Scheduler

`sch` is the Scheduler object; `sch.at` is where the pass in progress is
suspended: `network` (reads asked for), `read` (answered), `act` (engine calls
queued in `actions`).  An await of an already resolved promise lets nothing in,
so a pass that reads no network and finds no edge is one step.  `schedule` is
the effective schedule of each saved, enabled definition (its own or its
group's), `armed` what scheduler and user last made of the tunnel, `None` when
neither has (an engine call failed, or `reconcile()` took over), `clock` the
local time of the week in ticks.  `Tick` also runs the boundary timer down;
`BoundaryFires` may be late, as after sleep.

`InTimeWindow` and `NextTimeBoundary` are the pure functions.  `MCScheduler`
assumes `BoundaryIsNextFlip`, which TLC evaluates for every window and every
moment of the scaled week: the boundary is the first moment the window's answer
changes, wrap past midnight and past the end of the week included;
`BoundaryIsFlip` proves it for every calendar.

`scheduler_follow`: two days of three minutes, one tunnel with
a window that wraps past midnight and past the week's end, one with a window in
the day and a network condition.  `TimersFollow`: switched off it keeps no
timer and no verdict, also when that falls into a pass, and between
passes the boundary timer never sleeps past an edge of a saved schedule.
`RecordedIsActed`: a recorded verdict was acted on or is queued.
`FollowsSchedule`: a schedule that stays the same, with the same answers of
clock and network, is followed in the end.  A pass that would lose a refresh, a
time edge between evaluation and timer, or a switch off and on would break one
of them.

**Fairness**: network reads and engine calls answer (`Pass`) and the periodic
re-check fires (`RecheckFires`).  The user, the clock, the network and the
boundary timer owe nothing; so `FollowsSchedule` holds without the boundary
timer, which only makes it prompt.

## 5. Relay and Socks

`Tunnel` knows of a relay that it exists, is paused and closes.  `Relay` has the
inside.  `rel[r]` is one call of `startRelay` (`kind` `local`), `startSocksRelay`
(`socks`) or `startReverseRelay` (`reverse`): the closure's `closed` and `opened`
are the phase `at`, `paused` is itself, `pending` a `forwardOut()` or dial not
yet answered.  Of the two streams it keeps which exist (`ends`), are destroyed
with the "close" event still to come (`echo`), flow (`flowing`), wait for the
other side to drain (`choked`) and have something to read (`unread`).  `tunnel`
is what `tunnel.js` does to all relays at once, `stats` the connection count and
peak of `stats.js`.  `told` and `lost` are history.

| actions | code |
|---|---|
| `Start`, `Pause`, `Resume`, `FailAll`, `Rearm` | `tunnel.js`: a client gets its relay, the tunnel's calls on all of them |
| `Handshake` | a SOCKS client's bytes: more needed, refused, a request |
| `Opens`, `OpenFails`, `EndCloses` | the far end answers; an end's "close" or "error", the echo of a `destroy()` included |
| `PeerSends`, `Reads`, `Drains` | Node's streams, as relay.js relies on them: a flowing stream is read, a pipe pauses its source when the target is full and resumes it on "drain" |
| `Forget` | the identity of a finished relay is used again |

Part `relays` of `relay_flow`: two relays of any kind, enough for a count that
two openings and closes share and for one relay finishing under another's
opening; `PeerSends` keeps one bit per end, since the properties ask whether
something is unread and not how much.  `CountBalances`: the count is the number
of open relays.  `PauseHolds`: a paused end is let go by nothing but a drain.
`DataFlows`: what an end received goes on, also after a pause that fell into the
opening or on a full pipe.  **Fairness**: `Reads` and `Drains`, the event loop
and the receiver; the peers, the user and the far end owe nothing.

`Socks` looks at one SOCKS connection with its bytes.  `hs` is the
`Socks5Handshake` (buffer and phase); `Feed` and `Piped` take the next piece, of
any size, of what the client sends; `ChannelOpens`, `ChannelFails` answer the
channel it asked for; `held` are the bytes behind the request.  The lengths inside the
messages are bytes of the stream, as in the code.  `ChunksDoNotMatter`: however
the bytes are cut, one channel is asked for, exactly when a greeting that offers
no-auth and a CONNECT request have arrived, for the address in it; the client is
answered in time; and every byte behind the request reaches the target in order.
Bounds (`MCStreams`): four greetings (one with no acceptable method, one of
SOCKS4), seven requests (each address type, an empty name, a wrong command, a
wrong type, a wrong version), with and without bytes behind them.

## 6. Engine and Notices

`Tunnel` has one tunnel and the calls that reach it; `Engine` has the map of
them.  `eng.map`, `batch` and `timer` are `#tunnels`, `#batch` and
`#statsTimer`; `eng.tun[n]` is what the engine sees of a `Tunnel` object, which
stays while the map or a suspended call refers to it.  `eng.view[i]` is the state
the renderer shows (`tunnels-view.js:514-556`): the last `tunnel-state` message
that named it or the last statistics, which name every tunnel in the map.
`frames[c]` is a call suspended at an await: `todo` is the rest of its loop,
`at` the await.  A bulk action, `armAll()` and `reconcileAll()` are loops over the
same `arm`, `disarm`, `pause`, `resume` and `reconcile` that single calls use.

| actions | code |
|---|---|
| `CallOne`, `Bulk`, `ArmAll`, `ReconcileAll`, `DisarmAll` | the public calls, from IPC, tray, menu and scheduler |
| `Write`, `Create` | a definition is saved, deleted or created, and `reconcile()` called by the store hook (`main.js:632-638`) |
| `Step` | the next id of a loop, the end of a bulk action, a re-apply after its teardown: a microtask, which `Quiet` lets run before anything else |
| `Closed`, `BindOk`, `BindFails` | the socket that a suspended call waits for |
| `Fails`, `ClientsLeave`, `Beat` | a tunnel on its own; the heartbeat |

Part `engine` of `engine_flow`: two ids, one managed by the scheduler; three
`Tunnel` objects, which is as many as ever exist at once; two calls in progress.
`Crowd` = 1 lets a second call begin while one is suspended only when at most one
id is in use: two ids are for what a loop does to one while the other waits, one
id for calls that overlap on it, a bulk action over another's batch included.
`MapIsSound`: types, a tunnel that holds a port is the one in the map, a deleted
definition leaves no tunnel.  `RendererIsTold`: the heartbeat runs exactly while
a tunnel is up, no batch stays open, which would silence the engine, and the
renderer shows the state a tunnel is in, whatever was collected in a batch that
another bulk action replaced.  The history variables `clash` and `muted` mark what
the code does not keep; section 15 says how.  What an orphaned tunnel does later is
not followed.

`Notices` is what the user hears outside the window.  It takes an engine
transition (`Emit`, within or outside a bulk action) through the notifier
(`OnTunnelState`, with cooldown and wanted kinds) and the tray's rebuild
(`UpdateTray`): the actions are what a tunnel does (`LinkArmed`, `LinkDrops`,
`LinkGivesUp`, ...), the start and end of a bulk action, `AllDisarmed`, writes of
definitions, changes of the settings and the cooldown's end.  `StatusIsTold`: a
recovery is announced only for a drop the user was told of and nothing else came
between; and outside a bulk action the tray lists the saved tunnels as they are.

## 7. Stores, Pickers and Transfer

**Stores** is `tunnels.json` as data: `doc` has credentials (label, type, whether a
secret is stored), jump hosts, groups, tunnels and consoles with their
references.  A store method reads, changes and writes the document in one
synchronous go, so each is one action: `SaveCred`, `DeleteCred`, `SaveJump`,
`DeleteJump`, `SaveGroup`, `DeleteGroup`, `SaveTunnel`, `SaveConsole` and their
deletes, with the refusals of the code as guards.  `Merge`, `Replace` and `ImportSsh`
are `store/portable.js` as document transformations: `Placements` maps the
records of a bundle to local ones (same id, else same label, else added under
its own id), `Merged` rewrites the references through it.  Which of several
records with one label is met depends on display order, which the model has not:
it allows any.

* `RefsResolve`: every hop of every tunnel has a credential, whatever the order
  of deletes and imports.  Also proved.
* `ImportIsFaithful`: a backup made at any moment is valid and restores
  credentials with their secrets, jump hosts and routes; merging it, stripped or
  not, changes nothing but group membership; a merge takes no stored secret away
  and the records it brings refer to what they referred to in the bundle.

Instance: two credentials, two jump hosts, one tunnel, console and group, two
labels so that ids and labels clash in every way; five bundles (`MCBundles`)
and the SSH proposals of `MCProposals`.  `SmallDoc` keeps documents to
`MaxRecords` = 4 records; an import may bring as many again.

**Pickers** is the window's side of two of these stores: `picker[f]` is a credential
picker with its `options` and `value`, in the form around (`outer`) and in the
jump host's editor (`host`); `chain` the jump-host picker; `credDlg`, `hostDlg`
the editors they open.  `calls` and `answers` are the IPC queues: the main process
serves in order, answers come back in order, and the user clicks in between.
`wants` is history, what the user last chose.  `ChoiceIsKept`: at rest every
picker offers what is stored and shows what was chosen or made last.
`SecretsFollowEdits`: a secret is stored for the type it was typed for only, and
survives an edit that types none.  Together `PickersKeep`, also proved.  `crossed`
excepts an editor reused while its save is in flight, and two editors open on one
record (section 15).  Bounds: two credentials,
two jump hosts, `MaxClicks` = 5, which reaches make, choose, edit, delete with
the answers of two of them outstanding.

**Transfer** spans the import/export dialog (`sheet`, `busy`), the call it has on its
way (`ask`), the handlers of `ipc/portable.js` (`ServeExport`, `ServeLook`,
`ServeApply`, `ServeAdd`), the engine's `reconcileAll()` as a `Sweep` tunnel by tunnel, and
the list of tunnels that reloads on every write (`ServeList`, `Loaded`).  A tunnel
is the version of its definition.  `ImportArrives`: at rest the list shows what is
stored, every stored tunnel runs as stored, and the dialog is busy only while a
call is on its way - through cancels, closed dialogs, page reloads and edits in
the middle of an import.  Bounds: two rows, three writes (`MaxWrites`), reads and
sweeps under way together at most two (`FewUnderWay`).  `import_replace` is
finding 2.

## 8. HostKeys and Consoles

**HostKeys.**  A handshake is one attempt of one hop.  `Present` is the verifier
seeing a key: accepted (known-hosts or on record), refused (another key of the
same algorithm), or a prompt.  `prompts` is the mediator's map, `popups` the
window's queue, `tofu` the store on disk; `trusted` is history.  `Trust` and
`Reject` answer the popup on screen, whenever that is; `GiveUp` is the handshake
ending first; `Revoke`, `RejectAll` and `Reload` are the panel, quit and a page
load.  `AcceptedIsVouched`: no handshake passes on a key that neither a
known-hosts file nor the user has vouched for, however late an answer comes.

**Consoles** extends it: every hop of a session's chain is one handshake, so the
composition is one state machine over both sets of variables, and `Spec` of
`Consoles` implies `KeysSpec` (`ConsolesUseHostKeys`, proved).  `phase` is the session,
`dial` what its `connectChain` waits for, `clients` how many SSH clients are alive
for it, `listed` and `windows` the manager's map and the terminal windows.
`DialStep` is one hop (verified, connected, `forwardOut`, or failing and disposing the
half-built chain); `Watch`, `Traffic` and `Flush` are the activity heartbeat.

* `NothingOutlives`: each SSH client is owned by a live session or a running dial.
* `ListedIsAlive`: a listed session has its window and every hop vouched for.
* `SessionsReport`: what a watched session does is reported in the end, whatever
  changed in the watch; and the connections of an ended session go.

Instance: two sessions over the same two hops (so that a restart overlaps the
session it replaces and a key accepted by one serves the other), three keys of
two algorithms.  Fairness: `DialStep`, since ssh2's `readyTimeout` ends every
handshake and a forward is answered or drops with its connection; and `Flush`, a timer that
is set.

## 9. Shell

`Shell` is `main.js` around the engine with the page it talks to: `Boot` (settings
read, arming and scheduler started or put off while the store is locked:
`postponed`), `SweepStep` (an `armAll` or `reconcileAll` under way), unlocking from the
prompt or from Settings, `ApplyMode`, `EmitChange` of the settings, `PageLoads`,
`Reload`, closing, hiding and showing the window, and `Quit` with its timeout.
The page's requests are served as they are sent; answers, broadcasts and menu
commands wait in `pipe`.

* `LaunchIsHandled`: startup arming runs once or never, waits exactly as long as
  the store is locked, and leaves scheduled tunnels to a scheduler that is on;
  a live page asks for the key until the user puts it off, the prompt leaves
  once the store is unlocked, from wherever, and the security panel is true.
* `QuitEnds`: a quit that has begun ends.  Fairness: `Drained` only, because
  `before-quit` races the teardown against a timer (`main.js:1391`).

Bounds: two tunnels, one of them scheduled; two requests (`MaxAsks`), two page
loads (`MaxLoads`), one act by hand (`MaxActs`).

## 10. Editor and Form

**Editor** is the dialog in time.  `opening` numbers the openings of the one dialog
object; `timer` is the debounce, `checks` the look-ups in flight, `saves` the
submits, `tests` the walks of the SSH chain in the main process with `pipe` as the
window's messages to it.  `EditorKeepsUp`: once nothing is pending each warning is
the one the form deserves, one opening writes at most one record, and no
cancelled test goes on dialling once the window's messages are handled.  Bounds: two openings, two tests,
`MaxLate` = 2 look-ups and tests together.

**Form** is the same dialog as data: `record` is the stored tunnel, `fields` what the
inputs show.  `Load` (`#populate`), `Payload` (`buildPayload`), the renderer's
validator, the store's validator and the store's merge with the stored record
are operators translated field by field; opening for edit, create and clone,
the switch of the type, the schedule fields and the asynchronous reading of the
network's name are actions.  `FormRoundTrips`: opening and saving without a
change keeps what the form shows; every refusal of the store is a message on a
visible field; and what was saved is what the editor shows next.  Bounds: two
changes and two dialogs, enough for clear-then-change-type.  `form_group` is
finding 1.

## 11. Sidebar, Panes and Grid

**Sidebar** has the two trees, tunnels and consoles, over the groups they share:
`view` is a snapshot, a drop is planned from it (`MovePlan`) and carried out one
request at a time (`ops`), while reloads (`reads`), group menus and the other tree
go on.  `DropLandsAtGap`: a row dropped in an open section ends where its gap was
and moves no other, as long as nothing else was written since; a drop that asks
for nothing is one whose gap was its own place.  `TreeIsSound`: no plan from an
out-of-date list loses or doubles a record or a group or leaves a record in a
group that is gone; with nothing under way both trees show what is stored.
Three tunnels, two consoles, three groups (one of each kind unborn), two
gestures (`MaxActs`).

**Panes** has the Console Manager's panes and the manager's `watch`: `seen`, `chosen`,
`pinned`, `onShow`, `card` are the window's, `sess` and `watched` the main
process's, `up` and `down` the two queues.  `PaneIsTrue`: what the details pane
shows is a session the main process streams, and once the queues are empty it
shows that session's state.  Two consoles, two sessions, three user acts
(`MaxDeeds`), at most `MaxTransit` = 3 messages on their way.

**Grid** is the card canvas: `cells` and `homes` are `CardCanvas`' maps, `layout` the
view's copy, `store` the settings, `fetched` the settings a reload has read and
not applied.  `GridIsSound`: the visible cards stand in the grid, no two in a
cell, no two displaced cards wait for one home; and the layout on screen is the
one the next tunnel gets and the settings keep.  Three cards, two columns, two
tunnels, four moves; the stores it may start from include a hand-edited one with
two cards in a cell and a card named twice, and the per-tunnel layouts of an
older version.  `Lists` is the `filter` that `Grid` and `Sidebar` share.

## 12. Runs

| run | distinct states | parts | properties |
|---|---|---|---|
| `tunnel_calls` | 1 812 240 | `Tunnel`, every overlap of calls | `LinkIsSound`, `TimersAndWaitersAreSound`, `DisposedIsInert`; `ServesItsClients`, `LastCallWins`, `EditsWaitTheirTurn`; `LinkFollowsNeed` |
| `tunnel_live` | 135 253 | `Tunnel`, undisturbed | `NeedIsServed` |
| `relay_flow` | 428 740 | `Relay`; `Socks`; `Shell` | `CountBalances`, `PauseHolds`, `DataFlows`; `ChunksDoNotMatter`; `LaunchIsHandled`, `QuitEnds` |
| `engine_flow` | 2 326 594 | `Engine`; `Notices` | `MapIsSound`, `RendererIsTold`; `StatusIsTold` |
| `scheduler_follow` | 380 300 | `Scheduler` | `TimersFollow`, `RecordedIsActed`, `FollowsSchedule` |
| `crash` | 975 734 | `SecretStorage`; `Files` | `NoneOrphaned`, `UnlockedReadsAll`, `SettledIsUniform`, `ResumeCanFinish`; `AckedSurvives`, `ImplementsDurableDoc` |
| `stores_shared` | 490 377 | `Stores`; `Pickers`; `Transfer` | `RefsResolve`, `ImportIsFaithful`; `PickersKeep`; `ImportArrives` |
| `consoles_trust` | 1 412 936 | `Consoles` with `HostKeys` | `AcceptedIsVouched`, `NothingOutlives`, `ListedIsAlive`, `SessionsReport` |
| `window_flow` | 1 379 172 | `Form`; `Editor`; `Sidebar`; `Panes`; `Grid` | `FormRoundTrips`; `EditorKeepsUp`; `DropLandsAtGap`, `TreeIsSound`; `PaneIsTrue`; `GridIsSound` |
| `form_group`, `import_replace`, `tunnel_stop` | - | `Form`; `Transfer`; `Tunnel` | findings 1, 2 and 3 |

`CHECK_DEADLOCK FALSE` stands where the system may stop: a disposed tunnel, a
finished relay, a quit process, a user who has spent the bounded number of
clicks.  `crash` and `scheduler_follow` check deadlock.  Symmetry is used only
in runs without liveness.  Every bound is a named constant, a named constraint
or the size of a set of identities; most identities are reused, so that they
limit what is outstanding at once and not how long a behaviour is.  The
exceptions are the counters of user acts (`MaxClicks`, `MaxActs`, `MaxDeeds`,
`MaxEdits`, `MaxMoves`, ...), chosen so that each pair of gestures that can cross does.

## 13. What is proved

Every theorem is about the specification without fairness, for every value of
the constants that their assumptions allow.

### TunnelProofs

Every safety and action property of `Tunnel`, for every set of definitions,
attempts, clients and sockets, every retry limit and every overlap of calls.
Nothing is assumed of the environment; the second and third layer are about the
states up to the step that set a history, as the properties are.  Each layer rests
on the one before.

**In every state:**

* `TypeCorrect`: `[]TypeOK`.  The content is in the bounds: the retry counter
  never exceeds the policy's limit, a stashed edit is a definition.
* `LinkSound`: `[]LinkIsSound`.  The session is an attempt that is up, the
  handshake promise belongs to the current generation, never both.
* `TimersAndWaitersSound`: `[]TimersAndWaitersAreSound`.  The idle timer runs
  only over an unpaused session; each waiting client hangs on a handshake that
  will still answer it.
* `BuriedForGood`: `[]DisposedIsInert`.

The first three follow from `Inductive`: `[]IInv`.  `IInv` is `Sound(tun, None)` and
the types of the other variables.  `Sound` adds two things to the properties:
a re-apply frame always carries a definition (else resuming it breaks the
type), and every client without a relay hangs on an attempt that is not over
(else settling one attempt could strand the clients of another).  The private
methods do not preserve `Sound` one by one: inside `#teardown()` the
promise still names an invalidated handshake, and after a drop the idle timer
has for a moment no session.  So `Sound` is split into `Linked`, which every
method preserves, and `Current` and `LingerHasSession`, restored before the turn
is over; each operator has one lemma saying which it keeps and which it
establishes, with a parameter for the attempt that settles in this turn.  The
actions then combine lemmas the way the handlers combine methods.

`DisposedIsInert` needs `Buried`: a frame that waits for a socket waits for the
right kind of one, a bound port belongs to an armed tunnel, and a disposed tunnel
has no timer, session or client, an arm() only while it waits for its port, and a
port only while a call is closing it.

**Until a start or an edit meets a suspended call:** `OrderInductive` proves
`[]SInv`, and from it come

* `ClientsServed`: `[]ServesItsClients`
* `LastCallHeeded`: `[]LastCallWins`
* `EditsInTurn`: `EditsWaitTheirTurn`, an action property.

`SInv` adds, while nothing has `crossed`, `Orderly` (at most one suspended call is
going to arm, beside any number of stops; the port is the tunnel's own; an idle
session is timed; what is not armed is down) and `Heeded`: whoever was stopped
has nothing under way that arms it - no arm frame, no re-apply that starts and no
stashed edit unless the tunnel is disposed.  A stop that meets a suspended start
breaks only the last, which is why `wanted` is then `overtaken`.

**Until besides an invalidated handshake answers late:** `LinkFollowsInductive`
proves `[]UInv`, and `NeedFollowed` `[]LinkFollowsNeed`.  `UInv` adds `Followed` while
`Undisturbed`: every attempt is the promise's, the session's, over or invalidated,
someone awaits the one that is dialing, a tunnel held open has a session, a
handshake or a retry timer, and `connecting` is shown only while one of them will
change it.

Assumptions: `DefsAssumption` (a definition is a record of five fields),
`NoneAssumption` (`None` is not an identity), `PolicyAssumption` (a retry limit
is a natural number; 0 is a legal `policy.maxAttempts`).

### EngineProofs

For any ids and any number of tunnels and of calls that overlap at their awaits:

* `EngineInductive`: `[]EInv`
* `MapSound`: `[]MapIsSound`
* `RendererTold`: `[]RendererIsTold`
* `StatusTold`: `NoticesSpec => []StatusIsTold`

`EInv` is what holds between two macrotasks.  Of the map: a tunnel that is not
disposed is the one in it (`Owns`); a call that is closing an old tunnel has
buried every tunnel of its id (`Buried`) and is alone in that (`Alone`); what is mapped of a
deleted definition has a `reconcile()` due or a removal under way (`Leaves`), and
nothing else brings it back (`Kept`).  Of what is told: outside a bulk action the
timer runs while a tunnel is up, and whatever the renderer has not heard a call
in progress will say (`Informed`); a batch has a bulk action to close it
(`Closes`); an id without a tunnel is shown disarmed (`Unmapped`, `Forgotten`).
None of this is in the two properties: a state in which a suspended removal and a
fresh tunnel share an id satisfies both of them and breaks `MapIsSound` one step later.

An operation runs in pieces: `reconcile()` disposes, awaits, creates, arms.
`Inv(e, fr, X)` is the invariant for an engine `e` half way, where the frames `fr`
leave the running call out and the ids `X` are owed a word by it.  Each operation
is followed from there to where the call parks or ends, and `Step` is the loop
over such pieces.  The ids on which calls were noted to clash, and those muted by
a foreign batch, are excused in the theorems as they are in the properties
(section 15).  `NInv` of `Notices` needs no strengthening but types.

Assumption: `NoneAssumption`, that `None` is no id, tunnel, call or record.

### SecretStorageProofs

For any number of secrets and of keys minted, on either platform, whatever the
order of crashes, failed writes and keychain outages:

* `NoSecretIsOrphaned`: `[]NoneOrphaned`
* `SettlesUniform`: `[]SettledIsUniform`
* `UnlockedSessionReads`: `[]UnlockedReadsAll`
* `ResumedSwitchFinishes`: `[]ResumeCanFinish`

None of the four is inductive: that the flip drops only a key nobody needs
depends on what the conversion did, that the conversion cannot fail halfway on
which keys launch loaded.  The reason behind all four is one fact: at every
moment ONE backend seals every secret, and it is the recorded mode or the
target of the marked switch.  `Families` says which, for each value of
`call.at`; `DocKeys` says that a sealed secret's key is the one in the key file
or under the stored verifier; `SessionKeys` says which of the session's keys are
those of the files; `Shape` says what program counter and config say of each
other.  `Inductive` proves `[]IInv` from one lemma per action, with one step per
conjunct.  A torn switch gives up the first three, never `Shape` and the types.
Assumptions: `PlatformAssumption`, `NoneAssumption`.

**Files**, in the same module.  For any items, any number of temp files and either kind of file system:

* `AckedChangesSurvive`: `FilesSpec => []AckedSurvives`
* `FilesImplementDurableDoc`: `FilesSpec => ImplementsDurableDoc`, the refinement:
  `StepImplements` maps each step to a `Put`, `Settle`, `Lose`, `Spoil` or a stutter.

Both rest on `Inv`: types, and `WriteIsReady`, which says what the program counter
promises of the temp file - from the fill on it exists, after the fill it holds
the next document, before the rename it is flushed, and the next document is one
item away from the one a reader sees.  Without it the rename could put anything
in place.  Assumption: `ItemsAssumption`.

### SchedulerProofs

For any set of tunnels, any schedules, any calendar, and passes interrupted at
any of their awaits by edits, toggles, switching off and on, and quit:

* `OffIsQuiet`: `[]DisabledIsQuiet`
* `EdgesAreActedOn`: `[]RecordedIsActed`
* `TimersAreRight`: `[]TimersFollow`
* `BoundaryIsFlip`: for every window and moment `NextTimeBoundary` is the distance to the
  next change of `InTimeWindow`, and `None` exactly when it never changes

`Sound` says what a suspended pass owes: it has actions queued only while it
makes its engine calls (`Owed`), each action still wants the recorded verdict
unless the user has taken over or the verdict was dropped, and every verdict
that nobody overrode is queued or was the last thing the engine was told
(`ActedIn`).  `TimersFollow` needs `TInv` besides: what a pass in progress governs is
the plan it began with, and either that plan is still the saved one or a further
pass is pending (`Follows`); so when it ends its timer is ahead of every edge of
what is saved by then.  That rests on the calendar: `NextTimeBoundary` is computed from the
windows of each day, and the lemmas on days, wraps past midnight and the end of
the week show that no edge of a window lies between the clock and that boundary.
The other half, that the answer does change there (`MarkFlips`), goes mark by mark
through the tick before it, in the same day or in the last minute of the day
before; `MinIsLeast` puts the halves together.
Assumptions: `CalendarAssumption`, `ScheduleAssumption`, `NoneAssumption`.

### RelayProofs

For any finite set of relays of any kinds, and every order of answers, closes,
pauses, drops and re-arms:

* `RelaysCloseOnce`: `[]ClosesOnce`
* `CountsBalance`: `[]CountBalances`
* `TypeCorrect`: `[]TypeOK`, with the count bounded by the relays and its peak
* `PausesHold`: `PauseHolds`, an action property

`Good` says of one relay which ends each phase may have, and that an open one
has both and nothing pending; `DownIsOver` that a torn-down tunnel has no live
relay, without which a re-arm could zero the count under one.  The count needs
that no more closes are subtracted than relays are open, since the code stops at
zero: the lemmas `OneOpens`, `OneEnds` and `NoneOpen` follow the cardinality of the
open relays through one change and through `FailAll`.  Assumptions:
`RelaysAssumption` (finitely many relays), `KindsAssumption`.

* `ChunksIrrelevant`: `SocksSpec => []ChunksDoNotMatter`, for any byte streams.
  `Heard` is what has arrived.  The lemmas `GreetingIs` and `RequestIs` say that
  the bytes `Heard` starts with are a greeting and a CONNECT request in the sense
  of the protocol (`IsGreeting`, `IsConnect`: concatenations of fields) exactly
  when `Greeted` and `Asks`, conditions on single bytes, hold, and that there is
  then one place for each; `GreetingParsed` and `RequestParsed` say that one call
  of the parser decides just that; `RequestStays` that more bytes change none of
  it.  `SocksInv` adds that during the handshake the buffer is the part of `Heard`
  not used yet, and that what is held and passed on is what lies behind the
  request.  Assumption: `SocksAssumption`, that streams are of bytes.
* `ShellInductive`: `[]ShellInv`; `LaunchHandled`: `ShellSpec => []LaunchIsHandled`,
  for any tunnels and any number of loads, acts and asks.  `LaunchInv` is about
  the main process: what is postponed waits for the key, and startup arming has
  run exactly when it was wanted and is not postponed.  The rest is about words on
  their way to the page: each is true of the store, because nothing locks it
  again while the process lives; the word that raises the prompt is the first of
  them; and the last one that tells the panel its mode is the current mode.
  Assumption: `ShellAssumption`.

### StoresProofs

* `ReferencesResolve`: `[]RefsResolve` for any ids, labels, bundles and proposals.
  `Inv` is that the document has its five lists and that every reference is inside
  it (`Closed`); one lemma per operation, `PlacedInside` for the rewriting of a
  bundle's references.
* `ImportsFaithful`: `[]ImportIsFaithful`.  `ImportInv` adds that every list is a map
  of records (`Whole`) and that a credential that cannot hold a secret holds none.
  With it, a bundle built from the document strips nothing a restore would need,
  and the placement of a backup in its own document is the identity.
  Assumption for both: `StoresAssumption` (bundles and proposals are records of
  these ids, an agent credential is a kind of credential, `None` is none of them).
* `ImportsArrive`: `TransferSpec => []ImportArrives`, for any rows and packs.
  `ArriveInv` says who owes what: a list that does not show what is stored has an
  import still to be announced or a read on its way (`Announcing`, `Fresh`); a
  stored tunnel that does not run as stored is still ahead of some sweep
  (`Ahead`), whichever of several sweeps gets there first.  Assumption:
  `TransferAssumption` (finitely many rows, `Idle` is no call).
* `PickersInductive`: `[]PickersInv`; `PickersKept`: `PickersSpec => PickersKeep`, for
  any credentials and jump hosts and any number of clicks.  At rest the property
  is about what is shown; the invariant is about the two queues that lead there.
  Main answers in order, so the lists on their way are the stored one of earlier
  moments: an id that one lacks is in none behind it once it was shown, for ids
  are not given out again (`NoneReturns`), and a list that is behind is asked for
  again (`ListsComing`).  While nothing has `crossed`: a save under way is that of
  the one editor that waits for it (`SavesAreOwn`); what an editor believes of its
  record is so, or its record's save is about to be heard (`EditorsKnow`), which
  keeps a secret that nothing replaces; the choice is shown, or a list that will
  choose it is coming (`ChoiceComes`); the chain holds what the user wants of the
  hosts that are known (`ChainFollows`), and a new host is in the list that makes
  it join (`NewHostsJoin`).  `PickersKept` reads the shown values off these with both
  queues empty, and the secrets off one step.  TLC checked the invariant first; with
  more clicks than the run allows it also showed that two editors may hold one
  record, which `crossed` now covers.  Assumption: `PickersAssumption` (`Nil` is
  no record, the types on offer are types).

### ConsolesProofs

* `KeysAreVouched`: `KeysSpec => []AcceptedIsVouched`, for any hosts, keys and
  handshakes.  `IInv` adds that whatever is on record was accepted for that very
  host, and that prompts and waiting handshakes carry a key.
* `NoClientOutlives`, `ListedSessionsAreAlive`: for any number of sessions and any
  chain.  `SessionInv` ties phase, dial, clients and verdicts of one session
  together: only a connecting session, or one that ended while connecting, has a
  dial, and the hops a dial has passed are the clients it made.
* `ConsolesUseHostKeys`: `Spec => KeysSpec`; every console step is a step of the
  host keys or leaves them alone.  `ConsoleKeysAreVouched` then carries
  `AcceptedIsVouched` over without another induction.

Assumptions: `HostKeysAssumption`, `ConsolesAssumption` (a chain has a hop, a
handshake is a session and a hop).

### WindowProofs

* `EditorInductive`: `[]EditorInv`; `EditorInStep`: `EditorSpec => []EditorKeepsUp`,
  for any hosts and any number of dialogs and tests.  `ChecksFollow`: a check
  that may still speak asks about the form as it is, and by the time it asks about
  the target the entry is settled.  `SavesOnce`: an opening's save is on its way, or
  done, or still to come.  `CancelGoesLast`: a cancel is behind its test in the pipe.
* `FormInductive`: `[]FormInv`; `RoundTrips`: `FormSpec => []FormRoundTrips`.  `FormInv`:
  the stored record fills a form (`Load(record)` is one), that form saved as it is
  gives a record that behaves the same (`Reopens`), and the messages on the screen
  are those of the fields once a save was tried.  The lemmas before it say of
  `Load`, `Save` and the seeds what they give for every form; the one that a record
  just saved reopens is the heart of it.
* `PanesInductive`: `[]PanesInv`; `PaneTrue`: `PanesSpec => []PaneIsTrue`, for any
  number of sessions, clicks and reloads.  Two queues run between window and
  main process, so the invariant is about what is in them: replies to a page's
  requests come once each and in its order (`ReloadInOrder`); each word about a
  session is true unless one behind it says otherwise, and where no word is on its
  way the window knows the session as it is (`WordsAreTrue`); the last watch
  request on its way, or what main streams if there is none, is the session on
  show (`WatchFollows`); the pane is about that session, of the chosen console
  (`CardFollows`).  "The last word" is found by well-founded induction on sets of
  positions (`WFMin`): the induction theorems for operators are not usable here.

* `GridInductive`: `[]GridInv`; `GridSound`: `GridSpec => []GridIsSound`, for any
  catalogue, width and list of tunnels and any settings with well-formed layouts.
  `GridApart`: no two cards in a cell, nor two displaced cards of one home, and a
  card in hand is on show.  `GridShared`: until a reload is overtaken, what it read
  is what is stored, and once a tunnel was shown the canvas, the view and the
  settings hold one layout, with no legacy layout left to adopt; without the last
  clause a reload could adopt one and move the cards.  `FirstFreeIsFree`: by
  counting, `Columns` >= 1 cells more than are taken hold a free one.  `PlacedIs`: a
  placement shows exactly the cards asked for, each alone in its cell, whatever
  layout it starts from.  `ReturningIs`: a displaced card goes home only with whoever stands
  there, which is why `applyDrop` never doubles a cell (`NextToOthers`); the least
  set that may return exists as the intersection of those that are closed.
  `OnlyIs`, `VisibleIs` and `PlacedIs` are inductions over a list, done by a
  well-founded induction on a set of positions (`NatBySteps`) and the existence of
  the function a recursion defines (`RecursionExists`).
* `TreeInductive`: `[]TreeInv`; `TreeSound`: `TreeSpec => []TreeIsSound`, for any
  finite numbers of rows and groups.  `Reordered`, `Without` and `InsertAt` keep a list
  free of doubles and, but for the row they name, with the same members
  (`ReorderedIs`, `WithoutIs`, `InsertIs`), whatever old list the request carries;
  hence `AliveIsStored`.  Every stored or travelling snapshot has its rows in its own
  groups (`Snapshots`), which is why a section's menu names the rows it shows
  (`MenuIsRows`).  `NothingMissed` is what makes the trees settle: of each tree,
  either what it will show once its replies are applied is what is stored, or a
  gesture under way still owes it a reload (`Owes`).  It is the announcement of group
  changes to both trees that pays the debts of the other one.
* `DropInductive`: `[]DropInv`; `DropsLand`: `TreeSpec => []DropLandsAtGap`.  `SpotIsRight`:
  a fresh gap parts the rows its section shows in two, comes before the first other
  row of the lower part, and wants the dragged row between them (`GapFits`).
  `MovesAreRight`: as long as nothing else was written, what is stored is what a
  move's requests so far made of what it was planned from, and its plan is that
  list with the row in its gap (`PlanIsRight`).  The lemmas before it are of three
  kinds.  Of lists: a filter keeps the order and distributes over a join, two
  lists cut at the same element are cut alike (`OnlyConcat`, `CutAt`, `SameCut`).  Of the
  rendered list: a section's header and rows stand in it whole, with none of the
  section above or below (`FlattenSplits`, `ElementsSplit`), so a cut in that part
  cuts just its rows (`ElementsCut`, `GapSays`).  Of the plan: the row put before the
  row below the gap, or after the last one of its section, or at the end, parts
  the section's rows where the gap did, in an order that interleaves all sections
  (`PutsBefore`, `PutsAfter`, `PutsLast`, `PlanLands`).  A reload during the drag makes the
  gap stale, a write during the move makes it unclean; nothing is claimed of those.

Assumptions: `EditorAssumption` (no host is `NoHost`), `PanesAssumption` (bounds are
natural numbers), `GridAssumption` (a column, a tunnel, a stored layout puts cards
in cells, and nothing stored is not a layout), `TreeAssumption` (finitely many rows
and groups, no id of two kinds, and neither `Ungrouped` nor `NoRow`, the code's
`null`, is an id).

### Model-checked only

* Liveness under fairness, which this prover cannot do: `FollowsSchedule`,
  `DataFlows`, `NeedIsServed`, `QuitEnds`, `SessionsReport`.

## 14. Findings

Each is a run that TLC must find violated; `PROJECT.json` quotes the line.

1. `GroupIsKept` (`form_group`) - the tunnel editor's payload never carries the
   group, and the store takes an absent group for a cleared one: saving any edit
   moves the tunnel to Ungrouped.  Consoles do the same (`console-store.js:67`).
2. `ImportDisposes` (`import_replace`) - an import in replace mode removes tunnels,
   but `reconcileAll()` walks the definitions that are stored afterwards: a removed
   tunnel that was armed goes on listening and forwarding, with no row to stop it.

3. `EveryStopWins` (`tunnel_stop`) - the re-check after a bind looks at `#disposed`
   only, and a re-apply looks at nothing when its teardown is over: a disarm that
   lands in either is finished first, and the suspended call then arms the tunnel.
   `tunnel.js:267-270` names disarm() among the calls the re-check is for.

## 15. Known gaps of the code that no property claims

Met while modelling.  The model takes these steps unless a history variable is
named, and the properties are stated so as not to claim the opposite.

### Tunnel, relay, engine, scheduler, secrets

* A keep-alive tunnel disarmed during its handshake: when the abandoned handshake
  *fails*, its rejection handler schedules a reconnect (`tunnel.js:748`) and the
  disarmed tunnel shows itself connecting, against `tunnel.js:102-103`.  Only the
  success path tests the generation.  Hence `belated` in `LinkFollowsNeed`.
* A disarm while the listener binds (`tunnel.js:272`), or while a re-apply nobody
  awaits closes it (`tunnel.js:330`, `364`), is undone by the call it met: finding 3.
  Hence `overtaken` in `LastCallWins`.
* An arm, an edit or a forced edit while another call is suspended: two re-applies
  each arm, the older edit may be applied last, and an arm may bind a second
  socket.  Hence `crossed`.
* The write that flips the mode to master password fails after the secrets were
  converted; setting the password again mints a new salt over the one in use
  (`secret-storage.js:574`, against 462-464).  Hence `torn`.
* A relay paused and resumed while its channel is being opened: the resume makes
  the socket flow with nobody reading (`relay.js:93`, `363`, against 422-423).
  `DataFlows` speaks of what is unread, not of what was dropped (`lost`).
* A hand toggle while an action on that tunnel is queued is undone by the queued
  action (`scheduler.js:413`, against 38-40).
* An edit stashed while a client is connected and then taken back compares equal
  to the running definition, so `applyDefinition` takes its cosmetic branch
  (`tunnel.js:320-323`) and leaves `#pendingDef`: the withdrawn edit is applied
  when the client leaves, against `engine.js:261-263`.
* An edit stashed while the only client waits for a handshake is not applied when
  that handshake fails: `tunnel.js:472` deletes the client without the idle check.  Left there, it is
  applied when a later client leaves, over any newer definition.
* The pause of a relay does not survive back-pressure: the "drain" of a full end
  resumes its paused source, and SOCKS bytes that came with the request are
  written although the relay is paused (`relay.js:464-470`, against 28-31);
  `PauseHolds` excepts the drain.
* A stale handshake that settles clears `#connectPromise` (`tunnel.js:579`,
  `616`) even when it belongs to a newer dial; the next access dials again.
  Hence `belated`.
* Two `arm()` calls overlapping a bind each assign `#listener` (`tunnel.js:236`,
  `275`): the first socket stays bound unowned.
* A retry timer survives a lazy access that connects first (`tunnel.js:598`); it
  fires once and finds a session.  A drop whose failed relays re-apply a stashed
  edit (`tunnel.js:640`) sets a retry timer for the tunnel being re-applied.
* `disarmAll()` disposes silently and empties the map: after "Disarm All" the
  renderer keeps showing the tunnels as they were and the tray is not updated
  (`engine.js:252-257`, `main.js:484-491`, against `engine.js:22-24`).  Hence `muted`.
* A second `arm()` of a tunnel in error that still has its listener, or a delete,
  while the first awaits `tunnel.dispose()` (`engine.js:137-141`): two tunnels, one
  in no map, or a tunnel of a deleted id.  Hence `clash`.  `arm()` of a tunnel whose
  `disarm()` is still closing its listener arms nothing (`engine.js:135-136`).
* Two bulk actions that overlap: the one that ends second finds `#batch` null and
  rejects with a TypeError (`engine.js:207`).
* `scheduler.dispose()` leaves `#enabled` set: a pass suspended at quit goes on
  (`scheduler.js:346`).  A time edge between a pass's evaluation and the setting of its
  timer is noticed by the re-check only; a failed engine call is not repeated.
  An edge less than a second away is slept past by up to a second
  (`scheduler.js:509`): the model's tick is a second, so it has no such edge.
* A switch to a master password that is pending and is abandoned for another
  backend, when that switch aborts in turn, leaves kdf and verifier of a password
  that guards nothing (`secret-storage.js:372-374`, `565`).  A lost
  `secret-storage.json` under a master password cannot be repaired (`lost`).
* A bulk action keeps a tunnel's last snapshot only, so drops inside it give no
  notice; a disarm during an outage leaves its episode open; an import does not
  refresh the native menu's group submenus.

### Host keys and consoles

* Two prompts for one host with different keys: trusting both overwrites the first
  without the warning a changed key gets.  A prompt outlives its handshake and a
  late answer still persists; a page load loses the popups and leaves the prompts
  pending; revoking a key does not touch live sessions.
* A terminal page that reports ready twice while connecting would leak the first
  chain; it reports once.  A session that ended by itself stays in `#watched`.
  `forwardOut()` has no timeout of its own.

### Stores, import and export

* An SSH import rewrites the document without groups and consoles (`portable.js:746`,
  against `definitions-doc.js:33-37`).  An import in replace mode leaves
  consoles that refer to removed records: so `RefsResolve` speaks of tunnels and
  jump hosts only.  Merge and replace drop group, schedule and retry settings, and
  imports pass no store validator.
* A bundle without secrets that changes a credential's type drops the stored
  secret; a record matched by label may be one the user has renamed to it; an
  export while the store is locked leaves secrets out without saying so.
* The dialog's export form opens while an import is under way, whose completion
  then closes it; an import that fails after Cancel is never shown; the consoles
  view does not reload after an import.

### Window

* Editor: with a save in flight, cancel and reopen, the first save's completion
  closes the second dialog; a cancelled test's late reply is shown as the next
  test's; `New Tunnel` from the menu resets a dialog being edited.
* Form: an IPv6 target with a port is rebuilt without brackets (`Rewritten`); a
  blank host of an old record drops its port; the answer to "use current network"
  may land in another tunnel's schedule; a stale view right after a save offers
  the earlier edit again.
* Pickers: the jump host's payload uses a copy of the credential that a deletion
  in its own picker leaves behind (`jump-host-editor-dialog.js`); Edit, Save, Cancel
  and New in that order puts the edited host into the chain
  (`jump-host-picker-field.js:287`); the answer to an Edit may open a credential
  editor behind the jump host's, which then opens one on the same record, and the
  last to be saved goes by what it loaded.  Hence `crossed`.
* Sidebar: rows waiting for "New group..." survive Cancel and are taken along by the
  next group that is edited (`tunnels-view.js:837`, against 831-832;
  `consoles-view.js:612-622`); a drop on a collapsed header lands at the section's
  end, against its comment; collapsing while a load is in flight is undone on
  screen and kept in the settings; a drop's update writes the whole, perhaps
  stale, definition.  A failed toggle puts back the state it captured over any
  newer one (`tunnels-view.js:592-606`).
* Panes: an event between the sessions' reply and the end of the load is
  overwritten (`raced`); saving a console re-points the watch while another pane
  has the centre; deleting the selected console leaves its pane; selecting a
  console does not clear the tunnel's selection, against `app.js:106-107`.
* Grid: a displaced card does not return home when the intruder is hidden
  (`grid-layout.js:201-210`); a reload in the middle of a drag leaves `#drag` set
  (`Retired`), after which no press is taken; a reload's settings revert changes made since it read them
  (`overtaken`); hiding a card forgets its cell.
* Shell: a settings write while locked starts the scheduler; a deferred enable
  outlives switching the scheduler off; unlocking reconciles governed tunnels
  though arming at launch is off; an unlock prompt behind Settings, unlocked from
  there, stays until the next page load; passes, sweeps and the user may arm
  tunnels while quit drains; a second quit exits before the sessions are closed.

## 16. Not modelled, and why

* Update check, logging, diagnostics, packaging, site: no state of their own.
* Parsing of SSH configuration, SOCKS address rendering, ANSI processing, host-name
  syntax, `migrations.js` (it stamps a version): text in, text out.
* Cryptography: a key either is the one that sealed a secret or is not.
* Authentication methods, network probes' sockets, byte counters and rates.
* Of the window: translation, themes, help, icons, drawing, table sorting, tabs
  and focus, the key-file status, toggles of the form, its jump hosts.

Within modelled parts the headers of the modules say what is left out: error
texts, snapshots, the length of delays, DST shifts.

## 17. Plan

What is left, the most useful first.

1. `Tunnel` composed with `Relay`: one client as both see it, and `Engine` shown to
   call `Tunnel` only as the former allows.
2. Quit across `Shell`, `Scheduler` and `Engine` in one machine (`scheduler.js:346`).
3. The retry policy of the engine and the statistics' time stamps.
4. An abstract `SecretStore` (a secret is readable or locked, never lost) with
   `SecretStorage` as its implementation, from the invariant already proved.
