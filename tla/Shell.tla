-------------------------------- MODULE Shell --------------------------------
(***************************************************************************)
(* The application around the engine: launch, the one window and its page, *)
(* the unlock prompt and Settings on the shared popup host, what launch    *)
(* puts off while the secret store is locked, and quit.                    *)
(*                                                                         *)
(* The main process handles a request as it is sent: the requests of the   *)
(* page come in order and nothing else changes what they read.  Its        *)
(* answers, its broadcasts and the menu's commands reach the page later,   *)
(* in order, in pipe.                                                      *)
(*                                                                         *)
(* Abstraction: a tunnel is armed or not, every one is enabled; a sweep of *)
(* the engine arms what it took, one tunnel at a time; of the settings,    *)
(* the two that arm tunnels; a password is right or wrong; whether a store *)
(* with a master password has its key is all that is kept of the others.   *)
(***************************************************************************)
EXTENDS Naturals, Sequences, SequencesExt

CONSTANTS
  Tunnels,   \* the tunnels
  Governed,  \* those with a schedule
  MaxAsks,   \* bound on what the user asks of the page
  MaxLoads,  \* bound on the loads of the page
  MaxActs    \* bound on what the user arms or disarms by hand

ASSUME ShellAssumption ==
  Governed \subseteq Tunnels /\ MaxAsks \in Nat /\ MaxLoads \in Nat /\ MaxActs \in Nat

Settings == [sched : BOOLEAN, armOnLaunch : BOOLEAN]
Modes == {"app-key", "os-keychain", "master-password"}
Popups == {"unlock", "settings"}

VARIABLES
  proc,      \* the process: "off", "up", "gone"
  boot,      \* the settings launch read
  onDisk,     \* the settings on disk
  mode,      \* where the secret store keeps its key
  hasKey,    \* the key is loaded (always, but for a master password not entered)
  postponed, \* what launch has put off: armOnUnlockPending, schedulerEnablePending
  sched,     \* the scheduler is on
  armed,     \* the armed tunnels
  sweeps,    \* the engine's sweeps that still have tunnels to arm
  launches,  \* how often startup arming ran
  quitting,  \* isQuitting
  draining,  \* the quit waits for the sessions to close (_disarmed)
  win,       \* the window: "none", "shown", "hidden"
  page,      \* its page: "none", "loading", "live"
  loads,     \* how often it was loaded
  pipe,      \* what is on its way to the page
  popups,    \* the popup on screen and those queued behind it
  open,      \* the unlock prompt believes it is on screen
  later,     \* the user has put it off
  panel,     \* what the security panel shows, and the switch it asks about
  asks, acts \* how much the user has done

mainVars == <<boot, onDisk, mode, hasKey, postponed, sched, armed, sweeps, launches>>
quitVars == <<proc, quitting, draining>>
pageVars == <<pipe, popups, open, later, panel>>
userVars == <<asks, acts>>
shellVars == <<mainVars, quitVars, win, page, loads, pageVars, userVars>>

Locked == ~hasKey
NoPanel == [mode |-> "app-key", locked |-> FALSE, switch |-> "none", read |-> FALSE]

ShellInit ==
  /\ proc = "off" /\ quitting = FALSE /\ draining = FALSE
  /\ boot = [sched |-> FALSE, armOnLaunch |-> FALSE] /\ onDisk = boot
  /\ mode = "app-key" /\ hasKey = TRUE
  /\ postponed = [arm |-> FALSE, sched |-> FALSE]
  /\ sched = FALSE /\ armed = {} /\ sweeps = {} /\ launches = 0
  /\ win = "none" /\ page = "none" /\ loads = 0
  /\ pipe = <<>> /\ popups = <<>> /\ open = FALSE /\ later = FALSE /\ panel = NoPanel
  /\ asks = 0 /\ acts = 0

-----------------------------------------------------------------------------
\* The engine and the scheduler as the application calls them.

GovernedIds(on) == IF on THEN Governed ELSE {}

Sweep(kind, ids) == IF ids = {} THEN {} ELSE {[kind |-> kind, left |-> ids, obey |-> onDisk'.sched]}

\* Startup arming leaves the scheduled tunnels to a scheduler that is on.
LaunchArm(on) == Sweep("launch", Tunnels \ GovernedIds(on))

SweepStep(s, t) ==
  /\ proc = "up" /\ s \in sweeps /\ t \in s.left
  /\ armed' = armed \cup {t}
  /\ sweeps' = (sweeps \ {s}) \cup (IF s.left = {t} THEN {} ELSE {[s EXCEPT !.left = @ \ {t}]})
  /\ UNCHANGED <<boot, onDisk, mode, hasKey, postponed, sched, launches, quitVars, win, page,
                 loads, pageVars, userVars>>

\* A pass of the scheduler arms or disarms a tunnel it governs.
SchedulerActs(t) ==
  /\ proc = "up" /\ ~quitting /\ t \in GovernedIds(sched)
  /\ armed' = IF t \in armed THEN armed \ {t} ELSE armed \cup {t}
  /\ UNCHANGED <<boot, onDisk, mode, hasKey, postponed, sched, sweeps, launches, quitVars, win,
                 page, loads, pageVars, userVars>>

-----------------------------------------------------------------------------
\* Launch.

Boot(s, m) ==
  /\ proc = "off" /\ proc' = "up" /\ win' \in {"shown", "hidden"}
  /\ page' = "loading" /\ loads' = 1
  /\ boot' = s /\ onDisk' = s /\ mode' = m /\ hasKey' = (m # "master-password")
  /\ LET locked == ~hasKey'
         on == s.sched /\ ~locked
         now == s.armOnLaunch /\ ~locked
     IN /\ postponed' = [arm |-> s.armOnLaunch /\ locked, sched |-> s.sched /\ locked]
        /\ sched' = on
        /\ sweeps' = IF now THEN LaunchArm(on) ELSE {}
        /\ launches' = IF now THEN 1 ELSE 0
  /\ UNCHANGED <<armed, quitting, draining, pageVars, userVars>>

\* resumeDeferredArm without the reset of armOnUnlockPending.
ResumeDeferredArm_Mutant ==
  /\ sched' = (sched \/ postponed.sched)
  /\ postponed' = [postponed EXCEPT !.sched = FALSE]
  /\ launches' = launches + (IF postponed.arm THEN 1 ELSE 0)
  /\ sweeps' = sweeps \cup Sweep("all", Tunnels \ GovernedIds(sched))
                 \cup (IF postponed.arm THEN LaunchArm(sched') ELSE {})

\* An unlock first reconciles every tunnel, then starts the scheduler and the
\* startup arming that launch put off.
ResumeDeferredArm ==
  /\ sched' = (sched \/ postponed.sched)
  /\ postponed' = [arm |-> FALSE, sched |-> FALSE]
  /\ launches' = launches + (IF postponed.arm THEN 1 ELSE 0)
  /\ sweeps' = sweeps \cup Sweep("all", Tunnels \ GovernedIds(sched))
                 \cup (IF postponed.arm THEN LaunchArm(sched') ELSE {})

-----------------------------------------------------------------------------
\* Requests of the page: the handlers of secret-storage and of the settings.

Told(who) == [to |-> who, mode |-> mode', locked |-> ~hasKey', ok |-> TRUE]
Refused(who) == [to |-> who, mode |-> mode, locked |-> Locked, ok |-> FALSE]

\* The broadcast of a change precedes the answer.
Announced(who) == pipe' = pipe \o <<Told("all"), Told(who)>>

Unlock(who, right) ==
  IF ~right THEN /\ pipe' = Append(pipe, Refused(who))
                 /\ UNCHANGED mainVars
  ELSE /\ hasKey' = TRUE /\ UNCHANGED <<boot, onDisk, mode, armed>>
       /\ Announced(who) /\ ResumeDeferredArm

SetMode(m, can) ==
  IF Locked \/ ~can THEN /\ pipe' = Append(pipe, Refused("panel"))
                         /\ UNCHANGED mainVars
  ELSE /\ mode' = m /\ hasKey' = TRUE /\ onDisk' = onDisk
       /\ pipe' = IF m = mode THEN Append(pipe, Told("panel")) ELSE pipe \o <<Told("all"), Told("panel")>>
       /\ sweeps' = sweeps \cup (IF m = mode THEN {} ELSE Sweep("all", Tunnels \ GovernedIds(sched)))
       /\ UNCHANGED <<boot, postponed, sched, armed, launches>>

-----------------------------------------------------------------------------
\* The popup host.

Top(p) == popups # <<>> /\ Head(popups) = p

\* Closes whatever is on screen; the next in the queue is shown.
CloseTop == popups' = IF popups = <<>> THEN <<>> ELSE Tail(popups)

\* The unlock prompt shows itself once, and closes itself once.
ShowPrompt ==
  IF open THEN UNCHANGED <<popups, open>>
  ELSE open' = TRUE /\ popups' = Append(popups, "unlock")

ClosePrompt ==
  IF ~open THEN UNCHANGED <<popups, open>> ELSE open' = FALSE /\ CloseTop

-----------------------------------------------------------------------------
\* The page.

PageLoads ==
  /\ proc = "up" /\ page = "loading" /\ page' = "live"
  /\ pipe' = <<[to |-> "prompt", mode |-> mode, locked |-> Locked, ok |-> TRUE]>>
  /\ UNCHANGED <<mainVars, quitVars, win, loads, popups, open, later, panel, userVars>>

\* A reload forgets all the page knew.
Reload ==
  /\ proc = "up" /\ page = "live" /\ loads < MaxLoads
  /\ page' = "loading" /\ loads' = loads + 1
  /\ pipe' = <<>> /\ popups' = <<>> /\ open' = FALSE /\ later' = FALSE /\ panel' = NoPanel
  /\ UNCHANGED <<mainVars, quitVars, win, userVars>>

\* A snapshot resets what the panel was asking.
Shows(m) == [mode |-> m.mode, locked |-> m.locked, switch |-> "none", read |-> TRUE]

\* A broadcast: the panel shows it, the prompt goes when the store is unlocked.
OnStateChanged(m) ==
  /\ panel' = Shows(m)
  /\ IF m.locked THEN UNCHANGED <<popups, open>> ELSE ClosePrompt

\* A request of the page is answered before its next message is handled.
Receive ==
  /\ page = "live" /\ pipe # <<>>
  /\ LET m == Head(pipe) IN
     CASE m.to = "prompt" ->   \* get-mode at start
            /\ IF m.locked THEN ShowPrompt ELSE UNCHANGED <<popups, open>>
            /\ pipe' = Tail(pipe) /\ UNCHANGED panel
       [] m.to = "all" -> OnStateChanged(m) /\ pipe' = Tail(pipe)
       [] m.to = "unlock" ->   \* the answer to the prompt's password
            /\ IF m.ok THEN ClosePrompt ELSE UNCHANGED <<popups, open>>
            /\ pipe' = Tail(pipe) /\ UNCHANGED panel
       [] m.to = "panel" ->    \* the answer to the panel: read again, or snap back
            /\ IF m.ok
               THEN /\ pipe' = Append(Tail(pipe), [m EXCEPT !.to = "load", !.mode = mode, !.locked = Locked])
                    /\ UNCHANGED panel
               ELSE /\ pipe' = Tail(pipe)
                    /\ panel' = [panel EXCEPT !.switch = "none"]
            /\ UNCHANGED <<popups, open>>
       [] m.to = "load" ->     \* get-mode of the panel
            /\ panel' = Shows(m) /\ pipe' = Tail(pipe) /\ UNCHANGED <<popups, open>>
       [] m.to = "settings" -> \* the menu's command, or the answer with the settings
            /\ IF m.ok THEN /\ popups' = Append(popups, "settings") /\ pipe' = Tail(pipe)
                       ELSE /\ pipe' = Append(Tail(pipe), [m EXCEPT !.ok = TRUE])
                            /\ UNCHANGED popups
            /\ UNCHANGED <<open, panel>>
  /\ UNCHANGED <<mainVars, quitVars, win, page, loads, later, userVars>>

-----------------------------------------------------------------------------
\* The user at the page.

Asking == page = "live" /\ win = "shown" /\ asks < MaxAsks /\ asks' = asks + 1 /\ acts' = acts
Still == UNCHANGED <<quitVars, win, page, loads>>

SubmitUnlock(right) ==
  /\ Asking /\ Top("unlock") /\ open
  /\ Unlock("unlock", right)
  /\ Still /\ UNCHANGED <<popups, open, later, panel>>

Later ==
  /\ page = "live" /\ Top("unlock") /\ open /\ ClosePrompt /\ later' = TRUE
  /\ Still /\ UNCHANGED <<mainVars, pipe, panel, userVars>>

CloseSettings ==
  /\ page = "live" /\ Top("settings") /\ CloseTop
  /\ Still /\ UNCHANGED <<mainVars, pipe, open, later, panel, userVars>>

RevealSecurity ==
  /\ Asking /\ Top("settings")
  /\ pipe' = Append(pipe, [to |-> "load", mode |-> mode, locked |-> Locked, ok |-> TRUE])
  /\ Still /\ UNCHANGED <<mainVars, popups, open, later, panel>>

PanelUnlock(right) ==
  /\ Asking /\ Top("settings") /\ panel.locked
  /\ Unlock("panel", right)
  /\ Still /\ UNCHANGED <<popups, open, later, panel>>

\* A radio other than the current mode asks for a confirmation or a password.
PickMode(m) ==
  /\ page = "live" /\ Top("settings") /\ panel.read /\ m # panel.switch
  /\ panel' = [panel EXCEPT !.switch = IF m = panel.mode THEN "none" ELSE m]
  /\ Still /\ UNCHANGED <<mainVars, pipe, popups, open, later, userVars>>

ApplyMode(can) ==
  /\ Asking /\ Top("settings") /\ panel.switch # "none"
  /\ SetMode(panel.switch, can)
  /\ Still /\ UNCHANGED <<popups, open, later, panel>>

\* Every change of a control saves the form and sets the scheduler's switch.
EmitChange(s) ==
  /\ Asking /\ Top("settings") /\ s # onDisk
  /\ onDisk' = s /\ sched' = s.sched
  /\ Still /\ UNCHANGED <<boot, mode, hasKey, postponed, armed, sweeps, launches, pageVars>>

-----------------------------------------------------------------------------
\* The user at the tray, the menu and the window.

\* The window is created when there is none, and shown.
ShowWindow ==
  /\ win' = "shown"
  /\ IF win = "none" THEN page' = "loading" /\ loads' = loads + 1 ELSE UNCHANGED <<page, loads>>

Show ==
  /\ proc = "up" /\ win # "shown" /\ loads < MaxLoads /\ ShowWindow
  /\ UNCHANGED <<mainVars, quitVars, pageVars, userVars>>

\* The command is lost on a page that does not listen yet.
OpenSettings ==
  /\ proc = "up" /\ asks < MaxAsks /\ asks' = asks + 1 /\ acts' = acts
  /\ win # "none" /\ ShowWindow
  /\ pipe' = IF page = "live" THEN Append(pipe, [to |-> "settings", mode |-> mode, locked |-> Locked, ok |-> FALSE])
             ELSE pipe
  /\ UNCHANGED <<mainVars, quitVars, popups, open, later, panel>>

\* Arm all, a group or one tunnel; disarm them.
ByHand(ids, arm) ==
  /\ proc = "up" /\ acts < MaxActs /\ acts' = acts + 1 /\ asks' = asks
  /\ IF arm THEN sweeps' = sweeps \cup {[kind |-> "all", left |-> ids, obey |-> FALSE]} /\ armed' = armed
            ELSE armed' = armed \ ids /\ sweeps' = sweeps
  /\ UNCHANGED <<boot, onDisk, mode, hasKey, postponed, sched, launches, quitVars, win, page, loads, pageVars>>

Hide ==
  /\ proc = "up" /\ ~quitting /\ win = "shown" /\ win' = "hidden"
  /\ UNCHANGED <<mainVars, quitVars, page, loads, pageVars, userVars>>

-----------------------------------------------------------------------------
\* Quit.

Exit ==
  /\ proc' = "gone" /\ win' = "none" /\ page' = "none" /\ armed' = {} /\ sweeps' = {}
  /\ pipe' = <<>> /\ popups' = <<>> /\ open' = FALSE /\ later' = FALSE /\ panel' = NoPanel
  /\ UNCHANGED <<boot, onDisk, mode, hasKey, postponed, sched, launches, loads, userVars>>

\* The scheduler is disposed, the consoles close, every tunnel is torn down.
Drain ==
  /\ armed' = {}
  /\ UNCHANGED <<boot, onDisk, mode, hasKey, postponed, sched, sweeps, launches, proc, win, page, loads, pageVars,
                 userVars>>

\* Without the flag that tells the second pass from the first.
BeforeQuit_Mutant == quitting' = TRUE /\ draining' = TRUE /\ Drain

\* The first pass tears everything down and holds the quit; the second lets it be.
BeforeQuit ==
  /\ quitting' = TRUE /\ draining' = TRUE
  /\ IF draining THEN Exit ELSE Drain

\* The menu's and the tray's Quit, behind a confirmation, are for a process not
\* quitting yet; the system's own, and the window's close during the wait, are not.
Quit == proc = "up" /\ BeforeQuit

\* Before the application is ready there is no engine to tear down.
QuitEarly == proc = "off" /\ quitting' = TRUE /\ draining' = draining /\ Exit

\* The teardown has finished, or its time is up.
Drained == proc = "up" /\ draining /\ BeforeQuit

-----------------------------------------------------------------------------
ShellNext ==
  \/ \E s \in Settings, m \in {"app-key", "master-password"} : Boot(s, m)
  \/ \E s \in sweeps, t \in Tunnels : SweepStep(s, t)
  \/ \E t \in Governed : SchedulerActs(t)
  \/ PageLoads \/ Reload \/ Receive
  \/ \E right \in BOOLEAN : SubmitUnlock(right) \/ PanelUnlock(right) \/ ApplyMode(right)
  \/ Later \/ CloseSettings \/ RevealSecurity
  \/ \E m \in Modes : PickMode(m)
  \/ \E s \in Settings : EmitChange(s)
  \/ Show \/ OpenSettings \/ Hide
  \/ \E ids \in {Tunnels, Governed}, arm \in BOOLEAN : ByHand(ids, arm)
  \/ Quit \/ QuitEarly \/ Drained

\* The wait for the teardown has a timeout.
ShellSpec == ShellInit /\ [][ShellNext]_shellVars /\ WF_shellVars(Drained)

-----------------------------------------------------------------------------
\* Properties.

\* Startup arming runs once or never: it waits for the key exactly as long as
\* the store is locked, and leaves the scheduled tunnels to a scheduler that
\* the settings have on.
LaunchArmsOnce ==
  /\ launches <= 1
  /\ proc = "up" /\ boot.armOnLaunch => (launches = 0) = postponed.arm
  /\ postponed.arm \/ postponed.sched => Locked
  /\ \A s \in sweeps : s.kind = "launch" /\ s.obey => s.left \cap Governed = {}

Awaited(to) == \E i \in 1 .. Len(pipe) : pipe[i].to = to

\* A live page asks for the key of a locked store until the user puts it off;
\* the prompt is on screen or in the queue, and goes once the store is unlocked,
\* from wherever; the security panel shows the store as it is.
LockIsShown ==
  page = "live" =>
    /\ Locked /\ ~Awaited("prompt") => open \/ later
    /\ open => \E i \in 1 .. Len(popups) : popups[i] = "unlock"
    /\ pipe = <<>> => /\ open => Locked
                      /\ panel.read => panel.mode = mode /\ panel.locked = Locked

\* A locked store never keeps what launch put off for ever, and what the page
\* shows of it is true.
LaunchIsHandled == LaunchArmsOnce /\ LockIsShown

\* A quit that has begun ends, whatever is still being torn down.
QuitEnds == quitting ~> proc = "gone"
=============================================================================
