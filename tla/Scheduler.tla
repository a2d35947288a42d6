------------------------------ MODULE Scheduler ------------------------------
(***************************************************************************)
(* The auto-arm driver, src/app/scheduler.js: it evaluates each tunnel's   *)
(* schedule (a weekly time window, a network condition) and arms or        *)
(* disarms the tunnel when the answer changes.                             *)
(*                                                                         *)
(* A pass of #runOnce() is suspended while it reads the network and at     *)
(* every engine call it awaits; anything may happen in between.  An await  *)
(* of an already resolved promise lets nothing in, so a pass that reads no *)
(* network and finds no edge is one step.                                  *)
(*                                                                         *)
(* The clock is a tick of the local week, scaled by the constants; timers  *)
(* may be late.  An SSID allow-list and a reachability probe are one       *)
(* condition, `network`, as the reads report it: an unreadable SSID or a   *)
(* failed probe is FALSE.  An engine call takes effect when it is made.    *)
(* Left out: the status broadcasts, the override's display, the cadence of *)
(* the re-check, shifts of the local clock (DST).                          *)
(***************************************************************************)
EXTENDS Integers, FiniteSets, FiniteSetsExt

CONSTANTS
  Ids,            \* tunnels
  None,           \* null
  Schedules,      \* id -> the schedules its definition may carry
  DaysPerWeek, MinutesPerDay, TicksPerMinute   \* 7, 1440, 60: a tick is a second

ASSUME CalendarAssumption ==
  /\ DaysPerWeek \in Nat \ {0}
  /\ MinutesPerDay \in Nat \ {0}
  /\ TicksPerMinute \in Nat \ {0}

Days    == 0 .. DaysPerWeek - 1
Minutes == 0 .. MinutesPerDay - 1
Week    == DaysPerWeek * MinutesPerDay * TicksPerMinute
Clock   == 0 .. Week - 1

Windows == [days : SUBSET Days, start : Minutes, end : Minutes]

ASSUME ScheduleAssumption ==
  \A i \in Ids : Schedules[i] \subseteq [time : Windows \cup {None}, network : BOOLEAN]

(* null is neither a window nor a number of milliseconds.                  *)
ASSUME NoneAssumption == None \notin Windows \cup 0..Week

VARIABLES
  sch,       \* the Scheduler object and its pass in progress
  schedule,  \* the effective schedule of each saved, enabled definition
  armed,     \* the engine: what scheduler and hand made of it; else None
  clock,     \* local time of the week
  network,   \* the network condition of the rules holds
  quitting   \* before-quit has run

vars == <<sch, schedule, armed, clock, network, quitting>>

-----------------------------------------------------------------------------
(* The pure evaluation                                                     *)

Usable(w) == w.days # {} /\ w.start # w.end

DayOf(c)    == c \div (MinutesPerDay * TicksPerMinute)
MinuteOf(c) == (c \div TicksPerMinute) % MinutesPerDay

(* inTimeWindow(): [start, end) on the listed days, past midnight into the *)
(* next day when the window wraps.                                         *)
InTimeWindow(w, c) ==
  LET day == DayOf(c)
      now == MinuteOf(c)
      yesterday == (day + DaysPerWeek - 1) % DaysPerWeek
  IN  \/ w = None
      \/ /\ Usable(w)
         /\ IF w.start < w.end
            THEN day \in w.days /\ w.start <= now /\ now < w.end
            ELSE \/ day \in w.days /\ w.start <= now
                 \/ yesterday \in w.days /\ now < w.end

(* The edges of a window, as minutes of the week.                          *)
Marks(w) ==
  {d * MinutesPerDay + w.start : d \in w.days}
    \cup {(IF w.start < w.end THEN d ELSE (d + 1) % DaysPerWeek) * MinutesPerDay + w.end
            : d \in w.days}

(* Ticks from c to a mark; a mark that is now is a week away.              *)
TicksTo(mark, c) ==
  LET delta == (mark * TicksPerMinute - c) % Week
  IN  IF delta = 0 THEN Week ELSE delta

(* nextTimeBoundaryMs()                                                    *)
NextTimeBoundary(w, c) ==
  IF w = None THEN None
  ELSE IF ~Usable(w) THEN None
  ELSE Min({TicksTo(m, c) : m \in Marks(w)})

(* wanted(), given what the network reads said.                            *)
Wanted(rule, c, net) == InTimeWindow(rule.time, c) /\ (rule.network => net)

-----------------------------------------------------------------------------
Phases == {"idle", "network", "read", "act"}

Verdicts == [wanted : BOOLEAN, overridden : BOOLEAN]

TypeOK ==
  /\ DOMAIN sch = {"enabled", "state", "boundary", "recheck", "pending", "at",
                   "governed", "net", "actions"}
  /\ sch.enabled \in BOOLEAN
  /\ sch.state \in [Ids -> Verdicts \cup {None}]
  /\ sch.boundary \in 0..Week \cup {None}        \* ticks left on #boundaryTimer
  /\ sch.recheck \in BOOLEAN                     \* #recheckTimer is running
  /\ sch.pending \in BOOLEAN
  /\ sch.at \in Phases                           \* #reevaluating: not idle
  /\ \A i \in Ids : sch.governed[i] \in Schedules[i] \cup {None}
  /\ sch.net \in BOOLEAN
  /\ sch.actions \in SUBSET [id : Ids, want : BOOLEAN]
  /\ \A i \in Ids : schedule[i] \in Schedules[i] \cup {None}
  /\ armed \in [Ids -> BOOLEAN \cup {None}]
  /\ clock \in Clock
  /\ network \in BOOLEAN
  /\ quitting \in BOOLEAN

Governed(s)     == {i \in Ids : s.governed[i] # None}
NeedsNetwork(s) == \E i \in Governed(s) : s.governed[i].network
NoVerdict       == [i \in Ids |-> None]

(* Mutant: only the edges that arm are acted on.                           *)
Evaluated_Mutant(s) ==
  LET want(i) == Wanted(s.governed[i], clock, s.net)
      edge(i) == i \in Governed(s) /\
                   IF s.state[i] = None THEN TRUE ELSE s.state[i].wanted # want(i)
  IN  [s EXCEPT
        !.at = "act",
        !.state = [i \in Ids |-> IF edge(i)
                                 THEN [wanted |-> want(i), overridden |-> FALSE]
                                 ELSE s.state[i]],
        !.actions = {[id |-> i, want |-> TRUE] : i \in {j \in Ids : edge(j) /\ want(j)}}]

(* The middle of #runOnce(): an edge is a first assertion or a changed     *)
(* answer; it is recorded, its override cleared and its action queued.     *)
Evaluated(s) ==
  LET want(i) == Wanted(s.governed[i], clock, s.net)
      edge(i) == i \in Governed(s) /\
                   IF s.state[i] = None THEN TRUE ELSE s.state[i].wanted # want(i)
  IN  [s EXCEPT
        !.at = "act",
        !.state = [i \in Ids |-> IF edge(i)
                                 THEN [wanted |-> want(i), overridden |-> FALSE]
                                 ELSE s.state[i]],
        !.actions = {[id |-> i, want |-> want(i)] : i \in {j \in Ids : edge(j)}}]

(* Mutant: a pass does not start the periodic re-check.                    *)
TimedOnce_Mutant(s) ==
  LET next == {NextTimeBoundary(s.governed[i].time, clock) : i \in Governed(s)} \ {None}
  IN  [s EXCEPT !.boundary = IF next = {} \/ ~s.enabled THEN None ELSE Min(next)]

(* #scheduleBoundary() and #ensureRecheck(), the end of #runOnce().  The    *)
(* least delay is one second, so one tick: every distance is at least that. *)
Timed(s) ==
  LET next == {NextTimeBoundary(s.governed[i].time, clock) : i \in Governed(s)} \ {None}
  IN  IF s.enabled
      THEN [s EXCEPT !.boundary = IF next = {} THEN None ELSE Min(next),
                     !.recheck  = TRUE]
      ELSE [s EXCEPT !.boundary = None]

Ended(s) == [s EXCEPT !.at = "idle", !.governed = NoVerdict, !.net = FALSE]

(* The head of #runOnce(), up to its first real await.  (A value that is   *)
(* used often is bound with \E, which has TLC compute it once.)            *)
Begin(s, saved) ==
  \E b \in {[s EXCEPT
               !.pending  = FALSE,
               !.governed = saved,
               !.state    = [i \in Ids |-> IF saved[i] = None THEN None ELSE s.state[i]]]} :
    IF NeedsNetwork(b)
    THEN sch' = [b EXCEPT !.at = "network"]
    ELSE \E e \in {Evaluated(b)} :
           sch' = IF e.actions # {} THEN e ELSE Ended(Timed(e))

(* The loop of reevaluate() after a pass that ended in s.                  *)
Loop(s) ==
  \E e \in {s} : IF e.pending /\ e.enabled
                 THEN Begin(e, schedule)
                 ELSE sch' = Ended(e)

(* Mutant: a request in the middle of a pass is dropped.                   *)
Reevaluate_Mutant(s, saved) ==
  IF ~s.enabled \/ s.at # "idle" THEN sch' = s ELSE Begin(s, saved)

(* reevaluate(): one pass at a time; a request meanwhile is remembered.    *)
Reevaluate(s, saved) ==
  IF ~s.enabled THEN sch' = s
  ELSE IF s.at # "idle" THEN sch' = [s EXCEPT !.pending = TRUE]
  ELSE Begin(s, saved)

StopTimers(s) == [s EXCEPT !.boundary = None, !.recheck = FALSE]

-----------------------------------------------------------------------------
Init ==
  /\ sch = [enabled |-> FALSE, state |-> NoVerdict, boundary |-> None,
            recheck |-> FALSE, pending |-> FALSE, at |-> "idle",
            governed |-> NoVerdict, net |-> FALSE, actions |-> {}]
  /\ schedule \in {f \in [Ids -> UNION {Schedules[i] \cup {None} : i \in Ids}] :
                     \A i \in Ids : f[i] \in Schedules[i] \cup {None}}
  /\ armed = [i \in Ids |-> FALSE]
  /\ clock = 0
  /\ network \in BOOLEAN
  /\ quitting = FALSE

(* setEnabled(), after a settings write or at launch.                      *)
Enable ==
  /\ ~quitting /\ ~sch.enabled
  /\ Reevaluate([sch EXCEPT !.enabled = TRUE], schedule)
  /\ UNCHANGED <<schedule, armed, clock, network, quitting>>

Disable ==
  /\ ~quitting /\ sch.enabled
  /\ sch' = [StopTimers(sch) EXCEPT !.enabled = FALSE, !.state = NoVerdict]
  /\ UNCHANGED <<schedule, armed, clock, network, quitting>>

(* A write of a definition or of its group, then refresh().  What loses    *)
(* its schedule is armed by engine.reconcile(), left alone (a group's      *)
(* write, a disabled definition) or disposed (deleted).                    *)
SaveSchedule(i, rule) ==
  /\ ~quitting
  /\ rule # schedule[i]
  /\ schedule' = [schedule EXCEPT ![i] = rule]
  /\ Reevaluate(sch, schedule')
  /\ IF rule = None
     THEN armed' = [armed EXCEPT ![i] = None]
     ELSE UNCHANGED armed
  /\ UNCHANGED <<clock, network, quitting>>

(* The user arms or disarms a tunnel: noteManual(), then the engine.       *)
Toggle(i, on) ==
  /\ ~quitting
  /\ sch' = IF sch.enabled /\ sch.state[i] # None
            THEN [sch EXCEPT !.state[i].overridden = TRUE]
            ELSE sch
  /\ armed' = [armed EXCEPT ![i] = on]
  /\ UNCHANGED <<schedule, clock, network, quitting>>

(* powerMonitor "resume" and "unlock-screen".                              *)
Wake ==
  /\ ~quitting
  /\ Reevaluate(sch, schedule)
  /\ UNCHANGED <<schedule, armed, clock, network, quitting>>

BoundaryFires ==
  /\ sch.boundary = 0
  /\ Reevaluate([sch EXCEPT !.boundary = None], schedule)
  /\ UNCHANGED <<schedule, armed, clock, network, quitting>>

RecheckFires ==
  /\ sch.recheck
  /\ Reevaluate(sch, schedule)
  /\ UNCHANGED <<schedule, armed, clock, network, quitting>>

(* #readNetwork() has its answers ...                                      *)
ReadNetwork ==
  /\ sch.at = "network"
  /\ sch' = [sch EXCEPT !.at = "read", !.net = network]
  /\ UNCHANGED <<schedule, armed, clock, network, quitting>>

(* ... and later #runOnce() goes on with them, unless it was turned off.   *)
Evaluate ==
  /\ sch.at = "read"
  /\ \E e \in {Evaluated(sch)} :
       IF ~sch.enabled THEN Loop(sch)
       ELSE IF e.actions # {} THEN sch' = e
       ELSE Loop(Timed(e))
  /\ UNCHANGED <<schedule, armed, clock, network, quitting>>

(* One queued engine call; a call that fails is logged and forgotten.      *)
Act ==
  \E a \in sch.actions :
    /\ sch' = [sch EXCEPT !.actions = @ \ {a}]
    /\ \E done \in {a.want, None} : armed' = [armed EXCEPT ![a.id] = done]
    /\ UNCHANGED <<schedule, clock, network, quitting>>

(* The last engine call has answered.                                      *)
ActsDone ==
  /\ sch.at = "act"
  /\ sch.actions = {}
  /\ Loop(Timed(sch))
  /\ UNCHANGED <<schedule, armed, clock, network, quitting>>

(* before-quit: scheduler.dispose(), then engine.disarmAll().              *)
Quit ==
  /\ ~quitting
  /\ quitting' = TRUE
  /\ sch' = [StopTimers(sch) EXCEPT !.state = NoVerdict]
  /\ armed' = [i \in Ids |-> FALSE]
  /\ UNCHANGED <<schedule, clock, network>>

(* Time passes, on #boundaryTimer too.                                     *)
Tick ==
  /\ clock' = (clock + 1) % Week
  /\ sch' = IF sch.boundary \in {0, None} THEN sch ELSE [sch EXCEPT !.boundary = @ - 1]
  /\ UNCHANGED <<schedule, armed, network, quitting>>

NetworkChanges ==
  /\ network' = ~network
  /\ UNCHANGED <<sch, schedule, armed, clock, quitting>>

Next ==
  \/ Enable \/ Disable
  \/ \E i \in Ids : \E rule \in Schedules[i] \cup {None} : SaveSchedule(i, rule)
  \/ \E i \in Ids, on \in BOOLEAN : Toggle(i, on)
  \/ Wake \/ BoundaryFires \/ RecheckFires
  \/ ReadNetwork \/ Evaluate \/ Act \/ ActsDone
  \/ Quit \/ Tick \/ NetworkChanges

Spec == Init /\ [][Next]_vars

(* A pass goes on: network reads and engine calls answer.  The re-check    *)
(* fires.  The user, the clock, the network and the boundary timer, which  *)
(* may sleep with the machine, owe nothing.                                *)
Pass == ReadNetwork \/ Evaluate \/ Act \/ ActsDone

Fairness == WF_vars(Pass) /\ WF_vars(RecheckFires)

FairSpec == Spec /\ Fairness

-----------------------------------------------------------------------------
Overridden(i) == IF sch.state[i] = None THEN FALSE ELSE sch.state[i].overridden

Queued(i) == \E a \in sch.actions : a.id = i

(* Turned off, the scheduler keeps no timer and no verdict, also when it   *)
(* is turned off in the middle of a pass.  (scheduler.js:293-297, 386-389, *)
(* 500, 519)                                                               *)
DisabledIsQuiet ==
  ~sch.enabled => /\ sch.boundary = None
                  /\ ~sch.recheck
                  /\ sch.state = NoVerdict

(* Between passes the boundary timer never sleeps past an edge of a saved  *)
(* schedule, whatever was edited while the pass ran.  (scheduler.js:128,   *)
(* 355-370, 494-515)                                                       *)
TimerNotLate ==
  (sch.enabled /\ sch.at = "idle" /\ ~quitting) =>
     \A i \in Ids : schedule[i] # None =>
       \A k \in Clock :
         (IF sch.boundary = None THEN TRUE ELSE k < sch.boundary) =>
            (InTimeWindow(schedule[i].time, (clock + k) % Week)
               <=> InTimeWindow(schedule[i].time, clock))

(* The scheduler's timers belong to the switch and to the saved schedules. *)
TimersFollow == TypeOK /\ DisabledIsQuiet /\ TimerNotLate

(* A verdict that is recorded was acted on, or its action is still queued: *)
(* no edge is consumed without its effect, unless the user has taken over  *)
(* or the engine call failed.  (scheduler.js:404-423)                      *)
RecordedIsActed ==
  \A i \in Ids :
    (sch.state[i] # None /\ ~Overridden(i) /\ ~Queued(i))
      => armed[i] \in {sch.state[i].wanted, None}

(* The schedule of i stays `rule`, and what it depends on stays the same.  *)
Steady(i, rule, inside, up) ==
  /\ sch.enabled /\ ~quitting
  /\ schedule[i] = rule
  /\ InTimeWindow(rule.time, clock) = inside
  /\ rule.network => network = up

Recorded(i, want) == sch.state[i] # None /\ sch.state[i].wanted = want

(* Once the schedule of a tunnel and what it depends on stay the same, the *)
(* scheduler comes to its answer for good: no edit, time edge or network   *)
(* change is lost, however they overlap with the passes.                   *)
(* (scheduler.js:354-374, 517-527)                                         *)
FollowsSchedule ==
  \A i \in Ids : \A rule \in Schedules[i] : \A inside, up \in BOOLEAN :
    <>[]Steady(i, rule, inside, up)
      => <>[]Recorded(i, inside /\ (rule.network => up))
=============================================================================
