--------------------------- MODULE SchedulerProofs ---------------------------
(***************************************************************************)
(* Proofs about Scheduler.tla for any tunnels, schedules and calendar:     *)
(* switched off it is quiet, a recorded verdict is acted on, and the       *)
(* boundary timer never sleeps past an edge of a schedule.                 *)
(*                                                                         *)
(* The invariant says what a suspended pass owes: its actions exist only   *)
(* while it makes its engine calls, and each still wants what is recorded  *)
(* unless the user has taken over or the verdict was dropped meanwhile.    *)
(* A second one, TInv, says that between passes the timer is ahead of      *)
(* every edge of the saved schedules, and that a pass in progress is about *)
(* those schedules or will run again.  It rests on the calendar: a window  *)
(* changes its answer just at its marks, and nextTimeBoundaryMs() is the   *)
(* time to the first of them.                                              *)
(***************************************************************************)
EXTENDS Scheduler, WellFoundedInduction, TLAPS

(* The fields of the scheduler, without the values of its timers.          *)
Fields(s) ==
  /\ DOMAIN s = {"enabled", "state", "boundary", "recheck", "pending", "at",
                 "governed", "net", "actions"}
  /\ s.enabled \in BOOLEAN
  /\ s.state \in [Ids -> Verdicts \cup {None}]
  /\ s.actions \in SUBSET [id : Ids, want : BOOLEAN]

Quiet(s) == ~s.enabled => s.boundary = None /\ ~s.recheck /\ s.state = NoVerdict

Owed(s) ==
  /\ s.at # "act" => s.actions = {}
  /\ \A a \in s.actions :
       s.state[a.id] = None \/ s.state[a.id].overridden \/ s.state[a.id].wanted = a.want

(* Every verdict that nobody overrode is queued or was acted on, where     *)
(* `eng` is what the engine was last told.                                 *)
ActedIn(s, eng) ==
  \A i \in Ids :
    \/ s.state[i] = None
    \/ s.state[i].overridden
    \/ \E a \in s.actions : a.id = i
    \/ eng[i] \in {s.state[i].wanted, None}

Sound(s, eng) == Fields(s) /\ Quiet(s) /\ Owed(s) /\ ActedIn(s, eng)

IInv == Sound(sch, armed) /\ armed \in [Ids -> BOOLEAN \cup {None}]

-----------------------------------------------------------------------------
(* The parts of a pass.                                                    *)

LEMMA EvaluatedKeeps ==
  ASSUME NEW s, NEW eng, Fields(s), s.enabled, s.actions = {}, ActedIn(s, eng)
  PROVE  Sound(Evaluated(s), eng) /\ Evaluated(s).enabled
<1> DEFINE want(i) == Wanted(s.governed[i], clock, s.net)
           edge(i) == i \in Governed(s) /\
                        IF s.state[i] = None THEN TRUE ELSE s.state[i].wanted # want(i)
           st == [i \in Ids |-> IF edge(i) THEN [wanted |-> want(i), overridden |-> FALSE]
                                ELSE s.state[i]]
           acts == {[id |-> i, want |-> want(i)] : i \in {j \in Ids : edge(j)}}
           e == [s EXCEPT !.at = "act", !.state = st, !.actions = acts]
<1>1. Evaluated(s) = e
  BY DEF Evaluated
<1>2. \A i \in Ids : want(i) \in BOOLEAN
  BY DEF Wanted
<1> HIDE DEF want, edge
<1>3. st \in [Ids -> Verdicts \cup {None}] /\ acts \in SUBSET [id : Ids, want : BOOLEAN]
  BY <1>2 DEF Fields, Verdicts
<1>4. /\ e.state = st /\ e.actions = acts /\ e.enabled = s.enabled /\ e.at = "act"
      /\ DOMAIN e = DOMAIN s
  BY DEF Fields
<1> HIDE DEF e
<1>5. Fields(e) /\ Quiet(e)
  BY <1>3, <1>4 DEF Fields, Quiet
<1>6. Owed(e)
  BY <1>4 DEF Owed
<1>7. ActedIn(e, eng)
  <2> SUFFICES ASSUME NEW i \in Ids
               PROVE  \/ e.state[i] = None
                      \/ e.state[i].overridden
                      \/ \E a \in e.actions : a.id = i
                      \/ eng[i] \in {e.state[i].wanted, None}
    BY DEF ActedIn
  <2>1. CASE edge(i)
    <3> DEFINE act == [id |-> i, want |-> want(i)]
    <3>1. act \in acts /\ act.id = i
      BY <2>1
    <3>2. QED
      BY <1>4, <3>1
  <2>2. CASE ~edge(i)
    BY <1>4, <2>2 DEF ActedIn
  <2>3. QED
    BY <2>1, <2>2
<1>8. QED
  BY <1>1, <1>4, <1>5, <1>6, <1>7 DEF Sound

LEMMA TimedKeeps ==
  ASSUME NEW s, NEW eng, Sound(s, eng)
  PROVE  /\ Sound(Timed(s), eng)
         /\ Timed(s).actions = s.actions /\ Timed(s).enabled = s.enabled
         /\ Timed(s).at = s.at
<1> DEFINE next == {NextTimeBoundary(s.governed[i].time, clock) : i \in Governed(s)} \ {None}
           b == IF next = {} THEN None ELSE Min(next)
           on == [s EXCEPT !.boundary = b, !.recheck = TRUE]
           off == [s EXCEPT !.boundary = None]
<1>1. Timed(s) = IF s.enabled THEN on ELSE off
  BY DEF Timed
<1> HIDE DEF b
<1>2. QED
  BY <1>1 DEF Sound, Fields, Quiet, Owed, ActedIn

LEMMA EndedKeeps ==
  ASSUME NEW s, NEW eng, Sound(s, eng), s.actions = {}
  PROVE  Sound(Ended(s), eng)
BY DEF Ended, Sound, Fields, Quiet, Owed, ActedIn

LEMMA BeginKeeps ==
  ASSUME NEW s, NEW eng, NEW plan, Sound(s, eng), s.enabled, s.actions = {}, Begin(s, plan)
  PROVE  Sound(sch', eng)
<1> DEFINE b == [s EXCEPT !.pending  = FALSE,
                          !.governed = plan,
                          !.state    = [i \in Ids |-> IF plan[i] = None THEN None
                                                      ELSE s.state[i]]]
           e == Evaluated(b)
<1>1. sch' = IF NeedsNetwork(b) THEN [b EXCEPT !.at = "network"]
             ELSE IF e.actions # {} THEN e ELSE Ended(Timed(e))
  BY DEF Begin
<1>2. Sound(b, eng) /\ b.enabled /\ b.actions = {}
  BY DEF Sound, Fields, Quiet, Owed, ActedIn
<1> HIDE DEF b
<1>3. Sound([b EXCEPT !.at = "network"], eng)
  BY <1>2 DEF Sound, Fields, Quiet, Owed, ActedIn
<1>4. Sound(e, eng)
  BY <1>2, EvaluatedKeeps DEF Sound
<1> HIDE DEF e
<1>5. Sound(Timed(e), eng) /\ Timed(e).actions = e.actions
  BY <1>4, TimedKeeps
<1>6. e.actions = {} => Sound(Ended(Timed(e)), eng)
  BY <1>5, EndedKeeps
<1>7. QED
  BY <1>1, <1>3, <1>4, <1>6

LEMMA LoopKeeps ==
  ASSUME NEW s, NEW eng, Sound(s, eng), s.actions = {}, Loop(s)
  PROVE  Sound(sch', eng)
<1>1. CASE s.pending /\ s.enabled
  BY <1>1, BeginKeeps DEF Loop
<1>2. CASE ~(s.pending /\ s.enabled)
  BY <1>2, EndedKeeps DEF Loop
<1>3. QED
  BY <1>1, <1>2

LEMMA ReevaluateKeeps ==
  ASSUME NEW s, NEW eng, NEW plan, Sound(s, eng), Reevaluate(s, plan)
  PROVE  Sound(sch', eng)
<1>1. CASE ~s.enabled
  BY <1>1 DEF Reevaluate
<1>2. CASE s.enabled /\ s.at # "idle"
  BY <1>2 DEF Reevaluate, Sound, Fields, Quiet, Owed, ActedIn
<1>3. CASE s.enabled /\ s.at = "idle"
  BY <1>3, BeginKeeps DEF Reevaluate, Sound, Owed
<1>4. QED
  BY <1>1, <1>2, <1>3

-----------------------------------------------------------------------------
LEMMA InitSound == Init => IInv
BY DEF Init, IInv, Sound, Fields, Quiet, Owed, ActedIn, NoVerdict

(* Calls of settings, stores and user.                                     *)
LEMMA CallsKeep ==
  ASSUME IInv,
         \/ Enable \/ Disable \/ Wake \/ Quit
         \/ \E i \in Ids : \E rule \in Schedules[i] \cup {None} : SaveSchedule(i, rule)
         \/ \E i \in Ids, on \in BOOLEAN : Toggle(i, on)
  PROVE  IInv'
<1> USE DEF IInv
<1>1. CASE Enable
  <2> DEFINE s == [sch EXCEPT !.enabled = TRUE]
  <2>1. Sound(s, armed)
    BY DEF Sound, Fields, Quiet, Owed, ActedIn
  <2>2. Reevaluate(s, schedule)
    BY <1>1 DEF Enable
  <2> HIDE DEF s
  <2>3. QED
    BY <1>1, <2>1, <2>2, ReevaluateKeeps DEF Enable
<1>2. CASE Disable
  BY <1>2 DEF Disable, StopTimers, NoVerdict, Sound, Fields, Quiet, Owed, ActedIn
<1>3. CASE Wake
  BY <1>3, ReevaluateKeeps DEF Wake
<1>4. CASE Quit
  BY <1>4 DEF Quit, StopTimers, NoVerdict, Sound, Fields, Quiet, Owed, ActedIn
<1>5. ASSUME NEW i \in Ids, NEW rule \in Schedules[i] \cup {None}, SaveSchedule(i, rule)
      PROVE  IInv'
  <2>1. armed' = (IF rule = None THEN [armed EXCEPT ![i] = None] ELSE armed)
    BY <1>5 DEF SaveSchedule
  <2>2. Sound(sch, armed')
    BY <2>1 DEF Sound, ActedIn
  <2>3. Sound(sch', armed')
    BY <1>5, <2>2, ReevaluateKeeps DEF SaveSchedule
  <2>4. QED
    BY <2>1, <2>3
<1>6. ASSUME NEW i \in Ids, NEW on \in BOOLEAN, Toggle(i, on)
      PROVE  IInv'
  <2> DEFINE marked == [sch EXCEPT !.state[i].overridden = TRUE]
  <2>1. armed' = [armed EXCEPT ![i] = on]
    BY <1>6 DEF Toggle
  <2>2. CASE sch.enabled /\ sch.state[i] # None
    <3>1. sch' = marked
      BY <1>6, <2>2 DEF Toggle
    <3>2. sch.state[i] \in Verdicts
      BY <2>2 DEF Sound, Fields
    <3>3. Fields(marked)
      BY <3>2 DEF Sound, Fields, Verdicts
    <3>4. Quiet(marked) /\ Owed(marked)
      BY <2>2, <3>2 DEF Sound, Fields, Quiet, Owed, Verdicts
    <3>5. ActedIn(marked, armed')
      BY <2>1, <3>2 DEF Sound, Fields, ActedIn, Verdicts
    <3>6. QED
      BY <2>1, <3>1, <3>3, <3>4, <3>5 DEF Sound
  <2>3. CASE ~(sch.enabled /\ sch.state[i] # None)
    BY <1>6, <2>1, <2>3 DEF Toggle, Sound, Fields, Quiet, NoVerdict, ActedIn
  <2>4. QED
    BY <2>2, <2>3
<1>7. QED
  BY <1>1, <1>2, <1>3, <1>4, <1>5, <1>6

(* The timers and the environment.                                         *)
LEMMA EventsKeep ==
  ASSUME IInv, BoundaryFires \/ RecheckFires \/ Tick \/ NetworkChanges
  PROVE  IInv'
<1> USE DEF IInv
<1>1. CASE BoundaryFires
  <2> DEFINE s == [sch EXCEPT !.boundary = None]
  <2>1. Sound(s, armed)
    BY DEF Sound, Fields, Quiet, Owed, ActedIn
  <2>2. Reevaluate(s, schedule)
    BY <1>1 DEF BoundaryFires
  <2> HIDE DEF s
  <2>3. QED
    BY <1>1, <2>1, <2>2, ReevaluateKeeps DEF BoundaryFires
<1>2. CASE RecheckFires
  BY <1>2, ReevaluateKeeps DEF RecheckFires
<1>3. CASE Tick
  BY <1>3 DEF Tick, Sound, Fields, Quiet, Owed, ActedIn
<1>4. CASE NetworkChanges
  BY <1>4 DEF NetworkChanges
<1>5. QED
  BY <1>1, <1>2, <1>3, <1>4

(* A suspended pass goes on.                                               *)
LEMMA PassKeeps ==
  ASSUME IInv, Pass
  PROVE  IInv'
<1> USE DEF IInv
<1>1. CASE ReadNetwork
  BY <1>1 DEF ReadNetwork, Sound, Fields, Quiet, Owed, ActedIn
<1>2. CASE Evaluate
  <2> DEFINE e == Evaluated(sch)
  <2>1. sch.actions = {}
    BY <1>2 DEF Evaluate, Sound, Owed
  <2>2. CASE ~sch.enabled
    BY <1>2, <2>1, <2>2, LoopKeeps DEF Evaluate
  <2>3. CASE sch.enabled
    <3>1. Sound(e, armed)
      BY <2>1, <2>3, EvaluatedKeeps DEF Sound
    <3>2. IF e.actions # {} THEN sch' = e ELSE Loop(Timed(e))
      BY <1>2, <2>3 DEF Evaluate
    <3> HIDE DEF e
    <3>3. Sound(Timed(e), armed) /\ Timed(e).actions = e.actions
      BY <3>1, TimedKeeps
    <3>4. Sound(sch', armed)
      BY <3>1, <3>2, <3>3, LoopKeeps
    <3>5. QED
      BY <1>2, <3>4 DEF Evaluate
  <2>4. QED
    BY <2>2, <2>3 DEF Sound, Fields
<1>3. CASE Act
  <2> PICK a \in sch.actions :
         /\ sch' = [sch EXCEPT !.actions = @ \ {a}]
         /\ \E done \in {a.want, None} : armed' = [armed EXCEPT ![a.id] = done]
    BY <1>3 DEF Act
  <2>1. a.id \in Ids /\ a.want \in BOOLEAN
    BY DEF Sound, Fields
  <2>2. Fields(sch') /\ Quiet(sch') /\ Owed(sch')
    BY DEF Sound, Fields, Quiet, Owed
  <2>3. ActedIn(sch', armed')
    <3> SUFFICES ASSUME NEW i \in Ids, sch.state[i] # None, ~sch.state[i].overridden,
                        \A q \in sch.actions \ {a} : q.id # i
                 PROVE  armed'[i] \in {sch.state[i].wanted, None}
      BY DEF ActedIn, Sound, Fields
    <3>1. CASE i = a.id
      BY <2>1, <3>1 DEF Sound, Owed
    <3>2. CASE i # a.id
      BY <2>1, <3>2 DEF Sound, ActedIn
    <3>3. QED
      BY <3>1, <3>2
  <2>4. armed' \in [Ids -> BOOLEAN \cup {None}]
    BY <2>1
  <2>5. QED
    BY <2>2, <2>3, <2>4 DEF Sound
<1>4. CASE ActsDone
  <2>1. Sound(Timed(sch), armed) /\ Timed(sch).actions = {}
    BY <1>4, TimedKeeps DEF ActsDone
  <2>2. QED
    BY <1>4, <2>1, LoopKeeps DEF ActsDone
<1>5. QED
  BY <1>1, <1>2, <1>3, <1>4 DEF Pass

(* The inductive invariant holds throughout.                               *)
THEOREM Inductive == Spec => []IInv
<1>1. IInv /\ UNCHANGED vars => IInv'
  BY DEF IInv, Sound, vars
<1>2. IInv /\ [Next]_vars => IInv'
  BY <1>1, CallsKeep, EventsKeep, PassKeeps DEF Next, Pass
<1>3. QED
  BY <1>2, InitSound, PTL DEF Spec

(* Turned off, also in the middle of a pass, the scheduler keeps no timer  *)
(* and no verdict.                                                         *)
THEOREM OffIsQuiet == Spec => []DisabledIsQuiet
<1>1. IInv => DisabledIsQuiet
  BY DEF IInv, Sound, Quiet, DisabledIsQuiet
<1>2. QED
  BY <1>1, Inductive, PTL

(* No edge is consumed without its effect, however edits, toggles and      *)
(* switching off fall into a pass.                                         *)
THEOREM EdgesAreActedOn == Spec => []RecordedIsActed
<1>1. IInv => RecordedIsActed
  BY DEF IInv, Sound, Fields, ActedIn, RecordedIsActed, Overridden, Queued
<1>2. QED
  BY <1>1, Inductive, PTL

-----------------------------------------------------------------------------
(* The calendar.                                                            *)

(* Arithmetic.                                                             *)
LEMMA MulMono ==
  ASSUME NEW a \in Int, NEW b \in Int, NEW c \in Nat, a <= b
  PROVE  a * c <= b * c
OBVIOUS

LEMMA DivMod ==
  ASSUME NEW q \in Int, NEW r \in Int, NEW b \in Nat \ {0}, 0 <= r, r < b
  PROVE  (q * b + r) \div b = q /\ (q * b + r) % b = r
OBVIOUS

LEMMA Split ==
  ASSUME NEW x \in Nat, NEW b \in Nat \ {0}
  PROVE  x \div b \in Nat /\ x % b \in 0 .. b - 1 /\ x = (x \div b) * b + (x % b)
OBVIOUS

(* DayOf() and MinuteOf() read back what a tick of the week is made of ... *)
LEMMA Clocked ==
  ASSUME NEW d \in Days, NEW n \in Minutes, NEW t \in 0 .. TicksPerMinute - 1
  PROVE  LET c == (d * MinutesPerDay + n) * TicksPerMinute + t
         IN c \in Clock /\ DayOf(c) = d /\ MinuteOf(c) = n
<1> DEFINE m == d * MinutesPerDay + n
           c == m * TicksPerMinute + t
<1> USE CalendarAssumption
<1>1. m \in Nat /\ m <= DaysPerWeek * MinutesPerDay - 1
  <2>1. d + 1 <= DaysPerWeek /\ d + 1 \in Int /\ n <= MinutesPerDay - 1 /\ d \in Nat /\ n \in Nat
    BY DEF Days, Minutes
  <2>2. (d + 1) * MinutesPerDay <= DaysPerWeek * MinutesPerDay
    BY <2>1, MulMono
  <2>3. d * MinutesPerDay \in Nat /\ (d + 1) * MinutesPerDay = d * MinutesPerDay + MinutesPerDay
    BY <2>1
  <2>4. QED
    BY <2>1, <2>2, <2>3
<1>2. m \div MinutesPerDay = d /\ m % MinutesPerDay = n
  BY DivMod DEF Days, Minutes
<1>3. c \div TicksPerMinute = m
  <2> HIDE DEF m
  <2>1. t \in Int /\ 0 <= t /\ t < TicksPerMinute
    OBVIOUS
  <2>2. QED
    BY <1>1, <2>1, DivMod
<1>4. c \in Clock
  <2> DEFINE L == DaysPerWeek * MinutesPerDay
  <2>0. L \in Nat OBVIOUS
  <2> HIDE DEF m, L
  <2>1. (m + 1) * TicksPerMinute <= L * TicksPerMinute
    BY <1>1, <2>0, MulMono DEF L
  <2>2. m * TicksPerMinute \in Nat /\ (m + 1) * TicksPerMinute = m * TicksPerMinute + TicksPerMinute
    BY <1>1
  <2>3. L * TicksPerMinute = Week
    BY DEF L, Week
  <2>4. L * TicksPerMinute \in Nat
    BY <2>0
  <2>5. QED
    BY <1>1, <2>1, <2>2, <2>3, <2>4 DEF Clock
<1>5. c \div (MinutesPerDay * TicksPerMinute) = d
  <2> DEFINE P == MinutesPerDay * TicksPerMinute
             r == n * TicksPerMinute + t
  <2>1. P \in Nat \ {0}
    OBVIOUS
  <2>2. r \in Int /\ 0 <= r /\ r < P
    <3>1. n \in Nat /\ n + 1 <= MinutesPerDay BY DEF Minutes
    <3>2. (n + 1) * TicksPerMinute <= P BY <3>1, MulMono
    <3>3. (n + 1) * TicksPerMinute = n * TicksPerMinute + TicksPerMinute BY <3>1
    <3>4. n * TicksPerMinute \in Nat BY <3>1
    <3>5. QED BY <3>2, <3>3, <3>4, <2>1
  <2>3. c = d * P + r
    BY DEF Days, Minutes
  <2>4. d \in Int BY DEF Days
  <2> HIDE DEF P, r
  <2>5. (d * P + r) \div P = d
    BY <2>1, <2>2, <2>4, DivMod
  <2>6. QED
    BY <2>3, <2>5 DEF P
<1>6. QED
  BY <1>2, <1>3, <1>4, <1>5 DEF DayOf, MinuteOf

(* ... and every tick of the week is made of a day, a minute and a rest.   *)
LEMMA ClockReads ==
  ASSUME NEW c \in Clock
  PROVE  /\ DayOf(c) \in Days /\ MinuteOf(c) \in Minutes
         /\ \E t \in 0 .. TicksPerMinute - 1 :
              c = (DayOf(c) * MinutesPerDay + MinuteOf(c)) * TicksPerMinute + t
<1> DEFINE m == c \div TicksPerMinute
           t == c % TicksPerMinute
           d == m \div MinutesPerDay
           n == m % MinutesPerDay
<1> USE CalendarAssumption
<1>0. c \in Nat /\ c < Week BY DEF Clock, Week
<1>1. m \in Nat /\ t \in 0 .. TicksPerMinute - 1 /\ c = m * TicksPerMinute + t
  BY <1>0, Split
<1>2. d \in Nat /\ n \in Minutes /\ m = d * MinutesPerDay + n
  BY <1>1, Split DEF Minutes
<1>3. d \in Days
  <2> HIDE DEF m, t, d, n
  <2>1. CASE d >= DaysPerWeek
    <3>1. DaysPerWeek * MinutesPerDay <= d * MinutesPerDay
      BY <2>1, <1>2, MulMono
    <3> DEFINE L == DaysPerWeek * MinutesPerDay
    <3>2. L \in Nat /\ L <= m
      BY <3>1, <1>2 DEF Minutes
    <3> HIDE DEF L
    <3>3. L * TicksPerMinute <= m * TicksPerMinute
      BY <3>2, <1>1, MulMono
    <3>4. L * TicksPerMinute = Week
      BY DEF L, Week
    <3>5. m * TicksPerMinute \in Nat
      BY <1>1
    <3>6. L * TicksPerMinute \in Nat
      BY <3>2
    <3>7. QED
      BY <3>3, <3>4, <3>5, <3>6, <1>0, <1>1
  <2>2. QED
    BY <1>2, <2>1 DEF Days
<1>4. DayOf(c) = d /\ MinuteOf(c) = n
  <2>1. c = (d * MinutesPerDay + n) * TicksPerMinute + t
    BY <1>1, <1>2
  <2> HIDE DEF m, t, d, n
  <2>2. QED
    BY <2>1, <1>1, <1>2, <1>3, Clocked
<1>5. QED
  BY <1>1, <1>2, <1>3, <1>4

(* The next tick is in the same minute, or it is the first tick of the     *)
(* next minute, or of the next day.                                        *)
LEMMA Successor ==
  ASSUME NEW c \in Clock
  PROVE  LET u == (c + 1) % Week
         IN /\ u \in Clock
            /\ \/ DayOf(u) = DayOf(c) /\ MinuteOf(u) = MinuteOf(c)
               \/ /\ DayOf(u) = DayOf(c) /\ MinuteOf(u) = MinuteOf(c) + 1
                  /\ u = (DayOf(u) * MinutesPerDay + MinuteOf(u)) * TicksPerMinute
               \/ /\ DayOf(u) = (DayOf(c) + 1) % DaysPerWeek
                  /\ MinuteOf(u) = 0 /\ MinuteOf(c) = MinutesPerDay - 1
                  /\ u = (DayOf(u) * MinutesPerDay + MinuteOf(u)) * TicksPerMinute
<1> USE CalendarAssumption
<1> DEFINE u == (c + 1) % Week
           d == DayOf(c)
           n == MinuteOf(c)
<1>0. d \in Days /\ n \in Minutes
  BY ClockReads
<1>1. PICK t \in 0 .. TicksPerMinute - 1 : c = (d * MinutesPerDay + n) * TicksPerMinute + t
  BY ClockReads
<1>2. Week \in Nat \ {0} /\ c \in Nat /\ c < Week /\ u \in Clock
  BY DEF Week, Clock
<1> HIDE DEF u, d, n
<1>3. c + 1 \in Clock => u = c + 1
  BY <1>2 DEF u, Clock
<1>4. CASE t + 1 < TicksPerMinute
  <2>1. c + 1 = (d * MinutesPerDay + n) * TicksPerMinute + (t + 1)
    BY <1>0, <1>1 DEF Days, Minutes
  <2>2. t + 1 \in 0 .. TicksPerMinute - 1
    BY <1>4
  <2>3. c + 1 \in Clock /\ DayOf(c + 1) = d /\ MinuteOf(c + 1) = n
    BY <2>1, <2>2, <1>0, Clocked
  <2>4. QED
    BY <2>3, <1>2, <1>3 DEF u, d, n
<1>5. CASE t + 1 = TicksPerMinute /\ n + 1 < MinutesPerDay
  <2>1. c + 1 = (d * MinutesPerDay + (n + 1)) * TicksPerMinute + 0
    BY <1>0, <1>1, <1>5 DEF Days, Minutes
  <2>2. n + 1 \in Minutes /\ 0 \in 0 .. TicksPerMinute - 1
    BY <1>0, <1>5 DEF Minutes
  <2>3. c + 1 \in Clock /\ DayOf(c + 1) = d /\ MinuteOf(c + 1) = n + 1
    BY <2>1, <2>2, <1>0, Clocked
  <2>4. u = (d * MinutesPerDay + (n + 1)) * TicksPerMinute
    BY <2>1, <2>3, <1>3, <1>0 DEF Days, Minutes
  <2>5. QED
    BY <2>3, <2>4, <1>2, <1>3 DEF u, d, n
<1>6. CASE t + 1 = TicksPerMinute /\ n + 1 = MinutesPerDay
  <2> DEFINE e == (d + 1) % DaysPerWeek
  <2>1. c + 1 = (d + 1) * MinutesPerDay * TicksPerMinute
    BY <1>0, <1>1, <1>6 DEF Days, Minutes
  <2>2. e \in Days /\ 0 \in Minutes /\ 0 \in 0 .. TicksPerMinute - 1
    BY <1>0 DEF Minutes, Days
  <2>3. u = e * MinutesPerDay * TicksPerMinute
    <3>1. CASE d + 1 < DaysPerWeek
      <4>1. e = d + 1 /\ d + 1 \in Days
        BY <3>1, <1>0 DEF Days
      <4>2. c + 1 = ((d + 1) * MinutesPerDay + 0) * TicksPerMinute + 0
        BY <2>1, <1>0 DEF Days
      <4>3. c + 1 \in Clock
        BY <4>1, <4>2, <2>2, Clocked
      <4>4. QED
        BY <4>1, <4>3, <2>1, <1>3
    <3>2. CASE d + 1 = DaysPerWeek
      <4>1. c + 1 = Week
        BY <2>1, <3>2 DEF Week
      <4>2. u = 0 /\ e = 0
        BY <4>1, <3>2, <1>2 DEF u
      <4>3. QED
        BY <4>2
    <3>3. QED
      BY <3>1, <3>2, <1>0 DEF Days
  <2>4. u = (e * MinutesPerDay + 0) * TicksPerMinute + 0
    BY <2>2, <2>3 DEF Days
  <2>5. DayOf(u) = e /\ MinuteOf(u) = 0
    BY <2>4, <2>2, Clocked
  <2>6. u = (e * MinutesPerDay + 0) * TicksPerMinute
    BY <2>2, <2>3 DEF Days
  <2>7. QED
    BY <2>5, <2>6, <1>2, <1>6, <1>0 DEF u, d, n, Minutes
<1>7. QED
  BY <1>4, <1>5, <1>6, <1>0 DEF Minutes

(* From one tick to the next the answer changes only at a mark.             *)
LEMMA Flip ==
  ASSUME NEW w \in Windows, Usable(w), NEW c \in Clock,
         ~(InTimeWindow(w, (c + 1) % Week) <=> InTimeWindow(w, c)), None \notin Windows
  PROVE  \E m \in Marks(w) : m \in Nat /\ m * TicksPerMinute = (c + 1) % Week
<1> USE CalendarAssumption
<1> DEFINE u == (c + 1) % Week
           before(e) == (e + DaysPerWeek - 1) % DaysPerWeek
           in(d, n) == IF w.start < w.end
                       THEN d \in w.days /\ w.start <= n /\ n < w.end
                       ELSE \/ d \in w.days /\ w.start <= n
                            \/ before(d) \in w.days /\ n < w.end
           here == DayOf(u) * MinutesPerDay + MinuteOf(u)
<1>1. u \in Clock /\ DayOf(u) \in Days /\ MinuteOf(u) \in Minutes
      /\ DayOf(c) \in Days /\ MinuteOf(c) \in Minutes
  BY Successor, ClockReads
<1>2. w # None /\ w.days \subseteq Days /\ w.start \in Minutes /\ w.end \in Minutes
  BY DEF Windows
<1>3. (InTimeWindow(w, c) <=> in(DayOf(c), MinuteOf(c)))
      /\ (InTimeWindow(w, u) <=> in(DayOf(u), MinuteOf(u)))
  BY <1>2 DEF InTimeWindow
<1>4. ~(in(DayOf(u), MinuteOf(u)) <=> in(DayOf(c), MinuteOf(c)))
  BY <1>3
<1>5. \A d \in Days : before(d) \in Days /\ (before(d) + 1) % DaysPerWeek = d
                      /\ before((d + 1) % DaysPerWeek) = d
  BY DEF Days
<1>6. u = here * TicksPerMinute /\ here \in Marks(w)
  <2> HIDE DEF u
  <2>1. CASE DayOf(u) = DayOf(c) /\ MinuteOf(u) = MinuteOf(c)
    BY <2>1, <1>4
  <2>2. CASE DayOf(u) = DayOf(c) /\ MinuteOf(u) = MinuteOf(c) + 1 /\ u = here * TicksPerMinute
    <3>1. CASE w.start < w.end
      <4>1. DayOf(u) \in w.days /\ (MinuteOf(u) = w.start \/ MinuteOf(u) = w.end)
        BY <3>1, <2>2, <1>1, <1>2, <1>4 DEF Minutes
      <4>2. QED
        BY <4>1, <3>1, <2>2 DEF Marks
    <3>2. CASE ~(w.start < w.end)
      <4>1. \/ DayOf(u) \in w.days /\ MinuteOf(u) = w.start
            \/ before(DayOf(u)) \in w.days /\ MinuteOf(u) = w.end
        <5> HIDE DEF before
        <5> QED BY <3>2, <2>2, <1>1, <1>2, <1>4 DEF Minutes
      <4>2. QED
        BY <4>1, <3>2, <2>2, <1>1, <1>5 DEF Marks
    <3>3. QED
      BY <3>1, <3>2
  <2>3. CASE /\ DayOf(u) = (DayOf(c) + 1) % DaysPerWeek
             /\ MinuteOf(u) = 0 /\ MinuteOf(c) = MinutesPerDay - 1
             /\ u = here * TicksPerMinute
    <3>0. before(DayOf(u)) = DayOf(c)
      BY <2>3, <1>1, <1>5
    <3>1. CASE w.start < w.end
      <4>1. DayOf(u) \in w.days /\ w.start = 0
        BY <3>1, <2>3, <1>1, <1>2, <1>4 DEF Minutes
      <4>2. QED
        BY <4>1, <2>3 DEF Marks
    <3>2. CASE ~(w.start < w.end)
      <4>0. w.end < w.start
        BY <3>2, <1>2 DEF Minutes, Usable
      <4>1. \/ DayOf(u) \in w.days /\ w.start = 0
            \/ DayOf(c) \in w.days /\ w.end = 0
        <5> HIDE DEF before
        <5> QED BY <3>0, <3>2, <2>3, <1>1, <1>2, <1>4, <4>0 DEF Minutes
      <4>2. QED
        BY <4>1, <3>2, <2>3, <1>1 DEF Marks
    <3>3. QED
      BY <3>1, <3>2
  <2>4. QED
    BY <2>1, <2>2, <2>3, Successor DEF u
<1>7. here \in Nat
  BY <1>1 DEF Days, Minutes
<1>8. QED
  BY <1>6, <1>7

(* A set of naturals has a least element, and Min is it.                   *)
LEMMA Least ==
  ASSUME NEW S \in SUBSET Nat, S # {}
  PROVE  \E n \in S : \A x \in S : n <= x
<1> DEFINE R == OpToRel(<, Nat)
<1>1. IsWellFoundedOn(R, Nat)
  BY NatLessThanWellFounded
<1>2. \A x, y \in Nat : <<x, y>> \in R <=> x < y
  BY DEF OpToRel
<1> HIDE DEF R
<1>3. PICK n \in S : \A x \in S : ~(<<x, n>> \in R)
  BY <1>1, WFMin
<1>4. ASSUME NEW x \in S
      PROVE  n <= x
  <2>1. ~(x < n) /\ x \in Nat /\ n \in Nat
    BY <1>2, <1>3
  <2>2. QED
    BY <2>1
<1>5. QED
  BY <1>4

LEMMA MinIsLeast ==
  ASSUME NEW S \in SUBSET Nat, S # {}
  PROVE  Min(S) \in S /\ \A x \in S : Min(S) <= x
<1>1. \E n \in S : \A x \in S : n <= x
  BY Least
<1>2. QED
  BY <1>1 DEF Min

(* The distance to a mark is the first time at which it is there.          *)
LEMMA TicksToMark ==
  ASSUME NEW m \in Nat, NEW c \in Clock
  PROVE  /\ TicksTo(m, c) \in 1..Week
         /\ \A k \in 1..Week : (c + k) % Week = m * TicksPerMinute => TicksTo(m, c) <= k
<1> USE CalendarAssumption
<1> DEFINE x == m * TicksPerMinute
<1>1. Week \in Nat \ {0} /\ x \in Int
  BY DEF Week
<1> HIDE DEF x
<1>2. c \in Int /\ 0 <= c /\ c < Week
  BY <1>1 DEF Clock
<1>3. TicksTo(m, c) = IF (x - c) % Week = 0 THEN Week ELSE (x - c) % Week
  BY DEF TicksTo, x
<1>4. (x - c) % Week \in 0..Week - 1
  BY <1>1, <1>2
<1>5. ASSUME NEW k \in 1..Week, (c + k) % Week = x
      PROVE  TicksTo(m, c) <= k
  <2>1. CASE c + k < Week
    <3>1. x - c = k
      BY <2>1, <1>1, <1>2, <1>5
    <3>2. QED
      BY <3>1, <1>1, <1>2, <1>3, <1>4, <2>1
  <2>2. CASE c + k >= Week
    <3>1. (c + k) % Week = c + k - Week
      <4> DEFINE r == c + k - Week
      <4>1. c + k = 1 * Week + r /\ r \in Int /\ 0 <= r /\ r < Week
        BY <2>2, <1>1, <1>2
      <4> HIDE DEF r
      <4>2. (1 * Week + r) % Week = r
        BY <4>1, <1>1, DivMod
      <4>3. QED
        BY <4>1, <4>2 DEF r
    <3>2. x - c = k - Week
      BY <3>1, <1>1, <1>2, <1>5
    <3>3. CASE k = Week
      BY <3>3, <1>3, <1>4, <1>1
    <3>4. CASE k < Week
      <4>1. (x - c) % Week = k
        <5>1. x - c = (-1) * Week + k /\ k \in Int /\ 0 <= k /\ -1 \in Int
          BY <3>2, <1>1
        <5>2. ((-1) * Week + k) % Week = k
          BY <5>1, <3>4, <1>1, DivMod
        <5>3. QED
          BY <5>1, <5>2
      <4>2. QED
        BY <4>1, <1>3, <1>1
    <3>5. QED
      BY <3>3, <3>4, <1>1
  <2>3. QED
    BY <2>1, <2>2, <1>1, <1>2
<1>6. QED
  <2>1. TicksTo(m, c) \in 1..Week
    BY <1>1, <1>3, <1>4
  <2>2. QED
    BY <2>1, <1>5 DEF x

(* nextTimeBoundaryMs(): before it the answer of a window stays the same.  *)
LEMMA BoundaryIsFirst ==
  ASSUME NEW w \in Windows, Usable(w), NEW c \in Clock
  PROVE  /\ NextTimeBoundary(w, c) \in 1..Week
         /\ \A k \in Clock : k < NextTimeBoundary(w, c) =>
              (InTimeWindow(w, (c + k) % Week) <=> InTimeWindow(w, c))
<1> USE CalendarAssumption
<1> DEFINE S == {TicksTo(m, c) : m \in Marks(w)}
           in(k) == InTimeWindow(w, (c + k) % Week)
<1>0. Week \in Nat \ {0} /\ c \in Nat /\ c < Week
  BY DEF Week, Clock
<1>1. Marks(w) \subseteq Nat /\ Marks(w) # {}
  <2>1. w.days \subseteq Days /\ w.start \in Minutes /\ w.end \in Minutes
    BY DEF Windows
  <2>2. PICK d0 \in w.days : TRUE
    BY DEF Usable
  <2>3. d0 * MinutesPerDay + w.start \in Marks(w)
    BY <2>2 DEF Marks
  <2>4. ASSUME NEW d \in w.days
        PROVE  /\ d * MinutesPerDay + w.start \in Nat
               /\ (IF w.start < w.end THEN d ELSE (d + 1) % DaysPerWeek) * MinutesPerDay + w.end \in Nat
    <3> DEFINE e == IF w.start < w.end THEN d ELSE (d + 1) % DaysPerWeek
    <3>1. e \in Nat
      BY <2>1 DEF Days
    <3> HIDE DEF e
    <3>2. e * MinutesPerDay + w.end \in Nat
      BY <2>1, <3>1 DEF Minutes
    <3>3. d * MinutesPerDay + w.start \in Nat
      BY <2>1 DEF Days, Minutes
    <3>4. QED
      BY <3>2, <3>3 DEF e
  <2>5. QED
    BY <2>3, <2>4 DEF Marks
<1>2. S # {} /\ S \subseteq 1..Week /\ S \subseteq Nat
  BY <1>1, <1>0, TicksToMark
<1>3. NextTimeBoundary(w, c) = Min(S)
  BY NoneAssumption DEF NextTimeBoundary
<1>4. Min(S) \in S /\ \A x \in S : Min(S) <= x
  BY <1>2, MinIsLeast
<1>5. ASSUME NEW k \in Clock, k < Min(S), ~(in(k) <=> in(0))
      PROVE  FALSE
  <2> DEFINE F == {j \in 0..k : ~(in(j) <=> in(0))}
  <2>1. k \in Nat /\ k < Week
    BY <1>0 DEF Clock
  <2>2. F # {} /\ F \subseteq Nat
    BY <2>1, <1>5
  <2>3. PICK j \in F : \A x \in F : j <= x
    BY <2>2, Least
  <2> HIDE DEF in
  <2>4. j \in 1..k /\ ~(in(j) <=> in(0)) /\ (in(j - 1) <=> in(0))
    BY <2>1, <2>3
  <2> DEFINE p == (c + (j - 1)) % Week
  <2>5. p \in Clock /\ (p + 1) % Week = (c + j) % Week
    BY <1>0, <2>1, <2>4 DEF Clock
  <2>6. ~(InTimeWindow(w, (p + 1) % Week) <=> InTimeWindow(w, p))
    BY <2>4, <2>5 DEF in
  <2> HIDE DEF p
  <2>7. PICK m \in Marks(w) : m \in Nat /\ m * TicksPerMinute = (c + j) % Week
    BY <2>5, <2>6, Flip, NoneAssumption
  <2>8. TicksTo(m, c) <= j /\ TicksTo(m, c) \in S
    BY <2>1, <2>4, <2>7, <1>0, TicksToMark
  <2>9. Min(S) <= j /\ j <= k /\ Min(S) \in Nat
    <3>1. j \in Nat /\ j <= k
      BY <2>4, <2>1
    <3> HIDE DEF S
    <3>2. Min(S) <= TicksTo(m, c)
      BY <2>8, <1>4
    <3>3. Min(S) \in Nat /\ TicksTo(m, c) \in Nat
      BY <2>8, <1>2, <1>4
    <3>4. QED
      BY <3>1, <3>2, <3>3, <2>8
  <2>10. QED
    BY <2>9, <1>5, <2>1, <2>4
<1>6. in(0) <=> InTimeWindow(w, c)
  BY <1>0
<1>7. QED
  BY <1>2, <1>3, <1>4, <1>5, <1>6

(* The tick before the first one of a minute is in the minute before, or in *)
(* the last one of the day before.                                          *)
LEMMA MinuteBegins ==
  ASSUME MinutesPerDay > 1, NEW c \in Clock, NEW d \in Days, NEW n \in Minutes,
         (c + 1) % Week = (d * MinutesPerDay + n) * TicksPerMinute
  PROVE  LET u == (c + 1) % Week
         IN  /\ u \in Clock /\ DayOf(u) = d /\ MinuteOf(u) = n
             /\ \/ DayOf(c) = d /\ MinuteOf(c) = n - 1 /\ n > 0
                \/ d = (DayOf(c) + 1) % DaysPerWeek /\ n = 0 /\ MinuteOf(c) = MinutesPerDay - 1
<1> USE CalendarAssumption
<1> DEFINE u == (c + 1) % Week
           here == d * MinutesPerDay + n
<1>1. u = here * TicksPerMinute + 0 /\ 0 \in 0 .. TicksPerMinute - 1 /\ here \in Nat
  BY DEF Days, Minutes
<1>2. u \in Clock /\ DayOf(u) = d /\ MinuteOf(u) = n
  BY <1>1, Clocked
<1>3. DayOf(c) \in Days /\ MinuteOf(c) \in Minutes
  BY ClockReads
<1>4. CASE DayOf(u) = DayOf(c) /\ MinuteOf(u) = MinuteOf(c)
  <2>1. PICK t \in 0 .. TicksPerMinute - 1 : c = here * TicksPerMinute + t
    BY <1>2, <1>4, ClockReads
  <2>2. TicksPerMinute \in Clock
    <3>1. 0 \in Days /\ 1 \in Minutes
      BY DEF Days, Minutes
    <3>2. (0 * MinutesPerDay + 1) * TicksPerMinute + 0 \in Clock
      BY <1>1, <3>1, Clocked
    <3>3. QED
      BY <3>2
  <2>3. Week \in Nat \ {0} /\ c \in Nat /\ c < Week /\ TicksPerMinute < Week
    BY <2>2 DEF Week, Clock
  <2> DEFINE h == here * TicksPerMinute
  <2>4. h \in Nat /\ c = h + t /\ u = h /\ t \in Nat /\ t < TicksPerMinute
    BY <1>1, <2>1
  <2> HIDE DEF h, here
  <2>5. CASE c + 1 < Week
    <3>1. u = c + 1
      BY <2>3, <2>5
    <3>2. QED
      BY <2>4, <3>1
  <2>6. CASE c + 1 = Week
    <3>1. u = 0
      BY <2>3, <2>6
    <3>2. QED
      BY <2>3, <2>4, <2>6, <3>1
  <2>7. QED
    BY <2>3, <2>5, <2>6
<1>5. CASE DayOf(u) = DayOf(c) /\ MinuteOf(u) = MinuteOf(c) + 1
  BY <1>2, <1>3, <1>5 DEF Minutes
<1>6. CASE DayOf(u) = (DayOf(c) + 1) % DaysPerWeek /\ MinuteOf(u) = 0 /\ MinuteOf(c) = MinutesPerDay - 1
  BY <1>2, <1>6
<1>7. QED
  BY <1>4, <1>5, <1>6, Successor

(* At every mark the answer changes.                                        *)
LEMMA MarkFlips ==
  ASSUME NEW w \in Windows, Usable(w), NEW c \in Clock, NEW m \in Marks(w),
         (c + 1) % Week = m * TicksPerMinute
  PROVE  ~(InTimeWindow(w, (c + 1) % Week) <=> InTimeWindow(w, c))
<1> USE CalendarAssumption
<1> DEFINE u == (c + 1) % Week
           before(e) == (e + DaysPerWeek - 1) % DaysPerWeek
           in(e, n) == IF w.start < w.end
                       THEN e \in w.days /\ w.start <= n /\ n < w.end
                       ELSE \/ e \in w.days /\ w.start <= n
                            \/ before(e) \in w.days /\ n < w.end
<1>1. w # None /\ w.days \subseteq Days /\ w.start \in Minutes /\ w.end \in Minutes /\ w.start # w.end
  BY NoneAssumption DEF Windows, Usable
<1>2. MinutesPerDay > 1
  BY <1>1 DEF Minutes
<1>3. (InTimeWindow(w, c) <=> in(DayOf(c), MinuteOf(c)))
      /\ (InTimeWindow(w, u) <=> in(DayOf(u), MinuteOf(u)))
  BY <1>1 DEF InTimeWindow
<1>4. \A e \in Days : before(e) \in Days /\ (before(e) + 1) % DaysPerWeek = e
                      /\ (e + 1) % DaysPerWeek \in Days /\ before((e + 1) % DaysPerWeek) = e
  BY DEF Days
<1>5. DayOf(c) \in Days /\ MinuteOf(c) \in Minutes
  BY ClockReads
<1>6. ASSUME NEW e \in w.days, m = e * MinutesPerDay + w.start
      PROVE  ~(in(DayOf(u), MinuteOf(u)) <=> in(DayOf(c), MinuteOf(c)))
  <2> DEFINE n == w.start
  <2>1. e \in Days /\ n \in Minutes
    BY <1>1
  <2>2. /\ DayOf(u) = e /\ MinuteOf(u) = n
        /\ \/ DayOf(c) = e /\ MinuteOf(c) = n - 1 /\ n > 0
           \/ e = (DayOf(c) + 1) % DaysPerWeek /\ n = 0 /\ MinuteOf(c) = MinutesPerDay - 1
    BY <1>2, <1>6, <2>1, MinuteBegins
  <2> HIDE DEF before, u
  <2>3. in(DayOf(u), MinuteOf(u))
    BY <1>1, <2>2 DEF Minutes
  <2>4. ~in(DayOf(c), MinuteOf(c))
    BY <1>1, <1>5, <2>2 DEF Minutes
  <2>5. QED
    BY <2>3, <2>4
<1>7. ASSUME NEW e \in w.days, w.start < w.end, m = e * MinutesPerDay + w.end
      PROVE  ~(in(DayOf(u), MinuteOf(u)) <=> in(DayOf(c), MinuteOf(c)))
  <2> DEFINE n == w.end
  <2>1. e \in Days /\ n \in Minutes /\ n > 0
    BY <1>1, <1>7 DEF Minutes
  <2>2. DayOf(u) = e /\ MinuteOf(u) = n /\ DayOf(c) = e /\ MinuteOf(c) = n - 1
    BY <1>2, <1>7, <2>1, MinuteBegins
  <2> HIDE DEF before, u
  <2>3. ~in(DayOf(u), MinuteOf(u)) /\ in(DayOf(c), MinuteOf(c))
    BY <1>1, <1>7, <2>2 DEF Minutes
  <2>4. QED
    BY <2>3
<1>8. ASSUME NEW e \in w.days, ~(w.start < w.end), m = ((e + 1) % DaysPerWeek) * MinutesPerDay + w.end
      PROVE  ~(in(DayOf(u), MinuteOf(u)) <=> in(DayOf(c), MinuteOf(c)))
  <2> DEFINE f == (e + 1) % DaysPerWeek
             n == w.end
  <2>1. f \in Days /\ n \in Minutes /\ before(f) = e
    BY <1>1, <1>4
  <2> HIDE DEF f
  <2>2. m = f * MinutesPerDay + n
    BY <1>8 DEF f
  <2>3. /\ DayOf(u) = f /\ MinuteOf(u) = n
        /\ \/ DayOf(c) = f /\ MinuteOf(c) = n - 1 /\ n > 0
           \/ f = (DayOf(c) + 1) % DaysPerWeek /\ n = 0 /\ MinuteOf(c) = MinutesPerDay - 1
    BY <1>2, <2>1, <2>2, MinuteBegins
  <2>4. n < w.start
    BY <1>1, <1>8 DEF Minutes
  <2>5. n = 0 /\ f = (DayOf(c) + 1) % DaysPerWeek => DayOf(c) = e
    BY <1>4, <1>5, <2>1
  <2> HIDE DEF before, u
  <2>6. ~in(DayOf(u), MinuteOf(u))
    <3>1. w.end \in Nat /\ w.start \in Nat /\ ~(w.start <= w.end) /\ ~(w.end < w.end)
      BY <1>1, <2>4 DEF Minutes
    <3>2. MinuteOf(u) = w.end
      BY <2>3
    <3>3. QED
      BY <1>8, <3>1, <3>2
  <2>7. in(DayOf(c), MinuteOf(c))
    BY <1>1, <1>5, <1>8, <2>1, <2>3, <2>4, <2>5 DEF Minutes
  <2>8. QED
    BY <2>6, <2>7
<1>9. QED
  BY <1>3, <1>6, <1>7, <1>8 DEF Marks

(* A mark is there when its distance is up.                                 *)
LEMMA TicksArrive ==
  ASSUME NEW x \in Clock, NEW m \in Nat, x = m * TicksPerMinute, NEW c \in Clock
  PROVE  (c + TicksTo(m, c)) % Week = x
<1> USE CalendarAssumption
<1>1. Week \in Nat \ {0} /\ x \in Nat /\ x < Week /\ c \in Nat /\ c < Week
  BY DEF Week, Clock
<1>2. TicksTo(m, c) = IF (x - c) % Week = 0 THEN Week ELSE (x - c) % Week
  BY DEF TicksTo
<1>3. CASE x > c
  <2>1. (x - c) % Week = x - c
    BY <1>1, <1>3
  <2>2. TicksTo(m, c) = x - c
    BY <1>1, <1>2, <1>3, <2>1
  <2>3. QED
    BY <1>1, <2>2
<1>4. CASE x <= c
  <2> DEFINE r == x - c + Week
  <2>1. TicksTo(m, c) = r
    <3>1. CASE x = c
      <4>1. (x - c) % Week = 0
        BY <1>1, <3>1
      <4>2. QED
        BY <1>1, <1>2, <3>1, <4>1
    <3>2. CASE x < c
      <4>1. x - c = (-1) * Week + r /\ r \in Int /\ 0 <= r /\ r < Week /\ r # 0 /\ -1 \in Int
        BY <1>1, <3>2
      <4> HIDE DEF r
      <4>2. ((-1) * Week + r) % Week = r
        BY <1>1, <4>1, DivMod
      <4>3. QED
        BY <1>2, <4>1, <4>2
    <3>3. QED
      BY <1>1, <1>4, <3>1, <3>2
  <2>2. c + r = 1 * Week + x /\ x \in Int /\ 0 <= x
    BY <1>1
  <2>3. (1 * Week + x) % Week = x
    BY <1>1, <2>2, DivMod
  <2>4. QED
    BY <2>1, <2>2, <2>3
<1>5. QED
  BY <1>1, <1>3, <1>4

(* When the answer changes within a week from c.                            *)
Flips(w, c) ==
  {k \in 1..Week : InTimeWindow(w, (c + k) % Week) # InTimeWindow(w, (c + k - 1) % Week)}

LEMMA NextTick ==
  ASSUME NEW c \in Clock, NEW k \in 1..Week
  PROVE  LET p == (c + k - 1) % Week
         IN  p \in Clock /\ (p + 1) % Week = (c + k) % Week
<1> DEFINE j == c + k - 1
           r == j - Week
<1>1. Week \in Nat \ {0} /\ c \in Nat /\ c < Week /\ k \in Nat /\ 1 <= k /\ k <= Week
  BY CalendarAssumption DEF Week, Clock
<1>2. j \in Nat /\ c + k = j + 1 /\ j < Week + Week
  BY <1>1
<1>3. CASE j < Week
  <2>1. j % Week = j
    BY <1>1, <1>2, <1>3
  <2>2. QED
    BY <1>1, <1>2, <1>3, <2>1 DEF Clock
<1>4. CASE j >= Week
  <2>1. r \in Nat /\ r < Week /\ j = 1 * Week + r
    BY <1>1, <1>2, <1>4
  <2> HIDE DEF r, j
  <2>2. (1 * Week + r) % Week = r
    BY <1>1, <2>1, DivMod
  <2>3. (1 * Week + (r + 1)) % Week = (r + 1) % Week
    <3>1. CASE r + 1 < Week
      <4>1. (1 * Week + (r + 1)) % Week = r + 1
        <5>1. r + 1 \in Int /\ 0 <= r + 1 /\ 1 \in Int
          BY <2>1
        <5>2. QED
          BY <1>1, <3>1, <5>1, DivMod
      <4>2. (r + 1) % Week = r + 1
        BY <1>1, <2>1, <3>1
      <4>3. QED
        BY <4>1, <4>2
    <3>2. CASE r + 1 = Week
      <4>1. (2 * Week + 0) % Week = 0 /\ (1 * Week + 0) % Week = 0
        BY <1>1, DivMod
      <4>2. 1 * Week + (r + 1) = 2 * Week + 0 /\ r + 1 = 1 * Week + 0
        BY <1>1, <3>2
      <4>3. QED
        BY <4>1, <4>2
    <3>3. QED
      BY <1>1, <2>1, <3>1, <3>2
  <2>4. j + 1 = 1 * Week + (r + 1)
    BY <1>1, <2>1
  <2>5. j % Week = r /\ (r + 1) % Week = (j + 1) % Week
    BY <2>1, <2>2, <2>3, <2>4
  <2>6. r \in Clock
    BY <1>1, <2>1 DEF Clock
  <2>7. QED
    BY <1>2, <2>5, <2>6 DEF j
<1>5. QED
  BY <1>1, <1>2, <1>3, <1>4

(* The distance from c to a mark is a flip.                                 *)
LEMMA MarksAreFlips ==
  ASSUME NEW w \in Windows, Usable(w), NEW c \in Clock, NEW m \in Marks(w)
  PROVE  TicksTo(m, c) \in Flips(w, c)
<1> USE CalendarAssumption
<1> DEFINE k == TicksTo(m, c)
           p == (c + k - 1) % Week
           x == m * TicksPerMinute
<1>1. PICK d \in Days, n \in Minutes : m = d * MinutesPerDay + n
  <2>1. w.days \subseteq Days /\ w.start \in Minutes /\ w.end \in Minutes
    BY DEF Windows
  <2>2. \A e \in Days : (e + 1) % DaysPerWeek \in Days
    BY DEF Days
  <2>3. QED
    BY <2>1, <2>2 DEF Marks
<1>2. m \in Nat /\ x = m * TicksPerMinute + 0 /\ 0 \in 0 .. TicksPerMinute - 1
  BY <1>1 DEF Days, Minutes
<1>3. x \in Clock
  BY <1>1, <1>2, Clocked
<1>4. k \in 1..Week
  BY <1>2, TicksToMark
<1>5. (c + k) % Week = x
  BY <1>2, <1>3, TicksArrive
<1> HIDE DEF k
<1>6. Week \in Nat \ {0} /\ c \in Nat /\ k \in Nat \ {0} /\ k \in 1..Week
  BY <1>4 DEF Week, Clock
<1>7. p \in Clock /\ (p + 1) % Week = (c + k) % Week /\ p = (c + k - 1) % Week
  BY <1>6, NextTick
<1> HIDE DEF p
<1>8. (p + 1) % Week = m * TicksPerMinute
  BY <1>5, <1>7
<1>9. ~(InTimeWindow(w, (p + 1) % Week) <=> InTimeWindow(w, p))
  BY <1>7, <1>8, MarkFlips
<1>10. k \in Flips(w, c)
  BY <1>6, <1>7, <1>9 DEF Flips
<1>11. QED
  BY <1>10 DEF k

(* A flip is no sooner than the nearest mark.                               *)
LEMMA FlipsAreMarks ==
  ASSUME NEW w \in Windows, Usable(w), NEW c \in Clock, NEW k \in Flips(w, c)
  PROVE  \E m \in Marks(w) : m \in Nat /\ TicksTo(m, c) <= k
<1> USE CalendarAssumption
<1> DEFINE p == (c + k - 1) % Week
<1>1. k \in 1..Week /\ InTimeWindow(w, (c + k) % Week) # InTimeWindow(w, (c + k - 1) % Week)
  BY DEF Flips
<1>2. Week \in Nat \ {0} /\ c \in Nat /\ k \in Nat \ {0} /\ k \in 1..Week
  BY <1>1 DEF Week, Clock
<1>3. p \in Clock /\ (p + 1) % Week = (c + k) % Week /\ p = (c + k - 1) % Week
  BY <1>2, NextTick
<1> HIDE DEF p
<1>4. InTimeWindow(w, (p + 1) % Week) # InTimeWindow(w, p)
  BY <1>1, <1>3
<1>5. \A t \in Clock : InTimeWindow(w, t) \in BOOLEAN
  BY NoneAssumption DEF InTimeWindow
<1>6. (p + 1) % Week \in Clock
  BY <1>2, <1>3 DEF Clock
<1>7. ~(InTimeWindow(w, (p + 1) % Week) <=> InTimeWindow(w, p))
  BY <1>3, <1>4, <1>5, <1>6
<1>8. PICK m \in Marks(w) : m \in Nat /\ m * TicksPerMinute = (p + 1) % Week
  BY <1>3, <1>7, Flip, NoneAssumption
<1>9. (c + k) % Week = m * TicksPerMinute
  BY <1>3, <1>8
<1>10. TicksTo(m, c) <= k
  BY <1>2, <1>8, <1>9, TicksToMark
<1>11. QED
  BY <1>8, <1>10

(* nextTimeBoundaryMs() (scheduler.js) is, for every window, every          *)
(* moment and every length of week, day and minute, the distance to the     *)
(* next change of what inTimeWindow() answers, windows past midnight and    *)
(* past the end of the week included; and null exactly when it never        *)
(* changes.                                                                 *)
THEOREM BoundaryIsFlip ==
  \A w \in Windows, c \in Clock :
    NextTimeBoundary(w, c) = IF Flips(w, c) = {} THEN None ELSE Min(Flips(w, c))
<1> USE CalendarAssumption
<1> SUFFICES ASSUME NEW w \in Windows, NEW c \in Clock
             PROVE  NextTimeBoundary(w, c) = IF Flips(w, c) = {} THEN None ELSE Min(Flips(w, c))
  OBVIOUS
<1>0. w # None
  BY NoneAssumption
<1>1. CASE ~Usable(w)
  <2>1. \A t : InTimeWindow(w, t) = FALSE
    BY <1>0, <1>1 DEF InTimeWindow
  <2>2. Flips(w, c) = {}
    BY <2>1 DEF Flips
  <2>3. QED
    BY <1>0, <1>1, <2>2 DEF NextTimeBoundary
<1>2. CASE Usable(w)
  <2> DEFINE S == {TicksTo(m, c) : m \in Marks(w)}
             F == Flips(w, c)
  <2>1. S \subseteq F /\ F \subseteq Nat
    BY <1>2, MarksAreFlips DEF Flips
  <2>2. \A k \in F : \E s \in S : s <= k
    BY <1>2, FlipsAreMarks
  <2>3. NextTimeBoundary(w, c) = Min(S)
    BY <1>0, <1>2 DEF NextTimeBoundary
  <2>4. S # {}
    <3>1. PICK e \in w.days : TRUE
      BY <1>2 DEF Usable
    <3>2. e * MinutesPerDay + w.start \in Marks(w)
      BY <3>1 DEF Marks
    <3>3. QED
      BY <3>2
  <2> HIDE DEF S, F
  <2>5. S \in SUBSET Nat /\ F \in SUBSET Nat /\ S # {} /\ F # {}
    BY <2>1, <2>4
  <2>6. Min(S) \in S /\ \A x \in S : Min(S) <= x
    BY <2>5, MinIsLeast
  <2>7. Min(F) \in F /\ \A x \in F : Min(F) <= x
    BY <2>5, MinIsLeast
  <2>8. Min(F) <= Min(S)
    BY <2>1, <2>6, <2>7
  <2>9. Min(S) <= Min(F)
    <3>1. PICK s \in S : s <= Min(F)
      BY <2>2, <2>7
    <3>2. Min(S) <= s
      BY <2>6
    <3>3. Min(S) \in Nat /\ s \in Nat /\ Min(F) \in Nat
      BY <2>5, <2>6, <2>7
    <3>4. QED
      BY <3>1, <3>2, <3>3
  <2>10. Min(S) = Min(F)
    <3>1. Min(S) \in Nat /\ Min(F) \in Nat
      BY <2>5, <2>6, <2>7
    <3>2. QED
      BY <2>8, <2>9, <3>1
  <2>11. QED
    BY <2>3, <2>5, <2>10 DEF F
<1>3. QED
  BY <1>1, <1>2

-----------------------------------------------------------------------------
Typed(s) ==
  /\ s.boundary \in 0..Week \cup {None}
  /\ s.recheck \in BOOLEAN
  /\ s.pending \in BOOLEAN
  /\ s.at \in Phases
  /\ \A i \in Ids : s.governed[i] \in Schedules[i] \cup {None}
  /\ s.net \in BOOLEAN

IsPlan(plan) == \A i \in Ids : plan[i] \in Schedules[i] \cup {None}

(* For the ticks left on the boundary timer no answer of the plan changes. *)
Ahead(boundary, plan, c) ==
  \A i \in Ids : plan[i] # None =>
    \A k \in Clock :
      (IF boundary = None THEN TRUE ELSE k < boundary) =>
        (InTimeWindow(plan[i].time, (c + k) % Week) <=> InTimeWindow(plan[i].time, c))

Covers(s, plan) == \A i \in Ids : s.governed[i] = plan[i]

(* Between passes the timer is ahead of the plan, in a pass the pass is    *)
(* about it or will run again.                                             *)
Follows(s, plan) ==
  s.enabled => IF s.at = "idle" THEN Ahead(s.boundary, plan, clock)
               ELSE s.pending \/ Covers(s, plan)

(* The week is a circle.                                                   *)
LEMMA ClockOn ==
  ASSUME NEW c \in Clock
  PROVE  /\ Week \in Nat \ {0} /\ c \in Nat /\ c < Week
         /\ \A k \in Clock : (c + k) % Week \in Clock
BY CalendarAssumption DEF Week, Clock

(* The same for any rule, null and unusable windows included.              *)
LEMMA BoundaryType ==
  ASSUME NEW w \in Windows \cup {None}, NEW c \in Clock
  PROVE  /\ NextTimeBoundary(w, c) \in 1..Week \cup {None}
         /\ NextTimeBoundary(w, c) = None =>
              \A k \in Clock : InTimeWindow(w, (c + k) % Week) <=> InTimeWindow(w, c)
         /\ NextTimeBoundary(w, c) # None =>
              \A k \in Clock : k < NextTimeBoundary(w, c) =>
                (InTimeWindow(w, (c + k) % Week) <=> InTimeWindow(w, c))
<1>1. CASE w = None
  BY <1>1 DEF NextTimeBoundary, InTimeWindow
<1>2. CASE w # None /\ ~Usable(w)
  BY <1>2 DEF NextTimeBoundary, InTimeWindow
<1>3. CASE w # None /\ Usable(w)
  <2>1. w \in Windows
    BY <1>3
  <2>2. NextTimeBoundary(w, c) \in 1..Week
    BY <2>1, <1>3, BoundaryIsFirst
  <2>3. NextTimeBoundary(w, c) # None
    BY <2>2, NoneAssumption, ClockOn
  <2>4. QED
    BY <2>1, <2>2, <2>3, <1>3, BoundaryIsFirst
<1>4. QED
  BY <1>1, <1>2, <1>3

(* The timer that a pass sets is ahead of the schedules it was about.      *)
LEMMA TimedIsAhead ==
  ASSUME NEW s, NEW plan, IsPlan(plan), Fields(s), Typed(s), clock \in Clock, s.enabled
  PROVE  /\ Typed(Timed(s)) /\ Fields(Timed(s))
         /\ Timed(s).at = s.at /\ Timed(s).pending = s.pending /\ Timed(s).enabled
         /\ Covers(s, plan) => Ahead(Timed(s).boundary, plan, clock)
<1> DEFINE bd(i) == NextTimeBoundary(s.governed[i].time, clock)
           next == {bd(i) : i \in Governed(s)} \ {None}
           b == IF next = {} THEN None ELSE Min(next)
           t == [s EXCEPT !.boundary = b, !.recheck = TRUE]
<1>1. Timed(s) = t
  BY DEF Timed
<1>2. \A i \in Ids : s.governed[i] # None => s.governed[i].time \in Windows \cup {None}
  BY ScheduleAssumption DEF Typed
<1>3. \A i \in Governed(s) : bd(i) \in 1..Week \cup {None}
  BY <1>2, BoundaryType DEF Governed
<1> HIDE DEF bd
<1>4. next \subseteq 1..Week /\ next \in SUBSET Nat
  BY <1>3, ClockOn
<1>5. next # {} => Min(next) \in next /\ \A x \in next : Min(next) <= x
  BY <1>4, MinIsLeast
<1>6. b \in 0..Week \cup {None}
  BY <1>4, <1>5, ClockOn
<1>7. ASSUME Covers(s, plan)
      PROVE  Ahead(b, plan, clock)
  <2> SUFFICES ASSUME NEW i \in Ids, plan[i] # None, NEW k \in Clock,
                      IF b = None THEN TRUE ELSE k < b
               PROVE  InTimeWindow(plan[i].time, (clock + k) % Week)
                        <=> InTimeWindow(plan[i].time, clock)
    BY DEF Ahead
  <2>1. s.governed[i] = plan[i] /\ i \in Governed(s) /\ plan[i].time \in Windows \cup {None}
    BY <1>2, <1>7 DEF Covers, Governed
  <2>2. CASE bd(i) = None
    BY <2>1, <2>2, BoundaryType DEF bd
  <2>3. CASE bd(i) # None
    <3>1. bd(i) \in next
      BY <2>1, <2>3
    <3>2. b \in next /\ b <= bd(i)
      BY <3>1, <1>5
    <3>3. b # None
      BY <3>2
    <3>4. b \in Nat /\ bd(i) \in Nat /\ k \in Nat /\ k < b
      BY <3>1, <3>2, <3>3, <1>4, ClockOn DEF Clock
    <3>5. k < bd(i)
      BY <3>2, <3>4
    <3>6. QED
      BY <2>1, <2>3, <3>5, BoundaryType DEF bd
  <2>4. QED
    BY <2>2, <2>3
<1> HIDE DEF b
<1>8. /\ t.boundary = b /\ t.recheck = TRUE /\ t.at = s.at /\ t.pending = s.pending
      /\ t.enabled = s.enabled /\ t.governed = s.governed /\ t.net = s.net
      /\ t.state = s.state /\ t.actions = s.actions /\ DOMAIN t = DOMAIN s
  BY DEF Fields
<1> HIDE DEF t
<1>9. QED
  BY <1>1, <1>6, <1>7, <1>8 DEF Typed, Fields

(* A pass that ended leaves the timer it set.                              *)
LEMMA EndedFollows ==
  ASSUME NEW s, NEW plan, Fields(s), Typed(s),
         s.enabled => Ahead(s.boundary, plan, clock)
  PROVE  Typed(Ended(s)) /\ Follows(Ended(s), plan)
<1> DEFINE e == [s EXCEPT !.at = "idle", !.governed = NoVerdict, !.net = FALSE]
<1>1. Ended(s) = e
  BY DEF Ended
<1>2. /\ e.boundary = s.boundary /\ e.recheck = s.recheck /\ e.at = "idle"
      /\ e.pending = s.pending /\ e.enabled = s.enabled /\ e.governed = NoVerdict /\ e.net = FALSE
  BY DEF Fields
<1> HIDE DEF e
<1>3. QED
  BY <1>1, <1>2 DEF Typed, Follows, Phases, NoVerdict

(* An evaluation leaves timers, plan and requests alone.                   *)
LEMMA EvaluatedStays ==
  ASSUME NEW s, Fields(s), Typed(s)
  PROVE  /\ Typed(Evaluated(s)) /\ Evaluated(s).at = "act"
         /\ Evaluated(s).pending = s.pending /\ Evaluated(s).governed = s.governed
         /\ Evaluated(s).enabled = s.enabled
<1> DEFINE want(i) == Wanted(s.governed[i], clock, s.net)
           edge(i) == i \in Governed(s) /\
                        IF s.state[i] = None THEN TRUE ELSE s.state[i].wanted # want(i)
           st == [i \in Ids |-> IF edge(i) THEN [wanted |-> want(i), overridden |-> FALSE]
                                ELSE s.state[i]]
           acts == {[id |-> i, want |-> want(i)] : i \in {j \in Ids : edge(j)}}
           e == [s EXCEPT !.at = "act", !.state = st, !.actions = acts]
<1>1. Evaluated(s) = e
  BY DEF Evaluated
<1> HIDE DEF st, acts
<1>2. /\ e.boundary = s.boundary /\ e.recheck = s.recheck /\ e.at = "act"
      /\ e.pending = s.pending /\ e.enabled = s.enabled /\ e.governed = s.governed
      /\ e.net = s.net
  BY DEF Fields
<1> HIDE DEF e
<1>3. QED
  BY <1>1, <1>2 DEF Typed, Phases

(* A pass, a loop of passes and a request for one keep the timer ahead.    *)
LEMMA BeginFollows ==
  ASSUME NEW s, NEW eng, NEW plan, IsPlan(plan), Sound(s, eng), Typed(s), clock \in Clock,
         s.enabled, s.actions = {}, Begin(s, plan)
  PROVE  Typed(sch') /\ Follows(sch', plan)
<1> DEFINE b == [s EXCEPT !.pending  = FALSE,
                          !.governed = plan,
                          !.state    = [i \in Ids |-> IF plan[i] = None THEN None
                                                      ELSE s.state[i]]]
           e == Evaluated(b)
           n == [b EXCEPT !.at = "network"]
<1>1. sch' = IF NeedsNetwork(b) THEN n ELSE IF e.actions # {} THEN e ELSE Ended(Timed(e))
  BY DEF Begin
<1>2. Sound(b, eng) /\ b.enabled /\ b.actions = {}
  BY DEF Sound, Fields, Quiet, Owed, ActedIn
<1>3. Typed(b) /\ b.governed = plan
  BY DEF Sound, Fields, Typed, IsPlan
<1> HIDE DEF b
<1>4. /\ n.at = "network" /\ n.governed = plan /\ Typed(n) /\ n.enabled
  BY <1>2, <1>3 DEF Sound, Fields, Typed, Phases
<1> HIDE DEF n
<1>5. Sound(e, eng) /\ Typed(e) /\ e.at = "act" /\ e.governed = plan /\ e.enabled
  BY <1>2, <1>3, EvaluatedKeeps, EvaluatedStays DEF Sound
<1> HIDE DEF e
<1>6. Covers(e, plan) /\ Covers(n, plan)
  BY <1>4, <1>5 DEF Covers
<1>7. /\ Typed(Timed(e)) /\ Fields(Timed(e)) /\ Ahead(Timed(e).boundary, plan, clock)
  BY <1>5, <1>6, TimedIsAhead DEF Sound
<1>8. Typed(Ended(Timed(e))) /\ Follows(Ended(Timed(e)), plan)
  BY <1>7, EndedFollows
<1>9. Follows(n, plan) /\ Follows(e, plan)
  BY <1>4, <1>5, <1>6 DEF Follows
<1>10. QED
  BY <1>1, <1>4, <1>5, <1>8, <1>9

LEMMA LoopTyped ==
  ASSUME NEW s, NEW eng, IsPlan(schedule), Sound(s, eng), Typed(s), clock \in Clock,
         s.actions = {}, Loop(s)
  PROVE  Typed(sch')
<1>1. CASE s.pending /\ s.enabled
  BY <1>1, BeginFollows DEF Loop
<1>2. CASE ~(s.pending /\ s.enabled)
  <2> DEFINE e == [s EXCEPT !.at = "idle", !.governed = NoVerdict, !.net = FALSE]
  <2>1. sch' = e
    BY <1>2 DEF Loop, Ended
  <2>2. /\ e.boundary = s.boundary /\ e.recheck = s.recheck /\ e.at = "idle"
        /\ e.pending = s.pending /\ e.governed = NoVerdict /\ e.net = FALSE
    BY DEF Sound, Fields
  <2> HIDE DEF e
  <2>3. QED
    BY <2>1, <2>2 DEF Typed, Phases, NoVerdict
<1>3. QED
  BY <1>1, <1>2

LEMMA LoopFollows ==
  ASSUME NEW s, NEW eng, NEW plan, IsPlan(plan), Sound(s, eng), Typed(s), clock \in Clock,
         s.actions = {}, Loop(s), plan = schedule,
         s.enabled => s.pending \/ Ahead(s.boundary, plan, clock)
  PROVE  Typed(sch') /\ Follows(sch', plan)
<1>1. CASE s.pending /\ s.enabled
  BY <1>1, BeginFollows DEF Loop
<1>2. CASE ~(s.pending /\ s.enabled)
  <2>1. sch' = Ended(s)
    BY <1>2 DEF Loop
  <2>2. s.enabled => Ahead(s.boundary, plan, clock)
    BY <1>2
  <2>3. QED
    BY <2>1, <2>2, EndedFollows DEF Sound
<1>3. QED
  BY <1>1, <1>2

(* With the timer: the second invariant.                                   *)
TInv ==
  /\ IInv
  /\ Typed(sch) /\ IsPlan(schedule)
  /\ clock \in Clock /\ network \in BOOLEAN /\ quitting \in BOOLEAN
  /\ ~quitting => Follows(sch, schedule)

LEMMA ReevaluateFollows ==
  ASSUME NEW s, NEW eng, NEW plan, IsPlan(plan), Sound(s, eng), Typed(s), clock \in Clock,
         Reevaluate(s, plan)
  PROVE  Typed(sch') /\ Follows(sch', plan)
<1>1. CASE ~s.enabled
  BY <1>1 DEF Reevaluate, Follows
<1>2. CASE s.enabled /\ s.at # "idle"
  <2> DEFINE n == [s EXCEPT !.pending = TRUE]
  <2>1. sch' = n
    BY <1>2 DEF Reevaluate
  <2>2. /\ n.pending /\ n.at = s.at /\ n.boundary = s.boundary /\ n.recheck = s.recheck
        /\ n.governed = s.governed /\ n.net = s.net /\ n.pending \in BOOLEAN
    BY DEF Sound, Fields
  <2> HIDE DEF n
  <2>3. QED
    BY <1>2, <2>1, <2>2 DEF Typed, Follows
<1>3. CASE s.enabled /\ s.at = "idle"
  BY <1>3, BeginFollows DEF Reevaluate, Sound, Owed
<1>4. QED
  BY <1>1, <1>2, <1>3

LEMMA InitFollows == Init => TInv
<1> SUFFICES ASSUME Init PROVE TInv
  OBVIOUS
<1>1. IInv
  BY InitSound
<1>2. Typed(sch) /\ Follows(sch, schedule)
  BY DEF Init, Typed, Follows, NoVerdict, Phases
<1>3. IsPlan(schedule) /\ network \in BOOLEAN /\ quitting \in BOOLEAN
  BY DEF Init, IsPlan
<1>4. clock \in Clock
  BY CalendarAssumption DEF Init, Clock, Week
<1>5. QED
  BY <1>1, <1>2, <1>3, <1>4 DEF TInv

(* Calls of settings, stores and user.                                     *)
LEMMA CallsFollow ==
  ASSUME TInv,
         \/ Enable \/ Disable \/ Wake \/ Quit
         \/ \E i \in Ids : \E rule \in Schedules[i] \cup {None} : SaveSchedule(i, rule)
         \/ \E i \in Ids, on \in BOOLEAN : Toggle(i, on)
  PROVE  TInv'
<1> USE DEF TInv, IInv
<1>0. IInv'
  BY CallsKeep
<1>1. CASE Enable
  <2> DEFINE s == [sch EXCEPT !.enabled = TRUE]
  <2>1. Sound(s, armed)
    BY DEF Sound, Fields, Quiet, Owed, ActedIn
  <2>2. Typed(s)
    BY DEF Sound, Fields, Typed
  <2>3. Reevaluate(s, schedule)
    BY <1>1 DEF Enable
  <2> HIDE DEF s
  <2>4. Typed(sch') /\ Follows(sch', schedule)
    BY <2>1, <2>2, <2>3, ReevaluateFollows
  <2>5. QED
    BY <1>0, <1>1, <2>4 DEF Enable, Follows, IsPlan, Ahead, Covers
<1>2. CASE Disable
  <2>1. Typed(sch') /\ ~sch'.enabled
    BY <1>2 DEF Disable, StopTimers, Sound, Fields, Typed
  <2>2. QED
    BY <1>0, <1>2, <2>1 DEF Disable, Follows, IsPlan
<1>3. CASE Wake
  <2>1. Typed(sch') /\ Follows(sch', schedule)
    BY <1>3, ReevaluateFollows DEF Wake
  <2>2. QED
    BY <1>0, <1>3, <2>1 DEF Wake, Follows, IsPlan, Ahead, Covers
<1>4. CASE Quit
  <2>1. Typed(sch')
    BY <1>4 DEF Quit, StopTimers, Sound, Fields, Typed
  <2>2. QED
    BY <1>0, <1>4, <2>1 DEF Quit, IsPlan
<1>5. ASSUME NEW i \in Ids, NEW rule \in Schedules[i] \cup {None}, SaveSchedule(i, rule)
      PROVE  TInv'
  <2>1. schedule' = [schedule EXCEPT ![i] = rule]
    BY <1>5 DEF SaveSchedule
  <2>2. IsPlan(schedule')
    BY <2>1 DEF IsPlan
  <2>3. Typed(sch') /\ Follows(sch', schedule')
    BY <1>5, <2>2, ReevaluateFollows DEF SaveSchedule
  <2>4. clock' = clock /\ network' = network /\ quitting' = quitting
    BY <1>5 DEF SaveSchedule
  <2>5. QED
    BY <1>0, <2>2, <2>3, <2>4 DEF Follows, IsPlan, Ahead, Covers
<1>6. ASSUME NEW i \in Ids, NEW on \in BOOLEAN, Toggle(i, on)
      PROVE  TInv'
  <2>1. /\ sch'.boundary = sch.boundary /\ sch'.recheck = sch.recheck /\ sch'.at = sch.at
        /\ sch'.pending = sch.pending /\ sch'.enabled = sch.enabled
        /\ sch'.governed = sch.governed /\ sch'.net = sch.net
    BY <1>6 DEF Toggle, Sound, Fields
  <2>2. UNCHANGED <<schedule, clock, network, quitting>>
    BY <1>6 DEF Toggle
  <2>3. QED
    BY <1>0, <2>1, <2>2 DEF Typed, Follows, IsPlan, Ahead, Covers
<1>7. QED
  BY <1>1, <1>2, <1>3, <1>4, <1>5, <1>6

(* A tick brings the timer and the edges it is ahead of one nearer.        *)
LEMMA TickFollows ==
  ASSUME TInv, Tick
  PROVE  TInv'
<1> USE DEF TInv, IInv
<1>0. IInv'
  BY EventsKeep
<1> DEFINE s == [sch EXCEPT !.boundary = @ - 1]
           u == (clock + 1) % Week
<1>1. /\ clock' = u /\ UNCHANGED <<schedule, armed, network, quitting>>
      /\ sch' = IF sch.boundary \in {0, None} THEN sch ELSE s
  BY DEF Tick
<1>2. /\ s.recheck = sch.recheck /\ s.at = sch.at /\ s.pending = sch.pending
      /\ s.enabled = sch.enabled /\ s.governed = sch.governed /\ s.net = sch.net
      /\ s.boundary = sch.boundary - 1
  BY DEF Sound, Fields
<1> HIDE DEF s
<1>3. Week \in Nat \ {0} /\ clock \in Nat /\ clock < Week /\ u \in Clock
  BY ClockOn, Successor
<1>4. sch.boundary # None => sch.boundary \in Nat
  BY <1>3 DEF Typed
<1>5. None \notin 0..Week
  BY NoneAssumption
<1>6. Typed(sch')
  <2>1. CASE sch.boundary \in {0, None}
    BY <1>1, <2>1
  <2>2. CASE sch.boundary \notin {0, None}
    <3>1. sch.boundary - 1 \in 0..Week
      BY <2>2, <1>3, <1>4 DEF Typed
    <3>2. QED
      BY <1>1, <1>2, <2>2, <3>1 DEF Typed
  <2>3. QED
    BY <2>1, <2>2
<1>7. ASSUME Ahead(sch.boundary, schedule, clock)
      PROVE  Ahead(sch'.boundary, schedule, u)
  <2> SUFFICES ASSUME NEW i \in Ids, schedule[i] # None, NEW k \in Clock,
                      IF sch'.boundary = None THEN TRUE ELSE k < sch'.boundary
               PROVE  InTimeWindow(schedule[i].time, (u + k) % Week)
                        <=> InTimeWindow(schedule[i].time, u)
    BY DEF Ahead
  <2> DEFINE in(j) == InTimeWindow(schedule[i].time, (clock + j) % Week)
  <2>0. /\ k \in Nat /\ k < Week
        /\ (u + k) % Week = (clock + (k + 1)) % Week
    <3>1. k \in Nat /\ k < Week
      BY <1>3 DEF Clock
    <3> HIDE DEF u
    <3>2. u = IF clock + 1 = Week THEN 0 ELSE clock + 1
      BY <1>3 DEF u
    <3>3. CASE clock + 1 < Week
      BY <3>1, <3>2, <3>3, <1>3
    <3>4. CASE clock + 1 = Week
      <4>1. u + k = k /\ clock + (k + 1) = 1 * Week + k
        BY <3>1, <3>2, <3>4, <1>3
      <4>2. (1 * Week + k) % Week = k
        BY <3>1, <1>3, DivMod
      <4>3. k % Week = k
        BY <3>1, <1>3
      <4>4. QED
        BY <3>1, <4>1, <4>2, <4>3
    <3>5. QED
      BY <3>3, <3>4, <1>3
  <2>1. \A j \in Clock : (IF sch.boundary = None THEN TRUE ELSE j < sch.boundary) =>
           (in(j) <=> InTimeWindow(schedule[i].time, clock))
    BY <1>7 DEF Ahead
  <2> HIDE DEF in
  <2>2. in(k + 1) <=> InTimeWindow(schedule[i].time, clock)
    <3>1. CASE k + 1 < Week
      <4>1. k + 1 \in Clock
        BY <2>0, <3>1, <1>3 DEF Clock
      <4>2. IF sch.boundary = None THEN TRUE ELSE k + 1 < sch.boundary
        BY <2>0, <1>1, <1>2, <1>4, <1>5, <1>3
      <4>3. QED
        BY <2>1, <4>1, <4>2
    <3>2. CASE k + 1 = Week
      <4>1. (clock + (k + 1)) % Week = clock
        <5>1. clock + (k + 1) = 1 * Week + clock
          BY <3>2, <1>3
        <5>2. (1 * Week + clock) % Week = clock
          BY <1>3, DivMod, SMTT(30)
        <5>3. QED
          BY <5>1, <5>2
      <4>2. QED
        BY <4>1 DEF in
    <3>3. QED
      BY <2>0, <3>1, <3>2, <1>3
  <2>3. in(1) <=> InTimeWindow(schedule[i].time, clock)
    <3>1. CASE 1 < Week
      <4>1. 1 \in Clock
        BY <3>1, <1>3 DEF Clock
      <4>2. IF sch.boundary = None THEN TRUE ELSE 1 < sch.boundary
        BY <2>0, <1>1, <1>2, <1>4, <1>5, <1>3
      <4>3. QED
        BY <2>1, <4>1, <4>2
    <3>2. CASE Week = 1
      BY <3>2, <1>3 DEF in
    <3>3. QED
      BY <1>3, <3>1, <3>2
  <2>4. QED
    BY <2>0, <2>2, <2>3 DEF in
<1>8. ~quitting => Follows(sch, schedule)'
  <2>1. sch'.at = sch.at /\ sch'.pending = sch.pending /\ sch'.governed = sch.governed
        /\ sch'.enabled = sch.enabled
    BY <1>1, <1>2
  <2>2. QED
    BY <2>1, <1>7, <1>1 DEF Follows, Covers
<1>9. QED
  BY <1>0, <1>1, <1>3, <1>6, <1>8 DEF IsPlan

(* The timers and the network.                                             *)
LEMMA EventsFollow ==
  ASSUME TInv, BoundaryFires \/ RecheckFires \/ NetworkChanges
  PROVE  TInv'
<1> USE DEF TInv, IInv
<1>0. IInv'
  BY EventsKeep
<1>1. CASE BoundaryFires
  <2> DEFINE s == [sch EXCEPT !.boundary = None]
  <2>1. Sound(s, armed)
    BY DEF Sound, Fields, Quiet, Owed, ActedIn
  <2>2. Typed(s)
    BY DEF Sound, Fields, Typed
  <2>3. Reevaluate(s, schedule)
    BY <1>1 DEF BoundaryFires
  <2> HIDE DEF s
  <2>4. Typed(sch') /\ Follows(sch', schedule)
    BY <2>1, <2>2, <2>3, ReevaluateFollows
  <2>5. QED
    BY <1>0, <1>1, <2>4 DEF BoundaryFires, Follows, IsPlan, Ahead, Covers
<1>2. CASE RecheckFires
  <2>1. Typed(sch') /\ Follows(sch', schedule)
    BY <1>2, ReevaluateFollows DEF RecheckFires
  <2>2. QED
    BY <1>0, <1>2, <2>1 DEF RecheckFires, Follows, IsPlan, Ahead, Covers
<1>3. CASE NetworkChanges
  BY <1>0, <1>3 DEF NetworkChanges, Follows, IsPlan, Ahead, Covers, Typed
<1>4. QED
  BY <1>1, <1>2, <1>3

(* A suspended pass goes on.                                               *)
LEMMA PassFollows ==
  ASSUME TInv, Pass
  PROVE  TInv'
<1> USE DEF TInv, IInv
<1>0. IInv' /\ UNCHANGED <<schedule, clock, network, quitting>>
  BY PassKeeps DEF Pass, ReadNetwork, Evaluate, Act, ActsDone
<1> SUFFICES Typed(sch') /\ (~quitting => Follows(sch', schedule))
  BY <1>0 DEF Follows, IsPlan, Ahead, Covers
<1>1. CASE ReadNetwork
  <2> DEFINE s == [sch EXCEPT !.at = "read", !.net = network]
  <2>1. /\ s.boundary = sch.boundary /\ s.recheck = sch.recheck /\ s.at = "read"
        /\ s.pending = sch.pending /\ s.enabled = sch.enabled
        /\ s.governed = sch.governed /\ s.net = network
    BY DEF Sound, Fields
  <2>2. sch' = s /\ sch.at = "network"
    BY <1>1 DEF ReadNetwork
  <2> HIDE DEF s
  <2>3. Typed(s) /\ s.at # "idle" /\ sch.at # "idle"
    BY <2>1, <2>2 DEF Typed, Phases
  <2>4. QED
    BY <2>1, <2>2, <2>3 DEF Follows, Covers
<1>2. CASE Evaluate
  <2> DEFINE e == Evaluated(sch)
  <2>0. sch.at = "read"
    BY <1>2 DEF Evaluate
  <2>1. sch.actions = {}
    BY <2>0 DEF Sound, Owed
  <2>2. CASE ~sch.enabled
    <3>1. Loop(sch)
      BY <1>2, <2>2 DEF Evaluate
    <3>2. QED
      BY <3>1, <2>1, <2>2, LoopFollows
  <2>3. CASE sch.enabled
    <3>1. /\ Sound(e, armed) /\ Typed(e) /\ e.at = "act" /\ e.pending = sch.pending
          /\ e.governed = sch.governed /\ e.enabled = sch.enabled
      BY <2>1, <2>3, EvaluatedKeeps, EvaluatedStays DEF Sound
    <3>2. IF e.actions # {} THEN sch' = e ELSE Loop(Timed(e))
      BY <1>2, <2>3 DEF Evaluate
    <3> HIDE DEF e
    <3>3. Sound(Timed(e), armed) /\ Timed(e).actions = e.actions
      BY <3>1, TimedKeeps
    <3>4. /\ Typed(Timed(e)) /\ Timed(e).pending = sch.pending
          /\ Covers(sch, schedule) => Ahead(Timed(e).boundary, schedule, clock)
      BY <3>1, <2>3, TimedIsAhead DEF Sound, Covers
    <3>5. ~quitting => sch.pending \/ Covers(sch, schedule)
      BY <2>0, <2>3 DEF Follows
    <3>6. CASE e.actions # {}
      BY <3>1, <3>2, <3>5, <3>6 DEF Follows, Covers
    <3>7. CASE e.actions = {}
      <4>1. Loop(Timed(e))
        BY <3>2, <3>7
      <4>2. CASE ~quitting
        BY <4>1, <4>2, <3>3, <3>4, <3>5, <3>7, LoopFollows
      <4>3. CASE quitting
        BY <4>1, <4>3, <3>3, <3>4, <3>7, LoopTyped
      <4>4. QED
        BY <4>2, <4>3
    <3>8. QED
      BY <3>6, <3>7
  <2>4. QED
    BY <2>2, <2>3
<1>3. CASE Act
  <2> PICK a \in sch.actions : sch' = [sch EXCEPT !.actions = @ \ {a}]
    BY <1>3 DEF Act
  <2>1. /\ sch'.boundary = sch.boundary /\ sch'.recheck = sch.recheck /\ sch'.at = sch.at
        /\ sch'.pending = sch.pending /\ sch'.enabled = sch.enabled
        /\ sch'.governed = sch.governed /\ sch'.net = sch.net
    BY DEF Sound, Fields
  <2>2. QED
    BY <2>1 DEF Typed, Follows, Ahead, Covers
<1>4. CASE ActsDone
  <2>0. sch.at = "act" /\ sch.actions = {} /\ Loop(Timed(sch))
    BY <1>4 DEF ActsDone
  <2>1. Sound(Timed(sch), armed) /\ Timed(sch).actions = {}
    BY <2>0, TimedKeeps
  <2>2. CASE sch.enabled
    <3>1. /\ Typed(Timed(sch)) /\ Timed(sch).pending = sch.pending
          /\ Covers(sch, schedule) => Ahead(Timed(sch).boundary, schedule, clock)
      BY <2>2, TimedIsAhead DEF Sound
    <3>2. ~quitting => sch.pending \/ Covers(sch, schedule)
      BY <2>0, <2>2 DEF Follows
    <3>3. CASE ~quitting
      BY <2>0, <2>1, <3>1, <3>2, <3>3, LoopFollows
    <3>4. CASE quitting
      BY <2>0, <2>1, <3>1, <3>4, LoopTyped
    <3>5. QED
      BY <3>3, <3>4
  <2>3. CASE ~sch.enabled
    <3> DEFINE off == [sch EXCEPT !.boundary = None]
    <3>1. Timed(sch) = off
      BY <2>3 DEF Timed
    <3>2. Typed(off) /\ ~off.enabled
      BY <2>3 DEF Sound, Fields, Typed
    <3> HIDE DEF off
    <3>3. QED
      BY <2>0, <2>1, <3>1, <3>2, LoopFollows
  <2>4. QED
    BY <2>2, <2>3
<1>5. QED
  BY <1>1, <1>2, <1>3, <1>4 DEF Pass

(* The second invariant holds throughout.                                  *)
THEOREM TimersFollowInductive == Spec => []TInv
<1>1. TInv /\ UNCHANGED vars => TInv'
  BY DEF TInv, IInv, Sound, vars, Follows, Ahead, Covers, IsPlan, Typed
<1>2. TInv /\ [Next]_vars => TInv'
  BY <1>1, CallsFollow, EventsFollow, TickFollows, PassFollows DEF Next, Pass
<1>3. QED
  BY <1>2, InitFollows, PTL DEF Spec

(* Between passes the boundary timer never sleeps past an edge of a saved  *)
(* schedule, for every calendar, whatever is edited while a pass runs; and *)
(* turned off the scheduler has no timer.                                  *)
THEOREM TimersAreRight == Spec => []TimersFollow
<1>1. TInv => TimersFollow
  <2> SUFFICES ASSUME TInv PROVE TimersFollow
    OBVIOUS
  <2>1. TypeOK
    BY DEF TInv, IInv, Sound, Fields, Typed, IsPlan, TypeOK
  <2>2. DisabledIsQuiet
    BY DEF TInv, IInv, Sound, Quiet, DisabledIsQuiet
  <2>3. TimerNotLate
    BY DEF TInv, Follows, Ahead, TimerNotLate
  <2>4. QED
    BY <2>1, <2>2, <2>3 DEF TimersFollow
<1>2. QED
  BY <1>1, TimersFollowInductive, PTL
=============================================================================
