---------------------------- MODULE MCScheduler ----------------------------
(* Scheduler on a small instance: a week of two days of three minutes, one *)
(* tunnel with a window that wraps past midnight and one with a window in  *)
(* the day that also needs the network.                                    *)
EXTENDS Scheduler, TLC

CONSTANTS t1, t2

Night   == [days |-> {1}, start |-> 2, end |-> 1]
Office  == [days |-> {0, 1}, start |-> 1, end |-> 2]

MCIds == {t1, t2}

MCSchedules ==
  (t1 :> {[time |-> Night, network |-> FALSE]})
    @@ (t2 :> {[time |-> Office, network |-> TRUE]})

(* nextTimeBoundaryMs() is the distance to the first change of             *)
(* inTimeWindow(), for every window and every moment of the scaled week.   *)
ASSUME BoundaryIsNextFlip ==
  \A w \in Windows, c \in Clock :
    LET flips == {k \in 1..Week :
                    InTimeWindow(w, (c + k) % Week) # InTimeWindow(w, (c + k - 1) % Week)}
    IN  NextTimeBoundary(w, c) = IF flips = {} THEN None ELSE Min(flips)
=============================================================================
