---------------------------- MODULE KickCoalesce ----------------------------
(***************************************************************************)
(* The coalescing of wake-ups on the client (kick and fireCoalesceWake of  *)
(* internal/carrier/client.go): a kick arms a timer, further kicks put it  *)
(* off, and when it fires all poll workers are woken.                      *)
(*                                                                         *)
(* A timer's function runs in a goroutine of its own and takes coalesceMu  *)
(* only then, so a kick may re-arm a timer that has fired already.  That   *)
(* timer fires a second time when nothing refers to it any more, and may   *)
(* then make the client forget a younger one.                              *)
(*                                                                         *)
(* Time is in units of which a step has a few; it passes when every timer  *)
(* that is due has fired and its function has returned.  What the wake-up  *)
(* does is in Carrier, which has the timers as one armed flag.             *)
(***************************************************************************)
EXTENDS Naturals

CONSTANTS
    Timers,   \* bound: timers that exist at the same time
    NoTimer,  \* coalesceTimer is nil
    Step,     \* coalesceStep
    Burst     \* coalesceMax, 25 times the step

ASSUME TimerAssumption == NoTimer \notin Timers
ASSUME StepAssumption == Step \in Nat \ {0}
ASSUME BurstAssumption == Burst \in Nat /\ Step <= Burst

VARIABLES
    coalesceTimer,     \* the timer kick knows of
    coalesceDeadline,  \* time left until coalesceDeadline
    armed,             \* timers that will fire
    left,              \* per timer, the time left
    func,              \* per timer, its function: "none", "lock" or "wake"
    waiting,           \* history: a kick has not been followed by a wake-up
    age                \* history: the time since the first such kick

kickVars == <<coalesceTimer, coalesceDeadline, armed, left, func, waiting, age>>

KickInit ==
    /\ coalesceTimer = NoTimer
    /\ coalesceDeadline = 0
    /\ armed = {}
    /\ left = [t \in Timers |-> 0]
    /\ func = [t \in Timers |-> "none"]
    /\ waiting = FALSE
    /\ age = 0

\* History: a kick begins to wait if none does.
KickWaits ==
    /\ waiting' = TRUE
    /\ age' = IF waiting THEN age ELSE 0

\* The first kick of a burst arms a new timer.
FirstKick(t) ==
    /\ coalesceTimer = NoTimer
    /\ t \notin armed /\ func[t] = "none"
    /\ coalesceTimer' = t
    /\ coalesceDeadline' = Burst
    /\ armed' = armed \cup {t}
    /\ left' = [left EXCEPT ![t] = Step]
    /\ KickWaits
    /\ UNCHANGED func

\* Mutant: every kick puts the wake-up off by a whole step.
NextWaitUncapped == Step

\* The time a further kick leaves to the timer, never past the deadline.
NextWait == IF Step > coalesceDeadline THEN coalesceDeadline ELSE Step

\* A further kick resets the timer, also one that has just fired; at the
\* deadline it leaves it alone.
FurtherKick ==
    /\ coalesceTimer # NoTimer
    /\ IF NextWait = 0 THEN UNCHANGED <<armed, left>>
       ELSE /\ armed' = armed \cup {coalesceTimer}
            /\ left' = [left EXCEPT ![coalesceTimer] = NextWait]
    /\ KickWaits
    /\ UNCHANGED <<coalesceTimer, coalesceDeadline, func>>

\* A timer is due and starts its function.
Fire(t) ==
    /\ t \in armed /\ left[t] = 0 /\ func[t] = "none"
    /\ armed' = armed \ {t}
    /\ func' = [func EXCEPT ![t] = "lock"]
    /\ UNCHANGED <<coalesceTimer, coalesceDeadline, left, waiting, age>>

\* fireCoalesceWake under coalesceMu, whichever timer it belongs to.
Clear(t) ==
    /\ func[t] = "lock"
    /\ coalesceTimer' = NoTimer
    /\ func' = [func EXCEPT ![t] = "wake"]
    /\ UNCHANGED <<coalesceDeadline, armed, left, waiting, age>>

\* fireCoalesceWake wakes the workers.
Wake(t) ==
    /\ func[t] = "wake"
    /\ func' = [func EXCEPT ![t] = "none"]
    /\ waiting' = FALSE
    /\ age' = 0
    /\ UNCHANGED <<coalesceTimer, coalesceDeadline, armed, left>>

\* A unit of time passes.
KickTick ==
    /\ \A t \in Timers : func[t] = "none"
    /\ armed # {} /\ \A t \in armed : left[t] > 0
    /\ left' = [t \in Timers |-> IF t \in armed THEN left[t] - 1 ELSE 0]
    /\ coalesceDeadline' = IF coalesceDeadline = 0 THEN 0 ELSE coalesceDeadline - 1
    /\ age' = IF waiting THEN age + 1 ELSE 0
    /\ UNCHANGED <<coalesceTimer, armed, func, waiting>>

KickNext ==
    \/ \E t \in Timers : FirstKick(t) \/ Fire(t) \/ Clear(t) \/ Wake(t)
    \/ FurtherKick
    \/ KickTick

KickSpec == KickInit /\ [][KickNext]_kickVars

-----------------------------------------------------------------------------
(* Properties. *)

\* No kick waits longer than coalesceMax for its wake-up, however many follow
\* it and although a kick may re-arm a timer that has fired, which later fires
\* for nobody and makes the client forget the timer of another burst.
KickWithinBurst == waiting => age <= Burst

=============================================================================
