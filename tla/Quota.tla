------------------------------- MODULE Quota --------------------------------
(***************************************************************************)
(* The daily counter of one endpoint (internal/carrier/quota.go): the      *)
(* window that ends at the next midnight in Pacific time, the responses    *)
(* counted in it, and what the endpoint's script reports of itself.        *)
(*                                                                         *)
(* Time is in hours.  A day has Day hours, but for the day on which the    *)
(* clocks go forward, which has one less, and the day on which they go     *)
(* back, which has one more; the code adds Day hours to the midnight       *)
(* before.                                                                 *)
(***************************************************************************)
EXTENDS Naturals, Sequences, FiniteSets

CONSTANTS
    Day,       \* hours of an ordinary day: 24
    DayHours,  \* the hours of the days of a behaviour, one after the other
    MaxCount   \* bound: responses counted in a window

ASSUME DayAssumption == Day \in Nat \ {0, 1}
ASSUME HoursAssumption == /\ DayHours \in Seq({Day - 1, Day, Day + 1})
                          /\ Len(DayHours) > 0

VARIABLES
    date,         \* today: an index of DayHours
    hour,         \* hours since midnight
    midnight,     \* the instant of the last midnight
    dailyCount,   \* fields of relayEndpoint; 0 is the zero time
    dailyResetAt,
    scriptCount,
    errLogged,    \* scriptStatsErrLogged
    today         \* history: responses received since midnight

endpoint == <<dailyCount, dailyResetAt, scriptCount, errLogged>>
clock    == <<date, hour, midnight>>
quotaVars == <<clock, endpoint, today>>

now == midnight + hour

QuotaInit ==
    /\ date = 1 /\ hour \in 0 .. DayHours[1] - 1
    /\ midnight = 1
    /\ dailyCount = 0 /\ dailyResetAt = 0
    /\ scriptCount = 0 /\ errLogged = FALSE
    /\ today = 0

\* The midnight before now is never after it, so the code always adds a day.
nextQuotaReset == midnight + Day

\* Mutant: the window rolls over only behind its end.
ElapsedLate == dailyResetAt # 0 /\ now > dailyResetAt

\* touchDailyWindow finds that the window has elapsed.
Elapsed == dailyResetAt # 0 /\ now >= dailyResetAt

\* What touchDailyWindow leaves of the count, and the end of the window.
CountNow == IF Elapsed THEN 0 ELSE dailyCount
WindowNow == IF dailyResetAt = 0 \/ Elapsed THEN nextQuotaReset ELSE dailyResetAt

\* bumpDailyCount, for any HTTP response.
bumpDailyCount ==
    /\ today < MaxCount /\ CountNow < MaxCount
    /\ dailyCount' = CountNow + 1
    /\ dailyResetAt' = WindowNow
    /\ today' = today + 1

\* A poll is answered.
PollAnswered == bumpDailyCount /\ UNCHANGED <<clock, scriptCount, errLogged>>

\* fetchScriptStats gets an answer, and recordScriptStatsFromBody reads a count
\* from it; n is what the script has counted.
ScriptStats(n) ==
    /\ bumpDailyCount
    /\ scriptCount' = n
    /\ errLogged' = FALSE
    /\ UNCHANGED clock

\* An answer without a count: logged once.
ScriptStatsUnreadable ==
    /\ bumpDailyCount
    /\ errLogged' = TRUE
    /\ UNCHANGED <<clock, scriptCount>>

\* endpointStatsLine touches the window before it prints the count.
StatsLine ==
    /\ dailyCount' = CountNow
    /\ dailyResetAt' = WindowNow
    /\ UNCHANGED <<clock, scriptCount, errLogged, today>>

Tick ==
    /\ IF hour + 1 < DayHours[date]
       THEN hour' = hour + 1 /\ UNCHANGED <<date, midnight, today>>
       ELSE /\ date < Len(DayHours)
            /\ date' = date + 1 /\ hour' = 0 /\ midnight' = midnight + DayHours[date]
            /\ today' = 0
    /\ UNCHANGED endpoint

QuotaNext ==
    \/ PollAnswered
    \/ \E n \in 0..1 : ScriptStats(n)
    \/ ScriptStatsUnreadable
    \/ StatsLine
    \/ Tick

QuotaSpec == QuotaInit /\ [][QuotaNext]_quotaVars

-----------------------------------------------------------------------------
(* Properties. *)

\* The count the statistics report is the number of responses since midnight,
\* whenever the window was last touched and however long the endpoint was idle,
\* but for what a change of the clocks does: in the last hour of the long day
\* the next reset lies in the past and every response starts anew, and the
\* window of the short day runs an hour into the next one, which loses that
\* hour's responses.
CountsToday ==
    \/ CountNow = today
    \/ DayHours[date] > Day /\ hour >= Day
    \/ date > 1 /\ DayHours[date - 1] < Day

=============================================================================
