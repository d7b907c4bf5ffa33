---------------------------- MODULE GrowthSeries ----------------------------
(***************************************************************************)
(* The months for which getGrowthStats of src/statistics lists its counts: *)
(* a loop that takes a Date on month by month, from so many months ago to  *)
(* now.  A date is the number of its month, 12 * year + month - 1, and its *)
(* day; the server's clock is on UTC, in which months are named.           *)
(***************************************************************************)
EXTENDS Integers, Sequences

CONSTANTS
    Today,    \* the dates the list is asked for
    Spans,    \* the numbers of months it is asked for: 12 by default
    NoDate

VARIABLES
    endDate,
    currentDate,
    growth      \* the months listed so far
gsVars == <<endDate, currentDate, growth>>

\* Of the Gregorian calendar, but for the years that 100 divides.
DaysIn(m) == CASE m % 12 = 1 -> IF (m \div 12) % 4 = 0 THEN 29 ELSE 28
               [] m % 12 \in {3, 5, 8, 10} -> 30
               [] OTHER -> 31

\* Date.setMonth keeps the day, and runs over into the next month.
SetMonth(date, m) ==
    IF date.day <= DaysIn(m) THEN [month |-> m, day |-> date.day]
    ELSE [month |-> m + 1, day |-> date.day - DaysIn(m)]
NotAfter(d, e) == d.month < e.month \/ (d.month = e.month /\ d.day <= e.day)

ASSUME DatesAssumption ==
    /\ \A d \in Today : /\ d \in [month : Nat, day : Nat]
                         /\ d.day \in 1..DaysIn(d.month)
    /\ Spans \subseteq Nat /\ NoDate \notin [month : Int, day : Int]

GSInit == endDate \in Today /\ currentDate = NoDate /\ growth = <<>>

GetGrowthStats(months) ==
    /\ currentDate = NoDate
    /\ currentDate' = SetMonth(endDate, endDate.month - months)
    /\ growth' = <<>> /\ UNCHANGED endDate

\* The period is pushed, then the date is taken on.
PushMonth ==
    /\ currentDate # NoDate /\ NotAfter(currentDate, endDate)
    /\ growth' = Append(growth, currentDate.month)
    /\ currentDate' = SetMonth(currentDate, currentDate.month + 1)
    /\ UNCHANGED endDate

Through == currentDate # NoDate /\ ~NotAfter(currentDate, endDate)
AnswerGrowth ==
    /\ Through
    /\ currentDate' = NoDate /\ UNCHANGED <<endDate, growth>>

GSNext == (\E months \in Spans : GetGrowthStats(months)) \/ PushMonth \/ AnswerGrowth
GSSpec == GSInit /\ [][GSNext]_gsVars

-----------------------------------------------------------------------------

ListedMonths == {growth[i] : i \in DOMAIN growth}

\* Types; the months come in order, each once, up to this one, and only a day
\* that some month has not leaves one out.
GSTypeOK ==
    /\ endDate.day \in 1..DaysIn(endDate.month)
    /\ \A i, j \in DOMAIN growth : i < j => growth[i] < growth[j]
    /\ Through => endDate.month \in ListedMonths
    /\ Through /\ endDate.day <= 28 =>
         ListedMonths = growth[1]..endDate.month

\* "Generate result array with all months in the range": every month from the
\* first to this one is in the list (statistics.service.ts:341).
AllMonths == Through => \A m \in growth[1]..endDate.month : m \in ListedMonths
=============================================================================
