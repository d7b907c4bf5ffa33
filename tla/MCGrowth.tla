------------------------------ MODULE MCGrowth ------------------------------
(***************************************************************************)
(* GrowthSeries, for TLC, on the last days of the months around two        *)
(* Februaries, one of a leap year.                                         *)
(***************************************************************************)
EXTENDS GrowthSeries

MonthEnds ==
    {d \in [month : {24287, 24288, 24289, 24290, 24300, 24301, 24302}, day : 27..31] :
       d.day <= DaysIn(d.month)}
=============================================================================
