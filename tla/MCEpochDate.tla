----------------------------- MODULE MCEpochDate -----------------------------
(***************************************************************************)
(* Epochs at both ends of days around every boundary of every year that a  *)
(* long of 32 bits reaches, with the ends of the range and an overflow.    *)
(***************************************************************************)
EXTENDS EpochDate

YearStarts == {DayNumber(y, 1, 1) : y \in 1970 .. 2037}

\* 31 January to 1 March, 30 and 31 December
Days == {n + k : n \in YearStarts, k \in {0, 30, 31, 58, 59, 60, 364, 365}}

MCEpochs == {n * 86400 + s : n \in Days, s \in {0, 86399}}
              \cup {-MaxLong - 1, -1, MaxLong}
=============================================================================
