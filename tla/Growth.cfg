\* The months that the growth statistics list, asked for at the end of a month.
SPECIFICATION GSSpec
CONSTANTS
  Spans = {1, 12}
  Today <- MonthEnds
  NoDate = NoDate
INVARIANT AllMonths
CHECK_DEADLOCK FALSE
