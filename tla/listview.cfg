\* Two payments, two changes and one fault, seen through each kind of query.
SPECIFICATION ListViewSpec
CONSTANTS
  None = None
  p1 = p1  p2 = p2  w1 = w1  w2 = w2
  Payment = {p1, p2}
  Writer = {w1}
  Query = {"all", "processing", "stats", p1}
  MaxChanges = 2
  MaxFaults = 1
INVARIANTS
  PageIsCoherent
PROPERTIES
  SettledIsShown
  StatsConverge
