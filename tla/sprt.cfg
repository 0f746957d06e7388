SPECIFICATION Spec
CONSTANTS
  m1 = m1
  m2 = m2
  low = low
  high = high
  one = one
  Metrics = {m1, m2}
  List <- TwoMetrics
  Rates = {low, one}
  Certain = {one}
  Gain <- RateGain
  Loss <- RateLoss
  Upper = 4
  Lower <- MinusTwo
  MaxTotal <- Requests
  MaxRestarts = 1
  MaxSteps = 1
INVARIANTS TypeOK CountedOnce RatioOfCounts VerdictJustified
PROPERTIES VerdictFinal IsVerdicts
