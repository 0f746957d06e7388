SPECIFICATION GSpec
CONSTANTS
  m1 = m1
  m2 = m2
  low = low
  high = high
  one = one
  Metrics = {m1}
  List <- OneMetric
  Rates = {low, high}
  Certain = {}
  Gain <- RateGain
  Loss <- RateLoss
  Upper = 4
  Lower <- MinusTwo
  MaxTotal <- ManyRequests
  MaxRestarts = 0
  MaxSteps = 1
INVARIANTS ObservedInStep
