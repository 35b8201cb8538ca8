SPECIFICATION Spec
CONSTANTS
  MaxAnswers = 2
  MaxFaults = 2
  Limit = 2
  Others <- OtherCalls
  Shapes <- Answers
INVARIANTS TypeOK WholeOrNone TextArrived RoundTrip SearchTold
CHECK_DEADLOCK FALSE
