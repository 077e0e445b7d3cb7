SPECIFICATION Spec
CONSTANTS
  FUNDING = 2
  OPERATOR = 5
  POLLS = 2
  MAX_TXS = 5
  MAX_RUNS = 3
PROPERTY PollGivesUp
