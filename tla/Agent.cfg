\* Two attempts of at most two answers, every backend, two faults.  The system
\* stops when the task is over and the runtime has ended.
SPECIFICATION FairSpec
CONSTANTS
  Attempt <- MCAttempt
  Backends = {"none", "local", "container"}
  Limit = TRUE
  Answers <- MCAnswers
  MaxSteps = 2
  MaxFaults = 2
INVARIANTS
  AnswersComplete
  EmitsOneAnswer
PROPERTIES
  Settles
  ContainersGo
CHECK_DEADLOCK FALSE
