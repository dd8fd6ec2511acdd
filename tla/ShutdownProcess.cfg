SPECIFICATION ShutdownSpec
INVARIANTS
  ReturnMeansStopped
  EscalationIsComplete
