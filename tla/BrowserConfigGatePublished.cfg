SPECIFICATION Spec
CONSTANTS
  Processes = {p1, p2}
  Environments <- MCEnvironments
  Documents <- MCDocuments
  Template <- MCTemplate
  Invocations <- MCInvocations
  Calls = 2
  Missing = Missing
  Torn = Torn
  Null = Null
  Nothing = Nothing
INVARIANT PublishedOnlyForExplicitConfig
CHECK_DEADLOCK FALSE
