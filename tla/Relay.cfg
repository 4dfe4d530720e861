\* Every document, respelt or damaged in a member, past two hosts.
CONSTANTS
  Documents <- MCDocuments
  Junk <- MCJunk
  NullDefaults = FALSE
  SeedAliases = FALSE
  Hops = 2
SPECIFICATION Spec
INVARIANTS
  MeaningSurvives
  RefusalNamesTheDamage
  DamageIsContained
  ForwardedIsReadable
  WrittenIsClaimed
PROPERTIES
  ForwardedIsSettled
CHECK_DEADLOCK FALSE
