CONSTANTS
  s1 = s1
  s2 = s2
  Slots <- MCSlots
  NoHolder = NoHolder
  Capacity = 3
  EpochMax = 2
  Positions <- MCPositions
SPECIFICATION FairSpec
INVARIANTS TypeOK ExclusiveOwner OpenLeaseIsCurrent CommittedPrefixOK
PROPERTIES TokensAreFresh ContractSpec StoreIsReleased
