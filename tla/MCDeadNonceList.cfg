CONSTANTS
  loop1 = loop1
  loop2 = loop2
  Dead = {loop1, loop2}
  MakeEntry <- TwoHashes
  Settings <- SmallAndBuilt
SPECIFICATION FairSpec
INVARIANTS SizeBounded RecentFound
PROPERTIES KeepsForLifetime
