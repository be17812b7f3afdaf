SPECIFICATION FairSpec
CONSTANTS
  Files = {1, 2}
  Selections <- Selected
  MaxQuota = 2
  MaxFaults = 4
INVARIANTS InterruptionsHeal PublishedWhole
PROPERTIES PostsAreCovered CoverageIsTrue LivesAsPromised Converges
