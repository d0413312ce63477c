CONSTANTS
  MaxHolders = 2
  MaxPosts = 1
SPECIFICATION PortSpec
INVARIANT NothingLost
