CONSTANTS
  Accounts = {alice, bob}
  alice = alice
  bob = bob
  Chains = {sepolia, arbitrumsepolia}
  sepolia = sepolia
  arbitrumsepolia = arbitrumsepolia
  Inside <- MCInside
  Undefined = undefined
  RecipientForm = "checksummed"
  FilterSet <- MCFilters
  ListSets <- MCLists
SPECIFICATION FilterSpec
INVARIANTS
  BlockedIsIgnored
  AllowListIsExact
CHECK_DEADLOCK FALSE
