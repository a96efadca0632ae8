SPECIFICATION FairSpec
CONSTANTS
  s1 = s1  s2 = s2  s3 = s3  a1 = a1  a2 = a2  b1 = b1  b2 = b2  c1 = c1
  None = None
  Shards = {s1, s2, s3}
  AddressesOf <- Hosts
  Static <- StaticS1
  Order <- InOrder
  Wall <- FewReadings
  MaxChanges = 3
  MaxFailures = 1
  MaxRestarts = 1
INVARIANTS TypeOK SyncInstalls NeverWithoutShards AddressIsOwn MembershipChangeShows
PROPERTIES Converges
