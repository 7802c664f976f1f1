SPECIFICATION FairSpec
CONSTANTS
  soccer = soccer
  league = league
  TagIDs <- MCTagIDs
  Markets = {1, 2, 3}
  TagsOf <- MCTagsOf
  PageLimit = 1
  Healthy = {league}
  MaxChanges = 2
INVARIANTS
  TrackedIsAnnounced
PROPERTIES
  OpenMarketFound
