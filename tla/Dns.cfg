SPECIFICATION FairSpec
CONSTANTS
  MaxServers = 2
  MaxRetries = 4
  MaxTtl = 2
  Addresses = {g, d, e}
  Google = g
INVARIANTS TypeOK GivesUp
PROPERTY RefinesLookup
