SPECIFICATION MCSpec
CONSTANTS
  Gaps = {"gap"}
  Requesters = {"q1", "q2"}
  ResearchWorkers = {"w1", "w2"}
  PolledSource = "demo"
  SeededSources = {"pack"}
  Drifted = {2}
  BatchLimit = 2
  Lease = 2
  Timeout = 1
  MaxBulletins = 2
  MaxDeaths = 1
  Guests = {"g1", "g2"}
  Sweepers = {"worker", "api"}
  MaxGuestCases = 2
  BearerTenant = "b"
  OidcTenants = {"o1", "o2"}
  GuestTenants = {"g1", "g2"}
  MaxQueries = 2
INVARIANTS
  ResearchIsSound
  
  
  
  ReadsAreSound
PROPERTIES
  NothingIsLost
  PolledListHeals
CHECK_DEADLOCK FALSE
