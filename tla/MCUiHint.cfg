SPECIFICATION FairSpec
CONSTANTS
  h1 = h1  h2 = h2  p1 = p1
  Launches <- MCLaunches
  Pids <- MCPids
  None = none
  MaxTunes = 1
  Reuse = FALSE
INVARIANTS TypeOK WorkersNotRaised RaisedSelected RaisedIsReported
PROPERTY HelperEnds
