CONSTANTS
  Chars <- SiteChars
  Patterns <- SitePatterns
  Hosts <- SiteHosts
  RequestPaths <- SitePaths
  MaxLen = 4
  Bases <- WalkBases
  Rels <- WalkRels
  Queries <- WalkQueries
  MaxRel = 6
  MaxInt = 1278
  Bytes <- NumberBytes
  MaxNumber = 5
  FirstYear = 1899
  LastYear = 2001
  Times <- DayTimes
  MaxPath = 8
  MaxTarget = 4
  Protocols <- AlpnEntries
  MaxEntries = 4
SPECIFICATION CallSpec
INVARIANT RoutesLikeGo
INVARIANT NoRedirectLoop
INVARIANT MatchesReference
INVARIANT Sanitizes
INVARIANT ParsesExactly
INVARIANT TargetsRoundTrip
INVARIANT Negotiates
 
INVARIANT DatesReadBack
INVARIANT TokensExact
CHECK_DEADLOCK FALSE
