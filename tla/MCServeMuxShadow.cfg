CONSTANTS
  Chars <- SiteChars
  Patterns <- SitePatterns
  Hosts <- SiteHosts
  RequestPaths <- SitePaths
  MaxLen = 1
SPECIFICATION MuxSpec
INVARIANT AcceptedIsServed
