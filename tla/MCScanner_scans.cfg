\* Two instances compete for two repositories; one of them has tags that come and
\* go, and a cache entry that may be older than the latest release.
SPECIFICATION FairSpec
CONSTANTS
  r1 = r1
  r2 = r2
  Repos = {r1, r2}
  Tags = {t1, t2}
  Published <- MCPublished
  NoTag = NoTag
  Scanners = {s1, s2}
  BatchSize = 1
  Backoff = 1
  CacheTTL = 1
  MaxFaults = 1
INVARIANTS TypeOK AnnouncedOnce SkippedIsAnnounced ClaimsAreExclusive
PROPERTIES LatestIsAnnounced NobodyStarves
CHECK_DEADLOCK FALSE
