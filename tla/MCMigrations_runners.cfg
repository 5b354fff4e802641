\* Three processes of any of three releases.
SPECIFICATION FairSpec
CONSTANTS
  main = main
  branch = branch
  edited = edited
  sa = sa
  sb = sb
  sx = sx
  so = so
  Runners = {p1, p2, p3}
  Releases = {main, branch, edited}
  Files <- MCFiles
  Checksums = {sa, sb, sx, so}
  Absent = Absent
  MaxFaults = 1
INVARIANTS TypeOK RecordedIsApplied BuildsOnItsRelease
PROPERTIES MigrationsEnd
CHECK_DEADLOCK FALSE
