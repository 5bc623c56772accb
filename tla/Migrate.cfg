SPECIFICATION MigrateSpec
CONSTANTS
  Runners = {r1, r2}
  Versions <- MCVersions
  Checksums = {"a", "b"}
  Directories <- MCDirectories
  MaxFaults = 2
  Nobody = Nobody
INVARIANTS
  AppliedInOrder
  NoReleaseMixed
  ServedSchemaStays
PROPERTIES
  AgreedIsApplied
