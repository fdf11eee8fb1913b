SPECIFICATION UpdateFairSpec
CONSTANTS
  Versions = {"v2", "v3", "v4"}
  First = "v1"
  Mislabelled = {"v3"}
  Cooldown = 3
  MaxFailures = 3
PROPERTIES AttemptsSpaced ServiceComesBack Converges
