SPECIFICATION SeedingSpec
CONSTANTS
  Jobs = {j1}
  Programs = {"platform"}
INVARIANT
  SeedResumes
