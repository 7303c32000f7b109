CONSTANTS
  r1 = r1
  r2 = r2
  Runs = {r1, r2}
  Limits <- MCLimits
  Catalogue <- MCCatalogue
  Honest <- MCHonest
  Assignments <- MCAssignments
  Hosts <- MCHosts
  AllowScreenedImages = TRUE
  EgressNetwork = TRUE
  MaxFaults = 1
  MaxCrashes = 1
SPECIFICATION Spec
INVARIANTS
  BuildGetsItsOwnImage
  
  
  RestartCleans
