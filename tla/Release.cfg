SPECIFICATION Spec
CONSTANTS
  Deployers = {a, b}
  Branches <- MCBranches
  MainBranches <- MCMainBranches
  SlashedBranches <- MCSlashedBranches
  LeadingNumber <- MCLeadingNumber
  Types = {"patch", "major"}
  None = None
  Seconds = 1
INVARIANTS RegistryAgrees NumbersGapless
PROPERTIES FailureReverts
SYMMETRY DeployerSymmetry
CHECK_DEADLOCK FALSE
