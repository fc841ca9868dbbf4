SPECIFICATION FairSpec
CHECK_DEADLOCK FALSE
CONSTANTS
  DirNames <- MCDirNames
  Deployments <- MCDeployments
  SystemDirs <- MCSystemDirs
  MaxStarts = 3
INVARIANTS
  BridgeIsReady
PROPERTIES
  EditsSurvive
  RegistrationComes
