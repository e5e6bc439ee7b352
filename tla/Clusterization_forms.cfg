SPECIFICATION FairSpec
CONSTANTS
  VMs = {m1, m2, m3, m4}
  InitialSize = 3
  ClusterizationTarget = 2
  MaxMishaps = 2
  MaxRepeats = 1
  None = None
INVARIANTS TypeOK FormationInv CredentialsWork ListedOnce ElectionInv
PROPERTIES ImplementsRegistration ImplementsCluster LossIsFinal FormationSurvives EveryoneJoins
CHECK_DEADLOCK FALSE
