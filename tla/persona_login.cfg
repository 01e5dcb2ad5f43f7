CONSTANTS
  None = None
  Changed = Changed
  Teams = {platform, payments}
  Logins = {l1, l2}
  LastSeed = 1
SPECIFICATION Spec
INVARIANTS
  TokenIsAsTold
  ShownCredentialsWork
PROPERTIES
  WorkingPersonaStays
  ProvisioningCompletes
