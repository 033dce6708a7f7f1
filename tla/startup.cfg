CONSTANTS
  Names = {"a", "b"}
  None = None
  Configs <- MCConfigs
SPECIFICATION Spec
INVARIANTS InUseIsUp ForwardedAsConfigured
CHECK_DEADLOCK FALSE
