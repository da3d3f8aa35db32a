CONSTANT Configs <- MCConfigs
SPECIFICATION Spec
INVARIANT SuccessHasSnapshot
