CONSTANT Configs <- MCConfigs
SPECIFICATION Spec
INVARIANTS
    TypeOK
    NothingLeftBehind
    
PROPERTIES
    ResultFollows
    LifeSpec
