CONSTANTS
    Roots <- MCRoots
    DefaultRoot = "etc"
    Disks <- MCDisks
    Invocations <- MCInvocations
    MaxEntries = 2
SPECIFICATION Spec
INVARIANTS
    TypeOK
    
    InlineExact
    
    
    
