CONSTANTS
    Roots <- MCRoots
    DefaultRoot = "etc"
    Disks <- MCDisks
    Invocations <- MCInvocations
    MaxEntries = 0
SPECIFICATION Spec
INVARIANT OwnScripts
