SPECIFICATION Spec
CONSTANT
    Chains <- AnyChain
INVARIANTS
    CrashOnlyUnordered
    WritesNeedToken
    NewSessionIsAnnounced
