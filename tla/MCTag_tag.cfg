SPECIFICATION Spec
CONSTANTS
    t1 = t1
    t2 = t2
    Tab = {t1, t2}
    Person = {ann, bob}
    chosen = chosen
    Chosen = {chosen}
    ann = ann
    bob = bob
    Referrer = {search}
    search = search
    Configs <- AllConfigs
    MaxBuffer = 3
    IdleTime = 0
    MaxId = 4
    MaxSession = 3
    MaxTime = 1
INVARIANTS
    Contract
    
CONSTRAINT Bounds
SYMMETRY Symmetric
CHECK_DEADLOCK FALSE
