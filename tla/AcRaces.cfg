SPECIFICATION Spec
CONSTANT MaxEnv = 1
INVARIANTS
    BootOrder
    InitStatusFresh
    RadiationRegistered
PROPERTIES
    Registers
