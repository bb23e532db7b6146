SPECIFICATION Spec
CONSTANT None = none
CHECK_DEADLOCK FALSE
INVARIANTS
    NoLostWakeup
    OneOwner
    InDeviceOrder

    
