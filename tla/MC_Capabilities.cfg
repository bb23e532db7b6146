SPECIFICATION Spec
CONSTANTS
    DeleteCapability = 26
    SharedDelete = 3
    Drivers = {t1, t2}
    Uart = uart
    Disk = disk
    Console = console
    NoIsr = noisr
CHECK_DEADLOCK FALSE
INVARIANTS
    NamesPeer
    
    
    OneServant
PROPERTIES
    Served
