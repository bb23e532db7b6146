SPECIFICATION Spec
CONSTANTS
    None = none
    Values = {"v", "w"}
CHECK_DEADLOCK FALSE

    
PROPERTIES
    
    TableIsMap
    EvictsLeastRecent
