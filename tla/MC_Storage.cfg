SPECIFICATION Spec
CONSTANT None = none
CHECK_DEADLOCK FALSE
INVARIANTS
    
    ReadyBeforeUse
    ReadsFile
PROPERTIES
    ImplementsVirtqueue
    RequestsAnswered
