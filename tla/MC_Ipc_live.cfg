SPECIFICATION FairSpec
CONSTANTS
    boot = boot
    other = other
    idle0 = idle0
    idle1 = idle1
    init = init
    child = child
    kIdle0 = kIdle0
    kIdle1 = kIdle1
    kInit = kInit
    kChild = kChild
    up = up
    down = down
    None = None
    Harts = {boot}
    Tasks = {idle0, init, child}
    Queues = {kIdle0, kInit, kChild, up, down}
    Idle <- MCIdle
    BootQueue <- MCBootQueue
    Owner <- MCOwner
    KernelChannel <- MCKernelChannel
    Writer <- MCWriter
    Claimants = {}
    CapCounts = {0}
    BufLens = {0}
    MaxSends <- MCOneSend
    MaxInterrupts = 0
PROPERTIES
    ReadyRuns
    MessageResumesReceiver
