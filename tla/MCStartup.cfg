SPECIFICATION Spec
CONSTANTS
    ui = ui
    worker = worker
    Ui = ui
    Worker = worker
    Threads = {ui, worker}
    Nobody = Nobody
    Wild = Wild
    NoFile = NoFile
    Partial = Partial
    MaxLogBytes = 3
    RotateCount = 3
    MaxLines = 9
    MaxFaults = 1
    MaxDropped = 1
    FrameIds = 3
    FlipQueue = 2
    Attempts = 2
    MaxRuns = 2
INVARIANTS LogIsRecent DrawsUnseen RunsUnrestricted
PROPERTIES FramesReturn
CHECK_DEADLOCK FALSE
