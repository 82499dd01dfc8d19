SPECIFICATION ProcSpec
CONSTANTS
    Tasks = {1, 2, 3}
    BootTasks = {1}
    NumCpus = 2
    NUM_CLASSES = 1
    CLASS_QUANTA <- MCQuanta
    TaskQuantum <- MCTaskQuantum
    InitClass <- MCInitClass
    ClassesOf <- MCClassesOf
    Preferred <- MCPreferred
    MaxEntries = 4
    Events <- MCEvents
    AutoReset <- MCEvents
    process_object <- MCProcess
    thread_object <- MCThread
    Threads = {}
    Waitable <- MCWaitable
    Calls = {"wait", "yield", "spawn"}
    Endless = {"yield"}
    MaxCalls = 3
    MaxDelay = 1
    Pids = {1, 2, 3}
    InitTask = 1
    Spawns = {"process", "thread"}
INVARIANTS
    ProcTypeOK
    RecordInOnePlace
    RunsInOwnProcess
    PidsAreOwn
    LoadedSpacesExist
CHECK_DEADLOCK FALSE
