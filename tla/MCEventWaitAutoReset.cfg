SPECIFICATION FairEventSpec
CONSTANTS
    Tasks = {1, 2, 3}
    BootTasks = {1}
    NumCpus = 1
    NUM_CLASSES = 1
    CLASS_QUANTA <- MCQuanta
    TaskQuantum <- MCTaskQuantum
    InitClass <- MCInitClass
    ClassesOf <- MCClassesOf
    Preferred <- MCPreferred
    MaxEntries = 4
    Events <- MCEvents
    AutoReset <- MCEvents
    process_object <- MCProcess
    thread_object <- MCThread
    Threads = {3}
    Waitable <- OnlyEvent
    Calls = {"wait", "set", "yield", "spawn"}
    Endless = {}
    MaxCalls = 3
    MaxDelay = 1
PROPERTIES
    WaitReturns
CHECK_DEADLOCK FALSE
