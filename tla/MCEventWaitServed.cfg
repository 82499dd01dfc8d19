SPECIFICATION FairEventSpec
CONSTANTS
    Tasks = {1, 2, 3}
    BootTasks = {1}
    NumCpus = 1
    NUM_CLASSES = 2
    CLASS_QUANTA <- ServedQuanta
    TaskQuantum <- ServedTaskQuantum
    InitClass <- MCInitClass
    ClassesOf <- ServedClassesOf
    Preferred <- MCPreferred
    MaxEntries = 4
    Events <- MCEvents
    AutoReset <- MCEvents
    process_object <- MCProcess
    thread_object <- MCThread
    Threads = {3}
    Waitable <- OnlyEvent
    Calls = {"yield", "delay", "spawn"}
    Endless = {"yield", "delay"}
    MaxCalls = 1
    MaxDelay = 1
PROPERTIES
    ReadyIsServed
CHECK_DEADLOCK FALSE
