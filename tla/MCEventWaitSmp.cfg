SPECIFICATION EventSpec
CONSTANTS
    Tasks = {1, 2, 3}
    BootTasks = {1}
    NumCpus = 2
    NUM_CLASSES = 1
    CLASS_QUANTA <- MCQuanta
    TaskQuantum <- MCTaskQuantum
    InitClass <- MCInitClass
    ClassesOf <- MCClassesOf
    Preferred <- MCPreferred
    MaxEntries = 4
    Events <- MCEvents
    AutoReset <- MCEvents
    process_object <- MCProcess
    thread_object <- MCThread
    Threads = {3}
    Waitable <- MCWaitable
    Calls = {"wait", "set", "reset", "spawn"}
    Endless = {}
    MaxCalls = 2
    MaxDelay = 1
INVARIANTS
    EventTypeOK
    StacksStayHome
    RegistrationsAreOwn
CHECK_DEADLOCK FALSE
