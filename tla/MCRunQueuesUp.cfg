SPECIFICATION Spec
CONSTANTS
    Tasks = {1, 2, 3}
    BootTasks = {1}
    NumCpus = 1
    NUM_CLASSES = 2
    CLASS_QUANTA <- UpQuanta
    TaskQuantum <- UpTaskQuantum
    InitClass <- MCInitClass
    ClassesOf <- UpClassesOf
    Preferred <- MCPreferred
    MaxEntries = 1
INVARIANTS
    OneEntryPerReadyTask
CHECK_DEADLOCK FALSE
