SPECIFICATION Spec
CONSTANTS
    Tasks = {1, 2, 3}
    BootTasks = {1}
    NumCpus = 2
    NUM_CLASSES = 2
    CLASS_QUANTA <- MCQuanta
    TaskQuantum <- MCTaskQuantum
    InitClass <- MCInitClass
    ClassesOf <- MCClassesOf
    Preferred <- MCPreferred
    MaxEntries = 2
INVARIANTS
    TypeOK
    OneCpuPerTask
    EntriesAtHome
    ReadyIsQueued
    ReportedTaskIsLocal
    DeficitsBounded
    IdsNeverReused
    StartFindsTask
PROPERTIES
    WorkConserving
    ExitIsFinal
CHECK_DEADLOCK FALSE
