CONSTANTS
    NumCpus = 2
    Tasks = {boot, t1}
    Boot = boot
    Idle = idle
    None = none
    AnyCpu = anycpu
    Pins = {0, 1, anycpu}
SPECIFICATION FairSpec
INVARIANTS NoSharedStack IInv
PROPERTIES ImplementsAbstract WakeupsArrive
