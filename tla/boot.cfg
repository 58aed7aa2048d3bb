\* A boot of every machine.
SPECIFICATION Spec
CONSTANTS
    Slots = 3
    MaxSlots = 6
    Machines <- MCMachines
    InBuffer = 3
    RootName = "root"
INVARIANTS MapEndsAtTables SeenIsBiosMap SearchSeesScannedMap PartitionIsFirst KernelGenuine
PROPERTIES BootEnds GoodMachineBoots
CHECK_DEADLOCK FALSE
