SPECIFICATION Spec
CONSTANTS
    Capacity = 2
    MaxPush = 5
    NoItem = NoItem
    Items = {a, b}
    Consumers = {c1, c2}
INVARIANTS
    NoSlotShared
    UnreadyMeansOvertaken
    RefusalMeansHeld
    SizeWithinCapacity
PROPERTY
    ImplementsFifo
