CONSTANTS
    Capacity = 2
    Fields <- SlotFields
    Contents = {0, 1, 2, 3, 4, 5}
    Unset = 0
    Values <- Events
    NoItem = NoItem
    Stores <- EventStores
    Load <- EventLoad
    MaxItems = 4
SPECIFICATION MCSpec
INVARIANTS SlotExclusion AnswersAreExact
PROPERTIES RoomAndItemsAreStable ImplementsFifo EveryItemDelivered
CHECK_DEADLOCK FALSE
