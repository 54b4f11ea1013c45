SPECIFICATION BotSpec
CONSTANTS
    Transport = {"webhook", "polling"}
    MaxTroubles = 5
    User = {alice, bob}
    MinInterval = 2
    ApologyInterval = 3
    MaxSetBack = 1
INVARIANTS
    BotTypeOK
    HandlersFindTheSchema
    RegisteredIsServed
    PollsWithoutWebhook
    OrderlyExitUnregisters
    HeardAfterQuiet
    NotLongSilent
    SpacedOut
PROPERTIES
    SignalEndsWebhook
    EventuallyServes
CHECK_DEADLOCK FALSE
