\* A configured admin and a customer, two messages handled at once.
SPECIFICATION FairSpec
CONSTANTS
    boss = boss
    guest = guest
    User = {boss, guest}
    Configured = {boss}
    Task = {t1, t2}
    MaxRetries = 3
    MaxGuesses = 2
    MaxMessages = 3
    NULL = NULL
INVARIANTS
    TypeOK
    OnlyAdminsSeeLists
    GuessesAreBounded
PROPERTIES
    RefusedInTheWindow
    EveryMessageEnds
CHECK_DEADLOCK FALSE
