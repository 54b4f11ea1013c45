\* One customer's wrong guesses, with retries.
SPECIFICATION Spec
CONSTANTS
    boss = boss
    guest = guest
    User = {guest}
    Configured = {}
    Task = {t1}
    MaxRetries = 3
    MaxGuesses = 5
    MaxMessages = 6
    NULL = NULL
INVARIANTS
    GuessesExhaustTheWindow
CHECK_DEADLOCK FALSE
