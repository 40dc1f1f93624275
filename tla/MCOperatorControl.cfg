CONSTANTS
    laptop = laptop
    phone = phone
    alice = alice
    bob = bob
    Roster = {alice, bob}
    ChallengeTtl = 1
    SessionTtl = 1
    Browsers = {laptop, phone}
    TokenHolders = {phone}
    Budgets <- TwoFocuses
    QueueCap = 2
    Commands = {"engage", "disarm", "bare-disarm", "start", "end"}
SPECIFICATION FairSpec
INVARIANTS LoginsAreExclusive CommandsAreObeyed
PROPERTIES DeadTokensStayDead CommandsArrive
CHECK_DEADLOCK FALSE
