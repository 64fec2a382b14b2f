CONSTANTS
    ask1 = ask1
    ask2 = ask2
    bot1 = bot1
    bot2 = bot2
    cli = cli
    Calls = {ask1, ask2, bot1, bot2, cli}
    Creates = {ask1, ask2}
    Procs = {"app", "bot", "shell"}
    Home <- HomeOf
    Line <- LineOf
    MaxRestarts = 1
    MaxFailures = 1
SPECIFICATION Spec
SYMMETRY Symmetric
INVARIANTS
    TypeOK
    DecisionsAreGiven
    ConfirmedHolds
PROPERTIES
    AnswerStands
CHECK_DEADLOCK FALSE
