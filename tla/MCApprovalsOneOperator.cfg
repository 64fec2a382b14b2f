CONSTANTS
    ask1 = ask1
    ask2 = ask2
    bot1 = bot1
    bot2 = bot2
    cli = cli
    Calls = {ask1, ask2, cli}
    Creates = {ask1, ask2}
    Procs = {"app", "shell"}
    Home <- HomeOf
    Line <- LineOf
    MaxRestarts = 0
    MaxFailures = 0
SPECIFICATION Spec
SYMMETRY Symmetric
INVARIANTS
    SafeForOneOperator
CHECK_DEADLOCK FALSE
