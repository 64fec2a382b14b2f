------------------------- MODULE MCSecurityApprovals -------------------------
(* Instances of SecurityApprovals for TLC: an application process that     *)
(* creates two requests, the bot's process with two commands and a command *)
(* line of the operator in a process of its own.                           *)
EXTENDS SecurityApprovals, TLC

CONSTANTS ask1, ask2, bot1, bot2, cli

HomeOf == [c \in Calls |-> CASE c \in {ask1, ask2} -> "app"
                            [] c \in {bot1, bot2} -> "bot"
                            [] OTHER -> "shell"]
LineOf == [c \in Calls |-> IF c \in {bot1, bot2} THEN "bot" ELSE c]

Symmetric == Permutations({ask1, ask2}) \cup Permutations({bot1, bot2} \cap Calls)
=============================================================================
