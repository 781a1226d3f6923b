-------------------------- MODULE MCCommandHandler --------------------------
(* Instances of CommandHandler for TLC.                                    *)
EXTENDS CommandHandler

CONSTANT d1

OneDevice == {d1}
ForOneDevice == [c \in Commands |-> d1]
=============================================================================
