----------------------------- MODULE MCLioNode -----------------------------
(* Instances of LioNode for TLC. *)
EXTENDS LioNode, TLC

\* Invocations are told apart by nothing but their names.
Symmetry == Permutations(Cli)

\* Every command among the leftovers of the others.
RacingCommands == Commands \cup {"kill"}

\* Everything that makes and removes LUNs, to the end: removals of whole targets against
\* commands that keep making parts of them.
LunCommands == {"addtpg", "addlun", "dellun", "deltpg", "deliqn", "unload"}

\* Saving and restoring the state of a port, and whatever stands in the way of its removal.
PortCommands == {"addtpg", "addlun", "addlunacl", "aluasecmd", "dellunacl", "dellun", "deltpg",
                 "deliqn", "unload", "kill", "offline"}

\* What is needed to make, unload and delete portal groups.
TpgCommands == {"addtpg", "deliqn", "unload"}
=============================================================================
