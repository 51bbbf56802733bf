--------------------------- MODULE MCAgentServer ---------------------------
(***************************************************************************)
(* Three clients: one chain of three, or a chain of two beside a third     *)
(* client of its own.                                                      *)
(***************************************************************************)
EXTENDS AgentServer

CONSTANTS c1, c2, c3

MCTopologies ==
    LET pipes(a, b) == [c \in {c1, c2, c3} |->
            CASE c = c1 -> a [] c = c2 -> b [] OTHER -> None]
    IN  {pipes(c2, c3), pipes(c2, None)}
=============================================================================
