------------------------------ MODULE MCPlayer ------------------------------
(* Player for TLC: an update function that loops and calls the host, a draw   *)
(* function of one instruction, two cartridges with the same code.            *)
EXTENDS Player

MCSucc == [a \in Code \cup Host |->
             CASE a = "u1" -> {"u2", "host"}
               [] a = "host" -> {"u2"}
               [] a = "u2" -> {"u1", "ret"}
               [] a = "d1" -> {"ret"}]
=============================================================================
