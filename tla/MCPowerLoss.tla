------------------------------ MODULE MCPowerLoss ------------------------------
(* Instances of PowerLoss for TLC.                                          *)
EXTENDS PowerLoss

(* Key widths that the run's indices never reach.                           *)
WideKeys == [j \in Journals |-> MaxIndex + 1]
===============================================================================
