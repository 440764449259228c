------------------------------ MODULE MCArchiver ------------------------------
(* Instances of Archiver for TLC.                                           *)
EXTENDS ArchiverProps

(* Key widths that the run's indices never reach.                           *)
WideKeys == [j \in Journals |-> MaxIndex + 1]

(* Key widths that the highest index just fits: the resume point behind it  *)
(* does not.                                                                *)
TightKeys == [j \in Journals |-> MaxIndex]
===============================================================================
