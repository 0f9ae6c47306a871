------------------------------ MODULE VisionMC -------------------------------
(* Small pictures that are dark at the top, with gradients of several sizes *)
(* in every row: columns agree, disagree or see no edge, and both weak and  *)
(* steep columns can be outliers.                                           *)
EXTENDS Vision

Pictures == <<{0}, {0, 1, 3}, {0, 4}, {1, 5}>>
=============================================================================
