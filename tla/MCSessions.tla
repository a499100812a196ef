------------------------------ MODULE MCSessions ------------------------------
(* Model values for checking Sessions: names, devices and grants are         *)
(* interchangeable.                                                          *)
EXTENDS Sessions, TLC

Symmetry == Permutations(Names) \cup Permutations(Devices)
=============================================================================
