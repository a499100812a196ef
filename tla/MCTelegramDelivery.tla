------------------------ MODULE MCTelegramDelivery ------------------------
(* Model values for checking TelegramDelivery: recipients, parents, tasks   *)
(* and lease tokens are interchangeable.                                   *)
EXTENDS TelegramDelivery, TLC

Symmetry == Permutations(Tasks) \cup Permutations(Parents) \cup Permutations(Tokens)
=============================================================================
