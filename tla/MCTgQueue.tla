------------------------------ MODULE MCTgQueue ------------------------------
(* Instances of TgQueue for TLC. *)
EXTENDS TgQueue, TLC

\* Objects are interchangeable, and so are queries of one kind and addresses.
ObjectSymmetry  == Permutations(Queue)
FullSymmetry    == Permutations(Queue) \cup Permutations(Request)
AddressSymmetry == Permutations(Queue) \cup Permutations(Dc)
=============================================================================
