-------------------------------- MODULE MCRooms --------------------------------
(* Rooms on small instances. *)
EXTENDS Rooms, TLC

\* Accounts and request slots are interchangeable.
Symm == Permutations(Accounts) \cup Permutations(Slots)
================================================================================
