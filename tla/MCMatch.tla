--------------------------------- MODULE MCMatch ---------------------------------
(* Match on small instances. *)
EXTENDS Match, TLC

\* Sessions are interchangeable.
Symm == Permutations(Humans)

\* Room matches and matchmade ones, with and without bot.
AnySettings == SettingsRec
================================================================================
