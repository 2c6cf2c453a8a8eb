----------------------------------- MODULE Friends -----------------------------------
(***************************************************************************)
(* Friends and friend requests (the second half of src/db/repo/postgres.js *)
(* and of sqlite.js): the lists of every account and what each operation   *)
(* of the repository makes of them.  Postgres keeps them in tables of      *)
(* their own, one statement or one transaction per operation; SQLite in    *)
(* the accounts' documents, written one after the other.  Module Profiles  *)
(* has both.                                                               *)
(***************************************************************************)
CONSTANT People

Lists == [friends : [People -> SUBSET People], requests : [People -> SUBSET People]]

Nobody == [friends |-> [x \in People |-> {}], requests |-> [x \in People |-> {}]]

addRequest(s, target, from) ==
  IF target = from THEN s ELSE [s EXCEPT !.requests[target] = @ \cup {from}]

removeRequest(s, target, from) == [s EXCEPT !.requests[target] = @ \ {from}]

\* Both directions, and no request left between the two.
addFriendship(s, a, b) ==
  IF a = b THEN s
  ELSE [s EXCEPT !.friends[a] = @ \cup {b}, !.friends[b] = @ \cup {a},
                 !.requests[a] = @ \ {b}, !.requests[b] = @ \ {a}]

\* Mutant: only the caller's direction is deleted.
removeFriendshipOneWay(s, a, b) == [s EXCEPT !.friends[a] = @ \ {b}]

removeFriendship(s, a, b) == [s EXCEPT !.friends[a] = @ \ {b}, !.friends[b] = @ \ {a}]

\* What the four endpoints ask of the repository, `me' the caller.  A request names its adder
\* itself; a confirmation does not look for the request.
RequestAddingFriend(s, adder, you) == addRequest(s, you, adder)
ConfirmFriendRequest(s, me, you) == addFriendship(s, me, you)
DeclineFriendRequest(s, me, you) == removeRequest(s, me, you)
RemoveFriend(s, me, you) == removeFriendship(s, me, you)

FriendOps == {"RequestAddingFriend", "ConfirmFriendRequest", "DeclineFriendRequest", "RemoveFriend"}

friendHandler(k, s, me, you, adder) ==
  CASE k = "RequestAddingFriend" -> RequestAddingFriend(s, adder, you)
    [] k = "ConfirmFriendRequest" -> ConfirmFriendRequest(s, me, you)
    [] k = "DeclineFriendRequest" -> DeclineFriendRequest(s, me, you)
    [] k = "RemoveFriend" -> RemoveFriend(s, me, you)
================================================================================
