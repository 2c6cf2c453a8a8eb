----------------------------------- MODULE MCLobby -----------------------------------
EXTENDS Lobby
Perms == Permutations(Accounts)

MCShop == 1 :> [itemId |-> 1, ammo |-> 201, filter |-> 1] @@ 2 :> [itemId |-> 8, ammo |-> 202, filter |-> 1]
          @@ 3 :> [itemId |-> 23, ammo |-> 207, filter |-> 1] @@ 4 :> [itemId |-> 1201, ammo |-> 0, filter |-> 4]
          @@ 5 :> [itemId |-> 21, ammo |-> 0, filter |-> 1] @@ 6 :> [itemId |-> 702, ammo |-> 0, filter |-> 2]
          @@ 7 :> [itemId |-> 709, ammo |-> 0, filter |-> 4] @@ 8 :> [itemId |-> 601, ammo |-> 0, filter |-> 4]
MCTypes == 1 :> 0 @@ 702 :> 4 @@ 709 :> 1 @@ 601 :> 8 @@ 1201 :> 12
MCSlots == 1 :> "primary" @@ 2 :> "secondary" @@ 3 :> Unset @@ 4 :> "building" @@ 5 :> "melee"
           @@ 6 :> "vest" @@ 7 :> "consumable" @@ 8 :> "grenade"
MCEco == 152 :> [name |-> "win_round", min |-> 0, step |-> 100]
         @@ 153 :> [name |-> "per_kill", min |-> 100, step |-> 50]

Entry(r, p) == [row |-> r, price |-> p]
Adv(shop, events, rounds, cut) == [shop |-> shop, events |-> events, rounds |-> rounds, cut |-> cut]
Choice(i, f, adv) == [indices |-> i, flags |-> f, adv |-> adv]

Plain == Choice([playerHP |-> 0], {}, Unset)
Simple == Choice([playerHP |-> 4, playerSpeed |-> 1, playerJump |-> 3, roundNum |-> 3, initCoin |-> 2],
                 {"noLoadout", "hideEnemyCloth", "friendlyFire"}, Unset)
Events == 152 :> 25500 @@ 153 :> 100
Full == Choice([playerHP |-> 1, playerSpeed |-> 2, roundNum |-> 1, initCoin |-> 1],
               {"unlimitedAmmo", "noPowerGun", "noAuxAim"},
               Adv(<<Entry(4, 12750), Entry(3, 50), Entry(9, 50), Entry(1, 0)>>, Events, <<70000, 0, -1>>, FALSE))
Torn == [Full EXCEPT !.adv = Adv(<<Entry(2, 50), Entry(5, 0), Entry(6, 0)>>, Events, <<2 ^ 24, 255>>, TRUE)]
Whole == [Torn EXCEPT !.adv.cut = FALSE]
ShopOnly == [Simple EXCEPT !.adv = Adv(<<Entry(7, 50), Entry(8, 100)>>, <<>>, <<>>, FALSE)]
Banned == [Simple EXCEPT !.adv = Adv(<<Entry(3, 50)>>, Events, <<500>>, FALSE)]
Empty == [Simple EXCEPT !.adv = Adv(<<>>, <<>>, <<>>, FALSE)]

Mix(o, s, c, w) == [ops |-> o, sizes |-> s, choices |-> c, wire |-> w]
MCScenarios ==
  {Mix({"CLOSE", "KICK"}, {4, 6}, {Plain}, 2),
   Mix({"SWITCHSEAT", "KICK", "CHANGE"}, {4, 6}, {Plain}, 1),
   Mix({"SETREADY", "COUNTDOWN", "KICK"}, {2, 4}, {Plain}, 1),
   Mix({"START", "INFO"}, {4}, {Whole}, 1),
   Mix({"START", "FLEET"}, {2}, {Plain}, 1),
   Mix({"START"}, {2}, {Simple, Full, Torn, Whole, ShopOnly, Banned, Empty}, 1),
   Mix({"START", "CHANGE"}, {2}, {Simple, Full, Torn, ShopOnly}, 1)}
ASSUME CodecHolds == CodecFaithful
================================================================================
