-------------------------------- MODULE MatchSettings --------------------------------
(***************************************************************************)
(* What a custom room's host has set, on its way to the match: RoomStart.js*)
(* decodes the bit fields (src/tcp/roomsettings.js) and the blob of the    *)
(* advanced dialog (src/tcp/csadvanced.js), and the match server applies   *)
(* the result (match-server/matchsettings.go).  The tables csadvanced.js   *)
(* loads from the client's CSV files are constants; of a shop row the      *)
(* fields that are copied as they are (limitation, bonus) are left out.    *)
(*                                                                         *)
(* A choice is what the host's dialogs show; pack (external) is how the    *)
(* client writes it down, Intended what it means.                          *)
(***************************************************************************)
EXTENDS Integers, Sequences, SequencesExt, FiniteSetsExt

CONSTANTS
  SHOP_BY_INDEX,   \* index of a row of the shop -> [itemId, ammo, filter]
  ITEM_TYPE,       \* item -> its type
  ECO_STEP,        \* event id -> [name, min, step]
  SlotOf,          \* index of a row -> the slot of the inventory its item goes to, or Unset
  Unset            \* absent: the match server keeps its default

CS_SHOP_COST_INTERVAL == 50

--------------------------------------------------------------------------------
(* The bit fields: first bit and width of an index, the bit of a flag *)

IDX == [playerHP |-> <<8, 3>>, playerEP |-> <<11, 3>>, playerSpeed |-> <<14, 3>>,
        dropList |-> <<17, 4>>, playerJump |-> <<21, 3>>, roundNum |-> <<25, 2>>,
        initCoin |-> <<27, 2>>]
IDX2 == [fightClubRound |-> <<6, 2>>, revive |-> <<8, 3>>]
FLAG == [hideKillInfo |-> 0, unlimitedAmmo |-> 1, noFallingDamage |-> 2, noLoadout |-> 3,
         noAirdrop |-> 4, noSkill |-> 5, noVehicle |-> 6, accTotalStats |-> 24,
         noPowerGun |-> 29, hideEnemyCloth |-> 30]
FLAG2 == [noUav |-> 0, noBomb |-> 1, replay |-> 2, noZeppelin |-> 3, noHud |-> 4,
          friendlyFire |-> 5, inGameChat |-> 11, shopFlow |-> 12, useRandomMap |-> 13,
          noAuxAim |-> 14]

\* The values by index, of those the match server applies; multipliers in percent.
TABLES == [roundNum |-> <<7, 13, 11, 5, 3>>,
           initCoin |-> << <<500, 900, 1100, 1700, 2100, 2400, 3000>>,
                           <<1500, 1700, 1900, 2100, 2300, 2500, 2700>> >>,
           playerHP |-> <<200, 500, 50, 1>>,
           playerSpeed |-> <<100, 50, 125, 200>>,
           playerJump |-> <<100, 200, 400>>]

idxOf(v, spec) == (v \div 2 ^ spec[1]) % 2 ^ spec[2]
hasFlag(v, bit) == (v \div 2 ^ bit) % 2 = 1
resolve(table, i) == IF i \in DOMAIN table THEN table[i] ELSE Unset

decodeIndices(rs, rs2) ==
  [k \in DOMAIN IDX \cup DOMAIN IDX2 |->
     IF k \in DOMAIN IDX THEN idxOf(rs, IDX[k]) ELSE idxOf(rs2, IDX2[k])]

decodeFlags(rs, rs2) ==
  {k \in DOMAIN FLAG : hasFlag(rs, FLAG[k])} \cup {k \in DOMAIN FLAG2 : hasFlag(rs2, FLAG2[k])}

decodeRoomSettings(rs, rs2) ==
  LET i == decodeIndices(rs, rs2)
  IN  [flags |-> decodeFlags(rs, rs2), rs |-> rs, rs2 |-> rs2,
       maxHP |-> resolve(TABLES.playerHP, i.playerHP),
       speedMul |-> resolve(TABLES.playerSpeed, i.playerSpeed),
       jumpMul |-> resolve(TABLES.playerJump, i.playerJump),
       roundCount |-> resolve(TABLES.roundNum, i.roundNum),
       economy |-> resolve(TABLES.initCoin, i.initCoin)]

--------------------------------------------------------------------------------
(* The blob *)

\* Items the match server cannot place.
QUARANTINE == {23, 37, 100, 537, 38, 607, 1006, 1202, 1401, 1601, 1602, 2102, 2401}

typeOf(item) == IF item \in DOMAIN ITEM_TYPE THEN ITEM_TYPE[item] ELSE 0

\* Unset: not to be placed.
resolveSlotKind(item, ammo, filter, type) ==
  CASE item \in QUARANTINE -> Unset
    [] item \notin QUARANTINE /\ filter = 1 ->
         IF ammo = 202 THEN "secondary"
         ELSE IF ammo \in {201, 203, 204, 205} THEN "primary"
         ELSE IF ammo = 0 THEN "melee" ELSE Unset
    [] item \notin QUARANTINE /\ filter = 2 ->
         IF type = 4 THEN "vest" ELSE IF type = 2 THEN "helmet"
         ELSE IF type = 1 THEN "consumable" ELSE Unset
    [] item \notin QUARANTINE /\ filter = 4 ->
         IF item = 709 THEN "consumable" ELSE IF item = 1201 THEN "building"
         ELSE IF type = 8 THEN "grenade" ELSE Unset
    [] OTHER -> Unset

slotKind(row) ==
  LET m == SHOP_BY_INDEX[row] IN resolveSlotKind(m.itemId, m.ammo, m.filter, typeOf(m.itemId))

shopItem(pair) == [item_id |-> SHOP_BY_INDEX[pair[1]].itemId, slot_kind |-> slotKind(pair[1]),
                   price |-> pair[2] * CS_SHOP_COST_INTERVAL]

\* n pairs of bytes from position o on.
Pairs(buf, o, n) == [i \in 1 .. n |-> <<buf[o + 2 * (i - 1)], buf[o + 2 * i - 1]>>]

\* An unknown row, or an item that cannot be placed, is dropped.
decodeShop(pairs) ==
  LET kept == SelectSeq(pairs, LAMBDA p : p[1] \in DOMAIN SHOP_BY_INDEX /\ slotKind(p[1]) # Unset)
  IN  [i \in 1 .. Len(kept) |-> shopItem(kept[i])]

\* Event name -> coins; of two entries for an event the later wins, unknown ones are skipped.
decodeEvents(pairs) ==
  LET known == {i \in 1 .. Len(pairs) : pairs[i][1] \in DOMAIN ECO_STEP}
      name(i) == ECO_STEP[pairs[i][1]].name
  IN  [n \in {name(i) : i \in known} |->
         LET p == pairs[Max({i \in known : name(i) = n})]
         IN  ECO_STEP[p[1]].min + p[2] * ECO_STEP[p[1]].step]

\* Signed, little-endian.
i32(buf, o) == buf[o] + buf[o + 1] * 2 ^ 8 + buf[o + 2] * 2 ^ 16
               + (IF buf[o + 3] >= 128 THEN buf[o + 3] - 256 ELSE buf[o + 3]) * 2 ^ 24

clamp(v) == IF v < 0 THEN 0 ELSE v

\* Unset when a section runs past the end; bytes after the last one are ignored.
decodeAdvanced(buf) ==
  LET eco == 2 + 2 * buf[1]
      round == eco + 1 + 2 * buf[eco]
  IN  IF \/ Len(buf) < 3 \/ eco > Len(buf) \/ round > Len(buf)
         \/ round + 4 * buf[round] > Len(buf)
      THEN Unset
      ELSE [shopItems |-> decodeShop(Pairs(buf, 2, buf[1])),
            events |-> decodeEvents(Pairs(buf, eco + 1, buf[eco])),
            perRoundBase |-> [i \in 1 .. buf[round] |-> clamp(i32(buf, round + 1 + 4 * (i - 1)))]]

--------------------------------------------------------------------------------
(* The record's settings fields, the payload and the match server *)

NoAdvanced == [shopItems |-> <<>>, events |-> <<>>, perRoundBase |-> <<>>]

orElse(s, default) == IF Len(s) > 0 THEN s ELSE default

\* match:<id>:settings.  The blob overrides the round count and the economy.
payload(config) ==
  LET s == decodeRoomSettings(config.rs, config.rs2)
      blob == IF config.advanced /\ config.blob # <<>> THEN decodeAdvanced(config.blob) ELSE Unset
      adv == IF blob = Unset THEN NoAdvanced ELSE blob
      rounds == Len(adv.perRoundBase)
  IN  [flags |-> s.flags, rs |-> s.rs, rs2 |-> s.rs2, maxHP |-> s.maxHP,
       speedMul |-> s.speedMul, jumpMul |-> s.jumpMul,
       roundCount |-> IF rounds > 0 THEN rounds ELSE s.roundCount,
       economy |-> orElse(adv.perRoundBase, s.economy),
       shopItems |-> orElse(adv.shopItems, Unset),
       events |-> IF DOMAIN adv.events = {} THEN Unset ELSE adv.events]

defaultMatchSettings ==
  [custom |-> FALSE, flags |-> {}, rs |-> 0, rs2 |-> 0, maxHP |-> Unset, speedScale |-> Unset,
   jumpScale |-> Unset, maxRound |-> Unset, roundsToWin |-> Unset, baseCoins |-> Unset,
   shop |-> Unset, events |-> Unset]

\* json.Unmarshal into unsigned fields refuses a negative number.
Unmarshals(w) == w.economy = Unset \/ \A i \in DOMAIN w.economy : w.economy[i] >= 0

\* An event missing from those sent counts as zero.
wireEvents(events) ==
  IF events = Unset THEN Unset
  ELSE [n \in {ECO_STEP[e].name : e \in DOMAIN ECO_STEP} |->
          IF n \in DOMAIN events THEN events[n] ELSE 0]

percent(mul) == IF mul = 100 THEN Unset ELSE mul

\* What the first admission of a match applies of the key it finds, Unset when there is none.
loadMatchSettings(w) ==
  IF w = Unset THEN defaultMatchSettings
  ELSE IF ~Unmarshals(w) THEN [defaultMatchSettings EXCEPT !.custom = TRUE]
  ELSE [custom |-> TRUE, flags |-> w.flags \cap {"noLoadout", "unlimitedAmmo"},
        rs |-> w.rs, rs2 |-> w.rs2, maxHP |-> w.maxHP,
        speedScale |-> percent(w.speedMul), jumpScale |-> percent(w.jumpMul),
        maxRound |-> w.roundCount,
        roundsToWin |-> IF w.roundCount = Unset THEN Unset ELSE ((w.roundCount + 1) % 256) \div 2,
        baseCoins |-> w.economy, shop |-> w.shopItems, events |-> wireEvents(w.events)]

--------------------------------------------------------------------------------
(* The client's side (external).  A choice has the indices and flags of the simple dialog    *)
(* and adv, Unset or the shop (rows with prices), the events (id -> coins) and the coins of  *)
(* each round; cut: the blob arrives without its last byte.                                  *)

bits(indices, spec, flags, bit) ==
  MapThenSumSet(LAMBDA k : indices[k] * 2 ^ spec[k][1], DOMAIN indices \cap DOMAIN spec)
    + MapThenSumSet(LAMBDA f : 2 ^ bit[f], flags \cap DOMAIN bit)

i32Bytes(v) == [i \in 1 .. 4 |-> (v \div 256 ^ (i - 1)) % 256]

blobOf(adv) ==
  LET shop == [i \in 1 .. Len(adv.shop) |->
                 <<adv.shop[i].row, adv.shop[i].price \div CS_SHOP_COST_INTERVAL>>]
      ids == SetToSortSeq(DOMAIN adv.events, LAMBDA x, y : x < y)
      eco == [i \in 1 .. Len(ids) |->
                <<ids[i], (adv.events[ids[i]] - ECO_STEP[ids[i]].min) \div ECO_STEP[ids[i]].step>>]
      rounds == [i \in 1 .. Len(adv.rounds) |-> i32Bytes(adv.rounds[i])]
      all == <<Len(shop)>> \o FlattenSeq(shop) \o <<Len(eco)>> \o FlattenSeq(eco)
             \o <<Len(rounds)>> \o FlattenSeq(rounds)
  IN  IF adv.cut THEN Front(all) ELSE all

pack(choice) ==
  [rs |-> bits(choice.indices, IDX, choice.flags, FLAG),
   rs2 |-> bits(choice.indices, IDX2, choice.flags, FLAG2),
   advanced |-> choice.adv # Unset,
   blob |-> IF choice.adv = Unset THEN <<>> ELSE blobOf(choice.adv)]

\* What the match plays by when the simple dialog stands at `simple' and the advanced one at
\* `adv': unreadable advanced settings count as none at all; a shop without anything that can
\* be placed is the usual shop; no coin is negative.
Intended(simple, adv) ==
  LET chosen(k, d) == IF k \notin DOMAIN simple.indices THEN Unset
                      ELSE resolve(d, simple.indices[k])
      read == adv # Unset /\ ~adv.cut
      shop == IF read THEN SelectSeq(adv.shop, LAMBDA e : e.row \in DOMAIN SlotOf /\ SlotOf[e.row] # Unset)
              ELSE <<>>
      rounds == IF read THEN Len(adv.rounds) ELSE 0
      maxRound == IF rounds > 0 THEN rounds ELSE chosen("roundNum", TABLES.roundNum)
  IN  [custom |-> TRUE, flags |-> simple.flags \cap {"noLoadout", "unlimitedAmmo"},
       rs |-> pack(simple).rs, rs2 |-> pack(simple).rs2,
       maxHP |-> chosen("playerHP", TABLES.playerHP),
       speedScale |-> percent(chosen("playerSpeed", TABLES.playerSpeed)),
       jumpScale |-> percent(chosen("playerJump", TABLES.playerJump)),
       maxRound |-> maxRound,
       roundsToWin |-> IF maxRound = Unset THEN Unset ELSE (maxRound + 1) \div 2,
       baseCoins |-> IF rounds > 0
                     THEN [i \in 1 .. rounds |-> Max({0, adv.rounds[i]})]
                     ELSE chosen("initCoin", TABLES.initCoin),
       shop |-> IF shop = <<>> THEN Unset
                ELSE [i \in 1 .. Len(shop) |->
                        [item_id |-> SHOP_BY_INDEX[shop[i].row].itemId,
                         slot_kind |-> SlotOf[shop[i].row], price |-> shop[i].price]],
       events |-> IF ~read \/ DOMAIN adv.events = {} THEN Unset
                  ELSE [n \in {ECO_STEP[e].name : e \in DOMAIN adv.events} |->
                          adv.events[CHOOSE e \in DOMAIN adv.events : ECO_STEP[e].name = n]]]
================================================================================
