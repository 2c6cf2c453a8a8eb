--------------------------------- MODULE AccountDoc ---------------------------------
(***************************************************************************)
(* The account document (src/db/player.js) and what each HTTP handler of   *)
(* src/handlers does to it.  A handler gets the document the request's     *)
(* token resolved to and changes it in place; the router saves it when the *)
(* handler asked for that.  Here a handler is the set of documents it may  *)
(* leave to be saved, over the inputs a client can send; the empty set is  *)
(* a request that saves nothing.                                           *)
(*                                                                         *)
(* Kept are the fields a property speaks about or that several handlers    *)
(* touch; `opt' holds those that are only ever overwritten (banner, head   *)
(* picture, region, loadouts, emotes, shows, show_rank).  Item ids, names  *)
(* and colours are members of Values.  friends and requests are in use     *)
(* with SQLite only.                                                       *)
(***************************************************************************)
EXTENDS Integers, FiniteSets

CONSTANTS
  Avatars,        \* the characters of DEFAULT_PLAYER
  FirstAvatar,    \* the first of them, which it selects
  BlockedAvatar,  \* the one GetProfiles hides from the client
  BlockedSkill,   \* its id as a skill: whoever has it equipped is hidden as well
  Values,         \* outfits, skills, names, item ids
  FirstValue,
  Self,           \* the account
  StartCoins,
  MaxBadges,      \* bound: badge count
  NoToken

ASSUME DocAssumption ==
  /\ {FirstAvatar, BlockedAvatar} \subseteq Avatars /\ FirstAvatar # BlockedAvatar
  /\ {FirstValue, BlockedSkill} \subseteq Values /\ StartCoins \in Nat /\ MaxBadges \in Nat

OptFields == {"banner", "head_pic", "region", "loadouts", "emotes", "shows", "show_rank"}
NoClan == [id |-> 0, name |-> FirstValue, role |-> "none", members |-> {}]

\* The roster every account starts with, its outfits reduced to FirstValue.
DefaultProfiles ==
  [a \in Avatars |-> [clothes |-> FirstValue, skill |-> FirstValue,
                      is_selected |-> a = FirstAvatar]]
DefaultItems == [avatar |-> FirstAvatar, clothes |-> FirstValue, slot |-> FirstValue]

\* The document of a new account.
DEFAULT_PLAYER ==
  [token |-> NoToken, banned |-> FALSE, nickname |-> FirstValue, role |-> 1,
   coins |-> StartCoins, wallet |-> StartCoins, badges |-> 0, elite_pass |-> FALSE,
   profiles |-> DefaultProfiles, selected |-> DefaultItems,
   opt |-> [f \in OptFields |-> FirstValue],
   backpack |-> {}, read |-> FALSE, clan |-> NoClan, friends |-> {}, requests |-> {}]

selectedIn(d) == {a \in Avatars : d.profiles[a].is_selected}
\* The first of S in the roster's order, which is left open behind FirstAvatar.
FirstOf(S) == IF FirstAvatar \in S THEN {FirstAvatar} ELSE S
\* The selected profile, or the first.
selectedProfile(d) == IF selectedIn(d) # {} THEN FirstOf(selectedIn(d)) ELSE {FirstAvatar}

\* Mutant: the outfit in selected_items is left as it was.
syncAvatarOnly(d, a) == [d EXCEPT !.selected.avatar = a]

\* selected_items follows a profile: avatar, colour and clothes.
syncLook(d, a) ==
  [d EXCEPT !.selected.avatar = a, !.selected.clothes = d.profiles[a].clothes]

\* syncSelectedItemsFromProfile also writes the profile's skill into the slots.
syncSelectedItemsFromProfile(d, a) == [syncLook(d, a) EXCEPT !.selected.slot = d.profiles[a].skill]

--------------------------------------------------------------------------------
(* Looks *)

Overwrite(d, f) == {[d EXCEPT !.opt[f] = v] : v \in Values}
ChooseBanner(d) == Overwrite(d, "banner")
ChooseHeadPic(d) == Overwrite(d, "head_pic")
ChooseRegion(d) == Overwrite(d, "region")
ChooseLoadout(d) == Overwrite(d, "loadouts")
ChooseEmote(d) == Overwrite(d, "emotes")
ChooseShow(d) == Overwrite(d, "shows")
SetShowRank(d) == Overwrite(d, "show_rank")
ChooseSlots(d) == {[d EXCEPT !.selected.slot = v] : v \in Values}

\* Any character of the roster, whether GetProfiles shows it or not.
SelectProfile(d) ==
  {syncSelectedItemsFromProfile(
     [d EXCEPT !.profiles = [x \in Avatars |-> [@[x] EXCEPT !.is_selected = (x = a)]]], a) :
     a \in Avatars}

changeOutfit(d, a, v) ==
  LET e == [d EXCEPT !.profiles[a].clothes = v]
  IN  IF e.profiles[a].is_selected THEN syncLook(e, a) ELSE e
ChangeClothes(d) == {changeOutfit(d, a, v) : a \in Avatars, v \in Values}

EquipSkill(d) == {[d EXCEPT !.profiles[a].skill = v] : a \in Avatars, v \in Values}

Shown(d) == {a \in Avatars \ {BlockedAvatar} : d.profiles[a].skill # BlockedSkill}

\* When no shown profile is selected the first of them is flagged; a hidden one that is
\* selected keeps its flag.
GetProfiles(d) ==
  IF selectedIn(d) \cap Shown(d) # {} THEN {}
  ELSE {[d EXCEPT !.profiles[a].is_selected = TRUE] : a \in FirstOf(Shown(d))}

GetBackpack(d) == {syncLook(d, a) : a \in selectedProfile(d)}

--------------------------------------------------------------------------------
(* Pass, shop, mail *)

\* The handlers add 10 and 9999; one unit each keeps the counts small.
EPClaimBadge(d) == IF d.badges < MaxBadges THEN {[d EXCEPT !.badges = @ + 1]} ELSE {}
EPPurchaseBadge(d) == IF d.badges < MaxBadges THEN {[d EXCEPT !.badges = @ + 1]} ELSE {}
EPPurchase(d) == {[d EXCEPT !.elite_pass = TRUE]}
Purchase(d) == {[d EXCEPT !.backpack = @ \cup {v}] : v \in Values}
ReadMail(d) == {[d EXCEPT !.read = TRUE]}

--------------------------------------------------------------------------------
(* Clans live in the member's own document only. *)

CreateClan(d) ==
  {[d EXCEPT !.clan = [id |-> 1, name |-> v, role |-> "captain", members |-> {Self}]]
     : v \in Values}
QuitClan(d) == {[d EXCEPT !.clan = NoClan]}
DismissClan(d) == IF d.clan.id # 0 THEN {[d EXCEPT !.clan = NoClan]} ELSE {}
ModifyClanName(d) == IF d.clan.id # 0 THEN {[d EXCEPT !.clan.name = v] : v \in Values} ELSE {}
\* Announcement and slogan are left out, the save is not: a request that names the clan the
\* document names (also clan 0) writes the whole document back.
ModifyClanInfo(d) == {d}
RemoveClanMember(d) == {[d EXCEPT !.clan.members = @ \ {m}] : m \in d.clan.members}

--------------------------------------------------------------------------------
(* Sessions and moderation *)

Logout(d) == {[d EXCEPT !.token = NoToken]}
setNickname(d) == {[d EXCEPT !.nickname = v] : v \in Values}
setRole(d) == {[d EXCEPT !.role = r] : r \in {0, 100}}
banDoc(d) == {[d EXCEPT !.banned = TRUE]}
unbanDoc(d) == IF d.banned THEN {[d EXCEPT !.banned = FALSE]} ELSE {}

\* The requests of an authenticated client, by endpoint.
Requests ==
  {"ChooseBanner", "ChooseHeadPic", "ChooseRegion", "ChooseLoadout", "ChooseEmote", "ChooseShow",
   "SetShowRank", "ChooseSlots", "SelectProfile", "ChangeClothes", "EquipSkill", "GetProfiles",
   "GetBackpack", "EPClaimBadge", "EPPurchaseBadge", "EPPurchase", "Purchase", "ReadMail",
   "CreateClan", "QuitClan", "DismissClan", "ModifyClanName", "ModifyClanInfo",
   "RemoveClanMember", "Logout"}

handler(k, d) ==
  CASE k = "ChooseBanner" -> ChooseBanner(d)     [] k = "ChooseHeadPic" -> ChooseHeadPic(d)
    [] k = "ChooseRegion" -> ChooseRegion(d)     [] k = "ChooseLoadout" -> ChooseLoadout(d)
    [] k = "ChooseEmote" -> ChooseEmote(d)       [] k = "ChooseShow" -> ChooseShow(d)
    [] k = "SetShowRank" -> SetShowRank(d)       [] k = "ChooseSlots" -> ChooseSlots(d)
    [] k = "SelectProfile" -> SelectProfile(d)   [] k = "ChangeClothes" -> ChangeClothes(d)
    [] k = "EquipSkill" -> EquipSkill(d)         [] k = "GetProfiles" -> GetProfiles(d)
    [] k = "GetBackpack" -> GetBackpack(d)       [] k = "EPClaimBadge" -> EPClaimBadge(d)
    [] k = "EPPurchaseBadge" -> EPPurchaseBadge(d) [] k = "EPPurchase" -> EPPurchase(d)
    [] k = "Purchase" -> Purchase(d)             [] k = "ReadMail" -> ReadMail(d)
    [] k = "CreateClan" -> CreateClan(d)         [] k = "QuitClan" -> QuitClan(d)
    [] k = "DismissClan" -> DismissClan(d)       [] k = "ModifyClanName" -> ModifyClanName(d)
    [] k = "ModifyClanInfo" -> ModifyClanInfo(d) [] k = "RemoveClanMember" -> RemoveClanMember(d)
    [] k = "Logout" -> Logout(d)
================================================================================
