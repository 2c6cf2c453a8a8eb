---------------------------------- MODULE MCProfiles ----------------------------------
EXTENDS Profiles
CONSTANTS a1, a2, a3, v1, v2, me, you
MCAvatars == {a1, a2, a3}
MCValues == {v1, v2}
MCMatches == {1, 2}
MCAward == [m \in MCMatches |-> m]
MCPeople == {me, you}
MCRoster == <<you, me>>
\* Looks; pass, shop and clan; sessions; moderation; registration; settlement.
MCScenarios ==
  {{"MajorLogin", "SelectProfile", "ChangeClothes"},
   {"MajorLogin", "SelectProfile", "GetProfiles", "GetBackpack"},
   {"MajorLogin", "EquipSkill", "GetProfiles", "GetBackpack"},
   {"MajorLogin", "EPClaimBadge", "EPPurchaseBadge", "ReadMail"},
   {"MajorLogin", "EPPurchase", "Purchase"},
   {"MajorLogin", "ChooseSlots", "GetProfiles"},
   {"MajorLogin", "CreateClan", "QuitClan", "DismissClan", "ModifyClanName", "ModifyClanInfo",
    "RemoveClanMember"},
   {"MajorLogin", "ChooseBanner", "ChooseHeadPic"},
   {"MajorLogin", "ChooseRegion", "ChooseLoadout"},
   {"MajorLogin", "ChooseEmote", "ChooseShow", "SetShowRank"},
   {"MajorLogin", "PlatformLogin", "Login", "Logout"},
   {"MajorLogin", "setNickname", "setRole"},
   {"MajorLogin", "Login", "EPPurchase", "ban"},
   {"MajorLogin", "Logout", "ban", "unban"},
   {"MajorLogin", "GetLoginData", "ReadMail", "ban"},
   {"MajorRegister", "MajorLogin", "Logout"},
   {"MajorRegister", "MajorLogin", "ban"},
   {"sqlite", "MajorRegister", "MajorLogin", "setRole"},
   {"sqlite", "MajorLogin", "Logout", "ban"},
   {"MajorLogin"} \cup FriendOps,
   {"sqlite", "MajorLogin"} \cup FriendOps,
   {"MajorLogin", "EPPurchase", "settle"}}
MCSettle == {{"MajorLogin", "EPPurchase", "settle"}}
================================================================================
