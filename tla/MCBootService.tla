---------------------------- MODULE MCBootService ----------------------------
(* Instances of BootService for TLC: the three awaited modules and a fourth  *)
(* that has hooked symbols.                                                  *)
EXTENDS BootService

MCAwaited == <<"buckchg_class", "quickchg", "fg_comp">>
OneMore == {"buckchg_class", "quickchg", "fg_comp", "battery_shutdown"}
AllProfiles == {"armed", "inert", "incomplete", "unreadable", "broken"}
=============================================================================
