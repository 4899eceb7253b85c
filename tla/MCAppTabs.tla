----------------------------- MODULE MCAppTabs -----------------------------
(***************************************************************************)
(* The instance of AppTabs that TLC checks.                                *)
(***************************************************************************)
EXTENDS AppTabs

(* "x" is no address; "1" is a VLAN, "y" is not. *)
AllSources   == {"", "x", "a", "b"}
AllAddresses == {"a", "b"}
AllVlanTexts == {"", "y", "1"}
AllVlanIds   == {"1"}

(* Two backends that compete, the second with two devices, and one that no *)
(* choice names; on Linux DX12 is not offered.                             *)
AllAdapters == {[backend |-> "vulkan", device |-> "cpu"],
                [backend |-> "opengl", device |-> "integrated"],
                [backend |-> "opengl", device |-> "discrete"],
                [backend |-> "metal", device |-> "discrete"]}
AllSelectable == {"auto", "vulkan", "opengl"}
=============================================================================
