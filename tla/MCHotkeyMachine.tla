-------------------------- MODULE MCHotkeyMachine --------------------------
(* A keyboard with both Ctrl keys and one Alt, and every shape of trigger  *)
(* in both modes: the shipped lone right Ctrl, Ctrl+Alt+Space, and a chord *)
(* of one family, which either Ctrl key completes.                         *)
EXTENDS HotkeyMachine

MCModifierKeys == {"CtrlLeft", "CtrlRight", "AltLeft"}
MCFamilies == {"Ctrl", "Alt"}
MCFamilyOf == [CtrlLeft |-> "Ctrl", CtrlRight |-> "Ctrl", AltLeft |-> "Alt"]
MCMainKeys == {"Space", "KeyD"}

RightCtrl == [kind |-> "lone", modifier |-> "CtrlRight", requires |-> {}, key |-> "none"]
CtrlAltSpace ==
  [kind |-> "chord", modifier |-> "none", requires |-> {"Ctrl", "Alt"}, key |-> "Space"]
CtrlSpace ==
  [kind |-> "chord", modifier |-> "none", requires |-> {"Ctrl"}, key |-> "Space"]
MCConfigs == [mode: Modes, trigger: {RightCtrl, CtrlAltSpace, CtrlSpace}]

=============================================================================
