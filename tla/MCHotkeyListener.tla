-------------------------- MODULE MCHotkeyListener --------------------------
(* Right Ctrl, Space, C and a key without a name; the shipped lone key,    *)
(* Ctrl+Space in toggle mode, and the nameless key as a chord of its own.  *)
(* C is plain without Ctrl and the panel's copy key with it.               *)
EXTENDS HotkeyListener

MCModifierKeys == {"CtrlRight"}
MCFamilies == {"Ctrl"}
MCFamilyOf == [CtrlRight |-> "Ctrl"]
MCMainKeys == {"Space", "Nameless"}
MCPanelKeys == {[families |-> {"Ctrl"}, key |-> "C", action |-> "PanelCopy"]}
MCConfigs ==
  {[mode |-> "Hold", trigger |-> [kind |-> "lone", modifier |-> "CtrlRight",
                                  requires |-> {}, key |-> "none"]],
   [mode |-> "Toggle", trigger |-> [kind |-> "chord", modifier |-> "none",
                                    requires |-> {"Ctrl"}, key |-> "Space"]],
   [mode |-> "Hold", trigger |-> [kind |-> "chord", modifier |-> "none",
                                  requires |-> {}, key |-> "Nameless"]]}

=============================================================================
