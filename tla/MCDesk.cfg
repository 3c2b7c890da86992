CONSTANTS
  Triggers = {"RightCtrl", "Alt+D", "Ctrl+Space", "?"}
  DefaultTrigger = "RightCtrl"
  Readable = {"RightCtrl", "Alt+D", "Ctrl+Space"}
  Accepted = {"RightCtrl", "Alt+D"}
  Terms = {"dile"}
  MinCap = 1
  MaxCap = 2
  Caps = {1, 3}
  MinDelay = 2
  MaxDelay = 3
  DefaultDelay = 2
  Widest = 4
  Delays = {0, 4, 9}
  Languages = {"en", "tr"}
  DefaultLanguage = "en"
  Places = {"left"}
  OnDisk <- MCOnDisk
  Disturbances = {"crash", "failure"}
  MaxEdits = 3
  MaxFaults = 2
  Pasters = {"paste-1", "paste-2"}
  Pills = {"strict"}
  MaxKeys = 1
  MaxCalls = 2
  CardDisturbances = {"trouble", "next"}
  Callers = {"session", "page"}
  Monitors = {"left", "right"}
  Spots = {"low"}
  Systems = {"windows", "x11", "wayland"}
  MaxOpens = 3
  MaxMoves = 2
  Overlap = FALSE
  Transfers = {"t1", "t2"}
  Others = {"theirs"}
  ClipboardDisturbances = {"busy", "trouble", "exit", "snooping"}
SPECIFICATION DeskSpec
CHECK_DEADLOCK FALSE
INVARIANTS
  FileIsWhole
  AllAgreeWhenQuiet
  ShownIsInForce
  EnterSendsTheAnswer
  TextIsNotLost
  WindowIsKept
  ClipboardIsKept
  TranscriptIsKept
