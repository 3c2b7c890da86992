-------------------------------- MODULE Card --------------------------------
(***************************************************************************)
(* The text on the card, where a dictation is handed over on the clipboard *)
(* (Delivery::Clipboard, which is Linux): the page that shows and edits it *)
(* (ui/panel.js), the commands it sends, the panel's own copy of the text, *)
(* which Enter in the hook sends (panel.rs), and the threads that put it   *)
(* on the clipboard and press the chord.                                   *)
(*                                                                         *)
(* One result is on the card from the start.  A text is the raw            *)
(* transcript, a cleaning of it, or what the keys made of it.  Commands    *)
(* are handled on the main loop in the order they are sent; events to the  *)
(* page and answers to its commands come in order each.                    *)
(***************************************************************************)
EXTENDS Naturals, SequencesExt

CONSTANTS
  Pasters,       \* bound: transfer threads alive at once
  Levels,        \* strictness pills
  MaxKeys,       \* bound: keystrokes in the text
  MaxCalls,      \* bound: commands, and hook keys, in all
  Disturbances   \* "haste", "trouble", "next"

Session == "session"  \* the thread the hook's actions reach, which copies itself
Threads == Pasters \union {Session}
Free    == "free"

Raw      == <<"raw", 0>>
Cleaned(level) == <<level, 0>>
First    == Cleaned("medium")  \* what the result comes with
Typed(n) == <<"typed", n>>
Theirs   == <<"theirs", 0>>    \* what was on the clipboard
NoText   == <<"none", 0>>

VARIABLES
  page,      \* mode, box, cleaned, raw (showingRaw), and the three timers
  calls,     \* commands on their way to the core
  answers,   \* cleanings on their way to the page
  feed,      \* events on their way to the page
  mode, edited,  \* Held
  work,      \* for each thread: its step, its text, whether it is to press the chord
  keyboard,  \* who has locked the virtual keyboard
  device,    \* it has been opened
  clipboard,
  typed, asked,    \* for the bounds
  auto,      \* settings.paste.auto; the countdown's setting
  let_go,    \* history: the user dropped the dictation, or spoke again
  chords     \* history: what the chords pasted

core    == <<mode, edited>>
threads == <<work, keyboard, device, clipboard, chords>>
vars    == <<page, calls, answers, feed, core, threads, typed, asked, auto, let_go>>

Rest == [pc |-> "idle", text |-> NoText, chord |-> FALSE]

Shown == page.mode \in {"result", "copied", "gone"}

(* body: what a transfer from the page sends. *)
Body == IF page.raw THEN page.cleaned ELSE page.box

(* Somebody who waits for the card to follow before doing the next thing. *)
Followed == calls = <<>> /\ answers = <<>> /\ \A t \in Threads : work[t].pc # "asked"

Unhurried == "haste" \in Disturbances \/ Followed

Send(what, text) == calls' = Append(calls, [what |-> what, text |-> text])

Asks == asked < MaxCalls /\ asked' = asked + 1

-----------------------------------------------------------------------------
(* The page.                                                               *)
OnPage == mode # "Closed" /\ Shown

(* The input listener: an edit stops the countdown and is sent later. *)
Type ==
  /\ OnPage /\ ~page.raw /\ typed < MaxKeys /\ Unhurried
  /\ typed' = typed + 1
  /\ page' = [page EXCEPT !.box = Typed(typed + 1), !.edit = TRUE, !.countdown = FALSE]
  /\ UNCHANGED <<calls, answers, feed, core, threads, asked, auto, let_go>>

(* EDIT_DELAY after the last key: what is sent is what the box shows then. *)
EditTimer ==
  /\ page.edit /\ page' = [page EXCEPT !.edit = FALSE]
  /\ Send("edited", page.box)
  /\ UNCHANGED <<answers, feed, core, threads, typed, asked, auto, let_go>>

(* Mutant: what is in the box is not kept when the raw text takes its place. *)
ToggleRawForgets ==
  /\ OnPage /\ Asks /\ Unhurried /\ ("haste" \in Disturbances \/ ~page.edit)
  /\ page' = [page EXCEPT !.raw = ~@, !.box = IF page.raw THEN page.cleaned ELSE Raw]
  /\ UNCHANGED <<calls, answers, feed, core, threads, typed, auto, let_go>>

(* toggleRaw *)
ToggleRaw ==
  /\ OnPage /\ Asks /\ Unhurried /\ ("haste" \in Disturbances \/ ~page.edit)
  /\ page' = [page EXCEPT !.raw = ~@,
                          !.cleaned = IF page.raw THEN @ ELSE page.box,
                          !.box = IF page.raw THEN page.cleaned ELSE Raw]
  /\ UNCHANGED <<calls, answers, feed, core, threads, typed, auto, let_go>>

(* reclean, and its answer. *)
ClickPill ==
  /\ OnPage /\ Asks /\ Unhurried /\ ("haste" \in Disturbances \/ ~page.edit)
  /\ \E level \in Levels : Send("reclean", Cleaned(level))
  /\ page' = [page EXCEPT !.countdown = FALSE]
  /\ UNCHANGED <<answers, feed, core, threads, typed, auto, let_go>>

Recleaned ==
  /\ answers # <<>> /\ answers' = Tail(answers)
  /\ page' = [page EXCEPT !.cleaned = Head(answers), !.countdown = auto.transfer,
                          !.box = IF page.raw THEN @ ELSE Head(answers)]
  /\ UNCHANGED <<calls, feed, core, threads, typed, asked, auto, let_go>>

(* doTransfer, by the button or the countdown; doCopy. *)
HandOver ==
  /\ \/ page.countdown /\ Send("transfer", Body) /\ UNCHANGED asked
     \/ OnPage /\ Unhurried /\ Asks /\ \E what \in {"transfer", "copy"} : Send(what, Body)
  /\ page' = [page EXCEPT !.countdown = FALSE]
  /\ UNCHANGED <<answers, feed, core, threads, typed, auto, let_go>>

ClickCancel ==
  /\ OnPage /\ Asks /\ Send("cancel", NoText)
  /\ UNCHANGED <<page, answers, feed, core, threads, typed, auto, let_go>>

CloseTimer ==
  /\ page.closing /\ page' = [page EXCEPT !.closing = FALSE]
  /\ Send("close", NoText)
  /\ UNCHANGED <<answers, feed, core, threads, typed, asked, auto, let_go>>

(* onPanel, onState: copied starts the closing timer, a failure stops it.  *)
PageHandles ==
  /\ feed # <<>> /\ feed' = Tail(feed)
  /\ page' = [page EXCEPT !.mode = Head(feed), !.countdown = FALSE,
                          !.closing = Head(feed) = "copied"]
  /\ UNCHANGED <<calls, answers, core, threads, typed, asked, auto, let_go>>

-----------------------------------------------------------------------------
(* The core: a command on the main loop, or a key by way of the session.   *)
Close ==
  /\ mode' = "Closed" /\ edited' = NoText
  /\ feed' = Append(feed, "closed")

Spawn(text) == \E t \in Pasters : /\ work[t].pc = "idle"
                                  /\ work' = [work EXCEPT ![t] = [pc |-> "asked", text |-> text, chord |-> auto.paste]]

CopyOn(t, text) == work' = [work EXCEPT ![t] = [pc |-> "asked", text |-> text, chord |-> FALSE]]

Handles(what) == calls # <<>> /\ Head(calls).what = what /\ calls' = Tail(calls)

(* edited: whatever the panel's mode is. *)
Edited ==
  /\ Handles("edited") /\ edited' = Head(calls).text
  /\ UNCHANGED <<page, answers, feed, mode, threads, typed, asked, auto, let_go>>

Reclean ==
  /\ Handles("reclean") /\ edited' = Head(calls).text /\ answers' = Append(answers, Head(calls).text)
  /\ UNCHANGED <<page, feed, mode, threads, typed, asked, auto, let_go>>

HandsOver ==
  /\ \/ Handles("transfer") /\ Spawn(Head(calls).text)
     \/ Handles("copy") /\ \E t \in Pasters : work[t].pc = "idle" /\ CopyOn(t, Head(calls).text)
  /\ UNCHANGED <<page, answers, feed, core, keyboard, device, clipboard, chords, typed, asked, auto, let_go>>

Closes ==
  /\ Handles("cancel") \/ Handles("close")
  /\ Close /\ let_go' = (let_go \/ Head(calls).what = "cancel")
  /\ UNCHANGED <<page, answers, threads, typed, asked, auto>>

(* Enter, Ctrl+C and Esc, which the hook takes while the card is up. *)
HookKey ==
  /\ mode # "Closed" /\ work[Session].pc = "idle" /\ Asks
  /\ \/ Spawn(NoText) /\ UNCHANGED <<core, feed, let_go>>
     \/ CopyOn(Session, NoText) /\ UNCHANGED <<core, feed, let_go>>
     \/ Close /\ let_go' = TRUE /\ UNCHANGED work
  /\ UNCHANGED <<page, calls, answers, keyboard, device, clipboard, chords, typed, auto>>

(* begin: the next recording takes the card, and the keyboard with it. *)
NextRecording ==
  /\ "next" \in Disturbances /\ mode # "Live" /\ work[Session].pc = "idle"
  /\ mode' = "Live" /\ edited' = NoText /\ let_go' = TRUE
  /\ feed' = Append(feed, "recording")
  /\ UNCHANGED <<page, calls, answers, threads, typed, asked, auto>>

-----------------------------------------------------------------------------
(* A thread that hands over: Panel::transfer or Panel::copy, hand_over and *)
(* press_paste.                                                            *)
Goto(t, pc) == work' = [work EXCEPT ![t].pc = pc]

Ends(t) == work' = [work EXCEPT ![t] = Rest]

Read(t) ==
  /\ work[t].pc = "asked"
  /\ IF mode # "Result" THEN Ends(t) /\ UNCHANGED edited
     ELSE /\ edited' = IF work[t].text = NoText THEN edited ELSE work[t].text
          /\ work' = [work EXCEPT ![t].pc = "write", ![t].text = edited']
  /\ UNCHANGED <<page, calls, answers, feed, mode, keyboard, device, clipboard, chords, typed, asked, auto, let_go>>

(* platform::linux: set_text returns when the selection has changed hands. *)
(* Without that receipt in time it is an error, and the text may still get *)
(* there.                                                                  *)
Taken(text)    == clipboard' = text
NotTaken(text) == "trouble" \in Disturbances /\ clipboard' \in {clipboard, text}

(* platform::uinput: the device is made once; writing to it may fail too.  *)
DeviceOpens == device' = TRUE
DeviceFails == "trouble" \in Disturbances /\ ~device /\ UNCHANGED device
ChordGoesOut == chords' = chords \union {clipboard}
ChordFails   == "trouble" \in Disturbances /\ UNCHANGED chords

(* Mutant: the card goes whether or not the copy was made. *)
WriteClosesAnyway(t) ==
  /\ work[t].pc = "write"
  /\ \/ /\ Taken(work[t].text) /\ Goto(t, IF work[t].chord THEN "lock" ELSE "tell")
        /\ UNCHANGED <<mode, edited, feed>>
     \/ NotTaken(work[t].text) /\ Ends(t) /\ Close
  /\ UNCHANGED <<page, calls, answers, keyboard, device, chords, typed, asked, auto, let_go>>

(* hand_over: the text on the clipboard, or a card that says it is not. *)
Write(t) ==
  /\ work[t].pc = "write"
  /\ \/ Taken(work[t].text) /\ Goto(t, IF work[t].chord THEN "lock" ELSE "tell") /\ UNCHANGED feed
     \/ NotTaken(work[t].text) /\ Ends(t) /\ feed' = Append(feed, "gone")
  /\ UNCHANGED <<page, calls, answers, core, keyboard, device, chords, typed, asked, auto, let_go>>

Tell(t) ==
  /\ work[t].pc = "tell" /\ Ends(t) /\ feed' = Append(feed, "copied")
  /\ UNCHANGED <<page, calls, answers, core, keyboard, device, clipboard, chords, typed, asked, auto, let_go>>

(* press_paste: the virtual keyboard first, because that is what fails. *)
Lock(t) ==
  /\ work[t].pc = "lock" /\ keyboard = Free
  /\ \/ DeviceOpens /\ keyboard' = t /\ Goto(t, "close")
     \/ DeviceFails /\ Goto(t, "tell") /\ UNCHANGED keyboard
  /\ UNCHANGED <<page, calls, answers, feed, core, clipboard, chords, typed, asked, auto, let_go>>

TakesDown(t) ==
  /\ work[t].pc = "close" /\ Close /\ Goto(t, "chord")
  /\ UNCHANGED <<page, calls, answers, keyboard, device, clipboard, chords, typed, asked, auto, let_go>>

(* After FOCUS_RETURN, at whatever holds the keyboard: the card, if it is up. *)
Press(t) ==
  /\ work[t].pc = "chord" /\ keyboard' = Free /\ Ends(t)
  /\ ChordGoesOut \/ ChordFails
  /\ UNCHANGED <<page, calls, answers, feed, core, device, clipboard, typed, asked, auto, let_go>>

Transfer(t) == Read(t) \/ Write(t) \/ Tell(t) \/ Lock(t) \/ TakesDown(t) \/ Press(t)

Init ==
  /\ auto \in [transfer : BOOLEAN, paste : BOOLEAN]
  /\ page = [mode |-> "result", box |-> First, cleaned |-> First, raw |-> FALSE,
             edit |-> FALSE, countdown |-> auto.transfer, closing |-> FALSE]
  /\ calls = <<>> /\ answers = <<>> /\ feed = <<>>
  /\ mode = "Result" /\ edited = First
  /\ work = [t \in Threads |-> Rest] /\ keyboard = Free /\ device = FALSE
  /\ clipboard = Theirs /\ typed = 0 /\ asked = 0 /\ let_go = FALSE /\ chords = {}

Page == \/ Type \/ EditTimer \/ ToggleRaw \/ ClickPill \/ Recleaned \/ HandOver \/ ClickCancel
        \/ CloseTimer \/ PageHandles

Core == Edited \/ Reclean \/ HandsOver \/ Closes \/ HookKey \/ NextRecording

Next == Page \/ Core \/ \E t \in Threads : Transfer(t)

Spec == Init /\ [][Next]_vars

-----------------------------------------------------------------------------
(* panel.js:332-333, panel.rs:196-200: once the page and the core have     *)
(* nothing for each other, what Enter sends is the answer on the card,     *)
(* edits included, whether the box shows it or the raw transcript.         *)
EnterSendsTheAnswer ==
  mode = "Result" /\ Followed /\ feed = <<>> /\ ~page.edit => edited = Body

(* panel.rs:577-579: a card that went without its user's word left the     *)
(* dictation on the clipboard.                                             *)
NothingIsLost == mode = "Closed" /\ ~let_go => clipboard # Theirs

(* panel.rs:631-645: the chord comes after the copy: what it pastes is a   *)
(* dictation, whatever has happened to the card in the meantime.           *)
ChordPastesTheCopy == Theirs \notin chords
=============================================================================
