----------------------------- MODULE Dictation -----------------------------
(***************************************************************************)
(* One dictation from the key to the window it is typed into: the session  *)
(* thread (session.rs), the review panel it and the engine thread write to *)
(* (panel.rs), the page that draws the panel (ui/panel.js), and the paste  *)
(* threads (panel.rs, paste.rs), all of dile-app.                          *)
(*                                                                         *)
(* They run concurrently.  The session takes what the hotkey emitted from  *)
(* a channel; the engine takes recordings from a slot one deep; the panel  *)
(* tells the page through a feed of events it applies later; a transfer    *)
(* runs on a thread of its own, in three steps.  A panel method other than *)
(* a transfer is one step here.                                            *)
(*                                                                         *)
(* A dictation is its number, and so is its text: 1 is spoken first.       *)
(***************************************************************************)
EXTENDS Naturals, Sequences, FiniteSets

CONSTANTS
  Windows,       \* the windows a dictation can be aimed at
  NoWindow,      \* nothing has the focus
  Threads,       \* bound: paste threads alive at once
  MaxDictations, \* bound: recordings begun
  ActionBound,   \* bound: hotkey actions waiting for the session
  FeedBound,     \* bound: events waiting for the page
  AutoTransfer,  \* the setting: a result is transferred by itself
  Disturbances   \* what may happen around the application

Dictations == 1..MaxDictations
None == 0
Texts == Dictations \union {None}

AllDisturbances ==
  {"hands",       \* somebody acts on the card, by its keys or its buttons
   "impatience",  \* a recording begun before the last dictation settled
   "microphone",  \* the device fails or is not there
   "settings",    \* the hotkey or the microphone is changed in use
   "engine",      \* the engine refuses, dies, or is not loaded
   "desktop"}     \* windows close, and the focus or clipboard is refused

ASSUME DictationAssumption ==
  /\ {MaxDictations, ActionBound, FeedBound} \subseteq Nat
  /\ NoWindow \notin Windows
  /\ AutoTransfer \in BOOLEAN
  /\ Disturbances \subseteq AllDisturbances

PanelActions == {"PanelTransfer", "PanelCancel", "PanelCopy"}
Action == {"StartRecording", "StopRecording", "DiscardRecording", "OpenPanelIdle"}
            \union PanelActions

(* What the page is told: the modes of EVENT_PANEL, the states of          *)
(* EVENT_STATE that mean something to it, and EVENT_RESULT.                *)
Events ==
  [kind: {"recording", "working", "nothing-heard", "no-microphone", "idle", "closed", "gone"},
   text: {None}]
  \union [kind: {"result"}, text: Dictations]

PageModes == {"closed", "recording", "working", "stalled", "idle", "result", "gone"}

VARIABLES
  live,       \* the hotkey: a recording is in progress
  actions,    \* the hotkey's channel to the session
  focus,      \* the foreground window
  open,       \* the windows that exist
  recording,  \* the session: audio is being captured
  capture,    \* the session: the microphone is open
  in_flight,  \* the capture thread: the recording being made
  spoken,     \* how many recordings have begun
  job,        \* the engine's one-slot queue
  busy,       \* the recording being transcribed
  loaded,     \* whether there is an engine to transcribe with
  mode,       \* the panel: Closed, Idle, Live or Result
  target,     \* the panel: the window it is aimed at
  dictation,  \* the panel: the result it holds
  edited,     \* the panel: the text a transfer would send
  armed,      \* whether the hook gives the panel its three keys
  feed,       \* events emitted to the page and not yet handled
  renders,    \* events handled whose refresh has not answered
  page,       \* what the page shows
  page_text,  \* the text in the page
  timer,      \* the page's countdown or its closing timer
  paste,      \* the paste threads
  aimed,      \* history: the window in front when each was begun
  landed,     \* history: the windows each was pasted into
  discarded   \* history: thrown away while being recorded

hotkey  == <<live, actions>>
desktop == <<focus, open>>
session == <<recording, capture, in_flight, spoken>>
engine  == <<job, busy, loaded>>
panel   == <<mode, target, dictation, edited, armed>>
webview == <<renders, page, page_text, timer>>
history == <<aimed, landed, discarded>>
vars    == <<hotkey, desktop, session, engine, panel, feed, webview, paste, history>>

TypeOK ==
  /\ live \in BOOLEAN
  /\ actions \in Seq(Action) /\ Len(actions) <= ActionBound
  /\ focus \in open \union {NoWindow}
  /\ open \subseteq Windows
  /\ recording \in BOOLEAN /\ capture \in BOOLEAN /\ loaded \in BOOLEAN
  /\ in_flight \in Texts /\ spoken \in 0..MaxDictations
  /\ job \in Texts /\ busy \in Texts
  /\ mode \in {"Closed", "Idle", "Live", "Result"}
  /\ target \in Windows \union {NoWindow}
  /\ dictation \in Texts /\ edited \in Texts
  /\ armed \in BOOLEAN
  /\ feed \in Seq(Events) /\ Len(feed) <= FeedBound
  /\ renders \subseteq Events
  /\ page \in PageModes /\ page_text \in Texts
  /\ timer \in {"none", "countdown", "close"}
  /\ paste \in [Threads -> [pc: {"idle", "asked", "aimed", "closed", "gone"},
                            body: Texts, target: Windows \union {NoWindow}]]
  /\ aimed \in [Dictations -> Windows \union {NoWindow}]
  /\ landed \in [Dictations -> Seq(Windows)]
  /\ discarded \subseteq Dictations

Idle == [pc |-> "idle", body |-> None, target |-> NoWindow]

Init ==
  /\ live = FALSE /\ actions = <<>>
  /\ open = Windows /\ focus \in Windows
  /\ recording = FALSE /\ in_flight = None /\ spoken = 0
  /\ capture \in {TRUE} \union IF "microphone" \in Disturbances THEN {FALSE} ELSE {}
  /\ job = None /\ busy = None
  /\ loaded \in {TRUE} \union IF "engine" \in Disturbances THEN {FALSE} ELSE {}
  /\ mode = "Closed" /\ target = NoWindow /\ dictation = None /\ edited = None
  /\ armed = FALSE
  /\ feed = <<>> /\ renders = {} /\ page = "closed" /\ page_text = None /\ timer = "none"
  /\ paste = [t \in Threads |-> Idle]
  /\ aimed = [d \in Dictations |-> NoWindow]
  /\ landed = [d \in Dictations |-> <<>>]
  /\ discarded = {}

-----------------------------------------------------------------------------
(* The panel's methods.  Each leaves one event for the page. *)
Tell(kind, text) ==
  /\ Len(feed) < FeedBound
  /\ feed' = Append(feed, [kind |-> kind, text |-> text])

(* show: a card that is up already is left as it is, its keys included. *)
Show == armed' = (armed \/ mode = "Closed")

PanelBegin ==
  /\ mode' = "Live" /\ target' = focus
  /\ dictation' = None /\ edited' = None
  /\ Show
  /\ Tell("recording", None)

PanelOpenIdle ==
  /\ mode' = "Idle"
  /\ Show
  /\ Tell("idle", None)
  /\ UNCHANGED <<target, dictation, edited>>

(* Mutant: the window is captured when the result is there. *)
PanelShowResultHere(d) ==
  /\ mode' = "Result" /\ dictation' = d /\ edited' = d
  /\ target' = focus
  /\ Show
  /\ Tell("result", d)

PanelShowResult(d) ==
  /\ mode' = "Result" /\ dictation' = d /\ edited' = d
  /\ Show
  /\ Tell("result", d)
  /\ UNCHANGED target

PanelClose ==
  /\ mode' = "Closed" /\ dictation' = None /\ edited' = None
  /\ armed' = FALSE
  /\ Tell("closed", None)
  /\ UNCHANGED target

PanelCancel == PanelClose

-----------------------------------------------------------------------------
(* The hotkey, as the session sees it: what one key event emits.           *)
Emit(as) ==
  /\ Len(actions) + Len(as) <= ActionBound
  /\ actions' = actions \o as

Waiting(a) == Len(SelectSeq(actions, LAMBDA b : b = a))

Settled ==
  /\ mode = "Closed" /\ job = None /\ busy = None /\ actions = <<>>
  /\ feed = <<>> /\ renders = {} /\ page = "closed"
  /\ \A t \in Threads : paste[t] = Idle

PressTrigger ==
  /\ ~live
  /\ spoken + Waiting("StartRecording") < MaxDictations
  /\ "impatience" \in Disturbances \/ Settled
  /\ live' = TRUE
  /\ Emit(<<"StartRecording">>)
  /\ UNCHANGED <<desktop, session, engine, panel, feed, webview, paste, history>>

EndPress ==
  /\ live
  /\ live' = FALSE
  /\ \/ Emit(<<"StopRecording">>)
     \/ Emit(<<"DiscardRecording">>)
     \/ Emit(<<"DiscardRecording", "OpenPanelIdle">>)
  /\ UNCHANGED <<desktop, session, engine, panel, feed, webview, paste, history>>

(* Under a lone-key trigger the panel's key withdraws the press as well. *)
PressPanelKey ==
  /\ "hands" \in Disturbances
  /\ armed
  /\ \E a \in PanelActions :
       \/ Emit(<<a>>) /\ UNCHANGED live
       \/ live /\ live' = FALSE /\ Emit(<<"DiscardRecording", a>>)
  /\ UNCHANGED <<desktop, session, engine, panel, feed, webview, paste, history>>

-----------------------------------------------------------------------------
(* The desktop. *)
MoveFocus ==
  /\ \E w \in open : focus' = w /\ w # focus
  /\ UNCHANGED <<open, hotkey, session, engine, panel, feed, webview, paste, history>>

CloseWindow ==
  /\ "desktop" \in Disturbances
  /\ \E w \in open :
       /\ open' = open \ {w}
       /\ focus' \in IF focus = w THEN open' \union {NoWindow} ELSE {focus}
  /\ UNCHANGED <<hotkey, session, engine, panel, feed, webview, paste, history>>

-----------------------------------------------------------------------------
(* The session thread: one action of the channel at a time. *)
Take(a) ==
  /\ actions # <<>>
  /\ Head(actions) = a
  /\ actions' = Tail(actions)
  /\ UNCHANGED live

CaptureLost == capture' = FALSE /\ in_flight' = None

(* Mutant: the capture is not told. *)
ThrowAwayTheCardOnly ==
  /\ UNCHANGED <<capture, in_flight>>
  /\ discarded' = discarded \union ({in_flight} \ {None})

(* What is being recorded is thrown away; a device that fails at it is     *)
(* closed, and takes the recording with it all the same.                   *)
ThrowAway ==
  /\ \/ UNCHANGED capture
     \/ "microphone" \in Disturbances /\ capture' = FALSE
  /\ in_flight' = None
  /\ discarded' = discarded \union ({in_flight} \ {None})

StartRecording ==
  /\ Take("StartRecording")
  /\ \/ /\ spoken < MaxDictations \* PressTrigger has seen to it
        /\ recording' = TRUE /\ capture' = TRUE
        /\ spoken' = spoken + 1 /\ in_flight' = spoken + 1
        /\ PanelBegin
        /\ aimed' = [aimed EXCEPT ![spoken + 1] = focus]
     \/ /\ "microphone" \in Disturbances
        /\ CaptureLost
        /\ Tell("no-microphone", None)
        /\ UNCHANGED <<recording, spoken, panel, aimed>>
  /\ UNCHANGED <<desktop, engine, webview, paste, landed, discarded>>

(* finish: what has speech in it is handed to the engine, whose slot takes *)
(* the newest; what has none is dropped.                                   *)
Finish ==
  /\ in_flight' = None
  /\ \/ job' = in_flight /\ Tell("working", None)
     \/ job' = job /\ Tell("nothing-heard", None)
  /\ UNCHANGED <<capture, panel>>

(* What becomes of the recording once it has been stopped: nothing, where  *)
(* there is no device; a card that closes over nothing recorded; a         *)
(* recording to finish; or a device that fails to hand it over.            *)
TakeRecording ==
  \/ /\ ~capture
     /\ UNCHANGED <<capture, in_flight, job, panel, feed>>
  \/ /\ capture
     /\ in_flight = None \/ "microphone" \in Disturbances
     /\ in_flight' = None
     /\ PanelClose
     /\ UNCHANGED <<capture, job>>
  \/ capture /\ in_flight # None /\ Finish
  \/ /\ capture /\ "microphone" \in Disturbances
     /\ CaptureLost
     /\ Tell("no-microphone", None)
     /\ UNCHANGED <<job, panel>>

(* Mutant: a stopped recording is still believed to be running. *)
StopKeepsTheFlag ==
  /\ Take("StopRecording")
  /\ TakeRecording
  /\ UNCHANGED <<recording, desktop, spoken, busy, loaded, webview, paste, history>>

StopRecording ==
  /\ Take("StopRecording")
  /\ recording' = FALSE
  /\ TakeRecording
  /\ UNCHANGED <<desktop, spoken, busy, loaded, webview, paste, history>>

DiscardRecording ==
  /\ Take("DiscardRecording")
  /\ recording' = FALSE
  /\ ThrowAway
  /\ PanelClose
  /\ UNCHANGED <<desktop, spoken, engine, webview, paste, aimed, landed>>

OpenPanelIdle ==
  /\ Take("OpenPanelIdle")
  /\ PanelOpenIdle
  /\ UNCHANGED <<desktop, session, engine, webview, paste, history>>

(* Esc: while a recording runs it is the recording that is thrown away. *)
CancelFromKeyboard ==
  /\ Take("PanelCancel")
  /\ \/ recording /\ recording' = FALSE /\ ThrowAway
     \/ ~recording /\ UNCHANGED <<recording, capture, in_flight, discarded>>
  /\ PanelCancel
  /\ UNCHANGED <<desktop, spoken, engine, webview, paste, aimed, landed>>

(* A transfer asked for: by Enter with no text, by the page with its own.  *)
Spawn(text) ==
  \E t \in Threads :
    /\ paste[t] = Idle
    /\ paste' = [paste EXCEPT ![t] = [Idle EXCEPT !.pc = "asked", !.body = text]]

TransferFromKeyboard ==
  /\ Take("PanelTransfer")
  /\ Spawn(None)
  /\ UNCHANGED <<desktop, session, engine, panel, feed, webview, history>>

(* Copy puts the text on the clipboard and takes the card down. *)
CopyFromKeyboard ==
  /\ Take("PanelCopy")
  /\ \/ mode = "Result" /\ PanelClose
     \/ mode # "Result" /\ UNCHANGED <<panel, feed>>
  /\ UNCHANGED <<desktop, session, engine, webview, paste, history>>

(* reapply: a new hook starts idle and unarmed, and what the old one had   *)
(* emitted goes with it; a new microphone loses what the old one heard.    *)
Reapply ==
  /\ "settings" \in Disturbances
  /\ \/ /\ live' = FALSE /\ actions' = <<>> /\ armed' = FALSE
        /\ UNCHANGED <<capture, in_flight, feed>>
     \/ /\ in_flight' = None
        /\ \/ capture' = TRUE /\ UNCHANGED feed
           \/ "microphone" \in Disturbances /\ capture' = FALSE /\ Tell("no-microphone", None)
        /\ UNCHANGED <<hotkey, armed>>
  /\ UNCHANGED <<desktop, recording, spoken, engine, mode, target, dictation, edited,
                 webview, paste, history>>

Session ==
  \/ StartRecording \/ StopRecording \/ DiscardRecording \/ OpenPanelIdle
  \/ CancelFromKeyboard \/ TransferFromKeyboard \/ CopyFromKeyboard

-----------------------------------------------------------------------------
(* Mutant: with no engine the recording goes and the card does not. *)
EngineTakeLeavesTheCard ==
  /\ job # None /\ busy = None
  /\ job' = None
  /\ \/ loaded /\ busy' = job /\ Tell("working", None)
     \/ ~loaded /\ busy' = None /\ UNCHANGED feed
  /\ UNCHANGED <<loaded, hotkey, desktop, session, panel, webview, paste, history>>

(* The engine thread: a recording with no engine behind it is let go. *)
EngineTake ==
  /\ job # None /\ busy = None
  /\ job' = None
  /\ \/ loaded /\ busy' = job /\ Tell("working", None) /\ UNCHANGED panel
     \/ ~loaded /\ busy' = None /\ PanelClose
  /\ UNCHANGED <<loaded, hotkey, desktop, session, webview, paste, history>>

(* The answer is a text, an empty one, a refusal or a lost engine. *)
EngineAnswer ==
  /\ busy # None
  /\ busy' = None
  /\ \/ PanelShowResult(busy)
     \/ PanelClose
  /\ UNCHANGED <<job, loaded, hotkey, desktop, session, webview, paste, history>>

EngineComesAndGoes ==
  /\ "engine" \in Disturbances
  /\ busy = None
  /\ loaded' = ~loaded
  /\ UNCHANGED <<job, busy, hotkey, desktop, session, panel, feed, webview, paste, history>>

-----------------------------------------------------------------------------
(* A paste thread: Panel::transfer, in the steps its locks leave.          *)
(* Mutant: a panel that holds no result is transferred from all the same.  *)
TransferAimUnguarded(t) ==
  /\ paste[t].pc = "asked"
  /\ edited' = IF paste[t].body = None THEN edited ELSE paste[t].body
  /\ paste' = [paste EXCEPT ![t] =
       IF edited' = None THEN Idle ELSE [pc |-> "aimed", body |-> edited', target |-> target]]
  /\ UNCHANGED <<hotkey, desktop, session, engine, mode, target, dictation, armed,
                 feed, webview, history>>

(* First what is in the panel is read, under the lock...                   *)
TransferAim(t) ==
  /\ paste[t].pc = "asked"
  /\ \/ /\ mode # "Result"
        /\ paste' = [paste EXCEPT ![t] = Idle]
        /\ UNCHANGED edited
     \/ /\ mode = "Result"
        /\ edited' = IF paste[t].body = None THEN edited ELSE paste[t].body
        /\ paste' = [paste EXCEPT ![t] = [pc |-> "aimed", body |-> edited', target |-> target]]
  /\ UNCHANGED <<hotkey, desktop, session, engine, mode, target, dictation, armed,
                 feed, webview, history>>

(* ...then the card is taken down, unless the window has gone...           *)
TransferClose(t) ==
  /\ paste[t].pc = "aimed"
  /\ \/ /\ paste[t].target \in open
        /\ PanelClose
        /\ paste' = [paste EXCEPT ![t].pc = "closed"]
     \/ /\ paste[t].target \notin open
        /\ Tell("gone", None)
        /\ paste' = [paste EXCEPT ![t].pc = "gone"]
        /\ UNCHANGED panel
  /\ UNCHANGED <<hotkey, desktop, session, engine, webview, history>>

(* ...and then the window is brought forward and the text pasted.          *)
TransferPaste(t) ==
  /\ paste[t].pc = "closed"
  /\ \/ /\ paste[t].target \in open
        /\ focus' = paste[t].target
        /\ landed' = [landed EXCEPT ![paste[t].body] = Append(@, paste[t].target)]
        /\ paste' = [paste EXCEPT ![t] = Idle]
        /\ UNCHANGED feed
     \/ /\ "desktop" \in Disturbances \* gone, or it will not come forward
        /\ Tell("gone", None)
        /\ paste' = [paste EXCEPT ![t].pc = "gone"]
        /\ UNCHANGED <<focus, landed>>
     \/ /\ "desktop" \in Disturbances \* the clipboard refuses
        /\ paste' = [paste EXCEPT ![t] = Idle]
        /\ UNCHANGED <<focus, landed, feed>>
  /\ UNCHANGED <<open, hotkey, session, engine, panel, webview, aimed, discarded>>

(* Having said that the window is gone, the thread ends. *)
TransferEnd(t) ==
  /\ paste[t].pc = "gone"
  /\ paste' = [paste EXCEPT ![t] = Idle]
  /\ UNCHANGED <<hotkey, desktop, session, engine, panel, feed, webview, history>>

-----------------------------------------------------------------------------
(* The page: it handles one event at a time, and draws a result or the     *)
(* hint only when a refresh it then asks for has answered.                 *)
Draw(shows, runs) ==
  /\ page' = shows
  /\ timer' = runs
  /\ UNCHANGED <<renders, page_text>>

NotListening == {"closed", "result", "gone"}

PageHandle ==
  /\ feed # <<>>
  /\ feed' = Tail(feed)
  /\ LET e == Head(feed) IN
       \/ e.kind = "recording" /\ Draw("recording", "none")
       \/ e.kind = "closed" /\ Draw("closed", "none")
       \/ e.kind = "gone" /\ Draw("gone", "none")
       \/ /\ e.kind \in {"working", "nothing-heard", "no-microphone"}
          /\ page \in NotListening
          /\ UNCHANGED webview
       \/ e.kind = "working" /\ page \notin NotListening /\ Draw("working", "none")
       \/ e.kind = "nothing-heard" /\ page \notin NotListening /\ Draw("stalled", "close")
       \/ e.kind = "no-microphone" /\ page \notin NotListening /\ Draw("stalled", "none")
       \/ /\ e.kind \in {"idle", "result"}
          /\ renders' = renders \union {e}
          /\ UNCHANGED <<page, page_text, timer>>
  /\ UNCHANGED <<hotkey, desktop, session, engine, panel, paste, history>>

(* Mutant: drawing a result does not start its countdown. *)
PageRenderOnly ==
  /\ \E e \in renders :
       /\ renders' = renders \ {e}
       /\ page' = IF e.kind = "result" THEN "result" ELSE "idle"
       /\ page_text' = IF e.kind = "result" THEN e.text ELSE page_text
       /\ timer' = IF e.kind = "result" THEN "none" ELSE "close"
  /\ UNCHANGED <<hotkey, desktop, session, engine, panel, feed, paste, history>>

PageRender ==
  /\ \E e \in renders :
       /\ renders' = renders \ {e}
       /\ \/ /\ e.kind = "result"
             /\ page' = "result" /\ page_text' = e.text
             /\ timer' = IF AutoTransfer THEN "countdown" ELSE "none"
          \/ /\ e.kind = "idle"
             /\ page' = "idle" /\ timer' = "close"
             /\ UNCHANGED page_text
  /\ UNCHANGED <<hotkey, desktop, session, engine, panel, feed, paste, history>>

(* Mutant: a countdown that has ended runs again. *)
CountdownRunsOn ==
  /\ timer = "countdown"
  /\ Spawn(page_text)
  /\ UNCHANGED <<timer, renders, page, page_text, hotkey, desktop, session, engine, panel, feed,
                 history>>

CountdownEnds ==
  /\ timer = "countdown"
  /\ timer' = "none"
  /\ Spawn(page_text)
  /\ UNCHANGED <<renders, page, page_text, hotkey, desktop, session, engine, panel, feed, history>>

CloseTimerEnds ==
  /\ timer = "close"
  /\ timer' = "none"
  /\ PanelClose
  /\ UNCHANGED <<renders, page, page_text, hotkey, desktop, session, engine, paste, history>>

(* The page can be clicked while its window is up. *)
OnScreen(shows) ==
  /\ "hands" \in Disturbances
  /\ mode # "Closed"
  /\ page \in shows

(* The pointer at rest on the text, and an edit, stop the countdown. *)
StopCountdown ==
  /\ OnScreen({"result"})
  /\ timer = "countdown"
  /\ timer' = "none"
  /\ UNCHANGED <<renders, page, page_text, hotkey, desktop, session, engine, panel, feed,
                 paste, history>>

ClickTransfer ==
  /\ OnScreen({"result", "gone"})
  /\ Spawn(page_text)
  /\ timer' = "none"
  /\ UNCHANGED <<renders, page, page_text, hotkey, desktop, session, engine, panel, feed, history>>

ClickCopy ==
  /\ OnScreen({"result", "gone"})
  /\ timer' = "none"
  /\ \/ mode = "Result" /\ PanelClose
     \/ mode # "Result" /\ UNCHANGED <<panel, feed>>
  /\ UNCHANGED <<renders, page, page_text, hotkey, desktop, session, engine, paste, history>>

(* The same button while recording, while working and on a result. *)
ClickCancel ==
  /\ OnScreen({"recording", "working", "result", "gone"})
  /\ PanelCancel
  /\ UNCHANGED <<hotkey, desktop, session, engine, webview, paste, aimed, landed, discarded>>

(* Re-record starts a latched recording, if the hotkey's mode has latches. *)
ClickRerecord ==
  /\ OnScreen({"result", "gone"})
  /\ PanelClose
  /\ \/ UNCHANGED hotkey
     \/ /\ "impatience" \in Disturbances
        /\ ~live /\ spoken + Waiting("StartRecording") < MaxDictations
        /\ live' = TRUE
        /\ Emit(<<"StartRecording">>)
  /\ UNCHANGED <<desktop, session, engine, webview, paste, history>>

Page == PageHandle \/ PageRender \/ CountdownEnds \/ CloseTimerEnds

Pointer == StopCountdown \/ ClickTransfer \/ ClickCopy \/ ClickCancel \/ ClickRerecord

Transfer(t) == TransferAim(t) \/ TransferClose(t) \/ TransferPaste(t) \/ TransferEnd(t)

Next ==
  \/ PressTrigger \/ EndPress \/ PressPanelKey
  \/ MoveFocus \/ CloseWindow
  \/ Session \/ Reapply
  \/ EngineTake \/ EngineAnswer \/ EngineComesAndGoes
  \/ \E t \in Threads : Transfer(t)
  \/ Page \/ Pointer

(* Every thread runs, the page's event loop and its timers included; what  *)
(* people do with keys, windows and settings is not owed to anybody.       *)
(* Fairness is strong where a step needs room within a bound: the code has *)
(* no such bound, so nobody can keep somebody else out by filling it.      *)
Fairness ==
  /\ SF_vars(Session)
  /\ SF_vars(EngineTake) /\ SF_vars(EngineAnswer)
  /\ \A t \in Threads : SF_vars(Transfer(t))
  /\ WF_vars(PageHandle) /\ WF_vars(PageRender)
  /\ SF_vars(CountdownEnds) /\ SF_vars(CloseTimerEnds)

Spec == Init /\ [][Next]_vars
FairSpec == Spec /\ Fairness

-----------------------------------------------------------------------------
(* Thrown away means thrown away: a recording that a tap, another key or   *)
(* Esc discarded never reaches the engine, the panel or a window, whatever *)
(* release arrives after it (session.rs, DiscardRecording and PanelCancel; *)
(* "Nothing reaches transcription", state.rs).                             *)
DiscardedIsGone ==
  \A d \in discarded : d \notin {in_flight, job, busy, dictation} /\ landed[d] = <<>>

(* "A result still on screen is thrown away here" (panel.rs, begin): while *)
(* somebody is talking the card is the recording's.  Esc is read as        *)
(* "cancel the dictation" by the session's flag and as "cancel the window" *)
(* without: it is up only while the hotkey records, or while the end of    *)
(* the recording is still in the channel.                                  *)
RecordingOwnsTheCard ==
  recording =>
    /\ mode \in {"Live", "Closed"} /\ dictation = None
    /\ live \/ \E i \in 1..Len(actions) : actions[i] \in {"StopRecording", "DiscardRecording"}

(* A dictation lands only in the window it was begun over (README, "the    *)
(* window it is aimed at is captured when the recording starts ... rather  *)
(* than letting the text land somewhere else").                            *)
PastedWhereSpoken ==
  \A d \in Dictations : \A i \in 1..Len(landed[d]) : landed[d][i] = aimed[d]

(* One dictation, one paste, where it is the countdown alone that asks for *)
(* the transfer (panel.js, startCountdown).  Enter and the button ask for  *)
(* the same one, and nothing keeps two that have been asked for apart.     *)
PastedAtMostOnce == \A d \in Dictations : Len(landed[d]) <= 1

(* A card that is recording or working does not stay so once the key is    *)
(* up: it becomes a result, or it comes down and gives Esc back to the     *)
(* rest of the machine (engine/mod.rs, dictate).                           *)
WorkingEnds == (mode = "Live" /\ ~live) ~> (mode # "Live" \/ live)

(* A recording ends with the press or the latch it was begun by. *)
RecordingEndsWithThePress == (recording /\ ~live) ~> (~recording \/ live)

(* "Do nothing and it is in your window": with nobody's hands on the card  *)
(* every result that is shown is pasted (README.md, "Using it").           *)
UntouchedResultLands ==
  AutoTransfer => \A d \in Dictations : (dictation = d) ~> (landed[d] # <<>>)

(* What became of each dictation, as its speaker sees it. *)
Leaving(d) == \E t \in Threads : paste[t].pc \in {"aimed", "closed"} /\ paste[t].body = d

Stage ==
  [d \in Dictations |->
     IF d > spoken THEN "unspoken"
     ELSE IF landed[d] # <<>> THEN "landed"
     ELSE IF in_flight = d THEN "recording"
     ELSE IF d \in {job, busy} THEN "working"
     ELSE IF dictation = d \/ Leaving(d) THEN "shown"
     ELSE "dropped"]

L == INSTANCE Lifecycle WITH stage <- Stage

(* Every step takes a dictation forward, or leaves it where it is: nothing *)
(* that was dropped comes back and nothing is pasted that was not shown.   *)
ImplementsLifecycle == L!Spec

=============================================================================
