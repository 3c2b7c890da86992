# Dile, in TLA+

Dile is a push-to-talk dictation application: hold a key, speak, let go, and the sentence is
transcribed by an engine in a process of its own, cleaned, shown on a card, and pasted into the
window that was in front when the key went down. This directory holds TLA+ models of the parts
of it that are hard to test, the TLC runs that check them on small instances, and theorems that
TLAPS checks for every instance.

    tlc -config MCHotkeyMachine.cfg MCHotkeyMachine.tla
    tlc -config MCHotkeyListener.cfg MCHotkeyListener.tla
    tlc -config DictationPatient.cfg Dictation.tla       # and the other Dictation runs
    tlc -config EngineSupervisor.cfg EngineSupervisor.tla
    tlc -config EngineOnDisk.cfg EngineSupervisor.tla
    tlc -config Capture.cfg Capture.tla
    tlc -config MCStreams.cfg MCStreams.tla              # the download, and the engine process
    tlc -config MCDesk.cfg MCDesk.tla                    # settings, card, window, clipboard, cleanup
    tlapm HotkeyProofs.tla                               # and the seven other *Proofs modules

## The system

| Component | State it keeps | Operations | What makes it correct |
|---|---|---|---|
| Hotkey machine (`dile-hotkey/state.rs`) | the keys believed down, the press or latch in progress, suppression, panel-key mode | a key event, a tick, re-record, reset, arm | recordings never overlap and each is ended once; a tap never dictates; nothing is stuck |
| Hotkey listener (`dile-hotkey/listener.rs`) | the OS hook and the set of keys it swallows, a command queue, the channel of actions | spawn, drop, commands, the hook thread's loop | what is swallowed is reported; no key is dropped on the way; a listener that is dropped ends |
| Session thread (`dile-app/session.rs`) | whether a recording runs, the capture, the settings in force | one per action of the channel; reapply | every recording is handed over or thrown away; Esc means the right thing |
| Capture (`dile-capture`) | the ring, the pre-roll, the recording in flight, the speech tracker, the level meter | start, stop, discard, samples arriving, close | nothing spoken is lost, nothing discarded is handed over, the cap holds, calls return |
| Engine supervisor (`dile-app/engine`) | a one-slot queue, the tier, the host and its generation, a restart count | submit, take, dictate, host down, retier, reprobe | the newest recording is transcribed; a dead host is replaced, not for ever |
| Engine client and host (`dile-client/host.rs`, `dile-engine-host`, `dile-engine-proto`) | a child process, a request id, two framed pipes | spawn, request, time out, kill, drop | an answer is that of its request; the process does not outlive its application |
| Panel (`dile-app/panel.rs`) | the mode, the target window, the result, the edited text, its window and place, whether its keys are armed | begin, open_idle, show_result, transfer, copy, cancel, close, rerecord, edited, reclean, show, hide | text lands once, where it was spoken, and nothing cancelled lands; its keys are the card's while it is up |
| Page (`ui/panel.js`) | what is drawn, the text, a countdown, an edit timer, a closing timer | the event feed, timers, buttons, editing | what it shows is what the panel holds |
| Paste and clipboard agent (`dile-app/paste.rs`, `platform/win32/clipboard.rs`, `platform/linux.rs`, `platform/uinput.rs`) | the offer and its receipt; the selection; the virtual keyboard | transfer, copy, restore; hand over and press the chord | the user's clipboard comes back; nothing is lost |
| Settings store and window (`dile-client/settings.rs`, `dile-app/settings`, `ui/settings`) | the settings, their file, listeners, the window's own copy | get, set, subscribe, capture a hotkey, remember a place | the file, the memory, the listeners and the window agree in the end |
| Downloader (`dile-client/download.rs`) | a `.part` file and the final one | start, resume, verify, rename | only a verified model gets the final name; no `.part` blocks it for ever |
| Text (`dile-core`) | none | cleanup, dictionary, normaliser | when in doubt, keep; no seam where something was cut |
| Inference, tray, strings, command line, packaging | | | not modelled, see the end |

The threads are the hook thread, the session thread, the audio callback and the capture's worker,
the engine supervisor and its reader, one paste thread for each transfer, the clipboard agent,
the level thread, and the main thread with the pages. They meet
in the actions channel (hook to session), the listener's command queue (panel to hook), the
capture's command channel, the engine's slot (session to supervisor), the
panel's lock (session, supervisor, paste threads and page commands), the settings' lock and file,
and the event feed (all of them to the page). What is hard is that all of these outlive the
dictation they were made for: a
result can come back after the next recording has begun, a timer can fire on another card, a
click can name a text that is no longer there, and the hook or the microphone can be replaced
in between. `PROJECT.json` lists the hazards by line.

## The modules

| Module | Models | Composed in |
|---|---|---|
| `HotkeyMachine` | `state.rs`, whole | extended by `HotkeyListener`; checked in `MCHotkeyMachine` |
| `Recorder` | what the session is written against: recordings begin, and end once | refined by `HotkeyMachine` |
| `HotkeyListener` | the keyboard, the hook, the queues and the listener's thread around `HotkeyMachine` | `MCHotkeyListener` |
| `Dictation` | the session, the panel, the engine's slot, the paste threads and the page, as they run together | |
| `Lifecycle` | what one dictation promises its speaker: spoken, worked on, shown, landed, or dropped for good | refined by `Dictation` |
| `Capture` | the microphone: ring, worker, converter, pre-roll, recording, cap, tracker, meter, caller | |
| `EngineSupervisor` | the thread that owns the engine process, its queue, the processes it has started and their readers, the weights and `engine.json` | |
| `Transcriber` | what the engine promises the session: the newest recording waits, one is worked on, each is settled once | refined by `EngineSupervisor` |
| `HostProcess` | one engine process, its two pipes, the client's requests and its reader | `MCStreams` |
| `Download` | `ensure_model` and `fetch`, by the application and the command line, over one disk | `MCStreams` |
| `Settings` | the document, its file, the writers, the listeners, the settings window | `MCDesk` |
| `Card` | the text on the card, its edits, and the hand-over on the Linux desktops | `MCDesk` |
| `PanelWindow` | `show`, `hide` and `place`, step by step, and what is remembered of the place | `MCDesk` |
| `Clipboard` | a paste through the Windows clipboard, with the agent, the windows and other programs | `MCDesk` |
| `Cleanup` | the eight rules over a transcript, one after another | `MCDesk` |
| `HotkeyProofs`, `DictationProofs`, `EngineSupervisorProofs`, `CaptureProofs` | theorems about the component, and of the listener with its machine | |
| `HostProcessProofs`, `CleanupProofs` | theorems about the component | `StreamsProofs`, `DeskProofs` |
| `StreamsProofs`, `DeskProofs` | theorems about `MCStreams` and `MCDesk`, the download, and the parts of the desk | |

`MCStreams` and `MCDesk` put parts that share no state into one run: a behaviour is one of the
part chosen in the initial state, and the other parts stand still, so that the run has the
sum of the parts' states and not their product.

**`HotkeyMachine`** has one action per kind of event: `DownModifier`, `DownMain`, `UpModifier`,
`UpMain`, `OnPanelKey`, `OtherKeyDown`, `OnTick`, and the commands `SetPanelKeys`, `Rerecord`
and `Reset`. The helpers keep the names of the methods (`OnChordDown`, `EndActivePress`,
`Withdraw`, ...). An `Instant` that is remembered is its age, and `out` is the value `on_event`
returned. `Elapse` is time between two events.

**`HotkeyListener`** puts the machine where it runs. `down` is the physical keyboard, which
changes by `Press` and `Release`, and by `Unseen` where the hook does not look (a locked session,
an elevated window). The hook decides at that moment whether a key is swallowed (`Swallows`, over the
shared set `blocking`) and queues what it saw; the thread (`thread`) drains the commands, then
takes one event or a tick, and goes round while `running`. `PanelKeysChange` and
`PanelKeysSend` are the two halves of `Remote::panel_keys`. The hook library is external and
modelled from how the listener uses it: it swallows a key when an entry names it and exactly
the families that are down. Only the exact match is modelled, and a system that cannot
swallow is the case `Observing`.

**`Dictation`** takes the hotkey as the `Recorder` it was shown to be (`live`, and the `actions`
waiting in the channel; the presses, releases and panel keys are its `PressTrigger`, `EndPress`
and `PressPanelKey`). A dictation is a number, and its text is the same number:

| Variables | Code |
|---|---|
| `recording`, `capture`, `in_flight`, `spoken` | `session::run`'s locals; `Pipeline::in_flight`; how many recordings have begun |
| `job`, `busy`, `loaded` | `Pending::job`; the recording `dictate` is working on; `Supervisor::loaded` |
| `mode`, `target`, `dictation`, `edited`, `armed` | `panel::Held`, and whether the hook was told to give the panel its keys |
| `feed`, `renders`, `page`, `page_text`, `timer` | events emitted to the page; `refresh()` promises that have not resolved; the page's `mode`, text and timers |
| `paste` | the `dile-paste` threads, at the three points `Panel::transfer` holds no lock |
| `aimed`, `landed`, `discarded`, `cancelled` | history, for the properties |

The events the panel and the tray's status emit are one feed, because the webview delivers them
in the order they were emitted; a panel method that emits two that belong together leaves one.
Events that mean nothing to the page's state (levels, the resting state) are left out.

**`Card`** and **`PanelWindow`** open what `Dictation` has as one step. `Card` starts with a
result on the card and has what people do to it: keystrokes with their 120 ms timer
(`page.edit`), the raw view, the strictness pills and their answers, the buttons, the hook's three keys,
the commands in their queue, and the threads (`work`) that put the text on the clipboard, take the card down
and press the chord through the one virtual keyboard. `PanelWindow` has `show` and `hide` as the
sequence of calls they are (`at`), with `on_screen`, the window, the arming of the keys and the
`Moved` events that come back later; a place is a monitor and a spot on it.

**`Capture`** numbers the samples since the microphone was opened. `Push` is the audio callback;
`worker` is the place in the worker's loop (`drain`, `wait`, `again`, `apply`): it drains the ring
once more after it has received a command, and publishes `state` before it answers. `Feed` is
the whole way of a block: whole chunks out of `pending`, the pre-roll, the recording up to its
cap, frames for the tracker, windows for the meter. `said` is the history: what was asked for when,
what was handed over and what was thrown away.

**`EngineSupervisor`** opens the engine, which `Dictation` has as three actions: `Dictation`'s
`job` and `busy` are the same variables here, its `EngineTake` and `EngineAnswer` are `Take`,
`LetGo` and `Settle` of `Transcriber`, and its `EngineComesAndGoes` is everything else. The
supervisor is one thread that blocks, so it is at one place, `pc`, at a time; every place where
it waits for something that can end in more than one way is a step of its own, and other
threads and the engine process run in between:

| Variables | Code |
|---|---|
| `job`, `down`, `retier`, `reprobe`, `stop` | `Pending`, the queue; `Submit`, `Notify`, `AskReprobe`, `AskStop` and `ReaderEnds` are those who set them, and the order `take` looks at them is the guards of `Leave`, `HostDown`, `Reprobe`, `Retier`, `LetGo` and `Dictate` |
| `pc`, `caller` | which call the thread is in; `ensure_model`, `start_host` and `load` are used by `prepare`, by the probe and by `reload`, and `caller` is which |
| `tier`, `model_file`, `host`, `loaded`, `generation`, `restarts` | the fields of `Supervisor`; a host is its generation |
| `status` | the state last announced, `unset` before the first |
| `alive`, `reading`, `holds` | the processes that run; those whose reader has yet to call `on_exit`; the file and the device of the model in the current one |
| `files`, `record` | the weights on disk; `engine.json` |
| `tier_override`, `notices` | the setting, and how often its listener has still to be told |
| `spawned`, `fate` | history, for the properties |

Request ids are not in this module: the supervisor has one request out at a time, and one that
times out kills its process. That this is enough for an answer never to be taken for that of another request is
what `HostProcess` shows. A reader that ends on a broken frame while the process lives, and a
tier record that does not parse, are left out. The disk starts with any record, and the weights
the run allows.

**`HostProcess`** is one `Host` and the process behind it. The client is in one request at a time
(`at`): it writes a JSON frame and, for a recording, an audio frame; `Receive` skips replies of another id,
`Timeout` kills, `Drop` and `ClientDies` are the two ways the application goes. The reader thread
moves frames from `stdout` to `replies`. The host (`host`) is its loop: the frame it reads, the audio it
waits for, the work. A frame is a message, read and written whole, except the one a process dies
in, which is `Torn`.

**`Download`** has two programs that may fetch (`Ensure`, `Create` and the three answers
a server gives to a range request, `Chunk`, `BodyEnds`, `Settle`, `Rename`), and the faults `Breaks`, `Stop` and
`Crash`. A file is what a name points to, so that a handle goes on writing after a rename; its
content is the chunks in it, each of a version of the model. The server may serve the pinned
version, another of the same length, a shorter or a longer one.

**`Settings`** has two writers, `main` (a command of the window) and `card` (the place it was
dragged to), each at a step of `set`: validated and taken into memory, the temporary file opened, filled, renamed, the listeners
told. The window's script is `page`: its document, what its controls show (`shown`), its timer, and the
answers it waits for. An answer replaces the document; of the controls it draws again the two a clamp could have
moved, the cap always and the delay of the auto-transfer only while nobody is in its field (`typing`). A delay that is
no number above zero (0 in the model) is neither sent nor reported. A trigger that is being captured has its place in the document
from before (`listening`): once an answer has come in between it is `stale`, and what is captured is lost.
A document has the settings that have bounds or a rule of their own; the others are the language. `Restart` is a crash at any step, and what the file may hold at first (`MCOnDisk`)
is none, one torn, one edited by hand, and those of earlier versions.

**`Clipboard`** has the transfers (`at`), the agent thread with its queue (`jobs`, `agent`), and
the clipboard itself: what it holds, who emptied it (`owner`), who has it open (`holder`), and whether it is a
promise still to be rendered. `Refused` is a clipboard that cannot be opened, or read; `WriteFails` a write that
fails in `EmptyClipboard`, or after it, with nothing left on the clipboard. A render without memory, and a poisoned lock, are left out. `World` is the target windows, a program that looks into every new
clipboard, and one that copies.

**`Cleanup`** is the pipeline as a state machine: `rule` is the place in `PIPELINE`, each step
applies one rule to `text`. A text is a sequence of tokens: words, which are model values with a capital or not, spaces
and marks. A rule that cuts leaves the tokens at the other places (`Without`), and one that writes says what
stands for each token or sentence. The lists (`Fillers`, `Phrases`, `Reduplications`, ...) keep one or two members of the
code's, which are data.

## What is checked

Every run checks what its part is correct for; the bounds are in guards, and named.

### The hotkey

| Run | Bounds | What it shows |
|---|---|---|
| `MCHotkeyMachine` | both modes; the lone right Ctrl, `Ctrl+Alt+Space`, and a chord of one family that either Ctrl key completes; thresholds 1, 2, 3 and ages to 4 | `IInv`; a tap never dictates; the next tap stops a latch; the machine is a `Recorder`; a recording ends |
| `MCHotkeyListener` | 1 modifier, 2 main keys of which one can be named, one other key; a lone key, a chord, and one that can only be observed; 1 event and 1 command waiting | keys are believed down as they are; what is swallowed is reported, and swallowed where it triggers; a dropped listener ends |

Thresholds of 1, 2 and 3 units hold a tap, a short hold, a takeover and the ceiling, and ages
past every threshold behave alike. One event and one command waiting are what it takes for an
event to be taken before a command that was sent earlier, and for the set to change between a
key's being seen and its being handled.

### From the key to the window

The `Dictation` runs differ in what is allowed to happen, `Disturbances`: *hands* on the card,
*impatience* (a recording begun before the last dictation has settled), the *microphone*
failing, *settings* changed in use, the *engine* coming and going, the *desktop* closing windows
and refusing the focus.

| Run | Allowed | What it shows |
|---|---|---|
| `DictationPatient` | hands; 2 windows, 2 paste threads, 2 dictations | text lands only where it was spoken; a recording owns the card; every dictation follows `Lifecycle` |
| `DictationDisturbed` | everything; 1 dictation | discarded stays gone through settings changes, failures and lost windows |
| `DictationHandsOff` | engine; 2 windows, 2 threads, 2 dictations | do nothing, and the text is in the window, once; the card does not stay working; a recording ends with its press |

Two dictations are what an old one and a new one need; two windows are what "the wrong window"
needs; two paste threads are what a double transfer needs. `ActionBound` and `FeedBound` are 2,
the most one event can add to a channel. Deadlock is
not checked in the `Dictation` runs: when the bounded number of recordings has been made and
settled, there is nothing left to do.

### The engine

| Run | Allowed | What it shows |
|---|---|---|
| `EngineSupervisor` | 2 restarts, 3 faults, 1 recording, 1 change of the setting or probe, any weights on disk | one engine process; `ready` is true, or the news that it is not is on its way; restarts are bounded; the tier is the one asked for |
| `EngineOnDisk` | 1 restart, 1 fault, 2 recordings, 1 change or probe, both weights on disk | the engine is a `Transcriber`; the model in the process is the one that is thought loaded; recordings are settled; a dead engine comes back or is given up |

Three faults use up two restarts and break the last start as well, which is where a count that
is off by one, or reset in the wrong place, shows. One change of the setting, with the one made
before the start, is what an old tier and a new one need: it can arrive at every step of a start-up.
Two recordings are what a replacement needs. `MaxRestarts` is 3 in the code, and smaller here
to reach its end with few faults; the theorems hold for every value. `FaultBound` is in the guard
of every fault, so what the liveness properties say is that the engine recovers once faults stop.
Deadlock is not checked: the supervisor stops when the application does, and waits on a dialog.
`LoadedIsItsModel` holds because nobody can decline weights that are on disk; see the list
of divergences below.

### The microphone

`Capture`: a ring of 4 samples, a pre-roll of 3, blocks of 3, chunks and frames of 2, nine
samples, four calls, and caps of 1 and 9 seconds that the limits 2 and 5 clamp. Blocks that do
not divide by chunks leave a rest in `pending`; two blocks do not fit the ring; a recording can
reach the smaller cap and not the larger; four calls are a recording, one that is thrown away, and a
start over a start. What is loud is fixed (samples 3 to 6), so that speech begins and ends within
frames and between them. `RecordingIsFaithful` is three things: what `stop` returns is what was said
between the calls, its speech is that of its own samples however they arrived, and nothing that
was discarded is in it. `CapStopsCleanly` is about the cap, and `CallsReturn` says that every
call comes back, with the level channel full as well, to a state that is true.

### What moves bytes between processes

`MCStreams`: the download with a model of three chunks, the application and the command line taking turns, three
faults; and the engine process with three requests and two faults.

| Property | What it is |
|---|---|
| `DownloadIsSafe` | the final name is the whole pinned model's alone; while the host serves that version, a `.part` is a prefix of it |
| `ModelArrives` | no `.part`, however it came to be, keeps the model from arriving for ever |
| `EngineAnswers` | an answer is that of its request, and a text that of its audio; between two requests nothing is left in either pipe |
| `EngineEnds` | every request ends; the process ends when its application does, however that ends |

Three chunks make a first, a middle and a last one. Three faults are a version that changes
twice and a crash in between. Three requests are a `hello`, a `load` and a recording, or a recording
after one that timed out. The host may hang while it works and not while it reads (`"wedge"`): the client's
write of an audio frame has no deadline, and with a host that stops reading it does not return.

### What the user sees

`MCDesk`: five parts. Texts of two words with anything between and behind them and of three in
one or two sentences, from 14 words, at all three levels; 3 edits of the settings, 2 crashes or failed
writes and six files to start from; two monitors, three cards opened, three window systems; one keystroke
and two commands on the card with two paste threads; two transfers one after the other, with a program that
keeps the clipboard open, one that looks into it and one that copies, and writes that fail at any of their calls.
Of the settings there are two caps, one at a bound and one past it, and three delays: none, one that is clamped, and
one no `u32` holds. The words have both halves of every phrase `Kept` names, so that each stands in a sentence of some
text, alone in one, and with something behind it.

| Property | What it is |
|---|---|
| `FileIsWhole` | a machine that goes down at any step leaves one of the files that were in force |
| `AllAgreeWhenQuiet` | what is in force is valid; with no write under way it is what the next start would read and what listeners were told |
| `ShownIsInForce` | a settings window with nothing left to save and no error shown shows what is in force; its delay's field may say one that was clamped to it, or no delay |
| `EnterSendsTheAnswer` | when page and core have nothing for each other, Enter sends the answer the card has, edits included |
| `TextIsNotLost` | a card that went without its user's word left the text on the clipboard; a chord pastes a dictation |
| `WindowIsKept` | the card's keys are taken exactly while it is up; only places the user chose are remembered; it opens there |
| `ClipboardIsKept` | a promise can be kept; the user's clipboard comes back, or is empty after a write that failed half-way; what is pasted is the dictation |
| `TranscriptIsKept` | a canned phrase is lost only as a whole sentence, other words only by the lists; phrases stay, a canned one inside a sentence among them; no seam is left; sentences begin as they should |

The disturbances that are left out are those under which the code does not have these
properties, and the list below has each: `"haste"` (hands that do not wait for an
answer) in `Card` and `Settings`, `"overlap"` (two writers, two transfers, two panel methods
at once) in `Settings`, `Clipboard` and `PanelWindow`.

The types of `Capture` and `HotkeyListener` (`TypeOK`, `ListenerTypeOK`) hold in
these runs as well and are not in their configurations. Those of `Dictation`, `EngineSupervisor` and
`HotkeyMachine` are theorems, and those of the other parts are in the invariants their theorems rest on.

**Fairness.** In `HotkeyMachine` time passes and ticks come; the listener only ticks when
250 ms have gone by without a key, so the assumption is that nobody types without a pause for
ever. `HotkeyListener` itself assumes only that its thread runs. In `Dictation` every thread,
the page's event loop and its timers run. Fairness is strong
where a step has to find room within a bound, because the code's channels and threads have no
such bound. Nothing is assumed of people, windows or settings. In `EngineSupervisor` the supervisor's
thread, the readers and the settings' listeners run: they are threads and callbacks that nothing
but their own blocking calls holds up. The requests have deadlines; that a download ends, in success or
failure, is assumed; the dialog before it nobody has to answer. In `Capture` the worker runs,
and the caller takes its answers; nobody has to read the levels, and the microphone need not
bring anything. In `HostProcess` the client's waiting, the reader and the host run, unless the host
hangs. In `Download` a fetch that has begun goes on, and somebody asks again:
the application does at its next start and on Retry.

### What the code does not do

Two runs are expected to find their property violated. `PROJECT.json` quotes what the
documentation says.

| Run | What TLC finds |
|---|---|
| `AimedElsewhere` | speak, let go, speak again over another window before the first result is back: the first result is pasted into the second window (`show_result` does not know which recording it belongs to) |
| `KeysWithoutCard` | `show` and `hide` from two threads at once: the card is down, and the machine's Enter, Esc and Ctrl+C stay taken by it |

What was met in modelling the rest. Each is what the model does when the disturbance is allowed,
or is a case left out of it, as said:

- *Session and panel.* Cancelling while the engine works closes the card, and the result opens it
  again (panel.rs:707). A window that closes between the panel's check and the paste loses the
  text (panel.rs:512). Changing the hotkey while the card is up leaves the card without its
  keys, and during a recording takes the release with it (session.rs:402). With impatience
  `PastedWhereSpoken`, `RecordingOwnsTheCard`, `Lifecycle` and `WorkingEnds` fail; with a
  microphone that fails at the release the card stays working (session.rs:325); with hands on the
  card Enter, the button and the countdown can all have read the text before one of them closes it.
- *Card.* Within 120 ms of a keystroke Enter sends the older text (panel.js:366), and the raw
  view entered within them makes Enter send the raw text (panel.js:332). A recording begun
  while a hand-over waits for the focus to return gets the chord in its card, and a second
  hand-over that waited takes the live card down (panel.rs:651); two at once press the chord
  twice. `panel.copy(None)` runs on the session's thread (session.rs:376), which the comment
  at 439-442 keeps free of such work.
- *Window.* A `Moved` event of one card that arrives after the next one is placed is remembered
  as a drag (panel.rs:207-212); `Overlap` allows it. Without `Overlap` the next card is placed when the last one's own
  move has been told: `show` asks `is_visible`, and `place` asks `scale_factor`, before `placed` is written
  (panel.rs:851, 951), and off the main thread both wait for the loop that tells of the move. This
  is what the toolkit does today and nothing the code asks for, so the guard is an assumption of the window's properties.
- *Clipboard.* Two transfers at once: the second saves the first one's text as the user's
  (`"overlap"`). A program that looks into the clipboard makes the receipt true with nothing
  pasted (clipboard.rs:117). An offer that fails after the clipboard was emptied takes the user's text with it:
  the transfer returns `Refused` and restores nothing (clipboard.rs:578-623, paste.rs:210-216). A restore that is refused leaves a promise with no offer behind it. A
  target too slow to paste may paste what came after. A text copied meanwhile is replaced by the
  one put back. On Linux any owner's change counts as the receipt (linux.rs:235-248).
- *Settings.* Two writers share one temporary file, and `persist_position` writes back all of what it read
  (store.rs:166, panel.rs:994): `"overlap"` breaks `FileIsWhole` and `AllAgreeWhenQuiet`. An edit made while a
  save is out is overwritten by its answer (settings.js:252, `"haste"`). What settings.js:8-13 says of the
  window, that it has no unsaved state and that "Saved" is the receipt, is `NothingIsUnsaved`, and of the
  trigger `CapturedIsInForce`. The code keeps neither, and TLC finds both violated when they are put into
  `MCDesk.cfg` as an `INVARIANT`. A 0 typed as the delay of the auto-transfer is neither saved nor reported
  (settings.js:387-393), and stands under a line that says saved; so does a delay that was clamped while its
  field had the focus (settings.js:265-268). And when a setting is changed, and a key pressed for the trigger
  while the answer comes, the trigger goes into the document that was replaced: `settings.hotkey` is evaluated
  before the `await` (settings.js:490). After a failed write the same choice again is called saved, though it is
  not on disk (store.rs:172-175). The rename is not preceded by an fsync; the model's crash keeps what was
  written.
- *Supervisor.* `drop_host` leaves the generation as it was, and the exit of the process it ended
  is believed to be a crash if the new tier's weights are declined (engine/mod.rs:738). An override
  that is taken back leaves the tier (engine/mod.rs:458).
- *Host and download.* `Drop` writes `quit` and kills in the same breath, so that it is seldom
  read (host.rs:322-331). The application and `dile transcribe --yes` write to one `.part` when they download at once
  (dile-cli/src/main.rs:336, `Overlap`). `expected_size` is said to be for progress only and decides
  whether anything is asked of the host (download.rs:81, 109).
- *Text.* A sentence whose only word is a filler leaves its stop behind (normalizer.rs:127).
  Cleanup is not idempotent in strict. At the light level commas in a row before a stop keep one.
- *Listener.* Ticks do not come while keys are typed without a pause, and commands that
  keep coming keep events waiting.

## What is proved

The constants are arbitrary but for the assumptions their modules name (`KeyAssumption`,
`TimeAssumption`, `ListenerAssumption`, `DictationAssumption`, `EngineAssumption`,
`CaptureAssumption`, `SettingsAssumption`, `DeskAssumption`: bounds are natural numbers, thresholds
and limits are in order, every modifier has a family, "no window" is not a window, and the like), and
what a theorem assumes itself: mostly that a disturbance under which the code does not
have the property is left out, as in the runs. The larger inductive invariants (of the
patient dictation, the recording, the card, the clipboard) were checked by TLC on an instance first.

**`HotkeyProofs`**, the machine. `IInv` is `TypeOK` together with the four safety invariants, which
are only inductive together: that a press is a trigger down and not suppressed needs that a
latch is a chord's, and that `recording` and `active` agree needs both. Each event preserves it,
one step per action. From it: `IInvHolds`, its parts `TypeCorrect`, `PressInvariant`, `RecordingInvariant`,
`SuppressionInvariant`, `LatchInvariant`, and for steps `LatchIsStopped`, `AccidentalTap` (with
the lemma that the age of a recording that is held is the age of its press) and
`MachineIsARecorder`, the refinement.

The listener. `ListenerRunsTheMachine`: every step of the listener is a step of the machine or
leaves it alone, so that all of the above holds of the machine where it runs. `ListenerBelieves`,
`ListenerReportsWhatItBlocks` and `ListenerSwallowsTheChord` come from `ListenerInv`, whose parts
are about the time between a key and the thread that hears of it:

- `Belief`: as long as the hook has seen everything (`sure`), what the machine will
  believe once the queued events have been taken is what is down now, and every event carries the
  families that will be believed when it is taken. That the machine is right about
  the keys when the queue is empty is the case of no events.
- `Swallowed`: a chord's main key is in the set from the start, and a queued press of it was
  swallowed exactly if the families down at that moment were the chord's own.
- `Blocked`: the set of swallowed keys follows the last command that was given, also while
  it is only half given (`PanelKeysChange` without its `PanelKeysSend`); otherwise the commands
  that wait end in what the set says.

**`DictationProofs`.** `DiscardedStaysGone`: what was thrown away reaches neither the engine,
nor the card, nor a window. The invariant, `DInv`, has to name every place a dictation can be
in (`Carried`: the slot, the engine, the card, the text a transfer would send, the page, the
events and refreshes on their way to it, the paste threads, the windows) and say that whatever
is there was handed over by the session (`Handed`): it was spoken, is not being recorded any
more, and was not discarded. It needs that recordings are numbered in order and that the one in
flight is not discarded (`Flight`), for otherwise the next recording could be one that has been
thrown away. Each action is shown to be a `Step`, which says place by place that what is there
afterwards was carried before, or is the recording just let go of. `TypeCorrect` adds the types: of the
flags, of the queues (no channel outgrows its bound) and of the history, each with a lemma that
every step keeps it, given the others.

What holds of patient speakers only has an invariant of its own, `PatientInv`, and the assumption `Patient`: nobody
speaks again before the result is back, and nobody changes the settings meanwhile. Hands,
engines that fail, microphones and desktops remain. It says that the actions in the channel are in
order (`Ordered`, `Pressed`), who has the card and since when (`Alone`, `Current`, `Card`), which
text each event, refresh, page and timer is of (`Fed`, `Rendered`, `Paged`, `Counting`, `Hushed`,
`Heard`), and that a paste thread has the window its text was spoken over (`Pasting`). From it
`RecordingHasTheCard` and `PastesWhereSpoken`. `PastesAtMostOnce` also leaves out the hands, and
needs `OnceInv`: a text that will be pasted is in one place at a time, the countdown that will
ask for it, the request, the thread or the window. `RefinesLifecycle`: every step of the system is one step
of `Lifecycle` for one dictation, or none. It leaves out the desktop's disturbances (`Undisturbed`), and has
to: with hands and a desktop together TLC finds that a page which still shows an older text asks for its
transfer when that text's window has gone. It is not pasted then, but it is shown again, and `Lifecycle` has no way
back from what has been dropped.

**`EngineSupervisorProofs`.** `TypeCorrect`, `OneEngineAtATime`, `ReadyIsTrueOrNoticed`,
`RespawnsAreBounded` and `TheUsersTier`, for any number
of restarts, recordings, commands and faults. None is inductive. The strengthening is in four
parts, each with a lemma that it holds at first and one that every action keeps it:

- `Processes`: no process runs but the host, and a host is running, or being read, or its exit
  is in the queue. That the queue keeps the highest generation is what makes it hold: an old
  process's exit cannot push out the current one's.
- `Loading`: what `tier`, `loaded` and `model_file` can be at each place of a start-up, so that
  a start-up that reports `ready` has a model of its tier.
- `Budget`: `spawned` against `restarts` at each place of a start-up, where the first process
  and the probe's are the two that are not counted.
- `Asked`: from `prepare` on the tier is the override's, or a notice that it has changed is still
  on its way or in the queue.

`Budget`, `Asked` and the types of the disk and the tiers need `Loading`, because the tier a
start-up goes on with is only known to be there at the places `Loading` names; so the parts are
inductive together, as `IInv`. Over it, `RefinesTranscriber`: the engine settles each recording it took
once, and only the newest waits. `Jobs` says which recording waits and which is worked on, and `Staged` what
`Stages` makes of each recording in between. `LoadedIsTheTiersModel` is for machines that have both tiers' weights
from the start (`AllOnDisk`), where `Matched` says at each place which file is meant.

**`CaptureProofs`.** `TheCapStopsCleanly`, for any cap, ring, chunk and pre-roll. `CapInv` says that
the streams are sequences and a recording in flight is `Clean`: the pre-roll it began with is in
it, no more than the cap has come since, `cap_hit` exactly when that many have, `live` exactly
until then. `TheRecordingIsFaithful` adds, as `FaithInv`, where the samples are (`Located`: no
sample is in two places at once, and what was thrown away is in none that can be handed over), what the
worker has been asked and has answered (`Asked`, `Handled`), the samples between which each call fell
(`Timed`, `Begun`), and that the tracker has seen whole frames of this recording and no
other (`Tracked`). The detector is stated in closed form (`Counts`), and the recursive `Track` is followed
sample by sample (`TrackGoesOn`). Where a fact holds for every number of frames the proof takes a
least counterexample (`WFMin`).

**`HostProcessProofs`.** `EngineAnswersHolds`, that is `AnswersAreTheirOwn` and `StreamsInStep`,
for any number of requests and faults, whatever hangs. `HostInv` adds to the types which audio frame
belongs to which request (`Adjacent`), and, while nothing has gone wrong, where in the two pipes the one
request is that is under way (`Under`).

**`StreamsProofs`**, the download. `OnlyTheModelIsNamed`, for any size, programs and number of faults, while
one program fetches at a time. `DownInv` adds that the file a fetch writes to is not the one
that has the final name, and that what is about to be renamed is what was hashed. Without `~Overlap`
it is false, as the list above says. `StreamsDownloadSafely` is the second half as well: a `.part`
can be resumed. `ResumeInv` says that while the host serves the pinned version a `.part`, and what an
open handle is writing, is a prefix of it (`Resumable`), and what a fetch knows of its length.

The engine process. `StreamsAnswerTheRequest` is `EngineAnswersHolds` for `MCStreams`, where the run checks
it: the component that module instances is shown to be the one proved about, action by action.

**`CleanupProofs`.** `CleanupKeepsTheTranscript`: the four properties of `TranscriptIsKept`, for texts of any length
and any words, at every level. It assumes `RawTexts`, that no two commas of a raw text have only spaces between
them: at the level light no rule takes the second one, and the seam stays. The invariant is `Cleaned`, in three parts:

- `Left`, of the words. Until the punctuation is written the rules only cut, so what there is of the text is picked
  out of the raw text at a set of places (`Picks`), and every word that is not there has a reason (`Drops`): it is
  a filler, in a sentence that is nothing but a canned phrase (`InCanned`), or in strict a particle or a repeat. A repeat is the hard one. The rule sees two
  equal words side by side in what the fillers left, and has to answer for them in the raw text: up
  to that rule, between two tokens that stay in a sentence only fillers and commas are missing (`Quiet`). From the
  punctuation on no word goes and none changes its name, so the text says what is left of the raw text
  (`Spoken`).
- `Together`, of the guarded phrases, canned ones inside a sentence among them: the first rule spares them, because two
  words with a space between them are in one sentence. From then on their two words have no word between them after every cut, and are said one
  after the other from then on. Of a row of repeated words one has to be shown to stay in front of the second.
- `Written`, of the marks. No rule makes a run of commas but the two of strict, and `punctuation` takes
  the runs they make (`NoRuns`); so `whitespace` normalizes each sentence into one in which every token may stand
  behind the one before it (`Chain`) and joins them without a seam (`Tidy`). `casing` then changes
  neither a mark nor where a sentence begins, which is why the words it made capital are the ones that begin
  sentences in the end.

The recursion of `FlattenSeq` is followed piece by piece, and where a fact holds for every place of a text the proof
takes the first at which it would not (`WFMin`), so that no induction over texts is needed.

**`DeskProofs`**, the settings. `TheFileIsWhole`, while no two writes overlap: the one temporary file is
its writer's, and holds that writer's whole document from the moment it is filled. `WhatIsInForceIsOnDisk`
adds what the writer at each step has made of the store, the file and its listeners (`StoreInv`, `Typed`). With
`"haste"` left out as well, `TheWindowShowsWhatIsInForce`, with the delay's field as `ShownIsInForce` has it: `PageInv` says that every save that is out or answered is of the
document the window shows, so that a window that waits for nothing shows what is in force or owes a save, and
`CardInv` that what the card is about to write differs from what is in force by the place alone.

The panel's window. `OneAtATimeKeepsTheWindow`, while the panel's methods run one after another,
for any threads, monitors and systems: the keys go with the card (`KeysInv`, which says for every step of `show`
and `hide` what has been done so far), and the remembered places are chosen ones, at which the card opens
(`PlaceInv`).

The card. `TheTextIsNotLost`: only a chord can lose a text, after the card has gone, and the thread that
presses it has put the text on the clipboard before (`CopyInv`). `WhatEnterSends`, without `"haste"`: of all
that is on its way from the page to the core, the last is what the card shows (`AnswerInv`).

The clipboard. `TheClipboardComesBack`, for transfers that do not overlap: at each step of the transfer and of
the agent's job (`AgentInv`), whose the clipboard is, what is promised on it and what was saved
(`ClipInv`), and what has been handed over to the window (`HandedInv`). A write that fails half-way leaves no
promise and no dictation; one that fails before that leaves what was there.

`TheDeskKeepsItsSettings`, `TheDeskKeepsTheWindow`, `TheDeskLosesNoText`, `TheDeskSendsTheAnswer` and
`TheDeskKeepsTheClipboard` state these for `MCDesk`, as its run checks them. `TheDeskKeepsTheTranscript` is the
theorem about the cleanup there: the rules that module instances are shown to be the ones proved about, operator by
operator, and the texts of `MCDesk` to be `RawTexts` (`TheTextsAreRaw`).

Only model-checked:

- liveness, and whatever else needs fairness or `ENABLED`, which the proof system does not handle:
  `RecordingEnds`, `ListenerEnds`, `UntouchedResultLands`, `WorkingEnds`, `RecordingEndsWithThePress`,
  `RecordingsSettle`, `EngineComesBack`, `CallsReturn`, `ModelArrives`, `EngineEnds`;
- the same properties under the disturbances the theorems leave out, where they hold at all.

## What is not modelled, and why

- The inference engine: a wrapper of the vendored native runtime, whose state is the model in memory
  and whose work is numeric.
- The resampler's arithmetic, the adaptive noise floor, decibels: data. The models keep that they work on
  whole chunks and frames.
- Parsing and printing of triggers and of settings, Turkish case tables, spelling, counting of a probe's words:
  data; the models have what parses, what may be set, and which words are the same.
- The hotkey capture's own short-lived hook: only its answers are modelled (`Settings`).
- The tray, strings, start-up, the command line but for its download, scripts and packaging:
  no state of interest, or one step after another.
- Enumerating windows and monitors: calls into the system, which are inputs here.

## The plan

1. The settings with two writers, against the weaker promise that holds for them; the same for two transfers.
2. The hotkey capture's hook, and the trigger parser as functions against a reference.
3. `RecordingOwnsTheCard` and `PastedWhereSpoken` with the settings changed meanwhile, as far as they hold.
4. `Cleanup` run twice over a text: which levels are idempotent, and what strict takes the second time. Raw texts
   with commas in a row, at medium and strict, where `punctuation` takes them.
