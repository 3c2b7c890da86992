------------------------------ MODULE Settings ------------------------------
(***************************************************************************)
(* The settings: one document held by the store, its file, the listeners   *)
(* told of every change, the settings window that edits a copy of its own, *)
(* and the card that writes down the place it was dragged to.              *)
(*                                                                         *)
(* A document is the trigger, the recording cap, the delay of the          *)
(* auto-transfer, the dictionary's terms, the language and the card's      *)
(* place.  Of the settings left out, the pre-roll has no control, and the  *)
(* others have no bounds: they behave like the language, but that the      *)
(* window waits before it writes them.  A term stands for all spellings    *)
(* the window takes for the same.                                          *)
(***************************************************************************)
EXTENDS Naturals, SequencesExt

CONSTANTS
  Triggers, DefaultTrigger,   \* spellings a trigger may have
  Readable, Accepted,         \* those that parse; those that may be set
  Terms,          \* the dictionary's terms but for the blank one
  MinCap, MaxCap, \* MIN_CAP_SECS, MAX_CAP_SECS
  Caps,           \* what the window may say
  MinDelay, MaxDelay, DefaultDelay, \* of the auto-transfer
  Widest,         \* u32::MAX
  Delays,         \* what may be typed as the delay; 0 is all that is no number above zero
  Languages, DefaultLanguage,
  Places,         \* where the card may be dragged to
  OnDisk,         \* what settings.json may hold when the application starts
  Disturbances,   \* "haste", "overlap", "crash", "failure"
  MaxEdits, MaxFaults  \* bounds: edits and drags; crashes and failed writes

Blank   == "blank"
Nowhere == "nowhere"
Absent  == "absent"             \* a key the file does not have
NoFile  == [reads |-> "absent"]
Torn    == [reads |-> "torn"]   \* a file that does not parse

Docs == [trigger : Triggers, cap : Nat, delay : Nat, terms : Seq(Terms \union {Blank}),
         language : Languages, place : Places \union {Nowhere}]

(* The hotkey of a file is the trigger, or the chord and the second key of *)
(* an older build.                                                         *)
Hotkeys == [trigger : Triggers \union {Absent}, chord : Triggers \union {Absent}, second_key : BOOLEAN]
Files   == [hotkey : Hotkeys, cap : Nat, delay : Nat, terms : Seq(Terms \union {Blank}),
            language : Languages, place : Places \union {Nowhere}]

ASSUME SettingsAssumption ==
  /\ Accepted \subseteq Readable /\ Readable \subseteq Triggers /\ DefaultTrigger \in Accepted
  /\ MinCap \in Nat /\ MaxCap \in Nat /\ MinCap <= MaxCap /\ Caps \subseteq Nat
  /\ MinDelay \in Nat /\ DefaultDelay \in Nat /\ MaxDelay \in Nat /\ Widest \in Nat
  /\ 0 < MinDelay /\ MinDelay <= DefaultDelay /\ DefaultDelay <= MaxDelay /\ MaxDelay <= Widest
  /\ Delays \subseteq Nat
  /\ DefaultLanguage \in Languages /\ OnDisk \subseteq {NoFile, Torn} \union Files
  /\ Blank \notin Terms /\ Nowhere \notin Places /\ Absent \notin Triggers
  /\ MaxEdits \in Nat /\ MaxFaults \in Nat

VARIABLES
  current,     \* Inner::current
  file, tmp,   \* settings.json and settings.json.tmp
  writer,      \* for each thread: where in `set` it is, and with what
  told,        \* the language the tray and the windows were last given
  page,        \* the settings window's script
  requests, answers,   \* set_settings invoked, and what it returned
  dragged,     \* Held::dragged
  edits, faults,       \* counters, for the bounds
  lived, owed  \* history: what the file may be; a write has failed since

store  == <<current, file, tmp, writer, told, lived, owed>>
window == <<page, requests, answers>>
vars   == <<store, window, dragged, edits, faults>>

-----------------------------------------------------------------------------
(* Documents.                                                              *)
Default == [trigger |-> DefaultTrigger, cap |-> MaxCap, delay |-> DefaultDelay, terms |-> <<>>,
            language |-> DefaultLanguage, place |-> Nowhere]

Clamp(n, least, most) == IF n < least THEN least ELSE IF n > most THEN most ELSE n

ClampCap(c)   == Clamp(c, MinCap, MaxCap)
ClampDelay(d) == Clamp(d, MinDelay, MaxDelay)

(* The dictionary without its blank entries. *)
Kept(terms) ==
  LET kept[n \in 0..Len(terms)] ==
        IF n = 0 THEN <<>>
        ELSE IF terms[n] = Blank THEN kept[n - 1] ELSE Append(kept[n - 1], terms[n])
  IN  kept[Len(terms)]

(* Settings::validated *)
Validated(d) ==
  [d EXCEPT !.cap = ClampCap(@), !.delay = ClampDelay(@),
            !.trigger = IF @ \in Readable THEN @ ELSE DefaultTrigger,
            !.terms = Kept(@)]

(* The hotkey of a file: what this build writes, or the chord of an older  *)
(* one, unless that one's second key was armed.                            *)
Migrated(h) == IF h.trigger # Absent THEN h.trigger
               ELSE IF ~h.second_key /\ h.chord # Absent THEN h.chord ELSE DefaultTrigger

Parsed(f) == [trigger |-> Migrated(f.hotkey), cap |-> f.cap, delay |-> f.delay,
              terms |-> f.terms, language |-> f.language, place |-> f.place]

(* What save writes. *)
Written(d) == [hotkey |-> [trigger |-> d.trigger, chord |-> Absent, second_key |-> FALSE],
               cap |-> d.cap, delay |-> d.delay, terms |-> d.terms, language |-> d.language,
               place |-> d.place]

(* Settings::load: a file that does not parse is left alone. *)
Load(f) == IF f \in {NoFile, Torn} THEN Default ELSE Validated(Parsed(f))

HasDuplicates(terms) ==
  \E i, j \in 1..Len(terms) : i < j /\ terms[i] = terms[j] /\ terms[i] # Blank

HasBlank(terms) == Blank \in Range(terms)

(* A delay that is no u32, for its size or for being a fraction, is not    *)
(* deserialized; then check_trigger and check_dictionary.                  *)
MayBeSet(d) == /\ d.delay <= Widest
               /\ d.trigger \in Accepted /\ ~HasBlank(d.terms) /\ ~HasDuplicates(d.terms)

-----------------------------------------------------------------------------
(* SettingsStore::set, up to where the lock is released.                   *)
Idle == [at |-> "idle", doc |-> Default, language |-> FALSE]

(* The settings window's commands run on the main thread, and what they    *)
(* return is queued for the script.  What the card is told is only logged. *)
Return(w, ok, d) ==
  /\ writer' = [writer EXCEPT ![w] = Idle]
  /\ answers' = IF w = "main" THEN Append(answers, [ok |-> ok, doc |-> d]) ELSE answers

(* Mutant: what is stored is what was passed in. *)
SetUnvalidated(w, d) ==
  IF d = current
  THEN Return(w, TRUE, d) /\ UNCHANGED <<current, lived>>
  ELSE /\ current' = d /\ lived' = lived \union {Written(d)}
       /\ writer' = [writer EXCEPT ![w] = [at |-> "open", doc |-> d,
                                            language |-> d.language # current.language]]
       /\ UNCHANGED answers

Set(w, d) ==
  LET next == Validated(d)
  IN IF next = current
     THEN Return(w, TRUE, next) /\ UNCHANGED <<current, lived>>
     ELSE /\ current' = next /\ lived' = lived \union {Written(next)}
          /\ writer' = [writer EXCEPT ![w] = [at |-> "open", doc |-> next,
                                               language |-> next.language # current.language]]
          /\ UNCHANGED answers

(* Settings::save.  Every thread that writes uses the same temporary file: *)
(* one that has been renamed under a writer is what the writer writes to.  *)
At(w, place) == writer[w].at = place
Goto(w, place) == writer' = [writer EXCEPT ![w].at = place]

(* Mutant: the file is truncated in place. *)
OpenInPlace(w) == At(w, "open") /\ file' = Torn /\ Goto(w, "fill")
                  /\ UNCHANGED <<current, tmp, told, lived, owed, window, dragged, edits, faults>>

Open(w) == /\ At(w, "open") /\ tmp' = Torn /\ Goto(w, "fill")
           /\ UNCHANGED <<current, file, told, lived, owed, window, dragged, edits, faults>>

Fill(w) ==
  /\ At(w, "fill") /\ Goto(w, "rename")
  /\ IF tmp = NoFile THEN file' = Written(writer[w].doc) /\ UNCHANGED tmp
                     ELSE tmp' = Written(writer[w].doc) /\ UNCHANGED file
  /\ UNCHANGED <<current, told, lived, owed, window, dragged, edits, faults>>

Rename(w) ==
  /\ At(w, "rename")
  /\ IF tmp = NoFile
     THEN Goto(w, "unsaved") /\ owed' = TRUE /\ UNCHANGED <<file, tmp>>
     ELSE Goto(w, "saved") /\ owed' = FALSE /\ file' = tmp /\ tmp' = NoFile
  /\ UNCHANGED <<current, told, lived, window, dragged, edits, faults>>

(* The disk is full, or the file is held by somebody. *)
WriteFails(w) ==
  /\ "failure" \in Disturbances /\ faults < MaxFaults
  /\ writer[w].at \in {"open", "fill", "rename"}
  /\ Goto(w, "unsaved") /\ owed' = TRUE /\ faults' = faults + 1
  /\ UNCHANGED <<current, file, tmp, told, lived, window, dragged, edits>>

(* notify, and the answer *)
Notify(w) ==
  /\ writer[w].at \in {"saved", "unsaved"}
  /\ told' = IF writer[w].language THEN writer[w].doc.language ELSE told
  /\ Return(w, At(w, "saved"), writer[w].doc)
  /\ UNCHANGED <<current, file, tmp, lived, owed, page, requests, dragged, edits, faults>>

(* set_settings, on the main thread *)
SetSettings ==
  /\ requests # <<>> /\ At("main", "idle")
  /\ "overlap" \in Disturbances \/ At("card", "idle")
  /\ requests' = Tail(requests)
  /\ IF MayBeSet(Head(requests))
     THEN Set("main", Head(requests))
     ELSE Return("main", FALSE, Head(requests)) /\ UNCHANGED <<current, lived>>
  /\ UNCHANGED <<file, tmp, told, owed, page, dragged, edits, faults>>

-----------------------------------------------------------------------------
(* The card.                                                               *)
Remember ==
  /\ edits < MaxEdits /\ edits' = edits + 1
  /\ dragged' \in Places
  /\ UNCHANGED <<store, window, faults>>

(* persist_position: the settings are read here ... *)
PersistGet ==
  /\ dragged # Nowhere /\ At("card", "idle")
  /\ "overlap" \in Disturbances \/ At("main", "idle")
  /\ dragged' = Nowhere
  /\ IF current.place = dragged THEN UNCHANGED writer
     ELSE writer' = [writer EXCEPT !["card"] = [at |-> "got", language |-> FALSE,
                                                  doc |-> [current EXCEPT !.place = dragged]]]
  /\ UNCHANGED <<current, file, tmp, told, lived, owed, window, edits, faults>>

(* ... and all of them are written back here. *)
PersistSet ==
  /\ At("card", "got") /\ Set("card", writer["card"].doc)
  /\ UNCHANGED <<file, tmp, told, owed, page, requests, dragged, edits, faults>>

-----------------------------------------------------------------------------
(* The script of the settings window.  `shown` is what its controls say,   *)
(* and `typing` that the delay's field has the focus.  While a trigger is  *)
(* captured, `listening` says whether what it goes to is still the         *)
(* document.  `picked` is history: the last trigger captured.              *)
Shown(d) == [trigger |-> d.trigger, cap |-> d.cap, delay |-> d.delay, terms |-> d.terms,
             language |-> d.language]

Closed == [open |-> FALSE, doc |-> Default, shown |-> Shown(Default), timer |-> FALSE, waits |-> <<>>,
           typing |-> FALSE, listening |-> "no", picked |-> Absent, status |-> "none"]

(* boot.  Afterwards the window is only hidden and shown again. *)
Boot ==
  /\ ~page.open
  /\ page' = [Closed EXCEPT !.open = TRUE, !.doc = current, !.shown = Shown(current)]
  /\ UNCHANGED <<store, requests, answers, dragged, edits, faults>>

(* save, of the page p; reload is what follows it when the language moved. *)
Reload(p) == [p EXCEPT !.shown = Shown(p.doc)]

Save(p, reload) ==
  IF HasDuplicates(p.doc.terms)
  THEN /\ page' = LET q == [p EXCEPT !.status = "refused"] IN IF reload THEN Reload(q) ELSE q
       /\ UNCHANGED requests
  ELSE /\ page' = [p EXCEPT !.waits = Append(@, reload), !.status = "saving"]
       /\ requests' = Append(requests, p.doc)

Schedule(p) == page' = [p EXCEPT !.timer = TRUE] /\ UNCHANGED requests

(* A hand on a control, or on the keyboard while a trigger is captured.    *)
(* Without haste it waits for an answer.  A hand on another control takes  *)
(* the focus from the delay.                                               *)
Unhurried == "haste" \in Disturbances \/ page.waits = <<>>

Elsewhere == [page EXCEPT !.typing = FALSE]

Edit ==
  /\ page.open /\ edits < MaxEdits /\ edits' = edits + 1
  /\ Unhurried
  /\ UNCHANGED <<store, answers, dragged, faults>>

MoveTheCap == \E c \in Caps :
  /\ Edit /\ Schedule([Elsewhere EXCEPT !.doc.cap = c, !.shown.cap = c])

(* What is no number above zero is neither sent for nor reported. *)
TypeDelay == \E d \in Delays :
  LET typed == [page EXCEPT !.typing = TRUE, !.shown.delay = d]
  IN /\ Edit
     /\ IF d > 0 THEN Schedule([typed EXCEPT !.doc.delay = d])
                 ELSE page' = typed /\ UNCHANGED requests

(* Nothing listens for this. *)
LeaveDelay ==
  /\ page.typing /\ page' = Elsewhere
  /\ UNCHANGED <<store, requests, answers, dragged, edits, faults>>

AddRow ==
  /\ Edit /\ UNCHANGED requests
  /\ page' = LET terms == Append(page.doc.terms, Blank)
             IN [Elsewhere EXCEPT !.doc.terms = terms, !.shown.terms = terms]

(* A row is not sent for until there is something in it. *)
TypeTerm == \E i \in 1..Len(page.shown.terms), t \in Terms \union {Blank} :
  LET typed == [Elsewhere EXCEPT !.shown.terms[i] = t]
      p == IF i > Len(page.doc.terms) THEN typed ELSE [typed EXCEPT !.doc.terms[i] = t]
  IN /\ Edit
     /\ IF i > Len(page.doc.terms) \/ HasBlank(p.doc.terms)
        THEN page' = p /\ UNCHANGED requests
        ELSE Schedule(p)

DropRow == \E i \in 1..Len(page.shown.terms) :
  LET terms == IF i > Len(page.doc.terms) THEN page.doc.terms ELSE RemoveAt(page.doc.terms, i)
  IN Edit /\ Save([Elsewhere EXCEPT !.doc.terms = terms, !.shown.terms = terms], FALSE)

ChooseLanguage == \E l \in Languages :
  Edit /\ Save([Elsewhere EXCEPT !.doc.language = l, !.shown.language = l], TRUE)

(* changeTrigger: capture_hotkey answers with a trigger that may be set, or *)
(* an error.  Where the trigger goes is settled before that is awaited.    *)
ChangeTrigger ==
  /\ page.listening = "no" /\ Edit
  /\ page' = [Elsewhere EXCEPT !.listening = "live"] /\ UNCHANGED requests

Captured ==
  /\ page.listening # "no" /\ Unhurried
  /\ LET heard == [page EXCEPT !.listening = "no"]
     IN \/ \E t \in Accepted :
             LET p == [heard EXCEPT !.picked = t]
                 q == IF page.listening = "live" THEN [p EXCEPT !.doc.trigger = t] ELSE p
             IN Save([q EXCEPT !.shown.trigger = q.doc.trigger], FALSE)
        \/ page' = [heard EXCEPT !.status = "refused"] /\ UNCHANGED requests
  /\ UNCHANGED <<store, answers, dragged, edits, faults>>

SaveTimer ==
  /\ page.timer /\ Save([page EXCEPT !.timer = FALSE], FALSE)
  /\ UNCHANGED <<store, answers, dragged, edits, faults>>

(* Mutant: the script keeps its own document. *)
AnsweredKeepsIts ==
  /\ answers # <<>> /\ answers' = Tail(answers)
  /\ page' = [page EXCEPT !.waits = Tail(@), !.status = IF Head(answers).ok THEN "saved" ELSE "refused"]
  /\ UNCHANGED <<store, requests, dragged, edits, faults>>

(* The answer: the document is replaced by what was stored, which a        *)
(* trigger that is being captured does not go to, and of the controls only *)
(* those a clamp could have moved are drawn again, the delay if nobody is  *)
(* typing it.                                                              *)
Answered ==
  /\ answers # <<>> /\ answers' = Tail(answers)
  /\ LET a == Head(answers)
         p == [page EXCEPT !.waits = Tail(@), !.status = IF a.ok THEN "saved" ELSE "refused"]
         q == IF a.ok
              THEN [p EXCEPT !.doc = a.doc, !.shown.cap = a.doc.cap,
                             !.shown.delay = IF page.typing THEN @ ELSE a.doc.delay,
                             !.listening = IF @ = "no" THEN @ ELSE "stale"]
              ELSE p
     IN page' = IF Head(page.waits) THEN Reload(q) ELSE q
  /\ UNCHANGED <<store, requests, dragged, edits, faults>>

-----------------------------------------------------------------------------
(* The machine goes down and the application is started again. *)
Restart ==
  /\ "crash" \in Disturbances /\ faults < MaxFaults /\ faults' = faults + 1
  /\ current' = Load(file) /\ owed' = FALSE
  /\ told' = Load(file).language
  /\ writer' = [w \in {"main", "card"} |-> Idle]
  /\ page' = Closed /\ requests' = <<>> /\ answers' = <<>> /\ dragged' = Nowhere
  /\ UNCHANGED <<file, tmp, edits, lived>>

Init ==
  /\ file \in OnDisk /\ tmp = NoFile
  /\ current = Load(file) /\ told = current.language
  /\ writer = [w \in {"main", "card"} |-> Idle]
  /\ page = Closed /\ requests = <<>> /\ answers = <<>> /\ dragged = Nowhere
  /\ edits = 0 /\ faults = 0
  /\ lived = {file} /\ owed = FALSE

Write(w) == Open(w) \/ Fill(w) \/ Rename(w) \/ WriteFails(w) \/ Notify(w)

Hands == MoveTheCap \/ TypeDelay \/ AddRow \/ TypeTerm \/ DropRow \/ ChooseLanguage \/ ChangeTrigger

Next ==
  \/ \E w \in {"main", "card"} : Write(w)
  \/ SetSettings \/ Remember \/ PersistGet \/ PersistSet
  \/ Boot \/ Hands \/ LeaveDelay \/ Captured \/ SaveTimer \/ Answered
  \/ Restart

Spec == Init /\ [][Next]_vars

-----------------------------------------------------------------------------
(* Properties. *)
Quiet == \A w \in DOMAIN writer : At(w, "idle")

AtRest == page.open /\ Quiet /\ ~page.timer /\ page.waits = <<>>

TypeOK ==
  /\ current \in Docs
  /\ \A w \in DOMAIN writer : writer[w].doc \in Docs
  /\ page.doc \in Docs /\ told \in Languages
  /\ Len(page.waits) = Len(requests) + Len(answers) + (IF At("main", "idle") THEN 0 ELSE 1)

(* settings.rs:461: a machine that goes down while the file is written     *)
(* loses the change and not the file.                                      *)
FileIsWhole == file \in lived

(* What is in force can be used as it is, within its bounds and readable,  *)
(* whatever the window sends or the file holds; and when no write is under *)
(* way and the last one has not failed, it is what the next start would    *)
(* read, and what the listeners that take it from the change were told.    *)
AllAgreeWhenQuiet ==
  /\ current = Validated(current)
  /\ Quiet => /\ told = current.language
              /\ owed \/ current = Load(file)

(* What the controls say is what the document says, but for the delay's    *)
(* field: that may say what the document's delay was clamped from, or      *)
(* nothing that is a delay.                                                *)
Shows(shown, d) ==
  /\ shown.trigger = d.trigger /\ shown.cap = d.cap
  /\ shown.terms = d.terms /\ shown.language = d.language
  /\ shown.delay = 0 \/ ClampDelay(shown.delay) = ClampDelay(d.delay)

(* A window with nothing left to save that has no error to show shows what *)
(* is in force, but for a delay as it was typed.  A row that is blank is   *)
(* not an entry yet.                                                       *)
AllIsSaid == AtRest /\ page.status # "refused" /\ ~HasBlank(page.doc.terms)

ShownIsInForce == AllIsSaid => Shows(page.shown, current)

(* settings.js:8-12, where the code does not keep it: changes are in force *)
(* already, the window has no unsaved state, and the line that says saved  *)
(* is the receipt.                                                         *)
NothingIsUnsaved == AllIsSaid /\ page.status = "saved" => page.shown = Shown(current)

(* settings.js:8-12 of a trigger, where the code does not keep it: the     *)
(* last one captured is in force.                                          *)
CapturedIsInForce == AllIsSaid /\ page.picked # Absent => current.trigger = page.picked

=============================================================================
