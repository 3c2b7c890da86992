------------------------------- MODULE MCDesk -------------------------------
(***************************************************************************)
(* The parts a user sees, in one run: the settings and their window        *)
(* (Settings), the text on the card (Card), the card's window              *)
(* (PanelWindow), a paste through the Windows clipboard (Clipboard) and    *)
(* the cleanup of a transcript (Cleanup).  They share no state: a          *)
(* behaviour is one of the part chosen at its start, and the others stand  *)
(* still.                                                                  *)
(***************************************************************************)
EXTENDS Settings

CONSTANTS
  Pasters, Pills, MaxKeys, MaxCalls, CardDisturbances,  \* Card
  Callers, Monitors, Spots, Systems, MaxOpens, MaxMoves, Overlap,  \* PanelWindow
  Transfers, Others, ClipboardDisturbances               \* Clipboard

(* The names that stand for the lack of a monitor, a window, a program or  *)
(* a text of a dictation are nobody's.                                     *)
ASSUME DeskAssumption ==
  /\ {"none", "nowhere"} \cap Monitors = {}
  /\ {"nobody", "snoop"} \cap (Transfers \union Others) = {} /\ Transfers \cap Others = {}
  /\ "theirs" \notin Pills

VARIABLE part

(* The text on the card. *)
VARIABLES card, card_calls, card_answers, feed, card_mode, edited, work, keyboard, device,
          clipboard, typed, asked, auto, let_go, chords

(* The card's window. *)
VARIABLES system, mode, on_screen, monitor, card_dragged, placed, aimed, window_state, at_place,
          keys, remembered, moves, at, opens, chosen, belated

(* The clipboard. *)
VARIABLES clip, promised, owner, holder, offer, jobs, agent, raised, where, previous,
          replies, outcome, got, copied, upset, wanted

(* The cleanup. *)
VARIABLES raw, level, text, rule

-----------------------------------------------------------------------------
(* The files an application may find: none, one of this build, a torn one, *)
(* one edited by hand, and two of the build that had a second key.         *)
File(h) == [hotkey |-> h, cap |-> 1, delay |-> 3, terms |-> <<"dile">>, language |-> "tr", place |-> Nowhere]

Hotkey(t, c, s) == [trigger |-> t, chord |-> c, second_key |-> s]

MCOnDisk ==
  {NoFile, Torn,
   File(Hotkey("Alt+D", Absent, FALSE)),
   File(Hotkey(Absent, "Alt+D", FALSE)),
   File(Hotkey(Absent, "Alt+D", TRUE)),
   [File(Hotkey("?", Absent, FALSE)) EXCEPT !.cap = 9, !.delay = 0, !.terms = <<Blank, "dile">>]}

(* Two words with anything between them and behind, and three in one or    *)
(* two sentences.                                                          *)
Lexicon == {<<w, FALSE>> : w \in {"ev", "eee", "yani", "ya", "da", "sey", "bir", "mi", "ne", "kes", "alt", "yazi", "yavas", "m"}}
Endings == {<<w, FALSE>> : w \in {"ev", "eee", "da", "mi", "yazi"}}
Gaps    == {<<" ">>, <<",", " ">>, <<".", " ">>, <<",">>, <<" ", ",">>, <<"?">>}
Plain(gap) == [i \in DOMAIN gap |-> <<gap[i], FALSE>>]

TwoWords(a, g, b, h) == <<a>> \o Plain(g) \o <<b>> \o Plain(h)
ThreeWords(a, g, b, h, c) == TwoWords(a, g, b, h) \o <<c, <<".", FALSE>> >>
Pauses == {<<" ">>, <<",", " ">>}
Breaks == {<<" ">>, <<".", " ">>}

Texts ==
  {TwoWords(a, g, b, h) : a \in Lexicon, g \in Gaps, b \in Lexicon, h \in Gaps \union {<<>>}}
  \union {ThreeWords(a, g, b, h, c) : a \in Lexicon, g \in Pauses, b \in Lexicon, h \in Breaks, c \in Endings}

K == INSTANCE Card WITH Levels <- Pills, Disturbances <- CardDisturbances, page <- card,
                        calls <- card_calls, answers <- card_answers, mode <- card_mode

W == INSTANCE PanelWindow WITH Threads <- Callers, dragged <- card_dragged, window <- window_state

C == INSTANCE Clipboard WITH Disturbances <- ClipboardDisturbances, text <- clip, at <- where,
                             answers <- replies

T == INSTANCE Cleanup WITH Inputs <- Texts

showing  == <<card, card_calls, card_answers, feed, card_mode, edited, work, keyboard, device,
              clipboard, typed, asked, auto, let_go, chords>>
placing  == <<system, mode, on_screen, monitor, card_dragged, placed, aimed, window_state, at_place,
              keys, remembered, moves, at, opens, chosen, belated>>
pasting  == <<clip, promised, owner, holder, offer, jobs, agent, raised, where, previous,
              replies, outcome, got, copied, upset, wanted>>
cleaning == <<raw, level, text, rule>>
desk     == <<part, vars, showing, placing, pasting, cleaning>>

DeskInit ==
  /\ part \in {"settings", "card", "window", "clipboard", "cleanup"}
  /\ Init /\ (part # "settings" => file = NoFile)
  /\ K!Init /\ (part # "card" => auto = [transfer |-> FALSE, paste |-> FALSE])
  /\ W!Init /\ (part # "window" => /\ system = CHOOSE s \in Systems : TRUE
                                   /\ aimed = CHOOSE m \in Monitors : TRUE)
  /\ C!Init /\ (part # "clipboard" => clip = "mine")
  /\ IF part = "cleanup" THEN T!Init ELSE raw = <<>> /\ level = "light" /\ text = <<>> /\ rule = 1

DeskNext ==
  \/ part = "settings"  /\ Next   /\ UNCHANGED <<part, showing, placing, pasting, cleaning>>
  \/ part = "card"      /\ K!Next /\ UNCHANGED <<part, vars, placing, pasting, cleaning>>
  \/ part = "window"    /\ W!Next /\ UNCHANGED <<part, vars, showing, pasting, cleaning>>
  \/ part = "clipboard" /\ C!Next /\ UNCHANGED <<part, vars, showing, placing, cleaning>>
  \/ part = "cleanup"   /\ T!Next /\ UNCHANGED <<part, vars, showing, placing, pasting>>

DeskSpec == DeskInit /\ [][DeskNext]_desk

-----------------------------------------------------------------------------
(* Card: Enter sends what the card shows or what an edit made of it, and   *)
(* what a transfer could not paste is left for the user.                   *)
EnterSendsTheAnswer == K!EnterSendsTheAnswer
TextIsNotLost == K!NothingIsLost /\ K!ChordPastesTheCopy

(* PanelWindow, one method at a time: the keys go with the card, and it    *)
(* opens where its user left it.                                           *)
WindowIsKept == W!KeysGoWithTheCard /\ W!PlacesAreChosen /\ W!OpensWhereItWasLeft

(* Clipboard: no promise without its text, the user's clipboard comes      *)
(* back, and what is pasted is the dictation.                              *)
ClipboardIsKept == C!PromisesAreKept /\ C!ClipboardComesBack /\ C!PastedIsTheDictation

(* Cleanup: what the rules may not touch is there, and no seam shows where *)
(* they cut.                                                               *)
TranscriptIsKept == part = "cleanup" =>
  T!OnlyListedWordsGo /\ T!PhrasesStay /\ T!NoSeams /\ T!SentencesBeginWell
=============================================================================
