-------------------------- MODULE DictationProofs --------------------------
(***************************************************************************)
(* Proofs about Dictation, for any windows, threads, bounds and            *)
(* disturbances.                                                           *)
(*                                                                         *)
(* That what was thrown away is gone is not inductive as it stands: it has *)
(* to be known of every place a dictation can be in, the page's events and *)
(* the paste threads included, that nothing discarded and nothing still    *)
(* being recorded is there.  Handed says that of one dictation and Carried *)
(* lists the places.                                                       *)
(***************************************************************************)
EXTENDS Dictation, SequenceTheorems, TLAPS

(* A dictation that the session has let go of, and not thrown away. *)
Handed(x) == x = None \/ (x \in 1..spoken /\ x # in_flight /\ x \notin discarded)

InFeed(x)    == \E i \in 1..Len(feed) : feed[i].text = x
InRenders(x) == \E e \in renders : e.text = x
InPaste(x)   == \E t \in Threads : paste[t].body = x
InLanded(x)  == x \in Dictations /\ landed[x] # <<>>
Held(x)      == x \in {job, busy, dictation, edited, page_text}
Carried(x)   == Held(x) \/ InFeed(x) \/ InRenders(x) \/ InPaste(x) \/ InLanded(x)

Thread == [pc: {"idle", "asked", "aimed", "closed", "gone"},
           body: Texts, target: Windows \union {NoWindow}]

(* The recording being made is the newest; nothing older is made again. *)
Flight ==
  /\ spoken \in 0..MaxDictations
  /\ in_flight \in 0..spoken
  /\ discarded \subseteq 1..spoken
  /\ in_flight \notin discarded

(* The windows there are, and those the focus and the panel point at. *)
Places ==
  /\ open \subseteq Windows
  /\ focus \in open \union {NoWindow}
  /\ target \in Windows \union {NoWindow}

(* The part of the typing the argument rests on. *)
Shape ==
  /\ Places
  /\ feed \in Seq(Events)
  /\ paste \in [Threads -> Thread]
  /\ DOMAIN landed = Dictations
  /\ {job, busy, dictation, edited, page_text} \subseteq Texts
  /\ renders \subseteq Events

DInv == Flight /\ Shape /\ \A x : Carried(x) => Handed(x)

-----------------------------------------------------------------------------
(* What one step does to the recording being made. *)
Keeps    == UNCHANGED <<spoken, in_flight, discarded>>
Begins   == spoken' = spoken + 1 /\ in_flight' = spoken + 1 /\ discarded' = discarded
LetsGo   == in_flight' = None /\ UNCHANGED <<spoken, discarded>>
Discards == in_flight' = None /\ spoken' = spoken /\ discarded' = discarded \union ({in_flight} \ {None})

FlightStep == spoken' <= MaxDictations /\ (Keeps \/ Begins \/ LetsGo \/ Discards)

LEMMA FlightPreserved ==
  ASSUME Flight, FlightStep
  PROVE  Flight'
<1>1. CASE Keeps
  BY <1>1 DEF Flight, Keeps
<1>2. CASE Begins
  BY <1>2, DictationAssumption DEF Flight, Begins, FlightStep
<1>3. CASE LetsGo
  BY <1>3 DEF Flight, LetsGo, None
<1>4. CASE Discards
  <2>1. discarded' \subseteq 1..spoken
    BY <1>4 DEF Flight, Discards, None
  <2> QED
    BY <1>4, <2>1 DEF Flight, Discards, None
<1> QED
  BY <1>1, <1>2, <1>3, <1>4 DEF FlightStep

(* What has been handed over stays so, whatever happens to the next one. *)
LEMMA HandedStays ==
  ASSUME Flight, FlightStep, NEW x, Handed(x)
  PROVE  Handed(x)'
BY DEF Flight, FlightStep, Keeps, Begins, LetsGo, Discards, Handed, None

-----------------------------------------------------------------------------
LEMMA TellCarries ==
  ASSUME feed \in Seq(Events), NEW k, NEW d, [kind |-> k, text |-> d] \in Events, Tell(k, d)
  PROVE  /\ feed' \in Seq(Events)
         /\ \A x : InFeed(x)' => InFeed(x) \/ x = d
BY DEF Tell, InFeed

LEMMA FeedTailCarries ==
  ASSUME feed \in Seq(Events), feed # <<>>, feed' = Tail(feed)
  PROVE  /\ feed' \in Seq(Events)
         /\ \A x : InFeed(x)' => InFeed(x)
         /\ InFeed(Head(feed).text)
         /\ Head(feed) \in Events
BY DEF InFeed

LEMMA SpawnCarries ==
  ASSUME paste \in [Threads -> Thread], NEW d \in Texts, Spawn(d)
  PROVE  /\ paste' \in [Threads -> Thread]
         /\ \A x : InPaste(x)' => InPaste(x) \/ x = d
BY DEF Spawn, InPaste, Thread, Idle

-----------------------------------------------------------------------------
(* One step, place by place: what is somewhere after it was somewhere      *)
(* before it, or is the recording the session has just let go of.          *)
HeldStep ==
  /\ {job, busy, dictation, edited, page_text}' \subseteq Texts
  /\ \A x : Held(x)' => Carried(x) \/ x = None \/ (x = in_flight /\ LetsGo)

FeedHeldStep ==
  /\ feed' \in Seq(Events)
  /\ \A x : InFeed(x)' => Carried(x) \/ x = None

RendersStep ==
  /\ renders' \subseteq Events
  /\ \A x : InRenders(x)' => Carried(x)

PasteStep ==
  /\ paste' \in [Threads -> Thread]
  /\ \A x : InPaste(x)' => Carried(x) \/ x = None

LandedStep ==
  /\ DOMAIN landed' = Dictations
  /\ \A x : InLanded(x)' => Carried(x)

Step == FlightStep /\ HeldStep /\ FeedHeldStep /\ RendersStep /\ PasteStep /\ LandedStep

LEMMA StepPreserves ==
  ASSUME DInv, Places', Step
  PROVE  DInv'
<1>1. Flight'
  BY FlightPreserved DEF DInv, Step
<1>2. Shape'
  BY DEF Step, HeldStep, FeedHeldStep, RendersStep, PasteStep, LandedStep, Shape
<1>3. ASSUME NEW x, Carried(x)'
      PROVE  Handed(x)'
  <2>1. Carried(x) \/ x = None \/ (x = in_flight /\ LetsGo)
    BY <1>3 DEF Carried, Step, HeldStep, FeedHeldStep, RendersStep, PasteStep, LandedStep
  <2>2. CASE Carried(x)
    BY <2>2, HandedStays DEF DInv, Step
  <2>3. CASE x = None
    BY <2>3 DEF Handed
  <2>4. CASE x = in_flight /\ LetsGo
    BY <2>4 DEF DInv, Flight, LetsGo, Handed, None
  <2> QED
    BY <2>1, <2>2, <2>3, <2>4
<1> QED
  BY <1>1, <1>2, <1>3 DEF DInv

(* A place the step leaves alone. *)
LEMMA Untouched ==
  ASSUME Shape
  PROVE  /\ UNCHANGED <<job, busy, dictation, edited, page_text>> => HeldStep
         /\ UNCHANGED feed => FeedHeldStep
         /\ UNCHANGED renders => RendersStep
         /\ UNCHANGED paste => PasteStep
         /\ UNCHANGED landed => LandedStep
<1>1. UNCHANGED <<job, busy, dictation, edited, page_text>> => HeldStep
  BY DEF Shape, HeldStep, Carried, Held
<1>2. UNCHANGED feed => FeedHeldStep
  BY DEF Shape, FeedHeldStep, Carried, InFeed
<1>3. UNCHANGED renders => RendersStep
  BY DEF Shape, RendersStep, Carried, InRenders
<1>4. UNCHANGED paste => PasteStep
  BY DEF Shape, PasteStep, Carried, InPaste
<1>5. UNCHANGED landed => LandedStep
  BY DEF Shape, LandedStep, Carried, InLanded
<1> QED
  BY <1>1, <1>2, <1>3, <1>4, <1>5

(* An event for the page that says nothing, or says what is known. *)
LEMMA Telling ==
  ASSUME Shape, NEW k, NEW d, [kind |-> k, text |-> d] \in Events, Tell(k, d),
         d = None \/ Carried(d)
  PROVE  FeedHeldStep
BY TellCarries DEF Shape, FeedHeldStep, Carried

LEMMA PlainEvents ==
  \A k \in {"recording", "working", "nothing-heard", "no-microphone", "idle", "closed", "gone"} :
     [kind |-> k, text |-> None] \in Events
BY DEF Events

LEMMA Closing ==
  ASSUME Shape, PanelClose
  PROVE  /\ FeedHeldStep
         /\ UNCHANGED <<job, busy, page_text>> => HeldStep
<1>1. FeedHeldStep
  BY Telling, PlainEvents DEF PanelClose
<1>2. UNCHANGED <<job, busy, page_text>> => HeldStep
  BY DEF PanelClose, Shape, HeldStep, Carried, Held, Texts
<1> QED
  BY <1>1, <1>2

-----------------------------------------------------------------------------
(* The session. *)
LEMMA StartRecordingSteps ==
  ASSUME DInv, StartRecording
  PROVE  Step
<1>1. RendersStep /\ PasteStep /\ LandedStep
  BY Untouched DEF DInv, StartRecording, webview
<1>2. CASE PanelBegin /\ Begins /\ spoken < MaxDictations
  <2>1. FeedHeldStep
    BY <1>2, Telling, PlainEvents DEF PanelBegin, DInv
  <2>2. HeldStep
    BY <1>2 DEF StartRecording, PanelBegin, engine, webview, DInv, Shape,
                HeldStep, Carried, Held, Texts
  <2>3. FlightStep
    BY <1>2, DictationAssumption DEF FlightStep, Begins, DInv, Flight
  <2> QED
    BY <1>1, <2>1, <2>2, <2>3 DEF Step
<1>3. CASE CaptureLost /\ Tell("no-microphone", None) /\ UNCHANGED <<spoken, panel>>
  <2>1. FeedHeldStep
    BY <1>3, Telling, PlainEvents DEF DInv
  <2>2. HeldStep
    BY <1>3, Untouched DEF StartRecording, engine, webview, panel, DInv
  <2>3. FlightStep
    BY <1>3 DEF StartRecording, CaptureLost, FlightStep, LetsGo, DInv, Flight
  <2> QED
    BY <1>1, <2>1, <2>2, <2>3 DEF Step
<1> QED
  BY <1>2, <1>3 DEF StartRecording, Begins

LEMMA StopRecordingSteps ==
  ASSUME DInv, StopRecording
  PROVE  Step
<1>1. RendersStep /\ PasteStep /\ LandedStep
  BY Untouched DEF DInv, StopRecording, webview, history
<1>2. UNCHANGED <<spoken, discarded, busy, page_text>>
  BY DEF StopRecording, webview, history
<1>3. CASE UNCHANGED <<in_flight, job, panel, feed>>
  BY <1>1, <1>2, <1>3, Untouched DEF panel, DInv, Step, FlightStep, Keeps, Flight
<1>4. CASE in_flight' = None /\ PanelClose /\ UNCHANGED job
  BY <1>1, <1>2, <1>4, Closing DEF DInv, Step, FlightStep, LetsGo, Flight
<1>5. CASE in_flight' = None /\ job' \in {job, in_flight} /\ UNCHANGED panel
           /\ \E k \in {"working", "nothing-heard", "no-microphone"} : Tell(k, None)
  <2>1. FeedHeldStep
    BY <1>5, Telling, PlainEvents DEF DInv
  <2>2. LetsGo
    BY <1>2, <1>5 DEF LetsGo
  <2>3. in_flight \in Texts
    BY DictationAssumption DEF DInv, Flight, Texts, Dictations, None
  <2>4. HeldStep
    BY <1>2, <1>5, <2>2, <2>3 DEF panel, DInv, Shape, HeldStep, Carried, Held
  <2> QED
    BY <1>1, <1>2, <2>1, <2>2, <2>4 DEF Step, FlightStep, LetsGo, DInv, Flight
<1> QED
  BY <1>3, <1>4, <1>5 DEF StopRecording, TakeRecording, Finish, CaptureLost

LEMMA ThrowAwayDiscards ==
  ASSUME DInv, ThrowAway, UNCHANGED spoken
  PROVE  FlightStep
BY DEF DInv, Flight, ThrowAway, FlightStep, Discards

LEMMA DiscardRecordingSteps ==
  ASSUME DInv, DiscardRecording
  PROVE  Step
<1>1. FlightStep
  BY ThrowAwayDiscards DEF DiscardRecording
<1>2. UNCHANGED <<job, busy, page_text, renders, paste, landed>>
  BY DEF DiscardRecording, engine, webview
<1> QED
  BY <1>1, <1>2, Closing, Untouched DEF DiscardRecording, DInv, Step

LEMMA CancelFromKeyboardSteps ==
  ASSUME DInv, CancelFromKeyboard
  PROVE  Step
<1>1. FlightStep
  BY ThrowAwayDiscards DEF CancelFromKeyboard, FlightStep, Keeps, DInv, Flight
<1>2. UNCHANGED <<job, busy, page_text, renders, paste, landed>>
  BY DEF CancelFromKeyboard, engine, webview
<1> QED
  BY <1>1, <1>2, Closing, Untouched DEF CancelFromKeyboard, PanelCancel, DInv, Step

LEMMA Keeping ==
  ASSUME DInv, UNCHANGED <<spoken, in_flight, discarded>>
  PROVE  FlightStep
BY DEF DInv, Flight, FlightStep, Keeps

LEMMA OpenPanelIdleSteps ==
  ASSUME DInv, OpenPanelIdle
  PROVE  Step
<1>1. FeedHeldStep
  BY Telling, PlainEvents DEF OpenPanelIdle, PanelOpenIdle, DInv
<1> QED
  BY <1>1, Keeping, Untouched
     DEF OpenPanelIdle, PanelOpenIdle, DInv, session, engine, webview, history, Step

LEMMA TransferFromKeyboardSteps ==
  ASSUME DInv, TransferFromKeyboard
  PROVE  Step
<1>1. PasteStep
  BY SpawnCarries DEF TransferFromKeyboard, DInv, Shape, PasteStep, Carried, Texts
<1> QED
  BY <1>1, Keeping, Untouched
     DEF TransferFromKeyboard, DInv, session, engine, panel, webview, history, Step

LEMMA CopyFromKeyboardSteps ==
  ASSUME DInv, CopyFromKeyboard
  PROVE  Step
<1>1. UNCHANGED <<spoken, in_flight, discarded, job, busy, page_text, renders, paste, landed>>
  BY DEF CopyFromKeyboard, session, engine, webview, history
<1>2. FeedHeldStep /\ HeldStep
  BY <1>1, Closing, Untouched DEF CopyFromKeyboard, panel, DInv
<1> QED
  BY <1>1, <1>2, Keeping, Untouched DEF DInv, Step

LEMMA ReapplySteps ==
  ASSUME DInv, Reapply
  PROVE  Step
<1>1. UNCHANGED <<spoken, discarded, job, busy, dictation, edited, page_text, renders,
                  paste, landed>>
  BY DEF Reapply, engine, webview, history
<1>2. in_flight' \in {in_flight, None}
  BY DEF Reapply
<1>3. FlightStep
  BY <1>1, <1>2 DEF FlightStep, Keeps, LetsGo, DInv, Flight
<1>4. FeedHeldStep
  BY Telling, PlainEvents, Untouched DEF Reapply, DInv
<1> QED
  BY <1>1, <1>3, <1>4, Untouched DEF DInv, Step

-----------------------------------------------------------------------------
(* The engine. *)
LEMMA EngineTakeSteps ==
  ASSUME DInv, EngineTake
  PROVE  Step
<1>1. UNCHANGED <<spoken, in_flight, discarded, page_text, renders, paste, landed>>
  BY DEF EngineTake, session, webview, history
<1>2. job' = None /\ busy' \in {job, None}
  BY DEF EngineTake
<1>3. CASE Tell("working", None) /\ UNCHANGED panel
  <2>1. FeedHeldStep
    BY <1>3, Telling, PlainEvents DEF DInv
  <2>2. HeldStep
    BY <1>1, <1>2, <1>3 DEF panel, DInv, Shape, HeldStep, Carried, Held, Texts
  <2> QED
    BY <1>1, <2>1, <2>2, Keeping, Untouched DEF DInv, Step
<1>4. CASE PanelClose
  <2>1. FeedHeldStep
    BY <1>4, Closing DEF DInv
  <2>2. HeldStep
    BY <1>1, <1>2, <1>4 DEF PanelClose, DInv, Shape, HeldStep, Carried, Held, Texts
  <2> QED
    BY <1>1, <2>1, <2>2, Keeping, Untouched DEF DInv, Step
<1> QED
  BY <1>3, <1>4 DEF EngineTake

LEMMA EngineAnswerSteps ==
  ASSUME DInv, EngineAnswer
  PROVE  Step
<1>1. UNCHANGED <<spoken, in_flight, discarded, job, page_text, renders, paste, landed>>
  BY DEF EngineAnswer, session, webview, history
<1>2. busy # None /\ busy' = None /\ busy \in Texts /\ Carried(busy)
  BY DEF EngineAnswer, DInv, Shape, Carried, Held
<1>3. CASE PanelShowResult(busy)
  <2>1. [kind |-> "result", text |-> busy] \in Events
    BY <1>2 DEF Events, Texts
  <2>2. FeedHeldStep
    BY <1>2, <1>3, <2>1, Telling DEF PanelShowResult, DInv
  <2>3. HeldStep
    BY <1>1, <1>2, <1>3 DEF PanelShowResult, DInv, Shape, HeldStep, Carried, Held, Texts
  <2> QED
    BY <1>1, <2>2, <2>3, Keeping, Untouched DEF DInv, Step
<1>4. CASE PanelClose
  <2>1. FeedHeldStep
    BY <1>4, Closing DEF DInv
  <2>2. HeldStep
    BY <1>1, <1>2, <1>4 DEF PanelClose, DInv, Shape, HeldStep, Carried, Held, Texts
  <2> QED
    BY <1>1, <2>1, <2>2, Keeping, Untouched DEF DInv, Step
<1> QED
  BY <1>3, <1>4 DEF EngineAnswer

-----------------------------------------------------------------------------
(* The paste threads. *)
LEMMA TransferAimSteps ==
  ASSUME DInv, NEW t \in Threads, TransferAim(t)
  PROVE  Step
<1>1. UNCHANGED <<spoken, in_flight, discarded, job, busy, dictation, page_text, feed,
                  renders, landed>>
  BY DEF TransferAim, session, engine, webview, history
<1>2. paste[t].body \in Texts /\ Carried(paste[t].body)
  BY DEF DInv, Shape, Thread, Carried, InPaste
<1>3. edited' \in {edited, paste[t].body}
  BY DEF TransferAim
<1>4. HeldStep
  BY <1>1, <1>2, <1>3 DEF DInv, Shape, HeldStep, Carried, Held
<1>5. PasteStep
  <2>1. edited' \in Texts /\ Carried(edited')
    BY <1>2, <1>3 DEF DInv, Shape, Carried, Held
  <2>2. CASE paste' = [paste EXCEPT ![t] = Idle]
    BY <2>2 DEF DInv, Shape, PasteStep, Carried, InPaste, Thread, Idle, Texts
  <2>3. ASSUME NEW w \in Windows \union {NoWindow},
               paste' = [paste EXCEPT ![t] = [pc |-> "aimed", body |-> edited', target |-> w]]
        PROVE  PasteStep
    <3>1. paste' \in [Threads -> Thread]
      BY <2>1, <2>3 DEF DInv, Shape, Thread
    <3>2. ASSUME NEW x, InPaste(x)'
          PROVE  x = edited' \/ InPaste(x)
      BY <2>3, <3>2 DEF DInv, Shape, InPaste
    <3> QED
      BY <2>1, <3>1, <3>2 DEF PasteStep, Carried
  <2>4. target \in Windows \union {NoWindow}
    BY DEF DInv, Shape, Places
  <2> QED
    BY <2>2, <2>3, <2>4 DEF TransferAim
<1> QED
  BY <1>1, <1>4, <1>5, Keeping, Untouched DEF DInv, Step

(* A thread that goes on with the text it has carries what it carried. *)
LEMMA SamePaste ==
  ASSUME Shape, NEW t \in Threads,
         \/ \E pc \in {"closed", "gone"} : paste' = [paste EXCEPT ![t].pc = pc]
         \/ paste' = [paste EXCEPT ![t] = Idle]
  PROVE  PasteStep
<1>1. CASE paste' = [paste EXCEPT ![t] = Idle]
  BY <1>1 DEF Shape, PasteStep, Carried, InPaste, Thread, Idle, Texts
<1>2. ASSUME NEW pc \in {"closed", "gone"}, paste' = [paste EXCEPT ![t].pc = pc]
      PROVE  PasteStep
  <2>1. paste' \in [Threads -> Thread]
    BY <1>2 DEF Shape, Thread
  <2>2. \A u \in Threads : paste'[u].body = paste[u].body
    BY <1>2 DEF Shape, Thread
  <2> QED
    BY <2>1, <2>2 DEF PasteStep, Carried, InPaste
<1> QED
  BY <1>1, <1>2

LEMMA TransferCloseSteps ==
  ASSUME DInv, NEW t \in Threads, TransferClose(t)
  PROVE  Step
<1>1. UNCHANGED <<spoken, in_flight, discarded, job, busy, page_text, renders, landed>>
  BY DEF TransferClose, session, engine, webview, history
<1>2. PasteStep
  BY SamePaste DEF TransferClose, DInv
<1>3. FeedHeldStep /\ HeldStep
  BY <1>1, Closing, Telling, PlainEvents, Untouched DEF TransferClose, panel, DInv
<1> QED
  BY <1>1, <1>2, <1>3, Keeping, Untouched DEF DInv, Step

LEMMA TransferPasteSteps ==
  ASSUME DInv, NEW t \in Threads, TransferPaste(t)
  PROVE  Step
<1>1. UNCHANGED <<spoken, in_flight, discarded, job, busy, dictation, edited, page_text, renders>>
  BY DEF TransferPaste, session, engine, panel, webview
<1>2. PasteStep
  BY SamePaste DEF TransferPaste, DInv
<1>3. FeedHeldStep
  BY Telling, PlainEvents, Untouched DEF TransferPaste, DInv
<1>4. LandedStep
  <2>1. CASE UNCHANGED landed
    BY <2>1, Untouched DEF DInv
  <2>2. CASE landed' = [landed EXCEPT ![paste[t].body] = Append(@, paste[t].target)]
    BY <2>2 DEF DInv, Shape, LandedStep, InLanded, Carried, InPaste
  <2> QED
    BY <2>1, <2>2 DEF TransferPaste
<1> QED
  BY <1>1, <1>2, <1>3, <1>4, Keeping, Untouched DEF DInv, Step

LEMMA TransferEndSteps ==
  ASSUME DInv, NEW t \in Threads, TransferEnd(t)
  PROVE  Step
BY SamePaste, Keeping, Untouched
   DEF TransferEnd, DInv, session, engine, panel, webview, history, Step

-----------------------------------------------------------------------------
(* The page, its timers and its buttons. *)
LEMMA EngineComesAndGoesSteps ==
  ASSUME DInv, EngineComesAndGoes
  PROVE  Step
BY Keeping, Untouched DEF EngineComesAndGoes, DInv, session, panel, webview, history, Step

LEMMA PageHandleSteps ==
  ASSUME DInv, PageHandle
  PROVE  Step
<1>1. UNCHANGED <<spoken, in_flight, discarded, job, busy, dictation, edited, paste, landed>>
  BY DEF PageHandle, session, engine, panel, history
<1>2. UNCHANGED page_text
  BY DEF PageHandle, Draw, webview
<1>3. Head(feed) \in Events /\ Carried(Head(feed).text) /\ FeedHeldStep
  BY FeedTailCarries DEF PageHandle, DInv, Shape, FeedHeldStep, Carried
<1>4. renders' = renders \/ renders' = renders \union {Head(feed)}
  BY DEF PageHandle, Draw, webview
<1>5. RendersStep
  BY <1>3, <1>4 DEF DInv, Shape, RendersStep, InRenders, Carried
<1> QED
  BY <1>1, <1>2, <1>3, <1>5, Keeping, Untouched DEF DInv, Step

LEMMA PageRenderSteps ==
  ASSUME DInv, PageRender
  PROVE  Step
<1>1. UNCHANGED <<spoken, in_flight, discarded, job, busy, dictation, edited, feed, paste, landed>>
  BY DEF PageRender, session, engine, panel, history
<1>2. PICK e \in renders : renders' = renders \ {e} /\ page_text' \in {page_text, e.text}
  BY DEF PageRender
<1>3. e.text \in Texts /\ Carried(e.text)
  BY DEF DInv, Shape, Events, Texts, Carried, InRenders
<1>4. RendersStep
  BY <1>2 DEF DInv, Shape, RendersStep, InRenders, Carried
<1>5. HeldStep
  BY <1>1, <1>2, <1>3 DEF DInv, Shape, HeldStep, Held, Carried
<1> QED
  BY <1>1, <1>4, <1>5, Keeping, Untouched DEF DInv, Step

(* The page asks for a transfer of the text it shows. *)
LEMMA PageSpawns ==
  ASSUME DInv, Spawn(page_text)
  PROVE  PasteStep
BY SpawnCarries DEF DInv, Shape, PasteStep, Carried, Held

LEMMA CountdownEndsSteps ==
  ASSUME DInv, CountdownEnds
  PROVE  Step
BY PageSpawns, Keeping, Untouched
   DEF CountdownEnds, DInv, session, engine, panel, history, Step

LEMMA ClickTransferSteps ==
  ASSUME DInv, ClickTransfer
  PROVE  Step
BY PageSpawns, Keeping, Untouched
   DEF ClickTransfer, DInv, session, engine, panel, history, Step

LEMMA StopCountdownSteps ==
  ASSUME DInv, StopCountdown
  PROVE  Step
BY Keeping, Untouched DEF StopCountdown, DInv, session, engine, panel, history, Step

(* What only takes the card down, or leaves it as it is. *)
LEMMA TakingDown ==
  ASSUME DInv,
         UNCHANGED <<spoken, in_flight, discarded, job, busy, page_text, renders, paste, landed>>,
         PanelClose \/ UNCHANGED <<panel, feed>>
  PROVE  Step
<1>1. FeedHeldStep /\ HeldStep
  BY Closing, Untouched DEF panel, DInv
<1> QED
  BY <1>1, Keeping, Untouched DEF DInv, Step

LEMMA CardComesDownSteps ==
  ASSUME DInv, CloseTimerEnds \/ ClickCopy \/ ClickCancel \/ ClickRerecord
  PROVE  Step
<1>1. UNCHANGED <<spoken, in_flight, discarded, job, busy, page_text, renders, paste, landed>>
  BY DEF CloseTimerEnds, ClickCopy, ClickCancel, ClickRerecord, session, engine, webview, history
<1>2. PanelClose \/ UNCHANGED <<panel, feed>>
  BY DEF CloseTimerEnds, ClickCopy, ClickCancel, ClickRerecord, PanelCancel
<1> QED
  BY <1>1, <1>2, TakingDown

(* The hotkey and the desktop touch nothing a dictation can be in. *)
LEMMA OutsideSteps ==
  ASSUME DInv,
         PressTrigger \/ EndPress \/ PressPanelKey \/ MoveFocus \/ CloseWindow \/ UNCHANGED vars
  PROVE  Step
<1>1. UNCHANGED <<session, engine, panel, feed, webview, paste, history>>
  BY DEF PressTrigger, EndPress, PressPanelKey, MoveFocus, CloseWindow, vars
<1> QED
  BY <1>1, TakingDown DEF session, engine, webview, history

-----------------------------------------------------------------------------
(* The focus is on a window that exists, and so was what the panel aims at *)
(* when it was captured.                                                   *)
LEMMA PlacesPreserved ==
  ASSUME DInv, [Next]_vars
  PROVE  Places'
<1> USE DEF Places
<1>1. CASE UNCHANGED <<desktop, target>>
  BY <1>1 DEF DInv, Shape, desktop
<1>2. CASE PanelBegin /\ UNCHANGED desktop
  BY <1>2 DEF DInv, Shape, desktop, PanelBegin
<1>3. CASE MoveFocus \/ CloseWindow
  BY <1>3 DEF DInv, Shape, MoveFocus, CloseWindow, panel
<1>4. CASE \E t \in Threads : TransferPaste(t)
  BY <1>4 DEF DInv, Shape, TransferPaste, panel
<1>5. CASE Session \/ Reapply
  BY <1>1, <1>2, <1>5
     DEF Session, StartRecording, StopRecording, DiscardRecording, OpenPanelIdle,
         CancelFromKeyboard, TransferFromKeyboard, CopyFromKeyboard, TakeRecording, Finish, Reapply,
         PanelOpenIdle, PanelClose, PanelCancel, panel
<1>6. CASE EngineTake \/ EngineAnswer \/ EngineComesAndGoes
  BY <1>1, <1>6 DEF EngineTake, EngineAnswer, EngineComesAndGoes, PanelShowResult, PanelClose, panel
<1>7. CASE \E t \in Threads : TransferAim(t) \/ TransferClose(t) \/ TransferEnd(t)
  BY <1>1, <1>7 DEF TransferAim, TransferClose, TransferEnd, PanelClose, panel
<1>8. CASE Page \/ Pointer
  BY <1>1, <1>8 DEF Page, PageHandle, PageRender, CountdownEnds, CloseTimerEnds, Pointer,
     StopCountdown, ClickTransfer, ClickCopy, ClickCancel, ClickRerecord, PanelClose, PanelCancel,
     panel
<1>9. CASE PressTrigger \/ EndPress \/ PressPanelKey \/ UNCHANGED vars
  BY <1>1, <1>9 DEF PressTrigger, EndPress, PressPanelKey, vars, panel
<1> QED
  BY <1>3, <1>4, <1>5, <1>6, <1>7, <1>8, <1>9 DEF Next, Transfer

LEMMA DInvHoldsAtFirst ==
  ASSUME Init
  PROVE  DInv
<1>1. Flight
  BY DictationAssumption DEF Init, Flight, None
<1>2. Shape
  BY DEF Init, Shape, Places, Thread, Idle, Texts
<1>3. \A x : Carried(x) => x = None
  BY DEF Init, Carried, Held, InFeed, InRenders, InPaste, InLanded, Idle
<1> QED
  BY <1>1, <1>2, <1>3 DEF DInv, Handed

LEMMA EveryStep ==
  ASSUME DInv, [Next]_vars
  PROVE  DInv'
<1>1. Places'
  BY PlacesPreserved
<1>2. CASE Session
  BY <1>2, StartRecordingSteps, StopRecordingSteps, DiscardRecordingSteps, OpenPanelIdleSteps,
     CancelFromKeyboardSteps, TransferFromKeyboardSteps, CopyFromKeyboardSteps, <1>1, StepPreserves
     DEF Session
<1>3. CASE \E t \in Threads : Transfer(t)
  BY <1>3, TransferAimSteps, TransferCloseSteps, TransferPasteSteps, TransferEndSteps, <1>1,
     StepPreserves DEF Transfer
<1>4. CASE Reapply \/ EngineTake \/ EngineAnswer \/ EngineComesAndGoes
  BY <1>4, ReapplySteps, EngineTakeSteps, EngineAnswerSteps, EngineComesAndGoesSteps, <1>1,
     StepPreserves
<1>5. CASE Page \/ Pointer
  BY <1>5, PageHandleSteps, PageRenderSteps, CountdownEndsSteps, CardComesDownSteps,
     StopCountdownSteps, ClickTransferSteps, <1>1, StepPreserves DEF Page, Pointer
<1>6. CASE PressTrigger \/ EndPress \/ PressPanelKey \/ MoveFocus \/ CloseWindow \/ UNCHANGED vars
  BY <1>6, OutsideSteps, <1>1, StepPreserves
<1> QED
  BY <1>2, <1>3, <1>4, <1>5, <1>6 DEF Next

(* Nothing that was thrown away, and nothing that is still being recorded, *)
(* is anywhere a dictation can be: with the engine, in the card, on its    *)
(* way to the page, in the page, with a paste thread or in a window.       *)
THEOREM OnlyTheHandedOver == Spec => []DInv
BY DInvHoldsAtFirst, EveryStep, PTL DEF Spec

(* Thrown away is thrown away, for any number of windows, paste threads    *)
(* and dictations and whatever happens around the application (session.rs, *)
(* DiscardRecording and PanelCancel).                                      *)
THEOREM DiscardedStaysGone == Spec => []DiscardedIsGone
<1>1. DInv => DiscardedIsGone
  <2> SUFFICES ASSUME DInv, NEW d \in discarded
               PROVE  d \notin {in_flight, job, busy, dictation} /\ landed[d] = <<>>
    BY DEF DiscardedIsGone
  <2>1. d \in Dictations /\ d # None /\ d # in_flight /\ ~Handed(d)
    BY DictationAssumption DEF DInv, Flight, Handed, Dictations, None
  <2> QED
    BY <2>1 DEF DInv, Carried, Held, InLanded
<1> QED
  BY <1>1, OnlyTheHandedOver, PTL

-----------------------------------------------------------------------------
(* The rest of the typing. *)
Flags ==
  /\ live \in BOOLEAN /\ recording \in BOOLEAN /\ capture \in BOOLEAN
  /\ loaded \in BOOLEAN /\ armed \in BOOLEAN
  /\ mode \in {"Closed", "Idle", "Live", "Result"}
  /\ page \in PageModes /\ timer \in {"none", "countdown", "close"}

Queues ==
  /\ actions \in Seq(Action) /\ Len(actions) <= ActionBound
  /\ Len(feed) <= FeedBound

Past ==
  /\ aimed \in [Dictations -> Windows \union {NoWindow}]
  /\ landed \in [Dictations -> Seq(Windows)]

LEMMA FlagsPreserved ==
  ASSUME DInv, Flags, [Next]_vars
  PROVE  Flags'
<1>1. CASE StartRecording \/ StopRecording
  BY <1>1
     DEF StartRecording, StopRecording, CaptureLost, TakeRecording, Finish, Take, PanelBegin, PanelClose, Show,
         session, engine, panel, webview, Flags
<1>2. CASE DiscardRecording \/ OpenPanelIdle \/ CancelFromKeyboard
  BY <1>2
     DEF DiscardRecording, OpenPanelIdle, CancelFromKeyboard, ThrowAway, Take, PanelOpenIdle, PanelClose,
         PanelCancel, Show, session, engine, webview, Flags
<1>3. CASE TransferFromKeyboard \/ CopyFromKeyboard \/ Reapply
  BY <1>3
     DEF TransferFromKeyboard, CopyFromKeyboard, Reapply, Take, PanelClose, hotkey, session, engine, panel,
         webview, Flags
<1>4. CASE EngineTake \/ EngineAnswer \/ EngineComesAndGoes
  BY <1>4 DEF EngineTake, EngineAnswer, EngineComesAndGoes, PanelShowResult, PanelClose, Show,
              hotkey, session, engine, panel, webview, Flags
<1>5. CASE \E t \in Threads : Transfer(t)
  BY <1>5 DEF Transfer, TransferAim, TransferClose, TransferPaste, TransferEnd, PanelClose,
              hotkey, session, engine, panel, webview, Flags
<1>6. CASE Page
  <2>1. CASE PageHandle
    BY <2>1 DEF PageHandle, Draw, hotkey, session, engine, panel, webview, Flags, PageModes
  <2>2. CASE PageRender
    BY <2>2 DEF PageRender, hotkey, session, engine, panel, Flags, PageModes
  <2>3. CASE CountdownEnds \/ CloseTimerEnds
    BY <2>3 DEF CountdownEnds, CloseTimerEnds, PanelClose, hotkey, session, engine, panel, Flags
  <2> QED
    BY <1>6, <2>1, <2>2, <2>3 DEF Page
<1>7. CASE Pointer
  BY <1>7 DEF Pointer, StopCountdown, ClickTransfer, ClickCopy, ClickCancel, ClickRerecord, PanelClose,
              PanelCancel, hotkey, session, engine, panel, webview, Flags
<1>8. CASE PressTrigger \/ EndPress \/ PressPanelKey \/ MoveFocus \/ CloseWindow \/ UNCHANGED vars
  BY <1>8 DEF PressTrigger, EndPress, PressPanelKey, MoveFocus, CloseWindow, vars, hotkey, session,
              engine, panel, webview, Flags
<1> QED
  BY <1>1, <1>2, <1>3, <1>4, <1>5, <1>6, <1>7, <1>8 DEF Next, Session

LEMMA EmitFits ==
  ASSUME Queues, NEW as \in Seq(Action), Emit(as)
  PROVE  actions' \in Seq(Action) /\ Len(actions') <= ActionBound
<1>1. actions \o as \in Seq(Action)
  BY ConcatProperties DEF Queues
<1>2. Len(actions \o as) = Len(actions) + Len(as)
  BY ConcatProperties DEF Queues
<1> QED
  BY <1>1, <1>2 DEF Emit

LEMMA TellFits ==
  ASSUME feed \in Seq(Events), NEW k, NEW d, Tell(k, d)
  PROVE  Len(feed') <= FeedBound
<1>1. Len(feed) \in Nat /\ Len(feed') = Len(feed) + 1 /\ Len(feed) < FeedBound
  BY DEF Tell
<1> QED
  BY <1>1, DictationAssumption

(* Only keys and the re-record button put actions into the channel. *)
LEMMA ActionsStayTyped ==
  ASSUME DInv, Queues, [Next]_vars
  PROVE  actions' \in Seq(Action) /\ Len(actions') <= ActionBound
<1>1. CASE UNCHANGED actions
  BY <1>1 DEF Queues
<1>2. ASSUME actions # <<>>, actions' = Tail(actions)
      PROVE  actions' \in Seq(Action) /\ Len(actions') <= ActionBound
  <2>1. Len(actions) \in Nat /\ Len(actions') = Len(actions) - 1 /\ actions' \in Seq(Action)
    BY <1>2 DEF Queues
  <2> QED
    BY <2>1, DictationAssumption DEF Queues
<1>3. CASE PressTrigger \/ EndPress \/ ClickRerecord
  <2>1. /\ <<"StartRecording">> \in Seq(Action) /\ <<"StopRecording">> \in Seq(Action)
        /\ <<"DiscardRecording">> \in Seq(Action)
        /\ <<"DiscardRecording", "OpenPanelIdle">> \in Seq(Action)
    BY DEF Action
  <2> QED
    BY <1>1, <1>3, <2>1, EmitFits DEF PressTrigger, EndPress, ClickRerecord, hotkey
<1>4. CASE PressPanelKey
  <2>1. PICK a \in PanelActions : Emit(<<a>>) \/ Emit(<<"DiscardRecording", a>>)
    BY <1>4 DEF PressPanelKey
  <2>2. <<a>> \in Seq(Action) /\ <<"DiscardRecording", a>> \in Seq(Action)
    BY DEF Action
  <2> QED
    BY <2>1, <2>2, EmitFits
<1>5. CASE Session
  BY <1>2, <1>5
     DEF Session, StartRecording, StopRecording, DiscardRecording, OpenPanelIdle, CancelFromKeyboard,
         TransferFromKeyboard, CopyFromKeyboard, Take
<1>6. CASE Reapply
  <2>1. CASE actions' = <<>>
    BY <2>1, DictationAssumption
  <2> QED
    BY <1>1, <1>6, <2>1 DEF Reapply, hotkey
<1>7. CASE EngineTake \/ EngineAnswer \/ EngineComesAndGoes \/ \E t \in Threads : Transfer(t)
  BY <1>1, <1>7 DEF EngineTake, EngineAnswer, EngineComesAndGoes, Transfer, TransferAim, TransferClose,
                    TransferPaste, TransferEnd, hotkey
<1>8. CASE Page \/ StopCountdown \/ ClickTransfer \/ ClickCopy \/ ClickCancel
  BY <1>1, <1>8 DEF Page, PageHandle, PageRender, CountdownEnds, CloseTimerEnds, StopCountdown,
                    ClickTransfer, ClickCopy, ClickCancel, hotkey
<1>9. CASE MoveFocus \/ CloseWindow \/ UNCHANGED vars
  BY <1>1, <1>9 DEF MoveFocus, CloseWindow, vars, hotkey
<1> QED
  BY <1>3, <1>4, <1>5, <1>6, <1>7, <1>8, <1>9 DEF Next, Pointer

LEMMA FeedStaysBounded ==
  ASSUME DInv, Queues, [Next]_vars
  PROVE  Len(feed') <= FeedBound
<1>1. feed \in Seq(Events) /\ Len(feed) <= FeedBound
  BY DEF DInv, Shape, Queues
<1>2. CASE UNCHANGED feed
  BY <1>1, <1>2
<1>3. ASSUME NEW k, NEW d, Tell(k, d)
      PROVE  Len(feed') <= FeedBound
  BY <1>1, <1>3, TellFits
<1>4. CASE PanelClose
  BY <1>3, <1>4 DEF PanelClose
<1>5. CASE Session \/ Reapply
  BY <1>2, <1>3, <1>4, <1>5
     DEF Session, StartRecording, StopRecording, DiscardRecording, OpenPanelIdle, CancelFromKeyboard,
         TransferFromKeyboard, CopyFromKeyboard, TakeRecording, Finish, Reapply, PanelBegin,
         PanelOpenIdle, PanelCancel
<1>6. CASE EngineTake \/ EngineAnswer \/ EngineComesAndGoes
  BY <1>2, <1>3, <1>4, <1>6 DEF EngineTake, EngineAnswer, EngineComesAndGoes, PanelShowResult
<1>7. CASE \E t \in Threads : Transfer(t)
  BY <1>2, <1>3, <1>4, <1>7 DEF Transfer, TransferAim, TransferClose, TransferPaste, TransferEnd
<1>8. CASE PageHandle
  <2>1. feed # <<>> /\ feed' = Tail(feed)
    BY <1>8 DEF PageHandle
  <2>2. Len(feed) \in Nat /\ Len(feed') = Len(feed) - 1
    BY <1>1, <2>1
  <2> QED
    BY <1>1, <2>2, DictationAssumption
<1>9. CASE PageRender \/ CountdownEnds \/ CloseTimerEnds \/ Pointer
  BY <1>2, <1>4, <1>9 DEF PageRender, CountdownEnds, CloseTimerEnds, Pointer, StopCountdown,
                          ClickTransfer, ClickCopy, ClickCancel, ClickRerecord, PanelCancel
<1>10. CASE PressTrigger \/ EndPress \/ PressPanelKey \/ MoveFocus \/ CloseWindow \/ UNCHANGED vars
  BY <1>2, <1>10 DEF PressTrigger, EndPress, PressPanelKey, MoveFocus, CloseWindow, vars
<1> QED
  BY <1>5, <1>6, <1>7, <1>8, <1>9, <1>10 DEF Next, Page

(* Where each dictation was aimed, and where it has landed: a window that  *)
(* is pasted into is one that is open.                                     *)
LEMMA PastPreserved ==
  ASSUME DInv, Past, [Next]_vars
  PROVE  Past'
<1> USE DEF Past
<1>1. CASE UNCHANGED <<aimed, landed>>
  BY <1>1
<1>2. CASE StartRecording
  BY <1>1, <1>2 DEF StartRecording, DInv, Shape, Places
<1>3. ASSUME NEW t \in Threads, TransferPaste(t)
      PROVE  Past'
  <2>1. CASE UNCHANGED <<aimed, landed>>
    BY <2>1
  <2>2. CASE /\ paste[t].target \in open /\ UNCHANGED aimed
             /\ landed' = [landed EXCEPT ![paste[t].body] = Append(@, paste[t].target)]
    <3>1. paste[t].target \in Windows
      BY <2>2 DEF DInv, Shape, Places
    <3>2. ASSUME NEW d \in Dictations
          PROVE  Append(landed[d], paste[t].target) \in Seq(Windows)
      BY <3>1
    <3> QED
      BY <2>2, <3>2
  <2> QED
    BY <1>3, <2>1, <2>2 DEF TransferPaste
<1>4. CASE Session \/ Reapply
  BY <1>1, <1>2, <1>4
     DEF Session, StopRecording, DiscardRecording, OpenPanelIdle, CancelFromKeyboard,
         TransferFromKeyboard, CopyFromKeyboard, Reapply, history
<1>5. CASE EngineTake \/ EngineAnswer \/ EngineComesAndGoes \/ \E t \in Threads : Transfer(t)
  BY <1>1, <1>3, <1>5 DEF EngineTake, EngineAnswer, EngineComesAndGoes, Transfer, TransferAim,
                          TransferClose, TransferEnd, history
<1>6. CASE Page \/ Pointer
  BY <1>1, <1>6 DEF Page, PageHandle, PageRender, CountdownEnds, CloseTimerEnds, Pointer,
     StopCountdown, ClickTransfer, ClickCopy, ClickCancel, ClickRerecord, history
<1>7. CASE PressTrigger \/ EndPress \/ PressPanelKey \/ MoveFocus \/ CloseWindow \/ UNCHANGED vars
  BY <1>1, <1>7 DEF PressTrigger, EndPress, PressPanelKey, MoveFocus, CloseWindow, vars, history
<1> QED
  BY <1>4, <1>5, <1>6, <1>7 DEF Next

TypeInv == DInv /\ Flags /\ Queues /\ Past

LEMMA TypeInvHoldsAtFirst ==
  ASSUME Init
  PROVE  TypeInv
<1>1. Flags
  BY DEF Init, Flags, PageModes
<1>2. Queues
  BY DictationAssumption DEF Init, Queues
<1>3. Past
  BY DEF Init, Past
<1> QED
  BY <1>1, <1>2, <1>3, DInvHoldsAtFirst DEF TypeInv

LEMMA TypesStay ==
  ASSUME TypeInv, [Next]_vars
  PROVE  TypeInv'
<1>1. DInv' /\ Flags' /\ Past'
  BY EveryStep, FlagsPreserved, PastPreserved DEF TypeInv
<1>2. Queues'
  BY ActionsStayTyped, FeedStaysBounded DEF TypeInv, Queues
<1> QED
  BY <1>1, <1>2 DEF TypeInv

(* Every variable keeps its type, and neither of the two channels ever     *)
(* holds more than its bound (session.rs, panel.rs and panel.js as they    *)
(* run together).                                                          *)
THEOREM TypeCorrect == Spec => []TypeOK
<1>1. TypeInv => TypeOK
  <2> SUFFICES ASSUME TypeInv PROVE TypeOK
    OBVIOUS
  <2>1. spoken \in 0..MaxDictations /\ in_flight \in Texts /\ discarded \subseteq Dictations
    BY DictationAssumption DEF TypeInv, DInv, Flight, Texts, Dictations, None
  <2>2. /\ focus \in open \union {NoWindow} /\ open \subseteq Windows
        /\ target \in Windows \union {NoWindow}
        /\ feed \in Seq(Events) /\ renders \subseteq Events /\ paste \in [Threads -> Thread]
        /\ {job, busy, dictation, edited, page_text} \subseteq Texts
    BY DEF TypeInv, DInv, Shape, Places
  <2> QED
    BY <2>1, <2>2 DEF TypeInv, TypeOK, Flags, Queues, Past, Thread
<1> QED
  BY <1>1, TypeInvHoldsAtFirst, TypesStay, PTL DEF Spec

-----------------------------------------------------------------------------
(* Somebody who waits for one dictation to settle before the next, over a  *)
(* hotkey and a microphone that are not changed in use.  Whatever else     *)
(* happens then, the channel to the session holds at most one recording,   *)
(* at its head; nothing of an earlier dictation is left when it begins;    *)
(* and until it ends the card, the engine and the page are its own.        *)
Patient == "impatience" \notin Disturbances /\ "settings" \notin Disturbances

Ends   == {"StopRecording", "DiscardRecording"}
Coming == actions # <<>> /\ actions[1] = "StartRecording"
Told   == {feed[i] : i \in 1..Len(feed)}

Ordered == \A i \in 1..Len(actions) :
  /\ actions[i] = "StartRecording" => i = 1
  /\ actions[i] = "OpenPanelIdle" /\ (recording \/ Coming) => \E j \in 1..i - 1 : actions[j] \in Ends

Pressed == recording \/ Coming => live \/ \E i \in 1..Len(actions) : actions[i] \in Ends

(* A dictation is in one place only. *)
Spent == job = None /\ busy = None /\ in_flight = None

Heard == (in_flight # None => recording /\ capture) /\ (busy # None => job = None)

Hushed == Coming =>
  /\ ~recording /\ Spent /\ mode = "Closed" /\ feed = <<>> /\ renders = {}
  /\ page = "closed" /\ \A t \in Threads : paste[t] = Idle

Alone == recording =>
  /\ mode \in {"Live", "Closed"} /\ dictation = None /\ job = None /\ busy = None /\ renders = {}
  /\ page \in {"closed", "recording"} /\ timer = "none"
  /\ \A e \in Told : e.kind \in {"recording", "closed"}
  /\ \A t \in Threads : paste[t].pc \in {"idle", "asked"}

Counting == (page = "closed" => timer = "none") /\ (timer = "countdown" => page = "result")

(* No text will be pasted any more, whichever it is. *)
Stranded == target \notin open \/ (mode # "Result" /\ Spent)

(* All there is is the newest dictation, aimed where it was begun. *)
Current == {in_flight, job, busy, dictation} \subseteq {None, spoken} /\ (spoken > 0 => target = aimed[spoken])

Card == mode = "Result" => Spent /\ spoken > 0 /\ (target \in open => edited = spoken)

(* What an event says of a result is of the newest, and a window is said   *)
(* to be gone only when nothing will be pasted.                            *)
Meant(e) == (e.kind = "result" => e.text = spoken) /\ (e.kind = "gone" => Stranded)

Fed      == \A e \in Told : Meant(e)
Rendered == \A e \in renders : Meant(e)

Paged == (page = "result" => page_text = spoken) /\ (page = "gone" => Stranded)

Sound(t) ==
  /\ paste[t].pc = "asked" => paste[t].body \in {None, spoken} \/ Stranded
  /\ paste[t].pc \in {"aimed", "closed"} =>
       /\ spoken > 0 /\ Spent /\ paste[t].target = aimed[spoken]
       /\ paste[t].body = spoken \/ paste[t].target \notin open
  /\ paste[t].pc = "closed" => mode # "Result"

Pasting == \A t \in Threads : Sound(t)

Rest == Heard /\ Hushed /\ Alone /\ Counting /\ Current /\ Card /\ Fed /\ Rendered /\ Paged /\ Pasting

PatientInv == Ordered /\ Pressed /\ Rest /\ PastedWhereSpoken

(* The channel when an action is taken from it, and when a key puts some   *)
(* into it.                                                                *)
LEMMA ChannelAfterTake ==
  ASSUME actions \in Seq(Action), actions # <<>>, actions' = Tail(actions), live' = live, Ordered, Pressed,
         recording' => (recording \/ Coming) /\ Head(actions) \notin Ends
  PROVE  /\ Ordered' /\ Pressed' /\ ~Coming'
         /\ Head(actions) = "OpenPanelIdle" => ~recording
         /\ Head(actions) = "StartRecording" <=> Coming
<1> PICK n \in Nat : n + 1 = Len(actions)
  <2>1. Len(actions) \in Nat /\ Len(actions) > 0
    OBVIOUS
  <2>2. Len(actions) - 1 \in Nat /\ (Len(actions) - 1) + 1 = Len(actions)
    BY <2>1
  <2> QED
    BY <2>2
<1>1. /\ Len(actions') = n /\ Head(actions) = actions[1]
      /\ \A i \in 1..n : actions'[i] = actions[i + 1] /\ i + 1 \in 1..n + 1
      /\ 1 \in 1..n + 1 /\ (actions' = <<>> <=> n = 0)
  <2>1. actions' \in Seq(Action) /\ Len(actions') = n
    OBVIOUS
  <2>2. actions' = <<>> <=> n = 0
    BY <2>1, EmptySeq
  <2> QED
    BY <2>1, <2>2
<1>2. ~Coming'
  <2>1. n > 0 => actions'[1] = actions[1 + 1] /\ 1 + 1 \in 1..n + 1
    BY <1>1
  <2> QED
    BY <1>1, <2>1 DEF Ordered, Coming
<1>3. ASSUME recording', NEW j \in 1..n + 1, actions[j] \in Ends
      PROVE  j - 1 \in 1..n /\ actions'[j - 1] \in Ends
  <2>1. j # 1
    BY <1>1, <1>3
  <2>2. j - 1 \in 1..n /\ (j - 1) + 1 = j
    BY <2>1
  <2> QED
    BY <1>1, <1>3, <2>2
<1>4. Pressed'
  BY <1>1, <1>2, <1>3 DEF Pressed
<1>5. ASSUME NEW i \in 1..n, actions'[i] = "OpenPanelIdle", recording'
      PROVE  \E j \in 1..i - 1 : actions'[j] \in Ends
  <2>1. PICK j \in 1..(i + 1) - 1 : actions[j] \in Ends
    BY <1>1, <1>5 DEF Ordered
  <2>2. j \in 1..n + 1 /\ j # 1
    BY <1>1, <1>5, <2>1
  <2>3. actions'[j - 1] \in Ends
    BY <1>3, <1>5, <2>1, <2>2
  <2>4. j - 1 \in 1..i - 1
    BY <2>1, <2>2
  <2> QED
    BY <2>3, <2>4
<1>6. ASSUME NEW i \in 1..n PROVE actions'[i] # "StartRecording"
  <2>1. i + 1 # 1
    OBVIOUS
  <2> QED
    BY <1>1, <2>1 DEF Ordered
<1>7. Ordered'
  BY <1>1, <1>2, <1>5, <1>6 DEF Ordered
<1>8. Head(actions) = "OpenPanelIdle" => ~recording
  BY <1>1 DEF Ordered
<1> QED
  BY <1>1, <1>2, <1>4, <1>7, <1>8 DEF Coming

Well(es) == \A i \in 1..Len(es) :
  /\ es[i] # "StartRecording"
  /\ es[i] = "OpenPanelIdle" => \E j \in 1..i - 1 : es[j] \in Ends

Ending(es) == \E i \in 1..Len(es) : es[i] \in Ends

LEMMA ChannelAfterEmit ==
  ASSUME actions \in Seq(Action), NEW es \in Seq(Action), Emit(es), recording' = recording, Ordered, Pressed,
         Well(es), live => live' \/ Ending(es)
  PROVE  Ordered' /\ Pressed' /\ (Coming' => Coming)
<1> PICK n \in Nat : n = Len(actions)
  OBVIOUS
<1> PICK m \in Nat : m = Len(es)
  OBVIOUS
<1>1. /\ actions' \in Seq(Action) /\ Len(actions') = n + m
      /\ \A i \in 1..n : actions'[i] = actions[i] /\ i \in 1..n + m
      /\ \A i \in 1..m : actions'[n + i] = es[i] /\ n + i \in 1..n + m
  BY ConcatProperties DEF Emit
<1>2. \A i \in 1..n + m : i \in 1..n \/ (i - n \in 1..m /\ n + (i - n) = i)
  OBVIOUS
<1>3. Coming' => Coming
  <2> SUFFICES ASSUME Coming' PROVE Coming
    OBVIOUS
  <2>1. n + m > 0 /\ 1 \in 1..n + m
    BY <1>1, EmptySeq DEF Coming
  <2>2. 1 \in 1..n \/ (1 - n \in 1..m /\ n + (1 - n) = 1)
    BY <1>2, <2>1
  <2>3. ~ (1 - n \in 1..m /\ n + (1 - n) = 1)
    BY <1>1 DEF Coming, Well
  <2> QED
    BY <1>1, <2>2, <2>3 DEF Coming
<1>4. ASSUME recording \/ Coming PROVE live' \/ \E i \in 1..n + m : actions'[i] \in Ends
  <2>1. CASE \E i \in 1..n : actions[i] \in Ends
    BY <1>1, <2>1
  <2>2. CASE \E i \in 1..m : es[i] \in Ends
    BY <1>1, <2>2
  <2> QED
    BY <1>4, <2>1, <2>2 DEF Pressed, Ending
<1>5. ASSUME NEW i \in 1..n + m
      PROVE  /\ actions'[i] = "StartRecording" => i = 1
             /\ actions'[i] = "OpenPanelIdle" /\ (recording \/ Coming)
                  => \E j \in 1..i - 1 : actions'[j] \in Ends
  <2>1. CASE i \in 1..n
    <3>1. \A j \in 1..i - 1 : j \in 1..n /\ actions'[j] = actions[j]
      BY <1>1, <2>1
    <3> QED
      BY <1>1, <2>1, <3>1 DEF Ordered
  <2>2. CASE i - n \in 1..m /\ n + (i - n) = i
    <3>1. actions'[i] = es[i - n]
      BY <1>1, <2>2
    <3>2. ASSUME actions'[i] = "OpenPanelIdle" PROVE \E j \in 1..i - 1 : actions'[j] \in Ends
      <4>1. PICK j \in 1..(i - n) - 1 : es[j] \in Ends
        BY <2>2, <3>1, <3>2 DEF Well
      <4>2. n + j \in 1..i - 1 /\ j \in 1..m
        BY <2>2
      <4> QED
        BY <1>1, <4>1, <4>2
    <3> QED
      BY <2>2, <3>1, <3>2 DEF Well
  <2> QED
    BY <1>2, <2>1, <2>2
<1> QED
  BY <1>1, <1>3, <1>4, <1>5 DEF Ordered, Pressed

(* What the page has been told, after one event more and one less. *)
LEMMA ToldMore ==
  ASSUME feed \in Seq(Events), NEW k, NEW d, Tell(k, d)
  PROVE  Told' \subseteq Told \union {[kind |-> k, text |-> d]}
<1> DEFINE e == [kind |-> k, text |-> d]
<1>1. feed' = Append(feed, e)
  BY DEF Tell
<1> HIDE DEF e
<1>2. ASSUME NEW i \in 1..Len(feed') PROVE feed'[i] \in Told \union {e}
  BY <1>1 DEF Told
<1> QED
  BY <1>2 DEF Told, e

LEMMA ToldLess ==
  ASSUME feed \in Seq(Events), feed # <<>>, feed' = Tail(feed)
  PROVE  Told' \subseteq Told /\ Head(feed) \in Told /\ Head(feed) \in Events
<1>1. \A i \in 1..Len(feed') : feed'[i] = feed[i + 1] /\ i + 1 \in 1..Len(feed)
  OBVIOUS
<1>2. 1 \in 1..Len(feed) /\ Head(feed) = feed[1] /\ Head(feed) \in Events
  OBVIOUS
<1> QED
  BY <1>1, <1>2 DEF Told

-----------------------------------------------------------------------------
(* Every step but the beginning of a recording leaves the newest dictation *)
(* where it is aimed, and brings nothing back.                             *)
Forward ==
  /\ UNCHANGED <<spoken, aimed, target>> /\ open' \subseteq open
  /\ Spent => Spent' /\ (mode' = "Result" => mode = "Result")

LEMMA ForwardKeeps ==
  ASSUME Forward
  PROVE  /\ Stranded => Stranded'
         /\ \A e : Meant(e) => Meant(e)'
         /\ \A t \in Threads : Sound(t) /\ paste'[t] \in {paste[t], Idle} => Sound(t)'
<1>1. Stranded => Stranded'
  BY DEF Forward, Stranded
<1>2. \A e : Meant(e) => Meant(e)'
  BY <1>1 DEF Forward, Meant
<1>3. ASSUME NEW t \in Threads, Sound(t), paste'[t] = paste[t]
      PROVE  Sound(t)'
  BY <1>1, <1>3 DEF Forward, Sound
<1>4. ASSUME NEW t \in Threads, paste'[t] = Idle
      PROVE  Sound(t)'
  BY <1>4 DEF Sound, Idle
<1> QED
  BY <1>1, <1>2, <1>3, <1>4

(* The feed, as one event is told and as none is. *)
LEMMA FedStays ==
  ASSUME TypeInv, Fed, Forward
  PROVE  /\ UNCHANGED feed => Fed' /\ Told' = Told
         /\ \A k, d : Tell(k, d) /\ (k = "result" => d = spoken) /\ (k = "gone" => Stranded') => Fed'
         /\ PanelClose => Fed'
<1>1. UNCHANGED feed => Told' = Told
  BY DEF Told
<1>2. ASSUME NEW k, NEW d, Tell(k, d), k = "result" => d = spoken, k = "gone" => Stranded'
      PROVE  Fed'
  <2> DEFINE e == [kind |-> k, text |-> d]
  <2>1. Told' \subseteq Told \union {e}
    BY <1>2, ToldMore DEF TypeInv, DInv, Shape
  <2>2. Meant(e)'
    BY <1>2 DEF Meant, Forward
  <2> HIDE DEF e
  <2> QED
    BY <2>1, <2>2, ForwardKeeps DEF Fed
<1>3. PanelClose => Fed'
  BY <1>2 DEF PanelClose
<1> QED
  BY <1>1, <1>2, <1>3, ForwardKeeps DEF Fed

LEMMA RenderedStays ==
  ASSUME Rendered, Forward, renders' \subseteq renders \union Told, Fed
  PROVE  Rendered'
BY ForwardKeeps DEF Rendered, Fed

LEMMA PagedStays ==
  ASSUME Paged, Forward, UNCHANGED <<page, page_text>>
  PROVE  Paged'
BY ForwardKeeps DEF Paged, Forward

LEMMA PastingStays ==
  ASSUME Pasting, Forward, \A t \in Threads : paste'[t] \in {paste[t], Idle}
  PROVE  Pasting'
BY ForwardKeeps DEF Pasting

(* A transfer of a text that is the newest dictation's, or of no matter. *)
LEMMA PastingSpawned ==
  ASSUME TypeInv, Pasting, Forward, NEW d, Spawn(d), d \in {None, spoken} \/ Stranded
  PROVE  /\ Pasting'
         /\ \A t \in Threads : paste'[t] = paste[t] \/ paste'[t].pc = "asked"
<1>1. PICK t \in Threads : paste' = [paste EXCEPT ![t] = [Idle EXCEPT !.pc = "asked", !.body = d]]
  BY DEF Spawn
<1>2. \A u \in Threads : u # t => paste'[u] = paste[u]
  BY <1>1 DEF TypeInv, DInv, Shape
<1>3. paste'[t] = [pc |-> "asked", body |-> d, target |-> NoWindow]
  BY <1>1 DEF TypeInv, DInv, Shape, Idle
<1>4. Sound(t)'
  BY <1>3, ForwardKeeps DEF Sound, Forward
<1>5. \A u \in Threads : u # t => Sound(u)'
  BY <1>2, ForwardKeeps DEF Pasting
<1> QED
  BY <1>2, <1>3, <1>4, <1>5 DEF Pasting

(* While a recording waits in the channel nobody else has anything to do. *)
LEMMA NobodyElse ==
  ASSUME Rest, EngineTake \/ EngineAnswer \/ (\E t \in Threads : Transfer(t)) \/ Page \/ Pointer
  PROVE  ~Coming
<1> SUFFICES ASSUME Coming PROVE FALSE
  OBVIOUS
<1>1. /\ Spent /\ mode = "Closed" /\ feed = <<>> /\ renders = {} /\ timer = "none"
      /\ \A t \in Threads : paste[t].pc = "idle"
  BY DEF Rest, Hushed, Counting, Idle
<1> QED
  BY <1>1 DEF Spent, EngineTake, EngineAnswer, Transfer, TransferAim, TransferClose, TransferPaste,
     TransferEnd, Page, PageHandle, PageRender, CountdownEnds, CloseTimerEnds, Pointer, StopCountdown,
     ClickTransfer, ClickCopy, ClickCancel, ClickRerecord, OnScreen

-----------------------------------------------------------------------------
(* The engine, the page and the paste threads, one step each; none of them *)
(* moves while a recording waits in the channel.                           *)
LEMMA EngineTakeKeeps ==
  ASSUME TypeInv, Rest, ~Coming', EngineTake
  PROVE  Rest'
<1>1. /\ job # None /\ busy = None /\ job' = None /\ busy' \in {None, job}
      /\ UNCHANGED <<recording, capture, in_flight, spoken, aimed, open, paste, renders, page, page_text,
                     timer>>
      /\ \/ Tell("working", None) /\ UNCHANGED <<mode, dictation, target, edited>>
         \/ PanelClose /\ UNCHANGED target
  <2>1. PanelClose => UNCHANGED target
    BY DEF PanelClose
  <2> QED
    BY <2>1 DEF EngineTake, session, desktop, webview, history, panel
<1>2. ~recording /\ in_flight = None /\ ~Spent /\ mode # "Result"
  BY <1>1 DEF Rest, Alone, Heard, Card, Spent
<1>3. Forward
  BY <1>1, <1>2 DEF Forward
<1>4. Heard' /\ Alone' /\ Counting' /\ Card' /\ Hushed'
  BY <1>1, <1>2 DEF Rest, Heard, Alone, Counting, Card, PanelClose, Hushed
<1>5. Current'
  BY <1>1 DEF Rest, Current, PanelClose
<1>6. Fed' /\ Rendered' /\ Paged' /\ Pasting'
  BY <1>1, <1>3, FedStays, RenderedStays, PagedStays, PastingStays DEF Rest
<1> QED
  BY <1>4, <1>5, <1>6 DEF Rest

LEMMA EngineAnswerKeeps ==
  ASSUME TypeInv, Rest, ~Coming', EngineAnswer
  PROVE  Rest'
<1>1. /\ busy # None /\ busy' = None
      /\ UNCHANGED <<recording, capture, in_flight, job, spoken, aimed, target, open, paste, renders,
                     page, page_text, timer>>
      /\ \/ mode' = "Result" /\ dictation' = busy /\ edited' = busy /\ Tell("result", busy)
         \/ PanelClose
  BY DEF EngineAnswer, session, desktop, webview, history, PanelClose, PanelShowResult
<1>2. ~recording /\ in_flight = None /\ job = None /\ ~Spent /\ busy = spoken /\ spoken > 0
  BY <1>1, DictationAssumption DEF Rest, Alone, Heard, Spent, Current, None, TypeInv, DInv, Flight
<1>3. Forward
  BY <1>1, <1>2 DEF Forward
<1>4. Heard' /\ Alone' /\ Counting' /\ Card' /\ Hushed'
  BY <1>1, <1>2 DEF Rest, Heard, Alone, Counting, Card, PanelClose, Hushed, Spent
<1>5. Current'
  BY <1>1, <1>2 DEF Rest, Current, PanelClose
<1>6. Fed' /\ Rendered' /\ Paged' /\ Pasting'
  BY <1>1, <1>2, <1>3, FedStays, RenderedStays, PagedStays, PastingStays DEF Rest
<1> QED
  BY <1>4, <1>5, <1>6 DEF Rest

LEMMA EngineComesAndGoesKeeps ==
  ASSUME TypeInv, Rest, EngineComesAndGoes
  PROVE  Rest'
BY FedStays DEF EngineComesAndGoes, Rest, Forward, hotkey, desktop, session, panel, webview, history,
   Heard, Hushed, Alone, Counting, Current, Card, Fed, Rendered, Paged, Pasting, Sound, Meant, Stranded,
   Spent, Coming

LEMMA TransferAimKeeps ==
  ASSUME TypeInv, Rest, ~Coming', NEW t \in Threads, TransferAim(t)
  PROVE  Rest'
<1>1. /\ paste[t].pc = "asked"
      /\ UNCHANGED <<recording, capture, in_flight, job, busy, spoken, aimed, target, open, mode,
                     dictation, feed, renders, page, page_text, timer>>
  BY DEF TransferAim, session, desktop, engine, webview, history
<1>2. \/ mode # "Result" /\ paste' = [paste EXCEPT ![t] = Idle] /\ edited' = edited
      \/ /\ mode = "Result" /\ edited' = IF paste[t].body = None THEN edited ELSE paste[t].body
         /\ paste' = [paste EXCEPT ![t] = [pc |-> "aimed", body |-> edited', target |-> target]]
  BY DEF TransferAim
<1>3. paste \in [Threads -> Thread] /\ paste[t] \in Thread /\ Sound(t)
  BY DEF TypeInv, DInv, Shape, Rest, Pasting
<1>4. Forward
  BY <1>1 DEF Forward, Spent
<1>5. Heard' /\ Counting' /\ Current' /\ Hushed'
  BY <1>1 DEF Rest, Heard, Counting, Current, Hushed
<1>6. Fed' /\ Rendered' /\ Paged' /\ Told' = Told
  BY <1>1, <1>4, FedStays, RenderedStays, PagedStays DEF Rest
<1>7. CASE mode # "Result"
  <2>1. \A u \in Threads : paste'[u] \in {paste[u], Idle}
    BY <1>2, <1>3, <1>7
  <2>2. Pasting'
    BY <1>4, <2>1, PastingStays DEF Rest
  <2>3. Alone' /\ Card'
    BY <1>1, <1>2, <1>6, <1>7, <2>1 DEF Rest, Alone, Card, Idle
  <2> QED
    BY <1>5, <1>6, <2>2, <2>3 DEF Rest
<1>8. CASE mode = "Result"
  <2>1. Spent /\ spoken > 0 /\ target = aimed[spoken] /\ ~recording
    BY <1>8 DEF Rest, Card, Current, Alone
  <2>2. edited' = spoken \/ target \notin open
    BY <1>2, <1>3, <1>1, <1>8, <2>1 DEF Rest, Card, Sound, Stranded
  <2>3. paste'[t] = [pc |-> "aimed", body |-> edited', target |-> target]
    BY <1>2, <1>3, <1>8
  <2>4. \A u \in Threads : u # t => paste'[u] = paste[u]
    BY <1>2, <1>3, <1>8
  <2>5. Sound(t)'
    BY <1>1, <2>1, <2>2, <2>3 DEF Sound, Spent
  <2>6. Pasting'
    BY <1>4, <2>4, <2>5, ForwardKeeps DEF Rest, Pasting
  <2>7. Alone' /\ Card'
    BY <1>1, <2>1, <2>2 DEF Alone, Card, Spent
  <2> QED
    BY <1>5, <1>6, <2>6, <2>7 DEF Rest
<1> QED
  BY <1>7, <1>8

LEMMA TransferCloseKeeps ==
  ASSUME TypeInv, Rest, ~Coming', NEW t \in Threads, TransferClose(t)
  PROVE  Rest'
<1>1. /\ paste[t].pc = "aimed"
      /\ UNCHANGED <<recording, capture, in_flight, job, busy, spoken, aimed, target, open, renders,
                     page, page_text, timer>>
  BY DEF TransferClose, session, desktop, engine, webview, history, panel, PanelClose
<1>2. paste \in [Threads -> Thread] /\ paste[t] \in Thread /\ Sound(t)
  BY DEF TypeInv, DInv, Shape, Rest, Pasting
<1>3. ~recording /\ spoken > 0 /\ Spent /\ paste[t].target = aimed[spoken] /\ target = aimed[spoken]
  BY <1>1, <1>2 DEF Rest, Alone, Sound, Current
<1>4. \/ PanelClose /\ paste' = [paste EXCEPT ![t].pc = "closed"]
      \/ /\ paste[t].target \notin open /\ Tell("gone", None) /\ UNCHANGED panel
         /\ paste' = [paste EXCEPT ![t].pc = "gone"]
  BY DEF TransferClose
<1>5. Forward
  BY <1>1, <1>4 DEF Forward, Spent, PanelClose, panel
<1>6. Heard' /\ Counting' /\ Current' /\ Hushed' /\ Alone' /\ Card'
  BY <1>1, <1>3, <1>4 DEF Rest, Heard, Counting, Current, Hushed, Alone, Card, PanelClose, panel, Spent
<1>7. Fed' /\ Rendered' /\ Paged'
  <2>1. PanelClose \/ Stranded'
    BY <1>1, <1>3, <1>4 DEF Stranded
  <2> QED
    BY <1>1, <1>4, <1>5, <2>1, FedStays, RenderedStays, PagedStays DEF Rest
<1>8. Pasting'
  <2>1. Sound(t)'
    <3>1. CASE paste' = [paste EXCEPT ![t].pc = "gone"]
      <4>1. paste'[t].pc = "gone"
        BY <1>2, <3>1 DEF Thread
      <4> QED
        BY <4>1 DEF Sound
    <3>2. CASE PanelClose /\ paste' = [paste EXCEPT ![t].pc = "closed"]
      <4>1. paste'[t].pc = "closed" /\ paste'[t].body = paste[t].body /\ paste'[t].target = paste[t].target
        BY <1>2, <3>2 DEF Thread
      <4> QED
        BY <1>1, <1>2, <3>2, <4>1 DEF Sound, PanelClose, Spent
    <3> QED
      BY <1>4, <3>1, <3>2
  <2>2. \A u \in Threads : u # t => paste'[u] = paste[u]
    BY <1>2, <1>4
  <2> QED
    BY <1>5, <2>1, <2>2, ForwardKeeps DEF Rest, Pasting
<1> QED
  BY <1>6, <1>7, <1>8 DEF Rest

LEMMA TransferPasteKeeps ==
  ASSUME TypeInv, Rest, ~Coming', NEW t \in Threads, TransferPaste(t)
  PROVE  Rest'
<1>1. /\ paste[t].pc = "closed"
      /\ UNCHANGED <<recording, capture, in_flight, job, busy, spoken, aimed, target, open, mode,
                     dictation, edited, renders, page, page_text, timer>>
      /\ UNCHANGED feed \/ Tell("gone", None)
      /\ paste' = [paste EXCEPT ![t] = Idle] \/ paste' = [paste EXCEPT ![t].pc = "gone"]
  BY DEF TransferPaste, session, engine, webview, panel
<1>2. paste \in [Threads -> Thread] /\ paste[t] \in Thread /\ Sound(t)
  BY DEF TypeInv, DInv, Shape, Rest, Pasting
<1>3. ~recording /\ Spent /\ mode # "Result"
  BY <1>1, <1>2 DEF Rest, Alone, Sound
<1>4. Forward
  BY <1>1 DEF Forward, Spent
<1>5. Heard' /\ Counting' /\ Current' /\ Hushed' /\ Alone' /\ Card'
  BY <1>1, <1>3 DEF Rest, Heard, Counting, Current, Hushed, Alone, Card
<1>6. Stranded'
  BY <1>1, <1>3 DEF Stranded, Spent
<1>7. Fed' /\ Rendered' /\ Paged'
  BY <1>1, <1>4, <1>6, FedStays, RenderedStays, PagedStays DEF Rest
<1>8. paste'[t].pc \in {"idle", "gone"} /\ \A u \in Threads : u # t => paste'[u] = paste[u]
  BY <1>1, <1>2 DEF Thread, Idle
<1>9. Pasting'
  BY <1>4, <1>8, ForwardKeeps DEF Rest, Pasting, Sound
<1> QED
  BY <1>5, <1>7, <1>9 DEF Rest

LEMMA TransferEndKeeps ==
  ASSUME TypeInv, Rest, ~Coming', NEW t \in Threads, TransferEnd(t)
  PROVE  Rest'
<1>1. UNCHANGED <<recording, capture, in_flight, job, busy, spoken, aimed, target, open, mode,
                  dictation, edited, feed, renders, page, page_text, timer>>
  BY DEF TransferEnd, session, engine, webview, panel, desktop, history
<1>2. \A u \in Threads : paste'[u] \in {paste[u], Idle}
  BY DEF TransferEnd, TypeInv, DInv, Shape
<1>3. Forward
  BY <1>1 DEF Forward, Spent
<1>4. Fed' /\ Rendered' /\ Paged' /\ Pasting' /\ Told' = Told
  BY <1>1, <1>2, <1>3, FedStays, RenderedStays, PagedStays, PastingStays DEF Rest
<1>5. Heard' /\ Counting' /\ Current' /\ Hushed' /\ Card'
  BY <1>1 DEF Rest, Heard, Counting, Current, Hushed, Card, Spent
<1>6. Alone'
  BY <1>1, <1>2, <1>4 DEF Rest, Alone, Idle
<1> QED
  BY <1>4, <1>5, <1>6 DEF Rest

LEMMA PageHandleKeeps ==
  ASSUME TypeInv, Rest, ~Coming', PageHandle
  PROVE  Rest'
<1> PICK e \in Events : e = Head(feed) /\ e \in Told /\ Told' \subseteq Told
  BY ToldLess DEF PageHandle, TypeInv, DInv, Shape
<1>1. UNCHANGED <<recording, capture, in_flight, job, busy, spoken, aimed, target, open, mode,
                  dictation, edited, paste, page_text>>
  BY DEF PageHandle, Draw, webview, session, engine, panel, desktop, history
<1>2. \/ e.kind = "recording" /\ page' = "recording" /\ timer' = "none" /\ renders' = renders
      \/ e.kind = "closed" /\ page' = "closed" /\ timer' = "none" /\ renders' = renders
      \/ e.kind = "gone" /\ page' = "gone" /\ timer' = "none" /\ renders' = renders
      \/ e.kind \in {"working", "nothing-heard", "no-microphone"} /\ UNCHANGED <<page, timer, renders>>
      \/ /\ e.kind \in {"working", "nothing-heard", "no-microphone"} /\ renders' = renders
         /\ page' \in {"working", "stalled"} /\ timer' \in {"none", "close"}
      \/ e.kind \in {"idle", "result"} /\ UNCHANGED <<page, timer>> /\ renders' = renders \union {e}
  BY DEF PageHandle, Draw, webview
<1>3. Meant(e) /\ (recording => e.kind \in {"recording", "closed"})
  BY DEF Rest, Fed, Alone
<1>4. Forward
  BY <1>1 DEF Forward, Spent
<1>5. Heard' /\ Current' /\ Hushed' /\ Card'
  BY <1>1 DEF Rest, Heard, Current, Hushed, Card, Spent
<1>6. Alone' /\ Counting'
  BY <1>1, <1>2, <1>3 DEF Rest, Alone, Counting
<1>7. Fed' /\ Rendered' /\ Pasting'
  BY <1>1, <1>2, <1>4, ForwardKeeps, RenderedStays, PastingStays DEF Rest, Fed
<1>8. Paged'
  BY <1>1, <1>2, <1>3, <1>4, ForwardKeeps DEF Rest, Paged, Meant
<1> QED
  BY <1>5, <1>6, <1>7, <1>8 DEF Rest

LEMMA PageRenderKeeps ==
  ASSUME TypeInv, Rest, ~Coming', PageRender
  PROVE  Rest'
<1>1. UNCHANGED <<recording, capture, in_flight, job, busy, spoken, aimed, target, open, mode,
                  dictation, edited, feed, paste>>
  BY DEF PageRender, session, engine, panel, desktop, history
<1>2. PICK e \in renders :
        /\ renders' = renders \ {e}
        /\ \/ /\ e.kind = "result" /\ page' = "result" /\ page_text' = e.text
              /\ timer' \in {"countdown", "none"}
           \/ e.kind = "idle" /\ page' = "idle" /\ timer' = "close" /\ UNCHANGED page_text
  BY DEF PageRender
<1>3. ~recording /\ Meant(e)
  BY <1>2 DEF Rest, Alone, Rendered
<1>4. Forward
  BY <1>1 DEF Forward, Spent
<1>5. Heard' /\ Current' /\ Hushed' /\ Card' /\ Alone' /\ Counting'
  BY <1>1, <1>2, <1>3 DEF Rest, Heard, Current, Hushed, Card, Spent, Alone, Counting
<1>6. Fed' /\ Rendered' /\ Pasting'
  BY <1>1, <1>2, <1>4, FedStays, RenderedStays, PastingStays DEF Rest
<1>7. Paged'
  BY <1>1, <1>2, <1>3 DEF Paged, Meant
<1> QED
  BY <1>5, <1>6, <1>7 DEF Rest

(* What takes the card down, or leaves it, and stops the page's timers. *)
LEMMA TakingDownKeeps ==
  ASSUME TypeInv, Rest, ~Coming',
         UNCHANGED <<recording, capture, in_flight, job, busy, spoken, aimed, open, paste, renders, page,
                     page_text>>,
         timer' \in {timer, "none"}, PanelClose \/ UNCHANGED <<panel, feed>>
  PROVE  Rest'
<1>1. Forward /\ Card'
  BY DEF Forward, Card, Rest, PanelClose, panel, Spent
<1>2. Fed' /\ Rendered' /\ Paged' /\ Pasting'
  BY <1>1, FedStays, RenderedStays, PagedStays, PastingStays DEF Rest
<1>3. Heard' /\ Current' /\ Hushed' /\ Counting'
  BY DEF Rest, Heard, Current, Hushed, Counting, PanelClose, panel
<1>4. Alone'
  <2>1. CASE UNCHANGED <<panel, feed>>
    BY <1>1, <2>1, FedStays DEF Rest, Alone, panel
  <2>2. CASE PanelClose
    <3>1. \A e \in Told' : e \in Told \/ e.kind = "closed"
      BY <2>2, ToldMore DEF PanelClose, TypeInv, DInv, Shape
    <3>2. mode' = "Closed" /\ dictation' = None
      BY <2>2 DEF PanelClose
    <3> QED
      BY <3>1, <3>2 DEF Rest, Alone
  <2> QED
    BY <2>1, <2>2
<1> QED
  BY <1>1, <1>2, <1>3, <1>4 DEF Rest

LEMMA CardComesDownKeeps ==
  ASSUME TypeInv, Rest, ~Coming', CloseTimerEnds \/ StopCountdown \/ ClickCopy \/ ClickCancel \/ ClickRerecord
  PROVE  Rest'
<1>1. UNCHANGED <<recording, capture, in_flight, job, busy, spoken, aimed, open, paste, renders, page,
                  page_text>>
  BY DEF CloseTimerEnds, StopCountdown, ClickCopy, ClickCancel, ClickRerecord, session, engine, webview,
         history, desktop
<1>2. timer' \in {timer, "none"} /\ (PanelClose \/ UNCHANGED <<panel, feed>>)
  BY DEF CloseTimerEnds, StopCountdown, ClickCopy, ClickCancel, ClickRerecord, PanelCancel, webview
<1> QED
  BY <1>1, <1>2, TakingDownKeeps

LEMMA PageAsksKeeps ==
  ASSUME TypeInv, Rest, ~Coming', CountdownEnds \/ ClickTransfer
  PROVE  Rest'
<1>1. /\ UNCHANGED <<recording, capture, in_flight, job, busy, spoken, aimed, target, open, mode,
                     dictation, edited, feed, renders, page, page_text>>
      /\ timer' = "none" /\ Spawn(page_text)
  BY DEF CountdownEnds, ClickTransfer, session, engine, panel, desktop, history
<1>2. page \in {"result", "gone"} \/ timer = "countdown"
  BY DEF CountdownEnds, ClickTransfer, OnScreen
<1>3. ~recording /\ (page_text = spoken \/ Stranded)
  BY <1>2 DEF Rest, Alone, Counting, Paged
<1>4. Forward
  BY <1>1 DEF Forward, Spent
<1>5. Heard' /\ Current' /\ Hushed' /\ Card' /\ Alone' /\ Counting'
  BY <1>1, <1>3 DEF Rest, Heard, Current, Hushed, Card, Spent, Alone, Counting
<1>6. Fed' /\ Rendered' /\ Paged' /\ Pasting'
  BY <1>1, <1>3, <1>4, FedStays, RenderedStays, PagedStays, PastingSpawned DEF Rest
<1> QED
  BY <1>5, <1>6 DEF Rest

-----------------------------------------------------------------------------
(* The session, one action of the channel at a time. *)
LEMMA StartRecordingKeeps ==
  ASSUME TypeInv, Rest, Coming, ~Coming', StartRecording
  PROVE  Rest'
<1>1. /\ UNCHANGED <<open, job, busy, renders, page, page_text, timer, paste>>
      /\ ~recording /\ Spent /\ mode = "Closed" /\ feed = <<>> /\ renders = {} /\ page = "closed"
      /\ timer = "none" /\ \A t \in Threads : paste[t] = Idle
  BY DEF StartRecording, desktop, engine, webview, Rest, Hushed, Counting
<1>2. CASE /\ recording' = TRUE /\ capture' = TRUE /\ spoken' = spoken + 1 /\ in_flight' = spoken + 1
           /\ PanelBegin /\ spoken < MaxDictations
           /\ aimed' = [aimed EXCEPT ![spoken + 1] = focus]
  <2>1. Told = {}
    BY <1>1 DEF Told
  <2>2. \A e \in Told' : e.kind = "recording"
    BY <1>2, <2>1, ToldMore DEF PanelBegin, TypeInv, DInv, Shape
  <2>3. mode' = "Live" /\ dictation' = None /\ target' = focus
    BY <1>2 DEF PanelBegin
  <2>4. aimed'[spoken + 1] = focus
    BY <1>2, DictationAssumption DEF TypeInv, DInv, Flight, Past, Dictations
  <2>5. Heard' /\ Alone' /\ Counting' /\ Card' /\ Hushed'
    BY <1>1, <1>2, <2>2, <2>3 DEF Heard, Alone, Counting, Card, Hushed, Spent, Idle
  <2>6. Current'
    BY <1>1, <1>2, <2>3, <2>4 DEF Current, Spent
  <2>7. Fed' /\ Rendered' /\ Paged'
    BY <1>1, <2>2 DEF Fed, Rendered, Paged, Meant
  <2>8. Pasting'
    BY <1>1 DEF Pasting, Sound, Idle
  <2> QED
    BY <2>5, <2>6, <2>7, <2>8 DEF Rest
<1>3. CASE CaptureLost /\ Tell("no-microphone", None) /\ UNCHANGED <<recording, spoken, panel, aimed>>
  <2>1. Forward
    BY <1>1, <1>3 DEF Forward, Spent, CaptureLost, panel
  <2>2. Heard' /\ Alone' /\ Counting' /\ Current' /\ Card' /\ Hushed'
    BY <1>1, <1>3 DEF Rest, Heard, Alone, Counting, Current, Card, Hushed, CaptureLost, panel, Spent
  <2>3. Fed' /\ Rendered' /\ Paged' /\ Pasting'
    BY <1>1, <1>3, <2>1, FedStays, RenderedStays, PagedStays, PastingStays DEF Rest
  <2> QED
    BY <2>2, <2>3 DEF Rest
<1> QED
  BY <1>2, <1>3 DEF StartRecording

LEMMA StopRecordingKeeps ==
  ASSUME TypeInv, Rest, ~Coming', StopRecording
  PROVE  Rest'
<1>1. /\ recording' = FALSE
      /\ UNCHANGED <<busy, open, spoken, aimed, paste, renders, page, page_text, timer>>
  BY DEF StopRecording, desktop, webview, history
<1>2. /\ in_flight' \in {in_flight, None} /\ job' \in {job, in_flight}
      /\ PanelClose \/ (UNCHANGED panel /\ (UNCHANGED feed \/ \E k \in {"working", "nothing-heard", "no-microphone"} : Tell(k, None)))
      /\ job' # job => in_flight' = None /\ UNCHANGED panel
      /\ in_flight' # None => UNCHANGED capture
  BY DEF StopRecording, TakeRecording, Finish, CaptureLost
<1>3. in_flight # None => recording /\ capture /\ busy = None /\ mode # "Result" /\ job = None
  BY DEF Rest, Heard, Alone
<1>4. Forward
  BY <1>1, <1>2 DEF Forward, Spent, PanelClose, panel
<1>5. in_flight' = None
  BY <1>2, <1>3 DEF StopRecording, TakeRecording, Finish, CaptureLost
<1>6. Heard' /\ Alone' /\ Counting' /\ Hushed'
  BY <1>1, <1>2, <1>3, <1>5 DEF Rest, Heard, Alone, Counting, Hushed
<1>7. Current' /\ Card'
  BY <1>1, <1>2, <1>3, <1>5 DEF Rest, Current, Card, Spent, PanelClose, panel
<1>8. Fed' /\ Rendered' /\ Paged' /\ Pasting'
  BY <1>1, <1>2, <1>4, FedStays, RenderedStays, PagedStays, PastingStays DEF Rest
<1> QED
  BY <1>6, <1>7, <1>8 DEF Rest

(* A card that is taken down with what was being recorded. *)
LEMMA DiscardKeeps ==
  ASSUME TypeInv, Rest, ~Coming', DiscardRecording \/ CancelFromKeyboard
  PROVE  Rest'
<1>1. /\ recording' = FALSE /\ PanelClose
      /\ UNCHANGED <<busy, job, open, spoken, aimed, paste, renders, page, page_text, timer>>
  BY DEF DiscardRecording, CancelFromKeyboard, PanelCancel, desktop, webview, history, engine, TypeInv, Flags
<1>2. in_flight' = None
  BY DEF DiscardRecording, CancelFromKeyboard, ThrowAway, Rest, Heard
<1>3. Forward /\ Card'
  BY <1>1, <1>2 DEF Forward, Spent, PanelClose, Card
<1>4. Heard' /\ Alone' /\ Counting' /\ Hushed' /\ Current'
  BY <1>1, <1>2 DEF Rest, Heard, Alone, Counting, Hushed, Current, PanelClose
<1>5. Fed' /\ Rendered' /\ Paged' /\ Pasting'
  BY <1>1, <1>3, FedStays, RenderedStays, PagedStays, PastingStays DEF Rest
<1> QED
  BY <1>3, <1>4, <1>5 DEF Rest

LEMMA OpenPanelIdleKeeps ==
  ASSUME TypeInv, Rest, ~Coming', ~recording, OpenPanelIdle
  PROVE  Rest'
<1>1. /\ mode' = "Idle" /\ Tell("idle", None)
      /\ UNCHANGED <<recording, capture, in_flight, job, busy, spoken, aimed, target, open, dictation,
                     edited, paste, renders, page, page_text, timer>>
  BY DEF OpenPanelIdle, PanelOpenIdle, session, engine, webview, history, desktop
<1>2. Forward
  BY <1>1 DEF Forward, Spent
<1>3. Heard' /\ Alone' /\ Counting' /\ Hushed' /\ Current' /\ Card'
  BY <1>1 DEF Rest, Heard, Alone, Counting, Hushed, Current, Card
<1>4. Fed' /\ Rendered' /\ Paged' /\ Pasting'
  BY <1>1, <1>2, FedStays, RenderedStays, PagedStays, PastingStays DEF Rest
<1> QED
  BY <1>3, <1>4 DEF Rest

LEMMA TransferFromKeyboardKeeps ==
  ASSUME TypeInv, Rest, ~Coming', TransferFromKeyboard
  PROVE  Rest'
<1>1. /\ Spawn(None)
      /\ UNCHANGED <<recording, capture, in_flight, job, busy, spoken, aimed, target, open, mode,
                     dictation, edited, feed, renders, page, page_text, timer>>
  BY DEF TransferFromKeyboard, session, engine, webview, history, desktop, panel
<1>2. Forward
  BY <1>1 DEF Forward, Spent
<1>3. Pasting' /\ \A t \in Threads : paste'[t] = paste[t] \/ paste'[t].pc = "asked"
  BY <1>1, <1>2, PastingSpawned DEF Rest
<1>4. Fed' /\ Rendered' /\ Paged' /\ Told' = Told
  BY <1>1, <1>2, FedStays, RenderedStays, PagedStays DEF Rest
<1>5. Heard' /\ Counting' /\ Hushed' /\ Current' /\ Card'
  BY <1>1 DEF Rest, Heard, Counting, Hushed, Current, Card, Spent
<1>6. Alone'
  BY <1>1, <1>3, <1>4 DEF Rest, Alone
<1> QED
  BY <1>3, <1>4, <1>5, <1>6 DEF Rest

LEMMA CopyFromKeyboardKeeps ==
  ASSUME TypeInv, Rest, ~Coming', CopyFromKeyboard
  PROVE  Rest'
<1>1. UNCHANGED <<recording, capture, in_flight, job, busy, spoken, aimed, open, paste, renders, page,
                  page_text, timer>>
  BY DEF CopyFromKeyboard, session, engine, webview, history, desktop
<1>2. PanelClose \/ UNCHANGED <<panel, feed>>
  BY DEF CopyFromKeyboard
<1> QED
  BY <1>1, <1>2, TakingDownKeeps

(* The channel and the rest together: what is taken from the head, what a  *)
(* key puts at the end, and what leaves the channel alone.                 *)
LEMMA SessionKeeps ==
  ASSUME TypeInv, Ordered, Pressed, Rest, Session
  PROVE  Ordered' /\ Pressed' /\ Rest'
<1>1. actions \in Seq(Action) /\ actions # <<>> /\ actions' = Tail(actions) /\ live' = live
  BY DEF TypeInv, Queues, Session, StartRecording, StopRecording, DiscardRecording, OpenPanelIdle,
     CancelFromKeyboard, TransferFromKeyboard, CopyFromKeyboard, Take
<1>2. recording' => (recording \/ Coming) /\ Head(actions) \notin Ends
  <2>1. CASE StartRecording
    <3>1. Head(actions) = actions[1]
      BY <1>1
    <3> QED
      BY <1>1, <2>1, <3>1 DEF StartRecording, Take, Coming, Ends
  <2>2. CASE Session /\ ~StartRecording
    BY <2>2 DEF Session, StopRecording, DiscardRecording, OpenPanelIdle,
     CancelFromKeyboard, TransferFromKeyboard, CopyFromKeyboard, Take, session, Ends
  <2> QED
    BY <2>1, <2>2
<1>3. /\ Ordered' /\ Pressed' /\ ~Coming'
      /\ Head(actions) = "OpenPanelIdle" => ~recording
      /\ Head(actions) = "StartRecording" <=> Coming
  BY <1>1, <1>2, ChannelAfterTake
<1>4. StartRecording => Head(actions) = "StartRecording"
  BY DEF StartRecording, Take
<1>5. OpenPanelIdle => Head(actions) = "OpenPanelIdle"
  BY DEF OpenPanelIdle, Take
<1> QED
  BY <1>3, <1>4, <1>5, StartRecordingKeeps, StopRecordingKeeps, DiscardKeeps, OpenPanelIdleKeeps,
     TransferFromKeyboardKeeps, CopyFromKeyboardKeeps DEF Session

-----------------------------------------------------------------------------
(* The keys.  One key event emits at most the end of a recording and what  *)
(* follows from it.                                                        *)
LEMMA WhatKeysEmit ==
  /\ \A a \in Ends : <<a>> \in Seq(Action) /\ Well(<<a>>) /\ Ending(<<a>>)
  /\ /\ <<"DiscardRecording", "OpenPanelIdle">> \in Seq(Action)
     /\ Well(<<"DiscardRecording", "OpenPanelIdle">>) /\ Ending(<<"DiscardRecording", "OpenPanelIdle">>)
  /\ \A a \in PanelActions :
       /\ <<a>> \in Seq(Action) /\ Well(<<a>>)
       /\ <<"DiscardRecording", a>> \in Seq(Action)
       /\ Well(<<"DiscardRecording", a>>) /\ Ending(<<"DiscardRecording", a>>)
<1> USE DEF Ends, PanelActions, Action
<1>1. ASSUME NEW a \in Ends PROVE <<a>> \in Seq(Action) /\ Well(<<a>>) /\ Ending(<<a>>)
  <2>1. <<a>> \in Seq(Action) /\ Len(<<a>>) = 1 /\ <<a>>[1] = a
    OBVIOUS
  <2> QED
    BY <2>1 DEF Well, Ending
<1>2. ASSUME NEW a \in PanelActions \union {"OpenPanelIdle"}
      PROVE  /\ <<"DiscardRecording", a>> \in Seq(Action)
             /\ Well(<<"DiscardRecording", a>>) /\ Ending(<<"DiscardRecording", a>>)
  <2> DEFINE q == <<"DiscardRecording", a>>
  <2>1. q \in Seq(Action) /\ Len(q) = 2 /\ q[1] = "DiscardRecording" /\ q[2] = a
    OBVIOUS
  <2> HIDE DEF q
  <2>2. Well(q)
    BY <2>1 DEF Well
  <2>3. Ending(q)
    BY <2>1 DEF Ending
  <2> QED
    BY <2>1, <2>2, <2>3 DEF q
<1>3. ASSUME NEW a \in PanelActions PROVE <<a>> \in Seq(Action) /\ Well(<<a>>)
  <2>1. <<a>> \in Seq(Action) /\ Len(<<a>>) = 1 /\ <<a>>[1] = a
    OBVIOUS
  <2> QED
    BY <2>1 DEF Well
<1> QED
  BY <1>1, <1>2, <1>3

LEMMA KeysEmit ==
  ASSUME TypeInv, Ordered, Pressed, UNCHANGED recording, EndPress \/ PressPanelKey
  PROVE  Ordered' /\ Pressed' /\ (Coming' => Coming)
<1>1. ASSUME NEW es \in Seq(Action), Emit(es), Well(es), live => live' \/ Ending(es)
      PROVE  Ordered' /\ Pressed' /\ (Coming' => Coming)
  BY <1>1, ChannelAfterEmit DEF TypeInv, Queues
<1>2. CASE EndPress
  <2>1. Emit(<<"StopRecording">>) \/ Emit(<<"DiscardRecording">>) \/ Emit(<<"DiscardRecording", "OpenPanelIdle">>)
    BY <1>2 DEF EndPress
  <2>2. "StopRecording" \in Ends /\ "DiscardRecording" \in Ends
    BY DEF Ends
  <2> QED
    BY <1>1, <2>1, <2>2, WhatKeysEmit
<1>3. CASE PressPanelKey
  <2>1. PICK a \in PanelActions : \/ Emit(<<a>>) /\ (live => live')
                                  \/ Emit(<<"DiscardRecording", a>>)
    BY <1>3 DEF PressPanelKey
  <2>2. CASE Emit(<<a>>) /\ (live => live')
    BY <1>1, <2>2, WhatKeysEmit
  <2>3. CASE Emit(<<"DiscardRecording", a>>)
    BY <1>1, <2>3, WhatKeysEmit
  <2> QED
    BY <2>1, <2>2, <2>3
<1> QED
  BY <1>2, <1>3

(* A recording is begun only when the last dictation has settled. *)
LEMMA PressTriggerKeeps ==
  ASSUME TypeInv, Patient, Ordered, Pressed, Rest, PressTrigger
  PROVE  Ordered' /\ Pressed' /\ ~recording /\ Settled /\ Spent
<1>1. Settled /\ live' = TRUE /\ actions' = actions \o <<"StartRecording">> /\ recording' = recording
  BY DEF PressTrigger, Patient, Emit, session
<1>2. actions' = <<"StartRecording">>
  BY <1>1 DEF Settled
<1>3. Len(actions') = 1 /\ actions'[1] = "StartRecording"
  BY <1>2
<1>4. ~recording
  <2>1. actions = <<>> /\ ~live
    BY <1>1 DEF Settled, PressTrigger
  <2> QED
    BY <2>1 DEF Pressed
<1>5. Ordered' /\ Pressed'
  BY <1>1, <1>3 DEF Ordered, Pressed
<1>6. Spent
  BY <1>1, <1>4 DEF Rest, Heard, Spent, Settled
<1> QED
  BY <1>1, <1>4, <1>5, <1>6

LEMMA KeysKeep ==
  ASSUME TypeInv, Patient, Ordered, Pressed, Rest, PressTrigger \/ EndPress \/ PressPanelKey
  PROVE  Ordered' /\ Pressed' /\ Rest'
<1>1. UNCHANGED <<recording, capture, in_flight, job, busy, spoken, aimed, target, open, mode, dictation,
                  edited, feed, renders, page, page_text, timer, paste>>
  BY DEF PressTrigger, EndPress, PressPanelKey, desktop, session, engine, panel, webview, history
<1>2. Ordered' /\ Pressed' /\ (Coming' => Coming \/ (~recording /\ Settled /\ Spent))
  BY <1>1, KeysEmit, PressTriggerKeeps
<1>3. Hushed'
  BY <1>1, <1>2 DEF Rest, Hushed, Settled, Spent
<1>4. Forward
  BY <1>1 DEF Forward, Spent
<1>5. Fed' /\ Rendered' /\ Paged' /\ Pasting' /\ Told' = Told
  BY <1>1, <1>4, FedStays, RenderedStays, PagedStays, PastingStays DEF Rest
<1>6. Heard' /\ Counting' /\ Current' /\ Card' /\ Alone'
  BY <1>1, <1>5 DEF Rest, Heard, Counting, Current, Card, Spent, Alone
<1> QED
  BY <1>2, <1>3, <1>5, <1>6 DEF Rest

LEMMA DesktopKeeps ==
  ASSUME TypeInv, Rest, MoveFocus \/ CloseWindow \/ UNCHANGED vars
  PROVE  Rest'
<1>1. /\ UNCHANGED <<actions, recording, capture, in_flight, job, busy, spoken, aimed, target, mode, dictation,
                     edited, feed, renders, page, page_text, timer, paste>>
      /\ open' \subseteq open
  BY DEF MoveFocus, CloseWindow, vars, hotkey, desktop, session, engine, panel, webview, history
<1>2. Forward
  BY <1>1 DEF Forward, Spent
<1>3. Fed' /\ Rendered' /\ Paged' /\ Pasting' /\ Told' = Told
  BY <1>1, <1>2, FedStays, RenderedStays, PagedStays, PastingStays DEF Rest
<1>4. Heard' /\ Counting' /\ Current' /\ Card' /\ Alone' /\ Hushed'
  BY <1>1, <1>3 DEF Rest, Heard, Counting, Current, Card, Spent, Alone, Hushed, Coming
<1> QED
  BY <1>3, <1>4 DEF Rest

(* Where the texts landed: a text goes to the window it was aimed at, and  *)
(* a new dictation has not landed anywhere.                                *)
LEMMA WhereKept ==
  ASSUME TypeInv, Rest, PastedWhereSpoken, [Next]_vars
  PROVE  PastedWhereSpoken'
<1>1. CASE UNCHANGED <<aimed, landed>>
  BY <1>1 DEF PastedWhereSpoken
<1>2. CASE StartRecording
  <2>1. CASE /\ aimed' = [aimed EXCEPT ![spoken + 1] = focus] /\ landed' = landed /\ spoken < MaxDictations
    <3>1. landed[spoken + 1] = <<>> /\ spoken + 1 \in Dictations
      BY <2>1, DictationAssumption
         DEF TypeInv, DInv, Carried, InLanded, Handed, None, Flight, Dictations
    <3>2. \A d \in Dictations : d # spoken + 1 => aimed'[d] = aimed[d]
      BY <2>1 DEF TypeInv, Past
    <3> QED
      BY <2>1, <3>1, <3>2 DEF PastedWhereSpoken
  <2> QED
    BY <1>1, <1>2, <2>1 DEF StartRecording
<1>3. ASSUME NEW t \in Threads, TransferPaste(t)
      PROVE  PastedWhereSpoken'
  <2>1. CASE /\ paste[t].target \in open /\ aimed' = aimed /\ paste[t].pc = "closed"
             /\ landed' = [landed EXCEPT ![paste[t].body] = Append(@, paste[t].target)]
    <3>1. paste[t].body = spoken /\ paste[t].target = aimed[spoken] /\ spoken \in Dictations
      BY <2>1, DictationAssumption DEF Rest, Pasting, Sound, TypeInv, DInv, Flight, Dictations
    <3>2. landed'[spoken] = Append(landed[spoken], aimed[spoken]) /\ landed[spoken] \in Seq(Windows)
      BY <2>1, <3>1 DEF TypeInv, Past
    <3>3. \A i \in 1..Len(landed'[spoken]) : landed'[spoken][i] = aimed[spoken]
      BY <3>1, <3>2 DEF PastedWhereSpoken
    <3>4. \A d \in Dictations : d # spoken => landed'[d] = landed[d]
      BY <2>1, <3>1 DEF TypeInv, Past
    <3>5. ASSUME NEW d \in Dictations, NEW i \in 1..Len(landed'[d])
          PROVE  landed'[d][i] = aimed'[d]
      BY <2>1, <3>3, <3>4, <3>5 DEF PastedWhereSpoken
    <3> QED
      BY <3>5 DEF PastedWhereSpoken
  <2> QED
    BY <1>1, <1>3, <2>1 DEF TransferPaste
<1>4. CASE Session \/ Reapply
  BY <1>1, <1>2, <1>4
     DEF Session, StopRecording, DiscardRecording, OpenPanelIdle, CancelFromKeyboard,
         TransferFromKeyboard, CopyFromKeyboard, Reapply, history
<1>5. CASE EngineTake \/ EngineAnswer \/ EngineComesAndGoes \/ \E t \in Threads : Transfer(t)
  BY <1>1, <1>3, <1>5 DEF EngineTake, EngineAnswer, EngineComesAndGoes, Transfer, TransferAim,
                          TransferClose, TransferEnd, history
<1>6. CASE Page \/ Pointer
  BY <1>1, <1>6 DEF Page, PageHandle, PageRender, CountdownEnds, CloseTimerEnds, Pointer,
     StopCountdown, ClickTransfer, ClickCopy, ClickCancel, ClickRerecord, history
<1>7. CASE PressTrigger \/ EndPress \/ PressPanelKey \/ MoveFocus \/ CloseWindow \/ UNCHANGED vars
  BY <1>1, <1>7 DEF PressTrigger, EndPress, PressPanelKey, MoveFocus, CloseWindow, vars, history
<1> QED
  BY <1>4, <1>5, <1>6, <1>7 DEF Next

LEMMA PatientInvAtFirst ==
  ASSUME Init
  PROVE  PatientInv
<1>1. Len(actions) = 0 /\ Told = {}
  BY DEF Init, Told
<1> QED
  BY <1>1 DEF Init, PatientInv, Ordered, Pressed, Rest, Heard, Hushed, Alone, Counting, Current, Card, Fed,
     Rendered, Paged, Pasting, Sound, PastedWhereSpoken, Coming, Idle, None

LEMMA PatientInvStays ==
  ASSUME Patient, TypeInv, PatientInv, [Next]_vars
  PROVE  PatientInv'
<1> USE DEF PatientInv
<1>1. PastedWhereSpoken'
  BY WhereKept
<1>2. CASE Session
  BY <1>1, <1>2, SessionKeeps
<1>3. CASE PressTrigger \/ EndPress \/ PressPanelKey
  BY <1>1, <1>3, KeysKeep
<1>4. ASSUME UNCHANGED <<actions, live, recording>>
      PROVE  Ordered' /\ Pressed' /\ Coming' = Coming
  BY <1>4 DEF Ordered, Pressed, Coming
<1>5. CASE MoveFocus \/ CloseWindow \/ UNCHANGED vars
  BY <1>1, <1>4, <1>5, DesktopKeeps DEF MoveFocus, CloseWindow, vars, hotkey, session
<1>6. CASE EngineComesAndGoes
  BY <1>1, <1>4, <1>6, EngineComesAndGoesKeeps DEF EngineComesAndGoes, hotkey, session
<1>7. CASE EngineTake \/ EngineAnswer \/ (\E t \in Threads : Transfer(t)) \/ Page \/ Pointer
  <2>1. UNCHANGED <<actions, live, recording>>
    BY <1>7 DEF Patient, EngineTake, EngineAnswer, Transfer, TransferAim, TransferClose, TransferPaste,
       TransferEnd, Page, PageHandle, PageRender, CountdownEnds, CloseTimerEnds, Pointer, StopCountdown,
       ClickTransfer, ClickCopy, ClickCancel, ClickRerecord, hotkey, session
  <2>2. Ordered' /\ Pressed' /\ ~Coming'
    BY <1>4, <1>7, <2>1, NobodyElse
  <2> HIDE DEF PatientInv
  <2> SUFFICES Rest'
    BY <1>1, <2>2 DEF PatientInv
  <2>3. Rest
    BY DEF PatientInv
  <2>4. CASE EngineTake \/ EngineAnswer
    BY <2>2, <2>3, <2>4, EngineTakeKeeps, EngineAnswerKeeps
  <2>5. ASSUME NEW t \in Threads, Transfer(t) PROVE Rest'
    BY <2>2, <2>3, <2>5, TransferAimKeeps, TransferCloseKeeps, TransferPasteKeeps, TransferEndKeeps
       DEF Transfer
  <2>6. CASE Page
    BY <2>2, <2>3, <2>6, PageHandleKeeps, PageRenderKeeps, CardComesDownKeeps, PageAsksKeeps DEF Page
  <2>7. CASE Pointer
    BY <2>2, <2>3, <2>7, CardComesDownKeeps, PageAsksKeeps DEF Pointer
  <2> QED
    BY <1>7, <2>4, <2>5, <2>6, <2>7
<1>8. CASE Reapply
  BY <1>8 DEF Reapply, Patient
<1> QED
  BY <1>2, <1>3, <1>5, <1>6, <1>7, <1>8 DEF Next

(* Whoever waits for one dictation to settle before the next has the card  *)
(* to themselves while they talk: no older result comes up in it, and it   *)
(* is Esc, not a forgotten flag, that ends the recording (panel.rs, begin; *)
(* session.rs, the recording flag).                                        *)
THEOREM RecordingHasTheCard == Patient => (Spec => []RecordingOwnsTheCard)
<1> SUFFICES ASSUME Patient PROVE Spec => []RecordingOwnsTheCard
  OBVIOUS
<1>1. Init => TypeInv /\ PatientInv
  BY TypeInvHoldsAtFirst, PatientInvAtFirst
<1>2. TypeInv /\ PatientInv /\ [Next]_vars => (TypeInv /\ PatientInv)'
  BY TypesStay, PatientInvStays
<1>3. PatientInv => RecordingOwnsTheCard
  BY DEF PatientInv, Pressed, Ends, Rest, Alone, RecordingOwnsTheCard
<1> QED
  BY <1>1, <1>2, <1>3, PTL DEF Spec

(* And every text they dictate lands in the window it was begun over or    *)
(* nowhere, whatever windows close and wherever the focus goes meanwhile   *)
(* (README.md, "the window it is aimed at is captured when the recording   *)
(* starts"; panel.rs, transfer).                                           *)
THEOREM PastesWhereSpoken == Patient => (Spec => []PastedWhereSpoken)
<1> SUFFICES ASSUME Patient PROVE Spec => []PastedWhereSpoken
  OBVIOUS
<1>1. Init => TypeInv /\ PatientInv
  BY TypeInvHoldsAtFirst, PatientInvAtFirst
<1>2. TypeInv /\ PatientInv /\ [Next]_vars => (TypeInv /\ PatientInv)'
  BY TypesStay, PatientInvStays
<1>3. PatientInv => PastedWhereSpoken
  BY DEF PatientInv
<1> QED
  BY <1>1, <1>2, <1>3, PTL DEF Spec

-----------------------------------------------------------------------------
(* Hands off: nobody acts on the card either.  What will be pasted is then *)
(* in one place at a time: with the session or the engine, in the feed, in *)
(* a refresh, in the countdown, with one paste thread, or pasted.          *)
HandsOff == Patient /\ "hands" \notin Disturbances

Running(t) == paste[t].pc \in {"asked", "aimed", "closed"}
News(i)    == feed[i].kind = "result"

NoNews   == \A e \in Told : e.kind # "result"
NoDraw   == \A e \in renders : e.kind # "result"
NoTimer  == timer # "countdown"
NoThread == \A t \in Threads : ~Running(t)
Unpasted == spoken > 0 => landed[spoken] = <<>>

OneNews   == \A i, j \in 1..Len(feed) : News(i) /\ News(j) => i = j
OneThread == \A t, u \in Threads : Running(t) /\ Running(u) => t = u

Silent == \A i \in 1..Len(actions) : actions[i] \notin PanelActions

Once ==
  /\ OneNews /\ OneThread
  /\ ~Spent => NoNews
  /\ ~(Spent /\ NoNews) => NoDraw
  /\ ~(Spent /\ NoNews /\ NoDraw) => NoTimer
  /\ ~(Spent /\ NoNews /\ NoDraw /\ NoTimer) => NoThread
  /\ ~(Spent /\ NoNews /\ NoDraw /\ NoTimer /\ NoThread) => Unpasted

OnceInv == Silent /\ Once /\ PastedAtMostOnce

(* A step that takes the text no further, and may lose it. *)
LEMMA NoFurther ==
  ASSUME Once, Spent => Spent', NoNews => NoNews', NoDraw => NoDraw', NoTimer => NoTimer',
         NoThread => NoThread', Unpasted => Unpasted', OneNews', OneThread'
  PROVE  Once'
BY Zenon DEF Once

LEMMA NewsStays ==
  ASSUME feed \in Seq(Events), OneNews
  PROVE  /\ UNCHANGED feed => OneNews' /\ (NoNews => NoNews')
         /\ \A k, d : Tell(k, d) => (k # "result" \/ NoNews => OneNews') /\ (k # "result" => (NoNews => NoNews'))
         /\ feed # <<>> /\ feed' = Tail(feed) =>
              OneNews' /\ (NoNews => NoNews') /\ (Head(feed).kind = "result" => NoNews')
<1>1. UNCHANGED feed => OneNews' /\ (NoNews => NoNews')
  BY DEF OneNews, News, NoNews, Told
<1>2. ASSUME NEW k, NEW d, Tell(k, d)
      PROVE  (k # "result" \/ NoNews => OneNews') /\ (k # "result" => (NoNews => NoNews'))
  <2> DEFINE e == [kind |-> k, text |-> d]
  <2>1. feed' = Append(feed, e) /\ e.kind = k
    BY <1>2 DEF Tell
  <2>2. Told' \subseteq Told \union {e}
    BY <1>2, ToldMore
  <2> HIDE DEF e
  <2> PICK n \in Nat : n = Len(feed)
    OBVIOUS
  <2>3. /\ Len(feed') = n + 1 /\ feed'[n + 1] = e
        /\ \A i \in 1..n : feed'[i] = feed[i] /\ feed[i] \in Told
    BY <2>1 DEF Told
  <2>4. \A i \in 1..n + 1 : i \in 1..n \/ i = n + 1
    OBVIOUS
  <2>5. k # "result" \/ NoNews => OneNews'
    BY <2>1, <2>3, <2>4 DEF OneNews, News, NoNews
  <2>6. k # "result" => (NoNews => NoNews')
    BY <2>1, <2>2 DEF NoNews
  <2> QED
    BY <2>5, <2>6
<1>3. ASSUME feed # <<>>, feed' = Tail(feed)
      PROVE  OneNews' /\ (NoNews => NoNews') /\ (Head(feed).kind = "result" => NoNews')
  <2> PICK n \in Nat : n + 1 = Len(feed)
    <3>1. Len(feed) \in Nat /\ Len(feed) > 0
      BY <1>3
    <3>2. Len(feed) - 1 \in Nat /\ (Len(feed) - 1) + 1 = Len(feed)
      BY <3>1
    <3> QED
      BY <3>2
  <2>1. /\ Len(feed') = n /\ Head(feed) = feed[1] /\ 1 \in 1..n + 1
        /\ \A i \in 1..n : feed'[i] = feed[i + 1] /\ i + 1 \in 1..n + 1 /\ i + 1 # 1
    BY <1>3
  <2>2. OneNews'
    <3>1. \A i, j \in 1..n : i + 1 = j + 1 => i = j
      OBVIOUS
    <3> QED
      BY <2>1, <3>1 DEF OneNews, News
  <2>3. NoNews => NoNews'
    BY <1>3, ToldLess DEF NoNews
  <2>4. Head(feed).kind = "result" => NoNews'
    BY <2>1 DEF OneNews, News, NoNews, Told
  <2> QED
    BY <2>2, <2>3, <2>4
<1> QED
  BY <1>1, <1>2, <1>3

LEMMA NewsAfter ==
  ASSUME TypeInv, Once
  PROVE  /\ UNCHANGED feed => OneNews' /\ (NoNews => NoNews')
         /\ \A k, d : Tell(k, d) /\ k # "result" => OneNews' /\ (NoNews => NoNews')
         /\ PanelClose => OneNews' /\ (NoNews => NoNews')
<1>1. feed \in Seq(Events) /\ OneNews
  BY DEF TypeInv, DInv, Shape, Once
<1> QED
  BY <1>1, NewsStays DEF PanelClose

(* The threads, when none starts. *)
LEMMA ThreadsStay ==
  ASSUME Once, \A t \in Threads : Running(t)' => Running(t)
  PROVE  OneThread' /\ (NoThread => NoThread')
BY DEF Once, OneThread, NoThread

-----------------------------------------------------------------------------
LEMMA SilentStays ==
  ASSUME HandsOff, TypeInv, Silent, [Next]_vars
  PROVE  Silent'
<1>1. actions \in Seq(Action)
  BY DEF TypeInv, Queues
<1>2. CASE UNCHANGED actions
  BY <1>2 DEF Silent
<1>3. CASE actions # <<>> /\ actions' = Tail(actions)
  <2>1. \A i \in 1..Len(actions') : actions'[i] = actions[i + 1] /\ i + 1 \in 1..Len(actions)
    BY <1>1, <1>3
  <2> QED
    BY <2>1 DEF Silent
<1>4. ASSUME NEW es \in Seq(Action), actions' = actions \o es, \A i \in 1..Len(es) : es[i] \notin PanelActions
      PROVE  Silent'
  <2> PICK n \in Nat : n = Len(actions)
    BY <1>1
  <2> PICK m \in Nat : m = Len(es)
    OBVIOUS
  <2>1. /\ Len(actions') = n + m
        /\ \A i \in 1..n : actions'[i] = actions[i]
        /\ \A i \in 1..m : actions'[n + i] = es[i]
    BY <1>1, <1>4, ConcatProperties
  <2>2. \A i \in 1..n + m : i \in 1..n \/ (i - n \in 1..m /\ n + (i - n) = i)
    OBVIOUS
  <2>3. ASSUME NEW i \in 1..n + m PROVE actions'[i] \notin PanelActions
    <3>1. CASE i \in 1..n
      BY <2>1, <3>1 DEF Silent
    <3>2. CASE i - n \in 1..m /\ n + (i - n) = i
      <4>1. actions'[i] = es[i - n]
        BY <2>1, <3>2
      <4> QED
        BY <1>4, <3>2, <4>1
    <3> QED
      BY <2>2, <3>1, <3>2
  <2> QED
    BY <2>1, <2>3 DEF Silent
<1>5. CASE PressTrigger \/ EndPress
  <2>1. ASSUME NEW a \in {"StartRecording", "StopRecording", "DiscardRecording"}
        PROVE  <<a>> \in Seq(Action) /\ \A i \in 1..Len(<<a>>) : <<a>>[i] \notin PanelActions
    <3>1. <<a>> \in Seq(Action) /\ Len(<<a>>) = 1 /\ <<a>>[1] = a
      BY DEF Action
    <3> QED
      BY <3>1 DEF PanelActions
  <2> DEFINE q == <<"DiscardRecording", "OpenPanelIdle">>
  <2>2. q \in Seq(Action) /\ Len(q) = 2 /\ q[1] = "DiscardRecording" /\ q[2] = "OpenPanelIdle"
    BY DEF Action
  <2> HIDE DEF q
  <2>3. \A i \in 1..Len(q) : q[i] \notin PanelActions
    BY <2>2 DEF PanelActions
  <2>4. \/ \E a \in {"StartRecording", "StopRecording", "DiscardRecording"} : actions' = actions \o <<a>>
        \/ actions' = actions \o q
    BY <1>5 DEF PressTrigger, EndPress, Emit, q
  <2> QED
    BY <1>4, <2>1, <2>2, <2>3, <2>4
<1>6. CASE Session
  BY <1>3, <1>6 DEF Session, StartRecording, StopRecording, DiscardRecording, OpenPanelIdle,
     CancelFromKeyboard, TransferFromKeyboard, CopyFromKeyboard, Take
<1>7. CASE PressPanelKey \/ Pointer \/ Reapply
  BY <1>7 DEF HandsOff, Patient, PressPanelKey, Reapply, Pointer, StopCountdown, ClickTransfer, ClickCopy,
     ClickCancel, ClickRerecord, OnScreen
<1>8. CASE EngineTake \/ EngineAnswer \/ EngineComesAndGoes \/ (\E t \in Threads : Transfer(t)) \/ Page
  BY <1>2, <1>8 DEF EngineTake, EngineAnswer, EngineComesAndGoes, Transfer, TransferAim, TransferClose,
     TransferPaste, TransferEnd, Page, PageHandle, PageRender, CountdownEnds, CloseTimerEnds, hotkey
<1>9. CASE MoveFocus \/ CloseWindow \/ UNCHANGED vars
  BY <1>2, <1>9 DEF MoveFocus, CloseWindow, vars, hotkey
<1> QED
  BY <1>5, <1>6, <1>7, <1>8, <1>9 DEF Next

-----------------------------------------------------------------------------
LEMMA OnceFromSession ==
  ASSUME HandsOff, TypeInv, Ordered, Pressed, Rest, OnceInv, Session
  PROVE  Once' /\ UNCHANGED landed
<1>1. ~CopyFromKeyboard /\ ~CancelFromKeyboard /\ ~TransferFromKeyboard
  <2>1. ASSUME NEW a \in PanelActions, Take(a) PROVE FALSE
    <3>1. actions # <<>> /\ actions \in Seq(Action) /\ Head(actions) = a
      BY <2>1 DEF Take, TypeInv, Queues
    <3>2. 1 \in 1..Len(actions) /\ actions[1] = a
      BY <3>1
    <3> QED
      BY <2>1, <3>2 DEF OnceInv, Silent
  <2> QED
    BY <2>1 DEF CopyFromKeyboard, CancelFromKeyboard, TransferFromKeyboard, PanelActions
<1>2. CASE spoken' = spoken /\ (Spent => Spent') /\ UNCHANGED <<renders, timer, paste, landed>>
           /\ (UNCHANGED feed \/ PanelClose \/ \E k, d : k # "result" /\ Tell(k, d))
  <2>1. OneNews' /\ (NoNews => NoNews')
    BY <1>2, NewsAfter DEF OnceInv
  <2>2. OneThread' /\ (NoThread => NoThread')
    BY <1>2, ThreadsStay DEF OnceInv, Running
  <2>3. (NoDraw => NoDraw') /\ (NoTimer => NoTimer') /\ (Unpasted => Unpasted')
    BY <1>2 DEF NoDraw, NoTimer, Unpasted
  <2>4. Once /\ (Spent => Spent')
    BY <1>2 DEF OnceInv
  <2> QED
    BY <1>2, <2>1, <2>2, <2>3, <2>4, NoFurther
<1>3. CASE StartRecording
  <2>1. Coming
    <3>1. actions # <<>> /\ actions \in Seq(Action) /\ Head(actions) = "StartRecording"
      BY <1>3 DEF StartRecording, Take, TypeInv, Queues
    <3> QED
      BY <3>1 DEF Coming
  <2>2. Spent /\ feed = <<>> /\ renders = {} /\ timer = "none" /\ \A t \in Threads : paste[t] = Idle
    BY <2>1 DEF Rest, Hushed, Counting
  <2>3. UNCHANGED <<renders, timer, paste, landed>>
    BY <1>3 DEF StartRecording, webview
  <2>4. CASE spoken' = spoken + 1 /\ spoken < MaxDictations /\ Tell("recording", None)
    <3>1. OneNews' /\ NoNews'
      <4>1. NoNews
        BY <2>2 DEF NoNews, Told
      <4> QED
        BY <2>4, <4>1, NewsAfter DEF OnceInv
    <3>2. NoDraw' /\ NoTimer' /\ NoThread' /\ OneThread'
      BY <2>2, <2>3 DEF NoDraw, NoTimer, NoThread, OneThread, Running, Idle
    <3>3. Unpasted'
      <4>1. landed[spoken + 1] = <<>>
        BY <2>4, DictationAssumption
           DEF TypeInv, DInv, Carried, InLanded, Handed, None, Flight, Dictations
      <4> QED
        BY <2>3, <2>4, <4>1 DEF Unpasted
    <3> QED
      BY <2>3, <3>1, <3>2, <3>3 DEF Once
  <2>5. CASE CaptureLost /\ Tell("no-microphone", None) /\ UNCHANGED spoken
    <3>1. Spent'
      BY <1>3, <2>2, <2>5 DEF Spent, CaptureLost, StartRecording, engine
    <3> QED
      BY <1>2, <2>3, <2>5, <3>1
  <2> QED
    BY <1>3, <2>4, <2>5 DEF StartRecording, PanelBegin
<1>4. CASE StopRecording
  <2>1. /\ spoken' = spoken /\ UNCHANGED <<renders, timer, paste, landed, busy>>
        /\ in_flight' \in {in_flight, None} /\ job' \in {job, in_flight}
        /\ UNCHANGED feed \/ PanelClose \/ \E k \in {"working", "nothing-heard", "no-microphone"} : Tell(k, None)
    BY <1>4 DEF StopRecording, webview, history, TakeRecording, Finish, CaptureLost
  <2>2. Spent => Spent'
    BY <2>1 DEF Spent
  <2> QED
    BY <1>2, <2>1, <2>2
<1>5. CASE DiscardRecording
  <2>1. /\ spoken' = spoken /\ UNCHANGED <<renders, timer, paste, landed, busy, job>>
        /\ in_flight' = None /\ PanelClose
    BY <1>5 DEF DiscardRecording, webview, ThrowAway, engine
  <2>2. Spent => Spent'
    BY <2>1 DEF Spent
  <2> QED
    BY <1>2, <2>1, <2>2
<1>6. CASE OpenPanelIdle
  <2>1. UNCHANGED <<spoken, renders, timer, paste, landed, busy, job, in_flight>> /\ Tell("idle", None)
    BY <1>6 DEF OpenPanelIdle, webview, engine, session, history, PanelOpenIdle
  <2>2. Spent => Spent'
    BY <2>1 DEF Spent
  <2> QED
    BY <1>2, <2>1, <2>2
<1> QED
  BY <1>1, <1>3, <1>4, <1>5, <1>6 DEF Session

LEMMA OnceFromEngine ==
  ASSUME TypeInv, Rest, OnceInv, EngineTake \/ EngineAnswer \/ EngineComesAndGoes
  PROVE  Once' /\ UNCHANGED landed
<1>1. UNCHANGED <<spoken, in_flight, renders, timer, paste, landed>>
  BY DEF EngineTake, EngineAnswer, EngineComesAndGoes, session, webview, history
<1>2. OneThread' /\ (NoThread => NoThread')
  BY <1>1, ThreadsStay DEF OnceInv, Running
<1>3. (NoDraw => NoDraw') /\ (NoTimer => NoTimer') /\ (Unpasted => Unpasted')
  BY <1>1 DEF NoDraw, NoTimer, Unpasted
<1>4. CASE (Spent => Spent') /\ (UNCHANGED feed \/ PanelClose \/ \E k, d : k # "result" /\ Tell(k, d))
  <2>1. OneNews' /\ (NoNews => NoNews')
    BY <1>4, NewsAfter DEF OnceInv
  <2>2. Once
    BY DEF OnceInv
  <2> QED
    BY <1>1, <1>2, <1>3, <1>4, <2>1, <2>2, NoFurther
<1>5. CASE busy # None /\ busy' = None /\ UNCHANGED job /\ Tell("result", busy)
  <2>1. ~Spent /\ NoNews /\ NoDraw /\ NoTimer /\ NoThread /\ Unpasted
    BY <1>5 DEF OnceInv, Once, Spent
  <2>2. Spent'
    BY <1>1, <1>5 DEF Spent, Rest, Heard, Alone
  <2>3. OneNews'
    BY <1>5, <2>1, NewsStays DEF TypeInv, DInv, Shape, OnceInv, Once
  <2> QED
    BY <1>1, <1>2, <1>3, <2>1, <2>2, <2>3 DEF Once
<1>6. CASE EngineTake
  <2>1. Spent => Spent'
    BY <1>6 DEF EngineTake, Spent
  <2> QED
    BY <1>4, <1>6, <2>1 DEF EngineTake
<1>7. CASE EngineAnswer
  <2>1. busy # None /\ busy' = None /\ UNCHANGED job /\ (Tell("result", busy) \/ PanelClose)
    BY <1>7 DEF EngineAnswer, PanelShowResult
  <2>2. Spent => Spent'
    BY <2>1 DEF Spent
  <2> QED
    BY <1>4, <1>5, <2>1, <2>2
<1>8. CASE EngineComesAndGoes
  BY <1>1, <1>4, <1>8 DEF EngineComesAndGoes, Spent
<1> QED
  BY <1>6, <1>7, <1>8

LEMMA OnceFromPaste ==
  ASSUME TypeInv, Rest, OnceInv, NEW t \in Threads, Transfer(t)
  PROVE  Once' /\ PastedAtMostOnce'
<1>1. UNCHANGED <<spoken, in_flight, job, busy, renders, timer>>
  BY DEF Transfer, TransferAim, TransferClose, TransferPaste, TransferEnd, session, webview, engine
<1>2. /\ UNCHANGED feed \/ PanelClose \/ \E k, d : k # "result" /\ Tell(k, d)
      /\ \/ paste' = [paste EXCEPT ![t] = Idle]
         \/ paste' = [paste EXCEPT ![t].pc = "gone"]
         \/ paste' = [paste EXCEPT ![t].pc = "closed"] /\ Running(t)
         \/ \E b, w : paste' = [paste EXCEPT ![t] = [pc |-> "aimed", body |-> b, target |-> w]] /\ Running(t)
  BY DEF Transfer, TransferAim, TransferClose, TransferPaste, TransferEnd, Running
<1>3. paste \in [Threads -> Thread]
  BY DEF TypeInv, DInv, Shape
<1>4. \A u \in Threads : Running(u)' => Running(u)
  <2>1. Running(t)' => Running(t)
    BY <1>2, <1>3 DEF Running, Thread, Idle
  <2>2. \A u \in Threads : u # t => paste'[u] = paste[u]
    BY <1>2, <1>3 DEF Thread
  <2> QED
    BY <2>1, <2>2 DEF Running
<1>5. OneThread' /\ (NoThread => NoThread')
  BY <1>4, ThreadsStay DEF OnceInv
<1>6. OneNews' /\ (NoNews => NoNews')
  BY <1>2, NewsAfter DEF OnceInv
<1>7. (NoDraw => NoDraw') /\ (NoTimer => NoTimer') /\ (Spent => Spent') /\ Once
  BY <1>1 DEF NoDraw, NoTimer, Spent, OnceInv
<1>8. CASE UNCHANGED landed
  <2>1. (Unpasted => Unpasted') /\ PastedAtMostOnce'
    BY <1>1, <1>8 DEF Unpasted, PastedAtMostOnce, OnceInv
  <2> QED
    BY <1>5, <1>6, <1>7, <2>1, NoFurther
<1>9. CASE /\ paste[t].pc = "closed" /\ paste[t].target \in open /\ paste' = [paste EXCEPT ![t] = Idle]
           /\ landed' = [landed EXCEPT ![paste[t].body] = Append(@, paste[t].target)]
  <2>1. Running(t) /\ ~NoThread
    BY <1>9 DEF Running, NoThread
  <2>2. Spent /\ NoNews /\ NoDraw /\ NoTimer /\ Unpasted
    BY <1>7, <2>1 DEF Once
  <2>3. NoThread'
    <3>1. ~Running(t)'
      BY <1>3, <1>9 DEF Running, Idle
    <3>2. \A u \in Threads : Running(u) => u = t
      BY <1>7, <2>1 DEF Once, OneThread
    <3> QED
      BY <1>4, <3>1, <3>2 DEF NoThread
  <2>4. Once'
    BY <1>5, <1>6, <1>7, <2>2, <2>3 DEF Once
  <2>5. paste[t].body = spoken /\ spoken \in Dictations
    BY <1>9, DictationAssumption DEF Rest, Pasting, Sound, TypeInv, DInv, Flight, Dictations
  <2>6. landed[spoken] = <<>>
    BY <2>2, <2>5 DEF Unpasted, Dictations
  <2>7. landed'[spoken] = <<paste[t].target>> /\ \A d \in Dictations : d # spoken => landed'[d] = landed[d]
    BY <1>9, <2>5, <2>6 DEF TypeInv, Past
  <2>8. PastedAtMostOnce'
    <3>1. Len(landed'[spoken]) <= 1
      BY <2>7
    <3>2. ASSUME NEW d \in Dictations PROVE Len(landed'[d]) <= 1
      <4>1. CASE d = spoken
        BY <3>1, <4>1
      <4>2. CASE d # spoken
        BY <2>7, <4>2 DEF PastedAtMostOnce, OnceInv
      <4> QED
        BY <4>1, <4>2
    <3> QED
      BY <3>2 DEF PastedAtMostOnce
  <2> QED
    BY <2>4, <2>8
<1> QED
  BY <1>8, <1>9 DEF Transfer, TransferAim, TransferClose, TransferPaste, TransferEnd, history

LEMMA OnceFromPage ==
  ASSUME TypeInv, Rest, OnceInv, Page
  PROVE  Once' /\ UNCHANGED landed
<1>1. UNCHANGED <<spoken, in_flight, job, busy, landed>>
  BY DEF Page, PageHandle, PageRender, CountdownEnds, CloseTimerEnds, session, engine, history
<1>2. (Unpasted => Unpasted') /\ (Spent => Spent') /\ Once
  BY <1>1 DEF Unpasted, Spent, OnceInv
<1>3. UNCHANGED paste => OneThread' /\ (NoThread => NoThread')
  BY <1>2, ThreadsStay DEF Running
<1>4. CASE PageHandle
  <2>1. feed \in Seq(Events) /\ feed # <<>> /\ feed' = Tail(feed) /\ UNCHANGED paste
    BY <1>4 DEF PageHandle, TypeInv, DInv, Shape
  <2>2. OneNews' /\ (NoNews => NoNews') /\ (Head(feed).kind = "result" => NoNews')
    BY <1>2, <2>1, NewsStays DEF Once
  <2>3. /\ NoTimer => NoTimer'
        /\ renders' = renders \/ renders' = renders \union {Head(feed)}
    BY <1>4 DEF PageHandle, Draw, webview, NoTimer
  <2>4. CASE Head(feed).kind # "result"
    <3>1. NoDraw => NoDraw'
      BY <2>3, <2>4 DEF NoDraw
    <3> QED
      BY <1>1, <1>2, <1>3, <2>1, <2>2, <2>3, <3>1, NoFurther
  <2>5. CASE Head(feed).kind = "result"
    <3>1. ~NoNews
      BY <2>1, <2>5, ToldLess DEF NoNews
    <3>2. Spent /\ NoDraw /\ NoTimer /\ NoThread /\ Unpasted
      BY <1>2, <3>1 DEF Once
    <3> QED
      BY <1>1, <1>2, <1>3, <2>1, <2>2, <2>3, <2>5, <3>2 DEF Once
  <2> QED
    BY <2>4, <2>5
<1>5. CASE PageRender
  <2>1. PICK e \in renders :
          /\ renders' = renders \ {e} /\ UNCHANGED <<feed, paste>>
          /\ e.kind = "result" \/ timer' = "close"
    BY <1>5 DEF PageRender
  <2>2. OneNews' /\ (NoNews => NoNews') /\ OneThread' /\ (NoThread => NoThread') /\ (NoDraw => NoDraw')
    BY <1>2, <1>3, <2>1, NewsAfter DEF NoDraw
  <2>3. CASE e.kind # "result"
    <3>1. NoTimer'
      BY <2>1, <2>3 DEF NoTimer
    <3> QED
      BY <1>1, <1>2, <2>2, <3>1, NoFurther
  <2>4. CASE e.kind = "result"
    <3>1. ~NoDraw
      BY <2>4 DEF NoDraw
    <3>2. Spent /\ NoNews /\ NoTimer /\ NoThread /\ Unpasted
      BY <1>2, <3>1 DEF Once
    <3>3. ASSUME NEW f \in renders, f.kind = "result" PROVE f = e
      <4>1. f \in Events /\ e \in Events /\ f.text = spoken /\ e.text = spoken
        BY <2>4, <3>3 DEF TypeInv, DInv, Shape, Rest, Rendered, Meant
      <4> QED
        BY <2>4, <3>3, <4>1 DEF Events
    <3>4. NoDraw'
      BY <2>1, <3>3 DEF NoDraw
    <3> QED
      BY <1>1, <1>2, <2>2, <3>2, <3>4 DEF Once
  <2> QED
    BY <2>3, <2>4
<1>6. CASE CountdownEnds
  <2>1. UNCHANGED <<feed, renders>> /\ timer = "countdown" /\ timer' = "none" /\ Spawn(page_text)
    BY <1>6 DEF CountdownEnds
  <2>2. Spent /\ NoNews /\ NoDraw /\ NoThread /\ Unpasted
    BY <1>2, <2>1 DEF Once, NoTimer
  <2>3. OneNews' /\ NoNews' /\ NoDraw' /\ NoTimer'
    BY <1>2, <2>1, <2>2, NewsAfter DEF NoDraw, NoTimer
  <2>4. OneThread'
    <3>1. PICK t \in Threads : paste' = [paste EXCEPT ![t] = [Idle EXCEPT !.pc = "asked", !.body = page_text]]
      BY <2>1 DEF Spawn
    <3>2. \A u \in Threads : u # t => paste'[u] = paste[u]
      BY <3>1 DEF TypeInv, DInv, Shape
    <3> QED
      BY <2>2, <3>2 DEF OneThread, NoThread, Running
  <2> QED
    BY <1>1, <1>2, <2>2, <2>3, <2>4 DEF Once
<1>7. CASE CloseTimerEnds
  <2>1. UNCHANGED <<renders, paste>> /\ timer' = "none" /\ PanelClose
    BY <1>7 DEF CloseTimerEnds
  <2>2. OneNews' /\ (NoNews => NoNews') /\ (NoDraw => NoDraw') /\ (NoTimer => NoTimer')
    BY <1>2, <2>1, NewsAfter DEF NoDraw, NoTimer
  <2> QED
    BY <1>1, <1>2, <1>3, <2>1, <2>2, NoFurther
<1> QED
  BY <1>1, <1>4, <1>5, <1>6, <1>7 DEF Page

LEMMA OnceInvStays ==
  ASSUME HandsOff, TypeInv, PatientInv, OnceInv, [Next]_vars
  PROVE  OnceInv'
<1>1. Silent' /\ Ordered /\ Pressed /\ Rest
  BY SilentStays DEF OnceInv, PatientInv
<1>2. ASSUME UNCHANGED landed PROVE PastedAtMostOnce'
  BY <1>2 DEF OnceInv, PastedAtMostOnce
<1>3. CASE Session
  BY <1>1, <1>2, <1>3, OnceFromSession DEF OnceInv
<1>4. CASE EngineTake \/ EngineAnswer \/ EngineComesAndGoes
  BY <1>1, <1>2, <1>4, OnceFromEngine DEF OnceInv
<1>5. CASE \E t \in Threads : Transfer(t)
  BY <1>1, <1>5, OnceFromPaste DEF OnceInv
<1>6. CASE Page
  BY <1>1, <1>2, <1>6, OnceFromPage DEF OnceInv
<1>7. CASE PressPanelKey \/ Pointer \/ Reapply
  BY <1>7 DEF HandsOff, Patient, PressPanelKey, Reapply, Pointer, StopCountdown, ClickTransfer, ClickCopy,
     ClickCancel, ClickRerecord, OnScreen
<1>8. CASE PressTrigger \/ EndPress \/ MoveFocus \/ CloseWindow \/ UNCHANGED vars
  <2>1. UNCHANGED <<spoken, in_flight, job, busy, feed, renders, timer, paste, landed>>
    BY <1>8 DEF PressTrigger, EndPress, MoveFocus, CloseWindow, vars, session, engine, webview, history
  <2>2. OneNews' /\ OneThread'
    BY <2>1 DEF OnceInv, Once, OneNews, News, OneThread, Running
  <2>3. /\ (Spent => Spent') /\ (NoNews => NoNews') /\ (NoDraw => NoDraw') /\ (NoTimer => NoTimer')
        /\ (NoThread => NoThread') /\ (Unpasted => Unpasted')
    BY <2>1 DEF Spent, NoNews, Told, NoDraw, NoTimer, NoThread, Running, Unpasted
  <2>4. Once'
    BY <2>2, <2>3, NoFurther DEF OnceInv
  <2> QED
    BY <1>1, <1>2, <2>1, <2>4 DEF OnceInv
<1> QED
  BY <1>3, <1>4, <1>5, <1>6, <1>7, <1>8 DEF Next

(* With nobody's hands on the card one dictation is pasted once at most,   *)
(* however many windows close and engines fail on the way: the countdown   *)
(* is the only one that asks (panel.js, startCountdown; panel.rs,          *)
(* transfer).                                                              *)
THEOREM PastesAtMostOnce == HandsOff => (Spec => []PastedAtMostOnce)
<1> SUFFICES ASSUME HandsOff PROVE Spec => []PastedAtMostOnce
  OBVIOUS
<1> DEFINE Inv == TypeInv /\ PatientInv /\ OnceInv
<1>1. Init => Inv
  <2> SUFFICES ASSUME Init PROVE OnceInv
    BY TypeInvHoldsAtFirst, PatientInvAtFirst
  <2>1. Len(actions) = 0 /\ Len(feed) = 0 /\ Told = {}
    BY DEF Init, Told
  <2>2. Once
    BY <2>1 DEF Init, Once, OneNews, OneThread, Running, Idle, NoNews, NoDraw, NoTimer, NoThread, Unpasted
  <2> QED
    BY <2>1, <2>2 DEF Init, OnceInv, Silent, PastedAtMostOnce
<1>2. Inv /\ [Next]_vars => Inv'
  BY TypesStay, PatientInvStays, OnceInvStays DEF HandsOff
<1>3. Inv => PastedAtMostOnce
  BY DEF OnceInv
<1> QED
  BY <1>1, <1>2, <1>3, PTL DEF Spec

-----------------------------------------------------------------------------
(* The refinement.  Where no window closes and nothing refuses the text,   *)
(* the newest dictation is the only one that moves: it is in one place, or *)
(* on its way to its window, and those before it have landed or are gone.  *)
Undisturbed == Patient /\ "desktop" \notin Disturbances

Shown ==
  /\ open = Windows /\ focus \in Windows /\ (spoken > 0 => target \in Windows)
  /\ mode = "Result" => dictation = spoken
  /\ mode \in {"Closed", "Live"} => dictation = None
  /\ dictation # None => Spent

LEMMA ShownStays ==
  ASSUME Undisturbed, TypeInv, Rest, Shown, [Next]_vars
  PROVE  Shown'
<1> USE DEF Shown
<1>1. CASE UNCHANGED <<open, focus, spoken, target, mode, dictation, in_flight, job, busy>>
  BY <1>1 DEF Spent
<1>2. CASE PanelClose /\ UNCHANGED <<open, focus, spoken>>
  BY <1>2 DEF PanelClose, None
<1>3. CASE StartRecording
  <2>1. CASE PanelBegin /\ UNCHANGED desktop
    BY <2>1 DEF PanelBegin, desktop
  <2>2. CASE in_flight' = None /\ UNCHANGED <<spoken, panel, job, busy, open, focus>>
    BY <2>2 DEF panel, Spent
  <2> QED
    BY <1>3, <2>1, <2>2 DEF StartRecording, CaptureLost, engine, desktop
<1>4. CASE StopRecording
  <2>1. UNCHANGED <<open, focus, spoken, busy>>
    BY <1>4 DEF StopRecording, desktop
  <2>2. CASE UNCHANGED panel /\ in_flight' \in {in_flight, None} /\ job' \in {job, in_flight}
    BY <2>1, <2>2 DEF panel, Spent
  <2> QED
    BY <1>2, <1>4, <2>1, <2>2 DEF StopRecording, TakeRecording, Finish, CaptureLost
<1>5. CASE DiscardRecording \/ CancelFromKeyboard
  BY <1>2, <1>5 DEF DiscardRecording, CancelFromKeyboard, PanelCancel, desktop
<1>6. CASE OpenPanelIdle
  BY <1>6 DEF OpenPanelIdle, PanelOpenIdle, desktop, session, engine, Spent
<1>7. CASE TransferFromKeyboard \/ CopyFromKeyboard
  BY <1>1, <1>2, <1>7 DEF TransferFromKeyboard, CopyFromKeyboard, desktop, session, engine, panel
<1>8. CASE EngineTake
  <2>1. UNCHANGED <<open, focus, spoken, in_flight>> /\ ~Spent /\ job # None /\ job' = None
    BY <1>8 DEF EngineTake, desktop, session, Spent
  <2>2. CASE UNCHANGED panel
    BY <2>1, <2>2 DEF panel
  <2> QED
    BY <1>2, <1>8, <2>1, <2>2 DEF EngineTake
<1>9. CASE EngineAnswer
  <2>1. UNCHANGED <<open, focus, spoken, in_flight, job>> /\ busy # None /\ busy' = None
    BY <1>9 DEF EngineAnswer, desktop, session
  <2>2. busy = spoken /\ job = None /\ in_flight = None
    BY <2>1 DEF Rest, Current, Heard, Alone
  <2>3. CASE PanelShowResult(busy)
    BY <2>1, <2>2, <2>3 DEF PanelShowResult, Spent
  <2> QED
    BY <1>2, <1>9, <2>1, <2>3 DEF EngineAnswer
<1>10. CASE EngineComesAndGoes
  BY <1>1, <1>10 DEF EngineComesAndGoes, desktop, session, panel
<1>11. ASSUME NEW t \in Threads, Transfer(t) PROVE Shown'
  <2>1. CASE TransferAim(t) \/ TransferEnd(t)
    BY <1>1, <2>1 DEF TransferAim, TransferEnd, desktop, session, engine, panel
  <2>2. CASE TransferClose(t)
    BY <1>1, <1>2, <2>2 DEF TransferClose, desktop, session, engine, panel
  <2>3. CASE TransferPaste(t)
    BY <2>3 DEF TransferPaste, session, engine, panel, Spent
  <2> QED
    BY <1>11, <2>1, <2>2, <2>3 DEF Transfer
<1>12. CASE Page
  BY <1>1, <1>2, <1>12 DEF Page, PageHandle, PageRender, CountdownEnds, CloseTimerEnds, desktop, session,
     engine, panel
<1>13. CASE Pointer
  BY <1>1, <1>2, <1>13 DEF Pointer, StopCountdown, ClickTransfer, ClickCopy, ClickCancel, ClickRerecord,
     PanelCancel, desktop, session, engine, panel
<1>14. CASE PressTrigger \/ EndPress \/ PressPanelKey \/ UNCHANGED vars
  BY <1>1, <1>14 DEF PressTrigger, EndPress, PressPanelKey, vars, desktop, session, engine, panel
<1>15. CASE MoveFocus
  BY <1>15 DEF MoveFocus, session, engine, panel, Spent
<1>16. CASE CloseWindow \/ Reapply
  BY <1>16 DEF CloseWindow, Reapply, Undisturbed, Patient
<1> QED
  BY <1>3, <1>4, <1>5, <1>6, <1>7, <1>8, <1>9, <1>10, <1>11, <1>12, <1>13, <1>14, <1>15, <1>16
     DEF Next, Session

-----------------------------------------------------------------------------
(* Where the newest dictation is, if there is one. *)
Caught  == in_flight = spoken
Worked  == spoken \in {job, busy}
OnShow  == dictation = spoken \/ Leaving(spoken)
Arrived == landed[spoken] # <<>>

LEMMA LeavingIsTheNewest ==
  ASSUME TypeInv, Rest, Shown, NEW d, Leaving(d)
  PROVE  d = spoken /\ spoken > 0 /\ Spent
<1>1. PICK t \in Threads : paste[t].pc \in {"aimed", "closed"} /\ paste[t].body = d
  BY DEF Leaving
<1>2. /\ spoken > 0 /\ Spent /\ paste[t].target = aimed[spoken]
      /\ paste[t].body = spoken \/ paste[t].target \notin open
  BY <1>1 DEF Rest, Pasting, Sound
<1>3. aimed[spoken] \in open
  BY <1>2 DEF Rest, Current, Shown
<1> QED
  BY <1>1, <1>2, <1>3

LEMMA OnePlace ==
  ASSUME TypeInv, Rest, Shown, spoken > 0
  PROVE  /\ Caught => ~Worked /\ ~OnShow
         /\ Worked => ~OnShow
<1>1. OnShow => Spent
  BY LeavingIsTheNewest, DictationAssumption DEF OnShow, Shown, None, TypeInv, DInv, Flight
<1>2. Caught => in_flight # None /\ job = None /\ busy = None
  BY DEF Caught, Rest, Heard, Alone, None
<1>3. Spent => ~Caught /\ ~Worked
  BY DEF Spent, Caught, Worked, None
<1>4. Caught => ~Worked
  BY <1>2 DEF Worked, None
<1> QED
  BY <1>1, <1>3, <1>4

(* The stages of all the dictations, as functions of that. *)
Staged ==
  /\ Stage = [d \in Dictations |-> Stage[d]]
  /\ \A d \in Dictations : d > spoken => Stage[d] = "unspoken"
  /\ \A d \in Dictations : d < spoken => Stage[d] = IF landed[d] # <<>> THEN "landed" ELSE "dropped"
  /\ spoken > 0 =>
       /\ spoken \in Dictations
       /\ Stage[spoken] = IF Arrived THEN "landed" ELSE IF Caught THEN "recording"
                          ELSE IF Worked THEN "working" ELSE IF OnShow THEN "shown" ELSE "dropped"

Newest == TypeInv /\ Rest /\ Shown

LEMMA StagesAre == Newest => Staged
<1> SUFFICES ASSUME TypeInv, Rest, Shown PROVE Staged
  BY DEF Newest
<1>1. spoken \in 0..MaxDictations /\ MaxDictations \in Nat
  BY DictationAssumption DEF TypeInv, DInv, Flight
<1>2. Stage = [d \in Dictations |-> Stage[d]]
  BY DEF Stage
<1>3. \A d \in Dictations : d > spoken => Stage[d] = "unspoken"
  BY DEF Stage
<1>4. ASSUME NEW d \in Dictations, d < spoken
      PROVE  Stage[d] = IF landed[d] # <<>> THEN "landed" ELSE "dropped"
  <2>1. d # spoken /\ d # None /\ ~(d > spoken)
    BY <1>1, <1>4 DEF Dictations, None
  <2>2. d \notin {in_flight, job, busy, dictation} /\ ~Leaving(d)
    BY <2>1, LeavingIsTheNewest DEF Rest, Current
  <2> QED
    BY <2>1, <2>2 DEF Stage
<1>5. ASSUME spoken > 0
      PROVE  /\ spoken \in Dictations
             /\ Stage[spoken] = IF Arrived THEN "landed" ELSE IF Caught THEN "recording"
                                 ELSE IF Worked THEN "working" ELSE IF OnShow THEN "shown" ELSE "dropped"
  <2>1. spoken \in Dictations /\ ~(spoken > spoken)
    BY <1>1, <1>5 DEF Dictations
  <2> QED
    BY <2>1 DEF Stage, Arrived, Caught, Worked, OnShow
<1> QED
  BY <1>2, <1>3, <1>4, <1>5 DEF Staged

(* The newest dictation moves and the others stay. *)
LEMMA StagesAreNext == Newest' => Staged'
BY StagesAre, PTL

LEMMA OthersStay ==
  ASSUME Newest, Newest', spoken' = spoken,
         \A d \in Dictations : d < spoken => landed'[d] = landed[d]
  PROVE  /\ \A d \in Dictations : d # spoken => Stage'[d] = Stage[d]
         /\ spoken = 0 \/ Stage'[spoken] = Stage[spoken] => Stage' = Stage
         /\ spoken > 0 => Stage' = [Stage EXCEPT ![spoken] = Stage'[spoken]]
<1>1. spoken \in Nat /\ MaxDictations \in Nat
  BY DictationAssumption DEF Newest, TypeInv, DInv, Flight
<1> Staged /\ Staged'
  BY StagesAre, StagesAreNext
<1>2. ASSUME NEW d \in Dictations, d # spoken PROVE Stage'[d] = Stage[d]
  <2>1. CASE d > spoken
    BY <2>1 DEF Staged
  <2>2. CASE d < spoken
    BY <2>2 DEF Staged
  <2> QED
    BY <1>1, <1>2, <2>1, <2>2 DEF Dictations
<1>3. Stage = [d \in Dictations |-> Stage[d]] /\ Stage' = [d \in Dictations |-> Stage'[d]]
  BY DEF Staged
<1> HIDE DEF Stage
<1>4. spoken = 0 => \A d \in Dictations : d # spoken
  BY <1>1 DEF Dictations
<1>5. spoken = 0 \/ Stage'[spoken] = Stage[spoken] => Stage' = Stage
  BY <1>2, <1>3, <1>4
<1>6. spoken > 0 => Stage' = [Stage EXCEPT ![spoken] = Stage'[spoken]]
  BY <1>2, <1>3
<1> QED
  BY <1>2, <1>5, <1>6

LEMMA PlainMove ==
  ASSUME NEW d \in Dictations, NEW to, NEW others,
         Stage = [e \in Dictations |-> Stage[e]], Stage' = [Stage EXCEPT ![d] = to]
  PROVE  L!Move(d, to, others)
<1> HIDE DEF Stage
<1>1. Stage' = [e \in Dictations |-> IF e = d THEN to ELSE IF e \in {} THEN "dropped" ELSE Stage[e]]
  OBVIOUS
<1>2. {} \in SUBSET others
  OBVIOUS
<1>3. \E lost \in SUBSET others :
        Stage' = [e \in Dictations |-> IF e = d THEN to ELSE IF e \in lost THEN "dropped" ELSE Stage[e]]
  BY <1>1, <1>2, Zenon
<1> QED
  BY <1>3, Zenon DEF L!Move

(* A step may leave the newest where it is, or it is dropped. *)
LEMMA Fades ==
  ASSUME Newest, Newest', UNCHANGED <<spoken, landed>>,
         spoken > 0 => (Caught' => Caught) /\ (Worked' => Worked) /\ (OnShow' => OnShow)
  PROVE  [L!Next]_Stage
<1>1. /\ spoken = 0 \/ Stage'[spoken] = Stage[spoken] => Stage' = Stage
      /\ spoken > 0 => Stage' = [Stage EXCEPT ![spoken] = Stage'[spoken]]
  BY OthersStay
<1> Staged /\ Staged'
  BY StagesAre, StagesAreNext
<1> HIDE DEF Stage
<1>2. CASE spoken = 0
  BY <1>1, <1>2
<1>3. CASE spoken > 0
  <2>1. /\ spoken \in Dictations
        /\ Stage[spoken] = IF Arrived THEN "landed" ELSE IF Caught THEN "recording"
                           ELSE IF Worked THEN "working" ELSE IF OnShow THEN "shown" ELSE "dropped"
        /\ Stage'[spoken] = IF Arrived' THEN "landed" ELSE IF Caught' THEN "recording"
                            ELSE IF Worked' THEN "working" ELSE IF OnShow' THEN "shown" ELSE "dropped"
    BY <1>3 DEF Staged
  <2>2. (Caught => ~Worked /\ ~OnShow) /\ (Worked => ~OnShow)
    BY <1>3, OnePlace DEF Newest
  <2>3. Arrived' <=> Arrived
    BY DEF Arrived
  <2>4. Stage'[spoken] = Stage[spoken] \/ (Stage[spoken] \in {"recording", "working", "shown"} /\ Stage'[spoken] = "dropped")
    BY <1>3, <2>1, <2>2, <2>3
  <2> QED
    BY <1>1, <1>3, <2>1, <2>4 DEF L!Next, L!Drop, L!Unfinished
<1> QED
  BY <1>2, <1>3 DEF Newest, TypeInv, DInv, Flight

LEMMA HandsOver ==
  ASSUME Newest, Newest', UNCHANGED <<spoken, landed>>, spoken > 0, Caught, ~Caught', Worked'
  PROVE  [L!Next]_Stage
<1>1. /\ Stage'[spoken] = Stage[spoken] => Stage' = Stage
      /\ Stage' = [Stage EXCEPT ![spoken] = Stage'[spoken]]
  BY OthersStay
<1>2. Arrived' <=> Arrived
  BY DEF Arrived
<1> Staged /\ Staged'
  BY StagesAre, StagesAreNext
<1> HIDE DEF Stage
<1>3. CASE Arrived
  BY <1>1, <1>2, <1>3 DEF Staged
<1>4. CASE ~Arrived
  <2>1. Stage[spoken] = "recording" /\ Stage'[spoken] = "working" /\ spoken \in Dictations
    BY <1>2, <1>4 DEF Staged
  <2>2. L!Move(spoken, "working", L!At("working"))
    BY <1>1, <2>1, PlainMove DEF Staged
  <2> QED
    BY <2>1, <2>2 DEF L!Next, L!HandOver
<1> QED
  BY <1>3, <1>4

LEMMA Shows ==
  ASSUME Newest, Newest', UNCHANGED <<spoken, landed>>, spoken > 0, Worked, ~Worked', ~Caught', OnShow'
  PROVE  [L!Next]_Stage
<1>1. /\ Stage'[spoken] = Stage[spoken] => Stage' = Stage
      /\ Stage' = [Stage EXCEPT ![spoken] = Stage'[spoken]]
  BY OthersStay
<1>2. Arrived' <=> Arrived
  BY DEF Arrived
<1>3. ~Caught
  BY OnePlace DEF Newest
<1> Staged /\ Staged'
  BY StagesAre, StagesAreNext
<1> HIDE DEF Stage
<1>4. CASE Arrived
  BY <1>1, <1>2, <1>4 DEF Staged
<1>5. CASE ~Arrived
  <2>1. Stage[spoken] = "working" /\ Stage'[spoken] = "shown" /\ spoken \in Dictations
    BY <1>2, <1>3, <1>5 DEF Staged
  <2>2. L!Move(spoken, "shown", L!At("shown"))
    BY <1>1, <2>1, PlainMove DEF Staged
  <2>3. \A e \in L!Earlier(spoken) : Stage[e] \notin {"recording", "working"}
    BY DEF Staged, L!Earlier
  <2> QED
    BY <2>1, <2>2, <2>3 DEF L!Next, L!Show
<1> QED
  BY <1>4, <1>5

LEMMA Lands ==
  ASSUME Newest, Newest', spoken' = spoken, \A d \in Dictations : d < spoken => landed'[d] = landed[d],
         Leaving(spoken), Arrived'
  PROVE  [L!Next]_Stage
<1>1. spoken > 0 /\ Spent /\ OnShow
  BY LeavingIsTheNewest DEF Newest, OnShow
<1>2. /\ Stage'[spoken] = Stage[spoken] => Stage' = Stage
      /\ Stage' = [Stage EXCEPT ![spoken] = Stage'[spoken]]
  BY <1>1, OthersStay
<1>3. ~Caught /\ ~Worked
  BY <1>1, OnePlace DEF Newest
<1> Staged /\ Staged'
  BY StagesAre, StagesAreNext
<1> HIDE DEF Stage
<1>4. CASE Arrived
  BY <1>1, <1>2, <1>4 DEF Staged
<1>5. CASE ~Arrived
  <2>1. Stage[spoken] = "shown" /\ Stage'[spoken] = "landed" /\ spoken \in Dictations
    BY <1>1, <1>3, <1>5 DEF Staged
  <2> QED
    BY <1>2, <2>1 DEF L!Next, L!Land
<1> QED
  BY <1>4, <1>5

LEMMA Speaks ==
  ASSUME Newest, Newest', spoken' = spoken + 1, in_flight' = spoken + 1, landed' = landed,
         Spent, dictation = None, \A t \in Threads : paste[t] = Idle
  PROVE  [L!Next]_Stage
<1>1. spoken \in Nat /\ spoken + 1 \in Dictations /\ MaxDictations \in Nat
  BY DictationAssumption DEF Newest, TypeInv, DInv, Flight, Dictations
<1>2. landed[spoken + 1] = <<>> /\ Caught' /\ ~Arrived'
  BY <1>1 DEF Newest, TypeInv, DInv, Carried, InLanded, Handed, None, Flight, Dictations, Caught, Arrived
<1>3. spoken > 0 => ~Caught /\ ~Worked /\ ~OnShow
  BY DEF Spent, Caught, Worked, OnShow, Leaving, Idle, None
<1> Staged /\ Staged'
  BY StagesAre, StagesAreNext
<1> HIDE DEF Stage
<1>4. Stage'[spoken + 1] = "recording" /\ Stage[spoken + 1] = "unspoken"
  <2>1. spoken' > 0 /\ spoken + 1 > spoken
    BY <1>1
  <2> QED
    BY <1>1, <1>2, <2>1 DEF Staged
<1>5. \A d \in Dictations : d < spoken + 1 =>
        Stage[d] = (IF landed[d] # <<>> THEN "landed" ELSE "dropped") /\ Stage'[d] = Stage[d]
  <2> SUFFICES ASSUME NEW d \in Dictations, d < spoken + 1
               PROVE  Stage[d] = (IF landed[d] # <<>> THEN "landed" ELSE "dropped") /\ Stage'[d] = Stage[d]
    OBVIOUS
  <2>1. d < spoken \/ d = spoken
    BY <1>1 DEF Dictations
  <2>2. Stage'[d] = IF landed[d] # <<>> THEN "landed" ELSE "dropped"
    BY DEF Staged
  <2>3. CASE d < spoken
    BY <2>2, <2>3 DEF Staged
  <2>4. CASE d = spoken
    <3>1. spoken > 0
      BY <2>4, <1>1 DEF Dictations
    <3> QED
      BY <1>3, <2>2, <2>4, <3>1 DEF Staged, Arrived
  <2> QED
    BY <2>1, <2>3, <2>4
<1>6. \A d \in Dictations : d > spoken + 1 => Stage'[d] = "unspoken" /\ Stage[d] = "unspoken"
  <2>1. \A d \in Dictations : d > spoken + 1 => d > spoken
    BY <1>1 DEF Dictations
  <2> QED
    BY <2>1 DEF Staged
<1>7. Stage' = [Stage EXCEPT ![spoken + 1] = "recording"]
  <2>1. \A d \in Dictations : d # spoken + 1 => Stage'[d] = Stage[d]
    <3>1. \A d \in Dictations : d # spoken + 1 => d < spoken + 1 \/ d > spoken + 1
      BY <1>1 DEF Dictations
    <3> QED
      BY <1>5, <1>6, <3>1
  <2>2. Stage = [d \in Dictations |-> Stage[d]] /\ Stage' = [d \in Dictations |-> Stage'[d]]
    BY DEF Staged
  <2> QED
    BY <1>1, <1>4, <2>1, <2>2
<1>8. L!Move(spoken + 1, "recording", L!At("shown"))
  BY <1>1, <1>7, PlainMove DEF Staged
<1>9. L!At("recording") = {}
  <2>1. \A d \in Dictations : d < spoken + 1 \/ d = spoken + 1 \/ d > spoken + 1
    BY <1>1 DEF Dictations
  <2>2. \A d \in Dictations : Stage[d] # "recording"
    BY <1>4, <1>5, <1>6, <2>1
  <2> QED
    BY <2>2 DEF L!At
<1>10. \A e \in L!Earlier(spoken + 1) : Stage[e] # "unspoken"
  BY <1>5 DEF L!Earlier
<1> QED
  BY <1>1, <1>4, <1>8, <1>9, <1>10 DEF L!Next, L!Speak

-----------------------------------------------------------------------------
(* Each step of the threads is one of the lifecycle's, or none. *)
LEMMA FadesPlainly ==
  ASSUME Newest, Newest', UNCHANGED <<spoken, landed>>, in_flight' \in {in_flight, None}, job' \in {job, None},
         busy' \in {busy, job, None}, dictation' \in {dictation, None},
         Leaving(spoken)' => Leaving(spoken) \/ dictation = spoken
  PROVE  [L!Next]_Stage
<1>1. spoken > 0 => (Caught' => Caught) /\ (Worked' => Worked) /\ (OnShow' => OnShow)
  BY DEF Caught, Worked, OnShow, None
<1> QED
  BY <1>1, Fades

LEMMA SpawnLeaves ==
  ASSUME TypeInv, NEW d, NEW x, Spawn(d), Leaving(x)'
  PROVE  Leaving(x)
<1>1. PICK t \in Threads : paste' = [paste EXCEPT ![t] = [Idle EXCEPT !.pc = "asked", !.body = d]]
  BY DEF Spawn
<1>2. \A u \in Threads : u # t => paste'[u] = paste[u]
  BY <1>1 DEF TypeInv, DInv, Shape
<1>3. paste'[t].pc = "asked"
  BY <1>1 DEF TypeInv, DInv, Shape, Idle
<1> QED
  BY <1>2, <1>3 DEF Leaving

LEMMA SessionRefines ==
  ASSUME Newest, Newest', Session
  PROVE  [L!Next]_Stage
<1>1. CASE StartRecording
  <2>1. Coming
    <3>1. actions # <<>> /\ actions \in Seq(Action) /\ Head(actions) = "StartRecording"
      BY <1>1 DEF StartRecording, Take, Newest, TypeInv, Queues
    <3> QED
      BY <3>1 DEF Coming
  <2>2. Spent /\ dictation = None /\ \A t \in Threads : paste[t] = Idle
    BY <2>1 DEF Newest, Rest, Hushed, Shown
  <2>3. CASE spoken' = spoken + 1 /\ in_flight' = spoken + 1
    BY <1>1, <2>2, <2>3, Speaks DEF StartRecording
  <2>4. CASE CaptureLost /\ UNCHANGED <<spoken, panel>>
    BY <1>1, <2>4, FadesPlainly DEF StartRecording, CaptureLost, panel, engine, Leaving
  <2> QED
    BY <1>1, <2>3, <2>4 DEF StartRecording
<1>2. CASE StopRecording
  <2>1. /\ UNCHANGED <<spoken, landed, busy, paste>> /\ in_flight' \in {in_flight, None}
        /\ job' \in {job, in_flight} /\ dictation' \in {dictation, None}
        /\ job' # job => in_flight' = None /\ in_flight # None
    BY <1>2 DEF StopRecording, TakeRecording, Finish, CaptureLost, history, PanelClose, panel
  <2>2. CASE job' = job
    BY <2>1, <2>2, FadesPlainly DEF Leaving
  <2>3. CASE job' # job
    <3>1. in_flight = spoken /\ spoken > 0 /\ job' = spoken /\ in_flight' = None
      BY <2>1, <2>3, DictationAssumption DEF Newest, Rest, Current, None, TypeInv, DInv, Flight
    <3> QED
      BY <2>1, <3>1, HandsOver DEF Caught, Worked, None
  <2> QED
    BY <2>2, <2>3
<1>3. CASE DiscardRecording \/ CancelFromKeyboard
  <2>1. /\ UNCHANGED <<spoken, landed, job, busy, paste>> /\ in_flight' \in {in_flight, None}
        /\ dictation' = None
    BY <1>3 DEF DiscardRecording, CancelFromKeyboard, ThrowAway, PanelCancel, PanelClose, engine
  <2> QED
    BY <2>1, FadesPlainly DEF Leaving
<1>4. CASE OpenPanelIdle \/ CopyFromKeyboard
  <2>1. UNCHANGED <<spoken, landed, in_flight, job, busy, paste>> /\ dictation' \in {dictation, None}
    BY <1>4 DEF OpenPanelIdle, CopyFromKeyboard, PanelOpenIdle, PanelClose, panel, session, engine, history
  <2> QED
    BY <2>1, FadesPlainly DEF Leaving
<1>5. CASE TransferFromKeyboard
  <2>1. UNCHANGED <<spoken, landed, in_flight, job, busy, dictation>> /\ Spawn(None)
    BY <1>5 DEF TransferFromKeyboard, panel, session, engine, history
  <2> QED
    BY <2>1, FadesPlainly, SpawnLeaves DEF Newest
<1> QED
  BY <1>1, <1>2, <1>3, <1>4, <1>5 DEF Session

LEMMA EngineRefines ==
  ASSUME Newest, Newest', EngineTake \/ EngineAnswer \/ EngineComesAndGoes
  PROVE  [L!Next]_Stage
<1>1. UNCHANGED <<spoken, in_flight, paste, landed>>
  BY DEF EngineTake, EngineAnswer, EngineComesAndGoes, session, history
<1>2. CASE EngineTake \/ EngineComesAndGoes
  <2>1. job' \in {job, None} /\ busy' \in {busy, job, None} /\ dictation' \in {dictation, None}
    BY <1>2 DEF EngineTake, EngineComesAndGoes, panel, PanelClose
  <2> QED
    BY <1>1, <2>1, FadesPlainly DEF Leaving
<1>3. CASE EngineAnswer
  <2>1. busy # None /\ busy' = None /\ UNCHANGED job /\ dictation' \in {busy, None}
    BY <1>3 DEF EngineAnswer, PanelShowResult, PanelClose
  <2>2. CASE dictation' = None
    BY <1>1, <2>1, <2>2, FadesPlainly DEF Leaving
  <2>3. CASE dictation' = busy
    <3>1. busy = spoken /\ spoken > 0 /\ job = None /\ in_flight = None
      BY <2>1, DictationAssumption DEF Newest, Rest, Current, Heard, Alone, None, TypeInv, DInv, Flight
    <3> QED
      BY <1>1, <2>1, <2>3, <3>1, Shows DEF Worked, Caught, OnShow, None
  <2> QED
    BY <2>1, <2>2, <2>3
<1> QED
  BY <1>2, <1>3

LEMMA TransferRefines ==
  ASSUME Newest, Newest', NEW t \in Threads, Transfer(t)
  PROVE  [L!Next]_Stage
<1>1. UNCHANGED <<spoken, in_flight, job, busy>>
  BY DEF Transfer, TransferAim, TransferClose, TransferPaste, TransferEnd, session, engine
<1>2. paste \in [Threads -> Thread] /\ paste[t] \in Thread
  BY DEF Newest, TypeInv, DInv, Shape
<1>3. CASE /\ UNCHANGED landed /\ dictation' \in {dictation, None}
           /\ \A u \in Threads : u # t => paste'[u] = paste[u]
           /\ paste'[t].pc \notin {"aimed", "closed"} \/ mode = "Result"
                \/ (paste[t].pc = "aimed" /\ paste'[t].body = paste[t].body)
  <2>1. mode = "Result" => dictation = spoken
    BY DEF Newest, Shown
  <2>2. Leaving(spoken)' => Leaving(spoken) \/ dictation = spoken
    BY <1>1, <1>3, <2>1 DEF Leaving
  <2> QED
    BY <1>1, <1>3, <2>2, FadesPlainly
<1>4. CASE TransferAim(t)
  <2>1. UNCHANGED <<landed, dictation>> /\ \A u \in Threads : u # t => paste'[u] = paste[u]
    BY <1>2, <1>4 DEF TransferAim, history
  <2>2. paste'[t].pc \notin {"aimed", "closed"} \/ mode = "Result"
    BY <1>2, <1>4 DEF TransferAim, Idle
  <2> QED
    BY <1>3, <2>1, <2>2
<1>5. CASE TransferClose(t)
  <2>1. UNCHANGED landed /\ dictation' \in {dictation, None} /\ \A u \in Threads : u # t => paste'[u] = paste[u]
    BY <1>2, <1>5 DEF TransferClose, history, panel, PanelClose
  <2>2. paste[t].pc = "aimed" /\ paste'[t].body = paste[t].body
    BY <1>2, <1>5 DEF TransferClose, Thread
  <2> QED
    BY <1>3, <2>1, <2>2
<1>6. CASE TransferEnd(t)
  <2>1. UNCHANGED <<landed, dictation>> /\ (\A u \in Threads : u # t => paste'[u] = paste[u]) /\ paste'[t] = Idle
    BY <1>2, <1>6 DEF TransferEnd, history, panel
  <2> QED
    BY <1>3, <2>1 DEF Idle
<1>7. CASE TransferPaste(t)
  <2>1. UNCHANGED dictation /\ \A u \in Threads : u # t => paste'[u] = paste[u]
    BY <1>2, <1>7 DEF TransferPaste, panel
  <2>2. paste'[t].pc \in {"idle", "gone"}
    BY <1>2, <1>7 DEF TransferPaste, Idle, Thread
  <2>3. CASE UNCHANGED landed
    BY <1>3, <2>1, <2>2, <2>3
  <2>4. CASE landed' = [landed EXCEPT ![paste[t].body] = Append(@, paste[t].target)]
    <3>1. Leaving(paste[t].body)
      BY <1>7 DEF Leaving, TransferPaste
    <3>2. paste[t].body = spoken /\ spoken > 0
      BY <3>1, LeavingIsTheNewest DEF Newest
    <3>3. spoken \in Dictations
      BY <3>2, DictationAssumption DEF Newest, TypeInv, DInv, Flight, Dictations
    <3>4. landed'[spoken] = Append(landed[spoken], paste[t].target) /\ landed[spoken] \in Seq(Windows)
      BY <2>4, <3>2, <3>3 DEF Newest, TypeInv, Past
    <3>5. Arrived'
      <4>1. landed'[spoken] # <<>>
        BY <3>4
      <4> QED
        BY <1>1, <4>1 DEF Arrived
    <3>6. \A d \in Dictations : d < spoken => landed'[d] = landed[d]
      <4>1. \A d \in Dictations : d < spoken => d # spoken
        BY <3>3 DEF Dictations
      <4> QED
        BY <2>4, <3>2, <4>1 DEF Newest, TypeInv, Past
    <3> QED
      BY <1>1, <3>1, <3>2, <3>5, <3>6, Lands
  <2> QED
    BY <1>7, <2>3, <2>4 DEF TransferPaste
<1> QED
  BY <1>4, <1>5, <1>6, <1>7 DEF Transfer

LEMMA TheRestRefines ==
  ASSUME Newest, Newest',
         \/ Page \/ Pointer \/ PressTrigger \/ EndPress \/ PressPanelKey
         \/ MoveFocus \/ CloseWindow \/ UNCHANGED vars
  PROVE  [L!Next]_Stage
<1>1. UNCHANGED <<spoken, in_flight, job, busy, landed>>
  BY DEF Page, PageHandle, PageRender, CountdownEnds, CloseTimerEnds, Pointer, StopCountdown, ClickTransfer,
     ClickCopy, ClickCancel, ClickRerecord, PressTrigger, EndPress, PressPanelKey, MoveFocus, CloseWindow,
     vars, session, engine, history
<1>2. dictation' \in {dictation, None}
  BY DEF Page, PageHandle, PageRender, CountdownEnds, CloseTimerEnds, Pointer, StopCountdown, ClickTransfer,
     ClickCopy, ClickCancel, ClickRerecord, PressTrigger, EndPress, PressPanelKey, MoveFocus, CloseWindow,
     vars, panel, PanelClose, PanelCancel
<1>3. UNCHANGED paste \/ Spawn(page_text)
  BY DEF Page, PageHandle, PageRender, CountdownEnds, CloseTimerEnds, Pointer, StopCountdown, ClickTransfer,
     ClickCopy, ClickCancel, ClickRerecord, PressTrigger, EndPress, PressPanelKey, MoveFocus, CloseWindow, vars
<1>4. Leaving(spoken)' => Leaving(spoken)
  <2>1. CASE UNCHANGED paste
    BY <1>1, <2>1 DEF Leaving
  <2>2. CASE Spawn(page_text)
    <3>1. spoken' = spoken
      BY <1>1
    <3> QED
      BY <2>2, <3>1, SpawnLeaves DEF Newest
  <2> QED
    BY <1>3, <2>1, <2>2
<1> QED
  BY <1>1, <1>2, <1>4, FadesPlainly

(* Where no window closes, every dictation goes the way Lifecycle says,    *)
(* for whoever waits for one to settle before the next: spoken, worked on, *)
(* shown, landed, or dropped on the way and then for good.  Neither Esc    *)
(* nor a failing engine or microphone brings an older one back, and        *)
(* nothing lands that was not shown (docs/PROJECT.md, "Dile does not paste *)
(* blind").                                                                *)
THEOREM RefinesLifecycle == Undisturbed => (Spec => ImplementsLifecycle)
<1> SUFFICES ASSUME Undisturbed PROVE Spec => ImplementsLifecycle
  OBVIOUS
<1> DEFINE Inv == TypeInv /\ PatientInv /\ Shown
<1>1. Init => Inv /\ L!Init
  <2> SUFFICES ASSUME Init PROVE Shown /\ L!Init
    BY TypeInvHoldsAtFirst, PatientInvAtFirst
  <2>1. Shown
    BY DEF Init, Shown
  <2>2. \A d \in Dictations : d > spoken
    BY DictationAssumption DEF Init, Dictations
  <2>3. L!Init
    BY <2>2 DEF L!Init, Stage
  <2> QED
    BY <2>1, <2>3
<1>2. Inv /\ [Next]_vars => Inv'
  <2> SUFFICES ASSUME Inv, [Next]_vars PROVE Inv'
    OBVIOUS
  <2>1. TypeInv' /\ PatientInv'
    BY TypesStay, PatientInvStays DEF Undisturbed
  <2>2. Shown'
    BY ShownStays DEF PatientInv
  <2> QED
    BY <2>1, <2>2
<1>3. Inv /\ Inv' /\ [Next]_vars => [L!Next]_Stage
  <2> SUFFICES ASSUME Inv, Inv', [Next]_vars PROVE [L!Next]_Stage
    OBVIOUS
  <2>1. Newest /\ Newest'
    BY DEF Newest, PatientInv
  <2>2. ~Reapply
    BY DEF Reapply, Undisturbed, Patient
  <2> HIDE DEF Inv, Stage
  <2> QED
    BY <2>1, <2>2, SessionRefines, EngineRefines, TransferRefines, TheRestRefines DEF Next
<1> HIDE DEF Inv
<1> QED
  BY <1>1, <1>2, <1>3, PTL DEF Spec, ImplementsLifecycle, L!Spec

=============================================================================
