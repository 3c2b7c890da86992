----------------------------- MODULE Clipboard -----------------------------
(***************************************************************************)
(* Pasting through the Windows clipboard with a receipt: Paster::transfer  *)
(* on the threads that hand a dictation over, the one agent thread that    *)
(* owns the clipboard window and works through a queue, and around them    *)
(* the windows that paste and the programs that copy.                      *)
(*                                                                         *)
(* A transfer's text is the transfer.  Who has the clipboard open keeps    *)
(* everybody else out; a message sent to the agent's window is handled     *)
(* only while the agent waits for messages, and its sender waits for that. *)
(***************************************************************************)
EXTENDS Naturals, SequencesExt

CONSTANTS
  Transfers,     \* the threads that paste; each does it once
  Others,        \* texts other programs copy, each once
  Disturbances   \* "overlap", "busy", "trouble", "snooping", "exit"

Mine    == "mine"     \* what the user has on the clipboard at first
Nothing == "nothing"  \* no text
Nobody  == "nobody"

VARIABLES
  text, promised,  \* what the clipboard holds; it is a promise, not the text
  owner, holder,   \* who emptied it last; who has it open
  offer,           \* Shared::offer
  jobs, agent,     \* Shared::jobs; what the agent is doing
  raised,          \* the receipts whose signal was raised
  at, previous,    \* for each transfer: where it is, and what it found
  answers,         \* for each transfer: the answer it has not taken yet
  outcome,         \* Outcome
  got, copied,     \* history: what a window pasted; texts copied by others
  upset, wanted  \* history: what went wrong; what the user wants there

system == <<text, promised, owner, holder>>
thread == <<offer, jobs, agent, raised>>
caller == <<at, previous, answers, outcome>>
vars   == <<system, thread, caller, got, copied, upset, wanted>>

Loop == [job |-> "none", for |-> Nobody, text |-> Nothing]
Drain == [Loop EXCEPT !.job = "next"]

Job(job, t, what) == [job |-> job, for |-> t, text |-> what]

-----------------------------------------------------------------------------
(* The agent thread.                                                       *)
Post(job) == jobs' = Append(jobs, job)

(* drain: one job after another, without looking at messages in between.   *)
TakeJob ==
  /\ agent \in {Loop, Drain} /\ jobs # <<>>
  /\ agent' = Head(jobs) /\ jobs' = Tail(jobs)
  /\ offer' = IF Head(jobs).job \in {"set", "restore"} THEN Nobody ELSE offer
  /\ UNCHANGED <<system, raised, caller, got, copied, upset, wanted>>

DrainEnds ==
  /\ agent = Drain /\ jobs = <<>> /\ agent' = Loop
  /\ UNCHANGED <<system, offer, jobs, raised, caller, got, copied, upset, wanted>>

Answer(a) == /\ answers' = [answers EXCEPT ![agent.for] = Append(@, a)]
             /\ agent' = Drain

(* The clipboard is open from here on, and closed again in the same step:  *)
(* nobody else gets in between, and messages to its own window are         *)
(* delivered at once.                                                      *)
Opens == holder = Nobody

(* read_text: reading a promise of one's own calls it in. *)
ReadText ==
  /\ agent.job = "read" /\ Opens
  /\ LET kept == promised /\ offer # Nobody
         now  == IF promised THEN (IF kept THEN offer ELSE Nothing) ELSE text
     IN /\ Answer([ok |-> TRUE, text |-> now])
        /\ text' = now /\ promised' = (promised /\ ~kept)
        /\ raised' = IF kept THEN raised \union {offer} ELSE raised
  /\ UNCHANGED <<owner, holder, offer, jobs, at, previous, outcome, got, copied, upset, wanted>>

(* write_text, for a copy and for what is put back: the offer was dropped  *)
(* when the job was taken.                                                 *)
WriteText ==
  /\ agent.job \in {"set", "restore"} /\ Opens
  /\ text' = agent.text /\ promised' = FALSE /\ owner' = "dile"
  /\ wanted' = IF agent.job = "set" THEN agent.text ELSE wanted
  /\ Answer([ok |-> TRUE, text |-> Nothing])
  /\ UNCHANGED <<holder, offer, jobs, raised, at, previous, outcome, got, copied, upset>>

(* Mutant: the offer is there before the clipboard is emptied, and the     *)
(* message emptying it sends to its own window takes it away.              *)
WriteOfferEarly ==
  /\ agent.job = "offer" /\ Opens
  /\ text' = agent.for /\ promised' = TRUE /\ owner' = "dile"
  /\ offer' = IF owner = "dile" THEN Nobody ELSE agent.for
  /\ Answer([ok |-> TRUE, text |-> Nothing])
  /\ UNCHANGED <<holder, jobs, raised, at, previous, outcome, got, copied, upset, wanted>>

(* write_offer: emptying the clipboard drops the offer of its last owner,  *)
(* even when that is this process; the new one is made after it.           *)
WriteOffer ==
  /\ agent.job = "offer" /\ Opens
  /\ text' = agent.for /\ promised' = TRUE /\ owner' = "dile"
  /\ offer' = agent.for
  /\ Answer([ok |-> TRUE, text |-> Nothing])
  /\ UNCHANGED <<holder, jobs, raised, at, previous, outcome, got, copied, upset, wanted>>

(* open gives up after OPEN_TIMEOUT, or what is there cannot be read. *)
Refused ==
  /\ \/ "busy" \in Disturbances /\ agent.job \in {"read", "set", "offer", "restore"} /\ ~Opens
     \/ "trouble" \in Disturbances /\ agent.job = "read" /\ Opens
  /\ Answer([ok |-> agent.job = "read", text |-> Nothing])
  /\ upset' = upset \union {"refused"}
  /\ UNCHANGED <<system, offer, jobs, raised, at, previous, outcome, got, copied, wanted>>

(* A write fails once the clipboard is open: EmptyClipboard itself, and     *)
(* then nothing has changed, or a call after it, and then there is no text *)
(* any more.  Nobody puts the old one back.                                *)
WriteFails ==
  /\ "trouble" \in Disturbances /\ agent.job \in {"set", "offer", "restore"} /\ Opens
  /\ \/ UNCHANGED system /\ upset' = upset \union {"refused"}
     \/ /\ agent.text # Nothing
        /\ text' = Nothing /\ promised' = FALSE /\ owner' = "dile" /\ UNCHANGED holder
        /\ upset' = upset \union {"emptied"}
  /\ offer' = Nobody /\ Answer([ok |-> FALSE, text |-> Nothing])
  /\ UNCHANGED <<jobs, raised, at, previous, outcome, got, copied, wanted>>

(* WM_RENDERFORMAT, for a window that has the clipboard open. *)
Render ==
  /\ agent = Loop /\ holder \in Transfers \union {"snoop"} /\ promised /\ offer # Nobody
  /\ text' = offer /\ promised' = FALSE /\ raised' = raised \union {offer}
  /\ UNCHANGED <<owner, holder, offer, jobs, agent, caller, got, copied, upset, wanted>>

(* The application ends: WM_RENDERALLFORMATS leaves the text behind. *)
Exit ==
  /\ "exit" \in Disturbances /\ agent = Loop /\ jobs = <<>> /\ Opens
  /\ agent' = [Loop EXCEPT !.job = "gone"]
  /\ text' = IF promised /\ offer # Nobody THEN offer ELSE text
  /\ promised' = FALSE /\ owner' = Nobody
  /\ raised' = IF promised /\ offer # Nobody THEN raised \union {offer} ELSE raised
  /\ UNCHANGED <<holder, offer, jobs, caller, got, copied, upset, wanted>>

-----------------------------------------------------------------------------
(* Paster::transfer, on its thread.                                        *)
Goto(t, place) == at' = [at EXCEPT ![t] = place]

Alone(t) == "overlap" \in Disturbances \/ \A u \in Transfers \ {t} : at[u] \in {"idle", "done"}

End(t, o) == Goto(t, "done") /\ outcome' = [outcome EXCEPT ![t] = o]

Begin(t) ==
  /\ at[t] = "idle" /\ Alone(t)
  /\ \/ Goto(t, "read") /\ Post(Job("read", t, Nothing)) /\ UNCHANGED outcome
     \/ End(t, "TargetGone") /\ UNCHANGED jobs
  /\ UNCHANGED <<system, offer, agent, raised, previous, answers, got, copied, upset, wanted>>

Found(t) ==
  /\ at[t] = "read" /\ answers[t] # <<>>
  /\ answers' = [answers EXCEPT ![t] = Tail(@)]
  /\ previous' = [previous EXCEPT ![t] = Head(answers[t]).text]
  /\ Goto(t, "offer") /\ Post(Job("offer", t, t))
  /\ UNCHANGED <<system, offer, agent, raised, outcome, got, copied, upset, wanted>>

Offered(t) ==
  /\ at[t] = "offer" /\ answers[t] # <<>>
  /\ answers' = [answers EXCEPT ![t] = Tail(@)]
  /\ IF Head(answers[t]).ok THEN Goto(t, "chord") /\ UNCHANGED outcome ELSE End(t, "Refused")
  /\ UNCHANGED <<system, thread, previous, got, copied, upset, wanted>>

(* The chord goes out, or cannot be sent. *)
SendChord(t) ==
  /\ at[t] = "chord"
  /\ \/ Goto(t, "wait") /\ UNCHANGED jobs
     \/ Goto(t, "undo") /\ Post(Job("restore", t, previous[t]))
  /\ UNCHANGED <<system, offer, agent, raised, previous, answers, outcome, got, copied, upset, wanted>>

(* Receipt::wait: the signal, or RECEIPT_TIMEOUT. *)
Waited(t) ==
  /\ at[t] = "wait"
  /\ Goto(t, IF t \in raised THEN "taken" ELSE "untaken")
  /\ Post(Job("restore", t, previous[t]))
  /\ UNCHANGED <<system, offer, agent, raised, previous, answers, outcome, got, copied, upset, wanted>>

Restored(t) ==
  /\ at[t] \in {"taken", "untaken", "undo"} /\ answers[t] # <<>>
  /\ answers' = [answers EXCEPT ![t] = Tail(@)]
  /\ End(t, CASE at[t] = "taken" -> "Pasted" [] at[t] = "untaken" -> "Unclaimed" [] OTHER -> "Refused")
  /\ UNCHANGED <<system, thread, previous, got, copied, upset, wanted>>

(* Paster::copy, for the panel's button; one, for the bound. *)
Copy(t) ==
  /\ at[t] = "idle" /\ Alone(t)
  /\ Goto(t, "copy") /\ Post(Job("set", t, t))
  /\ UNCHANGED <<system, offer, agent, raised, previous, answers, outcome, got, copied, upset, wanted>>

Copied(t) ==
  /\ at[t] = "copy" /\ answers[t] # <<>>
  /\ answers' = [answers EXCEPT ![t] = Tail(@)]
  /\ End(t, IF Head(answers[t]).ok THEN "Copied" ELSE "Refused")
  /\ UNCHANGED <<system, thread, previous, got, copied, upset, wanted>>

-----------------------------------------------------------------------------
(* Everybody else.  The target pastes some time after the chord, or never; *)
(* a snooping program (a clipboard history) reads whatever appears.        *)
Open(who) ==
  /\ holder = Nobody /\ holder' = who
  /\ UNCHANGED <<text, promised, owner, thread, caller, got, copied, upset, wanted>>

Rendered == ~promised \/ agent.job = "gone" \/ (agent = Loop /\ offer = Nobody)

ChordSent(t) == at[t] \in {"wait", "taken", "untaken"} \/ outcome[t] \in {"Pasted", "Unclaimed"}

TargetOpens(t) == ChordSent(t) /\ got[t] = Nobody /\ Open(t)

TargetPastes(t) ==
  /\ holder = t /\ Rendered
  /\ got' = [got EXCEPT ![t] = IF promised THEN Nothing ELSE text] /\ holder' = Nobody
  /\ UNCHANGED <<text, promised, owner, thread, caller, copied, upset, wanted>>

SnoopOpens ==
  /\ "snooping" \in Disturbances /\ promised /\ holder = Nobody
  /\ holder' = "snoop" /\ upset' = upset \union {"snooped"}
  /\ UNCHANGED <<text, promised, owner, thread, caller, got, copied, wanted>>

SnoopReads ==
  /\ holder = "snoop" /\ Rendered /\ holder' = Nobody
  /\ UNCHANGED <<text, promised, owner, thread, caller, got, copied, upset, wanted>>

(* Copying empties the clipboard, which sends WM_DESTROYCLIPBOARD to its   *)
(* owner and waits until that has been handled.                            *)
OtherOpens(x) == x \notin copied /\ Open(x)

OtherCopies(x) ==
  /\ holder = x /\ (owner # "dile" \/ agent = Loop)
  /\ text' = x /\ promised' = FALSE /\ owner' = x /\ holder' = Nobody
  /\ offer' = IF owner = "dile" THEN Nobody ELSE offer
  /\ copied' = copied \union {x} /\ wanted' = x
  /\ UNCHANGED <<jobs, agent, raised, caller, got, upset>>

Init ==
  /\ text \in {Mine, Nothing} /\ wanted = text
  /\ promised = FALSE /\ owner = Nobody /\ holder = Nobody
  /\ offer = Nobody /\ jobs = <<>> /\ agent = Loop /\ raised = {}
  /\ at = [t \in Transfers |-> "idle"] /\ previous = [t \in Transfers |-> Nothing]
  /\ answers = [t \in Transfers |-> <<>>] /\ outcome = [t \in Transfers |-> "none"]
  /\ got = [t \in Transfers |-> Nobody] /\ copied = {} /\ upset = {}

Agent == TakeJob \/ DrainEnds \/ ReadText \/ WriteText \/ WriteOffer \/ WriteFails \/ Refused
         \/ Render \/ Exit

Transfer(t) == \/ Begin(t) \/ Found(t) \/ Offered(t) \/ SendChord(t) \/ Waited(t) \/ Restored(t)
               \/ Copy(t) \/ Copied(t)

World == \/ \E t \in Transfers : TargetOpens(t) \/ TargetPastes(t)
         \/ SnoopOpens \/ SnoopReads
         \/ \E x \in Others : OtherOpens(x) \/ OtherCopies(x)

Next == Agent \/ (\E t \in Transfers : Transfer(t)) \/ World

Spec == Init /\ [][Next]_vars

-----------------------------------------------------------------------------
(* Properties.                                                             *)

Settled == agent \in {Loop, Drain} /\ jobs = <<>>

(* clipboard.rs:660-668, 552-556: a promise on the clipboard is one the    *)
(* agent can keep, and it keeps none that is not there any more.  A        *)
(* clipboard somebody held open when it was to be put back is excepted.    *)
PromisesAreKept ==
  Settled /\ "refused" \notin upset => /\ (promised => offer = text)
                                      /\ (offer # Nobody => owner = "dile" /\ offer = text)

(* paste.rs:21: once nothing is under way the clipboard holds what the     *)
(* user had there, unless another program copied meanwhile, which the      *)
(* text put back then replaces.  A write that failed after it had emptied  *)
(* the clipboard leaves no text (clipboard.rs:551-561, 592-612), never a   *)
(* dictation.                                                              *)
ClipboardComesBack ==
  /\ \A t \in Transfers : at[t] \in {"idle", "done"}
  /\ Settled /\ "refused" \notin upset /\ copied = {}
  => (text = wanted \/ ("emptied" \in upset /\ text = Nothing)) /\ ~promised

(* paste.rs:105-112: Pasted is only said of a text that a window has been  *)
(* handed, and what a window pastes while its transfer waits for it is     *)
(* that transfer's text.                                                   *)
PastedIsTheDictation == upset \subseteq {"emptied"} /\ copied = {} => \A t \in Transfers :
  /\ outcome[t] = "Pasted" => \E u \in Transfers : got[u] = t \/ holder = u
  /\ at[t] = "wait" /\ got[t] # Nobody => got[t] = t
=============================================================================
