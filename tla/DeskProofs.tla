----------------------------- MODULE DeskProofs -----------------------------
(***************************************************************************)
(* What is proved of the parts a user sees, for any documents, monitors,   *)
(* threads, faults and numbers of steps.                                   *)
(*                                                                         *)
(* Settings: the file is whole because a writer renames what it has filled *)
(* and is the only one; what is in force is on disk because nothing else   *)
(* comes between the two; and the window shows it because each of its      *)
(* requests is of the document it shows.                                   *)
(*                                                                         *)
(* PanelWindow: with one method of the panel at a time, the step a thread  *)
(* stands at says what the window, the keys and the remembered places are. *)
(* The code has no lock that would make it one at a time; this is what it  *)
(* would be worth.                                                         *)
(*                                                                         *)
(* Card: the text can only be lost by a chord that goes wrong after the    *)
(* card went down, and by then the thread that pressed it has written the  *)
(* text; and of all that is on its way from the page to the core, the last *)
(* is what the card shows.                                                 *)
(*                                                                         *)
(* Clipboard: one transfer waits for one job, and where the transfer and   *)
(* the job stand says whose the clipboard is and what is promised on it.   *)
(*                                                                         *)
(* Cleanup: TP is the same component as T, with its theorem.  An instance  *)
(* has its definitions to itself, so that the two are shown to say the     *)
(* same, and the texts of MCDesk to be what the theorem is about.          *)
(*                                                                         *)
(* The five share nothing, so what holds of each holds on the desk.        *)
(***************************************************************************)
EXTENDS MCDesk, SequenceTheorems, WellFoundedInduction, TLAPS

-----------------------------------------------------------------------------
(* Settings.                                                               *)

Writers == {"main", "card"}
Steps   == {"idle", "got", "open", "fill", "rename", "saved", "unsaved"}

OneWriter == At("main", "idle") \/ At("card", "idle")

(* What a writer that has stored its document knows of the files. *)
Lives(w) == writer[w].at \in {"open", "fill"} => Written(writer[w].doc) \in lived
Ready(w) == At(w, "rename") => tmp \in lived \union {NoFile}

FileInv ==
  /\ DOMAIN writer = Writers
  /\ \A w \in Writers : DOMAIN writer[w] = {"at", "doc", "language"} /\ writer[w].at \in Steps
  /\ \A w \in Writers : Lives(w) /\ Ready(w)
  /\ OneWriter
  /\ FileIsWhole

-----------------------------------------------------------------------------
(* What is kept by a step that touches neither the files nor the writers. *)
LEMMA FilesUntouched ==
  ASSUME FileInv, UNCHANGED <<file, tmp, writer, lived>>
  PROVE  FileInv'
BY DEF FileInv, OneWriter, Lives, Ready, FileIsWhole, At

(* A writer that goes on to where nothing is asked of it. *)
LEMMA GoesIdle ==
  ASSUME FileInv, NEW w \in Writers, UNCHANGED <<file, tmp, lived>>,
         writer' = [writer EXCEPT ![w] = Idle]
  PROVE  FileInv'
BY DEF FileInv, Writers, Steps, OneWriter, Lives, Ready, FileIsWhole, At, Idle

LEMMA SetSteps ==
  ASSUME FileInv, NEW w \in Writers, NEW d, Set(w, d), UNCHANGED <<file, tmp>>,
         \A v \in Writers \ {w} : At(v, "idle")
  PROVE  FileInv'
<1>1. CASE Validated(d) = current
  <2>1. writer' = [writer EXCEPT ![w] = Idle] /\ lived' = lived
    BY <1>1 DEF Set, Return
  <2> QED
    BY <2>1, GoesIdle
<1>2. CASE Validated(d) # current
  <2>1. PICK b : /\ writer' = [writer EXCEPT ![w] = [at |-> "open", doc |-> Validated(d), language |-> b]]
                 /\ lived' = lived \union {Written(Validated(d))}
    BY <1>2 DEF Set
  <2>2. \A v \in Writers \ {w} : writer'[v] = writer[v] /\ writer'[v].at = "idle"
    BY <2>1 DEF FileInv, At
  <2>3. writer'[w] = [at |-> "open", doc |-> Validated(d), language |-> b]
    BY <2>1 DEF FileInv
  <2>4. DOMAIN writer' = Writers
    BY <2>1 DEF FileInv
  <2>5. \A v \in Writers : /\ DOMAIN writer'[v] = {"at", "doc", "language"} /\ writer'[v].at \in Steps
                           /\ Lives(v)' /\ Ready(v)'
    BY <2>1, <2>2, <2>3 DEF FileInv, Steps, Lives, Ready, At
  <2>6. OneWriter'
    BY <2>2 DEF OneWriter, Writers, At
  <2> QED
    BY <2>1, <2>4, <2>5, <2>6 DEF FileInv, FileIsWhole
<1> QED
  BY <1>1, <1>2

(* The steps of a write: the writer is not idle, and so it is alone. *)
LEMMA Moves ==
  ASSUME FileInv, NEW w \in Writers, NEW p \in Steps, writer[w].at # "idle",
         Goto(w, p), lived' = lived
  PROVE  /\ DOMAIN writer' = Writers
         /\ \A v \in Writers : DOMAIN writer'[v] = {"at", "doc", "language"} /\ writer'[v].at \in Steps
         /\ OneWriter'
         /\ writer'[w].at = p /\ writer'[w].doc = writer[w].doc
         /\ writer'[w].language = writer[w].language
         /\ \A v \in Writers \ {w} : writer'[v].at = "idle"
<1>1. writer' = [writer EXCEPT ![w] = [writer[w] EXCEPT !.at = p]]
  BY DEF Goto
<1>2. \A v \in Writers \ {w} : writer'[v] = writer[v] /\ writer'[v].at = "idle"
  BY <1>1 DEF FileInv, OneWriter, Writers, At
<1>3. writer'[w] = [writer[w] EXCEPT !.at = p]
  BY <1>1 DEF FileInv
<1> QED
  BY <1>1, <1>2, <1>3 DEF FileInv, OneWriter, Writers, At

LEMMA WriteSteps ==
  ASSUME FileInv, NEW w \in Writers, Write(w)
  PROVE  FileInv'
<1>1. CASE Open(w)
  <2>1. writer'[w].at = "fill" /\ writer'[w].doc = writer[w].doc /\ writer[w].at = "open"
    BY <1>1, Moves DEF Open, At, Steps
  <2> QED
    BY <1>1, <2>1, Moves DEF Open, At, Steps, FileInv, FileIsWhole, Lives, Ready
<1>2. CASE Fill(w)
  <2>1. writer'[w].at = "rename" /\ writer[w].at = "fill"
    BY <1>2, Moves DEF Fill, At, Steps
  <2>2. Written(writer[w].doc) \in lived
    BY <2>1 DEF FileInv, Lives
  <2>3. file' \in lived /\ tmp' \in lived \union {NoFile}
    BY <1>2, <2>2 DEF Fill, FileInv, FileIsWhole
  <2> QED
    BY <1>2, <2>1, <2>3, Moves DEF Fill, At, Steps, FileInv, FileIsWhole, Lives, Ready
<1>3. CASE Rename(w)
  <2>1. PICK p \in {"saved", "unsaved"} : Goto(w, p)
    BY <1>3 DEF Rename
  <2>2. file' \in lived /\ lived' = lived
    BY <1>3 DEF Rename, FileInv, FileIsWhole, Ready
  <2> QED
    BY <1>3, <2>1, <2>2, Moves DEF Rename, At, Steps, FileInv, FileIsWhole, Lives, Ready
<1>4. CASE WriteFails(w)
  BY <1>4, Moves DEF WriteFails, At, Steps, FileInv, FileIsWhole, Lives, Ready
<1>5. CASE Notify(w)
  <2>1. writer' = [writer EXCEPT ![w] = Idle] /\ UNCHANGED <<file, tmp, lived>>
    BY <1>5 DEF Notify, Return
  <2> QED
    BY <2>1, GoesIdle
<1> QED
  BY <1>1, <1>2, <1>3, <1>4, <1>5 DEF Write

LEMMA CardSteps ==
  ASSUME "overlap" \notin Disturbances, FileInv, PersistGet \/ PersistSet
  PROVE  FileInv'
<1>1. CASE PersistGet
  <2>1. CASE UNCHANGED writer
    BY <1>1, <2>1, FilesUntouched DEF PersistGet
  <2>2. CASE writer' # writer
    <3>1. PICK d : writer' = [writer EXCEPT !["card"] = [at |-> "got", language |-> FALSE, doc |-> d]]
      BY <1>1, <2>2 DEF PersistGet
    <3>2. At("main", "idle") /\ UNCHANGED <<file, tmp, lived>>
      BY <1>1 DEF PersistGet
    <3> QED
      BY <3>1, <3>2 DEF FileInv, Writers, Steps, OneWriter, Lives, Ready, FileIsWhole, At
  <2> QED
    BY <2>1, <2>2
<1>2. CASE PersistSet
  <2>1. At("card", "got") /\ At("main", "idle")
    BY <1>2 DEF PersistSet, FileInv, OneWriter, At
  <2> QED
    BY <1>2, <2>1, SetSteps DEF PersistSet, Writers
<1> QED
  BY <1>1, <1>2

LEMMA SetSettingsSteps ==
  ASSUME "overlap" \notin Disturbances, FileInv, SetSettings
  PROVE  FileInv'
<1>1. \A v \in Writers \ {"main"} : At(v, "idle")
  BY DEF SetSettings, Writers
<1>2. CASE MayBeSet(Head(requests))
  BY <1>1, <1>2, SetSteps DEF SetSettings, Writers
<1>3. CASE ~MayBeSet(Head(requests))
  BY <1>3, GoesIdle DEF SetSettings, Return, Writers
<1> QED
  BY <1>2, <1>3

LEMMA WindowSteps ==
  ASSUME FileInv, Remember \/ Boot \/ Hands \/ LeaveDelay \/ Captured \/ SaveTimer \/ Answered
  PROVE  FileInv'
<1>1. UNCHANGED <<file, tmp, writer, lived>>
  BY DEF Remember, Boot, Hands, LeaveDelay, Captured, SaveTimer, Answered, MoveTheCap, TypeDelay, AddRow, TypeTerm, DropRow,
         ChooseLanguage, ChangeTrigger, Edit, store
<1> QED
  BY <1>1, FilesUntouched

LEMMA FileInvHoldsAtFirst ==
  ASSUME Init
  PROVE  FileInv
BY DEF Init, FileInv, Writers, Steps, OneWriter, Lives, Ready, FileIsWhole, At, Idle

LEMMA EveryStep ==
  ASSUME "overlap" \notin Disturbances, FileInv, [Next]_vars
  PROVE  FileInv'
<1>1. CASE UNCHANGED vars
  BY <1>1, FilesUntouched DEF vars, store
<1>2. CASE Restart
  BY <1>2 DEF Restart, FileInv, Writers, Steps, OneWriter, Lives, Ready, FileIsWhole, At, Idle
<1> QED
  BY <1>1, <1>2, WriteSteps, CardSteps, SetSettingsSteps, WindowSteps DEF Next, Writers

(* settings.rs:461: whenever the machine goes down, what settings.json     *)
(* holds is a document that was in force or what was there before, whole,  *)
(* while the window's thread and the card's do not write at the same time. *)
THEOREM TheFileIsWhole ==
  ASSUME "overlap" \notin Disturbances
  PROVE  Spec => []FileIsWhole
<1>1. Init => FileInv
  BY FileInvHoldsAtFirst
<1>2. FileInv /\ [Next]_vars => FileInv'
  BY EveryStep
<1>3. FileInv => FileIsWhole
  BY DEF FileInv
<1> QED
  BY <1>1, <1>2, <1>3, PTL DEF Spec

-----------------------------------------------------------------------------
(* The dictionary without its blanks.  The recursion of Kept is unfolded,  *)
(* and what it keeps is shown, by way of the least length at which either  *)
(* would fail.                                                             *)
Keeps(f, terms, m) ==
  f = [n \in 0..m |-> IF n = 0 THEN <<>>
                      ELSE IF terms[n] = Blank THEN f[n - 1] ELSE Append(f[n - 1], terms[n])]

LEMMA Smallest ==
  ASSUME NEW N, N \subseteq Nat, N # {}
  PROVE  \E x \in N : \A y \in N : x <= y
<1>1. \E x \in N : \A y \in N : ~ (<<y, x>> \in OpToRel(<, Nat))
  BY NatLessThanWellFounded, WFMin
<1>2. PICK x \in N : \A y \in N : ~ (<<y, x>> \in OpToRel(<, Nat))
  BY <1>1
<1>3. \A y \in N : ~(y < x)
  <2> SUFFICES ASSUME NEW y \in N, y < x PROVE <<y, x>> \in OpToRel(<, Nat)
    BY <1>2
  <2> QED
    BY DEF OpToRel
<1>4. \A y \in N : x <= y
  BY <1>3
<1> QED BY <1>4

LEMMA KeptIsDefined ==
  ASSUME NEW S, NEW terms \in Seq(S)
  PROVE  \A m \in 0..Len(terms) : \E f : Keeps(f, terms, m)
<1> DEFINE Missing == {m \in 0..Len(terms) : ~\E f : Keeps(f, terms, m)}
<1>1. SUFFICES ASSUME Missing # {} PROVE FALSE
  OBVIOUS
<1>2. PICK m \in Missing : \A y \in Missing : m <= y
  <2>1. Missing \subseteq Nat
    OBVIOUS
  <2> HIDE DEF Missing
  <2> QED
    BY <1>1, <2>1, Smallest
<1>3. m # 0
  <2>1. Keeps([n \in 0..0 |-> <<>>], terms, 0)
    BY DEF Keeps
  <2> QED
    BY <2>1
<1>4. m - 1 \in 0..Len(terms) /\ m - 1 \notin Missing
  BY <1>2, <1>3
<1>5. PICK g : Keeps(g, terms, m - 1)
  BY <1>4
<1> DEFINE f == [n \in 0..m |-> IF n < m THEN g[n]
                                ELSE IF terms[m] = Blank THEN g[m - 1] ELSE Append(g[m - 1], terms[m])]
<1>6. Keeps(f, terms, m)
  <2>1. m \in Nat /\ m - 1 \in Nat /\ m \in 0..m
    BY <1>3
  <2>2. \A n \in 0..m : n # m => f[n] = g[n]
    BY <2>1
  <2>3. \A n \in 0..m : f[n] = IF n = 0 THEN <<>>
                      ELSE IF terms[n] = Blank THEN f[n - 1] ELSE Append(f[n - 1], terms[n])
    <3> SUFFICES ASSUME NEW n \in 0..m
                 PROVE  f[n] = IF n = 0 THEN <<>>
                      ELSE IF terms[n] = Blank THEN f[n - 1] ELSE Append(f[n - 1], terms[n])
      OBVIOUS
    <3>1. CASE n = m
      BY <1>3, <2>1, <3>1
    <3>2. CASE n # m
      <4>1. n \in 0..(m - 1) /\ (n # 0 => n - 1 \in 0..(m - 1) /\ n - 1 # m)
        BY <3>2, <2>1
      <4>2. g[n] = IF n = 0 THEN <<>>
                   ELSE IF terms[n] = Blank THEN g[n - 1] ELSE Append(g[n - 1], terms[n])
        BY <1>5, <4>1 DEF Keeps
      <4> QED
        BY <2>2, <3>2, <4>1, <4>2
    <3> QED
      BY <3>1, <3>2
  <2>4. f = [n \in 0..m |-> f[n]]
    OBVIOUS
  <2> HIDE DEF f
  <2> QED
    BY <2>3, <2>4 DEF Keeps
<1> QED
  BY <1>6

LEMMA KeptUnfolds ==
  ASSUME NEW S, NEW terms \in Seq(S)
  PROVE  \E f : Keeps(f, terms, Len(terms)) /\ Kept(terms) = f[Len(terms)]
<1>1. \E f : Keeps(f, terms, Len(terms))
  BY KeptIsDefined
<1> QED
  BY <1>1 DEF Kept, Keeps

(* What has been kept of the first n terms. *)
Good(q, terms, n, S) ==
  /\ q \in Seq(S)
  /\ \A i \in 1..Len(q) : q[i] # Blank
  /\ (\A i \in 1..n : terms[i] # Blank) => Len(q) = n /\ \A i \in 1..n : q[i] = terms[i]

LEMMA GoodGoesOn ==
  ASSUME NEW S, NEW terms \in Seq(S), NEW n \in 1..Len(terms), NEW q, Good(q, terms, n - 1, S)
  PROVE  Good(IF terms[n] = Blank THEN q ELSE Append(q, terms[n]), terms, n, S)
<1>1. q \in Seq(S) /\ \A i \in 1..Len(q) : q[i] # Blank
  BY DEF Good
<1>2. CASE terms[n] = Blank
  BY <1>1, <1>2 DEF Good
<1>3. CASE terms[n] # Blank
  <2> DEFINE r == Append(q, terms[n])
  <2>1. terms[n] \in S
    BY ElementOfSeq
  <2>2. /\ r \in Seq(S) /\ Len(r) = Len(q) + 1
        /\ \A i \in 1..Len(q) : r[i] = q[i]
        /\ r[Len(q) + 1] = terms[n]
    BY <1>1, <2>1, AppendProperties
  <2>3. Len(q) \in Nat
    BY <1>1, LenProperties
  <2> HIDE DEF r
  <2>4. \A i \in 1..Len(r) : i \in 1..Len(q) \/ i = Len(q) + 1
    BY <2>2, <2>3
  <2>5. \A i \in 1..Len(r) : r[i] # Blank
    BY <1>1, <1>3, <2>2, <2>4
  <2>6. ASSUME \A i \in 1..n : terms[i] # Blank
        PROVE  Len(r) = n /\ \A i \in 1..n : r[i] = terms[i]
    <3>1. \A i \in 1..(n - 1) : terms[i] # Blank
      BY <2>6
    <3>2. Len(q) = n - 1 /\ \A i \in 1..(n - 1) : q[i] = terms[i]
      BY <3>1 DEF Good
    <3> QED
      BY <2>2, <3>2
  <2>7. Good(r, terms, n, S)
    BY <2>2, <2>5, <2>6 DEF Good
  <2> QED
    BY <1>3, <2>7 DEF r
<1> QED
  BY <1>2, <1>3

LEMMA KeptIsGood ==
  ASSUME NEW S, NEW terms \in Seq(S)
  PROVE  Good(Kept(terms), terms, Len(terms), S)
<1>1. PICK f : Keeps(f, terms, Len(terms)) /\ Kept(terms) = f[Len(terms)]
  BY KeptUnfolds
<1>2. Len(terms) \in Nat
  BY LenProperties
<1> DEFINE Bad == {n \in 0..Len(terms) : ~Good(f[n], terms, n, S)}
<1>3. SUFFICES ASSUME Bad # {} PROVE FALSE
  BY <1>1, <1>2
<1>4. PICK n \in Bad : \A m \in Bad : n <= m
  <2>1. Bad \subseteq Nat
    OBVIOUS
  <2> HIDE DEF Bad
  <2> QED
    BY <1>3, <2>1, Smallest
<1>5. f[n] = IF n = 0 THEN <<>>
             ELSE IF terms[n] = Blank THEN f[n - 1] ELSE Append(f[n - 1], terms[n])
  BY <1>1 DEF Keeps
<1>6. n # 0
  <2>1. Good(<<>>, terms, 0, S)
    BY EmptySeq DEF Good
  <2> QED
    BY <1>4, <1>5, <2>1
<1>7. n \in 1..Len(terms) /\ n - 1 \in 0..Len(terms) /\ ~(n <= n - 1)
  BY <1>2, <1>6
<1>8. n - 1 \notin Bad
  <2> HIDE DEF Bad
  <2> QED
    BY <1>4, <1>7
<1>9. Good(f[n - 1], terms, n - 1, S)
  BY <1>7, <1>8
<1>10. Good(f[n], terms, n, S)
  BY <1>5, <1>6, <1>7, <1>9, GoodGoesOn
<1> QED
  BY <1>10

LEMMA KeptProps ==
  ASSUME NEW S, NEW terms \in Seq(S)
  PROVE  /\ Kept(terms) \in Seq(S)
         /\ \A i \in 1..Len(Kept(terms)) : Kept(terms)[i] # Blank
         /\ (\A i \in 1..Len(terms) : terms[i] # Blank) => Kept(terms) = terms
<1>1. Good(Kept(terms), terms, Len(terms), S)
  BY KeptIsGood
<1>2. Kept(terms) \in Seq(S) /\ \A i \in 1..Len(Kept(terms)) : Kept(terms)[i] # Blank
  BY <1>1 DEF Good
<1>3. ASSUME \A i \in 1..Len(terms) : terms[i] # Blank
      PROVE  Kept(terms) = terms
  <2>1. Len(Kept(terms)) = Len(terms) /\ \A i \in 1..Len(terms) : Kept(terms)[i] = terms[i]
    BY <1>1, <1>3 DEF Good
  <2> QED
    BY <1>2, <2>1, SeqEqual
<1> QED
  BY <1>2, <1>3

-----------------------------------------------------------------------------
(* What is stored and what the files hold.                                 *)
Sound(d) == d \in Docs /\ Validated(d) = d

OnDiskFiles == {NoFile, Torn} \union Files

LEMMA ClampIsIdempotent ==
  ASSUME NEW c \in Nat
  PROVE  /\ ClampCap(c) \in Nat /\ ClampCap(ClampCap(c)) = ClampCap(c)
         /\ ClampDelay(c) \in Nat /\ ClampDelay(ClampDelay(c)) = ClampDelay(c)
BY SettingsAssumption DEF ClampCap, ClampDelay, Clamp

LEMMA ValidatedFields ==
  ASSUME NEW d \in Docs
  PROVE  /\ Validated(d) \in Docs
         /\ Validated(d).cap = ClampCap(d.cap) /\ Validated(d).delay = ClampDelay(d.delay)
         /\ Validated(d).terms = Kept(d.terms)
         /\ Validated(d).trigger = (IF d.trigger \in Readable THEN d.trigger ELSE DefaultTrigger)
         /\ Validated(d).language = d.language /\ Validated(d).place = d.place
<1>1. d.terms \in Seq(Terms \union {Blank}) /\ d.cap \in Nat /\ d.delay \in Nat
  BY DEF Docs
<1>2. /\ Kept(d.terms) \in Seq(Terms \union {Blank}) /\ ClampCap(d.cap) \in Nat
      /\ ClampDelay(d.delay) \in Nat
  BY <1>1, KeptProps, ClampIsIdempotent
<1>3. (IF d.trigger \in Readable THEN d.trigger ELSE DefaultTrigger) \in Triggers
  BY SettingsAssumption
<1> QED
  BY <1>2, <1>3 DEF Docs, Validated

LEMMA SameDoc ==
  ASSUME NEW d \in Docs, NEW e \in Docs, d.trigger = e.trigger, d.cap = e.cap, d.delay = e.delay,
         d.terms = e.terms, d.language = e.language, d.place = e.place
  PROVE  d = e
BY DEF Docs

LEMMA ValidatedIsSound ==
  ASSUME NEW d \in Docs
  PROVE  Sound(Validated(d))
<1> DEFINE v == Validated(d)
<1>1. /\ v \in Docs
      /\ v.cap = ClampCap(d.cap) /\ v.delay = ClampDelay(d.delay) /\ v.terms = Kept(d.terms) /\ v.trigger \in Readable
  BY ValidatedFields, SettingsAssumption
<1>2. d.terms \in Seq(Terms \union {Blank}) /\ d.cap \in Nat /\ d.delay \in Nat
  BY DEF Docs
<1>3. Kept(v.terms) = v.terms /\ ClampCap(v.cap) = v.cap /\ ClampDelay(v.delay) = v.delay
  BY <1>1, <1>2, KeptProps, ClampIsIdempotent
<1> HIDE DEF v
<1>4. Validated(v) = v
  BY <1>1, <1>3, ValidatedFields, SameDoc
<1> QED
  BY <1>1, <1>4 DEF Sound, v

LEMMA DefaultIsSound == Sound(Default)
<1>1. Default \in Docs
  BY SettingsAssumption, EmptySeq DEF Default, Docs
<1>2. Kept(<<>>) = <<>>
  <2>1. <<>> \in Seq({}) /\ \A i \in 1..Len(<<>>) : <<>>[i] # Blank
    BY EmptySeq
  <2> QED
    BY <2>1, KeptProps
<1>3. ClampCap(MaxCap) = MaxCap /\ ClampDelay(DefaultDelay) = DefaultDelay /\ DefaultTrigger \in Readable
  BY SettingsAssumption DEF ClampCap, ClampDelay, Clamp
<1>4. Validated(Default) = Default
  BY <1>1, <1>2, <1>3, ValidatedFields, SameDoc DEF Default
<1> QED
  BY <1>1, <1>4 DEF Sound

LEMMA LoadIsSound ==
  ASSUME NEW f \in OnDiskFiles
  PROVE  Sound(Load(f))
<1>1. CASE f \in {NoFile, Torn}
  BY <1>1, DefaultIsSound DEF Load
<1>2. CASE f \notin {NoFile, Torn}
  <2>1. Parsed(f) \in Docs
    BY <1>2, SettingsAssumption DEF OnDiskFiles, Files, Hotkeys, Parsed, Migrated, Docs
  <2> QED
    BY <1>2, <2>1, ValidatedIsSound DEF Load
<1> QED
  BY <1>1, <1>2

(* What save writes, load reads. *)
LEMMA LoadReadsWhatIsWritten ==
  ASSUME NEW d, Sound(d)
  PROVE  Written(d) \in OnDiskFiles /\ Load(Written(d)) = d
<1>1. d \in Docs /\ d.trigger # Absent
  BY SettingsAssumption DEF Sound, Docs
<1>2. Written(d) \in Files
  BY <1>1 DEF Files, Hotkeys, Written, Docs
<1>3. Written(d) \notin {NoFile, Torn}
  <2>1. "cap" \in DOMAIN Written(d) /\ "cap" \notin DOMAIN NoFile /\ "cap" \notin DOMAIN Torn
    BY DEF Written, NoFile, Torn
  <2> QED
    BY <2>1
<1>4. Parsed(Written(d)) = d
  BY <1>1 DEF Written, Parsed, Migrated, Docs
<1> QED
  BY <1>2, <1>3, <1>4 DEF OnDiskFiles, Load, Sound

-----------------------------------------------------------------------------
(* The types of what travels between the window and the store.             *)
Statuses == {"none", "saving", "saved", "refused"}
Showns == [trigger : Triggers, cap : Nat, delay : Nat, terms : Seq(Terms \union {Blank}),
           language : Languages]
Pages  == [open : BOOLEAN, doc : Docs, shown : Showns, timer : BOOLEAN, waits : Seq(BOOLEAN),
           typing : BOOLEAN, listening : {"no", "live", "stale"}, picked : Triggers \union {Absent},
           status : Statuses]
Answers == [ok : BOOLEAN, doc : Docs]

Typed ==
  /\ page \in Pages /\ requests \in Seq(Docs) /\ answers \in Seq(Answers)
  /\ dragged \in Places \union {Nowhere}

LEMMA RowsAreSequences ==
  ASSUME NEW S, NEW q \in Seq(S), NEW i \in 1..Len(q), NEW t \in S
  PROVE  /\ RemoveAt(q, i) \in Seq(S)
         /\ [q EXCEPT ![i] = t] \in Seq(S)
         /\ Append(q, t) \in Seq(S)
<1>1. SubSeq(q, 1, i - 1) \in Seq(S) /\ SubSeq(q, i + 1, Len(q)) \in Seq(S)
  BY LenProperties
<1> QED
  BY <1>1, ConcatProperties, ExceptSeq DEF RemoveAt

LEMMA ShownIsTyped ==
  ASSUME NEW d \in Docs
  PROVE  Shown(d) \in Showns
BY DEF Docs, Shown, Showns

LEMMA ClosedIsTyped == Closed \in Pages
<1>1. Default \in Docs /\ <<>> \in Seq(BOOLEAN)
  BY DefaultIsSound, EmptySeq DEF Sound
<1>2. Shown(Default) \in Showns
  BY <1>1, ShownIsTyped
<1> QED
  BY <1>1, <1>2 DEF Closed, Pages, Statuses

LEMMA SaveIsTyped ==
  ASSUME Typed, NEW p \in Pages, NEW r \in BOOLEAN, Save(p, r)
  PROVE  page' \in Pages /\ requests' \in Seq(Docs)
<1>1. p.doc \in Docs /\ p.waits \in Seq(BOOLEAN)
  BY DEF Pages
<1>2. Shown(p.doc) \in Showns /\ Append(p.waits, r) \in Seq(BOOLEAN)
  BY <1>1, ShownIsTyped
<1>3. Append(requests, p.doc) \in Seq(Docs)
  BY <1>1 DEF Typed
<1>4. [p EXCEPT !.status = "refused"] \in Pages
  BY DEF Pages, Statuses
<1>5. Reload([p EXCEPT !.status = "refused"]) \in Pages
  BY <1>2 DEF Pages, Statuses, Reload
<1>6. [p EXCEPT !.waits = Append(@, r), !.status = "saving"] \in Pages
  BY <1>2 DEF Pages, Statuses
<1> QED
  BY <1>3, <1>4, <1>5, <1>6 DEF Save, Typed

LEMMA ScheduleIsTyped ==
  ASSUME Typed, NEW p \in Pages, Schedule(p)
  PROVE  page' \in Pages /\ requests' \in Seq(Docs)
BY DEF Typed, Schedule, Pages

(* A document with another cap or delay, other terms, another language or  *)
(* trigger.                                                                *)
LEMMA EditsAreTyped ==
  ASSUME NEW d \in Docs
  PROVE  /\ \A c \in Nat : [d EXCEPT !.cap = c] \in Docs /\ [d EXCEPT !.delay = c] \in Docs
         /\ \A ts \in Seq(Terms \union {Blank}) : [d EXCEPT !.terms = ts] \in Docs
         /\ \A l \in Languages : [d EXCEPT !.language = l] \in Docs
         /\ \A t \in Triggers : [d EXCEPT !.trigger = t] \in Docs
         /\ \A p \in Places \union {Nowhere} : [d EXCEPT !.place = p] \in Docs
BY DEF Docs

LEMMA ShownEditsAreTyped ==
  ASSUME NEW s \in Showns
  PROVE  /\ \A c \in Nat : [s EXCEPT !.cap = c] \in Showns /\ [s EXCEPT !.delay = c] \in Showns
         /\ \A ts \in Seq(Terms \union {Blank}) : [s EXCEPT !.terms = ts] \in Showns
         /\ \A l \in Languages : [s EXCEPT !.language = l] \in Showns
         /\ \A t \in Triggers : [s EXCEPT !.trigger = t] \in Showns
BY DEF Showns

LEMMA PageFields ==
  ASSUME NEW p \in Pages, NEW d \in Docs, NEW s \in Showns
  PROVE  /\ p.doc \in Docs /\ p.shown \in Showns /\ p.waits \in Seq(BOOLEAN)
         /\ p.doc.terms \in Seq(Terms \union {Blank}) /\ p.shown.terms \in Seq(Terms \union {Blank})
         /\ [p EXCEPT !.doc = d, !.shown = s] \in Pages
         /\ [p EXCEPT !.shown = s] \in Pages
BY DEF Pages, Docs, Showns

(* The page without the focus on the delay's field. *)
LEMMA ElsewhereIsThePage ==
  ASSUME page \in Pages
  PROVE  /\ Elsewhere \in Pages /\ Elsewhere.doc = page.doc /\ Elsewhere.shown = page.shown
         /\ Elsewhere.waits = page.waits /\ Elsewhere.open = page.open /\ Elsewhere.timer = page.timer
         /\ Elsewhere.status = page.status /\ Elsewhere.listening = page.listening
BY DEF Elsewhere, Pages

LEMMA HandsAreTyped ==
  ASSUME Typed, Hands
  PROVE  page' \in Pages /\ requests' \in Seq(Docs)
<1>1. /\ page \in Pages /\ page.doc \in Docs /\ page.shown \in Showns
      /\ Elsewhere \in Pages /\ Elsewhere.doc = page.doc /\ Elsewhere.shown = page.shown
  BY ElsewhereIsThePage DEF Typed, Pages
<1>2. /\ page.doc.terms \in Seq(Terms \union {Blank}) /\ page.shown.terms \in Seq(Terms \union {Blank})
      /\ Blank \in Terms \union {Blank}
  BY <1>1 DEF Docs, Showns
<1>3. CASE MoveTheCap
  <2>1. PICK c \in Caps : Schedule([Elsewhere EXCEPT !.doc.cap = c, !.shown.cap = c])
    BY <1>3 DEF MoveTheCap
  <2>2. c \in Nat
    BY SettingsAssumption
  <2>3. [Elsewhere EXCEPT !.doc.cap = c, !.shown.cap = c]
          = [Elsewhere EXCEPT !.doc = [page.doc EXCEPT !.cap = c], !.shown = [page.shown EXCEPT !.cap = c]]
    BY <1>1 DEF Pages
  <2> QED
    BY <1>1, <2>1, <2>2, <2>3, EditsAreTyped, ShownEditsAreTyped, PageFields, ScheduleIsTyped
<1>4. CASE AddRow
  <2> DEFINE ts == Append(page.doc.terms, Blank)
  <2>1. ts \in Seq(Terms \union {Blank})
    BY <1>2
  <2>2. page' = [Elsewhere EXCEPT !.doc.terms = ts, !.shown.terms = ts] /\ requests' = requests
    BY <1>4 DEF AddRow
  <2> HIDE DEF ts
  <2>3. [Elsewhere EXCEPT !.doc.terms = ts, !.shown.terms = ts]
          = [Elsewhere EXCEPT !.doc = [page.doc EXCEPT !.terms = ts], !.shown = [page.shown EXCEPT !.terms = ts]]
    BY <1>1 DEF Pages
  <2> QED
    BY <1>1, <2>1, <2>2, <2>3, EditsAreTyped, ShownEditsAreTyped, PageFields DEF Typed
<1>5. CASE TypeTerm
  <2>1. PICK i \in 1..Len(page.shown.terms), t \in Terms \union {Blank} :
          LET entry == [Elsewhere EXCEPT !.shown.terms[i] = t]
              p == IF i > Len(page.doc.terms) THEN entry ELSE [entry EXCEPT !.doc.terms[i] = t]
          IN IF i > Len(page.doc.terms) \/ HasBlank(p.doc.terms)
             THEN page' = p /\ UNCHANGED requests
             ELSE Schedule(p)
    BY <1>5 DEF TypeTerm
  <2> DEFINE shown == [page.shown EXCEPT !.terms = [page.shown.terms EXCEPT ![i] = t]]
             entry == [Elsewhere EXCEPT !.shown.terms[i] = t]
             p == IF i > Len(page.doc.terms) THEN entry ELSE [entry EXCEPT !.doc.terms[i] = t]
  <2>2. shown \in Showns /\ entry = [Elsewhere EXCEPT !.shown = shown]
    BY <1>1, <1>2, RowsAreSequences, ShownEditsAreTyped DEF Pages, Showns
  <2>3. entry \in Pages /\ entry.doc = page.doc
    BY <1>1, <2>2, PageFields DEF Pages
  <2>4. p \in Pages
    <3>1. CASE i > Len(page.doc.terms)
      BY <2>3, <3>1
    <3>2. CASE ~(i > Len(page.doc.terms))
      <4>1. i \in 1..Len(page.doc.terms)
        BY <1>2, <3>2, LenProperties
      <4>2. [page.doc EXCEPT !.terms = [page.doc.terms EXCEPT ![i] = t]] \in Docs
        BY <1>1, <1>2, <4>1, RowsAreSequences, EditsAreTyped
      <4>3. p = [entry EXCEPT !.doc = [page.doc EXCEPT !.terms = [page.doc.terms EXCEPT ![i] = t]]]
        BY <2>3, <3>2 DEF Pages, Docs
      <4> QED
        BY <2>3, <4>2, <4>3 DEF Pages
    <3> QED
      BY <3>1, <3>2
  <2>5. \/ page' = p /\ requests' = requests
        \/ Schedule(p)
    BY <2>1
  <2> HIDE DEF p
  <2> QED
    BY <2>4, <2>5, ScheduleIsTyped DEF Typed
<1>6. CASE DropRow
  <2>1. PICK i \in 1..Len(page.shown.terms) :
          LET terms == IF i > Len(page.doc.terms) THEN page.doc.terms ELSE RemoveAt(page.doc.terms, i)
          IN Save([Elsewhere EXCEPT !.doc.terms = terms, !.shown.terms = terms], FALSE)
    BY <1>6 DEF DropRow
  <2> DEFINE ts == IF i > Len(page.doc.terms) THEN page.doc.terms ELSE RemoveAt(page.doc.terms, i)
  <2>2. ts \in Seq(Terms \union {Blank})
    <3>1. CASE i > Len(page.doc.terms)
      BY <1>2, <3>1
    <3>2. CASE ~(i > Len(page.doc.terms))
      <4>1. i \in 1..Len(page.doc.terms)
        BY <1>2, <3>2, LenProperties
      <4> QED
        BY <1>2, <3>2, <4>1, RowsAreSequences
    <3> QED
      BY <3>1, <3>2
  <2>3. Save([Elsewhere EXCEPT !.doc.terms = ts, !.shown.terms = ts], FALSE)
    BY <2>1
  <2> HIDE DEF ts
  <2>4. [Elsewhere EXCEPT !.doc.terms = ts, !.shown.terms = ts]
          = [Elsewhere EXCEPT !.doc = [page.doc EXCEPT !.terms = ts], !.shown = [page.shown EXCEPT !.terms = ts]]
    BY <1>1 DEF Pages
  <2> QED
    BY <1>1, <2>2, <2>3, <2>4, EditsAreTyped, ShownEditsAreTyped, PageFields, SaveIsTyped
<1>7. CASE ChooseLanguage
  <2>1. PICK l \in Languages : Save([Elsewhere EXCEPT !.doc.language = l, !.shown.language = l], TRUE)
    BY <1>7 DEF ChooseLanguage
  <2>2. [Elsewhere EXCEPT !.doc.language = l, !.shown.language = l]
          = [Elsewhere EXCEPT !.doc = [page.doc EXCEPT !.language = l], !.shown = [page.shown EXCEPT !.language = l]]
    BY <1>1 DEF Pages
  <2> QED
    BY <1>1, <2>1, <2>2, EditsAreTyped, ShownEditsAreTyped, PageFields, SaveIsTyped
<1>8. CASE ChangeTrigger
  BY <1>1, <1>8 DEF ChangeTrigger, Typed, Pages
<1>9. CASE TypeDelay
  <2>1. PICK d \in Delays :
          LET entry == [page EXCEPT !.typing = TRUE, !.shown.delay = d]
          IN IF d > 0 THEN Schedule([entry EXCEPT !.doc.delay = d]) ELSE page' = entry /\ UNCHANGED requests
    BY <1>9 DEF TypeDelay
  <2> DEFINE entry == [page EXCEPT !.typing = TRUE, !.shown.delay = d]
  <2>2. d \in Nat
    BY SettingsAssumption
  <2>3. entry = [page EXCEPT !.typing = TRUE, !.shown = [page.shown EXCEPT !.delay = d]]
    BY <1>1 DEF Pages
  <2>4. [page.shown EXCEPT !.delay = d] \in Showns
    BY <1>1, <2>2, ShownEditsAreTyped
  <2>5. entry \in Pages /\ entry.doc = page.doc
    BY <1>1, <2>3, <2>4 DEF Pages
  <2>6. Schedule([entry EXCEPT !.doc.delay = d]) \/ (page' = entry /\ UNCHANGED requests)
    BY <2>1
  <2> HIDE DEF entry
  <2>7. [entry EXCEPT !.doc.delay = d] = [entry EXCEPT !.doc = [page.doc EXCEPT !.delay = d]]
    BY <2>5 DEF Pages
  <2>8. [entry EXCEPT !.doc.delay = d] \in Pages
    <3>1. [page.doc EXCEPT !.delay = d] \in Docs
      BY <1>1, <2>2, EditsAreTyped
    <3> QED
      BY <2>5, <2>7, <3>1 DEF Pages
  <2> QED
    BY <2>5, <2>6, <2>8, ScheduleIsTyped DEF Typed
<1> QED
  BY <1>3, <1>4, <1>5, <1>6, <1>7, <1>8, <1>9 DEF Hands

(* The page that takes up a captured trigger, or hands it to a document it *)
(* has no more.                                                            *)
Heard(t) ==
  LET p == [page EXCEPT !.listening = "no", !.picked = t]
      q == IF page.listening = "live" THEN [p EXCEPT !.doc.trigger = t] ELSE p
  IN [q EXCEPT !.shown.trigger = q.doc.trigger]

LEMMA HeardIsTyped ==
  ASSUME page \in Pages, NEW t \in Triggers
  PROVE  /\ Heard(t) \in Pages
         /\ Heard(t).doc = IF page.listening = "live" THEN [page.doc EXCEPT !.trigger = t] ELSE page.doc
         /\ Heard(t).shown = [page.shown EXCEPT !.trigger = Heard(t).doc.trigger]
         /\ Heard(t).waits = page.waits /\ Heard(t).open = page.open
<1> DEFINE p == [page EXCEPT !.listening = "no", !.picked = t]
           q == IF page.listening = "live" THEN [p EXCEPT !.doc.trigger = t] ELSE p
<1>1. page.doc \in Docs /\ page.shown \in Showns
  BY DEF Pages
<1>2. /\ p \in Pages /\ p.doc = page.doc /\ p.shown = page.shown
      /\ p.waits = page.waits /\ p.open = page.open
  BY DEF Pages
<1>3. Heard(t) = [q EXCEPT !.shown.trigger = q.doc.trigger]
  BY DEF Heard
<1> HIDE DEF p
<1>4. [p EXCEPT !.doc.trigger = t] = [p EXCEPT !.doc = [page.doc EXCEPT !.trigger = t]]
  BY <1>2 DEF Pages
<1>5. [page.doc EXCEPT !.trigger = t] \in Docs
  BY <1>1, EditsAreTyped
<1>6. /\ q \in Pages /\ q.shown = page.shown /\ q.waits = page.waits /\ q.open = page.open
      /\ q.doc = IF page.listening = "live" THEN [page.doc EXCEPT !.trigger = t] ELSE page.doc
  BY <1>2, <1>4, <1>5 DEF Pages
<1> HIDE DEF q
<1>7. [q EXCEPT !.shown.trigger = q.doc.trigger] = [q EXCEPT !.shown = [page.shown EXCEPT !.trigger = q.doc.trigger]]
  BY <1>6 DEF Pages
<1>8. [page.shown EXCEPT !.trigger = q.doc.trigger] \in Showns
  <2>1. q.doc.trigger \in Triggers
    BY <1>6 DEF Pages, Docs
  <2> QED
    BY <1>1, <2>1, ShownEditsAreTyped
<1>9. Heard(t) = [q EXCEPT !.shown = [page.shown EXCEPT !.trigger = q.doc.trigger]]
  BY <1>3, <1>7
<1>10. /\ Heard(t) \in Pages /\ Heard(t).doc = q.doc
       /\ Heard(t).shown = [page.shown EXCEPT !.trigger = q.doc.trigger]
       /\ Heard(t).waits = q.waits /\ Heard(t).open = q.open
  BY <1>6, <1>8, <1>9 DEF Pages
<1> QED
  BY <1>6, <1>10

LEMMA CapturedIsTyped ==
  ASSUME Typed, Captured
  PROVE  page' \in Pages /\ requests' \in Seq(Docs)
<1>1. page \in Pages
  BY DEF Typed
<1>2. CASE \E t \in Accepted : Save(Heard(t), FALSE)
  <2>1. PICK t \in Accepted : Save(Heard(t), FALSE)
    BY <1>2
  <2>2. t \in Triggers
    BY SettingsAssumption
  <2> QED
    BY <1>1, <2>1, <2>2, HeardIsTyped, SaveIsTyped
<1>3. CASE page' = [page EXCEPT !.listening = "no", !.status = "refused"] /\ UNCHANGED requests
  BY <1>1, <1>3 DEF Typed, Pages, Statuses
<1> QED
  BY <1>2, <1>3 DEF Captured, Heard

(* The page that takes an answer, before it is drawn again as a whole.     *)
Stored(a) ==
  LET p == [page EXCEPT !.waits = Tail(@), !.status = IF a.ok THEN "saved" ELSE "refused"]
  IN IF a.ok
     THEN [p EXCEPT !.doc = a.doc, !.shown.cap = a.doc.cap,
                    !.shown.delay = IF page.typing THEN @ ELSE a.doc.delay,
                    !.listening = IF @ = "no" THEN @ ELSE "stale"]
     ELSE p

LEMMA StoredIsTyped ==
  ASSUME page \in Pages, NEW a \in Answers
  PROVE  /\ Stored(a) \in Pages
         /\ Stored(a).waits = Tail(page.waits) /\ Stored(a).open = page.open /\ Stored(a).timer = page.timer
         /\ (page.listening = "no" => Stored(a).listening = "no")
         /\ ~a.ok => Stored(a).status = "refused" /\ Stored(a).doc = page.doc /\ Stored(a).shown = page.shown
         /\ a.ok => /\ Stored(a).doc = a.doc
                    /\ Stored(a).shown = [page.shown EXCEPT !.cap = a.doc.cap,
                                                          !.delay = IF page.typing THEN @ ELSE a.doc.delay]
<1> DEFINE p == [page EXCEPT !.waits = Tail(@), !.status = IF a.ok THEN "saved" ELSE "refused"]
           s == [page.shown EXCEPT !.cap = a.doc.cap, !.delay = IF page.typing THEN @ ELSE a.doc.delay]
           l == IF page.listening = "no" THEN "no" ELSE "stale"
<1>1. /\ page.waits \in Seq(BOOLEAN) /\ page.shown \in Showns /\ page.typing \in BOOLEAN
      /\ a.ok \in BOOLEAN /\ a.doc \in Docs /\ a.doc.cap \in Nat /\ a.doc.delay \in Nat
  BY DEF Pages, Answers, Docs
<1>2. Tail(page.waits) \in Seq(BOOLEAN)
  <2>1. CASE page.waits = <<>>
    BY <2>1
  <2>2. CASE page.waits # <<>>
    BY <1>1, <2>2, HeadTailProperties
  <2> QED
    BY <2>1, <2>2
<1>3. /\ p \in Pages /\ p.waits = Tail(page.waits) /\ p.open = page.open /\ p.timer = page.timer
      /\ p.listening = page.listening /\ p.doc = page.doc /\ p.shown = page.shown
      /\ ~a.ok => p.status = "refused"
  BY <1>1, <1>2 DEF Pages, Statuses
<1>4. s \in Showns
  BY <1>1 DEF Showns
<1>5. Stored(a) = IF a.ok
               THEN [p EXCEPT !.doc = a.doc, !.shown.cap = a.doc.cap,
                              !.shown.delay = IF page.typing THEN @ ELSE a.doc.delay,
                              !.listening = IF @ = "no" THEN @ ELSE "stale"]
               ELSE p
  BY DEF Stored
<1> HIDE DEF p
<1>6. [p EXCEPT !.doc = a.doc, !.shown.cap = a.doc.cap,
                !.shown.delay = IF page.typing THEN @ ELSE a.doc.delay,
                !.listening = IF @ = "no" THEN @ ELSE "stale"]
        = [p EXCEPT !.doc = a.doc, !.shown = s, !.listening = l]
  BY <1>1, <1>3 DEF Pages, Showns
<1> HIDE DEF s, l
<1>7. l \in {"no", "stale"} /\ (page.listening = "no" => l = "no")
  BY DEF l
<1>8. CASE a.ok
  <2>1. Stored(a) = [p EXCEPT !.doc = a.doc, !.shown = s, !.listening = l]
    BY <1>5, <1>6, <1>8
  <2>2. /\ Stored(a) \in Pages /\ Stored(a).doc = a.doc /\ Stored(a).shown = s /\ Stored(a).listening = l
        /\ Stored(a).waits = p.waits /\ Stored(a).open = p.open /\ Stored(a).timer = p.timer
    BY <1>1, <1>3, <1>4, <1>7, <2>1 DEF Pages
  <2> QED
    BY <1>3, <1>7, <1>8, <2>2 DEF s
<1>9. CASE ~a.ok
  BY <1>3, <1>5, <1>9
<1> QED
  BY <1>1, <1>8, <1>9

LEMMA WindowIsTyped ==
  ASSUME Typed, Sound(current), Remember \/ Boot \/ Hands \/ LeaveDelay \/ Captured \/ SaveTimer \/ Answered
  PROVE  Typed'
<1>1. page \in Pages /\ page.doc \in Docs /\ page.shown \in Showns /\ page.waits \in Seq(BOOLEAN)
  BY DEF Typed, Pages
<1>2. CASE Remember
  BY <1>2 DEF Remember, Typed, window
<1>3. CASE Boot
  <2>1. Closed \in Pages /\ current \in Docs /\ Shown(current) \in Showns
    BY ClosedIsTyped, ShownIsTyped DEF Sound
  <2>2. [Closed EXCEPT !.open = TRUE, !.doc = current, !.shown = Shown(current)] \in Pages
    BY <2>1 DEF Pages
  <2> QED
    BY <1>3, <2>2 DEF Boot, Typed
<1>4. CASE Hands
  <2>1. UNCHANGED <<answers, dragged>>
    BY <1>4 DEF Hands, MoveTheCap, TypeDelay, AddRow, TypeTerm, DropRow, ChooseLanguage, ChangeTrigger, Edit
  <2> QED
    BY <1>4, <2>1, HandsAreTyped DEF Typed
<1>5. CASE Captured
  <2>1. UNCHANGED <<answers, dragged>>
    BY <1>5 DEF Captured
  <2> QED
    BY <1>5, <2>1, CapturedIsTyped DEF Typed
<1>6. CASE SaveTimer
  <2>1. [page EXCEPT !.timer = FALSE] \in Pages
    BY <1>1 DEF Pages
  <2>2. page' \in Pages /\ requests' \in Seq(Docs)
    BY <1>6, <2>1, SaveIsTyped DEF SaveTimer
  <2> QED
    BY <1>6, <2>2 DEF SaveTimer, Typed
<1>7. CASE Answered
  <2>1. Head(answers) \in Answers /\ answers' \in Seq(Answers)
    BY <1>7, HeadTailProperties DEF Answered, Typed
  <2>2. Stored(Head(answers)) \in Pages
    BY <1>1, <2>1, StoredIsTyped
  <2>3. Reload(Stored(Head(answers))) \in Pages
    <3>1. Stored(Head(answers)).doc \in Docs
      BY <2>2 DEF Pages
    <3> QED
      BY <2>2, <3>1, ShownIsTyped DEF Reload, Pages
  <2>4. page' \in Pages /\ UNCHANGED <<requests, dragged>>
    BY <1>7, <2>2, <2>3 DEF Answered, Stored
  <2> QED
    BY <2>1, <2>4 DEF Typed
<1>8. CASE LeaveDelay
  BY <1>1, <1>8, ElsewhereIsThePage DEF LeaveDelay, Typed
<1> QED
  BY <1>2, <1>3, <1>4, <1>5, <1>6, <1>7, <1>8

-----------------------------------------------------------------------------
(* What is in force.                                                       *)
Writing(w) == writer[w].at \in {"open", "fill", "rename", "saved", "unsaved"}

Settled == \A w \in Writers : ~Writing(w)

(* A writer writes what is in force, and knows how far it has come.        *)
Writes(w) ==
  /\ writer[w].doc \in Docs /\ writer[w].language \in BOOLEAN
  /\ Writing(w) => writer[w].doc = current
  /\ Writing(w) => writer[w].language \/ told = current.language
  /\ At(w, "fill") => tmp = Torn
  /\ At(w, "rename") => tmp = Written(current)
  /\ At(w, "saved") => file = Written(current)
  /\ At(w, "unsaved") => owed

InForce == told = current.language /\ (owed \/ current = Load(file))

StoreInv ==
  /\ Sound(current) /\ file \in OnDiskFiles
  /\ \A w \in Writers : Writes(w)
  /\ Settled => InForce

LEMMA StoreUntouched ==
  ASSUME StoreInv, UNCHANGED <<current, file, tmp, writer, told, owed>>
  PROVE  StoreInv'
BY DEF StoreInv, Writes, Writing, Settled, InForce, At, Sound

(* The writers that are idle know nothing. *)
LEMMA IdleWrites ==
  ASSUME NEW w \in Writers, writer'[w] = Idle
  PROVE  Writes(w)' /\ ~Writing(w)'
<1>1. Default \in Docs
  BY DefaultIsSound DEF Sound
<1> QED
  BY <1>1 DEF Idle, Writes, Writing, At

(* Everything but the writer is idle before and after. *)
LEMMA TheOthersWriteNothing ==
  ASSUME FileInv, StoreInv, NEW w \in Writers, \A v \in Writers \ {w} : At(v, "idle"),
         \A v \in Writers \ {w} : writer'[v] = writer[v]
  PROVE  \A v \in Writers \ {w} : Writes(v)' /\ ~Writing(v)' /\ ~Writing(v)
BY DEF StoreInv, Writes, Writing, At

LEMMA SetStores ==
  ASSUME FileInv, StoreInv, NEW w \in Writers, NEW d \in Docs, Set(w, d), ~Writing(w),
         \A v \in Writers \ {w} : At(v, "idle"), UNCHANGED <<file, tmp, told, owed>>
  PROVE  StoreInv'
<1>1. InForce
  BY DEF StoreInv, Settled, Writing, At
<1>2. Sound(Validated(d))
  BY ValidatedIsSound
<1>3. CASE Validated(d) = current
  <2>1. writer' = [writer EXCEPT ![w] = Idle] /\ current' = current
    BY <1>3 DEF Set, Return
  <2>2. writer'[w] = Idle /\ \A v \in Writers \ {w} : writer'[v] = writer[v]
    BY <2>1 DEF FileInv
  <2>3. Writes(w)'
    BY <2>2, IdleWrites
  <2>4. \A v \in Writers : Writes(v)'
    BY <2>2, <2>3, TheOthersWriteNothing
  <2>5. InForce' /\ Sound(current)'
    BY <1>1, <2>1 DEF InForce, StoreInv, Sound
  <2> QED
    BY <2>4, <2>5 DEF StoreInv
<1>4. CASE Validated(d) # current
  <2>1. /\ current' = Validated(d)
        /\ writer' = [writer EXCEPT ![w] = [at |-> "open", doc |-> Validated(d),
                                              language |-> Validated(d).language # current.language]]
    BY <1>4 DEF Set
  <2>2. /\ writer'[w] = [at |-> "open", doc |-> Validated(d), language |-> Validated(d).language # current.language]
        /\ \A v \in Writers \ {w} : writer'[v] = writer[v]
    BY <2>1 DEF FileInv
  <2>3. told' = current.language
    BY <1>1 DEF InForce
  <2>4. Writes(w)' /\ Writing(w)'
    <3>1. writer'[w].at = "open" /\ writer'[w].doc = current' /\ current' \in Docs
      BY <1>2, <2>1, <2>2 DEF Sound
    <3> DEFINE moved == Validated(d).language # current.language
    <3>2. moved \in BOOLEAN /\ (moved \/ Validated(d).language = current.language)
      OBVIOUS
    <3>3. writer'[w] = [at |-> "open", doc |-> Validated(d), language |-> moved]
      BY <2>2
    <3> HIDE DEF moved
    <3>4. writer'[w].language \in BOOLEAN /\ (writer'[w].language \/ told' = current'.language)
      BY <2>1, <2>3, <3>2, <3>3
    <3> QED
      BY <3>1, <3>4 DEF Writes, Writing, At
  <2>5. \A v \in Writers : Writes(v)'
    BY <2>2, <2>4, TheOthersWriteNothing
  <2>6. Sound(current)'
    BY <1>2, <2>1 DEF Sound
  <2> QED
    BY <2>4, <2>5, <2>6 DEF StoreInv, Settled
<1> QED
  BY <1>3, <1>4

LEMMA WritesStore ==
  ASSUME FileInv, StoreInv, NEW w \in Writers, Write(w)
  PROVE  StoreInv'
<1>0. writer[w].at # "idle" /\ Writing(w) /\ current' = current
  BY DEF Write, Open, Fill, Rename, WriteFails, Notify, At, Writing
<1>1. writer[w].doc = current /\ Writes(w) /\ Sound(current)
  BY <1>0 DEF StoreInv, Writes
<1>2. \A v \in Writers \ {w} : At(v, "idle")
  BY <1>0 DEF FileInv, OneWriter, Writers, At
<1>3. ASSUME NEW p \in {"fill", "rename", "saved", "unsaved"}, Goto(w, p)
      PROVE  /\ writer'[w].at = p /\ writer'[w].doc = writer[w].doc /\ writer'[w].language = writer[w].language
             /\ \A v \in Writers \ {w} : writer'[v] = writer[v]
  BY <1>3 DEF FileInv, Goto
<1>4. ASSUME NEW p \in {"fill", "rename", "saved", "unsaved"}, Goto(w, p), told' = told,
             file' \in OnDiskFiles,
             p = "fill" => tmp' = Torn, p = "rename" => tmp' = Written(current),
             p = "saved" => file' = Written(current), p = "unsaved" => owed'
      PROVE  StoreInv'
  <2>1. Writes(w)' /\ Writing(w)'
    BY <1>0, <1>1, <1>3, <1>4 DEF Writes, Writing, At
  <2>2. \A v \in Writers : Writes(v)'
    BY <1>2, <1>3, <1>4, <2>1, TheOthersWriteNothing
  <2> QED
    BY <1>0, <1>1, <1>4, <2>1, <2>2 DEF StoreInv, Settled, Sound
<1>5. CASE Open(w)
  BY <1>4, <1>5 DEF Open, StoreInv
<1>6. CASE Fill(w)
  <2>1. tmp = Torn /\ tmp # NoFile
    BY <1>1, <1>6 DEF Fill, Writes, Torn, NoFile
  <2> QED
    BY <1>1, <1>4, <1>6, <2>1 DEF Fill, StoreInv
<1>7. CASE Rename(w)
  <2>1. tmp = Written(current) /\ Written(current) \in OnDiskFiles
    BY <1>1, <1>7, LoadReadsWhatIsWritten DEF Rename, Writes
  <2>2. CASE tmp = NoFile
    BY <1>4, <1>7, <2>2 DEF Rename, StoreInv
  <2>3. CASE tmp # NoFile
    BY <1>4, <1>7, <2>1, <2>3 DEF Rename, StoreInv
  <2> QED
    BY <2>2, <2>3
<1>8. CASE WriteFails(w)
  BY <1>4, <1>8 DEF WriteFails, StoreInv
<1>9. CASE Notify(w)
  <2>1. writer' = [writer EXCEPT ![w] = Idle] /\ UNCHANGED <<file, tmp, owed>>
    BY <1>9 DEF Notify, Return
  <2>2. told' = current.language
    BY <1>1, <1>9 DEF Notify, Writes, Writing
  <2>3. owed \/ file = Written(current)
    BY <1>1, <1>9 DEF Notify, Writes, At
  <2>4. InForce'
    BY <1>0, <1>1, <2>1, <2>2, <2>3, LoadReadsWhatIsWritten DEF InForce
  <2>5. writer'[w] = Idle /\ \A v \in Writers \ {w} : writer'[v] = writer[v]
    BY <2>1 DEF FileInv
  <2>6. Writes(w)'
    BY <2>5, IdleWrites
  <2>7. \A v \in Writers : Writes(v)'
    BY <1>2, <2>5, <2>6, TheOthersWriteNothing
  <2> QED
    BY <1>0, <1>1, <2>1, <2>4, <2>7 DEF StoreInv, Sound
<1> QED
  BY <1>5, <1>6, <1>7, <1>8, <1>9 DEF Write

LEMMA CardStores ==
  ASSUME "overlap" \notin Disturbances, Typed, FileInv, StoreInv, PersistGet \/ PersistSet
  PROVE  StoreInv'
<1>1. CASE PersistGet
  <2>1. UNCHANGED <<current, file, tmp, told, owed>> /\ At("main", "idle") /\ At("card", "idle")
    BY <1>1 DEF PersistGet
  <2>2. CASE UNCHANGED writer
    BY <2>1, <2>2, StoreUntouched
  <2>3. CASE writer' # writer
    <3> DEFINE d == [current EXCEPT !.place = dragged]
    <3>1. writer' = [writer EXCEPT !["card"] = [at |-> "got", language |-> FALSE, doc |-> d]]
      BY <1>1, <2>3 DEF PersistGet
    <3>2. d \in Docs
      BY EditsAreTyped DEF StoreInv, Sound, Typed
    <3> HIDE DEF d
    <3>3. writer'["card"] = [at |-> "got", language |-> FALSE, doc |-> d] /\ writer'["main"] = writer["main"]
      BY <3>1 DEF FileInv, Writers
    <3>4. Writes("card")' /\ ~Writing("card")'
      BY <3>2, <3>3 DEF Writes, Writing, At
    <3>5. Writes("main")' /\ ~Writing("main")' /\ ~Writing("main") /\ ~Writing("card")
      BY <2>1, <3>3 DEF StoreInv, Writes, Writing, At, Writers
    <3>6. InForce'
      BY <2>1, <3>5 DEF StoreInv, Settled, InForce, Writers
    <3> QED
      BY <2>1, <3>4, <3>5, <3>6 DEF StoreInv, Sound, Writers
  <2> QED
    BY <2>2, <2>3
<1>2. CASE PersistSet
  <2>1. At("card", "got") /\ At("main", "idle")
    BY <1>2 DEF PersistSet, FileInv, OneWriter, At
  <2>2. writer["card"].doc \in Docs
    BY DEF StoreInv, Writes, Writers
  <2> QED
    BY <1>2, <2>1, <2>2, SetStores DEF PersistSet, Writers, Writing, At
<1> QED
  BY <1>1, <1>2

LEMMA SetSettingsStores ==
  ASSUME "overlap" \notin Disturbances, Typed, FileInv, StoreInv, SetSettings
  PROVE  StoreInv'
<1>1. At("main", "idle") /\ \A v \in Writers \ {"main"} : At(v, "idle")
  BY DEF SetSettings, Writers
<1>2. Head(requests) \in Docs
  BY HeadTailProperties DEF SetSettings, Typed
<1>3. CASE MayBeSet(Head(requests))
  BY <1>1, <1>2, <1>3, SetStores DEF SetSettings, Writers, Writing, At
<1>4. CASE ~MayBeSet(Head(requests))
  <2>1. writer' = [writer EXCEPT !["main"] = Idle] /\ UNCHANGED <<current, file, tmp, told, owed>>
    BY <1>4 DEF SetSettings, Return
  <2>2. writer'["main"] = Idle /\ writer'["card"] = writer["card"]
    BY <2>1 DEF FileInv, Writers
  <2>3. Writes("main")' /\ ~Writing("main") /\ ~Writing("card")
    BY <1>1, <2>2, IdleWrites DEF Writers, Writing, At
  <2>4. Writes("card")'
    BY <1>1, <2>2 DEF StoreInv, Writes, Writing, Writers, At
  <2>5. InForce'
    BY <2>1, <2>3 DEF StoreInv, Settled, InForce, Writers
  <2> QED
    BY <2>1, <2>3, <2>4, <2>5 DEF StoreInv, Sound, Writers
<1> QED
  BY <1>3, <1>4

LEMMA RestartStores ==
  ASSUME StoreInv, Restart
  PROVE  StoreInv' /\ Typed'
<1>1. \A w \in Writers : writer'[w] = Idle
  BY DEF Restart, Writers
<1>2. \A w \in Writers : Writes(w)'
  BY <1>1, IdleWrites
<1>3. Sound(Load(file)) /\ current' = Load(file) /\ told' = current'.language /\ file' = file
  BY LoadIsSound DEF Restart, StoreInv
<1>4. InForce'
  BY <1>3 DEF InForce
<1>5. StoreInv'
  BY <1>2, <1>3, <1>4 DEF StoreInv, Sound
<1>6. Typed'
  BY ClosedIsTyped, EmptySeq DEF Restart, Typed
<1> QED
  BY <1>5, <1>6

(* What travels is typed whoever steps.                                    *)
LEMMA StoreIsTyped ==
  ASSUME Typed, FileInv, StoreInv, (\E w \in Writers : Write(w)) \/ SetSettings \/ PersistGet \/ PersistSet
  PROVE  Typed'
<1>1. page' = page
  BY DEF Write, Open, Fill, Rename, WriteFails, Notify, SetSettings, PersistGet, PersistSet, window
<1>2. dragged' \in Places \union {Nowhere}
  BY DEF Write, Open, Fill, Rename, WriteFails, Notify, SetSettings, PersistGet, PersistSet, Typed
<1>3. requests' \in Seq(Docs)
  <2>1. requests' = requests \/ (requests # <<>> /\ requests' = Tail(requests))
    BY DEF Write, Open, Fill, Rename, WriteFails, Notify, SetSettings, PersistGet, PersistSet, window
  <2> QED
    BY <2>1, HeadTailProperties DEF Typed
<1>4. ASSUME NEW w \in Writers, NEW b \in BOOLEAN, NEW d \in Docs, Return(w, b, d)
      PROVE  answers' \in Seq(Answers)
  <2>1. [ok |-> b, doc |-> d] \in Answers
    BY DEF Answers
  <2> HIDE DEF Answers
  <2> QED
    BY <1>4, <2>1, AppendProperties DEF Return, Typed
<1>5. ASSUME NEW w \in Writers, NEW d \in Docs, Set(w, d)
      PROVE  answers' \in Seq(Answers)
  BY <1>4, <1>5, ValidatedFields DEF Set, Typed
<1>6. \A w \in Writers : writer[w].doc \in Docs
  BY DEF StoreInv, Writes
<1>7. ASSUME NEW w \in Writers, Write(w) PROVE answers' \in Seq(Answers)
  <2>1. CASE Notify(w)
    <3>1. At(w, "saved") \in BOOLEAN
      BY DEF At
    <3> QED
      BY <1>4, <1>6, <2>1, <3>1 DEF Notify
  <2>2. CASE ~Notify(w)
    BY <1>7, <2>2 DEF Write, Open, Fill, Rename, WriteFails, window, Typed
  <2> QED
    BY <2>1, <2>2
<1>8. ASSUME SetSettings PROVE answers' \in Seq(Answers)
  <2>1. Head(requests) \in Docs
    BY <1>8, HeadTailProperties DEF SetSettings, Typed
  <2>2. "main" \in Writers
    BY DEF Writers
  <2>3. CASE Set("main", Head(requests))
    BY <1>5, <2>1, <2>2, <2>3
  <2>4. CASE Return("main", FALSE, Head(requests))
    BY <1>4, <2>1, <2>2, <2>4
  <2> QED
    BY <1>8, <2>3, <2>4 DEF SetSettings
<1>9. ASSUME PersistGet PROVE answers' \in Seq(Answers)
  BY <1>9 DEF PersistGet, window, Typed
<1>10. ASSUME PersistSet PROVE answers' \in Seq(Answers)
  <2>1. "card" \in Writers /\ Set("card", writer["card"].doc)
    BY <1>10 DEF PersistSet, Writers
  <2>2. writer["card"].doc \in Docs
    BY <1>6, <2>1
  <2> QED
    BY <1>5, <2>1, <2>2
<1>11. answers' \in Seq(Answers)
  BY <1>7, <1>8, <1>9, <1>10
<1> QED
  BY <1>1, <1>2, <1>3, <1>11 DEF Typed

StoredInv == FileInv /\ StoreInv /\ Typed

LEMMA StoredInvHoldsAtFirst ==
  ASSUME Init
  PROVE  StoredInv
<1>1. file \in OnDiskFiles /\ Sound(Load(file))
  BY LoadIsSound, SettingsAssumption DEF Init, OnDiskFiles
<1>2. \A w \in Writers : writer[w] = Idle
  BY DEF Init, Writers
<1>3. \A w \in Writers : Writes(w)
  <2>1. Default \in Docs
    BY DefaultIsSound DEF Sound
  <2>2. SUFFICES ASSUME NEW w \in Writers PROVE Writes(w)
    OBVIOUS
  <2>3. writer[w] = Idle
    BY <1>2
  <2> QED
    BY <2>1, <2>3 DEF Writes, Writing, At, Idle
<1>4. StoreInv
  BY <1>1, <1>3 DEF Init, StoreInv, InForce
<1>5. Typed
  BY ClosedIsTyped, EmptySeq DEF Init, Typed
<1> QED
  BY <1>4, <1>5, FileInvHoldsAtFirst DEF StoredInv

LEMMA EveryStepStores ==
  ASSUME "overlap" \notin Disturbances, StoredInv, [Next]_vars
  PROVE  StoredInv'
<1>1. FileInv' /\ FileInv /\ StoreInv /\ Typed
  BY EveryStep DEF StoredInv
<1>2. CASE UNCHANGED vars
  <2>1. StoreInv'
    BY <1>1, <1>2, StoreUntouched DEF vars, store
  <2>2. Typed'
    BY <1>1, <1>2 DEF vars, window, Typed
  <2> QED
    BY <1>1, <2>1, <2>2 DEF StoredInv
<1>3. CASE (\E w \in Writers : Write(w)) \/ SetSettings \/ PersistGet \/ PersistSet
  <2>1. Typed'
    BY <1>1, <1>3, StoreIsTyped
  <2>2. StoreInv'
    BY <1>1, <1>3, WritesStore, SetSettingsStores, CardStores
  <2> QED
    BY <1>1, <2>1, <2>2 DEF StoredInv
<1>4. CASE Remember \/ Boot \/ Hands \/ LeaveDelay \/ Captured \/ SaveTimer \/ Answered
  <2>1. UNCHANGED store
    BY <1>4 DEF Remember, Boot, Hands, LeaveDelay, Captured, SaveTimer, Answered, MoveTheCap, TypeDelay, AddRow, TypeTerm, DropRow,
                ChooseLanguage, ChangeTrigger, Edit
  <2>2. StoreInv'
    BY <1>1, <2>1, StoreUntouched DEF store
  <2>3. Typed'
    BY <1>1, <1>4, WindowIsTyped DEF StoreInv
  <2> QED
    BY <1>1, <2>2, <2>3 DEF StoredInv
<1>5. CASE Restart
  BY <1>1, <1>5, RestartStores DEF StoredInv
<1> QED
  BY <1>2, <1>3, <1>4, <1>5 DEF Next, Writers

(* What is in force can always be used as it is; and when nobody writes,   *)
(* it is what a restart would read and what the listeners were told, for   *)
(* any files found at a start, any edits, failed writes and crashes, while *)
(* the window's thread and the card's do not write at the same time.       *)
THEOREM WhatIsInForceIsOnDisk ==
  ASSUME "overlap" \notin Disturbances
  PROVE  Spec => []AllAgreeWhenQuiet
<1>1. Init => StoredInv
  BY StoredInvHoldsAtFirst
<1>2. StoredInv /\ [Next]_vars => StoredInv'
  BY EveryStepStores
<1>3. StoredInv => AllAgreeWhenQuiet
  BY DEF StoredInv, StoreInv, Sound, FileInv, Settled, Writing, Quiet, At, InForce, AllAgreeWhenQuiet
<1> QED
  BY <1>1, <1>2, <1>3, PTL DEF Spec

-----------------------------------------------------------------------------
(* What the window shows, up to where it can differ from what is stored:   *)
(* the clamps of the cap and of the delay.                                 *)
Canon(d) == [trigger |-> d.trigger, cap |-> ClampCap(d.cap), delay |-> ClampDelay(d.delay),
             terms |-> d.terms, language |-> d.language]

Clamped(d) == ClampCap(d.cap) = d.cap /\ ClampDelay(d.delay) = d.delay

Calls == Len(requests) + Len(answers) + (IF At("main", "idle") THEN 0 ELSE 1)

(* A page p, what it has sent for and what it will be told.                *)
Linked(p) ==
  /\ Len(p.waits) = Calls
  /\ ~p.open => p.waits = <<>> /\ ~p.timer /\ p.listening = "no"
  /\ Shows(p.shown, p.doc)
  /\ \A i \in 1..Len(requests) : Canon(requests[i]) = Canon(p.doc)
  /\ \A i \in 1..Len(answers) : answers[i].ok =>
       /\ Canon(answers[i].doc) = Canon(p.doc) /\ Clamped(answers[i].doc)
       /\ Canon(current) = Canon(p.doc)
  /\ ~At("main", "idle") => Canon(current) = Canon(p.doc)

(* Where a window that waits for nothing does not show what is in force.   *)
Owes(p) == p.timer \/ p.status = "refused" \/ HasBlank(p.doc.terms)

PageInv ==
  /\ Linked(page)
  /\ page.open /\ page.waits = <<>> => Owes(page) \/ Shown(page.doc) = Shown(current)

(* What the card is about to write differs by the place only.              *)
CardInv == At("card", "got") => Shown(writer["card"].doc) = Shown(current)

ShownInv == StoredInv /\ PageInv /\ CardInv

LEMMA CanonOfShown ==
  ASSUME NEW d, NEW e, Shown(d) = Shown(e)
  PROVE  Canon(d) = Canon(e)
BY DEF Shown, Canon

LEMMA ShownOfCanon ==
  ASSUME NEW d, NEW e, Canon(d) = Canon(e)
  PROVE  /\ d.trigger = e.trigger /\ d.terms = e.terms /\ d.language = e.language
         /\ Clamped(d) /\ Clamped(e) => Shown(d) = Shown(e)
BY DEF Shown, Canon, Clamped

(* A document shows itself; a clamp shows through. *)
LEMMA ShownShows ==
  ASSUME NEW d
  PROVE  Shows(Shown(d), d)
BY DEF Shown, Shows

LEMMA SoundIsClamped ==
  ASSUME NEW d, Sound(d)
  PROVE  Clamped(d)
BY ValidatedFields DEF Sound, Clamped

(* What may be set is stored as it is but for the clamps. *)
LEMMA MayBeSetIsStored ==
  ASSUME NEW d \in Docs, MayBeSet(d)
  PROVE  Canon(Validated(d)) = Canon(d)
<1>1. d.terms \in Seq(Terms \union {Blank}) /\ d.cap \in Nat /\ d.delay \in Nat
  BY DEF Docs
<1>2. \A i \in 1..Len(d.terms) : d.terms[i] # Blank
  <2>1. DOMAIN d.terms = 1..Len(d.terms)
    BY <1>1
  <2> QED
    BY <2>1 DEF MayBeSet, HasBlank, Range
<1>3. /\ Kept(d.terms) = d.terms /\ ClampCap(ClampCap(d.cap)) = ClampCap(d.cap)
      /\ ClampDelay(ClampDelay(d.delay)) = ClampDelay(d.delay)
  BY <1>1, <1>2, KeptProps, ClampIsIdempotent
<1>4. d.trigger \in Readable
  BY SettingsAssumption DEF MayBeSet
<1> QED
  BY <1>3, <1>4, ValidatedFields DEF Canon

(* What the card writes back shows the same. *)
LEMMA CardStoresTheSame ==
  ASSUME NEW d \in Docs, Sound(current), Shown(d) = Shown(current)
  PROVE  Shown(Validated(d)) = Shown(current)
<1>1. current \in Docs /\ Validated(current) = current
  BY DEF Sound
<1>2. /\ d.trigger = current.trigger /\ d.cap = current.cap /\ d.delay = current.delay /\ d.terms = current.terms
      /\ d.language = current.language
  BY DEF Shown
<1>3. Shown(Validated(d)) = Shown(Validated(current))
  BY <1>1, <1>2, ValidatedFields DEF Shown
<1> QED
  BY <1>1, <1>3

(* Steps that the window neither takes nor hears of. *)
LEMMA PageUntouched ==
  ASSUME PageInv, UNCHANGED <<page, requests, answers>>, At("main", "idle")' = At("main", "idle"),
         Shown(current)' = Shown(current)
  PROVE  PageInv'
<1>1. Canon(current)' = Canon(current)
  BY CanonOfShown
<1>2. Linked(page)'
  BY <1>1 DEF PageInv, Linked, Calls, Canon, Clamped, ClampCap, ClampDelay, Clamp, Shows
<1> QED
  BY <1>2 DEF PageInv, Owes

-----------------------------------------------------------------------------
(* Whatever is sent for is awaited, and what is not sent for is refused.   *)
LEMMA SaveKeeps ==
  ASSUME Typed, NEW p \in Pages, NEW r \in BOOLEAN, Linked(p), p.open, Save(p, r),
         UNCHANGED <<answers, writer, current>>
  PROVE  PageInv'
<1>1. p.waits \in Seq(BOOLEAN) /\ p.doc \in Docs
  BY DEF Pages
<1>2. /\ Len(requests) \in Nat /\ Len(answers) \in Nat /\ Len(p.waits) \in Nat
      /\ At("main", "idle")' = At("main", "idle")
  BY <1>1, LenProperties DEF Typed, At
<1>3. CASE HasDuplicates(p.doc.terms)
  <2>1. /\ requests' = requests /\ page'.status = "refused" /\ page'.doc = p.doc
        /\ page'.waits = p.waits /\ page'.open /\ page'.timer = p.timer /\ page'.listening = p.listening
        /\ page'.shown \in {p.shown, Shown(p.doc)}
    BY <1>3 DEF Save, Reload, Pages
  <2>2. Shows(page'.shown, page'.doc)
    BY <2>1, ShownShows DEF Linked
  <2>3. Linked(page)'
    BY <1>2, <2>1, <2>2 DEF Linked, Calls, Canon, Clamped, ClampCap, ClampDelay, Clamp, Shown, Shows
  <2> QED
    BY <2>1, <2>3 DEF PageInv, Owes
<1>4. CASE ~HasDuplicates(p.doc.terms)
  <2>1. page' = [p EXCEPT !.waits = Append(@, r), !.status = "saving"] /\ requests' = Append(requests, p.doc)
    BY <1>4 DEF Save
  <2>2. /\ page'.doc = p.doc /\ page'.open /\ page'.shown = p.shown
        /\ page'.waits = Append(p.waits, r)
    BY <2>1 DEF Pages
  <2>3. /\ Len(requests') = Len(requests) + 1
        /\ \A i \in 1..Len(requests) : requests'[i] = requests[i]
        /\ requests'[Len(requests) + 1] = p.doc
    BY <1>1, <2>1, AppendProperties DEF Typed
  <2>4. Len(page'.waits) = Len(p.waits) + 1 /\ page'.waits # <<>>
    BY <1>1, <2>2, AppendProperties
  <2>5. \A i \in 1..Len(requests') : Canon(requests'[i]) = Canon(p.doc)
    <3>1. \A i \in 1..Len(requests') : i \in 1..Len(requests) \/ i = Len(requests) + 1
      BY <1>2, <2>3
    <3> QED
      BY <2>3, <3>1 DEF Linked
  <2>6. Len(page'.waits) = Calls'
    BY <1>2, <2>3, <2>4 DEF Linked, Calls
  <2>7. Linked(page)'
    BY <1>2, <2>2, <2>5, <2>6 DEF Linked, Canon, Clamped, ClampCap, ClampDelay, Clamp, Shown, Shows
  <2> QED
    BY <2>4, <2>7 DEF PageInv
<1> QED
  BY <1>3, <1>4

(* A page that changes without being sent for. *)
LEMMA OwingKeeps ==
  ASSUME NEW p, Linked(p), p.open, page' = p, UNCHANGED <<requests, answers, writer, current>>, Owes(p)
  PROVE  PageInv'
<1>1. Linked(page)'
  BY DEF Linked, Calls, Canon, Clamped, ClampCap, ClampDelay, Clamp, Shown, Shows, At
<1> QED
  BY <1>1 DEF PageInv, Owes

LEMMA ScheduleKeeps ==
  ASSUME NEW p \in Pages, Linked(p), p.open, Schedule(p), UNCHANGED <<answers, writer, current>>
  PROVE  PageInv'
<1>1. page' = [p EXCEPT !.timer = TRUE] /\ requests' = requests
  BY DEF Schedule
<1>2. /\ page'.timer /\ page'.doc = p.doc /\ page'.waits = p.waits /\ page'.open = p.open
      /\ page'.shown = p.shown
  BY <1>1 DEF Pages
<1>3. Linked(page)'
  BY <1>1, <1>2 DEF Linked, Calls, Canon, Clamped, ClampCap, ClampDelay, Clamp, Shown, Shows, At
<1> QED
  BY <1>2, <1>3 DEF PageInv, Owes

(* Whoever waits for answers before editing edits with nothing on its way. *)
LEMMA EditsAreLinked ==
  ASSUME Typed, PageInv, page.waits = <<>>,
         NEW p, p.waits = <<>>, p.open, Shows(p.shown, p.doc)
  PROVE  Linked(p)
<1>1. Len(requests) \in Nat /\ Len(answers) \in Nat /\ Len(<<>>) = 0
  BY LenProperties DEF Typed
<1>2. Calls = 0
  BY DEF PageInv, Linked
<1>3. Len(requests) = 0 /\ Len(answers) = 0 /\ At("main", "idle")
  BY <1>1, <1>2 DEF Calls
<1> QED
  BY <1>1, <1>2, <1>3 DEF Linked

LEMMA HasTheBlank ==
  ASSUME NEW q \in Seq(Terms \union {Blank})
  PROVE  HasBlank(Append(q, Blank))
<1>1. Append(q, Blank) \in Seq(Terms \union {Blank})
  OBVIOUS
<1>2. Append(q, Blank)[Len(q) + 1] = Blank /\ Len(Append(q, Blank)) = Len(q) + 1 /\ Len(q) \in Nat
  BY AppendProperties, LenProperties
<1>3. Len(q) + 1 \in DOMAIN Append(q, Blank)
  BY <1>1, <1>2
<1> QED
  BY <1>2, <1>3 DEF HasBlank, Range

(* A page with another view of the same document, and as much to say. *)
LEMMA DelayLeft ==
  ASSUME PageInv, NEW p, Linked(p), p.open, page' = p, UNCHANGED <<requests, answers, writer, current>>,
         p.doc = page.doc, p.timer = page.timer, p.status = page.status, p.waits = page.waits, page.open
  PROVE  PageInv'
<1>1. Linked(page)'
  BY DEF Linked, Calls, Canon, Clamped, ClampCap, ClampDelay, Clamp, Shown, Shows, At
<1>2. page'.waits = <<>> => Owes(page) \/ Shown(page.doc) = Shown(current)
  BY DEF PageInv
<1> QED
  BY <1>1, <1>2 DEF PageInv, Owes, Shown

LEMMA HandsKeep ==
  ASSUME "haste" \notin Disturbances, Typed, PageInv, Hands
  PROVE  PageInv'
<1>1. /\ page \in Pages /\ page.doc \in Docs /\ page.shown \in Showns
      /\ page.doc.terms \in Seq(Terms \union {Blank}) /\ page.shown.terms \in Seq(Terms \union {Blank})
      /\ Elsewhere \in Pages /\ Elsewhere.doc = page.doc /\ Elsewhere.shown = page.shown
      /\ Elsewhere.waits = page.waits /\ Elsewhere.open = page.open /\ Elsewhere.timer = page.timer
      /\ Elsewhere.status = page.status
  BY ElsewhereIsThePage DEF Typed, Pages, Docs, Showns
<1>2. page.open /\ page.waits = <<>> /\ UNCHANGED <<answers, writer, current>>
  BY DEF Hands, MoveTheCap, TypeDelay, AddRow, TypeTerm, DropRow, ChooseLanguage, ChangeTrigger, Edit, Unhurried, store
<1>3. Shows(page.shown, page.doc) /\ page.shown.terms = page.doc.terms
  BY DEF PageInv, Linked, Shows
<1>4. CASE MoveTheCap
  <2>1. PICK c \in Caps : Schedule([Elsewhere EXCEPT !.doc.cap = c, !.shown.cap = c])
    BY <1>4 DEF MoveTheCap
  <2> DEFINE p == [Elsewhere EXCEPT !.doc.cap = c, !.shown.cap = c]
  <2>2. c \in Nat
    BY SettingsAssumption
  <2>3. p = [Elsewhere EXCEPT !.doc = [page.doc EXCEPT !.cap = c], !.shown = [page.shown EXCEPT !.cap = c]]
    BY <1>1 DEF Pages
  <2>4. p \in Pages
    BY <1>1, <2>2, <2>3, EditsAreTyped, ShownEditsAreTyped, PageFields
  <2>5. p.waits = <<>> /\ p.open /\ Shows(p.shown, p.doc)
    BY <1>1, <1>2, <1>3, <2>3 DEF Pages, Docs, Showns, Shows
  <2> HIDE DEF p
  <2>6. Linked(p)
    BY <1>2, <2>5, EditsAreLinked
  <2>7. Schedule(p)
    BY <2>1 DEF p
  <2> QED
    BY <1>2, <2>4, <2>5, <2>6, <2>7, ScheduleKeeps
<1>5. CASE AddRow
  <2> DEFINE ts == Append(page.doc.terms, Blank)
             p == [Elsewhere EXCEPT !.doc.terms = ts, !.shown.terms = ts]
  <2>1. ts \in Seq(Terms \union {Blank}) /\ HasBlank(ts)
    BY <1>1, HasTheBlank
  <2>2. page' = p /\ requests' = requests
    BY <1>5 DEF AddRow
  <2> HIDE DEF ts
  <2>3. p.waits = <<>> /\ p.open /\ Shows(p.shown, p.doc) /\ p.doc.terms = ts
    BY <1>1, <1>2, <1>3 DEF Pages, Docs, Showns, Shows
  <2> HIDE DEF p
  <2>4. Linked(p) /\ Owes(p)
    BY <1>2, <2>1, <2>3, EditsAreLinked DEF Owes
  <2> QED
    BY <1>2, <2>2, <2>3, <2>4, OwingKeeps
<1>6. CASE TypeTerm
  <2>1. PICK i \in 1..Len(page.shown.terms), t \in Terms \union {Blank} :
          LET entry == [Elsewhere EXCEPT !.shown.terms[i] = t]
              p == IF i > Len(page.doc.terms) THEN entry ELSE [entry EXCEPT !.doc.terms[i] = t]
          IN IF i > Len(page.doc.terms) \/ HasBlank(p.doc.terms)
             THEN page' = p /\ UNCHANGED requests
             ELSE Schedule(p)
    BY <1>6 DEF TypeTerm
  <2> DEFINE ts == [page.doc.terms EXCEPT ![i] = t]
             p == [Elsewhere EXCEPT !.doc = [page.doc EXCEPT !.terms = ts], !.shown = [page.shown EXCEPT !.terms = ts]]
  <2>2. i \in 1..Len(page.doc.terms) /\ ~(i > Len(page.doc.terms))
    BY <1>1, <1>3, LenProperties
  <2>3. [[Elsewhere EXCEPT !.shown.terms[i] = t] EXCEPT !.doc.terms[i] = t] = p
    BY <1>1, <1>3 DEF Pages, Docs, Showns
  <2>4. IF HasBlank(p.doc.terms) THEN page' = p /\ UNCHANGED requests ELSE Schedule(p)
    BY <2>1, <2>2, <2>3
  <2>5. ts \in Seq(Terms \union {Blank})
    BY <1>1, <2>2, RowsAreSequences
  <2> HIDE DEF ts
  <2>6. p \in Pages
    BY <1>1, <2>5, EditsAreTyped, ShownEditsAreTyped, PageFields
  <2>7. p.waits = <<>> /\ p.open /\ Shows(p.shown, p.doc)
    BY <1>1, <1>2, <1>3 DEF Pages, Docs, Showns, Shows
  <2> HIDE DEF p
  <2>8. Linked(p)
    BY <1>2, <2>7, EditsAreLinked
  <2>9. CASE HasBlank(p.doc.terms)
    BY <1>2, <2>4, <2>7, <2>8, <2>9, OwingKeeps DEF Owes
  <2>10. CASE ~HasBlank(p.doc.terms)
    BY <1>2, <2>4, <2>6, <2>7, <2>8, <2>10, ScheduleKeeps
  <2> QED
    BY <2>9, <2>10
<1>7. CASE DropRow
  <2>1. PICK i \in 1..Len(page.shown.terms) :
          LET terms == IF i > Len(page.doc.terms) THEN page.doc.terms ELSE RemoveAt(page.doc.terms, i)
          IN Save([Elsewhere EXCEPT !.doc.terms = terms, !.shown.terms = terms], FALSE)
    BY <1>7 DEF DropRow
  <2> DEFINE ts == RemoveAt(page.doc.terms, i)
             p == [Elsewhere EXCEPT !.doc = [page.doc EXCEPT !.terms = ts], !.shown = [page.shown EXCEPT !.terms = ts]]
  <2>2. i \in 1..Len(page.doc.terms) /\ ~(i > Len(page.doc.terms))
    BY <1>1, <1>3, LenProperties
  <2>3. [Elsewhere EXCEPT !.doc.terms = ts, !.shown.terms = ts] = p
    BY <1>1 DEF Pages
  <2>4. Save(p, FALSE)
    BY <2>1, <2>2, <2>3
  <2>5. ts \in Seq(Terms \union {Blank})
    BY <1>1, <2>2, RowsAreSequences
  <2> HIDE DEF ts
  <2>6. p \in Pages
    BY <1>1, <2>5, EditsAreTyped, ShownEditsAreTyped, PageFields
  <2>7. p.waits = <<>> /\ p.open /\ Shows(p.shown, p.doc)
    BY <1>1, <1>2, <1>3 DEF Pages, Docs, Showns, Shows
  <2> HIDE DEF p
  <2>8. Linked(p)
    BY <1>2, <2>7, EditsAreLinked
  <2> QED
    BY <1>2, <2>4, <2>6, <2>7, <2>8, SaveKeeps
<1>8. CASE ChooseLanguage
  <2>1. PICK l \in Languages : Save([Elsewhere EXCEPT !.doc.language = l, !.shown.language = l], TRUE)
    BY <1>8 DEF ChooseLanguage
  <2> DEFINE p == [Elsewhere EXCEPT !.doc = [page.doc EXCEPT !.language = l], !.shown = [page.shown EXCEPT !.language = l]]
  <2>2. [Elsewhere EXCEPT !.doc.language = l, !.shown.language = l] = p
    BY <1>1 DEF Pages
  <2>3. Save(p, TRUE)
    BY <2>1, <2>2
  <2>4. p \in Pages
    BY <1>1, EditsAreTyped, ShownEditsAreTyped, PageFields
  <2>5. p.waits = <<>> /\ p.open /\ Shows(p.shown, p.doc)
    BY <1>1, <1>2, <1>3 DEF Pages, Docs, Showns, Shows
  <2> HIDE DEF p
  <2>6. Linked(p)
    BY <1>2, <2>5, EditsAreLinked
  <2> QED
    BY <1>2, <2>3, <2>4, <2>5, <2>6, SaveKeeps
<1>9. CASE ChangeTrigger
  <2> DEFINE p == [Elsewhere EXCEPT !.listening = "live"]
  <2>1. page' = p /\ requests' = requests
    BY <1>9 DEF ChangeTrigger
  <2>2. /\ p.doc = page.doc /\ p.shown = page.shown /\ p.waits = <<>> /\ p.open
        /\ p.timer = page.timer /\ p.status = page.status
    BY <1>1, <1>2 DEF Pages
  <2> HIDE DEF p
  <2>3. Linked(p)
    BY <1>2, <1>3, <2>2, EditsAreLinked
  <2> QED
    BY <1>2, <2>1, <2>2, <2>3, DelayLeft
<1>10. CASE TypeDelay
  <2>1. PICK d \in Delays :
          LET entry == [page EXCEPT !.typing = TRUE, !.shown.delay = d]
          IN IF d > 0 THEN Schedule([entry EXCEPT !.doc.delay = d]) ELSE page' = entry /\ UNCHANGED requests
    BY <1>10 DEF TypeDelay
  <2> DEFINE entry == [page EXCEPT !.typing = TRUE, !.shown = [page.shown EXCEPT !.delay = d]]
             p == [entry EXCEPT !.doc = [page.doc EXCEPT !.delay = d]]
  <2>2. d \in Nat
    BY SettingsAssumption
  <2>3. [page EXCEPT !.typing = TRUE, !.shown.delay = d] = entry
    BY <1>1 DEF Pages
  <2>4. [page.shown EXCEPT !.delay = d] \in Showns /\ [page.doc EXCEPT !.delay = d] \in Docs
    BY <1>1, <2>2, EditsAreTyped, ShownEditsAreTyped
  <2>5. /\ entry \in Pages /\ entry.doc = page.doc /\ entry.waits = <<>> /\ entry.open
        /\ entry.shown = [page.shown EXCEPT !.delay = d]
        /\ entry.timer = page.timer /\ entry.status = page.status
    BY <1>1, <1>2, <2>4 DEF Pages
  <2>6. IF d > 0 THEN Schedule([entry EXCEPT !.doc.delay = d]) ELSE page' = entry /\ UNCHANGED requests
    BY <2>1, <2>3
  <2> HIDE DEF entry
  <2>7. [entry EXCEPT !.doc.delay = d] = p
    BY <2>5 DEF Pages
  <2>8. CASE d > 0
    <3>1. p \in Pages /\ p.waits = <<>> /\ p.open /\ p.doc = [page.doc EXCEPT !.delay = d] /\ p.shown = entry.shown
      BY <2>4, <2>5 DEF Pages
    <3>2. Schedule(p)
      BY <2>6, <2>7, <2>8
    <3> HIDE DEF p
    <3>3. Shows(p.shown, p.doc)
      BY <1>1, <1>3, <2>5, <3>1 DEF Docs, Showns, Shows
    <3>4. Linked(p)
      BY <1>2, <3>1, <3>3, EditsAreLinked
    <3> QED
      BY <1>2, <3>1, <3>2, <3>4, ScheduleKeeps
  <2>9. CASE ~(d > 0)
    <3>1. d = 0 /\ page' = entry /\ requests' = requests
      BY <2>2, <2>6, <2>9
    <3>2. Shows(entry.shown, entry.doc)
      BY <1>1, <1>3, <2>5, <3>1 DEF Showns, Shows
    <3>3. Linked(entry)
      BY <1>2, <2>5, <3>2, EditsAreLinked
    <3> QED
      BY <1>2, <2>5, <3>1, <3>3, DelayLeft
  <2> QED
    BY <2>8, <2>9
<1> QED
  BY <1>4, <1>5, <1>6, <1>7, <1>8, <1>9, <1>10 DEF Hands

LEMMA CapturedKeeps ==
  ASSUME "haste" \notin Disturbances, Typed, PageInv, Captured
  PROVE  PageInv'
<1>1. page \in Pages /\ page.doc \in Docs /\ page.shown \in Showns
  BY DEF Typed, Pages
<1>2. page.open /\ page.waits = <<>> /\ UNCHANGED <<answers, writer, current>>
  BY DEF Captured, Unhurried, PageInv, Linked, store
<1>3. Shows(page.shown, page.doc)
  BY DEF PageInv, Linked
<1>4. ASSUME NEW t \in Accepted, Save(Heard(t), FALSE)
      PROVE  PageInv'
  <2>1. t \in Triggers
    BY SettingsAssumption
  <2>2. /\ Heard(t) \in Pages /\ Heard(t).waits = <<>> /\ Heard(t).open
        /\ Heard(t).doc \in {page.doc, [page.doc EXCEPT !.trigger = t]}
        /\ Heard(t).shown = [page.shown EXCEPT !.trigger = Heard(t).doc.trigger]
    BY <1>1, <1>2, <2>1, HeardIsTyped
  <2>3. Shows(Heard(t).shown, Heard(t).doc)
    BY <1>1, <1>3, <2>2 DEF Docs, Showns, Shows
  <2>4. Linked(Heard(t))
    BY <1>2, <2>2, <2>3, EditsAreLinked
  <2> QED
    BY <1>2, <1>4, <2>2, <2>4, SaveKeeps
<1>5. ASSUME page' = [page EXCEPT !.listening = "no", !.status = "refused"], UNCHANGED requests
      PROVE  PageInv'
  <2> DEFINE p == [page EXCEPT !.listening = "no", !.status = "refused"]
  <2>1. p.waits = <<>> /\ p.open /\ Shows(p.shown, p.doc) /\ p.status = "refused"
    BY <1>1, <1>2, <1>3 DEF Pages
  <2>2. page' = p
    BY <1>5
  <2> HIDE DEF p
  <2>3. Linked(p)
    BY <1>2, <2>1, EditsAreLinked
  <2> QED
    BY <1>2, <1>5, <2>1, <2>2, <2>3, OwingKeeps DEF Owes
<1> QED
  BY <1>4, <1>5 DEF Captured, Heard

(* The delay's field loses the focus. *)
LEMMA LeavingKeeps ==
  ASSUME Typed, PageInv, LeaveDelay
  PROVE  PageInv'
<1>1. /\ page \in Pages /\ page' = Elsewhere /\ UNCHANGED <<requests, answers, writer, current>>
  BY DEF LeaveDelay, Typed, store
<1>2. /\ Elsewhere.doc = page.doc /\ Elsewhere.shown = page.shown /\ Elsewhere.waits = page.waits
      /\ Elsewhere.open = page.open /\ Elsewhere.timer = page.timer /\ Elsewhere.status = page.status
      /\ Elsewhere.listening = page.listening
  BY <1>1, ElsewhereIsThePage
<1>3. Linked(page)'
  BY <1>1, <1>2 DEF PageInv, Linked, Calls, Canon, Clamped, ClampCap, ClampDelay, Clamp, Shown, Shows, At
<1> QED
  BY <1>1, <1>2, <1>3 DEF PageInv, Owes, Shown

LEMMA TimerKeeps ==
  ASSUME Typed, PageInv, SaveTimer
  PROVE  PageInv'
<1> DEFINE p == [page EXCEPT !.timer = FALSE]
<1>1. page \in Pages /\ page.open /\ UNCHANGED <<answers, writer, current>>
  BY DEF SaveTimer, Typed, PageInv, Linked, store
<1>2. /\ p \in Pages /\ p.doc = page.doc /\ p.shown = page.shown /\ p.waits = page.waits /\ p.open = page.open
      /\ p.listening = page.listening
  BY <1>1 DEF Pages
<1>3. Save(p, FALSE)
  BY DEF SaveTimer
<1> HIDE DEF p
<1>4. Linked(p)
  BY <1>1, <1>2 DEF PageInv, Linked
<1> QED
  BY <1>1, <1>2, <1>3, <1>4, SaveKeeps

LEMMA HeadIsFirst ==
  ASSUME NEW S, NEW q \in Seq(S), q # <<>>
  PROVE  1 \in 1..Len(q) /\ Head(q) = q[1]
OBVIOUS

LEMMA AnsweredKeeps ==
  ASSUME Typed, PageInv, Sound(current), Answered
  PROVE  PageInv'
<1> DEFINE a == Head(answers)
           q == Stored(a)
<1>1. /\ answers # <<>> /\ answers' = Tail(answers) /\ UNCHANGED <<requests, writer, current>>
      /\ page' = IF Head(page.waits) THEN Reload(q) ELSE q
  BY DEF Answered, Stored, store
<1>2. /\ a \in Answers /\ a = answers[1] /\ 1 \in 1..Len(answers)
      /\ Len(answers') = Len(answers) - 1 /\ Len(answers) \in Nat
      /\ \A i \in 1..Len(answers') : i + 1 \in 1..Len(answers) /\ answers'[i] = answers[i + 1]
  <2>1. answers \in Seq(Answers) /\ Len(answers) \in Nat
    BY LenProperties DEF Typed
  <2>2. /\ a \in Answers /\ Len(Tail(answers)) = Len(answers) - 1
        /\ \A i \in 1..Len(Tail(answers)) : Tail(answers)[i] = answers[i + 1]
    BY <1>1, <2>1, HeadTailProperties
  <2>3. a = answers[1] /\ 1 \in 1..Len(answers)
    BY <1>1, <2>1, HeadIsFirst
  <2>4. answers' = Tail(answers)
    BY <1>1
  <2> HIDE DEF a
  <2>5. Len(answers') = Len(answers) - 1 /\ \A i \in 1..Len(answers') : answers'[i] = answers[i + 1]
    BY <2>2, <2>4
  <2>6. \A i \in 1..Len(answers') : i + 1 \in 1..Len(answers)
    BY <2>1, <2>5
  <2> QED
    BY <2>1, <2>2, <2>3, <2>5, <2>6
<1>3. page \in Pages /\ page.waits \in Seq(BOOLEAN) /\ page.doc \in Docs /\ page.shown \in Showns /\ Linked(page)
  BY DEF Typed, Pages, PageInv
<1>4. Len(requests) \in Nat /\ Len(page.waits) \in Nat /\ page.waits # <<>> /\ page.open
  <2>1. Len(requests) \in Nat /\ Len(page.waits) \in Nat /\ Len(<<>>) = 0
    BY <1>3, LenProperties DEF Typed
  <2>2. Len(page.waits) # 0
    BY <1>2, <1>3, <2>1 DEF Linked, Calls
  <2> QED
    BY <1>3, <2>1, <2>2 DEF Linked
<1>5. Len(Tail(page.waits)) = Len(page.waits) - 1
  BY <1>3, <1>4, HeadTailProperties
<1>6. a.ok \in BOOLEAN /\ a.doc \in Docs
  BY <1>2 DEF Answers
<1>7. a.ok => /\ Canon(a.doc) = Canon(page.doc) /\ Clamped(a.doc)
              /\ Canon(current) = Canon(page.doc)
  BY <1>2, <1>3 DEF Linked
<1> HIDE DEF a
<1>8. /\ q \in Pages /\ q.open /\ q.waits = Tail(page.waits) /\ q.timer = page.timer
      /\ ~a.ok => q.status = "refused" /\ q.doc = page.doc /\ q.shown = page.shown
      /\ a.ok => /\ q.doc = a.doc
                 /\ q.shown = [page.shown EXCEPT !.cap = a.doc.cap,
                                                !.delay = IF page.typing THEN @ ELSE a.doc.delay]
  BY <1>2, <1>3, <1>4, StoredIsTyped
<1> HIDE DEF q
<1>9. Shows(page.shown, page.doc)
  BY <1>3 DEF Linked
<1>10. Shows(q.shown, q.doc)
  <2>1. CASE ~a.ok
    BY <1>8, <1>9, <2>1
  <2>2. CASE a.ok
    <3>1. /\ a.doc.trigger = page.doc.trigger /\ a.doc.terms = page.doc.terms /\ a.doc.language = page.doc.language
          /\ ClampDelay(a.doc.delay) = ClampDelay(page.doc.delay)
      BY <1>7, <2>2 DEF Canon
    <3>2. /\ q.shown.trigger = page.shown.trigger /\ q.shown.terms = page.shown.terms
          /\ q.shown.language = page.shown.language /\ q.shown.cap = a.doc.cap
          /\ q.shown.delay \in {page.shown.delay, a.doc.delay}
      BY <1>3, <1>8, <2>2 DEF Showns
    <3> QED
      BY <1>8, <1>9, <2>2, <3>1, <3>2 DEF Shows
  <2> QED
    BY <1>6, <2>1, <2>2
<1>11. /\ page'.open /\ page'.waits = Tail(page.waits) /\ page'.timer = page.timer
       /\ page'.status = q.status
       /\ page'.doc = q.doc /\ Shows(page'.shown, page'.doc)
  <2>1. CASE page' = q
    BY <1>8, <1>10, <2>1
  <2>2. CASE page' = Reload(q)
    BY <1>8, <2>2, ShownShows DEF Reload, Pages
  <2> QED
    BY <1>1, <2>1, <2>2
<1>12. Canon(page'.doc) = Canon(page.doc)
  BY <1>6, <1>7, <1>8, <1>11
<1>13. Len(page'.waits) = Calls'
  <2>1. Len(page.waits) = Len(requests) + Len(answers) + (IF At("main", "idle") THEN 0 ELSE 1)
    BY <1>3 DEF Linked, Calls
  <2>2. Len(page'.waits) = Len(page.waits) - 1 /\ Len(answers') = Len(answers) - 1 /\ requests' = requests
    BY <1>1, <1>2, <1>5, <1>11
  <2>3. At("main", "idle")' = At("main", "idle")
    BY <1>1 DEF At
  <2>4. Calls' = Len(requests) + (Len(answers) - 1) + (IF At("main", "idle") THEN 0 ELSE 1)
    BY <2>2, <2>3 DEF Calls
  <2> QED
    BY <1>2, <1>4, <2>1, <2>2, <2>4
<1>14. Linked(page)'
  <2>1. \A i \in 1..Len(answers') : answers'[i].ok =>
          /\ Canon(answers'[i].doc) = Canon(page'.doc) /\ Clamped(answers'[i].doc)
          /\ Canon(current) = Canon(page'.doc)
    BY <1>2, <1>3, <1>12 DEF Linked
  <2>2. \A i \in 1..Len(requests') : Canon(requests'[i]) = Canon(page'.doc)
    BY <1>1, <1>3, <1>12 DEF Linked
  <2>3. ~At("main", "idle")' => Canon(current) = Canon(page'.doc)
    BY <1>1, <1>3, <1>12 DEF Linked, At
  <2>4. current' = current /\ page'.open /\ Shows(page'.shown, page'.doc)
    BY <1>1, <1>11
  <2> QED
    BY <1>13, <2>1, <2>2, <2>3, <2>4 DEF Linked, Canon, Clamped, ClampCap, ClampDelay, Clamp, Shown, Shows
<1>15. Owes(page)' \/ Shown(page'.doc) = Shown(current)
  <2>1. CASE ~a.ok
    BY <1>8, <1>11, <2>1 DEF Owes
  <2>2. CASE a.ok
    BY <1>7, <1>8, <1>11, <2>2, ShownOfCanon, SoundIsClamped
  <2> QED
    BY <1>6, <2>1, <2>2
<1> QED
  BY <1>1, <1>14, <1>15 DEF PageInv, Shown

LEMMA BootKeeps ==
  ASSUME Typed, PageInv, Boot
  PROVE  PageInv'
<1> DEFINE p == [Closed EXCEPT !.open = TRUE, !.doc = current, !.shown = Shown(current)]
<1>1. page.waits = <<>> /\ page' = p /\ UNCHANGED <<requests, answers, writer, current>>
  BY DEF Boot, PageInv, Linked, store
<1>2. p.waits = <<>> /\ p.open /\ p.doc = current /\ p.shown = Shown(current)
  BY DEF Closed
<1> HIDE DEF p
<1>3. Linked(p)
  BY <1>1, <1>2, EditsAreLinked, ShownShows
<1>4. Linked(page)'
  BY <1>1, <1>3 DEF Linked, Calls, Canon, Clamped, ClampCap, ClampDelay, Clamp, Shown, Shows, At
<1> QED
  BY <1>1, <1>2, <1>4 DEF PageInv, Shown

AllClosed == page = Closed /\ requests = <<>> /\ answers = <<>> /\ \A w \in Writers : writer[w] = Idle

LEMMA ClosedIsLinked ==
  AllClosed => PageInv /\ CardInv
<1> SUFFICES ASSUME AllClosed PROVE PageInv /\ CardInv
  OBVIOUS
<1>1. /\ At("main", "idle") /\ ~At("card", "got") /\ Len(<<>>) = 0
      /\ page.waits = <<>> /\ ~page.open /\ ~page.timer /\ page.listening = "no"
      /\ Shows(page.shown, page.doc)
  BY EmptySeq, ShownShows DEF AllClosed, Idle, Writers, At, Closed
<1> QED
  BY <1>1 DEF AllClosed, PageInv, Linked, Calls, CardInv

LEMMA Appended ==
  ASSUME answers \in Seq(Answers), NEW a \in Answers, answers' = Append(answers, a)
  PROVE  /\ Len(answers') = Len(answers) + 1 /\ Len(answers) \in Nat
         /\ \A i \in 1..Len(answers') : answers'[i] = a \/ (i \in 1..Len(answers) /\ answers'[i] = answers[i])
<1>1. /\ Len(answers') = Len(answers) + 1 /\ Len(answers) \in Nat
      /\ \A i \in 1..Len(answers) : answers'[i] = answers[i]
      /\ answers'[Len(answers) + 1] = a
  BY AppendProperties, LenProperties
<1>2. \A i \in 1..Len(answers') : i \in 1..Len(answers) \/ i = Len(answers) + 1
  BY <1>1
<1> QED
  BY <1>1, <1>2

LEMMA WritesKeepPage ==
  ASSUME StoredInv, PageInv, CardInv, NEW w \in Writers, Write(w)
  PROVE  PageInv' /\ CardInv'
<1>1. FileInv /\ StoreInv /\ Typed /\ writer[w].at # "idle" /\ Writing(w)
      /\ current' = current /\ page' = page /\ requests' = requests
  BY DEF StoredInv, Write, Open, Fill, Rename, WriteFails, Notify, At, Writing, window
<1>2. CASE Notify(w)
  <2>1. writer'[w] = Idle /\ \A v \in Writers \ {w} : writer'[v] = writer[v]
    BY <1>1, <1>2 DEF Notify, Return, FileInv
  <2>2. CardInv'
    BY <1>1, <2>1 DEF CardInv, Idle, At, Writers
  <2>3. CASE w = "card"
    <3>1. answers' = answers /\ writer'["main"] = writer["main"]
      BY <1>2, <2>1, <2>3 DEF Notify, Return, Writers
    <3> QED
      BY <1>1, <2>2, <3>1, PageUntouched DEF At
  <2>4. CASE w = "main"
    <3> DEFINE a == [ok |-> At(w, "saved"), doc |-> writer[w].doc]
    <3>1. answers' = Append(answers, a)
      BY <1>2, <2>4 DEF Notify, Return
    <3>2. writer[w].doc = current /\ Sound(current) /\ current \in Docs
      BY <1>1 DEF StoreInv, Writes, Sound
    <3>3. a \in Answers /\ a.doc = current
      <4>1. At(w, "saved") \in BOOLEAN
        BY DEF At
      <4> QED
        BY <3>2, <4>1 DEF Answers
    <3> HIDE DEF a
    <3>4. /\ Len(answers') = Len(answers) + 1 /\ Len(answers) \in Nat
          /\ \A i \in 1..Len(answers') : answers'[i] = a \/ (i \in 1..Len(answers) /\ answers'[i] = answers[i])
      BY <1>1, <3>1, <3>3, Appended DEF Typed
    <3>5. ~At("main", "idle") /\ At("main", "idle")' /\ Len(requests) \in Nat
      BY <1>1, <2>1, <2>4, LenProperties DEF At, Idle, Typed
    <3>6. Canon(current) = Canon(page.doc) /\ Clamped(current)
      BY <3>2, <3>5, SoundIsClamped DEF PageInv, Linked
    <3>7. \A i \in 1..Len(answers') : answers'[i].ok =>
            /\ Canon(answers'[i].doc) = Canon(page.doc) /\ Clamped(answers'[i].doc)
            /\ Canon(current) = Canon(page.doc)
      BY <3>3, <3>4, <3>6 DEF PageInv, Linked
    <3>8. Calls' = Calls
      BY <1>1, <3>4, <3>5 DEF Calls
    <3>9. Linked(page)'
      BY <1>1, <3>5, <3>7, <3>8 DEF PageInv, Linked, Canon, Clamped, ClampCap, ClampDelay, Clamp, Shown, Shows
    <3> QED
      BY <1>1, <2>2, <3>9 DEF PageInv, Owes
  <2> QED
    BY <2>3, <2>4 DEF Writers
<1>3. CASE ~Notify(w)
  <2>1. /\ answers' = answers
        /\ \E p \in {"fill", "rename", "saved", "unsaved"} : Goto(w, p)
    BY <1>3 DEF Write, Open, Fill, Rename, WriteFails, window
  <2>2. PICK p \in {"fill", "rename", "saved", "unsaved"} : Goto(w, p)
    BY <2>1
  <2>3. writer'[w].at = p /\ \A v \in Writers \ {w} : writer'[v] = writer[v]
    BY <1>1, <2>2 DEF FileInv, Goto
  <2>4. At("main", "idle")' = At("main", "idle")
    BY <1>1, <2>3 DEF At, Writers
  <2>5. CardInv'
    BY <1>1, <2>3 DEF CardInv, At, Writers
  <2> QED
    BY <1>1, <2>1, <2>4, <2>5, PageUntouched
<1> QED
  BY <1>2, <1>3

LEMMA SetSettingsKeepsPage ==
  ASSUME "overlap" \notin Disturbances, StoredInv, PageInv, SetSettings
  PROVE  PageInv' /\ CardInv'
<1> DEFINE d == Head(requests)
<1>1. /\ FileInv /\ StoreInv /\ Sound(current) /\ requests \in Seq(Docs) /\ answers \in Seq(Answers)
      /\ requests # <<>> /\ requests' = Tail(requests) /\ page' = page
      /\ At("main", "idle") /\ At("card", "idle")
  BY DEF StoredInv, StoreInv, Typed, SetSettings
<1>2. /\ d \in Docs /\ d = requests[1] /\ 1 \in 1..Len(requests)
      /\ Len(requests') = Len(requests) - 1 /\ Len(requests) \in Nat /\ Len(answers) \in Nat
      /\ \A i \in 1..Len(requests') : requests'[i] = requests[i + 1]
  BY <1>1, HeadTailProperties, HeadIsFirst, LenProperties
<1>3. Canon(d) = Canon(page.doc)
  BY <1>2 DEF PageInv, Linked
<1>4. \A i \in 1..Len(requests') : Canon(requests'[i]) = Canon(page.doc)
  <2>1. \A i \in 1..Len(requests') : i + 1 \in 1..Len(requests)
    BY <1>2
  <2> QED
    BY <1>2, <2>1 DEF PageInv, Linked
<1>5. page.waits # <<>>
  <2>1. Len(page.waits) # 0
    BY <1>1, <1>2 DEF PageInv, Linked, Calls
  <2> QED
    BY <2>1
<1>6. (MayBeSet(d) /\ Set("main", d)) \/ (Return("main", FALSE, d) /\ current' = current)
  BY DEF SetSettings
<1> HIDE DEF d
<1>7. ASSUME NEW a \in Answers, answers' = Append(answers, a), writer' = [writer EXCEPT !["main"] = Idle],
             current' = current,
             a.ok => /\ Canon(a.doc) = Canon(page.doc) /\ Clamped(a.doc)
                     /\ Canon(current) = Canon(page.doc)
      PROVE  PageInv' /\ CardInv'
  <2>1. writer'["main"] = Idle /\ writer'["card"] = writer["card"]
    BY <1>1, <1>7 DEF FileInv, Writers
  <2>2. /\ Len(answers') = Len(answers) + 1
        /\ \A i \in 1..Len(answers') : answers'[i] = a \/ (i \in 1..Len(answers) /\ answers'[i] = answers[i])
    BY <1>1, <1>7, Appended
  <2>3. At("main", "idle")' /\ ~At("card", "got")'
    BY <1>1, <2>1 DEF At, Idle
  <2>4. \A i \in 1..Len(answers') : answers'[i].ok =>
          /\ Canon(answers'[i].doc) = Canon(page.doc) /\ Clamped(answers'[i].doc)
          /\ Canon(current) = Canon(page.doc)
    BY <1>7, <2>2 DEF PageInv, Linked
  <2>5. Calls' = Calls
    BY <1>1, <1>2, <2>2, <2>3 DEF Calls
  <2>6. Linked(page)'
    <3>1. Len(page.waits) = Calls /\ (~page.open => page.waits = <<>> /\ ~page.timer /\ page.listening = "no")
          /\ Shows(page.shown, page.doc)
      BY DEF PageInv, Linked
    <3>2. Shows(page'.shown, page'.doc)
      BY <1>1, <3>1
    <3>3. /\ Len(page'.waits) = Calls'
          /\ ~page'.open => page'.waits = <<>> /\ ~page'.timer /\ page'.listening = "no"
      BY <1>1, <2>5, <3>1
    <3>4. \A i \in 1..Len(requests') : Canon(requests'[i]) = Canon(page'.doc)
      BY <1>1, <1>4 DEF Canon
    <3>5. \A i \in 1..Len(answers') : answers'[i].ok =>
               /\ Canon(answers'[i].doc) = Canon(page'.doc) /\ Clamped(answers'[i].doc)
               /\ Canon(current') = Canon(page'.doc)
      BY <1>1, <1>7, <2>4 DEF Canon, Clamped, ClampCap, ClampDelay, Clamp
    <3> QED
      BY <2>3, <3>2, <3>3, <3>4, <3>5 DEF Linked
  <2> QED
    BY <1>1, <1>5, <2>3, <2>6 DEF PageInv, CardInv
<1>8. CASE Return("main", FALSE, d) /\ current' = current
  <2>1. [ok |-> FALSE, doc |-> d] \in Answers
    BY <1>2 DEF Answers
  <2> QED
    BY <1>7, <1>8, <2>1 DEF Return
<1>9. CASE MayBeSet(d) /\ Set("main", d)
  <2>1. /\ Canon(Validated(d)) = Canon(page.doc) /\ Validated(d) \in Docs
        /\ Clamped(Validated(d))
    BY <1>2, <1>3, <1>9, MayBeSetIsStored, ValidatedIsSound, SoundIsClamped DEF Sound
  <2>2. CASE Validated(d) = current
    <3>1. [ok |-> TRUE, doc |-> Validated(d)] \in Answers
      BY <2>1 DEF Answers
    <3>2. /\ answers' = Append(answers, [ok |-> TRUE, doc |-> Validated(d)])
          /\ writer' = [writer EXCEPT !["main"] = Idle] /\ current' = current
      BY <1>9, <2>2 DEF Set, Return
    <3> QED
      BY <1>7, <2>1, <2>2, <3>1, <3>2
  <2>3. CASE Validated(d) # current
    <3>1. /\ current' = Validated(d) /\ answers' = answers
          /\ writer' = [writer EXCEPT !["main"] = [at |-> "open", doc |-> Validated(d),
                                                     language |-> Validated(d).language # current.language]]
      BY <1>9, <2>3 DEF Set
    <3>2. writer'["main"].at = "open" /\ writer'["card"] = writer["card"]
      BY <1>1, <3>1 DEF FileInv, Writers
    <3>3. ~At("main", "idle")' /\ ~At("card", "got")'
      BY <1>1, <3>2 DEF At
    <3>4. Calls' = Calls
      BY <1>1, <1>2, <3>1, <3>3 DEF Calls
    <3>5. Canon(current') = Canon(page.doc)
      BY <2>1, <3>1
    <3>6. Linked(page)'
      BY <1>1, <1>4, <3>1, <3>3, <3>4, <3>5 DEF PageInv, Linked, Canon, Clamped, ClampCap, ClampDelay, Clamp, Shown, Shows
    <3> QED
      BY <1>1, <1>5, <3>3, <3>6 DEF PageInv, CardInv
  <2> QED
    BY <2>2, <2>3
<1> QED
  BY <1>6, <1>8, <1>9

LEMMA CardKeepsPage ==
  ASSUME "overlap" \notin Disturbances, StoredInv, PageInv, CardInv, PersistGet \/ PersistSet
  PROVE  PageInv' /\ CardInv'
<1>1. FileInv /\ StoreInv /\ Typed /\ Sound(current) /\ UNCHANGED <<page, requests>>
  BY DEF StoredInv, StoreInv, PersistGet, PersistSet, window
<1>2. CASE PersistGet
  <2>1. UNCHANGED <<current, answers>> /\ At("card", "idle")
    BY <1>2 DEF PersistGet, window
  <2>2. CASE UNCHANGED writer
    <3>1. CardInv'
      BY <2>1, <2>2 DEF CardInv, At
    <3> QED
      BY <1>1, <2>1, <2>2, <3>1, PageUntouched DEF At
  <2>3. CASE writer' # writer
    <3> DEFINE d == [current EXCEPT !.place = dragged]
    <3>1. writer' = [writer EXCEPT !["card"] = [at |-> "got", language |-> FALSE, doc |-> d]]
      BY <1>2, <2>3 DEF PersistGet
    <3>2. Shown(d) = Shown(current)
      BY <1>1 DEF Sound, Docs, Shown
    <3> HIDE DEF d
    <3>3. writer'["card"].doc = d /\ writer'["main"] = writer["main"]
      BY <1>1, <3>1 DEF FileInv, Writers
    <3>4. CardInv'
      BY <2>1, <3>2, <3>3 DEF CardInv, Shown
    <3> QED
      BY <1>1, <2>1, <3>3, <3>4, PageUntouched DEF At
  <2> QED
    BY <2>2, <2>3
<1>3. CASE PersistSet
  <2> DEFINE d == writer["card"].doc
  <2>1. d \in Docs /\ Shown(d) = Shown(current) /\ Set("card", d)
    BY <1>1, <1>3 DEF PersistSet, StoreInv, Writes, Writers, CardInv
  <2>2. Shown(Validated(d)) = Shown(current)
    BY <1>1, <2>1, CardStoresTheSame
  <2>3. /\ answers' = answers /\ Shown(current') = Shown(current)
        /\ writer'["main"] = writer["main"] /\ writer'["card"].at \in {"idle", "open"}
    BY <1>1, <2>1, <2>2 DEF Set, Return, FileInv, Writers, Idle
  <2>4. CardInv'
    BY <2>3 DEF CardInv, At
  <2> QED
    BY <1>1, <2>3, <2>4, PageUntouched DEF At, Shown
<1> QED
  BY <1>2, <1>3

LEMMA EveryStepShows ==
  ASSUME {"overlap", "haste"} \cap Disturbances = {}, ShownInv, [Next]_vars
  PROVE  ShownInv'
<1>1. StoredInv' /\ StoredInv /\ PageInv /\ CardInv
  BY EveryStepStores DEF ShownInv
<1>2. Typed /\ Sound(current)
  BY <1>1 DEF StoredInv, StoreInv
<1>3. CASE UNCHANGED vars \/ Remember
  <2>1. UNCHANGED <<page, requests, answers, writer, current>>
    BY <1>3 DEF vars, store, window, Remember
  <2>2. CardInv'
    BY <1>1, <2>1 DEF CardInv, At, Shown
  <2> QED
    BY <1>1, <2>1, <2>2, PageUntouched DEF ShownInv, At, Shown
<1>4. CASE Boot \/ Hands \/ LeaveDelay \/ Captured \/ SaveTimer \/ Answered
  <2>1. UNCHANGED <<writer, current>>
    BY <1>4 DEF Boot, Hands, LeaveDelay, Captured, SaveTimer, Answered, MoveTheCap, TypeDelay, AddRow, TypeTerm, DropRow,
                ChooseLanguage, ChangeTrigger, Edit, store
  <2>2. CardInv'
    BY <1>1, <2>1 DEF CardInv, At, Shown
  <2>3. PageInv'
    BY <1>1, <1>2, <1>4, BootKeeps, HandsKeep, LeavingKeeps, CapturedKeeps, TimerKeeps, AnsweredKeeps
  <2> QED
    BY <1>1, <2>2, <2>3 DEF ShownInv
<1>5. CASE (\E w \in Writers : Write(w)) \/ SetSettings \/ PersistGet \/ PersistSet
  BY <1>1, <1>5, WritesKeepPage, SetSettingsKeepsPage, CardKeepsPage DEF ShownInv
<1>6. CASE Restart
  <2>1. AllClosed'
    BY <1>6 DEF AllClosed, Restart, Writers, Closed, Idle
  <2>2. PageInv' /\ CardInv'
    BY <2>1, ClosedIsLinked, PTL
  <2> QED
    BY <1>1, <2>2 DEF ShownInv
<1> QED
  BY <1>3, <1>4, <1>5, <1>6 DEF Next, Writers

(* A settings window with nothing left to save and no error to show shows  *)
(* what is in force, whoever else has changed it, but for the delay: its   *)
(* field says one that was clamped to it, or none (settings.js:265-268,    *)
(* 387-393).  The user waits for one answer before the next edit, and two  *)
(* threads do not write at once.                                           *)
THEOREM TheWindowShowsWhatIsInForce ==
  ASSUME {"overlap", "haste"} \cap Disturbances = {}
  PROVE  Spec => []ShownIsInForce
<1>1. Init => ShownInv
  <2> SUFFICES ASSUME Init PROVE ShownInv
    OBVIOUS
  <2>1. AllClosed
    BY DEF AllClosed, Init, Writers
  <2> QED
    BY <2>1, ClosedIsLinked, StoredInvHoldsAtFirst DEF ShownInv
<1>2. ShownInv /\ [Next]_vars => ShownInv'
  BY EveryStepShows
<1>3. ShownInv => ShownIsInForce
  <2> SUFFICES ASSUME ShownInv, AllIsSaid PROVE Shows(page.shown, current)
    BY DEF ShownIsInForce
  <2>1. Shows(page.shown, page.doc) /\ Shown(page.doc) = Shown(current)
    BY DEF ShownInv, PageInv, Linked, Owes, AtRest, AllIsSaid
  <2> QED
    BY <2>1 DEF Shows, Shown
<1> QED
  BY <1>1, <1>2, <1>3, PTL DEF Spec

-----------------------------------------------------------------------------
(* PanelWindow.                                                            *)
ShowAndHide == {"idle", "look", "place", "map", "mark", "arm", "disarm", "persist", "unmark", "unmap"}

InStep    == on_screen = (window_state = "up") /\ keys = on_screen
Hidden    == ~on_screen /\ ~keys
Finished  == InStep /\ on_screen = (mode = "open")

(* What is true when a thread stands before a step of show or of hide. *)
Before(step) ==
  /\ step \in {"look", "place", "map", "mark", "arm"} => mode = "open"
  /\ step \in {"disarm", "persist", "unmark", "unmap"} => mode = "closed"
  /\ step \in {"look", "disarm"} => InStep
  /\ step \in {"place", "map"} => Hidden /\ window_state # "up"
  /\ step = "mark" => Hidden /\ window_state = "up"
  /\ step = "arm" => on_screen /\ ~keys /\ window_state = "up"
  /\ step \in {"persist", "unmark"} => ~keys /\ on_screen = (window_state = "up")
  /\ step = "unmap" => Hidden

KeysInv ==
  /\ at \in [Callers -> ShowAndHide]
  /\ on_screen \in BOOLEAN /\ keys \in BOOLEAN
  /\ \A t, u \in Callers : t # u => at[t] = "idle" \/ at[u] = "idle"
  /\ W!Idle => Finished
  /\ \A t \in Callers : at[t] # "idle" => Before(at[t])

-----------------------------------------------------------------------------
(* A thread that goes on, or the one that begins, is the only one within a *)
(* method.                                                                 *)
LEMMA OneThread ==
  ASSUME at \in [Callers -> ShowAndHide], NEW t \in Callers, NEW p \in ShowAndHide, W!Goto(t, p),
         \A u \in Callers \ {t} : at[u] = "idle",
         on_screen' \in BOOLEAN, keys' \in BOOLEAN,
         p = "idle" => Finished', p # "idle" => Before(p)'
  PROVE  KeysInv'
<1>1. at' \in [Callers -> ShowAndHide] /\ at'[t] = p /\ \A u \in Callers \ {t} : at'[u] = "idle"
  BY DEF W!Goto
<1>2. W!Idle' => p = "idle"
  BY <1>1 DEF W!Idle
<1>3. \A u \in Callers : at'[u] # "idle" => u = t
  BY <1>1
<1>4. \A u \in Callers : at'[u] # "idle" => Before(at[u])'
  BY <1>1, <1>3 DEF Before
<1> QED
  BY <1>1, <1>2, <1>3, <1>4 DEF KeysInv

LEMMA TheOthersAreIdle ==
  ASSUME KeysInv, NEW t \in Callers, at[t] # "idle"
  PROVE  Before(at[t]) /\ \A u \in Callers \ {t} : at[u] = "idle"
BY DEF KeysInv

LEMMA OpenSteps ==
  ASSUME ~Overlap, KeysInv, NEW t \in Callers, W!Open(t) \/ W!Close(t)
  PROVE  KeysInv'
<1>1. W!Idle /\ Finished
  BY DEF W!Open, W!Close, KeysInv
<1>2. UNCHANGED <<on_screen, window_state, keys>>
  BY DEF W!Open, W!Close, W!desktop
<1>3. CASE W!Open(t)
  BY <1>1, <1>2, <1>3, OneThread DEF W!Open, W!Idle, Finished, InStep, Before, KeysInv, ShowAndHide
<1>4. CASE W!Close(t)
  BY <1>1, <1>2, <1>4, OneThread DEF W!Close, W!Idle, Finished, InStep, Before, KeysInv, ShowAndHide
<1> QED
  BY <1>3, <1>4

LEMMA ShowSteps ==
  ASSUME KeysInv, NEW t \in Callers, W!Show(t)
  PROVE  KeysInv'
<1>1. at[t] # "idle"
  BY DEF W!Show, W!Look, W!Place, W!Map, W!Mark, W!Arm
<1>2. Before(at[t]) /\ \A u \in Callers \ {t} : at[u] = "idle"
  BY <1>1, TheOthersAreIdle
<1>3. CASE W!Look(t)
  <2>1. PICK p \in {"idle", "place", "map"} :
          W!Goto(t, p) /\ (p = "idle") = on_screen
    BY <1>3 DEF W!Look, KeysInv
  <2>2. UNCHANGED <<mode, on_screen, window_state, keys>>
    BY <1>3 DEF W!Look, W!held, W!desktop
  <2> QED
    BY <1>2, <1>3, <2>1, <2>2, OneThread DEF W!Look, KeysInv, Before, InStep, Hidden, Finished, ShowAndHide
<1>4. CASE W!Place(t)
  BY <1>2, <1>4, OneThread DEF W!Place, KeysInv, Before, Hidden, ShowAndHide
<1>5. CASE W!Map(t)
  <2>1. mode' = mode /\ on_screen' = on_screen
    BY <1>5 DEF W!Map, W!held
  <2> QED
    BY <1>2, <1>5, <2>1, OneThread DEF W!Map, KeysInv, Before, Hidden, ShowAndHide
<1>6. CASE W!Mark(t)
  <2>1. UNCHANGED <<window_state, keys>>
    BY <1>6 DEF W!Mark, W!desktop
  <2> QED
    BY <1>2, <1>6, <2>1, OneThread DEF W!Mark, KeysInv, Before, Hidden, ShowAndHide
<1>7. CASE W!Arm(t)
  <2>1. mode' = mode /\ on_screen' = on_screen
    BY <1>7 DEF W!Arm, W!held
  <2> QED
    BY <1>2, <1>7, <2>1, OneThread DEF W!Arm, KeysInv, Before, Finished, InStep, ShowAndHide
<1> QED
  BY <1>3, <1>4, <1>5, <1>6, <1>7 DEF W!Show

LEMMA HideSteps ==
  ASSUME KeysInv, NEW t \in Callers, W!Hide(t)
  PROVE  KeysInv'
<1>1. at[t] # "idle"
  BY DEF W!Hide, W!Disarm, W!Persist, W!Unmark, W!Unmap
<1>2. Before(at[t]) /\ \A u \in Callers \ {t} : at[u] = "idle"
  BY <1>1, TheOthersAreIdle
<1>3. CASE W!Disarm(t)
  <2>1. mode' = mode /\ on_screen' = on_screen
    BY <1>3 DEF W!Disarm, W!held
  <2> QED
    BY <1>2, <1>3, <2>1, OneThread DEF W!Disarm, KeysInv, Before, InStep, ShowAndHide
<1>4. CASE W!Persist(t)
  <2>1. UNCHANGED <<window_state, keys>>
    BY <1>4 DEF W!Persist, W!desktop
  <2> QED
    BY <1>2, <1>4, <2>1, OneThread DEF W!Persist, KeysInv, Before, ShowAndHide
<1>5. CASE W!Unmark(t)
  <2>1. UNCHANGED <<window_state, keys>>
    BY <1>5 DEF W!Unmark, W!desktop
  <2> QED
    BY <1>2, <1>5, <2>1, OneThread DEF W!Unmark, KeysInv, Before, Hidden, ShowAndHide
<1>6. CASE W!Unmap(t)
  <2>1. mode' = mode /\ on_screen' = on_screen
    BY <1>6 DEF W!Unmap, W!held
  <2> QED
    BY <1>2, <1>6, <2>1, OneThread DEF W!Unmap, KeysInv, Before, Finished, InStep, Hidden, ShowAndHide
<1> QED
  BY <1>3, <1>4, <1>5, <1>6 DEF W!Hide

LEMMA KeysInvHoldsAtFirst ==
  ASSUME W!Init
  PROVE  KeysInv
BY DEF W!Init, KeysInv, ShowAndHide, W!Idle, Finished, InStep

LEMMA EveryStepOfTheWindow ==
  ASSUME ~Overlap, KeysInv, [W!Next]_(W!vars)
  PROVE  KeysInv'
<1>1. CASE UNCHANGED W!vars \/ W!Drag \/ W!Remember
  <2>1. UNCHANGED <<at, mode, on_screen, window_state, keys>>
    BY <1>1 DEF W!vars, W!Drag, W!Remember, W!held, W!desktop
  <2> QED
    BY <2>1 DEF KeysInv, W!Idle, Finished, InStep, Hidden, Before
<1> QED
  BY <1>1, OpenSteps, ShowSteps, HideSteps DEF W!Next

-----------------------------------------------------------------------------
(* Putting one more behind a queue, and taking the first from it.          *)
LEMMA Behind ==
  ASSUME NEW S, NEW q \in Seq(S), NEW e \in S
  PROVE  /\ Append(q, e) \in Seq(S) /\ Len(Append(q, e)) = Len(q) + 1 /\ Len(q) \in Nat
         /\ \A i \in 1..Len(q) : i \in 1..Len(Append(q, e)) /\ Append(q, e)[i] = q[i]
         /\ Len(q) + 1 \in 1..Len(Append(q, e)) /\ Append(q, e)[Len(q) + 1] = e
         /\ \A i \in 1..Len(Append(q, e)) : i \in 1..Len(q) \/ i = Len(q) + 1
<1>1. /\ Append(q, e) \in Seq(S) /\ Len(Append(q, e)) = Len(q) + 1 /\ Len(q) \in Nat
      /\ \A i \in 1..Len(q) : Append(q, e)[i] = q[i]
      /\ Append(q, e)[Len(q) + 1] = e
  BY AppendProperties, LenProperties
<1> QED
  BY <1>1

LEMMA FromTheFront ==
  ASSUME NEW S, NEW q \in Seq(S), q # <<>>
  PROVE  /\ Tail(q) \in Seq(S) /\ Head(q) \in S /\ 1 \in 1..Len(q) /\ Head(q) = q[1]
         /\ Len(Tail(q)) = Len(q) - 1
         /\ \A i \in 1..Len(Tail(q)) : i + 1 \in 1..Len(q) /\ Tail(q)[i] = q[i + 1]
         /\ \A i \in 1..Len(q) : i # 1 => i - 1 \in 1..Len(Tail(q)) /\ Tail(q)[i - 1] = q[i]
<1>1. /\ Tail(q) \in Seq(S) /\ Head(q) \in S /\ Len(q) \in Nat \ {0} /\ Len(Tail(q)) = Len(q) - 1
      /\ Head(q) = q[1]
      /\ \A i \in 1..Len(q) - 1 : Tail(q)[i] = q[i + 1]
  BY HeadTailProperties, LenProperties, EmptySeq
<1>2. \A i \in 1..Len(q) : i # 1 => i - 1 \in 1..Len(q) - 1 /\ i - 1 + 1 = i
  BY <1>1
<1> QED
  BY <1>1, <1>2

-----------------------------------------------------------------------------
(* Where the window can be, and what a move can say.                       *)
Ways == Monitors \X (Spots \union {W!Top, W!Edge})

(* A spot counted from the monitor the card was placed on is one the user  *)
(* chose.                                                                  *)
Chosen(p) == monitor \in Monitors => <<monitor, IF p[1] = monitor THEN p[2] ELSE W!Edge>> \in chosen

Spotted ==
  /\ aimed \in Monitors /\ monitor \in Monitors \union {"none"}
  /\ remembered \in [Monitors -> Spots \union {W!Top, W!Edge, "none"}]
  /\ moves \in Seq(Ways) /\ card_dragged \in Ways \union {W!NoPlace}

(* While no card was placed with moves of the last one still waiting, the  *)
(* moves that wait are the user's of this card, and the application's own. *)
Meant == ~belated =>
  /\ \A i \in 1..Len(moves) : moves[i] # placed => Chosen(moves[i])
  /\ card_dragged # W!NoPlace => Chosen(card_dragged)
  /\ \A m \in Monitors : remembered[m] # "none" => <<m, remembered[m]>> \in chosen

(* From the moment the card is placed until its place is written down.     *)
IsPlaced == \/ \E t \in Callers : at[t] \in {"map", "mark"}
            \/ on_screen /\ \A t \in Callers : at[t] # "unmark"

Left(m) == <<m, IF remembered[m] = "none" THEN W!Top ELSE remembered[m]>>

(* Where nothing is to be remembered, the last move brought the window     *)
(* where it is, or it is where it was placed.                              *)
Where == system = "windows" /\ IsPlaced =>
  /\ placed = Left(monitor)
  /\ \/ card_dragged # W!NoPlace \/ at_place = placed
     \/ moves # <<>> /\ moves[Len(moves)] = at_place

PlaceInv == KeysInv /\ Spotted /\ Meant /\ Where

(* A step that moves no window and writes no place down. *)
LEMMA PlacesUntouched ==
  ASSUME Spotted, Meant, UNCHANGED <<monitor, card_dragged, placed, remembered, moves, chosen, belated>>,
         aimed' \in Monitors
  PROVE  Spotted' /\ Meant'
BY DEF Spotted, Meant, Chosen

LEMMA WhereUntouched ==
  ASSUME Where, IsPlaced' => IsPlaced,
         UNCHANGED <<system, monitor, card_dragged, placed, at_place, remembered, moves>>
  PROVE  Where'
BY DEF Where, Left

LEMMA MethodsBegin ==
  ASSUME PlaceInv, NEW t \in Callers, W!Open(t) \/ W!Close(t)
  PROVE  Spotted' /\ Meant' /\ Where'
<1>1. UNCHANGED <<system, on_screen, monitor, card_dragged, placed, at_place, remembered, moves, chosen, belated>>
  BY DEF W!Open, W!Close, W!desktop
<1>2. aimed' \in Monitors
  BY DEF W!Open, W!Close, PlaceInv, Spotted
<1>3. \E p \in {"look", "disarm"} : W!Goto(t, p)
  BY DEF W!Open, W!Close
<1>4. IsPlaced' => IsPlaced
  BY <1>1, <1>3 DEF IsPlaced, W!Goto, PlaceInv, KeysInv, W!Open, W!Close
<1> QED
  BY <1>1, <1>2, <1>4, PlacesUntouched, WhereUntouched DEF PlaceInv

LEMMA WindowPlaced ==
  ASSUME PlaceInv, NEW t \in Callers, W!Place(t), {"none", "nowhere"} \cap Monitors = {}
  PROVE  Spotted' /\ Meant' /\ Where'
<1>1. /\ moves' = Append(moves, W!Position) /\ at_place' = W!Position /\ placed' = W!Position
      /\ belated' = (belated \/ moves # <<>>)
      /\ monitor' = aimed /\ card_dragged' = W!NoPlace /\ UNCHANGED <<aimed, remembered, chosen>>
  BY DEF W!Place
<1>2. W!Position = Left(aimed) /\ W!Position \in Ways
  BY DEF W!Position, Left, Ways, PlaceInv, Spotted
<1>3. Spotted'
  BY <1>1, <1>2, Behind DEF PlaceInv, Spotted
<1>4. Meant'
  <2> SUFFICES ASSUME ~belated' PROVE Meant'
    BY DEF Meant
  <2>1. ~belated /\ moves = <<>>
    BY <1>1
  <2>2. Len(moves') = 1 /\ moves'[1] = placed'
    BY <1>1, <2>1
  <2>3. \A i \in 1..Len(moves') : moves'[i] = placed'
    BY <2>2
  <2> QED
    BY <1>1, <2>1, <2>3 DEF PlaceInv, Meant
<1>5. placed' = Left(monitor)' /\ at_place' = placed'
  BY <1>1, <1>2 DEF Left
<1> QED
  BY <1>3, <1>4, <1>5 DEF Where

LEMMA ShowKeepsPlaces ==
  ASSUME PlaceInv, NEW t \in Callers, W!Show(t), {"none", "nowhere"} \cap Monitors = {}
  PROVE  Spotted' /\ Meant' /\ Where'
<1>1. CASE W!Place(t)
  BY <1>1, WindowPlaced
<1>2. CASE ~W!Place(t)
  <2>1. UNCHANGED <<system, monitor, card_dragged, placed, at_place, remembered, moves, chosen, belated, aimed>>
    BY <1>2 DEF W!Show, W!Look, W!Map, W!Mark, W!Arm, W!held, W!desktop
  <2>2. at \in [Callers -> ShowAndHide] /\ Before(at[t]) /\ \A u \in Callers \ {t} : at[u] = "idle"
    BY <1>2, TheOthersAreIdle DEF PlaceInv, KeysInv, W!Show, W!Look, W!Map, W!Mark, W!Arm
  <2>3. system = "windows" /\ IsPlaced' => IsPlaced
    <3>1. CASE W!Look(t)
      BY <2>2, <3>1 DEF W!Look, W!Goto, IsPlaced, W!Minimizes, W!held
    <3>2. CASE W!Map(t) \/ W!Mark(t)
      BY <2>2, <3>2 DEF W!Map, W!Mark, IsPlaced
    <3>3. CASE W!Arm(t)
      BY <2>2, <3>3 DEF W!Arm, W!Goto, IsPlaced, W!held
    <3> QED
      BY <1>2, <3>1, <3>2, <3>3 DEF W!Show
  <2>4. Where'
    BY <2>1, <2>3 DEF PlaceInv, Where, Left
  <2> QED
    BY <2>1, <2>4, PlacesUntouched DEF PlaceInv, Spotted
<1> QED
  BY <1>1, <1>2

LEMMA PlacePersists ==
  ASSUME PlaceInv, NEW t \in Callers, W!Persist(t), {"none", "nowhere"} \cap Monitors = {}
  PROVE  Spotted' /\ Meant' /\ Where'
<1>1. card_dragged' = W!NoPlace /\ UNCHANGED <<system, on_screen, monitor, placed, aimed, at_place, moves, chosen, belated>>
  BY DEF W!Persist, W!desktop
<1>2. at[t] = "persist" /\ at \in [Callers -> ShowAndHide] /\ \A u \in Callers \ {t} : at[u] = "idle"
  BY TheOthersAreIdle DEF PlaceInv, KeysInv, W!Persist
<1>3. at'[t] = "unmark" /\ \A u \in Callers \ {t} : at'[u] = "idle"
  BY <1>2 DEF W!Persist, W!Goto
<1>4. Where'
  <2>1. ~IsPlaced'
    BY <1>3 DEF IsPlaced
  <2> QED
    BY <2>1 DEF Where
<1>5. Spotted' /\ Meant'
  <2>1. CASE UNCHANGED remembered
    BY <1>1, <2>1 DEF PlaceInv, Spotted, Meant, Chosen
  <2>2. CASE remembered' # remembered
    <3>1. /\ card_dragged # W!NoPlace /\ monitor \in Monitors
          /\ remembered' = [remembered EXCEPT
                ![monitor] = IF card_dragged[1] = monitor THEN card_dragged[2] ELSE W!Edge]
      BY <2>2 DEF W!Persist, PlaceInv, Spotted
    <3>2. card_dragged[2] \in Spots \union {W!Top, W!Edge}
      BY <3>1 DEF PlaceInv, Spotted, Ways
    <3>3. Spotted'
      BY <1>1, <3>1, <3>2 DEF PlaceInv, Spotted
    <3>4. ~belated => <<monitor, IF card_dragged[1] = monitor THEN card_dragged[2] ELSE W!Edge>> \in chosen
      BY <3>1 DEF PlaceInv, Meant, Chosen
    <3>5. Meant'
      BY <1>1, <3>1, <3>4 DEF PlaceInv, Spotted, Meant, Chosen
    <3> QED
      BY <3>3, <3>5
  <2> QED
    BY <2>1, <2>2
<1> QED
  BY <1>4, <1>5

LEMMA HideKeepsPlaces ==
  ASSUME PlaceInv, NEW t \in Callers, W!Hide(t), {"none", "nowhere"} \cap Monitors = {}
  PROVE  Spotted' /\ Meant' /\ Where'
<1>1. CASE W!Persist(t)
  BY <1>1, PlacePersists
<1>2. CASE W!Disarm(t) \/ W!Unmark(t) \/ W!Unmap(t)
  <2>1. UNCHANGED <<system, monitor, card_dragged, placed, at_place, remembered, moves, chosen, belated, aimed>>
    BY <1>2 DEF W!Disarm, W!Unmark, W!Unmap, W!held, W!desktop
  <2>2. at \in [Callers -> ShowAndHide] /\ at[t] # "idle" /\ Before(at[t]) /\ \A u \in Callers \ {t} : at[u] = "idle"
    BY <1>2, TheOthersAreIdle DEF PlaceInv, KeysInv, W!Disarm, W!Unmark, W!Unmap
  <2>3. IsPlaced' => IsPlaced
    <3>1. CASE W!Disarm(t)
      BY <2>2, <3>1 DEF W!Disarm, W!Goto, IsPlaced, W!held
    <3>2. CASE W!Unmark(t)
      BY <2>2, <3>2 DEF W!Unmark, W!Goto, IsPlaced
    <3>3. CASE W!Unmap(t)
      BY <2>2, <3>3 DEF W!Unmap, W!Goto, IsPlaced, W!held, Before, Hidden
    <3> QED
      BY <1>2, <3>1, <3>2, <3>3
  <2> QED
    BY <2>1, <2>3, PlacesUntouched, WhereUntouched DEF PlaceInv, Spotted
<1> QED
  BY <1>1, <1>2 DEF W!Hide

LEMMA UserDrags ==
  ASSUME PlaceInv, W!Drag
  PROVE  Spotted' /\ Meant' /\ Where'
<1>1. PICK place \in Monitors \X Spots :
        /\ at_place' = place /\ moves' = Append(moves, place)
        /\ chosen' = IF monitor \in Monitors
                     THEN chosen \union {<<monitor, IF place[1] = monitor THEN place[2] ELSE W!Edge>>}
                     ELSE chosen
  BY DEF W!Drag
<1>2. UNCHANGED <<system, on_screen, monitor, card_dragged, placed, aimed, remembered, at, belated>>
  BY DEF W!Drag, W!held
<1>3. place \in Ways
  BY DEF Ways
<1>4. /\ moves' \in Seq(Ways) /\ moves' # <<>> /\ moves'[Len(moves')] = place
      /\ \A i \in 1..Len(moves') : moves'[i] = place \/ (i \in 1..Len(moves) /\ moves'[i] = moves[i])
  BY <1>1, <1>3, Behind, EmptySeq DEF PlaceInv, Spotted
<1>5. Spotted'
  BY <1>2, <1>4 DEF PlaceInv, Spotted
<1>6. Chosen(place)' /\ \A p : Chosen(p) => Chosen(p)'
  BY <1>1, <1>2 DEF Chosen
<1>7. Meant'
  BY <1>1, <1>2, <1>4, <1>6 DEF PlaceInv, Meant
<1>8. Where'
  BY <1>1, <1>2, <1>4 DEF PlaceInv, Where, IsPlaced, Left
<1> QED
  BY <1>5, <1>7, <1>8

LEMMA MoveRemembered ==
  ASSUME PlaceInv, W!Remember, {"none", "nowhere"} \cap Monitors = {}
  PROVE  Spotted' /\ Meant' /\ Where'
<1>1. /\ moves # <<>> /\ moves' = Tail(moves)
      /\ card_dragged' = IF W!RemembersPosition /\ placed # Head(moves) THEN Head(moves) ELSE card_dragged
  BY DEF W!Remember
<1>2. UNCHANGED <<system, on_screen, monitor, placed, aimed, at_place, remembered, at, chosen, belated>>
  BY DEF W!Remember
<1>3. /\ moves' \in Seq(Ways) /\ Head(moves) \in Ways /\ 1 \in 1..Len(moves) /\ Head(moves) = moves[1]
      /\ Len(moves') = Len(moves) - 1 /\ Len(moves) \in Nat
      /\ \A i \in 1..Len(moves') : i + 1 \in 1..Len(moves) /\ moves'[i] = moves[i + 1]
  BY <1>1, FromTheFront, LenProperties DEF PlaceInv, Spotted
<1>4. Head(moves) # W!NoPlace
  BY <1>3 DEF W!NoPlace, Ways
<1>5. Spotted'
  BY <1>1, <1>2, <1>3 DEF PlaceInv, Spotted
<1>6. \A p : Chosen(p)' = Chosen(p)
  BY <1>2 DEF Chosen
<1>7. Meant'
  BY <1>1, <1>2, <1>3, <1>6 DEF PlaceInv, Meant
<1>8. IsPlaced' = IsPlaced /\ Left(monitor)' = Left(monitor)
  BY <1>2 DEF IsPlaced, Left
<1>9. Where'
  <2> SUFFICES ASSUME system = "windows", IsPlaced, card_dragged' = W!NoPlace
               PROVE  at_place = placed \/ (moves' # <<>> /\ moves'[Len(moves')] = at_place)
    BY <1>2, <1>8 DEF PlaceInv, Where
  <2>1. placed = Head(moves) /\ card_dragged = W!NoPlace
    BY <1>1, <1>4 DEF W!RemembersPosition
  <2>2. at_place = placed \/ moves[Len(moves)] = at_place
    BY <2>1 DEF PlaceInv, Where
  <2>3. CASE Len(moves) = 1
    BY <1>3, <2>1, <2>2, <2>3
  <2>4. CASE Len(moves) # 1
    <3>1. Len(moves') \in 1..Len(moves') /\ Len(moves') + 1 = Len(moves)
      BY <1>3, <2>4
    <3>2. moves'[Len(moves')] = moves[Len(moves)] /\ moves' # <<>>
      BY <1>3, <3>1, EmptySeq
    <3> QED
      BY <2>2, <3>2
  <2> QED
    BY <2>3, <2>4
<1> QED
  BY <1>5, <1>7, <1>9

LEMMA PlaceInvHoldsAtFirst ==
  ASSUME W!Init
  PROVE  PlaceInv
<1>1. Spotted
  <2>1. aimed \in Monitors /\ monitor = "none" /\ moves \in Seq(Ways) /\ card_dragged = W!NoPlace
    BY DEF W!Init
  <2>2. remembered \in [Monitors -> Spots \union {W!Top, W!Edge, "none"}]
    BY DEF W!Init
  <2> QED
    BY <2>1, <2>2 DEF Spotted
<1>2. Meant
  BY EmptySeq DEF W!Init, Meant
<1>3. Where
  BY DEF W!Init, Where, IsPlaced
<1> QED
  BY <1>1, <1>2, <1>3, KeysInvHoldsAtFirst DEF PlaceInv

LEMMA EveryStepKeepsPlaces ==
  ASSUME ~Overlap, PlaceInv, [W!Next]_(W!vars), {"none", "nowhere"} \cap Monitors = {}
  PROVE  PlaceInv'
<1>1. KeysInv'
  BY EveryStepOfTheWindow DEF PlaceInv
<1>2. CASE UNCHANGED W!vars
  <2>1. UNCHANGED <<system, on_screen, monitor, card_dragged, placed, at_place, remembered, moves, chosen, belated, aimed, at>>
    BY <1>2 DEF W!vars, W!held, W!desktop
  <2>2. IsPlaced' => IsPlaced
    BY <2>1 DEF IsPlaced
  <2> QED
    BY <1>1, <2>1, <2>2, PlacesUntouched, WhereUntouched DEF PlaceInv, Spotted
<1> QED
  BY <1>1, <1>2, MethodsBegin, ShowKeepsPlaces, HideKeepsPlaces, UserDrags, MoveRemembered DEF W!Next, PlaceInv

(* panel.rs:849, 891, 951: if no method of the panel began while another   *)
(* was under way, the card would be up exactly when the panel takes it to  *)
(* be, its keys would be the hook's exactly then, only places the user     *)
(* chose would be remembered unless a move was handled only after the next *)
(* card was placed, and a card would open at the place of its monitor.     *)
THEOREM OneAtATimeKeepsTheWindow ==
  ASSUME ~Overlap, {"none", "nowhere"} \cap Monitors = {}
  PROVE  W!Spec => [](W!KeysGoWithTheCard /\ W!PlacesAreChosen /\ W!OpensWhereItWasLeft)
<1>1. W!Init => PlaceInv
  BY PlaceInvHoldsAtFirst
<1>2. PlaceInv /\ [W!Next]_(W!vars) => PlaceInv'
  BY EveryStepKeepsPlaces
<1>3. PlaceInv => W!KeysGoWithTheCard /\ W!PlacesAreChosen
  BY DEF PlaceInv, KeysInv, W!KeysGoWithTheCard, Finished, InStep, Meant, W!PlacesAreChosen
<1>4. PlaceInv => W!OpensWhereItWasLeft
  BY DEF PlaceInv, Where, IsPlaced, Left, W!OpensWhereItWasLeft, W!Idle
<1> QED
  BY <1>1, <1>2, <1>3, <1>4, PTL DEF W!Spec

-----------------------------------------------------------------------------
(* Card.                                                                   *)
(* The texts of a dictation, which are never what was on the clipboard.    *)
Origins  == {"raw", "medium", "typed", "none"} \union Pills
Dictated == Origins \X Nat
Commands == [what : {"edited", "reclean", "transfer", "copy", "cancel", "close"}, text : Dictated]
FeedEvents == {"result", "copied", "gone", "closed", "recording"}
PcSteps  == {"idle", "asked", "write", "lock", "close", "chord", "tell"}
Handing  == [pc : PcSteps, text : Dictated, chord : BOOLEAN]
Faces    == [mode : FeedEvents, box : Dictated, cleaned : Dictated, raw : BOOLEAN, edit : BOOLEAN,
             countdown : BOOLEAN, closing : BOOLEAN]

CardTyped ==
  /\ card \in Faces /\ typed \in Nat /\ auto \in [transfer : BOOLEAN, paste : BOOLEAN]
  /\ card_calls \in Seq(Commands) /\ card_answers \in Seq(Dictated) /\ feed \in Seq(FeedEvents)
  /\ edited \in Dictated /\ work \in [K!Threads -> Handing]

LEMMA TextsAreDictated ==
  /\ K!Raw \in Dictated /\ K!First \in Dictated /\ K!NoText \in Dictated
  /\ \A n \in Nat : K!Typed(n) \in Dictated
  /\ K!Rest \in Handing
<1>2. K!Raw \in Dictated /\ K!First \in Dictated /\ K!NoText \in Dictated /\ \A n \in Nat : K!Typed(n) \in Dictated
  BY DEF K!Raw, K!First, K!Cleaned, K!NoText, K!Typed, Dictated, Origins
<1>3. K!Rest \in Handing
  BY <1>2 DEF K!Rest, Handing, PcSteps
<1> QED
  BY <1>2, <1>3

LEMMA SendIsTyped ==
  ASSUME card_calls \in Seq(Commands), NEW what \in {"edited", "reclean", "transfer", "copy", "cancel", "close"},
         NEW words \in Dictated, K!Send(what, words)
  PROVE  card_calls' \in Seq(Commands)
BY Behind DEF K!Send, Commands

LEMMA TheCardIsTyped ==
  ASSUME CardTyped, K!Page
  PROVE  CardTyped'
<1>1. UNCHANGED <<edited, work, auto>>
  BY DEF K!Page, K!Type, K!EditTimer, K!ToggleRaw, K!ClickPill, K!Recleaned, K!HandOver, K!ClickCancel,
         K!CloseTimer, K!PageHandles, K!core, K!threads
<1>2. K!Body \in Dictated
  BY DEF CardTyped, K!Body, Faces
<1>3. CASE K!Type
  <2>1. typed + 1 \in Nat /\ K!Typed(typed + 1) \in Dictated
    BY TextsAreDictated DEF CardTyped
  <2> HIDE DEF K!Typed
  <2> QED
    BY <1>1, <1>3, <2>1 DEF CardTyped, K!Type, Faces
<1>4. CASE K!EditTimer
  <2>1. card_calls' \in Seq(Commands)
    BY <1>4, SendIsTyped DEF K!EditTimer, CardTyped, Faces
  <2> QED
    BY <1>1, <1>4, <2>1 DEF CardTyped, K!EditTimer, Faces
<1>5. CASE K!ToggleRaw
  BY <1>1, <1>5, TextsAreDictated DEF CardTyped, K!ToggleRaw, Faces
<1>6. CASE K!ClickPill
  <2>1. PICK pill \in Pills : K!Send("reclean", K!Cleaned(pill))
    BY <1>6 DEF K!ClickPill
  <2>2. K!Cleaned(pill) \in Dictated
    BY DEF K!Cleaned, Dictated, Origins
  <2>3. card_calls' \in Seq(Commands)
    BY <2>1, <2>2, SendIsTyped DEF CardTyped
  <2> QED
    BY <1>1, <1>6, <2>3 DEF CardTyped, K!ClickPill, Faces
<1>7. CASE K!Recleaned
  <2>1. Tail(card_answers) \in Seq(Dictated) /\ Head(card_answers) \in Dictated
    BY <1>7, FromTheFront DEF CardTyped, K!Recleaned
  <2> QED
    BY <1>1, <1>7, <2>1 DEF CardTyped, K!Recleaned, Faces
<1>8. CASE K!HandOver
  <2>1. card_calls' \in Seq(Commands)
    BY <1>2, <1>8, SendIsTyped DEF K!HandOver, CardTyped
  <2> QED
    BY <1>1, <1>8, <2>1 DEF CardTyped, K!HandOver, Faces
<1>9. CASE K!ClickCancel
  <2>1. card_calls' \in Seq(Commands)
    BY <1>9, SendIsTyped, TextsAreDictated DEF K!ClickCancel, CardTyped
  <2> QED
    BY <1>1, <1>9, <2>1 DEF CardTyped, K!ClickCancel
<1>10. CASE K!CloseTimer
  <2>1. card_calls' \in Seq(Commands)
    BY <1>10, SendIsTyped, TextsAreDictated DEF K!CloseTimer, CardTyped
  <2> QED
    BY <1>1, <1>10, <2>1 DEF CardTyped, K!CloseTimer, Faces
<1>11. CASE K!PageHandles
  <2>1. Tail(feed) \in Seq(FeedEvents) /\ Head(feed) \in FeedEvents
    BY <1>11, FromTheFront DEF CardTyped, K!PageHandles
  <2> QED
    BY <1>1, <1>11, <2>1 DEF CardTyped, K!PageHandles, Faces
<1> QED
  BY <1>3, <1>4, <1>5, <1>6, <1>7, <1>8, <1>9, <1>10, <1>11 DEF K!Page

LEMMA SpawnIsTyped ==
  ASSUME work \in [K!Threads -> Handing], auto \in [transfer : BOOLEAN, paste : BOOLEAN], NEW words \in Dictated,
         K!Spawn(words) \/ \E t \in K!Threads : K!CopyOn(t, words)
  PROVE  work' \in [K!Threads -> Handing]
<1>1. \A c \in BOOLEAN : [pc |-> "asked", text |-> words, chord |-> c] \in Handing
  BY DEF Handing, PcSteps
<1>2. auto.paste \in BOOLEAN
  OBVIOUS
<1>3. CASE K!Spawn(words)
  <2>1. PICK t \in Pasters : work' = [work EXCEPT ![t] = [pc |-> "asked", text |-> words, chord |-> auto.paste]]
    BY <1>3 DEF K!Spawn
  <2> QED
    BY <1>1, <1>2, <2>1
<1>4. CASE \E t \in K!Threads : K!CopyOn(t, words)
  <2>1. PICK t \in K!Threads : work' = [work EXCEPT ![t] = [pc |-> "asked", text |-> words, chord |-> FALSE]]
    BY <1>4 DEF K!CopyOn
  <2> QED
    BY <1>1, <2>1
<1> QED
  BY <1>3, <1>4

LEMMA ThePanelIsTyped ==
  ASSUME CardTyped, K!Core
  PROVE  CardTyped'
<1>1. UNCHANGED <<card, typed, auto>>
  BY DEF K!Core, K!Edited, K!Reclean, K!HandsOver, K!Closes, K!HookKey, K!NextRecording
<1>2. card_calls # <<>> => /\ Tail(card_calls) \in Seq(Commands)
                           /\ Head(card_calls) \in Commands /\ Head(card_calls).text \in Dictated
  <2>1. card_calls # <<>> => Tail(card_calls) \in Seq(Commands) /\ Head(card_calls) \in Commands
    BY FromTheFront DEF CardTyped
  <2> QED
    BY <2>1 DEF Commands
<1>3. \A e \in FeedEvents : Append(feed, e) \in Seq(FeedEvents)
  BY Behind DEF CardTyped
<1>4. CASE K!Edited
  BY <1>1, <1>2, <1>4 DEF CardTyped, K!Edited, K!Handles, K!threads
<1>5. CASE K!Reclean
  <2>1. card_answers' \in Seq(Dictated)
    BY <1>2, <1>5, Behind DEF CardTyped, K!Reclean, K!Handles
  <2> QED
    BY <1>1, <1>2, <1>5, <2>1 DEF CardTyped, K!Reclean, K!Handles, K!threads
<1>6. CASE K!HandsOver
  <2>1. work' \in [K!Threads -> Handing]
    BY <1>2, <1>6, SpawnIsTyped DEF CardTyped, K!HandsOver, K!Handles, K!Threads
  <2> QED
    BY <1>1, <1>2, <1>6, <2>1 DEF CardTyped, K!HandsOver, K!Handles, K!core
<1>7. CASE K!Closes
  BY <1>1, <1>2, <1>3, <1>7, TextsAreDictated DEF CardTyped, K!Closes, K!Handles, K!Close, K!threads, FeedEvents
<1>8. CASE K!HookKey
  <2>1. work' \in [K!Threads -> Handing]
    BY <1>8, SpawnIsTyped, TextsAreDictated DEF CardTyped, K!HookKey, K!Threads
  <2> QED
    BY <1>1, <1>3, <1>8, <2>1, TextsAreDictated DEF CardTyped, K!HookKey, K!Close, K!core, FeedEvents
<1>9. CASE K!NextRecording
  BY <1>1, <1>3, <1>9, TextsAreDictated DEF CardTyped, K!NextRecording, K!threads, FeedEvents
<1> QED
  BY <1>4, <1>5, <1>6, <1>7, <1>8, <1>9 DEF K!Core

LEMMA ThreadIsTyped ==
  ASSUME CardTyped, NEW t \in K!Threads, K!Transfer(t)
  PROVE  CardTyped'
<1>1. UNCHANGED <<card, typed, auto, card_calls, card_answers>>
  BY DEF K!Transfer, K!Read, K!Write, K!Tell, K!Lock, K!TakesDown, K!Press
<1>2. \A e \in FeedEvents : Append(feed, e) \in Seq(FeedEvents)
  BY Behind DEF CardTyped
<1>3. \A pc \in PcSteps : K!Goto(t, pc) => work' \in [K!Threads -> Handing]
  <2> SUFFICES ASSUME NEW pc \in PcSteps, K!Goto(t, pc) PROVE work' \in [K!Threads -> Handing]
    OBVIOUS
  <2>1. work' = [work EXCEPT ![t] = [work[t] EXCEPT !.pc = pc]]
    BY DEF K!Goto
  <2>2. [work[t] EXCEPT !.pc = pc] \in Handing
    BY DEF CardTyped, Handing
  <2> QED
    BY <2>1, <2>2 DEF CardTyped
<1>4. K!Ends(t) => work' \in [K!Threads -> Handing]
  BY TextsAreDictated DEF K!Ends, CardTyped
<1>5. CASE K!Read(t)
  <2>1. edited' \in Dictated
    BY <1>5 DEF K!Read, CardTyped, Handing
  <2>2. work' \in [K!Threads -> Handing]
    <3>1. CASE card_mode # "Result"
      BY <1>4, <1>5, <3>1 DEF K!Read
    <3>2. CASE card_mode = "Result"
      <4> DEFINE handed == [work[t] EXCEPT !.pc = "write", !.text = edited']
      <4>1. work' = [work EXCEPT ![t] = handed]
        BY <1>5, <3>2 DEF K!Read
      <4>2. handed \in Handing
        BY <2>1 DEF CardTyped, Handing, PcSteps
      <4> HIDE DEF handed
      <4> QED
        BY <4>1, <4>2 DEF CardTyped
    <3> QED
      BY <3>1, <3>2
  <2> QED
    BY <1>1, <1>5, <2>1, <2>2 DEF CardTyped, K!Read
<1>6. CASE K!Write(t)
  BY <1>1, <1>2, <1>3, <1>4, <1>6 DEF CardTyped, K!Write, K!core, PcSteps, FeedEvents
<1>7. CASE K!Tell(t) \/ K!Lock(t) \/ K!Press(t)
  BY <1>1, <1>2, <1>3, <1>4, <1>7 DEF CardTyped, K!Tell, K!Lock, K!Press, K!core, PcSteps, FeedEvents
<1>8. CASE K!TakesDown(t)
  BY <1>1, <1>2, <1>3, <1>8, TextsAreDictated DEF CardTyped, K!TakesDown, K!Close, PcSteps, FeedEvents
<1> QED
  BY <1>5, <1>6, <1>7, <1>8 DEF K!Transfer

-----------------------------------------------------------------------------
(* Whoever has got beyond writing the text on the clipboard, and whoever   *)
(* has been told of it, is right.                                          *)
IsCopied == clipboard # K!Theirs

CopyInv ==
  /\ \A t \in K!Threads : work[t].pc \in {"lock", "close", "chord", "tell"} => IsCopied
  /\ \A i \in 1..Len(feed) : feed[i] = "copied" => IsCopied
  /\ \A i \in 1..Len(card_calls) : card_calls[i].what = "close" => IsCopied
  /\ card.closing => IsCopied
  /\ K!NothingIsLost /\ K!ChordPastesTheCopy

LEMMA DictatedIsNotTheirs ==
  ASSUME "theirs" \notin Pills
  PROVE  \A x \in Dictated : x # K!Theirs
BY DEF Dictated, Origins, K!Theirs

(* A command that closes nothing.                                          *)
LEMMA SendKeepsCopies ==
  ASSUME CardTyped, CopyInv, NEW what \in {"edited", "reclean", "transfer", "copy", "cancel", "close"},
         NEW words \in Dictated, K!Send(what, words), what = "close" => IsCopied,
         clipboard' = clipboard
  PROVE  \A i \in 1..Len(card_calls') : card_calls'[i].what = "close" => IsCopied'
<1> DEFINE c == [what |-> what, text |-> words]
<1>1. c \in Commands /\ c.what = what /\ card_calls' = Append(card_calls, c) /\ card_calls \in Seq(Commands)
  BY DEF K!Send, Commands, CardTyped
<1> HIDE DEF c
<1>2. /\ \A i \in 1..Len(card_calls') : i \in 1..Len(card_calls) \/ i = Len(card_calls) + 1
      /\ \A i \in 1..Len(card_calls) : card_calls'[i] = card_calls[i]
      /\ card_calls'[Len(card_calls) + 1] = c
  BY <1>1, Behind
<1>3. IsCopied' = IsCopied
  BY DEF IsCopied
<1>4. ASSUME NEW i \in 1..Len(card_calls'), card_calls'[i].what = "close" PROVE IsCopied
  <2>1. CASE i \in 1..Len(card_calls)
    BY <1>2, <1>4, <2>1 DEF CopyInv
  <2>2. CASE i = Len(card_calls) + 1
    BY <1>1, <1>2, <1>4, <2>2
  <2> QED
    BY <1>2, <2>1, <2>2
<1> QED
  BY <1>3, <1>4

LEMMA PageKeepsCopies ==
  ASSUME CardTyped, CopyInv, K!Page
  PROVE  CopyInv'
<1>1. UNCHANGED <<work, clipboard, card_mode, let_go, chords>>
  BY DEF K!Page, K!Type, K!EditTimer, K!ToggleRaw, K!ClickPill, K!Recleaned, K!HandOver, K!ClickCancel,
         K!CloseTimer, K!PageHandles, K!core, K!threads
<1>2. K!Body \in Dictated /\ card.box \in Dictated /\ K!NoText \in Dictated
  BY TextsAreDictated DEF CardTyped, K!Body, Faces
<1>3. IsCopied' = IsCopied /\ K!NothingIsLost' /\ K!ChordPastesTheCopy'
  BY <1>1 DEF IsCopied, CopyInv, K!NothingIsLost, K!ChordPastesTheCopy
<1>4. CASE K!PageHandles
  <2>1. UNCHANGED card_calls /\ card'.closing = (Head(feed) = "copied") /\ feed # <<>> /\ feed' = Tail(feed)
    BY <1>4 DEF K!PageHandles, CardTyped, Faces
  <2>2. /\ 1 \in 1..Len(feed) /\ Head(feed) = feed[1]
        /\ \A i \in 1..Len(feed') : i + 1 \in 1..Len(feed) /\ feed'[i] = feed[i + 1]
    BY <2>1, FromTheFront DEF CardTyped
  <2>3. card'.closing => IsCopied
    BY <2>1, <2>2 DEF CopyInv
  <2>4. \A i \in 1..Len(feed') : feed'[i] = "copied" => IsCopied
    BY <2>2 DEF CopyInv
  <2> QED
    BY <1>1, <1>3, <2>1, <2>3, <2>4 DEF CopyInv
<1>5. CASE K!Type \/ K!ToggleRaw \/ K!Recleaned
  <2>1. UNCHANGED <<card_calls, feed>> /\ card'.closing = card.closing
    BY <1>5 DEF K!Type, K!ToggleRaw, K!Recleaned, CardTyped, Faces
  <2> QED
    BY <1>1, <1>3, <2>1 DEF CopyInv
<1>6. CASE K!EditTimer \/ K!ClickPill \/ K!HandOver \/ K!ClickCancel \/ K!CloseTimer
  <2>1. UNCHANGED feed /\ (card'.closing => card.closing)
    BY <1>6 DEF K!EditTimer, K!ClickPill, K!HandOver, K!ClickCancel, K!CloseTimer, CardTyped, Faces
  <2>2. \A i \in 1..Len(card_calls') : card_calls'[i].what = "close" => IsCopied'
    <3>1. CASE K!EditTimer
      BY <1>1, <1>2, <3>1, SendKeepsCopies DEF K!EditTimer
    <3>2. CASE K!ClickPill
      <4>1. PICK pill \in Pills : K!Send("reclean", K!Cleaned(pill))
        BY <3>2 DEF K!ClickPill
      <4>2. K!Cleaned(pill) \in Dictated
        BY DEF K!Cleaned, Dictated, Origins
      <4> QED
        BY <1>1, <4>1, <4>2, SendKeepsCopies
    <3>3. CASE K!HandOver
      <4>1. PICK what \in {"transfer", "copy"} : K!Send(what, K!Body)
        BY <3>3 DEF K!HandOver
      <4> QED
        BY <1>1, <1>2, <4>1, SendKeepsCopies
    <3>4. CASE K!ClickCancel
      BY <1>1, <1>2, <3>4, SendKeepsCopies DEF K!ClickCancel
    <3>5. CASE K!CloseTimer
      <4>1. IsCopied
        BY <3>5 DEF K!CloseTimer, CopyInv
      <4> QED
        BY <1>1, <1>2, <3>5, <4>1, SendKeepsCopies DEF K!CloseTimer
    <3> QED
      BY <1>6, <3>1, <3>2, <3>3, <3>4, <3>5
  <2> QED
    BY <1>1, <1>3, <2>1, <2>2 DEF CopyInv
<1> QED
  BY <1>4, <1>5, <1>6 DEF K!Page

(* What the page is told of.                                               *)
LEMMA TellingKeepsCopies ==
  ASSUME CardTyped, CopyInv, NEW e \in FeedEvents, feed' = Append(feed, e), e = "copied" => IsCopied,
         IsCopied => IsCopied'
  PROVE  \A i \in 1..Len(feed') : feed'[i] = "copied" => IsCopied'
<1>1. /\ \A i \in 1..Len(feed') : i \in 1..Len(feed) \/ i = Len(feed) + 1
      /\ \A i \in 1..Len(feed) : feed'[i] = feed[i]
      /\ feed'[Len(feed) + 1] = e
  BY Behind DEF CardTyped
<1>2. ASSUME NEW i \in 1..Len(feed'), feed'[i] = "copied" PROVE IsCopied'
  <2>1. CASE i \in 1..Len(feed)
    BY <1>1, <1>2, <2>1 DEF CopyInv
  <2>2. CASE i = Len(feed) + 1
    BY <1>1, <1>2, <2>2
  <2> QED
    BY <1>1, <2>1, <2>2
<1> QED
  BY <1>2

(* Callers that are asked to hand over have copied nothing yet.            *)
LEMMA AskedKeepsCopies ==
  ASSUME CardTyped, CopyInv, NEW words, K!Spawn(words) \/ \E t \in K!Threads : K!CopyOn(t, words),
         clipboard' = clipboard
  PROVE  \A t \in K!Threads : work'[t].pc \in {"lock", "close", "chord", "tell"} => IsCopied'
<1>1. IsCopied' = IsCopied
  BY DEF IsCopied
<1>2. PICK t \in K!Threads, c \in {auto.paste, FALSE} :
        work' = [work EXCEPT ![t] = [pc |-> "asked", text |-> words, chord |-> c]]
  BY DEF K!Spawn, K!CopyOn, K!Threads
<1>3. work'[t].pc = "asked" /\ \A u \in K!Threads \ {t} : work'[u] = work[u]
  BY <1>2 DEF CardTyped
<1> QED
  BY <1>1, <1>3 DEF CopyInv

LEMMA CoreKeepsCopies ==
  ASSUME CardTyped, CopyInv, K!Core
  PROVE  CopyInv'
<1>1. UNCHANGED <<card, clipboard, chords>> /\ IsCopied' = IsCopied /\ K!ChordPastesTheCopy'
  BY DEF K!Core, K!Edited, K!Reclean, K!HandsOver, K!Closes, K!HookKey, K!NextRecording, K!threads,
         IsCopied, CopyInv, K!ChordPastesTheCopy
<1>2. card_calls # <<>> /\ card_calls' = Tail(card_calls) =>
        /\ \A i \in 1..Len(card_calls') : card_calls'[i].what = "close" => IsCopied
        /\ Head(card_calls).what = "close" => IsCopied
  <2> SUFFICES ASSUME card_calls # <<>>, card_calls' = Tail(card_calls)
               PROVE  /\ \A i \in 1..Len(card_calls') : card_calls'[i].what = "close" => IsCopied
                      /\ Head(card_calls).what = "close" => IsCopied
    OBVIOUS
  <2>1. /\ 1 \in 1..Len(card_calls) /\ Head(card_calls) = card_calls[1]
        /\ \A i \in 1..Len(card_calls') : i + 1 \in 1..Len(card_calls) /\ card_calls'[i] = card_calls[i + 1]
    BY FromTheFront DEF CardTyped
  <2> QED
    BY <2>1 DEF CopyInv
<1>3. CASE K!Edited \/ K!Reclean
  <2>1. UNCHANGED <<feed, card_mode, work, let_go>> /\ card_calls # <<>> /\ card_calls' = Tail(card_calls)
    BY <1>3 DEF K!Edited, K!Reclean, K!threads, K!Handles
  <2> QED
    BY <1>1, <1>2, <2>1 DEF CopyInv, K!NothingIsLost, IsCopied
<1>4. CASE K!HandsOver
  <2>1. /\ UNCHANGED <<feed, card_mode, let_go>> /\ card_calls # <<>> /\ card_calls' = Tail(card_calls)
        /\ K!Spawn(Head(card_calls).text) \/ \E t \in K!Threads : K!CopyOn(t, Head(card_calls).text)
    BY <1>4 DEF K!HandsOver, K!core, K!Threads, K!Handles
  <2>2. \A t \in K!Threads : work'[t].pc \in {"lock", "close", "chord", "tell"} => IsCopied'
    BY <1>1, <2>1, AskedKeepsCopies
  <2> QED
    BY <1>1, <1>2, <2>1, <2>2 DEF CopyInv, K!NothingIsLost, IsCopied
<1>5. CASE K!Closes
  <2>1. UNCHANGED work /\ feed' = Append(feed, "closed")
    BY <1>5 DEF K!Closes, K!threads, K!Close
  <2>2. \A i \in 1..Len(feed') : feed'[i] = "copied" => IsCopied'
    BY <1>1, <2>1, TellingKeepsCopies DEF FeedEvents
  <2>3. let_go' \/ IsCopied'
    <3>1. CASE K!Handles("close")
      BY <1>1, <1>2, <3>1 DEF K!Handles
    <3>2. CASE K!Handles("cancel")
      BY <1>5, <3>2 DEF K!Closes, K!Handles
    <3> QED
      BY <1>5, <3>1, <3>2 DEF K!Closes
  <2>4. card_calls # <<>> /\ card_calls' = Tail(card_calls)
    BY <1>5 DEF K!Closes, K!Handles
  <2> QED
    BY <1>1, <1>2, <2>1, <2>2, <2>3, <2>4 DEF CopyInv, K!NothingIsLost, IsCopied
<1>6. CASE K!HookKey
  <2>1. CASE (K!Spawn(K!NoText) \/ K!CopyOn(K!Session, K!NoText)) /\ UNCHANGED <<K!core, feed, let_go>>
    <3>1. /\ UNCHANGED <<card_calls, feed, card_mode, let_go>>
          /\ K!Spawn(K!NoText) \/ \E t \in K!Threads : K!CopyOn(t, K!NoText)
      BY <1>6, <2>1 DEF K!HookKey, K!core, K!Threads
    <3>2. \A t \in K!Threads : work'[t].pc \in {"lock", "close", "chord", "tell"} => IsCopied'
      BY <1>1, <3>1, AskedKeepsCopies
    <3> QED
      BY <1>1, <3>1, <3>2 DEF CopyInv, K!NothingIsLost, IsCopied
  <2>2. CASE K!Close /\ let_go' = TRUE /\ UNCHANGED work
    <3>1. UNCHANGED card_calls /\ feed' = Append(feed, "closed")
      BY <1>6, <2>2 DEF K!HookKey, K!Close
    <3>2. \A i \in 1..Len(feed') : feed'[i] = "copied" => IsCopied'
      BY <1>1, <3>1, TellingKeepsCopies DEF FeedEvents
    <3> QED
      BY <1>1, <2>2, <3>1, <3>2 DEF CopyInv, K!NothingIsLost
  <2> QED
    BY <1>6, <2>1, <2>2 DEF K!HookKey
<1>7. CASE K!NextRecording
  <2>1. UNCHANGED <<card_calls, work>> /\ let_go' = TRUE /\ feed' = Append(feed, "recording")
    BY <1>7 DEF K!NextRecording, K!threads
  <2>2. \A i \in 1..Len(feed') : feed'[i] = "copied" => IsCopied'
    BY <1>1, <2>1, TellingKeepsCopies DEF FeedEvents
  <2> QED
    BY <1>1, <2>1, <2>2 DEF CopyInv, K!NothingIsLost
<1> QED
  BY <1>3, <1>4, <1>5, <1>6, <1>7 DEF K!Core

LEMMA ThreadKeepsCopies ==
  ASSUME "theirs" \notin Pills, CardTyped, CopyInv, NEW t \in K!Threads, K!Transfer(t)
  PROVE  CopyInv'
<1>1. UNCHANGED <<card, card_calls, let_go>>
  BY DEF K!Transfer, K!Read, K!Write, K!Tell, K!Lock, K!TakesDown, K!Press
<1>2. IsCopied => IsCopied'
  <2>1. clipboard' \in {clipboard, work[t].text}
    BY DEF K!Transfer, K!Read, K!Write, K!Tell, K!Lock, K!TakesDown, K!Press, K!Taken, K!NotTaken
  <2>2. work[t].text # K!Theirs
    BY DictatedIsNotTheirs DEF CardTyped, Handing
  <2> QED
    BY <2>1, <2>2 DEF IsCopied
<1>3. \A u \in K!Threads \ {t} : work'[u] = work[u]
  BY DEF K!Transfer, K!Read, K!Write, K!Tell, K!Lock, K!TakesDown, K!Press, K!Goto, K!Ends, CardTyped
<1>4. work'[t].pc \in {"lock", "close", "chord", "tell"} => IsCopied'
  <2>1. CASE work[t].pc = "write"
    <3>1. K!Write(t)
      BY <2>1 DEF K!Transfer, K!Read, K!Write, K!Tell, K!Lock, K!TakesDown, K!Press
    <3>2. CASE clipboard' = work[t].text
      BY <3>2, DictatedIsNotTheirs DEF IsCopied, CardTyped, Handing
    <3>3. CASE K!Ends(t)
      BY <3>3 DEF K!Ends, K!Rest, CardTyped
    <3> QED
      BY <3>1, <3>2, <3>3 DEF K!Write, K!Taken
  <2>2. CASE work[t].pc = "asked"
    <3>1. K!Read(t)
      BY <2>2 DEF K!Transfer, K!Read, K!Write, K!Tell, K!Lock, K!TakesDown, K!Press
    <3>2. work'[t].pc \in {"write", "idle"}
      BY <3>1 DEF K!Read, K!Ends, K!Rest, CardTyped, Handing
    <3> QED
      BY <3>2
  <2>3. CASE work[t].pc \in {"lock", "close", "chord", "tell"}
    BY <1>2, <2>3 DEF CopyInv
  <2> QED
    BY <2>1, <2>2, <2>3 DEF K!Transfer, K!Read, K!Write, K!Tell, K!Lock, K!TakesDown, K!Press
<1>5. \A u \in K!Threads : work'[u].pc \in {"lock", "close", "chord", "tell"} => IsCopied'
  BY <1>2, <1>3, <1>4 DEF CopyInv
<1>6. \A i \in 1..Len(feed') : feed'[i] = "copied" => IsCopied'
  <2>1. CASE UNCHANGED feed
    BY <1>2, <2>1 DEF CopyInv
  <2>2. CASE feed' = Append(feed, "gone") \/ feed' = Append(feed, "closed")
    BY <1>2, <2>2, TellingKeepsCopies DEF FeedEvents
  <2>3. CASE K!Tell(t)
    <3>1. IsCopied /\ feed' = Append(feed, "copied")
      BY <2>3 DEF K!Tell, CopyInv
    <3> QED
      BY <1>2, <3>1, TellingKeepsCopies DEF FeedEvents
  <2> QED
    BY <2>1, <2>2, <2>3 DEF K!Transfer, K!Read, K!Write, K!Lock, K!TakesDown, K!Press, K!Close
<1>7. K!NothingIsLost'
  <2>1. CASE K!TakesDown(t)
    BY <1>2, <2>1 DEF K!TakesDown, CopyInv, K!NothingIsLost, IsCopied
  <2>2. CASE ~K!TakesDown(t)
    <3>1. card_mode' = card_mode
      BY <2>2 DEF K!Transfer, K!Read, K!Write, K!Tell, K!Lock, K!Press, K!core
    <3> QED
      BY <1>1, <1>2, <3>1 DEF CopyInv, K!NothingIsLost, IsCopied
  <2> QED
    BY <2>1, <2>2
<1>8. K!ChordPastesTheCopy'
  <2>1. chords' = chords \/ (work[t].pc = "chord" /\ chords' = chords \union {clipboard})
    BY DEF K!Transfer, K!Read, K!Write, K!Tell, K!Lock, K!TakesDown, K!Press, K!ChordGoesOut, K!ChordFails
  <2> QED
    BY <2>1 DEF CopyInv, K!ChordPastesTheCopy, IsCopied
<1> QED
  BY <1>1, <1>2, <1>5, <1>6, <1>7, <1>8 DEF CopyInv

-----------------------------------------------------------------------------
(* While the result is on the card: every text on its way to the panel is  *)
(* the answer, except for a cleaning, which is alone on its way; and the   *)
(* panel has the answer or will be sent it.                                *)
Carries(c) == c.what \in {"edited", "transfer", "copy"}
Cleans     == \E i \in 1..Len(card_calls) : card_calls[i].what = "reclean"
Cleaning   == Cleans \/ card_answers # <<>>
Tells      == \E i \in 1..Len(card_calls) : card_calls[i].what = "edited"

OnItsWay ==
  /\ \A i \in 1..Len(card_calls) : Carries(card_calls[i]) => card_calls[i].text = K!Body /\ ~Cleaning
  /\ \A i, j \in 1..Len(card_calls) : card_calls[i].what = "reclean" /\ card_calls[j].what = "reclean" => i = j
  /\ \A t \in K!Threads : work[t].pc = "asked" /\ work[t].text # K!NoText => work[t].text = K!Body /\ ~Cleaning
  /\ Cleans => card_answers = <<>>
  /\ card_answers # <<>> => card_answers = <<edited>>
  /\ card.edit \/ card.countdown => ~Cleaning
  /\ card.edit => ~card.raw /\ ~card.countdown
  /\ ~card.edit /\ ~Cleaning => edited = K!Body \/ Tells

AnswerInv == card_mode = "Result" => OnItsWay

LEMMA SendKeepsAnswers ==
  ASSUME CardTyped, AnswerInv, card_mode = "Result",
         NEW what \in {"edited", "transfer", "copy", "cancel", "close"}, NEW words \in Dictated,
         K!Send(what, words), what \in {"edited", "transfer", "copy"} => words = K!Body /\ ~Cleaning,
         UNCHANGED <<card_answers, work, edited, card_mode>>, K!Body' = K!Body,
         card'.raw = card.raw, card'.edit => card.edit, card'.countdown => card.countdown,
         card'.edit = card.edit \/ what = "edited"
  PROVE  AnswerInv'
<1> DEFINE c == [what |-> what, text |-> words]
<1>1. /\ c \in Commands /\ c.what = what /\ c.text = words /\ card_calls' = Append(card_calls, c)
      /\ card_calls \in Seq(Commands)
  BY DEF K!Send, Commands, CardTyped
<1> HIDE DEF c
<1>2. /\ \A i \in 1..Len(card_calls') : i \in 1..Len(card_calls) \/ i = Len(card_calls) + 1
      /\ \A i \in 1..Len(card_calls) : i \in 1..Len(card_calls') /\ card_calls'[i] = card_calls[i]
      /\ Len(card_calls) + 1 \in 1..Len(card_calls') /\ card_calls'[Len(card_calls) + 1] = c
  BY <1>1, Behind
<1>3. \A i \in 1..Len(card_calls') : card_calls'[i].what = "reclean" => i \in 1..Len(card_calls)
  BY <1>1, <1>2
<1>4. Cleans' = Cleans /\ Cleaning' = Cleaning
  BY <1>2, <1>3 DEF Cleans, Cleaning
<1>5. \A i \in 1..Len(card_calls') : Carries(card_calls'[i]) => card_calls'[i].text = K!Body' /\ ~Cleaning'
  BY <1>1, <1>2, <1>4 DEF AnswerInv, OnItsWay, Carries
<1>6. (Tells => Tells') /\ (what = "edited" => Tells')
  BY <1>1, <1>2 DEF Tells
<1>7. \A i, j \in 1..Len(card_calls') : card_calls'[i].what = "reclean" /\ card_calls'[j].what = "reclean" => i = j
  BY <1>2, <1>3 DEF AnswerInv, OnItsWay
<1> QED
  BY <1>4, <1>5, <1>6, <1>7 DEF AnswerInv, OnItsWay

LEMMA PageKeepsAnswers ==
  ASSUME "haste" \notin CardDisturbances, CardTyped, AnswerInv, K!Page, card_mode = "Result"
  PROVE  AnswerInv'
<1>1. UNCHANGED <<work, edited, card_mode>>
  BY DEF K!Page, K!Type, K!EditTimer, K!ToggleRaw, K!ClickPill, K!Recleaned, K!HandOver, K!ClickCancel,
         K!CloseTimer, K!PageHandles, K!core, K!threads
<1>2. K!Body \in Dictated /\ card.box \in Dictated /\ K!NoText \in Dictated
  BY TextsAreDictated DEF CardTyped, K!Body, Faces
<1>3. K!Followed => ~Cleans /\ ~Cleaning /\ ~Tells /\ \A i \in 1..Len(card_calls) : FALSE
  <2>1. Len(<<>>) = 0
    BY EmptySeq
  <2> QED
    BY <2>1 DEF K!Followed, Cleans, Cleaning, Tells
<1>4. CASE K!Type
  <2>1. K!Followed /\ UNCHANGED <<card_calls, card_answers>> /\ card'.edit /\ ~card'.countdown /\ ~card'.raw
    BY <1>4 DEF K!Type, K!Unhurried, CardTyped, Faces
  <2>2. ~Cleans' /\ ~Cleaning'
    BY <1>3, <2>1 DEF Cleans, Cleaning
  <2>3. \A t \in K!Threads : work'[t].pc # "asked"
    BY <1>1, <2>1 DEF K!Followed
  <2> QED
    BY <1>1, <1>3, <2>1, <2>2, <2>3 DEF AnswerInv, OnItsWay
<1>5. CASE K!EditTimer
  <2>1. /\ card.edit /\ ~card'.edit /\ K!Send("edited", card.box) /\ UNCHANGED card_answers
        /\ card'.raw = card.raw /\ card'.countdown = card.countdown /\ K!Body' = K!Body
    BY <1>5 DEF K!EditTimer, CardTyped, Faces, K!Body
  <2>2. card.box = K!Body /\ ~Cleaning
    BY <2>1 DEF AnswerInv, OnItsWay, K!Body
  <2> QED
    BY <1>1, <1>2, <2>1, <2>2, SendKeepsAnswers
<1>6. CASE K!ToggleRaw
  <2>1. /\ K!Followed /\ ~card.edit /\ UNCHANGED <<card_calls, card_answers>> /\ card'.edit = card.edit
        /\ card'.countdown = card.countdown /\ K!Body' = K!Body
    BY <1>6 DEF K!ToggleRaw, K!Unhurried, CardTyped, Faces, K!Body
  <2>2. Cleans' = Cleans /\ Cleaning' = Cleaning /\ Tells' = Tells
    BY <2>1 DEF Cleans, Cleaning, Tells
  <2> QED
    BY <1>1, <2>1, <2>2 DEF AnswerInv, OnItsWay
<1>7. CASE K!ClickPill
  <2>1. /\ K!Followed /\ ~card.edit /\ UNCHANGED card_answers /\ card'.edit = card.edit
        /\ ~card'.countdown /\ card_calls = <<>> /\ card_answers = <<>>
    BY <1>7 DEF K!ClickPill, K!Unhurried, K!Followed, CardTyped, Faces
  <2>2. PICK pill \in Pills : K!Send("reclean", K!Cleaned(pill))
    BY <1>7 DEF K!ClickPill
  <2> DEFINE c == [what |-> "reclean", text |-> K!Cleaned(pill)]
  <2>3. card_calls' = Append(<<>>, c) /\ c.what = "reclean"
    BY <2>1, <2>2 DEF K!Send
  <2>4. c \in Commands /\ <<>> \in Seq(Commands)
    BY <2>1 DEF K!Cleaned, Commands, Dictated, Origins, CardTyped
  <2> HIDE DEF c
  <2>5. \A i \in 1..Len(card_calls') : i = 1 /\ card_calls'[i] = c
    <3>1. Len(<<>>) = 0
      BY EmptySeq
    <3>2. /\ \A i \in 1..Len(Append(<<>>, c)) : i \in 1..Len(<<>>) \/ i = Len(<<>>) + 1
          /\ Append(<<>>, c)[Len(<<>>) + 1] = c
      BY <2>4, Behind
    <3> QED
      BY <2>3, <3>1, <3>2
  <2>6. 1 \in 1..Len(card_calls')
    <3>1. Len(<<>>) = 0 /\ Len(Append(<<>>, c)) = Len(<<>>) + 1
      BY <2>4, Behind, EmptySeq
    <3> QED
      BY <2>3, <3>1
  <2>7. Cleans' /\ Cleaning'
    BY <2>3, <2>5, <2>6 DEF Cleans, Cleaning
  <2>8. \A t \in K!Threads : work'[t].pc # "asked"
    BY <1>1, <2>1 DEF K!Followed
  <2>9. \A i \in 1..Len(card_calls') : ~Carries(card_calls'[i])
    BY <2>3, <2>5 DEF Carries
  <2> QED
    BY <1>1, <2>1, <2>5, <2>7, <2>8, <2>9 DEF AnswerInv, OnItsWay
<1>8. CASE K!Recleaned
  <2>1. card_answers # <<>> /\ card_answers = <<edited>> /\ Cleaning /\ ~Cleans
    BY <1>8 DEF K!Recleaned, AnswerInv, OnItsWay, Cleaning
  <2>2. card_answers' = <<>> /\ Head(card_answers) = edited
    BY <1>8, <2>1 DEF K!Recleaned
  <2>3. UNCHANGED card_calls /\ card'.edit = card.edit /\ K!Body' = edited
    BY <1>8, <2>2 DEF K!Recleaned, CardTyped, Faces, K!Body
  <2>4. ~card.edit
    BY <2>1 DEF AnswerInv, OnItsWay
  <2>5. ~Cleans' /\ ~Cleaning'
    BY <2>1, <2>2, <2>3 DEF Cleans, Cleaning
  <2>6. \A i \in 1..Len(card_calls') : ~Carries(card_calls'[i])
    BY <2>1, <2>3 DEF AnswerInv, OnItsWay
  <2>7. \A t \in K!Threads : work'[t].pc = "asked" => work'[t].text = K!NoText
    BY <1>1, <2>1 DEF AnswerInv, OnItsWay
  <2>8. \A i, j \in 1..Len(card_calls') : card_calls'[i].what = "reclean" /\ card_calls'[j].what = "reclean" => i = j
    BY <2>3 DEF AnswerInv, OnItsWay
  <2> QED
    BY <1>1, <2>2, <2>3, <2>4, <2>5, <2>6, <2>7, <2>8 DEF AnswerInv, OnItsWay
<1>9. CASE K!HandOver
  <2>1. /\ UNCHANGED card_answers /\ card'.edit = card.edit /\ card'.raw = card.raw
        /\ ~card'.countdown /\ K!Body' = K!Body
        /\ card.countdown \/ K!Followed
    BY <1>9 DEF K!HandOver, K!Unhurried, CardTyped, Faces, K!Body
  <2>2. ~Cleaning
    BY <1>3, <2>1 DEF AnswerInv, OnItsWay
  <2>3. PICK what \in {"transfer", "copy"} : K!Send(what, K!Body)
    BY <1>9 DEF K!HandOver
  <2> QED
    BY <1>1, <1>2, <2>1, <2>2, <2>3, SendKeepsAnswers
<1>10. CASE K!ClickCancel \/ K!CloseTimer
  <2>1. /\ UNCHANGED card_answers /\ card'.edit = card.edit /\ card'.raw = card.raw
        /\ card'.countdown = card.countdown /\ K!Body' = K!Body
    BY <1>10 DEF K!ClickCancel, K!CloseTimer, CardTyped, Faces, K!Body
  <2>2. PICK what \in {"cancel", "close"} : K!Send(what, K!NoText)
    BY <1>10 DEF K!ClickCancel, K!CloseTimer
  <2> QED
    BY <1>1, <1>2, <2>1, <2>2, SendKeepsAnswers
<1>11. CASE K!PageHandles
  <2>1. /\ UNCHANGED <<card_calls, card_answers>> /\ card'.edit = card.edit /\ card'.raw = card.raw
        /\ ~card'.countdown /\ K!Body' = K!Body
    BY <1>11 DEF K!PageHandles, CardTyped, Faces, K!Body
  <2>2. Cleans' = Cleans /\ Cleaning' = Cleaning /\ Tells' = Tells
    BY <2>1 DEF Cleans, Cleaning, Tells
  <2> QED
    BY <1>1, <2>1, <2>2 DEF AnswerInv, OnItsWay
<1> QED
  BY <1>4, <1>5, <1>6, <1>7, <1>8, <1>9, <1>10, <1>11 DEF K!Page

(* The threads that are asked to hand over the text, or the answer itself. *)
LEMMA AskedForTheAnswer ==
  ASSUME CardTyped, NEW words, K!Spawn(words) \/ \E t \in K!Threads : K!CopyOn(t, words)
  PROVE  \A u \in K!Threads : work'[u] = work[u] \/ work'[u].text = words
<1>1. PICK t \in K!Threads, c \in {auto.paste, FALSE} :
        work' = [work EXCEPT ![t] = [pc |-> "asked", text |-> words, chord |-> c]]
  BY DEF K!Spawn, K!CopyOn, K!Threads
<1>2. work'[t].text = words /\ \A u \in K!Threads \ {t} : work'[u] = work[u]
  BY <1>1 DEF CardTyped
<1> QED
  BY <1>2

LEMMA CoreKeepsAnswers ==
  ASSUME CardTyped, AnswerInv, K!Core, card_mode = "Result", card_mode' = "Result"
  PROVE  AnswerInv'
<1>1. UNCHANGED card /\ K!Body' = K!Body
  BY DEF K!Core, K!Edited, K!Reclean, K!HandsOver, K!Closes, K!HookKey, K!NextRecording, K!Body
<1>2. ~K!Closes /\ ~K!NextRecording /\ ~K!Close
  BY DEF K!Closes, K!NextRecording, K!Close
<1>3. CASE K!HookKey
  <2>1. /\ UNCHANGED <<card_calls, card_answers, edited>>
        /\ K!Spawn(K!NoText) \/ \E t \in K!Threads : K!CopyOn(t, K!NoText)
    BY <1>2, <1>3 DEF K!HookKey, K!core, K!Threads
  <2>2. \A u \in K!Threads : work'[u] = work[u] \/ work'[u].text = K!NoText
    BY <2>1, AskedForTheAnswer
  <2>3. Cleans' = Cleans /\ Cleaning' = Cleaning /\ Tells' = Tells
    BY <2>1 DEF Cleans, Cleaning, Tells
  <2> QED
    BY <1>1, <2>1, <2>2, <2>3 DEF AnswerInv, OnItsWay
<1>4. CASE K!Edited \/ K!Reclean \/ K!HandsOver
  <2> DEFINE c == Head(card_calls)
  <2>1. card_calls # <<>> /\ card_calls' = Tail(card_calls)
    BY <1>4 DEF K!Edited, K!Reclean, K!HandsOver, K!Handles
  <2>2. /\ 1 \in 1..Len(card_calls) /\ c = card_calls[1]
        /\ \A i \in 1..Len(card_calls') : i + 1 \in 1..Len(card_calls) /\ card_calls'[i] = card_calls[i + 1]
        /\ \A i \in 1..Len(card_calls) : i # 1 => i - 1 \in 1..Len(card_calls') /\ card_calls'[i - 1] = card_calls[i]
    BY <2>1, FromTheFront DEF CardTyped
  <2>3. K!Edited => c.what = "edited"
    BY DEF K!Edited, K!Handles
  <2>4. K!Reclean => c.what = "reclean"
    BY DEF K!Reclean, K!Handles
  <2>5. K!HandsOver => c.what \in {"transfer", "copy"}
    BY DEF K!HandsOver, K!Handles
  <2> HIDE DEF c
  <2>6. Cleans' => Cleans
    BY <2>2 DEF Cleans
  <2>7. \A i \in 1..Len(card_calls') : Carries(card_calls'[i]) => card_calls'[i].text = K!Body' /\ ~Cleaning
    BY <1>1, <2>2 DEF AnswerInv, OnItsWay
  <2>8. \A i, j \in 1..Len(card_calls') : card_calls'[i].what = "reclean" /\ card_calls'[j].what = "reclean" => i = j
    <3> SUFFICES ASSUME NEW i \in 1..Len(card_calls'), NEW j \in 1..Len(card_calls'),
                        card_calls'[i].what = "reclean", card_calls'[j].what = "reclean"
                 PROVE  i = j
      OBVIOUS
    <3>1. /\ i + 1 \in 1..Len(card_calls) /\ card_calls[i + 1].what = "reclean"
          /\ j + 1 \in 1..Len(card_calls) /\ card_calls[j + 1].what = "reclean"
      BY <2>2
    <3>2. \A k, l \in 1..Len(card_calls) : card_calls[k].what = "reclean" /\ card_calls[l].what = "reclean" => k = l
      BY <1>1 DEF AnswerInv, OnItsWay
    <3>3. i + 1 = j + 1
      BY <3>1, <3>2
    <3> QED
      BY <3>3
  <2>9. CASE K!Reclean
    <3>1. ~Cleans'
      <4> SUFFICES ASSUME NEW i \in 1..Len(card_calls'), card_calls'[i].what = "reclean" PROVE FALSE
        BY DEF Cleans
      <4>1. i + 1 = 1
        BY <2>2, <2>4, <2>9 DEF AnswerInv, OnItsWay
      <4> QED
        BY <4>1
    <3>2. Cleans /\ Cleaning
      BY <2>2, <2>4, <2>9 DEF Cleans, Cleaning
    <3>3. card_answers = <<>> /\ ~card.edit /\ ~card.countdown
      BY <3>2 DEF AnswerInv, OnItsWay
    <3>4. edited' = c.text /\ card_answers' = Append(card_answers, c.text) /\ UNCHANGED work
      BY <2>9 DEF K!Reclean, K!threads, c
    <3>5. card_answers' = <<edited'>>
      BY <3>3, <3>4
    <3>6. Cleaning' /\ card_answers' # <<>>
      BY <3>5 DEF Cleaning
    <3>7. \A i \in 1..Len(card_calls') : ~Carries(card_calls'[i])
      BY <2>7, <3>2
    <3>8. \A t \in K!Threads : work'[t].pc = "asked" => work'[t].text = K!NoText
      BY <3>2, <3>4 DEF AnswerInv, OnItsWay
    <3> QED
      BY <1>1, <2>8, <3>1, <3>3, <3>5, <3>6, <3>7, <3>8 DEF AnswerInv, OnItsWay
  <2>10. CASE K!Edited \/ K!HandsOver
    <3>1. UNCHANGED card_answers /\ c.text = K!Body /\ ~Cleaning
      BY <2>2, <2>3, <2>5, <2>10 DEF K!Edited, K!HandsOver, AnswerInv, OnItsWay, Carries
    <3>2. ~Cleans' /\ ~Cleaning' /\ card_answers' = <<>>
      BY <2>6, <3>1 DEF Cleaning
    <3>3. CASE K!Edited
      <4>1. edited' = K!Body' /\ UNCHANGED work
        BY <1>1, <3>1, <3>3 DEF K!Edited, K!threads, c
      <4> QED
        BY <1>1, <2>7, <2>8, <3>1, <3>2, <4>1 DEF AnswerInv, OnItsWay
    <3>4. CASE K!HandsOver
      <4>1. UNCHANGED edited /\ (K!Spawn(c.text) \/ \E t \in K!Threads : K!CopyOn(t, c.text))
        BY <3>4 DEF K!HandsOver, K!core, c, K!Threads
      <4>2. \A u \in K!Threads : work'[u] = work[u] \/ work'[u].text = K!Body
        BY <3>1, <4>1, AskedForTheAnswer
      <4>3. Tells => Tells'
        <5> SUFFICES ASSUME NEW i \in 1..Len(card_calls), card_calls[i].what = "edited" PROVE Tells'
          BY DEF Tells
        <5>1. i # 1
          BY <2>2, <2>5, <3>4
        <5> QED
          BY <2>2, <5>1 DEF Tells
      <4> QED
        BY <1>1, <2>7, <2>8, <3>1, <3>2, <4>1, <4>2, <4>3 DEF AnswerInv, OnItsWay
    <3> QED
      BY <2>10, <3>3, <3>4
  <2> QED
    BY <1>4, <2>9, <2>10
<1> QED
  BY <1>2, <1>3, <1>4 DEF K!Core

LEMMA ThreadKeepsAnswers ==
  ASSUME CardTyped, AnswerInv, NEW t \in K!Threads, K!Transfer(t), card_mode = "Result", card_mode' = "Result"
  PROVE  AnswerInv'
<1>1. UNCHANGED <<card, card_calls, card_answers>> /\ K!Body' = K!Body
  BY DEF K!Transfer, K!Read, K!Write, K!Tell, K!Lock, K!TakesDown, K!Press, K!Body
<1>2. Cleans' = Cleans /\ Cleaning' = Cleaning /\ Tells' = Tells
  BY <1>1 DEF Cleans, Cleaning, Tells
<1>3. work'[t].pc # "asked" /\ \A u \in K!Threads \ {t} : work'[u] = work[u]
  BY DEF K!Transfer, K!Read, K!Write, K!Tell, K!Lock, K!TakesDown, K!Press, K!Goto, K!Ends, K!Rest,
         CardTyped, Handing
<1>4. edited' = edited \/ (edited' = K!Body /\ ~Cleaning)
  <2>1. CASE K!Read(t)
    BY <2>1 DEF K!Read, AnswerInv, OnItsWay
  <2>2. CASE ~K!Read(t)
    BY <2>2 DEF K!Transfer, K!Write, K!Tell, K!Lock, K!TakesDown, K!Press, K!Close, K!core
  <2> QED
    BY <2>1, <2>2
<1>5. \A u \in K!Threads : work'[u].pc = "asked" => work'[u] = work[u]
  BY <1>3
<1>6. Cleaning \/ card_answers = <<>>
  BY DEF Cleaning
<1> QED
  BY <1>1, <1>2, <1>4, <1>5, <1>6 DEF AnswerInv, OnItsWay

-----------------------------------------------------------------------------
LEMMA CardInvHoldsAtFirst ==
  ASSUME K!Init
  PROVE  CardTyped /\ CopyInv /\ AnswerInv
<1>1. Len(<<>>) = 0
  BY EmptySeq
<1>2. CardTyped
  BY TextsAreDictated DEF K!Init, CardTyped, Faces, FeedEvents
<1>3. CopyInv
  BY <1>1 DEF K!Init, CopyInv, IsCopied, K!NothingIsLost, K!ChordPastesTheCopy, K!Rest
<1>4. AnswerInv
  BY <1>1 DEF K!Init, AnswerInv, OnItsWay, Cleans, Cleaning, Tells, K!Body, K!Rest
<1> QED
  BY <1>2, <1>3, <1>4

LEMMA EveryStepCopies ==
  ASSUME "theirs" \notin Pills, CardTyped, CopyInv, [K!Next]_(K!vars)
  PROVE  CardTyped' /\ CopyInv'
<1>1. CASE UNCHANGED K!vars
  BY <1>1 DEF K!vars, K!core, K!threads, CardTyped, CopyInv, IsCopied, K!NothingIsLost, K!ChordPastesTheCopy
<1> QED
  BY <1>1, TheCardIsTyped, ThePanelIsTyped, ThreadIsTyped, PageKeepsCopies, CoreKeepsCopies, ThreadKeepsCopies
     DEF K!Next

LEMMA EveryStepAnswers ==
  ASSUME "haste" \notin CardDisturbances, CardTyped, AnswerInv, [K!Next]_(K!vars)
  PROVE  CardTyped' /\ AnswerInv'
<1>1. CASE UNCHANGED K!vars
  <2>1. K!Body' = K!Body /\ Cleans' = Cleans /\ Cleaning' = Cleaning /\ Tells' = Tells
    BY <1>1 DEF K!vars, K!core, K!threads, K!Body, Cleans, Cleaning, Tells
  <2> QED
    BY <1>1, <2>1 DEF K!vars, K!core, K!threads, CardTyped, AnswerInv, OnItsWay
<1>2. CASE K!Next
  <2>1. CardTyped'
    BY <1>2, TheCardIsTyped, ThePanelIsTyped, ThreadIsTyped DEF K!Next
  <2>2. card_mode' = "Result" => card_mode = "Result"
    BY <1>2 DEF K!Next, K!Page, K!Type, K!EditTimer, K!ToggleRaw, K!ClickPill, K!Recleaned, K!HandOver,
           K!ClickCancel, K!CloseTimer, K!PageHandles, K!Core, K!Edited, K!Reclean, K!HandsOver, K!Closes,
           K!HookKey, K!NextRecording, K!Transfer, K!Read, K!Write, K!Tell, K!Lock, K!TakesDown, K!Press,
           K!Close, K!core
  <2>3. CASE card_mode' # "Result"
    BY <2>1, <2>3 DEF AnswerInv
  <2>4. CASE card_mode' = "Result"
    <3>1. CASE K!Page
      BY <2>1, <2>2, <2>4, <3>1, PageKeepsAnswers
    <3>2. CASE K!Core
      BY <2>1, <2>2, <2>4, <3>2, CoreKeepsAnswers
    <3>3. CASE \E t \in K!Threads : K!Transfer(t)
      BY <2>1, <2>2, <2>4, <3>3, ThreadKeepsAnswers
    <3> QED
      BY <1>2, <3>1, <3>2, <3>3 DEF K!Next
  <2> QED
    BY <2>1, <2>3, <2>4
<1> QED
  BY <1>1, <1>2

(* panel.rs:577-579, 631-645: whatever fails and however hasty the user    *)
(* is, a card that went without its user's word left the dictation on the  *)
(* clipboard, and no chord pastes anything else.                           *)
THEOREM TheTextIsNotLost ==
  ASSUME "theirs" \notin Pills
  PROVE  K!Spec => [](K!NothingIsLost /\ K!ChordPastesTheCopy)
<1>1. K!Init => CardTyped /\ CopyInv
  BY CardInvHoldsAtFirst
<1>2. CardTyped /\ CopyInv /\ [K!Next]_(K!vars) => (CardTyped /\ CopyInv)'
  BY EveryStepCopies
<1>3. CopyInv => K!NothingIsLost /\ K!ChordPastesTheCopy
  BY DEF CopyInv
<1> QED
  BY <1>1, <1>2, <1>3, PTL DEF K!Spec

(* panel.js:332-333, panel.rs:196-200: for a user who waits for the card   *)
(* to follow, what Enter sends is the answer on it.                        *)
THEOREM WhatEnterSends ==
  ASSUME "haste" \notin CardDisturbances
  PROVE  K!Spec => []K!EnterSendsTheAnswer
<1>1. K!Init => CardTyped /\ AnswerInv
  BY CardInvHoldsAtFirst
<1>2. CardTyped /\ AnswerInv /\ [K!Next]_(K!vars) => (CardTyped /\ AnswerInv)'
  BY EveryStepAnswers
<1>3. AnswerInv => K!EnterSendsTheAnswer
  <2>1. K!Followed => ~Cleaning /\ ~Tells
    BY EmptySeq DEF K!Followed, Cleans, Cleaning, Tells
  <2> QED
    BY <2>1 DEF AnswerInv, OnItsWay, K!EnterSendsTheAnswer
<1> QED
  BY <1>1, <1>2, <1>3, PTL DEF K!Spec

-----------------------------------------------------------------------------
(* Clipboard.                                                              *)
Stages == {"idle", "read", "offer", "chord", "wait", "taken", "untaken", "undo", "copy", "done"}
Gone   == [C!Loop EXCEPT !.job = "gone"]

(* The transfer that waits for the agent, and the job it waits for.        *)
Inactive(t) == where[t] \in {"idle", "done"}
Waits(t)    == where[t] \in {"read", "offer", "taken", "untaken", "undo", "copy"}

JobOf(t) ==
  IF where[t] = "read" THEN C!Job("read", t, C!Nothing)
  ELSE IF where[t] = "offer" THEN C!Job("offer", t, t)
  ELSE IF where[t] = "copy" THEN C!Job("set", t, t)
  ELSE C!Job("restore", t, previous[t])

Resting   == agent \in {C!Loop, C!Drain, Gone}
Posted(t) == jobs = <<JobOf(t)>> /\ Resting /\ replies[t] = <<>>
Doing(t)  == jobs = <<>> /\ agent = JobOf(t) /\ replies[t] = <<>>
Told(t)   == jobs = <<>> /\ Resting /\ replies[t] = <<Head(replies[t])>>

AgentInv ==
  /\ where \in [Transfers -> Stages]
  /\ DOMAIN previous = Transfers /\ DOMAIN replies = Transfers /\ DOMAIN outcome = Transfers
  /\ DOMAIN got = Transfers
  /\ \A t, u \in Transfers : t # u => Inactive(t) \/ Inactive(u)
  /\ \A t \in Transfers : IF Waits(t) THEN Posted(t) \/ Doing(t) \/ Told(t) ELSE replies[t] = <<>>
  /\ (\A t \in Transfers : ~Waits(t)) => jobs = <<>> /\ Resting

(* What the clipboard holds, where nobody was kept out of it and no other  *)
(* program copied: what the user wants there, or nothing where a write     *)
(* failed after it had emptied it.                                         *)
Wanted(x) == x = wanted \/ ("emptied" \in upset /\ x = C!Nothing)
AsWanted  == Wanted(clip) /\ ~promised

Holds(t) ==
  /\ where[t] \in {"idle", "done", "read", "copy"} => AsWanted
  /\ where[t] = "read" /\ replies[t] # <<>> => Wanted(Head(replies[t]).text)
  /\ where[t] \in {"offer", "chord", "wait", "taken", "untaken", "undo"} => Wanted(previous[t])
  /\ where[t] = "offer" => IF replies[t] # <<>> /\ Head(replies[t]).ok THEN clip = t ELSE AsWanted
  /\ where[t] \in {"chord", "wait"} => clip = t
  /\ where[t] \in {"taken", "untaken", "undo"} /\ replies[t] # <<>> => AsWanted

Peaceful == "refused" \notin upset /\ copied = {}

ClipInv ==
  /\ agent = Gone \/ (offer # C!Nobody => owner = "dile" /\ offer = clip)
  /\ "refused" \notin upset /\ promised => (offer = clip /\ offer # C!Nobody) \/ agent.job \in {"set", "restore"}
  /\ agent.job \in {"set", "restore"} => offer = C!Nobody
  /\ agent = Gone => ~promised
  /\ Peaceful /\ (\A t \in Transfers : Inactive(t)) => AsWanted
  /\ Peaceful => \A t \in Transfers : ~Inactive(t) => Holds(t)

(* Where a raised receipt shows: a window has the text, or has it before   *)
(* it with the clipboard open.                                             *)
Undisturbed == upset \subseteq {"emptied"} /\ copied = {}

Handed(t) == (\E u \in Transfers : got[u] = t) \/ (holder \in Transfers /\ clip = t /\ ~promised)

HandedInv ==
  /\ holder = "snoop" => "snooped" \in upset
  /\ holder \in Transfers => got[holder] = C!Nobody /\ C!ChordSent(holder)
  /\ \A t \in Transfers : /\ got[t] # C!Nobody => C!ChordSent(t)
                          /\ where[t] # "done" => outcome[t] = "none"
                          /\ where[t] = "taken" => t \in raised
  /\ Undisturbed => \A t \in Transfers :
       /\ agent # Gone /\ t \in raised => Handed(t)
       /\ where[t] = "taken" /\ replies[t] # <<>> => Handed(t)
       /\ outcome[t] = "Pasted" => Handed(t)
       /\ where[t] = "wait" /\ got[t] # C!Nobody => got[t] = t

-----------------------------------------------------------------------------
(* A job, its answer, and a queue of one.                                  *)
LEMMA OneInTheQueue ==
  ASSUME NEW x
  PROVE  /\ <<x>> # <<>> /\ Head(<<x>>) = x /\ Tail(<<x>>) = <<>> /\ Append(<<>>, x) = <<x>>
         /\ <<x>> = <<Head(<<x>>)>>
OBVIOUS

LEMMA JobsAreJobs ==
  /\ \A t : JobOf(t).for = t /\ JobOf(t).job \in {"read", "set", "offer", "restore"}
  /\ C!Loop.job = "none" /\ C!Drain.job = "next" /\ Gone.job = "gone"
BY DEF JobOf, C!Job, C!Loop, C!Drain, Gone

LEMMA RestingIsNotDoing ==
  ASSUME NEW t, agent = JobOf(t)
  PROVE  ~Resting /\ agent.for = t /\ agent.job \in {"read", "set", "offer", "restore"} /\ agent # Gone
<1>1. agent.for = t /\ agent.job \in {"read", "set", "offer", "restore"}
  BY JobsAreJobs
<1> HIDE DEF JobOf, C!Loop, C!Drain, Gone
<1>2. agent # C!Loop /\ agent # C!Drain /\ agent # Gone
  BY <1>1, JobsAreJobs
<1> QED
  BY <1>1, <1>2 DEF Resting

LEMMA InactiveWaitsForNothing ==
  ASSUME NEW t, Inactive(t)
  PROVE  ~Waits(t)
BY DEF Inactive, Waits

(* A busy agent works for the one transfer that waits; and so does a queue *)
(* that is not empty.                                                      *)
LEMMA TheBusyAgent ==
  ASSUME AgentInv, ~Resting
  PROVE  \E t \in Transfers : Waits(t) /\ Doing(t) /\ \A u \in Transfers \ {t} : Inactive(u)
<1>1. PICK t \in Transfers : Waits(t)
  BY DEF AgentInv
<1>2. Doing(t)
  BY <1>1 DEF AgentInv, Posted, Told
<1>3. ~Inactive(t)
  BY <1>1, InactiveWaitsForNothing
<1> QED
  BY <1>1, <1>2, <1>3 DEF AgentInv

LEMMA TheQueue ==
  ASSUME AgentInv, jobs # <<>>
  PROVE  \E t \in Transfers : Waits(t) /\ Posted(t) /\ \A u \in Transfers \ {t} : Inactive(u)
<1>1. PICK t \in Transfers : Waits(t)
  BY DEF AgentInv
<1>2. Posted(t)
  BY <1>1 DEF AgentInv, Doing, Told
<1>3. ~Inactive(t)
  BY <1>1, InactiveWaitsForNothing
<1> QED
  BY <1>1, <1>2, <1>3 DEF AgentInv

(* The agent goes on with a job, or answers it.                            *)
LEMMA AgentGoesOn ==
  ASSUME AgentInv, NEW t \in Transfers, Waits(t), \A u \in Transfers \ {t} : Inactive(u),
         UNCHANGED <<where, previous, outcome, got>>, DOMAIN replies' = Transfers,
         \A u \in Transfers \ {t} : replies'[u] = replies[u],
         Posted(t)' \/ Doing(t)' \/ Told(t)'
  PROVE  AgentInv'
<1>1. \A u \in Transfers \ {t} : ~Waits(u)
  BY InactiveWaitsForNothing
<1>2. /\ \A u \in Transfers : Waits(u)' = Waits(u) /\ Inactive(u)' = Inactive(u)
      /\ where' = where
  BY DEF Waits, Inactive
<1> QED
  BY <1>1, <1>2 DEF AgentInv

LEMMA AgentAnswers ==
  ASSUME AgentInv, NEW t \in Transfers, Waits(t), Doing(t), \A u \in Transfers \ {t} : Inactive(u),
         NEW a, C!Answer(a), UNCHANGED <<jobs, where, previous, outcome, got>>
  PROVE  AgentInv' /\ replies'[t] = <<a>> /\ \A u \in Transfers \ {t} : replies'[u] = replies[u]
<1>1. replies' = [replies EXCEPT ![t] = <<a>>] /\ agent' = C!Drain /\ jobs' = <<>>
  BY RestingIsNotDoing, OneInTheQueue DEF C!Answer, Doing
<1>2. DOMAIN replies' = Transfers /\ replies'[t] = <<a>> /\ \A u \in Transfers \ {t} : replies'[u] = replies[u]
  BY <1>1 DEF AgentInv
<1>3. Told(t)'
  BY <1>1, <1>2, OneInTheQueue DEF Told, Resting
<1> QED
  BY <1>2, <1>3, AgentGoesOn

LEMMA AgentSteps ==
  ASSUME AgentInv, C!Agent
  PROVE  AgentInv'
<1>1. UNCHANGED <<where, previous, outcome, got>>
  BY DEF C!Agent, C!TakeJob, C!DrainEnds, C!ReadText, C!WriteText, C!WriteOffer, C!WriteFails, C!Refused,
         C!Render, C!Exit, C!caller
<1>2. CASE C!TakeJob
  <2>1. jobs # <<>> /\ agent' = Head(jobs) /\ jobs' = Tail(jobs) /\ UNCHANGED replies
    BY <1>2 DEF C!TakeJob, C!caller
  <2>2. PICK t \in Transfers : Waits(t) /\ Posted(t) /\ \A u \in Transfers \ {t} : Inactive(u)
    BY <2>1, TheQueue
  <2>3. JobOf(t)' = JobOf(t)
    BY <1>1 DEF JobOf
  <2>4. Doing(t)'
    BY <2>1, <2>2, <2>3, OneInTheQueue DEF Posted, Doing
  <2> QED
    BY <1>1, <2>1, <2>2, <2>4, AgentGoesOn DEF AgentInv
<1>3. CASE C!DrainEnds \/ C!Exit
  <2>1. agent \in {C!Loop, C!Drain} /\ agent' \in {C!Loop, Gone} /\ UNCHANGED <<jobs, replies>> /\ jobs = <<>>
    BY <1>3 DEF C!DrainEnds, C!Exit, C!caller, Gone
  <2>2. Resting /\ Resting'
    BY <2>1 DEF Resting
  <2>3. \A t \in Transfers : /\ ~Doing(t) /\ ~Posted(t) /\ (Told(t) => Told(t)')
                            /\ Waits(t)' = Waits(t) /\ Inactive(t)' = Inactive(t)
    <3> SUFFICES ASSUME NEW t \in Transfers
                 PROVE  /\ ~Doing(t) /\ ~Posted(t) /\ (Told(t) => Told(t)')
                        /\ Waits(t)' = Waits(t) /\ Inactive(t)' = Inactive(t)
      OBVIOUS
    <3>1. ~Doing(t)
      BY <2>2, RestingIsNotDoing DEF Doing
    <3>2. ~Posted(t)
      BY <2>1, OneInTheQueue DEF Posted
    <3> QED
      BY <1>1, <2>1, <2>2, <3>1, <3>2 DEF Told, Waits, Inactive
  <2> QED
    BY <1>1, <2>1, <2>2, <2>3 DEF AgentInv
<1>4. CASE C!ReadText \/ C!WriteText \/ C!WriteOffer \/ C!WriteFails \/ C!Refused
  <2>1. UNCHANGED jobs /\ agent.job \in {"read", "set", "offer", "restore"} /\ \E a : C!Answer(a)
    BY <1>4 DEF C!ReadText, C!WriteText, C!WriteOffer, C!WriteFails, C!Refused
  <2>2. ~Resting
    BY <2>1, JobsAreJobs DEF Resting
  <2> QED
    BY <1>1, <2>1, <2>2, TheBusyAgent, AgentAnswers
<1>5. CASE C!Render
  BY <1>1, <1>5 DEF C!Render, C!caller, AgentInv, Waits, Inactive, Posted, Doing, Told, Resting, JobOf
<1> QED
  BY <1>2, <1>3, <1>4, <1>5 DEF C!Agent

(* A transfer's thread does a step; the others have not begun or are done. *)
LEMMA ThreadGoesOn ==
  ASSUME AgentInv, NEW t \in Transfers, NEW p \in Stages, C!Goto(t, p), \A u \in Transfers \ {t} : Inactive(u),
         DOMAIN previous' = Transfers, DOMAIN replies' = Transfers, DOMAIN outcome' = Transfers,
         UNCHANGED got, \A u \in Transfers \ {t} : replies'[u] = replies[u],
         IF Waits(t)' THEN Posted(t)' \/ Doing(t)' \/ Told(t)' ELSE replies'[t] = <<>> /\ jobs' = <<>> /\ Resting'
  PROVE  AgentInv'
<1>1. where' \in [Transfers -> Stages] /\ \A u \in Transfers \ {t} : where'[u] = where[u]
  BY DEF C!Goto, AgentInv
<1>2. \A u \in Transfers \ {t} : Inactive(u)' /\ ~Waits(u)' /\ ~Waits(u)
  BY <1>1, InactiveWaitsForNothing DEF Inactive, Waits
<1> QED
  BY <1>1, <1>2 DEF AgentInv

LEMMA TheOthersAreInactive ==
  ASSUME AgentInv, NEW t \in Transfers, ~Inactive(t)
  PROVE  \A u \in Transfers \ {t} : Inactive(u)
BY DEF AgentInv

(* The answer of a transfer that has one: it is there, and nothing else.   *)
LEMMA TheAnswerIsThere ==
  ASSUME AgentInv, NEW t \in Transfers, Waits(t), replies[t] # <<>>
  PROVE  /\ Told(t) /\ Tail(replies[t]) = <<>> /\ \A u \in Transfers \ {t} : Inactive(u)
<1>1. Told(t)
  BY DEF AgentInv, Posted, Doing
<1>2. ~Inactive(t)
  BY InactiveWaitsForNothing
<1> QED
  BY <1>1, <1>2, TheOthersAreInactive, OneInTheQueue DEF Told

LEMMA ThreadSteps ==
  ASSUME "overlap" \notin ClipboardDisturbances, AgentInv, NEW t \in Transfers, C!Transfer(t)
  PROVE  AgentInv' /\ \A u \in Transfers \ {t} : Inactive(u)
<1>1. UNCHANGED <<agent, got>> /\ (Resting => Resting') /\ (Resting = Resting')
  BY DEF C!Transfer, C!Begin, C!Found, C!Offered, C!SendChord, C!Waited, C!Restored, C!Copy, C!Copied,
         Resting, C!thread
<1>2. CASE C!Begin(t) \/ C!Copy(t)
  <2>1. where[t] = "idle" /\ \A u \in Transfers \ {t} : Inactive(u)
    BY <1>2 DEF C!Begin, C!Copy, C!Alone, Inactive
  <2>2. \A u \in Transfers : ~Waits(u)
    BY <2>1 DEF Inactive, Waits
  <2>3. jobs = <<>> /\ Resting /\ replies[t] = <<>>
    BY <2>2 DEF AgentInv
  <2>4. UNCHANGED <<previous, replies>>
    BY <1>2 DEF C!Begin, C!Copy
  <2>5. CASE C!Copy(t)
    <3>1. C!Goto(t, "copy") /\ where'[t] = "copy" /\ UNCHANGED outcome
      BY <2>5 DEF C!Copy, C!Goto, AgentInv
    <3>2. jobs' = <<JobOf(t)'>> /\ Waits(t)'
      BY <2>3, <2>5, <3>1, OneInTheQueue DEF C!Copy, C!Post, JobOf, Waits
    <3>3. Posted(t)'
      BY <1>1, <2>3, <2>4, <3>2 DEF Posted
    <3> QED
      BY <1>1, <2>1, <2>4, <3>1, <3>2, <3>3, ThreadGoesOn DEF AgentInv, Stages
  <2>6. CASE C!Goto(t, "read") /\ C!Post(C!Job("read", t, C!Nothing)) /\ UNCHANGED outcome
    <3>1. C!Goto(t, "read") /\ where'[t] = "read" /\ UNCHANGED outcome
      BY <2>6 DEF C!Goto, AgentInv
    <3>2. jobs' = <<JobOf(t)'>> /\ Waits(t)'
      BY <2>3, <2>6, <3>1, OneInTheQueue DEF C!Post, JobOf, Waits
    <3>3. Posted(t)'
      BY <1>1, <2>3, <2>4, <3>2 DEF Posted
    <3> QED
      BY <1>1, <2>1, <2>4, <3>1, <3>2, <3>3, ThreadGoesOn DEF AgentInv, Stages
  <2>7. CASE C!End(t, "TargetGone") /\ UNCHANGED jobs
    <3>1. C!Goto(t, "done") /\ where'[t] = "done" /\ DOMAIN outcome' = Transfers
      BY <2>7 DEF C!End, C!Goto, AgentInv
    <3>2. ~Waits(t)'
      BY <3>1 DEF Waits
    <3> QED
      BY <1>1, <2>1, <2>3, <2>4, <2>7, <3>1, <3>2, ThreadGoesOn DEF AgentInv, Stages
  <2> QED
    BY <1>2, <2>5, <2>6, <2>7 DEF C!Begin
<1>3. CASE C!Found(t) \/ C!Offered(t) \/ C!Restored(t) \/ C!Copied(t)
  <2>1. Waits(t) /\ replies[t] # <<>> /\ replies' = [replies EXCEPT ![t] = Tail(@)]
    BY <1>3 DEF C!Found, C!Offered, C!Restored, C!Copied, Waits
  <2>2. Told(t) /\ Tail(replies[t]) = <<>> /\ \A u \in Transfers \ {t} : Inactive(u)
    BY <2>1, TheAnswerIsThere
  <2>3. /\ jobs = <<>> /\ Resting' /\ replies'[t] = <<>> /\ DOMAIN replies' = Transfers
        /\ \A u \in Transfers \ {t} : replies'[u] = replies[u]
    BY <1>1, <2>1, <2>2 DEF Told, AgentInv
  <2>4. CASE C!Found(t)
    <3>1. C!Goto(t, "offer") /\ where'[t] = "offer" /\ UNCHANGED outcome /\ DOMAIN previous' = Transfers
      BY <2>4 DEF C!Found, C!Goto, AgentInv
    <3>2. jobs' = <<JobOf(t)'>> /\ Waits(t)'
      BY <2>3, <2>4, <3>1, OneInTheQueue DEF C!Found, C!Post, JobOf, Waits
    <3>3. Posted(t)'
      BY <2>3, <3>2 DEF Posted
    <3> QED
      BY <1>1, <2>2, <2>3, <3>1, <3>2, <3>3, ThreadGoesOn DEF AgentInv, Stages
  <2>5. CASE C!Offered(t) \/ C!Restored(t) \/ C!Copied(t)
    <3>1. UNCHANGED <<jobs, previous>> /\ DOMAIN outcome' = Transfers
      BY <2>5 DEF C!Offered, C!Restored, C!Copied, C!End, C!thread, AgentInv
    <3>2. PICK p \in {"chord", "done"} : C!Goto(t, p)
      BY <2>5 DEF C!Offered, C!Restored, C!Copied, C!End
    <3>3. where'[t] = p
      BY <3>2 DEF C!Goto, AgentInv
    <3>4. ~Waits(t)'
      BY <3>3 DEF Waits
    <3> QED
      BY <1>1, <2>2, <2>3, <3>1, <3>2, <3>4, ThreadGoesOn DEF AgentInv, Stages
  <2> QED
    BY <1>3, <2>4, <2>5
<1>4. CASE C!SendChord(t) \/ C!Waited(t)
  <2>1. ~Waits(t) /\ ~Inactive(t) /\ UNCHANGED <<previous, replies, outcome>>
    BY <1>4 DEF C!SendChord, C!Waited, Waits, Inactive
  <2>2. \A u \in Transfers \ {t} : Inactive(u)
    BY <2>1, TheOthersAreInactive
  <2>3. \A u \in Transfers : ~Waits(u)
    BY <2>1, <2>2, InactiveWaitsForNothing
  <2>4. jobs = <<>> /\ Resting' /\ replies'[t] = <<>>
    BY <1>1, <2>1, <2>3 DEF AgentInv
  <2>5. CASE C!Goto(t, "wait") /\ UNCHANGED jobs
    <3>1. ~Waits(t)'
      BY <2>5 DEF C!Goto, AgentInv, Waits
    <3> QED
      BY <1>1, <2>1, <2>2, <2>4, <2>5, <3>1, ThreadGoesOn DEF AgentInv, Stages
  <2>6. CASE \E p \in {"undo", "taken", "untaken"} : C!Goto(t, p) /\ C!Post(C!Job("restore", t, previous[t]))
    <3>1. PICK p \in {"undo", "taken", "untaken"} : C!Goto(t, p) /\ C!Post(C!Job("restore", t, previous[t]))
      BY <2>6
    <3>2. where'[t] = p
      BY <3>1 DEF C!Goto, AgentInv
    <3>3. jobs' = <<JobOf(t)'>> /\ Waits(t)'
      BY <2>1, <2>4, <3>1, <3>2, OneInTheQueue DEF C!Post, JobOf, Waits
    <3>4. Posted(t)'
      BY <2>4, <3>3 DEF Posted
    <3> QED
      BY <1>1, <2>1, <2>2, <2>4, <3>1, <3>3, <3>4, ThreadGoesOn DEF AgentInv, Stages
  <2> QED
    BY <1>4, <2>5, <2>6 DEF C!SendChord, C!Waited
<1> QED
  BY <1>2, <1>3, <1>4 DEF C!Transfer

LEMMA WorldSteps ==
  ASSUME AgentInv, C!World
  PROVE  AgentInv'
<1>1. UNCHANGED <<jobs, agent, C!caller>> /\ DOMAIN got' = Transfers
  BY DEF C!World, C!TargetOpens, C!TargetPastes, C!SnoopOpens, C!SnoopReads, C!OtherOpens, C!OtherCopies,
         C!Open, C!thread, AgentInv
<1> QED
  BY <1>1 DEF C!caller, AgentInv, Waits, Inactive, Posted, Doing, Told, Resting, JobOf

-----------------------------------------------------------------------------
(* What the clipboard holds, step by step.                                 *)
LEMMA WhoseJob ==
  ASSUME NEW t \in Transfers, Waits(t), agent = JobOf(t)
  PROVE  /\ agent.job = "read" => where[t] = "read"
         /\ agent.job = "offer" => where[t] = "offer"
         /\ agent.job = "set" => where[t] = "copy" /\ agent.text = t
         /\ agent.job = "restore" => where[t] \in {"taken", "untaken", "undo"} /\ agent.text = previous[t]
BY DEF Waits, JobOf, C!Job

LEMMA TheTextGoesOn ==
  ASSUME AgentInv, NEW t \in Transfers, ~Inactive(t)', \A u \in Transfers \ {t} : where'[u] = where[u] /\ Inactive(u),
         Peaceful' => Holds(t)'
  PROVE  /\ Peaceful' /\ (\A u \in Transfers : Inactive(u)') => AsWanted'
         /\ Peaceful' => \A u \in Transfers : ~Inactive(u)' => Holds(u)'
<1>1. \A u \in Transfers \ {t} : Inactive(u)'
  BY DEF Inactive
<1> QED
  BY <1>1

LEMMA TextUntouched ==
  ASSUME ClipInv, UNCHANGED <<clip, promised, owner, offer, agent, wanted, where, previous, replies, copied>>,
         \A x \in {"refused", "emptied"} : x \in upset' <=> x \in upset
  PROVE  ClipInv'
<1>1. Peaceful' = Peaceful /\ AsWanted' = AsWanted /\ \A x : Wanted(x)' = Wanted(x)
  BY DEF Peaceful, AsWanted, Wanted
<1>2. \A t \in Transfers : Inactive(t)' = Inactive(t) /\ Holds(t)' = Holds(t)
  BY <1>1 DEF Inactive, Holds
<1> QED
  BY <1>1, <1>2 DEF ClipInv

LEMMA AgentKeepsTheText ==
  ASSUME C!Nobody \notin Transfers, AgentInv, ClipInv, C!Agent
  PROVE  ClipInv'
<1>1. UNCHANGED <<where, previous, outcome, got, copied>>
  BY DEF C!Agent, C!TakeJob, C!DrainEnds, C!ReadText, C!WriteText, C!WriteOffer, C!WriteFails, C!Refused,
         C!Render, C!Exit, C!caller
<1>2. \A t \in Transfers : Inactive(t)' = Inactive(t)
  BY <1>1 DEF Inactive
<1>3. CASE C!TakeJob
  <2>1. /\ jobs # <<>> /\ agent' = Head(jobs) /\ agent \in {C!Loop, C!Drain}
        /\ UNCHANGED <<C!system, replies, wanted, upset>>
        /\ offer' = IF Head(jobs).job \in {"set", "restore"} THEN C!Nobody ELSE offer
    BY <1>3 DEF C!TakeJob, C!caller
  <2>2. PICK t \in Transfers : Waits(t) /\ Posted(t) /\ \A u \in Transfers \ {t} : Inactive(u)
    BY <2>1, TheQueue
  <2>3. agent' = JobOf(t) /\ JobOf(t)' = JobOf(t)
    BY <1>1, <2>1, <2>2, OneInTheQueue DEF Posted, JobOf
  <2>4. agent' # Gone /\ agent # Gone /\ agent.job \notin {"set", "restore"}
    <3> HIDE DEF C!Loop, C!Drain, Gone, JobOf
    <3> QED
      BY <2>1, <2>3, JobsAreJobs
  <2>5. Peaceful' = Peaceful /\ AsWanted' = AsWanted /\ \A x : Wanted(x)' = Wanted(x)
    BY <1>1, <2>1 DEF Peaceful, AsWanted, Wanted, C!system
  <2>6. \A u \in Transfers : Holds(u)' = Holds(u)
    BY <1>1, <2>1, <2>5 DEF Holds, C!system
  <2> QED
    BY <1>2, <2>1, <2>3, <2>4, <2>5, <2>6 DEF ClipInv, C!system
<1>4. CASE C!DrainEnds
  <2>1. agent = C!Drain /\ agent' = C!Loop /\ UNCHANGED <<C!system, offer, replies, wanted, upset>>
    BY <1>4 DEF C!DrainEnds, C!caller
  <2>2. /\ agent # Gone /\ agent' # Gone /\ agent.job \notin {"set", "restore"} /\ agent'.job \notin {"set", "restore"}
    <3> HIDE DEF C!Loop, C!Drain, Gone
    <3> QED
      BY <2>1, JobsAreJobs
  <2>3. Peaceful' = Peaceful /\ AsWanted' = AsWanted /\ \A x : Wanted(x)' = Wanted(x)
    BY <1>1, <2>1 DEF Peaceful, AsWanted, Wanted, C!system
  <2>4. \A u \in Transfers : Holds(u)' = Holds(u)
    BY <1>1, <2>1, <2>3 DEF Holds, C!system
  <2> QED
    BY <1>2, <2>1, <2>2, <2>3, <2>4 DEF ClipInv, C!system
<1>5. CASE C!ReadText \/ C!WriteText \/ C!WriteOffer \/ C!WriteFails \/ C!Refused
  <2>1. UNCHANGED jobs /\ agent.job \in {"read", "set", "offer", "restore"}
    BY <1>5 DEF C!ReadText, C!WriteText, C!WriteOffer, C!WriteFails, C!Refused
  <2>2. ~Resting
    BY <2>1, JobsAreJobs DEF Resting
  <2>3. PICK t \in Transfers : Waits(t) /\ Doing(t) /\ \A u \in Transfers \ {t} : Inactive(u)
    BY <2>2, TheBusyAgent
  <2>4. agent = JobOf(t) /\ ~Inactive(t)
    BY <2>3, InactiveWaitsForNothing DEF Doing
  <2>5. \A a : C!Answer(a) => replies'[t] = <<a>> /\ replies'[t] # <<>> /\ Head(replies'[t]) = a
    BY <1>1, <2>1, <2>3, AgentAnswers, OneInTheQueue
  <2>6. agent # Gone /\ replies[t] = <<>>
    BY <2>2, <2>3 DEF Resting, Doing
  <2>7. \A a : C!Answer(a) => agent' # Gone /\ agent'.job \notin {"set", "restore"}
    <3>1. \A a : C!Answer(a) => agent' = C!Drain
      BY DEF C!Answer
    <3> HIDE DEF C!Loop, C!Drain, Gone, C!Answer
    <3> QED
      BY <3>1, JobsAreJobs
  <2>8. CASE C!ReadText
    <3> DEFINE kept == promised /\ offer # C!Nobody
               now == IF promised THEN (IF kept THEN offer ELSE C!Nothing) ELSE clip
               a == [ok |-> TRUE, text |-> now]
    <3>1. /\ where[t] = "read" /\ C!Answer(a) /\ clip' = now /\ promised' = (promised /\ ~kept)
          /\ UNCHANGED <<owner, offer, upset, wanted>>
      BY <2>3, <2>4, <2>8, WhoseJob DEF C!ReadText
    <3>2. "refused" \notin upset => ~promised'
      BY <2>4, <2>8, <3>1 DEF C!ReadText, ClipInv
    <3>3. offer # C!Nobody => owner = "dile" /\ offer = clip'
      BY <2>6, <3>1 DEF ClipInv
    <3>4. Peaceful' => Holds(t)'
      <4> SUFFICES ASSUME Peaceful' PROVE Holds(t)'
        OBVIOUS
      <4>1. Peaceful
        BY <1>1, <3>1 DEF Peaceful
      <4>2. AsWanted
        BY <2>3, <2>4, <3>1, <4>1 DEF ClipInv, Holds
      <4>3. Wanted(clip)' /\ ~promised' /\ Wanted(a.text)'
        BY <3>1, <4>2 DEF AsWanted, Wanted
      <4>4. Head(replies'[t]) = a
        BY <2>5, <3>1
      <4> QED
        BY <1>1, <3>1, <4>3, <4>4 DEF Holds, AsWanted
    <3>5. C!Answer(a) => agent' # Gone /\ agent'.job \notin {"set", "restore"}
      BY <2>7
    <3> HIDE DEF a, kept, now
    <3> QED
      BY <1>1, <1>2, <2>3, <2>4, <3>1, <3>2, <3>3, <3>4, <3>5, TheTextGoesOn DEF ClipInv
  <2>9. CASE C!WriteText
    <3> DEFINE a == [ok |-> TRUE, text |-> C!Nothing]
    <3>1. /\ C!Answer(a) /\ clip' = agent.text /\ promised' = FALSE /\ owner' = "dile"
          /\ wanted' = (IF agent.job = "set" THEN agent.text ELSE wanted)
          /\ agent.job \in {"set", "restore"} /\ UNCHANGED <<offer, upset>>
      BY <2>9 DEF C!WriteText
    <3>2. offer = C!Nobody
      BY <3>1 DEF ClipInv
    <3>3. Peaceful' => Holds(t)'
      <4> SUFFICES ASSUME Peaceful' PROVE Holds(t)'
        OBVIOUS
      <4>1. Peaceful /\ Holds(t)
        BY <1>1, <2>3, <2>4, <3>1 DEF Peaceful, ClipInv
      <4>2. AsWanted'
        <5>1. CASE agent.job = "set"
          BY <3>1, <5>1 DEF AsWanted, Wanted
        <5>2. CASE agent.job = "restore"
          BY <2>3, <2>4, <3>1, <4>1, <5>2, WhoseJob DEF AsWanted, Wanted, Holds
        <5> QED
          BY <3>1, <5>1, <5>2
      <4>3. where[t] = "copy" \/ (where[t] \in {"taken", "untaken", "undo"} /\ wanted' = wanted)
        BY <2>3, <2>4, <3>1, WhoseJob
      <4> QED
        BY <1>1, <3>1, <4>1, <4>2, <4>3 DEF Holds, Wanted
    <3>4. C!Answer(a) => agent' # Gone /\ agent'.job \notin {"set", "restore"}
      BY <2>7
    <3> HIDE DEF a
    <3> QED
      BY <1>1, <1>2, <2>3, <2>4, <3>1, <3>2, <3>3, <3>4, TheTextGoesOn DEF ClipInv
  <2>10. CASE C!WriteOffer
    <3> DEFINE a == [ok |-> TRUE, text |-> C!Nothing]
    <3>1. /\ C!Answer(a) /\ clip' = agent.for /\ promised' = TRUE /\ owner' = "dile" /\ offer' = agent.for
          /\ agent.job = "offer" /\ UNCHANGED <<upset, wanted>>
      BY <2>10 DEF C!WriteOffer
    <3>2. agent.for = t /\ where[t] = "offer"
      BY <2>3, <2>4, <3>1, WhoseJob, RestingIsNotDoing
    <3>3. a.ok /\ Head(replies'[t]) = a /\ replies'[t] # <<>>
      BY <2>5, <3>1
    <3>4. Peaceful' => Holds(t)'
      <4> SUFFICES ASSUME Peaceful' PROVE Holds(t)'
        OBVIOUS
      <4>1. Peaceful /\ Holds(t)
        BY <1>1, <2>3, <2>4, <3>1 DEF Peaceful, ClipInv
      <4>2. Wanted(previous[t])'
        BY <1>1, <3>1, <3>2, <4>1 DEF Holds, Wanted
      <4> QED
        BY <1>1, <3>1, <3>2, <3>3, <4>2 DEF Holds
    <3>5. C!Answer(a) => agent' # Gone /\ agent'.job \notin {"set", "restore"}
      BY <2>7
    <3> HIDE DEF a
    <3> QED
      BY <1>1, <1>2, <2>3, <2>4, <3>1, <3>2, <3>4, <3>5, TheTextGoesOn DEF ClipInv
  <2>11. CASE C!Refused
    <3>1. /\ \E a : C!Answer(a)
          /\ "refused" \in upset' /\ UNCHANGED <<clip, promised, owner, offer>>
      BY <2>11 DEF C!Refused, C!system
    <3>2. ~Peaceful'
      BY <3>1 DEF Peaceful
    <3>3. agent' # Gone /\ agent'.job \notin {"set", "restore"}
      BY <2>7, <3>1
    <3> QED
      BY <2>6, <3>1, <3>2, <3>3 DEF ClipInv
  <2>12. CASE C!WriteFails
    <3> DEFINE a == [ok |-> FALSE, text |-> C!Nothing]
    <3>1. C!Answer(a) /\ offer' = C!Nobody /\ UNCHANGED wanted /\ agent.job \in {"set", "offer", "restore"}
      BY <2>12 DEF C!WriteFails
    <3>2. agent' # Gone /\ agent'.job \notin {"set", "restore"}
      BY <2>7, <3>1
    <3>3. ~a.ok /\ Head(replies'[t]) = a /\ replies'[t] # <<>>
      BY <2>5, <3>1
    <3>4. \/ "refused" \in upset'
          \/ clip' = C!Nothing /\ promised' = FALSE /\ owner' = "dile" /\ upset' = upset \union {"emptied"}
      BY <2>12 DEF C!WriteFails
    <3> HIDE DEF a
    <3>5. CASE "refused" \in upset'
      <4>1. ~Peaceful'
        BY <3>5 DEF Peaceful
      <4> QED
        BY <3>1, <3>2, <3>5, <4>1 DEF ClipInv
    <3>6. CASE clip' = C!Nothing /\ promised' = FALSE /\ owner' = "dile" /\ upset' = upset \union {"emptied"}
      <4>1. Peaceful' => Holds(t)'
        <5> SUFFICES ASSUME Peaceful' PROVE Holds(t)'
          OBVIOUS
        <5>1. Peaceful /\ Holds(t)
          BY <1>1, <2>3, <2>4, <3>6 DEF Peaceful, ClipInv
        <5>2. AsWanted'
          BY <3>6 DEF AsWanted, Wanted
        <5>3. where[t] \in {"copy", "offer", "taken", "untaken", "undo"}
          BY <2>3, <2>4, <3>1, WhoseJob
        <5>4. Wanted(previous[t]) => Wanted(previous[t])'
          BY <1>1, <3>1, <3>6 DEF Wanted
        <5> QED
          BY <1>1, <3>3, <5>1, <5>2, <5>3, <5>4 DEF Holds
      <4> QED
        BY <1>1, <1>2, <2>3, <2>4, <3>1, <3>2, <3>6, <4>1, TheTextGoesOn DEF ClipInv
    <3> QED
      BY <3>4, <3>5, <3>6
  <2> QED
    BY <1>5, <2>8, <2>9, <2>10, <2>11, <2>12
<1>6. CASE C!Render \/ C!Exit
  <2>1. /\ agent = C!Loop /\ UNCHANGED <<offer, replies, wanted, upset>> /\ promised' = FALSE
        /\ clip' = clip \/ (promised /\ offer # C!Nobody /\ clip' = offer)
    BY <1>6 DEF C!Render, C!Exit, C!caller
  <2>2. agent # Gone /\ agent.job \notin {"set", "restore"}
    <3> HIDE DEF C!Loop, C!Drain, Gone
    <3> QED
      BY <2>1, JobsAreJobs
  <2>3. clip' = clip
    BY <2>1, <2>2 DEF ClipInv
  <2>4. \/ agent' = agent /\ owner' = owner
        \/ agent' = Gone
    BY <1>6 DEF C!Render, C!Exit, Gone
  <2>5. agent'.job \notin {"set", "restore"}
    <3> HIDE DEF C!Loop, C!Drain, Gone
    <3> QED
      BY <2>2, <2>4, JobsAreJobs
  <2>6. Peaceful' = Peaceful /\ (AsWanted => AsWanted') /\ \A x : Wanted(x)' = Wanted(x)
    BY <1>1, <2>1, <2>3 DEF Peaceful, AsWanted, Wanted
  <2>7. \A u \in Transfers : Holds(u) => Holds(u)'
    BY <1>1, <2>1, <2>3, <2>6 DEF Holds
  <2> QED
    BY <1>2, <2>1, <2>2, <2>3, <2>4, <2>5, <2>6, <2>7 DEF ClipInv
<1> QED
  BY <1>3, <1>4, <1>5, <1>6 DEF C!Agent

LEMMA ThreadKeepsTheText ==
  ASSUME "overlap" \notin ClipboardDisturbances, AgentInv, ClipInv, NEW t \in Transfers, C!Transfer(t)
  PROVE  ClipInv'
<1>1. UNCHANGED <<C!system, offer, agent, copied, upset, wanted>>
  BY DEF C!Transfer, C!Begin, C!Found, C!Offered, C!SendChord, C!Waited, C!Restored, C!Copy, C!Copied, C!thread
<1>2. Peaceful' = Peaceful /\ AsWanted' = AsWanted /\ clip' = clip /\ \A x : Wanted(x)' = Wanted(x)
  BY <1>1 DEF Peaceful, AsWanted, Wanted, C!system
<1>3. \A u \in Transfers \ {t} : Inactive(u) /\ where'[u] = where[u]
  <2>1. \E p : C!Goto(t, p)
    BY DEF C!Transfer, C!Begin, C!Found, C!Offered, C!SendChord, C!Waited, C!Restored, C!Copy, C!Copied, C!End
  <2> QED
    BY <2>1, ThreadSteps DEF C!Goto, AgentInv
<1>4. Peaceful => IF where'[t] = "done" THEN AsWanted ELSE Holds(t)'
  <2> SUFFICES ASSUME Peaceful PROVE IF where'[t] = "done" THEN AsWanted ELSE Holds(t)'
    OBVIOUS
  <2>1. \A p : C!Goto(t, p) => where'[t] = p
    BY DEF C!Goto, AgentInv
  <2>2. CASE C!Begin(t) \/ C!Copy(t)
    <3>1. AsWanted
      BY <1>3, <2>2 DEF C!Begin, C!Copy, Inactive, ClipInv
    <3>2. replies'[t] = <<>>
      BY <2>2 DEF C!Begin, C!Copy, AgentInv, Waits
    <3>3. where'[t] \in {"read", "done", "copy"}
      BY <2>1, <2>2 DEF C!Begin, C!Copy, C!End
    <3> QED
      BY <1>2, <3>1, <3>2, <3>3 DEF Holds
  <2>3. CASE C!Found(t) \/ C!Offered(t) \/ C!Restored(t) \/ C!Copied(t)
    <3>1. Waits(t) /\ replies[t] # <<>> /\ replies' = [replies EXCEPT ![t] = Tail(@)]
      BY <2>3 DEF C!Found, C!Offered, C!Restored, C!Copied, Waits
    <3>2. Holds(t)
      BY <3>1, InactiveWaitsForNothing DEF ClipInv
    <3>3. replies'[t] = <<>>
      BY <3>1, TheAnswerIsThere DEF AgentInv
    <3>4. CASE C!Found(t)
      <4>1. where[t] = "read" /\ where'[t] = "offer" /\ previous'[t] = Head(replies[t]).text
        BY <2>1, <3>4 DEF C!Found, AgentInv
      <4> QED
        BY <1>1, <1>2, <3>1, <3>2, <3>3, <4>1 DEF Holds
    <3>5. CASE C!Offered(t)
      <4>1. where[t] = "offer" /\ UNCHANGED previous
        BY <3>5 DEF C!Offered
      <4>2. Wanted(previous[t]) /\ IF Head(replies[t]).ok THEN clip = t ELSE AsWanted
        BY <3>1, <3>2, <4>1 DEF Holds
      <4>3. where'[t] = IF Head(replies[t]).ok THEN "chord" ELSE "done"
        BY <2>1, <3>5 DEF C!Offered, C!End
      <4> QED
        BY <1>1, <1>2, <4>1, <4>2, <4>3 DEF Holds
    <3>6. CASE C!Restored(t) \/ C!Copied(t)
      <4>1. where'[t] = "done" /\ where[t] \in {"taken", "untaken", "undo", "copy"}
        BY <2>1, <3>6 DEF C!Restored, C!Copied, C!End
      <4> QED
        BY <3>1, <3>2, <4>1 DEF Holds
    <3> QED
      BY <2>3, <3>4, <3>5, <3>6
  <2>4. CASE C!SendChord(t) \/ C!Waited(t)
    <3>1. where[t] \in {"chord", "wait"} /\ UNCHANGED <<previous, replies>>
      BY <2>4 DEF C!SendChord, C!Waited
    <3>2. replies[t] = <<>> /\ Wanted(previous[t]) /\ clip = t
      BY <3>1 DEF AgentInv, Waits, ClipInv, Holds, Inactive
    <3>3. where'[t] \in {"wait", "undo", "taken", "untaken"}
      BY <2>1, <2>4 DEF C!SendChord, C!Waited
    <3> QED
      BY <1>1, <1>2, <3>1, <3>2, <3>3 DEF Holds
  <2> QED
    BY <2>2, <2>3, <2>4 DEF C!Transfer
<1>5. where'[t] \in Stages /\ where'[t] # "idle"
  BY ThreadSteps DEF AgentInv, Stages, C!Transfer, C!Begin, C!Found, C!Offered, C!SendChord, C!Waited,
         C!Restored, C!Copy, C!Copied, C!End, C!Goto
<1>6. CASE where'[t] = "done"
  <2>1. \A u \in Transfers : Inactive(u)'
    BY <1>3, <1>6 DEF Inactive
  <2> QED
    BY <1>1, <1>2, <1>4, <1>6, <2>1 DEF ClipInv, C!system
<1>7. CASE where'[t] # "done"
  <2>1. ~Inactive(t)'
    BY <1>5, <1>7 DEF Inactive
  <2> QED
    BY <1>1, <1>2, <1>3, <1>4, <1>7, <2>1, TheTextGoesOn DEF ClipInv, C!system
<1> QED
  BY <1>6, <1>7

LEMMA WorldKeepsTheText ==
  ASSUME ClipInv, C!World
  PROVE  ClipInv'
<1>1. CASE \E x \in Others : C!OtherCopies(x)
  <2>1. PICK x \in Others : C!OtherCopies(x)
    BY <1>1
  <2>2. /\ promised' = FALSE /\ UNCHANGED agent /\ copied' # {}
        /\ offer' = IF owner = "dile" THEN C!Nobody ELSE offer
    BY <2>1 DEF C!OtherCopies
  <2>3. ~Peaceful'
    BY <2>2 DEF Peaceful
  <2> QED
    BY <2>2, <2>3 DEF ClipInv
<1>2. CASE ~\E x \in Others : C!OtherCopies(x)
  <2>1. /\ UNCHANGED <<clip, promised, owner, offer, agent, wanted, where, previous, replies, copied>>
        /\ \A x \in {"refused", "emptied"} : x \in upset' <=> x \in upset
    BY <1>2 DEF C!World, C!TargetOpens, C!TargetPastes, C!SnoopOpens, C!SnoopReads, C!OtherOpens, C!Open,
           C!thread, C!caller
  <2> QED
    BY <2>1, TextUntouched
<1> QED
  BY <1>1, <1>2

-----------------------------------------------------------------------------
(* Whom the text is handed to.                                             *)
LEMMA HandedUntouched ==
  ASSUME HandedInv, UNCHANGED <<holder, upset, got, where, outcome, raised, copied, clip, promised>>,
         agent' = Gone \/ agent # Gone,
         \A t \in Transfers : replies'[t] # <<>> /\ where[t] = "taken" => replies[t] # <<>> \/ agent # Gone
  PROVE  HandedInv'
<1>1. /\ \A t \in Transfers : C!ChordSent(t)' = C!ChordSent(t) /\ Handed(t)' = Handed(t)
      /\ C!ChordSent(holder)' = C!ChordSent(holder)
  BY DEF C!ChordSent, Handed
<1>2. \A t \in Transfers : agent' # Gone => agent # Gone
  OBVIOUS
<1> QED
  BY <1>1, <1>2 DEF HandedInv, Undisturbed

LEMMA AgentHandsOver ==
  ASSUME C!Nobody \notin Transfers, "snoop" \notin Transfers, AgentInv, ClipInv, HandedInv, C!Agent
  PROVE  HandedInv'
<1>1. UNCHANGED <<holder, where, outcome, got, copied>>
  BY DEF C!Agent, C!TakeJob, C!DrainEnds, C!ReadText, C!WriteText, C!WriteOffer, C!WriteFails, C!Refused,
         C!Render, C!Exit, C!caller, C!system
<1>2. /\ \A t : C!ChordSent(t)' = C!ChordSent(t)
      /\ C!ChordSent(holder)' = C!ChordSent(holder)
  BY <1>1 DEF C!ChordSent
<1>3. CASE C!TakeJob \/ C!DrainEnds
  <2>1. /\ agent \in {C!Loop, C!Drain} /\ UNCHANGED <<upset, raised, clip, promised, replies>>
    BY <1>3 DEF C!TakeJob, C!DrainEnds, C!caller, C!system
  <2>2. agent # Gone
    <3> HIDE DEF C!Loop, C!Drain, Gone
    <3> QED
      BY <2>1, JobsAreJobs
  <2> QED
    BY <1>1, <2>1, <2>2, HandedUntouched
<1>4. CASE C!ReadText \/ C!WriteText \/ C!WriteOffer \/ C!WriteFails \/ C!Refused
  <2>1. agent.job \in {"read", "set", "offer", "restore"} /\ UNCHANGED jobs
    BY <1>4 DEF C!ReadText, C!WriteText, C!WriteOffer, C!WriteFails, C!Refused
  <2>2. ~Resting
    BY <2>1, JobsAreJobs DEF Resting
  <2>3. PICK t \in Transfers : Waits(t) /\ Doing(t) /\ \A u \in Transfers \ {t} : Inactive(u)
    BY <2>2, TheBusyAgent
  <2>4. agent = JobOf(t) /\ ~Inactive(t) /\ agent # Gone
    BY <2>2, <2>3, InactiveWaitsForNothing DEF Doing, Resting
  <2>5. CASE C!Refused
    <3>1. upset' = upset \union {"refused"} /\ UNCHANGED raised
      BY <2>5 DEF C!Refused
    <3>2. ~Undisturbed'
      BY <3>1 DEF Undisturbed
    <3> QED
      BY <1>1, <1>2, <3>1, <3>2 DEF HandedInv
  <2>6. CASE C!WriteFails
    <3>1. UNCHANGED raised /\ upset \subseteq upset' /\ holder = C!Nobody
      BY <2>6 DEF C!WriteFails, C!Opens
    <3>2. \A u \in Transfers : Handed(u) => Handed(u)'
      BY <1>1, <3>1 DEF Handed
    <3>3. Undisturbed' => Undisturbed
      BY <1>1, <3>1 DEF Undisturbed
    <3> QED
      BY <1>1, <1>2, <2>4, <3>1, <3>2, <3>3 DEF HandedInv
  <2>7. CASE C!ReadText \/ C!WriteText \/ C!WriteOffer
    <3>1. UNCHANGED upset /\ holder = C!Nobody
      BY <2>7 DEF C!ReadText, C!WriteText, C!WriteOffer, C!Opens
    <3>2. \A u \in Transfers : Handed(u) => Handed(u)'
      BY <1>1, <3>1 DEF Handed
    <3>3. Undisturbed => UNCHANGED raised
      <4> SUFFICES ASSUME Undisturbed, C!ReadText PROVE UNCHANGED raised
        BY <2>7 DEF C!WriteText, C!WriteOffer
      <4>1. where[t] = "read"
        BY <2>3, <2>4, WhoseJob DEF C!ReadText
      <4>2. AsWanted
        BY <2>4, <4>1 DEF Undisturbed, ClipInv, Holds, Peaceful
      <4> QED
        BY <4>2 DEF C!ReadText, AsWanted
    <3>4. raised \subseteq raised'
      BY <2>7 DEF C!ReadText, C!WriteText, C!WriteOffer
    <3>5. \A u \in Transfers : where[u] = "taken" => u \in raised
      BY DEF HandedInv
    <3> QED
      BY <1>1, <1>2, <2>4, <3>1, <3>2, <3>3, <3>4, <3>5 DEF HandedInv, Undisturbed
  <2> QED
    BY <1>4, <2>5, <2>6, <2>7
<1>5. CASE C!Render
  <2>1. /\ holder \in Transfers \union {"snoop"} /\ promised /\ offer # C!Nobody /\ clip' = offer /\ promised' = FALSE
        /\ raised' = raised \union {offer} /\ agent' = agent /\ UNCHANGED <<upset, replies>>
    BY <1>5 DEF C!Render, C!caller
  <2>2. Undisturbed => holder \in Transfers
    BY <2>1 DEF HandedInv, Undisturbed
  <2>3. \A u \in Transfers : Handed(u) => Handed(u)'
    BY <1>1, <2>1 DEF Handed
  <2>4. Undisturbed => \A u \in Transfers : u = offer => Handed(u)'
    BY <1>1, <2>1, <2>2 DEF Handed
  <2> QED
    BY <1>1, <1>2, <2>1, <2>3, <2>4 DEF HandedInv, Undisturbed
<1>6. CASE C!Exit
  <2>1. /\ holder = C!Nobody /\ agent = C!Loop /\ agent' = Gone
        /\ raised \subseteq raised' /\ UNCHANGED <<upset, replies>>
    BY <1>6 DEF C!Exit, C!Opens, Gone, C!caller
  <2>2. agent # Gone
    <3> HIDE DEF C!Loop, Gone
    <3> QED
      BY <2>1, JobsAreJobs
  <2>3. \A u \in Transfers : Handed(u) => Handed(u)'
    BY <1>1, <2>1 DEF Handed
  <2> QED
    BY <1>1, <1>2, <2>1, <2>2, <2>3 DEF HandedInv, Undisturbed
<1> QED
  BY <1>3, <1>4, <1>5, <1>6 DEF C!Agent

LEMMA ThreadHandsOver ==
  ASSUME "overlap" \notin ClipboardDisturbances, AgentInv, HandedInv, NEW t \in Transfers, C!Transfer(t)
  PROVE  HandedInv'
<1>1. UNCHANGED <<clip, promised, holder, agent, raised, upset, got, copied>>
  <2>1. UNCHANGED <<C!system, agent, raised, upset, got, copied>>
    BY DEF C!Transfer, C!Begin, C!Found, C!Offered, C!SendChord, C!Waited, C!Restored, C!Copy, C!Copied,
           C!thread
  <2> QED
    BY <2>1 DEF C!system
<1>2. \A u \in Transfers : Handed(u)' = Handed(u)
  BY <1>1 DEF Handed
<1>3. \A p : C!Goto(t, p) => where'[t] = p /\ \A u \in Transfers \ {t} : where'[u] = where[u]
  BY DEF C!Goto, AgentInv
<1>4. \A o : C!End(t, o) => /\ where'[t] = "done" /\ outcome'[t] = o
                        /\ \A u \in Transfers \ {t} : where'[u] = where[u] /\ outcome'[u] = outcome[u]
  BY <1>3 DEF C!End, AgentInv
<1>5. \A u \in Transfers \ {t} : where'[u] = where[u] /\ outcome'[u] = outcome[u]
  BY <1>3, <1>4 DEF C!Transfer, C!Begin, C!Found, C!Offered, C!SendChord, C!Waited, C!Restored, C!Copy,
         C!Copied
<1>6. \A u \in Transfers \ {t} : replies'[u] = replies[u]
  BY DEF AgentInv, C!Transfer, C!Begin, C!Found, C!Offered, C!SendChord, C!Waited, C!Restored, C!Copy, C!Copied
<1>7. outcome[t] = "none" /\ where[t] # "done"
  BY DEF HandedInv, C!Transfer, C!Begin, C!Found, C!Offered, C!SendChord, C!Waited, C!Restored, C!Copy,
         C!Copied
<1>8. /\ where'[t] # "done" => outcome'[t] = "none"
      /\ C!ChordSent(t) => C!ChordSent(t)'
      /\ where'[t] = "taken" => t \in raised /\ where[t] = "wait" /\ replies'[t] = replies[t]
      /\ outcome'[t] = "Pasted" => where[t] = "taken" /\ replies[t] # <<>>
      /\ where'[t] = "wait" => ~C!ChordSent(t)
  <2>1. CASE C!Begin(t) \/ C!Copy(t) \/ C!Found(t)
    BY <1>3, <1>4, <1>7, <2>1 DEF C!Begin, C!Copy, C!Found, C!ChordSent
  <2>2. CASE C!Offered(t) \/ C!Copied(t)
    BY <1>3, <1>4, <1>7, <2>2 DEF C!Offered, C!Copied, C!ChordSent
  <2>3. CASE C!SendChord(t) \/ C!Waited(t)
    BY <1>3, <1>7, <2>3 DEF C!SendChord, C!Waited, C!ChordSent
  <2>4. CASE C!Restored(t)
    <3>1. PICK o \in {"Pasted", "Unclaimed", "Refused"} :
            /\ C!End(t, o) /\ (where[t] = "taken") = (o = "Pasted") /\ (where[t] = "untaken") = (o = "Unclaimed")
      BY <2>4 DEF C!Restored
    <3> QED
      BY <1>4, <1>7, <2>4, <3>1 DEF C!Restored, C!ChordSent
  <2> QED
    BY <2>1, <2>2, <2>3, <2>4 DEF C!Transfer
<1>9. \A u \in Transfers : C!ChordSent(u) => C!ChordSent(u)'
  BY <1>5, <1>8 DEF C!ChordSent
<1>10. replies[t] = <<>> \/ where[t] # "wait"
  BY DEF AgentInv, Waits
<1> QED
  BY <1>1, <1>2, <1>5, <1>6, <1>8, <1>9, <1>10 DEF HandedInv, Undisturbed

LEMMA WorldHandsOver ==
  ASSUME {C!Nobody, "snoop"} \cap (Transfers \union Others) = {}, Transfers \cap Others = {},
         AgentInv, ClipInv, HandedInv, C!World
  PROVE  HandedInv'
<1>1. UNCHANGED <<where, outcome, replies, agent, raised>>
  BY DEF C!World, C!TargetOpens, C!TargetPastes, C!SnoopOpens, C!SnoopReads, C!OtherOpens, C!OtherCopies,
         C!Open, C!thread, C!caller
<1>2. \A t : C!ChordSent(t)' = C!ChordSent(t)
  BY <1>1 DEF C!ChordSent
<1>3. CASE \E t \in Transfers : C!TargetOpens(t)
  <2>1. PICK t \in Transfers : C!TargetOpens(t)
    BY <1>3
  <2>2. /\ C!ChordSent(t) /\ got[t] = C!Nobody /\ holder = C!Nobody /\ holder' = t
        /\ UNCHANGED <<clip, promised, got, copied, upset>>
    BY <2>1 DEF C!TargetOpens, C!Open
  <2>3. \A u \in Transfers : Handed(u) => Handed(u)'
    BY <2>2 DEF Handed
  <2> QED
    BY <1>1, <1>2, <2>2, <2>3 DEF HandedInv, Undisturbed
<1>4. CASE \E t \in Transfers : C!TargetPastes(t)
  <2>1. PICK t \in Transfers : C!TargetPastes(t)
    BY <1>4
  <2>2. /\ holder = t /\ C!Rendered /\ holder' = C!Nobody /\ UNCHANGED <<clip, promised, copied, upset>>
        /\ got'[t] = (IF promised THEN C!Nothing ELSE clip) /\ \A u \in Transfers \ {t} : got'[u] = got[u]
    BY <2>1 DEF C!TargetPastes, AgentInv
  <2>3. got[t] = C!Nobody /\ C!ChordSent(t)
    BY <2>2 DEF HandedInv
  <2>4. \A u \in Transfers : Handed(u) => Handed(u)'
    <3> SUFFICES ASSUME NEW u \in Transfers, Handed(u) PROVE Handed(u)'
      OBVIOUS
    <3>1. CASE \E v \in Transfers : got[v] = u
      <4>1. PICK v \in Transfers : got[v] = u
        BY <3>1
      <4>2. v # t
        BY <2>3, <4>1
      <4> QED
        BY <2>2, <4>1, <4>2 DEF Handed
    <3>2. CASE clip = u /\ ~promised
      BY <2>2, <3>2 DEF Handed
    <3> QED
      BY <3>1, <3>2 DEF Handed
  <2>5. Undisturbed /\ where[t] = "wait" => got'[t] = t
    <3> SUFFICES ASSUME Undisturbed, where[t] = "wait" PROVE got'[t] = t
      OBVIOUS
    <3>1. clip = t
      BY DEF Undisturbed, ClipInv, Peaceful, Holds, Inactive
    <3>2. ~promised
      <4> SUFFICES ASSUME promised PROVE FALSE
        OBVIOUS
      <4>1. (offer = clip /\ offer # C!Nobody) \/ agent.job \in {"set", "restore"}
        BY DEF Undisturbed, ClipInv
      <4>2. ~Waits(t) /\ ~Inactive(t)
        BY DEF Waits, Inactive
      <4>3. Resting
        BY <4>2, TheOthersAreInactive, InactiveWaitsForNothing DEF AgentInv
      <4>4. agent # Gone
        BY DEF ClipInv
      <4>5. agent.job \notin {"set", "restore", "gone"}
        <5> HIDE DEF C!Loop, C!Drain, Gone
        <5> QED
          BY <4>3, <4>4, JobsAreJobs DEF Resting
      <4> QED
        BY <2>2, <4>1, <4>5 DEF C!Rendered
    <3> QED
      BY <2>2, <3>1, <3>2
  <2> QED
    BY <1>1, <1>2, <2>2, <2>3, <2>4, <2>5 DEF HandedInv, Undisturbed, C!Nobody
<1>5. CASE C!SnoopOpens
  <2>1. "snooped" \in upset' /\ holder' = "snoop" /\ UNCHANGED got
    BY <1>5 DEF C!SnoopOpens, C!caller
  <2> QED
    BY <1>1, <1>2, <2>1 DEF HandedInv, Undisturbed
<1>6. CASE C!SnoopReads
  <2>1. holder = "snoop" /\ holder' = C!Nobody /\ UNCHANGED <<got, upset, copied, clip, promised>>
    BY <1>6 DEF C!SnoopReads
  <2>2. "snooped" \in upset
    BY <2>1 DEF HandedInv
  <2> QED
    BY <1>1, <1>2, <2>1, <2>2 DEF HandedInv, Undisturbed
<1>7. CASE \E x \in Others : C!OtherOpens(x)
  <2>1. PICK x \in Others : holder = C!Nobody /\ holder' = x /\ UNCHANGED <<clip, promised, got, copied, upset>>
    BY <1>7 DEF C!OtherOpens, C!Open
  <2>2. \A u \in Transfers : Handed(u) => Handed(u)'
    BY <2>1 DEF Handed
  <2> QED
    BY <1>1, <1>2, <2>1, <2>2 DEF HandedInv, Undisturbed
<1>8. CASE \E x \in Others : C!OtherCopies(x)
  <2>1. holder' = C!Nobody /\ copied' # {} /\ UNCHANGED <<got, upset>>
    BY <1>8 DEF C!OtherCopies
  <2> QED
    BY <1>1, <1>2, <2>1 DEF HandedInv, Undisturbed, C!Nobody
<1> QED
  BY <1>3, <1>4, <1>5, <1>6, <1>7, <1>8 DEF C!World

-----------------------------------------------------------------------------
ClipboardInv == AgentInv /\ ClipInv /\ HandedInv

(* The names of the transfers and of what other programs copy stand for    *)
(* nothing else.                                                           *)
Names == {C!Nobody, "snoop"} \cap (Transfers \union Others) = {} /\ Transfers \cap Others = {}

LEMMA ClipboardInvHoldsAtFirst ==
  ASSUME Names, C!Init
  PROVE  ClipboardInv
<1>1. AgentInv
  BY DEF C!Init, AgentInv, Stages, Inactive, Waits, Resting
<1>2. ClipInv
  <2>1. \A t \in Transfers : Inactive(t)
    BY DEF C!Init, Inactive
  <2>2. agent.job \notin {"set", "restore"} /\ agent # Gone
    <3> HIDE DEF C!Loop, Gone
    <3> QED
      BY JobsAreJobs DEF C!Init
  <2> QED
    BY <2>1, <2>2 DEF C!Init, ClipInv, AsWanted, Wanted
<1>3. HandedInv
  BY DEF C!Init, HandedInv, Undisturbed, Names, C!Nobody
<1> QED
  BY <1>1, <1>2, <1>3 DEF ClipboardInv

LEMMA EveryStepOfAPaste ==
  ASSUME "overlap" \notin ClipboardDisturbances, Names, ClipboardInv, [C!Next]_(C!vars)
  PROVE  ClipboardInv'
<1>1. CASE UNCHANGED C!vars
  <2>1. AgentInv'
    BY <1>1 DEF C!vars, C!thread, C!caller, ClipboardInv, AgentInv, Waits, Inactive, Posted, Doing, Told,
           Resting, JobOf
  <2>2. ClipInv'
    BY <1>1, TextUntouched DEF C!vars, C!system, C!thread, C!caller, ClipboardInv
  <2>3. HandedInv'
    BY <1>1, HandedUntouched DEF C!vars, C!system, C!thread, C!caller, ClipboardInv
  <2> QED
    BY <2>1, <2>2, <2>3 DEF ClipboardInv
<1>2. CASE C!Agent
  BY <1>2, AgentSteps, AgentKeepsTheText, AgentHandsOver DEF ClipboardInv, Names
<1>3. CASE \E t \in Transfers : C!Transfer(t)
  BY <1>3, ThreadSteps, ThreadKeepsTheText, ThreadHandsOver DEF ClipboardInv
<1>4. CASE C!World
  BY <1>4, WorldSteps, WorldKeepsTheText, WorldHandsOver DEF ClipboardInv, Names
<1> QED
  BY <1>1, <1>2, <1>3, <1>4 DEF C!Next

(* clipboard.rs:552-556, 660-668, paste.rs:21, 105-112: for transfers that *)
(* do not overlap, any of them and any other programs, whoever keeps the   *)
(* clipboard open, whatever fails and whenever the application ends, a     *)
(* promise on it is one the agent can keep, the user's clipboard comes     *)
(* back or, after a write that failed half-way, is empty, and Pasted is    *)
(* said of a text that a window has been handed.                           *)
THEOREM TheClipboardComesBack ==
  ASSUME "overlap" \notin ClipboardDisturbances, Names
  PROVE  C!Spec => [](C!PromisesAreKept /\ C!ClipboardComesBack /\ C!PastedIsTheDictation)
<1>1. C!Init => ClipboardInv
  BY ClipboardInvHoldsAtFirst
<1>2. ClipboardInv /\ [C!Next]_(C!vars) => ClipboardInv'
  BY EveryStepOfAPaste
<1>3. ClipboardInv => C!PromisesAreKept
  <2>1. C!Settled => agent # Gone /\ agent.job \notin {"set", "restore"}
    <3> HIDE DEF C!Loop, C!Drain, Gone
    <3> QED
      BY JobsAreJobs DEF C!Settled
  <2> QED
    BY <2>1 DEF ClipboardInv, ClipInv, C!PromisesAreKept
<1>4. ClipboardInv => C!ClipboardComesBack
  BY DEF ClipboardInv, ClipInv, C!ClipboardComesBack, Inactive, Peaceful, AsWanted, Wanted
<1>5. ClipboardInv => C!PastedIsTheDictation
  BY DEF ClipboardInv, HandedInv, Undisturbed, C!PastedIsTheDictation, Handed
<1> QED
  BY <1>1, <1>2, <1>3, <1>4, <1>5, PTL DEF C!Spec

-----------------------------------------------------------------------------
(* The desk does a step of one of its parts, or of none.                   *)
LEMMA TheDeskIsEachPart ==
  DeskSpec => Spec /\ W!Spec /\ K!Spec /\ C!Spec
<1>1. DeskInit => Init /\ W!Init /\ K!Init /\ C!Init
  BY DEF DeskInit
<1>2. (UNCHANGED placing) => UNCHANGED W!vars
  BY DEF placing, W!vars, W!held, W!desktop
<1>3. (UNCHANGED showing) => UNCHANGED K!vars
  BY DEF showing, K!vars, K!core, K!threads
<1>4. (UNCHANGED pasting) => UNCHANGED C!vars
  BY DEF pasting, C!vars, C!system, C!thread, C!caller
<1>5. [DeskNext]_desk => [Next]_vars /\ [W!Next]_(W!vars) /\ [K!Next]_(K!vars) /\ [C!Next]_(C!vars)
  BY <1>2, <1>3, <1>4 DEF DeskNext, desk
<1> QED
  BY <1>1, <1>5, PTL DEF DeskSpec, Spec, W!Spec, K!Spec, C!Spec

(* Settings, on the desk: the file is whole at every moment, what is in    *)
(* force is what a restart reads, and the window shows it but for the      *)
(* delay's field, as said above.                                           *)
THEOREM TheDeskKeepsItsSettings ==
  ASSUME {"overlap", "haste"} \cap Disturbances = {}
  PROVE  DeskSpec => [](FileIsWhole /\ AllAgreeWhenQuiet /\ ShownIsInForce)
<1>1. "overlap" \notin Disturbances
  OBVIOUS
<1> QED
  BY <1>1, TheDeskIsEachPart, TheFileIsWhole, WhatIsInForceIsOnDisk, TheWindowShowsWhatIsInForce, PTL

(* PanelWindow, on the desk: the keys go with the card, only what the user *)
(* chose is remembered, and the card opens there.                          *)
THEOREM TheDeskKeepsTheWindow ==
  ASSUME ~Overlap
  PROVE  DeskSpec => []WindowIsKept
<1>1. W!Spec => [](W!KeysGoWithTheCard /\ W!PlacesAreChosen /\ W!OpensWhereItWasLeft)
  BY DeskAssumption, OneAtATimeKeepsTheWindow
<1> QED
  BY <1>1, TheDeskIsEachPart, PTL DEF WindowIsKept

(* Card, on the desk: whatever fails, the text of a card that went without *)
(* its user's word is on the clipboard, and no chord pastes another.       *)
THEOREM TheDeskLosesNoText ==
  DeskSpec => []TextIsNotLost
<1>1. K!Spec => [](K!NothingIsLost /\ K!ChordPastesTheCopy)
  BY DeskAssumption, TheTextIsNotLost
<1> QED
  BY <1>1, TheDeskIsEachPart, PTL DEF TextIsNotLost

(* Card, on the desk: what Enter sends is the answer on the card.          *)
THEOREM TheDeskSendsTheAnswer ==
  ASSUME "haste" \notin CardDisturbances
  PROVE  DeskSpec => []EnterSendsTheAnswer
<1>1. K!Spec => []K!EnterSendsTheAnswer
  BY WhatEnterSends
<1> QED
  BY <1>1, TheDeskIsEachPart, PTL DEF EnterSendsTheAnswer

(* Clipboard, on the desk: promises are kept, the user's clipboard comes   *)
(* back, and Pasted is said of what a window has been handed.              *)
THEOREM TheDeskKeepsTheClipboard ==
  ASSUME "overlap" \notin ClipboardDisturbances
  PROVE  DeskSpec => []ClipboardIsKept
<1>1. Names
  BY DeskAssumption DEF Names, C!Nobody
<1>2. C!Spec => [](C!PromisesAreKept /\ C!ClipboardComesBack /\ C!PastedIsTheDictation)
  BY <1>1, TheClipboardComesBack
<1> QED
  BY <1>2, TheDeskIsEachPart, PTL DEF ClipboardIsKept

-----------------------------------------------------------------------------
(* Cleanup: T and TP say the same, operator by operator.                   *)
TP == INSTANCE CleanupProofs WITH Inputs <- Texts

LEMMA SameStarts ==
  ASSUME NEW t PROVE T!Starts(t) = TP!Starts(t)
BY DEF T!Starts, TP!Starts, T!Space, TP!Space, T!Word, TP!Word, T!Ends, TP!Ends, T!Stops, TP!Stops,
       T!IsFullStop, TP!IsFullStop, T!IsWord, TP!IsWord, T!Marks, TP!Marks, T!Comma, TP!Comma,
       T!Initials, TP!Initials, T!After, TP!After, T!Min, TP!Min

LEMMA SameEnds ==
  ASSUME NEW t, NEW s PROVE T!EndOf(t, s) = TP!EndOf(t, s)
BY DEF T!EndOf, TP!EndOf, T!Min, TP!Min, T!Starts, TP!Starts, T!Space, TP!Space, T!Word, TP!Word,
       T!Ends, TP!Ends, T!Stops, TP!Stops, T!IsFullStop, TP!IsFullStop, T!IsWord, TP!IsWord,
       T!Marks, TP!Marks, T!Comma, TP!Comma, T!Initials, TP!Initials, T!After, TP!After

LEMMA SameWords ==
  ASSUME NEW t, NEW s PROVE T!WordsOf(t, s) = TP!WordsOf(t, s)
BY DEF T!WordsOf, TP!WordsOf, T!Words, TP!Words, T!Marks, TP!Marks, T!Stops, TP!Stops, T!Word,
       TP!Word, T!Space, TP!Space, T!Comma, TP!Comma, T!EndOf, TP!EndOf, T!Min, TP!Min, T!Starts,
       TP!Starts, T!Ends, TP!Ends, T!IsFullStop, TP!IsFullStop, T!IsWord, TP!IsWord, T!Initials,
       TP!Initials, T!After, TP!After

LEMMA SameNames ==
  ASSUME NEW t, NEW places PROVE T!Names(t, places) = TP!Names(t, places)
BY DEF T!Names, TP!Names, T!InOrder, TP!InOrder, T!Cardinality, TP!Cardinality

LEMMA SameRepeats ==
  ASSUME NEW names, NEW phrase PROVE T!IsRepeatsOf(names, phrase) = TP!IsRepeatsOf(names, phrase)
BY DEF T!IsRepeatsOf, TP!IsRepeatsOf

LEMMA SameCuts ==
  ASSUME NEW t, NEW cuts PROVE T!Without(t, cuts) = TP!Without(t, cuts)
BY DEF T!Without, TP!Without, T!Tokens, TP!Tokens, T!InOrder, TP!InOrder, T!Cardinality,
       TP!Cardinality

LEMMA SameCanned ==
  ASSUME NEW t, NEW s PROVE T!IsCanned(t, s) <=> TP!IsCanned(t, s)
<1>1. \A phrase : T!IsRepeatsOf(T!Names(t, T!WordsOf(t, s)), phrase)
                    <=> TP!IsRepeatsOf(TP!Names(t, TP!WordsOf(t, s)), phrase)
  BY SameNames, SameRepeats, SameWords
<1> QED BY <1>1 DEF T!IsCanned, TP!IsCanned, T!Phrases, TP!Phrases

LEMMA SameInCanned ==
  ASSUME NEW t, NEW i PROVE T!InCanned(t, i) <=> TP!InCanned(t, i)
BY SameCanned, SameStarts, SameEnds DEF T!InCanned, TP!InCanned

LEMMA SameHallucination ==
  ASSUME NEW t PROVE T!hallucination(t) = TP!hallucination(t)
<1> DEFINE canned == {s \in T!Starts(t) : T!IsCanned(t, s)}
<1>1. canned = {s \in TP!Starts(t) : TP!IsCanned(t, s)}
  BY SameStarts, SameCanned
<1>2. {s..T!EndOf(t, s) : s \in canned} = {s..TP!EndOf(t, s) : s \in canned}
  <2> HIDE DEF canned
  <2> QED BY SameEnds
<1> QED BY <1>1, <1>2, SameCuts DEF T!hallucination, TP!hallucination

LEMMA SameFiller ==
  ASSUME NEW t PROVE T!filler(t) = TP!filler(t)
BY DEF T!filler, TP!filler, T!Without, TP!Without, T!Tokens, TP!Tokens, T!InOrder, TP!InOrder,
       T!Cardinality, TP!Cardinality, T!WithComma, TP!WithComma, T!After, TP!After, T!Min, TP!Min,
       T!Space, TP!Space, T!Word, TP!Word, T!Comma, TP!Comma, T!Words, TP!Words, T!Marks, TP!Marks,
       T!Stops, TP!Stops, T!Fillers, TP!Fillers

LEMMA SameRepeating ==
  ASSUME NEW t PROVE T!repeats(t) = TP!repeats(t)
BY DEF T!repeats, TP!repeats, T!Without, TP!Without, T!Tokens, TP!Tokens, T!InOrder, TP!InOrder,
       T!Cardinality, TP!Cardinality, T!After, TP!After, T!Min, TP!Min, T!Space, TP!Space, T!Word,
       TP!Word, T!Words, TP!Words, T!Marks, TP!Marks, T!Stops, TP!Stops, T!Comma, TP!Comma,
       T!IsWord, TP!IsWord, T!Reduplications, TP!Reduplications

LEMMA SameParticles ==
  ASSUME NEW t PROVE T!particles(t) = TP!particles(t)
BY DEF T!particles, TP!particles, T!Words, TP!Words, T!Marks, TP!Marks, T!Stops, TP!Stops, T!Word,
       TP!Word, T!Space, TP!Space, T!Comma, TP!Comma, T!BeforePause, TP!BeforePause, T!After,
       TP!After, T!Min, TP!Min, T!Max, TP!Max, T!SeyGuards, TP!SeyGuards, T!Particles, TP!Particles,
       T!FirstWords, TP!FirstWords, T!WordsOf, TP!WordsOf, T!EndOf, TP!EndOf, T!Starts, TP!Starts,
       T!Ends, TP!Ends, T!IsFullStop, TP!IsFullStop, T!IsWord, TP!IsWord, T!Initials, TP!Initials,
       T!Correlatives, TP!Correlatives, T!Without, TP!Without, T!Tokens, TP!Tokens, T!InOrder,
       TP!InOrder, T!Cardinality, TP!Cardinality, T!WithComma, TP!WithComma

LEMMA SameSentences ==
  ASSUME NEW t PROVE T!Sentences(t) = TP!Sentences(t)
BY DEF T!Sentences, TP!Sentences, T!InOrder, TP!InOrder, T!Cardinality, TP!Cardinality, T!Starts,
       TP!Starts, T!Space, TP!Space, T!Word, TP!Word, T!Ends, TP!Ends, T!Stops, TP!Stops,
       T!IsFullStop, TP!IsFullStop, T!IsWord, TP!IsWord, T!Marks, TP!Marks, T!Comma, TP!Comma,
       T!Initials, TP!Initials, T!After, TP!After, T!Min, TP!Min, T!EndOf, TP!EndOf

LEMMA SameCommas ==
  ASSUME NEW t PROVE T!CollapseCommas(t) = TP!CollapseCommas(t)
BY DEF T!CollapseCommas, TP!CollapseCommas, T!Without, TP!Without, T!Tokens, TP!Tokens, T!InOrder,
       TP!InOrder, T!Cardinality, TP!Cardinality, T!Comma, TP!Comma, T!Word, TP!Word, T!Space,
       TP!Space

LEMMA SameQuestions ==
  ASSUME NEW t PROVE T!QuestionMark(t) = TP!QuestionMark(t)
BY DEF T!QuestionMark, TP!QuestionMark, T!Space, TP!Space, T!Word, TP!Word, T!Max, TP!Max, T!Min,
       TP!Min, T!Words, TP!Words, T!Marks, TP!Marks, T!Stops, TP!Stops, T!Comma, TP!Comma,
       T!QuestionForms, TP!QuestionForms, T!QuestionWords, TP!QuestionWords, T!Last, TP!Last

LEMMA SameFlattening ==
  ASSUME NEW ss PROVE T!FlattenSeq(ss) = TP!FlattenSeq(ss)
BY DEF T!FlattenSeq, TP!FlattenSeq

LEMMA SamePunctuation ==
  ASSUME NEW t PROVE T!punctuation(t) = TP!punctuation(t)
<1> DEFINE ss == TP!Sentences(TP!CollapseCommas(t))
<1>1. T!Sentences(T!CollapseCommas(t)) = ss
  BY SameCommas, SameSentences
<1> HIDE DEF ss
<1>2. [k \in 1..Len(ss) |-> T!QuestionMark(ss[k])] = [k \in 1..Len(ss) |-> TP!QuestionMark(ss[k])]
  BY SameQuestions
<1>3. T!punctuation(t) = T!FlattenSeq([k \in 1..Len(ss) |-> T!QuestionMark(ss[k])])
  BY <1>1 DEF T!punctuation
<1>4. TP!punctuation(t) = TP!FlattenSeq([k \in 1..Len(ss) |-> TP!QuestionMark(ss[k])])
  BY DEF TP!punctuation, ss
<1> QED BY <1>2, <1>3, <1>4, SameFlattening

LEMMA SameDictionary ==
  ASSUME NEW t PROVE T!dictionary(t) = TP!dictionary(t)
BY DEF T!dictionary, TP!dictionary, T!ListedTerms, TP!ListedTerms, T!Canonical, TP!Canonical,
       T!Word, TP!Word

LEMMA SameTrimming ==
  ASSUME NEW s PROVE T!Trimmed(s) = TP!Trimmed(s)
BY DEF T!Trimmed, TP!Trimmed, T!Without, TP!Without, T!Tokens, TP!Tokens, T!InOrder, TP!InOrder,
       T!Cardinality, TP!Cardinality, T!Space, TP!Space, T!Word, TP!Word

LEMMA SameSqueezing ==
  ASSUME NEW s PROVE T!Squeezed(s) = TP!Squeezed(s)
BY DEF T!Squeezed, TP!Squeezed, T!Without, TP!Without, T!Tokens, TP!Tokens, T!InOrder, TP!InOrder,
       T!Cardinality, TP!Cardinality, T!Space, TP!Space, T!Word, TP!Word, T!After, TP!After, T!Min,
       TP!Min

LEMMA SameTightening ==
  ASSUME NEW s PROVE T!Tight(s) = TP!Tight(s)
BY DEF T!Tight, TP!Tight, T!Without, TP!Without, T!Tokens, TP!Tokens, T!InOrder, TP!InOrder,
       T!Cardinality, TP!Cardinality, T!Space, TP!Space, T!Word, TP!Word, T!Stops, TP!Stops,
       T!Comma, TP!Comma

LEMMA SameStrayCommas ==
  ASSUME NEW s PROVE T!WithoutStrayComma(s) = TP!WithoutStrayComma(s)
BY DEF T!WithoutStrayComma, TP!WithoutStrayComma, T!Without, TP!Without, T!Tokens, TP!Tokens,
       T!InOrder, TP!InOrder, T!Cardinality, TP!Cardinality, T!Comma, TP!Comma, T!Word, TP!Word,
       T!After, TP!After, T!Min, TP!Min, T!Space, TP!Space, T!Stops, TP!Stops

LEMMA SameSpacing ==
  ASSUME NEW s PROVE T!Spaced(s) = TP!Spaced(s)
BY DEF T!Spaced, TP!Spaced, T!MapConcat, TP!MapConcat, T!FlattenSeq, TP!FlattenSeq, T!Comma,
       TP!Comma, T!Word, TP!Word, T!Space, TP!Space

LEMMA SameLeadingCommas ==
  ASSUME NEW s PROVE T!WithoutLeadingComma(s) = TP!WithoutLeadingComma(s)
BY DEF T!WithoutLeadingComma, TP!WithoutLeadingComma, T!Without, TP!Without, T!Tokens, TP!Tokens,
       T!InOrder, TP!InOrder, T!Cardinality, TP!Cardinality, T!Comma, TP!Comma, T!Word, TP!Word,
       T!Space, TP!Space

LEMMA SameJoining ==
  ASSUME NEW ss PROVE T!Join(ss) = TP!Join(ss)
BY DEF T!Join, TP!Join, T!FlattenSeq, TP!FlattenSeq, T!Space, TP!Space, T!Word, TP!Word

LEMMA SameNormalizing ==
  ASSUME NEW s PROVE T!NormalizeSentence(s) = TP!NormalizeSentence(s)
BY SameTrimming, SameSqueezing, SameTightening, SameStrayCommas, SameSpacing, SameLeadingCommas
   DEF T!NormalizeSentence, TP!NormalizeSentence

LEMMA SameWhitespace ==
  ASSUME NEW t PROVE T!whitespace(t) = TP!whitespace(t)
<1> DEFINE ss == TP!Sentences(t)
<1>1. T!Sentences(t) = ss
  BY SameSentences
<1> HIDE DEF ss
<1>2. [k \in 1..Len(ss) |-> T!NormalizeSentence(ss[k])] = [k \in 1..Len(ss) |-> TP!NormalizeSentence(ss[k])]
  BY SameNormalizing
<1>3. T!whitespace(t) = T!Join([k \in 1..Len(ss) |-> T!NormalizeSentence(ss[k])])
  BY <1>1 DEF T!whitespace
<1>4. TP!whitespace(t) = TP!Join([k \in 1..Len(ss) |-> TP!NormalizeSentence(ss[k])])
  BY DEF TP!whitespace, ss
<1> QED BY <1>2, <1>3, <1>4, SameJoining

LEMMA SameFirstWords ==
  ASSUME NEW t PROVE T!FirstWords(t) = TP!FirstWords(t)
BY DEF T!FirstWords, TP!FirstWords, T!Min, TP!Min, T!WordsOf, TP!WordsOf, T!Words, TP!Words,
       T!Marks, TP!Marks, T!Stops, TP!Stops, T!Word, TP!Word, T!Space, TP!Space, T!Comma, TP!Comma,
       T!EndOf, TP!EndOf, T!Starts, TP!Starts, T!Ends, TP!Ends, T!IsFullStop, TP!IsFullStop,
       T!IsWord, TP!IsWord, T!Initials, TP!Initials, T!After, TP!After

LEMMA SameCasing ==
  ASSUME NEW t PROVE T!casing(t) = TP!casing(t)
BY SameFirstWords DEF T!casing, TP!casing, T!Capital, TP!Capital, T!ListedTerms, TP!ListedTerms,
       T!Canonical, TP!Canonical

LEMMA TheCleanupStartsTheSame == T!Init => TP!Init
BY DEF T!Init, TP!Init, T!Levels, TP!Levels

(* One rule, once it is known to be the same.                              *)
LEMMA TheCleanupStepsTheSame == T!Next => TP!Next
<1> USE DEF T!Run, TP!Run, T!From, TP!From, T!Levels, TP!Levels
<1>1. T!Run(1, T!hallucination) => TP!Run(1, TP!hallucination)
  BY SameHallucination
<1>2. T!Run(2, T!filler) => TP!Run(2, TP!filler)
  BY SameFiller
<1>3. T!Run(3, T!repeats) => TP!Run(3, TP!repeats)
  BY SameRepeating
<1>4. T!Run(4, T!particles) => TP!Run(4, TP!particles)
  BY SameParticles
<1>5. T!Run(5, T!punctuation) => TP!Run(5, TP!punctuation)
  BY SamePunctuation
<1>6. T!Run(6, T!dictionary) => TP!Run(6, TP!dictionary)
  BY SameDictionary
<1>7. T!Run(7, T!whitespace) => TP!Run(7, TP!whitespace)
  BY SameWhitespace
<1>8. T!Run(8, T!casing) => TP!Run(8, TP!casing)
  BY SameCasing
<1> QED BY <1>1, <1>2, <1>3, <1>4, <1>5, <1>6, <1>7, <1>8 DEF T!Next, TP!Next

LEMMA SameSaying ==
  ASSUME NEW t PROVE T!Spoken(t) = TP!Spoken(t)
BY DEF T!Spoken, TP!Spoken, T!Names, TP!Names, T!InOrder, TP!InOrder, T!Cardinality, TP!Cardinality,
       T!dictionary, TP!dictionary, T!ListedTerms, TP!ListedTerms, T!Canonical, TP!Canonical,
       T!Word, TP!Word, T!Words, TP!Words, T!Marks, TP!Marks, T!Stops, TP!Stops, T!Space, TP!Space,
       T!Comma, TP!Comma

LEMMA SameTokens ==
  ASSUME NEW t, NEW places PROVE T!Tokens(t, places) = TP!Tokens(t, places)
BY DEF T!Tokens, TP!Tokens, T!InOrder, TP!InOrder, T!Cardinality, TP!Cardinality

LEMMA TheCleanupPromisesTheSame ==
  ASSUME TP!OnlyListedWordsGo, TP!PhrasesStay, TP!NoSeams, TP!SentencesBeginWell
  PROVE  T!OnlyListedWordsGo /\ T!PhrasesStay /\ T!NoSeams /\ T!SentencesBeginWell
<1> USE DEF T!Done, TP!Done
<1>1. T!OnlyListedWordsGo
  <2>1. \A i : T!InCanned(raw, T!InOrder(T!Words(raw))[i]) <=> TP!InCanned(raw, TP!InOrder(TP!Words(raw))[i])
    <3>1. T!InOrder(T!Words(raw)) = TP!InOrder(TP!Words(raw))
      BY DEF T!InOrder, TP!InOrder, T!Cardinality, TP!Cardinality, T!Words, TP!Words, T!Marks, TP!Marks,
         T!Stops, TP!Stops, T!Space, TP!Space, T!Comma, TP!Comma, T!Word, TP!Word
    <3> QED BY <3>1, SameInCanned
  <2>2. \A i : TP!Droppable(i) => T!Droppable(i)
    BY <2>1, SameSaying DEF T!Droppable, TP!Droppable, T!Fillers, TP!Fillers,
       T!Particles, TP!Particles, T!Reduplications, TP!Reduplications
  <2> QED BY <2>2, SameSaying, SameTokens DEF T!OnlyListedWordsGo, TP!OnlyListedWordsGo, T!Dropped, TP!Dropped
<1>2. T!PhrasesStay
  BY SameSaying, SameInCanned DEF T!PhrasesStay, TP!PhrasesStay, T!Kept, TP!Kept, T!Phrases, TP!Phrases, T!Words, TP!Words, T!IsWord, TP!IsWord,
     T!Marks, TP!Marks, T!Stops, TP!Stops, T!Space, TP!Space, T!Comma, TP!Comma, T!Word, TP!Word
<1>3. T!NoSeams
  BY SameStarts DEF T!NoSeams, TP!NoSeams, T!Lone, TP!Lone,
     T!Marks, TP!Marks, T!Stops, TP!Stops, T!Space, TP!Space, T!Comma, TP!Comma, T!Word, TP!Word
<1>4. T!SentencesBeginWell
  BY SameFirstWords DEF T!SentencesBeginWell, TP!SentencesBeginWell, T!ListedTerms, TP!ListedTerms,
     T!Canonical, TP!Canonical
<1> QED BY <1>1, <1>2, <1>3, <1>4

-----------------------------------------------------------------------------
(* The texts: words and, between and behind them, gaps of one mark or two. *)
Uncapped(names) == {<<w, FALSE>> : w \in names}
TextNames == {"ev", "eee", "yani", "ya", "da", "sey", "bir", "mi", "ne", "kes", "alt", "yazi", "yavas", "m"} \union TP!MarkNames
Lower == Uncapped(TextNames)

(* At most one comma. *)
OneComma(s) == \A i, j \in 1..Len(s) : s[i] = TP!Comma /\ s[j] = TP!Comma => i = j

LEMMA PlainIs ==
  ASSUME NEW g \in Seq(TextNames)
  PROVE  /\ Plain(g) \in Seq(Lower) /\ Len(Plain(g)) = Len(g)
         /\ \A i \in 1..Len(g) : Plain(g)[i] = <<g[i], FALSE>>
<1>1. DOMAIN g = 1..Len(g) /\ Len(g) \in Nat /\ \A i \in 1..Len(g) : g[i] \in TextNames
  OBVIOUS
<1>2. Plain(g) = [i \in 1..Len(g) |-> <<g[i], FALSE>>]
  BY <1>1 DEF Plain
<1>3. \A i \in 1..Len(g) : <<g[i], FALSE>> \in Lower
  BY <1>1 DEF Lower, Uncapped
<1>4. DOMAIN Plain(g) = 1..Len(g) /\ \A i \in 1..Len(g) : Plain(g)[i] = <<g[i], FALSE>>
  BY <1>2
<1>5. Plain(g) \in [1..Len(g) -> Lower]
  BY <1>2, <1>3
<1>6. Plain(g) \in Seq(Lower)
  BY <1>1, <1>5, SeqDef
<1>7. Len(Plain(g)) = Len(g)
  BY <1>1, <1>4, <1>6, LenProperties
<1> QED BY <1>4, <1>6, <1>7

LEMMA GapOfOne ==
  ASSUME NEW g \in Seq(TextNames), Len(g) \in 0..1
  PROVE  Plain(g) \in Seq(Lower) /\ OneComma(Plain(g))
<1>1. Plain(g) \in Seq(Lower) /\ Len(Plain(g)) \in 0..1
  BY PlainIs
<1> QED BY <1>1 DEF OneComma

LEMMA GapOfTwo ==
  ASSUME NEW g \in Seq(TextNames), Len(g) = 2, g[1] # g[2]
  PROVE  Plain(g) \in Seq(Lower) /\ OneComma(Plain(g))
<1>1. Plain(g) \in Seq(Lower) /\ Len(Plain(g)) = 2 /\ Plain(g)[1] # Plain(g)[2]
  <2>1. \A i \in 1..2 : Plain(g)[i] = <<g[i], FALSE>>
    BY PlainIs
  <2>2. Plain(g)[1] # Plain(g)[2]
    BY <2>1
  <2> QED BY <2>2, PlainIs
<1> QED BY <1>1 DEF OneComma

LEMMA GapsAre ==
  ASSUME NEW g \in Gaps \union {<<>>}
  PROVE  Plain(g) \in Seq(Lower) /\ OneComma(Plain(g))
<1>1. /\ {" ", ",", ".", "?"} \subseteq TextNames
      /\ "," # " " /\ "." # " "
  BY Zenon DEF TextNames, TP!MarkNames
<1>2. \/ g = <<>> \/ \E x \in TextNames : g = <<x>>
      \/ \E x, y \in TextNames : x # y /\ g = <<x, y>>
  BY <1>1, Zenon DEF Gaps
<1>3. ASSUME g = <<>> PROVE g \in Seq(TextNames) /\ Len(g) \in 0..1
  BY <1>3
<1>4. ASSUME NEW x \in TextNames, g = <<x>> PROVE g \in Seq(TextNames) /\ Len(g) \in 0..1
  BY <1>4
<1>5. ASSUME NEW x \in TextNames, NEW y \in TextNames, x # y, g = <<x, y>>
      PROVE  g \in Seq(TextNames) /\ Len(g) = 2 /\ g[1] # g[2]
  BY <1>5
<1> QED BY <1>2, <1>3, <1>4, <1>5, GapOfOne, GapOfTwo

LEMMA OtherWord ==
  ASSUME NEW w, NEW x, w # x
  PROVE  <<w, FALSE>> # TP!Word(x)
BY DEF TP!Word

LEMMA LexiconIs ==
  ASSUME NEW a \in Lexicon
  PROVE  a \notin TP!Loose /\ a # TP!Comma /\ a \in Lower
<1>1. PICK w \in {"ev", "eee", "yani", "ya", "da", "sey", "bir", "mi", "ne", "kes", "alt", "yazi", "yavas", "m"} : a = <<w, FALSE>>
  BY Zenon DEF Lexicon
<1>2. w # "," /\ w # " " /\ w \in TextNames
  BY Zenon DEF TextNames
<1>3. a # TP!Word(",") /\ a # TP!Word(" ")
  BY <1>1, <1>2, OtherWord, Zenon
<1>4. a # TP!Comma /\ a # TP!Space
  BY <1>3, Zenon DEF TP!Comma, TP!Space
<1>5. a \in Lower
  BY <1>1, <1>2, Zenon DEF Lower, Uncapped
<1> QED BY <1>4, <1>5 DEF TP!Loose

(* Two words, each with a gap of one comma at most behind it.              *)
LEMMA WordsApart ==
  ASSUME NEW a \in Lexicon, NEW b \in Lexicon, NEW p \in Seq(Lower), NEW q \in Seq(Lower), NEW z \in Seq(Lower),
         OneComma(p), OneComma(q), \A i \in 1..Len(z) : z[i] # TP!Comma,
         NEW t, t = <<a>> \o p \o <<b>> \o q \o z
  PROVE  t \in Seq(Lower) /\ TP!NoRuns(t)
<1>1. a \in Lower /\ b \in Lower /\ a # TP!Comma /\ b # TP!Comma /\ b \notin TP!Loose
  BY LexiconIs
<1>2. Len(p) \in Nat /\ Len(q) \in Nat /\ Len(z) \in Nat
  OBVIOUS
<1> DEFINE n == Len(p)
           m == Len(q)
<1>3. t \in Seq(Lower) /\ Len(t) = n + 2 + m + Len(z)
  BY <1>1, <1>2
<1>4. /\ t[1] = a /\ t[n + 2] = b
      /\ \A i \in 2..n + 1 : t[i] = p[i - 1]
      /\ \A i \in n + 3..n + 2 + m : t[i] = q[i - n - 2]
      /\ \A i \in n + 3 + m..Len(t) : t[i] = z[i - n - 2 - m]
  BY <1>1, <1>2, <1>3
<1> HIDE DEF n, m
<1>0. n \in Nat /\ m \in Nat /\ n = Len(p) /\ m = Len(q)
  BY <1>2 DEF n, m
<1>5. ASSUME NEW i \in 1..Len(t), NEW j \in 1..Len(t), i < j, t[i] = TP!Comma, t[j] = TP!Comma
      PROVE  n + 2 \in i + 1..j - 1
  <2>1. \A k \in 1..Len(t) : t[k] = TP!Comma => k \in 2..n + 1 \/ k \in n + 3..n + 2 + m
    <3> SUFFICES ASSUME NEW k \in 1..Len(t), t[k] = TP!Comma, k \in n + 3 + m..Len(t) PROVE FALSE
      BY <1>0, <1>1, <1>2, <1>3, <1>4
    <3>1. k - n - 2 - m \in 1..Len(z)
      BY <1>0, <1>2, <1>3
    <3>2. t[k] = z[k - n - 2 - m]
      BY <1>4
    <3> QED BY <3>1, <3>2
  <2>2. ~(i \in 2..n + 1 /\ j \in 2..n + 1)
    <3> SUFFICES ASSUME i \in 2..n + 1, j \in 2..n + 1 PROVE FALSE
      OBVIOUS
    <3>1. i - 1 \in 1..n /\ j - 1 \in 1..n /\ i - 1 # j - 1 /\ p[i - 1] = t[i] /\ p[j - 1] = t[j]
      BY <1>0, <1>4, <1>5
    <3> QED BY <1>0, <1>5, <3>1 DEF OneComma
  <2>3. ~(i \in n + 3..n + 2 + m /\ j \in n + 3..n + 2 + m)
    <3> SUFFICES ASSUME i \in n + 3..n + 2 + m, j \in n + 3..n + 2 + m PROVE FALSE
      OBVIOUS
    <3>1. /\ i - n - 2 \in 1..m /\ j - n - 2 \in 1..m /\ i - n - 2 # j - n - 2
          /\ q[i - n - 2] = t[i] /\ q[j - n - 2] = t[j]
      BY <1>0, <1>4, <1>5
    <3> QED BY <1>0, <1>5, <3>1 DEF OneComma
  <2>4. i \in 2..n + 1 /\ j \in n + 3..n + 2 + m
    <3>1. \/ i \in 2..n + 1 \/ i \in n + 3..n + 2 + m
      BY <1>5, <2>1
    <3>2. \/ j \in 2..n + 1 \/ j \in n + 3..n + 2 + m
      BY <1>5, <2>1
    <3>3. ~(i \in n + 3..n + 2 + m /\ j \in 2..n + 1)
      BY <1>0, <1>5
    <3> QED BY <2>2, <2>3, <3>1, <3>2, <3>3
  <2> QED BY <1>0, <2>4
<1> QED BY <1>1, <1>3, <1>4, <1>5 DEF TP!NoRuns, TP!Behind

LEMMA TextsAreApart ==
  ASSUME NEW t \in Texts
  PROVE  t \in Seq(Lower) /\ TP!NoRuns(t)
<1>1. CASE \E a \in Lexicon, g \in Gaps, b \in Lexicon, h \in Gaps \union {<<>>} : t = TwoWords(a, g, b, h)
  <2>1. PICK a \in Lexicon, b \in Lexicon, g \in Gaps, h \in Gaps \union {<<>>} :
          t = <<a>> \o Plain(g) \o <<b>> \o Plain(h)
    BY <1>1 DEF TwoWords
  <2>2. /\ Plain(g) \in Seq(Lower) /\ OneComma(Plain(g))
        /\ Plain(h) \in Seq(Lower) /\ OneComma(Plain(h))
    BY GapsAre
  <2>3. a \in Lower /\ b \in Lower
    BY LexiconIs
  <2> DEFINE p == Plain(g)
             q == Plain(h)
  <2> HIDE DEF p, q
  <2>4. p \in Seq(Lower) /\ q \in Seq(Lower) /\ t = <<a>> \o p \o <<b>> \o q
    BY <2>1, <2>2 DEF p, q
  <2>5. t = <<a>> \o p \o <<b>> \o q \o <<>> /\ <<>> \in Seq(Lower) /\ Len(<<>>) = 0
    <3>1. <<a>> \o p \o <<b>> \o q \in Seq(Lower)
      BY <2>3, <2>4
    <3> QED BY <2>4, <3>1
  <2>6. \A i \in 1..Len(<<>>) : <<>>[i] # TP!Comma
    BY <2>5
  <2> QED BY <2>2, <2>4, <2>5, <2>6, WordsApart DEF p, q
<1>2. CASE \E a \in Lexicon, g \in Pauses, b \in Lexicon, h \in Breaks, c \in Endings : t = ThreeWords(a, g, b, h, c)
  <2>0. /\ Pauses \subseteq Gaps /\ Breaks \subseteq Gaps /\ Endings \subseteq Lexicon
        /\ \A a, g, b, h, c : ThreeWords(a, g, b, h, c) = TwoWords(a, g, b, h) \o <<c, TP!Word(".")>>
    BY Zenon DEF Pauses, Breaks, Gaps, Endings, Lexicon, ThreeWords, TP!Word
  <2>1. PICK a \in Lexicon, b \in Lexicon, c \in Lexicon, g \in Gaps, h \in Gaps :
          t = TwoWords(a, g, b, h) \o <<c, TP!Word(".")>>
    BY <1>2, <2>0
  <2>2. /\ Plain(g) \in Seq(Lower) /\ OneComma(Plain(g))
        /\ Plain(h) \in Seq(Lower) /\ OneComma(Plain(h))
    BY GapsAre
  <2>3. c \in Lower /\ c # TP!Comma
    BY LexiconIs
  <2>4. TP!Word(".") \in Lower /\ TP!Word(".") # TP!Comma
    <3>1. "." \in TextNames /\ "." # ","
      BY Zenon DEF TextNames, TP!MarkNames
    <3>2. TP!Word(".") = <<".", FALSE>>
      BY Zenon DEF TP!Word
    <3>3. <<".", FALSE>> # TP!Word(",")
      BY <3>1, OtherWord, Zenon
    <3> QED BY <3>1, <3>2, <3>3, Zenon DEF TP!Comma, Lower, Uncapped
  <2> DEFINE s == TP!Word(".")
             z == <<c, s>>
  <2>5. s \in Lower /\ s # TP!Comma /\ t = <<a>> \o Plain(g) \o <<b>> \o Plain(h) \o <<c, s>>
    BY <2>1, <2>4, Zenon DEF TwoWords
  <2> HIDE DEF s
  <2>6. z \in Seq(Lower) /\ Len(z) = 2 /\ z[1] = c /\ z[2] = s
    BY <2>3, <2>5
  <2> HIDE DEF z
  <2>7. \A i \in 1..Len(z) : z[i] # TP!Comma
    BY <2>3, <2>5, <2>6
  <2>8. t = <<a>> \o Plain(g) \o <<b>> \o Plain(h) \o z
    BY <2>5 DEF z
  <2> QED BY <2>2, <2>6, <2>7, <2>8, WordsApart
<1> QED BY <1>1, <1>2 DEF Texts

LEMMA TheTextsAreRaw == TP!RawTexts
<1> SUFFICES ASSUME NEW t \in Texts PROVE t \in Seq(TP!Token) /\ TP!NoRuns(t)
  BY DEF TP!RawTexts
<1>1. t \in Seq(Lower) /\ TP!NoRuns(t)
  BY TextsAreApart
<1>2. Len(t) \in Nat /\ DOMAIN t = 1..Len(t) /\ \A i \in 1..Len(t) : t[i] \in Lower
  BY <1>1
<1>3. ASSUME NEW i \in 1..Len(t) PROVE t[i] \in TP!Token
  <2>1. t[i] = <<t[i][1], FALSE>>
    <3>1. PICK w \in TextNames : t[i] = <<w, FALSE>>
      BY <1>2 DEF Lower, Uncapped
    <3> QED BY <3>1
  <2>2. t[i][1] \in {t[k][1] : k \in DOMAIN t}
    BY <1>2
  <2>3. t[i][1] \in TP!AllNames
    BY <2>2, Zenon DEF TP!AllNames
  <2>4. <<t[i][1], FALSE>> \in TP!AllNames \X BOOLEAN
    BY <2>3
  <2> QED BY <2>1, <2>4 DEF TP!Token
<1>4. t \in [1..Len(t) -> TP!Token]
  <2>1. t = [i \in 1..Len(t) |-> t[i]]
    BY <1>1, <1>2
  <2> QED BY <1>3, <2>1
<1> QED BY <1>1, <1>2, <1>4, SeqDef

(* Cleanup, on the desk: of every text MCDesk has, at every level, no word *)
(* goes without a reason, the phrases that may not be touched are said, no *)
(* seam shows, and sentences begin as they should.                         *)
THEOREM TheDeskKeepsTheTranscript ==
  DeskSpec => []TranscriptIsKept
<1> DEFINE Clean == part = "cleanup" => TP!Cleaned
<1>1. DeskInit => Clean
  BY TheTextsAreRaw, TheCleanupStartsTheSame, TP!CleanedAtFirst DEF DeskInit
<1>2. Clean /\ [DeskNext]_desk => Clean'
  <2>1. ASSUME TP!Cleaned, UNCHANGED cleaning PROVE TP!Cleaned'
    BY <2>1 DEF cleaning, TP!Cleaned, TP!Written
  <2>2. ASSUME TP!Cleaned, T!Next PROVE TP!Cleaned'
    BY <2>2, TheCleanupStepsTheSame, TP!CleanedStays
  <2>3. [DeskNext]_desk => part' = part /\ (part = "cleanup" => T!Next \/ UNCHANGED cleaning)
    BY DEF DeskNext, desk
  <2> QED BY <2>1, <2>2, <2>3
<1>3. Clean => TranscriptIsKept
  <2> SUFFICES ASSUME TP!Cleaned
               PROVE  T!OnlyListedWordsGo /\ T!PhrasesStay /\ T!NoSeams /\ T!SentencesBeginWell
    BY DEF TranscriptIsKept
  <2> QED BY TP!CleanedKeepsTheTranscript, TheCleanupPromisesTheSame
<1> QED
  BY <1>1, <1>2, <1>3, PTL DEF DeskSpec
=============================================================================
