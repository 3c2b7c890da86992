------------------------------ MODULE Cleanup ------------------------------
(***************************************************************************)
(* The cleanup of a transcript (dile-core): the pipeline of rules a        *)
(* strictness level lets run, in its order, over one raw text.             *)
(*                                                                         *)
(* A text is a sequence of tokens: words, marks and spaces, each with      *)
(* whether it begins with a capital.  A word stands for the class of words *)
(* the rules and their lists tell apart.                                   *)
(***************************************************************************)
EXTENDS Naturals, SequencesExt

CONSTANT Inputs  \* raw texts

Levels == [light |-> 1, medium |-> 2, strict |-> 3]

(* The classes of words, and the lists of lists.rs they are on.            *)
Fillers        == {"eee"}
Particles      == {"ya", "yani"}
Correlatives   == {"da", "ya"}
SeyGuards      == {"bir", "ne"}
QuestionForms  == {"mi"}
QuestionWords  == {"ne"}
Reduplications == {"bir", "yavas"}
Initials       == {"m"}                        \* one letter, or all digits
Phrases        == {<<"alt", "yazi">>}          \* hallucinations
Canonical      == [kes |-> "cache", cache |-> "cache"]  \* the user's dictionary
ListedTerms    == DOMAIN Canonical

Word(name)    == <<name, FALSE>>
Capital(name) == <<name, TRUE>>
Space == Word(" ")
Comma == Word(",")
Stops == {Word("."), Word("?"), Word("!")}
Marks == Stops \union {Space, Comma}

VARIABLES
  raw, level,  \* what is cleaned, how strictly
  text,        \* what it is so far
  rule         \* the rule that runs next: its place in PIPELINE

vars == <<raw, level, text, rule>>

-----------------------------------------------------------------------------
(* text.rs.                                                                *)
IsWord(t, i) == i \in DOMAIN t /\ t[i] \notin Marks

Words(t) == {i \in DOMAIN t : t[i] \notin Marks}

(* The next token that is no space; past the end when there is none.       *)
After(t, i) == Min({j \in i + 1..Len(t) : t[j] # Space} \union {Len(t) + 1})

(* is_full_stop: not inside a word, and not after an ordinal or an initial *)
(* the sentence goes on from.                                              *)
IsFullStop(t, i) ==
  /\ ~IsWord(t, i + 1)
  /\ ~ /\ IsWord(t, i - 1) /\ t[i - 1][1] \in Initials
       /\ IsWord(t, After(t, i)) /\ ~t[After(t, i)][2]

Ends(t, i) == t[i] \in Stops /\ (t[i] = Word(".") => IsFullStop(t, i))

(* sentences: one begins after a terminator, the run of terminators it is  *)
(* in, and the spaces behind them.                                         *)
Starts(t) == {1} \union {i \in 2..Len(t) : t[i] # Space /\ \E j \in 1..i - 1 :
  /\ Ends(t, j)
  /\ \E m \in j..i - 1 : /\ \A k \in j + 1..m : t[k] \in Stops
                         /\ \A k \in m + 1..i - 1 : t[k] = Space
                         /\ m = i - 1 => t[i] \notin Stops}

EndOf(t, start) == Min({i - 1 : i \in {j \in Starts(t) : j > start}} \union {Len(t)})

WordsOf(t, start) == {i \in Words(t) : start <= i /\ i <= EndOf(t, start)}

(* Places of a text from left to right, the tokens at them, and the words. *)
InOrder(places) ==
  [k \in 1..Cardinality(places) |-> CHOOSE i \in places : Cardinality({j \in places : j <= i}) = k]

Tokens(t, places) == LET order == InOrder(places) IN [k \in DOMAIN order |-> t[order[k]]]

Names(t, places) == LET order == InOrder(places) IN [k \in DOMAIN order |-> t[order[k]][1]]

-----------------------------------------------------------------------------
(* What the rules are made of.                                             *)
MapConcat(t, Piece(_)) == FlattenSeq([i \in 1..Len(t) |-> Piece(i)])

(* remove *)
Without(t, cuts) == Tokens(t, DOMAIN t \ cuts)

(* with_trailing_comma *)
WithComma(t, i) ==
  IF After(t, i) <= Len(t) /\ t[After(t, i)] = Comma THEN i..After(t, i) ELSE {i}

(* is_repeats_of *)
IsRepeatsOf(names, phrase) ==
  /\ Len(names) > 0 /\ Len(names) % Len(phrase) = 0
  /\ \A k \in 1..Len(names) : names[k] = phrase[((k - 1) % Len(phrase)) + 1]

(* A sentence that is nothing but one phrase, and a place in such a one.   *)
IsCanned(t, start) == \E phrase \in Phrases : IsRepeatsOf(Names(t, WordsOf(t, start)), phrase)

InCanned(t, i) == \E s \in Starts(t) : i \in s..EndOf(t, s) /\ IsCanned(t, s)

-----------------------------------------------------------------------------
(* The rules.                                                              *)

(* Mutant: a phrase goes wherever it stands. *)
hallucination_anywhere(t) ==
  Without(t, UNION {i..i + 2 : i \in {w \in Words(t) :
    IsWord(t, w + 2) /\ t[w + 1] = Space /\ <<t[w][1], t[w + 2][1]>> \in Phrases}})

hallucination(t) ==
  Without(t, UNION {start..EndOf(t, start) : start \in {s \in Starts(t) : IsCanned(t, s)}})

filler(t) ==
  Without(t, UNION {WithComma(t, i) : i \in {w \in Words(t) : t[w][1] \in Fillers}})

(* Two words with nothing but spaces between them, and the same but for    *)
(* their case: the gap and the second go.                                  *)
repeats(t) ==
  Without(t, UNION {i + 1..After(t, i) : i \in {w \in Words(t) :
    LET second == After(t, w) IN
    /\ second > w + 1 /\ IsWord(t, second)
    /\ t[w][1] = t[second][1] /\ t[w][1] \notin Reduplications}})

FirstWords(t) == {Min(WordsOf(t, s)) : s \in {s \in Starts(t) : WordsOf(t, s) # {}}}

BeforePause(t, i) == After(t, i) > Len(t) \/ t[After(t, i)] \in Stops \union {Comma}

particles(t) ==
  LET ahead(i)  == {j \in Words(t) : j > i}
      behind(i) == {j \in Words(t) : j < i}
      sey(i) == /\ t[i][1] = "sey" /\ BeforePause(t, i)
                /\ behind(i) # {} => t[Max(behind(i))][1] \notin SeyGuards
      edge(i) == /\ t[i][1] \in Particles /\ (i \in FirstWords(t) \/ BeforePause(t, i))
                 /\ t[i][1] = "ya" /\ ahead(i) # {} => t[Min(ahead(i))][1] \notin Correlatives
  IN Without(t, UNION {WithComma(t, i) : i \in {w \in Words(t) : sey(w) \/ edge(w)}})

(* collapse_comma_runs: every comma but the first, and the spaces between. *)
CollapseCommas(t) ==
  Without(t, {i \in DOMAIN t : \E a, b \in DOMAIN t :
    /\ a < i /\ i <= b /\ t[a] = Comma /\ t[b] = Comma
    /\ \A k \in a..b : t[k] \in {Comma, Space}})

(* question_mark: over what is left of a sentence without the spaces at    *)
(* its end.                                                                *)
QuestionMark(s) ==
  LET solid == {i \in DOMAIN s : s[i] # Space}
      body  == SubSeq(s, 1, IF solid = {} THEN 0 ELSE Max(solid))
      first == Min(Words(body))
      last  == Max(Words(body))
      asks  == s[last][1] \in QuestionForms \/ s[first][1] \in QuestionWords
  IN IF \/ body = <<>> \/ Words(body) = {}
        \/ Last(body) \in {Word("?"), Word("!")}
        \/ ~asks
        \/ \E i \in last + 1..Len(body) : body[i] \notin {Space, Word(".")}
     THEN s
     ELSE SubSeq(body, 1, last) \o <<Word("?")>> \o SubSeq(s, Len(body) + 1, Len(s))

Sentences(t) ==
  IF t = <<>> THEN <<>>
  ELSE LET starts == InOrder(Starts(t))
       IN [k \in 1..Len(starts) |-> SubSeq(t, starts[k], EndOf(t, starts[k]))]

punctuation(t) ==
  LET sentences == Sentences(CollapseCommas(t))
  IN FlattenSeq([k \in 1..Len(sentences) |-> QuestionMark(sentences[k])])

dictionary(t) ==
  [i \in DOMAIN t |-> IF t[i][1] \in ListedTerms THEN Word(Canonical[t[i][1]]) ELSE t[i]]

(* normalize_sentence, step by step. *)
Trimmed(s) == Without(s, {i \in DOMAIN s : \A j \in i..Len(s) : s[j] = Space})

Squeezed(s) == Without(s, {i \in DOMAIN s : s[i] = Space /\
  (After(s, i) > i + 1 \/ \A j \in 1..i : s[j] = Space)})

Tight(s) == Without(s, {i \in DOMAIN s : s[i] = Space /\ i < Len(s) /\ s[i + 1] \in Stops \union {Comma}})

WithoutStrayComma(s) == Without(s, {i \in DOMAIN s :
  s[i] = Comma /\ After(s, i) <= Len(s) /\ s[After(s, i)] \in Stops})

Spaced(s) == MapConcat(s, LAMBDA i :
  IF s[i] = Comma /\ i < Len(s) /\ s[i + 1] # Space THEN <<Comma, Space>> ELSE <<s[i]>>)

WithoutLeadingComma(s) == Without(s, {i \in DOMAIN s : \A j \in 1..i : s[j] \in {Comma, Space}})

NormalizeSentence(s) ==
  WithoutLeadingComma(Spaced(WithoutStrayComma(Tight(Squeezed(Trimmed(s))))))

(* normalize, the rule "whitespace": an empty sentence leaves nothing, and *)
(* one space goes before every other but the first.                        *)
Join(ss) ==
  FlattenSeq([k \in 1..Len(ss) |->
    IF ss[k] # <<>> /\ \E j \in 1..k - 1 : ss[j] # <<>> THEN <<Space>> \o ss[k] ELSE ss[k]])

whitespace(t) ==
  LET sentences == Sentences(t)
  IN Join([k \in 1..Len(sentences) |-> NormalizeSentence(sentences[k])])

casing(t) ==
  [i \in DOMAIN t |-> IF i \in FirstWords(t) /\ t[i][1] \notin ListedTerms THEN Capital(t[i][1]) ELSE t[i]]

-----------------------------------------------------------------------------
(* PIPELINE and clean_with: a rule above the level is passed over.         *)
From(r) == <<1, 1, 3, 3, 2, 2, 1, 2>>[r]

Done == Len(<<1, 1, 3, 3, 2, 2, 1, 2>>) + 1

Run(r, Rule(_)) ==
  /\ rule = r /\ rule' = r + 1
  /\ text' = IF From(r) > Levels[level] THEN text ELSE Rule(text)
  /\ UNCHANGED <<raw, level>>

Init ==
  /\ raw \in Inputs /\ level \in DOMAIN Levels
  /\ text = raw /\ rule = 1

Next == \/ Run(1, hallucination) \/ Run(2, filler) \/ Run(3, repeats) \/ Run(4, particles)
        \/ Run(5, punctuation) \/ Run(6, dictionary) \/ Run(7, whitespace) \/ Run(8, casing)

Spec == Init /\ [][Next]_vars

-----------------------------------------------------------------------------
(* Properties.                                                             *)
Spoken(t) == Names(dictionary(t), Words(t))

(* cleanup.rs:7-8, 48-52: when in doubt, keep.  A word is only ever lost   *)
(* when it is a filler or its sentence is nothing but a canned phrase; in  *)
(* strict, also when it is a particle or repeats the word before it; and   *)
(* the rest keeps its order.                                               *)
Dropped == Spoken(raw) # Spoken(text)

Droppable(i) == LET names == Spoken(raw) IN
  \/ names[i] \in Fillers \/ InCanned(raw, InOrder(Words(raw))[i])
  \/ level = "strict" /\ names[i] \in Particles \union {"sey"}
  \/ /\ level = "strict" /\ names[i] \notin Reduplications
     /\ \E j \in 1..i - 1 : names[j] = names[i] /\ \A k \in j..i - 1 : names[k] \in {names[i]} \union Fillers

OnlyListedWordsGo ==
  rule = Done /\ Dropped =>
    \E kept \in SUBSET DOMAIN Spoken(raw) :
      /\ \A i \in DOMAIN Spoken(raw) \ kept : Droppable(i)
      /\ Spoken(text) = Tokens(Spoken(raw), kept)

(* rules.rs:25-32, 270-276, 313-315: a canned phrase inside a sentence was *)
(* spoken, and stays whatever the level; so do a noun phrase with sey, the *)
(* first half of ya ... ya da, and a reduplication.                        *)
Kept == Phrases \union {<<"bir", "sey">>, <<"yavas", "yavas">>, <<"ya", "da">>}

PhrasesStay == rule = Done =>
  \A pair \in Kept :
    (\E i \in Words(raw) : /\ IsWord(raw, i + 2) /\ raw[i + 1] = Space
                           /\ <<raw[i][1], raw[i + 2][1]>> = pair /\ ~InCanned(raw, i))
      => \E i \in DOMAIN Spoken(text) : i < Len(Spoken(text)) /\ <<Spoken(text)[i], Spoken(text)[i + 1]>> = pair

(* normalizer.rs:126-139: what the rules cut leaves no seam, whichever ran *)
(* before: no comma in front of a stop or at the start of a sentence, no   *)
(* space in front of a mark, one between words.  A sentence that lost all  *)
(* its words is excepted: its stop stays, on its own.                      *)
Lone(t, i) == i \in Starts(t) /\ t[i] \in Stops

NoSeams == rule = Done =>
  \A i \in DOMAIN text :
    /\ text[i] = Space => 1 < i /\ i < Len(text) /\ (text[i + 1] \notin Marks \/ Lone(text, i + 1))
    /\ text[i] = Comma => i \notin Starts(text) /\ (i < Len(text) => text[i + 1] = Space)

(* cleanup.rs:28-32: casing comes last, so that the word a sentence begins *)
(* with in the end is the one that is capital, or a term as it is spelt.   *)
SentencesBeginWell == rule = Done /\ level # "light" =>
  \A i \in FirstWords(text) : text[i][2] \/ text[i][1] \in ListedTerms
=============================================================================
