---------------------------- MODULE CleanupProofs ---------------------------
(***************************************************************************)
(* What is proved of the cleanup of a transcript, for texts of any length  *)
(* and any words.                                                          *)
(*                                                                         *)
(* The words.  The first four rules only cut, so what they leave is picked *)
(* out of the raw text, place by place, and every word that is not there   *)
(* has a reason a list or the raw text gives.  Two words that repeat each  *)
(* other once the fillers between them are gone repeat each other in the   *)
(* raw text but for fillers: what the first two rules leave is quiet, the  *)
(* only things missing inside a sentence are fillers and their commas.     *)
(* The last four rules take no word and change no name, so that the text   *)
(* says what is left of the raw text.                                      *)
(*                                                                         *)
(* The marks.  No rule brings two commas together but repeats and          *)
(* particles, and punctuation takes the commas they leave in a row.  So    *)
(* whitespace meets none, normalizes each sentence into one in which every *)
(* token may be behind the one before it, and joins the sentences with a   *)
(* space.  casing changes neither a mark nor where a sentence begins.      *)
(***************************************************************************)
EXTENDS Cleanup, SequenceTheorems, FiniteSetTheorems, WellFoundedInduction, TLAPS

-----------------------------------------------------------------------------
(* Places in order.                                                        *)
LEMMA Smallest ==
  ASSUME NEW N, N \subseteq Nat, N # {}
  PROVE  \E x \in N : \A y \in N : x <= y
<1>1. PICK x \in N : \A y \in N : ~ (<<y, x>> \in OpToRel(<, Nat))
  BY NatLessThanWellFounded, WFMin
<1>2. \A y \in N : ~(y < x)
  <2> SUFFICES ASSUME NEW y \in N, y < x PROVE <<y, x>> \in OpToRel(<, Nat)
    BY <1>1
  <2> QED
    BY DEF OpToRel
<1>3. \A y \in N : x <= y
  BY <1>2
<1> QED BY <1>3

(* A set of numbers with a bound has a largest one. *)
LEMMA Largest ==
  ASSUME NEW N, NEW n \in Nat, \A x \in N : x \in 0..n, N # {}
  PROVE  \E x \in N : \A y \in N : y <= x
<1> DEFINE M == {n - x : x \in N}
<1>0. M \subseteq Nat
  OBVIOUS
<1>1. M # {}
  OBVIOUS
<1>2. PICK m \in M : \A y \in M : m <= y
  <2> HIDE DEF M
  <2> QED BY <1>0, <1>1, Smallest
<1>3. PICK x \in N : m = n - x
  OBVIOUS
<1>4. \A y \in N : y <= x
  <2> TAKE y \in N
  <2>1. n - y \in M
    OBVIOUS
  <2>2. m <= n - y
    BY <1>2, <2>1
  <2>3. x \in 0..n /\ y \in 0..n
    OBVIOUS
  <2> QED BY <1>3, <2>2, <2>3
<1> QED BY <1>4

LEMMA MinIs ==
  ASSUME NEW N, N \subseteq Nat, N # {}
  PROVE  Min(N) \in N /\ \A y \in N : Min(N) <= y
BY Smallest DEF Min

LEMMA MaxIs ==
  ASSUME NEW N, NEW n \in Nat, \A x \in N : x \in 0..n, N # {}
  PROVE  Max(N) \in N /\ \A y \in N : y <= Max(N)
<1>1. PICK x \in N : \A y \in N : y <= x
  BY Largest
<1>2. \A y \in N : x >= y
  BY <1>1
<1>3. Max(N) \in N /\ \A y \in N : Max(N) >= y
  BY <1>2 DEF Max
<1> QED BY <1>3

(* How many of S are not above m. *)
UpTo(S, m) == {j \in S : j <= m}
Rank(S, m) == Cardinality(UpTo(S, m))

LEMMA RankGrows ==
  ASSUME NEW n \in Nat, NEW S, \A x \in S : x \in 1..n
  PROVE  /\ IsFiniteSet(S) /\ Cardinality(S) \in Nat
         /\ \A m \in Nat : Rank(S, m) \in Nat
         /\ Rank(S, 0) = 0 /\ Rank(S, n) = Cardinality(S)
         /\ \A m \in 1..n : Rank(S, m) = Rank(S, m - 1) + (IF m \in S THEN 1 ELSE 0)
         /\ \A a, b \in Nat : a <= b => Rank(S, a) <= Rank(S, b)
         /\ \A a \in Nat, b \in S : a < b => Rank(S, a) < Rank(S, b)
<1>0. \A x \in S : x \in 1..n
  OBVIOUS
<1>1. IsFiniteSet(S)
  <2>1. IsFiniteSet(1..n)
    BY FS_Interval
  <2> QED BY <2>1, FS_Subset
<1>2. \A m \in Nat : UpTo(S, m) \in SUBSET S
  BY DEF UpTo
<1>3. \A m \in Nat : IsFiniteSet(UpTo(S, m)) /\ Rank(S, m) \in Nat
  BY <1>1, <1>2, FS_Subset, FS_CardinalityType DEF Rank
<1>4. UpTo(S, 0) = {} /\ UpTo(S, n) = S
  <2>1. UpTo(S, 0) = {}
    BY <1>0 DEF UpTo
  <2>2. UpTo(S, n) = S
    BY <1>0 DEF UpTo
  <2> QED BY <2>1, <2>2
<1>5. ASSUME NEW m \in 1..n
      PROVE  Rank(S, m) = Rank(S, m - 1) + (IF m \in S THEN 1 ELSE 0)
  <2>1. CASE m \in S
    <3>1. UpTo(S, m) = UpTo(S, m - 1) \union {m}
      <4>1. \A x \in S : x <= m <=> x <= m - 1 \/ x = m
        BY <1>0
      <4> QED BY <2>1, <4>1 DEF UpTo
    <3>2. m \notin UpTo(S, m - 1) /\ m - 1 \in Nat
      BY DEF UpTo
    <3> QED BY <1>3, <2>1, <3>1, <3>2, FS_AddElement DEF Rank
  <2>2. CASE m \notin S
    <3>1. UpTo(S, m) = UpTo(S, m - 1)
      BY <1>0, <2>2 DEF UpTo
    <3> QED BY <1>3, <2>2, <3>1 DEF Rank
  <2> QED BY <2>1, <2>2
<1>6. ASSUME NEW a \in Nat, NEW b \in Nat, a <= b
      PROVE  Rank(S, a) <= Rank(S, b) /\ (a < b /\ b \in S => Rank(S, a) < Rank(S, b))
  <2>1. UpTo(S, a) \in SUBSET UpTo(S, b)
    BY <1>0, <1>6 DEF UpTo
  <2>2. Rank(S, a) <= Rank(S, b) /\ (Rank(S, a) = Rank(S, b) => UpTo(S, b) = UpTo(S, a))
    BY <1>3, <2>1, FS_Subset DEF Rank
  <2>3. a < b /\ b \in S => b \in UpTo(S, b) /\ b \notin UpTo(S, a)
    BY DEF UpTo
  <2> QED BY <1>3, <2>2, <2>3
<1>7. Cardinality(S) \in Nat
  BY <1>1, FS_CardinalityType
<1>8. Rank(S, 0) = 0 /\ Rank(S, n) = Cardinality(S)
  BY <1>4, FS_EmptySet DEF Rank
<1>9. \A b \in S : b \in Nat
  OBVIOUS
<1> QED BY <1>1, <1>3, <1>5, <1>6, <1>7, <1>8, <1>9

LEMMA RankIsTaken ==
  ASSUME NEW n \in Nat, NEW S, \A x \in S : x \in 1..n, NEW k \in 1..Cardinality(S)
  PROVE  \E i \in S : Rank(S, i) = k
<1> DEFINE M == {m \in 0..n : Rank(S, m) >= k}
<1>1. /\ Cardinality(S) \in Nat /\ \A m \in Nat : Rank(S, m) \in Nat
      /\ Rank(S, 0) = 0 /\ Rank(S, n) = Cardinality(S)
      /\ \A m \in 1..n : Rank(S, m) = Rank(S, m - 1) + (IF m \in S THEN 1 ELSE 0)
  BY RankGrows
<1>2. n \in M /\ M \subseteq Nat /\ 0 \notin M
  BY <1>1
<1>3. PICK m \in M : \A y \in M : m <= y
  <2> HIDE DEF M
  <2> QED BY <1>2, Smallest
<1>4. m \in 1..n /\ m - 1 \in 0..n /\ m - 1 \notin M
  BY <1>2, <1>3
<1>5. Rank(S, m - 1) \in Nat /\ ~(Rank(S, m - 1) >= k) /\ Rank(S, m) >= k
  BY <1>1, <1>3, <1>4
<1>6. Rank(S, m) = Rank(S, m - 1) + (IF m \in S THEN 1 ELSE 0)
  BY <1>1, <1>4
<1>7. m \in S /\ Rank(S, m) = k
  BY <1>5, <1>6
<1> QED BY <1>7

(* q lists S from left to right. *)
Rises(q, n) == \A k, l \in 1..n : k < l => q[k] < q[l]

Lists(q, S) ==
  /\ q = [k \in 1..Cardinality(S) |-> q[k]]
  /\ \A k \in 1..Cardinality(S) : q[k] \in S
  /\ Rises(q, Cardinality(S))
  /\ \A i \in S : \E k \in 1..Cardinality(S) : q[k] = i

LEMMA InOrderLists ==
  ASSUME NEW n \in Nat, NEW S, \A x \in S : x \in 1..n
  PROVE  Lists(InOrder(S), S)
<1> DEFINE q == InOrder(S)
           c == Cardinality(S)
<1>1. /\ c \in Nat /\ \A m \in Nat : Rank(S, m) \in Nat
      /\ Rank(S, n) = c
      /\ \A a, b \in Nat : a <= b => Rank(S, a) <= Rank(S, b)
      /\ \A a \in Nat, b \in S : a < b => Rank(S, a) < Rank(S, b)
  BY RankGrows
<1>0. \A x \in S : x \in Nat
  OBVIOUS
<1>2. \A k \in 1..c : q[k] = CHOOSE i \in S : Rank(S, i) = k
  BY DEF InOrder, Rank, UpTo
<1>3. \A k \in 1..c : q[k] \in S /\ Rank(S, q[k]) = k
  BY <1>2, RankIsTaken
<1>4. q = [k \in 1..c |-> q[k]]
  BY DEF InOrder
<1> HIDE DEF q
<1>5. ASSUME NEW k \in 1..c, NEW l \in 1..c, k < l PROVE q[k] < q[l]
  <2>1. q[k] \in S /\ q[l] \in S /\ Rank(S, q[k]) = k /\ Rank(S, q[l]) = l
    BY <1>3
  <2>2. q[k] \in Nat /\ q[l] \in Nat
    BY <1>0, <2>1
  <2>3. ~(q[l] <= q[k])
    BY <1>1, <1>5, <2>1, <2>2
  <2> QED BY <2>2, <2>3
<1>6. ASSUME NEW i \in S PROVE \E k \in 1..c : q[k] = i
  <2>1. i \in Nat /\ i >= 1 /\ i <= n /\ i - 1 \in Nat
    OBVIOUS
  <2>2. Rank(S, i) \in 1..c
    <3>1. Rank(S, i - 1) < Rank(S, i) /\ Rank(S, i) <= Rank(S, n)
      BY <1>1, <2>1
    <3> QED BY <1>1, <2>1, <3>1
  <2>3. q[Rank(S, i)] \in S /\ q[Rank(S, i)] \in Nat /\ Rank(S, q[Rank(S, i)]) = Rank(S, i)
    BY <1>0, <1>3, <2>2
  <2>4. q[Rank(S, i)] = i
    BY <1>1, <2>1, <2>3
  <2> QED BY <2>2, <2>4
<1> QED BY <1>3, <1>4, <1>5, <1>6 DEF Lists, Rises, q

(* What q lists is among the numbers r lists. *)
Within(q, a, r, b) == \A k \in 1..a : q[k] \in Nat /\ \E l \in 1..b : r[l] = q[k]

(* There is one way to list a set. *)
LEMMA ListedTheSame ==
  ASSUME NEW a \in Nat, NEW b \in Nat, NEW q, NEW r,
         Rises(q, a), Rises(r, b), Within(q, a, r, b), Within(r, b, q, a)
  PROVE  a = b /\ \A k \in 1..a : q[k] = r[k]
<1>a. /\ \A k \in 1..a : q[k] \in Nat
      /\ \A k \in 1..b : r[k] \in Nat
      /\ \A k \in 1..a : \E l \in 1..b : r[l] = q[k]
      /\ \A l \in 1..b : \E k \in 1..a : q[k] = r[l]
  BY DEF Within
<1> DEFINE Apart == {k \in 1..a : k > b \/ q[k] # r[k]} \union {k \in 1..b : k > a \/ q[k] # r[k]}
<1>1. SUFFICES ASSUME Apart # {} PROVE FALSE
  <2>1. Apart = {} => \A k \in 1..a : ~(k > b) /\ q[k] = r[k]
    OBVIOUS
  <2>2. Apart = {} => \A k \in 1..b : ~(k > a)
    OBVIOUS
  <2> HIDE DEF Apart
  <2>3. Apart = {}
    BY <1>1
  <2>4. a = b
    <3>1. ASSUME a > b PROVE FALSE
      <4>1. a \in 1..a
        BY <3>1
      <4> QED BY <2>1, <2>3, <3>1, <4>1
    <3>2. ASSUME b > a PROVE FALSE
      <4>1. b \in 1..b
        BY <3>2
      <4> QED BY <2>2, <2>3, <3>2, <4>1
    <3> QED BY <3>1, <3>2
  <2> QED BY <2>1, <2>3, <2>4
<1>2. PICK k \in Apart : \A y \in Apart : k <= y
  <2>1. Apart \subseteq Nat
    OBVIOUS
  <2> HIDE DEF Apart
  <2> QED BY <1>1, <2>1, Smallest
<1>3. \A l \in 1..a : l < k => l \in 1..b /\ q[l] = r[l]
  <2> SUFFICES ASSUME NEW l \in 1..a, l < k PROVE l \in 1..b /\ q[l] = r[l]
    OBVIOUS
  <2>1. k \in Nat /\ l \in Nat /\ ~(k <= l)
    OBVIOUS
  <2>2. l \notin Apart
    BY <1>2, <2>1
  <2> QED BY <2>2
<1>4. \A l \in 1..b : l < k => l \in 1..a /\ q[l] = r[l]
  <2> SUFFICES ASSUME NEW l \in 1..b, l < k PROVE l \in 1..a /\ q[l] = r[l]
    OBVIOUS
  <2>1. k \in Nat /\ l \in Nat /\ ~(k <= l)
    OBVIOUS
  <2>2. l \notin Apart
    BY <1>2, <2>1
  <2> QED BY <2>2
<1>5. k \in Nat /\ k >= 1 /\ (k \in 1..a \/ k \in 1..b) /\ (k \in 1..a /\ k \in 1..b => q[k] # r[k])
  OBVIOUS
<1>6. ASSUME k \in 1..a PROVE k \in 1..b /\ r[k] <= q[k]
  <2>1. PICK l \in 1..b : r[l] = q[k]
    BY <1>a, <1>6
  <2>2. ~(l < k)
    BY <1>a, <1>4, <1>6, <2>1 DEF Rises
  <2>3. k \in 1..b
    BY <1>5, <2>2
  <2> QED BY <1>a, <1>6, <2>1, <2>2, <2>3 DEF Rises
<1>7. ASSUME k \in 1..b PROVE k \in 1..a /\ q[k] <= r[k]
  <2>1. PICK l \in 1..a : q[l] = r[k]
    BY <1>a, <1>7
  <2>2. ~(l < k)
    BY <1>a, <1>3, <1>7, <2>1 DEF Rises
  <2>3. k \in 1..a
    BY <1>5, <2>2
  <2> QED BY <1>a, <1>7, <2>1, <2>2, <2>3 DEF Rises
<1>8. k \in 1..a /\ k \in 1..b
  BY <1>5, <1>6, <1>7
<1>9. q[k] \in Nat /\ r[k] \in Nat
  BY <1>a, <1>8
<1>10. q[k] # r[k] /\ r[k] <= q[k] /\ q[k] <= r[k]
  BY <1>5, <1>6, <1>7, <1>8
<1>11. \A x, y \in Nat : x <= y /\ y <= x => x = y
  OBVIOUS
<1> HIDE DEF Apart
<1> QED BY <1>9, <1>10, <1>11

(* u is what t has at the places in K: its p-th token is the e[p]-th.      *)
Picks(u, t, e, K) ==
  /\ \A p \in 1..Len(u) : e[p] \in 1..Len(t) /\ e[p] \in K /\ u[p] = t[e[p]]
  /\ Rises(e, Len(u))
  /\ \A i \in 1..Len(t) : i \in K => \E p \in 1..Len(u) : e[p] = i

LEMMA TokensPick ==
  ASSUME NEW S, NEW t \in Seq(S), NEW K, \A i \in K : i \in 1..Len(t)
  PROVE  Tokens(t, K) \in Seq(S) /\ Picks(Tokens(t, K), t, InOrder(K), K)
<1> DEFINE e == InOrder(K)
           u == Tokens(t, K)
           n == Cardinality(K)
<1>1. Lists(e, K)
  BY InOrderLists, LenProperties
<1>2. n \in Nat
  BY RankGrows, LenProperties
<1>3. DOMAIN e = 1..n
  BY DEF InOrder
<1> HIDE DEF e
<1>4. u = [k \in 1..n |-> t[e[k]]]
  BY <1>3 DEF Tokens, e
<1> HIDE DEF n, u
<1>5. \A k \in 1..n : e[k] \in 1..Len(t) /\ e[k] \in K
  BY <1>1 DEF Lists, n
<1>6. \A k \in 1..n : t[e[k]] \in S
  BY <1>5, ElementOfSeq
<1>7. u \in Seq(S) /\ Len(u) = n
  <2>1. u \in [1..n -> S]
    BY <1>4, <1>6
  <2> QED BY <1>2, <2>1, SeqDef, LenProperties
<1> QED BY <1>1, <1>4, <1>5, <1>7 DEF Lists, Picks, n, e, u

-----------------------------------------------------------------------------
(* What a proof needs of sequences.                                        *)
LEMMA OneByOne ==
  ASSUME NEW n \in Nat, NEW G, n > 0 => 1 \in G,
         \A k \in 1..n : k < n /\ k \in G => k + 1 \in G
  PROVE  \A k \in 1..n : k \in G
<1> DEFINE Missing == {k \in 1..n : k \notin G}
<1>1. SUFFICES ASSUME Missing # {} PROVE FALSE
  OBVIOUS
<1>2. PICK m \in Missing : \A y \in Missing : m <= y
  <2>1. Missing \subseteq Nat
    OBVIOUS
  <2> HIDE DEF Missing
  <2> QED BY <1>1, <2>1, Smallest
<1>3. m \in 1..n /\ m \notin G /\ m # 1
  OBVIOUS
<1>4. m - 1 \in 1..n /\ m - 1 \notin Missing
  BY <1>2, <1>3
<1> QED BY <1>3, <1>4

LEMMA FunIsSeq ==
  ASSUME NEW S, NEW n \in Nat, NEW f \in [1..n -> S]
  PROVE  f \in Seq(S) /\ Len(f) = n /\ DOMAIN f = 1..n
<1>1. f \in Seq(S)
  BY SeqDef
<1>2. DOMAIN f = 1..n /\ DOMAIN f = 1..Len(f) /\ Len(f) \in Nat
  BY <1>1, LenProperties
<1> QED BY <1>1, <1>2

(* f is what FlattenSeq computes over the first m of ss. *)
Flattens(f, ss, m) == f = [i \in 1..m |-> IF i = 1 THEN ss[i] ELSE f[i - 1] \o ss[i]]

LEMMA FlattenIsDefined ==
  ASSUME NEW ss, NEW n \in Nat
  PROVE  \A m \in 1..n : \E f : Flattens(f, ss, m)
<1> DEFINE G == {m \in 1..n : \E f : Flattens(f, ss, m)}
<1>1. n > 0 => 1 \in G
  <2>1. Flattens([i \in 1..1 |-> ss[i]], ss, 1)
    BY DEF Flattens
  <2> QED BY <2>1
<1>2. ASSUME NEW m \in 1..n, m < n, m \in G PROVE m + 1 \in G
  <2>1. PICK g : Flattens(g, ss, m)
    BY <1>2
  <2> DEFINE f == [i \in 1..m + 1 |-> IF i <= m THEN g[i] ELSE g[m] \o ss[m + 1]]
  <2>2. \A i \in 1..m + 1 : f[i] = IF i = 1 THEN ss[i] ELSE f[i - 1] \o ss[i]
    <3> SUFFICES ASSUME NEW i \in 1..m + 1
                 PROVE  f[i] = IF i = 1 THEN ss[i] ELSE f[i - 1] \o ss[i]
      OBVIOUS
    <3>1. CASE i = m + 1
      <4>1. m + 1 \in 1..m + 1 /\ m \in 1..m + 1 /\ ~(m + 1 <= m) /\ m + 1 # 1 /\ (m + 1) - 1 = m
        OBVIOUS
      <4>2. f[m + 1] = g[m] \o ss[m + 1]
        BY <4>1
      <4>3. f[m] = g[m]
        BY <4>1
      <4> HIDE DEF f
      <4> QED BY <3>1, <4>1, <4>2, <4>3
    <3>2. CASE i # m + 1
      <4>1. i \in 1..m /\ (i # 1 => i - 1 \in 1..m)
        BY <3>2
      <4>2. g[i] = IF i = 1 THEN ss[i] ELSE g[i - 1] \o ss[i]
        BY <2>1, <4>1 DEF Flattens
      <4>3. f[i] = g[i] /\ (i # 1 => f[i - 1] = g[i - 1])
        BY <4>1
      <4> HIDE DEF f
      <4> QED BY <4>2, <4>3
    <3> QED BY <3>1, <3>2
  <2>3. f = [i \in 1..m + 1 |-> f[i]]
    OBVIOUS
  <2> HIDE DEF f
  <2>4. Flattens(f, ss, m + 1)
    BY <2>2, <2>3 DEF Flattens
  <2> QED BY <1>2, <2>4
<1> HIDE DEF G
<1>3. \A m \in 1..n : m \in G
  BY <1>1, <1>2, OneByOne
<1> QED BY <1>3 DEF G

(* The texts ss end to end: f[k] is the first k of them. *)
LEMMA FlattenUnfolds ==
  ASSUME NEW S, NEW ss, Len(ss) \in Nat \ {0}, \A k \in 1..Len(ss) : ss[k] \in Seq(S)
  PROVE  \E f : /\ f[1] = ss[1]
                /\ \A k \in 1..Len(ss) : k # 1 => f[k] = f[k - 1] \o ss[k]
                /\ FlattenSeq(ss) = f[Len(ss)]
                /\ \A k \in 1..Len(ss) : f[k] \in Seq(S)
<1> DEFINE n == Len(ss)
<1>0. n \in 1..n /\ 1 \in 1..n
  OBVIOUS
<1>1. \E f : Flattens(f, ss, n)
  <2>1. n \in Nat
    OBVIOUS
  <2> QED BY <1>0, <2>1, FlattenIsDefined
<1>2. PICK f : Flattens(f, ss, n) /\ FlattenSeq(ss) = f[n]
  BY <1>1 DEF FlattenSeq, Flattens
<1>3. f[1] = ss[1] /\ \A k \in 1..n : k # 1 => f[k] = f[k - 1] \o ss[k]
  <2>1. \A k \in 1..n : f[k] = IF k = 1 THEN ss[k] ELSE f[k - 1] \o ss[k]
    BY <1>2 DEF Flattens
  <2> QED BY <1>0, <2>1
<1> DEFINE G == {k \in 1..n : f[k] \in Seq(S)}
<1>4. 1 \in G
  BY <1>3
<1>5. ASSUME NEW k \in 1..n, k < n, k \in G PROVE k + 1 \in G
  <2>1. k + 1 \in 1..n /\ k + 1 # 1 /\ (k + 1) - 1 = k
    BY <1>5
  <2>2. f[k + 1] = f[k] \o ss[k + 1]
    BY <1>3, <2>1
  <2>3. f[k] \in Seq(S) /\ ss[k + 1] \in Seq(S)
    BY <1>5, <2>1
  <2>4. f[k] \o ss[k + 1] \in Seq(S)
    BY <2>3, ConcatProperties
  <2> QED BY <2>1, <2>2, <2>4
<1> HIDE DEF G
<1>6. \A k \in 1..n : k \in G
  BY <1>4, <1>5, OneByOne
<1> QED BY <1>2, <1>3, <1>6 DEF G

-----------------------------------------------------------------------------
(* The tokens of any text: the names the inputs have, those of the marks   *)
(* and those the dictionary writes.  A mark has no capital.                *)
MarkNames == {" ", ",", ".", "?", "!"}
AllNames  == MarkNames \union {"cache"} \union UNION {{t[i][1] : i \in DOMAIN t} : t \in Inputs}
Token     == {x \in AllNames \X BOOLEAN : x[1] \in MarkNames => ~x[2]}

LEMMA MarksAre ==
  /\ Space \in Token /\ Comma \in Token /\ Stops \subseteq Token /\ Marks \subseteq Token
  /\ \A m \in MarkNames : Word(m) \in Marks
  /\ Space \notin Stops /\ Comma \notin Stops /\ Space # Comma
  /\ \A x \in Token : x = <<x[1], x[2]>> /\ (x \in Marks <=> x[1] \in MarkNames)
  /\ \A x \in Token : x \notin Marks => x # Space /\ x # Comma /\ x \notin Stops
  /\ \A x \in Token : x \in Marks <=> x = Space \/ x = Comma \/ x \in Stops
<1>0. \A m \in MarkNames : Word(m) \in Token /\ Word(m)[1] = m
  <2>1. \A m : Word(m)[1] = m /\ Word(m)[2] = FALSE
    BY DEF Word
  <2>2. \A m \in MarkNames : Word(m) \in AllNames \X BOOLEAN
    <3>1. \A m \in MarkNames : m \in AllNames
      BY DEF AllNames
    <3> QED BY <3>1 DEF Word
  <2> QED BY <2>1, <2>2 DEF Token
<1>a. {" ", ",", ".", "?", "!"} = MarkNames
  BY DEF MarkNames
<1>1. Space \in Token /\ Comma \in Token
  BY <1>0, <1>a DEF Space, Comma
<1>2. Stops \subseteq Token
  BY <1>0, <1>a DEF Stops
<1>3. Space \notin Stops /\ Comma \notin Stops /\ Space # Comma
  BY DEF Space, Comma, Word, Stops
<1>4. \A x \in Token : x = <<x[1], x[2]>>
  BY DEF Token
<1>5. \A x \in Token : x \in Marks => x[1] \in MarkNames
  <2>1. \A x \in Marks : \E m \in MarkNames : x = Word(m)
    BY <1>a DEF Marks, Stops, Space, Comma
  <2> QED BY <1>0, <2>1
<1>6. \A m \in MarkNames : Word(m) \in Marks
  BY DEF Marks, Stops, Space, Comma, Word, MarkNames
<1>7. ASSUME NEW x \in Token, x[1] \in MarkNames PROVE x \in Marks
  <2>1. x[2] = FALSE
    BY <1>7 DEF Token
  <2>2. x = Word(x[1])
    BY <1>4, <2>1 DEF Word
  <2> QED BY <1>6, <1>7, <2>2
<1>8. \A x : x \in Marks <=> x = Space \/ x = Comma \/ x \in Stops
  BY DEF Marks
<1>9. Marks \subseteq Token
  BY <1>1, <1>2 DEF Marks
<1> QED BY <1>1, <1>2, <1>3, <1>4, <1>5, <1>6, <1>7, <1>8, <1>9

LEMMA TextIs ==
  ASSUME NEW t \in Seq(Token)
  PROVE  /\ Len(t) \in Nat /\ DOMAIN t = 1..Len(t)
         /\ \A i \in 1..Len(t) : t[i] \in Token
         /\ t = [i \in 1..Len(t) |-> t[i]]
         /\ t = <<>> <=> Len(t) = 0
<1>1. Len(t) \in Nat /\ DOMAIN t = 1..Len(t) /\ t = [i \in 1..Len(t) |-> t[i]]
  BY LenProperties
<1>2. \A i \in 1..Len(t) : t[i] \in Token
  BY ElementOfSeq
<1>3. t = <<>> <=> Len(t) = 0
  BY EmptySeq
<1> QED BY <1>1, <1>2, <1>3

LEMMA WordsAre ==
  ASSUME NEW t \in Seq(Token)
  PROVE  /\ \A i : i \in Words(t) <=> i \in 1..Len(t) /\ t[i] \notin Marks
         /\ \A i : IsWord(t, i) <=> i \in 1..Len(t) /\ t[i] \notin Marks
BY TextIs DEF Words, IsWord

LEMMA AfterIs ==
  ASSUME NEW t \in Seq(Token), NEW i \in Nat, i <= Len(t)
  PROVE  /\ After(t, i) \in Nat /\ i < After(t, i) /\ After(t, i) <= Len(t) + 1
         /\ \A k \in 1..Len(t) : i < k /\ k < After(t, i) => t[k] = Space
         /\ After(t, i) <= Len(t) => t[After(t, i)] # Space
<1> DEFINE N == {j \in i + 1..Len(t) : t[j] # Space} \union {Len(t) + 1}
<1>1. Len(t) \in Nat
  BY TextIs
<1>2. N \subseteq Nat /\ N # {}
  BY <1>1
<1>3. After(t, i) = Min(N)
  BY DEF After
<1>4. After(t, i) \in N /\ \A y \in N : After(t, i) <= y
  <2> HIDE DEF N
  <2> QED BY <1>2, <1>3, MinIs
<1>5. \A k \in 1..Len(t) : i < k /\ k < After(t, i) => t[k] = Space
  <2> SUFFICES ASSUME NEW k \in 1..Len(t), i < k, t[k] # Space PROVE ~(k < After(t, i))
    OBVIOUS
  <2>1. k \in N
    BY <1>1
  <2>2. After(t, i) <= k /\ After(t, i) \in Nat
    BY <1>2, <1>4, <2>1
  <2> QED BY <2>2
<1>6. After(t, i) \in Nat /\ i < After(t, i) /\ After(t, i) <= Len(t) + 1
  BY <1>1, <1>4
<1>7. After(t, i) <= Len(t) => t[After(t, i)] # Space
  BY <1>1, <1>4
<1> QED BY <1>5, <1>6, <1>7

LEMMA AfterIsAt ==
  ASSUME NEW t \in Seq(Token), NEW i \in Nat, i <= Len(t), NEW j \in Nat, i < j, j <= Len(t) + 1,
         \A k \in 1..Len(t) : i < k /\ k < j => t[k] = Space, j <= Len(t) => t[j] # Space
  PROVE  After(t, i) = j
<1> DEFINE a == After(t, i)
<1>1. /\ a \in Nat /\ i < a /\ a <= Len(t) + 1 /\ Len(t) \in Nat
      /\ \A k \in 1..Len(t) : i < k /\ k < a => t[k] = Space
      /\ a <= Len(t) => t[a] # Space
  BY AfterIs, TextIs
<1> HIDE DEF a
<1>2. ~(a < j)
  BY <1>1
<1>3. ~(j < a)
  BY <1>1
<1> QED BY <1>1, <1>2, <1>3 DEF a

-----------------------------------------------------------------------------
(* The sentences of a text.                                                *)
LEMMA StartsAre ==
  ASSUME NEW t \in Seq(Token)
  PROVE  /\ 1 \in Starts(t) /\ Starts(t) \subseteq Nat
         /\ \A i \in Starts(t) : i >= 1 /\ (i <= Len(t) \/ i = 1)
         /\ \A i \in Starts(t) : i # 1 => i \in 2..Len(t) /\ t[i] # Space
BY TextIs DEF Starts

(* Behind the stop that ends a sentence there are only spaces.             *)
LEMMA StopBefore ==
  ASSUME NEW t \in Seq(Token), NEW i \in Starts(t), i # 1
  PROVE  \E m \in 1..i - 1 : t[m] \in Stops /\ \A k \in m + 1..i - 1 : t[k] = Space
<1>1. i \in 2..Len(t) /\ Len(t) \in Nat
  BY StartsAre, TextIs
<1>2. PICK j \in 1..i - 1 : /\ Ends(t, j)
        /\ \E m \in j..i - 1 : /\ \A k \in j + 1..m : t[k] \in Stops
                               /\ \A k \in m + 1..i - 1 : t[k] = Space
                               /\ m = i - 1 => t[i] \notin Stops
  BY DEF Starts
<1>3. PICK m \in j..i - 1 : /\ \A k \in j + 1..m : t[k] \in Stops
                            /\ \A k \in m + 1..i - 1 : t[k] = Space
  BY <1>2
<1>4. t[j] \in Stops
  BY <1>2 DEF Ends
<1>5. t[m] \in Stops
  <2>1. CASE m = j
    BY <1>4, <2>1
  <2>2. CASE m # j
    <3>1. m \in j + 1..m
      BY <1>1, <2>2
    <3> QED BY <1>3, <3>1
  <2> QED BY <2>1, <2>2
<1>6. m \in 1..i - 1
  BY <1>1
<1> QED BY <1>3, <1>5, <1>6

LEMMA EndIs ==
  ASSUME NEW t \in Seq(Token), NEW s \in Starts(t), s <= Len(t)
  PROVE  /\ EndOf(t, s) \in s..Len(t)
         /\ \A i \in Starts(t) : s < i => EndOf(t, s) < i
         /\ EndOf(t, s) = Len(t) \/ EndOf(t, s) + 1 \in Starts(t)
<1> DEFINE N == {i - 1 : i \in {j \in Starts(t) : j > s}} \union {Len(t)}
<1>1. Len(t) \in Nat /\ s \in Nat /\ s >= 1
  BY StartsAre, TextIs
<1>2. N \subseteq Nat /\ N # {}
  <2>1. \A j \in Starts(t) : j \in Nat /\ j >= 1
    BY StartsAre
  <2> QED BY <1>1, <2>1
<1>3. EndOf(t, s) = Min(N)
  BY DEF EndOf
<1>4. EndOf(t, s) \in N /\ \A y \in N : EndOf(t, s) <= y
  <2> HIDE DEF N
  <2> QED BY <1>2, <1>3, MinIs
<1>5. EndOf(t, s) = Len(t) \/ \E i \in Starts(t) : i > s /\ EndOf(t, s) = i - 1
  BY <1>4
<1>6. EndOf(t, s) \in s..Len(t)
  <2>1. Len(t) \in N
    OBVIOUS
  <2>2. EndOf(t, s) <= Len(t) /\ EndOf(t, s) \in Nat
    BY <1>2, <1>4, <2>1
  <2>3. \A i \in Starts(t) : i \in Nat
    BY StartsAre
  <2> QED BY <1>1, <1>5, <2>2, <2>3
<1>7. ASSUME NEW i \in Starts(t), s < i PROVE EndOf(t, s) < i
  <2>1. i \in Nat
    BY StartsAre
  <2>2. i - 1 \in N
    BY <1>1, <1>7, <2>1
  <2> QED BY <1>1, <1>4, <1>6, <2>1, <2>2
<1>8. EndOf(t, s) = Len(t) \/ EndOf(t, s) + 1 \in Starts(t)
  <2>1. \A i \in Starts(t) : i \in Nat /\ (i - 1) + 1 = i
    BY StartsAre
  <2> QED BY <1>5, <2>1
<1> QED BY <1>6, <1>7, <1>8

(* Every place is in a sentence.                                           *)
LEMMA InASentence ==
  ASSUME NEW t \in Seq(Token), NEW i \in 1..Len(t)
  PROVE  \E s \in Starts(t) : s <= i /\ i <= EndOf(t, s) /\ s <= Len(t)
<1> DEFINE N == {s \in Starts(t) : s <= i}
<1>1. Len(t) \in Nat /\ 1 \in N
  BY StartsAre, TextIs
<1>2. \A x \in N : x \in 0..Len(t)
  BY <1>1, StartsAre
<1>3. PICK s \in N : \A y \in N : y <= s
  <2> HIDE DEF N
  <2> QED BY <1>1, <1>2, Largest
<1>4. s \in Starts(t) /\ s <= i /\ s \in Nat /\ s <= Len(t)
  BY <1>1, <1>2
<1>5. EndOf(t, s) \in s..Len(t) /\ (EndOf(t, s) = Len(t) \/ EndOf(t, s) + 1 \in Starts(t))
  BY <1>4, EndIs
<1>6. i <= EndOf(t, s)
  <2> SUFFICES ASSUME EndOf(t, s) < i PROVE FALSE
    BY <1>1, <1>4, <1>5
  <2>1. EndOf(t, s) + 1 \in N
    BY <1>1, <1>4, <1>5
  <2>2. EndOf(t, s) + 1 <= s
    BY <1>3, <2>1
  <2> QED BY <1>4, <1>5, <2>2
<1> QED BY <1>4, <1>6

LEMMA PartIs ==
  ASSUME NEW S, NEW t \in Seq(S), NEW a \in Nat \ {0}, NEW b \in Nat, b <= Len(t), a <= b
  PROVE  /\ SubSeq(t, a, b) \in Seq(S) /\ Len(SubSeq(t, a, b)) = b - a + 1
         /\ \A i \in 1..b - a + 1 : SubSeq(t, a, b)[i] = t[a + i - 1]
         /\ \A j \in a..b : j - a + 1 \in 1..b - a + 1 /\ SubSeq(t, a, b)[j - a + 1] = t[j]
<1>1. Len(t) \in Nat /\ \A i \in a..b : t[i] \in S
  BY LenProperties, ElementOfSeq
<1>2. /\ SubSeq(t, a, b) \in Seq(S)
      /\ Len(SubSeq(t, a, b)) = IF a <= b THEN b - a + 1 ELSE 0
      /\ \A i \in 1..b - a + 1 : SubSeq(t, a, b)[i] = t[a + i - 1]
  BY <1>1, SubSeqProperties
<1>3. \A j \in a..b : j - a + 1 \in 1..b - a + 1 /\ a + (j - a + 1) - 1 = j
  OBVIOUS
<1> QED BY <1>2, <1>3

(* The sentences of t, one behind the other: the k-th begins at q[k].      *)
Begin(q, n, t) ==
  /\ n \in Nat \ {0} /\ n = Len(Sentences(t)) /\ q[1] = 1
  /\ \A k \in 1..n : q[k] \in Starts(t) /\ q[k] \in 1..Len(t) /\ EndOf(t, q[k]) \in q[k]..Len(t)
  /\ Rises(q, n) /\ \A i \in Starts(t) : \E k \in 1..n : q[k] = i
  /\ \A k \in 1..n : k # n => EndOf(t, q[k]) = q[k + 1] - 1
  /\ EndOf(t, q[n]) = Len(t)
  /\ \A k \in 1..n : Sentences(t)[k] = SubSeq(t, q[k], EndOf(t, q[k]))

LEMMA SentencesBegin ==
  ASSUME NEW t \in Seq(Token), t # <<>>
  PROVE  \E q, n : Begin(q, n, t)
<1> DEFINE q == InOrder(Starts(t))
           n == Cardinality(Starts(t))
<1>1. Len(t) \in Nat /\ Len(t) > 0
  BY TextIs
<1>2. \A i \in Starts(t) : i \in 1..Len(t)
  BY <1>1, StartsAre
<1>3. Lists(q, Starts(t)) /\ n \in Nat
  BY <1>1, <1>2, InOrderLists, RankGrows
<1>4. Sentences(t) = [k \in 1..Len(q) |-> SubSeq(t, q[k], EndOf(t, q[k]))]
  BY DEF Sentences
<1> HIDE DEF q
<1>5. /\ q = [k \in 1..n |-> q[k]] /\ \A k \in 1..n : q[k] \in Starts(t)
      /\ Rises(q, n) /\ \A i \in Starts(t) : \E k \in 1..n : q[k] = i
  BY <1>3 DEF Lists
<1> HIDE DEF n
<1>6. Len(q) = n
  <2>1. q \in [1..n -> Starts(t)]
    BY <1>5
  <2> QED BY <1>3, <2>1, FunIsSeq
<1>7. \A k \in 1..n : q[k] \in 1..Len(t) /\ EndOf(t, q[k]) \in q[k]..Len(t)
  BY <1>2, <1>5, EndIs
<1>8. n # 0 /\ q[1] = 1
  <2>1. PICK k \in 1..n : q[k] = 1
    BY <1>5, StartsAre
  <2>2. 1 \in 1..n /\ n # 0
    BY <1>3
  <2>3. q[1] >= 1
    BY <1>7, <2>2
  <2>4. k # 1 => q[1] < q[k]
    BY <1>5, <2>1, <2>2 DEF Rises
  <2>5. q[1] \in Nat
    BY <1>7, <2>2
  <2>6. k = 1
    BY <2>1, <2>3, <2>4, <2>5
  <2> QED BY <2>1, <2>2, <2>6
<1>9. ASSUME NEW k \in 1..n, k # n PROVE EndOf(t, q[k]) = q[k + 1] - 1
  <2> DEFINE e == EndOf(t, q[k])
  <2>1. k + 1 \in 1..n /\ k < k + 1
    BY <1>3, <1>9
  <2>2. q[k] \in 1..Len(t) /\ q[k + 1] \in 1..Len(t) /\ q[k] < q[k + 1]
    BY <1>5, <1>7, <2>1 DEF Rises
  <2>3. e \in q[k]..Len(t) /\ e < q[k + 1] /\ (e = Len(t) \/ e + 1 \in Starts(t))
    BY <1>5, <2>1, <2>2, EndIs
  <2> HIDE DEF e
  <2>4. PICK l \in 1..n : q[l] = e + 1
    BY <1>1, <1>5, <2>2, <2>3
  <2>5. ~(l <= k)
    <3>1. l < k => q[l] < q[k]
      BY <1>5 DEF Rises
    <3>2. l <= k => q[l] <= q[k]
      BY <1>7, <3>1
    <3> QED BY <2>2, <2>3, <2>4, <3>2
  <2>6. l = k + 1 \/ k + 1 < l
    BY <2>5
  <2>7. q[k + 1] <= q[l]
    BY <1>5, <1>7, <2>1, <2>6 DEF Rises
  <2> QED BY <2>2, <2>3, <2>4, <2>7 DEF e
<1>10. EndOf(t, q[n]) = Len(t)
  <2> DEFINE e == EndOf(t, q[n])
  <2>1. n \in 1..n
    BY <1>3, <1>8
  <2>2. q[n] \in 1..Len(t)
    BY <1>7, <2>1
  <2>3. e \in q[n]..Len(t) /\ (e = Len(t) \/ e + 1 \in Starts(t))
    BY <1>5, <2>1, <2>2, EndIs
  <2> HIDE DEF e
  <2> SUFFICES ASSUME e # Len(t) PROVE FALSE
    BY DEF e
  <2>4. PICK l \in 1..n : q[l] = e + 1
    BY <1>5, <2>3
  <2>5. l < n => q[l] < q[n]
    BY <1>5, <2>1 DEF Rises
  <2> QED BY <2>1, <2>2, <2>3, <2>4, <2>5
<1>11. Len(Sentences(t)) = n /\ \A k \in 1..n : Sentences(t)[k] = SubSeq(t, q[k], EndOf(t, q[k]))
  <2>1. Sentences(t) = [k \in 1..n |-> SubSeq(t, q[k], EndOf(t, q[k]))]
    BY <1>4, <1>6
  <2>2. \A k \in 1..n : Sentences(t)[k] = SubSeq(t, q[k], EndOf(t, q[k]))
    BY <2>1
  <2>3. \A k \in 1..n : SubSeq(t, q[k], EndOf(t, q[k])) \in Seq(Token)
    <3> SUFFICES ASSUME NEW k \in 1..n PROVE SubSeq(t, q[k], EndOf(t, q[k])) \in Seq(Token)
      OBVIOUS
    <3> DEFINE a == q[k]
               b == EndOf(t, q[k])
    <3>1. a \in Nat \ {0} /\ b \in Nat /\ b <= Len(t) /\ a <= b
      BY <1>1, <1>7
    <3> HIDE DEF a, b
    <3>2. SubSeq(t, a, b) \in Seq(Token)
      BY <3>1, PartIs
    <3> QED BY <3>2 DEF a, b
  <2>4. Sentences(t) \in [1..n -> Seq(Token)]
    BY <2>1, <2>3
  <2> QED BY <1>3, <2>2, <2>4, FunIsSeq
<1> QED BY <1>3, <1>5, <1>7, <1>8, <1>9, <1>10, <1>11 DEF Begin

LEMMA SentencesAreTexts ==
  ASSUME NEW t \in Seq(Token), NEW q, NEW n, Begin(q, n, t), NEW k \in 1..n
  PROVE  /\ Sentences(t)[k] \in Seq(Token)
         /\ Len(Sentences(t)[k]) = EndOf(t, q[k]) - q[k] + 1
         /\ \A i \in 1..Len(Sentences(t)[k]) : Sentences(t)[k][i] = t[q[k] + i - 1]
         /\ \A i \in q[k]..EndOf(t, q[k]) :
              /\ i - q[k] + 1 \in 1..Len(Sentences(t)[k])
              /\ Sentences(t)[k][i - q[k] + 1] = t[i]
<1>1. q[k] \in 1..Len(t) /\ EndOf(t, q[k]) \in q[k]..Len(t) /\ Len(t) \in Nat
  BY TextIs DEF Begin
<1>2. Sentences(t)[k] = SubSeq(t, q[k], EndOf(t, q[k]))
  BY DEF Begin
<1> DEFINE a == q[k]
           b == EndOf(t, q[k])
<1>3. a \in Nat \ {0} /\ b \in Nat /\ b <= Len(t) /\ a <= b
  BY <1>1
<1>4. Sentences(t)[k] = SubSeq(t, a, b)
  BY <1>2
<1> HIDE DEF a, b
<1> DEFINE s == SubSeq(t, a, b)
<1>5. /\ s \in Seq(Token) /\ Len(s) = b - a + 1
      /\ \A i \in 1..b - a + 1 : s[i] = t[a + i - 1]
      /\ \A i \in a..b : i - a + 1 \in 1..b - a + 1 /\ s[i - a + 1] = t[i]
  <2>1. s \in Seq(Token) /\ Len(s) = b - a + 1
    BY <1>3, PartIs
  <2>2. \A i \in 1..b - a + 1 : s[i] = t[a + i - 1]
    BY <1>3, PartIs
  <2>3. \A i \in a..b : i - a + 1 \in 1..b - a + 1 /\ s[i - a + 1] = t[i]
    BY <1>3, PartIs
  <2> QED BY <2>1, <2>2, <2>3
<1> HIDE DEF s
<1> QED BY <1>4, <1>5 DEF a, b, s

(* A text is its sentences end to end. *)
LEMMA SentencesMakeTheText ==
  ASSUME NEW t \in Seq(Token)
  PROVE  FlattenSeq(Sentences(t)) = t
<1>1. CASE t = <<>>
  <2>1. Sentences(t) = <<>> /\ Len(<<>>) = 0
    BY <1>1, EmptySeq DEF Sentences
  <2> QED BY <1>1, <2>1 DEF FlattenSeq
<1>2. CASE t # <<>>
  <2>1. PICK q, n : Begin(q, n, t)
    BY <1>2, SentencesBegin
  <2>2. n \in Nat \ {0} /\ n = Len(Sentences(t)) /\ q[1] = 1 /\ EndOf(t, q[n]) = Len(t)
    BY <2>1 DEF Begin
  <2>3. \A k \in 1..n : Sentences(t)[k] \in Seq(Token)
    BY <2>1, SentencesAreTexts
  <2>4. PICK f : /\ f[1] = Sentences(t)[1]
                 /\ \A k \in 1..n : k # 1 => f[k] = f[k - 1] \o Sentences(t)[k]
                 /\ FlattenSeq(Sentences(t)) = f[n]
    BY <2>2, <2>3, FlattenUnfolds
  <2> DEFINE G == {k \in 1..n : f[k] = SubSeq(t, 1, EndOf(t, q[k]))}
  <2>a. \A k \in 1..n : Sentences(t)[k] = SubSeq(t, q[k], EndOf(t, q[k]))
    BY <2>1 DEF Begin
  <2>5. 1 \in G
    <3>1. 1 \in 1..n
      BY <2>2
    <3>2. f[1] = SubSeq(t, q[1], EndOf(t, q[1]))
      BY <2>4, <2>a, <3>1
    <3> QED BY <2>2, <3>1, <3>2
  <2>6. ASSUME NEW k \in 1..n, k < n, k \in G PROVE k + 1 \in G
    <3>1. k + 1 \in 1..n /\ k + 1 # 1 /\ (k + 1) - 1 = k /\ k # n
      BY <2>2, <2>6
    <3>2. f[k + 1] = SubSeq(t, 1, EndOf(t, q[k])) \o SubSeq(t, q[k + 1], EndOf(t, q[k + 1]))
      <4>1. f[k + 1] = f[k] \o Sentences(t)[k + 1]
        BY <2>4, <3>1
      <4>2. f[k] = SubSeq(t, 1, EndOf(t, q[k]))
        BY <2>6
      <4> QED BY <2>a, <3>1, <4>1, <4>2
    <3>3. /\ EndOf(t, q[k]) = q[k + 1] - 1 /\ q[k + 1] \in 1..Len(t)
          /\ EndOf(t, q[k + 1]) \in q[k + 1]..Len(t) /\ Len(t) \in Nat
      BY <2>1, <3>1, TextIs DEF Begin
    <3> DEFINE a == EndOf(t, q[k])
               b == EndOf(t, q[k + 1])
    <3>4. a \in 0..Len(t) /\ b \in a..Len(t) /\ q[k + 1] = a + 1 /\ 1 \in 1..Len(t) + 1
      BY <3>3
    <3> HIDE DEF a, b
    <3>5. SubSeq(t, 1, a) \o SubSeq(t, a + 1, b) = SubSeq(t, 1, b)
      BY <3>4, ConcatAdjacentSubSeq
    <3>6. f[k + 1] = SubSeq(t, 1, b)
      BY <3>2, <3>4, <3>5 DEF a, b
    <3> QED BY <3>1, <3>6 DEF b
  <2> HIDE DEF G
  <2>7. \A k \in 1..n : k \in G
    BY <2>2, <2>5, <2>6, OneByOne
  <2>8. f[n] = SubSeq(t, 1, Len(t))
    BY <2>2, <2>7 DEF G
  <2> QED BY <2>4, <2>8, SubSeqFull
<1> QED BY <1>1, <1>2

(* A sentence is over when a stop has only spaces behind it.               *)
Over(s) == \E m \in 1..Len(s) : s[m] \in Stops /\ \A k \in m + 1..Len(s) : s[k] = Space

LEMMA AllButTheLastAreOver ==
  ASSUME NEW t \in Seq(Token), NEW q, NEW n, Begin(q, n, t), NEW k \in 1..n, k # n
  PROVE  Over(Sentences(t)[k])
<1> DEFINE s == Sentences(t)[k]
           a == q[k]
           b == q[k + 1]
<1>1. n \in Nat /\ k + 1 \in 1..n /\ k < k + 1
  BY DEF Begin
<1>2. /\ a \in Starts(t) /\ b \in Starts(t) /\ a \in 1..Len(t) /\ b \in 1..Len(t) /\ a < b
      /\ EndOf(t, a) = b - 1 /\ Len(t) \in Nat
  BY <1>1, TextIs DEF Begin, Rises
<1>3. Len(s) = b - a
  <2>1. Len(s) = (b - 1) - a + 1
    BY <1>2, SentencesAreTexts
  <2> HIDE DEF s, a, b
  <2> QED BY <1>2, <2>1
<1>4. \A i \in a..b - 1 : i - a + 1 \in 1..Len(s) /\ s[i - a + 1] = t[i]
  <2>1. \A i \in q[k]..EndOf(t, q[k]) : i - q[k] + 1 \in 1..Len(s) /\ s[i - q[k] + 1] = t[i]
    BY SentencesAreTexts
  <2> QED BY <1>2, <2>1
<1>5. \A i \in 1..Len(s) : s[i] = t[a + i - 1]
  BY SentencesAreTexts
<1> HIDE DEF s, a, b
<1>6. PICK m \in 1..b - 1 : t[m] \in Stops /\ \A i \in m + 1..b - 1 : t[i] = Space
  BY <1>2, StopBefore
<1>7. a <= m
  <2> SUFFICES ASSUME m < a PROVE FALSE
    BY <1>2
  <2>1. a \in m + 1..b - 1 /\ a # 1
    BY <1>2
  <2> QED BY <1>2, <1>6, <2>1, StartsAre
<1>8. m - a + 1 \in 1..Len(s) /\ s[m - a + 1] \in Stops
  BY <1>4, <1>6, <1>7
<1>9. \A i \in (m - a + 1) + 1..Len(s) : s[i] = Space
  <2> SUFFICES ASSUME NEW i \in (m - a + 1) + 1..Len(s) PROVE s[i] = Space
    OBVIOUS
  <2>1. a + i - 1 \in m + 1..b - 1 /\ i \in 1..Len(s)
    BY <1>2, <1>3, <1>7
  <2> QED BY <1>5, <1>6, <2>1
<1> QED BY <1>8, <1>9 DEF Over, s

-----------------------------------------------------------------------------
(* What a rule leaves when it cuts.                                        *)
LEMMA Cut ==
  ASSUME NEW t \in Seq(Token), NEW cuts
  PROVE  /\ Without(t, cuts) \in Seq(Token)
         /\ \E e : Picks(Without(t, cuts), t, e, 1..Len(t) \ cuts)
<1> DEFINE K == DOMAIN t \ cuts
<1>1. K = 1..Len(t) \ cuts
  BY TextIs
<1>2. \A i \in K : i \in 1..Len(t)
  BY <1>1
<1> HIDE DEF K
<1>3. Tokens(t, K) \in Seq(Token) /\ Picks(Tokens(t, K), t, InOrder(K), K)
  BY <1>2, TokensPick
<1>4. Without(t, cuts) = Tokens(t, K)
  BY DEF Without, K
<1> QED BY <1>1, <1>3, <1>4

LEMMA PickedAre ==
  ASSUME NEW u \in Seq(Token), NEW t \in Seq(Token), NEW e, NEW K, Picks(u, t, e, K)
  PROVE  /\ \A p \in 1..Len(u) : e[p] \in 1..Len(t) /\ e[p] \in K /\ u[p] = t[e[p]]
         /\ \A p, q \in 1..Len(u) : p < q <=> e[p] < e[q]
         /\ \A i \in 1..Len(t) : i \in K => \E p \in 1..Len(u) : e[p] = i
         /\ \A p \in 1..Len(u), i \in 1..Len(t) : p < Len(u) /\ e[p] < i /\ i < e[p + 1] => i \notin K
         /\ Len(u) > 0 => \A i \in 1..Len(t) : i < e[1] => i \notin K
         /\ Len(u) > 0 => \A i \in 1..Len(t) : e[Len(u)] < i => i \notin K
         /\ Len(u) = 0 => \A i \in 1..Len(t) : i \notin K
<1>1. Len(u) \in Nat /\ Len(t) \in Nat
  BY TextIs
<1>2. /\ \A p \in 1..Len(u) : e[p] \in 1..Len(t) /\ e[p] \in K /\ u[p] = t[e[p]]
      /\ \A i \in 1..Len(t) : i \in K => \E p \in 1..Len(u) : e[p] = i
      /\ \A p, q \in 1..Len(u) : p < q => e[p] < e[q]
  BY DEF Picks, Rises
<1>3. ASSUME NEW p \in 1..Len(u), NEW q \in 1..Len(u), e[p] < e[q] PROVE p < q
  <2>1. e[p] \in Nat /\ e[q] \in Nat
    BY <1>2
  <2>2. p # q /\ ~(q < p)
    BY <1>2, <1>3, <2>1
  <2> QED BY <2>2
<1>4. ASSUME NEW p \in 1..Len(u), NEW i \in 1..Len(t), p < Len(u), e[p] < i, i < e[p + 1], i \in K
      PROVE  FALSE
  <2>1. PICK q \in 1..Len(u) : e[q] = i
    BY <1>2, <1>4
  <2>2. p + 1 \in 1..Len(u)
    BY <1>1, <1>4
  <2>3. p < q /\ q < p + 1
    BY <1>3, <1>4, <2>1, <2>2
  <2> QED BY <2>3
<1>5. ASSUME Len(u) > 0, NEW i \in 1..Len(t), i < e[1] \/ e[Len(u)] < i, i \in K
      PROVE  FALSE
  <2>1. PICK q \in 1..Len(u) : e[q] = i
    BY <1>2, <1>5
  <2>2. 1 \in 1..Len(u) /\ Len(u) \in 1..Len(u)
    BY <1>1, <1>5
  <2>3. q < 1 \/ Len(u) < q
    BY <1>3, <1>5, <2>1, <2>2
  <2> QED BY <1>1, <2>3
<1>6. ASSUME Len(u) = 0, NEW i \in 1..Len(t), i \in K PROVE FALSE
  BY <1>2, <1>6
<1> QED BY <1>2, <1>3, <1>4, <1>5, <1>6

(* What is at the end and is not cut stays at the end. *)
LEMMA LastStays ==
  ASSUME NEW u \in Seq(Token), NEW t \in Seq(Token), NEW e, NEW K, Picks(u, t, e, K),
         Len(t) > 0, Len(t) \in K
  PROVE  Len(u) > 0 /\ e[Len(u)] = Len(t) /\ u[Len(u)] = t[Len(t)]
<1>1. Len(u) \in Nat /\ Len(t) \in Nat /\ Len(t) \in 1..Len(t)
  BY TextIs
<1>2. PICK p \in 1..Len(u) : e[p] = Len(t)
  BY <1>1 DEF Picks
<1>3. Len(u) \in 1..Len(u) /\ e[Len(u)] \in 1..Len(t) /\ u[Len(u)] = t[e[Len(u)]]
  BY <1>1 DEF Picks
<1>4. p < Len(u) => e[p] < e[Len(u)]
  BY <1>3 DEF Picks, Rises
<1>5. e[Len(u)] = Len(t)
  BY <1>1, <1>2, <1>3, <1>4
<1> QED BY <1>1, <1>3, <1>5

-----------------------------------------------------------------------------
(* Commas.                                                                 *)
Loose == {Space, Comma}

(* From a token of A to a comma there is more on the way than spaces and   *)
(* commas.                                                                 *)
Behind(s, A) ==
  \A i, j \in 1..Len(s) : i < j /\ s[i] \in A /\ s[j] = Comma => \E k \in i + 1..j - 1 : s[k] \notin Loose

(* No two commas have only spaces between them. *)
NoRuns(t) == Behind(t, {Comma})

LEMMA CutsKeepBehind ==
  ASSUME NEW u \in Seq(Token), NEW t \in Seq(Token), NEW e, NEW K, Picks(u, t, e, K),
         \A i \in 1..Len(t) : i \notin K => t[i] \in Loose, NEW A, Behind(t, A)
  PROVE  Behind(u, A)
<1> SUFFICES ASSUME NEW i \in 1..Len(u), NEW j \in 1..Len(u), i < j, u[i] \in A, u[j] = Comma
             PROVE  \E k \in i + 1..j - 1 : u[k] \notin Loose
  BY DEF Behind
<1>1. /\ \A p \in 1..Len(u) : e[p] \in 1..Len(t) /\ u[p] = t[e[p]]
      /\ \A p, q \in 1..Len(u) : p < q <=> e[p] < e[q]
      /\ \A x \in 1..Len(t) : x \in K => \E p \in 1..Len(u) : e[p] = x
      /\ Len(u) \in Nat /\ Len(t) \in Nat
  BY PickedAre, TextIs
<1>2. PICK k \in e[i] + 1..e[j] - 1 : t[k] \notin Loose
  BY <1>1 DEF Behind
<1>3. k \in 1..Len(t) /\ e[i] < k /\ k < e[j]
  <2>1. e[i] \in 1..Len(t) /\ e[j] \in 1..Len(t) /\ Len(t) \in Nat
    BY <1>1
  <2> QED BY <2>1
<1>4. PICK p \in 1..Len(u) : e[p] = k
  BY <1>1, <1>2, <1>3
<1>5. i < p /\ p < j /\ u[p] = t[k]
  BY <1>1, <1>3, <1>4
<1> QED BY <1>2, <1>5

LEMMA BehindBoth ==
  ASSUME NEW t, NEW A, NEW B, Behind(t, A), Behind(t, B)
  PROVE  Behind(t, A \union B)
BY DEF Behind

(* A comma behind a stop begins a sentence. *)
LEMMA CommaBegins ==
  ASSUME NEW t \in Seq(Token), NEW i \in 1..Len(t), NEW j \in 1..Len(t), i < j,
         t[i] \in Stops, t[j] = Comma, \A k \in i + 1..j - 1 : t[k] = Space
  PROVE  j \in Starts(t)
<1>1. Len(t) \in Nat
  BY TextIs
<1>2. t[j] # Space /\ t[j] \notin Stops
  BY MarksAre
<1>3. After(t, i) = j
  <2>1. i \in Nat /\ j \in Nat /\ i <= Len(t) /\ j <= Len(t) + 1
    BY <1>1
  <2>2. \A k \in 1..Len(t) : i < k /\ k < j => t[k] = Space
    BY <1>1
  <2> QED BY <1>2, <2>1, <2>2, AfterIsAt
<1>4. ~IsWord(t, j) /\ ~IsWord(t, i + 1)
  <2>1. t[j] \in Marks
    BY DEF Marks
  <2>2. i + 1 = j \/ t[i + 1] = Space
    BY <1>1
  <2>3. t[i + 1] \in Marks
    BY <2>1, <2>2 DEF Marks
  <2> QED BY <2>1, <2>3 DEF IsWord
<1>5. Ends(t, i)
  BY <1>3, <1>4 DEF Ends, IsFullStop
<1>6. i \in 1..j - 1 /\ i \in i..j - 1 /\ j \in 2..Len(t)
  BY <1>1
<1>7. \A k \in i + 1..i : t[k] \in Stops
  BY <1>6
<1> QED BY <1>2, <1>5, <1>6, <1>7 DEF Starts

LEMMA SentenceHasNoCommaBehindAStop ==
  ASSUME NEW t \in Seq(Token), NEW q, NEW n, Begin(q, n, t), NEW k \in 1..n
  PROVE  Behind(Sentences(t)[k], Stops)
<1> DEFINE s == Sentences(t)[k]
           a == q[k]
           b == EndOf(t, q[k])
<1>1. a \in Starts(t) /\ a \in 1..Len(t) /\ b \in a..Len(t) /\ Len(t) \in Nat
  BY TextIs DEF Begin
<1>2. \A i \in Starts(t) : a < i => b < i
  BY <1>1, EndIs
<1>3. Len(s) = b - a + 1 /\ \A i \in 1..Len(s) : s[i] = t[a + i - 1]
  BY SentencesAreTexts
<1> HIDE DEF s, a, b
<1> SUFFICES ASSUME NEW i \in 1..Len(s), NEW j \in 1..Len(s), i < j, s[i] \in Stops, s[j] = Comma,
                    \A m \in i + 1..j - 1 : s[m] \in Loose
             PROVE  FALSE
  BY DEF Behind, s
<1> DEFINE N == {m \in i + 1..j : s[m] = Comma}
<1>4. PICK m \in N : \A y \in N : m <= y
  <2>1. N \subseteq Nat /\ j \in N
    BY <1>1, <1>3
  <2> HIDE DEF N
  <2> QED BY <2>1, Smallest
<1>5. \A x \in i + 1..m - 1 : s[x] = Space
  <2> SUFFICES ASSUME NEW x \in i + 1..m - 1, s[x] # Space PROVE FALSE
    OBVIOUS
  <2>1. x \in i + 1..j - 1
    BY <1>1, <1>3
  <2>2. s[x] = Comma
    BY <2>1 DEF Loose
  <2>3. x \in N /\ ~(m <= x)
    BY <1>1, <1>3, <2>1, <2>2
  <2> QED BY <1>4, <2>3
<1>6. m \in 1..Len(s) /\ i < m /\ s[m] = Comma
  BY <1>1, <1>3
<1>7. a + m - 1 \in Starts(t)
  <2> DEFINE x == a + i - 1
             y == a + m - 1
  <2>1. x \in 1..Len(t) /\ y \in 1..Len(t) /\ x < y /\ t[x] \in Stops /\ t[y] = Comma
    BY <1>1, <1>3, <1>6
  <2>2. \A z \in x + 1..y - 1 : t[z] = Space
    <3> SUFFICES ASSUME NEW z \in x + 1..y - 1 PROVE t[z] = Space
      OBVIOUS
    <3>1. z - a + 1 \in i + 1..m - 1 /\ z - a + 1 \in 1..Len(s) /\ a + (z - a + 1) - 1 = z
      <4>1. a \in Nat /\ i \in Nat /\ m \in 1..Len(s) /\ Len(s) \in Nat
        BY <1>1, <1>3, <1>6
      <4> QED BY <4>1
    <3> QED BY <1>3, <1>5, <3>1
  <2> HIDE DEF x, y
  <2>3. y \in Starts(t)
    BY <2>1, <2>2, CommaBegins
  <2> QED BY <2>3 DEF y
<1>8. a < a + m - 1
  BY <1>1, <1>6
<1> QED BY <1>1, <1>2, <1>3, <1>6, <1>7, <1>8

LEMMA SentenceHasNoRuns ==
  ASSUME NEW t \in Seq(Token), NEW q, NEW n, Begin(q, n, t), NEW k \in 1..n, NoRuns(t)
  PROVE  NoRuns(Sentences(t)[k])
<1> DEFINE s == Sentences(t)[k]
           a == q[k]
           b == EndOf(t, q[k])
<1>1. a \in 1..Len(t) /\ b \in a..Len(t) /\ Len(t) \in Nat
  BY TextIs DEF Begin
<1>2. Len(s) = b - a + 1 /\ \A i \in 1..Len(s) : s[i] = t[a + i - 1]
  BY SentencesAreTexts
<1> HIDE DEF s, a, b
<1> SUFFICES ASSUME NEW i \in 1..Len(s), NEW j \in 1..Len(s), i < j, s[i] \in {Comma}, s[j] = Comma
             PROVE  \E m \in i + 1..j - 1 : s[m] \notin Loose
  BY DEF NoRuns, Behind, s
<1>3. /\ a + i - 1 \in 1..Len(t) /\ a + j - 1 \in 1..Len(t) /\ a + i - 1 < a + j - 1
      /\ t[a + i - 1] \in {Comma} /\ t[a + j - 1] = Comma
  BY <1>1, <1>2
<1>4. PICK z \in (a + i - 1) + 1..(a + j - 1) - 1 : t[z] \notin Loose
  BY <1>3 DEF NoRuns, Behind
<1>5. z - a + 1 \in i + 1..j - 1 /\ z - a + 1 \in 1..Len(s) /\ a + (z - a + 1) - 1 = z
  BY <1>1, <1>2
<1> QED BY <1>2, <1>4, <1>5

-----------------------------------------------------------------------------
(* normalize_sentence, a step at a time.                                   *)
Firm == Stops \union {Comma}

EndsInStop(s) == Len(s) > 0 /\ s[Len(s)] \in Stops

EndsSolid(s) == Len(s) > 0 => s[Len(s)] # Space

(* Cutting spaces and commas leaves no comma behind a stop or a comma, and *)
(* a stop at the end.                                                      *)
LEMMA LooseCut ==
  ASSUME NEW s \in Seq(Token), NEW cuts, \A i \in 1..Len(s) : i \in cuts => s[i] \in Loose,
         Behind(s, Firm)
  PROVE  /\ Without(s, cuts) \in Seq(Token) /\ Behind(Without(s, cuts), Firm)
         /\ EndsInStop(s) => EndsInStop(Without(s, cuts))
<1> DEFINE u == Without(s, cuts)
           K == 1..Len(s) \ cuts
<1>1. u \in Seq(Token)
  BY Cut
<1>2. PICK e : Picks(u, s, e, K)
  BY Cut
<1>3. \A i \in 1..Len(s) : i \notin K => s[i] \in Loose
  OBVIOUS
<1>4. EndsInStop(s) => Len(s) \in K
  <2>1. ASSUME EndsInStop(s) PROVE Len(s) \in 1..Len(s) /\ s[Len(s)] \notin Loose
    BY <2>1, TextIs, MarksAre DEF EndsInStop, Loose
  <2> QED BY <2>1
<1> HIDE DEF u, K
<1>5. Behind(u, Firm)
  BY <1>1, <1>2, <1>3, CutsKeepBehind
<1>6. EndsInStop(s) => EndsInStop(u)
  BY <1>1, <1>2, <1>4, LastStays DEF EndsInStop
<1> QED BY <1>1, <1>5, <1>6 DEF u

LEMMA TrimmedIs ==
  ASSUME NEW s \in Seq(Token), Behind(s, Firm)
  PROVE  /\ Trimmed(s) \in Seq(Token) /\ Behind(Trimmed(s), Firm) /\ EndsSolid(Trimmed(s))
         /\ Over(s) => EndsInStop(Trimmed(s))
<1> DEFINE cuts == {i \in DOMAIN s : \A j \in i..Len(s) : s[j] = Space}
           K == 1..Len(s) \ cuts
           u == Trimmed(s)
<1>1. Len(s) \in Nat /\ DOMAIN s = 1..Len(s)
  BY TextIs
<1>2. \A i \in 1..Len(s) : i \in cuts <=> \A j \in i..Len(s) : s[j] = Space
  BY <1>1
<1>3. \A i \in 1..Len(s) : i \in cuts => s[i] \in Loose
  <2> SUFFICES ASSUME NEW i \in 1..Len(s), i \in cuts PROVE s[i] = Space
    BY DEF Loose
  <2>1. i \in i..Len(s)
    BY <1>1
  <2> QED BY <1>2, <2>1
<1>4. u = Without(s, cuts)
  BY DEF Trimmed
<1>5. \A i \in 1..Len(s) : i \in K <=> i \notin cuts
  OBVIOUS
<1> HIDE DEF cuts
<1>6. u \in Seq(Token) /\ Behind(u, Firm) /\ \E e : Picks(u, s, e, K)
  BY <1>3, <1>4, LooseCut, Cut
<1> HIDE DEF u, K
<1>7. PICK e : Picks(u, s, e, K)
  BY <1>6
<1>8. /\ \A p \in 1..Len(u) : e[p] \in 1..Len(s) /\ e[p] \in K /\ u[p] = s[e[p]]
      /\ Len(u) > 0 => \A i \in 1..Len(s) : e[Len(u)] < i => i \notin K
      /\ Len(u) = 0 => \A i \in 1..Len(s) : i \notin K
      /\ Len(u) \in Nat
  BY <1>6, <1>7, PickedAre, TextIs
<1>9. ASSUME Len(u) > 0, u[Len(u)] = Space PROVE FALSE
  <2>1. Len(u) \in 1..Len(u)
    BY <1>8, <1>9
  <2>2. e[Len(u)] \in 1..Len(s) /\ e[Len(u)] \in K /\ s[e[Len(u)]] = Space
    BY <1>8, <1>9, <2>1
  <2>3. \A j \in e[Len(u)]..Len(s) : s[j] = Space
    <3> SUFFICES ASSUME NEW j \in e[Len(u)]..Len(s) PROVE s[j] = Space
      OBVIOUS
    <3>1. CASE j = e[Len(u)]
      BY <2>2, <3>1
    <3>2. CASE j # e[Len(u)]
      <4>1. j \in 1..Len(s) /\ e[Len(u)] < j
        BY <1>1, <2>2, <3>2
      <4>2. j \in cuts /\ j \in j..Len(s)
        BY <1>1, <1>5, <1>8, <1>9, <4>1
      <4> QED BY <1>2, <4>1, <4>2
    <3> QED BY <3>1, <3>2
  <2> QED BY <1>2, <1>5, <2>2, <2>3
<1>10. ASSUME Over(s) PROVE EndsInStop(u)
  <2>1. PICK m \in 1..Len(s) : s[m] \in Stops /\ \A k \in m + 1..Len(s) : s[k] = Space
    BY <1>10 DEF Over
  <2>2. m \in K
    <3>1. m \in m..Len(s) /\ s[m] # Space
      BY <1>1, <2>1, MarksAre
    <3> QED BY <1>2, <1>5, <3>1
  <2>3. \A i \in 1..Len(s) : m < i => i \notin K
    <3> SUFFICES ASSUME NEW i \in 1..Len(s), m < i PROVE i \in cuts
      BY <1>5
    <3>1. \A j \in i..Len(s) : j \in m + 1..Len(s)
      BY <1>1
    <3> QED BY <1>2, <2>1, <3>1
  <2>4. Len(u) > 0 /\ Len(u) \in 1..Len(u)
    BY <1>8, <2>2
  <2>5. e[Len(u)] = m
    <3>1. e[Len(u)] \in 1..Len(s) /\ e[Len(u)] \in K
      BY <1>8, <2>4
    <3>2. ~(m < e[Len(u)]) /\ ~(e[Len(u)] < m)
      BY <1>8, <2>2, <2>3, <2>4, <3>1
    <3> QED BY <3>1, <3>2
  <2> QED BY <1>8, <2>1, <2>4, <2>5 DEF EndsInStop
<1> QED BY <1>6, <1>9, <1>10 DEF EndsSolid, u

LEMMA SqueezedIs ==
  ASSUME NEW s \in Seq(Token), Behind(s, Firm), EndsSolid(s)
  PROVE  /\ Squeezed(s) \in Seq(Token) /\ Behind(Squeezed(s), Firm) /\ EndsSolid(Squeezed(s))
         /\ EndsInStop(s) => EndsInStop(Squeezed(s))
         /\ \A p \in 1..Len(Squeezed(s)) : p < Len(Squeezed(s)) /\ Squeezed(s)[p] = Space
                                             => Squeezed(s)[p + 1] # Space
<1> DEFINE cuts == {i \in DOMAIN s : s[i] = Space /\ (After(s, i) > i + 1 \/ \A j \in 1..i : s[j] = Space)}
           K == 1..Len(s) \ cuts
           u == Squeezed(s)
<1>1. Len(s) \in Nat /\ DOMAIN s = 1..Len(s)
  BY TextIs
<1>2. \A i \in 1..Len(s) : i \in cuts <=> s[i] = Space /\ (After(s, i) > i + 1 \/ \A j \in 1..i : s[j] = Space)
  BY <1>1
<1>3. \A i \in 1..Len(s) : i \in cuts => s[i] \in Loose
  BY <1>2 DEF Loose
<1>4. u = Without(s, cuts)
  BY DEF Squeezed
<1>5. \A i \in 1..Len(s) : i \in K <=> i \notin cuts
  OBVIOUS
<1> HIDE DEF cuts
<1>6. /\ u \in Seq(Token) /\ Behind(u, Firm) /\ (EndsInStop(s) => EndsInStop(u))
      /\ \E e : Picks(u, s, e, K)
  BY <1>3, <1>4, LooseCut, Cut
<1> HIDE DEF u, K
<1>7. PICK e : Picks(u, s, e, K)
  BY <1>6
<1>8. /\ \A p \in 1..Len(u) : e[p] \in 1..Len(s) /\ e[p] \in K /\ u[p] = s[e[p]]
      /\ \A p, q \in 1..Len(u) : p < q <=> e[p] < e[q]
      /\ \A p \in 1..Len(u), i \in 1..Len(s) : p < Len(u) /\ e[p] < i /\ i < e[p + 1] => i \notin K
      /\ Len(u) \in Nat
  BY <1>6, <1>7, PickedAre, TextIs
<1>9. EndsSolid(u)
  <2> SUFFICES ASSUME Len(u) > 0 PROVE u[Len(u)] # Space
    BY DEF EndsSolid
  <2>1. Len(u) \in 1..Len(u)
    BY <1>8
  <2>2. e[Len(u)] \in 1..Len(s)
    BY <1>8, <2>1
  <2>3. Len(s) > 0 /\ Len(s) \in 1..Len(s) /\ s[Len(s)] # Space
    BY <1>1, <2>2 DEF EndsSolid
  <2>4. Len(s) \in K
    BY <1>2, <1>5, <2>3
  <2> QED BY <1>6, <1>7, <2>3, <2>4, LastStays
<1>10. ASSUME NEW p \in 1..Len(u), p < Len(u), u[p] = Space, u[p + 1] = Space PROVE FALSE
  <2> DEFINE a == e[p]
             b == e[p + 1]
  <2>1. p + 1 \in 1..Len(u) /\ p < p + 1
    BY <1>8, <1>10
  <2>2. a \in 1..Len(s) /\ b \in 1..Len(s) /\ a < b /\ a \in K /\ s[a] = Space /\ s[b] = Space
    BY <1>8, <1>10, <2>1
  <2>3. \A i \in 1..Len(s) : a < i /\ i < b => s[i] = Space
    BY <1>2, <1>5, <1>8, <1>10
  <2> HIDE DEF a, b
  <2>4. a + 1 \in 1..Len(s) /\ s[a + 1] = Space
    <3>1. a + 1 \in 1..Len(s) /\ (a + 1 = b \/ (a < a + 1 /\ a + 1 < b))
      BY <1>1, <2>2
    <3> QED BY <2>2, <2>3, <3>1
  <2>5. After(s, a) > a + 1
    <3> DEFINE f == After(s, a)
    <3>1. f \in Nat /\ a < f /\ f <= Len(s) + 1 /\ (f <= Len(s) => s[f] # Space)
      BY <1>1, <2>2, AfterIs
    <3> HIDE DEF f
    <3>2. f > a + 1
      BY <1>1, <2>2, <2>4, <3>1
    <3> QED BY <3>2 DEF f
  <2> QED BY <1>2, <1>5, <2>2, <2>5
<1> QED BY <1>6, <1>9, <1>10 DEF u

(* A space has a word behind it. *)
SpacesBeforeWords(s) == \A p \in 1..Len(s) : s[p] = Space => p < Len(s) /\ s[p + 1] \notin Marks

LEMMA TightIs ==
  ASSUME NEW s \in Seq(Token), Behind(s, Firm), EndsSolid(s),
         \A p \in 1..Len(s) : p < Len(s) /\ s[p] = Space => s[p + 1] # Space
  PROVE  /\ Tight(s) \in Seq(Token) /\ Behind(Tight(s), Firm) /\ SpacesBeforeWords(Tight(s))
         /\ EndsInStop(s) => EndsInStop(Tight(s))
<1> DEFINE cuts == {i \in DOMAIN s : s[i] = Space /\ i < Len(s) /\ s[i + 1] \in Stops \union {Comma}}
           K == 1..Len(s) \ cuts
           u == Tight(s)
<1>1. Len(s) \in Nat /\ DOMAIN s = 1..Len(s) /\ \A i \in 1..Len(s) : s[i] \in Token
  BY TextIs
<1>2. \A i \in 1..Len(s) : i \in cuts <=> s[i] = Space /\ i < Len(s) /\ s[i + 1] \in Firm
  BY <1>1 DEF Firm
<1>3. \A i \in 1..Len(s) : i \in cuts => s[i] \in Loose
  BY <1>2 DEF Loose
<1>4. u = Without(s, cuts)
  BY DEF Tight
<1>5. \A i \in 1..Len(s) : i \in K <=> i \notin cuts
  OBVIOUS
<1> HIDE DEF cuts
<1>6. /\ u \in Seq(Token) /\ Behind(u, Firm) /\ (EndsInStop(s) => EndsInStop(u))
      /\ \E e : Picks(u, s, e, K)
  BY <1>3, <1>4, LooseCut, Cut
<1> HIDE DEF u, K
<1>7. PICK e : Picks(u, s, e, K)
  BY <1>6
<1>8. /\ \A p \in 1..Len(u) : e[p] \in 1..Len(s) /\ e[p] \in K /\ u[p] = s[e[p]]
      /\ \A p, q \in 1..Len(u) : p < q <=> e[p] < e[q]
      /\ \A i \in 1..Len(s) : i \in K => \E p \in 1..Len(u) : e[p] = i
      /\ \A p \in 1..Len(u), i \in 1..Len(s) : p < Len(u) /\ e[p] < i /\ i < e[p + 1] => i \notin K
      /\ Len(u) \in Nat
  BY <1>6, <1>7, PickedAre, TextIs
<1>9. ASSUME NEW p \in 1..Len(u), u[p] = Space PROVE p < Len(u) /\ u[p + 1] \notin Marks
  <2> DEFINE a == e[p]
  <2>1. a \in 1..Len(s) /\ a \in K /\ s[a] = Space /\ a = e[p]
    BY <1>8, <1>9
  <2> HIDE DEF a
  <2>2. a < Len(s)
    BY <1>1, <2>1 DEF EndsSolid
  <2>3. a + 1 \in 1..Len(s) /\ s[a + 1] # Space /\ s[a + 1] \notin Firm
    BY <1>1, <1>2, <1>5, <2>1, <2>2
  <2>4. s[a + 1] \notin Marks
    BY <1>1, <2>3, MarksAre DEF Firm
  <2>5. a + 1 \in K
    BY <1>2, <1>5, <2>3
  <2>6. PICK r \in 1..Len(u) : e[r] = a + 1
    BY <1>8, <2>3, <2>5
  <2>7. p < r
    BY <1>8, <2>1, <2>6
  <2>8. p < Len(u) /\ p + 1 \in 1..Len(u)
    BY <1>8, <2>7
  <2>9. e[p + 1] = a + 1
    <3>1. e[p + 1] \in 1..Len(s) /\ e[p] < e[p + 1]
      BY <1>8, <2>8
    <3>2. ~(a + 1 < e[p + 1])
      BY <1>8, <2>1, <2>3, <2>5, <2>8
    <3> QED BY <2>1, <3>1, <3>2
  <2> QED BY <1>8, <2>4, <2>8, <2>9
<1> QED BY <1>6, <1>9 DEF SpacesBeforeWords, u

LEMMA WithoutStrayCommaIs ==
  ASSUME NEW s \in Seq(Token), Behind(s, Firm), SpacesBeforeWords(s)
  PROVE  /\ WithoutStrayComma(s) \in Seq(Token) /\ Behind(WithoutStrayComma(s), Firm)
         /\ SpacesBeforeWords(WithoutStrayComma(s))
         /\ EndsInStop(s) => EndsInStop(WithoutStrayComma(s))
         /\ \A p \in 1..Len(WithoutStrayComma(s)) :
              p < Len(WithoutStrayComma(s)) /\ WithoutStrayComma(s)[p] = Comma
                => WithoutStrayComma(s)[p + 1] \notin Stops
<1> DEFINE cuts == {i \in DOMAIN s : s[i] = Comma /\ After(s, i) <= Len(s) /\ s[After(s, i)] \in Stops}
           K == 1..Len(s) \ cuts
           u == WithoutStrayComma(s)
<1>1. Len(s) \in Nat /\ DOMAIN s = 1..Len(s) /\ \A i \in 1..Len(s) : s[i] \in Token
  BY TextIs
<1>2. \A i \in 1..Len(s) : i \in cuts <=> s[i] = Comma /\ After(s, i) <= Len(s) /\ s[After(s, i)] \in Stops
  BY <1>1
<1>3. \A i \in 1..Len(s) : i \in cuts => s[i] \in Loose
  BY <1>2 DEF Loose
<1>4. u = Without(s, cuts)
  BY DEF WithoutStrayComma
<1>5. \A i \in 1..Len(s) : i \in K <=> i \notin cuts
  OBVIOUS
<1> HIDE DEF cuts
<1>6. /\ u \in Seq(Token) /\ Behind(u, Firm) /\ (EndsInStop(s) => EndsInStop(u))
      /\ \E e : Picks(u, s, e, K)
  BY <1>3, <1>4, LooseCut, Cut
<1> HIDE DEF u, K
<1>7. PICK e : Picks(u, s, e, K)
  BY <1>6
<1>8. /\ \A p \in 1..Len(u) : e[p] \in 1..Len(s) /\ e[p] \in K /\ u[p] = s[e[p]]
      /\ \A p, q \in 1..Len(u) : p < q <=> e[p] < e[q]
      /\ \A i \in 1..Len(s) : i \in K => \E p \in 1..Len(u) : e[p] = i
      /\ \A p \in 1..Len(u), i \in 1..Len(s) : p < Len(u) /\ e[p] < i /\ i < e[p + 1] => i \notin K
      /\ Len(u) \in Nat
  BY <1>6, <1>7, PickedAre, TextIs
<1>9. ASSUME NEW p \in 1..Len(u), u[p] = Space PROVE p < Len(u) /\ u[p + 1] \notin Marks
  <2> DEFINE a == e[p]
  <2>1. a \in 1..Len(s) /\ a \in K /\ s[a] = Space /\ a = e[p]
    BY <1>8, <1>9
  <2> HIDE DEF a
  <2>2. a < Len(s) /\ s[a + 1] \notin Marks /\ a + 1 \in 1..Len(s)
    BY <1>1, <2>1 DEF SpacesBeforeWords
  <2>5. a + 1 \in K
    BY <1>1, <1>2, <1>5, <2>2, MarksAre
  <2>6. PICK r \in 1..Len(u) : e[r] = a + 1
    BY <1>8, <2>2, <2>5
  <2>7. p < r
    BY <1>8, <2>1, <2>6
  <2>8. p < Len(u) /\ p + 1 \in 1..Len(u)
    BY <1>8, <2>7
  <2>9. e[p + 1] = a + 1
    <3>1. e[p + 1] \in 1..Len(s) /\ e[p] < e[p + 1]
      BY <1>8, <2>8
    <3>2. ~(a + 1 < e[p + 1])
      BY <1>8, <2>1, <2>2, <2>5, <2>8
    <3> QED BY <2>1, <3>1, <3>2
  <2> QED BY <1>8, <2>2, <2>8, <2>9
<1>10. ASSUME NEW p \in 1..Len(u), p < Len(u), u[p] = Comma, u[p + 1] \in Stops PROVE FALSE
  <2> DEFINE a == e[p]
             b == e[p + 1]
  <2>1. p + 1 \in 1..Len(u) /\ p < p + 1
    BY <1>8, <1>10
  <2>2. a \in 1..Len(s) /\ b \in 1..Len(s) /\ a < b /\ a \in K /\ s[a] = Comma /\ s[b] \in Stops
    BY <1>8, <1>10, <2>1
  <2>3. \A i \in 1..Len(s) : a < i /\ i < b => s[i] = Comma
    BY <1>2, <1>5, <1>8, <1>10
  <2> HIDE DEF a, b
  <2>4. a + 1 = b
    <3> SUFFICES ASSUME a + 1 < b PROVE FALSE
      BY <2>2
    <3>1. a + 1 \in 1..Len(s) /\ s[a + 1] = Comma /\ a < a + 1 /\ s[a] \in Firm
      BY <1>1, <2>2, <2>3 DEF Firm
    <3>2. PICK k \in a + 1..(a + 1) - 1 : s[k] \notin Loose
      BY <2>2, <3>1 DEF Behind
    <3> QED BY <2>2
  <2>5. After(s, a) = b
    <3>1. a \in Nat /\ b \in Nat /\ a <= Len(s) /\ b <= Len(s) + 1 /\ s[b] # Space
      BY <1>1, <2>2, MarksAre
    <3>2. \A k \in 1..Len(s) : a < k /\ k < b => s[k] = Space
      BY <2>2, <2>4
    <3> QED BY <2>2, <3>1, <3>2, AfterIsAt
  <2> QED BY <1>1, <1>2, <1>5, <2>2, <2>5
<1> QED BY <1>6, <1>9, <1>10 DEF SpacesBeforeWords, u

-----------------------------------------------------------------------------
(* What may be behind what in a sentence that shows no seam.               *)
Follows(x, y) ==
  /\ x = Space => y \notin Marks
  /\ x = Comma => y = Space
  /\ y = Comma => x \notin Marks

Chain(w) == \A i \in 1..Len(w) : i < Len(w) => Follows(w[i], w[i + 1])

LEMMA EndToEnd ==
  ASSUME NEW a \in Seq(Token), NEW b \in Seq(Token)
  PROVE  /\ a \o b \in Seq(Token) /\ Len(a \o b) = Len(a) + Len(b)
         /\ \A i \in 1..Len(a) : (a \o b)[i] = a[i]
         /\ \A i \in 1..Len(b) : Len(a) + i \in 1..Len(a \o b) /\ (a \o b)[Len(a) + i] = b[i]
         /\ \A i \in 1..Len(a \o b) : i \in 1..Len(a) \/ (i - Len(a) \in 1..Len(b) /\ (a \o b)[i] = b[i - Len(a)])
<1>1. Len(a) \in Nat /\ Len(b) \in Nat
  BY TextIs
<1>2. /\ a \o b \in Seq(Token) /\ Len(a \o b) = Len(a) + Len(b)
      /\ \A i \in 1..Len(a) + Len(b) : (a \o b)[i] = IF i <= Len(a) THEN a[i] ELSE b[i - Len(a)]
  BY ConcatProperties
<1> DEFINE c == a \o b
<1> HIDE DEF c
<1>3. \A i \in 1..Len(a) : i \in 1..Len(a) + Len(b) /\ i <= Len(a)
  BY <1>1
<1>4. \A i \in 1..Len(b) : /\ Len(a) + i \in 1..Len(a) + Len(b) /\ ~(Len(a) + i <= Len(a))
                           /\ (Len(a) + i) - Len(a) = i
  BY <1>1
<1>5. \A i \in 1..Len(a) + Len(b) : i \in 1..Len(a) \/ (i - Len(a) \in 1..Len(b) /\ ~(i <= Len(a)))
  BY <1>1
<1>6. \A i \in 1..Len(a) : c[i] = a[i]
  BY <1>2, <1>3 DEF c
<1>7. \A i \in 1..Len(b) : Len(a) + i \in 1..Len(a \o b) /\ c[Len(a) + i] = b[i]
  BY <1>2, <1>4 DEF c
<1>8. \A i \in 1..Len(a \o b) : i \in 1..Len(a) \/ (i - Len(a) \in 1..Len(b) /\ c[i] = b[i - Len(a)])
  BY <1>2, <1>5 DEF c
<1> QED BY <1>2, <1>6, <1>7, <1>8 DEF c

LEMMA ChainsMakeAChain ==
  ASSUME NEW a \in Seq(Token), NEW b \in Seq(Token), Len(a) > 0, Len(b) > 0, Chain(a), Chain(b),
         Follows(a[Len(a)], b[1])
  PROVE  Chain(a \o b)
<1> DEFINE c == a \o b
<1>1. Len(a) \in Nat /\ Len(b) \in Nat
  BY TextIs
<1>2. /\ Len(c) = Len(a) + Len(b) /\ \A i \in 1..Len(a) : c[i] = a[i]
      /\ \A i \in 1..Len(b) : c[Len(a) + i] = b[i]
  BY EndToEnd
<1> HIDE DEF c
<1> SUFFICES ASSUME NEW i \in 1..Len(c), i < Len(c) PROVE Follows(c[i], c[i + 1])
  BY DEF Chain, c
<1>3. CASE i < Len(a)
  <2>1. i \in 1..Len(a) /\ i + 1 \in 1..Len(a)
    BY <1>1, <1>3
  <2> QED BY <1>2, <1>3, <2>1 DEF Chain
<1>4. CASE i = Len(a)
  <2>1. i \in 1..Len(a) /\ 1 \in 1..Len(b)
    BY <1>1, <1>4
  <2> QED BY <1>2, <1>4, <2>1
<1>5. CASE i > Len(a)
  <2> DEFINE j == i - Len(a)
  <2>1. j \in 1..Len(b) /\ j + 1 \in 1..Len(b) /\ j < Len(b) /\ i = Len(a) + j /\ i + 1 = Len(a) + (j + 1)
    BY <1>1, <1>2, <1>5
  <2> HIDE DEF j
  <2>2. c[i] = b[j] /\ c[i + 1] = b[j + 1]
    BY <1>2, <2>1
  <2> QED BY <2>1, <2>2 DEF Chain
<1> QED BY <1>1, <1>3, <1>4, <1>5

LEMMA OneToken ==
  ASSUME NEW x \in Token
  PROVE  /\ <<x>> \in Seq(Token) /\ Len(<<x>>) = 1 /\ <<x>>[1] = x
         /\ <<x, Space>> \in Seq(Token) /\ Len(<<x, Space>>) = 2 /\ <<x, Space>>[1] = x /\ <<x, Space>>[2] = Space
BY MarksAre

(* No pieces make the empty text. *)
LEMMA NoPieces ==
  ASSUME NEW ss, ss \in [1..0 -> Seq(Token)]
  PROVE  FlattenSeq(ss) = <<>>
<1>1. ss \in Seq(Seq(Token)) /\ Len(ss) = 0
  BY FunIsSeq
<1>2. ss = <<>>
  BY <1>1, EmptySeq
<1> QED BY <1>1, <1>2 DEF FlattenSeq

LEMMA SpacedIs ==
  ASSUME NEW s \in Seq(Token), Behind(s, Firm), SpacesBeforeWords(s),
         \A p \in 1..Len(s) : p < Len(s) /\ s[p] = Comma => s[p + 1] \notin Stops
  PROVE  /\ Spaced(s) \in Seq(Token) /\ Chain(Spaced(s)) /\ EndsSolid(Spaced(s))
         /\ EndsInStop(s) => EndsInStop(Spaced(s))
<1> DEFINE n == Len(s)
           Opens(i) == s[i] = Comma /\ i < n /\ s[i + 1] # Space
           ss == [i \in 1..n |-> IF Opens(i) THEN <<Comma, Space>> ELSE <<s[i]>>]
<1>1. n \in Nat /\ \A i \in 1..n : s[i] \in Token
  BY TextIs
<1>2. Spaced(s) = FlattenSeq(ss)
  BY DEF Spaced, MapConcat
<1>3. \A i \in 1..n : ss[i] = IF Opens(i) THEN <<Comma, Space>> ELSE <<s[i]>>
  OBVIOUS
<1>4. \A i \in 1..n : ss[i] \in Seq(Token)
  BY <1>1, <1>3, OneToken, MarksAre
<1>5. ss \in [1..n -> Seq(Token)]
  BY <1>4
<1>6. Len(ss) = n
  BY <1>1, <1>5, FunIsSeq
<1>7. CASE n = 0
  <2>1. Spaced(s) = <<>>
    BY <1>2, <1>5, <1>7, NoPieces
  <2>2. Len(Spaced(s)) = 0 /\ Spaced(s) \in Seq(Token)
    BY <2>1, EmptySeq
  <2>3. \A i \in 1..Len(Spaced(s)) : FALSE
    BY <2>2
  <2> QED BY <1>7, <2>2, <2>3 DEF Chain, EndsInStop, EndsSolid
<1>8. CASE n # 0
  <2> HIDE DEF ss
  <2>1. PICK f : /\ f[1] = ss[1] /\ \A k \in 1..n : k # 1 => f[k] = f[k - 1] \o ss[k]
                 /\ FlattenSeq(ss) = f[n] /\ \A k \in 1..n : f[k] \in Seq(Token)
    <3>1. Len(ss) \in Nat \ {0} /\ \A k \in 1..Len(ss) : ss[k] \in Seq(Token)
      BY <1>1, <1>4, <1>6, <1>8
    <3> HIDE DEF n
    <3>2. \E f : /\ f[1] = ss[1] /\ \A k \in 1..Len(ss) : k # 1 => f[k] = f[k - 1] \o ss[k]
                 /\ FlattenSeq(ss) = f[Len(ss)] /\ \A k \in 1..Len(ss) : f[k] \in Seq(Token)
      BY <3>1, FlattenUnfolds
    <3> QED BY <1>6, <3>2
  <2> DEFINE Good(k) == /\ Len(f[k]) > 0 /\ Chain(f[k])
                        /\ f[k][Len(f[k])] = IF Opens(k) THEN Space ELSE s[k]
             G == {k \in 1..n : Good(k)}
  <2>a. \A x \in Token : Len(<<x>>) = 1 /\ <<x>>[1] = x /\ Chain(<<x>>)
    BY OneToken DEF Chain
  <2>b. Len(<<Comma, Space>>) = 2 /\ <<Comma, Space>>[1] = Comma /\ <<Comma, Space>>[2] = Space /\ Chain(<<Comma, Space>>)
    <3>1. Len(<<Comma, Space>>) = 2 /\ <<Comma, Space>>[1] = Comma /\ <<Comma, Space>>[2] = Space
      BY OneToken, MarksAre
    <3>2. Follows(Comma, Space)
      BY MarksAre DEF Follows
    <3> QED BY <3>1, <3>2 DEF Chain
  <2>2. \A k \in 1..n : /\ Len(ss[k]) > 0 /\ Chain(ss[k]) /\ ss[k][1] = s[k]
                        /\ ss[k][Len(ss[k])] = IF Opens(k) THEN Space ELSE s[k]
    <3> SUFFICES ASSUME NEW k \in 1..n
                 PROVE  /\ Len(ss[k]) > 0 /\ Chain(ss[k]) /\ ss[k][1] = s[k]
                        /\ ss[k][Len(ss[k])] = IF Opens(k) THEN Space ELSE s[k]
      OBVIOUS
    <3>1. CASE Opens(k)
      <4>1. ss[k] = <<Comma, Space>> /\ s[k] = Comma
        BY <1>3, <3>1
      <4> QED BY <2>b, <3>1, <4>1
    <3>2. CASE ~Opens(k)
      <4>1. ss[k] = <<s[k]>> /\ s[k] \in Token
        BY <1>1, <1>3, <3>2
      <4> QED BY <2>a, <3>2, <4>1
    <3> QED BY <3>1, <3>2
  <2>3. 1 \in G
    BY <1>1, <1>8, <2>1, <2>2
  <2>4. ASSUME NEW k \in 1..n, k < n, k \in G PROVE k + 1 \in G
    <3> DEFINE a == f[k]
               b == ss[k + 1]
    <3>1. k + 1 \in 1..n /\ k + 1 # 1 /\ (k + 1) - 1 = k
      BY <1>1, <2>4
    <3>2. f[k + 1] = a \o b /\ a \in Seq(Token) /\ b \in Seq(Token)
      BY <1>4, <2>1, <3>1
    <3>3. Len(a) > 0 /\ Chain(a) /\ a[Len(a)] = IF Opens(k) THEN Space ELSE s[k]
      BY <2>4
    <3>4. Len(b) > 0 /\ Chain(b) /\ b[1] = s[k + 1] /\ b[Len(b)] = IF Opens(k + 1) THEN Space ELSE s[k + 1]
      BY <2>2, <3>1
    <3> HIDE DEF a, b
    <3>5. s[k] \in Token /\ s[k + 1] \in Token
      BY <1>1, <3>1
    <3>6. s[k] = Comma => s[k + 1] \notin Firm
      <4> SUFFICES ASSUME s[k] = Comma, s[k + 1] = Comma PROVE FALSE
        BY <2>4 DEF Firm
      <4>1. s[k] \in Firm /\ k < k + 1
        BY DEF Firm
      <4>2. PICK m \in k + 1..(k + 1) - 1 : s[m] \notin Loose
        BY <3>1, <4>1 DEF Behind
      <4> QED OBVIOUS
    <3>7. s[k] = Space => s[k + 1] \notin Marks
      BY <2>4 DEF SpacesBeforeWords
    <3>8. s[k + 1] = Comma => s[k] \notin Marks
      <4> SUFFICES ASSUME s[k + 1] = Comma, s[k] \in Marks PROVE FALSE
        OBVIOUS
      <4>1. s[k] \in Stops
        BY <3>5, <3>6, <3>7, MarksAre DEF Firm
      <4>2. s[k] \in Firm /\ k < k + 1
        BY <4>1 DEF Firm
      <4>3. PICK m \in k + 1..(k + 1) - 1 : s[m] \notin Loose
        BY <3>1, <4>2 DEF Behind
      <4> QED OBVIOUS
    <3>9. Follows(a[Len(a)], b[1])
      <4>1. CASE Opens(k)
        <5>1. a[Len(a)] = Space /\ b[1] = s[k + 1] /\ s[k + 1] # Space /\ s[k + 1] \notin Firm
          BY <3>3, <3>4, <3>6, <4>1
        <5>2. s[k + 1] \notin Marks
          BY <3>5, <5>1, MarksAre DEF Firm
        <5> QED BY <5>1, <5>2, MarksAre DEF Follows, Marks
      <4>2. CASE ~Opens(k)
        <5>1. a[Len(a)] = s[k] /\ b[1] = s[k + 1]
          BY <3>3, <3>4, <4>2
        <5>2. s[k] = Comma => s[k + 1] = Space
          BY <2>4, <4>2
        <5> QED BY <3>7, <3>8, <5>1, <5>2 DEF Follows
      <4> QED BY <4>1, <4>2
    <3>10. Chain(a \o b)
      BY <3>2, <3>3, <3>4, <3>9, ChainsMakeAChain
    <3>11. Len(a \o b) > 0 /\ (a \o b)[Len(a \o b)] = b[Len(b)]
      <4>1. Len(a \o b) = Len(a) + Len(b) /\ Len(a) \in Nat /\ Len(b) \in Nat /\ Len(b) \in 1..Len(b)
        BY <3>2, <3>4, EndToEnd, TextIs
      <4>2. (a \o b)[Len(a) + Len(b)] = b[Len(b)]
        BY <3>2, <4>1, EndToEnd
      <4> QED BY <3>4, <4>1, <4>2
    <3> QED BY <3>1, <3>2, <3>4, <3>10, <3>11
  <2> HIDE DEF G
  <2>5. \A k \in 1..n : k \in G
    BY <1>1, <2>3, <2>4, OneByOne
  <2>6. Good(n) /\ n \in 1..n /\ ~Opens(n)
    BY <1>1, <1>8, <2>5 DEF G
  <2>7. s[n] # Space
    BY <1>1, <2>6 DEF SpacesBeforeWords
  <2> QED BY <1>2, <2>1, <2>6, <2>7 DEF EndsInStop, EndsSolid
<1> QED BY <1>7, <1>8

LEMMA WithoutLeadingCommaIs ==
  ASSUME NEW s \in Seq(Token), Chain(s), EndsSolid(s)
  PROVE  /\ WithoutLeadingComma(s) \in Seq(Token) /\ Chain(WithoutLeadingComma(s))
         /\ EndsSolid(WithoutLeadingComma(s))
         /\ EndsInStop(s) => EndsInStop(WithoutLeadingComma(s))
         /\ Len(WithoutLeadingComma(s)) > 0 => WithoutLeadingComma(s)[1] \notin Loose
<1> DEFINE cuts == {i \in DOMAIN s : \A j \in 1..i : s[j] \in {Comma, Space}}
           K == 1..Len(s) \ cuts
           u == WithoutLeadingComma(s)
<1>1. Len(s) \in Nat /\ DOMAIN s = 1..Len(s) /\ \A i \in 1..Len(s) : s[i] \in Token
  BY TextIs
<1>2. \A i \in 1..Len(s) : i \in cuts <=> \A j \in 1..i : s[j] \in Loose
  BY <1>1 DEF Loose
<1>4. u = Without(s, cuts)
  BY DEF WithoutLeadingComma
<1>5. \A i \in 1..Len(s) : i \in K <=> i \notin cuts
  OBVIOUS
<1> HIDE DEF cuts
<1>6. u \in Seq(Token) /\ \E e : Picks(u, s, e, K)
  BY <1>4, Cut
<1> HIDE DEF u, K
<1>7. PICK e : Picks(u, s, e, K)
  BY <1>6
<1>8. /\ \A p \in 1..Len(u) : e[p] \in 1..Len(s) /\ e[p] \in K /\ u[p] = s[e[p]]
      /\ \A p, q \in 1..Len(u) : p < q <=> e[p] < e[q]
      /\ \A p \in 1..Len(u), i \in 1..Len(s) : p < Len(u) /\ e[p] < i /\ i < e[p + 1] => i \notin K
      /\ Len(u) > 0 => \A i \in 1..Len(s) : i < e[1] => i \notin K
      /\ Len(u) \in Nat
  BY <1>6, <1>7, PickedAre, TextIs
<1>9. ASSUME NEW i \in 1..Len(s), i \in K, NEW j \in 1..Len(s), i < j PROVE j \in K
  <2> SUFFICES ASSUME j \notin K PROVE FALSE
    OBVIOUS
  <2>1. \A x \in 1..i : x \in 1..j
    BY <1>9
  <2> QED BY <1>2, <1>5, <1>9, <2>1
<1>10. ASSUME Len(u) > 0 PROVE Len(s) > 0 /\ Len(s) \in K
  <2>1. 1 \in 1..Len(u) /\ e[1] \in 1..Len(s) /\ e[1] \in K
    BY <1>8, <1>10
  <2>2. Len(s) \in 1..Len(s) /\ (e[1] = Len(s) \/ e[1] < Len(s))
    BY <1>1, <2>1
  <2> QED BY <1>9, <2>1, <2>2
<1>11. Len(u) > 0 => Len(s) > 0 /\ u[Len(u)] = s[Len(s)]
  BY <1>6, <1>7, <1>10, LastStays
<1>12. EndsInStop(s) => EndsInStop(u)
  <2> SUFFICES ASSUME EndsInStop(s) PROVE EndsInStop(u)
    OBVIOUS
  <2>1. Len(s) > 0 /\ s[Len(s)] \in Stops /\ Len(s) \in 1..Len(s)
    BY <1>1 DEF EndsInStop
  <2>2. s[Len(s)] \notin Loose
    BY <1>1, <2>1, MarksAre DEF Loose
  <2>3. Len(s) \in K
    BY <1>2, <1>5, <2>1, <2>2
  <2> QED BY <1>6, <1>7, <2>1, <2>3, LastStays DEF EndsInStop
<1>13. EndsSolid(u)
  BY <1>11 DEF EndsSolid
<1>14. ASSUME NEW p \in 1..Len(u), p < Len(u) PROVE Follows(u[p], u[p + 1])
  <2> DEFINE a == e[p]
             b == e[p + 1]
  <2>1. p + 1 \in 1..Len(u) /\ p < p + 1
    BY <1>8, <1>14
  <2>2. /\ a \in 1..Len(s) /\ b \in 1..Len(s) /\ a < b /\ a \in K /\ u[p] = s[a] /\ u[p + 1] = s[b]
        /\ \A i \in 1..Len(s) : a < i /\ i < b => i \notin K
    BY <1>8, <1>14, <2>1
  <2> HIDE DEF a, b
  <2>3. b = a + 1
    <3>1. a + 1 \in 1..Len(s) /\ a < a + 1
      BY <2>2
    <3> QED BY <1>9, <2>2, <3>1
  <2> QED BY <2>2, <2>3 DEF Chain
<1>15. ASSUME Len(u) > 0 PROVE u[1] \notin Loose
  <2> SUFFICES ASSUME u[1] \in Loose PROVE FALSE
    OBVIOUS
  <2>1. 1 \in 1..Len(u) /\ e[1] \in 1..Len(s) /\ e[1] \in K /\ s[e[1]] \in Loose
    BY <1>8, <1>15
  <2>2. \A j \in 1..e[1] : s[j] \in Loose
    <3> SUFFICES ASSUME NEW j \in 1..e[1], j # e[1] PROVE s[j] \in Loose
      BY <2>1
    <3>1. j \in 1..Len(s) /\ j < e[1] /\ j \in 1..j
      BY <2>1
    <3> QED BY <1>2, <1>5, <1>8, <1>15, <3>1
  <2> QED BY <1>2, <1>5, <2>1, <2>2
<1>16. Chain(u)
  BY <1>14 DEF Chain
<1> QED BY <1>6, <1>12, <1>13, <1>15, <1>16 DEF u

(* A sentence as normalize_sentence leaves it. *)
LEMMA NormalizedSentenceIs ==
  ASSUME NEW s \in Seq(Token), Behind(s, Firm)
  PROVE  /\ NormalizeSentence(s) \in Seq(Token) /\ Chain(NormalizeSentence(s))
         /\ EndsSolid(NormalizeSentence(s))
         /\ Len(NormalizeSentence(s)) > 0 => NormalizeSentence(s)[1] \notin Loose
         /\ Over(s) => EndsInStop(NormalizeSentence(s))
<1> DEFINE a == Trimmed(s)
           b == Squeezed(a)
           c == Tight(b)
           d == WithoutStrayComma(c)
           f == Spaced(d)
           g == WithoutLeadingComma(f)
<1>0. NormalizeSentence(s) = g
  BY DEF NormalizeSentence
<1> HIDE DEF g
<1>1. a \in Seq(Token) /\ Behind(a, Firm) /\ EndsSolid(a) /\ (Over(s) => EndsInStop(a))
  BY TrimmedIs
<1> HIDE DEF a
<1>2. /\ b \in Seq(Token) /\ Behind(b, Firm) /\ EndsSolid(b) /\ (EndsInStop(a) => EndsInStop(b))
      /\ \A p \in 1..Len(b) : p < Len(b) /\ b[p] = Space => b[p + 1] # Space
  BY <1>1, SqueezedIs
<1> HIDE DEF b
<1>3. c \in Seq(Token) /\ Behind(c, Firm) /\ SpacesBeforeWords(c) /\ (EndsInStop(b) => EndsInStop(c))
  BY <1>2, TightIs
<1> HIDE DEF c
<1>4. /\ d \in Seq(Token) /\ Behind(d, Firm) /\ SpacesBeforeWords(d) /\ (EndsInStop(c) => EndsInStop(d))
      /\ \A p \in 1..Len(d) : p < Len(d) /\ d[p] = Comma => d[p + 1] \notin Stops
  BY <1>3, WithoutStrayCommaIs
<1> HIDE DEF d
<1>5. f \in Seq(Token) /\ Chain(f) /\ EndsSolid(f) /\ (EndsInStop(d) => EndsInStop(f))
  BY <1>4, SpacedIs
<1> HIDE DEF f
<1>6. /\ g \in Seq(Token) /\ Chain(g) /\ EndsSolid(g) /\ (EndsInStop(f) => EndsInStop(g))
      /\ Len(g) > 0 => g[1] \notin Loose
  BY <1>5, WithoutLeadingCommaIs DEF g
<1> QED BY <1>0, <1>1, <1>2, <1>3, <1>4, <1>5, <1>6

-----------------------------------------------------------------------------
(* A text that shows no seam, told from its neighbours alone.              *)
Tidy(w) ==
  /\ \A i \in 1..Len(w) : w[i] = Space =>
       /\ 1 < i /\ i < Len(w)
       /\ w[i + 1] \notin Marks \/ (w[i + 1] \in Stops /\ w[i - 1] \in Stops)
  /\ \A i \in 1..Len(w) : w[i] = Comma =>
       1 < i /\ w[i - 1] \notin Marks /\ (i < Len(w) => w[i + 1] = Space)

Normal(s) == /\ s \in Seq(Token) /\ Chain(s) /\ EndsSolid(s)
             /\ Len(s) > 0 => s[1] \notin Loose

LEMMA NormalIsTidy ==
  ASSUME NEW s, Normal(s)
  PROVE  Tidy(s)
<1>1. s \in Seq(Token) /\ Len(s) \in Nat
  BY TextIs DEF Normal
<1>2. ASSUME NEW i \in 1..Len(s), s[i] \in Loose PROVE 1 < i /\ i - 1 \in 1..Len(s)
  <2>1. Len(s) > 0 /\ i # 1
    BY <1>1, <1>2 DEF Normal
  <2> QED BY <1>1, <2>1
<1>3. ASSUME NEW i \in 1..Len(s), s[i] = Space PROVE i < Len(s) /\ s[i + 1] \notin Marks
  <2>1. i < Len(s)
    BY <1>1, <1>3 DEF Normal, EndsSolid
  <2> QED BY <1>3, <2>1 DEF Normal, Chain, Follows
<1>4. ASSUME NEW i \in 1..Len(s), s[i] = Comma
      PROVE  s[i - 1] \notin Marks /\ (i < Len(s) => s[i + 1] = Space)
  <2>1. 1 < i /\ i - 1 \in 1..Len(s)
    BY <1>2, <1>4 DEF Loose
  <2>2. Follows(s[i - 1], s[i])
    <3>1. i - 1 < Len(s) /\ (i - 1) + 1 = i
      BY <1>1, <2>1
    <3> QED BY <2>1, <3>1 DEF Normal, Chain
  <2> QED BY <1>4, <2>2 DEF Normal, Chain, Follows
<1> QED BY <1>2, <1>3, <1>4 DEF Tidy, Loose

LEMMA TidyJoined ==
  ASSUME NEW a \in Seq(Token), Tidy(a), EndsInStop(a), NEW s, Normal(s), Len(s) > 0
  PROVE  /\ a \o (<<Space>> \o s) \in Seq(Token) /\ Tidy(a \o (<<Space>> \o s))
         /\ EndsInStop(s) => EndsInStop(a \o (<<Space>> \o s))
<1> DEFINE x == <<Space>>
           b == x \o s
           c == a \o b
           A == Len(a)
           L == Len(s)
<1>1. s \in Seq(Token) /\ A \in Nat /\ L \in Nat /\ A > 0 /\ L > 0
  BY TextIs DEF Normal, EndsInStop
<1>2. x \in Seq(Token) /\ Len(x) = 1 /\ x[1] = Space
  BY OneToken, MarksAre
<1> HIDE DEF x
<1>3. /\ b \in Seq(Token) /\ Len(b) = 1 + L /\ \A i \in 1..1 : b[i] = x[i]
      /\ \A i \in 1..L : b[1 + i] = s[i]
  <2>1. /\ b \in Seq(Token) /\ Len(b) = Len(x) + L /\ \A i \in 1..Len(x) : b[i] = x[i]
        /\ \A i \in 1..L : b[Len(x) + i] = s[i]
    BY <1>1, <1>2, EndToEnd
  <2> QED BY <1>2, <2>1
<1>4. b[1] = Space
  BY <1>2, <1>3
<1> HIDE DEF b
<1>5. /\ c \in Seq(Token) /\ Len(c) = A + Len(b) /\ \A i \in 1..A : c[i] = a[i]
      /\ \A i \in 1..Len(b) : c[A + i] = b[i]
  BY <1>3, EndToEnd
<1> HIDE DEF c
<1>6. /\ Len(c) = A + 1 + L /\ c[A + 1] = Space /\ \A i \in 1..L : c[A + 1 + i] = s[i]
  <2>1. Len(c) = A + 1 + L
    BY <1>1, <1>3, <1>5
  <2>2. c[A + 1] = Space
    BY <1>1, <1>3, <1>4, <1>5
  <2>3. ASSUME NEW i \in 1..L PROVE c[A + 1 + i] = s[i]
    <3>1. 1 + i \in 1..Len(b) /\ A + (1 + i) = A + 1 + i
      BY <1>1, <1>3
    <3> QED BY <1>3, <1>5, <3>1
  <2> QED BY <2>1, <2>2, <2>3
<1>7. Tidy(s)
  BY NormalIsTidy
<1> DEFINE AtSpace(i) == /\ 1 < i /\ i < Len(c)
                         /\ c[i + 1] \notin Marks \/ (c[i + 1] \in Stops /\ c[i - 1] \in Stops)
           AtComma(i) == 1 < i /\ c[i - 1] \notin Marks /\ (i < Len(c) => c[i + 1] = Space)
<1>8. ASSUME NEW i \in 1..Len(c), c[i] = Space PROVE AtSpace(i)
  <2>1. CASE i <= A
    <3>1. i \in 1..A /\ a[i] = Space
      BY <1>1, <1>5, <1>8, <2>1
    <3>2. 1 < i /\ i < A /\ (a[i + 1] \notin Marks \/ (a[i + 1] \in Stops /\ a[i - 1] \in Stops))
      BY <3>1 DEF Tidy
    <3>3. i + 1 \in 1..A /\ i - 1 \in 1..A
      BY <1>1, <3>1, <3>2
    <3>4. c[i + 1] = a[i + 1] /\ c[i - 1] = a[i - 1]
      BY <1>5, <3>3
    <3> QED BY <1>1, <1>6, <3>2, <3>4
  <2>2. CASE i = A + 1
    <3>1. A \in 1..A /\ 1 \in 1..L /\ A + 1 + 1 = i + 1 /\ i - 1 = A
      BY <1>1, <2>2
    <3>2. c[i - 1] \in Stops /\ c[i + 1] = s[1]
      BY <1>5, <1>6, <2>2, <3>1 DEF EndsInStop
    <3>3. s[1] \in Token /\ s[1] \notin Loose
      BY <1>1, <3>1, TextIs DEF Normal
    <3>4. s[1] \notin Marks \/ s[1] \in Stops
      BY <3>3, MarksAre DEF Loose
    <3> QED BY <1>1, <1>6, <2>2, <3>2, <3>4
  <2>3. CASE i > A + 1
    <3> DEFINE j == i - (A + 1)
    <3>1. j \in 1..L /\ i = A + 1 + j
      BY <1>1, <1>6, <2>3
    <3> HIDE DEF j
    <3>2. s[j] = Space
      BY <1>6, <1>8, <3>1
    <3>3. 1 < j /\ j < L /\ (s[j + 1] \notin Marks \/ (s[j + 1] \in Stops /\ s[j - 1] \in Stops))
      BY <1>7, <3>1, <3>2 DEF Tidy
    <3>4. j + 1 \in 1..L /\ j - 1 \in 1..L /\ A + 1 + (j + 1) = i + 1 /\ A + 1 + (j - 1) = i - 1
      BY <1>1, <3>1, <3>3
    <3>5. c[i + 1] = s[j + 1] /\ c[i - 1] = s[j - 1]
      <4>1. A + 1 + (j + 1) = i + 1 => c[i + 1] = s[j + 1]
        BY <1>6, <3>4
      <4>2. A + 1 + (j - 1) = i - 1 => c[i - 1] = s[j - 1]
        BY <1>6, <3>4
      <4> QED BY <3>4, <4>1, <4>2
    <3> QED BY <1>1, <1>6, <3>1, <3>3, <3>5
  <2> QED BY <1>1, <2>1, <2>2, <2>3
<1>9. ASSUME NEW i \in 1..Len(c), c[i] = Comma PROVE AtComma(i)
  <2>1. CASE i <= A
    <3>1. i \in 1..A /\ a[i] = Comma
      BY <1>1, <1>5, <1>9, <2>1
    <3>2. 1 < i /\ a[i - 1] \notin Marks /\ (i < A => a[i + 1] = Space)
      BY <3>1 DEF Tidy
    <3>3. i # A
      BY <3>1, MarksAre DEF EndsInStop
    <3>4. i + 1 \in 1..A /\ i - 1 \in 1..A /\ i < A
      BY <1>1, <3>1, <3>2, <3>3
    <3>5. c[i + 1] = a[i + 1] /\ c[i - 1] = a[i - 1]
      BY <1>5, <3>4
    <3> QED BY <3>2, <3>4, <3>5
  <2>2. CASE i = A + 1
    BY <1>6, <1>9, <2>2, MarksAre
  <2>3. CASE i > A + 1
    <3> DEFINE j == i - (A + 1)
    <3>1. j \in 1..L /\ i = A + 1 + j
      BY <1>1, <1>6, <2>3
    <3> HIDE DEF j
    <3>2. s[j] = Comma
      BY <1>6, <1>9, <3>1
    <3>3. 1 < j /\ s[j - 1] \notin Marks /\ (j < L => s[j + 1] = Space)
      BY <1>7, <3>1, <3>2 DEF Tidy
    <3>4. j - 1 \in 1..L /\ A + 1 + (j - 1) = i - 1
      BY <1>1, <3>1, <3>3
    <3>5. c[i - 1] = s[j - 1]
      BY <1>6, <3>4
    <3>6. i < Len(c) => j < L /\ j + 1 \in 1..L /\ A + 1 + (j + 1) = i + 1
      BY <1>1, <1>6, <3>1
    <3>7. i < Len(c) => c[i + 1] = s[j + 1]
      BY <1>6, <3>6
    <3> QED BY <1>1, <3>1, <3>3, <3>5, <3>6, <3>7
  <2> QED BY <1>1, <2>1, <2>2, <2>3
<1>10. EndsInStop(s) => EndsInStop(c)
  <2>1. L \in 1..L /\ A + 1 + L > 0
    BY <1>1
  <2> QED BY <1>6, <2>1 DEF EndsInStop
<1>11. Tidy(c)
  BY <1>8, <1>9 DEF Tidy
<1> QED BY <1>5, <1>10, <1>11 DEF b, c, x

LEMMA JoinedTidily ==
  ASSUME NEW ss, Len(ss) \in Nat \ {0}, \A k \in 1..Len(ss) : Normal(ss[k]),
         \A k \in 1..Len(ss) : k # Len(ss) => EndsInStop(ss[k])
  PROVE  Join(ss) \in Seq(Token) /\ Tidy(Join(ss))
<1> DEFINE n == Len(ss)
           Later(k) == ss[k] # <<>> /\ \E j \in 1..k - 1 : ss[j] # <<>>
           pp == [k \in 1..n |-> IF Later(k) THEN <<Space>> \o ss[k] ELSE ss[k]]
<1>1. Join(ss) = FlattenSeq(pp)
  BY DEF Join
<1>2. \A k \in 1..n : pp[k] = IF Later(k) THEN <<Space>> \o ss[k] ELSE ss[k]
  OBVIOUS
<1>3. \A k \in 1..n : ss[k] \in Seq(Token) /\ <<Space>> \o ss[k] \in Seq(Token)
  <2>1. <<Space>> \in Seq(Token)
    BY OneToken, MarksAre
  <2>2. \A k \in 1..n : ss[k] \in Seq(Token)
    BY DEF Normal
  <2> QED BY <2>1, <2>2, EndToEnd
<1>4. \A k \in 1..n : pp[k] \in Seq(Token)
  BY <1>2, <1>3
<1>5. Len(pp) = n
  <2>1. n \in Nat /\ pp \in [1..n -> Seq(Token)]
    BY <1>4
  <2> HIDE DEF n, pp
  <2> QED BY <2>1, FunIsSeq
<1> HIDE DEF pp
<1>6. \E f : /\ f[1] = pp[1] /\ \A k \in 1..n : k # 1 => f[k] = f[k - 1] \o pp[k]
             /\ FlattenSeq(pp) = f[n] /\ \A k \in 1..n : f[k] \in Seq(Token)
  <2>1. Len(pp) \in Nat \ {0} /\ \A k \in 1..Len(pp) : pp[k] \in Seq(Token)
    BY <1>4, <1>5
  <2>2. \E f : /\ f[1] = pp[1] /\ \A k \in 1..Len(pp) : k # 1 => f[k] = f[k - 1] \o pp[k]
               /\ FlattenSeq(pp) = f[Len(pp)] /\ \A k \in 1..Len(pp) : f[k] \in Seq(Token)
    BY <2>1, FlattenUnfolds
  <2> QED BY <1>5, <2>2
<1>7. PICK f : /\ f[1] = pp[1] /\ \A k \in 1..n : k # 1 => f[k] = f[k - 1] \o pp[k]
               /\ FlattenSeq(pp) = f[n] /\ \A k \in 1..n : f[k] \in Seq(Token)
  BY <1>6
<1> DEFINE G == {k \in 1..n : Tidy(f[k]) /\ (k # n => EndsInStop(f[k]))}
<1>0. n \in Nat /\ n > 0 /\ 1 \in 1..n /\ n \in 1..n
  OBVIOUS
<1>8. 1 \in G
  <2>1. f[1] = ss[1]
    BY <1>0, <1>2, <1>7
  <2>2. Tidy(ss[1])
    BY <1>0, NormalIsTidy
  <2> QED BY <1>0, <2>1, <2>2
<1>9. ASSUME NEW k \in 1..n, k < n, k \in G PROVE k + 1 \in G
  <2>1. k + 1 \in 1..n /\ k + 1 # 1 /\ (k + 1) - 1 = k /\ k # n /\ 1 # n
    BY <1>0, <1>9
  <2>2. f[k + 1] = f[k] \o pp[k + 1]
    BY <1>7, <2>1
  <2>3. f[k] \in Seq(Token) /\ Tidy(f[k]) /\ EndsInStop(f[k])
    BY <1>7, <1>9, <2>1
  <2>4. Normal(ss[k + 1]) /\ ss[k + 1] \in Seq(Token) /\ (k + 1 # n => EndsInStop(ss[k + 1]))
    BY <1>3, <2>1
  <2>5. ss[1] # <<>>
    <3>1. Len(ss[1]) > 0 /\ ss[1] \in Seq(Token)
      BY <1>0, <1>3, <2>1 DEF EndsInStop
    <3> QED BY <3>1, TextIs
  <2>6. CASE ss[k + 1] = <<>>
    <3>1. pp[k + 1] = <<>>
      BY <1>2, <2>1, <2>6
    <3>2. f[k + 1] = f[k]
      BY <2>2, <2>3, <3>1, ConcatEmptySeq
    <3> QED BY <2>1, <2>3, <3>2
  <2>7. CASE ss[k + 1] # <<>>
    <3>1. 1 \in 1..(k + 1) - 1
      BY <2>1
    <3>2. pp[k + 1] = <<Space>> \o ss[k + 1]
      BY <1>2, <2>1, <2>5, <2>7, <3>1
    <3>3. Len(ss[k + 1]) > 0
      BY <2>4, <2>7, TextIs
    <3>4. f[k + 1] = f[k] \o (<<Space>> \o ss[k + 1])
      BY <2>2, <3>2
    <3>5. Tidy(f[k + 1]) /\ (EndsInStop(ss[k + 1]) => EndsInStop(f[k + 1]))
      BY <2>3, <2>4, <3>3, <3>4, TidyJoined
    <3> QED BY <2>1, <2>4, <3>5
  <2> QED BY <2>6, <2>7
<1>10. \A k \in 1..n : k \in G
  <2> HIDE DEF G, n
  <2> QED BY <1>0, <1>8, <1>9, OneByOne
<1> QED BY <1>0, <1>1, <1>7, <1>10

LEMMA WhitespaceTidies ==
  ASSUME NEW t \in Seq(Token), NoRuns(t)
  PROVE  whitespace(t) \in Seq(Token) /\ Tidy(whitespace(t))
<1> DEFINE ss == [k \in 1..Len(Sentences(t)) |-> NormalizeSentence(Sentences(t)[k])]
<1>1. whitespace(t) = Join(ss)
  BY DEF whitespace
<1>2. CASE t = <<>>
  <2>1. Len(Sentences(t)) = 0
    BY <1>2, EmptySeq DEF Sentences
  <2>2. ss \in [1..0 -> Seq(Token)]
    BY <2>1
  <2>3. ss = <<>>
    BY <2>2, FunIsSeq, EmptySeq
  <2>4. Join(<<>>) = <<>>
    <3>1. Len(<<>>) = 0
      BY EmptySeq
    <3> DEFINE pp == [k \in 1..Len(<<>>) |->
                 IF <<>>[k] # <<>> /\ \E j \in 1..k - 1 : <<>>[j] # <<>> THEN <<Space>> \o <<>>[k] ELSE <<>>[k]]
    <3>2. Join(<<>>) = FlattenSeq(pp)
      BY DEF Join
    <3>3. pp \in [1..0 -> Seq(Token)]
      BY <3>1
    <3> QED BY <3>2, <3>3, NoPieces
  <2> HIDE DEF ss
  <2>5. whitespace(t) = <<>> /\ Len(<<>>) = 0 /\ <<>> \in Seq(Token)
    BY <1>1, <2>3, <2>4, EmptySeq
  <2> QED BY <2>5 DEF Tidy
<1>3. CASE t # <<>>
  <2>1. PICK q, n : Begin(q, n, t)
    BY <1>3, SentencesBegin
  <2>2. n \in Nat \ {0} /\ Len(Sentences(t)) = n
    BY <2>1 DEF Begin
  <2>3. ASSUME NEW k \in 1..n
        PROVE  Normal(ss[k]) /\ (k # n => EndsInStop(ss[k]))
    <3> DEFINE s == Sentences(t)[k]
    <3>1. s \in Seq(Token) /\ Behind(s, Stops) /\ NoRuns(s) /\ (k # n => Over(s))
      BY <2>1, SentencesAreTexts, SentenceHasNoCommaBehindAStop, SentenceHasNoRuns, AllButTheLastAreOver
    <3>2. ss[k] = NormalizeSentence(s)
      BY <2>2
    <3> HIDE DEF s, ss
    <3>3. Behind(s, Firm)
      BY <3>1, BehindBoth DEF Firm, NoRuns
    <3> QED BY <3>1, <3>2, <3>3, NormalizedSentenceIs DEF Normal
  <2>4. Len(ss) = n
    <3>1. ss \in [1..n -> Seq(Token)]
      BY <2>2, <2>3 DEF Normal
    <3> HIDE DEF ss
    <3> QED BY <2>2, <3>1, FunIsSeq
  <2> HIDE DEF ss
  <2> QED BY <1>1, <2>2, <2>3, <2>4, JoinedTidily
<1> QED BY <1>2, <1>3

(* Without a seam, as the model says it. *)
LEMMA TidyHasNoSeams ==
  ASSUME NEW t \in Seq(Token), Tidy(t), NEW i \in DOMAIN t
  PROVE  /\ t[i] = Space => 1 < i /\ i < Len(t) /\ (t[i + 1] \notin Marks \/ Lone(t, i + 1))
         /\ t[i] = Comma => i \notin Starts(t) /\ (i < Len(t) => t[i + 1] = Space)
<1>1. i \in 1..Len(t) /\ Len(t) \in Nat
  BY TextIs
<1>2. ASSUME t[i] = Space, t[i + 1] \in Stops, t[i - 1] \in Stops, 1 < i, i < Len(t)
      PROVE  Lone(t, i + 1)
  <2>1. i - 1 \in Nat /\ i - 1 <= Len(t) /\ i + 1 \in Nat /\ i - 1 < i + 1 /\ i + 1 <= Len(t) + 1 /\ i + 1 \in 2..Len(t)
    BY <1>1, <1>2
  <2>2. \A k \in 1..Len(t) : i - 1 < k /\ k < i + 1 => t[k] = Space
    BY <1>1, <1>2
  <2>3. t[i + 1] # Space /\ t[i + 1] \in Marks /\ t[i] \in Marks
    BY <1>2, MarksAre DEF Marks
  <2>4. After(t, i - 1) = i + 1
    BY <2>1, <2>2, <2>3, AfterIsAt
  <2>5. (i - 1) + 1 = i
    BY <1>1
  <2>6. Ends(t, i - 1)
    BY <1>2, <2>3, <2>4, <2>5 DEF Ends, IsFullStop, IsWord
  <2>7. /\ i - 1 \in 1..(i + 1) - 1 /\ i - 1 \in (i - 1)..(i + 1) - 1 /\ i - 1 # (i + 1) - 1
        /\ \A k \in (i - 1) + 1..i - 1 : t[k] \in Stops
        /\ \A k \in (i - 1) + 1..(i + 1) - 1 : t[k] = Space
    BY <1>1, <1>2
  <2>8. i + 1 \in Starts(t)
    BY <2>1, <2>3, <2>6, <2>7 DEF Starts
  <2> QED BY <1>2, <2>8 DEF Lone
<1>3. ASSUME t[i] = Comma, i \in Starts(t) PROVE FALSE
  <2>1. 1 < i /\ t[i - 1] \notin Marks
    BY <1>1, <1>3 DEF Tidy
  <2>2. PICK m \in 1..i - 1 : t[m] \in Stops /\ \A k \in m + 1..i - 1 : t[k] = Space
    BY <1>3, <2>1, StopBefore
  <2>3. m = i - 1 \/ t[i - 1] = Space
    BY <1>1, <2>1, <2>2
  <2> QED BY <2>1, <2>2, <2>3 DEF Marks
<1> QED BY <1>1, <1>2, <1>3 DEF Tidy

(* u says t with other words, mark for mark. *)
SameMarks(u, t) ==
  /\ u \in Seq(Token) /\ t \in Seq(Token) /\ Len(u) = Len(t)
  /\ \A i \in 1..Len(t) : (t[i] \in Marks => u[i] = t[i]) /\ (t[i] \notin Marks => u[i] \notin Marks)

LEMMA SameMarksStayTidy ==
  ASSUME NEW u, NEW t, SameMarks(u, t), Tidy(t)
  PROVE  Tidy(u)
<1>1. /\ Len(u) \in Nat /\ Len(t) = Len(u)
      /\ \A i \in 1..Len(u) : (t[i] \in Marks => u[i] = t[i]) /\ (t[i] \notin Marks => u[i] \notin Marks)
  BY TextIs DEF SameMarks
<1>2. \A i \in 1..Len(u) : /\ u[i] = Space <=> t[i] = Space
                           /\ u[i] = Comma <=> t[i] = Comma
                           /\ u[i] \in Stops <=> t[i] \in Stops
                           /\ u[i] \in Marks <=> t[i] \in Marks
  BY <1>1 DEF Marks
<1>3. ASSUME NEW i \in 1..Len(u), u[i] = Space
      PROVE  /\ 1 < i /\ i < Len(u)
             /\ u[i + 1] \notin Marks \/ (u[i + 1] \in Stops /\ u[i - 1] \in Stops)
  <2>1. /\ 1 < i /\ i < Len(u)
        /\ t[i + 1] \notin Marks \/ (t[i + 1] \in Stops /\ t[i - 1] \in Stops)
    BY <1>1, <1>2, <1>3 DEF Tidy
  <2>2. i + 1 \in 1..Len(u) /\ i - 1 \in 1..Len(u)
    BY <1>1, <2>1
  <2> QED BY <1>2, <2>1, <2>2
<1>4. ASSUME NEW i \in 1..Len(u), u[i] = Comma
      PROVE  1 < i /\ u[i - 1] \notin Marks /\ (i < Len(u) => u[i + 1] = Space)
  <2>1. 1 < i /\ t[i - 1] \notin Marks /\ (i < Len(u) => t[i + 1] = Space)
    BY <1>1, <1>2, <1>4 DEF Tidy
  <2>2. i - 1 \in 1..Len(u) /\ (i < Len(u) => i + 1 \in 1..Len(u))
    BY <1>1, <2>1
  <2> QED BY <1>2, <2>1, <2>2
<1> QED BY <1>3, <1>4 DEF Tidy

LEMMA SameMarksNoRuns ==
  ASSUME NEW u, NEW t, SameMarks(u, t), NoRuns(t)
  PROVE  NoRuns(u)
<1>1. /\ Len(u) \in Nat /\ Len(t) = Len(u)
      /\ \A i \in 1..Len(u) : (t[i] \in Marks => u[i] = t[i]) /\ (t[i] \notin Marks => u[i] \notin Marks)
  BY TextIs DEF SameMarks
<1>2. \A i \in 1..Len(u) : (u[i] = Comma <=> t[i] = Comma) /\ (t[i] \notin Loose => u[i] \notin Loose)
  BY <1>1 DEF Marks, Loose
<1> SUFFICES ASSUME NEW i \in 1..Len(u), NEW j \in 1..Len(u), i < j, u[i] = Comma, u[j] = Comma
             PROVE  \E k \in i + 1..j - 1 : u[k] \notin Loose
  BY DEF NoRuns, Behind
<1>3. PICK k \in i + 1..j - 1 : t[k] \notin Loose
  BY <1>1, <1>2 DEF NoRuns, Behind
<1>4. k \in 1..Len(u)
  BY <1>1
<1> QED BY <1>2, <1>3, <1>4

-----------------------------------------------------------------------------
(* The rules that change words where they are.                             *)
LEMMA FirstWordsAreWords ==
  ASSUME NEW t \in Seq(Token)
  PROVE  /\ FirstWords(t) \subseteq Words(t)
         /\ \A x \in FirstWords(t) : \E s \in Starts(t) :
              s <= x /\ x <= EndOf(t, s) /\ \A y \in Words(t) : s <= y /\ y <= EndOf(t, s) => x <= y
<1> SUFFICES ASSUME NEW s \in Starts(t), WordsOf(t, s) # {}
             PROVE  /\ Min(WordsOf(t, s)) \in WordsOf(t, s)
                    /\ \A y \in WordsOf(t, s) : Min(WordsOf(t, s)) <= y
  BY DEF FirstWords, WordsOf
<1>1. WordsOf(t, s) \subseteq Nat
  BY TextIs DEF WordsOf, Words
<1> QED BY <1>1, MinIs

LEMMA TermsAreWords ==
  /\ ListedTerms = {"kes", "cache"}
  /\ \A x \in ListedTerms : x \notin MarkNames /\ Canonical[x] = "cache"
  /\ "cache" \in ListedTerms /\ Word("cache") \in Token \ Marks /\ Word("cache")[1] = "cache"
<1>1. ListedTerms = {"kes", "cache"} /\ \A x \in ListedTerms : Canonical[x] = "cache"
  BY DEF ListedTerms, Canonical
<1>2. \A x \in {"kes", "cache"} : x \notin MarkNames
  BY DEF MarkNames
<1>3. Word("cache")[1] = "cache" /\ Word("cache")[2] = FALSE
  BY DEF Word
<1>4. Word("cache") \in AllNames \X BOOLEAN
  <2>1. "cache" \in AllNames
    BY DEF AllNames
  <2> QED BY <2>1 DEF Word
<1>5. Word("cache") \in Token
  BY <1>3, <1>4 DEF Token
<1>6. "cache" \notin MarkNames
  BY <1>2
<1>7. Word("cache") \notin Marks
  BY <1>3, <1>5, <1>6, MarksAre
<1> QED BY <1>1, <1>2, <1>3, <1>5, <1>7

LEMMA DictionaryKeepsMarks ==
  ASSUME NEW t \in Seq(Token)
  PROVE  /\ SameMarks(dictionary(t), t) /\ DOMAIN dictionary(t) = 1..Len(t)
         /\ \A i \in 1..Len(t) : dictionary(t)[i] = IF t[i][1] \in ListedTerms THEN Word("cache") ELSE t[i]
<1> DEFINE u == dictionary(t)
<1>1. Len(t) \in Nat /\ DOMAIN t = 1..Len(t) /\ \A i \in 1..Len(t) : t[i] \in Token
  BY TextIs
<1>2. u = [i \in 1..Len(t) |-> IF t[i][1] \in ListedTerms THEN Word("cache") ELSE t[i]]
  BY <1>1, TermsAreWords DEF dictionary
<1> HIDE DEF u
<1>3. u \in [1..Len(t) -> Token]
  BY <1>1, <1>2, TermsAreWords
<1>4. u \in Seq(Token) /\ Len(u) = Len(t) /\ DOMAIN u = 1..Len(t)
  BY <1>1, <1>3, FunIsSeq
<1>5. \A i \in 1..Len(t) : u[i] = IF t[i][1] \in ListedTerms THEN Word("cache") ELSE t[i]
  BY <1>2
<1>6. \A i \in 1..Len(t) : t[i] \in Marks => t[i][1] \notin ListedTerms
  BY <1>1, MarksAre, TermsAreWords
<1>7. \A i \in 1..Len(t) : (t[i] \in Marks => u[i] = t[i]) /\ (t[i] \notin Marks => u[i] \notin Marks)
  BY <1>5, <1>6, TermsAreWords
<1> QED BY <1>4, <1>5, <1>7 DEF SameMarks, u

LEMMA CasingKeepsMarks ==
  ASSUME NEW t \in Seq(Token)
  PROVE  /\ SameMarks(casing(t), t)
         /\ \A i \in 1..Len(t) :
              casing(t)[i] = IF i \in FirstWords(t) /\ t[i][1] \notin ListedTerms THEN Capital(t[i][1]) ELSE t[i]
         /\ \A i \in 1..Len(t) : casing(t)[i][1] = t[i][1]
<1> DEFINE u == casing(t)
<1>1. Len(t) \in Nat /\ DOMAIN t = 1..Len(t) /\ \A i \in 1..Len(t) : t[i] \in Token
  BY TextIs
<1>2. u = [i \in 1..Len(t) |-> IF i \in FirstWords(t) /\ t[i][1] \notin ListedTerms THEN Capital(t[i][1]) ELSE t[i]]
  BY <1>1 DEF casing
<1>3. \A i \in 1..Len(t) : i \in FirstWords(t) => t[i][1] \notin MarkNames
  BY <1>1, FirstWordsAreWords, MarksAre DEF Words
<1>4. \A x : Capital(x)[1] = x /\ Capital(x)[2] = TRUE
  BY DEF Capital
<1>5. ASSUME NEW i \in 1..Len(t), i \in FirstWords(t)
      PROVE  Capital(t[i][1]) \in Token /\ Capital(t[i][1]) \notin Marks
  <2>1. t[i][1] \in AllNames
    BY <1>1 DEF Token
  <2>2. Capital(t[i][1]) \in AllNames \X BOOLEAN
    BY <2>1 DEF Capital
  <2>3. Capital(t[i][1]) \in Token
    BY <1>3, <1>4, <1>5, <2>2 DEF Token
  <2> QED BY <1>3, <1>4, <1>5, <2>3, MarksAre
<1> HIDE DEF u
<1>6. \A i \in 1..Len(t) : u[i] = IF i \in FirstWords(t) /\ t[i][1] \notin ListedTerms THEN Capital(t[i][1]) ELSE t[i]
  BY <1>2
<1>7. u \in [1..Len(t) -> Token]
  BY <1>1, <1>2, <1>5
<1>8. u \in Seq(Token) /\ Len(u) = Len(t)
  BY <1>1, <1>7, FunIsSeq
<1>9. \A i \in 1..Len(t) : (t[i] \in Marks => u[i] = t[i]) /\ (t[i] \notin Marks => u[i] \notin Marks)
  <2>1. \A i \in 1..Len(t) : i \in FirstWords(t) => t[i] \notin Marks
    BY FirstWordsAreWords DEF Words
  <2> QED BY <1>5, <1>6, <2>1
<1>10. \A i \in 1..Len(t) : u[i][1] = t[i][1]
  BY <1>4, <1>6
<1> QED BY <1>6, <1>8, <1>9, <1>10 DEF SameMarks, u

(* A first word that gets its capital ends no sentence before it.          *)
LEMMA CasingEndsNothing ==
  ASSUME NEW t \in Seq(Token), NEW i \in 1..Len(t)
  PROVE  Ends(casing(t), i) <=> Ends(t, i)
<1> DEFINE u == casing(t)
<1>1. /\ u \in Seq(Token) /\ Len(u) = Len(t) /\ Len(t) \in Nat
      /\ \A k \in 1..Len(t) : (t[k] \in Marks => u[k] = t[k]) /\ (t[k] \notin Marks => u[k] \notin Marks)
      /\ \A k \in 1..Len(t) :
           u[k] = IF k \in FirstWords(t) /\ t[k][1] \notin ListedTerms THEN Capital(t[k][1]) ELSE t[k]
      /\ \A k \in 1..Len(t) : u[k][1] = t[k][1]
  BY CasingKeepsMarks, TextIs DEF SameMarks
<1> HIDE DEF u
<1> DEFINE x == After(t, i)
<1>2. /\ x \in Nat /\ i < x /\ x <= Len(t) + 1
      /\ \A k \in 1..Len(t) : i < k /\ k < x => t[k] = Space
      /\ x <= Len(t) => t[x] # Space
  BY <1>1, AfterIs
<1>3. After(u, i) = x
  <2>1. \A k \in 1..Len(t) : u[k] = Space <=> t[k] = Space
    BY <1>1 DEF Marks
  <2>2. x <= Len(t) => x \in 1..Len(t)
    BY <1>2
  <2> HIDE DEF x
  <2>3. /\ i \in Nat /\ i <= Len(u) /\ x \in Nat /\ i < x /\ x <= Len(u) + 1
        /\ \A k \in 1..Len(u) : i < k /\ k < x => u[k] = Space
        /\ x <= Len(u) => u[x] # Space
    BY <1>1, <1>2, <2>1, <2>2
  <2> QED BY <1>1, <2>3, AfterIsAt
<1> HIDE DEF x
<1>4. \A k : IsWord(u, k) <=> IsWord(t, k)
  BY <1>1, WordsAre
<1>5. /\ u[i] \in Stops <=> t[i] \in Stops
      /\ u[i] = Word(".") <=> t[i] = Word(".")
  <2>1. Word(".") \in Marks
    BY DEF Marks, Stops
  <2> QED BY <1>1, <2>1 DEF Marks
<1>6. \A k : IsWord(t, k) => k \in 1..Len(t) /\ u[k][1] = t[k][1]
  BY <1>1, WordsAre
<1>7. ASSUME Ends(t, i) PROVE Ends(u, i)
  <2>1. ASSUME IsWord(t, x), ~u[x][2] PROVE ~t[x][2]
    <3>1. x \in 1..Len(t)
      BY <1>6, <2>1
    <3>2. u[x] = t[x] \/ u[x] = Capital(t[x][1])
      BY <1>1, <3>1
    <3>3. Capital(t[x][1])[2] = TRUE
      BY DEF Capital
    <3> QED BY <2>1, <3>2, <3>3
  <2> QED BY <1>3, <1>4, <1>5, <1>6, <1>7, <2>1 DEF Ends, IsFullStop, x
<1>8. ASSUME Ends(u, i), ~Ends(t, i) PROVE FALSE
  <2>1. /\ t[i] = Word(".") /\ t[i] \in Stops /\ IsWord(t, i - 1) /\ IsWord(t, x)
        /\ ~t[x][2] /\ u[x][2]
    BY <1>3, <1>4, <1>5, <1>6, <1>8 DEF Ends, IsFullStop, x
  <2>2. x \in 1..Len(t) /\ i - 1 \in 1..Len(t) /\ i - 1 < x
    BY <1>2, <1>6, <2>1
  <2>3. x \in FirstWords(t)
    <3>1. u[x] # t[x]
      BY <2>1
    <3> QED BY <1>1, <2>2, <3>1
  <2>4. PICK s \in Starts(t) : s <= x /\ x <= EndOf(t, s) /\
               \A y \in Words(t) : s <= y /\ y <= EndOf(t, s) => x <= y
    BY <2>3, FirstWordsAreWords
  <2>5. s \in 1..Len(t) /\ EndOf(t, s) \in s..Len(t)
    <3>1. s \in Nat /\ s >= 1 /\ s <= Len(t)
      BY <1>1, <2>2, <2>4, StartsAre
    <3> QED BY <1>1, <3>1, EndIs
  <2>6. i - 1 \in Words(t) /\ t[i - 1] \notin Marks
    BY <2>1, WordsAre
  <2>7. ~(s <= i - 1)
    BY <2>2, <2>4, <2>5, <2>6
  <2>8. s # 1 /\ i <= s
    BY <2>2, <2>5, <2>7
  <2>9. t[s] # Space
    BY <2>8, StartsAre
  <2>10. s = i \/ s = x
    <3>1. ~(i < s /\ s < x)
      BY <1>2, <2>5, <2>9
    <3> QED BY <1>2, <2>4, <2>5, <2>8, <3>1
  <2>11. CASE s = i
    <3>1. PICK m \in 1..s - 1 : t[m] \in Stops /\ \A k \in m + 1..s - 1 : t[k] = Space
      BY <2>8, StopBefore
    <3>2. m = i - 1 \/ t[i - 1] = Space
      BY <2>2, <2>11, <3>1
    <3> QED BY <2>6, <3>1, <3>2 DEF Marks
  <2>12. CASE s = x
    <3>1. PICK j \in 1..x - 1 : /\ Ends(t, j)
            /\ \E m \in j..x - 1 : /\ \A k \in j + 1..m : t[k] \in Stops
                                   /\ \A k \in m + 1..x - 1 : t[k] = Space
      <4>1. x # 1 /\ x \in Starts(t)
        BY <2>8, <2>12
      <4> QED BY <4>1 DEF Starts
    <3>2. PICK m \in j..x - 1 : /\ \A k \in j + 1..m : t[k] \in Stops
                                /\ \A k \in m + 1..x - 1 : t[k] = Space
      BY <3>1
    <3>3. t[j] \in Stops
      BY <3>1 DEF Ends
    <3>4. m \in 1..Len(t) /\ j \in 1..Len(t) /\ t[m] \in Stops
      <4>1. m = j \/ m \in j + 1..m
        BY <2>2
      <4> QED BY <2>2, <3>2, <3>3, <4>1
    <3>5. ~(i < m)
      <4>1. m < x /\ t[m] # Space
        BY <2>2, <3>4, MarksAre
      <4> QED BY <1>2, <3>4, <4>1
    <3>6. ~(m < i)
      <4> SUFFICES ASSUME m < i PROVE FALSE
        OBVIOUS
      <4>1. i \in m + 1..x - 1
        BY <1>2, <3>4
      <4> QED BY <2>1, <3>2, <4>1, MarksAre
    <3>7. m = i
      BY <3>4, <3>5, <3>6
    <3>8. j = i
      <4> SUFFICES ASSUME j < i PROVE FALSE
        BY <3>2, <3>7
      <4>1. i - 1 = j \/ i - 1 \in j + 1..m
        BY <3>4, <3>7
      <4>2. t[i - 1] \in Stops
        BY <3>2, <3>3, <4>1
      <4> QED BY <2>6, <4>2 DEF Marks
    <3> QED BY <1>8, <3>1, <3>8
  <2> QED BY <2>10, <2>11, <2>12
<1> QED BY <1>7, <1>8 DEF u

LEMMA CasingKeepsFirstWords ==
  ASSUME NEW t \in Seq(Token)
  PROVE  FirstWords(casing(t)) = FirstWords(t)
<1> DEFINE u == casing(t)
<1>1. /\ u \in Seq(Token) /\ Len(u) = Len(t) /\ Len(t) \in Nat
      /\ \A k \in 1..Len(t) : (t[k] \in Marks => u[k] = t[k]) /\ (t[k] \notin Marks => u[k] \notin Marks)
  BY CasingKeepsMarks, TextIs DEF SameMarks
<1>2. \A i \in 1..Len(t) : Ends(u, i) <=> Ends(t, i)
  BY CasingEndsNothing
<1> HIDE DEF u
<1>3. \A k \in 1..Len(t) : (u[k] = Space <=> t[k] = Space) /\ (u[k] \in Stops <=> t[k] \in Stops)
  BY <1>1 DEF Marks
<1> DEFINE Begins(v, i) == v[i] # Space /\ \E j \in 1..i - 1 :
             /\ Ends(v, j)
             /\ \E m \in j..i - 1 : /\ \A k \in j + 1..m : v[k] \in Stops
                                    /\ \A k \in m + 1..i - 1 : v[k] = Space
                                    /\ m = i - 1 => v[i] \notin Stops
<1>4. ASSUME NEW i \in 2..Len(t) PROVE Begins(u, i) <=> Begins(t, i)
  <2>1. ASSUME NEW j \in 1..i - 1, NEW m \in j..i - 1
        PROVE  /\ Ends(u, j) <=> Ends(t, j)
               /\ (\A k \in j + 1..m : u[k] \in Stops) <=> (\A k \in j + 1..m : t[k] \in Stops)
               /\ (\A k \in m + 1..i - 1 : u[k] = Space) <=> (\A k \in m + 1..i - 1 : t[k] = Space)
    <3>1. j \in 1..Len(t) /\ \A k \in j + 1..m : k \in 1..Len(t)
      BY <1>1
    <3>2. \A k \in m + 1..i - 1 : k \in 1..Len(t)
      BY <1>1
    <3> QED BY <1>2, <1>3, <3>1, <3>2
  <2>2. i \in 1..Len(t)
    OBVIOUS
  <2> QED BY <1>3, <2>1, <2>2
<1>5. Starts(u) = Starts(t)
  <2>1. \A v : Starts(v) = {1} \union {i \in 2..Len(v) : Begins(v, i)}
    BY DEF Starts
  <2>2. Starts(u) = {1} \union {i \in 2..Len(t) : Begins(u, i)}
    BY <1>1, <2>1
  <2>3. Starts(t) = {1} \union {i \in 2..Len(t) : Begins(t, i)}
    BY <2>1
  <2> HIDE DEF Begins
  <2> QED BY <1>4, <2>2, <2>3
<1>6. Words(u) = Words(t)
  <2>1. \A i : i \in Words(u) <=> i \in Words(t)
    BY <1>1, WordsAre
  <2> QED BY <2>1
<1>7. \A s : EndOf(u, s) = EndOf(t, s)
  BY <1>1, <1>5 DEF EndOf
<1>8. \A s : WordsOf(u, s) = WordsOf(t, s)
  BY <1>6, <1>7 DEF WordsOf
<1> QED BY <1>5, <1>8 DEF FirstWords, u

(* cleanup.rs:28-32: in the end the word a sentence begins with is capital *)
(* or a term.                                                              *)
LEMMA CasingBeginsWell ==
  ASSUME NEW t \in Seq(Token), NEW i \in FirstWords(casing(t))
  PROVE  casing(t)[i][2] \/ casing(t)[i][1] \in ListedTerms
<1>1. i \in FirstWords(t) /\ i \in 1..Len(t)
  BY CasingKeepsFirstWords, FirstWordsAreWords, TextIs DEF Words
<1>2. /\ casing(t)[i] = IF t[i][1] \notin ListedTerms THEN Capital(t[i][1]) ELSE t[i]
      /\ casing(t)[i][1] = t[i][1]
  BY <1>1, CasingKeepsMarks
<1>3. Capital(t[i][1])[2] = TRUE
  BY DEF Capital
<1> QED BY <1>2, <1>3

-----------------------------------------------------------------------------
(* No rule brings two commas together.                                     *)
LEMMA BehindWhatStays ==
  ASSUME NEW u \in Seq(Token), NEW t \in Seq(Token), NEW e, NEW K, Picks(u, t, e, K), NEW A,
         \A a, b \in 1..Len(t) : a \in K /\ b \in K /\ a < b /\ t[a] \in A /\ t[b] = Comma
           => \E k \in a + 1..b - 1 : k \in K /\ t[k] \notin Loose
  PROVE  Behind(u, A)
<1> SUFFICES ASSUME NEW i \in 1..Len(u), NEW j \in 1..Len(u), i < j, u[i] \in A, u[j] = Comma
             PROVE  \E k \in i + 1..j - 1 : u[k] \notin Loose
  BY DEF Behind
<1>1. /\ \A p \in 1..Len(u) : e[p] \in 1..Len(t) /\ e[p] \in K /\ u[p] = t[e[p]]
      /\ \A p, q \in 1..Len(u) : p < q <=> e[p] < e[q]
      /\ \A x \in 1..Len(t) : x \in K => \E p \in 1..Len(u) : e[p] = x
      /\ Len(u) \in Nat /\ Len(t) \in Nat
  BY PickedAre, TextIs
<1>2. PICK k \in e[i] + 1..e[j] - 1 : k \in K /\ t[k] \notin Loose
  BY <1>1
<1>3. k \in 1..Len(t) /\ e[i] < k /\ k < e[j]
  <2>1. e[i] \in 1..Len(t) /\ e[j] \in 1..Len(t) /\ Len(t) \in Nat
    BY <1>1
  <2> QED BY <2>1
<1>4. PICK p \in 1..Len(u) : e[p] = k
  BY <1>1, <1>2, <1>3
<1>5. i < p /\ p < j /\ u[p] = t[k]
  BY <1>1, <1>3, <1>4
<1> QED BY <1>2, <1>5

(* Whole sentences are cut: between what stays before one and the sentence *)
(* a stop stays.                                                           *)
Sentencewise(t, cuts) ==
  \E bad \in SUBSET Starts(t) : cuts = UNION {s..EndOf(t, s) : s \in bad}

LEMMA AStopStays ==
  ASSUME NEW t \in Seq(Token), NEW cuts, Sentencewise(t, cuts),
         NEW i \in 1..Len(t), i \notin cuts, t[i] # Space, NEW z \in 1..Len(t), z \in cuts, i < z
  PROVE  \E k \in i..z - 1 : t[k] \in Stops /\ k \notin cuts
<1>1. PICK bad : bad \in SUBSET Starts(t) /\ cuts = UNION {s..EndOf(t, s) : s \in bad}
  BY DEF Sentencewise
<1>2. \A x : x \in cuts <=> \E s \in bad : x \in s..EndOf(t, s)
  BY <1>1
<1>3. \A s \in bad : s \in Starts(t) /\ s \in Nat
  BY <1>1, StartsAre
<1>0. \A s \in bad : s <= Len(t) => EndOf(t, s) \in s..Len(t)
  BY <1>3, EndIs
<1> DEFINE N == {s \in bad : i < s /\ s <= z}
<1>4. Len(t) \in Nat
  BY TextIs
<1>5. N \subseteq Nat /\ N # {}
  <2>1. PICK s \in bad : z \in s..EndOf(t, s)
    BY <1>2
  <2>2. s \in Nat /\ s <= z /\ s <= Len(t) /\ EndOf(t, s) \in Nat /\ z <= EndOf(t, s)
    BY <1>0, <1>3, <1>4, <2>1
  <2>3. i < s
    <3>1. i \notin s..EndOf(t, s)
      BY <1>2
    <3> QED BY <2>2, <3>1
  <2> QED BY <1>3, <2>2, <2>3
<1>6. PICK s \in N : \A y \in N : s <= y
  <2> HIDE DEF N
  <2> QED BY <1>5, Smallest
<1>7. s \in bad /\ i < s /\ s <= z /\ s \in Nat /\ s # 1
  BY <1>3
<1>8. PICK m \in 1..s - 1 : t[m] \in Stops /\ \A k \in m + 1..s - 1 : t[k] = Space
  BY <1>3, <1>7, StopBefore
<1>9. i <= m
  <2> SUFFICES ASSUME m < i PROVE FALSE
    BY <1>7
  <2>1. i \in m + 1..s - 1
    BY <1>7
  <2> QED BY <1>8, <2>1
<1>10. m \notin cuts
  <2> SUFFICES ASSUME NEW r \in bad, m \in r..EndOf(t, r) PROVE FALSE
    BY <1>2
  <2>1. r \in Nat /\ r <= m /\ r <= Len(t)
    BY <1>3, <1>4, <1>7
  <2>2. EndOf(t, r) \in Nat /\ m <= EndOf(t, r)
    BY <1>0, <1>4, <2>1
  <2>3. CASE i < r
    <3>1. r \in N /\ r < s
      BY <1>7, <2>1, <2>3
    <3> QED BY <1>6, <1>7, <2>1, <3>1
  <2>4. CASE r <= i
    <3>1. i \in r..EndOf(t, r)
      BY <1>9, <2>1, <2>2, <2>4
    <3> QED BY <1>2, <3>1
  <2> QED BY <2>1, <2>3, <2>4
<1>11. m \in i..z - 1
  BY <1>7, <1>9
<1> QED BY <1>8, <1>10, <1>11

LEMMA HallucinationCuts ==
  ASSUME NEW t
  PROVE  \E bad \in SUBSET Starts(t) :
           /\ hallucination(t) = Without(t, UNION {s..EndOf(t, s) : s \in bad})
           /\ \A s \in bad : IsCanned(t, s)
<1> DEFINE bad == {s \in Starts(t) : IsCanned(t, s)}
<1>1. bad \in SUBSET Starts(t)
  OBVIOUS
<1>2. hallucination(t) = Without(t, UNION {s..EndOf(t, s) : s \in bad})
  BY DEF hallucination
<1> QED BY <1>1, <1>2

LEMMA HallucinationKeepsNoRuns ==
  ASSUME NEW t \in Seq(Token), NoRuns(t)
  PROVE  NoRuns(hallucination(t))
<1>1. PICK bad \in SUBSET Starts(t) : hallucination(t) = Without(t, UNION {s..EndOf(t, s) : s \in bad})
  BY HallucinationCuts
<1> DEFINE cuts == UNION {s..EndOf(t, s) : s \in bad}
           K == 1..Len(t) \ cuts
<1>2. Sentencewise(t, cuts)
  BY DEF Sentencewise
<1> HIDE DEF cuts
<1>3. PICK e : Picks(Without(t, cuts), t, e, K)
  BY Cut
<1>4. Without(t, cuts) \in Seq(Token)
  BY Cut
<1>5. ASSUME NEW a \in 1..Len(t), NEW b \in 1..Len(t), a \in K, b \in K, a < b, t[a] \in {Comma}, t[b] = Comma
      PROVE  \E k \in a + 1..b - 1 : k \in K /\ t[k] \notin Loose
  <2>1. PICK k \in a + 1..b - 1 : t[k] \notin Loose
    BY <1>5 DEF NoRuns, Behind
  <2>2. k \in 1..Len(t) /\ a < k /\ k < b /\ a \notin cuts /\ Len(t) \in Nat
    BY <1>5, TextIs
  <2>3. CASE k \in cuts
    <3>1. PICK m \in a..k - 1 : t[m] \in Stops /\ m \notin cuts
      <4>1. t[a] # Space
        BY <1>5, MarksAre
      <4> QED BY <1>2, <2>2, <2>3, <4>1, AStopStays
    <3>2. m # a /\ t[m] \notin Loose
      BY <1>5, <3>1, MarksAre DEF Loose
    <3>3. m \in a + 1..b - 1 /\ m \in K
      BY <2>2, <3>1, <3>2
    <3> QED BY <3>2, <3>3
  <2>4. CASE k \notin cuts
    BY <2>1, <2>2, <2>4
  <2> QED BY <2>3, <2>4
<1> HIDE DEF K
<1>6. NoRuns(Without(t, cuts))
  BY <1>3, <1>4, <1>5, BehindWhatStays DEF NoRuns
<1> QED BY <1>1, <1>6 DEF cuts

(* A word and the comma behind it: no other word.                          *)
LEMMA WithCommaIs ==
  ASSUME NEW t \in Seq(Token), NEW i \in 1..Len(t)
  PROVE  /\ i \in WithComma(t, i)
         /\ \A w \in 1..Len(t) : w \in WithComma(t, i) => i <= w /\ (w = i \/ t[w] \in Loose)
         /\ After(t, i) <= Len(t) /\ t[After(t, i)] = Comma => After(t, i) \in WithComma(t, i)
<1> DEFINE x == After(t, i)
<1>1. /\ x \in Nat /\ i < x /\ x <= Len(t) + 1 /\ Len(t) \in Nat
      /\ \A k \in 1..Len(t) : i < k /\ k < x => t[k] = Space
  BY AfterIs, TextIs
<1>2. WithComma(t, i) = IF x <= Len(t) /\ t[x] = Comma THEN i..x ELSE {i}
  BY DEF WithComma
<1> HIDE DEF x
<1>3. ASSUME NEW w \in 1..Len(t), w \in WithComma(t, i) PROVE i <= w /\ (w = i \/ t[w] \in Loose)
  <2>1. CASE x <= Len(t) /\ t[x] = Comma
    <3>1. w \in i..x
      BY <1>2, <1>3, <2>1
    <3>2. w = i \/ w = x \/ (i < w /\ w < x)
      BY <1>1, <3>1
    <3> QED BY <1>1, <2>1, <3>1, <3>2 DEF Loose
  <2>2. CASE ~(x <= Len(t) /\ t[x] = Comma)
    BY <1>2, <1>3, <2>2
  <2> QED BY <2>1, <2>2
<1>4. i \in WithComma(t, i) /\ (x <= Len(t) /\ t[x] = Comma => x \in WithComma(t, i))
  BY <1>1, <1>2
<1> QED BY <1>3, <1>4 DEF x

LEMMA FillerKeepsNoRuns ==
  ASSUME NEW t \in Seq(Token), NoRuns(t)
  PROVE  NoRuns(filler(t))
<1> DEFINE F == {w \in Words(t) : t[w][1] \in Fillers}
           cuts == UNION {WithComma(t, i) : i \in F}
           K == 1..Len(t) \ cuts
<1>1. filler(t) = Without(t, cuts)
  BY DEF filler
<1>2. \A z : z \in cuts <=> \E i \in F : z \in WithComma(t, i)
  OBVIOUS
<1>3. \A i \in F : i \in 1..Len(t)
  BY WordsAre
<1> HIDE DEF F, cuts
<1>4. PICK e : Picks(Without(t, cuts), t, e, K)
  BY Cut
<1>5. Without(t, cuts) \in Seq(Token) /\ Len(t) \in Nat
  BY Cut, TextIs
<1>6. ASSUME NEW a \in 1..Len(t), NEW b \in 1..Len(t), a \in K, b \in K, a < b, t[a] = Comma, t[b] = Comma,
             ~\E k \in a + 1..b - 1 : k \in K /\ t[k] \notin Loose
      PROVE  FALSE
  <2> DEFINE N == {k \in a + 1..b - 1 : t[k] \notin Loose}
  <2>1. N # {}
    BY <1>6 DEF NoRuns, Behind
  <2>2. PICK w \in N : \A y \in N : y <= w
    <3>1. \A y \in N : y \in 0..Len(t)
      BY <1>5
    <3> HIDE DEF N
    <3> QED BY <1>5, <2>1, <3>1, Largest
  <2>3. w \in 1..Len(t) /\ a < w /\ w < b /\ t[w] \notin Loose /\ w \in cuts
    BY <1>5, <1>6
  <2>4. w \in F
    <3>1. PICK i \in F : w \in WithComma(t, i)
      BY <1>2, <2>3
    <3>2. w = i
      BY <1>3, <2>3, <3>1, WithCommaIs
    <3> QED BY <3>1, <3>2
  <2> DEFINE c == After(t, w)
  <2>5. /\ c \in Nat /\ w < c /\ \A k \in 1..Len(t) : w < k /\ k < c => t[k] = Space
        /\ c <= Len(t) => t[c] # Space
    BY <2>3, <1>5, AfterIs
  <2>6. c <= Len(t) /\ t[c] = Comma => c \in cuts
    BY <1>2, <2>3, <2>4, WithCommaIs
  <2> HIDE DEF c
  <2>7. c <= b
    BY <1>6, <2>3, <2>5, MarksAre
  <2>8. c # b
    BY <1>6, <2>6
  <2>9. c \in a + 1..b - 1 /\ c \in 1..Len(t) /\ t[c] \in Loose
    <3>1. c \in a + 1..b - 1 /\ c \in 1..Len(t)
      BY <2>3, <2>5, <2>7, <2>8
    <3>2. c \notin N
      BY <2>2, <2>3, <2>5
    <3> QED BY <3>1, <3>2
  <2>10. t[c] = Comma
    BY <2>5, <2>9 DEF Loose
  <2>11. PICK k \in c + 1..b - 1 : t[k] \notin Loose
    BY <1>6, <2>9, <2>10 DEF NoRuns, Behind
  <2>12. k \in N /\ w < k
    BY <2>3, <2>5, <2>9, <2>11
  <2> QED BY <2>2, <2>3, <2>12
<1> HIDE DEF K
<1>7. \A a, b \in 1..Len(t) : a \in K /\ b \in K /\ a < b /\ t[a] \in {Comma} /\ t[b] = Comma
           => \E k \in a + 1..b - 1 : k \in K /\ t[k] \notin Loose
  BY <1>6
<1>8. NoRuns(Without(t, cuts))
  BY <1>4, <1>5, <1>7, BehindWhatStays DEF NoRuns
<1> QED BY <1>1, <1>8

LEMMA CollapsedCommas ==
  ASSUME NEW t \in Seq(Token)
  PROVE  /\ CollapseCommas(t) \in Seq(Token) /\ NoRuns(CollapseCommas(t))
         /\ \E cuts : /\ CollapseCommas(t) = Without(t, cuts)
                      /\ \A i \in 1..Len(t) : i \in cuts => t[i] \in Loose
<1> DEFINE cuts == {i \in DOMAIN t : \E a, b \in DOMAIN t :
             /\ a < i /\ i <= b /\ t[a] = Comma /\ t[b] = Comma
             /\ \A k \in a..b : t[k] \in {Comma, Space}}
           K == 1..Len(t) \ cuts
<1>1. CollapseCommas(t) = Without(t, cuts)
  BY DEF CollapseCommas
<1>2. Len(t) \in Nat /\ DOMAIN t = 1..Len(t)
  BY TextIs
<1>3. \A i \in 1..Len(t) : i \in cuts <=> \E a, b \in 1..Len(t) :
             /\ a < i /\ i <= b /\ t[a] = Comma /\ t[b] = Comma
             /\ \A k \in a..b : t[k] \in Loose
  BY <1>2 DEF Loose
<1> HIDE DEF cuts
<1>4. \A i \in 1..Len(t) : i \in cuts => t[i] \in Loose
  <2> SUFFICES ASSUME NEW i \in 1..Len(t), i \in cuts PROVE t[i] \in Loose
    OBVIOUS
  <2>1. PICK a, b \in 1..Len(t) : a < i /\ i <= b /\ \A k \in a..b : t[k] \in Loose
    BY <1>3
  <2>2. i \in a..b
    BY <2>1
  <2> QED BY <2>1, <2>2
<1>5. PICK e : Picks(Without(t, cuts), t, e, K)
  BY Cut
<1>6. Without(t, cuts) \in Seq(Token)
  BY Cut
<1>7. ASSUME NEW a \in 1..Len(t), NEW b \in 1..Len(t), a \in K, b \in K, a < b, t[a] = Comma, t[b] = Comma,
             ~\E k \in a + 1..b - 1 : k \in K /\ t[k] \notin Loose
      PROVE  FALSE
  <2>1. \A k \in a..b : t[k] \in Loose
    <3> SUFFICES ASSUME NEW k \in a..b PROVE t[k] \in Loose
      OBVIOUS
    <3>1. CASE k = a \/ k = b
      BY <1>7, <3>1 DEF Loose
    <3>2. CASE k # a /\ k # b
      <4>1. k \in a + 1..b - 1 /\ k \in 1..Len(t)
        BY <1>2, <3>2
      <4> QED BY <1>4, <1>7, <4>1
    <3> QED BY <3>1, <3>2
  <2>2. b \in cuts
    BY <1>3, <1>7, <2>1
  <2> QED BY <1>7, <2>2
<1> HIDE DEF K
<1>8. \A a, b \in 1..Len(t) : a \in K /\ b \in K /\ a < b /\ t[a] \in {Comma} /\ t[b] = Comma
           => \E k \in a + 1..b - 1 : k \in K /\ t[k] \notin Loose
  BY <1>7
<1>9. NoRuns(Without(t, cuts))
  BY <1>5, <1>6, <1>8, BehindWhatStays DEF NoRuns
<1> QED BY <1>1, <1>4, <1>6, <1>9

-----------------------------------------------------------------------------
(* What question_mark leaves: the sentence to its last word, the mark, and *)
(* the spaces at its end.                                                  *)
Asked(r, s, last) ==
  /\ last \in 1..Len(s) /\ s[last] \notin Marks /\ \A i \in 1..Len(s) : last < i => s[i] \in Marks
  /\ r \in Seq(Token) /\ last + 1 \in 1..Len(r) /\ \A i \in 1..last : r[i] = s[i]
  /\ r[last + 1] = Word("?") /\ \A i \in 1..Len(r) : last + 1 < i => r[i] = Space

(* The length of what is behind the m-th of n tokens. *)
LEMMA RestIs ==
  ASSUME NEW m \in Nat, NEW n \in Nat, m <= n, NEW l, l = IF m + 1 <= n THEN n - (m + 1) + 1 ELSE 0
  PROVE  l = n - m
OBVIOUS

LEMMA QuestionMarkIs ==
  ASSUME NEW s \in Seq(Token)
  PROVE  QuestionMark(s) = s \/ \E last : Asked(QuestionMark(s), s, last)
<1> DEFINE solid == {i \in DOMAIN s : s[i] # Space}
           m     == IF solid = {} THEN 0 ELSE Max(solid)
           body  == SubSeq(s, 1, m)
           last  == Max(Words(body))
           A     == SubSeq(body, 1, last)
           B     == SubSeq(s, Len(body) + 1, Len(s))
           x     == <<Word("?")>>
           r     == A \o x \o B
<1>1. QuestionMark(s) = s \/ (body # <<>> /\ Words(body) # {} /\ QuestionMark(s) = r)
  BY DEF QuestionMark
<1> SUFFICES ASSUME body # <<>>, Words(body) # {} PROVE Asked(r, s, last)
  BY <1>1
<1>2. Len(s) \in Nat /\ DOMAIN s = 1..Len(s) /\ \A i \in 1..Len(s) : s[i] \in Token
  BY TextIs
<1>3. solid # {}
  <2> SUFFICES ASSUME solid = {} PROVE FALSE
    OBVIOUS
  <2>1. body = SubSeq(s, 1, 0)
    OBVIOUS
  <2>2. SubSeq(s, 1, 0) = <<>>
    BY SubSeqEmpty
  <2> HIDE DEF body
  <2> QED BY <2>1, <2>2
<1>4. m \in solid /\ \A i \in solid : i <= m
  <2>1. \A i \in solid : i \in 0..Len(s)
    BY <1>2
  <2>2. m = Max(solid)
    BY <1>3
  <2> HIDE DEF solid, m
  <2> QED BY <1>2, <1>3, <2>1, <2>2, MaxIs
<1>a. \A i : i \in solid <=> i \in 1..Len(s) /\ s[i] # Space
  BY <1>2
<1> HIDE DEF solid, m
<1>5. m \in 1..Len(s) /\ \A i \in 1..Len(s) : m < i => s[i] = Space
  <2>1. m \in 1..Len(s)
    BY <1>4, <1>a
  <2>2. ASSUME NEW i \in 1..Len(s), m < i, s[i] # Space PROVE FALSE
    <3>1. i <= m
      BY <1>4, <1>a, <2>2
    <3> QED BY <2>1, <2>2, <3>1
  <2> QED BY <2>1, <2>2
<1>6. body \in Seq(Token) /\ Len(body) = m /\ \A i \in 1..m : body[i] = s[i]
  <2>1. 1 \in Nat \ {0} /\ m \in Nat /\ m <= Len(s) /\ 1 <= m /\ m - 1 + 1 = m
    BY <1>2, <1>5
  <2>2. /\ body \in Seq(Token) /\ Len(body) = m - 1 + 1
        /\ \A i \in 1..m - 1 + 1 : body[i] = s[1 + i - 1]
    BY <2>1, PartIs
  <2> HIDE DEF body
  <2> QED BY <1>5, <2>1, <2>2
<1> HIDE DEF body
<1>7. /\ last \in 1..m /\ body[last] \notin Marks
      /\ \A i \in 1..m : last < i => body[i] \in Marks
  <2>1. \A i \in Words(body) : i \in 0..m
    BY <1>5, <1>6, WordsAre
  <2>2. last \in Words(body) /\ \A i \in Words(body) : i <= last
    <3>1. m \in Nat
      BY <1>5
    <3> QED BY <2>1, <3>1, MaxIs
  <2> HIDE DEF last
  <2>3. last \in 1..m /\ body[last] \notin Marks
    BY <1>6, <2>2, WordsAre
  <2>4. ASSUME NEW i \in 1..m, last < i, body[i] \notin Marks PROVE FALSE
    <3>1. i \in Words(body)
      BY <1>6, <2>4, WordsAre
    <3> QED BY <1>5, <2>2, <2>3, <2>4, <3>1
  <2> QED BY <2>3, <2>4
<1> HIDE DEF last
<1>8. /\ last \in 1..Len(s) /\ s[last] \notin Marks /\ \A i \in 1..Len(s) : last < i => s[i] \in Marks
  <2>1. last \in 1..Len(s) /\ s[last] \notin Marks
    BY <1>2, <1>5, <1>6, <1>7
  <2>2. ASSUME NEW i \in 1..Len(s), last < i PROVE s[i] \in Marks
    <3>1. CASE i <= m
      <4>1. i \in 1..m
        BY <1>5, <3>1
      <4> QED BY <1>6, <1>7, <2>2, <4>1
    <3>2. CASE m < i
      BY <1>5, <3>2 DEF Marks
    <3> QED BY <1>5, <3>1, <3>2
  <2> QED BY <2>1, <2>2
<1>9. A \in Seq(Token) /\ Len(A) = last /\ \A i \in 1..last : A[i] = s[i]
  <2>1. 1 \in Nat \ {0} /\ last \in Nat /\ last <= Len(body) /\ 1 <= last /\ last - 1 + 1 = last
    BY <1>5, <1>6, <1>7
  <2>2. /\ A \in Seq(Token) /\ Len(A) = last - 1 + 1
        /\ \A i \in 1..last - 1 + 1 : A[i] = body[1 + i - 1]
    BY <1>6, <2>1, PartIs
  <2>3. \A i \in 1..last : i \in 1..m /\ 1 + i - 1 = i
    BY <1>5, <1>7
  <2> HIDE DEF A
  <2> QED BY <1>6, <2>1, <2>2, <2>3
<1>10. B \in Seq(Token) /\ Len(B) \in Nat /\ \A i \in 1..Len(B) : B[i] = Space
  <2>1. m + 1 \in Int /\ Len(s) \in Int /\ \A i \in m + 1..Len(s) : s[i] \in Token /\ s[i] = Space
    BY <1>2, <1>5
  <2>2. /\ B \in Seq(Token) /\ Len(B) = IF m + 1 <= Len(s) THEN Len(s) - (m + 1) + 1 ELSE 0
        /\ \A i \in 1..Len(s) - (m + 1) + 1 : B[i] = s[(m + 1) + i - 1]
    BY <1>6, <2>1, SubSeqProperties
  <2> HIDE DEF B
  <2>3. Len(B) \in Nat
    BY <2>2, TextIs
  <2>4. ASSUME NEW i \in 1..Len(B) PROVE B[i] = Space
    <3>1. i \in 1..Len(s) - (m + 1) + 1 /\ (m + 1) + i - 1 \in m + 1..Len(s)
      <4>1. Len(B) = Len(s) - m
        <5>1. Len(B) = IF m + 1 <= Len(s) THEN Len(s) - (m + 1) + 1 ELSE 0
          BY <2>2
        <5>2. m \in Nat /\ m <= Len(s)
          BY <1>2, <1>5
        <5> HIDE DEF m, body
        <5> QED BY <1>2, <5>1, <5>2, RestIs
      <4> QED BY <1>2, <1>5, <4>1
    <3> QED BY <2>1, <2>2, <3>1
  <2> QED BY <2>2, <2>3, <2>4
<1>11. x \in Seq(Token) /\ Len(x) = 1 /\ x[1] = Word("?")
  <2>1. Word("?") \in Token
    BY MarksAre DEF Stops
  <2> QED BY <2>1, OneToken
<1> HIDE DEF A, B, x
<1> DEFINE c == A \o x
<1>12. /\ c \in Seq(Token) /\ Len(c) = last + 1 /\ \A i \in 1..last : c[i] = s[i]
       /\ c[last + 1] = Word("?")
  <2>1. /\ c \in Seq(Token) /\ Len(c) = Len(A) + Len(x) /\ \A i \in 1..Len(A) : c[i] = A[i]
        /\ \A i \in 1..Len(x) : c[Len(A) + i] = x[i]
    BY <1>9, <1>11, EndToEnd
  <2> HIDE DEF c
  <2> QED BY <1>9, <1>11, <2>1
<1>13. r = c \o B
  OBVIOUS
<1> HIDE DEF c, r
<1>14. /\ r \in Seq(Token) /\ Len(r) = Len(c) + Len(B) /\ \A i \in 1..Len(c) : r[i] = c[i]
       /\ \A i \in 1..Len(r) : i \in 1..Len(c) \/ (i - Len(c) \in 1..Len(B) /\ r[i] = B[i - Len(c)])
  <2>1. /\ c \o B \in Seq(Token) /\ Len(c \o B) = Len(c) + Len(B)
        /\ \A i \in 1..Len(c) : (c \o B)[i] = c[i]
    BY <1>10, <1>12, EndToEnd
  <2>2. \A i \in 1..Len(c \o B) : i \in 1..Len(c) \/ (i - Len(c) \in 1..Len(B) /\ (c \o B)[i] = B[i - Len(c)])
    BY <1>10, <1>12, EndToEnd
  <2> QED BY <1>13, <2>1, <2>2
<1>15. last + 1 \in 1..Len(r) /\ r[last + 1] = Word("?")
  <2>1. last + 1 \in 1..Len(c)
    BY <1>7, <1>12
  <2> QED BY <1>7, <1>10, <1>12, <1>14, <2>1
<1>16. \A i \in 1..last : r[i] = s[i]
  <2>1. \A i \in 1..last : i \in 1..Len(c)
    BY <1>7, <1>12
  <2> QED BY <1>12, <1>14, <2>1
<1>17. ASSUME NEW i \in 1..Len(r), last + 1 < i PROVE r[i] = Space
  <2>1. i \notin 1..Len(c)
    BY <1>7, <1>12, <1>17
  <2> QED BY <1>10, <1>14, <2>1
<1> QED BY <1>8, <1>14, <1>15, <1>16, <1>17 DEF Asked

(* Behind every comma there is more to come. *)
NoTrail(s) == \A j \in 1..Len(s) : s[j] = Comma => \E k \in j + 1..Len(s) : s[k] \notin Loose

LEMMA QuestionMarkKeepsCommas ==
  ASSUME NEW s \in Seq(Token), NoRuns(s)
  PROVE  /\ QuestionMark(s) \in Seq(Token) /\ NoRuns(QuestionMark(s))
         /\ Over(s) => NoTrail(QuestionMark(s))
<1> DEFINE r == QuestionMark(s)
<1>1. CASE r = s
  <2>1. ASSUME Over(s) PROVE NoTrail(s)
    <3>1. PICK m \in 1..Len(s) : s[m] \in Stops /\ \A k \in m + 1..Len(s) : s[k] = Space
      BY <2>1 DEF Over
    <3>2. s[m] \notin Loose
      BY <3>1, MarksAre DEF Loose
    <3> SUFFICES ASSUME NEW j \in 1..Len(s), s[j] = Comma PROVE \E k \in j + 1..Len(s) : s[k] \notin Loose
      BY DEF NoTrail
    <3>3. m # j /\ ~(m < j)
      BY <3>1, <3>2, MarksAre DEF Loose
    <3>4. m \in j + 1..Len(s)
      BY <3>3, TextIs
    <3> QED BY <3>2, <3>4
  <2> QED BY <1>1, <2>1
<1>2. CASE r # s
  <2>1. PICK last : Asked(r, s, last)
    BY <1>2, QuestionMarkIs
  <2> HIDE DEF r
  <2>2. /\ last \in 1..Len(s) /\ s[last] \notin Marks
        /\ r \in Seq(Token) /\ last + 1 \in 1..Len(r) /\ \A i \in 1..last : r[i] = s[i]
        /\ r[last + 1] = Word("?") /\ \A i \in 1..Len(r) : last + 1 < i => r[i] = Space
        /\ Len(s) \in Nat /\ Len(r) \in Nat
    BY <2>1, TextIs DEF Asked
  <2>3. Word("?") \in Stops /\ r[last + 1] \notin Loose
    <3>1. Word("?") \in Stops
      BY DEF Stops
    <3> QED BY <2>2, <3>1, MarksAre DEF Loose
  <2>4. \A j \in 1..Len(r) : r[j] = Comma => j \in 1..last
    <3> SUFFICES ASSUME NEW j \in 1..Len(r), r[j] = Comma PROVE j \in 1..last
      OBVIOUS
    <3>1. j # last + 1
      BY <2>3 DEF Loose
    <3>2. ~(last + 1 < j)
      BY <2>2, MarksAre
    <3> QED BY <2>2, <3>1, <3>2
  <2>5. NoRuns(r)
    <3> SUFFICES ASSUME NEW i \in 1..Len(r), NEW j \in 1..Len(r), i < j, r[i] = Comma, r[j] = Comma
                 PROVE  \E k \in i + 1..j - 1 : r[k] \notin Loose
      BY DEF NoRuns, Behind
    <3>1. i \in 1..last /\ j \in 1..last /\ i \in 1..Len(s) /\ j \in 1..Len(s) /\ s[i] = Comma /\ s[j] = Comma
      BY <2>2, <2>4
    <3>2. PICK k \in i + 1..j - 1 : s[k] \notin Loose
      BY <3>1 DEF NoRuns, Behind
    <3>3. k \in 1..last
      BY <2>2, <3>1
    <3> QED BY <2>2, <3>2, <3>3
  <2>6. NoTrail(r)
    <3> SUFFICES ASSUME NEW j \in 1..Len(r), r[j] = Comma PROVE \E k \in j + 1..Len(r) : r[k] \notin Loose
      BY DEF NoTrail
    <3>1. last + 1 \in j + 1..Len(r)
      BY <2>2, <2>4
    <3> QED BY <2>3, <3>1
  <2> QED BY <2>2, <2>5, <2>6 DEF r
<1> QED BY <1>1, <1>2

LEMMA NoRunsJoined ==
  ASSUME NEW a \in Seq(Token), NEW b \in Seq(Token), NoRuns(a), NoTrail(a), NoRuns(b)
  PROVE  a \o b \in Seq(Token) /\ NoRuns(a \o b) /\ (NoTrail(b) => NoTrail(a \o b))
<1> DEFINE c == a \o b
           A == Len(a)
<1>1. /\ c \in Seq(Token) /\ Len(c) = A + Len(b)
      /\ \A i \in 1..A : c[i] = a[i]
      /\ \A i \in 1..Len(b) : A + i \in 1..Len(c) /\ c[A + i] = b[i]
      /\ \A i \in 1..Len(c) : i \in 1..A \/ (i - A \in 1..Len(b) /\ c[i] = b[i - A])
      /\ A \in Nat /\ Len(b) \in Nat
  BY EndToEnd, TextIs
<1> HIDE DEF c
<1>2. ASSUME NEW i \in 1..A, c[i] = Comma PROVE \E k \in i + 1..A : c[k] \notin Loose
  <2>1. PICK k \in i + 1..A : a[k] \notin Loose
    BY <1>1, <1>2 DEF NoTrail
  <2> QED BY <1>1, <2>1
<1>3. NoRuns(c)
  <2> SUFFICES ASSUME NEW i \in 1..Len(c), NEW j \in 1..Len(c), i < j, c[i] = Comma, c[j] = Comma
               PROVE  \E k \in i + 1..j - 1 : c[k] \notin Loose
    BY DEF NoRuns, Behind
  <2>1. CASE j \in 1..A
    <3>1. i \in 1..A /\ a[i] = Comma /\ a[j] = Comma
      BY <1>1, <2>1
    <3>2. PICK k \in i + 1..j - 1 : a[k] \notin Loose
      BY <2>1, <3>1 DEF NoRuns, Behind
    <3>3. k \in 1..A
      BY <1>1, <2>1
    <3> QED BY <1>1, <3>2, <3>3
  <2>2. CASE i \in 1..A /\ j \notin 1..A
    <3>1. PICK k \in i + 1..A : c[k] \notin Loose
      BY <1>2, <2>2
    <3>2. k \in i + 1..j - 1
      BY <1>1, <2>2
    <3> QED BY <3>1, <3>2
  <2>3. CASE i \notin 1..A /\ j \notin 1..A
    <3> DEFINE x == i - A
               y == j - A
    <3>1. x \in 1..Len(b) /\ y \in 1..Len(b) /\ b[x] = Comma /\ b[y] = Comma /\ x < y /\ i = A + x /\ j = A + y
      BY <1>1, <2>3
    <3> HIDE DEF x, y
    <3>2. PICK k \in x + 1..y - 1 : b[k] \notin Loose
      BY <3>1 DEF NoRuns, Behind
    <3>3. k \in 1..Len(b) /\ A + k \in i + 1..j - 1
      BY <1>1, <3>1
    <3> QED BY <1>1, <3>2, <3>3
  <2> QED BY <1>1, <2>1, <2>2, <2>3
<1>4. ASSUME NoTrail(b) PROVE NoTrail(c)
  <2> SUFFICES ASSUME NEW j \in 1..Len(c), c[j] = Comma PROVE \E k \in j + 1..Len(c) : c[k] \notin Loose
    BY DEF NoTrail
  <2>1. CASE j \in 1..A
    <3>1. PICK k \in j + 1..A : c[k] \notin Loose
      BY <1>2, <2>1
    <3>2. k \in j + 1..Len(c)
      BY <1>1
    <3> QED BY <3>1, <3>2
  <2>2. CASE j \notin 1..A
    <3> DEFINE y == j - A
    <3>1. y \in 1..Len(b) /\ b[y] = Comma /\ j = A + y
      BY <1>1, <2>2
    <3> HIDE DEF y
    <3>2. PICK k \in y + 1..Len(b) : b[k] \notin Loose
      BY <1>4, <3>1 DEF NoTrail
    <3>3. k \in 1..Len(b) /\ A + k \in j + 1..Len(c)
      BY <1>1, <3>1
    <3> QED BY <1>1, <3>2, <3>3
  <2> QED BY <2>1, <2>2
<1> QED BY <1>1, <1>3, <1>4 DEF c

LEMMA PunctuationKeepsNoRuns ==
  ASSUME NEW t \in Seq(Token)
  PROVE  punctuation(t) \in Seq(Token) /\ NoRuns(punctuation(t))
<1> DEFINE v == CollapseCommas(t)
           ss == [k \in 1..Len(Sentences(v)) |-> QuestionMark(Sentences(v)[k])]
<1>1. v \in Seq(Token) /\ NoRuns(v)
  BY CollapsedCommas
<1>2. punctuation(t) = FlattenSeq(ss)
  BY DEF punctuation
<1> HIDE DEF v
<1>3. CASE v = <<>>
  <2>1. Len(Sentences(v)) = 0
    BY <1>3, EmptySeq DEF Sentences
  <2>2. ss \in [1..0 -> Seq(Token)]
    BY <2>1
  <2>3. FlattenSeq(ss) = <<>>
    BY <2>2, NoPieces
  <2> HIDE DEF ss
  <2>4. Len(<<>>) = 0 /\ <<>> \in Seq(Token)
    BY EmptySeq
  <2> QED BY <1>2, <2>3, <2>4 DEF NoRuns, Behind
<1>4. CASE v # <<>>
  <2>1. PICK q, n : Begin(q, n, v)
    BY <1>1, <1>4, SentencesBegin
  <2>2. n \in Nat \ {0} /\ Len(Sentences(v)) = n
    BY <2>1 DEF Begin
  <2>3. ASSUME NEW k \in 1..n
        PROVE  ss[k] \in Seq(Token) /\ NoRuns(ss[k]) /\ (k # n => NoTrail(ss[k]))
    <3> DEFINE s == Sentences(v)[k]
    <3>1. s \in Seq(Token) /\ NoRuns(s) /\ (k # n => Over(s))
      BY <1>1, <2>1, SentencesAreTexts, SentenceHasNoRuns, AllButTheLastAreOver
    <3>2. ss[k] = QuestionMark(s)
      BY <2>2
    <3> HIDE DEF s, ss
    <3> QED BY <3>1, <3>2, QuestionMarkKeepsCommas
  <2>4. Len(ss) = n
    <3>1. ss \in [1..n -> Seq(Token)]
      BY <2>2, <2>3
    <3> HIDE DEF ss
    <3> QED BY <2>2, <3>1, FunIsSeq
  <2> HIDE DEF ss
  <2>5. \E f : /\ f[1] = ss[1] /\ \A k \in 1..Len(ss) : k # 1 => f[k] = f[k - 1] \o ss[k]
               /\ FlattenSeq(ss) = f[Len(ss)] /\ \A k \in 1..Len(ss) : f[k] \in Seq(Token)
    BY <2>2, <2>3, <2>4, FlattenUnfolds
  <2>6. PICK f : /\ f[1] = ss[1] /\ \A k \in 1..n : k # 1 => f[k] = f[k - 1] \o ss[k]
                 /\ FlattenSeq(ss) = f[n] /\ \A k \in 1..n : f[k] \in Seq(Token)
    BY <2>4, <2>5
  <2> DEFINE G == {k \in 1..n : NoRuns(f[k]) /\ (k # n => NoTrail(f[k]))}
  <2>7. 1 \in G
    BY <2>2, <2>3, <2>6
  <2>8. ASSUME NEW k \in 1..n, k < n, k \in G PROVE k + 1 \in G
    <3>1. k + 1 \in 1..n /\ k + 1 # 1 /\ (k + 1) - 1 = k /\ k # n
      BY <2>2, <2>8
    <3>2. f[k + 1] = f[k] \o ss[k + 1] /\ f[k] \in Seq(Token) /\ NoRuns(f[k]) /\ NoTrail(f[k])
      BY <2>6, <2>8, <3>1
    <3>3. ss[k + 1] \in Seq(Token) /\ NoRuns(ss[k + 1]) /\ (k + 1 # n => NoTrail(ss[k + 1]))
      BY <2>3, <3>1
    <3>4. NoRuns(f[k + 1]) /\ (NoTrail(ss[k + 1]) => NoTrail(f[k + 1]))
      BY <3>2, <3>3, NoRunsJoined
    <3> QED BY <3>1, <3>3, <3>4
  <2> HIDE DEF G
  <2>9. \A k \in 1..n : k \in G
    BY <2>2, <2>7, <2>8, OneByOne
  <2>10. n \in 1..n
    BY <2>2
  <2> QED BY <1>2, <2>6, <2>9, <2>10 DEF G
<1> QED BY <1>3, <1>4

-----------------------------------------------------------------------------
(* The raw texts have no two commas with only spaces between them: at the  *)
(* level light no rule takes the second.                                   *)
RawTexts == \A t \in Inputs : t \in Seq(Token) /\ NoRuns(t)

BeginsWell(t) == \A i \in FirstWords(t) : t[i][2] \/ t[i][1] \in ListedTerms

(* What the rules have done to the marks when the rule r comes: commas in  *)
(* a row only from repeats to punctuation, no seam after whitespace, and   *)
(* capitals after casing.                                                  *)
Written ==
  /\ raw \in Inputs /\ level \in DOMAIN Levels /\ rule \in 1..9 /\ text \in Seq(Token)
  /\ rule \in 1..3 \/ rule \in 6..7 \/ level = "light" => NoRuns(text)
  /\ rule \in 8..9 => Tidy(text)
  /\ rule = 9 /\ level # "light" => BeginsWell(text)

(* The rules that run at a level. *)
LEMMA LevelsAre ==
  /\ DOMAIN Levels = {"light", "medium", "strict"} /\ Done = 9
  /\ Levels["light"] = 1 /\ Levels["medium"] = 2 /\ Levels["strict"] = 3
  /\ From(1) = 1 /\ From(2) = 1 /\ From(3) = 3 /\ From(4) = 3
  /\ From(5) = 2 /\ From(6) = 2 /\ From(7) = 1 /\ From(8) = 2
<1>1. DOMAIN Levels = {"light", "medium", "strict"}
  BY DEF Levels
<1>2. Done = 9
  BY DEF Done
<1>3. Levels["light"] = 1 /\ Levels["medium"] = 2 /\ Levels["strict"] = 3
  BY DEF Levels
<1>4. From(1) = 1 /\ From(2) = 1 /\ From(3) = 3 /\ From(4) = 3
  BY DEF From
<1>5. From(5) = 2 /\ From(6) = 2 /\ From(7) = 1 /\ From(8) = 2
  BY DEF From
<1> QED BY <1>1, <1>2, <1>3, <1>4, <1>5

(* One step of the pipeline: the rule runs from its level on. *)
LEMMA StepIs ==
  ASSUME Next, level \in DOMAIN Levels
  PROVE  /\ rule \in 1..8 /\ rule' = rule + 1 /\ raw' = raw /\ level' = level
         /\ rule = 1 => text' = hallucination(text)
         /\ rule = 2 => text' = filler(text)
         /\ rule = 3 => text' = IF level = "strict" THEN repeats(text) ELSE text
         /\ rule = 4 => text' = IF level = "strict" THEN particles(text) ELSE text
         /\ rule = 5 => text' = IF level = "light" THEN text ELSE punctuation(text)
         /\ rule = 6 => text' = IF level = "light" THEN text ELSE dictionary(text)
         /\ rule = 7 => text' = whitespace(text)
         /\ rule = 8 => text' = IF level = "light" THEN text ELSE casing(text)
<1>1. level \in {"light", "medium", "strict"}
  BY LevelsAre
<1>2. CASE Run(1, hallucination)
  BY <1>1, <1>2, LevelsAre DEF Run
<1>3. CASE Run(2, filler)
  BY <1>1, <1>3, LevelsAre DEF Run
<1>4. CASE Run(3, repeats)
  BY <1>1, <1>4, LevelsAre DEF Run
<1>5. CASE Run(4, particles)
  BY <1>1, <1>5, LevelsAre DEF Run
<1>6. CASE Run(5, punctuation)
  BY <1>1, <1>6, LevelsAre DEF Run
<1>7. CASE Run(6, dictionary)
  BY <1>1, <1>7, LevelsAre DEF Run
<1>8. CASE Run(7, whitespace)
  BY <1>1, <1>8, LevelsAre DEF Run
<1>9. CASE Run(8, casing)
  BY <1>1, <1>9, LevelsAre DEF Run
<1> QED BY <1>2, <1>3, <1>4, <1>5, <1>6, <1>7, <1>8, <1>9 DEF Next

LEMMA RulesWriteTexts ==
  ASSUME NEW t \in Seq(Token)
  PROVE  /\ hallucination(t) \in Seq(Token) /\ filler(t) \in Seq(Token)
         /\ repeats(t) \in Seq(Token) /\ particles(t) \in Seq(Token)
<1>1. hallucination(t) \in Seq(Token)
  BY Cut DEF hallucination
<1>2. filler(t) \in Seq(Token)
  BY Cut DEF filler
<1>3. repeats(t) \in Seq(Token)
  BY Cut DEF repeats
<1>4. particles(t) \in Seq(Token)
  BY Cut DEF particles
<1> QED BY <1>1, <1>2, <1>3, <1>4

LEMMA TidyHasNoRuns ==
  ASSUME NEW t \in Seq(Token), Tidy(t)
  PROVE  NoRuns(t)
<1> SUFFICES ASSUME NEW i \in 1..Len(t), NEW j \in 1..Len(t), i < j, t[i] = Comma, t[j] = Comma
             PROVE  \E k \in i + 1..j - 1 : t[k] \notin Loose
  BY DEF NoRuns, Behind
<1>1. 1 < j /\ t[j - 1] \notin Marks
  BY DEF Tidy
<1>2. t[j - 1] \notin Loose /\ t[j - 1] # Comma
  BY <1>1, MarksAre DEF Loose
<1>3. j - 1 # i
  BY <1>2
<1>4. j - 1 \in i + 1..j - 1
  BY <1>3, TextIs
<1> QED BY <1>2, <1>4

LEMMA WrittenAtFirst ==
  ASSUME RawTexts, Init
  PROVE  Written
BY DEF RawTexts, Init, Written

LEMMA WrittenStays ==
  ASSUME Written, Next
  PROVE  Written'
<1>1. /\ raw \in Inputs /\ level \in DOMAIN Levels /\ rule \in 1..9 /\ text \in Seq(Token)
      /\ rule \in 1..3 \/ rule \in 6..7 \/ level = "light" => NoRuns(text)
      /\ rule \in 8..9 => Tidy(text)
  BY DEF Written
<1>2. /\ rule \in 1..8 /\ rule' = rule + 1 /\ raw' = raw /\ level' = level
      /\ rule = 1 => text' = hallucination(text)
      /\ rule = 2 => text' = filler(text)
      /\ rule = 3 => text' = IF level = "strict" THEN repeats(text) ELSE text
      /\ rule = 4 => text' = IF level = "strict" THEN particles(text) ELSE text
      /\ rule = 5 => text' = IF level = "light" THEN text ELSE punctuation(text)
      /\ rule = 6 => text' = IF level = "light" THEN text ELSE dictionary(text)
      /\ rule = 7 => text' = whitespace(text)
      /\ rule = 8 => text' = IF level = "light" THEN text ELSE casing(text)
  BY <1>1, StepIs
<1>3. rule \in 1..2 \/ (rule \in 5..6 /\ level # "light") \/ level = "light" => NoRuns(text')
  <2>1. CASE rule = 1
    BY <1>1, <1>2, <2>1, HallucinationKeepsNoRuns
  <2>2. CASE rule = 2
    BY <1>1, <1>2, <2>2, FillerKeepsNoRuns
  <2>3. CASE rule = 5 /\ level # "light"
    BY <1>1, <1>2, <2>3, PunctuationKeepsNoRuns
  <2>4. CASE rule = 6 /\ level # "light"
    BY <1>1, <1>2, <2>4, DictionaryKeepsMarks, SameMarksNoRuns
  <2>5. CASE level = "light" /\ rule \in {3, 4, 5, 6, 8}
    BY <1>1, <1>2, <2>5
  <2>6. CASE rule = 7 /\ level = "light"
    BY <1>1, <1>2, <2>6, WhitespaceTidies, TidyHasNoRuns
  <2> QED BY <1>1, <1>2, <2>1, <2>2, <2>3, <2>4, <2>5, <2>6
<1>4. rule \in 7..8 => Tidy(text')
  <2>1. CASE rule = 7
    BY <1>1, <1>2, <2>1, WhitespaceTidies
  <2>2. CASE rule = 8 /\ level = "light"
    BY <1>1, <1>2, <2>2
  <2>3. CASE rule = 8 /\ level # "light"
    BY <1>1, <1>2, <2>3, CasingKeepsMarks, SameMarksStayTidy
  <2> QED BY <2>1, <2>2, <2>3
<1>5. rule = 8 /\ level # "light" => BeginsWell(text')
  BY <1>1, <1>2, CasingBeginsWell DEF BeginsWell
<1>6. text' \in Seq(Token)
  <2>1. CASE rule \in 1..4
    BY <1>1, <1>2, <2>1, RulesWriteTexts
  <2>2. CASE rule = 5
    BY <1>1, <1>2, <2>2, PunctuationKeepsNoRuns
  <2>3. CASE rule = 6
    BY <1>1, <1>2, <2>3, DictionaryKeepsMarks DEF SameMarks
  <2>4. CASE rule = 7
    BY <1>1, <1>2, <2>4, WhitespaceTidies
  <2>5. CASE rule = 8
    BY <1>1, <1>2, <2>5, CasingKeepsMarks DEF SameMarks
  <2> QED BY <1>2, <2>1, <2>2, <2>3, <2>4, <2>5
<1> QED BY <1>1, <1>2, <1>3, <1>4, <1>5, <1>6 DEF Written

LEMMA WrittenWell ==
  ASSUME Written
  PROVE  NoSeams /\ SentencesBeginWell
<1>1. NoSeams
  <2>1. rule = Done => Tidy(text) /\ text \in Seq(Token)
    BY LevelsAre DEF Written
  <2> QED BY <2>1, TidyHasNoSeams DEF NoSeams
<1>2. SentencesBeginWell
  BY LevelsAre DEF Written, BeginsWell, SentencesBeginWell
<1> QED BY <1>1, <1>2

-----------------------------------------------------------------------------
(* The name a word has once the dictionary has been at it. *)
Said(x) == IF x[1] \in ListedTerms THEN "cache" ELSE x[1]

(* The n words of t are at q, from left to right. *)
Lines(t, n, q) ==
  /\ n \in Nat
  /\ \A k \in 1..n : q[k] \in 1..Len(t) /\ t[q[k]] \notin Marks
  /\ Rises(q, n)
  /\ \A i \in 1..Len(t) : t[i] \notin Marks => \E k \in 1..n : q[k] = i

LEMMA SaidIsAName ==
  ASSUME NEW x \in Token
  PROVE  Said(x) \in AllNames
<1>1. "cache" \in AllNames
  BY DEF AllNames
<1>2. x[1] \in AllNames
  BY DEF Token
<1> QED BY <1>1, <1>2 DEF Said

LEMMA WordsLineUp ==
  ASSUME NEW t \in Seq(Token)
  PROVE  /\ Lines(t, Cardinality(Words(t)), InOrder(Words(t)))
         /\ Spoken(t) = [k \in 1..Cardinality(Words(t)) |-> Said(t[InOrder(Words(t))[k]])]
<1> DEFINE c == Cardinality(Words(t))
           q == InOrder(Words(t))
<1>1. Len(t) \in Nat /\ \A x \in Words(t) : x \in 1..Len(t)
  BY TextIs, WordsAre
<1>2. Lists(q, Words(t)) /\ c \in Nat
  BY <1>1, InOrderLists, RankGrows
<1>3. \A i : i \in Words(t) <=> i \in 1..Len(t) /\ t[i] \notin Marks
  BY WordsAre
<1>4. Lines(t, c, q)
  <2>1. \A k \in 1..c : q[k] \in 1..Len(t) /\ t[q[k]] \notin Marks
    BY <1>2, <1>3 DEF Lists
  <2>2. \A i \in 1..Len(t) : t[i] \notin Marks => \E k \in 1..c : q[k] = i
    BY <1>2, <1>3 DEF Lists
  <2>3. Rises(q, c)
    BY <1>2 DEF Lists
  <2> QED BY <1>2, <2>1, <2>2, <2>3 DEF Lines
<1>5. DOMAIN q = 1..c
  BY DEF InOrder
<1>6. Spoken(t) = [k \in 1..c |-> dictionary(t)[q[k]][1]]
  BY <1>5 DEF Spoken, Names
<1>7. ASSUME NEW k \in 1..c PROVE dictionary(t)[q[k]][1] = Said(t[q[k]])
  <2>1. q[k] \in 1..Len(t)
    BY <1>4 DEF Lines
  <2>2. dictionary(t)[q[k]] = IF t[q[k]][1] \in ListedTerms THEN Word("cache") ELSE t[q[k]]
    BY <2>1, DictionaryKeepsMarks
  <2> QED BY <2>2, TermsAreWords DEF Said
<1> HIDE DEF q, c
<1>8. Spoken(t) = [k \in 1..c |-> Said(t[q[k]])]
  BY <1>6, <1>7
<1> QED BY <1>4, <1>8 DEF c, q

LEMMA OnlyOneLine ==
  ASSUME NEW t \in Seq(Token), NEW n, NEW q, Lines(t, n, q), NEW m, NEW r, Lines(t, m, r)
  PROVE  n = m /\ \A k \in 1..n : q[k] = r[k]
<1>1. Len(t) \in Nat
  BY TextIs
<1>2. /\ n \in Nat /\ m \in Nat /\ Rises(q, n) /\ Rises(r, m)
      /\ \A k \in 1..n : q[k] \in 1..Len(t) /\ t[q[k]] \notin Marks
      /\ \A k \in 1..m : r[k] \in 1..Len(t) /\ t[r[k]] \notin Marks
      /\ \A i \in 1..Len(t) : t[i] \notin Marks => \E k \in 1..n : q[k] = i
      /\ \A i \in 1..Len(t) : t[i] \notin Marks => \E k \in 1..m : r[k] = i
  BY DEF Lines
<1>3. Within(q, n, r, m)
  <2>1. ASSUME NEW k \in 1..n PROVE q[k] \in Nat
    BY <1>1, <1>2
  <2>2. ASSUME NEW k \in 1..n PROVE \E l \in 1..m : r[l] = q[k]
    <3>1. q[k] \in 1..Len(t) /\ t[q[k]] \notin Marks
      BY <1>2
    <3> QED BY <1>2, <3>1
  <2> QED BY <2>1, <2>2 DEF Within
<1>4. Within(r, m, q, n)
  <2>1. ASSUME NEW k \in 1..m PROVE r[k] \in Nat
    BY <1>1, <1>2
  <2>2. ASSUME NEW k \in 1..m PROVE \E l \in 1..n : q[l] = r[k]
    <3>1. r[k] \in 1..Len(t) /\ t[r[k]] \notin Marks
      BY <1>2
    <3> QED BY <1>2, <3>1
  <2> QED BY <2>1, <2>2 DEF Within
<1> QED BY <1>2, <1>3, <1>4, ListedTheSame

(* What a text says, read off any list of its words. *)
LEMMA SpokenIs ==
  ASSUME NEW t \in Seq(Token), NEW n, NEW q, Lines(t, n, q)
  PROVE  /\ Spoken(t) = [k \in 1..n |-> Said(t[q[k]])]
         /\ Spoken(t) \in Seq(AllNames) /\ Len(Spoken(t)) = n /\ DOMAIN Spoken(t) = 1..n
         /\ \A k \in 1..n : Spoken(t)[k] = Said(t[q[k]])
<1>1. PICK m, r : /\ Lines(t, m, r) /\ Spoken(t) = [k \in 1..m |-> Said(t[r[k]])]
  BY WordsLineUp
<1>2. n = m /\ \A k \in 1..n : q[k] = r[k]
  BY <1>1, OnlyOneLine
<1>3. Spoken(t) = [k \in 1..n |-> Said(t[q[k]])]
  BY <1>1, <1>2
<1>4. \A k \in 1..n : Said(t[q[k]]) \in AllNames
  BY TextIs, SaidIsAName DEF Lines
<1>5. Spoken(t) \in [1..n -> AllNames]
  BY <1>3, <1>4
<1>6. n \in Nat
  BY DEF Lines
<1> QED BY <1>3, <1>5, <1>6, FunIsSeq

LEMMA SpokenIsASeq ==
  ASSUME NEW t \in Seq(Token)
  PROVE  Spoken(t) \in Seq(AllNames) /\ Len(Spoken(t)) \in Nat
<1>1. PICK n, q : Lines(t, n, q)
  BY WordsLineUp
<1>2. n \in Nat
  BY <1>1 DEF Lines
<1> QED BY <1>1, <1>2, SpokenIs

(* Two texts whose words stand in a row with the same names say the same. *)
LEMMA SayTheSame ==
  ASSUME NEW t \in Seq(Token), NEW u \in Seq(Token), NEW n, NEW q, NEW r, Lines(t, n, q), Lines(u, n, r),
         \A k \in 1..n : Said(t[q[k]]) = Said(u[r[k]])
  PROVE  Spoken(u) = Spoken(t)
<1>1. Spoken(t) = [k \in 1..n |-> Said(t[q[k]])]
  BY SpokenIs
<1>2. Spoken(u) = [k \in 1..n |-> Said(u[r[k]])]
  BY SpokenIs
<1> QED BY <1>1, <1>2

(* Cutting marks takes no word. *)
LEMMA CutsOfMarksSayTheSame ==
  ASSUME NEW t \in Seq(Token), NEW cuts, \A i \in 1..Len(t) : i \in cuts => t[i] \in Marks
  PROVE  Without(t, cuts) \in Seq(Token) /\ Spoken(Without(t, cuts)) = Spoken(t)
<1> DEFINE u == Without(t, cuts)
           K == 1..Len(t) \ cuts
<1>1. u \in Seq(Token)
  BY Cut
<1>2. PICK e : Picks(u, t, e, K)
  BY Cut
<1>3. \A i \in 1..Len(t) : t[i] \notin Marks => i \in K
  OBVIOUS
<1> HIDE DEF u, K
<1>4. PICK n, r : Lines(u, n, r)
  BY <1>1, WordsLineUp
<1>5. /\ n \in Nat /\ Rises(r, n)
      /\ \A k \in 1..n : r[k] \in 1..Len(u) /\ u[r[k]] \notin Marks
      /\ \A i \in 1..Len(u) : u[i] \notin Marks => \E k \in 1..n : r[k] = i
  BY <1>4 DEF Lines
<1>6. /\ \A p \in 1..Len(u) : e[p] \in 1..Len(t) /\ e[p] \in K /\ u[p] = t[e[p]]
      /\ \A p, q \in 1..Len(u) : p < q <=> e[p] < e[q]
      /\ \A i \in 1..Len(t) : i \in K => \E p \in 1..Len(u) : e[p] = i
  <2>1. /\ \A p \in 1..Len(u) : e[p] \in 1..Len(t) /\ e[p] \in K /\ u[p] = t[e[p]]
        /\ \A i \in 1..Len(t) : i \in K => \E p \in 1..Len(u) : e[p] = i
    BY <1>2 DEF Picks
  <2>2. \A p, q \in 1..Len(u) : p < q <=> e[p] < e[q]
    BY <1>1, <1>2, PickedAre
  <2> QED BY <2>1, <2>2
<1> DEFINE q == [k \in 1..n |-> e[r[k]]]
<1>7. Lines(t, n, q)
  <2>1. \A k \in 1..n : q[k] \in 1..Len(t) /\ t[q[k]] \notin Marks
    BY <1>5, <1>6
  <2>2. Rises(q, n)
    BY <1>5, <1>6 DEF Rises
  <2>3. ASSUME NEW i \in 1..Len(t), t[i] \notin Marks PROVE \E k \in 1..n : q[k] = i
    <3>1. PICK p \in 1..Len(u) : e[p] = i
      BY <1>3, <1>6, <2>3
    <3>2. u[p] \notin Marks
      BY <1>6, <2>3, <3>1
    <3>3. PICK k \in 1..n : r[k] = p
      BY <1>5, <3>2
    <3> QED BY <3>1, <3>3
  <2> HIDE DEF q
  <2> QED BY <1>5, <2>1, <2>2, <2>3 DEF Lines
<1>8. \A k \in 1..n : Said(t[q[k]]) = Said(u[r[k]])
  BY <1>5, <1>6
<1> HIDE DEF q
<1>9. Spoken(u) = Spoken(t)
  BY <1>1, <1>4, <1>7, <1>8, SayTheSame
<1> QED BY <1>1, <1>9 DEF u

(* Words that are written anew keep their places and their names. *)
LEMMA RewritingSaysTheSame ==
  ASSUME NEW u, NEW t, SameMarks(u, t), \A i \in 1..Len(t) : t[i] \notin Marks => Said(u[i]) = Said(t[i])
  PROVE  Spoken(u) = Spoken(t)
<1>1. /\ u \in Seq(Token) /\ t \in Seq(Token) /\ Len(u) = Len(t)
      /\ \A i \in 1..Len(t) : (t[i] \in Marks => u[i] = t[i]) /\ (t[i] \notin Marks => u[i] \notin Marks)
  BY DEF SameMarks
<1>2. PICK n, q : Lines(t, n, q)
  BY <1>1, WordsLineUp
<1>3. Lines(u, n, q)
  BY <1>1, <1>2 DEF Lines
<1>4. \A k \in 1..n : Said(t[q[k]]) = Said(u[q[k]])
  BY <1>2 DEF Lines
<1> QED BY <1>1, <1>2, <1>3, <1>4, SayTheSame

LEMMA DictionarySaysTheSame ==
  ASSUME NEW t \in Seq(Token)
  PROVE  Spoken(dictionary(t)) = Spoken(t)
<1>1. SameMarks(dictionary(t), t)
  BY DictionaryKeepsMarks
<1>2. ASSUME NEW i \in 1..Len(t) PROVE Said(dictionary(t)[i]) = Said(t[i])
  <2>1. dictionary(t)[i] = IF t[i][1] \in ListedTerms THEN Word("cache") ELSE t[i]
    BY DictionaryKeepsMarks
  <2> QED BY <2>1, TermsAreWords DEF Said
<1> QED BY <1>1, <1>2, RewritingSaysTheSame

LEMMA CasingSaysTheSame ==
  ASSUME NEW t \in Seq(Token)
  PROVE  Spoken(casing(t)) = Spoken(t)
<1>1. SameMarks(casing(t), t) /\ \A i \in 1..Len(t) : casing(t)[i][1] = t[i][1]
  BY CasingKeepsMarks
<1>2. \A i \in 1..Len(t) : Said(casing(t)[i]) = Said(t[i])
  BY <1>1 DEF Said
<1> QED BY <1>1, <1>2, RewritingSaysTheSame

-----------------------------------------------------------------------------
(* What two texts say end to end.                                          *)
LEMMA EndToEndSays ==
  ASSUME NEW a \in Seq(Token), NEW b \in Seq(Token)
  PROVE  Spoken(a \o b) = Spoken(a) \o Spoken(b)
<1> DEFINE A == Len(a)
           c == a \o b
<1>1. PICK n, q : Lines(a, n, q)
  BY WordsLineUp
<1>2. PICK m, r : Lines(b, m, r)
  BY WordsLineUp
<1>3. /\ n \in Nat /\ Rises(q, n)
      /\ \A k \in 1..n : q[k] \in 1..A /\ a[q[k]] \notin Marks
      /\ \A i \in 1..A : a[i] \notin Marks => \E k \in 1..n : q[k] = i
  BY <1>1 DEF Lines
<1>4. /\ m \in Nat /\ Rises(r, m)
      /\ \A k \in 1..m : r[k] \in 1..Len(b) /\ b[r[k]] \notin Marks
      /\ \A i \in 1..Len(b) : b[i] \notin Marks => \E k \in 1..m : r[k] = i
  BY <1>2 DEF Lines
<1>5. /\ c \in Seq(Token) /\ Len(c) = A + Len(b)
      /\ \A i \in 1..A : c[i] = a[i]
      /\ \A i \in 1..Len(b) : A + i \in 1..Len(c) /\ c[A + i] = b[i]
      /\ \A i \in 1..Len(c) : i \in 1..A \/ (i - A \in 1..Len(b) /\ c[i] = b[i - A])
  BY EndToEnd
<1>6. A \in Nat /\ Len(b) \in Nat /\ Len(c) \in Nat
  BY <1>5, TextIs
<1> HIDE DEF A, c
<1> DEFINE w == [k \in 1..n + m |-> IF k <= n THEN q[k] ELSE A + r[k - n]]
<1>7. /\ \A k \in 1..n : k \in 1..n + m /\ w[k] = q[k]
      /\ \A k \in 1..m : n + k \in 1..n + m /\ w[n + k] = A + r[k]
      /\ \A k \in 1..n + m : k \in 1..n \/ (k - n \in 1..m /\ w[k] = A + r[k - n] /\ ~(k <= n))
  <2>1. \A k \in 1..n : k \in 1..n + m /\ w[k] = q[k]
    BY <1>3, <1>4
  <2>2. ASSUME NEW k \in 1..m PROVE n + k \in 1..n + m /\ w[n + k] = A + r[k]
    <3>1. n + k \in 1..n + m /\ ~(n + k <= n) /\ (n + k) - n = k
      BY <1>3, <1>4
    <3> QED BY <3>1
  <2>3. ASSUME NEW k \in 1..n + m, k \notin 1..n PROVE k - n \in 1..m /\ w[k] = A + r[k - n] /\ ~(k <= n)
    <3>1. ~(k <= n) /\ k - n \in 1..m
      BY <1>3, <1>4, <2>3
    <3> QED BY <3>1
  <2> QED BY <2>1, <2>2, <2>3
<1> HIDE DEF w
<1>8. Lines(c, n + m, w)
  <2>1. ASSUME NEW k \in 1..n + m PROVE w[k] \in 1..Len(c) /\ c[w[k]] \notin Marks
    <3>1. CASE k \in 1..n
      <4>1. w[k] \in 1..A /\ a[w[k]] \notin Marks
        BY <1>3, <1>7, <3>1
      <4> QED BY <1>5, <1>6, <4>1
    <3>2. CASE k - n \in 1..m /\ w[k] = A + r[k - n]
      <4> DEFINE j == r[k - n]
      <4>1. j \in 1..Len(b) /\ b[j] \notin Marks /\ w[k] = A + j
        BY <1>4, <3>2
      <4> HIDE DEF j
      <4>2. A + j \in 1..Len(c) /\ c[A + j] = b[j]
        BY <1>5, <4>1
      <4> QED BY <4>1, <4>2
    <3> QED BY <1>7, <3>1, <3>2
  <2>2. ASSUME NEW k \in 1..n + m, NEW l \in 1..n + m, k < l PROVE w[k] < w[l]
    <3>1. CASE k \in 1..n /\ l \in 1..n
      BY <1>3, <1>7, <2>2, <3>1 DEF Rises
    <3>2. CASE k \in 1..n /\ l - n \in 1..m /\ w[l] = A + r[l - n]
      <4>1. w[k] \in 1..A /\ r[l - n] \in 1..Len(b)
        BY <1>3, <1>4, <1>7, <3>2
      <4> QED BY <1>6, <3>2, <4>1
    <3>3. CASE /\ k - n \in 1..m /\ w[k] = A + r[k - n]
               /\ l - n \in 1..m /\ w[l] = A + r[l - n]
      <4>1. k - n < l - n
        BY <1>3, <2>2
      <4>2. r[k - n] < r[l - n] /\ r[k - n] \in 1..Len(b) /\ r[l - n] \in 1..Len(b)
        BY <1>4, <3>3, <4>1 DEF Rises
      <4> QED BY <1>6, <3>3, <4>2
    <3>4. ASSUME k \notin 1..n, l \in 1..n PROVE FALSE
      BY <1>3, <1>4, <2>2, <3>4
    <3> QED BY <1>7, <3>1, <3>2, <3>3, <3>4
  <2>3. ASSUME NEW i \in 1..Len(c), c[i] \notin Marks PROVE \E k \in 1..n + m : w[k] = i
    <3>1. CASE i \in 1..A
      <4>1. PICK k \in 1..n : q[k] = i
        BY <1>3, <1>5, <2>3, <3>1
      <4> QED BY <1>7, <4>1
    <3>2. CASE i - A \in 1..Len(b) /\ c[i] = b[i - A]
      <4>1. PICK k \in 1..m : r[k] = i - A
        BY <1>4, <2>3, <3>2
      <4>2. w[n + k] = i
        BY <1>6, <1>7, <4>1
      <4> QED BY <1>7, <4>2
    <3> QED BY <1>5, <3>1, <3>2
  <2>4. n + m \in Nat
    BY <1>3, <1>4
  <2> QED BY <2>1, <2>2, <2>3, <2>4 DEF Lines, Rises
<1> DEFINE x == Spoken(a)
           y == Spoken(b)
           z == Spoken(c)
<1>9. x \in Seq(AllNames) /\ Len(x) = n /\ \A k \in 1..n : x[k] = Said(a[q[k]])
  BY <1>1, SpokenIs
<1>10. y \in Seq(AllNames) /\ Len(y) = m /\ \A k \in 1..m : y[k] = Said(b[r[k]])
  BY <1>2, SpokenIs
<1>11. z = [k \in 1..n + m |-> Said(c[w[k]])]
  BY <1>5, <1>8, SpokenIs
<1> HIDE DEF x, y, z
<1>12. /\ DOMAIN (x \o y) = 1..n + m /\ x \o y = [k \in 1..n + m |-> (x \o y)[k]]
       /\ \A k \in 1..n : (x \o y)[k] = x[k]
       /\ \A k \in 1..m : (x \o y)[n + k] = y[k]
  <2>1. x \o y \in Seq(AllNames) /\ Len(x \o y) = n + m
    BY <1>9, <1>10, ConcatProperties
  <2>2. \A k \in 1..n + m : (x \o y)[k] = IF k <= n THEN x[k] ELSE y[k - n]
    BY <1>9, <1>10, ConcatProperties
  <2>3. ASSUME NEW k \in 1..m PROVE (x \o y)[n + k] = y[k]
    <3>1. n + k \in 1..n + m /\ ~(n + k <= n) /\ (n + k) - n = k
      BY <1>3, <1>4
    <3> QED BY <2>2, <3>1
  <2>4. ASSUME NEW k \in 1..n PROVE (x \o y)[k] = x[k]
    <3>1. k \in 1..n + m /\ k <= n
      BY <1>3, <1>4
    <3> QED BY <2>2, <3>1
  <2>5. DOMAIN (x \o y) = 1..n + m
    BY <2>1, LenProperties
  <2>6. x \o y = [k \in 1..n + m |-> (x \o y)[k]]
    BY <2>1, <2>5, LenProperties
  <2> QED BY <2>3, <2>4, <2>5, <2>6
<1>13. ASSUME NEW k \in 1..n + m PROVE Said(c[w[k]]) = (x \o y)[k]
  <2>1. CASE k \in 1..n
    <3>1. w[k] = q[k] /\ c[q[k]] = a[q[k]]
      BY <1>3, <1>5, <1>7, <2>1
    <3> QED BY <1>9, <1>12, <2>1, <3>1
  <2>2. CASE k - n \in 1..m /\ w[k] = A + r[k - n]
    <3>1. c[w[k]] = b[r[k - n]] /\ n + (k - n) = k
      BY <1>3, <1>4, <1>5, <2>2
    <3>2. (x \o y)[n + (k - n)] = y[k - n]
      BY <1>12, <2>2
    <3> QED BY <1>10, <2>2, <3>1, <3>2
  <2> QED BY <1>7, <2>1, <2>2
<1>14. z = x \o y
  BY <1>11, <1>12, <1>13
<1> QED BY <1>14 DEF x, y, z, c

(* A mark says nothing. *)
LEMMA MarksSayNothing ==
  ASSUME NEW a \in Seq(Token), \A i \in 1..Len(a) : a[i] \in Marks
  PROVE  /\ Spoken(a) = <<>>
         /\ \A b \in Seq(Token) : Spoken(a \o b) = Spoken(b)
<1>1. Lines(a, 0, <<>>)
  BY DEF Lines, Rises
<1>2. Spoken(a) \in Seq(AllNames) /\ Len(Spoken(a)) = 0
  BY <1>1, SpokenIs
<1>3. Spoken(a) = <<>>
  BY <1>2, EmptySeq
<1>4. ASSUME NEW b \in Seq(Token) PROVE Spoken(a \o b) = Spoken(b)
  <2>1. Spoken(a \o b) = Spoken(a) \o Spoken(b)
    BY EndToEndSays
  <2>2. Spoken(b) \in Seq(AllNames)
    BY SpokenIsASeq
  <2>3. <<>> \o Spoken(b) = Spoken(b)
    BY <2>2, ConcatEmptySeq
  <2> QED BY <1>3, <2>1, <2>3
<1> QED BY <1>3, <1>4

(* Pieces that say the same, each in its place, make texts that do. *)
LEMMA PiecesSayTheSame ==
  ASSUME NEW n \in Nat, NEW ss \in [1..n -> Seq(Token)], NEW rr \in [1..n -> Seq(Token)],
         \A k \in 1..n : Spoken(ss[k]) = Spoken(rr[k])
  PROVE  /\ FlattenSeq(ss) \in Seq(Token) /\ FlattenSeq(rr) \in Seq(Token)
         /\ Spoken(FlattenSeq(ss)) = Spoken(FlattenSeq(rr))
<1>1. CASE n = 0
  <2>1. ss \in [1..0 -> Seq(Token)] /\ rr \in [1..0 -> Seq(Token)]
    BY <1>1
  <2>2. FlattenSeq(ss) = <<>> /\ FlattenSeq(rr) = <<>>
    BY <2>1, NoPieces
  <2>3. <<>> \in Seq(Token)
    BY EmptySeq
  <2> QED BY <2>2, <2>3
<1>2. CASE n # 0
  <2>1. /\ Len(ss) = n /\ Len(rr) = n
        /\ \A k \in 1..n : ss[k] \in Seq(Token) /\ rr[k] \in Seq(Token)
    BY FunIsSeq
  <2>2. n \in Nat \ {0} /\ n \in 1..n /\ 1 \in 1..n
    BY <1>2
  <2>3. PICK f : /\ f[1] = ss[1]
                 /\ \A k \in 1..n : k # 1 => f[k] = f[k - 1] \o ss[k]
                 /\ FlattenSeq(ss) = f[n] /\ \A k \in 1..n : f[k] \in Seq(Token)
    <3>1. Len(ss) \in Nat \ {0} /\ \A k \in 1..Len(ss) : ss[k] \in Seq(Token)
      BY <2>1, <2>2
    <3>2. \E f : /\ f[1] = ss[1]
                 /\ \A k \in 1..Len(ss) : k # 1 => f[k] = f[k - 1] \o ss[k]
                 /\ FlattenSeq(ss) = f[Len(ss)] /\ \A k \in 1..Len(ss) : f[k] \in Seq(Token)
      BY <3>1, FlattenUnfolds
    <3> QED BY <2>1, <3>2
  <2>4. PICK g : /\ g[1] = rr[1]
                 /\ \A k \in 1..n : k # 1 => g[k] = g[k - 1] \o rr[k]
                 /\ FlattenSeq(rr) = g[n] /\ \A k \in 1..n : g[k] \in Seq(Token)
    <3>1. Len(rr) \in Nat \ {0} /\ \A k \in 1..Len(rr) : rr[k] \in Seq(Token)
      BY <2>1, <2>2
    <3>2. \E g : /\ g[1] = rr[1]
                 /\ \A k \in 1..Len(rr) : k # 1 => g[k] = g[k - 1] \o rr[k]
                 /\ FlattenSeq(rr) = g[Len(rr)] /\ \A k \in 1..Len(rr) : g[k] \in Seq(Token)
      BY <3>1, FlattenUnfolds
    <3> QED BY <2>1, <3>2
  <2> DEFINE G == {k \in 1..n : Spoken(f[k]) = Spoken(g[k])}
  <2>5. 1 \in G
    BY <2>2, <2>3, <2>4
  <2>6. ASSUME NEW k \in 1..n, k < n, k \in G PROVE k + 1 \in G
    <3>1. k + 1 \in 1..n /\ k + 1 # 1 /\ (k + 1) - 1 = k
      BY <2>6
    <3>2. f[k + 1] = f[k] \o ss[k + 1] /\ g[k + 1] = g[k] \o rr[k + 1]
      BY <2>3, <2>4, <3>1
    <3>3. /\ f[k] \in Seq(Token) /\ g[k] \in Seq(Token)
          /\ ss[k + 1] \in Seq(Token) /\ rr[k + 1] \in Seq(Token)
      BY <2>1, <2>3, <2>4, <3>1
    <3>4. Spoken(f[k + 1]) = Spoken(f[k]) \o Spoken(ss[k + 1])
      BY <3>2, <3>3, EndToEndSays
    <3>5. Spoken(g[k + 1]) = Spoken(g[k]) \o Spoken(rr[k + 1])
      BY <3>2, <3>3, EndToEndSays
    <3>6. Spoken(f[k]) = Spoken(g[k]) /\ Spoken(ss[k + 1]) = Spoken(rr[k + 1])
      BY <2>6, <3>1
    <3>7. Spoken(f[k + 1]) = Spoken(g[k + 1])
      BY <3>4, <3>5, <3>6
    <3> QED BY <3>1, <3>7
  <2> HIDE DEF G
  <2>7. \A k \in 1..n : k \in G
    BY <2>5, <2>6, OneByOne
  <2>8. Spoken(f[n]) = Spoken(g[n])
    BY <2>2, <2>7 DEF G
  <2> QED BY <2>2, <2>3, <2>4, <2>8
<1> QED BY <1>1, <1>2

-----------------------------------------------------------------------------
(* The tokens of a text, one by one, make the text. *)
LEMMA OneByOneMakesTheText ==
  ASSUME NEW s \in Seq(Token)
  PROVE  FlattenSeq([i \in 1..Len(s) |-> <<s[i]>>]) = s
<1> DEFINE n == Len(s)
           ss == [i \in 1..n |-> <<s[i]>>]
<1>1. /\ n \in Nat /\ \A i \in 1..n : s[i] \in Token
      /\ s = [i \in 1..n |-> s[i]] /\ (s = <<>> <=> n = 0)
  BY TextIs
<1>2. \A i \in 1..n : ss[i] = <<s[i]>> /\ ss[i] \in Seq(Token) /\ Len(ss[i]) = 1 /\ ss[i][1] = s[i]
  BY <1>1, OneToken
<1>3. ss \in [1..n -> Seq(Token)]
  BY <1>2
<1> HIDE DEF ss
<1>4. CASE n = 0
  <2>1. ss \in [1..0 -> Seq(Token)]
    BY <1>3, <1>4
  <2> QED BY <1>1, <1>4, <2>1, NoPieces DEF ss
<1>5. CASE n # 0
  <2> HIDE DEF n
  <2>1. n \in Nat \ {0} /\ n \in 1..n /\ 1 \in 1..n
    BY <1>1, <1>5
  <2>2. Len(ss) = n
    BY <1>1, <1>3, FunIsSeq
  <2>3. PICK f : /\ f[1] = ss[1]
                 /\ \A k \in 1..n : k # 1 => f[k] = f[k - 1] \o ss[k]
                 /\ FlattenSeq(ss) = f[n] /\ \A k \in 1..n : f[k] \in Seq(Token)
    <3>1. Len(ss) \in Nat \ {0} /\ \A k \in 1..Len(ss) : ss[k] \in Seq(Token)
      BY <1>2, <2>1, <2>2
    <3>2. \E f : /\ f[1] = ss[1]
                 /\ \A k \in 1..Len(ss) : k # 1 => f[k] = f[k - 1] \o ss[k]
                 /\ FlattenSeq(ss) = f[Len(ss)] /\ \A k \in 1..Len(ss) : f[k] \in Seq(Token)
      BY <3>1, FlattenUnfolds
    <3> QED BY <2>2, <3>2
  <2> DEFINE G == {k \in 1..n : Len(f[k]) = k /\ \A i \in 1..k : f[k][i] = s[i]}
  <2>4. 1 \in G
    <3>1. \A i \in 1..1 : i = 1
      OBVIOUS
    <3> QED BY <1>2, <2>1, <2>3, <3>1
  <2>5. ASSUME NEW k \in 1..n, k < n, k \in G PROVE k + 1 \in G
    <3>1. k + 1 \in 1..n /\ k + 1 # 1 /\ (k + 1) - 1 = k
      BY <1>1, <2>5
    <3>2. f[k + 1] = f[k] \o ss[k + 1]
      BY <2>3, <3>1
    <3>3. /\ f[k] \in Seq(Token) /\ Len(f[k]) = k /\ \A i \in 1..k : f[k][i] = s[i]
          /\ ss[k + 1] \in Seq(Token) /\ Len(ss[k + 1]) = 1 /\ ss[k + 1][1] = s[k + 1]
      BY <1>2, <2>3, <2>5, <3>1
    <3>4. /\ Len(f[k + 1]) = Len(f[k]) + Len(ss[k + 1])
          /\ \A i \in 1..Len(f[k]) : f[k + 1][i] = f[k][i]
          /\ \A i \in 1..Len(ss[k + 1]) : f[k + 1][Len(f[k]) + i] = ss[k + 1][i]
      <4> DEFINE a == f[k]
                 b == ss[k + 1]
      <4>1. a \in Seq(Token) /\ b \in Seq(Token)
        BY <3>3
      <4> HIDE DEF a, b
      <4>2. /\ Len(a \o b) = Len(a) + Len(b)
            /\ \A i \in 1..Len(a) : (a \o b)[i] = a[i]
            /\ \A i \in 1..Len(b) : (a \o b)[Len(a) + i] = b[i]
        BY <4>1, EndToEnd
      <4> QED BY <3>2, <4>2 DEF a, b
    <3>5. 1 \in 1..1
      OBVIOUS
    <3>6. Len(f[k + 1]) = k + 1 /\ f[k + 1][k + 1] = s[k + 1]
      BY <3>3, <3>4, <3>5
    <3>7. \A i \in 1..k : f[k + 1][i] = s[i]
      BY <3>3, <3>4
    <3>8. \A i \in 1..k + 1 : i \in 1..k \/ i = k + 1
      BY <2>5
    <3> QED BY <3>1, <3>6, <3>7, <3>8
  <2> HIDE DEF G
  <2>6. \A k \in 1..n : k \in G
    BY <1>1, <2>4, <2>5, OneByOne
  <2>7. f[n] \in Seq(Token) /\ Len(f[n]) = n /\ \A i \in 1..n : f[n][i] = s[i]
    BY <2>1, <2>3, <2>6 DEF G
  <2>8. f[n] = [i \in 1..n |-> f[n][i]]
    BY <2>7, TextIs
  <2>9. f[n] = s
    BY <1>1, <2>7, <2>8
  <2> QED BY <2>3, <2>9 DEF ss, n
<1> QED BY <1>4, <1>5

LEMMA SpacedSaysTheSame ==
  ASSUME NEW s \in Seq(Token)
  PROVE  Spaced(s) \in Seq(Token) /\ Spoken(Spaced(s)) = Spoken(s)
<1> DEFINE n == Len(s)
           Opens(i) == s[i] = Comma /\ i < n /\ s[i + 1] # Space
           ss == [i \in 1..n |-> IF Opens(i) THEN <<Comma, Space>> ELSE <<s[i]>>]
           rr == [i \in 1..n |-> <<s[i]>>]
<1>1. n \in Nat /\ \A i \in 1..n : s[i] \in Token
  BY TextIs
<1>2. Spaced(s) = FlattenSeq(ss)
  BY DEF Spaced, MapConcat
<1>3. FlattenSeq(rr) = s
  BY OneByOneMakesTheText
<1>4. \A i \in 1..n : ss[i] = (IF Opens(i) THEN <<Comma, Space>> ELSE <<s[i]>>) /\ rr[i] = <<s[i]>>
  OBVIOUS
<1>5. \A i \in 1..n : ss[i] \in Seq(Token) /\ rr[i] \in Seq(Token)
  BY <1>1, <1>4, OneToken, MarksAre
<1>6. ss \in [1..n -> Seq(Token)] /\ rr \in [1..n -> Seq(Token)]
  BY <1>5
<1>7. Spoken(<<Comma, Space>>) = Spoken(<<Comma>>)
  <2>1. /\ <<Comma, Space>> \in Seq(Token) /\ <<Comma>> \in Seq(Token)
        /\ Len(<<Comma, Space>>) = 2 /\ Len(<<Comma>>) = 1
        /\ <<Comma, Space>>[1] = Comma /\ <<Comma, Space>>[2] = Space /\ <<Comma>>[1] = Comma
    BY OneToken, MarksAre
  <2>2. \A i \in 1..Len(<<Comma, Space>>) : i = 1 \/ i = 2
    BY <2>1
  <2>3. \A i \in 1..Len(<<Comma, Space>>) : <<Comma, Space>>[i] \in Marks
    BY <2>1, <2>2, MarksAre
  <2>4. \A i \in 1..Len(<<Comma>>) : <<Comma>>[i] \in Marks
    <3>1. \A i \in 1..Len(<<Comma>>) : i = 1
      BY <2>1
    <3> QED BY <2>1, <3>1, MarksAre
  <2>5. Spoken(<<Comma, Space>>) = <<>>
    BY <2>1, <2>3, MarksSayNothing
  <2>6. Spoken(<<Comma>>) = <<>>
    BY <2>1, <2>4, MarksSayNothing
  <2> QED BY <2>5, <2>6
<1>8. \A i \in 1..n : Spoken(ss[i]) = Spoken(rr[i])
  BY <1>4, <1>7
<1> HIDE DEF ss, rr, n
<1>9. FlattenSeq(ss) \in Seq(Token) /\ Spoken(FlattenSeq(ss)) = Spoken(FlattenSeq(rr))
  BY <1>1, <1>6, <1>8, PiecesSayTheSame
<1> QED BY <1>2, <1>3, <1>9

LEMMA NormalizedSentenceSaysTheSame ==
  ASSUME NEW s \in Seq(Token)
  PROVE  NormalizeSentence(s) \in Seq(Token) /\ Spoken(NormalizeSentence(s)) = Spoken(s)
<1>1. ASSUME NEW t \in Seq(Token) PROVE Trimmed(t) \in Seq(Token) /\ Spoken(Trimmed(t)) = Spoken(t)
  <2> DEFINE cuts == {i \in DOMAIN t : \A j \in i..Len(t) : t[j] = Space}
  <2>1. ASSUME NEW i \in 1..Len(t), i \in cuts PROVE t[i] \in Marks
    <3>1. i \in i..Len(t)
      BY TextIs
    <3> QED BY <2>1, <3>1, MarksAre
  <2>2. Trimmed(t) = Without(t, cuts)
    BY DEF Trimmed
  <2> HIDE DEF cuts
  <2> QED BY <2>1, <2>2, CutsOfMarksSayTheSame
<1>2. ASSUME NEW t \in Seq(Token) PROVE Squeezed(t) \in Seq(Token) /\ Spoken(Squeezed(t)) = Spoken(t)
  <2> DEFINE cuts == {i \in DOMAIN t : t[i] = Space /\
                        (After(t, i) > i + 1 \/ \A j \in 1..i : t[j] = Space)}
  <2>1. \A i \in 1..Len(t) : i \in cuts => t[i] \in Marks
    BY MarksAre
  <2>2. Squeezed(t) = Without(t, cuts)
    BY DEF Squeezed
  <2> HIDE DEF cuts
  <2> QED BY <2>1, <2>2, CutsOfMarksSayTheSame
<1>3. ASSUME NEW t \in Seq(Token) PROVE Tight(t) \in Seq(Token) /\ Spoken(Tight(t)) = Spoken(t)
  <2> DEFINE cuts == {i \in DOMAIN t : t[i] = Space /\ i < Len(t) /\ t[i + 1] \in Stops \union {Comma}}
  <2>1. \A i \in 1..Len(t) : i \in cuts => t[i] \in Marks
    BY MarksAre
  <2>2. Tight(t) = Without(t, cuts)
    BY DEF Tight
  <2> HIDE DEF cuts
  <2> QED BY <2>1, <2>2, CutsOfMarksSayTheSame
<1>4. ASSUME NEW t \in Seq(Token)
      PROVE  WithoutStrayComma(t) \in Seq(Token) /\ Spoken(WithoutStrayComma(t)) = Spoken(t)
  <2> DEFINE cuts == {i \in DOMAIN t : t[i] = Comma /\ After(t, i) <= Len(t) /\ t[After(t, i)] \in Stops}
  <2>1. \A i \in 1..Len(t) : i \in cuts => t[i] \in Marks
    BY MarksAre
  <2>2. WithoutStrayComma(t) = Without(t, cuts)
    BY DEF WithoutStrayComma
  <2> HIDE DEF cuts
  <2> QED BY <2>1, <2>2, CutsOfMarksSayTheSame
<1>5. ASSUME NEW t \in Seq(Token)
      PROVE  WithoutLeadingComma(t) \in Seq(Token) /\ Spoken(WithoutLeadingComma(t)) = Spoken(t)
  <2> DEFINE cuts == {i \in DOMAIN t : \A j \in 1..i : t[j] \in {Comma, Space}}
  <2>1. ASSUME NEW i \in 1..Len(t), i \in cuts PROVE t[i] \in Marks
    <3>1. i \in 1..i
      BY TextIs
    <3> QED BY <2>1, <3>1, MarksAre
  <2>2. WithoutLeadingComma(t) = Without(t, cuts)
    BY DEF WithoutLeadingComma
  <2> HIDE DEF cuts
  <2> QED BY <2>1, <2>2, CutsOfMarksSayTheSame
<1> DEFINE a == Trimmed(s)
           b == Squeezed(a)
           c == Tight(b)
           d == WithoutStrayComma(c)
           f == Spaced(d)
           g == WithoutLeadingComma(f)
<1>6. NormalizeSentence(s) = g
  BY DEF NormalizeSentence
<1>7. a \in Seq(Token) /\ Spoken(a) = Spoken(s)
  BY <1>1
<1> HIDE DEF a
<1>8. b \in Seq(Token) /\ Spoken(b) = Spoken(a)
  BY <1>2, <1>7
<1> HIDE DEF b
<1>9. c \in Seq(Token) /\ Spoken(c) = Spoken(b)
  BY <1>3, <1>8
<1> HIDE DEF c
<1>10. d \in Seq(Token) /\ Spoken(d) = Spoken(c)
  BY <1>4, <1>9
<1> HIDE DEF d
<1>11. f \in Seq(Token) /\ Spoken(f) = Spoken(d)
  BY <1>10, SpacedSaysTheSame
<1> HIDE DEF f
<1>12. g \in Seq(Token) /\ Spoken(g) = Spoken(f)
  BY <1>5, <1>11
<1> HIDE DEF g
<1> QED BY <1>6, <1>7, <1>8, <1>9, <1>10, <1>11, <1>12

(* The sentences of any text are texts, and there are so many of them. *)
LEMMA SentencesAre ==
  ASSUME NEW t \in Seq(Token)
  PROVE  /\ Len(Sentences(t)) \in Nat /\ Sentences(t) = [k \in 1..Len(Sentences(t)) |-> Sentences(t)[k]]
         /\ \A k \in 1..Len(Sentences(t)) : Sentences(t)[k] \in Seq(Token)
<1>1. CASE t = <<>>
  <2>1. Sentences(t) = <<>>
    BY <1>1 DEF Sentences
  <2> QED BY <2>1
<1>2. CASE t # <<>>
  <2>1. PICK q, n : Begin(q, n, t)
    BY <1>2, SentencesBegin
  <2>2. n \in Nat /\ n = Len(Sentences(t))
    BY <2>1 DEF Begin
  <2>3. \A k \in 1..n : Sentences(t)[k] \in Seq(Token)
    BY <2>1, SentencesAreTexts
  <2> DEFINE starts == InOrder(Starts(t))
             h == [k \in 1..Len(starts) |-> SubSeq(t, starts[k], EndOf(t, starts[k]))]
  <2>4. Sentences(t) = h
    BY <1>2 DEF Sentences
  <2>5. Len(starts) = Len(Sentences(t)) /\ h = [k \in 1..Len(starts) |-> h[k]]
    <3>1. Lists(starts, Starts(t)) /\ Cardinality(Starts(t)) \in Nat
      <4>1. Len(t) \in Nat /\ Len(t) # 0
        BY <1>2, TextIs
      <4>2. \A x \in Starts(t) : x \in 1..Len(t)
        BY <4>1, StartsAre
      <4> QED BY <4>1, <4>2, InOrderLists, RankGrows
    <3>2. starts = [k \in 1..Cardinality(Starts(t)) |-> starts[k]] /\ Cardinality(Starts(t)) \in Nat
      BY <3>1 DEF Lists
    <3>3. \A m \in Nat : \A g : g = [k \in 1..m |-> g[k]] => Len(g) = m
      <4>1. ASSUME NEW m \in Nat, NEW g, g = [k \in 1..m |-> g[k]] PROVE Len(g) = m
        <5>1. DOMAIN g = 1..m
          BY <4>1
        <5>2. g \in [1..m -> {g[k] : k \in 1..m}]
          BY <4>1
        <5> QED BY <5>2, FunIsSeq
      <4> QED BY <4>1
    <3>4. Len(starts) = Cardinality(Starts(t))
      BY <3>2, <3>3
    <3>5. h = [k \in 1..Len(starts) |-> h[k]]
      OBVIOUS
    <3> HIDE DEF h, starts
    <3>6. Len(h) = Len(starts)
      BY <3>2, <3>3, <3>4, <3>5
    <3> QED BY <2>4, <3>5, <3>6
  <2> HIDE DEF h, starts
  <2> QED BY <2>2, <2>3, <2>4, <2>5
<1> QED BY <1>1, <1>2

-----------------------------------------------------------------------------
(* The later rules take no word: what the text says is what it said.       *)
LEMMA JoinSaysTheSame ==
  ASSUME NEW n \in Nat, NEW ss \in [1..n -> Seq(Token)]
  PROVE  Join(ss) \in Seq(Token) /\ Spoken(Join(ss)) = Spoken(FlattenSeq(ss))
<1> DEFINE Later(k) == ss[k] # <<>> /\ \E j \in 1..k - 1 : ss[j] # <<>>
           pp == [k \in 1..n |-> IF Later(k) THEN <<Space>> \o ss[k] ELSE ss[k]]
<1>1. Len(ss) = n
  BY FunIsSeq
<1>2. Join(ss) = FlattenSeq(pp)
  BY <1>1 DEF Join
<1>3. \A k \in 1..n : pp[k] = IF Later(k) THEN <<Space>> \o ss[k] ELSE ss[k]
  OBVIOUS
<1>4. <<Space>> \in Seq(Token) /\ \A i \in 1..Len(<<Space>>) : <<Space>>[i] \in Marks
  <2>1. <<Space>> \in Seq(Token) /\ Len(<<Space>>) = 1 /\ <<Space>>[1] = Space
    BY OneToken, MarksAre
  <2>2. \A i \in 1..Len(<<Space>>) : i = 1
    BY <2>1
  <2> QED BY <2>1, <2>2, MarksAre
<1>5. ASSUME NEW k \in 1..n PROVE pp[k] \in Seq(Token) /\ Spoken(pp[k]) = Spoken(ss[k])
  <2>1. ss[k] \in Seq(Token)
    OBVIOUS
  <2>2. <<Space>> \o ss[k] \in Seq(Token)
    BY <1>4, <2>1, EndToEnd
  <2>3. Spoken(<<Space>> \o ss[k]) = Spoken(ss[k])
    BY <1>4, <2>1, MarksSayNothing
  <2> QED BY <1>3, <2>1, <2>2, <2>3
<1>6. pp \in [1..n -> Seq(Token)]
  BY <1>5
<1> HIDE DEF pp
<1>7. FlattenSeq(pp) \in Seq(Token) /\ Spoken(FlattenSeq(pp)) = Spoken(FlattenSeq(ss))
  BY <1>5, <1>6, PiecesSayTheSame
<1> QED BY <1>2, <1>7

LEMMA WhitespaceSaysTheSame ==
  ASSUME NEW t \in Seq(Token)
  PROVE  Spoken(whitespace(t)) = Spoken(t)
<1> DEFINE rr == Sentences(t)
           n == Len(rr)
           ss == [k \in 1..n |-> NormalizeSentence(rr[k])]
<1>1. n \in Nat /\ rr = [k \in 1..n |-> rr[k]] /\ \A k \in 1..n : rr[k] \in Seq(Token)
  BY SentencesAre
<1>2. whitespace(t) = Join(ss)
  BY DEF whitespace
<1>3. FlattenSeq(rr) = t
  BY SentencesMakeTheText
<1> HIDE DEF rr, n
<1>4. rr \in [1..n -> Seq(Token)]
  BY <1>1
<1>5. \A k \in 1..n : ss[k] \in Seq(Token) /\ Spoken(ss[k]) = Spoken(rr[k])
  BY <1>1, NormalizedSentenceSaysTheSame
<1>6. ss \in [1..n -> Seq(Token)]
  BY <1>5
<1> HIDE DEF ss
<1>7. Spoken(Join(ss)) = Spoken(FlattenSeq(ss))
  BY <1>1, <1>6, JoinSaysTheSame
<1>8. Spoken(FlattenSeq(ss)) = Spoken(FlattenSeq(rr))
  BY <1>1, <1>4, <1>5, <1>6, PiecesSayTheSame
<1> QED BY <1>2, <1>3, <1>7, <1>8

(* The mark takes the place of the spaces and stops behind the last word. *)
LEMMA AskedSaysTheSame ==
  ASSUME NEW s \in Seq(Token), NEW r, NEW last, Asked(r, s, last)
  PROVE  Spoken(r) = Spoken(s)
<1>1. /\ last \in 1..Len(s) /\ s[last] \notin Marks /\ \A i \in 1..Len(s) : last < i => s[i] \in Marks
      /\ r \in Seq(Token) /\ last + 1 \in 1..Len(r) /\ \A i \in 1..last : r[i] = s[i]
      /\ r[last + 1] = Word("?") /\ \A i \in 1..Len(r) : last + 1 < i => r[i] = Space
  BY DEF Asked
<1>2. Len(s) \in Nat /\ Len(r) \in Nat
  BY <1>1, TextIs
<1>3. PICK n, q : Lines(s, n, q)
  BY WordsLineUp
<1>4. /\ n \in Nat /\ Rises(q, n)
      /\ \A k \in 1..n : q[k] \in 1..Len(s) /\ s[q[k]] \notin Marks
      /\ \A i \in 1..Len(s) : s[i] \notin Marks => \E k \in 1..n : q[k] = i
  BY <1>3 DEF Lines
<1>5. ASSUME NEW k \in 1..n PROVE q[k] \in 1..last /\ q[k] \in 1..Len(r) /\ r[q[k]] = s[q[k]]
  <2>1. ~(last < q[k]) /\ q[k] \in 1..Len(s)
    BY <1>1, <1>4
  <2>2. q[k] \in 1..last
    BY <1>1, <1>2, <2>1
  <2>3. q[k] \in 1..Len(r)
    BY <1>1, <1>2, <2>2
  <2> QED BY <1>1, <2>2, <2>3
<1>6. ASSUME NEW i \in 1..Len(r), r[i] \notin Marks PROVE \E k \in 1..n : q[k] = i
  <2>1. i # last + 1 /\ ~(last + 1 < i)
    BY <1>1, <1>6, MarksAre DEF Stops
  <2>2. i \in 1..last
    BY <1>1, <1>2, <2>1
  <2>3. i \in 1..Len(s) /\ s[i] \notin Marks
    BY <1>1, <1>2, <1>6, <2>2
  <2> QED BY <1>4, <2>3
<1>7. Lines(r, n, q)
  <2>1. \A k \in 1..n : q[k] \in 1..Len(r) /\ r[q[k]] \notin Marks
    BY <1>4, <1>5
  <2> QED BY <1>4, <1>6, <2>1 DEF Lines
<1>8. \A k \in 1..n : Said(s[q[k]]) = Said(r[q[k]])
  BY <1>5
<1> QED BY <1>1, <1>3, <1>7, <1>8, SayTheSame

LEMMA PunctuationSaysTheSame ==
  ASSUME NEW t \in Seq(Token)
  PROVE  Spoken(punctuation(t)) = Spoken(t)
<1> DEFINE v == CollapseCommas(t)
           rr == Sentences(v)
           n == Len(rr)
           ss == [k \in 1..n |-> QuestionMark(rr[k])]
<1>1. v \in Seq(Token) /\ Spoken(v) = Spoken(t)
  <2>1. PICK cuts : v = Without(t, cuts) /\ \A i \in 1..Len(t) : i \in cuts => t[i] \in Loose
    BY CollapsedCommas
  <2>2. \A i \in 1..Len(t) : i \in cuts => t[i] \in Marks
    BY <2>1, MarksAre DEF Loose
  <2> HIDE DEF v
  <2> QED BY <2>1, <2>2, CutsOfMarksSayTheSame
<1>2. punctuation(t) = FlattenSeq(ss)
  BY DEF punctuation
<1> HIDE DEF v
<1>3. n \in Nat /\ rr = [k \in 1..n |-> rr[k]] /\ \A k \in 1..n : rr[k] \in Seq(Token)
  BY <1>1, SentencesAre
<1>4. FlattenSeq(rr) = v
  BY <1>1, SentencesMakeTheText
<1> HIDE DEF rr, n
<1>5. rr \in [1..n -> Seq(Token)]
  BY <1>3
<1>6. ASSUME NEW k \in 1..n PROVE ss[k] \in Seq(Token) /\ Spoken(ss[k]) = Spoken(rr[k])
  <2>1. ss[k] = QuestionMark(rr[k]) /\ rr[k] \in Seq(Token)
    BY <1>3
  <2>2. CASE ss[k] = rr[k]
    BY <2>1, <2>2
  <2>3. CASE \E last : Asked(ss[k], rr[k], last)
    <3>1. PICK last : Asked(ss[k], rr[k], last)
      BY <2>3
    <3>2. Spoken(ss[k]) = Spoken(rr[k])
      BY <2>1, <3>1, AskedSaysTheSame
    <3>3. ss[k] \in Seq(Token)
      BY <3>1 DEF Asked
    <3> QED BY <3>2, <3>3
  <2> HIDE DEF ss
  <2> QED BY <2>1, <2>2, <2>3, QuestionMarkIs
<1>7. ss \in [1..n -> Seq(Token)]
  BY <1>6
<1> HIDE DEF ss
<1>8. Spoken(FlattenSeq(ss)) = Spoken(FlattenSeq(rr))
  BY <1>3, <1>5, <1>6, <1>7, PiecesSayTheSame
<1> QED BY <1>1, <1>2, <1>4, <1>8

-----------------------------------------------------------------------------
(* What is left of a text a second cut is made in. *)
LEMMA PicksOfPicks ==
  ASSUME NEW t \in Seq(Token), NEW u \in Seq(Token), NEW e, NEW K, Picks(u, t, e, K), NEW cuts
  PROVE  \E f, M : /\ Picks(Without(u, cuts), t, f, M)
                   /\ \A p \in 1..Len(u) : e[p] \in M <=> p \notin cuts
                   /\ \A i \in 1..Len(t) : i \in M => i \in K
<1> DEFINE v == Without(u, cuts)
           L == 1..Len(u) \ cuts
           M == {e[p] : p \in L}
<1>1. v \in Seq(Token)
  BY Cut
<1>2. PICK g : Picks(v, u, g, L)
  BY Cut
<1>3. \A p \in L : p \in 1..Len(u) /\ p \notin cuts
  OBVIOUS
<1>4. \A p \in 1..Len(u) : p \notin cuts => p \in L
  OBVIOUS
<1>5. \A i : i \in M <=> \E p \in L : e[p] = i
  OBVIOUS
<1> HIDE DEF v, L, M
<1>6. /\ \A p \in 1..Len(u) : e[p] \in 1..Len(t) /\ e[p] \in K /\ u[p] = t[e[p]]
      /\ \A i \in 1..Len(t) : i \in K => \E p \in 1..Len(u) : e[p] = i
  BY DEF Picks
<1>7. \A p, q \in 1..Len(u) : p < q <=> e[p] < e[q]
  BY PickedAre
<1>8. /\ \A p \in 1..Len(v) : g[p] \in 1..Len(u) /\ g[p] \in L /\ v[p] = u[g[p]]
      /\ \A i \in 1..Len(u) : i \in L => \E p \in 1..Len(v) : g[p] = i
  BY <1>2 DEF Picks
<1>9. \A p, q \in 1..Len(v) : p < q => g[p] < g[q]
  BY <1>2 DEF Picks, Rises
<1> DEFINE f == [p \in 1..Len(v) |-> e[g[p]]]
<1>10. \A p \in 1..Len(v) : f[p] = e[g[p]]
  OBVIOUS
<1> HIDE DEF f
<1>11. ASSUME NEW p \in 1..Len(v) PROVE f[p] \in 1..Len(t) /\ f[p] \in M /\ v[p] = t[f[p]]
  <2>1. f[p] = e[g[p]] /\ g[p] \in 1..Len(u) /\ g[p] \in L /\ v[p] = u[g[p]]
    BY <1>8, <1>10
  <2>2. e[g[p]] \in 1..Len(t) /\ u[g[p]] = t[e[g[p]]]
    BY <1>6, <2>1
  <2>3. e[g[p]] \in M
    BY <1>5, <2>1
  <2> QED BY <2>1, <2>2, <2>3
<1>12. Rises(f, Len(v))
  BY <1>7, <1>8, <1>9, <1>10 DEF Rises
<1>13. ASSUME NEW i \in 1..Len(t), i \in M PROVE (\E p \in 1..Len(v) : f[p] = i) /\ i \in K
  <2>1. PICK p \in L : e[p] = i
    BY <1>5, <1>13
  <2>2. PICK x \in 1..Len(v) : g[x] = p
    BY <1>3, <1>8, <2>1
  <2>3. f[x] = i
    BY <1>10, <2>1, <2>2
  <2>4. i \in K
    BY <1>3, <1>6, <2>1
  <2> QED BY <2>3, <2>4
<1>14. Picks(v, t, f, M)
  BY <1>11, <1>12, <1>13 DEF Picks
<1>15. ASSUME NEW p \in 1..Len(u) PROVE e[p] \in M <=> p \notin cuts
  <2>1. ASSUME e[p] \in M PROVE p \notin cuts
    <3>1. PICK y \in L : e[y] = e[p]
      BY <1>5, <2>1
    <3>2. y \in 1..Len(u) /\ e[y] \in 1..Len(t)
      BY <1>3, <1>6
    <3>3. ~(e[y] < e[p]) /\ ~(e[p] < e[y])
      BY <3>1, <3>2
    <3>4. ~(y < p) /\ ~(p < y)
      BY <1>7, <3>2, <3>3
    <3>5. y = p
      BY <3>2, <3>4, TextIs
    <3> QED BY <1>3, <3>5
  <2>2. ASSUME p \notin cuts PROVE e[p] \in M
    BY <1>4, <1>5, <2>2
  <2> QED BY <2>1, <2>2
<1> QED BY <1>13, <1>14, <1>15 DEF v

-----------------------------------------------------------------------------
(* The words the rules take.                                               *)
LEMMA HallucinationTakes ==
  ASSUME NEW t \in Seq(Token)
  PROVE  \E cuts : /\ hallucination(t) = Without(t, cuts) /\ Sentencewise(t, cuts)
                   /\ \A i \in cuts : InCanned(t, i)
<1>1. PICK bad \in SUBSET Starts(t) :
        /\ hallucination(t) = Without(t, UNION {s..EndOf(t, s) : s \in bad})
        /\ \A s \in bad : IsCanned(t, s)
  BY HallucinationCuts
<1> DEFINE cuts == UNION {s..EndOf(t, s) : s \in bad}
<1>2. Sentencewise(t, cuts)
  BY DEF Sentencewise
<1>3. \A i \in cuts : InCanned(t, i)
  BY <1>1 DEF InCanned
<1> HIDE DEF cuts
<1> QED BY <1>1, <1>2, <1>3 DEF cuts

LEMMA FillerTakes ==
  ASSUME NEW t \in Seq(Token)
  PROVE  \E cuts : /\ filler(t) = Without(t, cuts)
                   /\ \A i \in 1..Len(t) : i \in cuts => t[i] \in Loose \/ (t[i] \notin Marks /\ t[i][1] \in Fillers)
<1> DEFINE F == {w \in Words(t) : t[w][1] \in Fillers}
           cuts == UNION {WithComma(t, i) : i \in F}
<1>1. filler(t) = Without(t, cuts)
  BY DEF filler
<1>2. ASSUME NEW i \in 1..Len(t), i \in cuts PROVE t[i] \in Loose \/ (t[i] \notin Marks /\ t[i][1] \in Fillers)
  <2>1. PICK w \in F : i \in WithComma(t, w)
    BY <1>2
  <2>2. w \in 1..Len(t) /\ t[w] \notin Marks /\ t[w][1] \in Fillers
    BY WordsAre
  <2> QED BY <2>1, <2>2, WithCommaIs
<1> QED BY <1>1, <1>2

(* A word goes when the one before it, with spaces between, has its name. *)
Echo(t, w, i) ==
  /\ w \in 1..Len(t) /\ t[w] \notin Marks /\ w < i /\ \A k \in w + 1..i - 1 : t[k] = Space
  /\ t[w][1] = t[i][1] /\ t[i][1] \notin Reduplications

LEMMA RepeatsTakes ==
  ASSUME NEW t \in Seq(Token)
  PROVE  \E cuts : /\ repeats(t) = Without(t, cuts)
                   /\ \A i \in 1..Len(t) : i \in cuts => t[i] = Space \/ \E w : Echo(t, w, i)
<1> DEFINE W == {w \in Words(t) :
                 LET second == After(t, w) IN
                 /\ second > w + 1 /\ IsWord(t, second)
                 /\ t[w][1] = t[second][1] /\ t[w][1] \notin Reduplications}
           cuts == UNION {i + 1..After(t, i) : i \in W}
<1>1. repeats(t) = Without(t, cuts)
  BY DEF repeats
<1>2. ASSUME NEW i \in 1..Len(t), i \in cuts PROVE t[i] = Space \/ \E w : Echo(t, w, i)
  <2>1. PICK w \in W : i \in w + 1..After(t, w)
    BY <1>2
  <2>2. /\ w \in 1..Len(t) /\ t[w] \notin Marks
        /\ t[w][1] = t[After(t, w)][1] /\ t[w][1] \notin Reduplications
    BY WordsAre
  <2>3. /\ After(t, w) \in Nat /\ w < After(t, w)
        /\ \A k \in 1..Len(t) : w < k /\ k < After(t, w) => t[k] = Space
    BY <2>2, TextIs, AfterIs
  <2> HIDE DEF W
  <2>4. CASE i = After(t, w)
    <3>1. \A k \in w + 1..i - 1 : t[k] = Space
      BY <2>2, <2>3, <2>4
    <3>2. Echo(t, w, i)
      BY <2>2, <2>3, <2>4, <3>1 DEF Echo
    <3> QED BY <3>2
  <2>5. CASE i # After(t, w)
    BY <2>1, <2>2, <2>3, <2>5
  <2> QED BY <2>4, <2>5
<1> QED BY <1>1, <1>2

LEMMA ParticlesTakes ==
  ASSUME NEW t \in Seq(Token)
  PROVE  \E cuts : /\ particles(t) = Without(t, cuts)
                   /\ \A i \in 1..Len(t) : i \in cuts /\ t[i] \notin Marks =>
                        \/ /\ t[i][1] = "sey"
                           /\ \A w \in 1..i - 1 : /\ t[w] \notin Marks
                                                  /\ \A k \in w + 1..i - 1 : t[k] \in Marks
                                                => t[w][1] \notin SeyGuards
                        \/ /\ t[i][1] \in Particles
                           /\ t[i][1] = "ya" =>
                                \A w \in i + 1..Len(t) : /\ t[w] \notin Marks
                                                         /\ \A k \in i + 1..w - 1 : t[k] \in Marks
                                                       => t[w][1] \notin Correlatives
<1> DEFINE ahead(i)  == {j \in Words(t) : j > i}
           behind(i) == {j \in Words(t) : j < i}
           sey(i) == /\ t[i][1] = "sey" /\ BeforePause(t, i)
                     /\ behind(i) # {} => t[Max(behind(i))][1] \notin SeyGuards
           edge(i) == /\ t[i][1] \in Particles /\ (i \in FirstWords(t) \/ BeforePause(t, i))
                      /\ t[i][1] = "ya" /\ ahead(i) # {} => t[Min(ahead(i))][1] \notin Correlatives
           cuts == UNION {WithComma(t, i) : i \in {w \in Words(t) : sey(w) \/ edge(w)}}
<1>1. particles(t) = Without(t, cuts)
  BY DEF particles
<1>2. Len(t) \in Nat
  BY TextIs
<1>3. ASSUME NEW i \in 1..Len(t), i \in cuts, t[i] \notin Marks PROVE sey(i) \/ edge(i)
  <2>1. PICK w \in {w \in Words(t) : sey(w) \/ edge(w)} : i \in WithComma(t, w)
    BY <1>3
  <2>2. w \in 1..Len(t) /\ (sey(w) \/ edge(w))
    BY <2>1, WordsAre
  <2> HIDE DEF sey, edge
  <2>3. i = w
    BY <1>3, <2>1, <2>2, WithCommaIs, MarksAre DEF Loose
  <2> QED BY <2>2, <2>3
<1>4. ASSUME NEW i \in 1..Len(t), NEW w \in 1..i - 1, t[w] \notin Marks, \A k \in w + 1..i - 1 : t[k] \in Marks
      PROVE  behind(i) # {} /\ Max(behind(i)) = w
  <2>1. w \in Words(t) /\ w < i
    BY <1>4, <1>2, WordsAre
  <2>2. \A j \in behind(i) : j \in 0..Len(t) /\ j < i /\ t[j] \notin Marks /\ j \in Nat
    BY <1>2, WordsAre
  <2>3. w \in behind(i)
    BY <2>1
  <2> HIDE DEF behind
  <2>4. Max(behind(i)) \in behind(i) /\ \A j \in behind(i) : j <= Max(behind(i))
    BY <1>2, <2>2, <2>3, MaxIs
  <2>5. ~(w < Max(behind(i)))
    BY <1>4, <2>2, <2>4
  <2>6. w <= Max(behind(i)) /\ Max(behind(i)) \in Nat
    BY <2>2, <2>3, <2>4
  <2>7. w \in Nat /\ behind(i) # {}
    BY <2>2, <2>3
  <2> DEFINE x == Max(behind(i))
  <2> HIDE DEF x
  <2>8. ~(w < x) /\ w <= x /\ x \in Nat
    BY <2>5, <2>6 DEF x
  <2>9. x = w
    BY <2>7, <2>8
  <2> QED BY <2>7, <2>9 DEF x
<1>5. ASSUME NEW i \in 1..Len(t), NEW w \in i + 1..Len(t), t[w] \notin Marks, \A k \in i + 1..w - 1 : t[k] \in Marks
      PROVE  ahead(i) # {} /\ Min(ahead(i)) = w
  <2>1. w \in Words(t) /\ w > i
    BY <1>5, <1>2, WordsAre
  <2>2. \A j \in ahead(i) : j > i /\ t[j] \notin Marks /\ j \in Nat
    BY <1>2, WordsAre
  <2>3. w \in ahead(i)
    BY <2>1
  <2> HIDE DEF ahead
  <2>4. Min(ahead(i)) \in ahead(i) /\ \A j \in ahead(i) : Min(ahead(i)) <= j
    BY <2>2, <2>3, MinIs
  <2>5. ~(Min(ahead(i)) < w)
    BY <1>5, <2>2, <2>4
  <2>6. Min(ahead(i)) <= w /\ Min(ahead(i)) \in Nat
    BY <2>2, <2>3, <2>4
  <2>7. w \in Nat /\ ahead(i) # {}
    BY <2>2, <2>3
  <2> DEFINE x == Min(ahead(i))
  <2> HIDE DEF x
  <2>8. ~(x < w) /\ x <= w /\ x \in Nat
    BY <2>5, <2>6 DEF x
  <2>9. x = w
    BY <2>7, <2>8
  <2> QED BY <2>7, <2>9 DEF x
<1>6. ASSUME NEW i \in 1..Len(t), i \in cuts, t[i] \notin Marks
      PROVE  \/ /\ t[i][1] = "sey"
                /\ \A w \in 1..i - 1 : t[w] \notin Marks /\ (\A k \in w + 1..i - 1 : t[k] \in Marks)
                                         => t[w][1] \notin SeyGuards
             \/ /\ t[i][1] \in Particles
                /\ t[i][1] = "ya" => \A w \in i + 1..Len(t) :
                     t[w] \notin Marks /\ (\A k \in i + 1..w - 1 : t[k] \in Marks) => t[w][1] \notin Correlatives
  <2>1. sey(i) \/ edge(i)
    BY <1>3, <1>6
  <2>2. CASE sey(i)
    <3> HIDE DEF behind
    <3> QED BY <1>4, <2>2
  <2>3. CASE edge(i)
    <3> HIDE DEF ahead
    <3> QED BY <1>5, <2>3
  <2> QED BY <2>1, <2>2, <2>3
<1> HIDE DEF cuts
<1> QED BY <1>1, <1>6

-----------------------------------------------------------------------------
(* A word x and a word y with no word between them, and a text that says   *)
(* them one behind the other.                                              *)
Pair(t, x, y) ==
  \E a, b \in 1..Len(t) : /\ a < b /\ t[a] \notin Marks /\ t[b] \notin Marks
                          /\ t[a][1] = x /\ t[b][1] = y
                          /\ \A k \in a + 1..b - 1 : t[k] \in Marks

Says(v, x, y) == \E i \in DOMAIN v : i < Len(v) /\ <<v[i], v[i + 1]>> = <<x, y>>

LEMMA KeptAre ==
  ASSUME NEW x, NEW y, <<x, y>> \in Kept
  PROVE  \/ x = "alt" /\ y = "yazi"
         \/ x = "bir" /\ y = "sey"
         \/ x = "yavas" /\ y = "yavas"
         \/ x = "ya" /\ y = "da"
BY DEF Kept, Phrases

(* None of these is on another list. *)
LEMMA KeptAreOnNoList ==
  ASSUME NEW x, NEW y, <<x, y>> \in Kept
  PROVE  x \notin Fillers /\ y \notin Fillers /\ x \notin ListedTerms /\ y \notin ListedTerms
<1>2. x \notin Fillers /\ y \notin Fillers
  BY KeptAre DEF Fillers
<1>3. x \notin ListedTerms /\ y \notin ListedTerms
  BY KeptAre, TermsAreWords
<1> QED BY <1>2, <1>3

LEMMA CutsKeepThePair ==
  ASSUME NEW t \in Seq(Token), NEW cuts, NEW x, NEW y, NEW a \in 1..Len(t), NEW b \in 1..Len(t),
         a < b, t[a] \notin Marks, t[b] \notin Marks, t[a][1] = x, t[b][1] = y,
         a \notin cuts, b \notin cuts, \A k \in a + 1..b - 1 : k \in cuts \/ t[k] \in Marks
  PROVE  Pair(Without(t, cuts), x, y)
<1> DEFINE u == Without(t, cuts)
           K == 1..Len(t) \ cuts
<1>1. u \in Seq(Token)
  BY Cut
<1>2. PICK e : Picks(u, t, e, K)
  BY Cut
<1>3. a \in K /\ b \in K /\ \A k \in K : k \notin cuts
  OBVIOUS
<1> HIDE DEF u, K
<1>4. /\ \A p \in 1..Len(u) : e[p] \in 1..Len(t) /\ e[p] \in K /\ u[p] = t[e[p]]
      /\ \A i \in 1..Len(t) : i \in K => \E p \in 1..Len(u) : e[p] = i
  BY <1>2 DEF Picks
<1>5. \A p, q \in 1..Len(u) : p < q <=> e[p] < e[q]
  BY <1>1, <1>2, PickedAre
<1>6. PICK p \in 1..Len(u) : e[p] = a
  BY <1>3, <1>4
<1>7. PICK q \in 1..Len(u) : e[q] = b
  BY <1>3, <1>4
<1>8. p < q /\ u[p] = t[a] /\ u[q] = t[b]
  BY <1>4, <1>5, <1>6, <1>7
<1>9. ASSUME NEW k \in p + 1..q - 1 PROVE u[k] \in Marks
  <2>1. k \in 1..Len(u) /\ p < k /\ k < q
    BY <1>1, <1>8, TextIs
  <2>2. a < e[k] /\ e[k] < b /\ e[k] \in 1..Len(t)
    BY <1>4, <1>5, <1>6, <1>7, <2>1
  <2>3. e[k] \in a + 1..b - 1 /\ e[k] \notin cuts /\ u[k] = t[e[k]]
    BY <1>3, <1>4, <2>1, <2>2
  <2> QED BY <2>3
<1>10. Pair(u, x, y)
  BY <1>8, <1>9 DEF Pair
<1> QED BY <1>10 DEF u

(* The same with one space between them, and spoken.  Two such words are   *)
(* in one sentence.                                                        *)
Close(t, x, y) ==
  \E a \in Words(t) : /\ IsWord(t, a + 2) /\ t[a + 1] = Space /\ t[a][1] = x /\ t[a + 2][1] = y
                      /\ ~InCanned(t, a)

LEMMA CloseIsAPair ==
  ASSUME NEW t \in Seq(Token), NEW x, NEW y, Close(t, x, y)
  PROVE  \E a \in 1..Len(t) :
           /\ a + 1 \in 1..Len(t) /\ a + 2 \in 1..Len(t) /\ t[a] \notin Marks /\ t[a + 1] = Space /\ t[a + 2] \notin Marks
           /\ t[a][1] = x /\ t[a + 2][1] = y /\ ~InCanned(t, a)
           /\ \A k \in a + 1..(a + 2) - 1 : t[k] \in Marks
<1>1. PICK a \in Words(t) : /\ IsWord(t, a + 2) /\ t[a + 1] = Space /\ t[a][1] = x /\ t[a + 2][1] = y
                            /\ ~InCanned(t, a)
  BY DEF Close
<1>2. /\ a \in 1..Len(t) /\ t[a] \notin Marks
      /\ a + 2 \in 1..Len(t) /\ t[a + 2] \notin Marks /\ Len(t) \in Nat
  BY <1>1, WordsAre, TextIs
<1>3. ASSUME NEW k \in a + 1..(a + 2) - 1 PROVE t[k] \in Marks
  <2>1. k = a + 1
    BY <1>2
  <2> QED BY <1>1, <2>1, MarksAre
<1>4. a + 1 \in 1..Len(t)
  BY <1>2
<1> QED BY <1>1, <1>2, <1>3, <1>4

LEMMA HallucinationKeepsPairs ==
  ASSUME NEW t \in Seq(Token), NEW x, NEW y, Close(t, x, y)
  PROVE  Pair(hallucination(t), x, y)
<1>1. PICK a \in 1..Len(t) :
        /\ a + 1 \in 1..Len(t) /\ a + 2 \in 1..Len(t) /\ t[a] \notin Marks /\ t[a + 1] = Space /\ t[a + 2] \notin Marks
        /\ t[a][1] = x /\ t[a + 2][1] = y /\ ~InCanned(t, a)
        /\ \A k \in a + 1..(a + 2) - 1 : t[k] \in Marks
  BY CloseIsAPair
<1>2. PICK cuts : hallucination(t) = Without(t, cuts) /\ \A i \in cuts : InCanned(t, i)
  BY HallucinationTakes
<1>3. a \notin cuts
  BY <1>1, <1>2
<1>4. a + 2 \notin cuts
  <2> SUFFICES ASSUME a + 2 \in cuts PROVE FALSE
    OBVIOUS
  <2>1. PICK s \in Starts(t) : a + 2 \in s..EndOf(t, s) /\ IsCanned(t, s)
    BY <1>2 DEF InCanned
  <2>2. s \in Nat /\ s <= a + 2 /\ Len(t) \in Nat
    BY <2>1, StartsAre, TextIs
  <2>3. s <= a
    <3> SUFFICES ASSUME ~(s <= a) PROVE FALSE
      OBVIOUS
    <3>1. s # 1 /\ (s = a + 1 \/ s = a + 2)
      BY <2>2
    <3>2. PICK m \in 1..s - 1 : t[m] \in Stops /\ \A k \in m + 1..s - 1 : t[k] = Space
      BY <3>1, StopBefore
    <3>3. t[a] # Space /\ t[a] \notin Stops /\ t[a + 1] \notin Stops
      BY <1>1, MarksAre
    <3>4. m # a /\ m # a + 1
      BY <3>2, <3>3
    <3>5. a \in m + 1..s - 1
      BY <2>2, <3>1, <3>4
    <3> QED BY <3>2, <3>3, <3>5
  <2>4. EndOf(t, s) \in Nat /\ a + 2 <= EndOf(t, s)
    <3>1. EndOf(t, s) \in s..Len(t)
      BY <2>2, <2>3, EndIs
    <3> QED BY <2>1, <2>2, <3>1
  <2>5. a \in s..EndOf(t, s)
    BY <2>2, <2>3, <2>4
  <2> QED BY <1>1, <2>1, <2>5 DEF InCanned
<1>5. a < a + 2
  BY <1>1
<1> QED BY <1>1, <1>2, <1>3, <1>4, <1>5, CutsKeepThePair

LEMMA FillerKeepsPairs ==
  ASSUME NEW t \in Seq(Token), NEW x, NEW y, <<x, y>> \in Kept, Pair(t, x, y)
  PROVE  Pair(filler(t), x, y)
<1>1. PICK cuts : /\ filler(t) = Without(t, cuts)
                  /\ \A i \in 1..Len(t) : i \in cuts => t[i] \in Loose \/ (t[i] \notin Marks /\ t[i][1] \in Fillers)
  BY FillerTakes
<1>2. PICK a, b \in 1..Len(t) : /\ a < b /\ t[a] \notin Marks /\ t[b] \notin Marks
                                /\ t[a][1] = x /\ t[b][1] = y
                                /\ \A k \in a + 1..b - 1 : t[k] \in Marks
  BY DEF Pair
<1>3. t[a] \notin Loose /\ t[b] \notin Loose
  BY <1>2, MarksAre DEF Loose
<1>4. a \notin cuts /\ b \notin cuts
  BY <1>1, <1>2, <1>3, KeptAreOnNoList
<1> QED BY <1>1, <1>2, <1>4, CutsKeepThePair

(* Of a row of words ya, the first stays in front of da. *)
LEMMA RepeatsKeepsPairs ==
  ASSUME NEW t \in Seq(Token), NEW x, NEW y, <<x, y>> \in Kept, Pair(t, x, y)
  PROVE  Pair(repeats(t), x, y)
<1>1. PICK cuts : /\ repeats(t) = Without(t, cuts)
                  /\ \A i \in 1..Len(t) : i \in cuts => t[i] = Space \/ \E w : Echo(t, w, i)
  BY RepeatsTakes
<1>2. PICK a, b \in 1..Len(t) : /\ a < b /\ t[a] \notin Marks /\ t[b] \notin Marks
                                /\ t[a][1] = x /\ t[b][1] = y
                                /\ \A k \in a + 1..b - 1 : t[k] \in Marks
  BY DEF Pair
<1>3. Len(t) \in Nat
  BY TextIs
<1>4. b \notin cuts
  <2> SUFFICES ASSUME b \in cuts PROVE FALSE
    OBVIOUS
  <2>1. t[b] # Space /\ t[a] # Space
    BY <1>2, MarksAre
  <2>2. PICK w : Echo(t, w, b)
    BY <1>1, <2>1
  <2>3. /\ w \in 1..Len(t) /\ t[w] \notin Marks /\ w < b /\ \A k \in w + 1..b - 1 : t[k] = Space
        /\ t[w][1] = t[b][1] /\ t[b][1] \notin Reduplications
    BY <2>2 DEF Echo
  <2>4. ~(w < a)
    BY <1>2, <1>3, <2>1, <2>3
  <2>5. ~(a < w)
    BY <1>2, <1>3, <2>3
  <2>6. w = a
    BY <2>3, <2>4, <2>5
  <2>7. x = y /\ y \notin Reduplications
    BY <1>2, <2>3, <2>6
  <2> QED BY <2>7, KeptAre DEF Reduplications
<1> DEFINE Like(k) == t[k] \notin Marks /\ t[k][1] = x
           C == {c \in 1..a : Like(c) /\ \A k \in c..a : t[k] = Space \/ Like(k)}
           D == C \ cuts
<1>5. a \in C /\ \A c \in C : c \in 1..a /\ c \in 1..Len(t) /\ c \in Nat
  BY <1>2, <1>3
<1>6. D # {}
  <2>1. PICK c \in C : \A z \in C : c <= z
    <3>1. C \subseteq Nat /\ C # {}
      BY <1>5
    <3> HIDE DEF C
    <3> QED BY <3>1, Smallest
  <2>2. c \in 1..a /\ c \in 1..Len(t) /\ Like(c)
    BY <1>3, <2>1
  <2>3. ASSUME c \in cuts PROVE FALSE
    <3>1. t[c] # Space
      BY <2>2, MarksAre
    <3>2. PICK w : Echo(t, w, c)
      BY <1>1, <2>2, <2>3, <3>1
    <3>3. /\ w \in 1..Len(t) /\ t[w] \notin Marks /\ w < c /\ \A k \in w + 1..c - 1 : t[k] = Space
          /\ t[w][1] = t[c][1]
      BY <3>2 DEF Echo
    <3>4. Like(w) /\ w \in 1..a
      BY <2>2, <3>3
    <3>5. \A k \in w..a : t[k] = Space \/ Like(k)
      <4> SUFFICES ASSUME NEW k \in w..a PROVE t[k] = Space \/ Like(k)
        OBVIOUS
      <4>1. k = w \/ k \in w + 1..c - 1 \/ k \in c..a
        BY <2>2, <3>3
      <4> QED BY <2>1, <3>3, <3>4, <4>1
    <3>6. w \in C
      BY <3>4, <3>5
    <3> QED BY <2>1, <2>2, <3>3, <3>6
  <2> HIDE DEF C
  <2> QED BY <2>1, <2>3
<1>7. PICK c \in D : \A z \in D : z <= c
  <2>1. \A z \in D : z \in 0..Len(t)
    BY <1>5
  <2> HIDE DEF D
  <2> QED BY <1>3, <1>6, <2>1, Largest
<1>8. c \in 1..a /\ c \in 1..Len(t) /\ Like(c) /\ c \notin cuts /\ \A k \in c..a : t[k] = Space \/ Like(k)
  BY <1>3, <1>7
<1>9. ASSUME NEW k \in c + 1..b - 1 PROVE k \in cuts \/ t[k] \in Marks
  <2>1. CASE k \in a + 1..b - 1
    BY <1>2, <2>1
  <2>2. CASE k \in c + 1..a /\ t[k] = Space
    BY <2>2, MarksAre
  <2>3. CASE k \in c + 1..a /\ Like(k)
    <3>1. k \in 1..a /\ \A z \in k..a : t[z] = Space \/ Like(z)
      BY <1>8, <2>3
    <3>2. k \in C
      BY <2>3, <3>1
    <3>3. ~(k <= c)
      BY <1>8, <2>3
    <3> QED BY <1>7, <3>2, <3>3
  <2>4. k \in a + 1..b - 1 \/ k \in c + 1..a
    BY <1>8, <1>9
  <2>5. k \in c + 1..a => k \in c..a
    BY <1>8
  <2> QED BY <1>8, <2>1, <2>2, <2>3, <2>4, <2>5
<1>10. c < b /\ t[c] \notin Marks /\ t[c][1] = x
  BY <1>2, <1>3, <1>8
<1> HIDE DEF C, D
<1>11. Pair(Without(t, cuts), x, y)
  BY <1>2, <1>4, <1>8, <1>9, <1>10, CutsKeepThePair
<1> QED BY <1>1, <1>11

LEMMA ParticlesKeepsPairs ==
  ASSUME NEW t \in Seq(Token), NEW x, NEW y, <<x, y>> \in Kept, Pair(t, x, y)
  PROVE  Pair(particles(t), x, y)
<1>1. PICK cuts :
        /\ particles(t) = Without(t, cuts)
        /\ \A i \in 1..Len(t) : i \in cuts /\ t[i] \notin Marks =>
             \/ /\ t[i][1] = "sey"
                /\ \A w \in 1..i - 1 : t[w] \notin Marks /\ (\A k \in w + 1..i - 1 : t[k] \in Marks)
                                         => t[w][1] \notin SeyGuards
             \/ /\ t[i][1] \in Particles
                /\ t[i][1] = "ya" => \A w \in i + 1..Len(t) :
                     t[w] \notin Marks /\ (\A k \in i + 1..w - 1 : t[k] \in Marks) => t[w][1] \notin Correlatives
  BY ParticlesTakes
<1>2. PICK a, b \in 1..Len(t) : /\ a < b /\ t[a] \notin Marks /\ t[b] \notin Marks
                                /\ t[a][1] = x /\ t[b][1] = y
                                /\ \A k \in a + 1..b - 1 : t[k] \in Marks
  BY DEF Pair
<1>3. a \in 1..b - 1 /\ b \in a + 1..Len(t)
  BY <1>2, TextIs
<1>4. a \notin cuts
  <2> SUFFICES ASSUME a \in cuts PROVE FALSE
    OBVIOUS
  <2>1. x = "ya" => y = "da" /\ y \in Correlatives
    BY KeptAre DEF Correlatives
  <2>2. x # "sey" /\ (x \in Particles => x = "ya")
    BY KeptAre DEF Particles
  <2>3. x = "ya" /\ y \notin Correlatives
    BY <1>1, <1>2, <1>3, <2>2
  <2> QED BY <2>1, <2>3
<1>5. b \notin cuts
  <2> SUFFICES ASSUME b \in cuts PROVE FALSE
    OBVIOUS
  <2>1. y = "sey" => x \in SeyGuards
    BY KeptAre DEF SeyGuards
  <2>2. y \notin Particles
    BY KeptAre DEF Particles
  <2>3. y = "sey" /\ x \notin SeyGuards
    BY <1>1, <1>2, <1>3, <2>2
  <2> QED BY <2>1, <2>3
<1> QED BY <1>1, <1>2, <1>4, <1>5, CutsKeepThePair

LEMMA PairsAreSaid ==
  ASSUME NEW t \in Seq(Token), NEW x, NEW y, <<x, y>> \in Kept, Pair(t, x, y)
  PROVE  Says(Spoken(t), x, y)
<1>1. PICK a, b \in 1..Len(t) : /\ a < b /\ t[a] \notin Marks /\ t[b] \notin Marks
                                /\ t[a][1] = x /\ t[b][1] = y
                                /\ \A k \in a + 1..b - 1 : t[k] \in Marks
  BY DEF Pair
<1>2. PICK n, q : Lines(t, n, q)
  BY WordsLineUp
<1>3. /\ n \in Nat
      /\ \A k \in 1..n : q[k] \in 1..Len(t) /\ t[q[k]] \notin Marks
      /\ \A i \in 1..Len(t) : t[i] \notin Marks => \E k \in 1..n : q[k] = i
  BY <1>2 DEF Lines
<1>4. \A k, l \in 1..n : k < l => q[k] < q[l]
  BY <1>2 DEF Lines, Rises
<1>5. PICK k \in 1..n : q[k] = a
  BY <1>1, <1>3
<1>6. PICK l \in 1..n : q[l] = b
  BY <1>1, <1>3
<1>7. l = k + 1
  <2>1. ~(l < k) /\ l # k
    BY <1>1, <1>4, <1>5, <1>6
  <2>2. ASSUME k + 1 < l PROVE FALSE
    <3>1. k + 1 \in 1..n /\ k < k + 1
      BY <1>3, <2>2
    <3>2. a < q[k + 1] /\ q[k + 1] < b /\ q[k + 1] \in 1..Len(t) /\ t[q[k + 1]] \notin Marks
      BY <1>3, <1>4, <1>5, <1>6, <2>2, <3>1
    <3>3. q[k + 1] \in a + 1..b - 1
      BY <3>2
    <3> QED BY <1>1, <3>2, <3>3
  <2> QED BY <2>1, <2>2
<1>8. /\ Len(Spoken(t)) = n /\ DOMAIN Spoken(t) = 1..n
      /\ \A i \in 1..n : Spoken(t)[i] = Said(t[q[i]])
  BY <1>2, SpokenIs
<1>9. Said(t[a]) = x /\ Said(t[b]) = y
  BY <1>1, KeptAreOnNoList DEF Said
<1>10. k < n /\ Spoken(t)[k] = x /\ Spoken(t)[k + 1] = y
  BY <1>5, <1>6, <1>7, <1>8, <1>9
<1> QED BY <1>8, <1>10 DEF Says

-----------------------------------------------------------------------------
(* Why a rule of the level l takes the i-th token of the raw text t.       *)
RepeatsInTheRaw(t, i) ==
  \E j \in 1..i - 1 : /\ t[j] \notin Marks /\ t[j][1] = t[i][1]
                      /\ \A k \in j..i - 1 : t[k] \notin Marks => t[k][1] \in {t[i][1]} \union Fillers

DropAt(t, l, i) ==
  \/ t[i][1] \in Fillers \/ InCanned(t, i)
  \/ l = "strict" /\ t[i][1] \in Particles \union {"sey"}
  \/ l = "strict" /\ t[i][1] \notin Reduplications /\ RepeatsInTheRaw(t, i)

(* K is what is left of t.  Only words with a reason are gone; and between *)
(* two tokens that stay, with no stop that stays, only fillers are.        *)
Drops(t, l, K) == \A i \in 1..Len(t) : i \notin K /\ t[i] \notin Marks => DropAt(t, l, i)

Quiet(t, K) ==
  \A a, b \in 1..Len(t) :
    a \in K /\ b \in K /\ a < b /\ t[a] \notin Marks /\ (\A k \in a + 1..b - 1 : k \in K => t[k] \notin Stops)
      => \A i \in a + 1..b - 1 : i \notin K /\ t[i] \notin Marks => t[i][1] \in Fillers

LEMMA NothingIsDropped ==
  ASSUME NEW t \in Seq(Token), NEW l
  PROVE  \E e, K : Picks(t, t, e, K) /\ Drops(t, l, K) /\ Quiet(t, K)
<1> DEFINE K == 1..Len(t)
           e == [p \in K |-> p]
<1>1. Len(t) \in Nat
  BY TextIs
<1>2. Picks(t, t, e, K)
  BY <1>1 DEF Picks, Rises
<1>3. Drops(t, l, K)
  BY DEF Drops
<1>4. Quiet(t, K)
  BY <1>1 DEF Quiet
<1> QED BY <1>2, <1>3, <1>4

LEMMA HallucinationDrops ==
  ASSUME NEW t \in Seq(Token), NEW l
  PROVE  \E e, K : Picks(hallucination(t), t, e, K) /\ Drops(t, l, K) /\ Quiet(t, K)
<1>1. PICK cuts : /\ hallucination(t) = Without(t, cuts) /\ Sentencewise(t, cuts)
                  /\ \A i \in cuts : InCanned(t, i)
  BY HallucinationTakes
<1> DEFINE K == 1..Len(t) \ cuts
<1>2. PICK e : Picks(hallucination(t), t, e, K)
  BY <1>1, Cut
<1>3. Drops(t, l, K)
  BY <1>1 DEF Drops, DropAt
<1>4. Quiet(t, K)
  <2> SUFFICES ASSUME NEW a \in 1..Len(t), NEW b \in 1..Len(t), a \in K, b \in K, a < b, t[a] \notin Marks,
                      \A k \in a + 1..b - 1 : k \in K => t[k] \notin Stops,
                      NEW i \in a + 1..b - 1, i \notin K, t[i] \notin Marks
               PROVE  FALSE
    BY DEF Quiet
  <2>1. i \in 1..Len(t) /\ a < i /\ i \in cuts /\ a \notin cuts /\ t[a] # Space
    BY TextIs, MarksAre
  <2>2. PICK k \in a..i - 1 : t[k] \in Stops /\ k \notin cuts
    BY <1>1, <2>1, AStopStays
  <2>3. k # a
    BY <2>2, MarksAre
  <2>4. k \in a + 1..b - 1 /\ k \in K
    BY <2>1, <2>2, <2>3, TextIs
  <2> QED BY <2>2, <2>4
<1> QED BY <1>2, <1>3, <1>4

LEMMA FillerDrops ==
  ASSUME NEW t \in Seq(Token), NEW l, NEW u \in Seq(Token), NEW e, NEW K,
         Picks(u, t, e, K), Drops(t, l, K), Quiet(t, K)
  PROVE  \E f, M : Picks(filler(u), t, f, M) /\ Drops(t, l, M) /\ Quiet(t, M)
<1>1. PICK cuts : /\ filler(u) = Without(u, cuts)
                  /\ \A i \in 1..Len(u) : i \in cuts =>
                       u[i] \in Loose \/ (u[i] \notin Marks /\ u[i][1] \in Fillers)
  BY FillerTakes
<1>2. PICK f, M : /\ Picks(Without(u, cuts), t, f, M)
                  /\ \A p \in 1..Len(u) : e[p] \in M <=> p \notin cuts
                  /\ \A i \in 1..Len(t) : i \in M => i \in K
  BY PicksOfPicks, SMTT(30)
<1>3. /\ \A p \in 1..Len(u) : e[p] \in 1..Len(t) /\ e[p] \in K /\ u[p] = t[e[p]]
      /\ \A i \in 1..Len(t) : i \in K => \E p \in 1..Len(u) : e[p] = i
  BY DEF Picks
<1>4. ASSUME NEW i \in 1..Len(t), i \in K, i \notin M
      PROVE  t[i] \notin Stops /\ (t[i] \notin Marks => t[i][1] \in Fillers)
  <2>1. PICK p \in 1..Len(u) : e[p] = i
    BY <1>3, <1>4
  <2>2. p \in cuts /\ u[p] = t[i]
    BY <1>2, <1>3, <1>4, <2>1
  <2>3. t[i] \in Loose \/ (t[i] \notin Marks /\ t[i][1] \in Fillers)
    BY <1>1, <2>2
  <2>4. t[i] \in Loose => t[i] \in Marks /\ t[i] \notin Stops
    BY MarksAre DEF Loose
  <2>5. t[i] \notin Marks => t[i] \notin Stops
    BY MarksAre
  <2> QED BY <2>3, <2>4, <2>5
<1>5. Drops(t, l, M)
  <2> SUFFICES ASSUME NEW i \in 1..Len(t), i \notin M, t[i] \notin Marks PROVE DropAt(t, l, i)
    BY DEF Drops
  <2>1. CASE i \in K
    BY <1>4, <2>1 DEF DropAt
  <2>2. CASE i \notin K
    BY <2>2 DEF Drops
  <2> QED BY <2>1, <2>2
<1>6. Quiet(t, M)
  <2> SUFFICES ASSUME NEW a \in 1..Len(t), NEW b \in 1..Len(t), a \in M, b \in M, a < b, t[a] \notin Marks,
                      \A k \in a + 1..b - 1 : k \in M => t[k] \notin Stops,
                      NEW i \in a + 1..b - 1, i \notin M, t[i] \notin Marks
               PROVE  t[i][1] \in Fillers
    BY DEF Quiet
  <2>1. \A k \in a + 1..b - 1 : k \in 1..Len(t)
    BY TextIs
  <2>2. CASE i \in K
    BY <1>4, <2>1, <2>2
  <2>3. CASE i \notin K
    <3>1. \A k \in a + 1..b - 1 : k \in K => t[k] \notin Stops
      BY <1>4, <2>1
    <3>2. a \in K /\ b \in K
      BY <1>2
    <3> QED BY <2>3, <3>1, <3>2 DEF Quiet
  <2> QED BY <2>2, <2>3
<1> QED BY <1>1, <1>2, <1>5, <1>6

LEMMA RepeatsDrops ==
  ASSUME NEW t \in Seq(Token), NEW l, NEW u \in Seq(Token), NEW e, NEW K,
         Picks(u, t, e, K), Drops(t, l, K), Quiet(t, K), l = "strict"
  PROVE  \E f, M : Picks(repeats(u), t, f, M) /\ Drops(t, l, M)
<1>1. PICK cuts : /\ repeats(u) = Without(u, cuts)
                  /\ \A i \in 1..Len(u) : i \in cuts => u[i] = Space \/ \E w : Echo(u, w, i)
  BY RepeatsTakes
<1>2. PICK f, M : /\ Picks(Without(u, cuts), t, f, M)
                  /\ \A p \in 1..Len(u) : e[p] \in M <=> p \notin cuts
  BY PicksOfPicks
<1>3. /\ \A p \in 1..Len(u) : e[p] \in 1..Len(t) /\ e[p] \in K /\ u[p] = t[e[p]]
      /\ \A i \in 1..Len(t) : i \in K => \E p \in 1..Len(u) : e[p] = i
  BY DEF Picks
<1>4. \A p, q \in 1..Len(u) : p < q <=> e[p] < e[q]
  BY PickedAre
<1>5. ASSUME NEW i \in 1..Len(t), i \in K, i \notin M, t[i] \notin Marks
      PROVE  t[i][1] \notin Reduplications /\ RepeatsInTheRaw(t, i)
  <2>1. PICK p \in 1..Len(u) : e[p] = i
    BY <1>3, <1>5
  <2>2. p \in cuts /\ u[p] = t[i] /\ u[p] # Space
    BY <1>2, <1>3, <1>5, <2>1, MarksAre
  <2>3. PICK w : Echo(u, w, p)
    BY <1>1, <2>2
  <2>4. /\ w \in 1..Len(u) /\ u[w] \notin Marks /\ w < p /\ \A k \in w + 1..p - 1 : u[k] = Space
        /\ u[w][1] = u[p][1] /\ u[p][1] \notin Reduplications
    BY <2>3 DEF Echo
  <2> DEFINE j == e[w]
  <2>5. j \in 1..Len(t) /\ j < i /\ j \in K /\ t[j] \notin Marks /\ t[j][1] = t[i][1]
    BY <1>3, <1>4, <2>1, <2>2, <2>4
  <2>6. ASSUME NEW k \in j + 1..i - 1, k \in K PROVE t[k] = Space
    <3>1. k \in 1..Len(t) /\ j < k /\ k < i
      BY <2>5, TextIs
    <3>2. PICK x \in 1..Len(u) : e[x] = k
      BY <1>3, <2>6, <3>1
    <3>3. w < x /\ x < p
      BY <1>4, <2>1, <2>4, <3>1, <3>2
    <3>4. u[x] = Space
      BY <2>4, <3>3
    <3> QED BY <1>3, <3>2, <3>4
  <2> HIDE DEF j
  <2>7. \A k \in j + 1..i - 1 : k \in K => t[k] \notin Stops
    BY <2>6, MarksAre
  <2>8. \A k \in j + 1..i - 1 : k \notin K /\ t[k] \notin Marks => t[k][1] \in Fillers
    BY <1>5, <2>5, <2>7 DEF Quiet
  <2>9. ASSUME NEW k \in j..i - 1, t[k] \notin Marks PROVE t[k][1] \in {t[i][1]} \union Fillers
    <3>1. CASE k = j
      BY <2>5, <3>1
    <3>2. CASE k # j
      <4>1. k \in j + 1..i - 1
        BY <2>5, <3>2
      <4>2. k \notin K
        BY <2>6, <2>9, <4>1, MarksAre
      <4> QED BY <2>8, <2>9, <4>1, <4>2
    <3> QED BY <3>1, <3>2
  <2>10. j \in 1..i - 1
    BY <2>5, TextIs
  <2>11. RepeatsInTheRaw(t, i)
    BY <2>5, <2>9, <2>10 DEF RepeatsInTheRaw
  <2> QED BY <2>2, <2>4, <2>11
<1>6. Drops(t, l, M)
  <2> SUFFICES ASSUME NEW i \in 1..Len(t), i \notin M, t[i] \notin Marks PROVE DropAt(t, l, i)
    BY DEF Drops
  <2>1. CASE i \in K
    BY <1>5, <2>1 DEF DropAt
  <2>2. CASE i \notin K
    BY <2>2 DEF Drops
  <2> QED BY <2>1, <2>2
<1> QED BY <1>1, <1>2, <1>6

LEMMA ParticlesDrops ==
  ASSUME NEW t \in Seq(Token), NEW l, NEW u \in Seq(Token), NEW e, NEW K,
         Picks(u, t, e, K), Drops(t, l, K), l = "strict"
  PROVE  \E f, M : Picks(particles(u), t, f, M) /\ Drops(t, l, M)
<1>1. PICK cuts : /\ particles(u) = Without(u, cuts)
                  /\ \A i \in 1..Len(u) : i \in cuts /\ u[i] \notin Marks =>
                       u[i][1] \in Particles \union {"sey"}
  <2>1. PICK cuts :
          /\ particles(u) = Without(u, cuts)
          /\ \A i \in 1..Len(u) : i \in cuts /\ u[i] \notin Marks =>
               \/ /\ u[i][1] = "sey"
                  /\ \A w \in 1..i - 1 : u[w] \notin Marks /\ (\A k \in w + 1..i - 1 : u[k] \in Marks)
                                           => u[w][1] \notin SeyGuards
               \/ /\ u[i][1] \in Particles
                  /\ u[i][1] = "ya" => \A w \in i + 1..Len(u) :
                       u[w] \notin Marks /\ (\A k \in i + 1..w - 1 : u[k] \in Marks) => u[w][1] \notin Correlatives
    BY ParticlesTakes
  <2> QED BY <2>1
<1>2. PICK f, M : /\ Picks(Without(u, cuts), t, f, M)
                  /\ \A p \in 1..Len(u) : e[p] \in M <=> p \notin cuts
  BY PicksOfPicks
<1>3. /\ \A p \in 1..Len(u) : u[p] = t[e[p]]
      /\ \A i \in 1..Len(t) : i \in K => \E p \in 1..Len(u) : e[p] = i
  BY DEF Picks
<1>4. Drops(t, l, M)
  <2> SUFFICES ASSUME NEW i \in 1..Len(t), i \notin M, t[i] \notin Marks PROVE DropAt(t, l, i)
    BY DEF Drops
  <2>1. CASE i \in K
    <3>1. PICK p \in 1..Len(u) : e[p] = i
      BY <1>3, <2>1
    <3>2. p \in cuts /\ u[p] = t[i]
      BY <1>2, <1>3, <3>1
    <3>3. t[i][1] \in Particles \union {"sey"}
      BY <1>1, <3>2
    <3> QED BY <3>3 DEF DropAt
  <2>2. CASE i \notin K
    BY <2>2 DEF Drops
  <2> QED BY <2>1, <2>2
<1> QED BY <1>1, <1>2, <1>4

-----------------------------------------------------------------------------
(* What is left of the words of t says what t says, but for what is gone.  *)
LEMMA WhatIsLeftIsSaid ==
  ASSUME NEW t \in Seq(Token), NEW u \in Seq(Token), NEW e, NEW K, Picks(u, t, e, K)
  PROVE  \E n, q, kept : /\ Lines(t, n, q) /\ \A k : k \in kept <=> k \in 1..n /\ q[k] \in K
                         /\ Spoken(u) = Tokens(Spoken(t), kept)
<1>1. PICK n, q : Lines(t, n, q)
  BY WordsLineUp
<1>2. /\ n \in Nat /\ \A k \in 1..n : q[k] \in 1..Len(t) /\ t[q[k]] \notin Marks
      /\ \A i \in 1..Len(t) : t[i] \notin Marks => \E k \in 1..n : q[k] = i
  BY <1>1 DEF Lines
<1>3. \A k, l \in 1..n : k < l => q[k] < q[l]
  BY <1>1 DEF Lines, Rises
<1> DEFINE kept == {k \in 1..n : q[k] \in K}
           v == Tokens(Spoken(t), kept)
           g == InOrder(kept)
<1>4. /\ Spoken(t) \in Seq(AllNames) /\ Len(Spoken(t)) = n
      /\ \A k \in 1..n : Spoken(t)[k] = Said(t[q[k]])
  BY <1>1, SpokenIs
<1>5. \A k : k \in kept <=> k \in 1..n /\ q[k] \in K
  OBVIOUS
<1> HIDE DEF kept
<1>6. v \in Seq(AllNames) /\ Picks(v, Spoken(t), g, kept)
  <2>1. \A i \in kept : i \in 1..Len(Spoken(t))
    BY <1>4, <1>5
  <2> QED BY <1>4, <2>1, TokensPick
<1> HIDE DEF v, g
<1>7. /\ Len(v) \in Nat /\ DOMAIN v = 1..Len(v) /\ v = [k \in 1..Len(v) |-> v[k]]
      /\ \A p \in 1..Len(v) : g[p] \in 1..n /\ g[p] \in kept /\ v[p] = Spoken(t)[g[p]]
      /\ \A i \in 1..n : i \in kept => \E p \in 1..Len(v) : g[p] = i
  <2>1. Len(v) \in Nat /\ DOMAIN v = 1..Len(v) /\ v = [k \in 1..Len(v) |-> v[k]]
    BY <1>6, LenProperties
  <2>2. /\ \A p \in 1..Len(v) : g[p] \in 1..n /\ g[p] \in kept /\ v[p] = Spoken(t)[g[p]]
        /\ \A i \in 1..n : i \in kept => \E p \in 1..Len(v) : g[p] = i
    BY <1>4, <1>6 DEF Picks
  <2> QED BY <2>1, <2>2
<1>8. \A k, l \in 1..Len(v) : k < l => g[k] < g[l]
  BY <1>6 DEF Picks, Rises
<1>9. PICK m, r : Lines(u, m, r)
  BY WordsLineUp
<1>10. /\ m \in Nat /\ \A k \in 1..m : r[k] \in 1..Len(u) /\ u[r[k]] \notin Marks
       /\ \A i \in 1..Len(u) : u[i] \notin Marks => \E k \in 1..m : r[k] = i
  BY <1>9 DEF Lines
<1>11. \A k, l \in 1..m : k < l => r[k] < r[l]
  BY <1>9 DEF Lines, Rises
<1>12. /\ \A p \in 1..Len(u) : e[p] \in 1..Len(t) /\ e[p] \in K /\ u[p] = t[e[p]]
       /\ \A i \in 1..Len(t) : i \in K => \E p \in 1..Len(u) : e[p] = i
  BY DEF Picks
<1>13. \A p, x \in 1..Len(u) : p < x <=> e[p] < e[x]
  BY PickedAre
<1>14. Len(t) \in Nat
  BY TextIs
<1> DEFINE a == [k \in 1..m |-> e[r[k]]]
           b == [k \in 1..Len(v) |-> q[g[k]]]
<1>15. (\A k \in 1..m : a[k] = e[r[k]]) /\ (\A k \in 1..Len(v) : b[k] = q[g[k]])
  OBVIOUS
<1> HIDE DEF a, b
<1>16. Rises(a, m)
  <2> SUFFICES ASSUME NEW k \in 1..m, NEW l \in 1..m, k < l PROVE a[k] < a[l]
    BY DEF Rises
  <2>1. r[k] \in 1..Len(u) /\ r[l] \in 1..Len(u) /\ r[k] < r[l]
    BY <1>10, <1>11
  <2> QED BY <1>13, <1>15, <2>1
<1>17. Rises(b, Len(v))
  <2> SUFFICES ASSUME NEW k \in 1..Len(v), NEW l \in 1..Len(v), k < l PROVE b[k] < b[l]
    BY DEF Rises
  <2>1. g[k] \in 1..n /\ g[l] \in 1..n /\ g[k] < g[l]
    BY <1>7, <1>8
  <2> QED BY <1>3, <1>15, <2>1
<1>18. ASSUME NEW k \in 1..m PROVE a[k] \in Nat /\ \E l \in 1..Len(v) : b[l] = a[k]
  <2>1. r[k] \in 1..Len(u) /\ u[r[k]] \notin Marks
    BY <1>10
  <2>2. a[k] \in 1..Len(t) /\ a[k] \in K /\ t[a[k]] \notin Marks
    BY <1>12, <1>15, <2>1
  <2>3. PICK x \in 1..n : q[x] = a[k]
    BY <1>2, <2>2
  <2>4. x \in kept
    BY <1>5, <2>2, <2>3
  <2>5. PICK l \in 1..Len(v) : g[l] = x
    BY <1>7, <2>4
  <2>6. b[l] = a[k]
    BY <1>15, <2>3, <2>5
  <2>7. a[k] \in Nat
    BY <1>14, <2>2
  <2> QED BY <2>6, <2>7
<1>19. ASSUME NEW l \in 1..Len(v) PROVE b[l] \in Nat /\ \E k \in 1..m : a[k] = b[l]
  <2>1. g[l] \in 1..n /\ g[l] \in kept
    BY <1>7
  <2>2. b[l] \in 1..Len(t) /\ b[l] \in K /\ t[b[l]] \notin Marks
    BY <1>2, <1>5, <1>15, <2>1
  <2>3. PICK p \in 1..Len(u) : e[p] = b[l]
    BY <1>12, <2>2
  <2>4. u[p] \notin Marks
    BY <1>12, <2>2, <2>3
  <2>5. PICK k \in 1..m : r[k] = p
    BY <1>10, <2>4
  <2>6. a[k] = b[l]
    BY <1>15, <2>3, <2>5
  <2>7. b[l] \in Nat
    BY <1>14, <2>2
  <2> QED BY <2>6, <2>7
<1>20. m = Len(v) /\ \A k \in 1..m : a[k] = b[k]
  <2>1. Within(a, m, b, Len(v))
    BY <1>18 DEF Within
  <2>2. Within(b, Len(v), a, m)
    BY <1>19 DEF Within
  <2> QED BY <1>7, <1>10, <1>16, <1>17, <2>1, <2>2, ListedTheSame
<1>21. Spoken(u) = [k \in 1..m |-> Said(u[r[k]])]
  BY <1>9, SpokenIs
<1>22. ASSUME NEW k \in 1..m PROVE Said(u[r[k]]) = v[k]
  <2>1. r[k] \in 1..Len(u) /\ u[r[k]] = t[e[r[k]]]
    BY <1>10, <1>12
  <2>2. k \in 1..Len(v) /\ e[r[k]] = q[g[k]]
    BY <1>15, <1>20
  <2>3. v[k] = Said(t[q[g[k]]])
    BY <1>4, <1>7, <2>2
  <2> QED BY <2>1, <2>2, <2>3
<1>23. Spoken(u) = v
  BY <1>7, <1>20, <1>21, <1>22
<1> QED BY <1>1, <1>5, <1>23 DEF v

(* A reason for a word is one for its name. *)
LEMMA ReasonsAreSaid ==
  ASSUME raw \in Seq(Token), NEW n, NEW q, Lines(raw, n, q), NEW i \in 1..n, DropAt(raw, level, q[i])
  PROVE  Droppable(i)
<1> DEFINE names == Spoken(raw)
           x == raw[q[i]]
<1>1. \A k \in 1..n : names[k] = Said(raw[q[k]])
  BY SpokenIs
<1>2. /\ n \in Nat /\ \A k \in 1..n : q[k] \in 1..Len(raw) /\ raw[q[k]] \notin Marks
      /\ \A k \in 1..Len(raw) : raw[k] \notin Marks => \E l \in 1..n : q[l] = k
  BY DEF Lines
<1>3. \A k, l \in 1..n : k < l => q[k] < q[l]
  BY DEF Lines, Rises
<1>4. names[i] = Said(x)
  BY <1>1
<1>5. x[1] \in Fillers => names[i] \in Fillers
  <2>1. x[1] \in Fillers => x[1] \notin ListedTerms
    BY TermsAreWords DEF Fillers
  <2> QED BY <1>4, <2>1 DEF Said
<1>6. q[i] = InOrder(Words(raw))[i]
  <2>1. Lines(raw, Cardinality(Words(raw)), InOrder(Words(raw)))
    BY WordsLineUp
  <2> QED BY <2>1, OnlyOneLine
<1>7. x[1] \in Particles \union {"sey"} => names[i] \in Particles \union {"sey"}
  <2>1. x[1] \in Particles \union {"sey"} => x[1] \notin ListedTerms
    BY TermsAreWords DEF Particles
  <2> QED BY <1>4, <2>1 DEF Said
<1>8. ASSUME x[1] \notin Reduplications, RepeatsInTheRaw(raw, q[i])
      PROVE  /\ names[i] \notin Reduplications
             /\ \E j \in 1..i - 1 : names[j] = names[i] /\ \A k \in j..i - 1 : names[k] \in {names[i]} \union Fillers
  <2>1. names[i] \notin Reduplications
    <3>1. "cache" \notin Reduplications
      BY DEF Reduplications
    <3> QED BY <1>4, <1>8, <3>1 DEF Said
  <2>2. PICK j \in 1..q[i] - 1 :
          /\ raw[j] \notin Marks /\ raw[j][1] = x[1]
          /\ \A k \in j..q[i] - 1 : raw[k] \notin Marks => raw[k][1] \in {x[1]} \union Fillers
    BY <1>8 DEF RepeatsInTheRaw
  <2>3. j \in 1..Len(raw) /\ j < q[i]
    BY <1>2, <2>2, TextIs
  <2>4. PICK y \in 1..n : q[y] = j
    BY <1>2, <2>2, <2>3
  <2>5. y < i
    <3>1. ASSUME i < y PROVE FALSE
      <4>1. q[i] < j
        BY <1>3, <2>4, <3>1
      <4>2. q[i] \in 1..Len(raw) /\ Len(raw) \in Nat
        BY <1>2, TextIs
      <4> QED BY <2>3, <4>1, <4>2
    <3>2. y # i
      <4>1. q[i] \in 1..Len(raw) /\ Len(raw) \in Nat
        BY <1>2, TextIs
      <4> QED BY <2>3, <2>4, <4>1
    <3> QED BY <1>2, <3>1, <3>2
  <2>6. names[y] = names[i]
    BY <1>1, <2>2, <2>4 DEF Said
  <2>7. ASSUME NEW k \in y..i - 1 PROVE names[k] \in {names[i]} \union Fillers
    <3>1. k \in 1..n /\ k < i /\ (k = y \/ y < k)
      BY <1>2, <2>5
    <3>2. j <= q[k] /\ q[k] < q[i] /\ q[k] \in 1..Len(raw) /\ raw[q[k]] \notin Marks
      BY <1>2, <1>3, <2>4, <3>1
    <3>3. q[k] \in j..q[i] - 1
      BY <1>2, <3>2
    <3>4. raw[q[k]][1] \in {x[1]} \union Fillers
      BY <2>2, <3>2, <3>3
    <3>5. CASE raw[q[k]][1] = x[1]
      BY <1>1, <3>1, <3>5 DEF Said
    <3>6. CASE raw[q[k]][1] \in Fillers
      <4>1. raw[q[k]][1] \notin ListedTerms
        BY <3>6, TermsAreWords DEF Fillers
      <4> QED BY <1>1, <3>1, <3>6, <4>1 DEF Said
    <3> QED BY <3>4, <3>5, <3>6
  <2>8. y \in 1..i - 1
    BY <1>2, <2>5
  <2> QED BY <2>1, <2>6, <2>7, <2>8
<1> HIDE DEF names
<1>9. \/ x[1] \in Fillers \/ InCanned(raw, q[i])
      \/ level = "strict" /\ x[1] \in Particles \union {"sey"}
      \/ level = "strict" /\ x[1] \notin Reduplications /\ RepeatsInTheRaw(raw, q[i])
  BY DEF DropAt
<1> HIDE DEF x
<1> QED BY <1>5, <1>6, <1>7, <1>8, <1>9 DEF Droppable, names

-----------------------------------------------------------------------------
(* What the rules have done to the words when the rule r comes: u is what  *)
(* is left of the raw text, and what the text says is what u says.         *)
Left(t, l, w, r) ==
  \E u, e, K : /\ u \in Seq(Token) /\ Picks(u, t, e, K) /\ Drops(t, l, K)
               /\ Spoken(w) = Spoken(u)
               /\ r <= 5 => w = u
               /\ r <= 3 => Quiet(t, K)

Together(t, w, r) ==
  \A x, y : <<x, y>> \in Kept /\ Close(t, x, y) /\ r # 1 =>
    IF r <= 5 THEN Pair(w, x, y) ELSE Says(Spoken(w), x, y)

Cleaned ==
  /\ Written /\ raw \in Seq(Token) /\ (rule = 1 => text = raw)
  /\ Left(raw, level, text, rule) /\ Together(raw, text, rule)

LEMMA CleanedAtFirst ==
  ASSUME RawTexts, Init
  PROVE  Cleaned
<1>1. Written /\ raw \in Seq(Token) /\ text = raw /\ rule = 1
  BY WrittenAtFirst DEF RawTexts, Init
<1>2. PICK e, K : Picks(raw, raw, e, K) /\ Drops(raw, level, K) /\ Quiet(raw, K)
  BY <1>1, NothingIsDropped
<1>3. Left(raw, level, text, rule)
  BY <1>1, <1>2 DEF Left
<1>4. Together(raw, text, rule)
  BY <1>1 DEF Together
<1> QED BY <1>1, <1>3, <1>4 DEF Cleaned

(* The rules behind the fourth take no word and change no name. *)
LEMMA LaterRulesSayTheSame ==
  ASSUME Written, Next, rule \in 5..8
  PROVE  Spoken(text') = Spoken(text)
<1>1. level \in DOMAIN Levels /\ text \in Seq(Token)
  BY DEF Written
<1>2. /\ rule = 5 => text' = IF level = "light" THEN text ELSE punctuation(text)
      /\ rule = 6 => text' = IF level = "light" THEN text ELSE dictionary(text)
      /\ rule = 7 => text' = whitespace(text)
      /\ rule = 8 => text' = IF level = "light" THEN text ELSE casing(text)
  BY <1>1, StepIs
<1>3. CASE rule = 5
  BY <1>1, <1>2, <1>3, PunctuationSaysTheSame
<1>4. CASE rule = 6
  BY <1>1, <1>2, <1>4, DictionarySaysTheSame
<1>5. CASE rule = 7
  BY <1>1, <1>2, <1>5, WhitespaceSaysTheSame
<1>6. CASE rule = 8
  BY <1>1, <1>2, <1>6, CasingSaysTheSame
<1> QED BY <1>3, <1>4, <1>5, <1>6

LEMMA LeftStays ==
  ASSUME Cleaned, Next
  PROVE  Left(raw', level', text', rule')
<1>1. /\ Written /\ raw \in Seq(Token) /\ level \in DOMAIN Levels /\ rule \in 1..9 /\ text \in Seq(Token)
      /\ rule = 1 => text = raw
      /\ Left(raw, level, text, rule)
  BY DEF Cleaned, Written
<1>2. /\ rule \in 1..8 /\ rule' = rule + 1 /\ raw' = raw /\ level' = level
      /\ rule = 1 => text' = hallucination(text)
      /\ rule = 2 => text' = filler(text)
      /\ rule = 3 => text' = IF level = "strict" THEN repeats(text) ELSE text
      /\ rule = 4 => text' = IF level = "strict" THEN particles(text) ELSE text
  BY <1>1, StepIs
<1>3. PICK u, e, K : /\ u \in Seq(Token) /\ Picks(u, raw, e, K) /\ Drops(raw, level, K)
                     /\ Spoken(text) = Spoken(u)
                     /\ rule <= 5 => text = u
                     /\ rule <= 3 => Quiet(raw, K)
  BY <1>1 DEF Left
<1>4. ASSUME NEW r \in 2..5, text' \in Seq(Token),
             \E f, M : Picks(text', raw, f, M) /\ Drops(raw, level, M) /\ (r <= 3 => Quiet(raw, M))
      PROVE  Left(raw, level, text', r)
  BY <1>4 DEF Left
<1>5. CASE rule = 1
  <2>1. text' = hallucination(raw) /\ text' \in Seq(Token)
    BY <1>1, <1>2, <1>5, RulesWriteTexts
  <2>2. \E f, M : Picks(text', raw, f, M) /\ Drops(raw, level, M) /\ Quiet(raw, M)
    BY <1>1, <2>1, HallucinationDrops
  <2> QED BY <1>2, <1>4, <1>5, <2>1, <2>2
<1>6. CASE rule = 2
  <2>1. text' = filler(u) /\ text' \in Seq(Token)
    BY <1>2, <1>3, <1>6, RulesWriteTexts
  <2>2. \E f, M : Picks(text', raw, f, M) /\ Drops(raw, level, M) /\ Quiet(raw, M)
    BY <1>1, <1>3, <1>6, <2>1, FillerDrops
  <2> QED BY <1>2, <1>4, <1>6, <2>1, <2>2
<1>7. CASE rule = 3
  <2>1. CASE level = "strict"
    <3>1. text' = repeats(u) /\ text' \in Seq(Token)
      BY <1>2, <1>3, <1>7, <2>1, RulesWriteTexts
    <3>2. \E f, M : Picks(text', raw, f, M) /\ Drops(raw, level, M)
      BY <1>1, <1>3, <1>7, <2>1, <3>1, RepeatsDrops
    <3> QED BY <1>2, <1>4, <1>7, <3>1, <3>2
  <2>2. CASE level # "strict"
    BY <1>2, <1>3, <1>4, <1>7, <2>2
  <2> QED BY <2>1, <2>2
<1>8. CASE rule = 4
  <2>1. CASE level = "strict"
    <3>1. text' = particles(u) /\ text' \in Seq(Token)
      BY <1>2, <1>3, <1>8, <2>1, RulesWriteTexts
    <3>2. \E f, M : Picks(text', raw, f, M) /\ Drops(raw, level, M)
      BY <1>1, <1>3, <2>1, <3>1, ParticlesDrops
    <3> QED BY <1>2, <1>4, <1>8, <3>1, <3>2
  <2>2. CASE level # "strict"
    BY <1>2, <1>3, <1>4, <1>8, <2>2
  <2> QED BY <2>1, <2>2
<1>9. CASE rule \in 5..8
  <2>1. Spoken(text') = Spoken(u)
    BY <1>1, <1>3, <1>9, LaterRulesSayTheSame
  <2>2. ~(rule' <= 5) /\ ~(rule' <= 3)
    BY <1>2, <1>9
  <2> QED BY <1>2, <1>3, <2>1, <2>2 DEF Left
<1> QED BY <1>2, <1>5, <1>6, <1>7, <1>8, <1>9

LEMMA TogetherStays ==
  ASSUME Cleaned, Next
  PROVE  Together(raw', text', rule')
<1>1. /\ Written /\ raw \in Seq(Token) /\ level \in DOMAIN Levels /\ rule \in 1..9 /\ text \in Seq(Token)
      /\ Together(raw, text, rule) /\ (rule = 1 => text = raw)
  BY DEF Cleaned, Written
<1>2. /\ rule \in 1..8 /\ rule' = rule + 1 /\ raw' = raw /\ level' = level
      /\ rule = 1 => text' = hallucination(text)
      /\ rule = 2 => text' = filler(text)
      /\ rule = 3 => text' = IF level = "strict" THEN repeats(text) ELSE text
      /\ rule = 4 => text' = IF level = "strict" THEN particles(text) ELSE text
  BY <1>1, StepIs
<1>3. SUFFICES ASSUME NEW x, NEW y, <<x, y>> \in Kept, Close(raw, x, y)
               PROVE  IF rule' <= 5 THEN Pair(text', x, y) ELSE Says(Spoken(text'), x, y)
  BY <1>2 DEF Together
<1>4. rule # 1 => IF rule <= 5 THEN Pair(text, x, y) ELSE Says(Spoken(text), x, y)
  BY <1>1, <1>3 DEF Together
<1>5. CASE rule \in 1..4
  <2>1. (rule # 1 => Pair(text, x, y)) /\ rule' <= 5
    BY <1>2, <1>4, <1>5
  <2>2. CASE rule = 1
    BY <1>1, <1>2, <1>3, <2>1, <2>2, HallucinationKeepsPairs
  <2>3. CASE rule = 2
    BY <1>1, <1>2, <1>3, <2>1, <2>3, FillerKeepsPairs
  <2>4. CASE rule = 3
    BY <1>1, <1>2, <1>3, <2>1, <2>4, RepeatsKeepsPairs
  <2>5. CASE rule = 4
    BY <1>1, <1>2, <1>3, <2>1, <2>5, ParticlesKeepsPairs
  <2> QED BY <1>5, <2>2, <2>3, <2>4, <2>5
<1>6. CASE rule \in 5..8
  <2>1. Says(Spoken(text), x, y)
    BY <1>1, <1>3, <1>4, <1>6, PairsAreSaid
  <2>2. Spoken(text') = Spoken(text)
    BY <1>1, <1>6, LaterRulesSayTheSame
  <2>3. ~(rule' <= 5)
    BY <1>2, <1>6
  <2> QED BY <2>1, <2>2, <2>3
<1> QED BY <1>2, <1>5, <1>6

LEMMA CleanedStays ==
  ASSUME Cleaned, Next
  PROVE  Cleaned'
<1>1. Written /\ raw \in Seq(Token) /\ level \in DOMAIN Levels /\ rule \in 1..9
  BY DEF Cleaned, Written
<1>2. rule \in 1..8 /\ rule' = rule + 1 /\ raw' = raw
  BY <1>1, StepIs
<1>3. Written'
  BY <1>1, WrittenStays
<1>4. raw' \in Seq(Token) /\ rule' # 1
  BY <1>1, <1>2
<1>5. Left(raw', level', text', rule') /\ Together(raw', text', rule')
  BY LeftStays, TogetherStays
<1> QED BY <1>3, <1>4, <1>5 DEF Cleaned

LEMMA CleanedKeepsTheTranscript ==
  ASSUME Cleaned
  PROVE  OnlyListedWordsGo /\ PhrasesStay /\ NoSeams /\ SentencesBeginWell
<1>1. NoSeams /\ SentencesBeginWell
  BY WrittenWell DEF Cleaned
<1>2. raw \in Seq(Token) /\ Left(raw, level, text, rule) /\ Together(raw, text, rule)
  BY DEF Cleaned
<1>3. OnlyListedWordsGo
  <2>1. PICK u, e, K : /\ u \in Seq(Token) /\ Picks(u, raw, e, K) /\ Drops(raw, level, K)
                       /\ Spoken(text) = Spoken(u)
    BY <1>2 DEF Left
  <2>2. PICK n, q, kept : /\ Lines(raw, n, q) /\ \A k : k \in kept <=> k \in 1..n /\ q[k] \in K
                          /\ Spoken(u) = Tokens(Spoken(raw), kept)
    BY <1>2, <2>1, WhatIsLeftIsSaid
  <2>3. DOMAIN Spoken(raw) = 1..n
    BY <1>2, <2>2, SpokenIs
  <2>4. kept \in SUBSET DOMAIN Spoken(raw) /\ Spoken(text) = Tokens(Spoken(raw), kept)
    BY <2>1, <2>2, <2>3
  <2>5. ASSUME NEW i \in DOMAIN Spoken(raw) \ kept PROVE Droppable(i)
    <3>1. i \in 1..n /\ q[i] \notin K
      BY <2>2, <2>3
    <3>2. q[i] \in 1..Len(raw) /\ raw[q[i]] \notin Marks
      BY <2>2, <3>1 DEF Lines
    <3>3. DropAt(raw, level, q[i])
      BY <2>1, <3>1, <3>2 DEF Drops
    <3> QED BY <1>2, <2>2, <3>1, <3>3, ReasonsAreSaid
  <2> QED BY <2>4, <2>5 DEF OnlyListedWordsGo
<1>4. PhrasesStay
  <2> SUFFICES ASSUME rule = Done, NEW pair \in Kept, NEW i \in Words(raw), IsWord(raw, i + 2),
                      raw[i + 1] = Space, <<raw[i][1], raw[i + 2][1]>> = pair, ~InCanned(raw, i)
               PROVE  \E k \in DOMAIN Spoken(text) :
                        k < Len(Spoken(text)) /\ <<Spoken(text)[k], Spoken(text)[k + 1]>> = pair
    BY DEF PhrasesStay
  <2> DEFINE x == raw[i][1]
             y == raw[i + 2][1]
  <2>1. Close(raw, x, y)
    BY DEF Close
  <2>2. <<x, y>> \in Kept
    OBVIOUS
  <2> HIDE DEF x, y
  <2>3. ~(rule <= 5) /\ rule # 1
    BY LevelsAre
  <2>4. Says(Spoken(text), x, y)
    BY <1>2, <2>1, <2>2, <2>3 DEF Together
  <2> QED BY <2>4 DEF Says, x, y
<1> QED BY <1>1, <1>3, <1>4

(* cleanup.rs:7-8, 28-32, rules.rs:25-32, normalizer.rs:126-139: of any    *)
(* raw text without two commas in a row, and at every level, no word goes  *)
(* without a reason, the phrases that may not be touched are said, no seam *)
(* shows where the rules cut, and from medium on every sentence begins     *)
(* with a capital or a listed term.                                        *)
THEOREM CleanupKeepsTheTranscript ==
  ASSUME RawTexts
  PROVE  Spec => [](OnlyListedWordsGo /\ PhrasesStay /\ NoSeams /\ SentencesBeginWell)
<1>1. Init => Cleaned
  BY CleanedAtFirst
<1>2. Cleaned /\ [Next]_vars => Cleaned'
  <2>1. ASSUME Cleaned, UNCHANGED vars PROVE Cleaned'
    BY <2>1 DEF vars, Cleaned, Written
  <2> QED BY <2>1, CleanedStays
<1>3. Cleaned => OnlyListedWordsGo /\ PhrasesStay /\ NoSeams /\ SentencesBeginWell
  BY CleanedKeepsTheTranscript
<1> QED BY <1>1, <1>2, <1>3, PTL DEF Spec
=============================================================================
