------------------------------- MODULE Folding -------------------------------
(***************************************************************************)
(* What a fold over a sequence is, for any operation: the two equations    *)
(* that FoldLeft of the community modules satisfies.  An instance with     *)
(* Op <- some operation has them for that operation; c is whatever the     *)
(* operation depends on besides what it has and the next element.          *)
(***************************************************************************)
EXTENDS Sequences, Integers, WellFoundedInduction, TLAPS

CONSTANT Op(_, _, _)

-----------------------------------------------------------------------------
(* Induction over the natural numbers and over sequences, for a set in     *)
(* place of a predicate, which the provers can instantiate.                *)

LEMMA NatIsWellFounded == IsWellFoundedOn({ss \in Nat \X Nat : ss[1] < ss[2]}, Nat)
BY NatLessThanWellFounded DEF OpToRel

\* A nonempty set of natural numbers has a least one.
LEMMA LeastElement ==
  ASSUME NEW S \in SUBSET Nat, S # {}
  PROVE  \E x \in S : \A y \in S : x <= y
<1> DEFINE R == {ss \in Nat \X Nat : ss[1] < ss[2]}
<1>1. PICK x \in S : \A y \in S : ~(<<y, x>> \in R)
  <2>1. IsWellFoundedOn(R, Nat) BY NatIsWellFounded
  <2> HIDE DEF R
  <2> QED BY <2>1, WFMin
<1>2. ASSUME NEW y \in S PROVE x <= y
  <2>1. y < x => <<y, x>> \in R OBVIOUS
  <2> QED BY <1>1, <2>1
<1> QED BY <1>2

\* Induction.
LEMMA SetInduction ==
  ASSUME NEW S, 0 \in S, \A n \in Nat : n \in S => n + 1 \in S
  PROVE  Nat \subseteq S
<1> SUFFICES ASSUME Nat \ S # {} PROVE FALSE
  OBVIOUS
<1>1. PICK x \in Nat \ S : \A y \in Nat \ S : x <= y
  BY LeastElement
<1>2. x - 1 \in Nat \ S BY <1>1
<1> QED BY <1>1, <1>2

\* Induction over sequences, which grow at their end.
LEMMA SequenceInduction ==
  ASSUME NEW T, NEW S, <<>> \in S,
         \A s \in Seq(T), x \in T : s \in S => Append(s, x) \in S
  PROVE  Seq(T) \subseteq S
<1> DEFINE N == {n \in Nat : \A s \in Seq(T) : Len(s) = n => s \in S}
<1>1. 0 \in N
  <2>1. ASSUME NEW s \in Seq(T), Len(s) = 0 PROVE s \in S
    <3>1. s = <<>> BY <2>1
    <3> QED BY <3>1
  <2> QED BY <2>1
<1>2. ASSUME NEW n \in Nat, n \in N PROVE n + 1 \in N
  <2> SUFFICES ASSUME NEW s \in Seq(T), Len(s) = n + 1 PROVE s \in S
    OBVIOUS
  <2> DEFINE f == SubSeq(s, 1, n)
  <2>1. f \in Seq(T) /\ Len(f) = n /\ s[n + 1] \in T OBVIOUS
  <2>2. s = Append(f, s[n + 1]) OBVIOUS
  <2>3. f \in S BY <1>2, <2>1
  <2> QED BY <2>1, <2>2, <2>3
<1> HIDE DEF N
<1>3. Nat \subseteq N BY <1>1, <1>2, SetInduction
<1> QED BY <1>3 DEF N

\* A sequence grows at its end also behind another.
LEMMA ConcatAppend ==
  ASSUME NEW T, NEW s \in Seq(T), NEW t \in Seq(T), NEW x \in T
  PROVE  s \o Append(t, x) = Append(s \o t, x)
OBVIOUS

-----------------------------------------------------------------------------
(* Folds. *)

\* The greatest member of a set of numbers.
Highest(t) == CHOOSE x \in t : \A y \in t : x >= y

\* The equation by which MapThenFoldSet defines its function over subsets.
Iter(c, base, s, D, it) ==
  it = [t \in SUBSET D |-> IF t = {} THEN base ELSE Op(c, it[t \ {Highest(t)}], s[Highest(t)])]

\* FoldLeft(LAMBDA acc, x : Op(c, acc, x), base, s), once FoldLeft is expanded.
Folded(c, base, s) == (CHOOSE it : Iter(c, base, s, DOMAIN s, it))[DOMAIN s]

LEMMA HighestIs ==
  ASSUME NEW n \in Nat, NEW t \in SUBSET (1 .. n + 1), n + 1 \in t
  PROVE  Highest(t) = n + 1
<1>1. \A y \in t : n + 1 >= y OBVIOUS
<1>2. Highest(t) \in t /\ \A y \in t : Highest(t) >= y BY <1>1 DEF Highest
<1>3. Highest(t) \in 1 .. n + 1 /\ Highest(t) >= n + 1 /\ n + 1 >= Highest(t) BY <1>1, <1>2
<1> QED BY <1>3

\* The function exists: it is extended from subsets of 1 .. m to subsets of
\* 1 .. m + 1, of which the new ones have m + 1 for their greatest element.
LEMMA IterExists ==
  ASSUME NEW c, NEW base, NEW s, NEW n \in Nat
  PROVE  \E it : Iter(c, base, s, 1 .. n, it)
<1> DEFINE S == {m \in Nat : \E it : Iter(c, base, s, 1 .. m, it)}
<1>1. 0 \in S
  <2>1. 1 .. 0 = {} OBVIOUS
  <2>2. Iter(c, base, s, {}, [t \in SUBSET {} |-> base]) BY DEF Iter
  <2> QED BY <2>1, <2>2
<1>2. ASSUME NEW m \in Nat, m \in S PROVE m + 1 \in S
  <2>1. PICK it : Iter(c, base, s, 1 .. m, it) BY <1>2
  <2> DEFINE new == [t \in SUBSET (1 .. m + 1) |->
                       IF m + 1 \in t THEN Op(c, it[t \ {m + 1}], s[m + 1]) ELSE it[t]]
  <2>2. ASSUME NEW t \in SUBSET (1 .. m + 1)
        PROVE  new[t] = IF t = {} THEN base ELSE Op(c, new[t \ {Highest(t)}], s[Highest(t)])
    <3>1. CASE m + 1 \in t
      <4>1. Highest(t) = m + 1 BY <3>1, HighestIs
      <4>2. t \ {m + 1} \in SUBSET (1 .. m + 1) /\ m + 1 \notin t \ {m + 1} OBVIOUS
      <4>3. new[t \ {m + 1}] = it[t \ {m + 1}] BY <4>2
      <4> QED BY <3>1, <4>1, <4>3
    <3>2. CASE m + 1 \notin t
      <4>1. t \in SUBSET (1 .. m) BY <3>2
      <4>2. new[t] = it[t] BY <3>2
      <4>3. new[t \ {Highest(t)}] = it[t \ {Highest(t)}]
        <5>1. t \ {Highest(t)} \in SUBSET (1 .. m + 1) /\ m + 1 \notin t \ {Highest(t)} BY <3>2
        <5> QED BY <5>1
      <4> QED BY <2>1, <4>1, <4>2, <4>3 DEF Iter
    <3> QED BY <3>1, <3>2
  <2>3. Iter(c, base, s, 1 .. m + 1, new)
    BY <2>2 DEF Iter
  <2> QED BY <2>3
<1> HIDE DEF S
<1>3. Nat \subseteq S BY <1>1, <1>2, SetInduction
<1> QED BY <1>3 DEF S

LEMMA FoldedBy ==
  ASSUME NEW c, NEW base, NEW s, NEW n \in Nat, DOMAIN s = 1 .. n
  PROVE  \E it : Iter(c, base, s, 1 .. n, it) /\ Folded(c, base, s) = it[1 .. n]
<1>1. \E it : Iter(c, base, s, DOMAIN s, it) BY IterExists
<1> DEFINE it == CHOOSE it : Iter(c, base, s, DOMAIN s, it)
<1>2. Iter(c, base, s, DOMAIN s, it) BY <1>1
<1>3. Folded(c, base, s) = it[DOMAIN s] BY DEF Folded
<1> HIDE DEF it
<1> QED BY <1>2, <1>3

\* Nothing to fold.
LEMMA FoldedEmpty == ASSUME NEW c, NEW base PROVE Folded(c, base, <<>>) = base
<1>1. DOMAIN << >> = 1 .. 0 /\ 1 .. 0 = {} OBVIOUS
<1>2. PICK it : Iter(c, base, <<>>, 1 .. 0, it) /\ Folded(c, base, <<>>) = it[1 .. 0]
  BY <1>1, FoldedBy
<1> QED BY <1>1, <1>2 DEF Iter

\* What the function has up to a place follows from that place and the one before.
LEMMA IterZero ==
  ASSUME NEW c, NEW base, NEW s, NEW D, NEW it, Iter(c, base, s, D, it)
  PROVE  it[1 .. 0] = base
<1>1. 1 .. 0 = {} /\ {} \in SUBSET D OBVIOUS
<1> QED BY <1>1 DEF Iter

LEMMA IterNext ==
  ASSUME NEW c, NEW base, NEW s, NEW n \in Nat, NEW it, Iter(c, base, s, 1 .. n, it),
         NEW m \in 0 .. n - 1
  PROVE  it[1 .. m + 1] = Op(c, it[1 .. m], s[m + 1])
<1>1. /\ 1 .. m + 1 \in SUBSET (1 .. n) /\ 1 .. m + 1 # {}
      /\ m + 1 \in 1 .. m + 1 /\ (1 .. m + 1) \ {m + 1} = 1 .. m /\ m \in Nat
  OBVIOUS
<1>2. Highest(1 .. m + 1) = m + 1 BY <1>1, HighestIs
<1> QED BY <1>1, <1>2 DEF Iter

\* Equal places, equal folds.
LEMMA FoldedExtends ==
  ASSUME NEW c, NEW base, NEW n \in Nat, NEW s, NEW t, DOMAIN s = 1 .. n,
         DOMAIN t = 1 .. n + 1, \A i \in 1 .. n : t[i] = s[i]
  PROVE  Folded(c, base, t) = Op(c, Folded(c, base, s), t[n + 1])
<1>1. PICK it : Iter(c, base, s, 1 .. n, it) /\ Folded(c, base, s) = it[1 .. n]
  BY FoldedBy
<1> DEFINE k == n + 1
<1>2. k \in Nat /\ DOMAIN t = 1 .. k OBVIOUS
<1> HIDE DEF k
<1>3. PICK up : Iter(c, base, t, 1 .. k, up) /\ Folded(c, base, t) = up[1 .. k]
  BY <1>2, FoldedBy
<1>4. it[1 .. 0] = base /\ up[1 .. 0] = base BY <1>1, <1>3, IterZero
<1>5. ASSUME NEW m \in 0 .. n - 1 PROVE it[1 .. m + 1] = Op(c, it[1 .. m], s[m + 1])
  BY <1>1, IterNext
<1>6. ASSUME NEW m \in 0 .. k - 1 PROVE up[1 .. m + 1] = Op(c, up[1 .. m], t[m + 1])
  BY <1>2, <1>3, IterNext
<1> DEFINE S == {m \in Nat : m <= n => up[1 .. m] = it[1 .. m]}
<1>7. 0 \in S BY <1>4
<1>8. ASSUME NEW m \in Nat, m \in S PROVE m + 1 \in S
  <2> SUFFICES ASSUME m + 1 <= n PROVE up[1 .. m + 1] = it[1 .. m + 1]
    OBVIOUS
  <2>1. m \in 0 .. n - 1 /\ m \in 0 .. k - 1 /\ m + 1 \in 1 .. n BY DEF k
  <2>2. up[1 .. m] = it[1 .. m] BY <1>8
  <2> QED BY <1>5, <1>6, <2>1, <2>2
<1> HIDE DEF S
<1>9. n \in S BY <1>7, <1>8, SetInduction
<1>10. up[1 .. n] = it[1 .. n] BY <1>9 DEF S
<1>11. n \in 0 .. k - 1 BY DEF k
<1>12. up[1 .. n + 1] = Op(c, up[1 .. n], t[n + 1]) BY <1>6, <1>11
<1> QED BY <1>1, <1>3, <1>10, <1>12 DEF k

\* One more element.
LEMMA FoldedAppend ==
  ASSUME NEW c, NEW base, NEW T, NEW s \in Seq(T), NEW x \in T
  PROVE  Folded(c, base, Append(s, x)) = Op(c, Folded(c, base, s), x)
<1> DEFINE t == Append(s, x)
           n == Len(s)
<1>1. /\ n \in Nat /\ DOMAIN s = 1 .. n /\ DOMAIN t = 1 .. n + 1
      /\ t[n + 1] = x /\ \A i \in 1 .. n : t[i] = s[i]
  OBVIOUS
<1> HIDE DEF t, n
<1>2. Folded(c, base, t) = Op(c, Folded(c, base, s), t[n + 1]) BY <1>1, FoldedExtends
<1> QED BY <1>1, <1>2 DEF t

\* What every step of a fold keeps, the fold keeps.
LEMMA FoldedIn ==
  ASSUME NEW c, NEW A, NEW T, NEW base \in A,
         \A acc \in A, x \in T : Op(c, acc, x) \in A
  PROVE  \A s \in Seq(T) : Folded(c, base, s) \in A
<1> DEFINE S == {s \in Seq(T) : Folded(c, base, s) \in A}
<1>1. <<>> \in S BY FoldedEmpty
<1>2. ASSUME NEW s \in Seq(T), NEW x \in T, s \in S PROVE Append(s, x) \in S
  <2>1. Folded(c, base, Append(s, x)) = Op(c, Folded(c, base, s), x) BY FoldedAppend
  <2> QED BY <1>2, <2>1
<1> HIDE DEF S
<1>3. Seq(T) \subseteq S BY <1>1, <1>2, SequenceInduction
<1> QED BY <1>3 DEF S

\* A fold over two sequences goes on from where it is after the first.
LEMMA FoldedConcat ==
  ASSUME NEW c, NEW base, NEW T, NEW s \in Seq(T)
  PROVE  \A t \in Seq(T) : Folded(c, base, s \o t) = Folded(c, Folded(c, base, s), t)
<1> DEFINE from == Folded(c, base, s)
           S == {t \in Seq(T) : Folded(c, base, s \o t) = Folded(c, from, t)}
<1>1. <<>> \in S
  <2>1. s \o <<>> = s /\ Folded(c, from, <<>>) = from BY FoldedEmpty
  <2> QED BY <2>1
<1>2. ASSUME NEW t \in Seq(T), NEW x \in T, t \in S PROVE Append(t, x) \in S
  <2> DEFINE u == s \o t
  <2>1. u \in Seq(T) /\ s \o Append(t, x) = Append(u, x) BY ConcatAppend
  <2>2. Folded(c, base, u) = Folded(c, from, t) BY <1>2
  <2> HIDE DEF u, from
  <2>3. Folded(c, base, Append(u, x)) = Op(c, Folded(c, base, u), x)
    BY <2>1, FoldedAppend
  <2>4. Folded(c, from, Append(t, x)) = Op(c, Folded(c, from, t), x) BY FoldedAppend
  <2>5. Folded(c, base, s \o Append(t, x)) = Folded(c, from, Append(t, x))
    BY <2>1, <2>2, <2>3, <2>4
  <2> QED BY <2>5 DEF from
<1> HIDE DEF S
<1>3. Seq(T) \subseteq S BY <1>1, <1>2, SequenceInduction
<1> QED BY <1>3 DEF S
==============================================================================
