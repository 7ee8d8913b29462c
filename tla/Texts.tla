-------------------------------- MODULE Texts --------------------------------
(***************************************************************************)
(* Lemmas about sequences behind one another and about texts cut into      *)
(* tokens.                                                                 *)
(***************************************************************************)
EXTENDS Integers, Codec, TLAPS

Cutting == INSTANCE Folding WITH Op <- CutNext

\* Sequences of members of a smaller set.
LEMMA SeqMonotone == ASSUME NEW S, NEW T, S \subseteq T PROVE Seq(S) \subseteq Seq(T)
<1> SUFFICES ASSUME NEW s \in Seq(S) PROVE s \in Seq(T)
  OBVIOUS
<1>1. \A i \in 1 .. Len(s) : s[i] \in T OBVIOUS
<1> QED BY <1>1

LEMMA ShortSequences ==
  ASSUME NEW T, NEW x \in T, NEW y \in T
  PROVE  <<>> \in Seq(T) /\ <<x>> \in Seq(T) /\ <<x, y>> \in Seq(T)
OBVIOUS

-----------------------------------------------------------------------------
(* Sequences behind sequences. *)

LEMMA ConcatType ==
  ASSUME NEW T, NEW s \in Seq(T), NEW t \in Seq(T) PROVE s \o t \in Seq(T)
OBVIOUS

LEMMA ConcatFirst ==
  ASSUME NEW T, NEW s \in Seq(T), NEW t \in Seq(T)
  PROVE  \A i \in 1 .. Len(s) : (s \o t)[i] = s[i]
OBVIOUS

LEMMA ConcatSecond ==
  ASSUME NEW T, NEW s \in Seq(T), NEW t \in Seq(T), NEW i \in 1 .. Len(t)
  PROVE  (s \o t)[Len(s) + i] = t[i]
OBVIOUS

LEMMA ConcatLen ==
  ASSUME NEW T, NEW s \in Seq(T), NEW t \in Seq(T)
  PROVE  Len(s \o t) = Len(s) + Len(t) /\ Len(s) \in Nat /\ Len(t) \in Nat
OBVIOUS

LEMMA Concat ==
  ASSUME NEW T, NEW s \in Seq(T), NEW t \in Seq(T)
  PROVE  /\ s \o t \in Seq(T) /\ Len(s \o t) = Len(s) + Len(t)
         /\ Len(s) \in Nat /\ Len(t) \in Nat
         /\ \A i \in 1 .. Len(s) : (s \o t)[i] = s[i]
         /\ \A i \in 1 .. Len(t) : (s \o t)[Len(s) + i] = t[i]
         /\ SubSeq(s \o t, 1, Len(s)) = s
         /\ SubSeq(s \o t, Len(s) + 1, Len(s \o t)) = t
OBVIOUS

LEMMA ConcatAssoc ==
  ASSUME NEW T, NEW s \in Seq(T), NEW t \in Seq(T), NEW u \in Seq(T)
  PROVE  (s \o t) \o u = s \o (t \o u)
OBVIOUS

LEMMA ConcatOne ==
  ASSUME NEW T, NEW x \in T, NEW s \in Seq(T)
  PROVE  /\ <<x>> \o s \in Seq(T) /\ Len(<<x>> \o s) = Len(s) + 1
         /\ (<<x>> \o s)[1] = x /\ \A i \in 1 .. Len(s) : (<<x>> \o s)[i + 1] = s[i]
         /\ Head(<<x>> \o s) = x /\ Tail(<<x>> \o s) = s
         /\ SubSeq(<<x>> \o s, 2, Len(s) + 1) = s
OBVIOUS

LEMMA AppendIs ==
  ASSUME NEW T, NEW s \in Seq(T), NEW x \in T PROVE s \o <<x>> = Append(s, x)
OBVIOUS

LEMMA TwoWords == ASSUME NEW T, NEW x \in T, NEW y \in T PROVE <<x>> \o <<y>> = <<x, y>>
<1> DEFINE s == <<x>> \o <<y>>
           t == <<x, y>>
<1>1. t \in Seq(T) /\ Len(t) = 2 /\ t[1] = x /\ t[2] = y OBVIOUS
<1>2. s \in Seq(T) /\ Len(s) = 2 /\ s[1] = x /\ s[2] = y
  <2> DEFINE u == <<y>>
  <2>1. u \in Seq(T) /\ Len(u) = 1 /\ u[1] = y OBVIOUS
  <2> HIDE DEF u
  <2> DEFINE v == <<x>> \o u
  <2>2. v \in Seq(T) /\ Len(v) = Len(u) + 1 /\ v[1] = x /\ \A i \in 1 .. Len(u) : v[i + 1] = u[i]
    BY <2>1, ConcatOne, SMTT(30)
  <2> HIDE DEF v
  <2>3. 1 \in 1 .. Len(u) /\ 1 + 1 = 2 BY <2>1
  <2>4. v[2] = u[1] BY <2>2, <2>3
  <2> QED BY <2>1, <2>2, <2>3, <2>4 DEF u, v
<1> HIDE DEF s, t
<1>3. s = t BY <1>1, <1>2
<1> QED BY <1>3 DEF s, t

LEMMA ThreeWords ==
  ASSUME NEW T, NEW x \in T, NEW y \in T, NEW z \in T PROVE <<x, y>> \o <<z>> = <<x, y, z>>
<1> DEFINE s == Append(<<x, y>>, z)
           t == <<x, y, z>>
<1>1. t \in Seq(T) /\ Len(t) = 3 /\ t[1] = x /\ t[2] = y /\ t[3] = z OBVIOUS
<1>2. <<x, y>> \in Seq(T) OBVIOUS
<1>3. s \in Seq(T) /\ Len(s) = 3 /\ s[1] = x /\ s[2] = y /\ s[3] = z OBVIOUS
<1>4. <<x, y>> \o <<z>> = s BY <1>2, AppendIs
<1> HIDE DEF s, t
<1>5. s = t BY <1>1, <1>3
<1> QED BY <1>4, <1>5 DEF t

\* What becomes of a sequence when its first words are taken off.
LEMMA TwoBefore ==
  ASSUME NEW T, NEW x \in T, NEW y \in T, NEW s \in Seq(T), NEW v, v = <<x, y>> \o s
  PROVE  /\ v[1] = x /\ v[2] = y /\ Len(v) = Len(s) + 2
         /\ Head(SubSeq(v, 2, Len(v))) = y /\ Tail(SubSeq(v, 2, Len(v))) = s
<1>1. v \in Seq(T) /\ v[1] = x /\ v[2] = y /\ Len(v) = Len(s) + 2 OBVIOUS
<1>2. \A i \in 1 .. Len(s) : v[i + 2] = s[i] OBVIOUS
<1> DEFINE r == SubSeq(v, 2, Len(v))
<1>3. r \in Seq(T) /\ Len(r) = Len(s) + 1 /\ \A i \in 1 .. Len(s) + 1 : r[i] = v[i + 1]
  BY <1>1
<1> HIDE DEF r
<1>4. Tail(r) = s BY <1>1, <1>2, <1>3
<1>5. Head(r) = y BY <1>1, <1>3
<1> QED BY <1>1, <1>4, <1>5 DEF r

LEMMA ThreeBefore ==
  ASSUME NEW T, NEW x \in T, NEW y \in T, NEW z \in T, NEW s \in Seq(T),
         NEW v, v = <<x, y, z>> \o s
  PROVE  /\ v[1] = x /\ v[2] = y /\ Len(v) = Len(s) + 3
         /\ Head(SubSeq(v, 3, Len(v))) = z /\ Tail(SubSeq(v, 3, Len(v))) = s
<1>1. v \in Seq(T) /\ v[1] = x /\ v[2] = y /\ v[3] = z /\ Len(v) = Len(s) + 3 OBVIOUS
<1>2. \A i \in 1 .. Len(s) : v[i + 3] = s[i] OBVIOUS
<1> DEFINE r == SubSeq(v, 3, Len(v))
<1>3. r \in Seq(T) /\ Len(r) = Len(s) + 1 /\ \A i \in 1 .. Len(s) + 1 : r[i] = v[i + 2]
  BY <1>1
<1> HIDE DEF r
<1>4. Tail(r) = s BY <1>1, <1>2, <1>3
<1>5. Head(r) = z BY <1>1, <1>3
<1> QED BY <1>1, <1>4, <1>5 DEF r

\* A text behind another and two words between them.
IsBetween(T, a, x, y, b, s) ==
  /\ s \in Seq(T) /\ Len(s) = Len(a) + 2 + Len(b)
  /\ \A i \in 1 .. Len(a) : s[i] = a[i]
  /\ s[Len(a) + 1] = x /\ s[Len(a) + 2] = y
  /\ \A i \in 1 .. Len(b) : s[Len(a) + 2 + i] = b[i]
  /\ SubSeq(s, Len(a) + 3, Len(s)) = b

LEMMA Between ==
  ASSUME NEW T, NEW a \in Seq(T), NEW x \in T, NEW y \in T, NEW b \in Seq(T)
  PROVE  IsBetween(T, a, x, y, b, a \o <<x, y>> \o b)
<1> DEFINE h == <<x, y>>
           ah == a \o h
           s == ah \o b
<1>1. Len(h) = 2 /\ h[1] = x /\ h[2] = y OBVIOUS
<1>2. h \in Seq(T) OBVIOUS
<1> HIDE DEF h
<1>3. ah \in Seq(T) /\ Len(ah) = Len(a) + Len(h) /\ Len(a) \in Nat /\ Len(b) \in Nat
  BY <1>2
<1>4. ah \in Seq(T) /\ Len(ah) = Len(a) + 2 /\ Len(a) \in Nat /\ Len(b) \in Nat
  BY <1>1, <1>3
<1>5. \A i \in 1 .. Len(a) : ah[i] = a[i] BY <1>2
<1>6. \A i \in 1 .. Len(h) : ah[Len(a) + i] = h[i] BY <1>2, ConcatSecond
<1> HIDE DEF ah
<1>7. s \in Seq(T) /\ Len(s) = Len(ah) + Len(b) BY <1>4
<1>8. \A i \in 1 .. Len(ah) : s[i] = ah[i] BY <1>4
<1>9. \A i \in 1 .. Len(b) : s[Len(ah) + i] = b[i] BY <1>4
<1>10. SubSeq(s, Len(ah) + 1, Len(s)) = b BY <1>4
<1> HIDE DEF s
<1>11. Len(ah) + 1 = Len(a) + 3 BY <1>4
<1>12. \A i \in 1 .. Len(a) : s[i] = a[i] BY <1>4, <1>5, <1>8
<1>13. ah[Len(a) + 1] = x /\ ah[Len(a) + 2] = y
  <2>1. 1 \in 1 .. Len(h) /\ 2 \in 1 .. Len(h) BY <1>1
  <2> QED BY <1>1, <1>6, <2>1
<1>14. s[Len(a) + 1] = x /\ s[Len(a) + 2] = y BY <1>4, <1>13, <1>8
<1> QED BY <1>4, <1>7, <1>11, <1>12, <1>14, <1>9, <1>10 DEF s, ah, h, IsBetween

LEMMA FirstOf == ASSUME NEW T, NEW s \in Seq(T), s # <<>> PROVE SubSeq(s, 1, 1) = <<s[1]>>
<1> DEFINE r == SubSeq(s, 1, 1)
           f == <<s[1]>>
<1>1. Len(s) \in Nat /\ Len(s) # 0 OBVIOUS
<1>2. s[1] \in T BY <1>1
<1>3. r \in Seq(T) /\ Len(r) = 1 /\ r[1] = s[1] BY <1>1
<1>4. f \in Seq(T) /\ Len(f) = 1 /\ f[1] = s[1] BY <1>2
<1> HIDE DEF r, f
<1>5. r = f BY <1>3, <1>4
<1> QED BY <1>5 DEF r, f

LEMMA ThirdOf ==
  ASSUME NEW T, NEW s \in Seq(T), Len(s) = 3 PROVE SubSeq(s, 3, 3) = <<s[3]>>
<1> DEFINE u == SubSeq(s, 3, 3)
<1>1. u \in Seq(T) /\ Len(u) = 1 /\ u[1] = s[3] OBVIOUS
<1>2. DOMAIN u = {1} BY <1>1
<1>3. u = [i \in {1} |-> s[3]] BY <1>1, <1>2
<1>4. <<s[3]>> = [i \in {1} |-> s[3]] OBVIOUS
<1> QED BY <1>3, <1>4

LEMMA TwoIs ==
  ASSUME NEW T, NEW x \in T, NEW y \in T
  PROVE  /\ Append(<<x>>, y) \in Seq(T) /\ Len(Append(<<x>>, y)) = 2
         /\ Append(<<x>>, y)[1] = x /\ Append(<<x>>, y)[2] = y
OBVIOUS

LEMMA RestType ==
  ASSUME NEW T, NEW b \in Seq(T), NEW n \in 0 .. Len(b)
  PROVE  /\ SubSeq(b, n + 1, Len(b)) \in Seq(T) /\ Len(SubSeq(b, n + 1, Len(b))) = Len(b) - n
         /\ \A i \in 1 .. Len(b) - n : SubSeq(b, n + 1, Len(b))[i] = b[n + i]
OBVIOUS

\* A text is one that begins it and the rest.
LEMMA BeginAndRest ==
  ASSUME NEW T, NEW b \in Seq(T), NEW h \in Seq(T), Len(h) <= Len(b),
         \A i \in 1 .. Len(h) : h[i] = b[i]
  PROVE  b = h \o SubSeq(b, Len(h) + 1, Len(b))
<1> DEFINE n == Len(h)
           m == Len(b)
           t == SubSeq(b, n + 1, m)
<1>1. n \in Nat /\ m \in Nat /\ n <= m OBVIOUS
<1>2. t \in Seq(T) /\ Len(t) = m - n /\ \A i \in 1 .. m - n : t[i] = b[n + i]
  BY <1>1, RestType
<1> HIDE DEF t
<1>3. h \o t \in Seq(T) /\ Len(h \o t) = n + Len(t)
  BY <1>2
<1>4. \A i \in 1 .. n : (h \o t)[i] = h[i] BY <1>2, ConcatFirst
<1>5. \A i \in 1 .. Len(t) : (h \o t)[n + i] = t[i] BY <1>2, ConcatSecond
<1> DEFINE v == h \o t
<1>6. /\ v \in Seq(T) /\ Len(v) = m
      /\ \A i \in 1 .. n : v[i] = b[i]
      /\ \A i \in 1 .. m - n : v[n + i] = b[n + i]
  BY <1>1, <1>2, <1>3, <1>4, <1>5
<1> HIDE DEF v, n, m
<1>7. ASSUME NEW i \in 1 .. m PROVE v[i] = b[i]
  <2>1. CASE i <= n BY <1>1, <1>6, <2>1
  <2>2. CASE i > n
    <3>1. i - n \in 1 .. m - n /\ n + (i - n) = i BY <1>1, <2>2
    <3> QED BY <1>6, <3>1
  <2> QED BY <1>1, <2>1, <2>2
<1>8. Len(b) = m BY DEF m
<1>9. b = v BY <1>6, <1>7, <1>8
<1> QED BY <1>9 DEF v, t, n, m

\* A text from its first two elements on.
LEMMA FromTwo ==
  ASSUME NEW T, NEW b \in Seq(T), Len(b) > 1
  PROVE  b = Append(<<b[1]>>, b[2]) \o SubSeq(b, 3, Len(b))
<1> DEFINE h == Append(<<b[1]>>, b[2])
<1>1. b[1] \in T /\ b[2] \in T /\ Len(b) \in Nat /\ Len(b) >= 2 OBVIOUS
<1>2. h \in Seq(T) /\ Len(h) = 2 /\ h[1] = b[1] /\ h[2] = b[2] BY <1>1, TwoIs
<1> HIDE DEF h
<1>3. \A i \in 1 .. Len(h) : h[i] = b[i] BY <1>2
<1>4. b = h \o SubSeq(b, Len(h) + 1, Len(b)) BY <1>1, <1>2, <1>3, BeginAndRest
<1>5. Len(h) + 1 = 3 BY <1>2
<1> QED BY <1>4, <1>5 DEF h

\* Texts that begin others.
LEMMA PrefixIs ==
  ASSUME NEW T, NEW s \in Seq(T), NEW t \in Seq(T)
  PROVE  IsPrefix(s, t) <=> Len(s) <= Len(t) /\ \A i \in 1 .. Len(s) : s[i] = t[i]
<1>1. Len(s) \in Nat /\ Len(t) \in Nat OBVIOUS
<1>2. SubSeq(s, 1, Len(s)) = s OBVIOUS
<1>3. ASSUME Len(s) <= Len(t)
      PROVE  SubSeq(t, 1, Len(s)) = s <=> \A i \in 1 .. Len(s) : s[i] = t[i]
  <2> DEFINE u == SubSeq(t, 1, Len(s))
  <2>1. u \in Seq(T) /\ Len(u) = Len(s) /\ \A i \in 1 .. Len(s) : u[i] = t[i] BY <1>1, <1>3
  <2> HIDE DEF u
  <2>2. ASSUME \A i \in 1 .. Len(s) : s[i] = t[i] PROVE u = s
    <3>1. \A i \in 1 .. Len(s) : u[i] = s[i] BY <2>1, <2>2
    <3> QED BY <2>1, <3>1
  <2>3. ASSUME u = s PROVE \A i \in 1 .. Len(s) : s[i] = t[i] BY <2>1, <2>3
  <2>4. u = s <=> \A i \in 1 .. Len(s) : s[i] = t[i] BY <2>2, <2>3
  <2> QED BY <2>4 DEF u
<1> QED BY <1>2, <1>3 DEF IsPrefix

LEMMA PrefixSame == ASSUME NEW T, NEW s \in Seq(T) PROVE IsPrefix(s, s)
BY PrefixIs

LEMMA PrefixConcat ==
  ASSUME NEW T, NEW s \in Seq(T), NEW t \in Seq(T), NEW u \in Seq(T), IsPrefix(s, t)
  PROVE  IsPrefix(s, t \o u)
<1> DEFINE v == t \o u
<1>1. v \in Seq(T) /\ Len(v) = Len(t) + Len(u) /\ Len(t) \in Nat /\ Len(u) \in Nat
      /\ Len(s) \in Nat
  BY ConcatType, ConcatLen
<1>2. \A i \in 1 .. Len(t) : v[i] = t[i] BY ConcatFirst
<1>3. Len(s) <= Len(t) /\ \A i \in 1 .. Len(s) : s[i] = t[i] BY PrefixIs
<1> HIDE DEF v
<1>4. Len(s) <= Len(v) /\ \A i \in 1 .. Len(s) : s[i] = v[i] BY <1>1, <1>2, <1>3
<1>5. IsPrefix(s, v) BY <1>1, <1>4, PrefixIs
<1> QED BY <1>5 DEF v

-----------------------------------------------------------------------------
(* Tokens. *)

LEMMA TokensOfIs ==
  ASSUME NEW s, NEW separators
  PROVE  TokensOf(s, separators) =
           Whole(Cutting!Folded(separators, [done |-> <<>>, word |-> <<>>], s))
BY DEF TokensOf, FoldLeft, MapThenFoldSet, Cutting!Folded, Cutting!Iter, Max, Cutting!Highest

Cuts(T) == [done : Seq(Seq(T) \ {<<>>}), word : Seq(T)]

LEMMA WholeType ==
  ASSUME NEW T, NEW cut \in Cuts(T)
  PROVE  Whole(cut) \in Seq(Seq(T) \ {<<>>})
<1>1. cut.done \in Seq(Seq(T) \ {<<>>}) /\ cut.word \in Seq(T) BY DEF Cuts
<1> QED BY <1>1 DEF Whole

LEMMA CutNextType ==
  ASSUME NEW T, NEW separators, NEW cut \in Cuts(T), NEW l \in T
  PROVE  CutNext(separators, cut, l) \in Cuts(T)
<1>1. cut.done \in Seq(Seq(T) \ {<<>>}) /\ cut.word \in Seq(T) BY DEF Cuts
<1>2. Whole(cut) \in Seq(Seq(T) \ {<<>>}) BY WholeType
<1>3. Append(cut.word, l) \in Seq(T) /\ <<>> \in Seq(T) BY <1>1
<1> QED BY <1>1, <1>2, <1>3 DEF CutNext, Cuts

\* Tokens are never empty.
LEMMA TokensOfType ==
  ASSUME NEW T, NEW s \in Seq(T), NEW separators
  PROVE  TokensOf(s, separators) \in Seq(Seq(T) \ {<<>>})
<1> DEFINE start == [done |-> <<>>, word |-> <<>>]
<1>1. start \in Cuts(T) BY DEF Cuts
<1>2. \A cut \in Cuts(T), l \in T : CutNext(separators, cut, l) \in Cuts(T) BY CutNextType
<1> HIDE DEF start
<1>3. Cutting!Folded(separators, start, s) \in Cuts(T) BY <1>1, <1>2, Cutting!FoldedIn
<1> QED BY <1>3, WholeType, TokensOfIs DEF start

\* Words that are done stay in front of what follows.
Behind(done, cut) == [done |-> done \o cut.done, word |-> cut.word]

LEMMA BehindWhole ==
  ASSUME NEW T, NEW done \in Seq(Seq(T) \ {<<>>}), NEW cut \in Cuts(T)
  PROVE  Whole(Behind(done, cut)) = done \o Whole(cut)
<1> DEFINE Words == Seq(T) \ {<<>>}
<1>1. cut.done \in Seq(Words) /\ (cut.word # <<>> => cut.word \in Words) BY DEF Cuts
<1>2. Behind(done, cut).done = done \o cut.done /\ Behind(done, cut).word = cut.word
  BY DEF Behind
<1> HIDE DEF Words
<1>3. done \in Seq(Words) BY DEF Words
<1>4. cut.word # <<>> => done \o Append(cut.done, cut.word) = Append(done \o cut.done, cut.word)
  BY <1>1, <1>3, Cutting!ConcatAppend
<1> QED BY <1>2, <1>4 DEF Whole

LEMMA BehindNext ==
  ASSUME NEW T, NEW separators, NEW done \in Seq(Seq(T) \ {<<>>}), NEW cut \in Cuts(T),
         NEW l \in T
  PROVE  CutNext(separators, Behind(done, cut), l) = Behind(done, CutNext(separators, cut, l))
<1>1. Whole(Behind(done, cut)) = done \o Whole(cut) BY BehindWhole
<1>2. Behind(done, cut).done = done \o cut.done /\ Behind(done, cut).word = cut.word
  BY DEF Behind
<1>3. CASE l \in separators
  <2>1. CutNext(separators, cut, l) = [done |-> Whole(cut), word |-> <<>>] BY <1>3 DEF CutNext
  <2>2. CutNext(separators, Behind(done, cut), l) = [done |-> done \o Whole(cut), word |-> <<>>]
    BY <1>1, <1>3 DEF CutNext
  <2> QED BY <2>1, <2>2 DEF Behind
<1>4. CASE l \notin separators
  <2>1. CutNext(separators, cut, l) = [done |-> cut.done, word |-> Append(cut.word, l)]
    BY <1>4 DEF CutNext
  <2>2. CutNext(separators, Behind(done, cut), l) =
          [done |-> done \o cut.done, word |-> Append(cut.word, l)]
    BY <1>2, <1>4 DEF CutNext
  <2> QED BY <2>1, <2>2 DEF Behind
<1> QED BY <1>3, <1>4

Start == [done |-> <<>>, word |-> <<>>]

LEMMA StartType == ASSUME NEW T PROVE Start \in Cuts(T)
BY DEF Start, Cuts

LEMMA CutsType ==
  ASSUME NEW T, NEW separators, NEW cut \in Cuts(T)
  PROVE  \A s \in Seq(T) : Cutting!Folded(separators, cut, s) \in Cuts(T)
<1>1. \A c \in Cuts(T), l \in T : CutNext(separators, c, l) \in Cuts(T) BY CutNextType
<1> QED BY <1>1, Cutting!FoldedIn

LEMMA CutBehind ==
  ASSUME NEW T, NEW separators, NEW done \in Seq(Seq(T) \ {<<>>})
  PROVE  \A t \in Seq(T) : Cutting!Folded(separators, [done |-> done, word |-> <<>>], t) =
                            Behind(done, Cutting!Folded(separators, Start, t))
<1>1. ASSUME NEW cut \in Cuts(T), NEW l \in T
      PROVE  CutNext(separators, Behind(done, cut), l) = Behind(done, CutNext(separators, cut, l))
  BY BehindNext, SMTT(30)
<1> DEFINE from == [done |-> done, word |-> <<>>]
           S == {t \in Seq(T) : Cutting!Folded(separators, from, t) =
                                  Behind(done, Cutting!Folded(separators, Start, t))}
<1>2. <<>> \in S
  <2>1. Cutting!Folded(separators, from, <<>>) = from BY Cutting!FoldedEmpty
  <2>2. Cutting!Folded(separators, Start, <<>>) = Start BY Cutting!FoldedEmpty
  <2>3. Behind(done, Start) = from
    <3>1. done \o <<>> = done OBVIOUS
    <3> QED BY <3>1 DEF Behind, Start
  <2>4. <<>> \in Seq(T) OBVIOUS
  <2> QED BY <2>1, <2>2, <2>3, <2>4
<1>3. ASSUME NEW t \in Seq(T), NEW l \in T, t \in S PROVE Append(t, l) \in S
  <2>1. PICK cut \in Cuts(T) : cut = Cutting!Folded(separators, Start, t) BY StartType, CutsType
  <2>2. Cutting!Folded(separators, Start, Append(t, l)) = CutNext(separators, cut, l)
    BY <2>1, Cutting!FoldedAppend
  <2> HIDE DEF from
  <2>3. Cutting!Folded(separators, from, Append(t, l)) =
          CutNext(separators, Cutting!Folded(separators, from, t), l)
    BY Cutting!FoldedAppend
  <2>4. Cutting!Folded(separators, from, t) = Behind(done, cut) BY <1>3, <2>1
  <2>5. CutNext(separators, Behind(done, cut), l) = Behind(done, CutNext(separators, cut, l))
    BY <1>1
  <2>6. Append(t, l) \in Seq(T) OBVIOUS
  <2> QED BY <2>2, <2>3, <2>4, <2>5, <2>6
<1> HIDE DEF S
<1>4. Seq(T) \subseteq S BY <1>2, <1>3, Cutting!SequenceInduction
<1> QED BY <1>4 DEF S

\* A separator between two texts parts their tokens.
LEMMA TokensBehind ==
  ASSUME NEW T, NEW separators, NEW b \in T, b \in separators, NEW s \in Seq(T), NEW t \in Seq(T)
  PROVE  TokensOf(Append(s, b) \o t, separators) =
           TokensOf(s, separators) \o TokensOf(t, separators)
<1> DEFINE sb == Append(s, b)
           cs == Cutting!Folded(separators, Start, s)
           ct == Cutting!Folded(separators, Start, t)
<1>1. cs \in Cuts(T) /\ ct \in Cuts(T) BY StartType, CutsType
<1>2. Cutting!Folded(separators, Start, sb) = CutNext(separators, cs, b)
  BY Cutting!FoldedAppend
<1>3. sb \in Seq(T) OBVIOUS
<1> HIDE DEF sb
<1>4. Cutting!Folded(separators, Start, sb \o t) =
        Cutting!Folded(separators, Cutting!Folded(separators, Start, sb), t)
  BY <1>3, Cutting!FoldedConcat
<1>5. TokensOf(s, separators) = Whole(cs) /\ TokensOf(t, separators) = Whole(ct)
  BY TokensOfIs DEF Start
<1>6. TokensOf(sb \o t, separators) = Whole(Cutting!Folded(separators, Start, sb \o t))
  BY TokensOfIs DEF Start
<1> HIDE DEF cs
<1>7. CutNext(separators, cs, b) = [done |-> Whole(cs), word |-> <<>>] BY DEF CutNext
<1>8. Whole(cs) \in Seq(Seq(T) \ {<<>>}) BY <1>1, WholeType
<1>9. Cutting!Folded(separators, [done |-> Whole(cs), word |-> <<>>], t) = Behind(Whole(cs), ct)
  BY <1>8, CutBehind
<1> HIDE DEF ct
<1>10. Whole(Behind(Whole(cs), ct)) = Whole(cs) \o Whole(ct) BY <1>1, <1>8, BehindWhole
<1> QED BY <1>2, <1>4, <1>5, <1>6, <1>7, <1>9, <1>10 DEF sb

\* A text without separators is its one token, or has none.
LEMMA TokensOfWord ==
  ASSUME NEW T, NEW separators
  PROVE  \A w \in Seq(T \ separators) :
           TokensOf(w, separators) = IF w = <<>> THEN <<>> ELSE <<w>>
<1> DEFINE U == T \ separators
           S == {w \in Seq(U) : Cutting!Folded(separators, Start, w) = [done |-> <<>>, word |-> w]}
<1>1. <<>> \in S
  <2>1. Cutting!Folded(separators, Start, <<>>) = Start BY Cutting!FoldedEmpty
  <2> QED BY <2>1 DEF Start
<1>2. ASSUME NEW w \in Seq(U), NEW l \in U, w \in S PROVE Append(w, l) \in S
  <2>1. Cutting!Folded(separators, Start, Append(w, l)) =
          CutNext(separators, Cutting!Folded(separators, Start, w), l)
    BY Cutting!FoldedAppend
  <2>2. Cutting!Folded(separators, Start, w) = [done |-> <<>>, word |-> w] BY <1>2
  <2>3. l \notin separators OBVIOUS
  <2>4. CutNext(separators, [done |-> <<>>, word |-> w], l) = [done |-> <<>>, word |-> Append(w, l)]
    BY <2>3 DEF CutNext
  <2>5. Append(w, l) \in Seq(U) OBVIOUS
  <2> QED BY <2>1, <2>2, <2>4, <2>5
<1> HIDE DEF S, U
<1>3. Seq(U) \subseteq S BY <1>1, <1>2, Cutting!SequenceInduction
<1> SUFFICES ASSUME NEW w \in Seq(U)
             PROVE  TokensOf(w, separators) = IF w = <<>> THEN <<>> ELSE <<w>>
  BY DEF U
<1>4. Cutting!Folded(separators, Start, w) = [done |-> <<>>, word |-> w] BY <1>3 DEF S
<1>5. TokensOf(w, separators) = Whole([done |-> <<>>, word |-> w]) BY <1>4, TokensOfIs DEF Start
<1>6. Append(<<>>, w) = <<w>> OBVIOUS
<1> QED BY <1>5, <1>6 DEF Whole

\* A word in front of a separator is the first token.
UnbrokenWords(T, separators) == Seq(T \ separators) \ {<<>>}
IsFirstToken(w, b, t, separators) ==
  TokensOf(Append(w, b) \o t, separators) = <<w>> \o TokensOf(t, separators)

LEMMA TokensBehindWord ==
  ASSUME NEW T, NEW separators, NEW b \in T, b \in separators,
         NEW w \in UnbrokenWords(T, separators), NEW t \in Seq(T)
  PROVE  IsFirstToken(w, b, t, separators)
<1>1. w \in Seq(T \ separators) /\ w # <<>> BY DEF UnbrokenWords
<1>2. TokensOf(w, separators) = <<w>> BY <1>1, TokensOfWord
<1>3. w \in Seq(T)
  <2>1. T \ separators \subseteq T OBVIOUS
  <2> QED BY <1>1, <2>1, SeqMonotone
<1>4. TokensOf(Append(w, b) \o t, separators) =
        TokensOf(w, separators) \o TokensOf(t, separators)
  BY <1>3, TokensBehind
<1> QED BY <1>2, <1>4 DEF IsFirstToken
==============================================================================
