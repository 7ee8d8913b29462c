----------------------------- MODULE WireProofs -----------------------------
(***************************************************************************)
(* Proofs about Wire: what the parser makes of any line whatever, that     *)
(* the two parsers differ in nothing but what is named, and what becomes   *)
(* of requests and answers of any length.                                  *)
(***************************************************************************)
EXTENDS Wire, Texts

-----------------------------------------------------------------------------
(* Runs of lexemes. *)

\* What Run chooses.
RunEnds(s, i, class, e) ==
  /\ e \in i .. Len(s) + 1
  /\ e > Len(s) \/ s[e] \notin class
  /\ \A k \in i .. e - 1 : s[k] \in class

LEMMA RunIs ==
  ASSUME NEW T, NEW s \in Seq(T), NEW i \in 1 .. Len(s) + 1, NEW class
  PROVE  RunEnds(s, i, class, Run(s, i, class))
<1> DEFINE S == {e \in i .. Len(s) + 1 : e > Len(s) \/ s[e] \notin class}
<1>1. Len(s) + 1 \in S /\ S \in SUBSET Nat OBVIOUS
<1>2. PICK e \in S : \A x \in S : e <= x BY <1>1, Cutting!LeastElement
<1>3. RunEnds(s, i, class, e) BY <1>2 DEF RunEnds
<1> QED BY <1>3 DEF Run, RunEnds

LEMMA RunUnique ==
  ASSUME NEW T, NEW s \in Seq(T), NEW i \in 1 .. Len(s) + 1, NEW class,
         NEW e, RunEnds(s, i, class, e)
  PROVE  Run(s, i, class) = e
<1>1. RunEnds(s, i, class, Run(s, i, class)) BY RunIs
<1> QED BY <1>1 DEF RunEnds

LEMMA RunRange ==
  ASSUME NEW T, NEW s \in Seq(T), NEW i \in 1 .. Len(s) + 1, NEW class
  PROVE  Run(s, i, class) \in i .. Len(s) + 1 /\ Run(s, i, class) \in 1 .. Len(s) + 1
<1>1. RunEnds(s, i, class, Run(s, i, class)) BY RunIs
<1> QED BY <1>1 DEF RunEnds

-----------------------------------------------------------------------------
(* Numbers. *)

PutDigit(none, n, d) == 10 * n + DigitValue[d]
Number == INSTANCE Folding WITH Op <- PutDigit

LEMMA ValueIs == ASSUME NEW s PROVE Value(s) = Number!Folded(0, 0, s)
BY DEF Value, FoldLeft, MapThenFoldSet, Number!Folded, Number!Iter, PutDigit, Max, Number!Highest

LEMMA DigitValueType == DigitValue \in [Digits -> 0 .. 9]
<1> DEFINE printed == <<"0", "1", "2", "3", "4", "5", "6", "7", "8", "9">>
<1>1. \A d \in Digits : \E v \in 0 .. 9 : printed[v + 1] = d
  <2> SUFFICES ASSUME NEW d \in Digits PROVE \E v \in 0 .. 9 : printed[v + 1] = d
    OBVIOUS
  <2>1. /\ printed[0 + 1] = "0" /\ printed[1 + 1] = "1" /\ printed[2 + 1] = "2"
        /\ printed[3 + 1] = "3" /\ printed[4 + 1] = "4" /\ printed[5 + 1] = "5"
        /\ printed[6 + 1] = "6" /\ printed[7 + 1] = "7" /\ printed[8 + 1] = "8"
        /\ printed[9 + 1] = "9"
    OBVIOUS
  <2> HIDE DEF printed
  <2> QED BY <2>1 DEF Digits
<1> QED BY <1>1 DEF DigitValue

LEMMA ValueType == \A s \in Seq(Digits) : Value(s) \in Nat
<1>1. \A n \in Nat, d \in Digits : PutDigit(0, n, d) \in Nat BY DigitValueType DEF PutDigit
<1>2. \A s \in Seq(Digits) : Number!Folded(0, 0, s) \in Nat BY <1>1, Number!FoldedIn
<1> QED BY <1>2, ValueIs

\* What strtoul() and the cast make of digits: a number that fits stays itself.
LEMMA NarrowedIs ==
  ASSUME NEW digits \in Seq(Digits)
  PROVE  /\ StrToUL(digits) \in Nat
         /\ Value(digits) < IdLimit => StrToUL(digits) = Value(digits)
         /\ Narrowed(Native, digits) \in 0 .. IdLimit - 1
         /\ Value(digits) < IdLimit => Narrowed(Native, digits) = Value(digits)
         /\ Narrowed(Python, digits) = Value(digits)
<1>1. Value(digits) \in Nat BY ValueType
<1>2. IdLimit \in Nat \ {0} /\ LongLimit \in Nat /\ LongLimit >= IdLimit BY WireAssumption
<1>3. /\ StrToUL(digits) \in Nat
      /\ Value(digits) < IdLimit => StrToUL(digits) = Value(digits)
  BY <1>1, <1>2 DEF StrToUL
<1>4. Narrowed(Native, digits) = StrToUL(digits) % IdLimit BY <1>2 DEF Narrowed, Native
<1>5. Narrowed(Python, digits) = Value(digits) BY DEF Narrowed, Python
<1>6. \A n \in Nat : n % IdLimit \in 0 .. IdLimit - 1 /\ (n < IdLimit => n % IdLimit = n)
  BY <1>2
<1>7. Value(digits) < IdLimit => Value(digits) % IdLimit = Value(digits) BY <1>1, <1>6
<1> QED BY <1>3, <1>4, <1>5, <1>6, <1>7

-----------------------------------------------------------------------------
(* Tokens. *)

LEMMA TokenType ==
  ASSUME NEW T, NEW s \in Seq(T), NEW i \in 1 .. Len(s) + 1, NEW class
  PROVE  /\ Token(s, i, class).text \in Seq(T)
         /\ Token(s, i, class).next \in 1 .. Len(s) + 1
<1> DEFINE from == Run(s, i, Blank)
           next == Run(s, from, class)
<1>1. from \in 1 .. Len(s) + 1 BY RunRange
<1> HIDE DEF from
<1>2. next \in from .. Len(s) + 1 /\ next \in 1 .. Len(s) + 1 BY <1>1, RunRange
<1> HIDE DEF next
<1>3. SubSeq(s, from, next - 1) \in Seq(T) BY <1>1, <1>2
<1> QED BY <1>2, <1>3 DEF Token, from, next

-----------------------------------------------------------------------------
(* What a node makes of any text. *)

LEMMA NativeFields ==
  /\ Native.ident = Ident /\ Native.groups = {"group", "GROUP"}
  /\ Native.token = MAX_TOKEN - 1 /\ Native.args = MAX_ARGS
  /\ Native.digits = IdDigits /\ Native.limit = IdLimit
BY DEF Native

LEMMA PythonFields ==
  /\ Python.ident = Ident \cup Foreign /\ Python.groups = Groups
  /\ Python.token = NoLimit /\ Python.args = NoLimit
  /\ Python.digits = NoLimit /\ Python.limit = 0
BY DEF Python

LEMMA CutType ==
  ASSUME NEW T, NEW token \in Seq(T)
  PROVE  /\ Cut(Native, token) \in Seq(T) /\ Len(Cut(Native, token)) <= MAX_TOKEN - 1
         /\ Cut(Native, token) = <<>> <=> token = <<>>
         /\ Len(token) < MAX_TOKEN => Cut(Native, token) = token
         /\ Cut(Python, token) = token
<1>1. MAX_TOKEN - 1 \in Nat \ {0} /\ MAX_TOKEN \in Nat BY WireAssumption
<1>2. Len(token) \in Nat /\ SubSeq(token, 1, Len(token)) = token OBVIOUS
<1>3. Cut(Python, token) = token
  BY <1>2, PythonFields DEF Cut, AtMost, NoLimit
<1>4. AtMost(Len(token), MAX_TOKEN - 1) =
        IF Len(token) > MAX_TOKEN - 1 THEN MAX_TOKEN - 1 ELSE Len(token)
  BY <1>1 DEF AtMost, NoLimit
<1>5. Cut(Native, token) = SubSeq(token, 1, AtMost(Len(token), MAX_TOKEN - 1))
  BY NativeFields DEF Cut
<1>6. CASE Len(token) > MAX_TOKEN - 1
  <2> DEFINE k == MAX_TOKEN - 1
  <2>1. k \in 1 .. Len(token) BY <1>1, <1>2, <1>6
  <2>2. Cut(Native, token) = SubSeq(token, 1, k) BY <1>4, <1>5, <1>6
  <2> HIDE DEF k
  <2>3. SubSeq(token, 1, k) \in Seq(T) /\ Len(SubSeq(token, 1, k)) = k BY <2>1
  <2>4. token # <<>> /\ SubSeq(token, 1, k) # <<>> BY <2>1, <2>3
  <2> QED BY <1>1, <1>3, <1>6, <2>1, <2>2, <2>3, <2>4 DEF k
<1>7. CASE Len(token) <= MAX_TOKEN - 1
  BY <1>1, <1>2, <1>3, <1>4, <1>5, <1>7
<1> QED BY <1>1, <1>2, <1>6, <1>7

LEMMA LowerLen ==
  ASSUME NEW T, NEW token \in Seq(T)
  PROVE  Len(Lower(token)) = Len(token) /\ (Lower(token) = <<>> <=> token = <<>>)
BY DEF Lower

LEMMA CanonicalLen ==
  ASSUME NEW T, NEW token \in Seq(T)
  PROVE  Len(Canonical(Lower(token))) = Len(token)
<1>1. Len(Lower(token)) = Len(token) BY LowerLen
<1> QED BY <1>1 DEF Canonical

LEMMA Dialects == ASSUME NEW d \in {Native, Python}, NEW token \in Seq(Lexemes)
                  PROVE  Cut(d, token) \in Seq(Lexemes)
BY CutType

LEMMA DestinationType ==
  ASSUME NEW s \in Seq(Lexemes), NEW p \in 1 .. Len(s), NEW d \in {Native, Python}
  PROVE  LET dest == Destination(d, s, p)
         IN /\ dest.kind \in {"Named", "All", "Self", "Group", "Id"}
            /\ dest.target \in Seq(Lexemes)
            /\ dest.next \in 1 .. Len(s) + 1
            /\ d = Native => Len(dest.target) <= MAX_TOKEN - 1
<1> DEFINE dest == Destination(d, s, p)
<1>1. CASE s[p] = "@"
  <2> DEFINE e == Run(s, p + 1, HexDigit)
             hex == SubSeq(s, p + 1, e - 1)
  <2>1. e \in p + 1 .. Len(s) + 1 BY RunRange
  <2>2. dest = [kind |-> "Id", target |-> Cut(d, hex), next |-> e]
    BY <1>1 DEF Destination
  <2> HIDE DEF e
  <2>3. hex \in Seq(Lexemes) /\ e \in 1 .. Len(s) + 1 BY <2>1
  <2> HIDE DEF hex
  <2> QED BY <2>2, <2>3, Dialects, CutType
<1>2. CASE s[p] # "@" /\ p < Len(s) /\ s[p] \in d.groups /\ s[p + 1] = ":"
  <2> DEFINE t == Token(s, p + 2, d.ident)
  <2>1. t.text \in Seq(Lexemes) /\ t.next \in 1 .. Len(s) + 1 BY <1>2, TokenType
  <2>2. dest = [kind |-> "Group", target |-> Cut(d, t.text), next |-> t.next]
    BY <1>2 DEF Destination
  <2> HIDE DEF t
  <2> QED BY <2>1, <2>2, Dialects, CutType
<1>3. CASE ~(s[p] = "@") /\ ~(p < Len(s) /\ s[p] \in d.groups /\ s[p + 1] = ":")
  <2> DEFINE t == Token(s, p, d.ident)
  <2>1. t.text \in Seq(Lexemes) /\ t.next \in 1 .. Len(s) + 1 BY TokenType
  <2>2. dest = [kind |-> AddressOf(Cut(d, t.text)), target |-> Cut(d, t.text), next |-> t.next]
    BY <1>3 DEF Destination
  <2> HIDE DEF t
  <2>3. AddressOf(Cut(d, t.text)) \in {"All", "Self", "Named"} BY DEF AddressOf
  <2> QED BY <2>1, <2>2, <2>3, Dialects, CutType
<1> QED BY <1>1, <1>2, <1>3

LEMMA AtMostIs ==
  ASSUME NEW n \in Nat, NEW limit \in Nat \cup {NoLimit}
  PROVE  /\ AtMost(n, limit) \in 0 .. n
         /\ limit # NoLimit => AtMost(n, limit) <= limit
         /\ limit = NoLimit \/ n <= limit => AtMost(n, limit) = n
BY DEF AtMost, NoLimit

LEMMA IdAfterType ==
  ASSUME NEW s \in Seq(Lexemes), NEW p \in 1 .. Len(s) + 1, NEW d \in {Native, Python}
  PROVE  LET rid == IdAfter(d, s, p)
         IN /\ rid.next \in 1 .. Len(s) + 1
            /\ rid.id \in {NoId} \cup Nat
            /\ d = Native => rid.id \in {NoId} \cup 0 .. IdLimit - 1
<1> DEFINE q == Run(s, p, Blank)
           found == q <= Len(s) /\ s[q] = "#"
           r == Run(s, q + 1, Digits)
           k == r - (q + 1)
           n == AtMost(k, d.digits)
           e == IF found THEN q + 1 + n ELSE q
           digits == SubSeq(s, q + 1, e - 1)
<1>1. q \in 1 .. Len(s) + 1 BY RunRange
<1>2. /\ IdAfter(d, s, p).next = e
      /\ IdAfter(d, s, p).id = IF found THEN Narrowed(d, digits) ELSE NoId
  BY DEF IdAfter
<1> HIDE DEF q
<1>3. CASE ~found
  BY <1>1, <1>2, <1>3
<1>4. CASE found
  <2>1. q + 1 \in 1 .. Len(s) + 1 /\ q + 1 \in Nat BY <1>1, <1>4
  <2>2. RunEnds(s, q + 1, Digits, r) BY <2>1, RunIs
  <2>3. r \in q + 1 .. Len(s) + 1 /\ \A j \in q + 1 .. r - 1 : s[j] \in Digits
    BY <2>2 DEF RunEnds
  <2> HIDE DEF r
  <2>4. k \in Nat BY <2>1, <2>3
  <2>5. n \in 0 .. k
    <3>1. d.digits \in Nat \cup {NoLimit} BY WireAssumption, NativeFields, PythonFields
    <3> HIDE DEF k
    <3> QED BY <2>4, <3>1, AtMostIs
  <2> HIDE DEF n
  <2>6. e = q + 1 + n BY <1>4
  <2>7. e \in q + 1 .. r BY <2>1, <2>3, <2>5, <2>6
  <2> HIDE DEF e, found
  <2>8. digits \in Seq(Digits)
    <3>1. \A j \in q + 1 .. e - 1 : s[j] \in Digits BY <2>1, <2>3, <2>7
    <3>2. q + 1 \in 1 .. Len(s) + 1 /\ e - 1 \in 0 .. Len(s) BY <2>1, <2>3, <2>7
    <3> QED BY <2>1, <3>1, <3>2
  <2>9. Value(digits) \in Nat BY <2>8, ValueType
  <2>10. /\ Narrowed(d, digits) \in Nat
         /\ d = Native => Narrowed(d, digits) \in 0 .. IdLimit - 1
    <3> HIDE DEF digits
    <3>1. IdLimit \in Nat \ {0} BY WireAssumption
    <3>2. /\ Narrowed(Native, digits) \in 0 .. IdLimit - 1
          /\ Narrowed(Python, digits) \in Nat
      BY <2>8, <2>9, NarrowedIs
    <3>3. 0 .. IdLimit - 1 \subseteq Nat BY <3>1
    <3>4. Native # Python BY <3>1, NativeFields, PythonFields
    <3> QED BY <3>2, <3>3, <3>4
  <2>11. /\ IdAfter(d, s, p).next \in 1 .. Len(s) + 1
         /\ IdAfter(d, s, p).id = Narrowed(d, digits)
    BY <1>2, <1>4, <2>1, <2>3, <2>7 DEF found
  <2> QED BY <2>10, <2>11
<1> QED BY <1>3, <1>4

\* The arguments are the first tokens of what is left of the line, cut.
LEMMA ArgumentsAre ==
  ASSUME NEW s \in Seq(Lexemes), NEW p \in 1 .. Len(s) + 1, NEW d \in {Native, Python}
  PROVE  LET args == TokensOf(SubSeq(s, p, Run(s, p, Lexemes \ Break) - 1), Blank)
             n == AtMost(Len(args), d.args)
         IN /\ args \in Seq(Seq(Lexemes) \ {<<>>}) /\ n \in 0 .. Len(args)
            /\ d = Native => n <= MAX_ARGS /\ (Len(args) <= MAX_ARGS => n = Len(args))
            /\ d = Python => n = Len(args)
            /\ Arguments(d, s, p) = [i \in 1 .. n |-> Cut(d, args[i])]
<1> DEFINE end == Run(s, p, Lexemes \ Break)
           args == TokensOf(SubSeq(s, p, end - 1), Blank)
           n == AtMost(Len(args), d.args)
<1>1. Arguments(d, s, p) = [i \in 1 .. n |-> Cut(d, args[i])] BY DEF Arguments
<1>2. end \in p .. Len(s) + 1 BY RunRange
<1> HIDE DEF end
<1>3. SubSeq(s, p, end - 1) \in Seq(Lexemes) BY <1>2
<1>4. args \in Seq(Seq(Lexemes) \ {<<>>}) BY <1>3, TokensOfType
<1> HIDE DEF args
<1>5. Len(args) \in Nat BY <1>4
<1>6. CASE d = Native
  <2>1. MAX_ARGS \in Nat /\ MAX_ARGS # NoLimit BY WireAssumption DEF NoLimit
  <2>2. n = AtMost(Len(args), MAX_ARGS) BY <1>6, NativeFields
  <2>3. /\ n \in 0 .. Len(args) /\ n <= MAX_ARGS
        /\ Len(args) <= MAX_ARGS => n = Len(args)
    BY <1>5, <2>1, <2>2, AtMostIs
  <2>4. Native # Python BY <2>1, NativeFields, PythonFields
  <2> HIDE DEF n
  <2> QED BY <1>1, <1>4, <1>6, <2>3, <2>4 DEF args, end, n
<1>7. CASE d = Python
  <2>1. MAX_ARGS \in Nat /\ MAX_ARGS # NoLimit BY WireAssumption DEF NoLimit
  <2>2. n = AtMost(Len(args), NoLimit) BY <1>7, PythonFields
  <2>3. n \in 0 .. Len(args) /\ n = Len(args) BY <1>5, <2>2, AtMostIs
  <2>4. Native # Python BY <2>1, NativeFields, PythonFields
  <2> HIDE DEF n
  <2> QED BY <1>1, <1>4, <1>7, <2>3, <2>4 DEF args, end, n
<1> QED BY <1>6, <1>7

LEMMA ArgumentsFit ==
  ASSUME NEW s \in Seq(Lexemes), NEW p \in 1 .. Len(s) + 1
  PROVE  /\ Len(Arguments(Native, s, p)) <= MAX_ARGS
         /\ \A t \in ToSet(Arguments(Native, s, p)) : Len(t) \in 1 .. MAX_TOKEN - 1
<1> DEFINE args == TokensOf(SubSeq(s, p, Run(s, p, Lexemes \ Break) - 1), Blank)
           n == AtMost(Len(args), Native.args)
<1>1. /\ args \in Seq(Seq(Lexemes) \ {<<>>}) /\ n \in 0 .. Len(args) /\ n <= MAX_ARGS
      /\ Arguments(Native, s, p) = [i \in 1 .. n |-> Cut(Native, args[i])]
  BY ArgumentsAre
<1> HIDE DEF args, n
<1>2. n \in Nat /\ DOMAIN Arguments(Native, s, p) = 1 .. n
      /\ Len(Arguments(Native, s, p)) = n
  BY <1>1
<1>3. ASSUME NEW i \in 1 .. n PROVE Len(Cut(Native, args[i])) \in 1 .. MAX_TOKEN - 1
  <2>1. args[i] \in Seq(Lexemes) /\ args[i] # <<>> BY <1>1
  <2> DEFINE t == Cut(Native, args[i])
  <2>2. t \in Seq(Lexemes) /\ Len(t) <= MAX_TOKEN - 1 /\ t # <<>> BY <2>1, CutType
  <2> HIDE DEF t
  <2>3. Len(t) \in 1 .. MAX_TOKEN - 1
    <3>1. Len(t) \in Nat /\ Len(t) # 0 BY <2>2
    <3> QED BY <2>2, <3>1, WireAssumption
  <2> QED BY <2>3 DEF t
<1>4. ToSet(Arguments(Native, s, p)) = {Cut(Native, args[i]) : i \in 1 .. n}
  BY <1>1, <1>2 DEF ToSet
<1> QED BY <1>1, <1>2, <1>3, <1>4

LEMMA ParsedFromFits ==
  ASSUME NEW s \in Seq(Lexemes), NEW p \in 1 .. Len(s)
  PROVE  FitsRequest(ParsedFrom(Native, s, p))
<1> DEFINE dest == Destination(Native, s, p)
           rid == IdAfter(Native, s, dest.next)
           cmd == Token(s, rid.next, Native.ident)
           args == Arguments(Native, s, cmd.next)
           command == Canonical(Lower(Cut(Native, cmd.text)))
           whole == [result |-> "Ok", kind |-> dest.kind, target |-> dest.target,
                     id |-> rid.id, command |-> command, args |-> args]
<1>1. \/ ParsedFrom(Native, s, p) \in {Failed("Malformed"), Failed("MissingCommand")}
      \/ dest.target # <<>> /\ cmd.text # <<>> /\ ParsedFrom(Native, s, p) = whole
  BY DEF ParsedFrom
<1>2. /\ dest.kind \in {"Named", "All", "Self", "Group", "Id"}
      /\ dest.target \in Seq(Lexemes) /\ Len(dest.target) <= MAX_TOKEN - 1
      /\ dest.next \in 1 .. Len(s) + 1
  BY DestinationType
<1> HIDE DEF dest
<1>3. rid.next \in 1 .. Len(s) + 1 /\ rid.id \in {NoId} \cup 0 .. IdLimit - 1
  BY <1>2, IdAfterType
<1> HIDE DEF rid
<1>4. cmd.text \in Seq(Lexemes) /\ cmd.next \in 1 .. Len(s) + 1 BY <1>3, TokenType
<1> HIDE DEF cmd
<1>5. Len(args) <= MAX_ARGS /\ \A t \in ToSet(args) : Len(t) \in 1 .. MAX_TOKEN - 1
  BY <1>4, ArgumentsFit
<1> HIDE DEF args
<1>6. CASE dest.target # <<>> /\ cmd.text # <<>> /\ ParsedFrom(Native, s, p) = whole
  <2> DEFINE c == Cut(Native, cmd.text)
  <2>1. c \in Seq(Lexemes) /\ Len(c) <= MAX_TOKEN - 1 /\ c # <<>> BY <1>4, <1>6, CutType
  <2>2. command = Canonical(Lower(c)) OBVIOUS
  <2> HIDE DEF c, command
  <2>3. Len(command) = Len(c) BY <2>1, <2>2, CanonicalLen
  <2>4. Len(command) \in 1 .. MAX_TOKEN - 1 /\ Len(dest.target) \in 1 .. MAX_TOKEN - 1
    <3>1. Len(c) \in Nat /\ Len(c) # 0 /\ Len(dest.target) \in Nat /\ Len(dest.target) # 0
      BY <1>2, <1>6, <2>1
    <3> QED BY <1>2, <2>1, <2>3, <3>1, WireAssumption
  <2>5. FitsRequest(whole) BY <1>2, <1>3, <1>5, <2>4 DEF FitsRequest
  <2> QED BY <1>6, <2>5
<1>7. CASE ParsedFrom(Native, s, p) \in {Failed("Malformed"), Failed("MissingCommand")}
  BY <1>7 DEF Failed, FitsRequest
<1> QED BY <1>1, <1>6, <1>7

\* Where ParseAs finds the beginning of the target.
LEMMA ParseStart ==
  ASSUME NEW s \in Seq(Lexemes)
  PROVE  LET body == Run(s, Run(s, 1, Blank), Break)
             p == Run(s, body, Blank)
         IN body \in 1 .. Len(s) + 1 /\ p \in 1 .. Len(s) + 1 /\ p >= body
<1>1. Run(s, 1, Blank) \in 1 .. Len(s) + 1 BY RunRange
<1>2. Run(s, Run(s, 1, Blank), Break) \in 1 .. Len(s) + 1 BY <1>1, RunRange
<1> QED BY <1>2, RunRange

\* What parse() makes of any text at all fits the arrays of a struct Request.
LEMMA ParseFits == ASSUME NEW s \in Seq(Lexemes) PROVE FitsRequest(NativeParse(s))
<1> DEFINE body == Run(s, Run(s, 1, Blank), Break)
           p == Run(s, body, Blank)
<1>1. body \in 1 .. Len(s) + 1 /\ p \in 1 .. Len(s) + 1 BY ParseStart
<1>2. NativeParse(s) = IF body > Len(s) THEN Failed("Empty")
                       ELSE IF p > Len(s) THEN Failed("MissingTarget")
                       ELSE ParsedFrom(Native, s, p)
  BY DEF NativeParse, ParseAs
<1> HIDE DEF body, p
<1>3. p <= Len(s) => FitsRequest(ParsedFrom(Native, s, p)) BY <1>1, ParsedFromFits
<1>4. FitsRequest(Failed("Empty")) /\ FitsRequest(Failed("MissingTarget"))
  BY DEF Failed, FitsRequest
<1> QED BY <1>1, <1>2, <1>3, <1>4

-----------------------------------------------------------------------------
(* What is sent. *)

WordBehind(none, text, a) == text \o <<" ">> \o a
TryWord(none, buf, a) == Appended(Appended(buf, <<" ">>), a)
TryArgument(none, out, a) ==
  LET buf == Appended(out.text, <<" ">>)
  IN IF out.ok THEN [ok |-> Fits(buf, a), text |-> Appended(buf, a)] ELSE out

Joining == INSTANCE Folding WITH Op <- WordBehind
Trying  == INSTANCE Folding WITH Op <- TryWord
Arguing == INSTANCE Folding WITH Op <- TryArgument

LEMMA RequestLineIs ==
  ASSUME NEW target, NEW id, NEW command, NEW args
  PROVE  RequestLine(target, id, command, args) =
           Joining!Folded(0, target \o WithId(id) \o <<" ">> \o command, args)
BY DEF RequestLine, FoldLeft, MapThenFoldSet, Joining!Folded, Joining!Iter, WordBehind,
       Max, Joining!Highest

LEMMA OutboundIs ==
  ASSUME NEW target, NEW id, NEW command, NEW args
  PROVE  OutboundWithArgs(target, id, command, args) =
           Arguing!Folded(0, OutboundRequest(target, id, command), args)
BY DEF OutboundWithArgs, FoldLeft, MapThenFoldSet, Arguing!Folded, Arguing!Iter, TryArgument,
       Max, Arguing!Highest

\* What cmdBuildRequest makes of the words of a request.
CliText(target, id, command, args) ==
  Trying!Folded(0, OutboundRequest(target, Printed(id), command).text, args)

LEMMA Classes ==
  /\ Ident \subseteq Lexemes /\ HexDigit \subseteq Ident /\ Digits \subseteq HexDigit
  /\ {"#", ":", "@", " ", "nl"} \subseteq Lexemes
  /\ {"#", ":", "@", " ", "nl", "=", "."} \cap Ident = {}
  /\ Blank = {" "} /\ Break = {"nl"} /\ Foreign \cap Ident = {} /\ Words \subseteq Ident
  /\ Foreign \cap {"#", ":", "@", " ", "nl"} = {}
  /\ {"all", "ALL", "self", "event", "discover", "discovery"} \cup Groups \subseteq Words
BY DEF Ident, HexDigit, Digits, Words, Groups, Lexemes, Blank, Break, Marks, Foreign

ArgLists == {<<>>} \cup {<<a>> : a \in ArgTokens} \cup (ArgTokens \X ArgTokens)

LEMMA ArgListsType == ArgLists \subseteq Seq(ArgTokens)
<1> SUFFICES ASSUME NEW args \in ArgLists PROVE args \in Seq(ArgTokens)
  OBVIOUS
<1>1. CASE args \in ArgTokens \X ArgTokens
  <2>1. PICK a \in ArgTokens, b \in ArgTokens : args = <<a, b>> BY <1>1
  <2> QED BY <2>1
<1>2. CASE \E a \in ArgTokens : args = <<a>>
  <2>1. PICK a \in ArgTokens : args = <<a>> BY <1>2
  <2> QED BY <2>1
<1>3. CASE args = <<>> BY <1>3
<1> QED BY <1>1, <1>2, <1>3 DEF ArgLists

LEMMA TargetShape ==
  ASSUME NEW t \in Targets
  PROVE  /\ t \in Seq(Lexemes) /\ t # <<>>
         /\ \A i \in DOMAIN t : t[i] \in Ident \cup {"@", ":"}
<1>1. t \in Seq(Lexemes) /\ DOMAIN t = 1 .. Len(t) /\ Len(t) \in Nat BY RequestAssumption
<1>2. CASE t \in Seq(Ident) /\ t # <<>>
  BY <1>1, <1>2
<1>3. CASE Len(t) > 1 /\ t[1] = "@" /\ Tail(t) \in Seq(HexDigit)
  <2>1. ASSUME NEW i \in 2 .. Len(t) PROVE t[i] \in HexDigit
    <3>1. i - 1 \in 1 .. Len(Tail(t)) /\ Tail(t)[i - 1] = t[i] BY <1>1, <1>3
    <3> QED BY <1>3, <3>1
  <2>2. t # <<>> BY <1>1, <1>3
  <2>3. \A i \in 2 .. Len(t) : t[i] \in Ident
    <3>1. HexDigit \subseteq Ident BY Classes
    <3> QED BY <2>1, <3>1
  <2> QED BY <1>1, <1>3, <2>2, <2>3
<1>4. CASE /\ Len(t) > 2 /\ t[1] = "group" /\ t[2] = ":"
           /\ SubSeq(t, 3, Len(t)) \in Seq(Ident)
  <2> DEFINE name == SubSeq(t, 3, Len(t))
  <2>1. ASSUME NEW i \in 3 .. Len(t) PROVE t[i] \in Ident
    <3>1. i - 2 \in 1 .. Len(name) /\ name[i - 2] = t[i] BY <1>1, <1>4
    <3> QED BY <1>4, <3>1
  <2>2. t # <<>> BY <1>1, <1>4
  <2>3. t[1] \in Ident BY <1>4, Classes DEF Groups
  <2> QED BY <1>1, <1>4, <2>1, <2>2, <2>3
<1> QED BY <1>2, <1>3, <1>4, RequestAssumption

LEMMA TextTypes ==
  /\ Seq(Digits) \subseteq Seq(Lexemes) /\ Seq(Ident) \subseteq Seq(Lexemes)
  /\ <<" ">> \in Seq(Lexemes) /\ <<"#">> \in Seq(Lexemes) /\ <<":", " ">> \in Seq(Lexemes)
  /\ CommandNames \subseteq Seq(Lexemes) /\ ArgTokens \subseteq Seq(Lexemes)
  /\ Targets \subseteq Seq(Lexemes) /\ ReplyBodies \subseteq Seq(Lexemes)
  /\ EventNames \subseteq Seq(Lexemes) /\ EventFields \subseteq Seq(Lexemes)
  /\ SenderNames \subseteq Seq(Lexemes) /\ RequestIds \subseteq Seq(Digits)
<1>1. Seq(Digits) \subseteq Seq(Lexemes) /\ Seq(Ident) \subseteq Seq(Lexemes)
  <2>1. Digits \subseteq Lexemes /\ Ident \subseteq Lexemes BY Classes
  <2> QED BY <2>1, SeqMonotone
<1>2. /\ <<" ">> \in Seq(Lexemes) /\ <<"#">> \in Seq(Lexemes)
      /\ <<":", " ">> \in Seq(Lexemes)
  <2>1. " " \in Lexemes /\ "#" \in Lexemes /\ ":" \in Lexemes BY Classes
  <2> QED BY <2>1, ShortSequences
<1>3. CommandNames \subseteq Seq(Lexemes) BY <1>1, RequestAssumption
<1> QED BY <1>1, <1>2, <1>3, RequestAssumption, WireAssumption

LEMMA WithIdType ==
  ASSUME NEW id \in Seq(Digits)
  PROVE  WithId(id) \in Seq(Lexemes) /\ (id # <<>> => WithId(id) = <<"#">> \o id)
<1>1. id \in Seq(Lexemes) /\ <<"#">> \in Seq(Lexemes) BY TextTypes
<1>2. <<"#">> \o id \in Seq(Lexemes) BY <1>1
<1>3. <<>> \in Seq(Lexemes) OBVIOUS
<1> QED BY <1>2, <1>3 DEF WithId

-----------------------------------------------------------------------------
(* Replies as texts. *)

\* What a body begins with.
BodyIs(b) ==
  /\ b \in Seq(Lexemes) /\ b # <<>> /\ b[1] \notin Blank /\ b[1] \notin Break
  /\ b[1] \in Words \ {"all", "ALL", "self"}
  /\ Len(b) > 1 => b[2] \in Blank \cup Break
  /\ Len(b) < MAX_REPLY

\* A buffer that holds a text holds it still when another is tried.
Buffered(buf) == buf \in Seq(Lexemes) /\ Len(buf) < MAX_REPLY

LEMMA AppendedKeeps ==
  ASSUME NEW buf, Buffered(buf), NEW text \in Seq(Lexemes)
  PROVE  /\ Buffered(Appended(buf, text)) /\ Len(Appended(buf, text)) >= Len(buf)
         /\ \A i \in 1 .. Len(buf) : Appended(buf, text)[i] = buf[i]
<1>1. buf \in Seq(Lexemes) /\ Len(buf) < MAX_REPLY BY DEF Buffered
<1>2. /\ buf \o text \in Seq(Lexemes) /\ Len(buf \o text) = Len(buf) + Len(text)
      /\ Len(buf) \in Nat /\ Len(text) \in Nat
      /\ \A i \in 1 .. Len(buf) : (buf \o text)[i] = buf[i]
  BY <1>1, Concat
<1> DEFINE both == buf \o text
<1> HIDE DEF both
<1>3. CASE Fits(buf, text)
  <2>1. Appended(buf, text) = both BY <1>3 DEF Appended, both
  <2>2. Len(both) < MAX_REPLY /\ Len(both) >= Len(buf) BY <1>2, <1>3 DEF Fits, both
  <2> QED BY <1>2, <2>1, <2>2 DEF Buffered, both
<1>4. CASE ~Fits(buf, text)
  <2>1. Appended(buf, text) = buf BY <1>4 DEF Appended
  <2> QED BY <1>1, <1>2, <2>1 DEF Buffered
<1> QED BY <1>3, <1>4

\* An event begins with its word, whatever there was room for behind it.
LEMMA EventShape ==
  ASSUME NEW name \in EventNames, NEW kv \in EventFields
  PROVE  BodyIs(EventLine(name, kv))
<1> DEFINE first == <<"event", " ">>
           none == <<>>
           b0 == Appended(none, first)
           head == Appended(b0, name)
           blank == <<" ">>
           b2 == Appended(head, blank)
           b3 == Appended(b2, kv)
<1>1. EventLine(name, kv) = IF kv = <<>> THEN head ELSE b3 BY DEF EventLine
<1>2. /\ first \in Seq(Lexemes) /\ Len(first) = 2
      /\ first[1] \in Words \ {"all", "ALL", "self"} /\ first[2] \in Blank
  <2>1. first \in Seq(Lexemes)
    <3>1. "event" \in Lexemes /\ " " \in Lexemes BY Classes
    <3> QED BY <3>1, ShortSequences
  <2>2. Len(first) = 2 /\ first[1] = "event" /\ first[2] = " " OBVIOUS
  <2>3. "event" \in Words \ {"all", "ALL", "self"} BY Classes
  <2>4. " " \in Blank BY DEF Blank
  <2> QED BY <2>1, <2>2, <2>3, <2>4
<1>3. blank \in Seq(Lexemes) /\ name \in Seq(Lexemes) /\ kv \in Seq(Lexemes) BY TextTypes
<1> HIDE DEF first, blank
<1>4. Buffered(none) /\ Len(none) = 0 /\ none \o first = first
  <2>1. none \in Seq(Lexemes) /\ Len(none) = 0 OBVIOUS
  <2>2. 0 < MAX_REPLY BY WireAssumption, SizeAssumption
  <2> QED BY <1>2, <2>1, <2>2 DEF Buffered
<1> HIDE DEF none
<1>5. b0 = first
  <2>1. 0 + 2 < MAX_REPLY BY WireAssumption, SizeAssumption
  <2>2. Fits(none, first) BY <1>2, <1>4, <2>1 DEF Fits
  <2> QED BY <1>4, <2>2 DEF Appended
<1>6. Buffered(b0) /\ Len(b0) = 2
  <2>1. 2 < MAX_REPLY BY WireAssumption, SizeAssumption
  <2> HIDE DEF b0
  <2> QED BY <1>2, <1>5, <2>1 DEF Buffered
<1> HIDE DEF b0
<1>7. Buffered(head) /\ Len(head) >= 2 /\ \A i \in 1 .. 2 : head[i] = b0[i]
  BY <1>3, <1>6, AppendedKeeps
<1> HIDE DEF head
<1>8. Buffered(b2) /\ Len(b2) >= Len(head) /\ \A i \in 1 .. Len(head) : b2[i] = head[i]
  BY <1>3, <1>7, AppendedKeeps
<1> HIDE DEF b2
<1>9. Buffered(b3) /\ Len(b3) >= Len(b2) /\ \A i \in 1 .. Len(b2) : b3[i] = b2[i]
  BY <1>3, <1>8, AppendedKeeps
<1> HIDE DEF b3
<1>10. Len(head) \in Nat /\ Len(b2) \in Nat /\ Len(b3) \in Nat
  BY <1>7, <1>8, <1>9 DEF Buffered
<1>11. /\ head[1] = first[1] /\ head[2] = first[2]
       /\ b3[1] = first[1] /\ b3[2] = first[2] /\ Len(b3) >= 2
  <2>1. 1 \in 1 .. Len(head) /\ 2 \in 1 .. Len(head) /\ 1 \in 1 .. Len(b2) /\ 2 \in 1 .. Len(b2)
    BY <1>7, <1>8, <1>10
  <2>2. Len(b3) >= 2 BY <1>7, <1>8, <1>9, <1>10
  <2> QED BY <1>5, <1>7, <1>8, <1>9, <2>1, <2>2
<1> DEFINE b == EventLine(name, kv)
<1>12. Buffered(b) /\ Len(b) >= 2 /\ b[1] = first[1] /\ b[2] = first[2]
  BY <1>1, <1>7, <1>9, <1>11
<1> HIDE DEF b
<1>13. b[1] \in Words \ {"all", "ALL", "self"} /\ b[2] \in Blank BY <1>2, <1>12
<1>14. b[1] \notin Blank /\ b[1] \notin Break
  <2>1. Words \subseteq Ident /\ Ident \cap Blank = {} /\ Ident \cap Break = {} BY Classes
  <2> QED BY <1>13, <2>1
<1>15. b # <<>> BY <1>12
<1> QED BY <1>12, <1>13, <1>14, <1>15 DEF BodyIs, Buffered, b

LEMMA BodyShape ==
  ASSUME NEW b \in ReplyBodies \cup EventBodies
  PROVE  BodyIs(b)
<1>1. CASE b \in ReplyBodies
  <2>1. b[1] \in Ident BY <1>1, BodyAssumption, Classes
  <2>2. b[1] \notin Blank /\ b[1] \notin Break BY <2>1, Classes
  <2> QED BY <1>1, <2>2, BodyAssumption, WireAssumption DEF BodyIs
<1>2. CASE b \in EventBodies
  <2>1. PICK name \in EventNames, kv \in EventFields : b = EventLine(name, kv)
    BY <1>2 DEF EventBodies
  <2> QED BY <2>1, EventShape
<1> QED BY <1>1, <1>2

\* The line of a numbered reply.
Numbered(id, body) == (WithId(id) \o <<" ">>) \o body

LEMMA NumberedReply ==
  ASSUME NEW id \in Seq(Digits), id # <<>>, NEW body \in Seq(Lexemes)
  PROVE  /\ Numbered(id, body) \in Seq(Lexemes) /\ Numbered(id, body) # <<>>
         /\ Numbered(id, body)[1] = "#"
<1> DEFINE blank == <<" ">>
           i == WithId(id)
           head == i \o blank
<1>1. Numbered(id, body) = head \o body BY DEF Numbered
<1>2. i \in Seq(Lexemes) /\ blank \in Seq(Lexemes) BY WithIdType, TextTypes
<1>3. i # <<>> /\ i[1] = "#"
  <2>1. i = <<"#">> \o id /\ id \in Seq(Lexemes) /\ "#" \in Lexemes
    BY WithIdType, TextTypes, Classes
  <2> HIDE DEF i
  <2>2. Len(i) = Len(id) + 1 /\ i[1] = "#" /\ Len(id) \in Nat BY <2>1, ConcatOne
  <2>3. Len(i) # 0 BY <2>2
  <2> QED BY <2>2, <2>3
<1> HIDE DEF i, blank
<1>4. Len(i) \in Nat \ {0} BY <1>2, <1>3
<1>5. head \in Seq(Lexemes) /\ Len(head) > 0 /\ head[1] = "#" BY <1>2, <1>3, <1>4, Concat
<1> HIDE DEF head
<1>6. head \o body \in Seq(Lexemes) /\ (head \o body)[1] = "#" /\ Len(head \o body) > 0
  BY <1>5, Concat
<1>7. head \o body # <<>> BY <1>6
<1> QED BY <1>1, <1>6, <1>7 DEF head, i, blank

\* What there is room for behind the id: the body, or nothing.
Kept(id, body) == IF Fits(ReplyHead(id), body) THEN body ELSE <<>>

LEMMA ReplyLineIs ==
  ASSUME NEW id \in Seq(Digits), NEW body \in Seq(Lexemes)
  PROVE  /\ id # <<>> => ReplyLine(id, body) = Numbered(id, Kept(id, body))
         /\ id = <<>> /\ Len(body) < MAX_REPLY => ReplyLine(id, body) = body
         /\ Kept(id, body) \in Seq(Lexemes)
<1>1. CASE id # <<>>
  <2> DEFINE blank == <<" ">>
             i == WithId(id)
             head == i \o blank
  <2>1. ReplyHead(id) = head BY <1>1 DEF ReplyHead
  <2>2. i \in Seq(Lexemes) /\ blank \in Seq(Lexemes) BY WithIdType, TextTypes
  <2>3. Numbered(id, Kept(id, body)) = head \o Kept(id, body) BY DEF Numbered
  <2> HIDE DEF i, blank
  <2>4. head \in Seq(Lexemes) BY <2>2, ConcatType
  <2> HIDE DEF head
  <2>5. head \o <<>> = head BY <2>4
  <2>6. ReplyLine(id, body) = IF Fits(head, body) THEN head \o body ELSE head
    BY <2>1 DEF ReplyLine, Appended
  <2>7. Kept(id, body) = IF Fits(head, body) THEN body ELSE <<>> BY <2>1 DEF Kept
  <2>8. ReplyLine(id, body) = head \o Kept(id, body) BY <2>5, <2>6, <2>7
  <2>9. <<>> \in Seq(Lexemes) OBVIOUS
  <2> QED BY <1>1, <2>3, <2>7, <2>8, <2>9
<1>2. CASE id = <<>>
  <2> DEFINE none == <<>>
  <2>1. ReplyHead(id) = none BY <1>2 DEF ReplyHead
  <2>2. none \in Seq(Lexemes) /\ Len(none) = 0 /\ none \o body = body /\ Len(body) \in Nat OBVIOUS
  <2> HIDE DEF none
  <2>3. Len(body) < MAX_REPLY => Fits(none, body) BY <2>2 DEF Fits
  <2>4. ReplyLine(id, body) = Appended(none, body) BY <2>1 DEF ReplyLine
  <2>5. Len(body) < MAX_REPLY => ReplyLine(id, body) = body BY <2>2, <2>3, <2>4 DEF Appended
  <2>6. <<>> \in Seq(Lexemes) OBVIOUS
  <2> QED BY <1>2, <2>5, <2>6 DEF Kept
<1> QED BY <1>1, <1>2

Separators == Blank \cup Break

\* An id in front of a body.
LEMMA NumberIs ==
  ASSUME NEW id \in Seq(Digits), id # <<>>
  PROVE  /\ WithId(id) \in Seq(Lexemes \ Separators) /\ WithId(id) # <<>>
         /\ Len(WithId(id)) > 1 /\ WithId(id)[1] = "#"
         /\ \A i \in 2 .. Len(WithId(id)) : WithId(id)[i] \in Digits
         /\ Tail(WithId(id)) = id
<1> DEFINE U == Lexemes \ Separators
           n == WithId(id)
<1>1. "#" \in U /\ Digits \subseteq U BY Classes DEF Separators
<1> HIDE DEF U
<1>2. id \in Seq(U) /\ Len(id) \in Nat \ {0}
  <2>1. id \in Seq(U) BY <1>1, SeqMonotone
  <2> QED BY <2>1
<1>3. n = <<"#">> \o id BY DEF WithId
<1>4. /\ n \in Seq(U) /\ Len(n) = Len(id) + 1 /\ n[1] = "#"
      /\ \A i \in 1 .. Len(id) : n[i + 1] = id[i]
      /\ Tail(n) = id
  BY <1>1, <1>2, <1>3, ConcatOne
<1> HIDE DEF n
<1>5. ASSUME NEW i \in 2 .. Len(n) PROVE n[i] \in Digits
  <2>1. i - 1 \in 1 .. Len(id) /\ i - 1 + 1 = i BY <1>2, <1>4
  <2>2. n[i] = id[i - 1] BY <1>4, <2>1
  <2> QED BY <2>1, <2>2
<1>6. Len(n) > 1 /\ n # <<>> BY <1>2, <1>4
<1> QED BY <1>4, <1>5, <1>6 DEF n, U

LEMMA NumberedTokens ==
  ASSUME NEW id \in Seq(Digits), id # <<>>, NEW body \in Seq(Lexemes)
  PROVE  SplitTokens(Numbered(id, body)) = <<WithId(id)>> \o SplitTokens(body)
<1>1. /\ WithId(id) \in Seq(Lexemes \ Separators) /\ WithId(id) # <<>>
      /\ WithId(id) \in Seq(Lexemes)
  BY NumberIs, WithIdType
<1>2. " " \in Lexemes /\ " " \in Separators BY Classes DEF Separators
<1>3. Numbered(id, body) = (WithId(id) \o <<" ">>) \o body BY DEF Numbered
<1>4. WithId(id) \o <<" ">> = Append(WithId(id), " ") BY <1>1, <1>2, AppendIs
<1>5. TokensOf(Append(WithId(id), " ") \o body, Separators) =
        <<WithId(id)>> \o TokensOf(body, Separators)
  <2>1. WithId(id) \in UnbrokenWords(Lexemes, Separators) BY <1>1 DEF UnbrokenWords
  <2>2. IsFirstToken(WithId(id), " ", body, Separators) BY <1>2, <2>1, TokensBehindWord
  <2> QED BY <2>2 DEF IsFirstToken
<1> QED BY <1>3, <1>4, <1>5 DEF SplitTokens, Separators

\* The first token of a body is its first word.
LEMMA BodyTokens ==
  ASSUME NEW b \in ReplyBodies \cup EventBodies
  PROVE  SplitTokens(b) # <<>> /\ SplitTokens(b)[1] = <<b[1]>>
<1>1. /\ b \in Seq(Lexemes) /\ b # <<>> /\ b[1] \notin Blank /\ b[1] \notin Break
      /\ (Len(b) > 1 => b[2] \in Blank \cup Break)
  BY BodyShape DEF BodyIs
<1>2. Len(b) \in Nat \ {0}
  <2>1. b \in Seq(Lexemes) /\ b # <<>> BY <1>1
  <2> QED BY <2>1
<1>3. Len(b) = 1 \/ Len(b) > 1 BY <1>2
<1> DEFINE w == <<b[1]>>
           U == Lexemes \ Separators
<1>4. b[1] \in U BY <1>1, <1>2 DEF Separators
<1> HIDE DEF U
<1>5. w \in Seq(U) /\ w # <<>> /\ w[1] = b[1] BY <1>4
<1>6. CASE Len(b) = 1
  <2>1. b = w BY <1>1, <1>6
  <2> HIDE DEF w
  <2>2. TokensOf(w, Separators) = <<w>> BY <1>5, TokensOfWord DEF U
  <2>3. SplitTokens(b) = <<w>> BY <2>1, <2>2 DEF SplitTokens, Separators
  <2>4. <<w>> # <<>> /\ <<w>>[1] = w OBVIOUS
  <2>5. SplitTokens(b) # <<>> /\ SplitTokens(b)[1] = w BY <2>3, <2>4
  <2> QED BY <2>5 DEF w
<1>7. CASE Len(b) > 1
  <2> DEFINE t == SubSeq(b, 3, Len(b))
             s == Append(w, b[2]) \o t
             rest == TokensOf(t, Separators)
  <2>1. t \in Seq(Lexemes) BY <1>1, <1>2, <1>7
  <2>2. b[2] \in Lexemes /\ b[2] \in Separators BY <1>1, <1>2, <1>7 DEF Separators
  <2>3. b = s BY <1>1, <1>7, FromTwo
  <2> HIDE DEF t, w
  <2>4. TokensOf(s, Separators) = <<w>> \o rest
    <3>1. w \in UnbrokenWords(Lexemes, Separators) BY <1>5 DEF U, UnbrokenWords
    <3>2. IsFirstToken(w, b[2], t, Separators) BY <2>1, <2>2, <3>1, TokensBehindWord
    <3> QED BY <3>2 DEF IsFirstToken
  <2>5. rest \in Seq(Seq(Lexemes) \ {<<>>}) BY <2>1, TokensOfType
  <2>6. SplitTokens(b) = <<w>> \o rest BY <2>3, <2>4 DEF SplitTokens, Separators
  <2> HIDE DEF rest
  <2>7. w \in Seq(Lexemes) \ {<<>>}
    <3>1. U \subseteq Lexemes BY DEF U
    <3> QED BY <1>5, <3>1, SeqMonotone
  <2>8. Len(<<w>> \o rest) = Len(rest) + 1 /\ (<<w>> \o rest)[1] = w /\ Len(rest) \in Nat
    BY <2>5, <2>7, ConcatOne
  <2>9. SplitTokens(b) # <<>> /\ SplitTokens(b)[1] = w BY <2>6, <2>8
  <2> QED BY <2>9 DEF w
<1> QED BY <1>3, <1>6, <1>7

-----------------------------------------------------------------------------
(* Requests as texts. *)

LEMMA AppendedType ==
  ASSUME NEW buf \in Seq(Lexemes), NEW text \in Seq(Lexemes)
  PROVE  Appended(buf, text) \in Seq(Lexemes)
BY DEF Appended

LEMMA OutboundRequestType ==
  ASSUME NEW target \in Seq(Lexemes), NEW id \in Seq(Digits), NEW command \in Seq(Lexemes)
  PROVE  OutboundRequest(target, id, command) \in [ok : BOOLEAN, text : Seq(Lexemes)]
<1> DEFINE b1 == Appended(<<>>, target)
           b2 == Appended(b1, WithId(id))
           head == Appended(b2, <<" ">>)
<1>1. OutboundRequest(target, id, command) =
        [ok |-> Fits(head, command), text |-> Appended(head, command)]
  BY DEF OutboundRequest
<1>2. b1 \in Seq(Lexemes)
  <2>1. <<>> \in Seq(Lexemes) OBVIOUS
  <2> QED BY <2>1, AppendedType
<1> HIDE DEF b1
<1>3. b2 \in Seq(Lexemes) BY <1>2, AppendedType, WithIdType
<1> HIDE DEF b2
<1>4. head \in Seq(Lexemes) BY <1>3, AppendedType, TextTypes
<1> HIDE DEF head
<1>5. Appended(head, command) \in Seq(Lexemes) BY <1>4, AppendedType
<1>6. Fits(head, command) \in BOOLEAN BY DEF Fits
<1> QED BY <1>1, <1>5, <1>6

\* The number of an id, as it is printed once strtoul() has read it.
LEMMA ReprintedIs ==
  ASSUME NEW digits \in Seq(Digits)
  PROVE  /\ Reprinted(digits) \in Seq(Digits) /\ Len(Reprinted(digits)) <= IdDigits
         /\ Reprinted(digits) # <<>>
         /\ Value(digits) < IdLimit => Value(Reprinted(digits)) = Value(digits)
<1>1. IdDigits \in Nat \ {0} /\ IdLimit \in Nat \ {0} BY WireAssumption
<1> DEFINE n == StrToUL(digits) % IdLimit
<1>2. n \in 0 .. IdLimit - 1 /\ (Value(digits) < IdLimit => n = Value(digits))
  <2>1. StrToUL(digits) \in Nat /\ Value(digits) \in Nat
        /\ (Value(digits) < IdLimit => StrToUL(digits) = Value(digits))
    BY NarrowedIs, ValueType
  <2>2. \A m \in Nat : m % IdLimit \in 0 .. IdLimit - 1 /\ (m < IdLimit => m % IdLimit = m)
    BY <1>1
  <2> QED BY <2>1, <2>2
<1>3. Reprinted(digits) = DigitsOf(n) BY DEF Reprinted
<1> HIDE DEF n
<1>4. DigitsOf(n) \in Numerals /\ Value(DigitsOf(n)) = n BY <1>2, SizeAssumption DEF DigitsOf
<1>5. \A d \in Numerals : d \in Seq(Digits) /\ Len(d) <= IdDigits /\ d # <<>>
  <2> SUFFICES ASSUME NEW k \in 1 .. IdDigits, NEW d \in [1 .. k -> Digits]
               PROVE  d \in Seq(Digits) /\ Len(d) <= IdDigits /\ d # <<>>
    BY DEF Numerals
  <2> QED BY <1>1
<1> QED BY <1>2, <1>3, <1>4, <1>5

LEMMA PrintedIs ==
  ASSUME NEW id \in Seq(Digits)
  PROVE  /\ Printed(id) \in Seq(Digits) /\ Len(Printed(id)) <= IdDigits
         /\ id = <<>> <=> Printed(id) = <<>>
         /\ id # <<>> /\ Value(id) < IdLimit => Value(Printed(id)) = Value(id)
<1>1. CASE id = <<>>
  <2>1. Printed(id) = id BY <1>1 DEF Printed
  <2>2. Len(id) = 0 BY <1>1
  <2>3. 0 <= IdDigits BY WireAssumption
  <2> QED BY <1>1, <2>1, <2>2, <2>3
<1>2. CASE id # <<>>
  <2>1. Printed(id) = Reprinted(id) BY <1>2 DEF Printed
  <2> QED BY <1>2, <2>1, ReprintedIs
<1> QED BY <1>1, <1>2

LEMMA LexemesAssoc ==
  ASSUME NEW s \in Seq(Lexemes), NEW t \in Seq(Lexemes), NEW u \in Seq(Lexemes)
  PROVE  (s \o t) \o u = s \o (t \o u)
BY ConcatAssoc

\* What mcrpc_cli is given for a request.
Typed(argv, target, id, command, args) ==
  \/ argv = <<target \o WithId(id), command>> \o args
  \/ id # <<>> /\ argv = <<target, WithId(id), command>> \o args

\* A piece of a text, from where it begins.
LEMMA PieceIs ==
  ASSUME NEW T, NEW s \in Seq(T), NEW w \in Seq(T), NEW k \in Nat, k + Len(w) <= Len(s),
         \A i \in 1 .. Len(w) : s[k + i] = w[i]
  PROVE  SubSeq(s, k + 1, k + Len(w)) = w
<1> DEFINE n == Len(w)
           u == SubSeq(s, k + 1, k + n)
<1>1. n \in Nat /\ Len(s) \in Nat /\ k + n <= Len(s) OBVIOUS
<1>2. \A i \in 1 .. n : s[k + i] \in T BY <1>1
<1>3. u = [i \in 1 .. n |-> s[k + i]]
  <2>1. k + n - (k + 1) + 1 = n /\ \A i \in 1 .. n : i + (k + 1) - 1 = k + i BY <1>1
  <2> QED BY <1>1, <2>1
<1>4. w = [i \in 1 .. n |-> w[i]] OBVIOUS
<1> QED BY <1>3, <1>4

\* The first word with the id glued to it.
Glued(target, id) == target \o WithId(id)

LEMMA RequestWords ==
  ASSUME NEW target \in Targets, NEW id \in RequestIds, NEW command \in CommandNames,
         NEW args \in ArgLists
  PROVE  /\ target \in Seq(Lexemes) /\ Len(target) \in Nat \ {0}
         /\ \A i \in 1 .. Len(target) : target[i] \in Lexemes \ {"#"}
         /\ id \in Seq(Digits) /\ id \in Seq(Lexemes)
         /\ command \in Seq(Lexemes) /\ command # <<>> /\ command[1] # "#"
         /\ args \in Seq(Seq(Lexemes))
         /\ WithId(id) \in Seq(Lexemes)
<1>1. target \in Seq(Lexemes) /\ target # <<>>
      /\ \A i \in 1 .. Len(target) : target[i] \in Ident \cup {"@", ":"}
  BY TargetShape
<1>2. \A l \in Ident \cup {"@", ":"} : l \in Lexemes \ {"#"} BY Classes
<1>3. command \in Seq(Ident) /\ command # <<>> BY RequestAssumption
<1>4. Seq(ArgTokens) \subseteq Seq(Seq(Lexemes)) BY TextTypes, SeqMonotone
<1>5. args \in Seq(Seq(Lexemes)) BY <1>4, ArgListsType
<1>6. id \in Seq(Digits) /\ id \in Seq(Lexemes) /\ command \in Seq(Lexemes) BY TextTypes
<1>7. command[1] \in Ident BY <1>3
<1>8. command[1] # "#" BY <1>7, Classes
<1>9. Len(target) \in Nat \ {0} BY <1>1
<1>10. WithId(id) \in Seq(Lexemes) BY <1>6, WithIdType
<1> QED BY <1>1, <1>2, <1>3, <1>5, <1>6, <1>8, <1>9, <1>10

LEMMA GluedIs ==
  ASSUME NEW target \in Targets, NEW id \in RequestIds
  PROVE  LET w == Glued(target, id)
             n == Len(target)
         IN /\ w \in Seq(Lexemes) /\ Len(w) \in Nat /\ n <= Len(w)
            /\ \A k \in 1 .. n : w[k] = target[k] /\ w[k] # "#"
            /\ \A k \in n + 2 .. Len(w) : w[k] \in Digits
            /\ SubSeq(w, 1, n) = target
            /\ id = <<>> => w = target
            /\ id # <<>> => n < Len(w) /\ w[n + 1] = "#" /\ SubSeq(w, n + 2, Len(w)) = id
<1> DEFINE w == Glued(target, id)
           n == Len(target)
           i == WithId(id)
<1>1. /\ target \in Seq(Lexemes) /\ n \in Nat /\ i \in Seq(Lexemes)
      /\ \A k \in 1 .. n : target[k] # "#"
      /\ id \in Seq(Digits) /\ id \in Seq(Lexemes)
  <2>1. target \in Seq(Lexemes) /\ target # <<>>
        /\ \A k \in 1 .. n : target[k] \in Ident \cup {"@", ":"}
    BY TargetShape
  <2>2. \A l \in Ident \cup {"@", ":"} : l # "#" BY Classes
  <2>3. id \in Seq(Digits) /\ id \in Seq(Lexemes) BY TextTypes
  <2>4. i \in Seq(Lexemes) BY <2>3, WithIdType
  <2> QED BY <2>1, <2>2, <2>3, <2>4
<1>2. w = target \o i BY DEF Glued
<1>3. id = <<>> => i = <<>> BY DEF WithId
<1>4. id # <<>> => /\ Len(i) = Len(id) + 1 /\ i[1] = "#"
                   /\ \A k \in 1 .. Len(id) : i[k + 1] = id[k]
                   /\ Tail(i) = id
  <2> SUFFICES ASSUME id # <<>>
               PROVE  /\ Len(i) = Len(id) + 1 /\ i[1] = "#"
                      /\ \A k \in 1 .. Len(id) : i[k + 1] = id[k]
                      /\ Tail(i) = id
    OBVIOUS
  <2>1. i = <<"#">> \o id /\ "#" \in Lexemes BY Classes DEF WithId
  <2> QED BY <1>1, <2>1, ConcatOne
<1> HIDE DEF i
<1>5. /\ w \in Seq(Lexemes) /\ Len(w) = n + Len(i) /\ Len(i) \in Nat
      /\ \A k \in 1 .. n : w[k] = target[k]
      /\ \A k \in 1 .. Len(i) : w[n + k] = i[k]
      /\ SubSeq(w, 1, n) = target /\ SubSeq(w, n + 1, Len(w)) = i
  <2>1. \A k \in 1 .. Len(i) : (target \o i)[n + k] = i[k] BY <1>1, ConcatSecond
  <2> QED BY <1>1, <1>2, <2>1, Concat
<1>6. id = <<>> => w = target BY <1>1, <1>2, <1>3
<1> HIDE DEF w
<1>7. CASE id = <<>> BY <1>1, <1>5, <1>6, <1>7 DEF w
<1>8. CASE id # <<>>
  <2>1. Len(id) \in Nat \ {0} /\ Len(w) = n + Len(id) + 1
    <3> DEFINE m == Len(i)
               l == Len(w)
               d == Len(id)
    <3>1. d \in Nat \ {0} BY <1>1, <1>8
    <3>2. l = n + m /\ m = d + 1 BY <1>4, <1>5, <1>8
    <3>3. n \in Nat BY <1>1
    <3> HIDE DEF l, m, d, n
    <3>4. l = n + d + 1 BY <3>1, <3>2, <3>3
    <3> QED BY <3>1, <3>4 DEF l, d
  <2>2. w[n + 1] = "#"
    <3>1. 1 \in 1 .. Len(i) BY <1>4, <1>8, <2>1
    <3> QED BY <1>4, <1>5, <1>8, <3>1
  <2>3. ASSUME NEW k \in n + 2 .. Len(w) PROVE w[k] = id[k - n - 1] /\ k - n - 1 \in 1 .. Len(id)
    <3>1. k - n - 1 \in 1 .. Len(id) BY <1>1, <2>1
    <3>2. k - n \in 1 .. Len(i) /\ n + (k - n) = k /\ (k - n - 1) + 1 = k - n
      BY <1>1, <1>4, <1>8, <2>1
    <3>3. w[n + (k - n)] = i[k - n] BY <1>5, <3>2
    <3>4. i[(k - n - 1) + 1] = id[k - n - 1] BY <1>4, <1>8, <3>1
    <3> QED BY <3>1, <3>2, <3>3, <3>4
  <2>4. \A k \in n + 2 .. Len(w) : w[k] \in Digits BY <1>1, <2>3
  <2>5. SubSeq(w, n + 2, Len(w)) = id
    <3> DEFINE m == n + 1
    <3>1. m \in Nat /\ m + Len(id) = Len(w) /\ m + 1 = n + 2 BY <1>1, <2>1
    <3>2. \A k \in 1 .. Len(id) : w[m + k] = id[k]
      <4> SUFFICES ASSUME NEW k \in 1 .. Len(id) PROVE w[m + k] = id[k]
        OBVIOUS
      <4>1. m + k \in n + 2 .. Len(w) /\ m + k - n - 1 = k BY <1>1, <2>1
      <4>2. w[m + k] = id[m + k - n - 1] BY <2>3, <4>1
      <4> QED BY <4>1, <4>2
    <3> HIDE DEF m
    <3>3. SubSeq(w, m + 1, m + Len(id)) = id
      <4>1. m + Len(id) <= Len(w) BY <1>5, <3>1
      <4> QED BY <1>1, <1>5, <3>1, <3>2, <4>1, PieceIs
    <3> QED BY <3>1, <3>3
  <2> QED BY <1>1, <1>5, <1>8, <2>1, <2>2, <2>4, <2>5 DEF w
<1> QED BY <1>7, <1>8

\* Up to where the tool takes the first word for the target.
LEMMA HashIs ==
  ASSUME NEW s \in Seq(Lexemes), NEW n \in 0 .. Len(s), \A k \in 1 .. n : s[k] # "#",
         n = Len(s) \/ s[n + 1] = "#"
  PROVE  Run(s, 1, Lexemes \ {"#"}) = n + 1
<1>1. 1 \in 1 .. Len(s) + 1 /\ n + 1 \in 1 .. Len(s) + 1 /\ Len(s) \in Nat OBVIOUS
<1>2. \A k \in 1 .. (n + 1) - 1 : s[k] \in Lexemes \ {"#"} BY <1>1
<1>3. n + 1 > Len(s) \/ s[n + 1] \notin Lexemes \ {"#"} BY <1>1
<1>4. RunEnds(s, 1, Lexemes \ {"#"}, n + 1) BY <1>1, <1>2, <1>3 DEF RunEnds
<1> QED BY <1>1, <1>4, RunUnique

\* The array that the first word is copied to.
GluedText(argv) == SubSeq(argv[1], 1, AtMost(Len(argv[1]), MAX_GLUED - 1))
HashOf(argv) == Run(GluedText(argv), 1, Lexemes \ {"#"})
OwnId(argv) == HashOf(argv) > Len(GluedText(argv)) /\ argv[2][1] = "#"
CliId(argv) ==
  IF OwnId(argv) THEN Reprinted(Tail(argv[2]))
  ELSE IF HashOf(argv) > Len(GluedText(argv)) THEN <<>>
  ELSE Reprinted(SubSeq(GluedText(argv), HashOf(argv) + 1, Len(GluedText(argv))))
RestOf(argv) == SubSeq(argv, IF OwnId(argv) THEN 3 ELSE 2, Len(argv))

LEMMA CliRequestIsFold ==
  ASSUME NEW argv
  PROVE  CliRequest(argv) =
           Trying!Folded(0, OutboundRequest(SubSeq(GluedText(argv), 1, HashOf(argv) - 1),
                                            CliId(argv), Head(RestOf(argv))).text,
                         Tail(RestOf(argv)))
BY DEF CliRequest, FoldLeft, MapThenFoldSet, Trying!Folded, Trying!Iter, TryWord,
       Max, Trying!Highest, GluedText, HashOf, OwnId, CliId, RestOf

\* A word and what is left of it in the array.
LEMMA GluedTextIs ==
  ASSUME NEW argv, argv[1] \in Seq(Lexemes)
  PROVE  LET g == GluedText(argv)
         IN /\ g \in Seq(Lexemes) /\ Len(g) \in 0 .. Len(argv[1])
            /\ \A k \in 1 .. Len(g) : g[k] = argv[1][k]
            /\ Len(argv[1]) < MAX_GLUED => g = argv[1]
            /\ HashOf(argv) \in 1 .. Len(g) + 1
<1> DEFINE s == argv[1]
           m == AtMost(Len(s), MAX_GLUED - 1)
           g == GluedText(argv)
<1>1. s \in Seq(Lexemes) /\ Len(s) \in Nat OBVIOUS
<1>2. MAX_GLUED \in Nat \ {0} /\ MAX_GLUED - 1 \in Nat BY WireAssumption
<1>3. m \in 0 .. Len(s) /\ (Len(s) < MAX_GLUED => m = Len(s))
  <2>1. Len(s) < MAX_GLUED => Len(s) <= MAX_GLUED - 1 BY <1>1, <1>2
  <2> HIDE DEF s
  <2> QED BY <1>1, <1>2, <2>1, AtMostIs
<1>4. g = SubSeq(s, 1, m) BY DEF GluedText
<1> HIDE DEF s, m
<1>5. /\ SubSeq(s, 1, m) \in Seq(Lexemes) /\ Len(SubSeq(s, 1, m)) = m
      /\ \A k \in 1 .. m : SubSeq(s, 1, m)[k] = s[k]
  BY <1>1, <1>3
<1>6. SubSeq(s, 1, Len(s)) = s BY <1>1
<1>7. HashOf(argv) = Run(g, 1, Lexemes \ {"#"}) BY DEF HashOf
<1> HIDE DEF g
<1>8. /\ g \in Seq(Lexemes) /\ Len(g) = m /\ \A k \in 1 .. Len(g) : g[k] = s[k]
      /\ Len(s) < MAX_GLUED => g = s
  BY <1>3, <1>4, <1>5, <1>6
<1>9. HashOf(argv) \in 1 .. Len(g) + 1
  <2>1. 1 \in 1 .. Len(g) + 1 BY <1>8
  <2> QED BY <1>7, <1>8, <2>1, RunRange
<1> QED BY <1>3, <1>8, <1>9 DEF g, s

\* What the tool finds in the words it is given.
LEMMA TypedIs ==
  ASSUME NEW target \in Targets, NEW id \in RequestIds, NEW command \in CommandNames,
         NEW args \in ArgLists, NEW argv, Typed(argv, target, id, command, args)
  PROVE  /\ argv[1] = IF OwnId(argv) THEN target ELSE Glued(target, id)
         /\ OwnId(argv) => Tail(argv[2]) = id /\ id # <<>>
         /\ Head(RestOf(argv)) = command /\ Tail(RestOf(argv)) = args
<1> DEFINE Texts == Seq(Lexemes)
           w == Glued(target, id)
           i == WithId(id)
<1>1. /\ target \in Texts /\ command \in Texts /\ args \in Seq(Texts) /\ i \in Texts
      /\ command[1] # "#" /\ id \in Seq(Digits)
      /\ \A k \in 1 .. Len(target) : target[k] # "#"
  BY RequestWords
<1>2. w \in Texts BY GluedIs
<1>3. i = WithId(id) OBVIOUS
<1>4. w = target \o WithId(id) BY DEF Glued
<1> HIDE DEF Texts, w, i
<1>5. CASE argv = <<w, command>> \o args
  <2>1. argv[1] = w /\ argv[2] = command
    BY <1>1, <1>2, <1>5, TwoBefore
  <2>2. ~OwnId(argv) BY <1>1, <2>1 DEF OwnId
  <2>3. /\ Head(SubSeq(argv, 2, Len(argv))) = command
        /\ Tail(SubSeq(argv, 2, Len(argv))) = args
    BY <1>1, <1>2, <1>5, TwoBefore, SMTT(30)
  <2> QED BY <2>1, <2>2, <2>3 DEF RestOf, w
<1>6. CASE id # <<>> /\ argv = <<target, i, command>> \o args
  <2>1. argv[1] = target /\ argv[2] = i
    BY <1>1, <1>6, ThreeBefore
  <2>2. i[1] = "#" /\ Tail(i) = id BY <1>1, <1>3, <1>6, NumberIs
  <2>3. HashOf(argv) > Len(GluedText(argv))
    <3> DEFINE g == GluedText(argv)
    <3>1. g \in Seq(Lexemes) /\ Len(g) \in 0 .. Len(target) /\ \A k \in 1 .. Len(g) : g[k] = target[k]
      BY <1>1, <2>1, GluedTextIs DEF Texts
    <3>2. HashOf(argv) = Run(g, 1, Lexemes \ {"#"}) BY DEF HashOf
    <3>3. target \in Seq(Lexemes) BY <1>1 DEF Texts
    <3> HIDE DEF g
    <3>4. \A k \in 1 .. Len(g) : g[k] # "#" BY <1>1, <3>1, <3>3
    <3>5. Run(g, 1, Lexemes \ {"#"}) = Len(g) + 1
      <4>1. Len(g) \in 0 .. Len(g) BY <3>1
      <4> QED BY <3>1, <3>4, <4>1, HashIs
    <3> QED BY <3>1, <3>2, <3>5 DEF g
  <2>4. OwnId(argv) BY <2>1, <2>2, <2>3 DEF OwnId
  <2>5. /\ Head(SubSeq(argv, 3, Len(argv))) = command
        /\ Tail(SubSeq(argv, 3, Len(argv))) = args
    BY <1>1, <1>6, ThreeBefore, SMTT(30)
  <2> QED BY <1>6, <2>1, <2>2, <2>4, <2>5 DEF RestOf
<1> QED BY <1>3, <1>4, <1>5, <1>6 DEF Typed

\* Whatever the array cuts, the tool prints a line.
LEMMA CliRequestType ==
  ASSUME NEW target \in Targets, NEW id \in RequestIds, NEW command \in CommandNames,
         NEW args \in ArgLists, NEW argv, Typed(argv, target, id, command, args)
  PROVE  CliRequest(argv) \in Seq(Lexemes)
<1> DEFINE g == GluedText(argv)
           hash == HashOf(argv)
           cid == CliId(argv)
           to == SubSeq(g, 1, hash - 1)
           first == OutboundRequest(to, cid, command)
<1>1. /\ argv[1] = IF OwnId(argv) THEN target ELSE Glued(target, id)
      /\ OwnId(argv) => Tail(argv[2]) = id
      /\ Head(RestOf(argv)) = command /\ Tail(RestOf(argv)) = args
  BY TypedIs
<1>2. /\ target \in Seq(Lexemes) /\ id \in Seq(Digits) /\ command \in Seq(Lexemes)
      /\ args \in Seq(Seq(Lexemes)) /\ Len(target) \in Nat
  BY RequestWords
<1>3. Glued(target, id) \in Seq(Lexemes) BY GluedIs
<1>4. /\ g \in Seq(Lexemes) /\ Len(g) \in 0 .. Len(argv[1])
      /\ \A k \in 1 .. Len(g) : g[k] = argv[1][k]
      /\ hash \in 1 .. Len(g) + 1
  BY <1>1, <1>2, <1>3, GluedTextIs
<1>5. Len(g) \in Nat BY <1>4
<1>6. to \in Seq(Lexemes)
  <2> HIDE DEF g, hash
  <2> QED BY <1>4, <1>5
<1>7. cid \in Seq(Digits)
  <2>1. CASE OwnId(argv) BY <1>1, <1>2, <2>1, ReprintedIs DEF CliId
  <2>2. CASE ~OwnId(argv) /\ hash > Len(g)
    <3>1. cid = <<>> BY <2>2 DEF CliId
    <3> QED BY <3>1
  <2>3. CASE ~OwnId(argv) /\ hash <= Len(g)
    <3> DEFINE w == Glued(target, id)
               n == Len(target)
               digits == SubSeq(g, hash + 1, Len(g))
    <3>1. argv[1] = w BY <1>1, <2>3
    <3>2. /\ \A k \in 1 .. n : w[k] # "#"
          /\ \A k \in n + 2 .. Len(w) : w[k] \in Digits
          /\ Len(w) \in Nat
      BY GluedIs
    <3>3. g[hash] = "#"
      <4>1. hash = Run(g, 1, Lexemes \ {"#"}) BY DEF HashOf
      <4>2. 1 \in 1 .. Len(g) + 1 BY <1>5
      <4>3. RunEnds(g, 1, Lexemes \ {"#"}, hash) BY <1>4, <4>1, <4>2, RunIs
      <4>4. g[hash] \in Lexemes BY <1>4, <1>5, <2>3
      <4> QED BY <1>4, <1>5, <2>3, <4>3, <4>4 DEF RunEnds
    <3>4. cid = Reprinted(digits)
      <4>1. ~(hash > Len(g)) BY <1>4, <1>5, <2>3
      <4> QED BY <2>3, <4>1 DEF CliId
    <3> HIDE DEF w, g, hash, n
    <3>5. hash >= n + 1 /\ hash \in Nat /\ n \in Nat /\ Len(g) <= Len(w)
      <4>1. n \in Nat /\ hash \in Nat /\ hash \in 1 .. Len(g) /\ Len(g) <= Len(w)
        BY <1>2, <1>4, <1>5, <2>3, <3>1, <3>2 DEF n
      <4>2. w[hash] = "#" BY <1>4, <3>1, <3>3, <4>1
      <4> QED BY <3>2, <4>1, <4>2
    <3>6. \A k \in hash + 1 .. Len(g) : g[k] \in Digits
      <4> SUFFICES ASSUME NEW k \in hash + 1 .. Len(g) PROVE g[k] \in Digits
        OBVIOUS
      <4>1. k \in 1 .. Len(g) /\ k \in n + 2 .. Len(w) BY <1>5, <3>2, <3>5
      <4> QED BY <1>4, <3>1, <3>2, <4>1
    <3>7. digits \in Seq(Digits)
      <4>1. hash + 1 \in 1 .. Len(g) + 1 /\ Len(g) \in 0 .. Len(g) BY <1>5, <2>3, <3>5
      <4> QED BY <1>4, <1>5, <3>5, <3>6, <4>1
    <3> HIDE DEF digits
    <3> QED BY <3>4, <3>7, ReprintedIs
  <2> QED BY <1>4, <1>5, <2>1, <2>2, <2>3
<1>8. CliRequest(argv) = Trying!Folded(0, first.text, args)
  BY <1>1, CliRequestIsFold
<1> HIDE DEF cid, to
<1>9. first \in [ok : BOOLEAN, text : Seq(Lexemes)] BY <1>2, <1>6, <1>7, OutboundRequestType
<1> HIDE DEF first
<1>10. \A buf \in Seq(Lexemes), a \in Seq(Lexemes) : TryWord(0, buf, a) \in Seq(Lexemes)
  BY TextTypes, AppendedType DEF TryWord
<1>11. first.text \in Seq(Lexemes) BY <1>9
<1> QED BY <1>2, <1>8, <1>10, <1>11, Trying!FoldedIn

\* A first word that fits the array is read as it was meant.
LEMMA CliRequestIs ==
  ASSUME NEW target \in Targets, NEW id \in RequestIds, NEW command \in CommandNames,
         NEW args \in ArgLists, NEW argv, Typed(argv, target, id, command, args),
         Len(Glued(target, id)) < MAX_GLUED
  PROVE  CliRequest(argv) = CliText(target, id, command, args)
<1> DEFINE g == GluedText(argv)
           hash == HashOf(argv)
           w == Glued(target, id)
           n == Len(target)
<1>1. /\ argv[1] = IF OwnId(argv) THEN target ELSE w
      /\ OwnId(argv) => Tail(argv[2]) = id /\ id # <<>>
      /\ Head(RestOf(argv)) = command /\ Tail(RestOf(argv)) = args
  BY TypedIs
<1>2. /\ target \in Seq(Lexemes) /\ n \in Nat /\ \A k \in 1 .. n : target[k] # "#"
  BY RequestWords
<1>3. /\ w \in Seq(Lexemes) /\ Len(w) \in Nat /\ n <= Len(w)
      /\ \A k \in 1 .. n : w[k] = target[k] /\ w[k] # "#"
      /\ SubSeq(w, 1, n) = target
      /\ id = <<>> => w = target
      /\ id # <<>> => n < Len(w) /\ w[n + 1] = "#" /\ SubSeq(w, n + 2, Len(w)) = id
  BY GluedIs
<1>4. Len(argv[1]) < MAX_GLUED
  <2>1. MAX_GLUED \in Nat BY WireAssumption
  <2> HIDE DEF w
  <2> QED BY <1>1, <1>2, <1>3, <2>1 DEF w
<1>5. g = argv[1] /\ hash = Run(g, 1, Lexemes \ {"#"})
  <2>1. g = argv[1] BY <1>1, <1>2, <1>3, <1>4, GluedTextIs
  <2> QED BY <2>1 DEF HashOf
<1>6. hash = n + 1
  <2>1. CASE OwnId(argv) \/ id = <<>>
    <3>1. g = target BY <1>1, <1>3, <1>5, <2>1
    <3>2. Run(target, 1, Lexemes \ {"#"}) = n + 1
      <4>1. n \in 0 .. Len(target) BY <1>2
      <4> QED BY <1>2, <4>1, HashIs
    <3> QED BY <1>5, <3>1, <3>2
  <2>2. CASE ~OwnId(argv) /\ id # <<>>
    <3>1. g = w BY <1>1, <1>5, <2>2
    <3> HIDE DEF w
    <3>2. Run(w, 1, Lexemes \ {"#"}) = n + 1
      <4>1. n \in 0 .. Len(w) BY <1>2, <1>3
      <4> QED BY <1>3, <2>2, <4>1, HashIs
    <3> QED BY <1>5, <3>1, <3>2
  <2> QED BY <2>1, <2>2
<1>7. SubSeq(g, 1, hash - 1) = target
  <2>1. hash - 1 = n BY <1>2, <1>6
  <2>2. SubSeq(target, 1, n) = target BY <1>2
  <2> QED BY <1>1, <1>3, <1>5, <2>1, <2>2
<1>8. CliId(argv) = Printed(id)
  <2>1. CASE OwnId(argv) BY <1>1, <2>1 DEF CliId, Printed
  <2>2. CASE ~OwnId(argv) /\ id = <<>>
    <3>1. g = target BY <1>1, <1>3, <1>5, <2>2
    <3>2. hash > Len(g) BY <1>2, <1>6, <3>1
    <3> QED BY <2>2, <3>2 DEF CliId, Printed
  <2>3. CASE ~OwnId(argv) /\ id # <<>>
    <3>1. g = w BY <1>1, <1>5, <2>3
    <3>2. ~(hash > Len(g)) /\ hash + 1 = n + 2
      <4> HIDE DEF w, g, hash
      <4> QED BY <1>2, <1>3, <1>6, <2>3, <3>1
    <3>3. CliId(argv) = Reprinted(SubSeq(g, hash + 1, Len(g))) BY <2>3, <3>2 DEF CliId
    <3> QED BY <1>3, <2>3, <3>1, <3>2, <3>3 DEF Printed
  <2> QED BY <2>1, <2>2, <2>3
<1> HIDE DEF g, hash
<1>9. CliRequest(argv) = Trying!Folded(0, OutboundRequest(target, Printed(id), command).text, args)
  BY <1>1, <1>7, <1>8, CliRequestIsFold DEF g, hash
<1> QED BY <1>9 DEF CliText

-----------------------------------------------------------------------------
(* The line and the message it was made from. *)

\* The text that was made from a message.
TextOf(m) ==
  IF m.msg # "request" THEN ReplyLine(m.id, m.body)
  ELSE IF m.by = "python" THEN RequestLine(m.target, m.id, m.command, m.args)
  ELSE IF m.by = "native" THEN OutboundWithArgs(m.target, m.id, m.command, m.args).text
  ELSE CliText(m.target, m.id, m.command, m.args)

Requests == [msg : {"request"}, by : {"python", "native", "cli"}, target : Targets,
             id : RequestIds, command : CommandNames, args : ArgLists, relayed : BOOLEAN]
Answers  == [msg : {"reply"}, id : Seq(Digits), body : ReplyBodies, relayed : BOOLEAN]
              \cup [msg : {"event"}, id : {<<>>}, body : EventBodies, relayed : BOOLEAN]

\* The array of the command line tool has cut nothing.
Uncut(m) == m.msg = "request" /\ m.by = "cli" => Len(Glued(m.target, m.id)) < MAX_GLUED

SentInv ==
  sent # NoMessage =>
    /\ sent \in Requests \cup Answers
    /\ sent \in Requests /\ sent.by = "native"
         => OutboundWithArgs(sent.target, sent.id, sent.command, sent.args).ok
    /\ Uncut(sent) =>
         IF sent.relayed
         THEN \E name \in SenderNames : line = name \o <<":", " ">> \o TextOf(sent)
         ELSE line = TextOf(sent)

LineInv == line \in Seq(Lexemes) /\ typed \in 0 .. MaxTyped /\ SentInv

LEMMA ArgsType == ASSUME NEW args \in ArgLists PROVE args \in Seq(Seq(Lexemes))
<1>1. Seq(ArgTokens) \subseteq Seq(Seq(Lexemes)) BY TextTypes, SeqMonotone
<1> QED BY <1>1, ArgListsType

LEMMA RequestLineType ==
  ASSUME NEW target \in Targets, NEW id \in RequestIds, NEW command \in CommandNames,
         NEW args \in ArgLists
  PROVE  RequestLine(target, id, command, args) \in Seq(Lexemes)
<1> DEFINE head == target \o WithId(id) \o <<" ">> \o command
<1>1. /\ target \in Seq(Lexemes) /\ id \in Seq(Digits) /\ command \in Seq(Lexemes)
      /\ <<" ">> \in Seq(Lexemes) /\ args \in Seq(Seq(Lexemes))
  BY TextTypes, ArgsType
<1>2. WithId(id) \in Seq(Lexemes) BY <1>1, WithIdType
<1>3. head \in Seq(Lexemes)
  <2> DEFINE blank == <<" ">>
             i == WithId(id)
  <2>1. i \in Seq(Lexemes) /\ blank \in Seq(Lexemes) /\ head = ((target \o i) \o blank) \o command
    BY <1>1, <1>2
  <2> HIDE DEF blank, i, head
  <2>2. target \o i \in Seq(Lexemes) BY <1>1, <2>1, ConcatType
  <2>3. (target \o i) \o blank \in Seq(Lexemes) BY <2>1, <2>2, ConcatType
  <2>4. ((target \o i) \o blank) \o command \in Seq(Lexemes) BY <1>1, <2>3, ConcatType
  <2> QED BY <2>1, <2>4
<1> HIDE DEF head
<1>4. ASSUME NEW text \in Seq(Lexemes), NEW a \in Seq(Lexemes)
      PROVE  WordBehind(0, text, a) \in Seq(Lexemes)
  <2> DEFINE blank == <<" ">>
  <2>1. blank \in Seq(Lexemes) /\ WordBehind(0, text, a) = (text \o blank) \o a
    BY <1>1 DEF WordBehind
  <2> HIDE DEF blank
  <2>2. text \o blank \in Seq(Lexemes) BY <2>1, ConcatType
  <2>3. (text \o blank) \o a \in Seq(Lexemes) BY <2>2, ConcatType
  <2> QED BY <2>1, <2>3
<1>5. Joining!Folded(0, head, args) \in Seq(Lexemes) BY <1>1, <1>3, <1>4, Joining!FoldedIn
<1> QED BY <1>5, RequestLineIs DEF head

LEMMA OutboundType ==
  ASSUME NEW target \in Targets, NEW id \in RequestIds, NEW command \in CommandNames,
         NEW args \in ArgLists
  PROVE  OutboundWithArgs(target, id, command, args) \in [ok : BOOLEAN, text : Seq(Lexemes)]
<1> DEFINE Outs == [ok : BOOLEAN, text : Seq(Lexemes)]
           first == OutboundRequest(target, id, command)
<1>1. /\ target \in Seq(Lexemes) /\ id \in Seq(Digits) /\ command \in Seq(Lexemes)
      /\ args \in Seq(Seq(Lexemes)) /\ <<" ">> \in Seq(Lexemes)
  BY TextTypes, ArgsType
<1>2. first \in Outs BY <1>1, OutboundRequestType
<1>3. ASSUME NEW out \in Outs, NEW a \in Seq(Lexemes) PROVE TryArgument(0, out, a) \in Outs
  <2> DEFINE buf == Appended(out.text, <<" ">>)
  <2>1. buf \in Seq(Lexemes) BY <1>1, AppendedType
  <2> HIDE DEF buf
  <2>2. Appended(buf, a) \in Seq(Lexemes) /\ Fits(buf, a) \in BOOLEAN
    BY <2>1, AppendedType DEF Fits
  <2>3. TryArgument(0, out, a) =
          IF out.ok THEN [ok |-> Fits(buf, a), text |-> Appended(buf, a)] ELSE out
    BY DEF TryArgument, buf
  <2> QED BY <2>2, <2>3
<1> HIDE DEF Outs, first
<1>4. Arguing!Folded(0, first, args) \in Outs BY <1>1, <1>2, <1>3, Arguing!FoldedIn
<1> QED BY <1>4, OutboundIs DEF Outs, first

LEMMA CliTextType ==
  ASSUME NEW target \in Targets, NEW id \in RequestIds, NEW command \in CommandNames,
         NEW args \in ArgLists
  PROVE  CliText(target, id, command, args) \in Seq(Lexemes)
<1> DEFINE first == OutboundRequest(target, Printed(id), command)
<1>1. /\ target \in Seq(Lexemes) /\ id \in Seq(Digits) /\ command \in Seq(Lexemes)
      /\ args \in Seq(Seq(Lexemes)) /\ <<" ">> \in Seq(Lexemes)
  BY TextTypes, ArgsType
<1>2. Printed(id) \in Seq(Digits) BY <1>1, PrintedIs
<1>3. first \in [ok : BOOLEAN, text : Seq(Lexemes)] BY <1>1, <1>2, OutboundRequestType
<1> HIDE DEF first
<1>4. first.text \in Seq(Lexemes) BY <1>3
<1>5. \A buf \in Seq(Lexemes), a \in Seq(Lexemes) : TryWord(0, buf, a) \in Seq(Lexemes)
  BY <1>1, AppendedType DEF TryWord
<1>6. Trying!Folded(0, first.text, args) \in Seq(Lexemes)
  BY <1>1, <1>4, <1>5, Trying!FoldedIn
<1> QED BY <1>6 DEF CliText, first

LEMMA ReplyLineType ==
  ASSUME NEW id \in Seq(Digits), NEW body \in ReplyBodies \cup EventBodies
  PROVE  ReplyLine(id, body) \in Seq(Lexemes)
<1>1. body \in Seq(Lexemes) /\ Len(body) < MAX_REPLY BY BodyShape DEF BodyIs
<1>2. CASE id = <<>> BY <1>1, <1>2, ReplyLineIs
<1>3. CASE id # <<>>
  <2>1. ReplyLine(id, body) = Numbered(id, Kept(id, body)) /\ Kept(id, body) \in Seq(Lexemes)
    BY <1>1, <1>3, ReplyLineIs
  <2> QED BY <1>3, <2>1, NumberedReply
<1> QED BY <1>2, <1>3

LEMMA InitLine == Init => LineInv
<1> SUFFICES ASSUME Init PROVE LineInv
  OBVIOUS
<1>1. line = <<>> /\ sent = NoMessage /\ typed = 0 BY DEF Init
<1>2. <<>> \in Seq(Lexemes) OBVIOUS
<1>3. 0 \in 0 .. MaxTyped BY WireAssumption
<1> QED BY <1>1, <1>2, <1>3 DEF LineInv, SentInv

\* One step for the sending of any message.
LEMMA SendLine ==
  ASSUME NEW text, NEW m, Send(text, m), text \in Seq(Lexemes), m \in Requests \cup Answers,
         ~m.relayed, Uncut(m) => text = TextOf(m),
         m \in Requests /\ m.by = "native"
           => OutboundWithArgs(m.target, m.id, m.command, m.args).ok
  PROVE  LineInv'
<1>1. line' = text /\ sent' = m /\ typed' = MaxTyped - MaxAppended BY DEF Send
<1>2. typed' \in 0 .. MaxTyped BY <1>1, WireAssumption
<1>3. SentInv'
  <2>1. Uncut(m) => line' = TextOf(m) BY <1>1
  <2>2. (sent.relayed)' = m.relayed BY <1>1
  <2> HIDE DEF TextOf
  <2> QED BY <1>1, <2>1, <2>2 DEF SentInv
<1> QED BY <1>1, <1>2, <1>3 DEF LineInv

LEMMA RequestedLine ==
  ASSUME NEW by \in {"python", "native", "cli"}, NEW target \in Targets, NEW id \in RequestIds,
         NEW command \in CommandNames, NEW args \in ArgLists, NEW text,
         Send(text, Requested(by, target, id, command, args)), text \in Seq(Lexemes),
         Uncut(Requested(by, target, id, command, args))
           => text = TextOf(Requested(by, target, id, command, args)),
         by = "native" => OutboundWithArgs(target, id, command, args).ok
  PROVE  LineInv'
<1> DEFINE m == Requested(by, target, id, command, args)
<1>1. /\ m \in Requests /\ ~m.relayed /\ m.msg = "request" /\ m.by = by
      /\ m.target = target /\ m.id = id /\ m.command = command /\ m.args = args
  BY DEF Requested, Requests
<1> HIDE DEF m
<1>2. Send(text, m) /\ (Uncut(m) => text = TextOf(m)) BY DEF m
<1> QED BY <1>1, <1>2, SendLine

LEMMA NextLine == LineInv /\ [Next]_vars => LineInv'
<1> SUFFICES ASSUME LineInv, [Next]_vars PROVE LineInv'
  OBVIOUS
<1>1. CASE SendRequest
  <2>1. PICK target \in Targets, id \in RequestIds, command \in CommandNames,
             args \in ArgLists :
          \/ BuildRequest(target, id, command, args)
          \/ BuildOutbound(target, id, command, args)
          \/ BuildByCli(target, id, command, args)
    BY <1>1 DEF SendRequest, ArgLists
  <2>2. CASE BuildRequest(target, id, command, args)
    <3> DEFINE m == Requested("python", target, id, command, args)
               text == RequestLine(target, id, command, args)
    <3>1. Send(text, m) BY <2>2 DEF BuildRequest
    <3>2. text = TextOf(m) BY DEF TextOf, Requested
    <3>3. text \in Seq(Lexemes) BY RequestLineType
    <3> QED BY <3>1, <3>2, <3>3, RequestedLine
  <2>3. CASE BuildOutbound(target, id, command, args)
    <3> DEFINE m == Requested("native", target, id, command, args)
               out == OutboundWithArgs(target, id, command, args)
    <3>1. Send(out.text, m) /\ out.ok BY <2>3 DEF BuildOutbound
    <3>2. out.text = TextOf(m) BY DEF TextOf, Requested
    <3>3. out.text \in Seq(Lexemes) BY OutboundType
    <3> QED BY <3>1, <3>2, <3>3, RequestedLine
  <2>4. CASE BuildByCli(target, id, command, args)
    <3> DEFINE m == Requested("cli", target, id, command, args)
    <3>1. PICK argv : Typed(argv, target, id, command, args) /\ Send(CliRequest(argv), m)
      BY <2>4 DEF BuildByCli, Typed
    <3>2. Send(CliRequest(argv), m) BY <3>1
    <3>3. CliRequest(argv) \in Seq(Lexemes) BY <3>1, CliRequestType, Zenon
    <3>4. TextOf(m) = CliText(target, id, command, args) BY DEF TextOf, Requested
    <3>5. Uncut(m) => Len(Glued(target, id)) < MAX_GLUED BY DEF Uncut, Requested
    <3>6. Uncut(m) => CliRequest(argv) = TextOf(m)
      <4> HIDE DEF m
      <4> SUFFICES ASSUME Uncut(m) PROVE CliRequest(argv) = CliText(target, id, command, args)
        BY <3>4
      <4> QED BY <3>1, <3>5, CliRequestIs, Zenon
    <3> QED BY <3>2, <3>3, <3>6, RequestedLine
  <2> QED BY <2>1, <2>2, <2>3, <2>4
<1>2. ASSUME NEW id \in RequestIds, NEW body \in ReplyBodies, Reply(id, body) PROVE LineInv'
  <2> DEFINE n == Printed(id)
             m == [msg |-> "reply", id |-> n, body |-> body, relayed |-> FALSE]
  <2>1. Send(ReplyLine(n, body), m) BY <1>2 DEF Reply
  <2>2. n \in Seq(Digits) BY TextTypes, PrintedIs
  <2> HIDE DEF n
  <2>3. m \in Answers /\ ~m.relayed /\ m \notin Requests BY <2>2 DEF Answers, Requests
  <2>4. TextOf(m) = ReplyLine(n, body) BY DEF TextOf
  <2>5. ReplyLine(n, body) \in Seq(Lexemes) BY <2>2, ReplyLineType
  <2> HIDE DEF m
  <2> QED BY <2>1, <2>3, <2>4, <2>5, SendLine
<1>3. ASSUME NEW body \in EventBodies, PublishEvent(body) PROVE LineInv'
  <2> DEFINE m == [msg |-> "event", id |-> <<>>, body |-> body, relayed |-> FALSE]
  <2>1. Send(body, m) BY <1>3 DEF PublishEvent
  <2>2. m \in Answers /\ ~m.relayed /\ m \notin Requests BY DEF Answers, Requests
  <2>3. body \in Seq(Lexemes) /\ Len(body) < MAX_REPLY BY BodyShape DEF BodyIs
  <2>4. TextOf(m) = body
    <3>1. TextOf(m) = ReplyLine(<<>>, body) BY DEF TextOf
    <3>2. <<>> \in Seq(Digits) OBVIOUS
    <3> QED BY <2>3, <3>1, <3>2, ReplyLineIs
  <2> HIDE DEF m
  <2> QED BY <2>1, <2>2, <2>3, <2>4, SendLine
<1>4. ASSUME NEW name \in SenderNames, Relay(name) PROVE LineInv'
  <2> DEFINE colon == <<":", " ">>
  <2>1. /\ sent # NoMessage /\ ~sent.relayed /\ line' = (name \o colon) \o line
        /\ sent' = [sent EXCEPT !.relayed = TRUE] /\ typed' = typed
    BY <1>4 DEF Relay
  <2>2. /\ sent \in Requests \cup Answers /\ (Uncut(sent) => line = TextOf(sent))
        /\ sent \in Requests /\ sent.by = "native"
             => OutboundWithArgs(sent.target, sent.id, sent.command, sent.args).ok
    BY <2>1 DEF LineInv, SentInv
  <2>3. line' \in Seq(Lexemes)
    <3>1. name \in Seq(Lexemes) /\ colon \in Seq(Lexemes) /\ line \in Seq(Lexemes)
      BY TextTypes DEF LineInv
    <3> HIDE DEF colon
    <3>2. name \o colon \in Seq(Lexemes) BY <3>1, ConcatType
    <3>3. (name \o colon) \o line \in Seq(Lexemes) BY <3>1, <3>2, ConcatType
    <3> QED BY <2>1, <3>3
  <2>4. SentInv'
    <3>1. CASE sent \in Requests
      <4>1. /\ sent' \in Requests /\ sent'.relayed /\ sent'.msg = sent.msg
            /\ sent'.by = sent.by /\ sent'.target = sent.target /\ sent'.id = sent.id
            /\ sent'.command = sent.command /\ sent'.args = sent.args /\ sent.msg = "request"
        BY <2>1, <3>1 DEF Requests
      <4>2. TextOf(sent') = TextOf(sent) /\ (Uncut(sent') <=> Uncut(sent))
        BY <4>1 DEF TextOf, Uncut
      <4> QED BY <2>1, <2>2, <3>1, <4>1, <4>2 DEF SentInv
    <3>2. CASE sent \in Answers
      <4>1. /\ sent' \in Answers /\ sent'.relayed /\ sent'.msg = sent.msg
            /\ sent'.id = sent.id /\ sent'.body = sent.body /\ sent.msg # "request"
            /\ sent' \notin Requests
        BY <2>1, <3>2 DEF Answers, Requests
      <4>2. TextOf(sent') = TextOf(sent) /\ (Uncut(sent') <=> Uncut(sent))
        BY <4>1 DEF TextOf, Uncut
      <4> QED BY <2>1, <2>2, <3>2, <4>1, <4>2 DEF SentInv
    <3> QED BY <2>2, <3>1, <3>2
  <2> QED BY <2>1, <2>3, <2>4 DEF LineInv
<1>5. ASSUME NEW l \in Alphabet, Type(l) PROVE LineInv'
  <2>1. typed < MaxTyped /\ line' = Append(line, l) /\ sent' = NoMessage /\ typed' = typed + 1
    BY <1>5 DEF Type
  <2>2. line' \in Seq(Lexemes) BY <2>1, WireAssumption DEF LineInv
  <2>3. typed' \in 0 .. MaxTyped BY <2>1, WireAssumption DEF LineInv
  <2> QED BY <2>1, <2>2, <2>3 DEF LineInv, SentInv
<1>6. CASE UNCHANGED vars
  BY <1>6 DEF LineInv, SentInv, vars, TextOf, Uncut
<1> QED BY <1>1, <1>2, <1>3, <1>4, <1>5, <1>6 DEF Next

LEMMA LineInvariant == Spec => []LineInv
BY InitLine, NextLine, PTL DEF Spec

\* Whatever is on the channel, sent, relayed, typed or continued by hand, what
\* Parser::parse makes of it fits the arrays of a struct Request.
THEOREM WireTypeCorrect == Spec => []TypeOK
<1>1. LineInv => TypeOK BY ParseFits DEF LineInv, TypeOK
<1> QED BY <1>1, LineInvariant, PTL

-----------------------------------------------------------------------------
(* Two parsers. *)

PlainText(s) ==
  /\ s \in Seq(Lexemes)
  /\ ~MixedCaseGroup(s) /\ ToSet(s) \cap Foreign = {} /\ ShortIds(s)

LEMMA TokensAgree ==
  ASSUME NEW s, PlainText(s), NEW i \in 1 .. Len(s) + 1
  PROVE  Token(s, i, Python.ident) = Token(s, i, Native.ident)
<1>1. s \in Seq(Lexemes) /\ \A k \in 1 .. Len(s) : s[k] \notin Foreign
  BY DEF PlainText, ToSet
<1>2. ASSUME NEW from \in 1 .. Len(s) + 1
      PROVE  Run(s, from, Ident \cup Foreign) = Run(s, from, Ident)
  <2> DEFINE e == Run(s, from, Ident)
  <2>1. RunEnds(s, from, Ident, e) BY <1>1, RunIs
  <2> HIDE DEF e
  <2>2. RunEnds(s, from, Ident \cup Foreign, e) BY <1>1, <2>1 DEF RunEnds
  <2> QED BY <1>1, <2>2, RunUnique DEF e
<1>3. Run(s, i, Blank) \in 1 .. Len(s) + 1 BY <1>1, RunRange
<1>4. Run(s, Run(s, i, Blank), Ident \cup Foreign) = Run(s, Run(s, i, Blank), Ident)
  BY <1>2, <1>3
<1> QED BY <1>4, NativeFields, PythonFields DEF Token

LEMMA DestinationsAgree ==
  ASSUME NEW s, PlainText(s), NEW p \in 1 .. Len(s)
  PROVE  LET dn == Destination(Native, s, p)
             dp == Destination(Python, s, p)
         IN /\ dn.next = dp.next /\ (dn.target = <<>> <=> dp.target = <<>>)
            /\ Len(dp.target) < MAX_TOKEN => dn = dp
<1> DEFINE dn == Destination(Native, s, p)
           dp == Destination(Python, s, p)
<1>1. s \in Seq(Lexemes) /\ Len(s) \in Nat BY DEF PlainText
<1>2. (p < Len(s) /\ s[p] \in Native.groups /\ s[p + 1] = ":")
        <=> (p < Len(s) /\ s[p] \in Python.groups /\ s[p + 1] = ":")
  <2>1. p < Len(s) => ~(s[p] = "Group" /\ s[p + 1] = ":")
    BY <1>1 DEF PlainText, MixedCaseGroup
  <2> QED BY <2>1, NativeFields, PythonFields DEF Groups
<1>3. CASE s[p] = "@"
  <2> DEFINE e == Run(s, p + 1, HexDigit)
             hex == SubSeq(s, p + 1, e - 1)
  <2>1. e \in p + 1 .. Len(s) + 1 BY <1>1, RunRange
  <2>2. /\ dn = [kind |-> "Id", target |-> Cut(Native, hex), next |-> e]
        /\ dp = [kind |-> "Id", target |-> Cut(Python, hex), next |-> e]
    BY <1>3 DEF Destination
  <2> HIDE DEF e
  <2>3. hex \in Seq(Lexemes) BY <1>1, <2>1
  <2> HIDE DEF hex, dn, dp
  <2>4. /\ Cut(Native, hex) = <<>> <=> hex = <<>>
        /\ Len(hex) < MAX_TOKEN => Cut(Native, hex) = hex
        /\ Cut(Python, hex) = hex
    BY <2>3, CutType
  <2>5. dn.next = dp.next /\ (dn.target = <<>> <=> dp.target = <<>>)
    BY <2>2, <2>4
  <2>6. Len(dp.target) < MAX_TOKEN => dn = dp BY <2>2, <2>4
  <2> QED BY <2>5, <2>6 DEF dn, dp
<1>4. CASE s[p] # "@" /\ p < Len(s) /\ s[p] \in Native.groups /\ s[p + 1] = ":"
  <2> DEFINE t == Token(s, p + 2, Native.ident)
  <2>1. t.text \in Seq(Lexemes) BY <1>1, <1>4, TokenType
  <2>2. Token(s, p + 2, Python.ident) = t BY <1>1, <1>4, TokensAgree
  <2>3. /\ dn = [kind |-> "Group", target |-> Cut(Native, t.text), next |-> t.next]
        /\ dp = [kind |-> "Group", target |-> Cut(Python, t.text), next |-> t.next]
    BY <1>2, <1>4, <2>2 DEF Destination
  <2> HIDE DEF t, dn, dp
  <2>4. /\ Cut(Native, t.text) = <<>> <=> t.text = <<>>
        /\ Len(t.text) < MAX_TOKEN => Cut(Native, t.text) = t.text
        /\ Cut(Python, t.text) = t.text
    BY <2>1, CutType
  <2>5. dn.next = dp.next /\ (dn.target = <<>> <=> dp.target = <<>>)
    BY <2>3, <2>4
  <2>6. Len(dp.target) < MAX_TOKEN => dn = dp BY <2>3, <2>4
  <2> QED BY <2>5, <2>6 DEF dn, dp
<1>5. CASE ~(s[p] = "@") /\ ~(p < Len(s) /\ s[p] \in Native.groups /\ s[p + 1] = ":")
  <2> DEFINE t == Token(s, p, Native.ident)
  <2>1. t.text \in Seq(Lexemes) BY <1>1, TokenType
  <2>2. Token(s, p, Python.ident) = t BY <1>1, TokensAgree
  <2>3. /\ dn = [kind |-> AddressOf(Cut(Native, t.text)), target |-> Cut(Native, t.text),
                 next |-> t.next]
        /\ dp = [kind |-> AddressOf(Cut(Python, t.text)), target |-> Cut(Python, t.text),
                 next |-> t.next]
    BY <1>2, <1>5, <2>2 DEF Destination
  <2> HIDE DEF t, dn, dp
  <2>4. /\ Cut(Native, t.text) = <<>> <=> t.text = <<>>
        /\ Len(t.text) < MAX_TOKEN => Cut(Native, t.text) = t.text
        /\ Cut(Python, t.text) = t.text
    BY <2>1, CutType
  <2>5. dn.next = dp.next /\ (dn.target = <<>> <=> dp.target = <<>>)
    BY <2>3, <2>4
  <2>6. Len(dp.target) < MAX_TOKEN => dn = dp BY <2>3, <2>4
  <2> QED BY <2>5, <2>6 DEF dn, dp
<1> QED BY <1>3, <1>4, <1>5

LEMMA IdsAgree ==
  ASSUME NEW s, PlainText(s), NEW p \in 1 .. Len(s) + 1
  PROVE  LET rn == IdAfter(Native, s, p)
             rp == IdAfter(Python, s, p)
         IN /\ rn.next = rp.next /\ rn.malformed = rp.malformed
            /\ rp.id < IdLimit => rn.id = rp.id
<1> DEFINE q == Run(s, p, Blank)
           found == q <= Len(s) /\ s[q] = "#"
           r == Run(s, q + 1, Digits)
           k == r - (q + 1)
           digits == SubSeq(s, q + 1, r - 1)
<1>1. s \in Seq(Lexemes) /\ Len(s) \in Nat BY DEF PlainText
<1>2. q \in 1 .. Len(s) + 1 BY <1>1, RunRange
<1>3. CASE ~found
  BY <1>3 DEF IdAfter
<1>4. CASE found
  <2> HIDE DEF q
  <2>1. q + 1 \in 1 .. Len(s) + 1 /\ q \in Nat BY <1>1, <1>2, <1>4
  <2>2. RunEnds(s, q + 1, Digits, r) BY <1>1, <2>1, RunIs
  <2>3. k <= IdDigits BY <1>1, <1>2, <1>4 DEF PlainText, ShortIds
  <2> HIDE DEF r
  <2>4. r \in q + 1 .. Len(s) + 1 /\ \A m \in q + 1 .. r - 1 : s[m] \in Digits
    BY <2>2 DEF RunEnds
  <2>5. k \in Nat /\ q + 1 + k = r BY <2>1, <2>4
  <2>6. AtMost(k, Native.digits) = k /\ AtMost(k, Python.digits) = k
    <3> HIDE DEF k
    <3>1. IdDigits \in Nat BY WireAssumption
    <3> QED BY <2>3, <2>5, <3>1, AtMostIs, NativeFields, PythonFields
  <2>7. digits \in Seq(Digits) BY <1>1, <2>1, <2>4
  <2>8. ASSUME NEW d, AtMost(k, d.digits) = k
        PROVE  IdAfter(d, s, p) = [malformed |-> r = q + 1, next |-> r,
                                   id |-> Narrowed(d, digits)]
    <3>1. IdAfter(d, s, p) =
            LET e == IF found THEN q + 1 + AtMost(k, d.digits) ELSE q
            IN [malformed |-> found /\ e = q + 1, next |-> e,
                id |-> IF found THEN Narrowed(d, SubSeq(s, q + 1, e - 1)) ELSE NoId]
      BY DEF IdAfter, q, r
    <3>2. q + 1 + AtMost(k, d.digits) = r BY <2>5, <2>8
    <3> HIDE DEF k
    <3> QED BY <1>4, <3>1, <3>2
  <2> HIDE DEF digits, k, found
  <2>9. Narrowed(Python, digits) = Value(digits) BY <2>7, NarrowedIs
  <2>10. Value(digits) < IdLimit => Narrowed(Native, digits) = Value(digits)
    BY <2>7, NarrowedIs
  <2> QED BY <2>6, <2>8, <2>9, <2>10
<1> QED BY <1>3, <1>4

LEMMA ArgumentsAgree ==
  ASSUME NEW s \in Seq(Lexemes), NEW p \in 1 .. Len(s) + 1,
         Len(Arguments(Python, s, p)) <= MAX_ARGS,
         \A i \in DOMAIN Arguments(Python, s, p) : Len(Arguments(Python, s, p)[i]) < MAX_TOKEN
  PROVE  Arguments(Native, s, p) = Arguments(Python, s, p)
<1> DEFINE args == TokensOf(SubSeq(s, p, Run(s, p, Lexemes \ Break) - 1), Blank)
           nn == AtMost(Len(args), Native.args)
           np == AtMost(Len(args), Python.args)
<1>1. /\ args \in Seq(Seq(Lexemes) \ {<<>>})
      /\ Arguments(Python, s, p) = [i \in 1 .. np |-> Cut(Python, args[i])]
      /\ np = Len(args)
  BY ArgumentsAre
<1>2. /\ Arguments(Native, s, p) = [i \in 1 .. nn |-> Cut(Native, args[i])]
      /\ Len(args) <= MAX_ARGS => nn = Len(args)
  BY ArgumentsAre
<1> HIDE DEF args, nn, np
<1>3. Len(args) \in Nat /\ \A i \in 1 .. Len(args) : args[i] \in Seq(Lexemes) BY <1>1
<1>4. \A i \in 1 .. Len(args) : Cut(Python, args[i]) = args[i] BY <1>3, CutType
<1>5. Arguments(Python, s, p) = [i \in 1 .. Len(args) |-> args[i]] BY <1>1, <1>4
<1>6. Len(args) <= MAX_ARGS BY <1>3, <1>5
<1>7. \A i \in 1 .. Len(args) : Len(args[i]) < MAX_TOKEN BY <1>5
<1>8. \A i \in 1 .. Len(args) : Cut(Native, args[i]) = args[i] BY <1>3, <1>7, CutType
<1> QED BY <1>2, <1>5, <1>6, <1>8

LEMMA ParsedFromAgrees ==
  ASSUME NEW s, PlainText(s), NEW p \in 1 .. Len(s), WithinLimits(ParsedFrom(Python, s, p))
  PROVE  ParsedFrom(Native, s, p) = ParsedFrom(Python, s, p)
<1> DEFINE dn == Destination(Native, s, p)
           dp == Destination(Python, s, p)
           rn == IdAfter(Native, s, dn.next)
           rp == IdAfter(Python, s, dn.next)
           cmd == Token(s, rn.next, Native.ident)
           cn == Canonical(Lower(Cut(Native, cmd.text)))
           cp == Canonical(Lower(Cut(Python, cmd.text)))
           an == Arguments(Native, s, cmd.next)
           ap == Arguments(Python, s, cmd.next)
<1>1. s \in Seq(Lexemes) /\ Len(s) \in Nat BY DEF PlainText
<1>2. /\ dn.next = dp.next /\ (dn.target = <<>> <=> dp.target = <<>>)
      /\ Len(dp.target) < MAX_TOKEN => dn = dp
      /\ dn.next \in 1 .. Len(s) + 1
  BY <1>1, DestinationsAgree, DestinationType
<1>3. ParsedFrom(Native, s, p) =
        IF dn.target = <<>> \/ rn.malformed THEN Failed("Malformed")
        ELSE IF cmd.text = <<>> THEN Failed("MissingCommand")
        ELSE [result |-> "Ok", kind |-> dn.kind, target |-> dn.target, id |-> rn.id,
              command |-> cn, args |-> an]
  BY DEF ParsedFrom
<1>4. ParsedFrom(Python, s, p) =
        LET r == IdAfter(Python, s, dp.next)
            c == Token(s, r.next, Python.ident)
        IN IF dp.target = <<>> \/ r.malformed THEN Failed("Malformed")
           ELSE IF c.text = <<>> THEN Failed("MissingCommand")
           ELSE [result |-> "Ok", kind |-> dp.kind, target |-> dp.target, id |-> r.id,
                 command |-> Canonical(Lower(Cut(Python, c.text))),
                 args |-> Arguments(Python, s, c.next)]
  BY DEF ParsedFrom
<1> HIDE DEF dn, dp
<1>5. /\ rn.next = rp.next /\ rn.malformed = rp.malformed
      /\ rp.id < IdLimit => rn.id = rp.id
      /\ rn.next \in 1 .. Len(s) + 1
  BY <1>1, <1>2, IdsAgree, IdAfterType
<1>6. IdAfter(Python, s, dp.next) = rp BY <1>2
<1> HIDE DEF rn, rp
<1>7. Token(s, rp.next, Python.ident) = cmd BY <1>1, <1>5, TokensAgree
<1>8. cmd.text \in Seq(Lexemes) /\ cmd.next \in 1 .. Len(s) + 1 BY <1>1, <1>5, TokenType
<1> HIDE DEF cmd
<1>9. ParsedFrom(Python, s, p) =
        IF dp.target = <<>> \/ rp.malformed THEN Failed("Malformed")
        ELSE IF cmd.text = <<>> THEN Failed("MissingCommand")
        ELSE [result |-> "Ok", kind |-> dp.kind, target |-> dp.target, id |-> rp.id,
              command |-> cp, args |-> ap]
  BY <1>4, <1>6, <1>7
<1> HIDE DEF cn, cp, an, ap
<1>10. CASE dp.target = <<>> \/ rp.malformed \/ cmd.text = <<>>
  BY <1>2, <1>3, <1>5, <1>9, <1>10
<1>11. CASE ~(dp.target = <<>> \/ rp.malformed \/ cmd.text = <<>>)
  <2> DEFINE whole == [result |-> "Ok", kind |-> dp.kind, target |-> dp.target, id |-> rp.id,
                       command |-> cp, args |-> ap]
  <2>1. ParsedFrom(Python, s, p) = whole BY <1>9, <1>11
  <2>2. /\ Len(dp.target) < MAX_TOKEN /\ Len(cp) < MAX_TOKEN
        /\ Len(ap) <= MAX_ARGS /\ \A i \in DOMAIN ap : Len(ap[i]) < MAX_TOKEN
        /\ rp.id < IdLimit
    BY <2>1 DEF WithinLimits
  <2>3. dn = dp /\ rn.id = rp.id BY <1>2, <1>5, <2>2
  <2>4. an = ap BY <1>1, <1>8, <2>2, ArgumentsAgree DEF an, ap
  <2>5. cn = cp
    <3>1. Cut(Python, cmd.text) = cmd.text BY <1>8, CutType
    <3>2. Len(cp) = Len(cmd.text) BY <1>8, <3>1, CanonicalLen DEF cp
    <3>3. Cut(Native, cmd.text) = cmd.text BY <1>8, <2>2, <3>2, CutType
    <3> QED BY <3>1, <3>3 DEF cn, cp
  <2> QED BY <1>3, <1>5, <1>11, <2>1, <2>3, <2>4, <2>5
<1> QED BY <1>10, <1>11

\* parser.py and Parser.cpp read every line alike, of any length, but for what
\* PlainText and WithinLimits leave out.
LEMMA ParseAgrees ==
  ASSUME NEW s, PlainText(s), WithinLimits(PythonParse(s))
  PROVE  NativeParse(s) = PythonParse(s)
<1> DEFINE body == Run(s, Run(s, 1, Blank), Break)
           p == Run(s, body, Blank)
<1>1. s \in Seq(Lexemes) /\ Len(s) \in Nat BY DEF PlainText
<1>2. body \in 1 .. Len(s) + 1 /\ p \in 1 .. Len(s) + 1 BY <1>1, ParseStart
<1>3. \A d \in {Native, Python} :
        ParseAs(d, s) = IF body > Len(s) THEN Failed("Empty")
                        ELSE IF p > Len(s) THEN Failed("MissingTarget") ELSE ParsedFrom(d, s, p)
  BY DEF ParseAs
<1> HIDE DEF body, p
<1>4. CASE body > Len(s) \/ p > Len(s)
  BY <1>3, <1>4 DEF NativeParse, PythonParse
<1>5. CASE ~(body > Len(s)) /\ ~(p > Len(s))
  <2>1. PythonParse(s) = ParsedFrom(Python, s, p) /\ NativeParse(s) = ParsedFrom(Native, s, p)
    BY <1>3, <1>5 DEF NativeParse, PythonParse
  <2>2. p \in 1 .. Len(s) BY <1>1, <1>2, <1>5
  <2> QED BY <2>1, <2>2, ParsedFromAgrees
<1> QED BY <1>4, <1>5

\* parser.py says that it matches Parser.cpp: what it reads otherwise has a
\* "Group:" in mixed case, a letter outside ASCII, or exceeds a limit of the node.
THEOREM ParsersAlwaysAgree == Spec => []ParsersAgree
<1>1. LineInv => ParsersAgree BY ParseAgrees DEF LineInv, ParsersAgree, PlainText
<1> QED BY <1>1, LineInvariant, PTL

-----------------------------------------------------------------------------
(* Answers. *)

\* A run that has ended before it begins.
LEMMA RunNone ==
  ASSUME NEW T, NEW s \in Seq(T), NEW i \in 1 .. Len(s) + 1, NEW class,
         i > Len(s) \/ s[i] \notin class
  PROVE  Run(s, i, class) = i
<1>1. RunEnds(s, i, class, i) BY DEF RunEnds
<1> QED BY <1>1, RunUnique

LEMMA StartsAtOnce ==
  ASSUME NEW s \in Seq(Lexemes), s # <<>>, s[1] \notin Blank, s[1] \notin Break, NEW d
  PROVE  ParseAs(d, s) = ParsedFrom(d, s, 1)
<1>1. Len(s) \in Nat \ {0} /\ 1 \in 1 .. Len(s) + 1 OBVIOUS
<1>2. Run(s, 1, Blank) = 1 /\ Run(s, 1, Break) = 1 BY <1>1, RunNone
<1> QED BY <1>1, <1>2 DEF ParseAs

LEMMA StripBetween ==
  ASSUME NEW s \in Seq(Lexemes), NEW n \in Nat, n + 3 <= Len(s),
         \A i \in 1 .. n : s[i] \in Lexemes \ {":"},
         s[n + 1] \notin Lexemes \ {":"}, s[n + 2] \in Blank, s[n + 3] \notin Blank
  PROVE  StripSenderPrefix(s) = SubSeq(s, n + 3, Len(s))
<1>1. /\ 1 \in 1 .. Len(s) + 1 /\ n + 1 \in 1 .. Len(s) + 1
      /\ n + 2 \in 1 .. Len(s) + 1 /\ n + 3 \in n + 2 .. Len(s) + 1
      /\ n + 1 < Len(s) /\ n + 1 + 1 = n + 2
      /\ \A k \in 1 .. n + 1 - 1 : k \in 1 .. n
      /\ \A k \in n + 2 .. n + 3 - 1 : k = n + 2
  OBVIOUS
<1>2. Run(s, 1, Lexemes \ {":"}) = n + 1
  <2>1. RunEnds(s, 1, Lexemes \ {":"}, n + 1) BY <1>1 DEF RunEnds
  <2> QED BY <1>1, <2>1, RunUnique
<1>3. Run(s, n + 2, Blank) = n + 3
  <2>1. RunEnds(s, n + 2, Blank, n + 3) BY <1>1 DEF RunEnds
  <2> QED BY <1>1, <2>1, RunUnique
<1> QED BY <1>1, <1>2, <1>3 DEF StripSenderPrefix

\* The radio's sender name and no more comes off.
LEMMA StripIs ==
  ASSUME NEW name \in SenderNames, NEW text \in Seq(Lexemes), text # <<>>, text[1] \notin Blank
  PROVE  StripSenderPrefix(name \o <<":", " ">> \o text) = text
<1>1. name \in Seq(Lexemes) BY TextTypes
<1>2. ":" \in Lexemes /\ " " \in Lexemes /\ " " \in Blank BY Classes
<1>3. Len(text) \in Nat \ {0} /\ 1 \in 1 .. Len(text) OBVIOUS
<1>4. Len(name) \in Nat /\ \A i \in 1 .. Len(name) : name[i] \in Lexemes \ {":"}
  <2>1. \A i \in DOMAIN name : name[i] # ":" BY WireAssumption
  <2> QED BY <1>1, <2>1
<1> DEFINE n == Len(name)
           s == name \o <<":", " ">> \o text
<1>5. IsBetween(Lexemes, name, ":", " ", text, s) BY <1>1, <1>2, Between
<1> HIDE DEF s, n
<1>6. /\ s \in Seq(Lexemes) /\ Len(s) = n + 2 + Len(text)
      /\ \A i \in 1 .. n : s[i] = name[i]
      /\ s[n + 1] = ":" /\ s[n + 2] = " "
      /\ \A i \in 1 .. Len(text) : s[n + 2 + i] = text[i]
      /\ SubSeq(s, n + 3, Len(s)) = text
  BY <1>5 DEF IsBetween, n
<1>7. Len(s) = n + 2 + Len(text) /\ n \in Nat BY <1>6, <1>4 DEF n
<1>8. \A i \in 1 .. n : s[i] \in Lexemes \ {":"} BY <1>6, <1>4 DEF n
<1>9. s[n + 1] \notin Lexemes \ {":"} /\ s[n + 2] \in Blank BY <1>2, <1>6
<1>10. n \in Nat /\ n + 2 + 1 = n + 3 /\ n + 3 <= Len(s) BY <1>3, <1>7
<1>11. s[n + 3] \notin Blank BY <1>3, <1>6, <1>10
<1>12. StripSenderPrefix(s) = SubSeq(s, n + 3, Len(s))
  BY <1>6, <1>8, <1>9, <1>10, <1>11, StripBetween
<1>13. StripSenderPrefix(s) = text BY <1>6, <1>12
<1> QED BY <1>13 DEF s

\* A line that begins with an id is no request, in either dialect.
LEMMA NumberedIsMalformed ==
  ASSUME NEW s \in Seq(Lexemes), s # <<>>, s[1] = "#", NEW d \in {Native, Python}
  PROVE  ParseAs(d, s) = Failed("Malformed")
<1>1. "#" \notin Blank /\ "#" \notin Break /\ "#" \notin Ident /\ "#" \notin Foreign
  BY Classes
<1>2. Len(s) \in Nat \ {0} /\ 1 \in 1 .. Len(s) + 1 OBVIOUS
<1>3. "#" \notin d.ident /\ "#" \notin d.groups
  BY <1>1, NativeFields, PythonFields DEF Groups
<1>4. Token(s, 1, d.ident).text = <<>>
  <2>1. Run(s, 1, Blank) = 1 /\ Run(s, 1, d.ident) = 1 BY <1>1, <1>2, <1>3, RunNone
  <2> QED BY <2>1 DEF Token
<1>5. Cut(d, <<>>) = <<>>
  <2>1. <<>> \in Seq(Lexemes) OBVIOUS
  <2> QED BY <2>1, CutType
<1>6. Destination(d, s, 1).target = <<>> BY <1>3, <1>4, <1>5 DEF Destination
<1>7. ParsedFrom(d, s, 1) = Failed("Malformed") BY <1>6 DEF ParsedFrom
<1> QED BY <1>1, <1>7, StartsAtOnce

\* A line that begins with a word of its own is at most a request to the node
\* of that name.
LEMMA WordIsName ==
  ASSUME NEW s \in Seq(Lexemes), s # <<>>, s[1] \in Words \ {"all", "ALL", "self"},
         Len(s) > 1 => s[2] \in Blank \cup Break, NativeParse(s).result = "Ok"
  PROVE  NativeParse(s).kind = "Named" /\ NativeParse(s).target = Cut(Native, <<s[1]>>)
<1> DEFINE w == s[1]
<1>1. /\ w \in Ident /\ w \notin Blank /\ w \notin Break /\ w # "@"
      /\ ":" \notin Blank /\ ":" \notin Break /\ Blank \cap Ident = {} /\ Break \cap Ident = {}
  BY Classes
<1>2. Len(s) \in Nat \ {0} /\ 1 \in 1 .. Len(s) + 1 OBVIOUS
<1>3. NativeParse(s) = ParsedFrom(Native, s, 1) BY <1>1, StartsAtOnce DEF NativeParse
<1>4. Token(s, 1, Native.ident).text = <<w>>
  <2>1. Run(s, 1, Blank) = 1 BY <1>1, <1>2, RunNone
  <2>2. RunEnds(s, 1, Ident, 2) BY <1>1, <1>2 DEF RunEnds
  <2>3. Run(s, 1, Ident) = 2 BY <1>2, <2>2, RunUnique
  <2>4. SubSeq(s, 1, 2 - 1) = <<w>>
    <3>1. 2 - 1 = 1 OBVIOUS
    <3> QED BY <3>1, FirstOf
  <2> QED BY <2>1, <2>3, <2>4, NativeFields DEF Token
<1>5. Cut(Native, <<w>>) = <<w>>
  <2>1. <<w>> \in Seq(Lexemes) /\ Len(<<w>>) = 1 OBVIOUS
  <2>2. 1 < MAX_TOKEN BY WireAssumption
  <2> QED BY <2>1, <2>2, CutType
<1>6. AddressOf(<<w>>) = "Named"
  <2>1. Lower(<<w>>)[1] = Fold(w) BY DEF Lower
  <2>2. Fold(w) # "all" /\ Fold(w) # "self" BY DEF Fold
  <2>3. Lower(<<w>>) # <<"all">> /\ Lower(<<w>>) # <<"self">> BY <2>1, <2>2
  <2> QED BY <2>3 DEF AddressOf
<1>7. ~(1 < Len(s) /\ s[1] \in Native.groups /\ s[1 + 1] = ":") BY <1>1
<1>8. /\ Destination(Native, s, 1).kind = "Named"
      /\ Destination(Native, s, 1).target = Cut(Native, <<w>>)
  BY <1>1, <1>4, <1>5, <1>6, <1>7 DEF Destination
<1> QED BY <1>3, <1>8 DEF ParsedFrom, Failed

\* A reply with an id is a request to nobody, and another answer only to the
\* node that has its first word for a name.
THEOREM AnswersAreNeverRequests == Spec => []AnswersAreNotRequests
<1>1. LineInv => AnswersAreNotRequests
  <2> SUFFICES ASSUME LineInv, sent # NoMessage, sent.msg \in {"reply", "event"}, sent.relayed,
                      NativeParse(StripSenderPrefix(line)).result = "Ok"
               PROVE  LET r == NativeParse(StripSenderPrefix(line))
                      IN sent.id = <<>> /\ r.kind = "Named"
                           /\ r.target = Cut(Native, <<sent.body[1]>>)
    BY DEF AnswersAreNotRequests
  <2> DEFINE text == ReplyLine(sent.id, sent.body)
  <2>1. PICK name \in SenderNames : line = name \o <<":", " ">> \o text
    BY DEF LineInv, SentInv, TextOf, Uncut
  <2>2. sent.id \in Seq(Digits) /\ sent.body \in ReplyBodies \cup EventBodies
    <3>1. sent \in Answers BY DEF LineInv, SentInv, Requests
    <3>2. <<>> \in Seq(Digits) OBVIOUS
    <3> QED BY <3>1, <3>2, TextTypes DEF Answers
  <2>3. CASE sent.id # <<>>
    <3>1. text \in Seq(Lexemes) /\ text # <<>> /\ text[1] = "#"
      <4>1. sent.body \in Seq(Lexemes) BY <2>2, BodyShape DEF BodyIs
      <4>2. text = Numbered(sent.id, Kept(sent.id, sent.body))
            /\ Kept(sent.id, sent.body) \in Seq(Lexemes)
        BY <2>2, <2>3, <4>1, ReplyLineIs
      <4> QED BY <2>2, <2>3, <4>2, NumberedReply
    <3> HIDE DEF text
    <3>2. StripSenderPrefix(line) = text
      <4>1. "#" \notin Blank BY Classes
      <4> QED BY <2>1, <3>1, <4>1, StripIs
    <3>3. NativeParse(text) = Failed("Malformed")
      BY <3>1, NumberedIsMalformed DEF NativeParse
    <3> QED BY <3>2, <3>3 DEF Failed
  <2>4. CASE sent.id = <<>>
    <3>1. text = sent.body BY <2>2, <2>4, BodyShape, ReplyLineIs DEF BodyIs
    <3> DEFINE b == sent.body
    <3>2. /\ b \in Seq(Lexemes) /\ b # <<>> /\ b[1] \notin Blank
          /\ b[1] \in Words \ {"all", "ALL", "self"}
          /\ Len(b) > 1 => b[2] \in Blank \cup Break
      BY <2>2, BodyShape DEF BodyIs
    <3>3. StripSenderPrefix(line) = b BY <2>1, <3>1, <3>2, StripIs
    <3> HIDE DEF b
    <3>4. NativeParse(b).result = "Ok" BY <3>3
    <3>5. NativeParse(b).kind = "Named" /\ NativeParse(b).target = Cut(Native, <<b[1]>>)
      BY <3>2, <3>4, WordIsName
    <3> QED BY <2>4, <3>3, <3>5 DEF b
  <2> QED BY <2>3, <2>4
<1> QED BY <1>1, LineInvariant, PTL

-----------------------------------------------------------------------------
(* Replies at the host. *)

\* The host hears a numbered reply as the response to its id, and the body as
\* what it is without the id.
THEOREM RepliesCorrelate == Spec => []ReplyCorrelates
<1>1. LineInv => ReplyCorrelates
  <2> SUFFICES ASSUME LineInv, sent # NoMessage, sent.msg = "reply", sent.id # <<>>, sent.relayed
               PROVE  /\ Classify(line) = [kind |-> "response", id |-> Value(sent.id)]
                      /\ ResponseKind(StripSenderPrefix(line)) =
                           IF Fits(ReplyHead(sent.id), sent.body) THEN ResponseKind(sent.body)
                           ELSE "unknown"
    BY DEF ReplyCorrelates
  <2> DEFINE n == WithId(sent.id)
             text == ReplyLine(sent.id, sent.body)
             kept == Kept(sent.id, sent.body)
             rest == SplitTokens(kept)
  <2>1. PICK name \in SenderNames : line = name \o <<":", " ">> \o text
    BY DEF LineInv, SentInv, TextOf, Uncut
  <2>2. sent.id \in Seq(Digits) /\ sent.body \in ReplyBodies
    <3>1. sent \in Answers BY DEF LineInv, SentInv, Requests
    <3> QED BY <3>1, TextTypes DEF Answers
  <2>3. /\ sent.body \in Seq(Lexemes) /\ kept \in Seq(Lexemes)
        /\ text = Numbered(sent.id, kept)
    <3>1. sent.body \in Seq(Lexemes) BY <2>2, BodyShape DEF BodyIs
    <3> QED BY <2>2, <3>1, ReplyLineIs
  <2>4. text \in Seq(Lexemes) /\ text # <<>> /\ text[1] = "#"
    <3> HIDE DEF kept, text
    <3> QED BY <2>2, <2>3, NumberedReply
  <2>5. SplitTokens(text) = <<n>> \o rest
    <3> HIDE DEF kept, text
    <3> QED BY <2>2, <2>3, NumberedTokens
  <2>6. /\ n \in Seq(Lexemes \ Separators) /\ n # <<>> /\ Len(n) > 1 /\ n[1] = "#"
        /\ \A i \in 2 .. Len(n) : n[i] \in Digits
        /\ Tail(n) = sent.id
    BY <2>2, NumberIs
  <2>7. /\ rest \in Seq(Seq(Lexemes) \ {<<>>})
        /\ IF Fits(ReplyHead(sent.id), sent.body)
           THEN rest # <<>> /\ rest[1] = <<sent.body[1]>> ELSE rest = <<>>
    <3>1. rest \in Seq(Seq(Lexemes) \ {<<>>})
      <4> HIDE DEF kept
      <4> QED BY <2>3, TokensOfType DEF SplitTokens
    <3>2. CASE Fits(ReplyHead(sent.id), sent.body)
      <4>1. kept = sent.body BY <3>2 DEF Kept
      <4> HIDE DEF kept
      <4> QED BY <2>2, <3>1, <3>2, <4>1, BodyTokens
    <3>3. CASE ~Fits(ReplyHead(sent.id), sent.body)
      <4>1. kept = <<>> BY <3>3 DEF Kept
      <4>2. SplitTokens(<<>>) = <<>>
        <5>1. <<>> \in Seq(Lexemes \ Separators) OBVIOUS
        <5>2. TokensOf(<<>>, Separators) = <<>> BY <5>1, TokensOfWord, Zenon
        <5> QED BY <5>2 DEF SplitTokens, Separators
      <4> QED BY <3>1, <3>3, <4>1, <4>2
    <3> QED BY <3>2, <3>3
  <2>8. sent.body[1] # "#"
    <3>1. Words \subseteq Ident /\ "#" \notin Ident BY Classes
    <3> QED BY <2>2, <3>1, BodyShape DEF BodyIs
  <2> HIDE DEF n, kept, rest, text
  <2>9. StripSenderPrefix(line) = text
    <3>1. "#" \notin Blank BY Classes
    <3> QED BY <2>1, <2>4, <3>1, StripIs
  <2>10. n \in Seq(Lexemes) \ {<<>>}
    <3>1. Lexemes \ Separators \subseteq Lexemes OBVIOUS
    <3> QED BY <2>6, <3>1, SeqMonotone
  <2> DEFINE tokens == <<n>> \o rest
  <2>11. tokens # <<>> /\ tokens[1] = n /\ Tail(tokens) = rest
    <3>1. Len(tokens) = Len(rest) + 1 /\ tokens[1] = n /\ Tail(tokens) = rest /\ Len(rest) \in Nat
      BY <2>7, <2>10, ConcatOne, SMTT(30)
    <3> HIDE DEF tokens
    <3> QED BY <3>1
  <2> HIDE DEF tokens
  <2>12. SplitTokens(text) = tokens BY <2>5 DEF tokens
  <2>13. CarriesId(tokens) BY <2>6, <2>11 DEF CarriesId
  <2>14. ~CarriesId(rest)
    <3>1. <<sent.body[1]>>[1] # "#" BY <2>8
    <3>2. rest = <<>> \/ rest[1] = <<sent.body[1]>> BY <2>7
    <3> QED BY <3>1, <3>2 DEF CarriesId
  <2>15. ~IsEvent(text)
    <3>1. Lower(n)[1] = "#" BY <2>6 DEF Lower, Fold, Groups
    <3>2. <<"event">>[1] # "#" OBVIOUS
    <3>3. Lower(n) # <<"event">> BY <3>1, <3>2
    <3> QED BY <2>11, <2>12, <3>3 DEF IsEvent
  <2>16. ~LooksLikeRequest(text)
    <3>1. PythonParse(text) = Failed("Malformed") BY <2>4, NumberedIsMalformed DEF PythonParse
    <3> QED BY <3>1 DEF LooksLikeRequest, Failed
  <2>17. IdOf(text) = Value(sent.id) BY <2>6, <2>11, <2>12, <2>13 DEF IdOf
  <2>18. Classify(line) = [kind |-> "response", id |-> Value(sent.id)]
    BY <2>9, <2>15, <2>16, <2>17 DEF Classify
  <2>19. Unnumbered(SplitTokens(text)) = rest /\ Unnumbered(rest) = rest
    BY <2>11, <2>12, <2>13, <2>14 DEF Unnumbered
  <2>20. ResponseKind(text) = IF Fits(ReplyHead(sent.id), sent.body) THEN ResponseKind(sent.body)
                              ELSE "unknown"
    <3>1. CASE Fits(ReplyHead(sent.id), sent.body)
      <4>1. kept = sent.body BY <3>1 DEF kept, Kept
      <4>2. Unnumbered(SplitTokens(text)) = Unnumbered(SplitTokens(sent.body))
        BY <2>19, <4>1 DEF rest
      <4> QED BY <3>1, <4>2 DEF ResponseKind
    <3>2. CASE ~Fits(ReplyHead(sent.id), sent.body)
      <4>1. Unnumbered(SplitTokens(text)) = <<>> BY <2>7, <2>19, <3>2
      <4> QED BY <3>2, <4>1 DEF ResponseKind
    <3> QED BY <3>1, <3>2
  <2> QED BY <2>9, <2>18, <2>20
<1> QED BY <1>1, LineInvariant, PTL

-----------------------------------------------------------------------------
(* Requests that arrive: where a target ends. *)

\* A token behind blanks, which something else follows.
TokenAt(s, class, p, q, w) ==
  /\ s \in Seq(Lexemes) /\ w \in Seq(Lexemes) /\ w # <<>>
  /\ p \in Nat \ {0} /\ q \in Nat \ {0} /\ p <= q /\ q - 1 + Len(w) <= Len(s)
  /\ \A i \in 1 .. Len(w) : s[q - 1 + i] = w[i] /\ w[i] \in class \ Blank
  /\ \A i \in p .. q - 1 : s[i] \in Blank
  /\ q + Len(w) <= Len(s) => s[q + Len(w)] \notin class

LEMMA TokenIs ==
  ASSUME NEW s, NEW class, NEW p, NEW q, NEW w, TokenAt(s, class, p, q, w)
  PROVE  Token(s, p, class) = [text |-> w, next |-> q + Len(w)]
<1> DEFINE n == Len(w)
           e == q + n
<1> USE DEF TokenAt
<1>1. n \in Nat \ {0} /\ Len(s) \in Nat /\ e \in Nat /\ e - 1 = q - 1 + n OBVIOUS
<1>2. p \in 1 .. Len(s) + 1 /\ q \in 1 .. Len(s) + 1 /\ q <= Len(s) /\ e <= Len(s) + 1
  BY <1>1
<1>3. s[q] \in class \ Blank
  <2>1. 1 \in 1 .. n /\ q - 1 + 1 = q BY <1>1
  <2> QED BY <2>1
<1>4. Run(s, p, Blank) = q
  <2>1. RunEnds(s, p, Blank, q) BY <1>2, <1>3 DEF RunEnds
  <2> QED BY <1>2, <2>1, RunUnique
<1>5. Run(s, q, class) = e
  <2>1. ASSUME NEW j \in q .. e - 1 PROVE s[j] \in class
    <3>1. j - q + 1 \in 1 .. n /\ q - 1 + (j - q + 1) = j BY <1>1
    <3> QED BY <3>1
  <2>2. RunEnds(s, q, class, e) BY <1>1, <1>2, <2>1 DEF RunEnds
  <2> QED BY <1>2, <2>2, RunUnique
<1>6. SubSeq(s, q, e - 1) = w
  <2>1. q - 1 \in Nat /\ q - 1 + 1 = q /\ e - 1 = q - 1 + n BY <1>1
  <2>2. SubSeq(s, (q - 1) + 1, (q - 1) + Len(w)) = w BY <2>1, PieceIs
  <2> QED BY <2>1, <2>2
<1> QED BY <1>4, <1>5, <1>6 DEF Token

\* What ends a target or an id.
Ends == {"#", " "}

LEMMA EndsAre == ASSUME NEW d \in {Native, Python}
                 PROVE  /\ Ends \cap d.ident = {} /\ Ends \cap HexDigit = {}
                        /\ Ident \subseteq d.ident \ Blank /\ "group" \in d.groups
                        /\ ":" \notin Ident \cup Ends /\ "@" \notin Ident \cup d.groups
                        /\ Ends \subseteq Lexemes
BY Classes, NativeFields, PythonFields DEF Ends, Groups

\* The three kinds of targets, as a node takes them.
LEMMA DestinationIs ==
  ASSUME NEW s \in Seq(Lexemes), NEW t \in Targets, NEW d \in {Native, Python},
         Len(t) < Len(s), \A i \in 1 .. Len(t) : s[i] = t[i], s[Len(t) + 1] \in Ends,
         Cut(d, Addressed(t).target) = Addressed(t).target
  PROVE  Destination(d, s, 1) = [kind |-> Addressed(t).kind, target |-> Addressed(t).target,
                                 next |-> Len(t) + 1]
<1> DEFINE n == Len(t)
           to == Addressed(t)
<1>1. /\ Ends \cap d.ident = {} /\ Ends \cap HexDigit = {}
      /\ Ident \subseteq d.ident \ Blank /\ "group" \in d.groups
      /\ ":" \notin Ident \cup Ends /\ "@" \notin Ident \cup d.groups
  BY EndsAre
<1>2. t \in Seq(Lexemes) /\ t # <<>> BY TargetShape
<1>3. n \in Nat \ {0} /\ Len(s) \in Nat /\ n + 1 <= Len(s) /\ 1 \in 1 .. n BY <1>2
<1>4. s[1] = t[1] BY <1>3
<1>5. CASE t \in Seq(Ident) /\ t # <<>>
  <2>1. \A i \in 1 .. n : t[i] \in Ident BY <1>5
  <2>2. s[1] # "@" /\ t[1] # "@" BY <1>1, <1>3, <1>4, <2>1
  <2>3. s[1 + 1] # ":"
    <3> HIDE DEF n
    <3>1. n = 1 \/ 1 + 1 \in 1 .. n BY <1>3
    <3>2. CASE n = 1
      <4>1. s[1 + 1] \in Ends BY <3>2 DEF n
      <4> QED BY <1>1, <4>1
    <3>3. CASE 1 + 1 \in 1 .. n
      <4>1. s[1 + 1] \in Ident BY <2>1, <3>3 DEF n
      <4> QED BY <1>1, <4>1
    <3> QED BY <3>1, <3>2, <3>3
  <2>4. ~(Len(t) > 1 /\ t[2] = ":")
    <3>1. Len(t) > 1 => 2 \in 1 .. n BY <1>3
    <3> QED BY <1>1, <2>1, <3>1
  <2>5. to.kind = AddressOf(t) /\ to.target = t BY <2>2, <2>4 DEF Addressed
  <2>6. Token(s, 1, d.ident) = [text |-> t, next |-> 1 + n]
    <3>1. \A i \in 1 .. n : s[1 - 1 + i] = t[i] /\ t[i] \in d.ident \ Blank
      BY <1>1, <1>3, <2>1
    <3>2. 1 - 1 + Len(t) <= Len(s) /\ (1 + Len(t) <= Len(s) => s[1 + Len(t)] \notin d.ident)
      BY <1>1, <1>3
    <3>3. \A i \in 1 .. 1 - 1 : s[i] \in Blank OBVIOUS
    <3> HIDE DEF n
    <3> QED
      <4>1. TokenAt(s, d.ident, 1, 1, t) BY <1>2, <3>1, <3>2, <3>3 DEF TokenAt, n
      <4> QED BY <4>1, TokenIs DEF n
  <2>7. Destination(d, s, 1) = [kind |-> AddressOf(Cut(d, t)), target |-> Cut(d, t), next |-> 1 + n]
    BY <2>2, <2>3, <2>6 DEF Destination
  <2>8. 1 + n = n + 1 BY <1>3
  <2> QED BY <2>5, <2>7, <2>8
<1>6. CASE Len(t) > 1 /\ t[1] = "@" /\ Tail(t) \in Seq(HexDigit)
  <2> DEFINE u == Tail(t)
  <2>1. u \in Seq(HexDigit) /\ Len(u) = n - 1 /\ \A i \in 1 .. Len(u) : u[i] = t[i + 1]
    BY <1>2, <1>3, <1>6
  <2>2. u \in Seq(Lexemes) BY <1>2, <1>3
  <2> HIDE DEF u
  <2>3. to.kind = "Id" /\ to.target = u BY <1>6 DEF Addressed, u
  <2>4. \A i \in 1 .. Len(u) : s[1 + i] = u[i] BY <1>3, <2>1
  <2>5. SubSeq(s, 1 + 1, 1 + Len(u)) = u
    <3>1. 1 + Len(u) <= Len(s) BY <1>3, <2>1
    <3> QED BY <2>2, <2>4, <3>1, PieceIs
  <2>6. 1 + 1 = 2 /\ 1 + Len(u) = (n + 1) - 1 BY <1>3, <2>1
  <2>7. SubSeq(s, 1 + 1, (n + 1) - 1) = u BY <2>5, <2>6
  <2>8. Run(s, 1 + 1, HexDigit) = n + 1
    <3>1. ASSUME NEW k \in 1 + 1 .. (n + 1) - 1 PROVE s[k] \in HexDigit
      <4>1. k - 1 \in 1 .. Len(u) /\ 1 + (k - 1) = k BY <1>3, <2>1
      <4>2. s[k] = u[k - 1] BY <2>4, <4>1
      <4> QED BY <2>1, <4>1, <4>2
    <3>2. 1 + 1 \in 1 .. Len(s) + 1 /\ n + 1 \in 1 + 1 .. Len(s) + 1 BY <1>3, <1>6
    <3>3. RunEnds(s, 1 + 1, HexDigit, n + 1) BY <1>1, <3>1, <3>2 DEF RunEnds
    <3> QED BY <3>2, <3>3, RunUnique
  <2>9. Destination(d, s, 1) = [kind |-> "Id", target |-> Cut(d, u), next |-> n + 1]
    BY <1>4, <1>6, <2>7, <2>8 DEF Destination
  <2> QED BY <2>3, <2>9
<1>7. CASE /\ Len(t) > 2 /\ t[1] = "group" /\ t[2] = ":"
           /\ SubSeq(t, 3, Len(t)) \in Seq(Ident)
  <2> DEFINE u == SubSeq(t, 3, Len(t))
  <2>1. /\ u \in Seq(Ident) /\ Len(u) = n - 2 /\ \A i \in 1 .. Len(u) : u[i] = t[i + 2]
        /\ u \in Seq(Lexemes)
    BY <1>2, <1>3, <1>7
  <2> HIDE DEF u
  <2>2. to.kind = "Group" /\ to.target = u BY <1>7 DEF Addressed, u
  <2>3. s[1] # "@" /\ s[1] \in d.groups /\ s[1 + 1] = ":"
    <3>1. 1 + 1 \in 1 .. n /\ 1 + 1 = 2 BY <1>3, <1>7
    <3> QED BY <1>1, <1>4, <1>7, <3>1
  <2>4. Token(s, 3, d.ident) = [text |-> u, next |-> 3 + Len(u)]
    <3> DEFINE q == 3
    <3>1. q \in Nat \ {0} /\ q <= q /\ q = 3 OBVIOUS
    <3> HIDE DEF q
    <3>2. u # <<>> /\ u \in Seq(Lexemes)
      <4>1. Len(u) # 0 BY <1>3, <1>7, <2>1
      <4> QED BY <2>1, <4>1
    <3>3. \A i \in 1 .. Len(u) : s[q - 1 + i] = u[i] /\ u[i] \in d.ident \ Blank
      <4>1. \A i \in 1 .. Len(u) : q - 1 + i = i + 2 /\ i + 2 \in 1 .. n BY <1>3, <2>1, <3>1
      <4>2. \A i \in 1 .. Len(u) : u[i] \in Ident BY <2>1
      <4> QED BY <1>1, <2>1, <4>1, <4>2
    <3>4. q - 1 + Len(u) <= Len(s) /\ (q + Len(u) <= Len(s) => s[q + Len(u)] \notin d.ident)
      BY <1>1, <1>3, <2>1, <3>1
    <3>5. \A i \in q .. q - 1 : s[i] \in Blank BY <3>1
    <3>6. Token(s, q, d.ident) = [text |-> u, next |-> q + Len(u)]
      <4>1. TokenAt(s, d.ident, q, q, u) BY <3>1, <3>2, <3>3, <3>4, <3>5 DEF TokenAt
      <4> QED BY <4>1, TokenIs
    <3> QED BY <3>1, <3>6
  <2>5. 3 + Len(u) = n + 1 /\ 1 + 2 = 3 /\ 1 < Len(s) BY <1>3, <1>7, <2>1
  <2>6. Destination(d, s, 1) = [kind |-> "Group", target |-> Cut(d, u), next |-> n + 1]
    BY <2>3, <2>4, <2>5 DEF Destination
  <2> QED BY <2>2, <2>6
<1> QED BY <1>5, <1>6, <1>7, RequestAssumption

-----------------------------------------------------------------------------
(* The id behind it. *)

\* The id behind a target, and where the search for the command goes on.
IdAt(d, s, p, id) ==
  LET w == WithId(id)
  IN /\ s \in Seq(Lexemes) /\ p \in Nat \ {0} /\ id \in Seq(Digits)
     /\ p + Len(w) < Len(s)
     /\ \A i \in 1 .. Len(w) : s[p - 1 + i] = w[i]
     /\ s[p + Len(w)] \in Blank /\ s[p + Len(w) + 1] \in Ident
     /\ d = Native => Len(id) <= IdDigits

IdTaken(d, s, p, id) ==
  LET r == IdAfter(d, s, p)
      e == p + Len(WithId(id))
  IN /\ ~r.malformed
     /\ r.id = IF id = <<>> THEN NoId ELSE Narrowed(d, id)
     /\ r.next \in Nat \ {0} /\ r.next <= e + 1 /\ \A i \in r.next .. e : s[i] \in Blank

LEMMA IdAfterIs ==
  ASSUME NEW d \in {Native, Python}, NEW s, NEW p, NEW id, IdAt(d, s, p, id)
  PROVE  IdTaken(d, s, p, id)
<1> DEFINE w == WithId(id)
           e == p + Len(w)
           q == Run(s, p, Blank)
           found == q <= Len(s) /\ s[q] = "#"
           last == IF found THEN q + 1 + AtMost(Run(s, q + 1, Digits) - (q + 1), d.digits) ELSE q
           r == IdAfter(d, s, p)
<1>1. /\ s \in Seq(Lexemes) /\ p \in Nat \ {0} /\ id \in Seq(Digits) /\ e < Len(s)
      /\ \A i \in 1 .. Len(w) : s[p - 1 + i] = w[i]
      /\ s[e] \in Blank /\ s[e + 1] \in Ident
      /\ (d = Native => Len(id) <= IdDigits) /\ Len(s) \in Nat /\ Len(id) \in Nat
  BY DEF IdAt
<1>2. "#" \notin Blank \cup Ident /\ Digits \cap Blank = {} /\ Ident \cap Blank = {}
  <2>1. Digits \subseteq Ident BY Classes
  <2> QED BY <2>1, Classes
<1>3. /\ r.malformed <=> (found /\ last = q + 1)
      /\ r.next = last
      /\ r.id = IF found THEN Narrowed(d, SubSeq(s, q + 1, last - 1)) ELSE NoId
  BY DEF IdAfter
<1>4. CASE id = <<>>
  <2>1. Len(w) = 0 /\ e = p
    <3>1. w = <<>> BY <1>4 DEF WithId
    <3>2. Len(w) = 0 BY <3>1
    <3> QED BY <1>1, <3>2
  <2> HIDE DEF w, e
  <2>2. q = p + 1
    <3>1. p \in 1 .. Len(s) + 1 /\ p + 1 \in p .. Len(s) + 1 BY <1>1, <2>1
    <3>2. \A k \in p .. (p + 1) - 1 : k = p BY <1>1
    <3>3. RunEnds(s, p, Blank, p + 1) BY <1>1, <1>2, <2>1, <3>1, <3>2 DEF RunEnds
    <3> QED BY <1>1, <3>1, <3>3, RunUnique
  <2>3. ~found BY <1>1, <1>2, <2>1, <2>2
  <2> HIDE DEF q, found
  <2>4. last = p + 1 BY <2>2, <2>3
  <2> HIDE DEF last
  <2>5. ~r.malformed /\ r.id = NoId /\ r.next = p + 1 BY <1>3, <2>3, <2>4
  <2>6. \A i \in p + 1 .. p : s[i] \in Blank BY <1>1
  <2> HIDE DEF r
  <2> QED BY <1>1, <1>4, <2>1, <2>5, <2>6 DEF IdTaken, e, w, r
<1>5. CASE id # <<>>
  <2> DEFINE n == Len(id)
             a == p + 1
  <2>1. Len(w) = n + 1 /\ w[1] = "#" /\ Tail(w) = id /\ w \in Seq(Lexemes)
    <3>1. w = <<"#">> \o id /\ id \in Seq(Lexemes) /\ "#" \in Lexemes
      BY <1>1, <1>5, WithIdType, TextTypes, Classes
    <3> HIDE DEF w
    <3> QED BY <3>1, ConcatOne
  <2>2. \A i \in 1 .. n : w[i + 1] = id[i]
    <3> HIDE DEF w
    <3>1. \A i \in 1 .. Len(Tail(w)) : Tail(w)[i] = w[i + 1] BY <2>1
    <3> QED BY <2>1, <3>1
  <2> HIDE DEF w
  <2>3. n \in Nat \ {0} /\ e = p + n + 1 /\ a \in Nat \ {0} /\ e = a + n
    <3>1. n \in Nat \ {0} BY <1>1, <1>5
    <3> QED BY <1>1, <2>1, <3>1
  <2>4. s[p] = "#"
    <3>1. 1 \in 1 .. Len(w) /\ p - 1 + 1 = p BY <1>1, <2>1, <2>3
    <3> QED BY <1>1, <2>1, <3>1
  <2>5. \A i \in 1 .. n : s[p + i] = id[i]
    <3>1. \A i \in 1 .. n : i + 1 \in 1 .. Len(w) /\ p - 1 + (i + 1) = p + i BY <1>1, <2>1, <2>3
    <3> QED BY <1>1, <2>2, <3>1
  <2> HIDE DEF e, n
  <2>6. q = p
    <3>1. p \in 1 .. Len(s) + 1 BY <1>1, <2>3
    <3> QED BY <1>1, <1>2, <2>4, <3>1, RunNone
  <2>7. found BY <1>1, <2>3, <2>4, <2>6
  <2> HIDE DEF q, found
  <2>8. Run(s, a, Digits) = e
    <3>1. ASSUME NEW k \in a .. e - 1 PROVE s[k] \in Digits
      <4>1. k - p \in 1 .. n /\ p + (k - p) = k BY <1>1, <2>3
      <4>2. id[k - p] \in Digits BY <1>1, <4>1 DEF n
      <4> QED BY <2>5, <4>1, <4>2
    <3>2. a \in 1 .. Len(s) + 1 /\ e \in a .. Len(s) + 1 BY <1>1, <2>3
    <3>3. RunEnds(s, a, Digits, e) BY <1>1, <1>2, <3>1, <3>2 DEF RunEnds
    <3> HIDE DEF a
    <3> QED BY <1>1, <3>2, <3>3, RunUnique
  <2>9. AtMost(n, d.digits) = n
    <3>1. IdDigits \in Nat /\ n \in Nat BY <2>3, WireAssumption
    <3>2. CASE d = Native
      <4>1. n <= IdDigits /\ d.digits = IdDigits BY <1>1, <3>2, NativeFields DEF n
      <4> QED BY <3>1, <4>1, AtMostIs
    <3>3. CASE d = Python
      <4>1. d.digits = NoLimit BY <3>3, PythonFields
      <4> QED BY <3>1, <4>1, AtMostIs
    <3> QED BY <3>2, <3>3
  <2>10. last = e
    <3>1. last = a + AtMost(e - a, d.digits) BY <2>6, <2>7, <2>8
    <3>2. e - a = n BY <2>3, <1>1
    <3> HIDE DEF last, a
    <3> QED BY <2>3, <2>9, <3>1, <3>2
  <2> HIDE DEF last
  <2>11. SubSeq(s, q + 1, last - 1) = id
    <3>1. p + Len(id) <= Len(s) /\ last - 1 = p + Len(id) BY <1>1, <2>3, <2>10 DEF n
    <3>2. id \in Seq(Lexemes) BY <1>1, TextTypes
    <3>3. SubSeq(s, p + 1, p + Len(id)) = id
      <4>1. \A i \in 1 .. Len(id) : s[p + i] = id[i] BY <2>5 DEF n
      <4> QED BY <1>1, <3>1, <3>2, <4>1, PieceIs
    <3> QED BY <2>6, <3>1, <3>3
  <2>12. last # q + 1 BY <1>1, <2>3, <2>6, <2>10
  <2>13. ~r.malformed /\ r.id = Narrowed(d, id) /\ r.next = e
    BY <1>3, <2>7, <2>10, <2>11, <2>12
  <2>14. \A i \in e .. e : s[i] \in Blank
    <3>1. \A i \in e .. e : i = e BY <1>1, <2>3
    <3> QED BY <1>1, <1>2, <3>1
  <2>15. e \in Nat \ {0} /\ e <= e + 1 BY <1>1, <2>3
  <2> HIDE DEF r
  <2> QED BY <1>5, <2>13, <2>14, <2>15 DEF IdTaken, e, w, r
<1> QED BY <1>4, <1>5

-----------------------------------------------------------------------------
(* A request as a whole. *)

\* What the parser names a target.
LEMMA AddressedIs ==
  ASSUME NEW t \in Targets
  PROVE  /\ Addressed(t).target \in Seq(Lexemes) /\ Addressed(t).target # <<>>
         /\ Len(t) <= Len(Addressed(t).target) + 2
<1> DEFINE n == Len(t)
           to == Addressed(t)
<1>1. t \in Seq(Lexemes) /\ t # <<>> /\ n \in Nat \ {0}
  <2>1. t \in Seq(Lexemes) /\ t # <<>> BY TargetShape
  <2> QED BY <2>1
<1>2. CASE t \in Seq(Ident) /\ t # <<>>
  <2>1. \A i \in 1 .. n : t[i] \in Ident BY <1>2
  <2>2. 1 \in 1 .. n /\ (n > 1 => 2 \in 1 .. n) BY <1>1
  <2>3. t[1] # "@" /\ ~(n > 1 /\ t[2] = ":") BY <2>1, <2>2, Classes
  <2>4. to.target = t BY <2>3 DEF Addressed
  <2> QED BY <1>1, <2>4
<1>3. CASE Len(t) > 1 /\ t[1] = "@" /\ Tail(t) \in Seq(HexDigit)
  <2> DEFINE u == Tail(t)
  <2>1. u \in Seq(Lexemes) /\ Len(u) = n - 1 BY <1>1, <1>3
  <2>2. to.target = u BY <1>3 DEF Addressed
  <2> HIDE DEF u, to
  <2>3. u # <<>>
    <3>1. Len(u) # 0 BY <1>1, <1>3, <2>1
    <3> QED BY <3>1
  <2> QED BY <1>1, <2>1, <2>2, <2>3 DEF to
<1>4. CASE /\ Len(t) > 2 /\ t[1] = "group" /\ t[2] = ":"
           /\ SubSeq(t, 3, Len(t)) \in Seq(Ident)
  <2> DEFINE u == SubSeq(t, 3, n)
  <2>1. u \in Seq(Lexemes) /\ Len(u) = n - 2 BY <1>1, <1>4
  <2>2. to.target = u BY <1>4 DEF Addressed
  <2> HIDE DEF u, to
  <2>3. u # <<>>
    <3>1. Len(u) # 0 BY <1>1, <1>4, <2>1
    <3> QED BY <3>1
  <2> QED BY <1>1, <2>1, <2>2, <2>3 DEF to
<1> QED BY <1>2, <1>3, <1>4, RequestAssumption

\* A text of these parts: a target, an id, a blank, a command, and a rest.
Laid(s, t, id, c, r) ==
  LET k == Len(t) + Len(WithId(id))
  IN /\ s \in Seq(Lexemes) /\ Len(s) = k + 1 + Len(c) + Len(r)
     /\ \A i \in 1 .. Len(t) : s[i] = t[i]
     /\ \A i \in 1 .. Len(WithId(id)) : s[Len(t) + i] = WithId(id)[i]
     /\ s[k + 1] \in Blank
     /\ \A i \in 1 .. Len(c) : s[k + 1 + i] = c[i]
     /\ \A i \in 1 .. Len(r) : s[k + 1 + Len(c) + i] = r[i]

\* A rest of the line that holds these words.
Follows(r, words) ==
  /\ r \in Seq(Lexemes \ Break)
  /\ r # <<>> => r[1] \in Blank
  /\ TokensOf(r, Blank) = words

\* What a dialect has room for.
Asked(d, t, id, c) ==
  /\ t \in Targets /\ id \in Seq(Digits) /\ c \in CommandNames
  /\ d = Native => Len(id) <= IdDigits
  /\ Cut(d, Addressed(t).target) = Addressed(t).target /\ Cut(d, c) = c

\* What it makes of such a text.
Taken(d, t, id, c, words) ==
  [result |-> "Ok", kind |-> Addressed(t).kind, target |-> Addressed(t).target,
   id |-> IF id = <<>> THEN NoId ELSE Narrowed(d, id), command |-> Canonical(c),
   args |-> [i \in 1 .. AtMost(Len(words), d.args) |-> Cut(d, words[i])]]

LEMMA FollowsAre ==
  ASSUME NEW s \in Seq(Lexemes), NEW p \in Nat \ {0}, NEW r, NEW words, Follows(r, words),
         p - 1 + Len(r) = Len(s), \A i \in 1 .. Len(r) : s[p - 1 + i] = r[i], NEW d
  PROVE  Arguments(d, s, p) = [i \in 1 .. AtMost(Len(words), d.args) |-> Cut(d, words[i])]
<1> DEFINE end == Len(s) + 1
           k == p - 1
<1>1. r \in Seq(Lexemes \ Break) /\ TokensOf(r, Blank) = words BY DEF Follows
<1>2. Len(r) \in Nat /\ Len(s) \in Nat /\ k \in Nat /\ p = k + 1 /\ end - 1 = k + Len(r)
  BY <1>1
<1>3. r \in Seq(Lexemes)
  <2>1. Lexemes \ Break \subseteq Lexemes OBVIOUS
  <2> QED BY <1>1, <2>1, SeqMonotone
<1>4. Run(s, p, Lexemes \ Break) = end
  <2>1. ASSUME NEW j \in p .. end - 1 PROVE s[j] \in Lexemes \ Break
    <3>1. j - k \in 1 .. Len(r) /\ p - 1 + (j - k) = j BY <1>2
    <3>2. r[j - k] \in Lexemes \ Break BY <1>1, <3>1
    <3>3. s[j] = r[j - k] BY <3>1
    <3> QED BY <3>2, <3>3
  <2>2. p \in 1 .. Len(s) + 1 /\ end \in p .. Len(s) + 1 /\ end > Len(s) BY <1>2
  <2>3. RunEnds(s, p, Lexemes \ Break, end) BY <2>1, <2>2 DEF RunEnds
  <2> QED BY <2>2, <2>3, RunUnique
<1>5. SubSeq(s, p, end - 1) = r
  <2>1. SubSeq(s, k + 1, k + Len(r)) = r BY <1>2, <1>3, PieceIs
  <2> QED BY <1>2, <2>1
<1> HIDE DEF end
<1> QED BY <1>1, <1>4, <1>5 DEF Arguments

\* Either dialect takes a request of these parts for what was meant.
LEMMA LaidIsTaken ==
  ASSUME NEW d \in {Native, Python}, NEW s, NEW t, NEW id, NEW c, NEW r, NEW words,
         Asked(d, t, id, c), Laid(s, t, id, c, r), Follows(r, words)
  PROVE  ParseAs(d, s) = Taken(d, t, id, c, words)
<1> DEFINE w == WithId(id)
           n == Len(t)
           e == n + 1 + Len(w)
           h == e + 1 + Len(c)
<1>1. /\ t \in Targets /\ id \in Seq(Digits) /\ c \in CommandNames
      /\ d = Native => Len(id) <= IdDigits
      /\ Cut(d, Addressed(t).target) = Addressed(t).target /\ Cut(d, c) = c
  BY DEF Asked
<1>2. /\ t \in Seq(Lexemes) /\ t # <<>> /\ \A i \in 1 .. n : t[i] \in Ident \cup {"@", ":"}
      /\ c \in Seq(Ident) /\ c # <<>> /\ Lower(c) = c /\ c \in Seq(Lexemes)
      /\ w \in Seq(Lexemes) /\ (id # <<>> => w = <<"#">> \o id)
  <2>1. t \in Seq(Lexemes) /\ t # <<>> /\ \A i \in DOMAIN t : t[i] \in Ident \cup {"@", ":"}
    BY <1>1, TargetShape
  <2>2. DOMAIN t = 1 .. n BY <2>1
  <2> QED BY <1>1, <2>1, <2>2, RequestAssumption, TextTypes, WithIdType
<1>3. r \in Seq(Lexemes) /\ (r # <<>> => r[1] \in Blank)
  <2>1. Lexemes \ Break \subseteq Lexemes OBVIOUS
  <2>2. r \in Seq(Lexemes \ Break) /\ (r # <<>> => r[1] \in Blank) BY DEF Follows
  <2> QED BY <2>1, <2>2, SeqMonotone
<1>4. /\ n \in Nat \ {0} /\ Len(w) \in Nat /\ Len(c) \in Nat \ {0} /\ Len(r) \in Nat
      /\ e \in Nat \ {0} /\ h \in Nat \ {0}
  <2>1. n \in Nat \ {0} BY <1>2
  <2>2. Len(w) \in Nat BY <1>2
  <2>3. Len(c) \in Nat \ {0} BY <1>2
  <2>4. Len(r) \in Nat BY <1>3
  <2> HIDE DEF n, w
  <2> QED BY <2>1, <2>2, <2>3, <2>4
<1>5. /\ s \in Seq(Lexemes) /\ Len(s) \in Nat /\ Len(s) = h - 1 + Len(r)
      /\ \A i \in 1 .. n : s[i] = t[i]
      /\ \A i \in 1 .. Len(w) : s[n + i] = w[i]
      /\ s[e] \in Blank
      /\ \A i \in 1 .. Len(c) : s[e + i] = c[i]
      /\ \A i \in 1 .. Len(r) : s[h - 1 + i] = r[i]
  <2> DEFINE k == n + Len(w)
  <2>1. /\ s \in Seq(Lexemes) /\ Len(s) = k + 1 + Len(c) + Len(r)
        /\ \A i \in 1 .. n : s[i] = t[i]
        /\ \A i \in 1 .. Len(w) : s[n + i] = w[i]
        /\ s[k + 1] \in Blank
        /\ \A i \in 1 .. Len(c) : s[k + 1 + i] = c[i]
        /\ \A i \in 1 .. Len(r) : s[k + 1 + Len(c) + i] = r[i]
    BY DEF Laid
  <2>2. k + 1 = e /\ k + 1 + Len(c) = h - 1 BY <1>4
  <2>3. Len(s) \in Nat BY <2>1
  <2> QED BY <2>1, <2>2, <2>3
<1>6. /\ Ends \cap d.ident = {} /\ Ident \subseteq d.ident \ Blank /\ Blank \subseteq Ends
  BY EndsAre, Classes DEF Ends
<1> HIDE DEF w, n, e, h
<1>7. ParseAs(d, s) = ParsedFrom(d, s, 1)
  <2>1. 1 \in 1 .. n /\ s # <<>>
    <3>1. 1 \in 1 .. n BY <1>4
    <3>2. Len(s) # 0 BY <1>4, <1>5 DEF h, e
    <3> QED BY <3>1, <3>2
  <2>2. s[1] \in Ident \cup {"@", ":"} BY <1>2, <1>5, <2>1
  <2>3. s[1] \notin Blank /\ s[1] \notin Break BY <2>2, Classes
  <2> QED BY <1>5, <2>1, <2>3, StartsAtOnce
<1> DEFINE dest == Destination(d, s, 1)
           rid == IdAfter(d, s, n + 1)
           cmd == Token(s, rid.next, d.ident)
<1>8. dest = [kind |-> Addressed(t).kind, target |-> Addressed(t).target, next |-> n + 1]
  <2>1. n < Len(s) BY <1>4, <1>5 DEF h, e
  <2>2. s[n + 1] \in Ends
    <3>1. CASE id = <<>>
      <4>1. w = <<>> BY <3>1 DEF w, WithId
      <4>2. Len(w) = 0 BY <4>1
      <4>3. e = n + 1 BY <1>4, <4>2 DEF e
      <4> QED BY <1>5, <1>6, <4>3
    <3>2. CASE id # <<>>
      <4>1. Len(w) > 1 /\ w[1] = "#" BY <1>1, <3>2, NumberIs DEF w
      <4>2. 1 \in 1 .. Len(w) BY <1>4, <4>1
      <4>3. s[n + 1] = "#" BY <1>5, <4>1, <4>2
      <4> QED BY <4>3 DEF Ends
    <3> QED BY <3>1, <3>2
  <2> QED BY <1>1, <1>5, <2>1, <2>2, DestinationIs DEF n
<1>9. Addressed(t).target # <<>> BY <1>1, AddressedIs
<1>10. IdTaken(d, s, n + 1, id)
  <2>1. (n + 1) + Len(w) = e /\ (n + 1) - 1 = n /\ n + 1 \in Nat \ {0} /\ e < Len(s)
    BY <1>4, <1>5 DEF e, h
  <2>2. s[e + 1] \in Ident
    <3>1. 1 \in 1 .. Len(c) BY <1>4
    <3>2. c[1] \in Ident BY <1>2, <3>1
    <3> QED BY <1>5, <3>1, <3>2
  <2>3. \A i \in 1 .. Len(w) : s[(n + 1) - 1 + i] = w[i] BY <1>5, <2>1
  <2>4. IdAt(d, s, n + 1, id)
    <3>1. /\ (n + 1) + Len(w) < Len(s) /\ s[(n + 1) + Len(w)] \in Blank
          /\ s[(n + 1) + Len(w) + 1] \in Ident
      BY <1>5, <2>1, <2>2
    <3> QED BY <1>1, <1>5, <2>1, <2>3, <3>1 DEF IdAt, w
  <2> QED BY <2>4, IdAfterIs
<1>11. /\ ~rid.malformed /\ rid.id = IF id = <<>> THEN NoId ELSE Narrowed(d, id)
       /\ rid.next \in Nat \ {0} /\ rid.next <= e + 1
       /\ \A i \in rid.next .. e : s[i] \in Blank
  <2>1. (n + 1) + Len(w) = e BY <1>4 DEF e
  <2> HIDE DEF rid
  <2> QED BY <1>10, <2>1 DEF IdTaken, rid, w
<1>12. cmd = [text |-> c, next |-> h]
  <2> DEFINE q == e + 1
  <2>1. q \in Nat \ {0} /\ q - 1 = e /\ q + Len(c) = h BY <1>4 DEF h
  <2>2. e + Len(c) <= Len(s) BY <1>4, <1>5 DEF h
  <2>3. \A i \in 1 .. Len(c) : s[q - 1 + i] = c[i] /\ c[i] \in d.ident \ Blank
    BY <1>2, <1>5, <1>6, <2>1
  <2>4. h <= Len(s) => s[h] \notin d.ident
    <3> SUFFICES ASSUME h <= Len(s) PROVE s[h] \notin d.ident
      OBVIOUS
    <3>1. 1 \in 1 .. Len(r) /\ h - 1 + 1 = h BY <1>4, <1>5
    <3>2. r # <<>> BY <3>1
    <3>3. s[h] \in Blank BY <1>3, <1>5, <3>1, <3>2
    <3> QED BY <1>6, <3>3
  <2> HIDE DEF rid, q
  <2>5. TokenAt(s, d.ident, rid.next, q, c)
    <3>1. rid.next <= q /\ \A i \in rid.next .. q - 1 : s[i] \in Blank
      BY <1>11, <2>1 DEF q
    <3> QED BY <1>2, <1>5, <1>11, <2>1, <2>2, <2>3, <2>4, <3>1 DEF TokenAt
  <2> QED BY <2>1, <2>5, TokenIs
<1>13. Arguments(d, s, h) = [i \in 1 .. AtMost(Len(words), d.args) |-> Cut(d, words[i])]
  <2>1. h - 1 + Len(r) = Len(s) /\ s \in Seq(Lexemes) /\ h \in Nat \ {0}
        /\ \A i \in 1 .. Len(r) : s[h - 1 + i] = r[i]
    BY <1>4, <1>5
  <2> QED BY <2>1, FollowsAre
<1>14. ParsedFrom(d, s, 1) =
         LET i == IdAfter(d, s, dest.next)
             m == Token(s, i.next, d.ident)
         IN IF dest.target = <<>> \/ i.malformed THEN Failed("Malformed")
            ELSE IF m.text = <<>> THEN Failed("MissingCommand")
            ELSE [result |-> "Ok", kind |-> dest.kind, target |-> dest.target, id |-> i.id,
                  command |-> Canonical(Lower(Cut(d, m.text))),
                  args |-> Arguments(d, s, m.next)]
  BY DEF ParsedFrom
<1> HIDE DEF dest
<1>15. dest.next = n + 1 /\ dest.target = Addressed(t).target /\ dest.kind = Addressed(t).kind
  BY <1>8
<1>16. IdAfter(d, s, dest.next) = rid BY <1>15
<1> HIDE DEF rid
<1>17. Token(s, rid.next, d.ident) = cmd OBVIOUS
<1>18. cmd.text = c /\ cmd.next = h BY <1>12
<1> HIDE DEF cmd
<1>19. ParsedFrom(d, s, 1) =
         [result |-> "Ok", kind |-> dest.kind, target |-> dest.target, id |-> rid.id,
          command |-> Canonical(Lower(Cut(d, c))), args |-> Arguments(d, s, h)]
  BY <1>2, <1>9, <1>11, <1>14, <1>15, <1>16, <1>17, <1>18
<1> QED BY <1>1, <1>2, <1>7, <1>11, <1>13, <1>15, <1>19 DEF Taken

-----------------------------------------------------------------------------
(* The words behind a command. *)

\* What is between two words.
LEMMA BlankIs == \E b \in Blank : b \in Lexemes /\ <<" ">> = <<b>>
<1>1. " " \in Blank /\ " " \in Lexemes BY Classes, Zenon
<1> QED BY <1>1, Zenon

\* The words that may stand in a line.
WordsOfLine == UnbrokenWords(Lexemes, Separators)

LEMMA ArgTokensAre == ArgTokens \subseteq WordsOfLine
<1> SUFFICES ASSUME NEW a \in ArgTokens PROVE a \in WordsOfLine
  OBVIOUS
<1>1. a \in Seq(Lexemes) /\ a # <<>> /\ \A i \in DOMAIN a : a[i] \notin Separators
  BY WireAssumption DEF Separators
<1> DEFINE U == Lexemes \ Separators
<1>2. DOMAIN a = 1 .. Len(a) /\ \A i \in 1 .. Len(a) : a[i] \in Lexemes BY <1>1
<1>3. \A i \in 1 .. Len(a) : a[i] \in U BY <1>1, <1>2
<1> HIDE DEF U
<1>4. a \in Seq(U) BY <1>1, <1>3
<1> QED BY <1>1, <1>4 DEF U, WordsOfLine, UnbrokenWords

LEMMA WordIs ==
  ASSUME NEW a \in WordsOfLine
  PROVE  /\ a \in Seq(Lexemes) /\ a # <<>> /\ Len(a) \in Nat \ {0}
         /\ a \in Seq(Lexemes \ Break) /\ TokensOf(a, Blank) = <<a>>
<1>1. a \in Seq(Lexemes \ Separators) /\ a # <<>> BY DEF WordsOfLine, UnbrokenWords
<1>2. /\ Lexemes \ Separators \subseteq Lexemes /\ Lexemes \ Separators \subseteq Lexemes \ Break
      /\ Lexemes \ Separators \subseteq Lexemes \ Blank
  BY DEF Separators
<1>3. a \in Seq(Lexemes) /\ a \in Seq(Lexemes \ Break) /\ a \in Seq(Lexemes \ Blank)
  BY <1>1, <1>2, SeqMonotone
<1>4. Len(a) \in Nat \ {0} BY <1>1, <1>3
<1>5. TokensOf(a, Blank) = <<a>> BY <1>1, <1>3, TokensOfWord
<1> QED BY <1>1, <1>3, <1>4, <1>5

\* Nothing follows.
LEMMA NothingFollows == Follows(<<>>, <<>>)
<1>1. <<>> \in Seq(Lexemes \ Break) OBVIOUS
<1>2. TokensOf(<<>>, Blank) = <<>>
  <2>1. <<>> \in Seq(Lexemes \ Blank) OBVIOUS
  <2> QED BY <2>1, TokensOfWord
<1> QED BY <1>1, <1>2 DEF Follows

\* A blank adds no word, and a blank and a word add that word.
GoesOn(rb, words) ==
  /\ rb \in Seq(Lexemes \ Break) /\ rb[1] \in Blank
  /\ \A t \in Seq(Lexemes \ Break) :
       /\ rb \o t \in Seq(Lexemes \ Break) /\ (rb \o t)[1] \in Blank
       /\ TokensOf(rb \o t, Blank) = words \o TokensOf(t, Blank)

LEMMA BlankFollows ==
  ASSUME NEW r, NEW words, Follows(r, words), NEW b \in Blank, b \in Lexemes
  PROVE  GoesOn(Append(r, b), words)
<1> DEFINE U == Lexemes \ Break
           rb == Append(r, b)
<1>1. r \in Seq(U) /\ (r # <<>> => r[1] \in Blank) /\ TokensOf(r, Blank) = words
  BY DEF Follows
<1>2. b \in U /\ U \subseteq Lexemes BY Classes
<1> HIDE DEF U
<1>3. rb \in Seq(U) /\ Len(rb) = Len(r) + 1 /\ Len(r) \in Nat
      /\ rb[Len(r) + 1] = b /\ \A i \in 1 .. Len(r) : rb[i] = r[i]
  BY <1>1, <1>2
<1>4. rb[1] \in Blank
  <2>1. CASE r = <<>>
    <3>1. Len(r) + 1 = 1 BY <2>1
    <3> QED BY <1>3, <3>1
  <2>2. CASE r # <<>>
    <3>1. 1 \in 1 .. Len(r) BY <1>1, <2>2
    <3> QED BY <1>1, <1>3, <2>2, <3>1
  <2> QED BY <2>1, <2>2
<1>5. ASSUME NEW t \in Seq(U)
      PROVE  /\ rb \o t \in Seq(U) /\ (rb \o t)[1] \in Blank
             /\ TokensOf(rb \o t, Blank) = words \o TokensOf(t, Blank)
  <2>1. r \in Seq(Lexemes) /\ t \in Seq(Lexemes) BY <1>1, <1>2, SeqMonotone
  <2>2. TokensOf(rb \o t, Blank) = TokensOf(r, Blank) \o TokensOf(t, Blank)
    BY <2>1, TokensBehind
  <2> HIDE DEF rb
  <2>3. rb \o t \in Seq(U) BY <1>3, ConcatType
  <2>4. (rb \o t)[1] = rb[1]
    <3>1. 1 \in 1 .. Len(rb) BY <1>3
    <3> QED BY <1>3, <3>1, ConcatFirst
  <2> QED BY <1>1, <1>4, <2>2, <2>3, <2>4
<1> QED BY <1>3, <1>4, <1>5 DEF U, rb, GoesOn

\* A text that has these words behind its head.
Carries(text, head, words) == \E r : Follows(r, words) /\ text = head \o r

LEMMA FollowsType ==
  ASSUME NEW r, NEW words, Follows(r, words)
  PROVE  r \in Seq(Lexemes) /\ words \in Seq(Seq(Lexemes) \ {<<>>})
<1>1. r \in Seq(Lexemes)
  <2>1. Lexemes \ Break \subseteq Lexemes OBVIOUS
  <2>2. r \in Seq(Lexemes \ Break) BY DEF Follows
  <2> QED BY <2>1, <2>2, SeqMonotone
<1>2. TokensOf(r, Blank) = words BY DEF Follows
<1> QED BY <1>1, <1>2, TokensOfType

LEMMA CarriesType ==
  ASSUME NEW head \in Seq(Lexemes), NEW text, NEW words, Carries(text, head, words)
  PROVE  text \in Seq(Lexemes) /\ words \in Seq(Seq(Lexemes) \ {<<>>})
<1>1. PICK r : Follows(r, words) /\ text = head \o r BY DEF Carries
<1>2. r \in Seq(Lexemes) /\ words \in Seq(Seq(Lexemes) \ {<<>>}) BY <1>1, FollowsType
<1> QED BY <1>1, <1>2, ConcatType

LEMMA CarriesNothing == ASSUME NEW head \in Seq(Lexemes) PROVE Carries(head, head, <<>>)
<1>1. head \o <<>> = head OBVIOUS
<1> QED BY <1>1, NothingFollows DEF Carries

LEMMA CarriesMore ==
  ASSUME NEW head \in Seq(Lexemes), NEW text, NEW words, Carries(text, head, words),
         NEW b \in Blank, b \in Lexemes
  PROVE  /\ Carries(text \o <<b>>, head, words)
         /\ \A a \in WordsOfLine : Carries((text \o <<b>>) \o a, head, Append(words, a))
<1>1. PICK r : Follows(r, words) /\ text = head \o r BY DEF Carries
<1>2. r \in Seq(Lexemes) /\ words \in Seq(Seq(Lexemes) \ {<<>>}) BY <1>1, FollowsType
<1> DEFINE rb == Append(r, b)
           one == <<b>>
<1>3. GoesOn(rb, words) BY <1>1, BlankFollows
<1>4. rb = r \o one /\ one \in Seq(Lexemes) BY <1>2, AppendIs, ShortSequences
<1> HIDE DEF rb, one
<1>5. text \o one = head \o rb
  <2>1. one \in Seq(Lexemes) BY <1>4
  <2>2. (head \o r) \o one = head \o (r \o one) BY <1>2, <2>1, LexemesAssoc
  <2> QED BY <1>1, <1>4, <2>2
<1>6. Follows(rb, words)
  <2>1. <<>> \in Seq(Lexemes \ Break) OBVIOUS
  <2>2. rb \o <<>> = rb
    <3>1. rb \in Seq(Lexemes \ Break) BY <1>3 DEF GoesOn
    <3> QED BY <3>1
  <2>3. TokensOf(<<>>, Blank) = <<>> BY NothingFollows DEF Follows
  <2>4. words \o <<>> = words BY <1>2
  <2>5. TokensOf(rb, Blank) = words BY <1>3, <2>1, <2>2, <2>3, <2>4 DEF GoesOn
  <2> QED BY <1>3, <2>5 DEF Follows, GoesOn
<1>7. Carries(text \o one, head, words) BY <1>5, <1>6 DEF Carries
<1>8. ASSUME NEW a \in WordsOfLine PROVE Carries((text \o one) \o a, head, Append(words, a))
  <2>1. /\ a \in Seq(Lexemes) /\ a # <<>> /\ a \in Seq(Lexemes \ Break)
        /\ TokensOf(a, Blank) = <<a>>
    BY WordIs
  <2>2. words \o <<a>> = Append(words, a)
    <3> DEFINE Texts == Seq(Lexemes) \ {<<>>}
    <3>1. words \in Seq(Texts) /\ a \in Texts BY <1>2, <2>1
    <3> HIDE DEF Texts
    <3> QED BY <3>1, AppendIs
  <2>3. TokensOf(rb \o a, Blank) = Append(words, a) BY <1>3, <2>1, <2>2 DEF GoesOn
  <2>4. Follows(rb \o a, Append(words, a)) BY <1>3, <2>1, <2>3 DEF Follows, GoesOn
  <2>5. (text \o one) \o a = head \o (rb \o a)
    <3>1. rb \in Seq(Lexemes)
      <4>1. Lexemes \ Break \subseteq Lexemes OBVIOUS
      <4>2. rb \in Seq(Lexemes \ Break) BY <1>3 DEF GoesOn
      <4> QED BY <4>1, <4>2, SeqMonotone
    <3>2. (head \o rb) \o a = head \o (rb \o a) BY <2>1, <3>1, LexemesAssoc
    <3> QED BY <1>5, <3>2
  <2> QED BY <2>4, <2>5 DEF Carries
<1> QED BY <1>7, <1>8 DEF one

LEMMA CarriesBlank ==
  ASSUME NEW head \in Seq(Lexemes), NEW text, NEW words, Carries(text, head, words)
  PROVE  Carries(text \o <<" ">>, head, words)
<1>1. PICK b \in Blank : b \in Lexemes /\ <<" ">> = <<b>> BY BlankIs, Zenon
<1>2. Carries(text \o <<b>>, head, words) BY <1>1, CarriesMore
<1> QED BY <1>1, <1>2, Zenon

LEMMA CarriesWord ==
  ASSUME NEW head \in Seq(Lexemes), NEW text, NEW words, Carries(text, head, words),
         NEW a \in WordsOfLine
  PROVE  Carries((text \o <<" ">>) \o a, head, Append(words, a))
<1>1. PICK b \in Blank : b \in Lexemes /\ <<" ">> = <<b>> BY BlankIs, Zenon
<1>2. Carries((text \o <<b>>) \o a, head, Append(words, a)) BY <1>1, CarriesMore
<1> QED BY <1>1, <1>2, Zenon

-----------------------------------------------------------------------------
(* Words that do not fit. *)

LEMMA OneLexeme == \A b \in Lexemes : <<b>> \in Seq(Lexemes) /\ Len(<<b>>) = 1
OBVIOUS

LEMMA BlankLen == <<" ">> \in Seq(Lexemes) /\ Len(<<" ">>) = 1
BY BlankIs, OneLexeme, Zenon

\* What a buffer takes of a blank and a word: both, the blank, or neither.
LEMMA TriedWord ==
  ASSUME NEW buf \in Seq(Lexemes), NEW a \in Seq(Lexemes), a # <<>>
  PROVE  LET more == Appended(buf, <<" ">>)
         IN \/ Fits(more, a) /\ Appended(more, a) = (buf \o <<" ">>) \o a
            \/ ~Fits(more, a) /\ Appended(more, a) \in {buf, buf \o <<" ">>}
<1> DEFINE one == <<" ">>
           more == Appended(buf, one)
<1>1. one \in Seq(Lexemes) /\ Len(one) = 1 BY BlankLen
<1> HIDE DEF one
<1>2. Len(buf) \in Nat /\ Len(a) \in Nat \ {0} /\ MAX_REPLY \in Nat BY WireAssumption
<1>3. CASE Fits(buf, one)
  <2>1. more = buf \o one BY <1>3 DEF Appended
  <2> QED BY <2>1 DEF Appended, one
<1>4. CASE ~Fits(buf, one)
  <2>1. more = buf BY <1>4 DEF Appended
  <2>2. ~Fits(buf, a) BY <1>1, <1>2, <1>4 DEF Fits
  <2> QED BY <2>1, <2>2 DEF Appended, one
<1> QED BY <1>3, <1>4

\* Some of the words, in their order.
LEMMA LeavesOutNothing == LeavesOut(<<>>, <<>>)
<1>1. DOMAIN << >> = {} OBVIOUS
<1>2. \A i, j \in {} : FALSE OBVIOUS
<1> DEFINE place == [i \in {} |-> 1]
<1>3. place \in [{} -> {}] OBVIOUS
<1> HIDE DEF place
<1> QED BY <1>1, <1>3 DEF LeavesOut

LEMMA LeavesOutMore ==
  ASSUME NEW T, NEW some \in Seq(T), NEW all \in Seq(T), LeavesOut(some, all), NEW a \in T
  PROVE  LeavesOut(some, Append(all, a)) /\ LeavesOut(Append(some, a), Append(all, a))
<1> DEFINE n == Len(some)
           m == Len(all)
           more == Append(all, a)
           most == Append(some, a)
<1>1. n \in Nat /\ m \in Nat /\ DOMAIN some = 1 .. n /\ DOMAIN all = 1 .. m OBVIOUS
<1>2. /\ DOMAIN more = 1 .. m + 1 /\ more[m + 1] = a /\ \A i \in 1 .. m : more[i] = all[i]
      /\ DOMAIN most = 1 .. n + 1 /\ most[n + 1] = a /\ \A i \in 1 .. n : most[i] = some[i]
  OBVIOUS
<1> HIDE DEF n, m, more, most
<1>3. PICK place \in [1 .. n -> 1 .. m] :
        /\ \A i, j \in 1 .. n : i < j => place[i] < place[j]
        /\ \A i \in 1 .. n : some[i] = all[place[i]]
  BY <1>1 DEF LeavesOut
<1>4. LeavesOut(some, more)
  <2>1. place \in [1 .. n -> 1 .. m + 1]
    <3>1. 1 .. m \subseteq 1 .. m + 1 BY <1>1
    <3> QED BY <3>1
  <2>2. \A i \in 1 .. n : some[i] = more[place[i]] BY <1>2, <1>3
  <2>3. /\ place \in [DOMAIN some -> DOMAIN more]
        /\ \A i, j \in DOMAIN some : i < j => place[i] < place[j]
        /\ \A i \in DOMAIN some : some[i] = more[place[i]]
    BY <1>1, <1>2, <1>3, <2>1, <2>2
  <2> QED BY <2>3, Zenon DEF LeavesOut
<1>5. LeavesOut(most, more)
  <2> DEFINE new == [i \in 1 .. n + 1 |-> IF i = n + 1 THEN m + 1 ELSE place[i]]
  <2>1. new \in [1 .. n + 1 -> 1 .. m + 1] BY <1>1, <1>3
  <2>2. new[n + 1] = m + 1 /\ \A i \in 1 .. n : new[i] = place[i] /\ place[i] \in 1 .. m
    BY <1>1, <1>3
  <2> HIDE DEF new
  <2>3. \A i, j \in 1 .. n + 1 : i < j => new[i] < new[j]
    <3> SUFFICES ASSUME NEW i \in 1 .. n + 1, NEW j \in 1 .. n + 1, i < j PROVE new[i] < new[j]
      OBVIOUS
    <3>1. i \in 1 .. n /\ (j \in 1 .. n \/ j = n + 1) BY <1>1
    <3>2. CASE j \in 1 .. n
      <4>1. place[i] < place[j] BY <1>3, <3>1, <3>2
      <4> QED BY <2>2, <3>1, <3>2, <4>1
    <3>3. CASE j = n + 1
      <4>1. place[i] < m + 1 BY <1>1, <2>2, <3>1
      <4> QED BY <2>2, <3>1, <3>3, <4>1
    <3> QED BY <3>1, <3>2, <3>3
  <2>4. \A i \in 1 .. n + 1 : most[i] = more[new[i]]
    <3> SUFFICES ASSUME NEW i \in 1 .. n + 1 PROVE most[i] = more[new[i]]
      OBVIOUS
    <3>1. i \in 1 .. n \/ i = n + 1 BY <1>1
    <3> QED BY <1>1, <1>2, <1>3, <2>2, <3>1
  <2>5. /\ new \in [DOMAIN most -> DOMAIN more]
        /\ \A i, j \in DOMAIN most : i < j => new[i] < new[j]
        /\ \A i \in DOMAIN most : most[i] = more[new[i]]
    BY <1>2, <2>1, <2>3, <2>4
  <2> QED BY <2>5, Zenon DEF LeavesOut
<1> QED BY <1>4, <1>5 DEF more, most

\* build_request() writes every word.
LEMMA JoinedCarry ==
  ASSUME NEW head \in Seq(Lexemes)
  PROVE  \A args \in Seq(WordsOfLine) : Carries(Joining!Folded(0, head, args), head, args)
<1> DEFINE S == {args \in Seq(WordsOfLine) : Carries(Joining!Folded(0, head, args), head, args)}
<1>1. <<>> \in S
  <2>1. Joining!Folded(0, head, <<>>) = head BY Joining!FoldedEmpty
  <2>2. <<>> \in Seq(WordsOfLine) OBVIOUS
  <2> QED BY <2>1, <2>2, CarriesNothing
<1>2. ASSUME NEW args \in Seq(WordsOfLine), NEW a \in WordsOfLine, args \in S
      PROVE  Append(args, a) \in S
  <2> DEFINE text == Joining!Folded(0, head, args)
  <2>1. Carries(text, head, args) BY <1>2
  <2>2. Joining!Folded(0, head, Append(args, a)) = WordBehind(0, text, a)
    BY Joining!FoldedAppend
  <2> HIDE DEF text
  <2>3. Carries((text \o <<" ">>) \o a, head, Append(args, a)) BY <2>1, CarriesWord, Zenon
  <2>4. WordBehind(0, text, a) = (text \o <<" ">>) \o a BY DEF WordBehind
  <2>5. Carries(WordBehind(0, text, a), head, Append(args, a)) BY <2>3, <2>4, Zenon
  <2>6. Append(args, a) \in Seq(WordsOfLine) OBVIOUS
  <2> QED BY <2>2, <2>5, <2>6
<1> HIDE DEF S
<1>3. Seq(WordsOfLine) \subseteq S BY <1>1, <1>2, Joining!SequenceInduction
<1> QED BY <1>3 DEF S

\* requestWithArgs() says it is complete only when every word is there.
LEMMA ArguedCarry ==
  ASSUME NEW head \in Seq(Lexemes), NEW first, first = [ok |-> TRUE, text |-> head]
  PROVE  \A args \in Seq(WordsOfLine) :
           Arguing!Folded(0, first, args).ok
             => Carries(Arguing!Folded(0, first, args).text, head, args)
<1> DEFINE Out(args) == Arguing!Folded(0, first, args)
           S == {args \in Seq(WordsOfLine) : Out(args).ok => Carries(Out(args).text, head, args)}
<1>1. <<>> \in S
  <2>1. Out(<<>>) = first BY Arguing!FoldedEmpty
  <2>2. <<>> \in Seq(WordsOfLine) OBVIOUS
  <2> HIDE DEF Out
  <2> QED BY <2>1, <2>2, CarriesNothing
<1>2. ASSUME NEW args \in Seq(WordsOfLine), NEW a \in WordsOfLine, args \in S
      PROVE  Append(args, a) \in S
  <2> DEFINE text == Out(args).text
             more == Appended(text, <<" ">>)
  <2>1. Out(Append(args, a)) = TryArgument(0, Out(args), a) BY Arguing!FoldedAppend
  <2>2. Append(args, a) \in Seq(WordsOfLine) OBVIOUS
  <2> HIDE DEF Out
  <2>3. TryArgument(0, Out(args), a) =
          IF Out(args).ok THEN [ok |-> Fits(more, a), text |-> Appended(more, a)] ELSE Out(args)
    BY DEF TryArgument
  <2> SUFFICES ASSUME Out(Append(args, a)).ok
               PROVE  Carries(Out(Append(args, a)).text, head, Append(args, a))
    BY <2>2
  <2> HIDE DEF more
  <2>4. Out(args).ok BY <2>1, <2>3
  <2>5. Out(Append(args, a)) = [ok |-> Fits(more, a), text |-> Appended(more, a)]
    BY <2>1, <2>3, <2>4
  <2>6. Fits(more, a) /\ Out(Append(args, a)).text = Appended(more, a) BY <2>5
  <2>7. Carries(text, head, args) BY <1>2, <2>4
  <2> HIDE DEF text
  <2>8. text \in Seq(Lexemes) /\ a \in Seq(Lexemes) /\ a # <<>>
    BY <2>7, CarriesType, WordIs
  <2>9. Appended(more, a) = (text \o <<" ">>) \o a
    <3>1. LET m == Appended(text, <<" ">>)
          IN \/ Fits(m, a) /\ Appended(m, a) = (text \o <<" ">>) \o a
             \/ ~Fits(m, a) /\ Appended(m, a) \in {text, text \o <<" ">>}
      BY <2>8, TriedWord, Zenon
    <3> QED BY <2>6, <3>1, Zenon DEF more
  <2>10. Carries((text \o <<" ">>) \o a, head, Append(args, a)) BY <2>7, CarriesWord, Zenon
  <2>11. Carries(Appended(more, a), head, Append(args, a)) BY <2>9, <2>10, Zenon
  <2> QED BY <2>6, <2>11
<1> HIDE DEF S
<1>3. Seq(WordsOfLine) \subseteq S BY <1>1, <1>2, Arguing!SequenceInduction
<1> QED BY <1>3 DEF S

\* The command line tool leaves out the words that do not fit, and adds nothing.
LEMMA TriedCarry ==
  ASSUME NEW head \in Seq(Lexemes)
  PROVE  \A args \in Seq(WordsOfLine) :
           \E words : LeavesOut(words, args) /\ Carries(Trying!Folded(0, head, args), head, words)
<1> DEFINE Text(args) == Trying!Folded(0, head, args)
           S == {args \in Seq(WordsOfLine) :
                   \E words : LeavesOut(words, args) /\ Carries(Text(args), head, words)}
<1>1. <<>> \in S
  <2>1. Text(<<>>) = head BY Trying!FoldedEmpty
  <2>2. <<>> \in Seq(WordsOfLine) OBVIOUS
  <2> HIDE DEF Text
  <2> QED BY <2>1, <2>2, CarriesNothing, LeavesOutNothing
<1>2. ASSUME NEW args \in Seq(WordsOfLine), NEW a \in WordsOfLine, args \in S
      PROVE  Append(args, a) \in S
  <2> DEFINE text == Text(args)
             more == Appended(text, <<" ">>)
  <2>1. Text(Append(args, a)) = TryWord(0, text, a) BY Trying!FoldedAppend
  <2>2. Append(args, a) \in Seq(WordsOfLine) OBVIOUS
  <2> HIDE DEF Text
  <2>3. PICK words : LeavesOut(words, args) /\ Carries(text, head, words) BY <1>2
  <2>4. TryWord(0, text, a) = Appended(more, a) BY DEF TryWord
  <2> HIDE DEF text
  <2>5. text \in Seq(Lexemes) /\ a \in Seq(Lexemes) /\ a # <<>>
        /\ words \in Seq(Seq(Lexemes) \ {<<>>})
    BY <2>3, CarriesType, WordIs
  <2>6. LeavesOut(words, Append(args, a)) /\ LeavesOut(Append(words, a), Append(args, a))
    <3> DEFINE Texts == Seq(Lexemes) \ {<<>>}
    <3>1. WordsOfLine \subseteq Texts /\ words \in Seq(Texts) /\ a \in Texts BY <2>5, WordIs
    <3> HIDE DEF Texts
    <3>2. args \in Seq(Texts) BY <3>1, SeqMonotone
    <3> QED BY <2>3, <3>1, <3>2, LeavesOutMore
  <2>7. Appended(more, a) \in {text, text \o <<" ">>, (text \o <<" ">>) \o a}
    <3>1. LET m == Appended(text, <<" ">>)
          IN \/ Fits(m, a) /\ Appended(m, a) = (text \o <<" ">>) \o a
             \/ ~Fits(m, a) /\ Appended(m, a) \in {text, text \o <<" ">>}
      BY <2>5, TriedWord, Zenon
    <3> QED BY <3>1, Zenon DEF more
  <2>8. Carries((text \o <<" ">>) \o a, head, Append(words, a)) BY <2>3, CarriesWord, Zenon
  <2>9. Carries(text \o <<" ">>, head, words) BY <2>3, CarriesBlank, Zenon
  <2>10. \E some : LeavesOut(some, Append(args, a)) /\ Carries(Appended(more, a), head, some)
    BY <2>3, <2>6, <2>7, <2>8, <2>9, Zenon
  <2> QED BY <2>1, <2>2, <2>4, <2>10
<1> HIDE DEF S
<1>3. Seq(WordsOfLine) \subseteq S BY <1>1, <1>2, Trying!SequenceInduction
<1> QED BY <1>3 DEF S

-----------------------------------------------------------------------------
(* The head of a request. *)

HeadOf(target, id, command) == target \o WithId(id) \o <<" ">> \o command

LEMMA HeadType ==
  ASSUME NEW t \in Seq(Lexemes), NEW id \in Seq(Digits), NEW c \in Seq(Lexemes)
  PROVE  HeadOf(t, id, c) \in Seq(Lexemes)
<1> DEFINE blank == <<" ">>
           w == WithId(id)
<1>1. blank \in Seq(Lexemes) /\ w \in Seq(Lexemes) BY BlankLen, WithIdType
<1>2. HeadOf(t, id, c) = ((t \o w) \o blank) \o c BY DEF HeadOf
<1> HIDE DEF blank, w
<1>3. t \o w \in Seq(Lexemes) BY <1>1, ConcatType
<1>4. (t \o w) \o blank \in Seq(Lexemes) BY <1>1, <1>3, ConcatType
<1> QED BY <1>2, <1>4, ConcatType

\* Where the parts of such a text are.
PartsOf(s, t, w, b, c, r) ==
  LET k == Len(t) + Len(w)
  IN /\ s \in Seq(Lexemes) /\ Len(s) = k + 1 + Len(c) + Len(r)
     /\ \A i \in 1 .. Len(t) : s[i] = t[i]
     /\ \A i \in 1 .. Len(w) : s[Len(t) + i] = w[i]
     /\ s[k + 1] = b
     /\ \A i \in 1 .. Len(c) : s[k + 1 + i] = c[i]
     /\ \A i \in 1 .. Len(r) : s[k + 1 + Len(c) + i] = r[i]

LEMMA PartsAre ==
  ASSUME NEW t \in Seq(Lexemes), NEW w \in Seq(Lexemes), NEW b \in Lexemes,
         NEW c \in Seq(Lexemes), NEW r \in Seq(Lexemes)
  PROVE  PartsOf((((t \o w) \o <<b>>) \o c) \o r, t, w, b, c, r)
<1> DEFINE one == <<b>>
           s2 == t \o w
           s3 == s2 \o one
           s4 == s3 \o c
           s5 == s4 \o r
<1>1. one \in Seq(Lexemes) /\ Len(one) = 1 /\ one[1] = b OBVIOUS
<1> HIDE DEF one
<1>2. /\ s2 \in Seq(Lexemes) /\ Len(s2) = Len(t) + Len(w)
      /\ \A i \in 1 .. Len(t) : s2[i] = t[i]
  BY ConcatType, ConcatLen, ConcatFirst
<1>3. \A i \in 1 .. Len(w) : s2[Len(t) + i] = w[i] BY ConcatSecond
<1> HIDE DEF s2
<1>4. /\ s3 \in Seq(Lexemes) /\ Len(s3) = Len(s2) + 1
      /\ \A i \in 1 .. Len(s2) : s3[i] = s2[i]
  <2>1. s2 \in Seq(Lexemes) /\ one \in Seq(Lexemes) /\ Len(one) = 1 BY <1>1, <1>2
  <2> QED BY <2>1, ConcatType, ConcatLen, ConcatFirst
<1>5. s3[Len(s2) + 1] = b
  <2>1. s2 \in Seq(Lexemes) /\ one \in Seq(Lexemes) /\ 1 \in 1 .. Len(one) BY <1>1, <1>2
  <2>2. s3[Len(s2) + 1] = one[1] BY <2>1, ConcatSecond
  <2> QED BY <1>1, <2>2
<1> HIDE DEF s3
<1>6. /\ s4 \in Seq(Lexemes) /\ Len(s4) = Len(s3) + Len(c)
      /\ \A i \in 1 .. Len(s3) : s4[i] = s3[i]
  BY <1>4, ConcatType, ConcatLen, ConcatFirst
<1>7. \A i \in 1 .. Len(c) : s4[Len(s3) + i] = c[i] BY <1>4, ConcatSecond
<1> HIDE DEF s4
<1>8. /\ s5 \in Seq(Lexemes) /\ Len(s5) = Len(s4) + Len(r)
      /\ \A i \in 1 .. Len(s4) : s5[i] = s4[i]
  BY <1>6, ConcatType, ConcatLen, ConcatFirst
<1>9. \A i \in 1 .. Len(r) : s5[Len(s4) + i] = r[i] BY <1>6, ConcatSecond
<1> HIDE DEF s5
<1> DEFINE n == Len(t)
           k == n + Len(w)
           h == k + 1 + Len(c)
<1>10. n \in Nat /\ Len(w) \in Nat /\ Len(c) \in Nat /\ Len(r) \in Nat /\ k \in Nat /\ h \in Nat
  OBVIOUS
<1>11. Len(s2) = k /\ Len(s3) = k + 1 /\ Len(s4) = h /\ Len(s5) = h + Len(r)
  BY <1>2, <1>4, <1>6, <1>8
<1>12. /\ \A i \in 1 .. n : i \in 1 .. k
       /\ \A i \in 1 .. Len(w) : n + i \in 1 .. k
       /\ \A i \in 1 .. k + 1 : i \in 1 .. h
       /\ \A i \in 1 .. k : i \in 1 .. k + 1 /\ i \in 1 .. h
       /\ \A i \in 1 .. Len(c) : k + 1 + i \in 1 .. h
       /\ k + 1 \in 1 .. k + 1 /\ k + 1 \in 1 .. h
  BY <1>10
<1> HIDE DEF n, k, h
<1>13. \A i \in 1 .. k : s5[i] = s2[i] BY <1>4, <1>6, <1>8, <1>11, <1>12
<1>14. \A i \in 1 .. n : s5[i] = t[i] BY <1>2, <1>12, <1>13 DEF n
<1>15. \A i \in 1 .. Len(w) : s5[n + i] = w[i] BY <1>3, <1>12, <1>13 DEF n
<1>16. s5[k + 1] = b BY <1>5, <1>6, <1>8, <1>11, <1>12
<1>17. \A i \in 1 .. Len(c) : s5[k + 1 + i] = c[i] BY <1>7, <1>8, <1>11, <1>12
<1>18. \A i \in 1 .. Len(r) : s5[h + i] = r[i] BY <1>9, <1>11
<1>19. PartsOf(s5, t, w, b, c, r)
  BY <1>8, <1>11, <1>14, <1>15, <1>16, <1>17, <1>18 DEF PartsOf, n, k, h
<1> QED BY <1>19 DEF s5, s4, s3, s2, one

LEMMA HeadLaid ==
  ASSUME NEW t \in Seq(Lexemes), NEW id \in Seq(Digits), NEW c \in Seq(Lexemes),
         NEW r \in Seq(Lexemes)
  PROVE  Laid(HeadOf(t, id, c) \o r, t, id, c, r)
<1> DEFINE w == WithId(id)
           s == HeadOf(t, id, c) \o r
<1>1. w \in Seq(Lexemes) BY WithIdType
<1>2. PICK b \in Blank : b \in Lexemes /\ <<" ">> = <<b>> BY BlankIs, Zenon
<1>3. s = (((t \o w) \o <<b>>) \o c) \o r BY <1>2, Zenon DEF HeadOf
<1> HIDE DEF w, s
<1>4. PartsOf(s, t, w, b, c, r) BY <1>1, <1>2, <1>3, PartsAre, Zenon
<1>5. Laid(s, t, id, c, r) BY <1>4, Zenon DEF Laid, PartsOf, w
<1> QED BY <1>5 DEF s

\* The first token of such a text is the target with the id.
LEMMA HeadToken ==
  ASSUME NEW t \in Targets, NEW id \in Seq(Digits), NEW c \in Seq(Lexemes),
         NEW r \in Seq(Lexemes)
  PROVE  ~IsEvent(HeadOf(t, id, c) \o r)
<1> DEFINE i == WithId(id)
           w == t \o i
           s == HeadOf(t, id, c) \o r
           U == Lexemes \ Separators
<1>1. /\ i \in Seq(U) /\ i \in Seq(Lexemes) /\ (id = <<>> => i = <<>>)
      /\ (id # <<>> => Len(i) > 1)
  <2>1. CASE id = <<>>
    <3>1. i = <<>> BY <2>1 DEF WithId
    <3> HIDE DEF i, U
    <3>2. <<>> \in Seq(U) /\ <<>> \in Seq(Lexemes) OBVIOUS
    <3> QED BY <2>1, <3>1, <3>2
  <2>2. CASE id # <<>> BY <2>2, NumberIs, WithIdType
  <2> QED BY <2>1, <2>2
<1>2. t \in Seq(U) /\ t \in Seq(Lexemes) /\ t # <<>> /\ Len(t) \in Nat \ {0}
      /\ (Len(t) = 1 => Lower(t) # <<"event">>)
  <2>1. t \in Seq(Lexemes) /\ t # <<>> /\ \A k \in DOMAIN t : t[k] \in Ident \cup {"@", ":"}
    BY TargetShape
  <2>2. Ident \cup {"@", ":"} \subseteq U BY Classes DEF Separators
  <2> HIDE DEF U
  <2>3. DOMAIN t = 1 .. Len(t) /\ Len(t) \in Nat \ {0} BY <2>1
  <2>4. t \in Seq(U) BY <2>1, <2>2, <2>3
  <2>5. Len(t) = 1 => Lower(t) # <<"event">> BY RequestAssumption
  <2> QED BY <2>1, <2>3, <2>4, <2>5
<1>3. PICK b \in Blank : b \in Lexemes /\ <<" ">> = <<b>> BY BlankIs, Zenon
<1>4. s = (((t \o i) \o <<b>>) \o c) \o r BY <1>3, Zenon DEF HeadOf
<1> HIDE DEF i, s, U
<1>5. w \in Seq(U) /\ w \in Seq(Lexemes) /\ Len(w) = Len(t) + Len(i) /\ Len(i) \in Nat
  BY <1>1, <1>2
<1>6. Lower(w) # <<"event">>
  <2>1. CASE Len(w) = 1
    <3>1. Len(t) = 1 /\ id = <<>>
      <4> HIDE DEF w
      <4> QED BY <1>1, <1>2, <1>5, <2>1
    <3>2. w = t
      <4>1. i = <<>> /\ t \in Seq(Lexemes) BY <1>1, <1>2, <3>1
      <4>2. t \o <<>> = t BY <4>1
      <4> QED BY <4>1, <4>2
    <3> QED BY <1>2, <3>1, <3>2
  <2>2. CASE Len(w) # 1
    <3> HIDE DEF w
    <3>1. Len(Lower(w)) = Len(w) BY <1>5, LowerLen
    <3>2. Len(<<"event">>) = 1 OBVIOUS
    <3> QED BY <2>2, <3>1, <3>2
  <2> QED BY <2>1, <2>2
<1>7. w # <<>> /\ w \in Seq(Lexemes) \ {<<>>}
  <2>1. Len(w) # 0 BY <1>2, <1>5
  <2> QED BY <1>5, <2>1
<1> HIDE DEF w
<1>8. s = Append(w, b) \o (c \o r)
  <2> DEFINE one == <<b>>
  <2>1. one \in Seq(Lexemes) /\ w \o one = Append(w, b)
    <3>1. w \o <<b>> = Append(w, b) BY <1>3, <1>5, AppendIs
    <3> QED BY <1>3, <3>1, OneLexeme
  <2>2. s = ((w \o one) \o c) \o r BY <1>4 DEF w
  <2> HIDE DEF one
  <2> DEFINE v == w \o one
  <2>3. v \in Seq(Lexemes) BY <1>5, <2>1, ConcatType
  <2> HIDE DEF v
  <2>4. (v \o c) \o r = v \o (c \o r) BY <2>3, LexemesAssoc
  <2> QED BY <2>1, <2>2, <2>4 DEF v
<1>9. SplitTokens(s) = <<w>> \o SplitTokens(c \o r)
  <2>1. b \in Separators BY <1>3 DEF Separators
  <2>2. w \in UnbrokenWords(Lexemes, Separators) BY <1>5, <1>7 DEF UnbrokenWords, U
  <2>3. c \o r \in Seq(Lexemes) BY ConcatType
  <2>4. IsFirstToken(w, b, c \o r, Separators) BY <1>3, <2>1, <2>2, <2>3, TokensBehindWord
  <2> QED BY <1>8, <2>4 DEF IsFirstToken, SplitTokens, Separators
<1>10. SplitTokens(s) # <<>> /\ SplitTokens(s)[1] = w
  <2> DEFINE rest == SplitTokens(c \o r)
  <2>1. rest \in Seq(Seq(Lexemes) \ {<<>>})
    <3>1. c \o r \in Seq(Lexemes) BY ConcatType
    <3> QED BY <3>1, TokensOfType DEF SplitTokens
  <2> HIDE DEF rest
  <2> DEFINE tokens == <<w>> \o rest
  <2>2. Len(tokens) = Len(rest) + 1 /\ tokens[1] = w /\ Len(rest) \in Nat
    BY <1>7, <2>1, ConcatOne, SMTT(30)
  <2> HIDE DEF tokens
  <2>3. tokens # <<>> BY <2>2
  <2> QED BY <1>9, <2>2, <2>3 DEF tokens, rest
<1> QED BY <1>6, <1>10 DEF IsEvent, s

\* A buffer holds any request within the limits of the node.
LEMMA OutboundWhole ==
  ASSUME NEW t \in Seq(Lexemes), NEW id \in Seq(Digits), NEW c \in Seq(Lexemes),
         Len(t) <= MAX_TOKEN + 1, Len(id) <= IdDigits, Len(c) < MAX_TOKEN
  PROVE  OutboundRequest(t, id, c) = [ok |-> TRUE, text |-> HeadOf(t, id, c)]
<1> DEFINE w == WithId(id)
           blank == <<" ">>
           none == <<>>
           b2 == t \o w
           b3 == b2 \o blank
<1>1. /\ MAX_TOKEN \in Nat /\ IdDigits \in Nat /\ MAX_REPLY \in Nat
      /\ 2 * MAX_TOKEN + IdDigits + 2 < MAX_REPLY
  BY WireAssumption, SizeAssumption
<1>2. w \in Seq(Lexemes) /\ Len(w) \in Nat /\ Len(w) <= Len(id) + 1 /\ Len(id) \in Nat
  <2>1. w \in Seq(Lexemes) /\ (id # <<>> => w = <<"#">> \o id) BY WithIdType
  <2>2. CASE id = <<>>
    <3>1. w = <<>> BY <2>2 DEF WithId
    <3> HIDE DEF w
    <3>2. Len(w) = 0 /\ Len(id) = 0 /\ <<>> \in Seq(Lexemes) BY <2>2, <3>1
    <3> QED BY <3>1, <3>2
  <2>3. CASE id # <<>>
    <3>1. id \in Seq(Lexemes) /\ "#" \in Lexemes BY TextTypes, Classes
    <3> HIDE DEF w
    <3>2. Len(w) = Len(id) + 1 BY <2>1, <2>3, <3>1, ConcatOne
    <3>3. w \in Seq(Lexemes) /\ Len(id) \in Nat BY <2>1
    <3> QED BY <3>2, <3>3
  <2> QED BY <2>2, <2>3
<1>3. blank \in Seq(Lexemes) /\ Len(blank) = 1 BY BlankLen
<1>4. OutboundRequest(t, id, c) =
        LET head == Appended(Appended(Appended(none, t), w), blank)
        IN [ok |-> Fits(head, c), text |-> Appended(head, c)]
  BY DEF OutboundRequest
<1>5. HeadOf(t, id, c) = b3 \o c BY DEF HeadOf
<1>6. none \o t = t /\ Len(none) = 0 OBVIOUS
<1>7. Len(t) \in Nat /\ Len(c) \in Nat OBVIOUS
<1> HIDE DEF w, blank, none
<1>8. b2 \in Seq(Lexemes) /\ Len(b2) = Len(t) + Len(w) BY <1>2, ConcatType, ConcatLen
<1> HIDE DEF b2
<1>9. b3 \in Seq(Lexemes) /\ Len(b3) = Len(b2) + 1 BY <1>3, <1>8, ConcatType, ConcatLen
<1> HIDE DEF b3
<1>10. Fits(none, t) /\ Fits(t, w) /\ Fits(b2, blank) /\ Fits(b3, c)
  BY <1>1, <1>2, <1>3, <1>6, <1>7, <1>8, <1>9 DEF Fits
<1>11. /\ Appended(none, t) = t /\ Appended(t, w) = b2 /\ Appended(b2, blank) = b3
       /\ Appended(b3, c) = b3 \o c
  BY <1>6, <1>10 DEF Appended, b2, b3
<1> QED BY <1>4, <1>5, <1>10, <1>11

-----------------------------------------------------------------------------
(* Requests within the limits of the node. *)

LEMMA CarriedIs ==
  ASSUME NEW t \in Targets, NEW id \in Seq(Digits), NEW c \in CommandNames, NEW text, NEW words,
         Carries(text, HeadOf(t, id, c), words)
  PROVE  /\ text \in Seq(Lexemes) /\ text # <<>> /\ text[1] \notin Blank /\ ~IsEvent(text)
         /\ \A d \in {Native, Python} :
              Asked(d, t, id, c) => ParseAs(d, text) = Taken(d, t, id, c, words)
<1>1. t \in Seq(Lexemes) /\ t # <<>> /\ \A i \in DOMAIN t : t[i] \in Ident \cup {"@", ":"}
  BY TargetShape
<1>2. c \in Seq(Lexemes) BY TextTypes
<1>3. PICK r : Follows(r, words) /\ text = HeadOf(t, id, c) \o r BY DEF Carries
<1>4. r \in Seq(Lexemes) BY <1>3, FollowsType
<1>5. Laid(text, t, id, c, r) BY <1>1, <1>2, <1>3, <1>4, HeadLaid
<1>6. ~IsEvent(text) BY <1>2, <1>3, <1>4, HeadToken
<1>7. text \in Seq(Lexemes) /\ text # <<>> /\ text[1] \notin Blank
  <2>1. /\ text \in Seq(Lexemes) /\ Len(text) = Len(t) + Len(WithId(id)) + 1 + Len(c) + Len(r)
        /\ \A i \in 1 .. Len(t) : text[i] = t[i]
    BY <1>5 DEF Laid
  <2>2. Len(t) \in Nat \ {0} /\ 1 \in 1 .. Len(t) /\ 1 \in DOMAIN t BY <1>1
  <2>3. text[1] \in Ident \cup {"@", ":"} BY <1>1, <2>1, <2>2
  <2>4. Len(text) # 0
    <3>1. Len(WithId(id)) \in Nat /\ Len(c) \in Nat /\ Len(r) \in Nat BY <1>2, <1>4, WithIdType
    <3> QED BY <2>1, <2>2, <3>1
  <2>5. text # <<>> BY <2>4
  <2> QED BY <2>1, <2>3, <2>5, Classes
<1> QED BY <1>3, <1>5, <1>6, <1>7, LaidIsTaken

\* Both readers take a request within the limits of the node as it was meant,
\* whatever becomes of its words.
Limited(t, id, c) ==
  /\ t \in Targets /\ id \in Seq(Digits) /\ c \in CommandNames
  /\ Len(Addressed(t).target) < MAX_TOKEN /\ Len(Canonical(c)) < MAX_TOKEN
  /\ Len(id) <= IdDigits

LEMMA LimitedAsked ==
  ASSUME NEW t, NEW id, NEW c, Limited(t, id, c)
  PROVE  /\ Asked(Native, t, id, c) /\ Asked(Python, t, id, c)
         /\ OutboundRequest(t, id, c) = [ok |-> TRUE, text |-> HeadOf(t, id, c)]
         /\ HeadOf(t, id, c) \in Seq(Lexemes)
<1>1. /\ t \in Targets /\ id \in Seq(Digits) /\ c \in CommandNames
      /\ Len(Addressed(t).target) < MAX_TOKEN /\ Len(Canonical(c)) < MAX_TOKEN
      /\ Len(id) <= IdDigits
  BY DEF Limited
<1>2. /\ t \in Seq(Lexemes) /\ c \in Seq(Lexemes) /\ Lower(c) = c
      /\ Addressed(t).target \in Seq(Lexemes) /\ Len(t) <= Len(Addressed(t).target) + 2
  BY <1>1, AddressedIs, TextTypes, RequestAssumption
<1>3. Len(c) < MAX_TOKEN
  <2>1. Len(Canonical(Lower(c))) = Len(c) BY <1>2, CanonicalLen
  <2> QED BY <1>1, <1>2, <2>1
<1>4. \A d \in {Native, Python} : Cut(d, Addressed(t).target) = Addressed(t).target /\ Cut(d, c) = c
  BY <1>1, <1>2, <1>3, CutType
<1>5. Len(t) <= MAX_TOKEN + 1
  <2>1. Len(t) \in Nat /\ Len(Addressed(t).target) \in Nat /\ MAX_TOKEN \in Nat
    BY <1>2, WireAssumption
  <2> QED BY <1>1, <1>2, <2>1
<1>6. OutboundRequest(t, id, c) = [ok |-> TRUE, text |-> HeadOf(t, id, c)]
  BY <1>1, <1>2, <1>3, <1>5, OutboundWhole
<1>7. HeadOf(t, id, c) \in Seq(Lexemes) BY <1>1, <1>2, HeadType
<1> QED BY <1>1, <1>4, <1>6, <1>7 DEF Asked

LEMMA WithinLimitsIs ==
  ASSUME NEW kind, NEW target, NEW id, NEW command, NEW args,
         WithinLimits([result |-> "Ok", kind |-> kind, target |-> target, id |-> id,
                       command |-> command, args |-> args])
  PROVE  /\ Len(target) < MAX_TOKEN /\ Len(command) < MAX_TOKEN
         /\ Len(args) <= MAX_ARGS /\ \A i \in DOMAIN args : Len(args[i]) < MAX_TOKEN
         /\ id < IdLimit
BY DEF WithinLimits

\* What a node makes of the words, when it has room for them.
LEMMA WordsTaken ==
  ASSUME NEW words \in Seq(Seq(Lexemes)), Len(words) <= MAX_ARGS,
         \A i \in DOMAIN words : Len(words[i]) < MAX_TOKEN
  PROVE  [i \in 1 .. AtMost(Len(words), Native.args) |-> Cut(Native, words[i])] = words
<1>1. Len(words) \in Nat /\ MAX_ARGS \in Nat /\ DOMAIN words = 1 .. Len(words) BY WireAssumption
<1>2. AtMost(Len(words), Native.args) = Len(words) BY <1>1, AtMostIs, NativeFields
<1>3. ASSUME NEW i \in 1 .. Len(words) PROVE Cut(Native, words[i]) = words[i]
  <2>1. words[i] \in Seq(Lexemes) /\ Len(words[i]) < MAX_TOKEN BY <1>1
  <2> QED BY <2>1, CutType
<1>4. words = [i \in 1 .. Len(words) |-> words[i]] BY <1>1
<1> QED BY <1>2, <1>3, <1>4

\* Fewer words fit as well.
LEMMA LeftFit ==
  ASSUME NEW all \in Seq(Seq(Lexemes)), NEW some \in Seq(Seq(Lexemes)), LeavesOut(some, all),
         Len(all) <= MAX_ARGS, \A i \in DOMAIN all : Len(all[i]) < MAX_TOKEN
  PROVE  Len(some) <= MAX_ARGS /\ \A i \in DOMAIN some : Len(some[i]) < MAX_TOKEN
<1> DEFINE n == Len(some)
           m == Len(all)
<1>1. n \in Nat /\ m \in Nat /\ DOMAIN some = 1 .. n /\ DOMAIN all = 1 .. m OBVIOUS
<1> HIDE DEF n, m
<1>2. PICK place \in [1 .. n -> 1 .. m] :
        /\ \A i, j \in 1 .. n : i < j => place[i] < place[j]
        /\ \A i \in 1 .. n : some[i] = all[place[i]]
  BY <1>1 DEF LeavesOut
<1>3. \A i \in 1 .. n : place[i] \in 1 .. m BY <1>2
<1> DEFINE S == {k \in Nat : k \in 1 .. n => place[k] >= k}
<1>4. 0 \in S OBVIOUS
<1>5. ASSUME NEW k \in Nat, k \in S PROVE k + 1 \in S
  <2> SUFFICES ASSUME k + 1 \in 1 .. n PROVE place[k + 1] >= k + 1
    OBVIOUS
  <2>1. CASE k = 0 BY <1>3, <2>1
  <2>2. CASE k # 0
    <3>1. k \in 1 .. n /\ k < k + 1 BY <1>1, <2>2
    <3>2. place[k] < place[k + 1] /\ place[k] >= k BY <1>2, <1>5, <3>1
    <3> QED BY <1>1, <1>3, <3>1, <3>2
  <2> QED BY <2>1, <2>2
<1> HIDE DEF S
<1>6. Nat \subseteq S BY <1>4, <1>5, Cutting!SetInduction
<1>7. n <= m
  <2>1. CASE n = 0 BY <1>1, <2>1
  <2>2. CASE n # 0
    <3>1. n \in 1 .. n BY <1>1, <2>2
    <3>2. place[n] >= n BY <1>1, <1>6, <3>1 DEF S
    <3> QED BY <1>1, <1>3, <3>1, <3>2
  <2> QED BY <2>1, <2>2
<1>8. n <= MAX_ARGS BY <1>1, <1>7, WireAssumption DEF m
<1>9. \A i \in 1 .. n : Len(some[i]) < MAX_TOKEN BY <1>1, <1>2, <1>3
<1> QED BY <1>1, <1>8, <1>9 DEF n

\* The id that is on the line.
IdSent(by, id) == IF by = "cli" THEN Printed(id) ELSE id

\* A number that fits is read as it was written.
LEMMA NumberTaken ==
  ASSUME NEW by, NEW id \in Seq(Digits), id # <<>> => Value(id) < IdLimit
  PROVE  (IF IdSent(by, id) = <<>> THEN NoId ELSE Narrowed(Native, IdSent(by, id))) =
           (IF id = <<>> THEN NoId ELSE Value(id))
<1>1. /\ Printed(id) \in Seq(Digits) /\ (id = <<>> <=> Printed(id) = <<>>)
      /\ id # <<>> => Value(Printed(id)) = Value(id)
  BY PrintedIs
<1>2. IdSent(by, id) \in {id, Printed(id)} BY DEF IdSent
<1>3. CASE id = <<>> BY <1>1, <1>2, <1>3
<1>4. CASE id # <<>>
  <2>1. IdSent(by, id) \in Seq(Digits) /\ Value(IdSent(by, id)) = Value(id) /\ IdSent(by, id) # <<>>
    BY <1>1, <1>2, <1>4
  <2>2. Narrowed(Native, IdSent(by, id)) = Value(id) BY <1>4, <2>1, NarrowedIs
  <2> QED BY <1>4, <2>1, <2>2
<1> QED BY <1>3, <1>4

\* What a request is to those who hear it, when these are its words.
LEMMA RequestHeard ==
  ASSUME NEW t, NEW id, NEW c, NEW text, NEW words, Limited(t, id, c),
         Carries(text, HeadOf(t, id, c), words), NEW said,
         StripSenderPrefix(said) = text
  PROVE  /\ NativeParse(StripSenderPrefix(said)) = Taken(Native, t, id, c, words)
         /\ Canonical(c) \in RequestCommands => Classify(said).kind = "other"
<1>1. /\ t \in Targets /\ id \in Seq(Digits) /\ c \in CommandNames
      /\ Asked(Native, t, id, c) /\ Asked(Python, t, id, c)
  BY LimitedAsked DEF Limited
<1>2. /\ text \in Seq(Lexemes) /\ text # <<>> /\ text[1] \notin Blank /\ ~IsEvent(text)
      /\ ParseAs(Native, text) = Taken(Native, t, id, c, words)
      /\ ParseAs(Python, text) = Taken(Python, t, id, c, words)
  BY <1>1, CarriedIs
<1>3. PythonParse(text).result = "Ok" /\ PythonParse(text).command = Canonical(c)
  BY <1>2 DEF PythonParse, Taken
<1>4. Canonical(c) \in RequestCommands => LooksLikeRequest(text) BY <1>3 DEF LooksLikeRequest
<1>5. Canonical(c) \in RequestCommands => Classify(said).kind = "other"
  BY <1>2, <1>4 DEF Classify
<1> QED BY <1>2, <1>5 DEF NativeParse

\* What is sent carries the words: all of them, or those that the command line
\* tool had room for.
LEMMA SentCarries ==
  ASSUME NEW m \in Requests, Limited(m.target, IdSent(m.by, m.id), m.command),
         m.by = "native" => OutboundWithArgs(m.target, m.id, m.command, m.args).ok
  PROVE  \E words :
           /\ Carries(TextOf(m), HeadOf(m.target, IdSent(m.by, m.id), m.command), words)
           /\ IF m.by = "cli" THEN LeavesOut(words, m.args) ELSE words = m.args
<1> DEFINE t == m.target
           id == m.id
           c == m.command
           args == m.args
           own == IdSent(m.by, id)
           head == HeadOf(t, own, c)
<1>1. m.msg = "request" /\ m.by \in {"python", "native", "cli"} /\ args \in ArgLists
  BY DEF Requests
<1>2. args \in Seq(WordsOfLine)
  <2>1. Seq(ArgTokens) \subseteq Seq(WordsOfLine) BY ArgTokensAre, SeqMonotone
  <2> QED BY <1>1, <2>1, ArgListsType
<1>3. OutboundRequest(t, own, c) = [ok |-> TRUE, text |-> head] /\ head \in Seq(Lexemes)
  BY LimitedAsked
<1> HIDE DEF args, head, own
<1>4. CASE m.by = "python"
  <2>1. own = id BY <1>4 DEF IdSent, own
  <2>2. TextOf(m) = RequestLine(t, id, c, args) BY <1>1, <1>4 DEF TextOf, args
  <2>3. RequestLine(t, id, c, args) = Joining!Folded(0, head, args)
    BY <2>1, RequestLineIs DEF head, HeadOf
  <2>4. Carries(Joining!Folded(0, head, args), head, args) BY <1>2, <1>3, JoinedCarry
  <2>5. Carries(TextOf(m), head, args) BY <2>2, <2>3, <2>4
  <2> QED BY <1>4, <2>5 DEF head, own, args
<1>5. CASE m.by = "native"
  <2>1. own = id BY <1>5 DEF IdSent, own
  <2> DEFINE first == OutboundRequest(t, id, c)
             out == Arguing!Folded(0, first, args)
  <2>2. first = [ok |-> TRUE, text |-> head] BY <1>3, <2>1
  <2>3. OutboundWithArgs(t, id, c, args) = out BY OutboundIs
  <2>4. out.ok BY <1>5, <2>3 DEF args
  <2>5. TextOf(m) = out.text BY <1>1, <1>5, <2>3 DEF TextOf, args
  <2> HIDE DEF first
  <2>6. out.ok => Carries(out.text, head, args) BY <1>2, <1>3, <2>2, ArguedCarry
  <2> HIDE DEF out
  <2>7. Carries(TextOf(m), head, args) BY <2>4, <2>5, <2>6
  <2> QED BY <1>5, <2>7 DEF head, own, args
<1>6. CASE m.by = "cli"
  <2>1. own = Printed(id) BY <1>6 DEF IdSent, own
  <2>2. TextOf(m) = CliText(t, id, c, args) BY <1>1, <1>6 DEF TextOf, args
  <2>3. CliText(t, id, c, args) = Trying!Folded(0, head, args)
    BY <1>3, <2>1 DEF CliText
  <2>4. PICK words : LeavesOut(words, args) /\ Carries(Trying!Folded(0, head, args), head, words)
    BY <1>2, <1>3, TriedCarry
  <2>5. Carries(TextOf(m), head, words) BY <2>2, <2>3, <2>4
  <2> QED BY <1>6, <2>4, <2>5 DEF head, own, args
<1> QED BY <1>1, <1>4, <1>5, <1>6

\* A request within the limits of the node arrives as it was meant, whoever
\* wrote it and however long its words are, if the array of the command line
\* tool holds its first word; an argument that the tool had no room for is all
\* that may be missing.
THEOREM RequestsAlwaysArrive == Spec => []RequestArrives
<1>1. LineInv => RequestArrives
  <2> DEFINE to == Addressed(sent.target)
             meant == [result |-> "Ok", kind |-> to.kind, target |-> to.target, id |-> IdMeant,
                       command |-> Canonical(sent.command), args |-> sent.args]
             got == NativeParse(StripSenderPrefix(line))
             own == IdSent(sent.by, sent.id)
  <2> SUFFICES ASSUME LineInv, sent # NoMessage, sent.msg = "request", sent.relayed,
                      NothingCut, WithinLimits(meant)
               PROVE  /\ IF sent.by = "cli"
                         THEN /\ LeavesOut(got.args, sent.args)
                              /\ [got EXCEPT !.args = sent.args] = meant
                         ELSE got = meant
                      /\ Canonical(sent.command) \in RequestCommands => Classify(line).kind = "other"
    BY DEF RequestArrives
  <2>1. sent \in Requests BY DEF LineInv, SentInv, Answers
  <2>2. /\ sent.target \in Targets /\ sent.id \in Seq(Digits) /\ sent.command \in CommandNames
        /\ sent.args \in Seq(Seq(Lexemes))
    BY <2>1, TextTypes, ArgsType DEF Requests
  <2>3. PICK name \in SenderNames : line = name \o <<":", " ">> \o TextOf(sent)
    <3>1. Uncut(sent) BY DEF Uncut, NothingCut, Glued
    <3> QED BY <3>1 DEF LineInv, SentInv
  <2>4. /\ Len(to.target) < MAX_TOKEN /\ Len(Canonical(sent.command)) < MAX_TOKEN
        /\ Len(sent.args) <= MAX_ARGS /\ \A i \in DOMAIN sent.args : Len(sent.args[i]) < MAX_TOKEN
        /\ IdMeant < IdLimit
    BY WithinLimitsIs
  <2>5. own \in Seq(Digits) /\ Len(own) <= IdDigits
    BY <2>2, PrintedIs DEF IdSent, NothingCut
  <2>6. Limited(sent.target, own, sent.command) BY <2>2, <2>4, <2>5 DEF Limited
  <2>7. PICK words :
          /\ Carries(TextOf(sent), HeadOf(sent.target, own, sent.command), words)
          /\ IF sent.by = "cli" THEN LeavesOut(words, sent.args) ELSE words = sent.args
    BY <2>1, <2>6, SentCarries DEF LineInv, SentInv
  <2>8. /\ got = Taken(Native, sent.target, own, sent.command, words)
        /\ Canonical(sent.command) \in RequestCommands => Classify(line).kind = "other"
    <3>1. /\ TextOf(sent) \in Seq(Lexemes) /\ TextOf(sent) # <<>>
          /\ TextOf(sent)[1] \notin Blank
      BY <2>2, <2>5, <2>7, CarriedIs
    <3>2. StripSenderPrefix(line) = TextOf(sent) BY <2>3, <3>1, StripIs, Zenon
    <3> QED BY <2>6, <2>7, <3>2, RequestHeard
  <2>9. words \in Seq(Seq(Lexemes))
    <3>1. HeadOf(sent.target, own, sent.command) \in Seq(Lexemes) BY <2>6, LimitedAsked
    <3>2. words \in Seq(Seq(Lexemes) \ {<<>>}) BY <2>7, <3>1, CarriesType
    <3>3. Seq(Lexemes) \ {<<>>} \subseteq Seq(Lexemes) OBVIOUS
    <3> QED BY <3>2, <3>3, SeqMonotone
  <2>10. Len(words) <= MAX_ARGS /\ \A i \in DOMAIN words : Len(words[i]) < MAX_TOKEN
    BY <2>2, <2>4, <2>7, <2>9, LeftFit
  <2>11. [i \in 1 .. AtMost(Len(words), Native.args) |-> Cut(Native, words[i])] = words
    BY <2>9, <2>10, WordsTaken
  <2>12. (IF own = <<>> THEN NoId ELSE Narrowed(Native, own)) = IdMeant
    <3>1. sent.id # <<>> => Value(sent.id) < IdLimit BY <2>4 DEF IdMeant
    <3> QED BY <2>2, <3>1, NumberTaken DEF IdMeant
  <2> HIDE DEF got
  <2>13. got = [result |-> "Ok", kind |-> to.kind, target |-> to.target, id |-> IdMeant,
                command |-> Canonical(sent.command), args |-> words]
    BY <2>8, <2>11, <2>12 DEF Taken
  <2> HIDE DEF to
  <2>14. got.args = words /\ [got EXCEPT !.args = sent.args] = meant BY <2>13
  <2> QED BY <2>7, <2>8, <2>13, <2>14
<1> QED BY <1>1, LineInvariant, PTL
==============================================================================
