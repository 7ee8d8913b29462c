---------------------------- MODULE ReportsProofs ----------------------------
(***************************************************************************)
(* What the core feature's answers say, for every node, every value and    *)
(* every length: theorems about Calls, which extends Reports.              *)
(***************************************************************************)
EXTENDS Calls, Texts, FiniteSetTheorems

\* The folds that collect and write.
StatusOp(r, fields, feature) == fields \o StatusOf(feature, r)
DiscoverOp(c, fields, feature) == fields \o DiscoverOf(feature)
NameOp(c, size, name) == WithName(size, name)
SkipOp(c, buf, field) == SkipField(buf, field)
StopOp(c, buf, field) == StopField(buf, field)
TextOp(c, text, field) == text \o FieldText(field)

StatusFold   == INSTANCE Folding WITH Op <- StatusOp
DiscoverFold == INSTANCE Folding WITH Op <- DiscoverOp
NameFold     == INSTANCE Folding WITH Op <- NameOp
SkipFold     == INSTANCE Folding WITH Op <- SkipOp
StopFold     == INSTANCE Folding WITH Op <- StopOp
TextFold     == INSTANCE Folding WITH Op <- TextOp

LEMMA CollectStatusIs ==
  ASSUME NEW n, NEW r PROVE CollectStatus(n, r) = StatusFold!Folded(r, <<>>, n.features)
BY DEF CollectStatus, FoldLeft, MapThenFoldSet, StatusFold!Folded, StatusFold!Iter, StatusOp,
       Max, StatusFold!Highest

LEMMA CollectDiscoverIs ==
  ASSUME NEW n PROVE CollectDiscover(n) = DiscoverFold!Folded(0, <<>>, n.features)
BY DEF CollectDiscover, FoldLeft, MapThenFoldSet, DiscoverFold!Folded, DiscoverFold!Iter,
       DiscoverOp, Max, DiscoverFold!Highest

LEMMA CsvSizeIs ==
  ASSUME NEW names
  PROVE  CsvSize(names) = LET size == NameFold!Folded(0, 0, names)
                          IN IF size > CSV_BUFFER THEN 0 ELSE size - 1
BY DEF CsvSize, FoldLeft, MapThenFoldSet, NameFold!Folded, NameFold!Iter, NameOp, Max, NameFold!Highest

LEMMA WriteStatusIs ==
  ASSUME NEW fields
  PROVE  WriteStatus(fields) = SkipFold!Folded(0, Holding(Piece("key", "status", 6)), fields)
BY DEF WriteStatus, FoldLeft, MapThenFoldSet, SkipFold!Folded, SkipFold!Iter, SkipOp, Max,
       SkipFold!Highest

LEMMA WriteDiscoverIs ==
  ASSUME NEW n, NEW fields
  PROVE  WriteDiscover(n, fields) = StopFold!Folded(0, Holding(DeviceName(n)), fields)
BY DEF WriteDiscover, FoldLeft, MapThenFoldSet, StopFold!Folded, StopFold!Iter, StopOp, Max,
       StopFold!Highest

LEMMA FullTextIs ==
  ASSUME NEW head, NEW fields
  PROVE  FullText(head, fields) = TextFold!Folded(0, Text(head), fields)
BY DEF FullText, FoldLeft, MapThenFoldSet, TextFold!Folded, TextFold!Iter, TextOp, Max,
       TextFold!Highest

-----------------------------------------------------------------------------
(* Fields. *)

Fields == [key : DOMAIN KeySize, size : 0 .. MAX_TOKEN - 1]

LEMMA KeySizes == \A key \in DOMAIN KeySize : KeySize[key] \in 1 .. 12
BY DEF KeySize

LEMMA AtMostType == ASSUME NEW n \in Nat, NEW limit \in Nat PROVE AtMost(n, limit) \in 0 .. limit
BY DEF AtMost

\* What a builder keeps of a value.
Rec(key, size) == [key |-> key, size |-> Kept(size)]

LEMMA KeptType == ASSUME NEW size \in Nat PROVE Kept(size) \in 0 .. MAX_TOKEN - 1
<1>1. MAX_TOKEN - 1 \in Nat BY DEF MAX_TOKEN
<1> QED BY <1>1, AtMostType DEF Kept

LEMMA RecType ==
  ASSUME NEW key \in DOMAIN KeySize, NEW size \in Nat
  PROVE  /\ Rec(key, size) \in Fields /\ Field(key, size) = <<Rec(key, size)>>
         /\ Rec(key, size).key = key /\ Rec(key, size).size = Kept(size)
<1>1. Kept(size) \in 0 .. MAX_TOKEN - 1 BY KeptType
<1>2. Rec(key, size) \in Fields BY <1>1 DEF Fields, Rec
<1>3. Rec(key, size).key = key /\ Rec(key, size).size = Kept(size) BY DEF Rec
<1> QED BY <1>2, <1>3 DEF Field, Rec

LEMMA FieldType ==
  ASSUME NEW key \in DOMAIN KeySize, NEW size \in Nat
  PROVE  Field(key, size) \in Seq(Fields) /\ Len(Field(key, size)) = 1
<1> DEFINE f == Rec(key, size)
<1>1. f \in Fields /\ Field(key, size) = <<f>> BY RecType
<1> HIDE DEF f
<1> QED BY <1>1

LEMMA NoField == <<>> \in Seq(Fields) /\ Len(<<>>) = 0
OBVIOUS

LEMMA DigitsType == ASSUME NEW n \in Nat PROVE Digits(n) \in Nat
<1> DEFINE powers == {k \in 1 .. 9 : n >= 10 ^ k}
<1>1. IsFiniteSet(1 .. 9)
  <2>1. 1 \in Int /\ 9 \in Int OBVIOUS
  <2> QED BY <2>1, FS_Interval
<1>2. powers \subseteq 1 .. 9 OBVIOUS
<1> HIDE DEF powers
<1>3. Cardinality(powers) \in Nat BY <1>1, <1>2, FS_Subset, FS_CardinalityType
<1> QED BY <1>3 DEF Digits, powers

LEMMA UptimeSizeType == ASSUME NEW s \in Nat PROVE UptimeSize(s) \in Nat
<1>1. \A n \in Nat : Segment(n) \in Nat BY DigitsType DEF Segment
<1>2. ASSUME NEW big \in {Minute, Hour, Day}, NEW small \in {1, Minute, Hour}
      PROVE  Segment(s \div big) + (IF (s % big) \div small = 0 THEN 0
                                    ELSE Segment((s % big) \div small)) \in Nat
  <2>1. big \in Nat \ {0} /\ small \in Nat \ {0} BY DEF Minute, Hour, Day
  <2>2. \A a \in Nat, b \in Nat \ {0} : a \div b \in Nat /\ a % b \in Nat OBVIOUS
  <2>3. s \div big \in Nat /\ s % big \in Nat BY <2>1, <2>2
  <2>4. (s % big) \div small \in Nat BY <2>1, <2>2, <2>3
  <2> QED BY <1>1, <2>3, <2>4
<1>3. CASE s < Minute BY <1>1, <1>3 DEF UptimeSize, Minute, Hour, Day
<1>4. CASE s >= Minute /\ s < Hour
  BY <1>2, <1>4 DEF UptimeSize, Minute, Hour, Day
<1>5. CASE s >= Hour /\ s < Day
  BY <1>2, <1>5 DEF UptimeSize, Minute, Hour, Day
<1>6. CASE s >= Day
  BY <1>2, <1>6 DEF UptimeSize, Minute, Hour, Day
<1>7. Minute \in Nat /\ Hour \in Nat /\ Day \in Nat BY DEF Minute, Hour, Day
<1> QED BY <1>3, <1>4, <1>5, <1>6, <1>7

LEMMA ConcatFields ==
  ASSUME NEW s \in Seq(Fields), NEW t \in Seq(Fields), NEW m \in Nat, NEW n \in Nat,
         Len(s) <= m, Len(t) <= n
  PROVE  s \o t \in Seq(Fields) /\ Len(s \o t) <= m + n
BY ConcatType, ConcatLen

\* What the assumptions say of a node and of a reading.
LEMMA NodeIs ==
  ASSUME NEW n \in Nodes
  PROVE  /\ n.name \in Nat /\ n.hex \in Nat /\ n.fw \in Nat
         /\ n.tag \in Nat /\ n.transport \in Nat /\ n.clock \in BOOLEAN
         /\ n.caps \in Seq(DOMAIN CapSize)
         /\ n.features \in Seq({"core", "battery", "gps", "button", "display", "relay", "led"})
<1>1. NodeOK(n) BY ReportsAssumption
<1>2. /\ n.name \in Nat /\ n.hex \in Nat /\ n.fw \in Nat /\ n.tag \in Nat
      /\ n.transport \in Nat /\ n.clock \in BOOLEAN
  BY <1>1 DEF NodeOK
<1>3. n.caps \in Seq(DOMAIN CapSize) BY <1>1 DEF NodeOK
<1>4. n.features \in Seq({"core", "battery", "gps", "button", "display", "relay", "led"})
  BY <1>1 DEF NodeOK
<1> QED BY <1>2, <1>3, <1>4

LEMMA ReadingIs ==
  ASSUME NEW r \in Readings
  PROVE  /\ r.snr \in Nat /\ r.heap \in Nat /\ r.voltage \in Nat /\ r.percent \in Nat
         /\ r.rssi \in Nat /\ r.sats \in Nat /\ r.presses \in Nat
<1>1. ReadingOK(r) BY ReportsAssumption
<1> QED BY <1>1 DEF ReadingOK

LEMMA CsvSizeType ==
  ASSUME NEW n \in Nodes, n.caps # <<>> PROVE CsvSize(n.caps) \in Nat
<1>1. n.caps \in Seq(DOMAIN CapSize) BY NodeIs
<1>2. ASSUME NEW size \in Nat, NEW c \in DOMAIN CapSize PROVE NameOp(0, size, c) \in Nat \ {0}
  <2>1. CapSize[c] \in Nat BY ReportsAssumption
  <2>2. CSV_TOKEN - 1 \in Nat BY DEF CSV_TOKEN
  <2>3. AtMost(CapSize[c], CSV_TOKEN - 1) \in Nat BY <2>1, <2>2, AtMostType
  <2> QED BY <2>3 DEF NameOp, WithName
<1> DEFINE size == NameFold!Folded(0, 0, n.caps)
<1>3. \A s \in Seq(DOMAIN CapSize) : NameFold!Folded(0, 0, s) \in Nat
  BY <1>2, NameFold!FoldedIn
<1>4. size \in Nat \ {0}
  <2> DEFINE m == Len(n.caps)
             s == SubSeq(n.caps, 1, m - 1)
             c == n.caps[m]
  <2>1. m \in Nat /\ m # 0 BY <1>1
  <2>2. s \in Seq(DOMAIN CapSize) /\ c \in DOMAIN CapSize /\ n.caps = Append(s, c)
    BY <1>1, <2>1
  <2> HIDE DEF s, c
  <2>3. size = NameOp(0, NameFold!Folded(0, 0, s), c) BY <2>2, NameFold!FoldedAppend
  <2> QED BY <1>2, <1>3, <2>2, <2>3
<1> HIDE DEF size
<1>5. CsvSize(n.caps) = IF size > CSV_BUFFER THEN 0 ELSE size - 1 BY CsvSizeIs DEF size
<1>6. CSV_BUFFER \in Nat BY DEF CSV_BUFFER
<1> QED BY <1>4, <1>5, <1>6

LEMMA CapsFieldType ==
  ASSUME NEW n \in Nodes
  PROVE  CapsField(n) \in Seq(Fields) /\ Len(CapsField(n)) \in 0 .. 1
<1> DEFINE size == IF n.caps = <<>> THEN 0 ELSE CsvSize(n.caps)
<1>1. size \in Nat BY CsvSizeType
<1>2. "caps" \in DOMAIN KeySize BY DEF KeySize
<1> HIDE DEF size
<1>3. CapsField(n) = IF size > 0 THEN Field("caps", size) ELSE <<>> BY DEF CapsField, FieldIf, size
<1>4. Field("caps", size) \in Seq(Fields) /\ Len(Field("caps", size)) = 1
  BY <1>1, <1>2, FieldType
<1> QED BY <1>3, <1>4, NoField

\* What each feature contributes.
\* Fields that do not identify the node.
Ids    == {"id", "id_full", "fw", "v"}
Others == {f \in Fields : f.key \notin Ids}

LEMMA OtherField ==
  ASSUME NEW key \in DOMAIN KeySize \ Ids, NEW size \in Nat, NEW cond
  PROVE  Field(key, size) \in Seq(Others) /\ FieldIf(cond, key, size) \in Seq(Others)
<1> DEFINE f == Rec(key, size)
<1>1. f \in Fields /\ f.key = key /\ Field(key, size) = <<f>> BY RecType
<1> HIDE DEF f
<1>2. f \in Others BY <1>1 DEF Others
<1>3. Field(key, size) = <<f>> BY <1>1
<1>4. <<>> \in Seq(Others) OBVIOUS
<1>5. <<f>> \in Seq(Others) BY <1>2
<1> QED BY <1>3, <1>4, <1>5, Zenon DEF FieldIf

LEMMA StatusOfType ==
  ASSUME NEW r \in Readings, NEW feature
  PROVE  StatusOf(feature, r) \in Seq(Others)
<1>1. {"snr", "heap", "voltage", "battery", "gps", "sat", "button_count"} \subseteq DOMAIN KeySize \ Ids
  BY DEF KeySize, Ids
<1>2. /\ CoreStatus(r) \in Seq(Others) /\ BatteryStatus(r) \in Seq(Others)
  BY <1>1, OtherField, ConcatType, ReadingIs DEF CoreStatus, BatteryStatus
<1>3. GpsStatus(r) \in Seq(Others)
  <2>1. /\ Field("gps", 3) \in Seq(Others) /\ Field("gps", 4) \in Seq(Others)
        /\ Field("gps", 5) \in Seq(Others) /\ Field("sat", r.sats) \in Seq(Others)
    BY <1>1, OtherField, ReadingIs
  <2>2. Field("gps", 3) \o Field("sat", r.sats) \in Seq(Others) BY <2>1, ConcatType
  <2> QED BY <2>1, <2>2 DEF GpsStatus
<1>4. ButtonStatus(r) \in Seq(Others) BY <1>1, OtherField, ReadingIs DEF ButtonStatus
<1>5. <<>> \in Seq(Others) OBVIOUS
<1> QED BY <1>2, <1>3, <1>4, <1>5 DEF StatusOf

LEMMA DiscoverOfType ==
  ASSUME NEW feature PROVE DiscoverOf(feature) \in Seq({f \in Fields : f.key \in {"display", "relay", "led"}})
<1> DEFINE Extra == {f \in Fields : f.key \in {"display", "relay", "led"}}
<1>1. CASE feature \in {"display", "relay", "led"}
  <2>1. feature \in DOMAIN KeySize BY <1>1 DEF KeySize
  <2>2. Kept(3) = 3 BY DEF Kept, AtMost, MAX_TOKEN
  <2>3. 3 \in 0 .. MAX_TOKEN - 1 BY DEF MAX_TOKEN
  <2>4. [key |-> feature, size |-> 3] \in Extra BY <1>1, <2>1, <2>3 DEF Fields
  <2>5. DiscoverOf(feature) = <<[key |-> feature, size |-> 3]>>
    BY <1>1, <2>2 DEF DiscoverOf, FieldIf, Field
  <2> QED BY <2>4, <2>5
<1>2. CASE feature \notin {"display", "relay", "led"}
  BY <1>2 DEF DiscoverOf, FieldIf
<1> QED BY <1>1, <1>2

-----------------------------------------------------------------------------
(* Pieces, and the buffers that hold them. *)

Names == DOMAIN KeySize \cup DOMAIN WordSize \cup Codes
           \cup {o.key : o \in Offers} \cup {o.value : o \in Offers}
           \cup {"", "status", "device", "request_id", "internal", "invalid_argument",
                 "unknown_proc", "reason", "proc"}

Pieces == [part : {"blank", "key", "=", "value", "id", "code"}, of : Names, size : Nat]

Buffers == {buf \in [text : Seq(Pieces), size : Nat, torn : BOOLEAN] : buf.size < MAX_REPLY}

LEMMA PieceType ==
  ASSUME NEW part \in {"blank", "key", "=", "value", "id", "code"}, NEW of \in Names,
         NEW size \in Nat
  PROVE  /\ Piece(part, of, size) \in Pieces
         /\ Piece(part, of, size).part = part /\ Piece(part, of, size).of = of
         /\ Piece(part, of, size).size = size
BY DEF Piece, Pieces

LEMMA PieceIs ==
  ASSUME NEW piece \in Pieces
  PROVE  /\ piece.part \in {"blank", "key", "=", "value", "id", "code"}
         /\ piece.of \in Names /\ piece.size \in Nat
         /\ piece = Piece(piece.part, piece.of, piece.size)
BY DEF Piece, Pieces

LEMMA BufferIs ==
  ASSUME NEW buf \in Buffers
  PROVE  /\ buf.text \in Seq(Pieces) /\ buf.size \in Nat /\ buf.size < MAX_REPLY
         /\ buf.torn \in BOOLEAN
         /\ buf = [text |-> buf.text, size |-> buf.size, torn |-> buf.torn]
BY DEF Buffers

LEMMA TextType ==
  ASSUME NEW piece \in Pieces PROVE Text(piece) \in Seq(Pieces)
BY DEF Text

LEMMA SpaceType == Space \in Pieces /\ Space.size = 1 /\ Text(Space) = <<Space>>
<1> DEFINE none == ""
<1>1. none \in Names BY Zenon DEF Names
<1> HIDE DEF none
<1>2. Piece("blank", none, 1) \in Pieces /\ Piece("blank", none, 1).size = 1 BY <1>1, PieceType
<1>3. Space = Piece("blank", none, 1) BY Zenon DEF Space, none
<1> QED BY <1>2, <1>3 DEF Text

\* What fits is put behind what the buffer holds.
LEMMA PutType ==
  ASSUME NEW buf \in Buffers, NEW piece \in Pieces
  PROVE  /\ Put(buf, piece).text = buf.text \o Text(piece)
         /\ Put(buf, piece).size = buf.size + piece.size
         /\ Put(buf, piece).torn = buf.torn
         /\ Fits(buf, piece.size) => Put(buf, piece) \in Buffers
<1> DEFINE text == buf.text \o Text(piece)
           size == buf.size + piece.size
<1>1. Put(buf, piece) \in [text : {text}, size : {size}, torn : {buf.torn}]
  <2>1. buf \in [text : {buf.text}, size : {buf.size}, torn : {buf.torn}] BY DEF Buffers
  <2> QED BY <2>1 DEF Put
<1>2. text \in Seq(Pieces) BY BufferIs, TextType, ConcatType
<1>3. size \in Nat BY BufferIs, PieceIs
<1>4. Fits(buf, piece.size) => size < MAX_REPLY BY DEF Fits
<1> HIDE DEF text, size
<1>5. Fits(buf, piece.size) => Put(buf, piece) \in Buffers
  BY <1>1, <1>2, <1>3, <1>4, BufferIs DEF Buffers
<1> QED BY <1>1, <1>5 DEF text, size

LEMMA EmptyType == Empty \in Buffers /\ Empty.text = <<>> /\ Empty.size = 0 /\ Empty.torn = FALSE
BY DEF Empty, Buffers, MAX_REPLY

LEMMA HoldingType ==
  ASSUME NEW piece \in Pieces, piece.size < MAX_REPLY
  PROVE  /\ Holding(piece) \in Buffers /\ Holding(piece).text = Text(piece)
         /\ Holding(piece).size = piece.size /\ Holding(piece).torn = FALSE
<1>1. Fits(Empty, piece.size) BY EmptyType, PieceIs DEF Fits
<1>2. <<>> \o Text(piece) = Text(piece) BY TextType
<1>3. 0 + piece.size = piece.size BY PieceIs
<1> QED BY <1>1, <1>2, <1>3, EmptyType, PutType DEF Holding

LEMMA SkipType ==
  ASSUME NEW buf \in Buffers, NEW piece \in Pieces
  PROVE  AppendOrSkip(buf, piece) \in Buffers
BY PutType DEF AppendOrSkip

LEMMA StopType ==
  ASSUME NEW buf \in Buffers, NEW piece \in Pieces
  PROVE  /\ AppendOrStop(buf, piece) \in Buffers
         /\ buf.torn => AppendOrStop(buf, piece).text = buf.text /\ AppendOrStop(buf, piece).torn
<1>1. CASE buf.torn \/ ~Fits(buf, piece.size)
  <2>1. AppendOrStop(buf, piece) = [buf EXCEPT !.torn = TRUE] BY <1>1 DEF AppendOrStop
  <2>2. buf \in [text : {buf.text}, size : {buf.size}, torn : {buf.torn}] BY DEF Buffers
  <2>3. [buf EXCEPT !.torn = TRUE] \in [text : {buf.text}, size : {buf.size}, torn : {TRUE}]
    BY <2>2
  <2>4. [buf EXCEPT !.torn = TRUE] \in Buffers BY <2>3, BufferIs DEF Buffers
  <2> QED BY <2>1, <2>3, <2>4
<1>2. CASE ~(buf.torn \/ ~Fits(buf, piece.size))
  BY <1>2, PutType DEF AppendOrStop
<1> QED BY <1>1, <1>2

LEMMA PiecesOfType ==
  ASSUME NEW field \in Fields
  PROVE  /\ PiecesOf(field)[1] = Space
         /\ PiecesOf(field)[2] = Piece("key", field.key, KeySize[field.key])
         /\ PiecesOf(field)[3] = Piece("=", field.key, 1)
         /\ PiecesOf(field)[4] = Piece("value", field.key, field.size)
         /\ PiecesOf(field)[1] \in Pieces /\ PiecesOf(field)[2] \in Pieces
         /\ PiecesOf(field)[3] \in Pieces /\ PiecesOf(field)[4] \in Pieces
<1>1. field.key \in DOMAIN KeySize /\ field.size \in Nat BY DEF Fields, MAX_TOKEN
<1>2. field.key \in Names BY <1>1, Zenon DEF Names
<1>3. KeySize[field.key] \in Nat BY <1>1, KeySizes
<1>4. /\ Piece("key", field.key, KeySize[field.key]) \in Pieces
      /\ Piece("=", field.key, 1) \in Pieces
      /\ Piece("value", field.key, field.size) \in Pieces
  BY <1>1, <1>2, <1>3, PieceType
<1> QED BY <1>4, SpaceType DEF PiecesOf

LEMMA SkipFieldType ==
  ASSUME NEW buf \in Buffers, NEW field \in Fields PROVE SkipField(buf, field) \in Buffers
<1> DEFINE p == PiecesOf(field)
<1>1. p[1] \in Pieces /\ p[2] \in Pieces /\ p[3] \in Pieces /\ p[4] \in Pieces BY PiecesOfType
<1> HIDE DEF p
<1>2. AppendPieces(AppendOrSkip, buf, p) \in Buffers BY <1>1, SkipType DEF AppendPieces
<1> QED BY <1>2 DEF SkipField, p

LEMMA StopFieldType ==
  ASSUME NEW buf \in Buffers, NEW field \in Fields PROVE StopField(buf, field) \in Buffers
<1> DEFINE p == PiecesOf(field)
<1>1. p[1] \in Pieces /\ p[2] \in Pieces /\ p[3] \in Pieces /\ p[4] \in Pieces BY PiecesOfType
<1> HIDE DEF p
<1>2. AppendPieces(AppendOrStop, buf, p) \in Buffers BY <1>1, StopType DEF AppendPieces
<1> QED BY <1>2 DEF StopField, p

-----------------------------------------------------------------------------
(* The fields of a report. *)

\* Sequences of so many fields at most.
UpTo(n) == {s \in Seq(Fields) : Len(s) <= n}

LEMMA UpToConcat ==
  ASSUME NEW m \in Nat, NEW n \in Nat, NEW s \in UpTo(m), NEW t \in UpTo(n)
  PROVE  s \o t \in UpTo(m + n)
BY ConcatFields DEF UpTo

LEMMA OneField ==
  ASSUME NEW key \in DOMAIN KeySize, NEW size \in Nat, NEW cond
  PROVE  Field(key, size) \in UpTo(1) /\ FieldIf(cond, key, size) \in UpTo(1)
<1>1. Field(key, size) \in UpTo(1)
  <2> DEFINE f == Field(key, size)
  <2>1. f \in Seq(Fields) /\ Len(f) = 1 BY FieldType
  <2> HIDE DEF f
  <2>2. Len(f) <= 1 BY <2>1
  <2>3. f \in UpTo(1) BY <2>1, <2>2 DEF UpTo
  <2> QED BY <2>3 DEF f
<1>2. <<>> \in UpTo(1) BY NoField DEF UpTo
<1> QED BY <1>1, <1>2 DEF FieldIf

LEMMA FrameworkFields ==
  ASSUME NEW n \in Nodes, NEW up \in Nat
  PROVE  /\ UpField(n, up) \in UpTo(1) /\ TagField(n) \in UpTo(1) /\ VersionField \in UpTo(1)
         /\ ShortIdField(n) \in UpTo(1) /\ CapsField(n) \in UpTo(1)
         /\ Field("name", n.name) \in UpTo(1) /\ Field("fw", n.fw) \in UpTo(1)
         /\ FieldIf(n.hex > 0, "id_full", n.hex) \in UpTo(1)
         /\ FieldIf(n.transport > 0, "transport", n.transport) \in UpTo(1)
<1>1. /\ n.name \in Nat /\ n.hex \in Nat /\ n.fw \in Nat /\ n.tag \in Nat
      /\ n.transport \in Nat /\ UptimeSize(up) \in Nat
  <2>1. UptimeSize(up) \in Nat BY UptimeSizeType
  <2>2. n.name \in Nat /\ n.hex \in Nat /\ n.fw \in Nat BY NodeIs
  <2>3. n.tag \in Nat /\ n.transport \in Nat BY NodeIs
  <2> QED BY <2>1, <2>2, <2>3
<1>2. AtMost(n.hex, 8) \in Nat BY <1>1 DEF AtMost
<1>3. {"up", "tag", "v", "id", "name", "fw", "id_full", "transport"} \subseteq DOMAIN KeySize
  BY DEF KeySize
<1>4. UpField(n, up) \in UpTo(1) BY <1>1, <1>3, OneField DEF UpField
<1>5. TagField(n) \in UpTo(1) BY <1>1, <1>3, OneField DEF TagField
<1>6. VersionField \in UpTo(1) BY <1>3, OneField DEF VersionField
<1>7. ShortIdField(n) \in UpTo(1) BY <1>2, <1>3, OneField DEF ShortIdField
<1>8. CapsField(n) \in UpTo(1)
  <2> DEFINE f == CapsField(n)
  <2>1. f \in Seq(Fields) /\ Len(f) \in 0 .. 1 BY CapsFieldType
  <2> HIDE DEF f
  <2>2. Len(f) <= 1
    <3>1. \A k \in 0 .. 1 : k <= 1 OBVIOUS
    <3> QED BY <2>1, <3>1, Zenon
  <2>3. f \in UpTo(1) BY <2>1, <2>2 DEF UpTo
  <2> QED BY <2>3 DEF f
<1>9. /\ Field("name", n.name) \in UpTo(1) /\ Field("fw", n.fw) \in UpTo(1)
      /\ FieldIf(n.hex > 0, "id_full", n.hex) \in UpTo(1)
      /\ FieldIf(n.transport > 0, "transport", n.transport) \in UpTo(1)
  BY <1>1, <1>3, OneField
<1> QED BY <1>4, <1>5, <1>6, <1>7, <1>8, <1>9

LEMMA FrameworkStatusType ==
  ASSUME NEW n \in Nodes, NEW up \in Nat, NEW r \in Readings
  PROVE  FrameworkStatus(n, up, r) \in UpTo(10)
<1> DEFINE name == Field("name", n.name)
           full == FieldIf(n.hex > 0, "id_full", n.hex)
           fw == Field("fw", n.fw)
           rssi == FieldIf(n.clock, "rssi", r.rssi)
           transport == FieldIf(n.transport > 0, "transport", n.transport)
           f3 == name \o ShortIdField(n) \o full
           f6 == f3 \o fw \o VersionField \o TagField(n)
           f9 == f6 \o UpField(n, up) \o rssi \o transport
<1>1. name \in UpTo(1) /\ fw \in UpTo(1) /\ full \in UpTo(1) /\ transport \in UpTo(1)
  BY FrameworkFields
<1>2. rssi \in UpTo(1)
  <2>1. "rssi" \in DOMAIN KeySize BY DEF KeySize
  <2> QED BY <2>1, ReadingIs, OneField
<1> HIDE DEF name, full, fw, rssi, transport
<1>3. f3 \in UpTo(3)
  <2>1. name \o ShortIdField(n) \in UpTo(1 + 1) BY <1>1, FrameworkFields, UpToConcat
  <2> DEFINE f2 == name \o ShortIdField(n)
  <2>2. f2 \in UpTo(2) BY <2>1
  <2> HIDE DEF f2
  <2>3. f2 \o full \in UpTo(2 + 1) BY <1>1, <2>2, UpToConcat
  <2> QED BY <2>3 DEF f2
<1> HIDE DEF f3
<1>4. f6 \in UpTo(6)
  <2> DEFINE f4 == f3 \o fw
             f5 == f4 \o VersionField
  <2>1. f4 \in UpTo(3 + 1) BY <1>1, <1>3, UpToConcat
  <2> HIDE DEF f4
  <2>2. f4 \in UpTo(4) BY <2>1
  <2>3. f5 \in UpTo(4 + 1) BY <2>2, FrameworkFields, UpToConcat
  <2> HIDE DEF f5
  <2>4. f5 \in UpTo(5) BY <2>3
  <2>5. f5 \o TagField(n) \in UpTo(5 + 1) BY <2>4, FrameworkFields, UpToConcat
  <2> QED BY <2>5 DEF f4, f5
<1> HIDE DEF f6
<1>5. f9 \in UpTo(9)
  <2> DEFINE f7 == f6 \o UpField(n, up)
             f8 == f7 \o rssi
  <2>1. f7 \in UpTo(6 + 1) BY <1>4, FrameworkFields, UpToConcat
  <2> HIDE DEF f7
  <2>2. f7 \in UpTo(7) BY <2>1
  <2>3. f8 \in UpTo(7 + 1) BY <1>2, <2>2, UpToConcat
  <2> HIDE DEF f8
  <2>4. f8 \in UpTo(8) BY <2>3
  <2>5. f8 \o transport \in UpTo(8 + 1) BY <1>1, <2>4, UpToConcat
  <2> QED BY <2>5 DEF f7, f8
<1> HIDE DEF f9
<1>6. f9 \o CapsField(n) \in UpTo(9 + 1) BY <1>5, FrameworkFields, UpToConcat
<1>7. FrameworkStatus(n, up, r) = f9 \o CapsField(n)
  BY DEF FrameworkStatus, f9, f6, f3, name, full, fw, rssi, transport
<1> QED BY <1>6, <1>7

LEMMA CollectStatusType ==
  ASSUME NEW n \in Nodes, NEW r \in Readings
  PROVE  CollectStatus(n, r) \in Seq(Others) /\ CollectStatus(n, r) \in Seq(Fields)
<1> DEFINE Kinds == {"core", "battery", "gps", "button", "display", "relay", "led"}
<1>1. n.features \in Seq(Kinds) BY NodeIs
<1> HIDE DEF Kinds
<1>2. ASSUME NEW fields \in Seq(Others), NEW feature \in Kinds
      PROVE  StatusOp(r, fields, feature) \in Seq(Others)
  BY StatusOfType, ConcatType DEF StatusOp
<1>3. <<>> \in Seq(Others) OBVIOUS
<1>4. CollectStatus(n, r) \in Seq(Others) BY <1>1, <1>2, <1>3, CollectStatusIs, StatusFold!FoldedIn
<1>5. Others \subseteq Fields BY DEF Others
<1> QED BY <1>4, <1>5, SeqMonotone

Extras == {f \in Fields : f.key \in {"display", "relay", "led"}}

LEMMA CollectDiscoverType ==
  ASSUME NEW n \in Nodes PROVE CollectDiscover(n) \in Seq(Extras)
<1> DEFINE Kinds == {"core", "battery", "gps", "button", "display", "relay", "led"}
<1>1. n.features \in Seq(Kinds) BY NodeIs
<1> HIDE DEF Kinds
<1>2. ASSUME NEW fields \in Seq(Extras), NEW feature \in Kinds
      PROVE  DiscoverOp(0, fields, feature) \in Seq(Extras)
  BY DiscoverOfType, ConcatType DEF DiscoverOp, Extras
<1>3. <<>> \in Seq(Extras) OBVIOUS
<1> QED BY <1>1, <1>2, <1>3, CollectDiscoverIs, DiscoverFold!FoldedIn

LEMMA AcceptedType ==
  ASSUME NEW T, NEW fields \in Seq(T)
  PROVE  Accepted(fields) \in Seq(T)
<1>1. AtMost(Len(fields), MAX_FIELDS) \in 0 .. Len(fields) BY DEF AtMost, MAX_FIELDS
<1> QED BY <1>1 DEF Accepted

\* The first fields are accepted, whatever follows.
LEMMA AcceptedFirst ==
  ASSUME NEW a \in UpTo(MAX_FIELDS), NEW T \in SUBSET Fields, NEW b \in Seq(T)
  PROVE  \E c \in Seq(T) : Accepted(a \o b) = a \o c
<1> DEFINE s == a \o b
           k == AtMost(Len(s), MAX_FIELDS)
           u == SubSeq(s, 1, k)
           c == SubSeq(u, Len(a) + 1, Len(u))
<1>1. a \in Seq(Fields) /\ Len(a) \in Nat /\ Len(a) <= MAX_FIELDS BY DEF UpTo
<1>2. b \in Seq(Fields) /\ Len(b) \in Nat BY SeqMonotone
<1>3. s \in Seq(Fields) /\ Len(s) = Len(a) + Len(b) BY <1>1, <1>2, ConcatLen, ConcatType
<1>4. \A i \in 1 .. Len(a) : s[i] = a[i] BY <1>1, <1>2, ConcatFirst
<1>5. \A i \in 1 .. Len(b) : s[Len(a) + i] = b[i] BY <1>1, <1>2, ConcatSecond
<1> HIDE DEF s
<1>6. k \in 0 .. Len(s) /\ k >= Len(a) BY <1>1, <1>2, <1>3 DEF AtMost, MAX_FIELDS
<1> HIDE DEF k
<1>7. u \in Seq(Fields) /\ Len(u) = k /\ \A i \in 1 .. k : u[i] = s[i] BY <1>3, <1>6
<1> HIDE DEF u
<1>8. \A i \in 1 .. Len(a) : a[i] = u[i] BY <1>1, <1>4, <1>6, <1>7
<1>9. u = a \o c BY <1>1, <1>6, <1>7, <1>8, BeginAndRest
<1>10. c \in Seq(Fields) /\ Len(c) = k - Len(a) /\ \A i \in 1 .. k - Len(a) : c[i] = u[Len(a) + i]
  BY <1>1, <1>6, <1>7, RestType
<1> HIDE DEF c
<1>11. \A i \in 1 .. k - Len(a) : c[i] \in T
  <2> SUFFICES ASSUME NEW i \in 1 .. k - Len(a) PROVE c[i] \in T
    OBVIOUS
  <2>1. i \in 1 .. Len(b) /\ Len(a) + i \in 1 .. k BY <1>1, <1>2, <1>3, <1>6
  <2>2. c[i] = b[i] BY <1>5, <1>7, <1>10, <2>1
  <2> QED BY <2>1, <2>2
<1>12. c \in Seq(T) BY <1>10, <1>11
<1> QED BY <1>9, <1>12 DEF Accepted, u, k, s

LEMMA DiscoverFieldsType ==
  ASSUME NEW n \in Nodes, NEW up \in Nat
  PROVE  DiscoverFields(n, up) \in Seq(Fields)
<1> DEFINE fw == Field("fw", n.fw)
           all == ShortIdField(n) \o fw \o VersionField \o TagField(n) \o UpField(n, up)
                    \o CapsField(n) \o CollectDiscover(n)
<1>1. fw \in Seq(Fields) BY FrameworkFields DEF UpTo
<1>2. /\ ShortIdField(n) \in Seq(Fields) /\ VersionField \in Seq(Fields)
      /\ TagField(n) \in Seq(Fields) /\ UpField(n, up) \in Seq(Fields)
      /\ CapsField(n) \in Seq(Fields)
  BY FrameworkFields DEF UpTo
<1>3. CollectDiscover(n) \in Seq(Fields)
  <2>1. Extras \subseteq Fields BY DEF Extras
  <2> QED BY <2>1, CollectDiscoverType, SeqMonotone
<1> HIDE DEF fw
<1>4. all \in Seq(Fields) BY <1>1, <1>2, <1>3, ConcatType
<1> HIDE DEF all
<1>5. DiscoverFields(n, up) = Accepted(all) BY DEF DiscoverFields, all, fw
<1> QED BY <1>4, <1>5, AcceptedType

LEMMA StatusFieldsType ==
  ASSUME NEW n \in Nodes, NEW up \in Nat, NEW r \in Readings
  PROVE  StatusFields(n, up, r) \in Seq(Fields)
<1>1. FrameworkStatus(n, up, r) \in Seq(Fields) BY FrameworkStatusType DEF UpTo
<1>2. CollectStatus(n, r) \in Seq(Fields) BY CollectStatusType
<1> DEFINE all == FrameworkStatus(n, up, r) \o CollectStatus(n, r)
<1>3. all \in Seq(Fields) BY <1>1, <1>2, ConcatType
<1> HIDE DEF all
<1>4. StatusFields(n, up, r) = Accepted(all) BY DEF StatusFields, all
<1> QED BY <1>3, <1>4, AcceptedType

-----------------------------------------------------------------------------
(* Every field has what the node says under its key, as far as it is kept. *)

TrueOf(n, up, r) == {f \in Fields : f.size = Kept(Says(n, up, r)[f.key])}

LEMMA TrueField ==
  ASSUME NEW n, NEW up, NEW r, NEW key \in DOMAIN KeySize, NEW size \in Nat, NEW cond,
         cond => Says(n, up, r)[key] = size
  PROVE  /\ FieldIf(cond, key, size) \in Seq(TrueOf(n, up, r))
         /\ cond => Field(key, size) \in Seq(TrueOf(n, up, r))
<1> DEFINE f == Rec(key, size)
           T == TrueOf(n, up, r)
<1>1. f \in Fields /\ f.key = key /\ f.size = Kept(size) /\ Field(key, size) = <<f>> BY RecType
<1> HIDE DEF f
<1>2. cond => f \in T BY <1>1 DEF TrueOf
<1> HIDE DEF T
<1>3. cond => <<f>> \in Seq(T) BY <1>2
<1>4. <<>> \in Seq(T) OBVIOUS
<1> QED BY <1>1, <1>3, <1>4, Zenon DEF FieldIf, T

LEMMA SaysIs ==
  ASSUME NEW n, NEW up, NEW r
  PROVE  LET says == Says(n, up, r)
         IN /\ says["name"] = n.name /\ says["id"] = AtMost(n.hex, 8) /\ says["id_full"] = n.hex
            /\ says["fw"] = n.fw /\ says["v"] = 3 /\ says["tag"] = n.tag
            /\ says["up"] = UptimeSize(up) /\ says["rssi"] = r.rssi
            /\ says["transport"] = n.transport /\ says["caps"] = CsvSize(n.caps)
            /\ says["snr"] = r.snr /\ says["heap"] = r.heap /\ says["voltage"] = r.voltage
            /\ says["battery"] = r.percent /\ says["sat"] = r.sats
            /\ says["button_count"] = r.presses
            /\ r.gps = "fix" => says["gps"] = 3
            /\ r.gps = "busy" => says["gps"] = 4
            /\ r.gps \notin {"fix", "busy"} => says["gps"] = 5
            /\ says["display"] = 3 /\ says["relay"] = 3 /\ says["led"] = 3
BY DEF Says

LEMMA TrueFramework ==
  ASSUME NEW n \in Nodes, NEW up \in Nat, NEW r \in Readings
  PROVE  LET T == TrueOf(n, up, r)
         IN /\ Field("name", n.name) \in Seq(T) /\ ShortIdField(n) \in Seq(T)
            /\ FieldIf(n.hex > 0, "id_full", n.hex) \in Seq(T) /\ Field("fw", n.fw) \in Seq(T)
            /\ VersionField \in Seq(T) /\ TagField(n) \in Seq(T) /\ UpField(n, up) \in Seq(T)
            /\ FieldIf(n.clock, "rssi", r.rssi) \in Seq(T)
            /\ FieldIf(n.transport > 0, "transport", n.transport) \in Seq(T)
            /\ CapsField(n) \in Seq(T)
<1> DEFINE T == TrueOf(n, up, r)
           says == Says(n, up, r)
<1>1. {"name", "id", "id_full", "fw", "v", "tag", "up", "rssi", "transport", "caps"}
        \subseteq DOMAIN KeySize
  BY DEF KeySize
<1>2. /\ n.name \in Nat /\ n.hex \in Nat /\ n.fw \in Nat /\ n.tag \in Nat
      /\ n.transport \in Nat /\ UptimeSize(up) \in Nat /\ r.rssi \in Nat
      /\ AtMost(n.hex, 8) \in Nat /\ 3 \in Nat
  <2>1. n.hex \in Nat BY NodeIs
  <2>2. AtMost(n.hex, 8) \in Nat BY <2>1 DEF AtMost
  <2> QED BY <2>2, NodeIs, ReadingIs, UptimeSizeType
<1>3. /\ says["name"] = n.name /\ says["id"] = AtMost(n.hex, 8) /\ says["id_full"] = n.hex
      /\ says["fw"] = n.fw /\ says["v"] = 3 /\ says["tag"] = n.tag
      /\ says["up"] = UptimeSize(up) /\ says["rssi"] = r.rssi
      /\ says["transport"] = n.transport /\ says["caps"] = CsvSize(n.caps)
  BY SaysIs
<1> HIDE DEF says
<1>4. \A key \in DOMAIN KeySize, size \in Nat : \A cond \in BOOLEAN :
        says[key] = size => Field(key, size) \in Seq(T) /\ FieldIf(cond, key, size) \in Seq(T)
  <2> SUFFICES ASSUME NEW key \in DOMAIN KeySize, NEW size \in Nat, NEW cond \in BOOLEAN,
                      says[key] = size
               PROVE  Field(key, size) \in Seq(T) /\ FieldIf(cond, key, size) \in Seq(T)
    OBVIOUS
  <2>1. FieldIf(cond, key, size) \in Seq(T) BY TrueField DEF says
  <2>2. TRUE => Field(key, size) \in Seq(T) BY TrueField DEF says
  <2> QED BY <2>1, <2>2
<1> HIDE DEF T
<1>5. /\ Field("name", n.name) \in Seq(T) /\ Field("fw", n.fw) \in Seq(T)
      /\ VersionField \in Seq(T)
  <2>1. TRUE \in BOOLEAN OBVIOUS
  <2> QED BY <1>1, <1>2, <1>3, <1>4, <2>1 DEF VersionField
<1>6. /\ FieldIf(n.hex > 0, "id_full", n.hex) \in Seq(T)
      /\ FieldIf(n.clock, "rssi", r.rssi) \in Seq(T)
      /\ FieldIf(n.transport > 0, "transport", n.transport) \in Seq(T)
  <2>1. (n.hex > 0) \in BOOLEAN /\ n.clock \in BOOLEAN /\ (n.transport > 0) \in BOOLEAN
    BY NodeIs
  <2> QED BY <1>1, <1>2, <1>3, <1>4, <2>1
<1>7. ShortIdField(n) \in Seq(T) /\ TagField(n) \in Seq(T) /\ UpField(n, up) \in Seq(T)
  <2>1. (n.hex > 0) \in BOOLEAN /\ (n.tag > 0) \in BOOLEAN /\ n.clock \in BOOLEAN BY NodeIs
  <2> QED BY <1>1, <1>2, <1>3, <1>4, <2>1 DEF ShortIdField, TagField, UpField
<1>8. CapsField(n) \in Seq(T)
  <2> DEFINE size == IF n.caps = <<>> THEN 0 ELSE CsvSize(n.caps)
  <2>1. size \in Nat BY CsvSizeType
  <2>2. size > 0 => says["caps"] = size BY <1>3
  <2>3. CapsField(n) = FieldIf(size > 0, "caps", size) BY DEF CapsField
  <2> HIDE DEF size
  <2>4. FieldIf(size > 0, "caps", size) \in Seq(T) BY <1>1, <2>1, <2>2, TrueField DEF T, says
  <2> QED BY <2>3, <2>4
<1> QED BY <1>5, <1>6, <1>7, <1>8 DEF T

LEMMA TrueStatusOf ==
  ASSUME NEW n, NEW up, NEW r \in Readings, NEW feature
  PROVE  StatusOf(feature, r) \in Seq(TrueOf(n, up, r))
<1> DEFINE T == TrueOf(n, up, r)
           says == Says(n, up, r)
<1>1. {"snr", "heap", "voltage", "battery", "gps", "sat", "button_count"} \subseteq DOMAIN KeySize
  BY DEF KeySize
<1>2. /\ says["snr"] = r.snr /\ says["heap"] = r.heap /\ says["voltage"] = r.voltage
      /\ says["battery"] = r.percent /\ says["sat"] = r.sats /\ says["button_count"] = r.presses
      /\ r.gps = "fix" => says["gps"] = 3
      /\ r.gps = "busy" => says["gps"] = 4
      /\ r.gps \notin {"fix", "busy"} => says["gps"] = 5
  BY SaysIs
<1> HIDE DEF says
<1>3. ASSUME NEW key \in DOMAIN KeySize, NEW size \in Nat, NEW cond, cond => says[key] = size
      PROVE  FieldIf(cond, key, size) \in Seq(T) /\ (cond => Field(key, size) \in Seq(T))
  BY <1>3, TrueField DEF says
<1> HIDE DEF T
<1>4. \A s \in Seq(T), t \in Seq(T) : s \o t \in Seq(T) BY ConcatType
<1>5. CoreStatus(r) \in Seq(T)
  <2>1. FieldIf(r.snr > 0, "snr", r.snr) \in Seq(T) BY <1>1, <1>2, <1>3, ReadingIs
  <2>2. FieldIf(r.heap > 0, "heap", r.heap) \in Seq(T) BY <1>1, <1>2, <1>3, ReadingIs
  <2> QED BY <1>4, <2>1, <2>2 DEF CoreStatus
<1>6. BatteryStatus(r) \in Seq(T)
  <2>1. FieldIf(r.voltage > 0, "voltage", r.voltage) \in Seq(T) BY <1>1, <1>2, <1>3, ReadingIs
  <2>2. FieldIf(r.voltage > 0 /\ r.percent > 0, "battery", r.percent) \in Seq(T)
    BY <1>1, <1>2, <1>3, ReadingIs
  <2> QED BY <1>4, <2>1, <2>2 DEF BatteryStatus
<1>7. GpsStatus(r) \in Seq(T)
  <2>1. CASE r.gps = "fix"
    <3>1. Field("gps", 3) \in Seq(T) BY <1>1, <1>2, <1>3, <2>1
    <3>2. TRUE => Field("sat", r.sats) \in Seq(T) BY <1>1, <1>2, <1>3, ReadingIs
    <3> QED BY <1>4, <2>1, <3>1, <3>2 DEF GpsStatus
  <2>2. CASE r.gps = "busy"
    <3>1. Field("gps", 4) \in Seq(T) BY <1>1, <1>2, <1>3, <2>2
    <3> QED BY <2>2, <3>1 DEF GpsStatus
  <2>3. CASE r.gps \notin {"fix", "busy"}
    <3>1. Field("gps", 5) \in Seq(T) BY <1>1, <1>2, <1>3, <2>3
    <3> QED BY <2>3, <3>1 DEF GpsStatus
  <2> QED BY <2>1, <2>2, <2>3
<1>8. ButtonStatus(r) \in Seq(T)
  <2>1. TRUE => Field("button_count", r.presses) \in Seq(T) BY <1>1, <1>2, <1>3, ReadingIs
  <2> QED BY <2>1 DEF ButtonStatus
<1>9. <<>> \in Seq(T) OBVIOUS
<1> QED BY <1>5, <1>6, <1>7, <1>8, <1>9 DEF StatusOf, T

LEMMA TrueDiscoverOf ==
  ASSUME NEW n, NEW up, NEW r, NEW feature
  PROVE  DiscoverOf(feature) \in Seq(TrueOf(n, up, r))
<1> DEFINE says == Says(n, up, r)
<1>1. {"display", "relay", "led"} \subseteq DOMAIN KeySize BY DEF KeySize
<1>2. says["display"] = 3 /\ says["relay"] = 3 /\ says["led"] = 3 BY SaysIs
<1>3. CASE feature \in {"display", "relay", "led"}
  <2>1. feature \in DOMAIN KeySize /\ says[feature] = 3 BY <1>1, <1>2, <1>3
  <2>2. FieldIf(feature \in {"display", "relay", "led"}, feature, 3) \in Seq(TrueOf(n, up, r))
    BY <2>1, TrueField
  <2> QED BY <2>2 DEF DiscoverOf
<1>4. CASE feature \notin {"display", "relay", "led"}
  <2>1. DiscoverOf(feature) = <<>> BY <1>4 DEF DiscoverOf, FieldIf
  <2> QED BY <2>1
<1> QED BY <1>3, <1>4

LEMMA StatusIsTrue ==
  ASSUME NEW n \in Nodes, NEW up \in Nat, NEW r \in Readings
  PROVE  StatusFields(n, up, r) \in Seq(TrueOf(n, up, r))
<1> DEFINE T == TrueOf(n, up, r)
           Kinds == {"core", "battery", "gps", "button", "display", "relay", "led"}
           a == Field("name", n.name) \o ShortIdField(n) \o FieldIf(n.hex > 0, "id_full", n.hex)
                  \o Field("fw", n.fw) \o VersionField
           b == a \o TagField(n) \o UpField(n, up) \o FieldIf(n.clock, "rssi", r.rssi)
                  \o FieldIf(n.transport > 0, "transport", n.transport) \o CapsField(n)
           all == FrameworkStatus(n, up, r) \o CollectStatus(n, r)
<1>1. a \in Seq(T) BY TrueFramework, ConcatType
<1> HIDE DEF a
<1>2. b \in Seq(T) BY <1>1, TrueFramework, ConcatType
<1>3. FrameworkStatus(n, up, r) = b BY Zenon DEF FrameworkStatus, a
<1> HIDE DEF b
<1>4. n.features \in Seq(Kinds) BY NodeIs
<1> HIDE DEF Kinds
<1>5. ASSUME NEW fields \in Seq(T), NEW feature \in Kinds
      PROVE  StatusOp(r, fields, feature) \in Seq(T)
  <2>1. StatusOf(feature, r) \in Seq(T) BY TrueStatusOf
  <2> QED BY <2>1, ConcatType DEF StatusOp
<1> HIDE DEF T
<1>6. <<>> \in Seq(T) OBVIOUS
<1>7. CollectStatus(n, r) \in Seq(T) BY <1>4, <1>5, <1>6, CollectStatusIs, StatusFold!FoldedIn
<1>8. all \in Seq(T) BY <1>2, <1>3, <1>7, ConcatType
<1> HIDE DEF all
<1>9. StatusFields(n, up, r) = Accepted(all) BY DEF StatusFields, all
<1> QED BY <1>8, <1>9, AcceptedType DEF T

LEMMA DiscoverIsTrue ==
  ASSUME NEW n \in Nodes, NEW up \in Nat, NEW r \in Readings
  PROVE  DiscoverFields(n, up) \in Seq(TrueOf(n, up, r))
<1> DEFINE T == TrueOf(n, up, r)
           Kinds == {"core", "battery", "gps", "button", "display", "relay", "led"}
           a == ShortIdField(n) \o Field("fw", n.fw) \o VersionField \o TagField(n)
                  \o UpField(n, up) \o CapsField(n)
           all == a \o CollectDiscover(n)
<1>1. a \in Seq(T) BY TrueFramework, ConcatType
<1>2. DiscoverFields(n, up) = Accepted(all) BY Zenon DEF DiscoverFields
<1> HIDE DEF a
<1>3. n.features \in Seq(Kinds) BY NodeIs
<1> HIDE DEF Kinds
<1>4. ASSUME NEW fields \in Seq(T), NEW feature \in Kinds
      PROVE  DiscoverOp(0, fields, feature) \in Seq(T)
  <2>1. DiscoverOf(feature) \in Seq(T) BY TrueDiscoverOf
  <2> QED BY <2>1, ConcatType DEF DiscoverOp
<1> HIDE DEF T
<1>5. <<>> \in Seq(T) OBVIOUS
<1>6. CollectDiscover(n) \in Seq(T) BY <1>3, <1>4, <1>5, CollectDiscoverIs, DiscoverFold!FoldedIn
<1>7. all \in Seq(T) BY <1>1, <1>6, ConcatType
<1> HIDE DEF all
<1> QED BY <1>2, <1>7, AcceptedType DEF T

-----------------------------------------------------------------------------
(* The bodies of the two reports. *)

LEMMA StatusHead ==
  LET head == Piece("key", "status", 6)
  IN head \in Pieces /\ Holding(head) \in Buffers /\ Holding(head).text = Text(head)
<1> DEFINE head == Piece("key", "status", 6)
<1>1. "status" \in Names BY Zenon DEF Names
<1>2. head \in Pieces /\ head.size = 6 BY <1>1, PieceType
<1> HIDE DEF head
<1>3. head.size < MAX_REPLY BY <1>2 DEF MAX_REPLY
<1>4. Holding(head) \in Buffers /\ Holding(head).text = Text(head) BY <1>2, <1>3, HoldingType
<1> QED BY <1>2, <1>4 DEF head

LEMMA DeviceHead ==
  ASSUME NEW n \in Nodes
  PROVE  /\ DeviceName(n) \in Pieces /\ DeviceName(n).size \in 1 .. MAX_TOKEN - 1
         /\ DeviceName(n).part = "value" /\ DeviceName(n).of = "device"
         /\ Holding(DeviceName(n)) \in Buffers
         /\ Holding(DeviceName(n)).text = Text(DeviceName(n))
         /\ Holding(DeviceName(n)).torn = FALSE
<1> DEFINE size == IF n.name > 0 THEN Kept(n.name) ELSE 4
           head == Piece("value", "device", size)
<1>1. "device" \in Names BY Zenon DEF Names
<1>2. size \in 1 .. MAX_TOKEN - 1
  <2>1. n.name \in Nat BY NodeIs
  <2> QED BY <2>1 DEF Kept, AtMost, MAX_TOKEN
<1> HIDE DEF size
<1>3. /\ head \in Pieces /\ head.size = size /\ head.part = "value" /\ head.of = "device"
  BY <1>1, <1>2, PieceType
<1>4. head = DeviceName(n) BY DEF DeviceName, size
<1> HIDE DEF head
<1>5. head.size < MAX_REPLY BY <1>2, <1>3 DEF MAX_REPLY, MAX_TOKEN
<1>6. Holding(head) \in Buffers /\ Holding(head).text = Text(head) /\ Holding(head).torn = FALSE
  BY <1>3, <1>5, HoldingType
<1> QED BY <1>2, <1>3, <1>4, <1>6

LEMMA WriteStatusType ==
  ASSUME NEW fields \in Seq(Fields) PROVE WriteStatus(fields) \in Buffers
<1> DEFINE head == Holding(Piece("key", "status", 6))
<1>1. head \in Buffers BY StatusHead
<1>2. \A buf \in Buffers, field \in Fields : SkipOp(0, buf, field) \in Buffers
  BY SkipFieldType DEF SkipOp
<1> HIDE DEF head
<1>3. SkipFold!Folded(0, head, fields) \in Buffers BY <1>1, <1>2, SkipFold!FoldedIn
<1> QED BY <1>3, WriteStatusIs DEF head

LEMMA WriteDiscoverType ==
  ASSUME NEW n \in Nodes, NEW fields \in Seq(Fields) PROVE WriteDiscover(n, fields) \in Buffers
<1> DEFINE head == Holding(DeviceName(n))
<1>1. head \in Buffers BY DeviceHead
<1>2. \A buf \in Buffers, field \in Fields : StopOp(0, buf, field) \in Buffers
  BY StopFieldType DEF StopOp
<1> HIDE DEF head
<1>3. StopFold!Folded(0, head, fields) \in Buffers BY <1>1, <1>2, StopFold!FoldedIn
<1> QED BY <1>3, WriteDiscoverIs DEF head

\* The "#id " prefix.
LEMMA IdHead ==
  ASSUME NEW digits \in 0 .. 10
  PROVE  LET id == Piece("id", "request_id", digits + 1)
             head == Put(Holding(id), Space)
         IN /\ id \in Pieces /\ head \in Buffers /\ head.text = <<id, Space>>
            /\ head.size = digits + 2
<1> DEFINE id == Piece("id", "request_id", digits + 1)
           held == Holding(id)
<1>1. "request_id" \in Names BY Zenon DEF Names
<1>2. id \in Pieces /\ id.size = digits + 1 BY <1>1, PieceType
<1> HIDE DEF id
<1>3. id.size < MAX_REPLY /\ id.size # 0 BY <1>2 DEF MAX_REPLY
<1>4. held \in Buffers /\ held.text = Text(id) /\ held.size = digits + 1 BY <1>2, <1>3, HoldingType
<1>5. Text(id) = <<id>> BY <1>3 DEF Text
<1> HIDE DEF held
<1>6. Fits(held, Space.size) BY <1>4, SpaceType DEF Fits, MAX_REPLY
<1>7. /\ Put(held, Space) \in Buffers /\ Put(held, Space).text = held.text \o <<Space>>
      /\ Put(held, Space).size = held.size + 1
  BY <1>4, <1>6, SpaceType, PutType
<1>8. <<id>> \o <<Space>> = <<id, Space>> BY <1>2, SpaceType, TwoWords
<1>9. digits + 1 + 1 = digits + 2 OBVIOUS
<1> QED BY <1>2, <1>4, <1>5, <1>7, <1>8, <1>9 DEF held, id

LEMMA WritePrefixedType ==
  ASSUME NEW digits \in 0 .. 10, NEW body \in Buffers
  PROVE  WritePrefixed(digits, body) \in Buffers
<1> DEFINE id == Piece("id", "request_id", digits + 1)
           head == Put(Holding(id), Space)
           both == [head EXCEPT !.text = @ \o body.text, !.size = @ + body.size]
<1>1. head \in Buffers BY IdHead
<1> HIDE DEF head
<1>2. ASSUME Fits(head, body.size) PROVE both \in Buffers
  <2>1. head \in [text : {head.text}, size : {head.size}, torn : {head.torn}] BY <1>1 DEF Buffers
  <2> DEFINE t == head.text \o body.text
             n == head.size + body.size
  <2>2. both \in [text : {t}, size : {n}, torn : {head.torn}] BY <2>1
  <2>3. t \in Seq(Pieces) BY <1>1, BufferIs, ConcatType
  <2>4. n \in Nat /\ n < MAX_REPLY BY <1>1, <1>2, BufferIs DEF Fits
  <2> HIDE DEF t, n, both
  <2> QED BY <1>1, <2>2, <2>3, <2>4, BufferIs DEF Buffers
<1> HIDE DEF both
<1>3. WritePrefixed(digits, body) =
        IF digits = 0 THEN body ELSE IF Fits(head, body.size) THEN both ELSE head
  BY DEF WritePrefixed, both, head
<1> QED BY <1>1, <1>2, <1>3

-----------------------------------------------------------------------------
(* The body of an answer to a call. *)

AllCodes == (Codes \ {""}) \cup {"internal", "invalid_argument", "unknown_proc"}
AllOffers == Offers \cup {Reason}

LEMMA CodeIs ==
  ASSUME NEW code \in AllCodes
  PROVE  /\ CodeSize[code] \in 1 .. MAX_REPLY - 5 /\ CodeSize[code] \in Nat
         /\ Piece("code", code, CodeSize[code]) \in Pieces
         /\ Piece("code", code, CodeSize[code]).size = CodeSize[code]
<1>1. CodeSize[code] \in 1 .. MAX_REPLY - 5 BY CallsAssumption, Zenon DEF AllCodes
<1>2. CodeSize[code] \in Nat
  <2>1. \A k \in 1 .. MAX_REPLY - 5 : k \in Nat BY DEF MAX_REPLY
  <2> QED BY <1>1, <2>1
<1>3. code \in Names BY Zenon DEF AllCodes, Names
<1> QED BY <1>1, <1>2, <1>3, PieceType

LEMMA CodedIs == ASSUME NEW code \in Codes PROVE Coded(code) \in AllCodes
BY Zenon DEF Coded, AllCodes

LEMMA FrameworkCodes == {"internal", "invalid_argument", "unknown_proc"} \subseteq AllCodes
BY Zenon DEF AllCodes

LEMMA WordIs ==
  ASSUME NEW kind \in DOMAIN WordSize
  PROVE  LET piece == Piece("key", kind, WordSize[kind])
         IN /\ piece \in Pieces /\ WordSize[kind] \in 2 .. 5 /\ piece.size = WordSize[kind]
            /\ piece.part = "key" /\ piece.of = kind
            /\ Holding(piece) \in Buffers /\ Holding(piece).text = <<piece>>
            /\ Holding(piece).size = WordSize[kind] /\ Holding(piece).torn = FALSE
<1> DEFINE piece == Piece("key", kind, WordSize[kind])
<1>1. kind \in Names BY Zenon DEF Names
<1>2. WordSize[kind] \in 2 .. 5 BY DEF WordSize
<1>3. /\ piece \in Pieces /\ piece.size = WordSize[kind] /\ piece.part = "key" /\ piece.of = kind
  BY <1>1, <1>2, PieceType
<1> HIDE DEF piece
<1>4. piece.size < MAX_REPLY /\ piece.size # 0 BY <1>2, <1>3 DEF MAX_REPLY
<1>5. Text(piece) = <<piece>> BY <1>4 DEF Text
<1>6. /\ Holding(piece) \in Buffers /\ Holding(piece).text = Text(piece)
      /\ Holding(piece).size = piece.size /\ Holding(piece).torn = FALSE
  BY <1>3, <1>4, HoldingType
<1> QED BY <1>2, <1>3, <1>5, <1>6 DEF piece

\* A result word; of the errors, with a code that fits.
LEMMA ErrIs ==
  ASSUME NEW code \in AllCodes
  PROVE  LET word == Piece("key", "err", WordSize["err"])
             piece == Piece("code", code, CodeSize[code])
         IN /\ ResultLine("err", code) \in Buffers
            /\ ResultLine("err", code).text = <<word, Space, piece>>
            /\ ResultLine("err", code).torn = FALSE
            /\ ResultLine("err", code).size = 4 + CodeSize[code]
<1> DEFINE word == Piece("key", "err", WordSize["err"])
           piece == Piece("code", code, CodeSize[code])
           held == Holding(word)
           spaced == Put(held, Space)
           whole == Put(spaced, piece)
           n == CodeSize[code]
<1>1. "err" \in DOMAIN WordSize /\ WordSize["err"] = 3 BY DEF WordSize
<1>2. word \in Pieces /\ held \in Buffers /\ held.text = <<word>> /\ held.size = 3 /\ held.torn = FALSE
  BY <1>1, WordIs
<1>3. piece \in Pieces /\ piece.size = n /\ n \in 1 .. MAX_REPLY - 5 BY CodeIs
<1>4. ResultLine("err", code) = AppendOrSkip(spaced, piece) BY DEF ResultLine
<1> HIDE DEF word, held, piece, n
<1>5. Fits(held, Space.size) BY <1>2, SpaceType DEF Fits, MAX_REPLY
<1>6. /\ spaced \in Buffers /\ spaced.text = held.text \o Text(Space)
      /\ spaced.size = held.size + Space.size /\ spaced.torn = held.torn
  BY <1>2, <1>5, SpaceType, PutType
<1>7. spaced.size = 4 /\ spaced.torn = FALSE BY <1>2, <1>6, SpaceType
<1>8. spaced.text = <<word, Space>> BY <1>2, <1>6, SpaceType, TwoWords
<1> HIDE DEF spaced
<1>9. n \in Nat /\ 4 + n < MAX_REPLY /\ n # 0 BY <1>3 DEF MAX_REPLY
<1>10. Fits(spaced, piece.size) BY <1>3, <1>7, <1>9 DEF Fits
<1>11. Text(piece) = <<piece>> BY <1>3, <1>9 DEF Text
<1>12. /\ whole \in Buffers /\ whole.text = <<word, Space>> \o <<piece>>
       /\ whole.size = 4 + n /\ whole.torn = FALSE
  BY <1>3, <1>6, <1>7, <1>8, <1>10, <1>11, PutType
<1>13. <<word, Space>> \o <<piece>> = <<word, Space, piece>> BY <1>2, <1>3, SpaceType, ThreeWords
<1>14. AppendOrSkip(spaced, piece) = whole BY <1>10 DEF AppendOrSkip
<1> QED BY <1>4, <1>12, <1>13, <1>14 DEF word, piece, n

LEMMA ResultLineType ==
  ASSUME NEW kind \in DOMAIN WordSize, NEW code, kind = "err" => code \in AllCodes
  PROVE  ResultLine(kind, code) \in Buffers /\ ResultLine(kind, code).torn = FALSE
<1>1. CASE kind = "err" BY <1>1, ErrIs
<1>2. CASE kind # "err"
  <2> DEFINE held == Holding(Piece("key", kind, WordSize[kind]))
  <2>1. held \in Buffers /\ held.torn = FALSE BY WordIs
  <2>2. ResultLine(kind, code) = held BY <1>2 DEF ResultLine
  <2> HIDE DEF held
  <2> QED BY <2>1, <2>2
<1> QED BY <1>1, <1>2

LEMMA OfferIs ==
  ASSUME NEW o \in AllOffers
  PROVE  /\ o.key \in Names /\ o.value \in Names /\ o.keySize \in Nat \ {0} /\ o.valueSize \in Nat
         /\ o.legal \in BOOLEAN
<1>1. CASE o \in Offers
  <2>1. OfferOK(o) BY <1>1, CallsAssumption
  <2>2. o.key \in Names /\ o.value \in Names BY <1>1, Zenon DEF Names
  <2> QED BY <2>1, <2>2 DEF OfferOK
<1>2. CASE o = Reason
  <2>1. "reason" \in Names /\ "proc" \in Names BY Zenon DEF Names
  <2>2. /\ Reason.key = "reason" /\ Reason.value = "proc" /\ Reason.keySize = 6
        /\ Reason.valueSize = 4 /\ Reason.legal = TRUE
    BY DEF Reason
  <2>3. 6 \in Nat \ {0} /\ 4 \in Nat /\ TRUE \in BOOLEAN OBVIOUS
  <2>4. /\ Reason.key \in Names /\ Reason.value \in Names /\ Reason.keySize \in Nat \ {0}
        /\ Reason.valueSize \in Nat /\ Reason.legal \in BOOLEAN
    BY <2>1, <2>2, <2>3, Zenon
  <2> QED BY <1>2, <2>4
<1> QED BY <1>1, <1>2 DEF AllOffers

LEMMA KvPiecesType ==
  ASSUME NEW o \in AllOffers
  PROVE  /\ KvPieces(o)[1] = Space
         /\ KvPieces(o)[2] = Piece("key", o.key, o.keySize)
         /\ KvPieces(o)[3] = Piece("=", o.key, 1)
         /\ KvPieces(o)[4] = Piece("value", o.value, o.valueSize)
         /\ KvPieces(o)[1] \in Pieces /\ KvPieces(o)[2] \in Pieces
         /\ KvPieces(o)[3] \in Pieces /\ KvPieces(o)[4] \in Pieces
<1>1. o.key \in Names /\ o.value \in Names /\ o.keySize \in Nat /\ o.valueSize \in Nat
  BY OfferIs
<1>2. /\ Piece("key", o.key, o.keySize) \in Pieces
      /\ Piece("=", o.key, 1) \in Pieces
      /\ Piece("value", o.value, o.valueSize) \in Pieces
  BY <1>1, PieceType
<1> QED BY <1>2, SpaceType DEF KvPieces

LEMMA UntornType ==
  ASSUME NEW buf \in Buffers
  PROVE  /\ [buf EXCEPT !.torn = FALSE] \in Buffers
         /\ [buf EXCEPT !.torn = FALSE].text = buf.text
         /\ [buf EXCEPT !.torn = FALSE].torn = FALSE
<1>1. buf \in [text : {buf.text}, size : {buf.size}, torn : {buf.torn}] BY DEF Buffers
<1>2. [buf EXCEPT !.torn = FALSE] \in [text : {buf.text}, size : {buf.size}, torn : {FALSE}]
  BY <1>1
<1> QED BY <1>2, BufferIs DEF Buffers

LEMMA AppendKvType ==
  ASSUME NEW buf \in Buffers, NEW o \in AllOffers
  PROVE  AppendKv(buf, o).buf \in Buffers /\ (~buf.torn => ~AppendKv(buf, o).buf.torn)
<1> DEFINE p == KvPieces(o)
           out == AppendPieces(AppendOrStop, buf, p)
<1>1. p[1] \in Pieces /\ p[2] \in Pieces /\ p[3] \in Pieces /\ p[4] \in Pieces BY KvPiecesType
<1> HIDE DEF p
<1>2. out \in Buffers BY <1>1, StopType DEF AppendPieces
<1>3. AppendKv(buf, o).buf = IF o.legal THEN [out EXCEPT !.torn = FALSE] ELSE buf
  BY DEF AppendKv, p
<1> HIDE DEF out
<1> QED BY <1>2, <1>3, UntornType

-----------------------------------------------------------------------------
(* The invariant. *)

Sayings == [kind : DOMAIN WordSize, code : AllCodes \cup {""}, given : Seq(AllOffers),
            refused : Seq(AllOffers)]

Runs == [running : BOOLEAN, proc : Procs \cup {<<>>}, digits : IdDigits, reply : Buffers,
         said : Sayings, handed : BOOLEAN]

\* A call goes to the host when the name of its procedure is a name.
RunIs(c) == c \in Runs /\ (c.handed <=> c.proc # <<>> /\ IsValidProc(c.proc))

\* An answer is what the node as it is now has to say.
AnswerIs ==
  /\ answer.asked \in {"nothing", "status", "discovery", "call"}
  /\ answer.digits \in 0 .. 10 /\ answer.body \in Buffers
  /\ answer.line = WritePrefixed(answer.digits, answer.body)
  /\ answer.asked = "status" => answer.body = WriteStatus(StatusFields(node, uptime, reading))
  /\ answer.asked = "discovery" => answer.body = WriteDiscover(node, DiscoverFields(node, uptime))
  /\ answer.asked = "call" => RunIs(call) /\ ~call.running /\ answer.body = call.reply

HostIs == node \in Nodes /\ uptime \in Uptimes /\ reading \in Readings

CoreInv == HostIs /\ AnswerIs /\ (call # NoCall => RunIs(call))

LEMMA NoOffers == <<>> \in Seq(AllOffers)
OBVIOUS

LEMMA SayingType ==
  ASSUME NEW kind \in DOMAIN WordSize, NEW code \in AllCodes \cup {""}
  PROVE  Said(kind, code) \in Sayings
BY NoOffers, Zenon DEF Said, Sayings

LEMMA NothingSaidType == SaidNothing \in Sayings /\ Said("ok", "") \in Sayings
<1> DEFINE none == ""
<1>1. none \in AllCodes \cup {none} OBVIOUS
<1>2. "ok" \in DOMAIN WordSize BY DEF WordSize
<1>3. Said("ok", none) \in Sayings BY <1>1, <1>2, SayingType DEF none
<1> QED BY <1>3, Zenon DEF SaidNothing

LEMMA RefusalType ==
  /\ Said("err", "invalid_argument") \in Sayings
  /\ [Said("err", "invalid_argument") EXCEPT !.given = <<Reason>>] \in Sayings
  /\ Said("err", "unknown_proc") \in Sayings
<1>1. "err" \in DOMAIN WordSize BY DEF WordSize
<1>2. "invalid_argument" \in AllCodes \cup {""} /\ "unknown_proc" \in AllCodes \cup {""}
  BY FrameworkCodes, Zenon
<1>3. Said("err", "invalid_argument") \in Sayings /\ Said("err", "unknown_proc") \in Sayings
  BY <1>1, <1>2, SayingType
<1>4. <<Reason>> \in Seq(AllOffers) BY DEF AllOffers
<1> DEFINE said == Said("err", "invalid_argument")
           codes == AllCodes \cup {""}
<1>5. said \in Sayings BY <1>3
<1> HIDE DEF said, codes
<1>6. Sayings = [kind : DOMAIN WordSize, code : codes, given : Seq(AllOffers), refused : Seq(AllOffers)]
  BY Zenon DEF Sayings, codes
<1>7. [said EXCEPT !.given = <<Reason>>] \in Sayings BY <1>4, <1>5, <1>6
<1> QED BY <1>3, <1>7 DEF said

LEMMA RespondKeeps ==
  ASSUME HostIs, NEW c, RunIs(c), NEW body \in Buffers, NEW said \in Sayings,
         Respond(c, body, said)
  PROVE  CoreInv'
<1>1. HostIs' BY DEF HostIs, Respond
<1>2. call' = [c EXCEPT !.running = FALSE, !.reply = body, !.said = said] BY DEF Respond
<1>3. answer' = [asked |-> "call", digits |-> c.digits, body |-> body,
                 line |-> WritePrefixed(c.digits, body)]
  BY DEF Respond, Answer
<1>4. c \in Runs /\ c.proc \in Procs \cup {<<>>} /\ c.digits \in IdDigits /\ c.handed \in BOOLEAN
  BY DEF RunIs, Runs
<1>5. call' \in [running : {FALSE}, proc : {c.proc}, digits : {c.digits}, reply : {body},
                 said : {said}, handed : {c.handed}]
  BY <1>2, <1>4 DEF Runs
<1>6. call' \in Runs BY <1>4, <1>5 DEF Runs
<1>7. /\ call'.running = FALSE /\ call'.reply = body /\ call'.proc = c.proc
      /\ call'.handed = c.handed
  BY <1>5
<1>8. RunIs(call)' BY <1>6, <1>7 DEF RunIs
<1>9. c.digits \in 0 .. 10 BY <1>4, ReportsAssumption
<1>10. AnswerIs' BY <1>3, <1>7, <1>8, <1>9 DEF AnswerIs
<1> QED BY <1>1, <1>8, <1>10 DEF CoreInv

\* The host writes of the reply.
LEMMA WritingKeeps ==
  ASSUME CoreInv, RunIs(call), call.running, NEW reply \in Buffers, NEW said \in Sayings,
         call' = [call EXCEPT !.reply = reply, !.said = said], UNCHANGED vars
  PROVE  CoreInv'
<1>1. HostIs' BY DEF CoreInv, HostIs, vars
<1>2. /\ call \in Runs /\ call.proc \in Procs \cup {<<>>} /\ call.digits \in IdDigits
      /\ call.handed \in BOOLEAN
  BY DEF RunIs, Runs
<1>3. call' \in [running : {call.running}, proc : {call.proc}, digits : {call.digits},
                 reply : {reply}, said : {said}, handed : {call.handed}]
  BY <1>2 DEF Runs
<1>4. call' \in Runs BY <1>2, <1>3 DEF Runs
<1>5. call'.proc = call.proc /\ call'.handed = call.handed BY <1>3
<1>6. RunIs(call)' BY <1>4, <1>5 DEF RunIs
<1>7. answer.asked # "call" BY DEF CoreInv, AnswerIs
<1>8. AnswerIs' BY <1>7 DEF CoreInv, AnswerIs, vars
<1> QED BY <1>1, <1>6, <1>8 DEF CoreInv

LEMMA SayingGrows ==
  ASSUME NEW said \in Sayings, NEW given \in Seq(AllOffers), NEW refused \in Seq(AllOffers)
  PROVE  [said EXCEPT !.given = given, !.refused = refused] \in Sayings
<1> DEFINE codes == AllCodes \cup {""}
<1>1. Sayings = [kind : DOMAIN WordSize, code : codes, given : Seq(AllOffers), refused : Seq(AllOffers)]
  BY Zenon DEF Sayings
<1> HIDE DEF codes
<1> QED BY <1>1

LEMMA UptimeIsNat == HostIs => uptime \in Nat
BY ReportsAssumption DEF HostIs

LEMMA StartsEmpty == 0 \in Uptimes /\ Empty \in Buffers /\ NoAnswer.line = WritePrefixed(0, Empty)
BY ReportsAssumption, EmptyType DEF NoAnswer, WritePrefixed

LEMMA NothingAnswered ==
  ASSUME HostIs', answer' = NoAnswer PROVE AnswerIs'
<1>1. /\ answer'.asked = "nothing" /\ answer'.digits = 0 /\ answer'.body = Empty
      /\ answer'.line = WritePrefixed(0, Empty)
  BY StartsEmpty DEF NoAnswer
<1> QED BY <1>1, StartsEmpty DEF AnswerIs

LEMMA InitCoreInv == ASSUME CallInit PROVE CoreInv
<1>1. HostIs /\ answer = NoAnswer /\ call = NoCall BY StartsEmpty DEF CallInit, Init, HostIs
<1>2. /\ answer.asked = "nothing" /\ answer.digits = 0 /\ answer.body = Empty
      /\ answer.line = WritePrefixed(0, Empty)
  BY <1>1, StartsEmpty DEF NoAnswer
<1>3. AnswerIs BY <1>2, StartsEmpty DEF AnswerIs
<1> QED BY <1>1, <1>3 DEF CoreInv

LEMMA NextCoreInv == ASSUME CoreInv, [CoreNext]_callVars PROVE CoreInv'
<1> USE DEF CoreInv
<1>1. HostIs /\ AnswerIs OBVIOUS
<1>2. ASSUME NEW digits \in IdDigits, NEW proc \in Procs \cup {<<>>}, CmdCall(proc, digits)
      PROVE  CoreInv'
  <2> DEFINE c == Pending(proc, digits)
  <2>1. /\ c \in Runs /\ c.proc = proc /\ c.handed = FALSE
        /\ c = [running |-> TRUE, proc |-> proc, digits |-> digits, reply |-> Empty,
                said |-> SaidNothing, handed |-> FALSE]
    BY StartsEmpty, NothingSaidType DEF Pending, Runs
  <2>2. "err" \in DOMAIN WordSize BY DEF WordSize
  <2>3. "invalid_argument" \in AllCodes BY FrameworkCodes
  <2>4. ResultLine("err", "invalid_argument") \in Buffers BY <2>2, <2>3, ResultLineType
  <2>5. CASE proc = <<>>
    <3>1. RunIs(c) BY <2>1, <2>5 DEF RunIs
    <3>2. Respond(c, ResultLine("err", "invalid_argument"), Said("err", "invalid_argument"))
      BY <1>2, <2>5 DEF CmdCall
    <3> QED BY <1>1, <2>4, <3>1, <3>2, RefusalType, RespondKeeps
  <2>6. CASE proc # <<>> /\ ~IsValidProc(proc)
    <3>1. RunIs(c) BY <2>1, <2>6 DEF RunIs
    <3> DEFINE body == AppendKv(ResultLine("err", "invalid_argument"), Reason).buf
               said == [Said("err", "invalid_argument") EXCEPT !.given = <<Reason>>]
    <3>2. Respond(c, body, said) BY <1>2, <2>6 DEF CmdCall
    <3>3. Reason \in AllOffers BY DEF AllOffers
    <3>4. body \in Buffers BY <2>4, <3>3, AppendKvType
    <3>5. said \in Sayings BY RefusalType
    <3> HIDE DEF body, said, c
    <3> QED BY <1>1, <3>1, <3>2, <3>4, <3>5, RespondKeeps
  <2>7. CASE proc # <<>> /\ IsValidProc(proc)
    <3>1. call' = [c EXCEPT !.handed = TRUE] /\ answer' = NoAnswer /\ HostIs'
      BY <1>2, <2>7 DEF CmdCall, HostIs
    <3>2. call' \in [running : {TRUE}, proc : {proc}, digits : {digits}, reply : {Empty},
                     said : {SaidNothing}, handed : {TRUE}]
      <4>1. c \in [running : {TRUE}, proc : {proc}, digits : {digits}, reply : {Empty},
                   said : {SaidNothing}, handed : {FALSE}]
        BY <2>1
      <4> HIDE DEF c
      <4> QED BY <3>1, <4>1
    <3>3. RunIs(call)' BY <2>7, <3>2, StartsEmpty, NothingSaidType DEF RunIs, Runs
    <3>4. AnswerIs' BY <3>1, NothingAnswered
    <3> QED BY <3>1, <3>3, <3>4
  <2> QED BY <2>5, <2>6, <2>7
<1>3. ASSUME NEW kind \in DOMAIN WordSize, NEW code, HostWrites(kind, code),
             kind = "err" => code \in Codes
      PROVE  CoreInv'
  <2>1. call \in Runs /\ RunIs(call) /\ call.running BY <1>3 DEF HostWrites, Running, RunIs
  <2> DEFINE reply == ResultLine(kind, Coded(code))
             word == IF kind = "err" THEN Coded(code) ELSE ""
             said == Said(kind, word)
  <2>2. kind = "err" => Coded(code) \in AllCodes BY <1>3, CodedIs
  <2>3. reply \in Buffers BY <2>2, ResultLineType
  <2>4. said \in Sayings
    <3>1. word \in AllCodes \cup {""} BY <2>2, Zenon
    <3> HIDE DEF word
    <3> QED BY <3>1, SayingType, Zenon
  <2>5. call' = [call EXCEPT !.reply = reply, !.said = said] /\ UNCHANGED vars
    BY <1>3 DEF HostWrites
  <2> HIDE DEF reply, said
  <2> QED BY <2>1, <2>3, <2>4, <2>5, WritingKeeps
<1>4. ASSUME NEW o \in Offers, HostAppends(o) PROVE CoreInv'
  <2>1. call \in Runs /\ RunIs(call) /\ call.running BY <1>4 DEF HostAppends, Running, RunIs
  <2> DEFINE out == AppendKv(call.reply, o)
             given == IF out.ok THEN Append(call.said.given, o) ELSE call.said.given
             refused == IF out.ok THEN call.said.refused ELSE Append(call.said.refused, o)
  <2>2. call.reply \in Buffers /\ call.said \in Sayings BY <2>1 DEF Runs
  <2>3. o \in AllOffers BY DEF AllOffers
  <2>4. out.buf \in Buffers BY <2>2, <2>3, AppendKvType
  <2>5. PICK reply, said : /\ reply = out.buf /\ said = [call.said EXCEPT !.given = given, !.refused = refused]
    OBVIOUS
  <2>6. said \in Sayings
    <3>1. call.said.given \in Seq(AllOffers) /\ call.said.refused \in Seq(AllOffers)
      BY <2>2, Zenon DEF Sayings
    <3>2. given \in Seq(AllOffers) /\ refused \in Seq(AllOffers) BY <2>3, <3>1
    <3> HIDE DEF given, refused
    <3> QED BY <2>2, <2>5, <3>2, SayingGrows
  <2>7. call' = [call EXCEPT !.reply = reply, !.said = said] /\ UNCHANGED vars
    BY <1>4, <2>1, <2>5 DEF HostAppends
  <2> QED BY <2>1, <2>4, <2>5, <2>6, <2>7, WritingKeeps
<1>5. ASSUME NEW handled \in BOOLEAN, HostReturns(handled) PROVE CoreInv'
  <2>1. call \in Runs /\ RunIs(call) BY <1>5 DEF HostReturns, Running, RunIs
  <2>2. call.reply \in Buffers /\ call.said \in Sayings BY <2>1 DEF Runs
  <2>3. "err" \in DOMAIN WordSize /\ "ok" \in DOMAIN WordSize BY DEF WordSize
  <2>4. "unknown_proc" \in AllCodes BY FrameworkCodes
  <2>5. ResultLine("err", "unknown_proc") \in Buffers BY <2>3, <2>4, ResultLineType
  <2>6. ResultLine("ok", "") \in Buffers
    <3> DEFINE none == ""
    <3>1. "ok" # "err" OBVIOUS
    <3> HIDE DEF none
    <3>2. ResultLine("ok", none) \in Buffers BY <2>3, <3>1, ResultLineType
    <3> QED BY <3>2, Zenon DEF none
  <2>7. CASE ~handled BY <1>1, <1>5, <2>1, <2>5, <2>7, RefusalType, RespondKeeps DEF HostReturns
  <2>8. CASE handled /\ call.reply = Empty
    BY <1>1, <1>5, <2>1, <2>6, <2>8, NothingSaidType, RespondKeeps, Zenon DEF HostReturns
  <2>9. CASE handled /\ call.reply # Empty
    BY <1>1, <1>5, <2>1, <2>2, <2>9, RespondKeeps, Zenon DEF HostReturns
  <2> QED BY <2>7, <2>8, <2>9
<1>6. ASSUME NEW digits \in IdDigits, CmdStatus(digits), UNCHANGED call PROVE CoreInv'
  <2> DEFINE body == WriteStatus(StatusFields(node, uptime, reading))
  <2>1. body \in Buffers BY <1>1, UptimeIsNat, StatusFieldsType, WriteStatusType DEF HostIs
  <2>2. Answer("status", digits, body) /\ UNCHANGED <<node, uptime, reading, call>>
    BY <1>6 DEF CmdStatus
  <2> HIDE DEF body
  <2>3. answer' = [asked |-> "status", digits |-> digits, body |-> body,
                   line |-> WritePrefixed(digits, body)]
    BY <2>2 DEF Answer
  <2>4. digits \in 0 .. 10 BY ReportsAssumption
  <2>5. HostIs' BY <1>1, <2>2 DEF HostIs
  <2>6. AnswerIs' BY <2>1, <2>2, <2>3, <2>4 DEF AnswerIs, body
  <2> QED BY <2>2, <2>5, <2>6 DEF RunIs
<1>7. ASSUME NEW digits \in IdDigits, CmdDiscover(digits), UNCHANGED call PROVE CoreInv'
  <2> DEFINE body == WriteDiscover(node, DiscoverFields(node, uptime))
  <2>1. body \in Buffers BY <1>1, UptimeIsNat, DiscoverFieldsType, WriteDiscoverType DEF HostIs
  <2>2. Answer("discovery", digits, body) /\ UNCHANGED <<node, uptime, reading, call>>
    BY <1>7 DEF CmdDiscover
  <2> HIDE DEF body
  <2>3. answer' = [asked |-> "discovery", digits |-> digits, body |-> body,
                   line |-> WritePrefixed(digits, body)]
    BY <2>2 DEF Answer
  <2>4. digits \in 0 .. 10 BY ReportsAssumption
  <2>5. HostIs' BY <1>1, <2>2 DEF HostIs
  <2>6. AnswerIs' BY <2>1, <2>2, <2>3, <2>4 DEF AnswerIs, body
  <2> QED BY <2>2, <2>5, <2>6 DEF RunIs
<1>8. ASSUME Tick, UNCHANGED call PROVE CoreInv'
  <2>1. HostIs' /\ answer' = NoAnswer BY <1>1, <1>8 DEF Tick, HostIs
  <2> QED BY <1>8, <2>1, NothingAnswered DEF RunIs
<1>9. ASSUME Sense, UNCHANGED call PROVE CoreInv'
  <2>1. HostIs' /\ answer' = NoAnswer BY <1>1, <1>9 DEF Sense, HostIs
  <2> QED BY <1>9, <2>1, NothingAnswered DEF RunIs
<1>10. CASE UNCHANGED callVars
  BY <1>10 DEF callVars, vars, HostIs, AnswerIs, RunIs
<1>11. CASE CallNext
  <2>1. ASSUME NEW kind \in DOMAIN WordSize \ {"err"}, HostWrites(kind, "") PROVE CoreInv'
    <3> DEFINE none == ""
    <3>1. kind \in DOMAIN WordSize /\ kind # "err" /\ HostWrites(kind, none) BY <2>1, Zenon
    <3> HIDE DEF none
    <3> QED BY <1>3, <3>1
  <2>2. ASSUME NEW code \in Codes, HostWrites("err", code) PROVE CoreInv'
    <3>1. "err" \in DOMAIN WordSize BY DEF WordSize
    <3> QED BY <1>3, <2>2, <3>1
  <2> QED BY <1>2, <1>4, <1>5, <1>11, <2>1, <2>2, Zenon DEF CallNext
<1>12. CASE call = NoCall /\ Next /\ UNCHANGED call
  BY <1>6, <1>7, <1>8, <1>9, <1>12 DEF Next
<1> QED BY <1>10, <1>11, <1>12 DEF CoreNext

-----------------------------------------------------------------------------
(* Theorems. *)

THEOREM CoreInvariant == CoreSpec => []CoreInv
<1>1. CallInit => CoreInv BY InitCoreInv
<1>2. CoreInv /\ [CoreNext]_callVars => CoreInv' BY NextCoreInv
<1> QED BY <1>1, <1>2, PTL DEF CoreSpec

\* Every answer of the core feature fits its buffer together with its NUL, and
\* so does what a host writes of an answer, whatever it appends.
THEOREM CoreTypeCorrect == CoreSpec => []CoreTypeOK
<1>1. ASSUME CoreInv PROVE CoreTypeOK
  <2>1. answer.body \in Buffers /\ answer.line \in Buffers
    BY <1>1, WritePrefixedType DEF CoreInv, AnswerIs
  <2>2. TypeOK BY <1>1, <2>1, BufferIs DEF CoreInv, HostIs, AnswerIs, TypeOK
  <2>3. ASSUME Running PROVE call.reply.size < MAX_REPLY
    <3>1. call.reply \in Buffers BY <1>1, <2>3 DEF CoreInv, Running, RunIs, Runs
    <3> QED BY <3>1, BufferIs
  <2> QED BY <2>2, <2>3 DEF CoreTypeOK
<1> QED BY <1>1, CoreInvariant, PTL

\* A buffer is the beginning of a text, and all of it as long as nothing was
\* left out.
Begins(buf, text) ==
  /\ buf \in Buffers /\ text \in Seq(Pieces)
  /\ IsPrefix(buf.text, text) /\ (~buf.torn => buf.text = text)

LEMMA BeginsStop ==
  ASSUME NEW buf, NEW text, Begins(buf, text), NEW piece \in Pieces
  PROVE  Begins(AppendOrStop(buf, piece), text \o Text(piece))
<1> DEFINE more == text \o Text(piece)
           next == AppendOrStop(buf, piece)
<1>1. /\ buf \in Buffers /\ text \in Seq(Pieces) /\ IsPrefix(buf.text, text)
      /\ buf.text \in Seq(Pieces) /\ Text(piece) \in Seq(Pieces)
      /\ (~buf.torn => buf.text = text)
  BY BufferIs, TextType DEF Begins
<1>2. more \in Seq(Pieces) /\ IsPrefix(buf.text, more) BY <1>1, PrefixConcat, ConcatType
<1>3. next \in Buffers BY <1>1, StopType
<1>4. CASE buf.torn \/ ~Fits(buf, piece.size)
  <2>1. next = [buf EXCEPT !.torn = TRUE] BY <1>4 DEF AppendOrStop
  <2>2. buf \in [text : {buf.text}, size : {buf.size}, torn : {buf.torn}] BY <1>1 DEF Buffers
  <2>3. next.text = buf.text /\ next.torn = TRUE BY <2>1, <2>2
  <2> HIDE DEF more, next
  <2> QED BY <1>2, <1>3, <2>3 DEF Begins, more, next
<1>5. CASE ~(buf.torn \/ ~Fits(buf, piece.size))
  <2>1. next = Put(buf, piece) BY <1>5 DEF AppendOrStop
  <2>2. next.text = more BY <1>1, <1>5, <2>1, PutType
  <2> HIDE DEF more, next
  <2> QED BY <1>2, <1>3, <2>2, PrefixSame DEF Begins, more, next
<1> QED BY <1>4, <1>5

LEMMA PiecesAssoc ==
  ASSUME NEW s \in Seq(Pieces), NEW t \in Seq(Pieces), NEW u \in Seq(Pieces)
  PROVE  (s \o t) \o u = s \o (t \o u)
BY ConcatAssoc

LEMMA BeginsField ==
  ASSUME NEW buf, NEW text, Begins(buf, text), NEW field \in Fields
  PROVE  Begins(StopField(buf, field), text \o FieldText(field))
<1> DEFINE p == PiecesOf(field)
           b1 == AppendOrStop(buf, p[1])
           b2 == AppendOrStop(b1, p[2])
           b3 == AppendOrStop(b2, p[3])
           b4 == AppendOrStop(b3, p[4])
           t1 == Text(p[1])
           t2 == Text(p[2])
           t3 == Text(p[3])
           t4 == Text(p[4])
<1>1. p[1] \in Pieces /\ p[2] \in Pieces /\ p[3] \in Pieces /\ p[4] \in Pieces
  BY PiecesOfType
<1>2. StopField(buf, field) = b4 BY DEF StopField, AppendPieces
<1>3. FieldText(field) = t1 \o t2 \o t3 \o t4 BY DEF FieldText
<1>4. t1 \in Seq(Pieces) /\ t2 \in Seq(Pieces) /\ t3 \in Seq(Pieces) /\ t4 \in Seq(Pieces)
  BY <1>1, TextType
<1>5. Begins(b1, text \o t1) BY <1>1, BeginsStop
<1> HIDE DEF b1
<1>6. Begins(b2, (text \o t1) \o t2) BY <1>1, <1>5, BeginsStop
<1> HIDE DEF b2
<1>7. Begins(b3, ((text \o t1) \o t2) \o t3) BY <1>1, <1>6, BeginsStop
<1> HIDE DEF b3
<1>8. Begins(b4, (((text \o t1) \o t2) \o t3) \o t4) BY <1>1, <1>7, BeginsStop
<1> HIDE DEF b4, t1, t2, t3, t4
<1>9. text \in Seq(Pieces) BY DEF Begins
<1>10. (((text \o t1) \o t2) \o t3) \o t4 = text \o (((t1 \o t2) \o t3) \o t4)
  <2>1. (text \o t1) \o t2 = text \o (t1 \o t2) BY <1>4, <1>9, PiecesAssoc
  <2> DEFINE u == t1 \o t2
             v == u \o t3
  <2>2. u \in Seq(Pieces) BY <1>4, ConcatType
  <2> HIDE DEF u
  <2>3. (text \o u) \o t3 = text \o (u \o t3)
    <3>1. t3 \in Seq(Pieces) BY <1>4
    <3> QED BY <1>9, <2>2, <3>1, PiecesAssoc
  <2>4. v \in Seq(Pieces) BY <1>4, <2>2, ConcatType
  <2> HIDE DEF v
  <2>5. (text \o v) \o t4 = text \o (v \o t4)
    <3>1. t4 \in Seq(Pieces) BY <1>4
    <3> QED BY <1>9, <2>4, <3>1, PiecesAssoc
  <2> QED BY <2>1, <2>3, <2>5 DEF u, v
<1> QED BY <1>2, <1>3, <1>8, <1>10

LEMMA BeginsReport ==
  ASSUME NEW n \in Nodes
  PROVE  \A fields \in Seq(Fields) :
           Begins(WriteDiscover(n, fields), FullText(DeviceName(n), fields))
<1> DEFINE head == Holding(DeviceName(n))
           first == Text(DeviceName(n))
           S == {f \in Seq(Fields) : Begins(StopFold!Folded(0, head, f), TextFold!Folded(0, first, f))}
<1>1. head \in Buffers /\ first \in Seq(Pieces) /\ head.text = first /\ head.torn = FALSE
  BY DeviceHead, TextType
<1> HIDE DEF head, first
<1>2. <<>> \in S
  <2>1. StopFold!Folded(0, head, <<>>) = head BY StopFold!FoldedEmpty
  <2>2. TextFold!Folded(0, first, <<>>) = first BY TextFold!FoldedEmpty
  <2>3. Begins(head, first) BY <1>1, PrefixSame DEF Begins
  <2> QED BY <2>1, <2>2, <2>3
<1>3. ASSUME NEW f \in Seq(Fields), NEW field \in Fields, f \in S PROVE Append(f, field) \in S
  <2> DEFINE buf == StopFold!Folded(0, head, f)
             text == TextFold!Folded(0, first, f)
  <2>1. StopFold!Folded(0, head, Append(f, field)) = StopField(buf, field)
    BY StopFold!FoldedAppend DEF StopOp
  <2>2. TextFold!Folded(0, first, Append(f, field)) = text \o FieldText(field)
    BY TextFold!FoldedAppend DEF TextOp
  <2>3. Begins(buf, text) BY <1>3
  <2> HIDE DEF buf, text
  <2>4. Begins(StopField(buf, field), text \o FieldText(field)) BY <2>3, BeginsField
  <2>5. Append(f, field) \in Seq(Fields) OBVIOUS
  <2> QED BY <2>1, <2>2, <2>4, <2>5
<1> HIDE DEF S
<1>4. Seq(Fields) \subseteq S BY <1>2, <1>3, StopFold!SequenceInduction
<1> QED BY <1>4, WriteDiscoverIs, FullTextIs DEF S, head, first

\* DiscoverBuilder keeps earlier fields: a discovery answer is what the node has
\* to say up to some point, for every node and however long its values.
THEOREM EarlierFieldsAlwaysFirst == CoreSpec => []EarlierFieldsFirst
<1>1. ASSUME CoreInv PROVE EarlierFieldsFirst
  <2> SUFFICES ASSUME answer.asked = "discovery"
               PROVE  IsPrefix(answer.body.text,
                               FullText(DeviceName(node), DiscoverFields(node, uptime)))
    BY DEF EarlierFieldsFirst
  <2>1. answer.body = WriteDiscover(node, DiscoverFields(node, uptime))
    BY <1>1 DEF CoreInv, AnswerIs
  <2>2. DiscoverFields(node, uptime) \in Seq(Fields) /\ node \in Nodes
    BY <1>1, UptimeIsNat, DiscoverFieldsType DEF CoreInv, HostIs
  <2> QED BY <2>1, <2>2, BeginsReport DEF Begins
<1> QED BY <1>1, CoreInvariant, PTL

\* What a status has it keeps.
LEMMA SkipKeeps ==
  ASSUME NEW text \in Seq(Pieces), NEW buf \in Buffers, IsPrefix(text, buf.text),
         NEW piece \in Pieces
  PROVE  AppendOrSkip(buf, piece) \in Buffers /\ IsPrefix(text, AppendOrSkip(buf, piece).text)
<1>1. CASE Fits(buf, piece.size)
  <2>1. AppendOrSkip(buf, piece) = Put(buf, piece) BY <1>1 DEF AppendOrSkip
  <2>2. Put(buf, piece).text = buf.text \o Text(piece) BY PutType
  <2>3. IsPrefix(text, buf.text \o Text(piece)) BY BufferIs, TextType, PrefixConcat
  <2> QED BY <2>1, <2>2, <2>3, SkipType
<1>2. CASE ~Fits(buf, piece.size)
  BY <1>2 DEF AppendOrSkip
<1> QED BY <1>1, <1>2

LEMMA SkipFieldKeeps ==
  ASSUME NEW text \in Seq(Pieces), NEW buf \in Buffers, IsPrefix(text, buf.text),
         NEW field \in Fields
  PROVE  SkipField(buf, field) \in Buffers /\ IsPrefix(text, SkipField(buf, field).text)
<1> DEFINE p == PiecesOf(field)
           b1 == AppendOrSkip(buf, p[1])
           b2 == AppendOrSkip(b1, p[2])
           b3 == AppendOrSkip(b2, p[3])
           b4 == AppendOrSkip(b3, p[4])
<1>1. p[1] \in Pieces /\ p[2] \in Pieces /\ p[3] \in Pieces /\ p[4] \in Pieces
  BY PiecesOfType
<1>2. SkipField(buf, field) = b4 BY DEF SkipField, AppendPieces
<1>3. b1 \in Buffers /\ IsPrefix(text, b1.text) BY <1>1, SkipKeeps
<1> HIDE DEF b1
<1>4. b2 \in Buffers /\ IsPrefix(text, b2.text) BY <1>1, <1>3, SkipKeeps
<1> HIDE DEF b2
<1>5. b3 \in Buffers /\ IsPrefix(text, b3.text) BY <1>1, <1>4, SkipKeeps
<1> HIDE DEF b3
<1>6. b4 \in Buffers /\ IsPrefix(text, b4.text) BY <1>1, <1>5, SkipKeeps
<1> QED BY <1>2, <1>6

LEMMA StatusKeeps ==
  ASSUME NEW a \in Seq(Fields), NEW b \in Seq(Fields)
  PROVE  IsPrefix(WriteStatus(a).text, WriteStatus(a \o b).text)
<1> DEFINE head == Holding(Piece("key", "status", 6))
           from == SkipFold!Folded(0, head, a)
           text == from.text
           Longer == {buf \in Buffers : IsPrefix(text, buf.text)}
<1>1. from = WriteStatus(a) /\ from \in Buffers BY WriteStatusIs, WriteStatusType
<1>2. SkipFold!Folded(0, head, a \o b) = SkipFold!Folded(0, from, b) BY SkipFold!FoldedConcat
<1>3. WriteStatus(a \o b) = SkipFold!Folded(0, from, b) BY <1>2, WriteStatusIs
<1> HIDE DEF head, from
<1>4. text \in Seq(Pieces) BY <1>1, BufferIs
<1> HIDE DEF text
<1>5. \A buf \in Longer, field \in Fields : SkipOp(0, buf, field) \in Longer
  BY <1>4, SkipFieldKeeps DEF SkipOp
<1>6. from \in Longer BY <1>1, <1>4, PrefixSame DEF text
<1> HIDE DEF Longer
<1>7. SkipFold!Folded(0, from, b) \in Longer BY <1>5, <1>6, SkipFold!FoldedIn
<1> QED BY <1>1, <1>3, <1>7 DEF Longer, text

\* What the features contribute to a status displaces nothing of what the
\* framework can say of the node without them: the framework's fields are ten at
\* most, so that all are accepted, and what was written before stays.
THEOREM FeaturesNeverDisplace == CoreSpec => []FeaturesDisplaceNothing
<1>1. ASSUME CoreInv PROVE FeaturesDisplaceNothing
  <2> SUFFICES ASSUME answer.asked = "status"
               PROVE  IsPrefix(WriteStatus(FrameworkStatus(node, uptime, reading)).text,
                               answer.body.text)
    BY DEF FeaturesDisplaceNothing
  <2> DEFINE a == FrameworkStatus(node, uptime, reading)
             b == CollectStatus(node, reading)
  <2>1. answer.body = WriteStatus(StatusFields(node, uptime, reading))
    BY <1>1 DEF CoreInv, AnswerIs
  <2>2. a \in UpTo(10) /\ b \in Seq(Fields)
    BY <1>1, UptimeIsNat, FrameworkStatusType, CollectStatusType DEF CoreInv, HostIs
  <2>3. StatusFields(node, uptime, reading) = Accepted(a \o b) BY DEF StatusFields
  <2> HIDE DEF a, b
  <2>4. a \in Seq(Fields) /\ a \in UpTo(MAX_FIELDS)
    <3>1. a \in Seq(Fields) /\ Len(a) <= 10 BY <2>2 DEF UpTo
    <3>2. Len(a) \in Nat BY <3>1
    <3>3. Len(a) <= MAX_FIELDS BY <3>1, <3>2 DEF MAX_FIELDS
    <3> QED BY <3>1, <3>3 DEF UpTo
  <2>5. PICK c \in Seq(Fields) : Accepted(a \o b) = a \o c
    <3>1. Fields \in SUBSET Fields OBVIOUS
    <3> QED BY <2>2, <2>4, <3>1, AcceptedFirst
  <2>6. IsPrefix(WriteStatus(a).text, WriteStatus(a \o c).text) BY <2>4, StatusKeeps
  <2> QED BY <2>1, <2>3, <2>5, <2>6 DEF a
<1> QED BY <1>1, CoreInvariant, PTL

-----------------------------------------------------------------------------
(* Names of procedures. *)

LEMMA MinIs ==
  ASSUME NEW S \in SUBSET Nat, S # {}
  PROVE  Min(S) \in S /\ \A y \in S : Min(S) <= y
<1>1. \E x \in S : \A y \in S : x <= y BY TextFold!LeastElement
<1> QED BY <1>1 DEF Min

\* What a segment is made of.
Plain == Letters \cup Digit \cup {"_"}
Dot == "."

LEMMA PlainIs ==
  ASSUME NEW x \in Characters PROVE x \in Plain <=> x # Dot /\ x # "-"
BY Zenon DEF Characters, Plain, Letters, Digit, Dot

LEMMA LettersArePlain == Letters \subseteq Plain
BY DEF Plain

LEMMA SegmentIs ==
  ASSUME NEW word \in Seq(Characters), NEW a \in 1 .. Len(word) + 1, NEW b \in 0 .. Len(word),
         a <= b + 1
  PROVE  IsProcSegment(SubSeq(word, a, b)) <=>
           a <= b /\ word[a] \in Letters /\ \A i \in a .. b : word[i] \in Plain
<1> DEFINE seg == SubSeq(word, a, b)
           n == b - a + 1
<1>1. n \in Nat /\ Len(word) \in Nat /\ a \in Nat /\ b \in Nat OBVIOUS
<1>2. seg \in Seq(Characters) /\ Len(seg) = n /\ \A i \in 1 .. n : seg[i] = word[i + (a - 1)]
  BY <1>1
<1>3. IsProcSegment(seg) <=> /\ seg # <<>> /\ seg[1] \in Letters
                             /\ \A i \in 2 .. Len(seg) : seg[i] \in Plain
  BY Zenon DEF IsProcSegment, Plain
<1> HIDE DEF seg
<1>4. CASE ~(a <= b)
  <2>1. n = 0 BY <1>1, <1>4
  <2>2. seg = <<>> BY <1>2, <2>1
  <2> QED BY <1>3, <1>4, <2>2 DEF seg
<1>5. CASE a <= b
  <2>1. n >= 1 /\ seg # <<>> BY <1>1, <1>2, <1>5
  <2>2. seg[1] = word[a]
    <3>1. 1 \in 1 .. n /\ 1 + (a - 1) = a BY <1>1, <2>1
    <3> QED BY <1>2, <3>1
  <2>3. ASSUME seg[1] \in Letters, \A i \in 2 .. Len(seg) : seg[i] \in Plain, NEW i \in a .. b
        PROVE  word[i] \in Plain
    <3> DEFINE j == i - (a - 1)
    <3>1. j \in 1 .. n /\ j + (a - 1) = i BY <1>1
    <3>2. seg[j] = word[i] BY <1>2, <3>1
    <3>3. j = 1 \/ j \in 2 .. Len(seg) BY <1>1, <1>2, <3>1
    <3> HIDE DEF j
    <3> QED BY <2>3, <3>2, <3>3, LettersArePlain
  <2>4. ASSUME \A i \in a .. b : word[i] \in Plain, NEW i \in 2 .. Len(seg)
        PROVE  seg[i] \in Plain
    <3>1. i \in 1 .. n /\ i + (a - 1) \in a .. b BY <1>1, <1>2
    <3> QED BY <1>2, <2>4, <3>1
  <2> QED BY <1>3, <1>5, <2>1, <2>2, <2>3, <2>4 DEF seg
<1> QED BY <1>4, <1>5

\* The C++ walk around the first dot and the Python pattern say the same.
LEMMA SameNames ==
  ASSUME NEW word \in Seq(Characters)
  PROVE  IsValidProc(word) <=> PythonValidProc(word)
<1> DEFINE n == Len(word)
           dots == {i \in DOMAIN word : word[i] = Dot}
           OneDot(d) == \A i \in DOMAIN word : word[i] = Dot <=> i = d
           Good(d) == /\ d > 1 /\ d < n /\ word[1] \in Letters /\ word[d + 1] \in Letters
                      /\ \A i \in DOMAIN word \ {d} : word[i] # "-"
           Parts(d) == /\ IsProcSegment(SubSeq(word, 1, d - 1))
                       /\ IsProcSegment(SubSeq(word, d + 1, n))
<1>1. n \in Nat /\ DOMAIN word = 1 .. n /\ \A i \in DOMAIN word : word[i] \in Characters OBVIOUS
<1>2. IsValidProc(word) <=> /\ dots # {} /\ dots \subseteq 1 .. Min(dots) /\ Parts(Min(dots))
  BY Zenon DEF IsValidProc, Dot
<1>3. PythonValidProc(word) <=> \E d \in DOMAIN word : OneDot(d) /\ Good(d)
  BY Zenon DEF PythonValidProc, Dot
<1>4. ASSUME NEW d \in DOMAIN word, OneDot(d) PROVE Good(d) <=> Parts(d)
  <2>1. d \in 1 .. n /\ d \in Nat BY <1>1
  <2>2. IsProcSegment(SubSeq(word, 1, d - 1)) <=>
          1 <= d - 1 /\ word[1] \in Letters /\ \A i \in 1 .. d - 1 : word[i] \in Plain
    <3>1. 1 \in 1 .. Len(word) + 1 /\ d - 1 \in 0 .. Len(word) /\ 1 <= d - 1 + 1 BY <1>1, <2>1
    <3> QED BY <3>1, SegmentIs
  <2>3. IsProcSegment(SubSeq(word, d + 1, n)) <=>
          d + 1 <= n /\ word[d + 1] \in Letters /\ \A i \in d + 1 .. n : word[i] \in Plain
    <3>1. d + 1 \in 1 .. Len(word) + 1 /\ n \in 0 .. Len(word) /\ d + 1 <= n + 1 BY <1>1, <2>1
    <3> QED BY <3>1, SegmentIs
  <2>4. \A i \in DOMAIN word \ {d} : word[i] \in Plain <=> word[i] # "-"
    BY <1>1, <1>4, PlainIs, Zenon
  <2>5. \A i : i \in DOMAIN word \ {d} <=> i \in 1 .. d - 1 \/ i \in d + 1 .. n
    BY <1>1, <2>1
  <2>6. (1 <= d - 1 <=> d > 1) /\ (d + 1 <= n <=> d < n) BY <1>1, <2>1
  <2> HIDE DEF n
  <2> QED BY <2>2, <2>3, <2>4, <2>5, <2>6, Zenon
<1> HIDE DEF Good, Parts
<1>5. ASSUME dots # {}, dots \subseteq 1 .. Min(dots), Parts(Min(dots)) PROVE PythonValidProc(word)
  <2>1. dots \in SUBSET Nat BY <1>1
  <2>2. Min(dots) \in dots /\ \A y \in dots : Min(dots) <= y BY <1>5, <2>1, MinIs
  <2> DEFINE d == Min(dots)
  <2>3. \A i \in dots : i = d
    <3>1. ASSUME NEW i \in dots PROVE i = d
      <4>1. i \in 1 .. d /\ d <= i /\ d \in Nat BY <1>5, <2>1, <2>2
      <4> QED BY <4>1
    <3> QED BY <3>1
  <2>4. d \in DOMAIN word /\ word[d] = Dot BY <2>2
  <2> HIDE DEF d
  <2>5. OneDot(d) BY <2>3, <2>4
  <2> QED BY <1>3, <1>4, <1>5, <2>4, <2>5 DEF d
<1>6. ASSUME NEW d \in DOMAIN word, OneDot(d), Good(d) PROVE IsValidProc(word)
  <2>1. dots = {d} BY <1>6
  <2>2. Min({d}) = d
    <3>1. {d} \in SUBSET Nat /\ {d} # {} BY <1>1
    <3> QED BY <3>1, MinIs
  <2>3. {d} \subseteq 1 .. d BY <1>1
  <2>4. Parts(d) BY <1>4, <1>6
  <2> HIDE DEF dots
  <2> QED BY <1>2, <2>1, <2>2, <2>3, <2>4
<1> QED BY <1>2, <1>3, <1>5, <1>6

\* A host that asks is_valid_proc first is never told that the name of its
\* procedure is wrong, and one that is told so could have known.
THEOREM ProcsAlwaysAgree == CoreSpec => []ProcsAgree
<1>1. ASSUME CoreInv PROVE ProcsAgree
  <2> SUFFICES ASSUME answer.asked = "call", call.proc # <<>>
               PROVE  PythonValidProc(call.proc) <=> call.handed
    BY DEF ProcsAgree, Called
  <2>1. RunIs(call) BY <1>1 DEF CoreInv, AnswerIs
  <2>2. call.proc \in Seq(Characters) BY <2>1, CallsAssumption DEF RunIs, Runs
  <2>3. call.handed <=> IsValidProc(call.proc) BY <2>1 DEF RunIs
  <2> QED BY <2>2, <2>3, SameNames
<1> QED BY <1>1, CoreInvariant, PTL

-----------------------------------------------------------------------------
(* What a pair leaves in a buffer, whole or in part. *)

\* The word of a pair that was written whole; an empty value leaves no trace.
FullWord(k, e, v) == IF v.size = 0 THEN <<k, e>> ELSE <<k, e, v>>

\* What there may be of it: a piece is missing when it does not fit, and where
\* its "=" does not fit no value does.
WordsOf(k, e, v) ==
  {<<>>, <<k>>, <<e>>, <<k, e>>} \cup (IF v.size = 0 THEN {} ELSE {<<e, v>>, <<k, e, v>>})

\* Three pieces that a "key=value" is made of.
IsPair(k, e, v) ==
  /\ k \in Pieces /\ e \in Pieces /\ v \in Pieces
  /\ k.part = "key" /\ e.part = "=" /\ v.part = "value"
  /\ k.size \in Nat \ {0} /\ e.size = 1 /\ v.size \in Nat

LEMMA WordsType ==
  ASSUME NEW k \in Pieces, NEW e \in Pieces, NEW v \in Pieces
  PROVE  WordsOf(k, e, v) \subseteq Seq(Pieces) /\ FullWord(k, e, v) \in WordsOf(k, e, v)
<1>1. <<>> \in Seq(Pieces) /\ <<k>> \in Seq(Pieces) /\ <<e>> \in Seq(Pieces) OBVIOUS
<1>2. <<k, e>> \in Seq(Pieces) /\ <<e, v>> \in Seq(Pieces) OBVIOUS
<1>3. <<k, e, v>> \in Seq(Pieces) OBVIOUS
<1> QED BY <1>1, <1>2, <1>3, Zenon DEF WordsOf, FullWord

\* Whether a piece leaves something.
Written(b, p) == b.size + p.size < MAX_REPLY /\ p.size # 0

\* One piece of a status.
LEMMA SkipOne ==
  ASSUME NEW b \in Buffers, NEW p \in Pieces
  PROVE  LET out == AppendOrSkip(b, p)
         IN /\ out \in Buffers /\ out.torn = b.torn
            /\ Written(b, p) => out.text = Append(b.text, p) /\ out.size = b.size + p.size
            /\ ~Written(b, p) => out.text = b.text /\ out.size = b.size
<1> DEFINE out == AppendOrSkip(b, p)
<1>1. out \in Buffers BY SkipType
<1>2. b.size \in Nat /\ p.size \in Nat /\ b.size < MAX_REPLY BY BufferIs, PieceIs
<1>3. b.text \in Seq(Pieces) BY BufferIs
<1>4. CASE ~Fits(b, p.size)
  <2>1. out = b BY <1>4 DEF AppendOrSkip
  <2>2. ~Written(b, p) BY <1>4 DEF Fits, Written
  <2> QED BY <1>1, <2>1, <2>2
<1>5. CASE Fits(b, p.size)
  <2>1. out = Put(b, p) BY <1>5 DEF AppendOrSkip
  <2>2. b.size + p.size < MAX_REPLY BY <1>5 DEF Fits
  <2>3. out.torn = b.torn /\ out.size = b.size + p.size /\ out.text = b.text \o Text(p)
    BY <2>1, PutType
  <2>4. CASE p.size = 0
    <3>1. Text(p) = <<>> /\ b.text \o <<>> = b.text /\ b.size + p.size = b.size
      BY <1>2, <1>3, <2>4 DEF Text
    <3> HIDE DEF out
    <3>2. out.text = b.text /\ out.size = b.size BY <2>3, <3>1
    <3>3. ~Written(b, p) BY <2>4 DEF Written
    <3> QED BY <1>1, <2>3, <3>2, <3>3 DEF out
  <2>5. CASE p.size # 0
    <3>1. Text(p) = <<p>> BY <2>5 DEF Text
    <3>2. b.text \o <<p>> = Append(b.text, p) BY <1>3, AppendIs
    <3> HIDE DEF out
    <3>3. out.text = Append(b.text, p) BY <2>3, <3>1, <3>2
    <3>4. Written(b, p) BY <2>2, <2>5 DEF Written
    <3> QED BY <1>1, <2>3, <3>3, <3>4 DEF out
  <2> QED BY <2>4, <2>5
<1> QED BY <1>4, <1>5

\* One piece of a discovery line.
Took(b, p) == ~b.torn /\ Written(b, p)

Stopped(b, p, out) ==
  /\ out \in Buffers
  /\ out.torn <=> (b.torn \/ ~Fits(b, p.size))
  /\ Took(b, p) => out.text = Append(b.text, p) /\ out.size = b.size + p.size
  /\ ~Took(b, p) => out.text = b.text /\ out.size = b.size

LEMMA StopOne ==
  ASSUME NEW b \in Buffers, NEW p \in Pieces PROVE Stopped(b, p, AppendOrStop(b, p))
<1> DEFINE out == AppendOrStop(b, p)
<1>1. out \in Buffers BY StopType
<1>2. CASE b.torn \/ ~Fits(b, p.size)
  <2>1. out = [b EXCEPT !.torn = TRUE] BY <1>2 DEF AppendOrStop
  <2>2. b \in [text : {b.text}, size : {b.size}, torn : {b.torn}] BY DEF Buffers
  <2>3. out.text = b.text /\ out.size = b.size /\ out.torn = TRUE BY <2>1, <2>2
  <2>4. ~Took(b, p) BY <1>2 DEF Fits, Written, Took
  <2> HIDE DEF out
  <2> QED BY <1>1, <1>2, <2>3, <2>4 DEF out, Stopped
<1>3. CASE ~b.torn /\ Fits(b, p.size)
  <2>1. out = AppendOrSkip(b, p) BY <1>3 DEF AppendOrStop, AppendOrSkip
  <2>2. /\ out.torn = b.torn
        /\ Written(b, p) => out.text = Append(b.text, p) /\ out.size = b.size + p.size
        /\ ~Written(b, p) => out.text = b.text /\ out.size = b.size
    BY <2>1, SkipOne
  <2> HIDE DEF out
  <2> QED BY <1>1, <1>3, <2>2, Zenon DEF out, Stopped, Took
<1> QED BY <1>2, <1>3

\* Words grow at their end.
LEMMA GrowTwo ==
  ASSUME NEW s \in Seq(Pieces), NEW x \in Pieces, NEW y \in Pieces
  PROVE  Append(s \o <<x>>, y) = s \o <<x, y>>
<1>1. <<x>> \in Seq(Pieces) OBVIOUS
<1>2. s \o Append(<<x>>, y) = Append(s \o <<x>>, y) BY <1>1, TextFold!ConcatAppend
<1>3. Append(<<x>>, y) = <<x>> \o <<y>> BY <1>1, AppendIs
<1>4. <<x>> \o <<y>> = <<x, y>> BY TwoWords
<1> QED BY <1>2, <1>3, <1>4

LEMMA GrowThree ==
  ASSUME NEW s \in Seq(Pieces), NEW x \in Pieces, NEW y \in Pieces, NEW z \in Pieces
  PROVE  Append(s \o <<x, y>>, z) = s \o <<x, y, z>>
<1>1. <<x, y>> \in Seq(Pieces) OBVIOUS
<1>2. s \o Append(<<x, y>>, z) = Append(s \o <<x, y>>, z) BY <1>1, TextFold!ConcatAppend
<1>3. Append(<<x, y>>, z) = <<x, y>> \o <<z>> BY <1>1, AppendIs
<1>4. <<x, y>> \o <<z>> = <<x, y, z>> BY ThreeWords
<1> QED BY <1>2, <1>3, <1>4

\* Which pieces of a pair are written: without the space none, without the "="
\* no value, and all where there is room.
LEMMA SkipWrites ==
  ASSUME NEW b \in Buffers, NEW k, NEW e, NEW v, IsPair(k, e, v),
         NEW b1, b1 = AppendOrSkip(b, Space), NEW b2, b2 = AppendOrSkip(b1, k),
         NEW b3, b3 = AppendOrSkip(b2, e), NEW b4, b4 = AppendOrSkip(b3, v)
  PROVE  /\ b1 \in Buffers /\ b2 \in Buffers /\ b3 \in Buffers /\ b4 \in Buffers
         /\ b4.torn = b.torn /\ b4.size <= b.size + 2 + k.size + v.size
         /\ ~Written(b, Space) => ~Written(b1, k) /\ ~Written(b2, e)
         /\ ~Written(b2, e) => ~Written(b3, v)
         /\ v.size = 0 => ~Written(b3, v)
         /\ b.size + 2 + k.size + v.size < MAX_REPLY =>
              /\ Written(b, Space) /\ Written(b1, k) /\ Written(b2, e)
              /\ v.size # 0 => Written(b3, v)
<1> DEFINE n == b.size
           n1 == b1.size
           n2 == b2.size
           n3 == b3.size
           n4 == b4.size
           a == k.size
           c == v.size
<1>1. /\ k \in Pieces /\ e \in Pieces /\ v \in Pieces /\ a \in Nat \ {0} /\ e.size = 1 /\ c \in Nat
  BY DEF IsPair
<1>2. Space \in Pieces /\ Space.size = 1 BY SpaceType
<1>3. /\ b1 \in Buffers /\ (Written(b, Space) => n1 = n + 1) /\ (~Written(b, Space) => n1 = n)
  BY <1>2, SkipOne
<1>4. /\ b2 \in Buffers /\ (Written(b1, k) => n2 = n1 + a) /\ (~Written(b1, k) => n2 = n1)
  BY <1>1, <1>3, SkipOne
<1>5. /\ b3 \in Buffers /\ (Written(b2, e) => n3 = n2 + 1) /\ (~Written(b2, e) => n3 = n2)
  <2>1. b2 \in Buffers /\ e \in Pieces /\ e.size = 1 BY <1>1, <1>4
  <2> QED BY <2>1, SkipOne
<1>6. /\ b4 \in Buffers /\ (Written(b3, v) => n4 = n3 + c) /\ (~Written(b3, v) => n4 = n3)
  BY <1>1, <1>5, SkipOne
<1>7. /\ Written(b, Space) <=> n + 1 < MAX_REPLY
      /\ Written(b1, k) <=> n1 + a < MAX_REPLY
      /\ Written(b2, e) <=> n2 + 1 < MAX_REPLY
      /\ Written(b3, v) <=> n3 + c < MAX_REPLY /\ c # 0
  BY <1>1, <1>2 DEF Written
<1>8. /\ n \in Nat /\ n1 \in Nat /\ n2 \in Nat /\ n3 \in Nat /\ n4 \in Nat
      /\ n < MAX_REPLY /\ n1 < MAX_REPLY /\ n2 < MAX_REPLY /\ n3 < MAX_REPLY
  BY <1>3, <1>4, <1>5, <1>6, BufferIs
<1>9. /\ n1 = IF n + 1 < MAX_REPLY THEN n + 1 ELSE n
      /\ n2 = IF n1 + a < MAX_REPLY THEN n1 + a ELSE n1
      /\ n3 = IF n2 + 1 < MAX_REPLY THEN n2 + 1 ELSE n2
      /\ n4 = IF n3 + c < MAX_REPLY /\ c # 0 THEN n3 + c ELSE n3
  <2> HIDE DEF n, n1, n2, n3, n4, a, c
  <2> QED BY <1>3, <1>4, <1>5, <1>6, <1>7, Zenon
<1> HIDE DEF n, n1, n2, n3, n4, a, c
<1>10. /\ n4 <= n + 2 + a + c
       /\ n + 1 >= MAX_REPLY => n1 + a >= MAX_REPLY /\ n2 + 1 >= MAX_REPLY
       /\ n2 + 1 >= MAX_REPLY => n3 + c >= MAX_REPLY \/ c = 0
       /\ n + 2 + a + c < MAX_REPLY => /\ n + 1 < MAX_REPLY /\ n1 + a < MAX_REPLY
                                       /\ n2 + 1 < MAX_REPLY /\ n3 + c < MAX_REPLY
  BY <1>1, <1>8, <1>9, SMTT(60) DEF MAX_REPLY
<1>11. MAX_REPLY \in Nat BY DEF MAX_REPLY
<1>12. /\ ~Written(b, Space) => ~Written(b1, k) /\ ~Written(b2, e)
       /\ ~Written(b2, e) => ~Written(b3, v)
       /\ c = 0 => ~Written(b3, v)
  BY <1>1, <1>7, <1>8, <1>10, <1>11
<1>13. n + 2 + a + c < MAX_REPLY =>
         /\ Written(b, Space) /\ Written(b1, k) /\ Written(b2, e)
         /\ c # 0 => Written(b3, v)
  BY <1>7, <1>10
<1>14. b4.torn = b.torn
  <2>1. b1.torn = b.torn BY <1>2, SkipOne
  <2>2. b2.torn = b1.torn BY <1>1, <1>3, SkipOne
  <2>3. b3.torn = b2.torn BY <1>1, <1>4, SkipOne
  <2>4. b4.torn = b3.torn BY <1>1, <1>5, SkipOne
  <2> QED BY <2>1, <2>2, <2>3, <2>4
<1> QED BY <1>3, <1>4, <1>5, <1>6, <1>10, <1>12, <1>13, <1>14 DEF n, n4, a, c

\* A pair of which some pieces were taken, those with their number in taken.
Left(text, isTaken, piece) == IF isTaken THEN Append(text, piece) ELSE text

PairLeft(text, k, e, v, taken) ==
  Left(Left(Left(Left(text, 1 \in taken, Space), 2 \in taken, k), 3 \in taken, e), 4 \in taken, v)

\* Without the space none, without the "=" no value.
MayBeTaken(taken, v) ==
  /\ 1 \notin taken => 2 \notin taken /\ 3 \notin taken
  /\ 3 \notin taken => 4 \notin taken
  /\ v.size = 0 => 4 \notin taken

AllTaken(taken, v) == 1 \in taken /\ 2 \in taken /\ 3 \in taken /\ (v.size # 0 => 4 \in taken)

\* The text after it: nothing new, or a word behind a space, the whole word where
\* there was room.
Ends(text, after, k, e, v, room) ==
  /\ \/ after = text
     \/ \E w \in WordsOf(k, e, v) : after = Append(text, Space) \o w
  /\ room => after = Append(text, Space) \o FullWord(k, e, v)

LEMMA PairText ==
  ASSUME NEW text \in Seq(Pieces), NEW k, NEW e, NEW v, IsPair(k, e, v), NEW taken,
         MayBeTaken(taken, v)
  PROVE  Ends(text, PairLeft(text, k, e, v, taken), k, e, v, AllTaken(taken, v))
<1> SUFFICES /\ \/ PairLeft(text, k, e, v, taken) = text
                \/ \E w \in WordsOf(k, e, v) :
                     PairLeft(text, k, e, v, taken) = Append(text, Space) \o w
             /\ AllTaken(taken, v) =>
                  PairLeft(text, k, e, v, taken) = Append(text, Space) \o FullWord(k, e, v)
  BY Zenon DEF Ends
<1> DEFINE p1 == 1 \in taken
           p2 == 2 \in taken
           p3 == 3 \in taken
           p4 == 4 \in taken
           t1 == Left(text, p1, Space)
           t2 == Left(t1, p2, k)
           t3 == Left(t2, p3, e)
           t4 == Left(t3, p4, v)
<1>1. PairLeft(text, k, e, v, taken) = t4 BY DEF PairLeft
<1>2. (~p1 => ~p2 /\ ~p3) /\ (~p3 => ~p4) /\ (v.size = 0 => ~p4) BY DEF MayBeTaken
<1>3. AllTaken(taken, v) <=> p1 /\ p2 /\ p3 /\ (v.size # 0 => p4) BY Zenon DEF AllTaken
<1>4. /\ t1 = IF p1 THEN Append(text, Space) ELSE text
      /\ t2 = IF p2 THEN Append(t1, k) ELSE t1
      /\ t3 = IF p3 THEN Append(t2, e) ELSE t2
      /\ t4 = IF p4 THEN Append(t3, v) ELSE t3
  BY Zenon DEF Left
<1> HIDE DEF p1, p2, p3, p4, t1, t2, t3, t4
<1> DEFINE s == Append(text, Space)
<1>5. k \in Pieces /\ e \in Pieces /\ v \in Pieces BY DEF IsPair
<1>6. s \in Seq(Pieces) BY SpaceType
<1> HIDE DEF s
<1>7. /\ Append(s, k) = s \o <<k>> /\ Append(s, e) = s \o <<e>>
      /\ Append(s \o <<k>>, e) = s \o <<k, e>> /\ Append(s \o <<e>>, v) = s \o <<e, v>>
      /\ Append(s \o <<k, e>>, v) = s \o <<k, e, v>> /\ s \o <<>> = s
  <2>1. Append(s, k) = s \o <<k>> /\ Append(s, e) = s \o <<e>> BY <1>5, <1>6, AppendIs
  <2>2. Append(s \o <<k>>, e) = s \o <<k, e>> /\ Append(s \o <<e>>, v) = s \o <<e, v>>
    BY <1>5, <1>6, GrowTwo
  <2>3. Append(s \o <<k, e>>, v) = s \o <<k, e, v>> BY <1>5, <1>6, GrowThree
  <2>4. s \o <<>> = s BY <1>6
  <2> QED BY <2>1, <2>2, <2>3, <2>4
<1>8. CASE ~p1
  <2>1. t4 = text BY <1>8, <1>2, <1>4, Zenon
  <2> QED BY <1>8, <1>1, <1>3, <2>1, Zenon
<1>9. CASE p1
  <2>1. t1 = s BY <1>9, <1>4, Zenon DEF s
  <2>2. t2 = IF p2 THEN s \o <<k>> ELSE s BY <1>7, <1>4, <2>1, Zenon
  <2>3. t3 = IF p2 THEN IF p3 THEN s \o <<k, e>> ELSE s \o <<k>>
                   ELSE IF p3 THEN s \o <<e>> ELSE s
    BY <1>7, <1>4, <2>2, Zenon
  <2>4. CASE p3 /\ p4
    <3>1. v.size # 0 BY <1>2, <2>4
    <3>2. CASE p2
      <4>1. t4 = s \o <<k, e, v>> BY <1>7, <1>4, <2>3, <2>4, <3>2, Zenon
      <4> QED BY <1>1, <3>1, <4>1, Zenon DEF FullWord, WordsOf, s
    <3>3. CASE ~p2
      <4>1. t4 = s \o <<e, v>> BY <1>7, <1>4, <2>3, <2>4, <3>3, Zenon
      <4> QED BY <1>1, <1>3, <3>1, <3>3, <4>1, Zenon DEF WordsOf, s
    <3> QED BY <3>2, <3>3
  <2>5. CASE ~p4
    <3>1. t4 = t3 BY <1>4, <2>5, Zenon
    <3>2. \/ p2 /\ p3 /\ t4 = s \o <<k, e>>
          \/ ~p3 /\ t4 = s \o <<k>>
          \/ ~p2 /\ t4 = s \o <<e>>
          \/ ~p2 /\ t4 = s \o <<>>
      BY <1>7, <2>3, <3>1, Zenon
    <3>3. \E w \in WordsOf(k, e, v) : t4 = s \o w BY <3>2, Zenon DEF WordsOf
    <3>4. p2 /\ p3 /\ (v.size # 0 => p4) => t4 = s \o FullWord(k, e, v)
      BY <2>3, <2>5, <3>1, Zenon DEF FullWord
    <3> QED BY <1>1, <1>3, <3>3, <3>4, Zenon DEF s
  <2> QED BY <1>2, <2>4, <2>5, Zenon
<1> QED BY <1>8, <1>9

\* What there is of a word when nothing is taken behind what was not.
BeginningsOf(k, e, v) == {<<>>, <<k>>, <<k, e>>, FullWord(k, e, v)}

Begun(text, after, k, e, v) ==
  after = text \/ \E w \in BeginningsOf(k, e, v) : after = Append(text, Space) \o w

LEMMA PairBegins ==
  ASSUME NEW text \in Seq(Pieces), NEW k, NEW e, NEW v, IsPair(k, e, v), NEW taken,
         MayBeTaken(taken, v), 2 \notin taken => 3 \notin taken
  PROVE  Begun(text, PairLeft(text, k, e, v, taken), k, e, v)
<1> SUFFICES \/ PairLeft(text, k, e, v, taken) = text
             \/ \E w \in BeginningsOf(k, e, v) :
                  PairLeft(text, k, e, v, taken) = Append(text, Space) \o w
  BY Zenon DEF Begun
<1> DEFINE p1 == 1 \in taken
           p2 == 2 \in taken
           p3 == 3 \in taken
           p4 == 4 \in taken
           left == PairLeft(text, k, e, v, taken)
           s == Append(text, Space)
<1>1. left = Left(Left(Left(Left(text, p1, Space), p2, k), p3, e), p4, v) BY DEF PairLeft
<1>2. (~p1 => ~p2) /\ (~p2 => ~p3) /\ (~p3 => ~p4) /\ (v.size = 0 => ~p4) BY DEF MayBeTaken
<1> HIDE DEF p1, p2, p3, p4, left
<1>3. k \in Pieces /\ e \in Pieces /\ v \in Pieces BY DEF IsPair
<1>4. s \in Seq(Pieces) BY SpaceType
<1>5. left = IF p4 THEN Append(Append(Append(s, k), e), v)
             ELSE IF p3 THEN Append(Append(s, k), e)
             ELSE IF p2 THEN Append(s, k) ELSE IF p1 THEN s ELSE text
  BY <1>1, <1>2, Zenon DEF Left
<1> HIDE DEF s
<1>6. /\ s = s \o <<>> /\ Append(s, k) = s \o <<k>>
      /\ Append(Append(s, k), e) = s \o <<k, e>>
      /\ Append(Append(Append(s, k), e), v) = s \o <<k, e, v>>
  <2>1. s = s \o <<>> BY <1>4
  <2>2. Append(s, k) = s \o <<k>> BY <1>3, <1>4, AppendIs
  <2>3. Append(s \o <<k>>, e) = s \o <<k, e>> BY <1>3, <1>4, GrowTwo
  <2>4. Append(s \o <<k, e>>, v) = s \o <<k, e, v>> BY <1>3, <1>4, GrowThree
  <2> QED BY <2>1, <2>2, <2>3, <2>4, Zenon
<1>7. p4 => FullWord(k, e, v) = <<k, e, v>> BY <1>2, Zenon DEF FullWord
<1>8. left = text \/ \E w \in BeginningsOf(k, e, v) : left = s \o w
  BY <1>5, <1>6, <1>7, Zenon DEF BeginningsOf
<1> QED BY <1>8 DEF left, s

\* A field, or any pair, in a status.
LEMMA SkipPair ==
  ASSUME NEW b \in Buffers, NEW k, NEW e, NEW v, IsPair(k, e, v)
  PROVE  LET out == AppendPieces(AppendOrSkip, b, <<Space, k, e, v>>)
         IN /\ out \in Buffers /\ out.torn = b.torn
            /\ out.size <= b.size + 2 + k.size + v.size
            /\ Ends(b.text, out.text, k, e, v, b.size + 2 + k.size + v.size < MAX_REPLY)
<1>1. PICK b1, b2, b3, b4 :
        /\ b1 = AppendOrSkip(b, Space) /\ b2 = AppendOrSkip(b1, k)
        /\ b3 = AppendOrSkip(b2, e) /\ b4 = AppendOrSkip(b3, v)
  OBVIOUS
<1>2. AppendPieces(AppendOrSkip, b, <<Space, k, e, v>>) = b4 BY <1>1 DEF AppendPieces
<1> DEFINE Room == b.size + 2 + k.size + v.size < MAX_REPLY
           p1 == Written(b, Space)
           p2 == Written(b1, k)
           p3 == Written(b2, e)
           p4 == Written(b3, v)
<1>3. /\ b1 \in Buffers /\ b2 \in Buffers /\ b3 \in Buffers /\ b4 \in Buffers
      /\ b4.torn = b.torn /\ b4.size <= b.size + 2 + k.size + v.size
      /\ (~p1 => ~p2 /\ ~p3) /\ (~p3 => ~p4) /\ (v.size = 0 => ~p4)
      /\ Room => p1 /\ p2 /\ p3 /\ (v.size # 0 => p4)
  BY <1>1, SkipWrites
<1>4. k \in Pieces /\ e \in Pieces /\ v \in Pieces /\ Space \in Pieces
  BY SpaceType DEF IsPair
<1>5. /\ b1.text = IF p1 THEN Append(b.text, Space) ELSE b.text
      /\ b2.text = IF p2 THEN Append(b1.text, k) ELSE b1.text
      /\ b3.text = IF p3 THEN Append(b2.text, e) ELSE b2.text
      /\ b4.text = IF p4 THEN Append(b3.text, v) ELSE b3.text
  <2> HIDE DEF p1, p2, p3, p4
  <2>1. b1.text = IF p1 THEN Append(b.text, Space) ELSE b.text BY <1>1, <1>4, SkipOne DEF p1
  <2>2. b2.text = IF p2 THEN Append(b1.text, k) ELSE b1.text
    <3>1. b1 \in Buffers /\ k \in Pieces /\ b2 = AppendOrSkip(b1, k) BY <1>1, <1>3, <1>4
    <3> QED BY <3>1, SkipOne DEF p2
  <2>3. b3.text = IF p3 THEN Append(b2.text, e) ELSE b2.text
    <3>1. b2 \in Buffers /\ e \in Pieces /\ b3 = AppendOrSkip(b2, e) BY <1>1, <1>3, <1>4
    <3> QED BY <3>1, SkipOne DEF p3
  <2>4. b4.text = IF p4 THEN Append(b3.text, v) ELSE b3.text
    <3>1. b3 \in Buffers /\ v \in Pieces /\ b4 = AppendOrSkip(b3, v) BY <1>1, <1>3, <1>4
    <3> QED BY <3>1, SkipOne DEF p4
  <2> QED BY <2>1, <2>2, <2>3, <2>4
<1>6. b.text \in Seq(Pieces) BY BufferIs
<1> HIDE DEF p1, p2, p3, p4
<1> DEFINE taken == {i \in 1 .. 4 : (i = 1 /\ p1) \/ (i = 2 /\ p2) \/ (i = 3 /\ p3) \/ (i = 4 /\ p4)}
<1>7. (1 \in taken <=> p1) /\ (2 \in taken <=> p2) /\ (3 \in taken <=> p3) /\ (4 \in taken <=> p4)
  OBVIOUS
<1> HIDE DEF taken
<1>8. b4.text = PairLeft(b.text, k, e, v, taken) BY <1>5, <1>7, Zenon DEF PairLeft, Left
<1>9. MayBeTaken(taken, v) /\ (Room => AllTaken(taken, v))
  BY <1>3, <1>7, Zenon DEF MayBeTaken, AllTaken
<1>10. Ends(b.text, PairLeft(b.text, k, e, v, taken), k, e, v, AllTaken(taken, v))
  BY <1>6, <1>9, PairText, Zenon
<1>11. Ends(b.text, b4.text, k, e, v, Room) BY <1>8, <1>9, <1>10, Zenon DEF Ends
<1> QED BY <1>2, <1>3, <1>11, Zenon

\* A pair in a discovery line, or in a result: all of it, or what fits in front
\* of the first piece that does not.
LEMMA StopPair ==
  ASSUME NEW b \in Buffers, NEW k, NEW e, NEW v, IsPair(k, e, v)
  PROVE  LET out == AppendPieces(AppendOrStop, b, <<Space, k, e, v>>)
         IN /\ out \in Buffers
            /\ Ends(b.text, out.text, k, e, v, ~out.torn) /\ Begun(b.text, out.text, k, e, v)
            /\ ~out.torn => out.size = b.size + 2 + k.size + v.size
            /\ ~b.torn /\ b.size + 2 + k.size + v.size < MAX_REPLY => ~out.torn
<1>1. PICK b1, b2, b3, b4 :
        /\ b1 = AppendOrStop(b, Space) /\ b2 = AppendOrStop(b1, k)
        /\ b3 = AppendOrStop(b2, e) /\ b4 = AppendOrStop(b3, v)
  OBVIOUS
<1>2. AppendPieces(AppendOrStop, b, <<Space, k, e, v>>) = b4 BY <1>1 DEF AppendPieces
<1> DEFINE p1 == Took(b, Space)
           p2 == Took(b1, k)
           p3 == Took(b2, e)
           p4 == Took(b3, v)
<1>3. k \in Pieces /\ e \in Pieces /\ v \in Pieces /\ Space \in Pieces
  BY SpaceType DEF IsPair
<1>4. k.size \in Nat \ {0} /\ e.size = 1 /\ v.size \in Nat /\ Space.size = 1
  BY SpaceType DEF IsPair
<1>5. Stopped(b, Space, b1) /\ b1 \in Buffers BY <1>1, <1>3, StopOne DEF Stopped
<1>6. Stopped(b1, k, b2) /\ b2 \in Buffers BY <1>1, <1>3, <1>5, StopOne DEF Stopped
<1>7. Stopped(b2, e, b3) /\ b3 \in Buffers BY <1>1, <1>3, <1>6, StopOne DEF Stopped
<1>8. Stopped(b3, v, b4) /\ b4 \in Buffers BY <1>1, <1>3, <1>7, StopOne DEF Stopped
<1>9. /\ (~p1 => ~p2 /\ ~p3) /\ (~p2 => ~p3)
      /\ ~p3 => ~p4
      /\ v.size = 0 => ~p4
      /\ ~b4.torn => p1 /\ p2 /\ p3 /\ (v.size # 0 => p4)
  <2>1. ~p1 => b1.torn BY <1>4, <1>5 DEF Stopped, Took, Written, Fits
  <2>2. ~p2 => b2.torn BY <1>4, <1>6 DEF Stopped, Took, Written, Fits
  <2>3. ~p3 => b3.torn BY <1>4, <1>7 DEF Stopped, Took, Written, Fits
  <2>4. ~p4 /\ v.size # 0 => b4.torn BY <1>8 DEF Stopped, Took, Written, Fits
  <2>5. v.size = 0 => ~p4 BY DEF Took, Written
  <2>6. (b1.torn => b2.torn /\ ~p2) /\ (b2.torn => b3.torn /\ ~p3) /\ (b3.torn => b4.torn /\ ~p4)
    BY <1>6, <1>7, <1>8 DEF Stopped, Took
  <2> HIDE DEF p1, p2, p3, p4
  <2> QED BY <2>1, <2>2, <2>3, <2>4, <2>5, <2>6
<1>10. /\ b1.text = IF p1 THEN Append(b.text, Space) ELSE b.text
       /\ b2.text = IF p2 THEN Append(b1.text, k) ELSE b1.text
       /\ b3.text = IF p3 THEN Append(b2.text, e) ELSE b2.text
       /\ b4.text = IF p4 THEN Append(b3.text, v) ELSE b3.text
  BY <1>5, <1>6, <1>7, <1>8, Zenon DEF Stopped
<1>11. b.text \in Seq(Pieces) /\ b.size \in Nat BY BufferIs
<1>12. ~b4.torn => b4.size = b.size + 2 + k.size + v.size
  <2> SUFFICES ASSUME ~b4.torn PROVE b4.size = b.size + 2 + k.size + v.size
    OBVIOUS
  <2> DEFINE n3 == b3.size
             a == k.size
             c == v.size
  <2>1. b1.size = b.size + 1 BY <1>4, <1>5, <1>9 DEF Stopped
  <2>2. b2.size = b1.size + a BY <1>6, <1>9 DEF Stopped
  <2>3. n3 = b2.size + 1 BY <1>4, <1>7, <1>9 DEF Stopped
  <2>4. a \in Nat /\ c \in Nat BY <1>4
  <2>5. n3 \in Nat BY <1>7, BufferIs
  <2>6. b4.size = n3 + c
    <3>1. CASE c # 0 BY <1>8, <1>9, <3>1 DEF Stopped
    <3>2. CASE c = 0
      <4>1. b4.size = n3 BY <1>8, <1>9, <3>2 DEF Stopped
      <4> QED BY <2>5, <3>2, <4>1
    <3> QED BY <3>1, <3>2
  <2> HIDE DEF n3, a, c
  <2>7. b4.size = b.size + 2 + a + c BY <1>11, <2>1, <2>2, <2>3, <2>4, <2>6
  <2> QED BY <2>7 DEF a, c
<1>13. ~b.torn /\ b.size + 2 + k.size + v.size < MAX_REPLY => ~b4.torn
  <2> SUFFICES ASSUME ~b.torn, b.size + 2 + k.size + v.size < MAX_REPLY PROVE ~b4.torn
    OBVIOUS
  <2> DEFINE n == b.size
             a == k.size
             c == v.size
  <2>1. n \in Nat /\ a \in Nat \ {0} /\ c \in Nat /\ MAX_REPLY \in Nat BY <1>4, <1>11 DEF MAX_REPLY
  <2>2. n + 2 + a + c < MAX_REPLY OBVIOUS
  <2>3. ~b1.torn /\ b1.size = n + 1
    <3>1. n + 1 < MAX_REPLY
      <4> HIDE DEF n, a, c
      <4> QED BY <2>1, <2>2
    <3> QED BY <1>4, <1>5, <3>1 DEF Fits, Written, Took, Stopped
  <2>4. ~b2.torn /\ b2.size = n + 1 + a
    <3>1. n + 1 + a < MAX_REPLY /\ a # 0
      <4> HIDE DEF n, a, c
      <4> QED BY <2>1, <2>2
    <3> QED BY <1>6, <2>3, <3>1 DEF Fits, Written, Took, Stopped
  <2>5. ~b3.torn /\ b3.size = n + 1 + a + 1
    <3>1. n + 1 + a + 1 < MAX_REPLY
      <4> HIDE DEF n, a, c
      <4> QED BY <2>1, <2>2
    <3> QED BY <1>4, <1>7, <2>4, <3>1 DEF Fits, Written, Took, Stopped
  <2>6. n + 1 + a + 1 + c < MAX_REPLY
    <3> HIDE DEF n, a, c
    <3> QED BY <2>1, <2>2
  <2> QED BY <1>8, <2>5, <2>6 DEF Fits, Stopped
<1> HIDE DEF p1, p2, p3, p4
<1> DEFINE taken == {i \in 1 .. 4 : (i = 1 /\ p1) \/ (i = 2 /\ p2) \/ (i = 3 /\ p3) \/ (i = 4 /\ p4)}
<1>14. (1 \in taken <=> p1) /\ (2 \in taken <=> p2) /\ (3 \in taken <=> p3) /\ (4 \in taken <=> p4)
  OBVIOUS
<1> HIDE DEF taken
<1>15. b4.text = PairLeft(b.text, k, e, v, taken) BY <1>10, <1>14, Zenon DEF PairLeft, Left
<1>16. MayBeTaken(taken, v) /\ (~b4.torn => AllTaken(taken, v))
  BY <1>9, <1>14, Zenon DEF MayBeTaken, AllTaken
<1>17. Ends(b.text, PairLeft(b.text, k, e, v, taken), k, e, v, AllTaken(taken, v))
  BY <1>11, <1>16, PairText, Zenon
<1>18. Ends(b.text, b4.text, k, e, v, ~b4.torn) BY <1>15, <1>16, <1>17, Zenon DEF Ends
<1>19. 2 \notin taken => 3 \notin taken BY <1>9, <1>14
<1>20. Begun(b.text, b4.text, k, e, v) BY <1>11, <1>15, <1>16, <1>19, PairBegins, Zenon
<1> QED BY <1>2, <1>8, <1>12, <1>13, <1>18, <1>20, Zenon

-----------------------------------------------------------------------------
(* The tokens of what was written. *)

Words == Seq(Pieces) \ {<<>>}

\* Pieces without a blank among them.
Solid == Pieces \ {Space}

LEMMA TokensType == ASSUME NEW text \in Seq(Pieces) PROVE Tokens(text) \in Seq(Words)
BY TokensOfType DEF Tokens, Words

\* What a pair leaves has no blank in it.
LEMMA WordsAreSolid ==
  ASSUME NEW k, NEW e, NEW v, IsPair(k, e, v)
  PROVE  WordsOf(k, e, v) \subseteq Seq(Solid) /\ WordsOf(k, e, v) \ {<<>>} \subseteq Words
<1>1. k \in Pieces /\ e \in Pieces /\ v \in Pieces BY DEF IsPair
<1>2. Space.part = "blank" /\ k.part = "key" /\ e.part = "=" /\ v.part = "value"
  BY DEF IsPair, Space, Piece
<1>3. k # Space /\ e # Space /\ v # Space
  <2>1. k.part # Space.part /\ e.part # Space.part /\ v.part # Space.part BY <1>2
  <2> QED BY <2>1, Zenon
<1>4. k \in Solid /\ e \in Solid /\ v \in Solid BY <1>1, <1>3 DEF Solid
<1>5. <<>> \in Seq(Solid) /\ <<k>> \in Seq(Solid) /\ <<e>> \in Seq(Solid) BY <1>4
<1>6. <<k, e>> \in Seq(Solid) /\ <<e, v>> \in Seq(Solid) BY <1>4
<1>7. <<k, e, v>> \in Seq(Solid) BY <1>4
<1>8. WordsOf(k, e, v) \subseteq Seq(Solid) BY <1>5, <1>6, <1>7, Zenon DEF WordsOf
<1>9. WordsOf(k, e, v) \subseteq Seq(Pieces) BY <1>1, WordsType
<1> QED BY <1>8, <1>9, Zenon DEF Words

\* A word behind a blank is the next token.
LEMMA NextToken ==
  ASSUME NEW text \in Seq(Pieces), NEW w \in Seq(Solid)
  PROVE  Tokens(Append(text, Space) \o w) = IF w = <<>> THEN Tokens(text)
                                            ELSE Append(Tokens(text), w)
<1>1. w \in Seq(Pieces)
  <2>1. Solid \subseteq Pieces BY DEF Solid
  <2> QED BY <2>1, SeqMonotone
<1>2. TokensOf(Append(text, Space) \o w, {Space}) = TokensOf(text, {Space}) \o TokensOf(w, {Space})
  <2> DEFINE b == Space
             separators == {b}
  <2>1. b \in Pieces /\ b \in separators BY SpaceType
  <2> HIDE DEF b, separators
  <2>2. TokensOf(Append(text, b) \o w, separators) = TokensOf(text, separators) \o TokensOf(w, separators)
    BY <1>1, <2>1, TokensBehind
  <2> QED BY <2>2 DEF b, separators
<1>3. TokensOf(w, {Space}) = IF w = <<>> THEN <<>> ELSE <<w>> BY TokensOfWord DEF Solid
<1> DEFINE t == Tokens(text)
<1>4. t \in Seq(Words) BY TokensType
<1>5. Tokens(Append(text, Space) \o w) = t \o (IF w = <<>> THEN <<>> ELSE <<w>>)
  BY <1>2, <1>3 DEF Tokens
<1> HIDE DEF t
<1>6. CASE w = <<>>
  <2>1. t \o <<>> = t BY <1>4
  <2> QED BY <1>5, <1>6, <2>1, Zenon DEF t
<1>7. CASE w # <<>>
  <2>1. w \in Words BY <1>1, <1>7 DEF Words
  <2>2. t \o <<w>> = Append(t, w) BY <1>4, <2>1, AppendIs
  <2> QED BY <1>5, <1>7, <2>2, Zenon DEF t
<1> QED BY <1>6, <1>7

\* Texts that begin with some tokens, have further ones of some kind, and some
\* of them for certain.
Telling(lead, W, M) ==
  {b \in Buffers : \E rest \in Seq(W) : /\ Tokens(b.text) = lead \o rest
                                        /\ \A m \in M : \E i \in DOMAIN rest : rest[i] = m}

\* Behind a pair it is the same, with one token more or none.
LEMMA EndsIn ==
  ASSUME NEW text \in Seq(Pieces), NEW after, NEW k, NEW e, NEW v, IsPair(k, e, v), NEW room,
         Ends(text, after, k, e, v, room)
  PROVE  /\ \/ Tokens(after) = Tokens(text)
            \/ \E w \in WordsOf(k, e, v) \ {<<>>} : Tokens(after) = Append(Tokens(text), w)
         /\ room => Tokens(after) = Append(Tokens(text), FullWord(k, e, v))
<1>1. \/ after = text
      \/ \E w \in WordsOf(k, e, v) : after = Append(text, Space) \o w
  BY Zenon DEF Ends
<1>2. ASSUME NEW w \in WordsOf(k, e, v)
      PROVE  Tokens(Append(text, Space) \o w) = IF w = <<>> THEN Tokens(text)
                                                ELSE Append(Tokens(text), w)
  BY WordsAreSolid, NextToken
<1>3. room => Tokens(after) = Append(Tokens(text), FullWord(k, e, v))
  <2>1. FullWord(k, e, v) # <<>> BY DEF FullWord
  <2>2. FullWord(k, e, v) \in WordsOf(k, e, v) BY WordsType DEF IsPair
  <2> QED BY <1>2, <2>1, <2>2, Zenon DEF Ends
<1>4. CASE after = text BY <1>3, <1>4, Zenon
<1>5. ASSUME NEW w \in WordsOf(k, e, v), after = Append(text, Space) \o w
      PROVE  \/ Tokens(after) = Tokens(text)
             \/ \E x \in WordsOf(k, e, v) \ {<<>>} : Tokens(after) = Append(Tokens(text), x)
  BY <1>2, <1>5, Zenon
<1> QED BY <1>1, <1>3, <1>4, <1>5, Zenon

LEMMA TellingOn ==
  ASSUME NEW lead \in Seq(Words), NEW W \in SUBSET Words, NEW M, NEW b \in Telling(lead, W, M),
         NEW out \in Buffers, NEW w \in W, Tokens(out.text) = Append(Tokens(b.text), w)
  PROVE  out \in Telling(lead, W, M) /\ out \in Telling(lead, W, M \cup {w})
<1>1. PICK rest \in Seq(W) : /\ Tokens(b.text) = lead \o rest
                             /\ \A m \in M : \E i \in DOMAIN rest : rest[i] = m
  BY DEF Telling
<1> DEFINE r == Append(rest, w)
<1>2. rest \in Seq(Words) /\ w \in Words BY SeqMonotone
<1>3. lead \o r = Append(lead \o rest, w) BY <1>2, TextFold!ConcatAppend
<1>4. Tokens(out.text) = lead \o r BY <1>1, <1>3, Zenon
<1>5. r \in Seq(W) /\ DOMAIN rest \subseteq DOMAIN r /\ (\A i \in DOMAIN rest : r[i] = rest[i])
      /\ \E i \in DOMAIN r : r[i] = w
  <2>1. r \in Seq(W) /\ Len(r) = Len(rest) + 1 /\ r[Len(r)] = w /\ Len(rest) \in Nat
        /\ (\A i \in 1 .. Len(rest) : r[i] = rest[i])
    OBVIOUS
  <2> HIDE DEF r
  <2>2. DOMAIN r = 1 .. Len(r) /\ DOMAIN rest = 1 .. Len(rest) BY <2>1
  <2>3. Len(r) \in DOMAIN r BY <2>1, <2>2
  <2> QED BY <2>1, <2>2, <2>3
<1> HIDE DEF r
<1>6. \A m \in M \cup {w} : \E i \in DOMAIN r : r[i] = m BY <1>1, <1>5, Zenon
<1> QED BY <1>4, <1>5, <1>6, Zenon DEF Telling

-----------------------------------------------------------------------------
(* What a reader makes of them. *)

\* A nonempty set of places has a last one.
LEMMA LastPlace ==
  ASSUME NEW n \in Nat, NEW S \in SUBSET (1 .. n), S # {}
  PROVE  Max(S) \in S /\ \A y \in S : y <= Max(S)
<1> DEFINE D == {n - y : y \in S}
<1>1. D \in SUBSET Nat /\ D # {}
  <2>1. \A y \in 1 .. n : n - y \in Nat OBVIOUS
  <2>2. D \subseteq Nat BY <2>1
  <2>3. PICK y : y \in S OBVIOUS
  <2>4. n - y \in D BY <2>3
  <2> QED BY <2>2, <2>4, Zenon
<1>2. PICK d \in D : \A y \in D : d <= y BY <1>1, TextFold!LeastElement
<1>3. PICK x \in S : d = n - x BY <1>2
<1>4. \A y \in S : x >= y
  <2> SUFFICES ASSUME NEW y \in S PROVE x >= y
    OBVIOUS
  <2>1. n - x <= n - y BY <1>2, <1>3
  <2> QED BY <2>1
<1>5. Max(S) \in S /\ \A y \in S : Max(S) >= y BY <1>4 DEF Max
<1>6. \A a, b \in 1 .. n : a >= b => b <= a OBVIOUS
<1> QED BY <1>5, <1>6

LEMMA LeastPlace ==
  ASSUME NEW n \in Nat, NEW S \in SUBSET (1 .. n), NEW x \in S, \A y \in S : x <= y
  PROVE  Min(S) = x
<1>1. Min(S) \in S /\ \A y \in S : Min(S) <= y BY DEF Min
<1>2. Min(S) <= x /\ x <= Min(S) /\ Min(S) \in 1 .. n /\ x \in 1 .. n BY <1>1
<1>3. \A a, b \in 1 .. n : a <= b /\ b <= a => a = b OBVIOUS
<1> QED BY <1>2, <1>3, Zenon

\* Each entry of a dict is one of its pairs, and each pair has its entry.
LEMMA DictIs ==
  ASSUME NEW n \in Nat, NEW pairs, DOMAIN pairs \subseteq 1 .. n
  PROVE  /\ \A k \in DOMAIN Dict(pairs) :
              \E i \in DOMAIN pairs : pairs[i].key = k /\ Dict(pairs)[k] = pairs[i].value
         /\ \A i \in DOMAIN pairs : pairs[i].key \in DOMAIN Dict(pairs)
<1> DEFINE keys == {pairs[i].key : i \in DOMAIN pairs}
           At(k) == {i \in DOMAIN pairs : pairs[i].key = k}
<1>1. Dict(pairs) = [k \in keys |-> pairs[Max(At(k))].value] BY DEF Dict
<1>2. ASSUME NEW k \in keys PROVE Max(At(k)) \in DOMAIN pairs /\ pairs[Max(At(k))].key = k
  <2>1. At(k) \in SUBSET (1 .. n) /\ At(k) # {} BY <1>2
  <2>2. Max(At(k)) \in At(k) BY <2>1, LastPlace
  <2> QED BY <2>2
<1> HIDE DEF At
<1> QED BY <1>1, <1>2

\* What stands around the first "=".
LEMMA PairIs ==
  ASSUME NEW w \in Seq(Pieces), NEW at \in 1 .. Len(w), w[at].part = "=",
         \A i \in 1 .. at - 1 : w[i].part # "="
  PROVE  /\ HasEquals(w)
         /\ Pair(w) = [key |-> SubSeq(w, 1, at - 1), value |-> SubSeq(w, at + 1, Len(w))]
<1> DEFINE S == {i \in DOMAIN w : w[i].part = "="}
<1>1. DOMAIN w = 1 .. Len(w) /\ Len(w) \in Nat OBVIOUS
<1>2. at \in S /\ S \in SUBSET (1 .. Len(w)) BY <1>1
<1>3. \A i \in S : at <= i
  <2> SUFFICES ASSUME NEW i \in S, ~(at <= i) PROVE FALSE
    OBVIOUS
  <2>1. i \in 1 .. at - 1 BY <1>1
  <2> QED BY <2>1
<1> HIDE DEF S
<1>4. Min(S) = at BY <1>1, <1>2, <1>3, LeastPlace
<1>5. HasEquals(w) BY <1>1 DEF HasEquals
<1>6. Pair(w) = LET a == Min(S)
                IN [key |-> SubSeq(w, 1, a - 1), value |-> SubSeq(w, a + 1, Len(w))]
  BY DEF Pair, S
<1> QED BY <1>4, <1>5, <1>6

LEMMA EqualsFirst ==
  ASSUME NEW w \in Seq(Pieces), Len(w) > 0, w[1].part = "="
  PROVE  HasEquals(w) /\ Pair(w).key = <<>>
<1>1. 1 \in 1 .. Len(w) /\ \A i \in 1 .. 1 - 1 : w[i].part # "=" OBVIOUS
<1>2. HasEquals(w) /\ Pair(w) = [key |-> SubSeq(w, 1, 1 - 1), value |-> SubSeq(w, 1 + 1, Len(w))]
  BY <1>1, PairIs
<1>3. SubSeq(w, 1, 1 - 1) = <<>> OBVIOUS
<1> QED BY <1>2, <1>3

LEMMA EqualsSecond ==
  ASSUME NEW w \in Seq(Pieces), Len(w) > 1, w[1].part # "=", w[2].part = "="
  PROVE  HasEquals(w) /\ Pair(w) = [key |-> <<w[1]>>, value |-> SubSeq(w, 3, Len(w))]
<1>1. 2 \in 1 .. Len(w) /\ (\A i \in 1 .. 2 - 1 : w[i].part # "=") /\ w # <<>> OBVIOUS
<1>2. HasEquals(w) /\ Pair(w) = [key |-> SubSeq(w, 1, 2 - 1), value |-> SubSeq(w, 2 + 1, Len(w))]
  BY <1>1, PairIs
<1>3. SubSeq(w, 1, 1) = <<w[1]>> BY <1>1, FirstOf
<1>4. 2 - 1 = 1 /\ 2 + 1 = 3 OBVIOUS
<1> QED BY <1>2, <1>3, <1>4

LEMMA PairOfWord ==
  ASSUME NEW k, NEW e, NEW v, IsPair(k, e, v)
  PROVE  /\ ~HasEquals(<<k>>)
         /\ HasEquals(<<e>>) /\ Pair(<<e>>).key = <<>>
         /\ HasEquals(<<e, v>>) /\ Pair(<<e, v>>).key = <<>>
         /\ HasEquals(<<k, e>>) /\ Pair(<<k, e>>) = [key |-> <<k>>, value |-> <<>>]
         /\ HasEquals(<<k, e, v>>) /\ Pair(<<k, e, v>>) = [key |-> <<k>>, value |-> <<v>>]
<1>1. k \in Pieces /\ e \in Pieces /\ v \in Pieces BY DEF IsPair
<1>2. e.part = "=" /\ k.part # "=" BY DEF IsPair
<1>3. ~HasEquals(<<k>>)
  <2>1. DOMAIN <<k>> = {1} /\ <<k>>[1] = k OBVIOUS
  <2> QED BY <1>2, <2>1, Zenon DEF HasEquals
<1>4. HasEquals(<<e>>) /\ Pair(<<e>>).key = <<>>
  <2>1. <<e>> \in Seq(Pieces) /\ Len(<<e>>) > 0 /\ <<e>>[1].part = "=" BY <1>1, <1>2
  <2> QED BY <2>1, EqualsFirst
<1>5. HasEquals(<<e, v>>) /\ Pair(<<e, v>>).key = <<>>
  <2>1. <<e, v>> \in Seq(Pieces) /\ Len(<<e, v>>) > 0 /\ <<e, v>>[1].part = "=" BY <1>1, <1>2
  <2> QED BY <2>1, EqualsFirst
<1>6. HasEquals(<<k, e>>) /\ Pair(<<k, e>>) = [key |-> <<k>>, value |-> <<>>]
  <2> DEFINE w == <<k, e>>
  <2>1. w \in Seq(Pieces) /\ Len(w) = 2 /\ w[1] = k /\ w[2] = e BY <1>1
  <2>2. SubSeq(w, 3, 2) = <<>> OBVIOUS
  <2> HIDE DEF w
  <2>3. HasEquals(w) /\ Pair(w) = [key |-> <<w[1]>>, value |-> SubSeq(w, 3, Len(w))]
    BY <1>2, <2>1, EqualsSecond
  <2> QED BY <2>1, <2>2, <2>3 DEF w
<1>7. HasEquals(<<k, e, v>>) /\ Pair(<<k, e, v>>) = [key |-> <<k>>, value |-> <<v>>]
  <2> DEFINE w == <<k, e, v>>
  <2>1. w \in Seq(Pieces) /\ Len(w) = 3 /\ w[1] = k /\ w[2] = e /\ w[3] = v BY <1>1
  <2> HIDE DEF w
  <2>2. SubSeq(w, 3, 3) = <<v>> BY <2>1, ThirdOf
  <2>3. HasEquals(w) /\ Pair(w) = [key |-> <<w[1]>>, value |-> SubSeq(w, 3, Len(w))]
    <3>1. w[1].part # "=" /\ w[2].part = "=" /\ Len(w) > 1 BY <1>2, <2>1
    <3> QED BY <2>1, <3>1, EqualsSecond
  <2> QED BY <2>1, <2>2, <2>3 DEF w
<1> QED BY <1>3, <1>4, <1>5, <1>6, <1>7

\* A whole pair is read as it was meant, and one in parts never as another.
LEMMA WordReads ==
  ASSUME NEW k, NEW e, NEW v, IsPair(k, e, v)
  PROVE  /\ HasEquals(FullWord(k, e, v))
         /\ Pair(FullWord(k, e, v)) = [key |-> <<k>>, value |-> Text(v)]
         /\ \A w \in WordsOf(k, e, v) \ {<<>>} :
              HasEquals(w) => Pair(w).key = <<>> \/ (Pair(w).key = <<k>> /\ Pair(w).value \in {<<>>, Text(v)})
<1>1. /\ HasEquals(FullWord(k, e, v))
      /\ Pair(FullWord(k, e, v)) = [key |-> <<k>>, value |-> Text(v)]
  <2>1. FullWord(k, e, v) = IF v.size = 0 THEN <<k, e>> ELSE <<k, e, v>> BY Zenon DEF FullWord
  <2>2. Text(v) = IF v.size = 0 THEN <<>> ELSE <<v>> BY Zenon DEF Text
  <2>3. /\ HasEquals(<<k, e>>) /\ Pair(<<k, e>>) = [key |-> <<k>>, value |-> <<>>]
        /\ HasEquals(<<k, e, v>>) /\ Pair(<<k, e, v>>) = [key |-> <<k>>, value |-> <<v>>]
    BY PairOfWord, Zenon
  <2>4. CASE v.size = 0
    <3>1. FullWord(k, e, v) = <<k, e>> /\ Text(v) = <<>> BY <2>1, <2>2, <2>4
    <3> QED BY <2>3, <3>1
  <2>5. CASE v.size # 0
    <3>1. FullWord(k, e, v) = <<k, e, v>> /\ Text(v) = <<v>> BY <2>1, <2>2, <2>5
    <3> QED BY <2>3, <3>1
  <2> QED BY <2>4, <2>5
<1>2. /\ Pair(<<k, e>>).key = <<k>> /\ Pair(<<k, e>>).value = <<>>
      /\ Pair(<<k, e, v>>).key = <<k>> /\ Pair(<<k, e, v>>).value = <<v>>
  <2> DEFINE p == Pair(<<k, e>>)
             q == Pair(<<k, e, v>>)
  <2>1. p = [key |-> <<k>>, value |-> <<>>] /\ q = [key |-> <<k>>, value |-> <<v>>]
    BY PairOfWord, Zenon
  <2> HIDE DEF p, q
  <2>2. p.key = <<k>> /\ p.value = <<>> /\ q.key = <<k>> /\ q.value = <<v>> BY <2>1
  <2> QED BY <2>2 DEF p, q
<1>3. \A w \in WordsOf(k, e, v) \ {<<>>} :
        \/ w = <<k>> \/ w = <<e>> \/ w = <<k, e>> \/ w = <<e, v>>
        \/ v.size # 0 /\ w = <<k, e, v>>
  BY Zenon DEF WordsOf
<1>4. ~HasEquals(<<k>>) /\ Pair(<<e>>).key = <<>> /\ Pair(<<e, v>>).key = <<>> BY PairOfWord, Zenon
<1>5. ASSUME NEW w \in WordsOf(k, e, v) \ {<<>>}, HasEquals(w)
      PROVE  Pair(w).key = <<>> \/ (Pair(w).key = <<k>> /\ Pair(w).value \in {<<>>, Text(v)})
  <2>1. \/ w = <<e>> \/ w = <<e, v>> \/ w = <<k, e>>
        \/ v.size # 0 /\ w = <<k, e, v>>
    BY <1>3, <1>4, <1>5, Zenon
  <2>2. v.size # 0 => Text(v) = <<v>> BY Zenon DEF Text
  <2> QED BY <1>2, <1>4, <2>1, <2>2, Zenon
<1> QED BY <1>1, <1>5, Zenon

\* The dict has an entry for each pair that has a key, and no other.
LEMMA ParseIs ==
  ASSUME NEW rest \in Seq(Words)
  PROVE  LET read == ParseKvPairs(rest)
         IN /\ \A k \in DOMAIN read :
                 \E i \in DOMAIN rest : /\ HasEquals(rest[i]) /\ Pair(rest[i]).key = k /\ k # <<>>
                                        /\ read[k] = Pair(rest[i]).value
            /\ \A i \in DOMAIN rest :
                 HasEquals(rest[i]) /\ Pair(rest[i]).key # <<>> => Pair(rest[i]).key \in DOMAIN read
<1> DEFINE pairs == Pairs(rest)
           named == [i \in {i \in DOMAIN pairs : pairs[i].key # <<>>} |-> pairs[i]]
           read == ParseKvPairs(rest)
<1>1. read = Dict(named) BY DEF ParseKvPairs
<1>2. /\ DOMAIN pairs = {i \in DOMAIN rest : HasEquals(rest[i])}
      /\ \A i \in DOMAIN pairs : pairs[i] = Pair(rest[i])
  BY DEF Pairs
<1> HIDE DEF pairs
<1>3. /\ DOMAIN named = {i \in DOMAIN rest : HasEquals(rest[i]) /\ Pair(rest[i]).key # <<>>}
      /\ \A i \in DOMAIN named : named[i] = Pair(rest[i])
  BY <1>2
<1>4. Len(rest) \in Nat /\ DOMAIN rest = 1 .. Len(rest) OBVIOUS
<1> HIDE DEF named, read
<1>5. DOMAIN named \subseteq 1 .. Len(rest) BY <1>3, <1>4
<1>6. /\ \A k \in DOMAIN read :
           \E i \in DOMAIN named : named[i].key = k /\ read[k] = named[i].value
      /\ \A i \in DOMAIN named : named[i].key \in DOMAIN read
  BY <1>1, <1>4, <1>5, DictIs
<1>7. ASSUME NEW k \in DOMAIN read
      PROVE  \E i \in DOMAIN rest : /\ HasEquals(rest[i]) /\ Pair(rest[i]).key = k /\ k # <<>>
                                    /\ read[k] = Pair(rest[i]).value
  <2>1. PICK i \in DOMAIN named : named[i].key = k /\ read[k] = named[i].value BY <1>6
  <2> QED BY <1>3, <2>1, Zenon
<1>8. ASSUME NEW i \in DOMAIN rest, HasEquals(rest[i]), Pair(rest[i]).key # <<>>
      PROVE  Pair(rest[i]).key \in DOMAIN read
  <2>1. i \in DOMAIN named BY <1>3, <1>8
  <2> QED BY <1>3, <1>6, <2>1, Zenon
<1> QED BY <1>7, <1>8, Zenon DEF read

\* Without its id a line is the body again, or nothing where the body did not fit.
LEMMA LineIs ==
  ASSUME NEW digits \in 0 .. 10, NEW body \in Buffers, Tokens(body.text) # <<>>,
         Tokens(body.text)[1][1].part # "id"
  PROVE  LET line == WritePrefixed(digits, body)
         IN \/ /\ digits # 0 /\ Len(line.text) = 2
               /\ Unnumbered(Tokens(line.text)) = <<>>
            \/ Unnumbered(Tokens(line.text)) = Tokens(body.text)
<1> DEFINE line == WritePrefixed(digits, body)
           id == Piece("id", "request_id", digits + 1)
           head == Put(Holding(id), Space)
           t == Tokens(body.text)
<1>1. id \in Pieces /\ head.text = <<id, Space>> /\ head \in Buffers BY IdHead
<1>2. id.part = "id" /\ id # Space
  <2>1. id.part = "id" /\ Space.part = "blank" BY DEF Piece, Space
  <2> QED BY <2>1
<1>3. body.text \in Seq(Pieces) /\ t \in Seq(Words) BY BufferIs, TokensType
<1> HIDE DEF id
<1>4. CASE digits = 0
  <2>1. line = body BY <1>4 DEF WritePrefixed
  <2>2. Unnumbered(t) = t BY Zenon DEF Unnumbered
  <2> QED BY <2>1, <2>2
<1> DEFINE first == <<id>>
<1>5. first \in Words /\ first \in UnbrokenWords(Pieces, {Space})
  BY <1>1, <1>2 DEF Words, UnbrokenWords
<1>6. <<id, Space>> = Append(first, Space)
  OBVIOUS
<1>7. ASSUME NEW s \in Seq(Pieces) PROVE Unnumbered(Tokens(Append(first, Space) \o s)) = Tokens(s)
  <2> DEFINE u == Tokens(Append(first, Space) \o s)
             v == Tokens(s)
  <2>1. IsFirstToken(first, Space, s, {Space}) BY <1>5, SpaceType, TokensBehindWord
  <2>2. u = <<first>> \o v BY <2>1 DEF IsFirstToken, Tokens
  <2>3. v \in Seq(Words) BY TokensType
  <2>4. first[1] = id OBVIOUS
  <2> HIDE DEF u, v, first
  <2>5. u \in Seq(Words) /\ u[1] = first /\ Tail(u) = v /\ Len(u) = Len(v) + 1
    BY <1>5, <2>2, <2>3, ConcatOne
  <2>6. u # <<>> BY <2>3, <2>5
  <2> QED BY <1>2, <2>4, <2>5, <2>6 DEF Unnumbered, u, v
<1>8. CASE digits # 0 /\ Fits(head, body.size)
  <2>1. line = [head EXCEPT !.text = @ \o body.text, !.size = @ + body.size]
    BY <1>8 DEF WritePrefixed, id
  <2> DEFINE all == head.text \o body.text
             n == head.size + body.size
  <2>2. line = [head EXCEPT !.text = all, !.size = n] BY <2>1
  <2> HIDE DEF all, n
  <2>3. line.text = all
    <3>1. head \in [text : {head.text}, size : {head.size}, torn : {head.torn}] BY <1>1 DEF Buffers
    <3> HIDE DEF head
    <3> QED BY <2>2, <3>1
  <2>4. all = Append(first, Space) \o body.text BY <1>1, <1>6 DEF all
  <2> HIDE DEF line, head, first
  <2>5. Unnumbered(Tokens(line.text)) = t BY <1>3, <1>7, <2>3, <2>4
  <2> QED BY <2>5 DEF line
<1>9. CASE digits # 0 /\ ~Fits(head, body.size)
  <2>1. line = head BY <1>9 DEF WritePrefixed, id
  <2>2. line.text = Append(first, Space) /\ Len(line.text) = 2 BY <1>1, <1>6, <2>1
  <2> DEFINE a == Append(first, Space)
  <2>3. a \in Seq(Pieces)
    <3>1. first \in Seq(Pieces) BY <1>5 DEF Words
    <3> HIDE DEF first
    <3> QED BY <3>1, SpaceType
  <2> HIDE DEF line, first, a
  <2>4. a \o <<>> = a /\ <<>> \in Seq(Pieces) BY <2>3
  <2>5. Tokens(<<>>) = <<>>
    <3>1. <<>> \in Seq(Solid) OBVIOUS
    <3>2. \A w \in Seq(Solid) : TokensOf(w, {Space}) = IF w = <<>> THEN <<>> ELSE <<w>>
      BY TokensOfWord DEF Solid
    <3> QED BY <3>1, <3>2, Zenon DEF Tokens
  <2>6. Unnumbered(Tokens(line.text)) = <<>> BY <1>7, <2>2, <2>4, <2>5 DEF a
  <2> QED BY <1>9, <2>2, <2>6 DEF line
<1> QED BY <1>4, <1>8, <1>9

-----------------------------------------------------------------------------
(* Reports read what was written of their fields. *)

KeyOf(f)    == Piece("key", f.key, KeySize[f.key])
EqualsOf(f) == Piece("=", f.key, 1)
ValueOf(f)  == Piece("value", f.key, f.size)

FieldWords(f) == WordsOf(KeyOf(f), EqualsOf(f), ValueOf(f)) \ {<<>>}
FullOf(f)     == FullWord(KeyOf(f), EqualsOf(f), ValueOf(f))
FieldSize(f)  == 2 + KeySize[f.key] + f.size

LEMMA FieldIs ==
  ASSUME NEW f \in Fields
  PROVE  /\ IsPair(KeyOf(f), EqualsOf(f), ValueOf(f))
         /\ KeyOf(f).size = KeySize[f.key] /\ ValueOf(f).size = f.size
         /\ f.key \in DOMAIN KeySize /\ f.size \in Nat /\ KeySize[f.key] \in Nat
         /\ PiecesOf(f) = <<Space, KeyOf(f), EqualsOf(f), ValueOf(f)>>
<1>1. f.key \in DOMAIN KeySize /\ f.size \in 0 .. MAX_TOKEN - 1 BY DEF Fields
<1>2. f.size \in Nat BY <1>1 DEF MAX_TOKEN
<1>3. KeySize[f.key] \in 1 .. 12 BY <1>1, KeySizes
<1>4. f.key \in Names BY <1>1, Zenon DEF Names
<1>5. KeySize[f.key] \in Nat /\ KeySize[f.key] \in Nat \ {0} BY <1>3
<1>6. /\ KeyOf(f) \in Pieces /\ KeyOf(f).part = "key" /\ KeyOf(f).size = KeySize[f.key]
  BY <1>4, <1>5, PieceType DEF KeyOf
<1>7. /\ EqualsOf(f) \in Pieces /\ EqualsOf(f).part = "=" /\ EqualsOf(f).size = 1
  BY <1>4, PieceType DEF EqualsOf
<1>8. /\ ValueOf(f) \in Pieces /\ ValueOf(f).part = "value" /\ ValueOf(f).size = f.size
  BY <1>2, <1>4, PieceType DEF ValueOf
<1>9. IsPair(KeyOf(f), EqualsOf(f), ValueOf(f)) BY <1>2, <1>5, <1>6, <1>7, <1>8 DEF IsPair
<1>10. PiecesOf(f) = <<Space, KeyOf(f), EqualsOf(f), ValueOf(f)>>
  BY DEF PiecesOf, KeyOf, EqualsOf, ValueOf
<1> QED BY <1>1, <1>2, <1>5, <1>6, <1>8, <1>9, <1>10

\* What either builder does with a field: all of it where there is room.
Adds(b, out, f) ==
  LET room == ~b.torn /\ b.size + FieldSize(f) < MAX_REPLY
  IN /\ out \in Buffers
     /\ Ends(b.text, out.text, KeyOf(f), EqualsOf(f), ValueOf(f), room)
     /\ room => ~out.torn /\ out.size <= b.size + FieldSize(f)

LEMMA SkipFieldAdds ==
  ASSUME NEW b \in Buffers, NEW f \in Fields PROVE Adds(b, SkipField(b, f), f)
<1> DEFINE k == KeyOf(f)
           e == EqualsOf(f)
           v == ValueOf(f)
           out == AppendPieces(AppendOrSkip, b, <<Space, k, e, v>>)
<1>1. SkipField(b, f) = out BY FieldIs DEF SkipField, AppendPieces
<1>2. IsPair(k, e, v) /\ k.size = KeySize[f.key] /\ v.size = f.size
      /\ f.size \in Nat /\ KeySize[f.key] \in Nat
  BY FieldIs
<1> HIDE DEF k, e, v
<1>3. /\ out \in Buffers /\ out.torn = b.torn /\ out.size <= b.size + 2 + k.size + v.size
      /\ Ends(b.text, out.text, k, e, v, b.size + 2 + k.size + v.size < MAX_REPLY)
  BY <1>2, SkipPair
<1> HIDE DEF out
<1>4. b.size + 2 + k.size + v.size = b.size + FieldSize(f)
  <2> DEFINE n == b.size
             a == k.size
             c == v.size
  <2>1. n \in Nat /\ a \in Nat /\ c \in Nat /\ FieldSize(f) = 2 + a + c
    BY <1>2, BufferIs DEF FieldSize
  <2> HIDE DEF n, a, c
  <2>2. n + 2 + a + c = n + FieldSize(f) BY <2>1
  <2> QED BY <2>2 DEF n, a, c
<1>5. Ends(b.text, out.text, k, e, v, ~b.torn /\ b.size + FieldSize(f) < MAX_REPLY)
  BY <1>3, <1>4, Zenon DEF Ends
<1> QED BY <1>1, <1>3, <1>4, <1>5, Zenon DEF Adds, k, e, v

LEMMA StopFieldAdds ==
  ASSUME NEW b \in Buffers, NEW f \in Fields PROVE Adds(b, StopField(b, f), f)
<1> DEFINE k == KeyOf(f)
           e == EqualsOf(f)
           v == ValueOf(f)
           out == AppendPieces(AppendOrStop, b, <<Space, k, e, v>>)
<1>1. StopField(b, f) = out BY FieldIs DEF StopField, AppendPieces
<1>2. IsPair(k, e, v) /\ k.size = KeySize[f.key] /\ v.size = f.size
      /\ f.size \in Nat /\ KeySize[f.key] \in Nat
  BY FieldIs
<1> HIDE DEF k, e, v
<1>3. /\ out \in Buffers /\ Ends(b.text, out.text, k, e, v, ~out.torn)
      /\ ~out.torn => out.size = b.size + 2 + k.size + v.size
      /\ ~b.torn /\ b.size + 2 + k.size + v.size < MAX_REPLY => ~out.torn
  BY <1>2, StopPair
<1> HIDE DEF out
<1>4. b.size + 2 + k.size + v.size = b.size + FieldSize(f) /\ b.size + FieldSize(f) \in Nat
  <2> DEFINE n == b.size
             a == k.size
             c == v.size
  <2>1. n \in Nat /\ a \in Nat /\ c \in Nat /\ FieldSize(f) = 2 + a + c
    BY <1>2, BufferIs DEF FieldSize
  <2> HIDE DEF n, a, c
  <2>2. n + 2 + a + c = n + FieldSize(f) /\ n + FieldSize(f) \in Nat BY <2>1
  <2> QED BY <2>2 DEF n, a, c
<1>5. Ends(b.text, out.text, k, e, v, ~b.torn /\ b.size + FieldSize(f) < MAX_REPLY)
  BY <1>3, <1>4, Zenon DEF Ends
<1>6. ~out.torn => out.size <= b.size + FieldSize(f) BY <1>3, <1>4
<1> QED BY <1>1, <1>3, <1>4, <1>5, <1>6, Zenon DEF Adds, k, e, v

\* A field adds to what is told: something of it, or all where there is room.
LEMMA FieldTold ==
  ASSUME NEW lead \in Seq(Words), NEW W \in SUBSET Words, NEW M, NEW b \in Telling(lead, W, M),
         NEW f \in Fields, NEW out, Adds(b, out, f)
  PROVE  /\ FieldWords(f) \subseteq W => out \in Telling(lead, W, M)
         /\ ~b.torn /\ b.size + FieldSize(f) < MAX_REPLY /\ FullOf(f) \in W =>
              out \in Telling(lead, W, M \cup {FullOf(f)})
<1> DEFINE k == KeyOf(f)
           e == EqualsOf(f)
           v == ValueOf(f)
           room == ~b.torn /\ b.size + FieldSize(f) < MAX_REPLY
<1>1. IsPair(k, e, v) BY FieldIs
<1>2. out \in Buffers /\ Ends(b.text, out.text, k, e, v, room) BY Zenon DEF Adds
<1> HIDE DEF k, e, v, room
<1>3. b \in Buffers /\ b.text \in Seq(Pieces) BY BufferIs DEF Telling
<1>4. /\ \/ Tokens(out.text) = Tokens(b.text)
         \/ \E w \in WordsOf(k, e, v) \ {<<>>} : Tokens(out.text) = Append(Tokens(b.text), w)
      /\ room => Tokens(out.text) = Append(Tokens(b.text), FullWord(k, e, v))
  BY <1>1, <1>2, <1>3, EndsIn
<1>5. Tokens(out.text) = Tokens(b.text) => out \in Telling(lead, W, M) BY <1>2, Zenon DEF Telling
<1>6. /\ WordsOf(k, e, v) \ {<<>>} \subseteq W => out \in Telling(lead, W, M)
      /\ room /\ FullWord(k, e, v) \in W => out \in Telling(lead, W, M \cup {FullWord(k, e, v)})
  BY <1>2, <1>4, <1>5, TellingOn
<1> QED BY <1>6, Zenon DEF FieldWords, FullOf, k, e, v, room

AllWords(T) == UNION {FieldWords(f) : f \in T}

LEMMA FieldWordsType ==
  ASSUME NEW f \in Fields
  PROVE  FieldWords(f) \subseteq Words /\ FullOf(f) \in FieldWords(f)
<1> DEFINE k == KeyOf(f)
           e == EqualsOf(f)
           v == ValueOf(f)
<1>1. IsPair(k, e, v) BY FieldIs
<1>2. k \in Pieces /\ e \in Pieces /\ v \in Pieces BY <1>1 DEF IsPair
<1> HIDE DEF k, e, v
<1>3. WordsOf(k, e, v) \ {<<>>} \subseteq Words BY <1>1, WordsAreSolid
<1>4. FullWord(k, e, v) \in WordsOf(k, e, v) BY <1>2, WordsType
<1>5. FullWord(k, e, v) # <<>> BY DEF FullWord
<1> QED BY <1>3, <1>4, <1>5, Zenon DEF FieldWords, FullOf, k, e, v

LEMMA AllWordsType ==
  ASSUME NEW T \in SUBSET Fields
  PROVE  AllWords(T) \in SUBSET Words /\ \A f \in T : f \in Fields /\ FieldWords(f) \subseteq AllWords(T)
BY FieldWordsType DEF AllWords

\* A line begins with a word of one piece.
LEMMA HeadTold ==
  ASSUME NEW head \in Pieces, head # Space, head.size # 0, head.size < MAX_REPLY, NEW W
  PROVE  /\ <<head>> \in Words /\ <<<<head>>>> \in Seq(Words)
         /\ Holding(head) \in Telling(<<<<head>>>>, W, {})
<1> DEFINE h == <<head>>
           lead == <<h>>
<1>1. head \in Solid BY DEF Solid
<1>2. h \in Seq(Solid) /\ h # <<>> /\ h \in Seq(Pieces) BY <1>1
<1>3. Holding(head) \in Buffers /\ Holding(head).text = h BY HoldingType DEF Text
<1>4. Tokens(h) = lead
  <2>1. \A w \in Seq(Solid) : TokensOf(w, {Space}) = IF w = <<>> THEN <<>> ELSE <<w>>
    BY TokensOfWord DEF Solid
  <2> HIDE DEF h
  <2> QED BY <1>2, <2>1, Zenon DEF Tokens
<1>5. h \in Words BY <1>2 DEF Words
<1> HIDE DEF h
<1>6. lead \in Seq(Words) /\ lead \o <<>> = lead BY <1>5
<1>7. <<>> \in Seq(W) OBVIOUS
<1> HIDE DEF lead
<1>8. Holding(head) \in Telling(lead, W, {}) BY <1>3, <1>4, <1>6, <1>7, Zenon DEF Telling
<1> QED BY <1>5, <1>6, <1>8 DEF h, lead

LEMMA TellingLess ==
  ASSUME NEW lead, NEW W, NEW V, W \subseteq V, NEW M, NEW N, N \subseteq M,
         NEW b \in Telling(lead, W, M)
  PROVE  b \in Telling(lead, V, N)
<1>1. Seq(W) \subseteq Seq(V) BY SeqMonotone
<1> QED BY <1>1, Zenon DEF Telling

StatusWord == Piece("key", "status", 6)

LEMMA Heads ==
  /\ StatusWord \in Pieces /\ StatusWord.part = "key" /\ StatusWord # Space
  /\ StatusWord.size = 6
  /\ \A n \in Nodes : DeviceName(n) # Space /\ DeviceName(n).size \in 1 .. MAX_TOKEN - 1
                      /\ DeviceName(n) \in Pieces /\ DeviceName(n).part = "value"
<1>1. StatusWord \in Pieces BY StatusHead DEF StatusWord
<1>2. StatusWord.part = "key" /\ StatusWord.size = 6 BY DEF StatusWord, Piece
<1>3. Space.part = "blank" BY DEF Space, Piece
<1>4. StatusWord # Space BY <1>2, <1>3
<1>5. ASSUME NEW n \in Nodes
      PROVE  DeviceName(n) # Space /\ DeviceName(n).size \in 1 .. MAX_TOKEN - 1
             /\ DeviceName(n) \in Pieces /\ DeviceName(n).part = "value"
  <2>1. DeviceName(n).part = "value" /\ DeviceName(n) \in Pieces
        /\ DeviceName(n).size \in 1 .. MAX_TOKEN - 1
    BY DeviceHead
  <2>2. DeviceName(n) # Space BY <1>3, <2>1
  <2> QED BY <2>1, <2>2
<1> QED BY <1>1, <1>2, <1>4, <1>5

\* Whatever the fields, a report has nothing but words of theirs.
LEMMA StatusTold ==
  ASSUME NEW T \in SUBSET Fields, NEW fields \in Seq(T)
  PROVE  WriteStatus(fields) \in Telling(<<<<StatusWord>>>>, AllWords(T), {})
<1> DEFINE head == Holding(StatusWord)
           lead == <<<<StatusWord>>>>
           B == Telling(lead, AllWords(T), {})
<1>1. StatusWord.size # 0 /\ StatusWord.size < MAX_REPLY BY Heads DEF MAX_REPLY
<1>2. lead \in Seq(Words) /\ head \in B BY <1>1, Heads, HeadTold
<1> HIDE DEF lead
<1>3. AllWords(T) \in SUBSET Words BY AllWordsType
<1>4. ASSUME NEW b \in B, NEW f \in T PROVE SkipOp(0, b, f) \in B
  <2>1. b \in Buffers /\ f \in Fields /\ FieldWords(f) \subseteq AllWords(T)
    BY AllWordsType DEF Telling
  <2>2. Adds(b, SkipField(b, f), f) BY <2>1, SkipFieldAdds
  <2>3. SkipField(b, f) \in B BY <1>2, <1>3, <2>1, <2>2, FieldTold
  <2> QED BY <2>3 DEF SkipOp
<1> HIDE DEF B, head
<1>5. SkipFold!Folded(0, head, fields) \in B BY <1>2, <1>4, SkipFold!FoldedIn
<1> QED BY <1>5, WriteStatusIs DEF head, B, lead, StatusWord

LEMMA DiscoverTold ==
  ASSUME NEW n \in Nodes, NEW T \in SUBSET Fields, NEW fields \in Seq(T)
  PROVE  WriteDiscover(n, fields) \in Telling(<<<<DeviceName(n)>>>>, AllWords(T), {})
<1> DEFINE head == Holding(DeviceName(n))
           lead == <<<<DeviceName(n)>>>>
           B == Telling(lead, AllWords(T), {})
<1>1. DeviceName(n).size # 0 /\ DeviceName(n).size < MAX_REPLY
  <2>1. \A size \in 1 .. MAX_TOKEN - 1 : size # 0 /\ size < MAX_REPLY BY DEF MAX_TOKEN, MAX_REPLY
  <2> QED BY <2>1, Heads, Zenon
<1>2. lead \in Seq(Words) /\ head \in B BY <1>1, Heads, HeadTold
<1> HIDE DEF lead
<1>3. AllWords(T) \in SUBSET Words BY AllWordsType
<1>4. ASSUME NEW b \in B, NEW f \in T PROVE StopOp(0, b, f) \in B
  <2>1. b \in Buffers /\ f \in Fields /\ FieldWords(f) \subseteq AllWords(T)
    BY AllWordsType DEF Telling
  <2>2. Adds(b, StopField(b, f), f) BY <2>1, StopFieldAdds
  <2>3. StopField(b, f) \in B BY <1>2, <1>3, <2>1, <2>2, FieldTold
  <2> QED BY <2>3 DEF StopOp
<1> HIDE DEF B, head
<1>5. StopFold!Folded(0, head, fields) \in B BY <1>2, <1>4, StopFold!FoldedIn
<1> QED BY <1>5, WriteDiscoverIs DEF head, B, lead

\* What the reader of a report gets are the words behind the first, or nothing.
ReadFrom(digits, body, W, M) ==
  \E rest \in Seq(W) :
    /\ ParseReport(WritePrefixed(digits, body).text) = ParseKvPairs(rest)
    /\ digits = 0 => \A m \in M : \E i \in DOMAIN rest : rest[i] = m

LEMMA ReportReads ==
  ASSUME NEW h, <<h>> \in Words, h.part # "id", NEW W \in SUBSET Words, NEW M,
         NEW body \in Telling(<<<<h>>>>, W, M), NEW digits \in 0 .. 10
  PROVE  ReadFrom(digits, body, W, M)
<1> SUFFICES \E rest \in Seq(W) :
               /\ ParseReport(WritePrefixed(digits, body).text) = ParseKvPairs(rest)
               /\ digits = 0 => \A m \in M : \E i \in DOMAIN rest : rest[i] = m
  BY Zenon DEF ReadFrom
<1> DEFINE word == <<h>>
           lead == <<word>>
           text == WritePrefixed(digits, body).text
           t == Tokens(body.text)
           u == Unnumbered(Tokens(text))
<1>1. body \in Buffers BY DEF Telling
<1>2. PICK rest \in Seq(W) : t = lead \o rest /\ \A m \in M : \E i \in DOMAIN rest : rest[i] = m
  BY DEF Telling
<1>3. rest \in Seq(Words) BY SeqMonotone
<1>4. word[1] = h OBVIOUS
<1> HIDE DEF t, word
<1>5. word \in Words BY DEF word
<1>6. t[1] = word /\ Tail(t) = rest /\ Len(t) = Len(rest) + 1 /\ t \in Seq(Words)
  BY <1>2, <1>3, <1>5, ConcatOne
<1>7. t # <<>> BY <1>3, <1>6
<1>8. t[1][1].part # "id" BY <1>4, <1>6
<1>9. (digits # 0 /\ u = <<>>) \/ u = t BY <1>1, <1>7, <1>8, LineIs DEF t
<1>10. ParseReport(text) = ParseKvPairs(IF u = <<>> THEN <<>> ELSE Tail(u)) BY DEF ParseReport
<1> HIDE DEF text, u
<1>11. CASE u = t
  <2>1. ParseReport(text) = ParseKvPairs(rest) BY <1>6, <1>7, <1>10, <1>11
  <2> QED BY <1>2, <2>1 DEF text
<1>12. CASE digits # 0 /\ u = <<>>
  <2>1. <<>> \in Seq(W) /\ ParseReport(text) = ParseKvPairs(<<>>) BY <1>10, <1>12
  <2> QED BY <1>12, <2>1 DEF text
<1> QED BY <1>9, <1>11, <1>12

\* What a word of a field says under a key is the field's value or nothing.
LEMMA FieldReads ==
  ASSUME NEW f \in Fields
  PROVE  /\ KeyText(f.key) = <<KeyOf(f)>>
         /\ HasEquals(FullOf(f))
         /\ Pair(FullOf(f)) = [key |-> KeyText(f.key), value |-> Text(ValueOf(f))]
         /\ \A w \in FieldWords(f) :
              HasEquals(w) => \/ Pair(w).key = <<>>
                              \/ /\ Pair(w).key = KeyText(f.key)
                                 /\ Pair(w).value \in {<<>>, Text(ValueOf(f))}
<1>1. KeyText(f.key) = <<KeyOf(f)>> BY DEF KeyText, KeyOf
<1>2. IsPair(KeyOf(f), EqualsOf(f), ValueOf(f)) BY FieldIs
<1> DEFINE k == KeyOf(f)
           e == EqualsOf(f)
           v == ValueOf(f)
<1>3. FullOf(f) = FullWord(k, e, v) /\ FieldWords(f) = WordsOf(k, e, v) \ {<<>>}
  BY DEF FullOf, FieldWords
<1> HIDE DEF k, e, v
<1>4. /\ HasEquals(FullWord(k, e, v))
      /\ Pair(FullWord(k, e, v)) = [key |-> <<k>>, value |-> Text(v)]
      /\ \A w \in WordsOf(k, e, v) \ {<<>>} :
           HasEquals(w) => Pair(w).key = <<>> \/ (Pair(w).key = <<k>> /\ Pair(w).value \in {<<>>, Text(v)})
  BY <1>2, WordReads DEF k, e, v
<1> QED BY <1>1, <1>3, <1>4, Zenon DEF k, v

\* In a report nothing is made up, also where its buffer ends in the middle of a
\* field: what the host reads under a key is what the node wrote for it.
THEOREM NothingIsMadeUp == CoreSpec => []NothingMadeUp
<1>1. ASSUME CoreInv PROVE NothingMadeUp
  <2> SUFFICES ASSUME answer.asked \in {"status", "discovery"},
                      NEW k \in DOMAIN ParseReport(answer.line.text)
               PROVE  \E key \in DOMAIN KeySize :
                        /\ k = KeyText(key)
                        /\ \/ ParseReport(answer.line.text)[k] = <<>>
                           \/ Reads(ParseReport(answer.line.text), key)
    BY Zenon DEF NothingMadeUp
  <2>1. /\ answer.line = WritePrefixed(answer.digits, answer.body) /\ answer.digits \in 0 .. 10
        /\ answer.asked = "status" => answer.body = WriteStatus(StatusFields(node, uptime, reading))
        /\ answer.asked = "discovery" => answer.body = WriteDiscover(node, DiscoverFields(node, uptime))
        /\ node \in Nodes /\ uptime \in Nat /\ reading \in Readings
    BY <1>1, UptimeIsNat DEF CoreInv, AnswerIs, HostIs
  <2> DEFINE T == TrueOf(node, uptime, reading)
             W == AllWords(T)
  <2>2. T \in SUBSET Fields BY DEF TrueOf
  <2>3. PICK h \in {StatusWord, DeviceName(node)} :
          answer.body \in Telling(<<<<h>>>>, W, {})
    <3>1. answer.asked = "status" => answer.body \in Telling(<<<<StatusWord>>>>, W, {})
      BY <2>1, <2>2, StatusIsTrue, StatusTold
    <3>2. answer.asked = "discovery" =>
            answer.body \in Telling(<<<<DeviceName(node)>>>>, W, {})
      BY <2>1, <2>2, DiscoverIsTrue, DiscoverTold
    <3> QED BY <3>1, <3>2, Zenon
  <2>4. h \in Pieces /\ h.part # "id" BY <2>1, Heads
  <2>5. <<h>> \in Words BY <2>4 DEF Words
  <2>6. W \in SUBSET Words BY <2>2, AllWordsType
  <2> DEFINE read == ParseReport(answer.line.text)
  <2>7. PICK rest \in Seq(W) : read = ParseKvPairs(rest)
    <3> DEFINE digits == answer.digits
               body == answer.body
    <3>1. body \in Telling(<<<<h>>>>, W, {}) /\ digits \in 0 .. 10 BY <2>1, <2>3
    <3> HIDE DEF digits, body
    <3>2. ReadFrom(digits, body, W, {}) BY <2>4, <2>5, <2>6, <3>1, ReportReads
    <3> QED BY <2>1, <3>2, Zenon DEF ReadFrom, digits, body
  <2>8. rest \in Seq(Words) BY <2>6, SeqMonotone
  <2>9. k \in DOMAIN ParseKvPairs(rest) BY <2>7
  <2> HIDE DEF read
  <2>10. PICK i \in DOMAIN rest : /\ HasEquals(rest[i]) /\ Pair(rest[i]).key = k /\ k # <<>>
                                  /\ ParseKvPairs(rest)[k] = Pair(rest[i]).value
    BY <2>8, <2>9, ParseIs
  <2>11. rest[i] \in W BY <2>10
  <2>12. PICK f \in T : rest[i] \in FieldWords(f) BY <2>11 DEF AllWords
  <2>13. k = KeyText(f.key) /\ read[k] \in {<<>>, Text(ValueOf(f))}
    BY <2>7, <2>10, <2>12, <2>2, FieldReads, Zenon
  <2>14. f.key \in DOMAIN KeySize /\ f.size \in Nat /\ f.size = Kept(Says(node, uptime, reading)[f.key])
    BY <2>2, FieldIs DEF TrueOf
  <2>15. read[k] = Text(ValueOf(f)) => Reads(read, f.key)
    <3>1. ValueOf(f) = Piece("value", f.key, Kept(Says(node, uptime, reading)[f.key]))
      BY <2>14, Zenon DEF ValueOf
    <3>2. k \in DOMAIN read BY DEF read
    <3> QED BY <2>13, <3>1, <3>2, Zenon DEF Reads
  <2> QED BY <2>13, <2>14, <2>15, Zenon DEF read
<1> QED BY <1>1, CoreInvariant, PTL

-----------------------------------------------------------------------------
(* Reports say who answers. *)

\* The fields that a report begins with.
NameRec(n)   == Rec("name", n.name)
IdRec(n)     == Rec("id", AtMost(n.hex, 8))
FullIdRec(n) == Rec("id_full", n.hex)
FwRec(n)     == Rec("fw", n.fw)
VersionRec   == Rec("v", 3)

LEMMA Recs ==
  ASSUME NEW n \in Nodes
  PROVE  /\ NameRec(n) \in Others
         /\ {IdRec(n), FullIdRec(n), FwRec(n), VersionRec} \subseteq Fields
         /\ IdRec(n).key = "id" /\ FullIdRec(n).key = "id_full"
         /\ FwRec(n).key = "fw" /\ VersionRec.key = "v"
         /\ IdRec(n).size = Kept(AtMost(n.hex, 8)) /\ FullIdRec(n).size = Kept(n.hex)
         /\ FwRec(n).size = Kept(n.fw) /\ VersionRec.size = Kept(3)
         /\ FieldSize(NameRec(n)) = Takes("name", n.name)
         /\ FieldSize(IdRec(n)) = Takes("id", AtMost(n.hex, 8))
         /\ FieldSize(FullIdRec(n)) = Takes("id_full", n.hex)
         /\ FieldSize(FwRec(n)) = Takes("fw", n.fw)
         /\ FieldSize(VersionRec) = Takes("v", 3)
         /\ Field("name", n.name) = <<NameRec(n)>>
         /\ ShortIdField(n) = IF n.hex > 0 THEN <<IdRec(n)>> ELSE <<>>
         /\ FieldIf(n.hex > 0, "id_full", n.hex) = IF n.hex > 0 THEN <<FullIdRec(n)>> ELSE <<>>
         /\ Field("fw", n.fw) = <<FwRec(n)>>
         /\ VersionField = <<VersionRec>>
<1>1. n.name \in Nat /\ n.hex \in Nat /\ n.fw \in Nat /\ AtMost(n.hex, 8) \in Nat /\ 3 \in Nat
  <2>1. n.hex \in Nat BY NodeIs
  <2>2. AtMost(n.hex, 8) \in Nat BY <2>1 DEF AtMost
  <2> QED BY <2>2, NodeIs
<1>2. /\ "name" \in DOMAIN KeySize /\ "name" \notin Ids
      /\ {"id", "id_full", "fw", "v"} \subseteq DOMAIN KeySize
  BY DEF KeySize, Ids
<1>3. /\ NameRec(n) \in Fields /\ NameRec(n).key = "name" /\ NameRec(n).size = Kept(n.name)
      /\ Field("name", n.name) = <<NameRec(n)>>
  BY <1>1, <1>2, RecType DEF NameRec
<1>4. /\ IdRec(n) \in Fields /\ IdRec(n).key = "id" /\ IdRec(n).size = Kept(AtMost(n.hex, 8))
      /\ Field("id", AtMost(n.hex, 8)) = <<IdRec(n)>>
  BY <1>1, <1>2, RecType DEF IdRec
<1>5. /\ FullIdRec(n) \in Fields /\ FullIdRec(n).key = "id_full" /\ FullIdRec(n).size = Kept(n.hex)
      /\ Field("id_full", n.hex) = <<FullIdRec(n)>>
  BY <1>1, <1>2, RecType DEF FullIdRec
<1>6. /\ FwRec(n) \in Fields /\ FwRec(n).key = "fw" /\ FwRec(n).size = Kept(n.fw)
      /\ Field("fw", n.fw) = <<FwRec(n)>>
  BY <1>1, <1>2, RecType DEF FwRec
<1>7. /\ VersionRec \in Fields /\ VersionRec.key = "v" /\ VersionRec.size = Kept(3)
      /\ Field("v", 3) = <<VersionRec>>
  BY <1>1, <1>2, RecType DEF VersionRec
<1>8. NameRec(n) \in Others BY <1>2, <1>3 DEF Others
<1>9. /\ FieldSize(NameRec(n)) = Takes("name", n.name)
      /\ FieldSize(IdRec(n)) = Takes("id", AtMost(n.hex, 8))
      /\ FieldSize(FullIdRec(n)) = Takes("id_full", n.hex)
      /\ FieldSize(FwRec(n)) = Takes("fw", n.fw)
      /\ FieldSize(VersionRec) = Takes("v", 3)
  BY <1>3, <1>4, <1>5, <1>6, <1>7, Zenon DEF FieldSize, Takes
<1> QED BY <1>3, <1>4, <1>5, <1>6, <1>7, <1>8, <1>9, Zenon DEF FieldIf, ShortIdField, VersionField

\* How much they take at most.
LEMMA TakesIs ==
  ASSUME NEW n \in Nodes
  PROVE  /\ Takes("name", n.name) \in 0 .. 77 /\ Takes("id", AtMost(n.hex, 8)) \in 0 .. 12
         /\ Takes("id_full", n.hex) \in 0 .. 80 /\ Takes("fw", n.fw) \in 0 .. 75
         /\ Takes("v", 3) \in 0 .. 6
<1>1. n.name \in Nat /\ n.hex \in Nat /\ n.fw \in Nat BY NodeIs
<1>2. /\ KeySize["name"] = 4 /\ KeySize["id"] = 2 /\ KeySize["id_full"] = 7
      /\ KeySize["fw"] = 2 /\ KeySize["v"] = 1
  BY DEF KeySize
<1>3. \A size \in Nat : Kept(size) \in 0 .. 71 BY DEF Kept, AtMost, MAX_TOKEN
<1>4. Kept(AtMost(n.hex, 8)) \in 0 .. 8 /\ Kept(3) \in 0 .. 3
  BY <1>1 DEF Kept, AtMost, MAX_TOKEN
<1>5. \A key, size : Takes(key, size) = 2 + KeySize[key] + Kept(size) BY DEF Takes
<1>6. Kept(n.name) \in 0 .. 71 /\ Kept(n.hex) \in 0 .. 71 /\ Kept(n.fw) \in 0 .. 71
  BY <1>1, <1>3
<1> QED BY <1>2, <1>4, <1>5, <1>6

\* Where a reader must find the keys K: the fields of these keys and the words
\* that are in a report when each of them was written whole.
Sure(K, n)      == {f \in {IdRec(n), FullIdRec(n), FwRec(n), VersionRec} : f.key \in K}
Rest(K)         == {f \in Fields : f.key \notin K}
SureWords(K, n) == {FullOf(f) : f \in Sure(K, n)}
GoodWords(K, n) == AllWords(Rest(K)) \cup SureWords(K, n)

\* Reports with the words in M, that still have room behind their first size bytes.
Stage(lead, W, size, M) == {b \in Telling(lead, W, M) : ~b.torn /\ b.size <= size}

LEMMA GoodWordsType ==
  ASSUME NEW K \in SUBSET Ids, NEW n \in Nodes
  PROVE  /\ GoodWords(K, n) \in SUBSET Words
         /\ \A f \in Rest(K) : /\ f \in Fields /\ FieldWords(f) \subseteq GoodWords(K, n)
                               /\ FullOf(f) \in GoodWords(K, n)
         /\ \A f \in Sure(K, n) : f \in Fields /\ FullOf(f) \in GoodWords(K, n)
         /\ \A f \in Others : f \in Rest(K)
<1>1. Rest(K) \in SUBSET Fields BY DEF Rest
<1>2. Sure(K, n) \subseteq Fields BY Recs DEF Sure
<1>3. \A f \in Fields : FieldWords(f) \subseteq Words /\ FullOf(f) \in FieldWords(f)
  BY FieldWordsType
<1>4. AllWords(Rest(K)) \in SUBSET Words /\ \A f \in Rest(K) : FieldWords(f) \subseteq AllWords(Rest(K))
  BY <1>1, AllWordsType
<1>5. \A f \in Sure(K, n) : FullOf(f) \in SureWords(K, n) BY DEF SureWords
<1>6. \A w \in SureWords(K, n) : w \in Words BY <1>2, <1>3 DEF SureWords
<1>7. \A f \in Others : f \in Rest(K) BY DEF Others, Rest
<1> QED BY <1>1, <1>2, <1>3, <1>4, <1>5, <1>6, <1>7 DEF GoodWords

LEMMA StageLess ==
  ASSUME NEW lead, NEW W, NEW n \in Nat, NEW M, NEW b \in Stage(lead, W, n, M),
         NEW m \in Nat, n <= m
  PROVE  b \in Stage(lead, W, m, M)
<1>1. b \in Telling(lead, W, M) /\ ~b.torn /\ b.size <= n BY DEF Stage
<1>2. b.size \in Nat BY <1>1, BufferIs DEF Telling
<1>3. b.size <= m BY <1>1, <1>2
<1> QED BY <1>1, <1>3 DEF Stage

\* Either report.
Report(asked, n, fields) ==
  IF asked = "status" THEN WriteStatus(fields) ELSE WriteDiscover(n, fields)

LEMMA ReportOn ==
  ASSUME NEW asked, NEW n \in Nodes, NEW X \in Seq(Fields), NEW f \in Fields
  PROVE  /\ Report(asked, n, X \o <<f>>) \in Buffers /\ Report(asked, n, X) \in Buffers
         /\ Adds(Report(asked, n, X), Report(asked, n, X \o <<f>>), f)
<1>1. X \o <<f>> = Append(X, f) /\ Append(X, f) \in Seq(Fields) BY AppendIs
<1>2. /\ WriteStatus(X) \in Buffers /\ WriteDiscover(n, X) \in Buffers
      /\ WriteStatus(X \o <<f>>) \in Buffers /\ WriteDiscover(n, X \o <<f>>) \in Buffers
  BY <1>1, WriteStatusType, WriteDiscoverType
<1>3. WriteStatus(X \o <<f>>) = SkipField(WriteStatus(X), f)
  <2> DEFINE head == Holding(Piece("key", "status", 6))
  <2>1. SkipFold!Folded(0, head, Append(X, f)) = SkipOp(0, SkipFold!Folded(0, head, X), f)
    BY SkipFold!FoldedAppend
  <2> QED BY <1>1, <2>1, WriteStatusIs DEF SkipOp
<1>4. WriteDiscover(n, X \o <<f>>) = StopField(WriteDiscover(n, X), f)
  <2> DEFINE head == Holding(DeviceName(n))
  <2>1. StopFold!Folded(0, head, Append(X, f)) = StopOp(0, StopFold!Folded(0, head, X), f)
    BY StopFold!FoldedAppend
  <2> QED BY <1>1, <2>1, WriteDiscoverIs DEF StopOp
<1>5. Adds(WriteStatus(X), WriteStatus(X \o <<f>>), f) BY <1>2, <1>3, SkipFieldAdds
<1>6. Adds(WriteDiscover(n, X), WriteDiscover(n, X \o <<f>>), f) BY <1>2, <1>4, StopFieldAdds
<1> QED BY <1>2, <1>5, <1>6, Zenon DEF Report

\* Another field, where there is room for it.
LEMMA StageOn ==
  ASSUME NEW lead \in Seq(Words), NEW W \in SUBSET Words, NEW asked, NEW n \in Nodes,
         NEW X \in Seq(Fields), NEW f \in Fields, FullOf(f) \in W, NEW M, NEW size \in Nat,
         Report(asked, n, X) \in Stage(lead, W, size, M),
         size + FieldSize(f) < MAX_REPLY
  PROVE  /\ Report(asked, n, X \o <<f>>) \in Stage(lead, W, size + FieldSize(f), M \cup {FullOf(f)})
         /\ X \o <<f>> \in Seq(Fields)
<1> DEFINE b == Report(asked, n, X)
           out == Report(asked, n, X \o <<f>>)
<1>1. Adds(b, out, f) BY ReportOn
<1>2. X \o <<f>> \in Seq(Fields) OBVIOUS
<1> HIDE DEF b, out
<1>3. b \in Telling(lead, W, M) /\ ~b.torn /\ b.size <= size BY DEF Stage, b
<1>4. b.size \in Nat BY <1>3, BufferIs DEF Telling
<1>5. FieldSize(f) \in Nat BY FieldIs DEF FieldSize
<1>6. b.size + FieldSize(f) < MAX_REPLY BY <1>3, <1>4, <1>5 DEF MAX_REPLY
<1>7. out \in Telling(lead, W, M \cup {FullOf(f)}) BY <1>1, <1>3, <1>6, FieldTold
<1>8. out \in Buffers /\ ~out.torn /\ out.size <= b.size + FieldSize(f)
  BY <1>1, <1>3, <1>6, Zenon DEF Adds
<1>9. out.size \in Nat BY <1>8, BufferIs
<1>10. out.size <= size + FieldSize(f) BY <1>3, <1>4, <1>5, <1>8, <1>9
<1> QED BY <1>2, <1>7, <1>8, <1>10 DEF Stage, out

\* Fields that come behind take nothing away.
LEMMA ReportRest ==
  ASSUME NEW lead \in Seq(Words), NEW W \in SUBSET Words, NEW F \in SUBSET Fields,
         \A f \in F : FieldWords(f) \subseteq W,
         NEW asked, NEW n \in Nodes, NEW X \in Seq(Fields), NEW Y \in Seq(F), NEW M,
         Report(asked, n, X) \in Telling(lead, W, M)
  PROVE  Report(asked, n, X \o Y) \in Telling(lead, W, M) /\ X \o Y \in Seq(Fields)
<1> DEFINE T == Telling(lead, W, M)
           skips == Holding(Piece("key", "status", 6))
           stops == Holding(DeviceName(n))
<1>1. ASSUME NEW b \in T, NEW f \in F PROVE SkipOp(0, b, f) \in T /\ StopOp(0, b, f) \in T
  <2>1. f \in Fields /\ FieldWords(f) \subseteq W OBVIOUS
  <2>2. b \in Buffers BY DEF Telling
  <2>3. Adds(b, SkipField(b, f), f) /\ Adds(b, StopField(b, f), f)
    BY <2>1, <2>2, SkipFieldAdds, StopFieldAdds
  <2>4. SkipField(b, f) \in T /\ StopField(b, f) \in T BY <2>1, <2>3, FieldTold
  <2> QED BY <2>4 DEF SkipOp, StopOp
<1>2. Y \in Seq(Fields) /\ X \o Y \in Seq(Fields)
  <2>1. Y \in Seq(Fields) BY SeqMonotone
  <2> QED BY <2>1, ConcatType
<1>3. Report(asked, n, X) \in T OBVIOUS
<1> HIDE DEF T
<1>4. ASSUME asked = "status" PROVE Report(asked, n, X \o Y) \in T
  <2> DEFINE b == WriteStatus(X)
  <2>1. b \in T BY <1>3, <1>4 DEF Report
  <2>2. SkipFold!Folded(0, skips, X \o Y) = SkipFold!Folded(0, SkipFold!Folded(0, skips, X), Y)
    BY <1>2, SkipFold!FoldedConcat
  <2>3. WriteStatus(X \o Y) = SkipFold!Folded(0, b, Y) BY <2>2, WriteStatusIs
  <2> HIDE DEF b
  <2>4. SkipFold!Folded(0, b, Y) \in T BY <1>1, <2>1, SkipFold!FoldedIn
  <2> QED BY <1>4, <2>3, <2>4 DEF Report
<1>5. ASSUME asked # "status" PROVE Report(asked, n, X \o Y) \in T
  <2> DEFINE b == WriteDiscover(n, X)
  <2>1. b \in T BY <1>3, <1>5 DEF Report
  <2>2. StopFold!Folded(0, stops, X \o Y) = StopFold!Folded(0, StopFold!Folded(0, stops, X), Y)
    BY <1>2, StopFold!FoldedConcat
  <2>3. WriteDiscover(n, X \o Y) = StopFold!Folded(0, b, Y) BY <2>2, WriteDiscoverIs
  <2> HIDE DEF b
  <2>4. StopFold!Folded(0, b, Y) \in T BY <1>1, <2>1, StopFold!FoldedIn
  <2> QED BY <1>5, <2>3, <2>4 DEF Report
<1> QED BY <1>2, <1>4, <1>5 DEF T

LEMMA MoreFields ==
  ASSUME NEW n \in Nodes, NEW up \in Nat
  PROVE  /\ TagField(n) \in Seq(Others) /\ UpField(n, up) \in Seq(Others)
         /\ FieldIf(n.transport > 0, "transport", n.transport) \in Seq(Others)
         /\ CapsField(n) \in Seq(Others)
         /\ \A r \in Readings : FieldIf(n.clock, "rssi", r.rssi) \in Seq(Others)
<1>1. {"tag", "up", "rssi", "transport", "caps"} \subseteq DOMAIN KeySize \ Ids BY DEF KeySize, Ids
<1>2. UptimeSize(up) \in Nat BY UptimeSizeType
<1>3. n.tag \in Nat /\ n.transport \in Nat BY NodeIs
<1>4. TagField(n) \in Seq(Others) BY <1>1, <1>3, OtherField DEF TagField
<1>5. UpField(n, up) \in Seq(Others) BY <1>1, <1>2, OtherField DEF UpField
<1>6. FieldIf(n.transport > 0, "transport", n.transport) \in Seq(Others)
  BY <1>1, <1>3, OtherField
<1>7. CapsField(n) \in Seq(Others)
  <2> DEFINE size == IF n.caps = <<>> THEN 0 ELSE CsvSize(n.caps)
  <2>1. size \in Nat BY CsvSizeType
  <2>2. CapsField(n) = FieldIf(size > 0, "caps", size) BY DEF CapsField
  <2> HIDE DEF size
  <2> QED BY <1>1, <2>1, <2>2, OtherField
<1>8. \A r \in Readings : FieldIf(n.clock, "rssi", r.rssi) \in Seq(Others)
  BY <1>1, ReadingIs, OtherField
<1> QED BY <1>4, <1>5, <1>6, <1>7, <1>8

\* The keys that a status and a discovery must have of the node.
StatusKeys(n) == (IF n.hex > 0 THEN {"id", "id_full"} ELSE {})
                   \cup (IF StatusHasRoom(n) THEN {"fw", "v"} ELSE {})
DiscoveryKeys(n) == (IF n.hex > 0 THEN {"id"} ELSE {}) \cup {"fw", "v"}

LEMMA SureIs ==
  ASSUME NEW K, NEW n \in Nodes
  PROVE  /\ "id" \in K => IdRec(n) \in Sure(K, n)
         /\ "id_full" \in K => FullIdRec(n) \in Sure(K, n)
         /\ "fw" \in K => FwRec(n) \in Sure(K, n)
         /\ "v" \in K => VersionRec \in Sure(K, n)
         /\ "fw" \notin K => FwRec(n) \in Rest(K)
         /\ "v" \notin K => VersionRec \in Rest(K)
         /\ \A f \in Sure(K, n) : \/ "id" \in K /\ f = IdRec(n)
                                  \/ "id_full" \in K /\ f = FullIdRec(n)
                                  \/ "fw" \in K /\ f = FwRec(n)
                                  \/ "v" \in K /\ f = VersionRec
<1>1. /\ {IdRec(n), FullIdRec(n), FwRec(n), VersionRec} \subseteq Fields
      /\ IdRec(n).key = "id" /\ FullIdRec(n).key = "id_full"
      /\ FwRec(n).key = "fw" /\ VersionRec.key = "v"
  BY Recs
<1> QED BY <1>1, Zenon DEF Sure, Rest

\* What is written whole of a status: the id in both its forms, and the firmware
\* and the version where there is room for them.
LEMMA StatusBegins ==
  ASSUME NEW n \in Nodes
  PROVE  LET K == StatusKeys(n)
             x3 == <<NameRec(n)>> \o ShortIdField(n) \o FieldIf(n.hex > 0, "id_full", n.hex)
             x5 == x3 \o <<FwRec(n)>> \o <<VersionRec>>
         IN /\ x5 \in Seq(Fields)
            /\ Report("status", n, x5) \in
                 Telling(<<<<StatusWord>>>>, GoodWords(K, n), SureWords(K, n))
<1> DEFINE K == StatusKeys(n)
           W == GoodWords(K, n)
           lead == <<<<StatusWord>>>>
           name == NameRec(n)
           id == IdRec(n)
           full == FullIdRec(n)
           fw == FwRec(n)
           v == VersionRec
           x1 == <<name>>
           x2 == x1 \o ShortIdField(n)
           x3 == x2 \o FieldIf(n.hex > 0, "id_full", n.hex)
           x4 == x3 \o <<fw>>
           x5 == x4 \o <<v>>
<1>1. K \in SUBSET Ids BY DEF StatusKeys, Ids
<1>2. /\ "id" \in K <=> n.hex > 0
      /\ "id_full" \in K <=> n.hex > 0
      /\ "fw" \in K <=> StatusHasRoom(n)
      /\ "v" \in K <=> StatusHasRoom(n)
  BY DEF StatusKeys
<1> HIDE DEF K
<1>3. /\ W \in SUBSET Words
      /\ \A f \in Rest(K) : f \in Fields /\ FieldWords(f) \subseteq W /\ FullOf(f) \in W
      /\ \A f \in Sure(K, n) : f \in Fields /\ FullOf(f) \in W
      /\ name \in Rest(K)
  BY <1>1, GoodWordsType, Recs
<1> HIDE DEF W
<1>4. /\ FieldSize(name) = Takes("name", n.name) /\ FieldSize(id) = Takes("id", AtMost(n.hex, 8))
      /\ FieldSize(full) = Takes("id_full", n.hex) /\ FieldSize(fw) = Takes("fw", n.fw)
      /\ FieldSize(v) = Takes("v", 3)
  BY Recs
<1>5. /\ FieldSize(name) \in 0 .. 77 /\ FieldSize(id) \in 0 .. 12 /\ FieldSize(full) \in 0 .. 80
      /\ FieldSize(fw) \in 0 .. 75 /\ FieldSize(v) \in 0 .. 6
  BY <1>4, TakesIs
<1>6. Report("status", n, <<>>) \in Stage(lead, W, 6, {}) /\ lead \in Seq(Words)
  <2> DEFINE b == Holding(StatusWord)
  <2>1. StatusWord.size # 0 /\ StatusWord.size < MAX_REPLY /\ StatusWord \in Pieces
        /\ StatusWord # Space
    BY Heads DEF MAX_REPLY
  <2>2. b \in Telling(lead, W, {}) /\ lead \in Seq(Words) BY <2>1, HeadTold
  <2>3. b.size = 6 /\ b.torn = FALSE BY <2>1, Heads, HoldingType
  <2>4. WriteStatus(<<>>) = b BY WriteStatusIs, SkipFold!FoldedEmpty DEF StatusWord
  <2> HIDE DEF b, lead
  <2>5. b \in Stage(lead, W, 6, {}) BY <2>2, <2>3 DEF Stage
  <2> QED BY <2>2, <2>4, <2>5 DEF Report
<1> HIDE DEF lead
<1> DEFINE s1 == 6 + FieldSize(name)
           s2 == s1 + FieldSize(id)
           s3 == IF n.hex > 0 THEN s2 + FieldSize(full) ELSE s1
           s4 == s3 + FieldSize(fw)
           s5 == s4 + FieldSize(v)
           m3 == IF n.hex > 0 THEN {FullOf(id)} \cup {FullOf(full)} ELSE {}
<1>7. /\ s1 \in Nat /\ s2 \in Nat /\ s3 \in Nat /\ s4 \in Nat /\ s5 \in Nat
      /\ s1 < MAX_REPLY /\ s2 < MAX_REPLY /\ s2 + FieldSize(full) < MAX_REPLY
      /\ s4 <= s5
  <2> DEFINE a == FieldSize(name)
             b == FieldSize(id)
             c == FieldSize(full)
             d == FieldSize(fw)
             e == FieldSize(v)
  <2>1. a \in 0 .. 77 /\ b \in 0 .. 12 /\ c \in 0 .. 80 /\ d \in 0 .. 75 /\ e \in 0 .. 6
    BY <1>5
  <2> HIDE DEF a, b, c, d, e
  <2>2. /\ 6 + a \in Nat /\ 6 + a + b \in Nat /\ 6 + a < 192 /\ 6 + a + b < 192
        /\ 6 + a + b + c < 192 /\ 6 + a + b + c \in Nat
    BY <2>1
  <2>3. \A h \in Nat : h + d \in Nat /\ h + d + e \in Nat /\ h + d <= h + d + e
    BY <2>1
  <2>4. s1 \in Nat /\ s2 \in Nat /\ s3 \in Nat BY <2>2 DEF a, b, c
  <2>5. s4 \in Nat /\ s5 \in Nat /\ s4 <= s5
    <3> HIDE DEF s3
    <3> QED BY <2>3, <2>4 DEF d, e
  <2> QED BY <2>2, <2>4, <2>5 DEF MAX_REPLY, a, b, c
<1>8. StatusHasRoom(n) <=> s5 < MAX_REPLY
  <2>1. n.hex \in Nat BY NodeIs
  <2>2. n.hex = 0 <=> ~(n.hex > 0) BY <2>1
  <2> DEFINE a == FieldSize(name)
             b == FieldSize(id)
             c == FieldSize(full)
             d == FieldSize(fw)
             e == FieldSize(v)
             sum == 6 + a + (IF n.hex = 0 THEN 0 ELSE b + c) + d + e
  <2>3. StatusHasRoom(n) <=> sum < MAX_REPLY BY <1>4 DEF StatusHasRoom
  <2>4. a \in Nat /\ b \in Nat /\ c \in Nat /\ d \in Nat /\ e \in Nat BY <1>5
  <2> HIDE DEF a, b, c, d, e
  <2>5. sum = s5 BY <2>2, <2>4 DEF a, b, c, d, e
  <2> QED BY <2>3, <2>5
<1>9. /\ x1 \in Seq(Fields) /\ Report("status", n, x1) \in Stage(lead, W, s1, {})
  <2>1. name \in Fields /\ FullOf(name) \in W /\ FieldWords(name) \subseteq W BY <1>3
  <2> HIDE DEF name, W
  <2>2. <<>> \in Seq(Fields) /\ <<>> \o <<name>> = x1 /\ x1 \in Seq(Fields) BY <2>1
  <2> HIDE DEF x1
  <2>3. 6 \in Nat /\ 6 + FieldSize(name) < MAX_REPLY BY <1>7
  <2>4. Report("status", n, x1) \in Stage(lead, W, 6 + FieldSize(name), {} \cup {FullOf(name)})
    BY <1>3, <1>6, <2>1, <2>2, <2>3, StageOn
  <2>5. {} \subseteq {} \cup {FullOf(name)} OBVIOUS
  <2>6. Report("status", n, x1) \in Telling(lead, W, {})
    <3>1. Report("status", n, x1) \in Telling(lead, W, {} \cup {FullOf(name)})
      BY <2>4 DEF Stage
    <3> QED BY <2>5, <3>1, TellingLess
  <2> QED BY <2>2, <2>4, <2>6 DEF Stage
<1> HIDE DEF x1, s1, name
<1>10. /\ ShortIdField(n) = IF n.hex > 0 THEN <<id>> ELSE <<>>
       /\ FieldIf(n.hex > 0, "id_full", n.hex) = IF n.hex > 0 THEN <<full>> ELSE <<>>
  BY Recs
<1>11. x3 \in Seq(Fields) /\ Report("status", n, x3) \in Stage(lead, W, s3, m3)
  <2>1. CASE n.hex > 0
    <3>1. id \in Sure(K, n) /\ full \in Sure(K, n) BY <1>2, <2>1, SureIs
    <3>2. id \in Fields /\ FullOf(id) \in W /\ full \in Fields /\ FullOf(full) \in W
      BY <1>3, <3>1
    <3>3. x2 = x1 \o <<id>> /\ x3 = x2 \o <<full>> BY <1>10, <2>1
    <3>4. s3 = s2 + FieldSize(full) /\ m3 = ({} \cup {FullOf(id)}) \cup {FullOf(full)} BY <2>1
    <3> HIDE DEF id, full, x2, x3, s3, m3
    <3>5. /\ Report("status", n, x2) \in Stage(lead, W, s2, {} \cup {FullOf(id)})
          /\ x2 \in Seq(Fields)
      BY <1>3, <1>6, <1>7, <1>9, <3>2, <3>3, StageOn
    <3> HIDE DEF s2
    <3>6. /\ Report("status", n, x3) \in Stage(lead, W, s2 + FieldSize(full),
                                               ({} \cup {FullOf(id)}) \cup {FullOf(full)})
          /\ x3 \in Seq(Fields)
      BY <1>3, <1>6, <1>7, <3>2, <3>3, <3>5, StageOn
    <3> QED BY <3>4, <3>6
  <2>2. CASE ~(n.hex > 0)
    <3>1. x1 \o <<>> = x1 BY <1>9
    <3>2. x3 = x1 /\ s3 = s1 /\ m3 = {} BY <1>10, <2>2, <3>1
    <3> QED BY <1>9, <3>2
  <2> QED BY <2>1, <2>2
<1> HIDE DEF x2, x3, s2, s3
<1>12. \A w \in SureWords(K, n) : \/ w \in m3
                                  \/ StatusHasRoom(n) /\ w \in {FullOf(fw), FullOf(v)}
  <2>1. n.hex > 0 => m3 = {FullOf(id)} \cup {FullOf(full)} OBVIOUS
  <2>2. \A f \in Sure(K, n) : \/ n.hex > 0 /\ f = id
                              \/ n.hex > 0 /\ f = full
                              \/ StatusHasRoom(n) /\ f = fw
                              \/ StatusHasRoom(n) /\ f = v
    BY <1>2, SureIs, Zenon
  <2>3. \A w \in SureWords(K, n) : \E f \in Sure(K, n) : w = FullOf(f) BY Zenon DEF SureWords
  <2> HIDE DEF m3, id, full, fw, v
  <2> QED BY <2>1, <2>2, <2>3
<1> HIDE DEF m3
<1>13. CASE StatusHasRoom(n)
  <2>1. fw \in Sure(K, n) /\ v \in Sure(K, n) BY <1>2, <1>13, SureIs
  <2>2. fw \in Fields /\ FullOf(fw) \in W /\ v \in Fields /\ FullOf(v) \in W BY <1>3, <2>1
  <2>3. s4 < MAX_REPLY /\ s5 < MAX_REPLY BY <1>7, <1>8, <1>13 DEF MAX_REPLY
  <2> DEFINE m4 == m3 \cup {FullOf(fw)}
             m5 == m4 \cup {FullOf(v)}
  <2>4. SureWords(K, n) \subseteq m5 BY <1>12
  <2> HIDE DEF fw, v, m4, m5
  <2>5. Report("status", n, x4) \in Stage(lead, W, s4, m4) /\ x4 \in Seq(Fields)
    BY <1>3, <1>6, <1>7, <1>11, <2>2, <2>3, StageOn DEF m4
  <2> HIDE DEF s4, x4
  <2>6. Report("status", n, x5) \in Stage(lead, W, s5, m5) /\ x5 \in Seq(Fields)
    BY <1>3, <1>6, <1>7, <2>2, <2>3, <2>5, StageOn DEF m5
  <2> HIDE DEF x5
  <2>7. Report("status", n, x5) \in Telling(lead, W, m5) BY <2>6 DEF Stage
  <2>8. Report("status", n, x5) \in Telling(lead, W, SureWords(K, n)) BY <2>4, <2>7, TellingLess
  <2> QED BY <2>6, <2>8 DEF x5, x4, x3, x2, x1, lead, W, K, fw, v, name
<1>14. CASE ~StatusHasRoom(n)
  <2>1. fw \in Rest(K) /\ v \in Rest(K) BY <1>2, <1>14, SureIs
  <2>2. SureWords(K, n) \subseteq m3 BY <1>12, <1>14
  <2> HIDE DEF fw, v
  <2>3. <<fw>> \in Seq(Rest(K)) /\ <<v>> \in Seq(Rest(K)) BY <2>1
  <2>4. Rest(K) \in SUBSET Fields /\ \A f \in Rest(K) : FieldWords(f) \subseteq W BY <1>3 DEF Rest
  <2>5. Report("status", n, x3) \in Telling(lead, W, m3) BY <1>11 DEF Stage
  <2>6. Report("status", n, x4) \in Telling(lead, W, m3) /\ x4 \in Seq(Fields)
    BY <1>3, <1>6, <1>11, <2>3, <2>4, <2>5, ReportRest
  <2> HIDE DEF x4
  <2>7. Report("status", n, x5) \in Telling(lead, W, m3) /\ x5 \in Seq(Fields)
    BY <1>3, <1>6, <2>3, <2>4, <2>6, ReportRest
  <2> HIDE DEF x5
  <2>8. Report("status", n, x5) \in Telling(lead, W, SureWords(K, n)) BY <2>2, <2>7, TellingLess
  <2> QED BY <2>7, <2>8 DEF x5, x4, x3, x2, x1, lead, W, K, fw, v, name
<1> QED BY <1>13, <1>14

LEMMA StatusSays ==
  ASSUME NEW n \in Nodes, NEW up \in Nat, NEW r \in Readings
  PROVE  WriteStatus(StatusFields(n, up, r)) \in
           Telling(<<<<StatusWord>>>>, GoodWords(StatusKeys(n), n), SureWords(StatusKeys(n), n))
<1> DEFINE K == StatusKeys(n)
           W == GoodWords(K, n)
           lead == <<<<StatusWord>>>>
           short == ShortIdField(n)
           full == FieldIf(n.hex > 0, "id_full", n.hex)
           x1 == <<NameRec(n)>>
           x2 == x1 \o short
           x3 == x2 \o full
           x4 == x3 \o <<FwRec(n)>>
           x5 == x4 \o <<VersionRec>>
           T == Telling(lead, W, SureWords(K, n))
<1>1. x5 \in Seq(Fields) /\ Report("status", n, x5) \in T BY StatusBegins
<1>2. lead \in Seq(Words)
  <2>1. StatusWord.size # 0 /\ StatusWord.size < MAX_REPLY /\ StatusWord \in Pieces
        /\ StatusWord # Space
    BY Heads DEF MAX_REPLY
  <2> QED BY <2>1, HeadTold
<1>3. K \in SUBSET Ids BY DEF StatusKeys, Ids
<1> HIDE DEF lead, K
<1>4. W \in SUBSET Words /\ Others \in SUBSET Fields /\ \A f \in Others : FieldWords(f) \subseteq W
  BY <1>3, GoodWordsType DEF Others
<1> HIDE DEF W
<1>5. ASSUME NEW X \in Seq(Fields), Report("status", n, X) \in T, NEW Y \in Seq(Others)
      PROVE  X \o Y \in Seq(Fields) /\ Report("status", n, X \o Y) \in T
  BY <1>2, <1>4, <1>5, ReportRest
<1> HIDE DEF T
\* The fields behind them.
<1> DEFINE y1 == TagField(n)
           y2 == UpField(n, up)
           y3 == FieldIf(n.clock, "rssi", r.rssi)
           y4 == FieldIf(n.transport > 0, "transport", n.transport)
           y5 == CapsField(n)
           z1 == x5 \o y1
           z2 == z1 \o y2
           z3 == z2 \o y3
           z4 == z3 \o y4
           all == z4 \o y5
           b == CollectStatus(n, r)
<1>6. FrameworkStatus(n, up, r) = all
  <2>1. Field("name", n.name) = x1 /\ Field("fw", n.fw) = <<FwRec(n)>> /\ VersionField = <<VersionRec>>
    BY Recs
  <2> QED BY <2>1, Zenon DEF FrameworkStatus
<1>7. /\ y1 \in Seq(Others) /\ y2 \in Seq(Others) /\ y3 \in Seq(Others) /\ y4 \in Seq(Others)
      /\ y5 \in Seq(Others) /\ b \in Seq(Others)
  BY MoreFields, CollectStatusType
<1> HIDE DEF x5, y1, y2, y3, y4, y5, b
<1>8. z1 \in Seq(Fields) /\ Report("status", n, z1) \in T BY <1>1, <1>5, <1>7
<1> HIDE DEF z1
<1>9. z2 \in Seq(Fields) /\ Report("status", n, z2) \in T BY <1>5, <1>7, <1>8
<1> HIDE DEF z2
<1>10. z3 \in Seq(Fields) /\ Report("status", n, z3) \in T BY <1>5, <1>7, <1>9
<1> HIDE DEF z3
<1>11. z4 \in Seq(Fields) /\ Report("status", n, z4) \in T BY <1>5, <1>7, <1>10
<1> HIDE DEF z4
<1>12. all \in Seq(Fields) /\ Report("status", n, all) \in T BY <1>5, <1>7, <1>11
<1> HIDE DEF all
<1>13. all \in UpTo(MAX_FIELDS)
  <2>1. all \in Seq(Fields) /\ Len(all) <= 10 BY <1>6, FrameworkStatusType DEF UpTo
  <2>2. Len(all) \in Nat BY <2>1
  <2>3. Len(all) <= MAX_FIELDS BY <2>1, <2>2 DEF MAX_FIELDS
  <2> QED BY <2>1, <2>3 DEF UpTo
<1>14. StatusFields(n, up, r) = Accepted(all \o b) BY <1>6 DEF StatusFields, b
<1>15. PICK c \in Seq(Others) : Accepted(all \o b) = all \o c
  BY <1>4, <1>7, <1>13, AcceptedFirst
<1>16. Report("status", n, all \o c) \in T BY <1>5, <1>12
<1> QED BY <1>14, <1>15, <1>16 DEF Report, T, lead, W, K

LEMMA DiscoverySays ==
  ASSUME NEW n \in Nodes, NEW up \in Nat
  PROVE  WriteDiscover(n, DiscoverFields(n, up)) \in
           Telling(<<<<DeviceName(n)>>>>, GoodWords(DiscoveryKeys(n), n),
                   SureWords(DiscoveryKeys(n), n))
<1> DEFINE K == DiscoveryKeys(n)
           W == GoodWords(K, n)
           lead == <<<<DeviceName(n)>>>>
           id == IdRec(n)
           fw == FwRec(n)
           v == VersionRec
           x1 == ShortIdField(n)
           x2 == x1 \o <<fw>>
           x3 == x2 \o <<v>>
           m1 == IF n.hex > 0 THEN {FullOf(id)} ELSE {}
           m2 == m1 \cup {FullOf(fw)}
           m3 == m2 \cup {FullOf(v)}
<1>1. K \in SUBSET Ids BY DEF DiscoveryKeys, Ids
<1>2. /\ "id" \in K <=> n.hex > 0
      /\ "id_full" \notin K /\ "fw" \in K /\ "v" \in K
  BY DEF DiscoveryKeys
<1> HIDE DEF K
<1>3. /\ W \in SUBSET Words
      /\ \A f \in Others : f \in Fields /\ FieldWords(f) \subseteq W
      /\ \A f \in Sure(K, n) : f \in Fields /\ FullOf(f) \in W
  BY <1>1, GoodWordsType DEF Others
<1> HIDE DEF W
<1>4. /\ fw \in Sure(K, n) /\ v \in Sure(K, n)
      /\ n.hex > 0 => id \in Sure(K, n)
      /\ \A f \in Sure(K, n) : f = fw \/ f = v \/ (n.hex > 0 /\ f = id)
  BY <1>2, SureIs, Zenon
<1>5. /\ fw \in Fields /\ FullOf(fw) \in W /\ v \in Fields /\ FullOf(v) \in W
      /\ n.hex > 0 => id \in Fields /\ FullOf(id) \in W
  BY <1>3, <1>4
<1>6. FieldSize(id) \in 0 .. 12 /\ FieldSize(fw) \in 0 .. 75 /\ FieldSize(v) \in 0 .. 6
  BY Recs, TakesIs
<1>7. SureWords(K, n) \subseteq m3
  <2> SUFFICES ASSUME NEW f \in Sure(K, n) PROVE FullOf(f) \in m3
    BY DEF SureWords
  <2>1. f = fw \/ f = v \/ (n.hex > 0 /\ f = id) BY <1>4
  <2> QED BY <2>1
<1>8. Report("discovery", n, <<>>) \in Stage(lead, W, 71, {}) /\ lead \in Seq(Words)
  <2> DEFINE h == DeviceName(n)
             b == Holding(h)
  <2>1. h.size \in 1 .. 71 BY Heads DEF MAX_TOKEN
  <2>2. h.size # 0 /\ h.size < MAX_REPLY /\ h \in Pieces /\ h # Space
    <3>1. \A k \in 1 .. 71 : k # 0 /\ k < MAX_REPLY BY DEF MAX_REPLY
    <3> QED BY <2>1, <3>1, Heads, Zenon
  <2>3. b \in Telling(lead, W, {}) /\ lead \in Seq(Words) BY <2>2, HeadTold
  <2>4. b.size = h.size /\ b.torn = FALSE BY <2>2, HoldingType
  <2>5. WriteDiscover(n, <<>>) = b BY WriteDiscoverIs, StopFold!FoldedEmpty
  <2> HIDE DEF b, h, lead
  <2>6. b.size <= 71 BY <2>1, <2>4
  <2>7. b \in Stage(lead, W, 71, {}) BY <2>3, <2>4, <2>6 DEF Stage
  <2> QED BY <2>3, <2>5, <2>7 DEF Report
<1> HIDE DEF lead
<1> DEFINE s1 == 71 + FieldSize(id)
           s2 == 83 + FieldSize(fw)
           s3 == s2 + FieldSize(v)
<1>9. /\ s1 \in Nat /\ s1 <= 83 /\ s2 \in Nat /\ s3 \in Nat
      /\ s1 < MAX_REPLY /\ s2 < MAX_REPLY /\ s3 < MAX_REPLY
  BY <1>6 DEF MAX_REPLY
<1>10. x1 = IF n.hex > 0 THEN <<id>> ELSE <<>> BY Recs
<1> HIDE DEF x1
<1>11. Report("discovery", n, x1) \in Stage(lead, W, 83, m1) /\ x1 \in Seq(Fields)
  <2>1. CASE n.hex > 0
    <3>1. x1 = <<id>> /\ m1 = {} \cup {FullOf(id)} BY <1>10, <2>1
    <3>2. id \in Fields /\ FullOf(id) \in W BY <1>5, <2>1
    <3> HIDE DEF id, m1
    <3>3. <<>> \o <<id>> = <<id>> /\ <<id>> \in Seq(Fields) /\ <<>> \in Seq(Fields) BY <3>2
    <3>4. 71 \in Nat /\ 83 \in Nat OBVIOUS
    <3>5. Report("discovery", n, <<>> \o <<id>>) \in Stage(lead, W, 71 + FieldSize(id), {} \cup {FullOf(id)})
      BY <1>8, <1>3, <1>9, <3>2, <3>3, <3>4, StageOn
    <3>6. Report("discovery", n, x1) \in Stage(lead, W, s1, m1) BY <3>1, <3>3, <3>5
    <3> HIDE DEF s1
    <3>7. Report("discovery", n, x1) \in Stage(lead, W, 83, m1) BY <1>9, <3>4, <3>6, StageLess
    <3> QED BY <3>1, <3>3, <3>7
  <2>2. CASE ~(n.hex > 0)
    <3>1. x1 = <<>> /\ m1 = {} /\ <<>> \in Seq(Fields) BY <1>10, <2>2
    <3>2. Report("discovery", n, <<>>) \in Stage(lead, W, 83, {}) BY <1>8, StageLess
    <3> QED BY <3>1, <3>2
  <2> QED BY <2>1, <2>2
<1> HIDE DEF m1, id, fw, v
<1>12. Report("discovery", n, x2) \in Stage(lead, W, s2, m2) /\ x2 \in Seq(Fields)
  <2>1. 83 \in Nat OBVIOUS
  <2> QED BY <1>8, <1>11, <1>3, <1>5, <1>9, <2>1, StageOn
<1> HIDE DEF x2, m2, s2
<1>13. Report("discovery", n, x3) \in Stage(lead, W, s3, m3) /\ x3 \in Seq(Fields)
  BY <1>8, <1>12, <1>3, <1>5, <1>9, StageOn
<1> HIDE DEF x3, m3, s3
<1> DEFINE T == Telling(lead, W, SureWords(K, n))
           y1 == TagField(n)
           y2 == UpField(n, up)
           y3 == CapsField(n)
           z1 == x3 \o y1
           z2 == z1 \o y2
           all == z2 \o y3
           b == CollectDiscover(n)
<1>14. Report("discovery", n, x3) \in T
  <2>1. Report("discovery", n, x3) \in Telling(lead, W, m3) BY <1>13 DEF Stage
  <2> QED BY <1>7, <2>1, TellingLess
<1>15. DiscoverFields(n, up) = Accepted(all \o b)
  <2>1. Field("fw", n.fw) = <<fw>> /\ VersionField = <<v>> BY Recs DEF fw, v
  <2> QED BY <2>1, Zenon DEF DiscoverFields, x3, x2, x1
<1>16. /\ y1 \in Seq(Others) /\ y2 \in Seq(Others) /\ y3 \in Seq(Others) BY MoreFields
<1>17. b \in Seq(Others)
  <2>1. Extras \subseteq Others BY DEF Extras, Others, Ids
  <2> QED BY <2>1, CollectDiscoverType, SeqMonotone
<1>18. /\ y1 \in UpTo(1) /\ y2 \in UpTo(1) /\ y3 \in UpTo(1) /\ x1 \in UpTo(1)
       /\ <<fw>> \in UpTo(1) /\ <<v>> \in UpTo(1)
  BY FrameworkFields, Recs DEF x1, fw, v
<1> HIDE DEF y1, y2, y3, b
<1>19. ASSUME NEW X \in Seq(Fields), Report("discovery", n, X) \in T, NEW Y \in Seq(Others)
       PROVE  X \o Y \in Seq(Fields) /\ Report("discovery", n, X \o Y) \in T
  <2>1. Others \in SUBSET Fields /\ \A f \in Others : FieldWords(f) \subseteq W BY <1>3 DEF Others
  <2> QED BY <1>8, <1>3, <1>19, <2>1, ReportRest
<1> HIDE DEF T
<1>20. Report("discovery", n, all) \in T /\ all \in Seq(Fields)
  <2>1. z1 \in Seq(Fields) /\ Report("discovery", n, z1) \in T BY <1>13, <1>14, <1>16, <1>19
  <2> HIDE DEF z1
  <2>2. z2 \in Seq(Fields) /\ Report("discovery", n, z2) \in T BY <1>16, <1>19, <2>1
  <2> HIDE DEF z2
  <2> QED BY <1>16, <1>19, <2>2
<1>21. all \in UpTo(MAX_FIELDS)
  <2>1. x2 \in UpTo(1 + 1) BY <1>18, UpToConcat DEF x2
  <2>2. x3 \in UpTo(2 + 1)
    <3>1. x2 \in UpTo(2) BY <2>1
    <3> QED BY <1>18, <3>1, UpToConcat DEF x3
  <2>3. z1 \in UpTo(3 + 1)
    <3>1. x3 \in UpTo(3) BY <2>2
    <3> QED BY <1>18, <3>1, UpToConcat
  <2> HIDE DEF z1
  <2>4. z2 \in UpTo(4 + 1)
    <3>1. z1 \in UpTo(4) BY <2>3
    <3> QED BY <1>18, <3>1, UpToConcat
  <2> HIDE DEF z2
  <2>5. all \in UpTo(5 + 1)
    <3>1. z2 \in UpTo(5) BY <2>4
    <3> QED BY <1>18, <3>1, UpToConcat
  <2> HIDE DEF all
  <2>6. all \in Seq(Fields) /\ Len(all) <= 6 /\ Len(all) \in Nat BY <2>5 DEF UpTo
  <2>7. Len(all) <= MAX_FIELDS BY <2>6 DEF MAX_FIELDS
  <2> QED BY <2>6, <2>7 DEF UpTo
<1> HIDE DEF all
<1>22. PICK c \in Seq(Others) : Accepted(all \o b) = all \o c
  <2>1. Others \in SUBSET Fields BY DEF Others
  <2> QED BY <1>17, <1>21, <2>1, AcceptedFirst
<1>23. Report("discovery", n, all \o c) \in T BY <1>20, <1>19
<1> QED BY <1>15, <1>22, <1>23 DEF Report, T, lead, W, K

\* A reader of such words finds the identity.
LEMMA SureReads ==
  ASSUME NEW n \in Nodes, NEW K \in SUBSET Ids, NEW rest \in Seq(GoodWords(K, n)),
         NEW f \in Sure(K, n), \E i \in DOMAIN rest : rest[i] = FullOf(f)
  PROVE  /\ KeyText(f.key) \in DOMAIN ParseKvPairs(rest)
         /\ ParseKvPairs(rest)[KeyText(f.key)] = Text(ValueOf(f))
<1> DEFINE read == ParseKvPairs(rest)
           key == KeyText(f.key)
<1>1. rest \in Seq(Words) BY GoodWordsType, SeqMonotone
<1>2. f \in Fields /\ f.key \in K BY GoodWordsType DEF Sure
<1>3. key # <<>> BY DEF KeyText
<1>4. key \in DOMAIN read
  <2>1. PICK i \in DOMAIN rest : rest[i] = FullOf(f) OBVIOUS
  <2> DEFINE p == Pair(rest[i])
  <2>2. HasEquals(rest[i]) /\ p = [key |-> key, value |-> Text(ValueOf(f))] BY <1>2, <2>1, FieldReads
  <2> HIDE DEF p, key
  <2>3. p.key = key BY <2>2
  <2>4. HasEquals(rest[i]) /\ Pair(rest[i]).key # <<>> BY <1>3, <2>2, <2>3 DEF p
  <2>5. Pair(rest[i]).key \in DOMAIN ParseKvPairs(rest) BY <1>1, <2>4, ParseIs
  <2> QED BY <2>3, <2>5 DEF p
<1> HIDE DEF read
<1>5. PICK i \in DOMAIN rest : HasEquals(rest[i]) /\ Pair(rest[i]).key = key
                               /\ read[key] = Pair(rest[i]).value
  BY <1>1, <1>4, ParseIs DEF read
<1>6. rest[i] \in GoodWords(K, n) OBVIOUS
<1>7. rest[i] \notin AllWords(Rest(K))
  <2> SUFFICES ASSUME NEW g \in Rest(K), rest[i] \in FieldWords(g) PROVE FALSE
    BY DEF AllWords
  <2>1. g \in Fields /\ g.key \notin K BY DEF Rest
  <2>2. key = KeyText(g.key) BY <1>3, <1>5, <2>1, FieldReads, Zenon
  <2>3. key[1].of = f.key /\ KeyText(g.key)[1].of = g.key BY DEF KeyText, Piece
  <2> QED BY <1>2, <2>1, <2>2, <2>3
<1>8. PICK g \in Sure(K, n) : rest[i] = FullOf(g) BY <1>6, <1>7 DEF GoodWords, SureWords
<1>9. g \in Fields BY GoodWordsType
<1> DEFINE p == Pair(rest[i])
<1>10. p = [key |-> KeyText(g.key), value |-> Text(ValueOf(g))] BY <1>8, <1>9, FieldReads
<1> HIDE DEF p
<1>11. p.key = KeyText(g.key) /\ p.value = Text(ValueOf(g)) BY <1>10
<1>12. g.key = f.key
  <2>1. key = KeyText(g.key) BY <1>5, <1>11 DEF p
  <2>2. key[1].of = f.key /\ KeyText(g.key)[1].of = g.key BY DEF KeyText, Piece
  <2> QED BY <2>1, <2>2
<1>13. g = f
  <2>1. /\ IdRec(n).key = "id" /\ FullIdRec(n).key = "id_full"
        /\ FwRec(n).key = "fw" /\ VersionRec.key = "v"
    BY Recs
  <2>2. /\ f \in {IdRec(n), FullIdRec(n), FwRec(n), VersionRec}
        /\ g \in {IdRec(n), FullIdRec(n), FwRec(n), VersionRec}
    BY DEF Sure
  <2> QED BY <1>12, <2>1, <2>2
<1> QED BY <1>4, <1>5, <1>11, <1>13 DEF read, key, p

\* However long what the node has to say and whatever its features contribute, a
\* discovery without a request id says its id, firmware and version, and a status
\* both forms of the id; the firmware and the version where the fields a status
\* begins with are less than MAX_REPLY bytes.
THEOREM ReportsAlwaysIdentify == CoreSpec => []ReportsIdentify
<1>1. ASSUME CoreInv PROVE ReportsIdentify
  <2> SUFFICES ASSUME answer.asked \in {"status", "discovery"}, answer.digits = 0,
                      NEW k \in Identity(answer.asked)
               PROVE  Reads(ParseReport(answer.line.text), k)
    BY Zenon DEF ReportsIdentify
  <2>1. /\ answer.line = WritePrefixed(answer.digits, answer.body)
        /\ answer.asked = "status" => answer.body = WriteStatus(StatusFields(node, uptime, reading))
        /\ answer.asked = "discovery" => answer.body = WriteDiscover(node, DiscoverFields(node, uptime))
        /\ node \in Nodes /\ uptime \in Nat /\ reading \in Readings
    BY <1>1, UptimeIsNat DEF CoreInv, AnswerIs, HostIs
  <2> DEFINE K == IF answer.asked = "status" THEN StatusKeys(node) ELSE DiscoveryKeys(node)
             W == GoodWords(K, node)
             M == SureWords(K, node)
  <2>2. PICK h \in {StatusWord, DeviceName(node)} :
          answer.body \in Telling(<<<<h>>>>, W, M)
    <3>1. answer.asked = "status" => answer.body \in Telling(<<<<StatusWord>>>>, W, M)
      BY <2>1, StatusSays
    <3>2. answer.asked = "discovery" =>
            answer.body \in Telling(<<<<DeviceName(node)>>>>, W, M)
      BY <2>1, DiscoverySays
    <3> QED BY <3>1, <3>2, Zenon
  <2>3. h \in Pieces /\ h.part # "id" BY <2>1, Heads
  <2>4. <<h>> \in Words BY <2>3 DEF Words
  <2>5. K \in SUBSET Ids BY DEF StatusKeys, DiscoveryKeys, Ids
  <2>6. k \in K
    <3>1. node.hex \in Nat BY <2>1, NodeIs
    <3>2. node.hex # 0 => node.hex > 0 BY <3>1
    <3> QED BY <3>2 DEF Identity, StatusKeys, DiscoveryKeys
  <2> HIDE DEF K
  <2>7. PICK f \in Sure(K, node) :
          f.key = k /\ f \in Fields /\ f.size = Kept(Says(node, uptime, reading)[k])
    <3> DEFINE says == Says(node, uptime, reading)
    <3>1. k \in {"id", "id_full", "fw", "v"} BY <2>5, <2>6 DEF Ids
    <3>2. /\ {IdRec(node), FullIdRec(node), FwRec(node), VersionRec} \subseteq Fields
          /\ IdRec(node).key = "id" /\ FullIdRec(node).key = "id_full"
          /\ FwRec(node).key = "fw" /\ VersionRec.key = "v"
          /\ IdRec(node).size = Kept(AtMost(node.hex, 8)) /\ FullIdRec(node).size = Kept(node.hex)
          /\ FwRec(node).size = Kept(node.fw) /\ VersionRec.size = Kept(3)
      BY <2>1, Recs
    <3>3. /\ says["id"] = AtMost(node.hex, 8) /\ says["id_full"] = node.hex
          /\ says["fw"] = node.fw /\ says["v"] = 3
      BY SaysIs
    <3>4. /\ k = "id" => IdRec(node) \in Sure(K, node)
          /\ k = "id_full" => FullIdRec(node) \in Sure(K, node)
          /\ k = "fw" => FwRec(node) \in Sure(K, node)
          /\ k = "v" => VersionRec \in Sure(K, node)
      BY <2>1, <2>6, SureIs
    <3> HIDE DEF says
    <3>5. CASE k = "id" BY <3>2, <3>3, <3>4, <3>5 DEF says
    <3>6. CASE k = "id_full" BY <3>2, <3>3, <3>4, <3>6 DEF says
    <3>7. CASE k = "fw" BY <3>2, <3>3, <3>4, <3>7 DEF says
    <3>8. CASE k = "v" BY <3>2, <3>3, <3>4, <3>8 DEF says
    <3> QED BY <3>1, <3>5, <3>6, <3>7, <3>8
  <2> DEFINE body == answer.body
             digits == 0
  <2>8. body \in Telling(<<<<h>>>>, W, M) /\ digits \in 0 .. 10 BY <2>2
  <2>9. W \in SUBSET Words BY <2>1, <2>5, GoodWordsType
  <2> HIDE DEF W, M, body, digits
  <2>10. ReadFrom(digits, body, W, M) BY <2>3, <2>4, <2>8, <2>9, ReportReads
  <2>11. PICK rest \in Seq(W) :
          /\ ParseReport(answer.line.text) = ParseKvPairs(rest)
          /\ \A m \in M : \E i \in DOMAIN rest : rest[i] = m
    BY <2>1, <2>10, Zenon DEF ReadFrom, body, digits
  <2>12. FullOf(f) \in M BY DEF M, SureWords
  <2>13. /\ KeyText(f.key) \in DOMAIN ParseKvPairs(rest)
         /\ ParseKvPairs(rest)[KeyText(f.key)] = Text(ValueOf(f))
    BY <2>1, <2>5, <2>11, <2>12, SureReads DEF W
  <2>14. ValueOf(f) = Piece("value", k, Kept(Says(node, uptime, reading)[k]))
    BY <2>7, Zenon DEF ValueOf
  <2> QED BY <2>7, <2>11, <2>13, <2>14, Zenon DEF Reads
<1> QED BY <1>1, CoreInvariant, PTL

-----------------------------------------------------------------------------
(* Results of calls read as what the host said. *)

OfferKey(o)    == Piece("key", o.key, o.keySize)
OfferEquals(o) == Piece("=", o.key, 1)
OfferValue(o)  == Piece("value", o.value, o.valueSize)

\* The word of an offer, and the parts it may end in.
WordOf(o)  == FullWord(OfferKey(o), OfferEquals(o), OfferValue(o))
PartsOf(o) == BeginningsOf(OfferKey(o), OfferEquals(o), OfferValue(o)) \ {<<>>}

LEMMA BeginningsType ==
  ASSUME NEW k, NEW e, NEW v, IsPair(k, e, v)
  PROVE  BeginningsOf(k, e, v) \subseteq WordsOf(k, e, v)
<1>1. FullWord(k, e, v) \in WordsOf(k, e, v) BY WordsType DEF IsPair
<1> QED BY <1>1, Zenon DEF BeginningsOf, WordsOf

LEMMA OfferPair ==
  ASSUME NEW o \in AllOffers
  PROVE  /\ IsPair(OfferKey(o), OfferEquals(o), OfferValue(o))
         /\ KvPieces(o) = <<Space, OfferKey(o), OfferEquals(o), OfferValue(o)>>
         /\ PartsOf(o) \subseteq Words /\ WordOf(o) \in PartsOf(o)
         /\ OfferKey(o).size = o.keySize /\ OfferValue(o).size = o.valueSize
<1>1. o.key \in Names /\ o.value \in Names /\ o.keySize \in Nat \ {0} /\ o.valueSize \in Nat
  BY OfferIs
<1>2. /\ OfferKey(o) \in Pieces /\ OfferKey(o).part = "key" /\ OfferKey(o).size = o.keySize
  BY <1>1, PieceType DEF OfferKey
<1>3. OfferEquals(o) \in Pieces /\ OfferEquals(o).part = "=" /\ OfferEquals(o).size = 1
  BY <1>1, PieceType DEF OfferEquals
<1>4. /\ OfferValue(o) \in Pieces /\ OfferValue(o).part = "value"
      /\ OfferValue(o).size = o.valueSize
  BY <1>1, PieceType DEF OfferValue
<1>5. IsPair(OfferKey(o), OfferEquals(o), OfferValue(o)) BY <1>1, <1>2, <1>3, <1>4 DEF IsPair
<1>6. KvPieces(o) = <<Space, OfferKey(o), OfferEquals(o), OfferValue(o)>>
  BY Zenon DEF KvPieces, OfferKey, OfferEquals, OfferValue
<1>7. PartsOf(o) \subseteq Words BY <1>5, BeginningsType, WordsAreSolid, Zenon DEF PartsOf
<1>8. WordOf(o) # <<>> BY DEF WordOf, FullWord
<1>9. WordOf(o) \in PartsOf(o) BY <1>8, Zenon DEF PartsOf, WordOf, BeginningsOf
<1> QED BY <1>2, <1>4, <1>5, <1>6, <1>7, <1>9

\* A part with an "=" has the offer's key, and its value or none.
LEMMA PartReads ==
  ASSUME NEW o \in AllOffers
  PROVE  /\ HasEquals(WordOf(o))
         /\ Pair(WordOf(o)) = [key |-> <<OfferKey(o)>>, value |-> Text(OfferValue(o))]
         /\ \A w \in PartsOf(o) :
              HasEquals(w) => /\ Pair(w).key = <<OfferKey(o)>>
                              /\ Pair(w).value \in {<<>>, <<OfferValue(o)>>}
<1> DEFINE k == OfferKey(o)
           e == OfferEquals(o)
           v == OfferValue(o)
<1>1. IsPair(k, e, v) BY OfferPair
<1>2. WordOf(o) = FullWord(k, e, v) /\ PartsOf(o) = BeginningsOf(k, e, v) \ {<<>>}
  BY DEF WordOf, PartsOf
<1> HIDE DEF k, e, v
<1>3. HasEquals(FullWord(k, e, v)) /\ Pair(FullWord(k, e, v)) = [key |-> <<k>>, value |-> Text(v)]
  BY <1>1, WordReads
<1>4. ~HasEquals(<<k>>) /\ Pair(<<k, e>>) = [key |-> <<k>>, value |-> <<>>] BY <1>1, PairOfWord
<1>5. Text(v) \in {<<>>, <<v>>} BY Zenon DEF Text
<1>6. ASSUME NEW w \in BeginningsOf(k, e, v) \ {<<>>}, HasEquals(w)
      PROVE  Pair(w).key = <<k>> /\ Pair(w).value \in {<<>>, <<v>>}
  <2>1. w = <<k, e>> \/ w = FullWord(k, e, v) BY <1>4, <1>6, Zenon DEF BeginningsOf
  <2>2. CASE w = <<k, e>>
    <3>1. Pair(w) = [key |-> <<k>>, value |-> <<>>] BY <1>4, <2>2, Zenon
    <3> QED BY <3>1
  <2>3. CASE w = FullWord(k, e, v)
    <3>1. Pair(w) = [key |-> <<k>>, value |-> Text(v)] BY <1>3, <2>3, Zenon
    <3> QED BY <1>5, <3>1
  <2> QED BY <2>1, <2>2, <2>3
<1> QED BY <1>2, <1>3, <1>6, Zenon DEF k, v

\* What an append that stops leaves of a pair is the next token, or a part of it.
LEMMA BegunIn ==
  ASSUME NEW text \in Seq(Pieces), NEW after, NEW k, NEW e, NEW v, IsPair(k, e, v),
         Begun(text, after, k, e, v)
  PROVE  \/ Tokens(after) = Tokens(text)
         \/ \E w \in BeginningsOf(k, e, v) \ {<<>>} : Tokens(after) = Append(Tokens(text), w)
<1>1. \/ after = text
      \/ \E w \in BeginningsOf(k, e, v) : after = Append(text, Space) \o w
  BY Zenon DEF Begun
<1>2. ASSUME NEW w \in BeginningsOf(k, e, v)
      PROVE  Tokens(Append(text, Space) \o w) = IF w = <<>> THEN Tokens(text)
                                                ELSE Append(Tokens(text), w)
  <2>1. w \in Seq(Solid) BY BeginningsType, WordsAreSolid, Zenon
  <2> QED BY <2>1, NextToken
<1>3. ASSUME NEW w \in BeginningsOf(k, e, v), after = Append(text, Space) \o w
      PROVE  \/ Tokens(after) = Tokens(text)
             \/ \E x \in BeginningsOf(k, e, v) \ {<<>>} : Tokens(after) = Append(Tokens(text), x)
  BY <1>2, <1>3, Zenon
<1> QED BY <1>1, <1>3, Zenon

LEMMA AppendKvTells ==
  ASSUME NEW buf \in Buffers, NEW o \in AllOffers
  PROVE  LET out == AppendKv(buf, o)
         IN /\ \/ Tokens(out.buf.text) = Tokens(buf.text)
               \/ \E w \in PartsOf(o) : Tokens(out.buf.text) = Append(Tokens(buf.text), w)
            /\ out.ok => Tokens(out.buf.text) = Append(Tokens(buf.text), WordOf(o))
            /\ o.legal /\ ~buf.torn /\ buf.size + 2 + o.keySize + o.valueSize < MAX_REPLY => out.ok
<1> DEFINE k == OfferKey(o)
           e == OfferEquals(o)
           v == OfferValue(o)
           put == AppendPieces(AppendOrStop, buf, KvPieces(o))
           out == AppendKv(buf, o)
<1>1. IsPair(k, e, v) /\ KvPieces(o) = <<Space, k, e, v>> BY OfferPair
<1>2. k.size = o.keySize /\ v.size = o.valueSize BY OfferPair
<1>3. WordOf(o) = FullWord(k, e, v) /\ PartsOf(o) = BeginningsOf(k, e, v) \ {<<>>}
  BY DEF WordOf, PartsOf
<1>4. /\ o.legal => out.ok = ~put.torn /\ out.buf = [put EXCEPT !.torn = FALSE]
      /\ ~o.legal => out.ok = FALSE /\ out.buf = buf
  BY DEF AppendKv
<1>5. put = AppendPieces(AppendOrStop, buf, <<Space, k, e, v>>) BY <1>1
<1> HIDE DEF k, e, v, put, out
<1>6. /\ put \in Buffers /\ Ends(buf.text, put.text, k, e, v, ~put.torn)
      /\ Begun(buf.text, put.text, k, e, v)
      /\ ~buf.torn /\ buf.size + 2 + k.size + v.size < MAX_REPLY => ~put.torn
  BY <1>1, <1>5, StopPair, Zenon
<1>7. buf.text \in Seq(Pieces) BY BufferIs
<1>8. \/ Tokens(put.text) = Tokens(buf.text)
      \/ \E w \in PartsOf(o) : Tokens(put.text) = Append(Tokens(buf.text), w)
  BY <1>1, <1>3, <1>6, <1>7, BegunIn, Zenon
<1>9. ~put.torn => Tokens(put.text) = Append(Tokens(buf.text), WordOf(o))
  <2> DEFINE room == ~put.torn
             after == put.text
  <2>1. Ends(buf.text, after, k, e, v, room) BY <1>6
  <2> HIDE DEF room, after
  <2>2. IsPair(k, e, v) BY <1>1
  <2>3. /\ \/ Tokens(after) = Tokens(buf.text)
           \/ \E w \in WordsOf(k, e, v) \ {<<>>} : Tokens(after) = Append(Tokens(buf.text), w)
        /\ room => Tokens(after) = Append(Tokens(buf.text), FullWord(k, e, v))
    BY <1>7, <2>1, <2>2, EndsIn
  <2> QED BY <1>3, <2>3, Zenon DEF room, after
<1>10. [put EXCEPT !.torn = FALSE].text = put.text BY <1>6, UntornType
<1>11. CASE o.legal
  <2>1. out.ok = ~put.torn /\ out.buf.text = put.text BY <1>4, <1>10, <1>11
  <2> QED BY <1>2, <1>6, <1>8, <1>9, <2>1 DEF out
<1>12. CASE ~o.legal BY <1>4, <1>12 DEF out
<1> QED BY <1>11, <1>12

\* The words of a result in front of its pairs.
WordPiece(kind) == Piece("key", kind, WordSize[kind])
CodePiece(code) == Piece("code", code, CodeSize[code])

Lead(said) ==
  IF said.kind = "err" THEN << <<WordPiece("err")>>, <<CodePiece(said.code)>> >>
  ELSE << <<WordPiece(said.kind)>> >>

NoWord == ""

\* Errors have a code.
HasItsCode(said) == IF said.kind = "err" THEN said.code \in AllCodes ELSE said.code = NoWord

Offered(said) == ToSet(said.given) \cup ToSet(said.refused)

\* What a reply tells: the words in front, then words of the offers or parts of
\* such, and the offers one by one when none was refused.
TellsBy(reply, said, ws) ==
  /\ ws \in Seq(Words) /\ Tokens(reply.text) = Lead(said) \o ws
  /\ \A i \in DOMAIN ws : \E o \in Offered(said) : ws[i] \in PartsOf(o)
  /\ said.refused = <<>> => ws = [i \in DOMAIN said.given |-> WordOf(said.given[i])]

Tells(reply, said) == HasItsCode(said) /\ \E ws : TellsBy(reply, said, ws)

LEMMA SolidPieces ==
  ASSUME NEW piece \in Pieces, piece.part # "blank"
  PROVE  piece \in Solid /\ <<piece>> \in Seq(Solid) /\ <<piece>> \in Words
<1>1. Space.part = "blank" BY DEF Space, Piece
<1>2. piece \in Solid BY <1>1 DEF Solid
<1> QED BY <1>2 DEF Words

LEMMA LeadType ==
  ASSUME NEW said, said.kind \in DOMAIN WordSize, HasItsCode(said)
  PROVE  /\ Lead(said) \in Seq(Words) /\ Len(Lead(said)) = IF said.kind = "err" THEN 2 ELSE 1
         /\ Lead(said)[1] = <<WordPiece(said.kind)>>
         /\ said.kind = "err" => Lead(said)[2] = <<CodePiece(said.code)>>
<1>1. said.kind \in DOMAIN WordSize OBVIOUS
<1> DEFINE word == WordPiece(said.kind)
           code == CodePiece(said.code)
<1>2. word \in Pieces /\ word.part = "key" BY <1>1, WordIs DEF WordPiece
<1>3. <<word>> \in Words BY <1>2, SolidPieces
<1>4. CASE said.kind = "err"
  <2>1. said.code \in AllCodes BY <1>4 DEF HasItsCode
  <2>2. code \in Pieces /\ code.part = "code" BY <2>1, CodeIs DEF CodePiece, Piece
  <2>3. <<code>> \in Words BY <2>2, SolidPieces
  <2>4. Lead(said) = << <<word>>, <<code>> >> BY <1>4 DEF Lead
  <2> DEFINE w == <<word>>
             c == <<code>>
  <2> HIDE DEF w, c
  <2>5. << w, c >> \in Seq(Words) /\ Len(<< w, c >>) = 2 /\ << w, c >>[1] = w /\ << w, c >>[2] = c
    BY <1>3, <2>3 DEF w, c
  <2> QED BY <1>4, <2>4, <2>5 DEF w, c
<1>5. CASE said.kind # "err"
  <2>1. Lead(said) = << <<word>> >> BY <1>5 DEF Lead
  <2> DEFINE w == <<word>>
  <2> HIDE DEF w
  <2>2. << w >> \in Seq(Words) /\ Len(<< w >>) = 1 /\ << w >>[1] = w BY <1>3 DEF w
  <2> QED BY <1>5, <2>1, <2>2 DEF w
<1> QED BY <1>4, <1>5

LEMMA OneToken ==
  ASSUME NEW piece \in Pieces, piece.part # "blank" PROVE Tokens(<<piece>>) = << <<piece>> >>
<1> DEFINE w == <<piece>>
<1>1. w \in Seq(Solid) /\ w # <<>> BY SolidPieces
<1> HIDE DEF w
<1>2. TokensOf(w, {Space}) = IF w = <<>> THEN <<>> ELSE <<w>> BY <1>1, TokensOfWord DEF Solid
<1>3. Tokens(w) = <<w>> BY <1>1, <1>2 DEF Tokens
<1> QED BY <1>3 DEF w

LEMMA OneMore ==
  ASSUME NEW T, NEW x \in T, NEW y \in T PROVE Append(<<x>>, y) = <<x, y>>
<1>1. <<x>> \in Seq(T) OBVIOUS
<1>2. <<x>> \o <<y>> = Append(<<x>>, y) BY <1>1, AppendIs
<1> QED BY <1>2, TwoWords

LEMMA ErrTokens ==
  ASSUME NEW code \in AllCodes
  PROVE  Tokens(ResultLine("err", code).text) = << <<WordPiece("err")>>, <<CodePiece(code)>> >>
<1> DEFINE word == WordPiece("err")
           piece == CodePiece(code)
           w == <<word>>
           c == <<piece>>
<1>1. "err" \in DOMAIN WordSize BY DEF WordSize
<1>2. word \in Pieces /\ word.part = "key" BY <1>1, WordIs DEF WordPiece
<1>3. piece \in Pieces /\ piece.part = "code" BY CodeIs DEF CodePiece, Piece
<1>4. ResultLine("err", code).text = <<word, Space, piece>> BY ErrIs DEF WordPiece, CodePiece
<1> HIDE DEF word, piece
<1>5. w \in Seq(Solid) /\ c \in Seq(Solid) /\ w \in Words /\ c \in Words /\ c # <<>>
  BY <1>2, <1>3, SolidPieces
<1>6. Tokens(w) = <<w>> BY <1>2, OneToken
<1>7. <<word, Space, piece>> = Append(w, Space) \o c
  <2>1. <<word, Space>> \o <<piece>> = <<word, Space, piece>> BY <1>2, <1>3, SpaceType, ThreeWords
  <2>2. Append(<<word>>, Space) = <<word, Space>> BY <1>2, SpaceType, OneMore
  <2> QED BY <2>1, <2>2
<1> HIDE DEF w, c
<1>8. w \in Seq(Pieces) BY <1>5 DEF Words
<1>9. Tokens(Append(w, Space) \o c) = Append(Tokens(w), c) BY <1>5, <1>8, NextToken
<1>10. Append(<<w>>, c) = <<w, c>> BY <1>5, OneMore
<1> QED BY <1>4, <1>6, <1>7, <1>9, <1>10, Zenon DEF w, c, word, piece

\* A result word alone tells what was said.
LEMMA FreshTells ==
  ASSUME NEW kind \in DOMAIN WordSize, NEW code, HasItsCode(Said(kind, code))
  PROVE  Tells(ResultLine(kind, code), Said(kind, code))
<1> DEFINE said == Said(kind, code)
           line == ResultLine(kind, code)
<1>1. said.kind = kind /\ said.code = code /\ said.given = <<>> /\ said.refused = <<>>
  BY DEF Said
<1>2. Tokens(line.text) = Lead(said)
  <2>1. CASE kind = "err"
    <3>1. code \in AllCodes BY <1>1, <2>1 DEF HasItsCode
    <3> QED BY <1>1, <2>1, <3>1, ErrTokens DEF Lead
  <2>2. CASE kind # "err"
    <3>1. /\ WordPiece(kind) \in Pieces /\ WordPiece(kind).part = "key"
          /\ Holding(WordPiece(kind)).text = <<WordPiece(kind)>>
      BY WordIs DEF WordPiece
    <3>2. line = Holding(WordPiece(kind)) BY <2>2 DEF ResultLine, WordPiece
    <3>3. Tokens(<<WordPiece(kind)>>) = << <<WordPiece(kind)>> >> BY <3>1, OneToken
    <3> QED BY <1>1, <2>2, <3>1, <3>2, <3>3 DEF Lead
  <2> QED BY <2>1, <2>2
<1> HIDE DEF said, line
<1>3. HasItsCode(said) BY DEF said
<1>4. Lead(said) \in Seq(Words) BY <1>1, <1>3, LeadType
<1>5. Lead(said) \o <<>> = Lead(said) BY <1>4
<1>6. DOMAIN <<>> = {} /\ <<>> \in Seq(Words) OBVIOUS
<1>7. [i \in DOMAIN said.given |-> WordOf(said.given[i])] = <<>> BY <1>1
<1>8. TellsBy(line, said, <<>>) BY <1>2, <1>5, <1>6, <1>7, Zenon DEF TellsBy
<1> QED BY <1>3, <1>8, Zenon DEF Tells, line, said

LEMMA SetOfMore ==
  ASSUME NEW T, NEW s \in Seq(T), NEW x \in T PROVE ToSet(Append(s, x)) = ToSet(s) \cup {x}
<1> DEFINE t == Append(s, x)
<1>1. /\ Len(s) \in Nat /\ DOMAIN s = 1 .. Len(s) /\ DOMAIN t = 1 .. Len(s) + 1
      /\ t[Len(s) + 1] = x /\ \A i \in 1 .. Len(s) : t[i] = s[i]
  OBVIOUS
<1> HIDE DEF t
<1> DEFINE n == Len(s)
<1> HIDE DEF n
<1>2. 1 .. n + 1 = (1 .. n) \cup {n + 1} BY <1>1 DEF n
<1>3. ToSet(t) = ToSet(s) \cup {x} BY <1>1, <1>2 DEF ToSet, n
<1> QED BY <1>3 DEF t

\* One word more, of an offer more.
LEMMA TellsWord ==
  ASSUME NEW buf, NEW said, NEW ws, TellsBy(buf, said, ws), Lead(said) \in Seq(Words),
         NEW o \in AllOffers, NEW w \in PartsOf(o), said.given \in Seq(AllOffers),
         NEW after, Tokens(after.text) = Append(Tokens(buf.text), w),
         NEW more, Lead(more) = Lead(said), Offered(more) = Offered(said) \cup {o},
         more.refused = <<>> => /\ said.refused = <<>> /\ w = WordOf(o)
                                /\ more.given = Append(said.given, o)
  PROVE  TellsBy(after, more, Append(ws, w))
<1> DEFINE lead == Lead(said)
           r == Append(ws, w)
<1>1. /\ ws \in Seq(Words) /\ Tokens(buf.text) = lead \o ws
      /\ \A i \in DOMAIN ws : \E x \in Offered(said) : ws[i] \in PartsOf(x)
      /\ said.refused = <<>> => ws = [i \in DOMAIN said.given |-> WordOf(said.given[i])]
  BY DEF TellsBy
<1>2. w \in Words BY OfferPair
<1> HIDE DEF lead
<1>3. lead \in Seq(Words) BY DEF lead
<1>4. lead \o r = Append(lead \o ws, w) BY <1>1, <1>2, <1>3, TextFold!ConcatAppend
<1>5. Tokens(after.text) = Lead(more) \o r BY <1>1, <1>4, Zenon DEF lead
<1>6. /\ r \in Seq(Words) /\ DOMAIN r = 1 .. Len(ws) + 1 /\ DOMAIN ws = 1 .. Len(ws)
      /\ r[Len(ws) + 1] = w /\ Len(ws) \in Nat /\ \A i \in 1 .. Len(ws) : r[i] = ws[i]
  BY <1>1, <1>2
<1> HIDE DEF r
<1>7. ASSUME NEW i \in DOMAIN r PROVE \E x \in Offered(more) : r[i] \in PartsOf(x)
  <2>1. i \in DOMAIN ws \/ i = Len(ws) + 1 BY <1>6
  <2>2. CASE i \in DOMAIN ws BY <1>1, <1>6, <2>2, Zenon
  <2>3. CASE i = Len(ws) + 1 BY <1>6, <2>3, Zenon
  <2> QED BY <2>1, <2>2, <2>3
<1>8. ASSUME more.refused = <<>>
      PROVE  r = [i \in DOMAIN more.given |-> WordOf(more.given[i])]
  <2> DEFINE g == said.given
             h == more.given
             n == Len(g)
  <2>1. h = Append(g, o) /\ w = WordOf(o) /\ g \in Seq(AllOffers) BY <1>8
  <2>2. ws = [i \in DOMAIN g |-> WordOf(g[i])] BY <1>1, <1>8, Zenon
  <2> HIDE DEF g, h
  <2>3. /\ n \in Nat /\ DOMAIN g = 1 .. n /\ DOMAIN h = 1 .. n + 1
        /\ h[n + 1] = o /\ \A i \in 1 .. n : h[i] = g[i]
    BY <2>1
  <2>4. DOMAIN ws = 1 .. n /\ \A i \in 1 .. n : ws[i] = WordOf(g[i]) BY <2>2, <2>3
  <2> HIDE DEF n
  <2>5. Len(ws) = n BY <1>1, <2>3, <2>4
  <2>6. \A i \in 1 .. n + 1 : i \in 1 .. n \/ i = n + 1 BY <2>3
  <2>7. ASSUME NEW i \in 1 .. n + 1 PROVE r[i] = WordOf(h[i])
    <3>1. CASE i \in 1 .. n BY <1>6, <2>3, <2>4, <2>5, <3>1, Zenon
    <3>2. CASE i = n + 1 BY <1>6, <2>1, <2>3, <2>5, <3>2, Zenon
    <3> QED BY <2>6, <3>1, <3>2
  <2>8. DOMAIN r = 1 .. n + 1 /\ DOMAIN h = 1 .. n + 1 BY <1>6, <2>3, <2>5
  <2>9. r = [i \in DOMAIN r |-> r[i]] BY <1>6
  <2>10. r = [i \in DOMAIN h |-> WordOf(h[i])] BY <2>7, <2>8, <2>9
  <2> QED BY <2>10 DEF h
<1>9. TellsBy(after, more, r) BY <1>5, <1>6, <1>7, <1>8, Zenon DEF TellsBy
<1> QED BY <1>9 DEF r

\* A pair more, taken or refused.
LEMMA TellsMore ==
  ASSUME NEW buf \in Buffers, NEW said \in Sayings, Tells(buf, said), NEW o \in AllOffers,
         NEW given, NEW refused,
         given = IF AppendKv(buf, o).ok THEN Append(said.given, o) ELSE said.given,
         refused = IF AppendKv(buf, o).ok THEN said.refused ELSE Append(said.refused, o)
  PROVE  Tells(AppendKv(buf, o).buf, [said EXCEPT !.given = given, !.refused = refused])
<1> DEFINE more == [said EXCEPT !.given = given, !.refused = refused]
           out == AppendKv(buf, o)
<1>1. said \in [kind : {said.kind}, code : {said.code}, given : {said.given}, refused : {said.refused}]
  <2> DEFINE codes == AllCodes \cup {""}
  <2>1. Sayings = [kind : DOMAIN WordSize, code : codes, given : Seq(AllOffers), refused : Seq(AllOffers)]
    BY Zenon DEF Sayings
  <2> HIDE DEF codes
  <2> QED BY <2>1
<1>2. /\ more.kind = said.kind /\ more.code = said.code
      /\ more.given = given /\ more.refused = refused
  BY <1>1
<1>3. /\ said.kind \in DOMAIN WordSize
      /\ said.given \in Seq(AllOffers) /\ said.refused \in Seq(AllOffers)
  BY Zenon DEF Sayings
<1> HIDE DEF more
<1>4. HasItsCode(said) /\ \E ws : TellsBy(buf, said, ws) BY DEF Tells
<1>5. Lead(more) = Lead(said) /\ HasItsCode(more) BY <1>2, <1>4, Zenon DEF Lead, HasItsCode
<1>6. Lead(said) \in Seq(Words) BY <1>3, <1>4, LeadType
<1>7. PICK ws : TellsBy(buf, said, ws) BY <1>4
<1>8. /\ \/ Tokens(out.buf.text) = Tokens(buf.text)
         \/ \E w \in PartsOf(o) : Tokens(out.buf.text) = Append(Tokens(buf.text), w)
      /\ out.ok => Tokens(out.buf.text) = Append(Tokens(buf.text), WordOf(o))
  BY AppendKvTells
<1>9. /\ out.ok => given = Append(said.given, o) /\ refused = said.refused
      /\ ~out.ok => given = said.given /\ refused = Append(said.refused, o)
  OBVIOUS
<1> HIDE DEF out
<1>10. Offered(more) = Offered(said) \cup {o}
  <2>1. /\ ToSet(Append(said.given, o)) = ToSet(said.given) \cup {o}
        /\ ToSet(Append(said.refused, o)) = ToSet(said.refused) \cup {o}
    BY <1>3, SetOfMore
  <2>2. CASE out.ok
    <3>1. Offered(more) = ToSet(Append(said.given, o)) \cup ToSet(said.refused)
      BY <1>2, <1>9, <2>2, Zenon DEF Offered
    <3> QED BY <2>1, <3>1 DEF Offered
  <2>3. CASE ~out.ok
    <3>1. Offered(more) = ToSet(said.given) \cup ToSet(Append(said.refused, o))
      BY <1>2, <1>9, <2>3, Zenon DEF Offered
    <3> QED BY <2>1, <3>1 DEF Offered
  <2> QED BY <2>2, <2>3
<1>11. Append(said.refused, o) # <<>> BY <1>3
<1>12. ASSUME NEW w \in PartsOf(o), Tokens(out.buf.text) = Append(Tokens(buf.text), w),
              more.refused = <<>> => w = WordOf(o)
       PROVE  \E v : TellsBy(out.buf, more, v)
  <2>1. more.refused = <<>> => said.refused = <<>> /\ more.given = Append(said.given, o)
    BY <1>2, <1>9, <1>11, Zenon
  <2> DEFINE after == out.buf
  <2>2. Tokens(after.text) = Append(Tokens(buf.text), w) BY <1>12
  <2> HIDE DEF after
  <2>3. TellsBy(after, more, Append(ws, w))
    BY <1>3, <1>5, <1>6, <1>7, <1>10, <1>12, <2>1, <2>2, TellsWord
  <2> QED BY <2>3 DEF after
<1>13. CASE out.ok
  <2>1. WordOf(o) \in PartsOf(o) BY OfferPair
  <2> QED BY <1>5, <1>8, <1>12, <1>13, <2>1, Zenon DEF Tells, more, out
<1>14. CASE ~out.ok
  <2>1. more.refused # <<>> BY <1>2, <1>9, <1>11, <1>14, Zenon
  <2>2. CASE Tokens(out.buf.text) = Tokens(buf.text)
    <3>1. TellsBy(out.buf, more, ws)
      BY <1>5, <1>7, <1>10, <2>1, <2>2, Zenon DEF TellsBy
    <3> QED BY <1>5, <3>1, Zenon DEF Tells, more, out
  <2>3. CASE \E w \in PartsOf(o) : Tokens(out.buf.text) = Append(Tokens(buf.text), w)
    BY <1>5, <1>12, <2>1, <2>3, Zenon DEF Tells, more, out
  <2> QED BY <1>8, <2>2, <2>3
<1> QED BY <1>13, <1>14

\* The handler's own refusal of a name: its pair fits.
LEMMA RefusalTells ==
  /\ Tells(ResultLine("err", "invalid_argument"), Said("err", "invalid_argument"))
  /\ Tells(ResultLine("err", "unknown_proc"), Said("err", "unknown_proc"))
  /\ Tells(AppendKv(ResultLine("err", "invalid_argument"), Reason).buf,
           [Said("err", "invalid_argument") EXCEPT !.given = <<Reason>>])
<1>1. "err" \in DOMAIN WordSize BY DEF WordSize
<1>2. "invalid_argument" \in AllCodes /\ "unknown_proc" \in AllCodes BY FrameworkCodes
<1>3. \A code \in AllCodes : HasItsCode(Said("err", code)) BY DEF HasItsCode, Said
<1>4. /\ Tells(ResultLine("err", "invalid_argument"), Said("err", "invalid_argument"))
      /\ Tells(ResultLine("err", "unknown_proc"), Said("err", "unknown_proc"))
  BY <1>1, <1>2, <1>3, FreshTells
<1> DEFINE line == ResultLine("err", "invalid_argument")
           said == Said("err", "invalid_argument")
           out == AppendKv(line, Reason)
<1>5. line \in Buffers /\ line.torn = FALSE /\ line.size = 4 + CodeSize["invalid_argument"]
  BY <1>2, ErrIs
<1>6. Reason \in AllOffers /\ Reason.legal = TRUE /\ Reason.keySize = 6 /\ Reason.valueSize = 4
  BY DEF AllOffers, Reason
<1>7. line.size = 20
  <2>1. CodeSize["invalid_argument"] = 16 BY CallsAssumption, Zenon
  <2> QED BY <1>5, <2>1
<1>8. said \in Sayings BY RefusalType
<1>9. said.given = <<>> /\ said.refused = <<>> BY DEF Said
<1> HIDE DEF line, said
<1>10. 20 + 2 + 6 + 4 < MAX_REPLY BY DEF MAX_REPLY
<1>11. line.size + 2 + Reason.keySize + Reason.valueSize < MAX_REPLY BY <1>6, <1>7, <1>10
<1>12. out.ok BY <1>5, <1>6, <1>11, AppendKvTells
<1> HIDE DEF out
<1>13. Append(<<>>, Reason) = <<Reason>> OBVIOUS
<1> DEFINE given == <<Reason>>
           refused == said.refused
<1>14. /\ given = IF out.ok THEN Append(said.given, Reason) ELSE said.given
       /\ refused = IF out.ok THEN said.refused ELSE Append(said.refused, Reason)
  BY <1>9, <1>12, <1>13, Zenon
<1> HIDE DEF given, refused
<1>15. Tells(line, said) BY <1>4 DEF line, said
<1>16. Tells(out.buf, [said EXCEPT !.given = given, !.refused = refused])
  BY <1>5, <1>6, <1>8, <1>14, <1>15, TellsMore DEF out
<1>17. [said EXCEPT !.given = given, !.refused = refused] = [said EXCEPT !.given = given]
  <2>1. said = [kind |-> said.kind, code |-> said.code, given |-> said.given, refused |-> said.refused]
    <3> DEFINE codes == AllCodes \cup {""}
    <3>1. Sayings = [kind : DOMAIN WordSize, code : codes, given : Seq(AllOffers), refused : Seq(AllOffers)]
      BY Zenon DEF Sayings
    <3> HIDE DEF codes
    <3> QED BY <1>8, <3>1
  <2> QED BY <2>1 DEF refused
<1> QED BY <1>4, <1>16, <1>17 DEF given, line, said, out

\* What has been written of a reply tells what was said.
Told(c) == (c.running /\ c.reply = Empty) \/ Tells(c.reply, c.said)

ToldInv == call # NoCall \/ Called => Told(call)

LEMMA RespondTells ==
  ASSUME NEW c, RunIs(c), NEW body, NEW said, Tells(body, said), Respond(c, body, said)
  PROVE  ToldInv'
<1>1. call' = [c EXCEPT !.running = FALSE, !.reply = body, !.said = said] BY DEF Respond
<1>2. c \in Runs BY DEF RunIs
<1>3. call'.reply = body /\ call'.said = said BY <1>1, <1>2 DEF Runs
<1> QED BY <1>3 DEF ToldInv, Told

LEMMA WritingTells ==
  ASSUME RunIs(call), NEW reply, NEW said, Tells(reply, said),
         call' = [call EXCEPT !.reply = reply, !.said = said]
  PROVE  ToldInv'
<1>1. call \in Runs BY DEF RunIs
<1>2. call'.reply = reply /\ call'.said = said BY <1>1 DEF Runs
<1> QED BY <1>2 DEF ToldInv, Told

LEMMA ReportsAreNoCalls == ASSUME Next PROVE ~Called'
<1>1. answer'.asked \in {"status", "discovery", "nothing"}
  BY DEF Next, CmdStatus, CmdDiscover, Tick, Sense, Answer, NoAnswer
<1> QED BY <1>1 DEF Called

LEMMA NextTold == ASSUME CoreInv, ToldInv, [CoreNext]_callVars PROVE ToldInv'
<1>1. call # NoCall => RunIs(call) BY DEF CoreInv
<1>2. ASSUME NEW digits \in IdDigits, NEW proc \in Procs \cup {<<>>}, CmdCall(proc, digits)
      PROVE  ToldInv'
  <2> DEFINE c == Pending(proc, digits)
  <2>1. /\ c \in Runs /\ c.proc = proc /\ c.handed = FALSE
        /\ c = [running |-> TRUE, proc |-> proc, digits |-> digits, reply |-> Empty,
                said |-> SaidNothing, handed |-> FALSE]
    BY StartsEmpty, NothingSaidType DEF Pending, Runs
  <2>2. CASE proc = <<>>
    <3>1. RunIs(c) BY <2>1, <2>2 DEF RunIs
    <3>2. Respond(c, ResultLine("err", "invalid_argument"), Said("err", "invalid_argument"))
      BY <1>2, <2>2 DEF CmdCall
    <3> HIDE DEF c
    <3> QED BY <3>1, <3>2, RefusalTells, RespondTells
  <2>3. CASE proc # <<>> /\ ~IsValidProc(proc)
    <3>1. RunIs(c) BY <2>1, <2>3 DEF RunIs
    <3> DEFINE body == AppendKv(ResultLine("err", "invalid_argument"), Reason).buf
               said == [Said("err", "invalid_argument") EXCEPT !.given = <<Reason>>]
    <3>2. Respond(c, body, said) BY <1>2, <2>3 DEF CmdCall
    <3>3. Tells(body, said) BY RefusalTells
    <3> HIDE DEF body, said, c
    <3> QED BY <3>1, <3>2, <3>3, RespondTells
  <2>4. CASE proc # <<>> /\ IsValidProc(proc)
    <3>1. call' = [c EXCEPT !.handed = TRUE] BY <1>2, <2>4 DEF CmdCall
    <3>2. c.running = TRUE /\ c.reply = Empty BY <2>1
    <3> HIDE DEF c
    <3>3. call'.running = TRUE /\ call'.reply = Empty BY <2>1, <3>1, <3>2 DEF Runs
    <3> QED BY <3>3 DEF ToldInv, Told
  <2> QED BY <2>2, <2>3, <2>4
<1>3. ASSUME NEW kind \in DOMAIN WordSize, NEW code, HostWrites(kind, code),
             kind = "err" => code \in Codes
      PROVE  ToldInv'
  <2>1. RunIs(call) BY <1>1, <1>3 DEF HostWrites, Running
  <2> DEFINE reply == ResultLine(kind, Coded(code))
             word == IF kind = "err" THEN Coded(code) ELSE ""
             said == Said(kind, word)
  <2>2. call' = [call EXCEPT !.reply = reply, !.said = said] BY <1>3 DEF HostWrites
  <2>3. Tells(reply, said)
    <3>1. HasItsCode(said)
      <4>1. said.kind = kind /\ said.code = word BY Zenon DEF Said
      <4>2. kind = "err" => word \in AllCodes BY <1>3, CodedIs, Zenon
      <4>3. kind # "err" => word = NoWord BY Zenon DEF NoWord
      <4> QED BY <4>1, <4>2, <4>3, Zenon DEF HasItsCode
    <3>2. Tells(ResultLine(kind, word), said) BY <3>1, FreshTells, Zenon
    <3>3. ResultLine(kind, word) = reply BY Zenon DEF ResultLine
    <3> QED BY <3>2, <3>3, Zenon
  <2> HIDE DEF reply, said
  <2> QED BY <2>1, <2>2, <2>3, WritingTells
<1>4. ASSUME NEW o \in Offers, HostAppends(o) PROVE ToldInv'
  <2>1. RunIs(call) /\ call.reply # Empty /\ Told(call)
    BY <1>1, <1>4 DEF HostAppends, Running, ToldInv
  <2>2. call.reply \in Buffers /\ call.said \in Sayings BY <2>1 DEF RunIs, Runs
  <2>3. Tells(call.reply, call.said) BY <2>1 DEF Told
  <2>4. o \in AllOffers BY DEF AllOffers
  <2> DEFINE out == AppendKv(call.reply, o)
             given == IF out.ok THEN Append(call.said.given, o) ELSE call.said.given
             refused == IF out.ok THEN call.said.refused ELSE Append(call.said.refused, o)
             said == [call.said EXCEPT !.given = given, !.refused = refused]
  <2>5. Tells(out.buf, said) BY <2>2, <2>3, <2>4, TellsMore
  <2>6. call' = [call EXCEPT !.reply = out.buf, !.said = said]
    <3>1. call \in Runs BY <2>1 DEF RunIs
    <3> QED BY <1>4, <3>1 DEF HostAppends
  <2> DEFINE reply == out.buf
  <2>7. Tells(reply, said) /\ call' = [call EXCEPT !.reply = reply, !.said = said] BY <2>5, <2>6
  <2> HIDE DEF reply, said
  <2> QED BY <2>1, <2>7, WritingTells
<1>5. ASSUME NEW handled \in BOOLEAN, HostReturns(handled) PROVE ToldInv'
  <2>1. RunIs(call) /\ Told(call) BY <1>1, <1>5 DEF HostReturns, Running, ToldInv
  <2>2. Tells(ResultLine("ok", ""), Said("ok", ""))
    <3> DEFINE said == Said("ok", NoWord)
    <3>1. said.kind = "ok" /\ said.code = NoWord BY DEF Said
    <3>2. "ok" \in DOMAIN WordSize /\ "ok" # "err" BY DEF WordSize
    <3>3. HasItsCode(said) BY <3>1, <3>2, Zenon DEF HasItsCode
    <3>4. Tells(ResultLine("ok", NoWord), said) BY <3>2, <3>3, FreshTells
    <3> QED BY <3>4, Zenon DEF NoWord
  <2>3. CASE ~handled BY <1>5, <2>1, <2>3, RefusalTells, RespondTells, Zenon DEF HostReturns
  <2>4. CASE handled /\ call.reply = Empty
    BY <1>5, <2>1, <2>2, <2>4, RespondTells, Zenon DEF HostReturns
  <2>5. CASE handled /\ call.reply # Empty
    <3>1. Tells(call.reply, call.said) BY <2>1, <2>5 DEF Told
    <3> QED BY <1>5, <2>1, <2>5, <3>1, RespondTells, Zenon DEF HostReturns
  <2> QED BY <2>3, <2>4, <2>5
<1>6. CASE UNCHANGED callVars BY <1>6 DEF callVars, vars, ToldInv, Told, Called
<1>7. CASE CallNext
  <2>1. ASSUME NEW kind \in DOMAIN WordSize \ {"err"}, HostWrites(kind, "") PROVE ToldInv'
    <3>1. kind \in DOMAIN WordSize /\ kind # "err" /\ HostWrites(kind, NoWord)
      BY <2>1, Zenon DEF NoWord
    <3> QED BY <1>3, <3>1
  <2>2. ASSUME NEW code \in Codes, HostWrites("err", code) PROVE ToldInv'
    <3>1. "err" \in DOMAIN WordSize BY DEF WordSize
    <3> QED BY <1>3, <2>2, <3>1
  <2> QED BY <1>2, <1>4, <1>5, <1>7, <2>1, <2>2, Zenon DEF CallNext
<1>8. CASE call = NoCall /\ Next /\ UNCHANGED call
  <2>1. ~Called' BY <1>8, ReportsAreNoCalls
  <2> QED BY <1>8, <2>1 DEF ToldInv
<1> QED BY <1>6, <1>7, <1>8 DEF CoreNext

\* What a reader makes of a result word and words behind it.
CodeOf(said) == IF said.kind = "err" THEN <<CodePiece(said.code)>> ELSE <<>>

ResultOf(said, ws) ==
  [valid |-> TRUE, kind |-> said.kind, code |-> CodeOf(said), fields |-> Dict(Pairs(ws))]

ReadAs(text, said, ws) ==
  /\ (\E i \in DOMAIN ws : ~HasEquals(ws[i])) => ParseCallResult(text) = Invalid
  /\ (\A i \in DOMAIN ws : HasEquals(ws[i])) => ParseCallResult(text) = ResultOf(said, ws)

LEMMA ResultReads ==
  ASSUME NEW said, said.kind \in DOMAIN WordSize, HasItsCode(said), NEW ws \in Seq(Words),
         NEW text, Unnumbered(Tokens(text)) = Lead(said) \o ws
  PROVE  ReadAs(text, said, ws)
<1> DEFINE tokens == Unnumbered(Tokens(text))
           lead == Lead(said)
           isErr == tokens # <<>> /\ tokens[1][1].of = "err"
           from == IF isErr THEN 3 ELSE 2
           rest == SubSeq(tokens, from, Len(tokens))
           first == tokens[1][1].of
<1>1. ParseCallResult(text) =
        IF \/ tokens = <<>>
           \/ isErr /\ Len(tokens) < 2
           \/ \E i \in DOMAIN rest : ~HasEquals(rest[i])
           \/ first \notin DOMAIN WordSize
        THEN Invalid
        ELSE [valid |-> TRUE, kind |-> first,
              code |-> IF isErr THEN tokens[2] ELSE <<>>, fields |-> Dict(Pairs(rest))]
  BY DEF ParseCallResult
<1>2. /\ lead \in Seq(Words) /\ Len(lead) = IF said.kind = "err" THEN 2 ELSE 1
      /\ lead[1] = <<WordPiece(said.kind)>>
      /\ said.kind = "err" => lead[2] = <<CodePiece(said.code)>>
  BY LeadType
<1>3. WordPiece(said.kind).of = said.kind BY WordIs DEF WordPiece
<1> DEFINE n == Len(lead)
<1>4. tokens = lead \o ws OBVIOUS
<1> HIDE DEF lead, tokens
<1>5. /\ tokens \in Seq(Words) /\ Len(tokens) = n + Len(ws) /\ n \in 1 .. 2 /\ Len(ws) \in Nat
      /\ \A i \in 1 .. n : tokens[i] = lead[i]
      /\ SubSeq(tokens, n + 1, Len(tokens)) = ws
  <2>1. n \in 1 .. 2 /\ Len(ws) \in Nat BY <1>2
  <2>2. tokens \in Seq(Words) /\ Len(tokens) = n + Len(ws) BY <1>2, <1>4, ConcatLen, ConcatType
  <2>3. \A i \in 1 .. n : tokens[i] = lead[i] BY <1>2, <1>4, ConcatFirst
  <2>4. \A i \in 1 .. Len(ws) : tokens[n + i] = ws[i]
    <3>1. lead \in Seq(Words) /\ ws \in Seq(Words) BY <1>2
    <3>2. \A i \in 1 .. Len(ws) : (lead \o ws)[Len(lead) + i] = ws[i] BY <3>1, ConcatSecond, Zenon
    <3> QED BY <1>4, <3>2, Zenon
  <2>5. SubSeq(tokens, n + 1, Len(tokens)) = ws
    <3> DEFINE m == Len(tokens)
               u == SubSeq(tokens, n + 1, m)
    <3> HIDE DEF n
    <3>1. n \in 0 .. m /\ m - n = Len(ws) BY <2>1, <2>2
    <3>2. u \in Seq(Words) /\ Len(u) = m - n /\ \A i \in 1 .. m - n : u[i] = tokens[n + i]
      BY <2>2, <3>1, RestType
    <3> HIDE DEF u, m
    <3>3. Len(u) = Len(ws) /\ \A i \in 1 .. Len(ws) : u[i] = ws[i] BY <2>4, <3>1, <3>2
    <3>4. u = ws BY <3>2, <3>3
    <3> QED BY <3>4 DEF u, m
  <2> QED BY <2>1, <2>2, <2>3, <2>5
<1>6. tokens # <<>> /\ tokens[1] = <<WordPiece(said.kind)>> BY <1>2, <1>5
<1>7. first = said.kind BY <1>3, <1>6
<1>8. isErr <=> said.kind = "err" BY <1>6, <1>7
<1>9. from = n + 1 BY <1>2, <1>8
<1>10. rest = ws BY <1>5, <1>9
<1>11. isErr => Len(tokens) >= 2 /\ tokens[2] = <<CodePiece(said.code)>> BY <1>2, <1>5, <1>8
<1>12. ~(isErr /\ Len(tokens) < 2) BY <1>5, <1>11
<1> HIDE DEF isErr, rest, first, n, from
<1>13. first \in DOMAIN WordSize BY <1>7
<1>14. ParseCallResult(text) =
         IF \E i \in DOMAIN ws : ~HasEquals(ws[i]) THEN Invalid
         ELSE [valid |-> TRUE, kind |-> said.kind,
               code |-> IF isErr THEN tokens[2] ELSE <<>>, fields |-> Dict(Pairs(ws))]
  BY <1>1, <1>6, <1>7, <1>10, <1>12, <1>13, Zenon
<1>15. (IF isErr THEN tokens[2] ELSE <<>>) = CodeOf(said) BY <1>8, <1>11 DEF CodeOf
<1> QED BY <1>14, <1>15, Zenon DEF ReadAs, ResultOf

\* Behind its id or without one, a reply is read by what it tells, or not at all.
LEMMA TellingReads ==
  ASSUME NEW said \in Sayings, HasItsCode(said), NEW body \in Buffers,
         NEW ws, TellsBy(body, said, ws), NEW digits \in 0 .. 10
  PROVE  LET text == WritePrefixed(digits, body).text
         IN \/ digits # 0 /\ Len(text) = 2 /\ ParseCallResult(text) = Invalid
            \/ ReadAs(text, said, ws)
<1> DEFINE text == WritePrefixed(digits, body).text
           t == Tokens(body.text)
           u == Unnumbered(Tokens(text))
           lead == Lead(said)
<1>1. said.kind \in DOMAIN WordSize BY Zenon DEF Sayings
<1>2. /\ lead \in Seq(Words) /\ Len(lead) >= 1 /\ lead[1] = <<WordPiece(said.kind)>>
  BY <1>1, LeadType
<1>3. WordPiece(said.kind).part = "key" BY <1>1, WordIs DEF WordPiece
<1>4. ws \in Seq(Words) /\ t = lead \o ws BY DEF TellsBy
<1> HIDE DEF lead, t
<1>5. t # <<>> /\ t[1] = <<WordPiece(said.kind)>>
  <2>1. Len(t) = Len(lead) + Len(ws) /\ Len(ws) \in Nat BY <1>2, <1>4, ConcatLen
  <2>2. t[1] = lead[1] BY <1>2, <1>4, ConcatFirst
  <2> QED BY <1>2, <2>1, <2>2
<1>6. t[1][1].part # "id" BY <1>3, <1>5
<1>7. (digits # 0 /\ Len(text) = 2 /\ u = <<>>) \/ u = t BY <1>5, <1>6, LineIs DEF t
<1>8. u = <<>> => ParseCallResult(text) = Invalid BY Zenon DEF ParseCallResult
<1>9. u = lead \o ws => ReadAs(text, said, ws) BY <1>1, <1>4, ResultReads DEF lead
<1> QED BY <1>4, <1>7, <1>8, <1>9, Zenon

\* Pairs that were all taken are read as what was given.
LEMMA GivenReads ==
  ASSUME NEW given \in Seq(AllOffers), NEW ws, ws = [i \in DOMAIN given |-> WordOf(given[i])]
  PROVE  /\ \A i \in DOMAIN ws : HasEquals(ws[i])
         /\ Pairs(ws) = [i \in DOMAIN given |-> [key |-> <<OfferKey(given[i])>>,
                                                value |-> Text(OfferValue(given[i]))]]
<1>1. \A i \in DOMAIN given : given[i] \in AllOffers OBVIOUS
<1>2. DOMAIN ws = DOMAIN given /\ \A i \in DOMAIN ws : ws[i] = WordOf(given[i]) OBVIOUS
<1>3. \A i \in DOMAIN ws :
        /\ HasEquals(ws[i])
        /\ Pair(ws[i]) = [key |-> <<OfferKey(given[i])>>, value |-> Text(OfferValue(given[i]))]
  BY <1>1, <1>2, PartReads, Zenon
<1>4. {i \in DOMAIN ws : HasEquals(ws[i])} = DOMAIN given BY <1>2, <1>3, Zenon
<1>5. Pairs(ws) = [i \in DOMAIN given |-> Pair(ws[i])] BY <1>4, Zenon DEF Pairs
<1> QED BY <1>2, <1>3, <1>5

\* Words that are parts of what was offered give nothing that was not.
LEMMA PartsRead ==
  ASSUME NEW S \in SUBSET AllOffers, NEW ws \in Seq(Words),
         \A i \in DOMAIN ws : \E o \in S : ws[i] \in PartsOf(o),
         NEW k \in DOMAIN Dict(Pairs(ws))
  PROVE  \E o \in S : k = <<OfferKey(o)>> /\ Dict(Pairs(ws))[k] \in {<<>>, <<OfferValue(o)>>}
<1> DEFINE pairs == Pairs(ws)
           read == Dict(pairs)
<1>1. /\ DOMAIN pairs = {i \in DOMAIN ws : HasEquals(ws[i])}
      /\ \A i \in DOMAIN pairs : pairs[i] = Pair(ws[i])
  BY DEF Pairs
<1> HIDE DEF pairs
<1>2. Len(ws) \in Nat /\ DOMAIN ws = 1 .. Len(ws) OBVIOUS
<1>3. DOMAIN pairs \subseteq 1 .. Len(ws) BY <1>1, <1>2
<1>4. k \in DOMAIN read BY DEF pairs
<1> HIDE DEF read
<1>5. PICK i \in DOMAIN pairs : pairs[i].key = k /\ read[k] = pairs[i].value
  BY <1>2, <1>3, <1>4, DictIs DEF read
<1>6. i \in DOMAIN ws /\ HasEquals(ws[i]) /\ pairs[i] = Pair(ws[i]) BY <1>1
<1>7. PICK o \in S : ws[i] \in PartsOf(o) BY <1>6
<1>8. Pair(ws[i]).key = <<OfferKey(o)>> /\ Pair(ws[i]).value \in {<<>>, <<OfferValue(o)>>}
  BY <1>6, <1>7, PartReads
<1> QED BY <1>5, <1>6, <1>8, Zenon DEF read, pairs

LEMMA SetOfConcat ==
  ASSUME NEW T, NEW s \in Seq(T), NEW t \in Seq(T)
  PROVE  ToSet(s) \cup ToSet(t) \subseteq ToSet(s \o t) /\ ToSet(s) \cup ToSet(t) \subseteq T
<1> DEFINE u == s \o t
<1>1. /\ Len(s) \in Nat /\ Len(t) \in Nat /\ Len(u) = Len(s) + Len(t)
      /\ DOMAIN s = 1 .. Len(s) /\ DOMAIN t = 1 .. Len(t) /\ DOMAIN u = 1 .. Len(u)
      /\ \A i \in 1 .. Len(s) : s[i] = u[i] /\ s[i] \in T
      /\ \A i \in 1 .. Len(t) : t[i] = u[Len(s) + i] /\ t[i] \in T
  BY ConcatType
<1> HIDE DEF u
<1> DEFINE m == Len(s)
           n == Len(t)
<1> HIDE DEF m, n
<1>2. \A i \in 1 .. m : i \in 1 .. Len(u) BY <1>1 DEF m, n
<1>3. \A i \in 1 .. n : m + i \in 1 .. Len(u) BY <1>1 DEF m, n
<1>4. ToSet(s) \subseteq ToSet(u) BY <1>1, <1>2, Zenon DEF ToSet, m, n
<1>5. ToSet(t) \subseteq ToSet(u)
  <2> SUFFICES ASSUME NEW x \in ToSet(t) PROVE x \in ToSet(u)
    OBVIOUS
  <2>1. PICK i \in 1 .. n : x = t[i] BY <1>1 DEF ToSet, n
  <2>2. m + i \in DOMAIN u /\ u[m + i] = x BY <1>1, <1>3, <2>1 DEF m, n
  <2> QED BY <2>2 DEF ToSet
<1>6. ToSet(s) \subseteq T /\ ToSet(t) \subseteq T BY <1>1, Zenon DEF ToSet, m, n
<1> QED BY <1>4, <1>5, <1>6, Zenon DEF u

LEMMA SayingIs ==
  ASSUME NEW said \in Sayings
  PROVE  /\ said.kind \in DOMAIN WordSize
         /\ said.given \in Seq(AllOffers) /\ said.refused \in Seq(AllOffers)
BY Zenon DEF Sayings

LEMMA InitTold == ASSUME CallInit PROVE ToldInv
<1>1. answer.asked = "nothing" BY DEF CallInit, Init, NoAnswer
<1> QED BY <1>1 DEF CallInit, ToldInv, Called

\* The reader of a result gets what the host said, when all of it was taken and
\* the line had room for it; when not, it gets nothing that the host did not say.
THEOREM CallsAlwaysReadBack == CoreSpec => []CallReadsBack
<1>1. ASSUME CoreInv, ToldInv PROVE CallReadsBack
  <2> SUFFICES ASSUME Called PROVE CallReadsBack
    BY Zenon DEF CallReadsBack
  <2> DEFINE said == call.said
             text == answer.line.text
             got == ParseCallResult(text)
             body == answer.body
             digits == answer.digits
             S == Offered(said)
  <2>1. /\ answer.line = WritePrefixed(digits, body) /\ digits \in 0 .. 10 /\ body \in Buffers
        /\ RunIs(call) /\ body = call.reply /\ ~call.running
    BY <1>1 DEF CoreInv, AnswerIs, Called
  <2>2. said \in Sayings BY <2>1 DEF RunIs, Runs
  <2>3. Tells(body, said) BY <1>1, <2>1 DEF ToldInv, Told
  <2>4. PICK ws : TellsBy(body, said, ws) BY <2>3, Zenon DEF Tells
  <2>5. HasItsCode(said) BY <2>3, Zenon DEF Tells
  <2>6. CodeSaid = CodeOf(said)
    <3>1. \A code \in AllCodes : code # "" BY Zenon DEF AllCodes
    <3> QED BY <2>5, <3>1, Zenon DEF CodeSaid, CodeOf, CodePiece, HasItsCode, NoWord
  <2> DEFINE given == said.given
             refused == said.refused
  <2>7. given \in Seq(AllOffers) /\ refused \in Seq(AllOffers) BY <2>2, SayingIs
  <2>8. FieldsSaid = Dict([i \in DOMAIN given |-> [key |-> <<OfferKey(given[i])>>,
                                                  value |-> Text(OfferValue(given[i]))]])
    BY Zenon DEF FieldsSaid, OfferKey, OfferValue
  <2>9. \/ digits # 0 /\ Len(text) = 2 /\ got = Invalid
        \/ ReadAs(text, said, ws)
    <3> HIDE DEF said, digits, body
    <3>1. \/ digits # 0 /\ Len(WritePrefixed(digits, body).text) = 2
             /\ ParseCallResult(WritePrefixed(digits, body).text) = Invalid
          \/ ReadAs(WritePrefixed(digits, body).text, said, ws)
      BY <2>1, <2>2, <2>4, <2>5, TellingReads
    <3>2. text = WritePrefixed(digits, body).text BY <2>1
    <3> QED BY <3>1, <3>2, Zenon
  <2>10. /\ ws \in Seq(Words) /\ \A i \in DOMAIN ws : \E o \in S : ws[i] \in PartsOf(o)
         /\ refused = <<>> => ws = [i \in DOMAIN given |-> WordOf(given[i])]
    BY <2>4, Zenon DEF TellsBy
  <2>11. S \subseteq ToSet(given \o refused) /\ S \in SUBSET AllOffers
    <3> HIDE DEF given, refused
    <3>1. /\ ToSet(given) \cup ToSet(refused) \subseteq ToSet(given \o refused)
          /\ ToSet(given) \cup ToSet(refused) \subseteq AllOffers
      BY <2>7, SetOfConcat
    <3> QED BY <3>1, Zenon DEF Offered, given, refused
  <2> DEFINE offered == ToSet(given \o refused)
             wanted == [valid |-> TRUE, kind |-> said.kind, code |-> CodeSaid, fields |-> FieldsSaid]
  <2>12. BodyCarried => ~(digits # 0 /\ Len(text) = 2)
    <3>1. BodyCarried <=> digits = 0 \/ Len(text) > 2 BY Zenon DEF BodyCarried
    <3> HIDE DEF digits, text
    <3>2. Len(text) = 2 => ~(Len(text) > 2) OBVIOUS
    <3> QED BY <3>1, <3>2, Zenon
  <2>13. ResultOf(said, ws) = [valid |-> TRUE, kind |-> said.kind, code |-> CodeSaid,
                               fields |-> Dict(Pairs(ws))]
    BY <2>6, Zenon DEF ResultOf
  <2> HIDE DEF said, text, got, body, digits, S, given, refused, offered
  <2>14. ASSUME refused = <<>>, BodyCarried PROVE got = wanted
    <3>1. ws = [i \in DOMAIN given |-> WordOf(given[i])] BY <2>10, <2>14
    <3>2. /\ \A i \in DOMAIN ws : HasEquals(ws[i])
          /\ Pairs(ws) = [i \in DOMAIN given |-> [key |-> <<OfferKey(given[i])>>,
                                                  value |-> Text(OfferValue(given[i]))]]
      BY <2>7, <3>1, GivenReads
    <3>3. Dict(Pairs(ws)) = FieldsSaid BY <2>8, <3>2, Zenon
    <3>4. got = ResultOf(said, ws) BY <2>9, <2>12, <2>14, <3>2, Zenon DEF ReadAs, got
    <3> QED BY <2>13, <3>3, <3>4, Zenon
  <2>15. ASSUME got.valid
         PROVE  /\ got.kind = said.kind /\ got.code = CodeSaid
                /\ \A k \in DOMAIN got.fields :
                     \E o \in offered : k = <<OfferKey(o)>> /\ got.fields[k] \in {<<>>, <<OfferValue(o)>>}
    <3>1. ~Invalid.valid BY DEF Invalid
    <3>2. got # Invalid BY <2>15, <3>1, Zenon
    <3>3. got = ResultOf(said, ws) BY <2>9, <3>2, Zenon DEF ReadAs, got
    <3> DEFINE read == Dict(Pairs(ws))
    <3>4. got.kind = said.kind /\ got.code = CodeSaid /\ got.fields = read
      <4> HIDE DEF read
      <4> QED BY <2>13, <3>3 DEF read
    <3>5. \A k \in DOMAIN read :
            \E o \in S : k = <<OfferKey(o)>> /\ read[k] \in {<<>>, <<OfferValue(o)>>}
      BY <2>10, <2>11, PartsRead
    <3> HIDE DEF read
    <3> QED BY <2>11, <3>4, <3>5, Zenon DEF offered, given, refused
  <2> QED
    BY <2>14, <2>15, Zenon
    DEF CallReadsBack, OfferKey, OfferValue, got, text, offered, given, refused, said
<1>2. CallInit => ToldInv BY InitTold
<1>3. CoreInv /\ ToldInv /\ [CoreNext]_callVars => ToldInv' BY NextTold
<1> QED BY <1>1, <1>2, <1>3, CoreInvariant, PTL DEF CoreSpec
==============================================================================
