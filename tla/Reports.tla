------------------------------- MODULE Reports -------------------------------
(***************************************************************************)
(* The two long answers of the core feature: `status` and `discovery`.     *)
(* McRpc::buildStatus and buildDiscover collect key=value fields from the  *)
(* node's identity, its capabilities and its features; StatusBuilder and   *)
(* DiscoverBuilder write them into a ReplyBuffer of MAX_REPLY bytes; the   *)
(* dispatcher then puts "#id " in front of what they wrote.  What does not *)
(* fit is left out, and the two builders leave it out differently.         *)
(*                                                                         *)
(* Only sizes matter here: a text is a sequence of pieces, each a blank, a *)
(* key, an "=" or a value of some number of bytes.                         *)
(***************************************************************************)
EXTENDS Integers, FiniteSets, SequencesExt, Codec

CONSTANTS
  Nodes,        \* the node configurations, records as in NodeOK
  CapSize,      \* [capability names -> the length of the name]
  Readings,     \* what the host's sensors say, records as in ReadingOK
  Uptimes,      \* values of the uptime callback, in seconds
  IdDigits      \* how many digits a request id has; 0 stands for no id

MAX_REPLY  == 192
MAX_TOKEN  == 72
MAX_FIELDS == 24
CSV_BUFFER == 96
CSV_TOKEN  == 32

AtMost(n, limit) == IF n > limit THEN limit ELSE n

NodeOK(n) ==
  /\ DOMAIN n = {"name", "hex", "fw", "tag", "transport", "clock", "caps", "features"}
  /\ {n.name, n.hex, n.fw, n.tag, n.transport} \subseteq Nat
  /\ n.clock \in BOOLEAN                     \* setIdentityCallbacks was called
  /\ n.caps \in Seq(DOMAIN CapSize)         \* CapabilityRegistry, every name once
  /\ IsInjective(n.caps)
  /\ n.features \in Seq({"core", "battery", "gps", "button", "display", "relay", "led"})

ReadingOK(r) ==
  /\ DOMAIN r = {"rssi", "snr", "heap", "voltage", "percent", "gps", "sats", "presses"}
  \* The lengths of the numbers as printed; 0 when the host has no such number.
  /\ {r.snr, r.heap, r.voltage, r.percent} \subseteq Nat
  /\ {r.rssi, r.sats, r.presses} \subseteq Nat \ {0}
  /\ r.gps \in {"fix", "busy", "nofix"}

ASSUME ReportsAssumption ==
  /\ \A n \in Nodes : NodeOK(n)
  /\ \A c \in DOMAIN CapSize : CapSize[c] \in Nat \ {0}
  /\ \A r \in Readings : ReadingOK(r)
  /\ Uptimes \subseteq Nat /\ 0 \in Uptimes
  /\ IdDigits \subseteq 0 .. 10              \* of a uint32_t

VARIABLES
  node,         \* the configuration the engine was started with
  uptime,       \* what _uptime_fn returns
  reading,      \* what the HostServices return
  answer        \* the last answer: what was asked, the body, the line sent

vars == <<node, uptime, reading, answer>>

(***************************************************************************)
(* UptimeFormat.h                                                          *)
(***************************************************************************)

Minute == 60
Hour   == 3600
Day    == 86400

\* How long %lu prints it.
Digits(n) == 1 + Cardinality({k \in 1 .. 9 : n >= 10 ^ k})

\* The length of one segment: a number and the letter of its unit.
Segment(count) == Digits(count) + 1

\* formatUptime: the two largest units, the second left out when it is zero.
UptimeSize(s) ==
  LET TwoUnits(big, small) ==
        LET rest == (s % big) \div small
        IN Segment(s \div big) + (IF rest = 0 THEN 0 ELSE Segment(rest))
  IN CASE s < Minute                -> Segment(s)
       [] s >= Minute /\ s < Hour   -> TwoUnits(Minute, 1)
       [] s >= Hour /\ s < Day      -> TwoUnits(Hour, Minute)
       [] OTHER                     -> TwoUnits(Day, Hour)

(***************************************************************************)
(* Fields.  add() refuses more than MAX_FIELDS and cuts a value.           *)
(***************************************************************************)

KeySize == [name |-> 4, id |-> 2, id_full |-> 7, fw |-> 2, v |-> 1, tag |-> 3,
            up |-> 2, rssi |-> 4, transport |-> 9, caps |-> 4, snr |-> 3,
            heap |-> 4, voltage |-> 7, battery |-> 7, gps |-> 3, sat |-> 3,
            button_count |-> 12, display |-> 7, relay |-> 5, led |-> 3]

\* How much of a value a builder keeps.
Kept(size) == AtMost(size, MAX_TOKEN - 1)

Field(key, size) == <<[key |-> key, size |-> Kept(size)]>>
FieldIf(cond, key, size) == IF cond THEN Field(key, size) ELSE <<>>

Accepted(fields) == SubSeq(fields, 1, AtMost(Len(fields), MAX_FIELDS))

\* canonicalizeCsv over the registered names, which are distinct in their first
\* CSV_TOKEN - 1 bytes: the length of the list, or 0 when it does not fit
\* caps_csv and caps= is left out.
WithName(size, c) == size + AtMost(CapSize[c], CSV_TOKEN - 1) + 1

CsvSize(names) ==
  LET size == FoldLeft(WithName, 0, names)
  IN IF size > CSV_BUFFER THEN 0 ELSE size - 1

CapsField(n) ==
  LET size == IF n.caps = <<>> THEN 0 ELSE CsvSize(n.caps)
  IN FieldIf(size > 0, "caps", size)

UpField(n, up) == FieldIf(n.clock, "up", UptimeSize(up))
TagField(n) == FieldIf(n.tag > 0, "tag", n.tag)
VersionField == Field("v", 3)
ShortIdField(n) == FieldIf(n.hex > 0, "id", AtMost(n.hex, 8))

\* contributeStatus of the features that have something to say.
CoreStatus(r) == FieldIf(r.snr > 0, "snr", r.snr) \o FieldIf(r.heap > 0, "heap", r.heap)

BatteryStatus(r) ==
  FieldIf(r.voltage > 0, "voltage", r.voltage)
    \o FieldIf(r.voltage > 0 /\ r.percent > 0, "battery", r.percent)

GpsStatus(r) == CASE r.gps = "fix"  -> Field("gps", 3) \o Field("sat", r.sats)
                  [] r.gps = "busy" -> Field("gps", 4)
                  [] OTHER          -> Field("gps", 5)

ButtonStatus(r) == Field("button_count", r.presses)

StatusOf(feature, r) ==
  CASE feature = "core"    -> CoreStatus(r)
    [] feature = "battery" -> BatteryStatus(r)
    [] feature = "gps"     -> GpsStatus(r)
    [] feature = "button"  -> ButtonStatus(r)
    [] OTHER               -> <<>>

\* contributeDiscover of the feature: "yes" from the three that still do.
DiscoverOf(feature) ==
  FieldIf(feature \in {"display", "relay", "led"}, feature, 3)

CollectStatus(n, r) ==
  FoldLeft(LAMBDA fields, feature : fields \o StatusOf(feature, r), <<>>, n.features)
CollectDiscover(n) ==
  FoldLeft(LAMBDA fields, feature : fields \o DiscoverOf(feature), <<>>, n.features)

FrameworkStatus(n, up, r) ==
  Field("name", n.name)
    \o ShortIdField(n) \o FieldIf(n.hex > 0, "id_full", n.hex)
    \o Field("fw", n.fw) \o VersionField
    \o TagField(n) \o UpField(n, up)
    \o FieldIf(n.clock, "rssi", r.rssi)
    \o FieldIf(n.transport > 0, "transport", n.transport)
    \o CapsField(n)

\* The form a bug would take: features ahead of the framework.
StatusFieldsFeaturesFirst(n, up, r) ==
  Accepted(CollectStatus(n, r) \o FrameworkStatus(n, up, r))
\* McRpc::buildStatus.
StatusFields(n, up, r) == Accepted(FrameworkStatus(n, up, r) \o CollectStatus(n, r))

\* The form a bug would take: the expendable fields ahead of the identity.
DiscoverFieldsIdLast(n, up) ==
  Accepted(CapsField(n) \o UpField(n, up) \o TagField(n)
             \o CollectDiscover(n)
             \o Field("fw", n.fw) \o VersionField \o ShortIdField(n))
\* McRpc::buildDiscover.
DiscoverFields(n, up) ==
  Accepted(ShortIdField(n) \o Field("fw", n.fw) \o VersionField
             \o TagField(n) \o UpField(n, up) \o CapsField(n)
             \o CollectDiscover(n))

(***************************************************************************)
(* Texts.  A ReplyBuffer takes a piece whole or not at all; torn is TRUE   *)
(* once a builder that looks at the result of append has given up.         *)
(***************************************************************************)

Piece(part, of, size) == [part |-> part, of |-> of, size |-> size]

Space == Piece("blank", "", 1)

\* A piece as a text; an empty one leaves no trace.
Text(piece) == IF piece.size = 0 THEN <<>> ELSE <<piece>>

Empty == [text |-> <<>>, size |-> 0, torn |-> FALSE]

\* The form a bug would take: room for the text and none for its NUL.
FitsToTheBrim(buf, size) == buf.size + size <= MAX_REPLY
\* ReplyBuffer::append and appendChar.
Fits(buf, size) == buf.size + size < MAX_REPLY

Put(buf, piece) == [buf EXCEPT !.text = @ \o Text(piece), !.size = @ + piece.size]

Holding(piece) == Put(Empty, piece)

\* The form a bug would take: as much of the piece as there is room for.
AppendOrCut(buf, piece) ==
  Put(buf, [piece EXCEPT !.size = AtMost(@, MAX_REPLY - 1 - buf.size)])
\* StatusBuilder::writeTo ignores the result of append,
AppendOrSkip(buf, piece) == IF Fits(buf, piece.size) THEN Put(buf, piece) ELSE buf

\* DiscoverBuilder::writeTo breaks off at the first piece that does not fit.
AppendOrStop(buf, piece) ==
  IF buf.torn \/ ~Fits(buf, piece.size) THEN [buf EXCEPT !.torn = TRUE]
  ELSE Put(buf, piece)

PiecesOf(field) == << Space,
                      Piece("key", field.key, KeySize[field.key]),
                      Piece("=", field.key, 1),
                      Piece("value", field.key, field.size) >>

AppendPieces(Add(_, _), buf, p) == Add(Add(Add(Add(buf, p[1]), p[2]), p[3]), p[4])

\* One turn of the loop over the fields.
SkipField(buf, field) == AppendPieces(AppendOrSkip, buf, PiecesOf(field))
StopField(buf, field) == AppendPieces(AppendOrStop, buf, PiecesOf(field))

WriteStatus(fields) == FoldLeft(SkipField, Holding(Piece("key", "status", 6)), fields)

DeviceName(n) ==
  Piece("value", "device", IF n.name > 0 THEN Kept(n.name) ELSE 4)

\* The form a bug would take: the result of append ignored here as well.
WriteDiscoverSkipping(n, fields) == FoldLeft(SkipField, Holding(DeviceName(n)), fields)
WriteDiscover(n, fields) == FoldLeft(StopField, Holding(DeviceName(n)), fields)

\* Dispatcher::writePrefixed: the "#id " prefix, then the body if it still fits.
WritePrefixed(digits, body) ==
  LET head == Put(Holding(Piece("id", "request_id", digits + 1)), Space)
  IN IF digits = 0 THEN body
     ELSE IF Fits(head, body.size)
     THEN [head EXCEPT !.text = @ \o body.text, !.size = @ + body.size]
     ELSE head

(***************************************************************************)
(* Reading, python/mcrpc: split_tokens and parse_kv_pairs of codec.py.     *)
(***************************************************************************)

Tokens(text) == TokensOf(text, {Space})

\* Every reader takes the id off first.
Unnumbered(tokens) ==
  IF tokens # <<>> /\ tokens[1][1].part = "id" THEN Tail(tokens) ELSE tokens

HasEquals(token) == \E i \in DOMAIN token : token[i].part = "="

\* What stands before and after the first "=".
Pair(token) ==
  LET at == Min({i \in DOMAIN token : token[i].part = "="})
  IN [key |-> SubSeq(token, 1, at - 1), value |-> SubSeq(token, at + 1, Len(token))]

\* A dict: a later pair replaces an earlier one with the same key.
Dict(pairs) ==
  [k \in {pairs[i].key : i \in DOMAIN pairs} |->
     pairs[Max({i \in DOMAIN pairs : pairs[i].key = k})].value]

\* The pairs of the tokens that are pairs, at their places.
Pairs(tokens) ==
  [i \in {i \in DOMAIN tokens : HasEquals(tokens[i])} |-> Pair(tokens[i])]

ParseKvPairs(tokens) ==
  LET pairs == Pairs(tokens)
  IN Dict([i \in {i \in DOMAIN pairs : pairs[i].key # <<>>} |-> pairs[i]])

\* parse_status and parse_discover pass over "status" or the device's name.
ParseReport(text) ==
  LET tokens == Unnumbered(Tokens(text))
  IN ParseKvPairs(IF tokens = <<>> THEN <<>> ELSE Tail(tokens))

(***************************************************************************)
(* Steps.                                                                  *)
(***************************************************************************)

Answer(asked, digits, body) ==
  answer' = [asked |-> asked, digits |-> digits, body |-> body,
             line |-> WritePrefixed(digits, body)]

NoAnswer == [asked |-> "nothing", digits |-> 0, body |-> Empty, line |-> Empty]

Init == /\ node \in Nodes
        /\ uptime = 0
        /\ reading \in Readings
        /\ answer = NoAnswer

\* CoreFeature::cmdStatus.
CmdStatus(digits) ==
  /\ "core" \in ToSet(node.features)
  /\ Answer("status", digits, WriteStatus(StatusFields(node, uptime, reading)))
  /\ UNCHANGED <<node, uptime, reading>>

\* CoreFeature::cmdDiscover.
CmdDiscover(digits) ==
  /\ "core" \in ToSet(node.features)
  /\ Answer("discovery", digits, WriteDiscover(node, DiscoverFields(node, uptime)))
  /\ UNCHANGED <<node, uptime, reading>>

\* Time passes; the sensors report something else.
Tick == /\ \E up \in Uptimes : up > uptime /\ uptime' = up
        /\ answer' = NoAnswer
        /\ UNCHANGED <<node, reading>>

Sense == /\ reading' \in Readings \ {reading}
         /\ answer' = NoAnswer
         /\ UNCHANGED <<node, uptime>>

Next == \/ \E d \in IdDigits : CmdStatus(d) \/ CmdDiscover(d)
        \/ Tick
        \/ Sense

Spec == Init /\ [][Next]_vars

-----------------------------------------------------------------------------
(* Correctness.                                                            *)

\* Every answer is a text that a ReplyBuffer holds with its NUL.
TypeOK ==
  /\ node \in Nodes /\ uptime \in Uptimes /\ reading \in Readings
  /\ answer.asked \in {"nothing", "status", "discovery", "call"}
  /\ answer.body.size < MAX_REPLY /\ answer.line.size < MAX_REPLY

\* How long what a node has to say is, before any builder keeps some of it.
Says(n, up, r) ==
  [name |-> n.name, id |-> AtMost(n.hex, 8), id_full |-> n.hex, fw |-> n.fw, v |-> 3,
   tag |-> n.tag, up |-> UptimeSize(up), rssi |-> r.rssi, transport |-> n.transport,
   caps |-> CsvSize(n.caps), snr |-> r.snr, heap |-> r.heap, voltage |-> r.voltage,
   battery |-> r.percent, sat |-> r.sats, button_count |-> r.presses,
   gps |-> CASE r.gps = "fix" -> 3 [] r.gps = "busy" -> 4 [] OTHER -> 5,
   display |-> 3, relay |-> 3, led |-> 3]

\* The value the reader finds under key is all the node has to say there, or the
\* first MAX_TOKEN - 1 bytes of it when it is longer than that.
KeyText(key) == << Piece("key", key, KeySize[key]) >>

Reads(read, key) ==
  /\ KeyText(key) \in DOMAIN read
  /\ read[KeyText(key)] = Text(Piece("value", key, Kept(Says(node, uptime, reading)[key])))

\* The identity a status begins with has room in the reply.
Takes(key, size) == 2 + KeySize[key] + Kept(size)

StatusHasRoom(n) ==
  6 + Takes("name", n.name)
    + (IF n.hex = 0 THEN 0 ELSE Takes("id", AtMost(n.hex, 8)) + Takes("id_full", n.hex))
    + Takes("fw", n.fw) + Takes("v", 3) < MAX_REPLY

\* What identifies the node in a report.  id_full is in a status only, where with
\* a long name it may leave no room for the firmware.
Identity(report) ==
  (IF node.hex = 0 THEN {} ELSE IF report = "status" THEN {"id", "id_full"} ELSE {"id"})
    \cup (IF report = "status" /\ ~StatusHasRoom(node) THEN {} ELSE {"fw", "v"})

\* A report on a buffer without end.
FieldText(field) ==
  LET p == PiecesOf(field) IN Text(p[1]) \o Text(p[2]) \o Text(p[3]) \o Text(p[4])
FullText(head, fields) == FoldLeft(LAMBDA text, f : text \o FieldText(f), Text(head), fields)

\* DiscoverBuilder::writeTo, "keep earlier fields": a discovery answer is the
\* full line up to some point, so no field is there while an earlier one is
\* missing or torn.
EarlierFieldsFirst ==
  answer.asked = "discovery" =>
    IsPrefix(answer.body.text, FullText(DeviceName(node), DiscoverFields(node, uptime)))

\* buildDiscover, "RF-critical fields first": however long the name, the id, the
\* firmware, the tag and the capabilities, a host that reads a discovery answer
\* without a request id learns the node's id, firmware and protocol version.  From
\* a status it learns both forms of the id at any lengths, and the firmware and
\* the version where these fields alone are less than MAX_REPLY bytes.
ReportsIdentify ==
  answer.asked \in {"status", "discovery"} /\ answer.digits = 0
    => LET read == ParseReport(answer.line.text)
       IN \A k \in Identity(answer.asked) : Reads(read, k)

\* Where the buffer ends, and with whatever the builders leave out or tear, what
\* the host reads under a key is nothing, or the node's whole value for that key,
\* or the first MAX_TOKEN - 1 bytes of a value longer than that (which copyToken
\* cuts without a mark): never another key's value and never less of its own.
NothingMadeUp ==
  answer.asked \in {"status", "discovery"} =>
    LET read == ParseReport(answer.line.text)
    IN \A k \in DOMAIN read :
         \E key \in DOMAIN KeySize :
           /\ k = KeyText(key)
           /\ read[k] = <<>> \/ Reads(read, key)

\* buildStatus collects the features last, so whatever they contribute displaces
\* nothing of what the framework itself can say about the node.
FeaturesDisplaceNothing ==
  answer.asked = "status" =>
    IsPrefix(WriteStatus(FrameworkStatus(node, uptime, reading)).text, answer.body.text)

-----------------------------------------------------------------------------
(* What the repository says of these texts and the code does not do.       *)

\* McRpcTypes.h, "Keep headroom so id=/protocol=* (emitted first) fit before
\* optional feature fields": also in the answer to a numbered request.
NumberedDiscoveryIdentifies ==
  answer.asked = "discovery" =>
    LET read == ParseReport(answer.line.text)
    IN \A k \in Identity("discovery") : Reads(read, k)
=============================================================================
