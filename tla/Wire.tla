-------------------------------- MODULE Wire --------------------------------
(***************************************************************************)
(* The text on the channel and its readers: Parser.cpp on the node,        *)
(* parser.py, event.py and response.py at the host, which first has to     *)
(* tell (RequestCorrelator.classify_inbound) what a line is.               *)
(*                                                                         *)
(* A line is a sequence of lexemes: punctuation, digits, and words, which  *)
(* no reader ever takes apart except by the characters between them.  Two  *)
(* words side by side are one identifier, like two characters.             *)
(***************************************************************************)
EXTENDS Integers, Sequences, SequencesExt, Codec

CONSTANTS
  Alphabet,         \* lexemes that are typed one by one
  Targets,          \* destinations build_request is given
  CommandNames,     \* command tokens
  ArgTokens,        \* arguments
  RequestIds,       \* ids as digit sequences; <<>> for a request without one
  ReplyBodies,      \* what handlers write into a ReplyBuffer
  EventNames, EventFields,  \* what features publish: a name, and <<>> or its fields
  SenderNames,      \* names the radio puts before a line
  RequestCommands,  \* _REQUEST_COMMANDS
  MAX_TOKEN, MAX_ARGS,
  MAX_REPLY,        \* what a ReplyBuffer holds, its NUL included
  IdDigits,         \* digits that fit idbuf: 15
  IdLimit,          \* 2^32
  LongLimit,        \* where strtoul() saturates: ULONG_MAX + 1, 2^32 or 2^64
  MAX_GLUED,        \* sizeof(glued) of the command line tool: 96
  MaxTyped,         \* bound: lexemes typed by hand on an empty line
  MaxAppended,      \* bound: lexemes typed after a message
  NoMessage

VARIABLES
  line,     \* the text on the channel
  sent,     \* ghost: the message the line was made from, or NoMessage
  typed     \* bound: lexemes typed so far

vars == <<line, sent, typed>>

Blank    == {" "}
Break    == {"nl"}
Digits   == {"0", "1", "2", "3", "4", "5", "6", "7", "8", "9"}
HexDigit == Digits \cup {"a"}
Marks    == {"#", "@", ":", ".", "="}
\* A letter outside ASCII: isalnum() takes it, isIdentChar does not.
Foreign  == {"eacute"}
Groups   == {"group", "GROUP", "Group"}
Words    == {"z", "all", "ALL", "self", "node", "ping", "discover", "discovery",
             "pong", "ok", "err", "status", "gps", "battery", "voltage",
             "charging", "caps", "help", "event", "low", "value", "id", "fw",
             "profile", "protocol", "sdk", "fix"} \cup Groups
Ident    == HexDigit \cup Words
Lexemes  == Blank \cup Break \cup Marks \cup Foreign \cup Ident

NoId == -1
NoLimit == -1

ASSUME WireAssumption ==
  /\ Alphabet \subseteq Lexemes
  /\ ReplyBodies \subseteq Seq(Lexemes) \ {<<>>}
  /\ EventNames \subseteq Seq(Lexemes) /\ EventFields \subseteq Seq(Lexemes)
  /\ SenderNames \subseteq Seq(Lexemes) /\ ArgTokens \subseteq Seq(Lexemes)
  /\ RequestIds \subseteq Seq(Digits)
  \* A word that begins with a hex digit may not follow "@", so none is typed.
  /\ Alphabet \cap {"all", "ALL", "discover", "discovery", "err", "battery",
                    "charging", "caps", "event", "fw", "fix"} = {}
  /\ \A n \in SenderNames : \A i \in DOMAIN n : n[i] # ":"
  /\ \A a \in ArgTokens : a # <<>> /\ \A i \in DOMAIN a : a[i] \notin Blank \cup Break
  /\ MAX_TOKEN \in Nat \ {0, 1} /\ MAX_ARGS \in Nat /\ MAX_REPLY \in Nat /\ IdDigits \in Nat \ {0}
  /\ IdLimit \in Nat \ {0} /\ LongLimit \in Nat /\ LongLimit >= IdLimit
  /\ MAX_GLUED \in Nat \ {0}
  /\ MaxTyped \in Nat /\ MaxAppended \in 0 .. MaxTyped

\* What handlers write begins with a word of its own, or with the name of the
\* node, which nobody calls by the word for all nodes or for itself.  They write
\* it into a ReplyBuffer, so it fits one.
ASSUME BodyAssumption ==
  \A b \in ReplyBodies :
    /\ b[1] \in Words \ {"all", "ALL", "self"}
    /\ Len(b) > 1 => b[2] \in Blank \cup Break
    /\ Len(b) < MAX_REPLY

-----------------------------------------------------------------------------
(* Reading. *)

AtMost(n, limit) == IF limit # NoLimit /\ n > limit THEN limit ELSE n

\* Where the run of lexemes of class that begins at i ends.
Run(s, i, class) ==
  CHOOSE e \in i .. Len(s) + 1 :
    /\ e > Len(s) \/ s[e] \notin class
    /\ \A k \in i .. e - 1 : s[k] \in class

Fold(l) == IF l \in Groups THEN "group" ELSE IF l = "ALL" THEN "all" ELSE l
Lower(token) == [i \in DOMAIN token |-> Fold(token[i])]

DigitValue == [d \in Digits |->
  CHOOSE v \in 0 .. 9 : <<"0", "1", "2", "3", "4", "5", "6", "7", "8", "9">>[v + 1] = d]
Value(digits) == FoldLeft(LAMBDA n, d : 10 * n + DigitValue[d], 0, digits)

\* readToken(): blanks, then a run of class; its text is <<>> when it fails.
Token(s, i, class) ==
  LET from == Run(s, i, Blank)
      next == Run(s, from, class)
  IN [text |-> SubSeq(s, from, next - 1), next |-> next]

(***************************************************************************)
(* Parser::parse and parser.parse read the same grammar; what differs is   *)
(* named here.  copyToken cuts, argc stops at MCRPC_MAX_ARGS, idbuf holds  *)
(* so many digits and request_id so many bits; Python has no such limits,  *)
(* folds all of "group:" and takes any letter for an identifier.           *)
(***************************************************************************)
\* The form a bug would take: an idbuf that is one digit too short.
NativeShortIdbuf == [ident |-> Ident, groups |-> {"group", "GROUP"}, token |-> MAX_TOKEN - 1,
                     args |-> MAX_ARGS, digits |-> IdDigits - 1, limit |-> IdLimit]
Native == [ident |-> Ident, groups |-> {"group", "GROUP"}, token |-> MAX_TOKEN - 1,
           args |-> MAX_ARGS, digits |-> IdDigits, limit |-> IdLimit]
Python == [ident |-> Ident \cup Foreign, groups |-> Groups, token |-> NoLimit,
           args |-> NoLimit, digits |-> NoLimit, limit |-> 0]

Cut(d, token) == SubSeq(token, 1, AtMost(Len(token), d.token))

AddressOf(token) ==
  IF Lower(token) = <<"all">> THEN "All"
  ELSE IF Lower(token) = <<"self">> THEN "Self" ELSE "Named"

\* Parser.cpp:63-87.  The search for a '#' inside the target (89-105) never
\* finds one: no identifier and no hex string has it.
Destination(d, s, p) ==
  IF s[p] = "@"
  THEN LET e == Run(s, p + 1, HexDigit)
       IN [kind |-> "Id", target |-> Cut(d, SubSeq(s, p + 1, e - 1)), next |-> e]
  ELSE IF p < Len(s) /\ s[p] \in d.groups /\ s[p + 1] = ":"
  THEN LET t == Token(s, p + 2, d.ident)
       IN [kind |-> "Group", target |-> Cut(d, t.text), next |-> t.next]
  ELSE LET t == Token(s, p, d.ident)
       IN [kind |-> AddressOf(Cut(d, t.text)), target |-> Cut(d, t.text), next |-> t.next]

\* strtoul() saturates; request_id keeps the low 32 bits.
StrToUL(digits) == IF Value(digits) < LongLimit THEN Value(digits) ELSE LongLimit - 1
Narrowed(d, digits) == IF d.limit = 0 THEN Value(digits) ELSE StrToUL(digits) % d.limit

\* Parser.cpp:108-120.
IdAfter(d, s, p) ==
  LET q == Run(s, p, Blank)
      found == q <= Len(s) /\ s[q] = "#"
      e == IF found THEN q + 1 + AtMost(Run(s, q + 1, Digits) - (q + 1), d.digits) ELSE q
  IN [malformed |-> found /\ e = q + 1, next |-> e,
      id |-> IF found THEN Narrowed(d, SubSeq(s, q + 1, e - 1)) ELSE NoId]

\* "discover" is another name of "discovery".
Canonical(command) == IF command = <<"discover">> THEN <<"discovery">> ELSE command

\* The form a bug would take: argc <= MCRPC_MAX_ARGS.
ArgumentsOneMore(d, s, p) ==
  LET args == TokensOf(SubSeq(s, p, Run(s, p, Lexemes \ Break) - 1), Blank)
  IN [i \in 1 .. AtMost(Len(args), d.args + 1) |-> Cut(d, args[i])]

\* Parser.cpp:133-137: arguments end with the line or with the array.
Arguments(d, s, p) ==
  LET end == Run(s, p, Lexemes \ Break)
      args == TokensOf(SubSeq(s, p, end - 1), Blank)
  IN [i \in 1 .. AtMost(Len(args), d.args) |-> Cut(d, args[i])]

Failed(why) == [result |-> why]

ParsedFrom(d, s, p) ==
  LET dest == Destination(d, s, p)
      rid == IdAfter(d, s, dest.next)
      cmd == Token(s, rid.next, d.ident)
  IN IF dest.target = <<>> \/ rid.malformed THEN Failed("Malformed")
     ELSE IF cmd.text = <<>> THEN Failed("MissingCommand")
     ELSE [result |-> "Ok", kind |-> dest.kind, target |-> dest.target, id |-> rid.id,
           command |-> Canonical(Lower(Cut(d, cmd.text))), args |-> Arguments(d, s, cmd.next)]

ParseAs(d, s) ==
  LET body == Run(s, Run(s, 1, Blank), Break)
      p == Run(s, body, Blank)
  IN IF body > Len(s) THEN Failed("Empty")
     ELSE IF p > Len(s) THEN Failed("MissingTarget")
     ELSE ParsedFrom(d, s, p)

NativeParse(s) == ParseAs(Native, s)
PythonParse(s) == ParseAs(Python, s)

\* stripSenderPrefix(): up to the first colon, when a blank follows it.
StripSenderPrefix(s) ==
  LET colon == Run(s, 1, Lexemes \ {":"})
  IN IF colon < Len(s) /\ s[colon + 1] \in Blank
     THEN SubSeq(s, Run(s, colon + 1, Blank), Len(s)) ELSE s

-----------------------------------------------------------------------------
(* What the host takes a line for. *)

SplitTokens(s) == TokensOf(s, Blank \cup Break)

IsEvent(s) == SplitTokens(s) # <<>> /\ Lower(SplitTokens(s)[1]) = <<"event">>

LooksLikeRequest(s) ==
  LET r == PythonParse(s) IN r.result = "Ok" /\ r.command \in RequestCommands

\* _strip_request_id(): "#" and digits, as a token of its own.
CarriesId(tokens) ==
  /\ tokens # <<>>
  /\ Len(tokens[1]) > 1 /\ tokens[1][1] = "#"
  /\ \A i \in 2 .. Len(tokens[1]) : tokens[1][i] \in Digits

IdOf(s) ==
  LET tokens == SplitTokens(s)
  IN IF CarriesId(tokens) THEN Value(Tail(tokens[1])) ELSE NoId

\* The form a bug would take: the id is left where it was.
UnnumberedNever(tokens) == tokens
Unnumbered(tokens) == IF CarriesId(tokens) THEN Tail(tokens) ELSE tokens

Keys(tokens) ==
  {SubSeq(tokens[i], 1, Run(tokens[i], 1, Lexemes \ {"="}) - 1) :
     i \in {i \in DOMAIN tokens : "=" \in ToSet(tokens[i])}} \ {<<>>}

KindByHead == [h \in {<<"ok">>, <<"err">>, <<"event">>, <<"status">>, <<"gps">>,
                      <<"battery">>, <<"voltage">>, <<"charging">>, <<"caps">>, <<"help">>}
               |-> h[1]]

\* parse_response(), in the order of its tests.
ResponseKind(s) ==
  LET tokens == Unnumbered(SplitTokens(s))
      head == Lower(tokens[1])
      keys == Keys(Tail(tokens))
  IN IF tokens = <<>> THEN "unknown"
     ELSE IF head = <<"pong">> /\ Len(tokens) = 1 THEN "pong"
     ELSE IF head \in DOMAIN KindByHead THEN KindByHead[head]
     ELSE IF keys \cap {<<"profile">>, <<"protocol">>, <<"sdk">>} # {} THEN "discover"
     ELSE IF keys # {} THEN "data" ELSE "unknown"

\* classify_inbound(), but for the pending table.
Classify(s) ==
  LET body == StripSenderPrefix(s)
  IN IF IsEvent(body) THEN [kind |-> "event", id |-> NoId]
     ELSE IF LooksLikeRequest(body) THEN [kind |-> "other", id |-> NoId]
     ELSE [kind |-> "response", id |-> IdOf(body)]

-----------------------------------------------------------------------------
(* What is sent. *)

WithId(id) == IF id = <<>> THEN <<>> ELSE <<"#">> \o id

\* build_request(): `target[#id] command [args]`.
RequestLine(target, id, command, args) ==
  FoldLeft(LAMBDA text, a : text \o <<" ">> \o a,
           target \o WithId(id) \o <<" ">> \o command, args)

\* ReplyBuffer::append takes a text whole or not at all.
Fits(buf, text) == Len(buf) + Len(text) < MAX_REPLY
Appended(buf, text) == IF Fits(buf, text) THEN buf \o text ELSE buf

\* OutboundBuilder::request(): only what becomes of the command is looked at.
OutboundRequest(target, id, command) ==
  LET head == Appended(Appended(Appended(<<>>, target), WithId(id)), <<" ">>)
  IN [ok |-> Fits(head, command), text |-> Appended(head, command)]

\* The form a bug would take: an argument that does not fit is passed over.
OutboundWithArgsSkipping(target, id, command, args) ==
  [ok |-> OutboundRequest(target, id, command).ok,
   text |-> FoldLeft(LAMBDA buf, a : Appended(Appended(buf, <<" ">>), a),
                     OutboundRequest(target, id, command).text, args)]

\* OutboundBuilder::requestWithArgs() gives up at the first argument that does
\* not fit.
OutboundWithArgs(target, id, command, args) ==
  FoldLeft(LAMBDA out, a :
             LET buf == Appended(out.text, <<" ">>)
             IN IF out.ok THEN [ok |-> Fits(buf, a), text |-> Appended(buf, a)] ELSE out,
           OutboundRequest(target, id, command), args)

\* Numbers as they are printed, with no zero in front.
Numerals == {d \in UNION {[1 .. k -> Digits] : k \in 1 .. IdDigits} : d = <<"0">> \/ d[1] # "0"}

\* A target and a command are as the README of the repository writes them, and a
\* node named "event" cannot be told from an event.
ASSUME RequestAssumption ==
  /\ Targets \subseteq Seq(Lexemes)
  /\ \A t \in Targets :
       \/ t \in Seq(Ident) /\ t # <<>> /\ Lower(t) # <<"event">>
       \/ Len(t) > 1 /\ t[1] = "@" /\ Tail(t) \in Seq(HexDigit)
       \/ /\ Len(t) > 2 /\ t[1] = "group" /\ t[2] = ":"
          /\ SubSeq(t, 3, Len(t)) \in Seq(Ident)
  /\ \A c \in CommandNames : c \in Seq(Ident) /\ c # <<>> /\ Lower(c) = c

\* A ReplyBuffer holds every target, id and command that the node's arrays hold,
\* and idbuf every number below 2^32: 192 bytes, two tokens of 72, 15 digits.
ASSUME SizeAssumption ==
  /\ 2 * MAX_TOKEN + IdDigits + 2 < MAX_REPLY
  /\ \A n \in 0 .. IdLimit - 1 : \E d \in Numerals : Value(d) = n

\* strtoul() and the cast to uint32_t, printed again; no digits read as 0.
DigitsOf(n) == CHOOSE d \in Numerals : Value(d) = n
Reprinted(digits) == DigitsOf(StrToUL(digits) % IdLimit)
Printed(id) == IF id = <<>> THEN <<>> ELSE Reprinted(id)

\* `mcrpc build request`: "#id" may stand at the end of the first word, which is
\* cut to the array `glued`, or be a word of its own; what becomes of the
\* arguments is not looked at.
CliRequest(argv) ==
  LET glued == SubSeq(argv[1], 1, AtMost(Len(argv[1]), MAX_GLUED - 1))
      hash == Run(glued, 1, Lexemes \ {"#"})
      own  == hash > Len(glued) /\ argv[2][1] = "#"
      id   == IF own THEN Reprinted(Tail(argv[2]))
              ELSE IF hash > Len(glued) THEN <<>>
              ELSE Reprinted(SubSeq(glued, hash + 1, Len(glued)))
      rest == SubSeq(argv, IF own THEN 3 ELSE 2, Len(argv))
  IN FoldLeft(LAMBDA buf, a : Appended(Appended(buf, <<" ">>), a),
              OutboundRequest(SubSeq(glued, 1, hash - 1), id, Head(rest)).text, Tail(rest))

\* The form a bug would take: the id glued to the first word, as in a request.
ReplyLineGlued(id, body) == Appended(<<body[1]>> \o WithId(id), Tail(body))

\* Dispatcher::writePrefixed: `[#id ]body`.  A body that does not fit behind the
\* id is dropped whole, and the id goes out alone.
ReplyHead(id) == IF id = <<>> THEN <<>> ELSE WithId(id) \o <<" ">>
ReplyLine(id, body) == Appended(ReplyHead(id), body)

\* McRpc::onEvent: each piece is appended whole or left out.
EventLine(name, kv) ==
  LET head == Appended(Appended(<<>>, <<"event", " ">>), name)
  IN IF kv = <<>> THEN head ELSE Appended(Appended(head, <<" ">>), kv)
EventBodies == {EventLine(name, kv) : name \in EventNames, kv \in EventFields}

Init == line = <<>> /\ sent = NoMessage /\ typed = 0

\* A message is there: so many lexemes may follow.
Send(text, message) ==
  /\ line = <<>>
  /\ line' = text
  /\ sent' = message
  /\ typed' = MaxTyped - MaxAppended

Requested(by, target, id, command, args) ==
  [msg |-> "request", by |-> by, target |-> target, id |-> id, command |-> command,
   args |-> args, relayed |-> FALSE]

BuildRequest(target, id, command, args) ==
  Send(RequestLine(target, id, command, args),
       Requested("python", target, id, command, args))

\* A program sends what requestWithArgs() says is complete.
BuildOutbound(target, id, command, args) ==
  LET out == OutboundWithArgs(target, id, command, args)
  IN out.ok /\ Send(out.text, Requested("native", target, id, command, args))

BuildByCli(target, id, command, args) ==
  \E argv \in {<<target \o WithId(id), command>> \o args}
                \cup (IF id = <<>> THEN {} ELSE {<<target, WithId(id), command>> \o args}) :
    Send(CliRequest(argv), Requested("cli", target, id, command, args))

\* The node prints the id it has read.
Reply(id, body) ==
  Send(ReplyLine(Printed(id), body),
       [msg |-> "reply", id |-> Printed(id), body |-> body, relayed |-> FALSE])

PublishEvent(body) ==
  Send(body, [msg |-> "event", id |-> <<>>, body |-> body, relayed |-> FALSE])

\* The radio hands a line to its readers as "<sender name>: <line>".
Relay(name) ==
  /\ sent # NoMessage /\ ~sent.relayed
  /\ line' = name \o <<":", " ">> \o line
  /\ sent' = [sent EXCEPT !.relayed = TRUE]
  /\ UNCHANGED typed

\* Someone types, on an empty line or after what is there.
Type(l) ==
  /\ typed < MaxTyped
  /\ line' = Append(line, l)
  /\ sent' = NoMessage
  /\ typed' = typed + 1

SendRequest ==
  /\ line = <<>>
  /\ \E target \in Targets, id \in RequestIds, command \in CommandNames,
        args \in {<<>>} \cup {<<a>> : a \in ArgTokens} \cup (ArgTokens \X ArgTokens) :
       \/ BuildRequest(target, id, command, args)
       \/ BuildOutbound(target, id, command, args)
       \/ BuildByCli(target, id, command, args)

Next ==
  \/ SendRequest
  \/ \E id \in RequestIds, body \in ReplyBodies : Reply(id, body)
  \/ \E body \in EventBodies : PublishEvent(body)
  \/ \E name \in SenderNames : Relay(name)
  \/ \E l \in Alphabet : Type(l)

Spec == Init /\ [][Next]_vars

-----------------------------------------------------------------------------
(* Properties. *)

\* What parse() leaves in a struct Request fits its arrays.

FitsRequest(r) ==
  \/ r.result \in {"Empty", "MissingTarget", "MissingCommand", "Malformed"}
  \/ /\ r.result = "Ok" /\ r.kind \in {"Named", "All", "Self", "Group", "Id"}
     /\ r.id \in {NoId} \cup 0 .. IdLimit - 1
     /\ Len(r.args) <= MAX_ARGS
     /\ \A t \in {r.target, r.command} \cup ToSet(r.args) : Len(t) \in 1 .. MAX_TOKEN - 1

TypeOK ==
  /\ line \in Seq(Lexemes)
  /\ typed \in 0 .. MaxTyped
  /\ FitsRequest(NativeParse(line))

\* What separates parser.py from Parser.cpp, which it promises to match: "group"
\* in mixed case, letters that are not ASCII, and what exceeds a limit of the
\* node.  On every other line both say the same, errors included.
MixedCaseGroup(s) == \E i \in 1 .. Len(s) - 1 : s[i] = "Group" /\ s[i + 1] = ":"

WithinLimits(r) ==
  r.result = "Ok" =>
    /\ Len(r.target) < MAX_TOKEN /\ Len(r.command) < MAX_TOKEN
    /\ Len(r.args) <= MAX_ARGS /\ \A i \in DOMAIN r.args : Len(r.args[i]) < MAX_TOKEN
    /\ r.id < IdLimit

ShortIds(s) ==
  \A i \in DOMAIN s : s[i] = "#" => Run(s, i + 1, Digits) - (i + 1) <= IdDigits

ParsersAgree ==
  ~MixedCaseGroup(line) /\ ToSet(line) \cap Foreign = {} /\ ShortIds(line)
    /\ WithinLimits(PythonParse(line))
    => NativeParse(line) = PythonParse(line)

\* A request within the node's limits is the request the node parses, after the
\* radio has put a sender's name before it, and is a request to every host that
\* overhears it if its command is a known one.  The command line tool leaves out
\* an argument that its buffer does not hold, and everything else arrives, if its
\* array holds the first word: one digit more and the id would be another one.
Addressed(target) ==
  IF target[1] = "@" THEN [kind |-> "Id", target |-> Tail(target)]
  ELSE IF Len(target) > 1 /\ target[2] = ":"
  THEN [kind |-> "Group", target |-> SubSeq(target, 3, Len(target))]
  ELSE [kind |-> AddressOf(target), target |-> target]

IdMeant == IF sent.id = <<>> THEN NoId ELSE Value(sent.id)

\* What a buffer of the sender or of the node would cut without a word.
NothingCut ==
  IF sent.by = "cli" THEN Len(sent.target \o WithId(sent.id)) < MAX_GLUED
  ELSE Len(sent.id) <= IdDigits

LeavesOut(args, all) ==
  \E place \in [DOMAIN args -> DOMAIN all] :
    /\ \A i, j \in DOMAIN args : i < j => place[i] < place[j]
    /\ \A i \in DOMAIN args : args[i] = all[place[i]]

RequestArrives ==
  sent # NoMessage /\ sent.msg = "request" /\ sent.relayed /\ NothingCut =>
    LET to == Addressed(sent.target)
        meant == [result |-> "Ok", kind |-> to.kind, target |-> to.target, id |-> IdMeant,
                  command |-> Canonical(sent.command), args |-> sent.args]
        got == NativeParse(StripSenderPrefix(line))
    IN WithinLimits(meant) =>
         /\ IF sent.by = "cli"
            THEN LeavesOut(got.args, sent.args) /\ [got EXCEPT !.args = sent.args] = meant
            ELSE got = meant
         /\ Canonical(sent.command) \in RequestCommands => Classify(line).kind = "other"

\* A reply that carries an id is a response to the host that hears it, under
\* that id, whatever the handler wrote after the id.  The id and the sender's
\* name change nothing of its kind, if the id left room for the body; if not, it
\* still closes the request, and is of no kind.
ReplyCorrelates ==
  sent # NoMessage /\ sent.msg = "reply" /\ sent.id # <<>> /\ sent.relayed =>
    /\ Classify(line) = [kind |-> "response", id |-> Value(sent.id)]
    /\ ResponseKind(StripSenderPrefix(line)) =
         IF Fits(ReplyHead(sent.id), sent.body) THEN ResponseKind(sent.body) ELSE "unknown"

\* The channel is shared: a reply with an id is no request to any node that
\* overhears it, and a reply without one, or an event, can be a request only to
\* a node that has its first word for a name.
AnswersAreNotRequests ==
  sent # NoMessage /\ sent.msg \in {"reply", "event"} /\ sent.relayed =>
    LET r == NativeParse(StripSenderPrefix(line))
    IN r.result = "Ok" =>
         sent.id = <<>> /\ r.kind = "Named" /\ r.target = Cut(Native, <<sent.body[1]>>)

-----------------------------------------------------------------------------
(* What a comment says and the code does not do. *)

\* parser.py, "behaviour must match src/Parser.cpp".
PythonMatchesNative == NativeParse(line) = PythonParse(line)
=============================================================================
