-------------------------------- MODULE Calls --------------------------------
(***************************************************************************)
(* The `call` command: CoreFeature::cmdCall checks the procedure's name    *)
(* and gives the call to the host, whose HostServices::handleCall writes   *)
(* its result with CallResult.h; at the other end                          *)
(* python/mcrpc/call_result.py reads it.  What a host writes, and in which *)
(* order, is the host's affair; the buffer and the two readings of one     *)
(* grammar are the framework's.                                            *)
(***************************************************************************)
EXTENDS Reports

CONSTANTS
  Procs,       \* first arguments of `call`, as sequences of characters
  Offers,      \* what hosts give appendKv: records as in OfferOK
  Codes,       \* what hosts give err()
  CodeSize,    \* [codes -> length]; the code "" stands for none
  MaxOffers,   \* bound: appendKv calls after one result word
  CallNodes,   \* bound: nodes that are called, right after they started
  NoCall

Letters    == {"a"}
Digit      == {"0"}
Characters == Letters \cup Digit \cup {"_", ".", "-"}

OfferOK(o) == /\ DOMAIN o = {"key", "value", "keySize", "valueSize", "legal"}
              /\ o.keySize \in Nat \ {0} /\ o.valueSize \in Nat
              /\ o.legal \in BOOLEAN   \* a key, and no blank or "=" where none may be

ASSUME CallsAssumption ==
  /\ Procs \subseteq Seq(Characters) /\ <<>> \notin Procs
  /\ \A o \in Offers : OfferOK(o)
  \* A code fits a reply; the framework's own are as long as their names.
  /\ \A code \in (Codes \ {""}) \cup {"internal", "invalid_argument", "unknown_proc"} :
       code \in DOMAIN CodeSize /\ CodeSize[code] \in 1 .. MAX_REPLY - 5
  /\ CodeSize["internal"] = 8 /\ CodeSize["invalid_argument"] = 16
  /\ CodeSize["unknown_proc"] = 12
  /\ MaxOffers \in Nat /\ CallNodes \subseteq Nodes

VARIABLE
  call    \* the call that the node is at or did last, or NoCall:
          \*   running: handleCall has not returned;  proc, digits: the request;
          \*   reply: the ReplyBuffer;  said: ghost, what was to be written;
          \*   handed: ghost, the host was asked to handle it

callVars == <<vars, call>>

-----------------------------------------------------------------------------
(* Names of procedures. *)

\* The form a bug would take: a digit may begin a segment.
IsProcSegmentAnyHead(seg) ==
  seg # <<>> /\ \A i \in DOMAIN seg : seg[i] \in Letters \cup Digit \cup {"_"}
IsProcSegment(seg) ==
  /\ seg # <<>> /\ seg[1] \in Letters
  /\ \A i \in 2 .. Len(seg) : seg[i] \in Letters \cup Digit \cup {"_"}

\* CallResult::isValidProc, around the first dot.
IsValidProc(word) ==
  LET dots == {i \in DOMAIN word : word[i] = "."}
  IN /\ dots # {}
     /\ LET dot == Min(dots)
        IN /\ dots \subseteq 1 .. dot
           /\ IsProcSegment(SubSeq(word, 1, dot - 1))
           /\ IsProcSegment(SubSeq(word, dot + 1, Len(word)))

\* is_valid_proc: one dot, and _PROC_RE.
PythonValidProc(word) ==
  \E dot \in DOMAIN word :
    /\ \A i \in DOMAIN word : word[i] = "." <=> i = dot
    /\ dot > 1 /\ dot < Len(word)
    /\ word[1] \in Letters /\ word[dot + 1] \in Letters
    /\ \A i \in DOMAIN word \ {dot} : word[i] # "-"

-----------------------------------------------------------------------------
(* Writing a result, CallResult.h. *)

WordSize == [ok |-> 2, busy |-> 4, retry |-> 5, err |-> 3]

\* ok(), busy(), retry() and err() clear the buffer first.
ResultLine(kind, code) ==
  LET word == Holding(Piece("key", kind, WordSize[kind]))
  IN IF kind # "err" THEN word
     ELSE AppendOrSkip(Put(word, Space), Piece("code", code, CodeSize[code]))

Coded(code) == IF code = "" THEN "internal" ELSE code

KvPieces(o) == << Space, Piece("key", o.key, o.keySize),
                  Piece("=", o.key, 1), Piece("value", o.value, o.valueSize) >>

\* The form a bug would take: a pair that does not fit is not told of.
AppendKvUnnoticed(buf, o) ==
  IF o.legal THEN [ok |-> TRUE, buf |-> AppendPieces(AppendOrSkip, buf, KvPieces(o))]
  ELSE [ok |-> FALSE, buf |-> buf]

\* appendKv(): a pair that is not legal is refused; else its pieces, up to the
\* first that does not fit.
AppendKv(buf, o) ==
  LET out == AppendPieces(AppendOrStop, buf, KvPieces(o))
  IN IF o.legal THEN [ok |-> ~out.torn, buf |-> [out EXCEPT !.torn = FALSE]]
     ELSE [ok |-> FALSE, buf |-> buf]

-----------------------------------------------------------------------------
(* Reading a result, parse_call_result. *)

Invalid == [valid |-> FALSE]

ParseCallResult(text) ==
  LET tokens == Unnumbered(Tokens(text))
      isErr == tokens # <<>> /\ tokens[1][1].of = "err"
      rest == SubSeq(tokens, IF isErr THEN 3 ELSE 2, Len(tokens))
  IN IF \/ tokens = <<>>
        \/ isErr /\ Len(tokens) < 2
        \/ \E i \in DOMAIN rest : ~HasEquals(rest[i])
        \/ tokens[1][1].of \notin DOMAIN WordSize
     THEN Invalid
     ELSE [valid |-> TRUE, kind |-> tokens[1][1].of,
           code |-> IF isErr THEN tokens[2] ELSE <<>>, fields |-> Dict(Pairs(rest))]

-----------------------------------------------------------------------------
(* Steps. *)

Said(kind, code) == [kind |-> kind, code |-> code, given |-> <<>>, refused |-> <<>>]
SaidNothing == Said("ok", "")

Respond(c, body, said) ==
  /\ Answer("call", c.digits, body)
  /\ call' = [c EXCEPT !.running = FALSE, !.reply = body, !.said = said]
  /\ UNCHANGED <<node, uptime, reading>>

Pending(proc, digits) ==
  [running |-> TRUE, proc |-> proc, digits |-> digits, reply |-> Empty, said |-> SaidNothing,
   handed |-> FALSE]

\* What the handler of `call` refuses itself; the pair always fits.
Reason == [key |-> "reason", value |-> "proc", keySize |-> 6, valueSize |-> 4, legal |-> TRUE]

Callable == call = NoCall /\ node \in CallNodes /\ uptime = 0 /\ "core" \in ToSet(node.features)

\* CoreFeature::cmdCall up to the call of handleCall; <<>> for no argument.
CmdCall(proc, digits) ==
  /\ Callable
  /\ IF proc = <<>>
     THEN Respond(Pending(proc, digits), ResultLine("err", "invalid_argument"),
                  Said("err", "invalid_argument"))
     ELSE IF ~IsValidProc(proc)
     THEN Respond(Pending(proc, digits),
                  AppendKv(ResultLine("err", "invalid_argument"), Reason).buf,
                  [Said("err", "invalid_argument") EXCEPT !.given = <<Reason>>])
     ELSE /\ call' = [Pending(proc, digits) EXCEPT !.handed = TRUE]
          /\ answer' = NoAnswer /\ UNCHANGED <<node, uptime, reading>>

Running == call # NoCall /\ call.running

\* The host writes a result word, the first or another one.
HostWrites(kind, code) ==
  /\ Running
  /\ call' = [call EXCEPT !.reply = ResultLine(kind, Coded(code)),
                          !.said = Said(kind, IF kind = "err" THEN Coded(code) ELSE "")]
  /\ UNCHANGED vars

\* The host appends a pair to it and may go on when it was refused.
HostAppends(o) ==
  /\ Running /\ call.reply # Empty
  /\ Len(call.said.given) + Len(call.said.refused) < MaxOffers
  /\ LET out == AppendKv(call.reply, o)
     IN call' = [call EXCEPT !.reply = out.buf,
                             !.said.given = IF out.ok THEN Append(@, o) ELSE @,
                             !.said.refused = IF out.ok THEN @ ELSE Append(@, o)]
  /\ UNCHANGED vars

\* handleCall returns, and the rest of cmdCall.
HostReturns(handled) ==
  /\ Running
  /\ IF ~handled THEN Respond(call, ResultLine("err", "unknown_proc"), Said("err", "unknown_proc"))
     ELSE IF call.reply = Empty THEN Respond(call, ResultLine("ok", ""), Said("ok", ""))
     ELSE Respond(call, call.reply, call.said)

CallInit == Init /\ call = NoCall

CallNext ==
  \/ \E d \in IdDigits, proc \in Procs \cup {<<>>} : CmdCall(proc, d)
  \/ \E kind \in DOMAIN WordSize \ {"err"} : HostWrites(kind, "")
  \/ \E code \in Codes : HostWrites("err", code)
  \/ \E o \in Offers : HostAppends(o)
  \/ \E handled \in BOOLEAN : HostReturns(handled)

\* A call is the last request of a behaviour, which leaves nothing behind.
CoreNext == CallNext \/ (call = NoCall /\ Next /\ UNCHANGED call)

CoreSpec == CallInit /\ [][CoreNext]_callVars

-----------------------------------------------------------------------------
(* Correctness. *)

\* The answer to a call, too, is a text that a ReplyBuffer holds with its NUL,
\* and so is what the host has written of it.
CoreTypeOK ==
  /\ TypeOK
  /\ Running => call.reply.size < MAX_REPLY

Called == answer.asked = "call"

FieldsSaid ==
  Dict([i \in DOMAIN call.said.given |->
          [key |-> <<Piece("key", call.said.given[i].key, call.said.given[i].keySize)>>,
           value |-> Text(Piece("value", call.said.given[i].value, call.said.given[i].valueSize))]])

\* writePrefixed has put the body behind the id.
BodyCarried == answer.digits = 0 \/ Len(answer.line.text) > 2

CodeSaid ==
  IF call.said.code = "" THEN <<>> ELSE <<Piece("code", call.said.code, CodeSize[call.said.code])>>

\* When every pair was taken and the line fits behind its id, parse_call_result
\* gives back what the host said, pair by pair.  In every other case it gives
\* back nothing valid, or nothing the host did not say: the host's result word,
\* its code, and values it offered, or none, under the keys it offered them for.
CallReadsBack ==
  Called =>
    LET got == ParseCallResult(answer.line.text)
        said == [valid |-> TRUE, kind |-> call.said.kind, code |-> CodeSaid,
                 fields |-> FieldsSaid]
        offered == ToSet(call.said.given \o call.said.refused)
    IN /\ call.said.refused = <<>> /\ BodyCarried => got = said
       /\ got.valid =>
            /\ got.kind = said.kind /\ got.code = said.code
            /\ \A k \in DOMAIN got.fields :
                 \E o \in offered :
                   /\ k = <<Piece("key", o.key, o.keySize)>>
                   /\ got.fields[k] \in {<<>>, <<Piece("value", o.value, o.valueSize)>>}

\* A host that asks is_valid_proc before it calls is never told that the name
\* of its procedure is wrong, and one that is told so could have known.
ProcsAgree ==
  Called /\ call.proc # <<>> =>
    (PythonValidProc(call.proc) <=> call.handed)
=============================================================================
