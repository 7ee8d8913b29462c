------------------------------ MODULE Dispatcher ------------------------------
(***************************************************************************)
(* src/Dispatcher.cpp: whether a request is for this node, which text      *)
(* answers it, and the "#id " prefix by which the caller correlates.       *)
(*                                                                         *)
(* A parsed Request is a record                                            *)
(*    [kind, name, hex, rid, cmd]                                          *)
(* with the target text in name (kinds Group and Named) or its hex digits  *)
(* in hex (kind Id); rid is NoId when has_request_id is false.             *)
(***************************************************************************)
EXTENDS Integers, Sequences

CONSTANTS
  Nodes,         \* the devices that run an McRpc engine
  Texts,         \* spellings of node and group names; "" is the unset name
  Fold,          \* [Texts -> Texts]: the lower-case spelling, as ieq folds it
  NodeName,      \* [Nodes -> Texts], setNodeIdentity
  GroupName,     \* [Nodes -> Texts], setNodeIdentity
  NodeHex,       \* [Nodes -> sequences of hex digits], setNodeId
  Commands,      \* command names a caller may send
  Registered,    \* [Nodes -> SUBSET Commands]: _commands after begin()
  IdLimit,       \* 2^32, the width of Request::request_id
  LongIs32       \* unsigned long has 32 bits (strtoul saturates) or 64

ASSUME DispatcherAssumption ==
  /\ "" \in Texts
  /\ Fold \in [Texts -> Texts]
  /\ NodeName \in [Nodes -> Texts]
  /\ GroupName \in [Nodes -> Texts]
  /\ Registered \in [Nodes -> SUBSET Commands]
  /\ IdLimit \in Nat \ {0}
  /\ LongIs32 \in BOOLEAN

NoId == -1
Kinds == {"Named", "All", "Self", "Group", "Id"}

Ieq(a, b) == Fold[a] = Fold[b]

\* hexIdPrefixMatch: every digit of a non-empty prefix is a digit of the full
\* id, in place (the digits here are already folded).  The full id is a prefix
\* of itself, which is the first alternative the code tries.
HexIdPrefixMatch(full, prefix) ==
  /\ prefix # <<>>
  /\ Len(prefix) <= Len(full)
  /\ \A i \in 1 .. Len(prefix) : full[i] = prefix[i]

IsAddressedToUs(n, req) ==
  \/ req.kind \in {"All", "Self"}
  \/ req.kind = "Group" /\ GroupName[n] # "" /\ Ieq(req.name, GroupName[n])
  \/ req.kind = "Id" /\ NodeHex[n] # <<>> /\ HexIdPrefixMatch(NodeHex[n], req.hex)
  \/ req.kind = "Named" /\ NodeName[n] # "" /\ Ieq(req.name, NodeName[n])

\* The form a bug would take: an id kept in too few bits.
ParsedIdNarrow(rid) == IF rid = NoId THEN NoId ELSE rid % 4
\* (uint32_t)strtoul(idbuf): the id as Parser::parse stores it.
ParsedId(rid) ==
  IF rid >= IdLimit /\ LongIs32 THEN IdLimit - 1
  ELSE IF rid = NoId THEN NoId ELSE rid % IdLimit

(***************************************************************************)
(* What a handler did with its CommandContext: returned ok or not, after   *)
(* it left the body empty, or wrote one that fits ReplyBuffer (192 bytes)  *)
(* with the "#id " prefix ("text") or only without it ("long").            *)
(***************************************************************************)
Outcomes == [ok : BOOLEAN, text : {"", "text", "long"}]
Bodies   == {"err unknown_command", "err internal", "ok", "text", "long", ""}

Body(n, cmd, outcome) ==
  IF cmd \notin Registered[n] THEN "err unknown_command"
  ELSE IF outcome.text # "" THEN outcome.text
  ELSE IF outcome.ok THEN "ok" ELSE "err internal"

\* ReplyBuffer::append takes all of its argument or nothing.
WritePrefixed(rid, body) == IF rid # NoId /\ body = "long" THEN "" ELSE body
=============================================================================
