------------------------------- MODULE MeshRpc -------------------------------
(***************************************************************************)
(* Callers and nodes on one mesh channel: python/mcrpc/client.py's         *)
(* RequestCorrelator on one side, McRpc::handleInbound (src/McRpc.cpp) on  *)
(* the other, and between them a radio that may lose, delay, reorder and   *)
(* repeat every packet.                                                    *)
(*                                                                         *)
(* The radio is the pair of sets air and replies: a packet once sent stays *)
(* there, and a receiver may pick it up never, late, or many times.        *)
(*                                                                         *)
(* A request has a ghost identity <<caller, number>>, which no line        *)
(* carries; the code has only the request id to tell requests apart, and   *)
(* the properties say when the two agree.                                  *)
(***************************************************************************)
EXTENDS Integers, Sequences, Dispatcher, ReplyJitter

CONSTANTS
  Clients,       \* processes that hold a RequestCorrelator
  Others,        \* people and programs that type request lines by hand
  StartId,       \* [Clients -> [1..MaxEpochs -> Nat]]: start_id per incarnation
  ExplicitIds,   \* values a client may pass as build(request_id=...)
  ForeignIds,    \* ids in hand-typed lines
  Targets,       \* destinations: records [kind, name, hex]
  Timeouts,      \* timeouts a client may ask for, in ticks
  Outcome,       \* the handler outcomes considered, a subset of Outcomes
  Entropy,       \* the entropy values considered, a subset of Entropy16
  PublishMode,   \* [Nodes -> {"ex", "plain", "none"}]: handlers registered
  MaxBuilds,     \* [Clients \cup Others -> Nat], bound: request lines per caller
  MaxEpochs,     \* bound: incarnations of a client
  NoResult

Callers == Clients \cup Others
Uids    == UNION {{s} \X (1 .. MaxBuilds[s]) : s \in Callers}
Epochs  == 1 .. MaxEpochs
Address == [kind : Kinds, name : Texts, hex : Seq(0 .. 15)]
ToAll   == [kind |-> "All", name |-> "", hex |-> <<>>]
Seed(n) == SlotSeed(NodeHex[n], NodeName[n])

ASSUME MeshAssumption ==
  /\ Clients \cap Others = {}
  /\ MaxBuilds \in [Callers -> Nat]
  /\ MaxEpochs \in Nat \ {0}
  /\ StartId \in [Clients -> [Epochs -> Nat]]
  /\ ExplicitIds \subseteq Nat
  /\ ForeignIds \subseteq Nat
  /\ \A t \in Targets : t \in Address
  /\ Timeouts \subseteq Nat
  /\ Outcome \subseteq Outcomes
  /\ Entropy \subseteq Entropy16
  /\ PublishMode \in [Nodes -> {"ex", "plain", "none"}]
  /\ \A n \in Nodes : Seed(n) \in DOMAIN IdentityHash

VARIABLES
  epoch,     \* [Clients -> Epochs]: the incarnation that is running
  nextId,    \* [Clients -> Nat]: _next_id, the itertools counter
  pending,   \* [Clients -> set of PendingRequest]: the values of _pending
  made,      \* [Callers -> Nat]: ghost, lines built so far
  air,       \* request lines sent
  replies,   \* reply lines sent
  result     \* what the last RequestCorrelator call returned

vars == <<epoch, nextId, pending, made, air, replies, result>>

Ids == Nat \cup {NoId}
RequestLine == [uid : Uids, kind : Kinds, name : Texts, hex : Seq(0 .. 15),
                rid : Ids, cmd : Commands]
PendingRequest == [uid : Uids, rid : Nat, broadcast : BOOLEAN, left : Nat]
ReplyLine == [from : Nodes, re : Uids, rid : Ids, body : Bodies, delay : Nat]
Result == [by : Clients, reply : ReplyLine, consume : BOOLEAN, to : SUBSET Uids]

ASSUME NoResultAssumption == NoResult \notin Result

Line(uid, to, rid, cmd) ==
  [uid |-> uid, kind |-> to.kind, name |-> to.name, hex |-> to.hex,
   rid |-> rid, cmd |-> cmd]

-----------------------------------------------------------------------------
(* The caller's side. *)

Init ==
  /\ epoch = [c \in Clients |-> 1]
  /\ nextId = [c \in Clients |-> StartId[c][1]]
  /\ pending = [c \in Clients |-> {}]
  /\ made = [s \in Callers |-> 0]
  /\ air = {}
  /\ replies = {}
  /\ result = NoResult

\* The form a bug would take: the counter is read and not advanced.
CounterStuck(c, chosen) == nextId[c]
\* next_request_id() is called only when build() is given no request_id.
CounterAfter(c, chosen) == IF chosen = NoId THEN nextId[c] + 1 ELSE nextId[c]

(***************************************************************************)
(* build(): the id is the caller's or the counter's, broadcast only        *)
(* changes the destination, and an entry that has the same id is           *)
(* overwritten.  meta is what the caller passes as meta["broadcast"].      *)
(* The line may reach the radio from now on.                               *)
(***************************************************************************)
Build(c, to, cmd, broadcast, meta, chosen, timeout) ==
  /\ made[c] < MaxBuilds[c]
  /\ LET rid == IF chosen = NoId THEN nextId[c] ELSE chosen
         uid == <<c, made[c] + 1>>
         dest == IF broadcast THEN ToAll ELSE to
         entry == [uid |-> uid, rid |-> rid, broadcast |-> meta, left |-> timeout]
     IN /\ pending' = [pending EXCEPT ![c] = {p \in @ : p.rid # rid} \cup {entry}]
        /\ air' = air \cup {Line(uid, dest, rid, cmd)}
  /\ nextId' = [nextId EXCEPT ![c] = CounterAfter(c, chosen)]
  /\ made' = [made EXCEPT ![c] = @ + 1]
  /\ result' = NoResult
  /\ UNCHANGED <<epoch, replies>>

\* The form a bug would take: a reply without an id matches everything.
MatchingWithoutId(c, r) == {p \in pending[c] : r.rid = NoId \/ p.rid = r.rid}
\* classify_inbound(): a reply with an id is matched with the entry under that
\* id, which is then removed, unless it is a broadcast or consume is False.
Matching(c, r) == {p \in pending[c] : r.rid # NoId /\ p.rid = r.rid}

\* The form a bug would take: an answered request stays open.
TakenNever(c, r, consume) == {}
Taken(c, r, consume) == {p \in Matching(c, r) : consume /\ ~p.broadcast}

ClassifyInbound(c, r, consume) ==
  /\ r \in replies
  /\ pending' = [pending EXCEPT ![c] = @ \ Taken(c, r, consume)]
  /\ result' = [by |-> c, reply |-> r, consume |-> consume,
                to |-> {p.uid : p \in Matching(c, r)}]
  /\ UNCHANGED <<epoch, nextId, made, air, replies>>

\* The form a bug would take: a comparison no deadline passes.
ExpiredNever(p) == p.left < 0
\* deadline <= now, for a deadline kept as the time that is left.
Expired(p) == p.left = 0

Expire(c) ==
  /\ pending' = [pending EXCEPT ![c] = {p \in @ : ~Expired(p)}]
  /\ result' = NoResult
  /\ UNCHANGED <<epoch, nextId, made, air, replies>>

\* The form a bug would take: the time left runs below zero.
ElapsedPastDeadline(p) == [p EXCEPT !.left = @ - 1]
\* time.monotonic() advances for everyone.
Elapsed(p) == [p EXCEPT !.left = IF @ = 0 THEN 0 ELSE @ - 1]

Tick ==
  /\ pending' = [c \in Clients |-> {Elapsed(p) : p \in pending[c]}]
  /\ UNCHANGED <<epoch, nextId, made, air, replies, result>>

\* A new process: a new RequestCorrelator(start_id=...).
Restart(c) ==
  /\ epoch[c] < MaxEpochs
  /\ epoch' = [epoch EXCEPT ![c] = @ + 1]
  /\ nextId' = [nextId EXCEPT ![c] = StartId[c][epoch[c] + 1]]
  /\ pending' = [pending EXCEPT ![c] = {}]
  /\ result' = NoResult
  /\ UNCHANGED <<made, air, replies>>

\* A line typed by hand, with an id or without.
Say(o, to, cmd, rid) ==
  /\ made[o] < MaxBuilds[o]
  /\ made' = [made EXCEPT ![o] = @ + 1]
  /\ air' = air \cup {Line(<<o, made[o] + 1>>, to, rid, cmd)}
  /\ UNCHANGED <<epoch, nextId, pending, replies, result>>

-----------------------------------------------------------------------------
(* The node's side. *)

\* publishRaw(): nothing leaves without a handler or without text, and a
\* handler set by setPublishHandler is not told the delay.
Publishes(n, rid, body) == PublishMode[n] # "none" /\ (rid # NoId \/ body # "")

DelayHint(n, delay) == IF PublishMode[n] = "ex" THEN delay ELSE 0

\* handleInbound(), including Dispatcher::dispatch.  Everything else about
\* the node (registries, handlers) is fixed while the engine runs.
HandleInbound(n, q, outcome, entropy) ==
  /\ q \in air
  /\ IsAddressedToUs(n, q)
  /\ LET rid == ParsedId(q.rid)
         body == WritePrefixed(rid, Body(n, q.cmd, outcome))
         delay == DelayMsFor(q.kind, Slot(Seed(n)), entropy)
     IN /\ Publishes(n, rid, body)
        /\ replies' = replies \cup {[from |-> n, re |-> q.uid, rid |-> rid,
                                     body |-> body, delay |-> DelayHint(n, delay)]}
  /\ UNCHANGED <<epoch, nextId, pending, made, air, result>>

-----------------------------------------------------------------------------
BuildStep(c) ==
  \E to \in Targets, cmd \in Commands, broadcast, meta \in BOOLEAN,
     chosen \in ExplicitIds \cup {NoId}, timeout \in Timeouts :
    Build(c, to, cmd, broadcast, meta, chosen, timeout)

ClassifyStep(c) ==
  \E r \in replies, consume \in BOOLEAN : ClassifyInbound(c, r, consume)

SayStep(o) ==
  \E to \in Targets, cmd \in Commands, rid \in ForeignIds \cup {NoId} :
    Say(o, to, cmd, rid)

HandleStep(n) ==
  \E q \in air, outcome \in Outcome, entropy \in Entropy :
    HandleInbound(n, q, outcome, entropy)

Next ==
  \/ \E c \in Clients : BuildStep(c)
  \/ \E c \in Clients : ClassifyStep(c)
  \/ \E c \in Clients : Expire(c)
  \/ \E c \in Clients : Restart(c)
  \/ Tick
  \/ \E o \in Others : SayStep(o)
  \/ \E n \in Nodes : HandleStep(n)

Spec == Init /\ [][Next]_vars

\* Time passes, and every client calls expire() again and again, as the
\* integration's housekeeping does.  Nothing is assumed of the radio.
FairSpec ==
  /\ Spec
  /\ WF_vars(Tick)
  /\ \A c \in Clients : WF_vars(Expire(c))

-----------------------------------------------------------------------------
(***************************************************************************)
(* The discipline under which request ids identify requests.  Every        *)
(* incarnation of every client counts through a range of its own           *)
(* (RequestCorrelator does not see to that: start_id defaults to 1), hand- *)
(* typed ids stay out of those ranges even after the node has narrowed     *)
(* them to 32 bits, callers leave request_id= alone, and no counter        *)
(* reaches the width of Request::request_id.                               *)
(***************************************************************************)
IdRange(c, e) == StartId[c][e] .. StartId[c][e] + MaxBuilds[c] - 1

IdDiscipline ==
  /\ ExplicitIds = {}
  /\ \A c, d \in Clients, e, f \in Epochs :
       <<c, e>> # <<d, f>> => IdRange(c, e) \cap IdRange(d, f) = {}
  /\ \A c \in Clients, e \in Epochs :
       /\ IdRange(c, e) \subseteq 0 .. IdLimit - 1
       /\ \A i \in ForeignIds : ParsedId(i) \notin IdRange(c, e)

-----------------------------------------------------------------------------
(* Properties. *)

TypeOK ==
  /\ epoch \in [Clients -> Epochs]
  /\ nextId \in [Clients -> Nat]
  /\ pending \in [Clients -> SUBSET PendingRequest]
  /\ made \in [Callers -> Nat] /\ \A s \in Callers : made[s] <= MaxBuilds[s]
  /\ air \subseteq RequestLine
  /\ replies \subseteq ReplyLine
  /\ result \in Result \cup {NoResult}

\* Two requests whose lines cannot be told apart in a reply: the second, as
\* the node narrows its id, has the id of the first.
SameId(u, w) ==
  \E q1, q2 \in air : q1.uid = u /\ q2.uid = w /\ ParsedId(q2.rid) = q1.rid

\* Whatever ids callers start from, choose or type, and with every restart, loss,
\* delay and repetition: a reply that classify_inbound hands to a request goes to
\* a request of that client, and when it was sent in reply to another line, then
\* two lines went out under one id.  A reply without an id is handed to nobody.
ReplyMatchesRequest ==
  result # NoResult =>
    \A u \in result.to :
      /\ u[1] = result.by
      /\ SameId(u, result.reply.re)

\* Whoever sent a line and whatever ids are in use: a node replies to it under
\* the id it carries, and to a line without an id under none, as long as the id
\* fits the uint32_t it passes through (SPEC 6: "Responses MUST preserve Request
\* ID").
RequestIdPreserved ==
  \A r \in replies, q \in air : q.uid = r.re /\ q.rid < IdLimit => r.rid = q.rid

\* What the id discipline adds, as one inductive invariant: a ghost identity
\* names one line; counters stay in the range of their incarnation and ahead of
\* the ids already used; so the id of a client's line, narrowed by the node,
\* names no other line; every pending entry and every reply carries the id of
\* its line; and the last reply was handed to the request it answers.
Owner(x) == x.uid[1]

LinesAreDistinct ==
  \A q1, q2 \in air : q1.uid = q2.uid => q1 = q2

LinesAreCounted == \A q \in air : q.uid[2] <= made[Owner(q)]

CountersInRange ==
  \A c \in Clients :
    /\ StartId[c][epoch[c]] <= nextId[c]
    /\ nextId[c] <= StartId[c][epoch[c]] + made[c]

IdsFromRanges ==
  \A q \in air :
    /\ Owner(q) \in Clients =>
         \E e \in Epochs :
           /\ e <= epoch[Owner(q)]
           /\ q.rid \in IdRange(Owner(q), e)
           /\ (e = epoch[Owner(q)] => q.rid < nextId[Owner(q)])
    /\ Owner(q) \in Others => q.rid \in ForeignIds \cup {NoId}

IdNamesLine ==
  \A q1, q2 \in air :
    Owner(q1) \in Clients /\ ParsedId(q2.rid) = q1.rid => q1.uid = q2.uid

PendingWasSent ==
  \A c \in Clients : \A p \in pending[c] :
    Owner(p) = c /\ \E q \in air : q.uid = p.uid /\ q.rid = p.rid

RepliesAnswerLines ==
  \A r \in replies : \E q \in air : q.uid = r.re /\ r.rid = ParsedId(q.rid)

ResultMatches ==
  result # NoResult => \A u \in result.to : u = result.reply.re /\ u[1] = result.by

IdInv ==
  /\ LinesAreDistinct /\ LinesAreCounted
  /\ CountersInRange /\ IdsFromRanges /\ IdNamesLine
  /\ PendingWasSent /\ RepliesAnswerLines /\ ResultMatches

\* Nodes that delay as handleInbound asks answer `all` inside the broadcast
\* window and everything else before it opens (RFC-0002 8.1).
BroadcastWindow ==
  \A r \in replies, q \in air :
    q.uid = r.re /\ PublishMode[r.from] = "ex" =>
      IF q.kind = "All"
      THEN r.delay \in BROADCAST_MIN_MS .. BROADCAST_MAX_MS - 1
      ELSE r.delay \in 0 .. ADDRESSED_MAX_MS

\* Two nodes in different slots that answer the same `all` line start to
\* transmit in disjoint windows, in the order of their slots, whatever their
\* entropy (the stagger ReplyJitter exists for).
SlotsSeparateReplies ==
  \A r1, r2 \in replies, q \in air :
    /\ r1.re = q.uid /\ r2.re = q.uid /\ q.kind = "All"
    /\ PublishMode[r1.from] = "ex" /\ PublishMode[r2.from] = "ex"
    /\ Slot(Seed(r1.from)) < Slot(Seed(r2.from))
    => r1.delay < SlotStart(Slot(Seed(r2.from))) /\ r1.delay < r2.delay

\* From build() until it is answered, expires or is forgotten a request is open
\* and every answer reported for it comes from a node that served it; the first
\* answer taken closes it, unless it collects several, and from then on nothing
\* is reported for it again: RequestCorrelator, over this radio and these
\* nodes, implements RequestReply.
ClientRequests == UNION {{c} \X (1 .. MaxBuilds[c]) : c \in Clients}
OpenRequests == UNION {{p.uid : p \in pending[c]} : c \in Clients}
CollectingRequests ==
  UNION {{p.uid : p \in {p \in pending[c] : p.broadcast}} : c \in Clients}
ClosedRequests == {q.uid : q \in {q \in air : q.uid[1] \in Clients}} \ OpenRequests
Reported ==
  IF result = NoResult \/ result.to = {} THEN NoResult
  ELSE [to |-> CHOOSE u \in result.to : TRUE, from |-> result.reply.from,
        taken |-> result.consume]

Promise ==
  INSTANCE RequestReply
    WITH Requests <- ClientRequests,
         NoReport <- NoResult,
         open <- OpenRequests,
         closed <- ClosedRequests,
         several <- CollectingRequests,
         served <- {<<r.re, r.from>> : r \in {r \in replies : r.re[1] \in Clients}},
         report <- Reported

KeepsThePromise == Promise!Spec

\* Every request a client makes leaves _pending, by an answer or by expire(),
\* broadcasts included, which no answer ever removes.
EveryRequestCloses ==
  \A u \in ClientRequests :
    (u \in OpenRequests) ~> (u \notin OpenRequests)
=============================================================================
