---------------------------- MODULE MeshRpcProofs ----------------------------
(***************************************************************************)
(* Proofs about MeshRpc for any number of clients, nodes, requests,        *)
(* incarnations and ids.                                                   *)
(***************************************************************************)
EXTENDS MeshRpc, TLAPS

LEMMA EntropyType == Entropy16 \subseteq Nat
BY DEF Entropy16

\* The delay of any reply is a number of milliseconds.
LEMMA DelayIsNat ==
  ASSUME NEW kind \in Kinds, NEW n \in Nodes, NEW entropy \in Entropy16
  PROVE  /\ Slot(Seed(n)) \in 0 .. SLOT_COUNT - 1
         /\ DelayMsFor(kind, Slot(Seed(n)), entropy) \in Nat
         /\ kind = "All" => /\ SlotStart(Slot(Seed(n))) <= DelayMsFor(kind, Slot(Seed(n)), entropy)
                            /\ DelayMsFor(kind, Slot(Seed(n)), entropy)
                                 < SlotStart(Slot(Seed(n))) + SlotWidth
         /\ kind # "All" => DelayMsFor(kind, Slot(Seed(n)), entropy) \in 0 .. ADDRESSED_MAX_MS
<1> DEFINE h == IdentityHash[Seed(n)]
<1>1. h \in Nat
  BY MeshAssumption, IdentityHashAssumption
<1>2. Slot(Seed(n)) \in 0 .. 15
  BY <1>1, SMT DEF Slot, SLOT_COUNT
<1>3. SlotWidth = 200
  BY SMT DEF SlotWidth, BROADCAST_MAX_MS, BROADCAST_MIN_MS, SLOT_COUNT
<1>4. entropy \in Nat
  BY EntropyType
<1>5. entropy % 200 \in 0 .. 199
  BY <1>4, SMTT(60)
<1>6. entropy % 121 \in 0 .. 120
  BY <1>4, SMTT(60)
<1> HIDE DEF h
<1> QED
  BY <1>2, <1>3, <1>5, <1>6, SMT
  DEF DelayMsFor, DelayMs, NeedsBroadcastStagger, SlotStart, AtMost,
      BROADCAST_MIN_MS, BROADCAST_MAX_MS, ADDRESSED_MAX_MS, SLOT_COUNT

\* The id a node stores is an id, and an id below the width of the field is
\* stored as it is.
LEMMA ParsedIdType ==
  ASSUME NEW rid \in Ids
  PROVE  /\ ParsedId(rid) \in Ids
         /\ rid < IdLimit => ParsedId(rid) = rid
         /\ rid = NoId <=> ParsedId(rid) = NoId
<1>1. IdLimit \in Nat \ {0}
  BY DispatcherAssumption
<1>2. CASE rid = NoId
  BY <1>1, <1>2, SMT DEF ParsedId, Ids, NoId
<1>3. CASE rid \in Nat
  <2>1. rid % IdLimit \in Nat /\ (rid < IdLimit => rid % IdLimit = rid)
    BY <1>1, <1>3
  <2>2. rid # NoId
    BY <1>3 DEF NoId
  <2>3. CASE rid < IdLimit
    <3>1. ~(rid >= IdLimit)
      BY <1>1, <1>3, <2>3
    <3> QED
      BY <2>1, <2>2, <2>3, <3>1, Zenon DEF ParsedId, Ids
  <2>4. CASE ~(rid < IdLimit)
    <3>1. IdLimit - 1 \in Nat /\ NoId \notin Nat
      BY <1>1 DEF NoId
    <3>2. ParsedId(rid) = IdLimit - 1 \/ ParsedId(rid) = rid % IdLimit
      BY <2>2 DEF ParsedId
    <3> QED
      BY <2>1, <2>2, <2>4, <3>1, <3>2, Zenon DEF Ids
  <2> QED
    BY <2>3, <2>4
<1> QED
  BY <1>2, <1>3 DEF Ids

LEMMA BodyType ==
  ASSUME NEW n \in Nodes, NEW cmd, NEW outcome \in Outcomes, NEW rid
  PROVE  WritePrefixed(rid, Body(n, cmd, outcome)) \in Bodies
BY DEF WritePrefixed, Body, Bodies, Outcomes

-----------------------------------------------------------------------------
(* Type correctness. *)

\* The ghost identity of a line a caller is about to send.
LEMMA NewUid ==
  ASSUME NEW s \in Callers, TypeOK, made[s] < MaxBuilds[s]
  PROVE  <<s, made[s] + 1>> \in Uids
<1>1. made[s] + 1 \in 1 .. MaxBuilds[s]
  BY MeshAssumption DEF TypeOK
<1> QED
  BY <1>1 DEF Uids

LEMMA LineType ==
  ASSUME NEW uid \in Uids, NEW to \in Address, NEW rid \in Ids, NEW cmd \in Commands
  PROVE  Line(uid, to, rid, cmd) \in RequestLine
BY DEF Line, RequestLine, Address

LEMMA ToAllType == ToAll \in Address
<1>1. "" \in Texts /\ "All" \in Kinds
  BY DispatcherAssumption DEF Kinds
<1>2. <<>> \in Seq(0 .. 15)
  OBVIOUS
<1> QED
  BY <1>1, <1>2, Zenon DEF ToAll, Address

\* Counting a line keeps every caller within its bound.
LEMMA MadeType ==
  ASSUME NEW s \in Callers, TypeOK, made[s] < MaxBuilds[s],
         made' = [made EXCEPT ![s] = @ + 1]
  PROVE  made' \in [Callers -> Nat] /\ \A x \in Callers : made'[x] <= MaxBuilds[x]
<1>1. made \in [Callers -> Nat] /\ \A x \in Callers : made[x] <= MaxBuilds[x]
  BY DEF TypeOK
<1>2. MaxBuilds[s] \in Nat
  BY MeshAssumption
<1> QED
  BY <1>1, <1>2

\* Every call returns a value of its type and keeps every variable in its type:
\* no entry, line, reply or result outside the records the code builds.
THEOREM TypeCorrect == Spec => []TypeOK
<1>1. Init => TypeOK
  BY MeshAssumption DEF Init, TypeOK, Epochs
<1>2. TypeOK /\ [Next]_vars => TypeOK'
  <2> SUFFICES ASSUME TypeOK, [Next]_vars PROVE TypeOK'
    OBVIOUS
  <2> USE DEF TypeOK
  <2>1. ASSUME NEW c \in Clients, BuildStep(c) PROVE TypeOK'
    <3>1. PICK to \in Targets, cmd \in Commands, broadcast \in BOOLEAN, meta \in BOOLEAN,
               chosen \in ExplicitIds \cup {NoId}, timeout \in Timeouts :
                 Build(c, to, cmd, broadcast, meta, chosen, timeout)
      BY <2>1 DEF BuildStep
    <3> DEFINE rid == IF chosen = NoId THEN nextId[c] ELSE chosen
               uid == <<c, made[c] + 1>>
               dest == IF broadcast THEN ToAll ELSE to
               entry == [uid |-> uid, rid |-> rid, broadcast |-> meta, left |-> timeout]
    <3>2. c \in Callers
      BY DEF Callers
    <3>3. rid \in Nat /\ timeout \in Nat
      BY MeshAssumption
    <3>4. uid \in Uids
      BY <3>1, <3>2, NewUid DEF Build
    <3>5. dest \in Address
      BY MeshAssumption, ToAllType
    <3>6. entry \in PendingRequest
      BY <3>3, <3>4 DEF PendingRequest
    <3>7. Line(uid, dest, rid, cmd) \in RequestLine
      BY <3>3, <3>4, <3>5, LineType DEF Ids
    <3>8. /\ pending' = [pending EXCEPT ![c] = {p \in @ : p.rid # rid} \cup {entry}]
          /\ air' = air \cup {Line(uid, dest, rid, cmd)}
      BY <3>1 DEF Build
    <3> HIDE DEF rid, uid, dest, entry
    <3>9. pending' \in [Clients -> SUBSET PendingRequest] /\ air' \subseteq RequestLine
      BY <3>6, <3>7, <3>8
    <3>10. nextId' \in [Clients -> Nat]
      BY <3>1 DEF Build, CounterAfter
    <3>11. made' \in [Callers -> Nat] /\ \A s \in Callers : made'[s] <= MaxBuilds[s]
      BY <3>1, <3>2, MadeType DEF Build
    <3> QED
      BY <3>1, <3>9, <3>10, <3>11 DEF Build
  <2>2. ASSUME NEW c \in Clients, ClassifyStep(c) PROVE TypeOK'
    <3>1. PICK r \in replies, consume \in BOOLEAN : ClassifyInbound(c, r, consume)
      BY <2>2 DEF ClassifyStep
    <3>2. Matching(c, r) \subseteq PendingRequest
      BY DEF Matching
    <3>3. {p.uid : p \in Matching(c, r)} \subseteq Uids
      BY <3>2 DEF PendingRequest
    <3>4. result' \in Result
      BY <3>1, <3>3 DEF ClassifyInbound, Result
    <3> QED
      BY <3>1, <3>4 DEF ClassifyInbound
  <2>3. ASSUME NEW c \in Clients, Expire(c) PROVE TypeOK'
    BY <2>3 DEF Expire
  <2>4. ASSUME NEW c \in Clients, Restart(c) PROVE TypeOK'
    <3>1. epoch[c] + 1 \in Epochs
      BY <2>4, MeshAssumption DEF Restart, Epochs
    <3>2. StartId[c][epoch[c] + 1] \in Nat
      BY <3>1, MeshAssumption
    <3> QED
      BY <2>4, <3>1, <3>2 DEF Restart
  <2>5. CASE Tick
    <3>1. \A p \in PendingRequest : Elapsed(p) \in PendingRequest
      BY DEF Elapsed, PendingRequest
    <3> QED
      BY <2>5, <3>1 DEF Tick
  <2>6. ASSUME NEW o \in Others, SayStep(o) PROVE TypeOK'
    <3>1. PICK to \in Targets, cmd \in Commands, rid \in ForeignIds \cup {NoId} :
                 Say(o, to, cmd, rid)
      BY <2>6 DEF SayStep
    <3>2. o \in Callers
      BY DEF Callers
    <3>3. Line(<<o, made[o] + 1>>, to, rid, cmd) \in RequestLine
      BY <3>1, <3>2, NewUid, LineType, MeshAssumption DEF Say, Ids
    <3>4. made' \in [Callers -> Nat] /\ \A s \in Callers : made'[s] <= MaxBuilds[s]
      BY <3>1, <3>2, MadeType DEF Say
    <3> QED
      BY <3>1, <3>3, <3>4 DEF Say
  <2>7. ASSUME NEW n \in Nodes, HandleStep(n) PROVE TypeOK'
    <3>1. PICK q \in air, outcome \in Outcome, entropy \in Entropy :
                 HandleInbound(n, q, outcome, entropy)
      BY <2>7 DEF HandleStep
    <3> DEFINE rid == ParsedId(q.rid)
               body == WritePrefixed(rid, Body(n, q.cmd, outcome))
               delay == DelayMsFor(q.kind, Slot(Seed(n)), entropy)
               r == [from |-> n, re |-> q.uid, rid |-> rid, body |-> body,
                     delay |-> DelayHint(n, delay)]
    <3>2. q \in RequestLine
      OBVIOUS
    <3>3. rid \in Ids
      BY <3>2, ParsedIdType DEF RequestLine
    <3>4. body \in Bodies
      BY BodyType, MeshAssumption
    <3>5. q.kind \in Kinds /\ q.uid \in Uids
      BY <3>2 DEF RequestLine
    <3>6. delay \in Nat
      BY <3>5, DelayIsNat, MeshAssumption
    <3>7. replies' = replies \cup {r}
      BY <3>1 DEF HandleInbound
    <3> HIDE DEF rid, body, delay
    <3>8. r \in ReplyLine
      BY <3>3, <3>4, <3>5, <3>6 DEF ReplyLine, DelayHint
    <3> HIDE DEF r
    <3> QED
      BY <3>1, <3>7, <3>8 DEF HandleInbound
  <2>8. CASE UNCHANGED vars
    BY <2>8 DEF vars
  <2> QED
    BY <2>1, <2>2, <2>3, <2>4, <2>5, <2>6, <2>7, <2>8 DEF Next
<1> QED
  BY <1>1, <1>2, PTL DEF Spec

-----------------------------------------------------------------------------
(* Correlation, whatever ids are in use. *)

\* What needs no discipline: a ghost identity names one line, every entry and
\* every reply carries the id of its line, and the last reply was matched by id.
SentInv ==
  /\ LinesAreDistinct /\ LinesAreCounted
  /\ PendingWasSent /\ RepliesAnswerLines
  /\ ReplyMatchesRequest

\* A new line has a ghost identity no line had.
LEMMA LineAddedPlain ==
  ASSUME TypeOK, LinesAreDistinct, LinesAreCounted, NEW s \in Callers,
         NEW q, q.uid = <<s, made[s] + 1>>,
         air' = air \cup {q}, made' = [made EXCEPT ![s] = @ + 1]
  PROVE  LinesAreDistinct' /\ LinesAreCounted'
<1>1. made \in [Callers -> Nat] /\ Owner(q) = s /\ q.uid[2] = made[s] + 1
  BY DEF TypeOK, Owner
<1>2. \A x \in air : Owner(x) \in Callers /\ x.uid[2] \in Nat /\ x.uid[2] <= made[Owner(x)]
  <2>1. \A u \in Uids : u[1] \in Callers /\ u[2] \in Nat
    BY MeshAssumption DEF Uids
  <2> QED
    BY <2>1 DEF TypeOK, RequestLine, Owner, LinesAreCounted
<1>3. \A x \in air : x.uid # q.uid
  BY <1>1, <1>2 DEF Owner
<1>4. \A x \in air : x.uid[2] <= made'[Owner(x)]
  BY <1>1, <1>2
<1>5. q.uid[2] <= made'[Owner(q)]
  BY <1>1
<1> QED
  BY <1>3, <1>4, <1>5 DEF LinesAreDistinct, LinesAreCounted, Owner

\* Entries, replies and matches keep their lines, since no line is taken back.
LEMMA LinesStay ==
  ASSUME PendingWasSent, RepliesAnswerLines, air \subseteq air'
  PROVE  /\ \A c \in Clients : \A p \in pending[c] :
              Owner(p) = c /\ \E q \in air' : q.uid = p.uid /\ q.rid = p.rid
         /\ \A r \in replies : \E q \in air' : q.uid = r.re /\ r.rid = ParsedId(q.rid)
         /\ \A u, w : SameId(u, w) => SameId(u, w)'
<1>1. \A c \in Clients : \A p \in pending[c] :
        Owner(p) = c /\ \E q \in air : q.uid = p.uid /\ q.rid = p.rid
  BY DEF PendingWasSent
<1>2. \A r \in replies : \E q \in air : q.uid = r.re /\ r.rid = ParsedId(q.rid)
  BY DEF RepliesAnswerLines
<1>3. \A u, w : SameId(u, w) => SameId(u, w)'
  BY DEF SameId
<1> QED
  BY <1>1, <1>2, <1>3

\* classify_inbound finds entries of the caller under the id of the reply, and
\* the line that was answered went out under that id too.
LEMMA MatchIsById ==
  ASSUME SentInv, NEW c \in Clients, NEW r \in replies, NEW p \in Matching(c, r)
  PROVE  Owner(p) = c /\ SameId(p.uid, r.re)
<1>1. p \in pending[c] /\ p.rid = r.rid
  BY DEF Matching
<1>2. Owner(p) = c /\ \E q1 \in air : q1.uid = p.uid /\ q1.rid = p.rid
  BY <1>1 DEF SentInv, PendingWasSent
<1>3. \E q2 \in air : q2.uid = r.re /\ r.rid = ParsedId(q2.rid)
  BY DEF SentInv, RepliesAnswerLines
<1> QED
  BY <1>1, <1>2, <1>3 DEF SameId

LEMMA SentInvHolds == Spec => []SentInv
<1>1. Init => SentInv
  BY DEF Init, SentInv, LinesAreDistinct, LinesAreCounted, PendingWasSent,
         RepliesAnswerLines, ReplyMatchesRequest
<1>2. TypeOK /\ SentInv /\ [Next]_vars => SentInv'
  <2> SUFFICES ASSUME TypeOK, SentInv, [Next]_vars PROVE SentInv'
    OBVIOUS
  <2>1. ASSUME NEW c \in Clients, BuildStep(c) PROVE SentInv'
    <3>1. PICK to \in Targets, cmd \in Commands, broadcast \in BOOLEAN, meta \in BOOLEAN,
               chosen \in ExplicitIds \cup {NoId}, timeout \in Timeouts :
                 Build(c, to, cmd, broadcast, meta, chosen, timeout)
      BY <2>1 DEF BuildStep
    <3> DEFINE rid == IF chosen = NoId THEN nextId[c] ELSE chosen
               uid == <<c, made[c] + 1>>
               dest == IF broadcast THEN ToAll ELSE to
               q == Line(uid, dest, rid, cmd)
               entry == [uid |-> uid, rid |-> rid, broadcast |-> meta, left |-> timeout]
    <3>2. /\ air' = air \cup {q} /\ made' = [made EXCEPT ![c] = @ + 1]
          /\ pending' = [pending EXCEPT ![c] = {p \in @ : p.rid # rid} \cup {entry}]
          /\ replies' = replies /\ result' = NoResult
      BY <3>1 DEF Build
    <3>3. /\ q.uid = uid /\ q.uid = entry.uid /\ q.rid = entry.rid /\ Owner(entry) = c
          /\ c \in Callers
      BY DEF Line, Owner, Callers
    <3> HIDE DEF q, entry, rid
    <3>4. LinesAreDistinct' /\ LinesAreCounted'
      BY <3>2, <3>3, LineAddedPlain DEF SentInv
    <3>5. PendingWasSent'
      <4> SUFFICES ASSUME NEW d \in Clients, NEW p \in pending'[d]
                   PROVE  Owner(p) = d /\ \E x \in air' : x.uid = p.uid /\ x.rid = p.rid
        BY DEF PendingWasSent, Owner
      <4>1. p \in pending[d] \/ (d = c /\ p = entry)
        BY <3>2 DEF TypeOK
      <4>2. CASE p \in pending[d]
        BY <3>2, <4>2, LinesStay DEF SentInv
      <4>3. CASE d = c /\ p = entry
        BY <3>2, <3>3, <4>3
      <4> QED
        BY <4>1, <4>2, <4>3
    <3>6. RepliesAnswerLines'
      BY <3>2, LinesStay DEF SentInv, RepliesAnswerLines
    <3> QED
      BY <3>2, <3>4, <3>5, <3>6 DEF SentInv, ReplyMatchesRequest
  <2>2. ASSUME NEW c \in Clients, ClassifyStep(c) PROVE SentInv'
    <3>1. PICK r \in replies, consume \in BOOLEAN : ClassifyInbound(c, r, consume)
      BY <2>2 DEF ClassifyStep
    <3>2. /\ result' = [by |-> c, reply |-> r, consume |-> consume,
                        to |-> {p.uid : p \in Matching(c, r)}]
          /\ air' = air /\ made' = made /\ replies' = replies
          /\ pending' = [pending EXCEPT ![c] = @ \ Taken(c, r, consume)]
      BY <3>1 DEF ClassifyInbound
    <3>3. PendingWasSent'
      <4>1. \A d \in Clients : pending'[d] \subseteq pending[d]
        BY <3>2 DEF TypeOK
      <4> QED
        BY <3>2, <4>1 DEF SentInv, PendingWasSent
    <3>4. ReplyMatchesRequest'
      <4>1. \A p \in Matching(c, r) : p.uid[1] = c /\ SameId(p.uid, r.re)
        BY MatchIsById DEF Owner
      <4>2. \A u, w : SameId(u, w) => SameId(u, w)'
        BY <3>2 DEF SameId
      <4>3. result'.by = c /\ result'.reply = r /\ result'.to = {p.uid : p \in Matching(c, r)}
        BY <3>2
      <4> QED
        BY <4>1, <4>2, <4>3 DEF ReplyMatchesRequest
    <3> QED
      BY <3>2, <3>3, <3>4
      DEF SentInv, LinesAreDistinct, LinesAreCounted, RepliesAnswerLines, Owner
  <2>3. ASSUME NEW c \in Clients, Expire(c) \/ Restart(c) PROVE SentInv'
    <3>1. /\ air' = air /\ made' = made /\ replies' = replies /\ result' = NoResult
          /\ \A d \in Clients : pending'[d] \subseteq pending[d]
      BY <2>3 DEF Expire, Restart, TypeOK
    <3> QED
      BY <3>1 DEF SentInv, LinesAreDistinct, LinesAreCounted, PendingWasSent,
                  RepliesAnswerLines, ReplyMatchesRequest, Owner
  <2>4. CASE Tick
    <3>1. PendingWasSent'
      <4> SUFFICES ASSUME NEW d \in Clients, NEW p \in pending'[d]
                   PROVE  Owner(p) = d /\ \E x \in air : x.uid = p.uid /\ x.rid = p.rid
        BY <2>4 DEF Tick, PendingWasSent, Owner
      <4>1. PICK old \in pending[d] : p = Elapsed(old)
        BY <2>4 DEF Tick
      <4>2. old \in PendingRequest
        BY DEF TypeOK
      <4>3. p.uid = old.uid /\ p.rid = old.rid
        BY <4>1, <4>2 DEF Elapsed, PendingRequest
      <4> QED
        BY <4>3 DEF SentInv, PendingWasSent, Owner
    <3> QED
      BY <2>4, <3>1 DEF Tick, SentInv, LinesAreDistinct, LinesAreCounted, RepliesAnswerLines,
                        ReplyMatchesRequest, SameId, Owner
  <2>5. ASSUME NEW o \in Others, SayStep(o) PROVE SentInv'
    <3>1. PICK to \in Targets, cmd \in Commands, rid \in ForeignIds \cup {NoId} :
                 Say(o, to, cmd, rid)
      BY <2>5 DEF SayStep
    <3> DEFINE q == Line(<<o, made[o] + 1>>, to, rid, cmd)
    <3>2. /\ air' = air \cup {q} /\ made' = [made EXCEPT ![o] = @ + 1]
          /\ pending' = pending /\ replies' = replies /\ result' = result
      BY <3>1 DEF Say
    <3>3. q.uid = <<o, made[o] + 1>> /\ o \in Callers
      BY DEF Line, Callers
    <3> HIDE DEF q
    <3>4. LinesAreDistinct' /\ LinesAreCounted'
      BY <3>2, <3>3, LineAddedPlain DEF SentInv
    <3>5. PendingWasSent' /\ RepliesAnswerLines'
      BY <3>2, LinesStay DEF SentInv, PendingWasSent, RepliesAnswerLines, Owner
    <3>6. ReplyMatchesRequest'
      BY <3>2, LinesStay DEF SentInv, ReplyMatchesRequest
    <3> QED
      BY <3>4, <3>5, <3>6 DEF SentInv
  <2>6. ASSUME NEW n \in Nodes, HandleStep(n) PROVE SentInv'
    <3>1. PICK q \in air, outcome \in Outcome, entropy \in Entropy :
                 HandleInbound(n, q, outcome, entropy)
      BY <2>6 DEF HandleStep
    <3> DEFINE r == [from |-> n, re |-> q.uid, rid |-> ParsedId(q.rid),
                     body |-> WritePrefixed(ParsedId(q.rid), Body(n, q.cmd, outcome)),
                     delay |-> DelayHint(n, DelayMsFor(q.kind, Slot(Seed(n)), entropy))]
    <3>2. /\ replies' = replies \cup {r} /\ r.re = q.uid /\ r.rid = ParsedId(q.rid)
          /\ air' = air /\ made' = made /\ pending' = pending /\ result' = result
      BY <3>1 DEF HandleInbound
    <3> HIDE DEF r
    <3>3. RepliesAnswerLines'
      BY <3>2 DEF SentInv, RepliesAnswerLines
    <3> QED
      BY <3>2, <3>3 DEF SentInv, LinesAreDistinct, LinesAreCounted, PendingWasSent,
                        ReplyMatchesRequest, SameId, Owner
  <2>7. CASE UNCHANGED vars
    BY <2>7 DEF vars, SentInv, LinesAreDistinct, LinesAreCounted, PendingWasSent,
                RepliesAnswerLines, ReplyMatchesRequest, SameId, Owner
  <2> QED
    BY <2>1, <2>2, <2>3, <2>4, <2>5, <2>6, <2>7 DEF Next
<1> QED
  BY <1>1, <1>2, TypeCorrect, PTL DEF Spec

\* Whatever ids are in use, classify_inbound hands a reply only to a request of
\* its own caller, and to one that was not answered only when two lines went out
\* under one id.
THEOREM Correlation == Spec => []ReplyMatchesRequest
<1>1. SentInv => ReplyMatchesRequest
  BY DEF SentInv
<1> QED
  BY <1>1, SentInvHolds, PTL

\* The id a node puts before its reply is the id of the line it answers, whoever
\* sent it, if that id fits the field.
THEOREM IdIsPreserved == Spec => []RequestIdPreserved
<1>1. TypeOK /\ SentInv => RequestIdPreserved
  <2> SUFFICES ASSUME TypeOK, SentInv, NEW r \in replies, NEW q \in air,
                      q.uid = r.re, q.rid < IdLimit
               PROVE  r.rid = q.rid
    BY DEF RequestIdPreserved
  <2>1. PICK x \in air : x.uid = r.re /\ r.rid = ParsedId(x.rid)
    BY DEF SentInv, RepliesAnswerLines
  <2>2. x = q
    BY <2>1 DEF SentInv, LinesAreDistinct
  <2>3. q.rid \in Ids
    BY DEF TypeOK, RequestLine
  <2> QED
    BY <2>1, <2>2, <2>3, ParsedIdType
<1> QED
  BY <1>1, TypeCorrect, SentInvHolds, PTL

-----------------------------------------------------------------------------
(* Identification, under the id discipline. *)

\* The counter of a client that may build one more line stands in the range of
\* its incarnation, below the width of the field.
LEMMA CounterStandsInRange ==
  ASSUME IdDiscipline, TypeOK, CountersInRange, NEW c \in Clients, made[c] < MaxBuilds[c]
  PROVE  /\ nextId[c] \in IdRange(c, epoch[c])
         /\ nextId[c] < IdLimit
<1>1. /\ epoch[c] \in Epochs /\ nextId[c] \in Nat /\ c \in Callers
      /\ made[c] \in Nat /\ MaxBuilds[c] \in Nat /\ StartId[c][epoch[c]] \in Nat
  BY MeshAssumption DEF TypeOK, Callers
<1>2. nextId[c] \in IdRange(c, epoch[c])
  BY <1>1 DEF CountersInRange, IdRange
<1>3. IdRange(c, epoch[c]) \subseteq 0 .. IdLimit - 1
  BY <1>1 DEF IdDiscipline
<1>4. IdLimit \in Nat
  BY DispatcherAssumption
<1> QED
  BY <1>1, <1>2, <1>3, <1>4

\* An id in the range of an incarnation is an id the node stores unchanged.
LEMMA RangeIdIsKept ==
  ASSUME IdDiscipline, NEW c \in Clients, NEW e \in Epochs, NEW rid \in IdRange(c, e)
  PROVE  rid \in Nat /\ rid # NoId /\ ParsedId(rid) = rid
<1>1. rid \in 0 .. IdLimit - 1
  BY DEF IdDiscipline
<1>2. IdLimit \in Nat
  BY DispatcherAssumption
<1>3. rid \in Nat /\ rid < IdLimit
  BY <1>1, <1>2
<1> QED
  BY <1>3, ParsedIdType DEF Ids, NoId

\* The id of a line that was sent, as a node stores it, is not the id the
\* counter of an incarnation is about to give.
LEMMA CounterIsFresh ==
  ASSUME IdDiscipline, TypeOK, IdInv, NEW c \in Clients, made[c] < MaxBuilds[c],
         NEW q \in air
  PROVE  ParsedId(q.rid) # nextId[c] /\ q.rid # nextId[c]
<1>1. nextId[c] \in IdRange(c, epoch[c]) /\ epoch[c] \in Epochs
  BY CounterStandsInRange DEF IdInv, TypeOK
<1>2. Owner(q) \in Callers
  BY DEF TypeOK, RequestLine, Owner, Uids
<1>3. CASE Owner(q) \in Clients
  <2>1. PICK e \in Epochs :
          /\ q.rid \in IdRange(Owner(q), e)
          /\ (e = epoch[Owner(q)] => q.rid < nextId[Owner(q)])
    BY <1>3 DEF IdInv, IdsFromRanges
  <2>2. q.rid # nextId[c]
    <3>1. CASE Owner(q) = c /\ e = epoch[c]
      <4>1. nextId[c] \in Nat
        BY DEF TypeOK
      <4>2. q.rid \in Nat /\ q.rid < nextId[c]
        BY <2>1, <3>1, RangeIdIsKept
      <4> QED
        BY <4>1, <4>2
    <3>2. CASE <<Owner(q), e>> # <<c, epoch[c]>>
      <4>1. IdRange(Owner(q), e) \cap IdRange(c, epoch[c]) = {}
        BY <1>1, <1>3, <3>2, Zenon DEF IdDiscipline
      <4> QED
        BY <1>1, <2>1, <4>1, Zenon
    <3> QED
      BY <3>1, <3>2
  <2> QED
    BY <1>3, <2>1, <2>2, RangeIdIsKept
<1>4. CASE Owner(q) \in Others
  <2>1. q.rid \in ForeignIds \cup {NoId}
    BY <1>4 DEF IdInv, IdsFromRanges
  <2>2. nextId[c] # NoId /\ ParsedId(nextId[c]) = nextId[c]
    BY <1>1, RangeIdIsKept
  <2>3. CASE q.rid = NoId
    <3>1. ParsedId(NoId) = NoId
      BY ParsedIdType DEF Ids
    <3> QED
      BY <2>2, <2>3, <3>1
  <2>4. CASE q.rid \in ForeignIds
    <3>1. ParsedId(q.rid) \notin IdRange(c, epoch[c])
      BY <1>1, <2>4 DEF IdDiscipline
    <3> QED
      BY <1>1, <2>2, <3>1
  <2> QED
    BY <2>1, <2>3, <2>4
<1> QED
  BY <1>2, <1>3, <1>4 DEF Callers

\* classify_inbound finds an entry only for the line that was answered.
LEMMA MatchIsTheRequest ==
  ASSUME IdInv, NEW c \in Clients, NEW r \in replies, NEW p \in Matching(c, r)
  PROVE  p.uid = r.re /\ Owner(p) = c
<1>1. p \in pending[c] /\ p.rid = r.rid
  BY DEF Matching
<1>2. PICK q1 \in air : q1.uid = p.uid /\ q1.rid = p.rid
  BY <1>1 DEF IdInv, PendingWasSent
<1>3. PICK q2 \in air : q2.uid = r.re /\ r.rid = ParsedId(q2.rid)
  BY DEF IdInv, RepliesAnswerLines
<1>4. Owner(p) = c /\ Owner(q1) \in Clients
  BY <1>1, <1>2 DEF IdInv, PendingWasSent, Owner
<1> QED
  BY <1>1, <1>2, <1>3, <1>4 DEF IdInv, IdNamesLine

\* A new line keeps the invariant when its ghost identity is the next one of
\* its caller and its id is either the counter of a client that then counts on,
\* or one a hand may type.
LEMMA LineAdded ==
  ASSUME IdDiscipline, TypeOK, IdInv, NEW s \in Callers, made[s] < MaxBuilds[s],
         NEW q, q.uid = <<s, made[s] + 1>>, q.rid \in Ids,
         air' = air \cup {q}, made' = [made EXCEPT ![s] = @ + 1], epoch' = epoch,
         \/ s \in Clients /\ q.rid = nextId[s] /\ nextId' = [nextId EXCEPT ![s] = @ + 1]
         \/ s \in Others /\ q.rid \in ForeignIds \cup {NoId} /\ nextId' = nextId
  PROVE  /\ LinesAreDistinct' /\ LinesAreCounted'
         /\ CountersInRange' /\ IdsFromRanges' /\ IdNamesLine'
<1>1. /\ made \in [Callers -> Nat] /\ nextId \in [Clients -> Nat]
      /\ epoch \in [Clients -> Epochs] /\ Owner(q) = s /\ q.uid[2] = made[s] + 1
  BY DEF TypeOK, Owner
<1>2. \A x \in air : Owner(x) \in Callers /\ x.uid \in Uids /\ x.uid[2] \in Nat
  <2>1. \A u \in Uids : u[1] \in Callers /\ u[2] \in Nat
    BY MeshAssumption DEF Uids
  <2> QED
    BY <2>1 DEF TypeOK, RequestLine, Owner
<1>3. \A x \in air : x.uid # q.uid
  <2> SUFFICES ASSUME NEW x \in air, x.uid = q.uid PROVE FALSE
    OBVIOUS
  <2>1. x.uid[2] <= made[s] /\ x.uid[2] = made[s] + 1
    BY <1>1 DEF IdInv, LinesAreCounted, Owner
  <2> QED
    BY <1>1, <2>1
<1>4. LinesAreDistinct'
  BY <1>3 DEF IdInv, LinesAreDistinct
<1>5. LinesAreCounted'
  <2> SUFFICES ASSUME NEW x \in air' PROVE x.uid[2] <= made'[Owner(x)]
    BY DEF LinesAreCounted, Owner
  <2>1. CASE x \in air
    <3>1. x.uid[2] <= made[Owner(x)]
      BY <2>1 DEF IdInv, LinesAreCounted
    <3> QED
      BY <1>1, <1>2, <2>1, <3>1
  <2>2. CASE x = q
    BY <1>1, <2>2
  <2> QED
    BY <2>1, <2>2
<1>6. CountersInRange'
  <2> SUFFICES ASSUME NEW c \in Clients
               PROVE  /\ StartId[c][epoch[c]] <= nextId'[c]
                      /\ nextId'[c] <= StartId[c][epoch[c]] + made'[c]
    BY DEF CountersInRange
  <2>1. /\ StartId[c][epoch[c]] \in Nat /\ c \in Callers /\ made[c] \in Nat /\ nextId[c] \in Nat
        /\ StartId[c][epoch[c]] <= nextId[c] /\ nextId[c] <= StartId[c][epoch[c]] + made[c]
    BY <1>1, MeshAssumption DEF IdInv, CountersInRange, Callers
  <2>2. CASE c = s
    BY <1>1, <2>1, <2>2, MeshAssumption
  <2>3. CASE c # s
    BY <1>1, <2>1, <2>3
  <2> QED
    BY <2>2, <2>3
<1>7. IdsFromRanges'
  <2> SUFFICES ASSUME NEW x \in air'
               PROVE  /\ Owner(x) \in Clients =>
                            \E e \in Epochs :
                              /\ e <= epoch[Owner(x)]
                              /\ x.rid \in IdRange(Owner(x), e)
                              /\ (e = epoch[Owner(x)] => x.rid < nextId'[Owner(x)])
                      /\ Owner(x) \in Others => x.rid \in ForeignIds \cup {NoId}
    BY DEF IdsFromRanges, Owner
  <2>1. CASE x \in air
    <3>1. Owner(x) \in Others => x.rid \in ForeignIds \cup {NoId}
      BY <2>1 DEF IdInv, IdsFromRanges
    <3>2. ASSUME Owner(x) \in Clients
          PROVE  \E e \in Epochs :
                   /\ e <= epoch[Owner(x)]
                   /\ x.rid \in IdRange(Owner(x), e)
                   /\ (e = epoch[Owner(x)] => x.rid < nextId'[Owner(x)])
      <4>1. PICK e \in Epochs :
              /\ e <= epoch[Owner(x)]
              /\ x.rid \in IdRange(Owner(x), e)
              /\ (e = epoch[Owner(x)] => x.rid < nextId[Owner(x)])
        BY <2>1, <3>2 DEF IdInv, IdsFromRanges
      <4>2. x.rid \in Nat
        BY <3>2, <4>1, RangeIdIsKept
      <4>3. nextId[Owner(x)] \in Nat /\ nextId'[Owner(x)] \in {nextId[Owner(x)], nextId[Owner(x)] + 1}
        BY <1>1, <3>2
      <4> QED
        BY <4>1, <4>2, <4>3
    <3> QED
      BY <3>1, <3>2
  <2>2. CASE x = q /\ s \in Clients
    <3>1. x.rid \in IdRange(s, epoch[s]) /\ epoch[s] \in Epochs /\ nextId[s] \in Nat
      BY <1>1, <2>2, CounterStandsInRange, MeshAssumption DEF IdInv
    <3>2. x.rid < nextId'[s] /\ epoch[s] <= epoch[s]
      BY <1>1, <2>2, <3>1, MeshAssumption DEF Epochs
    <3> QED
      BY <1>1, <2>2, <3>1, <3>2, MeshAssumption
  <2>3. CASE x = q /\ s \in Others
    BY <1>1, <2>3, MeshAssumption
  <2> QED
    BY <2>1, <2>2, <2>3 DEF Callers
<1>8. IdNamesLine'
  <2> SUFFICES ASSUME NEW q1 \in air', NEW q2 \in air',
                      Owner(q1) \in Clients, ParsedId(q2.rid) = q1.rid
               PROVE  q1.uid = q2.uid
    BY DEF IdNamesLine, Owner
  <2>1. CASE q1 \in air /\ q2 \in air
    BY <2>1 DEF IdInv, IdNamesLine
  <2>2. CASE q1 = q /\ q2 \in air
    <3>1. s \in Clients /\ q1.rid = nextId[s]
      BY <1>1, <2>2, MeshAssumption
    <3> QED
      BY <2>2, <3>1, CounterIsFresh
  <2>3. CASE q1 \in air /\ q2 = q
    <3>1. PICK e \in Epochs : q1.rid \in IdRange(Owner(q1), e)
      BY <2>3 DEF IdInv, IdsFromRanges
    <3>2. CASE s \in Clients
      <4>1. nextId[s] \in IdRange(s, epoch[s]) /\ epoch[s] \in Epochs
        BY <1>1, <3>2, CounterStandsInRange DEF IdInv
      <4>2. ParsedId(q2.rid) = nextId[s]
        BY <2>3, <3>2, <4>1, RangeIdIsKept, MeshAssumption
      <4> QED
        BY <2>3, <3>2, <4>2, CounterIsFresh
    <3>3. CASE s \in Others
      <4>1. q.rid \in ForeignIds \cup {NoId}
        BY <3>3, MeshAssumption
      <4>2. q1.rid \in Nat /\ q1.rid # NoId
        BY <3>1, RangeIdIsKept
      <4>3. q.rid # NoId
        BY <2>3, <4>2, ParsedIdType
      <4> QED
        BY <2>3, <3>1, <4>1, <4>3 DEF IdDiscipline
    <3> QED
      BY <3>2, <3>3 DEF Callers
  <2>4. CASE q1 = q /\ q2 = q
    BY <2>4
  <2> QED
    BY <2>1, <2>2, <2>3, <2>4
<1> QED
  BY <1>4, <1>5, <1>6, <1>7, <1>8

\* The invariant is kept by every step.
LEMMA IdInvStep ==
  ASSUME IdDiscipline, TypeOK, IdInv, [Next]_vars
  PROVE  IdInv'
<1>1. ASSUME NEW c \in Clients, BuildStep(c) PROVE IdInv'
  <2>1. PICK to \in Targets, cmd \in Commands, broadcast \in BOOLEAN, meta \in BOOLEAN,
             chosen \in ExplicitIds \cup {NoId}, timeout \in Timeouts :
               Build(c, to, cmd, broadcast, meta, chosen, timeout)
    BY <1>1 DEF BuildStep
  <2>2. chosen = NoId
    BY DEF IdDiscipline
  <2> DEFINE uid == <<c, made[c] + 1>>
             dest == IF broadcast THEN ToAll ELSE to
             q == Line(uid, dest, nextId[c], cmd)
             entry == [uid |-> uid, rid |-> nextId[c], broadcast |-> meta, left |-> timeout]
  <2>3. /\ made[c] < MaxBuilds[c] /\ air' = air \cup {q}
        /\ pending' = [pending EXCEPT ![c] = {p \in @ : p.rid # nextId[c]} \cup {entry}]
        /\ nextId' = [nextId EXCEPT ![c] = @ + 1] /\ made' = [made EXCEPT ![c] = @ + 1]
        /\ epoch' = epoch /\ replies' = replies /\ result' = NoResult
    BY <2>1, <2>2 DEF Build, CounterAfter, TypeOK
  <2>4. q.uid = uid /\ q.rid = nextId[c]
    BY DEF Line
  <2>5. q.rid \in Ids /\ c \in Callers
    BY <2>4 DEF TypeOK, Ids, Callers
  <2> HIDE DEF q
  <2>6. /\ LinesAreDistinct' /\ LinesAreCounted'
        /\ CountersInRange' /\ IdsFromRanges' /\ IdNamesLine'
    BY <2>3, <2>4, <2>5, LineAdded
  <2>7. entry.uid = q.uid /\ entry.rid = q.rid /\ Owner(entry) = c
    BY <2>4 DEF Owner
  <2> HIDE DEF entry
  <2>8. PendingWasSent'
    <3> SUFFICES ASSUME NEW d \in Clients, NEW p \in pending'[d]
                 PROVE  Owner(p) = d /\ \E x \in air' : x.uid = p.uid /\ x.rid = p.rid
      BY DEF PendingWasSent, Owner
    <3>1. p \in pending[d] \/ (d = c /\ p = entry)
      BY <2>3 DEF TypeOK
    <3>2. CASE p \in pending[d]
      BY <2>3, <3>2, LinesStay DEF IdInv
    <3>3. CASE d = c /\ p = entry
      BY <2>3, <2>7, <3>3
    <3> QED
      BY <3>1, <3>2, <3>3
  <2>9. RepliesAnswerLines'
    BY <2>3, LinesStay DEF IdInv, RepliesAnswerLines
  <2>10. ResultMatches'
    BY <2>3 DEF ResultMatches
  <2> QED
    BY <2>6, <2>8, <2>9, <2>10 DEF IdInv
<1>2. ASSUME NEW c \in Clients, ClassifyStep(c) PROVE IdInv'
  <2>1. PICK r \in replies, consume \in BOOLEAN : ClassifyInbound(c, r, consume)
    BY <1>2 DEF ClassifyStep
  <2>2. PendingWasSent'
    <3>1. \A d \in Clients : pending'[d] \subseteq pending[d]
      BY <2>1 DEF ClassifyInbound, TypeOK
    <3> QED
      BY <2>1, <3>1 DEF ClassifyInbound, IdInv, PendingWasSent
  <2>3. ResultMatches'
    <3>1. \A p \in Matching(c, r) : p.uid = r.re /\ p.uid[1] = c
      BY MatchIsTheRequest DEF Owner
    <3>2. result' = [by |-> c, reply |-> r, consume |-> consume,
                     to |-> {p.uid : p \in Matching(c, r)}]
      BY <2>1 DEF ClassifyInbound
    <3> QED
      BY <3>1, <3>2 DEF ResultMatches
  <2> QED
    BY <2>1, <2>2, <2>3
    DEF ClassifyInbound, IdInv, LinesAreDistinct, LinesAreCounted, CountersInRange,
        IdsFromRanges, IdNamesLine, RepliesAnswerLines, Owner
<1>3. ASSUME NEW c \in Clients, Expire(c) PROVE IdInv'
  <2>1. \A d \in Clients : pending'[d] \subseteq pending[d]
    BY <1>3 DEF Expire, TypeOK
  <2> QED
    BY <1>3, <2>1
    DEF Expire, IdInv, LinesAreDistinct, LinesAreCounted, CountersInRange,
        IdsFromRanges, IdNamesLine, PendingWasSent, RepliesAnswerLines, ResultMatches, Owner
<1>4. ASSUME NEW c \in Clients, Restart(c) PROVE IdInv'
  <2>1. /\ epoch[c] < MaxEpochs /\ epoch' = [epoch EXCEPT ![c] = @ + 1]
        /\ nextId' = [nextId EXCEPT ![c] = StartId[c][epoch[c] + 1]]
        /\ pending' = [pending EXCEPT ![c] = {}] /\ result' = NoResult
        /\ made' = made /\ air' = air /\ replies' = replies
    BY <1>4 DEF Restart
  <2>2. /\ epoch \in [Clients -> Epochs] /\ nextId \in [Clients -> Nat]
        /\ made \in [Callers -> Nat] /\ c \in Callers
        /\ epoch[c] \in Nat /\ epoch[c] + 1 \in Epochs
    BY <2>1, MeshAssumption DEF TypeOK, Callers, Epochs
  <2>3. CountersInRange'
    <3> SUFFICES ASSUME NEW d \in Clients
                 PROVE  /\ StartId[d][epoch'[d]] <= nextId'[d]
                        /\ nextId'[d] <= StartId[d][epoch'[d]] + made[d]
      BY <2>1 DEF CountersInRange
    <3>1. CASE d = c
      <4>1. StartId[c][epoch[c] + 1] \in Nat /\ made[c] \in Nat
        BY <2>2, MeshAssumption
      <4> QED
        BY <2>1, <2>2, <3>1, <4>1
    <3>2. CASE d # c
      BY <2>1, <2>2, <3>2 DEF IdInv, CountersInRange
    <3> QED
      BY <3>1, <3>2
  <2>4. IdsFromRanges'
    <3> SUFFICES ASSUME NEW x \in air
                 PROVE  /\ Owner(x) \in Clients =>
                              \E e \in Epochs :
                                /\ e <= epoch'[Owner(x)]
                                /\ x.rid \in IdRange(Owner(x), e)
                                /\ (e = epoch'[Owner(x)] => x.rid < nextId'[Owner(x)])
                        /\ Owner(x) \in Others => x.rid \in ForeignIds \cup {NoId}
      BY <2>1 DEF IdsFromRanges, Owner
    <3>1. Owner(x) \in Others => x.rid \in ForeignIds \cup {NoId}
      BY DEF IdInv, IdsFromRanges
    <3>2. ASSUME Owner(x) \in Clients
          PROVE  \E e \in Epochs :
                   /\ e <= epoch'[Owner(x)]
                   /\ x.rid \in IdRange(Owner(x), e)
                   /\ (e = epoch'[Owner(x)] => x.rid < nextId'[Owner(x)])
      <4>1. PICK e \in Epochs :
              /\ e <= epoch[Owner(x)]
              /\ x.rid \in IdRange(Owner(x), e)
              /\ (e = epoch[Owner(x)] => x.rid < nextId[Owner(x)])
        BY <3>2 DEF IdInv, IdsFromRanges
      <4>2. e \in Nat
        BY MeshAssumption DEF Epochs
      <4>3. CASE Owner(x) = c
        <5>1. e <= epoch'[c] /\ e # epoch'[c]
          BY <2>1, <2>2, <4>1, <4>2, <4>3
        <5> QED
          BY <4>1, <4>3, <5>1
      <4>4. CASE Owner(x) # c
        BY <2>1, <2>2, <3>2, <4>1, <4>4
      <4> QED
        BY <4>3, <4>4
    <3> QED
      BY <3>1, <3>2
  <2>5. PendingWasSent'
    BY <2>1 DEF IdInv, PendingWasSent, TypeOK, Owner
  <2> QED
    BY <2>1, <2>3, <2>4, <2>5
    DEF IdInv, LinesAreDistinct, LinesAreCounted, IdNamesLine, RepliesAnswerLines,
        ResultMatches, Owner
<1>5. CASE Tick
  <2>1. PendingWasSent'
    <3> SUFFICES ASSUME NEW d \in Clients, NEW p \in pending'[d]
                 PROVE  Owner(p) = d /\ \E x \in air : x.uid = p.uid /\ x.rid = p.rid
      BY <1>5 DEF Tick, PendingWasSent, Owner
    <3>1. PICK old \in pending[d] : p = Elapsed(old)
      BY <1>5 DEF Tick
    <3>2. old \in PendingRequest
      BY DEF TypeOK
    <3>3. p.uid = old.uid /\ p.rid = old.rid
      BY <3>1, <3>2 DEF Elapsed, PendingRequest
    <3> QED
      BY <3>3 DEF IdInv, PendingWasSent, Owner
  <2> QED
    BY <1>5, <2>1
    DEF Tick, IdInv, LinesAreDistinct, LinesAreCounted, CountersInRange,
        IdsFromRanges, IdNamesLine, RepliesAnswerLines, ResultMatches, Owner
<1>6. ASSUME NEW o \in Others, SayStep(o) PROVE IdInv'
  <2>1. PICK to \in Targets, cmd \in Commands, rid \in ForeignIds \cup {NoId} :
               Say(o, to, cmd, rid)
    BY <1>6 DEF SayStep
  <2> DEFINE q == Line(<<o, made[o] + 1>>, to, rid, cmd)
  <2>2. /\ made[o] < MaxBuilds[o] /\ air' = air \cup {q}
        /\ made' = [made EXCEPT ![o] = @ + 1]
        /\ epoch' = epoch /\ nextId' = nextId /\ pending' = pending
        /\ replies' = replies /\ result' = result
    BY <2>1 DEF Say
  <2>3. q.uid = <<o, made[o] + 1>> /\ q.rid = rid
    BY DEF Line
  <2>4. q.rid \in Ids /\ o \in Callers
    BY <2>3, MeshAssumption DEF Ids, Callers
  <2> HIDE DEF q
  <2>5. /\ LinesAreDistinct' /\ LinesAreCounted'
        /\ CountersInRange' /\ IdsFromRanges' /\ IdNamesLine'
    BY <2>2, <2>3, <2>4, LineAdded
  <2>6. PendingWasSent' /\ RepliesAnswerLines'
    BY <2>2, LinesStay DEF IdInv, PendingWasSent, RepliesAnswerLines, Owner
  <2>7. ResultMatches'
    BY <2>2 DEF IdInv, ResultMatches
  <2> QED
    BY <2>5, <2>6, <2>7 DEF IdInv
<1>7. ASSUME NEW n \in Nodes, HandleStep(n) PROVE IdInv'
  <2>1. PICK q \in air, outcome \in Outcome, entropy \in Entropy :
               HandleInbound(n, q, outcome, entropy)
    BY <1>7 DEF HandleStep
  <2> DEFINE delay == DelayMsFor(q.kind, Slot(Seed(n)), entropy)
             r == [from |-> n, re |-> q.uid, rid |-> ParsedId(q.rid),
                   body |-> WritePrefixed(ParsedId(q.rid), Body(n, q.cmd, outcome)),
                   delay |-> DelayHint(n, delay)]
  <2>2. replies' = replies \cup {r} /\ r.re = q.uid /\ r.rid = ParsedId(q.rid)
    BY <2>1 DEF HandleInbound
  <2> HIDE DEF r
  <2>3. RepliesAnswerLines'
    BY <2>1, <2>2 DEF HandleInbound, IdInv, RepliesAnswerLines
  <2> QED
    BY <2>1, <2>3
    DEF HandleInbound, IdInv, LinesAreDistinct, LinesAreCounted, CountersInRange,
        IdsFromRanges, IdNamesLine, PendingWasSent, ResultMatches, Owner
<1>8. CASE UNCHANGED vars
  BY <1>8
  DEF vars, IdInv, LinesAreDistinct, LinesAreCounted, CountersInRange,
      IdsFromRanges, IdNamesLine, PendingWasSent, RepliesAnswerLines, ResultMatches, Owner
<1> QED
  BY <1>1, <1>2, <1>3, <1>4, <1>5, <1>6, <1>7, <1>8 DEF Next

\* Under the id discipline the inductive invariant holds throughout, for any
\* number of clients, hand-typed lines, nodes, incarnations and requests.
THEOREM IdsIdentify == Spec => [](IdDiscipline => IdInv)
<1>1. Init => IdInv
  BY MeshAssumption
  DEF Init, IdInv, LinesAreDistinct, LinesAreCounted, CountersInRange, IdsFromRanges,
      IdNamesLine, PendingWasSent, RepliesAnswerLines, ResultMatches, Epochs, Callers
<1>2. TypeOK /\ (IdDiscipline => IdInv) /\ [Next]_vars => (IdDiscipline => IdInv)'
  BY IdInvStep DEF IdDiscipline
<1> QED
  BY <1>1, <1>2, TypeCorrect, PTL DEF Spec

-----------------------------------------------------------------------------
(* Stagger. *)

\* Every reply waits as handleInbound computed it for the line it answers; no
\* discipline is needed for that.
DelayComputed(r, q) ==
  \E entropy \in Entropy :
    r.delay = DelayHint(r.from, DelayMsFor(q.kind, Slot(Seed(r.from)), entropy))

DelayInv ==
  /\ LinesAreDistinct
  /\ LinesAreCounted
  /\ \A r \in replies : \E q \in air : q.uid = r.re /\ DelayComputed(r, q)

LEMMA DelayInvHolds == Spec => []DelayInv
<1>1. Init => DelayInv
  BY DEF Init, DelayInv, LinesAreDistinct, LinesAreCounted
<1>2. TypeOK /\ DelayInv /\ [Next]_vars => DelayInv'
  <2> SUFFICES ASSUME TypeOK, DelayInv, [Next]_vars PROVE DelayInv'
    OBVIOUS
  <2>1. ASSUME NEW c \in Clients, BuildStep(c) PROVE DelayInv'
    <3>1. PICK to \in Targets, cmd \in Commands, broadcast \in BOOLEAN, meta \in BOOLEAN,
               chosen \in ExplicitIds \cup {NoId}, timeout \in Timeouts :
                 Build(c, to, cmd, broadcast, meta, chosen, timeout)
      BY <2>1 DEF BuildStep
    <3> DEFINE q == Line(<<c, made[c] + 1>>, IF broadcast THEN ToAll ELSE to,
                         IF chosen = NoId THEN nextId[c] ELSE chosen, cmd)
    <3>2. /\ air' = air \cup {q} /\ made' = [made EXCEPT ![c] = @ + 1]
          /\ replies' = replies
      BY <3>1 DEF Build
    <3>3. q.uid = <<c, made[c] + 1>> /\ c \in Callers
      BY DEF Line, Callers
    <3> HIDE DEF q
    <3> QED
      BY <3>2, <3>3, LineAddedPlain DEF DelayInv
  <2>2. ASSUME NEW o \in Others, SayStep(o) PROVE DelayInv'
    <3>1. PICK to \in Targets, cmd \in Commands, rid \in ForeignIds \cup {NoId} :
                 Say(o, to, cmd, rid)
      BY <2>2 DEF SayStep
    <3> DEFINE q == Line(<<o, made[o] + 1>>, to, rid, cmd)
    <3>2. /\ air' = air \cup {q} /\ made' = [made EXCEPT ![o] = @ + 1]
          /\ replies' = replies
      BY <3>1 DEF Say
    <3>3. q.uid = <<o, made[o] + 1>> /\ o \in Callers
      BY DEF Line, Callers
    <3> HIDE DEF q
    <3> QED
      BY <3>2, <3>3, LineAddedPlain DEF DelayInv
  <2>3. ASSUME NEW n \in Nodes, HandleStep(n) PROVE DelayInv'
    <3>1. PICK q \in air, outcome \in Outcome, entropy \in Entropy :
                 HandleInbound(n, q, outcome, entropy)
      BY <2>3 DEF HandleStep
    <3> DEFINE delay == DelayMsFor(q.kind, Slot(Seed(n)), entropy)
               r == [from |-> n, re |-> q.uid, rid |-> ParsedId(q.rid),
                     body |-> WritePrefixed(ParsedId(q.rid), Body(n, q.cmd, outcome)),
                     delay |-> DelayHint(n, delay)]
    <3>2. /\ replies' = replies \cup {r} /\ r.re = q.uid /\ r.from = n
          /\ r.delay = DelayHint(n, delay) /\ air' = air /\ made' = made
      BY <3>1 DEF HandleInbound
    <3> HIDE DEF r
    <3>3. DelayComputed(r, q)
      BY <3>2 DEF DelayComputed
    <3> QED
      BY <3>2, <3>3 DEF DelayInv, LinesAreDistinct, LinesAreCounted, Owner
  <2>4. ASSUME replies' = replies, air' = air, made' = made PROVE DelayInv'
    BY <2>4 DEF DelayInv, LinesAreDistinct, LinesAreCounted, Owner
  <2> QED
    BY <2>1, <2>2, <2>3, <2>4
    DEF Next, ClassifyStep, ClassifyInbound, Expire, Restart, Tick, vars
<1> QED
  BY <1>1, <1>2, TypeCorrect, PTL DEF Spec

\* Whatever a node's identity hashes to and whatever entropy it draws, its
\* reply to `all` waits inside the broadcast window, and no other reply does.
THEOREM Windows == Spec => []BroadcastWindow
<1>1. TypeOK /\ DelayInv => BroadcastWindow
  <2> SUFFICES ASSUME TypeOK, DelayInv, NEW r \in replies, NEW q \in air,
                      q.uid = r.re, PublishMode[r.from] = "ex"
               PROVE  IF q.kind = "All"
                      THEN r.delay \in BROADCAST_MIN_MS .. BROADCAST_MAX_MS - 1
                      ELSE r.delay \in 0 .. ADDRESSED_MAX_MS
    BY DEF BroadcastWindow
  <2>1. DelayComputed(r, q)
    BY DEF DelayInv, LinesAreDistinct
  <2>2. PICK entropy \in Entropy :
               r.delay = DelayMsFor(q.kind, Slot(Seed(r.from)), entropy)
    BY <2>1 DEF DelayComputed, DelayHint
  <2>3. r.from \in Nodes /\ q.kind \in Kinds /\ entropy \in Entropy16
    BY MeshAssumption DEF TypeOK, ReplyLine, RequestLine
  <2>4. q.kind # "All" => r.delay \in 0 .. ADDRESSED_MAX_MS
    BY <2>2, <2>3, DelayIsNat
  <2>5. ASSUME q.kind = "All" PROVE r.delay \in BROADCAST_MIN_MS .. BROADCAST_MAX_MS - 1
    <3>1. PICK slot \in 0 .. 15 :
            r.delay \in Nat /\ SlotStart(slot) <= r.delay /\ r.delay < SlotStart(slot) + SlotWidth
      BY <2>2, <2>3, <2>5, DelayIsNat DEF SLOT_COUNT
    <3>2. PICK d \in Nat : d = r.delay
      BY <3>1
    <3>3. SlotWidth = 200
      BY SMT DEF SlotWidth, BROADCAST_MAX_MS, BROADCAST_MIN_MS, SLOT_COUNT
    <3>4. 400 + slot * 200 <= d /\ d < 400 + slot * 200 + 200
      BY <3>1, <3>2, <3>3 DEF SlotStart, BROADCAST_MIN_MS
    <3>5. d \in 400 .. 3599
      BY <3>4
    <3> QED
      BY <3>2, <3>5, SMTT(30) DEF BROADCAST_MIN_MS, BROADCAST_MAX_MS
  <2> QED
    BY <2>4, <2>5
<1> QED
  BY <1>1, TypeCorrect, DelayInvHolds, PTL

\* Two nodes in different slots never start to transmit in the same window,
\* for any two identities and any entropy.
THEOREM SlotsSeparate == Spec => []SlotsSeparateReplies
<1>1. TypeOK /\ DelayInv => SlotsSeparateReplies
  <2> SUFFICES ASSUME TypeOK, DelayInv,
                      NEW r1 \in replies, NEW r2 \in replies, NEW q \in air,
                      r1.re = q.uid, r2.re = q.uid, q.kind = "All",
                      PublishMode[r1.from] = "ex", PublishMode[r2.from] = "ex",
                      Slot(Seed(r1.from)) < Slot(Seed(r2.from))
               PROVE  r1.delay < SlotStart(Slot(Seed(r2.from))) /\ r1.delay < r2.delay
    BY DEF SlotsSeparateReplies
  <2>1. DelayComputed(r1, q) /\ DelayComputed(r2, q)
    BY DEF DelayInv, LinesAreDistinct
  <2>2. PICK e1 \in Entropy :
               r1.delay = DelayMsFor(q.kind, Slot(Seed(r1.from)), e1)
    BY <2>1 DEF DelayComputed, DelayHint
  <2>3. PICK e2 \in Entropy :
               r2.delay = DelayMsFor(q.kind, Slot(Seed(r2.from)), e2)
    BY <2>1 DEF DelayComputed, DelayHint
  <2>4. /\ r1.from \in Nodes /\ r2.from \in Nodes /\ q.kind \in Kinds
        /\ e1 \in Entropy16 /\ e2 \in Entropy16
    BY MeshAssumption DEF TypeOK, ReplyLine, RequestLine
  <2> DEFINE s1 == Slot(Seed(r1.from))
             s2 == Slot(Seed(r2.from))
  <2>5. /\ s1 \in 0 .. SLOT_COUNT - 1 /\ r1.delay \in Nat
        /\ r1.delay < SlotStart(s1) + SlotWidth
    BY <2>2, <2>4, DelayIsNat
  <2>6. s2 \in 0 .. SLOT_COUNT - 1 /\ r2.delay \in Nat /\ SlotStart(s2) <= r2.delay
    BY <2>3, <2>4, DelayIsNat
  <2>7. s1 < s2
    OBVIOUS
  <2> HIDE DEF s1, s2
  <2>8. SlotWidth = 200
    BY SMT DEF SlotWidth, BROADCAST_MAX_MS, BROADCAST_MIN_MS, SLOT_COUNT
  <2>9. r1.delay < SlotStart(s2) /\ r1.delay < r2.delay
    BY <2>5, <2>6, <2>7, <2>8 DEF SlotStart, SLOT_COUNT, BROADCAST_MIN_MS
  <2> QED
    BY <2>9 DEF s2
<1> QED
  BY <1>1, TypeCorrect, DelayInvHolds, PTL

-----------------------------------------------------------------------------
(* Correlators, radio and nodes implement RequestReply, under the id       *)
(* discipline: every step is a step of RequestReply or changes nothing     *)
(* that its caller can see.                                                *)

\* _pending is a dict: no two entries of a client have one id.
PendingKeyed ==
  \A c \in Clients : \A p1, p2 \in pending[c] : p1.rid = p2.rid => p1 = p2

Inv == TypeOK /\ IdInv /\ PendingKeyed

ServedPairs == {<<r.re, r.from>> : r \in {r \in replies : r.re[1] \in Clients}}

-----------------------------------------------------------------------------
(* What the refinement mapping says, element by element.                   *)

LEMMA OpenIs ==
  /\ \A u : u \in OpenRequests <=> \E c \in Clients : \E p \in pending[c] : p.uid = u
  /\ \A u : u \in OpenRequests' <=> \E c \in Clients : \E p \in pending'[c] : p.uid = u
BY DEF OpenRequests

LEMMA CollectingIs ==
  /\ \A u : u \in CollectingRequests <=>
              \E c \in Clients : \E p \in pending[c] : p.uid = u /\ p.broadcast
  /\ \A u : u \in CollectingRequests' <=>
              \E c \in Clients : \E p \in pending'[c] : p.uid = u /\ p.broadcast
BY DEF CollectingRequests

LEMMA ClosedIs ==
  /\ \A u : u \in ClosedRequests <=>
              u \notin OpenRequests /\ u[1] \in Clients /\ \E q \in air : q.uid = u
  /\ \A u : u \in ClosedRequests' <=>
              u \notin OpenRequests' /\ u[1] \in Clients /\ \E q \in air' : q.uid = u
BY DEF ClosedRequests

LEMMA ServedIs ==
  /\ \A s : s \in ServedPairs <=> \E r \in replies : r.re[1] \in Clients /\ s = <<r.re, r.from>>
  /\ \A s : s \in ServedPairs' <=> \E r \in replies' : r.re[1] \in Clients /\ s = <<r.re, r.from>>
BY DEF ServedPairs

\* An entry is about a line of its own client, and is the only entry about it.
LEMMA EntryIsItsRequest ==
  ASSUME Inv, NEW c \in Clients, NEW p \in pending[c]
  PROVE  /\ p.uid \in ClientRequests /\ p.uid[1] = c /\ \E q \in air : q.uid = p.uid
         /\ \A d \in Clients : \A q \in pending[d] : q.uid = p.uid => d = c /\ q = p
<1>1. PICK a \in air : a.uid = p.uid /\ a.rid = p.rid
  BY DEF Inv, IdInv, PendingWasSent
<1>2. p.uid[1] = c BY DEF Inv, IdInv, PendingWasSent, Owner
<1>3. p.uid \in ClientRequests
  <2>1. p.uid \in Uids BY DEF Inv, TypeOK, PendingRequest
  <2>2. PICK s \in Callers : p.uid \in {s} \X (1 .. MaxBuilds[s]) BY <2>1 DEF Uids
  <2>3. p.uid \in {c} \X (1 .. MaxBuilds[c]) BY <1>2, <2>2
  <2> QED BY <2>3 DEF ClientRequests
<1>4. ASSUME NEW d \in Clients, NEW q \in pending[d], q.uid = p.uid PROVE d = c /\ q = p
  <2>1. q.uid[1] = d BY DEF Inv, IdInv, PendingWasSent, Owner
  <2>2. PICK b \in air : b.uid = q.uid /\ b.rid = q.rid BY DEF Inv, IdInv, PendingWasSent
  <2>3. a = b BY <1>1, <1>4, <2>2 DEF Inv, IdInv, LinesAreDistinct
  <2> QED BY <1>1, <1>2, <1>4, <2>1, <2>2, <2>3 DEF Inv, PendingKeyed
<1> QED BY <1>1, <1>2, <1>3, <1>4

-----------------------------------------------------------------------------
(* The actions, one by one.                                                *)

\* Entries that leave the table close their requests.
LEMMA EntriesLeave ==
  ASSUME Inv, NEW c \in Clients, NEW gone \in SUBSET pending[c],
         pending' = [pending EXCEPT ![c] = @ \ gone], air' = air
  PROVE  /\ {p.uid : p \in gone} \subseteq OpenRequests
         /\ {p.uid : p \in gone} \in SUBSET ClientRequests
         /\ OpenRequests' = OpenRequests \ {p.uid : p \in gone}
         /\ ClosedRequests' = ClosedRequests \cup {p.uid : p \in gone}
         /\ CollectingRequests' = CollectingRequests \ {p.uid : p \in gone}
<1> DEFINE U == {p.uid : p \in gone}
<1>1. \A d \in Clients : pending'[d] = IF d = c THEN pending[c] \ gone ELSE pending[d]
  BY DEF Inv, TypeOK
<1>2. ASSUME NEW d \in Clients, NEW p \in pending[d]
      PROVE  p \in pending'[d] <=> p.uid \notin U
  <2>1. CASE d = c /\ p \in gone BY <1>1, <2>1
  <2>2. CASE ~(d = c /\ p \in gone)
    <3>1. \A g \in gone : g.uid # p.uid BY <2>2, EntryIsItsRequest
    <3> QED BY <1>1, <2>2, <3>1
  <2> QED BY <2>1, <2>2
<1>3. \A d \in Clients : pending'[d] \subseteq pending[d] BY <1>1
<1>4. U \subseteq OpenRequests BY OpenIs
<1>5. U \in SUBSET ClientRequests /\ \A u \in U : u[1] \in Clients /\ \E q \in air : q.uid = u
  BY EntryIsItsRequest
<1> HIDE DEF U
<1>6. OpenRequests' = OpenRequests \ U
  <2>1. ASSUME NEW u \in OpenRequests' PROVE u \in OpenRequests /\ u \notin U
    <3>1. PICK d \in Clients : \E p \in pending'[d] : p.uid = u BY OpenIs
    <3>2. PICK p \in pending'[d] : p.uid = u BY <3>1
    <3> QED BY <1>2, <1>3, <3>2, OpenIs
  <2>2. ASSUME NEW u \in OpenRequests, u \notin U PROVE u \in OpenRequests'
    <3>1. PICK d \in Clients : \E p \in pending[d] : p.uid = u BY OpenIs
    <3>2. PICK p \in pending[d] : p.uid = u BY <3>1
    <3> QED BY <1>2, <2>2, <3>2, OpenIs
  <2> QED BY <2>1, <2>2
<1>7. CollectingRequests' = CollectingRequests \ U
  <2>1. ASSUME NEW u \in CollectingRequests' PROVE u \in CollectingRequests /\ u \notin U
    <3>1. PICK d \in Clients : \E p \in pending'[d] : p.uid = u /\ p.broadcast BY CollectingIs
    <3>2. PICK p \in pending'[d] : p.uid = u /\ p.broadcast BY <3>1
    <3> QED BY <1>2, <1>3, <3>2, CollectingIs
  <2>2. ASSUME NEW u \in CollectingRequests, u \notin U PROVE u \in CollectingRequests'
    <3>1. PICK d \in Clients : \E p \in pending[d] : p.uid = u /\ p.broadcast BY CollectingIs
    <3>2. PICK p \in pending[d] : p.uid = u /\ p.broadcast BY <3>1
    <3> QED BY <1>2, <2>2, <3>2, CollectingIs
  <2> QED BY <2>1, <2>2
<1>8. ClosedRequests' = ClosedRequests \cup U
  BY <1>4, <1>5, <1>6, ClosedIs
<1> QED BY <1>4, <1>5, <1>6, <1>7, <1>8 DEF U

\* Steps that leave the table and the lines of clients alone.
LEMMA TableUnchanged ==
  ASSUME pending' = pending, NEW q, air' = air \/ (air' = air \cup {q} /\ q.uid[1] \notin Clients)
  PROVE  UNCHANGED <<OpenRequests, ClosedRequests, CollectingRequests>>
<1>1. OpenRequests' = OpenRequests /\ CollectingRequests' = CollectingRequests
  BY DEF OpenRequests, CollectingRequests
<1>2. \A u : u \in ClosedRequests' <=> u \in ClosedRequests
  BY <1>1, ClosedIs
<1>3. ClosedRequests' \subseteq ClosedRequests /\ ClosedRequests \subseteq ClosedRequests'
  BY <1>2
<1> QED BY <1>1, <1>3

LEMMA BuildIssues ==
  ASSUME IdDiscipline, Inv, NEW c \in Clients, BuildStep(c)
  PROVE  PendingKeyed' /\ \E collects \in BOOLEAN : Promise!Issue(<<c, made[c] + 1>>, collects)
<1>1. PICK to \in Targets, cmd \in Commands, broadcast \in BOOLEAN, meta \in BOOLEAN,
           chosen \in ExplicitIds \cup {NoId}, timeout \in Timeouts :
             Build(c, to, cmd, broadcast, meta, chosen, timeout)
  BY DEF BuildStep
<1>2. chosen = NoId BY DEF IdDiscipline
<1> DEFINE uid == <<c, made[c] + 1>>
           q == Line(uid, IF broadcast THEN ToAll ELSE to, nextId[c], cmd)
           entry == [uid |-> uid, rid |-> nextId[c], broadcast |-> meta, left |-> timeout]
<1>3. /\ made[c] < MaxBuilds[c] /\ air' = air \cup {q} /\ replies' = replies /\ result' = NoResult
      /\ pending' = [pending EXCEPT ![c] = {p \in @ : p.rid # nextId[c]} \cup {entry}]
  BY <1>1, <1>2 DEF Build
<1>4. q.uid = uid /\ entry.uid = uid /\ entry.rid = nextId[c] /\ entry.broadcast = meta /\ uid[1] = c
  BY DEF Line
<1>5. \A p \in pending[c] : p.rid # nextId[c]
  <2> SUFFICES ASSUME NEW p \in pending[c] PROVE p.rid # nextId[c]
    OBVIOUS
  <2>1. PICK a \in air : a.uid = p.uid /\ a.rid = p.rid BY DEF Inv, IdInv, PendingWasSent
  <2>2. a.rid # nextId[c] BY <1>3, CounterIsFresh DEF Inv
  <2> QED BY <2>1, <2>2
<1>6. \A a \in air : a.uid # uid
  <2> SUFFICES ASSUME NEW a \in air, a.uid = uid PROVE FALSE
    OBVIOUS
  <2>1. uid[1] = c /\ uid[2] = made[c] + 1 OBVIOUS
  <2>2. a.uid[2] <= made[c] BY <2>1 DEF Inv, IdInv, LinesAreCounted, Owner
  <2>3. made[c] \in Nat BY DEF Inv, TypeOK, Callers
  <2> HIDE DEF uid
  <2> QED BY <2>1, <2>2, <2>3
<1> HIDE DEF uid, q, entry
<1>7. \A d \in Clients : pending'[d] = IF d = c THEN pending[c] \cup {entry} ELSE pending[d]
  BY <1>3, <1>5 DEF Inv, TypeOK
<1>8. PendingKeyed'
  <2> SUFFICES ASSUME NEW d \in Clients, NEW p1 \in pending'[d], NEW p2 \in pending'[d], p1.rid = p2.rid
               PROVE  p1 = p2
    BY DEF PendingKeyed
  <2>1. CASE d = c BY <1>4, <1>5, <1>7, <2>1 DEF Inv, PendingKeyed
  <2>2. CASE d # c BY <1>7, <2>2 DEF Inv, PendingKeyed
  <2> QED BY <2>1, <2>2
<1>9. uid \notin OpenRequests /\ uid \notin ClosedRequests
  <2>1. \A d \in Clients : \A p \in pending[d] : p.uid # uid BY <1>6, EntryIsItsRequest
  <2> QED BY <1>6, <2>1, OpenIs, ClosedIs
<1>10. OpenRequests' = OpenRequests \cup {uid}
  <2>1. \A u : u \in OpenRequests' <=> u \in OpenRequests \/ u = uid BY <1>4, <1>7, OpenIs
  <2> QED BY <2>1
<1>11. CollectingRequests' = IF meta THEN CollectingRequests \cup {uid} ELSE CollectingRequests
  <2>1. \A u : u \in CollectingRequests' <=> u \in CollectingRequests \/ (meta /\ u = uid)
    BY <1>4, <1>7, CollectingIs
  <2> QED BY <2>1
<1>12. ClosedRequests' = ClosedRequests
  <2>1. \A u : u \in ClosedRequests' <=> u \in ClosedRequests
    <3> SUFFICES ASSUME NEW u PROVE u \in ClosedRequests' <=> u \in ClosedRequests
      OBVIOUS
    <3>1. CASE u = uid BY <1>9, <1>10, <3>1, ClosedIs
    <3>2. CASE u # uid BY <1>3, <1>4, <1>10, <3>2, ClosedIs
    <3> QED BY <3>1, <3>2
  <2> QED BY <2>1
<1>13. ServedPairs' = ServedPairs BY <1>3 DEF ServedPairs
<1>14. Reported' = NoResult BY <1>3 DEF Reported
<1>15. Promise!Issue(uid, meta)
  BY <1>9, <1>10, <1>11, <1>12, <1>13, <1>14 DEF Promise!Issue, ServedPairs
<1> QED BY <1>8, <1>15 DEF uid

\* What an empty-handed call changes for the caller.
LEMMA EmptyHanded ==
  ASSUME Inv, NEW c \in Clients, NEW gone \in SUBSET pending[c],
         pending' = [pending EXCEPT ![c] = @ \ gone], air' = air, replies' = replies,
         Reported' = NoResult
  PROVE  /\ PendingKeyed'
         /\ \E U \in SUBSET ClientRequests : Promise!Drop(U)
<1>1. PendingKeyed'
  <2>1. \A d \in Clients : pending'[d] \subseteq pending[d] BY DEF Inv, TypeOK
  <2> QED BY <2>1 DEF Inv, PendingKeyed
<1>2. ServedPairs' = ServedPairs BY DEF ServedPairs
<1> DEFINE U == {p.uid : p \in gone}
<1>3. /\ U \subseteq OpenRequests /\ U \in SUBSET ClientRequests
      /\ OpenRequests' = OpenRequests \ U
      /\ ClosedRequests' = ClosedRequests \cup U
      /\ CollectingRequests' = CollectingRequests \ U
  BY EntriesLeave
<1> HIDE DEF U
<1>4. Promise!Drop(U)
  BY <1>2, <1>3 DEF Promise!Drop, Promise!Close, ServedPairs
<1> QED BY <1>1, <1>3, <1>4

LEMMA ExpireDrops ==
  ASSUME Inv, NEW c \in Clients, Expire(c)
  PROVE  PendingKeyed' /\ \E U \in SUBSET ClientRequests : Promise!Drop(U)
<1> DEFINE gone == {p \in pending[c] : Expired(p)}
<1>1. {p \in pending[c] : ~Expired(p)} = pending[c] \ gone OBVIOUS
<1>2. pending' = [pending EXCEPT ![c] = @ \ gone] BY <1>1 DEF Expire
<1>3. gone \in SUBSET pending[c] OBVIOUS
<1> HIDE DEF gone
<1>4. Reported' = NoResult BY DEF Expire, Reported
<1> QED BY <1>2, <1>3, <1>4, EmptyHanded DEF Expire

LEMMA RestartDrops ==
  ASSUME Inv, NEW c \in Clients, Restart(c)
  PROVE  PendingKeyed' /\ \E U \in SUBSET ClientRequests : Promise!Drop(U)
<1>1. pending' = [pending EXCEPT ![c] = @ \ pending[c]] BY DEF Restart
<1>2. Reported' = NoResult BY DEF Restart, Reported
<1> QED BY <1>1, <1>2, EmptyHanded DEF Restart

LEMMA ClassifyReports ==
  ASSUME Inv, NEW c \in Clients, ClassifyStep(c)
  PROVE  /\ PendingKeyed'
         /\ \/ \E U \in SUBSET ClientRequests : Promise!Drop(U)
            \/ \E u \in ClientRequests, n \in Nodes : Promise!Look(u, n) \/ Promise!Take(u, n)
<1>1. PICK r \in replies, consume \in BOOLEAN : ClassifyInbound(c, r, consume)
  BY DEF ClassifyStep
<1>2. /\ pending' = [pending EXCEPT ![c] = @ \ Taken(c, r, consume)]
      /\ result' = [by |-> c, reply |-> r, consume |-> consume,
                    to |-> {p.uid : p \in Matching(c, r)}]
      /\ air' = air /\ replies' = replies
  BY <1>1 DEF ClassifyInbound
<1>3. Matching(c, r) \subseteq pending[c] /\ Taken(c, r, consume) \in SUBSET pending[c]
  BY DEF Matching, Taken
<1>4. PendingKeyed'
  <2>1. \A d \in Clients : pending'[d] \subseteq pending[d] BY <1>2 DEF Inv, TypeOK
  <2> QED BY <2>1 DEF Inv, PendingKeyed
<1>5. result'.to = {p.uid : p \in Matching(c, r)} /\ result'.reply = r /\ result'.consume = consume
  BY <1>2
<1>6. CASE Matching(c, r) = {}
  <2>1. Reported' = NoResult BY <1>5, <1>6 DEF Reported
  <2> QED BY <1>2, <1>3, <2>1, EmptyHanded
<1>7. CASE Matching(c, r) # {}
  <2>1. PICK p \in Matching(c, r) : TRUE BY <1>7
  <2>2. p \in pending[c] /\ p.uid = r.re /\ p.uid[1] = c
    BY <1>3, <2>1, MatchIsTheRequest DEF Inv, Owner
  <2>3. Matching(c, r) = {p}
    BY <1>3, <2>1, <2>2, MatchIsTheRequest, EntryIsItsRequest DEF Inv
  <2> DEFINE u == r.re
  <2>4. /\ u \in ClientRequests /\ u \in OpenRequests
        /\ \A d \in Clients : \A q \in pending[d] : q.uid = u => q = p
    BY <2>2, EntryIsItsRequest, OpenIs
  <2>5. r.from \in Nodes /\ r \in ReplyLine BY DEF Inv, TypeOK, ReplyLine
  <2>6. <<u, r.from>> \in ServedPairs /\ ServedPairs' = ServedPairs
    BY <1>2, <2>2, ServedIs DEF ServedPairs
  <2>7. result' # NoResult
    <3>1. u \in Uids BY <2>5 DEF ReplyLine
    <3>2. {m.uid : m \in Matching(c, r)} = {u} BY <2>2, <2>3
    <3>3. result' \in Result BY <1>2, <2>5, <3>1, <3>2 DEF Result
    <3> QED BY <3>3, NoResultAssumption
  <2>8. Reported' = [to |-> u, from |-> r.from, taken |-> consume]
    <3>1. result'.to = {u} BY <1>5, <2>2, <2>3
    <3>2. (CHOOSE x \in {u} : TRUE) = u OBVIOUS
    <3> QED BY <1>5, <2>7, <3>1, <3>2 DEF Reported
  <2>9. p.broadcast <=> u \in CollectingRequests
    BY <2>2, <2>4, CollectingIs
  <2> HIDE DEF u
  <2>10. CASE consume /\ ~p.broadcast
    <3>1. Taken(c, r, consume) = {p} BY <2>3, <2>10 DEF Taken
    <3>2. {m.uid : m \in {p}} = {u} BY <2>2 DEF u
    <3>3. /\ OpenRequests' = OpenRequests \ {u}
          /\ ClosedRequests' = ClosedRequests \cup {u}
          /\ CollectingRequests' = CollectingRequests \ {u}
      BY <1>2, <1>3, <3>1, <3>2, EntriesLeave
    <3>4. Promise!Take(u, r.from)
      BY <2>4, <2>6, <2>8, <2>9, <2>10, <3>3
      DEF Promise!Take, Promise!Report, Promise!Close, ServedPairs
    <3> QED BY <1>4, <2>4, <2>5, <3>4
  <2>11. CASE ~(consume /\ ~p.broadcast)
    <3>1. Taken(c, r, consume) = {} BY <2>3, <2>11 DEF Taken
    <3>2. pending' = pending BY <1>2, <3>1 DEF Inv, TypeOK
    <3>3. UNCHANGED <<OpenRequests, ClosedRequests, CollectingRequests>>
      BY <1>2, <3>2, TableUnchanged
    <3>4. CASE consume
      <4>1. Promise!Take(u, r.from)
        BY <2>4, <2>6, <2>8, <2>9, <2>11, <3>3, <3>4 DEF Promise!Take, Promise!Report, ServedPairs
      <4> QED BY <1>4, <2>4, <2>5, <4>1
    <3>5. CASE ~consume
      <4>1. Promise!Look(u, r.from)
        BY <2>4, <2>6, <2>8, <3>3, <3>5 DEF Promise!Look, Promise!Report, ServedPairs
      <4> QED BY <1>4, <2>4, <2>5, <4>1
    <3> QED BY <3>4, <3>5
  <2> QED BY <2>10, <2>11
<1> QED BY <1>6, <1>7

LEMMA TickStutters ==
  ASSUME Inv, Tick
  PROVE  PendingKeyed' /\ UNCHANGED Promise!vars
<1>1. /\ air' = air /\ replies' = replies /\ result' = result
      /\ \A c \in Clients : pending'[c] = {Elapsed(p) : p \in pending[c]}
  BY DEF Tick
<1>2. ASSUME NEW c \in Clients, NEW p \in pending[c]
      PROVE  Elapsed(p).uid = p.uid /\ Elapsed(p).rid = p.rid /\ Elapsed(p).broadcast = p.broadcast
  <2>1. p \in PendingRequest BY DEF Inv, TypeOK
  <2> QED BY <2>1 DEF Elapsed, PendingRequest
<1>3. PendingKeyed'
  <2> SUFFICES ASSUME NEW c \in Clients, NEW p1 \in pending'[c], NEW p2 \in pending'[c], p1.rid = p2.rid
               PROVE  p1 = p2
    BY DEF PendingKeyed
  <2>1. PICK q1 \in pending[c] : p1 = Elapsed(q1) BY <1>1
  <2>2. PICK q2 \in pending[c] : p2 = Elapsed(q2) BY <1>1
  <2>3. q1.rid = q2.rid BY <1>2, <2>1, <2>2
  <2>4. q1 = q2 BY <2>3 DEF Inv, PendingKeyed
  <2> QED BY <2>1, <2>2, <2>4
<1>4. OpenRequests' = OpenRequests
  <2>1. \A u : u \in OpenRequests' <=> u \in OpenRequests
    <3>1. ASSUME NEW u \in OpenRequests PROVE u \in OpenRequests'
      <4>1. PICK c \in Clients : \E p \in pending[c] : p.uid = u BY OpenIs
      <4>2. PICK p \in pending[c] : p.uid = u BY <4>1
      <4>3. Elapsed(p) \in pending'[c] /\ Elapsed(p).uid = u BY <1>1, <1>2, <4>2
      <4> QED BY <4>3, OpenIs
    <3>2. ASSUME NEW u \in OpenRequests' PROVE u \in OpenRequests
      <4>1. PICK c \in Clients : \E p \in pending'[c] : p.uid = u BY OpenIs
      <4>2. PICK p \in pending[c] : Elapsed(p).uid = u BY <1>1, <4>1
      <4>3. p.uid = u BY <1>2, <4>2
      <4> QED BY <4>3, OpenIs
    <3> QED BY <3>1, <3>2
  <2> QED BY <2>1
<1>5. CollectingRequests' = CollectingRequests
  <2>1. \A u : u \in CollectingRequests' <=> u \in CollectingRequests
    <3>1. ASSUME NEW u \in CollectingRequests PROVE u \in CollectingRequests'
      <4>1. PICK c \in Clients : \E p \in pending[c] : p.uid = u /\ p.broadcast BY CollectingIs
      <4>2. PICK p \in pending[c] : p.uid = u /\ p.broadcast BY <4>1
      <4>3. Elapsed(p) \in pending'[c] /\ Elapsed(p).uid = u /\ Elapsed(p).broadcast BY <1>1, <1>2, <4>2
      <4> QED BY <4>3, CollectingIs
    <3>2. ASSUME NEW u \in CollectingRequests' PROVE u \in CollectingRequests
      <4>1. PICK c \in Clients : \E p \in pending'[c] : p.uid = u /\ p.broadcast BY CollectingIs
      <4>2. PICK p \in pending[c] : Elapsed(p).uid = u /\ Elapsed(p).broadcast BY <1>1, <4>1
      <4>3. p.uid = u /\ p.broadcast BY <1>2, <4>2
      <4> QED BY <4>3, CollectingIs
    <3> QED BY <3>1, <3>2
  <2> QED BY <2>1
<1>6. ClosedRequests' = ClosedRequests BY <1>1, <1>4 DEF ClosedRequests
<1> QED BY <1>1, <1>3, <1>4, <1>5, <1>6 DEF Promise!vars, Reported

\* A line typed by hand is no client's request.
LEMMA SayStutters ==
  ASSUME Inv, NEW o \in Others, SayStep(o)
  PROVE  PendingKeyed' /\ UNCHANGED Promise!vars
<1>1. PICK to \in Targets, cmd \in Commands, rid \in ForeignIds \cup {NoId} : Say(o, to, cmd, rid)
  BY DEF SayStep
<1> DEFINE q == Line(<<o, made[o] + 1>>, to, rid, cmd)
<1>2. /\ air' = air \cup {q} /\ pending' = pending /\ replies' = replies /\ result' = result
  BY <1>1 DEF Say
<1>3. q.uid[1] \notin Clients BY MeshAssumption DEF Line
<1> HIDE DEF q
<1>4. UNCHANGED <<OpenRequests, ClosedRequests, CollectingRequests>> BY <1>2, <1>3, TableUnchanged
<1>5. PendingKeyed' BY <1>2 DEF Inv, PendingKeyed
<1> QED BY <1>2, <1>4, <1>5 DEF Promise!vars, Reported

\* A node serves a client's request, or answers somebody else.
LEMMA HandleServes ==
  ASSUME Inv, NEW n \in Nodes, HandleStep(n)
  PROVE  /\ PendingKeyed'
         /\ UNCHANGED Promise!vars \/ \E u \in ClientRequests : Promise!Serve(u, n)
<1>1. PICK q \in air, outcome \in Outcome, entropy \in Entropy : HandleInbound(n, q, outcome, entropy)
  BY DEF HandleStep
<1> DEFINE r == [from |-> n, re |-> q.uid, rid |-> ParsedId(q.rid),
                 body |-> WritePrefixed(ParsedId(q.rid), Body(n, q.cmd, outcome)),
                 delay |-> DelayHint(n, DelayMsFor(q.kind, Slot(Seed(n)), entropy))]
<1>2. /\ replies' = replies \cup {r} /\ r.re = q.uid /\ r.from = n
      /\ air' = air /\ pending' = pending /\ result' = result
  BY <1>1 DEF HandleInbound
<1> HIDE DEF r
<1>3. PendingKeyed' /\ Reported' = Reported BY <1>2 DEF Inv, PendingKeyed, Reported
<1>4. UNCHANGED <<OpenRequests, ClosedRequests, CollectingRequests>> BY <1>2, TableUnchanged
<1>5. CASE q.uid[1] \in Clients
  <2>1. q.uid \in ClientRequests
    <3>1. q.uid \in Uids BY DEF Inv, TypeOK, RequestLine
    <3>2. PICK s \in Callers : q.uid \in {s} \X (1 .. MaxBuilds[s]) BY <3>1 DEF Uids
    <3>3. s = q.uid[1] BY <3>2
    <3> QED BY <1>5, <3>2, <3>3 DEF ClientRequests
  <2>2. q.uid \in OpenRequests \cup ClosedRequests BY <1>5, ClosedIs
  <2>3. ServedPairs' = ServedPairs \cup {<<q.uid, n>>}
    <3>1. \A s : s \in ServedPairs' <=> s \in ServedPairs \/ s = <<q.uid, n>>
      BY <1>2, <1>5, ServedIs
    <3> QED BY <3>1
  <2>4. Promise!Serve(q.uid, n)
    BY <1>3, <1>4, <2>2, <2>3 DEF Promise!Serve, ServedPairs
  <2> QED BY <1>3, <2>1, <2>4
<1>6. CASE q.uid[1] \notin Clients
  <2>1. \A s : s \in ServedPairs' <=> s \in ServedPairs BY <1>2, <1>6, ServedIs
  <2>2. ServedPairs' = ServedPairs BY <2>1
  <2> QED BY <1>3, <1>4, <2>2 DEF Promise!vars, ServedPairs
<1> QED BY <1>5, <1>6

-----------------------------------------------------------------------------
(* The whole.                                                              *)

LEMMA PromiseInit ==
  ASSUME Init
  PROVE  PendingKeyed /\ Promise!Init
<1>1. \A c \in Clients : pending[c] = {} BY DEF Init
<1>2. OpenRequests = {} BY <1>1, OpenIs
<1>3. CollectingRequests = {} BY <1>1, CollectingIs
<1>4. ClosedRequests = {} BY ClosedIs DEF Init
<1>5. ServedPairs = {} BY ServedIs DEF Init
<1>6. Reported = NoResult BY DEF Init, Reported
<1> QED BY <1>1, <1>2, <1>3, <1>4, <1>5, <1>6 DEF Promise!Init, PendingKeyed, ServedPairs

LEMMA PromiseStep ==
  ASSUME IdDiscipline, Inv, [Next]_vars
  PROVE  PendingKeyed' /\ [Promise!Next]_(Promise!vars)
<1>1. ASSUME NEW c \in Clients, BuildStep(c) PROVE PendingKeyed' /\ Promise!Next
  <2>1. PICK collects \in BOOLEAN : Promise!Issue(<<c, made[c] + 1>>, collects)
    BY <1>1, BuildIssues
  <2>2. <<c, made[c] + 1>> \in ClientRequests
    <3>1. made[c] < MaxBuilds[c] BY <1>1 DEF BuildStep, Build
    <3>2. made[c] + 1 \in 1 .. MaxBuilds[c] BY <3>1, MeshAssumption DEF Inv, TypeOK, Callers
    <3> QED BY <3>2 DEF ClientRequests
  <2> QED BY <1>1, <2>1, <2>2, BuildIssues DEF Promise!Next
<1>2. ASSUME NEW c \in Clients, ClassifyStep(c) PROVE PendingKeyed' /\ Promise!Next
  BY <1>2, ClassifyReports DEF Promise!Next
<1>3. ASSUME NEW c \in Clients, Expire(c) PROVE PendingKeyed' /\ Promise!Next
  BY <1>3, ExpireDrops DEF Promise!Next
<1>4. ASSUME NEW c \in Clients, Restart(c) PROVE PendingKeyed' /\ Promise!Next
  BY <1>4, RestartDrops DEF Promise!Next
<1>5. CASE Tick BY <1>5, TickStutters
<1>6. ASSUME NEW o \in Others, SayStep(o) PROVE PendingKeyed' /\ UNCHANGED Promise!vars
  BY <1>6, SayStutters
<1>7. ASSUME NEW n \in Nodes, HandleStep(n) PROVE PendingKeyed' /\ [Promise!Next]_(Promise!vars)
  BY <1>7, HandleServes DEF Promise!Next
<1>8. CASE UNCHANGED vars
  <2>1. UNCHANGED <<OpenRequests, ClosedRequests, CollectingRequests, ServedPairs, Reported>>
    BY <1>8 DEF vars, OpenRequests, ClosedRequests, CollectingRequests, ServedPairs, Reported
  <2> QED BY <1>8, <2>1 DEF Promise!vars, ServedPairs, vars, Inv, PendingKeyed
<1> QED BY <1>1, <1>2, <1>3, <1>4, <1>5, <1>6, <1>7, <1>8 DEF Next

\* Under the id discipline, correlators, radio and nodes implement RequestReply:
\* an answer is reported only for a request that is open and from a node that
\* served it, and once it was taken or dropped nothing is reported for it again.
THEOREM PromiseIsKept == IdDiscipline /\ Spec => KeepsThePromise
<1> SUFFICES ASSUME IdDiscipline PROVE Spec => KeepsThePromise
  OBVIOUS
<1>1. Init => PendingKeyed /\ Promise!Init BY PromiseInit
<1>2. TypeOK /\ (IdDiscipline => IdInv) /\ PendingKeyed /\ [Next]_vars
      => PendingKeyed' /\ [Promise!Next]_(Promise!vars)
  BY PromiseStep DEF Inv
<1> QED BY <1>1, <1>2, TypeCorrect, IdsIdentify, PTL DEF Spec, KeepsThePromise, Promise!Spec
=============================================================================
