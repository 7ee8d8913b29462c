----------------------------- MODULE ReplyJitter -----------------------------
(***************************************************************************)
(* include/mcrpc/ReplyJitter.h: how long a node waits before it transmits  *)
(* a reply.  The peers that answer `all` share one half-duplex radio, so   *)
(* each takes a slot derived from its identity and a point in that slot    *)
(* derived from entropy.  All values are milliseconds.                     *)
(*                                                                         *)
(* The FNV-1a loop is abstracted: IdentityHash gives some 32-bit number to *)
(* every seed.  What the seed IS matters and is modelled (SlotSeed).       *)
(***************************************************************************)
EXTENDS Integers, Sequences

CONSTANT IdentityHash    \* [seed -> the uint32 identityHash returns]

ASSUME IdentityHashAssumption ==
  \A s \in DOMAIN IdentityHash : IdentityHash[s] \in Nat

BROADCAST_MIN_MS == 400
BROADCAST_MAX_MS == 3600
ADDRESSED_MAX_MS == 120
SLOT_COUNT       == 16

\* slot_w in delayMs: 200 ms.
SlotWidth == (BROADCAST_MAX_MS - BROADCAST_MIN_MS) \div SLOT_COUNT

\* entropy16() yields a uint16_t; 0 is also what a node without an entropy
\* function gets.
Entropy16 == 0 .. 65535

\* The form a bug would take: groups stagger too.
StaggersGroups(kind) == kind \in {"All", "Group"}
NeedsBroadcastStagger(kind) == kind = "All"

\* An identity is the node's hex id, or its name when it has none.  A pubkey
\* of eight or more hex digits counts by its first eight, like discovery's id=.
SlotSeed(hex, name) ==
  IF hex = <<>> THEN [hex |-> <<>>, name |-> name]
  ELSE [hex |-> IF Len(hex) >= 8 THEN SubSeq(hex, 1, 8) ELSE hex, name |-> ""]

Slot(seed) == IdentityHash[seed] % SLOT_COUNT

SlotStart(slot) == BROADCAST_MIN_MS + slot * SlotWidth

AtMost(ms, limit) == IF ms > limit THEN limit ELSE ms

\* The form a bug would take: slots that share their last millisecond.
DelayMsSlotOverlap(broadcast, slot, entropy) ==
  IF broadcast
  THEN AtMost(SlotStart(slot) + (entropy % (SlotWidth + 1)), BROADCAST_MAX_MS)
  ELSE entropy % (ADDRESSED_MAX_MS + 1)
DelayMs(broadcast, slot, entropy) ==
  IF broadcast
  THEN AtMost(SlotStart(slot) + (entropy % SlotWidth), BROADCAST_MAX_MS)
  ELSE entropy % (ADDRESSED_MAX_MS + 1)

DelayMsFor(kind, slot, entropy) ==
  DelayMs(NeedsBroadcastStagger(kind), slot, entropy)
=============================================================================
