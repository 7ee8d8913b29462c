------------------------------ MODULE MCMeshRpc ------------------------------
(* Constants for model checking MeshRpc. *)
EXTENDS MeshRpc

CONSTANTS c1, c2, h1, n1, n2, n3

\* "Base" and "base" are one name to ieq.
MCTexts == {"", "Base", "base", "cam", "yard"}
MCFold == [t \in MCTexts |-> IF t = "Base" THEN "base" ELSE t]

MCNodeName == [n \in Nodes |-> IF n = n1 THEN "Base" ELSE "cam"]
MCGroupName == [n \in Nodes |-> IF n = n1 THEN "" ELSE "yard"]

\* n1 and n3 share their first eight digits and with them the slot.
MCNodeHex == [n \in Nodes |-> CASE n = n1 -> <<1, 2, 3, 4, 5, 6, 7, 8, 1>>
                                [] n = n2 -> <<>>
                                [] OTHER  -> <<1, 2, 3, 4, 5, 6, 7, 8, 2>>]

MCSeeds == {SlotSeed(MCNodeHex[n], MCNodeName[n]) : n \in Nodes}
MCIdentityHash == [s \in MCSeeds |-> IF s.name = "" THEN 30 ELSE 47]

MCRegistered == [n \in Nodes |-> {"ping"}]
ToNamed == [kind |-> "Named", name |-> "base", hex |-> <<>>]
ToGroup == [kind |-> "Group", name |-> "yard", hex |-> <<>>]
ToId    == [kind |-> "Id", name |-> "", hex |-> <<1, 2>>]
ToSelf  == [kind |-> "Self", name |-> "", hex |-> <<>>]

MCAllTargets == {ToNamed, ToGroup, ToId, ToSelf, ToAll}
MCTwoTargets == {ToNamed, ToAll}
MCOneTarget == {ToNamed}

MCOk == {[ok |-> TRUE, text |-> "text"]}

\* Ranges of their own for both clients, and for both incarnations of c1.
MCOwnRanges == [c \in Clients |-> [e \in Epochs |-> (IF c = c1 THEN 1 ELSE 11) + 5 * (e - 1)]]

\* The default: every incarnation of every client counts from 1.
MCDefaultStart == [c \in Clients |-> [e \in Epochs |-> 1]]

MCOneEach == [s \in Callers |-> 1]
MCTwoByFirst == [s \in Callers |-> IF s = c1 THEN 2 ELSE 1]
MCTwoByClients == [s \in Callers |-> IF s \in Clients THEN 2 ELSE 1]

MCAllEx == [n \in Nodes |-> "ex"]
MCMixedModes == [n \in Nodes |-> IF n = n3 THEN "plain" ELSE "ex"]
MCMixedRegistered == [n \in Nodes |-> IF n = n2 THEN {} ELSE {"ping"}]
=============================================================================
