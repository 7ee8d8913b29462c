--------------------------- MODULE ConfigProofs ---------------------------
(***************************************************************************)
(* What Config promises about the preferences, for every set of names,     *)
(* keys and firmware versions and for a store whose loads and saves fail   *)
(* as they like; only KeptOnDisk needs more of the store.                  *)
(***************************************************************************)
EXTENDS Config, TLAPS

\* The preferences of a device that was just powered are a well-formed record.
LEMMA ZeroIsPrefs == Zero \in Prefs
BY DEF Zero, Prefs

\* A hex text gives a whole key or none.
LEMMA HexPsk == \A text \in HexTexts : PskFromHex(text) \in Keys \cup {Unset}
BY DEF HexTexts, PskFromHex

\* save() leaves a well-formed record.
LEMMA StampedIsPrefs == ASSUME TypeOK PROVE Stamped \in Prefs
BY ConfigAssumption DEF TypeOK, Stamped, Prefs

\* A load hands over a well-formed record or none.
LEMMA LoadsGive == ASSUME TypeOK, NEW record \in Loads PROVE record \in Prefs \cup {NoPrefs}
BY DEF TypeOK, Loads

\* Whatever the setters, the store and the power do, memory and store hold whole
\* names and keys.
THEOREM TypeCorrect == Spec => []TypeOK
<1>1. Init => TypeOK
  BY ZeroIsPrefs DEF Init, TypeOK
<1>2. TypeOK /\ [Next]_vars => TypeOK'
  <2> SUFFICES ASSUME TypeOK, [Next]_vars PROVE TypeOK'
    OBVIOUS
  <2> USE DEF TypeOK
  <2>1. CASE Boot BY <2>1 DEF Boot
  <2>2. CASE PowerLoss
    BY <2>2, ZeroIsPrefs DEF PowerLoss
  <2>3. CASE SetDefaults
    <3>1. [magic |-> TRUE, version |-> firmware, name |-> DefaultName,
           psk |-> DefaultKey, listen |-> TRUE] \in Prefs
      BY ConfigAssumption DEF Prefs
    <3> QED BY <2>3, <3>1 DEF SetDefaults, Set
  <2>4. ASSUME NEW name \in Names, SetNodeName(name) PROVE TypeOK'
    <3>1. [prefs EXCEPT !.name = name] \in Prefs BY DEF Prefs
    <3> QED BY <2>4, <3>1 DEF SetNodeName, Set
  <2>5. ASSUME NEW key \in Keys, SetChannelPskAscii(key) PROVE TypeOK'
    <3>1. [prefs EXCEPT !.psk = key] \in Prefs BY DEF Prefs
    <3> QED BY <2>5, <3>1 DEF SetChannelPskAscii, Set
  <2>6. ASSUME NEW text \in HexTexts, SetChannelPskHex(text) PROVE TypeOK'
    <3>1. [prefs EXCEPT !.psk = PskFromHex(text)] \in Prefs BY HexPsk DEF Prefs
    <3> QED BY <2>6, <3>1 DEF SetChannelPskHex, Set
  <2>7. ASSUME NEW on \in BOOLEAN, SetListenEnabled(on) PROVE TypeOK'
    <3>1. [prefs EXCEPT !.listen = on] \in Prefs BY DEF Prefs
    <3> QED BY <2>7, <3>1 DEF SetListenEnabled, Set
  <2>8. CASE Load
    <3>1. PICK record \in Loads :
            /\ prefs' = IF Accepted(record) THEN record ELSE prefs
            /\ readable' = (readable /\ record = disk)
      BY <2>8 DEF Load
    <3>2. prefs' \in Prefs BY <3>1, LoadsGive DEF Accepted
    <3> QED BY <2>8, <3>1, <3>2 DEF Load
  <2>9. CASE Save
    BY <2>9, StampedIsPrefs DEF Save, Store
  <2>10. CASE Begin
    <3>1. PICK record \in Loads :
            /\ readable' = (readable /\ record = disk)
            /\ \/ Accepted(record) /\ prefs' = record /\ UNCHANGED disk
               \/ ~Accepted(record) /\ \E saved \in BOOLEAN : Store(saved)
      BY <2>10 DEF Begin
    <3>2. CASE Accepted(record) /\ prefs' = record /\ UNCHANGED disk
      BY <2>10, <3>1, <3>2, LoadsGive DEF Begin, Accepted
    <3>3. CASE \E saved \in BOOLEAN : Store(saved)
      BY <2>10, <3>1, <3>3, StampedIsPrefs DEF Begin, Store
    <3> QED BY <3>1, <3>2, <3>3
  <2>11. CASE UNCHANGED vars BY <2>11 DEF vars
  <2> QED BY <2>1, <2>2, <2>3, <2>4, <2>5, <2>6, <2>7, <2>8, <2>9, <2>10, <2>11 DEF Next
<1> QED BY <1>1, <1>2, PTL DEF Spec

-----------------------------------------------------------------------------

\* Between two begin()s no setter and no failed load makes the preferences
\* anything but a record of the running firmware's format.
THEOREM FormatIsOwn == Spec => []OwnFormat
<1> DEFINE IInv == /\ OwnFormat
                   /\ ~up => ~attached
<1>1. Init => IInv
  BY DEF Init, OwnFormat
<1>2. TypeOK /\ IInv /\ [Next]_vars => IInv'
  <2> SUFFICES ASSUME TypeOK, IInv, [Next]_vars PROVE IInv'
    OBVIOUS
  <2> USE DEF OwnFormat
  <2>1. CASE Boot BY <2>1 DEF Boot
  <2>2. CASE PowerLoss BY <2>2 DEF PowerLoss
  <2>3. CASE SetDefaults BY <2>3 DEF SetDefaults, Set
  <2>4. ASSUME NEW name \in Names, SetNodeName(name) PROVE IInv'
    BY <2>4 DEF SetNodeName, Set, TypeOK, Prefs
  <2>5. ASSUME NEW key \in Keys, SetChannelPskAscii(key) PROVE IInv'
    BY <2>5 DEF SetChannelPskAscii, Set, TypeOK, Prefs
  <2>6. ASSUME NEW text \in HexTexts, SetChannelPskHex(text) PROVE IInv'
    BY <2>6 DEF SetChannelPskHex, Set, TypeOK, Prefs
  <2>7. ASSUME NEW on \in BOOLEAN, SetListenEnabled(on) PROVE IInv'
    BY <2>7 DEF SetListenEnabled, Set, TypeOK, Prefs
  <2>8. CASE Load BY <2>8 DEF Load, Accepted
  <2>9. CASE Save BY <2>9 DEF Save, Store, Stamped, TypeOK, Prefs
  <2>10. CASE Begin
    BY <2>10 DEF Begin, Accepted, Store, Stamped, TypeOK, Prefs
  <2>11. CASE UNCHANGED vars BY <2>11 DEF vars
  <2> QED BY <2>1, <2>2, <2>3, <2>4, <2>5, <2>6, <2>7, <2>8, <2>9, <2>10, <2>11 DEF Next
<1> QED BY <1>1, <1>2, TypeCorrect, PTL DEF Spec

-----------------------------------------------------------------------------
(***************************************************************************)
(* What is kept stays, while it is readable.  Inductive with it: a record  *)
(* that was kept and is readable is one the running firmware accepts, so   *)
(* begin() never saves over it.                                            *)
(***************************************************************************)

KeptIsAccepted ==
  readable /\ kept # NoPrefs => disk = kept /\ disk.magic /\ disk.version = firmware

\* A load that hands over the record of the store, readable and kept, is accepted.
LEMMA KeptLoads ==
  ASSUME KeptIsAccepted, readable, kept # NoPrefs
  PROVE  Accepted(disk)
BY DEF KeptIsAccepted, Accepted

LEMMA KeptIsAcceptedStep == TypeOK /\ KeptIsAccepted /\ [Next]_vars => KeptIsAccepted'
<1> SUFFICES ASSUME TypeOK, KeptIsAccepted, [Next]_vars PROVE KeptIsAccepted'
  OBVIOUS
<1>1. CASE UNCHANGED <<firmware, disk, kept, readable>>
  BY <1>1 DEF KeptIsAccepted
<1>2. CASE Boot
  BY <1>2 DEF Boot, KeptIsAccepted
<1>3. CASE Load
  <2>1. readable' => readable
    BY <1>3 DEF Load
  <2> QED BY <1>3, <2>1 DEF Load, KeptIsAccepted
<1>4. CASE Save
  <2>1. PICK saved \in BOOLEAN : /\ Store(saved)
                                 /\ kept' = IF saved THEN Stamped ELSE kept
                                 /\ readable' = (saved \/ readable)
    BY <1>4 DEF Save
  <2>2. CASE saved
    BY <1>4, <2>1, <2>2 DEF Save, Store, Stamped, KeptIsAccepted, TypeOK, Prefs
  <2>3. CASE ~saved
    BY <1>4, <2>1, <2>3 DEF Save, Store, KeptIsAccepted
  <2> QED BY <2>2, <2>3
<1>5. CASE Begin
  <2>1. PICK record \in Loads :
          /\ readable' = (readable /\ record = disk)
          /\ \/ Accepted(record) /\ prefs' = record /\ UNCHANGED disk
             \/ ~Accepted(record) /\ \E saved \in BOOLEAN : Store(saved)
    BY <1>5 DEF Begin
  <2>2. SUFFICES ASSUME readable', kept' # NoPrefs
                 PROVE  disk' = kept' /\ disk'.magic /\ disk'.version = firmware'
    BY DEF KeptIsAccepted
  <2>3. readable /\ record = disk /\ kept # NoPrefs
    BY <1>5, <2>1, <2>2 DEF Begin
  <2>4. Accepted(record)
    BY <2>3, KeptLoads
  <2>5. UNCHANGED <<firmware, disk, kept>>
    BY <1>5, <2>1, <2>4 DEF Begin
  <2> QED BY <2>3, <2>5 DEF KeptIsAccepted
<1>6. ASSUME NEW p, Set(p) PROVE KeptIsAccepted'
  BY <1>6, <1>1 DEF Set
<1> QED BY <1>1, <1>2, <1>3, <1>4, <1>5, <1>6 DEF Next, PowerLoss, SetDefaults, SetNodeName,
      SetChannelPskAscii, SetChannelPskHex, SetListenEnabled, vars

\* Only a save() that succeeds replaces what a save() has kept.
THEOREM KeptStays == Spec => []KeptOnDisk
<1>1. Init => KeptIsAccepted
  BY DEF Init, KeptIsAccepted
<1>2. KeptIsAccepted => KeptOnDisk
  BY DEF KeptIsAccepted, KeptOnDisk
<1> QED BY <1>1, <1>2, KeptIsAcceptedStep, TypeCorrect, PTL DEF Spec

\* What was kept is what a node works with after it restarts and begin()s.
THEOREM BeginsWithKept == Spec => BeginRestores
<1>1. TypeOK /\ KeptIsAccepted /\ [Next]_vars
        => [~attached /\ attached' /\ readable' /\ kept # NoPrefs => prefs' = kept]_vars
  <2> SUFFICES ASSUME TypeOK, KeptIsAccepted, Next, ~attached, attached', readable',
                      kept # NoPrefs
               PROVE  prefs' = kept
    OBVIOUS
  <2>1. CASE Begin
    <3>1. PICK record \in Loads :
            /\ readable' = (readable /\ record = disk)
            /\ \/ Accepted(record) /\ prefs' = record /\ UNCHANGED disk
               \/ ~Accepted(record) /\ \E saved \in BOOLEAN : Store(saved)
      BY <2>1 DEF Begin
    <3>2. readable /\ record = disk
      BY <3>1
    <3>3. Accepted(record)
      BY <3>2, KeptLoads
    <3> QED BY <3>1, <3>2, <3>3 DEF KeptIsAccepted
  <2>2. ASSUME NEW p, Set(p) PROVE FALSE
    BY <2>2 DEF Set, TypeOK
  <2>3. ~PowerLoss
    BY DEF PowerLoss, TypeOK
  <2>4. ~Boot /\ ~Load /\ ~Save
    BY DEF Boot, Load, Save, TypeOK
  <2> QED BY <2>1, <2>2, <2>3, <2>4 DEF Next, SetDefaults, SetNodeName, SetChannelPskAscii,
        SetChannelPskHex, SetListenEnabled
<1>2. Init => KeptIsAccepted
  BY DEF Init, KeptIsAccepted
<1> QED BY <1>1, <1>2, KeptIsAcceptedStep, TypeCorrect, PTL DEF Spec, BeginRestores
=============================================================================
