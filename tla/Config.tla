------------------------------- MODULE Config -------------------------------
(***************************************************************************)
(* src/Config.cpp: the preferences of a node, in memory and in the         *)
(* ConfigStore that keeps them over a restart.  The node may lose power    *)
(* between any two calls and may come back with a firmware whose           *)
(* MCRPC_CFG_VERSION is another one.                                       *)
(*                                                                         *)
(* The application calls the setters, load, save and begin in any order;   *)
(* the usual one is setDefaults, then begin.                               *)
(*                                                                         *)
(* The store is the consumer's.  It holds one record; a load finds it or   *)
(* fails, and a save that fails leaves the record as it was.               *)
(***************************************************************************)
EXTENDS Integers

CONSTANTS
  Names,          \* node names (at most 31 bytes are kept of a longer one)
  Keys,           \* channel keys, 16 bytes
  DefaultName, DefaultKey,   \* what the application passes to setDefaults
  Versions,       \* MCRPC_CFG_VERSION of the firmwares the node may run
  Unset,          \* zero bytes
  NoPrefs,        \* the store holds no record
  LoadMayFail,    \* ConfigStore::load may return false for a record it has
  SaveMayFail     \* ConfigStore::save may return false

ASSUME ConfigAssumption ==
  /\ Unset \notin Names /\ Unset \notin Keys
  /\ DefaultName \in Names /\ DefaultKey \in Keys
  /\ Versions \subseteq Nat \ {0}
  /\ LoadMayFail \in BOOLEAN /\ SaveMayFail \in BOOLEAN

\* ConfigPrefs; the other fields are plain data like listen.
Prefs == [ magic   : BOOLEAN,            \* holds MCRPC_CFG_MAGIC
           version : Versions \cup {0},
           name    : Names \cup {Unset},
           psk     : Keys \cup {Unset},
           listen  : BOOLEAN ]

ASSUME NoPrefsAssumption == NoPrefs \notin Prefs

VARIABLES
  up,           \* the node is powered
  firmware,     \* MCRPC_CFG_VERSION of the firmware it runs
  prefs,        \* Config::_prefs
  attached,     \* Config::_store is set
  disk,         \* the record in the store
  kept,         \* ghost: what the last save() that returned true was to keep
  readable      \* ghost: since then every load() found the record in the store,
                \* and every firmware could read it

vars == <<up, firmware, prefs, attached, disk, kept, readable>>

Zero == [magic |-> FALSE, version |-> 0, name |-> Unset, psk |-> Unset, listen |-> FALSE]

Init == /\ up = FALSE
        /\ firmware \in Versions
        /\ prefs = Zero
        /\ attached = FALSE
        /\ disk = NoPrefs
        /\ kept = NoPrefs
        /\ readable = TRUE

-----------------------------------------------------------------------------
(* Power. *)

Boot == /\ ~up
        /\ up' = TRUE
        /\ firmware' \in Versions
        /\ readable' = (readable /\ (kept # NoPrefs => kept.version = firmware'))
        /\ UNCHANGED <<prefs, attached, disk, kept>>

PowerLoss == /\ up
             /\ up' = FALSE
             /\ prefs' = Zero
             /\ attached' = FALSE
             /\ UNCHANGED <<firmware, disk, kept, readable>>

-----------------------------------------------------------------------------
(* Setters. *)

\* A hex text is [key, digits]: 32 digits that spell a key, or a text of that
\* length with another character in it, or one of another length.
HexTexts == [key : Keys, digits : {"all hex", "one not hex", "wrong number"}]

\* The form a bug would take: the bytes before the bad digit stay.
PskFromHexTorn(text) ==
  IF text.digits = "one not hex" THEN <<text.key, Unset>>
  ELSE IF text.digits = "all hex" THEN text.key ELSE Unset
\* setChannelPskHex clears the key before it looks at the text, and again when
\* it meets a bad digit.
PskFromHex(text) == IF text.digits = "all hex" THEN text.key ELSE Unset

Set(p) == /\ up
          /\ prefs' = p
          /\ UNCHANGED <<up, firmware, attached, disk, kept, readable>>

SetDefaults == Set([magic |-> TRUE, version |-> firmware, name |-> DefaultName,
                    psk |-> DefaultKey, listen |-> TRUE])
SetNodeName(name) == Set([prefs EXCEPT !.name = name])
SetChannelPskAscii(key) == Set([prefs EXCEPT !.psk = key])
SetChannelPskHex(text) == Set([prefs EXCEPT !.psk = PskFromHex(text)])
SetListenEnabled(on) == Set([prefs EXCEPT !.listen = on])

-----------------------------------------------------------------------------
(* The store. *)

\* What ConfigStore::load hands over: its record, or NoPrefs for false.
Loads == IF LoadMayFail THEN {disk, NoPrefs} ELSE {disk}

\* The form a bug would take: any version is taken.
AcceptedAnyVersion(record) ==
  record # NoPrefs /\ record.magic
\* The checks of Config::load.
Accepted(record) ==
  /\ record # NoPrefs
  /\ record.magic
  /\ record.version = firmware

\* Config::load.  tmp keeps _prefs as it was when a check fails.
Load == /\ up /\ attached
        /\ \E record \in Loads :
             /\ prefs' = IF Accepted(record) THEN record ELSE prefs
             /\ readable' = (readable /\ record = disk)
        /\ UNCHANGED <<up, firmware, attached, disk, kept>>

Stamped == [prefs EXCEPT !.magic = TRUE, !.version = firmware]

\* The body of Config::save, which the store may refuse.
Store(saved) == /\ prefs' = Stamped
                /\ \/ saved /\ disk' = Stamped
                   \/ ~saved /\ SaveMayFail /\ UNCHANGED disk

Save == /\ up /\ attached
        /\ \E saved \in BOOLEAN :
             /\ Store(saved)
             /\ kept' = IF saved THEN Stamped ELSE kept
             /\ readable' = (saved \/ readable)
        /\ UNCHANGED <<up, firmware, attached>>

\* The form a bug would take: what was loaded is ignored.
BeginAlwaysSaves ==
  /\ up /\ attached' = TRUE
  /\ \E saved \in BOOLEAN : Store(saved)
  /\ UNCHANGED <<up, firmware, kept, readable>>
\* Config::begin: attach the store, load; if that fails for any reason, save.
Begin ==
  /\ up /\ attached' = TRUE
  /\ \E record \in Loads :
       /\ readable' = (readable /\ record = disk)
       /\ \/ Accepted(record) /\ prefs' = record /\ UNCHANGED disk
          \/ ~Accepted(record) /\ \E saved \in BOOLEAN : Store(saved)
  /\ UNCHANGED <<up, firmware, kept>>

Next == \/ Boot \/ PowerLoss
        \/ SetDefaults
        \/ \E name \in Names : SetNodeName(name)
        \/ \E key \in Keys : SetChannelPskAscii(key)
        \/ \E text \in HexTexts : SetChannelPskHex(text)
        \/ \E on \in BOOLEAN : SetListenEnabled(on)
        \/ Load \/ Save \/ Begin

Spec == Init /\ [][Next]_vars

-----------------------------------------------------------------------------
(* Correctness. *)

\* In memory and in the store there are whole keys and known names only, also
\* after a rejected hex text and whatever setters ran before the node lost power.
TypeOK == /\ up \in BOOLEAN /\ attached \in BOOLEAN
          /\ firmware \in Versions
          /\ prefs \in Prefs
          /\ disk \in Prefs \cup {NoPrefs}
          /\ kept \in Prefs \cup {NoPrefs}
          /\ readable \in BOOLEAN

\* Once begin() has run, the node works with a record of its own format, whatever
\* another firmware left in the store and whether load and save succeeded.
OwnFormat == up /\ attached => prefs.magic /\ prefs.version = firmware

\* While loads find the record and firmwares can read it, nothing but a later
\* save() replaces what a save() has kept: no restart, no begin() after
\* setDefaults(), no setter and no save() that fails.
KeptOnDisk == readable /\ kept # NoPrefs => disk = kept

\* Under the same proviso, what was kept is what the node works with after it
\* restarts and begin()s.
BeginRestores ==
  [][~attached /\ attached' /\ readable' /\ kept # NoPrefs => prefs' = kept]_vars
=============================================================================
