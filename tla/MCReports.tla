------------------------------ MODULE MCReports ------------------------------
(* Constants for model checking Reports and Calls. *)
EXTENDS Calls

MCCapSize == [battery |-> 7, gps |-> 3, button |-> 6, display |-> 7, relay |-> 5,
              irrigation |-> 10, greenhouse_climate_control |-> 26,
              weather_station_wind_and_rain_gauge |-> 35]

FewCaps == <<"battery", "gps", "button">>
\* The longest capability list that still fits its buffer: 92 bytes and NUL.
FullCaps == <<"battery", "button", "display", "irrigation", "greenhouse_climate_control",
              "weather_station_wind_and_rain_gauge">>
AllCaps == FullCaps \o <<"gps", "relay">>

AllFeatures == <<"core", "battery", "gps", "button", "display", "relay", "led">>

\* Names and ids at their limits: node_name[32] and profile[24] of ConfigPrefs,
\* a 32-byte public key in hex; the name also unset.
OrdinaryNodes ==
  [name : {0, 31}, hex : {0, 64}, fw : {20}, tag : {0, 23}, transport : {8},
   clock : BOOLEAN, caps : {FewCaps, FullCaps, AllCaps},
   features : {<<"core">>, AllFeatures}]

\* Texts that a builder cuts, or that nobody set, from a sketch that calls the
\* setters itself.
LongNodes ==
  [name : {5, 80}, hex : {0, 64, 80}, fw : {0, 20, 80}, tag : {23}, transport : {8},
   clock : {TRUE}, caps : {FullCaps}, features : {AllFeatures}]

MCNodes == OrdinaryNodes \cup LongNodes

MCReadings ==
  { [rssi |-> 3, snr |-> 0, heap |-> 0, voltage |-> 0, percent |-> 0,
     gps |-> "nofix", sats |-> 1, presses |-> 1],
    [rssi |-> 4, snr |-> 2, heap |-> 6, voltage |-> 4, percent |-> 3,
     gps |-> "fix", sats |-> 2, presses |-> 10] }

\* One with each pair of units.
MCUptimes == {0, 61, 3661, 2147483647}

MCProcs == UNION {[1 .. k -> Characters] : k \in 1 .. 3}
             \cup {<<"a", "0", ".", "a", "_">>, <<"a", ".", "0", "a">>, <<"a", ".", "a", ".", "a">>,
                  <<"a", "-", ".", "a">>, <<"a", ".", "a", "-">>, <<"a", "_", ".", "_">>}

\* After ok, two long pairs and the name of the wide one the buffer is full to
\* its last byte: the "=" is refused.
MCOffers ==
  { [key |-> "state", value |-> "open", keySize |-> 5, valueSize |-> 59, legal |-> TRUE],
    [key |-> "state", value |-> "shut", keySize |-> 5, valueSize |-> 4, legal |-> TRUE],
    [key |-> "wide", value |-> "one", keySize |-> 56, valueSize |-> 5, legal |-> TRUE],
    [key |-> "few", value |-> "two", keySize |-> 3, valueSize |-> 3, legal |-> TRUE],
    [key |-> "long", value |-> "all", keySize |-> 4, valueSize |-> 120, legal |-> TRUE],
    [key |-> "few", value |-> "a blank", keySize |-> 3, valueSize |-> 7, legal |-> FALSE] }

MCCodeSize == [internal |-> 8, invalid_argument |-> 16, unknown_proc |-> 12, denied |-> 6]
MCCodes == {"", "denied"}

MCCallNodes == {CHOOSE n \in MCNodes : TRUE}
=============================================================================
