------------------------------- MODULE MCWire -------------------------------
(* Constants for model checking Wire. *)
EXTENDS Wire

MCTargets == {<<"all">>, <<"self">>, <<"node">>, <<"node", "7">>, <<"@", "7", "a">>,
              <<"group", ":", "z">>}
MCCommandNames == {<<"ping">>, <<"discover">>, <<"z", "7">>}
MCArgTokens == {<<"gps">>, <<"id", "=", "7">>, <<"z", ":">>}
\* Of two digits, of more than the tool's array holds, and beyond ULONG_MAX.
MCRequestIds == {<<>>, <<"7">>, <<"1", "7">>, <<"1", "7", "1">>, <<"0", "0", "1", "7">>}

\* Replies of the reference features, with their data cut down to one field.
MCReplyBodies ==
  {<<"pong">>, <<"ok">>, <<"ok", " ", "z">>, <<"err", " ", "z">>,
   <<"err", " ", "z", " ", "z", "=", "z", ":", " ", "z">>,
   <<"status", " ", "id", "=", "7">>, <<"gps", " ", "status", "=", "fix">>,
   <<"gps", " ", "z", "=", "7">>, <<"battery", " ", "value", "=", "7">>,
   <<"battery", " ", "voltage", "=", "7">>, <<"voltage", " ", "value", "=", "7">>,
   <<"charging", " ", "value", "=", "1">>,
   <<"ping", " ", "status", " ", "help">>, <<"battery", "nl", "gps">>,
   \* Nine lexemes fit behind an id of one digit only, twelve behind none.
   <<"node", " ", "id", "=", "7", " ", "fw", "=", "1">>, <<"event", " ", "z">>,
   <<"ok", " ", "z", "=", "7", " ", "z", "=", "7", " ", "z", "z">>}

\* One name leaves no room for a field, and one does not fit itself.
MCEventNames == {<<"battery", ".", "low">>, <<"z">>,
                 <<"z", "z", "z", "z", "z", "z", "z", "z">>,
                 <<"z", "z", "z", "z", "z", "z", "z", "z", "z", "z", "z">>}
MCEventFields == {<<>>, <<"voltage", "=", "7">>}

\* One name has a blank in it.
MCSenderNames == {<<"node">>, <<"z", " ", "node">>, <<"all">>}

MCRequestCommands == {<<"ping">>, <<"status">>, <<"discover">>, <<"discovery">>, <<"gps">>,
                      <<"battery">>, <<"voltage">>, <<"charging">>, <<"help">>, <<"caps">>}
=============================================================================
