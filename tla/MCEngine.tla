------------------------------ MODULE MCEngine ------------------------------
(* Constants for model checking Engine. *)
EXTENDS Engine

CONSTANTS f1, f2, l1

\* "Ping" and "ping" are one name to ieq.
MCNames == {"Ping", "ping", "gps", "echo"}
MCFoldName == [n \in Names |-> IF n = "Ping" THEN "ping" ELSE n]
MCFeatureCommands == [f \in Features |-> IF f = f1 THEN <<"ping">> ELSE <<"gps", "Ping">>]
MCFeatureCaps == [f \in Features |-> IF f = f1 THEN <<>> ELSE <<"gps">>]
=============================================================================
