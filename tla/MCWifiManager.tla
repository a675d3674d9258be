--------------------------- MODULE MCWifiManager ---------------------------
(* Two networks; the one that is always there has the weaker signal.       *)
EXTENDS WifiManager

CONSTANTS Home, Cafe

MCAP == {1, 2}
MCNetOf == [ap \in {1, 2} |-> IF ap = 1 THEN Home ELSE Cafe]
MCRssi == [ap \in {1, 2} |-> ap]
MCSteady == {1}
=============================================================================
