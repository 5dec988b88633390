--------------------------- MODULE MCStatHistory ----------------------------
(* StatHistory with two disks, which have been read alike or only the      *)
(* second, and written likewise, and a network counter of two values.      *)
EXTENDS StatHistory

Counters == {[d \in Disks |-> a + b * d] : a \in 0 .. 1, b \in 0 .. 1}
MCStats  == {[read |-> c, write |-> c, net |-> n] : c \in Counters, n \in 0 .. 1}
=============================================================================
