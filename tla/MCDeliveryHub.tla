--------------------------- MODULE MCDeliveryHub ---------------------------
(* Instances of DeliveryHub for TLC. *)
EXTENDS DeliveryHub

CONSTANTS v1, v2, ch1, ch2

\* Two conversations on one channel, or on one each.
Shared == [v \in {v1, v2} |-> ch1]
Apart == [v \in {v1, v2} |-> IF v = v1 THEN ch1 ELSE ch2]
Uneven == [v \in {v1, v2} |-> IF v = v1 THEN 4 ELSE 1]
Even == [v \in {v1, v2} |-> 2]
Streamer == [v \in {v1, v2} |-> IF v = v1 THEN {"delta", "text"} ELSE {"notice"}]
Mixed == [v \in {v1, v2} |-> {"delta", "text"}]
=============================================================================
