-------------------------- MODULE MCExchangeCache ---------------------------
(* An instance of ExchangeCache for TLC: two scenarios of two keys, the first  *)
(* of them the server's, actions of one key each, a light timer, and an        *)
(* identity key that only polls read.                                          *)
EXTENDS ExchangeCache

Zeros == [k \in Key |-> 0]
Bodies == {[k \in {3} |-> 1]}
Lists == {<< [k |-> 4, v |-> 1], [k |-> 3, v |-> 0] >>}
Home == {[k |-> 3, v |-> 1], [k |-> 8, v |-> 1]}
PollGroups == << {3}, {8} >>
=============================================================================
