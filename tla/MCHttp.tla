------------------------------- MODULE MCHttp -------------------------------
(***************************************************************************)
(* The urls and hosts TLC gives to Http.                                    *)
(***************************************************************************)
EXTENDS Http

\* Two ports of one host, and another host.
List == {<<1, 1>>, <<1, 2>>, <<2, 1>>}

\* The name of host 2 is the beginning of the name of host 1.
Prefix == {<<2, 1>>}

\* A request of three urls beside one of one.
Uneven == [r \in Req |-> IF r = 1 THEN {3} ELSE {1}]
=============================================================================
