------------------------------ MODULE MCRemote ------------------------------
(***************************************************************************)
(* The front ends TLC gives to Remote.                                      *)
(***************************************************************************)
EXTENDS Remote

\* Every connection may carry the same few ids, the one of a new object and another in its
\* bucket included, with and without messages of an unknown type; or each has an id of its own.
Clients ==
  {[ids |-> [c \in Conn |-> {0, 3}], kinds |-> {"command", "short", "null"}],
   [ids |-> [c \in Conn |-> {0, 3}], kinds |-> {"command"}],
   [ids |-> [c \in Conn |-> {c}], kinds |-> {"command", "short"}]}
=============================================================================
