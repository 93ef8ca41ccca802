---------------------------- MODULE HttpMessage ----------------------------
(***************************************************************************)
(* What the reader of responses promises: a response of the server is      *)
(* taken in pieces of any size, and it is complete exactly when its last   *)
(* byte has been taken; then the status and whether the connection stays   *)
(* open are the ones the server sent.  Before that, only a lost connection *)
(* or a silent server ends it, or a header that does not fit the buffer.   *)
(* Nothing is promised of a response that is not well formed, but that it  *)
(* ends.  A response that by its status has no body but announces one is   *)
(* waited on until the connection is lost or the server was silent.        *)
(*                                                                         *)
(* HttpWire has the bytes of a message.                                    *)
(***************************************************************************)
EXTENDS Integers, HttpWire

CONSTANTS
  Messages,   \* responses of the server
  InSize      \* NTG_HTTP_IN_BUFFER_SIZE

VARIABLES
  msg, stream,      \* the response and its bytes
  taken, verdict,   \* bytes taken, and how it ended
  kept, code        \* the connection stays open; the status

vars == <<msg, stream, taken, verdict, kept, code>>

WellFormed(m) == m.bad = <<>>
Fits(m)       == Len(Header(m)) <= InSize
Keeps(m)      == m.minor = "1" /\ "close" \notin Range(m.headers)

Init ==
  /\ msg \in Messages /\ stream = Encode(msg) /\ taken = 0 /\ verdict = "reading" /\ kept = FALSE /\ code = 0

\* A piece of the response arrives.
Take ==
  /\ verdict = "reading"
  /\ \E n \in taken + 1 .. Len(stream) :
       /\ taken' = n
       /\ IF WellFormed(msg)
            THEN \/ /\ Fits(msg) /\ (n < Len(stream) \/ Announces(msg)) /\ UNCHANGED <<verdict, kept, code>>
                 \/ /\ Fits(msg) /\ n = Len(stream) /\ ~Announces(msg)
                    /\ verdict' = "complete" /\ kept' = Keeps(msg) /\ code' = msg.code
                 \/ /\ ~Fits(msg) /\ n < InSize /\ UNCHANGED <<verdict, kept, code>>
                 \/ /\ ~Fits(msg) /\ n = InSize /\ verdict' = "refused" /\ UNCHANGED <<kept, code>>
            ELSE verdict' \in {"reading", "complete", "refused"} /\ kept' \in BOOLEAN /\ code' \in 0 .. 999
  /\ UNCHANGED <<msg, stream>>

\* The connection is lost, the server is silent or a call of the client fails.
Cut ==
  /\ verdict = "reading" /\ verdict' = "cut"
  /\ WellFormed(msg) => taken < Len(stream) \/ Announces(msg)
  /\ UNCHANGED <<msg, stream, taken, kept, code>>

Next == Take \/ Cut

Spec == Init /\ [][Next]_vars /\ WF_vars(Next)
=============================================================================
