------------------------- MODULE ConnectionProperties -------------------------
(***************************************************************************)
(* What a connection must do for the messages: Connection.                 *)
(***************************************************************************)
EXTENDS Connection

\* However the network cuts the stream, each end takes for messages exactly
\* what the other end sent, in that order: type and payload stay together.
Framing ==
    \A e \in Ends :
        IsPrefix(handled[e], [i \in 1 .. Len(sent[Other(e)]) |->
                                 [type |-> sent[Other(e)][i].type,
                                  data |-> Payload(sent[Other(e)][i])]])

\* No end closes the connection because another message came before the
\* greeting.
GreetingIsFirst == \A e \in Ends : conn[e].closedBy # "greeting"

\* The transfer timer runs while an end waits for the rest of a message, and
\* is off once the message is complete, so that it closes no connection whose
\* messages all came.  It also runs from the greeting to whatever comes next,
\* since processReadyRead looks for a header there without anything to read.
TransferTimed ==
    \A e \in Ends : Listening(e) /\ conn[e].pc = "idle" =>
        /\ conn[e].type # Undefined => conn[e].timer
        /\ conn[e].timer => conn[e].type # Undefined \/ Len(handled[e]) = 1

Up == \A e \in Ends : Listening(e)

\* What was sent is handled, unless the connection ends.
Delivered ==
    \A e \in Ends :
        Len(handled[Other(e)]) < Len(sent[e])
            ~> (Len(handled[Other(e)]) = Len(sent[e]) \/ ~ Up)

\* A connection in use to a host that is gone is given up.
GoneIsNoticed ==
    \A e \in Ends :
        (conn[e].state = "ReadyForUse" /\ ~ conn[Other(e)].alive) ~> (conn[e].state = "closed")

-----------------------------------------------------------------------------
(* What the comments of the code say, and the code does not do.            *)

\* processReadyRead "handles incoming network messages" (connection.cpp:154):
\* it closes no connection over a message that its peer sent.
NoMessageAborts == \A e \in Ends : conn[e].closedBy \notin {"token", "greeting"}
=============================================================================
