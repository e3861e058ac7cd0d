----------------------------- MODULE Connection -----------------------------
(***************************************************************************)
(* The two ends of one TCP connection (src/Network/connection.cpp): the    *)
(* greeting, the framing of messages in the byte stream, the timers.       *)
(*                                                                         *)
(* A message on the wire is a type token, a length, each followed by a     *)
(* blank, and a payload.  The stream is cut into pieces where the code     *)
(* sees a difference: the token and the length have two pieces each (the   *)
(* second one with the blank), a payload has as many as its message's      *)
(* size.  The network hands over any number of pieces at a time.           *)
(* Payloads are never empty.                                               *)
(***************************************************************************)
EXTENDS Integers, Sequences, SequencesExt

CONSTANTS
    AppTypes,  \* messages that a peer sends of its own accord
    Senders,   \* bound: the ends that send such messages
    MaxSent,   \* bound: how many each
    Cut,       \* bound: the ends that messages reach in parts
    PongLimit  \* pings without an answer before the end gives up

ASSUME ConnectionAssumption ==
    /\ MaxSent \in Nat /\ PongLimit \in Nat
    /\ "Undefined" \notin AppTypes

Initiator == "initiator"
Acceptor  == "acceptor"
Ends      == {Initiator, Acceptor}
Other(e)  == IF e = Initiator THEN Acceptor ELSE Initiator

Undefined == "Undefined"

VARIABLES
    conn,    \* the members of each Connection
    stream,  \* the pieces each end has not read yet
    here,    \* bytesAvailable: how many of them have arrived
    sent,    \* messages sent by each end, without PING and PONG
    handled  \* what each end took for a message, in order

vars == <<conn, stream, here, sent, handled>>

-----------------------------------------------------------------------------
(* Pieces.                                                                 *)

TokenHead  == 1
LengthHead == 3
Header     == 4

Message(type, n) == [type |-> type, n |-> n]
Size(m) == IF m.type \in AppTypes \cup {"GREETING"} THEN 2 ELSE 1
Pieces(m) == [i \in 1 .. Header + Size(m) |-> [of |-> m, at |-> i]]
Payload(m) == SubSeq(Pieces(m), Header + 1, Header + Size(m))

\* e's socket is open.
Listening(e) == conn[e].state # "closed" /\ conn[e].alive

\* No end is in processReadyRead.  The ends meet only in the streams, so a run
\* of processReadyRead need not be interleaved with steps of the other end.
Calm == \A e \in Ends : conn[e].pc = "idle"

\* The messages of the ping timer carry nothing and have no number; they are
\* written alone.
KeepAlive == {"PING", "PONG"}

\* e reads k pieces and writes messages ms; its members become c.
Run(e, c, k, ms) ==
    /\ conn' = [conn EXCEPT ![e] = c]
    /\ here' = [here EXCEPT ![e] = @ - k]
    /\ stream' = [d \in Ends |->
           IF d = e THEN SubSeq(stream[e], k + 1, Len(stream[e]))
           ELSE IF Listening(d) THEN stream[d] \o FlattenSeq([i \in 1 .. Len(ms) |-> Pieces(ms[i])])
           ELSE stream[d]]
    /\ sent' = [sent EXCEPT ![e] =
           IF \E i \in 1 .. Len(ms) : ms[i].type \in KeepAlive THEN @ ELSE @ \o ms]

New == [state |-> "WaitingForGreeting", pc |-> "idle", type |-> Undefined, length |-> -1,
        buffered |-> FALSE, timer |-> FALSE, greeted |-> FALSE, quiet |-> 0,
        closedBy |-> "nobody", alive |-> TRUE]

\* abort() of the socket; "why" only says what happened.
Aborted(c, why) == [c EXCEPT !.state = "closed", !.pc = "idle", !.timer = FALSE, !.closedBy = why]

Init ==
    /\ conn = [e \in Ends |-> New]
    /\ stream = [e \in Ends |-> <<>>]
    /\ here = [e \in Ends |-> 0]
    /\ sent = [e \in Ends |-> <<>>]
    /\ handled = [e \in Ends |-> <<>>]

-----------------------------------------------------------------------------
(* Sending.                                                                *)

\* Mutant of Greeting: the key is asked for first.
KeyRequestFirst(e) ==
    <<Message("PUBLICKEY_REQUEST", Len(sent[e]) + 1), Message("GREETING", Len(sent[e]) + 2)>>

\* sendGreetingMessage.
Greeting(e) ==
    <<Message("GREETING", Len(sent[e]) + 1), Message("PUBLICKEY_REQUEST", Len(sent[e]) + 2)>>

\* connected(): the initiator greets.
Connected ==
    /\ Calm /\ conn[Initiator] = New
    /\ Run(Initiator, [New EXCEPT !.greeted = TRUE], 0, Greeting(Initiator))
    /\ UNCHANGED handled

\* A block, transaction or request, sent to a connection that is in use.
Send(e, type) ==
    /\ Calm /\ Listening(e)
    /\ e \in Senders /\ conn[e].state = "ReadyForUse"
    /\ Len(SelectSeq(sent[e], LAMBDA m : m.type \in AppTypes)) < MaxSent
    /\ Run(e, conn[e], 0, <<Message(type, Len(sent[e]) + 1)>>)
    /\ UNCHANGED handled

\* At most one PING of an end is on its way: a second one would do no more.
Pinging(e) == \E i \in 1 .. Len(stream[Other(e)]) : stream[Other(e)][i].of.type = "PING"

\* Mutant of SendPing: the time is taken anew.
SendPingRestart(e) ==
    /\ Calm /\ Listening(e)
    /\ conn[e].state = "ReadyForUse"
    /\ Run(e, [conn[e] EXCEPT !.quiet = 0], 0, IF Pinging(e) THEN <<>> ELSE <<Message("PING", 0)>>)
    /\ UNCHANGED handled

\* sendPing, when the ping timer fires: the connection is given up when there
\* was no PONG for long.
SendPing(e) ==
    /\ Calm /\ Listening(e)
    /\ conn[e].state = "ReadyForUse"
    /\ IF conn[e].quiet > PongLimit
       THEN Run(e, Aborted(conn[e], "pong"), 0, <<>>)
       ELSE Run(e, [conn[e] EXCEPT !.quiet = @ + 1], 0,
                IF Pinging(e) THEN <<>> ELSE <<Message("PING", 0)>>)
    /\ UNCHANGED handled

-----------------------------------------------------------------------------
(* Reading: processReadyRead, a step per call it makes.                    *)

\* readyRead(): the network hands over n pieces.
ReadyRead(e, n) ==
    /\ Calm /\ Listening(e)
    /\ e \in Cut \/ stream[e][here[e] + n].at = Header + Size(stream[e][here[e] + n].of)
    /\ here' = [here EXCEPT ![e] = @ + n]
    /\ conn' = [conn EXCEPT ![e].pc = IF conn[e].type = Undefined THEN "header" ELSE "enough"]
    /\ UNCHANGED <<stream, sent, handled>>

\* dataLengthForCurrentDataType, once k pieces are read: how many more it
\* reads, the length, and whether a part of it stays in the buffer.
DataLength(e, k) ==
    LET rest == SubSeq(stream[e], k + 1, here[e])
        headNow == rest # <<>> /\ Head(rest).at = LengthHead
        whole   == IF headNow THEN 2 ELSE 1
    IN  IF rest = <<>> THEN [read |-> 0, length |-> 0, buffered |-> conn[e].buffered]
        ELSE IF Len(rest) < whole THEN [read |-> 1, length |-> 0, buffered |-> TRUE]
        ELSE [read |-> whole, length |-> Size(Head(rest).of), buffered |-> FALSE]

\* readProtocolHeader.  Only part of a type token is no type, and aborts.
ReadProtocolHeader(e) ==
    /\ conn[e].pc = "header"
    /\ LET c == [conn[e] EXCEPT !.timer = FALSE]
           type == stream[e][1].of.type
           data == DataLength(e, 2)
           next == [c EXCEPT !.pc = "enough", !.type = type, !.length = data.length,
                             !.buffered = data.buffered]
       IN  IF here[e] = 0
           THEN Run(e, [c EXCEPT !.timer = TRUE, !.pc = "idle"], 0, <<>>)
           ELSE IF here[e] = 1 \/ stream[e][1].at # TokenHead
           THEN Run(e, Aborted(c, "token"), 0, <<>>)
           ELSE IF c.state = "WaitingForGreeting" /\ type # "GREETING"
           THEN Run(e, Aborted(c, "greeting"), 0, <<>>)
           ELSE Run(e, [next EXCEPT !.state = IF @ = "WaitingForGreeting" THEN "ReadingGreeting"
                                              ELSE @],
                    2 + data.read, <<>>)
    /\ UNCHANGED handled

\* Mutant of HasEnoughData: a length that came in two parts is not read on.
HasEnoughDataOnce(e) ==
    /\ conn[e].pc = "enough"
    /\ LET short == here[e] < conn[e].length \/ conn[e].length <= 0
       IN  Run(e, [conn[e] EXCEPT !.pc = IF short THEN "idle" ELSE "data", !.timer = short], 0, <<>>)
    /\ UNCHANGED handled

\* Mutant of HasEnoughData: a timer that runs is not killed.
HasEnoughDataTimed(e) ==
    /\ conn[e].pc = "enough"
    /\ LET data == IF conn[e].length <= 0 THEN DataLength(e, 0)
                   ELSE [read |-> 0, length |-> conn[e].length, buffered |-> conn[e].buffered]
           c == [conn[e] EXCEPT !.length = data.length, !.buffered = data.buffered]
           short == here[e] - data.read < data.length \/ data.length <= 0
       IN  Run(e, [c EXCEPT !.pc = IF short THEN "idle" ELSE "data", !.timer = @ \/ short],
               data.read, <<>>)
    /\ UNCHANGED handled

\* hasEnoughData: waits for the length, then for the payload, under a timer.
HasEnoughData(e) ==
    /\ conn[e].pc = "enough"
    /\ LET data == IF conn[e].length <= 0 THEN DataLength(e, 0)
                   ELSE [read |-> 0, length |-> conn[e].length, buffered |-> conn[e].buffered]
           c == [conn[e] EXCEPT !.length = data.length, !.buffered = data.buffered]
           short == here[e] - data.read < data.length \/ data.length <= 0
       IN  Run(e, [c EXCEPT !.pc = IF short THEN "idle" ELSE "data", !.timer = short],
               data.read, <<>>)
    /\ UNCHANGED handled

\* What an end sends for a message of the type it just read.
Answer(e, type) ==
    CASE type = "PING"              -> <<Message("PONG", 0)>>
      [] type = "PUBLICKEY_REQUEST" -> <<Message("PUBLICKEY_RESPONSE", Len(sent[e]) + 1)>>
      [] type = "BLOCK_REQUEST"     -> <<Message("BLOCK_RESPONSE", Len(sent[e]) + 1)>>
      [] OTHER                      -> <<>>

\* e takes the next pieces as the payload of a message.
Take(e) ==
    handled' = IF conn[e].type \in KeepAlive THEN handled
               ELSE [handled EXCEPT ![e] =
                        Append(@, [type |-> conn[e].type,
                                   data |-> SubSeq(stream[e], 1, conn[e].length)])]

\* The greeting makes the connection ready; an acceptor greets in turn.  The
\* loop then looks for a header whether or not there is anything to read.
ReadGreeting(e) ==
    /\ conn[e].pc = "data" /\ conn[e].state = "ReadingGreeting"
    /\ Run(e, [conn[e] EXCEPT !.state = "ReadyForUse", !.pc = "header", !.type = Undefined,
                              !.length = 0, !.greeted = TRUE, !.quiet = 0],
           conn[e].length, IF conn[e].greeted THEN <<>> ELSE Greeting(e))
    /\ Take(e)

\* Mutant of ProcessData: type and length stay.
ProcessDataNoReset(e) ==
    /\ conn[e].pc = "data" /\ conn[e].state = "ReadyForUse"
    /\ Run(e, [conn[e] EXCEPT !.pc = IF here[e] > conn[e].length THEN "enough" ELSE "idle",
                              !.quiet = IF conn[e].type = "PONG" THEN 0 ELSE @],
           conn[e].length, Answer(e, conn[e].type))
    /\ Take(e)

\* processData.
ProcessData(e) ==
    /\ conn[e].pc = "data" /\ conn[e].state = "ReadyForUse"
    /\ Run(e, [conn[e] EXCEPT !.pc = IF here[e] > conn[e].length THEN "header" ELSE "idle",
                              !.type = Undefined, !.length = 0,
                              !.quiet = IF conn[e].type = "PONG" THEN 0 ELSE @],
           conn[e].length, Answer(e, conn[e].type))
    /\ Take(e)

-----------------------------------------------------------------------------
(* The end of a connection.                                                *)

\* timerEvent: the transfer timer fires.
TimerEvent(e) ==
    /\ Calm /\ Listening(e)
    /\ conn[e].timer
    /\ Run(e, Aborted(conn[e], "transfer"), 0, <<>>)
    /\ UNCHANGED handled

\* The other end has closed the connection, and its host says so.
Disconnected(e) ==
    /\ Calm /\ Listening(e)
    /\ conn[Other(e)].alive /\ conn[Other(e)].state = "closed"
    /\ Run(e, Aborted(conn[e], "peer"), 0, <<>>)
    /\ UNCHANGED handled

\* The host of e is gone, silently.
Vanish(e) ==
    /\ Calm /\ Listening(e) /\ conn[Other(e)].alive
    /\ conn' = [conn EXCEPT ![e].alive = FALSE]
    /\ UNCHANGED <<stream, here, sent, handled>>

Reading(e) == ReadProtocolHeader(e) \/ HasEnoughData(e) \/ ReadGreeting(e) \/ ProcessData(e)
Arrival(e) == \E n \in 1 .. Len(stream[e]) - here[e] : ReadyRead(e, n)

Next ==
    \/ Connected
    \/ \E e \in Ends :
        \/ \E type \in AppTypes : Send(e, type)
        \/ SendPing(e)
        \/ Arrival(e) \/ Reading(e)
        \/ TimerEvent(e) \/ Disconnected(e) \/ Vanish(e)

\* Data in flight arrive, the event loop runs its slots and the ping timer
\* fires again and again.  Nothing has to be sent, no transfer has to time
\* out and no host has to vanish.
Fairness ==
    \A e \in Ends : WF_vars(Arrival(e)) /\ WF_vars(Reading(e)) /\ WF_vars(SendPing(e))

Spec == Init /\ [][Next]_vars
FairSpec == Spec /\ Fairness
=============================================================================
