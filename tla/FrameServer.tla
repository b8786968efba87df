----------------------------- MODULE FrameServer -----------------------------
(***************************************************************************)
(* plvtcpserver: a TCPServerProcessor sends the frames of its pipeline to a  *)
(* TCPClientProducer of another.  A ServerConnection lives in a thread of    *)
(* its own; it queues frames, keeps at most maxFlight of them unacknowledged *)
(* and, when its queue is full, drops the oldest frame or, when lossless,    *)
(* waits.  One client connects, is cut off and connects again.               *)
(*                                                                         *)
(* A message is two units on the wire: its size and its body.  TCP keeps     *)
(* their order and loses them only with the connection.                      *)
(***************************************************************************)
EXTENDS Integers, Sequences

CONSTANTS
    MaxQueue,    \* m_maxFramesInQueue, given to a connection when it is made
    Limits,      \* the values the user enters for maxFramesInFlight
    LastSerial,  \* bound of an instance: no frame gets a later number
    MaxCuts      \* bound of an instance: how often the connection is lost

ASSUME ServerAssumption ==
    /\ MaxQueue \in Nat \ {0}
    /\ Limits \subseteq Int /\ \E n \in Limits : n > 0
    /\ LastSerial \in Nat /\ MaxCuts \in Nat

VARIABLES
    \* the server's pipeline
    serial,     \* number of the next frame
    lossless,   \* m_lossless, as the connection has it
    maxFlight,  \* m_maxFramesInFlight, as the connection has it
    \* the connection thread
    linked,     \* the connection exists: m_tcpSocket is connected on both sides
    mail,       \* events posted to the thread: <<"frame", n>>, <<"send", 0>>
    queue,      \* m_frameQueue
    inFlight,   \* m_frameNumbersInFlight
    waiting,    \* m_waiting
    \* the network
    down,       \* units on their way to the client
    up,         \* acknowledgements on their way to the server
    \* the client
    rx,         \* units that have arrived and are unread
    block,      \* m_blockSize: the frame whose size has been read, 0 if none
    synced,     \* the client still reads sizes where sizes are
    frames,     \* m_frameList: frames the producer has still to put into its pipeline
    \* history
    got,        \* the frames received through this connection
    base,       \* serial when the connection was made
    mode,       \* whether lossless has been TRUE, FALSE or both since then
    unread,     \* bytes were waiting at the client when the last connection was lost
    cuts

serverVars == <<serial, lossless, maxFlight>>
threadVars == <<linked, mail, queue, inFlight, waiting>>
netVars == <<down, up>>
clientVars == <<rx, block, synced, frames>>
historyVars == <<got, base, mode, unread, cuts>>
svars == <<serverVars, threadVars, netVars, clientVars, historyVars>>

Serials == 1 .. LastSerial + 1
Units == {"size", "frame"} \X Serials
Events == ({"frame"} \X Serials) \cup {<<"send", 0>>}

Size(n) == <<"size", n>>
Frame(n) == <<"frame", n>>
IsFrame(u) == u[1] = "frame"
(* The numbers of the frames among the units or events of s, in order. *)
Numbers(s) ==
    LET upto[i \in 0 .. Len(s)] ==
            IF i = 0 THEN <<>>
            ELSE IF IsFrame(s[i]) THEN Append(upto[i - 1], s[i][2]) ELSE upto[i - 1]
    IN  upto[Len(s)]
Wire(s) == [i \in 1 .. 2 * Len(s) |->
               IF i % 2 = 1 THEN Size(s[(i + 1) \div 2]) ELSE Frame(s[i \div 2])]

ServerInit ==
    /\ serial = 1
    /\ lossless = FALSE
    /\ maxFlight \in {n \in Limits : n > 0}
    /\ linked = FALSE
    /\ mail = <<>> /\ queue = <<>> /\ inFlight = <<>>
    /\ waiting = FALSE
    /\ down = <<>> /\ up = <<>> /\ rx = <<>>
    /\ block = 0
    /\ synced = TRUE
    /\ frames = <<>>
    /\ got = <<>>
    /\ base = 1
    /\ mode = "lossy"
    /\ unread = TRUE
    /\ cuts = 0

-----------------------------------------------------------------------------
(* The server's pipeline. *)

(* process() numbers the frame with the serial of its run; broadcastFrame is  *)
(* queued to the connection's thread.                                         *)
Process ==
    /\ serial <= LastSerial
    /\ serial' = serial + 1
    /\ mail' = IF linked THEN Append(mail, Frame(serial)) ELSE mail
    /\ UNCHANGED <<lossless, maxFlight, linked, queue, inFlight, waiting, netVars, clientVars,
                   historyVars>>

(* A setter of the processor reaches the server and, by a queued signal, the   *)
(* connection; the step is the connection's slot.  The signal of the queue's   *)
(* length is connected under a name no signal has: a connection keeps its own. *)
Mode(b) == IF b THEN "lossless" ELSE "lossy"
SetLossless(b) ==
    /\ lossless' = b
    /\ mode' = IF mode = Mode(b) THEN mode ELSE "mixed"
    /\ UNCHANGED <<serial, maxFlight, threadVars, netVars, clientVars, got, base, unread, cuts>>

Accepted(n) == IF n > 0 THEN n ELSE maxFlight
SetMaxFramesInFlight(n) ==
    /\ maxFlight' = Accepted(n)
    /\ UNCHANGED <<serial, lossless, threadVars, netVars, clientVars, historyVars>>

-----------------------------------------------------------------------------
(* The connection thread. *)

(* sendData(): from the front of q as many frames as the window has room for, *)
(* none while m_waiting.  (write() of a connected QTcpSocket takes all bytes.) *)
Room(q) ==
    IF waiting \/ Len(inFlight) >= maxFlight THEN 0
    ELSE IF Len(q) < maxFlight - Len(inFlight) THEN Len(q) ELSE maxFlight - Len(inFlight)
Sent(q) == SubSeq(q, 1, Room(q))
Kept(q) == SubSeq(q, Room(q) + 1, Len(q))
SendData(q) ==
    /\ inFlight' = inFlight \o Sent(q)
    /\ down' = down \o Wire(Sent(q))

(* A queue that is too long loses its oldest frame, unless it is lossless.    *)
DropNewest(q) == SubSeq(q, 1, Len(q) - 1)           \* mutant: takeLast()
DropOldest(q) == Tail(q)
AfterDropLate(q) == IF Len(q) > MaxQueue + 1 /\ ~lossless THEN DropOldest(q) ELSE q
                                                    \* mutant: one frame later
AfterDrop(q) == IF Len(q) > MaxQueue /\ ~lossless THEN DropOldest(q) ELSE q
WaitsNow(q) == waiting \/ (lossless /\ Len(q) > MaxQueue)

(* queueFrame(), for a broadcast frame. *)
QueueFrame ==
    LET q == Append(queue, Head(mail)[2])
    IN  /\ mail # <<>> /\ IsFrame(Head(mail))
        /\ SendData(q)
        /\ queue' = AfterDrop(Kept(q))
        /\ waiting' = WaitsNow(Kept(q))
        /\ mail' = Append(Tail(mail), <<"send", 0>>)
        /\ UNCHANGED <<serverVars, linked, up, clientVars, historyVars>>

(* scheduleSend *)
ScheduledSend ==
    /\ mail # <<>> /\ ~IsFrame(Head(mail))
    /\ SendData(queue)
    /\ queue' = Kept(queue)
    /\ mail' = Tail(mail)
    /\ UNCHANGED <<serverVars, linked, waiting, up, clientVars, historyVars>>

(* readyRead() and ackFrame(): the acknowledgement of the first frame in      *)
(* flight, any other is ignored.  Nothing is sent here.                       *)
StillWaitingForever == waiting                      \* mutant: m_waiting is not reset
StillWaiting == waiting /\ ~lossless
Acked(n) == IF Head(inFlight) = n THEN Tail(inFlight) ELSE inFlight
AckFrame ==
    /\ up # <<>>
    /\ up' = Tail(up)
    /\ IF inFlight # <<>>
       THEN /\ inFlight' = Acked(Head(up))
            /\ waiting' = StillWaiting
       ELSE UNCHANGED <<inFlight, waiting>>
    /\ UNCHANGED <<serverVars, linked, mail, queue, down, clientVars, historyVars>>

-----------------------------------------------------------------------------
(* The network and the client. *)

(* The client connects in start() or again in readyToProduce();               *)
(* incomingConnection makes a new ServerConnection.                           *)
Connect ==
    /\ ~linked
    /\ linked' = TRUE
    /\ got' = <<>>
    /\ base' = serial
    /\ mode' = Mode(lossless)
    /\ UNCHANGED <<serverVars, mail, queue, inFlight, waiting, netVars, clientVars, unread, cuts>>

Deliver ==
    /\ down # <<>>
    /\ rx' = Append(rx, Head(down))
    /\ down' = Tail(down)
    /\ UNCHANGED <<serverVars, threadVars, up, block, synced, frames, historyVars>>

(* readData() with m_blockSize = 0 reads the size of the next message.        *)
ReadSize ==
    /\ synced /\ rx # <<>> /\ block = 0
    /\ block' = Head(rx)[2]
    /\ rx' = Tail(rx)
    /\ UNCHANGED <<serverVars, threadVars, netVars, synced, frames, historyVars>>

(* The body is there: parseFrame() acknowledges the frame and queues it.      *)
ReadFrame ==
    /\ synced /\ rx # <<>> /\ block # 0 /\ IsFrame(Head(rx))
    /\ up' = Append(up, Head(rx)[2])
    /\ frames' = Append(frames, Head(rx)[2])
    /\ got' = Append(got, Head(rx)[2])
    /\ block' = 0
    /\ rx' = Tail(rx)
    /\ UNCHANGED <<serverVars, threadVars, down, synced, base, mode, unread, cuts>>

(* m_blockSize is left from an earlier connection and the size of the first   *)
(* message is taken for an opcode: from here on sizes are read from the       *)
(* middle of messages, and a frame would be found only by accident.           *)
ReadGarbage ==
    /\ synced /\ rx # <<>> /\ block # 0 /\ ~IsFrame(Head(rx))
    /\ synced' = FALSE
    /\ UNCHANGED <<serverVars, threadVars, netVars, rx, block, frames, historyVars>>
SkipGarbage ==
    /\ ~synced /\ rx # <<>>
    /\ rx' = <<>>
    /\ UNCHANGED <<serverVars, threadVars, netVars, block, synced, frames, historyVars>>

(* produce() *)
ClientProduce ==
    /\ frames # <<>>
    /\ frames' = Tail(frames)
    /\ UNCHANGED <<serverVars, threadVars, netVars, rx, block, synced, historyVars>>

(* The connection is lost or closed.  The server deletes its side.  The       *)
(* client's disconnected() skips what has arrived and resets m_blockSize, but  *)
(* only when some bytes have arrived after the last ones read.                 *)
BlockAfterCutNever(bytes) == block                  \* mutant: m_blockSize is never reset
BlockAfterCut(bytes) == IF bytes THEN 0 ELSE block
Cut ==
    /\ linked /\ cuts < MaxCuts
    /\ cuts' = cuts + 1
    /\ linked' = FALSE
    /\ mail' = <<>> /\ queue' = <<>> /\ inFlight' = <<>> /\ waiting' = FALSE
    /\ down' = <<>> /\ up' = <<>> /\ rx' = <<>>
    /\ \E bytes \in BOOLEAN :
        /\ rx # <<>> => bytes
        /\ bytes => rx \o down # <<>>
        /\ block' = BlockAfterCut(bytes)
        /\ synced' = (synced \/ bytes)
        /\ unread' = bytes
    /\ UNCHANGED <<serverVars, frames, got, base, mode>>

ServerThread == QueueFrame \/ ScheduledSend
ClientReads == ReadSize \/ ReadFrame \/ ReadGarbage \/ SkipGarbage

ServerNext ==
    \/ Process
    \/ \E b \in BOOLEAN : SetLossless(b)
    \/ \E n \in Limits : SetMaxFramesInFlight(n)
    \/ ServerThread
    \/ AckFrame
    \/ Connect
    \/ Deliver
    \/ ClientReads
    \/ ClientProduce
    \/ Cut

ServerSpec == ServerInit /\ [][ServerNext]_svars

-----------------------------------------------------------------------------
(* What is true of the stream. *)

(* Every variable holds values of its kind; the window is never closed for     *)
(* good, whatever the user enters.                                             *)
ServerTypeOK ==
    /\ serial \in Serials /\ lossless \in BOOLEAN
    /\ maxFlight \in Limits /\ maxFlight > 0
    /\ linked \in BOOLEAN /\ mail \in Seq(Events) /\ queue \in Seq(Serials)
    /\ inFlight \in Seq(Serials) /\ waiting \in BOOLEAN
    /\ down \in Seq(Units) /\ up \in Seq(Serials)
    /\ rx \in Seq(Units) /\ block \in 0 .. LastSerial + 1 /\ synced \in BOOLEAN
    /\ frames \in Seq(Serials) /\ got \in Seq(Serials) /\ base \in Serials
    /\ mode \in {"lossless", "lossy", "mixed"} /\ unread \in BOOLEAN /\ cuts \in 0 .. MaxCuts

(* A frame overtakes no other and comes once, whatever is dropped, delayed or  *)
(* switched; the newest frame is never the one dropped; a connection that has  *)
(* always been lossless brings every frame processed since it was made.        *)
(* ackFrame() trusts that acknowledgements come in the order of the frames:    *)
(* the frames in flight are those whose acknowledgement is on its way, then    *)
(* those the client has not parsed, then those on the wire.                    *)
Stream == got \o Numbers(rx) \o Numbers(down) \o queue \o Numbers(mail)
StreamOrder ==
    linked /\ synced =>
        /\ inFlight = up \o Numbers(rx) \o Numbers(down)
        /\ \A i, j \in DOMAIN Stream : i < j => Stream[i] < Stream[j]
        /\ serial > base => Stream # <<>> /\ Stream[Len(Stream)] = serial - 1
        /\ mode = "lossless" => Stream = [i \in 1 .. serial - base |-> base + i - 1]

(* The queue of a connection that was never lossless holds at most MaxQueue    *)
(* frames, whatever the client acknowledges.                                   *)
QueueBound == mode = "lossy" => Len(queue) <= MaxQueue

(* sendData() does nothing while the connection waits and only an              *)
(* acknowledgement ends the wait: while a lossless connection waits, a frame   *)
(* is in flight.  (Not so when lossless is switched off and on meanwhile.)     *)
StallHasAck == waiting /\ mode = "lossless" => inFlight # <<>>

(* disconnected() puts the client in step with the next connection, if bytes   *)
(* were waiting when the last one was lost.                                    *)
ResyncAfterCut == unread => synced

(* The wait of a lossless connection ends with an acknowledgement, unless the  *)
(* user or the network ends it, or the client has lost its place.              *)
StallEnds ==
    waiting /\ mode = "lossless" ~> ~waiting \/ mode # "lossless" \/ ~linked \/ ~synced
=============================================================================
