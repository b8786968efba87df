-------------------------- MODULE FrameServerProofs --------------------------
(* Proofs about FrameServer: its types, the bound of a lossy queue, that a     *)
(* lossless wait always has an acknowledgement to end it, that the client      *)
(* stays in step with the stream, and that the stream is in order.             *)
EXTENDS FrameServer, SequenceTheorems, WellFoundedInduction, TLAPS

(* A connection that does not exist holds nothing. *)
ClosedInv ==
    ~linked => /\ mail = <<>> /\ queue = <<>> /\ inFlight = <<>> /\ waiting = FALSE
               /\ down = <<>> /\ up = <<>> /\ rx = <<>>

(* mode tells the truth about lossless. *)
ModeInv == /\ mode = "lossy" => lossless = FALSE
           /\ mode = "lossless" => lossless = TRUE

(* Sizes and bodies alternate, from a body if a size has been read, to a body. *)
Aligned(s, body) ==
    /\ \A i \in 1 .. Len(s) - 1 : IsFrame(s[i]) <=> ~IsFrame(s[i + 1])
    /\ s # <<>> => /\ IsFrame(s[1]) <=> body
                   /\ IsFrame(s[Len(s)])
    /\ s = <<>> => ~body
AlignedInv == unread => synced /\ Aligned(rx \o down, block # 0)

-----------------------------------------------------------------------------
(* Facts about messages and sequences. *)

LEMMA HeadTail ==
    ASSUME NEW S, NEW s \in Seq(S), s # <<>>
    PROVE  /\ Head(s) \in S /\ Head(s) = s[1]
           /\ Tail(s) \in Seq(S) /\ Len(Tail(s)) = Len(s) - 1 /\ Len(s) \in Nat \ {0}
           /\ \A i \in 1 .. Len(s) - 1 : Tail(s)[i] = s[i + 1]
  OBVIOUS

LEMMA ConcatFacts ==
    ASSUME NEW S, NEW s \in Seq(S), NEW t \in Seq(S)
    PROVE  /\ s \o t \in Seq(S) /\ Len(s \o t) = Len(s) + Len(t)
           /\ Len(s) \in Nat /\ Len(t) \in Nat
           /\ \A i \in 1 .. Len(s) : (s \o t)[i] = s[i]
           /\ \A i \in 1 .. Len(t) : (s \o t)[Len(s) + i] = t[i]
  OBVIOUS

(* What sendData() writes for some frames: well-formed messages. *)
LEMMA WireAligned ==
    ASSUME NEW t \in Seq(Serials)
    PROVE  Wire(t) \in Seq(Units) /\ Aligned(Wire(t), FALSE)
<1> DEFINE w == Wire(t)
<1>1. Len(t) \in Nat /\ \A i \in 1 .. Len(t) : t[i] \in Serials
  OBVIOUS
<1>2. w \in Seq(Units) /\ Len(w) = 2 * Len(t)
  <2>1. ASSUME NEW i \in 1 .. 2 * Len(t)
        PROVE  (IF i % 2 = 1 THEN Size(t[(i + 1) \div 2]) ELSE Frame(t[i \div 2])) \in Units
    <3>1. CASE i % 2 = 1
      <4>1. (i + 1) \div 2 \in 1 .. Len(t)
        BY <1>1, <3>1
      <4> QED
        BY <1>1, <3>1, <4>1 DEF Units, Size
    <3>2. CASE i % 2 # 1
      <4>1. i \div 2 \in 1 .. Len(t)
        BY <1>1, <3>2
      <4> QED
        BY <1>1, <3>2, <4>1 DEF Units, Frame
    <3> QED
      BY <3>1, <3>2
  <2>2. 2 * Len(t) \in Nat
    BY <1>1
  <2> QED
    BY <2>1, <2>2 DEF Wire
<1>3. \A i \in 1 .. 2 * Len(t) : IsFrame(w[i]) <=> i % 2 # 1
  BY <1>1 DEF Wire, IsFrame, Size, Frame
<1> HIDE DEF w
<1>4. \A i \in 1 .. Len(w) - 1 : IsFrame(w[i]) <=> ~IsFrame(w[i + 1])
  BY <1>1, <1>2, <1>3, SMTT(30)
<1>5. w # <<>> => ~IsFrame(w[1]) /\ IsFrame(w[Len(w)])
  <2>1. w # <<>> => Len(w) > 0
    BY <1>1, <1>2
  <2> QED
    BY <1>1, <1>2, <1>3, <2>1
<1> QED
  BY <1>2, <1>4, <1>5 DEF Aligned, w

(* Whole messages may be appended to an aligned stream. *)
LEMMA AlignedConcat ==
    ASSUME NEW s \in Seq(Units), NEW w \in Seq(Units), NEW body \in BOOLEAN,
           Aligned(s, body), Aligned(w, FALSE)
    PROVE  Aligned(s \o w, body)
<1> DEFINE c == s \o w
<1>1. /\ c \in Seq(Units) /\ Len(c) = Len(s) + Len(w) /\ Len(s) \in Nat /\ Len(w) \in Nat
      /\ \A i \in 1 .. Len(s) : c[i] = s[i]
      /\ \A i \in 1 .. Len(w) : c[Len(s) + i] = w[i]
  BY ConcatFacts
<1>2. /\ s = <<>> <=> Len(s) = 0
      /\ w = <<>> <=> Len(w) = 0
  OBVIOUS
<1>3. c = <<>> <=> Len(c) = 0
  BY <1>1
<1> HIDE DEF c
<1>4. ASSUME NEW i \in 1 .. Len(c) - 1 PROVE IsFrame(c[i]) <=> ~IsFrame(c[i + 1])
  <2>1. CASE i < Len(s)
    BY <1>1, <2>1 DEF Aligned
  <2>2. CASE i = Len(s)
    <3>1. c[i] = s[Len(s)] /\ c[i + 1] = w[1] /\ Len(w) > 0
      BY <1>1, <2>2
    <3> QED
      BY <1>1, <1>2, <2>2, <3>1 DEF Aligned
  <2>3. CASE i > Len(s)
    <3>1. PICK j \in 1 .. Len(w) - 1 : i = Len(s) + j
      <4>1. i - Len(s) \in 1 .. Len(w) - 1 /\ i = Len(s) + (i - Len(s))
        BY <1>1, <2>3
      <4> QED
        BY <4>1
    <3>2. c[i] = w[j] /\ c[i + 1] = w[j + 1]
      <4>1. j + 1 \in 1 .. Len(w) /\ j \in 1 .. Len(w) /\ i + 1 = Len(s) + (j + 1)
        BY <1>1, <3>1
      <4> QED
        BY <1>1, <3>1, <4>1
    <3> QED
      BY <3>2 DEF Aligned
  <2> QED
    BY <1>1, <2>1, <2>2, <2>3
<1>5. c # <<>> => (IsFrame(c[1]) <=> body) /\ IsFrame(c[Len(c)])
  <2>1. CASE Len(s) = 0
    BY <1>1, <1>2, <1>3, <2>1 DEF Aligned
  <2>2. CASE Len(s) # 0
    <3>1. c[1] = s[1]
      BY <1>1, <2>2
    <3>2. CASE Len(w) = 0
      BY <1>1, <1>2, <2>2, <3>1, <3>2 DEF Aligned
    <3>3. CASE Len(w) # 0
      <4>1. c[Len(c)] = w[Len(w)]
        BY <1>1, <3>3
      <4> QED
        BY <1>1, <1>2, <2>2, <3>1, <4>1, <3>3 DEF Aligned
    <3> QED
      BY <3>2, <3>3
  <2> QED
    BY <2>1, <2>2
<1>6. c = <<>> => ~body
  BY <1>1, <1>2, <1>3 DEF Aligned
<1> QED
  BY <1>4, <1>5, <1>6 DEF Aligned, c

(* Reading the next unit of an aligned stream leaves it aligned. *)
LEMMA AlignedTail ==
    ASSUME NEW s \in Seq(Units), NEW body \in BOOLEAN, s # <<>>, Aligned(s, body)
    PROVE  Aligned(Tail(s), ~body)
<1> DEFINE t == Tail(s)
<1>1. /\ t \in Seq(Units) /\ Len(t) = Len(s) - 1 /\ Len(s) \in Nat \ {0}
      /\ \A i \in 1 .. Len(s) - 1 : t[i] = s[i + 1]
  BY HeadTail
<1>2. t = <<>> <=> Len(t) = 0
  BY <1>1
<1> HIDE DEF t
<1>3. ASSUME NEW i \in 1 .. Len(t) - 1 PROVE IsFrame(t[i]) <=> ~IsFrame(t[i + 1])
  <2>1. t[i] = s[i + 1] /\ t[i + 1] = s[(i + 1) + 1] /\ i + 1 \in 1 .. Len(s) - 1
    BY <1>1
  <2> QED
    BY <2>1 DEF Aligned
<1>4. ASSUME t # <<>> PROVE (IsFrame(t[1]) <=> ~body) /\ IsFrame(t[Len(t)])
  <2>1. t[1] = s[1 + 1] /\ 1 \in 1 .. Len(s) - 1 /\ t[Len(t)] = s[Len(s)]
    BY <1>1, <1>2, <1>4
  <2> QED
    BY <2>1 DEF Aligned
<1>5. ASSUME t = <<>> PROVE ~(~body)
  <2>1. Len(s) = 1
    BY <1>1, <1>2, <1>5
  <2> QED
    BY <2>1 DEF Aligned
<1> QED
  BY <1>3, <1>4, <1>5 DEF Aligned, t

(* Delivery moves a unit from the wire to the client. *)
LEMMA DeliverSame ==
    ASSUME NEW S, NEW s \in Seq(S), NEW t \in Seq(S), t # <<>>
    PROVE  Append(s, Head(t)) \o Tail(t) = s \o t
  OBVIOUS

LEMMA TailConcat ==
    ASSUME NEW S, NEW s \in Seq(S), NEW t \in Seq(S), s # <<>>
    PROVE  Tail(s) \o t = Tail(s \o t) /\ s \o t # <<>> /\ (s \o t)[1] = Head(s)
  OBVIOUS

LEMMA ConcatAssoc ==
    ASSUME NEW S, NEW s \in Seq(S), NEW t \in Seq(S), NEW u \in Seq(S)
    PROVE  s \o (t \o u) = (s \o t) \o u
  OBVIOUS

(* sendData(): what is sent and what is kept is q, cut in two; as long as a    *)
(* frame is kept, the window is full.                                          *)
LEMMA SendFacts ==
    ASSUME ServerTypeOK, NEW q \in Seq(Serials)
    PROVE  /\ Sent(q) \in Seq(Serials) /\ Kept(q) \in Seq(Serials)
           /\ Len(Kept(q)) <= Len(q)
           /\ ~waiting /\ Len(Kept(q)) > 0 => inFlight \o Sent(q) # <<>>
           /\ inFlight # <<>> => inFlight \o Sent(q) # <<>>
           /\ inFlight \o Sent(q) \in Seq(Serials)
<1>1. maxFlight \in Nat \ {0} /\ Len(q) \in Nat /\ Len(inFlight) \in Nat
  BY ServerAssumption DEF ServerTypeOK
<1>2. inFlight \in Seq(Serials)
  BY DEF ServerTypeOK
<1>3. /\ Room(q) \in 0 .. Len(q)
      /\ ~waiting /\ Room(q) < Len(q) => Len(inFlight) + Room(q) > 0
  BY <1>1 DEF Room
<1> DEFINE r == Room(q)
<1> HIDE DEF r
<1>4. /\ SubSeq(q, 1, r) \in Seq(Serials) /\ Len(SubSeq(q, 1, r)) = r
      /\ SubSeq(q, r + 1, Len(q)) \in Seq(Serials) /\ Len(SubSeq(q, r + 1, Len(q))) = Len(q) - r
  BY <1>1, <1>3 DEF r
<1>5. /\ Sent(q) \in Seq(Serials) /\ Len(Sent(q)) = r
      /\ Kept(q) \in Seq(Serials) /\ Len(Kept(q)) = Len(q) - r
  BY <1>4 DEF Sent, Kept, r
<1>6. inFlight \o Sent(q) \in Seq(Serials) /\ Len(inFlight \o Sent(q)) = Len(inFlight) + r
  BY <1>2, <1>5, ConcatFacts
<1>7. inFlight # <<>> => Len(inFlight) > 0
  BY <1>2
<1>8. Len(inFlight \o Sent(q)) > 0 => inFlight \o Sent(q) # <<>>
  BY <1>6
<1> QED
  BY <1>1, <1>3, <1>5, <1>6, <1>7, <1>8 DEF r

-----------------------------------------------------------------------------
(* The inductive invariant, action by action. *)

SInv == ServerTypeOK /\ ClosedInv /\ ModeInv /\ QueueBound /\ StallHasAck /\ AlignedInv

LEMMA ServerInitInv == ServerInit => SInv
<1> SUFFICES ASSUME ServerInit PROVE SInv
  OBVIOUS
<1>1. <<>> \in Seq(Serials) /\ <<>> \in Seq(Events) /\ <<>> \in Seq(Units)
  OBVIOUS
<1>2. 1 \in Serials /\ 0 \in 0 .. LastSerial + 1 /\ 0 \in 0 .. MaxCuts
  BY ServerAssumption DEF Serials
<1>3. ServerTypeOK
  BY <1>1, <1>2, Zenon DEF ServerInit, ServerTypeOK
<1>4. ClosedInv /\ ModeInv /\ StallHasAck
  BY Zenon DEF ServerInit, ClosedInv, ModeInv, StallHasAck
<1>5. QueueBound
  <2>1. Len(queue) = 0
    BY DEF ServerInit
  <2> QED
    BY <2>1, ServerAssumption DEF QueueBound
<1>6. AlignedInv
  <2>1. rx \o down = <<>> /\ ~(block # 0) /\ synced
    BY DEF ServerInit
  <2>2. Len(<<>>) - 1 = -1
    OBVIOUS
  <2>3. Aligned(<<>>, FALSE)
    BY <2>2 DEF Aligned
  <2> QED
    BY <2>1, <2>3 DEF AlignedInv
<1> QED
  BY <1>3, <1>4, <1>5, <1>6 DEF SInv

(* process() and the setters. *)
LEMMA PipelineSteps ==
    ASSUME SInv,
           \/ Process
           \/ \E b \in BOOLEAN : SetLossless(b)
           \/ \E n \in Limits : SetMaxFramesInFlight(n)
    PROVE  SInv'
<1>1. UNCHANGED <<linked, queue, inFlight, waiting, netVars, clientVars, unread>>
  BY DEF Process, SetLossless, SetMaxFramesInFlight, threadVars, historyVars
<1>2. ServerTypeOK'
  <2> USE DEF SInv, ServerTypeOK, threadVars, netVars, clientVars, historyVars
  <2>1. CASE Process
    <3>1. serial' \in Serials
      BY <2>1, ServerAssumption DEF Process, Serials
    <3>2. Frame(serial) \in Events
      BY DEF Frame, Events
    <3>3. mail' \in Seq(Events)
      BY <2>1, <3>2 DEF Process
    <3> QED
      BY <2>1, <3>1, <3>3 DEF Process
  <2>2. CASE \E b \in BOOLEAN : SetLossless(b)
    BY <2>2, Zenon DEF SetLossless
  <2>3. CASE \E n \in Limits : SetMaxFramesInFlight(n)
    <3>1. maxFlight' \in Limits /\ maxFlight' > 0
      BY <2>3, ServerAssumption DEF SetMaxFramesInFlight, Accepted
    <3>2. UNCHANGED <<serial, lossless, threadVars, netVars, clientVars, historyVars>>
      BY <2>3, Zenon DEF SetMaxFramesInFlight
    <3> QED
      BY <3>1, <3>2
  <2> QED
    BY <2>1, <2>2, <2>3
<1>3. ClosedInv'
  BY <1>1 DEF SInv, ClosedInv, Process, SetLossless, SetMaxFramesInFlight, netVars, clientVars, threadVars
<1>4. /\ ModeInv'
      /\ mode' = "lossy" => mode = "lossy"
      /\ mode' = "lossless" => mode = "lossless"
  <2>1. CASE \E b \in BOOLEAN : SetLossless(b)
    BY <2>1 DEF SInv, ModeInv, SetLossless, Mode
  <2>2. CASE Process \/ \E n \in Limits : SetMaxFramesInFlight(n)
    BY <2>2 DEF SInv, ModeInv, Process, SetMaxFramesInFlight, historyVars
  <2> QED
    BY <2>1, <2>2
<1>5. QueueBound' /\ StallHasAck'
  BY <1>1, <1>4 DEF SInv, QueueBound, StallHasAck
<1>6. AlignedInv'
  BY <1>1 DEF SInv, AlignedInv, Aligned, netVars, clientVars
<1> QED
  BY <1>2, <1>3, <1>4, <1>5, <1>6 DEF SInv

(* queueFrame() and scheduleSend. *)
LEMMA ThreadSteps ==
    ASSUME SInv, ServerThread
    PROVE  SInv'
<1> DEFINE q == IF IsFrame(Head(mail)) THEN Append(queue, Head(mail)[2]) ELSE queue
           kept == Kept(q)
<1>1. /\ mail # <<>> /\ Head(mail) \in Events /\ Tail(mail) \in Seq(Events)
      /\ queue \in Seq(Serials) /\ Len(queue) \in Nat
  BY DEF SInv, ServerTypeOK, ServerThread, QueueFrame, ScheduledSend
<1>2. /\ q \in Seq(Serials) /\ Len(q) \in Nat /\ Len(q) <= Len(queue) + 1
      /\ ~IsFrame(Head(mail)) => q = queue
  <2>1. IsFrame(Head(mail)) => Head(mail)[2] \in Serials
    BY <1>1 DEF Events, IsFrame
  <2> QED
    BY <1>1, <2>1
<1>3. SendData(q)
  BY DEF ServerThread, QueueFrame, ScheduledSend
<1> HIDE DEF q
<1>4. /\ Sent(q) \in Seq(Serials) /\ kept \in Seq(Serials)
      /\ Len(kept) <= Len(q)
      /\ ~waiting /\ Len(kept) > 0 => inFlight' # <<>>
      /\ inFlight # <<>> => inFlight' # <<>>
      /\ inFlight' \in Seq(Serials)
  <2>1. ServerTypeOK
    BY DEF SInv
  <2>2. inFlight' = inFlight \o Sent(q)
    BY <1>3 DEF SendData
  <2> QED
    BY <1>2, <2>1, <2>2, SendFacts
<1>5. down' = down \o Wire(Sent(q)) /\ Wire(Sent(q)) \in Seq(Units) /\ Aligned(Wire(Sent(q)), FALSE)
  BY <1>3, <1>4, WireAligned DEF SendData
<1>6. /\ UNCHANGED <<serverVars, linked, up, clientVars, historyVars>>
      /\ mail' \in Seq(Events)
      /\ \/ queue' = kept \/ queue' = AfterDrop(kept)
      /\ \/ waiting' = waiting
         \/ waiting' = WaitsNow(kept)
      /\ IsFrame(Head(mail)) => queue' = AfterDrop(kept)
      /\ ~IsFrame(Head(mail)) => queue' = kept
  <2>1. <<"send", 0>> \in Events
    BY DEF Events
  <2>2. CASE QueueFrame
    BY <1>1, <2>1, <2>2 DEF QueueFrame, q
  <2>3. CASE ScheduledSend
    BY <1>1, <2>3 DEF ScheduledSend, q
  <2> QED
    BY <2>2, <2>3 DEF ServerThread
<1> HIDE DEF kept
<1>7. /\ queue' \in Seq(Serials)
      /\ mode = "lossy" => Len(queue') <= MaxQueue
  <2>1. Len(kept) \in Nat /\ (Len(kept) > MaxQueue => kept # <<>>)
    BY <1>4, ServerAssumption
  <2>2. Len(kept) > MaxQueue => Tail(kept) \in Seq(Serials) /\ Len(Tail(kept)) = Len(kept) - 1
    BY <1>4, <2>1
  <2>3. mode = "lossy" => lossless = FALSE /\ Len(queue) <= MaxQueue
    BY DEF SInv, ModeInv, QueueBound
  <2>4. CASE IsFrame(Head(mail))
    <3>1. queue' = IF Len(kept) > MaxQueue /\ ~lossless THEN Tail(kept) ELSE kept
      BY <1>6, <2>4 DEF AfterDrop, DropOldest
    <3> QED
      BY <1>1, <1>2, <1>4, <2>1, <2>2, <2>3, <3>1, ServerAssumption
  <2>5. CASE ~IsFrame(Head(mail))
    BY <1>1, <1>2, <1>4, <1>6, <2>1, <2>3, <2>5, ServerAssumption
  <2> QED
    BY <2>4, <2>5
<1>8. down \in Seq(Units) /\ rx \in Seq(Units) /\ down' \in Seq(Units)
  BY <1>5, ConcatFacts DEF SInv, ServerTypeOK
<1>9. ServerTypeOK'
  <2>1. waiting' \in BOOLEAN
    BY <1>6, Zenon DEF SInv, ServerTypeOK, WaitsNow
  <2> QED
    BY <1>4, <1>6, <1>7, <1>8, <2>1
    DEF SInv, ServerTypeOK, serverVars, clientVars, historyVars
<1>10. ClosedInv'
  BY <1>1, <1>6 DEF SInv, ClosedInv
<1>11. ModeInv' /\ QueueBound'
  BY <1>6, <1>7 DEF SInv, ModeInv, QueueBound, serverVars, historyVars
<1>12. StallHasAck'
  <2>1. waiting' /\ ~waiting => Len(kept) > MaxQueue
    BY <1>6 DEF WaitsNow
  <2>2. Len(kept) > MaxQueue => Len(kept) > 0
    BY <1>4, ServerAssumption
  <2> QED
    BY <1>4, <1>6, <2>1, <2>2 DEF SInv, StallHasAck, historyVars
<1>13. AlignedInv'
  <2>1. rx' \o down' = (rx \o down) \o Wire(Sent(q)) /\ rx \o down \in Seq(Units)
    <3>1. rx' = rx
      BY <1>6 DEF clientVars
    <3> QED
      BY <1>5, <1>8, <3>1, ConcatAssoc, ConcatFacts, SMTT(30)
  <2>2. ASSUME unread PROVE Aligned(rx' \o down', block # 0)
    <3>1. Aligned(rx \o down, block # 0)
      BY <2>2 DEF SInv, AlignedInv
    <3>2. (block # 0) \in BOOLEAN
      OBVIOUS
    <3> QED
      BY <1>5, <2>1, <3>1, <3>2, AlignedConcat
  <2> QED
    BY <1>6, <2>2 DEF SInv, AlignedInv, clientVars, historyVars
<1> QED
  BY <1>9, <1>10, <1>11, <1>12, <1>13 DEF SInv

(* ackFrame(). *)
LEMMA AckStep ==
    ASSUME SInv, AckFrame
    PROVE  SInv'
<1>1. /\ up # <<>> /\ up' = Tail(up) /\ up' \in Seq(Serials)
      /\ UNCHANGED <<serverVars, linked, mail, queue, down, clientVars, historyVars>>
  BY DEF SInv, ServerTypeOK, AckFrame
<1>2. \/ UNCHANGED <<inFlight, waiting>>
      \/ inFlight # <<>> /\ inFlight' = Acked(Head(up)) /\ waiting' = (waiting /\ ~lossless)
  BY DEF AckFrame, StillWaiting
<1>3. inFlight' \in Seq(Serials)
  <2>1. inFlight \in Seq(Serials) /\ (inFlight # <<>> => Tail(inFlight) \in Seq(Serials))
    BY HeadTail DEF SInv, ServerTypeOK
  <2> QED
    BY <1>2, <2>1 DEF Acked
<1>4. ServerTypeOK'
  <2>1. waiting' \in BOOLEAN
    BY <1>2, Zenon DEF SInv, ServerTypeOK
  <2> QED
    BY <1>1, <1>3, <2>1 DEF SInv, ServerTypeOK, serverVars, clientVars, historyVars
<1>5. ClosedInv'
  BY <1>1 DEF SInv, ClosedInv
<1>6. ModeInv' /\ QueueBound'
  BY <1>1 DEF SInv, ModeInv, QueueBound, serverVars, historyVars
<1>7. StallHasAck'
  BY <1>1, <1>2 DEF SInv, StallHasAck, ModeInv, serverVars, historyVars
<1>8. AlignedInv'
  BY <1>1 DEF SInv, AlignedInv, Aligned, clientVars, historyVars
<1> QED
  BY <1>4, <1>5, <1>6, <1>7, <1>8 DEF SInv

(* A new connection; a lost one. *)
LEMMA ConnectionSteps ==
    ASSUME SInv, Connect \/ Cut
    PROVE  SInv'
<1>1. <<>> \in Seq(Serials) /\ <<>> \in Seq(Events) /\ <<>> \in Seq(Units) /\ Len(<<>>) = 0
  OBVIOUS
<1>2. CASE Connect
  <2>1. /\ linked' = TRUE /\ got' = <<>> /\ base' = serial /\ mode' = Mode(lossless)
        /\ UNCHANGED <<serverVars, mail, queue, inFlight, waiting, netVars, clientVars, unread, cuts>>
        /\ queue = <<>> /\ waiting = FALSE
    BY <1>2 DEF Connect, SInv, ClosedInv
  <2>2. ServerTypeOK'
    <3>1. mode' \in {"lossless", "lossy", "mixed"}
      BY <2>1 DEF Mode
    <3> QED
      BY <1>1, <2>1, <3>1 DEF SInv, ServerTypeOK, serverVars, netVars, clientVars
  <2>3. ClosedInv'
    BY <2>1 DEF ClosedInv
  <2>4. ModeInv'
    BY <2>1 DEF SInv, ServerTypeOK, ModeInv, Mode, serverVars
  <2>5. QueueBound' /\ StallHasAck'
    BY <1>1, <2>1, ServerAssumption DEF QueueBound, StallHasAck
  <2>6. AlignedInv'
    BY <2>1 DEF SInv, AlignedInv, Aligned, netVars, clientVars
  <2> QED
    BY <2>2, <2>3, <2>4, <2>5, <2>6 DEF SInv
<1>3. CASE Cut
  <2>1. /\ linked' = FALSE /\ mail' = <<>> /\ queue' = <<>> /\ inFlight' = <<>>
        /\ waiting' = FALSE /\ down' = <<>> /\ up' = <<>> /\ rx' = <<>>
        /\ UNCHANGED <<serverVars, frames, got, base, mode>>
        /\ cuts' = cuts + 1 /\ cuts < MaxCuts
    BY <1>3 DEF Cut
  <2>2. PICK bytes \in BOOLEAN :
            block' = BlockAfterCut(bytes) /\ synced' = (synced \/ bytes) /\ unread' = bytes
    BY <1>3, Zenon DEF Cut
  <2>3. ServerTypeOK'
    <3>1. block' \in 0 .. LastSerial + 1
      BY <2>2, ServerAssumption DEF SInv, ServerTypeOK, BlockAfterCut
    <3>2. cuts' \in 0 .. MaxCuts
      BY <2>1, ServerAssumption DEF SInv, ServerTypeOK
    <3>3. synced' \in BOOLEAN /\ unread' \in BOOLEAN
      BY <2>2, Zenon
    <3> QED
      BY <1>1, <2>1, <3>1, <3>2, <3>3, Zenon DEF SInv, ServerTypeOK, serverVars
  <2>4. ClosedInv'
    BY <2>1, Zenon DEF ClosedInv
  <2>5. ModeInv' /\ QueueBound' /\ StallHasAck'
    BY <1>1, <2>1, ServerAssumption DEF SInv, ModeInv, QueueBound, StallHasAck, serverVars
  <2>6. AlignedInv'
    <3>1. unread' => block' = 0 /\ synced'
      BY <2>2 DEF BlockAfterCut
    <3>2. rx' \o down' = <<>>
      BY <2>1
    <3>3. Aligned(<<>>, FALSE)
      BY <1>1 DEF Aligned
    <3> QED
      BY <3>1, <3>2, <3>3 DEF AlignedInv
  <2> QED
    BY <2>3, <2>4, <2>5, <2>6 DEF SInv
<1> QED
  BY <1>2, <1>3

(* The client: deliveries, readData(), produce(). *)
LEMMA ClientSteps ==
    ASSUME SInv, Deliver \/ ClientReads \/ ClientProduce
    PROVE  SInv'
<1>1. /\ UNCHANGED <<serverVars, threadVars, base, mode, unread, cuts>>
      /\ rx # <<>> \/ down # <<>> \/ frames # <<>>
  BY DEF Deliver, ClientReads, ReadSize, ReadFrame, ReadGarbage, SkipGarbage, ClientProduce, historyVars
<1>2. rx \in Seq(Units) /\ down \in Seq(Units) /\ block \in 0 .. LastSerial + 1
  BY DEF SInv, ServerTypeOK
<1>3. rx # <<>> => /\ Head(rx) \in Units /\ Head(rx)[2] \in Serials
                   /\ Tail(rx) \in Seq(Units)
  BY <1>2 DEF Units
<1>4. ModeInv' /\ QueueBound' /\ StallHasAck'
  BY <1>1 DEF SInv, ModeInv, QueueBound, StallHasAck, serverVars, threadVars
<1>5. ASSUME ServerTypeOK', ClosedInv', AlignedInv' PROVE SInv'
  BY <1>4, <1>5 DEF SInv
<1>6. CASE Deliver
  <2>1. /\ down # <<>> /\ rx' = Append(rx, Head(down)) /\ down' = Tail(down)
        /\ UNCHANGED <<up, block, synced, frames, got>>
    BY <1>6 DEF Deliver, historyVars
  <2>2. rx' \in Seq(Units) /\ down' \in Seq(Units) /\ rx' \o down' = rx \o down
    BY <1>2, <2>1, DeliverSame
  <2>3. ServerTypeOK'
    BY <1>1, <2>1, <2>2 DEF SInv, ServerTypeOK, serverVars, threadVars
  <2>4. ClosedInv'
    BY <1>1, <2>1 DEF SInv, ClosedInv, threadVars
  <2>5. AlignedInv'
    BY <1>1, <2>1, <2>2 DEF SInv, AlignedInv
  <2> QED
    BY <1>5, <2>3, <2>4, <2>5
<1>7. CASE ReadSize \/ ReadFrame
  <2>1. /\ synced /\ rx # <<>> /\ rx' = Tail(rx) /\ synced' = synced /\ down' = down
        /\ ReadSize => block = 0 /\ block' = Head(rx)[2]
        /\ ReadFrame => block # 0 /\ block' = 0
    BY <1>7 DEF ReadSize, ReadFrame, netVars
  <2>2. (block' # 0) = ~(block # 0) /\ block' \in 0 .. LastSerial + 1
    BY <1>3, <1>7, <2>1, ServerAssumption DEF Serials
  <2>3. ServerTypeOK'
    <3>1. CASE ReadSize
      BY <1>1, <1>3, <2>1, <2>2, <3>1 DEF ReadSize, SInv, ServerTypeOK, serverVars, threadVars, netVars, historyVars
    <3>2. CASE ReadFrame
      <4>1. up' \in Seq(Serials) /\ frames' \in Seq(Serials) /\ got' \in Seq(Serials)
        BY <1>3, <2>1, <3>2 DEF ReadFrame, SInv, ServerTypeOK
      <4> QED
        BY <1>1, <1>3, <2>1, <2>2, <4>1 DEF SInv, ServerTypeOK, serverVars, threadVars
    <3> QED
      BY <1>7, <3>1, <3>2
  <2>4. ClosedInv'
    BY <1>1, <2>1 DEF SInv, ClosedInv, threadVars
  <2>5. AlignedInv'
    <3>1. /\ rx' \o down' = Tail(rx \o down)
          /\ rx \o down # <<>> /\ rx \o down \in Seq(Units)
      BY <1>2, <2>1, TailConcat, ConcatFacts
    <3>2. ASSUME unread PROVE Aligned(rx' \o down', block' # 0)
      <4>1. Aligned(rx \o down, block # 0) /\ (block # 0) \in BOOLEAN
        BY <3>2 DEF SInv, AlignedInv
      <4> QED
        BY <2>2, <3>1, <4>1, AlignedTail
    <3> QED
      BY <1>1, <2>1, <3>2 DEF AlignedInv
  <2> QED
    BY <1>5, <2>3, <2>4, <2>5
<1>8. CASE ReadGarbage \/ SkipGarbage
  <2>1. /\ rx # <<>> /\ (rx' = rx \/ rx' = <<>>) /\ synced' = FALSE
        /\ UNCHANGED <<netVars, block, frames, got>>
    BY <1>8 DEF ReadGarbage, SkipGarbage, historyVars, SInv, ServerTypeOK
  <2>2. ~unread
    <3>1. CASE SkipGarbage
      BY <3>1 DEF SkipGarbage, SInv, AlignedInv
    <3>2. CASE ReadGarbage
      <4>1. rx \o down # <<>> /\ (rx \o down)[1] = Head(rx)
        BY <1>2, <2>1, TailConcat
      <4> QED
        BY <3>2, <4>1 DEF ReadGarbage, SInv, AlignedInv, Aligned
    <3> QED
      BY <1>8, <3>1, <3>2
  <2>3. ServerTypeOK'
    <3>1. rx' \in Seq(Units)
      <4>1. <<>> \in Seq(Units)
        OBVIOUS
      <4> QED
        BY <1>2, <2>1, <4>1, Zenon
    <3> QED
      BY <1>1, <2>1, <3>1 DEF SInv, ServerTypeOK, serverVars, threadVars, netVars
  <2>4. ClosedInv'
    BY <1>1, <2>1 DEF SInv, ClosedInv, threadVars, netVars
  <2>5. AlignedInv'
    BY <1>1, <2>2 DEF AlignedInv
  <2> QED
    BY <1>5, <2>3, <2>4, <2>5
<1>9. CASE ClientProduce
  <2>1. /\ frames # <<>> /\ frames' = Tail(frames)
        /\ UNCHANGED <<netVars, rx, block, synced, got>>
    BY <1>9 DEF ClientProduce, historyVars
  <2>2. ServerTypeOK'
    <3>1. frames' \in Seq(Serials)
      <4>1. frames \in Seq(Serials)
        BY DEF SInv, ServerTypeOK
      <4> QED
        BY <2>1, <4>1, HeadTail
    <3> QED
      BY <1>1, <2>1, <3>1 DEF SInv, ServerTypeOK, serverVars, threadVars, netVars
  <2>3. ClosedInv' /\ AlignedInv'
    BY <1>1, <2>1 DEF SInv, ClosedInv, AlignedInv, Aligned, threadVars, netVars
  <2> QED
    BY <1>5, <2>2, <2>3
<1> QED
  BY <1>6, <1>7, <1>8, <1>9 DEF ClientReads

LEMMA ServerStepInv == SInv /\ [ServerNext]_svars => SInv'
<1> SUFFICES ASSUME SInv, [ServerNext]_svars PROVE SInv'
  OBVIOUS
<1>1. CASE UNCHANGED svars
  BY <1>1 DEF svars, serverVars, threadVars, netVars, clientVars, historyVars, SInv, ServerTypeOK,
              ClosedInv, ModeInv, QueueBound, StallHasAck, AlignedInv, Aligned
<1>2. CASE ServerNext
  BY <1>2, PipelineSteps, ThreadSteps, AckStep, ConnectionSteps, ClientSteps DEF ServerNext
<1> QED
  BY <1>1, <1>2

-----------------------------------------------------------------------------
(* The inductive invariant holds in every state of the server and its client. *)
THEOREM ServerInvariant == ServerSpec => []SInv
  BY ServerInitInv, ServerStepInv, PTL DEF ServerSpec

(* Types; setMaxFramesInFlight keeps the window open. *)
THEOREM ServerTypes == ServerSpec => []ServerTypeOK
<1>1. SInv => ServerTypeOK
  BY DEF SInv
<1> QED
  BY <1>1, ServerInvariant, PTL

(* A queue that was never lossless is bounded (ServerConnection::queueFrame),   *)
(* for every bound, window and client.                                          *)
THEOREM QueueIsBounded == ServerSpec => []QueueBound
<1>1. SInv => QueueBound
  BY DEF SInv
<1> QED
  BY <1>1, ServerInvariant, PTL

(* A lossless connection that waits has a frame in flight: the acknowledgement  *)
(* that ends the wait (ServerConnection::ackFrame) can still come.              *)
THEOREM StallsHaveAcks == ServerSpec => []StallHasAck
<1>1. SInv => StallHasAck
  BY DEF SInv
<1> QED
  BY <1>1, ServerInvariant, PTL

(* A client whose last connection was lost with bytes unread, or that had none, *)
(* reads the sizes of messages where they are, however the stream is delivered  *)
(* (TCPClientProducer::readData, disconnected).                                 *)
THEOREM ClientInStep == ServerSpec => []ResyncAfterCut
<1>1. SInv => ResyncAfterCut
  BY DEF SInv, AlignedInv, ResyncAfterCut
<1> QED
  BY <1>1, ServerInvariant, PTL

-----------------------------------------------------------------------------
(* Induction, in a form without predicates. *)
LEMMA SetInduction ==
    ASSUME NEW N \in SUBSET Nat, 0 \in N, \A n \in N : n + 1 \in N
    PROVE  N = Nat
<1>1. SUFFICES ASSUME Nat \ N # {} PROVE FALSE
  OBVIOUS
<1>2. PICK x \in Nat \ N : \A y \in Nat \ N : ~(<<y, x>> \in OpToRel(<, Nat))
  BY <1>1, NatLessThanWellFounded, WFMin
<1>3. \A y \in Nat \ N : ~(y < x)
  BY <1>2 DEF OpToRel
<1>4. x - 1 \in N
  BY <1>3
<1>5. (x - 1) + 1 \in N
  BY <1>4
<1> QED
  BY <1>5

LEMMA SeqInduction ==
    ASSUME NEW S, NEW T \in SUBSET Seq(S), <<>> \in T, \A s \in T, e \in S : Append(s, e) \in T
    PROVE  T = Seq(S)
<1> DEFINE N == {n \in Nat : \A s \in Seq(S) : Len(s) = n => s \in T}
<1>1. 0 \in N
  <2>1. \A s \in Seq(S) : Len(s) = 0 => s = <<>>
    OBVIOUS
  <2> QED
    BY <2>1
<1>2. ASSUME NEW n \in N PROVE n + 1 \in N
  <2> SUFFICES ASSUME NEW s \in Seq(S), Len(s) = n + 1 PROVE s \in T
    BY <1>2
  <2>1. PICK t \in Seq(S), e \in S : s = Append(t, e)
    <3>1. s # <<>>
      OBVIOUS
    <3> QED
      BY <3>1, SequenceEmptyOrAppend
  <2>2. Len(t) = n
    <3>1. Len(s) = Len(t) + 1 /\ Len(t) \in Nat
      BY <2>1
    <3> QED
      BY <3>1
  <2> QED
    BY <2>1, <2>2
<1> HIDE DEF N
<1>3. N = Nat
  <2>1. N \in SUBSET Nat
    BY DEF N
  <2> QED
    BY <1>1, <1>2, <2>1, SetInduction
<1>4. ASSUME NEW s \in Seq(S) PROVE s \in T
  <2>1. Len(s) \in N
    BY <1>3
  <2> QED
    BY <2>1 DEF N
<1> QED
  BY <1>4

(* What Numbers() computes.  Counts(s, F) says that F[i] are the numbers of    *)
(* the first i items of s.                                                     *)
Items == Units \cup Events
Counts(s, F) == F = [i \in 0 .. Len(s) |->
    IF i = 0 THEN <<>> ELSE IF IsFrame(s[i]) THEN Append(F[i - 1], s[i][2]) ELSE F[i - 1]]

LEMMA CountsValue ==
    ASSUME NEW s \in Seq(Items), NEW F, Counts(s, F)
    PROVE  /\ F[0] = <<>>
           /\ \A i \in 1 .. Len(s) :
                F[i] = IF IsFrame(s[i]) THEN Append(F[i - 1], s[i][2]) ELSE F[i - 1]
<1>1. Len(s) \in Nat
  OBVIOUS
<1>2. \A i \in 0 .. Len(s) : F[i] = IF i = 0 THEN <<>> ELSE IF IsFrame(s[i]) THEN Append(F[i - 1], s[i][2]) ELSE F[i - 1]
  BY Zenon DEF Counts
<1> QED
  BY <1>1, <1>2

LEMMA CountsExtend ==
    ASSUME NEW s \in Seq(Items), NEW u \in Items, NEW F, Counts(s, F)
    PROVE  \E G : Counts(Append(s, u), G)
<1> DEFINE n == Len(s)
           t == Append(s, u)
           G == [i \in 0 .. n + 1 |->
                   IF i <= n THEN F[i] ELSE IF IsFrame(u) THEN Append(F[n], u[2]) ELSE F[n]]
<1>1. n \in Nat /\ Len(t) = n + 1 /\ t[n + 1] = u /\ \A i \in 1 .. n : t[i] = s[i]
  OBVIOUS
<1> HIDE DEF n, t
<1>2. ASSUME NEW i \in 0 .. n + 1
      PROVE  G[i] = IF i = 0 THEN <<>> ELSE IF IsFrame(t[i]) THEN Append(G[i - 1], t[i][2]) ELSE G[i - 1]
  <2>1. CASE i = 0
    BY <1>1, <2>1, CountsValue DEF n
  <2>2. CASE i \in 1 .. n
    <3>1. G[i] = F[i] /\ G[i - 1] = F[i - 1] /\ t[i] = s[i] /\ i # 0
      BY <1>1, <2>2
    <3>2. F[i] = IF IsFrame(s[i]) THEN Append(F[i - 1], s[i][2]) ELSE F[i - 1]
      BY <2>2, CountsValue DEF n
    <3> QED
      BY <3>1, <3>2
  <2>3. CASE i = n + 1
    BY <1>1, <2>3
  <2> QED
    BY <1>1, <2>1, <2>2, <2>3
<1>3. G = [i \in 0 .. n + 1 |->
             IF i = 0 THEN <<>> ELSE IF IsFrame(t[i]) THEN Append(G[i - 1], t[i][2]) ELSE G[i - 1]]
  <2> DEFINE H == [i \in 0 .. n + 1 |->
             IF i = 0 THEN <<>> ELSE IF IsFrame(t[i]) THEN Append(G[i - 1], t[i][2]) ELSE G[i - 1]]
  <2>1. \A i \in 0 .. n + 1 : G[i] = H[i]
    BY <1>2
  <2>2. DOMAIN G = DOMAIN H /\ G = [i \in DOMAIN G |-> G[i]] /\ H = [i \in DOMAIN H |-> H[i]]
    OBVIOUS
  <2> QED
    BY <2>1, <2>2, Zenon
<1> QED
  BY <1>1, <1>3 DEF Counts, t

LEMMA NumbersCounts ==
    ASSUME NEW s \in Seq(Items)
    PROVE  \E F : Counts(s, F) /\ Numbers(s) = F[Len(s)]
<1> DEFINE T == {r \in Seq(Items) : \E F : Counts(r, F)}
<1>1. <<>> \in T
  <2>1. Counts(<<>>, [i \in {0} |-> <<>>])
    <3>1. Len(<<>>) = 0 /\ 0 .. 0 = {0}
      OBVIOUS
    <3> QED
      BY <3>1 DEF Counts
  <2> QED
    BY <2>1
<1>2. \A r \in T, u \in Items : Append(r, u) \in T
  BY CountsExtend
<1>3. s \in T
  <2> HIDE DEF T
  <2>1. T \in SUBSET Seq(Items)
    BY DEF T
  <2> QED
    BY <1>1, <1>2, <2>1, SeqInduction
<1>4. PICK G : Counts(s, G)
  BY <1>3
<1> QED
  BY <1>4, Zenon DEF Numbers, Counts

LEMMA CountsAgree ==
    ASSUME NEW s \in Seq(Items), NEW t \in Seq(Items), NEW F, NEW G, Counts(s, F), Counts(t, G),
           NEW n \in Nat, n <= Len(s), n <= Len(t), \A i \in 1 .. n : s[i] = t[i]
    PROVE  F[n] = G[n]
<1> DEFINE N == {k \in Nat : k <= n => F[k] = G[k]}
<1>1. 0 \in N
  BY CountsValue
<1>2. ASSUME NEW k \in N PROVE k + 1 \in N
  <2>1. CASE k + 1 <= n
    <3>1. k \in Nat /\ F[k] = G[k] /\ s[k + 1] = t[k + 1] /\ k + 1 \in 1 .. Len(s) /\ k + 1 \in 1 .. Len(t)
      BY <2>1
    <3>2. /\ F[k + 1] = IF IsFrame(s[k + 1]) THEN Append(F[(k + 1) - 1], s[k + 1][2]) ELSE F[(k + 1) - 1]
          /\ G[k + 1] = IF IsFrame(t[k + 1]) THEN Append(G[(k + 1) - 1], t[k + 1][2]) ELSE G[(k + 1) - 1]
      BY <3>1, CountsValue
    <3>3. (k + 1) - 1 = k
      BY <3>1
    <3> QED
      BY <3>1, <3>2, <3>3
  <2>2. CASE ~(k + 1 <= n)
    BY <2>2
  <2> QED
    BY <2>1, <2>2
<1>3. N = Nat
  <2> HIDE DEF N
  <2>1. N \in SUBSET Nat
    BY DEF N
  <2> QED
    BY <1>1, <1>2, <2>1, SetInduction
<1> QED
  BY <1>3

LEMMA NumbersEmpty == Numbers(<<>>) = <<>>
<1>1. <<>> \in Seq(Items) /\ Len(<<>>) = 0
  OBVIOUS
<1>2. PICK F : Counts(<<>>, F) /\ Numbers(<<>>) = F[Len(<<>>)]
  BY <1>1, NumbersCounts
<1> QED
  BY <1>1, <1>2, CountsValue

LEMMA NumbersAppend ==
    ASSUME NEW s \in Seq(Items), NEW u \in Items
    PROVE  Numbers(Append(s, u)) = IF IsFrame(u) THEN Append(Numbers(s), u[2]) ELSE Numbers(s)
<1> DEFINE t == Append(s, u)
           n == Len(s)
<1>1. /\ t \in Seq(Items) /\ n \in Nat /\ Len(t) = n + 1 /\ t[n + 1] = u
      /\ \A i \in 1 .. n : s[i] = t[i]
  OBVIOUS
<1> HIDE DEF t
<1>2. PICK F : Counts(s, F) /\ Numbers(s) = F[n]
  BY NumbersCounts
<1>3. PICK G : Counts(t, G) /\ Numbers(t) = G[n + 1]
  BY <1>1, NumbersCounts
<1>4. F[n] = G[n]
  BY <1>1, <1>2, <1>3, CountsAgree
<1>5. G[n + 1] = IF IsFrame(t[n + 1]) THEN Append(G[(n + 1) - 1], t[n + 1][2]) ELSE G[(n + 1) - 1]
  BY <1>1, <1>3, CountsValue
<1>6. (n + 1) - 1 = n
  BY <1>1
<1> QED
  BY <1>1, <1>2, <1>3, <1>4, <1>5, <1>6 DEF t

LEMMA NumbersType ==
    ASSUME NEW s \in Seq(Items)
    PROVE  Numbers(s) \in Seq(Serials)
<1> DEFINE T == {r \in Seq(Items) : Numbers(r) \in Seq(Serials)}
<1>1. <<>> \in T
  <2>1. <<>> \in Seq(Items) /\ <<>> \in Seq(Serials)
    OBVIOUS
  <2> QED
    BY <2>1, NumbersEmpty
<1>2. ASSUME NEW r \in T, NEW u \in Items PROVE Append(r, u) \in T
  <2>1. IsFrame(u) => u[2] \in Serials
    BY DEF Items, Units, Events, IsFrame
  <2>2. r \in Seq(Items) /\ Numbers(r) \in Seq(Serials) /\ Append(r, u) \in Seq(Items)
    OBVIOUS
  <2>3. Numbers(Append(r, u)) = IF IsFrame(u) THEN Append(Numbers(r), u[2]) ELSE Numbers(r)
    BY <2>2, NumbersAppend
  <2>4. Numbers(Append(r, u)) \in Seq(Serials)
    BY <2>1, <2>2, <2>3
  <2> QED
    BY <2>2, <2>4
<1> HIDE DEF T
<1>3. T \in SUBSET Seq(Items)
  BY DEF T
<1>4. s \in T
  BY <1>1, <1>2, <1>3, SeqInduction
<1> QED
  BY <1>4 DEF T

LEMMA NumbersConcat ==
    ASSUME NEW s \in Seq(Items), NEW t \in Seq(Items)
    PROVE  Numbers(s \o t) = Numbers(s) \o Numbers(t)
<1> DEFINE T == {r \in Seq(Items) : Numbers(s \o r) = Numbers(s) \o Numbers(r)}
<1>1. <<>> \in T
  <2>1. s \o <<>> = s /\ Numbers(s) \o <<>> = Numbers(s)
    BY NumbersType, ConcatEmptySeq
  <2>2. <<>> \in Seq(Items)
    OBVIOUS
  <2> QED
    BY <2>1, <2>2, NumbersEmpty
<1>2. ASSUME NEW r \in T, NEW u \in Items PROVE Append(r, u) \in T
  <2>1. /\ r \in Seq(Items) /\ s \o r \in Seq(Items) /\ Append(r, u) \in Seq(Items)
        /\ Numbers(s \o r) = Numbers(s) \o Numbers(r)
    OBVIOUS
  <2>2. s \o Append(r, u) = Append(s \o r, u)
    BY <2>1
  <2>3. /\ Numbers(Append(s \o r, u)) = IF IsFrame(u) THEN Append(Numbers(s \o r), u[2]) ELSE Numbers(s \o r)
        /\ Numbers(Append(r, u)) = IF IsFrame(u) THEN Append(Numbers(r), u[2]) ELSE Numbers(r)
    BY <2>1, NumbersAppend
  <2>4. Numbers(s) \in Seq(Serials) /\ Numbers(r) \in Seq(Serials)
    BY <2>1, NumbersType
  <2>5. IsFrame(u) => u[2] \in Serials
    BY DEF Items, Units, Events, IsFrame
  <2>6. ASSUME u[2] \in Serials
        PROVE  Append(Numbers(s) \o Numbers(r), u[2]) = Numbers(s) \o Append(Numbers(r), u[2])
    <3> DEFINE a == Numbers(s)
               b == Numbers(r)
               e == u[2]
    <3>1. a \in Seq(Serials) /\ b \in Seq(Serials) /\ e \in Serials
      BY <2>4, <2>6
    <3> HIDE DEF a, b, e, T
    <3>2. a \o b \in Seq(Serials) /\ <<e>> \in Seq(Serials)
      BY <3>1
    <3>3. Append(a \o b, e) = (a \o b) \o <<e>>
      BY <3>1, <3>2, AppendIsConcat
    <3>4. Append(b, e) = b \o <<e>>
      BY <3>1, AppendIsConcat
    <3>5. (a \o b) \o <<e>> = a \o (b \o <<e>>)
      BY <3>1, <3>2, ConcatAssociative
    <3> QED
      BY <3>3, <3>4, <3>5 DEF a, b, e
  <2> QED
    BY <2>1, <2>2, <2>3, <2>5, <2>6
<1> HIDE DEF T
<1>3. T \in SUBSET Seq(Items)
  BY DEF T
<1>4. t \in T
  BY <1>1, <1>2, <1>3, SeqInduction
<1> QED
  BY <1>4 DEF T

LEMMA NumbersTail ==
    ASSUME NEW s \in Seq(Items), s # <<>>
    PROVE  Numbers(s) = IF IsFrame(Head(s)) THEN <<Head(s)[2]>> \o Numbers(Tail(s)) ELSE Numbers(Tail(s))
<1> DEFINE u == Head(s)
           o == Append(<<>>, u)
<1>1. /\ u \in Items /\ Tail(s) \in Seq(Items) /\ <<>> \in Seq(Items)
      /\ o \in Seq(Items) /\ s = o \o Tail(s)
  OBVIOUS
<1>2. Numbers(o) = IF IsFrame(u) THEN Append(<<>>, u[2]) ELSE <<>>
  BY <1>1, NumbersAppend, NumbersEmpty
<1>3. Numbers(s) = Numbers(o) \o Numbers(Tail(s))
  BY <1>1, NumbersConcat
<1>4. Numbers(Tail(s)) \in Seq(Serials) /\ <<>> \o Numbers(Tail(s)) = Numbers(Tail(s))
  BY <1>1, NumbersType, ConcatEmptySeq
<1>5. Append(<<>>, u[2]) = <<u[2]>>
  OBVIOUS
<1> QED
  BY <1>2, <1>3, <1>4, <1>5

LEMMA WireAppend ==
    ASSUME NEW q \in Seq(Serials), NEW n \in Serials
    PROVE  Wire(Append(q, n)) = Append(Append(Wire(q), Size(n)), Frame(n))
<1> DEFINE k == Len(q)
           p == Append(q, n)
           v == Append(Append(Wire(q), Size(n)), Frame(n))
           e(x, i) == IF i % 2 = 1 THEN Size(x[(i + 1) \div 2]) ELSE Frame(x[i \div 2])
<1>1. k \in Nat /\ Len(p) = k + 1 /\ p[k + 1] = n /\ \A i \in 1 .. k : p[i] = q[i]
  OBVIOUS
<1>2. Wire(q) = [i \in 1 .. 2 * k |-> e(q, i)] /\ Wire(p) = [i \in 1 .. 2 * (k + 1) |-> e(p, i)]
  BY <1>1 DEF Wire
<1>3. Wire(q) \in Seq(Units) /\ Len(Wire(q)) = 2 * k /\ Size(n) \in Units /\ Frame(n) \in Units
  <2>1. DOMAIN Wire(q) = 1 .. 2 * k /\ 2 * k \in Nat
    BY <1>1, <1>2
  <2>2. Wire(q) \in Seq(Units)
    BY WireAligned
  <2>3. DOMAIN Wire(q) = 1 .. Len(Wire(q)) /\ Len(Wire(q)) \in Nat
    BY <2>2, LenProperties
  <2>4. Len(Wire(q)) = 2 * k
    BY <2>1, <2>3
  <2> QED
    BY <2>2, <2>4 DEF Units, Size, Frame
<1> HIDE DEF k, p, e
<1>4. /\ v \in Seq(Units) /\ Len(v) = 2 * k + 2 /\ v[2 * k + 1] = Size(n) /\ v[2 * k + 2] = Frame(n)
      /\ \A i \in 1 .. 2 * k : v[i] = Wire(q)[i]
  BY <1>1, <1>3
<1> HIDE DEF v
<1>5. ASSUME NEW i \in 1 .. 2 * (k + 1) PROVE Wire(p)[i] = v[i]
  <2>1. Wire(p)[i] = e(p, i)
    BY <1>2
  <2>2. CASE i <= 2 * k
    <3>1. i \in 1 .. 2 * k
      BY <1>1, <2>2
    <3>2. v[i] = e(q, i)
      BY <1>2, <1>4, <3>1
    <3>3. CASE i % 2 = 1
      <4>1. (i + 1) \div 2 \in 1 .. k
        BY <1>1, <3>1, <3>3
      <4> QED
        BY <1>1, <2>1, <3>2, <3>3, <4>1 DEF e
    <3>4. CASE i % 2 # 1
      <4>1. i \div 2 \in 1 .. k
        BY <1>1, <3>1, <3>4
      <4> QED
        BY <1>1, <2>1, <3>2, <3>4, <4>1 DEF e
    <3> QED
      BY <3>3, <3>4
  <2>3. CASE i = 2 * k + 1
    <3>1. i % 2 = 1 /\ (i + 1) \div 2 = k + 1
      BY <1>1, <2>3
    <3> QED
      BY <1>1, <1>4, <2>1, <2>3, <3>1 DEF e
  <2>4. CASE i = 2 * k + 2
    <3>1. i % 2 # 1 /\ i \div 2 = k + 1
      BY <1>1, <2>4
    <3> QED
      BY <1>1, <1>4, <2>1, <2>4, <3>1 DEF e
  <2> QED
    BY <1>1, <2>2, <2>3, <2>4
<1>6. Wire(p) = [i \in 1 .. 2 * (k + 1) |-> v[i]] /\ v = [i \in 1 .. 2 * (k + 1) |-> v[i]]
  <2>1. 2 * k + 2 = 2 * (k + 1)
    BY <1>1
  <2>2. v = [i \in 1 .. Len(v) |-> v[i]]
    BY <1>4
  <2>3. Wire(p) = [i \in 1 .. 2 * (k + 1) |-> v[i]]
    BY <1>2, <1>5
  <2> QED
    BY <1>4, <2>1, <2>2, <2>3
<1> QED
  BY <1>6 DEF p, v

LEMMA NumbersWire ==
    ASSUME NEW q \in Seq(Serials)
    PROVE  Numbers(Wire(q)) = q
<1> DEFINE T == {r \in Seq(Serials) : Numbers(Wire(r)) = r}
<1>1. <<>> \in T
  <2>1. Wire(<<>>) = <<>>
    <3>1. Len(<<>>) = 0 /\ 1 .. 2 * 0 = {}
      OBVIOUS
    <3> QED
      BY <3>1 DEF Wire
  <2> QED
    BY <2>1, NumbersEmpty
<1>2. ASSUME NEW r \in T, NEW n \in Serials PROVE Append(r, n) \in T
  <2>1. /\ r \in Seq(Serials) /\ Numbers(Wire(r)) = r
        /\ Wire(Append(r, n)) = Append(Append(Wire(r), Size(n)), Frame(n))
    BY WireAppend
  <2>2. Wire(r) \in Seq(Items) /\ Size(n) \in Items /\ Frame(n) \in Items
    <3>1. Wire(r) \in Seq(Units)
      BY <2>1, WireAligned
    <3>2. Units \subseteq Items /\ Size(n) \in Units /\ Frame(n) \in Units
      BY DEF Items, Units, Size, Frame
    <3> QED
      BY <3>1, <3>2, SeqMonotonic
  <2>3. Append(Wire(r), Size(n)) \in Seq(Items)
    BY <2>2
  <2>4. ~IsFrame(Size(n)) /\ IsFrame(Frame(n)) /\ Frame(n)[2] = n
    BY DEF IsFrame, Size, Frame
  <2>5. Numbers(Append(Wire(r), Size(n))) = r
    BY <2>1, <2>2, <2>4, NumbersAppend
  <2>6. Numbers(Append(Append(Wire(r), Size(n)), Frame(n))) = Append(r, n)
    BY <2>2, <2>3, <2>4, <2>5, NumbersAppend
  <2>7. Append(r, n) \in Seq(Serials)
    BY <2>1
  <2> QED
    BY <2>1, <2>6, <2>7
<1> HIDE DEF T
<1>3. T \in SUBSET Seq(Serials)
  BY DEF T
<1>4. q \in T
  BY <1>1, <1>2, <1>3, SeqInduction
<1> QED
  BY <1>4 DEF T

-----------------------------------------------------------------------------
(* The stream: what is on its way, from the client's hands to the mail of the  *)
(* thread, is in order, ends with the newest frame and, if it was always       *)
(* lossless, is complete.                                                      *)
Good(s, b, n, full) ==
    /\ \A i, j \in DOMAIN s : i < j => s[i] < s[j]
    /\ \A i \in DOMAIN s : s[i] < n
    /\ n > b => s # <<>> /\ s[Len(s)] = n - 1
    /\ full => s = [i \in 1 .. n - b |-> b + i - 1]

LEMMA GoodAppend ==
    ASSUME NEW s \in Seq(Serials), NEW b \in Serials, NEW n \in Serials, NEW full \in BOOLEAN,
           b <= n, Good(s, b, n, full)
    PROVE  Good(s \o <<n>>, b, n + 1, full)
<1> DEFINE t == s \o <<n>>
           k == Len(s)
<1>1. Serials \subseteq Nat /\ n \in Nat /\ b \in Nat
  BY ServerAssumption DEF Serials
<1>2. /\ k \in Nat /\ Len(t) = k + 1 /\ t \in Seq(Serials) /\ t[k + 1] = n
      /\ \A i \in 1 .. k : t[i] = s[i]
  OBVIOUS
<1>3. DOMAIN s = 1 .. k /\ DOMAIN t = 1 .. k + 1
  BY <1>2, LenProperties
<1>4. \A i \in 1 .. k : s[i] \in Nat
  <2>1. \A i \in 1 .. k : s[i] \in Serials
    OBVIOUS
  <2> QED
    BY <1>1, <2>1
<1>5. t # <<>>
  BY <1>2
<1>6. ASSUME full PROVE t = [i \in 1 .. (n + 1) - b |-> b + i - 1]
  <2>1. s = [i \in 1 .. n - b |-> b + i - 1] /\ n - b \in Nat
    BY <1>1, <1>6 DEF Good
  <2>2. k = n - b
    <3>1. DOMAIN s = 1 .. n - b
      BY <2>1
    <3> QED
      BY <1>2, <1>3, <2>1, <3>1
  <2>3. ASSUME NEW i \in 1 .. k + 1 PROVE t[i] = b + i - 1
    <3>1. CASE i \in 1 .. k
      BY <1>2, <2>1, <2>2, <3>1
    <3>2. CASE i = k + 1
      BY <1>1, <1>2, <2>2, <3>2
    <3> QED
      BY <1>2, <3>1, <3>2
  <2>4. t = [i \in 1 .. k + 1 |-> t[i]] /\ (n + 1) - b = k + 1
    <3>1. t = [i \in DOMAIN t |-> t[i]]
      BY <1>2
    <3> QED
      BY <1>1, <1>3, <2>2, <3>1
  <2> HIDE DEF t, k
  <2> QED
    BY <2>3, <2>4
<1> HIDE DEF t, k
<1>7. \A i, j \in DOMAIN t : i < j => t[i] < t[j]
  BY <1>1, <1>2, <1>3, <1>4 DEF Good
<1>8. \A i \in DOMAIN t : t[i] < n + 1
  BY <1>1, <1>2, <1>3, <1>4 DEF Good
<1>9. t[Len(t)] = (n + 1) - 1
  BY <1>1, <1>2
<1> QED
  BY <1>5, <1>6, <1>7, <1>8, <1>9 DEF Good, t

(* Losing a frame that is not the last keeps the rest in order. *)
LEMMA GoodDrop ==
    ASSUME NEW x \in Seq(Serials), NEW y \in Seq(Serials), NEW b \in Serials, NEW n \in Serials,
           Len(y) >= 2, Good(x \o y, b, n, FALSE)
    PROVE  Good(x \o Tail(y), b, n, FALSE)
<1> DEFINE s == x \o y
           t == x \o Tail(y)
           k == Len(x)
           m == Len(y)
           f(i) == IF i <= k THEN i ELSE i + 1
<1>1. y # <<>> /\ Tail(y) \in Seq(Serials) /\ Len(Tail(y)) = m - 1 /\ m \in Nat /\ m >= 2
      /\ \A i \in 1 .. m - 1 : Tail(y)[i] = y[i + 1]
  OBVIOUS
<1>2. /\ k \in Nat /\ Len(s) = k + m /\ s \in Seq(Serials)
      /\ \A i \in 1 .. k : s[i] = x[i]
      /\ \A i \in 1 .. m : s[k + i] = y[i]
  BY ConcatFacts
<1>3. /\ Len(t) = k + (m - 1) /\ t \in Seq(Serials)
      /\ \A i \in 1 .. k : t[i] = x[i]
      /\ \A i \in 1 .. m - 1 : t[k + i] = Tail(y)[i]
  BY <1>1, ConcatFacts
<1>4. DOMAIN s = 1 .. k + m /\ DOMAIN t = 1 .. k + (m - 1)
  BY <1>2, <1>3, LenProperties
<1> HIDE DEF s, t, k, m
<1>5. ASSUME NEW i \in 1 .. k + (m - 1)
      PROVE  f(i) \in 1 .. k + m /\ t[i] = s[f(i)]
  <2>1. CASE i <= k
    BY <1>1, <1>2, <1>3, <2>1
  <2>2. CASE ~(i <= k)
    <3>1. i - k \in 1 .. m - 1 /\ (i - k) + 1 \in 1 .. m
      BY <1>1, <1>2, <2>2
    <3>2. t[k + (i - k)] = Tail(y)[i - k] /\ Tail(y)[i - k] = y[(i - k) + 1]
      BY <1>1, <1>3, <3>1
    <3>3. s[k + ((i - k) + 1)] = y[(i - k) + 1]
      BY <1>2, <3>1
    <3>4. k + (i - k) = i /\ k + ((i - k) + 1) = i + 1
      BY <1>1, <1>2
    <3> QED
      BY <1>1, <1>2, <2>2, <3>2, <3>3, <3>4
  <2> QED
    BY <2>1, <2>2
<1>6. \A i, j \in 1 .. k + (m - 1) : i < j => f(i) < f(j)
  BY <1>1, <1>2
<1>7. f(k + (m - 1)) = k + m
  BY <1>1, <1>2
<1> HIDE DEF f
<1>8. \A i, j \in DOMAIN t : i < j => t[i] < t[j]
  BY <1>4, <1>5, <1>6 DEF Good, s
<1>9. \A i \in DOMAIN t : t[i] < n
  BY <1>4, <1>5 DEF Good, s
<1>10. t # <<>> /\ t[Len(t)] = s[Len(s)]
  <2>1. k + (m - 1) \in 1 .. k + (m - 1)
    BY <1>1, <1>2
  <2> QED
    BY <1>2, <1>3, <1>5, <1>7, <2>1
<1> QED
  BY <1>8, <1>9, <1>10 DEF Good, s, t

LEMMA GoodWeaken ==
    ASSUME NEW s, NEW b, NEW n, NEW f, NEW g, Good(s, b, n, f), g => f
    PROVE  Good(s, b, n, g)
  BY DEF Good

LEMMA GoodEmpty ==
    ASSUME NEW n \in Serials, NEW f
    PROVE  Good(<<>>, n, n, f)
<1>1. n \in Nat /\ n - n = 0 /\ ~(n > n)
  BY ServerAssumption DEF Serials
<1>2. DOMAIN <<>> = {} /\ 1 .. 0 = {} /\ <<>> = [i \in 1 .. 0 |-> n + i - 1]
  OBVIOUS
<1> QED
  BY <1>1, <1>2 DEF Good

(* What sendData() sends and what it keeps is what it was given. *)
LEMMA SentKept ==
    ASSUME ServerTypeOK, NEW q \in Seq(Serials)
    PROVE  Sent(q) \o Kept(q) = q
<1>1. maxFlight \in Nat /\ Len(q) \in Nat /\ Len(inFlight) \in Nat
  BY ServerAssumption DEF ServerTypeOK
<1> DEFINE r == Room(q)
           m == Len(q)
<1>2. r \in 0 .. m
  BY <1>1 DEF Room
<1> HIDE DEF r
<1>3. 1 \in 1 .. m + 1 /\ r \in 1 - 1 .. m /\ m \in r .. m
  BY <1>1, <1>2
<1>4. SubSeq(q, 1, r) \o SubSeq(q, r + 1, m) = SubSeq(q, 1, m)
  BY <1>3, ConcatAdjacentSubSeq
<1> QED
  BY <1>4, SubSeqFull DEF Sent, Kept, r

(* Concatenation of frame numbers, under a name of its own: the equations below *)
(* are then solved without looking into the sequences.                          *)
Cat(s, t) == s \o t

LEMMA CatFacts ==
    /\ \A a, b \in Seq(Serials) : Cat(a, b) \in Seq(Serials)
    /\ \A a, b, c \in Seq(Serials) : Cat(Cat(a, b), c) = Cat(a, Cat(b, c))
    /\ \A a \in Seq(Serials) : Cat(a, <<>>) = a /\ Cat(<<>>, a) = a
    /\ \A e \in Serials : <<e>> \in Seq(Serials)
    /\ <<>> \in Seq(Serials)
<1>1. ASSUME NEW a \in Seq(Serials), NEW b \in Seq(Serials) PROVE Cat(a, b) \in Seq(Serials)
  BY DEF Cat
<1>2. ASSUME NEW a \in Seq(Serials), NEW b \in Seq(Serials), NEW c \in Seq(Serials)
      PROVE  Cat(Cat(a, b), c) = Cat(a, Cat(b, c))
  BY DEF Cat
<1>3. ASSUME NEW a \in Seq(Serials) PROVE Cat(a, <<>>) = a /\ Cat(<<>>, a) = a
  BY ConcatEmptySeq DEF Cat
<1>4. ASSUME NEW e \in Serials PROVE <<e>> \in Seq(Serials)
  OBVIOUS
<1>5. <<>> \in Seq(Serials)
  OBVIOUS
<1> QED
  BY <1>1, <1>2, <1>3, <1>4, <1>5, Zenon

(* The frames fl in flight and the stream, by parts: u acknowledgements on their *)
(* way, a arrived, b on the wire, g received, q queued, m in the mail.          *)
Fits(fl, u, a, b, g, q, m, base0, n, full) ==
    /\ fl = Cat(Cat(u, a), b)
    /\ Good(Cat(Cat(Cat(Cat(g, a), b), q), m), base0, n, full)

LEMMA FitsProcess ==
    ASSUME NEW fl \in Seq(Serials), NEW u \in Seq(Serials), NEW a \in Seq(Serials),
           NEW b \in Seq(Serials), NEW g \in Seq(Serials), NEW q \in Seq(Serials),
           NEW m \in Seq(Serials), NEW base0 \in Serials, NEW n \in Serials,
           NEW full \in BOOLEAN, base0 <= n, Fits(fl, u, a, b, g, q, m, base0, n, full)
    PROVE  Fits(fl, u, a, b, g, q, Cat(m, <<n>>), base0, n + 1, full)
<1>1. PICK x \in Seq(Serials) : x = Cat(Cat(Cat(g, a), b), q)
  BY CatFacts
<1>2. Cat(x, m) \in Seq(Serials) /\ Good(Cat(x, m), base0, n, full)
  BY <1>1, CatFacts DEF Fits
<1>3. Good(Cat(Cat(x, m), <<n>>), base0, n + 1, full)
  BY <1>2, GoodAppend DEF Cat
<1>4. Cat(x, Cat(m, <<n>>)) = Cat(Cat(x, m), <<n>>)
  <2>1. PICK e \in Seq(Serials) : e = <<n>>
    BY CatFacts
  <2>2. Cat(x, Cat(m, e)) = Cat(Cat(x, m), e)
    BY CatFacts
  <2> QED
    BY <2>1, <2>2
<1> QED
  BY <1>1, <1>3, <1>4 DEF Fits

LEMMA FitsSend ==
    ASSUME NEW fl \in Seq(Serials), NEW u \in Seq(Serials), NEW a \in Seq(Serials),
           NEW b \in Seq(Serials), NEW g \in Seq(Serials), NEW q \in Seq(Serials),
           NEW m \in Seq(Serials), NEW base0 \in Serials, NEW n \in Serials,
           NEW full, NEW o \in Seq(Serials), NEW x \in Seq(Serials),
           NEW y \in Seq(Serials), NEW z, z = Cat(q, o), Cat(x, y) = z,
           Fits(fl, u, a, b, g, q, Cat(o, m), base0, n, full)
    PROVE  Fits(Cat(fl, x), u, a, Cat(b, x), g, y, m, base0, n, full)
<1>1. PICK p \in Seq(Serials) : p = Cat(g, a)
  BY CatFacts
<1>2. Cat(Cat(Cat(p, b), q), Cat(o, m)) = Cat(Cat(p, Cat(b, x)), Cat(y, m))
  <2>1. PICK r \in Seq(Serials) : r = Cat(p, b)
    BY CatFacts
  <2>2. Cat(p, Cat(b, x)) = Cat(r, x)
    BY <2>1, CatFacts
  <2>3. Cat(r, q) \in Seq(Serials) /\ Cat(r, x) \in Seq(Serials)
    BY CatFacts
  <2>4. Cat(Cat(r, q), Cat(o, m)) = Cat(Cat(Cat(r, q), o), m)
    BY <2>3, CatFacts
  <2>5. Cat(Cat(r, q), o) = Cat(r, Cat(q, o)) /\ Cat(r, Cat(x, y)) = Cat(Cat(r, x), y)
    BY CatFacts
  <2>6. Cat(Cat(Cat(r, x), y), m) = Cat(Cat(r, x), Cat(y, m))
    BY <2>3, CatFacts
  <2> QED
    BY <2>1, <2>2, <2>4, <2>5, <2>6
<1>3. Cat(p, Cat(b, x)) \in Seq(Serials)
  BY CatFacts
<1>4. Cat(Cat(Cat(p, Cat(b, x)), y), m) = Cat(Cat(p, Cat(b, x)), Cat(y, m))
  BY <1>3, CatFacts
<1>5. Good(Cat(Cat(Cat(p, Cat(b, x)), y), m), base0, n, full)
  BY <1>1, <1>2, <1>4 DEF Fits
<1>6. Cat(fl, x) = Cat(Cat(u, a), Cat(b, x))
  <2>1. fl = Cat(Cat(u, a), b) /\ Cat(u, a) \in Seq(Serials)
    BY CatFacts DEF Fits
  <2> QED
    BY <2>1, CatFacts
<1> QED
  BY <1>1, <1>5, <1>6 DEF Fits

LEMMA FitsDrop ==
    ASSUME NEW fl \in Seq(Serials), NEW u \in Seq(Serials), NEW a \in Seq(Serials),
           NEW b \in Seq(Serials), NEW g \in Seq(Serials), NEW q \in Seq(Serials),
           NEW m \in Seq(Serials), NEW base0 \in Serials, NEW n \in Serials,
           Len(q) >= 2, Fits(fl, u, a, b, g, q, m, base0, n, FALSE)
    PROVE  Fits(fl, u, a, b, g, Tail(q), m, base0, n, FALSE)
<1>1. PICK x \in Seq(Serials) : x = Cat(Cat(g, a), b)
  BY CatFacts
<1>2. q # <<>> /\ Tail(q) \in Seq(Serials)
  OBVIOUS
<1>3. Cat(Cat(x, q), m) = Cat(x, Cat(q, m)) /\ Cat(Cat(x, Tail(q)), m) = Cat(x, Cat(Tail(q), m))
  <2>1. PICK w \in Seq(Serials) : w = Tail(q)
    BY <1>2
  <2>2. Cat(Cat(x, q), m) = Cat(x, Cat(q, m)) /\ Cat(Cat(x, w), m) = Cat(x, Cat(w, m))
    BY CatFacts
  <2> QED
    BY <2>1, <2>2
<1>4. /\ Cat(q, m) \in Seq(Serials) /\ Len(Cat(q, m)) >= 2
      /\ Tail(Cat(q, m)) = Cat(Tail(q), m)
  <2>1. Len(q \o m) = Len(q) + Len(m) /\ Len(m) \in Nat /\ Len(q) \in Nat /\ q \o m \in Seq(Serials)
    BY ConcatFacts
  <2> QED
    BY <1>2, <2>1, TailConcat, SMTT(30) DEF Cat
<1>5. Good(Cat(x, Cat(q, m)), base0, n, FALSE)
  BY <1>1, <1>3 DEF Fits
<1>6. Good(Cat(x, Cat(Tail(q), m)), base0, n, FALSE)
  <2> DEFINE y == Cat(q, m)
  <2>1. y \in Seq(Serials) /\ Len(y) >= 2 /\ Good(Cat(x, y), base0, n, FALSE)
    BY <1>4, <1>5
  <2> HIDE DEF y
  <2>2. Good(Cat(x, Tail(y)), base0, n, FALSE)
    BY <2>1, GoodDrop DEF Cat
  <2> QED
    BY <1>4, <2>2 DEF y
<1> QED
  BY <1>1, <1>3, <1>6 DEF Fits

LEMMA FitsAck ==
    ASSUME NEW fl \in Seq(Serials), NEW u \in Seq(Serials), NEW a \in Seq(Serials),
           NEW b \in Seq(Serials), NEW g \in Seq(Serials), NEW q \in Seq(Serials),
           NEW m \in Seq(Serials), NEW base0 \in Serials, NEW n \in Serials,
           NEW full, u # <<>>, Fits(fl, u, a, b, g, q, m, base0, n, full)
    PROVE  /\ fl # <<>> /\ Head(fl) = Head(u)
           /\ Fits(Tail(fl), Tail(u), a, b, g, q, m, base0, n, full)
<1> DEFINE v == Cat(a, b)
<1>1. v \in Seq(Serials) /\ fl = Cat(u, v) /\ Tail(u) \in Seq(Serials)
  BY CatFacts DEF Fits
<1>2. Cat(Cat(Tail(u), a), b) = Cat(Tail(u), v)
  <2>1. PICK w \in Seq(Serials) : w = Tail(u)
    BY <1>1
  <2>2. Cat(Cat(w, a), b) = Cat(w, v)
    BY CatFacts
  <2> QED
    BY <2>1, <2>2
<1> HIDE DEF v
<1>3. Tail(u) \o v = Tail(u \o v) /\ u \o v # <<>> /\ (u \o v)[1] = Head(u) /\ u \o v \in Seq(Serials)
  BY <1>1, TailConcat, ConcatFacts
<1>4. fl # <<>> /\ Head(fl) = Head(u) /\ Tail(fl) = Cat(Tail(u), v)
  <2>1. fl = u \o v
    BY <1>1 DEF Cat
  <2>2. Head(fl) = fl[1] /\ fl[1] = Head(u) /\ fl # <<>>
    BY <1>3, <2>1, HeadTail
  <2> QED
    BY <1>3, <2>1, <2>2 DEF Cat
<1> QED
  BY <1>2, <1>4 DEF Fits

LEMMA FitsDeliver ==
    ASSUME NEW fl \in Seq(Serials), NEW u \in Seq(Serials), NEW a \in Seq(Serials),
           NEW b \in Seq(Serials), NEW g \in Seq(Serials), NEW q \in Seq(Serials),
           NEW m \in Seq(Serials), NEW base0 \in Serials, NEW n \in Serials,
           NEW full, NEW c \in Seq(Serials), NEW d \in Seq(Serials),
           Cat(a, b) = Cat(c, d), Fits(fl, u, a, b, g, q, m, base0, n, full)
    PROVE  Fits(fl, u, c, d, g, q, m, base0, n, full)
<1>1. /\ Cat(Cat(u, a), b) = Cat(u, Cat(a, b)) /\ Cat(Cat(u, c), d) = Cat(u, Cat(c, d))
      /\ Cat(Cat(g, a), b) = Cat(g, Cat(a, b)) /\ Cat(Cat(g, c), d) = Cat(g, Cat(c, d))
  BY CatFacts
<1> QED
  BY <1>1 DEF Fits

LEMMA FitsRead ==
    ASSUME NEW fl \in Seq(Serials), NEW u \in Seq(Serials), NEW c \in Seq(Serials),
           NEW b \in Seq(Serials), NEW g \in Seq(Serials), NEW q \in Seq(Serials),
           NEW m \in Seq(Serials), NEW base0 \in Serials, NEW n \in Serials,
           NEW full, NEW h \in Serials,
           Fits(fl, u, Cat(<<h>>, c), b, g, q, m, base0, n, full)
    PROVE  Fits(fl, Cat(u, <<h>>), c, b, Cat(g, <<h>>), q, m, base0, n, full)
<1>1. PICK e \in Seq(Serials) : e = <<h>>
  BY CatFacts
<1>2. Cat(u, Cat(e, c)) = Cat(Cat(u, e), c) /\ Cat(g, Cat(e, c)) = Cat(Cat(g, e), c)
  BY CatFacts
<1> QED
  BY <1>1, <1>2 DEF Fits

LEMMA FitsEmpty ==
    ASSUME NEW n \in Serials, NEW f
    PROVE  Fits(<<>>, <<>>, <<>>, <<>>, <<>>, <<>>, <<>>, n, n, f)
<1>1. Cat(<<>>, <<>>) = <<>>
  BY CatFacts
<1> QED
  BY <1>1, GoodEmpty DEF Fits

(* A synchronised client finds sizes and bodies where it expects them, or it    *)
(* expects the body of an earlier connection and the stream begins with a size. *)
StepInv == synced => \/ Aligned(rx \o down, block # 0)
                     \/ block # 0 /\ Aligned(rx \o down, FALSE)

FitsNow == Fits(inFlight, up, Numbers(rx), Numbers(down), got, queue, Numbers(mail),
                base, serial, mode = "lossless")
OrderInv == linked /\ synced => FitsNow
OInv == SInv /\ StepInv /\ OrderInv /\ base <= serial

(* The parts of the stream are sequences of frame numbers. *)
LEMMA StreamTypes ==
    ASSUME ServerTypeOK
    PROVE  /\ rx \in Seq(Items) /\ down \in Seq(Items) /\ mail \in Seq(Items)
           /\ Numbers(rx) \in Seq(Serials) /\ Numbers(down) \in Seq(Serials)
           /\ Numbers(mail) \in Seq(Serials)
           /\ got \in Seq(Serials) /\ queue \in Seq(Serials) /\ up \in Seq(Serials)
           /\ got \o Numbers(rx) \in Seq(Serials)
           /\ got \o Numbers(rx) \o Numbers(down) \o queue \in Seq(Serials)
           /\ Stream \in Seq(Serials) /\ inFlight \in Seq(Serials)
<1>1. Units \subseteq Items /\ Events \subseteq Items
  BY DEF Items
<1>2. /\ rx \in Seq(Units) /\ down \in Seq(Units) /\ mail \in Seq(Events)
      /\ got \in Seq(Serials) /\ queue \in Seq(Serials) /\ up \in Seq(Serials)
      /\ inFlight \in Seq(Serials)
  BY DEF ServerTypeOK
<1>3. rx \in Seq(Items) /\ down \in Seq(Items) /\ mail \in Seq(Items)
  BY <1>1, <1>2, SeqMonotonic
<1>4. /\ Numbers(rx) \in Seq(Serials) /\ Numbers(down) \in Seq(Serials)
      /\ Numbers(mail) \in Seq(Serials)
  BY <1>3, NumbersType
<1>5. got \o Numbers(rx) \in Seq(Serials)
  BY <1>2, <1>4, ConcatProperties
<1>6. got \o Numbers(rx) \o Numbers(down) \in Seq(Serials)
  BY <1>4, <1>5, ConcatProperties
<1>7. got \o Numbers(rx) \o Numbers(down) \o queue \in Seq(Serials)
  BY <1>2, <1>6, ConcatProperties
<1>8. Stream \in Seq(Serials)
  BY <1>4, <1>7, ConcatProperties DEF Stream
<1> QED
  BY <1>2, <1>3, <1>4, <1>5, <1>7, <1>8

LEMMA OrderInitInv == ServerInit => OInv
<1> SUFFICES ASSUME ServerInit PROVE OInv
  OBVIOUS
<1>1. SInv
  BY ServerInitInv
<1>2. rx \o down = <<>> /\ ~(block # 0)
  BY DEF ServerInit
<1>3. Aligned(<<>>, FALSE)
  <2>1. Len(<<>>) - 1 = -1
    OBVIOUS
  <2> QED
    BY <2>1 DEF Aligned
<1>4. StepInv
  BY <1>2, <1>3 DEF StepInv
<1>5. OrderInv
  BY DEF ServerInit, OrderInv
<1>6. base <= serial
  BY DEF ServerInit
<1> QED
  BY <1>1, <1>4, <1>5, <1>6 DEF OInv

LEMMA OrderPipeline ==
    ASSUME OInv, SInv',
           \/ Process
           \/ \E b \in BOOLEAN : SetLossless(b)
           \/ \E n \in Limits : SetMaxFramesInFlight(n)
    PROVE  OInv'
<1>1. /\ UNCHANGED <<linked, queue, inFlight, up, down, rx, block, synced, got, base>>
      /\ mode' = "lossless" => mode = "lossless"
  <2>1. CASE Process
    BY <2>1 DEF Process, netVars, clientVars, historyVars
  <2>2. CASE \E b \in BOOLEAN : SetLossless(b)
    BY <2>2 DEF SetLossless, Mode, threadVars, netVars, clientVars
  <2>3. CASE \E n \in Limits : SetMaxFramesInFlight(n)
    BY <2>3 DEF SetMaxFramesInFlight, threadVars, netVars, clientVars, historyVars
  <2> QED
    BY <2>1, <2>2, <2>3
<1>2. ServerTypeOK /\ serial \in Serials /\ base \in Serials /\ Serials \subseteq Nat /\ base <= serial
  BY ServerAssumption DEF OInv, SInv, ServerTypeOK, Serials
<1>3. StepInv'
  BY <1>1 DEF OInv, StepInv, Aligned
<1>4. (base <= serial)'
  BY <1>1, <1>2 DEF Process, SetLossless, SetMaxFramesInFlight
<1>5. ASSUME linked' /\ synced' PROVE FitsNow'
  <2>1. linked /\ FitsNow
    BY <1>1, <1>5 DEF OInv, OrderInv
  <2>2. CASE Process
    <3>1. serial' = serial + 1 /\ mode' = mode /\ mail' = Append(mail, Frame(serial))
      BY <2>1, <2>2 DEF Process, historyVars
    <3>2. Numbers(mail') = Append(Numbers(mail), serial)
      <4>1. Frame(serial) \in Items /\ IsFrame(Frame(serial)) /\ Frame(serial)[2] = serial
        BY <1>2 DEF Frame, IsFrame, Items, Units
      <4>2. mail \in Seq(Items)
        BY <1>2, StreamTypes
      <4> QED
        BY <3>1, <4>1, <4>2, NumbersAppend
    <3>3. Append(Numbers(mail), serial) = Cat(Numbers(mail), <<serial>>)
      BY <1>2, StreamTypes, AppendIsConcat DEF Cat
    <3>4. Fits(inFlight, up, Numbers(rx), Numbers(down), got, queue,
               Cat(Numbers(mail), <<serial>>), base, serial + 1, mode = "lossless")
      <4>1. (mode = "lossless") \in BOOLEAN
        OBVIOUS
      <4> QED
        BY <1>2, <2>1, <4>1, StreamTypes, FitsProcess DEF FitsNow
    <3> QED
      BY <1>1, <3>1, <3>2, <3>3, <3>4 DEF FitsNow
  <2>3. CASE ~Process
    <3>1. serial' = serial /\ mail' = mail
      BY <2>3 DEF SetLossless, SetMaxFramesInFlight, threadVars
    <3> QED
      BY <1>1, <2>1, <3>1, GoodWeaken DEF FitsNow, Fits
  <2> QED
    BY <2>2, <2>3
<1> QED
  BY <1>3, <1>4, <1>5 DEF OInv, OrderInv

LEMMA OrderThread ==
    ASSUME OInv, SInv', ServerThread
    PROVE  OInv'
<1> DEFINE h == Head(mail)
           o == IF IsFrame(h) THEN <<h[2]>> ELSE <<>>
           q == IF IsFrame(h) THEN Append(queue, h[2]) ELSE queue
           x == Sent(q)
           y == Kept(q)
           m == Numbers(Tail(mail))
<1>1. /\ UNCHANGED <<serial, lossless, linked, up, rx, block, synced, got, base, mode>>
      /\ SendData(q) /\ mail # <<>>
      /\ IsFrame(h) => queue' = AfterDrop(y) /\ mail' = Append(Tail(mail), <<"send", 0>>)
      /\ ~IsFrame(h) => queue' = y /\ mail' = Tail(mail)
  BY DEF ServerThread, QueueFrame, ScheduledSend, serverVars, clientVars, historyVars
<1>2. ServerTypeOK /\ mail \in Seq(Items) /\ serial \in Serials /\ base \in Serials
  BY StreamTypes DEF OInv, SInv, ServerTypeOK
<1>3. h \in Items /\ Tail(mail) \in Seq(Items) /\ m \in Seq(Serials)
  <2>1. h \in Items /\ Tail(mail) \in Seq(Items)
    BY <1>1, <1>2, HeadTail
  <2> QED
    BY <2>1, NumbersType
<1>4. IsFrame(h) => h[2] \in Serials
  BY <1>3 DEF Items, Units, Events, IsFrame
<1>5. o \in Seq(Serials) /\ q = Cat(queue, o) /\ q \in Seq(Serials)
  <2>1. queue \in Seq(Serials)
    BY <1>2, StreamTypes
  <2>2. CASE IsFrame(h)
    BY <1>4, <2>1, <2>2, CatFacts, AppendIsConcat DEF Cat
  <2>3. CASE ~IsFrame(h)
    BY <2>1, <2>3, CatFacts
  <2> QED
    BY <2>2, <2>3
<1>6. Numbers(mail) = Cat(o, m) /\ Numbers(mail') = m
  <2>1. CASE IsFrame(h)
    <3>1. <<"send", 0>> \in Items /\ ~IsFrame(<<"send", 0>>)
      BY DEF Items, Events, IsFrame
    <3>2. Numbers(Append(Tail(mail), <<"send", 0>>)) = m
      BY <1>3, <3>1, NumbersAppend
    <3>3. Numbers(mail) = <<h[2]>> \o m
      BY <1>1, <1>2, <2>1, NumbersTail
    <3> QED
      BY <1>1, <2>1, <3>2, <3>3 DEF Cat
  <2>2. CASE ~IsFrame(h)
    <3>1. Numbers(mail) = m /\ Cat(<<>>, m) = m
      BY <1>1, <1>2, <1>3, <2>2, NumbersTail, CatFacts
    <3> QED
      BY <1>1, <2>2, <3>1
  <2> QED
    BY <2>1, <2>2
<1> HIDE DEF h, o, q, m
<1>7. x \in Seq(Serials) /\ y \in Seq(Serials) /\ Cat(x, y) = q
  BY <1>2, <1>5, SendFacts, SentKept DEF Cat
<1> HIDE DEF x, y
<1>8. inFlight' = Cat(inFlight, x) /\ down' = down \o Wire(x)
  BY <1>1 DEF SendData, Cat, x
<1>9. Wire(x) \in Seq(Units) /\ Aligned(Wire(x), FALSE)
  BY <1>7, WireAligned
<1>10. rx \in Seq(Units) /\ down \in Seq(Units)
  BY <1>2 DEF ServerTypeOK
<1>11. Numbers(down') = Cat(Numbers(down), x)
  <2>1. Wire(x) \in Seq(Items)
    <3>1. Units \subseteq Items
      BY DEF Items
    <3> QED
      BY <1>9, <3>1, SeqMonotonic
  <2>2. down \in Seq(Items)
    BY <1>2, StreamTypes
  <2>3. Numbers(down \o Wire(x)) = Numbers(down) \o Numbers(Wire(x))
    BY <2>1, <2>2, NumbersConcat
  <2> QED
    BY <1>7, <1>8, <2>3, NumbersWire DEF Cat
<1>12. StepInv'
  <2>1. rx' \o down' = (rx \o down) \o Wire(x) /\ rx \o down \in Seq(Units)
    <3>1. rx' = rx
      BY <1>1
    <3> QED
      BY <1>8, <1>9, <1>10, <3>1, ConcatAssoc, ConcatFacts, SMTT(30)
  <2>2. ASSUME NEW body \in BOOLEAN, Aligned(rx \o down, body)
        PROVE  Aligned(rx' \o down', body)
    BY <1>9, <2>1, <2>2, AlignedConcat
  <2>3. (block # 0) \in BOOLEAN /\ FALSE \in BOOLEAN
    OBVIOUS
  <2>4. synced' = synced /\ block' = block
    BY <1>1
  <2> QED
    BY <2>2, <2>3, <2>4 DEF OInv, StepInv
<1>13. ASSUME linked' /\ synced' PROVE FitsNow'
  <2>1. FitsNow
    BY <1>1, <1>13 DEF OInv, OrderInv
  <2> DEFINE lit == mode = "lossless"
  <2>3. Fits(inFlight, up, Numbers(rx), Numbers(down), got, queue, Cat(o, m), base, serial, lit)
    BY <1>6, <2>1 DEF FitsNow
  <2> HIDE DEF lit
  <2>5. Fits(Cat(inFlight, x), up, Numbers(rx), Cat(Numbers(down), x), got, y, m, base, serial, lit)
    <3>1. /\ inFlight \in Seq(Serials) /\ up \in Seq(Serials) /\ Numbers(rx) \in Seq(Serials)
          /\ Numbers(down) \in Seq(Serials) /\ got \in Seq(Serials) /\ queue \in Seq(Serials)
      BY <1>2, StreamTypes
    <3> QED
      BY <1>2, <1>3, <1>5, <1>7, <2>3, <3>1, FitsSend
  <2>6. CASE queue' = y
    BY <1>1, <1>6, <1>8, <1>11, <2>5, <2>6 DEF FitsNow, lit
  <2>7. CASE queue' # y
    <3>1. queue' = Tail(y) /\ Len(y) > MaxQueue /\ ~lossless
      BY <1>1, <2>7 DEF AfterDrop, DropOldest
    <3>2. ~lit /\ Len(y) >= 2
      <4>1. mode # "lossless" /\ Len(y) \in Nat
        BY <1>7, <3>1 DEF OInv, SInv, ModeInv
      <4> QED
        BY <3>1, <4>1, ServerAssumption DEF lit
    <3>3. Fits(Cat(inFlight, x), up, Numbers(rx), Cat(Numbers(down), x), got, y, m, base, serial, FALSE)
      BY <2>5, <3>2, GoodWeaken DEF Fits
    <3>4. Cat(inFlight, x) \in Seq(Serials) /\ Cat(Numbers(down), x) \in Seq(Serials)
      BY <1>2, <1>7, StreamTypes, CatFacts
    <3>5. Fits(Cat(inFlight, x), up, Numbers(rx), Cat(Numbers(down), x), got, Tail(y), m, base, serial, FALSE)
      BY <1>2, <1>3, <1>7, <3>2, <3>3, <3>4, StreamTypes, FitsDrop
    <3>6. Fits(Cat(inFlight, x), up, Numbers(rx), Cat(Numbers(down), x), got, Tail(y), m, base, serial, lit)
      BY <3>2, <3>5, GoodWeaken DEF Fits
    <3> QED
      BY <1>1, <1>6, <1>8, <1>11, <3>1, <3>6 DEF FitsNow, lit
  <2> QED
    BY <2>6, <2>7
<1>14. (base <= serial)'
  BY <1>1 DEF OInv
<1> QED
  BY <1>12, <1>13, <1>14 DEF OInv, OrderInv

LEMMA OrderAck ==
    ASSUME OInv, SInv', AckFrame
    PROVE  OInv'
<1>1. /\ UNCHANGED <<serial, linked, mail, queue, down, rx, block, synced, got, base, mode>>
      /\ up # <<>> /\ up' = Tail(up)
      /\ inFlight # <<>> => inFlight' = Acked(Head(up))
  BY DEF AckFrame, serverVars, clientVars, historyVars
<1>2. ServerTypeOK /\ serial \in Serials /\ base \in Serials
  BY DEF OInv, SInv, ServerTypeOK
<1>3. StepInv'
  BY <1>1 DEF OInv, StepInv, Aligned
<1>4. ASSUME linked' /\ synced' PROVE FitsNow'
  <2>1. FitsNow
    BY <1>1, <1>4 DEF OInv, OrderInv
  <2>2. /\ inFlight # <<>> /\ Head(inFlight) = Head(up)
        /\ Fits(Tail(inFlight), Tail(up), Numbers(rx), Numbers(down), got, queue, Numbers(mail),
                base, serial, mode = "lossless")
    BY <1>1, <1>2, <2>1, StreamTypes, FitsAck DEF FitsNow
  <2>3. inFlight' = Tail(inFlight)
    BY <1>1, <2>2 DEF Acked
  <2> QED
    BY <1>1, <2>2, <2>3 DEF FitsNow
<1>5. (base <= serial)'
  BY <1>1 DEF OInv
<1> QED
  BY <1>3, <1>4, <1>5 DEF OInv, OrderInv

(* The empty stream is aligned. *)
LEMMA AlignedEmpty == Aligned(<<>>, FALSE)
<1>1. Len(<<>>) - 1 = -1
  OBVIOUS
<1> QED
  BY <1>1 DEF Aligned

LEMMA OrderConnection ==
    ASSUME OInv, SInv', Connect \/ Cut
    PROVE  OInv'
<1>1. ServerTypeOK /\ serial \in Serials /\ Serials \subseteq Nat
  BY ServerAssumption DEF OInv, SInv, ServerTypeOK, Serials
<1>2. CASE Connect
  <2>1. /\ ~linked /\ got' = <<>> /\ base' = serial
        /\ UNCHANGED <<serial, mail, queue, inFlight, up, down, rx, block, synced>>
    BY <1>2 DEF Connect, serverVars, netVars, clientVars
  <2>2. mail = <<>> /\ queue = <<>> /\ inFlight = <<>> /\ down = <<>> /\ up = <<>> /\ rx = <<>>
    BY <2>1 DEF OInv, SInv, ClosedInv
  <2>3. StepInv'
    BY <2>1 DEF OInv, StepInv, Aligned
  <2>4. FitsNow'
    BY <1>1, <2>1, <2>2, NumbersEmpty, FitsEmpty DEF FitsNow
  <2>5. (base <= serial)'
    BY <1>1, <2>1
  <2> QED
    BY <2>3, <2>4, <2>5 DEF OInv, OrderInv
<1>3. CASE Cut
  <2>1. /\ ~linked' /\ rx' = <<>> /\ down' = <<>> /\ UNCHANGED <<serial, base>>
    BY <1>3 DEF Cut, serverVars
  <2>2. rx' \o down' = <<>>
    BY <2>1
  <2>3. Aligned(rx' \o down', FALSE)
    BY <2>2, AlignedEmpty
  <2>4. StepInv'
    BY <2>3 DEF StepInv
  <2> QED
    BY <2>1, <2>4 DEF OInv, OrderInv
<1> QED
  BY <1>2, <1>3

(* The client's steps.  A synchronised client that knows the size of a message  *)
(* and finds a body has read everything before it.                              *)
LEMMA OrderClient ==
    ASSUME OInv, SInv', Deliver \/ ClientReads \/ ClientProduce
    PROVE  OInv'
<1>1. UNCHANGED <<serial, linked, mail, queue, inFlight, base, mode>>
  BY DEF Deliver, ClientReads, ReadSize, ReadFrame, ReadGarbage, SkipGarbage, ClientProduce,
         serverVars, threadVars, historyVars
<1>2. /\ ServerTypeOK /\ serial \in Serials /\ base \in Serials /\ Serials \subseteq Nat \ {0}
      /\ rx \in Seq(Units) /\ down \in Seq(Units)
  BY ServerAssumption DEF OInv, SInv, ServerTypeOK, Serials
<1>3. /\ inFlight \in Seq(Serials) /\ up \in Seq(Serials) /\ got \in Seq(Serials)
      /\ queue \in Seq(Serials) /\ Numbers(rx) \in Seq(Serials)
      /\ Numbers(down) \in Seq(Serials) /\ Numbers(mail) \in Seq(Serials)
      /\ rx \in Seq(Items) /\ down \in Seq(Items)
  BY <1>2, StreamTypes
<1>4. SUFFICES ASSUME synced' PROVE StepInv' /\ (linked => FitsNow')
  BY <1>1 DEF OInv, OrderInv, StepInv
<1>5. synced /\ (linked => FitsNow)
  BY <1>4 DEF OInv, OrderInv, Deliver, ClientReads, ReadSize, ReadFrame, ReadGarbage, SkipGarbage,
              ClientProduce, threadVars
<1>6. CASE Deliver
  <2>1. /\ down # <<>> /\ rx' = Append(rx, Head(down)) /\ down' = Tail(down)
        /\ UNCHANGED <<up, block, got>>
    BY <1>6 DEF Deliver, historyVars
  <2>2. rx' \o down' = rx \o down
    BY <1>2, <2>1, DeliverSame
  <2>3. StepInv'
    BY <1>5, <2>1, <2>2 DEF OInv, StepInv
  <2>4. /\ Numbers(rx') \in Seq(Serials) /\ Numbers(down') \in Seq(Serials)
        /\ Cat(Numbers(rx'), Numbers(down')) = Cat(Numbers(rx), Numbers(down))
    <3>1. Head(down) \in Items /\ Tail(down) \in Seq(Items)
      BY <1>3, <2>1, HeadTail
    <3>2. rx' \in Seq(Items) /\ down' \in Seq(Items)
      BY <1>3, <2>1, <3>1
    <3>3. /\ Numbers(rx' \o down') = Numbers(rx') \o Numbers(down')
          /\ Numbers(rx \o down) = Numbers(rx) \o Numbers(down)
      BY <1>3, <3>2, NumbersConcat
    <3>4. Numbers(rx') \in Seq(Serials) /\ Numbers(down') \in Seq(Serials)
      BY <3>2, NumbersType
    <3> QED
      BY <2>2, <3>3, <3>4 DEF Cat
  <2>5. linked => FitsNow'
    <3>1. SUFFICES ASSUME linked PROVE FitsNow'
      OBVIOUS
    <3>2. Fits(inFlight, up, Numbers(rx'), Numbers(down'), got, queue, Numbers(mail), base, serial,
               mode = "lossless")
      <4> DEFINE a == Numbers(rx)
                 b == Numbers(down)
                 c == Numbers(rx')
                 d == Numbers(down')
                 m == Numbers(mail)
                 lit == mode = "lossless"
      <4>1. /\ a \in Seq(Serials) /\ b \in Seq(Serials) /\ c \in Seq(Serials) /\ d \in Seq(Serials)
            /\ m \in Seq(Serials) /\ Cat(a, b) = Cat(c, d)
            /\ Fits(inFlight, up, a, b, got, queue, m, base, serial, lit)
        BY <1>3, <1>5, <2>4, <3>1 DEF FitsNow
      <4> HIDE DEF a, b, c, d, m, lit
      <4>2. Fits(inFlight, up, c, d, got, queue, m, base, serial, lit)
        BY <1>2, <1>3, <4>1, FitsDeliver
      <4> QED
        BY <4>2 DEF c, d, m, lit
    <3> QED
      BY <1>1, <2>1, <3>2 DEF FitsNow
  <2> QED
    BY <2>3, <2>5
<1>7. CASE ReadSize \/ ReadFrame
  <2> DEFINE w == Head(rx)
  <2>1. /\ rx # <<>> /\ rx' = Tail(rx) /\ UNCHANGED down
        /\ ReadSize => block = 0 /\ block' = w[2] /\ UNCHANGED <<up, got>>
        /\ ReadFrame => block # 0 /\ block' = 0 /\ IsFrame(w)
                        /\ up' = Append(up, w[2]) /\ got' = Append(got, w[2])
    BY <1>7 DEF ReadSize, ReadFrame, netVars, historyVars
  <2>2. w \in Units /\ w[2] \in Serials /\ rx' \in Seq(Items)
    <3>1. w \in Units
      BY <1>2, <2>1, HeadTail
    <3>2. w[2] \in Serials
      BY <3>1 DEF Units
    <3> QED
      BY <1>3, <2>1, <3>1, <3>2, HeadTail
  <2>3. /\ rx' \o down' = Tail(rx \o down) /\ rx \o down # <<>> /\ (rx \o down)[1] = w
        /\ rx \o down \in Seq(Units)
    BY <1>2, <2>1, TailConcat, ConcatFacts
  <2>4. /\ ReadSize => Aligned(rx \o down, FALSE) /\ ~IsFrame(w)
        /\ ReadFrame => Aligned(rx \o down, TRUE)
    BY <1>5, <2>1, <2>3 DEF OInv, StepInv, Aligned
  <2>5. /\ ReadSize => Aligned(rx' \o down', TRUE)
        /\ ReadFrame => Aligned(rx' \o down', FALSE)
    BY <2>3, <2>4, AlignedTail
  <2>6. StepInv'
    BY <1>2, <1>7, <2>1, <2>2, <2>5 DEF StepInv
  <2>7. Numbers(rx') \in Seq(Serials)
    BY <2>2, NumbersType
  <2>8. ASSUME linked PROVE FitsNow'
    <3>1. Numbers(rx) = IF IsFrame(w) THEN <<w[2]>> \o Numbers(rx') ELSE Numbers(rx')
      BY <1>3, <2>1, NumbersTail
    <3>2. CASE ReadSize
      BY <1>1, <1>5, <2>1, <2>4, <2>8, <3>1, <3>2 DEF FitsNow
    <3>3. CASE ReadFrame
      <4>1. Fits(inFlight, up, Cat(<<w[2]>>, Numbers(rx')), Numbers(down), got, queue, Numbers(mail),
                 base, serial, mode = "lossless")
        BY <1>5, <2>1, <2>8, <3>1, <3>3 DEF FitsNow, Cat
      <4>2. Fits(inFlight, Cat(up, <<w[2]>>), Numbers(rx'), Numbers(down), Cat(got, <<w[2]>>), queue,
                 Numbers(mail), base, serial, mode = "lossless")
        BY <1>2, <1>3, <2>2, <2>7, <4>1, FitsRead
      <4>3. up' = Cat(up, <<w[2]>>) /\ got' = Cat(got, <<w[2]>>)
        BY <1>3, <2>1, <2>2, <3>3, AppendIsConcat DEF Cat
      <4> QED
        BY <1>1, <2>1, <4>2, <4>3 DEF FitsNow
    <3> QED
      BY <1>7, <3>2, <3>3
  <2> QED
    BY <2>6, <2>8
<1>8. CASE ~Deliver /\ ~ReadSize /\ ~ReadFrame
  <2>1. UNCHANGED <<up, down, rx, block, got>>
    BY <1>4, <1>5, <1>8 DEF ClientReads, ReadGarbage, SkipGarbage, ClientProduce, netVars, historyVars
  <2> QED
    BY <1>1, <1>5, <2>1 DEF OInv, StepInv, FitsNow, Aligned
<1> QED
  BY <1>6, <1>7, <1>8

LEMMA OrderStepInv == OInv /\ [ServerNext]_svars => OInv'
<1> SUFFICES ASSUME OInv, [ServerNext]_svars PROVE OInv'
  OBVIOUS
<1>1. SInv'
  BY ServerStepInv DEF OInv
<1>2. CASE UNCHANGED svars
  BY <1>1, <1>2 DEF OInv, StepInv, OrderInv, FitsNow, Aligned, svars, serverVars, threadVars, netVars,
                    clientVars, historyVars
<1>3. CASE ServerNext
  BY <1>1, <1>3, OrderPipeline, OrderThread, OrderAck, OrderConnection, OrderClient DEF ServerNext
<1> QED
  BY <1>2, <1>3

(* However frames are dropped, delayed and acknowledged and however the modes    *)
(* are switched (ServerConnection::queueFrame, sendData, ackFrame;              *)
(* TCPClientProducer::readData), the stream of a connection is in order, ends    *)
(* with the newest frame and, always lossless, is complete; and the frames in    *)
(* flight are the ones whose acknowledgements will come, in that order.          *)
THEOREM StreamAlwaysInOrder == ServerSpec => []StreamOrder
<1>1. ServerSpec => []OInv
  BY OrderInitInv, OrderStepInv, PTL DEF ServerSpec
<1>2. OInv => StreamOrder
  BY DEF OInv, OrderInv, StreamOrder, Stream, FitsNow, Fits, Good, Cat
<1> QED
  BY <1>1, <1>2, PTL
=============================================================================
