---------------------------- MODULE PluginProofs ----------------------------
(* Proofs about the elements of the plugins and about the viewer.             *)
(* Camera: the camera thread never outlives the capture device, and a         *)
(* dispatched produce() finds a frame.  Kinect: no thread is left when the    *)
(* instances are destroyed, and no frame is produced twice.  Viewer: frames   *)
(* are shown in order and one at a time, however long the queue, whatever is  *)
(* dropped or hidden.  Filters: whatever their setters are called with, the   *)
(* runs of an element are legal and its memory belongs to its session.        *)
EXTENDS Camera, Kinect, Viewer, Filters, SequenceTheorems, FiniteSetTheorems, TLAPS

-----------------------------------------------------------------------------
(* The camera. *)

(* When the thread can be alive: never while the main thread frees the device, *)
(* nor, between two calls, when the camera is not running or paused.  These    *)
(* facts make DeviceHeld inductive: release() frees the device after a join,   *)
(* or without one in the states that exclude a thread.                         *)
ThreadInv ==
    /\ Alive => device
    /\ main = "free" => ~Alive
    /\ main # "idle" => state = "UNINITIALIZED"
    /\ main = "idle" /\ phase = "undefined" => state = "UNINITIALIZED"
    /\ main = "idle" /\ state = "UNINITIALIZED" => ~Alive
    /\ state = "INITIALIZED" => device /\ ~Alive

(* A frame that is about to be posted has a number. *)
NumberInv == thread = "emit" => imgCount >= 1

IInv == TypeOK /\ ThreadInv /\ NumberInv /\ FrameForRun

-----------------------------------------------------------------------------
(* newFrame() keeps a buffer of frame numbers within its bound, and never      *)
(* leaves it empty.                                                            *)
LEMMA AddedBuffer ==
    ASSUME NEW S, NEW b \in Seq(S), NEW x \in S, Len(b) <= MaxBuffer
    PROVE  /\ Added(Append(b, x)) \in Seq(S)
           /\ Len(Added(Append(b, x))) <= MaxBuffer
           /\ Added(Append(b, x)) # <<>>
<1> DEFINE c == Append(b, x)
<1>1. c \in Seq(S) /\ Len(c) = Len(b) + 1 /\ Len(b) \in Nat
  OBVIOUS
<1>2. c # <<>>
  BY <1>1
<1>3. Tail(c) \in Seq(S) /\ Len(Tail(c)) = Len(b)
  BY <1>1, <1>2
<1>4. CASE Len(c) > MaxBuffer
  <2>1. Added(c) = Tail(c)
    BY <1>4 DEF Added, Trimmed
  <2>2. Len(b) # 0
    BY <1>1, <1>4, CameraAssumption
  <2> HIDE DEF c
  <2>3. Tail(c) # <<>>
    BY <1>3, <2>2
  <2> QED
    BY <1>3, <2>1, <2>3 DEF c
<1>5. CASE ~(Len(c) > MaxBuffer)
  <2>1. Added(c) = c
    BY <1>5 DEF Added
  <2> HIDE DEF c
  <2> QED
    BY <1>1, <1>2, <1>5, <2>1, CameraAssumption DEF c
<1> QED
  BY <1>4, <1>5

LEMMA InitInv == Init => IInv
<1> SUFFICES ASSUME Init PROVE IInv
  OBVIOUS
<1>1. /\ buffer \in Seq(1 .. MaxFrames) /\ Len(buffer) <= MaxBuffer
      /\ posted \in Seq(1 .. MaxFrames)
  BY CameraAssumption DEF Init
<1>2. TypeOK
  <2>1. device \in BOOLEAN /\ ready \in BOOLEAN
    BY Zenon DEF Init
  <2>2. {imgCount, produced} \subseteq 0 .. MaxFrames /\ sessions \in 0 .. MaxSessions
    BY CameraAssumption, SMT DEF Init
  <2>3. /\ state \in CameraStates /\ thread \in Places
        /\ mutex \in {"free", "main", "camera"}
        /\ phase \in {"undefined", "initialized", "started", "stopped"}
        /\ main \in {"idle", "relock", "join", "free"}
    BY DEF Init, CameraStates, Places
  <2> QED
    BY <1>1, <2>1, <2>2, <2>3 DEF TypeOK
<1>3. ThreadInv /\ NumberInv
  BY DEF Init, ThreadInv, NumberInv, Alive
<1>4. FrameForRun
  BY Zenon DEF Init, FrameForRun
<1> QED
  BY <1>2, <1>3, <1>4 DEF IInv

(* The steps that leave the frames alone: the calls of the pipeline and the    *)
(* parts of run() around the mutex.                                            *)
LEMMA DeviceSteps ==
    ASSUME IInv, UNCHANGED frameVars,
           \/ \E ok \in BOOLEAN : InitDevice(ok)
           \/ Start \/ Pause \/ Release \/ MainThread
           \/ Loop \/ GrabFails \/ Test \/ Wait \/ WakeUp \/ Unlock
    PROVE  IInv'
<1> USE CameraAssumption DEF IInv, TypeOK, ThreadInv, NumberInv, FrameForRun, Alive,
        CameraStates, Places, frameVars, deviceVars
<1>1. CASE \E ok \in BOOLEAN : InitDevice(ok)
  BY <1>1 DEF InitDevice
<1>2. CASE Start
  BY <1>2 DEF Start
<1>3. CASE Pause
  BY <1>3 DEF Pause
<1>4. CASE Release
  BY <1>4 DEF Release, NextStep, Wake
<1>5. CASE MainThread
  BY <1>5 DEF MainThread, Relock, Join, Joined, ReleaseCapture
<1>6. CASE Loop \/ GrabFails \/ Test \/ Wait \/ WakeUp \/ Unlock
  BY <1>6 DEF Loop, GrabFails, Test, Wait, WakeUp, Unlock, Goes
<1> QED
  BY <1>1, <1>2, <1>3, <1>4, <1>5, <1>6

(* The steps that move a frame: grab, emit, newFrame, readyToProduce, produce.  *)
LEMMA FrameSteps ==
    ASSUME IInv,
           Grab \/ EmitNewFrame \/ NewFrame \/ ReadyToProduce \/ Produce
    PROVE  IInv'
<1> USE CameraAssumption DEF IInv, TypeOK, ThreadInv, NumberInv, FrameForRun, Alive,
        CameraStates, Places, deviceVars
<1>1. CASE Grab
  BY <1>1 DEF Grab, Goes
<1>2. CASE EmitNewFrame
  <2>1. posted' \in Seq(1 .. MaxFrames)
    BY <1>2 DEF EmitNewFrame, Goes
  <2> QED
    BY <1>2, <2>1 DEF EmitNewFrame, Goes
<1>3. CASE NewFrame
  <2>1. Head(posted) \in 1 .. MaxFrames /\ posted' \in Seq(1 .. MaxFrames)
    BY <1>3 DEF NewFrame
  <2>2. /\ buffer' \in Seq(1 .. MaxFrames) /\ Len(buffer') <= MaxBuffer
        /\ buffer' # <<>>
    BY <1>3, <2>1, AddedBuffer DEF NewFrame
  <2> QED
    BY <1>3, <2>1, <2>2 DEF NewFrame
<1>4. CASE ReadyToProduce
  BY <1>4 DEF ReadyToProduce
<1>5. CASE Produce
  <2>1. /\ buffer' \in Seq(1 .. MaxFrames) /\ Len(buffer') <= MaxBuffer
        /\ produced' \in 0 .. MaxFrames
    BY <1>5 DEF Produce, Taken
  <2>2. TypeOK' /\ ThreadInv' /\ NumberInv'
    BY <1>5, <2>1, ZenonT(30) DEF Produce
  <2>3. FrameForRun'
    BY <1>5, Zenon DEF Produce
  <2> QED
    BY <2>2, <2>3
<1> QED
  BY <1>1, <1>2, <1>3, <1>4, <1>5

LEMMA StepInv == IInv /\ [Next]_vars => IInv'
<1> SUFFICES ASSUME IInv, [Next]_vars PROVE IInv'
  OBVIOUS
<1>1. CASE UNCHANGED vars
  BY <1>1 DEF vars, deviceVars, frameVars, IInv, TypeOK, ThreadInv, NumberInv, FrameForRun, Alive
<1>2. CASE \/ \E ok \in BOOLEAN : InitDevice(ok)
           \/ Start \/ Pause \/ Release \/ MainThread
           \/ Loop \/ GrabFails \/ Test \/ Wait \/ WakeUp \/ Unlock
  <2>1. UNCHANGED frameVars
    BY <1>2 DEF InitDevice, Start, Pause, Release, MainThread, Relock, Join, ReleaseCapture,
                Loop, GrabFails, Test, Wait, WakeUp, Unlock
  <2> QED
    BY <1>2, <2>1, DeviceSteps
<1>3. CASE Grab \/ EmitNewFrame \/ NewFrame \/ ReadyToProduce \/ Produce
  BY <1>3, FrameSteps
<1> QED
  BY <1>1, <1>2, <1>3 DEF Next, CameraThread

-----------------------------------------------------------------------------
(* The inductive invariant holds in every state of the camera. *)
THEOREM CameraInvariant == Spec => []IInv
  BY InitInv, StepInv, PTL DEF Spec

(* Types: among them, m_frames never exceeds m_maxBufferSize                   *)
(* (CameraProducer::newFrame), whatever the bounds.                            *)
THEOREM CameraTypes == Spec => []TypeOK
<1>1. IInv => TypeOK
  BY DEF IInv
<1> QED
  BY <1>1, CameraInvariant, PTL

(* The camera thread never runs without its capture device: releaseCapture()   *)
(* comes after the thread has ended, whatever the camera was doing when it was *)
(* stopped or released.                                                        *)
THEOREM DeviceAlwaysHeld == Spec => []DeviceHeld
<1>1. IInv => DeviceHeld
  BY DEF IInv, ThreadInv, DeviceHeld
<1> QED
  BY <1>1, CameraInvariant, PTL

-----------------------------------------------------------------------------
(* The order of the frames.  What makes it inductive is that no frame has a    *)
(* number yet to be given: a frame that has been grabbed and not posted has a  *)
(* greater number than all others.                                             *)
LastPosted == IF thread = "emit" THEN imgCount - 1 ELSE imgCount
UpTo(s, k) == \A i \in DOMAIN s : s[i] <= k
OrderInv ==
    /\ FrameOrder
    /\ UpTo(buffer, LastPosted) /\ UpTo(posted, LastPosted) /\ produced <= LastPosted

(* What is true of a queue is true of it without its first frame. *)
LEMMA TailOrder ==
    ASSUME NEW s \in Seq(Nat), s # <<>>
    PROVE  /\ Tail(s) \in Seq(Nat) /\ Head(s) \in Nat
           /\ \A k \in Int : UpTo(s, k) => UpTo(Tail(s), k) /\ Head(s) <= k
           /\ \A k \in Int : After(k, s) => After(k, Tail(s)) /\ k < Head(s)
           /\ Rising(s) => Rising(Tail(s)) /\ After(Head(s), Tail(s))
           /\ \A t : Older(s, t) => Older(Tail(s), t) /\ After(Head(s), t)
           /\ \A t \in Seq(Nat) : Older(t, s) => Older(t, Tail(s)) /\ UpTo(t, Head(s) - 1)
<1>1. Tail(s) \in Seq(Nat) /\ Head(s) = s[1] /\ Head(s) \in Nat /\ Len(s) \in Nat
  OBVIOUS
<1>2. /\ DOMAIN s = 1 .. Len(s) /\ 1 \in DOMAIN s
      /\ DOMAIN Tail(s) = 1 .. Len(s) - 1
      /\ \A i \in DOMAIN s : s[i] \in Nat
  OBVIOUS
<1>3. \A i \in DOMAIN Tail(s) : Tail(s)[i] = s[i + 1] /\ i + 1 \in DOMAIN s /\ i \in Nat /\ 1 < i + 1
  BY <1>1, <1>2
<1>4. \A k \in Int : UpTo(s, k) => UpTo(Tail(s), k) /\ Head(s) <= k
  BY <1>1, <1>2, <1>3 DEF UpTo
<1>5. \A k \in Int : After(k, s) => After(k, Tail(s)) /\ k < Head(s)
  BY <1>1, <1>2, <1>3 DEF After
<1>6. Rising(s) => Rising(Tail(s)) /\ After(Head(s), Tail(s))
  <2> SUFFICES ASSUME Rising(s) PROVE Rising(Tail(s)) /\ After(Head(s), Tail(s))
    OBVIOUS
  <2>1. ASSUME NEW i \in DOMAIN Tail(s), NEW j \in DOMAIN Tail(s), i < j PROVE Tail(s)[i] < Tail(s)[j]
    <3>1. i + 1 \in DOMAIN s /\ j + 1 \in DOMAIN s /\ i + 1 < j + 1
      BY <1>3, <2>1
    <3>2. s[i + 1] < s[j + 1]
      BY <3>1 DEF Rising
    <3> QED
      BY <1>3, <3>2
  <2>2. ASSUME NEW i \in DOMAIN Tail(s) PROVE Head(s) < Tail(s)[i]
    <3>1. i + 1 \in DOMAIN s /\ 1 \in DOMAIN s /\ 1 < i + 1
      BY <1>2, <1>3
    <3>2. s[1] < s[i + 1]
      BY <3>1 DEF Rising
    <3> QED
      BY <1>1, <1>3, <3>2
  <2> QED
    BY <2>1, <2>2 DEF Rising, After
<1>7. \A t : Older(s, t) => Older(Tail(s), t) /\ After(Head(s), t)
  BY <1>1, <1>2, <1>3 DEF Older, After
<1>8. \A t \in Seq(Nat) : Older(t, s) => Older(t, Tail(s)) /\ UpTo(t, Head(s) - 1)
  <2> SUFFICES ASSUME NEW t \in Seq(Nat), Older(t, s)
               PROVE  Older(t, Tail(s)) /\ UpTo(t, Head(s) - 1)
    OBVIOUS
  <2>1. \A i \in DOMAIN t : t[i] \in Nat
    OBVIOUS
  <2>2. Older(t, Tail(s))
    BY <1>3 DEF Older
  <2>3. UpTo(t, Head(s) - 1)
    <3>1. \A i \in DOMAIN t : t[i] < Head(s)
      BY <1>1, <1>2 DEF Older
    <3> DEFINE h == Head(s)
    <3> HIDE DEF h
    <3>2. h \in Nat /\ \A i \in DOMAIN t : t[i] < h /\ t[i] \in Nat
      BY <1>1, <2>1, <3>1 DEF h
    <3>3. \A i \in DOMAIN t : t[i] <= h - 1
      BY <3>2
    <3> QED
      BY <3>3 DEF UpTo, h
  <2> QED
    BY <2>2, <2>3
<1> QED
  BY <1>1, <1>4, <1>5, <1>6, <1>7, <1>8
LEMMA AppendOrder ==
    ASSUME NEW s \in Seq(Nat), NEW x \in Nat
    PROVE  /\ Append(s, x) \in Seq(Nat) /\ Append(s, x) # <<>>
           /\ \A k \in Int : UpTo(s, k) /\ x <= k => UpTo(Append(s, x), k)
           /\ \A k \in Int : After(k, s) /\ k < x => After(k, Append(s, x))
           /\ Rising(s) /\ UpTo(s, x - 1) => Rising(Append(s, x))
           /\ \A t : Older(s, t) /\ After(x, t) => Older(Append(s, x), t)
           /\ \A t \in Seq(Nat) : Older(t, s) /\ UpTo(t, x - 1) => Older(t, Append(s, x))
<1> DEFINE a == Append(s, x)
<1>1. /\ a \in Seq(Nat) /\ Len(a) = Len(s) + 1 /\ Len(s) \in Nat
      /\ DOMAIN s = 1 .. Len(s) /\ DOMAIN a = 1 .. Len(s) + 1
      /\ \A i \in DOMAIN s : s[i] \in Nat
  OBVIOUS
<1>2. a # <<>>
  BY <1>1
<1>3. \A i \in DOMAIN a : \/ i \in DOMAIN s /\ a[i] = s[i]
                          \/ i = Len(s) + 1 /\ a[i] = x
  BY <1>1
<1> HIDE DEF a
<1>4. \A k \in Int : UpTo(s, k) /\ x <= k => UpTo(a, k)
  BY <1>3 DEF UpTo
<1>5. \A k \in Int : After(k, s) /\ k < x => After(k, a)
  BY <1>3 DEF After
<1>6. Rising(s) /\ UpTo(s, x - 1) => Rising(a)
  <2> SUFFICES ASSUME Rising(s), UpTo(s, x - 1), NEW i \in DOMAIN a, NEW j \in DOMAIN a, i < j
               PROVE  a[i] < a[j]
    BY DEF Rising
  <2>1. i \in DOMAIN s /\ a[i] = s[i] /\ s[i] \in Nat
    BY <1>1, <1>3
  <2>2. CASE j \in DOMAIN s /\ a[j] = s[j]
    BY <2>1, <2>2 DEF Rising
  <2>3. CASE j = Len(s) + 1 /\ a[j] = x
    <3>1. s[i] <= x - 1
      BY <2>1 DEF UpTo
    <3> QED
      BY <2>1, <2>3, <3>1
  <2> QED
    BY <1>3, <2>2, <2>3
<1>7. \A t : Older(s, t) /\ After(x, t) => Older(a, t)
  BY <1>3 DEF Older, After
<1>8. \A t \in Seq(Nat) : Older(t, s) /\ UpTo(t, x - 1) => Older(t, a)
  <2> SUFFICES ASSUME NEW t \in Seq(Nat), Older(t, s), UpTo(t, x - 1),
                      NEW i \in DOMAIN t, NEW j \in DOMAIN a
               PROVE  t[i] < a[j]
    BY DEF Older
  <2>1. t[i] \in Nat /\ t[i] <= x - 1
    BY DEF UpTo
  <2> QED
    BY <1>3, <2>1 DEF Older
<1> QED
  BY <1>1, <1>2, <1>4, <1>5, <1>6, <1>7, <1>8 DEF a

LEMMA InitOrder == Init => OrderInv
  BY CameraAssumption DEF Init, OrderInv, FrameOrder, UpTo, LastPosted, Rising, Older, After

LEMMA OrderSteps == IInv /\ OrderInv /\ [Next]_vars => OrderInv'
<1> SUFFICES ASSUME IInv, OrderInv, [Next]_vars PROVE OrderInv'
  OBVIOUS
<1>0. /\ buffer \in Seq(Nat) /\ posted \in Seq(Nat)
      /\ imgCount \in Nat /\ produced \in Nat
  BY CameraAssumption DEF IInv, TypeOK
<1>1. CASE UNCHANGED frameVars /\ (thread' = "emit" <=> thread = "emit")
  BY <1>1 DEF frameVars, OrderInv, FrameOrder, UpTo, LastPosted, Rising, Older, After
<1>2. CASE Grab
  BY <1>0, <1>2 DEF Grab, Goes, OrderInv, FrameOrder, UpTo, LastPosted, Rising, Older, After
<1>3. CASE GrabFails
  BY <1>0, <1>3 DEF GrabFails, Goes, frameVars, OrderInv, FrameOrder, UpTo, LastPosted, Rising,
                    Older, After
<1>4. CASE EmitNewFrame
  <2>1. /\ posted' = Append(posted, imgCount) /\ LastPosted = imgCount - 1
        /\ LastPosted' = imgCount /\ UNCHANGED <<buffer, produced>>
    BY <1>4 DEF EmitNewFrame, Goes, LastPosted
  <2>2. UpTo(buffer, imgCount - 1) /\ UpTo(posted, imgCount - 1) /\ produced <= imgCount - 1
    BY <2>1 DEF OrderInv
  <2>3. UpTo(buffer, imgCount) /\ UpTo(posted, imgCount) /\ produced <= imgCount
    BY <1>0, <2>2 DEF UpTo
  <2>4. UpTo(posted', imgCount) /\ After(produced, posted') /\ Rising(posted') /\ Older(buffer, posted')
    BY <1>0, <2>1, <2>2, <2>3, AppendOrder DEF OrderInv, FrameOrder
  <2> QED
    BY <2>1, <2>3, <2>4 DEF OrderInv, FrameOrder, UpTo, Rising, Older, After
<1>5. CASE NewFrame
  <2> DEFINE c == Append(buffer, Head(posted))
             q == Tail(posted)
  <2>1. /\ posted # <<>> /\ posted' = q /\ buffer' = Added(c)
        /\ UNCHANGED produced /\ LastPosted' = LastPosted
    BY <1>5 DEF NewFrame, deviceVars, LastPosted
  <2>2. LastPosted \in Int
    BY <1>0 DEF LastPosted
  <2>3. /\ q \in Seq(Nat) /\ Head(posted) \in Nat
        /\ UpTo(q, LastPosted) /\ Head(posted) <= LastPosted
        /\ After(produced, q) /\ produced < Head(posted)
        /\ Rising(q) /\ After(Head(posted), q)
        /\ Older(buffer, q) /\ UpTo(buffer, Head(posted) - 1)
    <3>1. /\ posted \in Seq(Nat) /\ posted # <<>> /\ buffer \in Seq(Nat) /\ produced \in Int
          /\ UpTo(posted, LastPosted) /\ After(produced, posted) /\ Rising(posted) /\ Older(buffer, posted)
      BY <1>0, <2>1 DEF OrderInv, FrameOrder
    <3> QED
      BY <2>2, <3>1, TailOrder
  <2>4. /\ c \in Seq(Nat) /\ c # <<>>
        /\ UpTo(c, LastPosted) /\ After(produced, c) /\ Rising(c) /\ Older(c, q)
    <3>1. PICK h \in Nat : h = Head(posted)
      BY <2>3
    <3>2. /\ buffer \in Seq(Nat) /\ produced \in Int
          /\ UpTo(buffer, LastPosted) /\ After(produced, buffer) /\ Rising(buffer)
      BY <1>0 DEF OrderInv, FrameOrder
    <3>3. /\ h <= LastPosted /\ produced < h /\ After(h, q) /\ Older(buffer, q) /\ UpTo(buffer, h - 1)
          /\ c = Append(buffer, h)
      BY <2>3, <3>1
    <3> HIDE DEF c, q
    <3> QED
      BY <2>2, <3>2, <3>3, AppendOrder
  <2> HIDE DEF c, q
  <2>5. \/ buffer' = c
        \/ buffer' = Tail(c)
    BY <2>1 DEF Added, Trimmed
  <2>6. UpTo(buffer', LastPosted) /\ After(produced, buffer') /\ Rising(buffer') /\ Older(buffer', q)
    <3>1. CASE buffer' = c
      BY <2>4, <3>1 DEF UpTo, After, Rising, Older
    <3>2. CASE buffer' = Tail(c)
      <4>1. UpTo(Tail(c), LastPosted) /\ After(produced, Tail(c)) /\ Rising(Tail(c)) /\ Older(Tail(c), q)
        BY <1>0, <2>2, <2>4, TailOrder
      <4> QED
        BY <3>2, <4>1 DEF UpTo, After, Rising, Older
    <3> QED
      BY <2>5, <3>1, <3>2
  <2> QED
    BY <2>1, <2>3, <2>6 DEF OrderInv, FrameOrder, UpTo, Rising, Older, After
<1>6. CASE Produce
  <2>1. /\ buffer # <<>> /\ buffer' = Tail(buffer) /\ produced' = Head(buffer)
        /\ UNCHANGED posted /\ LastPosted' = LastPosted /\ LastPosted \in Int
    BY <1>0, <1>6 DEF Produce, Taken, deviceVars, LastPosted
  <2>2. /\ UpTo(buffer', LastPosted) /\ produced' <= LastPosted
        /\ Rising(buffer') /\ After(produced', buffer')
        /\ Older(buffer', posted) /\ After(produced', posted)
    BY <1>0, <2>1, TailOrder DEF OrderInv, FrameOrder
  <2> QED
    BY <2>1, <2>2 DEF OrderInv, FrameOrder, UpTo, Rising, Older, After
<1>7. CASE ReadyToProduce
  BY <1>7 DEF ReadyToProduce, deviceVars, OrderInv, FrameOrder, UpTo, LastPosted, Rising, Older, After
<1>8. CASE \/ \E ok \in BOOLEAN : InitDevice(ok)
           \/ Start \/ Pause \/ Release \/ MainThread
           \/ Loop \/ Test \/ Wait \/ WakeUp \/ Unlock
           \/ UNCHANGED vars
  <2>1. UNCHANGED frameVars /\ (thread' = "emit" <=> thread = "emit")
    <3>1. CASE \E ok \in BOOLEAN : InitDevice(ok)
      BY <3>1 DEF InitDevice
    <3>2. CASE Start
      BY <3>2 DEF Start, Alive
    <3>3. CASE Pause
      BY <3>3 DEF Pause
    <3>4. CASE Release
      BY <3>4 DEF Release, Wake
    <3>5. CASE MainThread
      BY <3>5 DEF MainThread, Relock, Join, ReleaseCapture, deviceVars
    <3>6. CASE Loop \/ Test \/ Wait \/ WakeUp \/ Unlock
      BY <3>6 DEF Loop, Test, Wait, WakeUp, Unlock, Goes
    <3>7. CASE UNCHANGED vars
      BY <3>7 DEF vars, deviceVars
    <3> QED
      BY <1>8, <3>1, <3>2, <3>3, <3>4, <3>5, <3>6, <3>7
  <2> QED
    BY <1>1, <2>1
<1> QED
  BY <1>2, <1>3, <1>4, <1>5, <1>6, <1>7, <1>8 DEF Next, CameraThread

(* produce() always finds a frame, however many newFrame() calls come between  *)
(* readyToProduce() and the run, and takes the frames in the order in which    *)
(* they were grabbed, over every pause and restart.                            *)
THEOREM FramesAlwaysInTurn == Spec => []FramesInTurn
<1>1. IInv /\ OrderInv => FramesInTurn
  BY DEF IInv, OrderInv, FramesInTurn
<1> QED
  BY <1>1, InitOrder, OrderSteps, CameraInvariant, PTL DEF Spec

-----------------------------------------------------------------------------
(* The Kinects, any number of them. *)

KinectTypes ==
    /\ kstate \in [Devices -> {"UNINITIALIZED", "INITIALIZED", "RUNNING", "STOP_REQUESTED"}]
    /\ instance \in [Devices -> {"null", "open", "destroyed"}]
    /\ kthread \in [Devices -> {"none", "starting", "loop"}]
    /\ kphase \in {"undefined", "initialized", "started", "stopped"}
    /\ at \in 0 .. LastDevice + 1
    /\ overtaken \in BOOLEAN

(* The thread of device d and what its m_state may be meanwhile. *)
Resting(d) == kthread[d] = "none" /\ kstate[d] = "INITIALIZED"
Working(d) == \/ kthread[d] = "starting" /\ kstate[d] = "INITIALIZED"
              \/ kthread[d] = "loop" /\ kstate[d] = "RUNNING"
Ending(d) == kthread[d] = "loop" /\ kstate[d] = "STOP_REQUESTED"

(* KinectQuiet is not inductive: a thread is gone when the pipeline is         *)
(* undefined because stop() has passed it, device after device, and because    *)
(* no thread ends or begins outside a session.                                 *)
PhaseInv == ~overtaken =>
    /\ kphase # "stopped" => Idle
    /\ kphase = "undefined" => \A d \in Devices : kthread[d] = "none" /\ instance[d] # "open"
    /\ kphase = "initialized" => \A d \in Devices : Resting(d)
    /\ kphase = "started" => \A d \in Devices : Working(d)
    /\ kphase = "stopped" /\ Idle => \A d \in Devices : kthread[d] = "none"
    /\ kphase = "stopped" /\ ~Idle =>
        \A d \in Devices : IF d < at THEN Resting(d) ELSE Resting(d) \/ Working(d) \/ Ending(d)

KInv == KinectTypes /\ PhaseInv

LEMMA QuietInit == KInit => KInv
  BY KinectAssumption DEF KInit, KInv, KinectTypes, PhaseInv, Idle, Each, Devices

(* What the main thread does. *)
LEMMA MainSteps ==
    ASSUME KInv,
           \/ \E bad \in 0 .. LastDevice + 1, left \in {"null", "open"} : InitDevices(bad, left)
           \/ KStart \/ KStop \/ Deinit \/ RequestStop \/ NextDevice
    PROVE  KInv'
<1> USE KinectAssumption DEF KInv
<1>1. ASSUME NEW bad \in 0 .. LastDevice + 1, NEW left \in {"null", "open"}, InitDevices(bad, left)
      PROVE  KInv'
  <2>1. KinectTypes'
    BY <1>1 DEF InitDevices, KinectTypes, Each, Devices
  <2>2. PhaseInv'
    BY <1>1 DEF InitDevices, KinectTypes, PhaseInv, Idle, Resting, Working, Ending, Each, Devices
  <2> QED
    BY <2>1, <2>2
<1>2. CASE KStart
  BY <1>2 DEF KStart, KinectTypes, PhaseInv, Idle, Resting, Working, Ending, Devices
<1>3. CASE KStop
  BY <1>3 DEF KStop, KinectTypes, PhaseInv, Idle, Resting, Working, Ending, Devices
<1>4. CASE Deinit
  <2>1. KinectTypes'
    BY <1>4 DEF Deinit, KinectTypes, Destroyed, Each, Devices
  <2>2. PhaseInv'
    BY <1>4 DEF Deinit, KinectTypes, PhaseInv, Destroyed, Idle, Resting, Working, Ending, Each, Devices
  <2> QED
    BY <2>1, <2>2
<1>5. CASE RequestStop
  BY <1>5 DEF RequestStop, KinectTypes, PhaseInv, Idle, Resting, Working, Ending, Devices
<1>6. CASE NextDevice
  <2>1. at \in Devices /\ at' = at + 1 /\ kstate[at] = "INITIALIZED" /\ at' \in 0 .. LastDevice + 1
    BY <1>6 DEF NextDevice, StopDone, KinectTypes, Idle, Devices
  <2>2. UNCHANGED <<kstate, instance, kthread, kphase>>
    BY <1>6 DEF NextDevice
  <2>3. overtaken' \in BOOLEAN
    BY <1>6, Zenon DEF NextDevice, KinectTypes
  <2>4. KinectTypes'
    BY <2>1, <2>2, <2>3 DEF KinectTypes
  <2>5. ASSUME ~overtaken' PROVE ~overtaken /\ kthread[at] # "starting"
    BY <1>6, <2>5, Zenon DEF NextDevice
  <2>6. PhaseInv'
    BY <2>1, <2>2, <2>5 DEF KinectTypes, PhaseInv, Idle, Resting, Working, Ending, Devices
  <2> QED
    BY <2>4, <2>6
<1> QED
  BY <1>1, <1>2, <1>3, <1>4, <1>5, <1>6

LEMMA ThreadSteps ==
    ASSUME KInv, NEW d \in Devices, KinectThread(d)
    PROVE  KInv'
<1> USE KinectAssumption DEF KInv
<1>1. CASE RunBegins(d)
  BY <1>1 DEF RunBegins, KinectTypes, PhaseInv, Idle, Resting, Working, Ending, Devices
<1>2. CASE RunEnds(d)
  BY <1>2 DEF RunEnds, StopSeen, KinectTypes, PhaseInv, Idle, Resting, Working, Ending, Devices
<1> QED
  BY <1>1, <1>2 DEF KinectThread

LEMMA QuietStep == KInv /\ [KNext]_kvars => KInv'
<1> SUFFICES ASSUME KInv, [KNext]_kvars PROVE KInv'
  OBVIOUS
<1>1. CASE UNCHANGED <<kstate, instance, kthread, kphase, at, overtaken>>
  BY <1>1 DEF KInv, KinectTypes, PhaseInv, Idle, Resting, Working, Ending
<1>2. CASE UNCHANGED kvars
  BY <1>1, <1>2 DEF kvars
<1>3. CASE \/ \E s \in Streams : GotAlert(s)
           \/ NewKinectFrame \/ KReady \/ KProduce
  BY <1>1, <1>3 DEF GotAlert, NewKinectFrame, KReady, KProduce
<1> QED
  BY <1>2, <1>3, MainSteps, ThreadSteps DEF KNext, KinectMain

(* When the pipeline has called deinit(), which destroys the instances, no      *)
(* KinectDevice::run() is left to use one, however many devices there are,      *)
(* unless stop() came to a device before its run() had begun.                   *)
THEOREM KinectAlwaysQuiet == KSpec => []KinectQuiet
<1>1. KInv => KinectQuiet
  BY DEF KInv, PhaseInv, KinectQuiet
<1> QED
  BY <1>1, QuietInit, QuietStep, PTL DEF KSpec

-----------------------------------------------------------------------------
(* Frames.  Of each stream the frames are numbered: put before latest, latest   *)
(* before those posted, which are in order, and none after the last one made.   *)
FrameTypes ==
    /\ alerts \in [Streams -> Nat] /\ latest \in [Streams -> Nat] /\ put \in [Streams -> Nat]
    /\ kposted \in Seq(Streams \X Nat)
PostedInv == \A i \in 1 .. Len(kposted) :
    LET s == kposted[i][1]
        n == kposted[i][2]
    IN  n >= 1 /\ n <= alerts[s] /\ n > latest[s] /\ n > put[s]
PostedOrder == \A i, j \in 1 .. Len(kposted) :
    i < j /\ kposted[i][1] = kposted[j][1] => kposted[i][2] < kposted[j][2]
LatestInv == \A s \in Streams :
    latest[s] <= alerts[s] /\ put[s] <= alerts[s] /\ (latest[s] # 0 => latest[s] > put[s])
FInv == FrameTypes /\ PostedInv /\ PostedOrder /\ LatestInv /\ (kready => HaveAll)

LEMMA FramesInit == KInit => FInv
<1> SUFFICES ASSUME KInit PROVE FInv
  OBVIOUS
<1>1. kposted = <<>> /\ <<>> \in Seq(Streams \X Nat) /\ Len(<<>>) = 0
  BY DEF KInit
<1>2. FrameTypes
  BY <1>1 DEF KInit, FrameTypes, NoFrames, NoFrame
<1> QED
  BY <1>1, <1>2 DEF KInit, FInv, PostedInv, PostedOrder, LatestInv, NoFrames, NoFrame

LEMMA AlertStep ==
    ASSUME FInv, NEW s \in Streams, GotAlert(s)
    PROVE  FInv'
<1> DEFINE f == <<s, alerts[s] + 1>>
<1>1. /\ alerts' = [alerts EXCEPT ![s] = alerts[s] + 1]
      /\ kposted' = Append(kposted, f)
      /\ UNCHANGED <<latest, put, kready>>
  BY DEF GotAlert
<1>2. /\ kposted \in Seq(Streams \X Nat) /\ f \in Streams \X Nat
      /\ alerts[s] \in Nat /\ latest[s] \in Nat /\ put[s] \in Nat
  BY DEF FInv, FrameTypes
<1>2a. f[1] = s /\ f[2] = alerts[s] + 1
  OBVIOUS
<1>2b. /\ alerts'[s] = alerts[s] + 1 /\ latest[s] <= alerts[s] /\ put[s] <= alerts[s]
      /\ \A t \in Streams : alerts[t] \in Nat /\ alerts'[t] \in Nat /\ alerts'[t] >= alerts[t]
  BY <1>1 DEF FInv, FrameTypes, LatestInv
<1> HIDE DEF f
<1>3. /\ Len(kposted') = Len(kposted) + 1 /\ Len(kposted) \in Nat
      /\ kposted'[Len(kposted) + 1] = f
      /\ \A i \in 1 .. Len(kposted) : kposted'[i] = kposted[i]
      /\ kposted' \in Seq(Streams \X Nat)
  BY <1>1, <1>2
<1>4. FrameTypes'
  BY <1>1, <1>2, <1>3 DEF FInv, FrameTypes
<1>5. \A i \in 1 .. Len(kposted) : /\ kposted[i][1] \in Streams /\ kposted[i][2] \in Nat
                                   /\ kposted[i][2] <= alerts[kposted[i][1]]
  BY <1>2 DEF FInv, PostedInv
<1>6. LatestInv'
  BY <1>1 DEF FInv, FrameTypes, LatestInv
<1>7. PostedInv'
  <2> SUFFICES ASSUME NEW i \in 1 .. Len(kposted')
               PROVE  LET t == kposted'[i][1]
                          n == kposted'[i][2]
                      IN  n >= 1 /\ n <= alerts'[t] /\ n > latest'[t] /\ n > put'[t]
    BY DEF PostedInv
  <2>1. CASE i = Len(kposted) + 1
    BY <1>1, <1>2, <1>2a, <1>2b, <1>3, <2>1
  <2>2. CASE i \in 1 .. Len(kposted)
    <3>1. LET t == kposted[i][1]
              n == kposted[i][2]
          IN  n >= 1 /\ n <= alerts[t] /\ n > latest[t] /\ n > put[t]
      BY <2>2 DEF FInv, PostedInv
    <3>2. kposted'[i] = kposted[i] /\ kposted[i][1] \in Streams /\ kposted[i][2] \in Nat
      BY <1>3, <1>5, <2>2
    <3> QED
      BY <1>1, <1>2b, <3>1, <3>2
  <2> QED
    BY <1>3, <2>1, <2>2
<1>8. PostedOrder'
  <2> SUFFICES ASSUME NEW i \in 1 .. Len(kposted'), NEW j \in 1 .. Len(kposted'),
                      i < j, kposted'[i][1] = kposted'[j][1]
               PROVE  kposted'[i][2] < kposted'[j][2]
    BY DEF PostedOrder
  <2>1. i \in 1 .. Len(kposted)
    BY <1>3
  <2>2. CASE j = Len(kposted) + 1
    <3>1. kposted'[i] = kposted[i] /\ kposted'[j] = f
      BY <1>3, <2>1, <2>2
    <3>2. /\ kposted[i][2] \in Nat /\ kposted[i][2] <= alerts[kposted[i][1]]
          /\ kposted[i][1] = s
      BY <1>2a, <1>5, <2>1, <3>1
    <3>3. kposted[i][2] <= alerts[s]
      BY <3>2
    <3>4. kposted[i][2] < alerts[s] + 1
      BY <1>2, <3>2, <3>3
    <3> QED
      BY <1>2a, <3>1, <3>4
  <2>3. CASE j \in 1 .. Len(kposted)
    BY <1>3, <2>1, <2>3 DEF FInv, PostedOrder
  <2>4. j = Len(kposted) + 1 \/ j \in 1 .. Len(kposted)
    <3>1. Len(kposted') = Len(kposted) + 1 /\ Len(kposted) \in Nat
      BY <1>3
    <3>2. j \in 1 .. Len(kposted) + 1
      BY <3>1
    <3> QED
      BY <3>1, <3>2
  <2> QED
    BY <2>2, <2>3, <2>4
<1> QED
  BY <1>1, <1>4, <1>6, <1>7, <1>8 DEF FInv, HaveAll

LEMMA NewFrameStep == FInv /\ NewKinectFrame => FInv'
<1> SUFFICES ASSUME FInv, NewKinectFrame PROVE FInv'
  OBVIOUS
<1> DEFINE s == kposted[1][1]
           n == kposted[1][2]
<1>1. kposted \in Seq(Streams \X Nat) /\ kposted # <<>>
  BY DEF FInv, FrameTypes, NewKinectFrame
<1>2. /\ Head(kposted) = kposted[1] /\ kposted[1] \in Streams \X Nat /\ Len(kposted) \in Nat \ {0}
      /\ Tail(kposted) \in Seq(Streams \X Nat) /\ Len(Tail(kposted)) = Len(kposted) - 1
      /\ \A i \in 1 .. Len(kposted) - 1 :
            i + 1 \in 1 .. Len(kposted) /\ Tail(kposted)[i] = kposted[i + 1]
  BY <1>1
<1>3. s \in Streams /\ n \in Nat
  BY <1>2
<1>4. /\ latest' = [latest EXCEPT ![s] = n]
      /\ kposted' = Tail(kposted)
      /\ UNCHANGED <<alerts, put, kready>>
  BY <1>2 DEF NewKinectFrame
<1>5. n >= 1 /\ n <= alerts[s] /\ n > latest[s] /\ n > put[s]
  BY <1>2 DEF FInv, PostedInv
<1>6. FrameTypes'
  BY <1>2, <1>3, <1>4 DEF FInv, FrameTypes
<1>7. \A i \in 1 .. Len(kposted') : i + 1 \in 2 .. Len(kposted) /\ kposted'[i] = kposted[i + 1]
  BY <1>2, <1>4
<1>8. PostedInv'
  <2> SUFFICES ASSUME NEW i \in 1 .. Len(kposted')
               PROVE  LET t == kposted'[i][1]
                          m == kposted'[i][2]
                      IN  m >= 1 /\ m <= alerts'[t] /\ m > latest'[t] /\ m > put'[t]
    BY DEF PostedInv
  <2>1. i + 1 \in 1 .. Len(kposted) /\ 1 < i + 1 /\ 1 \in 1 .. Len(kposted)
    BY <1>2, <1>7
  <2>2. kposted[i + 1] \in Streams \X Nat
    BY <1>1, <2>1
  <2>3. kposted[i + 1][1] = s => n < kposted[i + 1][2]
    BY <2>1 DEF FInv, PostedOrder
  <2>4. LET t == kposted[i + 1][1]
            m == kposted[i + 1][2]
        IN  m >= 1 /\ m <= alerts[t] /\ m > latest[t] /\ m > put[t]
    BY <2>1 DEF FInv, PostedInv
  <2> QED
    BY <1>3, <1>4, <1>7, <2>2, <2>3, <2>4 DEF FInv, FrameTypes
<1>9. PostedOrder'
  <2> SUFFICES ASSUME NEW i \in 1 .. Len(kposted'), NEW j \in 1 .. Len(kposted'),
                      i < j, kposted'[i][1] = kposted'[j][1]
               PROVE  kposted'[i][2] < kposted'[j][2]
    BY DEF PostedOrder
  <2>1. /\ i + 1 \in 1 .. Len(kposted) /\ j + 1 \in 1 .. Len(kposted) /\ i + 1 < j + 1
        /\ kposted'[i] = kposted[i + 1] /\ kposted'[j] = kposted[j + 1]
    BY <1>2, <1>7
  <2> QED
    BY <2>1 DEF FInv, PostedOrder
<1>10. LatestInv'
  BY <1>3, <1>4, <1>5 DEF FInv, FrameTypes, LatestInv
<1>11. kready' => HaveAll'
  BY <1>3, <1>4, <1>5 DEF FInv, FrameTypes, HaveAll, NoFrame
<1> QED
  BY <1>6, <1>8, <1>9, <1>10, <1>11 DEF FInv

LEMMA ProduceStep == FInv /\ KProduce => FInv'
<1> SUFFICES ASSUME FInv, KProduce PROVE FInv'
  OBVIOUS
<1>1. /\ put' = latest /\ latest' = [s \in Streams |-> 0] /\ kready' = FALSE
      /\ UNCHANGED <<alerts, kposted>>
  BY DEF KProduce, Forgotten, NoFrames, NoFrame
<1>2. FrameTypes'
  BY <1>1 DEF FInv, FrameTypes
<1>3. LatestInv'
  BY <1>1 DEF FInv, FrameTypes, LatestInv
<1>4. \A i \in 1 .. Len(kposted) : kposted[i] \in Streams \X Nat
  BY DEF FInv, FrameTypes
<1>5. PostedInv'
  BY <1>1, <1>4, SMTT(30) DEF FInv, FrameTypes, PostedInv
<1>6. PostedOrder'
  BY <1>1 DEF FInv, PostedOrder
<1> QED
  BY <1>1, <1>2, <1>3, <1>5, <1>6 DEF FInv

LEMMA FramesStep == FInv /\ [KNext]_kvars => FInv'
<1> SUFFICES ASSUME FInv, [KNext]_kvars PROVE FInv'
  OBVIOUS
<1>1. ASSUME UNCHANGED <<alerts, kposted, latest, put>>, kready' => kready \/ HaveAll PROVE FInv'
  BY <1>1 DEF FInv, FrameTypes, PostedInv, PostedOrder, LatestInv, HaveAll
<1>2. CASE UNCHANGED kvars
  BY <1>1, <1>2 DEF kvars
<1>3. CASE \E bad \in 0 .. LastDevice + 1, left \in {"null", "open"} : InitDevices(bad, left)
  BY <1>1, <1>3 DEF InitDevices
<1>4. CASE KStart \/ KStop \/ Deinit \/ KinectMain
  BY <1>1, <1>4 DEF KStart, KStop, Deinit, KinectMain, RequestStop, NextDevice
<1>5. CASE \E d \in Devices : KinectThread(d)
  BY <1>1, <1>5 DEF KinectThread, RunBegins, RunEnds
<1>6. CASE KReady
  BY <1>1, <1>6 DEF KReady
<1> QED
  BY <1>2, <1>3, <1>4, <1>5, <1>6, AlertStep, NewFrameStep, ProduceStep DEF KNext

(* MSKinectProducer::produce() puts of each device a depth and a video frame    *)
(* that are newer than those it put before, in whatever order the devices'      *)
(* threads post them and however many sessions there are.                       *)
THEOREM FramesAlwaysRenewed == KSpec => FramesRenewed
<1>1. FInv /\ [KNext]_kvars => (put' # put => \A s \in Streams : put'[s] > put[s])
  <2> SUFFICES ASSUME FInv, [KNext]_kvars, put' # put PROVE \A s \in Streams : put'[s] > put[s]
    OBVIOUS
  <2>1. KProduce
    BY DEF KNext, kvars, InitDevices, KStart, KStop, Deinit, KinectMain, RequestStop, NextDevice,
           KinectThread, RunBegins, RunEnds, GotAlert, NewKinectFrame, KReady
  <2> QED
    BY <2>1 DEF KProduce, FInv, HaveAll, LatestInv, NoFrame
<1> QED
  BY <1>1, FramesInit, FramesStep, PTL DEF KSpec, FramesRenewed

-----------------------------------------------------------------------------
(* The image viewer. *)

IsNew(i) == vevents[i].kind = "newData"
IsDone(i) == vevents[i].kind = "converted"

(* No frame has a number the pin has not given yet. *)
Numbered ==
    /\ shown <= frame
    /\ \A i \in 1 .. Len(vevents) : vevents[i].frame <= frame
    /\ \A c \in converting : c.frame <= frame /\ c.kind = "converted"

(* The frames nobody has looked at are in order, and newer than the one that   *)
(* was let past.  ViewerOrder needs it when that one is shown.                 *)
Waiting ==
    /\ \A i, j \in 1 .. Len(vevents) :
            i < j /\ IsNew(i) /\ IsNew(j) => vevents[i].frame < vevents[j].frame
    /\ \A i, j \in 1 .. Len(vevents) :
            IsDone(i) /\ IsNew(j) => vevents[i].frame < vevents[j].frame
    /\ \A c \in converting : \A j \in 1 .. Len(vevents) :
            IsNew(j) => c.frame < vevents[j].frame

VInv == ViewerTypeOK /\ Numbered /\ Waiting /\ ViewerOrder

-----------------------------------------------------------------------------
LEMMA TailFacts ==
    ASSUME NEW S, NEW s \in Seq(S), s # <<>>
    PROVE  /\ Head(s) = s[1] /\ s[1] \in S /\ 1 \in 1 .. Len(s)
           /\ Tail(s) \in Seq(S) /\ Len(Tail(s)) = Len(s) - 1 /\ Len(s) \in Nat
           /\ \A i \in 1 .. Len(s) - 1 : i + 1 \in 1 .. Len(s) /\ Tail(s)[i] = s[i + 1]
  OBVIOUS

LEMMA AppendFacts ==
    ASSUME NEW S, NEW s \in Seq(S), NEW x \in S
    PROVE  /\ Append(s, x) \in Seq(S) /\ Len(Append(s, x)) = Len(s) + 1 /\ Len(s) \in Nat
           /\ \A i \in 1 .. Len(s) : Append(s, x)[i] = s[i]
           /\ Append(s, x)[Len(s) + 1] = x
  OBVIOUS

LEMMA EventFacts ==
    ASSUME NEW s \in Seq(ViewerEvents)
    PROVE  \A i \in 1 .. Len(s) : s[i] \in ViewerEvents /\ s[i].frame \in Nat
<1>1. \A i \in 1 .. Len(s) : s[i] \in ViewerEvents
  OBVIOUS
<1>2. \A e \in ViewerEvents : e.frame \in Nat
  BY DEF ViewerEvents
<1> QED
  BY <1>1, <1>2

LEMMA ViewerInitInv == ViewerInit => VInv
<1> SUFFICES ASSUME ViewerInit PROVE VInv
  OBVIOUS
<1>1. vevents = <<>> /\ Len(vevents) = 0 /\ vevents \in Seq(ViewerEvents)
  BY DEF ViewerInit
<1>2. 1 .. Len(vevents) = {}
  BY <1>1
<1>3. ViewerTypeOK
  <2>1. busy \in BOOLEAN /\ visible \in BOOLEAN
    BY Zenon DEF ViewerInit
  <2> QED
    BY <1>1, <2>1 DEF ViewerInit, ViewerTypeOK
<1>4. Numbered /\ Waiting
  BY <1>2 DEF ViewerInit, Numbered, Waiting
<1>5. ViewerOrder
  BY <1>2 DEF ViewerInit, ViewerOrder, Posted
<1> QED
  BY <1>3, <1>4, <1>5 DEF VInv

(* putVariant(): the newest frame comes last. *)
LEMMA PutStep == ASSUME VInv, PutFrame PROVE VInv'
<1>1. PICK n \in Lengths : vevents' = Append(vevents, Event("newData", frame + 1, n))
  BY DEF PutFrame
<1> DEFINE e == Event("newData", frame + 1, n)
<1>2. /\ vevents \in Seq(ViewerEvents) /\ frame \in Nat
      /\ frame' = frame + 1 /\ UNCHANGED <<busy, visible, converting, shown, widgets>>
  BY DEF PutFrame, VInv, ViewerTypeOK
<1>3. e \in ViewerEvents /\ e.kind = "newData" /\ e.frame = frame + 1
  BY <1>2, ViewerAssumption DEF ViewerEvents, Event
<1> HIDE DEF e
<1>4. /\ vevents' \in Seq(ViewerEvents) /\ Len(vevents') = Len(vevents) + 1 /\ Len(vevents) \in Nat
      /\ \A i \in 1 .. Len(vevents) : vevents'[i] = vevents[i]
      /\ vevents'[Len(vevents) + 1] = e
  BY <1>1, <1>2, <1>3, AppendFacts DEF e
<1>5. \A i \in 1 .. Len(vevents) : vevents[i].frame \in Nat
  BY <1>2, EventFacts
<1>6. \A c \in converting : c.frame \in Nat
  BY DEF VInv, ViewerTypeOK, ViewerEvents
<1>7. \A i \in 1 .. Len(vevents') : i \in 1 .. Len(vevents) \/ i = Len(vevents) + 1
  BY <1>4
<1>8. Posted("converted")' = Posted("converted")
  BY <1>3, <1>4, <1>7 DEF Posted
<1>9. shown \in Nat /\ ViewerTypeOK'
  BY <1>2, <1>4 DEF VInv, ViewerTypeOK
<1>10. Numbered'
  BY <1>2, <1>3, <1>4, <1>5, <1>6, <1>7, <1>9 DEF VInv, Numbered
<1>11. Waiting'
  <2>1. /\ \A i \in 1 .. Len(vevents) : vevents[i].frame < e.frame
        /\ \A c \in converting : c.frame < e.frame
    BY <1>2, <1>3, <1>5, <1>6 DEF VInv, Numbered
  <2>2. \A i, j \in 1 .. Len(vevents') :
            i < j /\ IsNew(i)' /\ IsNew(j)' => vevents'[i].frame < vevents'[j].frame
    BY <1>4, <1>7, <2>1 DEF VInv, Waiting, IsNew
  <2>3. \A i, j \in 1 .. Len(vevents') :
            IsDone(i)' /\ IsNew(j)' => vevents'[i].frame < vevents'[j].frame
    BY <1>3, <1>4, <1>7, <2>1 DEF VInv, Waiting, IsNew, IsDone
  <2>4. \A c \in converting : \A j \in 1 .. Len(vevents') :
            IsNew(j)' => c.frame < vevents'[j].frame
    BY <1>4, <1>7, <2>1 DEF VInv, Waiting, IsNew
  <2> QED
    BY <1>2, <2>2, <2>3, <2>4 DEF Waiting
<1>12. ViewerOrder'
  <2>1. \A i \in 1 .. Len(vevents') : vevents'[i].frame > shown'
    BY <1>2, <1>3, <1>4, <1>7, <1>9 DEF VInv, ViewerOrder, Numbered
  <2> QED
    BY <1>2, <1>8, <2>1 DEF VInv, ViewerOrder
<1> QED
  BY <1>9, <1>10, <1>11, <1>12 DEF VInv

(* Taking the first event leaves the new frames behind it in the order they came in. *)
LEMMA StillInOrder ==
    ASSUME Waiting, Len(vevents) \in Nat, Len(vevents') = Len(vevents) - 1,
           \A i \in 1 .. Len(vevents') : i + 1 \in 1 .. Len(vevents) /\ vevents'[i] = vevents[i + 1]
    PROVE \A i, j \in 1 .. Len(vevents') :
              i < j /\ IsNew(i)' /\ IsNew(j)' => vevents'[i].frame < vevents'[j].frame
<1> SUFFICES ASSUME NEW i \in 1 .. Len(vevents'), NEW j \in 1 .. Len(vevents'), i < j, IsNew(i)', IsNew(j)'
             PROVE vevents'[i].frame < vevents'[j].frame
  OBVIOUS
<1>1. /\ i + 1 \in 1 .. Len(vevents) /\ vevents'[i] = vevents[i + 1]
      /\ j + 1 \in 1 .. Len(vevents) /\ vevents'[j] = vevents[j + 1]
  OBVIOUS
<1>2. i + 1 < j + 1
  OBVIOUS
<1>3. IsNew(i + 1) /\ IsNew(j + 1)
  BY <1>1 DEF IsNew
<1>4. vevents[i + 1].frame < vevents[j + 1].frame
  BY <1>1, <1>2, <1>3 DEF Waiting
<1> QED
  BY <1>1, <1>4

(* newData(): a frame is let past when nothing is under way. *)
LEMMA NewDataStep == ASSUME VInv, NewData PROVE VInv'
<1>1. /\ vevents \in Seq(ViewerEvents) /\ vevents # <<>> /\ vevents' = Tail(vevents)
      /\ UNCHANGED <<frame, visible, shown, widgets>> /\ Head(vevents).kind = "newData"
  BY DEF NewData, Next1, VInv, ViewerTypeOK
<1>2. /\ Head(vevents) = vevents[1] /\ vevents[1] \in ViewerEvents /\ 1 \in 1 .. Len(vevents)
      /\ vevents' \in Seq(ViewerEvents) /\ Len(vevents') = Len(vevents) - 1 /\ Len(vevents) \in Nat
      /\ \A i \in 1 .. Len(vevents') : i + 1 \in 1 .. Len(vevents) /\ vevents'[i] = vevents[i + 1]
  BY <1>1, TailFacts
<1>3. \A i \in 1 .. Len(vevents) : vevents[i].frame \in Nat
  BY <1>1, EventFacts
<1>4. shown \in Nat /\ frame \in Nat
  BY DEF VInv, ViewerTypeOK
<1>5. \A i \in Posted("converted")' : i + 1 \in Posted("converted")
  BY <1>2 DEF Posted
<1>6. \A i \in Posted("converted") : i - 1 \in Posted("converted")'
  <2>1. ASSUME NEW i \in Posted("converted") PROVE i - 1 \in 1 .. Len(vevents') /\ vevents'[i - 1] = vevents[i]
    <3>1. i \in 1 .. Len(vevents) /\ i # 1
      BY <1>1, <1>2 DEF Posted
    <3>2. i - 1 \in 1 .. Len(vevents') /\ (i - 1) + 1 = i
      BY <1>2, <3>1
    <3> QED
      BY <1>2, <3>2
  <2> QED
    BY <2>1 DEF Posted
<1>7. \A i \in 1 .. Len(vevents') : vevents'[i].frame > shown'
  BY <1>1, <1>2 DEF VInv, ViewerOrder
<1>8. CASE Dropped
  <2>1. converting' = converting /\ busy' = busy
    BY <1>8 DEF NewData, VInv, ViewerTypeOK
  <2>2. ViewerTypeOK'
    BY <1>1, <1>2, <2>1 DEF VInv, ViewerTypeOK
  <2>3. Numbered'
    BY <1>1, <1>2, <2>1 DEF VInv, Numbered
  <2>4. Waiting'
    BY <1>1, <1>2, <2>1 DEF VInv, Waiting, IsNew, IsDone
  <2>5. ViewerOrder'
    <3>1. \A i, j \in Posted("converted")' : i = j
      BY <1>5 DEF VInv, ViewerOrder, Posted
    <3>2. Posted("converted") # {} => Posted("converted")' # {}
      BY <1>6
    <3>3. \A i \in Posted("converted")' : converting' = {} /\ busy'
      BY <1>5, <2>1 DEF VInv, ViewerOrder
    <3> QED
      BY <1>1, <1>7, <2>1, <3>1, <3>2, <3>3 DEF VInv, ViewerOrder
  <2> QED
    BY <2>2, <2>3, <2>4, <2>5 DEF VInv
<1>9. CASE ~Dropped
  <2> DEFINE c == Event("converted", Head(vevents).frame, Head(vevents).length)
  <2>1. ~busy /\ converting = {} /\ Posted("converted") = {} /\ Posted("converted")' = {}
    BY <1>5, <1>9 DEF Dropped, VInv, ViewerOrder
  <2>2. converting' = {c} /\ busy' = TRUE
    BY <1>9, <2>1 DEF NewData
  <2>3. c \in ViewerEvents /\ c.frame = vevents[1].frame /\ c.kind = "converted"
    BY <1>2 DEF ViewerEvents, Event
  <2> HIDE DEF c
  <2>4. ViewerTypeOK'
    BY <1>1, <1>2, <2>2, <2>3 DEF VInv, ViewerTypeOK
  <2>5. Numbered'
    BY <1>1, <1>2, <2>2, <2>3 DEF VInv, Numbered
  <2>6. Waiting'
    <3>1. \A j \in 1 .. Len(vevents') : vevents'[j].kind # "converted"
      BY <2>1 DEF Posted
    <3>2. \A j \in 1 .. Len(vevents') : IsNew(j)' => c.frame < vevents'[j].frame
      <4>1. ASSUME NEW j \in 1 .. Len(vevents'), IsNew(j)' PROVE vevents[1].frame < vevents'[j].frame
        <5>1. j + 1 \in 1 .. Len(vevents) /\ 1 < j + 1 /\ vevents'[j] = vevents[j + 1]
          BY <1>2
        <5>2. IsNew(1) /\ IsNew(j + 1)
          BY <1>1, <1>2, <4>1, <5>1 DEF IsNew
        <5> QED
          BY <1>2, <5>1, <5>2 DEF VInv, Waiting
      <4> QED
        BY <2>3, <4>1
    <3>3. \A i, j \in 1 .. Len(vevents') :
              i < j /\ IsNew(i)' /\ IsNew(j)' => vevents'[i].frame < vevents'[j].frame
      BY <1>2, StillInOrder DEF VInv
    <3> QED
      BY <2>2, <3>1, <3>2, <3>3 DEF Waiting, IsNew, IsDone
  <2>7. ViewerOrder'
    <3>1. c.frame > shown'
      BY <1>1, <1>2, <2>3 DEF VInv, ViewerOrder
    <3> QED
      BY <1>7, <2>1, <2>2, <3>1 DEF ViewerOrder
  <2> QED
    BY <2>4, <2>5, <2>6, <2>7 DEF VInv
<1> QED
  BY <1>8, <1>9

(* The converter's thread posts the only frame under way. *)
LEMMA ConvertStep == ASSUME VInv, Convert PROVE VInv'
<1>1. PICK c \in converting : converting' = converting \ {c} /\ vevents' = Append(vevents, c)
  BY DEF Convert
<1>2. /\ UNCHANGED <<frame, busy, visible, shown, widgets>>
      /\ vevents \in Seq(ViewerEvents) /\ c \in ViewerEvents /\ c.kind = "converted"
      /\ shown \in Nat /\ frame \in Nat
  BY DEF Convert, VInv, ViewerTypeOK, Numbered
<1>3. converting = {c} /\ converting' = {} /\ busy /\ Posted("converted") = {}
  BY <1>1 DEF VInv, ViewerOrder
<1>4. /\ vevents' \in Seq(ViewerEvents) /\ Len(vevents') = Len(vevents) + 1 /\ Len(vevents) \in Nat
      /\ \A i \in 1 .. Len(vevents) : vevents'[i] = vevents[i]
      /\ vevents'[Len(vevents) + 1] = c
  BY <1>1, <1>2, AppendFacts
<1>5. \A i \in 1 .. Len(vevents') : i \in 1 .. Len(vevents) \/ i = Len(vevents) + 1
  BY <1>4
<1>6. Posted("converted")' = {Len(vevents) + 1}
  <2>1. Len(vevents) + 1 \in 1 .. Len(vevents')
    BY <1>4
  <2>2. \A i \in 1 .. Len(vevents) : vevents'[i].kind # "converted"
    BY <1>3, <1>4 DEF Posted
  <2> QED
    BY <1>2, <1>4, <1>5, <2>1, <2>2 DEF Posted
<1>7. ViewerTypeOK'
  BY <1>2, <1>3, <1>4 DEF VInv, ViewerTypeOK
<1>8. Numbered'
  BY <1>1, <1>2, <1>3, <1>4, <1>5 DEF VInv, Numbered
<1>9. Waiting'
  <2>1. \A j \in 1 .. Len(vevents) : IsNew(j) => c.frame < vevents[j].frame
    BY DEF VInv, Waiting
  <2>2. \A i \in 1 .. Len(vevents') : IsDone(i)' => i = Len(vevents) + 1
    BY <1>6 DEF Posted, IsDone
  <2>3. \A i \in 1 .. Len(vevents') : IsNew(i)' => i \in 1 .. Len(vevents)
    BY <1>2, <1>4, <1>5 DEF IsNew
  <2>4. \A i, j \in 1 .. Len(vevents') :
            i < j /\ IsNew(i)' /\ IsNew(j)' => vevents'[i].frame < vevents'[j].frame
    BY <1>4, <2>3 DEF VInv, Waiting, IsNew
  <2>5. \A i, j \in 1 .. Len(vevents') :
            IsDone(i)' /\ IsNew(j)' => vevents'[i].frame < vevents'[j].frame
    BY <1>4, <2>1, <2>2, <2>3 DEF IsNew
  <2> QED
    BY <1>3, <2>4, <2>5 DEF Waiting
<1>10. ViewerOrder'
  <2>1. c.frame > shown
    BY DEF VInv, ViewerOrder
  <2>2. \A i \in 1 .. Len(vevents') : vevents'[i].frame > shown'
    BY <1>2, <1>4, <1>5, <2>1 DEF VInv, ViewerOrder
  <2> QED
    BY <1>2, <1>3, <1>6, <2>2 DEF ViewerOrder
<1> QED
  BY <1>7, <1>8, <1>9, <1>10 DEF VInv

(* updateImages() shows it. *)
LEMMA UpdateStep == ASSUME VInv, UpdateImages PROVE VInv'
<1>1. /\ vevents \in Seq(ViewerEvents) /\ vevents # <<>> /\ vevents' = Tail(vevents)
      /\ UNCHANGED <<frame, visible, converting>> /\ Head(vevents).kind = "converted"
      /\ shown' = Head(vevents).frame /\ widgets' = Head(vevents).length /\ busy' = FALSE
  BY DEF UpdateImages, StillBusy, Next1, VInv, ViewerTypeOK
<1>2. /\ Head(vevents) = vevents[1] /\ vevents[1] \in ViewerEvents /\ 1 \in 1 .. Len(vevents)
      /\ vevents' \in Seq(ViewerEvents) /\ Len(vevents') = Len(vevents) - 1 /\ Len(vevents) \in Nat
      /\ \A i \in 1 .. Len(vevents') : i + 1 \in 1 .. Len(vevents) /\ vevents'[i] = vevents[i + 1]
  BY <1>1, TailFacts
<1>3. converting = {} /\ \A i \in Posted("converted") : i = 1
  <2>1. 1 \in Posted("converted")
    BY <1>1, <1>2 DEF Posted
  <2> QED
    BY <2>1 DEF VInv, ViewerOrder
<1>4. \A i \in 1 .. Len(vevents') : vevents'[i].kind = "newData"
  <2>1. \A i \in 1 .. Len(vevents') : i + 1 # 1 /\ vevents'[i] \in ViewerEvents
    BY <1>2, EventFacts
  <2>2. \A i \in 1 .. Len(vevents') : vevents'[i].kind # "converted"
    BY <1>2, <1>3, <2>1 DEF Posted
  <2>3. \A e \in ViewerEvents : e.kind = "newData" \/ e.kind = "converted"
    BY DEF ViewerEvents
  <2> QED
    BY <2>1, <2>2, <2>3
<1>5. ViewerTypeOK'
  <2>1. shown' \in Nat /\ widgets' \in Nat
    BY <1>1, <1>2 DEF ViewerEvents
  <2> QED
    BY <1>1, <1>2, <2>1 DEF VInv, ViewerTypeOK
<1>6. Numbered'
  BY <1>1, <1>2, <1>3 DEF VInv, Numbered
<1>7. Waiting'
  <2>1. \A i, j \in 1 .. Len(vevents') :
            i < j /\ IsNew(i)' /\ IsNew(j)' => vevents'[i].frame < vevents'[j].frame
    BY <1>2, StillInOrder DEF VInv
  <2> QED
    BY <1>1, <1>3, <1>4, <2>1 DEF Waiting, IsDone
<1>8. ViewerOrder'
  <2>1. Posted("converted")' = {}
    BY <1>4 DEF Posted
  <2>2. \A i \in 1 .. Len(vevents') : vevents'[i].frame > shown'
    <3>1. \A i \in 1 .. Len(vevents') : vevents[1].frame < vevents'[i].frame
      BY <1>1, <1>2, <1>4 DEF VInv, Waiting, IsNew, IsDone
    <3>2. vevents[1].frame \in Nat /\ \A i \in 1 .. Len(vevents') : vevents'[i].frame \in Nat
      BY <1>1, <1>2, EventFacts
    <3> QED
      BY <1>1, <1>2, <3>1, <3>2
  <2> QED
    BY <1>1, <1>3, <2>1, <2>2 DEF ViewerOrder
<1> QED
  BY <1>5, <1>6, <1>7, <1>8 DEF VInv

LEMMA ViewerStepInv == VInv /\ [ViewerNext]_vvars => VInv'
<1> SUFFICES ASSUME VInv, [ViewerNext]_vvars PROVE VInv'
  OBVIOUS
<1>1. CASE UNCHANGED vvars \/ ShowOrHide
  <2>1. UNCHANGED <<frame, vevents, busy, converting, shown, widgets>>
    BY <1>1 DEF vvars, ShowOrHide
  <2>2. visible' \in BOOLEAN
    BY <1>1, Zenon DEF vvars, ShowOrHide, VInv, ViewerTypeOK
  <2> QED
    BY <2>1, <2>2 DEF VInv, ViewerTypeOK, Numbered, Waiting, IsNew, IsDone, ViewerOrder, Posted
<1>2. CASE PutFrame \/ MainLoop \/ Convert
  BY <1>2, PutStep, NewDataStep, UpdateStep, ConvertStep DEF MainLoop
<1> QED
  BY <1>1, <1>2 DEF ViewerNext

-----------------------------------------------------------------------------
(* Frames are shown in the order they were put, one conversion at a time, and   *)
(* m_busy is set exactly while one is on its way (OpenCVImageRenderer.cpp:84    *)
(* and :105), for lists of any lengths and a queue of any length.               *)
THEOREM ViewerInOrder == ViewerSpec => []ViewerOrder
<1>1. VInv => ViewerOrder
  BY DEF VInv
<1> QED
  BY <1>1, ViewerInitInv, ViewerStepInv, PTL DEF ViewerSpec

(* Types of the viewer's state. *)
THEOREM ViewerTypes == ViewerSpec => []ViewerTypeOK
<1>1. VInv => ViewerTypeOK
  BY DEF VInv
<1> QED
  BY <1>1, ViewerInitInv, ViewerStepInv, PTL DEF ViewerSpec

-----------------------------------------------------------------------------
(* The elements without threads. *)

(* What an element's properties are, by the element.                          *)
OddSizes == {i \in Nat : i % 2 = 1}
ParOK ==
    /\ element = "sobel" => par \in [x : 0..1, y : 0..1, kernel : Odd(1, 7)] /\ par.x + par.y > 0
    /\ element = "canny" => par \in [kernel : Odd(3, 7)]
    /\ element = "laplace" => par \in [kernel : Odd(1, 7)]
    /\ element = "harris" => par \in [kernel : Odd(1, 7), block : Nat \ {0}]
    /\ element = "gaussian" => par \in [kernel : OddSizes, height : OddSizes]
    /\ element = "crop" => par \in [{"x1", "x2", "y1", "y2"} -> Nat]
    /\ element = "dilate" => par \in [{"erosion", "dilation"} -> Nat]
    /\ element = "convert" => par \in [code : {"RGB2GRAY", "RGB2RGBA", "RGB2BGR"}, narrowed : BOOLEAN]
    /\ element = "delay" => par \in [steps : 0..MaxSteps]
    /\ element = "average" => par \in [frames : Nat \ {0}]
    /\ element = "blobs" => par \in [blobs : Nat]
    /\ element = "save" => par \in [dir : {"plain", "slash"}, ext : {".bmp", ".png"}]
    /\ element = "detector" => par \in [min : Nat]

(* What it remembers.  A delay holds the images l + 1 .. g.                   *)
Images1(l, g) == [i \in 1..(g - l) |-> l + i]
Spare(most) == IF most > 0 THEN most - 1 ELSE 0
MemOK ==
    /\ element = "delay" =>
        /\ mem \in [held : Seq(Nat), given : Nat, last : Nat, most : Nat]
        /\ ~running => mem.held = <<>>
        /\ running => mem.last <= mem.given /\ mem.held = Images1(mem.last, mem.given)
                      /\ par.steps <= mem.most
        /\ Len(mem.held) <= Spare(mem.most)
    /\ element = "snapshot" => mem.shot \in Images \cup {None}
    /\ element = "foreground" /\ ~running => ~mem.model
    /\ element = "viola" => mem.storage = running /\ mem.cascade = running
    /\ element = "image" => /\ mem \in [loaded : BOOLEAN, waiting : BOOLEAN, puts : 0..1]
                            /\ mem.waiting => mem.puts = 0
    /\ element = "directory" => mem \in [files : Nat, idx : Nat] /\ mem.idx <= mem.files
    /\ element = "save" => /\ mem.full \subseteq mem.files /\ IsFiniteSet(mem.full)
                           /\ mem.saved = Cardinality(mem.full)
    /\ element = "blobs" => mem \in [length : Nat] /\ (running => mem.length >= par.blobs)
SlashOK == element = "save" /\ running => par.dir = "slash"
OutOK == element \notin Undeclared =>
            \A o \in out : Accepts(o[2], o[1]) /\ o[1].size[1] > 0 /\ o[1].size[2] > 0
ElementInv == running \in BOOLEAN /\ ParOK /\ MemOK /\ SlashOK /\ OutOK

(* Images, and what put() is given.                                           *)
LEMMA ImageFacts == \A a \in Images :
    /\ a.depth \in Depths /\ a.ch \in Channels /\ a.size \in Sizes
    /\ Accepts(Any, a) /\ a.size[1] > 0 /\ a.size[2] > 0
<1> SUFFICES ASSUME NEW a \in Images
             PROVE  /\ a.depth \in Depths /\ a.ch \in Channels /\ a.size \in Sizes
                    /\ Accepts(Any, a) /\ a.size[1] > 0 /\ a.size[2] > 0
  OBVIOUS
<1>1. a.depth \in Depths /\ a.ch \in Channels /\ a.size \in Sizes
  BY DEF Images
<1>2. Accepts(Any, a)
  BY <1>1, FormatAssumption DEF Accepts
<1>3. a.size[1] > 0 /\ a.size[2] > 0
  BY <1>1, FormatAssumption
<1> QED
  BY <1>1, <1>2, <1>3

(* What stop() and deinit() leave, after a session or an init() that failed.  *)
LEMMA StoppedKeeps ==
    ASSUME MemOK, element' = element, running' = FALSE, mem' = StoppedMem
    PROVE  MemOK'
<1>1. CASE element = "delay"
  <2>0. mem' = [mem EXCEPT !.held = <<>>]
    BY <1>1, Zenon DEF StoppedMem
  <2>1. mem \in [held : Seq(Nat), given : Nat, last : Nat, most : Nat]
    BY <1>1 DEF MemOK
  <2>2. mem' \in [held : Seq(Nat), given : Nat, last : Nat, most : Nat] /\ mem'.held = <<>>
    <3>0. <<>> \in Seq(Nat)
      OBVIOUS
    <3>1. PICK e \in Seq(Nat) : e = <<>>
      BY <3>0, Zenon
    <3>2. mem' = [mem EXCEPT !.held = e]
      BY <2>0, <3>1
    <3>3. mem' \in [held : Seq(Nat), given : Nat, last : Nat, most : Nat] /\ mem'.held = e
      BY <2>1, <3>2
    <3> QED
      BY <3>1, <3>3
  <2>3. mem'.most \in Nat
    BY <2>2
  <2>4. Len(mem'.held) <= Spare(mem'.most)
    BY <2>2, <2>3 DEF Spare
  <2> QED
    BY <1>1, <2>2, <2>4 DEF MemOK
<1>2. CASE element = "foreground"
  BY <1>2 DEF StoppedMem, MemOK
<1>3. CASE element = "viola"
  BY <1>3 DEF StoppedMem, MemOK
<1>4. CASE element = "directory"
  BY <1>4 DEF StoppedMem, MemOK
<1>5. CASE element = "image"
  BY <1>5 DEF StoppedMem, MemOK
<1>6. CASE element \notin {"delay", "foreground", "viola", "directory", "image"}
  <2>1. mem' = mem
    BY <1>6 DEF StoppedMem
  <2> QED
    BY <1>6, <2>1 DEF MemOK
<1> QED
  BY <1>1, <1>2, <1>3, <1>4, <1>5, <1>6

LEMMA EndKeeps == ASSUME ElementInv, End PROVE ElementInv'
<1>1. running' = FALSE /\ mem' = StoppedMem /\ out' = {} /\ par' = par /\ element' = element
  BY DEF End, Ends
<1>2. MemOK'
  BY <1>1, StoppedKeeps DEF ElementInv
<1>3. ParOK'
  BY <1>1 DEF ElementInv, ParOK
<1>4. SlashOK' /\ OutOK'
  BY <1>1 DEF SlashOK, OutOK
<1> QED
  BY <1>1, <1>2, <1>3, <1>4 DEF ElementInv

(* A run that only puts images.                                               *)
LEMMA PutKeeps ==
    ASSUME ElementInv, UNCHANGED <<element, running, par, mem>>, OutOK'
    PROVE  ElementInv'
<1>1. ParOK'
  BY DEF ElementInv, ParOK
<1>2. MemOK'
  BY DEF ElementInv, MemOK
<1>3. SlashOK' /\ running' \in BOOLEAN
  BY DEF ElementInv, SlashOK
<1> QED
  BY <1>1, <1>2, <1>3 DEF ElementInv

LEMMA InitFailsKeeps == ASSUME ElementInv, InitFails PROVE ElementInv'
<1>1. running' = FALSE /\ mem' = StoppedMem /\ out' = out /\ par' = par /\ element' = element
  BY DEF InitFails, ElementInv
<1>2. MemOK'
  BY <1>1, StoppedKeeps DEF ElementInv
<1>3. ParOK'
  BY <1>1 DEF ElementInv, ParOK
<1>4. SlashOK' /\ OutOK'
  BY <1>1 DEF SlashOK, OutOK, ElementInv
<1> QED
  BY <1>1, <1>2, <1>3, <1>4 DEF ElementInv

(* init() and start().                                                        *)
LEMMA BeginKeeps == ASSUME ElementInv, Begin PROVE ElementInv'
<1>0. ~running /\ running' = TRUE /\ par' = ReadyPar /\ element' = element /\ out' = out
  BY DEF Begin
<1>1. PICK m \in ReadyMem : mem' = m
  BY DEF Begin
<1>2. ParOK' /\ SlashOK'
  <2>1. CASE element = "save"
    <3>1. par' = [par EXCEPT !.dir = "slash"] /\ par \in [dir : {"plain", "slash"}, ext : {".bmp", ".png"}]
      BY <1>0, <2>1 DEF ReadyPar, ElementInv, ParOK
    <3>2. par' \in [dir : {"plain", "slash"}, ext : {".bmp", ".png"}] /\ par'.dir = "slash"
      BY <3>1
    <3> QED
      BY <1>0, <2>1, <3>2 DEF ParOK, SlashOK
  <2>2. CASE element # "save"
    <3>1. par' = par
      BY <1>0, <2>2 DEF ReadyPar
    <3> QED
      BY <1>0, <2>2, <3>1 DEF ElementInv, ParOK, SlashOK
  <2> QED
    BY <2>1, <2>2
<1>3. MemOK'
  <2>1. CASE element = "delay"
    <3>1. /\ mem' = [mem EXCEPT !.given = 0, !.last = 0, !.most = par.steps] /\ mem.held = <<>>
          /\ mem \in [held : Seq(Nat), given : Nat, last : Nat, most : Nat]
          /\ par' = par /\ par.steps \in Nat
      <4>1. mem' = [mem EXCEPT !.given = 0, !.last = 0, !.most = par.steps]
        BY <1>1, <2>1, Zenon DEF ReadyMem
      <4>2. mem.held = <<>> /\ mem \in [held : Seq(Nat), given : Nat, last : Nat, most : Nat]
        BY <1>0, <2>1 DEF ElementInv, MemOK
      <4>3. par' = par
        BY <1>0, <2>1 DEF ReadyPar
      <4>4. par.steps \in Nat
        BY <2>1, DelayAssumption DEF ElementInv, ParOK
      <4> QED
        BY <4>1, <4>2, <4>3, <4>4
    <3>2. /\ mem' \in [held : Seq(Nat), given : Nat, last : Nat, most : Nat]
          /\ mem'.held = <<>> /\ mem'.given = 0 /\ mem'.last = 0 /\ mem'.most = par.steps
      BY <3>1
    <3>3. Images1(0, 0) = <<>>
      BY DEF Images1
    <3>4. Len(mem'.held) <= Spare(mem'.most)
      BY <3>1, <3>2 DEF Spare
    <3>5. par'.steps <= mem'.most
      BY <3>1, <3>2
    <3> QED
      BY <1>0, <2>1, <3>2, <3>3, <3>4, <3>5 DEF MemOK
  <2>2. CASE element = "viola"
    <3>1. mem' = [storage |-> TRUE, cascade |-> TRUE]
      BY <1>1, <2>2, Zenon DEF ReadyMem
    <3> QED
      BY <1>0, <2>2, <3>1 DEF MemOK
  <2>3. CASE element = "blobs"
    <3>1. mem' = [length |-> par.blobs] /\ par' = par /\ par.blobs \in Nat
      BY <1>0, <1>1, <2>3 DEF ReadyMem, ReadyPar, ElementInv, ParOK
    <3>2. mem' \in [length : Nat] /\ mem'.length >= par'.blobs
      BY <3>1
    <3> QED
      BY <1>0, <2>3, <3>2 DEF MemOK
  <2>4. CASE element = "directory"
    <3>1. PICK k \in 0..2 : mem' = [files |-> k, idx |-> 0]
      BY <1>1, <2>4 DEF ReadyMem
    <3>2. mem' \in [files : Nat, idx : Nat] /\ mem'.idx <= mem'.files
      BY <3>1
    <3> QED
      BY <1>0, <2>4, <3>2 DEF MemOK
  <2>5. CASE element = "image"
    <3>1. mem' = [loaded |-> TRUE, waiting |-> TRUE, puts |-> 0]
      BY <1>1, <2>5 DEF ReadyMem
    <3>2. mem' \in [loaded : BOOLEAN, waiting : BOOLEAN, puts : 0..1] /\ mem'.puts = 0
      BY <3>1
    <3> QED
      BY <1>0, <2>5, <3>2 DEF MemOK
  <2>6. CASE element \in {"average", "video"}
    BY <1>0, <2>6 DEF MemOK
  <2>7. CASE element \notin {"delay", "viola", "blobs", "directory", "image", "average", "video"}
    <3>1. mem' = mem
      BY <1>1, <2>7 DEF ReadyMem
    <3> QED
      BY <1>0, <2>7, <3>1 DEF ElementInv, MemOK
  <2> QED
    BY <2>1, <2>2, <2>3, <2>4, <2>5, <2>6, <2>7
<1>4. OutOK'
  BY <1>0 DEF ElementInv, OutOK
<1> QED
  BY <1>0, <1>2, <1>3, <1>4 DEF ElementInv

(* Setters.  The odd number they come to is one.                              *)
LEMMA OddHalves == \A i \in Int : i % 2 = 0 => (i + 1) % 2 = 1 /\ (i - 1) % 2 = 1
  OBVIOUS
LEMMA OddOrEven == \A i \in Int : i % 2 = 1 \/ i % 2 = 0
  OBVIOUS

LEMMA OddWithinType ==
    ASSUME NEW i \in Int, NEW old, NEW lo \in Int, NEW hi \in Int, lo <= hi, lo % 2 = 1, hi % 2 = 1
    PROVE  OddWithin(i, old, lo, hi) \in Odd(lo, hi)
<1>1. CASE i < lo
  BY <1>1 DEF OddWithin, Odd
<1>2. CASE ~(i < lo) /\ i > hi
  BY <1>2 DEF OddWithin, Odd
<1>3. CASE ~(i < lo) /\ ~(i > hi) /\ i % 2 = 1
  BY <1>3 DEF OddWithin, Odd
<1>4. CASE ~(i < lo) /\ ~(i > hi) /\ i % 2 # 1
  <2>1. i % 2 = 0 /\ (i + 1) % 2 = 1 /\ (i - 1) % 2 = 1
    BY <1>4, OddHalves, OddOrEven
  <2>2. i # lo /\ i # hi
    BY <2>1
  <2>3. i + 1 \in lo..hi /\ i - 1 \in lo..hi
    BY <1>4, <2>2
  <2>4. i + 1 \in Odd(lo, hi) /\ i - 1 \in Odd(lo, hi)
    BY <2>1, <2>3 DEF Odd
  <2> QED
    BY <1>4, <2>4 DEF OddWithin
<1> QED
  BY <1>1, <1>2, <1>3, <1>4

(* GaussianSmooth: the size itself is the bound.                              *)
LEMMA GaussianType ==
    ASSUME NEW i \in Int, NEW old
    PROVE  OddWithin(i, old, 1, i) \in OddSizes
<1>1. CASE i < 1
  BY <1>1 DEF OddWithin, OddSizes
<1>2. CASE ~(i < 1) /\ i % 2 = 1
  BY <1>2 DEF OddWithin, OddSizes
<1>3. CASE ~(i < 1) /\ i % 2 # 1
  <2>1. i % 2 = 0 /\ (i + 1) % 2 = 1 /\ (i - 1) % 2 = 1
    BY <1>3, OddHalves, OddOrEven
  <2>2. i + 1 \in OddSizes /\ i - 1 \in OddSizes
    BY <1>3, <2>1 DEF OddSizes
  <2> QED
    BY <1>3, <2>2 DEF OddWithin
<1> QED
  BY <1>1, <1>2, <1>3

(* A setter that leaves the members alone.                                    *)
LEMMA SetToKeeps ==
    ASSUME ElementInv, UNCHANGED <<element, running, mem, out>>, ParOK', SlashOK',
           element \notin {"delay", "blobs"}
    PROVE  ElementInv'
<1>1. MemOK'
  BY DEF ElementInv, MemOK
<1>2. OutOK' /\ running' \in BOOLEAN
  BY DEF ElementInv, OutOK
<1> QED
  BY <1>1, <1>2 DEF ElementInv

LEMMA SetSobelKeeps == ASSUME ElementInv, SetSobel PROVE ElementInv'
<1>0. /\ element = "sobel" /\ element' = element /\ UNCHANGED <<element, running, mem, out>>
      /\ par \in [x : 0..1, y : 0..1, kernel : Odd(1, 7)] /\ par.x + par.y > 0
  BY DEF SetSobel, SetTo, ElementInv, ParOK
<1>1. PICK i \in Values :
          \/ par' = [par EXCEPT !["kernel"] = SobelKernel(i, par.kernel)]
          \/ i \in 0..1 /\ par' = [par EXCEPT !["x"] = SobelXOrder(i, par.y)]
          \/ i \in 0..1 /\ par' = [par EXCEPT !["y"] = SobelYOrder(par.x, i)]
  BY DEF SetSobel, SetTo
<1>2. i \in Int
  BY FormatAssumption
<1>3. SobelKernel(i, par.kernel) \in Odd(1, 7)
  BY <1>2, OddWithinType DEF SobelKernel
<1>4. CASE par' = [par EXCEPT !["kernel"] = SobelKernel(i, par.kernel)]
  <2>1. par' \in [x : 0..1, y : 0..1, kernel : Odd(1, 7)] /\ par'.x = par.x /\ par'.y = par.y
    BY <1>0, <1>3, <1>4
  <2> QED
    BY <1>0, <2>1, SetToKeeps DEF ParOK, SlashOK
<1>5. CASE i \in 0..1 /\ par' = [par EXCEPT !["x"] = SobelXOrder(i, par.y)]
  <2>1. SobelXOrder(i, par.y) \in 0..1 /\ SobelXOrder(i, par.y) + par.y > 0
    BY <1>0, <1>5 DEF SobelXOrder
  <2>2. /\ par' \in [x : 0..1, y : 0..1, kernel : Odd(1, 7)]
        /\ par'.x = SobelXOrder(i, par.y) /\ par'.y = par.y
    BY <1>0, <1>5, <2>1
  <2> QED
    BY <1>0, <2>1, <2>2, SetToKeeps DEF ParOK, SlashOK
<1>6. CASE i \in 0..1 /\ par' = [par EXCEPT !["y"] = SobelYOrder(par.x, i)]
  <2>1. SobelYOrder(par.x, i) \in 0..1 /\ par.x + SobelYOrder(par.x, i) > 0
    BY <1>0, <1>6 DEF SobelYOrder
  <2>2. /\ par' \in [x : 0..1, y : 0..1, kernel : Odd(1, 7)]
        /\ par'.y = SobelYOrder(par.x, i) /\ par'.x = par.x
    BY <1>0, <1>6, <2>1
  <2> QED
    BY <1>0, <2>1, <2>2, SetToKeeps DEF ParOK, SlashOK
<1> QED
  BY <1>1, <1>4, <1>5, <1>6

LEMMA SetKernelKeeps == ASSUME ElementInv, SetKernel PROVE ElementInv'
<1>0. UNCHANGED <<element, running, mem, out>>
  BY DEF SetKernel, SetTo
<1>1. PICK i \in Values :
          \/ element = "canny" /\ par' = [par EXCEPT !["kernel"] = CannyAperture(i, par.kernel)]
          \/ element = "laplace" /\ par' = [par EXCEPT !["kernel"] = LaplaceAperture(i, par.kernel)]
          \/ element = "harris" /\ \/ par' = [par EXCEPT !["kernel"] = HarrisKernel(i, par.kernel)]
                                   \/ par' = [par EXCEPT !["block"] = HarrisBlock(i)]
          \/ element = "gaussian" /\ \/ par' = [par EXCEPT !["kernel"] = GaussianWidth(i, par.kernel)]
                                     \/ par' = [par EXCEPT !["height"] = GaussianHeight(i, par.height)]
  BY DEF SetKernel, SetTo
<1>2. i \in Int
  BY FormatAssumption
<1>3. CASE element = "canny"
  <2>1. CannyAperture(i, par.kernel) \in Odd(3, 7)
    BY <1>2, OddWithinType DEF CannyAperture
  <2>2. par' \in [kernel : Odd(3, 7)]
    BY <1>1, <1>3, <2>1 DEF ElementInv, ParOK
  <2> QED
    BY <1>0, <1>3, <2>2, SetToKeeps DEF ParOK, SlashOK
<1>4. CASE element = "laplace"
  <2>1. LaplaceAperture(i, par.kernel) \in Odd(1, 7)
    BY <1>2, OddWithinType DEF LaplaceAperture
  <2>2. par' \in [kernel : Odd(1, 7)]
    BY <1>1, <1>4, <2>1 DEF ElementInv, ParOK
  <2> QED
    BY <1>0, <1>4, <2>2, SetToKeeps DEF ParOK, SlashOK
<1>5. CASE element = "harris"
  <2>1. HarrisKernel(i, par.kernel) \in Odd(1, 7)
    BY <1>2, OddWithinType DEF HarrisKernel
  <2>2. HarrisBlock(i) \in Nat \ {0}
    BY <1>2 DEF HarrisBlock
  <2>3. par' \in [kernel : Odd(1, 7), block : Nat \ {0}]
    BY <1>1, <1>5, <2>1, <2>2 DEF ElementInv, ParOK
  <2> QED
    BY <1>0, <1>5, <2>3, SetToKeeps DEF ParOK, SlashOK
<1>6. CASE element = "gaussian"
  <2>1. GaussianWidth(i, par.kernel) \in OddSizes /\ GaussianHeight(i, par.height) \in OddSizes
    BY <1>2, GaussianType DEF GaussianWidth, GaussianHeight
  <2>2. par' \in [kernel : OddSizes, height : OddSizes]
    BY <1>1, <1>6, <2>1 DEF ElementInv, ParOK
  <2> QED
    BY <1>0, <1>6, <2>2, SetToKeeps DEF ParOK, SlashOK
<1> QED
  BY <1>1, <1>3, <1>4, <1>5, <1>6

LEMMA SetMarginKeeps == ASSUME ElementInv, SetCrop \/ SetMorphology PROVE ElementInv'
<1>1. CASE SetCrop
  <2>0. /\ element = "crop" /\ UNCHANGED <<element, running, mem, out>>
        /\ par \in [{"x1", "x2", "y1", "y2"} -> Nat]
    BY <1>1 DEF SetCrop, SetTo, ElementInv, ParOK
  <2>1. PICK m \in -1..MaxMargin, p \in DOMAIN par : par' = [par EXCEPT ![p] = Margin(m)]
    BY <1>1 DEF SetCrop, SetTo
  <2>2. Margin(m) \in Nat
    BY FormatAssumption DEF Margin
  <2>3. par' \in [{"x1", "x2", "y1", "y2"} -> Nat]
    BY <2>0, <2>1, <2>2
  <2> QED
    BY <2>0, <2>3, SetToKeeps DEF ParOK, SlashOK
<1>2. CASE SetMorphology
  <2>0. /\ element = "dilate" /\ UNCHANGED <<element, running, mem, out>>
        /\ par \in [{"erosion", "dilation"} -> Nat]
    BY <1>2 DEF SetMorphology, SetTo, ElementInv, ParOK
  <2>1. PICK i \in Values, p \in DOMAIN par : par' = [par EXCEPT ![p] = Iterations(i, par[p])]
    BY <1>2 DEF SetMorphology, SetTo
  <2>2. Iterations(i, par[p]) \in Nat
    BY <2>0, FormatAssumption DEF Iterations
  <2>3. par' \in [{"erosion", "dilation"} -> Nat]
    BY <2>0, <2>1, <2>2
  <2> QED
    BY <2>0, <2>3, SetToKeeps DEF ParOK, SlashOK
<1> QED
  BY <1>1, <1>2

(* A delay that gets more steps while it runs may hold more.                  *)
LEMMA SetStepsKeeps == ASSUME ElementInv, SetSteps PROVE ElementInv'
<1>0. /\ element = "delay" /\ UNCHANGED <<element, running, out>> /\ running \in BOOLEAN
      /\ mem \in [held : Seq(Nat), given : Nat, last : Nat, most : Nat]
      /\ par \in [steps : 0..MaxSteps] /\ MaxSteps \in Nat
      /\ ~running => mem.held = <<>>
      /\ running => mem.last <= mem.given /\ mem.held = Images1(mem.last, mem.given)
                    /\ par.steps <= mem.most
      /\ Len(mem.held) <= Spare(mem.most)
  BY DelayAssumption DEF SetSteps, ElementInv, ParOK, MemOK
<1>1. PICK i \in Values :
          /\ par' = [par EXCEPT !.steps = DelaySteps(i)]
          /\ mem' = [mem EXCEPT !.most = IF running /\ DelaySteps(i) > mem.most THEN DelaySteps(i)
                                         ELSE mem.most]
  BY DEF SetSteps
<1>2. DelaySteps(i) \in 0..MaxSteps
  BY <1>0, FormatAssumption DEF DelaySteps
<1>3. PICK d \in 0..MaxSteps : d = DelaySteps(i)
  BY <1>2
<1>4. PICK t \in Nat : t = IF running /\ d > mem.most THEN d ELSE mem.most
  BY <1>0
<1>5. par' = [par EXCEPT !.steps = d] /\ mem' = [mem EXCEPT !.most = t]
  BY <1>1, <1>3, <1>4
<1>6. par' \in [steps : 0..MaxSteps] /\ par'.steps = d
  BY <1>0, <1>5
<1>7. /\ mem' \in [held : Seq(Nat), given : Nat, last : Nat, most : Nat]
      /\ mem'.held = mem.held /\ mem'.given = mem.given /\ mem'.last = mem.last /\ mem'.most = t
  BY <1>0, <1>5
<1>8. Spare(mem.most) <= Spare(t) /\ Spare(t) \in Nat /\ Spare(mem.most) \in Nat
  <2>1. mem.most \in Nat /\ mem.most <= t
    BY <1>0, <1>3, <1>4
  <2> QED
    BY <2>1 DEF Spare
<1>9. Len(mem'.held) <= Spare(mem'.most)
  <2>1. Len(mem.held) \in Nat
    BY <1>0
  <2> QED
    BY <1>0, <1>7, <1>8, <2>1
<1>10. running' => par'.steps <= mem'.most
  BY <1>0, <1>3, <1>4, <1>6, <1>7
<1>11. MemOK'
  BY <1>0, <1>7, <1>9, <1>10 DEF MemOK
<1>12. ParOK' /\ SlashOK' /\ OutOK' /\ running' \in BOOLEAN
  BY <1>0, <1>6 DEF ParOK, SlashOK, OutOK, ElementInv
<1> QED
  BY <1>11, <1>12 DEF ElementInv

LEMMA SetBlobsKeeps == ASSUME ElementInv, SetBlobs PROVE ElementInv'
<1>0. /\ element = "blobs" /\ UNCHANGED <<element, running, out>> /\ running \in BOOLEAN
      /\ mem \in [length : Nat] /\ par \in [blobs : Nat]
      /\ running => mem.length >= par.blobs
  BY DEF SetBlobs, ElementInv, ParOK, MemOK
<1>1. PICK i \in Values : /\ par' = [par EXCEPT !.blobs = Iterations(i, par.blobs)]
                          /\ mem' = [mem EXCEPT !.length = Grown(i)]
  BY DEF SetBlobs
<1>2. i \in Int
  BY FormatAssumption
<1>3. PICK b \in Nat, l \in Nat : b = Iterations(i, par.blobs) /\ l = Grown(i)
  BY <1>0, <1>2 DEF Iterations, Grown
<1>4. running => l >= b
  BY <1>0, <1>2, <1>3 DEF Iterations, Grown
<1>5. par' \in [blobs : Nat] /\ par'.blobs = b /\ mem' \in [length : Nat] /\ mem'.length = l
  BY <1>0, <1>1, <1>3
<1>6. ParOK' /\ MemOK'
  BY <1>0, <1>4, <1>5 DEF ParOK, MemOK
<1>7. SlashOK' /\ OutOK' /\ running' \in BOOLEAN
  BY <1>0 DEF SlashOK, OutOK, ElementInv
<1> QED
  BY <1>6, <1>7 DEF ElementInv

LEMMA SetSaveKeeps == ASSUME ElementInv, SetSave PROVE ElementInv'
<1>0. /\ element = "save" /\ UNCHANGED <<element, running, mem, out>>
      /\ par \in [dir : {"plain", "slash"}, ext : {".bmp", ".png"}]
      /\ running => par.dir = "slash"
  BY DEF SetSave, SetTo, ElementInv, ParOK, SlashOK
<1>1. CASE \E d \in {"plain", "slash"} : ~running /\ SetTo("dir", d)
  <2>1. PICK d \in {"plain", "slash"} : ~running /\ par' = [par EXCEPT !["dir"] = d]
    BY <1>1 DEF SetTo
  <2>2. par' \in [dir : {"plain", "slash"}, ext : {".bmp", ".png"}]
    BY <1>0, <2>1
  <2> QED
    BY <1>0, <2>1, <2>2, SetToKeeps DEF ParOK, SlashOK
<1>2. CASE \E e \in {".bmp", ".png"} : SetTo("ext", e)
  <2>1. PICK e \in {".bmp", ".png"} : par' = [par EXCEPT !["ext"] = e]
    BY <1>2 DEF SetTo
  <2>2. par' \in [dir : {"plain", "slash"}, ext : {".bmp", ".png"}] /\ par'.dir = par.dir
    BY <1>0, <2>1
  <2> QED
    BY <1>0, <2>2, SetToKeeps DEF ParOK, SlashOK
<1> QED
  BY <1>1, <1>2 DEF SetSave

LEMMA SetOthersKeep ==
    ASSUME ElementInv, SetConversion \/ SetNumFrames \/ SetMethod \/ SetTrigger \/ SetSnapshot \/ SetDetector
    PROVE  ElementInv'
<1>0. UNCHANGED <<element, running, mem, out>>
  BY DEF SetConversion, SetNumFrames, SetMethod, SetTrigger, SetSnapshot, SetDetector, SetTo
<1>1. CASE SetConversion
  <2>1. element = "convert" /\ par' \in [code : {"RGB2GRAY", "RGB2RGBA", "RGB2BGR"}, narrowed : BOOLEAN]
    BY <1>1 DEF SetConversion
  <2> QED
    BY <1>0, <2>1, SetToKeeps DEF ParOK, SlashOK
<1>2. CASE SetNumFrames
  <2>1. element = "average" /\ par \in [frames : Nat \ {0}]
    BY <1>2 DEF SetNumFrames, ElementInv, ParOK
  <2>2. PICK i \in Values : par' = [par EXCEPT !["frames"] = NumFrames(i, par.frames)]
    BY <1>2 DEF SetNumFrames, SetTo
  <2>3. NumFrames(i, par.frames) \in Nat \ {0}
    BY <2>1, FormatAssumption DEF NumFrames
  <2>4. par' \in [frames : Nat \ {0}]
    BY <2>1, <2>2, <2>3
  <2> QED
    BY <1>0, <2>1, <2>4, SetToKeeps DEF ParOK, SlashOK
<1>3. CASE SetMethod \/ SetTrigger \/ SetSnapshot
  <2>1. element \in {"subtractor", "trigger", "snapshot"}
    BY <1>3 DEF SetMethod, SetTrigger, SetSnapshot
  <2> QED
    BY <1>0, <2>1, SetToKeeps DEF ParOK, SlashOK
<1>4. CASE SetDetector
  <2>1. element = "detector" /\ par \in [min : Nat]
    BY <1>4 DEF SetDetector, ElementInv, ParOK
  <2>2. PICK i \in Values : par' = [par EXCEPT !["min"] = MinBlobSize(i, par.min)]
    BY <1>4 DEF SetDetector, SetTo
  <2>3. MinBlobSize(i, par.min) \in Nat
    BY <2>1, FormatAssumption DEF MinBlobSize
  <2>4. par' \in [min : Nat]
    BY <2>1, <2>2, <2>3
  <2> QED
    BY <1>0, <2>1, <2>4, SetToKeeps DEF ParOK, SlashOK
<1> QED
  BY <1>1, <1>2, <1>3, <1>4

LEMMA SetKeeps == ASSUME ElementInv, Set PROVE ElementInv'
BY SetSobelKeeps, SetKernelKeeps, SetMarginKeeps, SetStepsKeeps, SetBlobsKeeps, SetSaveKeeps,
   SetOthersKeep DEF Set

(* Runs.  What put() is given is legal.                                       *)
Legal(pin, S) == \A a \in S : Accepts(pin, a) /\ a.size[1] > 0 /\ a.size[2] > 0
Rest == UNCHANGED <<element, running, par, mem>>

LEMMA OnLegal == ASSUME NEW pin, NEW S, Legal(pin, S), out' = On(pin, S) PROVE OutOK'
<1>1. ASSUME NEW o \in out' PROVE Accepts(o[2], o[1]) /\ o[1].size[1] > 0 /\ o[1].size[2] > 0
  <2>1. PICK a \in S : o = <<a, pin>>
    BY DEF On
  <2>2. o[1] = a /\ o[2] = pin
    BY <2>1
  <2> QED
    BY <2>2 DEF Legal
<1> QED
  BY <1>1 DEF OutOK

(* Filters with one input that put the image they are given, or one of its    *)
(* size.                                                                      *)
LEMMA LegalAny == ASSUME NEW a \in Images PROVE Legal(Any, {a})
  BY ImageFacts DEF Legal

LEMMA LegalSame == ASSUME NEW a \in Images, NEW pin, Accepts(pin, a) PROVE Legal(pin, {a})
  BY ImageFacts DEF Legal

LEMMA LegalDepth ==
    ASSUME NEW a \in Images, NEW pin, NEW d, d \in pin.depths, a.ch \in pin.channels
    PROVE  Legal(pin, {[a EXCEPT !.depth = d]})
<1>1. PICK b : b = [a EXCEPT !.depth = d]
  OBVIOUS
<1>2. b.depth = d /\ b.ch = a.ch /\ b.size = a.size
  BY <1>1 DEF Images
<1>3. Legal(pin, {b})
  BY <1>2, ImageFacts DEF Legal, Accepts
<1> QED
  BY <1>1, <1>3

LEMMA LegalChannels ==
    ASSUME NEW a \in Images, NEW pin, NEW c, a.depth \in pin.depths, c \in pin.channels
    PROVE  Legal(pin, {[a EXCEPT !.ch = c]})
<1>1. PICK b : b = [a EXCEPT !.ch = c]
  OBVIOUS
<1>2. b.depth = a.depth /\ b.ch = c /\ b.size = a.size
  BY <1>1 DEF Images
<1>3. Legal(pin, {b})
  BY <1>2, ImageFacts DEF Legal, Accepts
<1> QED
  BY <1>1, <1>3

LEMMA OneInput ==
    ASSUME NEW q, NEW s \in [1..Len(<<q>>) -> Images], \A i \in 1..Len(<<q>>) : Accepts(<<q>>[i], s[i])
    PROVE  s[1] \in Images /\ Accepts(q, s[1])
<1>1. Len(<<q>>) = 1 /\ <<q>>[1] = q /\ 1 \in 1..1
  OBVIOUS
<1> QED
  BY <1>1

LEMMA SimpleRuns ==
    ASSUME ElementInv, \/ GaussianSmooth \/ DilateErode \/ ImageFlip \/ ExampleProcessor \/ ViolaJonesFaceDetector
    PROVE  ElementInv'
<1>1. CASE End
  BY <1>1, EndKeeps
<1>2. CASE ~End
  <2>1. PICK s \in [1..Len(<<Any>>) -> Images] :
            (\A i \in 1..Len(<<Any>>) : Accepts(<<Any>>[i], s[i])) /\ out' = On(Any, {s[1]}) /\ Rest
    BY <1>2 DEF GaussianSmooth, DilateErode, ImageFlip, ExampleProcessor, ViolaJonesFaceDetector, Filter, Rest
  <2>2. s[1] \in Images
    BY <2>1, OneInput
  <2>3. OutOK'
    BY <2>1, <2>2, LegalAny, OnLegal
  <2> QED
    BY <2>1, <2>3, PutKeeps DEF Rest
<1> QED
  BY <1>1, <1>2

LEMMA TwoInputs ==
    ASSUME NEW q, NEW r, NEW s \in [1..Len(<<q, r>>) -> Images]
    PROVE  s[1] \in Images /\ s[2] \in Images
<1>1. Len(<<q, r>>) = 2 /\ 1 \in 1..2 /\ 2 \in 1..2
  OBVIOUS
<1> QED
  BY <1>1

LEMMA ArithmeticRuns == ASSUME ElementInv, Add \/ Multiply \/ Xor \/ Diff PROVE ElementInv'
<1>1. CASE End
  BY <1>1, EndKeeps
<1>2. CASE ~End
  <2>1. PICK s \in [1..Len(<<Any, Any>>) -> Images] :
            Rest /\ \/ Same(s) # Refused /\ out' = On(Any, Same(s))
                    \/ out' = On(Any, {s[1]})
    BY <1>2 DEF Add, Multiply, Xor, Diff, Filter, Rest
  <2>2. s[1] \in Images
    BY <2>1, TwoInputs
  <2>3. out' = On(Any, {s[1]})
    BY <2>1 DEF Same
  <2>4. OutOK'
    BY <2>2, <2>3, LegalAny, OnLegal
  <2> QED
    BY <2>1, <2>4, PutKeeps DEF Rest
<1> QED
  BY <1>1, <1>2

LEMMA SubRuns == ASSUME ElementInv, Sub PROVE ElementInv'
<1> DEFINE M == Pin({"8U", "8S"}, {1})
           Less(s) == IF s[1].ch = s[2].ch /\ s[1].depth = s[2].depth THEN {s[1]} ELSE Refused
<1>1. CASE End
  BY <1>1, EndKeeps
<1>2. CASE ~End
  <2>1. \/ \E s \in [1..Len(<<Any, Any>>) -> Images] : Less(s) # Refused /\ out' = On(Any, Less(s)) /\ Rest
        \/ \E s \in [1..Len(<<Any, Any, M>>) -> Images] : Less(s) # Refused /\ out' = On(Any, Less(s)) /\ Rest
    BY <1>2 DEF Sub, Filter, Rest
  <2>2. Len(<<Any, Any>>) = 2 /\ Len(<<Any, Any, M>>) = 3 /\ 1 \in 1..2 /\ 1 \in 1..3
    OBVIOUS
  <2>3. PICK s : Less(s) # Refused /\ out' = On(Any, Less(s)) /\ Rest /\ s[1] \in Images
    <3> HIDE DEF Less, M
    <3> QED
      BY <2>1, <2>2
  <2>4. out' = On(Any, {s[1]})
    BY <2>3
  <2>5. OutOK'
    BY <2>3, <2>4, LegalAny, OnLegal
  <2> QED
    BY <2>3, <2>5, PutKeeps DEF Rest
<1> QED
  BY <1>1, <1>2

(* Elements whose pins declare other formats than they put.                   *)
LEMMA UndeclaredRuns ==
    ASSUME ElementInv, EdgeDetectorSobel \/ EdgeDetectorLaplace \/ Mask \/ Stitch
    PROVE  ElementInv'
<1>1. CASE End
  BY <1>1, EndKeeps
<1>2. CASE ~End
  <2>1. Rest /\ element \in Undeclared
    BY <1>2 DEF EdgeDetectorSobel, EdgeDetectorLaplace, Mask, Stitch, Filter, Rest, Undeclared
  <2>2. OutOK'
    BY <2>1 DEF OutOK, Rest
  <2> QED
    BY <2>1, <2>2, PutKeeps DEF Rest
<1> QED
  BY <1>1, <1>2

(* Elements that put no image.                                                *)
LEMMA SilentRuns == ASSUME ElementInv, PixelSum \/ VPBlobToStringConverter PROVE ElementInv'
<1>1. CASE End
  BY <1>1, EndKeeps
<1>2. CASE ~End
  <2>1. Rest /\ out' = On(Any, {})
    BY <1>2 DEF PixelSum, VPBlobToStringConverter, Filter, Rest
  <2>2. OutOK'
    BY <2>1, OnLegal DEF Legal
  <2> QED
    BY <2>1, <2>2, PutKeeps DEF Rest
<1> QED
  BY <1>1, <1>2

(* Elements whose pins name the formats.                                      *)
LEMMA PickyRuns ==
    ASSUME ElementInv, ImageThreshold \/ KinectThreshold \/ HelloWorldProcessor
    PROVE  ElementInv'
<1>1. CASE End
  BY <1>1, EndKeeps
<1>2. CASE ~End
  <2>1. PICK q : \E s \in [1..Len(<<q>>) -> Images] :
            (\A i \in 1..Len(<<q>>) : Accepts(<<q>>[i], s[i])) /\ out' = On(q, {s[1]}) /\ Rest
    BY <1>2 DEF ImageThreshold, KinectThreshold, HelloWorldProcessor, Filter, Rest
  <2>2. PICK s \in [1..Len(<<q>>) -> Images] :
            (\A i \in 1..Len(<<q>>) : Accepts(<<q>>[i], s[i])) /\ out' = On(q, {s[1]}) /\ Rest
    BY <2>1
  <2>3. s[1] \in Images /\ Accepts(q, s[1])
    BY <2>2, OneInput
  <2>4. OutOK'
    BY <2>2, <2>3, LegalSame, OnLegal
  <2> QED
    BY <2>2, <2>4, PutKeeps DEF Rest
<1> QED
  BY <1>1, <1>2

LEMMA CannyRuns == ASSUME ElementInv, EdgeDetectorCanny PROVE ElementInv'
<1>1. CASE End
  BY <1>1, EndKeeps
<1>2. CASE ~End
  <2> DEFINE q == Pin({"8S", "8U"}, {1})
  <2>1. PICK s \in [1..Len(<<q>>) -> Images] :
            /\ \A i \in 1..Len(<<q>>) : Accepts(<<q>>[i], s[i])
            /\ out' = On(q, {[s[1] EXCEPT !.depth = "8U"]}) /\ Rest
    BY <1>2 DEF EdgeDetectorCanny, Filter, Rest
  <2>q. "8U" \in q.depths
    BY DEF Pin
  <2> HIDE DEF q
  <2>2. s[1] \in Images /\ Accepts(q, s[1])
    BY <2>1, OneInput
  <2>3. s[1].ch \in q.channels
    BY <2>2 DEF Accepts
  <2>4. OutOK'
    BY <2>1, <2>2, <2>3, <2>q, LegalDepth, OnLegal
  <2> QED
    BY <2>1, <2>4, PutKeeps DEF Rest
<1> QED
  BY <1>1, <1>2

LEMMA HarrisRuns == ASSUME ElementInv, ImageCornerHarris PROVE ElementInv'
<1>1. CASE End
  BY <1>1, EndKeeps
<1>2. CASE ~End
  <2> DEFINE q == Pin({"8U", "8S"}, {1})
             r == Pin({"32F"}, {1})
  <2>1. PICK s \in [1..Len(<<q>>) -> Images] :
            /\ \A i \in 1..Len(<<q>>) : Accepts(<<q>>[i], s[i])
            /\ out' = On(r, {[s[1] EXCEPT !.depth = "32F"]}) /\ Rest
    BY <1>2 DEF ImageCornerHarris, Filter, Rest
  <2>q. "32F" \in r.depths /\ q.channels = r.channels
    BY DEF Pin
  <2> HIDE DEF q, r
  <2>2. s[1] \in Images /\ Accepts(q, s[1])
    BY <2>1, OneInput
  <2>3. s[1].ch \in r.channels
    BY <2>2, <2>q DEF Accepts
  <2>4. OutOK'
    BY <2>1, <2>2, <2>3, <2>q, LegalDepth, OnLegal
  <2> QED
    BY <2>1, <2>4, PutKeeps DEF Rest
<1> QED
  BY <1>1, <1>2

LEMMA DetectorRuns == ASSUME ElementInv, BlobDetector PROVE ElementInv'
<1>1. CASE End
  BY <1>1, EndKeeps
<1>2. CASE ~End
  <2> DEFINE q == Pin({"8U", "16U"}, {1})
  <2>1. PICK s \in [1..Len(<<q>>) -> Images] :
            /\ \A i \in 1..Len(<<q>>) : Accepts(<<q>>[i], s[i])
            /\ out' = On(Any, {[s[1] EXCEPT !.depth = "8U", !.ch = 3]}) /\ Rest
    BY <1>2 DEF BlobDetector, Filter, Rest
  <2> HIDE DEF q
  <2>2. PICK a \in Images : a = s[1]
    BY <2>1, OneInput
  <2>3. PICK b : b = [a EXCEPT !.depth = "8U", !.ch = 3]
    OBVIOUS
  <2>4. b.depth = "8U" /\ b.ch = 3 /\ b.size = a.size
    BY <2>3 DEF Images
  <2>5. Accepts(Any, b)
    BY <2>4 DEF Accepts, Any, Pin
  <2>6. Legal(Any, {b})
    BY <2>4, <2>5, ImageFacts DEF Legal
  <2>7. OutOK'
    BY <2>1, <2>2, <2>3, <2>6, OnLegal
  <2> QED
    BY <2>1, <2>7, PutKeeps DEF Rest
<1> QED
  BY <1>1, <1>2

LEMMA SplitRuns == ASSUME ElementInv, Split PROVE ElementInv'
<1>1. CASE End
  BY <1>1, EndKeeps
<1>2. CASE ~End
  <2> DEFINE r == Pin(Any.depths, {1})
  <2>1. PICK s \in [1..Len(<<Any>>) -> Images] :
            /\ \A i \in 1..Len(<<Any>>) : Accepts(<<Any>>[i], s[i])
            /\ SplitImages(s[1]) # Refused
            /\ out' = On(r, SplitImages(s[1])) /\ Rest
    BY <1>2 DEF Split, Filter, Rest
  <2>q. r.depths = Any.depths /\ 1 \in r.channels
    BY DEF Pin
  <2> HIDE DEF r
  <2>2. s[1] \in Images /\ Accepts(Any, s[1])
    BY <2>1, OneInput
  <2>3. out' = On(r, {[s[1] EXCEPT !.ch = 1]})
    BY <2>1 DEF SplitImages
  <2>4. s[1].depth \in r.depths
    BY <2>2, <2>q DEF Accepts
  <2>5. OutOK'
    BY <2>2, <2>3, <2>4, <2>q, LegalChannels, OnLegal
  <2> QED
    BY <2>1, <2>5, PutKeeps DEF Rest
<1> QED
  BY <1>1, <1>2

LEMMA ConvertRuns == ASSUME ElementInv, ImageColorConvert PROVE ElementInv'
<1>1. CASE End
  BY <1>1, EndKeeps
<1>2. CASE ~End
  <2> DEFINE Narrow(c) == Pin(Any.depths, IF par.narrowed THEN {c} ELSE 1..4)
             m == OutChannels(par.code)
             q == Narrow(3)
             r == Narrow(m)
  <2>1. PICK s \in [1..Len(<<q>>) -> Images] :
            /\ \A i \in 1..Len(<<q>>) : Accepts(<<q>>[i], s[i])
            /\ out' = On(r, {[s[1] EXCEPT !.ch = m]}) /\ Rest
    BY <1>2 DEF ImageColorConvert, Filter, Rest
  <2>2. element = "convert"
    BY DEF ImageColorConvert
  <2>3. m \in 1..4
    <3>1. par.code \in {"RGB2GRAY", "RGB2RGBA", "RGB2BGR"}
      BY <2>2 DEF ElementInv, ParOK
    <3> QED
      BY <3>1 DEF OutChannels
  <2>4. r.depths = Any.depths /\ q.depths = Any.depths /\ m \in r.channels
    BY <2>3 DEF Pin
  <2> HIDE DEF q, r, m, Narrow
  <2>5. s[1] \in Images /\ Accepts(q, s[1])
    BY <2>1, OneInput
  <2>6. s[1].depth \in r.depths
    BY <2>4, <2>5 DEF Accepts
  <2>7. OutOK'
    BY <2>1, <2>4, <2>5, <2>6, LegalChannels, OnLegal
  <2> QED
    BY <2>1, <2>7, PutKeeps DEF Rest
<1> QED
  BY <1>1, <1>2

LEMMA CropRuns == ASSUME ElementInv, CropImage PROVE ElementInv'
<1>1. CASE End
  BY <1>1, EndKeeps
<1>2. CASE ~End
  <2>1. PICK s \in [1..Len(<<Any>>) -> Images] :
            /\ \A i \in 1..Len(<<Any>>) : Accepts(<<Any>>[i], s[i])
            /\ out' = On(Any, Cropped(s[1])) /\ Rest
    BY <1>2 DEF CropImage, Filter, Rest
  <2>2. PICK a \in Images : a = s[1]
    BY <2>1, OneInput
  <2>3. par \in [{"x1", "x2", "y1", "y2"} -> Nat]
    BY DEF CropImage, Filter, ElementInv, ParOK
  <2>4. Legal(Any, Cropped(a))
    <3> DEFINE w == a.size[1] - (par.x1 + par.x2)
               h == a.size[2] - (par.y1 + par.y2)
    <3>1. w \in Int /\ h \in Int
      <4>1. par.x1 \in Nat /\ par.x2 \in Nat /\ par.y1 \in Nat /\ par.y2 \in Nat
        BY <2>3
      <4>2. a.size[1] \in Nat /\ a.size[2] \in Nat
        BY ImageFacts, FormatAssumption
      <4> QED
        BY <4>1, <4>2
    <3>2. Cropped(a) = IF w <= 0 \/ h <= 0 THEN {} ELSE {[a EXCEPT !.size = <<w, h>>]}
      BY DEF Cropped
    <3> HIDE DEF w, h
    <3>3. CASE w <= 0 \/ h <= 0
      BY <3>2, <3>3 DEF Legal
    <3>4. CASE ~(w <= 0 \/ h <= 0)
      <4>1. PICK b : b = [a EXCEPT !.size = <<w, h>>]
        OBVIOUS
      <4>2. b.depth = a.depth /\ b.ch = a.ch /\ b.size = <<w, h>>
        BY <4>1 DEF Images
      <4>3. Accepts(Any, b)
        BY <4>2, ImageFacts DEF Accepts
      <4>4. b.size[1] = w /\ b.size[2] = h
        BY <4>2
      <4>5. Legal(Any, {b})
        BY <3>1, <3>4, <4>3, <4>4 DEF Legal
      <4> QED
        BY <3>2, <3>4, <4>1, <4>5
    <3> QED
      BY <3>3, <3>4
  <2>5. OutOK'
    BY <2>1, <2>2, <2>4, OnLegal
  <2> QED
    BY <2>1, <2>5, PutKeeps DEF Rest
<1> QED
  BY <1>1, <1>2

(* A run that leaves the properties it has legal.                             *)
LEMMA RunKeeps ==
    ASSUME ElementInv, UNCHANGED <<element, running>>, ParOK', MemOK', OutOK', element # "save"
    PROVE  ElementInv'
  BY DEF ElementInv, SlashOK

(* The list of a delay: what an image appended to it and its first image      *)
(* taken from it leave.                                                       *)
LEMMA ListOfDelay ==
    ASSUME NEW l \in Nat, NEW g \in Nat, l <= g
    PROVE  /\ Images1(l, g) \in Seq(Nat) /\ Len(Images1(l, g)) = g - l
           /\ \A i \in 1..(g - l) : Images1(l, g)[i] = l + i
<1>1. PICK k \in Nat : k = g - l
  OBVIOUS
<1>2. Images1(l, g) = [i \in 1..k |-> l + i]
  BY <1>1 DEF Images1
<1>3. \A i \in 1..k : l + i \in Nat
  OBVIOUS
<1>4. [i \in 1..k |-> l + i] \in Seq(Nat)
  BY <1>3, IsASeq
<1>5. PICK f \in Seq(Nat) : f = Images1(l, g)
  BY <1>2, <1>4
<1>6. DOMAIN f = 1..k /\ \A i \in 1..k : f[i] = l + i
  BY <1>2, <1>5
<1>7. Len(f) = k
  BY <1>6, LenProperties
<1> QED
  BY <1>1, <1>5, <1>6, <1>7

LEMMA LastOfDelay ==
    ASSUME NEW l \in Nat, NEW g \in Nat, l <= g
    PROVE  Append(Images1(l, g), g + 1) = Images1(l, g + 1)
<1>1. PICK k \in Nat : k = g - l
  OBVIOUS
<1>2. g + 1 \in Nat /\ l <= g + 1 /\ (g + 1) - l = k + 1 /\ g + 1 = l + (k + 1)
  BY <1>1
<1>3. PICK f \in Seq(Nat) : f = Images1(l, g)
  BY ListOfDelay
<1>4. Len(f) = k /\ \A i \in 1..k : f[i] = l + i
  BY <1>1, <1>3, ListOfDelay
<1>5. Images1(l, g + 1) \in Seq(Nat) /\ Len(Images1(l, g + 1)) = k + 1
      /\ \A i \in 1..(k + 1) : Images1(l, g + 1)[i] = l + i
  BY <1>2, ListOfDelay, ZenonT(30)
<1>6. PICK h \in Seq(Nat) : h = Images1(l, g + 1)
  BY <1>5
<1>7. Append(f, g + 1) \in Seq(Nat) /\ Len(Append(f, g + 1)) = k + 1 /\ Append(f, g + 1)[k + 1] = g + 1
      /\ \A i \in 1..k : Append(f, g + 1)[i] = f[i]
  BY <1>2, <1>4, AppendProperties
<1>8. PICK e \in Seq(Nat) : e = Append(f, g + 1)
  BY <1>7
<1>9. Len(e) = k + 1 /\ e[k + 1] = l + (k + 1) /\ \A i \in 1..k : e[i] = l + i
  BY <1>2, <1>4, <1>7, <1>8
<1>10. Len(h) = k + 1 /\ \A i \in 1..(k + 1) : h[i] = l + i
  BY <1>5, <1>6
<1>11. ASSUME NEW i \in 1..(k + 1) PROVE e[i] = h[i]
  <2>1. i \in 1..k \/ i = k + 1
    OBVIOUS
  <2> QED
    BY <1>9, <1>10, <2>1
<1>12. e = h
  BY <1>9, <1>10, <1>11, SeqEqual
<1> QED
  BY <1>3, <1>6, <1>8, <1>12

LEMMA FirstOfDelay ==
    ASSUME NEW l \in Nat, NEW g \in Nat, l <= g
    PROVE  /\ Head(Images1(l, g + 1)) = l + 1
           /\ Tail(Images1(l, g + 1)) = Images1(l + 1, g + 1)
<1>1. PICK k \in Nat : k = g - l
  OBVIOUS
<1>b. g + 1 \in Nat /\ l <= g + 1 /\ (g + 1) - l = k + 1
  BY <1>1
<1>2. g + 1 \in Nat /\ l + 1 \in Nat /\ l + 1 <= g + 1 /\ (g + 1) - (l + 1) = k
  BY <1>1
<1>a. Images1(l, g + 1) \in Seq(Nat) /\ Len(Images1(l, g + 1)) = k + 1
      /\ \A i \in 1..(k + 1) : Images1(l, g + 1)[i] = l + i
  BY <1>b, ListOfDelay
<1>3. PICK f \in Seq(Nat) : f = Images1(l, g + 1)
  BY <1>a
<1>4. Len(f) = k + 1 /\ \A i \in 1..(k + 1) : f[i] = l + i
  BY <1>a, <1>3
<1>5. PICK h \in Seq(Nat) : h = Images1(l + 1, g + 1)
  BY <1>2, ListOfDelay
<1>6. Len(h) = k /\ \A i \in 1..k : h[i] = (l + 1) + i
  BY <1>2, <1>5, ListOfDelay
<1>7. f # <<>>
  BY <1>4
<1>8. Head(f) = f[1] /\ Tail(f) \in Seq(Nat) /\ Len(Tail(f)) = Len(f) - 1
      /\ \A i \in 1..Len(Tail(f)) : Tail(f)[i] = f[i + 1]
  BY <1>7, HeadTailProperties
<1>9. PICK t \in Seq(Nat) : t = Tail(f)
  BY <1>8
<1>10. Len(t) = k /\ \A i \in 1..k : t[i] = f[i + 1]
  BY <1>4, <1>8, <1>9
<1>11. ASSUME NEW i \in 1..k PROVE t[i] = h[i]
  <2>1. i + 1 \in 1..(k + 1) /\ l + (i + 1) = (l + 1) + i
    OBVIOUS
  <2> QED
    BY <1>4, <1>6, <1>10, <2>1
<1>12. t = h
  BY <1>6, <1>10, <1>11, SeqEqual
<1>13. Head(f) = l + 1
  BY <1>4, <1>8
<1> QED
  BY <1>3, <1>5, <1>9, <1>12, <1>13

LEMMA DelayRuns == ASSUME ElementInv, DelayImage PROVE ElementInv'
<1>0. /\ element = "delay" /\ running = TRUE /\ UNCHANGED <<element, running, par>> /\ out' = On(Any, {})
      /\ mem \in [held : Seq(Nat), given : Nat, last : Nat, most : Nat]
      /\ mem.last <= mem.given /\ mem.held = Images1(mem.last, mem.given)
      /\ par.steps <= mem.most /\ Len(mem.held) <= Spare(mem.most)
      /\ par \in [steps : 0..MaxSteps]
  BY DEF DelayImage, Puts, ElementInv, ParOK, MemOK
<1>1. PICK l \in Nat, g \in Nat, n \in Nat, s \in Nat :
          l = mem.last /\ g = mem.given /\ n = mem.most /\ s = par.steps
  BY <1>0, DelayAssumption
<1>2. l <= g /\ s <= n /\ mem.held = Images1(l, g) /\ g - l <= Spare(n)
  <2>1. l <= g /\ s <= n /\ mem.held = Images1(l, g) /\ Len(mem.held) <= Spare(n)
    BY <1>0, <1>1
  <2>2. Len(Images1(l, g)) = g - l
    BY <2>1, ListOfDelay
  <2> QED
    BY <2>1, <2>2
<1>3. PICK frames : frames = Append(mem.held, mem.given + 1)
  OBVIOUS
<1>4. frames = Images1(l, g + 1)
  <2>1. frames = Append(Images1(l, g), g + 1)
    BY <1>1, <1>2, <1>3
  <2> QED
    BY <1>2, <2>1, LastOfDelay
<1>5. frames \in Seq(Nat) /\ Len(frames) = g + 1 - l
  <2>1. g + 1 \in Nat /\ l <= g + 1
    BY <1>2
  <2> QED
    BY <1>4, <2>1, ListOfDelay
<1>6. Head(frames) = l + 1 /\ Tail(frames) = Images1(l + 1, g + 1)
  BY <1>2, <1>4, FirstOfDelay
<1>7. mem' = [mem EXCEPT !.given = mem.given + 1,
                         !.held = IF Len(frames) >= par.steps THEN Tail(frames) ELSE frames,
                         !.last = IF Len(frames) >= par.steps THEN Head(frames) ELSE mem.last]
  BY <1>3 DEF DelayImage
<1>8. PICK m \in Nat, kept \in Seq(Nat) :
          /\ m <= g + 1 /\ kept = Images1(m, g + 1) /\ Len(kept) <= Spare(n)
          /\ mem' = [mem EXCEPT !.given = g + 1, !.held = kept, !.last = m]
  <2>1. CASE Len(frames) >= par.steps
    <3>1. mem' = [mem EXCEPT !.given = g + 1, !.held = Images1(l + 1, g + 1), !.last = l + 1]
      BY <1>1, <1>6, <1>7, <2>1
    <3>0. l + 1 \in Nat /\ g + 1 \in Nat /\ l + 1 <= g + 1
      BY <1>2
    <3>2. Images1(l + 1, g + 1) \in Seq(Nat) /\ Len(Images1(l + 1, g + 1)) = (g + 1) - (l + 1)
      BY <3>0, ListOfDelay
    <3>3. Len(Images1(l + 1, g + 1)) <= Spare(n) /\ l + 1 <= g + 1 /\ l + 1 \in Nat
      BY <1>2, <3>2
    <3> QED
      BY <3>1, <3>2, <3>3
  <2>2. CASE ~(Len(frames) >= par.steps)
    <3>1. mem' = [mem EXCEPT !.given = g + 1, !.held = Images1(l, g + 1), !.last = l]
      BY <1>1, <1>4, <1>7, <2>2
    <3>2. g + 1 - l < s
      BY <1>1, <1>2, <1>5, <2>2
    <3>3. g + 1 - l <= Spare(n)
      BY <1>2, <3>2 DEF Spare
    <3>4. Images1(l, g + 1) \in Seq(Nat) /\ Len(Images1(l, g + 1)) <= Spare(n) /\ l <= g + 1
      BY <1>2, <1>4, <1>5, <3>3
    <3> QED
      BY <3>1, <3>4
  <2> QED
    BY <2>1, <2>2
<1>9. /\ mem' \in [held : Seq(Nat), given : Nat, last : Nat, most : Nat]
      /\ mem'.held = kept /\ mem'.given = g + 1 /\ mem'.last = m /\ mem'.most = n
  <2>1. PICK j \in Nat : j = g + 1
    OBVIOUS
  <2>2. mem' = [mem EXCEPT !.given = j, !.held = kept, !.last = m]
    BY <1>8, <2>1
  <2>3. mem' \in [held : Seq(Nat), given : Nat, last : Nat, most : Nat]
    BY <1>0, <2>2
  <2>4. mem'.held = kept /\ mem'.given = j /\ mem'.last = m /\ mem'.most = mem.most
    BY <1>0, <2>2
  <2> QED
    BY <1>1, <2>1, <2>3, <2>4
<1>10. /\ mem'.last <= mem'.given /\ mem'.held = Images1(mem'.last, mem'.given)
       /\ par'.steps <= mem'.most /\ Len(mem'.held) <= Spare(mem'.most)
  BY <1>0, <1>1, <1>2, <1>8, <1>9
<1>13. MemOK'
  BY <1>0, <1>9, <1>10 DEF MemOK
<1>11. ParOK'
  BY <1>0 DEF ElementInv, ParOK
<1>12. OutOK'
  BY <1>0, OnLegal DEF Legal
<1> QED
  BY <1>0, <1>11, <1>12, <1>13, RunKeeps

(* An element about whose members and properties nothing is said.             *)
Loose == {"runavg", "subtractor", "trigger", "test", "subimage", "video"}
LEMMA LooseKeeps ==
    ASSUME ElementInv, element' = element, element \in Loose, running' \in BOOLEAN, OutOK'
    PROVE  ElementInv'
  BY DEF Loose, ElementInv, ParOK, MemOK, SlashOK

LEMMA AverageRuns == ASSUME ElementInv, Average PROVE ElementInv'
<1>0. element = "average" /\ running = TRUE /\ par \in [frames : Nat \ {0}]
  BY DEF Average, ElementInv, ParOK
<1> DEFINE pin == Pin({"8U", "32F"}, 1..4)
<1>1. PICK a \in Images, k \in Values \cup {par.frames} :
          LET p == [frames |-> NumFrames(k, par.frames)]
              enough == mem.total >= p.frames
          IN \/ Ends(p)
             \/ /\ Accepts(pin, a) /\ par' = p
                /\ Puts(IF enough THEN {[a EXCEPT !.depth = "8U"]} ELSE {}, pin)
  BY DEF Average
<1>2. PICK p : p = [frames |-> NumFrames(k, par.frames)]
  OBVIOUS
<1>3. p \in [frames : Nat \ {0}]
  <2>1. k \in Int /\ par.frames \in Nat \ {0}
    BY <1>0, FormatAssumption
  <2>2. NumFrames(k, par.frames) \in Nat \ {0}
    BY <2>1 DEF NumFrames
  <2> QED
    BY <1>2, <2>2
<1>4. CASE Ends(p)
  <2>1. running' = FALSE /\ mem' = StoppedMem /\ out' = {} /\ par' = p /\ element' = element
    BY <1>4 DEF Ends
  <2>2. MemOK'
    BY <2>1, StoppedKeeps DEF ElementInv
  <2>3. ParOK'
    BY <1>0, <1>3, <2>1 DEF ParOK
  <2>4. SlashOK' /\ OutOK'
    BY <2>1 DEF SlashOK, OutOK
  <2> QED
    BY <2>1, <2>2, <2>3, <2>4 DEF ElementInv
<1>5. CASE ~Ends(p)
  <2>1. /\ Accepts(pin, a) /\ par' = p /\ UNCHANGED <<element, running>>
        /\ \/ out' = On(pin, {[a EXCEPT !.depth = "8U"]})
           \/ out' = On(pin, {})
    BY <1>1, <1>2, <1>5 DEF Puts
  <2>q. "8U" \in pin.depths
    BY DEF Pin
  <2> HIDE DEF pin
  <2>2. a.ch \in pin.channels
    BY <2>1 DEF Accepts
  <2>3. Legal(pin, {[a EXCEPT !.depth = "8U"]}) /\ Legal(pin, {})
    BY <2>2, <2>q, LegalDepth DEF Legal
  <2>4. OutOK'
    BY <2>1, <2>3, OnLegal
  <2>5. ParOK'
    BY <1>0, <1>3, <2>1 DEF ParOK
  <2>6. MemOK'
    BY <1>0, <2>1 DEF MemOK
  <2> QED
    BY <1>0, <2>1, <2>4, <2>5, <2>6, RunKeeps
<1> QED
  BY <1>4, <1>5

LEMMA UndeclaredMemory ==
    ASSUME ElementInv, RunningAverage \/ BackgroundSubtractor \/ TestProducer
    PROVE  ElementInv'
<1>1. CASE End
  BY <1>1, EndKeeps
<1>2. CASE ~End
  <2>1. element' = element /\ element \in {"runavg", "subtractor", "test"} /\ running' \in BOOLEAN
    BY <1>2 DEF RunningAverage, BackgroundSubtractor, TestProducer, Puts, ElementInv
  <2>2. OutOK'
    BY <2>1 DEF OutOK, Undeclared
  <2> QED
    BY <2>1, <2>2, LooseKeeps DEF Loose
<1> QED
  BY <1>1, <1>2

LEMMA ForegroundRuns == ASSUME ElementInv, ForegroundDetector PROVE ElementInv'
<1>1. CASE End
  BY <1>1, EndKeeps
<1>2. CASE ~End
  <2>1. element = "foreground" /\ running = TRUE /\ UNCHANGED <<element, running, par>>
    BY <1>2 DEF ForegroundDetector, ElementInv
  <2>2. OutOK'
    BY <2>1 DEF OutOK, Undeclared
  <2>3. MemOK' /\ ParOK'
    BY <2>1 DEF MemOK, ParOK, ElementInv
  <2> QED
    BY <2>1, <2>2, <2>3, RunKeeps
<1> QED
  BY <1>1, <1>2

LEMMA TriggerRuns == ASSUME ElementInv, Trigger PROVE ElementInv'
<1>1. element = "trigger" /\ UNCHANGED <<element, running>> /\ out' = On(Any, {})
  BY DEF Trigger, Puts
<1>2. OutOK'
  BY <1>1, OnLegal DEF Legal
<1> QED
  BY <1>1, <1>2, LooseKeeps DEF Loose, ElementInv

LEMMA SnapshotRuns == ASSUME ElementInv, Snapshot PROVE ElementInv'
<1>0. element = "snapshot" /\ mem.shot \in Images \cup {None}
  BY DEF Snapshot, ElementInv, MemOK
<1>1. PICK a \in Images, make \in BOOLEAN, shot \in Images \cup {None} :
          /\ shot = IF make THEN a ELSE mem.shot
          /\ mem' = [shot |-> shot]
          /\ out' = On(Any, IF make \/ (shot # None /\ par.keep) THEN {shot} ELSE {})
          /\ UNCHANGED <<element, running>>
  <2>1. PICK a \in Images, trigger \in BOOLEAN :
        LET make == trigger \/ par.make
            shot == IF make THEN a ELSE mem.shot
        IN /\ mem' = [shot |-> shot]
           /\ out' = On(Any, IF make \/ (shot # None /\ par.keep) THEN {shot} ELSE {})
           /\ UNCHANGED <<element, running>>
    BY DEF Snapshot, Puts
  <2>2. CASE trigger \/ par.make
    BY <1>0, <2>1, <2>2
  <2>3. CASE ~(trigger \/ par.make)
    BY <1>0, <2>1, <2>3
  <2> QED
    BY <2>2, <2>3
<1>2. shot \in Images \cup {None} /\ (make \/ shot # None => shot \in Images)
  BY <1>0, <1>1
<1>3. Legal(Any, IF make \/ (shot # None /\ par.keep) THEN {shot} ELSE {})
  <2>1. CASE shot \in Images
    <3>1. Legal(Any, {shot}) /\ Legal(Any, {})
      BY <2>1, LegalAny DEF Legal
    <3> QED
      BY <3>1
  <2>2. CASE shot \notin Images
    BY <1>2, <2>2 DEF Legal
  <2> QED
    BY <2>1, <2>2
<1>4. OutOK'
  BY <1>1, <1>3, OnLegal
<1>5. mem'.shot = shot
  BY <1>1
<1>6. MemOK' /\ ParOK'
  BY <1>0, <1>1, <1>2, <1>5 DEF MemOK, ParOK
<1> QED
  BY <1>0, <1>1, <1>4, <1>6, RunKeeps

LEMMA SubImageRuns == ASSUME ElementInv, CropSubImage PROVE ElementInv'
<1>1. CASE End
  BY <1>1, EndKeeps
<1>2. CASE ~End
  <2>1. PICK a \in Images, R \in SUBSET Sizes : out' = On(Any, {[a EXCEPT !.size = d] : d \in R}) /\ Rest
    BY <1>2 DEF CropSubImage, Puts, Rest
  <2>2. ASSUME NEW b \in {[a EXCEPT !.size = d] : d \in R}
        PROVE  Accepts(Any, b) /\ b.size[1] > 0 /\ b.size[2] > 0
    <3>1. PICK d \in R : b = [a EXCEPT !.size = d]
      OBVIOUS
    <3>2. b.depth = a.depth /\ b.ch = a.ch /\ b.size = d
      BY <3>1 DEF Images
    <3>3. d[1] > 0 /\ d[2] > 0
      BY FormatAssumption
    <3>4. Accepts(Any, b)
      BY <3>2, ImageFacts DEF Accepts
    <3> QED
      BY <3>2, <3>3, <3>4
  <2>3. OutOK'
    BY <2>1, <2>2, OnLegal DEF Legal
  <2> QED
    BY <2>1, <2>3, PutKeeps DEF Rest
<1> QED
  BY <1>1, <1>2

(* Saving: an image that is written has a file nobody had.                    *)
LEMMA FewFiles == \A k \in 1..2 : IsFiniteSet(FilesOf(k))
<1>1. FilesOf(1) = {<<0, par.ext>>}
  BY DEF FilesOf
<1>2. FilesOf(2) = {<<1, par.ext>>} \cup {<<2, par.ext>>}
  BY DEF FilesOf
<1>3. IsFiniteSet({<<0, par.ext>>}) /\ IsFiniteSet({<<1, par.ext>>}) /\ IsFiniteSet({<<2, par.ext>>})
  BY FS_Singleton
<1>4. IsFiniteSet(FilesOf(2))
  BY <1>2, <1>3, FS_Union, ZenonT(30)
<1>5. \A k \in 1..2 : k = 1 \/ k = 2
  OBVIOUS
<1> QED
  BY <1>1, <1>3, <1>4, <1>5

LEMMA SaveRuns == ASSUME ElementInv, SaveImageToFile PROVE ElementInv'
<1>0. /\ element = "save" /\ running = TRUE /\ out' = {} /\ UNCHANGED <<element, par>>
      /\ running' \in BOOLEAN
      /\ mem.full \subseteq mem.files /\ IsFiniteSet(mem.full) /\ mem.saved = Cardinality(mem.full)
  BY DEF SaveImageToFile, ElementInv, MemOK
<1>1. CASE mem' = mem
  BY <1>0, <1>1 DEF ElementInv, ParOK, MemOK, SlashOK, OutOK
<1>2. CASE mem' # mem
  <2>1. PICK k \in 1..2 : \E made \in SUBSET (FilesOf(k) \ mem.files) : \E good \in SUBSET made :
            mem' = [files |-> mem.files \cup made, full |-> mem.full \cup good,
                    saved |-> mem.saved + Cardinality(good)]
    BY <1>2 DEF SaveImageToFile
  <2>2. PICK made \in SUBSET (FilesOf(k) \ mem.files) : \E good \in SUBSET made :
            mem' = [files |-> mem.files \cup made, full |-> mem.full \cup good,
                    saved |-> mem.saved + Cardinality(good)]
    BY <2>1
  <2>3. PICK good \in SUBSET made :
            mem' = [files |-> mem.files \cup made, full |-> mem.full \cup good,
                    saved |-> mem.saved + Cardinality(good)]
    BY <2>2
  <2>4. IsFiniteSet(good)
    <3>1. good \subseteq FilesOf(k) /\ IsFiniteSet(FilesOf(k))
      BY FewFiles
    <3> QED
      BY <3>1, FS_Subset
  <2>5. mem.full \cap good = {} /\ Cardinality({}) = 0
    BY <1>0, FS_EmptySet
  <2>6. /\ IsFiniteSet(mem.full \cup good)
        /\ Cardinality(mem.full \cup good)
             = Cardinality(mem.full) + Cardinality(good) - Cardinality(mem.full \cap good)
    BY <1>0, <2>4, FS_Union
  <2>7. Cardinality(mem.full) \in Nat /\ Cardinality(good) \in Nat
    BY <1>0, <2>4, FS_CardinalityType
  <2>8. Cardinality(mem.full \cup good) = mem.saved + Cardinality(good)
    <3>1. Cardinality(mem.full \cap good) = 0
      BY <2>5
    <3>2. PICK c \in Nat, e \in Nat : c = Cardinality(mem.full) /\ e = Cardinality(good)
      BY <2>7
    <3>3. Cardinality(mem.full \cup good) = c + e - 0
      BY <2>6, <3>1, <3>2
    <3>4. c + e - 0 = c + e
      OBVIOUS
    <3> QED
      BY <1>0, <3>2, <3>3, <3>4
  <2>9. mem'.full = mem.full \cup good /\ mem'.files = mem.files \cup made
        /\ mem'.saved = mem.saved + Cardinality(good)
    BY <2>3
  <2>10. mem'.full \subseteq mem'.files
    BY <1>0, <2>9
  <2>11. MemOK'
    BY <1>0, <2>6, <2>8, <2>9, <2>10 DEF MemOK
  <2>12. ParOK' /\ SlashOK' /\ OutOK'
    BY <1>0 DEF ElementInv, ParOK, SlashOK, OutOK
  <2> QED
    BY <1>0, <2>11, <2>12 DEF ElementInv
<1> QED
  BY <1>1, <1>2

LEMMA DirectoryRuns == ASSUME ElementInv, ImageDirectoryProducer PROVE ElementInv'
<1>0. /\ element = "directory" /\ running = TRUE /\ mem.idx < mem.files
      /\ mem \in [files : Nat, idx : Nat]
  BY DEF ImageDirectoryProducer, ElementInv, MemOK
<1>1. CASE End
  BY <1>1, EndKeeps
<1>2. CASE ~End
  <2>1. PICK a \in Images : out' = On(Any, {a}) /\ mem' = [mem EXCEPT !.idx = mem.idx + 1]
                            /\ UNCHANGED <<element, running, par>>
    BY <1>2 DEF ImageDirectoryProducer, Puts
  <2>2. OutOK'
    BY <2>1, LegalAny, OnLegal
  <2>3. PICK i \in Nat, f \in Nat : i = mem.idx + 1 /\ f = mem.files /\ i <= f
    BY <1>0
  <2>4. mem' \in [files : Nat, idx : Nat] /\ mem'.idx = i /\ mem'.files = f
    BY <1>0, <2>1, <2>3
  <2>5. MemOK'
    BY <1>0, <2>1, <2>3, <2>4 DEF MemOK
  <2>6. ParOK'
    BY <2>1 DEF ElementInv, ParOK
  <2> QED
    BY <1>0, <2>1, <2>2, <2>5, <2>6, RunKeeps
<1> QED
  BY <1>1, <1>2

LEMMA ImageRuns == ASSUME ElementInv, ImageProducer PROVE ElementInv'
<1>0. /\ element = "image" /\ running = TRUE
      /\ mem \in [loaded : BOOLEAN, waiting : BOOLEAN, puts : 0..1]
      /\ mem.waiting => mem.puts = 0
  BY DEF ImageProducer, ElementInv, MemOK
<1>1. PICK a \in Images : out' = On(Any, IF mem.waiting THEN {a} ELSE {})
                          /\ UNCHANGED <<element, running, par>>
  BY DEF ImageProducer, Puts
<1>2. mem' = [mem EXCEPT !.waiting = FALSE, !.puts = mem.puts + IF mem.waiting THEN 1 ELSE 0]
  BY DEF ImageProducer
<1>3. Legal(Any, {a}) /\ Legal(Any, {})
  BY LegalAny DEF Legal
<1>4. OutOK'
  <2>1. out' = On(Any, {a}) \/ out' = On(Any, {})
    BY <1>1
  <2> QED
    BY <1>3, <2>1, OnLegal
<1>5. PICK p \in 0..1 : p = mem.puts + IF mem.waiting THEN 1 ELSE 0
  <2>1. mem.puts \in 0..1
    BY <1>0
  <2> QED
    BY <1>0, <2>1
<1>6. mem' = [mem EXCEPT !.waiting = FALSE, !.puts = p]
  BY <1>2, <1>5
<1>7. mem' \in [loaded : BOOLEAN, waiting : BOOLEAN, puts : 0..1] /\ mem'.waiting = FALSE
  BY <1>0, <1>6
<1>8. MemOK' /\ ParOK'
  <2>1. MemOK'
    BY <1>0, <1>1, <1>7 DEF MemOK
  <2>2. ParOK'
    BY <1>1 DEF ElementInv, ParOK
  <2> QED
    BY <2>1, <2>2
<1> QED
  BY <1>0, <1>1, <1>4, <1>8, RunKeeps

LEMMA VideoRuns == ASSUME ElementInv, VideoProducer PROVE ElementInv'
<1>0. element = "video"
  BY DEF VideoProducer
<1>1. CASE End
  BY <1>1, EndKeeps
<1>2. CASE ~End
  <2>1. UNCHANGED <<element, running>> /\ (out' = out \/ \E a \in Images : out' = On(Any, {a}))
    BY <1>2 DEF VideoProducer, Puts
  <2>2. CASE out' = out
    <3>1. OutOK'
      BY <2>1, <2>2 DEF ElementInv, OutOK
    <3> QED
      BY <1>0, <2>1, <3>1, LooseKeeps DEF Loose, ElementInv
  <2>3. CASE \E a \in Images : out' = On(Any, {a})
    <3>1. OutOK'
      BY <2>3, LegalAny, OnLegal
    <3> QED
      BY <1>0, <2>1, <3>1, LooseKeeps DEF Loose, ElementInv
  <2> QED
    BY <2>1, <2>2, <2>3
<1> QED
  BY <1>1, <1>2

LEMMA BlobsRuns == ASSUME ElementInv, BlobProducer PROVE ElementInv'
<1> DEFINE pin == Pin({"8U"}, {1})
<1>1. PICK d \in Sizes : out' = On(pin, {[depth |-> "8U", ch |-> 1, size |-> d]}) /\ Rest
  BY DEF BlobProducer, Puts, Rest
<1>2. PICK b : b = [depth |-> "8U", ch |-> 1, size |-> d]
  OBVIOUS
<1>3. b.depth = "8U" /\ b.ch = 1 /\ b.size = d
  BY <1>2
<1>4. Accepts(pin, b)
  BY <1>3 DEF Accepts, Pin
<1>5. Legal(pin, {b})
  BY <1>3, <1>4, FormatAssumption DEF Legal
<1> HIDE DEF pin
<1>6. OutOK'
  BY <1>1, <1>2, <1>5, OnLegal
<1> QED
  BY <1>1, <1>6, PutKeeps DEF Rest

LEMMA RunsKeep == ASSUME ElementInv, Run PROVE ElementInv'
<1>1. CASE \/ Add \/ Sub \/ Multiply \/ Xor \/ Diff \/ Mask \/ Stitch \/ Split \/ CropImage
           \/ EdgeDetectorSobel \/ EdgeDetectorCanny \/ EdgeDetectorLaplace \/ GaussianSmooth
           \/ ImageCornerHarris \/ DilateErode
  BY <1>1, ArithmeticRuns, SubRuns, UndeclaredRuns, SplitRuns, CropRuns, CannyRuns, HarrisRuns,
     SimpleRuns
<1>2. CASE \/ ImageThreshold \/ ImageFlip \/ ExampleProcessor
           \/ PixelSum \/ ImageColorConvert \/ ViolaJonesFaceDetector
           \/ KinectThreshold \/ BlobDetector \/ VPBlobToStringConverter \/ HelloWorldProcessor
  BY <1>2, PickyRuns, SimpleRuns, SilentRuns, ConvertRuns, DetectorRuns
<1>3. CASE \/ DelayImage \/ Average \/ RunningAverage \/ ForegroundDetector \/ BackgroundSubtractor
           \/ Trigger \/ Snapshot \/ CropSubImage \/ SaveImageToFile
  BY <1>3, DelayRuns, AverageRuns, UndeclaredMemory, ForegroundRuns, TriggerRuns, SnapshotRuns,
     SubImageRuns, SaveRuns
<1>4. CASE \/ ImageDirectoryProducer \/ ImageProducer \/ VideoProducer \/ BlobProducer \/ TestProducer
  BY <1>4, DirectoryRuns, ImageRuns, VideoRuns, BlobsRuns, UndeclaredMemory
<1> QED
  BY <1>1, <1>2, <1>3, <1>4 DEF Run

LEMMA FirstPar == ASSUME FInit PROVE ParOK
<1> USE DEF FInit, InitialPar
<1>1. element = "sobel" => par = [x |-> 1, y |-> 0, kernel |-> 3]
  BY DEF SobelPar
<1>2. element = "canny" \/ element = "laplace" => par = [kernel |-> 3]
  BY DEF CannyPar, LaplacePar
<1>3. element = "harris" => par = [kernel |-> 3, block |-> 3]
  BY DEF HarrisPar
<1>4. element = "gaussian" => par = [kernel |-> 1, height |-> 1]
  BY DEF GaussianPar
<1>5. element = "crop" => par = [x1 |-> 0, x2 |-> 0, y1 |-> 0, y2 |-> 0]
  BY DEF CropPar
<1>6. element = "dilate" => par = [erosion |-> 0, dilation |-> 0]
  BY DEF DilatePar
<1>7. element = "convert" => par = [code |-> "RGB2GRAY", narrowed |-> FALSE]
  BY DEF ConvertPar
<1>8. element = "delay" => par = [steps |-> 5]
  BY DEF DelayPar
<1>9. element = "average" => par = [frames |-> 10]
  BY DEF AveragePar
<1>10. element = "blobs" => par = [blobs |-> 10]
  BY DEF BlobsPar
<1>11. element = "save" => par = [dir |-> "slash", ext |-> ".bmp"]
  BY DEF SavePar
<1>12. element = "detector" => par = [min |-> 0]
  BY DEF DetectorPar
<1>13. 3 \in Odd(1, 7) /\ 3 \in Odd(3, 7) /\ 1 \in OddSizes /\ 5 \in 0..MaxSteps
  BY DelayAssumption DEF Odd, OddSizes
<1> QED
  <2> USE DEF ParOK
  <2>1. CASE element \in {"sobel", "canny", "laplace", "harris", "gaussian"}
    BY <1>1, <1>2, <1>3, <1>4, <1>13, <2>1
  <2>2. CASE element = "crop"
    <3>1. par \in [{"x1", "x2", "y1", "y2"} -> Nat]
      BY <1>5, <2>2
    <3> QED
      BY <2>2, <3>1
  <2>4. CASE element = "dilate"
    <3>1. par \in [{"erosion", "dilation"} -> Nat]
      BY <1>6, <2>4
    <3> QED
      BY <2>4, <3>1
  <2>5. CASE element = "convert"
    <3>1. par \in [code : {"RGB2GRAY", "RGB2RGBA", "RGB2BGR"}, narrowed : BOOLEAN]
      <4> HIDE DEF FInit, InitialPar, ParOK
      <4>1. PICK no \in BOOLEAN : no = FALSE
        OBVIOUS
      <4>2. par = [code |-> "RGB2GRAY", narrowed |-> no]
        BY <1>7, <2>5, <4>1
      <4> QED
        BY <4>2
    <3> QED
      BY <2>5, <3>1
  <2>3. CASE element \in {"delay", "average", "blobs", "save", "detector"}
    BY <1>8, <1>9, <1>10, <1>11, <1>12, <1>13, <2>3
  <2> QED
    BY <2>1, <2>2, <2>3, <2>4, <2>5

LEMMA FirstMem == ASSUME FInit PROVE MemOK
<1>0. running = FALSE
  BY DEF FInit
<1> USE DEF FInit, InitialMem
<1>1. element = "delay" => mem = [held |-> <<>>, given |-> 0, last |-> 0, most |-> 0]
  BY DEF DelayMem
<1>2. element = "snapshot" => mem = [shot |-> None]
  BY DEF SnapshotMem
<1>3. element = "foreground" => mem = [model |-> FALSE]
  BY DEF ForegroundMem
<1>4. element = "viola" => mem = [storage |-> FALSE, cascade |-> FALSE]
  BY DEF ViolaMem
<1>5. element = "image" => mem = [loaded |-> FALSE, waiting |-> TRUE, puts |-> 0]
  BY DEF ImageMem
<1>6. element = "directory" => mem = [files |-> 0, idx |-> 0]
  BY DEF DirectoryMem
<1>7. element = "save" => mem = [files |-> {}, full |-> {}, saved |-> 0]
  BY DEF SaveMem
<1>8. element = "blobs" => mem = [length |-> 0]
  OBVIOUS
<1>9. CASE element = "delay"
  <2>1. mem.held = <<>> /\ mem.most = 0
    BY <1>1, <1>9
  <2>2. mem \in [held : Seq(Nat), given : Nat, last : Nat, most : Nat]
    <3>0. <<>> \in Seq(Nat)
      OBVIOUS
    <3>1. PICK e \in Seq(Nat) : e = <<>>
      BY <3>0, Zenon
    <3>2. mem = [held |-> e, given |-> 0, last |-> 0, most |-> 0]
      BY <1>1, <1>9, <3>1
    <3> HIDE DEF FInit, InitialMem
    <3> QED
      BY <3>2
  <2>3. Len(mem.held) <= Spare(mem.most)
    BY <2>1 DEF Spare
  <2> HIDE DEF FInit, InitialMem
  <2> QED
    BY <1>0, <1>9, <2>1, <2>2, <2>3 DEF MemOK
<1> HIDE DEF FInit, InitialMem
<1>10. CASE element = "save"
  <2>1. IsFiniteSet({}) /\ Cardinality({}) = 0
    BY FS_EmptySet
  <2>2. mem.full = {} /\ mem.files = {} /\ mem.saved = 0
    BY <1>7, <1>10
  <2>3. mem.full \subseteq mem.files /\ IsFiniteSet(mem.full) /\ mem.saved = Cardinality(mem.full)
    BY <2>1, <2>2
  <2> QED
    BY <1>10, <2>3 DEF MemOK
<1>11. CASE element \in {"snapshot", "foreground", "viola"}
  <2>1. /\ element = "snapshot" => mem.shot = None
        /\ element = "foreground" => mem.model = FALSE
        /\ element = "viola" => mem.storage = FALSE /\ mem.cascade = FALSE
    BY <1>2, <1>3, <1>4
  <2> QED
    BY <1>0, <1>11, <2>1 DEF MemOK
<1>12. CASE element \in {"image", "directory", "blobs"}
  <2>1. /\ element = "image" => /\ mem \in [loaded : BOOLEAN, waiting : BOOLEAN, puts : 0..1]
                                /\ mem.puts = 0
        /\ element = "directory" => mem \in [files : Nat, idx : Nat] /\ mem.idx <= mem.files
        /\ element = "blobs" => mem \in [length : Nat]
    <3>1. element = "image" => /\ mem \in [loaded : BOOLEAN, waiting : BOOLEAN, puts : 0..1]
                               /\ mem.puts = 0
      <4>1. PICK no \in BOOLEAN, yes \in BOOLEAN : no = FALSE /\ yes = TRUE
        OBVIOUS
      <4>2. element = "image" => mem = [loaded |-> no, waiting |-> yes, puts |-> 0]
        BY <1>5, <4>1
      <4> QED
        BY <4>2
    <3>2. element = "directory" => mem \in [files : Nat, idx : Nat] /\ mem.idx <= mem.files
      BY <1>6
    <3>3. element = "blobs" => mem \in [length : Nat]
      BY <1>8
    <3> QED
      BY <3>1, <3>2, <3>3
  <2> QED
    BY <1>0, <1>12, <2>1 DEF MemOK
<1>13. CASE element \notin {"delay", "save", "snapshot", "foreground", "viola", "image", "directory", "blobs"}
  BY <1>13 DEF MemOK
<1> QED
  BY <1>9, <1>10, <1>11, <1>12, <1>13

LEMMA ElementInvHolds == FSpec => []ElementInv
<1>1. FInit => ElementInv
  <2> SUFFICES ASSUME FInit PROVE ElementInv
    OBVIOUS
  <2>1. running = FALSE /\ out = {}
    BY DEF FInit
  <2> QED
    BY <2>1, FirstPar, FirstMem DEF ElementInv, SlashOK, OutOK
<1>2. ElementInv /\ [FNext]_fvars => ElementInv'
  <2> SUFFICES ASSUME ElementInv, [FNext]_fvars PROVE ElementInv'
    OBVIOUS
  <2>1. CASE Begin
    BY <2>1, BeginKeeps
  <2>2. CASE InitFails
    BY <2>2, InitFailsKeeps
  <2>3. CASE Stop
    BY <2>3, EndKeeps DEF Stop
  <2>4. CASE Set
    BY <2>4, SetKeeps
  <2>5. CASE Run
    BY <2>5, RunsKeep
  <2>6. CASE UNCHANGED fvars
    <3>1. UNCHANGED <<element, running, par, mem>> /\ out' = out
      BY <2>6 DEF fvars
    <3>2. OutOK'
      BY <3>1 DEF ElementInv, OutOK
    <3> QED
      BY <3>1, <3>2, PutKeeps
  <2> QED
    BY <2>1, <2>2, <2>3, <2>4, <2>5, <2>6 DEF FNext
<1> QED
  BY <1>1, <1>2, PTL DEF FSpec

LEMMA LegalByInvariant == ASSUME ElementInv PROVE RunsLegal
<1> USE DEF ElementInv
<1>1. element = "sobel" => /\ par.kernel \in Odd(1, 7) /\ {par.x, par.y} \subseteq 0..1
                           /\ par.x + par.y > 0
  BY DEF ParOK
<1>2. (element = "canny" => par.kernel \in Odd(3, 7)) /\ (element \in {"laplace", "harris"} => par.kernel \in Odd(1, 7))
  BY DEF ParOK
<1>3. element = "harris" => par.block > 0
  BY DEF ParOK
<1>4. element = "gaussian" => /\ par.kernel % 2 = 1 /\ par.kernel > 0
                              /\ par.height % 2 = 1 /\ par.height > 0
  BY DEF ParOK, OddSizes
<1>5. element \in {"crop", "dilate"} => \A p \in DOMAIN par : par[p] >= 0
  BY DEF ParOK
<1>6. (element = "delay" => par.steps \in 0..MaxSteps) /\ (element = "average" => par.frames > 0)
      /\ (element = "detector" => par.min >= 0)
  BY DEF ParOK
<1>7. element = "save" /\ running => par.dir = "slash"
  BY DEF SlashOK
<1>8. element = "blobs" /\ running => mem.length >= par.blobs
  BY DEF MemOK
<1>9. element \notin Undeclared =>
        \A o \in out : Accepts(o[2], o[1]) /\ o[1].size[1] > 0 /\ o[1].size[2] > 0
  BY DEF OutOK
<1> QED
  BY <1>1, <1>2, <1>3, <1>4, <1>5, <1>6, <1>7, <1>8, <1>9 DEF RunsLegal

LEMMA MemoryByInvariant == ASSUME ElementInv PROVE SessionMemory
<1> USE DEF ElementInv, MemOK
<1>1. element = "delay" =>
        /\ ~running => mem.held = <<>>
        /\ running => mem.held = [i \in 1..(mem.given - mem.last) |-> mem.last + i]
        /\ Len(mem.held) <= IF mem.most > 0 THEN mem.most - 1 ELSE 0
  BY DEF Images1, Spare
<1>2. (element = "foreground" /\ ~running => ~mem.model)
      /\ (element = "viola" => mem.storage = running /\ mem.cascade = running)
  OBVIOUS
<1>3. (element = "image" => mem.puts <= 1) /\ (element = "directory" => mem.idx <= mem.files)
  OBVIOUS
<1>4. element = "save" => mem.full \subseteq mem.files /\ mem.saved = Cardinality(mem.full)
  OBVIOUS
<1> QED
  BY <1>1, <1>2, <1>3, <1>4 DEF SessionMemory

\* Every run of every element of the plugins is legal, whatever formats the
\* images have, whatever the setters are called with and in whatever order, over
\* all sessions: OpenCV gets the sizes and orders it takes (the asserts of
\* EdgeDetectorSobel.cpp:91-93), and put() an image its pin declares.
THEOREM RunsAlwaysLegal == FSpec => []RunsLegal
<1>1. ElementInv => RunsLegal
  BY LegalByInvariant
<1> QED
  BY <1>1, ElementInvHolds, PTL

\* What an element remembers belongs to its session, over any number of
\* sessions and with the steps of a delay changed at any time: its list holds
\* exactly the images given and not yet put (DelayImage.cpp:70-89), it is empty
\* when start() asserts it, and no image is saved over another.
THEOREM MemoryOfASession == FSpec => []SessionMemory
<1>1. ElementInv => SessionMemory
  BY MemoryByInvariant
<1> QED
  BY <1>1, ElementInvHolds, PTL
=============================================================================
