------------------------------- MODULE Camera -------------------------------
(***************************************************************************)
(* plvopencv: OpenCVCamera, a thread that grabs frames, and CameraProducer,  *)
(* which buffers them for its pipeline.  The main thread calls init, start,  *)
(* stop and deinit as Pipeline does, and takes the frames the camera thread  *)
(* posts; a worker runs produce().                                           *)
(*                                                                         *)
(* Each step of the camera thread lies between two places where it can be    *)
(* overtaken: m_state is read without m_mutex, and QWaitCondition::wait      *)
(* unlocks m_mutex while it waits and locks it again before it returns.      *)
(***************************************************************************)
EXTENDS Integers, Sequences

CONSTANTS
    MaxBuffer,   \* m_maxBufferSize
    MaxFrames,   \* bound of an instance: the device fails after so many frames
    MaxSessions  \* bound of an instance: calls of init()

ASSUME CameraAssumption ==
    MaxBuffer \in Nat \ {0} /\ MaxFrames \in Nat /\ MaxSessions \in Nat

VARIABLES
    state,     \* m_state
    device,    \* m_captureDevice # 0
    thread,    \* where the camera thread is
    mutex,     \* who holds m_mutex
    phase,     \* what the pipeline has done with the producer
    main,      \* where the main thread is in release()
    imgCount,  \* m_imgCount: the number of the last frame
    posted,    \* frames whose newFrame() is posted to the main thread
    buffer,    \* m_frames
    ready,     \* readyToProduce() has answered true and the run is dispatched
    produced,  \* history: the number of the last frame produced
    sessions

deviceVars == <<state, device, thread, mutex>>
frameVars == <<imgCount, posted, buffer, ready, produced>>
vars == <<deviceVars, phase, main, frameVars, sessions>>

CameraStates == {"UNINITIALIZED", "INITIALIZED", "RUNNING", "PAUSED"}
Places == {"none", "loop", "grab", "emit", "test", "lock", "waiting", "woken", "awake"}
Alive == thread # "none"

Init ==
    /\ state = "UNINITIALIZED" /\ device = FALSE
    /\ thread = "none" /\ mutex = "free"
    /\ phase = "undefined" /\ main = "idle"
    /\ imgCount = 0 /\ posted = <<>> /\ buffer = <<>>
    /\ ready = FALSE /\ produced = 0
    /\ sessions = 0

-----------------------------------------------------------------------------
(* The main thread: Pipeline calls __init, __start, __stop and __deinit. *)

(* init(): the device may fail to open; the pipeline then calls deinit().    *)
InitDevice(ok) ==
    /\ main = "idle" /\ phase = "undefined" /\ sessions < MaxSessions
    /\ sessions' = sessions + 1
    /\ device' = ok
    /\ state' = IF ok THEN "INITIALIZED" ELSE state
    /\ phase' = IF ok THEN "initialized" ELSE "stopped"
    /\ UNCHANGED <<thread, mutex, main, frameVars>>

(* start(): QThread::start() does nothing while the thread runs.             *)
Start ==
    /\ main = "idle" /\ phase = "initialized" /\ mutex = "free"
    /\ phase' = "started"
    /\ state' = IF state = "INITIALIZED" THEN "RUNNING" ELSE state
    /\ thread' = IF state = "INITIALIZED" /\ ~Alive THEN "loop" ELSE thread
    /\ UNCHANGED <<device, mutex, main, frameVars, sessions>>

(* stop() pauses.  No run is under way: the pipeline has waited for it.      *)
Pause ==
    /\ main = "idle" /\ phase = "started" /\ mutex = "free" /\ ~ready
    /\ phase' = "stopped"
    /\ state' = IF state = "RUNNING" THEN "PAUSED" ELSE state
    /\ UNCHANGED <<device, thread, mutex, main, frameVars, sessions>>

(* deinit(), release(): wakes the paused thread, with m_mutex unlocked in    *)
(* between, then waits for it with m_mutex locked.                           *)
Wake == IF thread = "waiting" THEN "woken" ELSE thread
NextStep(s) == CASE s = "PAUSED" -> "relock" [] s = "RUNNING" -> "join" [] OTHER -> "free"
Release ==
    /\ main = "idle" /\ phase \in {"initialized", "stopped"} /\ mutex = "free"
    /\ state' = "UNINITIALIZED"
    /\ main' = NextStep(state)
    /\ thread' = IF state = "PAUSED" THEN Wake ELSE thread
    /\ mutex' = IF state = "PAUSED" THEN "free" ELSE "main"
    /\ UNCHANGED <<device, phase, frameVars, sessions>>
Relock ==
    /\ main = "relock" /\ mutex = "free"
    /\ mutex' = "main" /\ main' = "join"
    /\ UNCHANGED <<state, device, thread, phase, frameVars, sessions>>
JoinedEarly == TRUE                                \* mutant: no QThread::wait()
Joined == ~Alive
Join ==
    /\ main = "join" /\ Joined
    /\ main' = "free"
    /\ UNCHANGED <<deviceVars, phase, frameVars, sessions>>
(* releaseCapture() and the end of release(). *)
ReleaseCapture ==
    /\ main = "free"
    /\ device' = FALSE
    /\ mutex' = "free" /\ main' = "idle"
    /\ phase' = "undefined"
    /\ UNCHANGED <<state, thread, frameVars, sessions>>

-----------------------------------------------------------------------------
(* The camera thread: run(). *)

Goes(from, to) == thread = from /\ thread' = to
Loop ==
    /\ thread = "loop"
    /\ thread' = IF state \in {"RUNNING", "PAUSED"} THEN "grab" ELSE "none"
    /\ UNCHANGED <<state, device, mutex, phase, main, frameVars, sessions>>

(* getFrame(), under m_opencv_mutex: fails when the camera is released or    *)
(* the device gives no frame, and ends the thread.                           *)
Grab ==
    /\ state # "UNINITIALIZED" /\ imgCount < MaxFrames
    /\ Goes("grab", "emit")
    /\ imgCount' = imgCount + 1
    /\ UNCHANGED <<state, device, mutex, phase, main, posted, buffer, ready, produced, sessions>>
GrabFails ==
    /\ Goes("grab", "none")
    /\ UNCHANGED <<state, device, mutex, phase, main, frameVars, sessions>>
EmitNewFrame ==
    /\ Goes("emit", "test")
    /\ posted' = Append(posted, imgCount)
    /\ UNCHANGED <<state, device, mutex, phase, main, imgCount, buffer, ready, produced, sessions>>

(* The test for a pause, outside the mutex; then the wait.                   *)
PausedUnlessRunning == state # "RUNNING"           \* mutant: the wrong test
Paused == state = "PAUSED"
Test ==
    /\ thread = "test"
    /\ thread' = IF Paused THEN "lock" ELSE "loop"
    /\ UNCHANGED <<state, device, mutex, phase, main, frameVars, sessions>>
Wait ==
    /\ mutex = "free"
    /\ Goes("lock", "waiting")
    /\ UNCHANGED <<state, device, mutex, phase, main, frameVars, sessions>>
WakeUp ==
    /\ mutex = "free"
    /\ Goes("woken", "awake")
    /\ mutex' = "camera"
    /\ UNCHANGED <<state, device, phase, main, frameVars, sessions>>
Unlock ==
    /\ Goes("awake", "loop")
    /\ mutex' = "free"
    /\ UNCHANGED <<state, device, phase, main, frameVars, sessions>>

-----------------------------------------------------------------------------
(* CameraProducer's buffer. *)

(* newFrame(), in the main thread, which goes from stop() to deinit() without *)
(* a look at its events: a full buffer loses its oldest frame.                *)
TrimmedAll(b) == <<>>                              \* mutant: clear()
Trimmed(b) == Tail(b)
Added(b) == IF Len(b) > MaxBuffer THEN Trimmed(b) ELSE b
NewFrame ==
    /\ main = "idle" /\ phase # "stopped" /\ posted # <<>>
    /\ buffer' = Added(Append(buffer, Head(posted)))
    /\ posted' = Tail(posted)
    /\ UNCHANGED <<deviceVars, phase, main, imgCount, ready, produced, sessions>>

(* schedule() asks readyToProduce() and dispatches; produce() runs later.    *)
ReadyToProduce ==
    /\ main = "idle" /\ phase = "started" /\ ~ready /\ buffer # <<>>
    /\ ready' = TRUE
    /\ UNCHANGED <<deviceVars, phase, main, imgCount, posted, buffer, produced, sessions>>
Taken == Head(buffer)
Produce ==
    /\ ready /\ buffer # <<>>
    /\ ready' = FALSE
    /\ produced' = Taken
    /\ buffer' = Tail(buffer)
    /\ UNCHANGED <<deviceVars, phase, main, imgCount, posted, sessions>>

MainThread == Relock \/ Join \/ ReleaseCapture
CameraThread ==
    \/ Loop \/ Grab \/ GrabFails \/ EmitNewFrame \/ Test \/ Wait \/ WakeUp \/ Unlock

Next ==
    \/ \E ok \in BOOLEAN : InitDevice(ok)
    \/ Start \/ Pause \/ Release
    \/ MainThread \/ CameraThread
    \/ NewFrame \/ ReadyToProduce \/ Produce

Spec == Init /\ [][Next]_vars

(* The threads are scheduled; nothing is assumed of the user. *)
FairSpec == Spec /\ WF_vars(MainThread) /\ WF_vars(CameraThread) /\ WF_vars(NewFrame)

-----------------------------------------------------------------------------
(* Every variable holds values of its kind. *)
TypeOK ==
    /\ state \in CameraStates /\ device \in BOOLEAN /\ thread \in Places
    /\ mutex \in {"free", "main", "camera"}
    /\ phase \in {"undefined", "initialized", "started", "stopped"}
    /\ main \in {"idle", "relock", "join", "free"}
    /\ imgCount \in 0 .. MaxFrames /\ posted \in Seq(1 .. MaxFrames)
    /\ buffer \in Seq(1 .. MaxFrames) /\ Len(buffer) <= MaxBuffer
    /\ ready \in BOOLEAN /\ produced \in 0 .. MaxFrames /\ sessions \in 0 .. MaxSessions

(* run() uses the capture device without owning it: the device is there as    *)
(* long as the thread is alive, over failures, pauses and releases.           *)
DeviceHeld == Alive => device

(* produce() takes the first frame of a buffer it does not look at again:     *)
(* between the answer of readyToProduce() and the run, newFrame() may throw   *)
(* frames away but never the last one.                                        *)
FrameForRun == ready => buffer # <<>>

(* Frames reach the pipeline in the order they were grabbed, each once, also  *)
(* across a restart, which keeps the buffer of the session before: what has   *)
(* been produced is older than what is buffered, that than what is posted.    *)
Rising(s) == \A i, j \in DOMAIN s : i < j => s[i] < s[j]
Older(s, t) == \A i \in DOMAIN s, j \in DOMAIN t : s[i] < t[j]
After(k, s) == \A i \in DOMAIN s : k < s[i]
FrameOrder ==
    /\ Rising(buffer) /\ Rising(posted) /\ Older(buffer, posted)
    /\ After(produced, buffer) /\ After(produced, posted)

(* Both: what newFrame(), readyToProduce() and produce() do to m_frames        *)
(* between them neither loses the frame of a run nor turns two around.         *)
FramesInTurn == FrameForRun /\ FrameOrder

(* The thread of a camera that was never paused ends when it is released, and *)
(* a released camera that finds its thread outside the pause is freed.        *)
InPause == thread \in {"lock", "waiting", "woken"}
CleanRelease == main # "idle" /\ ~InPause ~> main = "idle"

(* "switching m_state to CAM_UNINITIALIZED will cause the run loop to exit    *)
(* eventually": every call of release() returns.                              *)
ReleaseReturns == main # "idle" ~> main = "idle"
=============================================================================
