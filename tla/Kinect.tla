------------------------------- MODULE Kinect -------------------------------
(***************************************************************************)
(* plvmskinect: KinectDevice, a thread per device, and MSKinectProducer,     *)
(* which gives its pipeline the latest depth and video frame of every device.*)
(* The main thread calls init, start, stop and deinit as Pipeline does.      *)
(*                                                                         *)
(* The Kinect library is external: an instance is made, opened and destroyed,*)
(* any of which but the last may fail, and signals frames.                   *)
(***************************************************************************)
EXTENDS Integers, Sequences

CONSTANTS
    LastDevice,   \* m_deviceCount - 1; devices are 0 .. LastDevice
    MaxAlerts,    \* bound of an instance: frames of one kind per device
    MaxPosted,    \* bound of an instance: frames posted and not yet taken
    MaxRounds     \* bound of an instance: calls of init()

ASSUME KinectAssumption ==
    LastDevice \in Nat /\ MaxAlerts \in Nat /\ MaxPosted \in Nat /\ MaxRounds \in Nat

Devices == 0 .. LastDevice
Kinds == {"depth", "video"}
Streams == Devices \X Kinds
NoFrame == 0

VARIABLES
    kstate,     \* m_state of each device
    instance,   \* what m_nuiInstance of each device points to
    kthread,    \* the thread of each device
    kphase,     \* what the pipeline has done with the producer
    at,         \* the device stop() has come to, LastDevice + 1 if it is not in stop()
    alerts,     \* number of the last frame of each kind of each device
    kposted,    \* frames posted to the main thread
    latest,     \* m_depthFrames and m_videoFrames
    kready,     \* readyToProduce() has answered true and the run is dispatched
    put,        \* history: the last frames produced
    overtaken,  \* history: stop() came to a device whose thread had not begun run()
    rounds

kvars == <<kstate, instance, kthread, kphase, at, alerts, kposted, latest, kready, put,
           overtaken, rounds>>

Idle == at = LastDevice + 1
Each(x) == [d \in Devices |-> x]
NoFrames == [s \in Streams |-> NoFrame]

KInit ==
    /\ kstate = Each("UNINITIALIZED") /\ instance = Each("null") /\ kthread = Each("none")
    /\ kphase = "undefined" /\ at = LastDevice + 1
    /\ alerts = NoFrames /\ kposted = <<>> /\ latest = NoFrames
    /\ kready = FALSE /\ put = NoFrames
    /\ overtaken = FALSE
    /\ rounds = 0

-----------------------------------------------------------------------------
(* The main thread. *)

(* KinectDevice::init() asserts that the device is uninitialised; zero() and  *)
(* the library's answer set the instance.  bad is the device that fails,       *)
(* LastDevice + 1 if none, and how it is left; the ones before it are          *)
(* deinitialised again, the ones after it keep what they had.                  *)
InitDevices(bad, left) ==
    /\ Idle /\ kphase = "undefined" /\ rounds < MaxRounds
    /\ \A d \in Devices : d <= bad => kstate[d] = "UNINITIALIZED"
    /\ rounds' = rounds + 1
    /\ instance' = [d \in Devices |-> CASE d < bad /\ bad > LastDevice -> "open"
                                        [] d < bad /\ bad <= LastDevice -> "destroyed"
                                        [] d = bad -> left
                                        [] OTHER -> instance[d]]
    /\ kstate' = IF bad > LastDevice THEN Each("INITIALIZED") ELSE kstate
    /\ kphase' = IF bad > LastDevice THEN "initialized" ELSE "stopped"
    /\ UNCHANGED <<kthread, at, alerts, kposted, latest, kready, put, overtaken>>

(* start(): QThread::start(); the state changes only when run() begins.        *)
KStart ==
    /\ Idle /\ kphase = "initialized"
    /\ kphase' = "started"
    /\ kthread' = [d \in Devices |-> IF kstate[d] = "INITIALIZED" /\ kthread[d] = "none"
                                     THEN "starting" ELSE kthread[d]]
    /\ UNCHANGED <<kstate, instance, at, alerts, kposted, latest, kready, put, overtaken, rounds>>

(* stop(), device by device: asks a running thread to stop and waits for it.   *)
KStop ==
    /\ Idle /\ kphase = "started" /\ ~kready
    /\ kphase' = "stopped"
    /\ at' = 0
    /\ UNCHANGED <<kstate, instance, kthread, alerts, kposted, latest, kready, put, overtaken, rounds>>
RequestStop ==
    /\ ~Idle /\ kstate[at] = "RUNNING"
    /\ kstate' = [kstate EXCEPT ![at] = "STOP_REQUESTED"]
    /\ UNCHANGED <<instance, kthread, kphase, at, alerts, kposted, latest, kready, put, overtaken, rounds>>
StopDoneEarly == kstate[at] # "RUNNING"              \* mutant: no QThread::wait()
StopDone == kstate[at] = "INITIALIZED"
NextDevice ==
    /\ ~Idle /\ StopDone
    /\ overtaken' = (overtaken \/ kthread[at] = "starting")
    /\ at' = at + 1
    /\ UNCHANGED <<kstate, instance, kthread, kphase, alerts, kposted, latest, kready, put, rounds>>

(* deinit(): m_nuiInstance is destroyed and keeps its value.                   *)
Destroyed(i) == IF i = "null" THEN "null" ELSE "destroyed"
Deinit ==
    /\ Idle /\ kphase \in {"initialized", "stopped"}
    /\ instance' = [d \in Devices |-> Destroyed(instance[d])]
    /\ kstate' = Each("UNINITIALIZED")
    /\ kphase' = "undefined"
    /\ UNCHANGED <<kthread, at, alerts, kposted, latest, kready, put, overtaken, rounds>>

-----------------------------------------------------------------------------
(* The thread of device d: run(), which looks at the state every 100 ms. *)

RunBegins(d) ==
    /\ kthread[d] = "starting"
    /\ kthread' = [kthread EXCEPT ![d] = "loop"]
    /\ kstate' = [kstate EXCEPT ![d] = "RUNNING"]
    /\ UNCHANGED <<instance, kphase, at, alerts, kposted, latest, kready, put, overtaken, rounds>>
StopSeenLate(d) == kstate[d] = "UNINITIALIZED"        \* mutant: the wrong state
StopSeen(d) == kstate[d] = "STOP_REQUESTED"
RunEnds(d) ==
    /\ kthread[d] = "loop" /\ StopSeen(d)
    /\ kthread' = [kthread EXCEPT ![d] = "none"]
    /\ kstate' = [kstate EXCEPT ![d] = "INITIALIZED"]
    /\ UNCHANGED <<instance, kphase, at, alerts, kposted, latest, kready, put, overtaken, rounds>>

(* Nui_GotDepthAlert, Nui_GotVideoAlert: a frame is posted.                    *)
GotAlert(s) ==
    /\ kthread[s[1]] = "loop" /\ ~StopSeen(s[1]) /\ instance[s[1]] = "open"
    /\ alerts[s] < MaxAlerts /\ Len(kposted) < MaxPosted
    /\ alerts' = [alerts EXCEPT ![s] = @ + 1]
    /\ kposted' = Append(kposted, <<s, alerts[s] + 1>>)
    /\ UNCHANGED <<kstate, instance, kthread, kphase, at, latest, kready, put, overtaken, rounds>>

-----------------------------------------------------------------------------
(* MSKinectProducer. *)

(* newDepthFrame, newVideoFrame *)
NewKinectFrame ==
    LET f == Head(kposted)
    IN  /\ Idle /\ kphase # "stopped" /\ kposted # <<>>
        /\ latest' = [latest EXCEPT ![f[1]] = f[2]]
        /\ kposted' = Tail(kposted)
        /\ UNCHANGED <<kstate, instance, kthread, kphase, at, alerts, kready, put, overtaken, rounds>>

(* readyToProduce(): both frames of every device are there.                    *)
HaveAll == \A s \in Streams : latest[s] # NoFrame
KReady ==
    /\ Idle /\ kphase = "started" /\ ~kready /\ HaveAll
    /\ kready' = TRUE
    /\ UNCHANGED <<kstate, instance, kthread, kphase, at, alerts, kposted, latest, put, overtaken, rounds>>

(* produce() puts the frames and forgets them.                                 *)
ForgottenDepth == [latest EXCEPT ![<<0, "depth">>] = NoFrame]   \* mutant: the others are kept
Forgotten == NoFrames
KProduce ==
    /\ kready
    /\ kready' = FALSE
    /\ put' = latest
    /\ latest' = Forgotten
    /\ UNCHANGED <<kstate, instance, kthread, kphase, at, alerts, kposted, overtaken, rounds>>

KinectMain == RequestStop \/ NextDevice
KinectThread(d) == RunBegins(d) \/ RunEnds(d)

KNext ==
    \/ \E bad \in 0 .. LastDevice + 1, left \in {"null", "open"} : InitDevices(bad, left)
    \/ KStart \/ KStop \/ Deinit
    \/ KinectMain
    \/ \E d \in Devices : KinectThread(d)
    \/ \E s \in Streams : GotAlert(s)
    \/ NewKinectFrame \/ KReady \/ KProduce

KSpec == KInit /\ [][KNext]_kvars

-----------------------------------------------------------------------------
(* run() uses the device's instance and the stop of the pipeline destroys it:  *)
(* no thread is left then, unless stop() overtook the start of a thread.       *)
KinectQuiet ==
    kphase = "undefined" /\ ~overtaken =>
        \A d \in Devices : kthread[d] = "none" /\ instance[d] # "open"

(* Every produce() puts a depth and a video frame of every device, each newer  *)
(* than the one put before.                                                    *)
FramesRenewed ==
    [][put' # put => \A s \in Streams : put'[s] > put[s]]_kvars

(* stop() returns: every thread it waits for sees the request.                 *)
KinectStops == ~Idle ~> Idle
=============================================================================
