----------------------------- MODULE MCPlugins -----------------------------
(* The elements of the plugins and a viewer, for TLC: a pipeline with a       *)
(* camera, one with a pair of Kinects, one that serves its frames over TCP,   *)
(* one with a viewer on a pin, and one with one of the other elements.  They  *)
(* have no state in common: a behaviour is one of one of them.                *)
EXTENDS Camera, Kinect, FrameServer, Viewer, Filters

VARIABLE fitted    \* which of them it is

pvars == <<vars, kvars, svars, vvars, fvars, fitted>>

\* the formats images come in, and the arguments of setters, in an instance
SomeSizes == {<<2, 2>>, <<3, 2>>}
SomeValues == -1..9

PluginsInit ==
    /\ Init /\ KInit /\ ServerInit /\ ViewerInit /\ FInit
    /\ fitted \in {"camera", "kinect", "server", "viewer", "filter"}
    /\ fitted # "server" => maxFlight = 1
    /\ fitted # "viewer" => visible
    /\ fitted # "filter" => element = "add"
Camera(A) == fitted = "camera" /\ A /\ UNCHANGED <<kvars, svars, vvars, fvars, fitted>>
Kinect(A) == fitted = "kinect" /\ A /\ UNCHANGED <<vars, svars, vvars, fvars, fitted>>
Server(A) == fitted = "server" /\ A /\ UNCHANGED <<vars, kvars, vvars, fvars, fitted>>
View(A) == fitted = "viewer" /\ A /\ UNCHANGED <<vars, kvars, svars, fvars, fitted>>
Element(A) == fitted = "filter" /\ A /\ UNCHANGED <<vars, kvars, svars, vvars, fitted>>

\* The threads of the camera and of the Kinects and the main thread are
\* scheduled, the event loops of connection and client run and TCP delivers,
\* and the thread pool converts.  Nothing is assumed of the pipelines, of the
\* user or of lost connections.
PluginsSpec ==
    /\ PluginsInit
    /\ [][\/ Camera(Next) \/ Kinect(KNext) \/ Server(ServerNext)
          \/ View(ViewerNext) \/ Element(FNext)]_pvars
    /\ WF_pvars(Camera(MainThread)) /\ WF_pvars(Camera(CameraThread))
    /\ WF_pvars(Kinect(KinectMain))
    /\ \A d \in Devices : WF_pvars(Kinect(KinectThread(d)))
    /\ WF_pvars(Server(ServerThread)) /\ WF_pvars(Server(AckFrame))
    /\ WF_pvars(Server(Deliver)) /\ WF_pvars(Server(ClientReads))
    /\ WF_pvars(View(MainLoop)) /\ WF_pvars(View(Convert))
=============================================================================
