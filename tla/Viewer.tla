------------------------------- MODULE Viewer -------------------------------
(* A viewer of plvgui: OpenCVImageRenderer, or OpenCVImageListRenderer for a  *)
(* pin with lists of images.  The pin's newData() is posted from the worker   *)
(* thread of its element to the main thread; ImageConverter converts on a     *)
(* thread of its own and posts the result back.  A frame is its number, and   *)
(* a list the number of its images.                                           *)
EXTENDS Integers, Sequences

CONSTANTS
    Lengths,      \* lengths of the lists put on the pin; {1} for OpenCVImageRenderer
    MaxEvents,    \* bound: events in the main thread's queue
    LastFrame     \* bound: frames put on the pin

ASSUME ViewerAssumption == Lengths \subseteq Nat /\ MaxEvents \in Nat /\ LastFrame \in Nat

VARIABLES
    frame,        \* number of frames put so far
    vevents,      \* the main thread's event queue
    busy,         \* m_busy
    visible,      \* isVisible()
    converting,   \* conversions under way in the thread pool
    shown,        \* the frame that is shown
    widgets       \* number of m_imageWidgets

vvars == <<frame, vevents, busy, visible, converting, shown, widgets>>

Event(kind, n, length) == [kind |-> kind, frame |-> n, length |-> length]
ViewerEvents == [kind : {"newData", "converted"}, frame : Nat, length : Nat]

ViewerInit ==
    /\ frame = 0 /\ vevents = <<>> /\ busy = FALSE /\ visible \in BOOLEAN
    /\ converting = {} /\ shown = 0 /\ widgets = 1

\* IOutputPin::putVariant() emits newData()
PutFrame ==
    /\ frame < LastFrame /\ Len(vevents) < MaxEvents
    /\ frame' = frame + 1
    /\ \E n \in Lengths : vevents' = Append(vevents, Event("newData", frame + 1, n))
    /\ UNCHANGED <<busy, visible, converting, shown, widgets>>

Next1(kind) == vevents # <<>> /\ Head(vevents).kind = kind /\ vevents' = Tail(vevents)

\* a frame that comes while another is converted, or nobody sees, is dropped
DroppedHidden == ~visible                          \* mutant: m_busy is not tested
Dropped == busy \/ ~visible
NewData ==
    /\ Next1("newData")
    /\ busy' = (busy \/ ~Dropped)
    /\ converting' = IF Dropped THEN converting
                     ELSE converting \cup {Event("converted", Head(vevents).frame, Head(vevents).length)}
    /\ UNCHANGED <<frame, visible, shown, widgets>>

\* a type that cannot be converted gives an image with a message in it
Convert ==
    /\ \E c \in converting :
        /\ converting' = converting \ {c}
        /\ vevents' = Append(vevents, c)
    /\ UNCHANGED <<frame, busy, visible, shown, widgets>>

\* widgets are added or deleted until there is one for every image
StillBusyHidden == ~visible                        \* mutant: reset only when shown
StillBusy == FALSE
UpdateImages ==
    /\ Next1("converted")
    /\ shown' = Head(vevents).frame
    /\ widgets' = Head(vevents).length
    /\ busy' = StillBusy
    /\ UNCHANGED <<frame, visible, converting>>

ShowOrHide == visible' = ~visible /\ UNCHANGED <<frame, vevents, busy, converting, shown, widgets>>

MainLoop == NewData \/ UpdateImages
ViewerNext == PutFrame \/ MainLoop \/ Convert \/ ShowOrHide

\* the main thread's loop and the thread pool go on
ViewerSpec == ViewerInit /\ [][ViewerNext]_vvars

----------------------------------------------------------------------------

ViewerTypeOK ==
    /\ frame \in Nat /\ vevents \in Seq(ViewerEvents) /\ busy \in BOOLEAN /\ visible \in BOOLEAN
    /\ converting \subseteq ViewerEvents /\ shown \in Nat /\ widgets \in Nat

Posted(kind) == {i \in 1..Len(vevents) : vevents[i].kind = kind}

\* Frames are shown in the order they were put: what is converted, what waits
\* to be shown and what has not been looked at are newer than what is shown and
\* than each other, in this order; m_busy (OpenCVImageRenderer.cpp:84) lets one
\* frame at a time past, and is set exactly as long as that one is on its way.
ViewerOrder ==
    /\ \A c \in converting : c.frame > shown
    /\ \A i \in 1..Len(vevents) : vevents[i].frame > shown
    /\ \A i \in Posted("converted") : converting = {} /\ busy
    /\ \A i, j \in Posted("converted") : i = j
    /\ \A c, d \in converting : c = d
    /\ converting # {} => busy
    /\ busy => converting # {} \/ Posted("converted") # {}

\* A viewer does not freeze: m_busy is reset (OpenCVImageRenderer.cpp:105) for
\* every frame let past, hidden or not.
ViewerRenewed == busy ~> ~busy
=============================================================================
