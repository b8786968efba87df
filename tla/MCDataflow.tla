----------------------------- MODULE MCDataflow -----------------------------
(* Small pipelines for TLC. *)
EXTENDS Dataflow, TLC

(* A camera whose one output pin feeds two filters; a mixer joins them. *)
DiamondOwner == [camOut |-> "cam", leftOut |-> "left", rightOut |-> "right"]
DiamondFrom == (0 :> "camOut") @@ (1 :> "camOut") @@ (2 :> "leftOut") @@ (3 :> "rightOut")
DiamondTo == (0 :> "left") @@ (1 :> "right") @@ (2 :> "mix") @@ (3 :> "mix")

(* Two cameras, a mixer. *)
PairOwner == [camOut |-> "cam", kinOut |-> "kinect"]
PairFrom == (0 :> "camOut") @@ (1 :> "kinOut")
PairTo == (0 :> "mix") @@ (1 :> "mix")

(* A Kinect whose two pins are mixed, and a viewer of one of them. *)
KinectOwner == [depthOut |-> "kinect", videoOut |-> "kinect"]
KinectFrom == (0 :> "depthOut") @@ (1 :> "videoOut") @@ (2 :> "depthOut")
KinectTo == (0 :> "mix") @@ (1 :> "mix") @@ (2 :> "show")

(* A chain whose connections were made from the end to the start. *)
(* A second pin of the camera is an asynchronous input of the last element: a  *)
(* blurred snapshot and its trigger.                                           *)
FlagOwner == [camOut |-> "cam", blurOut |-> "blur", flagOut |-> "cam"]
FlagFrom == (1 :> "camOut") @@ (0 :> "blurOut") @@ (2 :> "flagOut")
FlagTo == (1 :> "blur") @@ (0 :> "show") @@ (2 :> "show")

(* Which elements may fail. *)
DiamondFaults == {<<"left", "throw">>, <<"mix", "false">>}
PairSetError == {<<"mix", "setError">>}
KinectFaults == PairSetError \cup {<<"kinect", "throw">>}
BlurThrow == {<<"blur", "throw">>}
=============================================================================
