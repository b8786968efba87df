----------------------------- MODULE FrameOrder -----------------------------
(***************************************************************************)
(* What the pipeline promises its elements, without queues, scoreboards or *)
(* threads: while it runs, every element gets every frame exactly once and *)
(* in order, never before the elements that feed it, and the producers     *)
(* start each frame together.                                              *)
(***************************************************************************)
EXTENDS Integers

CONSTANTS
    Producers,
    Consumers,      \* elements with a synchronous input
    Feeds(_),       \* the elements on the synchronous inputs of a consumer
    FirstSerial

Elements == Producers \cup Consumers

VARIABLES
    live,       \* the pipeline runs
    first,      \* serial of the first frame after the last start
    next,       \* serial of the next frame
    last        \* serial of the frame each element worked on last, 0 if none

vars == <<live, first, next, last>>

At(e) == IF last[e] = 0 THEN first - 1 ELSE last[e]

Init ==
    /\ live = FALSE
    /\ first = FirstSerial
    /\ next = FirstSerial
    /\ last = [e \in Elements |-> 0]

Start ==
    /\ ~live
    /\ live' = TRUE
    /\ first' = next
    /\ UNCHANGED <<next, last>>

(* A new frame is released when all producers have begun the one before. *)
Release ==
    /\ live
    /\ \A p \in Producers : At(p) = next - 1
    /\ next' = next + 1
    /\ UNCHANGED <<live, first, last>>

(* e turns to the frame that follows its last one. *)
Advance(e) ==
    /\ live
    /\ At(e) + 1 < next
    /\ e \in Consumers => \A x \in Feeds(e) : At(x) >= At(e) + 1
    /\ last' = [last EXCEPT ![e] = At(e) + 1]
    /\ UNCHANGED <<live, first, next>>

Stop ==
    /\ live
    /\ live' = FALSE
    /\ last' = [e \in Elements |-> 0]
    /\ UNCHANGED <<first, next>>

Next == Start \/ Release \/ Stop \/ \E e \in Elements : Advance(e)

Spec == Init /\ [][Next]_vars
=============================================================================
