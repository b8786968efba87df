---------------------------- MODULE BlobTracker ----------------------------
(***************************************************************************)
(* plvblobtracker: BlobDetector finds the blobs of a frame, BlobTracker      *)
(* matches them with its tracks by the overlap of their bounding boxes,      *)
(* which Munkres::solve() turns into an assignment.                          *)
(*                                                                         *)
(* A box is an interval <<from, to>>: boxes of one height.  The detector     *)
(* numbers the frames it processes, the tracker knows the serial of the      *)
(* pipeline, which counts all frames.                                        *)
(***************************************************************************)
EXTENDS Munkres

CONSTANTS
    Boxes,          \* the boxes blobs may have
    MaxBlobs,       \* bound of an instance: blobs in a frame
    MaxTracks,      \* bound of an instance: no frame is processed with more tracks
    DieThreshold,   \* dieThreshold of a track
    Word,           \* 2^32 in the code: unsigned numbers are modulo this
    MaxFrames,      \* bound of an instance: frames of the pipeline
    MaxStops        \* bound of an instance: stops of the pipeline

ASSUME TrackerAssumption ==
    /\ \A b \in Boxes : b[1] \in Int /\ b[2] \in Int /\ b[1] < b[2]
    /\ {MaxBlobs, MaxTracks, DieThreshold, MaxFrames, MaxStops} \subseteq Nat
    /\ Word \in Nat /\ Word > DieThreshold + MaxFrames

VARIABLES
    tracks,      \* m_blobTracks
    blobs,       \* the boxes of the frame in process
    idCounter,   \* m_idCounter
    serial,      \* the serial of the frame in process
    iterations,  \* m_iterations of the detector, the frame number of the blobs
    busy,        \* process() is under way
    stops

trackerVars == <<tracks, blobs, idCounter, serial, iterations, stops>>

(* A track: its id, last box and frame, and whether it is dead; history: the  *)
(* serial it was last seen at, and how many frames later it died.             *)
NewTrack(id, b) == [id |-> id, box |-> b, frame |-> iterations, dead |-> FALSE, seen |-> serial, died |-> 0]

TrackerInit ==
    /\ tracks = <<>> /\ blobs = <<>>
    /\ idCounter = 0 /\ serial = 0 /\ iterations = 0
    /\ stops = 0
    /\ busy = FALSE

(* Blob::matchingArea, of boxes of height 1. *)
Overlap(a, b) == Max({0, Min({a[2], b[2]}) - Max({a[1], b[1]})})
(* BlobTrack::matches *)
Matches(t, b) == IF t.dead THEN 0 ELSE Overlap(t.box, b)

(* The cost of giving blob j to track i, and the rest of the square.          *)
SizeOf(bs) == Max({Len(tracks), Len(bs)})
Costs(bs) ==
    LET score(i, j) == Matches(tracks[i + 1], bs[j + 1])
        best == Max({0} \cup {score(i, j) : i \in 0 .. Len(tracks) - 1, j \in 0 .. Len(bs) - 1})
        real(z) == z[1] < Len(tracks) /\ z[2] < Len(bs)
        last == SizeOf(bs) - 1
    IN  [z \in (0 .. last) \X (0 .. last) |->
            IF real(z) /\ score(z[1], z[2]) > 0 THEN best - 1 - score(z[1], z[2]) ELSE Inf]

(* process() begins: the matrix goes to solve(). *)
MatchBlobs(bs) ==
    /\ ~busy /\ step = 0
    /\ serial < MaxFrames /\ Len(tracks) <= MaxTracks
    /\ serial' = serial + 1
    /\ blobs' = bs
    /\ busy' = TRUE
    /\ Enter(SizeOf(bs), Costs(bs))
    /\ UNCHANGED <<tracks, idCounter, iterations, stops>>

(* The blob solve() gives to track i, 0 if it is none of the frame.           *)
MatchOf(i) == LET js == {j \in DOMAIN blobs : mask[<<i - 1, j - 1>>] = "star"}
              IN  IF js = {} THEN 0 ELSE Max(js)
(* addMeasurement *)
Measured(t, b) == [t EXCEPT !.box = b, !.frame = iterations, !.seen = serial]
(* notMatched: unsigned arithmetic. *)
DiesEarly(t) == (serial - t.frame) % Word >= DieThreshold   \* mutant: >=
Dies(t) == (serial - t.frame) % Word > DieThreshold
Missed(t) == [t EXCEPT !.dead = t.dead \/ Dies(t),
                       !.died = IF ~t.dead /\ Dies(t) THEN serial - t.seen ELSE @]

(* Blobs no track has got start tracks of their own.                          *)
LeftOverNone == <<>>                               \* mutant: no new tracks
Free == {j \in DOMAIN blobs : \A i \in DOMAIN tracks : MatchOf(i) # j}
LeftOver == CHOOSE s \in [1 .. Cardinality(Free) -> Free] :
                \A k, l \in DOMAIN s : k < l => s[k] < s[l]
NewId(k) == idCounter + k
FinishMatch ==
    /\ busy /\ step = 0
    /\ tracks' = [i \in DOMAIN tracks |-> IF MatchOf(i) # 0 THEN Measured(tracks[i], blobs[MatchOf(i)])
                                                           ELSE Missed(tracks[i])]
                 \o [k \in DOMAIN LeftOver |-> NewTrack(NewId(k), blobs[LeftOver[k]])]
    /\ idCounter' = idCounter + Len(LeftOver)
    /\ iterations' = iterations + 1
    /\ busy' = FALSE
    /\ Leave
    /\ UNCHANGED <<blobs, serial, stops>>

(* A frame that is NULL at one of the tracker's pins, or that came before the *)
(* tracker was added to the pipeline: the tracker is not asked.  The detector *)
(* has processed it or not.                                                   *)
Skip(detected) ==
    /\ ~busy /\ step = 0 /\ serial < MaxFrames
    /\ serial' = serial + 1
    /\ iterations' = IF detected THEN iterations + 1 ELSE iterations
    /\ blobs' = IF detected THEN <<>> ELSE blobs
    /\ UNCHANGED <<tracks, idCounter, stops, busy, munkresVars>>

(* stop() and deinit(): the tracks are forgotten, not the counters.           *)
Stop ==
    /\ ~busy /\ step = 0 /\ stops < MaxStops
    /\ stops' = stops + 1
    /\ tracks' = <<>> /\ blobs' = <<>>
    /\ UNCHANGED <<idCounter, serial, iterations, busy, munkresVars>>

BlobLists == UNION {[1 .. k -> Boxes] : k \in 0 .. MaxBlobs}
Next ==
    \/ \E bs \in BlobLists : MatchBlobs(bs)
    \/ Solving /\ UNCHANGED <<trackerVars, busy>>
    \/ FinishMatch
    \/ \E detected \in BOOLEAN : Skip(detected)
    \/ Stop

TrackVars == <<trackerVars, busy, munkresVars>>
TrackSpec == TrackerInit /\ Nothing /\ [][Next]_TrackVars

-----------------------------------------------------------------------------
(* Ids name one track each, also across restarts; when a frame is done each  *)
(* of its blobs is the last measurement of just one track: matching neither   *)
(* loses a blob nor gives it away twice.                                      *)
BlobsTracked ==
    /\ \A i, j \in DOMAIN tracks : i < j => tracks[i].id < tracks[j].id
    /\ \A i \in DOMAIN tracks : tracks[i].id \in 1 .. idCounter
    /\ ~busy =>
        LET seen == {i \in DOMAIN tracks : tracks[i].frame = iterations - 1}
        IN  \E f \in [seen -> DOMAIN blobs] :
                /\ \A j \in DOMAIN blobs : Cardinality({i \in seen : f[i] = j}) = 1
                /\ \A i \in seen : blobs[f[i]] = tracks[i].box

(* "track dies if not seen for dieThreshold frames": no track dies earlier,   *)
(* but for the frames that the pipeline has counted and the detector has not, *)
(* in all sessions together: notMatched() takes them for frames in which the  *)
(* track was not seen.                                                        *)
Uncounted == serial - iterations - (IF busy THEN 1 ELSE 0)
DiesInTime ==
    /\ Uncounted >= 0
    /\ \A i \in DOMAIN tracks : tracks[i].dead => tracks[i].died >= DieThreshold - Uncounted

(* "match the old blob to a new detected blob using maximum area converage":  *)
(* no other assignment of the blobs to the tracks covers more.                *)
Coverage(f) == MapThenSumSet(LAMBDA i : IF f[i] = 0 THEN 0 ELSE Matches(tracks[i], blobs[f[i]]),
                             DOMAIN tracks)
MaxCoverage ==
    busy /\ step = 0 =>
        \A f \in [DOMAIN tracks -> 0 .. Len(blobs)] :
            (\A i, j \in DOMAIN tracks : i # j /\ f[i] # 0 => f[i] # f[j])
                => Coverage(f) <= Coverage([i \in DOMAIN tracks |-> MatchOf(i)])
=============================================================================
