------------------------------ MODULE Filters ------------------------------
(* The elements of the plugins without threads.  One of them runs in a        *)
(* pipeline, session after session, while its properties are changed through  *)
(* their setters.  A processor runs process() with m_propertyMutex locked     *)
(* (PipelineProcessor.cpp:117), so that a setter and a run exclude each       *)
(* other.  An image is its format; what OpenCV computes is left out, and      *)
(* every call into it may throw.                                              *)
EXTENDS Integers, Sequences, FiniteSets

CONSTANTS
    Depths, Channels, Sizes,   \* the formats of the images the element is given
    Values,                    \* the arguments of the integer setters
    MaxMargin,                 \* bound: margins of a crop
    MaxSteps,                  \* MAX_STEPS of DelayImage.h
    MaxGiven                   \* bound: images given to a delay in one session

ASSUME DelayAssumption == MaxSteps \in Nat /\ MaxSteps >= 5

VARIABLES
    element,   \* which element it is
    running,        \* it is between start() and stop()
    par,       \* its properties
    mem,       \* its other members
    out        \* what the last run put: images, each with the pin it was put on

fvars == <<element, running, par, mem, out>>

Images == [depth : Depths, ch : Channels, size : Sizes]
Pin(depths, channels) == [depths |-> depths, channels |-> channels]
Any == Pin({"8U", "8S", "16U", "16S", "32S", "32F", "64F"}, 1..4)
None == [depth |-> "none", ch |-> 0, size |-> <<0, 0>>]    \* CvMatData()
Refused == {None}      \* process() returns FALSE

\* An image is not empty, has a depth of OpenCV's and at most four channels.
ASSUME FormatAssumption ==
    /\ Depths \subseteq Any.depths /\ Channels \subseteq Any.channels
    /\ \A d \in Sizes : d \in Nat \X Nat /\ d[1] > 0 /\ d[2] > 0
    /\ Values \subseteq Int /\ MaxMargin \in Nat

----------------------------------------------------------------------------
(* Setters.  An even size is moved on in the direction it was changed.        *)

OddWithin(i, old, lo, hi) ==
    IF i < lo THEN lo
    ELSE IF i > hi THEN hi
    ELSE IF i % 2 = 1 THEN i
    ELSE IF i > old THEN i + 1 ELSE i - 1
SobelKernelStuck(i, old) == IF i < 1 THEN 1 ELSE IF i > 7 THEN 7 ELSE i
                                                   \* mutant: even sizes are kept
SobelKernel(i, old) == OddWithin(i, old, 1, 7)
SobelXOrder(x, y) == IF x = 0 /\ y = 0 THEN par.x ELSE x
SobelYOrder(x, y) == IF x = 0 /\ y = 0 THEN par.y ELSE y
CannyAperture(i, old) == OddWithin(i, old, 3, 7)
LaplaceAperture(i, old) == OddWithin(i, old, 1, 7)
HarrisKernel(i, old) == OddWithin(i, old, 1, 7)
HarrisBlock(i) == IF i < 1 THEN 1 ELSE i
\* GaussianSmooth has no largest size
GaussianWidth(i, old) == OddWithin(i, old, 1, i)
GaussianHeight(i, old) == OddWithin(i, old, 1, i)
Margin(i) == IF i < 0 THEN 0 ELSE i
Iterations(i, old) == IF i >= 0 THEN i ELSE old
DelaySteps(i) == IF i < 0 THEN 0 ELSE IF i > MaxSteps THEN MaxSteps ELSE i
NumFrames(i, old) == IF i > 0 THEN i ELSE old
TriggerCount(i, old) == IF i > 0 THEN i ELSE old

\* CV_RGB2GRAY, CV_RGB2RGBA and CV_RGB2BGR are offered
OutChannels(code) ==
    CASE code = "RGB2GRAY" -> 1 [] code = "RGB2RGBA" -> 4 [] code = "RGB2BGR" -> 3

\* BlobProducer: the vectors grow with the number and never shrink below it
Grown(num) == IF num > par.blobs THEN num ELSE mem.length

SetTo(p, v) == par' = [par EXCEPT ![p] = v] /\ UNCHANGED <<element, running, mem, out>>
SetSobel == element = "sobel" /\ \E i \in Values :
    \/ SetTo("kernel", SobelKernel(i, par.kernel))
    \/ i \in 0..1 /\ SetTo("x", SobelXOrder(i, par.y))
    \/ i \in 0..1 /\ SetTo("y", SobelYOrder(par.x, i))
SetKernel == \E i \in Values :
    \/ element = "canny" /\ SetTo("kernel", CannyAperture(i, par.kernel))
    \/ element = "laplace" /\ SetTo("kernel", LaplaceAperture(i, par.kernel))
    \/ element = "harris" /\ \/ SetTo("kernel", HarrisKernel(i, par.kernel))
                             \/ SetTo("block", HarrisBlock(i))
    \/ element = "gaussian" /\ \/ SetTo("kernel", GaussianWidth(i, par.kernel))
                               \/ SetTo("height", GaussianHeight(i, par.height))
SetCrop == element = "crop" /\ \E m \in -1..MaxMargin, p \in DOMAIN par : SetTo(p, Margin(m))
SetMorphology == element = "dilate" /\
    \E i \in Values, p \in DOMAIN par : SetTo(p, Iterations(i, par[p]))
SetConversion == element = "convert" /\
    /\ \E c \in {"RGB2GRAY", "RGB2RGBA", "RGB2BGR"} : par' = [code |-> c, narrowed |-> TRUE]
    /\ UNCHANGED <<element, running, mem, out>>
SetSteps == element = "delay" /\ \E i \in Values :
    /\ par' = [par EXCEPT !.steps = DelaySteps(i)]
    /\ mem' = [mem EXCEPT !.most = IF running /\ DelaySteps(i) > mem.most THEN DelaySteps(i)
                                   ELSE mem.most]
    /\ UNCHANGED <<element, running, out>>
SetNumFrames == element = "average" /\ \E i \in Values : SetTo("frames", NumFrames(i, par.frames))
SetMethod == element = "subtractor" /\
    \/ \E m \in {"gray", "to gray", "to color"} : SetTo("method", m)
    \/ \E r \in BOOLEAN : SetTo("reset", r)
SetTrigger == element = "trigger" /\
    \/ \E i \in Values : SetTo("count", TriggerCount(i, par.count))
    \/ \E b \in BOOLEAN : SetTo("continuous", b) \/ SetTo("activate", b)
SetSnapshot == element = "snapshot" /\
    \E b \in BOOLEAN : SetTo("make", b) \/ SetTo("keep", b)
\* setDirectory() is refused unless the element is PLE_UNDEFINED
SetSave == element = "save" /\
    \/ \E d \in {"plain", "slash"} : ~running /\ SetTo("dir", d)
    \/ \E e \in {".bmp", ".png"} : SetTo("ext", e)
MinBlobSize(i, old) == IF i >= 0 THEN i ELSE old
SetDetector == element = "detector" /\ \E i \in Values : SetTo("min", MinBlobSize(i, par.min))
SetBlobs == element = "blobs" /\ \E i \in Values :
    /\ par' = [par EXCEPT !.blobs = Iterations(i, par.blobs)]
    /\ mem' = [mem EXCEPT !.length = Grown(i)]
    /\ UNCHANGED <<element, running, out>>
Set == \/ SetSobel \/ SetKernel \/ SetCrop \/ SetMorphology \/ SetConversion \/ SetSteps
       \/ SetNumFrames \/ SetMethod \/ SetTrigger \/ SetSnapshot \/ SetBlobs
       \/ SetSave \/ SetDetector

----------------------------------------------------------------------------
(* Sessions.  init() and start(); a failing run, or the user, ends them.      *)

\* The properties that a run's outcome depends on, with their first values.
SobelPar == [x |-> 1, y |-> 0, kernel |-> 3]
CannyPar == [kernel |-> 3]
LaplacePar == [kernel |-> 3]
HarrisPar == [kernel |-> 3, block |-> 3]
GaussianPar == [kernel |-> 1, height |-> 1]
CropPar == [x1 |-> 0, x2 |-> 0, y1 |-> 0, y2 |-> 0]
DilatePar == [erosion |-> 0, dilation |-> 0]
ConvertPar == [code |-> "RGB2GRAY", narrowed |-> FALSE]
DelayPar == [steps |-> 5]
AveragePar == [frames |-> 10]
SubtractorPar == [method |-> "gray", reset |-> TRUE]
TriggerPar == [count |-> 1, activate |-> FALSE, continuous |-> FALSE]
SnapshotPar == [make |-> TRUE, keep |-> FALSE]
BlobsPar == [blobs |-> 10]
SavePar == [dir |-> "slash", ext |-> ".bmp"]
DetectorPar == [min |-> 0]
InitialPar ==
    [sobel |-> SobelPar, canny |-> CannyPar, laplace |-> LaplacePar, harris |-> HarrisPar,
     gaussian |-> GaussianPar, crop |-> CropPar, dilate |-> DilatePar, convert |-> ConvertPar,
     delay |-> DelayPar, average |-> AveragePar, subtractor |-> SubtractorPar,
     trigger |-> TriggerPar, snapshot |-> SnapshotPar, blobs |-> BlobsPar,
     save |-> SavePar, detector |-> DetectorPar]

\* The members that outlive a run.  A delay's `most' is the largest number of
\* steps of the session, `given' and `last' count its images; `files' are those
\* in the directory of SaveImageToFile, `full' those with an image in them.
DelayMem == [held |-> <<>>, given |-> 0, last |-> 0, most |-> 0]
AverageMem == [total |-> 0, avg |-> None]
RunningAverageMem == [avg |-> None]
ForegroundMem == [model |-> FALSE]
SubtractorMem == [background |-> None]
SnapshotMem == [shot |-> None]
ViolaMem == [storage |-> FALSE, cascade |-> FALSE]
DirectoryMem == [files |-> 0, idx |-> 0]
ImageMem == [loaded |-> FALSE, waiting |-> TRUE, puts |-> 0]
VideoMem == [frames |-> 0, grabbed |-> 0, shown |-> 0]
SaveMem == [files |-> {}, full |-> {}, saved |-> 0]
InitialMem ==
    [delay |-> DelayMem, average |-> AverageMem, runavg |-> RunningAverageMem,
     foreground |-> ForegroundMem, subtractor |-> SubtractorMem, snapshot |-> SnapshotMem,
     viola |-> ViolaMem, blobs |-> [length |-> 0], directory |-> DirectoryMem,
     image |-> ImageMem, video |-> VideoMem, save |-> SaveMem]
Stateless == {"add", "sub", "multiply", "mask", "xor", "diff", "split", "stitch",
              "threshold", "flip", "example", "pixelsum", "kinect", "subimage", "tostring",
              "test", "hello"}
Elements == DOMAIN InitialPar \cup DOMAIN InitialMem \cup Stateless

FInit ==
    /\ element \in Elements /\ running = FALSE /\ out = {}
    /\ par = IF element \in DOMAIN InitialPar THEN InitialPar[element] ELSE <<>>
    \* Trigger's constructor does not initialise m_received
    /\ \/ element = "trigger" /\ mem \in [received : 0..2]
       \/ element \in DOMAIN InitialMem /\ mem = InitialMem[element]
       \/ element \notin DOMAIN InitialMem \cup {"trigger"} /\ mem = <<>>

\* what init() and start() make of the members
ReadyMem ==
    CASE element = "average" -> {[mem EXCEPT !.total = 0]}
      [] element = "delay" -> {[mem EXCEPT !.given = 0, !.last = 0, !.most = par.steps]}
      [] element = "viola" -> {[storage |-> TRUE, cascade |-> TRUE]}
      [] element = "blobs" -> {[length |-> par.blobs]}
      [] element = "directory" -> {[files |-> n, idx |-> 0] : n \in 0..2}
      [] element = "image" -> {[loaded |-> TRUE, waiting |-> TRUE, puts |-> 0]}
      [] element = "video" -> {[frames |-> n, grabbed |-> 0, shown |-> 0] : n \in 0..3}
      [] OTHER -> {mem}
StoppedMemHeld ==                 \* mutant: only one element clears its members
    CASE element = "foreground" -> [model |-> FALSE]
      [] OTHER -> mem
\* what stop() and deinit() make of them
StoppedMem ==
    CASE element = "delay" -> [mem EXCEPT !.held = <<>>]
      [] element = "foreground" -> [model |-> FALSE]
      [] element = "viola" -> [storage |-> FALSE, cascade |-> FALSE]
      [] element = "directory" -> [files |-> 0, idx |-> 0]
      [] element = "image" -> [mem EXCEPT !.loaded = FALSE]
      [] OTHER -> mem
\* init() of SaveImageToFile ends the directory's name with a slash
ReadyPar == IF element = "save" THEN [par EXCEPT !.dir = "slash"] ELSE par
Begin ==
    /\ ~running /\ running' = TRUE
    /\ \E m \in ReadyMem : mem' = m
    /\ par' = ReadyPar
    /\ UNCHANGED <<element, out>>
\* init() without its file or directory: the storage of the face detector is
\* allocated by then, and Pipeline::init() calls deinit()
InitFails ==
    /\ element \in {"viola", "directory", "image", "video"} /\ ~running
    /\ mem' = StoppedMem /\ UNCHANGED <<element, running, par, out>>
\* the session ends; p are the properties by then
Ends(p) == running' = FALSE /\ mem' = StoppedMem /\ out' = {} /\ par' = p /\ UNCHANGED element
End == Ends(par)
Stop == running /\ End

----------------------------------------------------------------------------
(* Runs.  get() of an image pin throws on a format it does not support, and   *)
(* put() checks nothing.                                                      *)

Accepts(pin, a) == a.depth \in pin.depths /\ a.ch \in pin.channels
On(pin, images) == {<<a, pin>> : a \in images}
Filter(f, pins, pin, Made(_)) ==
    /\ element = f /\ running
    /\ \E s \in [1..Len(pins) -> Images] :
        \/ End      \* get() or OpenCV throws, or setError() and FALSE
        \/ /\ \A i \in 1..Len(pins) : Accepts(pins[i], s[i])
           /\ Made(s) # Refused
           /\ out' = On(pin, Made(s))
           /\ UNCHANGED <<element, running, par, mem>>
Same(s) == IF s[1] = s[2] THEN {s[1]} ELSE Refused

Add == Filter("add", <<Any, Any>>, Any, Same)
Sub == LET Less(s) == IF s[1].ch = s[2].ch /\ s[1].depth = s[2].depth THEN {s[1]} ELSE Refused
       IN \/ Filter("sub", <<Any, Any>>, Any, Less)
          \/ Filter("sub", <<Any, Any, Pin({"8U", "8S"}, {1})>>, Any, Less)
Multiply == Filter("multiply", <<Any, Any>>, Any, Same)
Xor == Filter("xor", <<Any, Any>>, Any, Same)
Diff == Filter("diff", <<Any, Any>>, Any, LAMBDA s : {s[1]})
Mask == Filter("mask", <<Pin({"8U", "32F"}, {1, 3}), Pin({"8U", "32F"}, {1})>>,
               Pin({"8U"}, {1, 3}), LAMBDA s : {s[1]})
\* the other two inputs, when connected, must have the format's depth and channels too
Stitch == Filter("stitch", <<Pin({"16U"}, 1..4), Pin({"16U"}, 1..4)>>, Pin({"16U"}, {1}),
                 LAMBDA s : IF s[1].ch = s[2].ch
                            THEN {[s[1] EXCEPT !.size = d] : d \in Sizes} ELSE Refused)
\* the channels, one by one
SplitImages(a) == IF a.ch < 2 THEN Refused ELSE {[a EXCEPT !.ch = 1]}
Split == Filter("split", <<Any>>, Pin(Any.depths, {1}), LAMBDA s : SplitImages(s[1]))
\* nothing is put when the margins leave nothing
Cropped(a) ==
    LET w == a.size[1] - (par.x1 + par.x2)
        h == a.size[2] - (par.y1 + par.y2)
    IN IF w <= 0 \/ h <= 0 THEN {} ELSE {[a EXCEPT !.size = <<w, h>>]}
CropImage == Filter("crop", <<Any>>, Any, LAMBDA s : Cropped(s[1]))
EdgeDetectorSobel == Filter("sobel", <<Pin({"8S", "8U", "32F"}, 1..4)>>,
                            Pin({"16S", "32F"}, {}), LAMBDA s : {s[1]})
EdgeDetectorCanny == Filter("canny", <<Pin({"8S", "8U"}, {1})>>, Pin({"8S", "8U"}, {1}),
                            LAMBDA s : {[s[1] EXCEPT !.depth = "8U"]})
EdgeDetectorLaplace == Filter("laplace", <<Pin({"8S", "8U", "32F"}, {1})>>,
                              Pin({"16S", "32F"}, {1}), LAMBDA s : {s[1]})
GaussianSmooth == Filter("gaussian", <<Any>>, Any, LAMBDA s : {s[1]})
ImageCornerHarris == Filter("harris", <<Pin({"8U", "8S"}, {1})>>, Pin({"32F"}, {1}),
                            LAMBDA s : {[s[1] EXCEPT !.depth = "32F"]})
DilateErode == Filter("dilate", <<Any>>, Any, LAMBDA s : {s[1]})
ImageThreshold == Filter("threshold", <<Pin({"8U", "32F"}, {1})>>, Pin({"8U", "32F"}, {1}),
                         LAMBDA s : {s[1]})
ImageFlip == Filter("flip", <<Any>>, Any, LAMBDA s : {s[1]})
ExampleProcessor == Filter("example", <<Any>>, Any, LAMBDA s : {s[1]})
PixelSum == Filter("pixelsum", <<Any>>, Any, LAMBDA s : {})
KinectThreshold == Filter("kinect", <<Pin({"16U"}, {1})>>, Pin({"16U"}, {1}), LAMBDA s : {s[1]})
BlobDetector == Filter("detector", <<Pin({"8U", "16U"}, {1})>>, Any,
                       LAMBDA s : {[s[1] EXCEPT !.depth = "8U", !.ch = 3]})
\* puts a text
VPBlobToStringConverter == Filter("tostring", <<Any>>, Any, LAMBDA s : {})
\* the pins of the example declare no format: get() throws in every run
HelloWorldProcessor == Filter("hello", <<Pin({}, {})>>, Pin({}, {}), LAMBDA s : {s[1]})
\* the pins follow the conversion once one has been selected; the constructor
\* declares every number of channels after it has selected the first
ImageColorConvert ==
    element = "convert" /\
    LET n == OutChannels(par.code)
        Narrow(c) == Pin(Any.depths, IF par.narrowed THEN {c} ELSE 1..4)
    IN Filter("convert", <<Narrow(3)>>, Narrow(n), LAMBDA s : {[s[1] EXCEPT !.ch = n]})
ViolaJonesFaceDetector == Filter("viola", <<Any>>, Any, LAMBDA s : {s[1]})

----------------------------------------------------------------------------
(* Elements that remember.                                                    *)

Puts(images, pin) == out' = On(pin, images) /\ UNCHANGED <<element, running>>

DelayImage ==
    /\ element = "delay" /\ running /\ mem.given < MaxGiven
    /\ LET frames == Append(mem.held, mem.given + 1)
           full == Len(frames) >= par.steps
           kept == IF full THEN Tail(frames) ELSE frames
       IN mem' = [mem EXCEPT !.given = mem.given + 1, !.held = kept,
                             !.last = IF full THEN Head(frames) ELSE mem.last]
    /\ Puts({}, Any) /\ UNCHANGED par

Average ==
    /\ element = "average" /\ running
    /\ \E a \in Images, n \in Values \cup {par.frames} :
        LET pin == Pin({"8U", "32F"}, 1..4)
            p == [frames |-> NumFrames(n, par.frames)]     \* from the pin "num frames"
            ready == mem.total >= p.frames
        IN \/ Ends(p)
           \/ /\ Accepts(pin, a) /\ par' = p
              /\ mem' = [total |-> IF ready THEN 1 ELSE mem.total + 1,
                         avg |-> [ch |-> a.ch, size |-> a.size]]
              /\ Puts(IF ready THEN {[a EXCEPT !.depth = "8U"]} ELSE {}, pin)

RunningAverage ==
    /\ element = "runavg" /\ running
    /\ \E a \in Images :
        \/ End
        \/ /\ Accepts(Pin({"8U", "16U", "32F"}, 1..4), a) /\ mem' = [avg |-> a]
           /\ Puts({a}, Pin({"8U", "32F"}, 1..4)) /\ UNCHANGED par

\* the model is made from the first image, which is not answered
ForegroundDetector ==
    /\ element = "foreground" /\ running
    /\ \E a \in Images :
        \/ End
        \/ /\ Accepts(Pin({"8U"}, {3}), a) /\ mem' = [model |-> TRUE]
           /\ out' = IF mem.model THEN {<<[a EXCEPT !.ch = 1], Any>>, <<a, Pin({"8U"}, {1})>>}
                     ELSE {}
           /\ UNCHANGED <<element, running, par>>

\* the background is the image when m_reset or the pin "reset" asks for it,
\* or comes from the pin "background"
BackgroundOf(a) ==
    (IF par.reset THEN {} ELSE {mem.background}) \cup
    {b \in Images : Accepts(Pin({"8U"}, {1, 3}), b)}
BackgroundSubtractor ==
    /\ element = "subtractor" /\ running
    /\ \E a \in Images :
        IF ~Accepts(Pin({"8U"}, {1, 3}), a) THEN End
        ELSE \E b \in BackgroundOf(a) :
            LET front == IF b = None \/ par.method = "to color" THEN a ELSE [a EXCEPT !.ch = 1]
                fits == /\ a.size = b.size
                        /\ par.method # "gray" => a.ch = b.ch
                        /\ par.method = "to gray" => a.ch = 3
            IN /\ mem' = [background |-> b] /\ par' = [par EXCEPT !.reset = FALSE]
               /\ IF b = None \/ fits
                  THEN /\ out' = {<<front, Any>>} \cup
                                 IF b = None THEN {} ELSE {<<b, Pin({"8U"}, {1})>>}
                       /\ UNCHANGED <<element, running>>
                  ELSE running' = FALSE /\ out' = {} /\ UNCHANGED element

Trigger ==
    /\ element = "trigger" /\ running
    /\ LET due == mem.received + 1 >= par.count
       IN /\ mem' = [received |-> IF due THEN 0 ELSE mem.received + 1]
          /\ \E n \in Values \cup {par.count} :       \* from the pin "count"
              par' = [par EXCEPT !.count = n,
                                 !.activate = (par.activate \/ due) /\ par.continuous]
    /\ Puts({}, Any)

Snapshot ==
    /\ element = "snapshot" /\ running
    /\ \E a \in Images, trigger \in BOOLEAN :   \* every format is supported
        LET make == trigger \/ par.make
            shot == IF make THEN a ELSE mem.shot
        IN /\ mem' = [shot |-> shot]
           /\ par' = [par EXCEPT !.make = FALSE]
           /\ Puts(IF make \/ (shot # None /\ par.keep) THEN {shot} ELSE {}, Any)

\* regions that do not fit make OpenCV throw
CropSubImage ==
    /\ element = "subimage" /\ running
    /\ \E a \in Images, R \in SUBSET Sizes :
        \/ End
        \/ /\ \A d \in R : d[1] <= a.size[1] /\ d[2] <= a.size[2]
           /\ Puts({[a EXCEPT !.size = d] : d \in R}, Any)
           /\ UNCHANGED <<par, mem>>

\* the files of n images whose name the pin "name" gives; a list is numbered
FilesOf(n) == {<<i, par.ext>> : i \in IF n = 1 THEN {0} ELSE 1..n}
\* Without a name the frame's serial is used, whose file is new.  A file that
\* exists is left alone; one that is opened is empty until imwrite() has written
\* it, which may fail, or throw and leave the other images.
SaveImageToFile ==
    /\ element = "save" /\ running /\ out' = {} /\ UNCHANGED <<element, par>>
    /\ \/ UNCHANGED <<running, mem>>    \* no such path, no trigger, or no name
       \/ \E n \in 1..2 : \E made \in SUBSET (FilesOf(n) \ mem.files) : \E good \in SUBSET made :
           /\ mem' = [files |-> mem.files \cup made, full |-> mem.full \cup good,
                      saved |-> mem.saved + Cardinality(good)]
           /\ \/ UNCHANGED running
              \/ /\ \E f \in made \ good : \A g \in made : g[1] <= f[1]
                 /\ running' = FALSE

----------------------------------------------------------------------------
(* Producers.  readyToProduce() is asked by the scheduler, which may then     *)
(* find that another producer is not ready.                                   *)

Opened == [directory |-> {"8U", "16U"}, image |-> {"8U", "16U"}, video |-> {"8U"}]
ImageDirectoryProducer ==
    /\ element = "directory" /\ running /\ mem.idx < mem.files
    /\ \/ End      \* the file cannot be read
       \/ /\ mem' = [mem EXCEPT !.idx = mem.idx + 1]
          /\ \E a \in Images : a.depth \in Opened.directory /\ Puts({a}, Any)
          /\ UNCHANGED par
ImageProducer ==
    /\ element = "image" /\ running /\ mem.loaded
    /\ mem' = [mem EXCEPT !.waiting = FALSE, !.puts = mem.puts + IF mem.waiting THEN 1 ELSE 0]
    /\ \E a \in Images : a.depth \in Opened.image /\ Puts(IF mem.waiting THEN {a} ELSE {}, Any)
    /\ UNCHANGED par
\* readyToProduce() grabs a frame each time it is asked
VideoProducer ==
    /\ element = "video" /\ running /\ mem.grabbed < mem.frames
    /\ \/ End      \* the frame cannot be retrieved
       \/ /\ mem' = [mem EXCEPT !.grabbed = mem.grabbed + 1] /\ UNCHANGED <<element, running, par, out>>
       \/ /\ mem' = [mem EXCEPT !.grabbed = mem.grabbed + 1, !.shown = mem.grabbed + 1]
          /\ \E a \in Images : a.depth \in Opened.video /\ Puts({a}, Any)
          /\ UNCHANGED par
BlobProducer ==
    /\ element = "blobs" /\ running
    /\ \E d \in Sizes : Puts({[depth |-> "8U", ch |-> 1, size |-> d]}, Pin({"8U"}, {1}))
    /\ UNCHANGED <<par, mem>>

TestProducer ==
    /\ element = "test" /\ running
    /\ \E d \in Sizes : Puts({[depth |-> "16U", ch |-> 1, size |-> d],
                             [depth |-> "32F", ch |-> 1, size |-> d]}, Pin({}, {}))
    /\ UNCHANGED <<par, mem>>

Run ==
    \/ Add \/ Sub \/ Multiply \/ Xor \/ Diff \/ Mask \/ Stitch \/ Split \/ CropImage
    \/ EdgeDetectorSobel \/ EdgeDetectorCanny \/ EdgeDetectorLaplace \/ GaussianSmooth
    \/ ImageCornerHarris \/ DilateErode \/ ImageThreshold \/ ImageFlip \/ ExampleProcessor
    \/ PixelSum \/ ImageColorConvert \/ ViolaJonesFaceDetector \/ DelayImage \/ Average
    \/ RunningAverage \/ ForegroundDetector \/ BackgroundSubtractor \/ Trigger \/ Snapshot
    \/ ImageDirectoryProducer \/ ImageProducer \/ VideoProducer \/ BlobProducer
    \/ KinectThreshold \/ BlobDetector \/ VPBlobToStringConverter \/ HelloWorldProcessor
    \/ CropSubImage \/ SaveImageToFile \/ TestProducer

FNext == Begin \/ InitFails \/ Stop \/ Set \/ Run
FSpec == FInit /\ [][FNext]_fvars

----------------------------------------------------------------------------

Odd(lo, hi) == {i \in lo..hi : i % 2 = 1}

\* Elements that put images of other formats than their pins declare: put()
\* never checks them.
Undeclared == {"sobel", "laplace", "mask", "stitch", "foreground", "runavg", "subtractor",
               "test"}

\* Whatever the setters are called with, and in whatever order, a run is legal:
\* the sizes and orders process() hands to OpenCV are ones its functions take
\* (the asserts of EdgeDetectorSobel.cpp:91-93 and EdgeDetectorLaplace.cpp:74),
\* the directory of SaveImageToFile ends with a slash while it runs,
\* a vector of BlobProducer has a place for every blob of a running session, and
\* an image that is put is not empty and has a format its output pin declares.
RunsLegal ==
    /\ element = "sobel" => /\ par.kernel \in Odd(1, 7) /\ {par.x, par.y} \subseteq 0..1
                            /\ par.x + par.y > 0
    /\ element = "canny" => par.kernel \in Odd(3, 7)
    /\ element \in {"laplace", "harris"} => par.kernel \in Odd(1, 7)
    /\ element = "harris" => par.block > 0
    /\ element = "gaussian" => /\ par.kernel % 2 = 1 /\ par.kernel > 0
                               /\ par.height % 2 = 1 /\ par.height > 0
    /\ element \in {"crop", "dilate"} => \A p \in DOMAIN par : par[p] >= 0
    /\ element = "delay" => par.steps \in 0..MaxSteps
    /\ element = "average" => par.frames > 0
    /\ element = "save" /\ running => par.dir = "slash"
    /\ element = "detector" => par.min >= 0
    /\ element = "blobs" /\ running => mem.length >= par.blobs
    /\ element \notin Undeclared =>
        \A o \in out : Accepts(o[2], o[1]) /\ o[1].size[1] > 0 /\ o[1].size[2] > 0

\* What an element remembers belongs to the session it is in: a delay holds
\* exactly the images it was given and has not put, in order and fewer than the
\* largest number of steps it had, and is empty when start() asserts it
\* (DelayImage.cpp:50); the model of a foreground detector and the storage of a
\* face detector, which init() asserts to be free (ViolaJonesFaceDetector.cpp:42),
\* go with the session; an image is put once, and no index leaves its list; and
\* every image that was saved has its file, over all sessions: none is written
\* twice (SaveImageToFile.cpp:233).
SessionMemory ==
    /\ element = "delay" =>
        /\ ~running => mem.held = <<>>
        /\ running => mem.held = [i \in 1..(mem.given - mem.last) |-> mem.last + i]
        /\ Len(mem.held) <= IF mem.most > 0 THEN mem.most - 1 ELSE 0
    /\ element = "foreground" /\ ~running => ~mem.model
    /\ element = "viola" => mem.storage = running /\ mem.cascade = running
    /\ element = "image" => mem.puts <= 1
    /\ element = "directory" => mem.idx <= mem.files
    /\ element = "save" => mem.full \subseteq mem.files /\ mem.saved = Cardinality(mem.full)
=============================================================================
