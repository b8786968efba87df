# A TLA+ model of ParleVision

ParleVision builds image-processing pipelines: elements (cameras, filters,
viewers, servers) with input and output pins, connected by queues, edited in a
graphical workbench and run by a scheduler on a thread pool. This directory
models the library `plvcore`, which makes a pipeline correct, the workbench
`plvgui` on top of it, and the elements of the plugins.

## The system

| Component | State | Operations | Interacts with |
|---|---|---|---|
| Scheduler (`Pipeline`) | `m_children`, `m_connections`, `m_runQueue`, `m_readyQueue`, `m_serial`, `m_running`, heartbeat timer | `start`, `stop`, `schedule`, `init`, `deinit`, `pipelineElementError` on the main thread; `pipelineDataConsumerReady` from workers | everything |
| Elements (`PipelineElement`, `PipelineProcessor`, `PipelineProducer`) | `m_state`, `m_serial`, error | `__init`, `__start`, `__stop`, `__deinit` on the main thread; `run`, `__process` on a pool thread | scheduler, pins |
| Consumers (`DataConsumer`, `ScoreBoard`) | rows of the scoreboard | `newData` from the producer's thread, `preInput` from its own | scheduler, connections |
| Pins and connections (`IOutputPin`, `IInputPin`, `PinConnection`) | queue of items with serials | `put`, `post`, `get`, `removeFirst`, `flush` | two workers and the scheduler share a queue |
| Graph editing, ordering, loading (`Pipeline`, `PipelineLoader`) | ids, pins, connections, `m_changed`, files | `addElement`, `connectPins`, `removeElement`, `disconnect`, `generateGraphOrdering`, `save`, `load` | workbench |
| Workbench (`MainWindow`, `PipelineScene`, `InspectorWidget`) | widgets, lines, selection, `m_documentChanged` | new, open, save, close, exit, start, stop, drop, draw, delete, inspect | pipeline, by calls and signals |
| Viewers (`OpenCVImage(List)Renderer`, `ImageConverter`) | `m_busy`, the picture shown | `newData`, `convert`, `updateImage` | output pins, by posted events |
| TCP server and client | queues, frames in flight, `m_waiting`, parse state | `queueFrame`, `sendData`, `ackFrame`, `readData`, `disconnected` | an element each, one thread per connection |
| Camera | capture thread, mutex, condition, frame buffer | `init`, `start`, `pause`, `release`, `run`; `newFrame`, `produce` | `CameraProducer` |
| Kinect | a thread per device, latest frames | `init`, `start`, `stop`, `deinit`, `run`, `produce` | `MSKinectProducer` |
| Blob tracker | tracks with ids and ages | `matchBlobs`, `Munkres::solve` | detector and tracker elements |
| Filters and file producers | properties, memory between frames | setters, `init`, `start`, `process`, `stop` | their pipeline and the inspector |
| Factory, plugins, logger, data types, `RefPtr` | | registration, vendored code, payloads | |

What is hard about it:

* **Interleaving.** A processor is made ready by its producers' threads, item by
  item; it is dispatched by the main thread; it runs on a pool thread while its
  producers already push the next frame. `put()` pushes and announces in two
  steps. `schedule()` reads the queue sizes one by one while they change. The
  devices and the server's connections have threads of their own.
* **Failure.** `init`, `start`, `process` can fail in any element, by a result, an
  exception, or a reported error, and everything has to be undone. Files are
  wrong halfway, connections are cut, devices quit.
* **Reentrancy.** Messages are modal dialogs with event loops of their own, in the
  middle of `init`, `start`, `schedule` and `pipelineElementError`.
* **Repetition.** start and stop follow each other for as long as the program
  runs; serial numbers are never reset and wrap around; members of elements
  outlive a session; ids are used again.
* **Slow partners.** A client that does not acknowledge, a viewer that converts
  slower than frames come, a consumer that holds the producers back.

## Modules

| Module | Models | Extends |
|---|---|---|
| `Dataflow` | the running pipeline for one graph | |
| `FrameOrder` | the abstract specification `Dataflow` implements | |
| `Lifecycle` | starting, failing and stopping, with dialogs | |
| `PipelineGraph` | editing, saving and loading a pipeline that is not running | |
| `GraphOrdering` | `generateGraphOrdering` and `visit` | `PipelineGraph` |
| `Workbench` | main window, scene and inspector around a pipeline | `PipelineGraph` |
| `FrameServer` | TCP server, connection and client | |
| `Camera`, `Kinect` | the devices and their producers | |
| `Viewer` | the way of a frame to the screen | |
| `Filters` | the other elements of the plugins | |
| `Munkres`, `BlobTracker` | assignment, and the tracker that calls it | `BlobTracker` extends `Munkres` |
| `MC...` | the instances for TLC | |
| `...Proofs` | theorems and proofs | |

### The running pipeline

`Dataflow`: one variable per field of the code (the comments at their
declaration say which), `mpc` and `gauge` for the main thread's place in
`schedule()` and `stop()`, `pc`, `take`, `put`, `todo`, `pend` for the place of
the worker of each element. The history variables are `base`, the value of
`m_serial` at the last start, `left`, how many items the runs of a consumer have
left on a synchronous pin, and `strays`, the processors on whose scoreboard a
`stop()` has left a row. An item of a queue is its serial and a NULL flag;
payloads, pin types, timing and the `framesPerSecond` statistics are left out.

Nothing makes `process()` take an item of each synchronous pin: `postInput()` is
empty (`DataConsumer.cpp:361`), and `SaveImageToFile::process` returns before it
reads its name pin when the directory does not exist (`SaveImageToFile.cpp:178`),
as does a `process()` that throws. `Leaves` are the connections of which a run may
return without a `get()`; `MayBeNull` are those whose pin takes NULL items, which
`preInput` does not look at.

| Action | Code |
|---|---|
| `Start`, `StopRequest`, `StopCollect`, `StopTeardown` | `Pipeline::start` (successful), `Pipeline::stop` |
| `Schedule`, `ScheduleFailed`, `GaugeShort`, `GaugeFull`, `RunProducers`, `SkipProducers` | `Pipeline::schedule`, in the order of its parts |
| `BeginProducer`, `BeginProcess`, `BeginNull`, `BeginStarved` | `run` and `__process` up to `produce()`, `process()`, the flush of a NULL frame, or the exception of `peek()` on an empty queue |
| `Take` | `IInputPin::get` / `removeFirst`, `PinConnection::get` |
| `PutData`, `PostNull`, `NewData` | `putVariant` and `post`: the push, and the announcement after the unlock |
| `EndProcess`, `SetError`, `Throw`, `Finish` | the ways out of `process()` and `run()` |

Steps that the code takes one after the other are merged only where nothing
another thread does in between can tell: the sweep of `m_runQueue` with the
dispatch of the processors (a run that finishes between the two is swept by the
next tick in either case, and a ready item that arrives in between is one that
arrived before the sweep); the last state change of `run()` with the completion
of its future (between the two, `schedule()` sees an unfinished future and
leaves the element alone; `stop()` sees a final state); the reading of the sizes
after one has reached the threshold (the maximum is decided). The pool is taken
to have a thread for every dispatched element: with fewer, runs begin later,
which the model allows at any time.

`FrameOrder` is the abstract specification: while the pipeline runs, every
element works on every frame exactly once and in order, never before the
elements that feed it, and the producers begin each frame together.
`Dataflow!ImplementsFrameOrder` is the refinement: `live`, `first`, `next` and
`last` are `running`, `base`, `nextSerial` and the elements' processing serials.

`Lifecycle` is the complement: no frames, but every way in which starting,
running and stopping can fail. It has the element state machine with its
assertions, a stack of open dialogs with what each of them goes on with, posted
errors, the heartbeat with its number of connections, and the workers.
`aborted` names the first assertion that fails (the program is built with
assertions), or "hang" when the main thread locks `m_pipelineMutex` twice. The
history variables `kept`, `late` and `marks` say what has happened that nothing
undoes: elements that a failed `start()` left initialised, elements whose run
outlived a `stop()`, and four other events.
Which processors have a ready item is arbitrary here, so `Lifecycle` allows
more dispatches than `Dataflow` does. A worker that outlives `stop()` does not
feed anyone here; that case belongs to `Dataflow` (run `set_error`).

### The graph and the workbench

`PipelineGraph` has `m_children` with one property per element (which stands
for all), the input pins (dynamic ones come and go with their connections),
`m_connections`, `m_changed`, `m_filename` and the file system. `AddElement`,
`RemoveElement`, `Connect`, `Disconnect`, `Clear`, `NewPipeline`, `SetValue`,
`Save` and `SaveFails` are one step each, since they run on the main thread;
`Load` reads a file tag by tag (`ParseElement`, `ParseConnection`, `LoadDone`,
`LoadFails`), because a wrong tag ends it in the middle and leaves what was read.
A file is its two lists of tags; properties are converted to text and back as
`convertData` does (`ConvertData`), so that a file written by hand may hold the
text of another type, and then given to the setter. Most setters keep a value in
range; the two orders of `EdgeDetectorSobel` guard on each other (`SetXOrder`,
`SetYOrder`), and one value of type "Orders" stands for both. (The setters of
directories and file names ask the file system, which is left out here.)

`GraphOrdering` adds what `generateGraphOrdering` does, on each graph that editing
and loading make: `stack` holds the calls of `visit()` under way, each with the
connections `visitAllIncomingConnections` has still to follow; `visited` and
`ordering` are the code's own. A step is a call (`VisitEndNode`, in any order of the
QSet, or `VisitIncoming`, in the order of the pins) or a `Return`. The graph is not
edited meanwhile, since `start()` is a slot of the same thread, and `Leave` forgets
`m_ordering`, which nothing reads before the next `start()` clears it. What a cycle
is, `HasCycle` says without any walk: a set of elements of which each has a source
in the set.

`Workbench` adds the window (`window`, `open`, `fileName`, `docChanged`), the
scene (`widgets`, `lines`, `selected`) and what is left to do of a slot that
loops (`pending` for `deleteSelected()`, `opening` for `loadFile()`). Each user
action is one action (`Drop`, `Draw`, `Select`, `EditProperty`, `Move`,
`BeginDelete` with `DeleteElement`, `DeleteLine`, `DeleteStaleLine`, `Start`,
`Stop`, `ActionSave`, `ActionSaveAs`, `CloseDocument`, `NewDocument`,
`OpenDocument`, `Exit`, `CloseWindow`). `window = "crashed"` is a use after a free.
Three history variables are for the properties: `snapshot` is the graph that was
opened or last really written, `ignored` says that the last save wrote nothing
although the graph differs from it, and `doomed` that the selection being deleted
holds an element together with one of its lines.

### The plugins

`FrameServer`: the server's processor posts frames to the thread of its
connection (`Process`, `QueueFrame`); the thread sends what its limits allow
(`SendData`), drops the oldest frame or waits when its queue is full, and takes
acknowledgements (`AckFrame`). A message is two units on the wire, its size and
its body, so that a connection can be cut between the two (`Cut`). The client
reads units (`ReadSize`, `ReadFrame`, `ReadGarbage`, `SkipGarbage`), acknowledges
and produces. The settings `lossless` and `maxFramesInFlight` change at any time.

`Camera`: each step of the capture thread lies between two places at which it
can be overtaken: `m_state` is read without the mutex, and
`QWaitCondition::wait` gives the mutex away and takes it back. `release()` is
several steps (`Release`, `Relock`, `Join`, `ReleaseCapture`). `NewFrame`,
`ReadyToProduce` and `Produce` are the producer's side. `Kinect` has a thread per
device; `stop()` goes from device to device.

`Viewer`: `PutFrame` posts an event to the main thread, `NewData` starts a
conversion unless the viewer is busy or hidden, `Convert` runs in the pool and
posts the picture, `UpdateImages` shows it. Lists of images have as many widgets
as the longest list.

`Filters`: one of 39 elements in a pipeline, session after session. An image is its format;
`par` are the properties with the setters' clamping, `mem` the members that
outlive a run, `out` what the last run put. A run may throw in any OpenCV
call, or be refused by a pin whose formats do not fit.

`Munkres` has one action per step of `solve()`. `BlobTracker` builds the matrix
(`MatchBlobs`), lets `Munkres` solve it step by step, and applies the result
(`FinishMatch`). A box is an interval. `Skip` is a frame that is NULL at one of
the pins.

## What is checked

Eight runs pass:

| Run | Instance | Shows |
|---|---|---|
| `diamond` | a camera feeds two filters, a mixer joins them and may leave the items of one, and take NULL items of the other; 2 frames, threshold 1, filters that throw, a user stop, restarts | `FramesAligned`, `RunQueueExact`, `QuietWhenStopped`, the inductive invariant `Bookkeeping`, and the refinement of `FrameOrder` |
| `live` | a chain with an asynchronous side connection, an element that throws and one that leaves items, 3 frames, threshold 1, a user stop | `ChainBound`: d steps from the producers a queue holds at most d times the threshold (a bound that is reached), for every way `Distances` of counting the steps; `EveryFrameProcessed`, `ProductionGoesOn`, `StopTerminates` |
| `wrap` | a Kinect with two pins, a mixer and a viewer, serials modulo 3, no bound on the number of frames; the Kinect throws between its puts and the mixer reports errors early, so that a failed run stops the pipeline and leaves rows on the scoreboard | `AlignedAfterWrap`, `SourceBound` |
| `failure` | any element fails to initialise, start or run in every way, its device quits, pins are missing or the graph has a cycle; two starts | `AllOrNothing`: what a failure leaves behind is what `start()` does not undo and no more; `AbortsExplained`: after which events which assertion fails; `FailureStops`: a failed run is not lost |
| `graph` | a camera, a Sobel filter, a server with dynamic pins; two elements and connections, more from files (a ring, a fork wrong at its end, a file by hand wrong halfway); starts before the first save | `GraphSound`: connections end at pins that exist, of fitting types, one per input, and each element has the pins it should; `RoundTrip`: a saved file gives the same elements, ids, properties (but for one) and connections back; `ElementsSaved`; `OrderingSound`: `start()` refuses exactly the graphs with a cycle and otherwise orders every element once, after its sources |
| `workbench` | camera and server, two elements, selections of two, a saved and a served file whose last line is wrong | `SceneInSync`, `ChangesAsked`, `GraphFixedWhileRunning` |
| `plugins` | one of: a camera (buffer 3, 7 frames, 3 sessions), two Kinects, a server with a client (queue 1, up to 2 in flight, a cut), a viewer, a filter | camera: `DeviceHeld`, `FramesInTurn`, `CleanRelease`; Kinect: `KinectQuiet`, `FramesRenewed`, `KinectStops`; server: `StreamOrder`, `QueueBound`, `StallHasAck`, `StallEnds`, `ResyncAfterCut`; viewer: `ViewerOrder`, `ViewerRenewed`; filters: `RunsLegal`, `SessionMemory` |
| `tracking` | every 3 by 3 matrix over the costs 0, 1, 2; a tracker with three boxes, four frames, a restart, skipped frames | `LeastCost` against the least cost of all permutations, `SolveEnds`; `BlobsTracked`, `DiesInTime` |

Four runs end in a violation. Each states a comment of the code and shows a
behaviour that contradicts it:

* `set_error`: "stop requested, wait while all processors finish"
  (`Pipeline.cpp:504`). `stop()` does not wait for an element that reported an
  error and has not returned yet.
* `restart`: "cleanup after error" (`Pipeline.cpp:474`) and the assertion of `__init`
  that an element is undefined (`PipelineElement.cpp:183`). A `start()` that fails in
  one element stops those before it and leaves those behind it initialised, and the
  next `start()` aborts.
* `camera_release`: "will cause the run loop to exit eventually. wait for that
  here." (`OpenCVCamera.cpp:209`). `release()` of a paused camera waits with the
  mutex locked that the thread needs to return from its wait; and the wake-up is
  lost when the thread has tested its state and has not begun to wait.
* `blob_match`: "match the old blob to a new detected blob using maximum area
  converage" (`BlobTracker.cpp:90`). The best pair gets the cost -1, which the
  first step of Munkres does not take for a zero, and pairs that do not overlap
  are assigned too, so that the result may cover less than another assignment.

**Bounds.** Every bound is a constant that says so at its declaration. Two frames in
flight are enough to mix them in a join and threshold + 1 frames to exceed a
queue; the runs have more where the graph is small. In `Dataflow` the number of
restarts is not bounded. Two elements and two connections are enough for ids to
be used again and for a cycle; the ring of three and the fork come from files. What
`generateGraphOrdering` answers does not depend on the files, so run `graph` starts
the pipeline only until something has been saved (`StartsBeforeSaves`); the user
sets the order of the filter to (0, 1), which with the default (1, 0) makes all three
values. The workbench draws one connection and gets two from its file, enough for
a dangling line, a selection with an element and its line, and a save that writes
nothing. The camera's
buffer overflows, and sessions follow a failed one. The server's queue of one
overflows with two frames waiting; the limit of frames in flight goes from 1 to 2
and back while frames are in flight. A 3 by 3 matrix is the smallest on which all
five steps of Munkres take part, with augmenting paths of more than one star.
`CHECK_DEADLOCK FALSE` stands where the program, or the instance with its bounds
used up, may stop: a pipeline nobody starts again, a program that has aborted or
was closed, a release that never returns.

**Fairness.** The heartbeat is a timer of interval 0 and slots run to their end, so
every part of `schedule()` and `stop()` is weakly fair; the thread pool runs
what is dispatched and `process()` is assumed to return, so each worker is
weakly fair. `ReadySpec` adds that the producers are not for ever unready
whenever they are asked (strong fairness of `RunProducers`): a camera keeps
delivering frames. The threads of the devices, the event loops of main thread,
connection and client, the conversions and the steps of `solve()` are weakly
fair, and TCP delivers what it was given unless the connection is cut. Nobody
has to press a button or close a dialog, and no pipeline has to produce.

Exceptions that the code makes necessary, each stated in its property:

* `FramesAligned`: an element whose runs have left items on a pin finds items that
  are older by as many; only `OneSerialPerRun` (proved) says that the items are of
  one serial where `process()` takes from every pin and does not throw.
* `AlignedAfterWrap`: not at the processors of `strays`. `stop()` does not clear the
  scoreboards, and a row that an interrupted run has left is completed by the first
  pin that has the serial when it comes back after a wrap, so that frames do mix
  there.
* `AllOrNothing`: not the elements `kept` by a failed start, and those whose run
  outlives a `stop()` after a device has quit.
* `SceneInSync`: the editor crashes when a widget with a dangling line is moved, and
  when an element is deleted together with one of its lines.
* `ChangesAsked`: not after a save that has failed or, when only connections have
  changed, written nothing; `MainWindow::save` resets `m_documentChanged` all the same
  (`MainWindow.cpp:698`).
* `ProductionGoesOn`: the runs that throw a NULL frame away take nothing from
  asynchronous pins, so a consumer that is sent NULL frames only leaves a full
  asynchronous queue full, and `schedule()` then never runs the producers again; nor
  does it when the runs of a consumer have left as many items on a synchronous pin
  as the threshold, which no run takes any more.
* `CleanRelease`: the thread is not in the pause, see `camera_release`.
* `KinectQuiet`: `stop()` has not come to a device before its thread began `run()`,
  which would set the state back to RUNNING.
* `QueueBound`, `StallHasAck`, `StallEnds`: the connection has been lossy, or
  lossless, all the time.
* `ResyncAfterCut`: bytes were waiting when the connection was lost; only then
  does `disconnected()` reset `m_blockSize`.
* `ElementsSaved`: elements only, since changing a connection or a property does
  not set `m_changed`.
* `RoundTrip`: for the saved files that load; a file with dynamic pins may not,
  because pin ids are given anew; and not for the order (0, 1) of a Sobel filter, which
  comes back as (1, 1), since `setXOrder(false)` is refused while `yOrder` has its
  default 0 (`EdgeDetectorSobel.cpp:151`).
* `DiesInTime`: less by the frames that the detector has not counted.

## What is proved

With TLAPS, for every value of the constants.

`DataflowProofs`, for every graph, threshold, number of frames and set of faults:

* `TypeCorrect`: `Spec => []TypeOK`.
* `RunQueueCorrect` and `StopIsQuiet`: `RunQueueExact` and `QuietWhenStopped`
  are invariants. Neither is inductive: `RunQueueExact` does not say where the
  worker of a busy element is, and a step of that worker changes its state. The
  invariant `Accounted` pairs the element state, the run item and the worker's
  place in `run()`, for a running and for a stopped pipeline.
* `SourcesBounded`: `SourceBound` is an invariant. The size that `schedule()`
  has read is old when the producers are run; `SourceLoad` says that it still
  is below the threshold if the producer is idle, since a producer that is
  idle at the end of `schedule()` has been idle since its beginning, and that a
  busy producer has room for the one item it may still push.

All but `TypeCorrect` assume `ErrorsAtReturn`: no `process()` calls `setError()`
before it returns. Run `set_error` shows that they need it.

The second part of `DataflowProofs` is about what the pipeline does with frames:

* `BookkeepingAlways`: `Bookkeeping` is an invariant. It is the inductive
  invariant of the frame properties, none of which is inductive: that the heads
  of the queues carry the serial of the job depends on the ready list, which
  depends on the scoreboard, which depends on what has been announced, which lags
  behind what has been pushed. `Bookkeeping` counts, for each synchronous
  connection, the last frame begun by the source, pushed (`Sent`), announced
  (`Told`) and taken (`Taken`), and for each consumer the last one made ready
  (`Complete`), dispatched (`Issued`) and begun (`Last`). The queue holds exactly
  the frames between `Gone` and `Sent`, where `Gone` is `Taken` less the items left on the
  pin, the ready list those between `Issued`
  and `Complete`, `Complete` is the least `Told` of the pins, and the row of a
  later frame counts the pins that have it. The proof has a lemma per kind of
  step; the lemma `Chain` orders the figures along a connection.
* `FramesNeverMixed`, `OneSerialPerRun`, `AnnouncedInTimeAlways`, `RunsInOrderAlways`
  follow from it. So does that `BeginStarved` never happens without a wrap: an item is
  announced after it was pushed, and no run takes more than one.
* `PipelineImplementsFrameOrder`: `Spec => ImplementsFrameOrder`. The `Begin...`
  actions are `Advance`, `RunProducers` is `Release`, `Start` and `StopTeardown`
  are `Start` and `Stop`, all other steps stutter.
* `ChainsBounded`: `ChainBound` is an invariant. A bound on the queue alone is not
  inductive, because frames on their way will still be pushed. `ChainLoad` bounds
  the `Load` of a connection: the items it holds and the frames its source may
  still push. A new frame adds one to every load, so `RunProducers` has to find
  place everywhere. Of each connection that `schedule()` has read, `Room` is kept:
  the queue and what its source's present run owes it stay within the threshold. So
  when the producers run, the load of a connection exceeds that of a connection
  feeding its source by at most the threshold (`RoomFurther`), and the nearest
  connection without place would have a nearer one. At the producers `SourceLoad`
  ends the argument; `Bookkeeping` relates queues and serials.

They assume `ErrorsAtReturn`, `NoWrap` (the bound on the frames lies below the
largest unsigned int; after a wrap the order of serials means nothing, run
`wrap`) and `AllSynchronous` (every processor has a connected synchronous pin).
No assumption is made on the graph beyond the types of its parts: a cycle
through synchronous pins never runs, but mixes no frames either.

`LifecycleProofs`, for every number of elements, starts and errors:

* `LifecycleTypes`: every variable keeps its type through all failures, aborts
  included.
* `AlwaysAllOrNothing` and `AbortsAlwaysExplained`: `AllOrNothing` and
  `AbortsExplained` are invariants, with every set of faults. Neither is inductive:
  which elements have got how far depends on the place of the main thread in its
  slot and on the dialogs that are open. `LInv` (theorem `PhasesHold`) gives the
  states of all elements for each place, under each dialog, and the workers for each
  state, as far as no device has quit; after that only the elements that are not
  part of the session are accounted for.

`GraphProofs`, for every set of element types, pins, values and files:

* `GraphAlwaysSound`: `GraphSound` is inductive; the proof is about new ids, which
  are below a bound because a pipeline is finite, and about the one free pin that
  an element with dynamic pins has. The proof needs the input pins of a type to be
  finite, which the assumption on the types now says: `m_inputPins` is built by
  the element's constructor.
* `ElementsAlwaysSaved`: `SavedElements` says the same of the pipeline that is
  being read or has another name by now.
* `SavedPipelinesRoundTrip`: `RoundTrip` speaks of the end of a load. `LoadInv`
  speaks of its middle: a file that was saved holds a sound graph
  (`SoundDocument`); the elements read so far are those of its first tags, with
  properties that `convertData` and the setters give back (`ReadElements`), the connections so
  far are those of its first connection tags under ids in the order of reading
  (`ReadConnections`), and the pins are those that these connections made.

`OrderingProofs`, for every graph that editing and loading make, of any size:

* `OrderingAlwaysSound`: `OrderingSound` is an invariant. It speaks of the end of the
  walk; `WalkInv` speaks of its middle. The elements in `ordering` have their sources
  before them; the calls on `stack` are a path, each a source of its caller, and are
  exactly `visited`; what a call has followed already is in the ordering or is the
  next call. A source that is in `visited` therefore closes a cycle along the path,
  and is the only reason to refuse. An ordering that has all sources of its elements
  before them has no cycle among them: the element of a cycle that comes first would
  have a source before it. That all elements are in it, which the code asks itself
  ("TODO shall we check if all nodes are visited?", `Pipeline.cpp:867`), follows because
  every consumer is an end node, and a producer is one or feeds a consumer: by
  `GraphSound` no connection goes into a producer.

`WorkbenchProofs`:

* `EditorImplementsPipeline`: `WBSpec => Spec`. Every event of the window is one
  operation of `PipelineGraph` or leaves the pipeline alone, so
  `EditorKeepsPipelineSound` carries the three results above over.
* `SceneAlwaysInSync`, `RunningGraphIsFixed`: by `EditorInv`: while the pipeline is
  open the scene shows exactly it, also between two items of a selection that is
  being deleted; while a file is read nothing is shown; and a selection is only
  deleted from an open pipeline that does not run. `CrashInv` adds that a selection
  of which no element goes with one of its lines never comes to a line that is gone,
  and that only elements with dynamic pins dangle.
* `ChangesAlwaysAsked`: by `AskInv`, that an open pipeline that differs from what was
  last opened or written has `m_documentChanged` (`docChanged`) set or is `ignored`.

`FrameServerProofs`, for every queue, set of limits and number of cuts:
`ServerTypes`, `QueueIsBounded`, `StallsHaveAcks`, `ClientInStep`. The invariant
`SInv` has, besides the properties, that a connection that does not exist holds
nothing, that the history variable `mode` is true to `lossless`, and, for
`ClientInStep`, that sizes and bodies alternate from what the client has not read
to the end of the wire, beginning with a body if `m_blockSize` is set.
`StreamAlwaysInOrder` is about the numbers of the frames along the way of a
connection, which a recursive function takes from the units on the wire; its
lemmas say what it makes of a unit appended or removed, by induction on the
length.

`PluginProofs`, for every size of a buffer and number of devices, frames, events
and sessions:

* Camera: `CameraTypes` and `DeviceAlwaysHeld`. `DeviceHeld` is not inductive: that
  `release()` frees the device without a join in some states is right only
  because no thread lives in them. `ThreadInv` says in which states of `m_state`
  and of `release()` a thread can be alive. `FramesAlwaysInTurn`: `OrderInv` adds
  that all frames in the buffer, posted or produced have smaller numbers than a
  grabbed one that is not posted yet.
* Viewer: `ViewerTypes`, `ViewerInOrder`. `ViewerOrder` needs `Waiting`: the frames
  nobody has looked at are in order, and newer than the one `m_busy` let past.
* Kinect: `KinectAlwaysQuiet` and `FramesAlwaysRenewed`. The first needs `PhaseInv`:
  in each phase of the producer the thread and `m_state` of a device go together,
  and `stop()` passes the devices one by one, the ones before it being at rest. The
  second numbers the frames of each stream: what was put comes before what is
  kept, which comes before what is posted, in order, up to the last one made.
* Filters: `RunsAlwaysLegal` and `MemoryOfASession`, for images of all depths,
  channels and sizes, every argument of a setter and all sessions. `ElementInv` has
  the ranges of each element's properties (`ParOK`) and what it remembers (`MemOK`).
  The list of a delay needs most: that it holds the images `last + 1 .. given`,
  that its steps never exceed `most`, and so that a list which is not yet full has
  a place left, whenever the steps are changed; of the files, that those just
  written are none of the ones there. Assumed of the constants: `FormatAssumption`
  (an image is not empty and has a depth and channels of OpenCV's) and
  `DelayAssumption` (`MAX_STEPS` is at least the 5 steps a delay begins with).

`TrackerProofs`, for every number of tracks and blobs, matrix and length of a run:

* `BlobsAlwaysTracked`: no blob is given to two tracks because the stars that
  `solve()` leaves cross no other. That is not inductive: `step4()` turns the primes
  of a path into stars, and two primes may share a column. `MaskInv` says that
  primes have rows of their own and that no set of primes is closed under going to
  the star of the column and on to the prime of its row (`NoLoop`), which holds
  since a zero is primed only when the star of its column is covered by a row that
  was primed before. A path that passes two primes of a column would be such a
  loop (`ReachOnce`).
* `SolveFindsLeastCost` and `TrackerSolvesForLeastCost`: `LeastCost` for every square
  matrix of integers, and for all that the tracker hands to `solve()`. `CostInv` adds
  to `MaskInv` that the matrix is the given one less an amount per row and one per
  column (`Reduced`), that it has no negative entry if the given one has none, that
  stars and primes are zeros, and that while zeros are looked for only rows and
  columns with a star are covered and some have none, so that `step5()` finds an
  uncovered cell. At the end each row has a star (`StarsCount`, by counting), all
  orders of the columns cost the same amounts per row and column (`SumSplit`), and
  only the stars cost nothing more. Sums are sums over a finite set, whose values
  are shown not to depend on the order of adding (`SumsAdd`). The tracker's own costs
  hold a -1 whenever boxes overlap, so that for them only the first part
  applies: run `blob_match`.
* `TracksDieInTime`: by `Ages`, that the serial a track was last seen at and the
  frame number the detector gave it differ by the frames not counted since.

Induction over data is done on sets of numbers: the least number outside a set
does not exist (`Induct`, `SetInduction`), or of ranks along an order.

Every safety invariant that a passing run checks is a theorem, but for
`AlignedAfterWrap`. Only model-checked remain that one, since `Bookkeeping` rests on
the order of the serials and has no form after a wrap-around, and the liveness
properties, since TLAPS does not reason about fairness.

## What the models show besides

Behaviours the models contain, or that came up while the code was read, and that
no run is spent on.

*Life cycle.* Two devices that quit make `pipelineElementError` call `stop()` twice;
the second call fails `assert(m_running)` (`Pipeline.cpp:499`, `aborted = "stop"`).
An `init()` that throws leaves PLE_UNDEFINED, and `__deinit` asserts; one that
returns FALSE without `setError()`, as `SaveImageToFile` does, is ignored and
`__start` asserts, though `PipelineElement.h:152` promises `deinit()`. After a
failed `start()` the elements behind the failing one, and all of them after a
cycle, stay INITIALIZED, and the next start asserts. Every start connects the
heartbeat once more; when a run fails after a restart, the second `schedule()` of
the tick dispatches on a stopped pipeline. `run()` aborts when a device quits
between dispatch and run. `start()` shows its dialogs with `m_pipelineMutex`
locked, and a device that quits meanwhile makes `stop()` lock it again
(`aborted = "hang"`). The assertion of `newData` (`DataConsumer.cpp:397`) fails after a
wrap-around when a scoreboard holds a row; `Dataflow` goes on there as a build
without assertions does.

*Graph and files.* `DataConsumer::isEndNode` answers TRUE for every consumer, against its
comment; that is why all cycles are found. A failed load is not reported, shows
what was read, and saving overwrites the file. Changing connections or properties
does not set `m_changed`, so Save writes nothing and still removes the mark of a
changed document; so does Save As of an unchanged pipeline. Whether a file could be
written to its end is not looked at.

*Workbench.* Deleting a selection with an element and one of its lines uses the line after
it was freed when the element comes first. Moving a widget whose line ends at a
removed dynamic pin does the same. Exit does not stop a running pipeline (`void
closePipeline();` in its slot is a declaration). `offerToSave` compares the answer
with `QDialog::Accepted`, which the Save button does not return, so that the
answer Save does not save; a failed save is ignored, and so is one that wrote nothing.

*Server and client.* `isReadyForProcessing` is never called, so the queue of a lossless
connection is not bounded. `ackFrame` does not send, so the last frames stay
queued until the next one comes. Switching lossless off and on during a wait
freezes the stream. `stop()` after `disconnected()` uses a null socket, a frame
without arguments is never acknowledged, and a cut right after a size leaves
`m_blockSize` behind.

*Devices.* Frames buffered in one session are produced in the next. A capture thread
that ended because a grab failed is not started again by `start()`. A Kinect whose
thread outlives `stop()` uses a destroyed instance, and `deinit()` keeps the
pointer to it.

*Viewer.* A variant that does not convert leaves `m_busy` set for ever. The case of
CV_16S in `ImageConverter.cpp` has no break and falls into the next.

*Filters.* Producers run without `m_propertyMutex`, so `setNumBlobs` races with
`produce()`; `setConversionType` and `setFileFormat` take no lock either. An image that could not be
written leaves an empty file, and its name is not used again. The pins of `HelloWorldProcessor` and
`TestProducer` declare no formats. `Average` counts its first frame twice and keeps its
mean over a restart, as `BackgroundSubtractor` keeps its background.
`VideoProducer::readyToProduce` grabs a frame each time it is asked. Lowering the
steps of a delay does not shorten it. `Trigger` does not initialise `m_received`.

*Tracking.* Dead tracks are never removed and go on taking blobs. The loop that counts
measurements is empty, so no track leaves its birth state. The age of a track is a
difference of the pipeline's serial and the detector's own count: in a pipeline
that has run before the detector was added to it, a track dies with its first miss.

## Not modelled

What remains is presentation, arithmetic or foreign code. The vendored logger
(`qxtlogger`); the computation of pixels in OpenCV calls, in `cvMatToQImage`, in
contour detection and in the Kinect's copies; renderers of other data; painting
and layout of widgets, the library, log and about windows, recent files; plugin
registration, `main`, `Enum` and `Util`; the counting of `RefPtr`; the payload of
TCP frames; the matrix class of `plvblobtracker`; `ImageLoader`, which nothing
uses. Several clients of a server have connections that share nothing but the
frames given to them. Elements without a synchronous pin are run for every item
on any pin; the frame properties are stated for the others.
