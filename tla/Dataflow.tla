------------------------------ MODULE Dataflow ------------------------------
(***************************************************************************)
(* The running pipeline of plvcore: the scheduler of Pipeline (main        *)
(* thread, driven by the heartbeat timer), the worker threads that execute *)
(* PipelineElement::run, the queues of the PinConnections and the          *)
(* scoreboards of the DataConsumers, from a start() to the next stop() and *)
(* on to the next start().                                                 *)
(*                                                                         *)
(* A frame is identified by its serial number.  Payloads are left out: an  *)
(* item of a queue is its serial and whether it is a NULL item.            *)
(***************************************************************************)
EXTENDS Integers, Sequences, FiniteSets

CONSTANTS
    Producers,      \* m_producers: elements without input pins
    Processors,     \* m_processors: elements that consume data
    Pins,           \* the connected output pins
    Connections,    \* the ids of m_connections; an input pin has at most one connection
    owner,          \* [Pins -> Producers \cup Processors], IOutputPin::getOwner
    from,           \* [Connections -> Pins], PinConnection::fromPin
    to,             \* [Connections -> Processors], owner of PinConnection::toPin
    Sync,           \* the connections whose input pin is CONNECTION_SYNCHRONOUS
    MayBeNull,      \* ... and those whose input pin is CONNECTION_DATA_MAY_BE_NULL
    Leaves,         \* the connections of which process() may return without a get()
    Threshold,      \* producers run while every queue is shorter (5 in the code)
    FirstSerial,    \* initial m_serial (1 in the code)
    MaxUInt,        \* largest unsigned int (2^32 - 1 in the code)
    LastSerial,     \* bound of an instance: no frame gets this serial
    StopAt,         \* bound of an instance: the user stops at these values of m_serial
    Faults          \* which elements may fail in process(), and how

FaultKinds == {"throw", "false", "setError"}

ASSUME GraphAssumption ==
    /\ Producers \cap Processors = {}
    /\ owner \in [Pins -> Producers \cup Processors]
    /\ from \in [Connections -> Pins]
    /\ to \in [Connections -> Processors]
    /\ Sync \subseteq Connections
    /\ MayBeNull \subseteq Connections
    /\ Leaves \subseteq Connections
    /\ Connections \subseteq Nat
    /\ IsFiniteSet(Connections)

ASSUME NumberAssumption ==
    /\ Threshold \in Nat \ {0}
    /\ MaxUInt \in Nat
    /\ FirstSerial \in 1 .. MaxUInt
    /\ LastSerial \in Nat
    /\ Faults \subseteq (Producers \cup Processors) \X FaultKinds

Elements == Producers \cup Processors
Serials == 0 .. MaxUInt
Items == [serial : Serials, null : BOOLEAN]

OutPins(e) == {p \in Pins : owner[p] = e}
Outs(e) == {c \in Connections : owner[from[c]] = e}
Ins(e) == {c \in Connections : to[c] = e}
SyncIns(e) == Ins(e) \cap Sync

(* PipelineElement::State, in the order of the enumeration. *)
Idle == {"UNDEFINED", "INITIALIZED", "STARTED"}          \* < PLE_DISPATCHED
Busy == {"DISPATCHED", "RUNNING", "DONE", "ERROR"}
States == Idle \cup Busy

VARIABLES
    \* state of the elements and connections
    state,      \* m_state of each element
    serial,     \* m_serial of each element: the frame of its current or last run
    queue,      \* m_queue of each connection
    left,       \* items that runs have left on each synchronous pin (a history variable)
    lookup,     \* m_scoreboard.m_lookup of each processor, 0 when absent
    \* state of the pipeline
    ready,      \* m_readyQueue: per element the serials ready to be dispatched
    runQueue,   \* the elements that have a RunItem in m_runQueue
    job,        \* the serial of the RunItem last dispatched for each element
    nextSerial, \* m_serial of the pipeline
    running,    \* m_running
    base,       \* nextSerial at the last start() (a history variable)
    strays,     \* processors on whose scoreboard a stop() has left a row (a history variable)
    \* the main thread
    mpc,        \* where it is in schedule() or stop()
    gauge,      \* connections whose size it has still to read
    \* the worker thread that runs each element
    pc,         \* where it is in run(); "idle" when its future is finished
    take,       \* connections it has still to take an item from
    put,        \* output pins process() puts data on in this run
    todo,       \* connections it has still to send an item on
    pend,       \* connection it has pushed on and not yet announced to the consumer
    result      \* what run() returned

elementVars == <<state, serial, queue, left, lookup>>
pipelineVars == <<ready, runQueue, job, nextSerial, running, base, strays>>
mainVars == <<mpc, gauge>>
workerVars == <<pc, take, put, todo, pend, result>>
vars == <<elementVars, pipelineVars, mainVars, workerVars>>

MainPcs == {"idle", "gauge", "stop"}
WorkerPcs == {"idle", "dispatched", "take", "emit", "flush", "post"}

TypeOK ==
    /\ state \in [Elements -> States]
    /\ serial \in [Elements -> Serials]
    /\ queue \in [Connections -> Seq(Items)]
    /\ left \in [Connections -> Nat]
    /\ lookup \in [Processors -> [Serials -> Nat]]
    /\ ready \in [Processors -> Seq(Serials)]
    /\ runQueue \in SUBSET Elements
    /\ job \in [Elements -> Serials]
    /\ nextSerial \in Serials
    /\ running \in BOOLEAN
    /\ base \in Serials
    /\ strays \in SUBSET Processors
    /\ mpc \in MainPcs
    /\ gauge \in SUBSET Connections
    /\ pc \in [Elements -> WorkerPcs]
    /\ take \in [Elements -> SUBSET Connections]
    /\ put \in [Elements -> SUBSET Pins]
    /\ todo \in [Elements -> SUBSET Connections]
    /\ pend \in [Elements -> SUBSET Connections]
    /\ result \in [Elements -> BOOLEAN]

Init ==
    /\ state = [e \in Elements |-> "UNDEFINED"]
    /\ serial = [e \in Elements |-> 0]
    /\ queue = [c \in Connections |-> <<>>]
    /\ left = [c \in Connections |-> 0]
    /\ lookup = [e \in Processors |-> [s \in Serials |-> 0]]
    /\ ready = [e \in Processors |-> <<>>]
    /\ runQueue = {}
    /\ job = [e \in Elements |-> 0]
    /\ nextSerial = FirstSerial
    /\ running = FALSE
    /\ base = FirstSerial
    /\ strays = {}
    /\ mpc = "idle"
    /\ gauge = {}
    /\ pc = [e \in Elements |-> "idle"]
    /\ take = [e \in Elements |-> {}]
    /\ put = [e \in Elements |-> {}]
    /\ todo = [e \in Elements |-> {}]
    /\ pend = [e \in Elements |-> {}]
    /\ result = [e \in Elements |-> TRUE]

-----------------------------------------------------------------------------
(* The main thread: start(), schedule() and stop() are slots of its event   *)
(* loop, so one of them runs at a time.                                     *)

(* start() when every element initialises and starts: the elements become   *)
(* STARTED and each gets an empty ready list.  The scoreboards keep their    *)
(* entries and nextSerial its value.  (Failing starts: module Lifecycle.)    *)
Start ==
    /\ mpc = "idle"
    /\ ~running
    /\ running' = TRUE
    /\ state' = [e \in Elements |-> "STARTED"]
    /\ ready' = [e \in Processors |-> <<>>]
    /\ base' = nextSerial
    /\ UNCHANGED <<serial, queue, left, lookup, runQueue, job, nextSerial, strays, mainVars, workerVars>>

FinishedEarly(e) == pc[e] \in {"idle", "post"}     \* mutant: before postOutput()
Finished(e) == pc[e] = "idle"       \* QFuture::isFinished of e's run item

StaleNever == {}                    \* mutant: m_runQueue is not swept
Stale == {e \in runQueue : Finished(e)}

(* The processors that schedule() dispatches: not in m_runQueue after the     *)
(* sweep, and with a ready item.                                              *)
RunnableTwice == {e \in Processors : ready[e] # <<>>}     \* mutant: even if in m_runQueue
Runnable == {e \in Processors : ready[e] # <<>> /\ e \notin runQueue \ Stale}

(* RunItem::dispatch on each element of S, the run of e with serial s[e],     *)
(* once the finished runs of done have been removed from m_runQueue.          *)
Dispatch(S, s, done) ==
    /\ state' = [e \in Elements |-> IF e \in S THEN "DISPATCHED"
                                   ELSE IF e \in done THEN "STARTED" ELSE state[e]]
    /\ pc' = [e \in Elements |-> IF e \in S THEN "dispatched" ELSE pc[e]]
    /\ job' = [e \in Elements |-> IF e \in S THEN s[e] ELSE job[e]]
    /\ runQueue' = (runQueue \ done) \cup S

(* The heartbeat fires and schedule() begins: the items of m_runQueue whose   *)
(* runs have finished are removed, then, under m_readyQueueMutex, the oldest  *)
(* item of every ready list whose element is not in m_runQueue is dispatched. *)
(* One step: what workers do between the two commutes with the sweep.         *)
Schedule ==
    /\ mpc = "idle"
    /\ running
    /\ \A e \in Stale : result[e]
    /\ Dispatch(Runnable, [e \in Runnable |-> Head(ready[e])], Stale)
    /\ ready' = [e \in Processors |-> IF e \in Runnable THEN Tail(ready[e]) ELSE ready[e]]
    /\ mpc' = "gauge"
    /\ gauge' = Connections
    /\ UNCHANGED <<serial, queue, left, lookup, nextSerial, running, base, strays, take, put, todo, pend, result>>

(* The sweep finds a failed run: schedule() calls stop() and returns.         *)
ScheduleFailed ==
    /\ mpc = "idle"
    /\ running
    /\ \E e \in Stale : ~result[e]
    /\ mpc' = "stop"
    /\ UNCHANGED <<elementVars, pipelineVars, gauge, workerVars>>

(* schedule() reads the size of one connection after the other, in the order *)
(* of their ids.  One that has reached the threshold decides that the        *)
(* producers do not run.                                                     *)
FirstOf(c, S) == c \in S /\ \A d \in S : c <= d

ShortOrFull(c) == Len(queue[c]) <= Threshold                           \* mutant: off by one
ShortSource(c) == owner[from[c]] \in Producers => Len(queue[c]) < Threshold
                                          \* mutant: only the producers' connections
Short(c) == Len(queue[c]) < Threshold

GaugeShort(c) ==
    /\ mpc = "gauge"
    /\ FirstOf(c, gauge)
    /\ Short(c)
    /\ gauge' = gauge \ {c}
    /\ UNCHANGED <<elementVars, pipelineVars, mpc, workerVars>>

GaugeFull(c) ==
    /\ mpc = "gauge"
    /\ FirstOf(c, gauge)
    /\ ~Short(c)
    /\ gauge' = {}
    /\ mpc' = "idle"
    /\ UNCHANGED <<elementVars, pipelineVars, workerVars>>

NextSerial(s) == IF s = MaxUInt THEN 0 ELSE s + 1   \* ++ on an unsigned int

(* Every producer is ready: all are dispatched with the same new serial.     *)
RunProducers ==
    /\ mpc = "gauge"
    /\ gauge = {}
    /\ \A e \in Producers : state[e] \in Idle
    /\ nextSerial # LastSerial
    /\ Dispatch(Producers, [e \in Producers |-> nextSerial], {})
    /\ nextSerial' = NextSerial(nextSerial)
    /\ mpc' = "idle"
    /\ UNCHANGED <<serial, queue, left, lookup, ready, running, base, strays, gauge, take, put, todo, pend, result>>

(* Some producer is busy, or its readyToProduce() says no. *)
SkipProducers ==
    /\ mpc = "gauge"
    /\ gauge = {}
    /\ mpc' = "idle"
    /\ UNCHANGED <<elementVars, pipelineVars, gauge, workerVars>>

(* The stop() slot, called by the user or on closing. *)
StopRequest ==
    /\ mpc = "idle"
    /\ running
    /\ nextSerial \in StopAt
    /\ mpc' = "stop"
    /\ UNCHANGED <<elementVars, pipelineVars, gauge, workerVars>>

CollectableRunning(e) == state[e] # "DISPATCHED"        \* mutant: does not wait for the run
CollectableDone(e) == state[e] = "DONE"                 \* mutant: forgets PLE_ERROR
Collectable(e) == state[e] \in {"DONE", "ERROR"}

(* stop() polls the run items and drops those whose element says it is done. *)
StopCollect(e) ==
    /\ mpc = "stop"
    /\ e \in runQueue
    /\ Collectable(e)
    /\ runQueue' = runQueue \ {e}
    /\ state' = [state EXCEPT ![e] = "STARTED"]
    /\ UNCHANGED <<serial, queue, left, lookup, ready, job, nextSerial, running, base, strays, mainVars, workerVars>>

(* __stop and __deinit of every element, then the connections are flushed    *)
(* and the ready lists dropped.  The scoreboards are not touched: the row of *)
(* a frame that some pins have not got stays.                                *)
StopTeardown ==
    /\ mpc = "stop"
    /\ runQueue = {}
    /\ state' = [e \in Elements |-> "UNDEFINED"]
    /\ serial' = [e \in Elements |-> 0]
    /\ queue' = [c \in Connections |-> <<>>]
    /\ left' = [c \in Connections |-> 0]
    /\ ready' = [e \in Processors |-> <<>>]
    /\ strays' = strays \cup {e \in Processors : \E s \in Serials : lookup[e][s] # 0}
    /\ job' = [e \in Elements |-> 0]
    /\ running' = FALSE
    /\ mpc' = "idle"
    /\ UNCHANGED <<lookup, runQueue, nextSerial, base, gauge, workerVars>>

-----------------------------------------------------------------------------
(* The worker threads.                                                       *)

(* PipelineProducer::__process up to produce(): nothing to take. *)
BeginProducer(e) ==
    /\ pc[e] = "dispatched"
    /\ e \in Producers
    /\ state' = [state EXCEPT ![e] = "RUNNING"]
    /\ serial' = [serial EXCEPT ![e] = job[e]]
    /\ \E P \in SUBSET OutPins(e) :
         /\ put' = [put EXCEPT ![e] = P]
         /\ todo' = [todo EXCEPT ![e] = {c \in Outs(e) : from[c] \in P \/ c \in Sync}]
    /\ pc' = [pc EXCEPT ![e] = "emit"]
    /\ UNCHANGED <<queue, left, lookup, pipelineVars, mainVars, take, pend, result>>

(* preInput looks for NULL items on the synchronous pins on which data is      *)
(* guaranteed.                                                               *)
NullDetected(e) == \E c \in SyncIns(e) \ MayBeNull : Head(queue[c]).null

(* Items of the synchronous pins in S stay where they are.                   *)
Keep(S) == left' = [c \in Connections |-> IF c \in S \cap Sync THEN left[c] + 1 ELSE left[c]]

(* PipelineProcessor::__process when preInput finds no NULL item: process()  *)
(* will take one item of each synchronous pin, and of each asynchronous pin   *)
(* that has one, or return before it has called get() on some pins L, which   *)
(* postInput() does not notice.                                               *)
BeginProcess(e) ==
    /\ pc[e] = "dispatched"
    /\ e \in Processors
    /\ \A c \in SyncIns(e) : queue[c] # <<>>
    /\ ~NullDetected(e)
    /\ state' = [state EXCEPT ![e] = "RUNNING"]
    /\ serial' = [serial EXCEPT ![e] = job[e]]
    /\ \E L \in SUBSET (Ins(e) \cap Leaves) :
         /\ take' = [take EXCEPT ![e] = Ins(e) \ L]
         /\ Keep(L)
         /\ pc' = [pc EXCEPT ![e] = IF L = Ins(e) THEN "emit" ELSE "take"]
    /\ \E P \in SUBSET OutPins(e) :
         /\ put' = [put EXCEPT ![e] = P]
         /\ todo' = [todo EXCEPT ![e] = {c \in Outs(e) : from[c] \in P \/ c \in Sync}]
    /\ UNCHANGED <<queue, lookup, pipelineVars, mainVars, pend, result>>

(* ... and when there is a NULL item among them: the first item of every     *)
(* synchronous pin is thrown away and the NULL is propagated.                *)
BeginNull(e) ==
    /\ pc[e] = "dispatched"
    /\ e \in Processors
    /\ \A c \in SyncIns(e) : queue[c] # <<>>
    /\ NullDetected(e)
    /\ state' = [state EXCEPT ![e] = "RUNNING"]
    /\ serial' = [serial EXCEPT ![e] = job[e]]
    /\ take' = [take EXCEPT ![e] = SyncIns(e)]
    /\ put' = [put EXCEPT ![e] = {}]
    /\ todo' = [todo EXCEPT ![e] = Outs(e) \cap Sync]
    /\ result' = [result EXCEPT ![e] = TRUE]
    /\ pc' = [pc EXCEPT ![e] = "flush"]
    /\ UNCHANGED <<queue, left, lookup, pipelineVars, mainVars, pend>>

(* ... and when a synchronous pin has no item at all: peek() throws, run()   *)
(* catches, setError()s and returns FALSE.                                   *)
BeginStarved(e) ==
    /\ pc[e] = "dispatched"
    /\ e \in Processors
    /\ \E c \in SyncIns(e) : queue[c] = <<>>
    /\ state' = [state EXCEPT ![e] = "ERROR"]
    /\ serial' = [serial EXCEPT ![e] = job[e]]
    /\ result' = [result EXCEPT ![e] = FALSE]
    /\ pc' = [pc EXCEPT ![e] = "idle"]
    /\ UNCHANGED <<queue, left, lookup, pipelineVars, mainVars, take, put, todo, pend>>

(* IInputPin::get, or removeFirst in a NULL run. *)
Take(e, c) ==
    /\ pc[e] \in {"take", "flush"}
    /\ c \in take[e]
    /\ queue' = [queue EXCEPT ![c] = IF @ = <<>> THEN @ ELSE Tail(@)]
    /\ take' = [take EXCEPT ![e] = @ \ {c}]
    /\ pc' = [pc EXCEPT ![e] = IF take[e] # {c} THEN @
                               ELSE IF @ = "take" THEN "emit" ELSE "post"]
    /\ UNCHANGED <<state, serial, left, lookup, pipelineVars, mainVars, put, todo, pend, result>>

(* The first half of PinConnection::put: push under the connection's lock.   *)
Push(e, c, null) ==
    /\ c \in todo[e]
    /\ pend[e] = {}
    /\ queue' = [queue EXCEPT ![c] = Append(@, [serial |-> serial[e], null |-> null])]
    /\ todo' = [todo EXCEPT ![e] = @ \ {c}]
    /\ pend' = [pend EXCEPT ![e] = {c}]
    /\ UNCHANGED <<state, serial, left, lookup, pipelineVars, mainVars, pc, take, put, result>>

(* IOutputPin::putVariant in process(), and IOutputPin::post after it.       *)
PutData(e, c) == pc[e] = "emit" /\ from[c] \in put[e] /\ Push(e, c, FALSE)
PostNull(e, c) == pc[e] = "post" /\ Push(e, c, TRUE)

PinCountOne(e) == 1                                 \* mutant: ready on the first pin
PinCountMore(e) == Cardinality(SyncIns(e)) + 1      \* mutant: counts a pin too many
PinCount(e) == Cardinality(SyncIns(e))

(* ScoreBoard::add for a synchronous pin of d: the row of s, cleared when all  *)
(* pins have it.                                                               *)
RowFull(d, s) == lookup[d][s] + 1 = PinCount(d)
Row(d, s) == IF RowFull(d, s) THEN 0 ELSE lookup[d][s] + 1

(* The second half, after the unlock: DataConsumer::newData.  A consumer that *)
(* has a synchronous pin ignores items on the others, and is put on its ready *)
(* list when the row is complete.  A consumer without one is ready for every  *)
(* item.                                                                      *)
MakesReady(c, s) == IF c \in Sync THEN RowFull(to[c], s) ELSE SyncIns(to[c]) = {}

NewData(e, c) ==
    /\ c \in pend[e]
    /\ pend' = [pend EXCEPT ![e] = {}]
    /\ lookup' = IF c \in Sync
                 THEN [lookup EXCEPT ![to[c]][serial[e]] = Row(to[c], serial[e])]
                 ELSE lookup
    /\ ready' = IF MakesReady(c, serial[e])
                THEN [ready EXCEPT ![to[c]] = Append(@, serial[e])]
                ELSE ready
    /\ UNCHANGED <<state, serial, queue, left, runQueue, job, nextSerial, running, base, strays, mainVars, pc, take, put, todo, result>>

PutsLeft(e) == {c \in todo[e] : from[c] \in put[e]}

(* process() or produce() has put what it puts and returns; FALSE when it    *)
(* called setError() before.                                                 *)
EndProcess(e, ok) ==
    /\ pc[e] = "emit"
    /\ PutsLeft(e) = {}
    /\ pend[e] = {}
    /\ ok \/ state[e] = "ERROR" \/ <<e, "false">> \in Faults
    /\ ok => state[e] # "ERROR"
    /\ result' = [result EXCEPT ![e] = ok]
    /\ put' = [put EXCEPT ![e] = {}]
    /\ pc' = [pc EXCEPT ![e] = "post"]
    /\ UNCHANGED <<elementVars, pipelineVars, mainVars, take, todo, pend>>

(* process() reports an error and goes on to its return statement. *)
SetError(e) ==
    /\ <<e, "setError">> \in Faults
    /\ pc[e] = "emit"
    /\ state[e] = "RUNNING"
    /\ state' = [state EXCEPT ![e] = "ERROR"]
    /\ UNCHANGED <<serial, queue, left, lookup, pipelineVars, mainVars, workerVars>>

(* process() throws, in or before a get() or between two puts: run() catches, *)
(* setError()s and returns FALSE; what has not been taken stays and what has   *)
(* not been sent never is.                                                     *)
Throw(e) ==
    /\ <<e, "throw">> \in Faults
    /\ pc[e] \in {"take", "emit"}
    /\ pend[e] = {}
    /\ \A c, d \in Outs(e) : from[c] = from[d] /\ c \in PutsLeft(e) => d \in PutsLeft(e)
    /\ state' = [state EXCEPT ![e] = "ERROR"]
    /\ result' = [result EXCEPT ![e] = FALSE]
    /\ take' = [take EXCEPT ![e] = {}]
    /\ Keep(take[e])
    /\ put' = [put EXCEPT ![e] = {}]
    /\ pc' = [pc EXCEPT ![e] = "idle"]
    /\ UNCHANGED <<serial, queue, lookup, pipelineVars, mainVars, todo, pend>>

(* postOutput() is done.  run() marks the element DONE unless it is in       *)
(* ERROR, which a producer that returned FALSE is by now, and returns: the   *)
(* future is finished.                                                       *)
Finish(e) ==
    /\ pc[e] = "post"
    /\ todo[e] = {}
    /\ pend[e] = {}
    /\ state' = [state EXCEPT ![e] =
                   IF @ = "ERROR" \/ (e \in Producers /\ ~result[e]) THEN "ERROR" ELSE "DONE"]
    /\ pc' = [pc EXCEPT ![e] = "idle"]
    /\ UNCHANGED <<serial, queue, left, lookup, pipelineVars, mainVars, take, put, todo, pend, result>>

-----------------------------------------------------------------------------
MainStep ==
    \/ Start
    \/ Schedule
    \/ ScheduleFailed
    \/ \E c \in Connections : GaugeShort(c) \/ GaugeFull(c)
    \/ RunProducers
    \/ SkipProducers
    \/ StopRequest
    \/ \E e \in Elements : StopCollect(e)
    \/ StopTeardown

WorkerStep(e) ==
    \/ BeginProducer(e) \/ BeginProcess(e) \/ BeginNull(e) \/ BeginStarved(e)
    \/ \E c \in Connections : Take(e, c) \/ PutData(e, c) \/ PostNull(e, c) \/ NewData(e, c)
    \/ \E ok \in BOOLEAN : EndProcess(e, ok)
    \/ SetError(e)
    \/ Throw(e)
    \/ Finish(e)

Next == MainStep \/ \E e \in Elements : WorkerStep(e)

Spec == Init /\ [][Next]_vars

(* Fairness.  The heartbeat timer of interval 0 fires again and again and the *)
(* event loop runs slots to their end; the thread pool runs every dispatched  *)
(* element and process() returns.  Nothing makes the user start or stop.      *)
MainFairness ==
    /\ WF_vars(Schedule \/ ScheduleFailed)
    /\ WF_vars(\E c \in Connections : GaugeShort(c) \/ GaugeFull(c))
    /\ WF_vars(RunProducers \/ SkipProducers)
    /\ WF_vars((\E e \in Elements : StopCollect(e)) \/ StopTeardown)

WorkerFairness == \A e \in Elements : WF_vars(WorkerStep(e))

FairSpec == Spec /\ MainFairness /\ WorkerFairness

(* ... and the producers are not forever unready whenever they are asked.    *)
ReadySpec == FairSpec /\ SF_vars(RunProducers)

-----------------------------------------------------------------------------
(* Properties.                                                                *)

SyncProcessors == {e \in Processors : SyncIns(e) # {}}

(* What a processor that is dispatched for a serial finds: an item on each     *)
(* synchronous pin, and first the one of that serial, or of as many frames     *)
(* before as its earlier runs have left on this pin.                           *)
Aligned(e) ==
    \A c \in SyncIns(e) : queue[c] # <<>> /\ Head(queue[c]).serial = job[e] - left[c]

(* The scheduler mixes no frames: a processor that takes an item of every pin   *)
(* in every run works on items of one serial, the one it is dispatched for,     *)
(* and one that does not is behind, on each pin, by exactly what it has left    *)
(* there.  dataAvailableOnInputPins calls different serials "Input corrupted"   *)
(* and says the model should guarantee that they never happen; preInput relies  *)
(* on it, and nothing makes process() call get() (postInput is empty).          *)
FramesAligned == \A e \in SyncProcessors : pc[e] = "dispatched" => Aligned(e)

(* The same when serials wrap around and rows have survived a stop(): frames   *)
(* stay together at every processor on whose scoreboard no stop() has left a   *)
(* row.  A row that was left is found again when its serial comes back.        *)
AlignedAfterWrap ==
    \A e \in SyncProcessors \ strays : pc[e] = "dispatched" => Aligned(e)

(* The assertion of DataConsumer::newData: an announced serial is newer than   *)
(* the one the consumer works on.  It is evaluated after the connection has    *)
(* been unlocked, when the consumer may already run on what was pushed.        *)
AnnouncedInTime ==
    \A e \in Elements : \A c \in pend[e] \cap Sync :
        serial[e] > serial[to[c]] \/ serial[e] = 0

(* No element is run for a serial it has already been run for, or out of       *)
(* order: the assertion of PipelineProducer::__process, and the one that       *)
(* PipelineProcessor::__process has commented out.                             *)
RunsInOrder ==
    \A e \in Producers \cup SyncProcessors : pc[e] = "dispatched" =>
        job[e] > serial[e] \/ job[e] = 0

(* While the pipeline runs, m_runQueue and the element states tell the same    *)
(* story: RunItem::dispatch finds its element STARTED, run() finds it          *)
(* DISPATCHED, and a worker is inside an element only if it has a run item.    *)
RunQueueExact ==
    running => \A e \in Elements :
        /\ e \in runQueue <=> state[e] \in Busy
        /\ e \notin runQueue => state[e] = "STARTED" /\ Finished(e)
        /\ pc[e] = "dispatched" => state[e] = "DISPATCHED"

(* After stop() no worker is inside an element, and no connection holds an     *)
(* item that a later run would take for one of its own frames.                 *)
QuietWhenStopped ==
    ~running => /\ \A e \in Elements : Finished(e) /\ state[e] = "UNDEFINED"
                /\ \A c \in Connections : queue[c] = <<>>

(* Back-pressure: the connections of producers never hold more items than the  *)
(* threshold of schedule(), although its sizes are read one by one while       *)
(* workers push and take.                                                      *)
SourceBound ==
    \A c \in Connections : owner[from[c]] \in Producers => Len(queue[c]) <= Threshold

(* How far a connection may be from the producers: each one whose source is a   *)
(* processor is farther than some synchronous connection that feeds it.        *)
Distances ==
    {d \in [Connections -> 1 .. Cardinality(Connections)] :
        \A c \in Connections : owner[from[c]] \in Processors =>
            \E b \in SyncIns(owner[from[c]]) : d[b] < d[c]}

(* Back-pressure further down, where schedule() looks at a queue only before   *)
(* the producers run.  What it has read of one connection is old when it reads *)
(* the next, but a processor begins at most one run during one schedule(): a   *)
(* connection n steps from the producers holds at most n times the threshold.  *)
ChainBound ==
    \A d \in Distances : \A c \in Connections : Len(queue[c]) <= Threshold * d[c]

(* Every frame handed to the producers is worked on by every processor it can  *)
(* reach, unless the pipeline stops: no lost wake-up between put(), the        *)
(* scoreboard, the ready list and the heartbeat.                               *)
EveryFrameProcessed ==
    \A s \in FirstSerial .. LastSerial - 1 :
        (running /\ base <= s /\ s < nextSerial)
            ~> (~running \/ \A e \in SyncProcessors : serial[e] >= s)

(* stop() gets out of its polling loop.                                        *)
StopTerminates == mpc = "stop" ~> ~running

(* Back-pressure never becomes a standstill, but in two cases: an asynchronous *)
(* connection stays full, whose consumer takes from it only in runs of         *)
(* process(), not in the runs that throw a NULL frame away; or the runs of a   *)
(* consumer have left as many items on a synchronous pin as the threshold,     *)
(* which no later run takes.                                                   *)
ProductionGoesOn ==
    \/ <>[](\E c \in Connections \ Sync : Len(queue[c]) >= Threshold)
    \/ <>[](\E c \in Sync : left[c] >= Threshold)
    \/ running ~> (nextSerial = LastSerial \/ ~running)

-----------------------------------------------------------------------------
(* The inductive invariants behind the safety properties.  They hold as long   *)
(* as no process() reports an error before it returns.                         *)
ErrorsAtReturn == \A e \in Elements : <<e, "setError">> \notin Faults

(* The element state, the run item and the worker's place in run() agree.      *)
Accounted ==
    /\ mpc # "idle" => running
    /\ running => \A e \in Elements :
           \/ state[e] = "STARTED" /\ pc[e] = "idle" /\ e \notin runQueue
           \/ state[e] = "DISPATCHED" /\ pc[e] = "dispatched" /\ e \in runQueue
           \/ state[e] = "RUNNING" /\ pc[e] \notin {"idle", "dispatched"} /\ e \in runQueue
           \/ state[e] \in {"DONE", "ERROR"} /\ pc[e] = "idle" /\ e \in runQueue
    /\ ~running => /\ runQueue = {}
                   /\ \A e \in Elements : state[e] = "UNDEFINED" /\ pc[e] = "idle"
                   /\ \A c \in Connections : queue[c] = <<>>

(* What the run of the source may still push on c. *)
MayPush(c) ==
    LET e == owner[from[c]]
    IN  pc[e] = "dispatched" \/ (pc[e] \in {"emit", "post"} /\ c \in todo[e])

(* The sizes schedule() has read are still below the threshold, unless the     *)
(* producer is busy, and then the producers will not be run.                   *)
SourceLoad ==
    /\ \A e \in Elements : todo[e] \subseteq Outs(e)
    /\ \A e \in Producers : pc[e] \notin {"take", "flush"}
    /\ \A c \in Connections : owner[from[c]] \in Producers =>
           /\ Len(queue[c]) <= Threshold
           /\ MayPush(c) => Len(queue[c]) < Threshold
           /\ mpc = "gauge" /\ c \notin gauge /\ state[owner[from[c]]] \in Idle
                  => Len(queue[c]) < Threshold

(* Where every frame is, counted from the processing serials.  This also needs *)
(* serials that do not wrap, and processors that all have a synchronous pin    *)
(* connected, as the required pins of the elements in the repository are.      *)
NoWrap == LastSerial \in FirstSerial .. MaxUInt
AllSynchronous == SyncProcessors = Processors

Source(c) == owner[from[c]]
Last(e) == IF serial[e] = 0 THEN base - 1 ELSE serial[e]     \* last frame e began
Issued(e) == IF pc[e] = "dispatched" THEN job[e] ELSE Last(e)    \* ... or was given
Behind(e, S, c) == serial[e] # 0 /\ c \in S
Sent(c) ==      \* last frame pushed on c
    IF Behind(Source(c), todo[Source(c)], c) THEN Last(Source(c)) - 1 ELSE Last(Source(c))
Taken(c) ==     \* last frame whose run has passed by the pin of c
    IF Behind(to[c], take[to[c]], c) THEN Last(to[c]) - 1 ELSE Last(to[c])
Gone(c) ==      \* last frame taken off the queue of c
    Taken(c) - left[c]
Told(c) ==      \* last frame of c announced to its consumer
    IF c \in pend[Source(c)] THEN Sent(c) - 1 ELSE Sent(c)
Complete(e) == Issued(e) + Len(ready[e])    \* last frame e was put on its ready list for
Heard(e, s) == {c \in SyncIns(e) : Told(c) >= s}

Counters == 1 <= base /\ base <= nextSerial /\ nextSerial <= LastSerial
WorkerShape ==
    \A e \in Elements :
        /\ take[e] \subseteq Ins(e) /\ todo[e] \subseteq Outs(e) /\ pend[e] \subseteq Outs(e)
        /\ pc[e] \notin {"take", "flush"} => take[e] = {}
        /\ pc[e] \notin {"emit", "post"} => pend[e] = {}
        /\ \A c \in pend[e] : pend[e] = {c} /\ c \notin todo[e]
        /\ serial[e] # 0 => running /\ base <= serial[e] /\ serial[e] < nextSerial
        /\ pc[e] \notin {"idle", "dispatched"} => serial[e] # 0
        /\ pc[e] \in {"idle", "dispatched"} /\ serial[e] # 0 /\ todo[e] # {} =>
               pc[e] = "idle" /\ ~result[e] /\ (e \in runQueue \/ mpc = "stop")
JobNext ==
    /\ \A e \in Producers \cup SyncProcessors : pc[e] = "dispatched" => job[e] = Last(e) + 1
    /\ running => \A e \in Producers : Issued(e) = nextSerial - 1
QueueExact ==
    \A c \in Sync :
        /\ Len(queue[c]) = Sent(c) - Gone(c)
        /\ \A i \in 1 .. Len(queue[c]) : queue[c][i].serial = Gone(c) + i
        /\ base <= Gone(c) + 1
        /\ left[c] > 0 => c \in Leaves \/ <<to[c], "throw">> \in Faults
ReadyExact ==
    \A e \in SyncProcessors :
        /\ \A i \in 1 .. Len(ready[e]) : ready[e][i] = Issued(e) + i
        /\ \A c \in SyncIns(e) : Told(c) >= Complete(e)
        /\ \E c \in SyncIns(e) : Told(c) = Complete(e)
ScoreExact ==
    /\ \A e \in Processors : \A s \in Serials : s >= nextSerial => lookup[e][s] = 0
    /\ running => \A e \in SyncProcessors : \A s \in Serials : s >= base =>
           lookup[e][s] = IF s <= Complete(e) THEN 0 ELSE Cardinality(Heard(e, s))

(* Every frame that has been produced is, on each connection, either still to   *)
(* be sent, queued, or taken, and the queue is longer than the lead of the      *)
(* source over the consumer by exactly the items left there; it is on the ready *)
(* list or on the scoreboard of each consumer exactly as far as its items have  *)
(* been announced.                                                              *)
Bookkeeping == Counters /\ WorkerShape /\ JobNext /\ QueueExact /\ ReadyExact /\ ScoreExact

(* The frames that c may still get, and those it holds.  While schedule() reads *)
(* the sizes, one that it has read leaves room for what the run of its source   *)
(* still owes to it.                                                            *)
Owes(c) == pc[Source(c)] = "dispatched" \/ c \in todo[Source(c)]
Room(c) == Len(queue[c]) <= Threshold /\ (Owes(c) => Len(queue[c]) < Threshold)
Load(c) == Len(queue[c]) + (nextSerial - 1 - Sent(c))
ChainLoad ==
    /\ mpc = "gauge" => \A c \in Connections \ gauge : Room(c)
    /\ running => \A d \in Distances : \A c \in Connections : Load(c) <= Threshold * d[c]

-----------------------------------------------------------------------------
(* The abstract specification, with the history of each element read off its   *)
(* processing serial.                                                          *)
SyncFeeds(e) == {owner[from[c]] : c \in SyncIns(e)}

Order == INSTANCE FrameOrder WITH
    Consumers <- Processors, Feeds <- SyncFeeds,
    live <- running, first <- base, next <- nextSerial, last <- serial

(* The pipeline implements FrameOrder: every element works on every frame      *)
(* once, in order, and never before the elements that feed it.                 *)
ImplementsFrameOrder == Order!Spec
=============================================================================
