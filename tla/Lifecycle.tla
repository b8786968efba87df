----------------------------- MODULE Lifecycle -----------------------------
(***************************************************************************)
(* Starting, failing and stopping a pipeline: Pipeline::init, start, stop, *)
(* schedule and pipelineElementError on the main thread, the state machine *)
(* of PipelineElement that their assertions guard, and the modal dialogs   *)
(* of MainWindow::handleMessage, whose nested event loops let other slots  *)
(* run in the middle of these.                                             *)
(*                                                                         *)
(* Frames and queues are left out (module Dataflow has them): which        *)
(* processors have a ready item, and whether producers are ready to        *)
(* produce, is arbitrary.  asserts are compiled in; aborted names the      *)
(* first that fails, and nothing happens after it.                         *)
(***************************************************************************)
EXTENDS Integers, Sequences, FiniteSets

CONSTANTS
    Elements,       \* the keys of m_children
    Producers,      \* the keys of m_producers
    Graphs,         \* what the user may have drawn: "ok", "pins" missing, a "cycle"
    Faults,         \* what may go wrong in which element
    MaxStarts       \* bound of an instance: calls of start()

FaultKinds == {"initFalse", "initSilent", "initThrow", "startFalse", "startThrow", "runFail", "quit"}

ASSUME LifecycleAssumption ==
    /\ Elements \subseteq Nat \ {0}
    /\ IsFiniteSet(Elements)
    /\ Producers \subseteq Elements
    /\ Graphs \subseteq {"ok", "pins", "cycle"}
    /\ Faults \subseteq Elements \X FaultKinds
    /\ MaxStarts \in Nat

Processors == Elements \ Producers

(* PipelineElement::State; the code compares states by this order. *)
Idle == {"UNDEFINED", "INITIALIZED", "STARTED"}          \* < PLE_DISPATCHED
Live == {"STARTED", "DISPATCHED", "RUNNING", "DONE", "ERROR"}    \* >= PLE_STARTED
States == Idle \cup Live

VARIABLES
    state,      \* m_state of each element
    worker,     \* the run of each element: none, queued in the thread pool, or inside run()
    result,     \* what its last run returned
    fed,        \* processors with a non-empty list in m_readyQueue
    runQueue,   \* the elements with a RunItem in m_runQueue
    running,    \* m_running; the heartbeat timer is active exactly then
    hb,         \* connections from m_heartbeat's timeout() to schedule()
    starts,     \* calls of start() so far
    gone,       \* producers whose device has quit since it was initialised
    errors,     \* posted calls of pipelineElementError
    dialogs,    \* the open dialogs, innermost last, with what goes on when they close
    mpc,        \* where the main thread is
    calls,      \* calls of schedule() still to make for the current timeout()
    aborted,    \* the assertion that failed, or "hang"
    \* history variables: what nothing has undone
    kept,       \* elements that a failed start() has left as init() left them
    late,       \* elements whose run a stop() has not waited for
    marks       \* which of the events Marks have happened

elementVars == <<state, worker, result>>
queueVars == <<fed, runQueue, hb>>
eventVars == <<gone, errors>>
mainVars == <<dialogs, mpc, calls>>
historyVars == <<kept, late, marks>>
vars == <<elementVars, queueVars, running, starts, eventVars, mainVars, aborted, historyVars>>

Workers == {"none", "queued", "inside"}
DialogKinds == {"init", "pins", "cycle", "start", "failed", "error"}
Dialogs == [kind : DialogKinds, at : Nat]
(* An init() has thrown, or returned FALSE without an error; a failed run has   *)
(* stopped the pipeline in a timeout() that calls schedule() again; a device    *)
(* has quit.                                                                    *)
Marks == {"threw", "silent", "twice", "quit"}
Checked == {"init", "deinit", "start", "stop", "dispatch", "run"}

TypeOK ==
    /\ state \in [Elements -> States]
    /\ worker \in [Elements -> Workers]
    /\ result \in [Elements -> BOOLEAN]
    /\ fed \in SUBSET Processors
    /\ runQueue \in SUBSET Elements
    /\ running \in BOOLEAN
    /\ hb \in Nat
    /\ starts \in Nat
    /\ gone \in SUBSET Producers
    /\ errors \in Nat
    /\ dialogs \in Seq(Dialogs)
    /\ mpc \in {"idle", "start", "stop", "stopFailed"}
    /\ calls \in Nat
    /\ aborted \in {"none", "hang"} \cup Checked
    /\ kept \in SUBSET Elements
    /\ late \in SUBSET Elements
    /\ marks \in SUBSET Marks

Init ==
    /\ state = [e \in Elements |-> "UNDEFINED"]
    /\ worker = [e \in Elements |-> "none"]
    /\ result = [e \in Elements |-> TRUE]
    /\ fed = {}
    /\ runQueue = {}
    /\ running = FALSE
    /\ hb = 0
    /\ starts = 0
    /\ gone = {}
    /\ errors = 0
    /\ dialogs = <<>>
    /\ mpc = "idle"
    /\ calls = 0
    /\ aborted = "none"
    /\ kept = {}
    /\ late = {}
    /\ marks = {}

Mark(m, happened) == marks' = marks \cup (IF happened THEN {m} ELSE {})
Check(name, holds) == aborted' = IF holds THEN "none" ELSE name

(* The event loop, nested or not, is free to deliver the next event. *)
Alive == aborted = "none"
Looping == Alive /\ mpc = "idle" /\ calls = 0

(* The dialogs are modal and posted events are delivered before user input. *)
UserMay == Looping /\ dialogs = <<>> /\ errors = 0

(* MainWindow::handleMessage for a warning: the caller goes on when the user  *)
(* has closed the dialog.                                                     *)
Show(kind, at) == dialogs' = Append(dialogs, [kind |-> kind, at |-> at])
Top == dialogs[Len(dialogs)]
Pop == dialogs' = SubSeq(dialogs, 1, Len(dialogs) - 1)

-----------------------------------------------------------------------------
(* start(): the user presses the start button, enabled while not running.     *)

Before(e) == {x \in Elements : x < e}

(* Pipeline::init succeeds: __init of every element, in the order of the      *)
(* keys.  One whose init() returns FALSE without an error type is in ERROR    *)
(* and counts as initialised.                                                 *)
InitDone ==
    /\ UserMay
    /\ ~running
    /\ starts < MaxStarts
    /\ \E S \in SUBSET {e \in Elements : <<e, "initSilent">> \in Faults} :
         /\ state' = [e \in Elements |-> IF e \in S THEN "ERROR" ELSE "INITIALIZED"]
         /\ Mark("silent", S # {})
    /\ Check("init", \A e \in Elements : state[e] = "UNDEFINED")
    /\ starts' = starts + 1
    /\ fed' = {}
    /\ hb' = hb + 1
    /\ gone' = {}
    /\ mpc' = "start"
    /\ UNCHANGED <<worker, result, runQueue, running, errors, dialogs, calls, kept, late>>

(* init() of e fails: __deinit of e, whose state is UNDEFINED still when       *)
(* init() has thrown, then a dialog.                                           *)
InitFails(e) ==
    /\ UserMay
    /\ ~running
    /\ starts < MaxStarts
    /\ LET clean == \A x \in Before(e) \cup {e} : state[x] = "UNDEFINED"
       IN  \E how \in {"initFalse", "initThrow"} :
             /\ <<e, how>> \in Faults
             /\ Check(IF clean THEN "deinit" ELSE "init", clean /\ how = "initFalse")
             /\ Mark("threw", how = "initThrow")
    /\ state' = [x \in Elements |-> IF x < e THEN "INITIALIZED" ELSE state[x]]
    /\ starts' = starts + 1
    /\ Show("init", e)
    /\ UNCHANGED <<worker, result, queueVars, running, eventVars, mpc, calls, kept, late>>

(* ... and when it closes, __deinit of the elements before e. *)
KeepInitialised(e) == state                                          \* mutant
Uninitialise(e) == [x \in Elements |-> IF x < e THEN "UNDEFINED" ELSE state[x]]

CloseInit ==
    /\ Looping /\ dialogs # <<>> /\ Top.kind = "init"
    /\ state' = Uninitialise(Top.at)
    /\ Pop
    /\ UNCHANGED <<worker, result, queueVars, running, starts, eventVars, mpc, calls, aborted, historyVars>>

(* The checks of the graph: required pins, then cycles.                       *)
GraphFails ==
    /\ Alive
    /\ mpc = "start"
    /\ \E g \in Graphs \ {"ok"} : Show(g, 0)
    /\ mpc' = "idle"
    /\ UNCHANGED <<elementVars, queueVars, running, starts, eventVars, calls, aborted, historyVars>>

(* Pipeline::deinit after the dialog on missing pins; the heartbeat is        *)
(* disconnected.                                                              *)
ClosePins ==
    /\ Looping /\ dialogs # <<>> /\ Top.kind = "pins"
    /\ state' = [e \in Elements |-> "UNDEFINED"]
    /\ Check("deinit", \A e \in Elements : state[e] \in {"INITIALIZED", "ERROR"})
    /\ hb' = 0
    /\ Pop
    /\ UNCHANGED <<worker, result, fed, runQueue, running, starts, eventVars, mpc, calls, historyVars>>

(* Nothing is undone after the dialog on a cycle. *)
CloseCycle ==
    /\ Looping /\ dialogs # <<>> /\ Top.kind = "cycle"
    /\ kept' = Elements
    /\ Pop
    /\ UNCHANGED <<elementVars, queueVars, running, starts, eventVars, mpc, calls, aborted, late, marks>>

(* __start of every element, then the heartbeat is started. *)
StartDone ==
    /\ Alive
    /\ mpc = "start"
    /\ "ok" \in Graphs
    /\ Check("start", \A e \in Elements : state[e] = "INITIALIZED")
    /\ state' = [e \in Elements |-> "STARTED"]
    /\ running' = TRUE
    /\ mpc' = "idle"
    /\ UNCHANGED <<worker, result, queueVars, starts, eventVars, dialogs, calls, historyVars>>

(* start() of e returns FALSE or throws: a dialog, with the elements before e *)
(* STARTED and those after e untouched.                                       *)
StartFails(e) ==
    /\ Alive
    /\ mpc = "start"
    /\ "ok" \in Graphs
    /\ \E how \in {"startFalse", "startThrow"} :
         /\ <<e, how>> \in Faults
         /\ state' = [x \in Elements |->
                        IF x < e THEN "STARTED"
                        ELSE IF x = e /\ how = "startFalse" THEN "ERROR" ELSE state[x]]
    /\ Check("start", \A x \in Before(e) \cup {e} : state[x] = "INITIALIZED")
    /\ mpc' = "idle"
    /\ Show("start", e)
    /\ UNCHANGED <<worker, result, queueVars, running, starts, eventVars, calls, historyVars>>

(* ... when it closes, __deinit of e, and __stop and __deinit of those before; *)
(* those after e stay as they are.                                             *)
Unstart(e) == [x \in Elements |-> IF x <= e THEN "UNDEFINED" ELSE state[x]]

CloseStart ==
    /\ Looping /\ dialogs # <<>> /\ Top.kind = "start"
    /\ state' = Unstart(Top.at)
    /\ kept' = {x \in Elements : x > Top.at}
    /\ Pop
    /\ UNCHANGED <<worker, result, queueVars, running, starts, eventVars, mpc, calls, aborted, late, marks>>

-----------------------------------------------------------------------------
(* stop().                                                                    *)

(* start() shows its dialogs with m_pipelineMutex locked, which is not        *)
(* recursive.                                                                 *)
MutexHeld(ds) == \E i \in 1 .. Len(ds) : ds[i].kind \in {"pins", "cycle", "start"}

StopCall(where, ds) ==
    /\ mpc' = where
    /\ Check(IF MutexHeld(ds) THEN "hang" ELSE "stop", running /\ ~MutexHeld(ds))

UserStop ==
    /\ UserMay
    /\ running
    /\ StopCall("stop", dialogs)
    /\ UNCHANGED <<elementVars, queueVars, running, starts, eventVars, dialogs, calls, historyVars>>

StopCollect(e) ==
    /\ Alive
    /\ mpc \in {"stop", "stopFailed"}
    /\ e \in runQueue
    /\ state[e] \in {"DONE", "ERROR"}
    /\ runQueue' = runQueue \ {e}
    /\ state' = [state EXCEPT ![e] = "STARTED"]
    /\ UNCHANGED <<worker, result, fed, hb, running, starts, eventVars, mainVars, aborted, historyVars>>

(* __stop and __deinit of every element, which accept every state from         *)
(* STARTED on.  schedule() then shows its message.                             *)
StopTeardown ==
    /\ Alive
    /\ mpc \in {"stop", "stopFailed"}
    /\ runQueue = {}
    /\ Check("stop", \A e \in Elements : state[e] \in Live)
    /\ state' = [e \in Elements |-> "UNDEFINED"]
    /\ fed' = {}
    /\ running' = FALSE
    /\ mpc' = "idle"
    /\ IF mpc = "stopFailed"
       THEN Show("failed", calls) /\ calls' = 0
       ELSE UNCHANGED <<dialogs, calls>>
    /\ late' = late \cup {e \in Elements : worker[e] # "none"}
    /\ UNCHANGED <<worker, result, runQueue, hb, starts, eventVars, kept, marks>>

(* The dialog of schedule() closes; timeout() goes on with its next call.     *)
CloseFailed ==
    /\ Looping /\ dialogs # <<>> /\ Top.kind = "failed"
    /\ calls' = Top.at
    /\ Pop
    /\ UNCHANGED <<elementVars, queueVars, running, starts, eventVars, mpc, aborted, historyVars>>

-----------------------------------------------------------------------------
(* The heartbeat.                                                             *)

(* timeout() calls schedule() once per connection. *)
Tick ==
    /\ Looping
    /\ running
    /\ calls' = hb
    /\ UNCHANGED <<elementVars, queueVars, running, starts, eventVars, dialogs, mpc, aborted, historyVars>>

Due == calls > 0

FailedProducers == {e \in runQueue \cap Producers : worker[e] = "none" /\ ~result[e]}   \* mutant
Failed == {e \in runQueue : worker[e] = "none" /\ ~result[e]}

ScheduleFailed ==
    /\ Alive
    /\ mpc = "idle"
    /\ Due
    /\ Failed # {}
    /\ calls' = calls - 1
    /\ StopCall("stopFailed", dialogs)
    /\ Mark("twice", calls > 1)
    /\ UNCHANGED <<elementVars, queueVars, running, starts, eventVars, dialogs, kept, late>>

Swept == {e \in runQueue : worker[e] = "none"}

(* The sweep, the dispatch of the processors that have a ready item, and,      *)
(* when every producer is ready, of the producers.                             *)
Schedule ==
    /\ Alive
    /\ mpc = "idle"
    /\ Due
    /\ Failed = {}
    /\ calls' = calls - 1
    /\ LET now == [e \in Elements |-> IF e \in Swept THEN "STARTED" ELSE state[e]]
           waiting == fed \ (runQueue \ Swept)
       IN  \E produce \in BOOLEAN :
             LET go == waiting \cup (IF produce THEN Producers ELSE {})
             IN  /\ produce => \A e \in Producers : now[e] \in Idle
                 /\ Check("dispatch", \A e \in go : now[e] = "STARTED")
                 /\ state' = [e \in Elements |-> IF e \in go THEN "DISPATCHED" ELSE now[e]]
                 /\ worker' = [e \in Elements |-> IF e \in go THEN "queued" ELSE worker[e]]
                 /\ runQueue' = (runQueue \ Swept) \cup go
                 /\ \E F \in SUBSET waiting : fed' = (fed \ waiting) \cup F
    /\ UNCHANGED <<result, hb, running, starts, eventVars, dialogs, mpc, historyVars>>

-----------------------------------------------------------------------------
(* A device quits.                                                            *)

NotifyWhenLive(e) == state[e] \in Live          \* getState() > PLE_INITIALIZED

(* cameraFinished, kinectFinished: the producer goes to ERROR, whatever it is *)
(* doing, and the error is posted to the pipeline.                            *)
Quit(e) ==
    /\ Looping
    /\ <<e, "quit">> \in Faults
    /\ starts > 0
    /\ e \notin gone
    /\ NotifyWhenLive(e)
    /\ gone' = gone \cup {e}
    /\ state' = [state EXCEPT ![e] = "ERROR"]
    /\ errors' = errors + 1
    /\ Mark("quit", TRUE)
    /\ UNCHANGED <<worker, result, queueVars, running, starts, mainVars, aborted, kept, late>>

(* pipelineElementError: a dialog, then stop(). *)
DeliverError ==
    /\ Looping
    /\ errors > 0
    /\ errors' = errors - 1
    /\ Show("error", 0)
    /\ UNCHANGED <<elementVars, queueVars, running, starts, gone, mpc, calls, aborted, historyVars>>

CloseError ==
    /\ Looping /\ dialogs # <<>> /\ Top.kind = "error"
    /\ Pop
    /\ StopCall("stop", SubSeq(dialogs, 1, Len(dialogs) - 1))
    /\ UNCHANGED <<elementVars, queueVars, running, starts, eventVars, calls, historyVars>>

-----------------------------------------------------------------------------
(* The worker threads: PipelineElement::run.                                  *)

RunBegins(e) ==
    /\ Alive
    /\ worker[e] = "queued"
    /\ Check("run", state[e] = "DISPATCHED")
    /\ state' = [state EXCEPT ![e] = "RUNNING"]
    /\ worker' = [worker EXCEPT ![e] = "inside"]
    /\ UNCHANGED <<result, queueVars, running, starts, eventVars, mainVars, historyVars>>

RunEnds(e, ok) ==
    /\ Alive
    /\ worker[e] = "inside"
    /\ ok \/ <<e, "runFail">> \in Faults
    /\ result' = [result EXCEPT ![e] = ok]
    /\ state' = [state EXCEPT ![e] = IF ok /\ @ # "ERROR" THEN "DONE" ELSE "ERROR"]
    /\ worker' = [worker EXCEPT ![e] = "none"]
    /\ \E F \in SUBSET Processors : fed' = IF running THEN fed \cup F ELSE fed
    /\ UNCHANGED <<runQueue, hb, running, starts, eventVars, mainVars, aborted, historyVars>>

-----------------------------------------------------------------------------
MainStep ==
    \/ InitDone \/ GraphFails \/ StartDone
    \/ \E e \in Elements : InitFails(e) \/ StartFails(e)
    \/ CloseInit \/ ClosePins \/ CloseCycle \/ CloseStart \/ CloseFailed \/ CloseError
    \/ UserStop \/ StopTeardown \/ \E e \in Elements : StopCollect(e)
    \/ Tick \/ ScheduleFailed \/ Schedule
    \/ DeliverError \/ \E e \in Producers : Quit(e)

WorkerStep(e) == RunBegins(e) \/ \E ok \in BOOLEAN : RunEnds(e, ok)

Next == MainStep \/ \E e \in Elements : WorkerStep(e)

Spec == Init /\ [][Next]_vars

(* Fairness: the zero-interval heartbeat keeps firing, slots run to their end, *)
(* the pool runs what is dispatched.  Users need not close a dialog.           *)
FairSpec ==
    /\ Spec
    /\ WF_vars(Tick \/ ScheduleFailed \/ Schedule)
    /\ WF_vars(StopTeardown \/ \E e \in Elements : StopCollect(e))
    /\ \A e \in Elements : WF_vars(WorkerStep(e))

-----------------------------------------------------------------------------
(* Properties.                                                                *)

(* Whenever the user can press a button, the pipeline runs and every element   *)
(* is started, or it does not and everything is undone, but for what start()   *)
(* does not undo: all elements after a cycle was found, and the elements       *)
(* behind one that failed to start, of which none is UNDEFINED.  (An element   *)
(* whose run outlives a stop() has whatever state that run gives it.)          *)
AllOrNothing ==
    UserMay =>
        IF running THEN \A e \in Elements : state[e] \in Live
        ELSE \A e \in Elements \ late : state[e] = "UNDEFINED" <=> e \notin kept

(* No assertion of the life cycle fails, and the main thread never waits for   *)
(* a mutex it holds: the cleanup of start() and stop() leaves the elements     *)
(* ready for the next start().                                                 *)
NoAbort == aborted = "none"

(* An assertion fails, or the main thread hangs, only after one of the events  *)
(* that the code does not provide for: __init after a failed start() that left *)
(* elements behind; __deinit after an init() that threw; __start after one     *)
(* that failed silently; the dispatch in a timeout() whose earlier schedule()  *)
(* stopped the pipeline; and everything else only after a device has quit.     *)
AbortsExplained ==
    /\ aborted = "init" => kept # {} \/ late # {}
    /\ aborted = "deinit" => "threw" \in marks \/ late # {}
    /\ aborted = "start" => "silent" \in marks \/ late # {}
    /\ aborted = "dispatch" => "twice" \in marks \/ "quit" \in marks
    /\ aborted \in {"run", "stop", "hang"} \/ late # {} => "quit" \in marks

(* A failed run stops the pipeline: its result is not lost between the worker, *)
(* the sweep and stop(), whatever devices quit and dialogs open meanwhile.     *)
(* (A program that has aborted on the way stays where it is.)                  *)
FailureStops ==
    \A e \in Elements :
        (running /\ e \in runQueue /\ worker[e] = "none" /\ ~result[e]) ~> (~running \/ ~Alive)
=============================================================================
