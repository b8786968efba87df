--------------------------- MODULE LifecycleProofs ---------------------------
(* Proofs about Lifecycle, whatever fails: the types of its state, which events *)
(* an assertion that fails comes from, and what a failed start() leaves.        *)
EXTENDS Lifecycle, SequenceTheorems, TLAPS

-----------------------------------------------------------------------------
(* The inductive invariant.  It says where the pipeline is between two slots of *)
(* the main thread or steps of a worker, as long as nothing has aborted.        *)

(* The dialogs of start() stop everything else: the first dialog may be one of  *)
(* them, and then only those of pipelineElementError open above it.             *)
Asking == {"init", "pins", "cycle", "start"}
AskedIn(ds) == ds # <<>> /\ ds[1].kind \in Asking
Nested(ds) ==
    \A i \in 2 .. Len(ds) : ds[i].kind \notin Asking /\ (AskedIn(ds) => ds[i].kind = "error")
Asked == AskedIn(dialogs)

(* Where the main thread can be. *)
Places ==
    /\ mpc \in {"stop", "stopFailed"} => running
    /\ mpc = "start" => ~running /\ dialogs = <<>>
    /\ Asked => ~running /\ mpc = "idle"
    /\ mpc \in {"start", "stop"} \/ Asked => calls = 0
    /\ Nested(dialogs)
    /\ ~running => runQueue = {} /\ fed = {}

(* What a failed start() leaves, and what each dialog of start() is shown with. *)
Fresh(e) == state[e] \in {"INITIALIZED", "ERROR"}
Undone(e) == state[e] = "UNDEFINED" <=> e \notin kept
LeftOver ==
    /\ \A e \in Elements : state[e] # "STARTED"
    /\ \A e \in Elements \ late : Undone(e)
AskedWith(kind, at) ==
    /\ kind = "init" => /\ \A e \in Elements : state[e] # "STARTED"
                        /\ \A e \in Elements \ late : IF e < at THEN e \notin kept ELSE Undone(e)
    /\ kind \in {"pins", "cycle"} => /\ \A e \in Elements : state[e] # "STARTED"
                                     /\ \A e \in Elements \ late : Fresh(e) /\ e \notin kept
    /\ kind = "start" => \A e \in Elements : e > at => state[e] # "STARTED" /\ (e \notin late => Fresh(e))
RunsWith == \A e \in Elements : state[e] \in Live /\ (e \notin late => e \notin kept)
StartsWith ==
    /\ \A e \in Elements : state[e] # "STARTED"
    /\ \A e \in Elements \ late :
         /\ state[e] = "INITIALIZED" \/ (state[e] = "ERROR" /\ "silent" \in marks)
         /\ e \notin kept
Phases ==
    /\ running => RunsWith
    /\ mpc = "start" => StartsWith
    /\ ~running /\ mpc = "idle" /\ ~Asked => LeftOver
    /\ Asked => AskedWith(dialogs[1].kind, dialogs[1].at)

(* A run that goes on while the pipeline does not is one that stop() has not    *)
(* waited for.                                                                  *)
Drained == ~running => \A e \in Elements : worker[e] # "none" => e \in late

(* The marks are there in time. *)
Marked ==
    /\ errors > 0 => "quit" \in marks
    /\ \A i \in 1 .. Len(dialogs) :
         /\ dialogs[i].kind = "error" => "quit" \in marks
         /\ dialogs[i].kind = "failed" /\ dialogs[i].at > 0 => "twice" \in marks
    /\ calls > 0 /\ (~running \/ mpc = "stopFailed") => "twice" \in marks

(* Until a device quits, an element is with the scheduler, or with the pool and *)
(* on its way there.                                                            *)
Held(e) ==
    \/ e \notin runQueue /\ state[e] = "STARTED" /\ worker[e] = "none"
    \/ e \in runQueue /\ state[e] = "DISPATCHED" /\ worker[e] = "queued"
    \/ e \in runQueue /\ state[e] = "RUNNING" /\ worker[e] = "inside"
    \/ e \in runQueue /\ state[e] \in {"DONE", "ERROR"} /\ worker[e] = "none"
Calm == "quit" \notin marks => late = {} /\ (running => \A e \in Elements : Held(e))

Body == Places /\ Phases /\ Drained /\ Marked /\ Calm
LInv == AbortsExplained /\ (Alive => Body)

-----------------------------------------------------------------------------
(* Types, whatever fails. *)

LEMMA ShowPop ==
    ASSUME NEW ds \in Seq(Dialogs)
    PROVE  /\ \A k \in DialogKinds, n \in Nat : Append(ds, [kind |-> k, at |-> n]) \in Seq(Dialogs)
           /\ ds # <<>> => /\ ds[Len(ds)] \in Dialogs
                           /\ SubSeq(ds, 1, Len(ds) - 1) \in Seq(Dialogs)
<1>1. ASSUME NEW k \in DialogKinds, NEW n \in Nat
      PROVE  Append(ds, [kind |-> k, at |-> n]) \in Seq(Dialogs)
  BY DEF Dialogs
<1>2. ASSUME ds # <<>>
      PROVE  ds[Len(ds)] \in Dialogs /\ SubSeq(ds, 1, Len(ds) - 1) \in Seq(Dialogs)
  <2>1. Len(ds) \in Nat \ {0}
    BY <1>2
  <2> QED
    BY <2>1
<1> QED
  BY <1>1, <1>2

LEMMA InitTypes == Init => TypeOK
<1> SUFFICES ASSUME Init PROVE TypeOK
  OBVIOUS
<1>1. <<>> \in Seq(Dialogs)
  OBVIOUS
<1> QED
  BY <1>1 DEF Init, TypeOK, States, Idle, Workers

(* init(), start() and their dialogs. *)
LEMMA StartTypes ==
    ASSUME TypeOK,
           \/ InitDone \/ GraphFails \/ StartDone \/ CloseInit \/ ClosePins \/ CloseCycle \/ CloseStart
           \/ \E e \in Elements : InitFails(e) \/ StartFails(e)
    PROVE  TypeOK'
<1> USE DEF TypeOK, States, Idle, Live, Checked, Check, Show, Pop, Top,
            queueVars, elementVars, eventVars, mainVars, historyVars, Marks, Mark
<1>0. dialogs \in Seq(Dialogs) /\ Elements \subseteq Nat
  BY LifecycleAssumption
<1>1. CASE InitDone
  BY <1>1 DEF InitDone
<1>2. CASE GraphFails
  <2>1. dialogs' \in Seq(Dialogs)
    BY <1>0, <1>2, ShowPop, LifecycleAssumption DEF GraphFails, DialogKinds
  <2> QED
    BY <1>2, <2>1 DEF GraphFails
<1>3. CASE StartDone
  BY <1>3 DEF StartDone
<1>4. CASE CloseInit
  <2>1. dialogs' \in Seq(Dialogs)
    BY <1>0, <1>4, ShowPop DEF CloseInit
  <2> QED
    BY <1>4, <2>1 DEF CloseInit, Uninitialise
<1>5. CASE ClosePins
  <2>1. dialogs' \in Seq(Dialogs)
    BY <1>0, <1>5, ShowPop DEF ClosePins
  <2> QED
    BY <1>5, <2>1 DEF ClosePins
<1>6. CASE CloseCycle
  <2>1. dialogs' \in Seq(Dialogs)
    BY <1>0, <1>6, ShowPop DEF CloseCycle
  <2> QED
    BY <1>6, <2>1 DEF CloseCycle
<1>7. CASE CloseStart
  <2>1. dialogs' \in Seq(Dialogs)
    BY <1>0, <1>7, ShowPop DEF CloseStart
  <2> QED
    BY <1>7, <2>1 DEF CloseStart, Unstart
<1>8. ASSUME NEW e \in Elements, InitFails(e) PROVE TypeOK'
  <2>1. dialogs' \in Seq(Dialogs)
    BY <1>0, <1>8, ShowPop DEF InitFails, DialogKinds
  <2>2. aborted' \in {"none", "init", "deinit"}
    BY <1>8 DEF InitFails
  <2> QED
    BY <1>8, <2>1, <2>2 DEF InitFails
<1>9. ASSUME NEW e \in Elements, StartFails(e) PROVE TypeOK'
  <2>1. dialogs' \in Seq(Dialogs)
    BY <1>0, <1>9, ShowPop DEF StartFails, DialogKinds
  <2> QED
    BY <1>9, <2>1 DEF StartFails
<1> QED
  BY <1>1, <1>2, <1>3, <1>4, <1>5, <1>6, <1>7, <1>8, <1>9

(* stop(), the errors of devices and their dialogs. *)
LEMMA StopTypes ==
    ASSUME TypeOK,
           \/ UserStop \/ StopTeardown \/ CloseFailed \/ CloseError \/ DeliverError
           \/ (\E e \in Elements : StopCollect(e)) \/ \E e \in Producers : Quit(e)
    PROVE  TypeOK'
<1> USE DEF TypeOK, States, Idle, Live, Checked, Check, Show, Pop, Top, StopCall,
            queueVars, elementVars, eventVars, mainVars, historyVars, Marks, Mark
<1>0. dialogs \in Seq(Dialogs) /\ Elements \subseteq Nat /\ Producers \subseteq Elements
  BY LifecycleAssumption
<1>1. CASE UserStop
  BY <1>1 DEF UserStop
<1>2. CASE StopTeardown
  <2>1. dialogs' \in Seq(Dialogs) /\ calls' \in Nat
    <3>1. \/ dialogs' = Append(dialogs, [kind |-> "failed", at |-> calls]) /\ calls' = 0
          \/ UNCHANGED <<dialogs, calls>>
      BY <1>2 DEF StopTeardown
    <3>2. "failed" \in DialogKinds /\ calls \in Nat
      BY DEF DialogKinds
    <3>3. Append(dialogs, [kind |-> "failed", at |-> calls]) \in Seq(Dialogs)
      BY <1>0, <3>2, ShowPop
    <3>4. CASE UNCHANGED <<dialogs, calls>>
      BY <1>0, <3>2, <3>4
    <3> QED
      BY <3>1, <3>3, <3>4, SMTT(30)
  <2> QED
    BY <1>2, <2>1 DEF StopTeardown
<1>3. CASE CloseFailed
  <2>1. dialogs' \in Seq(Dialogs) /\ dialogs[Len(dialogs)] \in Dialogs
    BY <1>0, <1>3, ShowPop DEF CloseFailed
  <2>2. calls' \in Nat
    BY <1>3, <2>1 DEF CloseFailed, Dialogs
  <2> QED
    BY <1>3, <2>1, <2>2 DEF CloseFailed
<1>4. CASE CloseError
  <2>1. dialogs' \in Seq(Dialogs)
    BY <1>0, <1>4, ShowPop DEF CloseError
  <2> QED
    BY <1>4, <2>1 DEF CloseError
<1>5. CASE DeliverError
  <2>1. dialogs' \in Seq(Dialogs)
    BY <1>0, <1>5, ShowPop DEF DeliverError, DialogKinds
  <2> QED
    BY <1>5, <2>1 DEF DeliverError
<1>6. ASSUME NEW e \in Elements, StopCollect(e) PROVE TypeOK'
  BY <1>6 DEF StopCollect
<1>7. ASSUME NEW e \in Producers, Quit(e) PROVE TypeOK'
  BY <1>0, <1>7 DEF Quit
<1> QED
  BY <1>1, <1>2, <1>3, <1>4, <1>5, <1>6, <1>7

(* The heartbeat and the workers. *)
LEMMA RunTypes ==
    ASSUME TypeOK, Tick \/ ScheduleFailed \/ Schedule \/ \E e \in Elements : WorkerStep(e)
    PROVE  TypeOK'
<1> USE DEF TypeOK, States, Idle, Live, Workers, Checked, Check, StopCall,
            queueVars, elementVars, eventVars, mainVars, historyVars, Marks, Mark
<1>1. CASE Tick
  BY <1>1 DEF Tick
<1>2. CASE ScheduleFailed
  BY <1>2 DEF ScheduleFailed, Due
<1>3. CASE Schedule
  <2>1. PICK go \in SUBSET Elements :
          /\ state' = [e \in Elements |-> IF e \in go THEN "DISPATCHED"
                                          ELSE IF e \in Swept THEN "STARTED" ELSE state[e]]
          /\ worker' = [e \in Elements |-> IF e \in go THEN "queued" ELSE worker[e]]
          /\ runQueue' = (runQueue \ Swept) \cup go
    <3>1. Producers \subseteq Elements /\ fed \subseteq Elements
      BY LifecycleAssumption DEF Processors
    <3> DEFINE go(p) == (fed \ (runQueue \ Swept)) \cup (IF p THEN Producers ELSE {})
    <3>2. PICK p \in BOOLEAN :
            /\ state' = [e \in Elements |-> IF e \in go(p) THEN "DISPATCHED"
                                            ELSE [x \in Elements |-> IF x \in Swept THEN "STARTED" ELSE state[x]][e]]
            /\ worker' = [e \in Elements |-> IF e \in go(p) THEN "queued" ELSE worker[e]]
            /\ runQueue' = (runQueue \ Swept) \cup go(p)
      BY <1>3, Zenon DEF Schedule
    <3>3. go(p) \in SUBSET Elements
      BY <3>1
    <3> QED
      BY <3>2, <3>3
  <2>2. fed' \in SUBSET Processors /\ aborted' \in {"none", "dispatch"}
    BY <1>3 DEF Schedule
  <2>3. state' \in [Elements -> States] /\ worker' \in [Elements -> Workers] /\ runQueue' \in SUBSET Elements
    BY <2>1
  <2>4. calls' \in Nat /\ UNCHANGED <<result, hb, running, starts, gone, errors, dialogs, mpc, historyVars>>
    BY <1>3 DEF Schedule, Due
  <2> QED
    BY <2>2, <2>3, <2>4
<1>4. ASSUME NEW e \in Elements, WorkerStep(e) PROVE TypeOK'
  <2>1. CASE RunBegins(e)
    BY <2>1 DEF RunBegins
  <2>2. ASSUME NEW ok \in BOOLEAN, RunEnds(e, ok) PROVE TypeOK'
    <3>1. /\ state' \in [Elements -> States] /\ worker' \in [Elements -> Workers]
          /\ fed' \in SUBSET Processors
      BY <2>2 DEF RunEnds
    <3>2. result' \in [Elements -> BOOLEAN]
      BY <2>2 DEF RunEnds
    <3>3. UNCHANGED <<runQueue, hb, running, starts, gone, errors, dialogs, mpc, calls, aborted, historyVars>>
      BY <2>2 DEF RunEnds
    <3> QED
      BY <3>1, <3>2, <3>3
  <2> QED
    BY <1>4, <2>1, <2>2 DEF WorkerStep
<1> QED
  BY <1>1, <1>2, <1>3, <1>4

(* Every variable keeps its type through every failure the code can meet, its   *)
(* aborts included (Pipeline::init, start, stop, schedule; PipelineElement).    *)
THEOREM LifecycleTypes == Spec => []TypeOK
<1>1. TypeOK /\ [Next]_vars => TypeOK'
  <2> SUFFICES ASSUME TypeOK, [Next]_vars PROVE TypeOK'
    OBVIOUS
  <2>1. CASE UNCHANGED vars
    BY <2>1 DEF TypeOK, vars, elementVars, queueVars, eventVars, mainVars, historyVars
  <2>2. CASE Next
    BY <2>2, StartTypes, StopTypes, RunTypes DEF Next, MainStep
  <2> QED
    BY <2>1, <2>2
<1> QED
  BY <1>1, InitTypes, PTL DEF Spec

-----------------------------------------------------------------------------
(* Opening and closing a dialog. *)

(* full is ds with d on top, and rest is ds without its top. *)
Opened(full, ds, d) ==
    /\ Nested(full)
    /\ AskedIn(full) <=> (IF ds = <<>> THEN d.kind \in Asking ELSE AskedIn(ds))
    /\ full[1] = IF ds = <<>> THEN d ELSE ds[1]
    /\ \A i \in 1 .. Len(full) : full[i] = d \/ (i \in 1 .. Len(ds) /\ full[i] = ds[i])
Closed(rest, ds) ==
    /\ ds[Len(ds)] \in Dialogs /\ Nested(rest) /\ Len(ds) \in 1 .. Len(ds)
    /\ ds[Len(ds)].kind \in Asking => rest = <<>> /\ ds[Len(ds)] = ds[1] /\ AskedIn(ds)
    /\ ds[Len(ds)].kind \notin Asking => (AskedIn(rest) <=> AskedIn(ds))
    /\ ds[Len(ds)].kind = "failed" => ~AskedIn(ds)
    /\ AskedIn(rest) => rest[1] = ds[1] /\ AskedIn(ds)
    /\ \A i \in 1 .. Len(rest) : i \in 1 .. Len(ds) /\ rest[i] = ds[i]

LEMMA Shown ==
    ASSUME NEW ds \in Seq(Dialogs), Nested(ds), NEW k \in DialogKinds, NEW n \in Nat,
           k \in Asking => ds = <<>>, AskedIn(ds) => k = "error"
    PROVE  Opened(Append(ds, [kind |-> k, at |-> n]), ds, [kind |-> k, at |-> n])
<1> DEFINE d == [kind |-> k, at |-> n]
           full == Append(ds, d)
<1> SUFFICES Opened(full, ds, d)
  OBVIOUS
<1>1. d \in Dialogs /\ d.kind = k /\ d.at = n
  BY DEF Dialogs
<1>2. /\ Len(ds) \in Nat /\ Len(full) = Len(ds) + 1 /\ full # <<>>
      /\ \A i \in 1 .. Len(ds) : full[i] = ds[i]
      /\ full[Len(ds) + 1] = d
  BY <1>1
<1> HIDE DEF d, full
<1>3. \A i \in 1 .. Len(full) : full[i] = d \/ (i \in 1 .. Len(ds) /\ full[i] = ds[i])
  BY <1>2
<1>4. CASE ds = <<>>
  <2>1. Len(ds) = 0
    BY <1>4
  <2>2. full[1] = d /\ Len(full) = 1
    BY <1>2, <2>1
  <2> QED
    BY <1>1, <1>2, <1>3, <1>4, <2>2 DEF Nested, AskedIn, Opened
<1>5. CASE ds # <<>>
  <2>1. 1 \in 1 .. Len(ds)
    BY <1>2, <1>5
  <2>2. full[1] = ds[1]
    BY <1>2, <2>1
  <2>3. k \notin Asking
    BY <1>5
  <2>4. AskedIn(full) <=> AskedIn(ds)
    BY <1>2, <1>5, <2>2 DEF AskedIn
  <2>5. ASSUME NEW i \in 2 .. Len(full)
        PROVE  full[i].kind \notin Asking /\ (AskedIn(full) => full[i].kind = "error")
    <3>1. CASE i \in 2 .. Len(ds)
      BY <1>2, <2>4, <3>1 DEF Nested
    <3>2. CASE i = Len(ds) + 1
      BY <1>1, <1>2, <2>3, <2>4, <3>2
    <3> QED
      BY <1>2, <3>1, <3>2
  <2> QED
    BY <1>3, <1>5, <2>2, <2>4, <2>5 DEF Nested, Opened
<1> QED
  BY <1>4, <1>5

LEMMA Popped ==
    ASSUME NEW ds \in Seq(Dialogs), ds # <<>>, Nested(ds)
    PROVE  Closed(SubSeq(ds, 1, Len(ds) - 1), ds)
<1> DEFINE rest == SubSeq(ds, 1, Len(ds) - 1)
<1> SUFFICES Closed(rest, ds)
  OBVIOUS
<1>1. Len(ds) \in Nat /\ Len(ds) >= 1 /\ ds[Len(ds)] \in Dialogs
  <2>1. Len(ds) \in Nat /\ Len(ds) # 0
    OBVIOUS
  <2>2. Len(ds) \in 1 .. Len(ds)
    BY <2>1
  <2> QED
    BY <2>1, <2>2, ElementOfSeq
<1>2. /\ Len(rest) = Len(ds) - 1
      /\ \A i \in 1 .. Len(rest) : i \in 1 .. Len(ds) /\ rest[i] = ds[i]
  <2>1. CASE Len(ds) = 1
    BY <2>1, SubSeqEmpty
  <2>2. CASE Len(ds) # 1
    <3>0. \A n \in Nat : n >= 1 /\ n # 1 => n - 1 \in Nat /\ n - 1 >= 1
      OBVIOUS
    <3>1. PICK m \in Nat : m = Len(ds) - 1 /\ m >= 1
      BY <1>1, <2>2, <3>0, Zenon
    <3>2. \A i \in 1 .. m : ds[i] \in Dialogs
      BY <3>1, ElementOfSeq
    <3>3. Len(SubSeq(ds, 1, m)) = m /\ \A i \in 1 .. m : SubSeq(ds, 1, m)[i] = ds[i]
      BY <3>1, <3>2, SubSeqProperties
    <3> QED
      BY <3>1, <3>3
  <2> QED
    BY <2>1, <2>2
<1>3. CASE Len(ds) = 1
  <2>1. rest = <<>>
    BY <1>3, SubSeqEmpty
  <2> HIDE DEF rest
  <2> QED
    BY <1>1, <1>2, <1>3, <2>1 DEF Nested, AskedIn, Asking, Closed
<1>4. CASE Len(ds) # 1
  <2>1. Len(ds) \in 2 .. Len(ds) /\ 1 \in 1 .. Len(rest)
    BY <1>1, <1>2, <1>4
  <2>2. rest[1] = ds[1] /\ rest # <<>>
    <3>1. rest[1] = ds[1] /\ Len(rest) # 0
      BY <1>1, <1>2, <1>4, <2>1
    <3> HIDE DEF rest
    <3> QED
      BY <3>1
  <2> HIDE DEF rest
  <2>3. ds[Len(ds)].kind \notin Asking /\ (AskedIn(ds) => ds[Len(ds)].kind = "error")
    BY <2>1 DEF Nested
  <2>4. AskedIn(rest) <=> AskedIn(ds)
    BY <2>2 DEF AskedIn
  <2>5. Nested(rest)
    BY <1>1, <1>2, <2>4 DEF Nested
  <2> QED
    BY <1>1, <1>2, <2>1, <2>2, <2>3, <2>4, <2>5 DEF Closed, Asking
<1> QED
  BY <1>3, <1>4

LEMMA NoDialog == Nested(<<>>) /\ ~AskedIn(<<>>) /\ ~MutexHeld(<<>>)
  BY DEF Nested, AskedIn, MutexHeld

(* What the user finds. *)
LEMMA UserFinds ==
    ASSUME Body, UserMay
    PROVE  ~Asked /\ mpc = "idle" /\ calls = 0 /\ dialogs = <<>> /\ (IF running THEN RunsWith ELSE LeftOver)
  BY NoDialog DEF Body, Phases, UserMay, Looping, Asked

-----------------------------------------------------------------------------
(* start(). *)

LEMMA StepInitDone == ASSUME TypeOK, LInv, InitDone PROVE LInv'
<1>1. Body /\ AbortsExplained /\ ~running /\ dialogs = <<>> /\ calls = 0 /\ mpc = "idle" /\ errors = 0 /\ LeftOver
  BY UserFinds DEF LInv, InitDone, UserMay, Looping
<1>2. PICK S \in SUBSET Elements :
        /\ state' = [e \in Elements |-> IF e \in S THEN "ERROR" ELSE "INITIALIZED"]
        /\ marks' = marks \cup (IF S # {} THEN {"silent"} ELSE {})
  BY DEF InitDone, Mark
<1>3. /\ UNCHANGED <<worker, runQueue, running, errors, dialogs, calls, kept, late>>
      /\ mpc' = "start" /\ fed' = {}
      /\ aborted' = IF \A e \in Elements : state[e] = "UNDEFINED" THEN "none" ELSE "init"
  BY DEF InitDone, Check
<1>4. aborted' = "init" => kept # {} \/ late # {}
  BY <1>1, <1>3 DEF LeftOver, Undone
<1>5. AbortsExplained'
  BY <1>1, <1>2, <1>3, <1>4 DEF AbortsExplained
<1>6. ASSUME Alive' PROVE Body'
  <2>1. \A e \in Elements : state[e] = "UNDEFINED"
    BY <1>3, <1>6 DEF Alive
  <2>2. \A e \in Elements \ late : e \notin kept
    BY <1>1, <2>1 DEF LeftOver, Undone
  <2>3. StartsWith'
    BY <1>2, <1>3, <2>2 DEF StartsWith
  <2>4. Places' /\ Marked'
    BY <1>1, <1>3, NoDialog DEF Body, Places, Marked, Asked
  <2>5. Phases'
    BY <1>1, <1>3, <2>3, NoDialog DEF Phases, Asked
  <2>6. Drained' /\ Calm'
    BY <1>1, <1>2, <1>3 DEF Body, Drained, Calm
  <2> QED
    BY <2>4, <2>5, <2>6 DEF Body
<1> QED
  BY <1>5, <1>6 DEF LInv

LEMMA StepInitFails == ASSUME TypeOK, LInv, NEW e \in Elements, InitFails(e) PROVE LInv'
<1>1. Body /\ AbortsExplained /\ ~running /\ dialogs = <<>> /\ calls = 0 /\ mpc = "idle" /\ errors = 0 /\ LeftOver
  BY UserFinds DEF LInv, InitFails, UserMay, Looping
<1>0. Elements \subseteq Nat /\ e \in Nat
  BY LifecycleAssumption
<1> DEFINE clean == \A x \in Before(e) \cup {e} : state[x] = "UNDEFINED"
<1>2. PICK how \in {"initFalse", "initThrow"} :
        /\ aborted' = IF clean /\ how = "initFalse" THEN "none" ELSE IF clean THEN "deinit" ELSE "init"
        /\ marks' = marks \cup (IF how = "initThrow" THEN {"threw"} ELSE {})
  BY DEF InitFails, Check, Mark
<1>3. /\ UNCHANGED <<worker, runQueue, fed, running, errors, mpc, calls, kept, late>>
      /\ state' = [x \in Elements |-> IF x < e THEN "INITIALIZED" ELSE state[x]]
      /\ dialogs' = Append(dialogs, [kind |-> "init", at |-> e])
  BY DEF InitFails, Show, queueVars, eventVars
<1>4. ASSUME ~clean PROVE kept # {} \/ late # {}
  <2>1. PICK x \in Elements : state[x] # "UNDEFINED"
    BY <1>4 DEF Before
  <2> QED
    BY <1>1, <2>1 DEF LeftOver, Undone
<1> HIDE DEF clean
<1>5. AbortsExplained'
  BY <1>1, <1>2, <1>3, <1>4 DEF AbortsExplained
<1>6. ASSUME Alive' PROVE Body'
  <2>1. \A x \in Before(e) \cup {e} : state[x] = "UNDEFINED"
    BY <1>2, <1>6 DEF Alive, clean
  <2>2. /\ Nested(dialogs') /\ AskedIn(dialogs') /\ dialogs'[1] = [kind |-> "init", at |-> e]
        /\ \A i \in 1 .. Len(dialogs') : dialogs'[i] = [kind |-> "init", at |-> e]
    <3>1. "init" \in DialogKinds /\ "init" \in Asking /\ dialogs \in Seq(Dialogs)
      BY DEF Asking, DialogKinds, TypeOK
    <3>2. Opened(dialogs', dialogs, [kind |-> "init", at |-> e])
      BY <1>0, <1>1, <1>3, <3>1, Shown, NoDialog
    <3> QED
      BY <1>1, <3>1, <3>2 DEF Opened
  <2>3. \A x \in Elements \ late : IF x < e THEN x \notin kept ELSE Undone(x)
    BY <1>1, <2>1 DEF LeftOver, Undone, Before
  <2>4. AskedWith("init", e)'
    <3>1. \A x \in Elements : state'[x] # "STARTED" /\ (~(x < e) => state'[x] = state[x])
      BY <1>1, <1>3 DEF LeftOver
    <3> QED
      BY <1>3, <2>3, <3>1 DEF AskedWith, Undone
  <2>5. Places' /\ Marked'
    BY <1>1, <1>3, <2>2 DEF Body, Places, Marked, Asked
  <2>6. Phases'
    BY <1>1, <1>3, <2>2, <2>4 DEF Phases, Asked
  <2>7. Drained' /\ Calm'
    BY <1>1, <1>2, <1>3 DEF Body, Drained, Calm
  <2> QED
    BY <2>5, <2>6, <2>7 DEF Body
<1> QED
  BY <1>5, <1>6 DEF LInv

(* A dialog of start() has nothing above it when it closes, and nothing is left *)
(* open.                                                                        *)
LEMMA ClosesAsking ==
    ASSUME TypeOK, Body, Looping, dialogs # <<>>, Top.kind \in Asking, Pop
    PROVE  /\ dialogs' = <<>> /\ Top = dialogs[1] /\ ~running /\ mpc = "idle" /\ calls = 0
           /\ AskedWith(Top.kind, Top.at) /\ Top.at \in Nat
<1>1. dialogs \in Seq(Dialogs) /\ Nested(dialogs)
  BY DEF TypeOK, Body, Places
<1>2. dialogs' = <<>> /\ Top = dialogs[1] /\ Asked /\ Top \in Dialogs
  <2>1. Closed(dialogs', dialogs)
    BY <1>1, Popped DEF Pop
  <2> QED
    BY <2>1 DEF Closed, Top, Asked
<1> QED
  BY <1>2 DEF Body, Places, Phases, Looping, Dialogs

(* What is left to show when such a dialog has closed. *)
LEMMA AskedDone ==
    ASSUME Body, AbortsExplained, ~running, mpc = "idle", calls = 0,
           UNCHANGED <<worker, runQueue, fed, running, errors, mpc, calls, late, marks>>, dialogs' = <<>>,
           aborted' = "none", LeftOver'
    PROVE  LInv'
<1>1. AbortsExplained'
  BY DEF AbortsExplained
<1>2. Places' /\ Marked' /\ Phases'
  BY NoDialog DEF Body, Places, Marked, Phases, Asked
<1>3. Drained' /\ Calm'
  BY DEF Body, Drained, Calm
<1> QED
  BY <1>1, <1>2, <1>3 DEF LInv, Body

LEMMA StepCloseInit == ASSUME TypeOK, LInv, CloseInit PROVE LInv'
<1>1. Body /\ AbortsExplained /\ aborted = "none"
  BY DEF LInv, CloseInit, Looping, Alive
<1>2. /\ dialogs' = <<>> /\ ~running /\ mpc = "idle" /\ calls = 0
      /\ AskedWith("init", Top.at)
  BY <1>1, ClosesAsking DEF CloseInit, Asking
<1>3. /\ UNCHANGED <<worker, runQueue, fed, running, errors, mpc, calls, kept, late, marks, aborted>>
      /\ state' = [x \in Elements |-> IF x < Top.at THEN "UNDEFINED" ELSE state[x]]
  BY DEF CloseInit, Uninitialise, queueVars, eventVars, historyVars
<1>4. LeftOver'
  BY <1>2, <1>3 DEF AskedWith, LeftOver, Undone
<1> QED
  BY <1>1, <1>2, <1>3, <1>4, AskedDone

LEMMA StepClosePins == ASSUME TypeOK, LInv, ClosePins PROVE LInv'
<1>1. Body /\ AbortsExplained /\ aborted = "none"
  BY DEF LInv, ClosePins, Looping, Alive
<1>2. /\ dialogs' = <<>> /\ ~running /\ mpc = "idle" /\ calls = 0
      /\ AskedWith("pins", Top.at)
  BY <1>1, ClosesAsking DEF ClosePins, Asking
<1>3. /\ UNCHANGED <<worker, runQueue, fed, running, errors, mpc, calls, kept, late, marks>>
      /\ state' = [x \in Elements |-> "UNDEFINED"]
      /\ aborted' = IF \A e \in Elements : state[e] \in {"INITIALIZED", "ERROR"} THEN "none" ELSE "deinit"
  BY DEF ClosePins, Check, eventVars, historyVars
<1>4. LeftOver'
  BY <1>2, <1>3 DEF AskedWith, LeftOver, Undone
<1>5. aborted' = "deinit" => late # {}
  BY <1>2, <1>3 DEF AskedWith, Fresh
<1>6. CASE aborted' = "none"
  BY <1>1, <1>2, <1>3, <1>4, <1>6, AskedDone
<1>7. CASE aborted' = "deinit"
  BY <1>1, <1>3, <1>5, <1>7 DEF LInv, AbortsExplained, Alive
<1> QED
  BY <1>3, <1>6, <1>7

LEMMA StepCloseCycle == ASSUME TypeOK, LInv, CloseCycle PROVE LInv'
<1>1. Body /\ AbortsExplained /\ aborted = "none"
  BY DEF LInv, CloseCycle, Looping, Alive
<1>2. /\ dialogs' = <<>> /\ ~running /\ mpc = "idle" /\ calls = 0
      /\ AskedWith("cycle", Top.at)
  BY <1>1, ClosesAsking DEF CloseCycle, Asking
<1>3. /\ UNCHANGED <<worker, runQueue, fed, running, errors, mpc, calls, late, marks, aborted, state>>
      /\ kept' = Elements
  BY DEF CloseCycle, elementVars, queueVars, eventVars
<1>4. LeftOver'
  BY <1>2, <1>3 DEF AskedWith, LeftOver, Undone, Fresh
<1> QED
  BY <1>1, <1>2, <1>3, <1>4, AskedDone

LEMMA StepCloseStart == ASSUME TypeOK, LInv, CloseStart PROVE LInv'
<1>1. Body /\ AbortsExplained /\ aborted = "none"
  BY DEF LInv, CloseStart, Looping, Alive
<1>2. /\ dialogs' = <<>> /\ ~running /\ mpc = "idle" /\ calls = 0
      /\ AskedWith("start", Top.at) /\ Top.at \in Nat
  BY <1>1, ClosesAsking DEF CloseStart, Asking
<1>3. /\ UNCHANGED <<worker, runQueue, fed, running, errors, mpc, calls, late, marks, aborted>>
      /\ state' = [x \in Elements |-> IF x <= Top.at THEN "UNDEFINED" ELSE state[x]]
      /\ kept' = {x \in Elements : x > Top.at}
  BY DEF CloseStart, Unstart, queueVars, eventVars
<1>4. \A x \in Elements : x > Top.at <=> ~(x <= Top.at)
  BY <1>2, LifecycleAssumption
<1>5. \A x \in Elements : x > Top.at => state[x] # "STARTED" /\ (x \notin late => Fresh(x))
  BY <1>2 DEF AskedWith
<1>6. LeftOver'
  BY <1>3, <1>4, <1>5 DEF LeftOver, Undone, Fresh
<1> QED
  BY <1>1, <1>2, <1>3, <1>6, AskedDone

LEMMA StepGraphFails == ASSUME TypeOK, LInv, GraphFails PROVE LInv'
<1>1. Body /\ AbortsExplained /\ aborted = "none" /\ ~running /\ dialogs = <<>> /\ calls = 0 /\ StartsWith
  BY DEF LInv, GraphFails, Alive, Body, Places, Phases
<1>2. PICK g \in {"pins", "cycle"} : dialogs' = Append(dialogs, [kind |-> g, at |-> 0])
  BY LifecycleAssumption DEF GraphFails, Show
<1>3. /\ UNCHANGED <<state, worker, runQueue, fed, running, errors, calls, kept, late, marks, aborted>>
      /\ mpc' = "idle"
  BY DEF GraphFails, elementVars, queueVars, eventVars, historyVars
<1>4. /\ Nested(dialogs') /\ AskedIn(dialogs') /\ dialogs'[1] = [kind |-> g, at |-> 0]
      /\ \A i \in 1 .. Len(dialogs') : dialogs'[i] = [kind |-> g, at |-> 0]
  <2>1. g \in DialogKinds /\ g \in Asking /\ dialogs \in Seq(Dialogs)
    BY DEF Asking, DialogKinds, TypeOK
  <2>2. Opened(dialogs', dialogs, [kind |-> g, at |-> 0])
    BY <1>1, <1>2, <2>1, Shown, NoDialog
  <2> QED
    BY <1>1, <2>1, <2>2 DEF Opened
<1>5. AskedWith(g, 0)'
  BY <1>1, <1>3 DEF AskedWith, StartsWith, Fresh
<1>6. Places' /\ Marked'
  BY <1>1, <1>3, <1>4 DEF Body, Places, Marked, Asked
<1>7. Phases'
  BY <1>1, <1>3, <1>4, <1>5 DEF Phases, Asked
<1>8. Drained' /\ Calm' /\ AbortsExplained'
  BY <1>1, <1>3 DEF Body, Drained, Calm, AbortsExplained
<1> QED
  BY <1>6, <1>7, <1>8 DEF LInv, Body

LEMMA StepStartDone == ASSUME TypeOK, LInv, StartDone PROVE LInv'
<1>1. Body /\ AbortsExplained /\ ~running /\ dialogs = <<>> /\ calls = 0 /\ StartsWith /\ runQueue = {}
  BY DEF LInv, StartDone, Alive, Body, Places, Phases
<1>2. /\ UNCHANGED <<worker, runQueue, fed, errors, dialogs, calls, kept, late, marks>>
      /\ mpc' = "idle" /\ running' = TRUE /\ state' = [e \in Elements |-> "STARTED"]
      /\ aborted' = IF \A e \in Elements : state[e] = "INITIALIZED" THEN "none" ELSE "start"
  BY DEF StartDone, Check, queueVars, eventVars, historyVars
<1>3. aborted' = "start" => "silent" \in marks \/ late # {}
  BY <1>1, <1>2 DEF StartsWith
<1>4. AbortsExplained'
  BY <1>1, <1>2, <1>3 DEF AbortsExplained
<1>5. RunsWith'
  BY <1>1, <1>2 DEF RunsWith, StartsWith, Live
<1>6. Places' /\ Marked' /\ Phases' /\ Drained'
  BY <1>1, <1>2, <1>5, NoDialog DEF Body, Places, Marked, Phases, Asked, Drained
<1>7. Calm'
  BY <1>1, <1>2 DEF Body, Calm, Drained, Held
<1> QED
  BY <1>4, <1>6, <1>7 DEF LInv, Body

LEMMA StepStartFails == ASSUME TypeOK, LInv, NEW e \in Elements, StartFails(e) PROVE LInv'
<1>0. Elements \subseteq Nat /\ e \in Nat
  BY LifecycleAssumption
<1>1. Body /\ AbortsExplained /\ ~running /\ dialogs = <<>> /\ calls = 0 /\ StartsWith
  BY DEF LInv, StartFails, Alive, Body, Places, Phases
<1>2. /\ UNCHANGED <<worker, runQueue, fed, running, errors, calls, kept, late, marks>>
      /\ mpc' = "idle" /\ dialogs' = Append(dialogs, [kind |-> "start", at |-> e])
      /\ aborted' = IF \A x \in Before(e) \cup {e} : state[x] = "INITIALIZED" THEN "none" ELSE "start"
  BY DEF StartFails, Check, Show, queueVars, eventVars, historyVars
<1>3. aborted' = "start" => "silent" \in marks \/ late # {}
  BY <1>1, <1>2 DEF StartsWith, Before
<1>4. AbortsExplained'
  BY <1>1, <1>2, <1>3 DEF AbortsExplained
<1>5. /\ Nested(dialogs') /\ AskedIn(dialogs') /\ dialogs'[1] = [kind |-> "start", at |-> e]
      /\ \A i \in 1 .. Len(dialogs') : dialogs'[i] = [kind |-> "start", at |-> e]
  <2>1. "start" \in DialogKinds /\ "start" \in Asking /\ dialogs \in Seq(Dialogs)
    BY DEF Asking, DialogKinds, TypeOK
  <2>2. Opened(dialogs', dialogs, [kind |-> "start", at |-> e])
    BY <1>0, <1>1, <1>2, <2>1, Shown, NoDialog
  <2> QED
    BY <1>1, <2>1, <2>2 DEF Opened
<1>6. \A x \in Elements : x > e => state'[x] = state[x]
  BY <1>0 DEF StartFails
<1>7. AskedWith("start", e)'
  BY <1>1, <1>2, <1>6 DEF AskedWith, StartsWith, Fresh
<1>8. Places' /\ Marked'
  BY <1>1, <1>2, <1>5 DEF Body, Places, Marked, Asked
<1>9. Phases'
  BY <1>1, <1>2, <1>5, <1>7 DEF Phases, Asked
<1>10. Drained' /\ Calm'
  BY <1>1, <1>2 DEF Body, Drained, Calm
<1> QED
  BY <1>4, <1>8, <1>9, <1>10 DEF LInv, Body

-----------------------------------------------------------------------------
(* stop(). *)

(* A dialog of start() is open only while the pipeline does not run. *)
LEMMA NoMutex == ASSUME TypeOK, Body, running PROVE ~MutexHeld(dialogs)
<1>1. ~AskedIn(dialogs) /\ Nested(dialogs) /\ dialogs \in Seq(Dialogs)
  BY DEF Body, Places, Asked, TypeOK
<1>2. ASSUME NEW i \in 1 .. Len(dialogs) PROVE dialogs[i].kind \notin Asking
  <2>1. CASE i = 1
    BY <1>1, <1>2, <2>1 DEF AskedIn
  <2>2. CASE i # 1
    BY <1>1, <1>2, <2>2 DEF Nested
  <2> QED
    BY <2>1, <2>2
<1> QED
  BY <1>2 DEF MutexHeld, Asking

LEMMA StepUserStop == ASSUME TypeOK, LInv, UserStop PROVE LInv'
<1>1. Body /\ AbortsExplained /\ aborted = "none" /\ running /\ dialogs = <<>> /\ calls = 0
  BY UserFinds DEF LInv, UserStop, UserMay, Looping, Alive
<1>2. /\ UNCHANGED <<state, worker, runQueue, fed, running, errors, dialogs, calls, kept, late, marks>>
      /\ mpc' = "stop" /\ aborted' = "none"
  BY <1>1, NoMutex DEF UserStop, StopCall, Check, elementVars, queueVars, eventVars, historyVars
<1>3. Places' /\ Marked'
  BY <1>1, <1>2, NoDialog DEF Body, Places, Marked, Asked
<1>4. Phases'
  BY <1>1, <1>2, NoDialog DEF Body, Phases, Asked, RunsWith
<1>5. Drained' /\ Calm' /\ AbortsExplained'
  BY <1>1, <1>2 DEF Body, Drained, Calm, Held, AbortsExplained
<1> QED
  BY <1>3, <1>4, <1>5 DEF LInv, Body

LEMMA StepStopCollect == ASSUME TypeOK, LInv, NEW e \in Elements, StopCollect(e) PROVE LInv'
<1>1. Body /\ AbortsExplained /\ aborted = "none" /\ running /\ ~Asked
  BY DEF LInv, StopCollect, Alive, Body, Places
<1>2. /\ UNCHANGED <<worker, fed, running, errors, dialogs, mpc, calls, kept, late, marks, aborted>>
      /\ runQueue' = runQueue \ {e} /\ state' = [state EXCEPT ![e] = "STARTED"]
      /\ e \in runQueue /\ state[e] \in {"DONE", "ERROR"} /\ state \in [Elements -> States] /\ mpc # "start"
  BY DEF StopCollect, eventVars, mainVars, historyVars, TypeOK
<1>3. Places' /\ Marked' /\ Drained' /\ AbortsExplained'
  BY <1>1, <1>2 DEF Body, Places, Marked, Asked, Drained, AbortsExplained
<1>4. RunsWith'
  BY <1>1, <1>2 DEF Body, Phases, RunsWith, Live
<1>5. Phases'
  BY <1>1, <1>2, <1>4 DEF Phases, Asked
<1>6. Calm'
  BY <1>1, <1>2 DEF Body, Calm, Held
<1> QED
  BY <1>3, <1>5, <1>6 DEF LInv, Body

LEMMA StepStopTeardown == ASSUME TypeOK, LInv, StopTeardown PROVE LInv'
<1>1. Body /\ AbortsExplained /\ running /\ ~Asked /\ RunsWith /\ calls \in Nat
  BY DEF LInv, StopTeardown, Alive, Body, Places, Phases, TypeOK
<1>2. /\ UNCHANGED <<worker, runQueue, errors, kept, marks>>
      /\ runQueue = {} /\ fed' = {} /\ running' = FALSE /\ mpc' = "idle" /\ aborted' = "none"
      /\ state' = [e \in Elements |-> "UNDEFINED"]
      /\ late' = late \cup {e \in Elements : worker[e] # "none"}
  BY <1>1 DEF StopTeardown, Check, RunsWith, eventVars
<1>3. "quit" \notin marks => late' = {}
  BY <1>1, <1>2 DEF Body, Calm, Held
<1>4. AbortsExplained'
  BY <1>2, <1>3 DEF AbortsExplained
<1>5. calls' = 0
  BY <1>1 DEF StopTeardown, Body, Places
<1>6. /\ Nested(dialogs') /\ ~AskedIn(dialogs')
      /\ \A i \in 1 .. Len(dialogs') :
           \/ i \in 1 .. Len(dialogs) /\ dialogs'[i] = dialogs[i]
           \/ dialogs'[i] = [kind |-> "failed", at |-> calls] /\ mpc = "stopFailed"
  <2>1. dialogs \in Seq(Dialogs) /\ Nested(dialogs) /\ ~AskedIn(dialogs)
    BY <1>1 DEF TypeOK, Body, Places, Asked
  <2>2. CASE mpc = "stopFailed"
    <3>1. dialogs' = Append(dialogs, [kind |-> "failed", at |-> calls])
      BY <2>2 DEF StopTeardown, Show
    <3>2. "failed" \in DialogKinds /\ "failed" \notin Asking
      BY DEF DialogKinds, Asking
    <3>3. Opened(dialogs', dialogs, [kind |-> "failed", at |-> calls])
      BY <1>1, <2>1, <3>1, <3>2, Shown
    <3> QED
      BY <2>1, <2>2, <3>2, <3>3 DEF Opened
  <2>3. CASE mpc # "stopFailed"
    BY <2>1, <2>3 DEF StopTeardown
  <2> QED
    BY <2>2, <2>3
<1>7. \A i \in 1 .. Len(dialogs') : dialogs'[i].kind = "failed" /\ dialogs'[i].at > 0 => "twice" \in marks
  BY <1>1, <1>6 DEF Body, Marked
<1>8. Marked'
  BY <1>1, <1>2, <1>5, <1>6, <1>7 DEF Body, Marked
<1>9. Places'
  BY <1>2, <1>5, <1>6 DEF Places, Asked
<1>10. LeftOver'
  BY <1>1, <1>2 DEF LeftOver, Undone, RunsWith
<1>11. Phases' /\ Drained' /\ Calm'
  BY <1>2, <1>3, <1>6, <1>10 DEF Phases, Asked, Drained, Calm
<1> QED
  BY <1>4, <1>8, <1>9, <1>11 DEF LInv, Body

(* What is left to show when a dialog above the first has closed or opened. *)
LEMMA SameAsked ==
    ASSUME Body, UNCHANGED <<state, running, mpc, kept, late, marks>>,
           AskedIn(dialogs') <=> Asked, AskedIn(dialogs') => dialogs'[1] = dialogs[1]
    PROVE  Phases'
  BY DEF Body, Phases, Asked, AskedWith, LeftOver, RunsWith, StartsWith, Undone, Fresh

LEMMA StepCloseFailed == ASSUME TypeOK, LInv, CloseFailed PROVE LInv'
<1>1. Body /\ AbortsExplained /\ aborted = "none" /\ mpc = "idle" /\ dialogs # <<>> /\ Top.kind = "failed"
  BY DEF LInv, CloseFailed, Looping, Alive
<1>2. /\ UNCHANGED <<state, worker, runQueue, fed, running, errors, mpc, kept, late, marks, aborted>>
      /\ calls' = Top.at /\ dialogs' = SubSeq(dialogs, 1, Len(dialogs) - 1)
  BY DEF CloseFailed, Pop, elementVars, queueVars, eventVars, historyVars
<1>3. /\ Nested(dialogs') /\ ~AskedIn(dialogs') /\ ~Asked /\ Len(dialogs) \in 1 .. Len(dialogs)
      /\ \A i \in 1 .. Len(dialogs') : i \in 1 .. Len(dialogs) /\ dialogs'[i] = dialogs[i]
  <2>1. Closed(dialogs', dialogs)
    BY <1>1, <1>2, Popped DEF Body, Places, TypeOK
  <2> QED
    BY <1>1, <2>1 DEF Closed, Top, Asked
<1>4. calls' > 0 => "twice" \in marks
  BY <1>1, <1>2, <1>3 DEF Body, Marked, Top
<1>5. Places' /\ Marked'
  BY <1>1, <1>2, <1>3, <1>4 DEF Body, Places, Marked, Asked
<1>6. Phases'
  BY <1>1, <1>2, <1>3, SameAsked
<1>7. Drained' /\ Calm' /\ AbortsExplained'
  BY <1>1, <1>2 DEF Body, Drained, Calm, Held, AbortsExplained
<1> QED
  BY <1>5, <1>6, <1>7 DEF LInv, Body

LEMMA StepDeliverError == ASSUME TypeOK, LInv, DeliverError PROVE LInv'
<1>1. Body /\ AbortsExplained /\ aborted = "none" /\ mpc = "idle" /\ calls = 0 /\ "quit" \in marks
  BY DEF LInv, DeliverError, Looping, Alive, Body, Marked
<1>2. /\ UNCHANGED <<state, worker, runQueue, fed, running, mpc, calls, kept, late, marks, aborted>>
      /\ dialogs' = Append(dialogs, [kind |-> "error", at |-> 0])
  BY DEF DeliverError, Show, elementVars, queueVars, historyVars
<1>3. "error" \in DialogKinds /\ "error" \notin Asking
  BY DEF DialogKinds, Asking
<1>4. dialogs \in Seq(Dialogs) /\ Nested(dialogs) /\ (dialogs = <<>> => ~AskedIn(dialogs))
  BY <1>1 DEF TypeOK, Body, Places, AskedIn
<1>5. /\ Nested(dialogs') /\ (AskedIn(dialogs') <=> AskedIn(dialogs))
      /\ AskedIn(dialogs') => dialogs'[1] = dialogs[1]
      /\ \A i \in 1 .. Len(dialogs') : \/ dialogs'[i] = [kind |-> "error", at |-> 0]
                                       \/ i \in 1 .. Len(dialogs) /\ dialogs'[i] = dialogs[i]
  <2>1. Opened(dialogs', dialogs, [kind |-> "error", at |-> 0])
    BY <1>2, <1>3, <1>4, Shown
  <2> QED
    BY <1>3, <1>4, <2>1 DEF Opened
<1>6. \A i \in 1 .. Len(dialogs') : dialogs'[i].kind = "failed" /\ dialogs'[i].at > 0 => "twice" \in marks
  BY <1>1, <1>5 DEF Body, Marked
<1>7. Places' /\ Marked'
  BY <1>1, <1>2, <1>5, <1>6 DEF Body, Places, Marked, Asked
<1>8. Phases'
  BY <1>1, <1>2, <1>5, SameAsked DEF Asked
<1>9. Drained' /\ Calm' /\ AbortsExplained'
  BY <1>1, <1>2 DEF Body, Drained, Calm, Held, AbortsExplained
<1> QED
  BY <1>7, <1>8, <1>9 DEF LInv, Body

LEMMA StepCloseError == ASSUME TypeOK, LInv, CloseError PROVE LInv'
<1>1. /\ Body /\ AbortsExplained /\ aborted = "none" /\ mpc = "idle" /\ calls = 0
      /\ dialogs # <<>> /\ Top.kind = "error"
  BY DEF LInv, CloseError, Looping, Alive
<1>2. /\ UNCHANGED <<state, worker, runQueue, fed, running, errors, calls, kept, late, marks>>
      /\ mpc' = "stop" /\ dialogs' = SubSeq(dialogs, 1, Len(dialogs) - 1)
      /\ aborted' \in {"none", "hang", "stop"} /\ (aborted' = "none" => running)
  BY DEF CloseError, Pop, StopCall, Check, elementVars, queueVars, eventVars, historyVars
<1>3. /\ Nested(dialogs') /\ (AskedIn(dialogs') <=> Asked) /\ Len(dialogs) \in 1 .. Len(dialogs)
      /\ \A i \in 1 .. Len(dialogs') : i \in 1 .. Len(dialogs) /\ dialogs'[i] = dialogs[i]
  <2>1. Closed(dialogs', dialogs)
    BY <1>1, <1>2, Popped DEF Body, Places, TypeOK
  <2> QED
    BY <1>1, <2>1 DEF Closed, Top, Asked, Asking
<1>4. "quit" \in marks
  BY <1>1, <1>3 DEF Body, Marked, Top
<1>5. AbortsExplained'
  BY <1>1, <1>2, <1>4 DEF AbortsExplained
<1>6. ASSUME Alive' PROVE Body'
  <2>1. running /\ ~Asked
    BY <1>1, <1>2, <1>6 DEF Alive, Body, Places
  <2>2. Places' /\ Marked'
    BY <1>1, <1>2, <1>3, <2>1 DEF Body, Places, Marked, Asked
  <2>3. Phases' /\ Drained' /\ Calm'
    BY <1>1, <1>2, <1>3, <1>4, <2>1 DEF Body, Phases, Asked, RunsWith, Drained, Calm
  <2> QED
    BY <2>2, <2>3 DEF Body
<1> QED
  BY <1>5, <1>6 DEF LInv

-----------------------------------------------------------------------------
(* The heartbeat. *)

LEMMA StepTick == ASSUME TypeOK, LInv, Tick PROVE LInv'
<1>1. Body /\ AbortsExplained /\ aborted = "none" /\ mpc = "idle" /\ running /\ ~Asked
  BY DEF LInv, Tick, Looping, Alive, Body, Places
<1>2. UNCHANGED <<state, worker, runQueue, fed, running, errors, dialogs, mpc, kept, late, marks, aborted>>
  BY DEF Tick, elementVars, queueVars, eventVars, historyVars
<1>3. Places' /\ Marked'
  BY <1>1, <1>2 DEF Body, Places, Marked, Asked
<1>4. Phases'
  BY <1>1, <1>2, SameAsked DEF Asked
<1>5. Drained' /\ Calm' /\ AbortsExplained'
  BY <1>1, <1>2 DEF Body, Drained, Calm, Held, AbortsExplained
<1> QED
  BY <1>3, <1>4, <1>5 DEF LInv, Body

LEMMA StepScheduleFailed == ASSUME TypeOK, LInv, ScheduleFailed PROVE LInv'
<1>1. Body /\ AbortsExplained /\ aborted = "none" /\ mpc = "idle" /\ running /\ ~Asked
  BY DEF LInv, ScheduleFailed, Failed, Alive, Body, Places
<1>2. /\ UNCHANGED <<state, worker, runQueue, fed, running, errors, dialogs, kept, late>>
      /\ mpc' = "stopFailed" /\ aborted' = "none" /\ calls' = calls - 1 /\ calls \in Nat
      /\ marks' = marks \cup (IF calls > 1 THEN {"twice"} ELSE {})
  BY <1>1, NoMutex
  DEF ScheduleFailed, StopCall, Check, Mark, elementVars, queueVars, eventVars, TypeOK
<1>3. calls' > 0 => "twice" \in marks'
  BY <1>2
<1>4. Places' /\ Marked'
  BY <1>1, <1>2, <1>3 DEF Body, Places, Marked, Asked
<1>5. Phases'
  BY <1>1, <1>2 DEF Body, Phases, Asked, RunsWith
<1>6. Drained' /\ Calm' /\ AbortsExplained'
  BY <1>1, <1>2 DEF Body, Drained, Calm, Held, AbortsExplained
<1> QED
  BY <1>4, <1>5, <1>6 DEF LInv, Body

LEMMA StepSchedule == ASSUME TypeOK, LInv, Schedule PROVE LInv'
<1>1. Body /\ AbortsExplained /\ aborted = "none" /\ mpc = "idle" /\ ~Asked /\ calls > 0 /\ calls \in Nat
  BY DEF LInv, Schedule, Due, Alive, Body, Places, TypeOK
<1>2. UNCHANGED <<running, errors, dialogs, mpc, kept, late, marks>> /\ calls' = calls - 1
  BY DEF Schedule, eventVars, historyVars
<1> DEFINE now == [e \in Elements |-> IF e \in Swept THEN "STARTED" ELSE state[e]]
           waiting == fed \ (runQueue \ Swept)
           go(p) == waiting \cup (IF p THEN Producers ELSE {})
<1>3. PICK p \in BOOLEAN :
        /\ p => \A e \in Producers : now[e] \in Idle
        /\ Check("dispatch", \A e \in go(p) : now[e] = "STARTED")
        /\ state' = [e \in Elements |-> IF e \in go(p) THEN "DISPATCHED" ELSE now[e]]
        /\ worker' = [e \in Elements |-> IF e \in go(p) THEN "queued" ELSE worker[e]]
        /\ runQueue' = (runQueue \ Swept) \cup go(p)
        /\ \E F \in SUBSET waiting : fed' = (fed \ waiting) \cup F
  BY Zenon DEF Schedule
<1>4. Producers \subseteq Elements /\ fed \subseteq Elements /\ runQueue \subseteq Elements
  BY LifecycleAssumption DEF TypeOK, Processors
<1>5. aborted' = IF \A e \in go(p) : now[e] = "STARTED" THEN "none" ELSE "dispatch"
  BY <1>3 DEF Check
<1>6. running \/ (fed' = {} /\ runQueue' = {}) => Places' /\ Marked'
  <2>1. running \/ (fed' = {} /\ runQueue' = {}) => Places'
    BY <1>1, <1>2 DEF Body, Places, Asked
  <2>2. Marked'
    BY <1>1, <1>2 DEF Body, Marked
  <2> QED
    BY <2>1, <2>2
<1>7. CASE ~running
  <2>1. "twice" \in marks /\ LeftOver /\ fed = {} /\ runQueue = {}
    BY <1>1, <1>7 DEF Body, Marked, Phases, Places
  <2>2. AbortsExplained'
    BY <1>1, <1>2, <1>5, <2>1 DEF AbortsExplained
  <2>3. ASSUME Alive' PROVE Body'
    <3>1. Swept = {} /\ waiting = {} /\ \A e \in Elements : now[e] = state[e]
      BY <2>1 DEF Swept
    <3>2. \A e \in go(p) : now[e] = "STARTED"
      BY <1>5, <2>3 DEF Alive
    <3>3. go(p) = {}
      BY <1>4, <2>1, <3>1, <3>2 DEF LeftOver
    <3>4. fed' = {} /\ runQueue' = {} /\ \A e \in Elements : state'[e] = state[e] /\ worker'[e] = worker[e]
      BY <1>3, <2>1, <3>1, <3>3
    <3>5. LeftOver'
      BY <1>2, <2>1, <3>4 DEF LeftOver, Undone
    <3>6. Phases' /\ Drained' /\ Calm'
      BY <1>1, <1>2, <1>7, <3>4, <3>5 DEF Body, Phases, Asked, Drained, Calm
    <3> QED
      BY <1>6, <3>4, <3>6 DEF Body
  <2> QED
    BY <2>2, <2>3 DEF LInv
<1>8. CASE running
  <2>1. RunsWith
    BY <1>1, <1>8 DEF Body, Phases
  <2>2. ASSUME "quit" \notin marks PROVE aborted' = "none" /\ Calm'
    <3>1. \A e \in Elements : Held(e)
      BY <1>1, <1>8, <2>2 DEF Body, Calm
    <3>2. \A e \in Elements : e \notin runQueue \ Swept => now[e] = "STARTED" /\ worker[e] = "none"
      BY <3>1 DEF Held, Swept
    <3>3. \A e \in runQueue \ Swept : now[e] = state[e] /\ state[e] \in {"DISPATCHED", "RUNNING"}
      BY <1>4, <3>1 DEF Held, Swept
    <3>4. \A e \in go(p) : e \in Elements /\ e \notin runQueue \ Swept
      BY <1>3, <1>4, <3>3 DEF Idle
    <3> HIDE DEF now, go
    <3>5. ASSUME NEW e \in Elements PROVE Held(e)'
      <4>1. CASE e \in go(p)
        BY <1>3, <4>1 DEF Held
      <4>2. CASE e \notin go(p) /\ e \in runQueue \ Swept
        <5>1. state'[e] = state[e] /\ worker'[e] = worker[e] /\ e \in runQueue' /\ e \in runQueue
          BY <1>3, <3>3, <4>2
        <5> QED
          BY <3>1, <5>1 DEF Held
      <4>3. CASE e \notin go(p) /\ e \notin runQueue \ Swept
        BY <1>3, <3>2, <4>3 DEF Held
      <4> QED
        BY <4>1, <4>2, <4>3
    <3>6. aborted' = "none"
      BY <1>5, <3>2, <3>4
    <3> QED
      BY <1>1, <1>2, <3>5, <3>6 DEF Body, Calm
  <2>3. AbortsExplained'
    BY <1>1, <1>2, <1>5, <2>2 DEF AbortsExplained
  <2>4. RunsWith'
    <3>1. \A e \in Elements : state'[e] \in {"DISPATCHED", "STARTED", state[e]}
      BY <1>3
    <3> QED
      BY <1>2, <2>1, <3>1 DEF RunsWith, Live
  <2>5. Phases' /\ Drained'
    BY <1>1, <1>2, <1>8, <2>4 DEF Phases, Asked, Drained
  <2>6. Calm'
    BY <1>2, <2>2 DEF Calm
  <2> QED
    BY <1>6, <1>8, <2>3, <2>5, <2>6 DEF LInv, Body
<1> QED
  BY <1>7, <1>8

-----------------------------------------------------------------------------
(* The workers and the devices change the state of one element.  When the        *)
(* pipeline does not run, it is one with a late run, or one that is not          *)
(* UNDEFINED and goes to ERROR.                                                  *)
LEMMA OneState ==
    ASSUME TypeOK, Body, NEW e \in Elements, NEW s \in States,
           state' = [state EXCEPT ![e] = s], s \in Live,
           UNCHANGED <<running, dialogs, mpc, kept, late>>, marks \subseteq marks',
           ~running => s # "STARTED" /\ (e \in late \/ (s = "ERROR" /\ state[e] \in Live /\ mpc = "idle"))
    PROVE  Phases'
<1>1. \A x \in Elements : state'[x] = IF x = e THEN s ELSE state[x]
  BY DEF TypeOK
<1>2. ASSUME running PROVE RunsWith'
  BY <1>1, <1>2 DEF Body, Phases, RunsWith
<1>3. ASSUME mpc = "start" PROVE StartsWith'
  BY <1>1, <1>3 DEF Body, Phases, Places, StartsWith
<1>4. ASSUME ~running, LeftOver PROVE LeftOver'
  BY <1>1, <1>4 DEF LeftOver, Undone, Live
<1>5. ASSUME Asked PROVE AskedWith(dialogs[1].kind, dialogs[1].at)'
  <2>1. ~running /\ AskedWith(dialogs[1].kind, dialogs[1].at)
    BY <1>5 DEF Body, Phases, Places
  <2>2. \A x \in Elements : state[x] # "STARTED" => state'[x] # "STARTED"
    BY <1>1, <2>1
  <2>3. \A x \in Elements \ late : (Undone(x) => Undone(x)') /\ (Fresh(x) => Fresh(x)')
    BY <1>1, <2>1 DEF Undone, Fresh, Live
  <2> QED
    BY <2>1, <2>2, <2>3 DEF AskedWith
<1> QED
  BY <1>2, <1>3, <1>4, <1>5 DEF Body, Phases, Asked

LEMMA StepQuit == ASSUME TypeOK, LInv, NEW e \in Producers, Quit(e) PROVE LInv'
<1>1. Body /\ AbortsExplained /\ aborted = "none" /\ mpc = "idle" /\ e \in Elements /\ state[e] \in Live
  BY LifecycleAssumption DEF LInv, Quit, Looping, Alive, NotifyWhenLive
<1>2. /\ UNCHANGED <<worker, runQueue, fed, running, dialogs, mpc, calls, aborted, kept, late>>
      /\ marks' = marks \cup {"quit"} /\ state' = [state EXCEPT ![e] = "ERROR"]
  BY DEF Quit, Mark, queueVars, mainVars
<1>3. Phases'
  BY <1>1, <1>2, OneState DEF States, Live
<1>4. Places' /\ Marked' /\ Drained' /\ Calm' /\ AbortsExplained'
  BY <1>1, <1>2 DEF Body, Places, Marked, Asked, Drained, Calm, AbortsExplained
<1> QED
  BY <1>3, <1>4 DEF LInv, Body

LEMMA StepRunBegins == ASSUME TypeOK, LInv, NEW e \in Elements, RunBegins(e) PROVE LInv'
<1>1. Body /\ AbortsExplained /\ worker[e] = "queued"
  BY DEF LInv, RunBegins
<1>2. /\ UNCHANGED <<runQueue, fed, running, errors, dialogs, mpc, calls, kept, late, marks>>
      /\ state' = [state EXCEPT ![e] = "RUNNING"] /\ worker' = [worker EXCEPT ![e] = "inside"]
      /\ aborted' = IF state[e] = "DISPATCHED" THEN "none" ELSE "run"
  BY DEF RunBegins, Check, queueVars, eventVars, mainVars, historyVars
<1>3. ~running => e \in late
  BY <1>1 DEF Body, Drained
<1>4. "quit" \notin marks => state[e] = "DISPATCHED"
  BY <1>1, <1>3 DEF Body, Calm, Held
<1>5. AbortsExplained'
  BY <1>1, <1>2, <1>4 DEF AbortsExplained
<1>6. Phases'
  BY <1>1, <1>2, <1>3, OneState DEF States, Live
<1>7. Places' /\ Marked'
  BY <1>1, <1>2 DEF Body, Places, Marked, Asked
<1>8. Drained' /\ Calm'
  BY <1>1, <1>2 DEF Body, Drained, Calm, Held, TypeOK
<1> QED
  BY <1>5, <1>6, <1>7, <1>8 DEF LInv, Body

LEMMA StepRunEnds == ASSUME TypeOK, LInv, NEW e \in Elements, NEW ok \in BOOLEAN, RunEnds(e, ok) PROVE LInv'
<1>1. Body /\ AbortsExplained /\ aborted = "none" /\ worker[e] = "inside"
  BY DEF LInv, RunEnds, Alive
<1>2. PICK s \in {"DONE", "ERROR"} :
        /\ UNCHANGED <<runQueue, running, errors, dialogs, mpc, calls, kept, late, marks, aborted>>
        /\ state' = [state EXCEPT ![e] = s] /\ worker' = [worker EXCEPT ![e] = "none"]
        /\ ~running => fed' = fed
  BY DEF RunEnds, eventVars, mainVars, historyVars
<1>3. ~running => e \in late
  BY <1>1 DEF Body, Drained
<1>4. Phases'
  BY <1>1, <1>2, <1>3, OneState DEF States, Live
<1>5. Places' /\ Marked' /\ AbortsExplained'
  BY <1>1, <1>2 DEF Body, Places, Marked, Asked, AbortsExplained
<1>6. Drained' /\ Calm'
  BY <1>1, <1>2 DEF Body, Drained, Calm, Held, TypeOK
<1> QED
  BY <1>4, <1>5, <1>6 DEF LInv, Body

-----------------------------------------------------------------------------
(* The pipeline is always in one of its phases, whatever fails, until an        *)
(* assertion fails.                                                             *)
THEOREM PhasesHold == Spec => []LInv
<1>1. Init => LInv
  <2> SUFFICES ASSUME Init PROVE LInv
    OBVIOUS
  <2>1. Places /\ Marked /\ Phases
    BY NoDialog DEF Init, Places, Marked, Phases, Asked, LeftOver, Undone
  <2>2. Drained /\ Calm /\ AbortsExplained
    BY DEF Init, Drained, Calm, AbortsExplained
  <2> QED
    BY <2>1, <2>2 DEF LInv, Body
<1>2. TypeOK /\ LInv /\ [Next]_vars => LInv'
  <2> SUFFICES ASSUME TypeOK, LInv, [Next]_vars PROVE LInv'
    OBVIOUS
  <2>1. CASE UNCHANGED vars
    BY <2>1 DEF LInv, Body, Alive, AbortsExplained, Places, Phases, Drained, Marked, Calm, Held, Asked, AskedWith,
                LeftOver, RunsWith, StartsWith, Undone, Fresh,
                vars, elementVars, queueVars, eventVars, mainVars, historyVars
  <2>2. CASE InitDone \/ GraphFails \/ StartDone \/ \E e \in Elements : InitFails(e) \/ StartFails(e)
    BY <2>2, StepInitDone, StepGraphFails, StepStartDone, StepInitFails, StepStartFails
  <2>3. CASE CloseInit \/ ClosePins \/ CloseCycle \/ CloseStart \/ CloseFailed \/ CloseError
    BY <2>3, StepCloseInit, StepClosePins, StepCloseCycle, StepCloseStart, StepCloseFailed, StepCloseError
  <2>4. CASE UserStop \/ StopTeardown \/ \E e \in Elements : StopCollect(e)
    BY <2>4, StepUserStop, StepStopTeardown, StepStopCollect
  <2>5. CASE Tick \/ ScheduleFailed \/ Schedule \/ DeliverError \/ \E e \in Producers : Quit(e)
    BY <2>5, StepTick, StepScheduleFailed, StepSchedule, StepDeliverError, StepQuit
  <2>6. CASE \E e \in Elements : WorkerStep(e)
    BY <2>6, StepRunBegins, StepRunEnds DEF WorkerStep
  <2> QED
    BY <2>1, <2>2, <2>3, <2>4, <2>5, <2>6 DEF Next, MainStep
<1> QED
  BY <1>1, <1>2, LifecycleTypes, PTL DEF Spec

(* Every assertion of PipelineElement and Pipeline that can fail, and the hang   *)
(* of stop(), comes from an event that the code does not provide for: a start()  *)
(* that left elements behind, an init() that threw or failed silently, a second  *)
(* schedule() of one timeout(), a device that quits.  Whatever fails, in every   *)
(* pipeline and after any number of starts.                                      *)
THEOREM AbortsAlwaysExplained == Spec => []AbortsExplained
<1>1. LInv => AbortsExplained
  BY DEF LInv
<1> QED
  BY <1>1, PhasesHold, PTL

(* Whenever the user can press a button, every element is started, or every one  *)
(* is UNDEFINED but for those a failed start() has left behind, exactly          *)
(* (Pipeline::start, stop, init): whatever fails.                                *)
THEOREM AlwaysAllOrNothing == Spec => []AllOrNothing
<1>1. TypeOK /\ LInv => AllOrNothing
  <2> SUFFICES ASSUME LInv, UserMay
               PROVE  IF running THEN \A e \in Elements : state[e] \in Live
                      ELSE \A e \in Elements \ late : state[e] = "UNDEFINED" <=> e \notin kept
    BY DEF AllOrNothing
  <2>1. Body
    BY DEF LInv, UserMay, Looping
  <2> QED
    BY <2>1, UserFinds DEF RunsWith, LeftOver, Undone
<1> QED
  BY <1>1, PhasesHold, LifecycleTypes, PTL
=============================================================================
