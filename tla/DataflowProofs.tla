--------------------------- MODULE DataflowProofs ---------------------------
(***************************************************************************)
(* Proofs about module Dataflow, for every pipeline graph, threshold and   *)
(* number of frames.  All but the first assume that errors are reported    *)
(* when process() returns (ErrorsAtReturn).                                *)
(***************************************************************************)
EXTENDS Dataflow, FiniteSetTheorems, SequenceTheorems, WellFoundedInduction, TLAPS

USE DEF Idle, Busy, States, MainPcs, WorkerPcs

(* The constants: sources of connections are elements, and serials stay in   *)
(* range under ++.                                                           *)
LEMMA ConstantFacts ==
    /\ \A c \in Connections : Source(c) \in Elements /\ to[c] \in Processors
    /\ \A e : Ins(e) \subseteq Connections /\ Outs(e) \subseteq Connections
    /\ \A e : SyncIns(e) \subseteq Sync \cap Ins(e) /\ OutPins(e) \subseteq Pins
    /\ \A s \in Serials : NextSerial(s) \in Serials
    /\ FirstSerial \in Serials /\ 0 \in Serials
    /\ Producers \subseteq Elements /\ Processors \subseteq Elements
  BY GraphAssumption, NumberAssumption
  DEF Source, Ins, Outs, SyncIns, OutPins, NextSerial, Elements, Serials

(* The variables keep their types.  Needed by every other proof, and not      *)
(* free: a serial popped, announced or dispatched has to be an unsigned int,  *)
(* whatever the graph.                                                        *)
THEOREM TypeCorrect == Spec => []TypeOK
<1>0. <<>> \in Seq(Items) /\ <<>> \in Seq(Serials)
  OBVIOUS
<1>1. Init => TypeOK
  <2> SUFFICES ASSUME Init PROVE TypeOK
    OBVIOUS
  <2>1. lookup \in [Processors -> [Serials -> Nat]]
    BY DEF Init
  <2> QED
    BY ConstantFacts, <1>0, <2>1 DEF Init, TypeOK
<1>2. TypeOK /\ [Next]_vars => TypeOK'
  <2> SUFFICES ASSUME TypeOK, [Next]_vars PROVE TypeOK'
    OBVIOUS
  <2> USE ConstantFacts DEF TypeOK
  <2>1. CASE Start
    BY <2>1 DEF Start, mainVars, workerVars
  <2>2. CASE Schedule
    <3>1. \A e \in Runnable : Head(ready[e]) \in Serials /\ Tail(ready[e]) \in Seq(Serials)
      BY DEF Runnable
    <3> QED
      BY <2>2, <3>1 DEF Schedule, Dispatch, Runnable
  <2>3. CASE ScheduleFailed
    BY <2>3 DEF ScheduleFailed, elementVars, pipelineVars, workerVars
  <2>4. ASSUME NEW c \in Connections, GaugeShort(c) \/ GaugeFull(c) PROVE TypeOK'
    BY <2>4 DEF GaugeShort, GaugeFull, elementVars, pipelineVars, workerVars
  <2>5. CASE RunProducers
    BY <2>5 DEF RunProducers, Dispatch
  <2>6. CASE SkipProducers
    BY <2>6 DEF SkipProducers, elementVars, pipelineVars, workerVars
  <2>7. CASE StopRequest
    BY <2>7 DEF StopRequest, elementVars, pipelineVars, workerVars
  <2>8. ASSUME NEW e \in Elements, StopCollect(e) PROVE TypeOK'
    BY <2>8 DEF StopCollect, mainVars, workerVars
  <2>9. CASE StopTeardown
    BY <2>9, <1>0 DEF StopTeardown, workerVars
  <2>10. ASSUME NEW e \in Elements, BeginProducer(e) PROVE TypeOK'
    BY <2>10 DEF BeginProducer, pipelineVars, mainVars
  <2>11. ASSUME NEW e \in Elements, BeginProcess(e) PROVE TypeOK'
    <3>1. PICK L \in SUBSET (Ins(e) \cap Leaves) :
            /\ take' = [take EXCEPT ![e] = Ins(e) \ L]
            /\ Keep(L)
            /\ pc' = [pc EXCEPT ![e] = IF L = Ins(e) THEN "emit" ELSE "take"]
      BY <2>11 DEF BeginProcess
    <3>2. left' \in [Connections -> Nat]
      BY <3>1 DEF Keep
    <3> QED
      BY <2>11, <3>1, <3>2 DEF BeginProcess, pipelineVars, mainVars
  <2>12. ASSUME NEW e \in Elements, BeginNull(e) \/ BeginStarved(e) PROVE TypeOK'
    <3>1. CASE BeginNull(e)
      BY <3>1 DEF BeginNull, pipelineVars, mainVars
    <3>2. CASE BeginStarved(e)
      BY <3>2 DEF BeginStarved, pipelineVars, mainVars
    <3> QED
      BY <2>12, <3>1, <3>2
  <2>13. ASSUME NEW e \in Elements, NEW c \in Connections, Take(e, c) PROVE TypeOK'
    BY <2>13, SMTT(30) DEF Take, pipelineVars, mainVars
  <2>14. ASSUME NEW e \in Elements, NEW c \in Connections, PutData(e, c) \/ PostNull(e, c) PROVE TypeOK'
    <3>1. PICK null \in BOOLEAN : Push(e, c, null)
      BY <2>14 DEF PutData, PostNull
    <3>2. [serial |-> serial[e], null |-> null] \in Items
      BY DEF Items
    <3> QED
      BY <3>1, <3>2 DEF Push, pipelineVars, mainVars
  <2>15. ASSUME NEW e \in Elements, NEW c \in Connections, NewData(e, c) PROVE TypeOK'
    <3>1. to[c] \in Processors /\ serial[e] \in Serials /\ lookup[to[c]][serial[e]] \in Nat
      OBVIOUS
    <3>2. Row(to[c], serial[e]) \in Nat
      BY <3>1 DEF Row
    <3>3. lookup' \in [Processors -> [Serials -> Nat]]
      BY <2>15, <3>1, <3>2 DEF NewData
    <3>4. ready[to[c]] \in Seq(Serials) /\ Append(ready[to[c]], serial[e]) \in Seq(Serials)
      BY <3>1
    <3>5. ready' \in [Processors -> Seq(Serials)]
      <4>1. CASE MakesReady(c, serial[e])
        <5>1. ready' = [ready EXCEPT ![to[c]] = Append(ready[to[c]], serial[e])]
          BY <2>15, <4>1 DEF NewData
        <5> QED
          BY <3>1, <3>4, <5>1
      <4>2. CASE ~MakesReady(c, serial[e])
        BY <2>15, <4>2 DEF NewData
      <4> QED
        BY <4>1, <4>2
    <3> QED
      BY <2>15, <3>3, <3>5 DEF NewData, mainVars
  <2>16. ASSUME NEW e \in Elements, NEW ok \in BOOLEAN, EndProcess(e, ok) PROVE TypeOK'
    BY <2>16 DEF EndProcess, elementVars, pipelineVars, mainVars
  <2>17. ASSUME NEW e \in Elements, SetError(e) \/ Finish(e) PROVE TypeOK'
    BY <2>17 DEF SetError, Finish, pipelineVars, mainVars, workerVars
  <2>18. ASSUME NEW e \in Elements, Throw(e) PROVE TypeOK'
    <3>1. left' \in [Connections -> Nat]
      BY <2>18 DEF Throw, Keep
    <3> QED
      BY <2>18, <3>1 DEF Throw, pipelineVars, mainVars
  <2>19. CASE UNCHANGED vars
    BY <2>19 DEF vars, elementVars, pipelineVars, mainVars, workerVars
  <2> QED
    BY <2>1, <2>2, <2>3, <2>4, <2>5, <2>6, <2>7, <2>8, <2>9, <2>10, <2>11, <2>12,
       <2>13, <2>14, <2>15, <2>16, <2>17, <2>18, <2>19 DEF Next, MainStep, WorkerStep
<1> QED
  BY <1>1, <1>2, PTL DEF Spec

-----------------------------------------------------------------------------
(* One step keeps the element states, the run queue and the workers in        *)
(* agreement.                                                                 *)
LEMMA AccountedStep ==
    ASSUME ErrorsAtReturn, TypeOK, Accounted, [Next]_vars
    PROVE  Accounted'
<1> USE ConstantFacts DEF TypeOK, Accounted
<1>1. CASE Start
  BY <1>1 DEF Start, mainVars, workerVars
<1>2. CASE Schedule
  BY <1>2 DEF Schedule, Dispatch, Runnable, Stale, Finished
<1>3. CASE ScheduleFailed
  BY <1>3 DEF ScheduleFailed, elementVars, pipelineVars, workerVars
<1>4. ASSUME NEW c \in Connections, GaugeShort(c) \/ GaugeFull(c) PROVE Accounted'
  BY <1>4 DEF GaugeShort, GaugeFull, elementVars, pipelineVars, workerVars
<1>5. CASE RunProducers
  BY <1>5 DEF RunProducers, Dispatch
<1>6. CASE SkipProducers \/ StopRequest
  BY <1>6 DEF SkipProducers, StopRequest, elementVars, pipelineVars, workerVars
<1>7. ASSUME NEW e \in Elements, StopCollect(e) PROVE Accounted'
  BY <1>7 DEF StopCollect, Collectable, mainVars, workerVars
<1>8. CASE StopTeardown
  BY <1>8 DEF StopTeardown, workerVars
<1>9. ASSUME NEW e \in Elements, BeginProducer(e) \/ BeginProcess(e) \/ BeginNull(e)
      PROVE  Accounted'
  <2>1. PICK q \in {"emit", "take", "flush"} :
          /\ pc[e] = "dispatched"
          /\ pc' = [pc EXCEPT ![e] = q]
          /\ state' = [state EXCEPT ![e] = "RUNNING"]
          /\ UNCHANGED <<queue, pipelineVars, mainVars>>
    BY <1>9 DEF BeginProducer, BeginProcess, BeginNull
  <2> QED
    BY <2>1 DEF pipelineVars, mainVars
<1>10. ASSUME NEW e \in Elements, NEW c \in Connections, Take(e, c) PROVE Accounted'
  BY <1>10 DEF Take, pipelineVars, mainVars
<1>11. ASSUME NEW e \in Elements, NEW c \in Connections, PutData(e, c) \/ PostNull(e, c)
       PROVE  Accounted'
  BY <1>11 DEF PutData, PostNull, Push, pipelineVars, mainVars
<1>12. ASSUME NEW e \in Elements, NEW c \in Connections, NewData(e, c) PROVE Accounted'
  BY <1>12 DEF NewData, mainVars
<1>13. ASSUME NEW e \in Elements, NEW ok \in BOOLEAN, EndProcess(e, ok) PROVE Accounted'
  BY <1>13 DEF EndProcess, elementVars, pipelineVars, mainVars
<1>14. ASSUME NEW e \in Elements, SetError(e) PROVE Accounted'
  BY <1>14 DEF SetError, ErrorsAtReturn
<1>15. ASSUME NEW e \in Elements, Throw(e) \/ Finish(e) PROVE Accounted'
  <2>1. CASE Throw(e)
    BY <2>1 DEF Throw, pipelineVars, mainVars
  <2>2. CASE Finish(e)
    BY <2>2 DEF Finish, pipelineVars, mainVars
  <2> QED
    BY <1>15, <2>1, <2>2
<1>16. CASE UNCHANGED vars
  BY <1>16 DEF vars, elementVars, pipelineVars, mainVars, workerVars
<1>17. ASSUME NEW e \in Elements, BeginStarved(e) PROVE Accounted'
  BY <1>17 DEF BeginStarved, pipelineVars, mainVars
<1> QED
  BY <1>1, <1>2, <1>3, <1>4, <1>5, <1>6, <1>7, <1>8, <1>9, <1>10, <1>11, <1>12,
     <1>13, <1>14, <1>15, <1>16, <1>17 DEF Next, MainStep, WorkerStep

THEOREM AccountedAlways ==
    ASSUME ErrorsAtReturn PROVE Spec => []Accounted
<1>1. Init => Accounted
  BY ConstantFacts DEF Init, Accounted
<1>2. TypeOK /\ Accounted /\ [Next]_vars => Accounted'
  BY AccountedStep
<1> QED
  BY <1>1, <1>2, TypeCorrect, PTL DEF Spec

(* One step keeps the load of the producers' connections within the           *)
(* threshold.                                                                 *)
LEMMA SourceLoadStep ==
    ASSUME ErrorsAtReturn, TypeOK, Accounted, SourceLoad, [Next]_vars
    PROVE  SourceLoad'
<1> USE ConstantFacts, NumberAssumption, GraphAssumption DEF TypeOK, SourceLoad, MayPush
<1>0. \A c \in Connections : Len(queue[c]) \in Nat /\ Threshold \in Nat \ {0}
  OBVIOUS
<1>1. CASE Start
  BY <1>1 DEF Start, mainVars, workerVars, Accounted
<1>2. CASE Schedule
  BY <1>2 DEF Schedule, Dispatch, Runnable
<1>3. CASE ScheduleFailed
  BY <1>3 DEF ScheduleFailed, elementVars, pipelineVars, workerVars
<1>4. ASSUME NEW c \in Connections, GaugeShort(c) \/ GaugeFull(c) PROVE SourceLoad'
  BY <1>4 DEF GaugeShort, GaugeFull, Short, elementVars, pipelineVars, workerVars
<1>5. CASE RunProducers
  BY <1>5 DEF RunProducers, Dispatch
<1>6. CASE SkipProducers \/ StopRequest
  BY <1>6 DEF SkipProducers, StopRequest, elementVars, pipelineVars, workerVars
<1>7. ASSUME NEW e \in Elements, StopCollect(e) PROVE SourceLoad'
  BY <1>7 DEF StopCollect, mainVars, workerVars
<1>8. CASE StopTeardown
  BY <1>8 DEF StopTeardown, workerVars
<1>9. ASSUME NEW e \in Elements, BeginProducer(e) PROVE SourceLoad'
  BY <1>9 DEF BeginProducer, pipelineVars, mainVars, Source
<1>10. ASSUME NEW e \in Elements, BeginProcess(e) \/ BeginNull(e) PROVE SourceLoad'
  <2>1. PICK q \in {"emit", "take", "flush"} :
          /\ e \in Processors
          /\ pc' = [pc EXCEPT ![e] = q]
          /\ state' = [state EXCEPT ![e] = "RUNNING"]
          /\ \E S \in SUBSET Outs(e) : todo' = [todo EXCEPT ![e] = S]
          /\ UNCHANGED <<queue, mainVars>>
    BY <1>10 DEF BeginProcess, BeginNull
  <2> QED
    BY <2>1, SMTT(30) DEF mainVars
<1>11. ASSUME NEW e \in Elements, NEW c \in Connections, Take(e, c) PROVE SourceLoad'
  <2>1. \A d \in Connections : Len(queue'[d]) \in Nat /\ Len(queue'[d]) <= Len(queue[d])
    BY <1>11, SMTT(30) DEF Take
  <2>2. e \notin Producers
    BY <1>11 DEF Take
  <2>3. \A x \in Producers : pc'[x] = pc[x]
    BY <1>11, <2>2 DEF Take
  <2>4. UNCHANGED <<state, todo, mpc, gauge>>
    BY <1>11 DEF Take, mainVars
  <2>5. ASSUME NEW d \in Connections, owner[from[d]] \in Producers
        PROVE  /\ Len(queue'[d]) <= Threshold
               /\ MayPush(d)' => Len(queue'[d]) < Threshold
               /\ mpc' = "gauge" /\ d \notin gauge' /\ state'[owner[from[d]]] \in Idle
                      => Len(queue'[d]) < Threshold
    <3>1. MayPush(d)' <=> MayPush(d)
      BY <2>3, <2>4, <2>5
    <3>2. /\ Len(queue[d]) <= Threshold
          /\ MayPush(d) => Len(queue[d]) < Threshold
          /\ mpc = "gauge" /\ d \notin gauge /\ state[owner[from[d]]] \in Idle
                 => Len(queue[d]) < Threshold
      BY <2>5
    <3> HIDE DEF MayPush, TypeOK, SourceLoad
    <3> QED
      BY <1>0, <2>1, <2>4, <3>1, <3>2
  <2> QED
    BY <2>3, <2>4, <2>5
<1>12. ASSUME NEW e \in Elements, NEW c \in Connections, PutData(e, c) \/ PostNull(e, c)
       PROVE  SourceLoad'
  <2>1. PICK null \in BOOLEAN : Push(e, c, null)
    BY <1>12 DEF PutData, PostNull
  <2>2. pc[e] \in {"emit", "post"} /\ c \in todo[e] /\ owner[from[c]] = e
    BY <1>12, <2>1 DEF PutData, PostNull, Push, Outs
  <2>3. state[e] \notin Idle
    BY <2>2 DEF Accounted
  <2>4. [serial |-> serial[e], null |-> null] \in Items
    BY DEF Items
  <2>5. Len(queue'[c]) = Len(queue[c]) + 1 /\ \A d \in Connections \ {c} : queue'[d] = queue[d]
    BY <2>1, <2>4 DEF Push
  <2>6. todo' = [todo EXCEPT ![e] = @ \ {c}] /\ UNCHANGED <<state, pc, mpc, gauge>>
    BY <2>1 DEF Push, mainVars
  <2>7. ASSUME NEW d \in Connections, owner[from[d]] \in Producers
        PROVE  /\ Len(queue'[d]) <= Threshold
               /\ MayPush(d)' => Len(queue'[d]) < Threshold
               /\ mpc' = "gauge" /\ d \notin gauge' /\ state'[owner[from[d]]] \in Idle
                      => Len(queue'[d]) < Threshold
    <3>1. CASE d = c
      BY <1>0, <2>2, <2>3, <2>5, <2>6, <2>7, <3>1, SMTT(30)
    <3>2. CASE d # c
      BY <2>2, <2>5, <2>6, <2>7, <3>2
    <3> QED
      BY <3>1, <3>2
  <2> QED
    BY <2>6, <2>7
<1>13. ASSUME NEW e \in Elements, NEW c \in Connections, NewData(e, c) PROVE SourceLoad'
  BY <1>13 DEF NewData, mainVars
<1>14. ASSUME NEW e \in Elements, NEW ok \in BOOLEAN, EndProcess(e, ok) PROVE SourceLoad'
  BY <1>14 DEF EndProcess, elementVars, mainVars
<1>15. ASSUME NEW e \in Elements, SetError(e) PROVE SourceLoad'
  BY <1>15 DEF SetError, ErrorsAtReturn
<1>16. ASSUME NEW e \in Elements, Throw(e) \/ Finish(e) PROVE SourceLoad'
  BY <1>16, SMTT(30) DEF Throw, Finish, mainVars
<1>17. CASE UNCHANGED vars
  BY <1>17 DEF vars, elementVars, pipelineVars, mainVars, workerVars
<1>18. ASSUME NEW e \in Elements, BeginStarved(e) PROVE SourceLoad'
  BY <1>18, SMTT(30) DEF BeginStarved, mainVars
<1> HIDE DEF TypeOK, SourceLoad, MayPush
<1> QED
  BY <1>1, <1>2, <1>3, <1>4, <1>5, <1>6, <1>7, <1>8, <1>9, <1>10, <1>11, <1>12,
     <1>13, <1>14, <1>15, <1>16, <1>17, <1>18 DEF Next, MainStep, WorkerStep

(* What schedule() has read of a producer's connection holds until the        *)
(* producers are run, whatever the workers do meanwhile.                      *)
THEOREM SourceLoadAlways ==
    ASSUME ErrorsAtReturn PROVE Spec => []SourceLoad
<1>1. Init => SourceLoad
  BY ConstantFacts, NumberAssumption, GraphAssumption
  DEF Init, SourceLoad, MayPush, Elements, Source
<1>2. TypeOK /\ Accounted /\ SourceLoad /\ [Next]_vars => SourceLoad'
  BY SourceLoadStep
<1> QED
  BY <1>1, <1>2, TypeCorrect, AccountedAlways, PTL DEF Spec

(* The threshold of schedule() bounds the connections of producers, whatever  *)
(* the workers do while the sizes are read one by one.                        *)
THEOREM SourcesBounded ==
    ASSUME ErrorsAtReturn PROVE Spec => []SourceBound
<1>1. SourceLoad => SourceBound
  BY DEF SourceLoad, SourceBound
<1> QED
  BY <1>1, SourceLoadAlways, PTL

(* m_runQueue and the element states tell the same story in every pipeline,   *)
(* so the assertions of RunItem::dispatch and of run() hold.                  *)
THEOREM RunQueueCorrect ==
    ASSUME ErrorsAtReturn PROVE Spec => []RunQueueExact
<1>1. Accounted => RunQueueExact
  BY DEF Accounted, RunQueueExact, Finished
<1> QED
  BY <1>1, AccountedAlways, PTL

(* stop() returns only when no worker is inside an element, and leaves no     *)
(* item behind.                                                               *)
THEOREM StopIsQuiet ==
    ASSUME ErrorsAtReturn PROVE Spec => []QuietWhenStopped
<1>1. Accounted => QuietWhenStopped
  BY DEF Accounted, QuietWhenStopped, Finished
<1> QED
  BY <1>1, AccountedAlways, PTL

-----------------------------------------------------------------------------
(* The frames: none is mixed with another, lost or repeated, in every graph.  *)
(* From here on the proofs also assume that the serials do not wrap (NoWrap)  *)
(* and that every processor has a synchronous pin (AllSynchronous).           *)

(* The figures of the bookkeeping are integers. *)
FigureTypes ==
    /\ base \in Nat /\ nextSerial \in Nat
    /\ \A e \in Elements : serial[e] \in Nat /\ job[e] \in Nat /\ Last(e) \in Int /\ Issued(e) \in Int
    /\ \A c \in Connections : /\ Sent(c) \in Int /\ Taken(c) \in Int /\ Told(c) \in Int
                              /\ Len(queue[c]) \in Nat /\ left[c] \in Nat /\ Gone(c) \in Int
    /\ \A e \in Processors : Len(ready[e]) \in Nat /\ Complete(e) \in Int

LEMMA Figures == ASSUME TypeOK PROVE FigureTypes
<1> USE ConstantFacts, NumberAssumption DEF TypeOK
<1>1. base \in Nat /\ nextSerial \in Nat /\ \A e \in Elements : serial[e] \in Nat /\ job[e] \in Nat
  BY DEF Serials
<1>2. \A e \in Elements : Last(e) \in Int /\ Issued(e) \in Int
  BY <1>1 DEF Last, Issued
<1>3. \A c \in Connections : Sent(c) \in Int /\ Taken(c) \in Int
  <2> HIDE DEF TypeOK
  <2>1. \A c \in Connections : Last(Source(c)) \in Int /\ Last(to[c]) \in Int
    BY <1>2
  <2> QED
    BY <2>1 DEF Sent, Taken
<1>4. \A c \in Connections : Told(c) \in Int /\ Len(queue[c]) \in Nat
  BY <1>3 DEF Told
<1>5. \A e \in Processors : Len(ready[e]) \in Nat
  OBVIOUS
<1>6. \A e \in Processors : Complete(e) \in Int
  BY <1>2, <1>5 DEF Complete
<1>7. \A c \in Connections : left[c] \in Nat /\ Gone(c) \in Int
  BY <1>3 DEF Gone
<1> QED
  BY <1>1, <1>2, <1>3, <1>4, <1>5, <1>6, <1>7 DEF FigureTypes

(* The constants as the figures use them. *)
LEMMA SyncFacts ==
    ASSUME AllSynchronous
    PROVE  /\ Sync \subseteq Connections
           /\ \A c \in Sync : c \in SyncIns(to[c]) /\ to[c] \in Processors /\ Source(c) \in Elements
           /\ \A e \in Processors : e \in SyncProcessors /\ SyncIns(e) # {}
           /\ \A e \in SyncProcessors : e \in Processors
           /\ \A e : \A c \in SyncIns(e) : c \in Sync /\ c \in Connections /\ to[c] = e
           /\ \A e : IsFiniteSet(SyncIns(e))
  BY ConstantFacts, GraphAssumption, FS_Subset
  DEF AllSynchronous, SyncProcessors, SyncIns, Ins

(* A frame goes down a synchronous connection in this order: begun by the     *)
(* source, pushed, announced, made ready, dispatched, begun by the consumer.  *)
LEMMA Chain ==
    ASSUME AllSynchronous, TypeOK, Bookkeeping, NEW c \in Sync
    PROVE  /\ {Last(to[c]), Issued(to[c]), Complete(to[c])} \subseteq Int
           /\ {Told(c), Sent(c), Last(Source(c)), nextSerial} \subseteq Int
           /\ Last(to[c]) <= Issued(to[c])
           /\ Issued(to[c]) <= Complete(to[c])
           /\ Complete(to[c]) <= Told(c)
           /\ Told(c) <= Sent(c)
           /\ Sent(c) <= Last(Source(c))
           /\ Last(Source(c)) <= nextSerial - 1
<1> USE SyncFacts, ConstantFacts, Figures DEF FigureTypes
<1>0. /\ {Last(to[c]), Issued(to[c]), Complete(to[c])} \subseteq Int
      /\ {Told(c), Sent(c), Last(Source(c)), nextSerial} \subseteq Int
  OBVIOUS
<1>1. Last(to[c]) <= Issued(to[c])
  <2>1. pc[to[c]] = "dispatched" => job[to[c]] = Last(to[c]) + 1
    BY DEF Bookkeeping, JobNext
  <2> QED
    BY <1>0, <2>1 DEF Issued
<1>2. Issued(to[c]) <= Complete(to[c])
  BY DEF Complete
<1>3. Complete(to[c]) <= Told(c)
  BY DEF Bookkeeping, ReadyExact
<1>4. Told(c) <= Sent(c)
  BY DEF Told
<1>5. Sent(c) <= Last(Source(c))
  BY DEF Sent
<1>6. Last(Source(c)) <= nextSerial - 1
  BY DEF Bookkeeping, Counters, WorkerShape, Last
<1> QED
  BY <1>0, <1>1, <1>2, <1>3, <1>4, <1>5, <1>6

(* What a processor that has been dispatched finds on its pins: enough for a  *)
(* run, so peek() never throws.                                               *)
LEMMA HeadsAligned ==
    ASSUME AllSynchronous, TypeOK, Bookkeeping, NEW e \in Processors, pc[e] = "dispatched"
    PROVE  Aligned(e)
<1> SUFFICES ASSUME NEW c \in SyncIns(e)
             PROVE  queue[c] # <<>> /\ Head(queue[c]).serial = job[e] - left[c]
  BY DEF Aligned
<1> USE SyncFacts, ConstantFacts
<1>1. FigureTypes
  BY Figures
<1>2. take[e] = {} /\ job[e] = Last(e) + 1 /\ Issued(e) = job[e]
  BY DEF Bookkeeping, WorkerShape, JobNext, Issued
<1>3. Gone(c) = Last(e) - left[c]
  BY <1>2 DEF Gone, Taken, Behind
<1>4. Sent(c) >= job[e] /\ Last(e) \in Int /\ Sent(c) \in Int /\ left[c] \in Nat
  <2>1. c \in Sync /\ to[c] = e
    OBVIOUS
  <2>2. /\ {Last(e), Issued(e), Complete(e), Told(c), Sent(c)} \subseteq Int
        /\ Issued(e) <= Complete(e) /\ Complete(e) <= Told(c) /\ Told(c) <= Sent(c)
    BY <2>1, Chain
  <2> QED
    BY <1>1, <1>2, <2>2 DEF FigureTypes
<1>5. /\ Len(queue[c]) = Sent(c) - Gone(c)
      /\ \A i \in 1 .. Len(queue[c]) : queue[c][i].serial = Gone(c) + i
  BY DEF Bookkeeping, QueueExact
<1>6. queue[c] \in Seq(Items) /\ 1 \in 1 .. Len(queue[c])
  BY <1>2, <1>3, <1>4, <1>5 DEF TypeOK
<1>7. queue[c] # <<>> /\ Head(queue[c]) = queue[c][1]
  BY <1>6
<1> QED
  BY <1>2, <1>3, <1>4, <1>5, <1>6, <1>7

LEMMA NeverStarved ==
    ASSUME AllSynchronous, TypeOK, Bookkeeping, NEW e \in Elements PROVE ~BeginStarved(e)
  BY HeadsAligned DEF BeginStarved, Aligned

-----------------------------------------------------------------------------
(* What is left to show of a step that leaves the frames where they are. *)
LEMMA SameFigures ==
    ASSUME AllSynchronous, TypeOK, Bookkeeping,
           UNCHANGED <<queue, ready, lookup, running, base, nextSerial>>,
           \A e \in Elements : /\ Issued(e)' = Issued(e)
                               /\ pc'[e] = "dispatched" => /\ pc[e] = "dispatched" /\ job'[e] = job[e]
                                                           /\ Last(e)' = Last(e),
           \A c \in Sync : Sent(c)' = Sent(c) /\ Gone(c)' = Gone(c) /\ Told(c)' = Told(c),
           \A c \in Sync : left'[c] = left[c] \/ c \in Leaves \/ <<to[c], "throw">> \in Faults
    PROVE  Counters' /\ JobNext' /\ QueueExact' /\ ReadyExact' /\ ScoreExact'
<1> USE SyncFacts, ConstantFacts
<1>1. Counters' /\ JobNext'
  BY DEF Bookkeeping, Counters, JobNext
<1>2. QueueExact'
  BY DEF Bookkeeping, QueueExact
<1>3. \A e \in Processors : Complete(e)' = Complete(e)
  BY DEF Complete
<1>4. ReadyExact'
  BY <1>3 DEF Bookkeeping, ReadyExact
<1>5. \A e \in Processors : \A s : Heard(e, s)' = Heard(e, s)
  BY DEF Heard
<1>6. ScoreExact'
  BY <1>3, <1>5 DEF Bookkeeping, ScoreExact
<1> QED
  BY <1>1, <1>2, <1>4, <1>6

(* Steps that touch neither the workers' lists nor the serials. *)
LEMMA QuietStep ==
    ASSUME AllSynchronous, TypeOK, Bookkeeping,
           UNCHANGED <<serial, queue, left, lookup, ready, job, running, base, nextSerial, take, todo, pend>>,
           \A e \in Elements : pc'[e] = "dispatched" <=> pc[e] = "dispatched"
    PROVE  Counters' /\ JobNext' /\ QueueExact' /\ ReadyExact' /\ ScoreExact'
<1> USE ConstantFacts
<1>1. \A e \in Elements : Last(e)' = Last(e) /\ Issued(e)' = Issued(e)
  BY DEF Last, Issued
<1>2. \A c \in Connections : Sent(c)' = Sent(c) /\ Taken(c)' = Taken(c)
  BY <1>1 DEF Sent, Taken, Behind
<1>3. \A c \in Connections : Told(c)' = Told(c) /\ Gone(c)' = Gone(c)
  BY <1>2 DEF Told, Gone
<1> QED
  BY <1>1, <1>2, <1>3, SameFigures, SyncFacts

(* The polls of the main thread and the ends of runs are such steps. *)
LEMMA QuietSteps ==
    ASSUME AllSynchronous, TypeOK, Accounted, Bookkeeping,
           \/ ScheduleFailed \/ SkipProducers \/ StopRequest \/ UNCHANGED vars
           \/ \E c \in Connections : GaugeShort(c) \/ GaugeFull(c)
           \/ \E e \in Elements : \/ StopCollect(e) \/ Finish(e)
                                  \/ \E ok \in BOOLEAN : EndProcess(e, ok)
    PROVE  Bookkeeping'
<1> USE ConstantFacts DEF vars, elementVars, pipelineVars, mainVars, workerVars
<1>1. /\ UNCHANGED <<serial, queue, left, lookup, ready, job, running, base, nextSerial, take, todo, pend>>
      /\ \A e \in Elements : pc'[e] = "dispatched" <=> pc[e] = "dispatched"
  <2>1. CASE ScheduleFailed \/ SkipProducers \/ StopRequest \/ UNCHANGED vars
    BY <2>1 DEF ScheduleFailed, SkipProducers, StopRequest
  <2>2. CASE \E c \in Connections : GaugeShort(c) \/ GaugeFull(c)
    BY <2>2 DEF GaugeShort, GaugeFull
  <2>3. ASSUME NEW e \in Elements, StopCollect(e) \/ Finish(e)
        PROVE  /\ UNCHANGED <<serial, queue, left, lookup, ready, job, running, base, nextSerial, take, todo, pend>>
               /\ \A x \in Elements : pc'[x] = "dispatched" <=> pc[x] = "dispatched"
    BY <2>3 DEF StopCollect, Finish, TypeOK
  <2>4. ASSUME NEW e \in Elements, NEW ok \in BOOLEAN, EndProcess(e, ok)
        PROVE  /\ UNCHANGED <<serial, queue, left, lookup, ready, job, running, base, nextSerial, take, todo, pend>>
               /\ \A x \in Elements : pc'[x] = "dispatched" <=> pc[x] = "dispatched"
    BY <2>4 DEF EndProcess, TypeOK
  <2> QED
    BY <2>1, <2>2, <2>3, <2>4
<1>2. Counters' /\ JobNext' /\ QueueExact' /\ ReadyExact' /\ ScoreExact'
  BY <1>1, QuietStep
<1>3. WorkerShape'
  <2> USE DEF Bookkeeping, WorkerShape, TypeOK
  <2>1. CASE ScheduleFailed \/ SkipProducers \/ StopRequest \/ UNCHANGED vars
    BY <2>1 DEF ScheduleFailed, SkipProducers, StopRequest
  <2>2. CASE \E c \in Connections : GaugeShort(c) \/ GaugeFull(c)
    BY <2>2 DEF GaugeShort, GaugeFull
  <2>3. ASSUME NEW e \in Elements, StopCollect(e) PROVE WorkerShape'
    BY <2>3 DEF StopCollect
  <2>4. ASSUME NEW e \in Elements, Finish(e) PROVE WorkerShape'
    BY <2>4 DEF Finish
  <2>5. ASSUME NEW e \in Elements, NEW ok \in BOOLEAN, EndProcess(e, ok) PROVE WorkerShape'
    BY <2>5 DEF EndProcess
  <2> QED
    BY <2>1, <2>2, <2>3, <2>4, <2>5
<1> QED
  BY <1>2, <1>3 DEF Bookkeeping

(* A run that throws passes by the pins it has not taken from: what it should *)
(* have taken counts as left.                                                 *)
LEMMA ThrowStep ==
    ASSUME AllSynchronous, TypeOK, Accounted, Bookkeeping, NEW e \in Elements, Throw(e)
    PROVE  Bookkeeping'
<1> USE SyncFacts, ConstantFacts
<1>0. FigureTypes
  BY Figures
<1>1. /\ UNCHANGED <<serial, queue, lookup, ready, job, running, runQueue, base, nextSerial, mpc, todo, pend>>
      /\ pc[e] \in {"take", "emit"} /\ pc'[e] = "idle" /\ take'[e] = {} /\ pend[e] = {}
      /\ \A x \in Elements \ {e} : pc'[x] = pc[x] /\ take'[x] = take[x] /\ result'[x] = result[x]
      /\ <<e, "throw">> \in Faults /\ ~result'[e]
  BY DEF Throw, TypeOK, pipelineVars, mainVars
<1>2. \A c \in Sync : left'[c] = IF c \in take[e] THEN left[c] + 1 ELSE left[c]
  BY DEF Throw, Keep
<1>3. serial[e] # 0 /\ take[e] \subseteq Ins(e) /\ e \in runQueue
  BY <1>1 DEF Bookkeeping, WorkerShape, Accounted
<1>4. \A x \in Elements : /\ Last(x)' = Last(x) /\ Issued(x)' = Issued(x)
                          /\ pc'[x] = "dispatched" <=> pc[x] = "dispatched"
  BY <1>1 DEF Last, Issued
<1>5. \A c \in Connections : Sent(c)' = Sent(c) /\ Told(c)' = Told(c)
  BY <1>1, <1>4 DEF Sent, Told, Behind
<1>6. ASSUME NEW c \in Sync
      PROVE  Gone(c)' = Gone(c) /\ (left'[c] = left[c] \/ <<to[c], "throw">> \in Faults)
  <2>0. Last(to[c]) \in Int /\ left[c] \in Nat
    BY <1>0 DEF FigureTypes
  <2>1. CASE c \in take[e]
    <3>1. to[c] = e
      BY <1>3, <2>1 DEF Ins
    <3>2. Taken(c) = Last(e) - 1 /\ Taken(c)' = Last(e)
      BY <1>1, <1>3, <1>4, <2>1, <3>1 DEF Taken, Behind
    <3> QED
      BY <1>1, <1>2, <2>0, <2>1, <3>1, <3>2 DEF Gone
  <2>2. CASE c \notin take[e]
    <3>1. Taken(c)' = Taken(c)
      BY <1>1, <1>4, <2>2 DEF Taken, Behind
    <3> QED
      BY <1>2, <2>2, <3>1 DEF Gone
  <2> QED
    BY <2>1, <2>2
<1>7. WorkerShape'
  BY <1>1, <1>3 DEF Bookkeeping, WorkerShape
<1> QED
  BY <1>1, <1>4, <1>5, <1>6, <1>7, SameFigures DEF Bookkeeping

(* start(): every figure is the frame before the first one of this run, and   *)
(* the rows left on the scoreboards belong to older frames.                   *)
LEMMA StartStep ==
    ASSUME AllSynchronous, NoWrap, TypeOK, Accounted, Bookkeeping, Start
    PROVE  Bookkeeping'
<1> USE SyncFacts, ConstantFacts, NumberAssumption DEF Start, mainVars, workerVars, Bookkeeping
<1>1. /\ \A e \in Elements : serial[e] = 0 /\ pc[e] = "idle" /\ take[e] = {} /\ pend[e] = {}
      /\ \A c \in Connections : queue[c] = <<>>
      /\ base' = nextSerial /\ nextSerial \in Nat
  BY Figures DEF Accounted, WorkerShape, FigureTypes
<1>2. \A e \in Elements : Last(e)' = nextSerial - 1 /\ Issued(e)' = nextSerial - 1
  BY <1>1 DEF Last, Issued
<1>3. \A c \in Connections : Sent(c)' = nextSerial - 1 /\ Taken(c)' = nextSerial - 1
  BY <1>1, <1>2 DEF Sent, Taken, Behind
<1>4. \A c \in Connections : Told(c)' = nextSerial - 1
  BY <1>1, <1>3 DEF Told
<1>4a. \A c \in Sync : left'[c] = 0 /\ Gone(c)' = nextSerial - 1
  <2>1. \A c \in Sync : Sent(c) = base - 1 /\ Taken(c) = base - 1 /\ left[c] \in Nat /\ base \in Nat
    BY <1>1, Figures DEF Sent, Taken, Behind, Last, FigureTypes
  <2>2. \A c \in Sync : Len(queue[c]) = Sent(c) - Gone(c)
    BY DEF QueueExact
  <2>3. \A c \in Sync : left[c] = 0
    BY <1>1, <2>1, <2>2 DEF Gone
  <2> QED
    BY <1>1, <1>3, <2>3 DEF Gone
<1>5. \A e \in Processors : ready'[e] = <<>> /\ Complete(e)' = nextSerial - 1
  BY <1>1, <1>2 DEF Complete
<1>6. Counters'
  BY <1>1, Figures DEF Counters, FigureTypes
<1>7. WorkerShape'
  BY <1>1 DEF WorkerShape
<1>8. JobNext'
  BY <1>1, <1>2 DEF JobNext
<1>9. QueueExact'
  BY <1>1, <1>3, <1>4a DEF QueueExact
<1>10. ReadyExact'
  BY <1>1, <1>2, <1>4, <1>5 DEF ReadyExact
<1>11. \A e \in Processors : \A s \in Serials : s >= nextSerial => Heard(e, s)' = {}
  BY <1>1, <1>4 DEF Heard, Serials
<1>12. ScoreExact'
  <2>1. \A e \in Processors : \A s \in Serials : s >= nextSerial => lookup'[e][s] = 0
    BY DEF ScoreExact
  <2>2. \A e \in Processors : \A s \in Serials : s >= nextSerial => ~(s <= Complete(e)')
    BY <1>1, <1>5 DEF Serials
  <2>3. \A e \in Processors : \A s \in Serials : s >= nextSerial => Cardinality(Heard(e, s)') = 0
    BY <1>11, FS_EmptySet
  <2> QED
    BY <1>1, <2>1, <2>2, <2>3, SMTT(30) DEF ScoreExact
<1> QED
  BY <1>6, <1>7, <1>8, <1>9, <1>10, <1>12

(* The end of stop(): nothing is on its way. *)
LEMMA StopStep ==
    ASSUME AllSynchronous, NoWrap, TypeOK, Accounted, Bookkeeping, StopTeardown
    PROVE  Bookkeeping'
<1> USE SyncFacts, ConstantFacts, NumberAssumption DEF StopTeardown, workerVars, Bookkeeping
<1>1. /\ \A e \in Elements : serial'[e] = 0 /\ pc[e] = "idle" /\ take[e] = {} /\ pend[e] = {}
      /\ \A c \in Connections : queue'[c] = <<>>
      /\ base \in Nat
  BY Figures DEF Accounted, WorkerShape, FigureTypes
<1>2. \A e \in Elements : Last(e)' = base - 1 /\ Issued(e)' = base - 1
  BY <1>1 DEF Last, Issued
<1>3. \A c \in Connections : Sent(c)' = base - 1 /\ Taken(c)' = base - 1
  BY <1>1, <1>2 DEF Sent, Taken, Behind
<1>4. \A c \in Connections : Told(c)' = base - 1
  BY <1>1, <1>3 DEF Told
<1>5. \A e \in Processors : ready'[e] = <<>> /\ Complete(e)' = base - 1
  BY <1>1, <1>2 DEF Complete
<1>6. Counters'
  BY DEF Counters
<1>7. WorkerShape'
  BY <1>1 DEF WorkerShape
<1>8. JobNext'
  BY <1>1 DEF JobNext
<1>9. QueueExact'
  BY <1>1, <1>3 DEF QueueExact, Gone
<1>10. ReadyExact'
  BY <1>1, <1>2, <1>4, <1>5 DEF ReadyExact
<1>11. ScoreExact'
  BY DEF ScoreExact
<1> QED
  BY <1>6, <1>7, <1>8, <1>9, <1>10, <1>11

(* schedule() dispatches the oldest ready frame of an element: its successor  *)
(* becomes the oldest one.                                                    *)
LEMMA ScheduleStep ==
    ASSUME AllSynchronous, TypeOK, Accounted, Bookkeeping, Schedule
    PROVE  Bookkeeping'
<1> USE SyncFacts, ConstantFacts
<1>0. FigureTypes
  BY Figures
<1>1. /\ UNCHANGED <<serial, queue, left, lookup, running, base, nextSerial, take, todo, pend, result>>
      /\ running /\ mpc = "idle" /\ mpc' = "gauge" /\ \A e \in Stale : result[e]
      /\ Runnable \subseteq Processors
      /\ Dispatch(Runnable, [e \in Runnable |-> Head(ready[e])], Stale)
      /\ ready' = [e \in Processors |-> IF e \in Runnable THEN Tail(ready[e]) ELSE ready[e]]
  BY DEF Schedule, Runnable
<1>2. \A e \in Runnable : pc[e] = "idle" /\ ready[e] # <<>> /\ (e \in runQueue => e \in Stale)
  BY <1>1 DEF Runnable, Stale, Finished, Accounted
<1>3. \A e \in Elements \ Runnable : pc'[e] = pc[e] /\ job'[e] = job[e]
  BY <1>1 DEF Dispatch
<1>4. \A e \in Runnable : pc'[e] = "dispatched" /\ job'[e] = Head(ready[e])
  BY <1>1 DEF Dispatch
<1>5. \A e \in Elements : Last(e)' = Last(e)
  BY <1>1 DEF Last
<1>6. \A c \in Connections : Sent(c)' = Sent(c) /\ Taken(c)' = Taken(c)
  BY <1>1, <1>5 DEF Sent, Taken, Behind
<1>7. \A c \in Connections : Told(c)' = Told(c)
  BY <1>1, <1>6 DEF Told
<1>8. \A e \in Elements \ Runnable : Issued(e)' = Issued(e)
  BY <1>3, <1>5 DEF Issued
<1>9. ASSUME NEW e \in Runnable
      PROVE  /\ Issued(e)' = Issued(e) + 1 /\ job'[e] = Last(e) + 1
             /\ Len(ready'[e]) = Len(ready[e]) - 1
             /\ \A i \in 1 .. Len(ready'[e]) : ready'[e][i] = Issued(e)' + i
  <2>1. ready[e] \in Seq(Serials) /\ ready[e] # <<>> /\ ready'[e] = Tail(ready[e]) /\ Len(ready[e]) \in Nat
    BY <1>1, <1>2, <1>0 DEF TypeOK, FigureTypes
  <2>2. \A i \in 1 .. Len(ready[e]) : ready[e][i] = Issued(e) + i
    BY <1>1 DEF Bookkeeping, ReadyExact
  <2>3. Head(ready[e]) = Issued(e) + 1
    BY <2>1, <2>2
  <2>4. Issued(e) = Last(e) /\ Issued(e)' = job'[e] /\ Issued(e) \in Int
    BY <1>0, <1>1, <1>2, <1>4 DEF Issued, FigureTypes
  <2>5. /\ Len(ready'[e]) = Len(ready[e]) - 1
        /\ \A i \in 1 .. Len(ready'[e]) : ready'[e][i] = ready[e][i + 1]
    BY <2>1
  <2>6. \A i \in 1 .. Len(ready'[e]) : i + 1 \in 1 .. Len(ready[e])
    BY <2>1, <2>5
  <2>7. \A i \in 1 .. Len(ready'[e]) : ready'[e][i] = Issued(e) + (i + 1)
    BY <2>2, <2>5, <2>6
  <2> QED
    BY <1>4, <2>1, <2>3, <2>4, <2>5, <2>7
<1>10. \A e \in Processors : Complete(e)' = Complete(e)
  <2> SUFFICES ASSUME NEW e \in Processors PROVE Complete(e)' = Complete(e)
    OBVIOUS
  <2>1. CASE e \in Runnable
    <3>1. Issued(e)' = Issued(e) + 1 /\ Len(ready'[e]) = Len(ready[e]) - 1
      BY <2>1, <1>9
    <3>2. Issued(e) \in Int /\ Len(ready[e]) \in Nat
      BY <1>0 DEF FigureTypes
    <3> QED
      BY <3>1, <3>2 DEF Complete
  <2>2. CASE e \notin Runnable
    BY <2>2, <1>1, <1>8 DEF Complete
  <2> QED
    BY <2>1, <2>2
<1>11. Counters' /\ QueueExact'
  BY <1>1, <1>6 DEF Bookkeeping, Counters, QueueExact, Gone
<1>12. JobNext'
  <2>1. \A e \in Producers : e \in Elements \ Runnable
    BY <1>1, GraphAssumption
  <2>2. ASSUME NEW e \in Elements, e \in Producers \cup SyncProcessors, pc'[e] = "dispatched"
        PROVE  job'[e] = Last(e)' + 1
    <3>1. CASE e \in Runnable
      BY <1>5, <1>9, <3>1
    <3>2. CASE e \notin Runnable
      BY <1>3, <1>5, <2>2, <3>2 DEF Bookkeeping, JobNext
    <3> QED
      BY <3>1, <3>2
  <2>3. \A e \in Producers : Issued(e)' = nextSerial' - 1
    BY <1>1, <1>8, <2>1 DEF Bookkeeping, JobNext
  <2> QED
    BY <2>2, <2>3 DEF JobNext
<1>13. ReadyExact'
  <2> SUFFICES ASSUME NEW e \in Processors
               PROVE  /\ \A i \in 1 .. Len(ready'[e]) : ready'[e][i] = Issued(e)' + i
                      /\ \A c \in SyncIns(e) : Told(c)' >= Complete(e)'
                      /\ \E c \in SyncIns(e) : Told(c)' = Complete(e)'
    BY DEF ReadyExact
  <2>1. \A i \in 1 .. Len(ready'[e]) : ready'[e][i] = Issued(e)' + i
    <3>1. CASE e \in Runnable
      BY <1>9, <3>1
    <3>2. CASE e \notin Runnable
      BY <1>1, <1>8, <3>2 DEF Bookkeeping, ReadyExact
    <3> QED
      BY <3>1, <3>2
  <2> QED
    BY <1>7, <1>10, <2>1 DEF Bookkeeping, ReadyExact
<1>14. ScoreExact'
  <2>1. \A e \in Processors : \A s : Heard(e, s)' = Heard(e, s)
    BY <1>7 DEF Heard
  <2> QED
    BY <1>1, <1>10, <2>1 DEF Bookkeeping, ScoreExact
<1>15. WorkerShape'
  <2>1. \A e \in Runnable : result[e] \/ e \notin runQueue
    BY <1>1, <1>2
  <2>2. \A e \in Runnable : serial[e] = 0 \/ todo[e] = {}
    BY <1>1, <1>2, <2>1 DEF Bookkeeping, WorkerShape
  <2>3. runQueue' = (runQueue \ Stale) \cup Runnable
    BY <1>1 DEF Dispatch
  <2> QED
    BY <1>1, <1>2, <1>3, <1>4, <2>2, <2>3 DEF Bookkeeping, WorkerShape
<1> QED
  BY <1>11, <1>12, <1>13, <1>14, <1>15 DEF Bookkeeping

(* The producers are given the next frame, which is the one after the last   *)
(* they began.                                                               *)
LEMMA ProduceStep ==
    ASSUME AllSynchronous, NoWrap, TypeOK, Accounted, Bookkeeping, RunProducers
    PROVE  Bookkeeping'
<1> USE SyncFacts, ConstantFacts
<1>0. FigureTypes
  BY Figures
<1>1. /\ UNCHANGED <<serial, queue, left, lookup, ready, running, base, take, todo, pend, result>>
      /\ mpc = "gauge" /\ mpc' = "idle" /\ running
      /\ Dispatch(Producers, [e \in Producers |-> nextSerial], {})
  BY DEF RunProducers, Accounted
<1>2. nextSerial' = nextSerial + 1 /\ nextSerial' <= LastSerial
  BY <1>0, NumberAssumption
  DEF RunProducers, NextSerial, NoWrap, Bookkeeping, Counters, FigureTypes
<1>3. \A e \in Producers : /\ pc[e] = "idle" /\ e \notin runQueue
                           /\ pc'[e] = "dispatched" /\ job'[e] = nextSerial
  BY <1>1 DEF RunProducers, Dispatch, Accounted
<1>4. \A e \in Processors : e \in Elements /\ pc'[e] = pc[e] /\ job'[e] = job[e]
  BY <1>1, GraphAssumption DEF Dispatch
<1>5. \A e \in Elements : Last(e)' = Last(e)
  BY <1>1 DEF Last
<1>6. \A c \in Connections : Sent(c)' = Sent(c) /\ Taken(c)' = Taken(c)
  BY <1>1, <1>5 DEF Sent, Taken, Behind
<1>7. \A c \in Connections : Told(c)' = Told(c)
  BY <1>1, <1>6 DEF Told
<1>8. \A e \in Processors : Issued(e)' = Issued(e) /\ Complete(e)' = Complete(e)
  BY <1>1, <1>4, <1>5 DEF Issued, Complete
<1>9. \A e \in Producers : Issued(e)' = nextSerial /\ Last(e) = nextSerial - 1
  BY <1>1, <1>3 DEF Issued, Bookkeeping, JobNext
<1>10. Counters'
  BY <1>0, <1>1, <1>2 DEF Bookkeeping, Counters, FigureTypes
<1>11. WorkerShape'
  <2>1. runQueue' = runQueue \cup Producers
    BY <1>1 DEF Dispatch
  <2>2. \A e \in Producers : serial[e] = 0 \/ todo[e] = {}
    BY <1>1, <1>3 DEF Bookkeeping, WorkerShape
  <2>3. \A e \in Elements : serial[e] < nextSerial => serial[e] < nextSerial'
    BY <1>0, <1>2 DEF FigureTypes
  <2> QED
    BY <1>1, <1>3, <1>4, <2>1, <2>2, <2>3 DEF Bookkeeping, WorkerShape, Elements
<1>12. JobNext'
  <2>1. \A e \in Producers : job'[e] = Last(e)' + 1 /\ Issued(e)' = nextSerial' - 1
    BY <1>0, <1>2, <1>3, <1>5, <1>9 DEF FigureTypes
  <2>2. \A e \in SyncProcessors : pc'[e] = "dispatched" => job'[e] = Last(e)' + 1
    BY <1>4, <1>5 DEF Bookkeeping, JobNext
  <2> QED
    BY <2>1, <2>2 DEF JobNext
<1>13. QueueExact'
  BY <1>1, <1>6 DEF Bookkeeping, QueueExact, Gone
<1>14. ReadyExact'
  BY <1>1, <1>7, <1>8 DEF Bookkeeping, ReadyExact
<1>15. ScoreExact'
  <2>1. \A e \in Processors : \A s : Heard(e, s)' = Heard(e, s)
    BY <1>7 DEF Heard
  <2>2. \A s \in Serials : s >= nextSerial' => s >= nextSerial
    BY <1>0, <1>2, NumberAssumption DEF FigureTypes, Serials
  <2> QED
    BY <1>1, <1>8, <2>1, <2>2 DEF Bookkeeping, ScoreExact
<1> QED
  BY <1>10, <1>11, <1>12, <1>13, <1>14, <1>15 DEF Bookkeeping

(* An element begins the frame it was given: it now owes an item to each      *)
(* synchronous output, and takes one from each synchronous input or leaves it *)
(* there.                                                                     *)
LEMMA BeginStep ==
    ASSUME AllSynchronous, TypeOK, Accounted, Bookkeeping, NEW e \in Elements,
           BeginProducer(e) \/ BeginProcess(e) \/ BeginNull(e)
    PROVE  Bookkeeping'
<1> USE SyncFacts, ConstantFacts
<1>0. FigureTypes
  BY Figures
<1>1. /\ UNCHANGED <<queue, lookup, ready, running, base, nextSerial, job, runQueue, mpc, pend>>
      /\ pc[e] = "dispatched" /\ pc'[e] \in {"emit", "take", "flush"}
      /\ serial'[e] = job[e]
      /\ \A x \in Elements \ {e} : /\ pc'[x] = pc[x] /\ serial'[x] = serial[x]
                                   /\ take'[x] = take[x] /\ todo'[x] = todo[x]
                                   /\ result'[x] = result[x]
  <2>1. CASE BeginProducer(e)
    BY <2>1 DEF BeginProducer, TypeOK, pipelineVars, mainVars
  <2>2. CASE BeginProcess(e)
    BY <2>2 DEF BeginProcess, TypeOK, pipelineVars, mainVars
  <2>3. CASE BeginNull(e)
    BY <2>3 DEF BeginNull, TypeOK, pipelineVars, mainVars
  <2> QED
    BY <2>1, <2>2, <2>3
<1>2. Outs(e) \cap Sync \subseteq todo'[e] /\ todo'[e] \subseteq Outs(e)
  BY DEF BeginProducer, BeginProcess, BeginNull, TypeOK
<1>3. /\ e \in Processors => take'[e] \subseteq Ins(e)
      /\ \A c \in Sync : left'[c] = IF to[c] = e /\ c \notin take'[e] THEN left[c] + 1 ELSE left[c]
      /\ \A c \in SyncIns(e) : c \in take'[e] \/ c \in Leaves
      /\ e \in Processors /\ pc'[e] = "emit" => take'[e] = {}
  <2>1. CASE BeginProducer(e)
    <3>1. \A c \in Sync : to[c] # e
      BY <2>1, GraphAssumption DEF BeginProducer
    <3> QED
      BY <2>1, <3>1, GraphAssumption DEF BeginProducer
  <2>2. CASE BeginProcess(e)
    <3>1. PICK L \in SUBSET (Ins(e) \cap Leaves) :
            /\ take' = [take EXCEPT ![e] = Ins(e) \ L]
            /\ Keep(L)
            /\ pc' = [pc EXCEPT ![e] = IF L = Ins(e) THEN "emit" ELSE "take"]
      BY <2>2 DEF BeginProcess
    <3>2. take'[e] = Ins(e) \ L /\ pc'[e] = IF L = Ins(e) THEN "emit" ELSE "take"
      BY <3>1 DEF TypeOK
    <3>3. \A c \in Sync : c \in Ins(e) <=> to[c] = e
      BY DEF Ins
    <3>4. \A c \in Sync : left'[c] = IF c \in L THEN left[c] + 1 ELSE left[c]
      BY <3>1 DEF Keep
    <3> QED
      BY <3>2, <3>3, <3>4
  <2>3. CASE BeginNull(e)
    BY <2>3 DEF BeginNull, TypeOK
  <2> QED
    BY <2>1, <2>2, <2>3
<1>4. e \in Producers => take'[e] = {} /\ pc'[e] = "emit"
  <2>1. take[e] = {}
    BY <1>1 DEF Bookkeeping, WorkerShape
  <2> QED
    BY <2>1, GraphAssumption DEF BeginProducer, BeginProcess, BeginNull, TypeOK
<1>5. /\ take[e] = {} /\ pend[e] = {} /\ (serial[e] = 0 \/ todo[e] = {}) /\ running
      /\ job[e] = Last(e) + 1
  BY <1>1 DEF Bookkeeping, WorkerShape, JobNext, Accounted, Elements
<1>6. base <= job[e] /\ job[e] < nextSerial /\ job[e] # 0
  <2>1. Last(e) >= base - 1 /\ base >= 1
    BY <1>0 DEF Bookkeeping, WorkerShape, Counters, Last, FigureTypes
  <2>2. Issued(e) = job[e]
    BY <1>1 DEF Issued
  <2>3. Issued(e) <= nextSerial - 1
    <3>1. CASE e \in Producers
      BY <1>0, <1>5, <3>1 DEF Bookkeeping, JobNext, FigureTypes
    <3>2. CASE e \in Processors
      <4>1. PICK c \in SyncIns(e) : TRUE
        BY <3>2
      <4> QED
        BY <4>1, Chain
    <3> QED
      BY <3>1, <3>2 DEF Elements
  <2> QED
    BY <1>0, <1>5, <2>1, <2>2, <2>3 DEF FigureTypes
<1>7. Last(e)' = Last(e) + 1 /\ Issued(e)' = Issued(e)
  BY <1>0, <1>1, <1>5, <1>6 DEF Last, Issued, TypeOK
<1>8. \A x \in Elements \ {e} : Last(x)' = Last(x) /\ Issued(x)' = Issued(x)
  BY <1>1 DEF Last, Issued, TypeOK
<1>9. serial'[e] # 0
  BY <1>1, <1>6
<1>10. \A c \in Sync : Sent(c)' = Sent(c)
  <2> SUFFICES ASSUME NEW c \in Sync PROVE Sent(c)' = Sent(c)
    OBVIOUS
  <2>1. CASE Source(c) = e
    <3>1. c \in todo'[e] /\ c \in Connections
      BY <1>2, <2>1 DEF Outs, Source
    <3>2. Sent(c) = Last(e)
      BY <1>5, <2>1 DEF Sent, Behind
    <3>3. Sent(c)' = Last(e)' - 1
      BY <1>9, <2>1, <3>1 DEF Sent, Behind, Source
    <3> QED
      BY <1>0, <1>7, <3>2, <3>3 DEF FigureTypes
  <2>2. CASE Source(c) # e
    BY <1>1, <1>8, <2>2 DEF Sent, Behind, Source
  <2> QED
    BY <2>1, <2>2
<1>11. \A c \in Sync : Gone(c)' = Gone(c) /\ (left'[c] = left[c] \/ c \in Leaves)
  <2> SUFFICES ASSUME NEW c \in Sync
               PROVE  Gone(c)' = Gone(c) /\ (left'[c] = left[c] \/ c \in Leaves)
    OBVIOUS
  <2>0. left[c] \in Nat /\ Last(e) \in Int
    BY <1>0 DEF FigureTypes
  <2>1. CASE to[c] = e
    <3>1. left'[c] = IF c \in take'[e] THEN left[c] ELSE left[c] + 1
      BY <1>3, <2>1
    <3>2. Taken(c) = Last(e)
      BY <1>5, <2>1 DEF Taken, Behind
    <3>3. Taken(c)' = IF c \in take'[e] THEN Last(e) ELSE Last(e) + 1
      BY <1>7, <1>9, <2>0, <2>1 DEF Taken, Behind
    <3>4. c \in take'[e] \/ c \in Leaves
      BY <1>3, <2>1
    <3> QED
      BY <2>0, <3>1, <3>2, <3>3, <3>4 DEF Gone
  <2>2. CASE to[c] # e
    <3>1. Taken(c)' = Taken(c)
      BY <1>1, <1>8, <2>2 DEF Taken, Behind
    <3> QED
      BY <1>3, <2>2, <3>1 DEF Gone
  <2> QED
    BY <2>1, <2>2
<1>12. \A c \in Sync : Told(c)' = Told(c)
  BY <1>1, <1>10 DEF Told, Source
<1>13. WorkerShape'
  <2>1. /\ take'[e] \subseteq Ins(e) /\ todo'[e] \subseteq Outs(e) /\ pend'[e] = {}
        /\ pc'[e] \notin {"take", "flush"} => take'[e] = {}
    <3>1. CASE e \in Producers
      BY <1>1, <1>2, <1>4, <1>5, <3>1
    <3>2. CASE e \in Processors
      BY <1>1, <1>2, <1>3, <1>5, <3>2
    <3> QED
      BY <3>1, <3>2 DEF Elements
  <2>2. running' /\ base' <= serial'[e] /\ serial'[e] < nextSerial'
    BY <1>1, <1>5, <1>6
  <2> QED
    BY <1>1, <1>9, <2>1, <2>2 DEF Bookkeeping, WorkerShape
<1>14. \A x \in Elements : /\ Issued(x)' = Issued(x)
                           /\ pc'[x] = "dispatched" => /\ pc[x] = "dispatched" /\ job'[x] = job[x]
                                                       /\ Last(x)' = Last(x)
  BY <1>1, <1>7, <1>8 DEF TypeOK
<1> QED
  BY <1>1, <1>10, <1>11, <1>12, <1>13, <1>14, SameFigures DEF Bookkeeping

(* An item is taken from a queue: it is there, and it is the next frame.     *)
LEMMA TakeStep ==
    ASSUME AllSynchronous, TypeOK, Accounted, Bookkeeping,
           NEW e \in Elements, NEW c \in Connections, Take(e, c)
    PROVE  Bookkeeping'
<1> USE SyncFacts, ConstantFacts
<1>0. FigureTypes
  BY Figures
<1>1. /\ UNCHANGED <<serial, left, lookup, ready, running, base, nextSerial, job, runQueue, mpc, todo, pend, result>>
      /\ pc[e] \in {"take", "flush"} /\ c \in take[e] /\ to[c] = e
      /\ pc'[e] = IF take[e] # {c} THEN pc[e] ELSE IF pc[e] = "take" THEN "emit" ELSE "post"
      /\ take'[e] = take[e] \ {c}
      /\ \A x \in Elements \ {e} : pc'[x] = pc[x] /\ take'[x] = take[x]
  BY DEF Take, TypeOK, pipelineVars, mainVars, Bookkeeping, WorkerShape, Ins
<1>2. \A d \in Connections \ {c} : queue'[d] = queue[d]
  BY DEF Take, TypeOK
<1>3. serial[e] # 0
  BY <1>1 DEF Bookkeeping, WorkerShape
<1>4. \A x \in Elements : /\ Last(x)' = Last(x) /\ Issued(x)' = Issued(x)
                          /\ pc'[x] = "dispatched" <=> pc[x] = "dispatched"
  BY <1>1 DEF Last, Issued
<1>5. \A d \in Connections : Sent(d)' = Sent(d)
  BY <1>1, <1>4 DEF Sent, Behind
<1>6. \A d \in Connections : Told(d)' = Told(d)
  BY <1>1, <1>5 DEF Told
<1>7. \A d \in Connections \ {c} : Gone(d)' = Gone(d)
  BY <1>1, <1>4 DEF Gone, Taken, Behind
<1>8. Taken(c) = Last(e) - 1 /\ Taken(c)' = Last(e)
  BY <1>1, <1>3, <1>4 DEF Taken, Behind
<1>9. QueueExact'
  <2>1. ASSUME c \in Sync
        PROVE  /\ Len(queue'[c]) = Sent(c)' - Gone(c)'
               /\ \A i \in 1 .. Len(queue'[c]) : queue'[c][i].serial = Gone(c)' + i
               /\ base' <= Gone(c)' + 1
    <3>1. /\ Len(queue[c]) = Sent(c) - Gone(c)
          /\ \A i \in 1 .. Len(queue[c]) : queue[c][i].serial = Gone(c) + i
          /\ base <= Gone(c) + 1
      BY <2>1 DEF Bookkeeping, QueueExact
    <3>2. /\ Sent(c) >= Last(e) /\ Sent(c) \in Int /\ Last(e) \in Int
          /\ left[c] \in Nat /\ base \in Nat
      BY <1>0, <1>1, <2>1, Chain DEF FigureTypes
    <3>2a. Gone(c) = Last(e) - 1 - left[c] /\ Gone(c)' = Last(e) - left[c]
      BY <1>1, <1>8 DEF Gone
    <3>3. queue[c] \in Seq(Items) /\ queue[c] # <<>>
      BY <3>1, <3>2, <3>2a DEF TypeOK
    <3>4. queue'[c] = Tail(queue[c])
      BY <3>3 DEF Take, TypeOK
    <3>5. /\ Len(queue'[c]) = Len(queue[c]) - 1
          /\ \A i \in 1 .. Len(queue'[c]) : queue'[c][i] = queue[c][i + 1] /\ i + 1 \in 1 .. Len(queue[c])
      BY <3>3, <3>4
    <3>5a. Gone(c)' = Gone(c) + 1 /\ Gone(c) \in Int
      BY <3>2, <3>2a
    <3>5b. base' = base /\ Sent(c)' = Sent(c)
      BY <1>1, <1>5
    <3>6. Len(queue'[c]) = Sent(c)' - Gone(c)' /\ base' <= Gone(c)' + 1
      BY <3>1, <3>2, <3>5, <3>5a, <3>5b
    <3>7. ASSUME NEW i \in 1 .. Len(queue'[c]) PROVE queue'[c][i].serial = Gone(c)' + i
      <4>1. queue'[c][i].serial = Gone(c) + (i + 1)
        BY <3>1, <3>5
      <4> QED
        BY <3>5a, <4>1
    <3> QED
      BY <3>6, <3>7
  <2> QED
    BY <1>1, <1>2, <1>5, <1>7, <2>1 DEF Bookkeeping, QueueExact
<1>10. WorkerShape'
  BY <1>1 DEF Bookkeeping, WorkerShape
<1>11. Counters' /\ JobNext'
  BY <1>1, <1>4 DEF Bookkeeping, Counters, JobNext
<1>12. \A x \in Processors : Complete(x)' = Complete(x)
  BY <1>1, <1>4 DEF Complete
<1>13. ReadyExact'
  BY <1>1, <1>4, <1>6, <1>12 DEF Bookkeeping, ReadyExact
<1>14. ScoreExact'
  <2>1. \A x \in Processors : \A s : Heard(x, s)' = Heard(x, s)
    BY <1>6 DEF Heard
  <2> QED
    BY <1>1, <1>12, <2>1 DEF Bookkeeping, ScoreExact
<1> QED
  BY <1>9, <1>10, <1>11, <1>13, <1>14 DEF Bookkeeping

(* An item is pushed: it follows the last one pushed, and is not announced    *)
(* yet.                                                                       *)
LEMMA PushStep ==
    ASSUME AllSynchronous, TypeOK, Accounted, Bookkeeping,
           NEW e \in Elements, NEW c \in Connections, NEW null \in BOOLEAN,
           pc[e] \in {"emit", "post"}, Push(e, c, null)
    PROVE  Bookkeeping'
<1> USE SyncFacts, ConstantFacts
<1>0. FigureTypes
  BY Figures
<1>1. /\ UNCHANGED <<serial, left, lookup, ready, running, base, nextSerial, job, runQueue, mpc, take, pc, result>>
      /\ c \in todo[e] /\ pend[e] = {} /\ Source(c) = e
      /\ todo'[e] = todo[e] \ {c} /\ pend'[e] = {c}
      /\ \A x \in Elements \ {e} : todo'[x] = todo[x] /\ pend'[x] = pend[x]
  BY DEF Push, TypeOK, pipelineVars, mainVars, Bookkeeping, WorkerShape, Outs, Source
<1>2. \A d \in Connections \ {c} : queue'[d] = queue[d]
  BY DEF Push, TypeOK
<1>3. serial[e] # 0
  BY DEF Bookkeeping, WorkerShape
<1>4. \A x \in Elements : Last(x)' = Last(x) /\ Issued(x)' = Issued(x)
  BY <1>1 DEF Last, Issued
<1>5. \A d \in Connections \ {c} : Sent(d)' = Sent(d)
  BY <1>1, <1>4 DEF Sent, Behind, Source
<1>6. Sent(c) = Last(e) - 1 /\ Sent(c)' = Last(e)
  BY <1>1, <1>3, <1>4 DEF Sent, Behind, Source
<1>7. \A d \in Connections : Gone(d)' = Gone(d)
  BY <1>1, <1>4 DEF Gone, Taken, Behind
<1>8. \A d \in Connections : Told(d)' = Told(d)
  <2>1. Told(c)' = Told(c)
    BY <1>1, <1>6 DEF Told, Source
  <2>2. \A d \in Connections \ {c} : Told(d)' = Told(d)
    BY <1>1, <1>5 DEF Told, Source
  <2> QED
    BY <2>1, <2>2
<1>9. QueueExact'
  <2>1. ASSUME c \in Sync
        PROVE  /\ Len(queue'[c]) = Sent(c)' - Gone(c)'
               /\ \A i \in 1 .. Len(queue'[c]) : queue'[c][i].serial = Gone(c)' + i
    <3>1. /\ Len(queue[c]) = Sent(c) - Gone(c)
          /\ \A i \in 1 .. Len(queue[c]) : queue[c][i].serial = Gone(c) + i
      BY <2>1 DEF Bookkeeping, QueueExact
    <3>2. queue[c] \in Seq(Items) /\ [serial |-> serial[e], null |-> null] \in Items
      BY DEF TypeOK, Items
    <3>3. queue'[c] = Append(queue[c], [serial |-> serial[e], null |-> null])
      BY DEF Push, TypeOK
    <3>4. /\ Len(queue'[c]) = Len(queue[c]) + 1
          /\ \A i \in 1 .. Len(queue[c]) : queue'[c][i] = queue[c][i]
          /\ queue'[c][Len(queue[c]) + 1].serial = serial[e]
      BY <3>2, <3>3
    <3>5. serial[e] = Last(e) /\ Last(e) \in Int /\ Gone(c) \in Int /\ Len(queue[c]) \in Nat
      BY <1>0, <1>3 DEF Last, FigureTypes
    <3>6. Len(queue'[c]) = Sent(c)' - Gone(c)'
      BY <1>6, <1>7, <3>1, <3>4, <3>5
    <3>7. ASSUME NEW i \in 1 .. Len(queue'[c]) PROVE queue'[c][i].serial = Gone(c)' + i
      <4>1. CASE i \in 1 .. Len(queue[c])
        BY <1>7, <3>1, <3>4, <4>1
      <4>2. CASE i = Len(queue[c]) + 1
        <5>1. queue'[c][i].serial = Last(e)
          BY <3>4, <3>5, <4>2
        <5>2. Gone(c)' + i = Last(e)
          BY <1>6, <1>7, <3>1, <3>5, <4>2
        <5> QED
          BY <5>1, <5>2
      <4>3. i \in 1 .. Len(queue[c]) \/ i = Len(queue[c]) + 1
        BY <3>4, <3>5
      <4> QED
        BY <4>1, <4>2, <4>3
    <3> QED
      BY <3>6, <3>7
  <2> QED
    BY <1>1, <1>2, <1>5, <1>7, <2>1 DEF Bookkeeping, QueueExact
<1>10. WorkerShape'
  BY <1>1 DEF Bookkeeping, WorkerShape, Outs, Source
<1>11. Counters' /\ JobNext'
  BY <1>1, <1>4 DEF Bookkeeping, Counters, JobNext
<1>12. \A x \in Processors : Complete(x)' = Complete(x)
  BY <1>1, <1>4 DEF Complete
<1>13. ReadyExact'
  BY <1>1, <1>4, <1>8, <1>12 DEF Bookkeeping, ReadyExact
<1>14. ScoreExact'
  <2>1. \A x \in Processors : \A s : Heard(x, s)' = Heard(x, s)
    BY <1>8 DEF Heard
  <2> QED
    BY <1>1, <1>12, <2>1 DEF Bookkeeping, ScoreExact
<1> QED
  BY <1>9, <1>10, <1>11, <1>13, <1>14 DEF Bookkeeping

(* One more pin of d has the frame s: the row of s is full exactly when all   *)
(* pins have it.                                                              *)
LEMMA RowLemma ==
    ASSUME AllSynchronous, NEW d \in Processors, NEW c \in SyncIns(d), NEW H \in SUBSET SyncIns(d),
           c \notin H
    PROVE  /\ Cardinality(H \cup {c}) = Cardinality(H) + 1
           /\ Cardinality(H) + 1 = PinCount(d) <=> H \cup {c} = SyncIns(d)
<1>1. IsFiniteSet(SyncIns(d)) /\ IsFiniteSet(H)
  BY SyncFacts, FS_Subset
<1>2. Cardinality(H \cup {c}) = Cardinality(H) + 1
  BY <1>1, FS_AddElement
<1>3. ASSUME Cardinality(H) + 1 = PinCount(d) PROVE H \cup {c} = SyncIns(d)
  BY <1>1, <1>2, <1>3, FS_Subset DEF PinCount
<1> QED
  BY <1>2, <1>3 DEF PinCount

(* A push is announced to the consumer: the scoreboard counts the pin, and    *)
(* the frame becomes ready with its last pin, after all older frames.         *)
LEMMA AnnounceStep ==
    ASSUME AllSynchronous, TypeOK, Accounted, Bookkeeping,
           NEW e \in Elements, NEW c \in Connections, NewData(e, c)
    PROVE  Bookkeeping'
<1> USE SyncFacts, ConstantFacts
<1> DEFINE d == to[c]
           s == serial[e]
<1>0. FigureTypes
  BY Figures
<1>1. /\ UNCHANGED <<serial, queue, left, running, base, nextSerial, job, runQueue, mpc, take, todo, pc, result>>
      /\ c \in pend[e] /\ pend'[e] = {} /\ \A x \in Elements \ {e} : pend'[x] = pend[x]
  BY DEF NewData, TypeOK, mainVars
<1>2. /\ Source(c) = e /\ pend[e] = {c} /\ c \notin todo[e] /\ s # 0
      /\ running /\ base <= s /\ s < nextSerial
  BY <1>1 DEF Bookkeeping, WorkerShape, Outs, Source
<1>3. \A x \in Elements : Last(x)' = Last(x) /\ Issued(x)' = Issued(x)
  BY <1>1 DEF Last, Issued
<1>4. \A k \in Connections : Sent(k)' = Sent(k) /\ Gone(k)' = Gone(k)
  BY <1>1, <1>3 DEF Sent, Gone, Taken, Behind
<1>5. \A k \in Connections \ {c} : Told(k)' = Told(k)
  BY <1>1, <1>2, <1>4 DEF Told, Source
<1>6. Told(c) = s - 1 /\ Told(c)' = s
  <2>1. Sent(c) = s
    BY <1>2 DEF Sent, Behind, Last, Source
  <2> QED
    BY <1>1, <1>2, <1>4, <2>1 DEF Told, Source
<1>7. Counters' /\ JobNext' /\ QueueExact'
  BY <1>1, <1>3, <1>4 DEF Bookkeeping, Counters, JobNext, QueueExact
<1>8. WorkerShape'
  BY <1>1 DEF Bookkeeping, WorkerShape
<1>9. CASE c \notin Sync
  <2>1. UNCHANGED <<lookup, ready>>
    BY <1>9 DEF NewData, MakesReady
  <2>2. \A k \in Sync : Sent(k)' = Sent(k) /\ Gone(k)' = Gone(k) /\ Told(k)' = Told(k)
    BY <1>4, <1>5, <1>9
  <2> QED
    BY <1>1, <1>3, <1>8, <2>1, <2>2, SameFigures DEF Bookkeeping
<1>10. CASE c \in Sync
  <2> DEFINE H == Heard(d, s)
  <2>0. \A t \in Serials : t \in Nat
    BY NumberAssumption DEF Serials
  <2>1. d \in Processors /\ c \in SyncIns(d) /\ s \in Serials /\ s \in Nat
    BY <1>0, <1>10 DEF TypeOK, FigureTypes
  <2>2. Complete(d) <= s - 1 /\ Complete(d) \in Int
    BY <1>0, <1>6, <1>10, <2>1, Chain DEF FigureTypes
  <2>3. lookup[d][s] = Cardinality(H)
    <3>1. ~(s <= Complete(d))
      BY <2>1, <2>2
    <3>2. lookup[d][s] = IF s <= Complete(d) THEN 0 ELSE Cardinality(Heard(d, s))
      BY <1>2, <2>1 DEF Bookkeeping, ScoreExact
    <3> QED
      BY <3>1, <3>2
  <2>4. H \in SUBSET SyncIns(d) /\ c \notin H
    BY <1>6, <2>1 DEF Heard
  <2>5. \A k \in SyncIns(d) : Told(k)' >= s <=> k \in H \cup {c}
    BY <1>5, <1>6, <2>1 DEF Heard
  <2>6. RowFull(d, s) <=> H \cup {c} = SyncIns(d)
    <3>1. Cardinality(H) + 1 = PinCount(d) <=> H \cup {c} = SyncIns(d)
      BY <2>1, <2>4, RowLemma
    <3> QED
      BY <2>3, <3>1 DEF RowFull
  <2>7. \A x \in Processors \ {d} : /\ ready'[x] = ready[x] /\ lookup'[x] = lookup[x]
                                    /\ Complete(x)' = Complete(x)
                                    /\ \A k \in SyncIns(x) : Told(k)' = Told(k)
    <3>1. \A x \in Processors \ {d} : ready'[x] = ready[x] /\ lookup'[x] = lookup[x]
      <4>1. \A x \in Processors \ {d} : ready'[x] = ready[x]
        BY DEF NewData, TypeOK
      <4>2. \A x \in Processors \ {d} : lookup'[x] = lookup[x]
        BY DEF NewData, TypeOK
      <4> QED
        BY <4>1, <4>2
    <3> QED
      BY <1>3, <1>5, <3>1 DEF Complete
  <2>8. lookup'[d][s] = (IF RowFull(d, s) THEN 0 ELSE Cardinality(H) + 1)
        /\ \A t \in Serials \ {s} : lookup'[d][t] = lookup[d][t]
    BY <1>10, <2>1, <2>3, SMTT(30) DEF NewData, Row, TypeOK
  <2>9. \A t \in Serials \ {s} : Heard(d, t)' = Heard(d, t)
    <3> SUFFICES ASSUME NEW t \in Serials \ {s}, NEW k \in SyncIns(d)
                 PROVE  Told(k)' >= t <=> Told(k) >= t
      BY DEF Heard
    <3>1. CASE k = c
      BY <1>6, <2>0, <2>1, <3>1
    <3>2. CASE k # c
      BY <1>5, <3>2
    <3> QED
      BY <3>1, <3>2
  <2>10. Heard(d, s)' = H \cup {c}
    <3>1. Heard(d, s)' = {k \in SyncIns(d) : Told(k)' >= s}
      BY <1>1 DEF Heard
    <3> QED
      BY <2>1, <2>4, <2>5, <3>1
  <2> HIDE DEF H
  <2>11. /\ \A i \in 1 .. Len(ready[d]) : ready[d][i] = Issued(d) + i
         /\ \A k \in SyncIns(d) : Told(k) >= Complete(d)
         /\ \E k \in SyncIns(d) : Told(k) = Complete(d)
    BY <2>1 DEF Bookkeeping, ReadyExact
  <2>12. \A t \in Serials : t >= base /\ t # s =>
            lookup'[d][t] = IF t <= Complete(d) THEN 0 ELSE Cardinality(Heard(d, t)')
    BY <1>2, <2>1, <2>8, <2>9 DEF Bookkeeping, ScoreExact
  <2>13. /\ \A i \in 1 .. Len(ready'[d]) : ready'[d][i] = Issued(d)' + i
         /\ \A k \in SyncIns(d) : Told(k)' >= Complete(d)'
         /\ \E k \in SyncIns(d) : Told(k)' = Complete(d)'
         /\ \A t \in Serials : t >= base =>
              lookup'[d][t] = IF t <= Complete(d)' THEN 0 ELSE Cardinality(Heard(d, t)')
    <3>1. CASE RowFull(d, s)
      <4>1. Complete(d) = s - 1
        <5>1. PICK k \in SyncIns(d) : Told(k) = Complete(d)
          BY <2>11
        <5>2. CASE k = c
          BY <1>6, <5>1, <5>2
        <5>3. CASE k # c
          <6>1. Told(k)' >= s
            BY <2>5, <2>6, <3>1
          <6>2. Told(k)' = Told(k)
            BY <1>5, <5>3
          <6> QED
            BY <2>1, <2>2, <5>1, <6>1, <6>2
        <5> QED
          BY <5>2, <5>3
      <4>2. ready'[d] = Append(ready[d], s) /\ ready[d] \in Seq(Serials) /\ Len(ready[d]) \in Nat
        BY <1>10, <2>1, <3>1, <1>0 DEF NewData, MakesReady, TypeOK, FigureTypes
      <4>3. /\ Len(ready'[d]) = Len(ready[d]) + 1
            /\ \A i \in 1 .. Len(ready[d]) : ready'[d][i] = ready[d][i]
            /\ ready'[d][Len(ready[d]) + 1] = s
        BY <2>1, <4>2
      <4>4. Complete(d)' = s /\ Issued(d)' = Issued(d) /\ s = Issued(d) + Len(ready[d]) + 1
        <5>1. Issued(d) \in Int /\ Issued(d)' = Issued(d)
          BY <1>0, <1>3, <2>1 DEF FigureTypes
        <5> QED
          BY <2>1, <4>1, <4>2, <4>3, <5>1 DEF Complete
      <4>5. ASSUME NEW i \in 1 .. Len(ready'[d]) PROVE ready'[d][i] = Issued(d)' + i
        <5>1. CASE i \in 1 .. Len(ready[d])
          BY <2>11, <4>3, <4>4, <5>1
        <5>2. CASE i = Len(ready[d]) + 1
          <6>1. Issued(d) \in Int
            BY <1>0, <2>1 DEF FigureTypes
          <6> QED
            BY <4>2, <4>3, <4>4, <5>2, <6>1
        <5>3. i \in 1 .. Len(ready[d]) \/ i = Len(ready[d]) + 1
          BY <4>2, <4>3
        <5> QED
          BY <5>1, <5>2, <5>3
      <4>6. \A k \in SyncIns(d) : Told(k)' >= Complete(d)'
        BY <2>5, <2>6, <3>1, <4>4
      <4>7. \E k \in SyncIns(d) : Told(k)' = Complete(d)'
        BY <1>6, <2>1, <4>4
      <4>8. ASSUME NEW t \in Serials, t >= base
            PROVE  lookup'[d][t] = IF t <= Complete(d)' THEN 0 ELSE Cardinality(Heard(d, t)')
        <5>1. CASE t = s
          BY <2>1, <2>8, <3>1, <4>4, <5>1
        <5>2. CASE t # s
          <6>1. t <= Complete(d)' <=> t <= Complete(d)
            <7>1. t \in Nat
              BY <2>0
            <7> HIDE DEF s
            <7> QED
              BY <2>1, <4>1, <4>4, <5>2, <7>1
          <6> QED
            BY <2>12, <4>8, <5>2, <6>1
        <5> QED
          BY <5>1, <5>2
      <4> QED
        BY <4>5, <4>6, <4>7, <4>8
    <3>2. CASE ~RowFull(d, s)
      <4>1. ready'[d] = ready[d] /\ Complete(d)' = Complete(d) /\ Issued(d)' = Issued(d)
        BY <1>3, <1>10, <2>1, <3>2 DEF NewData, MakesReady, Complete
      <4>2. \A i \in 1 .. Len(ready'[d]) : ready'[d][i] = Issued(d)' + i
        BY <2>11, <4>1
      <4>3. \A k \in SyncIns(d) : Told(k)' >= Complete(d)'
        <5>1. Told(c)' >= Complete(d)
          BY <1>6, <2>1, <2>2
        <5> QED
          BY <1>5, <2>11, <4>1, <5>1
      <4>4. \E k \in SyncIns(d) : Told(k)' = Complete(d)'
        <5>1. PICK k \in SyncIns(d) : Told(k) = Complete(d)
          BY <2>11
        <5>2. CASE k # c
          BY <1>5, <4>1, <5>1, <5>2
        <5>3. CASE k = c
          <6>1. PICK j \in SyncIns(d) : j # c /\ ~(Told(j)' >= s)
            <7>1. PICK j \in SyncIns(d) : j \notin H \cup {c}
              BY <2>1, <2>4, <2>6, <3>2
            <7> QED
              BY <2>5, <7>1
          <6>2. Told(j)' = Told(j) /\ Told(j) \in Int /\ Told(j) >= Complete(d)
            BY <1>0, <1>5, <2>11, <6>1 DEF FigureTypes
          <6> QED
            BY <1>6, <2>1, <2>2, <4>1, <5>1, <5>3, <6>1, <6>2
        <5> QED
          BY <5>2, <5>3
      <4>5. ASSUME NEW t \in Serials, t >= base
            PROVE  lookup'[d][t] = IF t <= Complete(d)' THEN 0 ELSE Cardinality(Heard(d, t)')
        <5>1. CASE t = s
          <6>1. ~(s <= Complete(d)')
            BY <2>1, <2>2, <4>1
          <6>2. Cardinality(Heard(d, t)') = Cardinality(H) + 1
            <7>1. Heard(d, t)' = H \cup {c}
              BY <1>1, <2>10, <5>1
            <7> QED
              BY <2>1, <2>4, <7>1, RowLemma
          <6> QED
            <7>1. lookup'[d][s] = Cardinality(H) + 1
              BY <2>8, <3>2
            <7> QED
              BY <5>1, <6>1, <6>2, <7>1
        <5>2. CASE t # s
          BY <2>12, <4>1, <4>5, <5>2
        <5> QED
          BY <5>1, <5>2
      <4> QED
        BY <4>2, <4>3, <4>4, <4>5
    <3> QED
      BY <3>1, <3>2
  <2>14. ReadyExact'
    BY <1>3, <2>7, <2>13 DEF Bookkeeping, ReadyExact
  <2>15. ScoreExact'
    <3>1. \A x \in Processors \ {d} : \A t : Heard(x, t)' = Heard(x, t)
      BY <2>7 DEF Heard
    <3>2. \A x \in Processors : \A t \in Serials : t >= nextSerial => lookup'[x][t] = 0
      <4>1. \A t \in Serials : t >= nextSerial => t # s
        <5>1. nextSerial \in Nat
          BY <1>0 DEF FigureTypes
        <5> HIDE DEF s
        <5> QED
          BY <1>2, <2>0, <2>1, <5>1
      <4> QED
        BY <2>7, <2>8, <4>1 DEF Bookkeeping, ScoreExact
    <3> QED
      BY <1>1, <2>7, <2>13, <3>1, <3>2 DEF Bookkeeping, ScoreExact
  <2> QED
    BY <1>7, <1>8, <2>14, <2>15 DEF Bookkeeping
<1> QED
  BY <1>9, <1>10

-----------------------------------------------------------------------------
(* One step of the pipeline keeps the bookkeeping. *)
LEMMA BookkeepingStep ==
    ASSUME ErrorsAtReturn, NoWrap, AllSynchronous, TypeOK, Accounted, Bookkeeping, [Next]_vars
    PROVE  Bookkeeping'
<1>1. CASE Start \/ StopTeardown
  BY <1>1, StartStep, StopStep
<1>2. CASE Schedule \/ RunProducers
  BY <1>2, ScheduleStep, ProduceStep
<1>3. CASE \/ ScheduleFailed \/ SkipProducers \/ StopRequest \/ UNCHANGED vars
           \/ \E c \in Connections : GaugeShort(c) \/ GaugeFull(c)
           \/ \E e \in Elements : \/ StopCollect(e) \/ Finish(e)
                                  \/ \E ok \in BOOLEAN : EndProcess(e, ok)
  BY <1>3, QuietSteps
<1>4. ASSUME NEW e \in Elements, BeginProducer(e) \/ BeginProcess(e) \/ BeginNull(e)
      PROVE  Bookkeeping'
  BY <1>4, BeginStep
<1>5. ASSUME NEW e \in Elements, NEW c \in Connections, Take(e, c) PROVE Bookkeeping'
  BY <1>5, TakeStep
<1>6. ASSUME NEW e \in Elements, NEW c \in Connections, PutData(e, c) \/ PostNull(e, c)
      PROVE  Bookkeeping'
  <2>1. PICK null \in BOOLEAN : pc[e] \in {"emit", "post"} /\ Push(e, c, null)
    BY <1>6 DEF PutData, PostNull
  <2> QED
    BY <2>1, PushStep
<1>7. ASSUME NEW e \in Elements, NEW c \in Connections, NewData(e, c) PROVE Bookkeeping'
  BY <1>7, AnnounceStep
<1>8. ASSUME NEW e \in Elements, SetError(e) PROVE Bookkeeping'
  BY <1>8 DEF SetError, ErrorsAtReturn
<1>9. ASSUME NEW e \in Elements, Throw(e) \/ BeginStarved(e) PROVE Bookkeeping'
  BY <1>9, ThrowStep, NeverStarved
<1> QED
  BY <1>1, <1>2, <1>3, <1>4, <1>5, <1>6, <1>7, <1>8, <1>9 DEF Next, MainStep, WorkerStep

(* The bookkeeping of the frames holds in every pipeline: on each synchronous *)
(* connection the frames pushed, announced, made ready, dispatched and taken  *)
(* are consecutive, each scoreboard row counts the pins that have it, and a   *)
(* queue is longer than the lead of its source by exactly the items that runs *)
(* of its consumer have left there.                                           *)
THEOREM BookkeepingAlways ==
    ASSUME ErrorsAtReturn, NoWrap, AllSynchronous PROVE Spec => []Bookkeeping
<1> USE SyncFacts, ConstantFacts, NumberAssumption
<1>1. Init => Bookkeeping
  <2> SUFFICES ASSUME Init PROVE Bookkeeping
    OBVIOUS
  <2> USE DEF Init
  <2>1. FirstSerial \in Nat /\ 1 <= FirstSerial /\ FirstSerial <= LastSerial
    BY DEF NoWrap
  <2>2. \A e \in Elements : Last(e) = FirstSerial - 1 /\ Issued(e) = FirstSerial - 1
    BY DEF Last, Issued
  <2>3. \A c \in Connections : Sent(c) = FirstSerial - 1 /\ Taken(c) = FirstSerial - 1
    BY <2>2 DEF Sent, Taken, Behind
  <2>4. \A c \in Connections : Told(c) = FirstSerial - 1
    BY <2>3 DEF Told
  <2>5. \A e \in Processors : ready[e] = <<>> /\ Complete(e) = FirstSerial - 1
    BY <2>1, <2>2 DEF Complete
  <2>6. Counters /\ WorkerShape
    BY <2>1 DEF Counters, WorkerShape
  <2>7. JobNext /\ QueueExact
    BY <2>1, <2>3 DEF JobNext, QueueExact, Gone
  <2>8. ReadyExact
    BY <2>1, <2>4, <2>5 DEF ReadyExact
  <2>9. ScoreExact
    BY DEF ScoreExact
  <2> QED
    BY <2>6, <2>7, <2>8, <2>9 DEF Bookkeeping
<1>2. TypeOK /\ Accounted /\ Bookkeeping /\ [Next]_vars => Bookkeeping'
  BY BookkeepingStep
<1> QED
  BY <1>1, <1>2, TypeCorrect, AccountedAlways, PTL DEF Spec

(* The scheduler mixes no frames, in any pipeline: an element dispatched for  *)
(* a serial finds an item first on each of its synchronous pins, and it is    *)
(* the one of that serial, less the items its runs have left on the pin.      *)
THEOREM FramesNeverMixed ==
    ASSUME ErrorsAtReturn, NoWrap, AllSynchronous PROVE Spec => []FramesAligned
<1>1. TypeOK /\ Bookkeeping => FramesAligned
  BY HeadsAligned, SyncFacts DEF FramesAligned
<1> QED
  BY <1>1, TypeCorrect, BookkeepingAlways, PTL

(* Where process() takes from every pin in every run and does not throw, the  *)
(* items are of the serial itself: the guarantee that preInput relies on and  *)
(* that "Input corrupted" is the check of.                                    *)
THEOREM OneSerialPerRun ==
    ASSUME ErrorsAtReturn, NoWrap, AllSynchronous, NEW e \in Processors,
           Ins(e) \cap Leaves = {}, <<e, "throw">> \notin Faults
    PROVE  Spec => [](pc[e] = "dispatched" =>
                        \A c \in SyncIns(e) : queue[c] # <<>> /\ Head(queue[c]).serial = job[e])
<1>1. TypeOK /\ Bookkeeping =>
        (pc[e] = "dispatched" =>
           \A c \in SyncIns(e) : queue[c] # <<>> /\ Head(queue[c]).serial = job[e])
  <2> SUFFICES ASSUME TypeOK, Bookkeeping, pc[e] = "dispatched", NEW c \in SyncIns(e)
               PROVE  queue[c] # <<>> /\ Head(queue[c]).serial = job[e]
    OBVIOUS
  <2> USE SyncFacts, ConstantFacts
  <2>1. queue[c] # <<>> /\ Head(queue[c]).serial = job[e] - left[c]
    BY HeadsAligned DEF Aligned
  <2>2. c \in Sync /\ c \in Ins(e) /\ to[c] = e
    OBVIOUS
  <2>3. left[c] \in Nat /\ job[e] \in Nat
    BY Figures DEF FigureTypes
  <2>4. left[c] = 0
    <3>1. left[c] > 0 => c \in Leaves \/ <<to[c], "throw">> \in Faults
      BY <2>2 DEF Bookkeeping, QueueExact
    <3>2. c \notin Leaves
      BY <2>2
    <3> QED
      BY <2>2, <2>3, <3>1, <3>2
  <2> QED
    BY <2>1, <2>3, <2>4
<1> QED
  BY <1>1, TypeCorrect, BookkeepingAlways, PTL

(* The assertion of DataConsumer::newData holds in every pipeline, although   *)
(* the push is announced after the connection has been unlocked.              *)
THEOREM AnnouncedInTimeAlways ==
    ASSUME ErrorsAtReturn, NoWrap, AllSynchronous PROVE Spec => []AnnouncedInTime
<1>1. TypeOK /\ Bookkeeping => AnnouncedInTime
  <2> SUFFICES ASSUME TypeOK, Bookkeeping, NEW e \in Elements, NEW c \in pend[e] \cap Sync
               PROVE  serial[e] > serial[to[c]] \/ serial[e] = 0
    BY DEF AnnouncedInTime
  <2> USE SyncFacts, ConstantFacts
  <2>1. FigureTypes
    BY Figures
  <2>2. Source(c) = e /\ c \in pend[e] /\ serial[e] # 0 /\ base <= serial[e] /\ 1 <= base
    BY DEF Bookkeeping, WorkerShape, Counters, Outs, Source
  <2>3. Told(c) = Sent(c) - 1
    BY <2>2 DEF Told
  <2>4. Last(e) = serial[e] /\ Last(to[c]) < serial[e]
    <3>1. Last(e) = serial[e]
      BY <2>2 DEF Last
    <3>2. /\ {Last(to[c]), Issued(to[c]), Complete(to[c]), Told(c), Sent(c), Last(e)} \subseteq Int
          /\ Last(to[c]) <= Issued(to[c]) /\ Issued(to[c]) <= Complete(to[c])
          /\ Complete(to[c]) <= Told(c) /\ Sent(c) <= Last(e)
      BY <2>2, Chain
    <3> QED
      BY <2>3, <3>1, <3>2
  <2>5. serial[e] \in Nat /\ serial[to[c]] \in Nat
    BY <2>1 DEF FigureTypes
  <2>6. CASE serial[to[c]] = 0
    BY <2>2, <2>5, <2>6
  <2>7. CASE serial[to[c]] # 0
    BY <2>4, <2>5, <2>7 DEF Last
  <2> QED
    BY <2>6, <2>7
<1> QED
  BY <1>1, TypeCorrect, BookkeepingAlways, PTL

(* No element runs a serial twice or out of order, in any pipeline. *)
THEOREM RunsInOrderAlways ==
    ASSUME ErrorsAtReturn, NoWrap, AllSynchronous PROVE Spec => []RunsInOrder
<1>1. TypeOK /\ Bookkeeping => RunsInOrder
  BY SyncFacts, ConstantFacts, Figures
  DEF RunsInOrder, Bookkeeping, JobNext, Counters, Last, FigureTypes
<1> QED
  BY <1>1, TypeCorrect, BookkeepingAlways, PTL

-----------------------------------------------------------------------------
(* The steps of the pipeline as steps of FrameOrder. *)
LEMMA OrderStep ==
    ASSUME ErrorsAtReturn, NoWrap, AllSynchronous, TypeOK, Accounted, Bookkeeping, [Next]_vars
    PROVE  [Order!Next]_Order!vars
<1> USE SyncFacts, ConstantFacts
<1>0. FigureTypes
  BY Figures
<1>1. \A e \in Elements : Order!At(e) = Last(e)
  BY DEF Order!At, Last
<1>2. CASE Start
  BY <1>2 DEF Start, Order!Next, Order!Start
<1>3. CASE RunProducers
  <2>1. running /\ UNCHANGED <<running, base, serial>>
    BY <1>3 DEF RunProducers, Accounted
  <2>2. nextSerial' = nextSerial + 1
    BY <1>0, <1>3, NumberAssumption
    DEF RunProducers, NextSerial, NoWrap, Bookkeeping, Counters, FigureTypes
  <2>3. \A e \in Producers : pc[e] = "idle"
    BY <1>3, <2>1 DEF RunProducers, Accounted
  <2>4. \A e \in Producers : Order!At(e) = nextSerial - 1
    BY <1>1, <2>1, <2>3 DEF Bookkeeping, JobNext, Issued
  <2> QED
    BY <2>1, <2>2, <2>4 DEF Order!Next, Order!Release
<1>4. CASE StopTeardown
  BY <1>4 DEF StopTeardown, Accounted, Order!Next, Order!Stop, Order!Elements, Elements
<1>5. ASSUME NEW e \in Elements, BeginProducer(e) \/ BeginProcess(e) \/ BeginNull(e)
      PROVE  Order!Next
  <2>1. /\ pc[e] = "dispatched" /\ serial' = [serial EXCEPT ![e] = job[e]]
        /\ UNCHANGED <<running, base, nextSerial>>
    BY <1>5 DEF BeginProducer, BeginProcess, BeginNull, pipelineVars
  <2>2. running /\ job[e] = Last(e) + 1 /\ Issued(e) = job[e]
    BY <2>1 DEF Accounted, Bookkeeping, JobNext, Elements, Issued
  <2>3. ASSUME NEW c \in SyncIns(e) PROVE Last(Source(c)) >= Last(e) + 1 /\ job[e] <= nextSerial - 1
    <3>1. c \in Sync /\ to[c] = e
      OBVIOUS
    <3>2. /\ {Issued(e), Complete(e), Told(c), Sent(c), Last(Source(c)), nextSerial} \subseteq Int
          /\ Issued(e) <= Complete(e) /\ Complete(e) <= Told(c) /\ Told(c) <= Sent(c)
          /\ Sent(c) <= Last(Source(c)) /\ Last(Source(c)) <= nextSerial - 1
      BY <3>1, Chain
    <3> QED
      BY <2>2, <3>2
  <2>4. job[e] <= nextSerial - 1
    <3>1. CASE e \in Producers
      BY <1>0, <2>2, <3>1 DEF Bookkeeping, JobNext, FigureTypes
    <3>2. CASE e \in Processors
      BY <2>3, <3>2
    <3> QED
      BY <3>1, <3>2 DEF Elements
  <2>5. ASSUME NEW x \in SyncFeeds(e) PROVE Order!At(x) >= Order!At(e) + 1
    <3>1. PICK c \in SyncIns(e) : x = Source(c)
      BY DEF SyncFeeds, Source
    <3> QED
      BY <1>1, <2>3, <3>1
  <2>6. Order!At(e) + 1 < nextSerial /\ serial' = [serial EXCEPT ![e] = Order!At(e) + 1]
    <3>1. Order!At(e) + 1 = job[e]
      BY <1>1, <2>2
    <3>2. job[e] < nextSerial
      BY <1>0, <2>4 DEF FigureTypes
    <3> QED
      BY <2>1, <3>1, <3>2
  <2>7. Order!Advance(e)
    BY <2>1, <2>2, <2>5, <2>6 DEF Order!Advance
  <2> QED
    BY <2>7 DEF Order!Next, Order!Elements, Elements
<1>6. CASE \/ Schedule \/ ScheduleFailed \/ SkipProducers \/ StopRequest \/ UNCHANGED vars
           \/ \E c \in Connections : GaugeShort(c) \/ GaugeFull(c)
           \/ \E e \in Elements : \/ StopCollect(e) \/ SetError(e) \/ Throw(e) \/ Finish(e)
                                  \/ \E ok \in BOOLEAN : EndProcess(e, ok)
                                  \/ \E c \in Connections : \/ Take(e, c) \/ PutData(e, c)
                                                            \/ PostNull(e, c) \/ NewData(e, c)
  <2>1. UNCHANGED <<running, base, nextSerial, serial>>
    <3> USE DEF elementVars, pipelineVars, mainVars, workerVars
    <3>1. CASE Schedule \/ ScheduleFailed \/ SkipProducers \/ StopRequest \/ UNCHANGED vars
      BY <3>1 DEF Schedule, ScheduleFailed, SkipProducers, StopRequest, vars
    <3>2. CASE \E c \in Connections : GaugeShort(c) \/ GaugeFull(c)
      BY <3>2 DEF GaugeShort, GaugeFull
    <3>3. CASE \E e \in Elements : StopCollect(e) \/ SetError(e) \/ Throw(e) \/ Finish(e)
      BY <3>3 DEF StopCollect, SetError, Throw, Finish
    <3>4. CASE \E e \in Elements : \E ok \in BOOLEAN : EndProcess(e, ok)
      BY <3>4 DEF EndProcess
    <3>5. CASE \E e \in Elements : \E c \in Connections : Take(e, c) \/ NewData(e, c)
      BY <3>5 DEF Take, NewData
    <3>6. CASE \E e \in Elements : \E c \in Connections : PutData(e, c) \/ PostNull(e, c)
      BY <3>6 DEF PutData, PostNull, Push
    <3> QED
      BY <1>6, <3>1, <3>2, <3>3, <3>4, <3>5, <3>6
  <2> QED
    BY <2>1 DEF Order!vars
<1>7. \A e \in Elements : ~BeginStarved(e)
  BY NeverStarved
<1> QED
  BY <1>2, <1>3, <1>4, <1>5, <1>6, <1>7 DEF Next, MainStep, WorkerStep

(* Every pipeline implements FrameOrder: whatever the threads do, each        *)
(* element gets each frame once, in order, and after the elements that feed   *)
(* it.                                                                        *)
THEOREM PipelineImplementsFrameOrder ==
    ASSUME ErrorsAtReturn, NoWrap, AllSynchronous PROVE Spec => ImplementsFrameOrder
<1>1. Init => Order!Init
  BY DEF Init, Order!Init, Order!Elements, Elements
<1>2. TypeOK /\ Accounted /\ Bookkeeping /\ [Next]_vars => [Order!Next]_Order!vars
  BY OrderStep
<1> QED
  BY <1>1, <1>2, TypeCorrect, AccountedAlways, BookkeepingAlways, PTL
  DEF Spec, ImplementsFrameOrder, Order!Spec

-----------------------------------------------------------------------------
(* What a frame more costs: a connection that is farther than another one has *)
(* room for another threshold of frames.                                      *)
LEMMA Farther ==
    ASSUME NEW t \in Nat, NEW a \in Nat, NEW b \in Nat, a < b
    PROVE  t * a + t <= t * b /\ t * a \in Nat /\ t * b \in Nat
<1>1. PICK k \in Nat : b = a + 1 + k
  <2>1. b - a - 1 \in Nat /\ b = a + 1 + (b - a - 1)
    OBVIOUS
  <2> QED
    BY <2>1
<1>2. t * (a + 1 + k) = t * a + t + t * k /\ t * k \in Nat /\ t * a \in Nat
  OBVIOUS
<1> QED
  BY <1>1, <1>2

(* A distance counts thresholds, and a nearer connection feeds a farther one. *)
LEMMA DistanceFacts ==
    ASSUME NEW d \in Distances, NEW c \in Connections
    PROVE  /\ d[c] \in Nat /\ Threshold * d[c] \in Nat /\ Threshold <= Threshold * d[c]
           /\ Source(c) \in Processors =>
                \E b \in SyncIns(Source(c)) : b \in Connections /\ d[b] \in Nat /\ d[b] < d[c]
<1>1. d \in [Connections -> 1 .. Cardinality(Connections)] /\ Cardinality(Connections) \in Nat
  BY GraphAssumption, FS_CardinalityType DEF Distances
<1>2. \A b \in Connections : d[b] \in Nat /\ 0 < d[b]
  BY <1>1
<1>3. Threshold * 0 + Threshold <= Threshold * d[c] /\ Threshold * d[c] \in Nat
  BY <1>2, NumberAssumption, Farther
<1>4. Threshold * 0 + Threshold = Threshold
  BY NumberAssumption
<1>5. Source(c) \in Processors => \E b \in SyncIns(Source(c)) : d[b] < d[c]
  BY DEF Distances, Source
<1> QED
  BY <1>2, <1>3, <1>4, <1>5, ConstantFacts

LEMMA LoadType == ASSUME FigureTypes PROVE \A c \in Connections : Load(c) \in Int
  BY DEF FigureTypes, Load

(* Steps after which a connection is to get no more frames than before.       *)
LEMMA LoadFalls ==
    ASSUME ChainLoad, FigureTypes, FigureTypes', running' => running,
           \A c \in Connections : Load(c)' <= Load(c),
           mpc' = "gauge" => \A c \in Connections \ gauge' : Room(c)'
    PROVE  ChainLoad'
<1>0. \A c \in Connections : Load(c) \in Int
  BY LoadType
<1>1. ASSUME NEW c \in Connections PROVE Load(c)' \in Int
  <2>1. Len(queue[c])' \in Int /\ nextSerial' \in Int /\ Sent(c)' \in Int
    BY DEF FigureTypes
  <2> QED
    BY <2>1 DEF Load
<1>2. ASSUME running', NEW d \in Distances, NEW c \in Connections
      PROVE  Load(c)' <= Threshold * d[c]
  <2>1. Load(c) <= Threshold * d[c]
    BY <1>2 DEF ChainLoad
  <2>2. Threshold * d[c] \in Nat
    BY DistanceFacts
  <2>3. PICK lim \in Nat : lim = Threshold * d[c]
    BY <2>2
  <2> QED
    BY <1>0, <1>1, <2>1, <2>3
<1> QED
  BY <1>2 DEF ChainLoad

(* Steps that move no frame, and the actions that are such steps. *)
LEMMA StillLoad ==
    ASSUME ChainLoad, FigureTypes, FigureTypes',
           UNCHANGED <<queue, serial, todo, base, nextSerial, running>>,
           \A e \in Elements : pc'[e] = "dispatched" => pc[e] = "dispatched",
           mpc' = "gauge" => mpc = "gauge" /\ gauge' = gauge
    PROVE  ChainLoad'
<1> USE ConstantFacts
<1>1. \A c \in Connections : Load(c)' = Load(c)
  BY DEF Load, Sent, Behind, Last, Source
<1>2. \A c \in Connections : Room(c) => Room(c)'
  BY DEF Room, Owes, Source
<1>3. \A c \in Connections : Load(c)' <= Load(c)
  BY <1>1, LoadType
<1>4. mpc' = "gauge" => \A c \in Connections \ gauge' : Room(c)'
  BY <1>2 DEF ChainLoad
<1> QED
  BY <1>3, <1>4, LoadFalls

LEMMA LoadStill ==
    ASSUME ErrorsAtReturn, TypeOK, ChainLoad, FigureTypes, FigureTypes',
           \/ ScheduleFailed \/ SkipProducers \/ StopRequest \/ UNCHANGED vars
           \/ \E c \in Connections : GaugeFull(c)
           \/ \E e \in Elements : \/ StopCollect(e) \/ Throw(e) \/ Finish(e)
                                  \/ \E ok \in BOOLEAN : EndProcess(e, ok)
                                  \/ \E c \in Connections : NewData(e, c)
    PROVE  ChainLoad'
<1> USE DEF elementVars, pipelineVars, mainVars, workerVars
<1>1. CASE \/ ScheduleFailed \/ SkipProducers \/ StopRequest \/ UNCHANGED vars
           \/ \E c \in Connections : GaugeFull(c)
  BY <1>1, StillLoad DEF ScheduleFailed, SkipProducers, StopRequest, GaugeFull, vars
<1>2. ASSUME NEW e \in Elements, StopCollect(e) \/ \E c \in Connections : NewData(e, c)
      PROVE  ChainLoad'
  BY <1>2, StillLoad DEF StopCollect, NewData
<1>3. ASSUME NEW e \in Elements, Throw(e) \/ Finish(e) \/ \E ok \in BOOLEAN : EndProcess(e, ok)
      PROVE  ChainLoad'
  <2>1. \A x \in Elements : pc'[x] = "dispatched" => pc[x] = "dispatched"
    BY <1>3 DEF Throw, Finish, EndProcess, TypeOK
  <2> QED
    BY <1>3, <2>1, StillLoad DEF Throw, Finish, EndProcess
<1> QED
  BY <1>1, <1>2, <1>3

(* start() finds the queues empty and owes nothing. *)
LEMMA LoadStart ==
    ASSUME ErrorsAtReturn, TypeOK, Accounted, Bookkeeping, FigureTypes, FigureTypes', ChainLoad, Start
    PROVE  ChainLoad'
<1> USE ConstantFacts
<1>1. /\ \A e \in Elements : serial'[e] = 0
      /\ \A c \in Connections : queue'[c] = <<>>
      /\ base' = nextSerial /\ nextSerial' = nextSerial /\ nextSerial \in Nat /\ mpc' = "idle"
  BY DEF Start, Accounted, Bookkeeping, WorkerShape, FigureTypes, mainVars
<1>2. \A c \in Connections : Sent(c)' = nextSerial - 1
  BY <1>1 DEF Sent, Behind, Last
<1>3. \A c \in Connections : Load(c)' = 0
  BY <1>1, <1>2 DEF Load
<1>4. ASSUME NEW d \in Distances, NEW c \in Connections PROVE Load(c)' <= Threshold * d[c]
  <2>1. Threshold * d[c] \in Nat
    BY DistanceFacts
  <2> QED
    BY <1>3, <2>1
<1> QED
  BY <1>1, <1>4 DEF ChainLoad

(* schedule() has read no size when it begins ... *)
LEMMA LoadSchedule ==
    ASSUME FigureTypes, FigureTypes', ChainLoad, Schedule
    PROVE  ChainLoad'
<1> USE ConstantFacts
<1>1. UNCHANGED <<queue, serial, todo, base, nextSerial, running>> /\ gauge' = Connections
  BY DEF Schedule
<1>2. \A c \in Connections : Load(c)' = Load(c)
  BY <1>1 DEF Load, Sent, Behind, Last, Source
<1>3. \A c \in Connections : Load(c)' <= Load(c)
  BY <1>2, LoadType
<1> QED
  BY <1>1, <1>3, LoadFalls

(* ... and one that is below the threshold leaves room for one frame. *)
LEMMA LoadGauge ==
    ASSUME FigureTypes, FigureTypes', ChainLoad, NEW k \in Connections, GaugeShort(k)
    PROVE  ChainLoad'
<1> USE ConstantFacts DEF elementVars, pipelineVars, workerVars
<1>1. /\ UNCHANGED <<queue, serial, todo, base, nextSerial, running, pc, mpc>>
      /\ mpc = "gauge" /\ gauge' = gauge \ {k} /\ Len(queue[k]) < Threshold
  BY DEF GaugeShort, Short
<1>2. \A c \in Connections : Load(c)' = Load(c)
  BY <1>1 DEF Load, Sent, Behind, Last, Source
<1>3. \A c \in Connections : Load(c)' <= Load(c)
  BY <1>2, LoadType
<1>4. Room(k)
  BY <1>1, NumberAssumption DEF Room, FigureTypes
<1>5. \A c \in Connections \ gauge' : Room(c)
  BY <1>1, <1>4 DEF ChainLoad
<1>6. \A c \in Connections : Room(c) => Room(c)'
  BY <1>1 DEF Room, Owes, Source
<1> QED
  BY <1>1, <1>3, <1>5, <1>6, LoadFalls

(* A run that begins owes no more than it did when it was dispatched. *)
LEMMA LoadBegin ==
    ASSUME AllSynchronous, TypeOK, Bookkeeping, FigureTypes, FigureTypes', ChainLoad,
           NEW e \in Elements, BeginProducer(e) \/ BeginProcess(e) \/ BeginNull(e)
    PROVE  ChainLoad'
<1> USE ConstantFacts, SyncFacts
<1>1. /\ UNCHANGED <<queue, base, nextSerial, running, mpc, gauge, job>>
      /\ serial' = [serial EXCEPT ![e] = job[e]] /\ pc[e] = "dispatched"
  BY DEF BeginProducer, BeginProcess, BeginNull, pipelineVars, mainVars
<1>2. \A x \in Elements \ {e} : todo'[x] = todo[x] /\ pc'[x] = pc[x] /\ serial'[x] = serial[x]
  BY DEF BeginProducer, BeginProcess, BeginNull, TypeOK
<1>3. e \in Producers \cup SyncProcessors
  BY DEF Elements
<1>4. job[e] = Last(e) + 1 /\ Last(e) \in Int /\ Last(e) >= 0
  <2>1. job[e] = Last(e) + 1
    BY <1>1, <1>3 DEF Bookkeeping, JobNext
  <2>2. serial[e] # 0 => serial[e] >= 1
    BY DEF FigureTypes
  <2>3. base >= 1 /\ base \in Nat
    BY DEF Bookkeeping, Counters, FigureTypes
  <2> QED
    BY <2>1, <2>2, <2>3 DEF Last, FigureTypes
<1>5. serial'[e] = job[e]
  BY <1>1 DEF TypeOK
<1>6. Last(e)' = Last(e) + 1
  BY <1>4, <1>5 DEF Last
<1>7. ASSUME NEW c \in Connections PROVE Sent(c)' >= Sent(c)
  <2>1. CASE Source(c) = e
    <3>1. Sent(c) <= Last(e)
      BY <1>4, <2>1 DEF Sent
    <3>2. Source(c)' = e
      BY <2>1 DEF Source
    <3>3. Last(Source(c))' = Last(e) + 1
      BY <1>6, <3>2, <2>1 DEF Last, Source
    <3>4. Sent(c)' >= Last(e)
      BY <1>4, <3>3 DEF Sent
    <3> QED
      BY <1>4, <3>1, <3>4 DEF FigureTypes
  <2>2. CASE Source(c) # e
    <3>1. Sent(c)' = Sent(c)
      BY <1>1, <1>2, <2>2 DEF Sent, Behind, Last, Source
    <3> QED
      BY <3>1 DEF FigureTypes
  <2> QED
    BY <2>1, <2>2
<1>8. ASSUME NEW c \in Connections PROVE Load(c)' <= Load(c)
  <2>1. /\ Sent(c) \in Int /\ nextSerial \in Nat /\ Len(queue[c]) \in Nat
        /\ nextSerial' = nextSerial /\ queue' = queue
    BY <1>1 DEF FigureTypes
  <2>2. Sent(c)' \in Int
    BY DEF FigureTypes
  <2> QED
    BY <1>7, <2>1, <2>2 DEF Load
<1>9. ASSUME NEW c \in Connections, Room(c) PROVE Room(c)'
  <2>1. CASE Source(c) = e
    <3>1. Len(queue[c]) < Threshold
      BY <1>1, <1>9, <2>1 DEF Room, Owes
    <3> QED
      BY <1>1, <3>1, NumberAssumption, SMTT(30) DEF Room, FigureTypes
  <2>2. CASE Source(c) # e
    BY <1>1, <1>2, <1>9, <2>2 DEF Room, Owes, Source
  <2> QED
    BY <2>1, <2>2
<1>10. mpc' = "gauge" => \A c \in Connections \ gauge' : Room(c)'
  BY <1>1, <1>9 DEF ChainLoad
<1> QED
  BY <1>1, <1>8, <1>10, LoadFalls

(* Taking only shortens a queue. *)
LEMMA LoadTake ==
    ASSUME TypeOK, FigureTypes, FigureTypes', ChainLoad,
           NEW e \in Elements, NEW k \in Connections, Take(e, k)
    PROVE  ChainLoad'
<1> USE ConstantFacts
<1>1. UNCHANGED <<base, nextSerial, running, mpc, gauge, serial, todo>>
  BY DEF Take, pipelineVars, mainVars
<1>2. \A x \in Elements : pc'[x] = "dispatched" => pc[x] = "dispatched"
  BY DEF Take, TypeOK
<1>3. \A c \in Connections : Len(queue'[c]) <= Len(queue[c])
  BY DEF Take, TypeOK
<1>4. \A c \in Connections : Sent(c)' = Sent(c)
  BY <1>1 DEF Sent, Behind, Last, Source
<1>5. ASSUME NEW c \in Connections PROVE Load(c)' <= Load(c)
  <2>1. /\ Sent(c) \in Int /\ nextSerial \in Nat /\ Len(queue[c]) \in Nat /\ nextSerial' = nextSerial
    BY <1>1 DEF FigureTypes
  <2>2. Len(queue'[c]) \in Nat
    BY DEF FigureTypes
  <2> QED
    BY <1>3, <1>4, <2>1, <2>2 DEF Load
<1>6. ASSUME NEW c \in Connections, Room(c) PROVE Room(c)'
  <2>1. Len(queue[c]) \in Nat
    BY DEF FigureTypes
  <2>2. Len(queue'[c]) \in Nat
    BY DEF FigureTypes
  <2>3. Owes(c)' => Owes(c)
    BY <1>1, <1>2 DEF Owes, Source
  <2> QED
    BY <1>3, <1>6, <2>1, <2>2, <2>3, NumberAssumption DEF Room
<1>7. mpc' = "gauge" => \A c \in Connections \ gauge' : Room(c)'
  BY <1>1, <1>6 DEF ChainLoad
<1> QED
  BY <1>1, <1>5, <1>7, LoadFalls

(* A push turns a frame that is owed into one that is queued. *)
LEMMA LoadPush ==
    ASSUME TypeOK, Bookkeeping, FigureTypes, FigureTypes', ChainLoad,
           NEW e \in Elements, NEW k \in Connections, PutData(e, k) \/ PostNull(e, k)
    PROVE  ChainLoad'
<1> USE ConstantFacts
<1>1. /\ UNCHANGED <<base, nextSerial, running, mpc, gauge, serial, pc>>
      /\ k \in todo[e] /\ todo' = [todo EXCEPT ![e] = @ \ {k}]
      /\ pc[e] \in {"emit", "post"}
  BY DEF PutData, PostNull, Push, pipelineVars, mainVars
<1>2. PICK item \in Items : queue' = [queue EXCEPT ![k] = Append(@, item)]
  BY DEF PutData, PostNull, Push, TypeOK, Items
<1>3. \A c \in Connections : queue'[c] = IF c = k THEN Append(queue[c], item) ELSE queue[c]
  BY <1>2 DEF TypeOK
<1>4. Source(k) = e /\ serial[e] # 0
  BY <1>1 DEF Bookkeeping, WorkerShape, Outs, Source
<1>5. \A x \in Elements : todo'[x] = IF x = e THEN todo[x] \ {k} ELSE todo[x]
  BY <1>1 DEF TypeOK
<1>6. \A c \in Connections : Len(queue'[c]) = IF c = k THEN Len(queue[c]) + 1 ELSE Len(queue[c])
  BY <1>2, <1>3 DEF TypeOK
<1>7. Sent(k) = Last(e) - 1
  BY <1>1, <1>4 DEF Sent, Behind
<1>8. Sent(k)' = Last(e)
  BY <1>1, <1>4, <1>5 DEF Sent, Behind, Source, Last
<1>9. \A c \in Connections \ {k} : Sent(c)' = Sent(c)
  BY <1>1, <1>5 DEF Sent, Behind, Source, Last
<1>10. ASSUME NEW c \in Connections PROVE Load(c)' <= Load(c)
  <2>1. /\ Sent(c) \in Int /\ nextSerial \in Nat /\ Len(queue[c]) \in Nat /\ nextSerial' = nextSerial
        /\ Last(e) \in Int
    BY <1>1 DEF FigureTypes
  <2>2. CASE c = k
    BY <1>6, <1>7, <1>8, <2>1, <2>2 DEF Load
  <2>3. CASE c # k
    BY <1>6, <1>9, <2>1, <2>3 DEF Load
  <2> QED
    BY <2>2, <2>3
<1>11. ASSUME NEW c \in Connections, Room(c) PROVE Room(c)'
  <2>1. CASE c = k
    <3>1. Len(queue[k]) < Threshold /\ Len(queue[k]) \in Nat
      BY <1>1, <1>4, <1>11, <2>1 DEF Room, Owes, FigureTypes
    <3>2. ~Owes(k)'
      BY <1>1, <1>4, <1>5 DEF Owes, Source
    <3>3. Len(queue'[k]) <= Threshold
      BY <1>6, <3>1, NumberAssumption
    <3> QED
      BY <2>1, <3>2, <3>3 DEF Room
  <2>2. CASE c # k
    <3>1. Owes(c)' => Owes(c)
      BY <1>1, <1>5, <2>2 DEF Owes, Source
    <3> QED
      BY <1>6, <1>11, <2>2, <3>1 DEF Room
  <2> QED
    BY <2>1, <2>2
<1>12. mpc' = "gauge" => \A c \in Connections \ gauge' : Room(c)'
  BY <1>1, <1>11 DEF ChainLoad
<1> QED
  BY <1>1, <1>10, <1>12, LoadFalls

(* A set of distances has a least one. *)
LEMMA LeastDistance == ASSUME NEW S \in SUBSET Nat, S # {} PROVE \E x \in S : \A y \in S : x <= y
<1>1. PICK x \in S : \A y \in S : ~(<<y, x>> \in OpToRel(<, Nat))
  BY NatLessThanWellFounded, WFMin
<1>2. \A y \in S : ~(y < x)
  BY <1>1 DEF OpToRel
<1> QED
  BY <1>2

(* When the producers are run, every size has been read and there is room for *)
(* a frame more on a connection of a producer ...                             *)
LEMMA RoomAtSource ==
    ASSUME TypeOK, Accounted, Bookkeeping, SourceLoad, FigureTypes, RunProducers,
           NEW c \in Connections, Source(c) \in Producers
    PROVE  Load(c) + 1 <= Threshold
<1> USE ConstantFacts
<1>1. mpc = "gauge" /\ gauge = {} /\ running /\ state[Source(c)] \in Idle
  BY DEF RunProducers, Accounted
<1>2. Len(queue[c]) < Threshold
  BY <1>1 DEF SourceLoad, Source
<1>3. pc[Source(c)] = "idle" /\ Source(c) \notin runQueue
  <2>1. PICK e \in Elements : e = Source(c)
    OBVIOUS
  <2>2. state[e] \in Idle /\ running
    BY <1>1, <2>1
  <2>3. \/ state[e] = "STARTED" /\ pc[e] = "idle" /\ e \notin runQueue
        \/ state[e] = "DISPATCHED" \/ state[e] = "RUNNING" \/ state[e] \in {"DONE", "ERROR"}
    BY <2>2 DEF Accounted
  <2>4. pc[e] = "idle" /\ e \notin runQueue
    BY <2>2, <2>3
  <2> QED
    BY <2>1, <2>4
<1>4. Last(Source(c)) = nextSerial - 1
  BY <1>1, <1>3 DEF Bookkeeping, JobNext, Issued
<1>5. serial[Source(c)] # 0 => todo[Source(c)] = {}
  BY <1>1, <1>3 DEF Bookkeeping, WorkerShape
<1>6. Sent(c) = nextSerial - 1
  BY <1>4, <1>5 DEF Sent, Behind
<1>7. Len(queue[c]) \in Nat /\ nextSerial \in Nat
  BY DEF FigureTypes
<1> QED
  BY <1>2, <1>6, <1>7, NumberAssumption DEF Load

(* ... and on one further down, if there is on one that feeds its source: what *)
(* its source has taken and not sent is at most the frame it works on.         *)
LEMMA RoomFurther ==
    ASSUME AllSynchronous, TypeOK, Accounted, Bookkeeping, ChainLoad, FigureTypes, RunProducers,
           NEW c \in Connections, NEW b \in SyncIns(Source(c))
    PROVE  Load(c) + 1 <= Load(b) + 1 + Threshold
<1> USE ConstantFacts
<1>1. Room(c)
  BY DEF RunProducers, ChainLoad
<1>2. b \in Sync /\ to[b] = Source(c)
  BY SyncFacts
<1>3. Len(queue[b]) = Sent(b) - Gone(b)
  BY <1>2 DEF Bookkeeping, QueueExact
<1>4. Gone(b) <= Last(Source(c))
  <2>1. left[b] \in Nat /\ Last(Source(c)) \in Int /\ Taken(b) \in Int
    BY <1>2, SyncFacts DEF FigureTypes
  <2>2. Taken(b) <= Last(Source(c))
    BY <1>2, <2>1 DEF Taken
  <2> QED
    BY <2>1, <2>2 DEF Gone
<1>5. c \in todo[Source(c)] => Last(Source(c)) - 1 <= Sent(c)
  BY DEF Sent, FigureTypes
<1>6. c \notin todo[Source(c)] => Last(Source(c)) = Sent(c)
  BY DEF Sent, Behind
<1>7. Len(queue[c]) <= Threshold /\ (c \in todo[Source(c)] => Len(queue[c]) < Threshold)
  BY <1>1 DEF Room, Owes
<1>8. /\ nextSerial \in Nat /\ Last(Source(c)) \in Int /\ Sent(c) \in Int /\ Len(queue[c]) \in Nat
  BY DEF FigureTypes
<1>9. Sent(b) \in Int /\ Gone(b) \in Int /\ Len(queue[b]) \in Nat
  BY <1>2, SyncFacts DEF FigureTypes
<1>10. Len(queue[c]) + Last(Source(c)) <= Sent(c) + Threshold
  BY <1>5, <1>6, <1>7, <1>8, NumberAssumption
<1>11. Load(b) = nextSerial - 1 - Gone(b)
  BY <1>3, <1>8, <1>9 DEF Load
<1>12. Load(c) = Len(queue[c]) + (nextSerial - 1 - Sent(c))
  BY DEF Load
<1>13. Threshold \in Nat
  BY NumberAssumption
<1> HIDE DEF Load
<1> QED
  BY <1>4, <1>8, <1>9, <1>10, <1>11, <1>12, <1>13, SMTT(30)

(* So there is room on all of them: the nearest one without would have a      *)
(* nearer one.                                                                *)
LEMMA LoadProduce ==
    ASSUME AllSynchronous, NoWrap, TypeOK, Accounted, Bookkeeping, SourceLoad, ChainLoad,
           FigureTypes, FigureTypes', RunProducers
    PROVE  ChainLoad'
<1> USE ConstantFacts
<1>1. UNCHANGED <<queue, serial, todo, base, running>> /\ mpc' = "idle"
  BY DEF RunProducers
<1>2. nextSerial' = nextSerial + 1 /\ nextSerial \in Nat
  BY NumberAssumption DEF RunProducers, NextSerial, NoWrap, Bookkeeping, Counters, FigureTypes
<1>3. \A c \in Connections : Load(c) \in Int
  BY LoadType
<1>4. ASSUME NEW c \in Connections PROVE Load(c)' = Load(c) + 1
  <2>1. Sent(c)' = Sent(c)
    BY <1>1 DEF Sent, Behind, Last, Source
  <2>2. Sent(c) \in Int /\ Len(queue[c]) \in Nat
    BY DEF FigureTypes
  <2> QED
    BY <1>1, <1>2, <2>1, <2>2 DEF Load
<1>5. ASSUME NEW d \in Distances PROVE \A c \in Connections : Load(c) + 1 <= Threshold * d[c]
  <2> DEFINE Tight == {c \in Connections : ~(Load(c) + 1 <= Threshold * d[c])}
  <2>1. SUFFICES ASSUME Tight # {} PROVE FALSE
    OBVIOUS
  <2>2. \A c \in Connections : d[c] \in Nat
    BY DistanceFacts
  <2>3. PICK x \in {d[c] : c \in Tight} : \A y \in {d[c] : c \in Tight} : x <= y
    <3>1. {d[c] : c \in Tight} \in SUBSET Nat
      BY <2>2
    <3>2. {d[c] : c \in Tight} # {}
      BY <2>1
    <3> QED
      BY <3>1, <3>2, LeastDistance
  <2>4. PICK c \in Tight : \A b \in Tight : d[c] <= d[b]
    BY <2>3
  <2>5. c \in Connections /\ ~(Load(c) + 1 <= Threshold * d[c])
    BY <2>4
  <2>6. /\ d[c] \in Nat /\ Threshold * d[c] \in Nat /\ Threshold <= Threshold * d[c]
        /\ Source(c) \in Processors =>
              \E b \in SyncIns(Source(c)) : b \in Connections /\ d[b] \in Nat /\ d[b] < d[c]
    BY <2>5, DistanceFacts
  <2>7. CASE Source(c) \in Producers
    <3>1. Load(c) + 1 <= Threshold
      BY <2>5, <2>7, RoomAtSource
    <3> QED
      BY <1>3, <2>5, <2>6, <3>1, NumberAssumption
  <2>8. CASE Source(c) \in Processors
    <3>1. PICK b \in SyncIns(Source(c)) : b \in Connections /\ d[b] \in Nat /\ d[b] < d[c]
      BY <2>6, <2>8
    <3>2. b \notin Tight
      BY <2>4, <2>6, <3>1
    <3>3. Load(b) + 1 <= Threshold * d[b]
      BY <3>1, <3>2
    <3>4. Load(c) + 1 <= Load(b) + 1 + Threshold
      BY <2>5, RoomFurther
    <3>5. /\ Threshold * d[b] + Threshold <= Threshold * d[c]
          /\ Threshold * d[b] \in Nat /\ Threshold * d[c] \in Nat
      BY <2>6, <3>1, Farther, NumberAssumption
    <3>6. PICK near \in Nat : near = Threshold * d[b]
      BY <3>5
    <3>7. PICK far \in Nat : far = Threshold * d[c]
      BY <3>5
    <3>8. Load(b) \in Int /\ Load(c) \in Int
      BY <1>3, <2>5, <3>1
    <3> HIDE DEF Tight
    <3>9. Load(b) + 1 <= near /\ near + Threshold <= far
      BY <3>3, <3>5, <3>6, <3>7
    <3>10. Load(c) + 1 <= far
      BY <3>4, <3>8, <3>9, NumberAssumption
    <3> QED
      BY <2>5, <3>7, <3>10
  <2> QED
    BY <2>5, <2>7, <2>8 DEF Elements
<1> QED
  BY <1>1, <1>4, <1>5 DEF ChainLoad

LEMMA ChainLoadStep ==
    ASSUME ErrorsAtReturn, NoWrap, AllSynchronous, TypeOK, TypeOK', Accounted, Bookkeeping,
           SourceLoad, ChainLoad, [Next]_vars
    PROVE  ChainLoad'
<1>1. FigureTypes
  BY Figures
<1>2. FigureTypes'
  BY Figures, PTL
<1>3. CASE StopTeardown
  BY <1>3 DEF StopTeardown, ChainLoad
<1>4. \A e \in Elements : ~SetError(e) /\ ~BeginStarved(e)
  BY NeverStarved DEF SetError, ErrorsAtReturn
<1>5. CASE Start
  BY <1>1, <1>2, <1>5, LoadStart
<1>6. CASE Schedule
  BY <1>1, <1>2, <1>6, LoadSchedule
<1>7. CASE \E c \in Connections : GaugeShort(c)
  BY <1>1, <1>2, <1>7, LoadGauge
<1>8. CASE RunProducers
  BY <1>1, <1>2, <1>8, LoadProduce
<1>9. CASE \E e \in Elements : BeginProducer(e) \/ BeginProcess(e) \/ BeginNull(e)
  BY <1>1, <1>2, <1>9, LoadBegin
<1>10. CASE \E e \in Elements : \E c \in Connections : Take(e, c)
  BY <1>1, <1>2, <1>10, LoadTake
<1>11. CASE \E e \in Elements : \E c \in Connections : PutData(e, c) \/ PostNull(e, c)
  BY <1>1, <1>2, <1>11, LoadPush
<1>12. CASE \/ ScheduleFailed \/ SkipProducers \/ StopRequest \/ UNCHANGED vars
            \/ \E c \in Connections : GaugeFull(c)
            \/ \E e \in Elements : \/ StopCollect(e) \/ Throw(e) \/ Finish(e)
                                   \/ \E ok \in BOOLEAN : EndProcess(e, ok)
                                   \/ \E c \in Connections : NewData(e, c)
  BY <1>1, <1>2, <1>12, LoadStill
<1> QED
  BY <1>3, <1>4, <1>5, <1>6, <1>7, <1>8, <1>9, <1>10, <1>11, <1>12 DEF Next, MainStep, WorkerStep

(* Back-pressure reaches the whole pipeline, in every graph and for every way *)
(* to count the steps from the producers.                                     *)
THEOREM ChainsBounded ==
    ASSUME ErrorsAtReturn, NoWrap, AllSynchronous PROVE Spec => []ChainBound
<1>1. Init => ChainLoad
  BY DEF Init, ChainLoad
<1>2. TypeOK /\ TypeOK' /\ Accounted /\ Bookkeeping /\ SourceLoad /\ ChainLoad /\ [Next]_vars
        => ChainLoad'
  BY ChainLoadStep
<1>3. ASSUME TypeOK, Accounted, Bookkeeping, ChainLoad PROVE ChainBound
  <2> SUFFICES ASSUME NEW d \in Distances, NEW c \in Connections
               PROVE  Len(queue[c]) <= Threshold * d[c]
    BY DEF ChainBound
  <2> USE ConstantFacts
  <2>1. FigureTypes
    BY <1>3, Figures
  <2>2. Threshold * d[c] \in Nat
    BY DistanceFacts
  <2>3. PICK far \in Nat : far = Threshold * d[c]
    BY <2>2
  <2>4. CASE ~running
    BY <1>3, <2>3, <2>4 DEF Accounted
  <2>5. CASE running
    <3>1. Load(c) <= far
      BY <1>3, <2>3, <2>5 DEF ChainLoad
    <3>2. Last(Source(c)) <= nextSerial - 1
      BY <1>3, <2>1 DEF Bookkeeping, Counters, WorkerShape, Last, FigureTypes
    <3>3. Sent(c) <= Last(Source(c)) /\ Last(Source(c)) \in Int /\ Sent(c) \in Int
      BY <2>1 DEF Sent, FigureTypes
    <3>4. Len(queue[c]) \in Nat /\ nextSerial \in Nat
      BY <2>1 DEF FigureTypes
    <3>5. Len(queue[c]) <= Load(c) /\ Load(c) \in Int
      BY <3>2, <3>3, <3>4 DEF Load
    <3> QED
      BY <2>3, <3>1, <3>4, <3>5
  <2> QED
    BY <2>4, <2>5
<1>4. Spec => []SourceLoad
  BY SourceLoadAlways
<1> QED
  BY <1>1, <1>2, <1>3, <1>4, TypeCorrect, AccountedAlways, BookkeepingAlways, PTL DEF Spec
=============================================================================
