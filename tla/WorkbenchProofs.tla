--------------------------- MODULE WorkbenchProofs ---------------------------
(* Proofs about Workbench: the editor only does what a pipeline allows, its   *)
(* scene shows the pipeline, it leaves a running one alone and asks before it *)
(* gives up changes.                                                          *)
EXTENDS Workbench, GraphProofs

(* The editor. *)

(* What SceneInSync needs to be inductive: the scene shows an open pipeline   *)
(* at every moment, also while deleteSelected() is at work, and nothing while *)
(* loadFile() is; neither of the two meets a running pipeline.                *)
EditorInv ==
    /\ WBTypeOK
    /\ open => widgets = Elements /\ lines = Connections
    /\ ~open => widgets = {} /\ lines = {}
    /\ pending # {} => open /\ ~running
    /\ opening # "" => ~open
    /\ loading.active => opening # ""

(* A line of a selection is stale when it went with its element: the selection *)
(* held both (doomed), and never otherwise.                                    *)
CrashInv ==
    /\ \A i \in pending : i = <<i[1], i[2]>>
    /\ LinesIn(pending) \subseteq Connections \/ doomed
    /\ doomed \/ \A e \in ElementsIn(pending) : ConnectionsOf(e) \cap LinesIn(pending) = {}
    /\ \A e \in dangling : TypeOf(e) \in Dynamic
    /\ window = "crashed" => dangling # {} \/ doomed

(* What ChangesAsked needs. *)
AskInv == (window = "open" /\ open) => docChanged \/ ignored \/ Graph(children, connections) = snapshot

(* Selections. *)
LEMMA ItemsWithout ==
    ASSUME NEW W, NEW L, NEW E, NEW C, NEW sel \in SUBSET Items(W, L)
    PROVE  sel \ Items(E, C) \subseteq Items(W \ E, L \ C)
  BY DEF Items

LEMMA ItemsGrow ==
    ASSUME NEW W, NEW L, NEW V \in SUBSET W, NEW M \in SUBSET L, NEW sel \in SUBSET Items(V, M)
    PROVE  sel \in SUBSET Items(W, L)
  BY DEF Items

(* The inspector shows an element of the pipeline. *)
LEMMA TargetExists ==
    ASSUME EditorInv, open
    PROVE  Target \subseteq Elements
<1>1. selected \subseteq Items(Elements, Connections)
  BY DEF EditorInv, WBTypeOK
<1>2. ASSUME NEW i \in selected, i[1] = "element" PROVE i[2] \in Elements
  <2>1. i \in Items(Elements, Connections)
    BY <1>1
  <2>2. i \in {"element"} \X Elements \/ i \in {"line"} \X Connections
    BY <2>1 DEF Items
  <2>3. "line" # "element"
    OBVIOUS
  <2> QED
    BY <1>2, <2>2, <2>3
<1>3. ElementsIn(selected) \subseteq Elements
  BY <1>2 DEF ElementsIn
<1> QED
  BY <1>3 DEF Target

(* What the pipeline's operations do to the sets of elements and connections. *)
LEMMA OperationFacts ==
    /\ \A t : AddElement(t) => Elements \subseteq Elements' /\ Connections' = Connections /\ loading' = loading
    /\ \A x : Connect(x) => Elements' = Elements /\ Connections \subseteq Connections' /\ loading' = loading
    /\ \A e : RemoveElement(e) => /\ Elements' = Elements \ {e} /\ loading' = loading
                                  /\ Connections' = Connections \ ConnectionsOf(e)
    /\ \A c : Disconnect(c) => Elements' = Elements /\ Connections' = Connections \ {c} /\ loading' = loading
    /\ \A e, v : SetValue(e, v) => Elements' = Elements /\ Connections' = Connections /\ loading' = loading
    /\ Clear \/ NewPipeline => Elements' = {} /\ Connections' = {} /\ loading' = loading /\ ~loading.active
    /\ \A f : Save(f) \/ SaveFails(f) => /\ children' = children /\ connections' = connections
                                         /\ loading' = loading
<1>1. ASSUME NEW t, AddElement(t)
      PROVE  Elements \subseteq Elements' /\ Connections' = Connections /\ loading' = loading
  BY <1>1 DEF AddElement, AddUnder, Insert, Elements, Connections
<1>2. ASSUME NEW x, Connect(x)
      PROVE  Elements' = Elements /\ Connections \subseteq Connections' /\ loading' = loading
  BY <1>2 DEF Connect, ConnectPins, Insert, Elements, Connections
<1>3. ASSUME NEW e, RemoveElement(e)
      PROVE  Elements' = Elements \ {e} /\ Connections' = Connections \ ConnectionsOf(e) /\ loading' = loading
  <2>1. /\ connections' = [c \in Connections \ ConnectionsOf(e) |-> connections[c]]
        /\ children' = [d \in Elements \ {e} |-> children[d]] /\ loading' = loading
    BY <1>3 DEF RemoveElement, Restrict
  <2>2. DOMAIN children' = Elements \ {e} /\ DOMAIN connections' = Connections \ ConnectionsOf(e)
    BY <2>1
  <2> QED
    BY <2>1, <2>2 DEF Elements, Connections
<1>4. ASSUME NEW c, Disconnect(c)
      PROVE  Elements' = Elements /\ Connections' = Connections \ {c} /\ loading' = loading
  <2>1. /\ connections' = [d \in Connections \ {c} |-> connections[d]]
        /\ children' = children /\ loading' = loading
    BY <1>4 DEF Disconnect, Restrict
  <2> QED
    BY <2>1 DEF Elements, Connections
<1>5. ASSUME NEW e, NEW v, SetValue(e, v)
      PROVE  Elements' = Elements /\ Connections' = Connections /\ loading' = loading
  BY <1>5 DEF SetValue, Elements, Connections
<1>6. ASSUME Clear \/ NewPipeline
      PROVE  Elements' = {} /\ Connections' = {} /\ loading' = loading /\ ~loading.active
  <2>1. children' = Nothing /\ connections' = Nothing /\ loading' = loading /\ ~loading.active
    BY <1>6 DEF Clear, NewPipeline, Editing
  <2> QED
    BY <2>1, NothingFacts DEF Elements, Connections
<1>7. ASSUME NEW f, Save(f) \/ SaveFails(f)
      PROVE  children' = children /\ connections' = connections /\ loading' = loading
  BY <1>7 DEF Save, SaveFails, graphVars
<1> QED
  BY <1>1, <1>2, <1>3, <1>4, <1>5, <1>6, <1>7

(* What the editor does to the pipeline, the pipeline allows. *)
LEMMA EditorStepIsPipelineStep ==
    EditorInv /\ [WBNext]_vars => [Next]_pipelineVars
<1> SUFFICES ASSUME EditorInv, [WBNext]_vars PROVE Next \/ UNCHANGED pipelineVars
  OBVIOUS
<1>1. ASSUME NEW t \in Types, Drop(t) PROVE Next
  BY <1>1 DEF Drop, Next, Edit
<1>2. ASSUME NEW x \in Lines, Draw(x) PROVE Next
  BY <1>2 DEF Draw, Next, Edit
<1>3. ASSUME NEW v \in UserValues, EditProperty(v) PROVE Next
  <2>1. PICK e \in Target : SetValue(e, v)
    BY <1>3 DEF EditProperty
  <2>2. e \in Elements
    BY <1>3, TargetExists DEF EditProperty
  <2> QED
    BY <2>1, <2>2 DEF Next, Edit
<1>4. ASSUME NEW e \in Elements, DeleteElement(e) PROVE Next
  BY <1>4 DEF DeleteElement, Next, Edit
<1>5. ASSUME NEW c, DeleteLine(c) PROVE Next
  BY <1>5 DEF DeleteLine, Next, Edit
<1>6. CASE ActionSave \/ ActionSaveAs
  BY <1>6 DEF ActionSave, ActionSaveAs, Savable, SaveDocument, Next
<1>7. ASSUME NewPipeline \/ Clear PROVE Next
  BY <1>7 DEF Next, Edit
<1>8. CASE BeginLoad
  <2>1. opening \in FileNames
    BY <1>8 DEF BeginLoad, EditorInv, WBTypeOK
  <2> QED
    BY <1>8, <2>1 DEF BeginLoad, Next
<1>9. CASE LoadStep
  BY <1>9 DEF LoadStep, Next
<1>10. ASSUME NEW f, OpenDocument(f) PROVE Next
  BY <1>7, <1>10 DEF OpenDocument
<1>11. CASE CloseDocument \/ NewDocument
  BY <1>7, <1>11 DEF CloseDocument, NewDocument
<1>12. CASE CloseWindow
  BY <1>7, <1>12 DEF CloseWindow
<1>13. ASSUME NEW q, Select(q) \/ Move(q) \/ DeleteStaleLine(q) PROVE UNCHANGED pipelineVars
  BY <1>13 DEF Select, Move, DeleteStaleLine
<1>14. CASE BeginDelete \/ Start \/ Stop \/ Opened \/ Exit \/ FatalError
  BY <1>14 DEF BeginDelete, Start, Stop, Opened, Exit, FatalError
<1>15. CASE UNCHANGED vars
  BY <1>15 DEF vars
<1> QED
  BY <1>1, <1>2, <1>3, <1>4, <1>5, <1>6, <1>8, <1>9, <1>10, <1>11, <1>12, <1>13, <1>14, <1>15 DEF WBNext

(* Steps after which an open pipeline is still the one the scene shows. *)
LEMMA EditorStep == GraphSound /\ EditorInv /\ [WBNext]_vars => EditorInv'
<1> SUFFICES ASSUME GraphSound, EditorInv, [WBNext]_vars PROVE EditorInv'
  OBVIOUS
<1> USE DEF Idle, deleteVars, documentVars, DocumentChanged, Fresh, Deleted
<1>1. ASSUME NEW t \in Types, Drop(t) PROVE EditorInv'
  <2>1. /\ Elements \subseteq Elements' /\ Connections' = Connections /\ loading' = loading
        /\ widgets' = widgets \cup Elements' /\ lines' = lines \cup Connections'
        /\ UNCHANGED <<selected, dangling>> /\ open /\ docChanged' = TRUE
        /\ UNCHANGED <<window, open, running, opening, pending, doomed, fileName>> /\ ignored' = FALSE
    BY <1>1, OperationFacts DEF Drop, SceneAdds, DocumentChanged, Elements, Connections
  <2>2. widgets' = Elements' /\ lines' = Connections' /\ widgets \subseteq widgets' /\ lines \subseteq lines'
    BY <2>1 DEF EditorInv
  <2>3. selected' \subseteq Items(widgets', lines')
    BY <2>1, <2>2, ItemsGrow, ZenonT(30) DEF EditorInv, WBTypeOK
  <2> QED
    BY <2>1, <2>2, <2>3 DEF EditorInv, WBTypeOK
<1>2. ASSUME NEW x \in Lines, Draw(x) PROVE EditorInv'
  <2>1. /\ Elements' = Elements /\ Connections \subseteq Connections' /\ loading' = loading
        /\ widgets' = widgets \cup Elements' /\ lines' = lines \cup Connections'
        /\ UNCHANGED <<selected, dangling>> /\ open /\ docChanged' = TRUE
        /\ UNCHANGED <<window, open, running, opening, pending, doomed, fileName>> /\ ignored' = FALSE
    BY <1>2, OperationFacts DEF Draw, MayDraw, SceneAdds, DocumentChanged, Elements, Connections
  <2>2. widgets' = Elements' /\ lines' = Connections' /\ widgets \subseteq widgets' /\ lines \subseteq lines'
    BY <2>1 DEF EditorInv
  <2>3. selected' \subseteq Items(widgets', lines')
    BY <2>1, <2>2, ItemsGrow, ZenonT(30) DEF EditorInv, WBTypeOK
  <2> QED
    BY <2>1, <2>2, <2>3 DEF EditorInv, WBTypeOK
<1>3. ASSUME NEW q \in Selections, Select(q) PROVE EditorInv'
  BY <1>3 DEF Select, Selections, EditorInv, WBTypeOK, pipelineVars, windowVars, Elements, Connections
<1>4. ASSUME NEW v \in UserValues, EditProperty(v) PROVE EditorInv'
  <2>1. Elements' = Elements /\ Connections' = Connections /\ loading' = loading
    BY <1>4, OperationFacts DEF EditProperty
  <2> QED
    BY <1>4, <2>1 DEF EditProperty, EditorInv, WBTypeOK, windowVars, sceneVars
<1>5. ASSUME NEW e, Move(e) PROVE EditorInv'
  BY <1>5 DEF Move, DocumentChanged, EditorInv, WBTypeOK, pipelineVars, sceneVars, Elements, Connections
<1>6. CASE BeginDelete
  BY <1>6 DEF BeginDelete, EditorInv, WBTypeOK, pipelineVars, sceneVars, Elements, Connections
<1>7. ASSUME NEW e \in Elements, DeleteElement(e) PROVE EditorInv'
  <2> DEFINE C == ConnectionsOf(e)
             D == {d \in Elements : TypeOf(d) \in Dynamic /\ LostPins(C, d) # {}}
  <2>1. pending # {} /\ open /\ ~running
    BY <1>7 DEF DeleteElement, EditorInv
  <2>2. /\ Elements' = Elements \ {e} /\ Connections' = Connections \ C /\ loading' = loading
        /\ widgets' = widgets \ {e} /\ lines' = lines \ C
        /\ selected' = selected \ Items({e}, C) /\ dangling' = (dangling \cup D) \ {e}
        /\ docChanged' = TRUE /\ ignored' = FALSE /\ doomed' \in BOOLEAN
        /\ UNCHANGED <<window, open, running, opening, fileName>>
    BY <1>7, OperationFacts DEF DeleteElement, SceneRemoves, DocumentChanged
  <2>3. D \subseteq Elements
    OBVIOUS
  <2> HIDE DEF C, D
  <2>4. selected' \subseteq Items(widgets', lines')
    BY <2>2, ItemsWithout DEF EditorInv, WBTypeOK
  <2>5. dangling' \subseteq widgets'
    BY <2>1, <2>2, <2>3 DEF EditorInv, WBTypeOK
  <2> QED
    BY <2>1, <2>2, <2>4, <2>5 DEF EditorInv, WBTypeOK
<1>8. ASSUME NEW c, DeleteLine(c) PROVE EditorInv'
  <2>1. pending # {} /\ open /\ ~running
    BY <1>8 DEF DeleteLine, EditorInv
  <2>2. /\ Elements' = Elements /\ Connections' = Connections \ {c} /\ loading' = loading
        /\ widgets' = widgets /\ lines' = lines \ {c}
        /\ selected' = selected \ {<<"line", c>>} /\ dangling' = dangling
        /\ docChanged' = TRUE /\ ignored' = FALSE /\ doomed' \in BOOLEAN
        /\ UNCHANGED <<window, open, running, opening, fileName>>
    BY <1>8, OperationFacts DEF DeleteLine, DocumentChanged
  <2>3. Items({}, {c}) = {<<"line", c>>}
    BY DEF Items
  <2>4. selected' \subseteq Items(widgets \ {}, lines \ {c})
    BY <2>2, <2>3, ItemsWithout DEF EditorInv, WBTypeOK
  <2>5. widgets \ {} = widgets'
    BY <2>2
  <2> QED
    BY <2>1, <2>2, <2>4, <2>5 DEF EditorInv, WBTypeOK
<1>9. ASSUME NEW c, DeleteStaleLine(c) PROVE EditorInv'
  BY <1>9 DEF DeleteStaleLine, EditorInv, WBTypeOK, pipelineVars, sceneVars, Elements, Connections
<1>10. CASE Start \/ Stop \/ Exit \/ FatalError
  <2>1. /\ UNCHANGED <<open, opening, deleteVars, documentVars, widgets, lines, selected, dangling, loading>>
        /\ pending = {} /\ Elements' = Elements /\ Connections' = Connections
    BY <1>10 DEF Start, Stop, Exit, FatalError, pipelineVars, sceneVars, Elements, Connections
  <2>2. window' \in {"open", "exited"} /\ running' \in BOOLEAN /\ (running' => open)
    <3>1. window \in {"open", "exited", "crashed"} /\ running \in BOOLEAN /\ (running => open) /\ window = "open"
      BY <1>10 DEF Start, Stop, Exit, FatalError, EditorInv, WBTypeOK
    <3>2. CASE Start
      BY <3>1, <3>2 DEF Start
    <3>3. CASE Stop \/ FatalError
      BY <3>1, <3>3 DEF Stop, FatalError
    <3>4. CASE Exit
      <4>1. window' = "exited" /\ running' = running
        BY <3>4 DEF Exit
      <4> QED
        BY <3>1, <4>1
    <3> QED
      BY <1>10, <3>2, <3>3, <3>4
  <2> QED
    BY <2>1, <2>2 DEF EditorInv, WBTypeOK
<1>11. CASE ActionSave \/ ActionSaveAs
  <2>1. PICK f \in SaveNames : SaveDocument(f)
    BY <1>11 DEF ActionSave, ActionSaveAs
  <2>2. f \in FileNames
    BY TypesAssumption
  <2>3. Elements' = Elements /\ Connections' = Connections /\ loading' = loading
    BY <2>1, OperationFacts DEF SaveDocument, Elements, Connections
  <2> QED
    BY <2>1, <2>2, <2>3 DEF SaveDocument, EditorInv, WBTypeOK, sceneVars
<1>12. Items({}, {}) = {}
  BY DEF Items
<1>13. ASSUME IF open THEN ClosePipeline ELSE UNCHANGED <<sceneVars, running, window, deleteVars>>
       PROVE  /\ widgets' = {} /\ lines' = {} /\ selected' = {} /\ dangling' = {} /\ running' = FALSE
              /\ UNCHANGED <<window, pending, doomed>>
  <2>1. CASE open
    BY <1>13, <2>1 DEF ClosePipeline, SceneReset
  <2>2. CASE ~open
    BY <1>12, <1>13, <2>2 DEF EditorInv, WBTypeOK, sceneVars
  <2> QED
    BY <2>1, <2>2
<1>14. CASE CloseDocument
  <2>1. /\ widgets' = {} /\ lines' = {} /\ selected' = {} /\ dangling' = {} /\ running' = FALSE
        /\ UNCHANGED <<window, pending, doomed, opening, fileName>> /\ ignored' = FALSE
        /\ open' = FALSE /\ docChanged' \in BOOLEAN
        /\ pending = {} /\ ~loading.active /\ loading' = loading
    BY <1>14, OperationFacts DEF CloseDocument, ClosePipeline, SceneReset
  <2> QED
    BY <2>1 DEF EditorInv, WBTypeOK
<1>15. CASE NewDocument
  <2>1. /\ widgets' = {} /\ lines' = {} /\ selected' = {} /\ dangling' = {} /\ running' = FALSE
        /\ UNCHANGED <<window, pending, doomed, opening>> /\ ignored' = FALSE
         /\ fileName' = "" /\ open' = TRUE /\ docChanged' = FALSE
        /\ pending = {} /\ opening = "" /\ ~loading.active /\ loading' = loading
        /\ Elements' = {} /\ Connections' = {}
    BY <1>13, <1>15, OperationFacts DEF NewDocument
  <2> QED
    BY <2>1 DEF EditorInv, WBTypeOK
<1>16. ASSUME NEW f \in FileNames, OpenDocument(f) PROVE EditorInv'
  <2>1. /\ widgets' = {} /\ lines' = {} /\ selected' = {} /\ dangling' = {} /\ running' = FALSE
        /\ UNCHANGED <<window, pending, doomed, fileName>> /\ ignored' = FALSE
        /\ open' = FALSE /\ docChanged' \in BOOLEAN
        /\ opening' = f /\ pending = {} /\ ~loading.active /\ loading' = loading
    BY <1>13, <1>16, OperationFacts DEF OpenDocument, EditorInv, WBTypeOK
  <2> QED
    BY <2>1 DEF EditorInv, WBTypeOK
<1>17. CASE BeginLoad \/ LoadStep
  <2>1. opening # "" /\ UNCHANGED <<windowVars, sceneVars>>
    BY <1>17 DEF BeginLoad, LoadStep
  <2> QED
    BY <2>1 DEF EditorInv, WBTypeOK, windowVars, sceneVars
<1>18. CASE Opened
  <2>1. filename \in FileNames \cup {""}
    BY SoundParts DEF FileTypes
  <2>2. /\ ~open /\ ~running /\ pending = {} /\ widgets = {} /\ lines = {}
        /\ selected = {} /\ dangling = {}
    BY <1>12, <1>18 DEF Opened, EditorInv, WBTypeOK
  <2> QED
    BY <1>18, <2>1, <2>2 DEF Opened, EditorInv, WBTypeOK, pipelineVars, Elements, Connections
<1>19. CASE CloseWindow
  <2>1. window' = "exited" /\ running' = FALSE /\ pending = {} /\ UNCHANGED <<open, opening, pending, doomed, fileName, ignored>>
    BY <1>19 DEF CloseWindow
  <2>2. CASE open
    <3> DEFINE D == {d \in Elements : TypeOf(d) \in Dynamic /\ LostPins(Connections, d) # {}}
    <3>1. /\ Elements' = {} /\ Connections' = {} /\ loading' = loading
          /\ widgets' = widgets \ Elements /\ lines' = lines \ Connections
          /\ selected' = selected \ Items(Elements, Connections)
          /\ dangling' = (dangling \cup D) \ Elements /\ docChanged' \in BOOLEAN
      BY <1>19, <2>2, OperationFacts DEF CloseWindow, SceneRemoves, EditorInv, WBTypeOK
    <3>2. D \subseteq Elements
      OBVIOUS
    <3> HIDE DEF D
    <3>3. widgets = Elements /\ lines = Connections /\ dangling \subseteq Elements
          /\ selected \subseteq Items(Elements, Connections)
      BY <2>2 DEF EditorInv, WBTypeOK
    <3>4. widgets' = {} /\ lines' = {} /\ selected' = {} /\ dangling' = {}
      BY <3>1, <3>2, <3>3
    <3> QED
      BY <2>1, <2>2, <3>1, <3>4 DEF EditorInv, WBTypeOK
  <2>3. CASE ~open
    <3>1. UNCHANGED <<docChanged, loading, widgets, lines, selected, dangling>>
      BY <1>19, <2>3 DEF CloseWindow, pipelineVars, sceneVars
    <3> QED
      BY <2>1, <2>3, <3>1 DEF EditorInv, WBTypeOK
  <2> QED
    BY <2>2, <2>3
<1>20. CASE UNCHANGED vars
  BY <1>20 DEF vars, windowVars, sceneVars, EditorInv, WBTypeOK, pipelineVars, Elements, Connections
<1> QED
  BY <1>1, <1>2, <1>3, <1>4, <1>5, <1>6, <1>7, <1>8, <1>9, <1>10, <1>11, <1>14, <1>15, <1>16, <1>17,
     <1>18, <1>19, <1>20 DEF WBNext

LEMMA EditorInit == WBInit => GraphSound /\ EditorInv
<1> SUFFICES ASSUME WBInit PROVE GraphSound /\ EditorInv
  OBVIOUS
<1>1. GraphSound
  BY InitIsSound DEF WBInit
<1>2. ~loading.active
  BY DEF WBInit, Init, NotLoading
<1>3. EditorInv
  BY <1>2 DEF WBInit, EditorInv, WBTypeOK
<1> QED
  BY <1>1, <1>3

LEMMA EditorAlways == WBSpec => [](GraphSound /\ EditorInv)
<1>1. GraphSound /\ EditorInv /\ [WBNext]_vars => (GraphSound /\ EditorInv)'
  BY EditorStepIsPipelineStep, StepKeepsSound, EditorStep
<1> QED
  BY <1>1, EditorInit, PTL DEF WBSpec

(* MainWindow, the scene and the inspector only do to a pipeline what it     *)
(* allows: every event of the editor is one operation of Pipeline or         *)
(* PipelineLoader on pins and elements that exist, or leaves the pipeline    *)
(* alone.  What holds of a pipeline therefore holds in the editor.           *)
THEOREM EditorImplementsPipeline == WBSpec => Spec
<1>1. WBInit => Init
  BY DEF WBInit
<1> QED
  BY <1>1, EditorAlways, EditorStepIsPipelineStep, PTL DEF WBSpec, Spec

(* A pipeline in the editor is sound, saved as it says and loads again as it *)
(* was saved, whatever the user does (MainWindow, PipelineScene).            *)
THEOREM EditorKeepsPipelineSound == WBSpec => []GraphSound /\ []ElementsSaved /\ []RoundTrip
BY EditorImplementsPipeline, GraphAlwaysSound, ElementsAlwaysSaved, SavedPipelinesRoundTrip, PTL

(* An element keeps its type as long as it exists. *)
TypesStay == \A d \in Elements \cap Elements' : TypeOf(d)' = TypeOf(d)

LEMMA OperationsKeepTypes ==
    ASSUME GraphSound
    PROVE  /\ \A t : AddElement(t) => TypesStay
           /\ \A x : Connect(x) => TypesStay
           /\ \A e : RemoveElement(e) => TypesStay
           /\ \A c : Disconnect(c) => TypesStay
           /\ \A e, v : SetValue(e, v) => TypesStay
<1>1. GraphTypes
  BY SoundParts
<1>2. ASSUME NEW t, AddElement(t) PROVE TypesStay
  <2>1. NewId(Elements) \notin Elements
    BY <1>1, NewIdIsNew DEF GraphTypes
  <2>2. PICK r : children' = Insert(children, NewId(Elements), r)
    BY <1>2 DEF AddElement, AddUnder
  <2>3. \A d \in Elements : children'[d] = children[d]
    BY <2>1, <2>2 DEF Insert, Elements
  <2> QED
    BY <2>3 DEF TypesStay, TypeOf
<1>3. ASSUME NEW x, Connect(x) \/ Disconnect(x) PROVE TypesStay
  BY <1>3 DEF Connect, Disconnect, TypesStay, TypeOf
<1>4. ASSUME NEW e, RemoveElement(e) PROVE TypesStay
  <2>1. children' = [d \in Elements \ {e} |-> children[d]]
    BY <1>4 DEF RemoveElement, Restrict
  <2> QED
    BY <2>1 DEF TypesStay, TypeOf, Elements
<1>5. ASSUME NEW e, NEW v, SetValue(e, v) PROVE TypesStay
  <2>1. children' = [children EXCEPT ![e].value = v]
    BY <1>5 DEF SetValue
  <2>2. children \in [Elements -> ElementRecords]
    BY <1>1 DEF GraphTypes
  <2> QED
    BY <2>1, <2>2 DEF TypesStay, TypeOf, ElementRecords, Elements
<1> QED
  BY <1>2, <1>3, <1>4, <1>5

(* A pipeline that is not deleting a selection, and whose dangling elements   *)
(* are still there.                                                          *)
LEMMA CrashKept ==
    ASSUME CrashInv, pending' = {}, doomed' = doomed, window' # "crashed",
           \A d \in dangling' : TypeOf(d)' \in Dynamic
    PROVE  CrashInv'
<1>1. LinesIn({}) = {} /\ ElementsIn({}) = {}
  BY DEF LinesIn, ElementsIn
<1> QED
  BY <1>1 DEF CrashInv

(* Selections that are being deleted hold fewer and fewer items. *)
LEMMA ItemsLeft ==
    ASSUME NEW P, NEW Q \in SUBSET P
    PROVE  LinesIn(Q) \subseteq LinesIn(P) /\ ElementsIn(Q) \subseteq ElementsIn(P)
  BY DEF LinesIn, ElementsIn

LEMMA CrashStep == GraphSound /\ EditorInv /\ CrashInv /\ [WBNext]_vars => CrashInv'
<1> SUFFICES ASSUME GraphSound, EditorInv, CrashInv, [WBNext]_vars PROVE CrashInv'
  OBVIOUS
<1>1. dangling \subseteq widgets /\ (open => widgets = Elements /\ lines = Connections)
  BY DEF EditorInv, WBTypeOK
<1>2. \A d \in dangling : TypeOf(d) \in Dynamic
  BY DEF CrashInv
<1>3. LinesIn({}) = {} /\ ElementsIn({}) = {}
  BY DEF LinesIn, ElementsIn
<1>4. ASSUME UNCHANGED <<pipelineVars, pending, doomed, dangling, window>> PROVE CrashInv'
  BY <1>4 DEF CrashInv, pipelineVars, Connections, Elements, TypeOf, ConnectionsOf
<1>5. ASSUME dangling' = {}, pending' = {}, doomed' = doomed, window' # "crashed" PROVE CrashInv'
  BY <1>5, CrashKept
<1>6. ASSUME TypesStay, open, Idle, UNCHANGED <<window, pending, doomed, dangling>>,
             Elements \subseteq Elements'
      PROVE  CrashInv'
  <2>1. \A d \in dangling' : TypeOf(d)' \in Dynamic
    BY <1>1, <1>2, <1>6 DEF TypesStay
  <2> QED
    BY <1>6, <2>1, CrashKept DEF Idle
<1>7. ASSUME NEW t, Drop(t) PROVE CrashInv'
  BY <1>6, <1>7, OperationsKeepTypes, OperationFacts DEF Drop, SceneAdds, deleteVars
<1>8. ASSUME NEW x, Draw(x) PROVE CrashInv'
  BY <1>6, <1>8, OperationsKeepTypes, OperationFacts DEF Draw, MayDraw, SceneAdds, deleteVars
<1>9. ASSUME NEW q, Select(q) PROVE CrashInv'
  BY <1>4, <1>9 DEF Select, windowVars, deleteVars
<1>10. ASSUME NEW v, EditProperty(v) PROVE CrashInv'
  <2>1. PICK e : SetValue(e, v)
    BY <1>10 DEF EditProperty
  <2> QED
    BY <1>6, <1>10, <2>1, OperationsKeepTypes, OperationFacts
       DEF EditProperty, windowVars, sceneVars, deleteVars
<1>11. ASSUME NEW e, Move(e) PROVE CrashInv'
  <2>1. pending' = {} /\ UNCHANGED <<pipelineVars, dangling, doomed>> /\ (window' = "crashed" => dangling' # {})
    BY <1>11 DEF Move, Idle, deleteVars, sceneVars
  <2>2. \A d \in dangling' : TypeOf(d)' \in Dynamic
    BY <1>2, <2>1 DEF pipelineVars, TypeOf
  <2> QED
    BY <1>3, <2>1, <2>2 DEF CrashInv
<1>12. CASE BeginDelete
  <2>1. /\ open /\ pending' = selected /\ UNCHANGED <<pipelineVars, dangling, window>> /\ window = "open"
        /\ doomed' = \E e \in ElementsIn(selected) : ConnectionsOf(e) \cap LinesIn(selected) # {}
    BY <1>12 DEF BeginDelete, Idle, sceneVars
  <2>2. selected \subseteq Items(Elements, Connections)
    BY <1>1, <2>1 DEF EditorInv, WBTypeOK
  <2>3. \A i \in selected : i = <<i[1], i[2]>> /\ (i[1] = "line" => i[2] \in Connections)
    BY <2>2 DEF Items
  <2>4. LinesIn(selected) \subseteq Connections
    BY <2>3 DEF LinesIn
  <2>5. Connections' = Connections /\ \A e : ConnectionsOf(e)' = ConnectionsOf(e) /\ TypeOf(e)' = TypeOf(e)
    BY <2>1 DEF pipelineVars, Connections, ConnectionsOf, TypeOf
  <2> QED
    BY <1>2, <2>1, <2>3, <2>4, <2>5 DEF CrashInv
<1>13. ASSUME NEW e \in Elements, DeleteElement(e) PROVE CrashInv'
  <2> DEFINE C == ConnectionsOf(e)
             D == {d \in Elements : TypeOf(d) \in Dynamic /\ LostPins(C, d) # {}}
  <2>1. /\ open /\ window' = "open" /\ <<"element", e>> \in pending
        /\ pending' = pending \ {<<"element", e>>} /\ doomed' = (doomed /\ pending' # {})
        /\ Elements' = Elements \ {e} /\ Connections' = Connections \ C
        /\ dangling' = (dangling \cup D) \ {e} /\ TypesStay
    BY <1>13, OperationFacts, OperationsKeepTypes DEF DeleteElement, SceneRemoves, Deleted, EditorInv
  <2>2. \A d \in dangling' : d \in Elements' /\ d \in Elements /\ TypeOf(d) \in Dynamic
    BY <1>1, <1>2, <2>1
  <2>3. \A d \in dangling' : TypeOf(d)' \in Dynamic
    BY <2>1, <2>2 DEF TypesStay
  <2>4. \A i \in pending' : i = <<i[1], i[2]>>
    BY <2>1 DEF CrashInv
  <2>5. CASE doomed
    BY <1>3, <2>1, <2>3, <2>4, <2>5 DEF CrashInv
  <2>6. CASE ~doomed
    <3>1. e \in ElementsIn(pending)
      BY <2>1 DEF ElementsIn
    <3>2. C \cap LinesIn(pending) = {} /\ LinesIn(pending) \subseteq Connections
      BY <2>6, <3>1 DEF CrashInv
    <3>3. LinesIn(pending') \subseteq LinesIn(pending) /\ ElementsIn(pending') \subseteq ElementsIn(pending)
      BY <2>1, ItemsLeft
    <3>4. connections' = [c \in Connections \ C |-> connections[c]]
      BY <1>13 DEF DeleteElement, RemoveElement, Restrict
    <3>5. \A f : ConnectionsOf(f)' \subseteq ConnectionsOf(f)
      BY <3>4 DEF ConnectionsOf, Connections
    <3>6. LinesIn(pending') \subseteq Connections'
      BY <2>1, <3>2, <3>3
    <3>7. \A f \in ElementsIn(pending') : ConnectionsOf(f)' \cap LinesIn(pending') = {}
      BY <2>6, <3>3, <3>5 DEF CrashInv
    <3> QED
      BY <2>1, <2>3, <2>4, <3>6, <3>7 DEF CrashInv
  <2> QED
    BY <2>5, <2>6
<1>14. ASSUME NEW c, DeleteLine(c) PROVE CrashInv'
  <2>1. /\ window' = "open" /\ open
        /\ pending' = pending \ {<<"line", c>>} /\ doomed' = (doomed /\ pending' # {})
        /\ Elements' = Elements /\ Connections' = Connections \ {c}
        /\ dangling' = dangling /\ TypesStay
    BY <1>14, OperationFacts, OperationsKeepTypes DEF DeleteLine, Deleted, EditorInv
  <2>2. \A d \in dangling' : TypeOf(d)' \in Dynamic
    BY <1>1, <1>2, <2>1 DEF TypesStay
  <2>3. \A i \in pending' : i = <<i[1], i[2]>>
    BY <2>1 DEF CrashInv
  <2>4. CASE doomed
    BY <1>3, <2>1, <2>2, <2>3, <2>4 DEF CrashInv
  <2>5. CASE ~doomed
    <3>1. LinesIn(pending') \subseteq LinesIn(pending) /\ ElementsIn(pending') \subseteq ElementsIn(pending)
      BY <2>1, ItemsLeft
    <3>2. c \notin LinesIn(pending')
      BY <2>1, <2>3 DEF LinesIn
    <3>3. connections' = [d \in Connections \ {c} |-> connections[d]]
      BY <1>14 DEF DeleteLine, Disconnect, Restrict
    <3>4. \A f : ConnectionsOf(f)' \subseteq ConnectionsOf(f)
      BY <3>3 DEF ConnectionsOf, Connections
    <3>5. LinesIn(pending') \subseteq Connections'
      BY <2>1, <2>5, <3>1, <3>2 DEF CrashInv
    <3>6. \A f \in ElementsIn(pending') : ConnectionsOf(f)' \cap LinesIn(pending') = {}
      BY <2>5, <3>1, <3>4 DEF CrashInv
    <3> QED
      BY <2>1, <2>2, <2>3, <3>5, <3>6 DEF CrashInv
  <2> QED
    BY <2>4, <2>5
<1>15. ASSUME NEW c \in LinesIn(pending), DeleteStaleLine(c) PROVE CrashInv'
  <2>1. doomed
    BY <1>15 DEF DeleteStaleLine, CrashInv
  <2>2. UNCHANGED <<pipelineVars, pending, doomed, dangling>>
    BY <1>15 DEF DeleteStaleLine, deleteVars, sceneVars
  <2> QED
    BY <2>1, <2>2 DEF CrashInv, pipelineVars, Connections, Elements, TypeOf, ConnectionsOf
<1>16. CASE Start \/ Stop
  BY <1>4, <1>16 DEF Start, Stop, sceneVars, deleteVars
<1>17. CASE Exit \/ FatalError
  <2>1. window' = "exited" /\ pending = {} /\ UNCHANGED <<pipelineVars, pending, doomed, dangling>>
    BY <1>17 DEF Exit, FatalError, Idle, sceneVars, deleteVars
  <2>2. \A d \in dangling' : TypeOf(d)' \in Dynamic
    BY <1>2, <2>1 DEF pipelineVars, TypeOf
  <2> QED
    BY <2>1, <2>2, CrashKept
<1>18. CASE ActionSave \/ ActionSaveAs
  <2>1. PICK f : SaveDocument(f)
    BY <1>18 DEF ActionSave, ActionSaveAs
  <2>2. children' = children /\ Idle /\ UNCHANGED <<dangling, window, pending, doomed>>
    BY <2>1, OperationFacts DEF SaveDocument, sceneVars, deleteVars
  <2>3. \A d \in dangling' : TypeOf(d)' \in Dynamic
    BY <1>2, <2>2 DEF TypeOf
  <2> QED
    BY <2>2, <2>3, CrashKept DEF Idle
<1>19. ~open => dangling = {}
  BY DEF EditorInv, WBTypeOK
<1>20. CASE CloseDocument
  BY <1>5, <1>20 DEF CloseDocument, ClosePipeline, SceneReset, Idle, deleteVars
<1>21. ASSUME NewDocument \/ \E f : OpenDocument(f) PROVE CrashInv'
  <2>1. Idle /\ IF open THEN ClosePipeline ELSE UNCHANGED <<sceneVars, running, window, deleteVars>>
    BY <1>21 DEF NewDocument, OpenDocument
  <2>2. dangling' = {} /\ UNCHANGED <<window, pending, doomed>>
    BY <1>19, <2>1 DEF ClosePipeline, SceneReset, sceneVars, deleteVars
  <2> QED
    BY <1>5, <2>1, <2>2 DEF Idle
<1>22. CASE BeginLoad \/ LoadStep \/ Opened
  <2>1. dangling = {} /\ pending = {} /\ UNCHANGED <<dangling, window, pending, doomed>>
    BY <1>19, <1>22 DEF BeginLoad, LoadStep, Opened, EditorInv, windowVars, sceneVars, deleteVars
  <2> QED
    BY <1>3, <2>1 DEF CrashInv
<1>23. CASE CloseWindow
  <2>1. window' = "exited" /\ pending' = {} /\ doomed' = doomed
    BY <1>23 DEF CloseWindow, Idle, deleteVars
  <2>2. CASE open
    <3>1. \E D \in SUBSET Elements : dangling' = (dangling \cup D) \ Elements
      BY <1>23, <2>2 DEF CloseWindow, SceneRemoves
    <3> QED
      BY <1>1, <1>5, <2>1, <2>2, <3>1
  <2>3. CASE ~open
    BY <1>5, <1>19, <1>23, <2>1, <2>3 DEF CloseWindow, sceneVars
  <2> QED
    BY <2>2, <2>3
<1>24. CASE UNCHANGED vars
  BY <1>4, <1>24 DEF vars, windowVars, sceneVars, deleteVars
<1> QED
  BY <1>7, <1>8, <1>9, <1>10, <1>11, <1>12, <1>13, <1>14, <1>15, <1>16, <1>17, <1>18, <1>20, <1>21,
     <1>22, <1>23, <1>24 DEF WBNext

(* The scene shows one widget per element and one line per connection of the *)
(* open pipeline, also between the deletions of a selection and after them.  *)
(* The editor crashes only on a line to a dynamic pin that went with the      *)
(* element at its other end, or when an element is deleted together with one  *)
(* of its lines (PipelineScene::add, remove, handleRemove, deleteSelected).   *)
THEOREM SceneAlwaysInSync == WBSpec => []SceneInSync
<1>1. WBInit => CrashInv
  BY DEF WBInit, CrashInv, LinesIn, ElementsIn
<1>2. EditorInv /\ CrashInv => SceneInSync
  BY DEF EditorInv, CrashInv, SceneInSync
<1> QED
  BY <1>1, <1>2, CrashStep, EditorAlways, PTL DEF WBSpec

(* No event of the editor changes the elements, pins or connections of a     *)
(* running pipeline: dropEvent, the drawing of lines and deleteSelected()    *)
(* refuse, and closing or opening a document stops it first.                 *)
THEOREM RunningGraphIsFixed == WBSpec => GraphFixedWhileRunning
<1>1. GraphSound /\ EditorInv /\ [WBNext]_vars
        => [running /\ running' => UNCHANGED <<Elements, pins, connections>>]_vars
  <2> SUFFICES ASSUME GraphSound, EditorInv, WBNext, running, running'
      PROVE  UNCHANGED <<Elements, pins, connections>>
    OBVIOUS
  <2>1. open /\ opening = "" /\ pending = {}
    BY DEF EditorInv, WBTypeOK
  <2>2. ASSUME UNCHANGED pipelineVars PROVE UNCHANGED <<Elements, pins, connections>>
    BY <2>2 DEF pipelineVars, Elements
  <2>3. ASSUME NEW q, Drop(q) \/ Draw(q) PROVE FALSE
    BY <2>3 DEF Drop, Draw, MayDraw
  <2>4. ASSUME NEW q, DeleteElement(q) \/ DeleteLine(q) \/ DeleteStaleLine(q) PROVE FALSE
    BY <2>1, <2>4 DEF DeleteElement, DeleteLine, DeleteStaleLine
  <2>5. ASSUME NEW q, Select(q) \/ Move(q) PROVE UNCHANGED <<Elements, pins, connections>>
    BY <2>2, <2>5 DEF Select, Move
  <2>6. ASSUME NEW v, EditProperty(v) PROVE UNCHANGED <<Elements, pins, connections>>
    <3>1. PICK e : SetValue(e, v)
      BY <2>6 DEF EditProperty
    <3> QED
      BY <3>1, OperationFacts DEF SetValue
  <2>7. CASE BeginDelete \/ Start \/ Stop \/ Exit \/ FatalError \/ Opened
    BY <2>2, <2>7 DEF BeginDelete, Start, Stop, Exit, FatalError, Opened
  <2>8. CASE ActionSave \/ ActionSaveAs
    <3>1. PICK f : Save(f) \/ SaveFails(f)
      BY <2>8 DEF ActionSave, ActionSaveAs, SaveDocument
    <3> QED
      BY <3>1 DEF Save, SaveFails, graphVars, Elements
  <2>9. ASSUME NEW f, OpenDocument(f) PROVE FALSE
    BY <2>1, <2>9 DEF OpenDocument, ClosePipeline
  <2>10. CASE CloseDocument \/ NewDocument \/ CloseWindow \/ BeginLoad \/ LoadStep
    BY <2>1, <2>10 DEF CloseDocument, NewDocument, CloseWindow, ClosePipeline, BeginLoad, LoadStep
  <2> QED
    BY <2>3, <2>4, <2>5, <2>6, <2>7, <2>8, <2>9, <2>10 DEF WBNext
<1> QED
  BY <1>1, EditorAlways, PTL DEF WBSpec, GraphFixedWhileRunning

LEMMA AskStep == GraphSound /\ EditorInv /\ AskInv /\ [WBNext]_vars => AskInv'
<1> SUFFICES ASSUME GraphSound, EditorInv, AskInv, [WBNext]_vars PROVE AskInv'
  OBVIOUS
<1>1. ASSUME docChanged' = TRUE PROVE AskInv'
  BY <1>1 DEF AskInv
<1>2. ASSUME open' = FALSE \/ window' = "exited" \/ window' = "crashed" PROVE AskInv'
  BY <1>2 DEF AskInv
<1>3. ASSUME children' = children, connections' = connections, UNCHANGED <<window, open, docChanged, ignored, snapshot>>
      PROVE  AskInv'
  BY <1>3 DEF AskInv
<1>4. ASSUME snapshot' = Graph(children', connections') PROVE AskInv'
  BY <1>4 DEF AskInv
<1>5. ASSUME NEW q, Drop(q) \/ Draw(q) \/ DeleteElement(q) \/ DeleteLine(q) PROVE AskInv'
  BY <1>1, <1>5 DEF Drop, Draw, DeleteElement, DeleteLine, DocumentChanged
<1>6. ASSUME NEW q, Select(q) PROVE AskInv'
  BY <1>3, <1>6 DEF Select, pipelineVars, windowVars, documentVars
<1>7. ASSUME NEW v, EditProperty(v) PROVE AskInv'
  <2>1. PICK e : SetValue(e, v)
    BY <1>7 DEF EditProperty
  <2>2. /\ children' = [children EXCEPT ![e].value = v] /\ connections' = connections
        /\ UNCHANGED <<window, open, docChanged, ignored, snapshot>>
    BY <1>7, <2>1 DEF EditProperty, SetValue, windowVars, documentVars
  <2>3. children \in [Elements -> ElementRecords]
    BY SoundParts DEF GraphTypes
  <2>4. DOMAIN children' = DOMAIN children /\ \A d \in DOMAIN children : children'[d].type = children[d].type
    BY <2>2, <2>3 DEF ElementRecords, Elements
  <2>5. [d \in DOMAIN children' |-> children'[d].type] = [d \in DOMAIN children |-> children[d].type]
    BY <2>4
  <2>6. Graph(children', connections') = Graph(children, connections)
    BY <2>2, <2>5 DEF Graph
  <2> QED
    BY <2>2, <2>6 DEF AskInv
<1>8. ASSUME NEW e, Move(e) PROVE AskInv'
  BY <1>1, <1>8 DEF Move, DocumentChanged
<1>9. ASSUME NEW c, DeleteStaleLine(c) PROVE AskInv'
  BY <1>2, <1>9 DEF DeleteStaleLine
<1>10. CASE BeginDelete \/ Start \/ Stop
  BY <1>3, <1>10 DEF BeginDelete, Start, Stop, pipelineVars, documentVars
<1>11. CASE ActionSave \/ ActionSaveAs
  <2>1. PICK f : SaveDocument(f)
    BY <1>11 DEF ActionSave, ActionSaveAs
  <2>2. /\ children' = children /\ connections' = connections
        /\ ignored' = (Graph(children, connections) # snapshot')
    BY <2>1, OperationFacts DEF SaveDocument
  <2> QED
    BY <2>2 DEF AskInv
<1>12. CASE CloseDocument
  BY <1>2, <1>12 DEF CloseDocument
<1>13. CASE NewDocument
  <2>1. children' = Nothing /\ connections' = Nothing /\ snapshot' = Graph(Nothing, Nothing)
    BY <1>13 DEF NewDocument, NewPipeline, Fresh
  <2> QED
    BY <1>4, <2>1
<1>14. ASSUME NEW f, OpenDocument(f) PROVE AskInv'
  BY <1>2, <1>14 DEF OpenDocument
<1>15. CASE BeginLoad \/ LoadStep
  <2>1. ~open /\ open' = open
    BY <1>15 DEF BeginLoad, LoadStep, EditorInv, windowVars
  <2> QED
    BY <2>1 DEF AskInv
<1>16. CASE Opened
  BY <1>4, <1>16 DEF Opened, Fresh, pipelineVars
<1>17. CASE Exit \/ CloseWindow \/ FatalError
  BY <1>2, <1>17 DEF Exit, CloseWindow, FatalError
<1>18. CASE UNCHANGED vars
  BY <1>3, <1>18 DEF vars, pipelineVars, windowVars, documentVars
<1> QED
  BY <1>5, <1>6, <1>7, <1>8, <1>9, <1>10, <1>11, <1>12, <1>13, <1>14, <1>15, <1>16, <1>17, <1>18 DEF WBNext

(* A pipeline whose elements or connections differ from what was created,    *)
(* opened or last written is never given up without the question of          *)
(* offerToSave(), whatever the order of the events, but for one that save()   *)
(* took for saved without writing it and that has not changed since.         *)
THEOREM ChangesAlwaysAsked == WBSpec => []ChangesAsked
<1>1. WBInit => AskInv
  BY DEF WBInit, AskInv
<1>2. AskInv => ChangesAsked
  BY DEF AskInv, ChangesAsked, Idle, Asks
<1> QED
  BY <1>1, <1>2, AskStep, EditorAlways, PTL DEF WBSpec
=============================================================================
