------------------------------ MODULE Workbench ------------------------------
(***************************************************************************)
(* The editor of plvgui around a pipeline: MainWindow (documents, start,     *)
(* stop, exit), PipelineScene with its widgets and lines, and the inspector. *)
(* All of it runs in the main thread; a slot that loops over several items   *)
(* is several steps here, during which nothing else happens.                 *)
(***************************************************************************)
EXTENDS PipelineGraph

CONSTANT MaxSelected    \* bound of an instance: items selected at a time

VARIABLES
    window,     \* "open", "exited" after QApplication::exit, "crashed"
    open,       \* m_pipeline is not null
    running,    \* m_running of the pipeline
    opening,    \* the file loadFile() is about to show, "" outside loadFile()
    pending,    \* the items deleteSelected() has still to delete
    fileName,   \* m_fileName of the window
    docChanged, \* m_documentChanged
    widgets,    \* the elements whose widgets are in the scene
    lines,      \* the connections whose lines are in the scene
    selected,   \* the selected items: <<"element", id>> and <<"line", id>>
    dangling,   \* elements whose widget keeps a line to a deleted PinWidget
    \* history variables
    snapshot,   \* the graph at the last new or open, or the last save that wrote it
    ignored,    \* the last save wrote nothing although the graph is not the snapshot
    doomed      \* the selection being deleted holds an element and a line of it

sceneVars == <<widgets, lines, selected, dangling>>
deleteVars == <<pending, doomed>>
documentVars == <<fileName, docChanged, snapshot, ignored>>
windowVars == <<window, open, running, opening, deleteVars, documentVars>>
vars == <<pipelineVars, windowVars, sceneVars>>

Graph(ch, co) == <<[e \in DOMAIN ch |-> ch[e].type], co>>

Idle == window = "open" /\ opening = "" /\ pending = {}

-----------------------------------------------------------------------------
(* The scene follows the pipeline's signals. *)
ElementsIn(sel) == {i[2] : i \in {j \in sel : j[1] = "element"}}
LinesIn(sel) == {i[2] : i \in {j \in sel : j[1] = "line"}}
Items(E, C) == ({"element"} \X E) \cup ({"line"} \X C)

(* add() for a new element or connection. *)
SceneAdds ==
    /\ widgets' = widgets \cup DOMAIN children'
    /\ lines' = lines \cup DOMAIN connections'
    /\ UNCHANGED <<selected, dangling>>

(* handleRemove(): widget and lines leave the scene, but stay in the maps and *)
(* in the list of lines of the widget at the other end.  If that one has      *)
(* dynamic pins, it has just deleted the PinWidget the line points to.        *)
SceneRemovesSlow(E, C) ==                \* mutant: connectionRemoved is not handled
    /\ widgets' = widgets \ E
    /\ lines' = lines
    /\ selected' = selected \ Items(E, {})
    /\ dangling' = dangling \ E
SceneRemoves(E, C) ==
    /\ widgets' = widgets \ E
    /\ lines' = lines \ C
    /\ selected' = selected \ Items(E, C)
    /\ dangling' = (dangling \cup {e \in Elements : TypeOf(e) \in Dynamic /\ LostPins(C, e) # {}}) \ E

(* reset() *)
SceneReset ==
    /\ widgets' = {}
    /\ lines' = {}
    /\ selected' = {}
    /\ dangling' = {}

(* documentChanged(), connected to the signals of the pipeline and the scene. *)
DocumentUnchanged == UNCHANGED <<docChanged, ignored>>   \* mutant: the signals are not connected
DocumentChanged == docChanged' = TRUE /\ ignored' = FALSE

-----------------------------------------------------------------------------
(* Editing, refused while the pipeline runs. *)

(* dropEvent *)
Drop(t) ==
    /\ Idle /\ open /\ ~running
    /\ AddElement(t)
    /\ SceneAdds
    /\ DocumentChanged
    /\ UNCHANGED <<window, open, running, opening, deleteVars, fileName, snapshot>>

(* mouseReleaseEvent and handleConnectionCreation: a line has been dragged    *)
(* from an output pin to an input pin.                                        *)
MayDrawAlways == Idle /\ open                       \* mutant: isRunning() not tested
MayDraw == Idle /\ open /\ ~running
Draw(x) ==
    /\ MayDraw
    /\ Connect(x)
    /\ SceneAdds
    /\ DocumentChanged
    /\ UNCHANGED <<window, open, running, opening, deleteVars, fileName, snapshot>>

(* The user selects items; sceneSelectionChanged gives the inspector its      *)
(* target when exactly one is selected and it is an element.                  *)
Select(sel) ==
    /\ Idle /\ open
    /\ selected' = sel
    /\ UNCHANGED <<pipelineVars, windowVars, widgets, lines, dangling>>

Target == IF Cardinality(selected) = 1 THEN ElementsIn(selected) ELSE {}

(* A field of the inspector calls the element's setter, running or not.  No   *)
(* signal reaches the window.                                                 *)
EditProperty(v) ==
    /\ Idle /\ open
    /\ \E e \in Target : SetValue(e, v)
    /\ UNCHANGED <<windowVars, sceneVars>>

(* A widget is moved: its lines are redrawn (ConnectionLine::updatePosition)  *)
(* and the position is stored in the element, whose propertyChanged reaches   *)
(* documentChanged.  A line to a deleted PinWidget is undefined behaviour.    *)
Move(e) ==
    /\ Idle /\ open
    /\ window' = IF e \in dangling THEN "crashed" ELSE "open"
    /\ DocumentChanged
    /\ UNCHANGED <<pipelineVars, sceneVars, open, running, opening, deleteVars, fileName, snapshot>>

(* deleteSelected() goes through a copy of the selection in any order. *)
BeginDelete ==
    /\ Idle /\ open /\ ~running
    /\ pending' = selected
    /\ doomed' = \E e \in ElementsIn(selected) : ConnectionsOf(e) \cap LinesIn(selected) # {}
    /\ UNCHANGED <<pipelineVars, sceneVars, window, open, running, opening, documentVars>>

Deleted(item) ==
    /\ pending' = pending \ {item}
    /\ doomed' = (doomed /\ pending' # {})

DeleteElement(e) ==
    /\ window = "open"
    /\ <<"element", e>> \in pending
    /\ Deleted(<<"element", e>>)
    /\ RemoveElement(e)
    /\ SceneRemoves({e}, ConnectionsOf(e))
    /\ DocumentChanged
    /\ UNCHANGED <<window, open, running, opening, fileName, snapshot>>

(* remove() of a line: it is taken out of both widgets before the pins are    *)
(* disconnected.                                                              *)
DeleteLine(c) ==
    /\ window = "open"
    /\ <<"line", c>> \in pending
    /\ c \in Connections
    /\ Deleted(<<"line", c>>)
    /\ Disconnect(c)
    /\ lines' = lines \ {c}
    /\ selected' = selected \ {<<"line", c>>}
    /\ DocumentChanged
    /\ UNCHANGED <<window, open, running, opening, fileName, snapshot, widgets, dangling>>

(* The line of a connection that went with its element a moment ago: its      *)
(* fromPin() is null.                                                         *)
DeleteStaleLine(c) ==
    /\ window = "open"
    /\ <<"line", c>> \in pending
    /\ c \notin Connections
    /\ window' = "crashed"
    /\ UNCHANGED <<pipelineVars, sceneVars, open, running, opening, deleteVars, documentVars>>

-----------------------------------------------------------------------------
(* Running.  start() may also fail, and then changes nothing here. *)
Start ==
    /\ Idle /\ open /\ ~running
    /\ Elements # {}
    /\ running' = TRUE
    /\ UNCHANGED <<pipelineVars, sceneVars, window, open, opening, deleteVars, documentVars>>

(* The user stops it, or an element's error does. *)
Stop ==
    /\ Idle /\ running
    /\ running' = FALSE
    /\ UNCHANGED <<pipelineVars, sceneVars, window, open, opening, deleteVars, documentVars>>

-----------------------------------------------------------------------------
(* Saving.  save() ignores what Pipeline::saveAs returns, which also writes   *)
(* nothing when m_changed is not set; the snapshot is what has been written.  *)
SaveDocument(f) ==
    /\ Idle /\ open
    /\ fileName' = f
    /\ docChanged' = FALSE
    /\ \/ Save(f) /\ snapshot' = IF changed THEN Graph(children, connections) ELSE snapshot
       \/ SaveFails(f) /\ snapshot' = snapshot
    /\ ignored' = (Graph(children, connections) # snapshot')
    /\ UNCHANGED <<sceneVars, window, open, running, opening, deleteVars>>

(* on_actionSave uses the current name, on_actionSaveAs asks for one, as does *)
(* on_actionSave of a document without a name.                                *)
Savable == Cardinality(Elements) <= MaxSaved
ActionSave == Savable /\ fileName \in SaveNames /\ SaveDocument(fileName)
ActionSaveAs == Savable /\ \E f \in SaveNames : SaveDocument(f)

(* offerToSave() asks when the document has changed.  exec() returns the      *)
(* button, QMessageBox::Save, and the code compares it with                   *)
(* QDialog::Accepted: nothing is saved whatever the answer is.                *)
Asks == open /\ docChanged

(* A pipeline that has just been made or opened. *)
Fresh(ch, co) == snapshot' = Graph(ch, co) /\ ignored' = FALSE

(* closePipeline(): stop, ask, reset the scene, delete the pipeline.  Its     *)
(* destructor removes the elements, and the window, still connected, takes    *)
(* that for a change.                                                         *)
ClosePipeline ==
    /\ SceneReset
    /\ running' = FALSE
    /\ UNCHANGED <<window, deleteVars>>

CloseDocument ==
    /\ Idle /\ open
    /\ ClosePipeline
    /\ NewPipeline
    /\ docChanged' = (Elements # {})
    /\ open' = FALSE
    /\ Fresh(Nothing, Nothing)
    /\ UNCHANGED <<opening, fileName>>

NewDocument ==
    /\ Idle
    /\ IF open THEN ClosePipeline
               ELSE UNCHANGED <<sceneVars, running, window, deleteVars>>
    /\ NewPipeline
    /\ fileName' = ""
    /\ docChanged' = FALSE
    /\ open' = TRUE
    /\ Fresh(Nothing, Nothing)
    /\ UNCHANGED opening

(* loadFile(): the open pipeline is closed, then a new one loads the file.    *)
(* Nothing is connected to it yet, so nobody hears when load() fails.         *)
OpenDocument(f) ==
    /\ Idle
    /\ IF open THEN ClosePipeline
               ELSE UNCHANGED <<sceneVars, running, window, deleteVars>>
    /\ NewPipeline
    /\ docChanged' = (open /\ Elements # {})
    /\ open' = FALSE
    /\ Fresh(Nothing, Nothing)
    /\ opening' = f
    /\ UNCHANGED fileName

BeginLoad ==
    /\ opening # "" /\ filename # opening
    /\ Load(opening)
    /\ UNCHANGED <<windowVars, sceneVars>>

LoadStep ==
    /\ opening # ""
    /\ ParseElement \/ ParseConnection \/ LoadDone
    /\ UNCHANGED <<windowVars, sceneVars>>

(* setCurrentFile() and setPipeline(): whatever has been loaded is shown. *)
Opened ==
    /\ opening # "" /\ filename = opening /\ ~loading.active
    /\ opening' = ""
    /\ open' = TRUE
    /\ fileName' = filename
    /\ docChanged' = FALSE
    /\ widgets' = Elements
    /\ lines' = Connections
    /\ Fresh(children, connections)
    /\ UNCHANGED <<pipelineVars, window, running, deleteVars, selected, dangling>>

-----------------------------------------------------------------------------
(* Leaving. *)

(* on_actionExit.  Its last call but one reads "void closePipeline();", which *)
(* only declares a function: a running pipeline is not stopped.               *)
Exit ==
    /\ Idle
    /\ window' = "exited"
    /\ UNCHANGED <<pipelineVars, sceneVars, open, running, opening, deleteVars, documentVars>>

(* closeEvent() *)
CloseWindow ==
    /\ Idle
    /\ window' = "exited"
    /\ running' = FALSE
    /\ IF open THEN /\ Clear
                    /\ SceneRemoves(Elements, Connections)
                    /\ docChanged' = (docChanged \/ Elements # {})
               ELSE UNCHANGED <<pipelineVars, sceneVars, docChanged>>
    /\ UNCHANGED <<open, opening, deleteVars, fileName, snapshot, ignored>>

(* An element reports a fatal error: handleMessage asks and exits, then       *)
(* pipelineElementError stops the pipeline.                                   *)
FatalError ==
    /\ Idle /\ open /\ running
    /\ window' = "exited"
    /\ running' = FALSE
    /\ UNCHANGED <<pipelineVars, sceneVars, open, opening, deleteVars, documentVars>>

-----------------------------------------------------------------------------
WBInit ==
    /\ Init
    /\ window = "open"
    /\ open = FALSE
    /\ running = FALSE
    /\ opening = ""
    /\ pending = {}
    /\ fileName = ""
    /\ docChanged = FALSE
    /\ widgets = {}
    /\ lines = {}
    /\ selected = {}
    /\ dangling = {}
    /\ snapshot = Graph(Nothing, Nothing)
    /\ ignored = FALSE
    /\ doomed = FALSE

Selections == {s \in SUBSET Items(widgets, lines) : Cardinality(s) <= MaxSelected}

WBNext ==
    \/ \E t \in Types : Drop(t)
    \/ open /\ \E x \in Lines : Draw(x)
    \/ \E s \in Selections : Select(s)
    \/ \E v \in UserValues : EditProperty(v)
    \/ \E e \in widgets : Move(e)
    \/ BeginDelete
    \/ \E e \in Elements : DeleteElement(e)
    \/ \E c \in LinesIn(pending) : DeleteLine(c) \/ DeleteStaleLine(c)
    \/ Start \/ Stop
    \/ ActionSave \/ ActionSaveAs
    \/ CloseDocument \/ NewDocument
    \/ \E f \in FileNames : OpenDocument(f)
    \/ BeginLoad \/ LoadStep \/ Opened
    \/ Exit \/ CloseWindow \/ FatalError

WBSpec == WBInit /\ [][WBNext]_vars

-----------------------------------------------------------------------------
(* Type correctness of the editor's own state. *)
WBTypeOK ==
    /\ window \in {"open", "exited", "crashed"}
    /\ {open, running, docChanged, ignored, doomed} \subseteq BOOLEAN
    /\ {fileName, opening} \subseteq FileNames \cup {""}
    /\ selected \subseteq Items(widgets, lines)
    /\ dangling \subseteq widgets
    /\ running => open

(* The scene shows the open pipeline, one widget per element and one line per  *)
(* connection, also between the deletions of a selection and after them       *)
(* (PipelineScene::add, remove, handleRemove).  The editor crashes only when   *)
(* a widget is moved whose line to a dynamic pin was removed with the element  *)
(* at its other end, or when a selection is deleted that holds an element      *)
(* together with one of its lines.                                             *)
SceneInSync ==
    /\ WBTypeOK
    /\ open => widgets = Elements /\ lines = Connections
    /\ \A e \in dangling : TypeOf(e) \in Dynamic
    /\ window = "crashed" => dangling # {} \/ doomed

(* The elements, pins and connections of a running pipeline do not change:    *)
(* the worker threads use them without a lock.                                *)
GraphFixedWhileRunning ==
    [][running /\ running' => UNCHANGED <<Elements, pins, connections>>]_vars

(* A pipeline whose elements or connections changed since it was opened or    *)
(* written is never given up without a question (documentChanged, offerToSave, *)
(* which closePipeline, closeEvent and on_actionExit call first), but for one *)
(* that was not written when the user saved it and has not changed since:     *)
(* save() takes it for saved.                                                 *)
ChangesAsked ==
    (Idle /\ open /\ Graph(children, connections) # snapshot) => Asks \/ ignored
=============================================================================
