---------------------------- MODULE PipelineGraph ----------------------------
(***************************************************************************)
(* The pipeline that is not running: the graph of elements and connections  *)
(* that Pipeline keeps, the operations that edit it, and PipelineLoader,     *)
(* which writes it to a file and reads it back.                              *)
(*                                                                         *)
(* An element has one property, which stands for all of them; its value is  *)
(* the text QVariant::toString gives for it.  The two properties of         *)
(* EdgeDetectorSobel, whose setters guard on each other, are one value of   *)
(* type Orders, which names those that are set.  A file is the list of its     *)
(* "element" tags and the list of its "connection" tags, each list a        *)
(* function on positions, which are read in increasing order.               *)
(***************************************************************************)
EXTENDS Integers, FiniteSets, Functions

CONSTANTS
    Types,          \* the element types registered with PipelineElementFactory
    Dynamic,        \* the types with dynamic input pins (TCPServerProcessor)
    DataTypes,      \* the types of data the pins carry
    inType,         \* [Types -> input pin id |-> data type], the pins of a new element
    outType,        \* [Types -> output pin id |-> data type]
    propertyType,   \* [Types -> PropertyTypes], the QVariant type of the property
    EnumItems,      \* the items of an Enum property; EnumDefault is selected first
    EnumDefault,
    Texts,          \* the texts of properties
    FileNames,
    InitialFiles,   \* what the files contain before the program starts
    SaveNames,      \* bound of an instance: the file names the user saves under
    UserValues,     \* bound of an instance: the values the user gives to properties
    MaxElements,    \* bound of an instance: elements in the pipeline
    MaxConnections, \* bound of an instance: connections in the pipeline
    MaxSaved        \* bound of an instance: elements in a pipeline the user saves

PropertyTypes == {"Bool", "Int", "Enum", "String", "Orders"}
Numerals == {"0", "1", "2"}
Orders == {"x", "y", "xy"}

ElementTags == [id : Int, name : STRING, text : Texts]
ConnectionTags == [src : Int, out : Int, dst : Int, in : Int]
Nothing == [x \in {} |-> {}]               \* the empty QMap
NoFile == [elements |-> Nothing, connections |-> Nothing, origin |-> "absent"]

(* A list of the given tags; origin is a history field: who wrote the file.  *)
IsList(l, Tags) ==
    DOMAIN l \subseteq Int /\ IsFiniteSet(DOMAIN l) /\ l \in [DOMAIN l -> Tags]
IsDocument(d) ==
    /\ d = [elements |-> d.elements, connections |-> d.connections, origin |-> d.origin]
    /\ IsList(d.elements, ElementTags)
    /\ IsList(d.connections, ConnectionTags)
    /\ d.origin \in {"absent", "user", "saved"}

ASSUME TypesAssumption ==
    /\ Dynamic \subseteq Types
    /\ Types \subseteq STRING
    /\ \A t \in Types :
        /\ inType[t] \in [DOMAIN inType[t] -> DataTypes] /\ DOMAIN inType[t] \subseteq Nat
        /\ IsFiniteSet(DOMAIN inType[t])
        /\ outType[t] \in [DOMAIN outType[t] -> DataTypes] /\ DOMAIN outType[t] \subseteq Nat
        /\ propertyType[t] \in PropertyTypes
    /\ \A t \in Dynamic : DOMAIN inType[t] = {0}
    /\ EnumDefault \in EnumItems /\ EnumItems \subseteq Texts
    /\ Numerals \subseteq Texts /\ {"true", "false", ""} \subseteq Texts /\ Orders \subseteq Texts
    /\ FileNames \subseteq STRING \ {""}
    /\ InitialFiles \in [FileNames -> {InitialFiles[f] : f \in FileNames}]
    /\ \A f \in FileNames : IsDocument(InitialFiles[f]) /\ InitialFiles[f].origin # "saved"
    /\ SaveNames \subseteq FileNames /\ UserValues \subseteq Texts
    /\ MaxElements \in Nat /\ MaxConnections \in Nat /\ MaxSaved \in Nat

VARIABLES
    children,     \* m_children: [id -> [type, value]]
    pins,         \* m_inputPins of each child: [id -> set of pin ids]
    connections,  \* m_connections: [id -> [src, out, dst, in]]
    changed,      \* m_changed
    filename,     \* m_filename, "" at first
    files,        \* the file system
    loading,      \* the tags load() has still to read, and from which file
    outcome,      \* what the last load() returned
    wrote         \* the file this pipeline object last wrote (a history variable)

graphVars == <<children, pins, connections>>
fileVars == <<filename, files, wrote>>
loadVars == <<loading, outcome>>
pipelineVars == <<children, pins, connections, changed, filename, files, loading, outcome, wrote>>

Elements == DOMAIN children
Connections == DOMAIN connections
TypeOf(e) == children[e].type
NotLoading == [active |-> FALSE, doc |-> NoFile]

(* f with x mapped to v, QMap::insert. *)
Insert(f, x, v) == [y \in DOMAIN f \cup {x} |-> IF y = x THEN v ELSE f[y]]

-----------------------------------------------------------------------------
(* Ids.  The loop walks through the sorted keys with a counter and stops at   *)
(* the first key greater than the counter: the result is the least i with    *)
(* at most i keys up to i.                                                    *)
Upto(S, i) == {k \in S : k <= i}
NewId(S) == CHOOSE i \in 0 .. Cardinality(S) :
    /\ Cardinality(Upto(S, i)) <= i
    /\ \A j \in 0 .. i - 1 : Cardinality(Upto(S, j)) > j

(* getNextInputPinId: the smallest id that is not in the map. *)
NextPinId(S) == CHOOSE i \in 0 .. Cardinality(S) : i \notin S /\ \A j \in 0 .. i - 1 : j \in S

-----------------------------------------------------------------------------
(* The pins of an element.  A dynamic pin takes the type of what it is        *)
(* connected to, the others are fixed.                                        *)
InPins(e) == pins[e]
OutPins(e) == DOMAIN outType[TypeOf(e)]
Connected(e, p) == \E c \in Connections : connections[c].dst = e /\ connections[c].in = p

(* PinConnection::canConnectPins, which connect() checks again: not the same *)
(* element, a free input pin, and equal types unless the pin is dynamic.      *)
CanConnectBusy(x) ==                                \* mutant: isConnected() not tested
    /\ x.src # x.dst
    /\ TypeOf(x.dst) \notin Dynamic
            => outType[TypeOf(x.src)][x.out] = inType[TypeOf(x.dst)][x.in]
CanConnect(x) ==
    /\ x.src # x.dst
    /\ ~Connected(x.dst, x.in)
    /\ TypeOf(x.dst) \notin Dynamic
            => outType[TypeOf(x.src)][x.out] = inType[TypeOf(x.dst)][x.in]

(* connectPins: the connection gets a new id; an element with dynamic pins    *)
(* adds a fresh one in onInputConnectionSet.  m_changed is left alone.        *)
ConnectPins(x) ==
    /\ connections' = Insert(connections, NewId(Connections), x)
    /\ pins' = IF TypeOf(x.dst) \in Dynamic
               THEN [pins EXCEPT ![x.dst] = @ \cup {NextPinId(@)}]
               ELSE pins

(* threadUnsafeDisconnect of the connections in C: each is removed from both *)
(* pins, and an element with dynamic pins removes the pin                    *)
(* (onInputConnectionRemoved).                                               *)
LostPins(C, e) == {connections[c].in : c \in {d \in C : connections[d].dst = e}}
PinsWithout(C) ==
    [e \in Elements |-> IF TypeOf(e) \in Dynamic THEN pins[e] \ LostPins(C, e) ELSE pins[e]]

-----------------------------------------------------------------------------
(* Editing.  These slots of the main thread do not run during load().         *)
Editing == ~loading.active

DefaultText(t) == CASE propertyType[t] = "Bool" -> "false"
                    [] propertyType[t] = "Int" -> "0"
                    [] propertyType[t] = "Enum" -> EnumDefault
                    [] propertyType[t] = "String" -> ""
                    [] propertyType[t] = "Orders" -> "x"

(* addElement of an element of type t under id; the caller has made sure      *)
(* that the id is free (canAddElement), addElement itself only warns.         *)
AddUnder(id, t, v) ==
    /\ children' = Insert(children, id, [type |-> t, value |-> v])
    /\ pins' = Insert(pins, id, DOMAIN inType[t])
    /\ changed' = TRUE

(* dropEvent adds a new element, whose id is -1: it gets a new id.            *)
AddElement(t) ==
    /\ Editing
    /\ Cardinality(Elements) < MaxElements
    /\ AddUnder(NewId(Elements), t, DefaultText(t))
    /\ outcome' = "none"
    /\ UNCHANGED <<connections, fileVars, loading>>

(* removeElement: first the connections of its pins (removeConnectionsForElement). *)
ConnectionsOf(e) == {c \in Connections : e \in {connections[c].src, connections[c].dst}}
RemoveElement(e) ==
    /\ Editing
    /\ connections' = Restrict(connections, Connections \ ConnectionsOf(e))
    /\ children' = Restrict(children, Elements \ {e})
    /\ pins' = Restrict(PinsWithout(ConnectionsOf(e)), Elements \ {e})
    /\ changed' = TRUE
    /\ outcome' = "none"
    /\ UNCHANGED <<fileVars, loading>>

(* The user draws a line from an output pin to an input pin; the scene asks   *)
(* canConnectPins first.                                                      *)
Connect(x) ==
    /\ Editing
    /\ Cardinality(Connections) < MaxConnections
    /\ CanConnect(x)
    /\ ConnectPins(x)
    /\ outcome' = "none"
    /\ UNCHANGED <<children, changed, fileVars, loading>>

(* pinConnectionDisconnect.  m_changed is left alone. *)
Disconnect(c) ==
    /\ Editing
    /\ pins' = PinsWithout({c})
    /\ connections' = Restrict(connections, Connections \ {c})
    /\ outcome' = "none"
    /\ UNCHANGED <<children, changed, fileVars, loading>>

(* clear(): all connections, then all elements. *)
Clear ==
    /\ Editing
    /\ children' = Nothing
    /\ pins' = Nothing
    /\ connections' = Nothing
    /\ changed' = TRUE
    /\ outcome' = "none"
    /\ UNCHANGED <<fileVars, loading>>

(* The pipeline is deleted (~Pipeline clears it) and a new one made.  The     *)
(* constructor leaves m_changed uninitialised.                                *)
NewPipeline ==
    /\ Editing
    /\ children' = Nothing
    /\ pins' = Nothing
    /\ connections' = Nothing
    /\ changed' \in BOOLEAN
    /\ filename' = ""
    /\ wrote' = ""
    /\ outcome' = "none"
    /\ UNCHANGED <<files, loading>>

(* setXOrder and setYOrder of EdgeDetectorSobel: an order is only allowed to  *)
(* be 0 when the other one is 1.                                              *)
SetXOrder(v, on) ==
    IF on THEN (IF v = "y" THEN "xy" ELSE v) ELSE (IF v = "x" THEN v ELSE "y")
SetYOrder(v, on) ==
    IF on THEN (IF v = "x" THEN "xy" ELSE v) ELSE (IF v = "y" THEN v ELSE "x")

(* A property is set through its setter, from the inspector; the other        *)
(* setters take what is in range.                                             *)
Values(t) == CASE propertyType[t] = "Bool" -> {"true", "false"}
               [] propertyType[t] = "Int" -> Numerals
               [] propertyType[t] = "Enum" -> EnumItems
               [] propertyType[t] = "String" -> Texts
               [] propertyType[t] = "Orders" -> Orders
SetValue(e, v) ==
    /\ Editing
    /\ v \in Values(TypeOf(e))
    /\ propertyType[TypeOf(e)] = "Orders"
        => \E on \in BOOLEAN : v \in {SetXOrder(children[e].value, on), SetYOrder(children[e].value, on)}
    /\ children' = [children EXCEPT ![e].value = v]
    /\ outcome' = "none"
    /\ UNCHANGED <<pins, connections, changed, fileVars, loading>>

-----------------------------------------------------------------------------
(* Saving.  serialize() writes the elements and the connections in the order *)
(* of their ids.                                                             *)
Serialised ==
    [elements |-> [e \in Elements |-> [id |-> e, name |-> TypeOf(e), text |-> children[e].value]],
     connections |-> connections,
     origin |-> "saved"]

(* save() writes only when m_changed is set.  saveAs() first takes the name. *)
Save(f) ==
    /\ Editing
    /\ filename' = f
    /\ IF changed
       THEN files' = [files EXCEPT ![f] = Serialised] /\ wrote' = f
       ELSE UNCHANGED <<files, wrote>>
    /\ changed' = FALSE
    /\ outcome' = "none"
    /\ UNCHANGED <<graphVars, loading>>

SaveFailsReset(f) ==                 \* mutant: m_changed is reset in any case
    /\ Editing
    /\ changed
    /\ filename' = f
    /\ changed' = FALSE
    /\ outcome' = "none"
    /\ UNCHANGED <<graphVars, files, wrote, loading>>
(* The file cannot be opened: save() returns false and m_changed stays set.  *)
SaveFails(f) ==
    /\ Editing
    /\ changed
    /\ filename' = f
    /\ outcome' = "none"
    /\ UNCHANGED <<graphVars, changed, files, wrote, loading>>

-----------------------------------------------------------------------------
(* Loading. *)

(* load() refuses a pipeline that is not empty.  A missing file fails. *)
Load(f) ==
    /\ Editing
    /\ Elements = {}
    /\ filename' = f
    /\ IF files[f].origin = "absent"
       THEN outcome' = "failed" /\ UNCHANGED loading
       ELSE outcome' = "none" /\ loading' = [active |-> TRUE, doc |-> files[f]]
    /\ UNCHANGED <<graphVars, changed, files, wrote>>

FirstIn(l) == CHOOSE i \in DOMAIN l : \A j \in DOMAIN l : i <= j
Behead(l) == Restrict(l, DOMAIN l \ {FirstIn(l)})

(* The text of a property tag becomes a value of the property's type: a Bool *)
(* is true for "true" and "1" only, an Int is 0 when the text is no number,   *)
(* an Enum keeps its selection when there is no such item.  The setters of a  *)
(* new element then get the values one by one, xOrder before yOrder.          *)
TruthOne(text) == IF text = "1" THEN "true" ELSE "false"      \* mutant: only "1" is true
Truth(text) == IF text \in {"true", "1"} THEN "true" ELSE "false"
ConvertData(t, text) ==
    CASE propertyType[t] = "Bool" -> Truth(text)
      [] propertyType[t] = "Int" -> IF text \in Numerals THEN text ELSE "0"
      [] propertyType[t] = "Enum" -> IF text \in EnumItems THEN text ELSE EnumDefault
      [] propertyType[t] = "String" -> text
      [] propertyType[t] = "Orders" ->
            SetYOrder(SetXOrder("x", text \in {"x", "xy"}), text \in {"y", "xy"})

(* load() catches the exception: the elements and connections read so far     *)
(* stay in the pipeline.                                                      *)
LoadFails ==
    /\ loading' = NotLoading
    /\ outcome' = "failed"
    /\ UNCHANGED <<graphVars, changed, fileVars>>

(* parseElements, one round: an unknown type or a used id is an error.        *)
ElementOK(tag) == tag.name \in Types /\ (tag.id = -1 \/ tag.id \notin Elements)
ParseElement ==
    LET tag == loading.doc.elements[FirstIn(loading.doc.elements)]
    IN  /\ loading.active
        /\ loading.doc.elements # Nothing
        /\ \/ /\ ElementOK(tag)
              /\ AddUnder(IF tag.id = -1 THEN NewId(Elements) ELSE tag.id,
                          tag.name, ConvertData(tag.name, tag.text))
              /\ loading' = [loading EXCEPT !.doc.elements = Behead(@)]
              /\ UNCHANGED <<connections, fileVars, outcome>>
           \/ ~ElementOK(tag) /\ LoadFails

(* parseConnections, one round: both elements and both pins have to exist     *)
(* and to accept each other.                                                  *)
ConnectionOK(tag) ==
    /\ tag.src \in Elements
    /\ tag.dst \in Elements
    /\ tag.out \in OutPins(tag.src)
    /\ tag.in \in InPins(tag.dst)
    /\ CanConnect(tag)
ParseConnection ==
    LET tag == loading.doc.connections[FirstIn(loading.doc.connections)]
    IN  /\ loading.active
        /\ loading.doc.elements = Nothing
        /\ loading.doc.connections # Nothing
        /\ \/ /\ ConnectionOK(tag)
              /\ ConnectPins(tag)
              /\ loading' = [loading EXCEPT !.doc.connections = Behead(@)]
              /\ UNCHANGED <<children, changed, fileVars, outcome>>
           \/ ~ConnectionOK(tag) /\ LoadFails

LoadDone ==
    /\ loading.active
    /\ loading.doc.elements = Nothing
    /\ loading.doc.connections = Nothing
    /\ loading' = NotLoading
    /\ outcome' = "loaded"
    /\ UNCHANGED <<graphVars, changed, fileVars>>

-----------------------------------------------------------------------------
Init ==
    /\ children = Nothing
    /\ pins = Nothing
    /\ connections = Nothing
    /\ changed \in BOOLEAN
    /\ filename = ""
    /\ files = InitialFiles
    /\ loading = NotLoading
    /\ outcome = "none"
    /\ wrote = ""

Lines == UNION {UNION {[src : {s}, out : OutPins(s), dst : {d}, in : InPins(d)] :
                       d \in Elements} : s \in Elements}

Edit ==
    \/ \E t \in Types : AddElement(t)
    \/ \E e \in Elements : RemoveElement(e) \/ \E v \in UserValues : SetValue(e, v)
    \/ \E x \in Lines : Connect(x)
    \/ \E c \in Connections : Disconnect(c)
    \/ Clear
    \/ NewPipeline

Next ==
    \/ Edit
    \/ Cardinality(Elements) <= MaxSaved /\ \E f \in SaveNames : Save(f) \/ SaveFails(f)
    \/ \E f \in FileNames : Load(f)
    \/ ParseElement
    \/ ParseConnection
    \/ LoadDone

Spec == Init /\ [][Next]_pipelineVars

-----------------------------------------------------------------------------
(* Type correctness of the graph, the file system and the loader; a property  *)
(* has a value of its type, also one read from a file (convertData).          *)
ElementRecords == [type : Types, value : Texts]
TypeOK ==
    /\ Elements \subseteq Int /\ IsFiniteSet(Elements)
    /\ children \in [Elements -> ElementRecords]
    /\ \A e \in Elements : children[e].value \in Values(TypeOf(e))
    /\ pins \in [Elements -> SUBSET Nat]
    /\ \A e \in Elements : IsFiniteSet(pins[e])
    /\ IsList(connections, ConnectionTags)
    /\ changed \in BOOLEAN
    /\ {filename, wrote} \subseteq FileNames \cup {""}
    /\ files \in [FileNames -> {files[f] : f \in FileNames}]
    /\ \A f \in FileNames : IsDocument(files[f])
    /\ loading = [active |-> loading.active, doc |-> loading.doc]
    /\ loading.active \in BOOLEAN /\ IsDocument(loading.doc)
    /\ outcome \in {"none", "loaded", "failed"}

(* The graph is well typed and sound after every edit and at every moment of a load(), also  *)
(* one that fails halfway: a connection joins existing pins of different      *)
(* elements with equal types, an input pin has at most one connection, and an *)
(* element has the pins of its type, one with dynamic pins exactly one that is *)
(* still free (PinConnection::connect, TCPServerProcessor's hooks).           *)
EndsExist == \A c \in Connections :
    LET x == connections[c]
    IN  /\ x.src \in Elements /\ x.dst \in Elements /\ x.src # x.dst
        /\ x.out \in OutPins(x.src) /\ x.in \in InPins(x.dst)
TypesAgree == \A c \in Connections :
    LET x == connections[c]
    IN  TypeOf(x.dst) \notin Dynamic
            => outType[TypeOf(x.src)][x.out] = inType[TypeOf(x.dst)][x.in]
OneConnectionPerInput == \A c, d \in Connections :
    (connections[c].dst = connections[d].dst /\ connections[c].in = connections[d].in) => c = d
FreePins(e) == {p \in pins[e] : ~Connected(e, p)}
PinsAsDeclared == \A e \in Elements :
    IF TypeOf(e) \in Dynamic THEN \E p \in pins[e] : FreePins(e) = {p}
                             ELSE pins[e] = DOMAIN inType[TypeOf(e)]
GraphSound == TypeOK /\ EndsExist /\ TypesAgree /\ OneConnectionPerInput /\ PinsAsDeclared

(* A file that save() wrote loads again exactly when the connections to each  *)
(* element with dynamic pins, in the order of their ids, use its pins 0, 1,   *)
(* 2...: a loaded element starts with pin 0 and gets the others one by one.   *)
(* Disconnecting a lower pin first makes a file that cannot be loaded.        *)
RankIn(l, i) == Cardinality({j \in DOMAIN l : l[j].dst = l[i].dst /\ j < i})
InPinOrder(doc) ==
    \A i \in DOMAIN doc.connections :
        LET x == doc.connections[i]
        IN  doc.elements[x.dst].name \in Dynamic => x.in = RankIn(doc.connections, i)
LoadsAgain(doc) == outcome = "loaded" <=> InPinOrder(doc)

(* What load() makes of a file that save() wrote is the pipeline that was     *)
(* saved: the same elements under the same ids with the same properties, and  *)
(* the same connections (under new ids).  But for one property: a Sobel       *)
(* filter of order (0, 1) comes back with order (1, 1), as setXOrder(false)   *)
(* is refused before yOrder is set.                                           *)
ComesBackAs(t, text) == IF propertyType[t] = "Orders" /\ text = "y" THEN "xy" ELSE text
SameElements(doc) ==
    /\ Elements = DOMAIN doc.elements
    /\ \A e \in Elements :
        LET tag == doc.elements[e]
        IN  children[e] = [type |-> tag.name, value |-> ComesBackAs(tag.name, tag.text)]
SameGraph(doc) ==
    /\ SameElements(doc)
    /\ {connections[c] : c \in Connections} = {doc.connections[i] : i \in DOMAIN doc.connections}
    /\ Cardinality(Connections) = Cardinality(DOMAIN doc.connections)

(* Loading a file that save() wrote gives the pipeline back, exactly so far,  *)
(* for the files that load (PipelineLoader::serialize, parseElements,         *)
(* parseConnections).                                                         *)
RoundTrip ==
    (outcome # "none" /\ files[filename].origin = "saved")
        => /\ LoadsAgain(files[filename])
           /\ outcome = "loaded" => SameGraph(files[filename])

(* When m_changed is reset, the file that was written has all elements of the *)
(* pipeline and no other.  (Connections and properties may differ: changing   *)
(* them does not set m_changed, and save() then does nothing.)                *)
ElementsSaved ==
    (~changed /\ wrote # "" /\ wrote = filename /\ ~loading.active)
        => \A e \in Elements \cup DOMAIN files[wrote].elements :
                /\ e \in Elements /\ e \in DOMAIN files[wrote].elements
                /\ files[wrote].elements[e].name = TypeOf(e)
=============================================================================
