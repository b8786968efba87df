----------------------------- MODULE GraphProofs -----------------------------
(* Proofs about PipelineGraph: the graph is sound whatever is edited and      *)
(* loaded, the file that was written has the elements of a pipeline that      *)
(* claims to be unchanged, and a saved pipeline is loaded as it was saved.    *)
EXTENDS PipelineGraph, FiniteSetTheorems, WellFoundedInduction, TLAPS

-----------------------------------------------------------------------------
(* Ids. *)

LEMMA LeastNatural ==
    ASSUME NEW N \in SUBSET Nat, N # {}
    PROVE  \E n \in N : \A m \in N : n <= m
<1>1. PICK x \in N : \A y \in N : ~(<<y, x>> \in OpToRel(<, Nat))
  BY NatLessThanWellFounded, WFMin
<1>2. \A y \in N : ~(y < x)
  BY <1>1 DEF OpToRel
<1> QED
  BY <1>2

LEMMA UptoFacts ==
    ASSUME NEW S \in SUBSET Int, IsFiniteSet(S), NEW i \in Int
    PROVE  /\ Upto(S, i) \in SUBSET S /\ IsFiniteSet(Upto(S, i))
           /\ Cardinality(Upto(S, i)) \in Nat /\ Cardinality(S) \in Nat
           /\ Cardinality(Upto(S, i)) <= Cardinality(S)
<1>1. Upto(S, i) \in SUBSET S
  BY DEF Upto
<1> QED
  BY <1>1, FS_Subset, FS_CardinalityType

(* getNewElementId, getNewConnectionId: the new id is not in use. *)
LEMMA NewIdIsNew ==
    ASSUME NEW S \in SUBSET Int, IsFiniteSet(S)
    PROVE  NewId(S) \in Nat \ S
<1> DEFINE n == Cardinality(S)
           c(i) == Cardinality(Upto(S, i))
           N == {i \in Nat : c(i) <= i}
           Is(i) == c(i) <= i /\ \A j \in 0 .. i - 1 : c(j) > j
<1>1. n \in Nat /\ \A i \in Int : c(i) \in Nat /\ c(i) <= n
  BY UptoFacts, FS_CardinalityType
<1> HIDE DEF n, c
<1>2. n \in N
  BY <1>1
<1>3. PICK i \in N : \A m \in N : i <= m
  BY <1>2, LeastNatural
<1>4. i \in 0 .. n /\ Is(i)
  <2>1. i \in Nat /\ i <= n /\ c(i) <= i
    BY <1>1, <1>2, <1>3
  <2>2. ASSUME NEW j \in 0 .. i - 1 PROVE c(j) > j
    <3>1. j \notin N
      BY <1>3, <2>1
    <3> QED
      BY <1>1, <3>1
  <2> QED
    BY <1>1, <2>1, <2>2
<1>5. NewId(S) = CHOOSE k \in 0 .. n : Is(k)
  BY DEF NewId, n, c
<1> DEFINE k == NewId(S)
<1>6. k \in 0 .. n /\ Is(k)
  BY <1>4, <1>5
<1> HIDE DEF k
<1>7. ASSUME k \in S PROVE FALSE
  <2>1. Upto(S, k) = Upto(S, k - 1) \cup {k} /\ k \notin Upto(S, k - 1)
    <3>1. k \in Int /\ \A x \in S : x \in Int /\ (x <= k <=> x <= k - 1 \/ x = k)
      BY <1>1, <1>6
    <3>2. k <= k /\ ~(k <= k - 1)
      BY <3>1
    <3>3. \A x : x \in Upto(S, k) <=> x \in Upto(S, k - 1) \/ x = k
      BY <1>7, <3>1, <3>2, Zenon DEF Upto
    <3>4. k \notin Upto(S, k - 1)
      BY <3>2 DEF Upto
    <3> QED
      BY <3>3, <3>4
  <2>2. IsFiniteSet(Upto(S, k - 1)) /\ k - 1 \in Int /\ k \in Int
    BY <1>1, <1>6, UptoFacts
  <2>3. c(k) = c(k - 1) + 1
    BY <2>1, <2>2, FS_AddElement DEF c
  <2>4. CASE k = 0
    BY <1>1, <1>6, <2>2, <2>3, <2>4
  <2>5. CASE k > 0
    <3>1. c(k - 1) > k - 1
      BY <1>1, <1>6, <2>5
    <3> QED
      BY <1>1, <1>6, <2>2, <2>3, <3>1
  <2> QED
    BY <1>1, <1>6, <2>4, <2>5
<1> QED
  BY <1>1, <1>6, <1>7 DEF k

(* getNextInputPinId: the new pin id is not in use. *)
LEMMA NextPinIdIsNew ==
    ASSUME NEW S \in SUBSET Nat, IsFiniteSet(S)
    PROVE  NextPinId(S) \in Nat \ S
<1> DEFINE n == Cardinality(S)
<1>1. n \in Nat
  BY FS_CardinalityType
<1>2. Nat \ S # {}
  <2>1. SUFFICES ASSUME Nat \ S = {} PROVE FALSE
    OBVIOUS
  <2>2. 0 .. n \in SUBSET S
    BY <1>1, <2>1
  <2>3. Cardinality(0 .. n) <= n
    BY <2>2, FS_Subset
  <2>4. Cardinality(0 .. n) = n + 1
    BY <1>1, FS_Interval
  <2> QED
    BY <1>1, <2>3, <2>4
<1>3. PICK i \in Nat \ S : \A m \in Nat \ S : i <= m
  BY <1>2, LeastNatural
<1>4. \A j \in 0 .. i - 1 : j \in S
  BY <1>3
<1>5. i <= n
  <2>1. 0 .. i - 1 \in SUBSET S
    BY <1>4
  <2>2. Cardinality(0 .. i - 1) <= n
    BY <2>1, FS_Subset
  <2>3. Cardinality(0 .. i - 1) = i
    <3>1. 0 \in Int /\ i - 1 \in Int
      OBVIOUS
    <3>2. Cardinality(0 .. i - 1) = IF 0 > i - 1 THEN 0 ELSE (i - 1) - 0 + 1
      BY <3>1, FS_Interval
    <3> QED
      BY <3>2
  <2> QED
    BY <2>2, <2>3
<1>6. \E k \in 0 .. n : k \notin S /\ \A j \in 0 .. k - 1 : j \in S
  BY <1>1, <1>3, <1>4, <1>5
<1> HIDE DEF n
<1> QED
  BY <1>1, <1>6 DEF NextPinId, n

(* The first tag of a list is one of its tags, and before all others. *)
LEMMA FirstInIsIn ==
    ASSUME NEW Tags, NEW l, IsList(l, Tags), DOMAIN l # {}
    PROVE  FirstIn(l) \in DOMAIN l /\ \A j \in DOMAIN l : FirstIn(l) <= j
<1> DEFINE S == DOMAIN l
           c(i) == Cardinality(Upto(S, i))
           N == {c(i) : i \in S}
<1>1. S \in SUBSET Int /\ IsFiniteSet(S)
  BY DEF IsList
<1> HIDE DEF S
<1>2. N \in SUBSET Nat /\ N # {}
  BY <1>1, UptoFacts DEF S
<1>3. PICK n \in N : \A m \in N : n <= m
  BY <1>2, LeastNatural
<1>4. PICK i \in S : n = c(i)
  OBVIOUS
<1>5. ASSUME NEW j \in S, ~(i <= j) PROVE FALSE
  <2>1. j < i /\ i \in Int /\ j \in Int
    BY <1>1, <1>5
  <2>2. Upto(S, j) \in SUBSET Upto(S, i) /\ i \in Upto(S, i) /\ i \notin Upto(S, j)
    <3>1. i <= i /\ ~(i <= j) /\ \A x \in S : x <= j => x <= i
      BY <1>1, <2>1
    <3>2. \A x : x \in Upto(S, j) => x \in Upto(S, i)
      BY <3>1, Zenon DEF Upto
    <3> QED
      BY <3>1, <3>2 DEF Upto
  <2>3. IsFiniteSet(Upto(S, i)) /\ c(i) \in Nat /\ c(j) \in Nat
    BY <1>1, <2>1, UptoFacts
  <2>4. c(j) <= c(i) /\ (c(i) = c(j) => Upto(S, i) = Upto(S, j))
    <3> DEFINE A == Upto(S, i)
               B == Upto(S, j)
    <3>1. IsFiniteSet(A) /\ B \in SUBSET A
      BY <2>2, <2>3
    <3> HIDE DEF A, B
    <3>2. Cardinality(B) <= Cardinality(A) /\ (Cardinality(A) = Cardinality(B) => A = B)
      BY <3>1, FS_Subset
    <3> QED
      BY <3>2 DEF A, B
  <2>5. c(i) <= c(j)
    BY <1>3, <1>4
  <2> QED
    BY <2>2, <2>3, <2>4, <2>5
<1> QED
  BY <1>5 DEF FirstIn, S

-----------------------------------------------------------------------------
(* The graph. *)
GraphTypes ==
    /\ Elements \subseteq Int /\ IsFiniteSet(Elements)
    /\ children \in [Elements -> ElementRecords]
    /\ \A e \in Elements : children[e].value \in Values(TypeOf(e))
    /\ pins \in [Elements -> SUBSET Nat]
    /\ \A e \in Elements : IsFiniteSet(pins[e])
    /\ IsList(connections, ConnectionTags)
Structure == EndsExist /\ TypesAgree /\ OneConnectionPerInput /\ PinsAsDeclared
FileTypes ==
    /\ changed \in BOOLEAN
    /\ {filename, wrote} \subseteq FileNames \cup {""}
    /\ files \in [FileNames -> {files[f] : f \in FileNames}]
    /\ \A f \in FileNames : IsDocument(files[f])
    /\ loading = [active |-> loading.active, doc |-> loading.doc]
    /\ loading.active \in BOOLEAN /\ IsDocument(loading.doc)
    /\ outcome \in {"none", "loaded", "failed"}

LEMMA SoundParts == GraphSound <=> GraphTypes /\ Structure /\ FileTypes
  BY DEF GraphSound, TypeOK, GraphTypes, Structure, FileTypes

(* What the types say of one element, and of one connection. *)
LEMMA ElementFacts ==
    ASSUME GraphTypes, NEW e \in Elements
    PROVE  /\ e \in Int /\ children[e] \in ElementRecords /\ TypeOf(e) \in Types
           /\ pins[e] \in SUBSET Nat /\ IsFiniteSet(pins[e])
  BY DEF GraphTypes, ElementRecords, TypeOf

LEMMA ConnectionFacts ==
    ASSUME GraphTypes
    PROVE  /\ Connections \subseteq Int /\ IsFiniteSet(Connections)
           /\ connections \in [Connections -> ConnectionTags]
  BY DEF GraphTypes, IsList, Connections

(* addElement under an id that is free. *)
LEMMA AddKeepsSound ==
    ASSUME GraphTypes, Structure, NEW id \in Int \ Elements, NEW t \in Types, NEW v \in Values(t),
           v \in Texts, AddUnder(id, t, v), connections' = connections
    PROVE  GraphTypes' /\ Structure'
<1>1. /\ Elements' = Elements \cup {id} /\ Connections' = Connections
      /\ children'[id] = [type |-> t, value |-> v]
      /\ pins'[id] = DOMAIN inType[t]
      /\ \A e \in Elements : children'[e] = children[e] /\ pins'[e] = pins[e]
  BY DEF AddUnder, Insert, Elements, Connections, GraphTypes
<1>2. DOMAIN inType[t] \in SUBSET Nat /\ IsFiniteSet(DOMAIN inType[t])
  BY TypesAssumption
<1>3. GraphTypes'
  <2>1. Elements' \subseteq Int /\ IsFiniteSet(Elements')
    BY <1>1, FS_AddElement DEF GraphTypes
  <2>2. children' \in [Elements' -> ElementRecords] /\ pins' \in [Elements' -> SUBSET Nat]
    <3>1. DOMAIN pins = Elements /\ DOMAIN children = Elements
      BY DEF GraphTypes, Elements
    <3>2. /\ children' = [y \in Elements \cup {id} |-> IF y = id THEN [type |-> t, value |-> v] ELSE children[y]]
          /\ pins' = [y \in Elements \cup {id} |-> IF y = id THEN DOMAIN inType[t] ELSE pins[y]]
      BY <3>1, Zenon DEF AddUnder, Insert
    <3>3. \A e \in Elements : children[e] \in ElementRecords /\ pins[e] \in SUBSET Nat
      BY ElementFacts
    <3>4. [type |-> t, value |-> v] \in ElementRecords
      BY DEF ElementRecords
    <3> QED
      BY <1>1, <1>2, <3>2, <3>3, <3>4
  <2>3. \A e \in Elements' : children'[e].value \in Values(children'[e].type) /\ IsFiniteSet(pins'[e])
    <3>1. ASSUME NEW e \in Elements
          PROVE  children'[e].value \in Values(children'[e].type) /\ IsFiniteSet(pins'[e])
      <4>1. children[e].value \in Values(children[e].type) /\ IsFiniteSet(pins[e])
        BY DEF GraphTypes, TypeOf
      <4> QED
        BY <1>1, <4>1
    <3>2. children'[id].value \in Values(children'[id].type) /\ IsFiniteSet(pins'[id])
      <4>1. children'[id].type = t /\ children'[id].value = v
        BY <1>1
      <4> QED
        BY <1>1, <1>2, <4>1
    <3> QED
      BY <1>1, <3>1, <3>2
  <2>4. IsList(connections, ConnectionTags)'
    BY DEF GraphTypes, IsList
  <2> QED
    BY <2>1, <2>2, <2>3, <2>4 DEF GraphTypes, TypeOf
<1>4. \A e \in Elements : TypeOf(e)' = TypeOf(e) /\ OutPins(e)' = OutPins(e) /\ InPins(e)' = InPins(e)
  BY <1>1 DEF TypeOf, OutPins, InPins
<1>5. \A c \in Connections : connections[c].src \in Elements /\ connections[c].dst \in Elements
  BY DEF Structure, EndsExist
<1>6. EndsExist'
  BY <1>1, <1>4 DEF Structure, EndsExist
<1>7. TypesAgree' /\ OneConnectionPerInput'
  BY <1>1, <1>4, <1>5 DEF Structure, TypesAgree, OneConnectionPerInput
<1>8. ASSUME NEW e \in Elements' PROVE
        IF TypeOf(e)' \in Dynamic THEN \E p \in pins'[e] : FreePins(e)' = {p}
                                  ELSE pins'[e] = DOMAIN inType[TypeOf(e)']
  <2>1. CASE e \in Elements
    <3>1. FreePins(e)' = FreePins(e)
      BY <1>1, <2>1 DEF FreePins, Connected, Connections
    <3> QED
      BY <1>1, <1>4, <2>1, <3>1 DEF Structure, PinsAsDeclared
  <2>2. CASE e = id
    <3>1. TypeOf(e)' = t
      BY <1>1, <2>2 DEF TypeOf
    <3>2. \A p : ~Connected(e, p)'
      BY <1>1, <1>5, <2>2 DEF Connected
    <3>3. t \in Dynamic => FreePins(e)' = {0} /\ pins'[e] = {0}
      BY <1>1, <2>2, <3>2, TypesAssumption DEF FreePins
    <3> QED
      BY <1>1, <2>2, <3>1, <3>3
  <2> QED
    BY <1>1, <2>1, <2>2
<1>9. PinsAsDeclared'
  BY <1>8 DEF PinsAsDeclared
<1> QED
  BY <1>3, <1>6, <1>7, <1>9 DEF Structure

(* connectPins of two pins that exist and accept each other. *)
LEMMA ConnectKeepsSound ==
    ASSUME GraphTypes, Structure, NEW x \in ConnectionTags,
           x.src \in Elements, x.dst \in Elements,
           x.out \in OutPins(x.src), x.in \in InPins(x.dst),
           CanConnect(x), ConnectPins(x), children' = children
    PROVE  GraphTypes' /\ Structure'
<1> DEFINE n == NewId(Connections)
           q == NextPinId(pins[x.dst])
<1>1. n \in Nat \ Connections
  BY ConnectionFacts, NewIdIsNew
<1>2. pins[x.dst] \in SUBSET Nat /\ IsFiniteSet(pins[x.dst])
  BY ElementFacts
<1>3. q \in Nat \ pins[x.dst]
  <2> DEFINE S == pins[x.dst]
  <2> HIDE DEF S
  <2>1. NextPinId(S) \in Nat \ S
    BY <1>2, NextPinIdIsNew DEF S
  <2> QED
    BY <2>1 DEF S
<1>4. /\ connections' = Insert(connections, n, x)
      /\ pins' = IF TypeOf(x.dst) \in Dynamic
                 THEN [pins EXCEPT ![x.dst] = pins[x.dst] \cup {q}] ELSE pins
  BY DEF ConnectPins
<1> HIDE DEF n, q
<1>5. /\ Connections' = Connections \cup {n} /\ connections'[n] = x
      /\ \A c \in Connections : connections'[c] = connections[c]
  BY <1>1, <1>4 DEF Insert, Connections
<1>6. /\ Elements' = Elements
      /\ \A e \in Elements : TypeOf(e)' = TypeOf(e) /\ OutPins(e)' = OutPins(e)
  BY DEF Elements, TypeOf, OutPins
<1>7. /\ \A e \in Elements : e # x.dst \/ TypeOf(e) \notin Dynamic => pins'[e] = pins[e]
      /\ TypeOf(x.dst) \in Dynamic => pins'[x.dst] = pins[x.dst] \cup {q}
      /\ \A e \in Elements : pins[e] \subseteq pins'[e]
  BY <1>4 DEF GraphTypes
<1>8. GraphTypes'
  <2>1. pins' \in [Elements -> SUBSET Nat]
    BY <1>2, <1>3, <1>4 DEF GraphTypes
  <2>2. \A e \in Elements : IsFiniteSet(pins'[e])
    <3>1. IsFiniteSet(pins[x.dst] \cup {q})
      BY <1>2, FS_AddElement
    <3> QED
      BY <1>7, <3>1 DEF GraphTypes
  <2>3. IsList(connections, ConnectionTags)'
    <3>1. IsFiniteSet(Connections \cup {n}) /\ Connections \cup {n} \subseteq Int
      BY <1>1, ConnectionFacts, FS_AddElement
    <3>2. DOMAIN connections' = Connections \cup {n}
      BY <1>5 DEF Connections
    <3>3. connections' \in [Connections \cup {n} -> ConnectionTags]
      BY <1>4, ConnectionFacts DEF Insert, Connections
    <3> QED
      BY <3>1, <3>2, <3>3 DEF IsList
  <2> QED
    BY <1>6, <2>1, <2>2, <2>3 DEF GraphTypes
<1>9. /\ \A c \in Connections : connections[c].src \in Elements /\ connections[c].dst \in Elements
      /\ \A c \in Connections : connections[c].in \in pins[connections[c].dst]
  BY DEF Structure, EndsExist, InPins
<1>10. EndsExist'
  BY <1>5, <1>6, <1>7, <1>9 DEF Structure, EndsExist, InPins, CanConnect
<1>11. TypesAgree'
  BY <1>5, <1>6, <1>9 DEF Structure, TypesAgree, CanConnect
<1>12. OneConnectionPerInput'
  BY <1>5 DEF Structure, OneConnectionPerInput, CanConnect, Connected
<1>13. \A e, p : Connected(e, p)' <=> Connected(e, p) \/ (e = x.dst /\ p = x.in)
  BY <1>5 DEF Connected
<1>14. ASSUME NEW e \in Elements' PROVE
        IF TypeOf(e)' \in Dynamic THEN \E p \in pins'[e] : FreePins(e)' = {p}
                                  ELSE pins'[e] = DOMAIN inType[TypeOf(e)']
  <2>1. CASE TypeOf(e) \notin Dynamic
    BY <1>6, <1>7, <2>1 DEF Structure, PinsAsDeclared
  <2>2. CASE TypeOf(e) \in Dynamic /\ e # x.dst
    <3>1. FreePins(e)' = FreePins(e)
      BY <1>6, <1>7, <1>13, <2>2 DEF FreePins
    <3> QED
      BY <1>6, <1>7, <2>2, <3>1 DEF Structure, PinsAsDeclared
  <2>3. CASE TypeOf(e) \in Dynamic /\ e = x.dst
    <3>1. PICK p \in pins[e] : FreePins(e) = {p}
      BY <2>3 DEF Structure, PinsAsDeclared
    <3>2. x.in \in FreePins(e)
      BY <2>3 DEF FreePins, CanConnect, InPins
    <3>3. ~Connected(e, q) /\ q # x.in
      BY <1>3, <1>9, <2>3 DEF Connected, InPins
    <3>4. \A r : r \in FreePins(e)' <=> r = q
      BY <1>7, <1>13, <2>3, <3>1, <3>2, <3>3 DEF FreePins
    <3> QED
      BY <1>6, <1>7, <2>3, <3>4
  <2> QED
    BY <1>6, <2>1, <2>2, <2>3
<1>15. PinsAsDeclared'
  BY <1>14 DEF PinsAsDeclared
<1> QED
  BY <1>8, <1>10, <1>11, <1>12, <1>15 DEF Structure

(* The connections C and the elements E go, and no connection that stays ends *)
(* at an element of E.                                                        *)
LEMMA RemoveKeepsSound ==
    ASSUME GraphTypes, Structure, NEW C \in SUBSET Connections, NEW E \in SUBSET Elements,
           \A c \in Connections \ C : connections[c].src \notin E /\ connections[c].dst \notin E,
           connections' = Restrict(connections, Connections \ C),
           children' = Restrict(children, Elements \ E),
           pins' = Restrict(PinsWithout(C), Elements \ E)
    PROVE  GraphTypes' /\ Structure'
<1>1. /\ Connections' = Connections \ C
      /\ \A c \in Connections \ C : connections'[c] = connections[c]
  BY DEF Restrict, Connections
<1>2. /\ Elements' = Elements \ E
      /\ \A e \in Elements \ E : /\ children'[e] = children[e] /\ TypeOf(e)' = TypeOf(e)
                                 /\ OutPins(e)' = OutPins(e)
  BY DEF Restrict, Elements, TypeOf, OutPins
<1>3. /\ \A e \in Elements \ E : TypeOf(e) \notin Dynamic => pins'[e] = pins[e]
      /\ \A e \in Elements \ E : TypeOf(e) \in Dynamic => pins'[e] = pins[e] \ LostPins(C, e)
      /\ \A e \in Elements \ E : pins'[e] \subseteq pins[e]
  BY DEF Restrict, PinsWithout
<1>4. GraphTypes'
  <2>1. Elements' \subseteq Int /\ IsFiniteSet(Elements')
    BY <1>2, FS_Subset DEF GraphTypes
  <2>2. children' \in [Elements' -> ElementRecords]
    BY <1>2, ElementFacts DEF Restrict
  <2>3. pins' \in [Elements' -> SUBSET Nat]
    <3>1. DOMAIN pins' = Elements'
      BY <1>2 DEF Restrict
    <3>2. \A e \in Elements' : pins'[e] \in SUBSET Nat
      BY <1>2, <1>3, ElementFacts
    <3>3. pins' = [e \in Elements \ E |-> PinsWithout(C)[e]]
      BY DEF Restrict
    <3> QED
      BY <1>2, <3>2, <3>3
  <2>4. \A e \in Elements' : children'[e].value \in Values(children'[e].type)
    <3>1. \A e \in Elements : children[e].value \in Values(children[e].type)
      BY DEF GraphTypes, TypeOf
    <3> QED
      BY <1>2, <3>1
  <2>5. \A e \in Elements' : IsFiniteSet(pins'[e])
    BY <1>2, <1>3, ElementFacts, FS_Subset
  <2>6. IsList(connections, ConnectionTags)'
    <3>1. IsFiniteSet(Connections \ C) /\ Connections \ C \subseteq Int
      BY ConnectionFacts, FS_Subset
    <3>2. connections' \in [Connections \ C -> ConnectionTags]
      BY ConnectionFacts DEF Restrict
    <3>3. DOMAIN connections' = Connections \ C
      BY <1>1 DEF Connections
    <3> QED
      BY <3>1, <3>2, <3>3 DEF IsList
  <2> QED
    BY <2>1, <2>2, <2>3, <2>4, <2>5, <2>6 DEF GraphTypes, TypeOf
<1>5. EndsExist'
  <2> SUFFICES ASSUME NEW c \in Connections \ C
      PROVE /\ connections[c].src \in Elements \ E /\ connections[c].dst \in Elements \ E
            /\ connections[c].src # connections[c].dst
            /\ connections[c].out \in OutPins(connections[c].src)
            /\ connections[c].in \in pins'[connections[c].dst]
    BY <1>1, <1>2, ZenonT(30) DEF EndsExist, InPins
  <2>1. /\ connections[c].src \in Elements \ E /\ connections[c].dst \in Elements \ E
        /\ connections[c].src # connections[c].dst
        /\ connections[c].out \in OutPins(connections[c].src)
        /\ connections[c].in \in pins[connections[c].dst]
    BY DEF Structure, EndsExist, InPins
  <2>2. connections[c].in \notin LostPins(C, connections[c].dst)
    BY DEF Structure, OneConnectionPerInput, LostPins
  <2> QED
    BY <1>3, <2>1, <2>2, ZenonT(30)
<1>6. \A c \in Connections \ C : connections[c].src \in Elements \ E /\ connections[c].dst \in Elements \ E
  BY DEF Structure, EndsExist
<1>7. TypesAgree' /\ OneConnectionPerInput'
  <2>1. TypesAgree'
    <3> SUFFICES ASSUME NEW c \in Connections \ C
        PROVE  children'[connections[c].dst].type \notin Dynamic
                 => outType[children'[connections[c].src].type][connections[c].out]
                      = inType[children'[connections[c].dst].type][connections[c].in]
      BY <1>1, ZenonT(30) DEF TypesAgree, TypeOf
    <3>1. /\ children'[connections[c].dst] = children[connections[c].dst]
          /\ children'[connections[c].src] = children[connections[c].src]
      BY <1>2, <1>6
    <3> QED
      BY <3>1 DEF Structure, TypesAgree, TypeOf
  <2>2. OneConnectionPerInput'
    <3>1. OneConnectionPerInput
      BY DEF Structure
    <3> SUFFICES ASSUME NEW c \in Connections \ C, NEW d \in Connections \ C,
                        connections[c].dst = connections[d].dst, connections[c].in = connections[d].in
        PROVE  c = d
      BY <1>1 DEF OneConnectionPerInput
    <3> QED
      BY <3>1 DEF OneConnectionPerInput
  <2> QED
    BY <2>1, <2>2
<1>8. ASSUME NEW e \in Elements \ E PROVE
        IF TypeOf(e)' \in Dynamic THEN \E p \in pins'[e] : FreePins(e)' = {p}
                                  ELSE pins'[e] = DOMAIN inType[TypeOf(e)']
  <2>1. CASE TypeOf(e) \notin Dynamic
    BY <1>2, <1>3, <2>1 DEF Structure, PinsAsDeclared
  <2>2. CASE TypeOf(e) \in Dynamic
    <3>1. PICK p \in pins[e] : FreePins(e) = {p}
      BY <2>2 DEF Structure, PinsAsDeclared
    <3>2. ASSUME NEW r \in pins[e] \ LostPins(C, e) PROVE Connected(e, r)' <=> Connected(e, r)
      <4>1. \A c \in C : ~(connections[c].dst = e /\ connections[c].in = r)
        BY DEF LostPins
      <4> QED
        BY <1>1, <4>1 DEF Connected
    <3>3. p \notin LostPins(C, e)
      BY <3>1 DEF FreePins, Connected, LostPins
    <3>4. \A r : r \in FreePins(e)' <=> r = p
      BY <1>3, <2>2, <3>1, <3>2, <3>3 DEF FreePins
    <3>5. FreePins(e)' = {p}
      BY <3>4
    <3>6. p \in pins'[e]
      BY <1>3, <2>2, <3>3
    <3> QED
      BY <1>2, <2>2, <3>5, <3>6
  <2> QED
    BY <2>1, <2>2
<1>9. PinsAsDeclared'
  BY <1>2, <1>8 DEF PinsAsDeclared
<1> QED
  BY <1>4, <1>5, <1>7, <1>9 DEF Structure

(* A pipeline without elements and connections. *)
EmptyGraph == children = Nothing /\ pins = Nothing /\ connections = Nothing
LEMMA EmptyIsSound == EmptyGraph => GraphTypes /\ Structure
<1> SUFFICES ASSUME EmptyGraph PROVE GraphTypes /\ Structure
  OBVIOUS
<1> USE DEF EmptyGraph
<1>1. Elements = {} /\ Connections = {} /\ DOMAIN Nothing = {}
  BY DEF Nothing, Elements, Connections
<1>2. IsFiniteSet({})
  BY FS_EmptySet
<1>3. \A S : Nothing \in [{} -> S]
  BY DEF Nothing
<1>4. GraphTypes
  BY <1>1, <1>2, <1>3 DEF GraphTypes, IsList
<1> QED
  BY <1>1, <1>4 DEF Structure, EndsExist, TypesAgree, OneConnectionPerInput, PinsAsDeclared

-----------------------------------------------------------------------------
(* Values, tags and documents. *)

(* A default and a converted text are values of the property's type. *)
LEMMA ValueFacts ==
    ASSUME NEW t \in Types
    PROVE  /\ Values(t) \subseteq Texts /\ DefaultText(t) \in Values(t)
           /\ \A x \in Texts : ConvertData(t, x) \in Values(t)
<1>1. propertyType[t] \in {"Bool", "Int", "Enum", "String", "Orders"}
  BY TypesAssumption DEF PropertyTypes
<1>2. /\ EnumDefault \in EnumItems /\ EnumItems \subseteq Texts
      /\ Numerals \subseteq Texts /\ {"true", "false", ""} \subseteq Texts /\ Orders \subseteq Texts
  BY TypesAssumption
<1> QED
  BY <1>1, <1>2 DEF Values, DefaultText, ConvertData, Truth, Numerals, Orders, SetXOrder, SetYOrder

LEMMA NothingFacts ==
    /\ DOMAIN Nothing = {}
    /\ \A Tags : IsList(Nothing, Tags)
    /\ \A Tags, l : IsList(l, Tags) /\ l # Nothing => DOMAIN l # {}
<1>1. DOMAIN Nothing = {}
  BY DEF Nothing
<1>2. ASSUME NEW Tags PROVE IsList(Nothing, Tags)
  BY <1>1, FS_EmptySet DEF IsList, Nothing
<1>3. ASSUME NEW Tags, NEW l, IsList(l, Tags), DOMAIN l = {} PROVE l = Nothing
  <2>1. l \in [{} -> Tags]
    BY <1>3 DEF IsList
  <2> QED
    BY <2>1 DEF Nothing
<1> QED
  BY <1>1, <1>2, <1>3

(* One tag is read. *)
LEMMA BeheadFacts ==
    ASSUME NEW Tags, NEW l, IsList(l, Tags), l # Nothing
    PROVE  l[FirstIn(l)] \in Tags /\ IsList(Behead(l), Tags)
<1>1. FirstIn(l) \in DOMAIN l
  BY NothingFacts, FirstInIsIn
<1> DEFINE S == DOMAIN l \ {FirstIn(l)}
<1>2. S \subseteq DOMAIN l /\ S \subseteq Int /\ IsFiniteSet(S)
  BY FS_Subset DEF IsList
<1> HIDE DEF S
<1>3. Behead(l) = [i \in S |-> l[i]]
  BY DEF Behead, Restrict, S
<1>4. \A i \in DOMAIN l : l[i] \in Tags
  BY DEF IsList
<1>5. Behead(l) \in [S -> Tags]
  BY <1>2, <1>3, <1>4
<1>6. DOMAIN Behead(l) = S
  BY <1>3
<1> QED
  BY <1>1, <1>2, <1>4, <1>5, <1>6 DEF IsList

LEMMA NoFileIsDocument == IsDocument(NoFile)
  BY NothingFacts DEF IsDocument, NoFile

(* What serialize() writes is a document. *)
LEMMA SerialisedIsDocument ==
    ASSUME GraphTypes
    PROVE  IsDocument(Serialised)
<1> DEFINE l == [e \in Elements |-> [id |-> e, name |-> TypeOf(e), text |-> children[e].value]]
<1>1. IsList(l, ElementTags)
  <2>1. DOMAIN l = Elements /\ Elements \subseteq Int /\ IsFiniteSet(Elements)
    BY DEF GraphTypes
  <2>2. ASSUME NEW e \in Elements
        PROVE  [id |-> e, name |-> TypeOf(e), text |-> children[e].value] \in ElementTags
    <3>1. e \in Int /\ TypeOf(e) \in STRING /\ children[e].value \in Texts
      BY ElementFacts, TypesAssumption DEF ElementRecords
    <3> QED
      BY <3>1 DEF ElementTags
  <2>3. l \in [Elements -> ElementTags]
    BY <2>2
  <2> HIDE DEF l
  <2> QED
    BY <2>1, <2>3 DEF IsList
<1>2. IsList(connections, ConnectionTags)
  BY DEF GraphTypes
<1>3. Serialised = [elements |-> l, connections |-> connections, origin |-> "saved"]
  BY DEF Serialised
<1> HIDE DEF l
<1> QED
  BY <1>1, <1>2, <1>3 DEF IsDocument

-----------------------------------------------------------------------------
(* Every step keeps the graph sound. *)

(* A line the user can draw joins existing pins. *)
LEMMA LineFacts ==
    ASSUME GraphTypes, NEW x \in Lines
    PROVE  /\ x \in ConnectionTags
           /\ x.src \in Elements /\ x.dst \in Elements
           /\ x.out \in OutPins(x.src) /\ x.in \in InPins(x.dst)
<1>1. PICK s \in Elements, d \in Elements :
        x \in [src : {s}, out : OutPins(s), dst : {d}, in : InPins(d)]
  BY DEF Lines
<1>2. x = [src |-> s, out |-> x.out, dst |-> d, in |-> x.in] /\ x.out \in OutPins(s) /\ x.in \in InPins(d)
  BY <1>1
<1>3. s \in Int /\ d \in Int /\ TypeOf(s) \in Types /\ pins[d] \in SUBSET Nat
  BY ElementFacts
<1>4. OutPins(s) \subseteq Int /\ InPins(d) \subseteq Int
  <2>1. \A t \in Types : DOMAIN outType[t] \subseteq Nat
    BY TypesAssumption
  <2>2. DOMAIN outType[TypeOf(s)] \subseteq Nat
    BY <1>3, <2>1
  <2> QED
    BY <1>3, <2>2 DEF OutPins, InPins
<1>5. x.src = s /\ x.dst = d /\ x.out \in Int /\ x.in \in Int
  BY <1>1, <1>4
<1> QED
  BY <1>1, <1>2, <1>3, <1>5 DEF ConnectionTags

(* Steps that leave the file system and the loader alone. *)
LEMMA FileTypesKept ==
    ASSUME FileTypes, UNCHANGED <<filename, files, wrote, loading>>, changed' \in BOOLEAN,
           outcome' \in {"none", "loaded", "failed"}
    PROVE  FileTypes'
  BY DEF FileTypes

LEMMA EditKeepsSound ==
    ASSUME GraphTypes, Structure, FileTypes, Edit
    PROVE  GraphTypes' /\ Structure' /\ FileTypes'
<1>1. ASSUME NEW t \in Types, AddElement(t) PROVE GraphTypes' /\ Structure' /\ FileTypes'
  <2>1. NewId(Elements) \in Int \ Elements
    BY NewIdIsNew DEF GraphTypes
  <2>2. DefaultText(t) \in Values(t) /\ DefaultText(t) \in Texts
    BY ValueFacts
  <2>3. AddUnder(NewId(Elements), t, DefaultText(t)) /\ connections' = connections
    BY <1>1 DEF AddElement
  <2>4. PICK i \in Int \ Elements : i = NewId(Elements)
    BY <2>1
  <2>5. PICK v \in Values(t) : v = DefaultText(t)
    BY <2>2
  <2>6. AddUnder(i, t, v) /\ v \in Texts
    BY <2>2, <2>3, <2>4, <2>5
  <2>7. GraphTypes' /\ Structure'
    BY <2>3, <2>6, AddKeepsSound
  <2>8. FileTypes'
    BY <1>1, FileTypesKept DEF AddElement, AddUnder, fileVars
  <2> QED
    BY <2>7, <2>8
<1>2. ASSUME NEW e \in Elements, RemoveElement(e) PROVE GraphTypes' /\ Structure' /\ FileTypes'
  <2>1. PICK C : C = ConnectionsOf(e)
    OBVIOUS
  <2>2. /\ C \in SUBSET Connections /\ {e} \in SUBSET Elements
        /\ \A c \in Connections \ C : connections[c].src \notin {e} /\ connections[c].dst \notin {e}
    BY <2>1 DEF ConnectionsOf
  <2>3. /\ connections' = Restrict(connections, Connections \ C)
        /\ children' = Restrict(children, Elements \ {e})
        /\ pins' = Restrict(PinsWithout(C), Elements \ {e})
    BY <1>2, <2>1 DEF RemoveElement
  <2>4. GraphTypes' /\ Structure'
    BY <2>2, <2>3, RemoveKeepsSound
  <2>5. FileTypes'
    BY <1>2, FileTypesKept DEF RemoveElement, fileVars
  <2> QED
    BY <2>4, <2>5
<1>3. ASSUME NEW e \in Elements, NEW v \in UserValues, SetValue(e, v)
      PROVE  GraphTypes' /\ Structure' /\ FileTypes'
  <2>1. /\ children' = [children EXCEPT ![e].value = v] /\ v \in Values(TypeOf(e)) /\ v \in Texts
        /\ pins' = pins /\ connections' = connections
    BY <1>3, TypesAssumption DEF SetValue
  <2>2. \A d \in Elements : children[d] \in ElementRecords
    BY ElementFacts
  <2>3. /\ Elements' = Elements /\ Connections' = Connections
        /\ \A d \in Elements : children'[d].type = children[d].type
        /\ children'[e].value = v
        /\ \A d \in Elements : d # e => children'[d] = children[d]
        /\ children' \in [Elements -> ElementRecords]
    <3>1. children \in [Elements -> ElementRecords]
      BY DEF GraphTypes
    <3> QED
      BY <2>1, <3>1 DEF Elements, Connections, ElementRecords
  <2>4. \A d \in Elements : children'[d].value \in Values(children'[d].type)
    <3>1. \A d \in Elements : children[d].value \in Values(children[d].type)
      BY DEF GraphTypes, TypeOf
    <3>2. v \in Values(children[e].type)
      BY <2>1 DEF TypeOf
    <3> QED
      BY <2>3, <3>1, <3>2
  <2>5. GraphTypes'
    BY <2>1, <2>3, <2>4 DEF GraphTypes, TypeOf
  <2>6. \A d \in Elements : TypeOf(d)' = TypeOf(d) /\ OutPins(d)' = OutPins(d) /\ FreePins(d)' = FreePins(d)
    BY <2>1, <2>3 DEF TypeOf, OutPins, FreePins, Connected, Connections
  <2>7. Structure'
    <3>1. EndsExist' /\ OneConnectionPerInput'
      BY <2>1, <2>3, <2>6 DEF Structure, EndsExist, OneConnectionPerInput, InPins
    <3>2. \A c \in Connections : connections[c].src \in Elements /\ connections[c].dst \in Elements
      BY DEF Structure, EndsExist
    <3>3. TypesAgree'
      BY <2>1, <2>3, <3>2 DEF Structure, TypesAgree, TypeOf
    <3>4. PinsAsDeclared'
      BY <2>1, <2>3, <2>6 DEF Structure, PinsAsDeclared
    <3> QED
      BY <3>1, <3>3, <3>4 DEF Structure
  <2>8. FileTypes'
    BY <1>3, FileTypesKept DEF SetValue, fileVars, FileTypes
  <2> QED
    BY <2>5, <2>7, <2>8
<1>4. ASSUME NEW x \in Lines, Connect(x) PROVE GraphTypes' /\ Structure' /\ FileTypes'
  <2>1. CanConnect(x) /\ ConnectPins(x) /\ children' = children
    BY <1>4 DEF Connect
  <2>2. GraphTypes' /\ Structure'
    BY <2>1, LineFacts, ConnectKeepsSound
  <2>3. FileTypes'
    BY <1>4, FileTypesKept DEF Connect, fileVars, FileTypes
  <2> QED
    BY <2>2, <2>3
<1>5. ASSUME NEW c \in Connections, Disconnect(c) PROVE GraphTypes' /\ Structure' /\ FileTypes'
  <2>1. /\ connections' = Restrict(connections, Connections \ {c})
        /\ pins' = PinsWithout({c}) /\ children' = children
    BY <1>5 DEF Disconnect
  <2>2. children' = Restrict(children, Elements \ {})
    <3>1. children = [e \in Elements |-> children[e]]
      BY DEF GraphTypes
    <3> QED
      BY <2>1, <3>1 DEF Restrict
  <2>3. pins' = Restrict(PinsWithout({c}), Elements \ {})
    BY <2>1 DEF Restrict, PinsWithout
  <2>4. GraphTypes' /\ Structure'
    <3>1. /\ {c} \in SUBSET Connections /\ {} \in SUBSET Elements
          /\ \A d \in Connections \ {c} : connections[d].src \notin {} /\ connections[d].dst \notin {}
      OBVIOUS
    <3> QED
      BY <2>1, <2>2, <2>3, <3>1, RemoveKeepsSound
  <2>5. FileTypes'
    BY <1>5, FileTypesKept DEF Disconnect, fileVars, FileTypes
  <2> QED
    BY <2>4, <2>5
<1>6. ASSUME Clear PROVE GraphTypes' /\ Structure' /\ FileTypes'
  <2>1. EmptyGraph'
    BY <1>6 DEF Clear, EmptyGraph
  <2>2. GraphTypes' /\ Structure'
    BY <2>1, EmptyIsSound, PTL
  <2>3. FileTypes'
    BY <1>6, FileTypesKept DEF Clear, fileVars
  <2> QED
    BY <2>2, <2>3
<1>7. ASSUME NewPipeline PROVE GraphTypes' /\ Structure' /\ FileTypes'
  <2>1. EmptyGraph'
    BY <1>7 DEF NewPipeline, EmptyGraph
  <2>2. GraphTypes' /\ Structure'
    BY <2>1, EmptyIsSound, PTL
  <2>3. FileTypes'
    <3>1. /\ changed' \in BOOLEAN /\ filename' = "" /\ wrote' = "" /\ outcome' = "none"
          /\ files' = files /\ loading' = loading
      BY <1>7 DEF NewPipeline
    <3> QED
      BY <3>1 DEF FileTypes
  <2> QED
    BY <2>2, <2>3
<1> QED
  BY <1>1, <1>2, <1>3, <1>4, <1>5, <1>6, <1>7 DEF Edit

(* Steps that leave the graph alone. *)
LEMMA GraphKept ==
    ASSUME GraphTypes, Structure, UNCHANGED graphVars
    PROVE  GraphTypes' /\ Structure'
<1>1. children' = children /\ pins' = pins /\ connections' = connections
  BY DEF graphVars
<1>2. GraphTypes'
  BY <1>1 DEF GraphTypes, Elements, TypeOf
<1>3. Structure'
  BY <1>1 DEF Structure, EndsExist, TypesAgree, OneConnectionPerInput, PinsAsDeclared, FreePins, Connected,
              Elements, Connections, TypeOf, OutPins, InPins
<1> QED
  BY <1>2, <1>3

(* Saving and the start of a load. *)
LEMMA FileKeepsSound ==
    ASSUME GraphTypes, Structure, FileTypes, NEW f \in FileNames, Save(f) \/ SaveFails(f) \/ Load(f)
    PROVE  GraphTypes' /\ Structure' /\ FileTypes'
<1>1. GraphTypes' /\ Structure'
  BY GraphKept DEF Save, SaveFails, Load
<1>2. ASSUME Save(f) PROVE FileTypes'
  <2>1. IsDocument(Serialised)
    BY SerialisedIsDocument
  <2>2. PICK d : d = Serialised
    OBVIOUS
  <2>3. files' = [files EXCEPT ![f] = d] \/ files' = files
    BY <1>2, <2>2 DEF Save
  <2>4. files' \in [FileNames -> {files'[g] : g \in FileNames}] /\ \A g \in FileNames : IsDocument(files'[g])
    BY <2>1, <2>2, <2>3 DEF FileTypes
  <2>5. /\ changed' = FALSE /\ filename' = f /\ wrote' \in {f, wrote}
        /\ loading' = loading /\ outcome' = "none"
    BY <1>2 DEF Save
  <2> QED
    BY <2>4, <2>5 DEF FileTypes
<1>3. ASSUME SaveFails(f) PROVE FileTypes'
  <2>1. /\ filename' = f /\ outcome' = "none"
        /\ changed' = changed /\ files' = files /\ wrote' = wrote /\ loading' = loading
    BY <1>3 DEF SaveFails
  <2> QED
    BY <2>1 DEF FileTypes
<1>4. ASSUME Load(f) PROVE FileTypes'
  <2>1. /\ filename' = f /\ outcome' \in {"none", "failed"}
        /\ changed' = changed /\ files' = files /\ wrote' = wrote
        /\ loading' \in {loading, [active |-> TRUE, doc |-> files[f]]}
    BY <1>4 DEF Load
  <2>2. IsDocument(files[f])
    BY DEF FileTypes
  <2>3. /\ loading' = [active |-> loading'.active, doc |-> loading'.doc]
        /\ loading'.active \in BOOLEAN /\ IsDocument(loading'.doc)
    <3>1. CASE loading' = loading
      BY <3>1 DEF FileTypes
    <3>2. CASE loading' = [active |-> TRUE, doc |-> files[f]]
      <4>1. loading'.active = TRUE /\ loading'.doc = files[f]
        BY <3>2
      <4> QED
        BY <2>2, <3>2, <4>1
    <3> QED
      BY <2>1, <3>1, <3>2
  <2> QED
    BY <2>1, <2>3 DEF FileTypes
<1> QED
  BY <1>1, <1>2, <1>3, <1>4

LEMMA LoadFailsKeepsSound ==
    ASSUME GraphTypes, Structure, FileTypes, LoadFails
    PROVE  GraphTypes' /\ Structure' /\ FileTypes'
<1>1. GraphTypes' /\ Structure'
  BY GraphKept DEF LoadFails
<1>2. /\ loading' = NotLoading /\ outcome' = "failed"
      /\ changed' = changed /\ filename' = filename /\ files' = files /\ wrote' = wrote
  BY DEF LoadFails, fileVars
<1>3. FileTypes'
  BY <1>2, NoFileIsDocument DEF FileTypes, NotLoading
<1> QED
  BY <1>1, <1>3

LEMMA ParseKeepsSound ==
    ASSUME GraphTypes, Structure, FileTypes, ParseElement \/ ParseConnection \/ LoadDone
    PROVE  GraphTypes' /\ Structure' /\ FileTypes'
<1> DEFINE d == loading.doc
<1>1. /\ loading = [active |-> loading.active, doc |-> d] /\ loading.active \in BOOLEAN
      /\ d = [elements |-> d.elements, connections |-> d.connections, origin |-> d.origin]
      /\ IsList(d.elements, ElementTags) /\ IsList(d.connections, ConnectionTags)
      /\ d.origin \in {"absent", "user", "saved"}
  BY DEF FileTypes, IsDocument
<1>2. ASSUME NEW l, IsList(l, ElementTags), NEW m, IsList(m, ConnectionTags),
             loading' = [active |-> loading.active, doc |-> [elements |-> l, connections |-> m, origin |-> d.origin]],
             UNCHANGED <<filename, files, wrote, outcome>>, changed' \in BOOLEAN
      PROVE  FileTypes'
  <2>1. PICK r : r = [elements |-> l, connections |-> m, origin |-> d.origin]
    OBVIOUS
  <2>2. IsDocument(r)
    BY <1>1, <1>2, <2>1 DEF IsDocument
  <2>3. loading' = [active |-> loading.active, doc |-> r]
    BY <1>2, <2>1
  <2>4. loading'.active = loading.active /\ loading'.doc = r
    BY <2>3
  <2>5. /\ loading' = [active |-> loading'.active, doc |-> loading'.doc]
        /\ loading'.active \in BOOLEAN /\ IsDocument(loading'.doc)
    BY <1>1, <2>2, <2>3, <2>4
  <2> QED
    BY <1>2, <2>5 DEF FileTypes
<1>3. ASSUME ParseElement PROVE GraphTypes' /\ Structure' /\ FileTypes'
  <2> DEFINE tag == d.elements[FirstIn(d.elements)]
  <2>1. /\ d.elements # Nothing
        /\ \/ /\ ElementOK(tag)
              /\ AddUnder(IF tag.id = -1 THEN NewId(Elements) ELSE tag.id,
                          tag.name, ConvertData(tag.name, tag.text))
              /\ loading' = [loading EXCEPT !.doc.elements = Behead(d.elements)]
              /\ UNCHANGED <<connections, fileVars, outcome>>
           \/ LoadFails
    BY <1>3 DEF ParseElement
  <2>2. tag \in ElementTags /\ IsList(Behead(d.elements), ElementTags)
    BY <1>1, <2>1, BeheadFacts
  <2> HIDE DEF tag
  <2>3. ASSUME ElementOK(tag),
               AddUnder(IF tag.id = -1 THEN NewId(Elements) ELSE tag.id,
                        tag.name, ConvertData(tag.name, tag.text)),
               loading' = [loading EXCEPT !.doc.elements = Behead(d.elements)],
               UNCHANGED <<connections, fileVars, outcome>>
        PROVE  GraphTypes' /\ Structure' /\ FileTypes'
    <3>1. tag.id \in Int /\ tag.text \in Texts /\ tag.name \in Types
      BY <2>2, <2>3 DEF ElementTags, ElementOK
    <3>2. NewId(Elements) \in Int \ Elements
      BY NewIdIsNew DEF GraphTypes
    <3>3. PICK i \in Int \ Elements : i = IF tag.id = -1 THEN NewId(Elements) ELSE tag.id
      BY <2>3, <3>1, <3>2 DEF ElementOK
    <3>4. PICK t \in Types : t = tag.name
      BY <3>1
    <3>5. ConvertData(t, tag.text) \in Values(t) /\ Values(t) \subseteq Texts
      BY <3>1, ValueFacts
    <3>6. PICK v \in Values(t) : v = ConvertData(t, tag.text)
      BY <3>5
    <3>7. AddUnder(i, t, v) /\ v \in Texts /\ connections' = connections
      BY <2>3, <3>3, <3>4, <3>5, <3>6
    <3>8. GraphTypes' /\ Structure'
      BY <3>7, AddKeepsSound
    <3>9. /\ changed' \in BOOLEAN /\ UNCHANGED <<filename, files, wrote, outcome>>
          /\ loading' = [active |-> loading.active, doc |->
                [elements |-> Behead(d.elements), connections |-> d.connections, origin |-> d.origin]]
      BY <1>1, <2>3, <3>7 DEF AddUnder, fileVars
    <3>10. FileTypes'
      BY <1>1, <1>2, <2>2, <3>9
    <3> QED
      BY <3>8, <3>10
  <2> QED
    BY <2>1, <2>3, LoadFailsKeepsSound
<1>4. ASSUME ParseConnection PROVE GraphTypes' /\ Structure' /\ FileTypes'
  <2> DEFINE tag == d.connections[FirstIn(d.connections)]
  <2>1. /\ d.connections # Nothing
        /\ \/ /\ ConnectionOK(tag)
              /\ ConnectPins(tag)
              /\ loading' = [loading EXCEPT !.doc.connections = Behead(d.connections)]
              /\ UNCHANGED <<children, changed, fileVars, outcome>>
           \/ LoadFails
    BY <1>4 DEF ParseConnection
  <2>2. tag \in ConnectionTags /\ IsList(Behead(d.connections), ConnectionTags)
    BY <1>1, <2>1, BeheadFacts
  <2> HIDE DEF tag
  <2>3. ASSUME ConnectionOK(tag), ConnectPins(tag),
               loading' = [loading EXCEPT !.doc.connections = Behead(d.connections)],
               UNCHANGED <<children, changed, fileVars, outcome>>
        PROVE  GraphTypes' /\ Structure' /\ FileTypes'
    <3>1. PICK x \in ConnectionTags : x = tag
      BY <2>2
    <3>2. ConnectionOK(x) /\ ConnectPins(x) /\ children' = children
      BY <2>3, <3>1
    <3>3. /\ x.src \in Elements /\ x.dst \in Elements /\ x.out \in OutPins(x.src)
          /\ x.in \in InPins(x.dst) /\ CanConnect(x)
      BY <3>2 DEF ConnectionOK
    <3>4. GraphTypes' /\ Structure'
      BY <3>2, <3>3, ConnectKeepsSound
    <3>5. /\ changed' \in BOOLEAN /\ UNCHANGED <<filename, files, wrote, outcome>>
      BY <2>3 DEF FileTypes, fileVars
    <3>6. loading' = [active |-> loading.active, doc |->
                [elements |-> d.elements, connections |-> Behead(d.connections), origin |-> d.origin]]
      BY <1>1, <2>3
    <3>7. FileTypes'
      BY <1>1, <1>2, <2>2, <3>5, <3>6
    <3> QED
      BY <3>4, <3>7
  <2> QED
    BY <2>1, <2>3, LoadFailsKeepsSound
<1>5. ASSUME LoadDone PROVE GraphTypes' /\ Structure' /\ FileTypes'
  <2>1. GraphTypes' /\ Structure'
    BY <1>5, GraphKept DEF LoadDone
  <2>2. /\ loading' = NotLoading /\ outcome' = "loaded"
        /\ changed' = changed /\ filename' = filename /\ files' = files /\ wrote' = wrote
    BY <1>5 DEF LoadDone, fileVars
  <2>3. FileTypes'
    BY <2>2, NoFileIsDocument DEF FileTypes, NotLoading
  <2> QED
    BY <2>1, <2>3
<1> QED
  BY <1>3, <1>4, <1>5

LEMMA InitIsSound == Init => GraphSound
<1> SUFFICES ASSUME Init PROVE GraphSound
  OBVIOUS
<1>1. GraphTypes /\ Structure
  BY EmptyIsSound DEF Init, EmptyGraph
<1>2. /\ changed \in BOOLEAN /\ filename = "" /\ wrote = "" /\ outcome = "none"
      /\ files = InitialFiles /\ loading = NotLoading
  BY DEF Init
<1>3. FileTypes
  BY <1>2, TypesAssumption, NoFileIsDocument DEF FileTypes, NotLoading
<1> QED
  BY <1>1, <1>3, SoundParts

LEMMA StepKeepsSound == GraphSound /\ [Next]_pipelineVars => GraphSound'
<1> SUFFICES ASSUME GraphSound, [Next]_pipelineVars PROVE GraphSound'
  OBVIOUS
<1>1. GraphTypes /\ Structure /\ FileTypes
  BY SoundParts
<1>2. GraphTypes' /\ Structure' /\ FileTypes'
  <2>1. CASE Edit
    BY <1>1, <2>1, EditKeepsSound
  <2>2. ASSUME NEW f \in SaveNames, Save(f) \/ SaveFails(f)
        PROVE  GraphTypes' /\ Structure' /\ FileTypes'
    <3>1. f \in FileNames
      BY TypesAssumption
    <3> QED
      BY <1>1, <2>2, <3>1, FileKeepsSound
  <2>3. ASSUME NEW f \in FileNames, Load(f)
        PROVE  GraphTypes' /\ Structure' /\ FileTypes'
    BY <1>1, <2>3, FileKeepsSound
  <2>4. CASE ParseElement \/ ParseConnection \/ LoadDone
    BY <1>1, <2>4, ParseKeepsSound
  <2>5. CASE UNCHANGED pipelineVars
    <3>1. GraphTypes' /\ Structure'
      BY <1>1, <2>5, GraphKept DEF pipelineVars, graphVars
    <3>2. FileTypes'
      BY <1>1, <2>5, FileTypesKept DEF pipelineVars, FileTypes
    <3> QED
      BY <3>1, <3>2
  <2> QED
    BY <2>1, <2>2, <2>3, <2>4, <2>5 DEF Next
<1>3. (GraphTypes /\ Structure /\ FileTypes)' => GraphSound'
  BY SoundParts, PTL
<1> QED
  BY <1>2, <1>3

(* For every set of element types, pins and files the pipeline's graph is    *)
(* well typed and sound after every edit, save and load, also one that fails *)
(* halfway: ids are never reused while in use (getNewElementId), a           *)
(* connection joins existing pins of equal types, an input has at most one,  *)
(* and an element with dynamic pins always keeps exactly one free            *)
(* (TCPServerProcessor::onInputConnectionSet, onInputConnectionRemoved).      *)
THEOREM GraphAlwaysSound == Spec => []GraphSound
<1> QED
  BY InitIsSound, StepKeepsSound, PTL DEF Spec

-----------------------------------------------------------------------------
(* What save() has written.  The name under which the pipeline is known and   *)
(* a load() that is under way do not matter.                                  *)
SavedElements ==
    (~changed /\ wrote # "")
        => /\ DOMAIN files[wrote].elements = Elements
           /\ \A e \in Elements : files[wrote].elements[e].name = TypeOf(e)

(* Steps that change neither the elements nor the file. *)
LEMMA SavedElementsKept ==
    ASSUME SavedElements, changed' = changed, wrote' = wrote, files' = files,
           Elements' = Elements, \A e \in Elements : TypeOf(e)' = TypeOf(e)
    PROVE  SavedElements'
  BY DEF SavedElements

LEMMA SavedElementsStep == GraphSound /\ SavedElements /\ [Next]_pipelineVars => SavedElements'
<1> SUFFICES ASSUME GraphSound, SavedElements, [Next]_pipelineVars PROVE SavedElements'
  OBVIOUS
<1>1. GraphTypes /\ FileTypes
  BY SoundParts
<1>2. ASSUME children' = children, UNCHANGED <<changed, wrote, files>> PROVE SavedElements'
  BY <1>2, SavedElementsKept DEF Elements, TypeOf
<1>3. ASSUME changed' = TRUE PROVE SavedElements'
  BY <1>3 DEF SavedElements
<1>4. ASSUME NEW e \in Elements, NEW v, SetValue(e, v) PROVE SavedElements'
  <2>1. children' = [children EXCEPT ![e].value = v] /\ UNCHANGED <<changed, wrote, files>>
    BY <1>4 DEF SetValue, fileVars
  <2>2. children \in [Elements -> ElementRecords]
    BY <1>1 DEF GraphTypes
  <2>3. Elements' = Elements /\ \A d \in Elements : TypeOf(d)' = TypeOf(d)
    BY <2>1, <2>2 DEF Elements, TypeOf, ElementRecords
  <2> QED
    BY <2>1, <2>3, SavedElementsKept
<1>5. ASSUME NewPipeline PROVE SavedElements'
  BY <1>5 DEF NewPipeline, SavedElements
<1>6. CASE Edit
  BY <1>2, <1>3, <1>4, <1>5, <1>6
     DEF Edit, AddElement, AddUnder, RemoveElement, Connect, Disconnect, Clear, fileVars
<1>7. ASSUME NEW f \in SaveNames, Save(f) PROVE SavedElements'
  <2>1. CASE changed
    <3>1. /\ files' = [files EXCEPT ![f] = Serialised] /\ wrote' = f
          /\ Elements' = Elements /\ \A e \in Elements : TypeOf(e)' = TypeOf(e)
      BY <1>7, <2>1 DEF Save, graphVars, Elements, TypeOf
    <3>2. f \in FileNames /\ DOMAIN files = FileNames
      BY <1>1, TypesAssumption DEF FileTypes
    <3>3. files'[wrote'] = Serialised
      BY <3>1, <3>2
    <3>4. DOMAIN Serialised.elements = Elements /\ \A e \in Elements : Serialised.elements[e].name = TypeOf(e)
      BY DEF Serialised
    <3> QED
      BY <3>1, <3>3, <3>4 DEF SavedElements
  <2>2. CASE ~changed
    <3>1. changed' = changed
      BY <1>1, <1>7, <2>2 DEF Save, FileTypes
    <3> QED
      BY <1>2, <1>7, <2>2, <3>1 DEF Save, graphVars
  <2> QED
    BY <2>1, <2>2
<1>8. ASSUME NEW f \in SaveNames, SaveFails(f) PROVE SavedElements'
  BY <1>2, <1>8 DEF SaveFails, graphVars
<1>9. ASSUME NEW f \in FileNames, Load(f) PROVE SavedElements'
  BY <1>2, <1>9 DEF Load, graphVars
<1>10. CASE ParseElement
  BY <1>2, <1>3, <1>10 DEF ParseElement, AddUnder, LoadFails, graphVars, fileVars
<1>11. CASE ParseConnection \/ LoadDone
  BY <1>2, <1>11 DEF ParseConnection, LoadDone, LoadFails, graphVars, fileVars
<1>12. CASE UNCHANGED pipelineVars
  BY <1>2, <1>12 DEF pipelineVars
<1> QED
  BY <1>6, <1>7, <1>8, <1>9, <1>10, <1>11, <1>12 DEF Next

(* When m_changed is reset, the file that this pipeline wrote last has        *)
(* exactly its elements, under their ids and with their types, however long   *)
(* ago it was written (Pipeline::save, setFilename, addElement).              *)
THEOREM ElementsAlwaysSaved == Spec => []ElementsSaved
<1>1. Init => SavedElements
  BY DEF Init, SavedElements
<1>2. SavedElements => ElementsSaved
  BY DEF SavedElements, ElementsSaved
<1> QED
  BY <1>1, <1>2, GraphAlwaysSound, SavedElementsStep, PTL DEF Spec

-----------------------------------------------------------------------------
(* Saving and loading.  What is known of a file that save() wrote: it is a    *)
(* sound graph again, but for the dynamic pins, which it does not list.       *)
SoundDocument(d) ==
    /\ -1 \notin DOMAIN d.elements
    /\ \A e \in DOMAIN d.elements :
        /\ d.elements[e].id = e
        /\ d.elements[e].name \in Types
        /\ d.elements[e].text \in Values(d.elements[e].name)
    /\ \A i \in DOMAIN d.connections :
        LET x == d.connections[i]
        IN  /\ x.src \in DOMAIN d.elements /\ x.dst \in DOMAIN d.elements /\ x.src # x.dst
            /\ x.out \in DOMAIN outType[d.elements[x.src].name]
            /\ d.elements[x.dst].name \notin Dynamic =>
                /\ x.in \in DOMAIN inType[d.elements[x.dst].name]
                /\ outType[d.elements[x.src].name][x.out] = inType[d.elements[x.dst].name][x.in]
    /\ \A i, j \in DOMAIN d.connections :
        d.connections[i].dst = d.connections[j].dst /\ d.connections[i].in = d.connections[j].in => i = j

(* How far load() has come with the document d: it has read the elements that *)
(* are not in rest.elements, and after the last one the connections P.        *)
To(l, P, e) == {i \in P : l[i].dst = e}
ReadElements(d, rest) ==
    /\ DOMAIN rest.elements \subseteq DOMAIN d.elements
    /\ \A e \in DOMAIN rest.elements : rest.elements[e] = d.elements[e]
    /\ Elements = DOMAIN d.elements \ DOMAIN rest.elements
    /\ \A e \in Elements : children[e] = [type |-> d.elements[e].name, value |-> ComesBackAs(d.elements[e].name, d.elements[e].text)]
ReadConnections(d, rest, P) ==
    /\ P = DOMAIN d.connections \ DOMAIN rest.connections
    /\ DOMAIN rest.connections \subseteq DOMAIN d.connections
    /\ \A i \in DOMAIN rest.connections : rest.connections[i] = d.connections[i]
    /\ \A i \in P, j \in DOMAIN rest.connections : i < j
    /\ rest.elements # Nothing => P = {}
    /\ {connections[c] : c \in Connections} = {d.connections[i] : i \in P}
    /\ Cardinality(Connections) = Cardinality(P)
    /\ \A i \in P : d.elements[d.connections[i].dst].name \in Dynamic
                        => d.connections[i].in = RankIn(d.connections, i)
    /\ \A e \in Elements : TypeOf(e) \in Dynamic
                        => pins[e] = 0 .. Cardinality(To(d.connections, P, e))
Read(d, rest) ==
    /\ ReadElements(d, rest)
    /\ ReadConnections(d, rest, DOMAIN d.connections \ DOMAIN rest.connections)

(* RoundTrip with what it needs to be inductive. *)
LoadInv ==
    /\ -1 \notin Elements
    /\ \A f \in FileNames : files[f].origin = "saved" => SoundDocument(files[f])
    /\ loading.active => filename \in FileNames /\ outcome = "none"
    /\ loading.active /\ files[filename].origin = "saved"
            => Read(files[filename], loading.doc)
    /\ RoundTrip

(* What becomes of a value that is written as a text and read again. *)
LEMMA ConvertKeeps ==
    ASSUME NEW t \in Types, NEW x \in Values(t)
    PROVE  ConvertData(t, x) = ComesBackAs(t, x)
<1>1. propertyType[t] \in {"Bool", "Int", "Enum", "String", "Orders"}
  BY TypesAssumption DEF PropertyTypes
<1> QED
  BY <1>1 DEF Values, ConvertData, Truth, Numerals, Orders, SetXOrder, SetYOrder, ComesBackAs

LEMMA NextPinOfInterval ==
    ASSUME NEW k \in Nat
    PROVE  NextPinId(0 .. k) = k + 1
<1>1. IsFiniteSet(0 .. k) /\ Cardinality(0 .. k) = k + 1
  BY FS_Interval
<1> DEFINE Is(i) == i \notin 0 .. k /\ \A j \in 0 .. i - 1 : j \in 0 .. k
<1>2. NextPinId(0 .. k) = CHOOSE i \in 0 .. k + 1 : Is(i)
  BY <1>1 DEF NextPinId
<1>3. k + 1 \in 0 .. k + 1 /\ Is(k + 1)
  OBVIOUS
<1>4. \A i \in 0 .. k + 1 : Is(i) => i = k + 1
  OBVIOUS
<1> HIDE DEF Is
<1> QED
  BY <1>2, <1>3, <1>4

(* serialize() writes a sound document. *)
LEMMA SerialisedIsSound ==
    ASSUME GraphTypes, Structure, -1 \notin Elements
    PROVE  SoundDocument(Serialised)
<1> DEFINE d == Serialised
<1>1. /\ DOMAIN d.elements = Elements /\ d.connections = connections
      /\ \A e \in Elements : /\ d.elements[e].id = e /\ d.elements[e].name = TypeOf(e)
                             /\ d.elements[e].text = children[e].value
  BY DEF Serialised
<1> HIDE DEF d
<1>2. \A e \in Elements : TypeOf(e) \in Types /\ children[e].value \in Values(TypeOf(e))
  BY ElementFacts DEF GraphTypes
<1>3. ASSUME NEW i \in Connections
      PROVE  LET x == connections[i]
             IN  /\ x.src \in Elements /\ x.dst \in Elements /\ x.src # x.dst
                 /\ x.out \in DOMAIN outType[TypeOf(x.src)]
                 /\ TypeOf(x.dst) \notin Dynamic =>
                        /\ x.in \in DOMAIN inType[TypeOf(x.dst)]
                        /\ outType[TypeOf(x.src)][x.out] = inType[TypeOf(x.dst)][x.in]
  <2> DEFINE x == connections[i]
  <2>1. /\ x.src \in Elements /\ x.dst \in Elements /\ x.src # x.dst
        /\ x.out \in DOMAIN outType[TypeOf(x.src)] /\ x.in \in pins[x.dst]
    BY DEF Structure, EndsExist, OutPins, InPins
  <2>2. TypeOf(x.dst) \notin Dynamic => outType[TypeOf(x.src)][x.out] = inType[TypeOf(x.dst)][x.in]
    BY DEF Structure, TypesAgree
  <2> HIDE DEF x
  <2>3. TypeOf(x.dst) \notin Dynamic => pins[x.dst] = DOMAIN inType[TypeOf(x.dst)]
    BY <2>1 DEF Structure, PinsAsDeclared
  <2>4. /\ x.src \in Elements /\ x.dst \in Elements /\ x.src # x.dst
        /\ x.out \in DOMAIN outType[TypeOf(x.src)]
        /\ TypeOf(x.dst) \notin Dynamic =>
               /\ x.in \in DOMAIN inType[TypeOf(x.dst)]
               /\ outType[TypeOf(x.src)][x.out] = inType[TypeOf(x.dst)][x.in]
    BY <2>1, <2>2, <2>3
  <2> QED
    BY <2>4 DEF x
<1>4. \A i, j \in Connections :
        connections[i].dst = connections[j].dst /\ connections[i].in = connections[j].in => i = j
  BY DEF Structure, OneConnectionPerInput
<1>5. SoundDocument(d)
  BY <1>1, <1>2, <1>3, <1>4 DEF SoundDocument, Connections
<1> QED
  BY <1>5 DEF d

LEMMA BeheadDomain ==
    ASSUME NEW l
    PROVE  /\ DOMAIN Behead(l) = DOMAIN l \ {FirstIn(l)}
           /\ \A i \in DOMAIN Behead(l) : Behead(l)[i] = l[i]
  BY DEF Behead, Restrict

(* parseElements() finds nothing wrong in a sound document, and reads on. *)
LEMMA ElementIsFine ==
    ASSUME NEW d, SoundDocument(d), NEW r, IsDocument(r), ReadElements(d, r), r.elements # Nothing,
           NEW i, i = FirstIn(r.elements), NEW tag, tag = r.elements[i]
    PROVE  /\ i \in DOMAIN r.elements /\ i \in DOMAIN d.elements /\ tag = d.elements[i] /\ i \notin Elements
           /\ ElementOK(tag) /\ tag.id = i /\ i # -1 /\ tag.name \in Types
           /\ ConvertData(tag.name, tag.text) = ComesBackAs(tag.name, tag.text)
<1>1. i \in DOMAIN r.elements
  BY NothingFacts, FirstInIsIn DEF IsDocument
<1>2. i \in DOMAIN d.elements /\ tag = d.elements[i] /\ i \notin Elements
  BY <1>1 DEF ReadElements
<1>3. tag.id = i /\ i # -1 /\ tag.name \in Types /\ tag.text \in Values(tag.name)
  BY <1>2 DEF SoundDocument
<1>4. ElementOK(tag)
  BY <1>2, <1>3 DEF ElementOK
<1>5. ConvertData(tag.name, tag.text) = ComesBackAs(tag.name, tag.text)
  BY <1>3, ConvertKeeps
<1> QED
  BY <1>1, <1>2, <1>3, <1>4, <1>5

LEMMA ElementIsRead ==
    ASSUME GraphTypes, NEW d, SoundDocument(d), NEW r, IsDocument(r),
           ReadElements(d, r), NEW P, ReadConnections(d, r, P), r.elements # Nothing,
           NEW i, i = FirstIn(r.elements), NEW tag, tag = r.elements[i],
           AddUnder(i, tag.name, ComesBackAs(tag.name, tag.text)), connections' = connections,
           NEW r2, r2.elements = Behead(r.elements), r2.connections = r.connections
    PROVE  ReadElements(d, r2)' /\ ReadConnections(d, r2, P)'
<1>0. i \in DOMAIN r.elements /\ i \in DOMAIN d.elements /\ tag = d.elements[i] /\ i \notin Elements
  BY ElementIsFine
<1>1. /\ Elements' = Elements \cup {i} /\ Connections' = Connections
      /\ children'[i] = [type |-> tag.name, value |-> ComesBackAs(tag.name, tag.text)]
      /\ pins'[i] = DOMAIN inType[tag.name]
      /\ \A e \in Elements : children'[e] = children[e] /\ pins'[e] = pins[e]
  BY <1>0 DEF AddUnder, Insert, Elements, Connections, GraphTypes
<1>2. /\ DOMAIN r2.elements = DOMAIN r.elements \ {i}
      /\ \A e \in DOMAIN r2.elements : r2.elements[e] = r.elements[e]
  BY BeheadDomain
<1>3. ReadElements(d, r2)'
  BY <1>0, <1>1, <1>2 DEF ReadElements
<1>4. P = {} /\ DOMAIN d.connections \ DOMAIN r.connections = {} /\ {connections[c] : c \in Connections} = {}
      /\ Cardinality(Connections) = Cardinality({})
  BY DEF ReadConnections
<1>5. \A e : To(d.connections, {}, e) = {}
  BY DEF To
<1>6. Cardinality({}) = 0
  BY FS_EmptySet
<1>7. ASSUME NEW e \in Elements', TypeOf(e)' \in Dynamic PROVE pins'[e] = 0 .. 0
  <2>1. CASE e \in Elements
    <3>1. TypeOf(e) \in Dynamic
      BY <1>1, <1>7, <2>1 DEF TypeOf
    <3>2. pins[e] = 0 .. Cardinality(To(d.connections, P, e))
      BY <2>1, <3>1, Zenon DEF ReadConnections
    <3> QED
      BY <1>1, <1>4, <1>5, <1>6, <2>1, <3>2
  <2>2. CASE e = i
    <3>1. tag.name \in Dynamic
      BY <1>1, <1>7, <2>2 DEF TypeOf
    <3>2. DOMAIN inType[tag.name] = {0}
      BY <3>1, TypesAssumption
    <3> QED
      BY <1>1, <2>2, <3>2
  <2> QED
    BY <1>1, <2>1, <2>2
<1>8. ReadConnections(d, r2, P)'
  <2>1. DOMAIN d.connections \ DOMAIN r2.connections = {}
    BY <1>4
  <2>2. /\ DOMAIN r2.connections \subseteq DOMAIN d.connections
        /\ \A j \in DOMAIN r2.connections : r2.connections[j] = d.connections[j]
    BY DEF ReadConnections
  <2>3. {connections'[c] : c \in Connections'} = {} /\ Cardinality(Connections') = Cardinality({})
    BY <1>1, <1>4
  <2> QED
    BY <1>4, <1>5, <1>6, <1>7, <2>1, <2>2, <2>3 DEF ReadConnections
<1> QED
  BY <1>3, <1>8

(* The connections before the next one are those that have been read. *)
LEMMA ConnectionRank ==
    ASSUME NEW d, IsDocument(d), NEW r, IsDocument(r), NEW P, ReadConnections(d, r, P),
           r.connections # Nothing, NEW i, i = FirstIn(r.connections)
    PROVE  /\ i \in DOMAIN r.connections /\ i \in DOMAIN d.connections /\ i \notin P
           /\ r.connections[i] = d.connections[i]
           /\ P \subseteq Int /\ IsFiniteSet(P)
           /\ \A j \in DOMAIN r.connections : j # i => i < j
           /\ RankIn(d.connections, i) = Cardinality(To(d.connections, P, d.connections[i].dst))
           /\ \A j \in P : d.connections[j].dst = d.connections[i].dst
                 => /\ RankIn(d.connections, j) < RankIn(d.connections, i)
                    /\ RankIn(d.connections, j) \in Nat
           /\ RankIn(d.connections, i) \in Nat
<1> DEFINE D == DOMAIN d.connections
           R == DOMAIN r.connections
           l == d.connections
<1>1. IsList(d.connections, ConnectionTags) /\ IsList(r.connections, ConnectionTags)
  BY DEF IsDocument
<1>2. i \in R /\ \A j \in R : i <= j
  BY <1>1, NothingFacts, FirstInIsIn
<1>3. R \subseteq D /\ D \subseteq Int /\ IsFiniteSet(D) /\ P = D \ R
  BY <1>1 DEF IsList, ReadConnections, R, D
<1>4. P \subseteq Int /\ IsFiniteSet(P) /\ P \subseteq D
  BY <1>3, FS_Subset
<1>5. \A a \in P, b \in R : a < b
  BY DEF ReadConnections, R
<1>6. r.connections[i] = l[i]
  BY <1>2 DEF ReadConnections
<1> HIDE DEF D, R, l
<1>7. \A j \in D : j < i <=> j \in P
  BY <1>2, <1>3, <1>4, <1>5
<1>8. ASSUME NEW j \in P PROVE \A k \in D : k < j => k \in P /\ k # j
  BY <1>3, <1>4, <1>5
<1> DEFINE K == To(l, P, l[i].dst)
           S(j) == {k \in D : l[k].dst = l[j].dst /\ k < j}
<1>9. K = S(i)
  BY <1>3, <1>7 DEF To
<1>10. IsFiniteSet(K) /\ Cardinality(K) \in Nat
  <2>1. K \subseteq P
    BY DEF To
  <2> HIDE DEF K
  <2> QED
    BY <1>4, <2>1, FS_Subset, FS_CardinalityType
<1>11. RankIn(l, i) = Cardinality(K)
  BY <1>9 DEF RankIn, D, l
<1>12. ASSUME NEW j \in P, l[j].dst = l[i].dst
       PROVE  Cardinality(S(j)) \in Nat /\ Cardinality(S(j)) < Cardinality(K)
  <2>1. S(j) \subseteq K /\ j \in K /\ j \notin S(j)
    <3>1. ~(j < j)
      BY <1>4
    <3> QED
      BY <1>8, <1>12, <3>1 DEF To
  <2> HIDE DEF K, S
  <2>2. IsFiniteSet(S(j)) /\ Cardinality(S(j)) \in Nat /\ Cardinality(S(j)) <= Cardinality(K)
    BY <1>10, <2>1, FS_Subset, FS_CardinalityType
  <2>3. Cardinality(S(j)) # Cardinality(K)
    <3> DEFINE A == S(j)
    <3>1. A \in SUBSET K /\ IsFiniteSet(K) /\ A # K
      BY <1>10, <2>1
    <3> HIDE DEF A
    <3>2. Cardinality(A) # Cardinality(K)
      BY <3>1, FS_Subset
    <3> QED
      BY <3>2 DEF A
  <2> QED
    BY <1>10, <2>2, <2>3
<1>13. \A j : RankIn(l, j) = Cardinality(S(j))
  BY DEF RankIn, D, l
<1>14. \A j \in R : j # i => i < j
  BY <1>2, <1>3
<1>15. \A j \in P : l[j].dst = l[i].dst => RankIn(l, j) < RankIn(l, i) /\ RankIn(l, j) \in Nat
  BY <1>11, <1>12, <1>13
<1> QED
  BY <1>2, <1>3, <1>4, <1>6, <1>10, <1>11, <1>14, <1>15 DEF D, R, l

(* parseConnections() accepts the next connection of a sound document exactly *)
(* when it is not to a dynamic pin, or to the one that has just been added.   *)
LEMMA ConnectionIsFine ==
    ASSUME GraphTypes, Structure, NEW d, IsDocument(d), SoundDocument(d), NEW r, IsDocument(r),
           ReadElements(d, r), NEW P, ReadConnections(d, r, P), r.elements = Nothing, r.connections # Nothing,
           NEW i, i = FirstIn(r.connections), NEW x, x = d.connections[i]
    PROVE  ConnectionOK(x) <=>
             (d.elements[x.dst].name \in Dynamic => x.in = RankIn(d.connections, i))
<1> DEFINE k == RankIn(d.connections, i)
<1>1. /\ i \in DOMAIN d.connections /\ i \notin P /\ k \in Nat
      /\ k = Cardinality(To(d.connections, P, x.dst))
      /\ \A j \in P : d.connections[j].dst = x.dst
             => RankIn(d.connections, j) < k /\ RankIn(d.connections, j) \in Nat
  BY ConnectionRank
<1>2. /\ x.src \in DOMAIN d.elements /\ x.dst \in DOMAIN d.elements /\ x.src # x.dst
      /\ x.out \in DOMAIN outType[d.elements[x.src].name]
      /\ d.elements[x.dst].name \notin Dynamic =>
            /\ x.in \in DOMAIN inType[d.elements[x.dst].name]
            /\ outType[d.elements[x.src].name][x.out] = inType[d.elements[x.dst].name][x.in]
  BY <1>1 DEF SoundDocument
<1>3. /\ Elements = DOMAIN d.elements
      /\ \A e \in Elements : TypeOf(e) = d.elements[e].name
  <2>1. DOMAIN r.elements = {}
    BY NothingFacts
  <2>2. Elements = DOMAIN d.elements
    BY <2>1 DEF ReadElements
  <2>3. \A e \in Elements : children[e] =
          [type |-> d.elements[e].name, value |-> ComesBackAs(d.elements[e].name, d.elements[e].text)]
    BY DEF ReadElements
  <2>4. \A e \in Elements : TypeOf(e) = d.elements[e].name
    <3> SUFFICES ASSUME NEW e \in Elements PROVE TypeOf(e) = d.elements[e].name
      OBVIOUS
    <3>1. children[e] =
          [type |-> d.elements[e].name, value |-> ComesBackAs(d.elements[e].name, d.elements[e].text)]
      BY <2>3
    <3>2. children[e].type = d.elements[e].name
      BY <3>1
    <3> QED
      BY <3>2 DEF TypeOf
  <2> QED
    BY <2>2, <2>4
<1>4. /\ x.src \in Elements /\ x.dst \in Elements /\ x.out \in OutPins(x.src)
      /\ TypeOf(x.dst) \notin Dynamic => outType[TypeOf(x.src)][x.out] = inType[TypeOf(x.dst)][x.in]
  BY <1>2, <1>3 DEF OutPins
<1>5. ConnectionOK(x) <=> x.in \in FreePins(x.dst)
  BY <1>2, <1>4 DEF ConnectionOK, CanConnect, FreePins, InPins
<1>6. \A p : Connected(x.dst, p) <=> \E j \in P : d.connections[j].dst = x.dst /\ d.connections[j].in = p
  <2>1. {connections[c] : c \in Connections} = {d.connections[j] : j \in P}
    BY DEF ReadConnections
  <2>2. \A y : (\E c \in Connections : connections[c] = y) <=> (\E j \in P : d.connections[j] = y)
    BY <2>1
  <2> QED
    BY <2>2, ZenonT(30) DEF Connected
<1>7. CASE TypeOf(x.dst) \in Dynamic
  <2>1. pins[x.dst] = 0 .. k
    <3>1. pins[x.dst] = 0 .. Cardinality(To(d.connections, P, x.dst))
      BY <1>4, <1>7 DEF ReadConnections
    <3> QED
      BY <1>1, <3>1
  <2>2. \A j \in P : d.connections[j].dst = x.dst => d.connections[j].in = RankIn(d.connections, j)
    <3>1. d.elements[x.dst].name \in Dynamic
      BY <1>3, <1>4, <1>7
    <3> QED
      BY <3>1 DEF ReadConnections
  <2>3. ~Connected(x.dst, k)
    BY <1>1, <1>6, <2>2
  <2>4. k \in FreePins(x.dst)
    BY <1>1, <2>1, <2>3 DEF FreePins
  <2>5. FreePins(x.dst) = {k}
    BY <1>4, <1>7, <2>4 DEF Structure, PinsAsDeclared
  <2> QED
    BY <1>3, <1>4, <1>5, <1>7, <2>5
<1>8. CASE TypeOf(x.dst) \notin Dynamic
  <2>1. x.in \in pins[x.dst]
    BY <1>2, <1>3, <1>4, <1>8 DEF Structure, PinsAsDeclared
  <2>2. ~Connected(x.dst, x.in)
    <3>1. \A j \in P : d.connections[j].dst = x.dst /\ d.connections[j].in = x.in => j = i
      <4>1. P \subseteq DOMAIN d.connections
        BY DEF ReadConnections
      <4> QED
        BY <1>1, <4>1 DEF SoundDocument
    <3> QED
      BY <1>1, <1>6, <3>1
  <2> QED
    BY <1>3, <1>4, <1>5, <1>8, <2>1, <2>2 DEF FreePins
<1> QED
  BY <1>7, <1>8

LEMMA ConnectionIsRead ==
    ASSUME GraphTypes, NEW d, IsDocument(d), NEW r, IsDocument(r),
           ReadElements(d, r), NEW P, ReadConnections(d, r, P), r.elements = Nothing, r.connections # Nothing,
           NEW i, i = FirstIn(r.connections), NEW x, x = d.connections[i], x.dst \in Elements,
           d.elements[x.dst].name \in Dynamic => x.in = RankIn(d.connections, i),
           ConnectPins(x), children' = children,
           NEW r2, r2.elements = r.elements, r2.connections = Behead(r.connections)
    PROVE  ReadElements(d, r2)' /\ ReadConnections(d, r2, P \cup {i})'
<1> DEFINE n == NewId(Connections)
           Q == P \cup {i}
<1>1. /\ i \in DOMAIN r.connections /\ i \in DOMAIN d.connections /\ i \notin P
      /\ P \subseteq Int /\ IsFiniteSet(P)
      /\ \A j \in DOMAIN r.connections : j # i => i < j
      /\ RankIn(d.connections, i) = Cardinality(To(d.connections, P, x.dst))
      /\ RankIn(d.connections, i) \in Nat
  BY ConnectionRank
<1>2. n \in Nat \ Connections /\ IsFiniteSet(Connections)
  BY ConnectionFacts, NewIdIsNew
<1>3. /\ connections' = Insert(connections, n, x)
      /\ pins' = IF TypeOf(x.dst) \in Dynamic
                 THEN [pins EXCEPT ![x.dst] = pins[x.dst] \cup {NextPinId(pins[x.dst])}] ELSE pins
  BY DEF ConnectPins
<1> HIDE DEF n
<1>4. /\ Connections' = Connections \cup {n} /\ connections'[n] = x
      /\ \A c \in Connections : connections'[c] = connections[c]
  BY <1>2, <1>3 DEF Insert, Connections
<1>5. Elements' = Elements /\ \A e \in Elements : TypeOf(e)' = TypeOf(e)
  BY DEF Elements, TypeOf
<1>6. /\ DOMAIN r2.connections = DOMAIN r.connections \ {i}
      /\ \A j \in DOMAIN r2.connections : r2.connections[j] = r.connections[j]
  BY BeheadDomain
<1>7. ReadElements(d, r2)'
  BY <1>5 DEF ReadElements
<1>8. /\ Q = DOMAIN d.connections \ DOMAIN r2.connections
      /\ DOMAIN r2.connections \subseteq DOMAIN d.connections
      /\ \A j \in DOMAIN r2.connections : r2.connections[j] = d.connections[j]
  BY <1>1, <1>6 DEF ReadConnections
<1>9. \A a \in Q, b \in DOMAIN r2.connections : a < b
  BY <1>1, <1>6 DEF ReadConnections
<1>10. {connections'[c] : c \in Connections'} = {d.connections[j] : j \in Q}
  <2>1. {connections[c] : c \in Connections} = {d.connections[j] : j \in P}
    BY DEF ReadConnections
  <2>2. {connections'[c] : c \in Connections'} = {connections[c] : c \in Connections} \cup {x}
    BY <1>4
  <2>3. {d.connections[j] : j \in Q} = {d.connections[j] : j \in P} \cup {x}
    OBVIOUS
  <2> QED
    BY <2>1, <2>2, <2>3
<1>11. Cardinality(Connections') = Cardinality(Q)
  <2>1. Cardinality(Connections \cup {n}) = Cardinality(Connections) + 1
    BY <1>2, FS_AddElement
  <2>2. Cardinality(P \cup {i}) = Cardinality(P) + 1
    BY <1>1, FS_AddElement
  <2> QED
    BY <1>4, <2>1, <2>2 DEF ReadConnections
<1>12. \A j \in Q : d.elements[d.connections[j].dst].name \in Dynamic
                        => d.connections[j].in = RankIn(d.connections, j)
  BY DEF ReadConnections
<1>13. ASSUME NEW e \in Elements, TypeOf(e) \in Dynamic
       PROVE  pins'[e] = 0 .. Cardinality(To(d.connections, Q, e))
  <2>1. pins[e] = 0 .. Cardinality(To(d.connections, P, e))
    BY <1>13 DEF ReadConnections
  <2>2. CASE e # x.dst
    <3>1. To(d.connections, Q, e) = To(d.connections, P, e)
      BY <2>2 DEF To
    <3>2. pins'[e] = pins[e]
      BY <1>3, <2>2 DEF GraphTypes
    <3> QED
      BY <2>1, <3>1, <3>2
  <2>3. CASE e = x.dst
    <3> DEFINE K == To(d.connections, P, e)
               k == Cardinality(K)
    <3>1. k \in Nat
      BY <1>1, <2>3
    <3>2. To(d.connections, Q, e) = K \cup {i} /\ i \notin K /\ K \subseteq P
      BY <1>1, <2>3 DEF To
    <3> HIDE DEF K
    <3>3. Cardinality(K \cup {i}) = k + 1
      <4>1. IsFiniteSet(K)
        BY <1>1, <3>2, FS_Subset
      <4> QED
        BY <3>2, <4>1, FS_AddElement
    <3> HIDE DEF k
    <3>4. NextPinId(0 .. k) = k + 1
      BY <3>1, NextPinOfInterval
    <3>5. pins[e] = 0 .. k
      BY <2>1 DEF k, K
    <3>6. pins'[e] = pins[e] \cup {NextPinId(pins[e])}
      BY <1>3, <1>13, <2>3 DEF GraphTypes
    <3>7. pins'[e] = (0 .. k) \cup {k + 1}
      BY <3>4, <3>5, <3>6
    <3>8. (0 .. k) \cup {k + 1} = 0 .. k + 1
      BY <3>1
    <3> QED
      BY <3>2, <3>3, <3>7, <3>8
  <2> QED
    BY <2>2, <2>3
<1> HIDE DEF Q
<1>14. ReadConnections(d, r2, Q)'
  BY <1>5, <1>8, <1>9, <1>10, <1>11, <1>12, <1>13 DEF ReadConnections
<1> QED
  BY <1>7, <1>14 DEF Q

(* All connections have been read: the pipeline is the one that was saved. *)
LEMMA DoneIsSame ==
    ASSUME GraphTypes, NEW d, IsDocument(d), SoundDocument(d), NEW r,
           ReadElements(d, r), NEW P, ReadConnections(d, r, P), r.elements = Nothing, r.connections = Nothing
    PROVE  InPinOrder(d) /\ SameGraph(d)
<1>1. DOMAIN r.elements = {} /\ DOMAIN r.connections = {}
  BY NothingFacts
<1>2. Elements = DOMAIN d.elements /\ P = DOMAIN d.connections
  BY <1>1 DEF ReadElements, ReadConnections
<1>3. InPinOrder(d)
  BY <1>2 DEF InPinOrder, ReadConnections
<1>4. /\ {connections[c] : c \in Connections} = {d.connections[i] : i \in DOMAIN d.connections}
      /\ Cardinality(Connections) = Cardinality(DOMAIN d.connections)
  BY <1>2 DEF ReadConnections
<1>5. SameElements(d)
  BY <1>2 DEF SameElements, ReadElements
<1> QED
  BY <1>3, <1>4, <1>5 DEF SameGraph

(* load() begins. *)
LEMMA NothingIsRead ==
    ASSUME GraphTypes, Structure, NEW d, IsDocument(d), Elements = {}
    PROVE  Read(d, d)
<1>1. Connections = {}
  BY DEF Structure, EndsExist
<1>2. DOMAIN d.connections \ DOMAIN d.connections = {}
  OBVIOUS
<1>3. ReadElements(d, d)
  BY DEF ReadElements
<1>4. ReadConnections(d, d, {})
  BY <1>1 DEF ReadConnections
<1> QED
  BY <1>2, <1>3, <1>4 DEF Read

(* Steps outside load() that do not write. *)
LEMMA LoadInvOutside ==
    ASSUME LoadInv, -1 \notin Elements', files' = files, ~loading'.active, outcome' = "none"
    PROVE  LoadInv'
  BY DEF LoadInv, RoundTrip

LEMMA LoadInvEdit ==
    ASSUME GraphTypes, LoadInv, Edit
    PROVE  LoadInv'
<1>1. files' = files /\ ~loading'.active /\ outcome' = "none"
  BY DEF Edit, AddElement, RemoveElement, SetValue, Connect, Disconnect, Clear, NewPipeline, Editing, fileVars
<1>2. -1 \notin Elements
  BY DEF LoadInv
<1>3. ASSUME NEW t \in Types, AddElement(t) PROVE -1 \notin Elements'
  <2>1. NewId(Elements) \in Nat
    BY NewIdIsNew DEF GraphTypes
  <2>2. Elements' = Elements \cup {NewId(Elements)}
    BY <1>3 DEF AddElement, AddUnder, Insert, Elements
  <2>3. NewId(Elements) # -1
    BY <2>1
  <2> QED
    BY <1>2, <2>2, <2>3
<1>4. ASSUME NEW e \in Elements, RemoveElement(e) PROVE -1 \notin Elements'
  BY <1>2, <1>4 DEF RemoveElement, Restrict, Elements
<1>5. ASSUME Clear \/ NewPipeline PROVE -1 \notin Elements'
  BY <1>5, NothingFacts DEF Clear, NewPipeline, Elements
<1>6. ASSUME NEW e, NEW v, SetValue(e, v) PROVE -1 \notin Elements'
  BY <1>2, <1>6 DEF SetValue, Elements
<1>7. ASSUME children' = children PROVE -1 \notin Elements'
  BY <1>2, <1>7 DEF Elements
<1>8. -1 \notin Elements'
  BY <1>3, <1>4, <1>5, <1>6, <1>7 DEF Edit, Connect, Disconnect
<1> QED
  BY <1>1, <1>8, LoadInvOutside

LEMMA LoadInvFile ==
    ASSUME GraphTypes, Structure, FileTypes, LoadInv, NEW f \in FileNames, Save(f) \/ SaveFails(f) \/ Load(f)
    PROVE  LoadInv'
<1>1. -1 \notin Elements'
  BY DEF LoadInv, Save, SaveFails, Load, graphVars, Elements
<1>2. CASE Save(f)
  <2>1. PICK d : d = Serialised
    OBVIOUS
  <2>2. SoundDocument(d)
    BY <2>1, SerialisedIsSound DEF LoadInv
  <2>3. files' = [files EXCEPT ![f] = d] \/ files' = files
    BY <1>2, <2>1 DEF Save
  <2>4. \A g \in FileNames : files'[g].origin = "saved" => SoundDocument(files'[g])
    <3>1. \A g \in FileNames : files[g].origin = "saved" => SoundDocument(files[g])
      BY DEF LoadInv
    <3>2. \A g \in FileNames : files'[g] = files[g] \/ files'[g] = d
      BY <2>3 DEF FileTypes
    <3> QED
      BY <2>2, <3>1, <3>2
  <2>5. ~loading'.active /\ outcome' = "none"
    BY <1>2 DEF Save, Editing
  <2> QED
    BY <1>1, <2>4, <2>5 DEF LoadInv, RoundTrip
<1>3. CASE SaveFails(f)
  BY <1>1, <1>3, LoadInvOutside DEF SaveFails, Editing
<1>4. CASE Load(f)
  <2>1. /\ filename' = f /\ files' = files /\ UNCHANGED graphVars /\ Elements = {} /\ ~loading.active
        /\ \/ files[f].origin = "absent" /\ loading' = loading
           \/ outcome' = "none" /\ loading' = [active |-> TRUE, doc |-> files[f]]
    BY <1>4 DEF Load, Editing
  <2>2. CASE files[f].origin = "absent" /\ loading' = loading
    BY <1>1, <2>1, <2>2 DEF LoadInv, RoundTrip
  <2>3. CASE outcome' = "none" /\ loading' = [active |-> TRUE, doc |-> files[f]]
    <3>1. PICK d : d = files[f]
      OBVIOUS
    <3>2. IsDocument(d)
      BY <3>1 DEF FileTypes
    <3>3. Read(d, d)
      BY <2>1, <3>2, NothingIsRead
    <3>4. Read(d, d)'
      BY <2>1, <3>3 DEF Read, ReadElements, ReadConnections, graphVars, Elements, Connections, TypeOf
    <3>5. loading'.active = TRUE /\ loading'.doc = d /\ files'[filename'] = d /\ filename' \in FileNames
      BY <2>1, <2>3, <3>1
    <3>6. Read(files[filename], loading.doc)'
      BY <3>4, <3>5
    <3> QED
      BY <1>1, <2>1, <2>3, <3>5, <3>6 DEF LoadInv, RoundTrip
  <2> QED
    BY <2>1, <2>2, <2>3
<1> QED
  BY <1>2, <1>3, <1>4

(* A step of load() that goes on. *)
LEMMA LoadInvGoesOn ==
    ASSUME LoadInv, loading.active, NEW d, d = files[filename], -1 \notin Elements',
           UNCHANGED <<files, filename, outcome>>, NEW r2, loading' = [active |-> TRUE, doc |-> r2],
           d.origin = "saved" => Read(d, r2)'
    PROVE  LoadInv'
<1>1. loading'.active = TRUE /\ loading'.doc = r2 /\ files'[filename'] = d
  OBVIOUS
<1>2. d.origin = "saved" => Read(files[filename], loading.doc)'
  BY <1>1
<1> QED
  BY <1>1, <1>2 DEF LoadInv, RoundTrip

(* load() ends; a saved file loads exactly if its connections are in order. *)
LEMMA LoadInvEnds ==
    ASSUME LoadInv, NEW d, d = files[filename], children' = children, UNCHANGED <<files, filename>>,
           loading' = NotLoading,
           d.origin = "saved" =>
                \/ outcome' = "failed" /\ ~InPinOrder(d)
                \/ outcome' = "loaded" /\ InPinOrder(d) /\ SameGraph(d)'
    PROVE  LoadInv'
<1>1. ~loading'.active /\ files'[filename'] = d /\ -1 \notin Elements'
  BY DEF LoadInv, NotLoading, Elements
<1>2. d.origin = "saved" => LoadsAgain(d)' /\ (outcome' = "loaded" => SameGraph(d)')
  BY DEF LoadsAgain
<1>3. RoundTrip'
  BY <1>1, <1>2 DEF RoundTrip
<1> QED
  BY <1>1, <1>3 DEF LoadInv

LEMMA LoadInvParse ==
    ASSUME GraphTypes, Structure, FileTypes, LoadInv, ParseElement \/ ParseConnection \/ LoadDone
    PROVE  LoadInv'
<1>1. PICK d : d = files[filename]
  OBVIOUS
<1>2. PICK r : r = loading.doc
  OBVIOUS
<1>3. loading.active /\ filename \in FileNames /\ outcome = "none" /\ IsDocument(d) /\ IsDocument(r)
  BY <1>1, <1>2 DEF ParseElement, ParseConnection, LoadDone, LoadInv, FileTypes
<1>4. /\ loading = [active |-> TRUE, doc |-> r]
      /\ r = [elements |-> r.elements, connections |-> r.connections, origin |-> r.origin]
  BY <1>2, <1>3 DEF FileTypes, IsDocument
<1>5. PICK P : P = DOMAIN d.connections \ DOMAIN r.connections
  OBVIOUS
<1>6. d.origin = "saved" => SoundDocument(d) /\ ReadElements(d, r) /\ ReadConnections(d, r, P)
  BY <1>1, <1>2, <1>3, <1>5 DEF LoadInv, Read
<1>7. ASSUME NEW Q, NEW r2, ReadElements(d, r2)', ReadConnections(d, r2, Q)' PROVE Read(d, r2)'
  BY <1>7 DEF Read, ReadConnections
<1>8. CASE ParseElement
  <2>1. PICK i : i = FirstIn(r.elements)
    OBVIOUS
  <2>2. PICK tag : tag = r.elements[i]
    OBVIOUS
  <2>3. PICK l : l = Behead(r.elements)
    OBVIOUS
  <2>4. PICK r2 : r2 = [elements |-> l, connections |-> r.connections, origin |-> r.origin]
    OBVIOUS
  <2>5. /\ r.elements # Nothing
        /\ \/ /\ ElementOK(tag)
              /\ AddUnder(IF tag.id = -1 THEN NewId(Elements) ELSE tag.id,
                          tag.name, ConvertData(tag.name, tag.text))
              /\ loading' = [loading EXCEPT !.doc.elements = l]
              /\ UNCHANGED <<connections, fileVars, outcome>>
           \/ ~ElementOK(tag) /\ LoadFails
    BY <1>2, <1>8, <2>1, <2>2, <2>3 DEF ParseElement
  <2>6. d.origin = "saved" => /\ ElementOK(tag) /\ tag.id = i /\ i # -1
                              /\ ConvertData(tag.name, tag.text) = ComesBackAs(tag.name, tag.text)
    <3> SUFFICES ASSUME d.origin = "saved"
                 PROVE  ElementOK(tag) /\ tag.id = i /\ i # -1 /\ ConvertData(tag.name, tag.text) = ComesBackAs(tag.name, tag.text)
      OBVIOUS
    <3> QED
      BY <1>3, <1>6, <2>1, <2>2, <2>5, ElementIsFine
  <2>7. CASE ~ElementOK(tag) /\ LoadFails
    BY <1>1, <2>6, <2>7, LoadInvEnds DEF LoadFails, graphVars, fileVars
  <2>8. CASE /\ AddUnder(IF tag.id = -1 THEN NewId(Elements) ELSE tag.id,
                         tag.name, ConvertData(tag.name, tag.text))
             /\ loading' = [loading EXCEPT !.doc.elements = l]
             /\ UNCHANGED <<connections, fileVars, outcome>>
    <3>1. loading' = [active |-> TRUE, doc |-> r2]
      BY <1>4, <2>4, <2>8
    <3>2. -1 \notin Elements'
      <4>1. NewId(Elements) \in Nat
        BY NewIdIsNew DEF GraphTypes
      <4>2. NewId(Elements) # -1
        BY <4>1
      <4>3. PICK k : k = IF tag.id = -1 THEN NewId(Elements) ELSE tag.id
        OBVIOUS
      <4>4. k # -1 /\ Elements' = Elements \cup {k}
        BY <2>8, <4>2, <4>3 DEF AddUnder, Insert, Elements
      <4> QED
        BY <4>4 DEF LoadInv
    <3>3. ASSUME d.origin = "saved" PROVE Read(d, r2)'
      <4>1. AddUnder(i, tag.name, ComesBackAs(tag.name, tag.text)) /\ connections' = connections
        BY <2>6, <2>8, <3>3
      <4>2. r2.elements = Behead(r.elements) /\ r2.connections = r.connections
        BY <2>3, <2>4
      <4>3. ReadElements(d, r2)' /\ ReadConnections(d, r2, P)'
        BY <1>3, <1>6, <2>1, <2>2, <2>5, <3>3, <4>1, <4>2, ElementIsRead
      <4> QED
        BY <1>7, <4>3
    <3>4. UNCHANGED <<files, filename, outcome>>
      BY <2>8 DEF fileVars
    <3> QED
      BY <1>1, <1>3, <3>1, <3>2, <3>3, <3>4, LoadInvGoesOn
  <2> QED
    BY <2>5, <2>7, <2>8
<1>9. CASE ParseConnection
  <2>1. PICK i : i = FirstIn(r.connections)
    OBVIOUS
  <2>2. PICK x : x = r.connections[i]
    OBVIOUS
  <2>3. PICK l : l = Behead(r.connections)
    OBVIOUS
  <2>4. PICK r2 : r2 = [elements |-> r.elements, connections |-> l, origin |-> r.origin]
    OBVIOUS
  <2>5. /\ r.elements = Nothing /\ r.connections # Nothing
        /\ \/ /\ ConnectionOK(x)
              /\ ConnectPins(x)
              /\ loading' = [loading EXCEPT !.doc.connections = l]
              /\ UNCHANGED <<children, changed, fileVars, outcome>>
           \/ ~ConnectionOK(x) /\ LoadFails
    BY <1>2, <1>9, <2>1, <2>2, <2>3 DEF ParseConnection
  <2>6. ASSUME d.origin = "saved"
        PROVE  /\ x = d.connections[i] /\ i \in DOMAIN d.connections
               /\ ConnectionOK(x) <=>
                    (d.elements[x.dst].name \in Dynamic => x.in = RankIn(d.connections, i))
    <3>1. x = d.connections[i] /\ i \in DOMAIN d.connections
      BY <1>3, <1>6, <2>1, <2>2, <2>5, <2>6, ConnectionRank
    <3> QED
      BY <1>3, <1>6, <2>1, <2>5, <2>6, <3>1, ConnectionIsFine
  <2>7. CASE ~ConnectionOK(x) /\ LoadFails
    <3>1. d.origin = "saved" => ~InPinOrder(d)
      BY <2>6, <2>7 DEF InPinOrder
    <3> QED
      BY <1>1, <2>7, <3>1, LoadInvEnds DEF LoadFails, graphVars, fileVars
  <2>8. CASE /\ ConnectionOK(x) /\ ConnectPins(x)
             /\ loading' = [loading EXCEPT !.doc.connections = l]
             /\ UNCHANGED <<children, changed, fileVars, outcome>>
    <3>1. loading' = [active |-> TRUE, doc |-> r2]
      BY <1>4, <2>4, <2>8
    <3>2. -1 \notin Elements'
      BY <2>8 DEF LoadInv, Elements
    <3>3. ASSUME d.origin = "saved" PROVE Read(d, r2)'
      <4>1. x.dst \in Elements /\ ConnectPins(x) /\ children' = children
        BY <2>8 DEF ConnectionOK
      <4>2. r2.elements = r.elements /\ r2.connections = Behead(r.connections)
        BY <2>3, <2>4
      <4>3. /\ x = d.connections[i]
            /\ d.elements[x.dst].name \in Dynamic => x.in = RankIn(d.connections, i)
        BY <2>6, <2>8, <3>3
      <4>4. ReadElements(d, r2)' /\ ReadConnections(d, r2, P \cup {i})'
        BY <1>3, <1>6, <2>1, <2>5, <3>3, <4>1, <4>2, <4>3, ConnectionIsRead
      <4> QED
        BY <1>7, <4>4
    <3>4. UNCHANGED <<files, filename, outcome>>
      BY <2>8 DEF fileVars
    <3> QED
      BY <1>1, <1>3, <3>1, <3>2, <3>3, <3>4, LoadInvGoesOn
  <2> QED
    BY <2>5, <2>7, <2>8
<1>10. CASE LoadDone
  <2>1. /\ r.elements = Nothing /\ r.connections = Nothing /\ loading' = NotLoading
        /\ outcome' = "loaded" /\ UNCHANGED graphVars /\ UNCHANGED <<files, filename>>
    BY <1>2, <1>10 DEF LoadDone, fileVars
  <2>2. ASSUME d.origin = "saved" PROVE InPinOrder(d) /\ SameGraph(d)'
    <3>1. InPinOrder(d) /\ SameGraph(d)
      BY <1>3, <1>6, <2>1, <2>2, DoneIsSame
    <3> QED
      BY <2>1, <3>1 DEF SameGraph, SameElements, graphVars, Elements, Connections, TypeOf
  <2> QED
    BY <1>1, <2>1, <2>2, LoadInvEnds DEF graphVars
<1> QED
  BY <1>8, <1>9, <1>10

LEMMA LoadInvStep == GraphSound /\ LoadInv /\ [Next]_pipelineVars => LoadInv'
<1> SUFFICES ASSUME GraphSound, LoadInv, [Next]_pipelineVars PROVE LoadInv'
  OBVIOUS
<1>1. GraphTypes /\ Structure /\ FileTypes
  BY SoundParts
<1>2. CASE Edit
  BY <1>1, <1>2, LoadInvEdit
<1>3. ASSUME NEW f \in SaveNames, Save(f) \/ SaveFails(f) PROVE LoadInv'
  <2>1. f \in FileNames
    BY TypesAssumption
  <2> QED
    BY <1>1, <1>3, <2>1, LoadInvFile
<1>4. ASSUME NEW f \in FileNames, Load(f) PROVE LoadInv'
  BY <1>1, <1>4, LoadInvFile
<1>5. CASE ParseElement \/ ParseConnection \/ LoadDone
  BY <1>1, <1>5, LoadInvParse
<1>6. CASE UNCHANGED pipelineVars
  <2>1. UNCHANGED <<children, pins, connections, changed, filename, files, loading, outcome, wrote>>
    BY <1>6 DEF pipelineVars
  <2>2. RoundTrip' <=> RoundTrip
    BY <2>1 DEF RoundTrip, LoadsAgain, SameGraph, SameElements, Elements, Connections, TypeOf
  <2>3. \A d, r : Read(d, r)' <=> Read(d, r)
    BY <2>1 DEF Read, ReadElements, ReadConnections, Elements, Connections, TypeOf
  <2>4. Read(files[filename], loading.doc)' <=> Read(files[filename], loading.doc)
    BY <2>1, <2>3
  <2> QED
    BY <2>1, <2>2, <2>4 DEF LoadInv, Elements
<1> QED
  BY <1>2, <1>3, <1>4, <1>5, <1>6 DEF Next

(* What saving and loading do, for every set of types, pins and values and    *)
(* after any history of edits: what PipelineLoader reads from a file that it *)
(* wrote is the pipeline that was saved, with the same ids, properties and   *)
(* connections, but for the order of a Sobel filter that the guards of its   *)
(* setters change; and it is read to the end exactly when the    *)
(* connections of every element with dynamic pins are in the order of its    *)
(* pins, which is what connectPins gives and pinConnectionDisconnect breaks. *)
THEOREM SavedPipelinesRoundTrip == Spec => []RoundTrip
<1>1. Init => LoadInv
  <2> SUFFICES ASSUME Init PROVE LoadInv
    OBVIOUS
  <2>1. Elements = {} /\ outcome = "none" /\ ~loading.active /\ files = InitialFiles
    BY NothingFacts DEF Init, Elements, NotLoading
  <2>2. \A f \in FileNames : files[f].origin # "saved"
    BY <2>1, TypesAssumption
  <2> QED
    BY <2>1, <2>2 DEF LoadInv, RoundTrip
<1>2. LoadInv => RoundTrip
  BY DEF LoadInv
<1> QED
  BY <1>1, <1>2, LoadInvStep, GraphAlwaysSound, PTL DEF Spec
=============================================================================
