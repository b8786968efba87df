--------------------------- MODULE OrderingProofs ---------------------------
(* Proofs about GraphOrdering: the walk of generateGraphOrdering finds a      *)
(* cycle exactly when there is one, in every graph that can be edited or      *)
(* loaded and in whatever order the end nodes are visited, and otherwise      *)
(* sorts the elements.                                                        *)
EXTENDS GraphOrdering, GraphProofs, SequenceTheorems

(* The walk has a part of the ordering that is closed under sources, and a    *)
(* path of elements whose visit() is under way, each a source of its caller.  *)
(* What a call has followed is in the ordering or is the next call.           *)
Frames == [node : Elements, left : SUBSET Connections]
SetOf(o) == {o[i] : i \in 1 .. Len(o)}
Nodes(s) == {s[i].node : i \in 1 .. Len(s)}
InOrder(o) ==
    /\ o \in Seq(Elements)
    /\ \A i, j \in 1 .. Len(o) : o[i] = o[j] => i = j
    /\ \A i \in 1 .. Len(o) : \A x \in SourcesOf(o[i]) : \E j \in 1 .. i - 1 : x = o[j]
Path(s) ==
    /\ s \in Seq(Frames)
    /\ \A i, j \in 1 .. Len(s) : s[i].node = s[j].node => i = j
    /\ \A i \in 1 .. Len(s) : s[i].left \subseteq Incoming(s[i].node)
    /\ \A i \in 1 .. Len(s) - 1 : s[i + 1].node \in SourcesOf(s[i].node)
Open(s, o) == \A i \in 1 .. Len(s) : s[i].node \notin SetOf(o)
NextCall(s, i, x) == i < Len(s) /\ x = s[i + 1].node
Handled(s, o) ==
    \A i \in 1 .. Len(s) : \A c \in Incoming(s[i].node) :
        c \in s[i].left \/ connections[c].src \in SetOf(o) \/ NextCall(s, i, connections[c].src)
FirstCall(s, e) == s # <<>> /\ e = s[1].node
Covered(s, o, en) == \A e \in EndNodes : e \in en \/ e \in SetOf(o) \/ FirstCall(s, e)
Walking(s, o, en) == InOrder(o) /\ Path(s) /\ Open(s, o) /\ Handled(s, o) /\ Covered(s, o, en)

WalkInv ==
    /\ phase \in {"edit", "visit", "done"}
    /\ phase = "edit" => stack = <<>> /\ visited = {}
    /\ phase = "visit" => Walking(stack, ordering, endNodes) /\ visited = Nodes(stack)
    /\ OrderingSound

-----------------------------------------------------------------------------
(* The graph: connections join elements, and nothing goes into a producer.    *)
LEMMA GraphFacts ==
    ASSUME GraphSound
    PROVE  /\ \A c \in Connections : /\ connections[c].src \in Elements
                                     /\ connections[c].dst \in Elements
                                     /\ ~IsProducer(connections[c].dst)
           /\ \A e \in Elements : SourcesOf(e) \subseteq Elements
           /\ \A e \in Elements : IsProducer(e) => Incoming(e) = {} /\ SourcesOf(e) = {}
           /\ \A e : Incoming(e) \subseteq Connections
<1>1. ASSUME NEW c \in Connections
      PROVE  /\ connections[c].src \in Elements /\ connections[c].dst \in Elements
             /\ connections[c].in \in pins[connections[c].dst]
  BY DEF GraphSound, EndsExist, InPins
<1>2. ASSUME NEW e \in Elements, IsProducer(e), NEW p \in pins[e] PROVE FALSE
  <2>1. TypeOf(e) \in Types
    BY SoundParts, ElementFacts
  <2>2. CASE TypeOf(e) \in Dynamic
    <3>1. DOMAIN inType[TypeOf(e)] = {0}
      BY <2>2, TypesAssumption
    <3> QED
      BY <1>2, <3>1 DEF IsProducer
  <2>3. CASE TypeOf(e) \notin Dynamic
    BY <1>2, <2>3 DEF GraphSound, PinsAsDeclared, IsProducer
  <2> QED
    BY <2>2, <2>3
<1>3. \A c \in Connections : ~IsProducer(connections[c].dst)
  BY <1>1, <1>2
<1>4. \A e : Incoming(e) \subseteq Connections
  BY DEF Incoming
<1>5. \A e \in Elements : SourcesOf(e) \subseteq Elements
  BY <1>1 DEF SourcesOf, Incoming
<1>6. \A e \in Elements : IsProducer(e) => Incoming(e) = {}
  BY <1>3 DEF Incoming
<1>7. \A e \in Elements : IsProducer(e) => SourcesOf(e) = {}
  BY <1>6 DEF SourcesOf
<1> QED
  BY <1>1, <1>3, <1>4, <1>5, <1>6, <1>7

(* Every element is an end node or a source of one. *)
LEMMA EndNodesReach ==
    ASSUME GraphSound, NEW e \in Elements
    PROVE  e \in EndNodes \/ \E f \in EndNodes : e \in SourcesOf(f)
<1>1. SUFFICES ASSUME e \notin EndNodes PROVE \E f \in EndNodes : e \in SourcesOf(f)
  OBVIOUS
<1>2. PICK c \in Connections : connections[c].src = e
  BY <1>1 DEF EndNodes, IsEndNode, Unconnected
<1>3. connections[c].dst \in EndNodes
  BY GraphFacts DEF EndNodes, IsEndNode, Unconnected
<1>4. e \in SourcesOf(connections[c].dst)
  BY <1>2 DEF SourcesOf, Incoming
<1> QED
  BY <1>3, <1>4

-----------------------------------------------------------------------------
(* The ordering grows by an element whose sources it has. *)
LEMMA OrderGrows ==
    ASSUME NEW o, InOrder(o), NEW x \in Elements, x \notin SetOf(o), SourcesOf(x) \subseteq SetOf(o),
           NEW q, q = Append(o, x)
    PROVE  InOrder(q) /\ SetOf(q) = SetOf(o) \cup {x}
<1>1. o \in Seq(Elements) /\ Len(o) \in Nat
  BY DEF InOrder
<1>2. q \in Seq(Elements)
  BY <1>1
<1>3. /\ Len(q) = Len(o) + 1 /\ q[Len(o) + 1] = x
      /\ \A i \in 1 .. Len(o) : q[i] = o[i]
  BY <1>1
<1>4. \A i \in 1 .. Len(q) : i \in 1 .. Len(o) \/ i = Len(o) + 1
  BY <1>1, <1>3
<1>5. \A i \in 1 .. Len(o) : i \in 1 .. Len(q)
  BY <1>1, <1>3
<1>6. SetOf(q) = SetOf(o) \cup {x}
  <2>1. Len(o) + 1 \in 1 .. Len(q)
    BY <1>1, <1>3
  <2> QED
    BY <1>3, <1>4, <1>5, <2>1 DEF SetOf
<1>7. \A i \in 1 .. Len(o) : o[i] # x
  BY DEF SetOf
<1>8. \A i, j \in 1 .. Len(q) : q[i] = q[j] => i = j
  <2>1. \A i, j \in 1 .. Len(o) : o[i] = o[j] => i = j
    BY DEF InOrder
  <2> QED
    BY <1>3, <1>4, <1>7, <2>1
<1>9. ASSUME NEW i \in 1 .. Len(q), NEW y \in SourcesOf(q[i])
      PROVE  \E j \in 1 .. i - 1 : y = q[j]
  <2>1. CASE i = Len(o) + 1
    <3>1. y \in SetOf(o)
      BY <1>3, <1>9, <2>1
    <3>2. PICK j \in 1 .. Len(o) : y = o[j]
      BY <3>1 DEF SetOf
    <3>3. j \in 1 .. i - 1 /\ y = q[j]
      BY <1>1, <1>3, <2>1, <3>2
    <3> QED
      BY <3>3
  <2>2. CASE i \in 1 .. Len(o)
    <3>1. y \in SourcesOf(o[i])
      BY <1>3, <1>9, <2>2
    <3>2. PICK j \in 1 .. i - 1 : y = o[j]
      BY <2>2, <3>1 DEF InOrder
    <3>3. j \in 1 .. Len(o)
      BY <1>1, <2>2, <3>2
    <3> QED
      BY <1>3, <3>2, <3>3
  <2> QED
    BY <1>4, <2>1, <2>2
<1> QED
  BY <1>2, <1>6, <1>8, <1>9 DEF InOrder

(* A call more, a call less, and a connection followed. *)
LEMMA PathGrows ==
    ASSUME NEW s, Path(s), NEW f \in Frames, f.node \notin Nodes(s), f.left \subseteq Incoming(f.node),
           s # <<>> => f.node \in SourcesOf(s[Len(s)].node),
           NEW q, q = Append(s, f)
    PROVE  /\ Path(q) /\ \A x : x \in Nodes(q) <=> x \in Nodes(s) \/ x = f.node
           /\ Len(q) = Len(s) + 1 /\ q[Len(s) + 1] = f /\ \A i \in 1 .. Len(s) : q[i] = s[i]
<1>1. s \in Seq(Frames) /\ Len(s) \in Nat /\ (s # <<>> <=> Len(s) # 0)
  BY DEF Path
<1>2. q \in Seq(Frames)
  BY <1>1
<1>3. Len(q) = Len(s) + 1 /\ q[Len(s) + 1] = f /\ \A i \in 1 .. Len(s) : q[i] = s[i]
  BY <1>1
<1>4. \A i \in 1 .. Len(q) : i \in 1 .. Len(s) \/ i = Len(s) + 1
  BY <1>1, <1>3
<1>5. (\A i \in 1 .. Len(s) : i \in 1 .. Len(q)) /\ Len(s) + 1 \in 1 .. Len(q)
  BY <1>1, <1>3
<1>6. Nodes(q) = Nodes(s) \cup {f.node}
  BY <1>3, <1>4, <1>5 DEF Nodes
<1>7. \A i \in 1 .. Len(s) : s[i].node # f.node
  BY DEF Nodes
<1>8. \A i, j \in 1 .. Len(q) : q[i].node = q[j].node => i = j
  <2>1. \A i, j \in 1 .. Len(s) : s[i].node = s[j].node => i = j
    BY DEF Path
  <2> QED
    BY <1>3, <1>4, <1>7, <2>1
<1>9. ASSUME NEW i \in 1 .. Len(q) - 1 PROVE q[i + 1].node \in SourcesOf(q[i].node)
  <2>1. CASE i = Len(s)
    <3>1. i \in 1 .. Len(s) /\ s # <<>>
      BY <1>1, <2>1
    <3> QED
      BY <1>3, <2>1, <3>1
  <2>2. CASE i # Len(s)
    <3>1. i \in 1 .. Len(s) - 1 /\ i \in 1 .. Len(s) /\ i + 1 \in 1 .. Len(s)
      BY <1>1, <1>3, <2>2
    <3>2. s[i + 1].node \in SourcesOf(s[i].node)
      BY <3>1 DEF Path
    <3> QED
      BY <1>3, <3>1, <3>2
  <2> QED
    BY <2>1, <2>2
<1>10. \A i \in 1 .. Len(q) : q[i].left \subseteq Incoming(q[i].node)
  BY <1>3, <1>4 DEF Path
<1> QED
  BY <1>2, <1>3, <1>6, <1>8, <1>9, <1>10 DEF Path

LEMMA PathShrinks ==
    ASSUME NEW s, Path(s), s # <<>>, NEW q, q = SubSeq(s, 1, Len(s) - 1)
    PROVE  /\ Path(q) /\ Nodes(q) = Nodes(s) \ {s[Len(s)].node}
           /\ Len(q) = Len(s) - 1 /\ \A i \in 1 .. Len(q) : q[i] = s[i] /\ i \in 1 .. Len(s)
<1>1. s \in Seq(Frames) /\ Len(s) \in Nat /\ Len(s) # 0
  BY DEF Path
<1>2. q \in Seq(Frames) /\ Len(q) = Len(s) - 1 /\ \A i \in 1 .. Len(s) - 1 : q[i] = s[i]
  <2>1. PICK n \in Int : n = Len(s) - 1
    BY <1>1, SMTT(30)
  <2>2. \A i \in 1 .. n : s[i] \in Frames
    BY <1>1, <2>1
  <2>3. /\ SubSeq(s, 1, n) \in Seq(Frames)
        /\ Len(SubSeq(s, 1, n)) = IF 1 <= n THEN n - 1 + 1 ELSE 0
        /\ \A i \in 1 .. n - 1 + 1 : SubSeq(s, 1, n)[i] = s[1 + i - 1]
    BY <2>2, SubSeqProperties
  <2>4. /\ q \in Seq(Frames) /\ Len(q) = IF 1 <= n THEN n - 1 + 1 ELSE 0
        /\ \A i \in 1 .. n - 1 + 1 : q[i] = s[1 + i - 1]
    BY <2>1, <2>3
  <2>5. \A i \in 1 .. n : i \in 1 .. n - 1 + 1 /\ 1 + i - 1 = i
    OBVIOUS
  <2>6. Len(q) = Len(s) - 1
    BY <1>1, <2>1, <2>4
  <2> QED
    BY <2>1, <2>4, <2>5, <2>6
<1>3. \A i \in 1 .. Len(q) : q[i] = s[i] /\ i \in 1 .. Len(s) /\ i # Len(s)
  BY <1>1, <1>2
<1>4. \A i \in 1 .. Len(s) : i = Len(s) \/ i \in 1 .. Len(q)
  BY <1>1, <1>2
<1>5. \A i, j \in 1 .. Len(s) : s[i].node = s[j].node => i = j
  BY DEF Path
<1>6. Len(s) \in 1 .. Len(s)
  BY <1>1
<1>7. Nodes(q) = Nodes(s) \ {s[Len(s)].node}
  <2>1. \A x : x \in Nodes(q) => x \in Nodes(s) /\ x # s[Len(s)].node
    <3> SUFFICES ASSUME NEW i \in 1 .. Len(q)
                 PROVE  q[i].node \in Nodes(s) /\ q[i].node # s[Len(s)].node
      BY DEF Nodes
    <3>1. q[i] = s[i] /\ i \in 1 .. Len(s) /\ i # Len(s)
      BY <1>3
    <3>2. s[i].node # s[Len(s)].node
      BY <1>5, <1>6, <3>1
    <3> QED
      BY <3>1, <3>2 DEF Nodes
  <2>2. \A x : x \in Nodes(s) /\ x # s[Len(s)].node => x \in Nodes(q)
    BY <1>3, <1>4 DEF Nodes
  <2> QED
    BY <2>1, <2>2
<1>8. \A i, j \in 1 .. Len(q) : q[i].node = q[j].node => i = j
  BY <1>3, <1>5
<1>9. ASSUME NEW i \in 1 .. Len(q) - 1 PROVE q[i + 1].node \in SourcesOf(q[i].node)
  <2>1. i \in 1 .. Len(s) - 1 /\ i \in 1 .. Len(q) /\ i + 1 \in 1 .. Len(q)
    BY <1>1, <1>2
  <2>2. s[i + 1].node \in SourcesOf(s[i].node)
    BY <2>1 DEF Path
  <2> QED
    BY <1>3, <2>1, <2>2
<1>10. \A i \in 1 .. Len(q) : q[i].left \subseteq Incoming(q[i].node)
  BY <1>3 DEF Path
<1> QED
  BY <1>2, <1>3, <1>7, <1>8, <1>9, <1>10 DEF Path

LEMMA PathFollows ==
    ASSUME NEW s, Path(s), s # <<>>, NEW c, NEW q,
           q = Followed(s, c)
    PROVE  /\ Path(q) /\ (\A x : x \in Nodes(q) <=> x \in Nodes(s)) /\ Len(q) = Len(s) /\ q # <<>>
           /\ \A d : d \in q[Len(s)].left <=> d \in s[Len(s)].left /\ d # c
           /\ \A i \in 1 .. Len(s) : q[i].node = s[i].node /\ (i # Len(s) => q[i] = s[i])
<1>1. s \in Seq(Frames) /\ Len(s) \in Nat /\ Len(s) # 0 /\ Len(s) \in 1 .. Len(s)
  BY DEF Path
<1>2. s[Len(s)] \in Frames
  BY <1>1
<1>3. PICK f \in Frames : f.node = s[Len(s)].node /\ f.left = s[Len(s)].left \ {c}
                          /\ f = [s[Len(s)] EXCEPT !.left = @ \ {c}]
  BY <1>2 DEF Frames
<1>4. q = [s EXCEPT ![Len(s)] = f]
  BY <1>3 DEF Followed
<1>5. q \in Seq(Frames) /\ Len(q) = Len(s)
  BY <1>1, <1>4
<1>6. q[Len(s)] = f /\ \A i \in 1 .. Len(s) : i # Len(s) => q[i] = s[i]
  BY <1>1, <1>4
<1>7. \A i \in 1 .. Len(s) : q[i].node = s[i].node
  BY <1>3, <1>6
<1>8. Nodes(q) = Nodes(s)
  BY <1>5, <1>7 DEF Nodes
<1>9. q # <<>>
  BY <1>1, <1>5
<1>10. \A i, j \in 1 .. Len(q) : q[i].node = q[j].node => i = j
  BY <1>5, <1>7 DEF Path
<1>11. ASSUME NEW i \in 1 .. Len(q) - 1 PROVE q[i + 1].node \in SourcesOf(q[i].node)
  <2>1. i \in 1 .. Len(s) - 1 /\ i \in 1 .. Len(s) /\ i + 1 \in 1 .. Len(s)
    BY <1>1, <1>5
  <2>2. s[i + 1].node \in SourcesOf(s[i].node)
    BY <2>1 DEF Path
  <2> QED
    BY <1>7, <2>1, <2>2
<1>12. \A i \in 1 .. Len(q) : q[i].left \subseteq Incoming(q[i].node)
  BY <1>3, <1>5, <1>6, <1>7, ZenonT(30) DEF Path
<1> QED
  BY <1>3, <1>5, <1>6, <1>7, <1>8, <1>9, <1>10, <1>11, <1>12 DEF Path

-----------------------------------------------------------------------------
(* A call of visit() on e that the calls s are about to make: e is all that   *)
(* the last of them, or the loop over the end nodes, has not handled.         *)
Calling(s, o, en, e) ==
    /\ InOrder(o) /\ Path(s) /\ Open(s, o)
    /\ s # <<>> => e \in SourcesOf(s[Len(s)].node)
    /\ \A i \in 1 .. Len(s) : \A c \in Incoming(s[i].node) :
          \/ c \in s[i].left \/ connections[c].src \in SetOf(o)
          \/ NextCall(s, i, connections[c].src) \/ (i = Len(s) /\ connections[c].src = e)
    /\ \A x \in EndNodes : x \in en \/ x \in SetOf(o) \/ FirstCall(s, x) \/ (s = <<>> /\ x = e)

(* e is in the ordering, before or after the call. *)
LEMMA CallDone ==
    ASSUME NEW s, NEW o, NEW en, NEW e, NEW q, Calling(s, o, en, e),
           InOrder(q), SetOf(q) = SetOf(o) \cup {e}, e \notin Nodes(s)
    PROVE  Walking(s, q, en)
<1>1. InOrder(q) /\ Path(s)
  BY DEF Calling
<1>2. Open(s, q)
  BY DEF Calling, Open, Nodes
<1>3. Handled(s, q)
  BY DEF Calling, Handled
<1>4. Covered(s, q, en)
  BY DEF Calling, Covered
<1> QED
  BY <1>1, <1>2, <1>3, <1>4 DEF Walking

Joins(q, s, e) == \A x : x \in Nodes(q) <=> x \in Nodes(s) \/ x = e

(* e is not yet in the ordering and has sources to follow. *)
LEMMA CallPushed ==
    ASSUME GraphSound, NEW s, NEW o, NEW en, NEW e \in Elements, NEW q, Calling(s, o, en, e),
           e \notin SetOf(o), e \notin Nodes(s),
           q = Append(s, NewCall(e))
    PROVE  Walking(q, o, en) /\ Joins(q, s, e)
<1>0. NewCall(e) \in Frames /\ NewCall(e).node = e /\ NewCall(e).left = Incoming(e)
  BY GraphFacts DEF Frames, NewCall
<1>1. PICK f \in Frames : f = NewCall(e)
  BY <1>0
<1>2. f.node = e /\ f.left = Incoming(e) /\ q = Append(s, f)
  BY <1>0, <1>1
<1>3. Path(s) /\ s \in Seq(Frames) /\ Len(s) \in Nat /\ (s # <<>> <=> Len(s) # 0)
  BY DEF Calling, Path
<1>4. s # <<>> => f.node \in SourcesOf(s[Len(s)].node)
  BY <1>2 DEF Calling
<1>5. /\ Path(q) /\ Nodes(q) = Nodes(s) \cup {e}
      /\ Len(q) = Len(s) + 1 /\ q[Len(s) + 1] = f /\ \A i \in 1 .. Len(s) : q[i] = s[i]
  <2>1. f.node \notin Nodes(s) /\ q = Append(s, f) /\ f.left \subseteq Incoming(f.node)
    BY <1>2
  <2>2. /\ Path(q) /\ Nodes(q) = Nodes(s) \cup {f.node}
        /\ Len(q) = Len(s) + 1 /\ q[Len(s) + 1] = f /\ \A i \in 1 .. Len(s) : q[i] = s[i]
    <3>1. Path(q)
      BY <1>3, <1>4, <2>1, PathGrows
    <3>2. \A x : x \in Nodes(q) <=> x \in Nodes(s) \/ x = f.node
      BY <1>3, <1>4, <2>1, PathGrows
    <3>3. Len(q) = Len(s) + 1 /\ q[Len(s) + 1] = f
      BY <1>3, <1>4, <2>1, PathGrows
    <3>4. \A i \in 1 .. Len(s) : q[i] = s[i]
      BY <1>3, <1>4, <2>1, PathGrows
    <3> QED
      BY <3>1, <3>2, <3>3, <3>4
  <2> QED
    BY <1>2, <2>2
<1>6. \A i \in 1 .. Len(q) : i \in 1 .. Len(s) \/ i = Len(s) + 1
  BY <1>3, <1>5
<1>7. Open(q, o)
  <2>1. \A i \in 1 .. Len(s) : s[i].node \notin SetOf(o)
    BY DEF Calling, Open
  <2> QED
    BY <1>2, <1>5, <1>6, <2>1 DEF Open
<1>8. ASSUME NEW i \in 1 .. Len(q), NEW c \in Incoming(q[i].node)
      PROVE  c \in q[i].left \/ connections[c].src \in SetOf(o) \/ NextCall(q, i, connections[c].src)
  <2>1. CASE i = Len(s) + 1
    BY <1>2, <1>5, <1>8, <2>1
  <2>2. CASE i \in 1 .. Len(s)
    <3>1. c \in Incoming(s[i].node)
      BY <1>5, <1>8, <2>2
    <3>2. \/ c \in s[i].left \/ connections[c].src \in SetOf(o)
          \/ NextCall(s, i, connections[c].src) \/ (i = Len(s) /\ connections[c].src = e)
      BY <2>2, <3>1 DEF Calling
    <3>3. NextCall(s, i, connections[c].src) => NextCall(q, i, connections[c].src)
      BY <1>3, <1>5, <2>2 DEF NextCall
    <3>4. i = Len(s) /\ connections[c].src = e => NextCall(q, i, connections[c].src)
      BY <1>2, <1>3, <1>5 DEF NextCall
    <3> QED
      BY <1>5, <2>2, <3>2, <3>3, <3>4
  <2> QED
    BY <1>6, <2>1, <2>2
<1>9. Covered(q, o, en)
  <2>1. q # <<>>
    BY <1>3, <1>5
  <2>2. \A x : FirstCall(s, x) => FirstCall(q, x)
    BY <1>3, <1>5, <2>1 DEF FirstCall
  <2>3. s = <<>> => FirstCall(q, e)
    BY <1>2, <1>3, <1>5, <2>1 DEF FirstCall
  <2> QED
    BY <2>2, <2>3 DEF Calling, Covered
<1> QED
  BY <1>5, <1>7, <1>8, <1>9 DEF Calling, Walking, Handled, Joins

(* e is one of the calls under way: they go round. *)
LEMMA CallCycle ==
    ASSUME NEW s, NEW o, NEW en, NEW e, Calling(s, o, en, e), e \in Nodes(s)
    PROVE  HasCycle
<1>1. s \in Seq(Frames) /\ Len(s) \in Nat
  BY DEF Calling, Path
<1>2. s # <<>>
  BY DEF Nodes
<1>3. Nodes(s) \subseteq Elements
  <2>1. \A i \in 1 .. Len(s) : s[i] \in Frames
    BY <1>1
  <2>2. \A f \in Frames : f.node \in Elements
    BY DEF Frames
  <2> QED
    BY <2>1, <2>2 DEF Nodes
<1>4. ASSUME NEW i \in 1 .. Len(s) PROVE SourcesOf(s[i].node) \cap Nodes(s) # {}
  <2>1. CASE i = Len(s)
    BY <1>2, <2>1 DEF Calling
  <2>2. CASE i # Len(s)
    <3>1. i \in 1 .. Len(s) - 1 /\ i + 1 \in 1 .. Len(s)
      BY <1>1, <2>2
    <3>2. s[i + 1].node \in SourcesOf(s[i].node)
      BY <3>1 DEF Calling, Path
    <3>3. s[i + 1].node \in Nodes(s)
      BY <3>1 DEF Nodes
    <3> QED
      BY <3>2, <3>3
  <2> QED
    BY <2>1, <2>2
<1>5. \A x \in Nodes(s) : SourcesOf(x) \cap Nodes(s) # {}
  BY <1>4 DEF Nodes
<1>6. PICK S \in SUBSET Elements : S = Nodes(s)
  BY <1>3
<1> QED
  BY <1>5, <1>6 DEF HasCycle

(* The steps of the walk keep the graph. *)
LEMMA WalkingKept ==
    ASSUME UNCHANGED pipelineVars, Walking(stack', ordering', endNodes')
    PROVE  Walking(stack, ordering, endNodes)'
<1>1. UNCHANGED <<children, connections>>
  BY DEF pipelineVars
<1>2. /\ Elements' = Elements /\ Connections' = Connections
      /\ \A e : Incoming(e)' = Incoming(e) /\ SourcesOf(e)' = SourcesOf(e) /\ IsProducer(e)' = IsProducer(e)
  BY <1>1 DEF Elements, Connections, Incoming, SourcesOf, IsProducer, TypeOf
<1>3. EndNodes' = EndNodes
  BY <1>1, <1>2 DEF EndNodes, IsEndNode, Unconnected
<1>4. InOrder(ordering)'
  BY <1>2 DEF Walking, InOrder
<1>5. Path(stack)'
  BY <1>2 DEF Walking, Path, Frames
<1>6. Open(stack, ordering)'
  BY DEF Walking, Open, SetOf
<1>7. Handled(stack, ordering)'
  BY <1>1, <1>2 DEF Walking, Handled, SetOf, NextCall
<1>8. Covered(stack, ordering, endNodes)'
  BY <1>3 DEF Walking, Covered, SetOf, FirstCall
<1> QED
  BY <1>4, <1>5, <1>6, <1>7, <1>8 DEF Walking

LEMMA CycleKept == ASSUME UNCHANGED pipelineVars PROVE HasCycle' = HasCycle
<1>1. UNCHANGED <<children, connections>>
  BY DEF pipelineVars
<1> QED
  BY <1>1 DEF HasCycle, Elements, Connections, Incoming, SourcesOf

(* visit() as a whole. *)
LEMMA VisitStep ==
    ASSUME GraphSound, NEW e \in Elements, NEW s, Calling(s, ordering, endNodes', e),
           phase = "visit", visited = Nodes(s), Visit(e, s), UNCHANGED pipelineVars
    PROVE  WalkInv'
<1>1. Ordered = SetOf(ordering)
  BY DEF Calling, InOrder, Ordered, SetOf
<1>2. InOrder(ordering) /\ Open(s, ordering)
  BY DEF Calling
<1>3. SUFFICES \/ phase' = "visit" /\ Walking(stack', ordering', endNodes') /\ visited' = Nodes(stack')
               \/ phase' = "done" /\ ok' = FALSE /\ HasCycle
  <2>1. CASE phase' = "visit" /\ Walking(stack', ordering', endNodes') /\ visited' = Nodes(stack')
    <3>1. Walking(stack, ordering, endNodes)'
      BY <2>1, WalkingKept
    <3>2. (visited = Nodes(stack))'
      BY <2>1 DEF Nodes
    <3> QED
      BY <2>1, <3>1, <3>2 DEF WalkInv, OrderingSound
  <2>2. CASE phase' = "done" /\ ok' = FALSE /\ HasCycle
    BY <2>2, CycleKept DEF WalkInv, OrderingSound
  <2> QED
    BY <1>3, <2>1, <2>2
<1>4. CASE e \in SetOf(ordering)
  <2>1. stack' = s /\ ordering' = ordering /\ visited' = visited /\ phase' = phase
    BY <1>1, <1>4 DEF Visit
  <2>2. e \notin Nodes(s) /\ SetOf(ordering) = SetOf(ordering) \cup {e}
    BY <1>2, <1>4 DEF Open, Nodes
  <2>3. Walking(s, ordering, endNodes')
    BY <1>2, <2>2, CallDone
  <2> QED
    BY <2>1, <2>3
<1>5. CASE e \notin SetOf(ordering) /\ e \in Nodes(s)
  BY <1>1, <1>5, CallCycle DEF Visit
<1>6. CASE e \notin SetOf(ordering) /\ e \notin Nodes(s) /\ IsProducer(e)
  <2>1. stack' = s /\ ordering' = Append(ordering, e) /\ visited' = visited /\ phase' = phase
    BY <1>1, <1>6 DEF Visit
  <2>2. SourcesOf(e) \subseteq SetOf(ordering)
    BY <1>6, GraphFacts
  <2>3. InOrder(ordering') /\ SetOf(ordering') = SetOf(ordering) \cup {e}
    BY <1>2, <1>6, <2>1, <2>2, OrderGrows
  <2>4. Walking(s, ordering', endNodes')
    BY <1>6, <2>3, CallDone
  <2> QED
    BY <2>1, <2>4
<1>7. CASE e \notin SetOf(ordering) /\ e \notin Nodes(s) /\ ~IsProducer(e)
  <2>1. /\ stack' = Append(s, NewCall(e))
        /\ ordering' = ordering /\ visited' = visited \cup {e} /\ phase' = phase
    BY <1>1, <1>7 DEF Visit
  <2>2. Walking(stack', ordering, endNodes') /\ Nodes(stack') = Nodes(s) \cup {e}
    <3>1. Walking(stack', ordering, endNodes')
      BY <1>7, <2>1, CallPushed
    <3>2. \A x : x \in Nodes(stack') <=> x \in Nodes(s) \/ x = e
      <4>1. Joins(stack', s, e)
        BY <1>7, <2>1, CallPushed
      <4> QED
        BY <4>1 DEF Joins
    <3> QED
      BY <3>1, <3>2
  <2> QED
    BY <2>1, <2>2
<1> QED
  BY <1>4, <1>5, <1>6, <1>7

(* The loop over the end nodes. *)
LEMMA EndNodeStep ==
    ASSUME GraphSound, WalkInv, NEW e \in Elements, VisitEndNode(e), UNCHANGED pipelineVars
    PROVE  WalkInv'
<1>1. /\ phase = "visit" /\ stack = <<>> /\ endNodes' = endNodes \ {e} /\ Visit(e, stack)
      /\ Walking(stack, ordering, endNodes) /\ visited = Nodes(stack)
  BY DEF VisitEndNode, WalkInv
<1>2. Calling(stack, ordering, endNodes', e)
  BY <1>1 DEF Walking, Calling, Handled, Covered
<1> QED
  BY <1>1, <1>2, VisitStep

(* The loop over the input pins. *)
LEMMA IncomingStep ==
    ASSUME GraphSound, WalkInv, NEW c \in Connections, VisitIncoming(c), UNCHANGED pipelineVars
    PROVE  WalkInv'
<1> DEFINE e == connections[c].src
           s == Followed(stack, c)
<1>1. /\ phase = "visit" /\ stack # <<>> /\ c \in stack[Len(stack)].left
      /\ Visit(e, s) /\ endNodes' = endNodes
      /\ Walking(stack, ordering, endNodes) /\ visited = Nodes(stack)
  BY DEF VisitIncoming, WalkInv, NextPin, Depth
<1>2. e \in Elements
  BY GraphFacts
<1>3. /\ Path(s) /\ Nodes(s) = Nodes(stack) /\ Len(s) = Len(stack) /\ s # <<>>
      /\ \A d : d \in s[Len(stack)].left <=> d \in stack[Len(stack)].left /\ d # c
      /\ \A i \in 1 .. Len(stack) : s[i].node = stack[i].node /\ (i # Len(stack) => s[i] = stack[i])
  <2>1. Path(stack) /\ stack # <<>>
    BY <1>1 DEF Walking
  <2>2. Path(s)
    BY <2>1, PathFollows
  <2>3. \A x : x \in Nodes(s) <=> x \in Nodes(stack)
    BY <2>1, PathFollows
  <2>4. Len(s) = Len(stack) /\ s # <<>>
    BY <2>1, PathFollows
  <2>5. \A d : d \in s[Len(stack)].left <=> d \in stack[Len(stack)].left /\ d # c
    BY <2>1, PathFollows
  <2>6. \A i \in 1 .. Len(stack) : s[i].node = stack[i].node /\ (i # Len(stack) => s[i] = stack[i])
    BY <2>1, PathFollows
  <2> QED
    BY <2>2, <2>3, <2>4, <2>5, <2>6
<1> HIDE DEF s, e
<1>4. Len(stack) \in Nat /\ Len(stack) \in 1 .. Len(stack)
  BY <1>1 DEF Walking, Path
<1>5. e \in SourcesOf(s[Len(s)].node)
  <2>1. c \in Incoming(stack[Len(stack)].node)
    BY <1>1, <1>4 DEF Walking, Path
  <2> QED
    BY <1>3, <1>4, <2>1 DEF SourcesOf, e
<1>6. Open(s, ordering)
  BY <1>1, <1>3 DEF Walking, Open
<1>7. ASSUME NEW i \in 1 .. Len(s), NEW d \in Incoming(s[i].node)
      PROVE  \/ d \in s[i].left \/ connections[d].src \in SetOf(ordering)
             \/ NextCall(s, i, connections[d].src) \/ (i = Len(s) /\ connections[d].src = e)
  <2>1. d \in stack[i].left \/ connections[d].src \in SetOf(ordering) \/ NextCall(stack, i, connections[d].src)
    BY <1>1, <1>3, <1>7 DEF Walking, Handled
  <2>2. NextCall(stack, i, connections[d].src) => NextCall(s, i, connections[d].src)
    BY <1>3, <1>4 DEF NextCall
  <2>3. d \in stack[i].left => d \in s[i].left \/ (i = Len(s) /\ connections[d].src = e)
    BY <1>3, <1>4 DEF e
  <2> QED
    BY <2>1, <2>2, <2>3
<1>8. \A x \in EndNodes : x \in endNodes' \/ x \in SetOf(ordering) \/ FirstCall(s, x)
  <2>1. 1 \in 1 .. Len(stack)
    BY <1>4
  <2>2. \A x : FirstCall(stack, x) => FirstCall(s, x)
    BY <1>3, <2>1 DEF FirstCall
  <2> QED
    BY <1>1, <2>2 DEF Walking, Covered
<1>9. Calling(s, ordering, endNodes', e)
  BY <1>1, <1>3, <1>5, <1>6, <1>7, <1>8 DEF Calling, Walking
<1> QED
  BY <1>1, <1>2, <1>3, <1>9, VisitStep

(* The last call returns: its element has its sources in the ordering. *)
LEMMA ReturnStep ==
    ASSUME GraphSound, WalkInv, Return, UNCHANGED pipelineVars
    PROVE  WalkInv'
<1> DEFINE x == stack[Len(stack)].node
<1>1. /\ phase = "visit" /\ phase' = "visit" /\ stack # <<>> /\ stack[Len(stack)].left = {}
      /\ visited' = visited \ {x} /\ ordering' = Append(ordering, x)
      /\ stack' = SubSeq(stack, 1, Len(stack) - 1) /\ endNodes' = endNodes
      /\ Walking(stack, ordering, endNodes) /\ visited = Nodes(stack)
  BY DEF Return, WalkInv, Depth, Calls
<1>2. Path(stack) /\ InOrder(ordering) /\ Len(stack) \in Nat /\ Len(stack) \in 1 .. Len(stack)
  BY <1>1 DEF Walking, Path
<1>3. x \in Elements /\ x \notin SetOf(ordering)
  <2>1. stack[Len(stack)] \in Frames
    BY <1>2 DEF Path
  <2> QED
    BY <1>1, <1>2, <2>1 DEF Walking, Open, Frames
<1>4. SourcesOf(x) \subseteq SetOf(ordering)
  <2>1. ASSUME NEW c \in Incoming(x) PROVE connections[c].src \in SetOf(ordering)
    <3>1. ~NextCall(stack, Len(stack), connections[c].src)
      BY <1>2 DEF NextCall
    <3> QED
      BY <1>1, <1>2, <2>1, <3>1 DEF Walking, Handled
  <2> QED
    BY <2>1 DEF SourcesOf
<1>5. InOrder(ordering') /\ SetOf(ordering') = SetOf(ordering) \cup {x}
  BY <1>1, <1>2, <1>3, <1>4, OrderGrows
<1>6. /\ Path(stack') /\ Nodes(stack') = Nodes(stack) \ {x} /\ Len(stack') = Len(stack) - 1
      /\ \A i \in 1 .. Len(stack') : stack'[i] = stack[i] /\ i \in 1 .. Len(stack)
  <2>1. Path(stack) /\ stack # <<>> /\ stack' = SubSeq(stack, 1, Len(stack) - 1)
    BY <1>1, <1>2
  <2>2. Path(stack')
    BY <2>1, PathShrinks
  <2>3. Nodes(stack') = Nodes(stack) \ {x}
    BY <2>1, PathShrinks
  <2>4. Len(stack') = Len(stack) - 1
    BY <2>1, PathShrinks
  <2>5. \A i \in 1 .. Len(stack') : stack'[i] = stack[i] /\ i \in 1 .. Len(stack)
    BY <2>1, PathShrinks
  <2> QED
    BY <2>2, <2>3, <2>4, <2>5
<1>7. Open(stack', ordering')
  <2>1. ASSUME NEW i \in 1 .. Len(stack') PROVE stack'[i].node \notin SetOf(ordering')
    <3>1. stack'[i].node \in Nodes(stack')
      BY DEF Nodes
    <3>2. stack'[i].node # x
      BY <1>6, <3>1
    <3>3. stack'[i].node \notin SetOf(ordering)
      BY <1>1, <1>6 DEF Walking, Open
    <3> QED
      BY <1>5, <3>2, <3>3
  <2> QED
    BY <2>1 DEF Open
<1>8. Handled(stack', ordering')
  <2>1. ASSUME NEW i \in 1 .. Len(stack'), NEW c \in Incoming(stack'[i].node)
        PROVE  \/ c \in stack'[i].left \/ connections[c].src \in SetOf(ordering')
               \/ NextCall(stack', i, connections[c].src)
    <3>1. \/ c \in stack[i].left \/ connections[c].src \in SetOf(ordering)
          \/ NextCall(stack, i, connections[c].src)
      BY <1>1, <1>6, <2>1 DEF Walking, Handled
    <3>2. CASE NextCall(stack, i, connections[c].src)
      <4>1. CASE i + 1 = Len(stack)
        BY <1>5, <3>2, <4>1 DEF NextCall
      <4>2. CASE i + 1 # Len(stack)
        <5>1. i < Len(stack') /\ i + 1 \in 1 .. Len(stack')
          BY <1>2, <1>6, <4>2
        <5> QED
          BY <1>6, <3>2, <5>1 DEF NextCall
      <4> QED
        BY <4>1, <4>2
    <3> QED
      BY <1>5, <1>6, <3>1, <3>2
  <2> QED
    BY <2>1 DEF Handled
<1>9. Covered(stack', ordering', endNodes')
  <2>1. ASSUME NEW y, FirstCall(stack, y) PROVE y \in SetOf(ordering') \/ FirstCall(stack', y)
    <3>1. CASE Len(stack) = 1
      BY <1>5, <2>1, <3>1 DEF FirstCall
    <3>2. CASE Len(stack) # 1
      <4>1. 1 \in 1 .. Len(stack') /\ stack' # <<>>
        BY <1>2, <1>6, <3>2
      <4> QED
        BY <1>6, <2>1, <4>1 DEF FirstCall
    <3> QED
      BY <3>1, <3>2
  <2> QED
    BY <1>1, <1>5, <2>1 DEF Walking, Covered
<1>10. Walking(stack', ordering', endNodes')
  BY <1>5, <1>6, <1>7, <1>8, <1>9 DEF Walking
<1>11. Walking(stack, ordering, endNodes)'
  BY <1>10, WalkingKept
<1>12. (visited = Nodes(stack))'
  BY <1>1, <1>6 DEF Nodes
<1> QED
  BY <1>1, <1>11, <1>12 DEF WalkInv, OrderingSound

(* An ordering of all elements leaves no room for a cycle: the first element  *)
(* of one would have its source before it.                                    *)
LEMMA OrderedIsAcyclic ==
    ASSUME NEW o, InOrder(o), SetOf(o) = Elements
    PROVE  ~HasCycle
<1> SUFFICES ASSUME NEW S \in SUBSET Elements, S # {}, \A e \in S : SourcesOf(e) \cap S # {}
             PROVE  FALSE
  BY DEF HasCycle
<1> DEFINE P == {i \in 1 .. Len(o) : o[i] \in S}
<1>1. Len(o) \in Nat
  BY DEF InOrder
<1>2. P \in SUBSET Nat /\ P # {}
  BY <1>1 DEF SetOf
<1>3. PICK i \in P : \A j \in P : i <= j
  BY <1>2, LeastNatural
<1>4. PICK x \in SourcesOf(o[i]) : x \in S
  BY <1>3
<1>5. PICK j \in 1 .. i - 1 : x = o[j]
  BY <1>3, <1>4 DEF InOrder
<1>6. j \in P
  BY <1>1, <1>3, <1>4, <1>5
<1> QED
  BY <1>1, <1>3, <1>5, <1>6

(* All end nodes have been visited. *)
LEMMA AllVisitedStep ==
    ASSUME GraphSound, WalkInv, AllVisited, UNCHANGED pipelineVars
    PROVE  WalkInv'
<1>1. /\ phase = "visit" /\ phase' = "done" /\ ok' = TRUE /\ stack = <<>> /\ endNodes = {}
      /\ ordering' = ordering /\ Walking(stack, ordering, endNodes)
  BY DEF AllVisited, WalkInv
<1>2. InOrder(ordering)
  BY <1>1 DEF Walking
<1>3. \A e \in EndNodes : e \in SetOf(ordering)
  BY <1>1 DEF Walking, Covered, FirstCall
<1>4. ASSUME NEW f \in SetOf(ordering), NEW e \in SourcesOf(f) PROVE e \in SetOf(ordering)
  <2>1. PICK i \in 1 .. Len(ordering) : f = ordering[i]
    BY DEF SetOf
  <2>2. PICK j \in 1 .. i - 1 : e = ordering[j]
    BY <1>2, <2>1 DEF InOrder
  <2>3. j \in 1 .. Len(ordering)
    BY <1>2, <2>1, <2>2 DEF InOrder
  <2> QED
    BY <2>2, <2>3 DEF SetOf
<1>5. SetOf(ordering) = Elements
  <2>1. \A e \in Elements : e \in SetOf(ordering)
    BY <1>3, <1>4, EndNodesReach
  <2>2. \A e \in SetOf(ordering) : e \in Elements
    BY <1>2 DEF InOrder, SetOf
  <2> QED
    BY <2>1, <2>2
<1>6. ~HasCycle
  BY <1>2, <1>5, OrderedIsAcyclic
<1>7. ~HasCycle'
  BY <1>6, CycleKept
<1>8. UNCHANGED <<children, connections>>
  BY DEF pipelineVars
<1>9. DOMAIN ordering = 1 .. Len(ordering)
  BY <1>2 DEF InOrder
<1>10. (Ordered = Elements)'
  BY <1>1, <1>5, <1>8, <1>9 DEF Ordered, SetOf, Elements
<1>11. (\A i, j \in DOMAIN ordering : ordering[i] = ordering[j] => i = j)'
  BY <1>1, <1>2, <1>9 DEF InOrder
<1>12. \A i \in DOMAIN ordering : SourcesOf(ordering[i]) \subseteq {ordering[j] : j \in 1 .. i - 1}
  BY <1>2, <1>9 DEF InOrder
<1>13. (\A i \in DOMAIN ordering : SourcesOf(ordering[i]) \subseteq {ordering[j] : j \in 1 .. i - 1})'
  BY <1>1, <1>8, <1>12 DEF SourcesOf, Incoming, Connections
<1> QED
  BY <1>1, <1>7, <1>10, <1>11, <1>13 DEF WalkInv, OrderingSound

(* start() begins: there is an end node. *)
LEMMA BeginStep ==
    ASSUME GraphSound, WalkInv, GenerateGraphOrdering, UNCHANGED pipelineVars
    PROVE  WalkInv'
<1>1. EndNodes # {}
  BY EndNodesReach DEF GenerateGraphOrdering
<1>2. /\ phase' = "visit" /\ stack' = <<>> /\ visited' = {} /\ ordering' = <<>> /\ endNodes' = EndNodes
  BY <1>1 DEF GenerateGraphOrdering, WalkInv
<1>3. Len(stack') = 0 /\ Len(ordering') = 0 /\ stack' \in Seq(Frames) /\ ordering' \in Seq(Elements)
  BY <1>2
<1>4. \A i \in 1 .. 0 : FALSE
  OBVIOUS
<1>5. InOrder(ordering') /\ Path(stack')
  BY <1>3, <1>4 DEF InOrder, Path
<1>6. Open(stack', ordering') /\ Handled(stack', ordering')
  BY <1>3, <1>4 DEF Open, Handled
<1>7. Walking(stack', ordering', endNodes')
  BY <1>2, <1>5, <1>6 DEF Walking, Covered
<1>8. Walking(stack, ordering, endNodes)'
  BY <1>7, WalkingKept
<1>9. (visited = Nodes(stack))'
  BY <1>2, <1>3, <1>4 DEF Nodes
<1> QED
  BY <1>2, <1>8, <1>9 DEF WalkInv, OrderingSound

LEMMA WalkStep ==
    ASSUME GraphSound, WalkInv, [OrderingNext]_orderingVars
    PROVE  WalkInv'
<1>1. CASE UNCHANGED orderingVars
  <2>1. UNCHANGED pipelineVars /\ UNCHANGED <<phase, endNodes, stack, visited, ordering, ok>>
    BY <1>1 DEF orderingVars, walkVars
  <2>2. phase = "visit" => Walking(stack, ordering, endNodes)' /\ (visited = Nodes(stack))'
    BY <2>1, WalkingKept DEF WalkInv, Nodes
  <2>3. OrderingSound'
    BY <2>1 DEF WalkInv, OrderingSound, pipelineVars, HasCycle, Ordered, Elements, SourcesOf,
                Incoming, Connections
  <2> QED
    BY <2>1, <2>2, <2>3 DEF WalkInv
<1>2. CASE phase = "edit" /\ UNCHANGED walkVars
  BY <1>2 DEF walkVars, WalkInv, OrderingSound
<1>3. CASE Leave
  BY <1>3 DEF Leave, WalkInv, OrderingSound
<1>4. ASSUME Walk PROVE WalkInv'
  BY <1>3, <1>4, BeginStep, EndNodeStep, IncomingStep, ReturnStep, AllVisitedStep DEF Walk
<1> QED
  BY <1>1, <1>2, <1>4 DEF OrderingNext

(* start() refuses exactly the graphs with a cycle, and sorts the others: in  *)
(* every graph that editing and loading make, of every size and with every    *)
(* set of element types, whatever the order in which the QSet of end nodes    *)
(* is visited.                                                                *)
THEOREM OrderingAlwaysSound == OrderingSpec => []OrderingSound
<1>1. OrderingInit => GraphSound /\ WalkInv
  BY InitIsSound DEF OrderingInit, WalkInv, OrderingSound
<1>2. GraphSound /\ [OrderingNext]_orderingVars => GraphSound'
  <2>1. [OrderingNext]_orderingVars => [Next]_pipelineVars
    BY DEF OrderingNext, orderingVars, Walk
  <2> QED
    BY <2>1, StepKeepsSound
<1>3. GraphSound /\ WalkInv /\ [OrderingNext]_orderingVars => WalkInv'
  BY WalkStep
<1>4. WalkInv => OrderingSound
  BY DEF WalkInv
<1> QED
  BY <1>1, <1>2, <1>3, <1>4, PTL DEF OrderingSpec
=============================================================================
