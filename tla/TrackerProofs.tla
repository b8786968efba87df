--------------------------- MODULE TrackerProofs ---------------------------
(***************************************************************************)
(* The assignment that solve() makes and what the tracker does with it, for  *)
(* every number of tracks and blobs, every size of a matrix and every length *)
(* of a run.                                                                 *)
(***************************************************************************)
EXTENDS BlobTracker, FiniteSetTheorems, WellFoundedInduction, TLAPS

(* What solve() keeps true of its masks.  A star that is not covered by its   *)
(* column is covered by its row, which has a prime then.  Following a prime to *)
(* the star of its column, and the star to the prime of its row, leads to     *)
(* earlier primes: no set of primes is closed under this.                     *)
Primed == {z \in Cells : mask[z] = "prime"}
StarsApart == \A y, z \in Starred : Crosses(y, z) => y = z
PrimesApart == \A y, z \in Primed : y[1] = z[1] => y = z
NoLoop == \A P \in SUBSET Primed : P # {} =>
    \E z \in P : \A y \in Starred, x \in P : ~(y[2] = z[2] /\ x[1] = y[1])
Blank == \A i \in Indices : rowMask[i] = FALSE /\ colMask[i] = FALSE
Covered ==
    /\ \A y \in Starred : rowMask[y[1]] = ~colMask[y[2]]
    /\ \A z \in Primed : rowMask[z[1]]
    /\ \A z \in Primed, y \in Starred : y[2] = z[2] => rowMask[y[1]]
MaskType ==
    /\ n \in Nat /\ step \in 0 .. 5
    /\ mask \in [Cells -> {"normal", "star", "prime"}]
    /\ rowMask \in [Indices -> BOOLEAN] /\ colMask \in [Indices -> BOOLEAN]
MaskInv ==
    /\ MaskType
    /\ StarsApart
    /\ PrimesApart
    /\ NoLoop
    /\ step = 1 => \A z \in Cells : mask[z] = "normal"
    /\ step \in {1, 2} => Blank /\ Primed = {}
    /\ step \in {3, 5} => Covered
    /\ step = 4 => save \in Primed /\ \A y \in Starred : y[1] # save[1]

(* What the tracker keeps true of its tracks.                                 *)
Track == [id : Nat, box : Boxes, frame : Nat, dead : BOOLEAN, seen : Nat, died : Int]
TrackType ==
    /\ tracks \in Seq(Track) /\ blobs \in Seq(Boxes)
    /\ idCounter \in Nat /\ serial \in 0 .. MaxFrames /\ iterations \in Nat /\ stops \in Nat
    /\ busy \in BOOLEAN
Ages ==
    /\ Uncounted >= 0
    /\ \A i \in DOMAIN tracks :
        /\ tracks[i].frame < iterations
        /\ tracks[i].seen - tracks[i].frame <= Uncounted + 1
        /\ tracks[i].dead => tracks[i].died >= DieThreshold - Uncounted
TrackInv ==
    /\ TrackType
    /\ Ages
    /\ BlobsTracked
    /\ IF busy THEN MaskInv /\ Len(tracks) <= n /\ Len(blobs) <= n ELSE step = 0

-----------------------------------------------------------------------------
(* Induction, and the least and the greatest of a set of numbers.             *)
LEMMA LeastNat == ASSUME NEW S \in SUBSET Nat, S # {} PROVE \E x \in S : \A y \in S : x <= y
<1>1. PICK x \in S : \A y \in S : ~(<<y, x>> \in OpToRel(<, Nat))
  BY NatLessThanWellFounded, WFMin
<1>2. \A y \in S : ~(y < x)
  BY <1>1 DEF OpToRel
<1> QED
  BY <1>2

LEMMA Induct == ASSUME NEW S \in SUBSET Nat, 0 \in S, \A k \in S : k + 1 \in S PROVE S = Nat
<1>1. SUFFICES ASSUME Nat \ S # {} PROVE FALSE
  OBVIOUS
<1>2. PICK x \in Nat \ S : \A y \in Nat \ S : x <= y
  BY <1>1, LeastNat
<1>3. x - 1 \in S
  BY <1>2
<1>4. (x - 1) + 1 \in S
  BY <1>3
<1> QED
  BY <1>4

LEMMA GreatestNat ==
    ASSUME NEW k \in Nat, NEW S \in SUBSET (0 .. k), S # {}
    PROVE  \E x \in S : \A y \in S : y <= x
<1> DEFINE T == {i \in Nat : k - i \in S}
<1>1. T # {}
  <2>1. PICK x \in S : TRUE
    OBVIOUS
  <2>2. k - x \in Nat /\ k - (k - x) = x
    OBVIOUS
  <2> QED
    BY <2>1, <2>2
<1>2. PICK i \in T : \A j \in T : i <= j
  BY <1>1, LeastNat
<1>3. \A y \in S : k - y \in Nat /\ k - (k - y) = y
  OBVIOUS
<1>4. \A y \in S : y <= k - i
  BY <1>2, <1>3
<1> QED
  BY <1>2, <1>4

(* Before orders the cells row by row.                                        *)
LEMMA FirstCell ==
    ASSUME NEW k \in Nat, NEW Z \in SUBSET ((0 .. k - 1) \X (0 .. k - 1)), Z # {}
    PROVE  \E z \in Z : \A y \in Z : ~Before(y, z)
<1> DEFINE R == {i \in 0 .. k - 1 : \E z \in Z : z[1] = i}
<1>1. PICK i \in R : \A j \in R : i <= j
  <2>1. R # {} /\ R \in SUBSET Nat
    OBVIOUS
  <2> QED
    BY <2>1, LeastNat
<1> DEFINE C == {j \in 0 .. k - 1 : <<i, j>> \in Z}
<1>2. PICK j \in C : \A l \in C : j <= l
  <2>1. C # {} /\ C \in SUBSET Nat
    BY <1>1
  <2> QED
    BY <2>1, LeastNat
<1>3. <<i, j>> \in Z
  BY <1>2
<1>4. ASSUME NEW y \in Z PROVE ~Before(y, <<i, j>>)
  <2>1. y = <<y[1], y[2]>> /\ y[1] \in 0 .. k - 1 /\ y[2] \in 0 .. k - 1
    OBVIOUS
  <2>2. i <= y[1]
    BY <2>1, <1>1
  <2>3. y[1] = i => j <= y[2]
    BY <2>1, <1>2
  <2>4. i \in Int /\ j \in Int
    OBVIOUS
  <2> QED
    BY <2>1, <2>2, <2>3, <2>4 DEF Before
<1> QED
  BY <1>3, <1>4

LEMMA LastCell ==
    ASSUME NEW k \in Nat, NEW Z \in SUBSET ((0 .. k - 1) \X (0 .. k - 1)), Z # {}
    PROVE  \E z \in Z : \A y \in Z : ~Before(z, y)
<1> DEFINE R == {i \in 0 .. k - 1 : \E z \in Z : z[1] = i}
<1>0. k - 1 \in Nat
  OBVIOUS
<1>1. PICK i \in R : \A j \in R : j <= i
  <2>1. R # {} /\ R \in SUBSET (0 .. k - 1)
    OBVIOUS
  <2> QED
    BY <1>0, <2>1, GreatestNat
<1> DEFINE C == {j \in 0 .. k - 1 : <<i, j>> \in Z}
<1>2. PICK j \in C : \A l \in C : l <= j
  <2>1. C # {} /\ C \in SUBSET (0 .. k - 1)
    BY <1>1
  <2> QED
    BY <1>0, <2>1, GreatestNat
<1>3. <<i, j>> \in Z
  BY <1>2
<1>4. ASSUME NEW y \in Z PROVE ~Before(<<i, j>>, y)
  <2>1. y = <<y[1], y[2]>> /\ y[1] \in 0 .. k - 1 /\ y[2] \in 0 .. k - 1
    OBVIOUS
  <2>2. y[1] <= i
    BY <2>1, <1>1
  <2>3. y[1] = i => y[2] <= j
    BY <2>1, <1>2
  <2>4. i \in Int /\ j \in Int
    OBVIOUS
  <2> QED
    BY <2>1, <2>2, <2>3, <2>4 DEF Before
<1> QED
  BY <1>3, <1>4

(* step1(): going through the zeros in order stars a set of them.             *)
Greed(Z, S) == \A z \in Z : z \in S <=> ~\E y \in S : Before(y, z) /\ Crosses(y, z)

LEMMA GreedExists ==
    ASSUME NEW k \in Nat
    PROVE  \A Z \in SUBSET ((0 .. k - 1) \X (0 .. k - 1)) : \E S \in SUBSET Z : Greed(Z, S)
<1> DEFINE U == (0 .. k - 1) \X (0 .. k - 1)
           N == {c \in Nat : \A Z \in SUBSET U : Cardinality(Z) = c => \E S \in SUBSET Z : Greed(Z, S)}
<1>0. IsFiniteSet(U)
  <2>1. 0 \in Int /\ k - 1 \in Int
    OBVIOUS
  <2>2. IsFiniteSet(0 .. k - 1)
    BY <2>1, FS_Interval
  <2> QED
    BY <2>2, FS_Product
<1>f. ASSUME NEW Z \in SUBSET U PROVE IsFiniteSet(Z) /\ Cardinality(Z) \in Nat
  BY <1>0, FS_Subset, FS_CardinalityType
<1>1. 0 \in N
  <2> SUFFICES ASSUME NEW Z \in SUBSET U, Cardinality(Z) = 0 PROVE \E S \in SUBSET Z : Greed(Z, S)
    OBVIOUS
  <2>1. Z = {}
    BY <1>f, FS_EmptySet
  <2>2. Greed(Z, {})
    BY <2>1 DEF Greed
  <2> QED
    BY <2>2
<1>2. ASSUME NEW c \in N PROVE c + 1 \in N
  <2> SUFFICES ASSUME NEW Z \in SUBSET U, Cardinality(Z) = c + 1 PROVE \E S \in SUBSET Z : Greed(Z, S)
    OBVIOUS
  <2>1. Z # {}
    BY FS_EmptySet
  <2>2. PICK z \in Z : \A y \in Z : ~Before(z, y)
    BY <2>1, LastCell
  <2>3. Cardinality(Z \ {z}) = c
    BY <1>f, FS_RemoveElement
  <2>4. PICK S \in SUBSET (Z \ {z}) : Greed(Z \ {z}, S)
    BY <2>3
  <2>5. ~Before(z, z)
    BY <2>2
  <2>6. CASE \E y \in S : Before(y, z) /\ Crosses(y, z)
    <3>1. Greed(Z, S)
      BY <2>4, <2>6 DEF Greed
    <3> QED
      BY <3>1
  <2>7. CASE ~\E y \in S : Before(y, z) /\ Crosses(y, z)
    <3> DEFINE T == S \cup {z}
    <3>1. ASSUME NEW x \in Z PROVE x \in T <=> ~\E y \in T : Before(y, x) /\ Crosses(y, x)
      <4>1. CASE x = z
        BY <4>1, <2>5, <2>7
      <4>2. CASE x # z
        BY <4>2, <2>2, <2>4 DEF Greed
      <4> QED
        BY <4>1, <4>2
    <3>2. Greed(Z, T)
      BY <3>1 DEF Greed
    <3> QED
      BY <3>2
  <2> QED
    BY <2>6, <2>7
<1>3. N = Nat
  <2>1. N \in SUBSET Nat
    OBVIOUS
  <2> HIDE DEF N
  <2> QED
    BY <1>1, <1>2, <2>1, Induct
<1> QED
  BY <1>3, <1>f

-----------------------------------------------------------------------------
(* step4(): paths.  A[z] is what comes after z; it has one element at most.   *)
(* Reach(M, A, z) is the smallest set with z that is closed under A.          *)
Shut(M, A, S) == S \in SUBSET M /\ \A z \in S : A[z] \subseteq S
Reach(M, A, z) == {x \in M : \A S \in SUBSET M : z \in S /\ Shut(M, A, S) => x \in S}
Steps(M, A) == A \in [M -> SUBSET M] /\ \A z \in M : \A x, y \in A[z] : x = y

LEMMA ReachShut ==
    ASSUME NEW M, NEW A, Steps(M, A), NEW z \in M
    PROVE  /\ z \in Reach(M, A, z)
           /\ Shut(M, A, Reach(M, A, z))
<1>1. z \in Reach(M, A, z)
  BY DEF Reach
<1>2. ASSUME NEW x \in Reach(M, A, z), NEW y \in A[x] PROVE y \in Reach(M, A, z)
  <2>1. y \in M /\ x \in M
    BY DEF Steps, Reach
  <2>2. ASSUME NEW S \in SUBSET M, z \in S, Shut(M, A, S) PROVE y \in S
    <3>1. x \in S
      BY <2>2 DEF Reach
    <3> QED
      BY <3>1, <2>2 DEF Shut
  <2> QED
    BY <2>1, <2>2 DEF Reach
<1>3. Reach(M, A, z) \in SUBSET M
  BY DEF Reach
<1> QED
  BY <1>1, <1>2, <1>3 DEF Shut

LEMMA ReachLeast ==
    ASSUME NEW M, NEW A, NEW z \in M, NEW S \in SUBSET M, z \in S, Shut(M, A, S)
    PROVE  Reach(M, A, z) \subseteq S
BY DEF Reach

LEMMA ReachMore ==
    ASSUME NEW M, NEW A, Steps(M, A), NEW z \in M, NEW x \in Reach(M, A, z)
    PROVE  Reach(M, A, x) \subseteq Reach(M, A, z)
<1>1. x \in M /\ Reach(M, A, z) \in SUBSET M
  BY DEF Reach
<1> QED
  BY <1>1, ReachShut, ReachLeast

(* What is reached was reached from something, or is the start.               *)
LEMMA ReachFrom ==
    ASSUME NEW M, NEW A, Steps(M, A), NEW z \in M, NEW x \in Reach(M, A, z)
    PROVE  x = z \/ \E w \in Reach(M, A, z) : x \in A[w]
<1> SUFFICES ASSUME x # z, \A w \in Reach(M, A, z) : x \notin A[w] PROVE FALSE
  OBVIOUS
<1> DEFINE S == Reach(M, A, z) \ {x}
<1>1. Shut(M, A, Reach(M, A, z)) /\ z \in Reach(M, A, z)
  BY ReachShut
<1>2. z \in S /\ S \in SUBSET M
  BY <1>1 DEF Shut
<1>3. Shut(M, A, S)
  BY <1>1, <1>2 DEF Shut
<1>4. Reach(M, A, z) \subseteq S
  BY <1>2, <1>3, ReachLeast
<1> QED
  BY <1>4

(* What is reached is the start or reached from what comes after it.          *)
LEMMA ReachAfter ==
    ASSUME NEW M, NEW A, Steps(M, A), NEW z \in M, NEW x \in Reach(M, A, z)
    PROVE  x = z \/ \E w \in A[z] : x \in Reach(M, A, w)
<1> DEFINE S == {z} \cup {y \in M : \E w \in A[z] : y \in Reach(M, A, w)}
<1>0. S \in SUBSET M /\ z \in S
  OBVIOUS
<1>1. ASSUME NEW w \in A[z] PROVE w \in M /\ w \in Reach(M, A, w) /\ Shut(M, A, Reach(M, A, w))
  <2>1. w \in M
    BY DEF Steps
  <2> QED
    BY <2>1, ReachShut
<1>2. ASSUME NEW u \in S, NEW v \in A[u] PROVE v \in S
  <2>1. CASE u = z
    BY <2>1, <1>1
  <2>2. CASE u # z
    <3>1. PICK w \in A[z] : u \in Reach(M, A, w)
      BY <2>2
    <3>2. v \in Reach(M, A, w)
      BY <3>1, <1>1 DEF Shut
    <3>3. v \in M
      BY <3>2 DEF Reach
    <3> QED
      BY <3>1, <3>2, <3>3
  <2> QED
    BY <2>1, <2>2
<1>3. Shut(M, A, S)
  <2> HIDE DEF S
  <2> QED
    BY <1>0, <1>2 DEF Shut
<1>4. x \in S
  <2> HIDE DEF S
  <2> QED
    BY <1>0, <1>3, ReachLeast
<1> QED
  BY <1>4

(* Of two things reached one is reached from the other.                       *)
LEMMA ReachLinear ==
    ASSUME NEW M, NEW A, Steps(M, A), NEW z \in M
    PROVE  \A u, v \in Reach(M, A, z) : u \in Reach(M, A, v) \/ v \in Reach(M, A, u)
<1> DEFINE R == Reach(M, A, z)
           S == {u \in R : \A v \in R : u \in Reach(M, A, v) \/ v \in Reach(M, A, u)}
<1>0. Shut(M, A, R) /\ z \in R /\ R \in SUBSET M
  BY ReachShut DEF Shut
<1>1. z \in S
  BY <1>0
<1>2. ASSUME NEW u \in S, NEW w \in A[u] PROVE w \in S
  <2>1. w \in R /\ u \in R /\ u \in M /\ w \in M
    BY <1>0 DEF Shut
  <2>2. ASSUME NEW v \in R PROVE w \in Reach(M, A, v) \/ v \in Reach(M, A, w)
    <3>0. v \in M
      BY <1>0
    <3>1. CASE u \in Reach(M, A, v)
      <4>1. Shut(M, A, Reach(M, A, v))
        BY <3>0, ReachShut
      <4> QED
        BY <3>1, <4>1 DEF Shut
    <3>2. CASE v \in Reach(M, A, u)
      <4>1. v = u \/ \E x \in A[u] : v \in Reach(M, A, x)
        BY <2>1, <3>2, ReachAfter
      <4>2. CASE v = u
        <5>1. Shut(M, A, Reach(M, A, u)) /\ u \in Reach(M, A, u)
          BY <2>1, ReachShut
        <5> QED
          BY <4>2, <5>1 DEF Shut
      <4>3. CASE \E x \in A[u] : v \in Reach(M, A, x)
        BY <2>1, <4>3 DEF Steps
      <4> QED
        BY <4>1, <4>2, <4>3
    <3> QED
      BY <2>1, <3>1, <3>2
  <2> QED
    BY <2>1, <2>2
<1>3. S \in SUBSET M
  BY <1>0
<1>4. Shut(M, A, S)
  <2> HIDE DEF S
  <2> QED
    BY <1>2, <1>3 DEF Shut
<1>5. R \subseteq S
  <2> HIDE DEF S
  <2> QED
    BY <1>1, <1>3, <1>4, ReachLeast
<1> QED
  BY <1>5

(* A path that comes back to where it was goes on for ever.                   *)
LEMMA ReachLoop ==
    ASSUME NEW M, NEW A, Steps(M, A), NEW z \in M, NEW y \in A[z], z \in Reach(M, A, y)
    PROVE  \A w \in Reach(M, A, y) : A[w] \cap Reach(M, A, y) # {}
<1>0. y \in M
  BY DEF Steps
<1> DEFINE R == Reach(M, A, y)
           S == {w \in R : z \in Reach(M, A, w)}
<1>1. Shut(M, A, R) /\ y \in R /\ R \in SUBSET M
  BY <1>0, ReachShut DEF Shut
<1>2. ASSUME NEW w \in S PROVE w = z \/ \E x \in A[w] : z \in Reach(M, A, x)
  <2>1. w \in M
    BY <1>1
  <2> QED
    BY <2>1, ReachAfter
<1>3. ASSUME NEW w \in S, NEW x \in A[w] PROVE x \in S
  <2>1. x \in R /\ w \in M
    BY <1>1 DEF Shut
  <2>2. CASE w = z
    <3>1. x = y
      BY <2>2 DEF Steps
    <3> QED
      BY <2>1, <3>1
  <2>3. CASE \E v \in A[w] : z \in Reach(M, A, v)
    BY <2>1, <2>3 DEF Steps
  <2> QED
    BY <1>2, <2>2, <2>3
<1>4. S \in SUBSET M /\ y \in S
  BY <1>1
<1>5. Shut(M, A, S)
  <2> HIDE DEF S
  <2> QED
    BY <1>3, <1>4 DEF Shut
<1>6. R \subseteq S
  <2> HIDE DEF S
  <2> QED
    BY <1>0, <1>4, <1>5, ReachLeast
<1>7. ASSUME NEW w \in R PROVE A[w] \cap R # {}
  <2>1. w \in S
    BY <1>6
  <2>2. \E x \in A[w] : TRUE
    BY <1>2, <2>1
  <2>3. A[w] \subseteq R
    BY <1>1 DEF Shut
  <2> QED
    BY <2>2, <2>3
<1> QED
  BY <1>7

(* So a path passes only one of two things that have the same after them.      *)
LEMMA ReachOnce ==
    ASSUME NEW M, NEW A, Steps(M, A), NEW s \in M,
           NEW u \in Reach(M, A, s), NEW v \in Reach(M, A, s), u # v, A[u] = A[v]
    PROVE  \E L \in SUBSET M : (u \in L \/ v \in L) /\ \A w \in L : A[w] \cap L # {}
<1>0. u \in M /\ v \in M
  BY DEF Reach
<1>1. ASSUME NEW a \in M, NEW b \in M, a # b, A[a] = A[b], b \in Reach(M, A, a)
      PROVE  \E L \in SUBSET M : b \in L /\ \A w \in L : A[w] \cap L # {}
  <2>1. PICK y \in A[a] : b \in Reach(M, A, y)
    BY <1>1, ReachAfter
  <2>2. y \in A[b]
    BY <1>1
  <2>3. \A w \in Reach(M, A, y) : A[w] \cap Reach(M, A, y) # {}
    BY <2>1, <2>2, ReachLoop
  <2>4. Reach(M, A, y) \in SUBSET M
    BY DEF Reach
  <2> QED
    BY <2>1, <2>3, <2>4
<1>2. u \in Reach(M, A, v) \/ v \in Reach(M, A, u)
  BY ReachLinear
<1>3. CASE v \in Reach(M, A, u)
  <2>1. \E L \in SUBSET M : v \in L /\ \A w \in L : A[w] \cap L # {}
    BY <1>0, <1>1, <1>3
  <2> QED
    BY <2>1
<1>4. CASE u \in Reach(M, A, v)
  <2>1. \E L \in SUBSET M : u \in L /\ \A w \in L : A[w] \cap L # {}
    BY <1>0, <1>1, <1>4
  <2> QED
    BY <2>1
<1> QED
  BY <1>2, <1>3, <1>4

-----------------------------------------------------------------------------
(* The steps of solve().                                                      *)
LEMMA CellParts == \A z \in Cells : z = <<z[1], z[2]>> /\ z[1] \in Indices /\ z[2] \in Indices
BY DEF Cells

LEMMA GreedyApart ==
    ASSUME n \in Nat
    PROVE  /\ Greedy \in SUBSET Cells /\ \A z \in Greedy : matrix[z] = 0
           /\ \A y, z \in Greedy : Crosses(y, z) => y = z
<1> DEFINE Z == {z \in Cells : matrix[z] = 0}
<1>1. \E S \in SUBSET Z : Greed(Z, S)
  <2>1. Z \in SUBSET ((0 .. n - 1) \X (0 .. n - 1))
    BY DEF Cells, Indices
  <2> HIDE DEF Z
  <2> QED
    BY <2>1, GreedExists
<1>2. Greedy = CHOOSE S \in SUBSET Z : Greed(Z, S)
  BY DEF Greedy, Greed
<1>3. Greedy \in SUBSET Z /\ Greed(Z, Greedy)
  <2> HIDE DEF Z
  <2> QED
    BY <1>1, <1>2
<1>4. ASSUME NEW y \in Greedy, NEW z \in Greedy, Crosses(y, z), y # z PROVE FALSE
  <2>1. y \in Cells /\ z \in Cells /\ y \in Z /\ z \in Z
    BY <1>3
  <2>2. ~Before(y, z) /\ ~Before(z, y)
    <3>1. Crosses(z, y)
      BY <1>4 DEF Crosses
    <3> HIDE DEF Z
    <3> QED
      BY <1>3, <1>4, <2>1, <3>1 DEF Greed
  <2>3. y[1] \in Int /\ y[2] \in Int /\ z[1] \in Int /\ z[2] \in Int
    BY <2>1, CellParts DEF Indices
  <2>4. y[1] = z[1] /\ y[2] = z[2]
    BY <2>2, <2>3 DEF Before
  <2> QED
    BY <1>4, <2>1, <2>4, CellParts
<1> QED
  BY <1>3, <1>4

LEMMA KeepStep1 == ASSUME MaskInv, Step1 PROVE MaskInv'
<1>0. n \in Nat /\ n' = n /\ Cells' = Cells /\ Indices' = Indices /\ step = 1 /\ step' = 2
  BY DEF MaskInv, MaskType, Step1, Cells, Indices
<1>1. \A z \in Cells : mask'[z] = IF z \in Greedy THEN "star" ELSE "normal"
  BY <1>0 DEF MaskInv, Step1
<1>2. Greedy \in SUBSET Cells /\ \A y, z \in Greedy : Crosses(y, z) => y = z
  BY <1>0, GreedyApart
<1>3. Starred' = Greedy /\ Primed' = {}
  BY <1>0, <1>1, <1>2 DEF Starred, Primed
<1>4. StarsApart'
  BY <1>2, <1>3 DEF StarsApart, Crosses
<1>5. PrimesApart' /\ NoLoop'
  BY <1>3 DEF PrimesApart, NoLoop
<1>6. Blank'
  BY <1>0 DEF MaskInv, Blank, Step1
<1>7. MaskType'
  BY <1>0, <1>1 DEF MaskInv, MaskType, Step1
<1> QED
  BY <1>0, <1>3, <1>4, <1>5, <1>6, <1>7 DEF MaskInv

LEMMA KeepStep2 == ASSUME MaskInv, Step2 PROVE MaskInv'
<1>0. n \in Nat /\ n' = n /\ Cells' = Cells /\ Indices' = Indices /\ step = 2 /\ step' \in {0, 3}
  BY DEF MaskInv, MaskType, Step2, Cells, Indices
<1>1. Starred' = Starred /\ Primed' = Primed /\ mask' = mask /\ rowMask' = rowMask
  BY <1>0 DEF Starred, Primed, Step2
<1>2. StarsApart' /\ PrimesApart' /\ NoLoop'
  BY <1>1 DEF MaskInv, StarsApart, PrimesApart, NoLoop, Crosses
<1>3. Primed = {} /\ Blank
  BY <1>0 DEF MaskInv
<1>4. \A y \in Starred : y[1] \in Indices /\ y[2] \in Indices
  BY CellParts DEF Starred
<1>5. \A y \in Starred : colMask'[y[2]] = TRUE
  BY <1>4 DEF Step2
<1>6. \A y \in Starred : rowMask'[y[1]] = FALSE
  BY <1>1, <1>3, <1>4 DEF Blank
<1>7. Covered'
  BY <1>1, <1>3, <1>5, <1>6 DEF Covered
<1>8. MaskType'
  <2>1. colMask' \in [Indices -> BOOLEAN]
    BY DEF Step2
  <2> QED
    BY <1>0, <1>1, <2>1 DEF MaskInv, MaskType
<1> QED
  BY <1>0, <1>2, <1>7, <1>8 DEF MaskInv

LEMMA KeepStep5 == ASSUME MaskInv, Step3None \/ Step5 PROVE MaskInv'
<1>0. /\ n' = n /\ Cells' = Cells /\ Indices' = Indices /\ step \in {3, 5} /\ step' \in {3, 5}
      /\ mask' = mask /\ rowMask' = rowMask /\ colMask' = colMask
  BY DEF Step3None, Step5, Cells, Indices
<1>1. Starred' = Starred /\ Primed' = Primed
  BY <1>0 DEF Starred, Primed
<1>2. StarsApart' /\ PrimesApart' /\ NoLoop'
  BY <1>1 DEF MaskInv, StarsApart, PrimesApart, NoLoop, Crosses
<1>3. Covered'
  BY <1>0, <1>1 DEF MaskInv, Covered
<1>4. MaskType'
  BY <1>0 DEF MaskInv, MaskType
<1> QED
  BY <1>0, <1>2, <1>3, <1>4 DEF MaskInv

(* A zero that is primed is not covered; no prime leads to it.                *)
LEMMA NewPrime ==
    ASSUME MaskInv, Covered, NEW z \in Uncovered,
           n' = n, mask' = [mask EXCEPT ![z] = "prime"]
    PROVE  /\ Starred' = Starred /\ Primed' = Primed \cup {z}
           /\ \A y \in Starred : y[2] = z[2] => rowMask[y[1]]
           /\ StarsApart' /\ PrimesApart' /\ NoLoop'
<1>0. Cells' = Cells /\ mask \in [Cells -> {"normal", "star", "prime"}]
  BY DEF MaskInv, MaskType, Cells, Indices
<1>1. z \in Cells /\ ~rowMask[z[1]] /\ ~colMask[z[2]]
  BY DEF Uncovered
<1>2. z \notin Starred /\ z \notin Primed
  BY <1>1 DEF Covered
<1>3. \A x \in Cells : mask'[x] = IF x = z THEN "prime" ELSE mask[x]
  BY <1>0, <1>1
<1>4. Starred' = Starred /\ Primed' = Primed \cup {z}
  BY <1>0, <1>1, <1>2, <1>3 DEF Starred, Primed
<1>5. \A y \in Starred : y[2] = z[2] => rowMask[y[1]]
  BY <1>1 DEF Covered
<1>6. StarsApart'
  BY <1>4 DEF MaskInv, StarsApart, Crosses
<1>7. \A x \in Primed : x[1] # z[1]
  BY <1>1 DEF Covered
<1>8. PrimesApart'
  BY <1>4, <1>7 DEF MaskInv, PrimesApart
<1>9. NoLoop'
  <2> SUFFICES ASSUME NEW P \in SUBSET (Primed \cup {z}), P # {}
               PROVE  \E w \in P : \A y \in Starred, x \in P : ~(y[2] = w[2] /\ x[1] = y[1])
    BY <1>4 DEF NoLoop
  <2>1. CASE P \ {z} = {}
    <3>1. P = {z}
      BY <2>1
    <3>2. \A y \in Starred : ~(y[2] = z[2] /\ z[1] = y[1])
      BY <1>1, <1>5
    <3> QED
      BY <3>1, <3>2
  <2>2. CASE P \ {z} # {}
    <3>1. P \ {z} \in SUBSET Primed
      OBVIOUS
    <3>2. PICK w \in P \ {z} : \A y \in Starred, x \in P \ {z} : ~(y[2] = w[2] /\ x[1] = y[1])
      BY <2>2, <3>1 DEF MaskInv, NoLoop
    <3>3. w \in Primed
      BY <3>1
    <3>4. \A y \in Starred : ~(y[2] = w[2] /\ z[1] = y[1])
      BY <1>1, <3>3 DEF Covered
    <3>5. \A y \in Starred, x \in P : ~(y[2] = w[2] /\ x[1] = y[1])
      BY <3>2, <3>4
    <3> QED
      BY <3>5
  <2> QED
    BY <2>1, <2>2
<1> QED
  BY <1>4, <1>5, <1>6, <1>8, <1>9

LEMMA KeepStep3 == ASSUME MaskInv, Step3Prime PROVE MaskInv'
<1> DEFINE z == CHOOSE y \in Zeros : \A x \in Zeros : ~Before(x, y)
           stars == {y \in Starred : y[1] = z[1] /\ y # z}
<1>0. n \in Nat /\ n' = n /\ Cells' = Cells /\ Indices' = Indices /\ step = 3 /\ Zeros # {} /\ Covered
  BY DEF MaskInv, MaskType, Step3Prime, Cells, Indices
<1>1. z \in Uncovered
  <2>1. Zeros \in SUBSET ((0 .. n - 1) \X (0 .. n - 1)) /\ Zeros \subseteq Uncovered
    BY DEF Zeros, Uncovered, Cells, Indices
  <2>2. \E y \in Zeros : \A x \in Zeros : ~Before(x, y)
    BY <1>0, <2>1, FirstCell
  <2>3. z \in Zeros
    BY <2>2
  <2> QED
    BY <2>1, <2>3
<1>2. /\ save' = z
      /\ mask' = [mask EXCEPT ![z] = "prime"]
      /\ IF stars # {}
         THEN /\ rowMask' = [rowMask EXCEPT ![z[1]] = TRUE]
              /\ colMask' = [c \in Indices |-> colMask[c] /\ \A y \in stars : y[2] # c]
              /\ step' = 3
         ELSE step' = 4 /\ rowMask' = rowMask /\ colMask' = colMask
  BY DEF Step3Prime, CoverRow
<1>3. PICK w \in Uncovered : w = z
  BY <1>1
<1>4. stars = {y \in Starred : y[1] = w[1] /\ y # w}
  BY <1>3
<1>5. /\ save' = w
      /\ mask' = [mask EXCEPT ![w] = "prime"]
      /\ IF stars # {}
         THEN /\ rowMask' = [rowMask EXCEPT ![w[1]] = TRUE]
              /\ colMask' = [c \in Indices |-> colMask[c] /\ \A y \in stars : y[2] # c]
              /\ step' = 3
         ELSE step' = 4 /\ rowMask' = rowMask /\ colMask' = colMask
  BY <1>2, <1>3
<1> HIDE DEF z, stars
<1>6. /\ Starred' = Starred /\ Primed' = Primed \cup {w}
      /\ \A y \in Starred : y[2] = w[2] => rowMask[y[1]]
      /\ StarsApart' /\ PrimesApart' /\ NoLoop'
  BY <1>0, <1>5, NewPrime
<1>7. /\ w \in Cells /\ w[1] \in Indices /\ w[2] \in Indices /\ ~rowMask[w[1]]
      /\ w \notin Starred
      /\ rowMask \in [Indices -> BOOLEAN] /\ colMask \in [Indices -> BOOLEAN]
      /\ mask \in [Cells -> {"normal", "star", "prime"}]
  BY <1>0, CellParts DEF Uncovered, Covered, MaskInv, MaskType
<1>m. mask' \in [Cells -> {"normal", "star", "prime"}]
  BY <1>5, <1>7
<1>8. CASE stars = {}
  <2>1. step' = 4 /\ rowMask' = rowMask /\ colMask' = colMask
    BY <1>5, <1>8
  <2>2. \A y \in Starred : y[1] # w[1]
    BY <1>4, <1>7, <1>8
  <2>3. MaskType'
    BY <1>0, <1>7, <1>m, <2>1 DEF MaskType
  <2>4. save' \in Primed'
    BY <1>5, <1>6
  <2>5. \A y \in Starred' : y[1] # save'[1]
    BY <1>5, <1>6, <2>2
  <2> QED
    BY <1>6, <2>1, <2>3, <2>4, <2>5 DEF MaskInv
<1>9. CASE stars # {}
  <2>1. /\ rowMask' = [rowMask EXCEPT ![w[1]] = TRUE]
        /\ colMask' = [c \in Indices |-> colMask[c] /\ \A y \in stars : y[2] # c]
        /\ step' = 3
    BY <1>5, <1>9
  <2>2. PICK s \in Starred : s[1] = w[1] /\ stars = {s}
    <3>1. \A x, y \in stars : x = y
      BY <1>4 DEF MaskInv, StarsApart, Crosses
    <3> QED
      BY <1>4, <1>9, <3>1
  <2>3. \A i \in Indices : rowMask'[i] = (i = w[1] \/ rowMask[i])
    BY <1>7, <2>1
  <2>4. \A c \in Indices : colMask'[c] = (colMask[c] /\ c # s[2])
    BY <2>1, <2>2
  <2>5. \A y \in Starred : y[1] \in Indices /\ y[2] \in Indices
    BY CellParts DEF Starred
  <2>6. MaskType'
    <3>1. rowMask' \in [Indices -> BOOLEAN]
      BY <1>7, <2>1
    <3>2. colMask' \in [Indices -> BOOLEAN]
      BY <2>1
    <3> QED
      BY <1>0, <1>m, <2>1, <3>1, <3>2 DEF MaskType
  <2>7. ASSUME NEW y \in Starred PROVE rowMask'[y[1]] = ~colMask'[y[2]]
    <3>1. CASE y = s
      BY <2>2, <2>3, <2>4, <2>5, <3>1
    <3>2. CASE y # s
      <4>1. y[1] # w[1] /\ y[2] # s[2]
        BY <2>2, <3>2 DEF MaskInv, StarsApart, Crosses
      <4>2. rowMask'[y[1]] = rowMask[y[1]] /\ colMask'[y[2]] = colMask[y[2]]
        BY <1>7, <2>3, <2>4, <2>5, <4>1
      <4> QED
        BY <1>0, <4>2 DEF Covered
    <3> QED
      BY <3>1, <3>2
  <2>8. \A x \in Primed : x[1] \in Indices
    BY CellParts DEF Primed
  <2>9. \A x \in Primed \cup {w} : rowMask'[x[1]]
    BY <1>0, <1>7, <2>3, <2>8 DEF Covered
  <2>10. \A x \in Primed \cup {w}, y \in Starred : y[2] = x[2] => rowMask'[y[1]]
    BY <1>0, <1>6, <2>3, <2>5, ZenonT(30) DEF Covered
  <2>11. Covered'
    BY <1>6, <2>7, <2>9, <2>10 DEF Covered
  <2> QED
    BY <1>6, <2>1, <2>6, <2>11 DEF MaskInv
<1> QED
  BY <1>8, <1>9

(* step4(): the path from the saved prime.                                    *)
LEMMA PathReaches ==
    ASSUME MaskInv, step = 4
    PROVE  \E M, A : /\ Steps(M, A) /\ M = Primed \cup Starred /\ save \in M
                    /\ \A x \in M : A[x] = Along(x)
                    /\ Path = Reach(M, A, save)
<1> DEFINE M == {x \in Cells : mask[x] # "normal"}
           A == [x \in M |-> Along(x)]
           closed == {S \in SUBSET M : save \in S /\ \A x \in S : Along(x) \subseteq S}
<1>0. mask \in [Cells -> {"normal", "star", "prime"}]
  BY DEF MaskInv, MaskType
<1>1. M = Primed \cup Starred
  BY <1>0 DEF Primed, Starred
<1>2. save \in M
  BY <1>1 DEF MaskInv
<1>3. ASSUME NEW x \in M PROVE Along(x) \in SUBSET M /\ \A y, w \in Along(x) : y = w
  <2>1. CASE mask[x] = "prime"
    BY <2>1 DEF Along, Starred, MaskInv, StarsApart, Crosses
  <2>2. CASE mask[x] # "prime"
    <3>1. Along(x) = {y \in Primed : y[1] = x[1]}
      BY <2>2 DEF Along, Primed
    <3> QED
      BY <1>1, <3>1 DEF MaskInv, PrimesApart
  <2> QED
    BY <2>1, <2>2
<1>4. Steps(M, A)
  <2>1. A \in [M -> SUBSET M]
    BY <1>3
  <2> QED
    BY <1>3, <2>1 DEF Steps
<1>5. Path = CHOOSE S \in closed : \A T \in closed : S \subseteq T
  BY DEF Path
<1>6. \A S \in SUBSET M : S \in closed <=> save \in S /\ Shut(M, A, S)
  BY DEF Shut
<1>a. \A x \in M : A[x] = Along(x)
  OBVIOUS
<1>b. closed \subseteq SUBSET M
  OBVIOUS
<1> HIDE DEF M, A, closed
<1>7. Reach(M, A, save) \in closed /\ \A T \in closed : Reach(M, A, save) \subseteq T
  <2>1. save \in Reach(M, A, save) /\ Shut(M, A, Reach(M, A, save))
    BY <1>2, <1>4, ReachShut
  <2>2. Reach(M, A, save) \in SUBSET M
    BY <2>1 DEF Shut
  <2>3. ASSUME NEW T \in closed PROVE Reach(M, A, save) \subseteq T
    BY <1>2, <1>6, <1>b, ReachLeast
  <2> QED
    BY <1>6, <2>1, <2>2, <2>3
<1>8. Path \in closed /\ \A T \in closed : Path \subseteq T
  BY <1>5, <1>7
<1>9. Path = Reach(M, A, save)
  BY <1>7, <1>8
<1> QED
  BY <1>1, <1>2, <1>4, <1>9, <1>a

(* The primes of the path and the stars beside it do not cross.               *)
LEMMA FlippedApart ==
    ASSUME MaskInv, step = 4
    PROVE  Flipped(Path) \in SUBSET Cells /\ \A y, z \in Flipped(Path) : Crosses(y, z) => y = z
<1>1. PICK M, A : /\ Steps(M, A) /\ M = Primed \cup Starred /\ save \in M
                  /\ \A x \in M : A[x] = Along(x)
                  /\ Path = Reach(M, A, save)
  BY PathReaches
<1>2. Path \in SUBSET M /\ Shut(M, A, Path)
  BY <1>1, ReachShut DEF Shut
<1>3. \A x \in Primed : A[x] = {y \in Starred : y[2] = x[2]}
  BY <1>1 DEF Along, Primed
<1>4. \A x \in Starred : A[x] = {y \in Primed : y[1] = x[1]}
  BY <1>1, ZenonT(30) DEF Along, Primed, Starred
<1>5. Flipped(Path) = (Primed \cap Path) \cup (Starred \ Path)
  BY <1>1, <1>2 DEF Flipped, Primed, Starred
<1>6. Primed \in SUBSET Cells /\ Starred \in SUBSET Cells /\ Primed \cap Starred = {}
  BY DEF Primed, Starred
<1>7. ASSUME NEW x \in Primed \cap Path, NEW y \in Primed \cap Path, Crosses(x, y), x # y PROVE FALSE
  <2>1. x[2] = y[2]
    <3>1. x[1] # y[1]
      BY <1>7 DEF MaskInv, PrimesApart
    <3> QED
      BY <1>7, <3>1 DEF Crosses
  <2>2. A[x] = A[y]
    BY <1>3, <2>1
  <2>3. PICK L \in SUBSET M : (x \in L \/ y \in L) /\ \A w \in L : A[w] \cap L # {}
    BY <1>1, <1>7, <2>2, ReachOnce
  <2>4. L \cap Primed # {}
    BY <2>3, <1>7
  <2>5. PICK z \in L \cap Primed : \A u \in Starred, w \in L \cap Primed : ~(u[2] = z[2] /\ w[1] = u[1])
    BY <2>4 DEF MaskInv, NoLoop
  <2>6. PICK u \in Starred \cap L : u[2] = z[2]
    <3>1. PICK u \in A[z] \cap L : TRUE
      BY <2>3
    <3> QED
      BY <1>3, <3>1
  <2>7. PICK w \in Primed \cap L : w[1] = u[1]
    <3>1. PICK w \in A[u] \cap L : TRUE
      BY <2>3
    <3> QED
      BY <1>4, <3>1
  <2> QED
    BY <2>5, <2>6, <2>7
<1>8. ASSUME NEW x \in Primed \cap Path, NEW y \in Starred \ Path, Crosses(x, y) PROVE FALSE
  <2>1. x[2] # y[2]
    <3>1. x[2] = y[2] => y \in A[x]
      BY <1>3
    <3> QED
      BY <3>1, <1>2 DEF Shut
  <2>2. x[1] = y[1]
    BY <1>8, <2>1 DEF Crosses
  <2>3. x # save
    BY <2>2 DEF MaskInv
  <2>4. PICK w \in Path : x \in A[w]
    BY <1>1, <2>3, ReachFrom
  <2>5. w \in Starred /\ w[1] = x[1]
    <3>1. w \in Primed \cup Starred
      BY <1>1, <1>2
    <3>2. w \notin Primed
      BY <1>3, <1>6, <2>4
    <3>3. w \in Starred
      BY <3>1, <3>2
    <3>4. x \in {u \in Primed : u[1] = w[1]}
      BY <1>4, <2>4, <3>3
    <3> QED
      BY <3>3, <3>4
  <2>6. w = y
    BY <2>2, <2>5 DEF MaskInv, StarsApart, Crosses
  <2> QED
    BY <2>6
<1>9. ASSUME NEW x \in Starred \ Path, NEW y \in Starred \ Path, Crosses(x, y) PROVE x = y
  BY <1>9 DEF MaskInv, StarsApart
<1>10. \A x, y : Crosses(x, y) => Crosses(y, x)
  BY DEF Crosses
<1>11. ASSUME NEW y \in Flipped(Path), NEW z \in Flipped(Path), Crosses(y, z) PROVE y = z
  <2>1. CASE y \in Primed \cap Path /\ z \in Primed \cap Path
    BY <1>7, <1>11, <2>1
  <2>2. CASE y \in Primed \cap Path /\ z \in Starred \ Path
    BY <1>8, <1>11, <2>2
  <2>3. CASE y \in Starred \ Path /\ z \in Primed \cap Path
    BY <1>8, <1>10, <1>11, <2>3
  <2>4. CASE y \in Starred \ Path /\ z \in Starred \ Path
    BY <1>9, <1>11, <2>4
  <2> QED
    BY <1>5, <2>1, <2>2, <2>3, <2>4
<1> QED
  BY <1>5, <1>6, <1>11

LEMMA KeepStep4 == ASSUME MaskInv, Step4 PROVE MaskInv'
<1>0. n \in Nat /\ n' = n /\ Cells' = Cells /\ Indices' = Indices /\ step = 4 /\ step' = 2
  BY DEF MaskInv, MaskType, Step4, Cells, Indices
<1>1. mask' = [z \in Cells |-> IF z \in Flipped(Path) THEN "star" ELSE "normal"]
  BY DEF Step4
<1>2. Flipped(Path) \in SUBSET Cells /\ \A y, z \in Flipped(Path) : Crosses(y, z) => y = z
  BY <1>0, FlippedApart
<1>3. Starred' = Flipped(Path) /\ Primed' = {}
  BY <1>0, <1>1, <1>2 DEF Starred, Primed
<1>4. StarsApart'
  BY <1>2, <1>3 DEF StarsApart, Crosses
<1>5. PrimesApart' /\ NoLoop'
  BY <1>3 DEF PrimesApart, NoLoop
<1>6. Blank'
  BY <1>0 DEF Blank, Step4
<1>7. MaskType'
  BY <1>0, <1>1 DEF MaskType, Step4
<1> QED
  BY <1>0, <1>3, <1>4, <1>5, <1>6, <1>7 DEF MaskInv

LEMMA SolvingKeeps == ASSUME MaskInv, Solving PROVE MaskInv' /\ n' = n
<1>1. MaskInv'
  BY KeepStep1, KeepStep2, KeepStep3, KeepStep4, KeepStep5 DEF Solving
<1>2. n' = n
  BY DEF Solving, Step1, Step2, Step3Prime, Step3None, Step4, Step5
<1> QED
  BY <1>1, <1>2

LEMMA EnterKeeps ==
    ASSUME NEW k \in Nat, NEW m, DOMAIN m = (0 .. k - 1) \X (0 .. k - 1), Enter(k, m)
    PROVE  MaskInv' /\ n' = k
<1>0. n' = k /\ Indices' = 0 .. k - 1 /\ Cells' = (0 .. k - 1) \X (0 .. k - 1) /\ step' = 1
  BY DEF Enter, Indices, Cells
<1>1. mask' = [z \in (0 .. k - 1) \X (0 .. k - 1) |-> "normal"]
  BY DEF Enter
<1>2. \A z \in Cells' : mask'[z] = "normal"
  BY <1>0, <1>1
<1>3. Starred' = {} /\ Primed' = {}
  BY <1>2 DEF Starred, Primed
<1>4. StarsApart' /\ PrimesApart' /\ NoLoop'
  BY <1>3 DEF StarsApart, PrimesApart, NoLoop
<1>5. Blank'
  BY <1>0 DEF Blank, Enter
<1>6. MaskType'
  BY <1>0, <1>1 DEF MaskType, Enter
<1> QED
  BY <1>0, <1>2, <1>3, <1>4, <1>5, <1>6 DEF MaskInv

-----------------------------------------------------------------------------
(* The tracker: which blobs its tracks get, and which are left over.          *)
LEMMA Enumerable ==
    ASSUME NEW k \in Nat
    PROVE  \A S \in SUBSET (0 .. k) :
            \E s \in [1 .. Cardinality(S) -> S] : \A i, j \in DOMAIN s : i < j => s[i] < s[j]
<1> DEFINE Sorted(S, s) == \A i, j \in DOMAIN s : i < j => s[i] < s[j]
           N == {c \in Nat : \A S \in SUBSET (0 .. k) : Cardinality(S) = c =>
                    \E s \in [1 .. c -> S] : Sorted(S, s)}
<1>f. ASSUME NEW S \in SUBSET (0 .. k) PROVE IsFiniteSet(S) /\ Cardinality(S) \in Nat
  <2>1. IsFiniteSet(0 .. k)
    BY FS_Interval
  <2> QED
    BY <2>1, FS_Subset, FS_CardinalityType
<1>1. 0 \in N
  <2> SUFFICES ASSUME NEW S \in SUBSET (0 .. k), Cardinality(S) = 0
               PROVE  \E s \in [1 .. 0 -> S] : Sorted(S, s)
    OBVIOUS
  <2> DEFINE s == [i \in 1 .. 0 |-> 0]
  <2>1. s \in [1 .. 0 -> S] /\ Sorted(S, s)
    OBVIOUS
  <2> QED
    BY <2>1
<1>2. ASSUME NEW c \in N PROVE c + 1 \in N
  <2> SUFFICES ASSUME NEW S \in SUBSET (0 .. k), Cardinality(S) = c + 1
               PROVE  \E s \in [1 .. c + 1 -> S] : Sorted(S, s)
    OBVIOUS
  <2>1. S # {}
    BY FS_EmptySet
  <2>2. PICK m \in S : \A y \in S : y <= m
    BY <2>1, GreatestNat
  <2>3. Cardinality(S \ {m}) = c
    BY <1>f, FS_RemoveElement
  <2>4. PICK s \in [1 .. c -> S \ {m}] : Sorted(S \ {m}, s)
    BY <2>3
  <2> DEFINE t == [i \in 1 .. c + 1 |-> IF i = c + 1 THEN m ELSE s[i]]
  <2>5. \A i \in 1 .. c : s[i] \in S /\ s[i] < m
    <3>1. \A i \in 1 .. c : s[i] \in S /\ s[i] # m
      OBVIOUS
    <3>2. \A y \in S : y \in Int /\ (y # m => y < m)
      BY <2>2
    <3> QED
      BY <3>1, <3>2
  <2>6. t \in [1 .. c + 1 -> S]
    BY <2>5
  <2>7. Sorted(S, t)
    <3> SUFFICES ASSUME NEW i \in 1 .. c + 1, NEW j \in 1 .. c + 1, i < j PROVE t[i] < t[j]
      OBVIOUS
    <3>1. i \in 1 .. c /\ t[i] = s[i]
      OBVIOUS
    <3>2. CASE j = c + 1
      BY <2>5, <3>1, <3>2
    <3>3. CASE j # c + 1
      <4>1. j \in 1 .. c /\ t[j] = s[j]
        BY <3>3
      <4> QED
        BY <2>4, <3>1, <4>1
    <3> QED
      BY <3>2, <3>3
  <2> QED
    BY <2>6, <2>7
<1>3. N = Nat
  <2>1. N \in SUBSET Nat
    OBVIOUS
  <2> HIDE DEF N
  <2> QED
    BY <1>1, <1>2, <2>1, Induct
<1> QED
  BY <1>3, <1>f

LEMMA LeftOverFree ==
    ASSUME blobs \in Seq(Boxes)
    PROVE  /\ Cardinality(Free) \in Nat
           /\ LeftOver \in [1 .. Cardinality(Free) -> Free]
           /\ \A k, l \in 1 .. Cardinality(Free) : LeftOver[k] = LeftOver[l] => k = l
           /\ \A j \in Free : \E k \in 1 .. Cardinality(Free) : LeftOver[k] = j
<1>0. Len(blobs) \in Nat /\ Free \in SUBSET (0 .. Len(blobs))
  BY DEF Free
<1>1. IsFiniteSet(Free) /\ Cardinality(Free) \in Nat
  <2>1. IsFiniteSet(0 .. Len(blobs))
    BY <1>0, FS_Interval
  <2> QED
    BY <1>0, <2>1, FS_Subset, FS_CardinalityType
<1>2. \E s \in [1 .. Cardinality(Free) -> Free] : \A i, j \in DOMAIN s : i < j => s[i] < s[j]
  BY <1>0, Enumerable
<1>3. LeftOver \in [1 .. Cardinality(Free) -> Free] /\ \A i, j \in DOMAIN LeftOver : i < j => LeftOver[i] < LeftOver[j]
  BY <1>2 DEF LeftOver
<1>4. ASSUME NEW k \in 1 .. Cardinality(Free), NEW l \in 1 .. Cardinality(Free), LeftOver[k] = LeftOver[l]
      PROVE  k = l
  <2>1. LeftOver[k] \in Int /\ LeftOver[l] \in Int
    <3>1. LeftOver[k] \in Free /\ LeftOver[l] \in Free
      BY <1>3
    <3>2. \A j \in Free : j \in Int
      BY <1>0
    <3> QED
      BY <3>1, <3>2
  <2>2. k \in DOMAIN LeftOver /\ l \in DOMAIN LeftOver
    BY <1>3
  <2>3. ~(k < l) /\ ~(l < k)
    BY <1>3, <1>4, <2>1, <2>2
  <2> QED
    BY <1>1, <2>3
<1>5. LeftOver \in Injection(1 .. Cardinality(Free), Free)
  BY <1>3, <1>4 DEF Injection, IsInjective
<1>6. Cardinality(1 .. Cardinality(Free)) = Cardinality(Free)
  <2>1. 1 \in Int /\ Cardinality(Free) \in Int
    BY <1>1
  <2> QED
    BY <1>1, <2>1, FS_Interval
<1>7. LeftOver \in Surjection(1 .. Cardinality(Free), Free)
  BY <1>1, <1>5, <1>6, FS_Injection
<1> QED
  BY <1>1, <1>3, <1>4, <1>7 DEF Surjection

LEMMA MatchIsStar ==
    ASSUME TrackType, MaskInv, Len(tracks) <= n, Len(blobs) <= n, NEW i \in DOMAIN tracks, MatchOf(i) # 0
    PROVE  MatchOf(i) \in DOMAIN blobs /\ <<i - 1, MatchOf(i) - 1>> \in Starred
<1> DEFINE js == {j \in DOMAIN blobs : mask[<<i - 1, j - 1>>] = "star"}
<1>0. Len(blobs) \in Nat /\ js \in SUBSET (0 .. Len(blobs)) /\ n \in Nat /\ Len(tracks) \in Nat
  BY DEF TrackType, MaskInv, MaskType
<1>1. js # {} /\ MatchOf(i) = Max(js)
  BY DEF MatchOf
<1>2. \E x \in js : \A y \in js : y <= x
  BY <1>0, <1>1, GreatestNat
<1>3. \E x \in js : \A y \in js : x >= y
  <2>1. js \subseteq Int
    BY <1>0
  <2> HIDE DEF js
  <2> QED
    BY <1>2, <2>1
<1>4. Max(js) \in js
  <2> HIDE DEF js
  <2> QED
    BY <1>3 DEF Max
<1>5. MatchOf(i) \in DOMAIN blobs /\ mask[<<i - 1, MatchOf(i) - 1>>] = "star"
  BY <1>1, <1>4
<1>6. i \in 1 .. Len(tracks) /\ MatchOf(i) \in 1 .. Len(blobs)
  BY <1>5 DEF TrackType
<1>7. i - 1 \in 0 .. n - 1 /\ MatchOf(i) - 1 \in 0 .. n - 1
  BY <1>0, <1>6
<1> QED
  BY <1>5, <1>7 DEF Starred, Cells, Indices

(* No blob is given to two tracks.                                            *)
LEMMA MatchOnce ==
    ASSUME TrackType, MaskInv, Len(tracks) <= n, Len(blobs) <= n,
           NEW i \in DOMAIN tracks, NEW k \in DOMAIN tracks, MatchOf(i) # 0, MatchOf(i) = MatchOf(k)
    PROVE  i = k
<1>1. PICK j : j = MatchOf(i)
  OBVIOUS
<1>2. <<i - 1, j - 1>> \in Starred /\ <<k - 1, j - 1>> \in Starred
  BY <1>1, MatchIsStar
<1>3. <<i - 1, j - 1>> = <<k - 1, j - 1>>
  BY <1>2 DEF MaskInv, StarsApart, Crosses
<1>4. i \in Int /\ k \in Int /\ i - 1 = k - 1
  BY <1>3 DEF TrackType
<1> QED
  BY <1>4

(* The tracks after a frame: the old ones, measured or missed, and one for    *)
(* each blob that is left over.                                               *)
LEMMA Joined ==
    ASSUME NEW S, NEW a \in Seq(S), NEW b \in Seq(S)
    PROVE  /\ a \o b \in Seq(S) /\ Len(a \o b) = Len(a) + Len(b)
           /\ DOMAIN (a \o b) = 1 .. Len(a) + Len(b)
           /\ \A i \in 1 .. Len(a) : (a \o b)[i] = a[i]
           /\ \A k \in 1 .. Len(b) : (a \o b)[Len(a) + k] = b[k]
OBVIOUS

Kept(i) == IF MatchOf(i) # 0 THEN Measured(tracks[i], blobs[MatchOf(i)]) ELSE Missed(tracks[i])
Born(k) == NewTrack(NewId(k), blobs[LeftOver[k]])

LEMMA KeptType ==
    ASSUME TrackInv, busy, NEW i \in DOMAIN tracks
    PROVE  /\ tracks[i] \in Track /\ Kept(i) \in Track
           /\ Kept(i).id = tracks[i].id
           /\ MatchOf(i) # 0 => /\ Kept(i).frame = iterations /\ Kept(i).seen = serial
                                /\ Kept(i).box = blobs[MatchOf(i)]
                                /\ Kept(i).dead = tracks[i].dead /\ Kept(i).died = tracks[i].died
           /\ MatchOf(i) = 0 => /\ Kept(i).frame = tracks[i].frame /\ Kept(i).seen = tracks[i].seen
                                /\ ~tracks[i].dead /\ Dies(tracks[i]) => Kept(i).died = serial - tracks[i].seen
                                /\ tracks[i].dead => Kept(i).died = tracks[i].died
                                /\ Kept(i).dead => tracks[i].dead \/ Dies(tracks[i])
<1>0. /\ serial \in Nat /\ iterations \in Nat /\ TrackType /\ MaskInv /\ Len(tracks) <= n /\ Len(blobs) <= n
  BY TrackerAssumption DEF TrackInv, TrackType
<1>1. PICK t \in Track : t = tracks[i]
  BY <1>0 DEF TrackType
<1>2. CASE MatchOf(i) # 0
  <2>1. MatchOf(i) \in DOMAIN blobs
    BY <1>0, <1>2, MatchIsStar
  <2>2. PICK b \in Boxes : b = blobs[MatchOf(i)]
    BY <1>0, <2>1 DEF TrackType
  <2>3. Kept(i) = [t EXCEPT !.box = b, !.frame = iterations, !.seen = serial]
    BY <1>1, <1>2, <2>2 DEF Kept, Measured
  <2> QED
    BY <1>0, <1>1, <1>2, <2>2, <2>3 DEF Track
<1>3. CASE MatchOf(i) = 0
  <2>1. Kept(i) = Missed(t)
    BY <1>1, <1>3 DEF Kept
  <2>2. PICK d \in BOOLEAN : d = Dies(t)
    <3>1. serial - t.frame \in Int /\ Word \in Nat /\ Word > 0 /\ DieThreshold \in Int
      BY <1>0, TrackerAssumption, SMTT(30) DEF Track
    <3>2. (serial - t.frame) % Word \in Int
      BY <3>1
    <3>3. Dies(t) \in BOOLEAN
      BY <3>1, <3>2 DEF Dies
    <3> QED
      BY <3>3
  <2>3. Missed(t) = [t EXCEPT !.dead = t.dead \/ d, !.died = IF ~t.dead /\ d THEN serial - t.seen ELSE t.died]
    BY <2>2 DEF Missed, Track
  <2>4. t.seen \in Nat /\ serial - t.seen \in Int /\ t.dead \in BOOLEAN
    BY <1>0 DEF Track
  <2>5. /\ Missed(t) \in Track
        /\ Missed(t).id = t.id /\ Missed(t).frame = t.frame /\ Missed(t).seen = t.seen
    BY <2>3, <2>4 DEF Track
  <2>6. Missed(t).died = IF ~t.dead /\ d THEN serial - t.seen ELSE t.died
    BY <2>3 DEF Track
  <2>7. Missed(t).dead = (t.dead \/ d)
    BY <2>3 DEF Track
  <2>8. ~t.dead /\ d => Missed(t).died = serial - t.seen
    BY <2>6
  <2>9. t.dead => Missed(t).died = t.died
    BY <2>6
  <2>10. Missed(t).dead => t.dead \/ d
    BY <2>7
  <2> HIDE DEF Missed, Kept
  <2> QED
    BY <1>1, <1>3, <2>1, <2>2, <2>5, <2>8, <2>9, <2>10
<1> QED
  BY <1>2, <1>3

LEMMA FinishTracks ==
    ASSUME TrackInv, FinishMatch
    PROVE  /\ tracks' \in Seq(Track)
           /\ Cardinality(Free) \in Nat /\ Len(tracks) \in Nat
           /\ DOMAIN tracks = 1 .. Len(tracks)
           /\ DOMAIN tracks' = 1 .. Len(tracks) + Cardinality(Free)
           /\ \A i \in 1 .. Len(tracks) : tracks'[i] = Kept(i)
           /\ \A k \in 1 .. Cardinality(Free) : tracks'[Len(tracks) + k] = Born(k)
           /\ \A k \in 1 .. Cardinality(Free) :
                /\ LeftOver[k] \in DOMAIN blobs
                /\ Born(k) \in Track
                /\ Born(k) = [id |-> idCounter + k, box |-> blobs[LeftOver[k]], frame |-> iterations,
                              dead |-> FALSE, seen |-> serial, died |-> 0]
           /\ idCounter' = idCounter + Cardinality(Free)
<1> DEFINE c == Cardinality(Free)
           a == [i \in DOMAIN tracks |-> Kept(i)]
           b == [k \in DOMAIN LeftOver |-> Born(k)]
<1>0. busy /\ TrackType /\ serial \in Nat /\ iterations \in Nat /\ idCounter \in Nat
  BY TrackerAssumption DEF TrackInv, TrackType, FinishMatch
<1>1. /\ c \in Nat /\ LeftOver \in [1 .. c -> Free]
  BY <1>0, LeftOverFree DEF TrackType
<1>2. Len(tracks) \in Nat /\ DOMAIN tracks = 1 .. Len(tracks)
  BY <1>0 DEF TrackType
<1>3. \A i \in DOMAIN tracks : Kept(i) \in Track
  BY <1>0, KeptType
<1>4. ASSUME NEW k \in 1 .. c
      PROVE  /\ LeftOver[k] \in DOMAIN blobs
             /\ Born(k) \in Track
             /\ Born(k) = [id |-> idCounter + k, box |-> blobs[LeftOver[k]], frame |-> iterations,
                           dead |-> FALSE, seen |-> serial, died |-> 0]
  <2>1. LeftOver[k] \in DOMAIN blobs
    BY <1>1 DEF Free
  <2>2. blobs[LeftOver[k]] \in Boxes
    BY <1>0, <2>1 DEF TrackType
  <2>3. Born(k) = [id |-> idCounter + k, box |-> blobs[LeftOver[k]], frame |-> iterations,
                   dead |-> FALSE, seen |-> serial, died |-> 0]
    BY DEF Born, NewTrack, NewId
  <2>4. idCounter + k \in Nat
    BY <1>0, <1>1
  <2> QED
    BY <1>0, <2>1, <2>2, <2>3, <2>4 DEF Track
<1>5. a \in Seq(Track) /\ Len(a) = Len(tracks)
  <2> HIDE DEF Kept
  <2> QED
    BY <1>2, <1>3
<1>6. b \in Seq(Track) /\ Len(b) = c /\ DOMAIN LeftOver = 1 .. c
  <2>1. DOMAIN LeftOver = 1 .. c
    BY <1>1
  <2>2. b \in Seq(Track) /\ Len(b) = c
    BY <1>1, <1>4, <2>1
  <2> QED
    BY <2>1, <2>2
<1>7. tracks' = a \o b
  BY DEF FinishMatch, Kept, Born
<1>8. \A i \in 1 .. Len(tracks) : a[i] = Kept(i)
  BY <1>2
<1>9. \A k \in 1 .. c : b[k] = Born(k)
  BY <1>6
<1>10. Len(LeftOver) = c
  BY <1>1, <1>6
<1>11. idCounter' = idCounter + c
  BY <1>10 DEF FinishMatch
<1> HIDE DEF a, b, c
<1>12. /\ tracks' \in Seq(Track)
       /\ DOMAIN tracks' = 1 .. Len(tracks) + c
       /\ \A i \in 1 .. Len(tracks) : tracks'[i] = a[i]
       /\ \A k \in 1 .. c : tracks'[Len(tracks) + k] = b[k]
  BY <1>5, <1>6, <1>7, Joined
<1> QED
  BY <1>1, <1>2, <1>4, <1>8, <1>9, <1>11, <1>12 DEF c

(* unsigned arithmetic does not wrap within the frames of an instance.         *)
LEMMA NoWrapAround == ASSUME NEW x \in Nat, x < Word PROVE x % Word = x
BY TrackerAssumption

(* A track that dies has not been seen for more than the threshold, but for    *)
(* the frames the detector has not counted.                                    *)
LEMMA FinishAges == ASSUME TrackInv, FinishMatch PROVE Ages'
<1>0. /\ TrackType /\ Ages /\ busy /\ busy' = FALSE /\ serial' = serial /\ iterations' = iterations + 1
      /\ serial \in 0 .. MaxFrames /\ iterations \in Nat
      /\ MaxFrames \in Nat /\ DieThreshold \in Nat /\ Word \in Nat /\ Word > DieThreshold + MaxFrames
  BY TrackerAssumption DEF TrackInv, TrackType, FinishMatch
<1>1. Uncounted = serial - iterations - 1 /\ Uncounted' = serial - iterations - 1
  <2>1. Uncounted = serial - iterations - 1
    BY <1>0 DEF Uncounted
  <2>2. Uncounted' = serial - (iterations + 1) - 0
    BY <1>0 DEF Uncounted
  <2> QED
    BY <1>0, <2>1, <2>2
<1>2. PICK u \in Nat : u = Uncounted
  BY <1>0, <1>1 DEF Ages
<1>3. Uncounted' = u /\ u = serial - iterations - 1
  BY <1>1, <1>2
<1>4. ASSUME NEW i \in 1 .. Len(tracks)
      PROVE  /\ tracks'[i].frame < iterations + 1
             /\ tracks'[i].seen - tracks'[i].frame <= u + 1
             /\ tracks'[i].dead => tracks'[i].died >= DieThreshold - u
  <2>0. i \in DOMAIN tracks /\ tracks'[i] = Kept(i)
    BY FinishTracks
  <2>1. PICK t \in Track, w \in Track : t = tracks[i] /\ w = Kept(i)
    BY <1>0, <2>0, KeptType
  <2>2. /\ w.id = t.id
        /\ MatchOf(i) # 0 => w.frame = iterations /\ w.seen = serial /\ w.dead = t.dead /\ w.died = t.died
        /\ MatchOf(i) = 0 => w.frame = t.frame /\ w.seen = t.seen
        /\ MatchOf(i) = 0 /\ ~t.dead /\ Dies(t) => w.died = serial - t.seen
        /\ MatchOf(i) = 0 /\ t.dead => w.died = t.died
        /\ MatchOf(i) = 0 /\ w.dead => t.dead \/ Dies(t)
    BY <1>0, <2>0, <2>1, KeptType
  <2>3. /\ t.frame < iterations /\ t.seen - t.frame <= u + 1
        /\ t.dead => t.died >= DieThreshold - u
    BY <1>0, <1>2, <2>0, <2>1 DEF Ages
  <2>4. /\ t.frame \in Nat /\ t.seen \in Nat /\ t.died \in Int
        /\ w.frame \in Nat /\ w.seen \in Nat /\ w.died \in Int
    BY DEF Track
  <2>5. Dies(t) => serial - t.seen >= DieThreshold - u
    <3>0. \A f \in Nat : f < iterations => serial - f \in Nat /\ serial - f < Word
      BY <1>0, <1>3
    <3>1. serial - t.frame \in Nat /\ serial - t.frame < Word
      BY <2>3, <2>4, <3>0
    <3>2. (serial - t.frame) % Word = serial - t.frame
      BY <3>1, NoWrapAround
    <3>3. Dies(t) => serial - t.frame > DieThreshold
      BY <3>2 DEF Dies
    <3> QED
      BY <1>0, <2>3, <2>4, <3>3, SMTT(30)
  <2>6. w.frame < iterations + 1 /\ w.seen - w.frame <= u + 1
    <3>1. CASE MatchOf(i) # 0
      BY <1>0, <1>3, <2>2, <3>1
    <3>2. CASE MatchOf(i) = 0
      BY <1>0, <2>2, <2>3, <2>4, <3>2
    <3> QED
      BY <3>1, <3>2
  <2>7. w.dead => w.died >= DieThreshold - u
    <3> SUFFICES ASSUME w.dead PROVE w.died >= DieThreshold - u
      OBVIOUS
    <3>1. CASE MatchOf(i) # 0
      BY <2>2, <2>3, <3>1
    <3>2. CASE MatchOf(i) = 0 /\ t.dead
      BY <2>2, <2>3, <3>2
    <3>3. CASE MatchOf(i) = 0 /\ ~t.dead
      <4>1. Dies(t)
        BY <2>2, <3>3
      <4> QED
        BY <2>2, <2>5, <3>3, <4>1
    <3> QED
      BY <3>1, <3>2, <3>3
  <2> QED
    BY <2>0, <2>1, <2>6, <2>7
<1>5. ASSUME NEW k \in 1 .. Cardinality(Free)
      PROVE  /\ tracks'[Len(tracks) + k].frame < iterations + 1
             /\ tracks'[Len(tracks) + k].seen - tracks'[Len(tracks) + k].frame <= u + 1
             /\ tracks'[Len(tracks) + k].dead => tracks'[Len(tracks) + k].died >= DieThreshold - u
  <2>1. tracks'[Len(tracks) + k] = [id |-> idCounter + k, box |-> blobs[LeftOver[k]], frame |-> iterations,
                                    dead |-> FALSE, seen |-> serial, died |-> 0]
    BY FinishTracks
  <2>2. iterations < iterations + 1 /\ serial - iterations <= u + 1
    BY <1>0, <1>3
  <2> QED
    BY <2>1, <2>2
<1>6. ASSUME NEW i \in DOMAIN tracks'
      PROVE  /\ tracks'[i].frame < iterations'
             /\ tracks'[i].seen - tracks'[i].frame <= Uncounted' + 1
             /\ tracks'[i].dead => tracks'[i].died >= DieThreshold - Uncounted'
  <2>1. /\ i \in 1 .. Len(tracks) + Cardinality(Free)
        /\ Cardinality(Free) \in Nat /\ Len(tracks) \in Nat
    BY FinishTracks
  <2>2. CASE i \in 1 .. Len(tracks)
    BY <1>0, <1>3, <1>4, <2>2
  <2>3. CASE i \notin 1 .. Len(tracks)
    <3>1. PICK k \in 1 .. Cardinality(Free) : i = Len(tracks) + k
      <4>1. i - Len(tracks) \in 1 .. Cardinality(Free) /\ i = Len(tracks) + (i - Len(tracks))
        BY <2>1, <2>3
      <4> QED
        BY <4>1
    <3> QED
      BY <1>0, <1>3, <1>5, <3>1
  <2> QED
    BY <2>2, <2>3
<1> QED
  BY <1>3, <1>6 DEF Ages

(* Each blob of the frame is the last measurement of one track.               *)
OneEach(T, B, i) ==
    LET seen == {x \in DOMAIN T : T[x].frame = i}
    IN  \E f \in [seen -> DOMAIN B] :
            /\ \A j \in DOMAIN B : Cardinality({x \in seen : f[x] = j}) = 1
            /\ \A x \in seen : B[f[x]] = T[x].box

LEMMA FinishOneEach == ASSUME TrackInv, FinishMatch PROVE OneEach(tracks', blobs, iterations)
<1>0. /\ TrackType /\ Ages /\ busy /\ MaskInv /\ Len(tracks) <= n /\ Len(blobs) <= n
      /\ iterations \in Nat /\ blobs \in Seq(Boxes)
  BY DEF TrackInv, TrackType, FinishMatch
<1>1. PICK L \in Nat, c \in Nat : L = Len(tracks) /\ c = Cardinality(Free)
  BY FinishTracks
<1>2. DOMAIN tracks = 1 .. L /\ DOMAIN tracks' = 1 .. L + c
  BY <1>1, FinishTracks
<1>3. \A i \in 1 .. L : tracks'[i] = Kept(i)
  BY <1>1, FinishTracks
<1>4. \A k \in 1 .. c : /\ LeftOver[k] \in DOMAIN blobs
                        /\ tracks'[L + k].frame = iterations
                        /\ tracks'[L + k].box = blobs[LeftOver[k]]
  <2> SUFFICES ASSUME NEW k \in 1 .. c
               PROVE  /\ LeftOver[k] \in DOMAIN blobs
                      /\ tracks'[L + k].frame = iterations
                      /\ tracks'[L + k].box = blobs[LeftOver[k]]
    OBVIOUS
  <2>1. /\ LeftOver[k] \in DOMAIN blobs
        /\ tracks'[L + k] = [id |-> idCounter + k, box |-> blobs[LeftOver[k]], frame |-> iterations,
                             dead |-> FALSE, seen |-> serial, died |-> 0]
    BY <1>1, FinishTracks
  <2> QED
    BY <2>1
<1>5. \A i \in 1 .. L : /\ MatchOf(i) # 0 => /\ tracks'[i].frame = iterations
                                              /\ tracks'[i].box = blobs[MatchOf(i)]
                        /\ MatchOf(i) = 0 => tracks'[i].frame # iterations
  <2> SUFFICES ASSUME NEW i \in 1 .. L
               PROVE  /\ MatchOf(i) # 0 => /\ tracks'[i].frame = iterations
                                           /\ tracks'[i].box = blobs[MatchOf(i)]
                      /\ MatchOf(i) = 0 => tracks'[i].frame # iterations
    OBVIOUS
  <2>1. i \in DOMAIN tracks
    BY <1>2
  <2>2. tracks[i] \in Track /\ tracks[i].frame < iterations
    BY <1>0, <2>1, KeptType DEF Ages
  <2>3. tracks[i].frame # iterations
    <3>1. tracks[i].frame \in Nat
      BY <2>2 DEF Track
    <3> QED
      BY <1>0, <2>2, <3>1
  <2> QED
    BY <1>0, <1>3, <2>1, <2>3, KeptType
<1>6. /\ LeftOver \in [1 .. c -> Free]
      /\ \A k, l \in 1 .. c : LeftOver[k] = LeftOver[l] => k = l
      /\ \A j \in Free : \E k \in 1 .. c : LeftOver[k] = j
  BY <1>0, <1>1, LeftOverFree
<1>7. \A i \in 1 .. L : MatchOf(i) # 0 => MatchOf(i) \in DOMAIN blobs
  BY <1>0, <1>2, MatchIsStar
<1>8. \A i, k \in 1 .. L : MatchOf(i) # 0 /\ MatchOf(i) = MatchOf(k) => i = k
  BY <1>0, <1>2, MatchOnce
<1>9. \A j \in DOMAIN blobs : j # 0 /\ (j \in Free <=> \A i \in 1 .. L : MatchOf(i) # j)
  <2>1. \A j \in DOMAIN blobs : j # 0
    BY <1>0
  <2> QED
    BY <1>2, <2>1 DEF Free
<1>10. Free \in SUBSET DOMAIN blobs
  BY DEF Free
<1> DEFINE seen == {x \in DOMAIN tracks' : tracks'[x].frame = iterations}
           f == [x \in seen |-> IF x <= L THEN MatchOf(x) ELSE LeftOver[x - L]]
<1>11. \A x \in 1 .. L : x \in seen <=> MatchOf(x) # 0
  <2>1. \A x \in 1 .. L : x \in DOMAIN tracks'
    BY <1>2
  <2> QED
    BY <1>5, <2>1
<1>12. \A k \in 1 .. c : L + k \in seen /\ f[L + k] = LeftOver[k]
  <2>1. \A k \in 1 .. c : L + k \in 1 .. L + c /\ ~(L + k <= L) /\ (L + k) - L = k
    OBVIOUS
  <2>2. \A k \in 1 .. c : L + k \in seen
    BY <1>2, <1>4, <2>1
  <2> QED
    BY <2>1, <2>2
<1>13. \A x \in 1 .. L : x \in seen => f[x] = MatchOf(x)
  OBVIOUS
<1>14. \A x \in seen : x \in 1 .. L \/ \E k \in 1 .. c : x = L + k
  <2>1. ASSUME NEW x \in 1 .. L + c, x \notin 1 .. L PROVE x - L \in 1 .. c /\ x = L + (x - L)
    BY <2>1
  <2>2. \A x \in seen : x \in 1 .. L + c
    BY <1>2
  <2> QED
    BY <2>1, <2>2
<1>d. f \in [seen -> {f[x] : x \in seen}]
  OBVIOUS
<1> HIDE DEF seen, f
<1>15. \A x \in seen : f[x] \in DOMAIN blobs
  BY <1>4, <1>7, <1>11, <1>12, <1>13, <1>14
<1>16. f \in [seen -> DOMAIN blobs]
  BY <1>15, <1>d
<1>17. \A x \in seen : blobs[f[x]] = tracks'[x].box
  BY <1>4, <1>5, <1>11, <1>12, <1>13, <1>14
<1>18. ASSUME NEW j \in DOMAIN blobs PROVE Cardinality({x \in seen : f[x] = j}) = 1
  <2>1. \E i \in seen : f[i] = j /\ \A x \in seen : f[x] = j => x = i
    <3>1. CASE j \in Free
      <4>1. PICK k \in 1 .. c : LeftOver[k] = j
        BY <1>6, <3>1
      <4>2. \A x \in 1 .. L : MatchOf(x) # j
        BY <1>9, <3>1
      <4>3. \A l \in 1 .. c : f[L + l] = j => l = k
        BY <1>6, <1>12, <4>1
      <4>4. \A x \in seen : f[x] = j => x = L + k
        BY <1>13, <1>14, <4>2, <4>3
      <4> QED
        BY <1>12, <4>1, <4>4
    <3>2. CASE j \notin Free
      <4>1. PICK i \in 1 .. L : MatchOf(i) = j
        BY <1>9, <3>2
      <4>2. i \in seen /\ f[i] = j
        BY <1>9, <1>11, <1>13, <4>1
      <4>3. \A k \in 1 .. c : f[L + k] # j
        <5>1. \A k \in 1 .. c : LeftOver[k] \in Free
          BY <1>6
        <5> QED
          BY <1>12, <3>2, <5>1
      <4>4. \A x \in 1 .. L : x \in seen /\ f[x] = j => x = i
        BY <1>8, <1>9, <1>13, <4>1
      <4>5. \A x \in seen : f[x] = j => x = i
        BY <1>14, <4>3, <4>4
      <4> QED
        BY <4>2, <4>5
    <3> QED
      BY <3>1, <3>2
  <2>2. PICK i : {x \in seen : f[x] = j} = {i}
    BY <2>1
  <2> QED
    BY <2>2, FS_Singleton
<1> QED
  BY <1>16, <1>17, <1>18 DEF OneEach, seen

LEMMA FinishKeeps == ASSUME TrackInv, FinishMatch PROVE TrackInv'
<1>0. /\ TrackType /\ busy' = FALSE /\ step' = 0 /\ blobs' = blobs /\ serial' = serial /\ stops' = stops
      /\ iterations' = iterations + 1 /\ iterations \in Nat /\ idCounter \in Nat
  BY DEF TrackInv, TrackType, FinishMatch, Leave
<1>1. PICK L \in Nat, c \in Nat : L = Len(tracks) /\ c = Cardinality(Free)
  BY FinishTracks
<1>2. /\ tracks' \in Seq(Track) /\ idCounter' = idCounter + c
      /\ DOMAIN tracks = 1 .. L /\ DOMAIN tracks' = 1 .. L + c
  BY <1>1, FinishTracks
<1>3. TrackType'
  <2>0. busy' \in BOOLEAN
    BY <1>0
  <2>1. iterations' \in Nat /\ idCounter' \in Nat
    <3>1. iterations + 1 \in Nat /\ idCounter + c \in Nat
      BY <1>0
    <3> QED
      BY <1>0, <1>2, <3>1
  <2>2. blobs' \in Seq(Boxes) /\ serial' \in 0 .. MaxFrames /\ stops' \in Nat
    BY <1>0 DEF TrackType
  <2> QED
    BY <1>2, <2>0, <2>1, <2>2 DEF TrackType
<1>4. \A i \in 1 .. L : /\ tracks'[i].id = tracks[i].id /\ tracks[i].id \in 1 .. idCounter
                        /\ \A j \in 1 .. L : i < j => tracks[i].id < tracks[j].id
  <2>1. \A i \in 1 .. L : tracks'[i].id = tracks[i].id
    <3>1. \A i \in 1 .. L : tracks'[i] = Kept(i) /\ i \in DOMAIN tracks
      BY <1>1, <1>2, FinishTracks
    <3>2. busy
      BY DEF FinishMatch
    <3> QED
      BY <3>1, <3>2, KeptType
  <2> QED
    BY <1>2, <2>1 DEF TrackInv, BlobsTracked
<1>5. \A k \in 1 .. c : tracks'[L + k].id = idCounter + k
  <2> SUFFICES ASSUME NEW k \in 1 .. c PROVE tracks'[L + k].id = idCounter + k
    OBVIOUS
  <2>1. tracks'[L + k] = [id |-> idCounter + k, box |-> blobs[LeftOver[k]], frame |-> iterations,
                          dead |-> FALSE, seen |-> serial, died |-> 0]
    BY <1>1, FinishTracks
  <2> QED
    BY <2>1
<1>6. \A i \in 1 .. L + c : i \in 1 .. L \/ \E k \in 1 .. c : i = L + k
  <2>1. ASSUME NEW x \in 1 .. L + c, x \notin 1 .. L PROVE x - L \in 1 .. c /\ x = L + (x - L)
    BY <2>1
  <2> QED
    BY <2>1
<1>7. \A i \in DOMAIN tracks' : tracks'[i].id \in 1 .. idCounter'
  <2>1. \A i \in 1 .. L : tracks'[i].id \in 1 .. idCounter + c
    BY <1>0, <1>4
  <2>2. \A k \in 1 .. c : tracks'[L + k].id \in 1 .. idCounter + c
    BY <1>0, <1>5
  <2> QED
    BY <1>2, <1>6, <2>1, <2>2
<1>8. ASSUME NEW i \in DOMAIN tracks', NEW j \in DOMAIN tracks', i < j PROVE tracks'[i].id < tracks'[j].id
  <2>0. i \in 1 .. L + c /\ j \in 1 .. L + c
    BY <1>2
  <2>1. CASE j \in 1 .. L
    <3>1. i \in 1 .. L
      BY <1>8, <2>0, <2>1
    <3> QED
      BY <1>4, <1>8, <2>1, <3>1
  <2>2. CASE i \in 1 .. L /\ j \notin 1 .. L
    <3>1. PICK k \in 1 .. c : j = L + k
      BY <1>6, <2>0, <2>2
    <3>2. tracks'[i].id \in 1 .. idCounter /\ tracks'[j].id = idCounter + k
      BY <1>4, <1>5, <2>2, <3>1
    <3> QED
      BY <1>0, <3>2
  <2>3. CASE i \notin 1 .. L /\ j \notin 1 .. L
    <3>1. PICK k \in 1 .. c, l \in 1 .. c : i = L + k /\ j = L + l
      BY <1>6, <2>0, <2>3
    <3>2. tracks'[i].id = idCounter + k /\ tracks'[j].id = idCounter + l
      BY <1>5, <3>1
    <3> QED
      BY <1>0, <1>8, <3>1, <3>2
  <2> QED
    BY <2>1, <2>2, <2>3
<1>9. OneEach(tracks', blobs', iterations' - 1)
  <2>1. iterations' - 1 = iterations
    BY <1>0
  <2> QED
    BY <1>0, <2>1, FinishOneEach
<1>10. BlobsTracked'
  BY <1>7, <1>8, <1>9 DEF BlobsTracked, OneEach
<1> QED
  BY <1>0, <1>3, <1>10, FinishAges DEF TrackInv

LEMMA NoBlobs ==
    ASSUME NEW T, NEW i, \A x \in DOMAIN T : T[x].frame # i
    PROVE  OneEach(T, <<>>, i)
<1>1. {x \in DOMAIN T : T[x].frame = i} = {} /\ DOMAIN <<>> = {}
  OBVIOUS
<1>2. [x \in {} |-> x] \in [{} -> {}]
  OBVIOUS
<1> QED
  BY <1>1, <1>2 DEF OneEach

LEMMA OneEachNow == TrackInv /\ ~busy => OneEach(tracks, blobs, iterations - 1)
BY DEF TrackInv, BlobsTracked, OneEach

(* Tracks that stay as they are keep their ages while fewer frames are counted *)
(* than pass.                                                                 *)
LEMMA AgesStay ==
    ASSUME TrackInv, tracks' = tracks, iterations' \in Nat, iterations <= iterations', Uncounted' \in Int, Uncounted <= Uncounted'
    PROVE  Ages'
<1>0. /\ TrackType /\ Ages /\ iterations \in Nat /\ Uncounted \in Int /\ DieThreshold \in Nat
  BY TrackerAssumption DEF TrackInv, TrackType, Uncounted
<1>1. ASSUME NEW i \in DOMAIN tracks
      PROVE  /\ tracks[i].frame < iterations'
             /\ tracks[i].seen - tracks[i].frame <= Uncounted' + 1
             /\ tracks[i].dead => tracks[i].died >= DieThreshold - Uncounted'
  <2>1. PICK t \in Track : t = tracks[i]
    BY <1>0 DEF TrackType
  <2>2. t.frame < iterations /\ t.seen - t.frame <= Uncounted + 1
    BY <1>0, <2>1 DEF Ages
  <2>3. t.dead => t.died >= DieThreshold - Uncounted
    BY <1>0, <2>1 DEF Ages
  <2>4. t.frame \in Nat /\ t.seen \in Nat /\ t.died \in Int
    BY DEF Track
  <2>5. t.frame < iterations' /\ t.seen - t.frame <= Uncounted' + 1
    BY <1>0, <2>2, <2>4
  <2>6. t.died >= DieThreshold - Uncounted => t.died >= DieThreshold - Uncounted'
    BY <1>0, <2>4
  <2> QED
    BY <2>1, <2>3, <2>5, <2>6
<1>2. Uncounted' >= 0
  BY <1>0 DEF Ages
<1> QED
  BY <1>1, <1>2 DEF Ages

LEMMA IdsStay ==
    ASSUME TrackInv, tracks' = tracks, idCounter' = idCounter, busy' \/ OneEach(tracks', blobs', iterations' - 1)
    PROVE  BlobsTracked'
<1>1. /\ \A i, j \in DOMAIN tracks : i < j => tracks[i].id < tracks[j].id
      /\ \A i \in DOMAIN tracks : tracks[i].id \in 1 .. idCounter
  BY DEF TrackInv, BlobsTracked
<1> QED
  BY <1>1 DEF BlobsTracked, OneEach

(* The blobs of a frame, and the size of their matrix.                        *)
LEMMA FrameSize ==
    ASSUME TrackType, NEW bs \in BlobLists
    PROVE  /\ bs \in Seq(Boxes)
           /\ SizeOf(bs) \in Nat /\ Len(tracks) <= SizeOf(bs) /\ Len(bs) <= SizeOf(bs)
<1>1. bs \in Seq(Boxes)
  <2>1. PICK k \in 0 .. MaxBlobs : bs \in [1 .. k -> Boxes]
    BY DEF BlobLists
  <2>2. k \in Nat
    BY TrackerAssumption
  <2> QED
    BY <2>1, <2>2
<1>2. Len(tracks) \in Nat /\ Len(bs) \in Nat
  BY <1>1 DEF TrackType
<1> DEFINE S == {Len(tracks), Len(bs)}
<1>3. \E x \in S : \A y \in S : x >= y
  BY <1>2
<1>4. Max(S) \in S /\ \A y \in S : Max(S) >= y
  <2> HIDE DEF S
  <2> QED
    BY <1>3 DEF Max
<1> QED
  BY <1>1, <1>2, <1>4 DEF SizeOf

LEMMA MatchKeeps == ASSUME TrackInv, NEW bs \in BlobLists, MatchBlobs(bs) PROVE TrackInv'
<1>0. /\ TrackType /\ Ages /\ ~busy /\ busy' = TRUE /\ serial < MaxFrames /\ serial' = serial + 1
      /\ blobs' = bs /\ tracks' = tracks /\ idCounter' = idCounter /\ iterations' = iterations
      /\ stops' = stops /\ Enter(SizeOf(bs), Costs(bs))
      /\ MaxFrames \in Nat /\ serial \in 0 .. MaxFrames /\ iterations \in Nat
  BY TrackerAssumption DEF TrackInv, TrackType, MatchBlobs
<1>1. /\ bs \in Seq(Boxes)
      /\ SizeOf(bs) \in Nat /\ Len(tracks) <= SizeOf(bs) /\ Len(bs) <= SizeOf(bs)
  BY <1>0, FrameSize
<1>2. TrackType'
  <2>1. serial' \in 0 .. MaxFrames
    BY <1>0
  <2>2. busy' \in BOOLEAN
    BY <1>0
  <2> QED
    BY <1>0, <1>1, <2>1, <2>2 DEF TrackType
<1>3. Ages'
  <2>1. Uncounted = serial - iterations - 0 /\ Uncounted' = (serial + 1) - iterations - 1
    BY <1>0 DEF Uncounted
  <2>2. Uncounted' \in Int /\ Uncounted <= Uncounted'
    BY <1>0, <2>1
  <2>3. iterations <= iterations' /\ iterations' \in Nat
    BY <1>0
  <2> QED
    BY <1>0, <2>2, <2>3, AgesStay
<1>4. BlobsTracked'
  BY <1>0, IdsStay
<1>5. DOMAIN Costs(bs) = (0 .. SizeOf(bs) - 1) \X (0 .. SizeOf(bs) - 1)
  BY DEF Costs
<1>6. MaskInv' /\ n' = SizeOf(bs)
  BY <1>0, <1>1, <1>5, EnterKeeps
<1>7. Len(tracks)' <= n' /\ Len(blobs)' <= n'
  BY <1>0, <1>1, <1>6
<1> QED
  BY <1>0, <1>2, <1>3, <1>4, <1>6, <1>7 DEF TrackInv

LEMMA SolveKeeps == ASSUME TrackInv, Solving, UNCHANGED <<trackerVars, busy>> PROVE TrackInv'
<1>0. /\ TrackType /\ Ages /\ tracks' = tracks /\ blobs' = blobs /\ idCounter' = idCounter
      /\ serial' = serial /\ iterations' = iterations /\ stops' = stops /\ busy' = busy
  BY DEF TrackInv, trackerVars
<1>1. TrackType' /\ Ages'
  BY <1>0 DEF TrackType, Ages, Uncounted
<1>2. busy
  <2>1. step # 0
    BY DEF Solving, Step1, Step2, Step3Prime, Step3None, Step4, Step5
  <2> QED
    BY <2>1 DEF TrackInv
<1>3. MaskInv /\ Len(tracks) <= n /\ Len(blobs) <= n
  BY <1>2 DEF TrackInv
<1>4. MaskInv' /\ n' = n
  BY <1>3, SolvingKeeps
<1>5. BlobsTracked'
  BY <1>0, <1>2, IdsStay
<1>6. Len(tracks)' <= n' /\ Len(blobs)' <= n'
  BY <1>0, <1>3, <1>4
<1> QED
  BY <1>0, <1>1, <1>2, <1>4, <1>5, <1>6 DEF TrackInv

LEMMA SkipKeeps == ASSUME TrackInv, NEW d \in BOOLEAN, Skip(d) PROVE TrackInv'
<1>0. /\ TrackType /\ Ages /\ ~busy /\ busy' = FALSE /\ serial < MaxFrames /\ serial' = serial + 1
      /\ tracks' = tracks /\ idCounter' = idCounter /\ stops' = stops /\ step' = 0
      /\ serial \in 0 .. MaxFrames /\ iterations \in Nat /\ MaxFrames \in Nat
  BY TrackerAssumption DEF TrackInv, TrackType, Skip, munkresVars
<1>1. iterations' \in Nat /\ iterations <= iterations' /\ iterations' <= iterations + 1
  <2>1. CASE d
    <3>1. iterations' = iterations + 1
      BY <2>1 DEF Skip
    <3> QED
      BY <1>0, <3>1
  <2>2. CASE ~d
    <3>1. iterations' = iterations
      BY <2>2 DEF Skip
    <3> QED
      BY <1>0, <3>1
  <2> QED
    BY <2>1, <2>2
<1>2. Ages'
  <2>1. Uncounted = serial - iterations - 0 /\ Uncounted' = (serial + 1) - iterations' - 0
    BY <1>0 DEF Uncounted
  <2>2. \A a, b, c \in Nat : c <= b + 1 => (a + 1) - c - 0 \in Int /\ a - b - 0 <= (a + 1) - c - 0
    OBVIOUS
  <2>3. serial \in Nat
    BY <1>0
  <2>4. Uncounted' \in Int /\ Uncounted <= Uncounted'
    BY <1>0, <1>1, <2>1, <2>2, <2>3
  <2> QED
    BY <1>0, <1>1, <2>4, AgesStay
<1>3. blobs' \in Seq(Boxes) /\ OneEach(tracks', blobs', iterations' - 1)
  <2>1. CASE d
    <3>1. blobs' = <<>> /\ iterations' - 1 = iterations
      BY <1>0, <2>1 DEF Skip
    <3>2. ASSUME NEW x \in DOMAIN tracks PROVE tracks[x].frame # iterations
      <4>1. tracks[x] \in Track /\ tracks[x].frame < iterations
        BY <1>0 DEF TrackType, Ages
      <4>2. tracks[x].frame \in Nat
        BY <4>1 DEF Track
      <4> QED
        BY <1>0, <4>1, <4>2
    <3>3. OneEach(tracks, <<>>, iterations)
      BY <3>2, NoBlobs
    <3> QED
      BY <1>0, <3>1, <3>3
  <2>2. CASE ~d
    <3>1. blobs' = blobs /\ iterations' = iterations
      BY <2>2 DEF Skip
    <3> QED
      BY <1>0, <3>1, OneEachNow DEF TrackType
  <2> QED
    BY <2>1, <2>2
<1>4. TrackType'
  <2>1. serial' \in 0 .. MaxFrames
    BY <1>0
  <2>2. busy' \in BOOLEAN
    BY <1>0
  <2> QED
    BY <1>0, <1>1, <1>3, <2>1, <2>2 DEF TrackType
<1>5. BlobsTracked'
  BY <1>0, <1>3, IdsStay
<1> QED
  BY <1>0, <1>2, <1>4, <1>5 DEF TrackInv

LEMMA EmptyTracks ==
    ASSUME tracks = <<>>, blobs = <<>>, idCounter \in Nat, serial \in 0 .. MaxFrames, iterations \in Nat,
           stops \in Nat, busy = FALSE, step = 0, Uncounted >= 0
    PROVE  TrackInv
<1>1. TrackType
  <2>1. tracks \in Seq(Track) /\ blobs \in Seq(Boxes)
    OBVIOUS
  <2>2. busy \in BOOLEAN
    OBVIOUS
  <2> QED
    BY <2>1, <2>2 DEF TrackType
<1>2. Ages
  BY DEF Ages
<1>3. OneEach(<<>>, <<>>, iterations - 1)
  <2>1. \A x \in DOMAIN <<>> : <<>>[x].frame # iterations - 1
    OBVIOUS
  <2> QED
    BY <2>1, NoBlobs
<1>4. BlobsTracked
  <2>1. DOMAIN tracks = {}
    OBVIOUS
  <2>2. OneEach(tracks, blobs, iterations - 1)
    BY <1>3
  <2> QED
    BY <2>1, <2>2 DEF BlobsTracked, OneEach
<1> QED
  BY <1>1, <1>2, <1>4 DEF TrackInv

LEMMA TrackInvInit == TrackerInit /\ Nothing => TrackInv
<1> SUFFICES ASSUME TrackerInit, Nothing PROVE TrackInv
  OBVIOUS
<1>1. Uncounted >= 0
  <2>1. Uncounted = 0 - 0 - 0
    BY DEF TrackerInit, Uncounted
  <2> QED
    BY <2>1
<1>2. 0 \in 0 .. MaxFrames
  BY TrackerAssumption
<1>3. /\ tracks = <<>> /\ blobs = <<>> /\ idCounter \in Nat /\ serial \in 0 .. MaxFrames
      /\ iterations \in Nat /\ stops \in Nat /\ step = 0
  BY <1>2 DEF TrackerInit, Nothing
<1>4. busy = FALSE
  BY DEF TrackerInit
<1> QED
  BY <1>1, <1>3, <1>4, EmptyTracks

LEMMA StopKeeps == ASSUME TrackInv, Stop PROVE TrackInv'
<1>0. /\ tracks' = <<>> /\ blobs' = <<>> /\ idCounter' = idCounter /\ serial' = serial
      /\ iterations' = iterations /\ stops' = stops + 1 /\ busy' = busy /\ ~busy /\ step' = 0
      /\ TrackType /\ Ages
  BY DEF TrackInv, Stop, munkresVars
<1>1. TrackType'
  <2>1. stops' \in Nat
    BY <1>0 DEF TrackType
  <2> QED
    BY <1>0, <2>1 DEF TrackType
<1>2. Ages'
  <2>1. Uncounted' = Uncounted
    BY <1>0 DEF Uncounted
  <2> QED
    BY <1>0, <2>1 DEF Ages
<1>3. OneEach(<<>>, <<>>, iterations - 1)
  <2>1. \A x \in DOMAIN <<>> : <<>>[x].frame # iterations - 1
    OBVIOUS
  <2> QED
    BY <2>1, NoBlobs
<1>4. BlobsTracked'
  <2>1. DOMAIN tracks' = {}
    BY <1>0
  <2>2. OneEach(tracks', blobs', iterations' - 1)
    BY <1>0, <1>3
  <2> QED
    BY <2>1, <2>2 DEF BlobsTracked, OneEach
<1> QED
  BY <1>0, <1>1, <1>2, <1>4 DEF TrackInv

(* The tracks of the tracker and the masks of solve() keep together, whatever *)
(* the detector finds and however often the pipeline is stopped.              *)
THEOREM TrackerSound == TrackSpec => []TrackInv
<1>1. TrackInv /\ [Next]_TrackVars => TrackInv'
  <2> SUFFICES ASSUME TrackInv, [Next]_TrackVars PROVE TrackInv'
    OBVIOUS
  <2>1. CASE \E bs \in BlobLists : MatchBlobs(bs)
    BY <2>1, MatchKeeps
  <2>2. CASE Solving /\ UNCHANGED <<trackerVars, busy>>
    BY <2>2, SolveKeeps
  <2>3. CASE FinishMatch
    BY <2>3, FinishKeeps
  <2>4. CASE \E d \in BOOLEAN : Skip(d)
    BY <2>4, SkipKeeps
  <2>5. CASE Stop
    BY <2>5, StopKeeps
  <2>6. CASE UNCHANGED TrackVars
    <3>0. /\ tracks' = tracks /\ blobs' = blobs /\ idCounter' = idCounter /\ serial' = serial
          /\ iterations' = iterations /\ stops' = stops /\ busy' = busy
          /\ n' = n /\ mask' = mask /\ rowMask' = rowMask /\ colMask' = colMask /\ step' = step
          /\ save' = save
      BY <2>6 DEF TrackVars, trackerVars, munkresVars
    <3>1. TrackType' /\ Ages'
      BY <3>0 DEF TrackInv, TrackType, Ages, Uncounted
    <3>2. BlobsTracked'
      BY <3>0, OneEachNow, IdsStay
    <3>3. Cells' = Cells /\ Indices' = Indices /\ Starred' = Starred /\ Primed' = Primed
      BY <3>0 DEF Cells, Indices, Starred, Primed
    <3>4. MaskInv => MaskInv'
      <4>1. MaskType => MaskType'
        BY <3>0, <3>3 DEF MaskType
      <4>2. StarsApart /\ PrimesApart /\ NoLoop => StarsApart' /\ PrimesApart' /\ NoLoop'
        BY <3>3 DEF StarsApart, PrimesApart, NoLoop, Crosses
      <4>3. (Blank => Blank') /\ (Covered => Covered')
        BY <3>0, <3>3 DEF Blank, Covered
      <4> QED
        BY <3>0, <3>3, <4>1, <4>2, <4>3 DEF MaskInv
    <3> QED
      BY <3>0, <3>1, <3>2, <3>4 DEF TrackInv
  <2> QED
    BY <2>1, <2>2, <2>3, <2>4, <2>5, <2>6 DEF Next
<1> QED
  BY <1>1, TrackInvInit, PTL DEF TrackSpec

(* matchBlobs() loses no blob and gives none away twice: after each frame every *)
(* blob is the last measurement of just one track, and ids name one track       *)
(* each.                                                                      *)
THEOREM BlobsAlwaysTracked == TrackSpec => []BlobsTracked
<1>1. TrackInv => BlobsTracked
  BY DEF TrackInv
<1> QED
  BY <1>1, TrackerSound, PTL

(* notMatched() lets no track die before dieThreshold frames without it, but   *)
(* for the frames the detector has not counted.                               *)
THEOREM TracksDieInTime == TrackSpec => []DiesInTime
<1>1. TrackInv => DiesInTime
  BY DEF TrackInv, Ages, DiesInTime
<1> QED
  BY <1>1, TrackerSound, PTL

-----------------------------------------------------------------------------
(* Sums.  A set of subsets that has each set all of whose parts, one element   *)
(* less, it has, has them all.                                                *)
LEMMA SubsetInduct ==
    ASSUME NEW D, IsFiniteSet(D), NEW T, {} \in T,
           \A S \in SUBSET D : S # {} /\ (\A y \in S : S \ {y} \in T) => S \in T
    PROVE  SUBSET D \subseteq T
<1> DEFINE N == {c \in Nat : \A S \in SUBSET D : Cardinality(S) = c => S \in T}
<1>f. ASSUME NEW S \in SUBSET D PROVE IsFiniteSet(S) /\ Cardinality(S) \in Nat
  BY FS_Subset, FS_CardinalityType
<1>1. 0 \in N
  <2> SUFFICES ASSUME NEW S \in SUBSET D, Cardinality(S) = 0 PROVE S \in T
    OBVIOUS
  <2>1. S = {}
    BY <1>f, FS_EmptySet
  <2> QED
    BY <2>1
<1>2. ASSUME NEW c \in N PROVE c + 1 \in N
  <2> SUFFICES ASSUME NEW S \in SUBSET D, Cardinality(S) = c + 1 PROVE S \in T
    OBVIOUS
  <2>1. S # {}
    <3>1. c + 1 # 0
      OBVIOUS
    <3> HIDE DEF N
    <3> QED
      BY <3>1, FS_EmptySet
  <2>2. ASSUME NEW y \in S PROVE S \ {y} \in T
    <3>1. Cardinality(S \ {y}) = c
      BY <1>f, FS_RemoveElement
    <3> QED
      BY <3>1
  <2> QED
    BY <2>1, <2>2
<1>3. N = Nat
  <2>1. N \in SUBSET Nat
    OBVIOUS
  <2> HIDE DEF N
  <2> QED
    BY <1>1, <1>2, <2>1, Induct
<1>4. ASSUME NEW S \in SUBSET D PROVE S \in T
  <2>1. Cardinality(S) \in N
    BY <1>3, <1>f
  <2> QED
    BY <2>1
<1> QED
  BY <1>4

(* F gives the sums of f over the subsets of D.                               *)
First(S) == CHOOSE x \in S : TRUE
Summing(f, F) == F = [s \in SUBSET DOMAIN f |-> IF s = {} THEN 0
                        ELSE f[CHOOSE x \in s : TRUE] + F[s \ {CHOOSE x \in s : TRUE}]]
Adds(D, f, F) ==
    /\ F \in [SUBSET D -> Int] /\ F[{}] = 0
    /\ \A S \in SUBSET D : \A y \in S : F[S] = f[y] + F[S \ {y}]

Unfolds(D, f, F) ==
    /\ F \in [SUBSET D -> Int] /\ F[{}] = 0
    /\ \A S \in SUBSET D : S # {} => F[S] = f[First(S)] + F[S \ {First(S)}]

LEMMA SumsExist ==
    ASSUME NEW D, IsFiniteSet(D), NEW f \in [D -> Int]
    PROVE  \E F : Unfolds(D, f, F)
<1> DEFINE Body(F, S) == IF S = {} THEN 0 ELSE f[First(S)] + F[S \ {First(S)}]
           Upto(F, c) == \A S \in SUBSET D : Cardinality(S) <= c => F[S] = Body(F, S)
           N == {c \in Nat : \E F \in [SUBSET D -> Int] : Upto(F, c)}
<1>f. ASSUME NEW S \in SUBSET D
      PROVE  /\ IsFiniteSet(S) /\ Cardinality(S) \in Nat /\ Cardinality(S) <= Cardinality(D)
             /\ S # {} => /\ First(S) \in S /\ S \ {First(S)} \in SUBSET D
                          /\ Cardinality(S \ {First(S)}) = Cardinality(S) - 1
             /\ Cardinality(S) = 0 <=> S = {}
  <2>1. IsFiniteSet(S) /\ Cardinality(S) \in Nat /\ Cardinality(S) <= Cardinality(D)
    BY FS_Subset, FS_CardinalityType
  <2>2. S # {} => First(S) \in S
    BY DEF First
  <2>3. S # {} => Cardinality(S \ {First(S)}) = Cardinality(S) - 1
    BY <2>1, <2>2, FS_RemoveElement
  <2>4. Cardinality(S) = 0 <=> S = {}
    BY <2>1, FS_EmptySet
  <2> QED
    BY <2>1, <2>2, <2>3, <2>4
<1>b. ASSUME NEW F \in [SUBSET D -> Int], NEW S \in SUBSET D PROVE Body(F, S) \in Int
  <2>1. CASE S # {}
    <3>1. f[First(S)] \in Int /\ F[S \ {First(S)}] \in Int
      BY <1>f, <2>1
    <3> QED
      BY <2>1, <3>1
  <2> QED
    BY <2>1
<1>1. 0 \in N
  <2> DEFINE Z == [S \in SUBSET D |-> 0]
  <2>1. Z \in [SUBSET D -> Int]
    OBVIOUS
  <2>2. ASSUME NEW S \in SUBSET D, Cardinality(S) <= 0 PROVE Z[S] = Body(Z, S)
    <3>1. Cardinality(S) \in Nat /\ (Cardinality(S) = 0 <=> S = {})
      BY <1>f
    <3>2. Cardinality(S) = 0
      BY <2>2, <3>1
    <3>3. S = {}
      BY <3>1, <3>2
    <3> QED
      BY <3>3
  <2> QED
    BY <2>1, <2>2
<1>2. ASSUME NEW c \in N PROVE c + 1 \in N
  <2>1. PICK F \in [SUBSET D -> Int] : Upto(F, c)
    OBVIOUS
  <2> DEFINE G == [S \in SUBSET D |-> IF Cardinality(S) <= c THEN F[S] ELSE Body(F, S)]
  <2>2. G \in [SUBSET D -> Int]
    BY <1>b
  <2>3. ASSUME NEW S \in SUBSET D, Cardinality(S) <= c + 1 PROVE G[S] = Body(G, S)
    <3>1. G[S] = Body(F, S)
      BY <2>1
    <3>2. CASE S = {}
      BY <3>1, <3>2
    <3>3. CASE S # {}
      <4>1. S \ {First(S)} \in SUBSET D /\ Cardinality(S \ {First(S)}) <= c
        BY <1>f, <2>3, <3>3
      <4>2. G[S \ {First(S)}] = F[S \ {First(S)}]
        BY <4>1
      <4> QED
        BY <3>1, <3>3, <4>2
    <3> QED
      BY <3>2, <3>3
  <2>4. Upto(G, c + 1)
    <3> HIDE DEF G, Body
    <3> QED
      BY <2>3
  <2>5. \E H \in [SUBSET D -> Int] : Upto(H, c + 1)
    <3> HIDE DEF G, Upto
    <3> QED
      BY <2>2, <2>4
  <2>6. c + 1 \in Nat
    OBVIOUS
  <2> HIDE DEF Upto
  <2> QED
    BY <2>5, <2>6
<1>3. N = Nat
  <2>1. N \in SUBSET Nat
    OBVIOUS
  <2> HIDE DEF N
  <2> QED
    BY <1>1, <1>2, <2>1, Induct
<1>4. Cardinality(D) \in N
  BY <1>3, FS_CardinalityType
<1>5. PICK F \in [SUBSET D -> Int] : Upto(F, Cardinality(D))
  <2> HIDE DEF Upto
  <2> QED
    BY <1>4
<1>6. \A S \in SUBSET D : F[S] = Body(F, S)
  BY <1>f, <1>5
<1>7. F[{}] = 0
  <2>1. {} \in SUBSET D
    OBVIOUS
  <2> QED
    BY <1>6, <2>1
<1>8. \A S \in SUBSET D : S # {} => F[S] = f[First(S)] + F[S \ {First(S)}]
  BY <1>6
<1> QED
  BY <1>7, <1>8 DEF Unfolds

(* It does not matter which element is taken first.                           *)
LEMMA SumsAdd ==
    ASSUME NEW D, IsFiniteSet(D), NEW f \in [D -> Int], NEW F, Unfolds(D, f, F)
    PROVE  Adds(D, f, F)
<1>0. /\ F \in [SUBSET D -> Int] /\ F[{}] = 0
      /\ \A S \in SUBSET D : S # {} => F[S] = f[First(S)] + F[S \ {First(S)}]
  BY DEF Unfolds
<1> DEFINE Any(S) == \A y \in S : F[S] = f[y] + F[S \ {y}]
           T == {S \in SUBSET D : Any(S)}
<1>1. {} \in T
  OBVIOUS
<1>2. ASSUME NEW S \in SUBSET D, S # {}, \A y \in S : S \ {y} \in T PROVE S \in T
  <2> SUFFICES ASSUME NEW y \in S PROVE F[S] = f[y] + F[S \ {y}]
    OBVIOUS
  <2>1. PICK x \in S : x = First(S)
    BY <1>2 DEF First
  <2>2. F[S] = f[x] + F[S \ {x}]
    BY <1>0, <1>2, <2>1
  <2>3. CASE x = y
    BY <2>2, <2>3
  <2>4. CASE x # y
    <3>1. F[S \ {x}] = f[y] + F[(S \ {x}) \ {y}]
      <4>1. Any(S \ {x}) /\ y \in S \ {x}
        BY <1>2, <2>4
      <4> QED
        BY <4>1
    <3>2. F[S \ {y}] = f[x] + F[(S \ {y}) \ {x}]
      <4>1. Any(S \ {y}) /\ x \in S \ {y}
        BY <1>2, <2>4
      <4> QED
        BY <4>1
    <3>3. (S \ {y}) \ {x} = (S \ {x}) \ {y}
      OBVIOUS
    <3>4. PICK r : r = (S \ {x}) \ {y}
      OBVIOUS
    <3>5. F[S] = f[x] + F[S \ {x}] /\ F[S \ {x}] = f[y] + F[r] /\ F[S \ {y}] = f[x] + F[r]
      BY <2>2, <3>1, <3>2, <3>3, <3>4
    <3>6. f[x] \in Int /\ f[y] \in Int /\ F[r] \in Int
      BY <1>0, <3>4
    <3> QED
      BY <3>5, <3>6
  <2> QED
    BY <2>3, <2>4
<1>3. SUBSET D \subseteq T
  <2> HIDE DEF T
  <2> QED
    BY <1>1, <1>2, SubsetInduct
<1> QED
  BY <1>0, <1>3 DEF Adds

LEMMA SumOf ==
    ASSUME NEW D, IsFiniteSet(D), NEW f \in [D -> Int]
    PROVE  \E F : Adds(D, f, F) /\ SumFunction(f) = F[D]
<1>0. DOMAIN f = D
  OBVIOUS
<1>a. PICK F : Unfolds(D, f, F)
  BY SumsExist
<1>1. /\ F \in [SUBSET D -> Int] /\ F[{}] = 0
      /\ \A S \in SUBSET D : S # {} => F[S] = f[First(S)] + F[S \ {First(S)}]
  BY <1>a DEF Unfolds
<1>2. Summing(f, F)
  <2>1. \A S \in SUBSET D : F[S] = IF S = {} THEN 0 ELSE f[First(S)] + F[S \ {First(S)}]
    BY <1>1
  <2>2. F = [S \in SUBSET D |-> F[S]]
    BY <1>1
  <2>3. F = [S \in SUBSET D |-> IF S = {} THEN 0 ELSE f[First(S)] + F[S \ {First(S)}]]
    BY <2>1, <2>2
  <2> QED
    BY <1>0, <2>3 DEF Summing, First
<1> DEFINE G == CHOOSE H : Summing(f, H)
<1>3. Summing(f, G)
  BY <1>2, Zenon
<1>4. SumFunction(f) = G[D]
  <2>1. SumFunction(f) = G[DOMAIN f]
    BY Zenon DEF SumFunction, SumFunctionOnSet, FoldFunctionOnSet, MapThenFoldSet, Summing
  <2> QED
    BY <1>0, <2>1
<1> HIDE DEF G
<1>5. \A S \in SUBSET D : G[S] = IF S = {} THEN 0 ELSE f[First(S)] + G[S \ {First(S)}]
  BY <1>0, <1>3 DEF Summing, First
<1>6. DOMAIN G = SUBSET D /\ G = [S \in SUBSET D |-> G[S]]
  BY <1>0, <1>3 DEF Summing
<1>7. \A S \in SUBSET D : G[S] = F[S]
  <2> DEFINE T == {S \in SUBSET D : G[S] = F[S]}
  <2>1. {} \in T
    BY <1>1, <1>5
  <2>2. ASSUME NEW S \in SUBSET D, S # {}, \A y \in S : S \ {y} \in T PROVE S \in T
    <3>1. First(S) \in S
      BY <2>2 DEF First
    <3>2. G[S \ {First(S)}] = F[S \ {First(S)}]
      BY <2>2, <3>1
    <3> QED
      BY <1>1, <1>5, <2>2, <3>2
  <2>3. SUBSET D \subseteq T
    <3> HIDE DEF T
    <3> QED
      BY <2>1, <2>2, SubsetInduct
  <2> QED
    BY <2>3
<1>8. G = F
  <2>1. F = [S \in SUBSET D |-> F[S]]
    BY <1>1
  <2>2. [S \in SUBSET D |-> F[S]] = [S \in SUBSET D |-> G[S]]
    BY <1>7
  <2> QED
    BY <1>6, <2>1, <2>2
<1>9. Adds(D, f, F)
  BY <1>a, SumsAdd
<1> QED
  BY <1>4, <1>8, <1>9

(* A sum of smaller numbers is smaller.                                       *)
LEMMA SumLe ==
    ASSUME NEW D, IsFiniteSet(D), NEW f \in [D -> Int], NEW g \in [D -> Int], \A i \in D : f[i] <= g[i],
           NEW F, Adds(D, f, F), NEW G, Adds(D, g, G)
    PROVE  F[D] <= G[D]
<1> DEFINE T == {S \in SUBSET D : F[S] <= G[S]}
<1>0. F \in [SUBSET D -> Int] /\ G \in [SUBSET D -> Int]
  BY DEF Adds
<1>1. {} \in T
  BY DEF Adds
<1>2. ASSUME NEW S \in SUBSET D, S # {}, \A y \in S : S \ {y} \in T PROVE S \in T
  <2>1. PICK x \in S : TRUE
    BY <1>2
  <2>2. F[S] = f[x] + F[S \ {x}] /\ G[S] = g[x] + G[S \ {x}]
    BY <2>1 DEF Adds
  <2>3. F[S \ {x}] <= G[S \ {x}]
    BY <1>2, <2>1
  <2>4. PICK r \in SUBSET D : r = S \ {x}
    OBVIOUS
  <2>5. F[r] \in Int /\ G[r] \in Int /\ f[x] \in Int /\ g[x] \in Int /\ f[x] <= g[x]
    BY <1>0
  <2>6. F[S] <= G[S]
    BY <2>2, <2>3, <2>4, <2>5
  <2> QED
    BY <2>6
<1>3. SUBSET D \subseteq T
  <2> HIDE DEF T
  <2> QED
    BY <1>1, <1>2, SubsetInduct
<1> QED
  BY <1>3

(* Sums of a part that goes with the row and one that goes with the column.   *)
Images(p, S) == {p[i] : i \in S}

LEMMA SumSplit ==
    ASSUME NEW D, IsFiniteSet(D), NEW u \in [D -> Int], NEW v \in [D -> Int],
           NEW p \in [D -> D], \A i, j \in D : i # j => p[i] # p[j],
           NEW f \in [D -> Int], \A i \in D : f[i] = u[i] + v[p[i]],
           NEW F, Adds(D, f, F), NEW U, Adds(D, u, U), NEW V, Adds(D, v, V)
    PROVE  F[D] = U[D] + V[Images(p, D)]
<1> DEFINE T == {S \in SUBSET D : F[S] = U[S] + V[Images(p, S)]}
<1>0. F \in [SUBSET D -> Int] /\ U \in [SUBSET D -> Int] /\ V \in [SUBSET D -> Int]
  BY DEF Adds
<1>i. \A S \in SUBSET D : Images(p, S) \in SUBSET D
  BY DEF Images
<1>1. {} \in T
  <2>1. Images(p, {}) = {}
    BY DEF Images
  <2>2. F[{}] = 0 /\ U[{}] = 0 /\ V[Images(p, {})] = 0
    BY <2>1 DEF Adds
  <2>3. F[{}] = U[{}] + V[Images(p, {})]
    BY <2>2
  <2> QED
    BY <2>3
<1>2. ASSUME NEW S \in SUBSET D, S # {}, \A y \in S : S \ {y} \in T PROVE S \in T
  <2>1. PICK x \in S : TRUE
    BY <1>2
  <2>2. F[S] = f[x] + F[S \ {x}] /\ U[S] = u[x] + U[S \ {x}]
    BY <2>1 DEF Adds
  <2>3. p[x] \in Images(p, S)
    BY <2>1 DEF Images
  <2>4. V[Images(p, S)] = v[p[x]] + V[Images(p, S) \ {p[x]}]
    BY <1>i, <2>3 DEF Adds
  <2>5. Images(p, S) \ {p[x]} = Images(p, S \ {x})
    BY DEF Images
  <2>6. F[S \ {x}] = U[S \ {x}] + V[Images(p, S \ {x})]
    BY <1>2, <2>1
  <2>7. f[x] = u[x] + v[p[x]] /\ u[x] \in Int /\ v[p[x]] \in Int
    OBVIOUS
  <2>8. U[S \ {x}] \in Int /\ V[Images(p, S \ {x})] \in Int
    <3>1. S \ {x} \in SUBSET D
      OBVIOUS
    <3> QED
      BY <1>0, <1>i, <3>1
  <2>9. PICK a, b : a = U[S \ {x}] /\ b = V[Images(p, S \ {x})]
    OBVIOUS
  <2>10. F[S] = (u[x] + v[p[x]]) + (a + b) /\ U[S] = u[x] + a /\ V[Images(p, S)] = v[p[x]] + b
    BY <2>2, <2>4, <2>5, <2>6, <2>7, <2>9
  <2>11. a \in Int /\ b \in Int
    BY <2>8, <2>9
  <2>12. F[S] = U[S] + V[Images(p, S)]
    BY <2>7, <2>10, <2>11
  <2> QED
    BY <2>12
<1>3. SUBSET D \subseteq T
  <2> HIDE DEF T
  <2> QED
    BY <1>1, <1>2, SubsetInduct
<1> QED
  BY <1>3

(* An assignment that gives no column to two rows gives each column.          *)
LEMMA ImagesAll ==
    ASSUME NEW D, IsFiniteSet(D), NEW p \in [D -> D], \A i, j \in D : i # j => p[i] # p[j]
    PROVE  Images(p, D) = D
<1>1. p \in Injection(D, D)
  BY DEF Injection, IsInjective
<1>2. p \in Surjection(D, D)
  BY <1>1, FS_Injection
<1> QED
  BY <1>2 DEF Surjection, Images

(* The least and the greatest of a finite set of integers.                    *)
LEMMA Extremes ==
    ASSUME NEW D \in SUBSET Int, IsFiniteSet(D), D # {}
    PROVE  /\ Min(D) \in D /\ \A y \in D : Min(D) <= y
           /\ Max(D) \in D /\ \A y \in D : Max(D) >= y
<1> DEFINE Low(S) == \E x \in S : \A y \in S : x <= y
           High(S) == \E x \in S : \A y \in S : x >= y
           T == {S \in SUBSET D : S = {} \/ (Low(S) /\ High(S))}
<1>1. {} \in T
  OBVIOUS
<1>2. ASSUME NEW S \in SUBSET D, S # {}, \A y \in S : S \ {y} \in T PROVE S \in T
  <2>1. PICK x \in S : TRUE
    BY <1>2
  <2>2. CASE S \ {x} = {}
    <3>1. S = {x} /\ x \in Int
      BY <2>2
    <3>2. Low(S) /\ High(S)
      BY <3>1
    <3> QED
      BY <3>2
  <2>3. CASE S \ {x} # {}
    <3>1. Low(S \ {x}) /\ High(S \ {x})
      <4>1. S \ {x} \in T
        BY <1>2
      <4> HIDE DEF Low, High
      <4> QED
        BY <2>3, <4>1
    <3>2. PICK l \in S \ {x} : \A y \in S \ {x} : l <= y
      BY <3>1
    <3>3. PICK h \in S \ {x} : \A y \in S \ {x} : h >= y
      BY <3>1
    <3>4. l \in Int /\ h \in Int /\ x \in Int /\ S \subseteq Int
      OBVIOUS
    <3>5. Low(S)
      <4>1. CASE x <= l
        <5>1. \A y \in S : x <= y
          BY <3>2, <3>4, <4>1
        <5> QED
          BY <5>1
      <4>2. CASE l <= x
        <5>1. \A y \in S : l <= y
          BY <3>2, <3>4, <4>2
        <5> QED
          BY <5>1
      <4> QED
        BY <3>4, <4>1, <4>2
    <3>6. High(S)
      <4>1. CASE x >= h
        <5>1. \A y \in S : x >= y
          BY <3>3, <3>4, <4>1
        <5> QED
          BY <5>1
      <4>2. CASE h >= x
        <5>1. \A y \in S : h >= y
          BY <3>3, <3>4, <4>2
        <5> QED
          BY <5>1
      <4> QED
        BY <3>4, <4>1, <4>2
    <3> HIDE DEF Low, High
    <3> QED
      BY <3>5, <3>6
  <2> HIDE DEF T
  <2> QED
    BY <2>2, <2>3
<1>3. SUBSET D \subseteq T
  <2> HIDE DEF T
  <2> QED
    BY <1>1, <1>2, SubsetInduct
<1>4. Low(D) /\ High(D)
  <2>1. D \in T
    <3> HIDE DEF T
    <3> QED
      BY <1>3
  <2> HIDE DEF Low, High
  <2> QED
    BY <2>1
<1>5. Min(D) \in D /\ \A y \in D : Min(D) <= y
  BY <1>4 DEF Min
<1>6. Max(D) \in D /\ \A y \in D : Max(D) >= y
  BY <1>4 DEF Max
<1> QED
  BY <1>5, <1>6

LEMMA ImageFinite ==
    ASSUME NEW S, IsFiniteSet(S), NEW f, NEW T, T = {f[x] : x \in S}
    PROVE  IsFiniteSet(T)
<1> DEFINE g == [x \in S |-> f[x]]
<1>1. g \in Surjection(S, T)
  BY DEF Surjection
<1> QED
  BY <1>1, FS_Surjection

-----------------------------------------------------------------------------
(* What solve() keeps true of its costs: the matrix is the one given to it,   *)
(* but for an amount per row and one per column; stars and primes are zeros.  *)
(* While it looks for zeros, some row and some column have no star, and only  *)
(* rows and columns with a star are covered.                                  *)
RowStar(i) == \E z \in Starred : z[1] = i
ColStar(j) == \E z \in Starred : z[2] = j
CostType == cost \in [Cells -> Int] /\ matrix \in [Cells -> Int]
Reduced == \E u, v \in [Indices -> Int] : \A z \in Cells : cost[z] = matrix[z] + u[z[1]] + v[z[2]]
NotNegative == (\A z \in Cells : cost[z] >= 0) => \A z \in Cells : matrix[z] >= 0
OnZeros == \A z \in Starred \cup Primed : matrix[z] = 0
Incomplete == (\E i \in Indices : ~RowStar(i)) /\ (\E j \in Indices : ~ColStar(j))
StarsCover ==
    /\ \A z \in Primed : ~colMask[z[2]]
    /\ \A i \in Indices : rowMask[i] => RowStar(i)
    /\ \A j \in Indices : colMask[j] => ColStar(j)
CostInv ==
    /\ MaskInv
    /\ CostType
    /\ Reduced
    /\ NotNegative
    /\ OnZeros
    /\ step \in {3, 5} => StarsCover /\ Incomplete
    /\ step = 0 => Cardinality(Starred) = n

LEMMA StarsCount ==
    ASSUME MaskInv
    PROVE  /\ Cardinality(Starred) \in Nat /\ Cardinality(Starred) <= n
           /\ Cardinality(Starred) = n <=> \A i \in Indices : RowStar(i)
           /\ Cardinality(Starred) = n <=> \A j \in Indices : ColStar(j)
<1> DEFINE r == [z \in Starred |-> z[1]]
           c == [z \in Starred |-> z[2]]
<1>0. n \in Nat /\ IsFiniteSet(Indices) /\ Cardinality(Indices) = n
  <2>1. n \in Nat
    BY DEF MaskInv, MaskType
  <2>2. IsFiniteSet(0 .. n - 1) /\ Cardinality(0 .. n - 1) = IF 0 > n - 1 THEN 0 ELSE (n - 1) - 0 + 1
    BY <2>1, FS_Interval
  <2>3. (IF 0 > n - 1 THEN 0 ELSE (n - 1) - 0 + 1) = n
    BY <2>1
  <2> QED
    BY <2>1, <2>2, <2>3 DEF Indices
<1>1. \A z \in Starred : z[1] \in Indices /\ z[2] \in Indices
  BY CellParts DEF Starred
<1>2. r \in Injection(Starred, Indices)
  BY <1>1 DEF Injection, IsInjective, MaskInv, StarsApart, Crosses
<1>3. c \in Injection(Starred, Indices)
  BY <1>1 DEF Injection, IsInjective, MaskInv, StarsApart, Crosses
<1>4. /\ IsFiniteSet(Starred) /\ Cardinality(Starred) <= n
      /\ Cardinality(Starred) = n <=> r \in Surjection(Starred, Indices)
      /\ Cardinality(Starred) = n <=> c \in Surjection(Starred, Indices)
  <2> HIDE DEF r, c
  <2> QED
    BY <1>0, <1>2, <1>3, FS_Injection
<1>5. r \in Surjection(Starred, Indices) <=> \A i \in Indices : RowStar(i)
  BY <1>1 DEF Surjection, RowStar
<1>6. c \in Surjection(Starred, Indices) <=> \A j \in Indices : ColStar(j)
  BY <1>1 DEF Surjection, ColStar
<1>7. Cardinality(Starred) \in Nat
  BY <1>4, FS_CardinalityType
<1> QED
  BY <1>4, <1>5, <1>6, <1>7

(* Most steps change neither the matrix nor what it was.                      *)
LEMMA CostsStay ==
    ASSUME CostInv, n' = n, cost' = cost, matrix' = matrix
    PROVE  CostType' /\ Reduced' /\ NotNegative' /\ Cells' = Cells /\ Indices' = Indices
<1>1. Cells' = Cells /\ Indices' = Indices
  BY DEF Cells, Indices
<1>2. CostType' /\ NotNegative'
  BY <1>1 DEF CostInv, CostType, NotNegative
<1>3. Reduced'
  BY <1>1 DEF CostInv, Reduced
<1> QED
  BY <1>1, <1>2, <1>3

LEMMA CostStep1 == ASSUME CostInv, Step1 PROVE CostInv'
<1>0. MaskInv /\ n \in Nat /\ n' = n /\ cost' = cost /\ matrix' = matrix /\ step = 1 /\ step' = 2
  BY DEF CostInv, MaskInv, MaskType, Step1
<1>1. MaskInv'
  BY <1>0, KeepStep1
<1>2. CostType' /\ Reduced' /\ NotNegative' /\ Cells' = Cells
  BY <1>0, CostsStay
<1>3. \A z \in Cells : mask'[z] = IF z \in Greedy THEN "star" ELSE "normal"
  BY <1>0 DEF MaskInv, Step1
<1>4. \A z \in Greedy : matrix[z] = 0
  BY <1>0, GreedyApart
<1>5. \A z \in Starred' \cup Primed' : z \in Greedy
  BY <1>2, <1>3 DEF Starred, Primed
<1>6. OnZeros'
  BY <1>0, <1>4, <1>5 DEF OnZeros
<1> QED
  BY <1>0, <1>1, <1>2, <1>6 DEF CostInv

LEMMA CostStep2 == ASSUME CostInv, Step2 PROVE CostInv'
<1>0. /\ MaskInv /\ n \in Nat /\ n' = n /\ cost' = cost /\ matrix' = matrix /\ mask' = mask
      /\ rowMask' = rowMask /\ step = 2
  BY DEF CostInv, MaskInv, MaskType, Step2
<1>1. MaskInv'
  BY <1>0, KeepStep2
<1>2. CostType' /\ Reduced' /\ NotNegative' /\ Cells' = Cells /\ Indices' = Indices
  BY <1>0, CostsStay
<1>3. Starred' = Starred /\ Primed' = Primed /\ Primed = {} /\ Blank
  BY <1>0, <1>2 DEF Starred, Primed, MaskInv
<1>4. OnZeros'
  BY <1>0, <1>3 DEF CostInv, OnZeros
<1>5. CASE Cardinality(Starred) >= n
  <2>1. step' = 0
    BY <1>5 DEF Step2, Enough
  <2>2. Cardinality(Starred) = n
    BY <1>0, <1>5, StarsCount
  <2>3. Cardinality(Starred)' = n'
    BY <1>0, <1>3, <2>2
  <2> QED
    BY <1>1, <1>2, <1>4, <2>1, <2>3 DEF CostInv
<1>6. CASE ~(Cardinality(Starred) >= n)
  <2>1. step' = 3
    BY <1>6 DEF Step2, Enough
  <2>2. Cardinality(Starred) # n
    BY <1>0, <1>6, StarsCount
  <2>3. Incomplete
    BY <1>0, <2>2, StarsCount DEF Incomplete
  <2>4. (\A i : RowStar(i)' = RowStar(i)) /\ (\A i : ColStar(i)' = ColStar(i))
    BY <1>3 DEF RowStar, ColStar
  <2>5. Incomplete'
    BY <1>2, <2>3, <2>4 DEF Incomplete
  <2>6. \A i \in Indices : ~rowMask'[i]
    BY <1>0, <1>3 DEF Blank
  <2>7. \A j \in Indices : colMask'[j] => ColStar(j)
    BY <1>3 DEF Step2, Blank, ColStar
  <2>8. StarsCover'
    BY <1>2, <1>3, <2>4, <2>6, <2>7 DEF StarsCover
  <2> QED
    BY <1>1, <1>2, <1>4, <2>1, <2>5, <2>8 DEF CostInv
<1> QED
  BY <1>5, <1>6

LEMMA CostStep3None == ASSUME CostInv, Step3None PROVE CostInv'
<1>0. /\ MaskInv /\ n' = n /\ cost' = cost /\ matrix' = matrix /\ mask' = mask
      /\ rowMask' = rowMask /\ colMask' = colMask /\ step = 3 /\ step' = 5
  BY DEF CostInv, Step3None
<1>1. MaskInv'
  BY <1>0, KeepStep5
<1>2. CostType' /\ Reduced' /\ NotNegative' /\ Cells' = Cells /\ Indices' = Indices
  BY <1>0, CostsStay
<1>3. Starred' = Starred /\ Primed' = Primed
  BY <1>0, <1>2 DEF Starred, Primed
<1>4. OnZeros'
  BY <1>0, <1>3 DEF CostInv, OnZeros
<1>5. StarsCover' /\ Incomplete'
  BY <1>0, <1>2, <1>3 DEF CostInv, StarsCover, Incomplete, RowStar, ColStar
<1> QED
  BY <1>0, <1>1, <1>2, <1>4, <1>5 DEF CostInv

LEMMA CostStep4 == ASSUME CostInv, Step4 PROVE CostInv'
<1>0. MaskInv /\ n' = n /\ cost' = cost /\ matrix' = matrix /\ step = 4 /\ step' = 2
  BY DEF CostInv, Step4
<1>1. MaskInv'
  BY <1>0, KeepStep4
<1>2. CostType' /\ Reduced' /\ NotNegative' /\ Cells' = Cells
  BY <1>0, CostsStay
<1>3. \A z \in Cells : mask'[z] = IF z \in Flipped(Path) THEN "star" ELSE "normal"
  BY DEF Step4
<1>4. Flipped(Path) \in SUBSET Cells
  BY <1>0, FlippedApart
<1>5. Flipped(Path) \subseteq Starred \cup Primed
  BY <1>4 DEF Flipped, Primed
<1>6. \A z \in Starred' \cup Primed' : z \in Flipped(Path)
  BY <1>2, <1>3 DEF Starred, Primed
<1>7. OnZeros'
  BY <1>0, <1>5, <1>6 DEF CostInv, OnZeros
<1> QED
  BY <1>0, <1>1, <1>2, <1>7 DEF CostInv

LEMMA CostStep3 == ASSUME CostInv, Step3Prime PROVE CostInv'
<1> DEFINE z == CHOOSE y \in Zeros : \A x \in Zeros : ~Before(x, y)
           stars == {y \in Starred : y[1] = z[1] /\ y # z}
<1>0. /\ MaskInv /\ n \in Nat /\ n' = n /\ cost' = cost /\ matrix' = matrix /\ step = 3
      /\ Zeros # {} /\ Covered /\ StarsCover /\ Incomplete
  BY DEF CostInv, MaskInv, MaskType, Step3Prime
<1>1. MaskInv'
  BY <1>0, KeepStep3
<1>2. CostType' /\ Reduced' /\ NotNegative' /\ Cells' = Cells /\ Indices' = Indices
  BY <1>0, CostsStay
<1>3. z \in Zeros
  <2>1. Zeros \in SUBSET ((0 .. n - 1) \X (0 .. n - 1))
    BY DEF Zeros, Uncovered, Cells, Indices
  <2>2. \E y \in Zeros : \A x \in Zeros : ~Before(x, y)
    BY <1>0, <2>1, FirstCell
  <2> QED
    BY <2>2
<1>4. /\ mask' = [mask EXCEPT ![z] = "prime"]
      /\ IF stars # {}
         THEN /\ rowMask' = [rowMask EXCEPT ![z[1]] = TRUE]
              /\ colMask' = [c \in Indices |-> colMask[c] /\ \A y \in stars : y[2] # c]
              /\ step' = 3
         ELSE step' = 4 /\ rowMask' = rowMask /\ colMask' = colMask
  BY DEF Step3Prime, CoverRow
<1>5. PICK w \in Zeros : w = z
  BY <1>3
<1>6. stars = {y \in Starred : y[1] = w[1] /\ y # w}
  BY <1>5
<1>7. /\ mask' = [mask EXCEPT ![w] = "prime"]
      /\ IF stars # {}
         THEN /\ rowMask' = [rowMask EXCEPT ![w[1]] = TRUE]
              /\ colMask' = [c \in Indices |-> colMask[c] /\ \A y \in stars : y[2] # c]
              /\ step' = 3
         ELSE step' = 4 /\ rowMask' = rowMask /\ colMask' = colMask
  BY <1>4, <1>5
<1> HIDE DEF z, stars
<1>8. w \in Uncovered /\ matrix[w] = 0
  BY DEF Zeros
<1>9. Starred' = Starred /\ Primed' = Primed \cup {w}
  BY <1>0, <1>7, <1>8, NewPrime
<1>10. OnZeros'
  BY <1>0, <1>8, <1>9 DEF CostInv, OnZeros
<1>11. CASE stars = {}
  <2>1. step' = 4
    BY <1>7, <1>11
  <2> QED
    BY <1>1, <1>2, <1>10, <2>1 DEF CostInv
<1>12. CASE stars # {}
  <2>1. /\ rowMask' = [rowMask EXCEPT ![w[1]] = TRUE]
        /\ colMask' = [c \in Indices |-> colMask[c] /\ \A y \in stars : y[2] # c]
        /\ step' = 3
    BY <1>7, <1>12
  <2>2. RowStar(w[1])
    BY <1>6, <1>12 DEF RowStar
  <2>3. (\A i : RowStar(i)' = RowStar(i)) /\ (\A i : ColStar(i)' = ColStar(i))
    BY <1>9 DEF RowStar, ColStar
  <2>4. Incomplete'
    BY <1>0, <1>2, <2>3 DEF Incomplete
  <2>5. \A j \in Indices : colMask'[j] => colMask[j]
    BY <2>1
  <2>6. \A y \in Primed \cup {w} : y[2] \in Indices /\ ~colMask[y[2]]
    BY <1>0, <1>8, CellParts DEF StarsCover, Primed, Uncovered
  <2>7. \A y \in Primed \cup {w} : ~colMask'[y[2]]
    BY <2>5, <2>6
  <2>8. \A j \in Indices : colMask'[j] => ColStar(j)
    BY <1>0, <2>5 DEF StarsCover
  <2>9. \A i \in Indices : rowMask'[i] => i = w[1] \/ rowMask[i]
    <3>1. rowMask \in [Indices -> BOOLEAN]
      BY <1>0 DEF MaskInv, MaskType
    <3> QED
      BY <2>1, <3>1
  <2>10. \A i \in Indices : rowMask'[i] => RowStar(i)
    BY <1>0, <2>2, <2>9 DEF StarsCover
  <2>11. StarsCover'
    BY <1>2, <1>9, <2>3, <2>7, <2>8, <2>10 DEF StarsCover
  <2> QED
    BY <1>1, <1>2, <1>10, <2>1, <2>4, <2>11 DEF CostInv
<1> QED
  BY <1>11, <1>12

(* step5() finds an uncovered cell: there are fewer stars than rows.          *)
LEMMA SmallestExists ==
    ASSUME CostInv, step = 5
    PROVE  /\ SmallestUncovered \in Int
           /\ \E z \in Uncovered : SmallestUncovered = matrix[z]
           /\ \A z \in Uncovered : SmallestUncovered <= matrix[z]
<1> DEFINE D == {matrix[z] : z \in Uncovered}
<1>0. MaskInv /\ n \in Nat /\ StarsCover /\ Incomplete /\ matrix \in [Cells -> Int]
  BY DEF CostInv, CostType, MaskInv, MaskType
<1>1. Uncovered # {}
  <2>1. PICK i \in Indices : ~RowStar(i)
    BY <1>0 DEF Incomplete
  <2>2. PICK j \in Indices : ~ColStar(j)
    BY <1>0 DEF Incomplete
  <2>3. ~rowMask[i] /\ ~colMask[j]
    BY <1>0, <2>1, <2>2 DEF StarsCover
  <2>4. <<i, j>> \in Uncovered
    BY <2>3 DEF Uncovered, Cells
  <2> QED
    BY <2>4
<1>2. IsFiniteSet(Uncovered)
  <2>1. IsFiniteSet(Indices)
    BY <1>0, FS_Interval DEF Indices
  <2>2. IsFiniteSet(Cells)
    BY <2>1, FS_Product DEF Cells
  <2>3. Uncovered \in SUBSET Cells
    BY DEF Uncovered
  <2> QED
    BY <2>2, <2>3, FS_Subset
<1>3. IsFiniteSet(D)
  <2>1. D = {matrix[z] : z \in Uncovered}
    OBVIOUS
  <2> QED
    BY <1>2, <2>1, ImageFinite
<1>4. D \in SUBSET Int /\ D # {}
  BY <1>0, <1>1 DEF Uncovered
<1>5. Min(D) \in D /\ \A y \in D : Min(D) <= y
  <2> HIDE DEF D
  <2> QED
    BY <1>3, <1>4, Extremes
<1>6. SmallestUncovered = Min(D)
  BY DEF SmallestUncovered
<1>7. SmallestUncovered \in D /\ \A y \in D : SmallestUncovered <= y
  BY <1>5, <1>6
<1> QED
  BY <1>4, <1>7

LEMMA CostStep5 == ASSUME CostInv, Step5 PROVE CostInv'
<1>0. /\ MaskInv /\ n' = n /\ cost' = cost /\ mask' = mask
      /\ rowMask' = rowMask /\ colMask' = colMask /\ step = 5 /\ step' = 3
      /\ Covered /\ StarsCover /\ Incomplete
  BY DEF CostInv, MaskInv, Step5
<1>1. MaskInv'
  BY <1>0, KeepStep5
<1>2. Cells' = Cells /\ Indices' = Indices /\ Starred' = Starred /\ Primed' = Primed
  BY <1>0 DEF Cells, Indices, Starred, Primed
<1>3. PICK h \in Int : /\ h = SmallestUncovered
                       /\ \E z \in Uncovered : h = matrix[z]
                       /\ \A z \in Uncovered : h <= matrix[z]
  BY <1>0, SmallestExists
<1>4. matrix' = [z \in Cells |-> matrix[z] + (IF rowMask[z[1]] THEN h ELSE 0)
                                           - (IF colMask[z[2]] THEN 0 ELSE h)]
  BY <1>3 DEF Step5
<1>5. \A z \in Cells : /\ matrix[z] \in Int /\ cost[z] \in Int /\ z[1] \in Indices /\ z[2] \in Indices
                       /\ rowMask[z[1]] \in BOOLEAN /\ colMask[z[2]] \in BOOLEAN
  BY <1>0, CellParts DEF CostInv, CostType, MaskInv, MaskType
<1>6. ASSUME NEW z \in Cells
      PROVE  /\ rowMask[z[1]] /\ colMask[z[2]] => matrix'[z] = matrix[z] + h
             /\ rowMask[z[1]] /\ ~colMask[z[2]] => matrix'[z] = matrix[z]
             /\ ~rowMask[z[1]] /\ colMask[z[2]] => matrix'[z] = matrix[z]
             /\ ~rowMask[z[1]] /\ ~colMask[z[2]] => matrix'[z] = matrix[z] - h
             /\ matrix'[z] \in Int
  <2>1. matrix'[z] = matrix[z] + (IF rowMask[z[1]] THEN h ELSE 0) - (IF colMask[z[2]] THEN 0 ELSE h)
    BY <1>4
  <2> QED
    BY <1>5, <2>1
<1>7. CostType'
  <2>1. matrix' \in [Cells -> Int]
    <3>1. matrix' = [z \in Cells |-> matrix'[z]]
      BY <1>4
    <3> QED
      BY <1>6, <3>1
  <2> QED
    BY <1>0, <1>2, <2>1 DEF CostInv, CostType
<1>8. OnZeros'
  <2> SUFFICES ASSUME NEW z \in Starred \cup Primed PROVE matrix'[z] = 0
    BY <1>2 DEF OnZeros
  <2>1. z \in Cells /\ matrix[z] = 0
    BY DEF CostInv, OnZeros, Starred, Primed
  <2>2. (rowMask[z[1]] /\ ~colMask[z[2]]) \/ (~rowMask[z[1]] /\ colMask[z[2]])
    <3>1. CASE z \in Starred
      BY <1>0, <1>5, <2>1, <3>1 DEF Covered
    <3>2. CASE z \in Primed
      BY <1>0, <3>2 DEF Covered, StarsCover
    <3> QED
      BY <3>1, <3>2
  <2> QED
    BY <1>6, <2>1, <2>2
<1>9. NotNegative'
  <2> SUFFICES ASSUME \A z \in Cells : cost[z] >= 0, NEW z \in Cells PROVE matrix'[z] >= 0
    BY <1>0, <1>2 DEF NotNegative
  <2>1. \A y \in Cells : matrix[y] >= 0
    BY DEF CostInv, NotNegative
  <2>2. h >= 0
    BY <1>3, <2>1 DEF Uncovered
  <2>3. ~rowMask[z[1]] /\ ~colMask[z[2]] => h <= matrix[z]
    BY <1>3 DEF Uncovered
  <2>4. matrix[z] \in Int /\ matrix[z] >= 0 /\ rowMask[z[1]] \in BOOLEAN /\ colMask[z[2]] \in BOOLEAN
    BY <1>5, <2>1
  <2> QED
    BY <1>6, <2>2, <2>3, <2>4
<1>10. Reduced'
  <2>1. PICK u, v \in [Indices -> Int] : \A z \in Cells : cost[z] = matrix[z] + u[z[1]] + v[z[2]]
    BY DEF CostInv, Reduced
  <2> DEFINE s == [i \in Indices |-> u[i] - (IF rowMask[i] THEN h ELSE 0)]
             t == [j \in Indices |-> v[j] + (IF colMask[j] THEN 0 ELSE h)]
  <2>2. s \in [Indices -> Int] /\ t \in [Indices -> Int]
    OBVIOUS
  <2>3. ASSUME NEW z \in Cells PROVE cost'[z] = matrix'[z] + s[z[1]] + t[z[2]]
    <3>1. /\ s[z[1]] = u[z[1]] - (IF rowMask[z[1]] THEN h ELSE 0)
          /\ t[z[2]] = v[z[2]] + (IF colMask[z[2]] THEN 0 ELSE h)
      BY <1>5
    <3>2. u[z[1]] \in Int /\ v[z[2]] \in Int
      BY <1>5
    <3>3. cost'[z] = matrix[z] + u[z[1]] + v[z[2]]
      BY <1>0, <2>1
    <3>4. matrix'[z] = matrix[z] + (IF rowMask[z[1]] THEN h ELSE 0) - (IF colMask[z[2]] THEN 0 ELSE h)
      BY <1>4
    <3> HIDE DEF s, t
    <3> QED
      BY <1>5, <3>1, <3>2, <3>3, <3>4
  <2> HIDE DEF s, t
  <2> QED
    BY <1>2, <2>2, <2>3 DEF Reduced
<1>11. StarsCover' /\ Incomplete'
  BY <1>0, <1>2 DEF StarsCover, Incomplete, RowStar, ColStar
<1> QED
  BY <1>0, <1>1, <1>7, <1>8, <1>9, <1>10, <1>11 DEF CostInv

LEMMA CostSolving == ASSUME CostInv, Solving PROVE CostInv'
BY CostStep1, CostStep2, CostStep3, CostStep3None, CostStep4, CostStep5 DEF Solving

(* A star in every row, all on zeros: no order of the columns costs less.     *)
LEMMA CostsLeast ==
    ASSUME CostInv, step = 0, \A z \in Cells : cost[z] >= 0, NEW p \in Orders
    PROVE  CostOf(Assigned) <= CostOf(p)
<1>0. MaskInv /\ n \in Nat /\ IsFiniteSet(Indices)
  <2>1. MaskInv /\ n \in Nat
    BY DEF CostInv, MaskInv, MaskType
  <2> QED
    BY <2>1, FS_Interval DEF Indices
<1>1. PICK u, v \in [Indices -> Int] : \A z \in Cells : cost[z] = matrix[z] + u[z[1]] + v[z[2]]
  BY DEF CostInv, Reduced
<1>2. \A i, j \in Indices : <<i, j>> \in Cells /\ cost[<<i, j>>] = matrix[<<i, j>>] + u[i] + v[j]
  <2>1. \A i, j \in Indices : <<i, j>> \in Cells
    BY DEF Cells
  <2>2. \A i, j : <<i, j>>[1] = i /\ <<i, j>>[2] = j
    OBVIOUS
  <2> QED
    BY <1>1, <2>1, <2>2
<1>3. \A i, j \in Indices : matrix[<<i, j>>] \in Int /\ matrix[<<i, j>>] >= 0 /\ cost[<<i, j>>] \in Int
  BY <1>2 DEF CostInv, CostType, NotNegative
<1>4. PICK a : a = Assigned
  OBVIOUS
<1>5. \A i \in Indices : a[i] \in Indices /\ <<i, a[i]>> \in Starred
  <2> SUFFICES ASSUME NEW i \in Indices PROVE a[i] \in Indices /\ <<i, a[i]>> \in Starred
    OBVIOUS
  <2>1. RowStar(i)
    BY <1>0, StarsCount DEF CostInv
  <2>2. PICK z \in Starred : z[1] = i
    BY <2>1 DEF RowStar
  <2>3. z[2] \in Indices /\ mask[<<i, z[2]>>] = "star"
    BY <2>2, CellParts DEF Starred
  <2>4. a[i] = CHOOSE c \in Indices : mask[<<i, c>>] = "star"
    BY <1>4 DEF Assigned
  <2>5. a[i] \in Indices /\ mask[<<i, a[i]>>] = "star"
    BY <2>3, <2>4
  <2> QED
    BY <1>2, <2>5 DEF Starred
<1>6. a \in [Indices -> Indices]
  BY <1>4, <1>5 DEF Assigned
<1>7. \A i, j \in Indices : i # j => a[i] # a[j]
  <2> SUFFICES ASSUME NEW i \in Indices, NEW j \in Indices, i # j, a[i] = a[j] PROVE FALSE
    OBVIOUS
  <2>1. Crosses(<<i, a[i]>>, <<j, a[j]>>)
    BY DEF Crosses
  <2>2. <<i, a[i]>> = <<j, a[j]>>
    BY <1>0, <1>5, <2>1 DEF MaskInv, StarsApart
  <2> QED
    BY <2>2
<1>8. p \in [Indices -> Indices] /\ \A i, j \in Indices : i # j => p[i] # p[j]
  BY DEF Orders
<1> DEFINE fa == [i \in Indices |-> cost[<<i, a[i]>>]]
           fp == [i \in Indices |-> cost[<<i, p[i]>>]]
           g == [i \in Indices |-> u[i] + v[p[i]]]
<1>9. fa \in [Indices -> Int] /\ fp \in [Indices -> Int] /\ g \in [Indices -> Int]
  BY <1>3, <1>5, <1>8
<1>10. \A i \in Indices : fa[i] = u[i] + v[a[i]]
  <2> SUFFICES ASSUME NEW i \in Indices PROVE cost[<<i, a[i]>>] = u[i] + v[a[i]]
    OBVIOUS
  <2>1. matrix[<<i, a[i]>>] = 0
    BY <1>5 DEF CostInv, OnZeros
  <2>2. cost[<<i, a[i]>>] = matrix[<<i, a[i]>>] + u[i] + v[a[i]]
    BY <1>2, <1>5
  <2>3. u[i] \in Int /\ v[a[i]] \in Int
    BY <1>5
  <2> QED
    BY <2>1, <2>2, <2>3
<1>11. \A i \in Indices : g[i] <= fp[i]
  <2> SUFFICES ASSUME NEW i \in Indices PROVE u[i] + v[p[i]] <= cost[<<i, p[i]>>]
    OBVIOUS
  <2>1. p[i] \in Indices
    BY <1>8
  <2>2. cost[<<i, p[i]>>] = matrix[<<i, p[i]>>] + u[i] + v[p[i]]
    BY <1>2, <2>1
  <2>3. matrix[<<i, p[i]>>] \in Int /\ matrix[<<i, p[i]>>] >= 0
    BY <1>3, <2>1
  <2>4. u[i] \in Int /\ v[p[i]] \in Int
    BY <2>1
  <2> QED
    BY <2>2, <2>3, <2>4
<1>12. CostOf(Assigned) = SumFunction(fa) /\ CostOf(p) = SumFunction(fp)
  BY <1>4 DEF CostOf
<1>13. \A i \in Indices : g[i] = u[i] + v[p[i]]
  OBVIOUS
<1> HIDE DEF fa, fp, g
<1>14. PICK FA : Adds(Indices, fa, FA) /\ SumFunction(fa) = FA[Indices]
  BY <1>0, <1>9, SumOf
<1>15. PICK FP : Adds(Indices, fp, FP) /\ SumFunction(fp) = FP[Indices]
  BY <1>0, <1>9, SumOf
<1>16. PICK G : Adds(Indices, g, G) /\ SumFunction(g) = G[Indices]
  BY <1>0, <1>9, SumOf
<1>17. PICK U : Adds(Indices, u, U) /\ SumFunction(u) = U[Indices]
  BY <1>0, SumOf
<1>18. PICK V : Adds(Indices, v, V) /\ SumFunction(v) = V[Indices]
  BY <1>0, SumOf
<1>19. FA[Indices] = U[Indices] + V[Images(a, Indices)]
  BY <1>0, <1>6, <1>7, <1>9, <1>10, <1>14, <1>17, <1>18, SumSplit, SMTT(30)
<1>20. G[Indices] = U[Indices] + V[Images(p, Indices)]
  BY <1>0, <1>8, <1>9, <1>13, <1>16, <1>17, <1>18, SumSplit, SMTT(30)
<1>21. Images(a, Indices) = Indices /\ Images(p, Indices) = Indices
  BY <1>0, <1>6, <1>7, <1>8, ImagesAll
<1>22. G[Indices] <= FP[Indices]
  BY <1>0, <1>9, <1>11, <1>15, <1>16, SumLe
<1> QED
  BY <1>12, <1>14, <1>15, <1>19, <1>20, <1>21, <1>22

LEMMA CostInvLeast == CostInv => LeastCost
<1> SUFFICES ASSUME CostInv PROVE LeastCost
  OBVIOUS
<1>1. \A y, z \in Starred : y # z => y[1] # z[1] /\ y[2] # z[2]
  BY DEF CostInv, MaskInv, StarsApart, Crosses
<1>2. \A z \in Starred : matrix[z] = 0
  BY DEF CostInv, OnZeros
<1>3. step = 0 => Cardinality(Starred) = n
  BY DEF CostInv
<1>4. step = 0 /\ n > 0 /\ (\A z \in Cells : cost[z] >= 0) =>
            \A p \in Orders : CostOf(Assigned) <= CostOf(p)
  BY CostsLeast
<1> QED
  BY <1>1, <1>2, <1>3, <1>4 DEF LeastCost

-----------------------------------------------------------------------------
(* The matrices solve() is called with.                                       *)
Lower(x, y) == Min({x, y})
Higher(x, y) == Max({x, y})
LEMMA TwoNumbers == \A x, y \in Int : Lower(x, y) \in Int /\ Higher(x, y) \in Int
<1> SUFFICES ASSUME NEW x \in Int, NEW y \in Int PROVE Min({x, y}) \in Int /\ Max({x, y}) \in Int
  BY DEF Lower, Higher
<1>1. IsFiniteSet({x, y})
  <2>1. IsFiniteSet({x}) /\ {x, y} = {x} \cup {y}
    BY FS_Singleton
  <2> QED
    BY <2>1, FS_AddElement
<1>2. {x, y} \in SUBSET Int /\ {x, y} # {}
  OBVIOUS
<1>3. Min({x, y}) \in {x, y} /\ Max({x, y}) \in {x, y}
  BY <1>1, <1>2, Extremes
<1> QED
  BY <1>3

LEMMA MaxWithZero ==
    ASSUME NEW S, IsFiniteSet(S), S \in SUBSET Int
    PROVE  Max({0} \cup S) \in Int
<1>1. IsFiniteSet(S \cup {0}) /\ {0} \cup S = S \cup {0}
  BY FS_AddElement
<1>2. {0} \cup S \in SUBSET Int /\ {0} \cup S # {}
  OBVIOUS
<1>3. Max({0} \cup S) \in {0} \cup S
  BY <1>1, <1>2, Extremes
<1> QED
  BY <1>2, <1>3

LEMMA SquareFinite == ASSUME NEW k \in Nat PROVE IsFiniteSet(Square(k))
<1>1. IsFiniteSet(0 .. k - 1)
  BY FS_Interval
<1> QED
  BY <1>1, FS_Product DEF Square

LEMMA FiniteCosts ==
    ASSUME NEW k \in Nat, NEW m \in [Square(k) -> Int]
    PROVE  Finite(m) \in [Square(k) -> Int]
<1> DEFINE Y == {y \in DOMAIN m : m[y] # Inf}
           H == {m[z] : z \in Y}
           high == Max({0} \cup H) + 1
<1>1. IsFiniteSet(Y) /\ DOMAIN m = Square(k)
  <2>1. DOMAIN m = Square(k) /\ Y \in SUBSET Square(k)
    OBVIOUS
  <2> QED
    BY <2>1, SquareFinite, FS_Subset
<1>2. IsFiniteSet(H)
  <2>1. H = {m[z] : z \in Y}
    OBVIOUS
  <2> HIDE DEF Y, H
  <2> QED
    BY <1>1, <2>1, ImageFinite
<1>3. H \in SUBSET Int
  OBVIOUS
<1>4. high \in Int
  <2>1. Max({0} \cup H) \in Int
    <3> HIDE DEF H
    <3> QED
      BY <1>2, <1>3, MaxWithZero
  <2> QED
    BY <2>1
<1>5. Finite(m) = [z \in DOMAIN m |-> IF m[z] = Inf THEN high ELSE m[z]]
  BY DEF Finite
<1> HIDE DEF high
<1> QED
  BY <1>1, <1>4, <1>5

LEMMA OverlapType == ASSUME NEW a \in Boxes, NEW b \in Boxes PROVE Overlap(a, b) \in Int
<1>1. a[1] \in Int /\ a[2] \in Int /\ b[1] \in Int /\ b[2] \in Int
  BY TrackerAssumption
<1>2. Lower(a[2], b[2]) \in Int /\ Higher(a[1], b[1]) \in Int
  BY <1>1, TwoNumbers
<1>3. Higher(0, Lower(a[2], b[2]) - Higher(a[1], b[1])) \in Int
  BY <1>2, TwoNumbers
<1> QED
  BY <1>3 DEF Overlap, Lower, Higher

LEMMA CostsType ==
    ASSUME TrackType, NEW bs \in Seq(Boxes), SizeOf(bs) \in Nat
    PROVE  Costs(bs) \in [Square(SizeOf(bs)) -> Int]
<1> DEFINE score(i, j) == Matches(tracks[i + 1], bs[j + 1])
           A == 0 .. Len(tracks) - 1
           B == 0 .. Len(bs) - 1
           H == {score(i, j) : i \in A, j \in B}
           best == Max({0} \cup H)
           real(z) == z[1] < Len(tracks) /\ z[2] < Len(bs)
           last == SizeOf(bs) - 1
<1>0. tracks \in Seq(Track) /\ Len(tracks) \in Nat /\ Len(bs) \in Nat
  BY DEF TrackType
<1>1. ASSUME NEW i \in A, NEW j \in B PROVE score(i, j) \in Int
  <2>1. i + 1 \in 1 .. Len(tracks) /\ j + 1 \in 1 .. Len(bs)
    BY <1>0
  <2>2. tracks[i + 1] \in Track /\ bs[j + 1] \in Boxes
    BY <1>0, <2>1
  <2>3. tracks[i + 1].box \in Boxes
    BY <2>2 DEF Track
  <2>4. Overlap(tracks[i + 1].box, bs[j + 1]) \in Int
    BY <2>2, <2>3, OverlapType
  <2> QED
    BY <2>4 DEF Matches
<1>2. IsFiniteSet(H)
  <2> DEFINE f == [z \in A \X B |-> score(z[1], z[2])]
  <2>1. IsFiniteSet(A \X B)
    <3>0. 0 \in Int /\ Len(tracks) - 1 \in Int /\ Len(bs) - 1 \in Int
      BY <1>0
    <3>1. IsFiniteSet(A) /\ IsFiniteSet(B)
      BY <3>0, FS_Interval
    <3> HIDE DEF A, B
    <3> QED
      BY <3>1, FS_Product
  <2>2. H = {f[z] : z \in A \X B}
    <3>1. ASSUME NEW x \in H PROVE x \in {f[z] : z \in A \X B}
      <4>1. PICK i \in A, j \in B : x = score(i, j)
        OBVIOUS
      <4>2. <<i, j>> \in A \X B /\ f[<<i, j>>] = score(i, j)
        OBVIOUS
      <4> QED
        BY <4>1, <4>2, SMTT(30)
    <3>2. ASSUME NEW z \in A \X B PROVE f[z] \in H
      <4>1. z[1] \in A /\ z[2] \in B /\ f[z] = score(z[1], z[2])
        OBVIOUS
      <4> QED
        BY <4>1
    <3> HIDE DEF A, B, f, H
    <3> QED
      BY <3>1, <3>2
  <2> HIDE DEF f, H
  <2> QED
    BY <2>1, <2>2, ImageFinite
<1>3. H \in SUBSET Int
  <2>1. ASSUME NEW x \in H PROVE x \in Int
    <3>1. PICK i \in A, j \in B : x = score(i, j)
      OBVIOUS
    <3> HIDE DEF A, B, score
    <3> QED
      BY <1>1, <3>1
  <2> HIDE DEF H
  <2> QED
    BY <2>1
<1>4. best \in Int
  <2> HIDE DEF H
  <2> QED
    BY <1>2, <1>3, MaxWithZero
<1>5. Costs(bs) = [z \in (0 .. last) \X (0 .. last) |->
            IF real(z) /\ score(z[1], z[2]) > 0 THEN best - 1 - score(z[1], z[2]) ELSE Inf]
  BY DEF Costs
<1>6. ASSUME NEW z \in (0 .. last) \X (0 .. last), real(z) PROVE score(z[1], z[2]) \in Int
  <2>1. z[1] \in A /\ z[2] \in B
    BY <1>0, <1>6
  <2> HIDE DEF A, B, score
  <2> QED
    BY <1>1, <2>1
<1>7. Inf \in Int
  BY DEF Inf
<1> HIDE DEF score, best, real, H
<1>8. Costs(bs) \in [(0 .. last) \X (0 .. last) -> Int]
  <2>1. ASSUME NEW z \in (0 .. last) \X (0 .. last)
        PROVE  (IF real(z) /\ score(z[1], z[2]) > 0 THEN best - 1 - score(z[1], z[2]) ELSE Inf) \in Int
    <3>1. CASE real(z)
      <4>1. score(z[1], z[2]) \in Int
        BY <1>6, <3>1
      <4> QED
        BY <1>4, <1>7, <4>1
    <3>2. CASE ~real(z)
      BY <1>7, <3>2
    <3> QED
      BY <3>1, <3>2
  <2> QED
    BY <1>5, <2>1
<1> QED
  BY <1>8 DEF Square

LEMMA ReducedAtFirst ==
    ASSUME NEW k \in Nat, NEW c \in [Square(k) -> Int]
    PROVE  \E u, v \in [0 .. k - 1 -> Int] : \A z \in Square(k) : c[z] = c[z] + u[z[1]] + v[z[2]]
<1> DEFINE o == [i \in 0 .. k - 1 |-> 0]
<1>1. o \in [0 .. k - 1 -> Int]
  OBVIOUS
<1>2. \A z \in Square(k) : c[z] \in Int /\ o[z[1]] = 0 /\ o[z[2]] = 0
  BY DEF Square
<1>3. \A z \in Square(k) : c[z] = c[z] + o[z[1]] + o[z[2]]
  <2> HIDE DEF o
  <2> QED
    BY <1>2
<1> HIDE DEF o
<1> QED
  BY <1>1, <1>3

LEMMA CostEnter ==
    ASSUME NEW k \in Nat, NEW m \in [Square(k) -> Int], Enter(k, m)
    PROVE  CostInv'
<1>0. DOMAIN m = Square(k) /\ Finite(m) \in [Square(k) -> Int]
  BY FiniteCosts
<1>1. MaskInv' /\ n' = k
  BY <1>0, EnterKeeps DEF Square
<1>2. PICK c \in [Square(k) -> Int] : c = Finite(m)
  BY <1>0
<1>3. /\ cost' = c /\ matrix' = c /\ step' = 1
      /\ Cells' = Square(k) /\ Indices' = 0 .. k - 1
  BY <1>1, <1>2 DEF Enter, Cells, Indices, Square
<1>4. CostType' /\ NotNegative'
  BY <1>3 DEF CostType, NotNegative
<1>5. Reduced'
  BY <1>3, ReducedAtFirst, ZenonT(30) DEF Reduced
<1>6. \A z \in Cells' : mask'[z] = "normal"
  BY <1>0, <1>3 DEF Enter
<1>7. OnZeros'
  BY <1>6 DEF OnZeros, Starred, Primed
<1> QED
  BY <1>1, <1>3, <1>4, <1>5, <1>7 DEF CostInv

LEMMA CostInit == SolveInit => CostInv
<1> SUFFICES ASSUME NEW k \in Nat, NEW m \in [Square(k) -> Int], Entered(k, m) PROVE CostInv
  BY DEF SolveInit
<1>0. DOMAIN m = Square(k) /\ Finite(m) \in [Square(k) -> Int]
  BY FiniteCosts
<1>1. PICK c \in [Square(k) -> Int] : c = Finite(m)
  BY <1>0
<1>2. /\ n = k /\ cost = c /\ matrix = c /\ step = 1
      /\ Cells = Square(k) /\ Indices = 0 .. k - 1
  BY <1>1 DEF Entered, Cells, Indices, Square
<1>3. mask = [z \in Cells |-> "normal"]
  BY <1>0, <1>2 DEF Entered
<1>4. Starred = {} /\ Primed = {}
  BY <1>3 DEF Starred, Primed
<1>5. Blank
  BY <1>2 DEF Blank, Entered
<1>6. MaskType
  BY <1>2, <1>3 DEF MaskType, Entered
<1>7. MaskInv
  BY <1>2, <1>3, <1>4, <1>5, <1>6 DEF MaskInv, StarsApart, PrimesApart, NoLoop
<1>8. CostType /\ NotNegative /\ OnZeros
  BY <1>2, <1>4 DEF CostType, NotNegative, OnZeros
<1>9. Reduced
  BY <1>2, ReducedAtFirst, ZenonT(30) DEF Reduced
<1> QED
  BY <1>2, <1>7, <1>8, <1>9 DEF CostInv

LEMMA CostUnchanged == ASSUME CostInv, UNCHANGED munkresVars PROVE CostInv'
<1>0. /\ n' = n /\ cost' = cost /\ matrix' = matrix /\ mask' = mask /\ rowMask' = rowMask
      /\ colMask' = colMask /\ step' = step /\ save' = save
  BY DEF munkresVars
<1>1. CostType' /\ Reduced' /\ NotNegative' /\ Cells' = Cells /\ Indices' = Indices
  BY <1>0, CostsStay
<1>2. Starred' = Starred /\ Primed' = Primed
  BY <1>0, <1>1 DEF Starred, Primed
<1>3. OnZeros' /\ (StarsCover => StarsCover') /\ (Incomplete => Incomplete')
  BY <1>0, <1>1, <1>2 DEF CostInv, OnZeros, StarsCover, Incomplete, RowStar, ColStar
<1>4. MaskInv'
  <2>1. MaskType'
    BY <1>0, <1>1 DEF CostInv, MaskInv, MaskType
  <2>2. StarsApart' /\ PrimesApart' /\ NoLoop'
    BY <1>2 DEF CostInv, MaskInv, StarsApart, PrimesApart, NoLoop, Crosses
  <2>3. (Blank => Blank') /\ (Covered => Covered')
    BY <1>0, <1>1, <1>2 DEF Blank, Covered
  <2> QED
    BY <1>0, <1>1, <1>2, <2>1, <2>2, <2>3 DEF CostInv, MaskInv
<1> QED
  BY <1>0, <1>1, <1>2, <1>3, <1>4 DEF CostInv

(* solve() finds an assignment of least cost, for every square matrix of      *)
(* costs that are not negative; for all costs its stars are independent zeros *)
(* and it does not end before there is one in each row.                       *)
THEOREM SolveFindsLeastCost == SolveSpec => []LeastCost
<1>1. CostInv /\ [Solving]_munkresVars => CostInv'
  BY CostSolving, CostUnchanged
<1>2. SolveSpec => []CostInv
  BY <1>1, CostInit, PTL DEF SolveSpec
<1> QED
  BY <1>2, CostInvLeast, PTL

(* In the tracker, where there is a Munkres object only within process().     *)
TrackCost == IF busy THEN CostInv ELSE n = 0

LEMMA TrackCostStep == ASSUME TrackInv, TrackCost, [Next]_TrackVars PROVE TrackCost'
<1>1. CASE \E bs \in BlobLists : MatchBlobs(bs)
  <2>1. PICK bs \in BlobLists : MatchBlobs(bs)
    BY <1>1
  <2>2. busy' = TRUE /\ Enter(SizeOf(bs), Costs(bs)) /\ TrackType
    BY <2>1 DEF MatchBlobs, TrackInv
  <2>3. bs \in Seq(Boxes) /\ SizeOf(bs) \in Nat
    BY <2>2, FrameSize
  <2>4. PICK k, m : k = SizeOf(bs) /\ m = Costs(bs)
    OBVIOUS
  <2>5. k \in Nat /\ m \in [Square(k) -> Int] /\ Enter(k, m)
    BY <2>2, <2>3, <2>4, CostsType
  <2>6. CostInv'
    BY <2>5, CostEnter
  <2> QED
    BY <2>2, <2>6 DEF TrackCost
<1>2. CASE Solving /\ UNCHANGED <<trackerVars, busy>>
  <2>1. step # 0 /\ busy' = busy
    BY <1>2 DEF Solving, Step1, Step2, Step3Prime, Step3None, Step4, Step5
  <2>2. busy
    BY <2>1 DEF TrackInv
  <2>3. CostInv'
    BY <1>2, <2>2, CostSolving DEF TrackCost
  <2> QED
    BY <2>1, <2>2, <2>3 DEF TrackCost
<1>3. CASE FinishMatch
  BY <1>3 DEF FinishMatch, Leave, TrackCost
<1>4. CASE (\E d \in BOOLEAN : Skip(d)) \/ Stop \/ UNCHANGED TrackVars
  <2>1. busy' = busy /\ UNCHANGED munkresVars
    BY <1>4 DEF Skip, Stop, TrackVars
  <2>2. CASE busy
    BY <2>1, <2>2, CostUnchanged DEF TrackCost
  <2>3. CASE ~busy
    BY <2>1, <2>3 DEF TrackCost, munkresVars
  <2> QED
    BY <2>2, <2>3
<1> QED
  BY <1>1, <1>2, <1>3, <1>4 DEF Next

LEMMA NoMatrix == ASSUME n = 0 PROVE LeastCost
<1>1. Starred = {}
  BY DEF Starred, Cells, Indices
<1>2. Cardinality(Starred) = 0
  BY <1>1, FS_EmptySet
<1> QED
  BY <1>1, <1>2 DEF LeastCost

(* So are the assignments of every frame.                                     *)
THEOREM TrackerSolvesForLeastCost == TrackSpec => []LeastCost
<1>1. TrackerInit /\ Nothing => TrackCost
  BY DEF TrackerInit, Nothing, TrackCost
<1>2. TrackInv /\ TrackCost /\ [Next]_TrackVars => TrackCost'
  BY TrackCostStep
<1>3. TrackSpec => []TrackCost
  BY <1>1, <1>2, TrackerSound, PTL DEF TrackSpec
<1>4. TrackCost => LeastCost
  BY CostInvLeast, NoMatrix DEF TrackCost
<1> QED
  BY <1>3, <1>4, PTL
=============================================================================
