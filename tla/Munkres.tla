------------------------------ MODULE Munkres ------------------------------
(***************************************************************************)
(* plvblobtracker/munkres.cpp: the assignment of rows to columns of a square *)
(* matrix of costs, one action per stepN() of Munkres::solve().              *)
(* Costs are integers: blobs overlap in whole pixels.                        *)
(***************************************************************************)
EXTENDS Integers, Sequences, FiniteSets, FiniteSetsExt, Functions

VARIABLES
    n,        \* rows and columns of the matrix
    cost,     \* the matrix given to solve(), without infinities
    matrix, mask, rowMask, colMask,
    step,     \* the step to do next, 0 when solved
    save      \* saverow, savecol

munkresVars == <<n, cost, matrix, mask, rowMask, colMask, step, save>>

Indices == 0 .. n - 1
Cells == Indices \X Indices
Inf == 1000000        \* more than any cost
Starred == {z \in Cells : mask[z] = "star"}
Uncovered == {z \in Cells : ~rowMask[z[1]] /\ ~colMask[z[2]]}

(* What solve() does with infinite costs: they are one more than the highest. *)
Finite(m) == LET high == Max({0} \cup {m[z] : z \in {y \in DOMAIN m : m[y] # Inf}}) + 1
             IN  [z \in DOMAIN m |-> IF m[z] = Inf THEN high ELSE m[z]]

(* solve() called with a matrix m of size k, and the call. *)
Square(k) == (0 .. k - 1) \X (0 .. k - 1)
Entered(k, m) ==
    /\ n = k
    /\ cost = Finite(m)
    /\ matrix = Finite(m)
    /\ mask = [z \in DOMAIN m |-> "normal"]
    /\ rowMask = [i \in 0 .. k - 1 |-> FALSE]
    /\ colMask = [i \in 0 .. k - 1 |-> FALSE]
    /\ step = 1
    /\ save = <<0, 0>>
Enter(k, m) ==
    /\ n' = k
    /\ cost' = Finite(m)
    /\ matrix' = Finite(m)
    /\ mask' = [z \in DOMAIN m |-> "normal"]
    /\ rowMask' = [i \in 0 .. k - 1 |-> FALSE]
    /\ colMask' = [i \in 0 .. k - 1 |-> FALSE]
    /\ step' = 1
    /\ save' = <<0, 0>>

(* There is no Munkres object. *)
Nothing ==
    /\ n = 0 /\ cost = <<>> /\ matrix = <<>> /\ mask = <<>>
    /\ rowMask = <<>> /\ colMask = <<>>
    /\ step = 0 /\ save = <<0, 0>>

(* The Munkres object is gone when matchBlobs() returns. *)
Leave ==
    /\ n' = 0 /\ cost' = <<>> /\ matrix' = <<>> /\ mask' = <<>>
    /\ rowMask' = <<>> /\ colMask' = <<>>
    /\ step' = 0 /\ save' = <<0, 0>>

(* step1(): row by row, a zero with no star in its row or column is starred.  *)
Before(y, z) == y[1] < z[1] \/ (y[1] = z[1] /\ y[2] < z[2])
Crosses(y, z) == y[1] = z[1] \/ y[2] = z[2]
Greedy == LET zeros == {z \in Cells : matrix[z] = 0}
          IN  CHOOSE S \in SUBSET zeros :
                \A z \in zeros : z \in S <=> ~\E y \in S : Before(y, z) /\ Crosses(y, z)
Step1 ==
    /\ step = 1
    /\ LET stars == Greedy
       IN  mask' = [z \in Cells |-> IF z \in stars THEN "star" ELSE mask[z]]
    /\ step' = 2
    /\ UNCHANGED <<n, cost, matrix, rowMask, colMask, save>>

(* step2(): covers the columns of the stars; done when there are n.           *)
Enough == n
Step2 ==
    /\ step = 2
    /\ colMask' = [c \in Indices |-> colMask[c] \/ \E z \in Starred : z[2] = c]
    /\ step' = IF Cardinality(Starred) >= Enough THEN 0 ELSE 3
    /\ UNCHANGED <<n, cost, matrix, mask, rowMask, save>>

(* step3(): primes the first uncovered zero.  If its row has a star, covers   *)
(* the row and uncovers the star's column.                                    *)
Zeros == {z \in Uncovered : matrix[z] = 0}
CoverNone(r) == rowMask                            \* mutant: the row stays uncovered
CoverRow(r) == [rowMask EXCEPT ![r] = TRUE]
Step3Prime ==
    /\ step = 3 /\ Zeros # {}
    /\ LET z == CHOOSE z \in Zeros : \A y \in Zeros : ~Before(y, z)
           stars == {y \in Starred : y[1] = z[1] /\ y # z}
       IN  /\ save' = z
           /\ mask' = [mask EXCEPT ![z] = "prime"]
           /\ IF stars # {}
              THEN /\ rowMask' = CoverRow(z[1])
                   /\ colMask' = [c \in Indices |-> colMask[c] /\ \A y \in stars : y[2] # c]
                   /\ step' = 3
              ELSE step' = 4 /\ UNCHANGED <<rowMask, colMask>>
    /\ UNCHANGED <<n, cost, matrix>>
Step3None ==
    /\ step = 3 /\ Zeros = {}
    /\ step' = 5
    /\ UNCHANGED <<n, cost, matrix, mask, rowMask, colMask, save>>

(* step4(): the path of primes and stars from the saved zero: after a prime    *)
(* the star of its column, after a star the prime of its row, while there is  *)
(* one.                                                                       *)
Along(z) == IF mask[z] = "prime" THEN {y \in Starred : y[2] = z[2]}
            ELSE {y \in Cells : mask[y] = "prime" /\ y[1] = z[1]}
Path == LET marked == {z \in Cells : mask[z] # "normal"}
            closed == {S \in SUBSET marked : save \in S /\ \A z \in S : Along(z) \subseteq S}
        IN  CHOOSE S \in closed : \A T \in closed : S \subseteq T
Flipped(path) == {z \in path : mask[z] = "prime"} \cup (Starred \ path)
Step4 ==
    /\ step = 4
    /\ LET path == Path
           stars == Flipped(path)
       IN  mask' = [z \in Cells |-> IF z \in stars THEN "star" ELSE "normal"]
    /\ rowMask' = [i \in Indices |-> FALSE]
    /\ colMask' = [i \in Indices |-> FALSE]
    /\ step' = 2
    /\ UNCHANGED <<n, cost, matrix, save>>

(* step5(): the smallest uncovered cost goes from the uncovered columns to    *)
(* the covered rows.                                                          *)
LargestUncovered == Max({matrix[z] : z \in Uncovered})   \* mutant: the comparison reversed
SmallestUncovered == Min({matrix[z] : z \in Uncovered})
Step5 ==
    /\ step = 5
    /\ LET h == SmallestUncovered
       IN  matrix' = [z \in Cells |-> matrix[z] + (IF rowMask[z[1]] THEN h ELSE 0)
                                                - (IF colMask[z[2]] THEN 0 ELSE h)]
    /\ step' = 3
    /\ UNCHANGED <<n, cost, mask, rowMask, colMask, save>>

Solving == Step1 \/ Step2 \/ Step3Prime \/ Step3None \/ Step4 \/ Step5

(* One call of solve(), for any square matrix. *)
SolveInit == \E k \in Nat : \E m \in [Square(k) -> Int] : Entered(k, m)
SolveSpec == SolveInit /\ [][Solving]_munkresVars

-----------------------------------------------------------------------------
(* The reference: the least cost of a permutation. *)
Orders == {p \in [Indices -> Indices] : \A i, j \in Indices : i # j => p[i] # p[j]}
CostOf(p) == SumFunction([i \in Indices |-> cost[<<i, p[i]>>]])
Assigned == [i \in Indices |-> CHOOSE c \in Indices : mask[<<i, c>>] = "star"]

(* Stars are independent zeros at every step of solve(), which ends with a    *)
(* star in every row and every column; an assignment of costs that are not    *)
(* negative costs the least.                                                  *)
LeastCost ==
    /\ \A y, z \in Starred : y # z => y[1] # z[1] /\ y[2] # z[2]
    /\ \A z \in Starred : matrix[z] = 0
    /\ step = 0 => Cardinality(Starred) = n
    /\ step = 0 /\ n > 0 /\ (\A z \in Cells : cost[z] >= 0) =>
            \A p \in Orders : CostOf(Assigned) <= CostOf(p)

(* solve() ends. *)
SolveEnds == step # 0 ~> step = 0
=============================================================================
