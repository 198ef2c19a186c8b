-------------------------- MODULE AssignmentSolver --------------------------
(***************************************************************************)
(* SolveLAP (pkg/math/lap.go), maximizing and without negative pairs, as   *)
(* every policy asks: the rows of the shorter side are inserted one by     *)
(* one, each by a shortest augmenting path over costs reduced by the       *)
(* potentials u and v.  A step is one iteration of a loop of the           *)
(* algorithm; payouts are integers, so nothing is rounded.                 *)
(*                                                                         *)
(* With n <= m a column is always left to go to (proved as ColumnLeft in   *)
(* PolicyEvaluationProofs), so the scan never meets a distance of Inf.     *)
(***************************************************************************)
EXTENDS Integers

CONSTANTS
  Matrices,  \* payouts: sizes and a function on the pairs of row and column
  Inf        \* no distance found yet

ASSUME MatrixAssumption ==
  /\ Inf \notin Int
  /\ \A M \in Matrices :
       /\ M.rows \in Nat \ {0} /\ M.cols \in Nat \ {0}
       /\ M.at \in [(1..M.rows) \X (1..M.cols) -> Int]

VARIABLES
  matrix,  \* the payouts
  u, v,    \* potentials of the rows and, from 0, of the columns
  p,       \* column -> the row matched to it, or 0; p[0] is the row inserted
  way,     \* column -> the column before it on the path
  minv,    \* column -> its distance, as far as it is known
  used,    \* the columns of the search tree
  i,       \* the row inserted
  j0,      \* where the search or the augmentation is
  pc

vars == <<matrix, u, v, p, way, minv, used, i, j0, pc>>

-----------------------------------------------------------------------------
\* A matrix with more rows than columns is solved transposed.
Transposed == matrix.rows > matrix.cols
n == IF Transposed THEN matrix.cols ELSE matrix.rows
m == IF Transposed THEN matrix.rows ELSE matrix.cols
Cost(r, c) == -(IF Transposed THEN matrix.at[<<c, r>>] ELSE matrix.at[<<r, c>>])

Slack(r, c) == Cost(r, c) - u[r] - v[c]

Init ==
  /\ matrix \in Matrices
  /\ u = [r \in 1..n |-> 0]
  /\ v = [c \in 0..m |-> 0]
  /\ p = [c \in 0..m |-> 0]
  /\ way = [c \in 0..m |-> 0]
  /\ minv = [c \in 0..m |-> Inf]
  /\ used = {}
  /\ i = 1
  /\ j0 = 0
  /\ pc = "row"

\* Mutant: distances are kept from the row before.
BeginRowStale ==
  /\ pc = "row"
  /\ p' = [p EXCEPT ![0] = i]
  /\ j0' = 0
  /\ used' = {}
  /\ pc' = "scan"
  /\ UNCHANGED <<matrix, u, v, way, minv, i>>

\* The next row takes the place of column 0, with nothing searched.
BeginRow ==
  /\ pc = "row"
  /\ p' = [p EXCEPT ![0] = i]
  /\ j0' = 0
  /\ minv' = [c \in 0..m |-> Inf]
  /\ used' = {}
  /\ pc' = "scan"
  /\ UNCHANGED <<matrix, u, v, way, i>>

\* j0 joins the tree: distances over its row ...
Nearer(c) == minv[c] = Inf \/ Slack(p[j0], c) < minv[c]
Distance(c) == IF Nearer(c) THEN Slack(p[j0], c) ELSE minv[c]

\* Mutant: the columns searched before are forgotten.
TreeOfRow == {j0}

\* ... the first of the nearest columns outside ...
Tree == used \cup {j0}
Outside == (1..m) \ Tree
\* Mutant: the first column there is.
NearestFirst(c) == c \in Outside /\ \A d \in Outside : c <= d
Nearest(c) ==
  /\ c \in Outside
  /\ \A d \in Outside :
       Distance(c) <= Distance(d) /\ (Distance(d) = Distance(c) => c <= d)

\* ... and the potentials of the tree are moved until that column is reached.
Reach(j1) ==
  LET delta == Distance(j1)
      rows == {p[c] : c \in Tree}
  IN  /\ u' = [r \in 1..n |-> IF r \in rows THEN u[r] + delta ELSE u[r]]
      /\ v' = [c \in 0..m |-> IF c \in Tree THEN v[c] - delta ELSE v[c]]
      /\ minv' = [c \in 0..m |-> IF c \in Outside THEN Distance(c) - delta ELSE minv[c]]
      /\ way' = [c \in 0..m |-> IF c \in Outside /\ Nearer(c) THEN j0 ELSE way[c]]
      /\ used' = Tree
      /\ j0' = j1
      /\ pc' = IF p[j1] = 0 THEN "augment" ELSE "scan"
      /\ UNCHANGED <<matrix, p, i>>

Scan == pc = "scan" /\ \E j1 \in 1..m : Nearest(j1) /\ Reach(j1)

\* One column of the path hands its row to the next.
Augment ==
  /\ pc = "augment"
  /\ p' = [p EXCEPT ![j0] = p[way[j0]]]
  /\ j0' = way[j0]
  /\ IF way[j0] # 0 THEN UNCHANGED <<i, pc>>
     ELSE i' = i + 1 /\ pc' = IF i = n THEN "done" ELSE "row"
  /\ UNCHANGED <<matrix, u, v, way, minv, used>>

Step == BeginRow \/ Scan \/ Augment
Next == Step
Spec == Init /\ [][Next]_vars

TypeOK ==
  /\ matrix \in Matrices
  /\ u \in [1..n -> Int] /\ v \in [0..m -> Int]
  /\ p \in [0..m -> 0..n]
  /\ way \in [0..m -> 0..m]
  /\ minv \in [0..m -> Int \cup {Inf}]
  /\ used \subseteq 0..m
  /\ i \in 1..(n + 1)
  /\ j0 \in 0..m
  /\ pc \in {"row", "scan", "augment", "done"}

-----------------------------------------------------------------------------
(* What SolveLAP returns *)

\* 0 stands for -1, unassigned; indices are from 1.
Columns(r) == {c \in 1..m : p[c] = r}
Assigned(r) ==
  IF Transposed THEN p[r]
  ELSE IF Columns(r) = {} THEN 0 ELSE CHOOSE c \in 1..m : p[c] = r

\* A pair that pays less than nothing is taken out of the assignment again.
Pruned(r) == Assigned(r) # 0 /\ matrix.at[<<r, Assigned(r)>>] < 0
RowToCol(r) == IF Pruned(r) THEN 0 ELSE Assigned(r)

RowLeft(r) == RowToCol(r) = 0
ColLeft(c) == \A r \in 1..matrix.rows : RowToCol(r) # c

RowDual(r) == -(IF Transposed THEN v[r] ELSE u[r])
ColDual(c) == -(IF Transposed THEN u[c] ELSE v[c])

\* Both are left over and worth together what they would pay: less than nothing.
Worthless(r, c) ==
  /\ RowLeft(r) /\ ColLeft(c)
  /\ matrix.at[<<r, c>>] < 0 /\ matrix.at[<<r, c>>] = RowDual(r) + ColDual(c)

\* The duals are shadow prices, also after pairs were taken out: no pair pays
\* more than its driver and its load are worth, an assigned pair pays just
\* that, nobody of the longer side is worth less than nothing, and whoever of
\* it is left over is worth nothing or was taken out of a worthless pair.
ShadowPrices ==
  pc = "done" =>
    \A r \in 1..matrix.rows, c \in 1..matrix.cols :
      /\ matrix.at[<<r, c>>] <= RowDual(r) + ColDual(c)
      /\ RowToCol(r) = c => matrix.at[<<r, c>>] = RowDual(r) + ColDual(c)
      /\ Transposed =>
           /\ RowDual(r) >= 0
           /\ RowLeft(r) =>
                RowDual(r) = 0 \/ \E d \in 1..matrix.cols : Worthless(r, d)
      /\ ~Transposed =>
           /\ ColDual(c) >= 0
           /\ ColLeft(c) =>
                ColDual(c) = 0 \/ \E q \in 1..matrix.rows : Worthless(q, c)
=============================================================================
