----------------------- MODULE PolicyEvaluationProofs -----------------------
(***************************************************************************)
(* Proofs about AssignmentSolver and about PolicyEvaluation, which feeds   *)
(* it.  For any payout matrices of integers, the search always has a       *)
(* column left to go to, the potentials keep every reduced cost of an      *)
(* inserted row at or above zero and matched pairs at zero, and so the     *)
(* duals SolveLAP returns are shadow prices of the assignment it returns,  *)
(* which by duality no complete assignment out-earns.                      *)
(* For any number of workers, drivers and loads and any failing drivers, a *)
(* list of arcs that is answered is complete, no worker ever waits for     *)
(* room in the channel of results, and behind the filter the answer of the *)
(* solver is still a best one with shadow prices.                          *)
(***************************************************************************)
EXTENDS PolicyEvaluation, FiniteSetTheorems, SequenceTheorems, TLAPS

-----------------------------------------------------------------------------
(* The solver *)

\* The rows matched so far; the row being inserted stands at column 0.
Inserted == IF pc \in {"row", "done"} THEN 1..(i - 1) ELSE 1..i

\* The columns whose entry in p counts: a path is augmented from the hole j0.
Live == CASE pc = "scan" -> 0..m
          [] pc = "augment" -> (0..m) \ {j0}
          [] OTHER -> 1..m

Matching ==
  /\ pc = "done" <=> i = n + 1
  /\ \A c \in Live : p[c] = 0 \/ p[c] \in Inserted
  /\ \A r \in Inserted : \E c \in Live : p[c] = r
  /\ \A c, d \in Live : p[c] = p[d] /\ p[c] # 0 => c = d

\* A row has a price once the tree has been searched from it.
Priced == IF pc = "scan" /\ used = {} THEN 1..(i - 1) ELSE Inserted

Prices ==
  /\ \A r \in Priced, c \in 1..m : Slack(r, c) >= 0
  /\ \A c \in Live \ {0} : p[c] # 0 => Slack(p[c], c) = 0
  /\ \A c \in 1..m : v[c] <= 0 /\ (v[c] # 0 => p[c] # 0)

\* The edge by which the tree reaches a column, at no reduced cost.
Edge(c, rank) ==
  way[c] \in used /\ rank[way[c]] < rank[c] /\ Slack(p[way[c]], c) = 0

\* Columns of the tree that the augmentation has still to pass.
Ahead(c, rank) ==
  \/ pc = "scan" /\ c \in used \ {0}
  \/ pc = "augment" /\ c \in (used \cup {j0}) \ {0} /\ rank[c] <= rank[j0]

Path(rank) == rank \in [0..m -> Nat] /\ \A c \in 0..m : Ahead(c, rank) => Edge(c, rank)

\* minv is the distance of a column from the tree, way where it is attained.
Reached(c) ==
  /\ minv[c] \in Int /\ way[c] \in used /\ Slack(p[way[c]], c) = minv[c]
  /\ \A x \in used : minv[c] <= Slack(p[x], c)

Search ==
  /\ pc \in {"scan", "augment"} => \A c \in used : p[c] # 0
  /\ pc \in {"scan", "augment"} => \E rank : Path(rank)
  /\ pc = "augment" => j0 # 0
  /\ pc = "scan" =>
       /\ p[0] = i /\ j0 \notin used /\ p[j0] # 0
       /\ used = {} <=> j0 = 0
       /\ used # {} => 0 \in used /\ minv[j0] = 0
       /\ \A c \in 1..m : c \notin used =>
            IF used = {} THEN minv[c] = Inf ELSE Reached(c)

SolverInv == TypeOK /\ Matching /\ Prices /\ Search

-----------------------------------------------------------------------------
(* The problem *)

LEMMA Shape ==
  ASSUME matrix \in Matrices
  PROVE  /\ n \in Nat \ {0} /\ m \in Nat \ {0} /\ n <= m
         /\ \A r \in 1..n, c \in 1..m : Cost(r, c) \in Int
<1>1. /\ matrix.rows \in Nat \ {0} /\ matrix.cols \in Nat \ {0}
      /\ matrix.at \in [(1..matrix.rows) \X (1..matrix.cols) -> Int]
  BY MatrixAssumption
<1>2. n \in Nat \ {0} /\ m \in Nat \ {0} /\ n <= m
  BY <1>1 DEF n, m, Transposed
<1>3. ASSUME NEW r \in 1..n, NEW c \in 1..m PROVE Cost(r, c) \in Int
  <2>1. CASE Transposed
    <3>1. <<c, r>> \in (1..matrix.rows) \X (1..matrix.cols)
      BY <2>1, <1>3 DEF n, m
    <3> QED BY <1>1, <2>1, <3>1 DEF Cost
  <2>2. CASE ~Transposed
    <3>1. <<r, c>> \in (1..matrix.rows) \X (1..matrix.cols)
      BY <2>2, <1>3 DEF n, m
    <3> QED BY <1>1, <2>2, <3>1 DEF Cost
  <2> QED BY <2>1, <2>2
<1> QED BY <1>2, <1>3

LEMMA SameProblem ==
  ASSUME matrix' = matrix
  PROVE  /\ n' = n /\ m' = m
         /\ \A r \in Int, c \in Int : Cost(r, c)' = Cost(r, c)
BY DEF n, m, Cost, Transposed

LEMMA SlackType ==
  ASSUME TypeOK, NEW r \in 1..n, NEW c \in 1..m
  PROVE  Slack(r, c) \in Int
<1>1. matrix \in Matrices
  BY DEF TypeOK
<1>2. m \in Nat /\ Cost(r, c) \in Int
  BY <1>1, Shape
<1>3. u[r] \in Int
  BY DEF TypeOK
<1>4. c \in 0..m
  BY <1>2
<1>5. v[c] \in Int
  BY <1>4 DEF TypeOK
<1> QED BY <1>2, <1>3, <1>5 DEF Slack

-----------------------------------------------------------------------------
(* The beginning, and the beginning of a row *)

LEMMA InvInit == Init => SolverInv
<1> SUFFICES ASSUME Init PROVE SolverInv
  OBVIOUS
<1>1. n \in Nat \ {0} /\ m \in Nat \ {0} /\ n <= m
  BY Shape DEF Init
<1>2. TypeOK
  BY <1>1 DEF Init, TypeOK
<1>3. Matching
  BY <1>1 DEF Init, Matching, Live, Inserted
<1>4. Prices
  BY <1>1 DEF Init, Prices, Live, Inserted, Priced
<1>5. Search
  BY DEF Init, Search
<1> QED BY <1>2, <1>3, <1>4, <1>5 DEF SolverInv

LEMMA InvBeginRow == SolverInv /\ BeginRow => SolverInv'
<1> SUFFICES ASSUME SolverInv, BeginRow PROVE SolverInv'
  OBVIOUS
<1> USE DEF SolverInv
<1>1. /\ n \in Nat \ {0} /\ m \in Nat \ {0} /\ n <= m
      /\ \A r \in 1..n, c \in 1..m : Cost(r, c) \in Int
  BY Shape DEF TypeOK
<1>2. /\ n' = n /\ m' = m
      /\ \A r \in Int, c \in Int : Cost(r, c)' = Cost(r, c)
  BY SameProblem DEF BeginRow
<1>3. i \in 1..n
  BY <1>1 DEF BeginRow, TypeOK, Matching
<1>4. TypeOK'
  <2>1. 0 \in 0..m /\ i \in 0..n
    BY <1>1, <1>3
  <2>2. p' \in [0..m -> 0..n]
    BY <2>1 DEF BeginRow, TypeOK
  <2>3. minv' \in [0..m -> Int \cup {Inf}]
    BY DEF BeginRow
  <2> QED BY <1>2, <2>1, <2>2, <2>3 DEF BeginRow, TypeOK
<1>5. /\ Live = 1..m /\ Live' = 0..m /\ Inserted = 1..(i - 1) /\ Inserted' = 1..i
      /\ Priced = 1..(i - 1) /\ Priced' = 1..(i - 1)
  BY <1>2 DEF BeginRow, Live, Inserted, Priced
<1>6. p'[0] = i /\ \A c \in 1..m : p'[c] = p[c]
  BY <1>1 DEF BeginRow, TypeOK
<1>7. Matching'
  <2>1. pc' # "done" /\ i' # (n + 1)'
    BY <1>1, <1>2, <1>3 DEF BeginRow
  <2>2. \A c \in Live' : p'[c] = 0 \/ p'[c] \in Inserted'
    <3>1. \A c \in 1..m : p[c] = 0 \/ p[c] \in 1..(i - 1)
      BY <1>5 DEF Matching
    <3>2. \A c \in 0..m : c = 0 \/ c \in 1..m
      BY <1>1
    <3>3. i \in 1..i /\ 1..(i - 1) \subseteq 1..i
      BY <1>3
    <3> QED BY <1>5, <1>6, <3>1, <3>2, <3>3
  <2>3. ASSUME NEW r \in Inserted' PROVE \E c \in Live' : p'[c] = r
    <3>1. CASE r = i
      BY <1>1, <1>5, <1>6, <3>1
    <3>2. CASE r # i
      <4>1. r \in Inserted
        BY <1>3, <1>5, <3>2
      <4>2. PICK c \in Live : p[c] = r
        BY <4>1 DEF Matching
      <4> QED BY <1>1, <1>5, <1>6, <4>2
    <3> QED BY <3>1, <3>2
  <2>4. ASSUME NEW c \in Live', NEW d \in Live', p'[c] = p'[d], p'[c] # 0
        PROVE  c = d
    <3>1. \A e \in 1..m : p[e] = 0 \/ p[e] \in 1..(i - 1)
      BY <1>5 DEF Matching
    <3>2. \A e \in 1..m : p'[e] # p'[0]
      BY <1>3, <1>6, <3>1
    <3>3. c \in 0..m /\ d \in 0..m /\ (c = 0 <=> d = 0)
      BY <1>1, <1>5, <2>4, <3>2
    <3>4. CASE c \in 1..m /\ d \in 1..m
      <4>1. p[c] = p[d] /\ p[c] # 0
        BY <1>6, <2>4, <3>4
      <4> QED BY <1>5, <3>4, <4>1 DEF Matching
    <3> QED BY <1>1, <3>3, <3>4
  <2> QED BY <2>1, <2>2, <2>3, <2>4 DEF Matching
<1>8. \A r \in 1..n, c \in 1..m : Slack(r, c)' = Slack(r, c)
  BY <1>1, <1>2 DEF BeginRow, Slack
<1>9. Prices'
  <2>1. \A r \in Priced', c \in (1..m)' : Slack(r, c)' >= 0
    BY <1>1, <1>2, <1>3, <1>5, <1>8 DEF Prices
  <2>2. ASSUME NEW c \in Live' \ {0}, p'[c] # 0 PROVE Slack(p[c], c)' = 0
    <3>1. c \in Live \ {0} /\ p[c] # 0 /\ c \in 1..m /\ p'[c] = p[c]
      BY <1>1, <1>5, <1>6, <2>2
    <3>4. c \in 0..m
      BY <1>1, <3>1
    <3>5. p[c] \in 0..n
      BY <3>4 DEF TypeOK
    <3>2. Slack(p[c], c) = 0
      BY <3>1 DEF Prices
    <3> QED BY <1>2, <3>1, <3>2, <3>4, <3>5 DEF Slack, BeginRow
  <2>3. \A c \in (1..m)' : v'[c] <= 0 /\ (v'[c] # 0 => p'[c] # 0)
    BY <1>2, <1>6 DEF Prices, BeginRow
  <2> QED BY <2>1, <2>2, <2>3 DEF Prices
<1>10. Search'
  <2>1. \A rank : \A c : ~Ahead(c, rank)'
    BY DEF Ahead, BeginRow
  <2>2. \E rank : Path(rank)'
    <3>1. [c \in 0..m |-> 0] \in [0..m' -> Nat]
      BY <1>2
    <3> QED BY <2>1, <3>1 DEF Path
  <2>3. \A c \in (1..m)' : minv'[c] = Inf
    BY <1>1, <1>2 DEF BeginRow
  <2> QED BY <1>1, <1>2, <1>3, <1>6, <2>2, <2>3 DEF Search, BeginRow
<1> QED BY <1>4, <1>7, <1>9, <1>10

-----------------------------------------------------------------------------
(* One column of the augmentation *)

LEMMA InvAugment == SolverInv /\ Augment => SolverInv'
<1> SUFFICES ASSUME SolverInv, Augment PROVE SolverInv'
  OBVIOUS
<1> USE DEF SolverInv
<1> DEFINE w == way[j0]
<1>1. n \in Nat \ {0} /\ m \in Nat \ {0} /\ n <= m
  BY Shape DEF TypeOK
<1>2. /\ n' = n /\ m' = m
      /\ \A r \in Int, c \in Int : Cost(r, c)' = Cost(r, c)
  BY SameProblem DEF Augment
<1>3. pc = "augment" /\ j0 \in 1..m /\ i \in 1..n
  <2>1. pc = "augment" /\ j0 # 0 /\ j0 \in 0..m /\ i \in 1..(n + 1) /\ i # n + 1
    BY DEF Augment, Search, TypeOK, Matching
  <2> QED BY <1>1, <2>1
<1>4. PICK rank : Path(rank)
  BY <1>3 DEF Search
<1>5. rank \in [0..m -> Nat]
  BY <1>4 DEF Path
<1>6. w \in used /\ w \in 0..m /\ rank[w] < rank[j0] /\ Slack(p[w], j0) = 0
  <2>1. j0 \in 0..m
    BY <1>1, <1>3
  <2>2. rank[j0] <= rank[j0]
    BY <1>5, <2>1
  <2>3. Ahead(j0, rank)
    BY <1>3, <2>2 DEF Ahead
  <2>4. Edge(j0, rank)
    BY <1>4, <2>1, <2>3 DEF Path
  <2> QED BY <2>4 DEF Edge, TypeOK
<1>7. w # j0 /\ w \in Live
  <2>1. j0 \in 0..m
    BY <1>1, <1>3
  <2>2. w # j0
    BY <1>5, <1>6, <2>1
  <2> QED BY <1>3, <1>6, <2>2 DEF Live
<1>8. p[w] \in 1..i
  BY <1>3, <1>6, <1>7 DEF Search, Matching, Inserted
<1>9. p'[j0] = p[w] /\ \A c \in 0..m : c # j0 => p'[c] = p[c]
  <2>1. j0 \in 0..m
    BY <1>1, <1>3
  <2> QED BY <2>1 DEF Augment, TypeOK
<1>10. TypeOK'
  <2>1. p' \in [0..m -> 0..n]
    <3>1. p[w] \in 0..n
      BY <1>6 DEF TypeOK
    <3> QED BY <3>1 DEF Augment, TypeOK
  <2>2. i' \in 1..(n + 1) /\ pc' \in {"row", "scan", "augment", "done"}
    BY <1>1, <1>3 DEF Augment
  <2> QED BY <1>2, <1>6, <2>1, <2>2 DEF Augment, TypeOK
<1>11. /\ Live = (0..m) \ {j0} /\ Live' = (0..m) \ {w}
       /\ Inserted = 1..i /\ Inserted' = 1..i /\ Priced = 1..i /\ Priced' = 1..i
  <2>1. Live = (0..m) \ {j0} /\ Inserted = 1..i /\ Priced = 1..i
    BY <1>3 DEF Live, Inserted, Priced
  <2>2. CASE w = 0
    <3>1. pc' \in {"row", "done"} /\ i' = i + 1
      BY <2>2 DEF Augment
    <3>2. Live' = 1..m /\ Inserted' = 1..(i' - 1) /\ Priced' = 1..(i' - 1)
      BY <1>2, <3>1 DEF Live, Inserted, Priced
    <3>3. i' - 1 = i
      BY <1>3, <3>1
    <3>4. 1..m = (0..m) \ {0}
      BY <1>1
    <3> QED BY <2>1, <2>2, <3>2, <3>3, <3>4
  <2>3. CASE w # 0
    <3>1. pc' = "augment" /\ i' = i /\ j0' = w
      BY <1>3, <2>3 DEF Augment
    <3> QED BY <1>2, <2>1, <3>1 DEF Live, Inserted, Priced
  <2> QED BY <2>2, <2>3
<1>12. Matching'
  <2>1. pc' = "done" <=> i' = (n + 1)'
    BY <1>1, <1>2, <1>3 DEF Augment
  <2>2. \A c \in Live' : p'[c] = 0 \/ p'[c] \in Inserted'
    BY <1>8, <1>9, <1>11 DEF Matching
  <2>3. ASSUME NEW r \in Inserted' PROVE \E c \in Live' : p'[c] = r
    <3>1. PICK c \in Live : p[c] = r
      BY <1>11 DEF Matching
    <3>2. CASE c = w
      <4>1. j0 \in Live'
        BY <1>1, <1>3, <1>7, <1>11
      <4> QED BY <1>9, <3>1, <3>2, <4>1
    <3>3. CASE c # w
      BY <1>9, <1>11, <3>1, <3>3
    <3> QED BY <3>2, <3>3
  <2>4. ASSUME NEW c \in Live', NEW d \in Live', p'[c] = p'[d], p'[c] # 0
        PROVE  c = d
    <3> DEFINE old(x) == IF x = j0 THEN w ELSE x
    <3>1. \A x \in Live' : old(x) \in Live /\ p'[x] = p[old(x)]
      BY <1>7, <1>9, <1>11
    <3>2. old(c) = old(d)
      BY <2>4, <3>1 DEF Matching
    <3> QED BY <1>11, <3>2
  <2> QED BY <2>1, <2>2, <2>3, <2>4 DEF Matching
<1>13. \A r \in Int, c \in Int : Slack(r, c)' = Slack(r, c)
  BY <1>2 DEF Augment, Slack
<1>14. \A c \in 0..m : p[c] \in Int /\ p'[c] \in Int /\ c \in Int
  <2>1. p \in [0..m -> 0..n] /\ p' \in [0..m -> 0..n]
    BY <1>2, <1>10 DEF TypeOK
  <2> QED BY <1>1, <2>1
<1>15. Prices'
  <2>1. \A r \in Priced', c \in (1..m)' : Slack(r, c)' >= 0
    BY <1>1, <1>2, <1>3, <1>11, <1>13 DEF Prices
  <2>2. ASSUME NEW c \in Live' \ {0}, p'[c] # 0 PROVE Slack(p[c], c)' = 0
    <3>1. c \in 0..m
      BY <1>11
    <3>2. Slack(p[c], c)' = Slack(p'[c], c)
      BY <1>13, <1>14, <3>1 DEF Slack
    <3>3. CASE c = j0
      BY <1>6, <1>9, <3>2, <3>3
    <3>4. CASE c # j0
      <4>1. c \in Live \ {0} /\ p'[c] = p[c]
        BY <1>9, <1>11, <3>1, <3>4
      <4> QED BY <2>2, <3>2, <4>1 DEF Prices
    <3> QED BY <3>3, <3>4
  <2>3. ASSUME NEW c \in 1..m PROVE v'[c] <= 0 /\ (v'[c] # 0 => p'[c] # 0)
    <3>1. c \in 0..m /\ (p[c] # 0 => p'[c] # 0)
      BY <1>1, <1>8, <1>9
    <3> QED BY <3>1 DEF Prices, Augment
  <2> QED BY <1>2, <2>1, <2>2, <2>3 DEF Prices
<1>16. Search'
  <2>1. CASE w = 0
    <3>1. pc' \in {"row", "done"}
      BY <2>1 DEF Augment
    <3> QED BY <3>1 DEF Search
  <2>2. CASE w # 0
    <3>1. pc' = "augment" /\ j0' = w /\ used' = used /\ way' = way
      BY <1>3, <2>2 DEF Augment
    <3>2. \A c \in used : p'[c] # 0
      BY <1>3, <1>8, <1>9 DEF Search, TypeOK
    <3>3. ASSUME NEW c \in 0..m, Ahead(c, rank)' PROVE Edge(c, rank)'
      <4>1. c \in used \ {0} /\ rank[c] <= rank[w]
        BY <1>6, <3>1, <3>3 DEF Ahead
      <4>2. rank[c] < rank[j0] /\ rank[c] <= rank[j0]
        BY <1>1, <1>3, <1>5, <1>6, <4>1
      <4>3. Edge(c, rank)
        BY <1>3, <1>4, <4>1, <4>2 DEF Path, Ahead
      <4>4. way[c] \in 0..m
        BY DEF TypeOK
      <4>5. way[c] # j0
        BY <1>1, <1>3, <1>5, <4>2, <4>3, <4>4 DEF Edge
      <4>6. Slack(p[way[c]], c)' = Slack(p[way[c]], c)
        BY <1>9, <1>13, <1>14, <3>1, <4>4, <4>5 DEF Slack
      <4> QED BY <3>1, <4>3, <4>6 DEF Edge
    <3>4. \E r : Path(r)'
      BY <1>2, <1>5, <3>3 DEF Path
    <3> QED BY <2>2, <3>1, <3>2, <3>4 DEF Search
  <2> QED BY <2>1, <2>2
<1> QED BY <1>10, <1>12, <1>15, <1>16

-----------------------------------------------------------------------------
(* One iteration of the search *)

\* The row of a column in the tree.
RowInTree(r) == \E x \in Tree : p[x] = r

LEMMA TreeFacts ==
  ASSUME SolverInv, pc = "scan"
  PROVE  /\ i \in 1..n /\ Tree \subseteq 0..m /\ 0 \in Tree /\ j0 \in 0..m
         /\ Live = 0..m /\ Inserted = 1..i
         /\ \A x \in Tree : p[x] \in 1..i /\ p[x] \in 1..n
<1> USE DEF SolverInv
<1>1. n \in Nat \ {0} /\ m \in Nat \ {0}
  BY Shape DEF TypeOK
<1>2. i \in 1..n
  BY <1>1 DEF TypeOK, Matching
<1>3. Live = 0..m /\ Inserted = 1..i
  BY DEF Live, Inserted
<1>4. Tree \subseteq 0..m /\ 0 \in Tree
  BY DEF Tree, Search, TypeOK
<1>5. ASSUME NEW x \in Tree PROVE p[x] \in 1..i
  <2>1. p[x] # 0
    BY <1>5 DEF Tree, Search
  <2> QED BY <1>3, <1>4, <2>1 DEF Matching
<1> QED BY <1>2, <1>3, <1>4, <1>5 DEF TypeOK

\* Distances are the least reduced costs over the rows of the tree.
LEMMA Distances ==
  ASSUME SolverInv, pc = "scan", NEW c \in Outside
  PROVE  LET before == IF Nearer(c) THEN j0 ELSE way[c]
         IN  /\ Distance(c) \in Int /\ before \in Tree
             /\ Slack(p[before], c) = Distance(c)
             /\ \A x \in Tree : Distance(c) <= Slack(p[x], c)
<1> USE DEF SolverInv
<1>1. c \in 1..m /\ c \notin used /\ c \notin Tree
  BY DEF Outside, Tree
<1>2. \A x \in Tree : Slack(p[x], c) \in Int
  BY <1>1, TreeFacts, SlackType
<1>3. j0 \in Tree /\ used \subseteq Tree
  BY DEF Tree
<1>4. CASE used = {}
  <2>1. Nearer(c) /\ Distance(c) = Slack(p[j0], c) /\ Tree = {j0}
    BY <1>1, <1>4 DEF Search, Nearer, Distance, Tree
  <2> QED BY <1>2, <1>3, <2>1
<1>5. CASE used # {}
  <2>1. Reached(c)
    BY <1>1, <1>5 DEF Search
  <2>2. minv[c] # Inf
    BY <2>1, MatrixAssumption DEF Reached
  <2>3. CASE Nearer(c)
    BY <1>2, <1>3, <2>1, <2>2, <2>3 DEF Reached, Nearer, Distance, Tree
  <2>4. CASE ~Nearer(c)
    BY <1>2, <1>3, <2>1, <2>2, <2>4 DEF Reached, Nearer, Distance, Tree
  <2> QED BY <2>3, <2>4
<1> QED BY <1>4, <1>5

\* How the step to column j1 changes prices and reduced costs.
LEMMA ReachPrices ==
  ASSUME SolverInv, pc = "scan", NEW j1 \in 1..m, Nearest(j1), Reach(j1)
  PROVE  /\ \A r \in 1..n, c \in 1..m : Slack(r, c)' =
              Slack(r, c) + (IF c \in Tree THEN Distance(j1) ELSE 0)
                          - (IF RowInTree(r) THEN Distance(j1) ELSE 0)
         /\ \A c \in 1..m : v'[c] = IF c \in Tree THEN v[c] - Distance(j1) ELSE v[c]
         /\ u' \in [1..n -> Int] /\ v' \in [0..m -> Int]
         /\ Distance(j1) \in Int
<1> USE DEF SolverInv
<1>1. n \in Nat \ {0} /\ m \in Nat \ {0}
      /\ \A r \in 1..n, c \in 1..m : Cost(r, c) \in Int
  BY Shape DEF TypeOK
<1>2. \A r \in Int, c \in Int : Cost(r, c)' = Cost(r, c)
  BY SameProblem DEF Reach
<1>3. Distance(j1) \in Int
  BY Distances DEF Nearest
<1>4. u' = [r \in 1..n |-> IF RowInTree(r) THEN u[r] + Distance(j1) ELSE u[r]]
  BY DEF Reach, RowInTree
<1>5. v' = [c \in 0..m |-> IF c \in Tree THEN v[c] - Distance(j1) ELSE v[c]]
  BY DEF Reach
<1>6. \A r \in 1..n : u[r] \in Int
  BY DEF TypeOK
<1>7. \A c \in 0..m : v[c] \in Int
  BY DEF TypeOK
<1>8. ASSUME NEW r \in 1..n, NEW c \in 1..m
      PROVE  Slack(r, c)' =
               Slack(r, c) + (IF c \in Tree THEN Distance(j1) ELSE 0)
                           - (IF RowInTree(r) THEN Distance(j1) ELSE 0)
  <2>1. c \in 0..m
    BY <1>1
  <2>2. u[r] \in Int /\ v[c] \in Int /\ Cost(r, c) \in Int /\ Cost(r, c)' = Cost(r, c)
    BY <1>1, <1>2, <1>6, <1>7, <2>1
  <2>3. u'[r] = IF RowInTree(r) THEN u[r] + Distance(j1) ELSE u[r]
    BY <1>4
  <2>4. v'[c] = IF c \in Tree THEN v[c] - Distance(j1) ELSE v[c]
    BY <1>5, <2>1
  <2> QED BY <1>3, <2>2, <2>3, <2>4 DEF Slack
<1> QED BY <1>1, <1>3, <1>4, <1>5, <1>6, <1>7, <1>8

\* Reduced costs stay at or above zero, and matched pairs at zero.
LEMMA ScanPrices ==
  ASSUME SolverInv, pc = "scan", NEW j1 \in 1..m, Nearest(j1), Reach(j1)
  PROVE  /\ \A r \in 1..i, c \in 1..m : Slack(r, c)' >= 0
         /\ \A c \in 1..m : p[c] # 0 => Slack(p[c], c)' = 0
         /\ \A c \in 1..m : v'[c] <= 0 /\ (v'[c] # 0 => p[c] # 0)
<1> USE DEF SolverInv
<1> DEFINE D == Distance(j1)
<1>1. n \in Nat \ {0} /\ m \in Nat \ {0}
  BY Shape DEF TypeOK
<1>2. i \in 1..n /\ D \in Int /\ 1..i \subseteq 1..n
  <2>1. D \in Int
    BY ReachPrices
  <2>2. i \in 1..n
    BY TreeFacts
  <2> QED BY <1>1, <2>1, <2>2
<1>10. \A r \in 1..n, c \in 1..m : Slack(r, c)' =
         Slack(r, c) + (IF c \in Tree THEN D ELSE 0)
                     - (IF RowInTree(r) THEN D ELSE 0)
  BY ReachPrices
<1>3. \A r \in 1..n, c \in 1..m : Slack(r, c) \in Int
  BY SlackType
<1>4. \A x \in Tree : x \in 0..m /\ p[x] \in 1..i
  BY TreeFacts
<1>5. Priced = (IF used = {} THEN 1..(i - 1) ELSE 1..i)
  BY DEF Priced, Inserted
<1>6. ASSUME NEW c \in 1..m, c \in Tree PROVE D >= 0
  <2>1. used # {}
    <3>1. c = j0 \/ c \in used
      BY <1>6 DEF Tree
    <3> QED BY <1>1, <1>6, <3>1 DEF Search
  <2>2. j1 \in Outside
    BY DEF Nearest
  <2> DEFINE before == IF Nearer(j1) THEN j0 ELSE way[j1]
  <2>3. before \in Tree /\ Slack(p[before], j1) = D
    BY <2>2, Distances
  <2>4. p[before] \in 1..i
    BY <1>4, <2>3
  <2>5. Slack(p[before], j1) >= 0
    BY <1>5, <2>1, <2>4 DEF Prices
  <2> QED BY <2>3, <2>5
<1>7. ASSUME NEW r \in 1..i, NEW c \in 1..m PROVE Slack(r, c)' >= 0
  <2>1. Slack(r, c) \in Int /\ r \in 1..n
    BY <1>2, <1>3
  <2>2. Slack(r, c)' = Slack(r, c) + (IF c \in Tree THEN D ELSE 0)
                                   - (IF RowInTree(r) THEN D ELSE 0)
    BY <2>1, ReachPrices
  <2>3. CASE RowInTree(r)
    <3>1. CASE c \in Tree
      <4>1. D >= 0
        BY <1>6, <3>1
      <4>2. used # {}
        <5>1. c = j0 \/ c \in used
          BY <3>1 DEF Tree
        <5> QED BY <1>1, <5>1 DEF Search
      <4>3. Slack(r, c) >= 0
        BY <1>5, <4>2 DEF Prices
      <4> QED BY <1>2, <2>1, <2>2, <2>3, <3>1, <4>3
    <3>2. CASE c \notin Tree
      <4>1. PICK x \in Tree : p[x] = r
        BY <2>3 DEF RowInTree
      <4>2. c \in Outside
        BY <3>2 DEF Outside
      <4>3. Distance(c) \in Int /\ Distance(c) <= Slack(p[x], c)
        BY <4>2, Distances
      <4>4. D <= Distance(c)
        BY <4>2 DEF Nearest
      <4> QED BY <1>2, <2>1, <2>2, <2>3, <3>2, <4>1, <4>3, <4>4
    <3> QED BY <3>1, <3>2
  <2>4. CASE ~RowInTree(r)
    <3>1. r # i
      BY <2>4, TreeFacts DEF RowInTree, Search
    <3>2. r \in Priced
      BY <1>2, <1>5, <3>1
    <3>3. Slack(r, c) >= 0
      BY <3>2 DEF Prices
    <3>4. CASE c \in Tree
      BY <1>2, <1>6, <2>1, <2>2, <2>4, <3>3, <3>4
    <3>5. CASE c \notin Tree
      BY <1>2, <2>1, <2>2, <2>4, <3>3, <3>5
    <3> QED BY <3>4, <3>5
  <2> QED BY <2>3, <2>4
<1>8. ASSUME NEW c \in 1..m, p[c] # 0 PROVE Slack(p[c], c)' = 0
  <2>1. c \in 0..m /\ c \in Live \ {0}
    BY <1>1, TreeFacts
  <2>2. Slack(p[c], c) = 0
    BY <1>8, <2>1 DEF Prices
  <2>3. p[c] \in 1..n
    <3>1. p[c] \in 1..i
      BY <1>8, <2>1, TreeFacts DEF Matching
    <3> QED BY <1>2, <3>1
  <2>4. RowInTree(p[c]) <=> c \in Tree
    <3>1. ASSUME NEW x \in Tree, p[x] = p[c] PROVE x = c
      BY <1>4, <1>8, <2>1, <3>1, TreeFacts DEF Matching
    <3> QED BY <3>1 DEF RowInTree
  <2>5. Slack(p[c], c)' = Slack(p[c], c) + (IF c \in Tree THEN D ELSE 0)
                                   - (IF RowInTree(p[c]) THEN D ELSE 0)
    <3>1. PICK r \in 1..n : r = p[c]
      BY <2>3
    <3>2. Slack(p[c], c)' = Slack(r, c)'
      BY <3>1 DEF Reach, Slack
    <3> QED BY <1>10, <3>1, <3>2
  <2> QED BY <1>2, <2>2, <2>4, <2>5
<1>9. ASSUME NEW c \in 1..m PROVE v'[c] <= 0 /\ (v'[c] # 0 => p[c] # 0)
  <2>1. c \in 0..m /\ v[c] \in Int /\ v[c] <= 0 /\ (v[c] # 0 => p[c] # 0)
    <3>1. c \in 0..m
      BY <1>1
    <3> QED BY <3>1 DEF TypeOK, Prices
  <2>2. v'[c] = IF c \in Tree THEN v[c] - D ELSE v[c]
    BY ReachPrices
  <2>3. CASE c \in Tree
    <3>1. D >= 0 /\ p[c] \in 1..i
      BY <1>4, <1>6, <2>3
    <3> QED BY <1>2, <2>1, <2>2, <2>3, <3>1
  <2>4. CASE c \notin Tree
    BY <2>1, <2>2, <2>4
  <2> QED BY <2>3, <2>4
<1> QED BY <1>7, <1>8, <1>9


\* Every column of the tree, and the column reached, hangs on a free edge.
LEMMA ScanPath ==
  ASSUME SolverInv, pc = "scan", NEW j1 \in 1..m, Nearest(j1), Reach(j1)
  PROVE  \E rank : Path(rank)'
<1> USE DEF SolverInv
<1> DEFINE D == Distance(j1)
           before == IF Nearer(j1) THEN j0 ELSE way[j1]
<1>1. n \in Nat \ {0} /\ m \in Nat \ {0} /\ m' = m
  BY Shape, SameProblem DEF TypeOK, Reach
<1>2. /\ j1 \in Outside /\ j1 \in 0..m /\ j1 \notin Tree
      /\ before \in Tree /\ Slack(p[before], j1) = D
  <2>1. j1 \in Outside
    BY DEF Nearest
  <2> QED BY <1>1, <2>1, Distances DEF Outside
<1>3. PICK rank : Path(rank)
  BY DEF Search
<1>4. rank \in [0..m -> Nat]
  BY <1>3 DEF Path
<1>5. /\ Tree = used \cup {j0} /\ j0 \in 0..m /\ j0 \notin used
      /\ Tree \subseteq 0..m
  BY TreeFacts DEF Tree, Search
<1>6. \A x \in Tree : p[x] \in 1..n /\ RowInTree(p[x])
  BY TreeFacts DEF RowInTree
<1>7. p' = p /\ used' = Tree /\ j0' = j1
      /\ \A c \in 0..m : way'[c] = IF c \in Outside /\ Nearer(c) THEN j0 ELSE way[c]
  BY DEF Reach
<1>8. D \in Int
  BY ReachPrices
<1>9. \A r \in 1..n, c \in 1..m :
        /\ Slack(r, c) \in Int
        /\ Slack(r, c)' = Slack(r, c) + (IF c \in Tree THEN D ELSE 0)
                                      - (IF RowInTree(r) THEN D ELSE 0)
  BY SlackType, ReachPrices
<1>10. ASSUME NEW x \in Tree, NEW c \in 1..m
       PROVE  Slack(p[x], c)' = Slack(p[x], c) + (IF c \in Tree THEN D ELSE 0) - D
  <2>1. PICK r \in 1..n : r = p[x]
    BY <1>6
  <2>2. Slack(p[x], c)' = Slack(r, c)'
    BY <1>7, <2>1 DEF Slack
  <2> QED BY <1>6, <1>8, <1>9, <2>1, <2>2
<1>11. \A x \in Tree, c \in 1..m : Slack(p[x], c) \in Int
  BY <1>6, <1>9
<1> DEFINE height(c) == IF c = j0 /\ j0 # 0 THEN rank[way[j0]] + 1 ELSE rank[c]
<1>12. \A c \in 0..m : height(c) \in Nat
  <2>1. way[j0] \in 0..m
    BY <1>5 DEF TypeOK
  <2> QED BY <1>4, <2>1
<1>13. height(before) + 1 \in Nat
  <2> HIDE DEF height, before
  <2>1. before \in 0..m
    BY <1>2, <1>5
  <2> QED BY <1>12, <2>1
<1>14. PICK rk \in [0..m -> Nat] :
         \A c \in 0..m : rk[c] = IF c = j1 THEN height(before) + 1 ELSE height(c)
  <2> HIDE DEF height, before
  <2> DEFINE f == [c \in 0..m |-> IF c = j1 THEN height(before) + 1 ELSE height(c)]
  <2>1. f \in [0..m -> Nat]
    BY <1>12, <1>13
  <2>2. \A c \in 0..m : f[c] = IF c = j1 THEN height(before) + 1 ELSE height(c)
    OBVIOUS
  <2> QED BY <2>1, <2>2
<1>15. ASSUME NEW c \in 1..m, NEW b \in Tree,
              way'[c] = b, rk[b] < rk[c], Slack(p[b], c)' = 0
       PROVE  Edge(c, rk)'
  <2>1. Slack(p[way[c]], c)' = Slack(p[b], c)'
    BY <1>15 DEF Slack
  <2> QED BY <1>7, <1>15, <2>1 DEF Edge
<1>16. ASSUME NEW c \in used, c # 0 PROVE Edge(c, rk)'
  <2>1. c \in 1..m /\ c \in Tree /\ c \in 0..m /\ c # j0 /\ c # j1 /\ c \notin Outside
    BY <1>1, <1>2, <1>5, <1>16 DEF Outside
  <2>2. Edge(c, rank)
    BY <1>3, <1>16, <2>1 DEF Path, Ahead
  <2>3. PICK b \in used : b = way[c]
    BY <2>2 DEF Edge
  <2>4. b \in Tree /\ b \in 0..m /\ b # j0 /\ b # j1
    BY <1>2, <1>5
  <2>5. rk[b] = rank[b] /\ rk[c] = rank[c]
    BY <1>14, <2>1, <2>4
  <2>6. rk[b] < rk[c] /\ Slack(p[b], c) = 0
    BY <2>2, <2>3, <2>5 DEF Edge
  <2>7. Slack(p[b], c)' = 0
    BY <1>8, <1>10, <2>1, <2>4, <2>6
  <2> QED BY <1>7, <1>15, <2>1, <2>3, <2>4, <2>6, <2>7
<1>17. ASSUME NEW c \in 1..m, c = j0 PROVE Edge(c, rk)'
  <2>1. c \in Tree /\ c \in 0..m /\ c # j1 /\ c \notin Outside /\ used # {}
    BY <1>1, <1>2, <1>5, <1>17 DEF Outside, Search
  <2>2. Reached(c) /\ minv[c] = 0
    BY <1>5, <1>17, <2>1 DEF Search
  <2>3. PICK b \in used : b = way[c]
    BY <2>2 DEF Reached
  <2>4. b \in Tree /\ b \in 0..m /\ b # j0 /\ b # j1
    BY <1>2, <1>5
  <2>5. rk[b] = rank[b] /\ rk[c] = rank[b] + 1 /\ rank[b] \in Nat
    BY <1>1, <1>4, <1>14, <1>17, <2>1, <2>3, <2>4
  <2>6. rk[b] < rk[c] /\ Slack(p[b], c) = 0
    BY <2>2, <2>3, <2>5 DEF Reached
  <2>7. Slack(p[b], c)' = 0
    BY <1>8, <1>10, <2>1, <2>4, <2>6
  <2> QED BY <1>7, <1>15, <2>1, <2>3, <2>4, <2>6, <2>7
<1>18. Edge(j1, rk)'
  <2>1. PICK b \in Tree : b = before
    BY <1>2
  <2>2. way'[j1] = b
    BY <1>2, <1>7, <2>1
  <2>3. b \in 0..m /\ b # j1
    BY <1>2, <1>5
  <2>4. rk[b] = height(before) /\ rk[j1] = height(before) + 1 /\ height(before) \in Nat
    <3> HIDE DEF height, before
    <3> QED BY <1>2, <1>12, <1>14, <2>1, <2>3
  <2>5. rk[b] < rk[j1]
    <3> HIDE DEF height, before
    <3> QED BY <2>4
  <2>6. Slack(p[b], j1) = D
    BY <1>2, <2>1
  <2>7. Slack(p[b], j1)' = 0
    BY <1>2, <1>8, <1>10, <2>6
  <2> QED BY <1>15, <2>2, <2>5, <2>7
<1>19. ASSUME NEW c \in 0..m, Ahead(c, rk)' PROVE Edge(c, rk)'
  <2>1. c # 0 /\ c \in used \cup {j0, j1}
    BY <1>5, <1>7, <1>19 DEF Ahead
  <2>2. CASE c \in used
    BY <1>16, <2>1, <2>2
  <2>3. CASE c = j0
    BY <1>1, <1>17, <1>19, <2>1, <2>3
  <2>4. CASE c = j1
    BY <1>18, <2>4
  <2> QED BY <2>1, <2>2, <2>3, <2>4
<1> QED BY <1>1, <1>14, <1>19 DEF Path


LEMMA InvScan == SolverInv /\ Scan => SolverInv'
<1> SUFFICES ASSUME SolverInv, pc = "scan", NEW j1 \in 1..m, Nearest(j1), Reach(j1)
             PROVE  SolverInv'
  BY DEF Scan
<1> USE DEF SolverInv
<1> DEFINE D == Distance(j1)
<1>1. n \in Nat \ {0} /\ m \in Nat \ {0}
  BY Shape DEF TypeOK
<1>2. n' = n /\ m' = m
  BY SameProblem DEF Reach
<1>3. /\ i \in 1..n /\ Live = 0..m /\ Inserted = 1..i
      /\ Tree \subseteq 0..m /\ 0 \in Tree
      /\ \A x \in Tree : p[x] \in 1..i
  BY TreeFacts
<1>4. j1 \in Outside /\ j1 \in 0..m /\ j1 \notin Tree
  BY <1>1 DEF Nearest, Outside
<1>5. /\ matrix' = matrix /\ p' = p /\ i' = i /\ used' = Tree /\ j0' = j1
      /\ pc' = IF p[j1] = 0 THEN "augment" ELSE "scan"
      /\ \A c \in 0..m : way'[c] = IF c \in Outside /\ Nearer(c) THEN j0 ELSE way[c]
      /\ \A c \in 0..m : minv'[c] = IF c \in Outside THEN Distance(c) - D ELSE minv[c]
  BY DEF Reach
<1>6. D \in Int /\ u' \in [1..n -> Int] /\ v' \in [0..m -> Int]
  BY ReachPrices
<1>7. \A c \in Outside : Distance(c) \in Int
  BY Distances
<1>8. TypeOK'
  <2>1. minv' \in [0..m -> Int \cup {Inf}]
    <3>1. minv' = [c \in 0..m |-> IF c \in Outside THEN Distance(c) - D ELSE minv[c]]
      BY DEF Reach
    <3>2. \A c \in 0..m : minv[c] \in Int \cup {Inf}
      BY DEF TypeOK
    <3> HIDE DEF D
    <3> QED BY <1>6, <1>7, <3>1, <3>2
  <2>2. way' \in [0..m -> 0..m]
    <3>1. way' = [c \in 0..m |-> IF c \in Outside /\ Nearer(c) THEN j0 ELSE way[c]]
      BY DEF Reach
    <3> QED BY <3>1 DEF TypeOK
  <2> QED BY <1>2, <1>3, <1>4, <1>5, <1>6, <2>1, <2>2 DEF TypeOK
<1>9. /\ Live' = IF p[j1] = 0 THEN (0..m) \ {j1} ELSE 0..m
      /\ Inserted' = 1..i /\ Priced' = 1..i
  BY <1>2, <1>3, <1>5 DEF Live, Inserted, Priced
<1>10. Matching'
  <2>1. pc' # "done" /\ i' # (n + 1)'
    BY <1>1, <1>2, <1>3, <1>5
  <2>2. \A c \in Live' : p'[c] = 0 \/ p'[c] \in Inserted'
    BY <1>3, <1>5, <1>9 DEF Matching
  <2>3. ASSUME NEW r \in Inserted' PROVE \E c \in Live' : p'[c] = r
    <3>1. PICK c \in Live : p[c] = r
      BY <1>3, <1>9 DEF Matching
    <3>2. r # 0
      BY <1>3, <1>9
    <3> QED BY <1>3, <1>5, <1>9, <3>1, <3>2
  <2>4. \A c, d \in Live' : p'[c] = p'[d] /\ p'[c] # 0 => c = d
    BY <1>3, <1>5, <1>9 DEF Matching
  <2> QED BY <2>1, <2>2, <2>3, <2>4 DEF Matching
<1>11. Prices'
  <2>1. \A r \in Priced', c \in (1..m)' : Slack(r, c)' >= 0
    BY <1>2, <1>9, ScanPrices
  <2>2. ASSUME NEW c \in Live' \ {0}, p'[c] # 0 PROVE Slack(p[c], c)' = 0
    <3>1. c \in 1..m /\ p[c] # 0
      BY <1>1, <1>5, <1>9, <2>2
    <3> QED BY <3>1, ScanPrices
  <2>3. \A c \in (1..m)' : v'[c] <= 0 /\ (v'[c] # 0 => p'[c] # 0)
    BY <1>2, <1>5, ScanPrices
  <2> QED BY <2>1, <2>2, <2>3 DEF Prices
<1>12. Search'
  <2>1. \A c \in used' : p'[c] # 0
    BY <1>3, <1>5
  <2>2. \E rank : Path(rank)'
    BY ScanPath
  <2>3. j0' # 0 /\ j0' \notin used' /\ used' # {} /\ 0 \in used'
    BY <1>1, <1>3, <1>4, <1>5
  <2>4. p'[0] = i'
    BY <1>5 DEF Search
  <2>5. minv'[j0'] = 0
    <3> HIDE DEF D
    <3>1. minv'[j1] = Distance(j1) - D
      BY <1>4, <1>5
    <3> QED BY <1>5, <1>6, <3>1 DEF D
  <2>6. ASSUME NEW c \in 1..m, c \notin Tree PROVE Reached(c)'
    <3>1. c \in Outside /\ c \in 0..m
      BY <1>1, <2>6 DEF Outside
    <3>2. PICK b \in Tree : b = IF Nearer(c) THEN j0 ELSE way[c]
      BY <3>1, Distances
    <3>3. way'[c] = b /\ minv'[c] = Distance(c) - D /\ Distance(c) \in Int
      BY <1>5, <1>7, <3>1, <3>2
    <3>4. Slack(p[b], c) = Distance(c) /\ \A x \in Tree : Distance(c) <= Slack(p[x], c)
      BY <3>1, <3>2, Distances
    <3>5. ASSUME NEW x \in Tree
          PROVE  Slack(p[x], c) \in Int /\ Slack(p[x], c)' = Slack(p[x], c) - D
      <4>1. PICK r \in 1..n : r = p[x]
        BY <1>1, <1>3
      <4>2. RowInTree(r)
        BY <4>1 DEF RowInTree
      <4>3. Slack(r, c)' = Slack(r, c) + (IF c \in Tree THEN D ELSE 0)
                                     - (IF RowInTree(r) THEN D ELSE 0)
        BY ReachPrices
      <4>4. Slack(r, c) \in Int
        BY SlackType
      <4>5. Slack(p[x], c)' = Slack(r, c)'
        BY <1>5, <4>1 DEF Slack
      <4> QED BY <1>6, <2>6, <4>1, <4>2, <4>3, <4>4, <4>5
    <3>6. minv'[c] \in Int /\ way'[c] \in used'
      BY <1>5, <1>6, <3>3
    <3>7. Slack(p[way[c]], c)' = minv'[c]
      <4>1. Slack(p[way[c]], c)' = Slack(p[b], c)'
        BY <3>3 DEF Slack
      <4> QED BY <3>3, <3>4, <3>5, <4>1
    <3>8. ASSUME NEW x \in Tree PROVE minv'[c] <= Slack(p[x], c)'
      <4>1. Slack(p[x], c) \in Int /\ Slack(p[x], c)' = Slack(p[x], c) - D
        BY <3>5
      <4>2. Distance(c) <= Slack(p[x], c)
        BY <3>4
      <4> QED BY <1>6, <3>3, <4>1, <4>2
    <3> QED BY <1>5, <3>6, <3>7, <3>8 DEF Reached
  <2>7. \A c \in (1..m)' : c \notin used' => Reached(c)'
    BY <1>2, <1>5, <2>6
  <2> QED BY <1>5, <2>1, <2>2, <2>3, <2>4, <2>5, <2>7 DEF Search
<1> QED BY <1>8, <1>10, <1>11, <1>12

-----------------------------------------------------------------------------
(* The theorems *)

LEMMA InvNext == SolverInv /\ [Next]_vars => SolverInv'
<1> SUFFICES ASSUME SolverInv, [Next]_vars PROVE SolverInv'
  OBVIOUS
<1>1. CASE BeginRow
  BY <1>1, InvBeginRow
<1>2. CASE Scan
  BY <1>2, InvScan
<1>3. CASE Augment
  BY <1>3, InvAugment
<1>4. CASE UNCHANGED vars
  <2> USE <1>4 DEF vars
  <2>1. n' = n /\ m' = m /\ \A r, c : Cost(r, c)' = Cost(r, c)
    BY DEF n, m, Cost, Transposed
  <2>2. TypeOK' /\ Live' = Live /\ Inserted' = Inserted /\ Priced' = Priced
    BY <2>1 DEF SolverInv, TypeOK, Live, Inserted, Priced
  <2>3. \A r, c : Slack(r, c)' = Slack(r, c)
    BY <2>1 DEF Slack
  <2>4. Matching'
    BY <2>1, <2>2 DEF SolverInv, Matching
  <2>5. Prices'
    <3>1. \A c : Slack(p[c], c)' = Slack(p[c], c)
      BY <2>3 DEF Slack
    <3> QED BY <2>1, <2>2, <2>3, <3>1 DEF SolverInv, Prices
  <2>6. Search'
    <3>1. \A x, c : Slack(p[x], c)' = Slack(p[x], c)
      BY <2>3 DEF Slack
    <3>2. \A c : Slack(p[way[c]], c)' = Slack(p[way[c]], c)
      BY <2>3 DEF Slack
    <3>3. \A c : Reached(c)' <=> Reached(c)
      BY <3>1, <3>2 DEF Reached
    <3>4. \A rank : Path(rank)' <=> Path(rank)
      BY <2>1, <3>2 DEF Path, Ahead, Edge
    <3> QED BY <2>1, <3>3, <3>4 DEF SolverInv, Search
  <2> QED BY <2>2, <2>4, <2>5, <2>6 DEF SolverInv
<1> QED BY <1>1, <1>2, <1>3, <1>4 DEF Next, Step

\* The algorithm keeps its invariant: the inserted rows have distinct columns,
\* no reduced cost of theirs is below zero, that of a matched pair is zero.
THEOREM SolverSafe == Spec => []SolverInv
<1>1. Init => SolverInv
  BY InvInit
<1>2. SolverInv /\ [Next]_vars => SolverInv'
  BY InvNext
<1> QED BY <1>1, <1>2, PTL DEF Spec


\* The scan of SolveLAP always finds a column outside the tree, so its shortest
\* distance is never Inf: the columns of the tree hold different rows, and
\* there are not more rows than columns 1..m.
THEOREM ColumnLeft == Spec => [](pc = "scan" => Outside # {})
<1>1. SolverInv => (pc = "scan" => Outside # {})
  <2> SUFFICES ASSUME SolverInv, pc = "scan", Outside = {} PROVE FALSE
    OBVIOUS
  <2>1. n \in Nat \ {0} /\ m \in Nat \ {0} /\ n <= m
    BY Shape DEF SolverInv, TypeOK
  <2>2. /\ i \in 1..n /\ Live = 0..m /\ 0 \in Tree
        /\ \A x \in Tree : p[x] \in 1..n
    BY TreeFacts
  <2>3. \A x \in 0..m : x \in Tree
    BY <2>1, <2>2 DEF Outside
  <2>4. \A x, y \in 0..m : p[x] = p[y] => x = y
    BY <2>2, <2>3 DEF SolverInv, Matching
  <2>5. p \in Injection(0..m, 1..n)
    <3>1. p = [x \in 0..m |-> p[x]]
      BY DEF SolverInv, TypeOK
    <3>2. p \in [0..m -> 1..n]
      BY <2>2, <2>3, <3>1
    <3> QED BY <2>4, <3>2 DEF Injection, IsInjective
  <2>6. /\ IsFiniteSet(1..n) /\ Cardinality(1..n) = n
        /\ IsFiniteSet(0..m) /\ Cardinality(0..m) = m + 1
    BY <2>1, FS_Interval
  <2>7. Cardinality(0..m) <= Cardinality(1..n)
    BY <2>5, <2>6, FS_Injection
  <2> QED BY <2>1, <2>6, <2>7
<1> QED BY <1>1, SolverSafe, PTL

\* What the solver leaves: every row matched to a column of its own, every
\* reduced cost at or above zero and that of a matched pair zero.
LEMMA Solved ==
  ASSUME SolverInv, pc = "done"
  PROVE  /\ n \in Nat \ {0} /\ m \in Nat \ {0} /\ n <= m
         /\ \A r \in 1..n, c \in 1..m : Cost(r, c) \in Int /\ Slack(r, c) >= 0
         /\ \A c \in 1..m : p[c] # 0 => Slack(p[c], c) = 0
         /\ \A c \in 1..m : v[c] <= 0 /\ (v[c] # 0 => p[c] # 0)
         /\ \A c \in 1..m : p[c] = 0 \/ p[c] \in 1..n
         /\ \A r \in 1..n : \E c \in 1..m : p[c] = r
         /\ \A c, d \in 1..m : p[c] = p[d] /\ p[c] # 0 => c = d
         /\ \A r \in 1..n : u[r] \in Int
         /\ \A c \in 1..m : v[c] \in Int
<1> USE DEF SolverInv
<1>1. /\ n \in Nat \ {0} /\ m \in Nat \ {0} /\ n <= m
      /\ \A a \in 1..n, b \in 1..m : Cost(a, b) \in Int
  BY Shape DEF TypeOK
<1>2. Live = 1..m /\ Inserted = 1..n /\ Priced = 1..n
  <2>1. i = n + 1 /\ i - 1 = n
    BY <1>1 DEF Matching
  <2> QED BY <2>1 DEF Live, Inserted, Priced
<1>3. /\ \A a \in 1..n, b \in 1..m : Slack(a, b) >= 0
      /\ \A b \in 1..m : p[b] # 0 => Slack(p[b], b) = 0
      /\ \A b \in 1..m : v[b] <= 0 /\ (v[b] # 0 => p[b] # 0)
  BY <1>1, <1>2 DEF Prices
<1>4. /\ \A b \in 1..m : p[b] = 0 \/ p[b] \in 1..n
      /\ \A a \in 1..n : \E b \in 1..m : p[b] = a
      /\ \A b, d \in 1..m : p[b] = p[d] /\ p[b] # 0 => b = d
  BY <1>2 DEF Matching
<1>5. \A a \in 1..n : u[a] \in Int
  BY DEF TypeOK
<1>6. \A b \in 1..m : v[b] \in Int
  <2>1. \A b \in 1..m : b \in 0..m
    BY <1>1
  <2> QED BY <2>1 DEF TypeOK
<1> QED BY <1>1, <1>3, <1>4, <1>5, <1>6

\* The prices of what is assigned before pairs are taken out: complementary
\* slackness, on whichever side the longer one is.
LEMMA AssignedPrices ==
  ASSUME SolverInv, pc = "done", NEW r \in 1..matrix.rows, NEW c \in 1..matrix.cols
  PROVE  /\ matrix.at[<<r, c>>] <= RowDual(r) + ColDual(c)
         /\ Assigned(r) = c => matrix.at[<<r, c>>] = RowDual(r) + ColDual(c)
         /\ Transposed => RowDual(r) >= 0 /\ (Assigned(r) = 0 => RowDual(r) = 0)
         /\ ~Transposed =>
              /\ ColDual(c) >= 0
              /\ (\A q \in 1..matrix.rows : Assigned(q) # c) => ColDual(c) = 0
<1> USE DEF SolverInv
<1>1. /\ n \in Nat \ {0} /\ m \in Nat \ {0} /\ n <= m
      /\ \A a \in 1..n, b \in 1..m : Cost(a, b) \in Int
  BY Solved
<1>3. /\ \A a \in 1..n, b \in 1..m : Slack(a, b) >= 0
      /\ \A b \in 1..m : p[b] # 0 => Slack(p[b], b) = 0
      /\ \A b \in 1..m : v[b] <= 0 /\ (v[b] # 0 => p[b] # 0)
  BY Solved
<1>4. \A b \in 1..m : p[b] = 0 \/ p[b] \in 1..n
  BY Solved
<1>5. \A b, d \in 1..m : p[b] = p[d] /\ p[b] # 0 => b = d
  BY Solved
<1>6. \A a \in 1..n : u[a] \in Int
  BY Solved
<1>7. \A b \in 1..m : v[b] \in Int
  BY Solved
<1>8. CASE Transposed
  <2>1. r \in 1..m /\ c \in 1..n
    BY <1>8 DEF n, m
  <2>2. Slack(c, r) = -matrix.at[<<r, c>>] - u[c] - v[r] /\ Slack(c, r) >= 0
    BY <1>3, <1>8, <2>1 DEF Slack, Cost
  <2>3. -matrix.at[<<r, c>>] \in Int /\ u[c] \in Int /\ v[r] \in Int
    BY <1>1, <1>6, <1>7, <1>8, <2>1 DEF Cost
  <2>4. matrix.at[<<r, c>>] \in Int
    BY <2>1, <1>8, MatrixAssumption DEF TypeOK
  <2>5. RowDual(r) = -v[r] /\ ColDual(c) = -u[c] /\ Assigned(r) = p[r]
    BY <1>8 DEF RowDual, ColDual, Assigned
  <2>6. matrix.at[<<r, c>>] <= RowDual(r) + ColDual(c)
    BY <2>2, <2>3, <2>4, <2>5
  <2>7. ASSUME Assigned(r) = c PROVE matrix.at[<<r, c>>] = RowDual(r) + ColDual(c)
    <3>1. p[r] = c /\ c # 0
      BY <1>1, <2>1, <2>5, <2>7
    <3>2. Slack(c, r) = 0
      BY <1>3, <2>1, <3>1
    <3> QED BY <2>2, <2>3, <2>4, <2>5, <3>2
  <2>8. RowDual(r) >= 0 /\ (Assigned(r) = 0 => RowDual(r) = 0)
    BY <1>3, <2>1, <2>3, <2>5
  <2> QED BY <1>8, <2>6, <2>7, <2>8
<1>9. CASE ~Transposed
  <2>1. r \in 1..n /\ c \in 1..m /\ n = matrix.rows
    BY <1>9 DEF n, m
  <2>2. Slack(r, c) = -matrix.at[<<r, c>>] - u[r] - v[c] /\ Slack(r, c) >= 0
    BY <1>3, <1>9, <2>1 DEF Slack, Cost
  <2>3. u[r] \in Int /\ v[c] \in Int
    BY <1>6, <1>7, <2>1
  <2>4. matrix.at[<<r, c>>] \in Int
    <3>1. <<r, c>> \in (1..matrix.rows) \X (1..matrix.cols)
      OBVIOUS
    <3> QED BY <3>1, MatrixAssumption DEF TypeOK
  <2>5. RowDual(r) = -u[r] /\ ColDual(c) = -v[c]
    BY <1>9 DEF RowDual, ColDual
  <2>6. matrix.at[<<r, c>>] <= RowDual(r) + ColDual(c)
    BY <2>2, <2>3, <2>4, <2>5
  <2>7. ASSUME NEW a \in 1..n, NEW b \in 1..m
        PROVE  Assigned(a) = b <=> p[b] = a
    <3>1. CASE Columns(a) = {}
      <4>1. Assigned(a) = 0 /\ p[b] # a
        BY <1>9, <3>1 DEF Assigned, Columns
      <4> QED BY <1>1, <4>1
    <3>2. CASE Columns(a) # {}
      <4>1. \E d \in 1..m : p[d] = a
        BY <3>2 DEF Columns
      <4>2. Assigned(a) \in 1..m /\ p[Assigned(a)] = a
        BY <1>9, <3>2, <4>1 DEF Assigned
      <4>3. a # 0
        BY <1>1
      <4> QED BY <1>5, <4>2, <4>3
    <3> QED BY <3>1, <3>2
  <2>8. ASSUME Assigned(r) = c PROVE matrix.at[<<r, c>>] = RowDual(r) + ColDual(c)
    <3>1. p[c] = r /\ r # 0
      BY <1>1, <2>1, <2>7, <2>8
    <3>2. Slack(r, c) = 0
      BY <1>3, <2>1, <3>1
    <3> QED BY <2>2, <2>3, <2>4, <2>5, <3>2
  <2>9. ColDual(c) >= 0
    BY <1>3, <2>1, <2>3, <2>5
  <2>10. ASSUME \A q \in 1..matrix.rows : Assigned(q) # c PROVE ColDual(c) = 0
    <3>1. p[c] = 0
      <4>1. ASSUME NEW a \in 1..n, p[c] = a PROVE FALSE
        BY <2>1, <2>7, <2>10, <4>1
      <4> QED BY <1>4, <2>1, <4>1
    <3>2. v[c] = 0
      BY <1>3, <2>1, <3>1
    <3>3. \A x \in Int : x <= 0 /\ x >= 0 => -x = 0
      OBVIOUS
    <3>4. v[c] \in Int /\ v[c] <= 0 /\ v[c] >= 0
      BY <2>3, <3>2
    <3> QED BY <2>5, <3>3, <3>4
  <2> QED BY <1>9, <2>6, <2>8, <2>9, <2>10
<1> QED BY <1>8, <1>9

\* Nobody is assigned twice, and to nobody that is not there.
LEMMA AssignedOnce ==
  ASSUME SolverInv, pc = "done"
  PROVE  /\ \A r \in 1..matrix.rows : Assigned(r) \in 0..matrix.cols
         /\ \A r, q \in 1..matrix.rows : Assigned(r) = Assigned(q) /\ Assigned(r) # 0 => r = q
<1>1. /\ n \in Nat \ {0} /\ m \in Nat \ {0}
      /\ \A b \in 1..m : p[b] = 0 \/ p[b] \in 1..n
      /\ \A a \in 1..n : \E b \in 1..m : p[b] = a
      /\ \A b, d \in 1..m : p[b] = p[d] /\ p[b] # 0 => b = d
  BY Solved
<1>2. CASE Transposed
  <2>1. n = matrix.cols /\ m = matrix.rows /\ \A r \in 1..m : Assigned(r) = p[r]
    BY <1>2 DEF n, m, Assigned
  <2> QED BY <1>1, <2>1
<1>3. CASE ~ Transposed
  <2>1. n = matrix.rows /\ m = matrix.cols
    BY <1>3 DEF n, m
  <2>2. ASSUME NEW r \in 1..n PROVE Assigned(r) \in 1..m /\ p[Assigned(r)] = r
    <3>1. \E d \in 1..m : p[d] = r
      BY <1>1
    <3>2. Columns(r) # {}
      BY <3>1 DEF Columns
    <3> QED BY <1>3, <3>1, <3>2 DEF Assigned
  <2> QED BY <1>1, <2>1, <2>2
<1> QED BY <1>2, <1>3

\* What is left of the assignment are the pairs that cost nothing.
LEMMA PrunedAnswer ==
  ASSUME SolverInv, pc = "done", NEW r \in 1..matrix.rows, NEW c \in 1..matrix.cols
  PROVE  /\ matrix.at[<<r, c>>] \in Int
         /\ RowToCol(r) = c <=> Assigned(r) = c /\ ~ (matrix.at[<<r, c>>] < 0)
         /\ RowLeft(r) <=> Assigned(r) = 0 \/ Pruned(r)
<1>1. matrix.at[<<r, c>>] \in Int
  BY MatrixAssumption DEF SolverInv, TypeOK
<1>2. c # 0
  BY MatrixAssumption DEF SolverInv, TypeOK
<1>3. CASE Pruned(r)
  <2>1. RowToCol(r) = 0 /\ Assigned(r) # 0 /\ matrix.at[<<r, Assigned(r)>>] < 0
    BY <1>3 DEF RowToCol, Pruned
  <2> QED BY <1>1, <1>2, <1>3, <2>1 DEF RowLeft
<1>4. CASE ~ Pruned(r)
  <2>1. RowToCol(r) = Assigned(r)
    BY <1>4 DEF RowToCol
  <2>2. Assigned(r) # 0 => ~ (matrix.at[<<r, Assigned(r)>>] < 0)
    BY <1>4 DEF Pruned
  <2> QED BY <1>1, <1>2, <1>4, <2>1, <2>2 DEF RowLeft
<1> QED BY <1>3, <1>4

\* Who is assigned to each other and taken out is a worthless pair.
LEMMA PrunedPair ==
  ASSUME SolverInv, pc = "done", NEW r \in 1..matrix.rows, Pruned(r)
  PROVE  Assigned(r) \in 1..matrix.cols /\ Worthless(r, Assigned(r))
<1> DEFINE c == Assigned(r)
<1>1. c \in 1..matrix.cols
  <2>1. c \in 0..matrix.cols /\ c # 0
    BY AssignedOnce DEF Pruned
  <2> QED BY <2>1, MatrixAssumption DEF SolverInv, TypeOK
<1>2. matrix.at[<<r, c>>] < 0
  BY DEF Pruned
<1>3. matrix.at[<<r, c>>] = RowDual(r) + ColDual(c)
  BY <1>1, AssignedPrices
<1>4. RowLeft(r)
  BY <1>1, PrunedAnswer
<1>5. ASSUME NEW q \in 1..matrix.rows PROVE RowToCol(q) # c
  <2>1. SUFFICES ASSUME RowToCol(q) = c PROVE FALSE
    OBVIOUS
  <2>2. Assigned(q) = c /\ ~ (matrix.at[<<q, c>>] < 0)
    BY <1>1, <2>1, PrunedAnswer
  <2>3. q = r
    BY <2>2, AssignedOnce DEF Pruned
  <2> QED BY <1>2, <2>2, <2>3
<1> QED BY <1>1, <1>2, <1>3, <1>4, <1>5 DEF Worthless, ColLeft

\* The duals SolveLAP returns are shadow prices of the assignment it returns,
\* whatever the payouts, on whichever side the longer one is, and although
\* negative pairs were taken out of the assignment the prices belong to.
THEOREM PricesAreShadowPrices == Spec => []ShadowPrices
<1>1. SolverInv => ShadowPrices
  <2> SUFFICES ASSUME SolverInv, pc = "done",
                      NEW r \in 1..matrix.rows, NEW c \in 1..matrix.cols
               PROVE  /\ matrix.at[<<r, c>>] <= RowDual(r) + ColDual(c)
                      /\ RowToCol(r) = c => matrix.at[<<r, c>>] = RowDual(r) + ColDual(c)
                      /\ Transposed =>
                           /\ RowDual(r) >= 0
                           /\ RowLeft(r) =>
                                RowDual(r) = 0 \/ \E d \in 1..matrix.cols : Worthless(r, d)
                      /\ ~Transposed =>
                           /\ ColDual(c) >= 0
                           /\ ColLeft(c) =>
                                ColDual(c) = 0 \/ \E q \in 1..matrix.rows : Worthless(q, c)
    BY DEF ShadowPrices
  <2>1. /\ matrix.at[<<r, c>>] <= RowDual(r) + ColDual(c)
        /\ RowToCol(r) = c => matrix.at[<<r, c>>] = RowDual(r) + ColDual(c)
    BY AssignedPrices, PrunedAnswer
  <2>2. ASSUME Transposed, RowLeft(r), RowDual(r) # 0
        PROVE  \E d \in 1..matrix.cols : Worthless(r, d)
    <3>1. Assigned(r) # 0
      BY <2>2, AssignedPrices
    <3>2. Pruned(r)
      BY <2>2, <3>1, PrunedAnswer
    <3> QED BY <3>2, PrunedPair
  <2>3. ASSUME ~ Transposed, ColLeft(c), ColDual(c) # 0
        PROVE  \E q \in 1..matrix.rows : Worthless(q, c)
    <3>1. PICK q \in 1..matrix.rows : Assigned(q) = c
      BY <2>3, AssignedPrices
    <3>2. RowToCol(q) # c
      BY <2>3 DEF ColLeft
    <3>3. Pruned(q)
      BY <3>1, <3>2 DEF RowToCol
    <3> QED BY <3>1, <3>3, PrunedPair
  <2> QED BY <2>1, <2>2, <2>3, AssignedPrices
<1> QED BY <1>1, SolverSafe, PTL

-----------------------------------------------------------------------------
(* Sums over sets *)

\* A set of subsets of a finite set has a member no other one is part of.
LEMMA MinimalSet ==
  ASSUME NEW S, IsFiniteSet(S), NEW F \in SUBSET (SUBSET S), F # {}
  PROVE  \E T \in F : \A U \in F : U \subseteq T => U = T
<1>1. IsWellFoundedOn(StrictSubsetOrdering(S), FiniteSubsetsOf(S))
  BY FS_StrictSubsetOrderingWellFounded
<1>2. F \subseteq FiniteSubsetsOf(S)
  <2>1. \A T \in SUBSET S : IsFiniteSet(T)
    BY FS_Subset
  <2> QED BY <2>1 DEF FiniteSubsetsOf
<1>3. PICK T \in F : \A U \in F : ~ (<<U, T>> \in StrictSubsetOrdering(S))
  BY <1>1, <1>2, WFMin
<1> QED BY <1>3 DEF StrictSubsetOrdering

\* What a function adds up to over a set.
Total(f, S) == MapThenSumSet(LAMBDA x : f[x], S)

\* What the recursion of MapThenSumSet asks of the sums over the parts of S.
Sums(g, f, S) ==
  g = [s \in SUBSET S |->
        IF s = {} THEN 0 ELSE f[CHOOSE x \in s : TRUE] + g[s \ {CHOOSE x \in s : TRUE}]]

LEMMA TotalIs ==
  ASSUME NEW f, NEW S
  PROVE  Total(f, S) = (CHOOSE g : Sums(g, f, S))[S]
BY Zenon DEF Total, MapThenSumSet, MapThenFoldSet, Sums

LEMMA SumsStep ==
  ASSUME NEW f, NEW S, NEW g, Sums(g, f, S), NEW s \in SUBSET S
  PROVE  /\ s = {} => g[s] = 0
         /\ s # {} => \E x \in s : /\ x = CHOOSE y \in s : TRUE
                                   /\ g[s] = f[x] + g[s \ {x}]
<1>1. g = [t \in SUBSET S |->
        IF t = {} THEN 0 ELSE f[CHOOSE x \in t : TRUE] + g[t \ {CHOOSE x \in t : TRUE}]]
  BY DEF Sums
<1>2. g[s] = IF s = {} THEN 0 ELSE f[CHOOSE x \in s : TRUE] + g[s \ {CHOOSE x \in s : TRUE}]
  BY <1>1, Zenon
<1> QED BY <1>2

LEMMA SumsAgree ==
  ASSUME NEW f, NEW S, IsFiniteSet(S), NEW T \in SUBSET S,
         NEW g, Sums(g, f, S), NEW h, Sums(h, f, T)
  PROVE  g[T] = h[T]
<1> DEFINE F == {a \in SUBSET T : g[a] # h[a]}
<1>1. F = {}
  <2> SUFFICES ASSUME F # {} PROVE FALSE
    OBVIOUS
  <2>1. IsFiniteSet(T) /\ F \in SUBSET (SUBSET T)
    BY FS_Subset
  <2>2. PICK a \in F : \A b \in F : b \subseteq a => b = a
    <3> HIDE DEF F
    <3> QED BY <2>1, MinimalSet
  <2>3. a \in SUBSET T /\ a \in SUBSET S /\ g[a] # h[a]
    OBVIOUS
  <2>4. a # {}
    BY <2>3, SumsStep
  <2>5. PICK x \in a : x = (CHOOSE y \in a : TRUE) /\ g[a] = f[x] + g[a \ {x}]
    BY <2>3, <2>4, SumsStep
  <2>6. h[a] = f[x] + h[a \ {x}]
    <3>1. \E y \in a : y = (CHOOSE z \in a : TRUE) /\ h[a] = f[y] + h[a \ {y}]
      BY <2>3, <2>4, SumsStep
    <3> QED BY <2>5, <3>1
  <2>7. g[a \ {x}] = h[a \ {x}]
    BY <2>2, <2>3, <2>5
  <2> QED BY <2>3, <2>5, <2>6, <2>7
<1> QED BY <1>1

LEMMA SumsExist ==
  ASSUME NEW f, NEW S, IsFiniteSet(S)
  PROVE  \E g : Sums(g, f, S)
<1> DEFINE F == {a \in SUBSET S : ~ \E g : Sums(g, f, a)}
<1>1. F = {}
  <2> SUFFICES ASSUME F # {} PROVE FALSE
    OBVIOUS
  <2>1. PICK a \in F : \A b \in F : b \subseteq a => b = a
    <3>1. F \in SUBSET (SUBSET S)
      OBVIOUS
    <3> HIDE DEF F
    <3> QED BY <3>1, MinimalSet
  <2>2. a \in SUBSET S /\ IsFiniteSet(a) /\ ~ \E g : Sums(g, f, a)
    BY FS_Subset
  <2> DEFINE below(b) == CHOOSE g : Sums(g, f, b)
             pick(b) == CHOOSE y \in b : TRUE
             g == [b \in SUBSET a |-> IF b = {} THEN 0
                                      ELSE f[pick(b)] + below(b \ {pick(b)})[b \ {pick(b)}]]
  <2>3. \A b \in SUBSET a : b # a => IsFiniteSet(b) /\ Sums(below(b), f, b)
    <3> SUFFICES ASSUME NEW b \in SUBSET a, b # a PROVE IsFiniteSet(b) /\ Sums(below(b), f, b)
      OBVIOUS
    <3>1. IsFiniteSet(b)
      BY <2>2, FS_Subset
    <3>2. b \in SUBSET S /\ b \notin F
      BY <2>1, <2>2
    <3>3. \E k : Sums(k, f, b)
      BY <3>2
    <3>4. Sums(below(b), f, b)
      BY <3>3, Zenon
    <3> QED BY <3>1, <3>4
  <2>4. \A b \in SUBSET a : b # {} => pick(b) \in b
    OBVIOUS
  <2>5. \A b \in SUBSET a : b # a => g[b] = below(b)[b]
    <3> SUFFICES ASSUME NEW b \in SUBSET a, b # a PROVE g[b] = below(b)[b]
      OBVIOUS
    <3>1. Sums(below(b), f, b) /\ IsFiniteSet(b)
      BY <2>3
    <3>2. CASE b = {}
      <4>1. below(b)[b] = 0
        BY <3>1, <3>2, SumsStep
      <4>2. g[b] = 0
        BY <3>2, Zenon
      <4> QED BY <4>1, <4>2
    <3>3. CASE b # {}
      <4> DEFINE x == pick(b)
                 r == b \ {x}
      <4>1. x \in b /\ r \in SUBSET b /\ r \in SUBSET a /\ r # a
        BY <2>4, <3>3
      <4>2. g[b] = f[x] + below(r)[r]
        BY <3>3, Zenon
      <4>3. below(b)[b] = f[x] + below(b)[r]
        <5> HIDE DEF below
        <5>1. \E y \in b : y = pick(b) /\ below(b)[b] = f[y] + below(b)[b \ {y}]
          BY <3>1, <3>3, SumsStep
        <5> QED BY <5>1
      <4>4. Sums(below(r), f, r)
        BY <2>3, <4>1
      <4> HIDE DEF below, r, x
      <4>5. below(b)[r] = below(r)[r]
        BY <3>1, <4>1, <4>4, SumsAgree
      <4> QED BY <4>2, <4>3, <4>5
    <3> QED BY <3>2, <3>3
  <2>6. \A b \in SUBSET a : b # {} => g[b] = f[pick(b)] + g[b \ {pick(b)}]
    <3> SUFFICES ASSUME NEW b \in SUBSET a, b # {}
                 PROVE  g[b] = f[pick(b)] + g[b \ {pick(b)}]
      OBVIOUS
    <3> DEFINE r == b \ {pick(b)}
    <3>1. g[b] = f[pick(b)] + below(r)[r]
      BY Zenon
    <3>2. r \in SUBSET a /\ r # a
      BY <2>4
    <3>3. g[r] = below(r)[r]
      BY <2>5, <3>2
    <3> QED BY <3>1, <3>3
  <2>7. g[{}] = 0
    BY Zenon
  <2>8. Sums(g, f, a)
    <3> DEFINE q == [b \in SUBSET a |->
          IF b = {} THEN 0 ELSE f[pick(b)] + g[b \ {pick(b)}]]
    <3>1. \A b \in SUBSET a : g[b] = q[b]
      <4> SUFFICES ASSUME NEW b \in SUBSET a PROVE g[b] = q[b]
        OBVIOUS
      <4>1. q[b] = IF b = {} THEN 0 ELSE f[pick(b)] + g[b \ {pick(b)}]
        BY Zenon
      <4> HIDE DEF g, q
      <4> QED BY <2>6, <2>7, <4>1
    <3>2. g = q
      <4>1. g = [b \in SUBSET a |-> g[b]]
        OBVIOUS
      <4>2. q = [b \in SUBSET a |-> q[b]]
        OBVIOUS
      <4> HIDE DEF g, q
      <4> QED BY <3>1, <4>1, <4>2
    <3> HIDE DEF g
    <3> QED BY <3>2, Zenon DEF Sums
  <2> QED BY <2>2, <2>8
<1> QED BY <1>1

\* The total over no element is 0, that over a set is that of an element and of
\* the others.
LEMMA TotalEmpty ==
  ASSUME NEW f
  PROVE  Total(f, {}) = 0
<1>1. IsFiniteSet({}) /\ {} \in SUBSET {}
  BY FS_EmptySet
<1>2. Sums(CHOOSE g : Sums(g, f, {}), f, {})
  BY <1>1, SumsExist
<1> QED BY <1>1, <1>2, TotalIs, SumsStep

LEMMA TotalPick ==
  ASSUME NEW f, NEW S, IsFiniteSet(S), S # {}
  PROVE  \E x \in S : Total(f, S) = f[x] + Total(f, S \ {x})
<1> DEFINE q(T) == CHOOSE g : Sums(g, f, T)
<1>1. \A T \in SUBSET S : IsFiniteSet(T)
  BY FS_Subset
<1>2. \A T \in SUBSET S : Sums(q(T), f, T)
  <2> SUFFICES ASSUME NEW T \in SUBSET S PROVE Sums(q(T), f, T)
    OBVIOUS
  <2>1. \E g : Sums(g, f, T)
    BY <1>1, SumsExist
  <2> QED BY <2>1, Zenon
<1>3. \A T \in SUBSET S : Total(f, T) = q(T)[T]
  BY TotalIs
<1> HIDE DEF q
<1>4. PICK x \in S : q(S)[S] = f[x] + q(S)[S \ {x}]
  BY <1>2, SumsStep
<1>5. q(S)[S \ {x}] = q(S \ {x})[S \ {x}]
  BY <1>2, SumsAgree
<1> QED BY <1>3, <1>4, <1>5

LEMMA TotalInt ==
  ASSUME NEW f, NEW S, IsFiniteSet(S), \A e \in S : f[e] \in Int
  PROVE  Total(f, S) \in Int
<1> DEFINE F == {a \in SUBSET S : Total(f, a) \notin Int}
<1>1. F = {}
  <2> SUFFICES ASSUME F # {} PROVE FALSE
    OBVIOUS
  <2>1. F \in SUBSET (SUBSET S) /\ \A a \in F : Total(f, a) \notin Int
    OBVIOUS
  <2>2. \A a \in SUBSET S : a \notin F => Total(f, a) \in Int
    OBVIOUS
  <2> HIDE DEF F
  <2>3. PICK a \in F : \A b \in F : b \subseteq a => b = a
    BY <2>1, MinimalSet
  <2>4. a # {}
    <3> SUFFICES ASSUME a = {} PROVE FALSE
      OBVIOUS
    <3>1. Total(f, a) = 0
      BY TotalEmpty
    <3>2. Total(f, a) \notin Int
      BY <2>1
    <3> QED BY <3>1, <3>2
  <2>5. IsFiniteSet(a)
    BY <2>1, FS_Subset
  <2>6. PICK x \in a : Total(f, a) = f[x] + Total(f, a \ {x})
    BY <2>4, <2>5, TotalPick
  <2>7. a \ {x} \in SUBSET S /\ a \ {x} \notin F /\ f[x] \in Int
    BY <2>1, <2>3
  <2>8. Total(f, a \ {x}) \in Int
    BY <2>2, <2>7
  <2> QED BY <2>1, <2>6, <2>7, <2>8
<1> QED BY <1>1

LEMMA TotalRemove ==
  ASSUME NEW f, NEW S, IsFiniteSet(S), \A e \in S : f[e] \in Int, NEW x \in S
  PROVE  Total(f, S) = f[x] + Total(f, S \ {x})
<1> DEFINE Splits(a, y) == Total(f, a) = f[y] + Total(f, a \ {y})
           F == {a \in SUBSET S : \E y \in a : ~ Splits(a, y)}
<1>1. F = {}
  <2> SUFFICES ASSUME F # {} PROVE FALSE
    OBVIOUS
  <2>1. F \in SUBSET (SUBSET S) /\ \A a \in F : \E y \in a : ~ Splits(a, y)
    OBVIOUS
  <2>2. \A a \in SUBSET S : a \notin F => \A y \in a : Splits(a, y)
    OBVIOUS
  <2> HIDE DEF F
  <2>3. PICK a \in F : \A b \in F : b \subseteq a => b = a
    BY <2>1, MinimalSet
  <2>4. PICK y \in a : ~ Splits(a, y)
    BY <2>1
  <2>5. PICK z \in a : Splits(a, z)
    <3>1. IsFiniteSet(a)
      BY <2>1, FS_Subset
    <3> QED BY <2>4, <3>1, TotalPick
  <2>6. y # z
    BY <2>4, <2>5
  <2>7. a \ {y} \notin F /\ a \ {z} \notin F /\ a \in SUBSET S
    BY <2>1, <2>3
  <2>8. Splits(a \ {y}, z) /\ Splits(a \ {z}, y)
    BY <2>2, <2>6, <2>7
  <2>9. (a \ {y}) \ {z} = (a \ {z}) \ {y}
    OBVIOUS
  <2>10. f[y] \in Int /\ f[z] \in Int /\ Total(f, (a \ {z}) \ {y}) \in Int
    <3>1. IsFiniteSet((a \ {z}) \ {y}) /\ (a \ {z}) \ {y} \subseteq S
      BY <2>7, FS_Subset
    <3> QED BY <2>7, <3>1, TotalInt
  <2> HIDE DEF Splits
  <2>11. /\ Total(f, a) = f[z] + Total(f, a \ {z})
         /\ Total(f, a \ {z}) = f[y] + Total(f, (a \ {z}) \ {y})
         /\ Total(f, a \ {y}) = f[z] + Total(f, (a \ {z}) \ {y})
    BY <2>5, <2>8, <2>9 DEF Splits
  <2>12. Total(f, a) = f[y] + Total(f, a \ {y})
    BY <2>10, <2>11
  <2> QED BY <2>4, <2>12 DEF Splits
<1>2. S \notin F
  BY <1>1
<1> QED BY <1>2

\* h carries J to I, one to one, and g has there what f has in J.
Carries(h, J, f, I, g) ==
  /\ \A e \in J : f[e] \in Int /\ h[e] \in I /\ g[h[e]] = f[e]
  /\ \A e, d \in J : h[e] = h[d] => e = d
  /\ \A k \in I : \E e \in J : k = h[e]

\* Other elements with the same numbers make up as much.
LEMMA TotalMoved ==
  ASSUME NEW h, NEW J, NEW f, NEW I, NEW g, IsFiniteSet(J), Carries(h, J, f, I, g)
  PROVE  Total(g, I) = Total(f, J)
<1> DEFINE Image(a) == {h[e] : e \in a}
           F == {a \in SUBSET J : Total(g, Image(a)) # Total(f, a)}
<1> /\ \A e \in J : f[e] \in Int /\ g[h[e]] = f[e]
    /\ \A e, d \in J : h[e] = h[d] => e = d
  BY DEF Carries
<1>0. \A a \in SUBSET J : IsFiniteSet(a) /\ IsFiniteSet(Image(a))
  <2> SUFFICES ASSUME NEW a \in SUBSET J PROVE IsFiniteSet(a) /\ IsFiniteSet(Image(a))
    OBVIOUS
  <2>1. IsFiniteSet(a)
    BY FS_Subset
  <2> DEFINE onto == [e \in a |-> h[e]]
  <2>2. onto \in Surjection(a, Image(a))
    BY DEF Surjection
  <2> HIDE DEF onto
  <2> QED BY <2>1, <2>2, FS_Surjection
<1>1. F = {}
  <2> SUFFICES ASSUME F # {} PROVE FALSE
    OBVIOUS
  <2>1. F \in SUBSET (SUBSET J) /\ \A a \in F : Total(g, Image(a)) # Total(f, a)
    OBVIOUS
  <2>2. \A a \in SUBSET J : a \notin F => Total(g, Image(a)) = Total(f, a)
    OBVIOUS
  <2> HIDE DEF F
  <2>3. PICK a \in F : \A b \in F : b \subseteq a => b = a
    BY <2>1, MinimalSet
  <2>4. a \in SUBSET J /\ IsFiniteSet(a) /\ IsFiniteSet(Image(a))
    BY <1>0, <2>1
  <2>5. a # {}
    <3>1. Image({}) = {}
      OBVIOUS
    <3> QED BY <2>1, <3>1, TotalEmpty
  <2>6. PICK x \in a : TRUE
    BY <2>5
  <2>7. Total(f, a) = f[x] + Total(f, a \ {x})
    BY <2>4, TotalRemove
  <2>8. Total(g, Image(a)) = g[h[x]] + Total(g, Image(a) \ {h[x]})
    <3>1. h[x] \in Image(a) /\ \A k \in Image(a) : g[k] \in Int
      BY <2>4
    <3> HIDE DEF Image
    <3> QED BY <2>4, <3>1, TotalRemove
  <2>9. Image(a) \ {h[x]} = Image(a \ {x})
    BY <2>4
  <2>10. Total(g, Image(a \ {x})) = Total(f, a \ {x})
    BY <2>2, <2>3, <2>4
  <2>11. g[h[x]] = f[x]
    BY <2>4
  <2> QED BY <2>1, <2>7, <2>8, <2>9, <2>10, <2>11
<1>2. J \notin F
  BY <1>1
<1>3. I = Image(J)
  BY DEF Carries
<1> QED BY <1>2, <1>3

\* A function that is nowhere larger adds up to no more.
LEMMA TotalLeq ==
  ASSUME NEW f, NEW g, NEW S, IsFiniteSet(S),
         \A x \in S : f[x] \in Int /\ g[x] \in Int /\ f[x] <= g[x]
  PROVE  Total(f, S) <= Total(g, S)
<1> DEFINE F == {a \in SUBSET S : ~ (Total(f, a) <= Total(g, a))}
<1>1. F = {}
  <2> SUFFICES ASSUME F # {} PROVE FALSE
    OBVIOUS
  <2>1. /\ F \in SUBSET (SUBSET S) /\ \A a \in F : ~ (Total(f, a) <= Total(g, a))
        /\ \A a \in SUBSET S : a \notin F => Total(f, a) <= Total(g, a)
    OBVIOUS
  <2> HIDE DEF F
  <2>2. PICK a \in F : \A b \in F : b \subseteq a => b = a
    BY <2>1, MinimalSet
  <2>3. a \in SUBSET S /\ IsFiniteSet(a)
    BY <2>1, FS_Subset
  <2>4. a # {}
    <3>1. Total(f, {}) = 0 /\ Total(g, {}) = 0
      BY TotalEmpty
    <3> QED BY <2>1, <3>1
  <2>5. PICK x \in a : TRUE
    BY <2>4
  <2>6. /\ Total(f, a) = f[x] + Total(f, a \ {x})
        /\ Total(g, a) = g[x] + Total(g, a \ {x})
    BY <2>3, TotalRemove
  <2>7. Total(f, a \ {x}) <= Total(g, a \ {x})
    BY <2>1, <2>2, <2>3
  <2>8. Total(f, a \ {x}) \in Int /\ Total(g, a \ {x}) \in Int
    <3>1. IsFiniteSet(a \ {x}) /\ a \ {x} \subseteq S
      BY <2>3, FS_Subset
    <3> QED BY <3>1, TotalInt
  <2>9. f[x] \in Int /\ g[x] \in Int /\ f[x] <= g[x]
    BY <2>3
  <2> QED BY <2>1, <2>6, <2>7, <2>8, <2>9
<1> QED BY <1>1

\* On S, h is what f and g add up to.
Adds(h, f, g, S) ==
  \A x \in S : f[x] \in Int /\ g[x] \in Int /\ h[x] = f[x] + g[x]

\* The total of the sums of two functions.
LEMMA TotalPlus ==
  ASSUME NEW h, NEW f, NEW g, NEW S, IsFiniteSet(S), Adds(h, f, g, S)
  PROVE  Total(h, S) = Total(f, S) + Total(g, S)
<1> DEFINE F == {a \in SUBSET S : Total(h, a) # Total(f, a) + Total(g, a)}
<1> \A x \in S : f[x] \in Int /\ g[x] \in Int /\ h[x] = f[x] + g[x]
  BY DEF Adds
<1>1. F = {}
  <2> SUFFICES ASSUME F # {} PROVE FALSE
    OBVIOUS
  <2>1. /\ F \in SUBSET (SUBSET S) /\ \A a \in F : Total(h, a) # Total(f, a) + Total(g, a)
        /\ \A a \in SUBSET S : a \notin F => Total(h, a) = Total(f, a) + Total(g, a)
    OBVIOUS
  <2> HIDE DEF F
  <2>2. PICK a \in F : \A b \in F : b \subseteq a => b = a
    BY <2>1, MinimalSet
  <2>3. a \in SUBSET S /\ IsFiniteSet(a)
    BY <2>1, FS_Subset
  <2>4. a # {}
    <3> SUFFICES ASSUME a = {} PROVE FALSE
      OBVIOUS
    <3>1. Total(f, a) = 0 /\ Total(g, a) = 0 /\ Total(h, a) = 0
      BY TotalEmpty
    <3>2. Total(h, a) # Total(f, a) + Total(g, a)
      BY <2>1
    <3> QED BY <3>1, <3>2
  <2>5. PICK x \in a : TRUE
    BY <2>4
  <2>0. \A y \in S : h[y] \in Int
    OBVIOUS
  <2>6. /\ Total(f, a) = f[x] + Total(f, a \ {x})
        /\ Total(g, a) = g[x] + Total(g, a \ {x})
        /\ Total(h, a) = h[x] + Total(h, a \ {x})
    BY <2>0, <2>3, TotalRemove
  <2>7. Total(h, a \ {x}) = Total(f, a \ {x}) + Total(g, a \ {x})
    BY <2>1, <2>2, <2>3
  <2>8. Total(f, a \ {x}) \in Int /\ Total(g, a \ {x}) \in Int
    <3>1. IsFiniteSet(a \ {x}) /\ a \ {x} \subseteq S
      BY <2>3, FS_Subset
    <3> QED BY <3>1, TotalInt
  <2>9. f[x] \in Int /\ g[x] \in Int /\ h[x] = f[x] + g[x]
    BY <2>3
  <2> QED BY <2>1, <2>6, <2>7, <2>8, <2>9
<1> QED BY <1>1

\* Leaving out what is below zero never lowers a total, nor does adding what is
\* above it.
LEMMA TotalPart ==
  ASSUME NEW f, NEW S, IsFiniteSet(S), \A x \in S : f[x] \in Int, NEW T \in SUBSET S
  PROVE  /\ (\A x \in S \ T : f[x] <= 0) => Total(f, S) <= Total(f, T)
         /\ (\A x \in S \ T : f[x] >= 0) => Total(f, T) <= Total(f, S)
<1> DEFINE Fine(a) ==
             /\ (\A x \in S \ T : f[x] <= 0) => Total(f, T \cup a) <= Total(f, T)
             /\ (\A x \in S \ T : f[x] >= 0) => Total(f, T) <= Total(f, T \cup a)
           F == {a \in SUBSET (S \ T) : ~ Fine(a)}
<1>0. IsFiniteSet(S \ T) /\ \A a \in SUBSET S : IsFiniteSet(a) /\ Total(f, a) \in Int
  <2>1. ASSUME NEW a \in SUBSET S PROVE IsFiniteSet(a) /\ Total(f, a) \in Int
    <3>1. IsFiniteSet(a)
      BY FS_Subset
    <3> QED BY <3>1, TotalInt
  <2> QED BY <2>1
<1>1. F = {}
  <2> SUFFICES ASSUME F # {} PROVE FALSE
    OBVIOUS
  <2>1. /\ F \in SUBSET (SUBSET (S \ T)) /\ \A a \in F : ~ Fine(a)
        /\ \A a \in SUBSET (S \ T) : a \notin F => Fine(a)
    OBVIOUS
  <2> HIDE DEF F
  <2>2. PICK a \in F : \A b \in F : b \subseteq a => b = a
    BY <1>0, <2>1, MinimalSet
  <2>3. a # {}
    <3>1. T \cup {} = T
      OBVIOUS
    <3>2. Fine({})
      BY <1>0, <3>1
    <3> QED BY <2>1, <3>2
  <2>4. PICK x \in a : TRUE
    BY <2>3
  <2>5. /\ x \in S \ T /\ T \cup a \in SUBSET S /\ T \cup (a \ {x}) \in SUBSET S
        /\ (T \cup a) \ {x} = T \cup (a \ {x})
    BY <2>1
  <2>6. Fine(a \ {x})
    <3>1. a \ {x} \in SUBSET (S \ T) /\ a \ {x} \notin F
      BY <2>1, <2>2
    <3> HIDE DEF Fine
    <3> QED BY <2>1, <3>1
  <2>7. Total(f, T \cup a) = f[x] + Total(f, T \cup (a \ {x}))
    BY <1>0, <2>5, TotalRemove
  <2>8. /\ f[x] \in Int /\ Total(f, T) \in Int /\ Total(f, T \cup (a \ {x})) \in Int
    BY <1>0, <2>5
  <2>9. Fine(a)
    BY <2>5, <2>6, <2>7, <2>8
  <2> QED BY <2>1, <2>9
<1>2. Fine(S \ T)
  BY <1>1
<1>3. T \cup (S \ T) = S
  OBVIOUS
<1> QED BY <1>2, <1>3

-----------------------------------------------------------------------------
(* The matches *)

\* The pair of driver and load that a row and a column stand for.
Pair(r, c) == IF Transposed THEN <<c, r>> ELSE <<r, c>>

LEMMA PairFacts ==
  ASSUME matrix \in Matrices
  PROVE  /\ \A r \in 1..n, c \in 1..m :
              /\ Pair(r, c) \in AllPairs
              /\ matrix.at[Pair(r, c)] \in Int /\ matrix.at[Pair(r, c)] = -Cost(r, c)
         /\ \A r, q \in 1..n, c, d \in 1..m : Pair(r, c) = Pair(q, d) => r = q /\ c = d
         /\ \A a \in AllPairs : \E r \in 1..n, c \in 1..m : a = Pair(r, c)
<1>1. /\ matrix.rows \in Nat \ {0} /\ matrix.cols \in Nat \ {0}
      /\ matrix.at \in [(1..matrix.rows) \X (1..matrix.cols) -> Int]
      /\ AllPairs = (1..matrix.rows) \X (1..matrix.cols)
  BY MatrixAssumption DEF AllPairs
<1>2. CASE Transposed
  <2>1. n = matrix.cols /\ m = matrix.rows
    BY <1>2 DEF n, m
  <2>2. \A r \in 1..n, c \in 1..m : Pair(r, c) = <<c, r>> /\ Cost(r, c) = -matrix.at[<<c, r>>]
    BY <1>2 DEF Pair, Cost
  <2>3. \A r \in 1..n, c \in 1..m : matrix.at[<<c, r>>] \in Int /\ <<c, r>> \in AllPairs
    BY <1>1, <2>1
  <2>4. \A r \in 1..n, c \in 1..m : matrix.at[<<c, r>>] = - Cost(r, c)
    <3> SUFFICES ASSUME NEW r \in 1..n, NEW c \in 1..m PROVE matrix.at[<<c, r>>] = - Cost(r, c)
      OBVIOUS
    <3>2. matrix.at[<<c, r>>] \in Int /\ Cost(r, c) = - matrix.at[<<c, r>>]
      BY <2>2, <2>3
    <3> QED BY <3>2
  <2>5. \A a \in AllPairs : a = <<a[1], a[2]>> /\ a[1] \in 1..m /\ a[2] \in 1..n
    BY <1>1, <2>1
  <2>6. \A a \in AllPairs : \E r \in 1..n, c \in 1..m : a = Pair(r, c)
    BY <2>2, <2>5
  <2>7. \A r, q \in 1..n, c, d \in 1..m : Pair(r, c) = Pair(q, d) => r = q /\ c = d
    <3> SUFFICES ASSUME NEW r \in 1..n, NEW q \in 1..n, NEW c \in 1..m, NEW d \in 1..m,
                        Pair(r, c) = Pair(q, d)
                 PROVE  r = q /\ c = d
      OBVIOUS
    <3>1. <<c, r>> = <<d, q>>
      BY <2>2
    <3> QED BY <3>1
  <2>8. \A r \in 1..n, c \in 1..m :
          /\ Pair(r, c) \in AllPairs
          /\ matrix.at[Pair(r, c)] \in Int /\ matrix.at[Pair(r, c)] = -Cost(r, c)
    BY <2>2, <2>3, <2>4
  <2> QED BY <2>6, <2>7, <2>8
<1>3. CASE ~ Transposed
  <2>1. n = matrix.rows /\ m = matrix.cols
    BY <1>3 DEF n, m
  <2>2. \A r \in 1..n, c \in 1..m : Pair(r, c) = <<r, c>> /\ Cost(r, c) = -matrix.at[<<r, c>>]
    BY <1>3 DEF Pair, Cost
  <2>3. \A r \in 1..n, c \in 1..m : matrix.at[<<r, c>>] \in Int /\ <<r, c>> \in AllPairs
    BY <1>1, <2>1
  <2>4. \A r \in 1..n, c \in 1..m : matrix.at[<<r, c>>] = - Cost(r, c)
    <3> SUFFICES ASSUME NEW r \in 1..n, NEW c \in 1..m PROVE matrix.at[<<r, c>>] = - Cost(r, c)
      OBVIOUS
    <3>2. matrix.at[<<r, c>>] \in Int /\ Cost(r, c) = - matrix.at[<<r, c>>]
      BY <2>2, <2>3
    <3> QED BY <3>2
  <2>5. \A a \in AllPairs : a = <<a[1], a[2]>> /\ a[1] \in 1..n /\ a[2] \in 1..m
    BY <1>1, <2>1
  <2>6. \A a \in AllPairs : \E r \in 1..n, c \in 1..m : a = Pair(r, c)
    BY <2>2, <2>5
  <2>7. \A r, q \in 1..n, c, d \in 1..m : Pair(r, c) = Pair(q, d) => r = q /\ c = d
    <3> SUFFICES ASSUME NEW r \in 1..n, NEW q \in 1..n, NEW c \in 1..m, NEW d \in 1..m,
                        Pair(r, c) = Pair(q, d)
                 PROVE  r = q /\ c = d
      OBVIOUS
    <3>1. <<r, c>> = <<q, d>>
      BY <2>2
    <3> QED BY <3>1
  <2>8. \A r \in 1..n, c \in 1..m :
          /\ Pair(r, c) \in AllPairs
          /\ matrix.at[Pair(r, c)] \in Int /\ matrix.at[Pair(r, c)] = -Cost(r, c)
    BY <2>2, <2>3, <2>4
  <2> QED BY <2>6, <2>7, <2>8
<1> QED BY <1>2, <1>3

\* The answer of the solver, read back in drivers and loads.
LEMMA ReadBack ==
  ASSUME SolverInv, pc = "done", NEW r \in 1..n, NEW c \in 1..m
  PROVE  Assigned(Pair(r, c)[1]) = Pair(r, c)[2] <=> p[c] = r
<1>1. CASE Transposed
  BY <1>1 DEF Pair, Assigned
<1>2. CASE ~ Transposed
  <2>0. Pair(r, c)[1] = r /\ Pair(r, c)[2] = c
    BY <1>2 DEF Pair
  <2>1. \E d \in 1..m : p[d] = r
    BY Solved
  <2>2. Columns(r) # {}
    BY <2>1 DEF Columns
  <2>3. Assigned(r) \in 1..m /\ p[Assigned(r)] = r
    BY <1>2, <2>1, <2>2 DEF Assigned
  <2>4. r # 0 /\ \A b, d \in 1..m : p[b] = p[d] /\ p[b] # 0 => b = d
    BY Solved
  <2> QED BY <2>0, <2>3, <2>4
<1> QED BY <1>1, <1>2

\* What rows earn on the columns that g gives them, and the prices of both sides.
Earned(g) == [r \in 1..n |-> matrix.at[Pair(r, g[r])]]
RowPrices == [r \in 1..n |-> - u[r]]
ColPrices == [c \in 1..m |-> - v[c]]
OneToOne(g) == g \in [1..n -> 1..m] /\ \A r, q \in 1..n : g[r] = g[q] => r = q
Worth == Total(RowPrices, 1..n) + Total(ColPrices, 1..m)

LEMMA EarnedMoved ==
  ASSUME SolverInv, pc = "done", NEW g, OneToOne(g), NEW R \in SUBSET (1..n)
  PROVE  Total(matrix.at, {Pair(r, g[r]) : r \in R}) = Total(Earned(g), R)
<1>1. /\ n \in Nat /\ IsFiniteSet(1..n) /\ IsFiniteSet(R)
  <2>1. n \in Nat
    BY Solved
  <2>2. IsFiniteSet(1..n)
    BY <2>1, FS_Interval
  <2> QED BY <2>1, <2>2, FS_Subset
<1>2. \A r \in 1..n : g[r] \in 1..m
  BY DEF OneToOne
<1>3. /\ \A r \in 1..n : matrix.at[Pair(r, g[r])] \in Int
      /\ \A r, q \in 1..n : Pair(r, g[r]) = Pair(q, g[q]) => r = q
  <2>1. matrix \in Matrices
    BY DEF SolverInv, TypeOK
  <2> QED BY <1>2, <2>1, PairFacts
<1> DEFINE h == [r \in 1..n |-> Pair(r, g[r])]
           I == {Pair(r, g[r]) : r \in R}
<1>4. \A r \in R : h[r] = Pair(r, g[r])
  OBVIOUS
<1>5. \A r \in R : Earned(g)[r] = matrix.at[Pair(r, g[r])]
  BY DEF Earned
<1>6. /\ \A r \in R : Earned(g)[r] \in Int /\ matrix.at[h[r]] = Earned(g)[r]
      /\ \A r, q \in R : h[r] = h[q] => r = q
  BY <1>3, <1>4, <1>5
<1>7. /\ \A r \in R : h[r] \in I
      /\ \A k \in I : \E r \in R : k = h[r]
  BY <1>4
<1> HIDE DEF h, I
<1>8. Carries(h, R, Earned(g), I, matrix.at)
  BY <1>6, <1>7 DEF Carries
<1>9. Total(matrix.at, I) = Total(Earned(g), R)
  BY <1>1, <1>8, TotalMoved
<1> QED BY <1>9 DEF I

\* Nobody earns more than the prices, and the solver's answer earns them.
LEMMA EarnedWorth ==
  ASSUME SolverInv, pc = "done", NEW g, OneToOne(g)
  PROVE  /\ Total(Earned(g), 1..n) <= Worth
         /\ (\A r \in 1..n : p[g[r]] = r) => Total(Earned(g), 1..n) = Worth
<1> DEFINE onCols == [r \in 1..n |-> ColPrices[g[r]]]
           paid == [r \in 1..n |-> RowPrices[r] + onCols[r]]
           T == {g[r] : r \in 1..n}
<1>1. /\ IsFiniteSet(1..n) /\ IsFiniteSet(1..m) /\ T \in SUBSET (1..m)
      /\ \A r \in 1..n : g[r] \in 1..m
  <2>1. n \in Nat /\ m \in Nat
    BY Solved
  <2>2. IsFiniteSet(1..n) /\ IsFiniteSet(1..m)
    BY <2>1, FS_Interval
  <2> QED BY <2>2 DEF OneToOne
<1>2. /\ \A r \in 1..n : RowPrices[r] \in Int /\ RowPrices[r] = - u[r] /\ u[r] \in Int
      /\ \A c \in 1..m : /\ ColPrices[c] \in Int /\ ColPrices[c] = - v[c] /\ v[c] \in Int
                         /\ ColPrices[c] >= 0 /\ (p[c] = 0 => ColPrices[c] = 0)
  <2>1. \A r \in 1..n : u[r] \in Int
    BY Solved
  <2>2. \A c \in 1..m : v[c] \in Int /\ v[c] <= 0 /\ (v[c] # 0 => p[c] # 0)
    BY Solved
  <2> QED BY <2>1, <2>2 DEF RowPrices, ColPrices
<1>3. \A r \in 1..n : /\ onCols[r] = ColPrices[g[r]] /\ onCols[r] \in Int
                      /\ paid[r] = RowPrices[r] + onCols[r] /\ paid[r] \in Int
  BY <1>1, <1>2
<1>4. \A r \in 1..n : /\ Earned(g)[r] \in Int /\ Earned(g)[r] <= paid[r]
                      /\ p[g[r]] = r => Earned(g)[r] = paid[r]
  <2> SUFFICES ASSUME NEW r \in 1..n
               PROVE  /\ Earned(g)[r] \in Int /\ Earned(g)[r] <= paid[r]
                      /\ p[g[r]] = r => Earned(g)[r] = paid[r]
    OBVIOUS
  <2>1. matrix \in Matrices /\ g[r] \in 1..m
    BY <1>1 DEF SolverInv, TypeOK
  <2>2. Earned(g)[r] \in Int /\ Earned(g)[r] = - Cost(r, g[r])
    BY <2>1, PairFacts DEF Earned
  <2>3. Cost(r, g[r]) \in Int /\ Slack(r, g[r]) >= 0 /\ (p[g[r]] = r => Slack(r, g[r]) = 0)
    <3>1. r # 0
      BY Solved
    <3> QED BY <2>1, <3>1, Solved
  <2>4. Slack(r, g[r]) = Cost(r, g[r]) - u[r] - v[g[r]]
    BY DEF Slack
  <2>5. paid[r] = (- u[r]) + (- v[g[r]]) /\ u[r] \in Int /\ v[g[r]] \in Int
    BY <1>2, <1>3, <2>1
  <2> HIDE DEF paid
  <2> QED BY <2>2, <2>3, <2>4, <2>5
<1>5. Total(paid, 1..n) = Total(RowPrices, 1..n) + Total(onCols, 1..n)
  <2>1. \A x \in 1..n : /\ RowPrices[x] \in Int /\ onCols[x] \in Int
                        /\ paid[x] = RowPrices[x] + onCols[x]
    BY <1>2, <1>3
  <2>2. IsFiniteSet(1..n)
    BY <1>1
  <2> HIDE DEF paid, onCols
  <2>3. Adds(paid, RowPrices, onCols, 1..n)
    BY <2>1 DEF Adds
  <2> QED BY <2>2, <2>3, TotalPlus
<1>6. Total(ColPrices, T) = Total(onCols, 1..n)
  <2>1. \A r, q \in 1..n : g[r] = g[q] => r = q
    BY DEF OneToOne
  <2>2. \A r \in 1..n : onCols[r] \in Int /\ ColPrices[g[r]] = onCols[r]
    BY <1>3
  <2>3. (\A r \in 1..n : g[r] \in T) /\ \A k \in T : \E r \in 1..n : k = g[r]
    OBVIOUS
  <2> HIDE DEF onCols, T
  <2>4. Carries(g, 1..n, onCols, T, ColPrices)
    BY <2>1, <2>2, <2>3 DEF Carries
  <2> QED BY <1>1, <2>4, TotalMoved
<1>7. Total(ColPrices, T) <= Total(ColPrices, 1..m)
  <2>1. \A c \in 1..m : ColPrices[c] \in Int /\ ColPrices[c] >= 0
    BY <1>2
  <2> HIDE DEF T
  <2> QED BY <1>1, <2>1, TotalPart
<1> HIDE DEF paid, onCols
<1>8. Total(Earned(g), 1..n) <= Total(paid, 1..n)
  <2>1. ASSUME NEW x \in 1..n
        PROVE  /\ Earned(g)[x] \in Int /\ paid[x] \in Int
               /\ Earned(g)[x] <= paid[x]
    <3>1. Earned(g)[x] \in Int /\ Earned(g)[x] <= paid[x]
      BY <1>4
    <3> QED BY <1>3, <3>1
  <2>2. IsFiniteSet(1..n)
    BY <1>1
  <2> QED BY <2>1, <2>2, TotalLeq
<1>9. /\ Total(Earned(g), 1..n) \in Int /\ Total(paid, 1..n) \in Int
      /\ Total(RowPrices, 1..n) \in Int /\ Total(ColPrices, 1..m) \in Int
      /\ Total(onCols, 1..n) \in Int
  <2>0. IsFiniteSet(1..n) /\ IsFiniteSet(1..m)
    BY <1>1
  <2>1. ASSUME NEW e \in 1..n PROVE Earned(g)[e] \in Int
    BY <1>4
  <2>2. \A e \in 1..n : paid[e] \in Int
    BY <1>3
  <2>3. \A e \in 1..n : onCols[e] \in Int
    BY <1>3
  <2>4. \A e \in 1..n : RowPrices[e] \in Int
    BY <1>2
  <2>5. \A e \in 1..m : ColPrices[e] \in Int
    BY <1>2
  <2> QED BY <2>0, <2>1, <2>2, <2>3, <2>4, <2>5, TotalInt
<1>10. Total(Earned(g), 1..n) <= Worth
  BY <1>5, <1>6, <1>7, <1>8, <1>9 DEF Worth
<1>11. ASSUME \A r \in 1..n : p[g[r]] = r PROVE Total(Earned(g), 1..n) = Worth
  <2>1. Total(paid, 1..n) <= Total(Earned(g), 1..n)
    <3>1. \A x \in 1..n : /\ paid[x] \in Int /\ Earned(g)[x] \in Int
                          /\ paid[x] <= Earned(g)[x]
      <4> SUFFICES ASSUME NEW x \in 1..n
                   PROVE  /\ paid[x] \in Int /\ Earned(g)[x] \in Int
                          /\ paid[x] <= Earned(g)[x]
        OBVIOUS
      <4>0. p[g[x]] = x
        BY <1>11
      <4>1. paid[x] \in Int /\ Earned(g)[x] = paid[x]
        BY <1>3, <1>4, <4>0
      <4> QED BY <4>1
    <3>2. IsFiniteSet(1..n)
      BY <1>1
    <3> QED BY <3>1, <3>2, TotalLeq
  <2>2. \A c \in (1..m) \ T : ColPrices[c] <= 0
    <3> SUFFICES ASSUME NEW c \in (1..m) \ T PROVE p[c] = 0
      BY <1>2
    <3>1. ASSUME p[c] \in 1..n PROVE FALSE
      <4>1. g[p[c]] \in 1..m /\ p[g[p[c]]] = p[c] /\ p[c] # 0
        BY <1>1, <1>11, <3>1, Solved
      <4>2. g[p[c]] = c
        BY <4>1, Solved
      <4> QED BY <3>1, <4>2
    <3> QED BY <3>1, Solved
  <2>3. Total(ColPrices, 1..m) <= Total(ColPrices, T)
    <3>1. \A c \in 1..m : ColPrices[c] \in Int
      BY <1>2
    <3> HIDE DEF T
    <3> QED BY <1>1, <2>2, <3>1, TotalPart
  <2> QED BY <1>5, <1>6, <1>9, <1>10, <2>1, <2>3 DEF Worth
<1> QED BY <1>10, <1>11

\* Leaving out what does not pay, the exact matches earn at least the prices.
LEMMA ExactWorth ==
  ASSUME SolverInv, pc = "done"
  PROVE  Worth <= Total(matrix.at, ExactMatching)
<1> DEFINE s == [r \in 1..n |-> CHOOSE c \in 1..m : p[c] = r]
<1>1. \A r \in 1..n : s[r] \in 1..m /\ p[s[r]] = r
  <2>1. \A r \in 1..n : \E c \in 1..m : p[c] = r
    BY Solved
  <2> QED BY <2>1
<1>2. OneToOne(s)
  <2>1. s \in [1..n -> 1..m]
    BY <1>1
  <2> HIDE DEF s
  <2> QED BY <1>1, <2>1 DEF OneToOne
<1> HIDE DEF s
<1> DEFINE R == {r \in 1..n : Earned(s)[r] > 0}
<1>3. Total(Earned(s), 1..n) = Worth
  BY <1>1, <1>2, EarnedWorth
<1>4. \A r \in 1..n : Earned(s)[r] = matrix.at[Pair(r, s[r])] /\ Earned(s)[r] \in Int
  <2>1. matrix \in Matrices
    BY DEF SolverInv, TypeOK
  <2> QED BY <1>1, <2>1, PairFacts DEF Earned
<1>5. Total(Earned(s), 1..n) <= Total(Earned(s), R)
  <2>1. IsFiniteSet(1..n)
    <3>1. n \in Nat
      BY Solved
    <3> QED BY <3>1, FS_Interval
  <2>2. R \in SUBSET (1..n) /\ \A r \in (1..n) \ R : Earned(s)[r] <= 0
    BY <1>4
  <2> HIDE DEF R
  <2> QED BY <1>4, <2>1, <2>2, TotalPart
<1>6. ExactMatching = {Pair(r, s[r]) : r \in R}
  <2>0. matrix \in Matrices
    BY DEF SolverInv, TypeOK
  <2>1. ASSUME NEW a \in ExactMatching PROVE \E r \in R : a = Pair(r, s[r])
    <3>1. a \in AllPairs /\ Assigned(a[1]) = a[2] /\ matrix.at[a] > 0
      <4>1. a \in AllPairs /\ RowToCol(a[1]) = a[2] /\ matrix.at[a] > 0
        BY DEF ExactMatching
      <4>2. AllPairs = (1..matrix.rows) \X (1..matrix.cols)
        BY <2>0, MatrixAssumption DEF AllPairs
      <4>3. /\ a[1] \in 1..matrix.rows /\ a[2] \in 1..matrix.cols
            /\ a = <<a[1], a[2]>>
        BY <4>1, <4>2
      <4> QED BY <4>1, <4>3, PrunedAnswer
    <3>2. PICK r \in 1..n, c \in 1..m : a = Pair(r, c)
      BY <2>0, <3>1, PairFacts
    <3>3. p[c] = r
      BY <3>1, <3>2, ReadBack
    <3>4. c = s[r]
      <4>1. s[r] \in 1..m /\ p[s[r]] = p[c] /\ p[c] # 0
        BY <1>1, <3>3, Solved
      <4> QED BY <4>1, Solved
    <3>5. r \in R
      BY <1>4, <3>1, <3>2, <3>4
    <3> QED BY <3>2, <3>4, <3>5
  <2>2. ASSUME NEW r \in R PROVE Pair(r, s[r]) \in ExactMatching
    <3>1. r \in 1..n /\ s[r] \in 1..m /\ p[s[r]] = r /\ matrix.at[Pair(r, s[r])] > 0
      BY <1>1, <1>4
    <3>2. Pair(r, s[r]) \in AllPairs /\ matrix.at[Pair(r, s[r])] \in Int
      BY <2>0, <3>1, PairFacts
    <3>3. RowToCol(Pair(r, s[r])[1]) = Pair(r, s[r])[2]
      <4> DEFINE a == Pair(r, s[r])
      <4>1. Assigned(a[1]) = a[2]
        BY <3>1, ReadBack
      <4>2. a \in (1..matrix.rows) \X (1..matrix.cols)
        BY <2>0, <3>2, MatrixAssumption DEF AllPairs
      <4>3. ~ (matrix.at[a] < 0)
        BY <3>1, <3>2
      <4> HIDE DEF a
      <4>4. /\ a[1] \in 1..matrix.rows /\ a[2] \in 1..matrix.cols
            /\ a = <<a[1], a[2]>>
        BY <4>2
      <4>5. RowToCol(a[1]) = a[2]
        BY <4>1, <4>3, <4>4, PrunedAnswer
      <4> QED BY <4>5 DEF a
    <3>4. matrix.at[Pair(r, s[r])] # Sentinel
      BY <3>1, <3>2, MatcherAssumption
    <3> QED BY <3>1, <3>2, <3>3, <3>4 DEF ExactMatching
  <2> HIDE DEF R
  <2> QED BY <2>1, <2>2
<1>7. Total(matrix.at, {Pair(r, s[r]) : r \in R}) = Total(Earned(s), R)
  <2>1. R \in SUBSET (1..n)
    OBVIOUS
  <2> HIDE DEF R
  <2> QED BY <1>2, <2>1, EarnedMoved
<1> HIDE DEF R
<1> QED BY <1>3, <1>5, <1>6, <1>7

\* By duality: the prices bound what any complete assignment earns, and what the
\* exact matcher keeps of the solver's answer earns no less than the prices.
THEOREM ExactMatchesAreBest == Spec => []BestComplete
<1>1. SolverInv => BestComplete
  <2> SUFFICES ASSUME SolverInv, pc = "done", NEW A \in Assignments
               PROVE  Value(A) <= Value(ExactMatching)
    BY DEF BestComplete
  <2>1. PICK g \in [1..n -> 1..m] : IsInjective(g) /\ A = {Pair(r, g[r]) : r \in 1..n}
    BY DEF Assignments, Pair
  <2>2. OneToOne(g)
    BY <2>1 DEF OneToOne, IsInjective
  <2>3. Total(matrix.at, A) = Total(Earned(g), 1..n)
    BY <2>1, <2>2, EarnedMoved
  <2>4. Value(A) = Total(matrix.at, A) /\ Value(ExactMatching) = Total(matrix.at, ExactMatching)
    BY DEF Value, Total
  <2>5. /\ Total(Earned(g), 1..n) <= Worth /\ Worth <= Total(matrix.at, ExactMatching)
        /\ Worth \in Int /\ Total(Earned(g), 1..n) \in Int
        /\ Total(matrix.at, ExactMatching) \in Int
    <3>1. n \in Nat /\ m \in Nat
      BY Solved
    <3>2. IsFiniteSet(1..n) /\ IsFiniteSet(1..m)
      BY <3>1, FS_Interval
    <3>3. matrix \in Matrices
      BY DEF SolverInv, TypeOK
    <3>4. IsFiniteSet(AllPairs) /\ \A a \in AllPairs : matrix.at[a] \in Int
      <4>1. /\ matrix.rows \in Nat /\ matrix.cols \in Nat
            /\ matrix.at \in [(1..matrix.rows) \X (1..matrix.cols) -> Int]
        BY <3>3, MatrixAssumption
      <4>2. IsFiniteSet(1..matrix.rows) /\ IsFiniteSet(1..matrix.cols)
        <5>1. matrix.rows \in Int /\ matrix.cols \in Int /\ 1 \in Int
          BY <4>1
        <5> QED BY <5>1, FS_Interval
      <4>3. IsFiniteSet((1..matrix.rows) \X (1..matrix.cols))
        BY <4>2, FS_Product
      <4> QED BY <4>1, <4>3 DEF AllPairs
    <3>5. IsFiniteSet(ExactMatching) /\ \A a \in ExactMatching : matrix.at[a] \in Int
      <4>1. ExactMatching \subseteq AllPairs
        BY DEF ExactMatching
      <4> QED BY <3>4, <4>1, FS_Subset
    <3>6. Total(matrix.at, ExactMatching) \in Int
      BY <3>5, TotalInt
    <3>7. \A r \in 1..n : Earned(g)[r] \in Int
      BY <3>3, PairFacts DEF Earned
    <3>8. Total(Earned(g), 1..n) \in Int
      BY <3>2, <3>7, TotalInt
    <3>9. /\ \A r \in 1..n : RowPrices[r] \in Int
          /\ \A c \in 1..m : ColPrices[c] \in Int
      BY Solved DEF RowPrices, ColPrices
    <3>10. Worth \in Int
      <4>1. Total(RowPrices, 1..n) \in Int /\ Total(ColPrices, 1..m) \in Int
        BY <3>2, <3>9, TotalInt
      <4> QED BY <4>1 DEF Worth
    <3> QED BY <2>2, <3>6, <3>8, <3>10, EarnedWorth, ExactWorth
  <2> QED BY <2>3, <2>4, <2>5
<1> QED BY <1>1, SolverSafe, PTL

-----------------------------------------------------------------------------
(* The filter in front of it *)

\* Some driver's evaluation failed and its error is on the way or returned.
Failing ==
  \/ answer = "error"
  \/ \E w \in Pool : worker[w].at = "fail"
  \/ \E r \in Range(results) : ~ r.ok

\* Where a feasible pair is while nothing went wrong.
Pending(a) ==
  \/ a[1] \in Range(jobs)
  \/ \E w \in Pool : worker[w].at \in {"job", "send"} /\ a \in worker[w].arcs
  \/ \E r \in Range(results) : a \in r.arcs
  \/ a \in collected

Sound == answer = "none" /\ ~ cancelled /\ ~ Failing

NothingLost == Sound => \A a \in Candidates : Pending(a)

\* The first worker, which always starts, does not end before the jobs do.
JobsServed == Sound /\ jobs # << >> => worker[1].at = "job"

ClosedLast == closed => \A w \in Pool : worker[w].at = "ended"

\* A worker that has not ended has a place in the channel.
Running == {w \in Pool : worker[w].at # "ended"}
Places == Len(results) + Cardinality(Running) <= WorkerCount

EvaluationInv ==
  /\ matrix \in Matrices
  /\ FilterTypeOK
  /\ NothingLost
  /\ JobsServed
  /\ ClosedLast
  /\ Places
  /\ FilterComplete

-----------------------------------------------------------------------------
(* Sequences by what they hold *)

LEMMA Appended ==
  ASSUME NEW S, NEW s \in Seq(S), NEW x \in S
  PROVE  /\ Append(s, x) \in Seq(S) /\ Len(Append(s, x)) = Len(s) + 1
         /\ Range(Append(s, x)) = Range(s) \cup {x}
<1>1. /\ Append(s, x) \in Seq(S) /\ Len(Append(s, x)) = Len(s) + 1
      /\ \A k \in 1..Len(s) : Append(s, x)[k] = s[k]
      /\ Append(s, x)[Len(s) + 1] = x
  BY AppendProperties
<1>2. Range(s) = {s[k] : k \in 1..Len(s)}
  BY RangeEquality
<1>3. Range(Append(s, x)) = {Append(s, x)[k] : k \in 1..(Len(s) + 1)}
  BY <1>1, RangeEquality
<1>4. Len(s) \in Nat
  OBVIOUS
<1>5. 1..(Len(s) + 1) = (1..Len(s)) \cup {Len(s) + 1}
  BY <1>4
<1> QED BY <1>1, <1>2, <1>3, <1>5

LEMMA HeadTaken ==
  ASSUME NEW S, NEW s \in Seq(S), s # << >>
  PROVE  /\ Head(s) \in S /\ Tail(s) \in Seq(S) /\ Len(Tail(s)) = Len(s) - 1
         /\ Range(s) = {Head(s)} \cup Range(Tail(s))
<1>1. /\ Head(s) \in S /\ Tail(s) \in Seq(S) /\ Len(Tail(s)) = Len(s) - 1
      /\ \A k \in 1..Len(Tail(s)) : Tail(s)[k] = s[k + 1]
  BY HeadTailProperties
<1>2. Range(s) = {s[k] : k \in 1..Len(s)}
  BY RangeEquality
<1>3. Range(Tail(s)) = {Tail(s)[k] : k \in 1..(Len(s) - 1)}
  BY <1>1, RangeEquality
<1>4. Len(s) \in Nat /\ Len(s) > 0 /\ Head(s) = s[1]
  OBVIOUS
<1>5. ASSUME NEW k \in 1..Len(s) PROVE s[k] \in {Head(s)} \cup Range(Tail(s))
  <2>1. CASE k = 1
    BY <2>1, <1>4
  <2>2. CASE k # 1
    <3>1. k - 1 \in 1..(Len(s) - 1) /\ (k - 1) + 1 = k
      BY <2>2, <1>4
    <3>2. Tail(s)[k - 1] = s[k]
      BY <3>1, <1>1
    <3> QED BY <3>1, <3>2, <1>3
  <2> QED BY <2>1, <2>2
<1>6. ASSUME NEW k \in 1..(Len(s) - 1) PROVE Tail(s)[k] \in Range(s)
  <2>1. k + 1 \in 1..Len(s) /\ Tail(s)[k] = s[k + 1]
    BY <1>1, <1>4
  <2> QED BY <2>1, <1>2
<1>7. Head(s) \in Range(s)
  <2>1. 1 \in 1..Len(s)
    BY <1>4
  <2> QED BY <2>1, <1>2, <1>4
<1> QED BY <1>1, <1>2, <1>3, <1>5, <1>6, <1>7

LEMMA EmptyRange == Range(<< >>) = {}
BY DEF Range

-----------------------------------------------------------------------------
(* The drivers and the pool *)

LEMMA PoolShape ==
  ASSUME matrix \in Matrices
  PROVE  /\ matrix.rows \in Nat \ {0} /\ PoolSize \in Nat \ {0}
         /\ 1 \in Pool /\ WorkerCount \in Nat \ {0} /\ WorkerCount <= PoolSize
         /\ IsFiniteSet(Pool)
         /\ \A a \in Candidates : a[1] \in Drivers
<1>1. /\ matrix.rows \in Nat \ {0}
      /\ matrix.at \in [(1..matrix.rows) \X (1..matrix.cols) -> Int]
  BY MatrixAssumption
<1>2. PoolSize \in Nat \ {0}
  BY PoolAssumption
<1>3. 1 \in Pool /\ WorkerCount \in Nat \ {0} /\ WorkerCount <= PoolSize
  BY <1>1, <1>2 DEF Pool, WorkerCount
<1>4. IsFiniteSet(Pool)
  BY <1>2, FS_Interval DEF Pool
<1>5. ASSUME NEW a \in Candidates PROVE a[1] \in Drivers
  <2>1. a \in (1..matrix.rows) \X (1..matrix.cols)
    BY <1>1 DEF Candidates, AllPairs
  <2> QED BY <2>1 DEF Drivers
<1> QED BY <1>1, <1>2, <1>3, <1>4, <1>5

LEMMA SameMatrix ==
  ASSUME [EvaluateNext]_allVars
  PROVE  /\ matrix' = matrix /\ Candidates' = Candidates
         /\ Drivers' = Drivers /\ WorkerCount' = WorkerCount
<1>1. matrix' = matrix
  <2>1. CASE EvaluateNext
    BY <2>1 DEF EvaluateNext, Cancel, Work, EvaluateDriver, JobsClosed, SendError, SendArcs,
       DropArcs, Send, CloseResults, Caller, Collect, Answer, Match, Step, BeginRow, Scan,
       Reach, Augment, vars
  <2>2. CASE UNCHANGED allVars
    BY <2>2 DEF allVars, vars
  <2> QED BY <2>1, <2>2
<1> QED BY <1>1 DEF Candidates, AllPairs, Drivers, WorkerCount

LEMMA InitSound ==
  ASSUME EvaluateInit
  PROVE  EvaluationInv
<1>1. matrix \in Matrices /\ cancelled = FALSE /\ results = << >>
  BY DEF EvaluateInit, Init
<1>2. /\ matrix.rows \in Nat \ {0} /\ 1 \in Pool /\ IsFiniteSet(Pool)
      /\ WorkerCount \in Nat \ {0} /\ WorkerCount <= PoolSize /\ PoolSize \in Nat
      /\ \A a \in Candidates : a[1] \in Drivers
  BY <1>1, PoolShape
<1>3. results \in Seq([ok : BOOLEAN, arcs : SUBSET Candidates]) /\ Len(results) = 0
  BY <1>1, EmptySeq
<1>4. CASE matrix \in Screened
  <2>1. /\ faulty \subseteq Drivers
        /\ jobs = [d \in Drivers |-> d]
        /\ worker = [w \in Pool |-> [at |-> IF w <= WorkerCount THEN "job" ELSE "ended",
                                     arcs |-> {}]]
        /\ closed = FALSE /\ collected = {} /\ answer = "none"
    BY <1>4 DEF EvaluateInit, FilterInit
  <2>2. jobs \in Seq(Drivers) /\ Range(jobs) = Drivers
    <3>1. jobs \in [1..matrix.rows -> Drivers]
      BY <2>1 DEF Drivers
    <3>2. jobs \in Seq(Drivers)
      BY <1>2, <3>1
    <3>3. Range(jobs) = Drivers
      BY <2>1 DEF Range
    <3> QED BY <3>2, <3>3
  <2>3. \A w \in Pool : worker[w].at \in {"job", "ended"} /\ worker[w].arcs = {}
    BY <2>1
  <2>4. worker \in [Pool -> [at : {"job", "send", "fail", "ended"}, arcs : SUBSET Candidates]]
    BY <2>1
  <2>5. FilterTypeOK
    BY <1>1, <1>3, <2>1, <2>2, <2>4 DEF FilterTypeOK
  <2>6. NothingLost
    BY <1>2, <2>2 DEF NothingLost, Pending
  <2>7. worker[1].at = "job"
    <3>1. 1 <= WorkerCount
      BY <1>2
    <3> QED BY <1>2, <2>1, <3>1
  <2>8. Running = 1..WorkerCount
    <3>1. \A w \in Pool : worker[w].at # "ended" <=> w <= WorkerCount
      BY <2>1
    <3>2. Running = {w \in Pool : w <= WorkerCount}
      BY <3>1 DEF Running
    <3> QED BY <1>2, <3>2 DEF Pool
  <2>9. Cardinality(Running) = WorkerCount
    BY <1>2, <2>8, FS_Interval
  <2>10. Places
    BY <1>2, <1>3, <2>9 DEF Places
  <2> QED BY <1>1, <2>1, <2>5, <2>6, <2>7, <2>10 DEF EvaluationInv, JobsServed, ClosedLast, FilterComplete
<1>5. CASE matrix \notin Screened
  <2>1. /\ faulty = {} /\ jobs = << >>
        /\ worker = [w \in Pool |-> [at |-> "ended", arcs |-> {}]]
        /\ closed = TRUE /\ collected = Candidates /\ answer = "arcs"
    BY <1>5 DEF EvaluateInit, FilterInit
  <2>2. worker \in [Pool -> [at : {"job", "send", "fail", "ended"}, arcs : SUBSET Candidates]]
    BY <2>1
  <2>3. jobs \in Seq(Drivers)
    BY <2>1, EmptySeq
  <2>4. FilterTypeOK
    BY <1>1, <1>3, <2>1, <2>2, <2>3 DEF FilterTypeOK
  <2>5. Running = {}
    BY <2>1 DEF Running
  <2>6. Cardinality(Running) = 0
    BY <2>5, FS_EmptySet
  <2>7. Places
    BY <1>2, <1>3, <2>6 DEF Places
  <2>8. ~ Sound /\ ClosedLast /\ FilterComplete
    BY <2>1 DEF Sound, ClosedLast, FilterComplete
  <2> QED BY <1>1, <2>4, <2>7, <2>8 DEF EvaluationInv, NothingLost, JobsServed
<1> QED BY <1>4, <1>5

-----------------------------------------------------------------------------
(* One lemma per action *)

\* The workers left when one of them ends.
LEMMA WorkerEnds ==
  ASSUME matrix \in Matrices, FilterTypeOK, NEW w \in Pool, worker[w].at # "ended",
         worker' = [worker EXCEPT ![w].at = "ended"]
  PROVE  /\ Cardinality(Running') = Cardinality(Running) - 1
         /\ Cardinality(Running) \in Nat
         /\ worker' \in [Pool -> [at : {"job", "send", "fail", "ended"}, arcs : SUBSET Candidates]]
<1>1. worker \in [Pool -> [at : {"job", "send", "fail", "ended"}, arcs : SUBSET Candidates]]
  BY DEF FilterTypeOK
<1>2. w \in Running /\ Running \subseteq Pool /\ IsFiniteSet(Pool)
  BY PoolShape DEF Running
<1>3. IsFiniteSet(Running)
  BY <1>2, FS_Subset
<1>4. \A x \in Pool : worker'[x].at # "ended" <=> (worker[x].at # "ended" /\ x # w)
  BY <1>1
<1>5. Running' = Running \ {w}
  BY <1>4 DEF Running
<1>6. Cardinality(Running) \in Nat
  BY <1>3, FS_CardinalityType
<1>7. Cardinality(Running \ {w}) = Cardinality(Running) - 1
  BY <1>2, <1>3, FS_RemoveElement
<1>8. worker' \in [Pool -> [at : {"job", "send", "fail", "ended"}, arcs : SUBSET Candidates]]
  BY <1>1
<1> QED BY <1>5, <1>6, <1>7, <1>8

\* A step of the caller or of the context leaves the workers as they are.
LEMMA SameWorkers ==
  ASSUME worker' = worker
  PROVE  Running' = Running
BY DEF Running

LEMMA CancelKeeps ==
  ASSUME EvaluationInv, Cancel
  PROVE  EvaluationInv'
<1>1. matrix' = matrix /\ Candidates' = Candidates /\ Drivers' = Drivers
      /\ WorkerCount' = WorkerCount
  BY SameMatrix DEF EvaluateNext
<1>2. FilterTypeOK'
  BY <1>1 DEF EvaluationInv, FilterTypeOK, Cancel
<1>3. Places'
  BY <1>1, SameWorkers DEF EvaluationInv, Places, Cancel
<1>4. ~ Sound'
  BY DEF Cancel, Sound
<1>5. ClosedLast' /\ FilterComplete'
  BY <1>1 DEF EvaluationInv, ClosedLast, FilterComplete, Cancel
<1> QED BY <1>1, <1>2, <1>3, <1>4, <1>5 DEF EvaluationInv, NothingLost, JobsServed

LEMMA EvaluateDriverKeeps ==
  ASSUME EvaluationInv, NEW w \in Pool, EvaluateDriver(w)
  PROVE  EvaluationInv'
<1>1. matrix' = matrix /\ Candidates' = Candidates /\ Drivers' = Drivers
      /\ WorkerCount' = WorkerCount
  BY SameMatrix DEF EvaluateNext, Work
<1>2. /\ worker \in [Pool -> [at : {"job", "send", "fail", "ended"}, arcs : SUBSET Candidates]]
      /\ jobs \in Seq(Drivers) /\ jobs # << >> /\ worker[w].at = "job"
      /\ jobs' = Tail(jobs)
      /\ UNCHANGED <<faulty, cancelled, results, closed, collected, answer>>
  BY DEF EvaluationInv, FilterTypeOK, EvaluateDriver
<1>3. /\ Head(jobs) \in Drivers /\ Tail(jobs) \in Seq(Drivers)
      /\ Range(jobs) = {Head(jobs)} \cup Range(Tail(jobs))
  BY <1>2, HeadTaken
<1>4. CASE cancelled \/ Head(jobs) \in faulty
  <2>1. worker' = [worker EXCEPT ![w].at = "fail"]
    BY <1>4 DEF EvaluateDriver
  <2>2. worker' \in [Pool -> [at : {"job", "send", "fail", "ended"}, arcs : SUBSET Candidates]]
    BY <1>2, <2>1
  <2>3. FilterTypeOK'
    BY <1>1, <1>2, <1>3, <2>2 DEF EvaluationInv, FilterTypeOK
  <2>4. worker'[w].at = "fail"
    BY <1>2, <2>1
  <2>5. ~ Sound'
    BY <2>4 DEF Sound, Failing
  <2>6. \A x \in Pool : worker'[x].at # "ended" <=> worker[x].at # "ended"
    BY <1>2, <2>1
  <2>7. Places'
    BY <1>1, <1>2, <2>6 DEF EvaluationInv, Places, Running
  <2>8. ClosedLast' /\ FilterComplete'
    BY <1>1, <1>2, <2>6 DEF EvaluationInv, ClosedLast, FilterComplete
  <2> QED BY <1>1, <2>3, <2>5, <2>7, <2>8 DEF EvaluationInv, NothingLost, JobsServed
<1>5. CASE ~ (cancelled \/ Head(jobs) \in faulty)
  <2>1. worker' = [worker EXCEPT ![w].arcs = @ \cup ArcsOf(Head(jobs))]
    BY <1>5 DEF EvaluateDriver
  <2>2. /\ worker'[w].at = "job" /\ worker'[w].arcs = worker[w].arcs \cup ArcsOf(Head(jobs))
        /\ \A x \in Pool : worker'[x].at = worker[x].at
        /\ \A x \in Pool : worker[x].arcs \subseteq worker'[x].arcs
    BY <1>2, <2>1
  <2>3. ArcsOf(Head(jobs)) \subseteq Candidates
    BY DEF ArcsOf
  <2>4. worker' \in [Pool -> [at : {"job", "send", "fail", "ended"}, arcs : SUBSET Candidates]]
    BY <1>2, <2>1, <2>3
  <2>5. FilterTypeOK'
    BY <1>1, <1>2, <1>3, <2>4 DEF EvaluationInv, FilterTypeOK
  <2>6. ASSUME Sound' PROVE Sound
    BY <1>2, <2>2, <2>6 DEF Sound, Failing
  <2>7. NothingLost'
    <3>1. SUFFICES ASSUME Sound', NEW a \in Candidates PROVE Pending(a)'
      BY <1>1 DEF NothingLost
    <3>2. Pending(a)
      BY <2>6, <3>1 DEF EvaluationInv, NothingLost
    <3>3. CASE a[1] = Head(jobs)
      <4>1. a \in worker'[w].arcs
        BY <2>2, <3>3 DEF ArcsOf
      <4> QED BY <2>2, <4>1 DEF Pending
    <3>4. CASE a[1] # Head(jobs)
      BY <1>2, <1>3, <2>2, <3>2, <3>4 DEF Pending
    <3> QED BY <3>3, <3>4
  <2>8. JobsServed'
    BY <1>2, <2>2, <2>6, PoolShape DEF EvaluationInv, JobsServed
  <2>9. Places'
    BY <1>1, <1>2, <2>2 DEF EvaluationInv, Places, Running
  <2>10. ClosedLast' /\ FilterComplete'
    BY <1>1, <1>2, <2>2 DEF EvaluationInv, ClosedLast, FilterComplete
  <2> QED BY <1>1, <2>5, <2>7, <2>8, <2>9, <2>10 DEF EvaluationInv
<1> QED BY <1>4, <1>5

LEMMA JobsClosedKeeps ==
  ASSUME EvaluationInv, NEW w \in Pool, JobsClosed(w)
  PROVE  EvaluationInv'
<1>1. matrix' = matrix /\ Candidates' = Candidates /\ Drivers' = Drivers
      /\ WorkerCount' = WorkerCount
  BY SameMatrix DEF EvaluateNext, Work
<1>2. /\ worker \in [Pool -> [at : {"job", "send", "fail", "ended"}, arcs : SUBSET Candidates]]
      /\ worker[w].at = "job" /\ jobs = << >>
      /\ worker' = [worker EXCEPT ![w].at = "send"]
      /\ UNCHANGED <<faulty, cancelled, jobs, results, closed, collected, answer>>
  BY DEF EvaluationInv, FilterTypeOK, JobsClosed
<1>3. worker' \in [Pool -> [at : {"job", "send", "fail", "ended"}, arcs : SUBSET Candidates]]
  BY <1>2
<1>4. /\ \A x \in Pool : worker'[x].arcs = worker[x].arcs
      /\ \A x \in Pool : worker'[x].at = worker[x].at \/ (x = w /\ worker'[x].at = "send")
      /\ \A x \in Pool : worker'[x].at # "ended" <=> worker[x].at # "ended"
  BY <1>2
<1>5. FilterTypeOK'
  BY <1>1, <1>2, <1>3 DEF EvaluationInv, FilterTypeOK
<1>6. ASSUME Sound' PROVE Sound
  <2>1. \A x \in Pool : worker[x].at = "fail" => worker'[x].at = "fail"
    BY <1>2, <1>4
  <2> QED BY <1>2, <1>6, <2>1 DEF Sound, Failing
<1>7. NothingLost'
  <2>1. SUFFICES ASSUME Sound', NEW a \in Candidates PROVE Pending(a)'
    BY <1>1 DEF NothingLost
  <2>2. Pending(a)
    BY <1>6, <2>1 DEF EvaluationInv, NothingLost
  <2> QED BY <1>2, <1>4, <2>2 DEF Pending
<1>8. JobsServed'
  BY <1>2 DEF JobsServed
<1>9. Places'
  BY <1>1, <1>2, <1>4 DEF EvaluationInv, Places, Running
<1>10. ClosedLast' /\ FilterComplete'
  BY <1>1, <1>2, <1>4 DEF EvaluationInv, ClosedLast, FilterComplete
<1> QED BY <1>1, <1>5, <1>7, <1>8, <1>9, <1>10 DEF EvaluationInv

LEMMA SendKeeps ==
  ASSUME EvaluationInv, NEW w \in Pool, NEW ok \in BOOLEAN, Send(w, ok),
         worker[w].at = IF ok THEN "send" ELSE "fail"
  PROVE  EvaluationInv'
<1> DEFINE result == [ok |-> ok, arcs |-> IF ok THEN worker[w].arcs ELSE {}]
<1>1. matrix' = matrix /\ Candidates' = Candidates /\ Drivers' = Drivers
      /\ WorkerCount' = WorkerCount
  <2>1. (ok = TRUE => SendArcs(w)) /\ (ok = FALSE => SendError(w))
    BY DEF SendArcs, SendError
  <2>2. EvaluateNext
    BY <2>1 DEF EvaluateNext, Work
  <2> QED BY <2>2, SameMatrix
<1>2. /\ worker \in [Pool -> [at : {"job", "send", "fail", "ended"}, arcs : SUBSET Candidates]]
      /\ results \in Seq([ok : BOOLEAN, arcs : SUBSET Candidates])
      /\ results' = Append(results, result)
      /\ worker' = [worker EXCEPT ![w].at = "ended"]
      /\ UNCHANGED <<faulty, cancelled, jobs, closed, collected, answer>>
      /\ worker[w].at # "ended"
  BY DEF EvaluationInv, FilterTypeOK, Send
<1>3. result \in [ok : BOOLEAN, arcs : SUBSET Candidates] /\ result.ok = ok
      /\ (ok => result.arcs = worker[w].arcs)
  BY <1>2
<1> HIDE DEF result
<1>4. /\ results' \in Seq([ok : BOOLEAN, arcs : SUBSET Candidates])
      /\ Len(results') = Len(results) + 1
      /\ Range(results') = Range(results) \cup {result}
  <2> DEFINE Result == [ok : BOOLEAN, arcs : SUBSET Candidates]
  <2>1. result \in Result /\ results \in Seq(Result)
    BY <1>2, <1>3
  <2>2. /\ Append(results, result) \in Seq(Result)
        /\ Len(Append(results, result)) = Len(results) + 1
        /\ Range(Append(results, result)) = Range(results) \cup {result}
    <3> HIDE DEF Result
    <3> QED BY <2>1, Appended
  <2>3. results' = Append(results, result)
    BY <1>2
  <2> QED BY <2>2, <2>3
<1>5. /\ Cardinality(Running') = Cardinality(Running) - 1
      /\ Cardinality(Running) \in Nat
      /\ worker' \in [Pool -> [at : {"job", "send", "fail", "ended"}, arcs : SUBSET Candidates]]
  BY <1>2, WorkerEnds DEF EvaluationInv
<1>6. FilterTypeOK'
  BY <1>1, <1>2, <1>4, <1>5 DEF EvaluationInv, FilterTypeOK
<1>7. Places'
  <2>1. Len(results) \in Nat
    BY <1>2
  <2>2. WorkerCount \in Nat
    BY PoolShape DEF EvaluationInv
  <2> QED BY <1>1, <1>4, <1>5, <2>1, <2>2 DEF EvaluationInv, Places
<1>8. /\ \A x \in Pool : worker'[x].arcs = worker[x].arcs
      /\ \A x \in Pool : x # w => worker'[x].at = worker[x].at
  BY <1>2
<1>9. ASSUME Sound' PROVE Sound /\ ok
  <2>1. ok
    BY <1>3, <1>4, <1>9 DEF Sound, Failing
  <2>2. worker[w].at # "fail"
    BY <2>1
  <2>3. \A x \in Pool : worker[x].at # "fail"
    BY <1>8, <1>9, <2>2 DEF Sound, Failing
  <2> QED BY <1>2, <1>4, <1>9, <2>1, <2>3 DEF Sound, Failing
<1>10. NothingLost'
  <2>1. SUFFICES ASSUME Sound', NEW a \in Candidates PROVE Pending(a)'
    BY <1>1 DEF NothingLost
  <2>2. Pending(a) /\ ok
    BY <1>9, <2>1 DEF EvaluationInv, NothingLost
  <2>3. CASE a \in worker[w].arcs
    BY <1>3, <1>4, <2>2, <2>3 DEF Pending
  <2>4. CASE a \notin worker[w].arcs
    BY <1>2, <1>4, <1>8, <2>2, <2>4 DEF Pending
  <2> QED BY <2>3, <2>4
<1>11. JobsServed'
  <2>1. SUFFICES ASSUME Sound', jobs # << >> PROVE worker'[1].at = "job"
    BY <1>2 DEF JobsServed
  <2>2. worker[1].at = "job" /\ ok
    BY <1>9, <2>1 DEF EvaluationInv, JobsServed
  <2>3. 1 # w /\ 1 \in Pool
    BY <2>2, PoolShape DEF EvaluationInv
  <2> QED BY <1>8, <2>2, <2>3
<1>12. ClosedLast'
  BY <1>2 DEF EvaluationInv, ClosedLast
<1>13. FilterComplete'
  BY <1>1, <1>2 DEF EvaluationInv, FilterComplete
<1> QED BY <1>1, <1>6, <1>7, <1>10, <1>11, <1>12, <1>13 DEF EvaluationInv

LEMMA DropArcsKeeps ==
  ASSUME EvaluationInv, NEW w \in Pool, DropArcs(w)
  PROVE  EvaluationInv'
<1>1. matrix' = matrix /\ Candidates' = Candidates /\ Drivers' = Drivers
      /\ WorkerCount' = WorkerCount
  BY SameMatrix DEF EvaluateNext, Work
<1>2. /\ worker' = [worker EXCEPT ![w].at = "ended"]
      /\ UNCHANGED <<faulty, cancelled, jobs, results, closed, collected, answer>>
      /\ worker[w].at = "send" /\ cancelled
  BY DEF DropArcs
<1>3. /\ Cardinality(Running') = Cardinality(Running) - 1
      /\ Cardinality(Running) \in Nat
      /\ worker' \in [Pool -> [at : {"job", "send", "fail", "ended"}, arcs : SUBSET Candidates]]
  BY <1>2, WorkerEnds DEF EvaluationInv
<1>4. FilterTypeOK'
  BY <1>1, <1>2, <1>3 DEF EvaluationInv, FilterTypeOK
<1>5. Places'
  <2>1. Len(results) \in Nat /\ WorkerCount \in Nat
    BY PoolShape DEF EvaluationInv, FilterTypeOK
  <2> QED BY <1>1, <1>2, <1>3, <2>1 DEF EvaluationInv, Places
<1>6. ~ Sound'
  BY <1>2 DEF Sound
<1>7. ClosedLast' /\ FilterComplete'
  BY <1>1, <1>2 DEF EvaluationInv, ClosedLast, FilterComplete
<1> QED BY <1>1, <1>4, <1>5, <1>6, <1>7 DEF EvaluationInv, NothingLost, JobsServed

LEMMA CloseResultsKeeps ==
  ASSUME EvaluationInv, CloseResults
  PROVE  EvaluationInv'
<1>1. matrix' = matrix /\ Candidates' = Candidates /\ Drivers' = Drivers
      /\ WorkerCount' = WorkerCount
  BY SameMatrix DEF EvaluateNext
<1>2. /\ \A w \in Pool : worker[w].at = "ended"
      /\ closed' = TRUE
      /\ UNCHANGED <<faulty, cancelled, jobs, worker, results, collected, answer>>
  BY DEF CloseResults
<1>3. FilterTypeOK'
  BY <1>1, <1>2 DEF EvaluationInv, FilterTypeOK
<1>4. Places'
  BY <1>1, <1>2, SameWorkers DEF EvaluationInv, Places
<1>5. Sound' <=> Sound
  BY <1>2 DEF Sound, Failing
<1>6. NothingLost'
  BY <1>1, <1>2, <1>5 DEF EvaluationInv, NothingLost, Pending
<1>7. JobsServed' /\ ClosedLast' /\ FilterComplete'
  BY <1>1, <1>2, <1>5 DEF EvaluationInv, JobsServed, ClosedLast, FilterComplete
<1> QED BY <1>1, <1>3, <1>4, <1>6, <1>7 DEF EvaluationInv

LEMMA CollectKeeps ==
  ASSUME EvaluationInv, Collect
  PROVE  EvaluationInv'
<1>1. matrix' = matrix /\ Candidates' = Candidates /\ Drivers' = Drivers
      /\ WorkerCount' = WorkerCount
  BY SameMatrix DEF EvaluateNext, Caller
<1>2. /\ results \in Seq([ok : BOOLEAN, arcs : SUBSET Candidates]) /\ results # << >>
      /\ answer = "none" /\ collected \subseteq Candidates
      /\ results' = Tail(results)
      /\ collected' = collected \cup Head(results).arcs
      /\ answer' = IF Head(results).ok THEN "none" ELSE "error"
      /\ UNCHANGED <<faulty, cancelled, jobs, worker, closed>>
  BY DEF EvaluationInv, FilterTypeOK, Collect
<1>3. /\ Head(results) \in [ok : BOOLEAN, arcs : SUBSET Candidates]
      /\ Tail(results) \in Seq([ok : BOOLEAN, arcs : SUBSET Candidates])
      /\ Len(Tail(results)) = Len(results) - 1
      /\ Range(results) = {Head(results)} \cup Range(Tail(results))
  BY <1>2, HeadTaken
<1>4. collected' \subseteq Candidates /\ answer' \in {"none", "error"}
  BY <1>2, <1>3
<1>5. FilterTypeOK'
  BY <1>1, <1>2, <1>3, <1>4 DEF EvaluationInv, FilterTypeOK
<1>6. Places'
  <2>1. Len(results) \in Nat /\ WorkerCount \in Nat
    BY <1>2, PoolShape DEF EvaluationInv
  <2>2. Cardinality(Running) \in Nat
    <3>1. Running \subseteq Pool /\ IsFiniteSet(Pool)
      BY PoolShape DEF EvaluationInv, Running
    <3>2. IsFiniteSet(Running)
      BY <3>1, FS_Subset
    <3> QED BY <3>2, FS_CardinalityType
  <2>3. Running' = Running
    BY <1>2, SameWorkers
  <2> QED BY <1>1, <1>2, <1>3, <2>1, <2>2, <2>3 DEF EvaluationInv, Places
<1>7. ASSUME Sound' PROVE Sound
  <2>1. Head(results).ok
    BY <1>2, <1>7 DEF Sound
  <2> QED BY <1>2, <1>3, <1>7, <2>1 DEF Sound, Failing
<1>8. NothingLost'
  <2>1. SUFFICES ASSUME Sound', NEW a \in Candidates PROVE Pending(a)'
    BY <1>1 DEF NothingLost
  <2>2. Pending(a)
    BY <1>7, <2>1 DEF EvaluationInv, NothingLost
  <2> QED BY <1>2, <1>3, <2>2 DEF Pending
<1>9. JobsServed' /\ ClosedLast'
  BY <1>2, <1>7 DEF EvaluationInv, JobsServed, ClosedLast
<1>10. FilterComplete'
  BY <1>4 DEF FilterComplete
<1> QED BY <1>1, <1>5, <1>6, <1>8, <1>9, <1>10 DEF EvaluationInv

\* When the channel is closed and empty, all that is pending was collected.
LEMMA AnswerKeeps ==
  ASSUME EvaluationInv, Answer
  PROVE  EvaluationInv'
<1>1. matrix' = matrix /\ Candidates' = Candidates /\ Drivers' = Drivers
      /\ WorkerCount' = WorkerCount
  BY SameMatrix DEF EvaluateNext, Caller
<1>2. /\ answer = "none" /\ results = << >> /\ closed
      /\ answer' = IF cancelled THEN "error" ELSE "arcs"
      /\ UNCHANGED <<faulty, cancelled, jobs, worker, results, closed, collected>>
  BY DEF Answer
<1>3. answer' \in {"arcs", "error"}
  BY <1>2
<1>4. FilterTypeOK'
  BY <1>1, <1>2, <1>3 DEF EvaluationInv, FilterTypeOK
<1>5. Places'
  BY <1>1, <1>2, SameWorkers DEF EvaluationInv, Places
<1>6. ~ Sound'
  BY <1>3 DEF Sound
<1>7. ClosedLast'
  BY <1>2 DEF EvaluationInv, ClosedLast
<1>8. FilterComplete'
  <2>1. SUFFICES ASSUME ~ cancelled PROVE collected = Candidates
    BY <1>1, <1>2 DEF FilterComplete
  <2>2. \A w \in Pool : worker[w].at = "ended"
    BY <1>2 DEF EvaluationInv, ClosedLast
  <2>3. Range(results) = {}
    BY <1>2, EmptyRange
  <2>4. Sound
    BY <1>2, <2>1, <2>2, <2>3 DEF Sound, Failing
  <2>5. jobs = << >>
    <3>1. 1 \in Pool
      BY PoolShape DEF EvaluationInv
    <3> QED BY <2>2, <2>4, <3>1 DEF EvaluationInv, JobsServed
  <2>6. Range(jobs) = {}
    BY <2>5, EmptyRange
  <2>7. \A a \in Candidates : a \in collected
    BY <2>2, <2>3, <2>4, <2>6 DEF EvaluationInv, NothingLost, Pending
  <2> QED BY <2>7 DEF EvaluationInv, FilterTypeOK
<1> QED BY <1>1, <1>4, <1>5, <1>6, <1>7, <1>8 DEF EvaluationInv, NothingLost, JobsServed

\* The solver's steps, and no step, leave the filter as it is.
LEMMA FilterKept ==
  ASSUME EvaluationInv, matrix' = matrix, UNCHANGED filterVars
  PROVE  EvaluationInv'
<1>1. Candidates' = Candidates /\ Drivers' = Drivers /\ WorkerCount' = WorkerCount
  BY DEF Candidates, AllPairs, Drivers, WorkerCount
<1>2. UNCHANGED <<faulty, cancelled, jobs, worker, results, closed, collected, answer>>
  BY DEF filterVars
<1>3. FilterTypeOK'
  BY <1>1, <1>2 DEF EvaluationInv, FilterTypeOK
<1>4. Places'
  BY <1>1, <1>2, SameWorkers DEF EvaluationInv, Places
<1>5. Sound' <=> Sound
  BY <1>2 DEF Sound, Failing
<1>6. NothingLost'
  BY <1>1, <1>2, <1>5 DEF EvaluationInv, NothingLost, Pending
<1>7. JobsServed' /\ ClosedLast' /\ FilterComplete'
  BY <1>1, <1>2, <1>5 DEF EvaluationInv, JobsServed, ClosedLast, FilterComplete
<1> QED BY <1>3, <1>4, <1>6, <1>7 DEF EvaluationInv

-----------------------------------------------------------------------------
(* Theorems *)

LEMMA StepSound ==
  ASSUME EvaluationInv, [EvaluateNext]_allVars
  PROVE  EvaluationInv'
<1>1. CASE Cancel
  BY <1>1, CancelKeeps
<1>2. ASSUME NEW w \in Pool, Work(w) PROVE EvaluationInv'
  <2>1. CASE EvaluateDriver(w)
    BY <2>1, EvaluateDriverKeeps
  <2>2. CASE JobsClosed(w)
    BY <2>2, JobsClosedKeeps
  <2>3. CASE SendError(w)
    BY <2>3, SendKeeps DEF SendError
  <2>4. CASE SendArcs(w)
    BY <2>4, SendKeeps DEF SendArcs
  <2>5. CASE DropArcs(w)
    BY <2>5, DropArcsKeeps
  <2> QED BY <1>2, <2>1, <2>2, <2>3, <2>4, <2>5 DEF Work
<1>3. CASE CloseResults
  BY <1>3, CloseResultsKeeps
<1>4. CASE Caller
  <2>1. CASE Collect
    BY <2>1, CollectKeeps
  <2>2. CASE Answer
    BY <2>2, AnswerKeeps
  <2>3. CASE Match
    BY <2>3, SameMatrix, FilterKept DEF Match
  <2> QED BY <1>4, <2>1, <2>2, <2>3 DEF Caller
<1>5. CASE UNCHANGED allVars
  BY <1>5, SameMatrix, FilterKept DEF allVars
<1> QED BY <1>1, <1>2, <1>3, <1>4, <1>5 DEF EvaluateNext

\* The invariant of the evaluation: while nothing failed, a feasible pair is
\* with its driver in the queue, with a worker, on the channel or collected;
\* the results and the workers still running fit into the channel.
THEOREM EvaluationSafe == EvaluateSpec => []EvaluationInv
<1>1. EvaluateInit => EvaluationInv
  BY InitSound
<1>2. EvaluationInv /\ [EvaluateNext]_allVars => EvaluationInv'
  BY StepSound
<1> QED BY <1>1, <1>2, PTL DEF EvaluateSpec

\* FilterCandidates never answers a list that only looks complete, whatever
\* the size of its pool, and whoever fails or cancels (filter.go).
THEOREM FilterAlwaysComplete == EvaluateSpec => []FilterComplete
<1>1. EvaluationInv => FilterComplete
  BY DEF EvaluationInv
<1> QED BY <1>1, EvaluationSafe, PTL

\* The buffer of resultsChan has room for whatever a worker still sends, so
\* that the workers a failed call leaves behind end.
SendersNeverBlock == \A w \in Pool : worker[w].at # "ended" => Room

THEOREM RoomForAll == EvaluateSpec => []SendersNeverBlock
<1>1. ASSUME EvaluationInv, NEW w \in Pool, worker[w].at # "ended" PROVE Room
  <2>1. w \in Running /\ Running \subseteq Pool /\ IsFiniteSet(Pool)
    BY <1>1, PoolShape DEF EvaluationInv, Running
  <2>2. IsFiniteSet(Running)
    BY <2>1, FS_Subset
  <2>3. Cardinality(Running) \in Nat /\ Cardinality(Running) # 0
    BY <2>1, <2>2, FS_CardinalityType, FS_EmptySet
  <2>4. Len(results) \in Nat /\ WorkerCount \in Nat
    BY <1>1, PoolShape DEF EvaluationInv, FilterTypeOK
  <2> QED BY <1>1, <2>3, <2>4 DEF EvaluationInv, Places, Room
<1>2. EvaluationInv => SendersNeverBlock
  BY <1>1 DEF SendersNeverBlock
<1> QED BY <1>2, EvaluationSafe, PTL

\* The steps of an evaluation are steps of SolveLAP or leave it alone, so what
\* is proved of the solver holds behind the filter.
THEOREM EvaluationSolves == EvaluateSpec => Spec
<1>1. EvaluateInit => Init
  BY DEF EvaluateInit
<1>2. [EvaluateNext]_allVars => [Next]_vars
  BY DEF EvaluateNext, Cancel, Work, EvaluateDriver, JobsClosed, SendError, SendArcs,
     DropArcs, Send, CloseResults, Caller, Collect, Answer, Match, Next, allVars
<1> QED BY <1>1, <1>2, PTL DEF EvaluateSpec, Spec

\* The duals a policy reads are shadow prices of the matching it dispatches.
THEOREM EvaluationPrices == EvaluateSpec => []ShadowPrices
BY EvaluationSolves, PricesAreShadowPrices, PTL

\* No complete assignment earns more than the matches a policy dispatches.
THEOREM EvaluationMatches == EvaluateSpec => []BestComplete
BY EvaluationSolves, ExactMatchesAreBest, PTL

=============================================================================
