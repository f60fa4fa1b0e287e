-------------------------- MODULE Dominance_proofs --------------------------
(***************************************************************************)
(* Proofs about the dominance analysis, for every control-flow graph:      *)
(* first about walks up a dominator tree, then about paths and dominators, *)
(* then about the analysis.                                                *)
(***************************************************************************)
EXTENDS Dominance, NaturalFacts, SequenceTheorems

(***************************************************************************)
(* Ancestors                                                               *)
(***************************************************************************)

\* f lists the first k + 1 blocks on the way up from b.
ListsAncestors(tree, b, k, f) ==
    f = [j \in 0..k |-> IF j = 0 THEN b
                        ELSE LET below == f[j - 1]
                             IN  IF below = None THEN None ELSE Parent(tree, below)]

LEMMA AncestorListExists ==
    ASSUME NEW tree, NEW b
    PROVE  \A k \in Nat : \E f : ListsAncestors(tree, b, k, f)
<1> DEFINE S == {k \in Nat : \E f : ListsAncestors(tree, b, k, f)}
<1>1. 0 \in S
    <2> DEFINE f == [j \in 0..0 |-> b]
    <2>1. ListsAncestors(tree, b, 0, f)
        BY DEF ListsAncestors
    <2>2. QED
        BY <2>1
<1>2. ASSUME NEW k \in Nat, k \in S PROVE k + 1 \in S
    <2>1. PICK f : ListsAncestors(tree, b, k, f)
        BY <1>2
    <2> DEFINE g == [j \in 0..(k + 1) |->
                        IF j = 0 THEN b
                        ELSE LET below == f[j - 1]
                             IN  IF below = None THEN None ELSE Parent(tree, below)]
    <2>2. \A j \in 0..k : g[j] = f[j]
        BY <2>1 DEF ListsAncestors
    <2>3. \A j \in 0..(k + 1) : j # 0 => g[j - 1] = f[j - 1]
        BY <2>2
    <2>4. g = [j \in 0..(k + 1) |->
                    IF j = 0 THEN b
                    ELSE LET below == g[j - 1]
                         IN  IF below = None THEN None ELSE Parent(tree, below)]
        BY <2>3
    <2> HIDE DEF g
    <2>5. ListsAncestors(tree, b, k + 1, g)
        BY <2>4 DEF ListsAncestors
    <2>6. QED
        BY <2>5
<1>3. Nat \subseteq S
    <2> HIDE DEF S
    <2>1. QED BY <1>1, <1>2, SetInduction
<1>4. QED
    BY <1>3

LEMMA AncestorListUnique ==
    ASSUME NEW tree, NEW b, NEW k \in Nat, NEW m \in Nat, NEW f, NEW g,
           ListsAncestors(tree, b, k, f), ListsAncestors(tree, b, m, g)
    PROVE  \A j \in Nat : j <= k /\ j <= m => f[j] = g[j]
<1> DEFINE S == {j \in Nat : j <= k /\ j <= m => f[j] = g[j]}
<1>1. 0 \in S
    BY DEF ListsAncestors
<1>2. ASSUME NEW j \in Nat, j \in S PROVE j + 1 \in S
    <2> SUFFICES ASSUME j + 1 <= k, j + 1 <= m PROVE f[j + 1] = g[j + 1]
        OBVIOUS
    <2>1. f[j] = g[j]
        BY <1>2
    <2>2. j + 1 \in 0..k /\ j + 1 \in 0..m /\ j + 1 # 0 /\ (j + 1) - 1 = j
        OBVIOUS
    <2>3. f[j + 1] = IF f[j] = None THEN None ELSE Parent(tree, f[j])
        BY <2>2 DEF ListsAncestors
    <2>4. g[j + 1] = IF g[j] = None THEN None ELSE Parent(tree, g[j])
        BY <2>2 DEF ListsAncestors
    <2>5. QED
        BY <2>1, <2>3, <2>4
<1>3. Nat \subseteq S
    <2> HIDE DEF S
    <2>1. QED BY <1>1, <1>2, SetInduction
<1>4. QED
    BY <1>3

\* The walk starts at the block itself.
LEMMA AncestorZero ==
    ASSUME NEW tree, NEW b
    PROVE  Ancestor(tree, b, 0) = b
<1>1. PICK f : ListsAncestors(tree, b, 0, f)
    BY AncestorListExists
<1> DEFINE up == CHOOSE u : ListsAncestors(tree, b, 0, u)
<1>2. ListsAncestors(tree, b, 0, up)
    BY <1>1
<1>3. Ancestor(tree, b, 0) = up[0]
    BY DEF Ancestor, ListsAncestors
<1> HIDE DEF up
<1>4. up[0] = b
    BY <1>2 DEF ListsAncestors
<1>5. QED
    BY <1>3, <1>4

\* It goes on with the parent while there is one.
LEMMA AncestorSucc ==
    ASSUME NEW tree, NEW b, NEW k \in Nat
    PROVE  Ancestor(tree, b, k + 1) =
               IF Ancestor(tree, b, k) = None THEN None
               ELSE Parent(tree, Ancestor(tree, b, k))
<1> DEFINE up(n) == CHOOSE u : ListsAncestors(tree, b, n, u)
<1>1. ListsAncestors(tree, b, k, up(k))
    BY AncestorListExists
<1>2. ListsAncestors(tree, b, k + 1, up(k + 1))
    BY AncestorListExists
<1>3. Ancestor(tree, b, k) = up(k)[k]
    BY DEF Ancestor, ListsAncestors
<1>4. Ancestor(tree, b, k + 1) = up(k + 1)[k + 1]
    BY DEF Ancestor, ListsAncestors
<1> HIDE DEF up
<1>5. up(k + 1)[k] = up(k)[k]
    BY <1>1, <1>2, AncestorListUnique
<1>6. k + 1 \in 0..(k + 1) /\ k + 1 # 0 /\ (k + 1) - 1 = k
    OBVIOUS
<1>7. up(k + 1)[k + 1] = IF up(k + 1)[k] = None THEN None
                          ELSE Parent(tree, up(k + 1)[k])
    BY <1>2, <1>6 DEF ListsAncestors
<1>8. QED
    BY <1>3, <1>4, <1>5, <1>7

\* Walking up j + k levels is walking up j levels and then k more.
LEMMA AncestorAdd ==
    ASSUME NEW tree, NEW b, NEW j \in Nat, Ancestor(tree, b, j) # None
    PROVE  \A k \in Nat :
               Ancestor(tree, b, j + k) = Ancestor(tree, Ancestor(tree, b, j), k)
<1> DEFINE a == Ancestor(tree, b, j)
           S == {k \in Nat : Ancestor(tree, b, j + k) = Ancestor(tree, a, k)}
<1>1. 0 \in S
    BY AncestorZero
<1>2. ASSUME NEW k \in Nat, k \in S PROVE k + 1 \in S
    <2>1. Ancestor(tree, b, j + k) = Ancestor(tree, a, k)
        BY <1>2
    <2>2. j + k \in Nat /\ j + (k + 1) = (j + k) + 1
        OBVIOUS
    <2>3. Ancestor(tree, b, (j + k) + 1) =
              IF Ancestor(tree, b, j + k) = None THEN None
              ELSE Parent(tree, Ancestor(tree, b, j + k))
        BY <2>2, AncestorSucc
    <2>4. Ancestor(tree, a, k + 1) =
              IF Ancestor(tree, a, k) = None THEN None
              ELSE Parent(tree, Ancestor(tree, a, k))
        BY AncestorSucc
    <2>5. Ancestor(tree, b, j + (k + 1)) = Ancestor(tree, a, k + 1)
        BY <2>1, <2>2, <2>3, <2>4
    <2>6. QED
        BY <2>5
<1>3. Nat \subseteq S
    <2> HIDE DEF S
    <2>1. QED BY <1>1, <1>2, SetInduction
<1>4. QED
    BY <1>3

(***************************************************************************)
(* Trees                                                                   *)
(***************************************************************************)

TreeBlocks(tree) == {b \in Block : tree[b] # None}

\* The map is a tree: below the entry every parent is in it and ranks lower.
IsTree(tree, rank) ==
    /\ tree \in [Block -> Block \cup {None}]
    /\ rank \in [Block -> Nat]
    /\ tree[Entry] = Entry
    /\ \A b \in TreeBlocks(tree) \ {Entry} :
           tree[b] \in TreeBlocks(tree) /\ rank[tree[b]] < rank[b]

\* b and the blocks above it.
Above(tree, b) == {Ancestor(tree, b, k) : k \in Nat} \ {None}

LEMMA EntryInTree ==
    ASSUME NEW tree, NEW rank, IsTree(tree, rank)
    PROVE  Entry \in TreeBlocks(tree) /\ Parent(tree, Entry) = None
    BY BlockAssumption DEF IsTree, TreeBlocks, Parent

LEMMA ParentOf ==
    ASSUME NEW tree, NEW rank, IsTree(tree, rank), NEW b \in TreeBlocks(tree) \ {Entry}
    PROVE  /\ Parent(tree, b) = tree[b] /\ tree[b] \in TreeBlocks(tree)
           /\ tree[b] # None /\ rank[tree[b]] < rank[b]
<1>1. tree[b] \in TreeBlocks(tree) /\ rank[tree[b]] < rank[b]
    BY DEF IsTree
<1>2. rank[b] \in Nat
    BY DEF IsTree, TreeBlocks
<1>3. tree[b] # b
    BY <1>1, <1>2
<1>4. QED
    BY <1>1, <1>3, BlockAssumption DEF Parent, TreeBlocks

\* The ancestors of a block of the tree are in the tree, at decreasing ranks.
LEMMA AncestorInTree ==
    ASSUME NEW tree, NEW rank, IsTree(tree, rank), NEW b \in TreeBlocks(tree)
    PROVE  \A k \in Nat : Ancestor(tree, b, k) # None =>
               /\ Ancestor(tree, b, k) \in TreeBlocks(tree)
               /\ rank[Ancestor(tree, b, k)] + k <= rank[b]
<1> DEFINE A(k) == Ancestor(tree, b, k)
           S == {k \in Nat : A(k) # None => A(k) \in TreeBlocks(tree) /\ rank[A(k)] + k <= rank[b]}
<1>0. rank \in [Block -> Nat] /\ TreeBlocks(tree) \subseteq Block
    BY DEF IsTree, TreeBlocks
<1>1. 0 \in S
    BY <1>0, AncestorZero
<1>2. ASSUME NEW k \in Nat, k \in S PROVE k + 1 \in S
    <2> SUFFICES ASSUME A(k + 1) # None
                 PROVE  A(k + 1) \in TreeBlocks(tree) /\ rank[A(k + 1)] + (k + 1) <= rank[b]
        OBVIOUS
    <2>1. A(k) # None /\ A(k + 1) = Parent(tree, A(k))
        BY AncestorSucc
    <2>2. A(k) \in TreeBlocks(tree) /\ rank[A(k)] + k <= rank[b]
        BY <1>2, <2>1
    <2> HIDE DEF A
    <2>3. A(k) # Entry
        BY <2>1, EntryInTree
    <2>4. A(k + 1) \in TreeBlocks(tree) /\ rank[A(k + 1)] < rank[A(k)]
        BY <2>1, <2>2, <2>3, ParentOf
    <2>5. rank[A(k + 1)] \in Nat /\ rank[A(k)] \in Nat /\ rank[b] \in Nat
        BY <1>0, <2>2, <2>4
    <2>6. QED
        BY <2>2, <2>4, <2>5
<1>3. Nat \subseteq S
    <2> HIDE DEF S
    <2>1. QED BY <1>1, <1>2, SetInduction
<1>4. QED
    BY <1>3

\* Above the entry there is nothing, and every walk up ends there.
LEMMA WalkEndsAtEntry ==
    ASSUME NEW tree, NEW rank, IsTree(tree, rank), NEW b \in TreeBlocks(tree)
    PROVE  \E h \in Nat : /\ Ancestor(tree, b, h) = Entry
                          /\ \A k \in Nat : Ancestor(tree, b, k) # None <=> k <= h
<1> DEFINE A(k) == Ancestor(tree, b, k)
           T == {k \in Nat : A(k) = None}
<1>0. rank \in [Block -> Nat] /\ TreeBlocks(tree) \subseteq Block /\ rank[b] \in Nat
    BY DEF IsTree, TreeBlocks
<1>1. rank[b] + 1 \in T
    <2>1. rank[b] + 1 \in Nat
        BY <1>0
    <2>2. ASSUME A(rank[b] + 1) # None PROVE FALSE
        <3>1. /\ A(rank[b] + 1) \in TreeBlocks(tree)
              /\ rank[A(rank[b] + 1)] + (rank[b] + 1) <= rank[b]
            BY <2>1, <2>2, AncestorInTree
        <3> HIDE DEF A
        <3>2. rank[A(rank[b] + 1)] \in Nat
            BY <1>0, <3>1
        <3>3. QED
            BY <1>0, <3>1, <3>2
    <2>3. QED
        BY <2>1, <2>2
<1>2. PICK n \in T : \A k \in T : n <= k
    <2>1. T \subseteq Nat /\ T # {}
        BY <1>1
    <2> HIDE DEF T
    <2>2. QED
        BY <2>1, LeastNatural
<1>3. n # 0
    BY <1>2, AncestorZero, BlockAssumption DEF TreeBlocks
<1> DEFINE h == n - 1
<1>4. h \in Nat /\ h + 1 = n /\ n \in Nat
    BY <1>2, <1>3
<1>5. A(h) # None
    BY <1>2, <1>4
<1>6. A(h) \in TreeBlocks(tree)
    BY <1>4, <1>5, AncestorInTree
<1>7. Parent(tree, A(h)) = None
    <2>1. A(h + 1) = None
        BY <1>2, <1>4
    <2> HIDE DEF h
    <2>2. QED
        BY <1>4, <1>5, <2>1, AncestorSucc
<1>8. A(h) = Entry
    <2> HIDE DEF A, h
    <2>1. QED BY <1>6, <1>7, ParentOf
<1>9. \A k \in Nat : k <= h => A(k) # None
    BY <1>2, <1>4
<1>10. ASSUME NEW k \in Nat, ~(k <= h) PROVE A(k) = None
    <2> DEFINE U == {j \in Nat : A(n + j) = None}
    <2>1. 0 \in U
        BY <1>2, <1>4
    <2>2. ASSUME NEW j \in Nat, j \in U PROVE j + 1 \in U
        <3>1. n + j \in Nat /\ (n + j) + 1 = n + (j + 1)
            BY <1>4
        <3>2. A((n + j) + 1) = None
            BY <2>2, <3>1, AncestorSucc
        <3>3. QED
            BY <3>1, <3>2
    <2>3. Nat \subseteq U
        <3> HIDE DEF U
        <3>1. QED BY <2>1, <2>2, SetInduction
    <2>4. k - n \in Nat /\ n + (k - n) = k
        BY <1>4, <1>10
    <2>5. A(n + (k - n)) = None
        BY <2>3, <2>4
    <2>6. QED
        BY <2>4, <2>5
<1>11. QED
    BY <1>4, <1>8, <1>9, <1>10

\* Depth counts the blocks on the walk up, so the walk has that many.
LEMMA DepthCounts ==
    ASSUME NEW tree, NEW rank, IsTree(tree, rank), NEW b \in TreeBlocks(tree)
    PROVE  /\ Depth(tree, b) \in 1..Cardinality(Block)
           /\ Ancestor(tree, b, Depth(tree, b) - 1) = Entry
           /\ \A k \in Nat : Ancestor(tree, b, k) # None <=> k < Depth(tree, b)
<1> DEFINE A(k) == Ancestor(tree, b, k)
           N == Cardinality(Block)
<1>0. N \in Nat
    BY BlockAssumption, FS_CardinalityType
<1>1. PICK h \in Nat : A(h) = Entry /\ \A k \in Nat : A(k) # None <=> k <= h
    BY WalkEndsAtEntry
<1> DEFINE f == [k \in 0..h |-> A(k)]
<1>2. f \in [0..h -> Block]
    <2>1. ASSUME NEW k \in 0..h PROVE A(k) \in Block
        <3>1. k \in Nat /\ A(k) # None BY <1>1
        <3>2. A(k) \in TreeBlocks(tree) BY <3>1, AncestorInTree
        <3>3. QED BY <3>2 DEF TreeBlocks
    <2> HIDE DEF A
    <2>2. QED BY <2>1
<1>3. ASSUME NEW j \in 0..h, NEW k \in 0..h, j < k PROVE A(j) # A(k)
    <2>1. /\ j \in Nat /\ k \in Nat /\ k - j \in Nat /\ j + (k - j) = k /\ k - j > 0
          /\ A(j) # None /\ A(k) # None
        BY <1>1, <1>3
    <2>2. A(j) \in TreeBlocks(tree)
        BY <2>1, AncestorInTree
    <2>3. A(k) = Ancestor(tree, A(j), k - j)
        BY <2>1, AncestorAdd
    <2>4. A(k) \in TreeBlocks(tree) /\ rank[A(k)] + (k - j) <= rank[A(j)]
        BY <2>1, <2>2, <2>3, AncestorInTree
    <2> HIDE DEF A
    <2>5. rank[A(k)] \in Nat /\ rank[A(j)] \in Nat
        BY <2>2, <2>4 DEF IsTree, TreeBlocks
    <2>6. QED
        BY <2>1, <2>4, <2>5
<1>4. f \in Injection(0..h, Block)
    <2>1. ASSUME NEW j \in 0..h, NEW k \in 0..h, f[j] = f[k] PROVE j = k
        <3>1. A(j) = A(k) BY <2>1
        <3> HIDE DEF A
        <3>2. j < k \/ k < j \/ j = k OBVIOUS
        <3>3. QED BY <1>3, <3>1, <3>2
    <2> HIDE DEF f
    <2>2. QED BY <1>2, <2>1 DEF Injection, IsInjective
<1>5. h + 1 <= N
    <2>1. IsFiniteSet(0..h) /\ Cardinality(0..h) = h + 1
        BY FS_Interval
    <2>2. Cardinality(0..h) <= Cardinality(Block)
        BY <1>4, BlockAssumption, FS_Injection
    <2>3. QED
        BY <2>1, <2>2
<1>6. {k \in 0..(N - 1) : A(k) # None} = 0..h
    <2> HIDE DEF A, N
    <2>1. QED BY <1>0, <1>1, <1>5
<1>7. Depth(tree, b) = h + 1
    <2>1. Cardinality(0..h) = h + 1
        BY FS_Interval
    <2>2. QED
        BY <1>6, <2>1 DEF Depth
<1>8. (h + 1) - 1 = h /\ h + 1 \in 1..N /\ \A k \in Nat : k <= h <=> k < h + 1
    BY <1>0, <1>5
<1> HIDE DEF N
<1>9. QED
    BY <1>1, <1>7, <1>8 DEF N

(***************************************************************************)
(* The blocks above a block                                                *)
(***************************************************************************)

\* A block above b is found at the difference of the depths.
LEMMA AboveAtDepth ==
    ASSUME NEW tree, NEW rank, IsTree(tree, rank), NEW b \in TreeBlocks(tree),
           NEW d \in Above(tree, b)
    PROVE  /\ d \in TreeBlocks(tree)
           /\ Depth(tree, d) <= Depth(tree, b)
           /\ d = Ancestor(tree, b, Depth(tree, b) - Depth(tree, d))
<1>1. PICK k \in Nat : d = Ancestor(tree, b, k) /\ d # None
    BY DEF Above
<1>2. d \in TreeBlocks(tree)
    BY <1>1, AncestorInTree
<1> DEFINE B == Depth(tree, b)
           D == Depth(tree, d)
<1>3. B \in Nat /\ \A m \in Nat : Ancestor(tree, b, m) # None <=> m < B
    <2>1. B \in 1..Cardinality(Block) BY DepthCounts
    <2>2. QED BY <2>1, DepthCounts
<1>4. D \in Nat /\ D > 0 /\ \A m \in Nat : Ancestor(tree, d, m) # None <=> m < D
    <2>1. D \in 1..Cardinality(Block) BY <1>2, DepthCounts
    <2>2. QED BY <1>2, <2>1, DepthCounts
<1> HIDE DEF B, D
<1>5. \A m \in Nat : m < D <=> k + m < B
    <2> TAKE m \in Nat
    <2>1. Ancestor(tree, b, k + m) = Ancestor(tree, d, m)
        BY <1>1, AncestorAdd
    <2>2. k + m \in Nat
        OBVIOUS
    <2>3. QED
        BY <1>3, <1>4, <2>1, <2>2
<1>6. ~(k + D < B)
    BY <1>4, <1>5
<1>7. k + (D - 1) < B
    BY <1>4, <1>5
<1>8. k = B - D /\ D <= B
    BY <1>3, <1>4, <1>6, <1>7
<1>9. QED
    BY <1>1, <1>2, <1>8 DEF B, D

LEMMA AboveSelf ==
    ASSUME NEW tree, NEW b \in TreeBlocks(tree)
    PROVE  b \in Above(tree, b)
    BY AncestorZero, BlockAssumption DEF Above, TreeBlocks

LEMMA AboveTransitive ==
    ASSUME NEW tree, NEW b, NEW c \in Above(tree, b), NEW d \in Above(tree, c)
    PROVE  d \in Above(tree, b)
<1>1. PICK j \in Nat : c = Ancestor(tree, b, j) /\ c # None
    BY DEF Above
<1>2. PICK k \in Nat : d = Ancestor(tree, c, k) /\ d # None
    BY DEF Above
<1>3. d = Ancestor(tree, b, j + k)
    BY <1>1, <1>2, AncestorAdd
<1>4. QED
    BY <1>2, <1>3 DEF Above

\* Ranks decrease on the way up.
LEMMA AboveRank ==
    ASSUME NEW tree, NEW rank, IsTree(tree, rank), NEW b \in TreeBlocks(tree),
           NEW d \in Above(tree, b)
    PROVE  rank[d] <= rank[b] /\ (d # b => rank[d] < rank[b])
<1>1. PICK k \in Nat : d = Ancestor(tree, b, k) /\ d # None
    BY DEF Above
<1>2. d \in TreeBlocks(tree) /\ rank[d] + k <= rank[b]
    BY <1>1, AncestorInTree
<1>3. rank[d] \in Nat /\ rank[b] \in Nat
    BY <1>2 DEF IsTree, TreeBlocks
<1>4. k = 0 => d = b
    BY <1>1, AncestorZero
<1>5. QED
    BY <1>2, <1>3, <1>4

\* Above a block other than the entry are the block, its parent and what is
\* above its parent; above the entry, only the entry.
LEMMA AboveParent ==
    ASSUME NEW tree, NEW rank, IsTree(tree, rank), NEW b \in TreeBlocks(tree) \ {Entry}
    PROVE  Above(tree, b) = {b} \cup Above(tree, tree[b])
<1>1. Ancestor(tree, b, 0) = b /\ b # None
    BY AncestorZero, BlockAssumption DEF TreeBlocks
<1>2. Ancestor(tree, b, 1) = tree[b] /\ tree[b] # None
    <2>1. Parent(tree, b) = tree[b] /\ tree[b] # None
        BY ParentOf
    <2>2. Ancestor(tree, b, 0 + 1) = Parent(tree, b)
        BY <1>1, AncestorSucc
    <2>3. QED
        BY <2>1, <2>2
<1>3. \A k \in Nat : Ancestor(tree, b, 1 + k) = Ancestor(tree, tree[b], k)
    BY <1>2, AncestorAdd
<1>4. ASSUME NEW d \in Above(tree, b) PROVE d \in {b} \cup Above(tree, tree[b])
    <2>1. PICK k \in Nat : d = Ancestor(tree, b, k) /\ d # None
        BY DEF Above
    <2>2. CASE k = 0
        BY <1>1, <2>1, <2>2
    <2>3. CASE k # 0
        <3>1. k - 1 \in Nat /\ 1 + (k - 1) = k
            BY <2>3
        <3>2. d = Ancestor(tree, tree[b], k - 1)
            BY <1>3, <2>1, <3>1
        <3>3. QED
            BY <2>1, <3>1, <3>2 DEF Above
    <2>4. QED
        BY <2>2, <2>3
<1>5. ASSUME NEW d \in Above(tree, tree[b]) PROVE d \in Above(tree, b)
    <2>1. tree[b] \in Above(tree, b)
        BY <1>2 DEF Above
    <2>2. QED
        BY <2>1, AboveTransitive
<1>6. QED
    BY <1>4, <1>5, AboveSelf

LEMMA AboveEntry ==
    ASSUME NEW tree, NEW rank, IsTree(tree, rank)
    PROVE  Above(tree, Entry) = {Entry}
<1>1. Entry \in TreeBlocks(tree) /\ Parent(tree, Entry) = None
    BY EntryInTree
<1>2. PICK h \in Nat : /\ Ancestor(tree, Entry, h) = Entry
                       /\ \A k \in Nat : Ancestor(tree, Entry, k) # None <=> k <= h
    BY <1>1, WalkEndsAtEntry
<1>3. Ancestor(tree, Entry, 0) = Entry
    BY AncestorZero
<1>4. Ancestor(tree, Entry, 0 + 1) = None
    BY <1>1, <1>3, AncestorSucc
<1>5. ~(1 <= h)
    BY <1>2, <1>4
<1>6. h = 0
    BY <1>5
<1>7. \A k \in Nat : k # 0 => Ancestor(tree, Entry, k) = None
    BY <1>2, <1>6
<1>8. QED
    BY <1>1, <1>3, <1>7, AboveSelf DEF Above

\* The entry is above every block of the tree.
LEMMA EntryAbove ==
    ASSUME NEW tree, NEW rank, IsTree(tree, rank), NEW b \in TreeBlocks(tree)
    PROVE  Entry \in Above(tree, b)
    BY WalkEndsAtEntry, BlockAssumption DEF Above

(***************************************************************************)
(* The meeting point of two walks                                          *)
(***************************************************************************)

\* find_common_dominator climbs one step at a time and gives up after
\* MaxIterations of them; no walk is longer than the number of blocks.
MovesSuffice == Cardinality(Block) <= MaxIterations

LEMMA MinIsLeast ==
    ASSUME NEW S, S \subseteq Nat, S # {}
    PROVE  Min(S) \in S /\ \A y \in S : Min(S) <= y
    BY LeastNatural DEF Min

\* Two walks from the same depth meet where they first coincide.
LEMMA LevelWalksMeet ==
    ASSUME NEW tree, NEW rank, IsTree(tree, rank), MovesSuffice,
           NEW x \in TreeBlocks(tree), NEW y \in TreeBlocks(tree),
           Depth(tree, x) = Depth(tree, y),
           NEW moved \in Nat, moved + Depth(tree, x) <= Cardinality(Block)
    PROVE  LET stop == Min({k \in 0..Cardinality(Block) : Meets(tree, x, y, moved, k)})
               z == Ancestor(tree, x, stop)
           IN  /\ z \in Above(tree, x) \cap Above(tree, y)
               /\ Above(tree, x) \cap Above(tree, y) \subseteq Above(tree, z)
<1> DEFINE D == Depth(tree, x)
           N == Cardinality(Block)
           X(k) == Ancestor(tree, x, k)
           Y(k) == Ancestor(tree, y, k)
           M == {k \in 0..N : Meets(tree, x, y, moved, k)}
           stop == Min(M)
           z == Ancestor(tree, x, stop)
<1>1. /\ N \in Nat /\ D \in 1..N
      /\ X(D - 1) = Entry /\ \A k \in Nat : X(k) # None <=> k < D
      /\ Y(D - 1) = Entry /\ \A k \in Nat : Y(k) # None <=> k < D
    <2>1. N \in Nat
        BY BlockAssumption, FS_CardinalityType
    <2>2. QED
        BY <2>1, DepthCounts
<1>2. D - 1 \in M
    <2>1. Meets(tree, x, y, moved, D - 1)
        BY <1>1 DEF Meets
    <2>2. D - 1 \in 0..N
        BY <1>1
    <2>3. QED
        BY <2>1, <2>2
<1>3. /\ stop \in M /\ \A k \in M : stop <= k
      /\ stop \in Nat /\ stop <= D - 1
    <2>1. M \subseteq Nat /\ M # {}
        BY <1>1, <1>2
    <2> HIDE DEF M
    <2>2. stop \in M /\ \A k \in M : stop <= k
        BY <2>1, MinIsLeast
    <2>3. QED
        BY <1>2, <2>1, <2>2
<1>4. X(stop) = Y(stop)
    <2>1. Meets(tree, x, y, moved, stop)
        BY <1>3
    <2> HIDE DEF stop
    <2>2. X(stop) # None /\ Y(stop) # None
        BY <1>1, <1>3
    <2>3. ~(moved + stop > MaxIterations)
        BY <1>1, <1>3, BoundsAssumption DEF MovesSuffice
    <2>4. CASE Parent(tree, X(stop)) = None \/ Parent(tree, Y(stop)) = None
        <3>1. X(stop + 1) = None \/ Y(stop + 1) = None
            BY <1>3, <2>2, <2>4, AncestorSucc
        <3>2. ~(stop + 1 < D)
            BY <1>1, <1>3, <3>1
        <3>3. stop = D - 1
            BY <1>1, <1>3, <3>2
        <3>4. QED
            BY <1>1, <3>3
    <2>5. QED
        BY <2>1, <2>3, <2>4 DEF Meets
<1>5. z \in Above(tree, x) \cap Above(tree, y)
    <2> HIDE DEF stop
    <2>1. X(stop) # None
        BY <1>1, <1>3
    <2>2. QED
        BY <1>3, <1>4, <2>1 DEF Above
<1>6. ASSUME NEW d \in Above(tree, x), d \in Above(tree, y) PROVE d \in Above(tree, z)
    <2> DEFINE k == D - Depth(tree, d)
    <2>1. d \in TreeBlocks(tree) /\ Depth(tree, d) <= D /\ d = X(k) /\ d = Y(k)
        BY <1>6, AboveAtDepth
    <2>2. Depth(tree, d) \in 1..N
        BY <2>1, DepthCounts
    <2>3. k \in 0..N /\ k \in Nat
        BY <1>1, <2>1, <2>2
    <2>4. Meets(tree, x, y, moved, k)
        BY <2>1 DEF Meets
    <2>5. stop <= k
        BY <1>3, <2>3, <2>4
    <2> HIDE DEF k, stop
    <2>6. k - stop \in Nat /\ stop + (k - stop) = k
        BY <1>3, <2>3, <2>5
    <2>7. X(stop) # None
        BY <1>1, <1>3
    <2>8. Ancestor(tree, x, stop + (k - stop)) = Ancestor(tree, z, k - stop)
        BY <1>3, <2>6, <2>7, AncestorAdd DEF z
    <2>9. d = Ancestor(tree, z, k - stop)
        BY <2>1, <2>6, <2>8
    <2>10. d # None
        BY <2>1, BlockAssumption DEF TreeBlocks
    <2>11. QED
        BY <2>6, <2>9, <2>10 DEF Above
<1>7. QED
    BY <1>5, <1>6

\* Climbing to a smaller depth passes every block above that has it.
LEMMA LevelAt ==
    ASSUME NEW tree, NEW rank, IsTree(tree, rank), NEW b \in TreeBlocks(tree),
           NEW lift \in Nat, lift < Depth(tree, b)
    PROVE  LET level == Ancestor(tree, b, lift)
           IN  /\ level \in TreeBlocks(tree)
               /\ level \in Above(tree, b)
               /\ Depth(tree, level) = Depth(tree, b) - lift
               /\ \A d \in Above(tree, b) :
                      Depth(tree, d) <= Depth(tree, level) => d \in Above(tree, level)
<1> DEFINE level == Ancestor(tree, b, lift)
           B == Depth(tree, b)
           L == Depth(tree, level)
<1>1. B \in Nat /\ level # None
    <2>1. B \in 1..Cardinality(Block) /\ level # None
        BY DepthCounts
    <2>2. Cardinality(Block) \in Nat
        BY BlockAssumption, FS_CardinalityType
    <2>3. QED BY <2>1, <2>2
<1>2. level \in TreeBlocks(tree) /\ level \in Above(tree, b)
    <2>1. level \in TreeBlocks(tree)
        BY <1>1, AncestorInTree
    <2>2. QED BY <1>1, <2>1 DEF Above
<1>3. L \in Nat /\ L > 0 /\ \A m \in Nat : Ancestor(tree, level, m) # None <=> m < L
    <2>1. L \in 1..Cardinality(Block) /\ \A m \in Nat : Ancestor(tree, level, m) # None <=> m < L
        BY <1>2, DepthCounts
    <2>2. Cardinality(Block) \in Nat
        BY BlockAssumption, FS_CardinalityType
    <2> HIDE DEF L, level
    <2>3. QED BY <2>1, <2>2
<1>4. \A m \in Nat : m < L <=> lift + m < B
    <2> TAKE m \in Nat
    <2>1. Ancestor(tree, b, lift + m) = Ancestor(tree, level, m)
        BY <1>1, AncestorAdd
    <2>2. Ancestor(tree, b, lift + m) # None <=> lift + m < B
        BY DepthCounts
    <2> HIDE DEF L, level, B
    <2>3. QED BY <1>3, <2>1, <2>2
<1>5. L = B - lift
    <2> HIDE DEF L, B, level
    <2>1. ~(lift + L < B) BY <1>3, <1>4
    <2>2. lift + (L - 1) < B BY <1>3, <1>4
    <2>3. QED BY <1>1, <1>3, <2>1, <2>2
<1>6. ASSUME NEW d \in Above(tree, b), Depth(tree, d) <= L PROVE d \in Above(tree, level)
    <2> DEFINE E == Depth(tree, d)
    <2>1. d \in TreeBlocks(tree) /\ d = Ancestor(tree, b, B - E)
        BY AboveAtDepth
    <2>2. E \in Nat
        <3>1. E \in 1..Cardinality(Block)
            BY <2>1, DepthCounts
        <3>2. QED BY <3>1
    <2> HIDE DEF E, L, B
    <2>3. L - E \in Nat /\ lift + (L - E) = B - E
        BY <1>1, <1>3, <1>5, <1>6, <2>2 DEF E
    <2>4. Ancestor(tree, b, lift + (L - E)) = Ancestor(tree, level, L - E)
        BY <1>1, <2>3, AncestorAdd
    <2>5. d = Ancestor(tree, level, L - E) /\ d # None
        BY <2>1, <2>3, <2>4, BlockAssumption DEF TreeBlocks
    <2>6. QED
        BY <2>3, <2>5 DEF Above
<1>7. QED
    BY <1>2, <1>5, <1>6

\* find_common_dominator returns the lowest block above both fingers.
LEMMA CommonDominator ==
    ASSUME NEW tree, NEW rank, IsTree(tree, rank), MovesSuffice,
           NEW x \in TreeBlocks(tree), NEW y \in TreeBlocks(tree)
    PROVE  LET z == FindCommonDominator(tree, x, y)
           IN  /\ z \in Above(tree, x) \cap Above(tree, y)
               /\ Above(tree, x) \cap Above(tree, y) \subseteq Above(tree, z)
<1> DEFINE N == Cardinality(Block)
           dx == Depth(tree, x)
           dy == Depth(tree, y)
           lx == IF dx > dy THEN dx - dy ELSE 0
           ly == IF dy > dx THEN dy - dx ELSE 0
           vx == Ancestor(tree, x, lx)
           vy == Ancestor(tree, y, ly)
           z == Ancestor(tree, vx, Min({k \in 0..N : Meets(tree, vx, vy, lx + ly, k)}))
<1>1. N \in Nat /\ dx \in 1..N /\ dy \in 1..N
    <2>1. N \in Nat
        BY BlockAssumption, FS_CardinalityType
    <2>2. QED
        BY <2>1, DepthCounts
<1> HIDE DEF N, dx, dy
<1>2. /\ lx \in Nat /\ ly \in Nat /\ lx < dx /\ ly < dy /\ dx - lx = dy - ly
      /\ lx + ly \in Nat /\ (lx + ly) + (dx - lx) <= N
      /\ ~(lx > MaxIterations) /\ ~(ly > MaxIterations)
    BY <1>1, BoundsAssumption DEF MovesSuffice, N
<1>3. FindCommonDominator(tree, x, y) = z
    BY <1>2 DEF FindCommonDominator, dx, dy, N
<1> HIDE DEF lx, ly
<1>4. /\ vx \in TreeBlocks(tree) /\ vx \in Above(tree, x)
      /\ Depth(tree, vx) = dx - lx
      /\ \A d \in Above(tree, x) :
             Depth(tree, d) <= Depth(tree, vx) => d \in Above(tree, vx)
    BY <1>2, LevelAt DEF dx
<1>5. /\ vy \in TreeBlocks(tree) /\ vy \in Above(tree, y)
      /\ Depth(tree, vy) = dy - ly
      /\ \A d \in Above(tree, y) :
             Depth(tree, d) <= Depth(tree, vy) => d \in Above(tree, vy)
    BY <1>2, LevelAt DEF dy
<1> HIDE DEF vx, vy
<1>6. /\ z \in Above(tree, vx) \cap Above(tree, vy)
      /\ Above(tree, vx) \cap Above(tree, vy) \subseteq Above(tree, z)
    <2>1. Depth(tree, vx) = Depth(tree, vy) /\ (lx + ly) + Depth(tree, vx) <= Cardinality(Block)
        BY <1>2, <1>4, <1>5 DEF N
    <2>2. QED
        BY <1>2, <1>4, <1>5, <2>1, LevelWalksMeet DEF N
<1> HIDE DEF z
<1>7. z \in Above(tree, x) /\ z \in Above(tree, y)
    BY <1>4, <1>5, <1>6, AboveTransitive
<1>8. ASSUME NEW d \in Above(tree, x), d \in Above(tree, y) PROVE d \in Above(tree, z)
    <2>1. Depth(tree, d) <= dx /\ Depth(tree, d) <= dy
        BY <1>8, AboveAtDepth DEF dx, dy
    <2>2. Depth(tree, d) <= dx - lx /\ Depth(tree, d) <= dy - ly
        <3>1. lx = 0 \/ ly = 0
            BY <1>1 DEF lx, ly
        <3>2. QED
            BY <1>1, <1>2, <2>1, <3>1
    <2>3. d \in Above(tree, vx) /\ d \in Above(tree, vy)
        BY <1>4, <1>5, <1>8, <2>2
    <2>4. QED
        BY <1>6, <2>3
<1>9. QED
    BY <1>3, <1>7, <1>8

(***************************************************************************)
(* The intersection over the predecessors                                  *)
(***************************************************************************)

\* What intersect_dominators makes of the next predecessor.
Joined(tree, p, before) ==
    IF tree[p] = None THEN before
    ELSE IF before = None THEN p
    ELSE FindCommonDominator(tree, before, p)

\* f is the result after every set of predecessors in the family F.
FoldsOver(tree, F, f) ==
    f = [S \in F |-> IF S = {} THEN None
                     ELSE LET before == f[S \ {Max(S)}] IN Joined(tree, Max(S), before)]

\* Sets of predecessors with at most n elements.
UpTo(preds, n) == {S \in SUBSET preds : Cardinality(S) <= n}

LEMMA MaxRemoved ==
    ASSUME NEW preds \in SUBSET Block, NEW S \in SUBSET preds, S # {}
    PROVE  /\ Max(S) \in S
           /\ IsFiniteSet(S) /\ Cardinality(S) \in Nat
           /\ S \ {Max(S)} \in SUBSET preds
           /\ Cardinality(S \ {Max(S)}) = Cardinality(S) - 1
<1>1. S \subseteq Nat /\ S \in SUBSET Block
    BY BlockAssumption
<1>2. IsFiniteSet(S)
    BY <1>1, BlockAssumption, FS_Subset
<1>3. \E x \in S : \A y \in S : x >= y
    <2>1. PICK x \in S : \A y \in S : y <= x
        BY <1>1, <1>2, GreatestNatural
    <2>2. \A y \in S : x >= y
        BY <1>1, <2>1
    <2>3. QED
        BY <2>2
<1>4. Max(S) \in S
    BY <1>3 DEF Max
<1>5. QED
    BY <1>2, <1>4, FS_RemoveElement, FS_CardinalityType

LEMMA FoldExists ==
    ASSUME NEW tree, NEW preds \in SUBSET Block
    PROVE  \A n \in Nat : \E f : FoldsOver(tree, UpTo(preds, n), f)
<1> DEFINE T == {n \in Nat : \E f : FoldsOver(tree, UpTo(preds, n), f)}
<1>1. 0 \in T
    <2> DEFINE f == [S \in UpTo(preds, 0) |-> None]
    <2>1. \A S \in UpTo(preds, 0) : S = {}
        <3> SUFFICES ASSUME NEW S \in UpTo(preds, 0), S # {} PROVE FALSE
            OBVIOUS
        <3>1. S \in SUBSET preds /\ Cardinality(S) <= 0
            BY DEF UpTo
        <3>2. Cardinality(S) \in Nat /\ IsFiniteSet(S)
            BY <3>1, MaxRemoved
        <3>3. Cardinality(S) = 0
            BY <3>1, <3>2
        <3>4. QED
            BY <3>2, <3>3, FS_EmptySet
    <2>2. FoldsOver(tree, UpTo(preds, 0), f)
        BY <2>1, Zenon DEF FoldsOver
    <2>3. QED
        BY <2>2
<1>2. ASSUME NEW n \in Nat, n \in T PROVE n + 1 \in T
    <2>1. PICK f : FoldsOver(tree, UpTo(preds, n), f)
        BY <1>2
    <2> DEFINE g == [S \in UpTo(preds, n + 1) |->
                        IF S = {} THEN None
                        ELSE LET before == f[S \ {Max(S)}] IN Joined(tree, Max(S), before)]
    <2>2. UpTo(preds, n) \subseteq UpTo(preds, n + 1)
        <3> SUFFICES ASSUME NEW S \in UpTo(preds, n) PROVE S \in UpTo(preds, n + 1)
            OBVIOUS
        <3>1. S \in SUBSET preds /\ Cardinality(S) <= n
            BY DEF UpTo
        <3>2. Cardinality(S) \in Nat
            <4>1. CASE S = {} BY <4>1, FS_EmptySet
            <4>2. CASE S # {} BY <3>1, <4>2, MaxRemoved
            <4>3. QED BY <4>1, <4>2
        <3>3. Cardinality(S) <= n + 1
            BY <3>1, <3>2
        <3>4. QED
            BY <3>1, <3>3 DEF UpTo
    <2>3. \A S \in UpTo(preds, n) : g[S] = f[S]
        BY <2>1, <2>2 DEF FoldsOver
    <2>4. \A S \in UpTo(preds, n + 1) : S # {} => S \ {Max(S)} \in UpTo(preds, n)
        <3> SUFFICES ASSUME NEW S \in UpTo(preds, n + 1), S # {}
                     PROVE  S \ {Max(S)} \in UpTo(preds, n)
            OBVIOUS
        <3>1. S \in SUBSET preds /\ Cardinality(S) <= n + 1
            BY DEF UpTo
        <3>2. /\ Cardinality(S) \in Nat /\ S \ {Max(S)} \in SUBSET preds
              /\ Cardinality(S \ {Max(S)}) = Cardinality(S) - 1
            BY <3>1, MaxRemoved
        <3>3. Cardinality(S \ {Max(S)}) <= n
            BY <3>1, <3>2
        <3>4. QED
            BY <3>2, <3>3 DEF UpTo
    <2>5. \A S \in UpTo(preds, n + 1) : S # {} => g[S \ {Max(S)}] = f[S \ {Max(S)}]
        <3> HIDE DEF g
        <3>1. QED BY <2>3, <2>4
    <2>6. g = [S \in UpTo(preds, n + 1) |->
                 IF S = {} THEN None
                 ELSE LET before == g[S \ {Max(S)}] IN Joined(tree, Max(S), before)]
        BY <2>5
    <2> HIDE DEF g
    <2>7. FoldsOver(tree, UpTo(preds, n + 1), g)
        BY <2>6 DEF FoldsOver
    <2>8. QED
        BY <2>7
<1>3. Nat \subseteq T
    <2> HIDE DEF T
    <2>1. QED BY <1>1, <1>2, SetInduction
<1>4. QED
    BY <1>3

\* r is the lowest block above all estimated blocks of S, None if there is none.
IntersectionOf(tree, S, r) ==
    LET estimated == S \cap TreeBlocks(tree)
    IN  /\ estimated = {} => r = None
        /\ estimated # {} =>
            /\ r \in TreeBlocks(tree)
            /\ \A p \in estimated : r \in Above(tree, p)
            /\ \A d : (\A p \in estimated : d \in Above(tree, p)) => d \in Above(tree, r)

\* One more predecessor.
LEMMA JoinedIntersects ==
    ASSUME NEW tree, NEW rank, IsTree(tree, rank), MovesSuffice,
           NEW S \in SUBSET Block, NEW p \in S, NEW before,
           IntersectionOf(tree, S \ {p}, before)
    PROVE  IntersectionOf(tree, S, Joined(tree, p, before))
<1> DEFINE rest == (S \ {p}) \cap TreeBlocks(tree)
           all == S \cap TreeBlocks(tree)
           r == Joined(tree, p, before)
<1>1. CASE tree[p] = None
    <2>1. all = rest
        BY <1>1 DEF TreeBlocks
    <2>2. r = before
        BY <1>1 DEF Joined
    <2>3. QED
        BY <2>1, <2>2 DEF IntersectionOf
<1>2. CASE tree[p] # None /\ before = None
    <2>1. rest = {}
        BY <1>2, BlockAssumption DEF IntersectionOf, TreeBlocks
    <2>2. p \in TreeBlocks(tree) /\ all = {p}
        BY <1>2, <2>1 DEF TreeBlocks
    <2>3. r = p
        BY <1>2 DEF Joined
    <2>4. p \in Above(tree, p)
        BY <2>2, AboveSelf
    <2>5. QED
        BY <2>2, <2>3, <2>4 DEF IntersectionOf
<1>3. CASE tree[p] # None /\ before # None
    <2>1. rest # {} /\ before \in TreeBlocks(tree)
        BY <1>3 DEF IntersectionOf
    <2>2. p \in TreeBlocks(tree) /\ all = rest \cup {p}
        BY <1>3 DEF TreeBlocks
    <2>3. r = FindCommonDominator(tree, before, p)
        BY <1>3 DEF Joined
    <2>4. /\ r \in Above(tree, before) \cap Above(tree, p)
          /\ Above(tree, before) \cap Above(tree, p) \subseteq Above(tree, r)
        BY <2>1, <2>2, <2>3, CommonDominator
    <2> HIDE DEF r, rest, all
    <2>5. r \in TreeBlocks(tree)
        BY <2>2, <2>4, AboveAtDepth
    <2>6. ASSUME NEW q \in all PROVE r \in Above(tree, q)
        <3>1. CASE q = p BY <2>4, <3>1
        <3>2. CASE q \in rest
            <4>1. before \in Above(tree, q)
                BY <3>2 DEF IntersectionOf, rest
            <4>2. QED
                BY <2>4, <4>1, AboveTransitive
        <3>3. QED BY <2>2, <2>6, <3>1, <3>2
    <2>7. ASSUME NEW d, \A q \in all : d \in Above(tree, q) PROVE d \in Above(tree, r)
        <3>1. d \in Above(tree, p)
            BY <2>2, <2>7
        <3>2. \A q \in rest : d \in Above(tree, q)
            BY <2>2, <2>7
        <3>3. d \in Above(tree, before)
            BY <2>1, <3>2 DEF IntersectionOf, rest
        <3>4. QED
            BY <2>4, <3>1, <3>3
    <2>8. all # {}
        BY <2>2
    <2>9. QED
        BY <2>5, <2>6, <2>7, <2>8 DEF IntersectionOf, all, r
<1>4. QED
    BY <1>1, <1>2, <1>3

\* intersect_dominators computes the lowest block above all predecessors that
\* have an estimate.
LEMMA IntersectDominatorsCorrect ==
    ASSUME NEW tree, NEW rank, IsTree(tree, rank), MovesSuffice, NEW preds \in SUBSET Block
    PROVE  IntersectionOf(tree, preds, IntersectDominators(tree, preds))
<1> DEFINE N == Cardinality(preds)
           f == CHOOSE g : FoldsOver(tree, SUBSET preds, g)
<1>1. N \in Nat /\ IsFiniteSet(preds)
    <2>1. IsFiniteSet(preds)
        BY BlockAssumption, FS_Subset
    <2>2. QED
        BY <2>1, FS_CardinalityType
<1>2. UpTo(preds, N) = SUBSET preds
    BY <1>1, FS_Subset DEF UpTo
<1>3. FoldsOver(tree, SUBSET preds, f)
    <2>1. \E g : FoldsOver(tree, UpTo(preds, N), g)
        BY <1>1, FoldExists
    <2>2. QED
        BY <1>2, <2>1
<1>4. IntersectDominators(tree, preds) = f[preds]
    BY Zenon DEF IntersectDominators, FoldsOver, Joined
<1> HIDE DEF f
<1> DEFINE T == {n \in Nat : \A S \in SUBSET preds :
                     Cardinality(S) = n => IntersectionOf(tree, S, f[S])}
<1>5. \A S \in SUBSET preds : f[S] = IF S = {} THEN None
                                     ELSE Joined(tree, Max(S), f[S \ {Max(S)}])
    BY <1>3, Zenon DEF FoldsOver
<1>6. IntersectionOf(tree, {}, f[{}])
    BY <1>5 DEF IntersectionOf
<1>7. 0 \in T
    <2> SUFFICES ASSUME NEW S \in SUBSET preds, Cardinality(S) = 0
                 PROVE  IntersectionOf(tree, S, f[S])
        OBVIOUS
    <2>1. IsFiniteSet(S)
        BY <1>1, FS_Subset
    <2>2. S = {}
        BY <2>1, FS_EmptySet
    <2>3. QED
        BY <1>6, <2>2
<1>8. ASSUME NEW n \in Nat, n \in T PROVE n + 1 \in T
    <2>1. ASSUME NEW S \in SUBSET preds, Cardinality(S) = n + 1
          PROVE  IntersectionOf(tree, S, f[S])
        <3>1. S # {}
            BY <2>1, FS_EmptySet
        <3>2. /\ Max(S) \in S /\ S \ {Max(S)} \in SUBSET preds
              /\ Cardinality(S \ {Max(S)}) = Cardinality(S) - 1
            BY <3>1, MaxRemoved
        <3>3. Cardinality(S \ {Max(S)}) = n
            BY <2>1, <3>2
        <3>4. IntersectionOf(tree, S \ {Max(S)}, f[S \ {Max(S)}])
            BY <1>8, <3>2, <3>3
        <3>5. f[S] = Joined(tree, Max(S), f[S \ {Max(S)}])
            BY <1>5, <3>1
        <3>6. S \in SUBSET Block
            OBVIOUS
        <3>7. IntersectionOf(tree, S, Joined(tree, Max(S), f[S \ {Max(S)}]))
            BY <3>2, <3>4, <3>6, JoinedIntersects
        <3>8. QED
            BY <3>5, <3>7
    <2>2. n + 1 \in Nat
        OBVIOUS
    <2>3. QED
        BY <2>1, <2>2
<1>9. Nat \subseteq T
    <2> HIDE DEF T
    <2>1. QED BY <1>7, <1>8, SetInduction
<1>10. N \in T
    BY <1>1, <1>9
<1>11. QED
    BY <1>4, <1>10

-----------------------------------------------------------------------------
\* The control-flow graphs.
Cfg == [Block -> Seq(Block)]

(***************************************************************************)
(* Reachability and dominance by paths                                     *)
(***************************************************************************)

Grown(cfg, S, A) == S \cup ((UNION {ToSet(cfg[b]) : b \in S}) \ A)

\* f lists what is reached in up to n steps without passing A.
ListsReached(cfg, A, n, f) ==
    f = [k \in 0..n |-> IF k = 0 THEN {Entry} \ A ELSE Grown(cfg, f[k - 1], A)]

LEMMA SuccessorsAreBlocks ==
    ASSUME NEW cfg \in Cfg, NEW b \in Block
    PROVE  ToSet(cfg[b]) \subseteq Block
<1>1. cfg[b] \in Seq(Block)
    BY DEF Cfg
<1>2. \A i \in DOMAIN cfg[b] : cfg[b][i] \in Block
    BY <1>1
<1>3. QED
    BY <1>2 DEF ToSet

LEMMA ReachedListExists ==
    ASSUME NEW cfg, NEW A
    PROVE  \A n \in Nat : \E f : ListsReached(cfg, A, n, f)
<1> DEFINE S == {n \in Nat : \E f : ListsReached(cfg, A, n, f)}
<1>1. 0 \in S
    <2> DEFINE f == [k \in 0..0 |-> {Entry} \ A]
    <2>1. ListsReached(cfg, A, 0, f)
        BY DEF ListsReached
    <2>2. QED
        BY <2>1
<1>2. ASSUME NEW n \in Nat, n \in S PROVE n + 1 \in S
    <2>1. PICK f : ListsReached(cfg, A, n, f)
        BY <1>2
    <2> DEFINE g == [k \in 0..(n + 1) |->
                        IF k = 0 THEN {Entry} \ A ELSE Grown(cfg, f[k - 1], A)]
    <2>2. ASSUME NEW k \in 0..n PROVE g[k] = f[k]
        <3>1. f[k] = IF k = 0 THEN {Entry} \ A ELSE Grown(cfg, f[k - 1], A)
            BY <2>1 DEF ListsReached
        <3>2. k \in 0..(n + 1)
            OBVIOUS
        <3>3. g[k] = IF k = 0 THEN {Entry} \ A ELSE Grown(cfg, f[k - 1], A)
            BY <3>2
        <3>4. QED
            BY <3>1, <3>3
    <2>3. ASSUME NEW k \in 0..(n + 1), k # 0 PROVE g[k - 1] = f[k - 1]
        <3> HIDE DEF g
        <3>1. k - 1 \in 0..n
            BY <2>3
        <3>2. QED
            BY <2>2, <3>1
    <2>4. g = [k \in 0..(n + 1) |->
                    IF k = 0 THEN {Entry} \ A ELSE Grown(cfg, g[k - 1], A)]
        BY <2>3
    <2> HIDE DEF g
    <2>5. ListsReached(cfg, A, n + 1, g)
        BY <2>4 DEF ListsReached
    <2>6. QED
        BY <2>5
<1>3. Nat \subseteq S
    <2> HIDE DEF S
    <2>1. QED BY <1>1, <1>2, SetInduction
<1>4. QED
    BY <1>3

LEMMA ReachedStart ==
    ASSUME NEW cfg, NEW A, NEW n \in Nat, NEW f, ListsReached(cfg, A, n, f)
    PROVE  f[0] = {Entry} \ A
    BY DEF ListsReached

LEMMA ReachedStep ==
    ASSUME NEW cfg, NEW A, NEW n \in Nat, NEW f, ListsReached(cfg, A, n, f),
           NEW k \in 0..(n - 1)
    PROVE  f[k + 1] = Grown(cfg, f[k], A)
<1>1. k + 1 \in 0..n /\ k + 1 # 0 /\ (k + 1) - 1 = k
    OBVIOUS
<1>2. QED
    BY <1>1 DEF ListsReached

LEMMA ReachedInBlocks ==
    ASSUME NEW cfg \in Cfg, NEW A, NEW n \in Nat, NEW f, ListsReached(cfg, A, n, f)
    PROVE  f \in [0..n -> SUBSET Block]
<1> DEFINE S == {k \in 0..n : f[k] \subseteq Block}
<1>1. 0 \in S
    <2>1. f[0] = {Entry} \ A
        BY ReachedStart
    <2>2. QED
        BY <2>1, BlockAssumption
<1>2. ASSUME NEW k \in 0..(n - 1), k \in S PROVE k + 1 \in S
    <2>1. f[k + 1] = Grown(cfg, f[k], A)
        BY ReachedStep
    <2>2. f[k] \subseteq Block
        BY <1>2
    <2>3. Grown(cfg, f[k], A) \subseteq Block
        BY <2>2, SuccessorsAreBlocks DEF Grown
    <2>4. QED
        BY <2>1, <2>3
<1>3. 0..n \subseteq S
    <2> HIDE DEF S
    <2>1. QED BY <1>1, <1>2, BoundedInduction
<1>4. f = [k \in 0..n |-> f[k]]
    BY DEF ListsReached
<1>5. QED
    BY <1>3, <1>4

LEMMA ReachedListsAgree ==
    ASSUME NEW cfg, NEW A, NEW n \in Nat, NEW m \in Nat, n <= m, NEW f, NEW g,
           ListsReached(cfg, A, n, f), ListsReached(cfg, A, m, g)
    PROVE  \A k \in 0..n : f[k] = g[k]
<1> DEFINE S == {k \in 0..n : f[k] = g[k]}
<1>1. 0 \in S
    <2>1. f[0] = {Entry} \ A /\ g[0] = {Entry} \ A
        BY ReachedStart
    <2>2. 0 \in 0..n
        OBVIOUS
    <2>3. QED
        BY <2>1, <2>2
<1>2. ASSUME NEW k \in 0..(n - 1), k \in S PROVE k + 1 \in S
    <2>1. f[k + 1] = Grown(cfg, f[k], A)
        BY ReachedStep
    <2>2. k \in 0..(m - 1)
        OBVIOUS
    <2>3. g[k + 1] = Grown(cfg, g[k], A)
        BY <2>2, ReachedStep
    <2>4. QED
        BY <1>2, <2>1, <2>3
<1>3. 0..n \subseteq S
    <2> HIDE DEF S
    <2>1. QED BY <1>1, <1>2, BoundedInduction
<1>4. QED
    BY <1>3

\* ReachableAvoiding(cfg, A) is closed under edges that do not lead into A.
LEMMA ReachableClosed ==
    ASSUME NEW cfg \in Cfg, NEW A
    PROVE  /\ ReachableAvoiding(cfg, A) \subseteq Block
           /\ {Entry} \ A \subseteq ReachableAvoiding(cfg, A)
           /\ \A b \in ReachableAvoiding(cfg, A) :
                  ToSet(cfg[b]) \ A \subseteq ReachableAvoiding(cfg, A)
<1> DEFINE N == Cardinality(Block)
           R == ReachableAvoiding(cfg, A)
           f == CHOOSE g : ListsReached(cfg, A, N, g)
<1>1. N \in Nat
    BY BlockAssumption, FS_CardinalityType
<1>2. ListsReached(cfg, A, N, f)
    BY <1>1, ReachedListExists
<1>3. R = f[N]
    BY DEF ReachableAvoiding, ListsReached, Grown
<1> HIDE DEF N, f, R
<1>4. PICK g : ListsReached(cfg, A, N + 1, g)
    BY <1>1, ReachedListExists
<1>5. /\ N + 1 \in Nat
      /\ g \in [0..(N + 1) -> SUBSET Block]
      /\ g[0] = {Entry} \ A
      /\ \A k \in 0..N : g[k + 1] = Grown(cfg, g[k], A)
    <2>1. N + 1 \in Nat /\ (N + 1) - 1 = N
        BY <1>1
    <2>2. g \in [0..(N + 1) -> SUBSET Block]
        BY <1>4, <2>1, ReachedInBlocks
    <2>3. g[0] = {Entry} \ A
        BY <1>4, <2>1, ReachedStart
    <2>4. \A k \in 0..N : g[k + 1] = Grown(cfg, g[k], A)
        BY <1>4, <2>1, ReachedStep
    <2>5. QED
        BY <2>1, <2>2, <2>3, <2>4
<1>6. \A k \in 0..N : g[k] \subseteq g[k + 1]
    BY <1>5 DEF Grown
<1>7. ASSUME NEW k \in 0..(N - 1), g[k] = g[k + 1] PROVE g[k + 1] = g[k + 2]
    <2>1. k \in 0..N /\ k + 1 \in 0..N /\ (k + 1) + 1 = k + 2
        BY <1>1
    <2>2. g[k + 1] = Grown(cfg, g[k], A) /\ g[k + 2] = Grown(cfg, g[k + 1], A)
        BY <1>5, <2>1
    <2>3. QED
        BY <1>7, <2>2
<1>8. g[N] = g[N + 1]
    BY <1>5, <1>6, <1>7, BlockAssumption, GrowingSetSettles DEF N
<1>9. g[N] = Grown(cfg, g[N], A)
    BY <1>1, <1>5, <1>8
<1>10. f[N] = g[N]
    BY <1>1, <1>2, <1>4, ReachedListsAgree
<1>11. R \subseteq Block /\ R = Grown(cfg, R, A)
    BY <1>1, <1>3, <1>5, <1>9, <1>10
<1>12. {Entry} \ A \subseteq R
    <2> DEFINE S == {k \in 0..N : {Entry} \ A \subseteq g[k]}
    <2>1. 0 \in S
        BY <1>1, <1>5
    <2>2. ASSUME NEW k \in 0..(N - 1), k \in S PROVE k + 1 \in S
        BY <1>1, <1>6, <2>2
    <2>3. 0..N \subseteq S
        <3> HIDE DEF S
        <3>1. QED BY <1>1, <2>1, <2>2, BoundedInduction
    <2>4. QED
        BY <1>1, <1>3, <1>10, <2>3
<1>13. QED
    BY <1>11, <1>12 DEF R, Grown

\* It is the least such set.
LEMMA ReachableLeast ==
    ASSUME NEW cfg, NEW A, NEW S, {Entry} \ A \subseteq S,
           \A b \in S : ToSet(cfg[b]) \ A \subseteq S
    PROVE  ReachableAvoiding(cfg, A) \subseteq S
<1> DEFINE N == Cardinality(Block)
           f == CHOOSE g : ListsReached(cfg, A, N, g)
<1>1. N \in Nat
    BY BlockAssumption, FS_CardinalityType
<1>2. ListsReached(cfg, A, N, f)
    BY <1>1, ReachedListExists
<1>3. ReachableAvoiding(cfg, A) = f[N]
    BY DEF ReachableAvoiding, ListsReached, Grown
<1> HIDE DEF N, f
<1> DEFINE T == {k \in 0..N : f[k] \subseteq S}
<1>4. 0 \in T
    <2>1. f[0] = {Entry} \ A
        BY <1>1, <1>2, ReachedStart
    <2>2. QED
        BY <1>1, <2>1
<1>5. ASSUME NEW k \in 0..(N - 1), k \in T PROVE k + 1 \in T
    <2>1. f[k + 1] = Grown(cfg, f[k], A)
        BY <1>1, <1>2, ReachedStep
    <2>2. f[k] \subseteq S
        BY <1>5
    <2>3. Grown(cfg, f[k], A) \subseteq S
        BY <2>2 DEF Grown
    <2>4. k + 1 \in 0..N
        BY <1>1
    <2>5. QED
        BY <2>1, <2>3, <2>4
<1>6. 0..N \subseteq T
    <2> HIDE DEF T
    <2>1. QED BY <1>1, <1>4, <1>5, BoundedInduction
<1>7. QED
    BY <1>1, <1>3, <1>6

LEMMA ReachableFacts ==
    ASSUME NEW cfg \in Cfg
    PROVE  /\ Reachable(cfg) \subseteq Block /\ Entry \in Reachable(cfg)
           /\ \A b \in Reachable(cfg) : ToSet(cfg[b]) \subseteq Reachable(cfg)
<1>1. \A X : X \ {} = X
    OBVIOUS
<1>2. QED
    BY <1>1, ReachableClosed DEF Reachable

\* Nothing but the entry dominates the entry.
LEMMA EntryUndominated ==
    ASSUME NEW cfg \in Cfg, NEW d, Dominates(cfg, d, Entry)
    PROVE  d = Entry
<1> SUFFICES ASSUME d # Entry PROVE FALSE
    OBVIOUS
<1>1. Entry \in ReachableAvoiding(cfg, {d})
    BY ReachableClosed
<1>2. QED
    BY <1>1 DEF Dominates

\* A strict dominator of a block dominates its predecessors.
LEMMA DominatesPredecessor ==
    ASSUME NEW cfg \in Cfg, NEW b \in Block, NEW p \in Predecessors(cfg, b), NEW d,
           d # b, Dominates(cfg, d, b)
    PROVE  Dominates(cfg, d, p)
<1> SUFFICES ASSUME p # d, p \in ReachableAvoiding(cfg, {d}) PROVE FALSE
    BY DEF Dominates
<1>1. b \in ToSet(cfg[p]) \ {d}
    BY DEF Predecessors
<1>2. b \in ReachableAvoiding(cfg, {d})
    BY <1>1, ReachableClosed
<1>3. QED
    BY <1>2 DEF Dominates

(***************************************************************************)
(* Estimates that keep the dominators                                      *)
(***************************************************************************)

\* The estimate is a tree of reachable blocks in which a strict dominator of a
\* block dominates the block's parent.
KeepsDominators(cfg, tree, rank) ==
    /\ IsTree(tree, rank)
    /\ TreeBlocks(tree) \subseteq Reachable(cfg)
    /\ \A b \in TreeBlocks(tree) \ {Entry} :
           \A d \in StrictDominators(cfg, b) : Dominates(cfg, d, tree[b])

LEMMA LowestRanked ==
    ASSUME NEW rank \in [Block -> Nat], NEW C \in SUBSET Block, C # {}
    PROVE  \E x \in C : \A y \in C : rank[x] <= rank[y]
<1> DEFINE R == {rank[x] : x \in C}
<1>1. R \subseteq Nat /\ R # {}
    OBVIOUS
<1>2. PICK r \in R : \A s \in R : r <= s
    <2> HIDE DEF R
    <2>1. QED BY <1>1, LeastNatural
<1>3. PICK x \in C : r = rank[x]
    BY <1>2
<1>4. QED
    BY <1>2, <1>3

\* Then every dominator of a block is above it.
LEMMA DominatorsAbove ==
    ASSUME NEW cfg \in Cfg, NEW tree, NEW rank, KeepsDominators(cfg, tree, rank),
           NEW b \in TreeBlocks(tree), NEW d \in Reachable(cfg), Dominates(cfg, d, b)
    PROVE  d \in Above(tree, b)
<1> DEFINE C == {x \in TreeBlocks(tree) : Dominates(cfg, d, x) /\ d \notin Above(tree, x)}
<1> SUFFICES ASSUME C # {} PROVE FALSE
    OBVIOUS
<1>1. IsTree(tree, rank) /\ rank \in [Block -> Nat] /\ C \subseteq Block
    BY DEF KeepsDominators, IsTree, TreeBlocks
<1>2. PICK x \in C : \A y \in C : rank[x] <= rank[y]
    <2> HIDE DEF C
    <2>1. QED BY <1>1, LowestRanked
<1>3. x \in TreeBlocks(tree) /\ Dominates(cfg, d, x) /\ d \notin Above(tree, x)
    BY <1>2
<1>4. x # d
    BY <1>3, AboveSelf
<1>5. x # Entry
    BY <1>3, <1>4, EntryUndominated
<1>6. d \in StrictDominators(cfg, x)
    BY <1>3, <1>4 DEF StrictDominators
<1>7. Dominates(cfg, d, tree[x])
    BY <1>3, <1>5, <1>6 DEF KeepsDominators
<1>8. tree[x] \in TreeBlocks(tree) /\ rank[tree[x]] < rank[x]
    BY <1>1, <1>3, <1>5, ParentOf
<1>9. rank[x] \in Nat /\ rank[tree[x]] \in Nat
    BY <1>1, <1>3, <1>8 DEF TreeBlocks
<1>10. tree[x] \notin C
    BY <1>2, <1>8, <1>9
<1>11. d \in Above(tree, tree[x])
    BY <1>7, <1>8, <1>10
<1>12. d \in Above(tree, x)
    BY <1>1, <1>3, <1>5, <1>11, AboveParent
<1>13. QED
    BY <1>3, <1>12

\* And a dominator of a block dominates the blocks on the way up to it.
LEMMA DominatesOnTheWay ==
    ASSUME NEW cfg \in Cfg, NEW tree, NEW rank, KeepsDominators(cfg, tree, rank),
           NEW b \in TreeBlocks(tree), NEW d \in Reachable(cfg), Dominates(cfg, d, b),
           NEW z \in Above(tree, b), d \in Above(tree, z)
    PROVE  Dominates(cfg, d, z)
<1> DEFINE C == {x \in TreeBlocks(tree) : Dominates(cfg, d, x) /\ z \in Above(tree, x)}
<1>1. IsTree(tree, rank) /\ rank \in [Block -> Nat] /\ C \subseteq Block /\ C # {}
    BY DEF KeepsDominators, IsTree, TreeBlocks
<1>2. PICK x \in C : \A y \in C : rank[x] <= rank[y]
    <2> HIDE DEF C
    <2>1. QED BY <1>1, LowestRanked
<1>3. x \in TreeBlocks(tree) /\ Dominates(cfg, d, x) /\ z \in Above(tree, x)
    BY <1>2
<1>4. CASE z = x
    BY <1>3, <1>4
<1>5. CASE x = Entry
    BY <1>1, <1>3, <1>5, AboveEntry
<1>6. CASE z # x /\ x # Entry /\ x = d
    <2>1. z \in TreeBlocks(tree) /\ rank[z] < rank[x]
        BY <1>1, <1>3, <1>6, AboveRank, AboveAtDepth
    <2>2. rank[d] <= rank[z]
        BY <1>1, <2>1, AboveRank
    <2>3. rank[z] \in Nat /\ rank[x] \in Nat
        BY <1>1, <1>3, <2>1 DEF TreeBlocks
    <2>4. QED
        BY <1>6, <2>1, <2>2, <2>3
<1>7. CASE z # x /\ x # Entry /\ x # d
    <2>1. d \in StrictDominators(cfg, x)
        BY <1>3, <1>7 DEF StrictDominators
    <2>2. Dominates(cfg, d, tree[x])
        BY <1>3, <1>7, <2>1 DEF KeepsDominators
    <2>3. tree[x] \in TreeBlocks(tree) /\ rank[tree[x]] < rank[x]
        BY <1>1, <1>3, <1>7, ParentOf
    <2>4. z \in Above(tree, tree[x])
        BY <1>1, <1>3, <1>7, AboveParent
    <2>5. tree[x] \in C
        BY <2>2, <2>3, <2>4
    <2>6. rank[x] \in Nat /\ rank[tree[x]] \in Nat
        BY <1>1, <1>3, <2>3 DEF TreeBlocks
    <2>7. QED
        BY <1>2, <2>3, <2>5, <2>6
<1>8. QED
    BY <1>4, <1>5, <1>6, <1>7

\* Taking the intersection of the predecessors keeps the dominators, if one of
\* the predecessors has an estimate and comes before the block.
LEMMA IntersectionKeeps ==
    ASSUME NEW cfg \in Cfg, NEW tree, NEW rank, KeepsDominators(cfg, tree, rank), MovesSuffice,
           NEW b \in Reachable(cfg), b # Entry,
           NEW q \in TreeBlocks(tree), q \in Predecessors(cfg, b), rank[q] < rank[b]
    PROVE  LET r == IntersectDominators(tree, Predecessors(cfg, b))
           IN  KeepsDominators(cfg, [tree EXCEPT ![b] = r], rank) /\ r \in TreeBlocks(tree)
<1> DEFINE P == Predecessors(cfg, b)
           r == IntersectDominators(tree, P)
           T == [tree EXCEPT ![b] = r]
<1>1. /\ IsTree(tree, rank) /\ rank \in [Block -> Nat]
      /\ tree \in [Block -> Block \cup {None}] /\ TreeBlocks(tree) \subseteq Block
    BY DEF KeepsDominators, IsTree, TreeBlocks
<1>2. P \in SUBSET Block /\ q \in P /\ b \in Block
    BY ReachableFacts DEF Predecessors
<1> HIDE DEF P
<1>3. IntersectionOf(tree, P, r)
    BY <1>1, <1>2, IntersectDominatorsCorrect
<1> HIDE DEF r
<1>4. /\ r \in TreeBlocks(tree) /\ r \in Above(tree, q)
      /\ \A d : (\A p \in P \cap TreeBlocks(tree) : d \in Above(tree, p)) => d \in Above(tree, r)
    BY <1>2, <1>3 DEF IntersectionOf
<1>5. rank[r] < rank[b]
    <2>1. rank[r] <= rank[q]
        BY <1>1, <1>4, AboveRank
    <2>2. rank[r] \in Nat /\ rank[q] \in Nat /\ rank[b] \in Nat
        BY <1>1, <1>2, <1>4
    <2>3. QED
        BY <2>1, <2>2
<1>6. r \in Block /\ r # None
    BY <1>1, <1>4, BlockAssumption DEF TreeBlocks
<1>7. /\ T \in [Block -> Block \cup {None}] /\ T[b] = r
      /\ \A x \in Block : x # b => T[x] = tree[x]
    BY <1>1, <1>2, <1>6
<1> HIDE DEF T
<1>8. TreeBlocks(T) = TreeBlocks(tree) \cup {b}
    BY <1>2, <1>6, <1>7 DEF TreeBlocks
<1>9. IsTree(T, rank)
    <2>1. T[Entry] = Entry
        BY <1>1, <1>7, BlockAssumption DEF IsTree
    <2>2. ASSUME NEW x \in TreeBlocks(T) \ {Entry}
          PROVE  T[x] \in TreeBlocks(T) /\ rank[T[x]] < rank[x]
        <3>1. CASE x = b
            BY <1>4, <1>5, <1>7, <1>8, <3>1
        <3>2. CASE x # b
            <4>1. x \in TreeBlocks(tree) \ {Entry} /\ T[x] = tree[x]
                BY <1>1, <1>7, <1>8, <2>2, <3>2
            <4>2. tree[x] \in TreeBlocks(tree) /\ rank[tree[x]] < rank[x]
                BY <1>1, <4>1, ParentOf
            <4>3. QED
                BY <1>8, <4>1, <4>2
        <3>3. QED BY <3>1, <3>2
    <2>3. QED
        BY <1>1, <1>7, <2>1, <2>2 DEF IsTree
<1>10. TreeBlocks(T) \subseteq Reachable(cfg)
    BY <1>8 DEF KeepsDominators
<1>11. ASSUME NEW d \in StrictDominators(cfg, b) PROVE Dominates(cfg, d, r)
    <2>1. d \in Reachable(cfg) /\ d # b /\ Dominates(cfg, d, b)
        BY DEF StrictDominators
    <2>2. \A p \in P : Dominates(cfg, d, p)
        BY <1>2, <2>1, DominatesPredecessor DEF P
    <2>3. \A p \in P \cap TreeBlocks(tree) : d \in Above(tree, p)
        BY <2>1, <2>2, DominatorsAbove
    <2>4. d \in Above(tree, r)
        BY <1>4, <2>3
    <2>5. QED
        BY <1>2, <1>4, <2>1, <2>2, <2>4, DominatesOnTheWay
<1>12. ASSUME NEW x \in TreeBlocks(T) \ {Entry}, NEW d \in StrictDominators(cfg, x)
       PROVE  Dominates(cfg, d, T[x])
    <2>1. CASE x = b
        BY <1>7, <1>11, <1>12, <2>1
    <2>2. CASE x # b
        <3>1. x \in TreeBlocks(tree) \ {Entry} /\ T[x] = tree[x]
            BY <1>1, <1>7, <1>8, <1>12, <2>2
        <3>2. QED
            BY <1>12, <3>1 DEF KeepsDominators
    <2>3. QED BY <2>1, <2>2
<1>13. QED
    BY <1>4, <1>9, <1>10, <1>12 DEF KeepsDominators, T, r, P

(***************************************************************************)
(* Estimates that have settled                                             *)
(***************************************************************************)

\* Every reachable block but the entry has the intersection of its
\* predecessors for its estimate.
Settled(cfg, tree) ==
    /\ TreeBlocks(tree) = Reachable(cfg)
    /\ \A b \in Reachable(cfg) \ {Entry} :
           tree[b] = IntersectDominators(tree, Predecessors(cfg, b))

\* In a settled estimate the parent is above every reachable predecessor.
LEMMA SettledParent ==
    ASSUME NEW cfg \in Cfg, NEW tree, NEW rank, KeepsDominators(cfg, tree, rank), MovesSuffice,
           Settled(cfg, tree), NEW b \in Reachable(cfg) \ {Entry}
    PROVE  /\ \A p \in Predecessors(cfg, b) \cap Reachable(cfg) : tree[b] \in Above(tree, p)
           /\ \A d : (\A p \in Predecessors(cfg, b) \cap Reachable(cfg) : d \in Above(tree, p))
                        => d \in Above(tree, tree[b])
<1> DEFINE P == Predecessors(cfg, b)
<1>1. P \in SUBSET Block /\ IsTree(tree, rank)
    BY DEF Predecessors, KeepsDominators
<1>2. tree[b] = IntersectDominators(tree, P) /\ TreeBlocks(tree) = Reachable(cfg)
    BY DEF Settled
<1> HIDE DEF P
<1>3. IntersectionOf(tree, P, tree[b])
    BY <1>1, <1>2, IntersectDominatorsCorrect
<1>4. tree[b] # None
    BY <1>2 DEF TreeBlocks
<1>5. P \cap TreeBlocks(tree) # {}
    BY <1>3, <1>4 DEF IntersectionOf
<1>6. QED
    BY <1>2, <1>3, <1>5 DEF IntersectionOf, P

\* In a settled estimate only dominators are above a block.
LEMMA AboveDominates ==
    ASSUME NEW cfg \in Cfg, NEW tree, NEW rank, KeepsDominators(cfg, tree, rank), MovesSuffice,
           Settled(cfg, tree), NEW b \in Reachable(cfg), NEW a \in Above(tree, b)
    PROVE  a \in Reachable(cfg) /\ Dominates(cfg, a, b)
<1>1. IsTree(tree, rank) /\ TreeBlocks(tree) = Reachable(cfg)
    BY DEF KeepsDominators, Settled
<1>2. a \in Reachable(cfg)
    BY <1>1, AboveAtDepth
<1> DEFINE S == {x \in Reachable(cfg) : a \notin Above(tree, x)}
<1>3. {Entry} \ {a} \subseteq S
    BY <1>1, AboveEntry, ReachableFacts
<1>4. ASSUME NEW x \in S, NEW y \in ToSet(cfg[x]) \ {a} PROVE y \in S
    <2>1. x \in Reachable(cfg) /\ y \in Reachable(cfg) /\ a \notin Above(tree, x)
        BY <1>4, ReachableFacts
    <2> SUFFICES ASSUME a \in Above(tree, y) PROVE FALSE
        BY <2>1
    <2>2. y # Entry
        BY <1>1, <1>4, AboveEntry
    <2>3. a \in Above(tree, tree[y])
        BY <1>1, <1>4, <2>1, <2>2, AboveParent
    <2>4. x \in Predecessors(cfg, y) \cap Reachable(cfg)
        BY <1>4, <2>1, ReachableFacts DEF Predecessors
    <2>5. tree[y] \in Above(tree, x)
        BY <2>1, <2>2, <2>4, SettledParent
    <2>6. QED
        BY <2>1, <2>3, <2>5, AboveTransitive
<1>5. ReachableAvoiding(cfg, {a}) \subseteq S
    <2>1. \A x \in S : ToSet(cfg[x]) \ {a} \subseteq S
        BY <1>4
    <2> HIDE DEF S
    <2>2. QED
        BY <1>3, <2>1, ReachableLeast
<1>6. b \notin ReachableAvoiding(cfg, {a})
    BY <1>5
<1>7. QED
    BY <1>2, <1>6 DEF Dominates

\* So the blocks above b are the dominators of b, and the strict ones are above
\* its parent.
LEMMA SettledIsDominance ==
    ASSUME NEW cfg \in Cfg, NEW tree, NEW rank, KeepsDominators(cfg, tree, rank), MovesSuffice,
           Settled(cfg, tree), NEW b \in Reachable(cfg)
    PROVE  /\ Above(tree, b) = {d \in Reachable(cfg) : Dominates(cfg, d, b)}
           /\ StrictDominators(cfg, b) = Above(tree, b) \ {b}
           /\ b # Entry => StrictDominators(cfg, b) = Above(tree, tree[b])
<1>1. IsTree(tree, rank) /\ TreeBlocks(tree) = Reachable(cfg)
    BY DEF KeepsDominators, Settled
<1>2. Above(tree, b) = {d \in Reachable(cfg) : Dominates(cfg, d, b)}
    <2>1. \A d \in Above(tree, b) : d \in Reachable(cfg) /\ Dominates(cfg, d, b)
        BY AboveDominates
    <2>2. \A d \in Reachable(cfg) : Dominates(cfg, d, b) => d \in Above(tree, b)
        BY <1>1, DominatorsAbove
    <2>3. QED
        BY <2>1, <2>2
<1>3. StrictDominators(cfg, b) = Above(tree, b) \ {b}
    BY <1>2 DEF StrictDominators
<1>4. ASSUME b # Entry PROVE StrictDominators(cfg, b) = Above(tree, tree[b])
    <2>1. Above(tree, b) = {b} \cup Above(tree, tree[b])
        BY <1>1, <1>4, AboveParent
    <2>2. tree[b] \in TreeBlocks(tree) /\ rank[tree[b]] < rank[b]
        BY <1>1, <1>4, ParentOf
    <2>3. b \notin Above(tree, tree[b])
        <3> SUFFICES ASSUME b \in Above(tree, tree[b]) PROVE FALSE
            OBVIOUS
        <3>1. rank[b] <= rank[tree[b]]
            BY <1>1, <2>2, AboveRank
        <3>2. rank[b] \in Nat /\ rank[tree[b]] \in Nat
            BY <1>1, <2>2 DEF IsTree, TreeBlocks
        <3>3. QED
            BY <2>2, <3>1, <3>2
    <2>4. QED
        BY <1>3, <2>1, <2>3
<1>5. QED
    BY <1>2, <1>3, <1>4

\* What is above a block is found within as many steps as there are blocks.
LEMMA ProperAncestors ==
    ASSUME NEW tree, NEW rank, IsTree(tree, rank), NEW b \in TreeBlocks(tree), NEW a \in Block
    PROVE  (a # b /\ \E k \in 1..Cardinality(Block) : Ancestor(tree, b, k) = a)
               <=> a \in Above(tree, b) \ {b}
<1>0. Cardinality(Block) \in Nat
    BY BlockAssumption, FS_CardinalityType
<1>1. ASSUME NEW k \in 1..Cardinality(Block), Ancestor(tree, b, k) = a PROVE a \in Above(tree, b)
    BY <1>0, <1>1, BlockAssumption DEF Above
<1>2. ASSUME a \in Above(tree, b), a # b
      PROVE  \E k \in 1..Cardinality(Block) : Ancestor(tree, b, k) = a
    <2>1. PICK k \in Nat : a = Ancestor(tree, b, k) /\ a # None
        BY <1>2 DEF Above
    <2>2. k # 0
        BY <1>2, <2>1, AncestorZero
    <2>3. k < Depth(tree, b) /\ Depth(tree, b) \in 1..Cardinality(Block)
        BY <2>1, DepthCounts
    <2>4. k \in 1..Cardinality(Block)
        BY <1>0, <2>2, <2>3
    <2>5. QED
        BY <2>1, <2>4
<1>3. QED
    BY <1>1, <1>2

(***************************************************************************)
(* Frontiers                                                               *)
(***************************************************************************)

\* The walk from p stops below `top`: what is above p and not above top.
LEMMA WalkStopsBelow ==
    ASSUME NEW tree, NEW rank, IsTree(tree, rank), NEW p \in TreeBlocks(tree),
           NEW top \in Above(tree, p)
    PROVE  FrontierWalk(tree, top, p) = Above(tree, p) \ Above(tree, top)
<1>0. Cardinality(Block) \in Nat
    BY BlockAssumption, FS_CardinalityType
<1>1. ASSUME NEW d \in FrontierWalk(tree, top, p)
      PROVE  d \in Above(tree, p) \ Above(tree, top)
    <2>1. PICK k \in 0..Cardinality(Block) :
              /\ d = Ancestor(tree, p, k)
              /\ \A j \in 0..k : Ancestor(tree, p, j) \notin {None, top}
        BY DEF FrontierWalk
    <2>2. d \in Above(tree, p)
        BY <1>0, <2>1 DEF Above
    <2> SUFFICES ASSUME d \in Above(tree, top) PROVE FALSE
        BY <2>2
    <2>3. PICK m \in Nat : top = Ancestor(tree, p, m) /\ top # None
        BY DEF Above
    <2>4. ~(m \in 0..k)
        BY <2>1, <2>3
    <2>5. m - k \in Nat /\ k \in Nat /\ k + (m - k) = m /\ m - k # 0
        BY <1>0, <2>4
    <2>6. top = Ancestor(tree, d, m - k)
        <3>1. Ancestor(tree, p, k) # None
            BY <1>0, <2>1
        <3>2. Ancestor(tree, p, k + (m - k)) = Ancestor(tree, Ancestor(tree, p, k), m - k)
            BY <2>5, <3>1, AncestorAdd
        <3>3. QED
            BY <2>1, <2>3, <2>5, <3>2
    <2>7. top \in Above(tree, d) /\ d \in TreeBlocks(tree) /\ top \in TreeBlocks(tree)
        BY <2>2, <2>3, <2>5, <2>6, AboveAtDepth DEF Above
    <2>8. top = d
        <3>1. rank[d] <= rank[top] /\ (top # d => rank[top] < rank[d])
            BY <2>7, AboveRank
        <3>2. rank[d] \in Nat /\ rank[top] \in Nat
            BY <2>7 DEF IsTree, TreeBlocks
        <3>3. QED
            BY <3>1, <3>2
    <2>9. k \in 0..k
        BY <2>5
    <2>10. QED
        BY <2>1, <2>8, <2>9
<1>2. ASSUME NEW d \in Above(tree, p) \ Above(tree, top)
      PROVE  d \in FrontierWalk(tree, top, p)
    <2>1. PICK k \in Nat : d = Ancestor(tree, p, k) /\ d # None
        BY <1>2 DEF Above
    <2>2. k < Depth(tree, p) /\ Depth(tree, p) \in 1..Cardinality(Block)
        BY <2>1, DepthCounts
    <2>3. k \in 0..Cardinality(Block)
        BY <1>0, <2>2
    <2>4. ASSUME NEW j \in 0..k PROVE Ancestor(tree, p, j) \notin {None, top}
        <3>1. j \in Nat /\ j < Depth(tree, p)
            BY <1>0, <2>2
        <3>2. Ancestor(tree, p, j) # None
            BY <3>1, DepthCounts
        <3>3. ASSUME Ancestor(tree, p, j) = top PROVE FALSE
            <4>1. k - j \in Nat /\ j + (k - j) = k
                BY <3>1
            <4>2. Ancestor(tree, p, j + (k - j)) = Ancestor(tree, Ancestor(tree, p, j), k - j)
                BY <3>1, <3>2, <4>1, AncestorAdd
            <4>3. d = Ancestor(tree, top, k - j)
                BY <2>1, <3>3, <4>1, <4>2
            <4>4. d \in Above(tree, top)
                BY <2>1, <4>1, <4>3 DEF Above
            <4>5. QED
                BY <1>2, <4>4
        <3>4. QED
            BY <3>2, <3>3
    <2>5. QED
        BY <2>1, <2>3, <2>4 DEF FrontierWalk
<1>3. QED
    BY <1>1, <1>2

\* Outside the tree a walk visits the block it starts from and nothing else.
LEMMA WalkOutside ==
    ASSUME NEW tree, NEW top, NEW p \in Block, tree[p] = None
    PROVE  FrontierWalk(tree, top, p) \subseteq {p}
<1>0. Cardinality(Block) \in Nat
    BY BlockAssumption, FS_CardinalityType
<1>1. Ancestor(tree, p, 0) = p
    BY AncestorZero
<1>2. Ancestor(tree, p, 0 + 1) = None
    <2>1. Parent(tree, p) = None
        BY BlockAssumption DEF Parent
    <2>2. QED
        BY <1>1, <2>1, AncestorSucc, BlockAssumption
<1>3. SUFFICES ASSUME NEW k \in 0..Cardinality(Block),
                      \A j \in 0..k : Ancestor(tree, p, j) \notin {None, top}
               PROVE  Ancestor(tree, p, k) = p
    BY <1>3 DEF FrontierWalk
<1>4. k = 0
    <2> SUFFICES ASSUME k # 0 PROVE FALSE
        OBVIOUS
    <2>1. 0 + 1 \in 0..k
        BY <1>0
    <2>2. QED
        BY <1>2, <1>3, <2>1
<1>5. QED
    BY <1>1, <1>4

\* For a settled estimate the walks visit the blocks that dominate a predecessor
\* of n and do not strictly dominate n.
LEMMA WalkedIsFrontier ==
    ASSUME NEW cfg \in Cfg, NEW tree, NEW rank, KeepsDominators(cfg, tree, rank), MovesSuffice,
           Settled(cfg, tree), NEW n \in Reachable(cfg) \ {Entry}, NEW d \in Reachable(cfg)
    PROVE  d \in Walked(cfg, tree, n) <=> InFrontier(cfg, d, n)
<1>1. /\ IsTree(tree, rank) /\ TreeBlocks(tree) = Reachable(cfg)
      /\ Predecessors(cfg, n) \subseteq Block
    BY DEF KeepsDominators, Settled, Predecessors
<1>2. StrictDominators(cfg, n) = Above(tree, tree[n])
    BY SettledIsDominance
<1>3. ASSUME NEW p \in Predecessors(cfg, n) \cap Reachable(cfg)
      PROVE  /\ FrontierWalk(tree, tree[n], p) = Above(tree, p) \ StrictDominators(cfg, n)
             /\ d \in Above(tree, p) <=> Dominates(cfg, d, p)
    <2>1. tree[n] \in Above(tree, p)
        BY SettledParent
    <2>2. FrontierWalk(tree, tree[n], p) = Above(tree, p) \ Above(tree, tree[n])
        BY <1>1, <2>1, WalkStopsBelow
    <2>3. Above(tree, p) = {x \in Reachable(cfg) : Dominates(cfg, x, p)}
        BY SettledIsDominance
    <2>4. QED
        BY <1>2, <2>2, <2>3
<1>4. ASSUME NEW p \in Predecessors(cfg, n), p \notin Reachable(cfg)
      PROVE  d \notin FrontierWalk(tree, tree[n], p)
    <2>1. tree[p] = None /\ p \in Block
        BY <1>1, <1>4 DEF TreeBlocks
    <2>2. FrontierWalk(tree, tree[n], p) \subseteq {p}
        BY <2>1, WalkOutside
    <2>3. QED
        BY <1>4, <2>2
<1>5. ASSUME d \in Walked(cfg, tree, n) PROVE InFrontier(cfg, d, n)
    <2>1. PICK p \in Predecessors(cfg, n) : d \in FrontierWalk(tree, tree[n], p)
        BY <1>5 DEF Walked
    <2>2. p \in Reachable(cfg)
        BY <1>4, <2>1
    <2>3. d \in Above(tree, p) \ StrictDominators(cfg, n) /\ Dominates(cfg, d, p)
        BY <1>3, <2>1, <2>2
    <2>4. QED
        BY <2>2, <2>3 DEF InFrontier
<1>6. ASSUME InFrontier(cfg, d, n) PROVE d \in Walked(cfg, tree, n)
    <2>1. PICK p \in Predecessors(cfg, n) \cap Reachable(cfg) : Dominates(cfg, d, p)
        BY <1>6 DEF InFrontier
    <2>2. d \notin StrictDominators(cfg, n)
        BY <1>6 DEF InFrontier
    <2>3. d \in FrontierWalk(tree, tree[n], p)
        BY <1>3, <2>1, <2>2
    <2>4. QED
        BY <2>1, <2>3 DEF Walked
<1>7. QED
    BY <1>5, <1>6

\* Two predecessors make a join point.
LEMMA TwoPredecessorsJoin ==
    ASSUME NEW cfg \in Cfg, NEW n \in Block,
           NEW p \in Predecessors(cfg, n), NEW q \in Predecessors(cfg, n), p # q
    PROVE  n \in JoinPoints(cfg)
<1> DEFINE From(x) == {<<x, i>> : i \in {i \in DOMAIN cfg[x] : cfg[x][i] = n}}
           E == EdgesInto(cfg, n)
<1>1. E = UNION {From(x) : x \in Block}
    BY DEF EdgesInto
<1>2. ASSUME NEW x \in Block PROVE IsFiniteSet(From(x))
    <2>1. cfg[x] \in Seq(Block)
        BY DEF Cfg
    <2>2. DOMAIN cfg[x] = 1..Len(cfg[x]) /\ Len(cfg[x]) \in Nat
        BY <2>1
    <2>3. IsFiniteSet(1..Len(cfg[x]))
        BY <2>2, FS_Interval
    <2> DEFINE I == {i \in DOMAIN cfg[x] : cfg[x][i] = n}
    <2>4. IsFiniteSet(I)
        BY <2>2, <2>3, FS_Subset
    <2> HIDE DEF I
    <2>5. IsFiniteSet({<<x, i>> : i \in I})
        <3> DEFINE f == [i \in I |-> <<x, i>>]
        <3>1. f \in Surjection(I, {<<x, i>> : i \in I})
            BY DEF Surjection
        <3>2. QED
            BY <2>4, <3>1, FS_Surjection
    <2>6. QED
        BY <2>5 DEF I
<1> HIDE DEF From
<1>3. IsFiniteSet(E)
    <2> DEFINE F == {From(x) : x \in Block}
               g == [x \in Block |-> From(x)]
    <2>1. g \in Surjection(Block, F)
        BY DEF Surjection
    <2>2. IsFiniteSet(F)
        BY <2>1, BlockAssumption, FS_Surjection
    <2>3. \A s \in F : IsFiniteSet(s)
        BY <1>2
    <2> HIDE DEF F
    <2>4. IsFiniteSet(UNION F)
        BY <2>2, <2>3, FS_UNION
    <2>5. QED
        BY <1>1, <2>4 DEF F
<1>4. PICK i : i \in DOMAIN cfg[p] /\ cfg[p][i] = n
    BY DEF Predecessors, ToSet
<1>5. PICK j : j \in DOMAIN cfg[q] /\ cfg[q][j] = n
    BY DEF Predecessors, ToSet
<1>6. p \in Block /\ q \in Block
    BY DEF Predecessors
<1>7. <<p, i>> \in E /\ <<q, j>> \in E /\ <<p, i>> # <<q, j>>
    BY <1>1, <1>4, <1>5, <1>6 DEF From
<1> HIDE DEF E
<1>8. {<<p, i>>, <<q, j>>} \subseteq E /\ Cardinality({<<p, i>>, <<q, j>>}) = 2
    <2>1. Cardinality({<<p, i>>}) = 1 /\ IsFiniteSet({<<p, i>>})
        BY FS_Singleton
    <2>2. <<q, j>> \notin {<<p, i>>}
        BY <1>7
    <2>3. Cardinality({<<p, i>>} \cup {<<q, j>>}) = 1 + 1
        BY <2>1, <2>2, FS_AddElement
    <2>4. {<<p, i>>} \cup {<<q, j>>} = {<<p, i>>, <<q, j>>}
        OBVIOUS
    <2>5. QED
        BY <1>7, <2>3, <2>4
<1>9. Cardinality(E) >= 2 /\ Cardinality(E) \in Nat
    BY <1>3, <1>8, FS_Subset, FS_CardinalityType
<1>10. QED
    BY <1>9 DEF JoinPoints, E

\* A block that is no join point is in no frontier.
LEMMA NoJoinNoFrontier ==
    ASSUME NEW cfg \in Cfg, NEW tree, NEW rank, KeepsDominators(cfg, tree, rank), MovesSuffice,
           Settled(cfg, tree), NEW n \in Reachable(cfg) \ {Entry}, NEW d \in Reachable(cfg),
           n \notin JoinPoints(cfg)
    PROVE  ~InFrontier(cfg, d, n)
<1> SUFFICES ASSUME NEW p \in Predecessors(cfg, n) \cap Reachable(cfg), Dominates(cfg, d, p),
                    d \notin StrictDominators(cfg, n)
             PROVE  FALSE
    BY DEF InFrontier
<1>1. n \in Block
    BY ReachableFacts
<1>2. \A q \in Predecessors(cfg, n) \cap Reachable(cfg) : q = p
    BY <1>1, TwoPredecessorsJoin
<1>3. Above(tree, p) = {x \in Reachable(cfg) : Dominates(cfg, x, p)}
    BY SettledIsDominance
<1>4. d \in Above(tree, p)
    BY <1>3
<1>5. \A q \in Predecessors(cfg, n) \cap Reachable(cfg) : d \in Above(tree, q)
    BY <1>2, <1>4
<1>6. d \in Above(tree, tree[n])
    BY <1>5, SettledParent
<1>7. StrictDominators(cfg, n) = Above(tree, tree[n])
    BY SettledIsDominance
<1>8. QED
    BY <1>6, <1>7

(***************************************************************************)
(* The depth-first search                                                  *)
(***************************************************************************)

\* The blocks whose frames are on the stack.
Open(stk) == {stk[i][1] : i \in 1..Len(stk)}

\* The stack is a path from the entry, of frames that entered the successors
\* they have counted.
StackIsPath(cfg, stk, seen) ==
    /\ stk \in Seq(Block \X Nat)
    /\ \A i, j \in 1..Len(stk) : stk[i][1] = stk[j][1] => i = j
    /\ stk # <<>> => stk[1][1] = Entry
    /\ \A i \in 1..(Len(stk) - 1) : stk[i + 1][1] \in ToSet(cfg[stk[i][1]])
    /\ \A i \in 1..Len(stk) : \A j \in 1..Len(cfg[stk[i][1]]) :
           j <= stk[i][2] => cfg[stk[i][1]][j] \in seen

\* The finished blocks have entered all their successors, and each but the
\* entry has a predecessor that finishes later.
FinishedInOrder(cfg, stk, seen, ord) ==
    /\ ord \in Seq(Block)
    /\ \A i, j \in 1..Len(ord) : ord[i] = ord[j] => i = j
    /\ stk = <<>> => ord # <<>> /\ ord[Len(ord)] = Entry
    /\ \A b \in ToSet(ord) : ToSet(cfg[b]) \subseteq seen
    /\ \A i \in 1..Len(ord) : ord[i] # Entry =>
           \/ \E p \in Open(stk) : ord[i] \in ToSet(cfg[p])
           \/ \E j \in (i + 1)..Len(ord) : ord[i] \in ToSet(cfg[ord[j]])

SearchInv(cfg, stk, seen, ord) ==
    /\ StackIsPath(cfg, stk, seen)
    /\ FinishedInOrder(cfg, stk, seen, ord)
    /\ seen = Open(stk) \cup ToSet(ord) /\ Open(stk) \cap ToSet(ord) = {}
    /\ seen \subseteq Reachable(cfg)

\* Counting a successor changes the count of the top frame and nothing else.
LEMMA CountedFrame ==
    ASSUME NEW stk \in Seq(Block \X Nat), stk # <<>>
    PROVE  LET new == [stk EXCEPT ![Len(stk)][2] = @ + 1]
           IN  /\ new \in Seq(Block \X Nat) /\ Len(new) = Len(stk) /\ new # <<>>
               /\ \A i \in 1..Len(stk) : new[i][1] = stk[i][1]
               /\ \A i \in 1..(Len(stk) - 1) : new[i] = stk[i]
               /\ new[Len(stk)][2] = stk[Len(stk)][2] + 1
<1> DEFINE L == Len(stk)
           top == [stk[L] EXCEPT ![2] = @ + 1]
           new == [stk EXCEPT ![L] = top]
<1>1. L \in Nat /\ L # 0 /\ L \in 1..L /\ DOMAIN stk = 1..L
    OBVIOUS
<1>2. stk[L] \in Block \X Nat
    BY <1>1
<1>3. top = <<stk[L][1], stk[L][2] + 1>>
    <2>1. ASSUME NEW e \in Block \X Nat
          PROVE  [e EXCEPT ![2] = @ + 1] = <<e[1], e[2] + 1>>
        OBVIOUS
    <2>2. QED
        BY <1>2, <2>1
<1>4. top \in Block \X Nat /\ top[1] = stk[L][1] /\ top[2] = stk[L][2] + 1
    BY <1>2, <1>3
<1>5. [stk EXCEPT ![Len(stk)][2] = @ + 1] = new
    OBVIOUS
<1> HIDE DEF top, L
<1>6. new \in Seq(Block \X Nat) /\ Len(new) = L
    BY <1>1, <1>4, ExceptSeq DEF L
<1>7. \A i \in 1..L : new[i] = IF i = L THEN top ELSE stk[i]
    BY <1>1
<1>8. \A i \in 1..(L - 1) : i \in 1..L /\ i # L
    BY <1>1
<1> HIDE DEF new
<1>9. new # <<>>
    BY <1>1, <1>6
<1>10. QED
    BY <1>1, <1>4, <1>5, <1>6, <1>7, <1>8, <1>9 DEF L

LEMMA OpenOfAppend ==
    ASSUME NEW stk \in Seq(Block \X Nat), NEW f \in Block \X Nat
    PROVE  Open(Append(stk, f)) = Open(stk) \cup {f[1]}
<1> DEFINE new == Append(stk, f)
           L == Len(stk)
<1>1. L \in Nat /\ Len(new) = L + 1 /\ new[L + 1] = f /\ \A i \in 1..L : new[i] = stk[i]
    BY AppendProperties
<1> HIDE DEF new
<1>2. \A i \in 1..(L + 1) : i \in 1..L \/ i = L + 1
    BY <1>1
<1>3. L + 1 \in 1..(L + 1) /\ \A i \in 1..L : i \in 1..(L + 1)
    BY <1>1
<1> HIDE DEF L
<1>4. ASSUME NEW x \in Open(new) PROVE x \in Open(stk) \cup {f[1]}
    <2>1. PICK i \in 1..(L + 1) : x = new[i][1]
        BY <1>1 DEF Open
    <2>2. CASE i \in 1..L
        BY <1>1, <2>1, <2>2 DEF Open, L
    <2>3. CASE i = L + 1
        BY <1>1, <2>1, <2>3
    <2>4. QED
        BY <1>2, <2>1, <2>2, <2>3
<1>5. ASSUME NEW x \in Open(stk) \cup {f[1]} PROVE x \in Open(new)
    <2>1. CASE x \in Open(stk)
        <3>1. PICK i \in 1..L : x = stk[i][1]
            BY <2>1 DEF Open, L
        <3>2. QED
            BY <1>1, <1>3, <3>1 DEF Open
    <2>2. CASE x = f[1]
        BY <1>1, <1>3, <2>2 DEF Open
    <2>3. QED
        BY <1>5, <2>1, <2>2
<1>6. QED
    BY <1>4, <1>5 DEF new

\* Entering a successor, or passing one that was entered before.
LEMMA VisitKeepsSearch ==
    ASSUME NEW cfg \in Cfg, NEW stk, NEW seen, NEW ord, SearchInv(cfg, stk, seen, ord),
           stk # <<>>, Last(stk)[2] < Len(cfg[Last(stk)[1]])
    PROVE  LET succ == cfg[Last(stk)[1]][Last(stk)[2] + 1]
               advanced == [stk EXCEPT ![Len(stk)][2] = @ + 1]
           IN  SearchInv(cfg, IF succ \in seen THEN advanced ELSE Append(advanced, <<succ, 0>>),
                         seen \cup {succ}, ord)
<1> DEFINE L == Len(stk)
           top == stk[L][1]
           count == stk[L][2]
           succ == cfg[top][count + 1]
           adv == [stk EXCEPT ![Len(stk)][2] = @ + 1]
<1>1. stk \in Seq(Block \X Nat) /\ ord \in Seq(Block)
    BY DEF SearchInv, StackIsPath, FinishedInOrder
<1>2. L \in Nat /\ L # 0 /\ L \in 1..L
    BY <1>1
<1>3. top \in Block /\ count \in Nat
    <2>1. stk[L] \in Block \X Nat
        BY <1>1, <1>2
    <2>2. QED
        BY <2>1
<1>4. Last(stk)[1] = top /\ Last(stk)[2] = count
    BY DEF Last
<1>5. adv \in Seq(Block \X Nat) /\ Len(adv) = L /\ adv # <<>>
      /\ (\A i \in 1..L : adv[i][1] = stk[i][1])
      /\ (\A i \in 1..(L - 1) : adv[i] = stk[i])
      /\ adv[L][2] = count + 1
    BY <1>1, CountedFrame
<1>6. cfg[top] \in Seq(Block) /\ count + 1 \in 1..Len(cfg[top])
    BY <1>3, <1>4 DEF Cfg
<1>7. succ \in Block /\ succ \in ToSet(cfg[top])
    BY <1>6 DEF ToSet
<1> HIDE DEF L, top, count, succ, adv
<1>8. Open(adv) = Open(stk) /\ top \in Open(stk)
    <2>1. Open(stk) = {stk[i][1] : i \in 1..L} /\ Open(adv) = {adv[i][1] : i \in 1..L}
        BY <1>5 DEF Open, L
    <2>2. \A i \in 1..L : adv[i][1] = stk[i][1]
        BY <1>5
    <2>3. {stk[i][1] : i \in 1..L} = {adv[i][1] : i \in 1..L}
        BY <2>2
    <2>4. top = stk[L][1]
        BY DEF top
    <2>5. QED
        BY <1>2, <2>1, <2>3, <2>4
<1>9. succ \in Reachable(cfg)
    BY <1>7, <1>8, ReachableFacts DEF SearchInv
<1> DEFINE new == seen \cup {succ}
<1>10. StackIsPath(cfg, adv, new)
    <2>0. \A i, j \in 1..L : stk[i][1] = stk[j][1] => i = j
        BY DEF SearchInv, StackIsPath, L
    <2>1. ASSUME NEW i \in 1..L, NEW j \in 1..L, adv[i][1] = adv[j][1] PROVE i = j
        <3>1. stk[i][1] = stk[j][1]
            BY <1>5, <2>1
        <3>2. QED
            BY <2>0, <3>1
    <2>2. adv[1][1] = Entry
        BY <1>2, <1>5 DEF SearchInv, StackIsPath, L
    <2>3. ASSUME NEW i \in 1..(Len(adv) - 1) PROVE adv[i + 1][1] \in ToSet(cfg[adv[i][1]])
        <3>1. i \in 1..(L - 1) /\ i \in 1..L /\ i + 1 \in 1..L
            BY <1>2, <1>5
        <3>2. QED
            BY <1>5, <3>1 DEF SearchInv, StackIsPath, L
    <2>4. ASSUME NEW i \in 1..Len(adv), NEW j \in 1..Len(cfg[adv[i][1]]), j <= adv[i][2]
          PROVE  cfg[adv[i][1]][j] \in new
        <3>1. i \in 1..L /\ adv[i][1] = stk[i][1]
            BY <1>5
        <3>2. CASE i # L
            <4>1. i \in 1..(L - 1)
                BY <1>2, <3>1, <3>2
            <4>2. j <= stk[i][2]
                BY <1>5, <2>4, <4>1
            <4>3. QED
                BY <3>1, <4>2 DEF SearchInv, StackIsPath, L
        <3>3. CASE i = L /\ j # count + 1
            <4>0. stk[i][1] = top /\ stk[i][2] = count
                BY <3>3 DEF top, count
            <4>1. j \in Nat /\ j <= count
                BY <1>3, <1>5, <1>6, <2>4, <3>1, <3>3, <4>0
            <4>2. QED
                BY <3>1, <4>0, <4>1 DEF SearchInv, StackIsPath, L
        <3>4. CASE i = L /\ j = count + 1
            BY <3>1, <3>4 DEF succ, top
        <3>5. QED
            BY <3>2, <3>3, <3>4
    <2>5. QED
        BY <1>5, <2>1, <2>2, <2>3, <2>4 DEF StackIsPath
<1>11. FinishedInOrder(cfg, adv, new, ord)
    BY <1>5, <1>8 DEF SearchInv, FinishedInOrder
<1>12. CASE succ \in seen
    <2>1. new = seen
        BY <1>12
    <2>2. SearchInv(cfg, adv, new, ord)
        BY <1>8, <1>10, <1>11, <2>1 DEF SearchInv
    <2>3. QED
        BY <1>4, <1>12, <2>2 DEF succ, adv
<1>13. CASE succ \notin seen
    <2> DEFINE pushed == Append(adv, <<succ, 0>>)
    <2>1. <<succ, 0>> \in Block \X Nat
        BY <1>7
    <2>2. /\ pushed \in Seq(Block \X Nat) /\ Len(pushed) = L + 1 /\ pushed # <<>>
          /\ \A i \in 1..L : pushed[i] = adv[i]
          /\ pushed[L + 1] = <<succ, 0>>
        BY <1>5, <2>1, AppendProperties
    <2>3. Open(pushed) = Open(stk) \cup {succ}
        BY <1>5, <1>8, <2>1, OpenOfAppend
    <2> HIDE DEF pushed
    <2>4. succ \notin Open(adv)
        BY <1>8, <1>13 DEF SearchInv
    <2>5. StackIsPath(cfg, pushed, new)
        <3>0. \A i \in 1..(L + 1) : i \in 1..L \/ i = L + 1
            BY <1>2
        <3>1. pushed[L + 1][1] = succ /\ pushed[L + 1][2] = 0
            BY <2>2
        <3>2. \A i \in 1..L : adv[i][1] # succ
            BY <1>5, <2>4 DEF Open
        <3>3. ASSUME NEW i \in 1..(L + 1), NEW j \in 1..(L + 1), pushed[i][1] = pushed[j][1]
              PROVE  i = j
            <4>1. \A k, l \in 1..L : adv[k][1] = adv[l][1] => k = l
                BY <1>5, <1>10 DEF StackIsPath
            <4>2. CASE i \in 1..L /\ j \in 1..L
                <5>1. adv[i][1] = adv[j][1]
                    BY <2>2, <3>3, <4>2
                <5>2. QED
                    BY <4>1, <4>2, <5>1
            <4>3. CASE i \in 1..L /\ j = L + 1
                <5>1. adv[i][1] = succ
                    BY <2>2, <3>1, <3>3, <4>3
                <5>2. QED
                    BY <3>2, <4>3, <5>1
            <4>4. CASE i = L + 1 /\ j \in 1..L
                <5>1. adv[j][1] = succ
                    BY <2>2, <3>1, <3>3, <4>4
                <5>2. QED
                    BY <3>2, <4>4, <5>1
            <4>5. QED
                BY <3>0, <4>2, <4>3, <4>4
        <3>4. pushed[1][1] = Entry
            BY <1>2, <1>5, <1>10, <2>2 DEF StackIsPath
        <3>5. ASSUME NEW i \in 1..(Len(pushed) - 1)
              PROVE  pushed[i + 1][1] \in ToSet(cfg[pushed[i][1]])
            <4>1. i \in 1..L /\ pushed[i] = adv[i]
                BY <1>2, <2>2
            <4>2. CASE i = L
                BY <1>5, <1>7, <2>2, <3>1, <4>1, <4>2 DEF top
            <4>3. CASE i # L
                <5>1. i \in 1..(Len(adv) - 1) /\ i + 1 \in 1..L
                    BY <1>2, <1>5, <4>1, <4>3
                <5>2. QED
                    BY <1>10, <2>2, <4>1, <5>1 DEF StackIsPath
            <4>4. QED BY <4>2, <4>3
        <3>6. ASSUME NEW i \in 1..Len(pushed), NEW j \in 1..Len(cfg[pushed[i][1]]),
                     j <= pushed[i][2]
              PROVE  cfg[pushed[i][1]][j] \in new
            <4>1. CASE i \in 1..L
                BY <1>5, <1>10, <2>2, <3>6, <4>1 DEF StackIsPath
            <4>2. CASE i = L + 1
                <5>1. cfg[succ] \in Seq(Block) /\ pushed[i][1] = succ
                    BY <1>7, <3>1, <4>2 DEF Cfg
                <5>2. j \in Nat /\ j >= 1
                    BY <5>1
                <5>3. QED
                    BY <3>1, <3>6, <4>2, <5>2
            <4>3. QED BY <2>2, <3>0, <4>1, <4>2
        <3>7. QED
            BY <2>2, <3>3, <3>4, <3>5, <3>6 DEF StackIsPath
    <2>6. FinishedInOrder(cfg, pushed, new, ord)
        BY <1>8, <1>11, <2>2, <2>3 DEF FinishedInOrder
    <2>7. new = Open(pushed) \cup ToSet(ord) /\ Open(pushed) \cap ToSet(ord) = {}
        BY <1>13, <2>3 DEF SearchInv
    <2>8. new \subseteq Reachable(cfg)
        BY <1>9 DEF SearchInv
    <2>9. SearchInv(cfg, pushed, new, ord)
        BY <2>5, <2>6, <2>7, <2>8 DEF SearchInv
    <2>10. QED
        BY <1>4, <1>13, <2>9 DEF succ, adv, pushed
<1>14. QED
    BY <1>12, <1>13

LEMMA ToSetOfAppend ==
    ASSUME NEW ord \in Seq(Block), NEW b \in Block
    PROVE  ToSet(Append(ord, b)) = ToSet(ord) \cup {b}
<1> DEFINE new == Append(ord, b)
           L == Len(ord)
<1>1. /\ L \in Nat /\ Len(new) = L + 1 /\ new[L + 1] = b /\ new \in Seq(Block)
      /\ \A i \in 1..L : new[i] = ord[i]
    BY AppendProperties
<1> HIDE DEF new
<1>2. DOMAIN new = 1..(L + 1) /\ DOMAIN ord = 1..L
    BY <1>1
<1>3. \A i : i \in 1..(L + 1) <=> i \in 1..L \/ i = L + 1
    BY <1>1
<1> HIDE DEF L
<1>4. \A x : x \in ToSet(new) <=> \E i \in 1..(L + 1) : new[i] = x
    BY <1>2 DEF ToSet
<1>5. \A x : x \in ToSet(ord) <=> \E i \in 1..L : ord[i] = x
    BY <1>2 DEF ToSet
<1>6. QED
    BY <1>1, <1>3, <1>4, <1>5 DEF new

\* Leaving a frame.
LEMMA PopKeepsSearch ==
    ASSUME NEW cfg \in Cfg, NEW stk, NEW seen, NEW ord, SearchInv(cfg, stk, seen, ord),
           stk # <<>>, Last(stk)[2] >= Len(cfg[Last(stk)[1]])
    PROVE  SearchInv(cfg, Front(stk), seen, Append(ord, Last(stk)[1]))
<1> DEFINE L == Len(stk)
           top == stk[L][1]
           count == stk[L][2]
           rest == Front(stk)
           N == Len(ord)
           new == Append(ord, top)
<1>1. stk \in Seq(Block \X Nat) /\ ord \in Seq(Block)
    BY DEF SearchInv, StackIsPath, FinishedInOrder
<1>2. L \in Nat /\ L # 0 /\ L \in 1..L /\ N \in Nat
    BY <1>1
<1>3. top \in Block /\ count \in Nat
    <2>1. stk[L] \in Block \X Nat
        BY <1>1, <1>2
    <2>2. QED
        BY <2>1
<1>4. Last(stk)[1] = top /\ Last(stk)[2] = count
    BY DEF Last
<1>5. /\ rest \in Seq(Block \X Nat) /\ Len(rest) = L - 1
      /\ \A i \in 1..(L - 1) : rest[i] = stk[i]
    <2>1. \A i \in 1..(L - 1) : stk[i] \in Block \X Nat
        BY <1>1, <1>2
    <2>2. 1 \in Int /\ L - 1 \in Int
        BY <1>2
    <2>3. /\ SubSeq(stk, 1, L - 1) \in Seq(Block \X Nat)
          /\ Len(SubSeq(stk, 1, L - 1)) = IF 1 <= L - 1 THEN (L - 1) - 1 + 1 ELSE 0
          /\ \A i \in 1..((L - 1) - 1 + 1) : SubSeq(stk, 1, L - 1)[i] = stk[1 + i - 1]
        BY <2>1, <2>2, SubSeqProperties
    <2>4. /\ (L - 1) - 1 + 1 = L - 1 /\ (~(1 <= L - 1) => L - 1 = 0)
          /\ \A i \in 1..(L - 1) : 1 + i - 1 = i
        <3> HIDE DEF L
        <3>1. QED BY <1>2
    <2>5. QED
        BY <2>3, <2>4 DEF Front
<1>6. /\ new \in Seq(Block) /\ Len(new) = N + 1 /\ new[N + 1] = top /\ new # <<>>
      /\ \A i \in 1..N : new[i] = ord[i]
    BY <1>1, <1>3, AppendProperties
<1>7. ToSet(new) = ToSet(ord) \cup {top}
    BY <1>1, <1>3, ToSetOfAppend
<1> HIDE DEF L, N, top, count, rest, new
<1>8. \A i : i \in 1..L <=> i \in 1..(L - 1) \/ i = L
    BY <1>2
<1>9. Open(stk) = Open(rest) \cup {top} /\ top \notin Open(rest)
    <2>1. \A x : x \in Open(stk) <=> \E i \in 1..L : stk[i][1] = x
        BY DEF Open, L
    <2>2. \A x : x \in Open(rest) <=> \E i \in 1..(L - 1) : stk[i][1] = x
        BY <1>5 DEF Open
    <2>3. \A i \in 1..(L - 1) : stk[i][1] # top
        <3>1. \A i \in 1..(L - 1) : i \in 1..L /\ i # L
            BY <1>2
        <3>2. QED
            BY <1>2, <3>1 DEF SearchInv, StackIsPath, L, top
    <2>4. QED
        BY <1>8, <2>1, <2>2, <2>3 DEF top
<1>10. StackIsPath(cfg, rest, seen)
    <2>1. \A i, j \in 1..Len(rest) : rest[i][1] = rest[j][1] => i = j
        BY <1>5, <1>8 DEF SearchInv, StackIsPath, L
    <2>2. rest # <<>> => rest[1][1] = Entry
        <3> SUFFICES ASSUME rest # <<>> PROVE rest[1][1] = Entry
            OBVIOUS
        <3>1. 1 \in 1..(L - 1)
            BY <1>2, <1>5
        <3>2. QED
            BY <1>5, <3>1 DEF SearchInv, StackIsPath
    <2>3. ASSUME NEW i \in 1..(Len(rest) - 1) PROVE rest[i + 1][1] \in ToSet(cfg[rest[i][1]])
        <3>1. i \in 1..(L - 1) /\ i + 1 \in 1..(L - 1)
            BY <1>2, <1>5
        <3>2. QED
            BY <1>5, <3>1 DEF SearchInv, StackIsPath, L
    <2>4. ASSUME NEW i \in 1..Len(rest), NEW j \in 1..Len(cfg[rest[i][1]]), j <= rest[i][2]
          PROVE  cfg[rest[i][1]][j] \in seen
        <3>1. i \in 1..L /\ rest[i] = stk[i]
            BY <1>5, <1>8
        <3>2. QED
            BY <2>4, <3>1 DEF SearchInv, StackIsPath, L
    <2>5. QED
        BY <1>5, <2>1, <2>2, <2>3, <2>4 DEF StackIsPath
<1>11. ToSet(cfg[top]) \subseteq seen
    <2>1. cfg[top] \in Seq(Block)
        BY <1>3 DEF Cfg
    <2>2. \A j \in 1..Len(cfg[top]) : j <= count
        BY <1>3, <1>4, <2>1
    <2>3. \A j \in 1..Len(cfg[top]) : cfg[top][j] \in seen
        BY <1>2, <2>2 DEF SearchInv, StackIsPath, L, top, count
    <2>4. DOMAIN cfg[top] = 1..Len(cfg[top])
        BY <2>1
    <2>5. QED
        BY <2>3, <2>4 DEF ToSet
<1>12. \A i : i \in 1..(N + 1) <=> i \in 1..N \/ i = N + 1
    BY <1>2
<1>13. \A i \in 1..N : ord[i] \in ToSet(ord)
    BY <1>1 DEF ToSet, N
<1>14. top \notin ToSet(ord)
    BY <1>9 DEF SearchInv
<1>15. FinishedInOrder(cfg, rest, seen, new)
    <2>1. \A i, j \in 1..Len(new) : new[i] = new[j] => i = j
        BY <1>6, <1>12, <1>13, <1>14 DEF SearchInv, FinishedInOrder, N
    <2>2. ASSUME rest = <<>> PROVE new[Len(new)] = Entry
        <3>1. L = 1
            BY <1>2, <1>5, <2>2
        <3>2. top = Entry
            BY <3>1 DEF SearchInv, StackIsPath, top
        <3>3. QED
            BY <1>6, <3>2
    <2>3. \A b \in ToSet(new) : ToSet(cfg[b]) \subseteq seen
        BY <1>7, <1>11 DEF SearchInv, FinishedInOrder
    <2>4. ASSUME NEW i \in 1..Len(new), new[i] # Entry
          PROVE  \/ \E p \in Open(rest) : new[i] \in ToSet(cfg[p])
                 \/ \E j \in (i + 1)..Len(new) : new[i] \in ToSet(cfg[new[j]])
        <3>1. CASE i = N + 1
            <4>1. new[i] = top
                BY <1>6, <3>1
            <4>2. L # 1
                BY <2>4, <4>1 DEF SearchInv, StackIsPath, top
            <4>3. L - 1 \in 1..(L - 1) /\ (L - 1) + 1 = L
                BY <1>2, <4>2
            <4>4. top \in ToSet(cfg[stk[L - 1][1]])
                BY <4>3 DEF SearchInv, StackIsPath, L, top
            <4>5. stk[L - 1][1] \in Open(rest)
                BY <1>5, <4>3 DEF Open
            <4>6. QED
                BY <4>1, <4>4, <4>5
        <3>2. CASE i \in 1..N
            <4>1. new[i] = ord[i]
                BY <1>6, <3>2
            <4>2. \/ \E p \in Open(stk) : ord[i] \in ToSet(cfg[p])
                  \/ \E j \in (i + 1)..N : ord[i] \in ToSet(cfg[ord[j]])
                BY <2>4, <3>2, <4>1 DEF SearchInv, FinishedInOrder, N
            <4>3. ASSUME NEW p \in Open(stk), ord[i] \in ToSet(cfg[p])
                  PROVE  \/ \E q \in Open(rest) : new[i] \in ToSet(cfg[q])
                         \/ \E j \in (i + 1)..Len(new) : new[i] \in ToSet(cfg[new[j]])
                <5>1. CASE p \in Open(rest)
                    BY <4>1, <4>3, <5>1
                <5>2. CASE p = top
                    <6>1. N + 1 \in (i + 1)..(N + 1)
                        BY <1>2, <3>2
                    <6>2. QED
                        BY <1>6, <4>1, <4>3, <5>2, <6>1
                <5>3. QED
                    BY <1>9, <5>1, <5>2
            <4>4. ASSUME NEW j \in (i + 1)..N, ord[i] \in ToSet(cfg[ord[j]])
                  PROVE  \E k \in (i + 1)..Len(new) : new[i] \in ToSet(cfg[new[k]])
                <5>1. j \in (i + 1)..(N + 1) /\ j \in 1..N
                    BY <1>2, <3>2
                <5>2. QED
                    BY <1>6, <4>1, <4>4, <5>1
            <4>5. QED
                BY <4>2, <4>3, <4>4
        <3>3. QED
            BY <1>6, <1>12, <3>1, <3>2
    <2>5. QED
        BY <1>6, <2>1, <2>2, <2>3, <2>4 DEF FinishedInOrder
<1>16. seen = Open(rest) \cup ToSet(new) /\ Open(rest) \cap ToSet(new) = {}
    BY <1>7, <1>9 DEF SearchInv
<1>17. SearchInv(cfg, rest, seen, new)
    BY <1>10, <1>15, <1>16 DEF SearchInv
<1>18. QED
    BY <1>4, <1>17 DEF rest, new

\* What the search hands over: the reachable blocks, once each, the entry first
\* and every other block after one of its predecessors.
SearchOrder(cfg, ord) ==
    /\ ord \in Seq(Block)
    /\ \A i, j \in 1..Len(ord) : ord[i] = ord[j] => i = j
    /\ Len(ord) >= 1 /\ ord[1] = Entry
    /\ ToSet(ord) = Reachable(cfg)
    /\ \A i \in 2..Len(ord) : \E j \in 1..(i - 1) : ord[i] \in ToSet(cfg[ord[j]])

LEMMA SearchEnds ==
    ASSUME NEW cfg \in Cfg, NEW seen, NEW ord, SearchInv(cfg, <<>>, seen, ord)
    PROVE  SearchOrder(cfg, Reverse(ord))
<1> DEFINE N == Len(ord)
           rev == Reverse(ord)
<1>1. /\ ord \in Seq(Block) /\ ord # <<>> /\ ord[N] = Entry
      /\ \A i, j \in 1..N : ord[i] = ord[j] => i = j
      /\ \A b \in ToSet(ord) : ToSet(cfg[b]) \subseteq seen
    BY DEF SearchInv, FinishedInOrder
<1>2. N \in Nat /\ N >= 1 /\ DOMAIN ord = 1..N
    BY <1>1
<1>3. \A i \in 1..N : (N - i) + 1 \in 1..N /\ (N - ((N - i) + 1)) + 1 = i
    BY <1>2
<1>4. rev = [i \in 1..N |-> ord[(N - i) + 1]]
    BY DEF Reverse
<1>5. \A i \in 1..N : ord[(N - i) + 1] \in Block
    BY <1>1, <1>2, <1>3
<1> HIDE DEF rev
<1>6. /\ rev \in Seq(Block) /\ Len(rev) = N /\ DOMAIN rev = 1..N
      /\ \A i \in 1..N : rev[i] = ord[(N - i) + 1]
    BY <1>2, <1>4, <1>5
<1>7. Open(<<>>) = {}
    <2>1. \A i \in 1..Len(<<>>) : FALSE
        OBVIOUS
    <2>2. QED
        BY <2>1 DEF Open
<1>8. seen = ToSet(ord) /\ seen \subseteq Reachable(cfg)
    BY <1>7 DEF SearchInv
<1>9. ToSet(rev) = ToSet(ord)
    <2>1. \A x : x \in ToSet(rev) <=> \E i \in 1..N : rev[i] = x
        BY <1>6 DEF ToSet
    <2>2. \A x : x \in ToSet(ord) <=> \E i \in 1..N : ord[i] = x
        BY <1>2 DEF ToSet
    <2>3. ASSUME NEW i \in 1..N PROVE rev[i] \in ToSet(ord) /\ ord[i] \in ToSet(rev)
        <3>1. rev[i] = ord[(N - i) + 1] /\ rev[(N - i) + 1] = ord[i] /\ (N - i) + 1 \in 1..N
            BY <1>3, <1>6
        <3>2. QED
            BY <2>1, <2>2, <3>1
    <2>4. QED
        BY <2>1, <2>2, <2>3
<1>10. ToSet(ord) = Reachable(cfg)
    <2>1. Entry \in seen
        BY <1>1, <1>2, <1>8 DEF ToSet
    <2>2. {Entry} \ {} \subseteq seen /\ \A b \in seen : ToSet(cfg[b]) \ {} \subseteq seen
        BY <1>1, <1>8, <2>1
    <2>3. ReachableAvoiding(cfg, {}) \subseteq seen
        BY <2>2, ReachableLeast
    <2>4. QED
        BY <1>8, <2>3 DEF Reachable
<1>11. \A i, j \in 1..N : rev[i] = rev[j] => i = j
    <2> SUFFICES ASSUME NEW i \in 1..N, NEW j \in 1..N, rev[i] = rev[j] PROVE i = j
        OBVIOUS
    <2>1. (N - i) + 1 = (N - j) + 1
        BY <1>1, <1>3, <1>6
    <2>2. QED
        BY <1>2, <2>1
<1>12. rev[1] = Entry
    <2>1. 1 \in 1..N /\ (N - 1) + 1 = N
        BY <1>2
    <2>2. QED
        BY <1>1, <1>6, <2>1
<1>13. ASSUME NEW i \in 2..N PROVE \E j \in 1..(i - 1) : rev[i] \in ToSet(cfg[rev[j]])
    <2>1. i \in 1..N /\ (N - i) + 1 \in 1..N /\ (N - i) + 1 # N
        BY <1>2
    <2>2. rev[i] = ord[(N - i) + 1]
        BY <1>6, <2>1
    <2>3. rev[i] # Entry
        <3>1. N \in 1..N
            BY <1>2
        <3>2. QED
            BY <1>1, <2>1, <2>2, <3>1
    <2>4. PICK k \in (((N - i) + 1) + 1)..N : rev[i] \in ToSet(cfg[ord[k]])
        <3>1. \/ \E p \in Open(<<>>) : ord[(N - i) + 1] \in ToSet(cfg[p])
              \/ \E j \in (((N - i) + 1) + 1)..N : ord[(N - i) + 1] \in ToSet(cfg[ord[j]])
            BY <2>1, <2>2, <2>3 DEF SearchInv, FinishedInOrder
        <3>2. QED
            BY <1>7, <2>2, <3>1
    <2>5. k \in 1..N /\ (N - k) + 1 \in 1..(i - 1)
        BY <1>2, <2>1
    <2>6. rev[(N - k) + 1] = ord[k]
        BY <1>3, <1>6, <2>5
    <2>7. QED
        BY <2>4, <2>5, <2>6
<1>14. SearchOrder(cfg, rev)
    BY <1>2, <1>6, <1>9, <1>10, <1>11, <1>12, <1>13 DEF SearchOrder
<1>15. QED
    BY <1>14 DEF rev

(***************************************************************************)
(* The passes of the fixpoint                                              *)
(***************************************************************************)

\* The position of a block in the order, 0 outside it.
Rank(ord) ==
    [b \in Block |-> IF \E i \in 1..Len(ord) : ord[i] = b
                     THEN CHOOSE i \in 1..Len(ord) : ord[i] = b ELSE 0]

LEMMA RankIsPosition ==
    ASSUME NEW cfg, NEW ord, SearchOrder(cfg, ord)
    PROVE  /\ Rank(ord) \in [Block -> Nat]
           /\ \A i \in 1..Len(ord) : ord[i] \in Block /\ Rank(ord)[ord[i]] = i
<1>1. ord \in Seq(Block) /\ Len(ord) \in Nat
    BY DEF SearchOrder
<1>2. ASSUME NEW b \in Block PROVE Rank(ord)[b] \in Nat
    <2>1. CASE \E i \in 1..Len(ord) : ord[i] = b
        <3>1. Rank(ord)[b] = CHOOSE i \in 1..Len(ord) : ord[i] = b
            BY <2>1 DEF Rank
        <3>2. Rank(ord)[b] \in 1..Len(ord)
            BY <2>1, <3>1
        <3>3. QED
            BY <1>1, <3>2
    <2>2. CASE ~\E i \in 1..Len(ord) : ord[i] = b
        BY <2>2 DEF Rank
    <2>3. QED BY <2>1, <2>2
<1>3. Rank(ord) \in [Block -> Nat]
    <2>1. Rank(ord) = [b \in Block |-> Rank(ord)[b]]
        BY DEF Rank
    <2>2. QED
        BY <1>2, <2>1
<1>4. ASSUME NEW i \in 1..Len(ord) PROVE ord[i] \in Block /\ Rank(ord)[ord[i]] = i
    <2>1. ord[i] \in Block
        BY <1>1
    <2>2. Rank(ord)[ord[i]] = CHOOSE j \in 1..Len(ord) : ord[j] = ord[i]
        BY <2>1 DEF Rank
    <2>3. /\ Rank(ord)[ord[i]] \in 1..Len(ord)
          /\ ord[Rank(ord)[ord[i]]] = ord[i]
        BY <2>2
    <2>4. QED
        BY <2>1, <2>3 DEF SearchOrder
<1>5. QED
    BY <1>3, <1>4

\* During a pass: the blocks before the next one, and all of them from the
\* second pass on, have estimates; while nothing changed in this pass, the
\* blocks before the next one have settled.
PassInv(cfg, ord, tree, nxt, chg, count) ==
    /\ SearchOrder(cfg, ord)
    /\ KeepsDominators(cfg, tree, Rank(ord))
    /\ nxt \in 1..(Len(ord) + 1) /\ chg \in BOOLEAN /\ count \in Nat \ {0}
    /\ \A i \in 1..Len(ord) : i < nxt \/ count > 1 => tree[ord[i]] # None
    /\ ~chg => \A i \in 2..Len(ord) :
                   i < nxt => tree[ord[i]] = IntersectDominators(tree, Predecessors(cfg, ord[i]))

\* The entry alone is an estimate.
EntryAlone == [b \in Block |-> IF b = Entry THEN Entry ELSE None]

LEMMA EntryAloneKeeps ==
    ASSUME NEW cfg \in Cfg, NEW rank \in [Block -> Nat]
    PROVE  KeepsDominators(cfg, EntryAlone, rank)
<1>1. TreeBlocks(EntryAlone) = {Entry}
    BY BlockAssumption DEF TreeBlocks, EntryAlone
<1>2. EntryAlone \in [Block -> Block \cup {None}] /\ EntryAlone[Entry] = Entry
    BY BlockAssumption DEF EntryAlone
<1>3. IsTree(EntryAlone, rank)
    BY <1>1, <1>2 DEF IsTree
<1>4. QED
    BY <1>1, <1>3, ReachableFacts DEF KeepsDominators

LEMMA FirstPassStarts ==
    ASSUME NEW cfg \in Cfg, NEW ord, SearchOrder(cfg, ord)
    PROVE  PassInv(cfg, ord, EntryAlone, 1, FALSE, 1)
<1>1. Rank(ord) \in [Block -> Nat]
    BY RankIsPosition
<1>2. KeepsDominators(cfg, EntryAlone, Rank(ord))
    BY <1>1, EntryAloneKeeps
<1>3. Len(ord) \in Nat
    BY DEF SearchOrder
<1>4. 1 \in 1..(Len(ord) + 1) /\ (\A i \in 1..Len(ord) : ~(i < 1)) /\ \A i \in 2..Len(ord) : ~(i < 1)
    BY <1>3
<1>5. QED
    BY <1>2, <1>4 DEF PassInv

LEMMA ProcessKeepsPass ==
    ASSUME NEW cfg \in Cfg, NEW ord, NEW tree, NEW nxt, NEW chg, NEW count,
           PassInv(cfg, ord, tree, nxt, chg, count), MovesSuffice, nxt <= Len(ord)
    PROVE  LET b == ord[nxt]
               new_idom == IF b = Entry THEN Entry
                           ELSE IntersectDominators(tree, Predecessors(cfg, b))
           IN  PassInv(cfg, ord, [tree EXCEPT ![b] = new_idom], nxt + 1,
                       chg \/ new_idom # tree[b], count)
<1> DEFINE b == ord[nxt]
           r == IF b = Entry THEN Entry ELSE IntersectDominators(tree, Predecessors(cfg, b))
           T == [tree EXCEPT ![b] = r]
           N == Len(ord)
<1>1. /\ SearchOrder(cfg, ord) /\ KeepsDominators(cfg, tree, Rank(ord)) /\ N \in Nat
      /\ nxt \in 1..(N + 1) /\ chg \in BOOLEAN /\ count \in Nat \ {0}
    BY DEF PassInv, SearchOrder
<1>2. nxt \in 1..N /\ nxt + 1 \in 1..(N + 1) /\ nxt \in Nat
    BY <1>1
<1>3. /\ b \in Block /\ Rank(ord)[b] = nxt
      /\ \A i \in 1..N : ord[i] \in Block /\ Rank(ord)[ord[i]] = i
    BY <1>1, <1>2, RankIsPosition
<1>4. tree \in [Block -> Block \cup {None}] /\ tree[Entry] = Entry
    BY <1>1 DEF KeepsDominators, IsTree
<1>5. \A i \in 1..N : i < nxt + 1 => i < nxt \/ i = nxt
    BY <1>1
<1> HIDE DEF N
<1>6. KeepsDominators(cfg, T, Rank(ord)) /\ r # None
    <2>1. CASE b = Entry
        <3>1. r = Entry /\ T = tree
            BY <1>4, <2>1
        <3>2. QED
            BY <1>1, <3>1, BlockAssumption
    <2>2. CASE b # Entry
        <3>1. nxt \in 2..N
            BY <1>1, <1>2, <2>2 DEF SearchOrder
        <3>2. PICK j \in 1..(nxt - 1) : b \in ToSet(cfg[ord[j]])
            BY <1>1, <3>1 DEF SearchOrder, N
        <3>3. j \in 1..N /\ j < nxt
            BY <1>1, <3>1
        <3>4. ord[j] \in Block /\ Rank(ord)[ord[j]] = j
            BY <1>3, <3>3
        <3>5. ord[j] \in TreeBlocks(tree)
            BY <3>3, <3>4 DEF PassInv, TreeBlocks, N
        <3>6. ord[j] \in Predecessors(cfg, b) /\ Rank(ord)[ord[j]] < Rank(ord)[b]
            BY <1>3, <3>2, <3>3, <3>4 DEF Predecessors
        <3>7. b \in Reachable(cfg)
            BY <1>1, <1>2 DEF SearchOrder, ToSet, N
        <3>8. r = IntersectDominators(tree, Predecessors(cfg, b))
            BY <2>2
        <3> HIDE DEF b, r
        <3>9. KeepsDominators(cfg, T, Rank(ord)) /\ r \in TreeBlocks(tree)
            BY <1>1, <2>2, <3>5, <3>6, <3>7, <3>8, IntersectionKeeps
        <3>10. QED
            BY <3>9, BlockAssumption DEF TreeBlocks
    <2>3. QED BY <2>1, <2>2
<1>7. \A i \in 1..N : i < nxt + 1 \/ count > 1 => T[ord[i]] # None
    <2> SUFFICES ASSUME NEW i \in 1..N, i < nxt + 1 \/ count > 1 PROVE T[ord[i]] # None
        OBVIOUS
    <2>1. CASE ord[i] = b
        BY <1>3, <1>4, <1>6, <2>1
    <2>2. CASE ord[i] # b
        <3>1. i # nxt
            BY <2>2
        <3>2. i < nxt \/ count > 1
            BY <1>5, <3>1
        <3>3. T[ord[i]] = tree[ord[i]]
            BY <1>3, <1>4, <2>2
        <3>4. QED
            BY <3>2, <3>3 DEF PassInv, N
    <2>3. QED BY <2>1, <2>2
<1>8. ASSUME ~(chg \/ r # tree[b])
      PROVE  \A i \in 2..N : i < nxt + 1 =>
                 T[ord[i]] = IntersectDominators(T, Predecessors(cfg, ord[i]))
    <2>1. ~chg /\ T = tree
        BY <1>3, <1>4, <1>8
    <2>2. \A i \in 2..N : i < nxt => tree[ord[i]] = IntersectDominators(tree, Predecessors(cfg, ord[i]))
        BY <2>1 DEF PassInv, N
    <2>3. nxt \in 2..N => tree[b] = IntersectDominators(tree, Predecessors(cfg, b))
        <3> SUFFICES ASSUME nxt \in 2..N
                     PROVE  tree[b] = IntersectDominators(tree, Predecessors(cfg, b))
            OBVIOUS
        <3>1. 1 \in 1..N /\ nxt # 1
            BY <1>1
        <3>2. b # Entry
            BY <1>1, <1>2, <3>1 DEF SearchOrder, N
        <3>3. QED
            BY <1>8, <3>2
    <2>4. \A i \in 2..N : i \in 1..N
        BY <1>1
    <2> HIDE DEF T, r
    <2>5. QED
        BY <1>5, <2>1, <2>2, <2>3, <2>4
<1>9. PassInv(cfg, ord, T, nxt + 1, chg \/ r # tree[b], count)
    BY <1>1, <1>2, <1>6, <1>7, <1>8 DEF PassInv, N
<1>10. QED
    BY <1>9

LEMMA NextPassStarts ==
    ASSUME NEW cfg, NEW ord, NEW tree, NEW nxt, NEW chg, NEW count,
           PassInv(cfg, ord, tree, nxt, chg, count), nxt > Len(ord)
    PROVE  PassInv(cfg, ord, tree, 1, FALSE, count + 1)
<1>1. Len(ord) \in Nat /\ nxt \in Nat /\ count \in Nat \ {0}
    BY DEF PassInv, SearchOrder
<1>2. /\ 1 \in 1..(Len(ord) + 1) /\ (\A i \in 2..Len(ord) : ~(i < 1))
      /\ \A i \in 1..Len(ord) : i < nxt
      /\ count + 1 \in Nat \ {0}
    BY <1>1
<1>3. QED
    BY <1>2 DEF PassInv

\* A pass that ends without a change leaves a settled estimate.
LEMMA QuietPassSettles ==
    ASSUME NEW cfg \in Cfg, NEW ord, NEW tree, NEW nxt, NEW count,
           PassInv(cfg, ord, tree, nxt, FALSE, count), nxt > Len(ord)
    PROVE  Settled(cfg, tree)
<1>1. /\ ord \in Seq(Block) /\ Len(ord) \in Nat /\ nxt \in Nat /\ ord[1] = Entry
      /\ ToSet(ord) = Reachable(cfg) /\ KeepsDominators(cfg, tree, Rank(ord))
    BY DEF PassInv, SearchOrder
<1>2. \A i \in 1..Len(ord) : i < nxt /\ ord[i] \in Block
    BY <1>1
<1>3. ASSUME NEW b \in Reachable(cfg)
      PROVE  /\ b \in TreeBlocks(tree)
             /\ b # Entry => tree[b] = IntersectDominators(tree, Predecessors(cfg, b))
    <2>1. PICK i \in 1..Len(ord) : b = ord[i]
        BY <1>1 DEF ToSet
    <2>2. b \in TreeBlocks(tree)
        BY <1>2, <2>1 DEF PassInv, TreeBlocks
    <2>3. ASSUME b # Entry PROVE tree[b] = IntersectDominators(tree, Predecessors(cfg, b))
        <3>1. i # 1
            BY <1>1, <2>1, <2>3
        <3>2. i \in 2..Len(ord)
            BY <1>1, <3>1
        <3>3. QED
            BY <1>2, <2>1, <3>2 DEF PassInv
    <2>4. QED
        BY <2>2, <2>3
<1>4. TreeBlocks(tree) \subseteq Reachable(cfg)
    BY <1>1 DEF KeepsDominators
<1>5. QED
    BY <1>3, <1>4 DEF Settled

(***************************************************************************)
(* How many passes it takes                                                *)
(***************************************************************************)

\* What is reached in up to k steps without passing A.
Reached(cfg, A, k) == (CHOOSE f : ListsReached(cfg, A, k, f))[k]

LEMMA ReachedLevels ==
    ASSUME NEW cfg, NEW A, NEW k \in Nat
    PROVE  /\ Reached(cfg, A, 0) = {Entry} \ A
           /\ Reached(cfg, A, k + 1) = Grown(cfg, Reached(cfg, A, k), A)
<1> DEFINE f(n) == CHOOSE g : ListsReached(cfg, A, n, g)
<1>1. \A n \in Nat : ListsReached(cfg, A, n, f(n)) /\ Reached(cfg, A, n) = f(n)[n]
    BY ReachedListExists DEF Reached
<1> HIDE DEF f
<1>2. Reached(cfg, A, 0) = {Entry} \ A
    BY <1>1, ReachedStart
<1>3. k + 1 \in Nat /\ k <= k + 1 /\ k \in 0..k /\ k \in 0..((k + 1) - 1)
    OBVIOUS
<1>4. f(k)[k] = f(k + 1)[k]
    BY <1>1, <1>3, ReachedListsAgree
<1>5. f(k + 1)[k + 1] = Grown(cfg, f(k + 1)[k], A)
    BY <1>1, <1>3, ReachedStep
<1>6. QED
    BY <1>1, <1>2, <1>3, <1>4, <1>5

\* More steps reach more, and never a block of A.
LEMMA ReachedGrows ==
    ASSUME NEW cfg, NEW A, NEW k \in Nat
    PROVE  /\ Reached(cfg, A, k) \cap A = {}
           /\ \A n \in 0..k : Reached(cfg, A, n) \subseteq Reached(cfg, A, k)
<1> DEFINE S == {m \in Nat : /\ Reached(cfg, A, m) \cap A = {}
                             /\ \A n \in 0..m : Reached(cfg, A, n) \subseteq Reached(cfg, A, m)}
<1>1. 0 \in S
    <2>1. Reached(cfg, A, 0) = {Entry} \ A
        BY ReachedLevels
    <2>2. \A n \in 0..0 : n = 0
        OBVIOUS
    <2>3. QED
        BY <2>1, <2>2
<1>2. ASSUME NEW m \in Nat, m \in S PROVE m + 1 \in S
    <2>1. Reached(cfg, A, m + 1) = Grown(cfg, Reached(cfg, A, m), A)
        BY ReachedLevels
    <2>2. Reached(cfg, A, m) \cap A = {}
        BY <1>2
    <2>3. Reached(cfg, A, m + 1) \cap A = {} /\ Reached(cfg, A, m) \subseteq Reached(cfg, A, m + 1)
        BY <2>1, <2>2 DEF Grown
    <2>4. ASSUME NEW n \in 0..(m + 1)
          PROVE  Reached(cfg, A, n) \subseteq Reached(cfg, A, m + 1)
        <3>1. n \in 0..m \/ n = m + 1
            OBVIOUS
        <3>2. CASE n \in 0..m
            <4>1. Reached(cfg, A, n) \subseteq Reached(cfg, A, m)
                BY <1>2, <3>2
            <4>2. QED
                BY <2>3, <4>1
        <3>3. QED
            BY <3>1, <3>2
    <2>5. QED
        BY <2>3, <2>4
<1>3. Nat \subseteq S
    <2> HIDE DEF S
    <2>1. QED BY <1>1, <1>2, SetInduction
<1>4. QED
    BY <1>3

\* A step further along an edge.
LEMMA ReachedAlong ==
    ASSUME NEW cfg, NEW A, NEW k \in Nat, NEW p \in Reached(cfg, A, k),
           NEW b \in ToSet(cfg[p]) \ A
    PROVE  b \in Reached(cfg, A, k + 1)
    BY ReachedLevels DEF Grown

\* What is reached and is not the entry was reached over an edge.
LEMMA ReachedFrom ==
    ASSUME NEW cfg, NEW A, NEW b, b # Entry
    PROVE  \A k \in Nat : b \in Reached(cfg, A, k + 1) =>
               \E p \in Reached(cfg, A, k) : b \in ToSet(cfg[p])
<1> DEFINE S == {k \in Nat : b \in Reached(cfg, A, k + 1) =>
                                 \E p \in Reached(cfg, A, k) : b \in ToSet(cfg[p])}
<1>0. ASSUME NEW k \in Nat, b \in Reached(cfg, A, k + 1)
      PROVE  b \in Reached(cfg, A, k) \/ \E p \in Reached(cfg, A, k) : b \in ToSet(cfg[p])
    <2>1. b \in Grown(cfg, Reached(cfg, A, k), A)
        BY <1>0, ReachedLevels
    <2>2. QED
        BY <2>1 DEF Grown
<1>1. 0 \in S
    <2>1. b \notin Reached(cfg, A, 0)
        BY ReachedLevels
    <2>2. QED
        BY <1>0, <2>1
<1>2. ASSUME NEW k \in Nat, k \in S PROVE k + 1 \in S
    <2> SUFFICES ASSUME b \in Reached(cfg, A, (k + 1) + 1)
                 PROVE  \E p \in Reached(cfg, A, k + 1) : b \in ToSet(cfg[p])
        OBVIOUS
    <2>1. k + 1 \in Nat
        OBVIOUS
    <2>2. CASE b \in Reached(cfg, A, k + 1)
        <3>1. PICK p \in Reached(cfg, A, k) : b \in ToSet(cfg[p])
            BY <1>2, <2>2
        <3>2. k \in 0..(k + 1)
            OBVIOUS
        <3>3. p \in Reached(cfg, A, k + 1)
            BY <2>1, <3>2, ReachedGrows
        <3>4. QED
            BY <3>1, <3>3
    <2>3. QED
        BY <1>0, <2>1, <2>2
<1>3. Nat \subseteq S
    <2> HIDE DEF S
    <2>1. QED BY <1>1, <1>2, SetInduction
<1>4. QED
    BY <1>3

\* What is reached without passing d, but not b, does not pass b either.
LEMMA ReachedPastNeither ==
    ASSUME NEW cfg, NEW d, NEW b, NEW n \in Nat, b \notin Reached(cfg, {d}, n)
    PROVE  \A k \in 0..n : Reached(cfg, {d}, k) \subseteq Reached(cfg, {b}, k)
<1> DEFINE S == {k \in 0..n : Reached(cfg, {d}, k) \subseteq Reached(cfg, {b}, k)}
<1>0. ASSUME NEW k \in 0..n PROVE b \notin Reached(cfg, {d}, k)
    BY ReachedGrows
<1>1. 0 \in S
    <2>1. 0 \in 0..n
        OBVIOUS
    <2>2. b \notin Reached(cfg, {d}, 0)
        BY <1>0, <2>1
    <2>3. Reached(cfg, {d}, 0) \subseteq Reached(cfg, {b}, 0)
        BY <2>2, ReachedLevels
    <2>4. QED
        BY <2>1, <2>3
<1>2. ASSUME NEW k \in 0..(n - 1), k \in S PROVE k + 1 \in S
    <2>1. k \in Nat /\ k + 1 \in 0..n
        OBVIOUS
    <2>2. b \notin Reached(cfg, {d}, k + 1)
        BY <1>0, <2>1
    <2>3. Reached(cfg, {d}, k) \subseteq Reached(cfg, {b}, k)
        BY <1>2
    <2>4. /\ Reached(cfg, {d}, k + 1) = Grown(cfg, Reached(cfg, {d}, k), {d})
          /\ Reached(cfg, {b}, k + 1) = Grown(cfg, Reached(cfg, {b}, k), {b})
        BY <2>1, ReachedLevels
    <2>5. Reached(cfg, {d}, k + 1) \subseteq Reached(cfg, {b}, k + 1)
        BY <2>2, <2>3, <2>4 DEF Grown
    <2>6. QED
        BY <2>1, <2>5
<1>3. 0..n \subseteq S
    <2> HIDE DEF S
    <2>1. QED BY <1>1, <1>2, BoundedInduction
<1>4. QED
    BY <1>3

\* Steps along edges reach reachable blocks.
LEMMA ReachedStaysReachable ==
    ASSUME NEW cfg \in Cfg, NEW A
    PROVE  \A k \in Nat : Reached(cfg, A, k) \subseteq Reachable(cfg)
<1> DEFINE U == Reachable(cfg)
           S == {m \in Nat : Reached(cfg, A, m) \subseteq U}
<1>1. U \subseteq Block /\ Entry \in U /\ \A b \in U : ToSet(cfg[b]) \subseteq U
    BY ReachableFacts
<1> HIDE DEF U
<1>2. 0 \in S
    BY <1>1, ReachedLevels
<1>3. ASSUME NEW m \in Nat, m \in S PROVE m + 1 \in S
    <2>1. Reached(cfg, A, m) \subseteq U
        BY <1>3
    <2>2. Grown(cfg, Reached(cfg, A, m), A) \subseteq U
        BY <1>1, <2>1 DEF Grown
    <2>3. QED
        BY <2>2, ReachedLevels
<1>4. Nat \subseteq S
    <2> HIDE DEF S
    <2>1. QED BY <1>2, <1>3, SetInduction
<1>5. QED
    BY <1>4 DEF U

\* As many steps as there are reachable blocks reach everything.
LEMMA ReachedIsReachable ==
    ASSUME NEW cfg \in Cfg, NEW A
    PROVE  /\ Cardinality(Reachable(cfg)) \in Nat
           /\ ReachableAvoiding(cfg, A) \subseteq Reached(cfg, A, Cardinality(Reachable(cfg)))
<1> DEFINE U == Reachable(cfg)
           N == Cardinality(U)
<1>1. U \subseteq Block /\ Entry \in U /\ \A b \in U : ToSet(cfg[b]) \subseteq U
    BY ReachableFacts
<1>2. IsFiniteSet(U) /\ N \in Nat
    BY <1>1, BlockAssumption, FS_Subset, FS_CardinalityType
<1> HIDE DEF U
<1>3. \A k \in Nat : Reached(cfg, A, k) \subseteq U
    BY ReachedStaysReachable DEF U
<1> DEFINE f == [k \in 0..(N + 1) |-> Reached(cfg, A, k)]
<1>4. f \in [0..(N + 1) -> SUBSET U] /\ \A k \in 0..(N + 1) : f[k] = Reached(cfg, A, k)
    BY <1>2, <1>3
<1> HIDE DEF f
<1>5. ASSUME NEW k \in 0..N PROVE f[k + 1] = Grown(cfg, f[k], A)
    <2>1. k \in Nat /\ k \in 0..(N + 1) /\ k + 1 \in 0..(N + 1)
        BY <1>2
    <2>2. QED
        BY <1>4, <2>1, ReachedLevels
<1>6. \A k \in 0..N : f[k] \subseteq f[k + 1]
    BY <1>5 DEF Grown
<1>7. ASSUME NEW k \in 0..(N - 1), f[k] = f[k + 1] PROVE f[k + 1] = f[k + 2]
    <2>1. k \in 0..N /\ k + 1 \in 0..N /\ (k + 1) + 1 = k + 2
        BY <1>2
    <2>2. f[k + 1] = Grown(cfg, f[k], A) /\ f[k + 2] = Grown(cfg, f[k + 1], A)
        BY <1>5, <2>1
    <2>3. QED
        BY <1>7, <2>2
<1>8. f[N] = f[N + 1]
    BY <1>2, <1>4, <1>6, <1>7, GrowingSetSettles
<1>9. N \in 0..N /\ N \in 0..(N + 1) /\ 0 \in 0..N
    BY <1>2
<1> DEFINE R == Reached(cfg, A, N)
<1>10. R = Grown(cfg, R, A)
    BY <1>4, <1>5, <1>8, <1>9
<1>11. {Entry} \ A \subseteq R
    BY <1>2, <1>9, ReachedGrows, ReachedLevels
<1> HIDE DEF R
<1>12. \A b \in R : ToSet(cfg[b]) \ A \subseteq R
    BY <1>10 DEF Grown
<1>13. ReachableAvoiding(cfg, A) \subseteq R
    BY <1>11, <1>12, ReachableLeast
<1>14. QED
    BY <1>2, <1>13 DEF R, U

\* What changes above the blocks when one block, b, is given another parent.
LEMMA AboveChanged ==
    ASSUME NEW tree, NEW T, NEW rank, IsTree(tree, rank), IsTree(T, rank),
           NEW b \in Block, \A x \in Block : x # b => T[x] = tree[x]
    PROVE  \A x \in TreeBlocks(T) : \A d \in Above(T, x) :
               \/ x \in TreeBlocks(tree) /\ d \in Above(tree, x)
               \/ d \in Above(T, b) /\ (x = b \/ (x \in TreeBlocks(tree) /\ b \in Above(tree, x)))
<1> DEFINE Kept(x, d) ==
               \/ x \in TreeBlocks(tree) /\ d \in Above(tree, x)
               \/ d \in Above(T, b) /\ (x = b \/ (x \in TreeBlocks(tree) /\ b \in Above(tree, x)))
           C == {x \in TreeBlocks(T) : \E d \in Above(T, x) : ~Kept(x, d)}
<1> SUFFICES ASSUME C # {} PROVE FALSE
    OBVIOUS
<1>1. rank \in [Block -> Nat] /\ C \subseteq Block
    BY DEF IsTree, TreeBlocks
<1>2. PICK x \in C : \A y \in C : rank[x] <= rank[y]
    <2> HIDE DEF C
    <2>1. QED BY <1>1, LowestRanked
<1>3. PICK d \in Above(T, x) : ~Kept(x, d)
    BY <1>2
<1>4. x \in TreeBlocks(T) /\ x \in Block /\ x # b
    BY <1>1, <1>2, <1>3
<1>5. x \in TreeBlocks(tree) /\ T[x] = tree[x]
    BY <1>4 DEF TreeBlocks
<1>6. CASE x = Entry
    <2>1. d = Entry
        BY <1>3, <1>6, AboveEntry
    <2>2. d \in Above(tree, x)
        BY <1>5, <1>6, <2>1, AboveSelf
    <2>3. QED
        BY <1>3, <1>5, <2>2
<1>7. CASE x # Entry
    <2>1. /\ Above(T, x) = {x} \cup Above(T, T[x])
          /\ Above(tree, x) = {x} \cup Above(tree, tree[x])
        BY <1>4, <1>5, <1>7, AboveParent
    <2>2. T[x] \in TreeBlocks(T) /\ rank[T[x]] < rank[x] /\ tree[x] \in TreeBlocks(tree)
        BY <1>4, <1>5, <1>7, ParentOf
    <2>3. d \in Above(T, T[x]) /\ d # x
        BY <1>3, <1>5, <2>1
    <2>4. T[x] \notin C
        <3>1. rank[x] \in Nat /\ rank[T[x]] \in Nat
            BY <1>1, <1>4, <2>2 DEF TreeBlocks
        <3>2. QED
            BY <1>2, <2>2, <3>1
    <2>5. Kept(T[x], d)
        BY <2>2, <2>3, <2>4
    <2>6. Kept(x, d)
        <3>1. CASE d \in Above(tree, T[x])
            BY <1>5, <2>1, <3>1
        <3>2. CASE d \in Above(T, b) /\ T[x] = b
            <4>1. tree[x] = b /\ b \in TreeBlocks(tree)
                BY <1>5, <2>2, <3>2
            <4>2. b \in Above(tree, x)
                BY <2>1, <4>1, AboveSelf
            <4>3. QED
                BY <1>5, <3>2, <4>2
        <3>3. CASE d \in Above(T, b) /\ b \in Above(tree, T[x])
            BY <1>5, <2>1, <3>3
        <3>4. QED
            BY <2>5, <3>1, <3>2, <3>3
    <2>7. QED
        BY <1>3, <2>6
<1>8. QED
    BY <1>6, <1>7

\* A block above b can be avoided on the way to b in no number of steps up to
\* the block's level.
Tight(cfg, tree, level) ==
    \A b \in TreeBlocks(tree) : \A d \in Above(tree, b) \ {b} :
        b \notin Reached(cfg, {d}, level[b])

\* The passes that have taken a block into account.
Levels(ord, nxt, count) ==
    [b \in Block |-> IF Rank(ord)[b] < nxt THEN count ELSE count - 1]

LEMMA EntryAloneTight ==
    ASSUME NEW cfg, NEW level
    PROVE  Tight(cfg, EntryAlone, level)
<1>1. TreeBlocks(EntryAlone) = {Entry}
    BY BlockAssumption DEF TreeBlocks, EntryAlone
<1>2. [b \in Block |-> 0] \in [Block -> Nat]
    OBVIOUS
<1>3. EntryAlone \in [Block -> Block \cup {None}] /\ EntryAlone[Entry] = Entry
    BY BlockAssumption DEF EntryAlone
<1>4. IsTree(EntryAlone, [b \in Block |-> 0])
    BY <1>1, <1>2, <1>3 DEF IsTree
<1>5. Above(EntryAlone, Entry) = {Entry}
    BY <1>4, AboveEntry
<1>6. QED
    BY <1>1, <1>5 DEF Tight

\* A pass adds a step: whatever avoids d on the way to b comes from a
\* predecessor that d is not above.
LEMMA ProcessKeepsTight ==
    ASSUME NEW cfg \in Cfg, NEW tree, NEW rank, KeepsDominators(cfg, tree, rank), MovesSuffice,
           NEW b \in Reachable(cfg), b # Entry,
           NEW m \in Nat, NEW level, NEW next_level, Tight(cfg, tree, level),
           \A x \in TreeBlocks(tree) : level[x] \in {m, m + 1},
           \A x \in TreeBlocks(tree) : x # b => next_level[x] = level[x],
           next_level[b] = m + 1,
           \A x \in Reachable(cfg) : m > 0 => x \in TreeBlocks(tree),
           NEW q \in TreeBlocks(tree), q \in Predecessors(cfg, b), rank[q] < rank[b]
    PROVE  Tight(cfg, [tree EXCEPT ![b] = IntersectDominators(tree, Predecessors(cfg, b))],
                 next_level)
<1> DEFINE P == Predecessors(cfg, b)
           r == IntersectDominators(tree, P)
           T == [tree EXCEPT ![b] = r]
<1>1. /\ IsTree(tree, rank) /\ rank \in [Block -> Nat]
      /\ tree \in [Block -> Block \cup {None}] /\ TreeBlocks(tree) \subseteq Reachable(cfg)
    BY DEF KeepsDominators, IsTree
<1>2. P \in SUBSET Block /\ q \in P /\ b \in Block
    BY ReachableFacts DEF Predecessors
<1>3. KeepsDominators(cfg, T, rank) /\ r \in TreeBlocks(tree)
    BY IntersectionKeeps
<1>4. IntersectionOf(tree, P, r)
    BY <1>1, <1>2, IntersectDominatorsCorrect
<1> HIDE DEF r
<1>5. /\ T[b] = r /\ (\A x \in Block : x # b => T[x] = tree[x])
      /\ \A p \in P \cap TreeBlocks(tree) : r \in Above(tree, p)
    BY <1>1, <1>2, <1>4 DEF IntersectionOf
<1> HIDE DEF T
<1>6. IsTree(T, rank) /\ r \in Block /\ r # None
    BY <1>1, <1>3, BlockAssumption DEF KeepsDominators, TreeBlocks
<1>7. b \in TreeBlocks(T) /\ TreeBlocks(T) \subseteq TreeBlocks(tree) \cup {b}
    BY <1>2, <1>5, <1>6 DEF TreeBlocks
<1>8. rank[r] < rank[b] /\ r \in TreeBlocks(T)
    BY <1>5, <1>6, <1>7, ParentOf
<1>9. ASSUME NEW d \in Above(T, b) \ {b}
      PROVE  b \notin Reached(cfg, {d}, m + 1)
    <2>1. d \in Above(T, r)
        BY <1>5, <1>6, <1>7, <1>9, AboveParent
    <2>2. d \in Above(tree, r)
        <3>1. ASSUME r = b \/ b \in Above(tree, r) PROVE FALSE
            <4>1. rank[b] <= rank[r]
                BY <1>1, <1>2, <1>3, <3>1, AboveRank
            <4>2. QED
                BY <1>1, <1>2, <1>6, <1>8, <4>1
        <3>2. QED
            BY <1>1, <1>2, <1>5, <1>6, <1>8, <2>1, <3>1, AboveChanged
    <2> SUFFICES ASSUME b \in Reached(cfg, {d}, m + 1) PROVE FALSE
        OBVIOUS
    <2>3. PICK p \in Reached(cfg, {d}, m) : b \in ToSet(cfg[p])
        BY ReachedFrom
    <2>4. p # d
        BY ReachedGrows
    <2>5. p \in Reachable(cfg) /\ p \in TreeBlocks(tree)
        <3>1. CASE m = 0
            <4>1. p = Entry
                BY <2>3, <3>1, ReachedLevels
            <4>2. QED
                BY <1>1, <4>1, EntryInTree
        <3>2. CASE m > 0
            <4>1. p \in Reachable(cfg)
                BY <2>3, ReachedStaysReachable
            <4>2. QED
                BY <3>2, <4>1
        <3>3. QED
            BY <3>1, <3>2
    <2>6. p \in P \cap TreeBlocks(tree)
        BY <2>3, <2>5, ReachableFacts DEF Predecessors, P
    <2>7. d \in Above(tree, p)
        BY <1>5, <2>2, <2>6, AboveTransitive
    <2>8. p \notin Reached(cfg, {d}, level[p])
        BY <2>4, <2>5, <2>7 DEF Tight
    <2>9. level[p] \in Nat /\ m \in 0..level[p]
        BY <2>5
    <2>10. p \in Reached(cfg, {d}, level[p])
        BY <2>3, <2>9, ReachedGrows
    <2>11. QED
        BY <2>8, <2>10
<1>10. ASSUME NEW x \in TreeBlocks(T), x # b, NEW d \in Above(T, x) \ {x}
       PROVE  x \notin Reached(cfg, {d}, next_level[x])
    <2>1. x \in TreeBlocks(tree) /\ next_level[x] = level[x] /\ level[x] \in 0..(m + 1)
        BY <1>7, <1>10
    <2>2. CASE d \in Above(tree, x)
        BY <2>1, <2>2 DEF Tight
    <2>3. CASE d \in Above(T, b) /\ b \in Above(tree, x) /\ d # b
        <3>1. b \notin Reached(cfg, {d}, m + 1)
            BY <1>9, <2>3
        <3>2. x \notin Reached(cfg, {b}, level[x])
            BY <1>10, <2>1, <2>3 DEF Tight
        <3>3. m + 1 \in Nat
            OBVIOUS
        <3>4. Reached(cfg, {d}, level[x]) \subseteq Reached(cfg, {b}, level[x])
            BY <2>1, <3>1, <3>3, ReachedPastNeither
        <3>5. QED
            BY <2>1, <3>2, <3>4
    <2>4. QED
        BY <1>1, <1>2, <1>5, <1>6, <1>10, <2>2, <2>3, AboveChanged
<1>11. Tight(cfg, T, next_level)
    BY <1>7, <1>9, <1>10 DEF Tight
<1>12. QED
    BY <1>11 DEF T, r, P

\* After as many steps as there are reachable blocks, a tight estimate that
\* keeps the dominators has nothing else above a block.
LEMMA TightIsExact ==
    ASSUME NEW cfg \in Cfg, NEW tree, NEW rank, KeepsDominators(cfg, tree, rank),
           TreeBlocks(tree) = Reachable(cfg), NEW level, Tight(cfg, tree, level),
           NEW b \in Reachable(cfg), level[b] \in Nat,
           Cardinality(Reachable(cfg)) <= level[b]
    PROVE  Above(tree, b) = {d \in Reachable(cfg) : Dominates(cfg, d, b)}
<1>1. IsTree(tree, rank)
    BY DEF KeepsDominators
<1>2. ASSUME NEW d \in Above(tree, b) PROVE d \in Reachable(cfg) /\ Dominates(cfg, d, b)
    <2>1. d \in Reachable(cfg)
        BY <1>1, AboveAtDepth
    <2>2. CASE d # b
        <3> DEFINE N == Cardinality(Reachable(cfg))
        <3>1. b \notin Reached(cfg, {d}, level[b])
            BY <2>2 DEF Tight
        <3>2. N \in Nat /\ ReachableAvoiding(cfg, {d}) \subseteq Reached(cfg, {d}, N)
            BY ReachedIsReachable
        <3>3. N \in 0..level[b]
            BY <3>2
        <3> HIDE DEF N
        <3>4. Reached(cfg, {d}, N) \subseteq Reached(cfg, {d}, level[b])
            BY <3>3, ReachedGrows
        <3>5. QED
            BY <2>1, <3>1, <3>2, <3>4 DEF Dominates
    <2>3. QED
        BY <2>1, <2>2 DEF Dominates
<1>3. ASSUME NEW d \in Reachable(cfg), Dominates(cfg, d, b) PROVE d \in Above(tree, b)
    BY <1>3, DominatorsAbove
<1>4. QED
    BY <1>2, <1>3

\* Two estimates of a block with the same blocks above them are the same.
LEMMA SameAboveSameParent ==
    ASSUME NEW tree, NEW T, NEW rank, IsTree(tree, rank), IsTree(T, rank),
           NEW b \in TreeBlocks(tree) \ {Entry}, b \in TreeBlocks(T), Above(tree, b) = Above(T, b)
    PROVE  tree[b] = T[b]
<1> SUFFICES ASSUME tree[b] # T[b] PROVE FALSE
    OBVIOUS
<1>1. /\ tree[b] \in TreeBlocks(tree) /\ rank[tree[b]] < rank[b]
      /\ T[b] \in TreeBlocks(T) /\ rank[T[b]] < rank[b]
    BY ParentOf
<1>2. /\ Above(tree, b) = {b} \cup Above(tree, tree[b])
      /\ Above(T, b) = {b} \cup Above(T, T[b])
    BY AboveParent
<1>3. rank[b] \in Nat /\ rank[tree[b]] \in Nat /\ rank[T[b]] \in Nat
    BY <1>1 DEF IsTree, TreeBlocks
<1>4. tree[b] # b /\ T[b] # b
    BY <1>1, <1>3
<1>5. tree[b] \in Above(T, T[b]) /\ T[b] \in Above(tree, tree[b])
    BY <1>1, <1>2, <1>4, AboveSelf
<1>6. rank[tree[b]] < rank[T[b]]
    BY <1>1, <1>5, AboveRank
<1>7. rank[T[b]] < rank[tree[b]]
    BY <1>1, <1>5, AboveRank
<1>8. QED
    BY <1>3, <1>6, <1>7

\* Each pass adds a step to the levels, and the pass after the one that makes
\* the estimate exact changes nothing.
PassesInv(cfg, ord, tree, nxt, chg, count) ==
    /\ Tight(cfg, tree, Levels(ord, nxt, count))
    /\ count <= Cardinality(Reachable(cfg)) + 1
    /\ count = Cardinality(Reachable(cfg)) + 1 => ~chg

LEMMA LevelsOf ==
    ASSUME NEW cfg, NEW ord, SearchOrder(cfg, ord), NEW nxt \in 1..(Len(ord) + 1),
           NEW count \in Nat \ {0}, NEW x \in Reachable(cfg)
    PROVE  /\ Levels(ord, nxt, count)[x] = (IF Rank(ord)[x] < nxt THEN count ELSE count - 1)
           /\ Levels(ord, nxt, count)[x] \in {count - 1, count}
           /\ Rank(ord)[x] \in 1..Len(ord)
           /\ ord[Rank(ord)[x]] = x
<1>1. PICK i \in 1..Len(ord) : x = ord[i]
    BY DEF SearchOrder, ToSet
<1>2. x \in Block /\ Rank(ord)[x] = i
    BY <1>1, RankIsPosition
<1>3. Levels(ord, nxt, count)[x] = (IF Rank(ord)[x] < nxt THEN count ELSE count - 1)
    BY <1>2 DEF Levels
<1>4. QED
    BY <1>1, <1>2, <1>3

LEMMA ProcessKeepsPasses ==
    ASSUME NEW cfg \in Cfg, NEW ord, NEW tree, NEW nxt, NEW chg, NEW count,
           PassInv(cfg, ord, tree, nxt, chg, count), MovesSuffice, nxt <= Len(ord),
           PassesInv(cfg, ord, tree, nxt, chg, count)
    PROVE  LET b == ord[nxt]
               new_idom == IF b = Entry THEN Entry
                           ELSE IntersectDominators(tree, Predecessors(cfg, b))
           IN  PassesInv(cfg, ord, [tree EXCEPT ![b] = new_idom], nxt + 1,
                         chg \/ new_idom # tree[b], count)
<1> DEFINE b == ord[nxt]
           r == IF b = Entry THEN Entry ELSE IntersectDominators(tree, Predecessors(cfg, b))
           T == [tree EXCEPT ![b] = r]
           before == Levels(ord, nxt, count)
           after == Levels(ord, nxt + 1, count)
           N == Cardinality(Reachable(cfg))
<1>1. /\ SearchOrder(cfg, ord) /\ Len(ord) \in Nat
      /\ KeepsDominators(cfg, tree, Rank(ord))
      /\ nxt \in 1..(Len(ord) + 1) /\ count \in Nat \ {0} /\ chg \in BOOLEAN
    BY DEF PassInv, SearchOrder
<1>2. nxt \in 1..Len(ord) /\ nxt + 1 \in 1..(Len(ord) + 1) /\ count - 1 \in Nat
    BY <1>1
<1>3. Rank(ord)[b] = nxt /\ b \in Block /\ b \in Reachable(cfg)
    <2>1. Rank(ord)[b] = nxt /\ b \in Block
        BY <1>1, <1>2, RankIsPosition
    <2>2. b \in ToSet(ord) /\ ToSet(ord) = Reachable(cfg)
        BY <1>1, <1>2 DEF SearchOrder, ToSet
    <2>3. QED
        BY <2>1, <2>2
<1>4. /\ IsTree(tree, Rank(ord)) /\ tree \in [Block -> Block \cup {None}] /\ tree[Entry] = Entry
      /\ TreeBlocks(tree) \subseteq Reachable(cfg)
    BY <1>1 DEF KeepsDominators, IsTree
<1>5. N \in Nat
    BY ReachedIsReachable
<1>6. /\ Tight(cfg, tree, before) /\ count <= N + 1 /\ (count = N + 1 => ~chg)
    BY DEF PassesInv
<1>7. ASSUME NEW x \in Reachable(cfg)
      PROVE  /\ before[x] \in {count - 1, count}
             /\ x # b => after[x] = before[x]
             /\ x = b => after[x] = count
    <2>1. /\ before[x] = (IF Rank(ord)[x] < nxt THEN count ELSE count - 1)
          /\ after[x] = (IF Rank(ord)[x] < nxt + 1 THEN count ELSE count - 1)
          /\ Rank(ord)[x] \in 1..Len(ord) /\ ord[Rank(ord)[x]] = x
        <3>1. /\ before[x] = (IF Rank(ord)[x] < nxt THEN count ELSE count - 1)
              /\ Rank(ord)[x] \in 1..Len(ord) /\ ord[Rank(ord)[x]] = x
            BY <1>1, LevelsOf
        <3>2. x \in Block
            BY ReachableFacts
        <3>3. after[x] = (IF Rank(ord)[x] < nxt + 1 THEN count ELSE count - 1)
            BY <3>2 DEF Levels
        <3>4. QED
            BY <3>1, <3>3
    <2>2. x # b => Rank(ord)[x] # nxt
        BY <2>1
    <2>3. Rank(ord)[x] < nxt + 1 <=> (Rank(ord)[x] < nxt \/ Rank(ord)[x] = nxt)
        BY <1>1, <2>1
    <2>4. QED
        BY <1>3, <2>1, <2>2, <2>3
<1>8. ASSUME NEW x \in Reachable(cfg), count > 1 PROVE x \in TreeBlocks(tree)
    <2>1. Rank(ord)[x] \in 1..Len(ord) /\ ord[Rank(ord)[x]] = x /\ x \in Block
        BY <1>1, LevelsOf, ReachableFacts
    <2>2. QED
        BY <1>8, <2>1 DEF PassInv, TreeBlocks
<1> HIDE DEF before, after
<1>9. CASE b = Entry
    <2>1. r = Entry /\ T = tree /\ r = tree[b]
        BY <1>4, <1>9
    <2>2. ASSUME NEW x \in TreeBlocks(tree), NEW d \in Above(tree, x) \ {x}
          PROVE  x \notin Reached(cfg, {d}, after[x])
        <3>1. x # Entry
            BY <1>4, <2>2, AboveEntry
        <3>2. after[x] = before[x]
            BY <1>4, <1>7, <1>9, <3>1
        <3>3. QED
            BY <1>6, <2>2, <3>2 DEF Tight
    <2>3. Tight(cfg, tree, after)
        BY <2>2 DEF Tight
    <2>4. QED
        BY <1>6, <2>1, <2>3 DEF PassesInv, after
<1>10. CASE b # Entry
    <2>1. r = IntersectDominators(tree, Predecessors(cfg, b))
        BY <1>10
    <2>2. nxt \in 2..Len(ord)
        BY <1>1, <1>2, <1>10 DEF SearchOrder
    <2>3. PICK j \in 1..(nxt - 1) : b \in ToSet(cfg[ord[j]])
        BY <1>1, <2>2 DEF SearchOrder
    <2>4. j \in 1..Len(ord) /\ j < nxt
        BY <1>1, <2>3
    <2> DEFINE q == ord[j]
    <2>5. q \in Block /\ Rank(ord)[q] = j
        BY <1>1, <2>4, RankIsPosition
    <2>6. q \in TreeBlocks(tree) /\ q \in Predecessors(cfg, b) /\ Rank(ord)[q] < Rank(ord)[b]
        BY <1>3, <2>3, <2>4, <2>5 DEF PassInv, TreeBlocks, Predecessors
    <2> HIDE DEF b, r, q
    <2>7. KeepsDominators(cfg, T, Rank(ord)) /\ r \in TreeBlocks(tree)
        BY <1>1, <1>3, <1>10, <2>1, <2>6, IntersectionKeeps
    <2>8. Tight(cfg, T, after)
        <3> DEFINE m == count - 1
        <3>1. m \in Nat /\ m + 1 = count /\ (m > 0 => count > 1)
            BY <1>1
        <3>2. \A x \in TreeBlocks(tree) : before[x] \in {m, m + 1}
            BY <1>4, <1>7, <3>1
        <3>3. after[b] = m + 1
            BY <1>3, <1>7, <3>1
        <3>4. \A x \in TreeBlocks(tree) : x # b => after[x] = before[x]
            BY <1>4, <1>7
        <3>5. \A x \in Reachable(cfg) : m > 0 => x \in TreeBlocks(tree)
            BY <1>8, <3>1
        <3> HIDE DEF m, T
        <3>6. T = [tree EXCEPT ![b] = IntersectDominators(tree, Predecessors(cfg, b))]
            BY <2>1 DEF T
        <3>7. QED
            BY <1>1, <1>3, <1>6, <1>10, <2>6, <3>1, <3>2, <3>3, <3>4, <3>5, <3>6,
               ProcessKeepsTight
    <2>9. T[b] = r /\ \A x \in Block : x # b => T[x] = tree[x]
        <3>1. r \in Block
            BY <2>7 DEF TreeBlocks
        <3>2. QED
            BY <1>3, <1>4
    <2> HIDE DEF T
    <2>10. ASSUME count = N + 1 PROVE r = tree[b]
        <3>1. count > 1 /\ N >= 1 /\ count - 1 = N
            <4>1. Entry \in Reachable(cfg) /\ IsFiniteSet(Reachable(cfg))
                BY ReachableFacts, BlockAssumption, FS_Subset
            <4>2. N # 0
                BY <4>1, FS_EmptySet
            <4>3. QED
                BY <1>5, <2>10, <4>2
        <3>2. TreeBlocks(tree) = Reachable(cfg)
            BY <1>4, <1>8, <3>1
        <3>3. b \in TreeBlocks(tree) /\ b \in TreeBlocks(T) /\ TreeBlocks(T) = Reachable(cfg)
            <4>1. r # None
                BY <2>7, BlockAssumption DEF TreeBlocks
            <4>2. TreeBlocks(T) = TreeBlocks(tree) \cup {b}
                BY <1>3, <2>9, <4>1 DEF TreeBlocks
            <4>3. QED
                BY <1>3, <3>2, <4>2
        <3>4. before[b] \in Nat /\ N <= before[b] /\ after[b] \in Nat /\ N <= after[b]
            BY <1>1, <1>3, <1>5, <1>7, <2>10, <3>1
        <3>5. /\ Above(tree, b) = {d \in Reachable(cfg) : Dominates(cfg, d, b)}
              /\ Above(T, b) = {d \in Reachable(cfg) : Dominates(cfg, d, b)}
            BY <1>1, <1>3, <1>6, <2>7, <2>8, <3>2, <3>3, <3>4, TightIsExact DEF N
        <3>6. IsTree(T, Rank(ord))
            BY <2>7 DEF KeepsDominators
        <3>7. tree[b] = T[b]
            <4>1. Above(tree, b) = Above(T, b)
                BY <3>5
            <4>2. b \in TreeBlocks(tree) \ {Entry}
                BY <1>10, <3>3
            <4>3. QED
                BY <1>4, <3>3, <3>6, <4>1, <4>2, SameAboveSameParent
        <3>8. QED
            BY <2>9, <3>7
    <2>11. count = N + 1 => ~(chg \/ r # tree[b])
        BY <1>6, <2>10
    <2>12. PassesInv(cfg, ord, T, nxt + 1, chg \/ r # tree[b], count)
        BY <1>6, <2>8, <2>11 DEF PassesInv, after
    <2>13. QED
        BY <2>12 DEF T, r, b
<1>11. QED
    BY <1>9, <1>10

LEMMA NextPassKeepsPasses ==
    ASSUME NEW cfg \in Cfg, NEW ord, NEW tree, NEW nxt, NEW count,
           PassInv(cfg, ord, tree, nxt, TRUE, count), nxt > Len(ord),
           PassesInv(cfg, ord, tree, nxt, TRUE, count)
    PROVE  PassesInv(cfg, ord, tree, 1, FALSE, count + 1)
<1>1. /\ SearchOrder(cfg, ord) /\ Len(ord) \in Nat /\ nxt \in 1..(Len(ord) + 1)
      /\ count \in Nat \ {0} /\ TreeBlocks(tree) \subseteq Reachable(cfg)
    BY DEF PassInv, SearchOrder, KeepsDominators
<1>2. 1 \in 1..(Len(ord) + 1) /\ count + 1 \in Nat \ {0} /\ (count + 1) - 1 = count
    BY <1>1
<1>3. ASSUME NEW x \in TreeBlocks(tree)
      PROVE  Levels(ord, 1, count + 1)[x] = Levels(ord, nxt, count)[x]
    <2>1. /\ Levels(ord, nxt, count)[x] = (IF Rank(ord)[x] < nxt THEN count ELSE count - 1)
          /\ Levels(ord, 1, count + 1)[x] = (IF Rank(ord)[x] < 1 THEN count + 1 ELSE count)
          /\ Rank(ord)[x] \in 1..Len(ord)
        BY <1>1, <1>2, LevelsOf
    <2>2. Rank(ord)[x] < nxt /\ ~(Rank(ord)[x] < 1)
        BY <1>1, <2>1
    <2>3. QED
        BY <2>1, <2>2
<1>4. Tight(cfg, tree, Levels(ord, 1, count + 1))
    BY <1>3 DEF PassesInv, Tight
<1>5. Cardinality(Reachable(cfg)) \in Nat
    BY ReachedIsReachable
<1>6. count + 1 <= Cardinality(Reachable(cfg)) + 1
    BY <1>1, <1>5 DEF PassesInv
<1>7. QED
    BY <1>4, <1>6 DEF PassesInv

(***************************************************************************)
(* The analysis                                                            *)
(***************************************************************************)

\* The inductive invariant, phase by phase.
DominanceInv ==
    /\ successors \in Cfg
    /\ pc \in {"dfs", "idom", "df", "done"}
    /\ pc = "dfs" => /\ SearchInv(successors, stack, visited, order)
                     /\ idom = EntryAlone /\ next = 1
    /\ pc # "dfs" => PassInv(successors, order, idom, next, changed, iteration_count)
    /\ pc \in {"dfs", "idom"} => frontier = [b \in Block |-> {}]
    /\ pc \in {"df", "done"} =>
           /\ next > Len(order)
           /\ changed => iteration_count >= MaxPasses
           /\ todo \subseteq JoinPoints(successors)
           /\ frontier = [d \in Block |-> {n \in JoinPoints(successors) \ todo :
                                              d \in Walked(successors, idom, n)}]
    /\ pc = "done" => todo = {}

LEMMA InitDominanceInv == Init => DominanceInv
<1> SUFFICES ASSUME Init PROVE DominanceInv
    OBVIOUS
<1>1. successors \in Cfg
    BY GraphsAssumption DEF Init, Cfg
<1>2. StackIsPath(successors, <<<<Entry, 0>>>>, {Entry})
    <2> DEFINE stk == <<<<Entry, 0>>>>
    <2>1. stk \in Seq(Block \X Nat) /\ Len(stk) = 1 /\ stk[1][1] = Entry /\ stk[1][2] = 0
        BY BlockAssumption
    <2>2. \A i \in 1..1 : i = 1
        OBVIOUS
    <2>3. \A i \in 1..(1 - 1) : FALSE
        OBVIOUS
    <2>4. \A j \in 1..Len(successors[Entry]) : ~(j <= 0)
        OBVIOUS
    <2> HIDE DEF stk
    <2>5. StackIsPath(successors, stk, {Entry})
        BY <2>1, <2>2, <2>3, <2>4 DEF StackIsPath
    <2>6. QED
        BY <2>5 DEF stk
<1>3. Open(<<<<Entry, 0>>>>) = {Entry}
    <2>1. \A i : i \in 1..Len(<<<<Entry, 0>>>>) <=> i = 1
        OBVIOUS
    <2>2. QED
        BY <2>1 DEF Open
<1>4. ToSet(<<>>) = {} /\ FinishedInOrder(successors, <<<<Entry, 0>>>>, {Entry}, <<>>)
    <2>1. \A i \in 1..Len(<<>>) : FALSE
        OBVIOUS
    <2>2. ToSet(<<>>) = {}
        BY DEF ToSet
    <2>3. <<>> \in Seq(Block) /\ <<<<Entry, 0>>>> # <<>>
        OBVIOUS
    <2>4. QED
        BY <2>1, <2>2, <2>3 DEF FinishedInOrder
<1>5. SearchInv(successors, stack, visited, order)
    BY <1>1, <1>2, <1>3, <1>4, ReachableFacts DEF Init, SearchInv
<1>6. QED
    BY <1>1, <1>5 DEF Init, DominanceInv, EntryAlone

\* A join point enters the frontiers its walks visit.
LEMMA WalkJoinKeepsInv ==
    ASSUME DominanceInv, WalkJoin
    PROVE  DominanceInv'
<1> DEFINE b == Min(todo)
           J == JoinPoints(successors)
           W(n) == Walked(successors, idom, n)
<1>1. /\ pc = "df" /\ todo # {} /\ todo \subseteq J
      /\ frontier = [d \in Block |-> {n \in J \ todo : d \in W(n)}]
    BY DEF WalkJoin, DominanceInv
<1>2. J \subseteq Nat
    BY BlockAssumption DEF JoinPoints
<1>3. b \in todo
    BY <1>1, <1>2, MinIsLeast
<1>4. /\ frontier' = [d \in Block |-> IF d \in W(b) THEN frontier[d] \cup {b} ELSE frontier[d]]
      /\ todo' = todo \ {b}
      /\ UNCHANGED <<pc, successors, stack, visited, order, idom, next, changed,
                     iteration_count>>
    BY DEF WalkJoin
<1> HIDE DEF b, W, J
<1>5. ASSUME NEW d \in Block PROVE frontier'[d] = {n \in J \ todo' : d \in W(n)}
    <2>1. frontier[d] = {n \in J \ todo : d \in W(n)}
        BY <1>1
    <2>2. frontier'[d] = IF d \in W(b) THEN frontier[d] \cup {b} ELSE frontier[d]
        BY <1>4
    <2>3. \A n : n \in J \ todo' <=> n \in J \ todo \/ n = b
        BY <1>1, <1>3, <1>4
    <2>4. CASE d \in W(b)
        BY <2>1, <2>2, <2>3, <2>4
    <2>5. CASE d \notin W(b)
        BY <2>1, <2>2, <2>3, <2>5
    <2>6. QED BY <2>4, <2>5
<1>6. frontier' = [d \in Block |-> {n \in J \ todo' : d \in W(n)}]
    <2>1. frontier' = [d \in Block |-> frontier'[d]]
        BY <1>4
    <2>2. QED
        BY <1>5, <2>1
<1>7. todo' \subseteq J
    BY <1>1, <1>4
<1>8. QED
    BY <1>1, <1>4, <1>6, <1>7 DEF DominanceInv, J, W

LEMMA NextKeepsDominanceInv ==
    ASSUME MovesSuffice, DominanceInv, [Next]_vars
    PROVE  DominanceInv'
<1>0. successors \in Cfg
    BY DEF DominanceInv
<1>1. CASE DfsVisit
    <2>1. /\ pc = "dfs" /\ stack # <<>> /\ Last(stack)[2] < Len(successors[Last(stack)[1]])
          /\ SearchInv(successors, stack, visited, order)
        BY <1>1 DEF DfsVisit, DominanceInv, Frame
    <2> DEFINE succ == successors[Last(stack)[1]][Last(stack)[2] + 1]
               advanced == [stack EXCEPT ![Len(stack)][2] = @ + 1]
               stk == IF succ \in visited THEN advanced ELSE Append(advanced, <<succ, 0>>)
    <2>2. SearchInv(successors, stk, visited \cup {succ}, order)
        BY <1>0, <2>1, VisitKeepsSearch
    <2>3. stack' = stk /\ visited' = visited \cup {succ}
        BY <1>1 DEF DfsVisit, Frame
    <2> HIDE DEF stk, succ, advanced
    <2>4. UNCHANGED <<pc, successors, order, idom, next, frontier>>
        BY <1>1 DEF DfsVisit
    <2>5. QED
        BY <2>1, <2>2, <2>3, <2>4 DEF DominanceInv
<1>2. CASE DfsPop
    <2>1. /\ pc = "dfs" /\ stack # <<>> /\ Last(stack)[2] >= Len(successors[Last(stack)[1]])
          /\ SearchInv(successors, stack, visited, order)
        BY <1>2 DEF DfsPop, DominanceInv, Frame
    <2>2. SearchInv(successors, Front(stack), visited, Append(order, Last(stack)[1]))
        BY <1>0, <2>1, PopKeepsSearch
    <2>3. stack' = Front(stack) /\ order' = Append(order, Last(stack)[1])
        BY <1>2 DEF DfsPop, Frame
    <2>4. UNCHANGED <<pc, successors, visited, idom, next, frontier>>
        BY <1>2 DEF DfsPop
    <2>5. QED
        BY <2>1, <2>2, <2>3, <2>4 DEF DominanceInv
<1>3. CASE DfsDone
    <2>1. /\ pc = "dfs" /\ idom = EntryAlone /\ next = 1
          /\ SearchInv(successors, <<>>, visited, order)
        BY <1>3 DEF DfsDone, DominanceInv
    <2>2. PassInv(successors, Reverse(order), EntryAlone, 1, FALSE, 1)
        BY <1>0, <2>1, SearchEnds, FirstPassStarts
    <2>3. order' = Reverse(order) /\ changed' = FALSE /\ iteration_count' = 1 /\ pc' = "idom"
        BY <1>3 DEF DfsDone
    <2>4. UNCHANGED <<successors, idom, next, frontier>>
        BY <1>3 DEF DfsDone
    <2>5. QED
        BY <2>1, <2>2, <2>3, <2>4 DEF DominanceInv
<1>4. CASE ProcessBlock
    <2>1. /\ pc = "idom" /\ next <= Len(order)
          /\ PassInv(successors, order, idom, next, changed, iteration_count)
        BY <1>4 DEF ProcessBlock, DominanceInv
    <2> DEFINE b == order[next]
               new_idom == IF b = Entry THEN Entry
                           ELSE IntersectDominators(idom, Predecessors(successors, b))
    <2>2. PassInv(successors, order, [idom EXCEPT ![b] = new_idom], next + 1,
                  changed \/ new_idom # idom[b], iteration_count)
        BY <1>0, <2>1, ProcessKeepsPass
    <2>3. /\ idom' = [idom EXCEPT ![b] = new_idom] /\ next' = next + 1
          /\ changed' = (changed \/ new_idom # idom[b])
        BY <1>4 DEF ProcessBlock
    <2>4. UNCHANGED <<pc, successors, order, iteration_count, frontier>>
        BY <1>4 DEF ProcessBlock
    <2> HIDE DEF b, new_idom
    <2>5. PassInv(successors, order, idom, next, changed, iteration_count)'
        BY <2>2, <2>3, <2>4, Zenon
    <2>6. QED
        BY <2>1, <2>4, <2>5 DEF DominanceInv
<1>5. CASE NextPass
    <2>1. /\ pc = "idom" /\ next > Len(order)
          /\ PassInv(successors, order, idom, next, changed, iteration_count)
        BY <1>5 DEF NextPass, DominanceInv
    <2>2. PassInv(successors, order, idom, 1, FALSE, iteration_count + 1)
        BY <2>1, NextPassStarts
    <2>3. next' = 1 /\ changed' = FALSE /\ iteration_count' = iteration_count + 1
        BY <1>5 DEF NextPass
    <2>4. UNCHANGED <<pc, successors, order, idom, frontier>>
        BY <1>5 DEF NextPass
    <2>5. QED
        BY <2>1, <2>2, <2>3, <2>4 DEF DominanceInv
<1>6. CASE IdomDone
    <2>1. /\ pc = "idom" /\ next > Len(order) /\ (changed => iteration_count >= MaxPasses)
          /\ PassInv(successors, order, idom, next, changed, iteration_count)
          /\ frontier = [b \in Block |-> {}]
        BY <1>6 DEF IdomDone, DominanceInv
    <2>2. /\ pc' = "df" /\ todo' = JoinPoints(successors)
          /\ UNCHANGED <<successors, order, idom, next, changed, iteration_count, frontier>>
        BY <1>6 DEF IdomDone
    <2>3. frontier' = [d \in Block |-> {n \in JoinPoints(successors) \ todo' :
                                           d \in Walked(successors, idom, n)}]
        <3>1. JoinPoints(successors) \ todo' = {}
            BY <2>2
        <3>2. \A d : {n \in JoinPoints(successors) \ todo' :
                         d \in Walked(successors, idom, n)} = {}
            BY <3>1
        <3>3. QED
            BY <2>1, <2>2, <3>2
    <2>4. QED
        BY <2>1, <2>2, <2>3 DEF DominanceInv
<1>7. CASE WalkJoin
    BY <1>7, WalkJoinKeepsInv
<1>8. CASE DfDone
    BY <1>8 DEF DfDone, DominanceInv
<1>9. CASE Finished
    BY <1>9 DEF Finished, vars, DominanceInv
<1>10. CASE UNCHANGED vars
    BY <1>10 DEF vars, DominanceInv
<1>11. QED
    BY <1>1, <1>2, <1>3, <1>4, <1>5, <1>6, <1>7, <1>8, <1>9, <1>10 DEF Next

LEMMA AlwaysDominanceInv ==
    ASSUME MovesSuffice
    PROVE  Spec => []DominanceInv
<1>1. Init => DominanceInv
    BY InitDominanceInv
<1>2. DominanceInv /\ [Next]_vars => DominanceInv'
    BY NextKeepsDominanceInv
<1>3. QED
    BY <1>1, <1>2, PTL DEF Spec

\* While the fixpoint runs, no true dominator is ever lost from the chain above
\* a block that has an estimate: in a method of at most MAX_ITERATIONS blocks,
\* find_common_dominator never climbs past a dominator, in whatever order the
\* search yields the blocks and however often the passes repeat.
THEOREM EstimatesKeepDominators ==
    ASSUME MovesSuffice
    PROVE  Spec => []EstimateKeepsDominators
<1>1. ASSUME DominanceInv PROVE EstimateKeepsDominators
    <2>1. successors \in Cfg
        BY <1>1 DEF DominanceInv
    <2>2. PICK rank : KeepsDominators(successors, idom, rank)
        <3>1. CASE pc = "dfs"
            <4>1. [b \in Block |-> 0] \in [Block -> Nat] /\ idom = EntryAlone
                BY <1>1, <3>1 DEF DominanceInv
            <4>2. QED
                BY <2>1, <4>1, EntryAloneKeeps
        <3>2. CASE pc # "dfs"
            BY <1>1, <3>2 DEF DominanceInv, PassInv
        <3>3. QED BY <3>1, <3>2
    <2> SUFFICES ASSUME NEW b \in Reachable(successors), idom[b] # None,
                        NEW d \in StrictDominators(successors, b)
                 PROVE  StrictlyDominates(d, b)
        BY DEF EstimateKeepsDominators
    <2>3. b \in TreeBlocks(idom) /\ IsTree(idom, rank)
        BY <2>1, <2>2, ReachableFacts DEF TreeBlocks, KeepsDominators
    <2>4. d \in Reachable(successors) /\ d \in Block /\ d # b /\ Dominates(successors, d, b)
        BY <2>1, ReachableFacts DEF StrictDominators
    <2>5. d \in Above(idom, b)
        BY <2>1, <2>2, <2>3, <2>4, DominatorsAbove
    <2>6. QED
        BY <2>3, <2>4, <2>5, ProperAncestors DEF StrictlyDominates
<1>2. QED
    BY <1>1, AlwaysDominanceInv, PTL

\* The fixpoint was cut off by the bound on passes.
PassesRanOut == changed /\ iteration_count >= MaxPasses

\* A finished fixpoint that was not cut off has settled.
LEMMA FinishedIsSettled ==
    ASSUME DominanceInv, pc \in {"df", "done"}, ~PassesRanOut
    PROVE  /\ successors \in Cfg /\ KeepsDominators(successors, idom, Rank(order))
           /\ Settled(successors, idom)
<1>1. /\ successors \in Cfg /\ next > Len(order)
      /\ PassInv(successors, order, idom, next, changed, iteration_count)
    BY DEF DominanceInv
<1>2. changed \in BOOLEAN
    BY <1>1 DEF PassInv
<1>3. changed = FALSE
    BY <1>2 DEF DominanceInv, PassesRanOut
<1>4. Settled(successors, idom)
    BY <1>1, <1>3, QuietPassSettles
<1>5. QED
    BY <1>1, <1>4 DEF PassInv

\* The passes done so far, phase by phase.
PassesCounted ==
    /\ pc = "dfs" => iteration_count = 0
    /\ pc # "dfs" => PassesInv(successors, order, idom, next, changed, iteration_count)

LEMMA NextKeepsPassesCounted ==
    ASSUME MovesSuffice, DominanceInv, PassesCounted, [Next]_vars
    PROVE  PassesCounted'
<1>0. successors \in Cfg
    BY DEF DominanceInv
<1>1. CASE DfsVisit
    BY <1>1 DEF DfsVisit, PassesCounted
<1>2. CASE DfsPop
    BY <1>2 DEF DfsPop, PassesCounted
<1>3. CASE DfsDone
    <2>1. /\ pc = "dfs" /\ idom = EntryAlone
          /\ UNCHANGED <<successors, idom>>
          /\ changed' = FALSE /\ iteration_count' = 1 /\ pc' = "idom"
        BY <1>3 DEF DfsDone, DominanceInv
    <2>2. Tight(successors', idom', Levels(order', next', iteration_count'))
        BY <2>1, EntryAloneTight
    <2>3. Cardinality(Reachable(successors)) \in Nat
        BY <1>0, ReachedIsReachable
    <2>4. 1 <= Cardinality(Reachable(successors)) + 1
        BY <2>3
    <2>5. PassesInv(successors', order', idom', next', changed', iteration_count')
        BY <2>1, <2>2, <2>4 DEF PassesInv
    <2>6. QED
        BY <2>1, <2>5 DEF PassesCounted
<1>4. CASE ProcessBlock
    <2>1. /\ pc = "idom" /\ next <= Len(order)
          /\ PassInv(successors, order, idom, next, changed, iteration_count)
          /\ PassesInv(successors, order, idom, next, changed, iteration_count)
        BY <1>4 DEF ProcessBlock, DominanceInv, PassesCounted
    <2> DEFINE b == order[next]
               new_idom == IF b = Entry THEN Entry
                           ELSE IntersectDominators(idom, Predecessors(successors, b))
    <2>2. PassesInv(successors, order, [idom EXCEPT ![b] = new_idom], next + 1,
                    changed \/ new_idom # idom[b], iteration_count)
        BY <1>0, <2>1, ProcessKeepsPasses
    <2>3. /\ idom' = [idom EXCEPT ![b] = new_idom] /\ next' = next + 1
          /\ changed' = (changed \/ new_idom # idom[b])
        BY <1>4 DEF ProcessBlock
    <2>4. UNCHANGED <<pc, successors, order, iteration_count>>
        BY <1>4 DEF ProcessBlock
    <2> HIDE DEF b, new_idom
    <2>5. PassesInv(successors, order, idom, next, changed, iteration_count)'
        BY <2>2, <2>3, <2>4, Zenon
    <2>6. QED
        BY <2>1, <2>4, <2>5 DEF PassesCounted
<1>5. CASE NextPass
    <2>1. /\ pc = "idom" /\ next > Len(order) /\ changed
          /\ PassInv(successors, order, idom, next, changed, iteration_count)
          /\ PassesInv(successors, order, idom, next, changed, iteration_count)
        BY <1>5 DEF NextPass, DominanceInv, PassesCounted
    <2>2. changed = TRUE
        BY <2>1 DEF PassInv
    <2>3. PassesInv(successors, order, idom, 1, FALSE, iteration_count + 1)
        BY <1>0, <2>1, <2>2, NextPassKeepsPasses
    <2>4. /\ next' = 1 /\ changed' = FALSE /\ iteration_count' = iteration_count + 1
          /\ UNCHANGED <<pc, successors, order, idom>>
        BY <1>5 DEF NextPass
    <2>5. QED
        BY <2>1, <2>3, <2>4 DEF PassesCounted
<1>6. CASE IdomDone
    BY <1>6 DEF IdomDone, PassesCounted
<1>7. CASE WalkJoin
    BY <1>7 DEF WalkJoin, PassesCounted
<1>8. CASE DfDone
    BY <1>8 DEF DfDone, PassesCounted
<1>9. CASE Finished \/ UNCHANGED vars
    BY <1>9 DEF Finished, vars, PassesCounted
<1>10. QED
    BY <1>1, <1>2, <1>3, <1>4, <1>5, <1>6, <1>7, <1>8, <1>9 DEF Next

LEMMA AlwaysPassesCounted ==
    ASSUME MovesSuffice
    PROVE  Spec => [](DominanceInv /\ PassesCounted)
<1>1. Init => DominanceInv /\ PassesCounted
    <2>1. Init => PassesCounted
        BY DEF Init, PassesCounted
    <2>2. QED
        BY <2>1, InitDominanceInv
<1>2. DominanceInv /\ PassesCounted /\ [Next]_vars => (DominanceInv /\ PassesCounted)'
    BY NextKeepsDominanceInv, NextKeepsPassesCounted
<1>3. QED
    BY <1>1, <1>2, PTL DEF Spec

\* The fixpoint of compute_idom settles within one pass per reachable block and
\* one more that finds nothing to change, in whatever order the search yields
\* the blocks, for every graph of at most MAX_ITERATIONS blocks.
THEOREM FixpointSettles ==
    ASSUME MovesSuffice
    PROVE  Spec => []PassesBounded
<1>1. ASSUME DominanceInv, PassesCounted PROVE PassesBounded
    <2>1. Cardinality(Reachable(successors)) \in Nat
        BY <1>1, ReachedIsReachable DEF DominanceInv
    <2>2. CASE pc = "dfs"
        BY <1>1, <2>1, <2>2 DEF PassesCounted, PassesBounded
    <2>3. CASE pc # "dfs"
        BY <1>1, <2>3 DEF PassesCounted, PassesInv, PassesBounded
    <2>4. QED
        BY <2>2, <2>3
<1>2. QED
    BY <1>1, AlwaysPassesCounted, PTL

\* The bound on passes is 1000 and so is the bound on finger moves.
PassesSuffice == Cardinality(Block) < MaxPasses

\* So the bound on passes never cuts the fixpoint off before it has settled.
LEMMA NeverCutOff ==
    ASSUME PassesSuffice, DominanceInv, PassesCounted, pc # "dfs"
    PROVE  ~PassesRanOut
<1> DEFINE N == Cardinality(Reachable(successors))
<1>1. successors \in Cfg /\ PassInv(successors, order, idom, next, changed, iteration_count)
    BY DEF DominanceInv
<1>2. iteration_count \in Nat /\ iteration_count <= N + 1 /\ (iteration_count = N + 1 => ~changed)
    BY <1>1 DEF PassesCounted, PassesInv, PassInv
<1>3. N <= Cardinality(Block) /\ N \in Nat /\ Cardinality(Block) \in Nat
    BY <1>1, ReachableFacts, BlockAssumption, FS_Subset, FS_CardinalityType
<1> HIDE DEF N
<1>4. QED
    BY <1>2, <1>3, BoundsAssumption DEF PassesRanOut, PassesSuffice

\* strictly_dominates and the dominator tree answer exactly what the paths of
\* the graph say, for every graph of fewer blocks than the two bounds of the code
\* (MAX_ITERATIONS finger moves, as many passes).
THEOREM DominanceIsCorrect ==
    ASSUME MovesSuffice, PassesSuffice
    PROVE  Spec => []DominanceCorrect
<1>1. ASSUME DominanceInv, PassesCounted PROVE DominanceCorrect
    <2> SUFFICES ASSUME pc \in {"df", "done"} PROVE DominanceCorrect
        BY DEF DominanceCorrect
    <2>0. ~PassesRanOut
        BY <1>1, NeverCutOff
    <2> DEFINE cfg == successors
    <2>1. cfg \in Cfg /\ KeepsDominators(cfg, idom, Rank(order)) /\ Settled(cfg, idom)
        BY <1>1, <2>0, FinishedIsSettled
    <2>2. IsTree(idom, Rank(order)) /\ TreeBlocks(idom) = Reachable(cfg)
        BY <2>1 DEF KeepsDominators, Settled
    <2>3. ASSUME NEW b \in Reachable(cfg), NEW a \in Block
          PROVE  StrictlyDominates(a, b) <=> a \in StrictDominators(cfg, b)
        <3>1. StrictDominators(cfg, b) = Above(idom, b) \ {b}
            BY <2>1, SettledIsDominance
        <3>2. QED
            BY <2>2, <3>1, ProperAncestors DEF StrictlyDominates
    <2>4. ASSUME NEW b \in Block \ Reachable(cfg) PROVE idom[b] = None /\ Children(b) = {}
        <3>1. idom[b] = None /\ b # Entry
            BY <2>2, EntryInTree DEF TreeBlocks
        <3>2. ASSUME NEW c \in Block, idom[c] = b PROVE FALSE
            <4>1. c \in TreeBlocks(idom)
                BY <3>2, BlockAssumption DEF TreeBlocks
            <4>2. c # Entry
                BY <2>2, <3>1, <3>2 DEF IsTree
            <4>3. idom[c] \in TreeBlocks(idom)
                BY <2>2, <4>1, <4>2, ParentOf
            <4>4. QED
                BY <2>2, <3>2, <4>3
        <3>3. QED
            BY <3>1, <3>2 DEF Children
    <2>5. QED
        BY <2>3, <2>4 DEF DominanceCorrect
<1>2. QED
    BY <1>1, AlwaysPassesCounted, PTL

\* compute_df computes the frontiers its comment defines, for every such graph
\* and at every reachable block but the entry.
THEOREM FrontiersAreCorrect ==
    ASSUME MovesSuffice, PassesSuffice
    PROVE  Spec => []FrontierCorrect
<1>1. ASSUME DominanceInv, PassesCounted PROVE FrontierCorrect
    <2> SUFFICES ASSUME pc = "done",
                        NEW d \in Reachable(successors), NEW n \in Reachable(successors) \ {Entry}
                 PROVE  n \in frontier[d] <=> InFrontier(successors, d, n)
        BY DEF FrontierCorrect
    <2> DEFINE cfg == successors
    <2>0. ~PassesRanOut
        BY <1>1, NeverCutOff
    <2>1. cfg \in Cfg /\ KeepsDominators(cfg, idom, Rank(order)) /\ Settled(cfg, idom)
        BY <1>1, <2>0, FinishedIsSettled
    <2>2. /\ d \in Block
          /\ frontier = [x \in Block |-> {m \in JoinPoints(cfg) \ todo : x \in Walked(cfg, idom, m)}]
          /\ todo = {}
        BY <1>1, <2>1, ReachableFacts DEF DominanceInv
    <2>3. n \in frontier[d] <=> n \in JoinPoints(cfg) /\ d \in Walked(cfg, idom, n)
        BY <2>2
    <2>4. d \in Walked(cfg, idom, n) <=> InFrontier(cfg, d, n)
        BY <2>1, WalkedIsFrontier
    <2>5. n \notin JoinPoints(cfg) => ~InFrontier(cfg, d, n)
        BY <2>1, NoJoinNoFrontier
    <2>6. QED
        BY <2>3, <2>4, <2>5
<1>2. QED
    BY <1>1, AlwaysPassesCounted, PTL
=============================================================================
