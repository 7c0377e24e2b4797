--------------------------- MODULE TraversalProofs ---------------------------
(***************************************************************************)
(* Proofs about the programs of graphs/, one after the other, and at the   *)
(* end about Traversals, which is any of them.                             *)
(***************************************************************************)
EXTENDS Traversals, ProofLemmas, FunctionTheorems

\* What a search has marked, and whether it has returned; any other search is read
\* as one through these.
VARIABLES marked, over

\* A search of any graph.
AnySearch == INSTANCE Search

(***************************************************************************)
(* The invariant of a search: what is marked lies in every closed set      *)
(* around the start (LeastClosed), and at the end is one of them.          *)
(***************************************************************************)
SearchTypeOK ==
  /\ \A k \in DOMAIN adj : adj[k] \in Seq(DOMAIN adj)
  /\ start \in DOMAIN adj
  /\ marked \subseteq DOMAIN adj

LeastClosed == \A T \in SUBSET DOMAIN adj : start \in T /\ AnySearch!Closed(T) => marked \subseteq T

SearchInv == SearchTypeOK /\ start \in marked /\ LeastClosed /\ (over => AnySearch!Closed(marked))

\* A search that has returned has marked the nodes its start leads to, and no other:
\* the programs of graphs/ that implement Search visit everything they should.
THEOREM SearchMarksTheReachable == AnySearch!Spec => []AnySearch!MarksTheReachable
<1>1. AnySearch!Init => SearchInv
  BY DEF AnySearch!Init, SearchInv, SearchTypeOK, LeastClosed, AnySearch!Closed
<1>2. SearchInv /\ [AnySearch!Next]_AnySearch!vars => SearchInv'
  <2> SUFFICES ASSUME SearchInv, [AnySearch!Next]_AnySearch!vars PROVE SearchInv'
    OBVIOUS
  <2>1. CASE AnySearch!Mark
    <3>1. PICK k \in marked : \E m \in AnySearch!Successors(k) : m \notin marked /\ marked' = marked \cup {m}
      BY <2>1 DEF AnySearch!Mark
    <3>2. PICK m \in AnySearch!Successors(k) : marked' = marked \cup {m}
      BY <3>1
    <3>3. adj' = adj /\ start' = start /\ ~ over /\ over' = over
      BY <2>1 DEF AnySearch!Mark
    <3>4. m \in DOMAIN adj
      BY <3>2 DEF SearchInv, SearchTypeOK, AnySearch!Successors, AnySearch!Range
    <3>5. LeastClosed'
      BY <3>2, <3>3 DEF SearchInv, LeastClosed, AnySearch!Closed, AnySearch!Successors
    <3> QED
      BY <3>2, <3>3, <3>4, <3>5 DEF SearchInv, SearchTypeOK
  <2>2. CASE AnySearch!Return
    BY <2>2 DEF AnySearch!Return, SearchInv, SearchTypeOK, LeastClosed, AnySearch!Closed, AnySearch!Successors
  <2>3. CASE UNCHANGED AnySearch!vars
    BY <2>3 DEF AnySearch!vars, SearchInv, SearchTypeOK, LeastClosed, AnySearch!Closed, AnySearch!Successors
  <2> QED
    BY <2>1, <2>2, <2>3 DEF AnySearch!Next
<1>3. SearchInv => AnySearch!MarksTheReachable
  BY DEF SearchInv, LeastClosed, SearchTypeOK, AnySearch!MarksTheReachable
<1> QED
  BY <1>1, <1>2, <1>3, PTL DEF AnySearch!Spec

-----------------------------------------------------------------------------
\* How many numbers there are up to one.
LEMMA FirstNumbers == ASSUME NEW n \in Nat PROVE Cardinality(1..n) = n
<1>1. CASE n = 0
  <2>1. 1..n = {}
    BY <1>1
  <2> QED
    BY <1>1, <2>1, FS_EmptySet
<1>2. CASE n # 0
  <2>1. 1 \in Int /\ n \in Int /\ ~ (n < 1) /\ (n - 1) + 1 = n
    BY <1>2
  <2>2. Cardinality(1..n) = (n - 1) + 1
    BY <2>1, FS_Interval
  <2> QED
    BY <2>1, <2>2
<1> QED
  BY <1>1, <1>2

\* S and the nodes its nodes lead to.
Beyond(g, S) == S \cup UNION { Range(g[m]) : m \in S }

\* W gives, for every distance up to d, the nodes no further than that from n.
IsWithin(g, n, d, W) == W = [k \in 0..d |-> IF k = 0 THEN {n} ELSE Beyond(g, W[k - 1])]

\* Within is defined by a recursive function over the numbers up to d, so the functions
\* for two bounds have to be shown to agree before anything can be said of d + 1.
LEMMA WithinUnfold == 
  ASSUME NEW g, NEW n, NEW d PROVE Within(g, n, d) = (CHOOSE W : IsWithin(g, n, d, W))[d]
  BY DEF Within, IsWithin, Beyond

\* One distance more.
LEMMA WithinExtends ==
  ASSUME NEW g, NEW n, NEW d \in Nat, NEW W, IsWithin(g, n, d, W)
  PROVE  IsWithin(g, n, d + 1, [k \in 0..(d + 1) |-> IF k <= d THEN W[k] ELSE Beyond(g, W[d])])
<1> DEFINE V == [k \in 0..(d + 1) |-> IF k <= d THEN W[k] ELSE Beyond(g, W[d])]
           U == [k \in 0..(d + 1) |-> IF k = 0 THEN {n} ELSE Beyond(g, V[k - 1])]
<1>1. ASSUME NEW k \in 0..(d + 1) PROVE V[k] = U[k]
  <2>1. CASE k = 0
    BY <2>1 DEF IsWithin
  <2>2. CASE k # 0 /\ k <= d
    <3>1. k \in 0..d /\ k - 1 \in 0..(d + 1) /\ k - 1 <= d
      BY <2>2
    <3>2. W[k] = Beyond(g, W[k - 1])
      BY <2>2, <3>1 DEF IsWithin
    <3>3. V[k - 1] = W[k - 1] /\ V[k] = W[k]
      BY <2>2, <3>1
    <3> QED
      BY <2>2, <3>2, <3>3
  <2>3. CASE k = d + 1
    <3>1. k - 1 = d /\ ~ (k <= d) /\ k # 0 /\ d \in 0..(d + 1) /\ d <= d
      BY <2>3
    <3>2. V[k] = Beyond(g, W[d]) /\ V[d] = W[d]
      BY <3>1
    <3>3. U[k] = Beyond(g, V[k - 1])
      BY <3>1
    <3> QED
      BY <3>1, <3>2, <3>3
  <2> QED
    BY <2>1, <2>2, <2>3
<1>2. V = U
  BY <1>1
<1> QED
  BY <1>2 DEF IsWithin

\* Two such functions agree as far as both go.
LEMMA WithinUnique ==
  ASSUME NEW g, NEW n, NEW d \in Nat, NEW V, NEW W, IsWithin(g, n, d, V), IsWithin(g, n, d + 1, W)
  PROVE  V[d] = W[d]
<1> SUFFICES ASSUME V[d] # W[d] PROVE FALSE
  OBVIOUS
<1> DEFINE B == { k \in 0..d : V[k] # W[k] }
<1>1. B \in SUBSET Nat /\ B # {}
  OBVIOUS
<1>2. PICK k \in B : \A j \in B : k <= j
  BY <1>1, Least
<1>3. CASE k = 0
  BY <1>3 DEF IsWithin
<1>4. CASE k # 0
  <2>1. k - 1 \in 0..d /\ k - 1 \in 0..(d + 1) /\ k \in 0..(d + 1) /\ ~ (k <= k - 1)
    BY <1>4
  <2>2. V[k - 1] = W[k - 1]
    BY <1>2, <2>1
  <2>3. V[k] = Beyond(g, V[k - 1]) /\ W[k] = Beyond(g, W[k - 1])
    BY <1>4, <2>1 DEF IsWithin
  <2> QED
    BY <1>2, <2>2, <2>3
<1> QED
  BY <1>3, <1>4

\* There is one for every bound.
LEMMA WithinIs ==
  ASSUME NEW g, NEW n, NEW d \in Nat PROVE \E W : IsWithin(g, n, d, W)
<1> SUFFICES ASSUME ~ \E W : IsWithin(g, n, d, W) PROVE FALSE
  OBVIOUS
<1> DEFINE B == { k \in Nat : ~ \E W : IsWithin(g, n, k, W) }
<1>1. PICK k \in B : \A j \in B : k <= j
  <2>1. B \in SUBSET Nat /\ B # {}
    OBVIOUS
  <2> QED
    BY <2>1, Least
<1>2. CASE k = 0
  <2>1. IsWithin(g, n, 0, [j \in 0..0 |-> {n}])
    BY DEF IsWithin
  <2> QED
    BY <1>2, <2>1
<1>3. CASE k # 0
  <2>1. k - 1 \in Nat /\ k - 1 + 1 = k /\ ~ (k <= k - 1)
    BY <1>3
  <2>2. PICK W : IsWithin(g, n, k - 1, W)
    BY <1>1, <2>1
  <2>3. IsWithin(g, n, k, [j \in 0..((k - 1) + 1) |-> IF j <= k - 1 THEN W[j] ELSE Beyond(g, W[k - 1])])
    BY <2>1, <2>2, WithinExtends
  <2> QED
    BY <2>3
<1> QED
  BY <1>2, <1>3

\* What the proofs use of Within.
LEMMA WithinSteps ==
  ASSUME NEW g, NEW n
  PROVE  /\ Within(g, n, 0) = {n}
         /\ \A d \in Nat : Within(g, n, d + 1) = Beyond(g, Within(g, n, d))
<1>1. Within(g, n, 0) = {n}
  <2> DEFINE W == CHOOSE W : IsWithin(g, n, 0, W)
  <2>1. IsWithin(g, n, 0, W)
    BY WithinIs
  <2>2. W[0] = {n}
    <3> HIDE DEF W
    <3> QED
      BY <2>1 DEF IsWithin
  <2> QED
    BY <2>2, WithinUnfold
<1>2. ASSUME NEW d \in Nat PROVE Within(g, n, d + 1) = Beyond(g, Within(g, n, d))
  <2> DEFINE V == CHOOSE W : IsWithin(g, n, d, W)
             W == CHOOSE W : IsWithin(g, n, d + 1, W)
  <2>1. IsWithin(g, n, d, V) /\ IsWithin(g, n, d + 1, W)
    BY WithinIs
  <2>2. V[d] = W[d]
    <3> HIDE DEF V, W
    <3> QED
    BY <2>1, WithinUnique
  <2>3. W[d + 1] = Beyond(g, W[d])
    <3> HIDE DEF V, W
    <3>1. d + 1 \in 0..(d + 1) /\ d + 1 # 0 /\ (d + 1) - 1 = d
      OBVIOUS
    <3> QED
      BY <2>1, <3>1 DEF IsWithin
  <2> QED
    BY <2>2, <2>3, WithinUnfold
<1> QED
  BY <1>1, <1>2

\* The sets grow with the distance.
LEMMA WithinGrows ==
  ASSUME NEW g, NEW n, NEW d \in Nat
  PROVE  \A e \in Nat : d <= e => Within(g, n, d) \subseteq Within(g, n, e)
<1> DEFINE B == { e \in Nat : d <= e /\ ~ (Within(g, n, d) \subseteq Within(g, n, e)) }
<1> SUFFICES ASSUME B # {} PROVE FALSE
  OBVIOUS
<1>1. PICK e \in B : \A k \in B : e <= k
  <2>1. B \in SUBSET Nat /\ B # {}
    OBVIOUS
  <2> HIDE DEF B
  <2> QED
    BY <2>1, Least
<1>2. CASE e = d
  BY <1>2
<1>3. CASE e # d
  <2>1. e - 1 \in Nat /\ (e - 1) + 1 = e /\ ~ (e <= e - 1) /\ d <= e - 1
    BY <1>3
  <2>2. Within(g, n, d) \subseteq Within(g, n, e - 1)
    BY <1>1, <2>1
  <2>3. Within(g, n, e) = Beyond(g, Within(g, n, e - 1))
    <3> HIDE DEF B
    <3>1. \A k \in Nat : Within(g, n, k + 1) = Beyond(g, Within(g, n, k))
      BY WithinSteps
    <3> QED
      BY <2>1, <3>1
  <2> QED
    BY <2>2, <2>3 DEF Beyond
<1> QED
  BY <1>2, <1>3

\* A set that no edge leaves.
LEMMA WithinClosed ==
  ASSUME NEW g, NEW S, \A m \in S : Range(g[m]) \subseteq S, NEW n \in S
  PROVE  \A d \in Nat : Within(g, n, d) \subseteq S
<1> DEFINE B == { d \in Nat : ~ (Within(g, n, d) \subseteq S) }
<1> SUFFICES ASSUME B # {} PROVE FALSE
  OBVIOUS
<1>1. PICK d \in B : \A k \in B : d <= k
  <2>1. B \in SUBSET Nat /\ B # {}
    OBVIOUS
  <2> HIDE DEF B
  <2> QED
    BY <2>1, Least
<1>2. CASE d = 0
  BY <1>2, WithinSteps
<1>3. CASE d # 0
  <2>1. d - 1 \in Nat /\ (d - 1) + 1 = d /\ ~ (d <= d - 1)
    BY <1>3
  <2>2. Within(g, n, d - 1) \subseteq S
    BY <1>1, <2>1
  <2>3. Within(g, n, d) = Beyond(g, Within(g, n, d - 1))
    <3> HIDE DEF B
    <3>1. \A k \in Nat : Within(g, n, k + 1) = Beyond(g, Within(g, n, k))
      BY WithinSteps
    <3> QED
      BY <2>1, <3>1
  <2> QED
    BY <2>2, <2>3 DEF Beyond
<1> QED
  BY <1>2, <1>3

\* As many steps as there are nodes reach all that can be reached: nothing leads out of
\* the nodes within that many.
LEMMA WithinAll ==
  ASSUME NEW g \in [Nodes -> Seq(Nodes)], NEW n \in Nodes
  PROVE  \A m \in Within(g, n, Cardinality(Nodes)) : Range(g[m]) \subseteq Within(g, n, Cardinality(Nodes))
<1> DEFINE W(d) == Within(g, n, d)
           Open(d) == \E m \in W(d) : ~ (Range(g[m]) \subseteq W(d))
           B == { d \in Nat : Open(d) /\ ~ (d + 1 <= Cardinality(W(d))) }
<1>0. Cardinality(Nodes) \in Nat /\ IsFiniteSet(Nodes)
  BY PoolAssumption, FS_CardinalityType
<1>1. \A d \in Nat : W(d) \subseteq Nodes
  <2>1. \A m \in Nodes : Range(g[m]) \subseteq Nodes
    BY DEF Range
  <2> QED
    BY <2>1, WithinClosed
<1>2. \A d \in Nat : /\ IsFiniteSet(W(d)) /\ Cardinality(W(d)) \in Nat /\ Cardinality(W(d)) <= Cardinality(Nodes)
  BY <1>0, <1>1, FS_Subset, FS_CardinalityType
<1>3. W(0) = {n} /\ \A d \in Nat : W(d + 1) = Beyond(g, W(d))
  BY WithinSteps
<1>4. ASSUME B # {} PROVE FALSE
  <2>1. PICK d \in B : \A k \in B : d <= k
    <3>1. B \in SUBSET Nat /\ B # {}
      BY <1>4
    <3> HIDE DEF B
    <3> QED
      BY <3>1, Least
  <2>2. d \in Nat /\ Open(d) /\ ~ (d + 1 <= Cardinality(W(d)))
    OBVIOUS
  <2> HIDE DEF W
  <2>3. CASE d = 0
    <3>1. Cardinality(W(0)) = 1
      BY <1>3, FS_Singleton
    <3> QED
      BY <2>2, <2>3, <3>1
  <2>4. CASE d # 0
    <3>1. d - 1 \in Nat /\ (d - 1) + 1 = d /\ ~ (d <= d - 1)
      BY <2>2, <2>4
    <3>2. W(d) = Beyond(g, W(d - 1))
      BY <1>3, <3>1
    <3>3. PICK x : x \notin W(d - 1) /\ \E m \in W(d - 1) : x \in Range(g[m])
      <4> SUFFICES ASSUME ~ Open(d - 1) PROVE FALSE
        OBVIOUS
      <4>1. W(d) = W(d - 1)
        BY <3>2 DEF Beyond
      <4> QED
        BY <2>2, <4>1
    <3>4. d <= Cardinality(W(d - 1))
      <4>1. Open(d - 1) /\ d - 1 \notin B
        BY <2>1, <3>1, <3>3
      <4> QED
        BY <3>1, <4>1
    <3>5. W(d - 1) \cup {x} \subseteq W(d)
      BY <3>2, <3>3 DEF Beyond
    <3>6. /\ IsFiniteSet(W(d - 1) \cup {x})
          /\ Cardinality(W(d - 1) \cup {x}) = Cardinality(W(d - 1)) + 1
      <4>1. IsFiniteSet(W(d - 1))
        BY <1>2, <3>1
      <4>2. x \notin W(d - 1)
        BY <3>3
      <4> QED
        BY <4>1, <4>2, FS_AddElement
    <3>7. Cardinality(W(d - 1) \cup {x}) <= Cardinality(W(d))
      <4>1. IsFiniteSet(W(d))
        BY <1>2, <2>2
      <4> QED
        BY <3>5, <4>1, FS_Subset
    <3> QED
      BY <1>2, <2>2, <3>1, <3>4, <3>6, <3>7
  <2> QED
    BY <2>3, <2>4
<1>5. ~ Open(Cardinality(Nodes))
  <2>1. ~ (Cardinality(Nodes) + 1 <= Cardinality(W(Cardinality(Nodes))))
    BY <1>0, <1>2
  <2> QED
    BY <1>0, <1>4, <2>1
<1> QED
  BY <1>5

-----------------------------------------------------------------------------
(* bfs-solve-path-find.c *)

\* solve is over when it has returned, and the walk back begins.
PathOver == pc \in {"walk", "found", "nopath"}

\* solve is a search of its own graph.
PathSearch == INSTANCE Search WITH marked <- visited, over <- PathOver

(***************************************************************************)
(* The invariant.  The nodes taken from the queue have been explored, the  *)
(* current one up to its neighbour i (PathExpanded); no node is in the     *)
(* queue twice (PathOnce), and what is in it is marked (PathMarked).       *)
(***************************************************************************)

\* The variables of solve, without path.
PathTypeOK ==
  /\ adj \in [Nodes -> Seq(Nodes)]
  /\ start \in Nodes /\ end \in Nodes
  /\ queue \in Seq(Nodes)
  /\ head \in 0..Len(queue)
  /\ visited \subseteq Nodes
  /\ parent \in [Nodes -> Nodes]
  /\ curr \in Nodes
  /\ i \in Nat \ {0}
  /\ pc \in {"loop", "neighbors", "walk", "found", "nopath"}

\* What is in the queue is what is marked.
PathMarked ==
  /\ start \in visited
  /\ \A n \in visited : \E k \in 1..Len(queue) : queue[k] = n
  /\ \A k \in 1..Len(queue) : queue[k] \in visited

\* As long as the queue has as many entries as there are marked nodes, none is there twice.
PathOnce == Len(queue) = Cardinality(visited)

\* The node of the loop over the neighbours is the last one taken.
PathExpanding == pc = "neighbors" => head > 0 /\ curr = queue[head]

\* The neighbours of the nodes taken are marked, of the current one those before i.
PathExpanded ==
  \A k \in 1..head : \A j \in 1..Len(adj[queue[k]]) :
    (pc = "neighbors" /\ k = head => j < i) => adj[queue[k]][j] \in visited

\* Together.
PathInv == PathTypeOK /\ PathMarked /\ PathOnce /\ PathExpanding /\ PathExpanded /\ (PathOver => head = Len(queue))

\* It holds when solve begins,
LEMMA PathInitInv == PATH!Init => PathInv
<1> SUFFICES ASSUME PATH!Init PROVE PathInv
  OBVIOUS
<1>1. queue = <<start>> /\ Len(queue) = 1 /\ queue[1] = start
  BY DEF PATH!Init
<1>2. PathTypeOK
  BY <1>1, PoolAssumption, TraversalsAssumption DEF PATH!Init, PathTypeOK
<1>3. PathOnce
  BY <1>1, FS_Singleton DEF PATH!Init, PathOnce
<1>4. PathMarked
  BY <1>1 DEF PATH!Init, PathMarked
<1>5. PathExpanding /\ PathExpanded /\ ~ PathOver
  BY DEF PATH!Init, PathExpanding, PathExpanded, PathOver
<1> QED
  BY <1>2, <1>3, <1>4, <1>5 DEF PathInv

\* One turn of the inner loop marks the neighbour, or finds it marked.
LEMMA PathExplore ==
  ASSUME PathInv, PATH!Explore
  PROVE  /\ PathInv'
         /\ \/ visited' = visited
            \/ adj[curr][i] \notin visited /\ visited' = visited \cup {adj[curr][i]}
<1> DEFINE next == adj[curr][i]
<1>1. /\ next \in Nodes /\ i \in 1..Len(adj[curr]) /\ pc = "neighbors"
      /\ i' = i + 1 /\ UNCHANGED <<adj, start, end, head, curr, pc>>
  BY DEF PATH!Explore, PathInv, PathTypeOK
<1>2. head \in 1..Len(queue) /\ curr = queue[head]
  BY <1>1 DEF PathInv, PathTypeOK, PathExpanding
<1>3. CASE next \in visited
  <2>1. UNCHANGED <<queue, visited, parent>>
    BY <1>3 DEF PATH!Explore
  <2>2. PathExpanded'
    <3> SUFFICES ASSUME NEW k \in 1..head, NEW j \in 1..Len(adj[queue[k]]), k = head => j < i + 1
                 PROVE  adj[queue[k]][j] \in visited
      BY <1>1, <2>1 DEF PathExpanded
    <3>1. CASE k = head /\ j = i
      BY <1>2, <1>3, <3>1
    <3>2. CASE k # head \/ j < i
      BY <1>1, <3>2 DEF PathInv, PathExpanded
    <3> QED
      BY <1>1, <3>1, <3>2
  <2>3. PathTypeOK' /\ PathMarked' /\ PathOnce' /\ PathExpanding' /\ ~ PathOver'
    BY <1>1, <2>1 DEF PathInv, PathTypeOK, PathMarked, PathOnce, PathExpanding, PathOver
  <2> QED
    BY <2>1, <2>2, <2>3 DEF PathInv
<1>4. CASE next \notin visited
  <2>1. /\ queue' = Append(queue, next) /\ visited' = visited \cup {next}
        /\ parent' = [parent EXCEPT ![next] = curr]
    BY <1>4 DEF PATH!Explore
  <2>2. /\ queue' \in Seq(Nodes) /\ Len(queue') = Len(queue) + 1
        /\ \A k \in 1..Len(queue) : queue'[k] = queue[k]
        /\ queue'[Len(queue) + 1] = next
    BY <1>1, <2>1 DEF PathInv, PathTypeOK
  <2>3. PathTypeOK'
    BY <1>1, <2>1, <2>2 DEF PathInv, PathTypeOK
  <2>4. PathMarked'
    <3>1. \A n \in visited' : \E k \in 1..Len(queue') : queue'[k] = n
      <4> SUFFICES ASSUME NEW n \in visited' PROVE \E k \in 1..Len(queue') : queue'[k] = n
        OBVIOUS
      <4>1. CASE n = next
        <5>1. Len(queue) + 1 \in 1..Len(queue')
          BY <2>2 DEF PathInv, PathTypeOK
        <5> QED
          BY <2>2, <4>1, <5>1
      <4>2. CASE n \in visited
        <5>1. PICK k \in 1..Len(queue) : queue[k] = n
          BY <4>2 DEF PathInv, PathMarked
        <5> QED
          BY <2>2, <5>1 DEF PathInv, PathTypeOK
      <4> QED
        BY <2>1, <4>1, <4>2
    <3>2. \A k \in 1..Len(queue') : queue'[k] \in visited'
      <4> SUFFICES ASSUME NEW k \in 1..Len(queue') PROVE queue'[k] \in visited'
        OBVIOUS
      <4>1. k \in 1..Len(queue) \/ k = Len(queue) + 1
        BY <2>2 DEF PathInv, PathTypeOK
      <4> QED
        BY <2>1, <2>2, <4>1 DEF PathInv, PathMarked
    <3> QED
      BY <1>1, <2>1, <3>1, <3>2 DEF PathInv, PathMarked
  <2>5. PathOnce'
    <3>1. IsFiniteSet(visited)
      BY FS_Subset, PoolAssumption DEF PathInv, PathTypeOK
    <3>2. Cardinality(visited \cup {next}) = Cardinality(visited) + 1
      BY <1>4, <3>1, FS_AddElement
    <3>3. Len(queue) = Cardinality(visited)
      BY DEF PathInv, PathOnce
    <3>4. visited' = visited \cup {next} /\ Len(queue') = Len(queue) + 1
      BY <2>1, <2>2
    <3> QED
      BY <3>2, <3>3, <3>4 DEF PathOnce
  <2>6. PathExpanded'
    <3>1. ASSUME NEW k \in 1..head, NEW j \in 1..Len(adj[queue[k]]), k = head => j < i + 1
          PROVE  adj[queue[k]][j] \in visited \cup {next}
      <4>1. CASE k = head /\ j = i
        BY <1>2, <4>1
      <4>2. CASE k # head \/ j < i
        BY <1>1, <4>2 DEF PathInv, PathExpanded
      <4> QED
        BY <1>1, <3>1, <4>1, <4>2
    <3>2. \A k \in 1..head : queue'[k] = queue[k]
      BY <1>2, <2>2 DEF PathInv, PathTypeOK
    <3> QED
      BY <1>1, <2>1, <3>1, <3>2 DEF PathExpanded
  <2>7. PathExpanding' /\ ~ PathOver'
    BY <1>1, <1>2, <2>2 DEF PathExpanding, PathOver
  <2> QED
    BY <2>1, <2>3, <2>4, <2>5, <2>6, <2>7 DEF PathInv
<1> QED
  BY <1>3, <1>4

\* and every step keeps it.
LEMMA PathNextInv == PathInv /\ [PATH!Next]_PATH!vars => PathInv'
<1> SUFFICES ASSUME PathInv, [PATH!Next]_PATH!vars PROVE PathInv'
  OBVIOUS
<1>1. CASE PATH!Dequeue
  <2>1. /\ head' = head + 1 /\ head' \in 1..Len(queue) /\ curr' = queue[head'] /\ i' = 1
        /\ pc = "loop" /\ pc' = "neighbors" /\ UNCHANGED <<adj, start, end, queue, visited, parent>>
    BY <1>1 DEF PATH!Dequeue, PathInv, PathTypeOK
  <2>2. PathTypeOK' /\ PathMarked' /\ PathOnce' /\ PathExpanding' /\ ~ PathOver'
    BY <2>1 DEF PathInv, PathTypeOK, PathMarked, PathOnce, PathExpanding, PathOver
  <2>3. PathExpanded'
    <3> SUFFICES ASSUME NEW k \in 1..head', NEW j \in 1..Len(adj[queue[k]]), k = head' => j < 1
                 PROVE  adj[queue[k]][j] \in visited
      BY <2>1 DEF PathExpanded
    <3>1. k \in 1..head /\ ~ (pc = "neighbors" /\ k = head)
      <4>1. head \in Nat /\ head' = head + 1 /\ pc # "neighbors"
        BY <2>1 DEF PathInv, PathTypeOK
      <4>2. k # head'
        <5>1. ~ (j < 1)
          OBVIOUS
        <5> QED
          BY <5>1
      <4> QED
        BY <4>1, <4>2
    <3> QED
      BY <3>1 DEF PathInv, PathExpanded
  <2> QED
    BY <2>2, <2>3 DEF PathInv
<1>2. CASE PATH!Explore
  BY <1>2, PathExplore
<1>3. CASE PATH!Explored
  <2>1. /\ pc = "neighbors" /\ i > Len(adj[curr]) /\ pc' = "loop"
        /\ UNCHANGED <<adj, start, end, queue, head, visited, parent, curr, i>>
    BY <1>3 DEF PATH!Explored
  <2>2. PathExpanded'
    <3> SUFFICES ASSUME NEW k \in 1..head, NEW j \in 1..Len(adj[queue[k]])
                 PROVE  adj[queue[k]][j] \in visited
      BY <2>1 DEF PathExpanded
    <3>1. k = head => j < i
      <4>1. k = head => j <= Len(adj[curr])
        BY <2>1 DEF PathInv, PathExpanding
      <4>2. Len(adj[curr]) \in Nat /\ i \in Int
        BY DEF PathInv, PathTypeOK
      <4> QED
        BY <2>1, <4>1, <4>2
    <3> QED
      BY <3>1 DEF PathInv, PathExpanded
  <2> QED
    BY <2>1, <2>2 DEF PathInv, PathTypeOK, PathMarked, PathOnce, PathExpanding, PathOver
<1>4. CASE PATH!Solved
  <2>1. /\ pc = "loop" /\ pc' \in {"walk", "nopath"} /\ head = Len(queue) /\ curr' \in Nodes
        /\ UNCHANGED <<adj, start, end, queue, head, visited, parent, i>>
    BY <1>4 DEF PATH!Solved, PathInv, PathTypeOK
  <2>2. PathExpanded'
    BY <2>1 DEF PathInv, PathExpanded
  <2> QED
    BY <2>1, <2>2 DEF PathInv, PathTypeOK, PathMarked, PathOnce, PathExpanding, PathOver
<1>5. CASE PATH!Walk
  <2>1. /\ pc = "walk" /\ pc' \in {"walk", "found"} /\ curr' \in Nodes
        /\ UNCHANGED <<adj, start, end, queue, head, visited, parent, i>>
    BY <1>5 DEF PATH!Walk, PathInv, PathTypeOK
  <2>2. PathExpanded'
    BY <2>1 DEF PathInv, PathExpanded
  <2> QED
    BY <2>1, <2>2 DEF PathInv, PathTypeOK, PathMarked, PathOnce, PathExpanding, PathOver
<1>6. CASE UNCHANGED PATH!vars
  <2>1. PathExpanded'
    BY <1>6 DEF PATH!vars, PathInv, PathExpanded
  <2> QED
    BY <1>6, <2>1 DEF PATH!vars, PathInv, PathTypeOK, PathMarked, PathOnce, PathExpanding, PathOver
<1> QED
  BY <1>1, <1>2, <1>3, <1>4, <1>5, <1>6 DEF PATH!Next

-----------------------------------------------------------------------------

\* No node is queued twice, so the queue is no longer than the pool.
LEMMA PathRoom == PathInv => PATH!QueuedOnce /\ Len(queue) <= Capacity
<1> SUFFICES ASSUME PathInv PROVE PATH!QueuedOnce /\ Len(queue) <= Capacity
  OBVIOUS
<1>1. Range(queue) = visited
  <2>1. DOMAIN queue = 1..Len(queue)
    BY DEF PathInv, PathTypeOK
  <2> QED
    BY <2>1 DEF PathInv, PathMarked, Range
<1>2. Len(queue) = Cardinality(visited)
  BY DEF PathInv, PathOnce
<1>3. Cardinality(visited) <= Cardinality(Nodes)
  BY PoolAssumption, FS_Subset DEF PathInv, PathTypeOK
<1>4. Cardinality(Nodes) \in Nat /\ Cardinality(Nodes) <= Capacity /\ Len(queue) \in Nat /\ Capacity \in Nat
  BY PoolAssumption, FS_CardinalityType DEF PathInv, PathTypeOK
<1> QED
  BY <1>1, <1>2, <1>3, <1>4 DEF PATH!QueuedOnce, PATH!Range, Range, PATH!Cardinality, Cardinality

\* A node enters the queue once, when it is marked (bfs-solve-path-find.c 49-56), and
\* the array has a slot for each vertex: the queue macros, which do not look, never
\* leave it.
THEOREM PathQueuedOnce == PATH!Spec => [](PATH!QueuedOnce /\ Len(queue) <= Capacity)
BY PathRoom, PathInitInv, PathNextInv, PTL DEF PATH!Spec

\* Nothing leaves what is marked when the queue is empty.
LEMMA PathClosedWhenEmpty ==
  ASSUME PathInv, head = Len(queue), pc # "neighbors"
  PROVE  PathSearch!Closed(visited)
<1> SUFFICES ASSUME NEW n \in visited, NEW m \in PathSearch!Successors(n) PROVE m \in visited
  BY DEF PathSearch!Closed
<1>1. PICK k \in 1..Len(queue) : queue[k] = n
  BY DEF PathInv, PathMarked
<1>2. PICK j \in 1..Len(adj[n]) : adj[n][j] = m
  BY DEF PathSearch!Successors, PathSearch!Range, PathInv, PathTypeOK
<1> QED
  BY <1>1, <1>2 DEF PathInv, PathExpanded

\* The first states of solve are first states of a search,
LEMMA PathSearchInit == PATH!Init => PathSearch!Init
BY PoolAssumption, TraversalsAssumption DEF PATH!Init, PathSearch!Init, PathOver

\* and its steps steps of a search, or none.
LEMMA PathSearchNext == PathInv /\ [PATH!Next]_PATH!vars => [PathSearch!Next]_PathSearch!vars
<1> SUFFICES ASSUME PathInv, [PATH!Next]_PATH!vars PROVE [PathSearch!Next]_PathSearch!vars
  OBVIOUS
<1>1. CASE PATH!Explore
  <2>1. UNCHANGED <<adj, start, pc>> /\ ~ PathOver
    BY <1>1 DEF PATH!Explore, PathOver
  <2>2. adj[curr][i] \in PathSearch!Successors(curr)
    BY <1>1 DEF PATH!Explore, PathInv, PathTypeOK, PathSearch!Successors, PathSearch!Range
  <2>3. curr \in visited
    BY <1>1 DEF PATH!Explore, PathInv, PathTypeOK, PathExpanding, PathMarked
  <2>4. CASE visited' = visited
    BY <2>1, <2>4 DEF PathSearch!vars, PathOver
  <2>5. CASE adj[curr][i] \notin visited /\ visited' = visited \cup {adj[curr][i]}
    BY <2>1, <2>2, <2>3, <2>5 DEF PathSearch!Next, PathSearch!Mark, PathOver
  <2> QED
    BY <1>1, <2>4, <2>5, PathExplore
<1>2. CASE PATH!Solved
  <2>1. PathSearch!Closed(visited)
    BY <1>2, PathClosedWhenEmpty DEF PATH!Solved
  <2> QED
    BY <1>2, <2>1 DEF PATH!Solved, PathSearch!Next, PathSearch!Return, PathOver
<1>3. CASE PATH!Dequeue \/ PATH!Explored \/ PATH!Walk \/ UNCHANGED PATH!vars
  BY <1>3 DEF PATH!Dequeue, PATH!Explored, PATH!Walk, PATH!vars, PathSearch!vars, PathOver
<1> QED
  BY <1>1, <1>2, <1>3 DEF PATH!Next

\* The breadth-first search is a search: every step marks a neighbour of a marked node,
\* returns when there is no other, or marks nothing (bfs-solve-path-find.c 29-63).
THEOREM PathImplementsSearch == PATH!Spec => PathSearch!Spec
BY PathSearchInit, PathSearchNext, PathInitInv, PathNextInv, PTL DEF PATH!Spec, PathSearch!Spec

(***************************************************************************)
(* Why the path is a shortest one: there are numbers (dist) that count the *)
(* parents from each marked node back to the start, that do not decrease   *)
(* along the queue and exceed that of the node being expanded by one at    *)
(* most (PathLayers), so that no edge spans more than one of them; and the *)
(* walk back goes down them one by one (PathWalk).                         *)
(***************************************************************************)
PathLayers(dist) ==
  /\ dist[start] = 0
  /\ \A m \in visited \ {start} :
       parent[m] \in visited /\ m \in Range(adj[parent[m]]) /\ dist[m] = dist[parent[m]] + 1
  /\ \A j, k \in 1..Len(queue) : j <= k => dist[queue[j]] <= dist[queue[k]]
  /\ head > 0 => \A k \in 1..Len(queue) : dist[queue[k]] <= dist[queue[head]] + 1
  /\ head = 0 => Len(queue) = 1
  /\ \A k \in 1..head : \A j \in 1..Len(adj[queue[k]]) :
       (pc = "neighbors" /\ k = head => j < i) => dist[adj[queue[k]][j]] <= dist[queue[k]] + 1

\* path is a way from a node at a distance of base + 1, down to end.
PathDown(dist, base) ==
  /\ Len(path) + base = dist[end]
  /\ path # <<>> => path[Len(path)] = end
  /\ \A k \in 1..Len(path) : dist[path[k]] = base + k
  /\ \A k \in 1..(Len(path) - 1) : path[k + 1] \in Range(adj[path[k]])

\* reconstruct_path has followed the parents from end, a layer at each step, to curr.
PathWalk(dist) ==
  /\ path \in Seq(Nodes)
  /\ pc \in {"loop", "neighbors", "nopath"} => path = <<>>
  /\ pc = "nopath" => end \notin visited
  /\ pc = "walk" =>
       /\ end \in visited /\ curr \in visited
       /\ PathDown(dist, dist[curr])
       /\ path = <<>> => curr = end
       /\ path # <<>> => path[1] \in Range(adj[curr])
  /\ pc = "found" =>
       /\ end \in visited
       /\ PathDown(dist, -1)
       /\ path # <<>> /\ path[1] = start

\* The invariant with the layers: there is a distance for every node.
PathFullInv ==
  /\ PathInv
  /\ pc = "neighbors" => i <= Len(adj[curr]) + 1
  /\ \E dist \in [Nodes -> Nat] : PathLayers(dist) /\ PathWalk(dist)

\* The first layer is the start.
LEMMA PathFullInit == PATH!Init => PathFullInv
<1> SUFFICES ASSUME PATH!Init PROVE PathFullInv
  OBVIOUS
<1> DEFINE dist == [m \in Nodes |-> 0]
<1>1. start \in Nodes /\ Len(queue) = 1 /\ queue[1] = start /\ dist \in [Nodes -> Nat] /\ dist[start] = 0
  BY DEF PATH!Init
<1>2. PathLayers(dist)
  BY <1>1 DEF PATH!Init, PathLayers
<1>3. PathWalk(dist)
  BY DEF PATH!Init, PathWalk
<1>4. pc # "neighbors"
  BY DEF PATH!Init
<1> QED
  BY <1>1, <1>2, <1>3, <1>4, PathInitInv DEF PathFullInv

\* Taking a node leaves the layers as they are, and its number is the one that bounds.
LEMMA PathDequeueLayers ==
  ASSUME PathInv, PATH!Dequeue, NEW dist \in [Nodes -> Nat], PathLayers(dist)
  PROVE  PathLayers(dist)'
<1>1. /\ head' = head + 1 /\ head' \in 1..Len(queue) /\ i' = 1 /\ head \in Nat
      /\ pc = "loop" /\ pc' = "neighbors" /\ UNCHANGED <<adj, start, queue, visited, parent>>
  BY DEF PATH!Dequeue, PathInv, PathTypeOK
<1>2. \A k \in 1..Len(queue) : queue[k] \in Nodes /\ dist[queue[k]] \in Nat
  BY DEF PathInv, PathTypeOK
<1>3. \A k \in 1..Len(queue) : dist[queue[k]] <= dist[queue[head + 1]] + 1
  <2> TAKE k \in 1..Len(queue)
  <2>1. CASE head = 0
    <3>1. Len(queue) = 1 /\ head + 1 = 1
      BY <2>1 DEF PathLayers
    <3>2. k = 1
      BY <3>1
    <3> QED
      BY <1>2, <3>1, <3>2
  <2>2. CASE head > 0
    <3>1. head \in 1..Len(queue) /\ head + 1 \in 1..Len(queue)
      BY <1>1, <2>2
    <3>2. dist[queue[head]] <= dist[queue[head + 1]] /\ dist[queue[k]] <= dist[queue[head]] + 1
      BY <2>2, <3>1 DEF PathLayers
    <3> QED
      BY <1>2, <3>1, <3>2
  <2> QED
    BY <1>1, <2>1, <2>2
<1>4. ASSUME NEW k \in 1..(head + 1), NEW j \in 1..Len(adj[queue[k]]), k = head + 1 => j < 1
      PROVE  dist[adj[queue[k]][j]] <= dist[queue[k]] + 1
  BY <1>1, <1>4 DEF PathLayers
<1> QED
  BY <1>1, <1>3, <1>4 DEF PathLayers

\* A neighbour that is marked is in the queue, so at most one layer further on.
LEMMA PathSeenLayers ==
  ASSUME PathInv, PATH!Explore, adj[curr][i] \in visited,
         NEW dist \in [Nodes -> Nat], PathLayers(dist)
  PROVE  PathLayers(dist)'
<1>1. /\ i \in 1..Len(adj[curr]) /\ pc = "neighbors" /\ i' = i + 1
      /\ UNCHANGED <<adj, start, head, pc, queue, visited, parent>>
  BY DEF PATH!Explore, PathInv, PathTypeOK
<1>2. head \in 1..Len(queue) /\ curr = queue[head]
  BY <1>1 DEF PathInv, PathTypeOK, PathExpanding
<1>3. dist[adj[curr][i]] <= dist[curr] + 1
  <2>1. PICK k \in 1..Len(queue) : queue[k] = adj[curr][i]
    BY DEF PathInv, PathMarked
  <2> QED
    BY <1>2, <2>1 DEF PathLayers
<1>4. ASSUME NEW k \in 1..head, NEW j \in 1..Len(adj[queue[k]]), k = head => j < i + 1
      PROVE  dist[adj[queue[k]][j]] <= dist[queue[k]] + 1
  <2>1. CASE k = head /\ j = i
    BY <1>2, <1>3, <2>1
  <2>2. CASE k # head \/ j < i
    BY <2>2 DEF PathLayers
  <2> QED
    BY <1>1, <1>4, <2>1, <2>2
<1> QED
  BY <1>1, <1>4 DEF PathLayers

\* A neighbour that is marked now is one layer further on than the node expanded.
LEMMA PathMarkLayers ==
  ASSUME PathInv, PATH!Explore, adj[curr][i] \notin visited,
         NEW dist \in [Nodes -> Nat], PathLayers(dist),
         NEW d \in [Nodes -> Nat], d[adj[curr][i]] = dist[curr] + 1,
         \A m \in visited : d[m] = dist[m]
  PROVE  PathLayers(d)'
<1> DEFINE next == adj[curr][i]
<1>1. /\ i \in 1..Len(adj[curr]) /\ pc = "neighbors" /\ i' = i + 1 /\ next \in Nodes /\ curr \in Nodes
      /\ UNCHANGED <<adj, start, head, pc>>
      /\ queue' = Append(queue, next) /\ visited' = visited \cup {next}
      /\ parent' = [parent EXCEPT ![next] = curr]
  <2>1. /\ pc = "neighbors" /\ i' = i + 1 /\ i <= Len(adj[curr])
        /\ UNCHANGED <<adj, start, head, pc>>
        /\ queue' = Append(queue, next) /\ visited' = visited \cup {next}
        /\ parent' = [parent EXCEPT ![next] = curr]
    BY DEF PATH!Explore
  <2>2. curr \in Nodes /\ i \in Nat \ {0} /\ adj \in [Nodes -> Seq(Nodes)]
    BY DEF PathInv, PathTypeOK
  <2>3. adj[curr] \in Seq(Nodes) /\ i \in 1..Len(adj[curr])
    BY <2>1, <2>2
  <2>4. next \in Nodes
    BY <2>3
  <2> QED
    BY <2>1, <2>2, <2>3, <2>4
<1> HIDE DEF next
<1>2. head \in 1..Len(queue) /\ curr = queue[head] /\ curr \in visited /\ start \in visited
  <2>1. pc = "neighbors"
    BY <1>1
  <2>2. head \in 1..Len(queue) /\ curr = queue[head]
    BY <2>1 DEF PathInv, PathTypeOK, PathExpanding
  <2> QED
    BY <2>2 DEF PathInv, PathMarked
<1>3. /\ Len(queue) \in Nat /\ Len(queue') = Len(queue) + 1
      /\ \A k \in 1..Len(queue) : queue'[k] = queue[k]
      /\ queue'[Len(queue) + 1] = next
  <2>1. queue' = Append(queue, next) /\ next \in Nodes /\ queue \in Seq(Nodes)
    BY <1>1 DEF PathInv, PathTypeOK
  <2> QED
    BY <2>1
<1>4. /\ d \in [Nodes -> Nat] /\ d[next] = dist[curr] + 1
      /\ \A m \in visited : m \in Nodes /\ d[m] = dist[m] /\ dist[m] \in Nat
  <2>1. next \notin visited /\ visited \subseteq Nodes /\ d[next] = dist[curr] + 1
    BY DEF PathInv, PathTypeOK, next
  <2> QED
    BY <2>1
<1>5. \A k \in 1..Len(queue) : queue[k] \in visited
  BY DEF PathInv, PathMarked
<1>6. \A k \in 1..Len(queue) : d[queue'[k]] = dist[queue[k]] /\ dist[queue[k]] \in Nat
  BY <1>3, <1>4, <1>5
<1>7. \A k \in 1..Len(queue) : dist[queue[k]] <= dist[curr] + 1
  BY <1>2 DEF PathLayers
<1>8. d[start'] = 0
  BY <1>1, <1>2, <1>4 DEF PathLayers
<1>9. ASSUME NEW m \in visited' \ {start}
      PROVE  parent'[m] \in visited' /\ m \in Range(adj[parent'[m]]) /\ d[m] = d[parent'[m]] + 1
  <2>1. CASE m = next
    <3>1. parent'[m] = curr
      BY <1>1, <2>1 DEF PathInv, PathTypeOK
    <3>2. adj[curr] \in Seq(Nodes)
      BY <1>1 DEF PathInv, PathTypeOK
    <3>3. next \in Range(adj[curr])
      BY <1>1, <3>2 DEF Range, next
    <3> QED
      BY <1>1, <1>2, <1>4, <2>1, <3>1, <3>3
  <2>2. CASE m # next
    <3>1. m \in visited \ {start} /\ parent'[m] = parent[m]
      BY <1>1, <2>2 DEF PathInv, PathTypeOK
    <3>2. parent[m] \in visited /\ m \in Range(adj[parent[m]]) /\ dist[m] = dist[parent[m]] + 1
      BY <3>1 DEF PathLayers
    <3> QED
      BY <1>1, <1>4, <3>1, <3>2
  <2> QED
    BY <2>1, <2>2
<1>10. ASSUME NEW j \in 1..(Len(queue) + 1), NEW k \in 1..(Len(queue) + 1), j <= k
       PROVE  d[queue'[j]] <= d[queue'[k]]
  <2>1. CASE k \in 1..Len(queue)
    <3>1. j \in 1..Len(queue)
      BY <1>3, <1>10, <2>1
    <3> QED
      BY <1>6, <1>10, <2>1, <3>1 DEF PathLayers
  <2>2. CASE k = Len(queue) + 1
    <3>1. CASE j = Len(queue) + 1
      BY <1>2, <1>3, <1>4, <2>2, <3>1
    <3>2. CASE j \in 1..Len(queue)
      BY <1>3, <1>4, <1>6, <1>7, <2>2, <3>2
    <3> QED
      BY <1>3, <3>1, <3>2
  <2> QED
    BY <1>3, <2>1, <2>2
<1>11. ASSUME NEW k \in 1..(Len(queue) + 1)
       PROVE  d[queue'[k]] <= d[queue'[head]] + 1
  <2>1. d[queue'[head]] = dist[curr]
    BY <1>2, <1>6
  <2>2. CASE k = Len(queue) + 1
    BY <1>2, <1>3, <1>4, <2>1, <2>2
  <2>3. CASE k \in 1..Len(queue)
    BY <1>2, <1>4, <1>6, <1>7, <2>1, <2>3
  <2> QED
    BY <1>3, <2>2, <2>3
<1>12. ASSUME NEW k \in 1..head, NEW j \in 1..Len(adj[queue[k]]), k = head => j < i + 1
       PROVE  d[adj[queue[k]][j]] <= d[queue[k]] + 1
  <2>0. k \in 1..Len(queue) /\ queue[k] \in visited
    BY <1>2, <1>3, <1>5
  <2>1. CASE k = head /\ j = i
    BY <1>2, <1>4, <2>1 DEF next
  <2>2. CASE k # head \/ j < i
    <3>1. adj[queue[k]][j] \in visited
      BY <1>1, <2>2 DEF PathInv, PathExpanded
    <3>2. dist[adj[queue[k]][j]] <= dist[queue[k]] + 1
      BY <2>2 DEF PathLayers
    <3> QED
      BY <1>4, <2>0, <3>1, <3>2
  <2> QED
    BY <1>1, <1>12, <2>1, <2>2
<1>13. \A k \in 1..head : queue'[k] = queue[k]
  BY <1>2, <1>3
<1>15. \A m \in visited' \ {start'} :
          parent'[m] \in visited' /\ m \in Range(adj'[parent'[m]]) /\ d[m] = d[parent'[m]] + 1
  BY <1>1, <1>9
<1>16. /\ \A j, k \in 1..Len(queue') : j <= k => d[queue'[j]] <= d[queue'[k]]
       /\ \A k \in 1..Len(queue') : d[queue'[k]] <= d[queue'[head']] + 1
       /\ head' > 0 /\ head' # 0
  <2>1. head' = head /\ Len(queue') = Len(queue) + 1
    BY <1>1, <1>2, <1>3
  <2>2. head > 0 /\ head # 0
    BY <1>1, <1>2, <1>3
  <2> QED
    BY <1>10, <1>11, <2>1, <2>2
<1>14. \A k \in 1..head' : \A j \in 1..Len(adj'[queue'[k]]) :
         (pc' = "neighbors" /\ k = head' => j < i') => d[adj'[queue'[k]][j]] <= d[queue'[k]] + 1
  BY <1>1, <1>12, <1>13
<1> QED
  BY <1>4, <1>8, <1>14, <1>15, <1>16 DEF PathLayers

\* Until the end, nothing is written to path.
LEMMA PathQuietWalk ==
  ASSUME NEW dist, NEW d, PathWalk(dist), pc \in {"loop", "neighbors"}, pc' \in {"loop", "neighbors"}, path' = path
  PROVE  PathWalk(d)'
BY DEF PathWalk

\* The walk begins at end, when the queue has emptied.
LEMMA PathSolvedWalk ==
  ASSUME PathInv, PATH!Solved, NEW dist \in [Nodes -> Nat], PathWalk(dist)
  PROVE  PathWalk(dist)'
<1>1. /\ path = <<>> /\ curr' = end /\ pc' = (IF end \in visited THEN "walk" ELSE "nopath")
      /\ UNCHANGED <<adj, start, end, visited, path>> /\ end \in Nodes
  BY DEF PATH!Solved, PathWalk, PathInv, PathTypeOK
<1>2. CASE end \in visited
  <2>1. PathDown(dist, dist[end])'
    BY <1>1 DEF PathDown
  <2> QED
    BY <1>1, <1>2, <2>1 DEF PathWalk
<1>3. CASE end \notin visited
  BY <1>1, <1>3 DEF PathWalk
<1> QED
  BY <1>2, <1>3

\* One step back, to the parent: down one layer; the start, and no other node, is at the
\* bottom.
LEMMA PathWalkBack ==
  ASSUME PathInv, PATH!Walk, NEW dist \in [Nodes -> Nat], PathLayers(dist), PathWalk(dist)
  PROVE  PathWalk(dist)'
<1>1. /\ pc = "walk" /\ path' = <<curr>> \o path /\ UNCHANGED <<adj, start, end, visited, parent>>
      /\ path \in Seq(Nodes) /\ curr \in visited /\ curr \in Nodes /\ end \in visited /\ end \in Nodes
      /\ PathDown(dist, dist[curr])
      /\ dist[curr] \in Nat /\ Len(path) \in Nat
  BY DEF PATH!Walk, PathWalk, PathInv, PathTypeOK
<1>2. /\ path' \in Seq(Nodes) /\ Len(path') = Len(path) + 1 /\ path'[1] = curr
      /\ \A k \in 1..Len(path) : path'[k + 1] = path[k]
  BY <1>1
<1>3. path' # <<>> /\ path'[Len(path')] = end
  <2>1. CASE path = <<>>
    BY <1>1, <1>2, <2>1 DEF PathWalk
  <2>2. CASE path # <<>>
    <3>1. Len(path) \in 1..Len(path)
      BY <1>1, <2>2
    <3> QED
      BY <1>1, <1>2, <2>2, <3>1 DEF PathDown
  <2> QED
    BY <2>1, <2>2
<1>4. ASSUME NEW k \in 1..Len(path)
      PROVE  path'[k + 1] \in Range(adj[path'[k]])
  <2>1. CASE k = 1
    <3>1. path # <<>> /\ path[1] \in Range(adj[curr])
      BY <1>1, <2>1 DEF PathWalk
    <3> QED
      BY <1>2, <2>1, <3>1
  <2>2. CASE k # 1
    <3>1. k - 1 \in 1..(Len(path) - 1) /\ k - 1 \in 1..Len(path) /\ (k - 1) + 1 = k
      BY <1>1, <2>2
    <3>2. path[k] \in Range(adj[path[k - 1]])
      BY <1>1, <3>1 DEF PathDown
    <3>3. path'[k] = path[k - 1] /\ path'[k + 1] = path[k]
      BY <1>2, <3>1
    <3> QED
      BY <3>2, <3>3
  <2> QED
    BY <2>1, <2>2
<1>5. ASSUME NEW k \in 1..(Len(path) + 1)
      PROVE  dist[path'[k]] = (dist[curr] - 1) + k
  <2>1. CASE k = 1
    BY <1>1, <1>2, <2>1
  <2>2. CASE k # 1
    <3>1. k - 1 \in 1..Len(path) /\ (k - 1) + 1 = k
      BY <1>1, <2>2
    <3>2. path'[k] = path[k - 1] /\ dist[path[k - 1]] = dist[curr] + (k - 1)
      BY <1>1, <1>2, <3>1 DEF PathDown
    <3> QED
      BY <1>1, <3>2
  <2> QED
    BY <2>1, <2>2
<1>6. Len(path') + (dist[curr] - 1) = dist[end]
  <2>1. Len(path) + dist[curr] = dist[end]
    BY <1>1 DEF PathDown
  <2> QED
    BY <1>1, <1>2, <2>1
<1>7. \A k \in 1..(Len(path') - 1) : path'[k + 1] \in Range(adj'[path'[k]])
  <2>1. Len(path') - 1 = Len(path)
    BY <1>1, <1>2
  <2> QED
    BY <1>1, <1>4, <2>1
<1>11. PICK base : base = dist[curr] - 1
  OBVIOUS
<1>8. PathDown(dist, base)'
  BY <1>1, <1>2, <1>3, <1>5, <1>6, <1>7, <1>11 DEF PathDown
<1>9. CASE curr = start
  <2>1. pc' = "found" /\ base = -1
    BY <1>9, <1>11 DEF PATH!Walk, PathLayers
  <2> QED
    BY <1>1, <1>2, <1>3, <1>8, <1>9, <2>1 DEF PathWalk
<1>10. CASE curr # start
  <2>1. pc' = "walk" /\ curr' = parent[curr]
    BY <1>1, <1>10 DEF PATH!Walk
  <2>2. /\ parent[curr] \in visited /\ curr \in Range(adj[parent[curr]])
        /\ dist[curr] = dist[parent[curr]] + 1
    BY <1>1, <1>10 DEF PathLayers
  <2>3. base = dist[curr']
    <3>1. parent[curr] \in Nodes /\ dist[parent[curr]] \in Nat
      BY <2>2 DEF PathInv, PathTypeOK
    <3> QED
      BY <1>11, <2>1, <2>2, <3>1
  <2>4. PathDown(dist, dist[curr])'
    BY <1>8, <2>3 DEF PathDown
  <2> QED
    BY <1>1, <1>2, <1>3, <2>1, <2>2, <2>4 DEF PathWalk
<1> QED
  BY <1>9, <1>10

\* Every step keeps it; only Explore changes the distances, of the node it marks.
LEMMA PathFullNext == PathFullInv /\ [PATH!Next]_PATH!vars => PathFullInv'
<1> SUFFICES ASSUME PathFullInv, [PATH!Next]_PATH!vars PROVE PathFullInv'
  OBVIOUS
<1>1. PathInv /\ PathInv'
  BY PathNextInv DEF PathFullInv
<1>2. PICK dist \in [Nodes -> Nat] : PathLayers(dist) /\ PathWalk(dist)
  BY DEF PathFullInv
<1>3. CASE PATH!Dequeue
  <2>1. PathLayers(dist)'
    BY <1>1, <1>2, <1>3, PathDequeueLayers
  <2>2. PathWalk(dist)'
    BY <1>2, <1>3, PathQuietWalk DEF PATH!Dequeue
  <2>3. i' = 1 /\ curr' \in Nodes /\ adj' \in [Nodes -> Seq(Nodes)]
    BY <1>1, <1>3 DEF PATH!Dequeue, PathInv, PathTypeOK
  <2>4. i' <= Len(adj'[curr']) + 1
    BY <2>3
  <2> QED
    BY <1>1, <2>1, <2>2, <2>4 DEF PathFullInv
<1>4. CASE PATH!Explore
  <2>1. i' <= Len(adj'[curr']) + 1
    <3>1. i \in 1..Len(adj[curr]) /\ i' = i + 1 /\ adj' = adj /\ curr' = curr
      BY <1>1, <1>4 DEF PATH!Explore, PathInv, PathTypeOK
    <3> QED
      BY <3>1
  <2>2. CASE adj[curr][i] \in visited
    <3>1. PathLayers(dist)'
      BY <1>1, <1>2, <1>4, <2>2, PathSeenLayers
    <3>2. PathWalk(dist)'
      BY <1>2, <1>4, PathQuietWalk DEF PATH!Explore
    <3> QED
      BY <1>1, <2>1, <3>1, <3>2 DEF PathFullInv
  <2>3. CASE adj[curr][i] \notin visited
    <3>1. PICK d \in [Nodes -> Nat] : d[adj[curr][i]] = dist[curr] + 1 /\ \A m \in visited : d[m] = dist[m]
      <4>1. curr \in Nodes /\ i \in 1..Len(adj[curr]) /\ visited \subseteq Nodes /\ adj \in [Nodes -> Seq(Nodes)]
        <5>1. PathTypeOK
          BY <1>1 DEF PathInv
        <5>2. i <= Len(adj[curr])
          BY <1>4 DEF PATH!Explore
        <5>3. adj[curr] \in Seq(Nodes) /\ i \in Nat \ {0}
          BY <5>1 DEF PathTypeOK
        <5>4. i \in 1..Len(adj[curr])
          BY <5>2, <5>3
        <5> QED
          BY <5>1, <5>4 DEF PathTypeOK
      <4>2. adj[curr][i] \in Nodes /\ dist[curr] + 1 \in Nat
        BY <4>1
      <4> DEFINE e == [dist EXCEPT ![adj[curr][i]] = dist[curr] + 1]
      <4>3. e \in [Nodes -> Nat] /\ e[adj[curr][i]] = dist[curr] + 1
        BY <4>2
      <4>4. \A m \in visited : e[m] = dist[m]
        BY <2>3, <4>1
      <4> HIDE DEF e
      <4> QED
        BY <4>3, <4>4
    <3>2. PathLayers(d)'
      BY <1>1, <1>2, <1>4, <2>3, <3>1, PathMarkLayers
    <3>3. PathWalk(d)'
      BY <1>2, <1>4, PathQuietWalk DEF PATH!Explore
    <3> QED
      BY <1>1, <2>1, <3>2, <3>3 DEF PathFullInv
  <2> QED
    BY <2>2, <2>3
<1>5. CASE PATH!Explored
  <2>1. /\ pc = "neighbors" /\ i > Len(adj[curr]) /\ pc' = "loop"
        /\ UNCHANGED <<adj, start, end, queue, head, visited, parent, curr, i, path>>
    BY <1>5 DEF PATH!Explored
  <2>2. ASSUME NEW k \in 1..head, NEW j \in 1..Len(adj[queue[k]])
        PROVE  dist[adj[queue[k]][j]] <= dist[queue[k]] + 1
    <3>1. i \in Nat /\ k = head => curr = queue[k]
      BY <1>1, <2>1 DEF PathInv, PathExpanding
    <3>2. k = head => j < i
      <4> SUFFICES ASSUME k = head PROVE j < i
        OBVIOUS
      <4>1. i \in Nat /\ j \in Nat /\ Len(adj[curr]) \in Nat /\ j <= Len(adj[curr])
        <5>1. adj[curr] \in Seq(Nodes) /\ i \in Nat /\ curr = queue[k]
          BY <1>1, <3>1 DEF PathInv, PathTypeOK
        <5>2. Len(adj[curr]) \in Nat /\ j \in 1..Len(adj[curr])
          BY <5>1
        <5> QED
          BY <5>1, <5>2
      <4> QED
        BY <2>1, <4>1
    <3> QED
      BY <1>2, <3>2 DEF PathLayers
  <2>3. PathLayers(dist)'
    BY <1>2, <2>1, <2>2 DEF PathLayers
  <2>4. PathWalk(dist)'
    BY <1>2, <2>1, PathQuietWalk
  <2> QED
    BY <1>1, <2>1, <2>3, <2>4 DEF PathFullInv
<1>6. CASE PATH!Solved
  <2>1. pc = "loop" /\ pc' # "neighbors" /\ UNCHANGED <<adj, start, queue, head, visited, parent, i>>
    BY <1>6 DEF PATH!Solved
  <2>2. PathLayers(dist)'
    BY <1>2, <2>1 DEF PathLayers
  <2>3. PathWalk(dist)'
    BY <1>1, <1>2, <1>6, PathSolvedWalk
  <2> QED
    BY <1>1, <2>1, <2>2, <2>3 DEF PathFullInv
<1>7. CASE PATH!Walk
  <2>1. pc = "walk" /\ pc' # "neighbors" /\ UNCHANGED <<adj, start, queue, head, visited, parent, i>>
    BY <1>7 DEF PATH!Walk
  <2>2. PathLayers(dist)'
    BY <1>2, <2>1 DEF PathLayers
  <2>3. PathWalk(dist)'
    BY <1>1, <1>2, <1>7, PathWalkBack
  <2> QED
    BY <1>1, <2>1, <2>2, <2>3 DEF PathFullInv
<1>8. CASE UNCHANGED PATH!vars
  <2>1. UNCHANGED <<adj, start, end, queue, head, visited, parent, curr, i, path, pc>>
    BY <1>8 DEF PATH!vars
  <2>2. PathLayers(dist)' /\ PathWalk(dist)'
    BY <1>2, <2>1 DEF PathLayers, PathWalk, PathDown
  <2> QED
    BY <1>1, <2>1, <2>2 DEF PathFullInv
<1> QED
  BY <1>3, <1>4, <1>5, <1>6, <1>7, <1>8 DEF PATH!Next

\* When the search is over, what can be reached in d steps has been given a number of d
\* at most.
LEMMA PathNear ==
  ASSUME PathInv, head = Len(queue), pc # "neighbors", NEW dist \in [Nodes -> Nat], PathLayers(dist)
  PROVE  \A d \in Nat : \A m \in Within(adj, start, d) : m \in visited /\ dist[m] <= d
<1> DEFINE Far == { d \in Nat : ~ \A m \in Within(adj, start, d) : m \in visited /\ dist[m] <= d }
<1> SUFFICES ASSUME Far # {} PROVE FALSE
  OBVIOUS
<1>1. PICK d \in Far : \A k \in Far : d <= k
  <2>1. Far \in SUBSET Nat /\ Far # {}
    OBVIOUS
  <2> HIDE DEF Far
  <2> QED
    BY <2>1, Least
<1>2. CASE d = 0
  <2>1. Within(adj, start, d) = {start} /\ start \in visited /\ dist[start] = 0
    BY <1>2, WithinSteps DEF PathLayers, PathInv, PathMarked
  <2> QED
    BY <1>2, <2>1
<1>3. CASE d # 0
  <2>1. d - 1 \in Nat /\ (d - 1) + 1 = d /\ ~ (d <= d - 1)
    BY <1>3
  <2>2. \A m \in Within(adj, start, d - 1) : m \in visited /\ dist[m] <= d - 1
    BY <1>1, <2>1
  <2>3. Within(adj, start, d) = Beyond(adj, Within(adj, start, d - 1))
    <3> HIDE DEF Far
    <3>1. \A k \in Nat : Within(adj, start, k + 1) = Beyond(adj, Within(adj, start, k))
      BY WithinSteps
    <3> QED
      BY <2>1, <3>1
  <2>4. ASSUME NEW m \in Within(adj, start, d) PROVE m \in visited /\ dist[m] <= d
    <3>1. CASE m \in Within(adj, start, d - 1)
      <4>1. m \in visited /\ dist[m] <= d - 1 /\ m \in Nodes
        BY <2>2, <3>1 DEF PathInv, PathTypeOK
      <4> QED
        BY <2>1, <4>1
    <3>2. CASE m \notin Within(adj, start, d - 1)
      <4>1. PICK n \in Within(adj, start, d - 1) : m \in Range(adj[n])
        BY <2>3, <2>4, <3>2 DEF Beyond
      <4>2. n \in visited /\ dist[n] <= d - 1 /\ n \in Nodes
        BY <2>2, <4>1 DEF PathInv, PathTypeOK
      <4>3. PICK k \in 1..Len(queue) : queue[k] = n
        BY <4>2 DEF PathInv, PathMarked
      <4>4. PICK j \in 1..Len(adj[n]) : adj[n][j] = m
        <5>1. adj[n] \in Seq(Nodes)
          BY <4>2 DEF PathInv, PathTypeOK
        <5>2. DOMAIN adj[n] = 1..Len(adj[n])
          BY <5>1
        <5> QED
          BY <4>1, <5>2 DEF Range
      <4>5. m \in visited /\ dist[m] <= dist[n] + 1
        BY <4>3, <4>4 DEF PathInv, PathExpanded, PathLayers
      <4>6. m \in Nodes
        BY <4>5 DEF PathInv, PathTypeOK
      <4> QED
        BY <2>1, <4>2, <4>5, <4>6
    <3> QED
      BY <3>1, <3>2
  <2> QED
    BY <1>1, <2>4
<1> QED
  BY <1>2, <1>3

\* What the layers mean at the end: the distance of a node is that of Within.
LEMMA PathShortest ==
  ASSUME PathFullInv PROVE PATH!ShortestPath
<1>1. PICK dist \in [Nodes -> Nat] : PathLayers(dist) /\ PathWalk(dist)
  BY DEF PathFullInv
<1>2. PathInv
  BY DEF PathFullInv
<1>3. \A S : PATH!Range(S) = Range(S)
  BY DEF Range, PATH!Range
<1>4. \A m, d : PATH!Within(adj, m, d) = Within(adj, m, d)
  BY DEF PATH!Within, Within, Range, PATH!Range
<1>5. ASSUME pc \in {"found", "nopath"}
      PROVE  \A d \in Nat : \A m \in Within(adj, start, d) : m \in visited /\ dist[m] <= d
  <2>1. head = Len(queue) /\ pc # "neighbors"
    BY <1>2, <1>5 DEF PathInv, PathOver
  <2> QED
    BY <1>1, <1>2, <2>1, PathNear
<1>6. ASSUME pc = "found"
      PROVE  /\ PATH!IsPath(path) /\ path[1] = start /\ path[Len(path)] = end
             /\ Len(path) > 1 => end \notin PATH!Within(adj, start, Len(path) - 2)
  <2>1. /\ path \in Seq(Nodes) /\ path # <<>> /\ path[1] = start /\ PathDown(dist, -1)
    BY <1>1, <1>6 DEF PathWalk
  <2>2. Len(path) \in Nat \ {0} /\ end \in Nodes
    BY <1>2, <2>1 DEF PathInv, PathTypeOK
  <2>3. PATH!IsPath(path)
    BY <1>3, <2>1, <2>2 DEF PATH!IsPath, PathDown
  <2>4. path[Len(path)] = end /\ Len(path) - 1 = dist[end]
    BY <2>1, <2>2 DEF PathDown
  <2>5. ASSUME Len(path) > 1, end \in Within(adj, start, Len(path) - 2) PROVE FALSE
    <3>1. Len(path) - 2 \in Nat /\ dist[end] <= Len(path) - 2
      BY <1>5, <1>6, <2>2, <2>5
    <3> QED
      BY <2>2, <2>4, <3>1
  <2> QED
    BY <1>4, <2>1, <2>3, <2>4, <2>5
<1>7. ASSUME pc = "nopath" PROVE end \notin PATH!Within(adj, start, PATH!Cardinality(Nodes))
  <2>1. PATH!Cardinality(Nodes) = Cardinality(Nodes)
    BY DEF Cardinality, PATH!Cardinality
  <2>2. Cardinality(Nodes) \in Nat
    BY PoolAssumption, FS_CardinalityType
  <2>3. end \notin visited
    BY <1>1, <1>7 DEF PathWalk
  <2> QED
    BY <1>4, <1>5, <1>7, <2>1, <2>2, <2>3
<1> QED
  BY <1>6, <1>7 DEF PATH!ShortestPath

\* The nodes of the path are apart, being in layers of their own.
LEMMA PathTyped ==
  ASSUME PathFullInv PROVE PATH!TypeOK
<1>1. PICK dist \in [Nodes -> Nat] : PathLayers(dist) /\ PathWalk(dist)
  BY DEF PathFullInv
<1>2. PathInv /\ PathTypeOK
  BY DEF PathFullInv, PathInv
<1>3. path \in Seq(Nodes) /\ Len(path) \in Nat
  BY <1>1 DEF PathWalk
<1>4. \E base \in Int : \A k \in 1..Len(path) : dist[path[k]] = base + k
  <2>1. CASE pc = "walk"
    <3>1. dist[curr] \in Int
      BY <1>1, <1>2 DEF PathTypeOK
    <3> QED
      BY <1>1, <2>1, <3>1 DEF PathWalk, PathDown
  <2>2. CASE pc = "found"
    <3>1. -1 \in Int /\ \A k \in 1..Len(path) : dist[path[k]] = -1 + k
      BY <1>1, <2>2 DEF PathWalk, PathDown
    <3> QED
      BY <3>1
  <2>3. CASE pc \notin {"walk", "found"}
    <3>1. Len(path) = 0
      BY <1>1, <1>2, <2>3 DEF PathWalk, PathTypeOK
    <3>2. 0 \in Int /\ \A k \in 1..Len(path) : dist[path[k]] = 0 + k
      BY <3>1
    <3> QED
      BY <3>2
  <2> QED
    BY <2>1, <2>2, <2>3
<1>5. Len(path) <= Cardinality(Nodes)
  <2>1. path \in Injection(1..Len(path), Nodes)
    <3>1. \A j, k \in 1..Len(path) : path[j] = path[k] => j = k
      BY <1>3, <1>4
    <3>2. path \in [1..Len(path) -> Nodes]
      BY <1>3
    <3> QED
      BY <3>1, <3>2 DEF Injection, IsInjective
  <2>2. Cardinality(1..Len(path)) = Len(path)
    BY <1>3, FirstNumbers
  <2> QED
    BY <2>1, <2>2, FS_Injection, PoolAssumption
<1>6. Len(queue) <= Capacity
  <2>1. Len(queue) = Cardinality(visited) /\ Cardinality(visited) <= Cardinality(Nodes)
    BY <1>2, PoolAssumption, FS_Subset DEF PathInv, PathOnce, PathTypeOK
  <2>2. Cardinality(Nodes) \in Nat /\ Cardinality(Nodes) <= Capacity /\ Len(queue) \in Nat /\ Capacity \in Nat
    BY <1>2, PoolAssumption, FS_CardinalityType DEF PathTypeOK
  <2> QED
    BY <2>1, <2>2
<1>7. i \in 1..(Len(adj[curr]) + 1) \/ pc \in {"loop", "walk", "found", "nopath"}
  <2>1. pc = "neighbors" => i <= Len(adj[curr]) + 1
    BY DEF PathFullInv
  <2>2. adj[curr] \in Seq(Nodes) /\ i \in Nat \ {0}
    BY <1>2 DEF PathTypeOK
  <2> QED
    BY <1>2, <2>1, <2>2 DEF PathTypeOK
<1>8. PATH!Cardinality(Nodes) = Cardinality(Nodes)
  BY DEF Cardinality, PATH!Cardinality
<1> QED
  BY <1>2, <1>5, <1>6, <1>7, <1>8 DEF PATH!TypeOK, PathTypeOK

\* The path bfs-solve-path-find.c prints (66-97) is a path of the graph from start to end,
\* no path is shorter, and none is printed only when there is none.
THEOREM PathIsShortest == PATH!Spec => []PATH!ShortestPath
BY PathShortest, PathFullInit, PathFullNext, PTL DEF PATH!Spec

-----------------------------------------------------------------------------
(* dfs.c *)

\* dfs is over when the first call has returned.
DfsOver == pc = "done"

\* dfs is a search; its start counts as marked before the first call marks it.
DfsSearch == INSTANCE Search WITH marked <- visited \cup {start}, over <- DfsOver

\* A running call: its node and the place of its loop.
Frame == [node : Nodes, i : Nat \ {0}]

(***************************************************************************)
(* The invariant.  A neighbour of a marked node is marked, or the loop of  *)
(* a running call has yet to come to it (DfsPending).                      *)
(***************************************************************************)
DfsTypeOK ==
  /\ adj \in [Nodes -> Seq(Nodes)]
  /\ start \in Nodes
  /\ visited \subseteq Nodes
  /\ stack \in Seq(Frame)
  /\ pc \in {"call", "run", "done"}

\* A call marks its node before anything else.
DfsEntered == \A k \in 1..Len(stack) : stack[k].node \in visited

\* What is left to do for the neighbours of marked nodes.
DfsPending ==
  \A n \in visited : \A j \in 1..Len(adj[n]) :
    adj[n][j] \in visited \/ \E k \in 1..Len(stack) : stack[k].node = n /\ stack[k].i <= j

\* Before the first call, and after its return.
DfsPhases ==
  /\ pc = "call" => visited = {} /\ stack = <<>>
  /\ pc # "call" => start \in visited
  /\ DfsOver => stack = <<>>

\* Together.
DfsInv == DfsTypeOK /\ DfsEntered /\ DfsPending /\ DfsPhases /\ DFS!StackIsSimplePath

\* It holds when dfs begins.
LEMMA DfsInitInv == DFS!Init => DfsInv
<1> SUFFICES ASSUME DFS!Init PROVE DfsInv
  OBVIOUS
<1>1. DfsTypeOK
  BY PoolAssumption, TraversalsAssumption DEF DFS!Init, DfsTypeOK
<1> QED
  BY <1>1 DEF DFS!Init, DfsInv, DfsEntered, DfsPending, DfsPhases, DFS!StackIsSimplePath, DfsOver

\* The first call.
LEMMA DfsCallInv ==
  ASSUME DfsInv, DFS!Call
  PROVE  DfsInv' /\ visited' = {start}
<1>1. /\ pc = "call" /\ visited = {} /\ pc' = "run" /\ UNCHANGED <<adj, start>>
  BY DEF DFS!Call, DfsInv, DfsPhases
<1>2. visited' = {start} /\ stack' = <<[node |-> start, i |-> 1]>>
  BY <1>1 DEF DFS!Call, DFS!Enter
<1>3. Len(stack') = 1 /\ stack'[1] = [node |-> start, i |-> 1]
  BY <1>2
<1>4. DfsTypeOK'
  BY <1>1, <1>2 DEF DfsInv, DfsTypeOK, Frame
<1>5. DfsEntered' /\ DfsPhases' /\ DFS!StackIsSimplePath'
  BY <1>1, <1>2, <1>3 DEF DfsEntered, DfsPhases, DFS!StackIsSimplePath, DfsOver
<1>6. DfsPending'
  BY <1>1, <1>2, <1>3 DEF DfsPending, DfsInv, DfsTypeOK
<1> QED
  BY <1>2, <1>4, <1>5, <1>6 DEF DfsInv

\* What a turn of the loop of the innermost call looks at, and the calls with that loop
\* one further.
DfsCallee == adj[DFS!Top.node][DFS!Top.i]

\* The calls when the loop of the innermost one has gone on.
DfsFrames == [stack EXCEPT ![Len(stack)] = [node |-> DFS!Top.node, i |-> DFS!Top.i + 1]]

\* What a turn of that loop does.
LEMMA DfsTurn ==
  ASSUME DfsInv, DFS!Recurse
  PROVE  /\ pc = "run" /\ Len(stack) \in Nat \ {0} /\ DFS!Top \in Frame /\ DFS!Top = stack[Len(stack)]
            /\ DFS!Top.i \in 1..Len(adj[DFS!Top.node]) /\ DfsCallee \in Nodes /\ DFS!Top.node \in visited
            /\ UNCHANGED <<adj, start, pc>>
         /\ DfsFrames \in Seq(Frame) /\ Len(DfsFrames) = Len(stack)
         /\ \A k \in 1..Len(stack) : /\ DfsFrames[k].node = stack[k].node
                                     /\ k # Len(stack) => DfsFrames[k].i = stack[k].i
         /\ DfsFrames[Len(stack)].i = DFS!Top.i + 1
         /\ \/ DfsCallee \in visited /\ stack' = DfsFrames /\ UNCHANGED <<visited, printed>>
            \/ /\ DfsCallee \notin visited /\ visited' = visited \cup {DfsCallee}
               /\ printed' = Append(printed, DfsCallee)
               /\ stack' = Append(DfsFrames, [node |-> DfsCallee, i |-> 1])
<1>1. /\ pc = "run" /\ Len(stack) \in Nat \ {0} /\ DFS!Top \in Frame /\ DFS!Top = stack[Len(stack)]
      /\ DFS!Top.i \in 1..Len(adj[DFS!Top.node]) /\ DfsCallee \in Nodes /\ DFS!Top.node \in visited
      /\ UNCHANGED <<adj, start, pc>>
  <2>1. /\ pc = "run" /\ Len(stack) \in Nat \ {0} /\ DFS!Top = stack[Len(stack)] /\ DFS!Top.i <= Len(adj[DFS!Top.node])
        /\ UNCHANGED <<adj, start, pc>>
    BY DEF DFS!Recurse, DFS!Top, DfsInv, DfsTypeOK
  <2>2. DFS!Top \in Frame /\ Len(stack) \in 1..Len(stack)
    BY <2>1 DEF DfsInv, DfsTypeOK
  <2>3. DFS!Top.node \in visited /\ DFS!Top.node \in Nodes /\ DFS!Top.i \in Nat \ {0}
    BY <2>1, <2>2 DEF DfsInv, DfsEntered, Frame
  <2>4. adj[DFS!Top.node] \in Seq(Nodes)
    BY <2>3 DEF DfsInv, DfsTypeOK
  <2>5. DFS!Top.i \in 1..Len(adj[DFS!Top.node])
    BY <2>1, <2>3, <2>4
  <2> QED
    BY <2>1, <2>2, <2>3, <2>4, <2>5 DEF DfsCallee
<1>2. /\ DfsFrames \in Seq(Frame) /\ Len(DfsFrames) = Len(stack)
      /\ \A k \in 1..Len(stack) : /\ DfsFrames[k].node = stack[k].node
                                  /\ k # Len(stack) => DfsFrames[k].i = stack[k].i
      /\ DfsFrames[Len(stack)].i = DFS!Top.i + 1
  <2>1. /\ stack \in Seq(Frame) /\ Len(stack) \in 1..Len(stack)
        /\ [node |-> DFS!Top.node, i |-> DFS!Top.i + 1] \in Frame
    BY <1>1 DEF Frame, DfsInv, DfsTypeOK
  <2>2. DfsFrames \in Seq(Frame) /\ Len(DfsFrames) = Len(stack)
    BY <2>1 DEF DfsFrames
  <2>3. DfsFrames[Len(stack)] = [node |-> DFS!Top.node, i |-> DFS!Top.i + 1]
    BY <2>1 DEF DfsFrames
  <2>4. \A k \in 1..Len(stack) : k # Len(stack) => DfsFrames[k] = stack[k]
    BY <2>1 DEF DfsFrames
  <2> QED
    BY <1>1, <2>2, <2>3, <2>4
<1>3. \/ DfsCallee \in visited /\ stack' = DfsFrames /\ UNCHANGED <<visited, printed>>
      \/ /\ DfsCallee \notin visited /\ visited' = visited \cup {DfsCallee}
         /\ printed' = Append(printed, DfsCallee)
         /\ stack' = Append(DfsFrames, [node |-> DfsCallee, i |-> 1])
  BY DEF DFS!Recurse, DFS!Enter, DfsCallee, DfsFrames
<1> QED
  BY <1>1, <1>2, <1>3

\* One turn of the loop of the innermost call: it looks at one neighbour, which has
\* been visited or is called.
LEMMA DfsRecurseInv ==
  ASSUME DfsInv, DFS!Recurse
  PROVE  /\ DfsInv' /\ pc # "call"
         /\ \/ visited' = visited
            \/ \E n \in visited : \E j \in 1..Len(adj[n]) :
                 adj[n][j] \notin visited /\ visited' = visited \cup {adj[n][j]}
<1> DEFINE last == Len(stack)
<1>1. /\ pc = "run" /\ last \in Nat \ {0} /\ DFS!Top \in Frame /\ DFS!Top = stack[last]
      /\ DFS!Top.i \in 1..Len(adj[DFS!Top.node]) /\ DfsCallee \in Nodes /\ DFS!Top.node \in visited
      /\ UNCHANGED <<adj, start, pc>>
  BY DfsTurn
<1>2. /\ DfsFrames \in Seq(Frame) /\ Len(DfsFrames) = Len(stack)
      /\ \A k \in 1..Len(stack) : /\ DfsFrames[k].node = stack[k].node
                                  /\ k # Len(stack) => DfsFrames[k].i = stack[k].i
      /\ DfsFrames[Len(stack)].i = DFS!Top.i + 1
  BY DfsTurn
<1>5. DfsCallee = adj[DFS!Top.node][DFS!Top.i]
  BY DEF DfsCallee
<1>3. CASE DfsCallee \in visited
  <2>1. stack' = DfsFrames /\ visited' = visited
    BY <1>3, DfsTurn
  <2>2. DfsTypeOK' /\ DfsPhases'
    BY <1>1, <1>2, <2>1 DEF DfsInv, DfsTypeOK, DfsPhases, DfsOver
  <2>3. DfsEntered'
    BY <1>1, <1>2, <2>1 DEF DfsInv, DfsEntered
  <2>4. DFS!StackIsSimplePath'
    <3>1. ASSUME NEW j \in 1..(last - 1)
          PROVE  DfsFrames[j + 1].node = adj[DfsFrames[j].node][DfsFrames[j].i - 1]
      <4>1. j \in 1..last /\ j + 1 \in 1..last /\ j # last
        BY <1>1
      <4>2. stack[j + 1].node = adj[stack[j].node][stack[j].i - 1]
        BY DEF DfsInv, DFS!StackIsSimplePath
      <4> QED
        BY <1>2, <4>1, <4>2
    <3>2. DfsFrames[1].node = start
      BY <1>1, <1>2 DEF DfsInv, DFS!StackIsSimplePath
    <3>3. \A j, k \in 1..last : j # k => DfsFrames[j].node # DfsFrames[k].node
      BY <1>2 DEF DfsInv, DFS!StackIsSimplePath
    <3> QED
      BY <1>1, <1>2, <2>1, <3>1, <3>2, <3>3 DEF DFS!StackIsSimplePath
  <2>5. DfsPending'
    <3> SUFFICES ASSUME NEW n \in visited, NEW j \in 1..Len(adj[n]), adj[n][j] \notin visited
                 PROVE  \E k \in 1..last : DfsFrames[k].node = n /\ DfsFrames[k].i <= j
      <4>1. visited' = visited /\ adj' = adj /\ stack' = DfsFrames /\ Len(stack') = last
        BY <1>1, <1>2, <2>1
      <4> HIDE DEF last
      <4> QED
        BY <4>1 DEF DfsPending
    <3>1. PICK k \in 1..last : stack[k].node = n /\ stack[k].i <= j
      BY DEF DfsInv, DfsPending
    <3>2. k = last => DFS!Top.i # j
      BY <1>1, <1>3, <1>5, <3>1
    <3>3. adj[n] \in Seq(Nodes) /\ j \in Nat /\ DFS!Top.i \in Nat
      BY <1>1 DEF DfsInv, DfsTypeOK
    <3>4. DfsFrames[k].node = n /\ DfsFrames[k].i <= j
      BY <1>1, <1>2, <3>1, <3>2, <3>3
    <3> QED
      BY <3>4
  <2> QED
    BY <1>1, <2>1, <2>2, <2>3, <2>4, <2>5 DEF DfsInv
<1>4. CASE DfsCallee \notin visited
  <2>1. stack' = Append(DfsFrames, [node |-> DfsCallee, i |-> 1]) /\ visited' = visited \cup {DfsCallee}
    BY <1>4, DfsTurn
  <2>2. /\ stack' \in Seq(Frame) /\ Len(stack') = last + 1
        /\ \A k \in 1..last : stack'[k] = DfsFrames[k]
        /\ stack'[last + 1].node = DfsCallee /\ stack'[last + 1].i = 1
    <3>1. [node |-> DfsCallee, i |-> 1] \in Frame
      BY <1>1 DEF Frame
    <3> HIDE DEF Frame
    <3> QED
      BY <1>1, <1>2, <2>1, <3>1
  <2>3. DfsTypeOK' /\ DfsPhases'
    BY <1>1, <2>1, <2>2 DEF DfsInv, DfsTypeOK, DfsPhases, DfsOver
  <2>4. DfsEntered'
    <3> SUFFICES ASSUME NEW k \in 1..(last + 1) PROVE stack'[k].node \in visited'
      BY <2>2 DEF DfsEntered
    <3>1. CASE k = last + 1
      BY <2>1, <2>2, <3>1
    <3>2. CASE k \in 1..last
      BY <1>2, <2>1, <2>2, <3>2 DEF DfsInv, DfsEntered
    <3> QED
      BY <1>1, <3>1, <3>2
  <2>5. DfsPending'
    <3> SUFFICES ASSUME NEW n \in visited', NEW j \in 1..Len(adj[n]), adj[n][j] \notin visited'
                 PROVE  \E k \in 1..(last + 1) : stack'[k].node = n /\ stack'[k].i <= j
      BY <1>1, <2>2 DEF DfsPending
    <3>1. CASE n = DfsCallee
      BY <1>1, <2>2, <3>1
    <3>2. CASE n \in visited
      <4>1. PICK k \in 1..last : stack[k].node = n /\ stack[k].i <= j
        BY <2>1, <3>2 DEF DfsInv, DfsPending
      <4>2. k = last => DFS!Top.i # j
        BY <1>1, <1>5, <2>1, <4>1
      <4>3. stack'[k].node = n /\ stack'[k].i <= j
        <5>1. adj[n] \in Seq(Nodes) /\ j \in Nat /\ DFS!Top.i \in Nat
          BY <1>1, <3>2 DEF DfsInv, DfsTypeOK
        <5> QED
          BY <1>1, <1>2, <2>2, <4>1, <4>2, <5>1
      <4> QED
        BY <1>1, <4>3
    <3> QED
      BY <2>1, <3>1, <3>2
  <2>6. DFS!StackIsSimplePath'
    <3>1. stack'[1].node = start
      BY <1>1, <1>2, <2>2 DEF DfsInv, DFS!StackIsSimplePath
    <3>2. ASSUME NEW j \in 1..last
          PROVE  stack'[j + 1].node = adj[stack'[j].node][stack'[j].i - 1]
      <4>1. CASE j = last
        <5>1. stack'[j].node = DFS!Top.node /\ stack'[j].i - 1 = DFS!Top.i
          BY <1>1, <1>2, <2>2, <4>1
        <5> QED
          BY <1>5, <2>2, <4>1, <5>1
      <4>2. CASE j \in 1..(last - 1)
        BY <1>1, <1>2, <2>2, <4>2 DEF DfsInv, DFS!StackIsSimplePath
      <4> QED
        BY <1>1, <4>1, <4>2
    <3>3. ASSUME NEW j \in 1..(last + 1), NEW k \in 1..(last + 1), j < k
          PROVE  stack'[j].node # stack'[k].node
      <4>1. j \in 1..last /\ stack'[j].node = stack[j].node
        BY <1>1, <1>2, <2>2, <3>3
      <4>2. CASE k = last + 1
        BY <1>4, <2>2, <4>1, <4>2 DEF DfsInv, DfsEntered
      <4>3. CASE k \in 1..last
        <5>1. stack'[k].node = stack[k].node /\ j # k
          BY <1>2, <2>2, <3>3, <4>3
        <5> QED
          BY <4>1, <4>3, <5>1 DEF DfsInv, DFS!StackIsSimplePath
      <4> QED
        BY <1>1, <4>2, <4>3
    <3>4. \A j, k \in 1..(last + 1) : j # k => stack'[j].node # stack'[k].node
      BY <1>1, <3>3
    <3>5. (last + 1) - 1 = last
      BY <1>1
    <3> QED
      BY <1>1, <2>2, <3>1, <3>2, <3>4, <3>5 DEF DFS!StackIsSimplePath
  <2>7. \E n \in visited : \E j \in 1..Len(adj[n]) :
          adj[n][j] \notin visited /\ visited' = visited \cup {adj[n][j]}
    BY <1>1, <1>4, <1>5, <2>1
  <2> QED
    BY <1>1, <2>3, <2>4, <2>5, <2>6, <2>7 DEF DfsInv
<1> QED
  BY <1>3, <1>4

\* A call that has come to the end of its loop has no neighbour pending.
LEMMA DfsLeaveInv ==
  ASSUME DfsInv, DFS!Leave
  PROVE  DfsInv'
<1> DEFINE last == Len(stack)
<1>1. /\ pc = "run" /\ last \in Nat \ {0} /\ DFS!Top = stack[last] /\ DFS!Top.i > Len(adj[DFS!Top.node])
      /\ DFS!Top.node \in Nodes /\ DFS!Top.i \in Nat
      /\ stack' = SubSeq(stack, 1, last - 1)
      /\ UNCHANGED <<adj, start, visited, pc>>
  <2>1. /\ pc = "run" /\ last \in Nat \ {0} /\ DFS!Top = stack[last] /\ DFS!Top.i > Len(adj[DFS!Top.node])
        /\ stack' = SubSeq(stack, 1, last - 1)
        /\ UNCHANGED <<adj, start, visited, pc>>
    BY DEF DFS!Leave, DFS!Top, DfsInv, DfsTypeOK
  <2>2. DFS!Top \in Frame
    BY <2>1 DEF DfsInv, DfsTypeOK
  <2> QED
    BY <2>1, <2>2 DEF Frame
<1>2. /\ stack' \in Seq(Frame) /\ Len(stack') = last - 1
      /\ \A k \in 1..(last - 1) : stack'[k] = stack[k]
  <2>1. stack \in Seq(Frame) /\ 1 \in Int /\ last - 1 \in Int
    BY <1>1 DEF DfsInv, DfsTypeOK
  <2>2. \A k \in 1..(last - 1) : stack[k] \in Frame
    BY <1>1, <2>1
  <2>3. /\ SubSeq(stack, 1, last - 1) \in Seq(Frame)
        /\ Len(SubSeq(stack, 1, last - 1)) = IF 1 <= last - 1 THEN (last - 1) - 1 + 1 ELSE 0
        /\ \A k \in 1..((last - 1) - 1 + 1) : SubSeq(stack, 1, last - 1)[k] = stack[1 + k - 1]
    BY <2>1, <2>2, SubSeqProperties
  <2>4. (last - 1) - 1 + 1 = last - 1 /\ \A k \in 1..(last - 1) : 1 + k - 1 = k
    BY <1>1
  <2>5. Len(stack') = last - 1
    BY <1>1, <2>3, <2>4
  <2>6. \A k \in 1..(last - 1) : stack'[k] = stack[k]
    BY <1>1, <2>3, <2>4
  <2> QED
    BY <1>1, <2>3, <2>5, <2>6
<1>3. DfsTypeOK' /\ DfsEntered' /\ DfsPhases' /\ DFS!StackIsSimplePath'
  <2>1. DfsTypeOK' /\ DfsPhases'
    BY <1>1, <1>2 DEF DfsInv, DfsTypeOK, DfsPhases, DfsOver
  <2>2. DfsEntered'
    BY <1>1, <1>2 DEF DfsInv, DfsEntered
  <2>3. DFS!StackIsSimplePath'
    <3>1. ASSUME NEW j \in 1..((last - 1) - 1)
          PROVE  stack'[j + 1].node = adj[stack'[j].node][stack'[j].i - 1]
      <4>1. j \in 1..(last - 1) /\ j + 1 \in 1..(last - 1)
        BY <1>1
      <4>2. stack[j + 1].node = adj[stack[j].node][stack[j].i - 1]
        BY <4>1 DEF DfsInv, DFS!StackIsSimplePath
      <4> QED
        BY <1>1, <1>2, <4>1, <4>2
    <3>2. last - 1 > 0 => stack'[1].node = start
      BY <1>1, <1>2 DEF DfsInv, DFS!StackIsSimplePath
    <3>3. \A j, k \in 1..(last - 1) : j # k => stack'[j].node # stack'[k].node
      BY <1>1, <1>2 DEF DfsInv, DFS!StackIsSimplePath
    <3> QED
      BY <1>1, <1>2, <3>1, <3>2, <3>3 DEF DFS!StackIsSimplePath
  <2> QED
    BY <2>1, <2>2, <2>3
<1>4. DfsPending'
  <2> SUFFICES ASSUME NEW n \in visited, NEW j \in 1..Len(adj[n]), adj[n][j] \notin visited
               PROVE  \E k \in 1..(last - 1) : stack'[k].node = n /\ stack'[k].i <= j
    <3>1. visited' = visited /\ adj' = adj /\ Len(stack') = last - 1
      BY <1>1, <1>2
    <3> HIDE DEF last
    <3> QED
      BY <3>1 DEF DfsPending
  <2>1. PICK k \in 1..last : stack[k].node = n /\ stack[k].i <= j
    BY DEF DfsInv, DfsPending
  <2>2. adj[n] \in Seq(Nodes)
    BY DEF DfsInv, DfsTypeOK
  <2>3. k # last
    BY <1>1, <2>1, <2>2
  <2>4. k \in 1..(last - 1)
    BY <1>1, <2>3
  <2> QED
    BY <1>2, <2>1, <2>4
<1> QED
  BY <1>3, <1>4 DEF DfsInv

\* Every step keeps the invariant.
LEMMA DfsNextInv == DfsInv /\ [DFS!Next]_DFS!vars => DfsInv'
<1> SUFFICES ASSUME DfsInv, [DFS!Next]_DFS!vars PROVE DfsInv'
  OBVIOUS
<1>1. CASE DFS!Return
  BY <1>1 DEF DFS!Return, DfsInv, DfsTypeOK, DfsEntered, DfsPending, DfsPhases, DFS!StackIsSimplePath, DfsOver
<1>2. CASE UNCHANGED DFS!vars
  BY <1>2 DEF DFS!vars, DfsInv, DfsTypeOK, DfsEntered, DfsPending, DfsPhases, DFS!StackIsSimplePath, DfsOver
<1> QED
  BY <1>1, <1>2, DfsCallInv, DfsRecurseInv, DfsLeaveInv DEF DFS!Next

-----------------------------------------------------------------------------

\* The calls are of different nodes, so there are no more of them than nodes.
LEMMA DfsDepth == DfsInv => DFS!StackIsSimplePath /\ Len(stack) <= Cardinality(Nodes)
<1> SUFFICES ASSUME DfsInv PROVE Len(stack) <= Cardinality(Nodes)
  BY DEF DfsInv
<1> DEFINE node == [k \in 1..Len(stack) |-> stack[k].node]
<1>1. node \in Injection(1..Len(stack), Nodes)
  <2>1. \A k \in 1..Len(stack) : stack[k].node \in Nodes
    <3> TAKE k \in 1..Len(stack)
    <3>1. stack[k] \in Frame
      BY DEF DfsInv, DfsTypeOK
    <3> QED
      BY <3>1 DEF Frame
  <2>2. \A j, k \in 1..Len(stack) : node[j] = node[k] => j = k
    BY DEF DfsInv, DFS!StackIsSimplePath
  <2> QED
    BY <2>1, <2>2 DEF Injection, IsInjective
<1>2. Len(stack) \in Nat
  BY DEF DfsInv, DfsTypeOK
<1>3. Cardinality(1..Len(stack)) = Len(stack)
  BY <1>2, FirstNumbers
<1> QED
  BY <1>1, <1>3, FS_Injection, PoolAssumption

\* The recursion of dfs.c (27-46) is no deeper than the graph has vertices.
THEOREM DfsDepthBounded == DFS!Spec => [](DFS!StackIsSimplePath /\ Len(stack) <= Cardinality(Nodes))
BY DfsDepth, DfsInitInv, DfsNextInv, PTL DEF DFS!Spec

\* The first states of dfs are first states of a search,
LEMMA DfsSearchInit == DFS!Init => DfsSearch!Init
BY PoolAssumption, TraversalsAssumption DEF DFS!Init, DfsSearch!Init, DfsOver

\* and its steps steps of a search, or none.
LEMMA DfsSearchNext == DfsInv /\ [DFS!Next]_DFS!vars => [DfsSearch!Next]_DfsSearch!vars
<1> SUFFICES ASSUME DfsInv, [DFS!Next]_DFS!vars PROVE [DfsSearch!Next]_DfsSearch!vars
  OBVIOUS
<1>1. CASE DFS!Call
  BY <1>1, DfsCallInv DEF DFS!Call, DfsInv, DfsPhases, DfsSearch!vars, DfsOver
<1>2. CASE DFS!Recurse
  <2>1. UNCHANGED <<adj, start, pc>> /\ pc = "run" /\ start \in visited
    BY <1>2 DEF DFS!Recurse, DfsInv, DfsPhases
  <2>2. start \in visited' /\ visited \cup {start} = visited /\ visited' \cup {start'} = visited'
    BY <1>2, <2>1, DfsRecurseInv DEF DfsInv, DfsPhases
  <2>3. CASE visited' = visited
    BY <2>1, <2>3 DEF DfsSearch!vars, DfsOver
  <2>4. CASE \E n \in visited : \E j \in 1..Len(adj[n]) :
               adj[n][j] \notin visited /\ visited' = visited \cup {adj[n][j]}
    <3>0. PICK n \in visited : \E j \in 1..Len(adj[n]) :
            adj[n][j] \notin visited /\ visited' = visited \cup {adj[n][j]}
      BY <2>4
    <3>1. PICK j \in 1..Len(adj[n]) : adj[n][j] \notin visited /\ visited' = visited \cup {adj[n][j]}
      BY <3>0
    <3>2. adj[n][j] \in DfsSearch!Successors(n)
      BY <3>1 DEF DfsInv, DfsTypeOK, DfsSearch!Successors, DfsSearch!Range
    <3> QED
      BY <2>1, <2>2, <3>1, <3>2 DEF DfsSearch!Next, DfsSearch!Mark, DfsOver
  <2> QED
    BY <1>2, <2>3, <2>4, DfsRecurseInv
<1>3. CASE DFS!Leave
  BY <1>3 DEF DFS!Leave, DfsSearch!vars, DfsOver
<1>4. CASE DFS!Return
  <2>1. pc = "run" /\ stack = <<>> /\ start \in visited /\ UNCHANGED <<adj, start, visited>> /\ pc' = "done"
    BY <1>4 DEF DFS!Return, DfsInv, DfsPhases
  <2>2. DfsSearch!Closed(visited \cup {start})
    <3> SUFFICES ASSUME NEW n \in visited, NEW m \in DfsSearch!Successors(n) PROVE m \in visited
      BY <2>1 DEF DfsSearch!Closed
    <3>1. PICK j \in 1..Len(adj[n]) : adj[n][j] = m
      BY DEF DfsSearch!Successors, DfsSearch!Range, DfsInv, DfsTypeOK
    <3> QED
      BY <2>1, <3>1 DEF DfsInv, DfsPending
  <2> QED
    BY <2>1, <2>2 DEF DfsSearch!Next, DfsSearch!Return, DfsOver
<1>5. CASE UNCHANGED DFS!vars
  BY <1>5 DEF DFS!vars, DfsSearch!vars, DfsOver
<1> QED
  BY <1>1, <1>2, <1>3, <1>4, <1>5 DEF DFS!Next

\* The depth-first traversal is a search: a call that marks is a neighbour of a marked
\* node, and when all have returned no neighbour is unmarked (dfs.c 27-46).
THEOREM DfsImplementsSearch == DFS!Spec => DfsSearch!Spec
BY DfsSearchInit, DfsSearchNext, DfsInitInv, DfsNextInv, PTL DEF DFS!Spec, DfsSearch!Spec

(***************************************************************************)
(* The order.  What has been printed is what has been visited, once each,  *)
(* and the running calls are in the order they were printed in             *)
(* (DfsInOrder): a node printed after the one whose loop runs has          *)
(* returned, so nothing of it is pending.                                  *)
(***************************************************************************)
DfsPrinted ==
  /\ printed \in Seq(Nodes)
  /\ \A k \in 1..Len(printed) : printed[k] \in visited
  /\ \A n \in visited : \E k \in 1..Len(printed) : printed[k] = n
  /\ \A a, b \in 1..Len(printed) : printed[a] = printed[b] => a = b

\* The running calls printed their nodes in their order.
DfsInOrder ==
  \A j, k \in 1..Len(stack) : \A a, b \in 1..Len(printed) :
    j < k /\ printed[a] = stack[j].node /\ printed[b] = stack[k].node => a < b

\* The loops stay within the neighbours.
DfsLoops == \A j \in 1..Len(stack) : stack[j].i <= Len(adj[stack[j].node]) + 1

\* The invariant with what is printed; DepthFirst is a part of it.
DfsFullInv == DfsInv /\ DfsPrinted /\ DfsInOrder /\ DfsLoops /\ DFS!DepthFirst

\* DepthFirst of a graph g and what is printed, s.
DepthFirstOf(g, s) ==
  \A k \in 2..Len(s) : \E j \in 1..(k - 1) :
    /\ s[k] \in DFS!Range(g[s[j]])
    /\ \A m \in (j + 1)..(k - 1) : DFS!Range(g[s[m]]) \subseteq { s[l] : l \in 1..(k - 1) }

\* Nothing is printed.
LEMMA DfsSameOrder ==
  ASSUME DFS!DepthFirst, adj' = adj, printed' = printed
  PROVE  DFS!DepthFirst'
<1>1. DFS!DepthFirst <=> DepthFirstOf(adj, printed)
  BY Zenon DEF DFS!DepthFirst, DepthFirstOf
<1>2. DFS!DepthFirst' <=> DepthFirstOf(adj', printed')
  BY Zenon DEF DFS!DepthFirst, DepthFirstOf
<1> QED
  BY <1>1, <1>2

\* It holds when dfs begins.
LEMMA DfsFullInit == DFS!Init => DfsFullInv
<1> SUFFICES ASSUME DFS!Init PROVE DfsFullInv
  OBVIOUS
<1>1. visited = {} /\ printed = <<>> /\ stack = <<>> /\ Len(printed) = 0 /\ Len(stack) = 0
  BY DEF DFS!Init
<1>2. DfsPrinted /\ DfsInOrder /\ DfsLoops
  BY <1>1 DEF DfsPrinted, DfsInOrder, DfsLoops
<1>3. DFS!DepthFirst
  BY <1>1 DEF DFS!DepthFirst
<1> QED
  BY <1>2, <1>3, DfsInitInv DEF DfsFullInv

\* The first call marks and prints the start.
LEMMA DfsCallFull ==
  ASSUME DfsFullInv, DFS!Call
  PROVE  DfsFullInv'
<1>1. /\ pc = "call" /\ visited = {} /\ UNCHANGED <<adj, start>>
  BY DEF DFS!Call, DfsFullInv, DfsInv, DfsPhases
<1>2. /\ visited' = {start} /\ stack' = <<[node |-> start, i |-> 1]>>
      /\ printed' = Append(printed, start)
  BY <1>1 DEF DFS!Call, DFS!Enter
<1>3. printed = <<>>
  BY <1>1 DEF DfsFullInv, DfsPrinted
<1>4. /\ start \in Nodes /\ adj \in [Nodes -> Seq(Nodes)] /\ printed' = <<start>>
      /\ Len(printed') = 1 /\ printed'[1] = start
      /\ Len(stack') = 1 /\ stack'[1] = [node |-> start, i |-> 1]
  BY <1>2, <1>3 DEF DfsFullInv, DfsInv, DfsTypeOK
<1>5. DfsPrinted'
  BY <1>2, <1>4 DEF DfsPrinted
<1>6. DfsInOrder'
  BY <1>4 DEF DfsInOrder
<1>7. DfsLoops'
  <2>1. adj'[start] \in Seq(Nodes)
    BY <1>1, <1>4
  <2>2. 1 <= Len(adj'[start]) + 1
    BY <2>1
  <2> QED
    BY <1>4, <2>2 DEF DfsLoops
<1>8. DFS!DepthFirst'
  BY <1>4 DEF DFS!DepthFirst
<1> QED
  BY <1>5, <1>6, <1>7, <1>8, DfsCallInv DEF DfsFullInv

\* A neighbour that was visited: only the place in the loop changes.
LEMMA DfsSeenFull ==
  ASSUME DfsFullInv, DFS!Recurse, DfsCallee \in visited
  PROVE  DfsFullInv'
<1>1. /\ stack' = DfsFrames /\ UNCHANGED <<visited, printed>>
      /\ UNCHANGED <<adj, start, pc>> /\ Len(stack) \in Nat \ {0} /\ Len(stack') = Len(stack)
      /\ DFS!Top = stack[Len(stack)] /\ DFS!Top.i \in 1..Len(adj[DFS!Top.node])
      /\ stack'[Len(stack)].i = DFS!Top.i + 1
  BY DfsTurn DEF DfsFullInv
<1>2. \A k \in 1..Len(stack) : /\ stack'[k].node = stack[k].node
                               /\ k # Len(stack) => stack'[k].i = stack[k].i
  BY <1>1, DfsTurn DEF DfsFullInv
<1>3. DfsPrinted'
  BY <1>1 DEF DfsFullInv, DfsPrinted
<1>4. DfsInOrder'
  BY <1>1, <1>2 DEF DfsFullInv, DfsInOrder
<1>5. DfsLoops'
  <2> SUFFICES ASSUME NEW j \in 1..Len(stack) PROVE stack'[j].i <= Len(adj[stack'[j].node]) + 1
    BY <1>1 DEF DfsLoops
  <2>1. CASE j = Len(stack)
    BY <1>1, <1>2, <2>1
  <2>2. CASE j # Len(stack)
    BY <1>2, <2>2 DEF DfsFullInv, DfsLoops
  <2> QED
    BY <2>1, <2>2
<1>6. DFS!DepthFirst'
  BY <1>1, DfsSameOrder DEF DfsFullInv
<1>7. DfsInv'
  BY DfsRecurseInv DEF DfsFullInv
<1> QED
  BY <1>3, <1>4, <1>5, <1>6, <1>7 DEF DfsFullInv

\* A neighbour that is called: all that was printed after its caller has returned.
LEMMA DfsEnterFull ==
  ASSUME DfsFullInv, DFS!Recurse, DfsCallee \notin visited
  PROVE  DfsFullInv'
<1> DEFINE last == Len(stack)
           count1 == Len(printed)
<1>0. DfsInv /\ DfsTypeOK /\ DfsPrinted
  BY DEF DfsFullInv, DfsInv
<1>1. /\ visited' = visited \cup {DfsCallee} /\ printed' = Append(printed, DfsCallee)
      /\ stack' = Append(DfsFrames, [node |-> DfsCallee, i |-> 1])
      /\ UNCHANGED <<adj, start, pc>> /\ last \in Nat \ {0}
      /\ DFS!Top = stack[last] /\ DFS!Top.i \in 1..Len(adj[DFS!Top.node])
      /\ DfsFrames \in Seq(Frame) /\ Len(DfsFrames) = last
      /\ DfsCallee \in Nodes /\ DFS!Top.node \in visited
  BY DfsTurn DEF DfsFullInv
<1>2. \A k \in 1..last : /\ DfsFrames[k].node = stack[k].node
                         /\ k # last => DfsFrames[k].i = stack[k].i
  BY DfsTurn DEF DfsFullInv
<1>3. DfsFrames[last].i = DFS!Top.i + 1
  BY DfsTurn DEF DfsFullInv
<1>4. /\ Len(stack') = last + 1
      /\ \A k \in 1..last : stack'[k] = DfsFrames[k]
      /\ stack'[last + 1].node = DfsCallee /\ stack'[last + 1].i = 1
  <2>1. [node |-> DfsCallee, i |-> 1] \in Frame
    BY <1>1 DEF Frame
  <2> HIDE DEF Frame
  <2> QED
    BY <1>1, <2>1
<1>5. \A k \in 1..last : stack'[k].node = stack[k].node
  BY <1>2, <1>4
<1>6. /\ printed \in Seq(Nodes) /\ printed' \in Seq(Nodes) /\ count1 \in Nat /\ Len(printed') = count1 + 1
      /\ \A k \in 1..count1 : printed'[k] = printed[k]
      /\ printed'[count1 + 1] = DfsCallee
  BY <1>0, <1>1 DEF DfsPrinted
<1>7. \A k \in 1..count1 : printed[k] \in visited /\ printed[k] # DfsCallee
  BY <1>0 DEF DfsPrinted
<1>8. DfsPrinted'
  <2>1. \A k \in 1..Len(printed') : printed'[k] \in visited'
    BY <1>1, <1>6, <1>7
  <2>2. ASSUME NEW n \in visited' PROVE \E k \in 1..Len(printed') : printed'[k] = n
    <3>1. CASE n = DfsCallee
      <4>1. count1 + 1 \in 1..Len(printed')
        BY <1>6
      <4> QED
        BY <1>6, <3>1, <4>1
    <3>2. CASE n \in visited
      <4>1. PICK k \in 1..count1 : printed[k] = n
        BY <1>0, <3>2 DEF DfsPrinted
      <4>2. k \in 1..Len(printed')
        BY <1>6
      <4> QED
        BY <1>6, <4>1, <4>2
    <3> QED
      BY <1>1, <2>2, <3>1, <3>2
  <2>3. ASSUME NEW a \in 1..(count1 + 1), NEW b \in 1..(count1 + 1), printed'[a] = printed'[b] PROVE a = b
    <3>1. CASE a \in 1..count1 /\ b \in 1..count1
      BY <1>0, <1>6, <2>3, <3>1 DEF DfsPrinted
    <3>2. CASE a = count1 + 1 \/ b = count1 + 1
      BY <1>6, <1>7, <2>3, <3>2
    <3> QED
      BY <1>6, <3>1, <3>2
  <2> QED
    BY <1>6, <2>1, <2>2, <2>3 DEF DfsPrinted
<1>9. DfsInOrder'
  <2>1. ASSUME NEW j \in 1..(last + 1), NEW k \in 1..(last + 1),
               NEW a \in 1..(count1 + 1), NEW b \in 1..(count1 + 1),
               j < k, printed'[a] = stack'[j].node, printed'[b] = stack'[k].node
        PROVE  a < b
    <3>1. j \in 1..last /\ stack'[j].node = stack[j].node /\ stack[j].node \in visited
      BY <1>0, <1>1, <1>5, <2>1 DEF DfsInv, DfsEntered
    <3>2. a \in 1..count1 /\ printed[a] = stack[j].node
      BY <1>6, <2>1, <3>1
    <3>3. CASE k = last + 1
      <4>1. b = count1 + 1
        BY <1>4, <1>6, <1>7, <2>1, <3>3
      <4> QED
        BY <1>6, <3>2, <4>1
    <3>4. CASE k \in 1..last
      <4>1. stack'[k].node = stack[k].node /\ stack[k].node \in visited
        BY <1>0, <1>5, <3>4 DEF DfsInv, DfsEntered
      <4>2. b \in 1..count1 /\ printed[b] = stack[k].node
        BY <1>6, <2>1, <4>1
      <4> QED
        BY <2>1, <3>1, <3>2, <3>4, <4>2 DEF DfsFullInv, DfsInOrder
    <3> QED
      BY <1>1, <3>3, <3>4
  <2> QED
    BY <1>4, <1>6, <2>1 DEF DfsInOrder
<1>10. DfsLoops'
  <2> SUFFICES ASSUME NEW j \in 1..(last + 1) PROVE stack'[j].i <= Len(adj[stack'[j].node]) + 1
    BY <1>1, <1>4 DEF DfsLoops
  <2>1. CASE j = last + 1
    <3>1. adj[DfsCallee] \in Seq(Nodes)
      BY <1>0, <1>1 DEF DfsTypeOK
    <3>2. 1 <= Len(adj[DfsCallee]) + 1
      BY <3>1
    <3> QED
      BY <1>4, <2>1, <3>2
  <2>2. CASE j = last
    BY <1>1, <1>2, <1>3, <1>4, <2>2
  <2>3. CASE j \in 1..last /\ j # last
    BY <1>2, <1>4, <2>3 DEF DfsFullInv, DfsLoops
  <2> QED
    BY <1>1, <2>1, <2>2, <2>3
<1>11. DFS!DepthFirst'
  <2>0. \A S : DFS!Range(S) = Range(S)
    BY DEF Range, DFS!Range
  <2>1. ASSUME NEW k \in 2..Len(printed')
        PROVE  \E j \in 1..(k - 1) :
                 /\ printed'[k] \in Range(adj[printed'[j]])
                 /\ \A m \in (j + 1)..(k - 1) :
                      Range(adj[printed'[m]]) \subseteq { printed'[l] : l \in 1..(k - 1) }
    <3>0. k = count1 + 1 \/ k \in 2..count1
      BY <1>6, <2>1
    <3>1. CASE k \in 2..count1
      <4>1. PICK j \in 1..(k - 1) :
              /\ printed[k] \in Range(adj[printed[j]])
              /\ \A m \in (j + 1)..(k - 1) :
                   Range(adj[printed[m]]) \subseteq { printed[l] : l \in 1..(k - 1) }
        BY <2>0, <3>1 DEF DfsFullInv, DFS!DepthFirst
      <4>2. \A l \in 1..k : printed'[l] = printed[l]
        BY <1>6, <3>1
      <4>3. { printed'[l] : l \in 1..(k - 1) } = { printed[l] : l \in 1..(k - 1) }
        BY <1>6, <3>1, <4>2
      <4>4. k \in 1..k /\ j \in 1..k /\ \A m \in (j + 1)..(k - 1) : m \in 1..k
        BY <3>1
      <4> QED
        BY <4>1, <4>2, <4>3, <4>4
    <3>2. CASE k = count1 + 1
      <4>1. k - 1 = count1
        BY <1>6, <3>2
      <4>2. PICK j \in 1..count1 : printed[j] = DFS!Top.node
        BY <1>0, <1>1 DEF DfsPrinted
      <4>3. printed'[k] = DfsCallee /\ printed'[j] = DFS!Top.node
        BY <1>6, <3>2, <4>2
      <4>4. DfsCallee \in Range(adj[DFS!Top.node])
        <5>1. adj[DFS!Top.node] \in Seq(Nodes)
          BY <1>0, <1>1 DEF DfsTypeOK
        <5> QED
          BY <1>1, <5>1 DEF Range, DfsCallee
      <4>5. ASSUME NEW m \in (j + 1)..count1
            PROVE  Range(adj[printed'[m]]) \subseteq { printed'[l] : l \in 1..count1 }
        <5>1. m \in 1..count1 /\ m # j /\ ~ (m < j) /\ printed'[m] = printed[m] /\ printed[m] \in visited
          BY <1>6, <1>7, <4>5
        <5>2. ASSUME NEW q \in 1..last PROVE stack[q].node # printed[m]
          <6>1. CASE q = last
            BY <1>0, <1>1, <4>2, <5>1, <6>1 DEF DfsPrinted
          <6>2. CASE q # last
            <7>1. last \in 1..last /\ q < last
              BY <1>1, <6>2
            <7>2. stack[q].node = printed[m] => m < j
              BY <1>1, <4>2, <5>1, <7>1 DEF DfsFullInv, DfsInOrder
            <7> QED
              BY <5>1, <7>2
          <6> QED
            BY <6>1, <6>2
        <5>3. ASSUME NEW e \in Range(adj[printed[m]]) PROVE e \in { printed'[l] : l \in 1..count1 }
          <6>1. adj[printed[m]] \in Seq(Nodes)
            BY <1>0, <5>1 DEF DfsTypeOK
          <6>2. PICK x \in 1..Len(adj[printed[m]]) : e = adj[printed[m]][x]
            BY <5>3, <6>1 DEF Range
          <6>3. e \in visited
            BY <1>0, <5>1, <5>2, <6>2 DEF DfsInv, DfsPending
          <6>4. PICK l \in 1..count1 : printed[l] = e
            BY <1>0, <6>3 DEF DfsPrinted
          <6> QED
            BY <1>6, <6>4
        <5> QED
          BY <5>1, <5>3
      <4> QED
        BY <4>1, <4>2, <4>3, <4>4, <4>5
    <3> QED
      BY <3>0, <3>1, <3>2
  <2> QED
    BY <1>1, <2>0, <2>1 DEF DFS!DepthFirst
<1>12. DfsInv'
  BY <1>0, DfsRecurseInv
<1> QED
  BY <1>8, <1>9, <1>10, <1>11, <1>12 DEF DfsFullInv

\* A return: the node's neighbours have all been looked at.
LEMMA DfsLeaveFull ==
  ASSUME DfsFullInv, DFS!Leave
  PROVE  DfsFullInv'
<1>1. /\ stack \in Seq(Frame) /\ stack # <<>> /\ stack' = Front(stack)
      /\ UNCHANGED <<adj, start, visited, printed>>
  BY DEF DFS!Leave, Front, DfsFullInv, DfsInv, DfsTypeOK
<1>2. /\ Len(stack') = Len(stack) - 1 /\ Len(stack) \in Nat \ {0}
      /\ \A k \in 1..(Len(stack) - 1) : stack'[k] = stack[k]
  <2>1. IsSeq(stack)
    BY <1>1 DEF IsSeq
  <2> QED
    BY <1>1, <2>1, IsSeqFront
<1>3. \A k \in 1..(Len(stack) - 1) : k \in 1..Len(stack)
  BY <1>2
<1>4. DfsPrinted' /\ DFS!DepthFirst'
  BY <1>1, DfsSameOrder DEF DfsFullInv, DfsPrinted
<1>5. DfsInOrder' /\ DfsLoops'
  <2>1. \A k \in 1..Len(stack') : k \in 1..Len(stack) /\ stack'[k] = stack[k]
    BY <1>2, <1>3
  <2>2. DfsInOrder'
    BY <1>1, <2>1 DEF DfsFullInv, DfsInOrder
  <2>3. DfsLoops'
    BY <1>1, <2>1 DEF DfsFullInv, DfsLoops
  <2> QED
    BY <2>2, <2>3
<1>6. DfsInv'
  BY DfsLeaveInv DEF DfsFullInv
<1> QED
  BY <1>4, <1>5, <1>6 DEF DfsFullInv

\* Every step keeps it.
LEMMA DfsFullNext == DfsFullInv /\ [DFS!Next]_DFS!vars => DfsFullInv'
<1> SUFFICES ASSUME DfsFullInv, [DFS!Next]_DFS!vars PROVE DfsFullInv'
  OBVIOUS
<1>1. DfsInv'
  BY DfsNextInv DEF DfsFullInv
<1>2. CASE UNCHANGED <<adj, visited, printed, stack>>
  BY <1>1, <1>2, DfsSameOrder DEF DfsFullInv, DfsPrinted, DfsInOrder, DfsLoops
<1>3. CASE DFS!Return \/ UNCHANGED DFS!vars
  BY <1>2, <1>3 DEF DFS!Return, DFS!vars
<1>4. CASE DFS!Recurse
  BY <1>4, DfsSeenFull, DfsEnterFull
<1> QED
  BY <1>3, <1>4, DfsCallFull, DfsLeaveFull DEF DFS!Next

\* The nodes dfs.c prints (27-46) come depth first: each from a caller printed before it, all
\* of whose later callees had nothing left to print.
THEOREM DfsPrintsDepthFirst == DFS!Spec => []DFS!DepthFirst
<1>1. DfsFullInv => DFS!DepthFirst
  BY DEF DfsFullInv
<1> QED
  BY <1>1, DfsFullInit, DfsFullNext, PTL DEF DFS!Spec

\* It gives the types.
LEMMA DfsTyped ==
  ASSUME DfsFullInv PROVE DFS!TypeOK
<1>1. stack \in Seq([node : Nodes, i : Nat \ {0}])
  BY DEF DfsFullInv, DfsInv, DfsTypeOK, Frame
<1>2. Len(stack) <= Cardinality(Nodes)
  BY DfsDepth DEF DfsFullInv
<1>3. DFS!Cardinality(Nodes) = Cardinality(Nodes)
  BY DEF Cardinality, DFS!Cardinality
<1> QED
  BY <1>1, <1>2, <1>3 DEF DfsFullInv, DfsInv, DfsTypeOK, DfsPrinted, DfsLoops, DFS!TypeOK

-----------------------------------------------------------------------------
(* bfs.c *)

\* In the loop over the neighbours of curr.
BfsBusy == pc \in {"neighbors", "overrun"}

\* bfs is over when its queue has emptied.
BfsOver == pc = "done"

\* bfs is a search; its start counts as marked while it waits in the queue.
BfsSearch == INSTANCE Search WITH marked <- visited \cup {start}, over <- BfsOver

\* The variables of bfs, without what it printed.
BfsTypeOK ==
  /\ adj \in [Nodes -> Seq(Nodes)]
  /\ start \in Nodes
  /\ queue \in Seq(Nodes) /\ Len(queue) <= Capacity
  /\ head \in 0..Len(queue)
  /\ visited \subseteq Nodes
  /\ curr \in Nodes
  /\ i \in Nat \ {0}
  /\ pc \in {"loop", "neighbors", "overrun", "done"}
  /\ BfsBusy => curr \in visited /\ i <= Len(adj[curr]) + 1
  /\ pc = "overrun" => i <= Len(adj[curr]) /\ Len(queue) = Capacity
  /\ BfsOver => head = Len(queue)

\* The edges whose ends have been put in the queue.
BfsTaken == { e \in BFS!Edges(visited) : BfsBusy /\ e[1] = curr => e[2] < i }

\* An entry of the queue for the start and for each of those edges.
BfsCount == Len(queue) = 1 + Cardinality(BfsTaken)

\* Together.
BfsInv == BfsTypeOK /\ BfsCount

\* The edges out of some nodes are the places of their neighbours, and can be counted.
LEMMA BfsEdges ==
  ASSUME BfsTypeOK, NEW S \in SUBSET Nodes
  PROVE  /\ IsFiniteSet(BFS!Edges(S))
         /\ \A e : e \in BFS!Edges(S) <=> \E n \in S : \E j \in 1..Len(adj[n]) : e = <<n, j>>
<1> DEFINE Out(n) == {n} \X (1..Len(adj[n]))
           Parts == { Out(n) : n \in S }
<1>1. IsFiniteSet(S)
  BY FS_Subset, PoolAssumption
<1>2. \A n \in S : IsFiniteSet(Out(n))
  <2> TAKE n \in S
  <2>1. Len(adj[n]) \in Nat
    BY DEF BfsTypeOK
  <2>2. IsFiniteSet({n}) /\ IsFiniteSet(1..Len(adj[n]))
    <3>1. 1 \in Int /\ Len(adj[n]) \in Int
      BY <2>1
    <3>2. IsFiniteSet(1..Len(adj[n]))
      BY <3>1, FS_Interval
    <3> QED
      BY <3>2, FS_Singleton
  <2> QED
    BY <2>2, FS_Product
<1>3. IsFiniteSet(Parts)
  <2> DEFINE f == [n \in S |-> Out(n)]
  <2>1. f \in Surjection(S, Parts)
    BY DEF Surjection
  <2> HIDE DEF f
  <2> QED
    BY <1>1, <2>1, FS_Surjection
<1>4. IsFiniteSet(UNION Parts)
  <2>1. \A P \in Parts : IsFiniteSet(P)
    BY <1>2
  <2> HIDE DEF Parts
  <2> QED
    BY <1>3, <2>1, FS_UNION
<1>5. BFS!Edges(S) = UNION Parts
  BY DEF BFS!Edges
<1>6. \A e : e \in BFS!Edges(S) <=> \E n \in S : \E j \in 1..Len(adj[n]) : e = <<n, j>>
  BY DEF BFS!Edges
<1> QED
  BY <1>4, <1>5, <1>6

\* It holds when bfs begins,
LEMMA BfsInitInv == BFS!Init => BfsInv
<1> SUFFICES ASSUME BFS!Init PROVE BfsInv
  OBVIOUS
<1>1. queue = <<start>> /\ Len(queue) = 1 /\ visited = {}
  BY DEF BFS!Init
<1>2. 1 <= Capacity
  <2>1. Cardinality({Zero}) = 1 /\ Cardinality({Zero}) <= Cardinality(Nodes)
    BY PoolAssumption, FS_Subset, FS_Singleton
  <2>2. Cardinality(Nodes) \in Nat
    BY PoolAssumption, FS_CardinalityType
  <2> QED
    BY <2>1, <2>2, PoolAssumption
<1>3. BfsTypeOK
  BY <1>1, <1>2, PoolAssumption, TraversalsAssumption DEF BFS!Init, BfsTypeOK, BfsBusy, BfsOver
<1>4. BfsTaken = {}
  BY <1>1 DEF BfsTaken, BFS!Edges
<1> QED
  BY <1>1, <1>3, <1>4, FS_EmptySet DEF BfsInv, BfsCount

\* and every step keeps it.
LEMMA BfsNextInv == BfsInv /\ [BFS!Next]_BFS!vars => BfsInv'
<1> SUFFICES ASSUME BfsInv, [BFS!Next]_BFS!vars PROVE BfsInv'
  OBVIOUS
<1>0. BfsTypeOK /\ Len(queue) = 1 + Cardinality(BfsTaken)
  BY DEF BfsInv, BfsCount
<1>1. CASE BFS!Dequeue
  <2>1. /\ pc = "loop" /\ head' = head + 1 /\ head' \in 1..Len(queue) /\ curr' = queue[head + 1]
        /\ curr' \in Nodes
        /\ UNCHANGED <<adj, start, queue>>
    BY <1>0, <1>1 DEF BFS!Dequeue, BfsTypeOK
  <2>2. CASE curr' \in visited
    <3>1. UNCHANGED <<visited, i, pc>>
      BY <1>1, <2>2 DEF BFS!Dequeue
    <3>2. BfsTypeOK'
      BY <1>0, <2>1, <3>1 DEF BfsTypeOK, BfsBusy, BfsOver
    <3>3. BfsTaken' = BfsTaken
      BY <2>1, <3>1 DEF BfsTaken, BfsBusy, BFS!Edges
    <3> QED
      BY <1>0, <2>1, <3>2, <3>3 DEF BfsInv, BfsCount
  <2>3. CASE curr' \notin visited
    <3>1. visited' = visited \cup {curr'} /\ i' = 1 /\ pc' = "neighbors"
      BY <1>1, <2>3 DEF BFS!Dequeue
    <3>2. BfsTypeOK'
      <4>1. Len(adj[curr']) \in Nat
        BY <1>0, <2>1 DEF BfsTypeOK
      <4>2. BfsBusy' /\ ~ BfsOver' /\ pc' # "overrun"
        BY <3>1 DEF BfsBusy, BfsOver
      <4> QED
        BY <1>0, <2>1, <3>1, <4>1, <4>2 DEF BfsTypeOK
    <3>3. BfsTaken' = BfsTaken
      <4>1. visited \in SUBSET Nodes /\ visited' \in SUBSET Nodes
        BY <1>0, <3>2 DEF BfsTypeOK
      <4>2. \A e : e \in BfsTaken <=> \E n \in visited : \E j \in 1..Len(adj[n]) : e = <<n, j>>
        BY <1>0, <2>1, <4>1, BfsEdges DEF BfsTaken, BfsBusy
      <4>3. \A e : e \in BFS!Edges(visited)' <=> \E n \in visited' : \E j \in 1..Len(adj[n]) : e = <<n, j>>
        BY <2>1, <3>1 DEF BFS!Edges
      <4>4. \A e : e \in BfsTaken' <=> e \in BFS!Edges(visited)' /\ (e[1] = curr' => e[2] < 1)
        BY <3>1 DEF BfsTaken, BfsBusy
      <4>5. \A e : e \in BfsTaken' <=> \E n \in visited : \E j \in 1..Len(adj[n]) : e = <<n, j>>
        <5> TAKE e
        <5>1. ASSUME NEW n \in visited, NEW j \in 1..Len(adj[n]), e = <<n, j>> PROVE e \in BfsTaken'
          BY <2>3, <3>1, <4>3, <4>4, <5>1
        <5>2. ASSUME e \in BfsTaken' PROVE \E n \in visited : \E j \in 1..Len(adj[n]) : e = <<n, j>>
          <6>1. PICK n \in visited' : \E j \in 1..Len(adj[n]) : e = <<n, j>>
            BY <4>3, <4>4, <5>2
          <6>2. PICK j \in 1..Len(adj[n]) : e = <<n, j>>
            BY <6>1
          <6>3. n # curr'
            BY <4>4, <5>2, <6>2
          <6> QED
            BY <3>1, <6>2, <6>3
        <5> QED
          BY <5>1, <5>2
      <4> QED
        BY <4>2, <4>5
    <3> QED
      BY <1>0, <2>1, <3>2, <3>3 DEF BfsInv, BfsCount
  <2> QED
    BY <2>2, <2>3
<1>2. CASE BFS!Enqueue
  <2>1. /\ pc = "neighbors" /\ i \in 1..Len(adj[curr]) /\ curr \in visited /\ curr \in Nodes
        /\ UNCHANGED <<adj, start, head, visited, curr>>
    BY <1>0, <1>2 DEF BFS!Enqueue, BfsTypeOK, BfsBusy
  <2>2. CASE Len(queue) < Capacity
    <3>1. queue' = Append(queue, adj[curr][i]) /\ i' = i + 1 /\ pc' = pc
      BY <1>2, <2>2 DEF BFS!Enqueue
    <3>2. adj[curr][i] \in Nodes
      BY <1>0, <2>1 DEF BfsTypeOK
    <3>3. queue' \in Seq(Nodes) /\ Len(queue') = Len(queue) + 1 /\ Len(queue) \in Nat
      BY <1>0, <3>1, <3>2 DEF BfsTypeOK
    <3>4. BfsTypeOK'
      <4>1. i' <= Len(adj[curr]) + 1 /\ i' \in Nat \ {0} /\ Len(queue') <= Capacity /\ head \in 0..Len(queue')
        BY <1>0, <2>1, <2>2, <3>1, <3>3, PoolAssumption DEF BfsTypeOK
      <4>2. pc' = "neighbors" /\ BfsBusy' /\ ~ BfsOver'
        BY <2>1, <3>1 DEF BfsBusy, BfsOver
      <4> QED
        BY <1>0, <2>1, <3>3, <4>1, <4>2 DEF BfsTypeOK
    <3>5. <<curr, i>> \notin BfsTaken /\ BfsTaken' = BfsTaken \cup {<<curr, i>>}
      <4>1. \A e : e \in BFS!Edges(visited) <=> \E n \in visited : \E j \in 1..Len(adj[n]) : e = <<n, j>>
        BY <1>0, BfsEdges DEF BfsTypeOK
      <4>2. BFS!Edges(visited)' = BFS!Edges(visited)
        BY <2>1 DEF BFS!Edges
      <4>3. BfsBusy /\ BfsBusy' /\ i \in Nat
        BY <2>1, <3>1 DEF BfsBusy
      <4>4. <<curr, i>> \in BFS!Edges(visited) /\ <<curr, i>> \notin BfsTaken
        BY <2>1, <4>1, <4>3 DEF BfsTaken
      <4>5. \A e \in BFS!Edges(visited) : (e[1] = curr => e[2] < i + 1) <=> (e[1] = curr => e[2] < i) \/ e = <<curr, i>>
        <5> TAKE e \in BFS!Edges(visited)
        <5>0. PICK n \in visited : \E j \in 1..Len(adj[n]) : e = <<n, j>>
          BY <4>1
        <5>1. PICK j \in 1..Len(adj[n]) : e = <<n, j>>
          BY <5>0
        <5> QED
          BY <4>3, <5>1
      <4> QED
        BY <2>1, <3>1, <4>2, <4>3, <4>4, <4>5 DEF BfsTaken
    <3>6. IsFiniteSet(BfsTaken)
      <4>1. IsFiniteSet(BFS!Edges(visited))
        BY <1>0, BfsEdges DEF BfsTypeOK
      <4>2. BfsTaken \subseteq BFS!Edges(visited)
        BY DEF BfsTaken
      <4> QED
        BY <4>1, <4>2, FS_Subset
    <3>7. Cardinality(BfsTaken') = Cardinality(BfsTaken) + 1 /\ Cardinality(BfsTaken) \in Nat
      BY <3>5, <3>6, FS_AddElement, FS_CardinalityType
    <3> QED
      BY <1>0, <3>3, <3>4, <3>7 DEF BfsInv, BfsCount
  <2>3. CASE ~ (Len(queue) < Capacity)
    <3>1. UNCHANGED <<queue, i>> /\ pc' = "overrun"
      BY <1>2, <2>3 DEF BFS!Enqueue
    <3>2. BfsTypeOK'
      <4>1. Len(queue) = Capacity /\ i <= Len(adj[curr]) /\ i <= Len(adj[curr]) + 1
        BY <1>0, <2>1, <2>3, PoolAssumption DEF BfsTypeOK
      <4>2. BfsBusy' /\ ~ BfsOver'
        BY <3>1 DEF BfsBusy, BfsOver
      <4> QED
        BY <1>0, <2>1, <3>1, <4>1, <4>2 DEF BfsTypeOK
    <3>3. BfsTaken' = BfsTaken
      BY <2>1, <3>1 DEF BfsTaken, BfsBusy, BFS!Edges
    <3> QED
      BY <1>0, <3>1, <3>2, <3>3 DEF BfsInv, BfsCount
  <2> QED
    BY <2>2, <2>3
<1>3. CASE BFS!Expanded
  <2>1. /\ pc = "neighbors" /\ i > Len(adj[curr]) /\ pc' = "loop"
        /\ UNCHANGED <<adj, start, queue, head, visited, curr, i>>
    BY <1>3 DEF BFS!Expanded
  <2>2. BfsTypeOK'
    BY <1>0, <2>1 DEF BfsTypeOK, BfsBusy, BfsOver
  <2>3. BfsTaken' = BfsTaken
    <3>1. \A e : e \in BFS!Edges(visited) <=> \E n \in visited : \E j \in 1..Len(adj[n]) : e = <<n, j>>
      BY <1>0, BfsEdges DEF BfsTypeOK
    <3>2. \A e \in BFS!Edges(visited) : e[1] = curr => e[2] < i
      <4> TAKE e \in BFS!Edges(visited)
      <4>0. PICK n \in visited : \E j \in 1..Len(adj[n]) : e = <<n, j>>
        BY <3>1
      <4>1. PICK j \in 1..Len(adj[n]) : e = <<n, j>>
        BY <4>0
      <4>2. Len(adj[curr]) \in Nat /\ i \in Nat
        BY <1>0 DEF BfsTypeOK
      <4> QED
        BY <2>1, <4>1, <4>2
    <3> QED
      BY <2>1, <3>2 DEF BfsTaken, BfsBusy, BFS!Edges
  <2> QED
    BY <1>0, <2>1, <2>2, <2>3 DEF BfsInv, BfsCount
<1>4. CASE BFS!Return
  <2>1. /\ pc = "loop" /\ head = Len(queue) /\ pc' = "done"
        /\ UNCHANGED <<adj, start, queue, head, visited, curr, i>>
    BY <1>4 DEF BFS!Return
  <2>2. BfsTypeOK'
    BY <1>0, <2>1 DEF BfsTypeOK, BfsBusy, BfsOver
  <2>3. BfsTaken' = BfsTaken
    BY <2>1 DEF BfsTaken, BfsBusy, BFS!Edges
  <2> QED
    BY <1>0, <2>1, <2>2, <2>3 DEF BfsInv, BfsCount
<1>5. CASE UNCHANGED BFS!vars
  <2>1. UNCHANGED <<adj, start, queue, head, visited, curr, i, pc>>
    BY <1>5 DEF BFS!vars
  <2>2. BfsTypeOK' /\ BfsTaken' = BfsTaken
    BY <1>0, <2>1 DEF BfsTypeOK, BfsTaken, BfsBusy, BfsOver, BFS!Edges
  <2> QED
    BY <1>0, <2>1, <2>2 DEF BfsInv, BfsCount
<1> QED
  BY <1>1, <1>2, <1>3, <1>4, <1>5 DEF BFS!Next

\* So the queue is overrun exactly when the edges are too many for it.
LEMMA BfsOverruns == BfsInv => BFS!OverrunsByEdges
<1> SUFFICES ASSUME BfsInv PROVE BFS!OverrunsByEdges
  OBVIOUS
<1>1. BfsTypeOK /\ Len(queue) = 1 + Cardinality(BfsTaken) /\ Len(queue) \in Nat
  BY DEF BfsInv, BfsCount, BfsTypeOK
<1>2. /\ IsFiniteSet(BFS!Edges(visited))
      /\ \A e : e \in BFS!Edges(visited) <=> \E n \in visited : \E j \in 1..Len(adj[n]) : e = <<n, j>>
  BY <1>1, BfsEdges DEF BfsTypeOK
<1>3. BfsTaken \subseteq BFS!Edges(visited)
  BY DEF BfsTaken
<1>4. /\ IsFiniteSet(BfsTaken) /\ Cardinality(BfsTaken) <= Cardinality(BFS!Edges(visited))
      /\ Cardinality(BfsTaken) \in Nat /\ Cardinality(BFS!Edges(visited)) \in Nat
  BY <1>2, <1>3, FS_Subset, FS_CardinalityType
<1>5. ASSUME pc = "overrun" PROVE Cardinality(BFS!Edges(visited)) >= Capacity
  <2>1. <<curr, i>> \in BFS!Edges(visited) /\ Len(queue) = Capacity
    BY <1>1, <1>2, <1>5 DEF BfsTypeOK, BfsBusy
  <2>2. <<curr, i>> \notin BfsTaken
    BY <1>1, <1>5 DEF BfsTypeOK, BfsBusy, BfsTaken
  <2>3. Cardinality(BfsTaken) # Cardinality(BFS!Edges(visited))
    BY <1>2, <1>3, <2>1, <2>2, FS_Subset
  <2> QED
    BY <1>1, <1>4, <2>1, <2>3
<1>6. ASSUME pc = "done" PROVE Cardinality(BFS!Edges(visited)) < Capacity
  <2>1. BfsTaken = BFS!Edges(visited)
    BY <1>6 DEF BfsTaken, BfsBusy
  <2> QED
    BY <1>1, <1>4, <2>1, PoolAssumption DEF BfsTypeOK
<1>7. \A S : BFS!Cardinality(S) = Cardinality(S)
  BY DEF Cardinality, BFS!Cardinality
<1> QED
  BY <1>1, <1>4, <1>5, <1>6, <1>7 DEF BFS!OverrunsByEdges

\* What the array behind the queue is overrun by, and by nothing less: as many edges out
\* of the nodes reached as it has slots (bfs.c 36-52).
THEOREM BfsOverrunsByEdges == BFS!Spec => []BFS!OverrunsByEdges
BY BfsOverruns, BfsInitInv, BfsNextInv, PTL DEF BFS!Spec

(***************************************************************************)
(* Why nodes are printed in layers: each entry of the queue has a level    *)
(* (lvl), which does not decrease along the queue and exceeds that of the  *)
(* last one taken by one at most (BfsOrder); a visited node has the level  *)
(* of the entry that printed it (dist), its other entries are no lower,    *)
(* and those of its neighbours are one higher (BfsReached).                *)
(***************************************************************************)
BfsOrder(lvl) ==
  /\ Len(lvl) = Len(queue)
  /\ queue # <<>> /\ queue[1] = start /\ lvl[1] = 0
  /\ \A j, k \in 1..Len(queue) : j <= k => lvl[j] <= lvl[k]
  /\ head > 0 => \A k \in 1..Len(queue) : lvl[k] <= lvl[head] + 1
  /\ head = 0 => Len(queue) = 1

\* Every entry but the first is a neighbour of a visited node, one level higher.
BfsReached(lvl, dist) ==
  /\ \A k \in 2..Len(queue) : \E v \in visited : queue[k] \in Range(adj[v]) /\ lvl[k] = dist[v] + 1
  /\ \A k \in 1..head : queue[k] \in visited /\ dist[queue[k]] <= lvl[k]
  /\ \A v \in visited : \E k \in 1..head : queue[k] = v /\ lvl[k] = dist[v]
  /\ \A v \in visited : \A j \in 1..Len(adj[v]) :
       (BfsBusy /\ v = curr => j < i) => \E k \in 2..Len(queue) : queue[k] = adj[v][j] /\ lvl[k] = dist[v] + 1
  /\ BfsBusy => head > 0 /\ curr = queue[head] /\ dist[curr] = lvl[head]

\* What is printed is what is visited, by level.
BfsPrinted(dist) ==
  /\ printed \in Seq(Nodes)
  /\ \A k \in 1..Len(printed) : printed[k] \in visited
  /\ \A v \in visited : \E k \in 1..Len(printed) : printed[k] = v
  /\ \A j, k \in 1..Len(printed) : j < k => printed[j] # printed[k] /\ dist[printed[j]] <= dist[printed[k]]

\* Together.
BfsLayers(lvl, dist) == BfsOrder(lvl) /\ BfsReached(lvl, dist) /\ BfsPrinted(dist)

\* The invariant with the levels: there are levels for the entries and for the nodes.
BfsFullInv ==
  /\ BfsInv
  /\ \E lvl \in Seq(Nat), dist \in [Nodes -> Nat] : BfsLayers(lvl, dist)

\* It holds when bfs begins.
LEMMA BfsFullInit == BFS!Init => BfsFullInv
<1> SUFFICES ASSUME BFS!Init PROVE BfsFullInv
  OBVIOUS
<1> DEFINE lvl == <<0>>
           dist == [m \in Nodes |-> 0]
<1>1. lvl \in Seq(Nat) /\ dist \in [Nodes -> Nat] /\ lvl[1] = 0 /\ Len(lvl) = 1
  OBVIOUS
<1>2. /\ queue = <<start>> /\ Len(queue) = 1 /\ queue[1] = start /\ head = 0 /\ visited = {}
      /\ printed = <<>> /\ ~ BfsBusy
  BY DEF BFS!Init, BfsBusy
<1> HIDE DEF lvl, dist
<1>3. BfsOrder(lvl)
  BY <1>1, <1>2 DEF BfsOrder
<1>4. BfsReached(lvl, dist) /\ BfsPrinted(dist)
  BY <1>2 DEF BfsReached, BfsPrinted
<1> QED
  BY <1>1, <1>3, <1>4, BfsInitInv DEF BfsFullInv, BfsLayers

\* d is dist with another value at m.
Raised(d, dist, S, m, x) == d[m] = x /\ \A k \in S : d[k] = dist[k]

\* What taking an entry does,
LEMMA BfsDequeues ==
  ASSUME BfsInv, BFS!Dequeue
  PROVE  /\ pc = "loop" /\ head' = head + 1 /\ head \in Nat /\ head + 1 \in 1..Len(queue)
         /\ curr' = queue[head + 1] /\ queue[head + 1] \in Nodes /\ Len(queue) \in Nat
         /\ UNCHANGED <<adj, start, queue>>
<1>1. /\ pc = "loop" /\ head' = head + 1 /\ head # Len(queue) /\ curr' = queue[head + 1]
      /\ UNCHANGED <<adj, start, queue>>
  BY DEF BFS!Dequeue
<1>2. Len(queue) \in Nat /\ head \in 0..Len(queue) /\ queue \in Seq(Nodes)
  BY DEF BfsInv, BfsTypeOK
<1>3. head + 1 \in 1..Len(queue)
  BY <1>1, <1>2
<1> QED
  BY <1>1, <1>2, <1>3

\* and what queueing a neighbour does.
LEMMA BfsEnqueues ==
  ASSUME BfsInv, BFS!Enqueue, Len(queue) < Capacity
  PROVE  /\ pc = "neighbors" /\ pc' = "neighbors" /\ i \in 1..Len(adj[curr]) /\ i' = i + 1
         /\ curr \in visited /\ curr \in Nodes /\ head \in 0..Len(queue)
         /\ adj[curr][i] \in Range(adj[curr])
         /\ Len(queue) \in Nat /\ Len(queue') = Len(queue) + 1
         /\ \A k \in 1..Len(queue) : queue'[k] = queue[k]
         /\ queue'[Len(queue) + 1] = adj[curr][i]
         /\ UNCHANGED <<adj, start, head, visited, printed, curr>>
<1>1. curr \in Nodes /\ adj \in [Nodes -> Seq(Nodes)] /\ i \in Nat \ {0}
  BY DEF BfsInv, BfsTypeOK
<1>2. /\ pc = "neighbors" /\ pc' = "neighbors" /\ i <= Len(adj[curr]) /\ i' = i + 1
      /\ queue' = Append(queue, adj[curr][i])
      /\ UNCHANGED <<adj, start, head, visited, printed, curr>>
  BY DEF BFS!Enqueue
<1>3. curr \in visited /\ queue \in Seq(Nodes) /\ head \in 0..Len(queue)
  BY <1>2 DEF BfsInv, BfsTypeOK, BfsBusy
<1>4. adj[curr] \in Seq(Nodes) /\ i \in 1..Len(adj[curr])
  BY <1>1, <1>2
<1>5. adj[curr][i] \in Nodes /\ adj[curr][i] \in Range(adj[curr])
  BY <1>4 DEF Range
<1>6. PICK next : next = adj[curr][i]
  OBVIOUS
<1>7. queue' = Append(queue, next) /\ next \in Nodes
  BY <1>2, <1>5, <1>6
<1>8. /\ Len(queue) \in Nat /\ Len(queue') = Len(queue) + 1
      /\ \A k \in 1..Len(queue) : queue'[k] = queue[k]
      /\ queue'[Len(queue) + 1] = next
  BY <1>3, <1>7
<1> QED
  BY <1>1, <1>2, <1>3, <1>4, <1>5, <1>6, <1>8

\* Taking an entry: the levels stay in order around the next one.
LEMMA BfsTakeOrder ==
  ASSUME BfsInv, head \in Nat, head + 1 \in 1..Len(queue), head' = head + 1, queue' = queue, start' = start,
         NEW lvl \in Seq(Nat), BfsOrder(lvl)
  PROVE  BfsOrder(lvl)'
<1>1. \A k \in 1..Len(queue) : lvl[k] \in Nat
  BY DEF BfsOrder
<1>2. \A k \in 1..Len(queue) : lvl[k] <= lvl[head + 1] + 1
  <2> TAKE k \in 1..Len(queue)
  <2>1. CASE head = 0
    <3>1. Len(queue) = 1 /\ head + 1 = 1
      BY <2>1 DEF BfsOrder
    <3>2. k = 1
      BY <3>1
    <3> QED
      BY <1>1, <3>1, <3>2
  <2>2. CASE head # 0
    <3>1. head \in 1..Len(queue) /\ head > 0 /\ head <= head + 1 /\ Len(queue) \in Nat
      BY <2>2 DEF BfsInv, BfsTypeOK
    <3>2. lvl[head] <= lvl[head + 1] /\ lvl[k] <= lvl[head] + 1
      BY <3>1 DEF BfsOrder
    <3>3. lvl[head] \in Nat /\ lvl[head + 1] \in Nat /\ lvl[k] \in Nat
      BY <1>1, <3>1
    <3>4. \A a, b, c \in Nat : a <= b /\ c <= a + 1 => c <= b + 1
      OBVIOUS
    <3> QED
      BY <3>2, <3>3, <3>4
  <2> QED
    BY <2>1, <2>2
<1>3. /\ Len(lvl) = Len(queue) /\ queue # <<>> /\ queue[1] = start /\ lvl[1] = 0
      /\ \A j, k \in 1..Len(queue) : j <= k => lvl[j] <= lvl[k]
  BY DEF BfsOrder
<1>4. head' # 0 /\ head' = head + 1
  OBVIOUS
<1> QED
  BY <1>2, <1>3, <1>4 DEF BfsOrder

\* An entry for a node that is visited already is passed over.
LEMMA BfsSeenLayers ==
  ASSUME BfsInv, BFS!Dequeue, curr' \in visited,
         NEW lvl \in Seq(Nat), NEW dist \in [Nodes -> Nat], BfsLayers(lvl, dist)
  PROVE  BfsLayers(lvl, dist)'
<1>1. /\ pc = "loop" /\ head' = head + 1 /\ head \in Nat /\ head + 1 \in 1..Len(queue) /\ curr' = queue[head + 1]
      /\ UNCHANGED <<adj, start, queue, visited, printed, i, pc>> /\ Len(queue) \in Nat
  <2>1. UNCHANGED <<visited, printed, i, pc>>
    BY DEF BFS!Dequeue
  <2> QED
    BY <2>1, BfsDequeues
<1>2. BfsOrder(lvl) /\ BfsReached(lvl, dist) /\ BfsPrinted(dist)
  BY DEF BfsLayers
<1>3. BfsOrder(lvl)'
  BY <1>1, <1>2, BfsTakeOrder
<1>4. dist[queue[head + 1]] <= lvl[head + 1]
  <2>1. PICK k \in 1..head : lvl[k] = dist[queue[head + 1]]
    BY <1>1, <1>2 DEF BfsReached
  <2>2. k \in 1..Len(queue) /\ k <= head + 1
    BY <1>1
  <2>3. lvl[k] <= lvl[head + 1]
    BY <1>1, <1>2, <2>2 DEF BfsOrder
  <2> QED
    BY <2>1, <2>3
<1>5. ~ BfsBusy /\ ~ BfsBusy'
  BY <1>1 DEF BfsBusy
<1>6. \A k \in 1..(head + 1) : queue[k] \in visited /\ dist[queue[k]] <= lvl[k]
  <2> TAKE k \in 1..(head + 1)
  <2>1. CASE k = head + 1
    BY <1>1, <1>4, <2>1
  <2>2. CASE k # head + 1
    <3>1. k \in 1..head
      BY <1>1, <2>2
    <3> QED
      BY <1>2, <3>1 DEF BfsReached
  <2> QED
    BY <2>1, <2>2
<1>7. \A v \in visited : \E k \in 1..(head + 1) : queue[k] = v /\ lvl[k] = dist[v]
  <2>1. \A k \in 1..head : k \in 1..(head + 1)
    BY <1>1
  <2> QED
    BY <1>2, <2>1 DEF BfsReached
<1>10. /\ \A k \in 2..Len(queue) : \E v \in visited : queue[k] \in Range(adj[v]) /\ lvl[k] = dist[v] + 1
       /\ \A v \in visited : \A j \in 1..Len(adj[v]) :
            \E k \in 2..Len(queue) : queue[k] = adj[v][j] /\ lvl[k] = dist[v] + 1
  BY <1>2, <1>5 DEF BfsReached
<1>8. BfsReached(lvl, dist)'
  <2>1. /\ \A k \in 2..Len(queue') : \E v \in visited' : queue'[k] \in Range(adj'[v]) /\ lvl[k] = dist[v] + 1
        /\ \A v \in visited' : \A j \in 1..Len(adj'[v]) :
             \E k \in 2..Len(queue') : queue'[k] = adj'[v][j] /\ lvl[k] = dist[v] + 1
    BY <1>1, <1>10
  <2>2. /\ \A k \in 1..head' : queue'[k] \in visited' /\ dist[queue'[k]] <= lvl[k]
        /\ \A v \in visited' : \E k \in 1..head' : queue'[k] = v /\ lvl[k] = dist[v]
    BY <1>1, <1>6, <1>7
  <2> QED
    BY <1>5, <2>1, <2>2 DEF BfsReached
<1>9. BfsPrinted(dist)'
  BY <1>1, <1>2 DEF BfsPrinted
<1> QED
  BY <1>3, <1>8, <1>9 DEF BfsLayers

\* A node that is visited now has the level of its entry, which none before exceeds.
LEMMA BfsPrintLayers ==
  ASSUME BfsInv, BFS!Dequeue, curr' \notin visited,
         NEW lvl \in Seq(Nat), NEW dist \in [Nodes -> Nat], BfsLayers(lvl, dist),
         NEW d \in [Nodes -> Nat], Raised(d, dist, visited, queue[head + 1], lvl[head + 1])
  PROVE  BfsLayers(lvl, d)'
<1>1. /\ pc = "loop" /\ head' = head + 1 /\ head \in Nat /\ head + 1 \in 1..Len(queue) /\ curr' = queue[head + 1]
      /\ pc' = "neighbors" /\ i' = 1 /\ visited' = visited \cup {queue[head + 1]}
      /\ printed' = Append(printed, queue[head + 1])
      /\ UNCHANGED <<adj, start, queue>> /\ Len(queue) \in Nat /\ queue[head + 1] \in Nodes
      /\ queue[head + 1] \notin visited
  <2>1. pc' = "neighbors" /\ i' = 1 /\ visited' = visited \cup {curr'} /\ printed' = Append(printed, curr')
    BY DEF BFS!Dequeue
  <2> QED
    BY <2>1, BfsDequeues
<1>2. BfsOrder(lvl) /\ BfsReached(lvl, dist) /\ BfsPrinted(dist)
  BY DEF BfsLayers
<1>11. d[queue[head + 1]] = lvl[head + 1] /\ \A m \in visited : d[m] = dist[m]
  BY DEF Raised
<1>3. BfsOrder(lvl)'
  BY <1>1, <1>2, BfsTakeOrder
<1>4. ~ BfsBusy /\ BfsBusy'
  BY <1>1 DEF BfsBusy
<1>5. \A k \in 1..head : queue[k] \in visited /\ d[queue[k]] <= lvl[k]
  <2>1. \A k \in 1..head : queue[k] \in visited /\ dist[queue[k]] <= lvl[k]
    BY <1>2 DEF BfsReached
  <2> QED
    BY <1>11, <2>1
<1>6. \A v \in visited : \E k \in 1..head : queue[k] = v /\ lvl[k] = d[v]
  <2>1. \A v \in visited : \E k \in 1..head : queue[k] = v /\ lvl[k] = dist[v]
    BY <1>2 DEF BfsReached
  <2> QED
    BY <1>11, <2>1
<1>9. \A k \in 2..Len(queue) : \E v \in visited : queue[k] \in Range(adj[v]) /\ lvl[k] = d[v] + 1
  <2>1. \A k \in 2..Len(queue) : \E v \in visited : queue[k] \in Range(adj[v]) /\ lvl[k] = dist[v] + 1
    BY <1>2 DEF BfsReached
  <2> QED
    BY <1>11, <2>1
<1>10. \A v \in visited : \A j \in 1..Len(adj[v]) :
         \E k \in 2..Len(queue) : queue[k] = adj[v][j] /\ lvl[k] = d[v] + 1
  <2> TAKE v \in visited
  <2> TAKE j \in 1..Len(adj[v])
  <2>1. \E k \in 2..Len(queue) : queue[k] = adj[v][j] /\ lvl[k] = dist[v] + 1
    BY <1>2, <1>4 DEF BfsReached
  <2>2. d[v] = dist[v]
    BY <1>11
  <2> QED
    BY <2>1, <2>2
<1>7. BfsReached(lvl, d)'
  <2>1. \A k \in 2..Len(queue) : \E v \in visited' : queue[k] \in Range(adj[v]) /\ lvl[k] = d[v] + 1
    BY <1>1, <1>9
  <2>2. \A k \in 1..(head + 1) : queue[k] \in visited' /\ d[queue[k]] <= lvl[k]
    <3> TAKE k \in 1..(head + 1)
    <3>1. CASE k = head + 1
      BY <1>1, <1>11, <3>1
    <3>2. CASE k # head + 1
      <4>1. k \in 1..head
        BY <1>1, <3>2
      <4> QED
        BY <1>1, <1>5, <4>1
    <3> QED
      BY <3>1, <3>2
  <2>3. \A v \in visited' : \E k \in 1..(head + 1) : queue[k] = v /\ lvl[k] = d[v]
    <3> TAKE v \in visited'
    <3>1. CASE v = queue[head + 1]
      <4>1. head + 1 \in 1..(head + 1)
        BY <1>1
      <4> QED
        BY <1>11, <3>1, <4>1
    <3>2. CASE v \in visited
      BY <1>1, <1>6, <3>2
    <3> QED
      BY <1>1, <3>1, <3>2
  <2>4. ASSUME NEW v \in visited', NEW j \in 1..Len(adj'[v]), BfsBusy' /\ v = curr' => j < i'
        PROVE  \E k \in 2..Len(queue') : queue'[k] = adj'[v][j] /\ lvl[k] = d[v] + 1
    <3>1. v # curr'
      BY <1>1, <1>4, <2>4
    <3>2. v \in visited
      BY <1>1, <3>1
    <3> QED
      BY <1>1, <1>10, <3>2
  <2>5. BfsBusy' => head' > 0 /\ curr' = queue'[head'] /\ d[curr'] = lvl[head']
    BY <1>1, <1>11
  <2>6. \A v \in visited' : \A j \in 1..Len(adj'[v]) : (BfsBusy' /\ v = curr' => j < i') =>
          \E k \in 2..Len(queue') : queue'[k] = adj'[v][j] /\ lvl[k] = d[v] + 1
    BY <2>4
  <2>7. /\ \A k \in 2..Len(queue') : \E v \in visited' : queue'[k] \in Range(adj'[v]) /\ lvl[k] = d[v] + 1
        /\ \A k \in 1..head' : queue'[k] \in visited' /\ d[queue'[k]] <= lvl[k]
        /\ \A v \in visited' : \E k \in 1..head' : queue'[k] = v /\ lvl[k] = d[v]
    BY <1>1, <2>1, <2>2, <2>3
  <2> QED
    BY <2>5, <2>6, <2>7 DEF BfsReached
<1>8. BfsPrinted(d)'
  <2>1. printed \in Seq(Nodes) /\ Len(printed) \in Nat
    BY <1>2 DEF BfsPrinted
  <2>2. /\ printed' \in Seq(Nodes) /\ Len(printed') = Len(printed) + 1
        /\ \A k \in 1..Len(printed) : printed'[k] = printed[k]
        /\ printed'[Len(printed) + 1] = queue[head + 1]
    BY <1>1, <2>1
  <2>3. \A k \in 1..Len(printed) : printed[k] \in visited
    BY <1>2 DEF BfsPrinted
  <2>4. \A v \in visited : d[v] <= lvl[head + 1]
    <3> TAKE v \in visited
    <3>1. PICK k \in 1..head : lvl[k] = d[v]
      BY <1>6
    <3>2. k \in 1..Len(queue) /\ k <= head + 1
      BY <1>1
    <3> QED
      BY <1>1, <1>2, <3>1, <3>2 DEF BfsOrder
  <2>5. \A k \in 1..Len(printed') : printed'[k] \in visited'
    <3> TAKE k \in 1..Len(printed')
    <3>1. k \in 1..Len(printed) \/ k = Len(printed) + 1
      BY <2>1, <2>2
    <3> QED
      BY <1>1, <2>2, <2>3, <3>1
  <2>6. \A v \in visited' : \E k \in 1..Len(printed') : printed'[k] = v
    <3> TAKE v \in visited'
    <3>1. CASE v = queue[head + 1]
      <4>1. Len(printed) + 1 \in 1..Len(printed')
        BY <2>1, <2>2
      <4> QED
        BY <2>2, <3>1, <4>1
    <3>2. CASE v \in visited
      <4>1. PICK k \in 1..Len(printed) : printed[k] = v
        BY <1>2, <3>2 DEF BfsPrinted
      <4>2. k \in 1..Len(printed')
        BY <2>1, <2>2
      <4> QED
        BY <2>2, <4>1, <4>2
    <3> QED
      BY <1>1, <3>1, <3>2
  <2>7. ASSUME NEW j \in 1..Len(printed'), NEW k \in 1..Len(printed'), j < k
        PROVE  printed'[j] # printed'[k] /\ d[printed'[j]] <= d[printed'[k]]
    <3>1. j \in 1..Len(printed) /\ printed'[j] = printed[j] /\ printed[j] \in visited
      <4>1. j \in 1..Len(printed)
        BY <2>1, <2>2, <2>7
      <4> QED
        BY <2>2, <2>3, <4>1
    <3>2. CASE k = Len(printed) + 1
      BY <1>1, <1>11, <2>2, <2>4, <3>1, <3>2
    <3>3. CASE k \in 1..Len(printed)
      <4>1. printed'[k] = printed[k] /\ printed[k] \in visited
        BY <2>2, <2>3, <3>3
      <4>2. printed[j] # printed[k] /\ dist[printed[j]] <= dist[printed[k]]
        BY <1>2, <2>7, <3>1, <3>3 DEF BfsPrinted
      <4> QED
        BY <1>11, <3>1, <4>1, <4>2
    <3> QED
      BY <2>1, <2>2, <3>2, <3>3
  <2> QED
    BY <2>2, <2>5, <2>6, <2>7 DEF BfsPrinted
<1> QED
  BY <1>3, <1>7, <1>8 DEF BfsLayers

\* The new entry is a level above the node being expanded.
LEMMA BfsEnqueueLayers ==
  ASSUME BfsInv, BFS!Enqueue, Len(queue) < Capacity,
         NEW lvl \in Seq(Nat), NEW dist \in [Nodes -> Nat], BfsLayers(lvl, dist),
         NEW l \in Seq(Nat), Len(l) = Len(queue) + 1, Raised(l, lvl, 1..Len(queue), Len(queue) + 1, dist[curr] + 1)
  PROVE  BfsLayers(l, dist)'
<1>1. /\ pc = "neighbors" /\ pc' = "neighbors" /\ i \in 1..Len(adj[curr]) /\ i' = i + 1 /\ curr \in visited
      /\ curr \in Nodes /\ adj[curr][i] \in Range(adj[curr]) /\ head \in 0..Len(queue)
      /\ UNCHANGED <<adj, start, head, visited, printed, curr>>
  BY BfsEnqueues
<1>2. /\ Len(queue) \in Nat /\ Len(queue') = Len(queue) + 1
      /\ \A k \in 1..Len(queue) : queue'[k] = queue[k]
      /\ queue'[Len(queue) + 1] = adj[curr][i]
  BY BfsEnqueues
<1>10. /\ l[Len(queue) + 1] = dist[curr] + 1
       /\ \A k \in 1..Len(queue) : l[k] = lvl[k]
  BY DEF Raised
<1>3. BfsOrder(lvl) /\ BfsReached(lvl, dist) /\ BfsPrinted(dist)
  BY DEF BfsLayers
<1>4. BfsBusy /\ BfsBusy'
  BY <1>1 DEF BfsBusy
<1>5. head \in 1..Len(queue) /\ curr = queue[head] /\ dist[curr] = lvl[head] /\ head > 0 /\ head # 0
  BY <1>1, <1>2, <1>3, <1>4 DEF BfsReached
<1>6. /\ \A k \in 1..Len(queue) : lvl[k] \in Nat /\ l[k] = lvl[k] /\ lvl[k] <= dist[curr] + 1
      /\ dist[curr] \in Nat
  <2>1. dist[curr] \in Nat
    BY <1>1
  <2>2. \A k \in 1..Len(queue) : lvl[k] \in Nat
    BY <1>2, <1>3 DEF BfsOrder
  <2>3. \A k \in 1..Len(queue) : lvl[k] <= dist[curr] + 1
    BY <1>3, <1>5 DEF BfsOrder
  <2> QED
    BY <1>10, <2>1, <2>2, <2>3
<1>7. BfsOrder(l)'
  <2>1. queue' # <<>> /\ queue'[1] = start /\ l[1] = 0
    <3>1. 1 \in 1..Len(queue)
      BY <1>2, <1>5
    <3> QED
      BY <1>2, <1>3, <1>6, <3>1 DEF BfsOrder
  <2>2. ASSUME NEW j \in 1..Len(queue'), NEW k \in 1..Len(queue'), j <= k PROVE l[j] <= l[k]
    <3>1. CASE k \in 1..Len(queue)
      <4>1. j \in 1..Len(queue)
        BY <1>2, <2>2, <3>1
      <4> QED
        BY <1>3, <1>6, <2>2, <3>1, <4>1 DEF BfsOrder
    <3>2. CASE k = Len(queue) + 1
      <4>1. j \in 1..Len(queue) \/ j = k
        BY <1>2, <3>2
      <4> QED
        BY <1>6, <1>10, <3>2, <4>1
    <3> QED
      BY <1>2, <3>1, <3>2
  <2>3. \A k \in 1..Len(queue') : l[k] <= l[head] + 1
    <3> TAKE k \in 1..Len(queue')
    <3>1. k \in 1..Len(queue) \/ k = Len(queue) + 1
      BY <1>2
    <3> QED
      BY <1>5, <1>6, <1>10, <3>1
  <2> QED
    BY <1>1, <1>2, <1>5, <2>1, <2>2, <2>3 DEF BfsOrder
<1>8. BfsReached(l, dist)'
  <2>1. \A k \in 2..Len(queue') : \E v \in visited : queue'[k] \in Range(adj[v]) /\ l[k] = dist[v] + 1
    <3> TAKE k \in 2..Len(queue')
    <3>1. CASE k = Len(queue) + 1
      <4>1. adj[curr][i] \in Range(adj[curr])
        BY <1>1 DEF Range
      <4> QED
        BY <1>1, <1>2, <1>10, <3>1, <4>1
    <3>2. CASE k # Len(queue) + 1
      <4>1. k \in 2..Len(queue) /\ k \in 1..Len(queue)
        BY <1>2, <3>2
      <4>2. \E v \in visited : queue[k] \in Range(adj[v]) /\ lvl[k] = dist[v] + 1
        BY <1>3, <4>1 DEF BfsReached
      <4> QED
        BY <1>2, <1>6, <4>1, <4>2
    <3> QED
      BY <3>1, <3>2
  <2>2. \A k \in 1..head : k \in 1..Len(queue) /\ queue'[k] = queue[k] /\ l[k] = lvl[k]
    BY <1>2, <1>5, <1>6
  <2>3. \A k \in 1..head : queue'[k] \in visited /\ dist[queue'[k]] <= l[k]
    BY <1>3, <2>2 DEF BfsReached
  <2>4. \A v \in visited : \E k \in 1..head : queue'[k] = v /\ l[k] = dist[v]
    BY <1>3, <2>2 DEF BfsReached
  <2>5. ASSUME NEW v \in visited, NEW j \in 1..Len(adj[v]), v = curr => j < i + 1
        PROVE  \E k \in 2..Len(queue') : queue'[k] = adj[v][j] /\ l[k] = dist[v] + 1
    <3>1. CASE v = curr /\ j = i
      <4>1. Len(queue) + 1 \in 2..Len(queue')
        BY <1>2, <1>5
      <4> QED
        BY <1>2, <1>10, <3>1, <4>1
    <3>2. CASE v # curr \/ j # i
      <4>1. BfsBusy /\ v = curr => j < i
        BY <1>1, <2>5, <3>2
      <4>2. PICK k \in 2..Len(queue) : queue[k] = adj[v][j] /\ lvl[k] = dist[v] + 1
        BY <1>3, <4>1 DEF BfsReached
      <4>3. k \in 1..Len(queue) /\ k \in 2..Len(queue')
        BY <1>2
      <4> QED
        BY <1>2, <1>6, <4>2, <4>3
    <3> QED
      BY <3>1, <3>2
  <2>6. curr = queue'[head] /\ dist[curr] = l[head]
    BY <1>2, <1>5, <1>6
  <2> QED
    BY <1>1, <1>4, <1>5, <2>1, <2>3, <2>4, <2>5, <2>6 DEF BfsReached
<1>9. BfsPrinted(dist)'
  BY <1>1, <1>3 DEF BfsPrinted
<1> QED
  BY <1>7, <1>8, <1>9 DEF BfsLayers

\* The rest changes neither the queue nor what is visited.
LEMMA BfsStillLayers ==
  ASSUME BfsInv, UNCHANGED <<adj, start, queue, head, visited, printed, curr, i>>,
         BfsBusy' = BfsBusy \/ (~ BfsBusy' /\ i > Len(adj[curr])),
         NEW lvl \in Seq(Nat), NEW dist \in [Nodes -> Nat], BfsLayers(lvl, dist)
  PROVE  BfsLayers(lvl, dist)'
<1>1. BfsOrder(lvl) /\ BfsReached(lvl, dist) /\ BfsPrinted(dist)
  BY DEF BfsLayers
<1>2. BfsOrder(lvl)' /\ BfsPrinted(dist)'
  BY <1>1 DEF BfsOrder, BfsPrinted
<1>3. ASSUME NEW v \in visited, NEW j \in 1..Len(adj[v]), BfsBusy' /\ v = curr => j < i
      PROVE  \E k \in 2..Len(queue) : queue[k] = adj[v][j] /\ lvl[k] = dist[v] + 1
  <2>1. BfsBusy /\ v = curr => j < i
    <3>1. CASE BfsBusy' = BfsBusy
      BY <1>3, <3>1
    <3>2. CASE ~ BfsBusy' /\ i > Len(adj[curr])
      <4>1. Len(adj[curr]) \in Nat /\ i \in Nat
        BY DEF BfsInv, BfsTypeOK
      <4> QED
        BY <3>2, <4>1
    <3> QED
      BY <3>1, <3>2
  <2> QED
    BY <1>1, <2>1 DEF BfsReached
<1>4. BfsBusy' => BfsBusy
  OBVIOUS
<1>5. BfsReached(lvl, dist)'
  BY <1>1, <1>3, <1>4 DEF BfsReached
<1> QED
  BY <1>2, <1>5 DEF BfsLayers

\* Every step keeps it.
LEMMA BfsFullNext == BfsFullInv /\ [BFS!Next]_BFS!vars => BfsFullInv'
<1> SUFFICES ASSUME BfsFullInv, [BFS!Next]_BFS!vars PROVE BfsFullInv'
  OBVIOUS
<1>1. BfsInv /\ BfsInv'
  BY BfsNextInv DEF BfsFullInv
<1>2. PICK lvl \in Seq(Nat), dist \in [Nodes -> Nat] : BfsLayers(lvl, dist)
  BY DEF BfsFullInv
<1>3. CASE BFS!Dequeue
  <2>1. CASE curr' \in visited
    <3>1. BfsLayers(lvl, dist)'
      BY <1>1, <1>2, <1>3, <2>1, BfsSeenLayers
    <3> QED
      BY <1>1, <3>1 DEF BfsFullInv
  <2>2. CASE curr' \notin visited
    <3>1. queue[head + 1] \in Nodes /\ queue[head + 1] \notin visited /\ visited \subseteq Nodes /\ head + 1 \in Nat
      BY <1>1, <1>3, <2>2 DEF BFS!Dequeue, BfsInv, BfsTypeOK
    <3>2. PICK d \in [Nodes -> Nat] : Raised(d, dist, visited, queue[head + 1], lvl[head + 1])
      <4>1. lvl[head + 1] \in Nat
        BY <1>1, <1>2, <1>3, BfsDequeues DEF BfsLayers, BfsOrder
      <4> DEFINE e == [dist EXCEPT ![queue[head + 1]] = lvl[head + 1]]
      <4>2. e \in [Nodes -> Nat] /\ e[queue[head + 1]] = lvl[head + 1]
        BY <3>1, <4>1
      <4>3. \A m \in visited : e[m] = dist[m]
        BY <3>1
      <4> HIDE DEF e
      <4> QED
        BY <4>2, <4>3 DEF Raised
    <3>3. BfsLayers(lvl, d)'
      BY <1>1, <1>2, <1>3, <2>2, <3>2, BfsPrintLayers
    <3> QED
      BY <1>1, <3>3 DEF BfsFullInv
  <2> QED
    BY <2>1, <2>2
<1>4. CASE BFS!Enqueue
  <2>1. CASE Len(queue) < Capacity
    <3>1. Len(queue) \in Nat /\ curr \in Nodes
      BY <1>1 DEF BfsInv, BfsTypeOK
    <3>2. PICK l \in Seq(Nat) : Len(l) = Len(queue) + 1 /\ Raised(l, lvl, 1..Len(queue), Len(queue) + 1, dist[curr] + 1)
      <4>1. dist[curr] + 1 \in Nat /\ Len(queue) + 1 \in Nat
        BY <3>1
      <4>4. Len(lvl) = Len(queue)
        BY <1>2 DEF BfsLayers, BfsOrder
      <4> DEFINE e == Append(lvl, dist[curr] + 1)
      <4>2. e \in Seq(Nat) /\ e[Len(queue) + 1] = dist[curr] + 1 /\ Len(e) = Len(queue) + 1
        BY <4>1, <4>4
      <4>3. \A k \in 1..Len(queue) : e[k] = lvl[k]
        BY <3>1, <4>1, <4>4
      <4> HIDE DEF e
      <4> QED
        BY <4>2, <4>3 DEF Raised
    <3>3. BfsLayers(l, dist)'
      BY <1>1, <1>2, <1>4, <2>1, <3>2, BfsEnqueueLayers
    <3> QED
      BY <1>1, <3>3 DEF BfsFullInv
  <2>2. CASE ~ (Len(queue) < Capacity)
    <3>1. UNCHANGED <<adj, start, queue, head, visited, printed, curr, i>> /\ BfsBusy /\ BfsBusy'
      BY <1>4, <2>2 DEF BFS!Enqueue, BfsBusy
    <3>2. BfsLayers(lvl, dist)'
      BY <1>1, <1>2, <3>1, BfsStillLayers
    <3> QED
      BY <1>1, <3>2 DEF BfsFullInv
  <2> QED
    BY <2>1, <2>2
<1>5. CASE BFS!Expanded \/ BFS!Return \/ UNCHANGED BFS!vars
  <2>1. /\ UNCHANGED <<adj, start, queue, head, visited, printed, curr, i>>
        /\ BfsBusy' = BfsBusy \/ (~ BfsBusy' /\ i > Len(adj[curr]))
    <3>1. CASE BFS!Expanded
      BY <3>1 DEF BFS!Expanded, BfsBusy
    <3>2. CASE BFS!Return
      BY <3>2 DEF BFS!Return, BfsBusy
    <3>3. CASE UNCHANGED BFS!vars
      BY <3>3 DEF BFS!vars, BfsBusy
    <3> QED
      BY <1>5, <3>1, <3>2, <3>3
  <2>2. BfsLayers(lvl, dist)'
    BY <1>1, <1>2, <2>1, BfsStillLayers
  <2> QED
    BY <1>1, <2>2 DEF BfsFullInv
<1> QED
  BY <1>3, <1>4, <1>5 DEF BFS!Next

\* A visited node is no further away than its level.
LEMMA BfsFar ==
  ASSUME BfsInv, NEW lvl \in Seq(Nat), NEW dist \in [Nodes -> Nat], BfsLayers(lvl, dist)
  PROVE  \A v \in visited : v \in Within(adj, start, dist[v])
<1> DEFINE B == { d \in Nat : \E v \in visited : dist[v] = d /\ v \notin Within(adj, start, d) }
<1>0. visited \subseteq Nodes /\ BfsOrder(lvl) /\ BfsReached(lvl, dist)
  BY DEF BfsInv, BfsTypeOK, BfsLayers
<1> SUFFICES ASSUME B # {} PROVE FALSE
  BY <1>0
<1>1. PICK d \in B : \A k \in B : d <= k
  <2>1. B \in SUBSET Nat /\ B # {}
    OBVIOUS
  <2> HIDE DEF B
  <2> QED
    BY <2>1, Least
<1>2. PICK v \in visited : dist[v] = d /\ v \notin Within(adj, start, d)
  OBVIOUS
<1>3. PICK k \in 1..head : queue[k] = v /\ lvl[k] = dist[v]
  BY <1>0, <1>2 DEF BfsReached
<1>4. k \in 1..Len(queue) /\ Len(queue) \in Nat
  BY DEF BfsInv, BfsTypeOK
<1>5. CASE k = 1
  <2>1. v = start /\ d = 0
    BY <1>0, <1>2, <1>3, <1>5 DEF BfsOrder
  <2>2. Within(adj, start, 0) = {start}
    BY WithinSteps
  <2> QED
    BY <1>2, <2>1, <2>2
<1>6. CASE k # 1
  <2>1. k \in 2..Len(queue)
    BY <1>4, <1>6
  <2>2. PICK u \in visited : queue[k] \in Range(adj[u]) /\ lvl[k] = dist[u] + 1
    BY <1>0, <2>1 DEF BfsReached
  <2>3. dist[u] \in Nat /\ d = dist[u] + 1
    BY <1>0, <1>2, <1>3, <2>2
  <2>4. u \in Within(adj, start, dist[u])
    <3>1. ~ (d <= dist[u]) /\ dist[u] \in Nat
      BY <1>1, <2>3
    <3>2. dist[u] \notin B
      <4> HIDE DEF B
      <4> QED
        BY <1>1, <3>1
    <3> QED
      BY <2>2, <3>1, <3>2
  <2>5. Within(adj, start, d) = Beyond(adj, Within(adj, start, dist[u]))
    <3> HIDE DEF B
    <3>1. \A j \in Nat : Within(adj, start, j + 1) = Beyond(adj, Within(adj, start, j))
      BY WithinSteps
    <3> QED
      BY <2>3, <3>1
  <2> QED
    BY <1>2, <1>3, <2>2, <2>4, <2>5 DEF Beyond
<1> QED
  BY <1>5, <1>6

\* A node within d steps has that level at most, unless the queue has not come to it.
LEMMA BfsNear ==
  ASSUME BfsInv, head > 0, NEW lvl \in Seq(Nat), NEW dist \in [Nodes -> Nat], BfsLayers(lvl, dist)
  PROVE  \A d \in Nat : lvl[head] <= d \/ \A m \in Within(adj, start, d) : m \in visited /\ dist[m] <= d
<1> DEFINE B == { d \in Nat : ~ (lvl[head] <= d \/ \A m \in Within(adj, start, d) : m \in visited /\ dist[m] <= d) }
<1>0. /\ visited \subseteq Nodes /\ BfsOrder(lvl) /\ BfsReached(lvl, dist)
      /\ adj \in [Nodes -> Seq(Nodes)]
      /\ head \in 1..Len(queue) /\ Len(queue) \in Nat
  BY DEF BfsInv, BfsTypeOK, BfsLayers
<1>10. \A k \in 1..Len(queue) : lvl[k] \in Nat
  BY <1>0 DEF BfsOrder
<1> SUFFICES ASSUME B # {} PROVE FALSE
  OBVIOUS
<1>1. PICK d \in B : \A k \in B : d <= k
  <2>1. B \in SUBSET Nat /\ B # {}
    OBVIOUS
  <2> HIDE DEF B
  <2> QED
    BY <2>1, Least
<1>2. d \in Nat /\ ~ (lvl[head] <= d) /\ lvl[head] \in Nat
  BY <1>0, <1>1, <1>10
<1>3. PICK m \in Within(adj, start, d) : ~ (m \in visited /\ dist[m] <= d)
  BY <1>1
<1>4. CASE d = 0
  <2>1. m = start
    BY <1>3, <1>4, WithinSteps
  <2>2. 1 \in 1..head /\ queue[1] = start /\ lvl[1] = 0
    BY <1>0 DEF BfsOrder
  <2>3. start \in visited /\ dist[start] <= 0
    BY <1>0, <2>2 DEF BfsReached
  <2> QED
    BY <1>3, <1>4, <2>1, <2>3
<1>5. CASE d # 0
  <2>1. d - 1 \in Nat /\ (d - 1) + 1 = d /\ ~ (d <= d - 1)
    BY <1>2, <1>5
  <2>2. \A n \in Within(adj, start, d - 1) : n \in visited /\ dist[n] <= d - 1
    BY <1>1, <1>2, <2>1
  <2>3. Within(adj, start, d) = Beyond(adj, Within(adj, start, d - 1))
    <3> HIDE DEF B
    <3>1. \A k \in Nat : Within(adj, start, k + 1) = Beyond(adj, Within(adj, start, k))
      BY WithinSteps
    <3> QED
      BY <2>1, <3>1
  <2>4. CASE m \in Within(adj, start, d - 1)
    <3>1. m \in visited /\ dist[m] <= d - 1 /\ dist[m] \in Nat
      BY <1>0, <2>2, <2>4
    <3> QED
      BY <1>2, <1>3, <3>1
  <2>5. CASE m \notin Within(adj, start, d - 1)
    <3>1. PICK n \in Within(adj, start, d - 1) : m \in Range(adj[n])
      BY <1>3, <2>3, <2>5 DEF Beyond
    <3>2. n \in visited /\ n \in Nodes /\ dist[n] \in Nat /\ dist[n] <= d - 1 /\ adj[n] \in Seq(Nodes)
      BY <1>0, <2>2, <3>1
    <3>3. PICK j \in 1..Len(adj[n]) : adj[n][j] = m
      BY <3>1, <3>2 DEF Range
    <3>4. ~ (BfsBusy /\ n = curr)
      <4>1. BfsBusy => dist[curr] = lvl[head]
        BY <1>0 DEF BfsReached
      <4> QED
        BY <1>2, <3>2, <4>1
    <3>5. PICK k \in 2..Len(queue) : queue[k] = m /\ lvl[k] = dist[n] + 1
      BY <1>0, <3>2, <3>3, <3>4 DEF BfsReached
    <3>6. k \in 1..Len(queue) /\ lvl[k] <= d
      BY <1>2, <3>2, <3>5
    <3>7. k <= head
      <4> SUFFICES ASSUME ~ (k <= head) PROVE FALSE
        OBVIOUS
      <4>1. head <= k
        BY <1>0
      <4>2. lvl[head] <= lvl[k]
        BY <1>0, <3>6, <4>1 DEF BfsOrder
      <4> QED
        BY <1>2, <1>10, <3>6, <4>2
    <3>8. m \in visited /\ dist[m] <= lvl[k]
      <4>1. k \in 1..head
        BY <1>0, <3>5, <3>7
      <4> QED
        BY <1>0, <3>5, <4>1 DEF BfsReached
    <3>9. dist[m] \in Nat /\ lvl[k] \in Nat
      BY <1>0, <1>10, <3>6, <3>8
    <3> QED
      BY <1>2, <1>3, <3>6, <3>8, <3>9
  <2> QED
    BY <2>4, <2>5
<1> QED
  BY <1>4, <1>5

\* So a visited node's level is its distance.
LEMMA BfsDistance ==
  ASSUME BfsInv, NEW lvl \in Seq(Nat), NEW dist \in [Nodes -> Nat], BfsLayers(lvl, dist),
         NEW v \in visited, NEW d \in Nat
  PROVE  v \in Within(adj, start, d) <=> dist[v] <= d
<1>0. /\ visited \subseteq Nodes /\ BfsOrder(lvl) /\ BfsReached(lvl, dist) /\ dist[v] \in Nat
      /\ head \in Nat /\ Len(queue) \in Nat /\ head \in 0..Len(queue)
  BY DEF BfsInv, BfsTypeOK, BfsLayers
<1>1. ASSUME dist[v] <= d PROVE v \in Within(adj, start, d)
  <2>1. v \in Within(adj, start, dist[v])
    BY BfsFar
  <2>2. Within(adj, start, dist[v]) \subseteq Within(adj, start, d)
    BY <1>0, <1>1, WithinGrows
  <2> QED
    BY <2>1, <2>2
<1>2. ASSUME v \in Within(adj, start, d) PROVE dist[v] <= d
  <2>1. PICK k \in 1..head : queue[k] = v /\ lvl[k] = dist[v]
    BY <1>0 DEF BfsReached
  <2>2. head > 0 /\ head \in 1..Len(queue) /\ k \in 1..Len(queue) /\ k <= head
    BY <1>0, <2>1
  <2>3. lvl[head] \in Nat /\ lvl[k] <= lvl[head]
    BY <1>0, <2>2 DEF BfsOrder
  <2>4. lvl[head] <= d \/ (v \in visited /\ dist[v] <= d)
    BY <1>2, <2>2, BfsNear
  <2> QED
    BY <1>0, <2>1, <2>3, <2>4
<1> QED
  BY <1>1, <1>2

\* Nothing leaves what is visited when the queue is empty.
LEMMA BfsClosedWhenEmpty ==
  ASSUME BfsInv, head = Len(queue), ~ BfsBusy,
         NEW lvl \in Seq(Nat), NEW dist \in [Nodes -> Nat], BfsLayers(lvl, dist)
  PROVE  start \in visited /\ \A v \in visited : Range(adj[v]) \subseteq visited
<1>0. /\ visited \subseteq Nodes /\ BfsOrder(lvl) /\ BfsReached(lvl, dist) /\ queue \in Seq(Nodes)
      /\ adj \in [Nodes -> Seq(Nodes)]
  BY DEF BfsInv, BfsTypeOK, BfsLayers
<1>1. \A k \in 1..Len(queue) : queue[k] \in visited
  BY <1>0 DEF BfsReached
<1>2. start \in visited
  <2>1. 1 \in 1..Len(queue) /\ queue[1] = start
    BY <1>0 DEF BfsOrder
  <2> QED
    BY <1>1, <2>1
<1>3. ASSUME NEW v \in visited, NEW m \in Range(adj[v]) PROVE m \in visited
  <2>1. PICK j \in 1..Len(adj[v]) : adj[v][j] = m
    BY <1>0, <1>3 DEF Range
  <2>2. \E k \in 2..Len(queue) : queue[k] = m
    <3>1. \A w \in visited : \A l \in 1..Len(adj[w]) : \E k \in 2..Len(queue) : queue[k] = adj[w][l]
      BY <1>0 DEF BfsReached
    <3> QED
      BY <2>1, <3>1
  <2>3. Len(queue) \in Nat
    BY <1>0
  <2> QED
    BY <1>1, <2>2, <2>3
<1> QED
  BY <1>2, <1>3

\* The levels of the visited nodes have no gap, so there are as many nodes as levels.
LEMMA BfsLevels ==
  ASSUME BfsInv, NEW lvl \in Seq(Nat), NEW dist \in [Nodes -> Nat], BfsLayers(lvl, dist), NEW v \in visited
  PROVE  dist[v] < Cardinality(Nodes)
<1> DEFINE D == { dist[u] : u \in visited }
<1>0. visited \subseteq Nodes /\ BfsOrder(lvl) /\ BfsReached(lvl, dist) /\ dist[v] \in Nat
  BY DEF BfsInv, BfsTypeOK, BfsLayers
<1>1. ASSUME NEW d \in D, d # 0 PROVE d - 1 \in D
  <2>1. PICK u \in visited : dist[u] = d
    OBVIOUS
  <2>2. PICK k \in 1..head : queue[k] = u /\ lvl[k] = dist[u]
    BY <1>0 DEF BfsReached
  <2>3. k \in 1..Len(queue) /\ k # 1
    <3>1. k \in 1..Len(queue)
      BY DEF BfsInv, BfsTypeOK
    <3> QED
      BY <1>0, <1>1, <2>1, <2>2, <3>1 DEF BfsOrder
  <2>4. k \in 2..Len(queue)
    BY <2>3
  <2>5. PICK w \in visited : lvl[k] = dist[w] + 1
    BY <1>0, <2>4 DEF BfsReached
  <2>6. dist[w] \in Nat /\ d = dist[w] + 1
    BY <1>0, <2>1, <2>2, <2>5
  <2>7. d - 1 = dist[w]
    BY <2>6
  <2> QED
    BY <2>7
<1>2. 0..dist[v] \subseteq D
  <2> DEFINE B == { k \in Nat : k <= dist[v] /\ dist[v] - k \notin D }
  <2>1. B = {}
    <3> SUFFICES ASSUME B # {} PROVE FALSE
      OBVIOUS
    <3>1. PICK k \in B : \A j \in B : k <= j
      <4>1. B \in SUBSET Nat /\ B # {}
        OBVIOUS
      <4> HIDE DEF B
      <4> QED
        BY <4>1, Least
    <3>2. k # 0
      BY <1>0
    <3>3. k - 1 \in Nat /\ k - 1 <= dist[v] /\ ~ (k <= k - 1)
      BY <1>0, <3>2
    <3>4. dist[v] - (k - 1) \in D
      <4>1. k - 1 \notin B
        BY <3>1, <3>3
      <4> QED
        BY <3>3, <4>1
    <3>5. dist[v] - (k - 1) # 0 /\ (dist[v] - (k - 1)) - 1 = dist[v] - k
      BY <1>0, <3>1
    <3> QED
      BY <1>1, <3>1, <3>4, <3>5
  <2>2. ASSUME NEW d \in 0..dist[v] PROVE d \in D
    <3>1. dist[v] - d \in Nat /\ dist[v] - d <= dist[v] /\ dist[v] - (dist[v] - d) = d
      BY <1>0
    <3>2. dist[v] - d \notin B
      BY <2>1
    <3> QED
      BY <3>1, <3>2
  <2> QED
    BY <2>2
<1>3. IsFiniteSet(visited) /\ Cardinality(visited) <= Cardinality(Nodes) /\ Cardinality(visited) \in Nat
  BY <1>0, PoolAssumption, FS_Subset, FS_CardinalityType
<1>4. IsFiniteSet(D) /\ Cardinality(D) <= Cardinality(visited)
  <2> DEFINE f == [u \in visited |-> dist[u]]
  <2>1. f \in Surjection(visited, D)
    BY DEF Surjection
  <2> HIDE DEF D, f
  <2> QED
    BY <1>3, <2>1, FS_Surjection
<1>5. Cardinality(0..dist[v]) = dist[v] + 1 /\ Cardinality(0..dist[v]) <= Cardinality(D)
  <2> HIDE DEF D
  <2>1. Cardinality(0..dist[v]) <= Cardinality(D)
    BY <1>2, <1>4, FS_Subset
  <2>2. Cardinality(0..dist[v]) = dist[v] - 0 + 1
    BY <1>0, FS_Interval
  <2> QED
    BY <1>0, <2>1, <2>2
<1>6. Cardinality(D) \in Nat /\ Cardinality(Nodes) \in Nat
  <2> HIDE DEF D
  <2> QED
    BY <1>4, PoolAssumption, FS_CardinalityType
<1> QED
  BY <1>0, <1>3, <1>4, <1>5, <1>6

\* What the levels mean at the end: the level of a node is its distance.
LEMMA BfsInLayers ==
  ASSUME BfsFullInv PROVE BFS!PrintsInLayers
<1>1. BfsInv
  BY DEF BfsFullInv
<1>2. PICK lvl \in Seq(Nat), dist \in [Nodes -> Nat] : BfsLayers(lvl, dist)
  BY DEF BfsFullInv
<1>3. BfsPrinted(dist)
  BY <1>2 DEF BfsLayers
<1>4. \A m, d : BFS!Within(adj, m, d) = Within(adj, m, d)
  BY DEF BFS!Within, Within, Range, BFS!Range
<1>5. BFS!Cardinality(Nodes) = Cardinality(Nodes) /\ Cardinality(Nodes) \in Nat
  <2>1. Cardinality(Nodes) \in Nat
    BY PoolAssumption, FS_CardinalityType
  <2> QED
    BY <2>1 DEF Cardinality, BFS!Cardinality
<1>6. ASSUME NEW j \in 1..Len(printed), NEW k \in 1..Len(printed), j < k
      PROVE  /\ printed[j] # printed[k]
             /\ \A d \in 0..Cardinality(Nodes) :
                  printed[k] \in Within(adj, start, d) => printed[j] \in Within(adj, start, d)
  <2>1. /\ printed[j] # printed[k] /\ dist[printed[j]] <= dist[printed[k]]
        /\ printed[j] \in visited /\ printed[k] \in visited
    BY <1>3, <1>6 DEF BfsPrinted
  <2>2. dist[printed[j]] \in Nat /\ dist[printed[k]] \in Nat
    BY <1>1, <2>1 DEF BfsInv, BfsTypeOK
  <2>3. ASSUME NEW d \in 0..Cardinality(Nodes), printed[k] \in Within(adj, start, d)
        PROVE  printed[j] \in Within(adj, start, d)
    <3>1. d \in Nat
      BY <1>5
    <3>2. dist[printed[k]] <= d
      BY <1>1, <1>2, <2>1, <2>3, <3>1, BfsDistance
    <3>3. dist[printed[j]] <= d
      BY <2>1, <2>2, <3>1, <3>2
    <3> QED
      BY <1>1, <1>2, <2>1, <3>1, <3>3, BfsDistance
  <2> QED
    BY <2>1, <2>3
<1>7. ASSUME pc = "done" PROVE Range(printed) = Within(adj, start, Cardinality(Nodes))
  <2>1. Range(printed) = visited
    <3>1. DOMAIN printed = 1..Len(printed)
      BY <1>3 DEF BfsPrinted
    <3> QED
      BY <1>3, <3>1 DEF BfsPrinted, Range
  <2>2. start \in visited /\ \A v \in visited : Range(adj[v]) \subseteq visited
    <3>1. head = Len(queue) /\ ~ BfsBusy
      BY <1>1, <1>7 DEF BfsInv, BfsTypeOK, BfsBusy, BfsOver
    <3> QED
      BY <1>1, <1>2, <3>1, BfsClosedWhenEmpty
  <2>3. Within(adj, start, Cardinality(Nodes)) \subseteq visited
    BY <1>5, <2>2, WithinClosed
  <2>4. ASSUME NEW v \in visited PROVE v \in Within(adj, start, Cardinality(Nodes))
    <3>1. dist[v] < Cardinality(Nodes)
      BY <1>1, <1>2, BfsLevels
    <3>2. dist[v] <= Cardinality(Nodes)
      BY <1>1, <1>5, <3>1 DEF BfsInv, BfsTypeOK
    <3> QED
      BY <1>1, <1>2, <1>5, <3>2, BfsDistance
  <2> QED
    BY <2>1, <2>3, <2>4
<1>8. BFS!Range(printed) = Range(printed)
  BY DEF Range, BFS!Range
<1> QED
  BY <1>4, <1>5, <1>6, <1>7, <1>8 DEF BFS!PrintsInLayers

\* bfs prints each node the start leads to once, and none before a nearer one
\* (bfs.c 36-52).
THEOREM BfsPrintsInLayers == BFS!Spec => []BFS!PrintsInLayers
BY BfsInLayers, BfsFullInit, BfsFullNext, PTL DEF BFS!Spec

\* They give the types.
LEMMA BfsTyped ==
  ASSUME BfsFullInv PROVE BFS!TypeOK
<1>1. BfsTypeOK /\ printed \in Seq(Nodes)
  BY DEF BfsFullInv, BfsInv, BfsLayers, BfsPrinted
<1>2. pc = "neighbors" => i \in 1..(Len(adj[curr]) + 1)
  <2>1. Len(adj[curr]) \in Nat /\ i \in Nat \ {0} /\ (pc = "neighbors" => i <= Len(adj[curr]) + 1)
    BY <1>1 DEF BfsTypeOK, BfsBusy
  <2> QED
    BY <2>1
<1> QED
  BY <1>1, <1>2 DEF BFS!TypeOK, BfsTypeOK

\* The first states of bfs are first states of a search,
LEMMA BfsSearchInit == BFS!Init => BfsSearch!Init
<1> SUFFICES ASSUME BFS!Init PROVE BfsSearch!Init
  OBVIOUS
<1>1. adj \in [Nodes -> Seq(Nodes)] /\ start \in Nodes /\ visited \cup {start} = {start} /\ ~ BfsOver
  BY PoolAssumption, TraversalsAssumption DEF BFS!Init, BfsOver
<1> QED
  BY <1>1 DEF BfsSearch!Init, BfsOver

\* and its steps steps of a search, or none; that it returns only when nothing is
\* left to mark needs the levels' part on the neighbours.
LEMMA BfsSearchNext == BfsFullInv /\ [BFS!Next]_BFS!vars => [BfsSearch!Next]_BfsSearch!vars
<1> SUFFICES ASSUME BfsFullInv, [BFS!Next]_BFS!vars PROVE [BfsSearch!Next]_BfsSearch!vars
  OBVIOUS
<1>0. BfsInv
  BY DEF BfsFullInv
<1>6. PICK lvl \in Seq(Nat), dist \in [Nodes -> Nat] : BfsLayers(lvl, dist)
  BY DEF BfsFullInv
<1>1. CASE BFS!Dequeue
  <2>1. UNCHANGED <<adj, start>> /\ ~ BfsOver /\ ~ BfsOver'
    BY <1>1 DEF BFS!Dequeue, BfsOver
  <2>2. CASE curr' \in visited
    <3>1. visited' = visited
      BY <1>1, <2>2 DEF BFS!Dequeue
    <3> QED
      BY <2>1, <3>1 DEF BfsSearch!vars, BfsOver
  <2>3. CASE curr' \notin visited
    <3>1. visited' = visited \cup {curr'}
      BY <1>1, <2>3 DEF BFS!Dequeue
    <3>2. CASE curr' = start
      <4>1. (visited \cup {start})' = visited \cup {start}
        BY <2>1, <3>1, <3>2
      <4> QED
        BY <2>1, <4>1 DEF BfsSearch!vars, BfsOver
    <3>3. CASE curr' # start
      <4>1. head + 1 \in 1..Len(queue) /\ curr' = queue[head + 1]
        BY <1>0, <1>1, BfsDequeues
      <4>2. head + 1 \in 2..Len(queue)
        <5>1. queue[1] = start
          BY <1>6 DEF BfsLayers, BfsOrder
        <5>2. head + 1 # 1
          BY <3>3, <4>1, <5>1
        <5> QED
          BY <4>1, <5>2
      <4>3. PICK v \in visited : curr' \in Range(adj[v])
        BY <1>6, <4>1, <4>2 DEF BfsLayers, BfsReached
      <4>4. curr' \in BfsSearch!Successors(v)
        BY <4>3 DEF BfsSearch!Successors, BfsSearch!Range, Range
      <4>5. /\ v \in visited \cup {start} /\ curr' \notin visited \cup {start}
            /\ (visited \cup {start})' = (visited \cup {start}) \cup {curr'}
        BY <2>1, <2>3, <3>1, <3>3
      <4>6. BfsSearch!Mark
        BY <2>1, <4>4, <4>5 DEF BfsSearch!Mark, BfsOver
      <4> QED
        BY <4>6 DEF BfsSearch!Next
    <3> QED
      BY <3>2, <3>3
  <2> QED
    BY <2>2, <2>3
<1>2. CASE BFS!Return
  <2>1. /\ UNCHANGED <<adj, start, visited>> /\ ~ BfsOver /\ BfsOver' /\ head = Len(queue) /\ ~ BfsBusy
    BY <1>2 DEF BFS!Return, BfsOver, BfsBusy
  <2>2. start \in visited /\ \A v \in visited : Range(adj[v]) \subseteq visited
    BY <1>0, <1>6, <2>1, BfsClosedWhenEmpty
  <2>3. BfsSearch!Closed(visited \cup {start})
    BY <2>2 DEF BfsSearch!Closed, BfsSearch!Successors, BfsSearch!Range, Range
  <2> QED
    BY <2>1, <2>3 DEF BfsSearch!Next, BfsSearch!Return, BfsOver
<1>3. CASE BFS!Enqueue \/ BFS!Expanded \/ UNCHANGED BFS!vars
  BY <1>3 DEF BFS!Enqueue, BFS!Expanded, BFS!vars, BfsSearch!vars, BfsOver
<1> QED
  BY <1>1, <1>2, <1>3 DEF BFS!Next

\* Taking a node from the queue marks it, and it is a neighbour of a marked one; the
\* search returns when no marked node leads to an unmarked one (bfs.c 36-52).
THEOREM BfsImplementsSearch == BFS!Spec => BfsSearch!Spec
BY BfsSearchInit, BfsSearchNext, BfsFullInit, BfsFullNext, PTL DEF BFS!Spec, BfsSearch!Spec

-----------------------------------------------------------------------------
(* bfs-shortest-path-in-grid.c *)

\* For the grid, solve is over when the queue has emptied; an end breaks the loop off.
GridOver == pc = "none"

\* solve is a search of the free cells.
GridSearch ==
  INSTANCE Search WITH adj <- GRID!Moves, start <- GRID!Start, marked <- visited, over <- GridOver

\* An end has left the queue, and the way back from it is followed or printed.
GridEnded == pc \in {"backtrack", "found"}

\* The variables of solve, without path.
GridTypeOK ==
  /\ maze \in [GRID!Cells -> {"empty", "rock", "end"}] /\ maze[GRID!Start] = "empty"
  /\ queue \in Seq(GRID!Cells)
  /\ head \in 0..Len(queue)
  /\ visited \subseteq GRID!Cells
  /\ parent \in [GRID!Cells -> GRID!Cells]
  /\ curr \in GRID!Cells
  /\ i \in 1..5 /\ layers \in 0..4 /\ layers < i
  /\ left \in Int /\ moves \in Nat
  /\ pc \in {"loop", "explore", "backtrack", "found", "none"}

\* What is in the queue is what is marked, and is free.
GridMarked ==
  /\ GRID!Start \in visited
  /\ \A n \in visited : \E k \in 1..Len(queue) : queue[k] = n
  /\ \A k \in 1..Len(queue) : queue[k] \in visited
  /\ \A j, k \in 1..Len(queue) : queue[j] = queue[k] => j = k
  /\ \A n \in visited : GRID!Free(n)

\* The last cell taken is an end when GridEnded, and no cell taken is one otherwise.
GridEnds ==
  /\ \A k \in 1..head : maze[queue[k]] = "end" <=> GridEnded /\ k = head
  /\ GridEnded => head > 0
  /\ pc = "explore" => head > 0 /\ curr = queue[head]
  /\ pc = "none" => head = Len(queue)

\* The directions out of cell queue[k] that have been explored.
GridTried(k) ==
  { d \in 1..4 : ~ (GridEnded /\ k = head) /\ (pc = "explore" /\ k = head => d < i) }

\* The free cells next to those taken are marked, as far as the loop has come.
GridExpanded ==
  \A k \in 1..head : \A d \in GridTried(k) :
    GRID!Free(GRID!Toward(queue[k], d)) => GRID!Toward(queue[k], d) \in visited

\* Together.
GridInv == GridTypeOK /\ GridMarked /\ GridEnds /\ GridExpanded

\* A maze has R * C cells.
LEMMA GridCells ==
  /\ GRID!Start \in GRID!Cells
  /\ IsFiniteSet(GRID!Cells) /\ Cardinality(GRID!Cells) = R * C
  /\ R * C \in Nat
<1>1. R \in Nat \ {0} /\ C \in Nat \ {0}
  BY TraversalsAssumption
<1>2. GRID!Start \in GRID!Cells
  BY <1>1 DEF GRID!Start, GRID!Cells
<1>3. /\ IsFiniteSet(0..R - 1) /\ Cardinality(0..R - 1) = R
      /\ IsFiniteSet(0..C - 1) /\ Cardinality(0..C - 1) = C
  <2>1. 0 \in Int /\ R - 1 \in Int /\ C - 1 \in Int /\ ~ (0 > R - 1) /\ ~ (0 > C - 1)
        /\ (R - 1) - 0 + 1 = R /\ (C - 1) - 0 + 1 = C
    BY <1>1
  <2>2. /\ IsFiniteSet(0..R - 1) /\ Cardinality(0..R - 1) = (R - 1) - 0 + 1
        /\ IsFiniteSet(0..C - 1) /\ Cardinality(0..C - 1) = (C - 1) - 0 + 1
    BY <2>1, FS_Interval
  <2> QED
    BY <2>1, <2>2
<1>4. IsFiniteSet(GRID!Cells) /\ Cardinality(GRID!Cells) = R * C
  <2> DEFINE A == 0..R - 1
             B == 0..C - 1
  <2>1. GRID!Cells = A \X B
    BY DEF GRID!Cells
  <2>2. IsFiniteSet(A) /\ Cardinality(A) = R /\ IsFiniteSet(B) /\ Cardinality(B) = C
    BY <1>3
  <2> HIDE DEF A, B
  <2>3. IsFiniteSet(A \X B) /\ Cardinality(A \X B) = Cardinality(A) * Cardinality(B)
    BY <2>2, FS_Product
  <2> QED
    BY <2>1, <2>2, <2>3
<1>5. R * C \in Nat
  BY <1>4, FS_CardinalityType
<1> QED
  BY <1>2, <1>4, <1>5

\* It holds when solve begins.
LEMMA GridInitInv == GRID!Init => GridInv
<1> SUFFICES ASSUME GRID!Init PROVE GridInv
  OBVIOUS
<1>1. /\ queue = <<GRID!Start>> /\ Len(queue) = 1 /\ queue[1] = GRID!Start /\ head = 0 /\ visited = {GRID!Start}
      /\ pc = "loop"
      /\ maze \in [GRID!Cells -> {"empty", "rock", "end"}] /\ maze[GRID!Start] = "empty"
  BY DEF GRID!Init
<1>2. GRID!Start \in GRID!Cells
  BY GridCells
<1>3. GridTypeOK
  <2>1. queue \in Seq(GRID!Cells) /\ parent \in [GRID!Cells -> GRID!Cells]
    BY <1>1, <1>2 DEF GRID!Init
  <2>2. /\ curr \in GRID!Cells /\ i \in 1..5 /\ layers \in 0..4 /\ layers < i /\ left \in Int /\ moves \in Nat
    BY <1>2 DEF GRID!Init
  <2> QED
    BY <1>1, <1>2, <2>1, <2>2 DEF GridTypeOK
<1>4. GridMarked
  BY <1>1, <1>2 DEF GridMarked, GRID!Free
<1>5. GridEnds /\ GridExpanded
  BY <1>1 DEF GridEnds, GridExpanded, GridEnded
<1> QED
  BY <1>3, <1>4, <1>5 DEF GridInv

\* What taking a cell does.
LEMMA GridDequeues ==
  ASSUME GridInv, GRID!Dequeue
  PROVE  /\ pc = "loop" /\ head' = head + 1 /\ head \in Nat /\ head + 1 \in 1..Len(queue) /\ Len(queue) \in Nat
         /\ curr' = queue[head + 1] /\ i' = 1 /\ layers' = 0 /\ queue[head + 1] \in GRID!Cells
         /\ pc' = (IF maze[queue[head + 1]] = "end" THEN "backtrack" ELSE "explore")
         /\ UNCHANGED <<maze, queue, visited, parent, left, moves, path>>
<1>1. /\ pc = "loop" /\ head' = head + 1 /\ head # Len(queue) /\ curr' = queue[head + 1] /\ i' = 1 /\ layers' = 0
      /\ pc' = (IF maze[queue[head + 1]] = "end" THEN "backtrack" ELSE "explore")
      /\ UNCHANGED <<maze, queue, visited, parent, left, moves, path>>
  BY DEF GRID!Dequeue
<1>2. queue \in Seq(GRID!Cells) /\ head \in 0..Len(queue) /\ Len(queue) \in Nat
  BY DEF GridInv, GridTypeOK
<1>3. head + 1 \in 1..Len(queue)
  BY <1>1, <1>2
<1> QED
  BY <1>1, <1>2, <1>3

\* It keeps the invariant.
LEMMA GridDequeueInv == GridInv /\ GRID!Dequeue => GridInv'
<1> SUFFICES ASSUME GridInv, GRID!Dequeue PROVE GridInv'
  OBVIOUS
<1>1. /\ pc = "loop" /\ head' = head + 1 /\ head \in Nat /\ head + 1 \in 1..Len(queue) /\ Len(queue) \in Nat
      /\ curr' = queue[head + 1] /\ i' = 1 /\ layers' = 0 /\ queue[head + 1] \in GRID!Cells
      /\ pc' = (IF maze[queue[head + 1]] = "end" THEN "backtrack" ELSE "explore")
      /\ UNCHANGED <<maze, queue, visited, parent, left, moves, path>>
  BY GridDequeues
<1>2. GridTypeOK'
  <2>1. head' \in 0..Len(queue')
    BY <1>1
  <2>2. pc' \in {"loop", "explore", "backtrack", "found", "none"}
    BY <1>1
  <2> QED
    BY <1>1, <2>1, <2>2 DEF GridInv, GridTypeOK
<1>3. GridMarked'
  BY <1>1 DEF GridInv, GridMarked, GRID!Free
<1>4. GridEnded' <=> maze[queue[head + 1]] = "end"
  BY <1>1 DEF GridEnded
<1>5. ~ GridEnded /\ pc # "explore"
  BY <1>1 DEF GridEnded
<1>6. GridEnds'
  <2>1. ASSUME NEW k \in 1..(head + 1) PROVE maze[queue[k]] = "end" <=> GridEnded' /\ k = head + 1
    <3>1. CASE k = head + 1
      BY <1>4, <3>1
    <3>2. CASE k # head + 1
      <4>1. k \in 1..head
        BY <1>1, <3>2
      <4> QED
        BY <1>5, <3>2, <4>1 DEF GridInv, GridEnds
    <3> QED
      BY <3>1, <3>2
  <2>2. \A k \in 1..head' : maze'[queue'[k]] = "end" <=> GridEnded' /\ k = head'
    BY <1>1, <2>1
  <2>3. head' > 0 /\ pc' # "none" /\ curr' = queue'[head']
    BY <1>1
  <2> QED
    BY <2>2, <2>3 DEF GridEnds
<1>7. GridExpanded'
  <2>1. ASSUME NEW k \in 1..head', NEW d \in GridTried(k)', GRID!Free(GRID!Toward(queue[k], d))
        PROVE  GRID!Toward(queue[k], d) \in visited
    <3>1. k # head + 1
      <4> SUFFICES ASSUME k = head + 1 PROVE FALSE
        OBVIOUS
      <4>1. ~ GridEnded' /\ (pc' = "explore" => d < 1) /\ d \in 1..4
        BY <1>1, <2>1 DEF GridTried
      <4>2. pc' = "explore"
        BY <1>1, <1>4, <4>1
      <4> QED
        BY <4>1, <4>2
    <3>2. k \in 1..head
      BY <1>1, <3>1
    <3>3. d \in GridTried(k)
      BY <1>5, <2>1 DEF GridTried
    <3> QED
      BY <2>1, <3>2, <3>3 DEF GridInv, GridExpanded
  <2>2. \A c : GRID!Free(c)' <=> GRID!Free(c)
    BY <1>1 DEF GRID!Free
  <2> QED
    BY <1>1, <2>1, <2>2 DEF GridExpanded
<1> QED
  BY <1>2, <1>3, <1>6, <1>7 DEF GridInv

\* What a turn of explore_neighbors does.
LEMMA GridExplores ==
  ASSUME GridInv, GRID!Explore
  PROVE  /\ pc = "explore" /\ i \in 1..4 /\ i' = i + 1 /\ UNCHANGED <<maze, head, curr, left, moves, path, pc>>
         /\ head \in 1..Len(queue) /\ curr = queue[head] /\ Len(queue) \in Nat /\ curr \in visited
         /\ \/ /\ GRID!Enters(GRID!Toward(curr, i)) /\ layers' = layers + 1
               /\ visited' = visited \cup {GRID!Toward(curr, i)}
               /\ parent' = [parent EXCEPT ![GRID!Toward(curr, i)] = curr]
               /\ queue' \in Seq(GRID!Cells) /\ Len(queue') = Len(queue) + 1
               /\ \A k \in 1..Len(queue) : queue'[k] = queue[k]
               /\ queue'[Len(queue) + 1] = GRID!Toward(curr, i)
            \/ ~ GRID!Enters(GRID!Toward(curr, i)) /\ UNCHANGED <<queue, visited, parent, layers>>
<1>1. Len(GRID!Directions) = 4
  BY DEF GRID!Directions
<1>2. /\ pc = "explore" /\ i <= 4 /\ i' = i + 1 /\ UNCHANGED <<maze, head, curr, left, moves, path, pc>>
  BY <1>1 DEF GRID!Explore
<1>3. i \in 1..4
  BY <1>2 DEF GridInv, GridTypeOK
<1>4. head \in 1..Len(queue) /\ curr = queue[head] /\ Len(queue) \in Nat
  BY <1>2 DEF GridInv, GridTypeOK, GridEnds
<1>5. curr \in visited
  BY <1>4 DEF GridInv, GridMarked
<1>6. PICK next : next = GRID!Toward(curr, i)
  OBVIOUS
<1>7. CASE GRID!Enters(next)
  <2>1. /\ queue' = Append(queue, next) /\ visited' = visited \cup {next}
        /\ parent' = [parent EXCEPT ![next] = curr] /\ layers' = layers + 1
    BY <1>6, <1>7 DEF GRID!Explore
  <2>2. next \in GRID!Cells /\ queue \in Seq(GRID!Cells)
    BY <1>7 DEF GRID!Enters, GRID!Free, GridInv, GridTypeOK
  <2>3. /\ queue' \in Seq(GRID!Cells) /\ Len(queue') = Len(queue) + 1
        /\ \A k \in 1..Len(queue) : queue'[k] = queue[k]
        /\ queue'[Len(queue) + 1] = next
    BY <2>1, <2>2
  <2> QED
    BY <1>2, <1>3, <1>4, <1>5, <1>6, <1>7, <2>1, <2>3
<1>8. CASE ~ GRID!Enters(next)
  <2>1. UNCHANGED <<queue, visited, parent, layers>>
    BY <1>6, <1>8 DEF GRID!Explore
  <2> QED
    BY <1>2, <1>3, <1>4, <1>5, <1>6, <1>8, <2>1
<1> QED
  BY <1>7, <1>8

\* It keeps the invariant.
LEMMA GridExploreInv == GridInv /\ GRID!Explore => GridInv'
<1> SUFFICES ASSUME GridInv, GRID!Explore PROVE GridInv'
  OBVIOUS
<1> DEFINE next == GRID!Toward(curr, i)
<1>1. /\ pc = "explore" /\ i \in 1..4 /\ i' = i + 1 /\ UNCHANGED <<maze, head, curr, left, moves, path, pc>>
      /\ head \in 1..Len(queue) /\ curr = queue[head] /\ Len(queue) \in Nat /\ curr \in visited
  BY GridExplores
<1>2. ~ GridEnded /\ ~ GridEnded'
  BY <1>1 DEF GridEnded
<1>3. \A c : GRID!Free(c)' <=> GRID!Free(c)
  BY <1>1 DEF GRID!Free
<1>4. ASSUME visited \subseteq visited', GRID!Free(next) => next \in visited',
             \A k \in 1..head : queue'[k] = queue[k]
      PROVE  GridExpanded'
  <2>1. ASSUME NEW k \in 1..head', NEW d \in GridTried(k)', GRID!Free(GRID!Toward(queue'[k], d))
        PROVE  GRID!Toward(queue'[k], d) \in visited'
    <3>1. k \in 1..head /\ queue'[k] = queue[k] /\ d \in 1..4
      BY <1>1, <1>4, <2>1 DEF GridTried
    <3>2. CASE k = head /\ d = i
      BY <1>1, <1>4, <2>1, <3>1, <3>2
    <3>3. CASE k # head \/ d # i
      <4>1. d \in GridTried(k)
        BY <1>1, <1>2, <2>1, <3>3 DEF GridTried
      <4> QED
        BY <1>4, <2>1, <3>1, <4>1 DEF GridInv, GridExpanded
    <3> QED
      BY <3>2, <3>3
  <2> QED
    BY <1>3, <2>1 DEF GridExpanded
<1>5. CASE ~ GRID!Enters(next) /\ UNCHANGED <<queue, visited, parent, layers>>
  <2>1. GridTypeOK'
    <3>1. i' \in 1..5 /\ layers < i'
      BY <1>1 DEF GridInv, GridTypeOK
    <3> QED
      BY <1>1, <1>5, <3>1 DEF GridInv, GridTypeOK
  <2>2. GridMarked' /\ GridEnds'
    BY <1>1, <1>2, <1>3, <1>5 DEF GridInv, GridMarked, GridEnds
  <2>3. GRID!Free(next) => next \in visited
    BY <1>5 DEF GRID!Enters
  <2>4. GridExpanded'
    BY <1>4, <1>5, <2>3
  <2> QED
    BY <2>1, <2>2, <2>4 DEF GridInv
<1>6. CASE /\ GRID!Enters(next) /\ layers' = layers + 1
           /\ visited' = visited \cup {next}
           /\ parent' = [parent EXCEPT ![next] = curr]
           /\ queue' \in Seq(GRID!Cells) /\ Len(queue') = Len(queue) + 1
           /\ \A k \in 1..Len(queue) : queue'[k] = queue[k]
           /\ queue'[Len(queue) + 1] = next
  <2>1. next \in GRID!Cells /\ GRID!Free(next) /\ next \notin visited
    BY <1>6 DEF GRID!Enters, GRID!Free
  <2> HIDE DEF next
  <2>2. GridTypeOK'
    <3>1. i' \in 1..5 /\ layers' < i' /\ layers' \in 0..4 /\ head' \in 0..Len(queue')
      BY <1>1, <1>6 DEF GridInv, GridTypeOK
    <3>2. visited' \subseteq GRID!Cells /\ parent' \in [GRID!Cells -> GRID!Cells]
      BY <1>6, <2>1 DEF GridInv, GridTypeOK
    <3> QED
      BY <1>1, <1>6, <3>1, <3>2 DEF GridInv, GridTypeOK
  <2>3. GridMarked'
    <3>0. /\ GRID!Start \in visited
          /\ \A n \in visited : \E k \in 1..Len(queue) : queue[k] = n
          /\ \A k \in 1..Len(queue) : queue[k] \in visited
          /\ \A j, k \in 1..Len(queue) : queue[j] = queue[k] => j = k
          /\ \A n \in visited : GRID!Free(n)
      BY DEF GridInv, GridMarked
    <3>1. \A n \in visited' : \E k \in 1..Len(queue') : queue'[k] = n
      <4> TAKE n \in visited'
      <4>1. CASE n = next
        <5>1. Len(queue) + 1 \in 1..Len(queue')
          BY <1>1, <1>6
        <5> QED
          BY <1>6, <4>1, <5>1
      <4>2. CASE n \in visited
        <5>1. PICK k \in 1..Len(queue) : queue[k] = n
          BY <3>0, <4>2
        <5>2. k \in 1..Len(queue')
          BY <1>1, <1>6
        <5> QED
          BY <1>6, <5>1, <5>2
      <4> QED
        BY <1>6, <4>1, <4>2
    <3>2. \A k \in 1..Len(queue') : k \in 1..Len(queue) \/ k = Len(queue) + 1
      BY <1>1, <1>6
    <3>3. \A k \in 1..Len(queue') : queue'[k] \in visited'
      BY <1>6, <3>0, <3>2
    <3>4. \A j, k \in 1..Len(queue') : queue'[j] = queue'[k] => j = k
      <4> TAKE j, k \in 1..Len(queue')
      <4>1. CASE j \in 1..Len(queue) /\ k \in 1..Len(queue)
        BY <1>6, <3>0, <4>1
      <4>2. CASE j \in 1..Len(queue) /\ k = Len(queue) + 1
        BY <1>6, <2>1, <3>0, <4>2
      <4>3. CASE k \in 1..Len(queue) /\ j = Len(queue) + 1
        BY <1>6, <2>1, <3>0, <4>3
      <4> QED
        BY <3>2, <4>1, <4>2, <4>3
    <3>5. \A n \in visited' : GRID!Free(n)'
      BY <1>3, <1>6, <2>1, <3>0
    <3> QED
      BY <1>6, <3>0, <3>1, <3>3, <3>4, <3>5 DEF GridMarked
  <2>4. \A k \in 1..head : queue'[k] = queue[k]
    BY <1>1, <1>6
  <2>5. GridEnds'
    <3>1. \A k \in 1..head' : maze'[queue'[k]] = "end" <=> GridEnded' /\ k = head'
      BY <1>1, <1>2, <2>4 DEF GridInv, GridEnds
    <3>2. head' > 0 /\ curr' = queue'[head'] /\ pc' # "none"
      BY <1>1, <2>4
    <3> QED
      BY <3>1, <3>2 DEF GridEnds
  <2>6. GridExpanded'
    <3>1. next \in visited' /\ visited \subseteq visited'
      BY <1>6
    <3> QED
      BY <1>4, <2>4, <3>1
  <2> QED
    BY <2>2, <2>3, <2>5, <2>6 DEF GridInv
<1> QED
  BY <1>5, <1>6, GridExplores

\* So does every step.
LEMMA GridNextInv == GridInv /\ [GRID!Next]_GRID!vars => GridInv'
<1> SUFFICES ASSUME GridInv, [GRID!Next]_GRID!vars PROVE GridInv'
  OBVIOUS
<1>1. CASE GRID!Dequeue
  BY <1>1, GridDequeueInv
<1>2. CASE GRID!Explore
  BY <1>2, GridExploreInv
<1>3. ASSUME UNCHANGED <<maze, queue, head, visited, parent, i, layers>>, GridTypeOK', GridEnded' <=> GridEnded,
             pc' = "explore" => pc = "explore" /\ curr' = curr,
             pc' = "none" => head = Len(queue),
             pc = "explore" /\ pc' # "explore" => i > 4
      PROVE  GridInv'
  <2>1. \A c : GRID!Free(c)' <=> GRID!Free(c)
    BY <1>3 DEF GRID!Free
  <2>2. GridMarked'
    BY <1>3, <2>1 DEF GridInv, GridMarked
  <2>3. GridEnds'
    BY <1>3 DEF GridInv, GridEnds
  <2>4. \A k \in 1..head : GridTried(k)' \subseteq GridTried(k)
    <3>1. i \in 1..5
      BY DEF GridInv, GridTypeOK
    <3> QED
      BY <1>3, <3>1 DEF GridTried
  <2>5. GridExpanded'
    BY <1>3, <2>1, <2>4 DEF GridInv, GridExpanded
  <2> QED
    BY <1>3, <2>2, <2>3, <2>5 DEF GridInv
<1>4. CASE GRID!Explored
  <2>1. Len(GRID!Directions) = 4
    BY DEF GRID!Directions
  <2>2. /\ pc = "explore" /\ i > 4 /\ pc' = "loop"
        /\ UNCHANGED <<maze, queue, head, visited, parent, curr, i, layers, path>>
    BY <1>4, <2>1 DEF GRID!Explored
  <2>3. left' \in Int /\ moves' \in Nat
    BY <1>4 DEF GRID!Explored, GridInv, GridTypeOK
  <2>4. GridTypeOK'
    BY <2>2, <2>3 DEF GridInv, GridTypeOK
  <2>5. GridEnded' <=> GridEnded
    BY <2>2 DEF GridEnded
  <2> QED
    BY <1>3, <2>2, <2>4, <2>5
<1>5. CASE GRID!Backtrack
  <2>1. /\ pc = "backtrack" /\ curr' = parent[curr]
        /\ UNCHANGED <<maze, queue, head, visited, parent, i, left, layers, moves, pc>>
    BY <1>5 DEF GRID!Backtrack
  <2>2. GridTypeOK'
    BY <2>1 DEF GridInv, GridTypeOK
  <2>3. GridEnded' <=> GridEnded
    BY <2>1 DEF GridEnded
  <2> QED
    BY <1>3, <2>1, <2>2, <2>3
<1>6. CASE GRID!Report
  <2>1. /\ pc = "backtrack" /\ pc' = "found"
        /\ UNCHANGED <<maze, queue, head, visited, parent, curr, i, left, layers, moves>>
    BY <1>6 DEF GRID!Report
  <2>2. GridTypeOK'
    BY <2>1 DEF GridInv, GridTypeOK
  <2>3. GridEnded' <=> GridEnded
    BY <2>1 DEF GridEnded
  <2> QED
    BY <1>3, <2>1, <2>2, <2>3
<1>7. CASE GRID!NoPath
  <2>1. /\ pc = "loop" /\ head = Len(queue) /\ pc' = "none"
        /\ UNCHANGED <<maze, queue, head, visited, parent, curr, i, left, layers, moves, path>>
    BY <1>7 DEF GRID!NoPath
  <2>2. GridTypeOK'
    BY <2>1 DEF GridInv, GridTypeOK
  <2>3. GridEnded' <=> GridEnded
    BY <2>1 DEF GridEnded
  <2> QED
    BY <1>3, <2>1, <2>2, <2>3
<1>8. CASE UNCHANGED GRID!vars
  <2>1. UNCHANGED <<maze, queue, head, visited, parent, curr, i, left, layers, moves, path, pc>>
    BY <1>8 DEF GRID!vars
  <2>2. GridTypeOK'
    BY <2>1 DEF GridInv, GridTypeOK
  <2>3. GridEnded' <=> GridEnded
    BY <2>1 DEF GridEnded
  <2>4. pc = "none" => head = Len(queue)
    BY DEF GridInv, GridEnds
  <2> QED
    BY <1>3, <2>1, <2>2, <2>3, <2>4
<1> QED
  BY <1>1, <1>2, <1>4, <1>5, <1>6, <1>7, <1>8 DEF GRID!Next

\* Cell n is one move from m.
Moved(m, n) == \E d \in 1..4 : n = GRID!Toward(m, d)

(***************************************************************************)
(* The layers of the grid are those of PathLayers; the way back goes down  *)
(* them, from the end that left the queue (GridWalk).                      *)
(***************************************************************************)
GridLayers(dist) ==
  /\ dist[GRID!Start] = 0
  /\ \A m \in visited \ {GRID!Start} :
       parent[m] \in visited /\ Moved(parent[m], m) /\ dist[m] = dist[parent[m]] + 1
  /\ \A j, k \in 1..Len(queue) : j <= k => dist[queue[j]] <= dist[queue[k]]
  /\ head > 0 => \A k \in 1..Len(queue) : dist[queue[k]] <= dist[queue[head]] + 1
  /\ head = 0 => Len(queue) = 1
  /\ \A k \in 1..head : \A d \in GridTried(k) :
       GRID!Free(GRID!Toward(queue[k], d)) => dist[GRID!Toward(queue[k], d)] <= dist[queue[k]] + 1

\* The way back goes down a layer at each step, and is turned round at the start.
GridWalk(dist) ==
  /\ path \in Seq(GRID!Cells)
  /\ pc \notin {"backtrack", "found"} => path = <<>>
  /\ pc = "backtrack" =>
       /\ curr \in visited /\ Len(path) + dist[curr] = dist[queue[head]]
       /\ \A k \in 1..Len(path) : path[k] \in visited /\ dist[path[k]] + k = dist[queue[head]] + 1
       /\ \A k \in 1..(Len(path) - 1) : Moved(path[k + 1], path[k])
       /\ IF path = <<>> THEN curr = queue[head]
          ELSE path[1] = queue[head] /\ Moved(curr, path[Len(path)])
  /\ pc = "found" =>
       /\ Len(path) = dist[queue[head]] + 1
       /\ path[1] = GRID!Start /\ path[Len(path)] = queue[head]
       /\ \A k \in 1..Len(path) : path[k] \in visited /\ dist[path[k]] = k - 1
       /\ \A k \in 1..(Len(path) - 1) : Moved(path[k], path[k + 1])

\* The invariant with the layers: there is a distance for every cell.
GridFullInv ==
  /\ GridInv
  /\ \E dist \in [GRID!Cells -> Nat] : GridLayers(dist) /\ GridWalk(dist)

\* It holds when solve begins.
LEMMA GridFullInit == GRID!Init => GridFullInv
<1> SUFFICES ASSUME GRID!Init PROVE GridFullInv
  OBVIOUS
<1> DEFINE dist == [m \in GRID!Cells |-> 0]
<1>1. dist \in [GRID!Cells -> Nat] /\ dist[GRID!Start] = 0
  BY GridCells
<1>2. /\ queue = <<GRID!Start>> /\ Len(queue) = 1 /\ queue[1] = GRID!Start /\ head = 0 /\ visited = {GRID!Start}
      /\ pc = "loop" /\ path = <<>>
  BY DEF GRID!Init
<1> HIDE DEF dist
<1>3. GridLayers(dist) /\ GridWalk(dist)
  BY <1>1, <1>2 DEF GridLayers, GridWalk
<1> QED
  BY <1>1, <1>3, GridInitInv DEF GridFullInv

\* Taking a cell keeps the layers,
LEMMA GridDequeueLayers ==
  ASSUME GridInv, GRID!Dequeue, NEW dist \in [GRID!Cells -> Nat], GridLayers(dist)
  PROVE  GridLayers(dist)'
<1>1. /\ pc = "loop" /\ head' = head + 1 /\ head \in Nat /\ head + 1 \in 1..Len(queue) /\ Len(queue) \in Nat
      /\ i' = 1 /\ pc' = (IF maze[queue[head + 1]] = "end" THEN "backtrack" ELSE "explore")
      /\ UNCHANGED <<maze, queue, visited, parent>>
  BY GridDequeues
<1>2. \A k \in 1..Len(queue) : dist[queue[k]] \in Nat
  BY DEF GridInv, GridTypeOK
<1>3. \A k \in 1..Len(queue) : dist[queue[k]] <= dist[queue[head + 1]] + 1
  <2> TAKE k \in 1..Len(queue)
  <2>1. CASE head = 0
    <3>1. Len(queue) = 1 /\ head + 1 = 1
      BY <2>1 DEF GridLayers
    <3>2. k = 1
      BY <3>1
    <3> QED
      BY <1>2, <3>1, <3>2
  <2>2. CASE head # 0
    <3>1. head \in 1..Len(queue) /\ head + 1 \in 1..Len(queue) /\ head > 0 /\ head <= head + 1
      BY <1>1, <2>2
    <3>2. dist[queue[head]] <= dist[queue[head + 1]] /\ dist[queue[k]] <= dist[queue[head]] + 1
      BY <3>1 DEF GridLayers
    <3> QED
      BY <1>2, <3>1, <3>2
  <2> QED
    BY <2>1, <2>2
<1>4. ASSUME NEW k \in 1..(head + 1), NEW d \in GridTried(k)', GRID!Free(GRID!Toward(queue[k], d))
      PROVE  dist[GRID!Toward(queue[k], d)] <= dist[queue[k]] + 1
  <2>1. k # head + 1
    <3> SUFFICES ASSUME k = head + 1 PROVE FALSE
      OBVIOUS
    <3>1. ~ GridEnded' /\ (pc' = "explore" => d < 1) /\ d \in 1..4
      BY <1>1, <1>4 DEF GridTried
    <3>2. pc' = "explore"
      BY <1>1, <3>1 DEF GridEnded
    <3> QED
      BY <3>1, <3>2
  <2>2. k \in 1..head
    BY <1>1, <2>1
  <2>3. d \in GridTried(k)
    BY <1>1, <1>4 DEF GridTried, GridEnded
  <2> QED
    BY <1>4, <2>2, <2>3 DEF GridLayers
<1>5. \A c : GRID!Free(c)' <=> GRID!Free(c)
  BY <1>1 DEF GRID!Free
<1>6. (\A k \in 1..head : \A d \in GridTried(k) :
        GRID!Free(GRID!Toward(queue[k], d)) => dist[GRID!Toward(queue[k], d)] <= dist[queue[k]] + 1)'
  BY <1>1, <1>4, <1>5
<1>7. head' # 0 /\ \A k \in 1..Len(queue') : dist[queue'[k]] <= dist[queue'[head']] + 1
  BY <1>1, <1>3
<1>8. /\ dist[GRID!Start] = 0
      /\ \A m \in visited' \ {GRID!Start} :
           parent'[m] \in visited' /\ Moved(parent'[m], m) /\ dist[m] = dist[parent'[m]] + 1
      /\ \A j, k \in 1..Len(queue') : j <= k => dist[queue'[j]] <= dist[queue'[k]]
  BY <1>1 DEF GridLayers
<1> QED
  BY <1>6, <1>7, <1>8 DEF GridLayers

\* and so does a neighbour that is passed over,
LEMMA GridSeenLayers ==
  ASSUME GridInv, GRID!Explore, ~ GRID!Enters(GRID!Toward(curr, i)),
         NEW dist \in [GRID!Cells -> Nat], GridLayers(dist)
  PROVE  GridLayers(dist)'
<1>1. /\ pc = "explore" /\ i \in 1..4 /\ i' = i + 1 /\ UNCHANGED <<maze, head, curr, pc, queue, visited, parent>>
      /\ head \in 1..Len(queue) /\ curr = queue[head] /\ Len(queue) \in Nat /\ curr \in visited
  BY GridExplores
<1>2. GRID!Free(GRID!Toward(curr, i)) => dist[GRID!Toward(curr, i)] <= dist[curr] + 1
  <2> SUFFICES ASSUME GRID!Free(GRID!Toward(curr, i)) PROVE dist[GRID!Toward(curr, i)] <= dist[curr] + 1
    OBVIOUS
  <2>1. GRID!Toward(curr, i) \in visited
    BY DEF GRID!Enters
  <2>2. PICK k \in 1..Len(queue) : queue[k] = GRID!Toward(curr, i)
    BY <2>1 DEF GridInv, GridMarked
  <2> QED
    BY <1>1, <2>2 DEF GridLayers
<1>3. ASSUME NEW k \in 1..head, NEW d \in GridTried(k)', GRID!Free(GRID!Toward(queue[k], d))
      PROVE  dist[GRID!Toward(queue[k], d)] <= dist[queue[k]] + 1
  <2>1. CASE k = head /\ d = i
    BY <1>1, <1>2, <1>3, <2>1
  <2>2. CASE k # head \/ d # i
    <3>1. d \in GridTried(k)
      BY <1>1, <1>3, <2>2 DEF GridTried, GridEnded
    <3> QED
      BY <1>3, <3>1 DEF GridLayers
  <2> QED
    BY <2>1, <2>2
<1>5. \A c : GRID!Free(c)' <=> GRID!Free(c)
  BY <1>1 DEF GRID!Free
<1>6. (\A k \in 1..head : \A d \in GridTried(k) :
        GRID!Free(GRID!Toward(queue[k], d)) => dist[GRID!Toward(queue[k], d)] <= dist[queue[k]] + 1)'
  BY <1>1, <1>3, <1>5
<1>8. /\ dist[GRID!Start] = 0
      /\ \A m \in visited' \ {GRID!Start} :
           parent'[m] \in visited' /\ Moved(parent'[m], m) /\ dist[m] = dist[parent'[m]] + 1
      /\ \A j, k \in 1..Len(queue') : j <= k => dist[queue'[j]] <= dist[queue'[k]]
      /\ head' > 0 => \A k \in 1..Len(queue') : dist[queue'[k]] <= dist[queue'[head']] + 1
      /\ head' = 0 => Len(queue') = 1
  BY <1>1 DEF GridLayers
<1> QED
  BY <1>6, <1>8 DEF GridLayers

\* and one that is marked, a layer above the current cell.
LEMMA GridMarkLayers ==
  ASSUME GridInv, GRID!Explore, GRID!Enters(GRID!Toward(curr, i)),
         NEW dist \in [GRID!Cells -> Nat], GridLayers(dist),
         NEW e \in [GRID!Cells -> Nat], Raised(e, dist, visited, GRID!Toward(curr, i), dist[curr] + 1)
  PROVE  GridLayers(e)'
<1>0. PICK next : next = GRID!Toward(curr, i)
  OBVIOUS
<1>1. /\ pc = "explore" /\ i \in 1..4 /\ i' = i + 1 /\ UNCHANGED <<maze, head, curr, pc>>
      /\ head \in 1..Len(queue) /\ curr = queue[head] /\ Len(queue) \in Nat /\ curr \in visited
      /\ visited' = visited \cup {next}
      /\ parent' = [parent EXCEPT ![next] = curr]
      /\ Len(queue') = Len(queue) + 1
      /\ \A k \in 1..Len(queue) : queue'[k] = queue[k]
      /\ queue'[Len(queue) + 1] = next
  BY <1>0, GridExplores
<1>2. next \in GRID!Cells /\ GRID!Free(next) /\ next \notin visited
  BY <1>0 DEF GRID!Enters, GRID!Free
<1>3. /\ e[next] = dist[curr] + 1 /\ dist[curr] \in Nat
      /\ \A m \in visited : m \in GRID!Cells /\ e[m] = dist[m] /\ dist[m] \in Nat
  BY <1>0, <1>1 DEF Raised, GridInv, GridTypeOK
<1>4. \A k \in 1..Len(queue) : queue[k] \in visited
  BY DEF GridInv, GridMarked
<1>5. \A k \in 1..Len(queue) : e[queue'[k]] = dist[queue[k]] /\ dist[queue[k]] \in Nat
  BY <1>1, <1>3, <1>4
<1>6. \A k \in 1..Len(queue) : dist[queue[k]] <= dist[curr] + 1
  BY <1>1 DEF GridLayers
<1>7. e[GRID!Start] = 0
  BY <1>3 DEF GridLayers, GridInv, GridMarked
<1>8. ASSUME NEW m \in visited' \ {GRID!Start}
      PROVE  parent'[m] \in visited' /\ Moved(parent'[m], m) /\ e[m] = e[parent'[m]] + 1
  <2>1. CASE m = next
    <3>1. parent'[m] = curr
      BY <1>1, <1>2, <2>1 DEF GridInv, GridTypeOK
    <3>2. Moved(curr, next)
      BY <1>0, <1>1 DEF Moved
    <3> QED
      BY <1>1, <1>3, <2>1, <3>1, <3>2
  <2>2. CASE m # next
    <3>1. m \in visited \ {GRID!Start} /\ parent'[m] = parent[m]
      BY <1>1, <2>2 DEF GridInv, GridTypeOK
    <3>2. parent[m] \in visited /\ Moved(parent[m], m) /\ dist[m] = dist[parent[m]] + 1
      BY <3>1 DEF GridLayers
    <3> QED
      BY <1>1, <1>3, <3>1, <3>2
  <2> QED
    BY <2>1, <2>2
<1>9. \A k \in 1..Len(queue') : k \in 1..Len(queue) \/ k = Len(queue) + 1
  BY <1>1
<1>10. ASSUME NEW j \in 1..Len(queue'), NEW k \in 1..Len(queue'), j <= k PROVE e[queue'[j]] <= e[queue'[k]]
  <2>1. CASE k \in 1..Len(queue)
    <3>1. j \in 1..Len(queue)
      BY <1>1, <1>10, <2>1
    <3>2. dist[queue[j]] <= dist[queue[k]]
      BY <1>10, <2>1, <3>1 DEF GridLayers
    <3> QED
      BY <1>5, <2>1, <3>1, <3>2
  <2>2. CASE k = Len(queue) + 1
    <3>1. e[queue'[k]] = dist[curr] + 1
      BY <1>1, <1>3, <2>2
    <3>2. CASE j \in 1..Len(queue)
      BY <1>5, <1>6, <3>1, <3>2
    <3>3. CASE j = Len(queue) + 1
      BY <1>3, <2>2, <3>1, <3>3
    <3> QED
      BY <1>9, <3>2, <3>3
  <2> QED
    BY <1>9, <2>1, <2>2
<1>11. \A k \in 1..Len(queue') : e[queue'[k]] <= e[queue'[head]] + 1
  <2> TAKE k \in 1..Len(queue')
  <2>1. e[queue'[head]] = dist[curr]
    BY <1>1, <1>5
  <2>2. CASE k = Len(queue) + 1
    BY <1>1, <1>3, <2>1, <2>2
  <2>3. CASE k \in 1..Len(queue)
    BY <1>3, <1>5, <1>6, <2>1, <2>3
  <2> QED
    BY <1>9, <2>2, <2>3
<1>12. ASSUME NEW k \in 1..head, NEW d \in GridTried(k)', GRID!Free(GRID!Toward(queue[k], d))
       PROVE  e[GRID!Toward(queue[k], d)] <= e[queue[k]] + 1
  <2>0. k \in 1..Len(queue) /\ queue[k] \in visited
    BY <1>1, <1>4
  <2>1. CASE k = head /\ d = i
    BY <1>0, <1>1, <1>3, <2>1
  <2>2. CASE k # head \/ d # i
    <3>1. d \in GridTried(k)
      BY <1>1, <1>12, <2>2 DEF GridTried, GridEnded
    <3>2. dist[GRID!Toward(queue[k], d)] <= dist[queue[k]] + 1
      BY <1>12, <3>1 DEF GridLayers
    <3>3. GRID!Toward(queue[k], d) \in visited
      BY <1>12, <3>1 DEF GridInv, GridExpanded
    <3> QED
      BY <1>3, <2>0, <3>2, <3>3
  <2> QED
    BY <2>1, <2>2
<1>13. \A c : GRID!Free(c)' <=> GRID!Free(c)
  BY <1>1 DEF GRID!Free
<1>14. (\A k \in 1..head : \A d \in GridTried(k) :
        GRID!Free(GRID!Toward(queue[k], d)) => e[GRID!Toward(queue[k], d)] <= e[queue[k]] + 1)'
  <2>1. head' = head /\ \A k \in 1..head : queue'[k] = queue[k]
    BY <1>1
  <2> QED
    BY <1>12, <1>13, <2>1
<1>15. head' # 0 /\ \A k \in 1..Len(queue') : e[queue'[k]] <= e[queue'[head']] + 1
  BY <1>1, <1>11
<1> QED
  BY <1>7, <1>8, <1>10, <1>14, <1>15 DEF GridLayers

\* The other steps leave the search as it is.
LEMMA GridStillLayers ==
  ASSUME GridInv, UNCHANGED <<maze, queue, head, visited, parent, i>>, GridEnded' <=> GridEnded,
         pc = "explore" /\ pc' # "explore" => i > 4,
         NEW dist \in [GRID!Cells -> Nat], GridLayers(dist)
  PROVE  GridLayers(dist)'
<1>1. \A k \in 1..head : GridTried(k)' \subseteq GridTried(k)
  <2>1. i \in 1..5
    BY DEF GridInv, GridTypeOK
  <2> QED
    BY <2>1 DEF GridTried
<1>2. \A c : GRID!Free(c)' <=> GRID!Free(c)
  BY DEF GRID!Free
<1> QED
  BY <1>1, <1>2 DEF GridLayers

\* Nothing is walked before an end is found.
LEMMA GridQuietWalk ==
  ASSUME NEW dist, NEW e, GridWalk(dist), path' = path, ~ GridEnded, ~ GridEnded'
  PROVE  GridWalk(e)'
BY DEF GridWalk, GridEnded

\* One step back, down one layer.
LEMMA GridWalkBack ==
  ASSUME GridInv, GRID!Backtrack, NEW dist \in [GRID!Cells -> Nat], GridLayers(dist), GridWalk(dist)
  PROVE  GridWalk(dist)'
<1>1. /\ pc = "backtrack" /\ pc' = pc /\ curr # GRID!Start /\ path' = Append(path, curr) /\ curr' = parent[curr]
      /\ UNCHANGED <<queue, head, visited, parent>>
  BY DEF GRID!Backtrack
<1>2. PICK goal : goal = queue[head]
  OBVIOUS
<1>3. /\ path \in Seq(GRID!Cells) /\ curr \in visited /\ curr \in GRID!Cells
      /\ Len(path) + dist[curr] = dist[goal]
      /\ \A k \in 1..Len(path) : path[k] \in visited /\ dist[path[k]] + k = dist[goal] + 1
      /\ \A k \in 1..(Len(path) - 1) : Moved(path[k + 1], path[k])
      /\ IF path = <<>> THEN curr = goal ELSE path[1] = goal /\ Moved(curr, path[Len(path)])
  BY <1>1, <1>2 DEF GridWalk, GridInv, GridTypeOK
<1>4. /\ parent[curr] \in visited /\ Moved(parent[curr], curr) /\ dist[curr] = dist[parent[curr]] + 1
  BY <1>1, <1>3 DEF GridLayers
<1>5. /\ path' \in Seq(GRID!Cells) /\ Len(path) \in Nat /\ Len(path') = Len(path) + 1
      /\ path'[Len(path) + 1] = curr
      /\ \A k \in 1..Len(path) : path'[k] = path[k]
  BY <1>1, <1>3
<1>6. dist[curr] \in Nat /\ dist[parent[curr]] \in Nat
  BY <1>3, <1>4 DEF GridInv, GridTypeOK
<1>7. Len(path') + dist[parent[curr]] = dist[goal]
  BY <1>3, <1>4, <1>5, <1>6
<1>8. \A k \in 1..Len(path') : path'[k] \in visited /\ dist[path'[k]] + k = dist[goal] + 1
  <2> TAKE k \in 1..Len(path')
  <2>1. CASE k = Len(path) + 1
    BY <1>3, <1>5, <1>6, <2>1
  <2>2. CASE k # Len(path) + 1
    <3>1. k \in 1..Len(path)
      BY <1>5, <2>2
    <3> QED
      BY <1>3, <1>5, <3>1
  <2> QED
    BY <2>1, <2>2
<1>9. \A k \in 1..(Len(path') - 1) : Moved(path'[k + 1], path'[k])
  <2> TAKE k \in 1..(Len(path') - 1)
  <2>1. k \in 1..Len(path)
    BY <1>5
  <2>2. CASE k = Len(path)
    <3>1. path # <<>>
      BY <1>5, <2>1
    <3> QED
      BY <1>3, <1>5, <2>1, <2>2, <3>1
  <2>3. CASE k # Len(path)
    <3>1. k \in 1..(Len(path) - 1) /\ k + 1 \in 1..Len(path)
      BY <1>5, <2>1, <2>3
    <3> QED
      BY <1>3, <1>5, <2>1, <3>1
  <2> QED
    BY <2>2, <2>3
<1>10. path' # <<>> /\ path'[1] = goal /\ Moved(parent[curr], path'[Len(path')])
  <2>1. path'[Len(path')] = curr
    BY <1>5
  <2>2. path'[1] = goal
    <3>1. CASE path = <<>>
      BY <1>3, <1>5, <3>1
    <3>2. CASE path # <<>>
      <4>1. 1 \in 1..Len(path)
        BY <1>3, <3>2
      <4> QED
        BY <1>3, <1>5, <3>2, <4>1
    <3> QED
      BY <3>1, <3>2
  <2>3. path' # <<>>
    BY <1>5
  <2> QED
    BY <1>4, <2>1, <2>2, <2>3
<1>11. goal = queue'[head']
  BY <1>1, <1>2
<1> QED
  BY <1>1, <1>4, <1>5, <1>7, <1>8, <1>9, <1>10, <1>11 DEF GridWalk

\* The list turned round.
LEMMA GridReport ==
  ASSUME GridInv, GRID!Report, NEW dist \in [GRID!Cells -> Nat], GridLayers(dist), GridWalk(dist)
  PROVE  GridWalk(dist)'
<1> DEFINE whole == Append(path, GRID!Start)
<1>1. /\ pc = "backtrack" /\ pc' = "found" /\ curr = GRID!Start /\ path' = GRID!Reverse(whole)
      /\ UNCHANGED <<queue, head, visited, parent>>
  BY DEF GRID!Report
<1>2. PICK goal : goal = queue[head]
  OBVIOUS
<1>3. /\ path \in Seq(GRID!Cells) /\ curr \in visited /\ curr \in GRID!Cells
      /\ Len(path) + dist[curr] = dist[goal] /\ dist[curr] = 0
      /\ \A k \in 1..Len(path) : path[k] \in visited /\ dist[path[k]] + k = dist[goal] + 1
      /\ \A k \in 1..(Len(path) - 1) : Moved(path[k + 1], path[k])
      /\ IF path = <<>> THEN curr = goal ELSE path[1] = goal /\ Moved(curr, path[Len(path)])
  BY <1>1, <1>2 DEF GridWalk, GridLayers, GridInv, GridTypeOK
<1>4. /\ whole \in Seq(GRID!Cells) /\ Len(path) \in Nat /\ Len(whole) = Len(path) + 1
      /\ whole[Len(path) + 1] = curr
      /\ \A k \in 1..Len(path) : whole[k] = path[k]
  BY <1>1, <1>3, GridCells
<1>5. PICK n : n = Len(path) + 1
  OBVIOUS
<1>6. n \in Nat \ {0} /\ n = Len(whole) /\ dist[goal] + 1 = n
  BY <1>3, <1>4, <1>5
<1>7. path' = [k \in 1..n |-> whole[(n - k) + 1]]
  BY <1>1, <1>6 DEF GRID!Reverse
<1> HIDE DEF whole
<1>8. ASSUME NEW k \in 1..n PROVE whole[k] \in visited /\ whole[k] \in GRID!Cells /\ dist[whole[k]] + k = n
  <2>1. CASE k = n
    BY <1>1, <1>3, <1>4, <1>5, <1>6, <2>1
  <2>2. CASE k # n
    <3>1. k \in 1..Len(path)
      BY <1>4, <1>5, <2>2
    <3>2. whole[k] = path[k] /\ path[k] \in GRID!Cells
      BY <1>3, <1>4, <3>1
    <3> QED
      BY <1>3, <1>6, <3>1, <3>2
  <2> QED
    BY <2>1, <2>2
<1>9. ASSUME NEW k \in 1..(n - 1) PROVE Moved(whole[k + 1], whole[k])
  <2>1. k \in 1..Len(path)
    BY <1>4, <1>5
  <2>2. CASE k = Len(path)
    <3>1. path # <<>>
      BY <2>1
    <3> QED
      BY <1>3, <1>4, <2>1, <2>2, <3>1
  <2>3. CASE k # Len(path)
    <3>1. k \in 1..(Len(path) - 1) /\ k + 1 \in 1..Len(path)
      BY <1>4, <2>1, <2>3
    <3> QED
      BY <1>3, <1>4, <2>1, <3>1
  <2> QED
    BY <2>2, <2>3
<1>10. whole[1] = goal /\ whole[n] = GRID!Start
  <2>1. CASE path = <<>>
    BY <1>1, <1>3, <1>4, <1>5, <2>1
  <2>2. CASE path # <<>>
    <3>1. 1 \in 1..Len(path)
      BY <1>3, <2>2
    <3> QED
      BY <1>1, <1>3, <1>4, <1>5, <2>2, <3>1
  <2> QED
    BY <2>1, <2>2
<1>11. \A k \in 1..n : (n - k) + 1 \in 1..n
  BY <1>6
<1>12. path' \in Seq(GRID!Cells) /\ Len(path') = n
  <2>1. path' \in [1..n -> GRID!Cells]
    BY <1>7, <1>8, <1>11
  <2>2. path' \in Seq(GRID!Cells)
    BY <1>6, <2>1, SeqDef
  <2> QED
    BY <1>6, <2>1, <2>2
<1>13. path'[1] = GRID!Start /\ path'[n] = goal
  <2>1. 1 \in 1..n /\ n \in 1..n /\ (n - 1) + 1 = n /\ (n - n) + 1 = 1
    BY <1>6
  <2> QED
    BY <1>7, <1>10, <2>1
<1>14. ASSUME NEW k \in 1..n PROVE path'[k] \in visited /\ dist[path'[k]] = k - 1
  <2>1. path'[k] = whole[(n - k) + 1] /\ (n - k) + 1 \in 1..n
    BY <1>7, <1>11
  <2>2. whole[(n - k) + 1] \in visited /\ dist[whole[(n - k) + 1]] + ((n - k) + 1) = n
    BY <1>8, <2>1
  <2>3. dist[whole[(n - k) + 1]] \in Nat
    BY <1>8, <2>1
  <2> QED
    BY <1>6, <2>1, <2>2, <2>3
<1>15. ASSUME NEW k \in 1..(n - 1) PROVE Moved(path'[k], path'[k + 1])
  <2>1. k \in 1..n /\ k + 1 \in 1..n /\ n - k \in 1..(n - 1) /\ (n - (k + 1)) + 1 = n - k
    BY <1>6
  <2>2. path'[k] = whole[(n - k) + 1] /\ path'[k + 1] = whole[n - k]
    BY <1>7, <2>1
  <2> QED
    BY <1>9, <2>1, <2>2
<1>16. goal = queue'[head'] /\ visited' = visited
  BY <1>1, <1>2
<1> QED
  BY <1>1, <1>6, <1>12, <1>13, <1>14, <1>15, <1>16 DEF GridWalk

\* Every step keeps the whole.
LEMMA GridFullNext == GridFullInv /\ [GRID!Next]_GRID!vars => GridFullInv'
<1> SUFFICES ASSUME GridFullInv, [GRID!Next]_GRID!vars PROVE GridFullInv'
  OBVIOUS
<1>1. GridInv /\ GridInv'
  BY GridNextInv DEF GridFullInv
<1>2. PICK dist \in [GRID!Cells -> Nat] : GridLayers(dist) /\ GridWalk(dist)
  BY DEF GridFullInv
<1>3. CASE GRID!Dequeue
  <2>1. GridLayers(dist)'
    BY <1>1, <1>2, <1>3, GridDequeueLayers
  <2>2. /\ pc = "loop" /\ path' = path /\ path = <<>> /\ path \in Seq(GRID!Cells)
        /\ head' = head + 1 /\ head + 1 \in 1..Len(queue) /\ queue' = queue /\ curr' = queue[head + 1]
        /\ visited' = visited /\ pc' \in {"backtrack", "explore"}
    BY <1>1, <1>2, <1>3, GridDequeues DEF GridWalk
  <2>3. queue[head + 1] \in visited /\ queue[head + 1] \in GRID!Cells
    BY <1>1, <2>2 DEF GridInv, GridMarked, GridTypeOK
  <2>4. GridWalk(dist)'
    <3>1. /\ curr' \in visited' /\ curr' = queue'[head'] /\ dist[curr'] \in Nat /\ Len(path') = 0
          /\ path' = <<>> /\ path' \in Seq(GRID!Cells)
      BY <2>2, <2>3
    <3>2. Len(path') + dist[curr'] = dist[queue'[head']]
      BY <3>1
    <3> QED
      BY <2>2, <3>1, <3>2 DEF GridWalk
  <2> QED
    BY <1>1, <2>1, <2>4 DEF GridFullInv
<1>4. CASE GRID!Explore
  <2>0. pc = "explore" /\ pc' = "explore" /\ path' = path /\ curr \in visited
    BY <1>1, <1>4, GridExplores
  <2>1. ~ GridEnded /\ ~ GridEnded'
    BY <2>0 DEF GridEnded
  <2>2. CASE ~ GRID!Enters(GRID!Toward(curr, i))
    <3>1. GridLayers(dist)'
      BY <1>1, <1>2, <1>4, <2>2, GridSeenLayers
    <3>2. GridWalk(dist)'
      BY <1>2, <2>0, <2>1, GridQuietWalk
    <3> QED
      BY <1>1, <3>1, <3>2 DEF GridFullInv
  <2>3. CASE GRID!Enters(GRID!Toward(curr, i))
    <3>1. PICK e \in [GRID!Cells -> Nat] : Raised(e, dist, visited, GRID!Toward(curr, i), dist[curr] + 1)
      <4>1. PICK next : next = GRID!Toward(curr, i)
        OBVIOUS
      <4>2. next \in GRID!Cells /\ next \notin visited /\ visited \subseteq GRID!Cells /\ dist[curr] + 1 \in Nat
        BY <1>1, <2>0, <2>3, <4>1 DEF GRID!Enters, GRID!Free, GridInv, GridTypeOK
      <4> DEFINE e == [dist EXCEPT ![next] = dist[curr] + 1]
      <4>3. e \in [GRID!Cells -> Nat] /\ e[next] = dist[curr] + 1
        BY <4>2
      <4>4. \A m \in visited : e[m] = dist[m]
        BY <4>2
      <4> HIDE DEF e
      <4> QED
        BY <4>1, <4>3, <4>4 DEF Raised
    <3>2. GridLayers(e)'
      BY <1>1, <1>2, <1>4, <2>3, <3>1, GridMarkLayers
    <3>3. GridWalk(e)'
      BY <1>2, <2>0, <2>1, GridQuietWalk
    <3> QED
      BY <1>1, <3>2, <3>3 DEF GridFullInv
  <2> QED
    BY <2>2, <2>3
<1>5. CASE GRID!Explored \/ GRID!NoPath
  <2>0. Len(GRID!Directions) = 4
    BY DEF GRID!Directions
  <2>1. UNCHANGED <<maze, queue, head, visited, parent, i, path>> /\ (pc = "explore" => i > 4)
    BY <1>5, <2>0 DEF GRID!Explored, GRID!NoPath
  <2>2. ~ GridEnded /\ ~ GridEnded'
    BY <1>5 DEF GRID!Explored, GRID!NoPath, GridEnded
  <2>3. GridLayers(dist)'
    BY <1>1, <1>2, <2>1, <2>2, GridStillLayers
  <2>4. GridWalk(dist)'
    BY <1>2, <2>1, <2>2, GridQuietWalk
  <2> QED
    BY <1>1, <2>3, <2>4 DEF GridFullInv
<1>6. CASE GRID!Backtrack \/ GRID!Report
  <2>1. UNCHANGED <<maze, queue, head, visited, parent, i>> /\ pc # "explore"
    BY <1>6 DEF GRID!Backtrack, GRID!Report
  <2>2. GridEnded' <=> GridEnded
    BY <1>6 DEF GRID!Backtrack, GRID!Report, GridEnded
  <2>3. GridLayers(dist)'
    BY <1>1, <1>2, <2>1, <2>2, GridStillLayers
  <2>4. GridWalk(dist)'
    BY <1>1, <1>2, <1>6, GridWalkBack, GridReport
  <2> QED
    BY <1>1, <2>3, <2>4 DEF GridFullInv
<1>7. CASE UNCHANGED GRID!vars
  <2>1. UNCHANGED <<maze, queue, head, visited, parent, curr, i, path, pc>>
    BY <1>7 DEF GRID!vars
  <2>2. GridEnded' <=> GridEnded
    BY <2>1 DEF GridEnded
  <2>3. GridLayers(dist)'
    BY <1>1, <1>2, <2>1, <2>2, GridStillLayers
  <2>4. GridWalk(dist)'
    BY <1>2, <2>1 DEF GridWalk
  <2> QED
    BY <1>1, <2>3, <2>4 DEF GridFullInv
<1> QED
  BY <1>3, <1>4, <1>5, <1>6, <1>7 DEF GRID!Next

\* Where a cell leads: to itself, and to the free cells around it.
LEMMA GridMoves ==
  ASSUME NEW c \in GRID!Cells
  PROVE  /\ GRID!Moves[c] \in Seq(GRID!Cells)
         /\ \A m : m \in Range(GRID!Moves[c]) <=>
              \E d \in 1..4 : IF GRID!Free(GRID!Toward(c, d)) THEN m = GRID!Toward(c, d) ELSE m = c
<1> DEFINE f == [d \in 1..4 |-> IF GRID!Free(GRID!Toward(c, d)) THEN GRID!Toward(c, d) ELSE c]
<1>1. GRID!Moves[c] = f
  BY DEF GRID!Moves, GRID!Around
<1>2. \A d \in 1..4 : f[d] \in GRID!Cells
  BY DEF GRID!Free
<1>3. f \in [1..4 -> GRID!Cells]
  BY <1>2
<1>4. f \in Seq(GRID!Cells)
  BY <1>3, SeqDef
<1>5. Range(f) = { f[d] : d \in 1..4 }
  BY DEF Range
<1> QED
  BY <1>1, <1>4, <1>5

\* Of the cells within d steps, those nearer than the last one taken have left the
\* queue before it.
LEMMA GridNear ==
  ASSUME GridInv, head > 0, pc # "explore", NEW dist \in [GRID!Cells -> Nat], GridLayers(dist)
  PROVE  \A d \in Nat : \/ dist[queue[head]] <= d
                        \/ \A m \in Within(GRID!Moves, GRID!Start, d) : m \in visited /\ dist[m] <= d
<1> DEFINE last == dist[queue[head]]
           B == { d \in Nat : ~ (last <= d \/ \A m \in Within(GRID!Moves, GRID!Start, d) : m \in visited /\ dist[m] <= d) }
<1>0. /\ visited \subseteq GRID!Cells /\ queue \in Seq(GRID!Cells)
      /\ head \in 1..Len(queue) /\ Len(queue) \in Nat /\ last \in Nat
  BY DEF GridInv, GridTypeOK
<1> SUFFICES ASSUME B # {} PROVE FALSE
  OBVIOUS
<1>1. PICK d \in B : \A k \in B : d <= k
  <2>1. B \in SUBSET Nat /\ B # {}
    OBVIOUS
  <2> HIDE DEF B
  <2> QED
    BY <2>1, Least
<1>2. d \in Nat /\ ~ (last <= d)
  BY <1>1
<1>3. PICK m \in Within(GRID!Moves, GRID!Start, d) : ~ (m \in visited /\ dist[m] <= d)
  BY <1>1
<1>4. CASE d = 0
  <2>1. m = GRID!Start
    BY <1>3, <1>4, WithinSteps
  <2>2. GRID!Start \in visited /\ dist[GRID!Start] = 0
    BY DEF GridInv, GridMarked, GridLayers
  <2> QED
    BY <1>3, <1>4, <2>1, <2>2
<1>5. CASE d # 0
  <2>1. d - 1 \in Nat /\ (d - 1) + 1 = d /\ ~ (d <= d - 1)
    BY <1>2, <1>5
  <2>2. \A n \in Within(GRID!Moves, GRID!Start, d - 1) : n \in visited /\ dist[n] <= d - 1
    <3>1. ~ (last <= d - 1)
      BY <1>0, <1>2
    <3> QED
      BY <1>1, <2>1, <3>1
  <2>3. Within(GRID!Moves, GRID!Start, d) = Beyond(GRID!Moves, Within(GRID!Moves, GRID!Start, d - 1))
    <3> HIDE DEF B
    <3>1. \A k \in Nat : Within(GRID!Moves, GRID!Start, k + 1) = Beyond(GRID!Moves, Within(GRID!Moves, GRID!Start, k))
      BY WithinSteps
    <3> QED
      BY <2>1, <3>1
  <2> HIDE DEF B, last
  <2>4. CASE m \in Within(GRID!Moves, GRID!Start, d - 1)
    <3>1. m \in visited /\ dist[m] <= d - 1 /\ dist[m] \in Nat
      BY <1>0, <2>2, <2>4
    <3> QED
      BY <1>2, <1>3, <3>1
  <2>5. CASE m \notin Within(GRID!Moves, GRID!Start, d - 1)
    <3>1. PICK n \in Within(GRID!Moves, GRID!Start, d - 1) : m \in Range(GRID!Moves[n])
      BY <1>3, <2>3, <2>5 DEF Beyond
    <3>2. n \in visited /\ n \in GRID!Cells /\ dist[n] \in Nat /\ dist[n] <= d - 1
      BY <1>0, <2>2, <3>1
    <3>3. PICK x \in 1..4 : IF GRID!Free(GRID!Toward(n, x)) THEN m = GRID!Toward(n, x) ELSE m = n
      <4>1. \A y : y \in Range(GRID!Moves[n]) <=>
              \E d_1 \in 1..4 : IF GRID!Free(GRID!Toward(n, d_1)) THEN y = GRID!Toward(n, d_1) ELSE y = n
        BY <3>2, GridMoves, Zenon
      <4> QED
        BY <3>1, <4>1, Zenon
    <3>4. m # n
      BY <2>5, <3>1
    <3>5. GRID!Free(GRID!Toward(n, x)) /\ m = GRID!Toward(n, x)
      BY <3>3, <3>4
    <3>6. PICK k \in 1..Len(queue) : queue[k] = n
      BY <3>2 DEF GridInv, GridMarked
    <3>7. k < head
      <4> SUFFICES ASSUME ~ (k < head) PROVE FALSE
        OBVIOUS
      <4>1. head <= k
        BY <1>0
      <4>2. last <= dist[n]
        BY <1>0, <3>6, <4>1 DEF GridLayers, last
      <4> QED
        BY <1>0, <1>2, <3>2, <4>2
    <3>8. k \in 1..head /\ k # head
      BY <1>0, <3>7
    <3>9. x \in GridTried(k)
      BY <3>8 DEF GridTried
    <3>10. m \in visited /\ dist[m] <= dist[n] + 1
      BY <3>5, <3>6, <3>8, <3>9 DEF GridInv, GridExpanded, GridLayers
    <3>11. dist[m] \in Nat
      BY <1>0, <3>10
    <3> QED
      BY <1>2, <1>3, <3>2, <3>10, <3>11
  <2> QED
    BY <2>4, <2>5
<1> QED
  BY <1>4, <1>5

\* When the queue has emptied, no move leaves what is marked.
LEMMA GridClosedWhenEmpty ==
  ASSUME GridInv, head = Len(queue), pc \in {"loop", "none"}
  PROVE  \A n \in visited : Range(GRID!Moves[n]) \subseteq visited
<1> SUFFICES ASSUME NEW n \in visited, NEW m \in Range(GRID!Moves[n]) PROVE m \in visited
  OBVIOUS
<1>1. n \in GRID!Cells
  BY DEF GridInv, GridTypeOK
<1>2. PICK d \in 1..4 : IF GRID!Free(GRID!Toward(n, d)) THEN m = GRID!Toward(n, d) ELSE m = n
  BY <1>1, GridMoves
<1>3. PICK k \in 1..head : queue[k] = n
  BY DEF GridInv, GridMarked
<1>4. d \in GridTried(k)
  BY DEF GridTried, GridEnded
<1> QED
  BY <1>2, <1>3, <1>4 DEF GridInv, GridExpanded

\* What the layers mean when an end is found: none is nearer.
LEMMA GridShortest ==
  ASSUME GridFullInv PROVE GRID!PrintsShortestPath
<1>1. GridInv
  BY DEF GridFullInv
<1>2. PICK dist \in [GRID!Cells -> Nat] : GridLayers(dist) /\ GridWalk(dist)
  BY DEF GridFullInv
<1>3. \A g, m, d : GRID!Within(g, m, d) = Within(g, m, d)
  BY DEF GRID!Within, Within, Range, GRID!Range
<1>4. GRID!Last(path) = path[Len(path)]
  BY DEF GRID!Last
<1>5. ASSUME pc = "found"
      PROVE  /\ path[1] = GRID!Start /\ maze[path[Len(path)]] = "end"
             /\ \A k \in 1..(Len(path) - 1) :
                  GRID!Free(path[k + 1]) /\ \E d \in 1..4 : path[k + 1] = GRID!Toward(path[k], d)
             /\ Len(path) > 1 => \A c \in Within(GRID!Moves, GRID!Start, Len(path) - 2) : maze[c] # "end"
  <2>1. /\ path \in Seq(GRID!Cells) /\ Len(path) = dist[queue[head]] + 1
        /\ path[1] = GRID!Start /\ path[Len(path)] = queue[head]
        /\ \A k \in 1..Len(path) : path[k] \in visited
        /\ \A k \in 1..(Len(path) - 1) : Moved(path[k], path[k + 1])
    BY <1>2, <1>5 DEF GridWalk
  <2>2. /\ head \in 1..Len(queue) /\ Len(queue) \in Nat /\ maze[queue[head]] = "end"
        /\ \A k \in 1..head : maze[queue[k]] = "end" => k = head
        /\ queue[head] \in GRID!Cells
    <3>1. GridEnded /\ pc # "none"
      BY <1>5 DEF GridEnded
    <3>2. head \in 1..Len(queue) /\ Len(queue) \in Nat /\ queue[head] \in GRID!Cells
      BY <1>1, <3>1 DEF GridInv, GridTypeOK, GridEnds
    <3>3. head \in 1..head
      BY <3>2
    <3> QED
      BY <1>1, <3>1, <3>2, <3>3 DEF GridInv, GridEnds
  <2>3. dist[queue[head]] \in Nat /\ Len(path) \in Nat
    BY <2>1, <2>2
  <2>4. ASSUME NEW k \in 1..(Len(path) - 1)
        PROVE  GRID!Free(path[k + 1]) /\ \E d \in 1..4 : path[k + 1] = GRID!Toward(path[k], d)
    <3>1. k + 1 \in 1..Len(path)
      BY <2>3
    <3>2. path[k + 1] \in visited
      BY <2>1, <3>1
    <3> QED
      BY <1>1, <2>1, <3>2 DEF GridInv, GridMarked, Moved
  <2>5. ASSUME Len(path) > 1, NEW c \in Within(GRID!Moves, GRID!Start, Len(path) - 2), maze[c] = "end"
        PROVE  FALSE
    <3>1. PICK d : d = Len(path) - 2
      OBVIOUS
    <3>2. d \in Nat /\ d < dist[queue[head]]
      BY <2>1, <2>3, <2>5, <3>1
    <3>3. c \in visited /\ dist[c] <= d
      <4>1. pc # "explore" /\ head > 0
        BY <1>5, <2>2
      <4>2. \/ dist[queue[head]] <= d
            \/ \A m \in Within(GRID!Moves, GRID!Start, d) : m \in visited /\ dist[m] <= d
        BY <1>1, <1>2, <3>2, <4>1, GridNear
      <4> QED
        BY <2>3, <2>5, <3>1, <3>2, <4>2
    <3>4. PICK k \in 1..Len(queue) : queue[k] = c
      BY <1>1, <3>3 DEF GridInv, GridMarked
    <3>5. dist[c] \in Nat
      BY <1>1, <3>3 DEF GridInv, GridTypeOK
    <3>6. k < head
      <4> SUFFICES ASSUME ~ (k < head) PROVE FALSE
        OBVIOUS
      <4>1. head <= k
        BY <2>2
      <4>2. dist[queue[head]] <= dist[c]
        BY <1>2, <2>2, <3>4, <4>1 DEF GridLayers
      <4> QED
        BY <2>3, <3>2, <3>3, <3>5, <4>2
    <3>7. k \in 1..head /\ k # head
      BY <2>2, <3>6
    <3> QED
      BY <2>2, <2>5, <3>4, <3>7
  <2> QED
    BY <2>1, <2>2, <2>4, <2>5
<1>6. ASSUME pc = "none", NEW c \in Within(GRID!Moves, GRID!Start, R * C) PROVE maze[c] # "end"
  <2>1. head = Len(queue)
    BY <1>1, <1>6 DEF GridInv, GridEnds
  <2>2. GRID!Start \in visited /\ \A n \in visited : Range(GRID!Moves[n]) \subseteq visited
    BY <1>1, <1>6, <2>1, GridClosedWhenEmpty DEF GridInv, GridMarked
  <2>3. Within(GRID!Moves, GRID!Start, R * C) \subseteq visited
    <3>1. R * C \in Nat
      BY GridCells
    <3>2. \A d \in Nat : Within(GRID!Moves, GRID!Start, d) \subseteq visited
      BY <2>2, WithinClosed
    <3> QED
      BY <3>1, <3>2
  <2>4. PICK k \in 1..head : queue[k] = c
    BY <1>1, <1>6, <2>1, <2>3 DEF GridInv, GridMarked
  <2> QED
    BY <1>1, <1>6, <2>4 DEF GridInv, GridEnds, GridEnded
<1> QED
  BY <1>3, <1>4, <1>5, <1>6 DEF GRID!PrintsShortestPath

\* The steps bfs-shortest-path-in-grid.c prints (82-120) lead from the start to an end,
\* each to a free cell next to the one before; no end is nearer, and none can be
\* reached when nothing is printed.
THEOREM GridIsShortest == GRID!Spec => []GRID!PrintsShortestPath
BY GridShortest, GridFullInit, GridFullNext, PTL DEF GRID!Spec

\* The cells of the way are apart, being in layers of their own.
LEMMA GridTyped ==
  ASSUME GridFullInv PROVE GRID!TypeOK
<1>1. GridTypeOK /\ GridMarked /\ GridEnds
  BY DEF GridFullInv, GridInv
<1>2. PICK dist \in [GRID!Cells -> Nat] : GridLayers(dist) /\ GridWalk(dist)
  BY DEF GridFullInv
<1>3. path \in Seq(GRID!Cells) /\ Len(path) \in Nat
  BY <1>2 DEF GridWalk
<1>4. \A k \in 1..Len(path) : path[k] \in GRID!Cells /\ dist[path[k]] \in Nat
  BY <1>3
<1>5. \A j, k \in 1..Len(path) : path[j] = path[k] => j = k
  <2>1. CASE pc = "backtrack"
    <3>1. \A k \in 1..Len(path) : dist[path[k]] + k = dist[queue[head]] + 1
      BY <1>2, <2>1 DEF GridWalk
    <3> QED
      BY <1>4, <3>1
  <2>2. CASE pc = "found"
    <3>1. \A k \in 1..Len(path) : dist[path[k]] = k - 1
      BY <1>2, <2>2 DEF GridWalk
    <3> QED
      BY <1>4, <3>1
  <2>3. CASE pc \notin {"backtrack", "found"}
    <3>1. Len(path) = 0
      BY <1>2, <2>3 DEF GridWalk
    <3> QED
      BY <3>1
  <2> QED
    BY <2>1, <2>2, <2>3
<1>6. Len(path) <= R * C
  <2>1. path \in Injection(1..Len(path), GRID!Cells)
    <3>1. path \in [1..Len(path) -> GRID!Cells]
      BY <1>3
    <3> QED
      BY <1>5, <3>1 DEF Injection, IsInjective
  <2>2. Cardinality(1..Len(path)) = Len(path)
    BY <1>3, FirstNumbers
  <2>3. Cardinality(1..Len(path)) <= Cardinality(GRID!Cells)
    BY <2>1, FS_Injection, GridCells
  <2> QED
    BY <2>2, <2>3, GridCells
<1>7. GRID!IsInjective(queue)
  <2>1. DOMAIN queue = 1..Len(queue)
    BY <1>1 DEF GridTypeOK
  <2> QED
    BY <1>1, <2>1 DEF GRID!IsInjective, GridMarked
<1> QED
  BY <1>1, <1>6, <1>7 DEF GRID!TypeOK, GridTypeOK

\* The first states of solve are first states of a search,
LEMMA GridSearchInit == GRID!Init => GridSearch!Init
<1> SUFFICES ASSUME GRID!Init PROVE GridSearch!Init
  OBVIOUS
<1>1. DOMAIN GRID!Moves = GRID!Cells
  BY DEF GRID!Moves
<1>2. \A n \in DOMAIN GRID!Moves : GRID!Moves[n] \in Seq(DOMAIN GRID!Moves)
  BY <1>1, GridMoves
<1>3. GRID!Start \in DOMAIN GRID!Moves
  BY <1>1, GridCells
<1>4. visited = {GRID!Start} /\ GridOver = FALSE
  BY DEF GRID!Init, GridOver
<1> QED
  BY <1>2, <1>3, <1>4 DEF GridSearch!Init

\* and its steps steps of a search, or none.
LEMMA GridSearchNext == GridFullInv /\ [GRID!Next]_GRID!vars => [GridSearch!Next]_GridSearch!vars
<1> SUFFICES ASSUME GridInv, [GRID!Next]_GRID!vars PROVE [GridSearch!Next]_GridSearch!vars
  BY DEF GridFullInv
<1>0. maze' = maze => GRID!Moves' = GRID!Moves /\ GRID!Start' = GRID!Start
  BY DEF GRID!Moves, GRID!Around, GRID!Free
<1>1. CASE GRID!Explore
  <2>1. /\ pc = "explore" /\ i \in 1..4 /\ UNCHANGED <<maze, pc>> /\ curr \in visited
    BY <1>1, GridExplores
  <2>2. CASE ~ GRID!Enters(GRID!Toward(curr, i))
    <3>1. visited' = visited
      BY <1>1, <2>2, GridExplores
    <3> QED
      BY <1>0, <2>1, <3>1 DEF GridSearch!vars, GridOver
  <2>3. CASE GRID!Enters(GRID!Toward(curr, i))
    <3>1. visited' = visited \cup {GRID!Toward(curr, i)}
      BY <1>1, <2>3, GridExplores
    <3>2. GRID!Toward(curr, i) \notin visited /\ GRID!Free(GRID!Toward(curr, i))
      BY <2>3 DEF GRID!Enters
    <3>3. curr \in GRID!Cells
      BY DEF GridInv, GridTypeOK
    <3>4. GRID!Toward(curr, i) \in GridSearch!Successors(curr)
      BY <2>1, <3>2, <3>3, GridMoves DEF GridSearch!Successors, GridSearch!Range, Range
    <3>5. GridSearch!Mark
      BY <1>0, <2>1, <3>1, <3>2, <3>4 DEF GridSearch!Mark, GridOver
    <3> QED
      BY <3>5 DEF GridSearch!Next
  <2> QED
    BY <2>2, <2>3
<1>2. CASE GRID!NoPath
  <2>1. UNCHANGED <<maze, visited>> /\ ~ GridOver /\ GridOver' /\ head = Len(queue) /\ pc = "loop"
    BY <1>2 DEF GRID!NoPath, GridOver
  <2>2. \A n \in visited : Range(GRID!Moves[n]) \subseteq visited
    BY <2>1, GridClosedWhenEmpty
  <2>3. GridSearch!Closed(visited)
    BY <2>2 DEF GridSearch!Closed, GridSearch!Successors, GridSearch!Range, Range
  <2> QED
    BY <1>0, <2>1, <2>3 DEF GridSearch!Next, GridSearch!Return, GridOver
<1>3. CASE GRID!Dequeue \/ GRID!Explored \/ GRID!Backtrack \/ GRID!Report \/ UNCHANGED GRID!vars
  <2>1. UNCHANGED <<maze, visited>> /\ GridOver' = GridOver
    BY <1>3 DEF GRID!Dequeue, GRID!Explored, GRID!Backtrack, GRID!Report, GRID!vars, GridOver
  <2> QED
    BY <1>0, <2>1 DEF GridSearch!vars
<1> QED
  BY <1>1, <1>2, <1>3 DEF GRID!Next

\* The moves are a graph, and exploring a direction marks a cell that a marked one leads
\* to (bfs-shortest-path-in-grid.c 58-88, 132-158).
THEOREM GridImplementsSearch == GRID!Spec => GridSearch!Spec
BY GridSearchInit, GridSearchNext, GridFullInit, GridFullNext, PTL DEF GRID!Spec, GridSearch!Spec

-----------------------------------------------------------------------------
(* connected-components.c *)

\* The variables of find_connected_components.
CompTypeOK ==
  /\ adj \in [Nodes -> Seq(Nodes)]
  /\ vertex \in Nat \ {0} /\ vertex <= Cardinality(Nodes) + 1
  /\ count \in Nat /\ count <= vertex - 1
  /\ visited \subseteq Nodes
  /\ components \in [Nodes -> Nat]
  /\ stack \in Seq(Frame)

\* A vertex has a number exactly when it is visited; those before the outer loop are.
CompNumbered ==
  /\ \A m \in Nodes : IF m \in visited THEN components[m] \in 1..count ELSE components[m] = 0
  /\ \A c \in 1..count : \E m \in visited : components[m] = c
  /\ \A m \in Nodes : m < vertex => m \in visited

\* The running calls are of different vertices, all of the last number.
CompStack ==
  /\ \A k \in 1..Len(stack) : stack[k].node \in visited /\ components[stack[k].node] = count
  /\ \A j, k \in 1..Len(stack) : j # k => stack[j].node # stack[k].node

\* A neighbour has a number, no later one, or the loop of a running call has yet to
\* come to it.
CompPending ==
  \A m \in visited : \A j \in 1..Len(adj[m]) :
    \/ adj[m][j] \in visited /\ components[adj[m][j]] <= components[m]
    \/ \E k \in 1..Len(stack) : stack[k].node = m /\ stack[k].i <= j

\* r is the oldest vertex from which m can be reached: all before it have earlier numbers.
IsRoot(r, m) ==
  /\ components[r] = components[m] /\ m \in Within(adj, r, Cardinality(Nodes))
  /\ \A j \in Nodes : j < r => j \in visited /\ components[j] < components[m]

\* Every numbered vertex has one.
CompRooted == \A m \in visited : \E r \in visited : IsRoot(r, m)

\* Together.
CompInv == CompTypeOK /\ CompNumbered /\ CompStack /\ CompPending /\ CompRooted

\* The vertices are the nodes of the pool.
LEMMA CompVertices ==
  /\ COMP!Vertices = Nodes /\ Cardinality(Nodes) \in Nat
  /\ Nodes = 1..Cardinality(Nodes) /\ Nodes \subseteq Nat
<1>1. Cardinality(Nodes) \in Nat /\ Nodes = 1..Cardinality(Nodes)
  BY PoolAssumption, TraversalsAssumption, FS_CardinalityType
<1> QED
  BY <1>1 DEF COMP!Vertices

\* It holds at the start.
LEMMA CompInitInv == COMP!Init => CompInv
<1> SUFFICES ASSUME COMP!Init PROVE CompInv
  OBVIOUS
<1>1. /\ adj \in [Nodes -> Seq(Nodes)] /\ vertex = 1 /\ count = 0 /\ visited = {} /\ stack = <<>>
      /\ components = [m \in Nodes |-> 0]
  BY CompVertices, PoolAssumption, TraversalsAssumption DEF COMP!Init
<1>2. CompTypeOK
  BY <1>1, CompVertices DEF CompTypeOK
<1>3. CompNumbered
  <2>1. \A m \in Nodes : ~ (m < 1)
    BY CompVertices
  <2> QED
    BY <1>1, <2>1 DEF CompNumbered
<1>4. CompStack /\ CompPending /\ CompRooted
  BY <1>1 DEF CompStack, CompPending, CompRooted
<1> QED
  BY <1>2, <1>3, <1>4 DEF CompInv

\* What a root is depends on the numbers of the vertices up to it and of the one it is
\* the root of.
LEMMA CompRootStays ==
  ASSUME CompTypeOK, NEW r \in visited, NEW m \in visited, IsRoot(r, m), visited \subseteq visited', adj' = adj,
         \A k \in visited : components'[k] = components[k]
  PROVE  IsRoot(r, m)'
BY DEF IsRoot

\* The outer loop comes to a vertex that has a number.
LEMMA CompPassOver ==
  ASSUME CompInv, vertex \in visited, vertex \in Nodes, vertex' = vertex + 1,
         UNCHANGED <<adj, count, visited, components, stack>>
  PROVE  CompInv'
<1>1. vertex \in 1..Cardinality(Nodes) /\ Cardinality(Nodes) \in Nat
  BY CompVertices
<1>2. CompTypeOK'
  BY <1>1 DEF CompInv, CompTypeOK
<1>3. CompNumbered'
  <2>1. \A m \in Nodes : m < vertex + 1 => m < vertex \/ m = vertex
    BY <1>1, CompVertices
  <2>2. \A m \in Nodes : m < vertex + 1 => m \in visited
    BY <2>1 DEF CompInv, CompNumbered
  <2> QED
    BY <2>2 DEF CompInv, CompNumbered
<1>4. CompStack' /\ CompPending' /\ CompRooted'
  <2>1. CompStack'
    BY DEF CompInv, CompStack
  <2>2. CompPending'
    BY DEF CompInv, CompPending
  <2>3. CompRooted'
    BY DEF CompInv, CompRooted, IsRoot
  <2> QED
    BY <2>1, <2>2, <2>3
<1> QED
  BY <1>2, <1>3, <1>4 DEF CompInv

\* It comes to one that has none: a search with a new number starts there.
LEMMA CompStart ==
  ASSUME CompInv, vertex \notin visited, vertex \in Nodes, stack = <<>>, vertex' = vertex + 1,
         count' = count + 1, visited' = visited \cup {vertex},
         components' = [components EXCEPT ![vertex] = count + 1],
         stack' = <<[node |-> vertex, i |-> 1]>>, adj' = adj
  PROVE  CompInv'
<1>1. vertex \in 1..Cardinality(Nodes) /\ Cardinality(Nodes) \in Nat /\ count \in Nat
  BY CompVertices DEF CompInv, CompTypeOK
<1>2. /\ components'[vertex] = count + 1
      /\ \A m \in Nodes : m # vertex => components'[m] = components[m]
      /\ \A m \in visited : components'[m] = components[m] /\ components[m] \in 1..count
  BY DEF CompInv, CompTypeOK, CompNumbered
<1>3. Len(stack') = 1 /\ stack'[1] = [node |-> vertex, i |-> 1] /\ stack' \in Seq(Frame)
  BY DEF Frame
<1>4. CompTypeOK'
  <2>1. components' \in [Nodes -> Nat]
    BY <1>1 DEF CompInv, CompTypeOK
  <2>2. vertex' \in Nat \ {0} /\ vertex' <= Cardinality(Nodes) + 1 /\ count' \in Nat /\ count' <= vertex' - 1
    BY <1>1 DEF CompInv, CompTypeOK
  <2> QED
    BY <1>3, <2>1, <2>2 DEF CompInv, CompTypeOK
<1>5. CompNumbered'
  <2>1. ASSUME NEW m \in Nodes PROVE IF m \in visited' THEN components'[m] \in 1..count' ELSE components'[m] = 0
    BY <1>1, <1>2 DEF CompInv, CompNumbered
  <2>2. ASSUME NEW c \in 1..count' PROVE \E m \in visited' : components'[m] = c
    <3>1. CASE c = count + 1
      BY <1>2, <3>1
    <3>2. CASE c \in 1..count
      BY <1>2, <3>2 DEF CompInv, CompNumbered
    <3> QED
      BY <1>1, <2>2, <3>1, <3>2
  <2>3. ASSUME NEW m \in Nodes, m < vertex' PROVE m \in visited'
    <3>1. m < vertex \/ m = vertex
      BY <1>1, <2>3, CompVertices
    <3> QED
      BY <3>1 DEF CompInv, CompNumbered
  <2> QED
    BY <2>1, <2>2, <2>3 DEF CompNumbered
<1>6. CompStack'
  BY <1>2, <1>3 DEF CompStack
<1>7. CompPending'
  <2> SUFFICES ASSUME NEW m \in visited', NEW j \in 1..Len(adj[m])
               PROVE  \/ adj[m][j] \in visited' /\ components'[adj[m][j]] <= components'[m]
                      \/ \E k \in 1..1 : stack'[k].node = m /\ stack'[k].i <= j
    BY <1>3 DEF CompPending
  <2>1. CASE m = vertex
    BY <1>3, <2>1
  <2>2. CASE m \in visited
    <3>1. adj[m][j] \in visited /\ components[adj[m][j]] <= components[m]
      BY <2>2 DEF CompInv, CompPending
    <3> QED
      BY <1>2, <2>2, <3>1
  <2> QED
    BY <2>1, <2>2
<1>8. CompRooted'
  <2> SUFFICES ASSUME NEW m \in visited' PROVE \E r \in visited' : IsRoot(r, m)'
    BY DEF CompRooted
  <2>1. CASE m = vertex
    <3>1. vertex \in Within(adj, vertex, Cardinality(Nodes))
      <4>0. Cardinality(Nodes) \in Nat /\ 0 <= Cardinality(Nodes)
        BY <1>1
      <4>1. Within(adj, vertex, 0) = {vertex}
        BY WithinSteps, Zenon
      <4>2. Within(adj, vertex, 0) \subseteq Within(adj, vertex, Cardinality(Nodes))
        BY <1>1, <4>0, WithinGrows
      <4> QED
        BY <4>1, <4>2
    <3>2. ASSUME NEW j \in Nodes, j < vertex PROVE j \in visited' /\ components'[j] < count + 1
      <4>1. j \in visited
        BY <3>2 DEF CompInv, CompNumbered
      <4>2. components'[j] \in 1..count
        BY <1>2, <4>1
      <4> QED
        BY <1>1, <4>1, <4>2
    <3>3. PICK v \in visited' : v = vertex
      OBVIOUS
    <3>4. IsRoot(v, v)'
      BY <1>2, <3>1, <3>2, <3>3 DEF IsRoot
    <3> QED
      BY <2>1, <3>3, <3>4
  <2>2. CASE m \in visited
    <3>1. PICK r \in visited : IsRoot(r, m)
      BY <2>2 DEF CompInv, CompRooted
    <3>2. IsRoot(r, m)'
      BY <1>2, <2>2, <3>1, CompRootStays DEF CompInv
    <3> QED
      BY <3>1, <3>2
  <2> QED
    BY <2>1, <2>2
<1> QED
  BY <1>4, <1>5, <1>6, <1>7, <1>8 DEF CompInv

\* The outer loop: the next vertex is passed over, or starts a number.
LEMMA CompNextVertexInv == CompInv /\ COMP!NextVertex => CompInv'
<1> SUFFICES ASSUME CompInv, COMP!NextVertex PROVE CompInv'
  OBVIOUS
<1>1. vertex \in Nodes /\ vertex' = vertex + 1 /\ adj' = adj /\ stack = <<>>
  BY CompVertices DEF COMP!NextVertex, CompInv, CompTypeOK
<1>2. CASE vertex \in visited
  BY <1>1, <1>2, CompPassOver DEF COMP!NextVertex
<1>3. CASE vertex \notin visited
  <2>1. /\ count' = count + 1 /\ visited' = visited \cup {vertex}
        /\ components' = [components EXCEPT ![vertex] = count + 1]
        /\ stack' = Append(<<>>, [node |-> vertex, i |-> 1])
    BY <1>3 DEF COMP!NextVertex, COMP!Enter
  <2>2. stack' = <<[node |-> vertex, i |-> 1]>>
    BY <2>1
  <2> QED
    BY <1>1, <1>3, <2>1, <2>2, CompStart
<1> QED
  BY <1>2, <1>3

\* What a turn of the loop of the innermost call looks at, and the calls with that loop
\* one further.
CompCallee == adj[COMP!Top.node][COMP!Top.i]

\* The calls when the loop of the innermost one has gone on.
CompFrames == [stack EXCEPT ![Len(stack)] = [node |-> COMP!Top.node, i |-> COMP!Top.i + 1]]

\* What a turn of that loop does.
LEMMA CompTurn ==
  ASSUME CompInv, COMP!Recurse
  PROVE  /\ Len(stack) \in Nat \ {0} /\ COMP!Top = stack[Len(stack)]
            /\ COMP!Top.i \in 1..Len(adj[COMP!Top.node]) /\ CompCallee \in Nodes /\ COMP!Top.node \in visited
            /\ components[COMP!Top.node] = count
            /\ UNCHANGED <<adj, vertex, count>>
         /\ CompFrames \in Seq(Frame) /\ Len(CompFrames) = Len(stack)
         /\ \A k \in 1..Len(stack) : /\ CompFrames[k].node = stack[k].node
                                     /\ k # Len(stack) => CompFrames[k].i = stack[k].i
         /\ CompFrames[Len(stack)].i = COMP!Top.i + 1
         /\ \/ CompCallee \in visited /\ stack' = CompFrames /\ UNCHANGED <<visited, components>>
            \/ /\ CompCallee \notin visited /\ visited' = visited \cup {CompCallee}
               /\ components' = [components EXCEPT ![CompCallee] = count]
               /\ stack' = Append(CompFrames, [node |-> CompCallee, i |-> 1])
<1>1. /\ Len(stack) \in Nat \ {0} /\ COMP!Top = stack[Len(stack)]
      /\ COMP!Top.i \in 1..Len(adj[COMP!Top.node]) /\ CompCallee \in Nodes /\ COMP!Top.node \in visited
      /\ components[COMP!Top.node] = count
      /\ UNCHANGED <<adj, vertex, count>> /\ COMP!Top \in Frame
  <2>1. /\ Len(stack) \in Nat \ {0} /\ COMP!Top = stack[Len(stack)] /\ COMP!Top.i <= Len(adj[COMP!Top.node])
        /\ UNCHANGED <<adj, vertex, count>>
    BY DEF COMP!Recurse, COMP!Top, CompInv, CompTypeOK
  <2>2. COMP!Top \in Frame /\ Len(stack) \in 1..Len(stack)
    BY <2>1 DEF CompInv, CompTypeOK
  <2>3. COMP!Top.node \in visited /\ components[COMP!Top.node] = count /\ COMP!Top.node \in Nodes /\ COMP!Top.i \in Nat \ {0}
    BY <2>1, <2>2 DEF CompInv, CompStack, Frame
  <2>4. adj[COMP!Top.node] \in Seq(Nodes)
    BY <2>3 DEF CompInv, CompTypeOK
  <2>5. COMP!Top.i \in 1..Len(adj[COMP!Top.node])
    BY <2>1, <2>3, <2>4
  <2> QED
    BY <2>1, <2>2, <2>3, <2>4, <2>5 DEF CompCallee
<1>2. /\ CompFrames \in Seq(Frame) /\ Len(CompFrames) = Len(stack)
      /\ \A k \in 1..Len(stack) : /\ CompFrames[k].node = stack[k].node
                                  /\ k # Len(stack) => CompFrames[k].i = stack[k].i
      /\ CompFrames[Len(stack)].i = COMP!Top.i + 1
  <2>1. /\ stack \in Seq(Frame) /\ Len(stack) \in 1..Len(stack)
        /\ [node |-> COMP!Top.node, i |-> COMP!Top.i + 1] \in Frame
    <3>1. stack \in Seq(Frame) /\ Len(stack) \in 1..Len(stack)
      BY <1>1 DEF CompInv, CompTypeOK
    <3>2. COMP!Top.node \in Nodes /\ COMP!Top.i \in Nat
      BY <1>1 DEF Frame
    <3> QED
      BY <3>1, <3>2 DEF Frame
  <2>2. CompFrames \in Seq(Frame) /\ Len(CompFrames) = Len(stack)
    BY <2>1 DEF CompFrames
  <2>3. CompFrames[Len(stack)] = [node |-> COMP!Top.node, i |-> COMP!Top.i + 1]
    BY <2>1 DEF CompFrames
  <2>4. \A k \in 1..Len(stack) : k # Len(stack) => CompFrames[k] = stack[k]
    BY <2>1 DEF CompFrames
  <2> QED
    BY <1>1, <2>2, <2>3, <2>4
<1>3. \/ CompCallee \in visited /\ stack' = CompFrames /\ UNCHANGED <<visited, components>>
      \/ /\ CompCallee \notin visited /\ visited' = visited \cup {CompCallee}
         /\ components' = [components EXCEPT ![CompCallee] = count]
         /\ stack' = Append(CompFrames, [node |-> CompCallee, i |-> 1])
  BY DEF COMP!Recurse, COMP!Enter, CompCallee, CompFrames
<1> QED
  BY <1>1, <1>2, <1>3

\* The neighbour has a number: no later than that of the search running.
LEMMA CompSeen ==
  ASSUME CompInv, COMP!Recurse, CompCallee \in visited
  PROVE  CompInv'
<1> DEFINE last == Len(stack)
<1>1. /\ last \in Nat \ {0} /\ COMP!Top = stack[last] /\ COMP!Top.i \in 1..Len(adj[COMP!Top.node])
      /\ components[COMP!Top.node] = count
      /\ UNCHANGED <<adj, vertex, count, visited, components>> /\ stack' = CompFrames
  BY CompTurn
<1>2. /\ CompFrames \in Seq(Frame) /\ Len(CompFrames) = Len(stack)
      /\ \A k \in 1..Len(stack) : /\ CompFrames[k].node = stack[k].node
                                  /\ k # Len(stack) => CompFrames[k].i = stack[k].i
      /\ CompFrames[Len(stack)].i = COMP!Top.i + 1
  BY CompTurn
<1>3. CompTypeOK' /\ CompNumbered' /\ CompRooted'
  <2>1. CompTypeOK'
    BY <1>1, <1>2 DEF CompInv, CompTypeOK
  <2>2. CompNumbered' /\ CompRooted'
    BY <1>1 DEF CompInv, CompNumbered, CompRooted, IsRoot
  <2> QED
    BY <2>1, <2>2
<1>4. CompStack'
  <2>1. /\ \A k \in 1..Len(stack) : stack[k].node \in visited /\ components[stack[k].node] = count
        /\ \A j, k \in 1..Len(stack) : j # k => stack[j].node # stack[k].node
    BY DEF CompInv, CompStack
  <2>2. Len(stack') = Len(stack) /\ \A k \in 1..Len(stack) : stack'[k].node = stack[k].node
    BY <1>1, <1>2
  <2>3. visited' = visited /\ components' = components /\ count' = count
    BY <1>1
  <2> QED
    BY <2>1, <2>2, <2>3 DEF CompStack
<1>5. CompPending'
  <2>0. visited' = visited /\ components' = components /\ adj' = adj /\ stack' = CompFrames /\ Len(stack') = last
    BY <1>1, <1>2
  <2> SUFFICES ASSUME NEW m \in visited, NEW j \in 1..Len(adj[m]),
                      ~ (adj[m][j] \in visited /\ components[adj[m][j]] <= components[m])
               PROVE  \E k \in 1..last : CompFrames[k].node = m /\ CompFrames[k].i <= j
    <3> HIDE DEF last
    <3> QED
      BY <2>0 DEF CompPending
  <2>1. PICK k \in 1..last : stack[k].node = m /\ stack[k].i <= j
    BY DEF CompInv, CompPending
  <2>2. components[CompCallee] <= count
    BY DEF CompInv, CompNumbered, CompTypeOK
  <2>3. k = last => COMP!Top.i # j
    BY <1>1, <2>1, <2>2 DEF CompCallee
  <2>4. j \in Nat /\ COMP!Top.i \in Nat
    <3>1. m \in Nodes /\ adj \in [Nodes -> Seq(Nodes)]
      BY DEF CompInv, CompTypeOK
    <3>2. adj[m] \in Seq(Nodes)
      BY <3>1
    <3>3. j \in Nat
      BY <3>2
    <3> QED
      BY <1>1, <3>3
  <2>5. CompFrames[k].node = m /\ CompFrames[k].i <= j
    BY <1>1, <1>2, <2>1, <2>3, <2>4
  <2> QED
    BY <2>5
<1> QED
  BY <1>3, <1>4, <1>5 DEF CompInv

\* It has none, and takes that of the search running.
LEMMA CompEnter ==
  ASSUME CompInv, COMP!Recurse, CompCallee \notin visited
  PROVE  CompInv'
<1> DEFINE last == Len(stack)
<1>1. /\ last \in Nat \ {0} /\ COMP!Top = stack[last] /\ COMP!Top.i \in 1..Len(adj[COMP!Top.node])
      /\ CompCallee \in Nodes /\ COMP!Top.node \in visited /\ components[COMP!Top.node] = count
      /\ UNCHANGED <<adj, vertex, count>> /\ visited' = visited \cup {CompCallee}
      /\ components' = [components EXCEPT ![CompCallee] = count]
      /\ stack' = Append(CompFrames, [node |-> CompCallee, i |-> 1])
  BY CompTurn
<1>0. last \in Nat \ {0} /\ last \in 1..(last + 1)
  BY <1>1
<1>2. /\ CompFrames \in Seq(Frame) /\ Len(CompFrames) = Len(stack)
      /\ \A k \in 1..Len(stack) : /\ CompFrames[k].node = stack[k].node
                                  /\ k # Len(stack) => CompFrames[k].i = stack[k].i
      /\ CompFrames[Len(stack)].i = COMP!Top.i + 1
  BY CompTurn
<1>3. PICK new \in Nodes : new = CompCallee
  BY <1>1
<1>4. /\ components'[new] = count /\ count \in 1..count /\ new \notin visited
      /\ \A m \in Nodes : m # new => components'[m] = components[m]
      /\ \A m \in visited : components'[m] = components[m] /\ components[m] \in 1..count
  BY <1>1, <1>3 DEF CompInv, CompTypeOK, CompNumbered
<1>5. /\ stack' \in Seq(Frame) /\ Len(stack') = last + 1
      /\ \A k \in 1..last : stack'[k] = CompFrames[k]
      /\ stack'[last + 1].node = new /\ stack'[last + 1].i = 1
  <2>1. [node |-> new, i |-> 1] \in Frame
    BY DEF Frame
  <2> HIDE DEF Frame
  <2> QED
    BY <1>1, <1>2, <1>3, <2>1
<1>6. CompTypeOK'
  <2>1. components' \in [Nodes -> Nat]
    BY <1>1, <1>4 DEF CompInv, CompTypeOK
  <2> QED
    BY <1>1, <1>5, <2>1 DEF CompInv, CompTypeOK
<1>7. CompNumbered'
  <2>1. ASSUME NEW m \in Nodes PROVE IF m \in visited' THEN components'[m] \in 1..count' ELSE components'[m] = 0
    BY <1>1, <1>3, <1>4 DEF CompInv, CompNumbered
  <2>2. ASSUME NEW c \in 1..count' PROVE \E m \in visited' : components'[m] = c
    BY <1>1, <1>4, <2>2 DEF CompInv, CompNumbered
  <2>3. ASSUME NEW m \in Nodes, m < vertex' PROVE m \in visited'
    BY <1>1, <2>3 DEF CompInv, CompNumbered
  <2> QED
    BY <2>1, <2>2, <2>3 DEF CompNumbered
<1>8. CompStack'
  <2>1. ASSUME NEW k \in 1..(last + 1) PROVE stack'[k].node \in visited' /\ components'[stack'[k].node] = count
    <3>1. CASE k = last + 1
      BY <1>1, <1>3, <1>4, <1>5, <3>1
    <3>2. CASE k \in 1..last
      <4>1. stack[k].node \in visited /\ components[stack[k].node] = count
        BY <3>2 DEF CompInv, CompStack
      <4> QED
        BY <1>1, <1>2, <1>4, <1>5, <3>2, <4>1
    <3> QED
      BY <1>0, <3>1, <3>2
  <2>2. ASSUME NEW j \in 1..(last + 1), NEW k \in 1..(last + 1), j < k
        PROVE  stack'[j].node # stack'[k].node
    <3>1. j \in 1..last /\ stack'[j].node = stack[j].node /\ stack[j].node \in visited
      BY <1>1, <1>2, <1>5, <2>2 DEF CompInv, CompStack
    <3>2. CASE k = last + 1
      BY <1>4, <1>5, <3>1, <3>2
    <3>3. CASE k \in 1..last
      <4>1. stack'[k].node = stack[k].node /\ j # k
        BY <1>2, <1>5, <2>2, <3>3
      <4> QED
        BY <3>1, <3>3, <4>1 DEF CompInv, CompStack
    <3> QED
      BY <1>0, <3>2, <3>3
  <2>3. \A j, k \in 1..(last + 1) : j # k => stack'[j].node # stack'[k].node
    BY <1>0, <2>2
  <2> QED
    BY <1>1, <1>5, <2>1, <2>3 DEF CompStack
<1>9. CompPending'
  <2> SUFFICES ASSUME NEW m \in visited', NEW j \in 1..Len(adj[m]),
                      ~ (adj[m][j] \in visited' /\ components'[adj[m][j]] <= components'[m])
               PROVE  \E k \in 1..(last + 1) : stack'[k].node = m /\ stack'[k].i <= j
    BY <1>1, <1>5 DEF CompPending
  <2>1. CASE m = new
    BY <1>1, <1>5, <2>1
  <2>2. CASE m \in visited
    <3>0. adj[m] \in Seq(Nodes) /\ j \in Nat /\ COMP!Top.i \in Nat
      <4>1. m \in Nodes /\ adj \in [Nodes -> Seq(Nodes)]
        BY <2>2 DEF CompInv, CompTypeOK
      <4> QED
        BY <1>1, <4>1
    <3>1. ~ (adj[m][j] \in visited /\ components[adj[m][j]] <= components[m])
      BY <1>1, <1>4, <2>2
    <3>2. PICK k \in 1..last : stack[k].node = m /\ stack[k].i <= j
      BY <2>2, <3>1 DEF CompInv, CompPending
    <3>3. k = last => COMP!Top.i # j
      <4> SUFFICES ASSUME k = last, COMP!Top.i = j PROVE FALSE
        OBVIOUS
      <4>1. adj[m][j] = new /\ components'[m] = count
        BY <1>1, <1>3, <1>4, <2>2, <3>2 DEF CompCallee
      <4> QED
        BY <1>1, <1>3, <1>4, <4>1
    <3>4. stack'[k].node = m /\ stack'[k].i <= j
      BY <1>1, <1>2, <1>5, <3>0, <3>2, <3>3
    <3>5. k \in 1..(last + 1)
      BY <1>0
    <3> QED
      BY <3>4, <3>5
  <2> QED
    BY <1>1, <1>3, <2>1, <2>2
<1>10. CompRooted'
  <2> SUFFICES ASSUME NEW m \in visited' PROVE \E r \in visited' : IsRoot(r, m)'
    BY DEF CompRooted
  <2>1. CASE m = new
    <3>1. PICK r \in visited : IsRoot(r, COMP!Top.node)
      BY <1>1 DEF CompInv, CompRooted
    <3>2. new \in Within(adj, r, Cardinality(Nodes))
      <4>1. adj[COMP!Top.node] \in Seq(Nodes)
        BY <1>1 DEF CompInv, CompTypeOK
      <4>2. new \in Range(adj[COMP!Top.node])
        BY <1>1, <1>3, <4>1 DEF CompCallee, Range
      <4>3. r \in Nodes /\ COMP!Top.node \in Within(adj, r, Cardinality(Nodes))
        BY <3>1 DEF IsRoot, CompInv, CompTypeOK
      <4> QED
        BY <4>2, <4>3, WithinAll DEF CompInv, CompTypeOK
    <3>3. \A j \in Nodes : j < r => j \in visited' /\ components'[j] < components'[new]
      BY <1>1, <1>4, <3>1 DEF IsRoot
    <3>4. components'[r] = components'[new]
      BY <1>1, <1>4, <3>1 DEF IsRoot
    <3>5. IsRoot(r, new)'
      BY <1>1, <3>2, <3>3, <3>4 DEF IsRoot
    <3> QED
      BY <1>1, <2>1, <3>5
  <2>2. CASE m \in visited
    <3>1. PICK r \in visited : IsRoot(r, m)
      BY <2>2 DEF CompInv, CompRooted
    <3>2. IsRoot(r, m)'
      BY <1>1, <1>4, <2>2, <3>1, CompRootStays DEF CompInv
    <3> QED
      BY <1>1, <3>1, <3>2
  <2> QED
    BY <1>1, <1>3, <2>1, <2>2
<1> QED
  BY <1>6, <1>7, <1>8, <1>9, <1>10 DEF CompInv

\* A call that has come to the end of its loop has no neighbour pending.
LEMMA CompLeave ==
  ASSUME CompInv, COMP!Leave
  PROVE  CompInv'
<1> DEFINE last == Len(stack)
<1>1. /\ stack \in Seq(Frame) /\ stack # <<>> /\ stack' = Front(stack)
      /\ COMP!Top = stack[last] /\ COMP!Top.i > Len(adj[COMP!Top.node])
      /\ UNCHANGED <<adj, vertex, count, visited, components>>
  BY DEF COMP!Leave, COMP!Top, Front, CompInv, CompTypeOK
<1>2. /\ IsSeq(stack') /\ Len(stack') = last - 1 /\ last \in Nat \ {0}
      /\ \A k \in 1..(last - 1) : stack'[k] = stack[k]
  <2>1. IsSeq(stack)
    BY <1>1 DEF IsSeq
  <2> QED
    BY <1>1, <2>1, IsSeqFront
<1>3. \A k \in 1..(last - 1) : k \in 1..last
  BY <1>2
<1>4. CompTypeOK'
  <2>1. stack' \in Seq(Frame)
    <3>1. \A k \in 1..(last - 1) : stack[k] \in Frame
      BY <1>1, <1>3
    <3>2. 1 \in Int /\ last - 1 \in Int
      BY <1>2
    <3> QED
      BY <1>1, <3>1, <3>2, SubSeqProperties DEF Front
  <2> QED
    BY <1>1, <2>1 DEF CompInv, CompTypeOK
<1>5. CompNumbered' /\ CompRooted'
  BY <1>1 DEF CompInv, CompNumbered, CompRooted, IsRoot
<1>6. CompStack'
  BY <1>1, <1>2, <1>3 DEF CompInv, CompStack
<1>7. CompPending'
  <2>0. visited' = visited /\ components' = components /\ adj' = adj /\ Len(stack') = last - 1
    BY <1>1, <1>2
  <2> SUFFICES ASSUME NEW m \in visited, NEW j \in 1..Len(adj[m]),
                      ~ (adj[m][j] \in visited /\ components[adj[m][j]] <= components[m])
               PROVE  \E k \in 1..(last - 1) : stack'[k].node = m /\ stack'[k].i <= j
    <3> HIDE DEF last
    <3> QED
      BY <2>0 DEF CompPending
  <2>1. PICK k \in 1..last : stack[k].node = m /\ stack[k].i <= j
    BY DEF CompInv, CompPending
  <2>2. adj[m] \in Seq(Nodes) /\ COMP!Top.i \in Nat
    <3>1. COMP!Top \in Frame
      BY <1>1, <1>2
    <3> QED
      BY <3>1 DEF CompInv, CompTypeOK, Frame
  <2>3. k # last
    BY <1>1, <2>1, <2>2
  <2>4. k \in 1..(last - 1)
    BY <1>2, <2>3
  <2> QED
    BY <1>2, <2>1, <2>4
<1> QED
  BY <1>4, <1>5, <1>6, <1>7 DEF CompInv

\* Every step keeps the invariant.
LEMMA CompNextInv == CompInv /\ [COMP!Next]_COMP!vars => CompInv'
<1> SUFFICES ASSUME CompInv, [COMP!Next]_COMP!vars PROVE CompInv'
  OBVIOUS
<1>1. CASE UNCHANGED COMP!vars
  BY <1>1 DEF COMP!vars, CompInv, CompTypeOK, CompNumbered, CompStack, CompPending, CompRooted, IsRoot
<1>2. CASE COMP!Recurse
  BY <1>2, CompSeen, CompEnter
<1> QED
  BY <1>1, <1>2, CompNextVertexInv, CompLeave DEF COMP!Next

\* It gives the types; the calls are of different vertices, hence no more than these.
LEMMA CompTyped ==
  ASSUME CompInv PROVE COMP!TypeOK
<1>0. /\ CompTypeOK /\ COMP!Vertices = Nodes /\ Cardinality(Nodes) \in Nat /\ IsFiniteSet(Nodes)
  BY CompVertices, PoolAssumption DEF CompInv
<1>1. components \in [Nodes -> 0..count]
  <2>1. \A m \in Nodes : components[m] \in 0..count
    BY <1>0 DEF CompInv, CompNumbered, CompTypeOK
  <2> QED
    BY <1>0, <2>1 DEF CompTypeOK
<1>2. Len(stack) \in Nat /\ Len(stack) <= Cardinality(Nodes)
  <2> DEFINE node == [k \in 1..Len(stack) |-> stack[k].node]
  <2>1. node \in Injection(1..Len(stack), Nodes)
    <3>1. \A k \in 1..Len(stack) : stack[k].node \in Nodes
      BY <1>0 DEF CompInv, CompStack, CompTypeOK
    <3>2. \A j, k \in 1..Len(stack) : node[j] = node[k] => j = k
      BY DEF CompInv, CompStack
    <3> QED
      BY <3>1, <3>2 DEF Injection, IsInjective
  <2>2. Len(stack) \in Nat
    BY <1>0 DEF CompTypeOK
  <2>3. Cardinality(1..Len(stack)) = Len(stack)
    BY <2>2, FirstNumbers
  <2> QED
    BY <1>0, <2>1, <2>2, <2>3, FS_Injection
<1>3. stack \in Seq([node : Nodes, i : Nat \ {0}])
  BY <1>0 DEF CompTypeOK, Frame
<1>4. vertex \in 1..(Cardinality(Nodes) + 1) /\ count \in 0..Cardinality(Nodes)
  BY <1>0 DEF CompTypeOK
<1> QED
  BY <1>0, <1>1, <1>2, <1>3, <1>4 DEF CompTypeOK, COMP!TypeOK

\* When nothing is running, a root reaches a vertex and no older vertex does.
LEMMA CompRootIsOldest ==
  ASSUME CompInv, COMP!Done, NEW m \in Nodes, NEW r \in Nodes, IsRoot(r, m)
  PROVE  COMP!Oldest(m) = r
<1>0. /\ CompTypeOK /\ COMP!Vertices = Nodes /\ Cardinality(Nodes) \in Nat /\ Nodes \subseteq Nat
      /\ visited = Nodes /\ stack = <<>>
  <2>1. \A n \in Nodes : n < vertex
    BY CompVertices DEF COMP!Done, CompInv, CompTypeOK
  <2> QED
    BY <2>1, CompVertices DEF COMP!Done, CompInv, CompTypeOK, CompNumbered
<1>1. m \in COMP!Within(adj, r, Cardinality(Nodes))
  BY DEF IsRoot, COMP!Within, Within, COMP!Range, Range
<1>2. ASSUME NEW j \in Nodes, m \in COMP!Within(adj, j, Cardinality(Nodes)), ~ (r <= j)
      PROVE  FALSE
  <2> DEFINE S == { n \in Nodes : components[n] <= components[j] }
  <2>1. components[j] < components[m]
    BY <1>0, <1>2 DEF IsRoot
  <2>2. \A n \in S : Range(adj[n]) \subseteq S
    <3> SUFFICES ASSUME NEW n \in S, NEW x \in Range(adj[n]) PROVE x \in S
      OBVIOUS
    <3>1. adj[n] \in Seq(Nodes)
      BY <1>0 DEF CompTypeOK
    <3>2. PICK k \in 1..Len(adj[n]) : x = adj[n][k]
      BY <3>1 DEF Range
    <3>3. x \in Nodes /\ components[x] <= components[n]
      BY <1>0, <3>1, <3>2 DEF CompInv, CompPending
    <3>4. components[x] \in Nat /\ components[n] \in Nat /\ components[j] \in Nat
      BY <1>0, <3>3 DEF CompTypeOK
    <3> QED
      BY <3>3, <3>4
  <2>3. j \in S
    BY <1>0 DEF CompTypeOK
  <2>4. Within(adj, j, Cardinality(Nodes)) \subseteq S
    <3> HIDE DEF S
    <3> QED
      BY <1>0, <2>2, <2>3, WithinClosed
  <2>5. m \in S
    BY <1>2, <2>4 DEF COMP!Within, Within, COMP!Range, Range
  <2>6. components[m] \in Nat /\ components[j] \in Nat
    BY <1>0 DEF CompTypeOK
  <2> QED
    BY <2>1, <2>5, <2>6
<1>3. r \in COMP!Vertices /\ m \in COMP!Reach(r) /\ \A j \in COMP!Vertices : m \in COMP!Reach(j) => r <= j
  BY <1>0, <1>1, <1>2 DEF COMP!Reach
<1>4. \A k \in COMP!Vertices : m \in COMP!Reach(k) /\ (\A j \in COMP!Vertices : m \in COMP!Reach(j) => k <= j) => k = r
  <2> SUFFICES ASSUME NEW k \in COMP!Vertices, m \in COMP!Reach(k), \A j \in COMP!Vertices : m \in COMP!Reach(j) => k <= j
               PROVE  k = r
    OBVIOUS
  <2>1. k <= r /\ r <= k
    BY <1>3
  <2> QED
    BY <1>0, <2>1
<1> QED
  BY <1>3, <1>4 DEF COMP!Oldest

\* At the end nothing is pending, so what a root reaches has its number or an earlier one.
LEMMA CompNumbersRight ==
  ASSUME CompInv PROVE COMP!NumbersByOldestAncestor
<1> SUFFICES ASSUME COMP!Done
             PROVE  /\ COMP!Range(components) = 1..count
                    /\ \A m, k \in Nodes : components[m] = components[k] <=> COMP!Oldest(m) = COMP!Oldest(k)
  BY CompVertices DEF COMP!NumbersByOldestAncestor
<1>0. /\ CompTypeOK /\ Cardinality(Nodes) \in Nat /\ Nodes \subseteq Nat /\ visited = Nodes
  <2>1. \A n \in Nodes : n < vertex
    BY CompVertices DEF COMP!Done, CompInv, CompTypeOK
  <2> QED
    BY <2>1, CompVertices DEF CompInv, CompTypeOK, CompNumbered
<1>1. COMP!Range(components) = 1..count
  BY <1>0 DEF COMP!Range, CompInv, CompNumbered, CompTypeOK
<1>2. ASSUME NEW m \in Nodes, NEW k \in Nodes
      PROVE  components[m] = components[k] <=> COMP!Oldest(m) = COMP!Oldest(k)
  <2>1. PICK r \in Nodes : IsRoot(r, m)
    BY <1>0 DEF CompInv, CompRooted
  <2>2. PICK s \in Nodes : IsRoot(s, k)
    BY <1>0 DEF CompInv, CompRooted
  <2>3. COMP!Oldest(m) = r /\ COMP!Oldest(k) = s
    BY <2>1, <2>2, CompRootIsOldest
  <2>4. components[r] = components[m] /\ components[s] = components[k]
    BY <2>1, <2>2 DEF IsRoot
  <2>5. ASSUME components[m] = components[k] PROVE r = s
    <3>1. ~ (r < s) /\ ~ (s < r)
      <4>1. components[r] \in Nat /\ components[s] \in Nat
        BY <1>0 DEF CompTypeOK
      <4>2. r < s => components[r] < components[k]
        BY <2>2 DEF IsRoot
      <4>3. s < r => components[s] < components[m]
        BY <2>1 DEF IsRoot
      <4> QED
        BY <2>4, <2>5, <4>1, <4>2, <4>3
    <3> QED
      BY <1>0, <3>1
  <2> QED
    BY <2>3, <2>4, <2>5
<1> QED
  BY <1>1, <1>2

\* The numbers of connected-components.c mean, on any directed graph, the oldest vertex
\* from which each can be reached (27-67).
THEOREM ComponentsByOldestAncestor == COMP!Spec => []COMP!NumbersByOldestAncestor
BY CompNumbersRight, CompInitInv, CompNextInv, PTL DEF COMP!Spec

-----------------------------------------------------------------------------
(* graph.c *)

\* The calls for a vertex, and for an edge out of v, among the first k of c.
ForVertex(c, k) == { j \in 1..k : c[j] = <<>> }
ForEdge(c, v, k) == { j \in 1..k : c[j] # <<>> /\ c[j][1] = v }

\* The pool, and the calls so far.
PoolTypeOK ==
  /\ len \in Nat /\ len <= Pool
  /\ DOMAIN neighbors = 1..Pool
  /\ \A v \in 1..Pool : /\ neighbors[v] \in Seq(1..len)
                        /\ Len(neighbors[v]) <= MaxNeighbors
                        /\ v \notin 1..len => neighbors[v] = <<>>
  /\ neighbors = [v \in 1..Pool |-> neighbors[v]]
  /\ pc \in {"build", "exited"}
  /\ IsSeq(calls) /\ Len(calls) \in Nat
  /\ \A j \in 1..Len(calls) : calls[j] # <<>> => calls[j][1] \in 1..len

\* The graph of the first k calls.
PoolHolds(k) ==
  /\ len = Cardinality(ForVertex(calls, k))
  /\ \A v \in 1..Pool :
       /\ Len(neighbors[v]) = Cardinality(ForEdge(calls, v, k))
       /\ \A j \in ForEdge(calls, v, k) : neighbors[v][Cardinality(ForEdge(calls, v, j))] = calls[j][2]

\* The call that ended the program found no room for what it asked.
PoolRefused ==
  LET last == calls[Len(calls)]
  IN /\ Len(calls) > 0
     /\ IF last = <<>> THEN len = Pool ELSE Len(neighbors[last[1]]) = MaxNeighbors

\* The invariant: the pool holds the graph of the calls, but for the one that ended it.
PoolInv ==
  /\ PoolTypeOK
  /\ pc = "build" => PoolHolds(Len(calls))
  /\ pc = "exited" => PoolHolds(Len(calls) - 1) /\ PoolRefused

\* A sequence over a set is one over any larger set.
LEMMA SeqWidens ==
  ASSUME NEW S, NEW T, S \subseteq T, NEW s \in Seq(S)
  PROVE  s \in Seq(T)
BY SeqDef

\* The limits of graph.c are numbers.
LEMMA PoolConstants == Pool \in Nat /\ MaxNeighbors \in Nat
BY TraversalsAssumption

\* It holds at the start.
LEMMA PoolInitInv == POOL!Init => PoolInv
<1> SUFFICES ASSUME POOL!Init PROVE PoolInv
  OBVIOUS
<1>1. /\ neighbors = [v \in 1..Pool |-> <<>>] /\ len = 0 /\ calls = <<>> /\ pc = "build"
  BY DEF POOL!Init
<1>2. IsSeq(calls) /\ Len(calls) = 0
  <2>1. <<>> \in Seq(Nat)
    OBVIOUS
  <2> QED
    BY <1>1, <2>1 DEF IsSeq
<1>3. PoolTypeOK
  BY <1>1, <1>2, PoolConstants DEF PoolTypeOK
<1>4. PoolHolds(0)
  <2>1. ForVertex(calls, 0) = {} /\ \A v : ForEdge(calls, v, 0) = {}
    BY DEF ForVertex, ForEdge
  <2>2. Cardinality({}) = 0
    BY FS_EmptySet
  <2> QED
    BY <1>1, <2>1, <2>2 DEF PoolHolds
<1> QED
  BY <1>1, <1>2, <1>3, <1>4 DEF PoolInv

\* The calls can be counted.
LEMMA AskedFinite ==
  ASSUME NEW c, NEW k \in Nat, NEW v
  PROVE  /\ IsFiniteSet(ForVertex(c, k)) /\ Cardinality(ForVertex(c, k)) \in Nat
         /\ IsFiniteSet(ForEdge(c, v, k)) /\ Cardinality(ForEdge(c, v, k)) \in Nat
<1>1. IsFiniteSet(1..k)
  BY FS_Interval
<1>2. ForVertex(c, k) \subseteq 1..k /\ ForEdge(c, v, k) \subseteq 1..k
  BY DEF ForVertex, ForEdge
<1> QED
  BY <1>1, <1>2, FS_Subset, FS_CardinalityType

\* One call more.
LEMMA AskedNext ==
  ASSUME NEW c, NEW k \in Nat
  PROVE  /\ c[k + 1] = <<>> => /\ Cardinality(ForVertex(c, k + 1)) = Cardinality(ForVertex(c, k)) + 1
                               /\ \A v : ForEdge(c, v, k + 1) = ForEdge(c, v, k)
         /\ c[k + 1] # <<>> =>
              /\ ForVertex(c, k + 1) = ForVertex(c, k)
              /\ \A v : v # c[k + 1][1] => ForEdge(c, v, k + 1) = ForEdge(c, v, k)
              /\ ForEdge(c, c[k + 1][1], k + 1) = ForEdge(c, c[k + 1][1], k) \cup {k + 1}
              /\ Cardinality(ForEdge(c, c[k + 1][1], k + 1)) = Cardinality(ForEdge(c, c[k + 1][1], k)) + 1
<1>1. 1..(k + 1) = (1..k) \cup {k + 1} /\ k + 1 \notin 1..k
  OBVIOUS
<1>2. ASSUME c[k + 1] = <<>>
      PROVE  /\ Cardinality(ForVertex(c, k + 1)) = Cardinality(ForVertex(c, k)) + 1
             /\ \A v : ForEdge(c, v, k + 1) = ForEdge(c, v, k)
  <2>1. ForVertex(c, k + 1) = ForVertex(c, k) \cup {k + 1} /\ k + 1 \notin ForVertex(c, k)
    BY <1>1, <1>2 DEF ForVertex
  <2>2. \A v : ForEdge(c, v, k + 1) = ForEdge(c, v, k)
    BY <1>1, <1>2 DEF ForEdge
  <2>3. IsFiniteSet(ForVertex(c, k))
    BY AskedFinite
  <2> QED
    BY <2>1, <2>2, <2>3, FS_AddElement
<1>3. ASSUME c[k + 1] # <<>>
      PROVE  /\ ForVertex(c, k + 1) = ForVertex(c, k)
             /\ \A v : v # c[k + 1][1] => ForEdge(c, v, k + 1) = ForEdge(c, v, k)
             /\ ForEdge(c, c[k + 1][1], k + 1) = ForEdge(c, c[k + 1][1], k) \cup {k + 1}
             /\ Cardinality(ForEdge(c, c[k + 1][1], k + 1)) = Cardinality(ForEdge(c, c[k + 1][1], k)) + 1
  <2>1. ForVertex(c, k + 1) = ForVertex(c, k)
    BY <1>1, <1>3 DEF ForVertex
  <2>2. ASSUME NEW v, v # c[k + 1][1] PROVE ForEdge(c, v, k + 1) = ForEdge(c, v, k)
    BY <1>1, <2>2 DEF ForEdge
  <2>3. PICK w : w = c[k + 1][1]
    OBVIOUS
  <2>4. ForEdge(c, w, k + 1) = ForEdge(c, w, k) \cup {k + 1} /\ k + 1 \notin ForEdge(c, w, k)
    BY <1>1, <1>3, <2>3 DEF ForEdge
  <2>5. IsFiniteSet(ForEdge(c, w, k))
    BY AskedFinite
  <2>6. Cardinality(ForEdge(c, w, k + 1)) = Cardinality(ForEdge(c, w, k)) + 1
    BY <2>4, <2>5, FS_AddElement
  <2> QED
    BY <2>1, <2>2, <2>3, <2>4, <2>6
<1> QED
  BY <1>2, <1>3

\* A call leaves what the calls before it asked.
LEMMA AskedStays ==
  ASSUME NEW c, NEW d, NEW k \in Nat, \A j \in 1..k : c[j] = d[j]
  PROVE  \A j \in 0..k : ForVertex(c, j) = ForVertex(d, j) /\ \A v : ForEdge(c, v, j) = ForEdge(d, v, j)
<1> SUFFICES ASSUME NEW j \in 0..k
             PROVE  ForVertex(c, j) = ForVertex(d, j) /\ \A v : ForEdge(c, v, j) = ForEdge(d, v, j)
  OBVIOUS
<1>1. \A x \in 1..j : x \in 1..k
  OBVIOUS
<1> QED
  BY <1>1 DEF ForVertex, ForEdge

\* What is held does not change when a call is only recorded.
LEMMA PoolRecorded ==
  ASSUME PoolInv, NEW x, POOL!Call(x)
  PROVE  /\ pc = "build" /\ Len(calls) \in Nat /\ IsSeq(calls') /\ Len(calls') = Len(calls) + 1
         /\ \A j \in 1..Len(calls) : calls'[j] = calls[j]
         /\ calls'[Len(calls) + 1] = x
         /\ PoolHolds(Len(calls))
         /\ \A j \in 0..Len(calls) : /\ ForVertex(calls', j) = ForVertex(calls, j)
                                     /\ \A v : ForEdge(calls', v, j) = ForEdge(calls, v, j)
<1>1. pc = "build" /\ calls' = Append(calls, x) /\ PoolHolds(Len(calls)) /\ Len(calls) \in Nat
  BY DEF POOL!Call, PoolInv, PoolTypeOK
<1>2. /\ IsSeq(calls') /\ Len(calls') = Len(calls) + 1
      /\ \A j \in 1..Len(calls) : calls'[j] = calls[j]
      /\ calls'[Len(calls) + 1] = x
  BY <1>1, IsSeqAppend DEF PoolInv, PoolTypeOK
<1>3. \A j \in 0..Len(calls) : /\ ForVertex(calls', j) = ForVertex(calls, j)
                               /\ \A v : ForEdge(calls', v, j) = ForEdge(calls, v, j)
  <2> DEFINE c == calls'
             n == Len(calls)
  <2>1. n \in Nat /\ \A j \in 1..n : c[j] = calls[j]
    BY <1>1, <1>2
  <2> HIDE DEF c, n
  <2>2. \A j \in 0..n : ForVertex(c, j) = ForVertex(calls, j) /\ \A v : ForEdge(c, v, j) = ForEdge(calls, v, j)
    BY <2>1, AskedStays
  <2> QED
    BY <2>2, Zenon DEF c, n
<1> QED
  BY <1>1, <1>2, <1>3

\* A call with no room for what it asks.
LEMMA PoolExits ==
  ASSUME PoolInv, NEW x, POOL!Call(x), pc' = "exited", UNCHANGED <<neighbors, len>>,
         x # <<>> => x[1] \in 1..len,
         IF x = <<>> THEN len = Pool ELSE Len(neighbors[x[1]]) = MaxNeighbors
  PROVE  PoolInv'
<1>1. /\ Len(calls) \in Nat /\ IsSeq(calls') /\ Len(calls') = Len(calls) + 1
      /\ \A j \in 1..Len(calls) : calls'[j] = calls[j]
      /\ calls'[Len(calls) + 1] = x
      /\ PoolHolds(Len(calls))
      /\ \A j \in 0..Len(calls) : /\ ForVertex(calls', j) = ForVertex(calls, j)
                                  /\ \A v : ForEdge(calls', v, j) = ForEdge(calls, v, j)
  BY PoolRecorded
<1>2. PICK n \in Nat : n = Len(calls)
  BY <1>1
<1>3. PoolTypeOK'
  <2>1. ASSUME NEW j \in 1..(n + 1), calls'[j] # <<>> PROVE calls'[j][1] \in 1..len
    <3>1. CASE j = n + 1
      BY <1>1, <1>2, <2>1, <3>1
    <3>2. CASE j \in 1..n
      BY <1>1, <1>2, <2>1, <3>2 DEF PoolInv, PoolTypeOK
    <3> QED
      BY <1>2, <3>1, <3>2
  <2>2. Len(calls') = n + 1
    BY <1>1, <1>2
  <2> QED
    BY <1>1, <2>1, <2>2 DEF PoolInv, PoolTypeOK
<1>4. PoolHolds(n)'
  <2>1. n \in 0..Len(calls) /\ \A v : \A j \in ForEdge(calls, v, n) : j \in 1..n
    BY <1>2 DEF ForEdge
  <2>2. \A j \in 1..n : calls'[j] = calls[j] /\ \A v : ForEdge(calls', v, j) = ForEdge(calls, v, j)
    BY <1>1, <1>2
  <2> QED
    BY <1>1, <1>2, <2>1, <2>2 DEF PoolHolds
<1>5. Len(calls') - 1 = n /\ Len(calls') > 0
  BY <1>1, <1>2
<1>6. PoolRefused'
  BY <1>1, <1>5 DEF PoolRefused
<1> QED
  BY <1>3, <1>4, <1>5, <1>6 DEF PoolInv

\* graph_create_node keeps it,
LEMMA PoolVertexInv == PoolInv /\ POOL!graph_new_vertex => PoolInv'
<1> SUFFICES ASSUME PoolInv, POOL!graph_new_vertex PROVE PoolInv'
  OBVIOUS
<1>0. POOL!Call(<<>>) /\ len \in Nat /\ len <= Pool /\ Pool \in Nat
  BY PoolConstants DEF POOL!graph_new_vertex, PoolInv, PoolTypeOK
<1>1. CASE len >= Pool
  BY <1>0, <1>1, PoolExits DEF POOL!graph_new_vertex
<1>2. CASE ~ (len >= Pool)
  <2>1. /\ Len(calls) \in Nat /\ IsSeq(calls') /\ Len(calls') = Len(calls) + 1
        /\ \A j \in 1..Len(calls) : calls'[j] = calls[j]
        /\ calls'[Len(calls) + 1] = <<>>
        /\ PoolHolds(Len(calls)) /\ pc = "build"
        /\ \A j \in 0..Len(calls) : /\ ForVertex(calls', j) = ForVertex(calls, j)
                                    /\ \A v : ForEdge(calls', v, j) = ForEdge(calls, v, j)
    BY <1>0, PoolRecorded
  <2>2. PICK n \in Nat : n = Len(calls)
    BY <2>1
  <2>3. len' = len + 1 /\ pc' = "build" /\ neighbors' = neighbors
    <3>1. len' = len + 1 /\ pc' = pc /\ neighbors' = [neighbors EXCEPT ![len + 1] = <<>>]
      BY <1>2 DEF POOL!graph_new_vertex
    <3>2. len + 1 \in 1..Pool /\ len + 1 \notin 1..len
      BY <1>0, <1>2
    <3>3. neighbors[len + 1] = <<>> /\ neighbors = [v \in 1..Pool |-> neighbors[v]]
      BY <3>2 DEF PoolInv, PoolTypeOK
    <3> QED
      BY <2>1, <3>1, <3>2, <3>3
  <2>4. PoolTypeOK'
    <3>1. \A j \in 1..(n + 1) : calls'[j] # <<>> => calls'[j][1] \in 1..(len + 1)
      BY <1>0, <2>1, <2>2 DEF PoolInv, PoolTypeOK
    <3>2. ASSUME NEW v \in 1..Pool
          PROVE  /\ neighbors[v] \in Seq(1..(len + 1)) /\ Len(neighbors[v]) <= MaxNeighbors
                 /\ v \notin 1..(len + 1) => neighbors[v] = <<>>
      <4>1. neighbors[v] \in Seq(1..len) /\ 1..len \subseteq 1..(len + 1)
        BY <1>0 DEF PoolInv, PoolTypeOK
      <4>2. neighbors[v] \in Seq(1..(len + 1))
        BY <4>1, SeqWidens
      <4> QED
        BY <4>1, <4>2 DEF PoolInv, PoolTypeOK
    <3>3. len + 1 \in Nat /\ len + 1 <= Pool /\ Len(calls') = n + 1 /\ n + 1 \in Nat
      BY <1>0, <1>2, <2>1, <2>2
    <3> QED
      BY <2>1, <2>3, <3>1, <3>2, <3>3 DEF PoolInv, PoolTypeOK
  <2>5. PoolHolds(n + 1)'
    <3>1. /\ Cardinality(ForVertex(calls', n + 1)) = Cardinality(ForVertex(calls, n)) + 1
          /\ \A v : ForEdge(calls', v, n + 1) = ForEdge(calls, v, n)
      <4>1. /\ Cardinality(ForVertex(calls', n + 1)) = Cardinality(ForVertex(calls', n)) + 1
            /\ \A v : ForEdge(calls', v, n + 1) = ForEdge(calls', v, n)
        BY <2>1, <2>2, AskedNext
      <4> QED
        BY <2>1, <2>2, <4>1
    <3>2. \A v : \A j \in ForEdge(calls, v, n) : j \in 1..n
      BY <2>2 DEF ForEdge
    <3>3. \A j \in 1..n : calls'[j] = calls[j] /\ \A v : ForEdge(calls', v, j) = ForEdge(calls, v, j)
      BY <2>1, <2>2
    <3> QED
      BY <2>1, <2>2, <2>3, <3>1, <3>2, <3>3 DEF PoolHolds
  <2>6. Len(calls') = n + 1
    BY <2>1, <2>2
  <2> QED
    BY <2>3, <2>4, <2>5, <2>6 DEF PoolInv
<1> QED
  BY <1>1, <1>2

\* and so does graph_add_edge.
LEMMA PoolEdgeInv == ASSUME PoolInv, NEW from \in 1..len, NEW to \in 1..len, POOL!AddEdge(from, to) PROVE PoolInv'
<1>0. POOL!Call(<<from, to>>) /\ len \in Nat /\ len <= Pool /\ MaxNeighbors \in Nat /\ len' = len /\ from \in 1..Pool
  BY PoolConstants DEF POOL!AddEdge, PoolInv, PoolTypeOK
<1>1. PICK x : x = <<from, to>>
  OBVIOUS
<1>2. x # <<>> /\ x[1] = from /\ x[2] = to
  BY <1>1
<1>3. neighbors[from] \in Seq(1..len) /\ Len(neighbors[from]) \in Nat /\ Len(neighbors[from]) <= MaxNeighbors
  BY <1>0 DEF PoolInv, PoolTypeOK
<1>4. CASE Len(neighbors[from]) >= MaxNeighbors
  <2>1. pc' = "exited" /\ neighbors' = neighbors /\ Len(neighbors[from]) = MaxNeighbors
    BY <1>0, <1>3, <1>4 DEF POOL!AddEdge
  <2>2. POOL!Call(x) /\ UNCHANGED <<neighbors, len>> /\ (x # <<>> => x[1] \in 1..len)
        /\ IF x = <<>> THEN len = Pool ELSE Len(neighbors[x[1]]) = MaxNeighbors
    BY <1>0, <1>1, <1>2, <2>1
  <2> QED
    BY <2>1, <2>2, PoolExits
<1>5. CASE ~ (Len(neighbors[from]) >= MaxNeighbors)
  <2>1. /\ Len(calls) \in Nat /\ IsSeq(calls') /\ Len(calls') = Len(calls) + 1
        /\ \A j \in 1..Len(calls) : calls'[j] = calls[j]
        /\ calls'[Len(calls) + 1] = x
        /\ PoolHolds(Len(calls)) /\ pc = "build"
        /\ \A j \in 0..Len(calls) : /\ ForVertex(calls', j) = ForVertex(calls, j)
                                    /\ \A v : ForEdge(calls', v, j) = ForEdge(calls, v, j)
    BY <1>0, <1>1, PoolRecorded
  <2>2. PICK n \in Nat : n = Len(calls)
    BY <2>1
  <2>3. PICK m \in Nat : m = Len(neighbors[from])
    BY <1>3
  <2>4. /\ pc' = "build" /\ DOMAIN neighbors' = 1..Pool /\ neighbors' = [v \in 1..Pool |-> neighbors'[v]]
        /\ neighbors'[from] = Append(neighbors[from], to)
        /\ \A v \in 1..Pool : v # from => neighbors'[v] = neighbors[v]
    <3>1. pc' = pc /\ neighbors' = [neighbors EXCEPT ![from] = Append(neighbors[from], to)]
      BY <1>5 DEF POOL!AddEdge
    <3> QED
      BY <1>0, <2>1, <3>1 DEF PoolInv, PoolTypeOK
  <2>5. /\ neighbors'[from] \in Seq(1..len) /\ Len(neighbors'[from]) = m + 1 /\ m + 1 <= MaxNeighbors
        /\ neighbors'[from][m + 1] = to /\ \A k \in 1..m : neighbors'[from][k] = neighbors[from][k]
    BY <1>0, <1>3, <1>5, <2>3, <2>4
  <2>6. PoolTypeOK'
    <3>1. ASSUME NEW j \in 1..(n + 1), calls'[j] # <<>> PROVE calls'[j][1] \in 1..len
      <4>1. CASE j = n + 1
        BY <1>2, <2>1, <2>2, <4>1
      <4>2. CASE j \in 1..n
        BY <2>1, <2>2, <3>1, <4>2 DEF PoolInv, PoolTypeOK
      <4> QED
        BY <2>2, <4>1, <4>2
    <3>2. ASSUME NEW v \in 1..Pool
          PROVE  /\ neighbors'[v] \in Seq(1..len) /\ Len(neighbors'[v]) <= MaxNeighbors
                 /\ v \notin 1..len => neighbors'[v] = <<>>
      BY <2>4, <2>5 DEF PoolInv, PoolTypeOK
    <3>3. Len(calls') = n + 1 /\ n + 1 \in Nat
      BY <2>1, <2>2
    <3> QED
      BY <1>0, <2>1, <2>4, <3>1, <3>2, <3>3 DEF PoolTypeOK
  <2>7. PoolHolds(n + 1)'
    <3>1. /\ ForVertex(calls', n + 1) = ForVertex(calls, n)
          /\ \A v : v # from => ForEdge(calls', v, n + 1) = ForEdge(calls, v, n)
          /\ ForEdge(calls', from, n + 1) = ForEdge(calls, from, n) \cup {n + 1}
          /\ Cardinality(ForEdge(calls', from, n + 1)) = Cardinality(ForEdge(calls, from, n)) + 1
      <4>1. /\ ForVertex(calls', n + 1) = ForVertex(calls', n)
            /\ \A v : v # from => ForEdge(calls', v, n + 1) = ForEdge(calls', v, n)
            /\ ForEdge(calls', from, n + 1) = ForEdge(calls', from, n) \cup {n + 1}
            /\ Cardinality(ForEdge(calls', from, n + 1)) = Cardinality(ForEdge(calls', from, n)) + 1
        <5>1. calls'[n + 1] # <<>> /\ calls'[n + 1][1] = from
          BY <1>2, <2>1, <2>2
        <5>2. PICK c : c = calls'
          OBVIOUS
        <5>3. /\ ForVertex(c, n + 1) = ForVertex(c, n)
              /\ \A v : v # from => ForEdge(c, v, n + 1) = ForEdge(c, v, n)
              /\ ForEdge(c, from, n + 1) = ForEdge(c, from, n) \cup {n + 1}
              /\ Cardinality(ForEdge(c, from, n + 1)) = Cardinality(ForEdge(c, from, n)) + 1
          <6>1. c[n + 1] # <<>> /\ c[n + 1][1] = from
            BY <5>1, <5>2
          <6>2. c[n + 1] # <<>> =>
                  /\ ForVertex(c, n + 1) = ForVertex(c, n)
                  /\ \A v : v # c[n + 1][1] => ForEdge(c, v, n + 1) = ForEdge(c, v, n)
                  /\ ForEdge(c, c[n + 1][1], n + 1) = ForEdge(c, c[n + 1][1], n) \cup {n + 1}
                  /\ Cardinality(ForEdge(c, c[n + 1][1], n + 1)) = Cardinality(ForEdge(c, c[n + 1][1], n)) + 1
            BY AskedNext
          <6> QED
            BY <6>1, <6>2
        <5> QED
          BY <5>2, <5>3
      <4> QED
        BY <2>1, <2>2, <4>1
    <3>2. \A v : \A j \in ForEdge(calls, v, n) : j \in 1..n
      BY <2>2 DEF ForEdge
    <3>3. \A j \in 1..n : calls'[j] = calls[j] /\ \A v : ForEdge(calls', v, j) = ForEdge(calls, v, j)
      BY <2>1, <2>2
    <3>4. PoolHolds(n)
      BY <2>1, <2>2
    <3>5. ASSUME NEW v \in 1..Pool, v # from
          PROVE  /\ Len(neighbors'[v]) = Cardinality(ForEdge(calls', v, n + 1))
                 /\ \A j \in ForEdge(calls', v, n + 1) :
                      neighbors'[v][Cardinality(ForEdge(calls', v, j))] = calls'[j][2]
      <4>1. neighbors'[v] = neighbors[v] /\ ForEdge(calls', v, n + 1) = ForEdge(calls, v, n)
        BY <2>4, <3>1, <3>5
      <4>2. /\ Len(neighbors[v]) = Cardinality(ForEdge(calls, v, n))
            /\ \A j \in ForEdge(calls, v, n) : neighbors[v][Cardinality(ForEdge(calls, v, j))] = calls[j][2]
        BY <3>4 DEF PoolHolds
      <4>3. \A j \in ForEdge(calls, v, n) : calls'[j] = calls[j] /\ ForEdge(calls', v, j) = ForEdge(calls, v, j)
        BY <3>2, <3>3
      <4> QED
        BY <4>1, <4>2, <4>3
    <3>6. /\ Len(neighbors'[from]) = Cardinality(ForEdge(calls', from, n + 1))
          /\ m + 1 = Cardinality(ForEdge(calls', from, n + 1))
      BY <1>0, <2>3, <2>5, <3>1, <3>4 DEF PoolHolds
    <3>7. ASSUME NEW j \in ForEdge(calls', from, n + 1)
          PROVE  neighbors'[from][Cardinality(ForEdge(calls', from, j))] = calls'[j][2]
      <4>1. CASE j = n + 1
        BY <1>2, <2>1, <2>2, <2>5, <3>6, <4>1
      <4>2. CASE j \in ForEdge(calls, from, n)
        <5>1. j \in 1..n /\ calls'[j] = calls[j] /\ ForEdge(calls', from, j) = ForEdge(calls, from, j)
          BY <3>2, <3>3, <4>2
        <5>2. neighbors[from][Cardinality(ForEdge(calls, from, j))] = calls[j][2]
          BY <1>0, <3>4, <4>2 DEF PoolHolds
        <5>3. Cardinality(ForEdge(calls, from, j)) \in 1..m
          <6>1. ForEdge(calls, from, j) \subseteq ForEdge(calls, from, n) /\ j \in ForEdge(calls, from, j)
            BY <4>2, <5>1 DEF ForEdge
          <6>2. Cardinality(ForEdge(calls, from, n)) = m
            BY <1>0, <2>3, <3>4 DEF PoolHolds
          <6>3. Cardinality(ForEdge(calls, from, j)) <= m
            BY <6>1, <6>2, AskedFinite, FS_Subset
          <6>4. Cardinality(ForEdge(calls, from, j)) # 0 /\ Cardinality(ForEdge(calls, from, j)) \in Nat
            <7>1. j \in Nat
              BY <5>1
            <7>2. IsFiniteSet(ForEdge(calls, from, j)) /\ Cardinality(ForEdge(calls, from, j)) \in Nat
              BY <7>1, AskedFinite
            <7>3. ForEdge(calls, from, j) # {}
              BY <6>1
            <7> QED
              BY <7>2, <7>3, FS_EmptySet
          <6> QED
            BY <2>3, <6>3, <6>4
        <5> QED
          BY <2>5, <5>1, <5>2, <5>3
      <4> QED
        BY <3>1, <4>1, <4>2
    <3>8. len' = Cardinality(ForVertex(calls', n + 1))
      BY <1>0, <3>1, <3>4 DEF PoolHolds
    <3> QED
      BY <3>5, <3>6, <3>7, <3>8 DEF PoolHolds
  <2>8. Len(calls') = n + 1
    BY <2>1, <2>2
  <2> QED
    BY <2>4, <2>6, <2>7, <2>8 DEF PoolInv
<1> QED
  BY <1>4, <1>5

\* Together.
LEMMA PoolNextInv == PoolInv /\ [POOL!Next]_POOL!vars => PoolInv'
<1> SUFFICES ASSUME PoolInv, [POOL!Next]_POOL!vars PROVE PoolInv'
  OBVIOUS
<1>1. CASE UNCHANGED POOL!vars
  <2>0. UNCHANGED <<neighbors, len, calls, pc>>
    BY <1>1 DEF POOL!vars
  <2>1. PoolTypeOK'
    BY <2>0 DEF PoolInv, PoolTypeOK
  <2>2. /\ pc = "build" => PoolHolds(Len(calls))'
        /\ pc = "exited" => PoolHolds(Len(calls) - 1)' /\ PoolRefused'
    BY <2>0 DEF PoolInv, PoolHolds, PoolRefused
  <2> QED
    BY <2>0, <2>1, <2>2 DEF PoolInv
<1>2. CASE \E from, to \in 1..len : POOL!AddEdge(from, to)
  BY <1>2, PoolEdgeInv
<1> QED
  BY <1>1, <1>2, PoolVertexInv DEF POOL!Next

\* It gives the types,
LEMMA PoolTyped ==
  ASSUME PoolInv PROVE POOL!TypeOK
<1>0. PoolTypeOK /\ Pool \in Nat
  BY PoolConstants DEF PoolInv
<1>1. neighbors \in [1..Pool -> Seq(1..len)]
  BY <1>0 DEF PoolTypeOK
<1>2. \A v \in 1..Pool : Len(neighbors[v]) <= (IF v <= len THEN MaxNeighbors ELSE 0)
  <2> SUFFICES ASSUME NEW v \in 1..Pool, ~ (v <= len) PROVE Len(neighbors[v]) <= 0
    BY <1>0 DEF PoolTypeOK
  <2>1. neighbors[v] = <<>>
    BY <1>0 DEF PoolTypeOK
  <2> QED
    BY <2>1
<1> QED
  BY <1>0, <1>1, <1>2 DEF PoolTypeOK, POOL!TypeOK

\* and the property, which says the same of the calls one by one.
LEMMA PoolAsAsked ==
  ASSUME PoolInv PROVE POOL!HoldsWhatWasAsked
<1>0. PoolTypeOK /\ Pool \in Nat /\ MaxNeighbors \in Nat /\ Len(calls) \in Nat
  BY PoolConstants DEF PoolInv, PoolTypeOK
<1>1. \A k : POOL!Vertices(k) = ForVertex(calls, k) /\ \A v : POOL!EdgesOf(v, k) = ForEdge(calls, v, k)
  BY DEF POOL!Vertices, POOL!EdgesOf, ForVertex, ForEdge
<1>2. PICK n \in Nat : n = Len(calls)
  BY <1>0
<1> DEFINE Kept(k) ==
             \A v \in 1..Pool :
               /\ Len(neighbors[v]) = Cardinality(POOL!EdgesOf(v, k))
               /\ \A j \in POOL!EdgesOf(v, k) : neighbors[v][Cardinality(POOL!EdgesOf(v, j))] = calls[j][2]
           Full == \/ Cardinality(POOL!Vertices(Len(calls))) > Pool
                   \/ \E v \in 1..Pool : Cardinality(POOL!EdgesOf(v, Len(calls))) > MaxNeighbors
<1>5. \A k : PoolHolds(k) => Kept(k)
  BY <1>1 DEF PoolHolds
<1>6. /\ Kept(IF pc = "exited" THEN Len(calls) - 1 ELSE Len(calls))
      /\ pc = "exited" <=> Full
      => POOL!HoldsWhatWasAsked
  <2>1. \A S : POOL!Cardinality(S) = Cardinality(S)
    BY DEF Cardinality, POOL!Cardinality
  <2> QED
    BY <2>1, Zenon DEF POOL!HoldsWhatWasAsked
<1>3. CASE pc = "build"
  <2>1. PoolHolds(n) /\ pc # "exited"
    BY <1>2, <1>3 DEF PoolInv
  <2>2. ~ (Cardinality(ForVertex(calls, n)) > Pool)
    BY <1>0, <2>1 DEF PoolHolds, PoolTypeOK
  <2>3. \A v \in 1..Pool : ~ (Cardinality(ForEdge(calls, v, n)) > MaxNeighbors)
    <3> SUFFICES ASSUME NEW v \in 1..Pool PROVE ~ (Cardinality(ForEdge(calls, v, n)) > MaxNeighbors)
      OBVIOUS
    <3>1. Cardinality(ForEdge(calls, v, n)) <= MaxNeighbors /\ Cardinality(ForEdge(calls, v, n)) \in Nat
      BY <1>0, <2>1, AskedFinite DEF PoolHolds, PoolTypeOK
    <3> QED
      BY <1>0, <3>1
  <2> QED
    BY <1>1, <1>2, <1>3, <1>5, <1>6, <2>1, <2>2, <2>3
<1>4. CASE pc = "exited"
  <2>1. PoolHolds(n - 1) /\ PoolRefused /\ n - 1 \in Nat /\ (n - 1) + 1 = n
    BY <1>2, <1>4 DEF PoolInv, PoolRefused
  <2>2. CASE calls[n] = <<>>
    <3>1. Cardinality(ForVertex(calls, n)) = Cardinality(ForVertex(calls, n - 1)) + 1
      BY <2>1, <2>2, AskedNext
    <3>2. Cardinality(ForVertex(calls, n)) > Pool
      BY <1>0, <1>2, <2>1, <2>2, <3>1 DEF PoolHolds, PoolRefused
    <3> QED
      BY <1>1, <1>2, <1>4, <1>5, <1>6, <2>1, <3>2
  <2>3. CASE calls[n] # <<>>
    <3>0. PICK from \in 1..Pool : calls[n][1] = from
      BY <1>0, <1>2, <2>1, <2>3 DEF PoolTypeOK, PoolRefused
    <3>1. Cardinality(ForEdge(calls, from, n)) = Cardinality(ForEdge(calls, from, n - 1)) + 1
      BY <2>1, <2>3, <3>0, AskedNext
    <3>2. Cardinality(ForEdge(calls, from, n)) > MaxNeighbors
      BY <1>0, <1>2, <2>1, <2>3, <3>0, <3>1 DEF PoolHolds, PoolRefused
    <3> QED
      BY <1>1, <1>2, <1>4, <1>5, <1>6, <2>1, <3>2
  <2> QED
    BY <2>2, <2>3
<1> QED
  BY <1>0, <1>3, <1>4 DEF PoolTypeOK

-----------------------------------------------------------------------------
(* Traversals *)

(***************************************************************************)
(* The invariant of a behaviour is that of the program it is of, whose     *)
(* variables only that program's steps change.                             *)
(***************************************************************************)
Programs == {"bfs", "bfs_path", "dfs", "components", "grid", "pool"}

TraversalInv ==
  /\ program \in Programs
  /\ program = "bfs" => BfsFullInv
  /\ program = "bfs_path" => PathFullInv
  /\ program = "dfs" => DfsFullInv
  /\ program = "components" => CompInv /\ pc = "run" /\ start = Zero
  /\ program = "grid" => GridFullInv
  /\ program = "pool" => PoolInv

\* It holds at the start, whichever program it is,
LEMMA TraversalInit == Init => TraversalInv
<1> SUFFICES ASSUME Init PROVE TraversalInv
  OBVIOUS
<1>1. CASE program = "bfs"
  BY <1>1, BfsFullInit DEF Init, TraversalInv, Programs
<1>2. CASE program = "bfs_path"
  BY <1>2, PathFullInit DEF Init, TraversalInv, Programs
<1>3. CASE program = "dfs"
  BY <1>3, DfsFullInit DEF Init, TraversalInv, Programs
<1>4. CASE program = "components"
  BY <1>4, CompInitInv DEF Init, TraversalInv, Programs
<1>5. CASE program = "grid"
  BY <1>5, GridFullInit DEF Init, TraversalInv, Programs
<1>6. CASE program = "pool"
  BY <1>6, PoolInitInv DEF Init, TraversalInv, Programs
<1> QED
  BY <1>1, <1>2, <1>3, <1>4, <1>5, <1>6 DEF Init

\* A step of Traversals is one of the program the behaviour is of.
LEMMA TraversalStep ==
  ASSUME [Next]_vars
  PROVE  /\ program' = program
         /\ program = "bfs" => [BFS!Next]_BFS!vars
         /\ program = "bfs_path" => [PATH!Next]_PATH!vars
         /\ program = "dfs" => [DFS!Next]_DFS!vars
         /\ program = "components" => [COMP!Next]_COMP!vars /\ UNCHANGED <<start, pc>>
         /\ program = "grid" => [GRID!Next]_GRID!vars
         /\ program = "pool" => [POOL!Next]_POOL!vars /\ UNCHANGED <<adj, start, visited>>
<1>1. CASE UNCHANGED vars
  BY <1>1 DEF vars, poolVars, BFS!vars, PATH!vars, DFS!vars, COMP!vars, GRID!vars, POOL!vars
<1>2. CASE BfsStep
  BY <1>2 DEF BfsStep
<1>3. CASE PathStep
  BY <1>3 DEF PathStep
<1>4. CASE DfsStep
  BY <1>4 DEF DfsStep
<1>5. CASE ComponentsStep
  BY <1>5 DEF ComponentsStep
<1>6. CASE GridStep
  BY <1>6 DEF GridStep
<1>7. CASE PoolStep
  BY <1>7 DEF PoolStep
<1> QED
  BY <1>1, <1>2, <1>3, <1>4, <1>5, <1>6, <1>7 DEF Next

\* and every step keeps it.
LEMMA TraversalNext == TraversalInv /\ [Next]_vars => TraversalInv'
<1> SUFFICES ASSUME TraversalInv, [Next]_vars PROVE TraversalInv'
  OBVIOUS
<1>0. program \in Programs /\ program' = program
  BY TraversalStep DEF TraversalInv
<1>1. CASE program = "bfs"
  <2>1. BfsFullInv'
    BY <1>1, TraversalStep, BfsFullNext DEF TraversalInv
  <2> QED
    BY <1>0, <1>1, <2>1 DEF TraversalInv
<1>2. CASE program = "bfs_path"
  <2>1. PathFullInv'
    BY <1>2, TraversalStep, PathFullNext DEF TraversalInv
  <2> QED
    BY <1>0, <1>2, <2>1 DEF TraversalInv
<1>3. CASE program = "dfs"
  <2>1. DfsFullInv'
    BY <1>3, TraversalStep, DfsFullNext DEF TraversalInv
  <2> QED
    BY <1>0, <1>3, <2>1 DEF TraversalInv
<1>4. CASE program = "components"
  <2>1. CompInv' /\ UNCHANGED <<start, pc>>
    BY <1>4, TraversalStep, CompNextInv DEF TraversalInv
  <2> QED
    BY <1>0, <1>4, <2>1 DEF TraversalInv
<1>5. CASE program = "grid"
  <2>1. GridFullInv'
    BY <1>5, TraversalStep, GridFullNext DEF TraversalInv
  <2> QED
    BY <1>0, <1>5, <2>1 DEF TraversalInv
<1>6. CASE program = "pool"
  <2>1. PoolInv'
    BY <1>6, TraversalStep, PoolNextInv DEF TraversalInv
  <2> QED
    BY <1>0, <1>6, <2>1 DEF TraversalInv
<1> QED
  BY <1>0, <1>1, <1>2, <1>3, <1>4, <1>5, <1>6 DEF Programs

\* So it always holds.
LEMMA TraversalAlways == Spec => []TraversalInv
BY TraversalInit, TraversalNext, PTL DEF Spec

\* Every program of graphs/ keeps its variables in their types: indices in the arrays
\* they are of, queues within their capacity, stacks no deeper than the vertices.
THEOREM TraversalsTyped == Spec => []TypeOK
<1>1. TraversalInv => TypeOK
  <2> SUFFICES ASSUME TraversalInv PROVE TypeOK
    OBVIOUS
  <2>1. /\ program = "bfs" => BFS!TypeOK
        /\ program = "bfs_path" => PATH!TypeOK
        /\ program = "dfs" => DFS!TypeOK
        /\ program = "components" => COMP!TypeOK
        /\ program = "grid" => GRID!TypeOK
        /\ program = "pool" => POOL!TypeOK
    BY BfsTyped, PathTyped, DfsTyped, CompTyped, GridTyped, PoolTyped DEF TraversalInv
  <2> QED
    BY <2>1 DEF TraversalInv, Programs, TypeOK
<1> QED
  BY <1>1, TraversalAlways, PTL

\* The queue macros (queue.c) write past their array exactly when bfs.c is given as
\* many edges as the array has slots, and never from bfs-solve-path-find.c.
THEOREM QueuesHaveRoom == Spec => []QueueRoom
<1>1. TraversalInv => QueueRoom
  BY BfsOverruns, PathRoom DEF TraversalInv, BfsFullInv, PathFullInv, QueueRoom
<1> QED
  BY <1>1, TraversalAlways, PTL

\* bfs.c prints in layers, dfs.c depth first from a simple path of calls, and the numbers
\* of connected-components.c mean the oldest ancestor.
THEOREM TraversalsInOrder == Spec => []VisitsInOrder
<1>1. TraversalInv => VisitsInOrder
  BY BfsInLayers, CompNumbersRight DEF TraversalInv, DfsFullInv, DfsInv, VisitsInOrder
<1> QED
  BY <1>1, TraversalAlways, PTL

\* The paths printed, in a graph and through a maze, are shortest ones.
THEOREM PathsAreShortest == Spec => []ShortestPaths
<1>1. TraversalInv => ShortestPaths
  BY PathShortest, GridShortest DEF TraversalInv, ShortestPaths
<1> QED
  BY <1>1, TraversalAlways, PTL

\* The pool of graph.c holds the graph that was asked for, and ends the program only for
\* a vertex or an edge too many.
THEOREM PoolIsAsAsked == Spec => []PoolHoldsWhatWasAsked
<1>1. TraversalInv => PoolHoldsWhatWasAsked
  BY PoolAsAsked DEF TraversalInv, PoolHoldsWhatWasAsked
<1> QED
  BY <1>1, TraversalAlways, PTL

(***************************************************************************)
(* The refinement: what a step of a search says of the values its four     *)
(* variables have before it (g, s, m, o) and after (g2, s2, m2, o2).       *)
(***************************************************************************)
MarkOf(g, m, m2) == \E n \in m : \E x \in Range(g[n]) : x \notin m /\ m2 = m \cup {x}

StepOf(g, s, m, o, g2, s2, m2, o2) ==
  \/ ~ o /\ MarkOf(g, m, m2) /\ g2 = g /\ s2 = s /\ o2 = o
  \/ ~ o /\ (\A n \in m : Range(g[n]) \subseteq m) /\ o2 = TRUE /\ g2 = g /\ s2 = s /\ m2 = m
  \/ g2 = g /\ s2 = s /\ m2 = m /\ o2 = o

\* The step of each search in those terms,
LEMMA PathStepOf ==
  ASSUME [PathSearch!Next]_PathSearch!vars
  PROVE  StepOf(adj, start, visited, PathOver, adj', start', visited', PathOver')
BY DEF PathSearch!Next, PathSearch!Mark, PathSearch!Return, PathSearch!vars, PathSearch!Closed,
       PathSearch!Successors, PathSearch!Range, Range, StepOf, MarkOf

\* of bfs,
LEMMA BfsStepOf ==
  ASSUME [BfsSearch!Next]_BfsSearch!vars
  PROVE  StepOf(adj, start, visited \cup {start}, BfsOver, adj', start', visited' \cup {start'}, BfsOver')
BY DEF BfsSearch!Next, BfsSearch!Mark, BfsSearch!Return, BfsSearch!vars, BfsSearch!Closed,
       BfsSearch!Successors, BfsSearch!Range, Range, StepOf, MarkOf

\* of dfs,
LEMMA DfsStepOf ==
  ASSUME [DfsSearch!Next]_DfsSearch!vars
  PROVE  StepOf(adj, start, visited \cup {start}, DfsOver, adj', start', visited' \cup {start'}, DfsOver')
BY DEF DfsSearch!Next, DfsSearch!Mark, DfsSearch!Return, DfsSearch!vars, DfsSearch!Closed,
       DfsSearch!Successors, DfsSearch!Range, Range, StepOf, MarkOf

\* and of the grid's, whose graph is its moves.
LEMMA GridStepOf ==
  ASSUME [GridSearch!Next]_GridSearch!vars
  PROVE  StepOf(GRID!Moves, GRID!Start, visited, GridOver, GRID!Moves', GRID!Start', visited', GridOver')
BY DEF GridSearch!Next, GridSearch!Mark, GridSearch!Return, GridSearch!vars, GridSearch!Closed,
       GridSearch!Successors, GridSearch!Range, Range, StepOf, MarkOf

\* What Traversals makes of the four variables.
SearchGraph == IF program = "grid" THEN GRID!Moves ELSE adj
SearchStart == IF program = "grid" THEN GRID!Start ELSE start

\* A step in those terms is one of the search Traversals is mapped to.
LEMMA TraversalStepOf ==
  ASSUME StepOf(SearchGraph, SearchStart, Marked, Over, SearchGraph', SearchStart', Marked', Over')
  PROVE  [Search!Next]_Search!vars
BY DEF Search!Next, Search!Mark, Search!Return, Search!vars, Search!Closed,
       Search!Successors, Search!Range, Range, StepOf, MarkOf, SearchGraph, SearchStart

\* The refinement's first states,
LEMMA TraversalSearchInit == Init => Search!Init
<1> SUFFICES ASSUME Init PROVE Search!Init
  OBVIOUS
<1>1. CASE program = "grid"
  <2>1. GRID!Init
    BY <1>1 DEF Init
  <2>2. GridSearch!Init
    BY <2>1, GridSearchInit
  <2>3. Marked = visited /\ Over = GridOver
    BY <1>1, <2>1 DEF Marked, Over, GridOver, GRID!Init
  <2> QED
    BY <1>1, <2>2, <2>3 DEF GridSearch!Init, Search!Init
<1>2. CASE program # "grid"
  <2>1. adj \in [Nodes -> Seq(Nodes)] /\ start \in Nodes /\ Marked = {start} /\ Over = FALSE
    <3>1. CASE program = "bfs"
      BY <3>1, PoolAssumption, TraversalsAssumption DEF Init, BFS!Init, Marked, Over
    <3>2. CASE program = "bfs_path"
      BY <3>2, PoolAssumption, TraversalsAssumption DEF Init, PATH!Init, Marked, Over
    <3>3. CASE program = "dfs"
      BY <3>3, PoolAssumption, TraversalsAssumption DEF Init, DFS!Init, Marked, Over
    <3>4. CASE program = "components"
      BY <3>4, PoolAssumption, TraversalsAssumption DEF Init, COMP!Init, Marked, Over
    <3>5. CASE program = "pool"
      <4>1. adj = [m \in Nodes |-> <<>>] /\ start = Zero /\ visited = {} /\ pc = "build"
        BY <3>5 DEF Init, NoGraph, POOL!Init
      <4>2. adj \in [Nodes -> Seq(Nodes)]
        BY <4>1
      <4> QED
        BY <3>5, <4>1, <4>2, PoolAssumption DEF Marked, Over
    <3> QED
      BY <1>2, <3>1, <3>2, <3>3, <3>4, <3>5 DEF Init
  <2> QED
    BY <1>2, <2>1 DEF Search!Init
<1> QED
  BY <1>1, <1>2

\* and its steps.
LEMMA TraversalSearchNext == TraversalInv /\ TraversalInv' /\ [Next]_vars => [Search!Next]_Search!vars
<1> SUFFICES ASSUME TraversalInv, TraversalInv', [Next]_vars
             PROVE  StepOf(SearchGraph, SearchStart, Marked, Over, SearchGraph', SearchStart', Marked', Over')
  BY TraversalStepOf
<1>0. program \in Programs /\ program' = program
  BY TraversalStep DEF TraversalInv
<1>1. CASE program = "bfs"
  <2>1. BfsFullInv /\ BfsFullInv' /\ [BFS!Next]_BFS!vars
    BY <1>0, <1>1, TraversalStep DEF TraversalInv
  <2>2. pc # "none" /\ pc' # "none"
    BY <2>1 DEF BfsFullInv, BfsInv, BfsTypeOK
  <2>3. /\ SearchGraph = adj /\ SearchStart = start /\ Marked = visited \cup {start} /\ Over = BfsOver
        /\ SearchGraph' = adj' /\ SearchStart' = start' /\ Marked' = visited' \cup {start'} /\ Over' = BfsOver'
    BY <1>0, <1>1, <2>2 DEF SearchGraph, SearchStart, Marked, Over, BfsOver
  <2>4. StepOf(adj, start, visited \cup {start}, BfsOver, adj', start', visited' \cup {start'}, BfsOver')
    BY <2>1, BfsSearchNext, BfsStepOf
  <2> QED
    BY <2>3, <2>4
<1>2. CASE program = "bfs_path"
  <2>1. PathFullInv /\ [PATH!Next]_PATH!vars
    BY <1>2, TraversalStep DEF TraversalInv
  <2>2. /\ start \in visited /\ start' \in visited'
    BY <1>0, <1>2 DEF TraversalInv, PathFullInv, PathInv, PathMarked
  <2>3. /\ SearchGraph = adj /\ SearchStart = start /\ Marked = visited /\ Over = PathOver
        /\ SearchGraph' = adj' /\ SearchStart' = start' /\ Marked' = visited' /\ Over' = PathOver'
    BY <1>0, <1>2, <2>2 DEF SearchGraph, SearchStart, Marked, Over, PathOver
  <2>4. StepOf(adj, start, visited, PathOver, adj', start', visited', PathOver')
    BY <2>1, PathSearchNext, PathStepOf DEF PathFullInv
  <2> QED
    BY <2>3, <2>4
<1>3. CASE program = "dfs"
  <2>1. DfsFullInv /\ DfsFullInv' /\ [DFS!Next]_DFS!vars
    BY <1>0, <1>3, TraversalStep DEF TraversalInv
  <2>2. pc # "none" /\ pc' # "none"
    BY <2>1 DEF DfsFullInv, DfsInv, DfsTypeOK
  <2>3. /\ SearchGraph = adj /\ SearchStart = start /\ Marked = visited \cup {start} /\ Over = DfsOver
        /\ SearchGraph' = adj' /\ SearchStart' = start' /\ Marked' = visited' \cup {start'} /\ Over' = DfsOver'
    BY <1>0, <1>3, <2>2 DEF SearchGraph, SearchStart, Marked, Over, DfsOver
  <2>4. StepOf(adj, start, visited \cup {start}, DfsOver, adj', start', visited' \cup {start'}, DfsOver')
    BY <2>1, DfsSearchNext, DfsStepOf DEF DfsFullInv
  <2> QED
    BY <2>3, <2>4
<1>4. CASE program = "components"
  <2>1. CompInv /\ [COMP!Next]_COMP!vars /\ UNCHANGED <<start, pc>> /\ pc = "run"
    BY <1>4, TraversalStep DEF TraversalInv
  <2>2. adj' = adj
    BY <2>1 DEF COMP!Next, COMP!NextVertex, COMP!Recurse, COMP!Leave, COMP!vars
  <2>3. /\ SearchGraph' = SearchGraph /\ SearchStart' = SearchStart /\ Marked' = Marked /\ Over' = Over
    BY <1>0, <1>4, <2>1, <2>2 DEF SearchGraph, SearchStart, Marked, Over
  <2> QED
    BY <2>3 DEF StepOf
<1>5. CASE program = "grid"
  <2>1. GridFullInv /\ GridFullInv' /\ [GRID!Next]_GRID!vars
    BY <1>0, <1>5, TraversalStep DEF TraversalInv
  <2>2. pc # "done" /\ pc' # "done"
    BY <2>1 DEF GridFullInv, GridInv, GridTypeOK
  <2>3. /\ SearchGraph = GRID!Moves /\ SearchStart = GRID!Start /\ Marked = visited /\ Over = GridOver
        /\ SearchGraph' = GRID!Moves' /\ SearchStart' = GRID!Start' /\ Marked' = visited' /\ Over' = GridOver'
    BY <1>0, <1>5, <2>2 DEF SearchGraph, SearchStart, Marked, Over, GridOver
  <2>4. StepOf(GRID!Moves, GRID!Start, visited, GridOver, GRID!Moves', GRID!Start', visited', GridOver')
    BY <2>1, GridSearchNext, GridStepOf
  <2> QED
    BY <2>3, <2>4
<1>6. CASE program = "pool"
  <2>1. PoolInv /\ PoolInv' /\ UNCHANGED <<adj, start, visited>>
    BY <1>0, <1>6, TraversalStep DEF TraversalInv
  <2>2. pc \in {"build", "exited"} /\ pc' \in {"build", "exited"}
    BY <2>1 DEF PoolInv, PoolTypeOK
  <2>3. /\ SearchGraph' = SearchGraph /\ SearchStart' = SearchStart /\ Marked' = Marked /\ Over' = Over
    BY <1>0, <1>6, <2>1, <2>2 DEF SearchGraph, SearchStart, Marked, Over
  <2> QED
    BY <2>3 DEF StepOf
<1> QED
  BY <1>0, <1>1, <1>2, <1>3, <1>4, <1>5, <1>6 DEF Programs

\* The programs of graphs/ that start from one node are searches.
THEOREM TraversalsImplementSearch == Spec => ImplementsSearch
BY TraversalSearchInit, TraversalSearchNext, TraversalAlways, PTL DEF Spec, Search!Spec, ImplementsSearch
=============================================================================
