---------------------------- MODULE JsonTreeProofs ----------------------------
(***************************************************************************)
(* A document of JSON, as the program uses it and as the parser fills it,  *)
(* is a tree: theorems of JsonTree, for every size of the pools and of the *)
(* slot numbers, all texts and every nesting limit. What a document holds  *)
(* in its slots comes from JsonProofs.                                     *)
(***************************************************************************)
EXTENDS JsonProofs, JsonTree, SequenceTheorems

-----------------------------------------------------------------------------
(***************************************************************************)
(* The tree that a document shows                                          *)
(***************************************************************************)
\* K are the slots that the links of c lead through.
Chain(d, c, K) ==
  /\ K \in Seq(Slots)
  /\ d.var[c].head = IF K = << >> THEN NullSlot ELSE K[1]
  /\ \A i \in 1..Len(K) : d.var[K[i]].next = IF i = Len(K) THEN NullSlot ELSE K[i + 1]

LEMMA KidsChain ==
  ASSUME NEW d, NEW g, Tree(d, g), NEW c \in g.in
  PROVE  Chain(d, c, Kids(d, c))
<1> DEFINE K == Kids(d, c)
<1>1. K \in Seq(Slots) /\ Len(K) \in Nat
  BY KidsInTree
<1>2. d.var[c].head = IF K = << >> THEN NullSlot ELSE K[1]
  BY KidsInTree
<1>3. ASSUME NEW i \in 1..Len(K)
      PROVE  d.var[K[i]].next = IF i = Len(K) THEN NullSlot ELSE K[i + 1]
  <2>1. CASE i = Len(K)
    BY KidsInTree, <2>1
  <2>2. CASE i # Len(K)
    <3>1. i \in 1..Len(K) - 1
      BY <1>1, <2>2
    <3> QED
      BY KidsInTree, <3>1, <2>2
  <2> QED
    BY <2>1, <2>2
<1> QED
  BY <1>1, <1>2, <1>3 DEF Chain

LEMMA ChainsAgree ==
  ASSUME NEW d, NEW c, NEW K, NEW M, Chain(d, c, K), Chain(d, c, M)
  PROVE  Len(K) <= Len(M) /\ \A i \in 1..Len(K) : K[i] = M[i]
<1>1. /\ K \in Seq(Slots) /\ Len(K) \in Nat /\ \A i \in 1..Len(K) : K[i] \in Slots
      /\ M \in Seq(Slots) /\ Len(M) \in Nat /\ \A i \in 1..Len(M) : M[i] \in Slots
  BY DEF Chain
<1>2. NullSlot \notin Slots
  BY Sizes
<1> DEFINE S == {n \in Nat : n <= Len(K) => n <= Len(M) /\ \A i \in 1..n : K[i] = M[i]}
<1>3. 0 \in S
  BY <1>1
<1>4. ASSUME NEW n \in Nat, n \in S PROVE n + 1 \in S
  <2> SUFFICES ASSUME n + 1 <= Len(K) PROVE n + 1 <= Len(M) /\ \A i \in 1..n + 1 : K[i] = M[i]
    OBVIOUS
  <2>1. n <= Len(M) /\ \A i \in 1..n : K[i] = M[i]
    BY <1>1, <1>4
  <2>2. n + 1 <= Len(M) /\ K[n + 1] = M[n + 1]
    <3>1. CASE n = 0
      <4>1. K # << >> /\ 1 \in 1..Len(K)
        BY <1>1, <3>1
      <4>2. d.var[c].head = K[1] /\ K[1] \in Slots
        BY <1>1, <4>1 DEF Chain
      <4>3. M # << >>
        BY <1>2, <4>2 DEF Chain
      <4>4. d.var[c].head = M[1]
        BY <4>3 DEF Chain
      <4>5. 1 <= Len(M)
        BY <1>1, <4>3
      <4>6. n + 1 = 1
        BY <3>1
      <4> QED
        BY <4>2, <4>4, <4>5, <4>6
    <3>2. CASE n # 0
      <4>1. n \in 1..Len(K) /\ n # Len(K) /\ n + 1 \in 1..Len(K) /\ n \in 1..n /\ n \in 1..Len(M)
        BY <1>1, <2>1, <3>2
      <4>2. d.var[K[n]].next = K[n + 1] /\ K[n + 1] \in Slots
        BY <1>1, <4>1 DEF Chain
      <4>3. K[n] = M[n]
        BY <2>1, <4>1
      <4>4. d.var[M[n]].next = IF n = Len(M) THEN NullSlot ELSE M[n + 1]
        BY <4>1 DEF Chain
      <4>5. n # Len(M) /\ M[n + 1] = K[n + 1]
        BY <1>2, <4>2, <4>3, <4>4
      <4> QED
        BY <1>1, <4>1, <4>5
    <3> QED
      BY <3>1, <3>2
  <2>3. \A i \in 1..n + 1 : i \in 1..n \/ i = n + 1
    OBVIOUS
  <2> QED
    BY <2>1, <2>2, <2>3
<1>5. Nat \subseteq S
  <2> HIDE DEF S
  <2> QED
    BY <1>3, <1>4, SetInduction
<1> QED
  BY <1>1, <1>5

LEMMA KidsAre ==
  ASSUME NEW d, NEW g, Tree(d, g), NEW c \in g.in, NEW K, Chain(d, c, K)
  PROVE  Kids(d, c) = K
<1> DEFINE M == Kids(d, c)
<1>1. Chain(d, c, M)
  BY KidsChain
<1> HIDE DEF M
<1>2. Len(K) <= Len(M) /\ (\A i \in 1..Len(K) : K[i] = M[i]) /\ Len(M) <= Len(K)
  BY <1>1, ChainsAgree
<1>3. K \in Seq(Slots) /\ M \in Seq(Slots)
  BY <1>1 DEF Chain
<1>4. Len(K) = Len(M)
  BY <1>2, <1>3
<1> QED
  BY <1>2, <1>3, <1>4 DEF M

LEMMA KidsKept ==
  ASSUME NEW d, NEW g, Tree(d, g), NEW e, NEW h, Tree(e, h), NEW c \in g.in, c \in h.in,
         e.var[c].head = d.var[c].head,
         \A w \in ToSet(Kids(d, c)) : e.var[w].next = d.var[w].next
  PROVE  Kids(e, c) = Kids(d, c)
<1> DEFINE K == Kids(d, c)
<1>1. Chain(d, c, K)
  BY KidsChain
<1>2. \A i \in 1..Len(K) : K[i] \in ToSet(K)
  BY <1>1 DEF Chain, ToSet
<1>3. Chain(e, c, K)
  BY <1>1, <1>2 DEF Chain
<1> QED
  BY <1>3, KidsAre

\* What a value is, and the slots below it.
Is(d, u) == IF d.var[u].type \in {"plain", "owned"} THEN d.var[u].str ELSE d.var[u].type
Of(d, u) == IF d.var[u].type \in Collection THEN Kids(d, u) ELSE << >>

\* D as a tree.
Shape(d, D) == [u \in D |-> [is |-> Is(d, u), of |-> Of(d, u)]]

\* A slot without a value.
Bare(d, x) == d.var[x].type = "null" /\ d.var[x].head = NullSlot /\ d.var[x].next = NullSlot

\* What does not belong to the value of u is empty.
Proper(d, u) ==
  /\ d.var[u].type \notin {"plain", "owned"} => d.var[u].str = ""
  /\ d.var[u].type = "ext" => d.var[u].head # NullSlot /\ Bare(d, d.var[u].head)

\* D are the values of d that can be seen from the Root.
Shows(d, D) ==
  /\ Root \in D
  /\ \A u \in D : Proper(d, u) /\ ToSet(Of(d, u)) \subseteq D
  /\ \A w \in D \ {Root} : \E u \in D : w \in ToSet(Of(d, u))

Seen(d, g, D) == Good(d, g) /\ D \subseteq g.in /\ Shows(d, D)

LEMMA OfIs ==
  ASSUME NEW d, NEW g, Tree(d, g), NEW u \in g.in
  PROVE  /\ Of(d, u) \in Seq(Slots)
         /\ \A w : w \in ToSet(Of(d, u)) <=>
                     w \in g.in \ g.roots /\ g.own[w] = u /\ d.var[u].type \in Collection
<1>1. CASE d.var[u].type \in Collection
  <2>1. Of(d, u) = Kids(d, u) /\ Kids(d, u) \in Seq(Slots)
    BY <1>1, KidsInTree DEF Of
  <2>2. \A w : w \in ToSet(Kids(d, u)) <=> \E i \in 1..Len(Kids(d, u)) : Kids(d, u)[i] = w
    BY <2>1 DEF ToSet
  <2>3. ASSUME NEW w PROVE w \in ToSet(Kids(d, u)) <=> w \in g.in \ g.roots /\ g.own[w] = u
    BY <2>2, KidsInTree
  <2> QED
    BY <1>1, <2>1, <2>3
<1>2. CASE d.var[u].type \notin Collection
  <2>1. Of(d, u) = << >> /\ ToSet(<< >>) = {}
    BY <1>2 DEF Of, ToSet
  <2> QED
    BY <1>2, <2>1
<1> QED
  BY <1>1, <1>2

\* Where they are in the places of the document.
Within(d, g, D) ==
  /\ Good(d, g) /\ Tree(d, g) /\ d \in Documents /\ g \in Places /\ D \subseteq g.in /\ D \subseteq Nodes
  /\ Root \in D /\ D \cap g.roots = {Root}
  /\ \A w \in g.in \ g.roots :
       w \in D <=> g.own[w] \in D /\ d.var[g.own[w]].type \in Collection
  /\ \A u \in D : Of(d, u) \in Seq(D \ {Root})

LEMMA SeenFacts ==
  ASSUME NEW d, NEW g, NEW D, Seen(d, g, D)
  PROVE  Within(d, g, D)
<1>1. /\ Good(d, g) /\ Tree(d, g) /\ d \in Documents /\ g \in Places /\ D \subseteq g.in /\ D \subseteq Nodes
      /\ Root \in D /\ Root \in g.roots
  BY TreeFacts DEF Seen, Good, Shows
<1>2. ASSUME NEW w \in D \ {Root}
      PROVE  w \in g.in \ g.roots /\ g.own[w] \in D /\ d.var[g.own[w]].type \in Collection
  <2>1. PICK u \in D : w \in ToSet(Of(d, u))
    BY DEF Seen, Shows
  <2> QED
    BY <1>1, <2>1, OfIs
<1>3. ASSUME NEW w \in g.in \ g.roots, g.own[w] \in D, d.var[g.own[w]].type \in Collection
      PROVE  w \in D
  <2>1. w \in ToSet(Of(d, g.own[w]))
    BY <1>1, <1>3, OfIs
  <2> QED
    BY <1>3, <2>1 DEF Seen, Shows
<1>4. ASSUME NEW u \in D PROVE Of(d, u) \in Seq(D \ {Root})
  <2>1. Of(d, u) \in Seq(Slots) /\ ToSet(Of(d, u)) \subseteq D
    BY <1>1, OfIs DEF Seen, Shows
  <2>2. \A i \in 1..Len(Of(d, u)) : Of(d, u)[i] \in D \ {Root}
    <3>1. \A i \in 1..Len(Of(d, u)) : Of(d, u)[i] \in ToSet(Of(d, u)) /\ Of(d, u)[i] \in Slots
      BY <2>1 DEF ToSet
    <3> QED
      BY <2>1, <3>1, Sizes
  <2> QED
    BY <2>1, <2>2
<1> QED
  BY <1>1, <1>2, <1>3, <1>4 DEF Within

LEMMA HeadShown ==
  ASSUME NEW d, NEW g, NEW D, Seen(d, g, D), NEW u \in D
  PROVE  /\ d.var[u].head # NullSlot => d.var[u].type = "ext" \/ d.var[u].head \in D
         /\ u # Root /\ d.var[u].next # NullSlot => d.var[u].next \in D
<1>f. Within(d, g, D)
  BY SeenFacts
<1>1. ASSUME d.var[u].head # NullSlot, d.var[u].type # "ext" PROVE d.var[u].head \in D
  <2>1. d.var[u].type \in Collection
    BY <1>1, <1>f, VarType DEF Within, Good, Tails, Types, Collection
  <2>2. d.var[u].head \in g.in \ g.roots /\ g.own[d.var[u].head] = u
    BY <1>1, <1>f DEF Within, Tree, Forest, Linked
  <2> QED
    BY <1>f, <2>1, <2>2 DEF Within
<1>2. ASSUME u # Root, d.var[u].next # NullSlot PROVE d.var[u].next \in D
  <2>1. d.var[u].next \in g.in \ g.roots /\ g.own[d.var[u].next] = g.own[u] /\ u \in g.in \ g.roots
    BY <1>2, <1>f DEF Within, Tree, Forest, Linked
  <2> QED
    BY <1>f, <2>1 DEF Within
<1> QED
  BY <1>1, <1>2

LEMMA UpShown ==
  ASSUME NEW d, NEW g, NEW D, Seen(d, g, D), NEW w \in D \ {Root}
  PROVE  /\ g.up[w] \in D /\ g.rank[g.up[w]] < g.rank[w]
         /\ w = d.var[g.up[w]].head \/ (g.up[w] # Root /\ w = d.var[g.up[w]].next)
<1>f. Within(d, g, D)
  BY SeenFacts
<1> DEFINE p == g.up[w]
<1>1. w \in g.in \ g.roots /\ p \in g.in /\ w \in Links(d, p) /\ w \in Slots
  BY <1>f, TreeFacts DEF Within, Tree, Forest, p
<1>2. w # NullSlot
  BY <1>1, Sizes
<1> HIDE DEF p
<1>3. CASE w = d.var[p].head
  <2>1. Linked(g, p, w, p) /\ p \in D
    BY <1>1, <1>2, <1>3, <1>f DEF Within, Tree, Forest, Linked, Good, Tails, Collection
  <2> QED
    BY <1>3, <2>1 DEF Linked, p
<1>4. CASE w # d.var[p].head
  <2>1. w = d.var[p].next
    BY <1>1, <1>4 DEF Links
  <2>2. Linked(g, p, w, g.own[p]) /\ p \notin g.roots
    BY <1>1, <1>2, <2>1, <1>f DEF Within, Tree, Forest
  <2>3. p \in D
    BY <1>1, <1>f, <2>2 DEF Linked, Within
  <2>4. p # Root
    BY <1>f, <2>2 DEF Within
  <2> QED
    BY <2>1, <2>2, <2>3, <2>4 DEF Linked, p
<1> QED
  BY <1>3, <1>4

LEMMA SeenReached ==
  ASSUME NEW d, NEW g, NEW D, Seen(d, g, D)
  PROVE  /\ D \subseteq Reached(d)
         /\ \A u \in Reached(d) : d.var[u].type \in Collection => u \in D
<1>f. Within(d, g, D)
  BY SeenFacts
<1>1. /\ Reached(d) = {Root} \cup Below(d, Root)
      /\ d.var[Root].head # NullSlot => d.var[Root].head \in Below(d, Root)
      /\ \A u \in Below(d, Root) : Links(d, u) \subseteq Below(d, Root)
  BY <1>f, BelowClosed, Sizes DEF Reached, Within
<1>2. D \subseteq Reached(d)
  <2> DEFINE lost == D \ Reached(d)
  <2> SUFFICES ASSUME lost # {} PROVE FALSE
    OBVIOUS
  <2>1. PICK w \in lost : \A z \in lost : g.rank[w] <= g.rank[z]
    <3>1. \A w \in lost : g.rank[w] \in Nat
      BY <1>f, TreeFacts DEF Within
    <3> HIDE DEF lost
    <3> QED
      BY <3>1, LeastRank
  <2>2. w \in D \ {Root} /\ w \notin Below(d, Root)
    BY <1>1
  <2>3. /\ g.up[w] \in D /\ g.rank[g.up[w]] < g.rank[w]
        /\ w = d.var[g.up[w]].head \/ (g.up[w] # Root /\ w = d.var[g.up[w]].next)
    BY <2>2, UpShown
  <2>4. g.up[w] \in Reached(d)
    <3>1. g.rank[g.up[w]] \in Nat /\ g.rank[w] \in Nat
      BY <1>f, <2>2, <2>3, TreeFacts DEF Within
    <3> QED
      BY <2>1, <2>3, <3>1
  <2>5. w # NullSlot
    BY <1>f, <2>2, Sizes DEF Within
  <2> HIDE DEF lost
  <2> QED
    BY <1>1, <2>2, <2>3, <2>4, <2>5 DEF Links
<1>3. ASSUME NEW u \in Reached(d), d.var[u].type \in Collection PROVE u \in D
  <2> DEFINE X == {d.var[v].head : v \in {n \in D : d.var[n].type = "ext"}}
             S == D \cup X
  <2>1. \A x \in X : Bare(d, x)
    BY DEF Seen, Shows, Proper
  <2>2. d.var[Root].head # NullSlot => d.var[Root].head \in S
    BY <1>f, HeadShown DEF Within
  <2>3. ASSUME NEW v \in S \cap Slots PROVE Links(d, v) \subseteq S
    <3>1. CASE v \in D
      BY <3>1, HeadShown, Sizes DEF Links
    <3>2. CASE v \in X
      BY <2>1, <3>2 DEF Links, Bare
    <3> QED
      BY <3>1, <3>2
  <2>4. Below(d, Root) \subseteq S
    <3> HIDE DEF S
    <3> QED
      BY <1>f, <2>2, <2>3, BelowLeast, Sizes DEF Within
  <2>5. u \notin X
    BY <1>3, <2>1 DEF Bare, Collection
  <2> QED
    BY <1>1, <1>f, <2>4, <2>5 DEF Within
<1> QED
  BY <1>2, <1>3

LEMMA ShapeIs ==
  ASSUME NEW d, NEW g, NEW D, Seen(d, g, D)
  PROVE  TreeOf(d) = Shape(d, D)
<1>f. Within(d, g, D)
  BY SeenFacts
<1> DEFINE inner == {c \in Reached(d) : d.var[c].type \in {"array", "object"}}
           shown == {Root} \cup UNION {ToSet(Kids(d, c)) : c \in inner}
<1>1. \A c : c \in inner <=> c \in D /\ d.var[c].type \in Collection
  BY SeenReached DEF Collection
<1>2. TreeOf(d) =
        [v \in shown |->
           [is |-> IF d.var[v].type \in {"plain", "owned"} THEN d.var[v].str ELSE d.var[v].type,
            of |-> IF v \in inner THEN Kids(d, v) ELSE << >>]]
  BY DEF TreeOf
<1> HIDE DEF inner
<1>3. shown = D
  <2>1. \A c \in inner : Kids(d, c) = Of(d, c)
    BY <1>1 DEF Of
  <2>2. ASSUME NEW w \in D \ {Root} PROVE w \in shown
    <3>1. PICK u \in D : w \in ToSet(Of(d, u))
      BY DEF Seen, Shows
    <3>2. u \in inner
      BY <1>1, <1>f, <3>1, OfIs DEF Within
    <3> QED
      BY <2>1, <3>1, <3>2
  <2>3. \A c \in inner : ToSet(Kids(d, c)) \subseteq D
    BY <1>1, <2>1 DEF Seen, Shows
  <2>4. Root \in D
    BY <1>f DEF Within
  <2> QED
    BY <2>2, <2>3, <2>4
<1> HIDE DEF shown
<1>4. \A v \in D : /\ (IF v \in inner THEN Kids(d, v) ELSE << >>) = Of(d, v)
                   /\ (IF d.var[v].type \in {"plain", "owned"} THEN d.var[v].str ELSE d.var[v].type) = Is(d, v)
  BY <1>1 DEF Of, Is
<1> QED
  BY <1>2, <1>3, <1>4 DEF Shape

\* The second slot of a number is not a value of its own.
LEMMA ExtApart ==
  ASSUME NEW d, NEW g, NEW D, Seen(d, g, D), NEW u \in D, d.var[u].type = "ext"
  PROVE  d.var[u].head \in g.in \ D /\ d.var[u].head \in Slots /\ Bare(d, d.var[u].head)
<1>f. Within(d, g, D)
  BY SeenFacts
<1>1. d.var[u].head # NullSlot /\ Bare(d, d.var[u].head)
  BY DEF Seen, Shows, Proper
<1>2. d.var[u].head \in g.in \ g.roots /\ g.own[d.var[u].head] = u
  BY <1>1, <1>f DEF Within, Tree, Forest, Linked
<1>3. g.in \ g.roots \subseteq Slots
  BY <1>f, TreeFacts DEF Within
<1> QED
  BY <1>1, <1>2, <1>3, <1>f DEF Within, Collection

\* What d shows of u has not changed.
LEMMA OfKept ==
  ASSUME NEW d, NEW g, Tree(d, g), NEW e, NEW h, Tree(e, h), NEW u \in g.in, u \in h.in,
         e.var[u].type = d.var[u].type, e.var[u].head = d.var[u].head,
         \A w \in ToSet(Of(d, u)) : e.var[w].next = d.var[w].next
  PROVE  Of(e, u) = Of(d, u)
<1>1. CASE d.var[u].type \in Collection
  <2>1. Of(d, u) = Kids(d, u) /\ Of(e, u) = Kids(e, u)
    BY <1>1 DEF Of
  <2> QED
    BY <2>1, KidsKept
<1>2. CASE d.var[u].type \notin Collection
  BY <1>2 DEF Of
<1> QED
  BY <1>1, <1>2

LEMMA ValueKept ==
  ASSUME NEW d, NEW g, NEW D, Seen(d, g, D), NEW e, NEW u \in D,
         e.var[u].type = d.var[u].type, e.var[u].str = d.var[u].str,
         e.var[u].head = d.var[u].head, \A x \in g.in \ D : Bare(d, x) => Bare(e, x)
  PROVE  Is(e, u) = Is(d, u) /\ Proper(e, u)
<1>1. Proper(d, u)
  BY DEF Seen, Shows
<1>2. CASE d.var[u].type = "ext"
  <2>1. d.var[u].head \in g.in \ D /\ Bare(d, d.var[u].head)
    BY <1>2, ExtApart
  <2>2. Bare(e, d.var[u].head)
    BY <2>1
  <2> QED
    BY <1>1, <1>2, <2>1, <2>2 DEF Is, Proper
<1>3. CASE d.var[u].type # "ext"
  BY <1>1, <1>3 DEF Is, Proper
<1> QED
  BY <1>2, <1>3

-----------------------------------------------------------------------------
(***************************************************************************)
(* Values and the nodes that have them                                     *)
(***************************************************************************)
LEMMA SameSets == \A s : Document!ToSet(s) = ToSet(s)
BY DEF Document!ToSet, ToSet

LEMMA ClearBlank ==
  ASSUME NEW d \in Documents, NEW v \in Nodes
  PROVE  Clear(d, v).var[v].str = ""
<1>1. d.var \in [Nodes -> Variants]
  BY DEF Documents
<1>2. Clear(d, v).var[v] = [NullVariant EXCEPT !.next = d.var[v].next]
  BY <1>1 DEF Clear, Documents
<1> QED
  BY <1>2 DEF NullVariant

\* Trees after a step: v becomes x, or of what is left, the nodes E, v becomes x.
Put(t, v, x) == [t EXCEPT ![v] = Document!Node(x)]
Pruned(t, E, v, x) == [u \in E |-> IF u = v THEN Document!Node(x) ELSE t[u]]

\* A cleared value and what is below it.
LEMMA ClearedSeen ==
  ASSUME NEW d, NEW g, NEW D, Seen(d, g, D), NEW v \in D
  PROVE  LET E == D \ Below(d, v)
             f == Clear(d, v)
         IN /\ Seen(f, Without(g, Below(d, v)), E) /\ v \in E /\ SameMemory(d, f)
            /\ f.var[v].type = "null" /\ f.var[v].head = NullSlot
            /\ Shape(f, E) = Pruned(Shape(d, D), E, v, "null")
            /\ Document!IsCut(Shape(d, D), ToSet(Of(d, v)), D \ E)
<1> DEFINE B == Below(d, v)
           E == D \ B
           f == Clear(d, v)
           k == Without(g, B)
<1>f. Within(d, g, D)
  BY SeenFacts
<1>1. v \in g.in /\ v \in Nodes /\ Tree(d, g) /\ Good(d, g) /\ d \in Documents /\ g \in Places
  BY <1>f DEF Within
<1>2. /\ B \subseteq g.in \ g.roots /\ v \notin B
      /\ \A w \in B : g.own[w] \in B \cup {v}
      /\ \A w \in g.in \ g.roots : g.own[w] \in B \cup {v} => w \in B
  BY <1>1, BelowInTree
<1>3. Emptied(d, v, f) /\ f.var[v].str = ""
  BY <1>1, ClearFields, ClearBlank
<1>4. Good(f, k) /\ k.in = g.in \ B /\ k.roots = g.roots \ B /\ Tree(f, k)
  BY <1>1, Cleared, WithoutFields DEF Good
<1> HIDE DEF B, f, k
<1>5. /\ \A u \in Nodes \ {v} : f.var[u] = d.var[u]
      /\ \A u \in Nodes : f.var[u].next = d.var[u].next
      /\ f.var[v].type = "null" /\ f.var[v].head = NullSlot /\ f.var[v].str = ""
      /\ SameMemory(d, f)
  BY <1>3 DEF Emptied
<1>6. E \subseteq k.in /\ v \in E /\ Root \in E /\ E \subseteq Nodes
  BY <1>2, <1>4, <1>f DEF Within
<1>7. \A u \in D : \A w : w \in ToSet(Of(d, u)) <=>
                     w \in g.in \ g.roots /\ g.own[w] = u /\ d.var[u].type \in Collection
  BY <1>1, <1>f, OfIs DEF Within
<1>8. ASSUME NEW u \in E, u # v PROVE Of(f, u) = Of(d, u) /\ ToSet(Of(d, u)) \subseteq E
  <2>1. u \in g.in /\ u \in k.in /\ u \in D /\ u \in Nodes
    BY <1>6, <1>f DEF Within
  <2>2. \A w \in ToSet(Of(d, u)) : w \in D /\ w \notin B /\ w \in Nodes
    <3>1. ToSet(Of(d, u)) \subseteq D
      BY <2>1 DEF Seen, Shows
    <3>2. \A w \in ToSet(Of(d, u)) : g.own[w] = u
      BY <1>7, <2>1
    <3>3. u \notin B \cup {v}
      BY <1>8
    <3>4. \A w \in ToSet(Of(d, u)) : w \notin B
      BY <1>2, <3>2, <3>3
    <3> QED
      BY <3>1, <3>4, <1>f DEF Within
  <2>3. f.var[u] = d.var[u]
    BY <1>5, <1>8, <2>1
  <2>4. \A w \in ToSet(Of(d, u)) : f.var[w].next = d.var[w].next
    BY <1>5, <2>2
  <2>5. Of(f, u) = Of(d, u)
    BY <1>1, <1>4, <2>1, <2>3, <2>4, OfKept
  <2> QED
    BY <2>2, <2>5
<1>9. Of(f, v) = << >> /\ ToSet(<< >>) = {}
  <2>1. f.var[v].type \notin Collection
    BY <1>5 DEF Collection
  <2> QED
    BY <2>1 DEF Of, ToSet
<1>10. Shows(f, E)
  <2>1. ASSUME NEW u \in E PROVE Proper(f, u) /\ ToSet(Of(f, u)) \subseteq E
    <3>1. CASE u = v
      BY <1>5, <1>9, <3>1 DEF Proper
    <3>2. CASE u # v
      <4>1. f.var[u] = d.var[u] /\ u \in D
        BY <1>5, <1>6, <3>2
      <4>2. \A x \in g.in \ D : Bare(d, x) => Bare(f, x)
        BY <1>1, <1>5, TreeFacts DEF Bare
      <4>3. Proper(f, u)
        BY <4>1, <4>2, ValueKept
      <4> QED
        BY <1>8, <3>2, <4>3
    <3> QED
      BY <3>1, <3>2
  <2>2. ASSUME NEW w \in E \ {Root} PROVE \E u \in E : w \in ToSet(Of(f, u))
    <3>1. PICK u \in D : w \in ToSet(Of(d, u))
      BY DEF Seen, Shows
    <3>2. u \notin B /\ u # v
      BY <1>2, <1>7, <3>1
    <3> QED
      BY <1>8, <3>1, <3>2
  <2> QED
    BY <1>6, <2>1, <2>2 DEF Shows
<1>11. Shape(f, E) = Pruned(Shape(d, D), E, v, "null")
  <2> SUFFICES ASSUME NEW u \in E
               PROVE  [is |-> Is(f, u), of |-> Of(f, u)]
                        = IF u = v THEN Document!Node("null") ELSE Shape(d, D)[u]
    BY DEF Shape, Pruned
  <2>1. CASE u = v
    <3>1. Is(f, u) = "null"
      BY <1>5, <2>1 DEF Is
    <3> QED
      BY <1>9, <2>1, <3>1 DEF Document!Node
  <2>2. CASE u # v
    <3>1. Of(f, u) = Of(d, u) /\ f.var[u] = d.var[u] /\ u \in D
      BY <1>5, <1>6, <1>8, <2>2
    <3> QED
      BY <2>2, <3>1 DEF Shape, Is
  <2> QED
    BY <2>1, <2>2
<1>12. Document!IsCut(Shape(d, D), ToSet(Of(d, v)), D \ E)
  <2>1. /\ DOMAIN Shape(d, D) = D
        /\ \A u \in D : Shape(d, D)[u].of = Of(d, u)
    BY DEF Shape
  <2>2. ASSUME NEW w \in D
        PROVE  w \in D \ E <=> w \in ToSet(Of(d, v)) \/ \E u \in D \ E : w \in ToSet(Of(d, u))
    <3>1. ASSUME w \in D \ E
          PROVE  w \in ToSet(Of(d, v)) \/ \E u \in D \ E : w \in ToSet(Of(d, u))
      <4>1. w \in B /\ w # Root
        BY <1>6, <3>1
      <4>2. PICK u \in D : w \in ToSet(Of(d, u))
        BY <4>1 DEF Seen, Shows
      <4>3. u \in B \cup {v}
        BY <1>2, <1>7, <4>1, <4>2
      <4> QED
        BY <4>2, <4>3
    <3>2. ASSUME w \in ToSet(Of(d, v)) \/ \E u \in D \ E : w \in ToSet(Of(d, u))
          PROVE  w \in D \ E
      <4>1. PICK u \in B \cup {v} : u \in D /\ w \in ToSet(Of(d, u))
        BY <3>2
      <4> QED
        BY <1>2, <1>7, <4>1
    <3> QED
      BY <3>1, <3>2
  <2> QED
    BY <2>1, <2>2, SameSets DEF Document!IsCut
<1>13. Seen(f, k, E)
  BY <1>4, <1>6, <1>10 DEF Seen
<1> QED
  BY <1>5, <1>6, <1>11, <1>12, <1>13 DEF B, f, k

\* A slot is only had while there is memory.
LEMMA AllocQuiet ==
  ASSUME NEW d \in Documents, PoolsOK(d), NEW r \in Alloc(d), r[2] # NullSlot
  PROVE  r[1].overflowed <=> d.overflowed
<1>1. ASSUME NEW p \in Documents PROVE Take(p)[1].overflowed <=> p.overflowed
  BY DEF Take, Documents
<1>2. CASE d.free # {}
  <2>1. r[1] = [d EXCEPT !.free = @ \ {Min(@)}, !.var[Min(d.free)] = NullVariant]
    BY <1>2 DEF Alloc
  <2> QED
    BY <2>1 DEF Documents
<1>3. CASE d.free = {} /\ HasRoom(d)
  <2>1. r = Take(d)
    BY <1>3 DEF Alloc
  <2> QED
    BY <1>1, <2>1
<1>4. CASE d.free = {} /\ ~ HasRoom(d)
  <2>1. PICK p \in AddPool(d) :
          r = IF HasRoom(p) THEN Take(p) ELSE <<[p EXCEPT !.overflowed = TRUE], NullSlot>>
    BY <1>4 DEF Alloc
  <2>2. r = Take(p)
    BY <2>1
  <2>3. p \in Documents /\ (p.overflowed <=> d.overflowed)
    BY PoolAdded
  <2> QED
    BY <1>1, <2>2, <2>3
<1> QED
  BY <1>2, <1>3, <1>4

LEMMA SavedFields ==
  ASSUME NEW d \in Documents, NEW v \in Nodes, NEW s \in Strings
  PROVE  LET e == Saved(d, v, s) IN
         /\ e.overflowed <=> d.overflowed
         /\ e.var[v].type \in {"plain", "owned"} /\ e.var[v].str = s
         /\ e.var[v].head = d.var[v].head /\ e.var[v].next = d.var[v].next
         /\ e.var[v].tail = d.var[v].tail
<1> DEFINE e == Saved(d, v, s)
           ty == IF s \in Long THEN "owned" ELSE "plain"
           y == [d.var[v] EXCEPT !.type = ty, !.str = s]
           refs == [t \in Long |-> d.refs[t] + (IF t = s THEN 1 ELSE 0)]
           var == [d.var EXCEPT ![v] = y]
<1>1. e = [d EXCEPT !.var = var, !.refs = refs]
  BY DEF Saved, Documents
<1>2. /\ y.type = ty /\ y.str = s /\ y.head = d.var[v].head /\ y.next = d.var[v].next
      /\ y.tail = d.var[v].tail /\ ty \in {"plain", "owned"}
  BY VarType DEF Variants
<1>3. var[v] = y
  BY DEF Documents
<1> HIDE DEF e, y, refs, var
<1>4. e.var = var /\ (e.overflowed <=> d.overflowed)
  BY <1>1 DEF Documents
<1> QED
  BY <1>2, <1>3, <1>4 DEF e

LEMMA StringQuiet ==
  ASSUME NEW d \in Documents, NEW v \in Nodes, NEW s \in Strings, NEW r \in SetString(d, v, s),
         r[2] # NullSlot
  PROVE  r = <<Saved(d, v, s), v>>
BY DEF SetString, Saved

\* The value that v gets, in full.
Written(d, g, v, value, e) ==
  /\ e.overflowed <=> d.overflowed
  /\ \A u \in g.in \ {v} : e.var[u] = d.var[u]
  /\ e.var[v].next = d.var[v].next
  /\ Is(e, v) = value
  /\ e.var[v].type \notin {"plain", "owned"} => e.var[v].str = d.var[v].str
  /\ IF e.var[v].type = "ext" THEN e.var[v].head \in Slots \ g.in /\ e.var[e.var[v].head] = NullVariant
     ELSE e.var[v].head = d.var[v].head

LEMMA NullWritten ==
  ASSUME NEW d, NEW g, Good(d, g), NEW v \in g.in, d.var[v].type = "null",
         NEW value \in AllValues, NEW r \in SetNull(d, v, value), Len(r[1].pools) <= MaxPools
  PROVE  \/ r[2] = NullSlot /\ r[1].overflowed /\ r[1].var = d.var
         \/ r[2] = v /\ Written(d, g, v, value, r[1])
<1>1. /\ d \in Documents /\ v \in Nodes /\ v # NullSlot /\ g.in \subseteq Nodes /\ PoolsOK(d)
  BY TreeFacts, Sizes DEF Good
<1>2. CASE value \in Strings
  <2>1. r \in SetString(d, v, value)
    BY <1>2, StringsAssumption DEF SetNull, Then, Strings, Plain
  <2>2. /\ \A u \in Nodes \ {v} : r[1].var[u] = d.var[u]
        /\ r[2] \in {v, NullSlot}
        /\ r[2] = NullSlot => r[1].overflowed /\ r[1].var = d.var
    BY <1>2, <2>1, StringSet
  <2>3. ASSUME r[2] = v PROVE Written(d, g, v, value, r[1])
    <3>1. /\ r[1].overflowed <=> d.overflowed
          /\ r[1].var[v].type \in {"plain", "owned"} /\ r[1].var[v].str = value
          /\ r[1].var[v].head = d.var[v].head /\ r[1].var[v].next = d.var[v].next
      <4>1. r = <<Saved(d, v, value), v>>
        BY <1>1, <1>2, <2>1, <2>3, StringQuiet
      <4>2. r[1] = Saved(d, v, value)
        BY <4>1
      <4> QED
        BY <1>1, <1>2, <4>2, SavedFields
    <3> QED
      BY <1>1, <2>2, <3>1 DEF Written, Is
  <2> QED
    BY <2>2, <2>3
<1>3. CASE value = "ext"
  <2>1. value \notin Long \cup Short
    BY <1>3, StringsAssumption
  <2>2. PICK q \in Alloc(d) :
          r = IF q[2] = NullSlot THEN q
              ELSE <<[q[1] EXCEPT !.var[v].type = "ext", !.var[v].head = q[2]], v>>
    BY <1>3, <2>1 DEF SetNull, Then, Plain
  <2>3. CASE q[2] = NullSlot
    <3>1. r = q /\ q[2] \notin Slots
      BY <2>2, <2>3, Sizes
    <3>2. Len(q[1].pools) <= MaxPools
      BY <3>1
    <3>3. q[1].overflowed /\ q[1].var = d.var
      BY <3>1, <3>2, Allocated
    <3> QED
      BY <2>3, <3>1, <3>3
  <2>4. CASE q[2] # NullSlot
    <3> DEFINE f == q[1]
               id == q[2]
               y == [f.var[v] EXCEPT !.type = "ext", !.head = id]
               e == [f EXCEPT !.var = [f.var EXCEPT ![v] = y]]
    <3> HIDE DEF f, id
    <3>1. r[1] = [f EXCEPT !.var[v].type = "ext", !.var[v].head = id] /\ r[2] = v
      BY <2>2, <2>4 DEF f, id
    <3>2. e = [f EXCEPT !.var[v].type = "ext", !.var[v].head = id]
      OBVIOUS
    <3> HIDE DEF e
    <3>3. r[1] = e
      BY <3>1, <3>2
    <3>4. e.pools = f.pools
      BY DEF e
    <3>5. /\ f \in Documents
          /\ id \in Slots \ g.in /\ f.var[id] = NullVariant
          /\ \A u \in Nodes \ {id} : f.var[u] = d.var[u]
      <4>1. Len(f.pools) <= MaxPools
        BY <3>3, <3>4
      <4> HIDE DEF e
      <4> QED
        BY <2>4, <4>1, Allocated DEF f, id
    <3>6. f.overflowed <=> d.overflowed
      BY <1>1, <2>4, AllocQuiet DEF f, id
    <3>7. v # id /\ f.var[v] = d.var[v] /\ f.var[v] \in Variants
      BY <1>1, <3>5, VarType
    <3>8. /\ y \in Variants /\ y.type = "ext" /\ y.head = id /\ y.str = d.var[v].str
          /\ y.next = d.var[v].next
      BY <3>5, <3>7, Sizes DEF Variants, Types
    <3> HIDE DEF y
    <3>9. SameMemory(f, e) /\ e.var[v] = y /\ \A u \in Nodes \ {v} : e.var[u] = f.var[u]
      BY <1>1, <3>5, <3>8, VarReplaced DEF e
    <3>10. e.overflowed <=> d.overflowed
      BY <3>6, <3>9 DEF SameMemory
    <3>11. \A u \in g.in \ {v} : e.var[u] = d.var[u]
      BY <1>1, <3>5, <3>9
    <3>12. e.var[id] = NullVariant /\ id \in Slots \ g.in
      BY <3>5, <3>7, <3>9, Sizes
    <3>13. Written(d, g, v, value, e)
      BY <1>3, <3>8, <3>9, <3>10, <3>11, <3>12 DEF Written, Is
    <3> QED
      BY <3>1, <3>3, <3>13
  <2> QED
    BY <2>3, <2>4
<1>4. CASE value \in Plain \cup Collection
  <2>1. value \notin Strings /\ value # "ext"
    BY <1>4, StringsAssumption DEF Strings, Plain, Collection
  <2> DEFINE y == IF value \in Plain THEN [d.var[v] EXCEPT !.type = "plain", !.str = value]
                  ELSE [d.var[v] EXCEPT !.type = value]
             e == [d EXCEPT !.var = [d.var EXCEPT ![v] = y]]
  <2>2. r = <<e, v>>
    <3>1. CASE value \in Plain
      <4>1. r = <<[d EXCEPT !.var[v].type = "plain", !.var[v].str = value], v>>
        BY <2>1, <3>1 DEF SetNull, Strings
      <4> QED
        BY <3>1, <4>1
    <3>2. CASE value \notin Plain
      <4>1. r = <<[d EXCEPT !.var[v].type = value], v>>
        BY <2>1, <3>2 DEF SetNull, Strings
      <4> QED
        BY <3>2, <4>1
    <3> QED
      BY <3>1, <3>2
  <2>3. /\ y \in Variants /\ y.head = d.var[v].head /\ y.next = d.var[v].next
        /\ IF value \in Plain THEN y.type = "plain" /\ y.str = value
           ELSE y.type = value /\ y.str = d.var[v].str
    BY <1>1, <1>4, VarType DEF Variants, Types, Collection
  <2> HIDE DEF y, e
  <2>4. SameMemory(d, e) /\ e.var[v] = y /\ \A u \in Nodes \ {v} : e.var[u] = d.var[u]
    BY <1>1, <2>3, VarReplaced DEF e
  <2>5. Is(e, v) = value /\ e.var[v].type # "ext"
    BY <1>4, <2>3, <2>4 DEF Collection, Is
  <2>6. Written(d, g, v, value, e)
    BY <1>1, <1>4, <2>3, <2>4, <2>5 DEF Written, SameMemory, Collection
  <2> QED
    BY <2>2, <2>6
<1> QED
  BY <1>2, <1>3, <1>4 DEF AllValues, Collection

\* The values of d are shown as they were, but for v.
LEMMA ShownBut ==
  ASSUME NEW d, NEW g, NEW D, Seen(d, g, D), NEW v \in D, d.var[v].head = NullSlot,
         NEW e, NEW h, Good(e, h), g.in \subseteq h.in,
         \A u \in g.in \ {v} : e.var[u] = d.var[u], e.var[v].next = d.var[v].next,
         Proper(e, v), e.var[v].type \in Collection => e.var[v].head = NullSlot
  PROVE  Seen(e, h, D) /\ Shape(e, D) = Put(Shape(d, D), v, Is(e, v))
<1>f. Within(d, g, D)
  BY SeenFacts
<1>1. Tree(d, g) /\ Tree(e, h) /\ D \subseteq g.in /\ D \subseteq h.in /\ Root \in D
  BY <1>f DEF Within, Good
<1>2. Of(e, v) = << >> /\ Of(d, v) = << >> /\ ToSet(<< >>) = {}
  <2>1. ASSUME e.var[v].type \in Collection PROVE Of(e, v) = << >>
    <3>1. Kids(e, v) = << >>
      BY <1>1, <2>1, KidsInTree
    <3> QED
      BY <3>1 DEF Of
  <2>2. ASSUME d.var[v].type \in Collection PROVE Of(d, v) = << >>
    <3>1. Kids(d, v) = << >>
      BY <1>1, KidsInTree
    <3> QED
      BY <3>1 DEF Of
  <2> QED
    BY <2>1, <2>2 DEF Of, ToSet
<1>3. ASSUME NEW u \in D, u # v
      PROVE  Of(e, u) = Of(d, u) /\ Is(e, u) = Is(d, u) /\ Proper(e, u)
  <2>1. e.var[u] = d.var[u] /\ u \in g.in /\ u \in h.in
    BY <1>1, <1>3
  <2>2. ToSet(Of(d, u)) \subseteq D
    BY DEF Seen, Shows
  <2>3. \A w \in ToSet(Of(d, u)) : e.var[w].next = d.var[w].next
    <3>1. \A w \in g.in : e.var[w].next = d.var[w].next
      OBVIOUS
    <3> QED
      BY <1>1, <2>2, <3>1
  <2>4. Of(e, u) = Of(d, u)
    BY <1>1, <2>1, <2>3, OfKept
  <2>5. \A x \in g.in \ D : Bare(d, x) => Bare(e, x)
    BY DEF Bare
  <2> QED
    BY <2>1, <2>4, <2>5, ValueKept
<1>4. \A u \in D : Of(e, u) = Of(d, u) /\ Proper(e, u)
  BY <1>2, <1>3
<1>5. Seen(e, h, D)
  <2>1. \A u \in D : ToSet(Of(e, u)) \subseteq D
    BY <1>4 DEF Seen, Shows
  <2>2. \A w \in D \ {Root} : \E u \in D : w \in ToSet(Of(e, u))
    BY <1>4 DEF Seen, Shows
  <2> QED
    BY <1>1, <1>4, <2>1, <2>2 DEF Seen, Shows
<1>6. \A u \in D : [is |-> Is(e, u), of |-> Of(e, u)]
                     = IF u = v THEN Document!Node(Is(e, v)) ELSE [is |-> Is(d, u), of |-> Of(d, u)]
  BY <1>2, <1>3 DEF Document!Node
<1>7. Shape(e, D) = [u \in D |-> IF u = v THEN Document!Node(Is(e, v))
                                 ELSE [is |-> Is(d, u), of |-> Of(d, u)]]
  BY <1>6 DEF Shape
<1>8. DOMAIN Shape(d, D) = D /\ \A u \in D : Shape(d, D)[u] = [is |-> Is(d, u), of |-> Of(d, u)]
  BY DEF Shape
<1>9. Put(Shape(d, D), v, Is(e, v))
        = [u \in D |-> IF u = v THEN Document!Node(Is(e, v)) ELSE Shape(d, D)[u]]
  BY <1>8 DEF Put
<1> QED
  BY <1>5, <1>7, <1>8, <1>9

LEMMA NullShown ==
  ASSUME NEW d, NEW g, NEW D, Seen(d, g, D), NEW v \in D, d.var[v].type = "null",
         NEW value \in AllValues, NEW r \in SetNull(d, v, value), Len(r[1].pools) <= MaxPools
  PROVE  \E h :
           /\ Seen(r[1], h, D) /\ h.roots = g.roots
           /\ \/ r[2] = NullSlot /\ r[1].overflowed /\ Shape(r[1], D) = Shape(d, D)
              \/ /\ r[2] = v /\ (r[1].overflowed <=> d.overflowed)
                 /\ Shape(r[1], D) = Put(Shape(d, D), v, value)
<1>f. Within(d, g, D)
  BY SeenFacts
<1>1. Good(d, g) /\ v \in g.in
  BY <1>f DEF Within
<1>2. PICK h : Continues(d, g, r[1], h, {v})
  BY <1>1, NullSet
<1>3. Good(r[1], h) /\ g.in \subseteq h.in /\ h.roots = g.roots
  BY <1>2 DEF Continues
<1>4. d.var[v].head = NullSlot /\ d.var[v].str = "" /\ Proper(d, v)
  BY <1>1 DEF Good, Tails, Seen, Shows, Proper
<1>5. CASE r[2] = NullSlot /\ r[1].overflowed /\ r[1].var = d.var
  <2>1. Is(r[1], v) = Is(d, v) /\ Proper(r[1], v) /\ r[1].var[v].head = NullSlot
    BY <1>4, <1>5 DEF Is, Proper
  <2>2. Seen(r[1], h, D) /\ Shape(r[1], D) = Put(Shape(d, D), v, Is(d, v))
    <3>1. \A u \in g.in \ {v} : r[1].var[u] = d.var[u]
      BY <1>5
    <3>2. r[1].var[v].next = d.var[v].next
      BY <1>5
    <3>3. Good(r[1], h) /\ g.in \subseteq h.in /\ d.var[v].head = NullSlot /\ Proper(r[1], v)
      BY <1>3, <1>4, <2>1
    <3>4. r[1].var[v].type \in Collection => r[1].var[v].head = NullSlot
      BY <2>1
    <3>5. Is(r[1], v) = Is(d, v)
      BY <2>1
    <3> DEFINE e == r[1]
    <3> HIDE DEF e
    <3>6. Seen(e, h, D) /\ Shape(e, D) = Put(Shape(d, D), v, Is(e, v))
      BY <3>1, <3>2, <3>3, <3>4, ShownBut DEF e
    <3> QED
      BY <3>5, <3>6 DEF e
  <2>3. Shape(d, D)[v] = Document!Node(Is(d, v))
    <3>1. d.var[v].type \notin Collection
      BY DEF Collection
    <3> QED
      BY <3>1 DEF Shape, Of, Document!Node
  <2>4. Put(Shape(d, D), v, Is(d, v)) = Shape(d, D)
    BY <2>3 DEF Shape, Put
  <2> QED
    BY <1>3, <1>5, <2>2, <2>4
<1>6. CASE r[2] = v /\ Written(d, g, v, value, r[1])
  <2>1. Proper(r[1], v)
    BY <1>4, <1>6, Sizes, NullFields DEF Written, Proper, Bare
  <2>2. r[1].var[v].type \in Collection => r[1].var[v].head = NullSlot
    BY <1>4, <1>6 DEF Written, Collection
  <2>3. Seen(r[1], h, D) /\ Shape(r[1], D) = Put(Shape(d, D), v, Is(r[1], v))
    <3>1. (\A u \in g.in \ {v} : r[1].var[u] = d.var[u]) /\ r[1].var[v].next = d.var[v].next
      BY <1>6 DEF Written
    <3>2. Good(r[1], h) /\ g.in \subseteq h.in /\ d.var[v].head = NullSlot
      BY <1>3, <1>4
    <3> QED
      BY <2>1, <2>2, <3>1, <3>2, ShownBut
  <2> QED
    BY <1>3, <1>6, <2>3 DEF Written
<1>7. \/ r[2] = NullSlot /\ r[1].overflowed /\ r[1].var = d.var
      \/ r[2] = v /\ Written(d, g, v, value, r[1])
  BY <1>1, NullWritten
<1> QED
  BY <1>5, <1>6, <1>7

\* OrderedTree!Assign, of any tree.
Assigned(t, v, value, was, u, is) ==
  LET gone == DOMAIN t \ DOMAIN u
      assigned(x) == [w \in DOMAIN t \ gone |-> IF w = v THEN Document!Node(x) ELSE t[w]]
  IN /\ Document!IsCut(t, ToSet(t[v].of), gone)
     /\ \/ u = assigned(value) /\ (is <=> was)
        \/ u = assigned("null") /\ is

LEMMA VariantShown ==
  ASSUME NEW d, NEW g, NEW D, Seen(d, g, D), NEW v \in D,
         NEW value \in AllValues, NEW r \in Set(d, v, value), Len(r[1].pools) <= MaxPools
  PROVE  \E h :
           /\ Seen(r[1], h, D \ Below(d, v)) /\ h.roots = g.roots
           /\ Assigned(Shape(d, D), v, value, d.overflowed, Shape(r[1], D \ Below(d, v)),
                       r[1].overflowed)
<1> DEFINE f == Clear(d, v)
           E == D \ Below(d, v)
           k == Without(g, Below(d, v))
           N(x) == Pruned(Shape(d, D), E, v, x)
<1>f. Within(d, g, D)
  BY SeenFacts
<1>1. /\ Seen(f, k, E) /\ v \in E /\ SameMemory(d, f) /\ f.var[v].type = "null"
      /\ Shape(f, E) = N("null")
      /\ Document!IsCut(Shape(d, D), ToSet(Of(d, v)), D \ E)
  <2>1. Shape(f, E) = N("null")
    BY ClearedSeen, Zenon
  <2>2. Seen(f, k, E)
    BY ClearedSeen, Zenon
  <2>3. v \in E /\ SameMemory(d, f) /\ f.var[v].type = "null"
    BY ClearedSeen, Zenon
  <2>4. Document!IsCut(Shape(d, D), ToSet(Of(d, v)), D \ E)
    BY ClearedSeen, Zenon
  <2> QED
    BY <2>1, <2>2, <2>3, <2>4
<1>2. k.roots = g.roots
  <2>1. Below(d, v) \subseteq g.in \ g.roots /\ g \in Places
    BY <1>f, BelowInTree DEF Within
  <2>2. k.roots = g.roots \ Below(d, v)
    BY <2>1, WithoutFields
  <2> QED
    BY <2>1, <2>2
<1>3. r \in SetNull(f, v, value)
  BY DEF Set
<1>4. DOMAIN Shape(d, D) = D /\ Shape(d, D)[v].of = Of(d, v)
  BY DEF Shape
<1> HIDE DEF f, k
<1>5. PICK h :
        /\ Seen(r[1], h, E) /\ h.roots = k.roots
        /\ \/ r[2] = NullSlot /\ r[1].overflowed /\ Shape(r[1], E) = Shape(f, E)
           \/ /\ r[2] = v /\ (r[1].overflowed <=> f.overflowed)
              /\ Shape(r[1], E) = Put(Shape(f, E), v, value)
  <2> HIDE DEF E, N
  <2>1. Seen(f, k, E) /\ v \in E /\ f.var[v].type = "null"
    BY <1>1
  <2> QED
    BY <1>3, <2>1, NullShown
<1>6. \/ Shape(r[1], E) = N(value) /\ (r[1].overflowed <=> d.overflowed)
      \/ Shape(r[1], E) = N("null") /\ r[1].overflowed
  <2>1. Put(N("null"), v, value) = N(value)
    <3> HIDE DEF E
    <3> QED
      BY DEF Pruned, Put
  <2> HIDE DEF E, N
  <2> QED
    BY <1>1, <1>5, <2>1 DEF SameMemory
<1>7. DOMAIN Shape(r[1], E) = E /\ D \ (D \ E) = E
  BY DEF Shape
<1>8. Assigned(Shape(d, D), v, value, d.overflowed, Shape(r[1], E), r[1].overflowed)
  <2>1. Document!IsCut(Shape(d, D), ToSet(Shape(d, D)[v].of), D \ E)
    BY <1>1, <1>4
  <2> HIDE DEF E
  <2> QED
    BY <1>4, <1>6, <1>7, <2>1 DEF Assigned, Pruned
<1> QED
  BY <1>2, <1>5, <1>8

-----------------------------------------------------------------------------
(***************************************************************************)
(* Elements and members that are new                                       *)
(***************************************************************************)
\* The slots K get behind those of c.
Attached(d, g, c, K, e) ==
  \A u \in g.in :
    /\ e.var[u].type = d.var[u].type /\ e.var[u].str = d.var[u].str
    /\ e.var[u].head = IF u = c /\ d.var[c].head = NullSlot THEN K[1] ELSE d.var[u].head
    /\ e.var[u].next = IF u = d.var[c].tail THEN K[1] ELSE d.var[u].next

\* They are linked to each other, and hold nothing else.
Leaves(e, K) ==
  \A i \in 1..Len(K) :
    /\ e.var[K[i]].next = IF i = Len(K) THEN NullSlot ELSE K[i + 1]
    /\ Proper(e, K[i])
    /\ e.var[K[i]].type \in Collection => e.var[K[i]].head = NullSlot

\* All but the first are null.
OthersBlank(e, K) == \A i \in 1..Len(K) : i > 1 => Is(e, K[i]) = "null"

\* c has got the nodes of K, the first of them with the value x.
GrownBy(t, c, K, x) ==
  [u \in DOMAIN t \cup ToSet(K) |->
     IF u = c THEN [is |-> t[c].is, of |-> t[c].of \o K] ELSE IF u \in DOMAIN t THEN t[u]
     ELSE Document!Node(IF u = K[1] THEN x ELSE "null")]

LEMMA AttachedKids ==
  ASSUME NEW d, NEW g, Good(d, g), NEW c \in g.in, d.var[c].type \in Collection,
         NEW K \in Seq(Slots), K # << >>, NEW e, NEW h, Tree(e, h), c \in h.in,
         Attached(d, g, c, K, e), Leaves(e, K)
  PROVE  Kids(e, c) = Kids(d, c) \o K
<1> DEFINE M == Kids(d, c)
           t == d.var[c].tail
           J == M \o K
<1>1. /\ M \in Seq(Slots) /\ Len(M) \in Nat /\ \A i \in 1..Len(M) : M[i] \in g.in /\ M[i] \in Slots
      /\ M = << >> <=> d.var[c].head = NullSlot
  BY KidsInTree, TreeFacts DEF Good
<1>2. Chain(d, c, M)
  BY KidsChain DEF Good
<1>3. t = IF M = << >> THEN NullSlot ELSE Last(M)
  BY TailIsLast
<1> HIDE DEF M, t
<1>4. Len(K) \in Nat /\ Len(K) > 0 /\ K[1] \in Slots /\ \A i \in 1..Len(K) : K[i] \in Slots
  OBVIOUS
<1>5. /\ J \in Seq(Slots) /\ Len(J) = Len(M) + Len(K)
      /\ \A i \in 1..Len(M) : J[i] = M[i]
      /\ \A i \in 1..Len(K) : J[Len(M) + i] = K[i]
  BY <1>1, <1>4
<1>6. J # << >> /\ J[1] = IF M = << >> THEN K[1] ELSE M[1]
  <2>1. CASE M = << >>
    <3>1. Len(M) = 0 /\ 1 \in 1..Len(K) /\ Len(M) + 1 = 1
      BY <1>4, <2>1
    <3>2. J[1] = K[1]
      BY <1>5, <3>1
    <3> QED
      BY <1>4, <1>5, <2>1, <3>1, <3>2
  <2>2. CASE M # << >>
    <3>1. 1 \in 1..Len(M)
      BY <1>1, <2>2
    <3> QED
      BY <1>1, <1>4, <1>5, <2>2, <3>1
  <2> QED
    BY <2>1, <2>2
<1> HIDE DEF J
<1>7. e.var[c].head = IF M = << >> THEN K[1] ELSE d.var[c].head
  BY <1>1 DEF Attached
<1>8. e.var[c].head = J[1]
  BY <1>2, <1>6, <1>7 DEF Chain
<1>9. ASSUME NEW i \in 1..Len(J)
      PROVE  e.var[J[i]].next = IF i = Len(J) THEN NullSlot ELSE J[i + 1]
  <2>1. CASE i \in 1..Len(M) /\ i # Len(M)
    <3>1. i + 1 \in 1..Len(M) /\ i # Len(J) /\ J[i] = M[i] /\ J[i + 1] = M[i + 1]
      BY <1>1, <1>4, <1>5, <2>1
    <3>2. d.var[M[i]].next = M[i + 1]
      BY <1>2, <2>1 DEF Chain
    <3>3. M[i] # t
      <4>1. M # << >> /\ Last(M) = M[Len(M)] /\ Len(M) \in 1..Len(M)
        BY <1>1, <2>1 DEF Last
      <4>2. d.var[t].next = NullSlot
        BY <1>2, <1>3, <4>1 DEF Chain
      <4> QED
        BY <1>1, <3>1, <3>2, <4>2, Sizes
    <3>4. e.var[M[i]].next = d.var[M[i]].next
      BY <1>1, <2>1, <3>3 DEF Attached, t
    <3> QED
      BY <3>1, <3>2, <3>4
  <2>2. CASE i \in 1..Len(M) /\ i = Len(M)
    <3>1. i # Len(J) /\ J[i] = M[Len(M)] /\ 1 \in 1..Len(K) /\ M # << >> /\ Last(M) = M[Len(M)]
      BY <1>1, <1>4, <1>5, <2>2 DEF Last
    <3>2. J[i + 1] = K[1]
      BY <1>5, <2>2, <3>1
    <3>3. e.var[t].next = K[1]
      BY <1>1, <1>3, <2>2, <3>1 DEF Attached, t
    <3> QED
      BY <1>3, <3>1, <3>2, <3>3
  <2>3. CASE i > Len(M)
    <3>1. PICK j \in 1..Len(K) : i = Len(M) + j
      <4>1. i - Len(M) \in 1..Len(K) /\ i = Len(M) + (i - Len(M))
        BY <1>1, <1>4, <1>5, <2>3
      <4> QED
        BY <4>1
    <3>2. J[i] = K[j] /\ (i = Len(J) <=> j = Len(K))
      <4>1. J[i] = K[j]
        BY <1>5, <3>1
      <4>2. i = Len(J) <=> j = Len(K)
        <5>1. Len(M) \in Nat /\ Len(K) \in Nat /\ Len(J) = Len(M) + Len(K)
          BY <1>1, <1>4, <1>5
        <5>2. \A a \in Nat, b \in Nat, n \in Nat : a + b = a + n <=> b = n
          OBVIOUS
        <5>3. j \in Nat
          OBVIOUS
        <5>4. Len(M) + j = Len(M) + Len(K) <=> j = Len(K)
          BY <5>1, <5>2, <5>3
        <5>5. i = Len(M) + j
          BY <3>1
        <5> QED
          BY <5>1, <5>4, <5>5
      <4> QED
        BY <4>1, <4>2
    <3>3. j # Len(K) => J[i + 1] = K[j + 1]
      <4> SUFFICES ASSUME j # Len(K) PROVE J[i + 1] = K[j + 1]
        OBVIOUS
      <4>1. j + 1 \in 1..Len(K) /\ i + 1 = Len(M) + (j + 1)
        BY <1>1, <1>4, <3>1
      <4> QED
        BY <1>5, <4>1
    <3> QED
      BY <3>1, <3>2, <3>3 DEF Leaves
  <2>4. i \in 1..Len(M) \/ i > Len(M)
    BY <1>1
  <2> QED
    BY <2>1, <2>2, <2>3, <2>4
<1>10. Chain(e, c, J)
  BY <1>5, <1>6, <1>8, <1>9 DEF Chain
<1> QED
  BY <1>10, KidsAre DEF J, M

LEMMA GrownShown ==
  ASSUME NEW d, NEW g, NEW D, Seen(d, g, D), NEW c \in D, d.var[c].type \in Collection,
         NEW K \in Seq(Slots), K # << >>, ToSet(K) \cap g.in = {},
         NEW e, NEW h, Good(e, h), g.in \subseteq h.in, ToSet(K) \subseteq h.in,
         Attached(d, g, c, K, e), Leaves(e, K),
         NEW x, Is(e, K[1]) = x, OthersBlank(e, K)
  PROVE  /\ Seen(e, h, D \cup ToSet(K))
         /\ Shape(e, D \cup ToSet(K)) = GrownBy(Shape(d, D), c, K, x)
<1> DEFINE E == D \cup ToSet(K)
<1>f. Within(d, g, D)
  BY SeenFacts
<1>1. /\ Good(d, g) /\ Tree(d, g) /\ Tree(e, h) /\ D \subseteq g.in /\ D \subseteq h.in
      /\ E \subseteq h.in /\ Root \in D /\ c \in g.in /\ c \in h.in
  BY <1>f DEF Within, Good
<1>2. Kids(e, c) = Kids(d, c) \o K
  BY <1>1, AttachedKids
<1>3. Of(d, c) = Kids(d, c) /\ Of(e, c) = Kids(d, c) \o K
  BY <1>1, <1>2 DEF Of, Attached
<1>4. ToSet(Of(e, c)) = ToSet(Of(d, c)) \cup ToSet(K)
  <2>1. Kids(d, c) \in Seq(Slots)
    BY <1>1, KidsInTree
  <2>2. ToSet(Kids(d, c) \o K) = ToSet(Kids(d, c)) \cup ToSet(K)
    <3> DEFINE M == Kids(d, c)
    <3> HIDE DEF M
    <3>1. M \in Seq(Slots) /\ Len(M) \in Nat /\ Len(K) \in Nat
      BY <2>1 DEF M
    <3>2. /\ Len(M \o K) = Len(M) + Len(K)
          /\ \A i \in 1..Len(M) : (M \o K)[i] = M[i] /\ i \in 1..Len(M \o K)
          /\ \A i \in 1..Len(K) : (M \o K)[Len(M) + i] = K[i] /\ Len(M) + i \in 1..Len(M \o K)
      BY <3>1
    <3>3. \A i \in 1..Len(M \o K) : i \in 1..Len(M) \/ \E j \in 1..Len(K) : i = Len(M) + j
      <4> SUFFICES ASSUME NEW i \in 1..Len(M \o K), i \notin 1..Len(M)
                   PROVE  \E j \in 1..Len(K) : i = Len(M) + j
        OBVIOUS
      <4>1. i - Len(M) \in 1..Len(K) /\ i = Len(M) + (i - Len(M))
        BY <3>1, <3>2
      <4> QED
        BY <4>1
    <3>4. /\ \A w : w \in ToSet(M) <=> \E i \in 1..Len(M) : M[i] = w
          /\ \A w : w \in ToSet(K) <=> \E i \in 1..Len(K) : K[i] = w
          /\ \A w : w \in ToSet(M \o K) <=> \E i \in 1..Len(M \o K) : (M \o K)[i] = w
      <4>1. M \o K \in Seq(Slots)
        BY <3>1
      <4> QED
        BY <3>1, <4>1 DEF ToSet
    <3>5. \A w : w \in ToSet(M \o K) <=> w \in ToSet(M) \/ w \in ToSet(K)
      <4> DEFINE J == M \o K
      <4> HIDE DEF J
      <4>1. ASSUME NEW w, w \in ToSet(J) PROVE w \in ToSet(M) \/ w \in ToSet(K)
        <5>1. PICK i \in 1..Len(J) : J[i] = w
          BY <3>4, <4>1 DEF J
        <5> QED
          BY <3>2, <3>3, <3>4, <5>1 DEF J
      <4>2. ASSUME NEW w, w \in ToSet(M) \/ w \in ToSet(K) PROVE w \in ToSet(J)
        BY <3>2, <3>4, <4>2 DEF J
      <4> QED
        BY <4>1, <4>2 DEF J
    <3> QED
      BY <3>5 DEF M
  <2> QED
    BY <1>3, <2>2
<1>5. ASSUME NEW u \in D, u # c PROVE Of(e, u) = Of(d, u)
  <2>1. /\ e.var[u].type = d.var[u].type /\ e.var[u].head = d.var[u].head
        /\ u \in g.in /\ u \in h.in
    BY <1>1, <1>5 DEF Attached
  <2>2. ASSUME NEW w \in ToSet(Of(d, u)) PROVE e.var[w].next = d.var[w].next
    <3>1. w \in g.in \ g.roots /\ g.own[w] = u
      BY <1>1, <2>1, OfIs
    <3>2. w # d.var[c].tail
      <4>1. d.var[c].tail # NullSlot => g.own[d.var[c].tail] = c
        BY <1>1, TailIs
      <4>2. w # NullSlot
        BY <1>1, <3>1, TreeFacts, Sizes
      <4> QED
        BY <1>5, <3>1, <4>1, <4>2
    <3> QED
      BY <3>1, <3>2 DEF Attached
  <2> QED
    BY <1>1, <2>1, <2>2, OfKept
<1>6. ASSUME NEW u \in D PROVE Is(e, u) = Is(d, u) /\ Proper(e, u)
  <2>1. e.var[u].type = d.var[u].type /\ e.var[u].str = d.var[u].str
    BY <1>1 DEF Attached
  <2>2. CASE d.var[u].type = "ext"
    <3>1. e.var[u].head = d.var[u].head
      BY <1>1, <2>2 DEF Attached, Collection
    <3>2. ASSUME NEW z \in g.in \ D, Bare(d, z) PROVE Bare(e, z)
      <4>1. z # d.var[c].tail
        <5>1. d.var[c].tail # NullSlot => d.var[c].tail \in g.in \ g.roots /\ g.own[d.var[c].tail] = c
          BY <1>1, TailIs
        <5>2. NullSlot \notin g.in
          BY <1>1, TreeFacts, Sizes
        <5> QED
          BY <5>1, <5>2, <1>f DEF Within
      <4>2. z # c
        OBVIOUS
      <4> QED
        BY <3>2, <4>1, <4>2 DEF Attached, Bare
    <3> QED
      BY <2>1, <3>1, <3>2, ValueKept
  <2>3. CASE d.var[u].type # "ext"
    <3>1. Proper(d, u)
      BY DEF Seen, Shows
    <3> QED
      BY <2>1, <2>3, <3>1 DEF Proper, Is
  <2> QED
    BY <2>2, <2>3
<1>7. ASSUME NEW u \in ToSet(K)
      PROVE  /\ u \notin D /\ Proper(e, u) /\ Of(e, u) = << >>
             /\ Is(e, u) = IF u = K[1] THEN x ELSE "null"
  <2>1. PICK i \in 1..Len(K) : K[i] = u
    BY DEF ToSet
  <2>2. u \notin D /\ u \in h.in
    BY <1>1
  <2>3. Proper(e, u) /\ (e.var[u].type \in Collection => e.var[u].head = NullSlot)
    BY <2>1 DEF Leaves
  <2>4. Of(e, u) = << >>
    BY <1>1, <2>2, <2>3, KidsInTree DEF Of
  <2>5. Is(e, u) = IF u = K[1] THEN x ELSE "null"
    BY <2>1 DEF OthersBlank
  <2> QED
    BY <2>2, <2>3, <2>4, <2>5
<1>8. ToSet(<< >>) = {}
  BY DEF ToSet
<1>9. ASSUME NEW u \in E PROVE Proper(e, u) /\ ToSet(Of(e, u)) \subseteq E
  <2>1. CASE u \in D
    <3>1. ToSet(Of(d, u)) \subseteq D
      BY <2>1 DEF Seen, Shows
    <3> QED
      BY <1>4, <1>5, <1>6, <2>1, <3>1
  <2>2. CASE u \in ToSet(K)
    BY <1>7, <1>8, <2>2
  <2> QED
    BY <2>1, <2>2
<1>10. ASSUME NEW w \in E \ {Root} PROVE \E u \in E : w \in ToSet(Of(e, u))
  <2>1. CASE w \in D
    <3>1. PICK u \in D : w \in ToSet(Of(d, u))
      BY <2>1 DEF Seen, Shows
    <3> QED
      BY <1>4, <1>5, <3>1
  <2>2. CASE w \in ToSet(K)
    BY <1>4, <2>2
  <2> QED
    BY <2>1, <2>2
<1>11. Seen(e, h, E)
  BY <1>1, <1>9, <1>10 DEF Seen, Shows
<1>12. DOMAIN Shape(d, D) = D /\ \A u \in D : Shape(d, D)[u] = [is |-> Is(d, u), of |-> Of(d, u)]
  BY DEF Shape
<1>13. GrownBy(Shape(d, D), c, K, x) =
         [u \in E |-> IF u = c THEN [is |-> Is(d, c), of |-> Of(d, c) \o K]
                      ELSE IF u \in D THEN [is |-> Is(d, u), of |-> Of(d, u)]
                      ELSE Document!Node(IF u = K[1] THEN x ELSE "null")]
  <2> DEFINE t == Shape(d, D)
  <2>1. DOMAIN t = D /\ t[c].is = Is(d, c) /\ t[c].of = Of(d, c)
    BY <1>12
  <2>2. \A u \in D : t[u] = [is |-> Is(d, u), of |-> Of(d, u)]
    BY <1>12
  <2> HIDE DEF t
  <2> QED
    BY <2>1, <2>2 DEF GrownBy, t
<1>14. ASSUME NEW u \in E
       PROVE  [is |-> Is(e, u), of |-> Of(e, u)]
                = IF u = c THEN [is |-> Is(d, c), of |-> Of(d, c) \o K]
                  ELSE IF u \in D THEN [is |-> Is(d, u), of |-> Of(d, u)]
                  ELSE Document!Node(IF u = K[1] THEN x ELSE "null")
  <2>1. CASE u \in D
    BY <1>3, <1>5, <1>6, <2>1
  <2>2. CASE u \in ToSet(K)
    BY <1>7, <2>2 DEF Document!Node
  <2> QED
    BY <2>1, <2>2
<1> QED
  BY <1>11, <1>13, <1>14 DEF Shape

\* What is not in the tree does not show.
LEMMA SameShown ==
  ASSUME NEW d, NEW g, NEW D, Seen(d, g, D), NEW e, NEW h, Good(e, h), D \subseteq h.in,
         \A u \in g.in : e.var[u] = d.var[u]
  PROVE  Seen(e, h, D) /\ Shape(e, D) = Shape(d, D)
<1>f. Within(d, g, D)
  BY SeenFacts
<1>1. Tree(d, g) /\ Tree(e, h) /\ D \subseteq g.in /\ Root \in D
  BY <1>f DEF Within, Good
<1>2. ASSUME NEW u \in D PROVE Of(e, u) = Of(d, u) /\ Is(e, u) = Is(d, u) /\ Proper(e, u)
  <2>1. e.var[u] = d.var[u] /\ u \in g.in /\ u \in h.in
    BY <1>1
  <2>2. ToSet(Of(d, u)) \subseteq g.in
    BY <1>1 DEF Seen, Shows
  <2>3. \A w \in ToSet(Of(d, u)) : e.var[w].next = d.var[w].next
    BY <2>2
  <2>4. Of(e, u) = Of(d, u)
    BY <1>1, <2>1, <2>3, OfKept
  <2>5. \A x \in g.in \ D : Bare(d, x) => Bare(e, x)
    BY DEF Bare
  <2> QED
    BY <2>1, <2>4, <2>5, ValueKept
<1>3. Shape(e, D) = Shape(d, D)
  BY <1>2 DEF Shape
<1>4. /\ \A u \in D : ToSet(Of(d, u)) \subseteq D
      /\ \A w \in D \ {Root} : \E u \in D : w \in ToSet(Of(d, u))
  BY DEF Seen, Shows
<1>5. Shows(e, D)
  BY <1>1, <1>2, <1>4 DEF Shows
<1> QED
  BY <1>3, <1>5 DEF Seen

LEMMA OneSlot ==
  ASSUME NEW x \in Slots
  PROVE  <<x>> \in Seq(Slots) /\ <<x>> # << >> /\ Len(<<x>>) = 1 /\ <<x>>[1] = x /\ ToSet(<<x>>) = {x}
BY DEF ToSet

LEMMA TwoSlots ==
  ASSUME NEW x \in Slots, NEW y \in Slots
  PROVE  /\ <<x, y>> \in Seq(Slots) /\ <<x, y>> # << >> /\ Len(<<x, y>>) = 2
         /\ <<x, y>>[1] = x /\ <<x, y>>[2] = y /\ ToSet(<<x, y>>) = {x, y}
<1>1. ToSet(<<x, y>>) = {<<x, y>>[i] : i \in 1..2}
  BY DEF ToSet
<1>2. 1..2 = {1, 2}
  OBVIOUS
<1> QED
  BY <1>1, <1>2

\* A leaf is appended, which may hold a number with a second slot.
LEMMA OneAttached ==
  ASSUME NEW d, NEW g, Good(d, g), NEW c \in g.in, d.var[c].type \in Collection,
         NEW f \in Documents, \A u \in g.in : f.var[u] = d.var[u],
         NEW id \in Slots \ g.in, f.var[id].next = NullSlot, f.var[id].head # id,
         f.var[id].head \notin g.in, Proper(f, id),
         f.var[id].type \in Collection => f.var[id].head = NullSlot
  PROVE  LET e == AppendOne(f, c, id) IN
         /\ Attached(d, g, c, <<id>>, e) /\ Leaves(e, <<id>>)
         /\ Is(e, id) = Is(f, id) /\ (e.overflowed <=> f.overflowed)
         /\ \A u \in Nodes : e.var[u].type = f.var[u].type
<1> DEFINE e == AppendOne(f, c, id)
           t == f.var[c].tail
<1>1. /\ g.in \subseteq Nodes /\ c \in Nodes /\ id \in Nodes /\ t = d.var[c].tail /\ id # c
      /\ NullSlot \notin Nodes
  BY TreeFacts, Sizes DEF Good
<1>2. /\ Rewired(f, e)
      /\ \A u \in Nodes :
           /\ e.var[u].head = IF u = c /\ t = NullSlot THEN id ELSE f.var[u].head
           /\ e.var[u].next = IF u = t THEN id ELSE f.var[u].next
  BY <1>1, AppendFields DEF AppendOne
<1> HIDE DEF e
<1>3. /\ t = NullSlot <=> d.var[c].head = NullSlot
      /\ t # NullSlot => t \in g.in
  BY <1>1, TailIs DEF Good, Tails
<1> HIDE DEF t
<1>4. /\ \A u \in Nodes : e.var[u].type = f.var[u].type /\ e.var[u].str = f.var[u].str
      /\ e.overflowed <=> f.overflowed
  BY <1>2 DEF Rewired, SameMemory
<1>5. Attached(d, g, c, <<id>>, e)
  <2>1. <<id>>[1] = id
    OBVIOUS
  <2> QED
    BY <1>1, <1>2, <1>3, <1>4, <2>1 DEF Attached
<1>6. id # t /\ \A x \in Nodes \ g.in : x # t /\ x # c
  BY <1>1, <1>3
<1>7. /\ e.var[id].head = f.var[id].head /\ e.var[id].next = NullSlot
      /\ e.var[id].type = f.var[id].type /\ e.var[id].str = f.var[id].str
  BY <1>1, <1>2, <1>4, <1>6
<1>8. Proper(e, id)
  <2>1. CASE f.var[id].type = "ext"
    <3>1. f.var[id].head # NullSlot /\ Bare(f, f.var[id].head)
      BY <2>1 DEF Proper
    <3>2. f.var[id].head \in Slots
      BY <1>1, <3>1, VarType
    <3>3. f.var[id].head \in Nodes \ g.in
      BY <3>2, Sizes
    <3>4. Bare(e, f.var[id].head)
      BY <1>2, <1>4, <1>6, <3>1, <3>3 DEF Bare
    <3> QED
      BY <1>7, <2>1, <3>1, <3>4 DEF Proper
  <2>2. CASE f.var[id].type # "ext"
    BY <1>7, <2>2 DEF Proper
  <2> QED
    BY <2>1, <2>2
<1>9. Leaves(e, <<id>>)
  BY <1>7, <1>8, OneSlot DEF Leaves
<1> QED
  BY <1>4, <1>5, <1>7, <1>9 DEF e, Is

\* A key is linked to its value, which is the last slot.
LEMMA PairLeaves ==
  ASSUME NEW e, NEW key \in Slots, NEW value \in Slots,
         e.var[key].next = value, e.var[value].next = NullSlot, Proper(e, key), Proper(e, value),
         e.var[key].type \notin Collection, e.var[value].type \notin Collection
  PROVE  Leaves(e, <<key, value>>)
<1> DEFINE K == <<key, value>>
<1>1. Len(K) = 2 /\ K[1] = key /\ K[2] = value
  OBVIOUS
<1> HIDE DEF K
<1>2. \A i \in 1..Len(K) : (i = 1 \/ i = Len(K)) /\ (i = 1 => i # Len(K) /\ i + 1 = 2)
  BY <1>1
<1>3. ASSUME NEW i \in 1..Len(K)
      PROVE  /\ e.var[K[i]].next = IF i = Len(K) THEN NullSlot ELSE K[i + 1]
             /\ Proper(e, K[i])
             /\ e.var[K[i]].type \in Collection => e.var[K[i]].head = NullSlot
  <2>1. CASE i = 1
    <3>1. K[i] = key /\ i # Len(K) /\ K[i + 1] = value
      BY <1>1, <1>2, <2>1
    <3> QED
      BY <3>1
  <2>2. CASE i = Len(K)
    <3>1. K[i] = value
      BY <1>1, <2>2
    <3> QED
      BY <2>2, <3>1
  <2> QED
    BY <1>2, <2>1, <2>2
<1>4. Leaves(e, K)
  BY <1>3 DEF Leaves
<1> QED
  BY <1>4 DEF K

LEMMA AppendLinks ==
  ASSUME NEW d \in Documents, NEW c \in Nodes, NEW first \in Slots, NEW last \in Slots,
         NEW t, t = d.var[c].tail, NEW e, e = Append1(d, c, first, last)
  PROVE  /\ Rewired(d, e)
         /\ \A u \in Nodes : /\ e.var[u].head = IF u = c /\ t = NullSlot THEN first ELSE d.var[u].head
                             /\ e.var[u].next = IF u = t THEN first ELSE d.var[u].next
BY AppendFields

LEMMA PairLinks ==
  ASSUME NEW d \in Documents, NEW c \in Nodes, NEW key \in Slots, NEW value \in Slots,
         NEW t, t = d.var[c].tail, NEW e, e = AppendPair(d, c, key, value)
  PROVE  /\ Rewired(d, e)
         /\ \A u \in Nodes :
              /\ e.var[u].head = IF u = c /\ t = NullSlot THEN key ELSE d.var[u].head
              /\ e.var[u].next = IF u = t THEN key ELSE IF u = key THEN value ELSE d.var[u].next
<1> DEFINE q == [d EXCEPT !.var[key].next = value]
<1>1. key \in Nodes /\ value \in 0..NullSlot
  BY Sizes
<1>2. /\ Rewired(d, q)
      /\ \A u \in Nodes : /\ q.var[u].next = IF u = key THEN value ELSE d.var[u].next
                          /\ q.var[u].head = d.var[u].head /\ q.var[u].tail = d.var[u].tail
  BY <1>1, NextSet
<1>3. e = Append1(q, c, key, value)
  BY DEF AppendPair
<1> HIDE DEF q
<1>4. q \in Documents /\ t = q.var[c].tail
  BY <1>2 DEF Rewired
<1>5. /\ Rewired(q, e)
      /\ \A u \in Nodes : /\ e.var[u].head = IF u = c /\ t = NullSlot THEN key ELSE q.var[u].head
                          /\ e.var[u].next = IF u = t THEN key ELSE q.var[u].next
  BY <1>3, <1>4, AppendLinks
<1>6. Rewired(d, e)
  BY <1>2, <1>5 DEF Rewired, SameMemory
<1> QED
  BY <1>2, <1>5, <1>6

\* What a key is, or will be.
LikeKey(d, u) ==
  d.var[u].type \in {"null", "plain", "owned"} /\ (d.var[u].type = "null" => d.var[u].str = "")

\* The key and the value of a member are appended.
LEMMA PairAttached ==
  ASSUME NEW d, NEW g, Good(d, g), NEW c \in g.in, d.var[c].type \in Collection,
         NEW f \in Documents, \A u \in g.in : f.var[u] = d.var[u],
         NEW key \in Slots \ g.in, NEW value \in Slots \ g.in, key # value,
         f.var[value] = NullVariant, LikeKey(f, key)
  PROVE  LET e == AppendPair(f, c, key, value)
             K == <<key, value>>
         IN /\ Attached(d, g, c, K, e) /\ Leaves(e, K)
            /\ Is(e, key) = Is(f, key) /\ Is(e, value) = "null"
            /\ (e.overflowed <=> f.overflowed)
            /\ \A u \in Nodes : e.var[u].type = f.var[u].type
<1> DEFINE e == AppendPair(f, c, key, value)
           t == f.var[c].tail
           K == <<key, value>>
<1>1. /\ g.in \subseteq Nodes /\ c \in Nodes /\ key \in Nodes /\ value \in Nodes
      /\ t = d.var[c].tail /\ key # c /\ value # c
      /\ NullSlot \notin Nodes /\ value \in 0..NullSlot
  BY TreeFacts, Sizes DEF Good
<1>2. e = AppendPair(f, c, key, value)
  OBVIOUS
<1> HIDE DEF e, t
<1>3. /\ Rewired(f, e)
      /\ \A u \in Nodes :
           /\ e.var[u].head = IF u = c /\ t = NullSlot THEN key ELSE f.var[u].head
           /\ e.var[u].next = IF u = t THEN key ELSE IF u = key THEN value ELSE f.var[u].next
  BY <1>1, <1>2, PairLinks DEF t
<1>4. /\ t = NullSlot <=> d.var[c].head = NullSlot
      /\ t # NullSlot => t \in g.in
  BY <1>1, TailIs DEF Good, Tails
<1>5. /\ \A u \in Nodes : e.var[u].type = f.var[u].type /\ e.var[u].str = f.var[u].str
      /\ e.overflowed <=> f.overflowed
  BY <1>3 DEF Rewired, SameMemory
<1>6. K[1] = key /\ K[2] = value /\ Len(K) = 2
  OBVIOUS
<1>7. Attached(d, g, c, K, e)
  <2> HIDE DEF K
  <2> SUFFICES ASSUME NEW u \in g.in
               PROVE  /\ e.var[u].type = d.var[u].type /\ e.var[u].str = d.var[u].str
                      /\ e.var[u].head = IF u = c /\ d.var[c].head = NullSlot THEN K[1] ELSE d.var[u].head
                      /\ e.var[u].next = IF u = d.var[c].tail THEN K[1] ELSE d.var[u].next
    BY DEF Attached
  <2>1. u \in Nodes /\ u # key /\ f.var[u] = d.var[u]
    BY <1>1
  <2>2. e.var[u].type = d.var[u].type /\ e.var[u].str = d.var[u].str
    BY <1>5, <2>1
  <2>3. e.var[u].head = IF u = c /\ d.var[c].head = NullSlot THEN K[1] ELSE d.var[u].head
    BY <1>3, <1>4, <1>6, <2>1
  <2>4. e.var[u].next = IF u = d.var[c].tail THEN K[1] ELSE d.var[u].next
    BY <1>1, <1>3, <1>6, <2>1
  <2> QED
    BY <2>2, <2>3, <2>4
<1>8. key # t /\ value # t
  BY <1>1, <1>4
<1>9. /\ e.var[key].next = value /\ e.var[value].next = NullSlot
       /\ e.var[key].type = f.var[key].type /\ e.var[key].str = f.var[key].str
       /\ e.var[value].type = "null" /\ e.var[value].str = "" /\ e.var[value].head = NullSlot
  BY <1>1, <1>3, <1>5, <1>8, NullFields
<1>10. Proper(e, key) /\ Proper(e, value)
  BY <1>9 DEF Proper, LikeKey
<1>11. Leaves(e, K)
  <2>1. e.var[key].type \notin Collection /\ e.var[value].type \notin Collection
    BY <1>9 DEF Collection, LikeKey
  <2> QED
    BY <1>9, <1>10, <2>1, PairLeaves
<1>12. Is(e, key) = Is(f, key) /\ Is(e, value) = "null"
  BY <1>9 DEF Is
<1> QED
  BY <1>5, <1>7, <1>11, <1>12 DEF e

\* Memory ran out, and what d shows is what it showed.
RanOut(d, g, D, e, h) ==
  Seen(e, h, D) /\ h.roots = g.roots /\ e.overflowed /\ Shape(e, D) = Shape(d, D)

\* c has the new slots K.
Sprung(d, g, D, c, K, x, e, h) ==
  /\ K \in Seq(Slots) /\ K # << >> /\ ToSet(K) \cap g.in = {} /\ g.in \cup ToSet(K) \subseteq h.in
  /\ h.roots = g.roots /\ (e.overflowed <=> d.overflowed)
  /\ Seen(e, h, D \cup ToSet(K)) /\ Shape(e, D \cup ToSet(K)) = GrownBy(Shape(d, D), c, K, x)

SprungBy(d, g, D, c, K, x, e, h) ==
  /\ Seen(d, g, D) /\ c \in D /\ d.var[c].type \in Collection
  /\ K \in Seq(Slots) /\ K # << >> /\ ToSet(K) \cap g.in = {}
  /\ Good(e, h) /\ g.in \subseteq h.in /\ ToSet(K) \subseteq h.in /\ h.roots = g.roots
  /\ (e.overflowed <=> d.overflowed)
  /\ Attached(d, g, c, K, e) /\ Leaves(e, K) /\ Is(e, K[1]) = x /\ OthersBlank(e, K)

LEMMA SprungShown ==
  ASSUME NEW d, NEW g, NEW D, NEW c, NEW K, NEW x, NEW e, NEW h, SprungBy(d, g, D, c, K, x, e, h)
  PROVE  Sprung(d, g, D, c, K, x, e, h)
<1> USE DEF SprungBy
<1>1. /\ Seen(e, h, D \cup ToSet(K))
      /\ Shape(e, D \cup ToSet(K)) = GrownBy(Shape(d, D), c, K, x)
  BY GrownShown
<1> QED
  BY <1>1 DEF Sprung

LEMMA OutOfSlots ==
  ASSUME NEW d, NEW g, NEW D, Seen(d, g, D), NEW q \in Alloc(d), q[2] = NullSlot,
         Len(q[1].pools) <= MaxPools
  PROVE  RanOut(d, g, D, q[1], g)
<1>f. Within(d, g, D)
  BY SeenFacts
<1>1. Good(q[1], g) /\ q[1].overflowed /\ q[1].var = d.var
  <2>1. q[2] \notin Slots /\ Good(d, g)
    BY <1>f, Sizes DEF Within
  <2> QED
    BY <2>1, Allocated
<1>2. D \subseteq g.in
  BY <1>f DEF Within
<1> QED
  BY <1>1, <1>2, SameShown DEF RanOut

\* An array has one more element,
LEMMA ElementShown ==
  ASSUME NEW d, NEW g, NEW D, Seen(d, g, D), NEW c \in D, d.var[c].type = "array",
         NEW r \in AddElement(d, c), Len(r[1].pools) <= MaxPools
  PROVE  \E h : IF r[2] = NullSlot THEN RanOut(d, g, D, r[1], h)
                ELSE Sprung(d, g, D, c, <<r[2]>>, "null", r[1], h) /\ r[1].var[r[2]].type = "null"
<1>f. Within(d, g, D)
  BY SeenFacts
<1>1. /\ Good(d, g) /\ c \in g.in /\ d \in Documents /\ g.in \subseteq Nodes /\ PoolsOK(d)
      /\ d.var[c].type \in Collection
  BY <1>f, TreeFacts DEF Within, Good, Collection
<1>2. PICK q \in Alloc(d) :
        r = IF q[2] = NullSlot THEN q ELSE <<AppendOne(q[1], c, q[2]), q[2]>>
  BY DEF AddElement, Then
<1>3. CASE q[2] = NullSlot
  <2>1. r = q
    BY <1>2, <1>3
  <2> QED
    BY <1>3, <2>1, OutOfSlots
<1>4. CASE q[2] # NullSlot
  <2> DEFINE f == q[1]
             id == q[2]
             e == AppendOne(f, c, id)
  <2>1. r[1] = e /\ r[2] = id
    BY <1>2, <1>4
  <2>2. e.pools = f.pools
    BY DEF AppendOne, Append1
  <2> HIDE DEF e, f, id
  <2>3. Len(f.pools) <= MaxPools
    BY <2>1, <2>2
  <2>4. /\ f \in Documents /\ id \in Slots \ g.in /\ f.var[id] = NullVariant
        /\ \A u \in Nodes \ {id} : f.var[u] = d.var[u]
    BY <1>1, <1>4, <2>3, Allocated DEF f, id
  <2>5. f.overflowed <=> d.overflowed
    BY <1>1, <1>4, AllocQuiet DEF f, id
  <2>6. /\ f.var[id].next = NullSlot /\ f.var[id].head = NullSlot /\ f.var[id].type = "null"
        /\ f.var[id].str = "" /\ NullSlot \notin Nodes
    BY <2>4, NullFields, Sizes
  <2>7. Proper(f, id) /\ f.var[id].type \notin Collection /\ Is(f, id) = "null"
    BY <2>6 DEF Proper, Collection, Is
  <2>8. \A u \in g.in : f.var[u] = d.var[u]
    BY <1>1, <2>4
  <2>9. id # NullSlot /\ NullSlot \notin g.in
    BY <1>1, <2>4, <2>6, Sizes
  <2>10. /\ Attached(d, g, c, <<id>>, e) /\ Leaves(e, <<id>>)
         /\ Is(e, id) = "null" /\ (e.overflowed <=> d.overflowed)
    <3>1. /\ f.var[id].head # id /\ f.var[id].head \notin g.in /\ f.var[id].next = NullSlot
          /\ f.var[id].type \in Collection => f.var[id].head = NullSlot
      BY <2>6, <2>7, <2>9
    <3>2. f \in Documents /\ id \in Slots \ g.in /\ Proper(f, id)
      BY <2>4, <2>7
    <3>3. Good(d, g) /\ c \in g.in /\ d.var[c].type \in Collection
      BY <1>1
    <3>4. /\ Attached(d, g, c, <<id>>, e) /\ Leaves(e, <<id>>)
          /\ Is(e, id) = Is(f, id) /\ (e.overflowed <=> f.overflowed)
      BY <2>8, <3>1, <3>2, <3>3, OneAttached DEF e
    <3> QED
      BY <2>5, <2>7, <3>4
  <2>11. PICK h : Keeps(d, g, e, h) /\ Newest(g, e, h, id)
    <3>1. id # NullSlot
      BY <2>9
    <3> QED
      BY <1>1, <2>1, <3>1, ElementAdded
  <2>12. /\ Good(e, h) /\ g.in \subseteq h.in /\ h.roots = g.roots /\ id \in h.in
         /\ e.var[id].type = "null"
    BY <2>11 DEF Keeps, Newest
  <2> DEFINE K == <<id>>
  <2>13. K \in Seq(Slots) /\ K # << >> /\ Len(K) = 1 /\ K[1] = id /\ ToSet(K) = {id}
    BY <2>4, OneSlot
  <2>14. Attached(d, g, c, K, e) /\ Leaves(e, K)
    BY <2>10
  <2> HIDE DEF K
  <2>15. OthersBlank(e, K)
    <3>1. \A i \in 1..Len(K) : ~ (i > 1)
      BY <2>13
    <3> QED
      BY <3>1 DEF OthersBlank
  <2>16. SprungBy(d, g, D, c, K, "null", e, h)
    <3>1. ToSet(K) \cap g.in = {} /\ ToSet(K) \subseteq h.in
      BY <2>4, <2>12, <2>13
    <3> QED
      BY <1>1, <2>10, <2>12, <2>13, <2>14, <2>15, <3>1 DEF SprungBy
  <2>17. Sprung(d, g, D, c, K, "null", e, h)
    BY <2>16, SprungShown
  <2> QED
    BY <2>1, <2>9, <2>12, <2>17 DEF K
<1> QED
  BY <1>3, <1>4

\* The value that a new slot gets.
NewValue(k, id, value, e, f) ==
  /\ (f.overflowed <=> e.overflowed) /\ Is(f, id) = value /\ Proper(f, id)
  /\ f.var[id].type \in Collection => f.var[id].head = NullSlot
  /\ f.var[id].type # "ext" => f.var[id].head = NullSlot
  /\ f.var[id].head \notin k.in

LEMMA NewValueSet ==
  ASSUME NEW e, NEW k, Good(e, k), NEW id \in k.in \ {Root}, e.var[id] = NullVariant,
         NEW value \in AllValues, NEW z \in Set(e, id, value), Len(z[1].pools) <= MaxPools
  PROVE  /\ \A u \in k.in \ {id} : z[1].var[u] = e.var[u]
         /\ z[1].var[id].next = NullSlot
         /\ \/ z[2] = NullSlot /\ z[1].overflowed /\ z[1].var[id].head = NullSlot
            \/ z[2] = id /\ NewValue(k, id, value, e, z[1])
<1> DEFINE c == Clear(e, id)
           g == Without(k, Below(e, id))
<1>1. /\ e \in Documents /\ id \in Nodes /\ k \in Places /\ k.in \subseteq Nodes
      /\ e.var[id].head = NullSlot /\ e.var[id].next = NullSlot /\ NullSlot \notin Nodes
  BY TreeFacts, NullFields, Sizes DEF Good
<1>2. Below(e, id) = {}
  BY <1>1, NothingBelow
<1>3. Good(c, g) /\ g.in = k.in
  <2>1. Good(c, g)
    BY Cleared
  <2>2. g.in = k.in \ Below(e, id)
    BY <1>1, WithoutFields
  <2> QED
    BY <1>2, <2>1, <2>2
<1>4. Emptied(e, id, c) /\ c.var[id].str = ""
  BY <1>1, ClearFields, ClearBlank
<1>5. z \in SetNull(c, id, value)
  BY DEF Set
<1> HIDE DEF c, g
<1>6. /\ \A u \in Nodes \ {id} : c.var[u] = e.var[u]
      /\ c.var[id].head = NullSlot /\ c.var[id].next = NullSlot /\ (c.overflowed <=> e.overflowed)
  BY <1>1, <1>4 DEF Emptied, SameMemory
<1>7. c.var[id].type = "null"
  BY <1>4 DEF Emptied
<1>8. \/ z[2] = NullSlot /\ z[1].overflowed /\ z[1].var = c.var
      \/ z[2] = id /\ Written(c, g, id, value, z[1])
  BY <1>3, <1>5, <1>7, NullWritten
<1>9. CASE z[2] = NullSlot /\ z[1].overflowed /\ z[1].var = c.var
  BY <1>1, <1>6, <1>9
<1>10. CASE z[2] = id /\ Written(c, g, id, value, z[1])
  <2> DEFINE f == z[1]
  <2> HIDE DEF f
  <2>1. /\ (f.overflowed <=> e.overflowed) /\ Is(f, id) = value
        /\ \A u \in k.in \ {id} : f.var[u] = e.var[u]
        /\ f.var[id].next = NullSlot
    BY <1>1, <1>3, <1>6, <1>10 DEF Written, f
  <2>2. CASE f.var[id].type = "ext"
    <3>1. f.var[id].head \in Slots \ k.in /\ f.var[f.var[id].head] = NullVariant
      BY <1>3, <1>10, <2>2 DEF Written, f
    <3>2. f.var[id].head # NullSlot /\ Bare(f, f.var[id].head)
      BY <3>1, NullFields, Sizes DEF Bare
    <3>3. f.var[id].type \notin Collection /\ f.var[id].type \notin {"plain", "owned"}
      BY <2>2 DEF Collection
    <3>4. f.var[id].str = ""
      BY <1>4, <1>10, <3>3 DEF Written, f
    <3>5. Proper(f, id)
      BY <3>2, <3>4 DEF Proper
    <3>6. NewValue(k, id, value, e, f)
      BY <2>1, <2>2, <3>1, <3>3, <3>5 DEF NewValue
    <3> QED
      BY <1>10, <2>1, <3>6 DEF f
  <2>3. CASE f.var[id].type # "ext"
    <3>1. f.var[id].head = NullSlot
      BY <1>6, <1>10, <2>3 DEF Written, f
    <3>2. f.var[id].type \notin {"plain", "owned"} => f.var[id].str = ""
      BY <1>4, <1>10 DEF Written, f
    <3>3. Proper(f, id)
      BY <2>3, <3>2 DEF Proper
    <3>4. f.var[id].head \notin k.in
      BY <1>1, <3>1
    <3>5. NewValue(k, id, value, e, f)
      BY <2>1, <3>1, <3>3, <3>4 DEF NewValue
    <3> QED
      BY <1>10, <2>1, <3>5 DEF f
  <2> QED
    BY <2>2, <2>3
<1> QED
  BY <1>8, <1>9, <1>10

\* with a value, or the slot was given back.
LEMMA ValueShown ==
  ASSUME NEW d, NEW g, NEW D, Seen(d, g, D), NEW c \in D, d.var[c].type = "array",
         NEW value \in AllValues, NEW r \in AddValue(d, c, value), Len(r[1].pools) <= MaxPools
  PROVE  \E h : IF r[2] = NullSlot THEN RanOut(d, g, D, r[1], h)
                ELSE Sprung(d, g, D, c, <<r[2]>>, value, r[1], h)
<1>f. Within(d, g, D)
  BY SeenFacts
<1>1. /\ Good(d, g) /\ c \in g.in /\ d \in Documents /\ g \in Places /\ g.in \subseteq Nodes /\ PoolsOK(d)
      /\ d.var[c].type \in Collection /\ g.roots \subseteq g.in /\ D \subseteq g.in /\ Shaped(d) /\ c \in Nodes
  BY <1>f, TreeFacts, ShapedDocument DEF Within, Good, Collection
<1>2. PICK q \in Alloc(d) :
        IF q[2] = NullSlot THEN r = q
        ELSE \E z \in Set(q[1], q[2], value) :
               r = IF z[2] = NullSlot \/ (value \in Long \cup Short /\ z[1].overflowed)
                   THEN <<FreeVariant(z[1], q[2]), NullSlot>>
                   ELSE <<AppendOne(z[1], c, q[2]), q[2]>>
  BY DEF AddValue, Then
<1>3. CASE q[2] = NullSlot
  <2>1. r = q
    BY <1>2, <1>3
  <2> QED
    BY <1>3, <2>1, OutOfSlots
<1>4. CASE q[2] # NullSlot
  <2> DEFINE e == q[1]
             id == q[2]
             k == With(g, id)
  <2>1. PICK z \in Set(e, id, value) :
          r = IF z[2] = NullSlot \/ (value \in Long \cup Short /\ z[1].overflowed)
              THEN <<FreeVariant(z[1], id), NullSlot>>
              ELSE <<AppendOne(z[1], c, id), id>>
    BY <1>2, <1>4
  <2> DEFINE f == z[1]
             back == z[2] = NullSlot \/ (value \in Long \cup Short /\ z[1].overflowed)
  <2>2. Grows(d, e) /\ Shaped(e)
    BY <1>1, AllocGrows DEF Grows
  <2>3. Grows(e, f) /\ Shaped(f)
    BY <2>2, SetGrows DEF Grows
  <2>4. Grows(f, r[1])
    <3>1. Grows(f, FreeVariant(f, id)) /\ Grows(f, AppendOne(f, c, id))
      BY <2>3, FreeGrows, AppendGrows DEF AppendOne
    <3>2. r[1] = FreeVariant(f, id) \/ r[1] = AppendOne(f, c, id)
      BY <2>1
    <3> QED
      BY <3>1, <3>2
  <2>5. Len(e.pools) <= MaxPools /\ Len(f.pools) <= MaxPools
    <3>1. /\ Len(e.pools) \in Nat /\ Len(f.pools) \in Nat /\ Len(r[1].pools) \in Nat
          /\ MaxPools \in Nat /\ Len(e.pools) <= Len(f.pools) /\ Len(f.pools) <= Len(r[1].pools)
      BY <2>2, <2>3, <2>4, ShapedLen, MaxPoolsIs DEF Grows
    <3> QED
      BY <3>1
  <2>6. /\ id \in Slots \ g.in /\ Good(e, k) /\ e.var[id] = NullVariant
        /\ \A u \in Nodes \ {id} : e.var[u] = d.var[u]
    BY <1>1, <1>4, <2>5, Allocated
  <2>7. e.overflowed <=> d.overflowed
    BY <1>1, <1>4, AllocQuiet
  <2>8. z[1] = f /\ Len(z[1].pools) <= MaxPools
    BY <2>5
  <2> HIDE DEF e, id, k, f
  <2>9. /\ k \in Places /\ k.in = g.in \cup {id} /\ k.roots = g.roots \cup {id}
        /\ k.rank[id] = g.top /\ \A u \in Nodes \ {id} : k.rank[u] = g.rank[u]
    BY <1>1, <2>6, WithFields DEF k
  <2>10. id \in k.in \ {Root} /\ id # Root /\ id \in Nodes /\ id \notin g.roots /\ id # NullSlot
    BY <1>1, <2>6, <2>9, Sizes
  <2>11. /\ \A u \in k.in \ {id} : f.var[u] = e.var[u]
         /\ f.var[id].next = NullSlot
         /\ \/ z[2] = NullSlot /\ f.overflowed /\ f.var[id].head = NullSlot
            \/ z[2] = id /\ NewValue(k, id, value, e, f)
    BY <2>6, <2>8, <2>10, NewValueSet
  <2>12. Below(e, id) = {}
    <3>1. e \in Documents /\ e.var[id].head = NullSlot
      BY <2>6, NullFields DEF Good, Tree
    <3> QED
      BY <2>10, <3>1, NothingBelow
  <2>13. PICK h : /\ Good(f, h) /\ k.in \subseteq h.in /\ h.roots = k.roots
                  /\ \A u \in k.in : h.rank[u] = k.rank[u]
    <3>1. Len(z[1].pools) <= MaxPools /\ Good(e, k) /\ id \in k.in
      BY <2>8, <2>6, <2>10
    <3>2. \E h : /\ Good(f, h) /\ k.in \ Below(e, id) \subseteq h.in /\ h.roots = k.roots
                 /\ \A u \in k.in \ Below(e, id) : h.rank[u] = k.rank[u]
      BY <2>8, <3>1, VariantSet
    <3> QED
      BY <2>12, <3>2
  <2>14. id \in h.roots \ {Root} /\ h.roots \ {id} = g.roots /\ f \in Documents /\ h \in Places
         /\ id \in h.in
    BY <2>9, <2>10, <2>13 DEF Good, Tree
  <2>15. \A u \in g.in : u # id /\ u \in Nodes /\ g.rank[u] < g.top /\ f.var[u] = d.var[u]
    BY <1>1, <2>6, <2>9, <2>11 DEF Good, Tree, Forest
  <2>16. CASE back
    <3> DEFINE j == Without(Without(h, Below(f, id)), {id})
               p == FreeVariant(f, id)
    <3>1. f.var[id].head = NullSlot /\ f.overflowed
      <4>1. CASE z[2] = NullSlot
        BY <2>10, <2>11, <4>1
      <4>2. CASE z[2] # NullSlot
        <5>1. value \in Long \cup Short /\ f.overflowed /\ Is(f, id) = value
              /\ (f.var[id].type # "ext" => f.var[id].head = NullSlot)
          BY <2>11, <2>16, <4>2 DEF NewValue, f
        <5>2. f.var[id].type # "ext"
          BY <5>1, StringsAssumption DEF Is
        <5> QED
          BY <5>1, <5>2
      <4> QED
        BY <4>1, <4>2
    <3>2. Below(f, id) = {}
      BY <2>10, <2>14, <3>1, NothingBelow
    <3>3. Good(p, j) /\ \A u \in Nodes \ {id} : p.var[u] = f.var[u]
      <4>1. Good(f, h) /\ id \in h.roots \ {Root}
        BY <2>13, <2>14
      <4>2. Good(p, j)
        BY <4>1, Freed
      <4>3. \A u \in Nodes \ {id} : p.var[u] = f.var[u]
        BY <4>1, Freed
      <4> QED
        BY <4>2, <4>3
    <3>4. j.roots = g.roots /\ j.in = h.in \ {id}
      <4> DEFINE m == Without(h, Below(f, id))
      <4>1. m \in Places /\ m.in = h.in /\ m.roots = h.roots
        <5>1. h \in Places
          BY <2>14
        <5>2. m \in Places /\ m.in = h.in \ Below(f, id) /\ m.roots = h.roots \ Below(f, id)
          BY <5>1, WithoutFields
        <5> QED
          BY <3>2, <5>2
      <4>2. j = Without(m, {id})
        OBVIOUS
      <4> HIDE DEF m, j
      <4>3. j.in = m.in \ {id} /\ j.roots = m.roots \ {id}
        BY <4>1, <4>2, WithoutFields
      <4> QED
        BY <2>14, <4>1, <4>3
    <3>5. p.overflowed
      BY <2>6, <2>14, <3>1, FreeFields DEF SameMemory
    <3>6. r[1] = p /\ r[2] = NullSlot
      BY <2>1, <2>16 DEF f
    <3> HIDE DEF j, p
    <3>7. \A u \in g.in : p.var[u] = d.var[u]
      BY <2>15, <3>3
    <3>8. D \subseteq j.in
      BY <1>1, <2>9, <2>13, <2>15, <3>4
    <3>9. Seen(p, j, D) /\ Shape(p, D) = Shape(d, D)
      BY <3>3, <3>7, <3>8, SameShown
    <3> QED
      BY <3>4, <3>5, <3>6, <3>9 DEF RanOut
  <2>17. CASE ~ back
    <3> DEFINE p == AppendOne(f, c, id)
               K == <<id>>
    <3>1. d.var[c].tail # NullSlot => d.var[c].tail \in g.in
      BY <1>1, TailIs
    <3>2. /\ f.var[c].type = "array" /\ f.var[c].tail = d.var[c].tail /\ c \in h.in
          /\ \A u \in g.in : h.rank[u] < h.rank[id]
      BY <1>1, <2>9, <2>13, <2>15
    <3>3. PICK j : /\ Good(p, j) /\ j.in = h.in
                   /\ \A u : u \in j.roots <=> u \in h.roots \ {id}
      BY <1>1, <2>13, <2>14, <3>1, <3>2, ElementAppended
    <3>4. j.roots = g.roots
      BY <2>14, <3>3
    <3>5. NewValue(k, id, value, e, f)
      BY <2>11, <2>17
    <3>6. /\ f.var[id].head # id /\ f.var[id].head \notin g.in /\ f.var[id].next = NullSlot
          /\ f.var[id].type \in Collection => f.var[id].head = NullSlot
          /\ Proper(f, id) /\ Is(f, id) = value /\ (f.overflowed <=> d.overflowed)
      BY <2>7, <2>9, <2>11, <3>5 DEF NewValue
    <3>7. f \in Documents /\ id \in Slots \ g.in /\ \A u \in g.in : f.var[u] = d.var[u]
      BY <2>6, <2>14, <2>15
    <3>8. /\ Attached(d, g, c, <<id>>, p) /\ Leaves(p, <<id>>)
          /\ Is(p, id) = Is(f, id) /\ (p.overflowed <=> f.overflowed)
      BY <1>1, <3>6, <3>7, OneAttached
    <3>9. K \in Seq(Slots) /\ K # << >> /\ Len(K) = 1 /\ K[1] = id /\ ToSet(K) = {id}
      BY <2>6, OneSlot
    <3>10. Attached(d, g, c, K, p) /\ Leaves(p, K)
      BY <3>8
    <3>11. r[1] = p /\ r[2] = id
      BY <2>1, <2>17 DEF f
    <3> HIDE DEF p, K
    <3>12. OthersBlank(p, K)
      <4>1. \A i \in 1..Len(K) : ~ (i > 1)
        BY <3>9
      <4> QED
        BY <4>1 DEF OthersBlank
    <3>13. SprungBy(d, g, D, c, K, value, p, j)
      <4>1. ToSet(K) \cap g.in = {} /\ ToSet(K) \subseteq j.in /\ g.in \subseteq j.in
        BY <2>6, <2>9, <2>13, <2>14, <3>3, <3>9
      <4>2. Is(p, K[1]) = value /\ (p.overflowed <=> d.overflowed)
        BY <3>6, <3>8, <3>9
      <4> QED
        BY <1>1, <3>3, <3>4, <3>9, <3>10, <3>12, <4>1, <4>2 DEF SprungBy
    <3>14. Sprung(d, g, D, c, K, value, p, j)
      BY <3>13, SprungShown
    <3> QED
      BY <2>10, <3>11, <3>14 DEF K
  <2> QED
    BY <2>16, <2>17
<1> QED
  BY <1>3, <1>4

\* The slots of a member change nothing until they are linked to the object.
LEMMA TwoQuiet ==
  ASSUME NEW d, NEW g, Good(d, g), NEW q \in Alloc(d), q[2] # NullSlot,
         NEW p \in Alloc(q[1]), Len(p[1].pools) <= MaxPools
  PROVE  /\ \A u \in g.in : p[1].var[u] = d.var[u]
         /\ p[2] = NullSlot => p[1].overflowed
         /\ p[2] # NullSlot => (p[1].overflowed <=> d.overflowed)
<1> DEFINE e == q[1]
           key == q[2]
           f == p[1]
           j == With(g, key)
<1>1. /\ d \in Documents /\ g.in \subseteq Nodes /\ g \in Places /\ PoolsOK(d) /\ Shaped(d)
  BY TreeFacts, ShapedDocument DEF Good
<1>2. Grows(d, e) /\ Shaped(e)
  BY <1>1, AllocGrows DEF Grows
<1>3. Grows(e, f) /\ Shaped(f)
  BY <1>2, AllocGrows DEF Grows
<1>4. Len(e.pools) <= MaxPools /\ Len(f.pools) <= MaxPools
  <2>1. /\ Len(e.pools) \in Nat /\ Len(f.pools) \in Nat /\ MaxPools \in Nat
        /\ Len(e.pools) <= Len(f.pools)
    BY <1>2, <1>3, ShapedLen, MaxPoolsIs DEF Grows
  <2> QED
    BY <2>1
<1>5. /\ key \in Slots \ g.in /\ Good(e, j)
      /\ \A u \in Nodes \ {key} : e.var[u] = d.var[u]
  BY <1>4, Allocated
<1>6. e.overflowed <=> d.overflowed
  BY <1>1, AllocQuiet
<1>7. e \in Documents /\ PoolsOK(e)
  BY <1>5, TreeFacts DEF Good
<1> HIDE DEF e, key, j
<1>8. p \in Alloc(e)
  BY DEF e
<1>9. j.in = g.in \cup {key}
  BY <1>1, <1>5, WithFields DEF j
<1>10. \A u \in g.in : u # key /\ u \in Nodes /\ u \in j.in
  BY <1>1, <1>5, <1>9
<1>11. \/ p[2] = NullSlot /\ f.overflowed /\ f.var = e.var
       \/ p[2] \in Slots \ j.in /\ \A u \in Nodes \ {p[2]} : f.var[u] = e.var[u]
  BY <1>4, <1>5, <1>8, Allocated
<1>12. p[2] # NullSlot => (f.overflowed <=> e.overflowed)
  BY <1>7, <1>8, AllocQuiet
<1> HIDE DEF f
<1>13. \A u \in g.in : f.var[u] = d.var[u]
  BY <1>5, <1>10, <1>11
<1>14. NullSlot \notin Slots
  BY Sizes
<1> QED
  BY <1>6, <1>11, <1>12, <1>13, <1>14 DEF f

\* They become a member, which is the last of its object.
LEMMA HeldShown ==
  ASSUME NEW d, NEW g, NEW D, Seen(d, g, D), NEW c \in D, d.var[c].type = "object",
         NEW f, NEW k, NEW key, NEW value, Held(d, g, f, k, key, value), LikeKey(f, key),
         f.overflowed <=> d.overflowed, NEW x, Is(f, key) = x,
         NEW e, e = AppendPair(f, c, key, value)
  PROVE  /\ e.var[key].next = value
         /\ \E h : Sprung(d, g, D, c, <<key, value>>, x, e, h) /\ e.var[value].type = "null"
<1>f. Within(d, g, D)
  BY SeenFacts
<1>1. Good(d, g) /\ c \in g.in /\ d.var[c].type \in Collection
  BY <1>f DEF Within, Collection
<1>2. /\ f \in Documents /\ key \in Slots \ g.in /\ value \in Slots \ g.in /\ key # value
      /\ f.var[value] = NullVariant /\ \A u \in g.in : f.var[u] = d.var[u]
  BY TreeFacts DEF Held, Good
<1> DEFINE K == <<key, value>>
<1>3. /\ Attached(d, g, c, <<key, value>>, e) /\ Leaves(e, <<key, value>>)
      /\ Is(e, key) = Is(f, key) /\ Is(e, value) = "null" /\ (e.overflowed <=> f.overflowed)
  BY <1>1, <1>2, PairAttached
<1>4. /\ e.var[key].next = value
      /\ \E h : Keeps(d, g, e, h) /\ Newest(g, e, h, value) /\ key \in h.in
  BY <1>1, MemberHeld
<1>5. PICK h : Keeps(d, g, e, h) /\ Newest(g, e, h, value) /\ key \in h.in
  BY <1>4
<1>6. /\ Good(e, h) /\ g.in \subseteq h.in /\ h.roots = g.roots /\ key \in h.in /\ value \in h.in
      /\ e.var[value].type = "null"
  BY <1>5 DEF Keeps, Newest
<1>7. /\ K \in Seq(Slots) /\ K # << >> /\ Len(K) = 2 /\ K[1] = key /\ K[2] = value
      /\ ToSet(K) = {key, value}
  BY <1>2, TwoSlots
<1>8. Attached(d, g, c, K, e) /\ Leaves(e, K)
  BY <1>3
<1> HIDE DEF K
<1>9. OthersBlank(e, K)
  <2>1. \A i \in 1..Len(K) : i > 1 => i = 2
    BY <1>7
  <2> QED
    BY <1>3, <1>7, <2>1 DEF OthersBlank
<1>10. SprungBy(d, g, D, c, K, x, e, h)
  <2>1. ToSet(K) \cap g.in = {} /\ ToSet(K) \subseteq h.in
    BY <1>2, <1>6, <1>7
  <2>2. Is(e, K[1]) = x /\ (e.overflowed <=> d.overflowed)
    BY <1>3, <1>7
  <2> QED
    BY <1>1, <1>6, <1>7, <1>8, <1>9, <2>1, <2>2 DEF SprungBy
<1>11. Sprung(d, g, D, c, K, x, e, h)
  BY <1>10, SprungShown
<1> QED
  BY <1>4, <1>6, <1>11 DEF K

\* The slots of a member that was not completed are lost.
LEMMA KeptRanOut ==
  ASSUME NEW d, NEW g, NEW D, Seen(d, g, D), NEW e, NEW h, Keeps(d, g, e, h),
         \A u \in g.in : e.var[u] = d.var[u], e.overflowed
  PROVE  RanOut(d, g, D, e, h)
<1>1. D \subseteq g.in
  BY DEF Seen
<1>2. Good(e, h) /\ D \subseteq h.in /\ h.roots = g.roots
  BY <1>1 DEF Keeps
<1>3. Seen(e, h, D) /\ Shape(e, D) = Shape(d, D)
  BY <1>2, SameShown
<1> QED
  BY <1>2, <1>3 DEF RanOut

\* The deserializer adds a member that has no key yet.
LEMMA PairShown ==
  ASSUME NEW d, NEW g, NEW D, Seen(d, g, D), NEW c \in D, d.var[c].type = "object",
         NEW r \in AddPair(d, c), Len(r[1].pools) <= MaxPools
  PROVE  \E h : IF r[2] = NullSlot THEN RanOut(d, g, D, r[1], h)
                ELSE \E value : /\ Sprung(d, g, D, c, <<r[2], value>>, "null", r[1], h)
                                /\ r[1].var[r[2]].next = value /\ r[1].var[value].type = "null"
                                /\ r[1].var[r[2]].type = "null"
<1>f. Within(d, g, D)
  BY SeenFacts
<1>1. Good(d, g)
  BY <1>f DEF Within
<1>2. PICK q \in Alloc(d) :
        IF q[2] = NullSlot THEN r = q
        ELSE \E p \in Alloc(q[1]) :
               r = IF p[2] = NullSlot THEN p ELSE <<AppendPair(p[1], c, q[2], p[2]), q[2]>>
  BY DEF AddPair, Then
<1>3. CASE q[2] = NullSlot
  <2>1. r = q
    BY <1>2, <1>3
  <2> QED
    BY <1>3, <2>1, OutOfSlots
<1>4. CASE q[2] # NullSlot
  <2>1. PICK p \in Alloc(q[1]) :
          r = IF p[2] = NullSlot THEN p ELSE <<AppendPair(p[1], c, q[2], p[2]), q[2]>>
    BY <1>2, <1>4
  <2>2. CASE p[2] = NullSlot
    <3>1. r = p
      BY <2>1, <2>2
    <3>2. Len(p[1].pools) <= MaxPools
      BY <3>1
    <3>3. PICK h : Keeps(d, g, p[1], h)
      BY <1>1, <1>4, <2>2, <3>2, TwoTaken
    <3>4. p[1].overflowed /\ \A u \in g.in : p[1].var[u] = d.var[u]
      BY <1>1, <1>4, <2>2, <3>2, TwoQuiet
    <3>5. RanOut(d, g, D, p[1], h)
      BY <3>3, <3>4, KeptRanOut
    <3> QED
      BY <2>2, <3>1, <3>5
  <2>3. CASE p[2] # NullSlot
    <3> DEFINE f == p[1]
               key == q[2]
               value == p[2]
               e == AppendPair(f, c, key, value)
    <3>1. r[1] = e /\ r[2] = key
      BY <2>1, <2>3
    <3>2. e.pools = f.pools
      BY DEF AppendPair, Append1
    <3>3. e = AppendPair(f, c, key, value)
      OBVIOUS
    <3> HIDE DEF e
    <3>4. Len(f.pools) <= MaxPools
      BY <3>1, <3>2
    <3>5. f.var[key] = NullVariant /\ \E k : Held(d, g, f, k, key, value)
      BY <1>1, <1>4, <2>3, <3>4, TwoTaken
    <3>6. f.overflowed <=> d.overflowed
      BY <1>1, <1>4, <2>3, <3>4, TwoQuiet
    <3>7. key # NullSlot
      BY <1>4
    <3> HIDE DEF f, key, value
    <3>8. PICK k : Held(d, g, f, k, key, value)
      BY <3>5
    <3>9. LikeKey(f, key) /\ Is(f, key) = "null"
      BY <3>5, NullFields DEF LikeKey, Is
    <3>10. /\ e.var[key].next = value
           /\ \E h : Sprung(d, g, D, c, <<key, value>>, "null", e, h) /\ e.var[value].type = "null"
      BY <3>3, <3>6, <3>8, <3>9, HeldShown
    <3>11. PICK h : Sprung(d, g, D, c, <<key, value>>, "null", e, h) /\ e.var[value].type = "null"
      BY <3>10
    <3>12. e.var[key].type = "null"
      <4>1. e.var[key].type = f.var[key].type
        BY <1>1, <3>3, <3>8, <1>f, MemberHeld DEF Within
      <4> QED
        BY <3>5, <4>1, NullFields
    <3> QED
      BY <3>1, <3>7, <3>10, <3>11, <3>12
  <2> QED
    BY <2>2, <2>3
<1> QED
  BY <1>3, <1>4

\* A program adds one.
LEMMA MemberShown ==
  ASSUME NEW d, NEW g, NEW D, Seen(d, g, D), NEW c \in D, d.var[c].type = "object",
         NEW s \in Strings, FindKey(d, c, s) = NullSlot,
         NEW r \in GetOrAddMember(d, c, s), Len(r[1].pools) <= MaxPools
  PROVE  \E h : IF r[2] = NullSlot THEN RanOut(d, g, D, r[1], h)
                ELSE \E key : /\ Sprung(d, g, D, c, <<key, r[2]>>, s, r[1], h)
                              /\ r[1].var[r[2]].type = "null"
<1>f. Within(d, g, D)
  BY SeenFacts
<1>1. Good(d, g) /\ c \in g.in /\ d \in Documents /\ g.in \subseteq Nodes
  BY <1>f, TreeFacts DEF Within
<1>2. PICK q \in Alloc(d) :
        IF q[2] = NullSlot THEN r = q
        ELSE \E p \in Alloc(q[1]) :
               IF p[2] = NullSlot THEN r = p
               ELSE \E z \in SetString(p[1], q[2], s) :
                      r = IF z[2] = NullSlot THEN z
                          ELSE <<AppendPair(z[1], c, q[2], p[2]), p[2]>>
  BY DEF GetOrAddMember, Then
<1>3. CASE q[2] = NullSlot
  <2>1. r = q
    BY <1>2, <1>3
  <2> QED
    BY <1>3, <2>1, OutOfSlots
<1>4. CASE q[2] # NullSlot
  <2>1. PICK p \in Alloc(q[1]) :
          IF p[2] = NullSlot THEN r = p
          ELSE \E z \in SetString(p[1], q[2], s) :
                 r = IF z[2] = NullSlot THEN z
                     ELSE <<AppendPair(z[1], c, q[2], p[2]), p[2]>>
    BY <1>2, <1>4
  <2>2. CASE p[2] = NullSlot
    <3>1. r = p
      BY <2>1, <2>2
    <3>2. Len(p[1].pools) <= MaxPools
      BY <3>1
    <3>3. PICK h : Keeps(d, g, p[1], h)
      BY <1>1, <1>4, <2>2, <3>2, TwoTaken
    <3>4. p[1].overflowed /\ \A u \in g.in : p[1].var[u] = d.var[u]
      BY <1>1, <1>4, <2>2, <3>2, TwoQuiet
    <3>5. RanOut(d, g, D, p[1], h)
      BY <3>3, <3>4, KeptRanOut
    <3> QED
      BY <2>2, <3>1, <3>5
  <2>3. CASE p[2] # NullSlot
    <3> DEFINE f == p[1]
               key == q[2]
               value == p[2]
    <3>1. PICK z \in SetString(f, key, s) :
            r = IF z[2] = NullSlot THEN z ELSE <<AppendPair(z[1], c, key, value), value>>
      BY <2>1, <2>3
    <3> DEFINE w == z[1]
               e == AppendPair(w, c, key, value)
    <3>2. r[1] = (IF z[2] = NullSlot THEN w ELSE e) /\ r[2] = IF z[2] = NullSlot THEN NullSlot ELSE value
      BY <3>1
    <3>3. e = AppendPair(w, c, key, value) /\ z[1] = w /\ e.pools = w.pools
      BY DEF AppendPair, Append1
    <3> HIDE DEF w, e
    <3>4. Shaped(f)
      <4>1. Shaped(q[1])
        BY <1>1, ShapedDocument, AllocGrows DEF Grows
      <4> QED
        BY <4>1, AllocGrows DEF Grows
    <3>5. Grows(f, w)
      <4> HIDE DEF f, key
      <4> QED
        BY <3>3, <3>4, StringGrows
    <3>6. Len(f.pools) <= MaxPools
      <4>1. Len(w.pools) <= MaxPools
        BY <3>2, <3>3
      <4>2. Len(f.pools) \in Nat /\ Len(w.pools) \in Nat /\ MaxPools \in Nat /\ Len(f.pools) <= Len(w.pools)
        BY <3>4, <3>5, ShapedLen, MaxPoolsIs DEF Grows
      <4> QED
        BY <4>1, <4>2
    <3>7. f.var[key] = NullVariant /\ \E k : Held(d, g, f, k, key, value)
      BY <1>1, <1>4, <2>3, <3>6, TwoTaken
    <3>8. f.overflowed <=> d.overflowed
      BY <1>1, <1>4, <2>3, <3>6, TwoQuiet
    <3>9. value # NullSlot /\ key # NullSlot
      BY <1>4, <2>3
    <3> HIDE DEF f, key, value
    <3>10. PICK k : Held(d, g, f, k, key, value)
      BY <3>7
    <3>11. key \in k.in /\ f.var[key].type = "null" /\ Good(f, k)
      BY <3>7, <3>10, NullFields DEF Held
    <3>12. /\ Good(w, k) /\ \A u \in Nodes \ {key} : w.var[u] = f.var[u]
           /\ z[2] = NullSlot => w.overflowed /\ w.var = f.var
           /\ z[2] \in {key, NullSlot}
      BY <3>3, <3>11, StringSet
    <3>13. Held(d, g, w, k, key, value)
      BY <1>1, <3>10, <3>12, Sizes DEF Held
    <3>14. CASE z[2] = NullSlot
      <4>1. PICK h : Keeps(d, g, w, h)
        BY <1>1, <3>7, <3>12, <3>13, <3>14, HeldLeaked
      <4>2. w.overflowed /\ \A u \in g.in : w.var[u] = d.var[u]
        BY <3>12, <3>13, <3>14 DEF Held
      <4>3. RanOut(d, g, D, w, h)
        BY <4>1, <4>2, KeptRanOut
      <4> QED
        BY <3>2, <3>14, <4>3
    <3>15. CASE z[2] # NullSlot
      <4>1. f \in Documents /\ key \in Nodes
        BY <3>11, TreeFacts DEF Good
      <4>2. w = Saved(f, key, s)
        BY <3>1, <3>3, <3>15, <4>1, StringQuiet
      <4>3. /\ w.overflowed <=> f.overflowed
            /\ w.var[key].type \in {"plain", "owned"} /\ w.var[key].str = s
        BY <4>1, <4>2, SavedFields
      <4>4. LikeKey(w, key) /\ Is(w, key) = s /\ (w.overflowed <=> d.overflowed)
        BY <3>8, <4>3 DEF LikeKey, Is
      <4>5. \E h : Sprung(d, g, D, c, <<key, value>>, s, e, h) /\ e.var[value].type = "null"
        BY <3>3, <3>13, <4>4, HeldShown
      <4> QED
        BY <3>2, <3>9, <3>15, <4>5
    <3> QED
      BY <3>14, <3>15
  <2> QED
    BY <2>2, <2>3
<1> QED
  BY <1>3, <1>4

\* What is shown of a value is a string when the value is that string.
LEMMA StringIsShown ==
  ASSUME NEW d, NEW g, NEW D, Seen(d, g, D), NEW u \in D, NEW s \in Strings
  PROVE  Is(d, u) = s <=> d.var[u].str = s
<1>1. Proper(d, u)
  BY DEF Seen, Shows
<1>2. s \notin {"", "null", "ext", "array", "object"}
  BY StringsAssumption DEF Strings
<1>3. d.var[u].type \in Types
  <2>1. d \in Documents /\ u \in Nodes
    BY SeenFacts DEF Within
  <2> QED
    BY <2>1, VarType
<1> QED
  BY <1>1, <1>2, <1>3 DEF Is, Proper, Types

\* Whether an object has a member, and where.
LEMMA KeyShown ==
  ASSUME NEW d, NEW g, NEW D, Seen(d, g, D), NEW c \in D, d.var[c].type = "object",
         NEW s \in Strings
  PROVE  LET key == FindKey(d, c, s)
             keys == Document!KeysAt(Shape(d, D), c, s)
         IN /\ keys = {} <=> key = NullSlot
            /\ key # NullSlot =>
                 \E i \in keys : /\ i \in 1..Len(Of(d, c)) /\ i + 1 \in 1..Len(Of(d, c))
                                 /\ Of(d, c)[i] = key /\ Of(d, c)[i + 1] = d.var[key].next
<1> DEFINE K == Kids(d, c)
           hits == {i \in DOMAIN K : i % 2 = 1 /\ d.var[K[i]].str = s}
           keys == Document!KeysAt(Shape(d, D), c, s)
           key == FindKey(d, c, s)
<1>f. Within(d, g, D)
  BY SeenFacts
<1>1. Tree(d, g) /\ Alternating(d, g) /\ c \in g.in
  BY <1>f DEF Within, Good
<1>2. Of(d, c) = K /\ K \in Seq(D \ {Root})
  BY <1>f DEF Within, Of, Collection
<1>3. Shape(d, D)[c].of = K /\ \A u \in D : Shape(d, D)[u].is = Is(d, u)
  BY <1>2 DEF Shape
<1>4. key = IF hits = {} THEN NullSlot ELSE K[Min(hits)]
  BY DEF FindKey
<1>5. /\ K \in Seq(Slots) /\ Len(K) \in Nat /\ DOMAIN K = 1..Len(K)
      /\ \A i \in 1..Len(K) : K[i] \in g.in \ g.roots /\ K[i] \in Slots
      /\ \A i \in 1..Len(K) : i % 2 = 1 => g.role[K[i]] = "key"
      /\ \A i \in 1..Len(K) : d.var[K[i]].next = IF i = Len(K) THEN NullSlot ELSE K[i + 1]
  <2>1. /\ K \in Seq(Slots) /\ \A i \in 1..Len(K) : K[i] \in g.in \ g.roots
    BY <1>1, KidsInTree
  <2>2. \A i \in 1..Len(K) : i % 2 = 1 => g.role[K[i]] = "key"
    BY <1>1, KidsAlternate
  <2>3. Chain(d, c, K)
    BY <1>1, KidsChain
  <2>4. \A i \in 1..Len(K) : d.var[K[i]].next = IF i = Len(K) THEN NullSlot ELSE K[i + 1]
    BY <2>3 DEF Chain
  <2> QED
    BY <2>1, <2>2, <2>4
<1> HIDE DEF K
<1>6. hits = keys
  <2>1. \A i \in DOMAIN K : K[i] \in D
    <3>1. K \in Seq(D \ {Root})
      BY <1>2
    <3> QED
      BY <3>1
  <2>2. \A i \in DOMAIN K : Is(d, K[i]) = s <=> d.var[K[i]].str = s
    BY <2>1, StringIsShown
  <2>3. keys = {i \in DOMAIN K : i % 2 = 1 /\ Shape(d, D)[K[i]].is = s}
    BY <1>3 DEF Document!KeysAt
  <2> HIDE DEF keys
  <2> QED
    BY <1>3, <2>1, <2>2, <2>3
<1> HIDE DEF key, keys
<1>7. ASSUME hits # {}
      PROVE  \E i \in hits : i \in 1..Len(K) /\ i + 1 \in 1..Len(K) /\ K[i] = key /\ K[i + 1] = d.var[key].next
  <2> DEFINE i == Min(hits)
  <2>1. i \in hits
    <3>1. hits \subseteq DOMAIN K
      OBVIOUS
    <3> HIDE DEF hits
    <3>2. DOMAIN K \subseteq Nat
      <4>1. DOMAIN K = 1..Len(K) /\ Len(K) \in Nat
        BY <1>5
      <4> QED
        BY <4>1
    <3>3. hits \in SUBSET Nat
      BY <3>1, <3>2
    <3> QED
      BY <1>7, <3>3, MinIs
  <2>2. key = K[i]
    BY <1>4, <1>7
  <2>3. i \in 1..Len(K) /\ i % 2 = 1
    BY <1>5, <2>1
  <2> HIDE DEF i, hits
  <2>4. g.role[K[i]] = "key" /\ K[i] \in g.in
    BY <1>5, <2>3
  <2>5. d.var[K[i]].next # NullSlot
    BY <1>1, <2>4 DEF Alternating
  <2>6. i # Len(K)
    BY <1>5, <2>3, <2>5
  <2>7. i + 1 \in 1..Len(K) /\ K[i + 1] = d.var[K[i]].next
    <3>1. i \in 1..Len(K) /\ Len(K) \in Nat
      BY <1>5, <2>3
    <3>2. i + 1 \in 1..Len(K)
      BY <2>6, <3>1
    <3>3. d.var[K[i]].next = K[i + 1]
      BY <1>5, <2>6, <3>1
    <3> QED
      BY <3>2, <3>3
  <2> QED
    BY <2>1, <2>2, <2>3, <2>7
<1>8. hits # {} <=> key # NullSlot
  <2>1. hits # {} => key \in Slots
    BY <1>5, <1>7
  <2>2. hits = {} => key = NullSlot
    BY <1>4
  <2> HIDE DEF hits
  <2> QED
    BY <2>1, <2>2, Sizes
<1> HIDE DEF hits
<1> QED
  BY <1>2, <1>6, <1>7, <1>8 DEF keys, key

-----------------------------------------------------------------------------
(***************************************************************************)
(* Elements and members that go                                            *)
(***************************************************************************)
\* Only collections have values below them.
LEMMA NothingShownBelow ==
  ASSUME NEW d, NEW g, NEW D, Seen(d, g, D), NEW v \in D, d.var[v].type \notin Collection
  PROVE  D \cap Below(d, v) = {}
<1> DEFINE X == D \cap Below(d, v)
           S == {n \in Nat : \A w \in X : g.rank[w] >= n}
<1>f. Within(d, g, D)
  BY SeenFacts
<1>1. \A w \in Below(d, v) : w \in g.in \ g.roots /\ g.own[w] \in Below(d, v) \cup {v}
  BY <1>f, BelowInTree DEF Within
<1>2. \A w \in X : g.own[w] \in X /\ g.rank[w] \in Nat /\ g.rank[g.own[w]] \in Nat
                   /\ g.rank[g.own[w]] < g.rank[w]
  <2> SUFFICES ASSUME NEW w \in X
               PROVE  g.own[w] \in X /\ g.rank[w] \in Nat /\ g.rank[g.own[w]] \in Nat
                      /\ g.rank[g.own[w]] < g.rank[w]
    OBVIOUS
  <2>1. w \in g.in \ g.roots /\ g.own[w] \in D /\ d.var[g.own[w]].type \in Collection
    BY <1>1, <1>f DEF Within
  <2>2. g.own[w] \in X
    BY <1>1, <2>1
  <2>3. g.rank[g.own[w]] < g.rank[w]
    BY <1>f, <2>1 DEF Within, Tree, Forest
  <2> QED
    BY <1>f, <2>2, <2>3, TreeFacts DEF Within
<1> HIDE DEF X
<1>3. 0 \in S
  BY <1>2
<1>4. ASSUME NEW n \in Nat, n \in S PROVE n + 1 \in S
  <2>1. \A w \in X : g.rank[g.own[w]] >= n
    BY <1>2, <1>4
  <2> QED
    BY <1>2, <2>1
<1>5. Nat \subseteq S
  <2> HIDE DEF S
  <2> QED
    BY <1>3, <1>4, SetInduction
<1>6. ASSUME NEW w \in X PROVE FALSE
  <2>1. g.rank[w] + 1 \in S
    BY <1>2, <1>5
  <2> QED
    BY <1>2, <2>1
<1> QED
  BY <1>6 DEF X

\* What is left of K when m slots are cut out at i.
CutFrom(K, i, m) == [n \in 1 .. Len(K) - m |-> IF n < i THEN K[n] ELSE K[n + m]]

\* The links after first and last have been cut out.
LinksCut(d, g, first, last, e, h) ==
  /\ h.in = g.in \ {first, last} /\ h.roots = g.roots /\ h.own = g.own
  /\ first \in g.in \ g.roots /\ last \in g.in \ g.roots /\ first # NullSlot
  /\ \A u \in g.in \ {first, last} :
       /\ e.var[u].type = d.var[u].type /\ e.var[u].str = d.var[u].str
       /\ e.var[u].head = IF d.var[u].head = first THEN d.var[last].next ELSE d.var[u].head
       /\ e.var[u].next = IF d.var[u].next = first THEN d.var[last].next ELSE d.var[u].next
       /\ d.var[u].head = first \/ d.var[u].next = first => u = g.up[first]

LEMMA UnlinkedLinks ==
  ASSUME NEW d, NEW g, Tree(d, g), NEW first, NEW last, NEW e, NEW h,
         Unlinked(d, g, first, last, e, h)
  PROVE  LinksCut(d, g, first, last, e, h)
<1>1. first \in g.in \ g.roots /\ last \in g.in \ g.roots /\ first # NullSlot
  <2>1. first \in g.in \ g.roots /\ last \in g.in \ g.roots
    BY DEF Unlinked, CutOut
  <2> QED
    BY <2>1, TreeFacts, Sizes
<1>2. h.in = g.in \ {first, last} /\ h.roots = g.roots /\ h.own = g.own
  BY DEF Unlinked, CutOut
<1>3. ASSUME NEW u \in g.in, d.var[u].head = first \/ d.var[u].next = first
      PROVE  u = g.up[first]
  BY <1>1, <1>3 DEF Tree, Forest, Linked
<1>4. ASSUME NEW u \in g.in \ {first, last}
      PROVE  /\ e.var[u].type = d.var[u].type /\ e.var[u].str = d.var[u].str
             /\ e.var[u].head = IF d.var[u].head = first THEN d.var[last].next ELSE d.var[u].head
             /\ e.var[u].next = IF d.var[u].next = first THEN d.var[last].next ELSE d.var[u].next
  <2>1. e.var[u].type = d.var[u].type /\ e.var[u].str = d.var[u].str
    BY DEF Unlinked
  <2>2. LET p == g.up[first] IN
        /\ e.var[u].head = IF u = p /\ d.var[p].head = first THEN d.var[last].next ELSE d.var[u].head
        /\ e.var[u].next = IF u = p /\ d.var[p].next = first THEN d.var[last].next ELSE d.var[u].next
    BY DEF Unlinked, CutOut
  <2> QED
    BY <1>3, <2>1, <2>2
<1> QED
  BY <1>1, <1>2, <1>3, <1>4 DEF LinksCut

\* No slot is twice in a collection.
LEMMA KidsApart ==
  ASSUME NEW d, NEW g, Tree(d, g), NEW c \in g.in
  PROVE  \A i, j \in 1..Len(Kids(d, c)) : Kids(d, c)[i] = Kids(d, c)[j] => i = j
<1> DEFINE K == Kids(d, c)
           Upto(n) == \A j \in 1..Len(K) : j <= n =>
                        \A i \in 1..Len(K) : i < j => g.rank[K[i]] < g.rank[K[j]]
           S == {n \in Nat : Upto(n)}
<1>1. K \in Seq(Slots) /\ Len(K) \in Nat /\ \A i \in 1..Len(K) : g.rank[K[i]] \in Nat /\ K[i] \in g.in
  <2>1. K \in Seq(Slots) /\ \A i \in 1..Len(K) : K[i] \in g.in
    BY KidsInTree
  <2> QED
    BY <2>1, TreeFacts
<1>2. \A i \in 1..Len(K) - 1 : g.rank[K[i]] < g.rank[K[i + 1]]
  <2> SUFFICES ASSUME NEW i \in 1..Len(K) - 1 PROVE g.rank[K[i]] < g.rank[K[i + 1]]
    OBVIOUS
  <2>1. i \in 1..Len(K) /\ i + 1 \in 1..Len(K)
    BY <1>1
  <2>2. K[i + 1] = d.var[K[i]].next
    BY KidsInTree
  <2>3. K[i + 1] \in Slots /\ K[i] \in g.in
    BY <1>1, <2>1
  <2> HIDE DEF K
  <2> QED
    BY <2>2, <2>3, Sizes DEF Tree, Forest, Linked
<1> HIDE DEF K
<1>3. 0 \in S
  BY <1>1
<1>4. ASSUME NEW n \in Nat, n \in S PROVE n + 1 \in S
  <2> SUFFICES ASSUME NEW j \in 1..Len(K), j <= n + 1, NEW i \in 1..Len(K), i < j
               PROVE  g.rank[K[i]] < g.rank[K[j]]
    OBVIOUS
  <2>1. CASE j <= n
    BY <1>4, <2>1
  <2>2. CASE ~ (j <= n)
    <3>1. j = n + 1 /\ n \in 1..Len(K) /\ n \in 1..Len(K) - 1 /\ (i = n \/ i < n)
      BY <1>1, <2>2
    <3>2. g.rank[K[n]] < g.rank[K[j]]
      BY <1>2, <3>1
    <3>3. i < n => g.rank[K[i]] < g.rank[K[n]]
      BY <1>4, <3>1
    <3> QED
      BY <1>1, <3>1, <3>2, <3>3
  <2> QED
    BY <2>1, <2>2
<1>5. Nat \subseteq S
  <2> HIDE DEF S
  <2> QED
    BY <1>3, <1>4, SetInduction
<1>6. ASSUME NEW i \in 1..Len(K), NEW j \in 1..Len(K), K[i] = K[j] PROVE i = j
  <2>1. Upto(i) /\ Upto(j)
    <3>1. i \in S /\ j \in S
      <4> HIDE DEF S
      <4>1. i \in Nat /\ j \in Nat
        BY <1>1
      <4> QED
        BY <1>5, <4>1
    <3> QED
      BY <3>1
  <2>2. ~ (i < j) /\ ~ (j < i)
    BY <1>1, <1>6, <2>1
  <2> QED
    BY <1>1, <2>2
<1> QED
  BY <1>6 DEF K

\* One slot, or a pair, of K at i.
CutAt(K, i, m, first, last) ==
  /\ m \in {1, 2} /\ i \in 1..Len(K) /\ i + m - 1 \in 1..Len(K)
  /\ first = K[i] /\ last = K[i + m - 1]

LEMMA CutFromIs ==
  ASSUME NEW K \in Seq(Slots), NEW i \in 1..Len(K), NEW m \in {1, 2}, i + m - 1 \in 1..Len(K)
  PROVE  LET M == CutFrom(K, i, m) IN
         /\ M \in Seq(Slots) /\ Len(M) = Len(K) - m
         /\ \A n \in 1..Len(M) : /\ n < i => n \in 1..Len(K) /\ M[n] = K[n]
                                 /\ ~ (n < i) => n + m \in 1..Len(K) /\ M[n] = K[n + m]
<1>1. Len(K) \in Nat /\ Len(K) - m \in Nat /\ \A n \in 1..Len(K) : K[n] \in Slots
  OBVIOUS
<1> DEFINE M == CutFrom(K, i, m)
<1>2. ASSUME NEW n \in 1..Len(K) - m
      PROVE  n \in 1..Len(K) /\ n + m \in 1..Len(K)
  BY <1>1
<1>3. M \in [1..Len(K) - m -> Slots]
  BY <1>1, <1>2 DEF CutFrom
<1>4. M \in Seq(Slots) /\ Len(M) = Len(K) - m
  BY <1>1, <1>3
<1> QED
  BY <1>2, <1>4 DEF CutFrom

\* The collection that was cut.
LEMMA CutChain ==
  ASSUME NEW d, NEW g, Tree(d, g), NEW first, NEW last, NEW e, NEW h, Tree(e, h),
         LinksCut(d, g, first, last, e, h), NEW c \in h.in, NEW i, NEW m,
         CutAt(Kids(d, c), i, m, first, last)
  PROVE  Kids(e, c) = CutFrom(Kids(d, c), i, m)
<1> DEFINE K == Kids(d, c)
           M == CutFrom(K, i, m)
           next == d.var[last].next
<1>1. c \in g.in \ {first, last}
  BY DEF LinksCut
<1>2. /\ K \in Seq(Slots) /\ Len(K) \in Nat /\ \A n \in 1..Len(K) : K[n] \in g.in /\ K[n] \in Slots
      /\ d.var[c].head = IF K = << >> THEN NullSlot ELSE K[1]
      /\ \A n \in 1..Len(K) : d.var[K[n]].next = IF n = Len(K) THEN NullSlot ELSE K[n + 1]
      /\ \A n, j \in 1..Len(K) : K[n] = K[j] => n = j
  <2>1. Chain(d, c, K)
    BY <1>1, KidsChain
  <2>2. \A n \in 1..Len(K) : K[n] \in g.in
    BY <1>1, KidsInTree
  <2> QED
    BY <1>1, <2>1, <2>2, KidsApart DEF Chain
<1> HIDE DEF K
<1>3. /\ m \in {1, 2} /\ i \in 1..Len(K) /\ i + m - 1 \in 1..Len(K)
      /\ first = K[i] /\ last = K[i + m - 1] /\ first # NullSlot
  BY DEF CutAt, LinksCut, K
<1>4. /\ M \in Seq(Slots) /\ Len(M) = Len(K) - m
      /\ \A n \in 1..Len(M) : /\ n < i => n \in 1..Len(K) /\ M[n] = K[n]
                              /\ ~ (n < i) => n + m \in 1..Len(K) /\ M[n] = K[n + m]
  <2>1. K \in Seq(Slots) /\ i \in 1..Len(K) /\ m \in {1, 2} /\ i + m - 1 \in 1..Len(K)
    BY <1>2, <1>3
  <2> HIDE DEF M
  <2> QED
    BY <2>1, CutFromIs DEF M
<1>5. /\ e.var[c].head = IF d.var[c].head = first THEN next ELSE d.var[c].head
      /\ \A u \in g.in \ {first, last} :
           e.var[u].next = IF d.var[u].next = first THEN next ELSE d.var[u].next
  BY <1>1 DEF LinksCut
<1>6. next = IF i + m - 1 = Len(K) THEN NullSlot ELSE K[i + m]
  <2>1. i + m - 1 + 1 = i + m
    BY <1>2, <1>3
  <2> QED
    BY <1>2, <1>3, <2>1
<1> HIDE DEF next, M
<1>7. e.var[c].head = IF M = << >> THEN NullSlot ELSE M[1]
  <2>1. K # << >> /\ 1 \in 1..Len(K)
    BY <1>2, <1>3
  <2>2. CASE i = 1
    <3>1. e.var[c].head = next
      BY <1>2, <1>3, <1>5, <2>1, <2>2
    <3>2. M = << >> <=> m = Len(K)
      <4>1. M = << >> <=> Len(M) = 0
        BY <1>4
      <4>2. Len(M) = Len(K) - m /\ Len(K) \in Nat /\ m \in Nat
        BY <1>2, <1>3, <1>4
      <4> HIDE DEF M
      <4> QED
        BY <4>1, <4>2
    <3>3. i + m - 1 = m /\ i + m = 1 + m
      BY <1>3, <2>2
    <3>4. M # << >> => M[1] = K[1 + m]
      <4>1. M # << >> => 1 \in 1..Len(M)
        BY <1>4
      <4>2. ~ (1 < i)
        BY <2>2
      <4> QED
        BY <1>4, <4>1, <4>2
    <3> QED
      BY <1>6, <3>1, <3>2, <3>3, <3>4
  <2>3. CASE i # 1
    <3>1. e.var[c].head = K[1]
      BY <1>2, <1>3, <1>5, <2>1, <2>3
    <3>2. 1 < i /\ 1 \in 1..Len(M)
      BY <1>2, <1>3, <1>4, <2>3
    <3>3. M # << >> /\ M[1] = K[1]
      BY <1>4, <3>2
    <3> QED
      BY <3>1, <3>3
  <2> QED
    BY <2>2, <2>3
<1>8. ASSUME NEW n \in 1..Len(M)
      PROVE  e.var[M[n]].next = IF n = Len(M) THEN NullSlot ELSE M[n + 1]
  <2>1. n \in Nat /\ n <= Len(M) /\ i \in Nat /\ m \in Nat /\ Len(M) = Len(K) - m
    BY <1>2, <1>3, <1>4
  <2>2. CASE n < i
    <3>1. n \in 1..Len(K) /\ M[n] = K[n] /\ n # Len(K) /\ n # i /\ n # i + m - 1 /\ n + 1 \in 1..Len(K)
      BY <1>2, <1>3, <1>4, <2>1, <2>2
    <3>2. K[n] \in g.in \ {first, last}
      BY <1>2, <1>3, <3>1
    <3>3. d.var[K[n]].next = K[n + 1]
      BY <1>2, <3>1
    <3>4. CASE n + 1 = i
      <4>1. e.var[K[n]].next = next
        BY <1>3, <1>5, <3>2, <3>3, <3>4
      <4>2. n = Len(M) <=> i + m - 1 = Len(K)
        <5>1. Len(K) \in Nat
          BY <1>2
        <5> QED
          BY <2>1, <3>4, <5>1
      <4>3. n # Len(M) => n + 1 \in 1..Len(M) /\ ~ (n + 1 < i) /\ n + 1 + m = i + m
        <5>1. Len(K) \in Nat /\ Len(M) \in Nat
          BY <1>2, <1>4
        <5> QED
          BY <2>1, <3>4, <5>1
      <4>4. n # Len(M) => M[n + 1] = K[i + m]
        BY <1>4, <4>3
      <4> QED
        BY <1>6, <3>1, <4>1, <4>2, <4>4
    <3>5. CASE n + 1 # i
      <4>1. e.var[K[n]].next = K[n + 1]
        BY <1>2, <1>3, <1>5, <3>1, <3>2, <3>3, <3>5
      <4>2. n + 1 < i /\ n # Len(M) /\ n + 1 \in 1..Len(M)
        BY <1>2, <1>3, <2>1, <2>2, <3>5
      <4>3. M[n + 1] = K[n + 1]
        BY <1>4, <4>2
      <4> QED
        BY <3>1, <4>1, <4>2, <4>3
    <3> QED
      BY <3>4, <3>5
  <2>3. CASE ~ (n < i)
    <3>1. n + m \in 1..Len(K) /\ M[n] = K[n + m] /\ n + m # i /\ n + m # i + m - 1 /\ n + m + 1 # i
      BY <1>2, <1>3, <1>4, <2>1, <2>3
    <3>2. K[n + m] \in g.in \ {first, last}
      BY <1>2, <1>3, <3>1
    <3>3. d.var[K[n + m]].next = IF n + m = Len(K) THEN NullSlot ELSE K[n + m + 1]
      BY <1>2, <3>1
    <3>4. n + m # Len(K) => n + m + 1 \in 1..Len(K)
      BY <1>2, <3>1
    <3>5. d.var[K[n + m]].next # first
      BY <1>2, <1>3, <3>1, <3>3, <3>4
    <3>6. e.var[K[n + m]].next = d.var[K[n + m]].next
      BY <1>5, <3>2, <3>5
    <3>7. n = Len(M) <=> n + m = Len(K)
      BY <1>2, <2>1
    <3>8. n # Len(M) => n + 1 \in 1..Len(M) /\ ~ (n + 1 < i) /\ n + 1 + m = n + m + 1
      <4>1. Len(M) \in Nat
        BY <1>4
      <4> QED
        BY <2>1, <2>3, <4>1
    <3>9. n # Len(M) => M[n + 1] = K[n + m + 1]
      BY <1>4, <3>8
    <3> QED
      BY <3>1, <3>3, <3>6, <3>7, <3>9
  <2> QED
    BY <2>2, <2>3
<1>9. Chain(e, c, M)
  BY <1>4, <1>7, <1>8 DEF Chain
<1> QED
  BY <1>9, KidsAre DEF M, K

\* The tree without the nodes that were cut out of c, which has the nodes L.
Trimmed(t, E, c, L) == [u \in E |-> IF u = c THEN [is |-> t[c].is, of |-> L] ELSE t[u]]

CutBy(d, g, D, c, i, m, first, last, e, h) ==
  /\ Seen(d, g, D) /\ c \in D \ {first, last} /\ d.var[c].type \in Collection
  /\ CutAt(Of(d, c), i, m, first, last)
  /\ d.var[first].type \notin Collection /\ d.var[last].type \notin Collection
  /\ Good(e, h) /\ Unlinked(d, g, first, last, e, h)

CutOff(d, D, c, i, m, first, last, e, h) ==
  LET E == D \ {first, last} IN
  /\ Seen(e, h, E) /\ (e.overflowed <=> d.overflowed)
  /\ Shape(e, E) = Trimmed(Shape(d, D), E, c, CutFrom(Of(d, c), i, m))
  /\ ToSet(Of(d, c)) \ ToSet(Of(e, c)) = {first, last} /\ {first, last} \subseteq D

LEMMA CutShown ==
  ASSUME NEW d, NEW g, NEW D, NEW c, NEW i, NEW m, NEW first, NEW last, NEW e, NEW h,
         CutBy(d, g, D, c, i, m, first, last, e, h)
  PROVE  CutOff(d, D, c, i, m, first, last, e, h)
<1> DEFINE E == D \ {first, last}
<1>0. Seen(d, g, D) /\ Unlinked(d, g, first, last, e, h) /\ Good(e, h)
  BY DEF CutBy
<1>f. Within(d, g, D)
  BY <1>0, SeenFacts
<1>1. /\ Tree(d, g) /\ Tree(e, h) /\ D \subseteq g.in /\ Root \in D /\ D \subseteq Nodes
      /\ c \in E /\ d.var[c].type \in Collection
      /\ d.var[first].type \notin Collection /\ d.var[last].type \notin Collection
  BY <1>0, <1>f DEF Within, Good, CutBy
<1>2. LinksCut(d, g, first, last, e, h)
  BY <1>0, <1>1, UnlinkedLinks
<1>3. /\ h.in = g.in \ {first, last} /\ h.roots = g.roots /\ h.own = g.own
      /\ first \in g.in \ g.roots /\ last \in g.in \ g.roots /\ first # NullSlot
      /\ \A u \in h.in : e.var[u].type = d.var[u].type /\ e.var[u].str = d.var[u].str
  BY <1>2 DEF LinksCut
<1>4. ASSUME NEW u \in h.in
      PROVE  /\ e.var[u].head = IF d.var[u].head = first THEN d.var[last].next ELSE d.var[u].head
             /\ e.var[u].next = IF d.var[u].next = first THEN d.var[last].next ELSE d.var[u].next
  BY <1>2, <1>3 DEF LinksCut
<1>5. Of(d, c) = Kids(d, c) /\ CutAt(Kids(d, c), i, m, first, last)
  BY <1>1 DEF Of, CutBy
<1>6. \A u \in g.in : \A w : w \in ToSet(Of(d, u)) <=>
                w \in g.in \ g.roots /\ g.own[w] = u /\ d.var[u].type \in Collection
  BY <1>1, OfIs
<1>7. g.own[first] = c /\ g.own[last] = c
  <2>1. Kids(d, c)[i] = first /\ Kids(d, c)[i + m - 1] = last
        /\ i \in 1..Len(Kids(d, c)) /\ i + m - 1 \in 1..Len(Kids(d, c))
    BY <1>5 DEF CutAt
  <2>2. c \in g.in
    BY <1>1
  <2> QED
    BY <1>1, <2>1, <2>2, KidsInTree
<1>8. \A u \in h.in : \A w : w \in ToSet(Of(e, u)) <=>
                w \in h.in \ h.roots /\ h.own[w] = u /\ e.var[u].type \in Collection
  BY <1>1, OfIs
<1>9. E \subseteq h.in /\ Root \in E /\ h.in \subseteq g.in
  <2>1. Root \notin {first, last}
    BY <1>1, <1>3 DEF Tree, Forest
  <2> QED
    BY <1>1, <1>3, <2>1
<1>10. ASSUME NEW u \in E PROVE ToSet(Of(e, u)) = ToSet(Of(d, u)) \ {first, last}
  <2>1. u \in h.in /\ u \in g.in
    BY <1>9
  <2> QED
    BY <1>3, <1>6, <1>8, <2>1
<1>11. ASSUME NEW u \in h.in, u # c PROVE e.var[u].head = d.var[u].head
  <2>1. d.var[u].head # first
    BY <1>1, <1>3, <1>7, <1>9, <1>11 DEF Tree, Forest, Linked
  <2> QED
    BY <1>4, <2>1
<1>12. ASSUME NEW u \in E, u # c PROVE Of(e, u) = Of(d, u)
  <2>1. ASSUME NEW w \in ToSet(Of(d, u)) PROVE e.var[w].next = d.var[w].next
    <3>1. w \in g.in \ g.roots /\ g.own[w] = u
      BY <1>6, <1>9, <2>1
    <3>2. w \in h.in
      BY <1>3, <1>7, <1>12, <3>1
    <3>3. d.var[w].next # first
      BY <1>1, <1>3, <1>7, <1>12, <3>1 DEF Tree, Forest, Linked
    <3> QED
      BY <1>4, <3>2, <3>3
  <2>2. u \in g.in /\ u \in h.in
    BY <1>9
  <2>3. e.var[u].type = d.var[u].type /\ e.var[u].head = d.var[u].head
    BY <1>3, <1>11, <1>12, <2>2
  <2> QED
    BY <1>1, <2>1, <2>2, <2>3, OfKept
<1>13. Of(e, c) = CutFrom(Of(d, c), i, m)
  <2>1. c \in h.in /\ e.var[c].type \in Collection
    BY <1>1, <1>3, <1>9
  <2>2. Kids(e, c) = CutFrom(Kids(d, c), i, m)
    BY <1>1, <1>2, <1>5, <2>1, CutChain
  <2> QED
    BY <1>5, <2>1, <2>2 DEF Of
<1>14. {first, last} \subseteq ToSet(Of(d, c)) /\ {first, last} \subseteq D
  <2>1. {first, last} \subseteq ToSet(Of(d, c))
    BY <1>1, <1>3, <1>6, <1>7
  <2>2. ToSet(Of(d, c)) \subseteq D
    BY <1>0, <1>1 DEF Seen, Shows
  <2> QED
    BY <2>1, <2>2
<1>15. ASSUME NEW x \in g.in \ D, Bare(d, x) PROVE Bare(e, x)
  <2>1. x \in h.in /\ x # c
    BY <1>1, <1>3, <1>14, <1>15
  <2>2. e.var[x].head = d.var[x].head /\ e.var[x].type = d.var[x].type
    BY <1>3, <1>11, <2>1
  <2>3. e.var[x].next = d.var[x].next
    BY <1>3, <1>4, <1>15, <2>1 DEF Bare
  <2> QED
    BY <1>15, <2>2, <2>3 DEF Bare
<1>16. ASSUME NEW u \in E PROVE Is(e, u) = Is(d, u) /\ Proper(e, u)
  <2>1. e.var[u].type = d.var[u].type /\ e.var[u].str = d.var[u].str /\ u \in D
    BY <1>3, <1>9
  <2>2. CASE u # c
    <3>1. e.var[u].head = d.var[u].head
      BY <1>9, <1>11, <2>2
    <3> QED
      BY <1>0, <1>15, <2>1, <3>1, ValueKept
  <2>3. CASE u = c
    <3>1. Proper(d, u)
      BY <1>0 DEF Seen, Shows
    <3>2. e.var[u].type # "ext"
      BY <1>1, <2>1, <2>3 DEF Collection
    <3> QED
      BY <2>1, <3>1, <3>2 DEF Proper, Is
  <2> QED
    BY <2>2, <2>3
<1>17. Shows(e, E)
  <2>1. ASSUME NEW u \in E PROVE ToSet(Of(e, u)) \subseteq E
    <3>1. ToSet(Of(d, u)) \subseteq D
      BY <1>0 DEF Seen, Shows
    <3> QED
      BY <1>10, <3>1
  <2>2. ASSUME NEW w \in E \ {Root} PROVE \E u \in E : w \in ToSet(Of(e, u))
    <3>1. PICK u \in D : w \in ToSet(Of(d, u))
      BY <1>0 DEF Seen, Shows
    <3>2. d.var[u].type \in Collection
      BY <1>1, <1>6, <3>1
    <3>3. u \in E
      BY <1>1, <3>2
    <3> QED
      BY <1>10, <3>1, <3>3
  <2> QED
    BY <1>9, <1>16, <2>1, <2>2 DEF Shows
<1>18. Seen(e, h, E)
  BY <1>0, <1>9, <1>17 DEF Seen
<1>19. Shape(e, E) = Trimmed(Shape(d, D), E, c, CutFrom(Of(d, c), i, m))
  <2> DEFINE L == CutFrom(Of(d, c), i, m)
  <2> HIDE DEF L
  <2>1. /\ \A u \in E : Is(e, u) = Is(d, u)
        /\ \A u \in E \ {c} : Of(e, u) = Of(d, u)
        /\ Of(e, c) = L /\ c \in D
    BY <1>1, <1>12, <1>13, <1>16 DEF L
  <2>2. Shape(e, E) = Trimmed(Shape(d, D), E, c, L)
    BY <2>1 DEF Shape, Trimmed
  <2> QED
    BY <2>2 DEF L
<1>20. e.overflowed <=> d.overflowed
  BY <1>0 DEF Unlinked, SameMemory
<1> QED
  BY <1>1, <1>10, <1>14, <1>18, <1>19, <1>20 DEF CutOff

LEMMA OneCut ==
  ASSUME NEW S, NEW K \in Seq(S), NEW i \in 1..Len(K)
  PROVE  /\ CutFrom(K, i, 1) = Document!RemoveAt(K, i) /\ CutFrom(K, i, 1) \in Seq(S)
         /\ Len(CutFrom(K, i, 1)) = Len(K) - 1
<1>1. Len(K) \in Nat /\ Len(K) - 1 \in Nat /\ \A n \in 1..Len(K) : K[n] \in S
  OBVIOUS
<1> DEFINE a == SubSeq(K, 1, i - 1)
           b == SubSeq(K, i + 1, Len(K))
           M == a \o b
           N == CutFrom(K, i, 1)
<1>2. a \in Seq(S) /\ Len(a) = i - 1 /\ \A n \in 1..i - 1 : a[n] = K[n]
  <2>1. i - 1 \in Nat /\ i - 1 <= Len(K)
    BY <1>1
  <2> QED
    BY <1>1, <2>1
<1>3. b \in Seq(S) /\ Len(b) = Len(K) - i /\ \A n \in 1..Len(K) - i : b[n] = K[n + i]
  <2>1. i \in Nat /\ Len(K) - i \in Nat
    BY <1>1
  <2>2. b = [n \in 1..Len(K) - i |-> K[n + i]]
    BY <1>1, <2>1
  <2>3. \A n \in 1..Len(K) - i : n + i \in 1..Len(K)
    BY <1>1, <2>1
  <2> HIDE DEF b
  <2> QED
    BY <1>1, <2>1, <2>2, <2>3
<1> HIDE DEF a, b
<1>4. M \in Seq(S) /\ Len(M) = Len(K) - 1
  <2>1. M \in Seq(S) /\ Len(M) = Len(a) + Len(b)
    <3>1. a \in Seq(S) /\ b \in Seq(S)
      BY <1>2, <1>3
    <3> QED
      BY <3>1
  <2>2. (i - 1) + (Len(K) - i) = Len(K) - 1
    BY <1>1
  <2> QED
    BY <1>2, <1>3, <2>1, <2>2
<1>5. N \in Seq(S) /\ Len(N) = Len(K) - 1 /\ \A n \in 1..Len(K) - 1 : N[n] = IF n < i THEN K[n] ELSE K[n + 1]
  <2>1. \A n \in 1..Len(K) - 1 : n \in 1..Len(K) /\ n + 1 \in 1..Len(K)
    BY <1>1
  <2>2. N = [n \in 1..Len(K) - 1 |-> IF n < i THEN K[n] ELSE K[n + 1]]
    BY DEF CutFrom
  <2> QED
    BY <1>1, <2>1, <2>2
<1>6. ASSUME NEW n \in 1..Len(K) - 1 PROVE M[n] = N[n]
  <2>1. CASE n < i
    <3>1. n \in 1..i - 1 /\ n \in 1..Len(a)
      BY <1>1, <1>2, <2>1
    <3>2. M[n] = a[n]
      BY <1>2, <1>3, <3>1
    <3> QED
      BY <1>2, <1>5, <2>1, <3>1, <3>2
  <2>2. CASE ~ (n < i)
    <3>1. n - Len(a) \in 1..Len(b) /\ n - Len(a) + i = n + 1 /\ n > Len(a) /\ n \in 1..Len(a) + Len(b)
      <4>1. n - (i - 1) \in 1..Len(K) - i /\ n - (i - 1) + i = n + 1 /\ n > i - 1
        BY <1>1, <2>2
      <4>2. n \in 1..(i - 1) + (Len(K) - i)
        BY <1>1
      <4> QED
        BY <1>2, <1>3, <4>1, <4>2
    <3>2. M[n] = b[n - Len(a)]
      BY <1>2, <1>3, <3>1
    <3>3. b[n - Len(a)] = K[n + 1]
      BY <1>3, <3>1
    <3> QED
      BY <1>5, <2>2, <3>2, <3>3
  <2> QED
    BY <2>1, <2>2
<1> HIDE DEF M, N
<1>7. M = N
  BY <1>4, <1>5, <1>6
<1>8. Document!RemoveAt(K, i) = M
  BY DEF Document!RemoveAt, M, a, b
<1> QED
  BY <1>5, <1>7, <1>8 DEF N

LEMMA TwoCut ==
  ASSUME NEW S, NEW K \in Seq(S), NEW i \in 1..Len(K), i + 1 \in 1..Len(K)
  PROVE  CutFrom(K, i, 2) = Document!RemoveAt(Document!RemoveAt(K, i), i)
<1> DEFINE M == CutFrom(K, i, 1)
           N == CutFrom(M, i, 1)
<1>1. M = Document!RemoveAt(K, i) /\ M \in Seq(S) /\ Len(M) = Len(K) - 1 /\ Len(K) \in Nat
  BY OneCut
<1>2. i \in 1..Len(M)
  BY <1>1
<1>3. M = [n \in 1..Len(K) - 1 |-> IF n < i THEN K[n] ELSE K[n + 1]]
  BY DEF CutFrom
<1> HIDE DEF M
<1>4. N = Document!RemoveAt(M, i)
  BY <1>1, <1>2, OneCut
<1>5. N = [n \in 1..Len(M) - 1 |-> IF n < i THEN M[n] ELSE M[n + 1]] /\ Len(M) - 1 = Len(K) - 2
  BY <1>1 DEF CutFrom
<1> HIDE DEF N
<1>6. ASSUME NEW n \in 1..Len(K) - 2
      PROVE  (IF n < i THEN M[n] ELSE M[n + 1]) = IF n < i THEN K[n] ELSE K[n + 2]
  <2>1. n \in 1..Len(K) - 1 /\ n + 1 \in 1..Len(K) - 1 /\ n + 1 + 1 = n + 2 /\ (~ (n < i) => ~ (n + 1 < i))
    BY <1>1
  <2> QED
    BY <1>3, <2>1
<1>7. N = [n \in 1..Len(K) - 2 |-> IF n < i THEN K[n] ELSE K[n + 2]]
  BY <1>5, <1>6
<1> QED
  BY <1>1, <1>4, <1>7 DEF CutFrom

\* OrderedTree!Leave, of any tree.
Left(t, c, left, u) ==
  LET gone == DOMAIN t \ DOMAIN u IN
  /\ Document!IsCut(t, ToSet(t[c].of) \ ToSet(left), gone)
  /\ u = [w \in DOMAIN t \ gone |-> IF w = c THEN [t[c] EXCEPT !.of = left] ELSE t[w]]

\* d without some of the elements or members of c.
Reduced(d, g, D, c, left, e) ==
  \E h, E : /\ Seen(e, h, E) /\ h.roots = g.roots /\ (e.overflowed <=> d.overflowed)
            /\ Left(Shape(d, D), c, left, Shape(e, E))

\* An element and what is below it.
LEMMA ElementLeaves ==
  ASSUME NEW d, NEW g, NEW D, Seen(d, g, D), NEW c \in D, d.var[c].type = "array",
         NEW i \in 1..Len(Of(d, c))
  PROVE  Reduced(d, g, D, c, Document!RemoveAt(Of(d, c), i), RemoveOne(d, c, Of(d, c)[i]))
<1> DEFINE K == Of(d, c)
           id == K[i]
           e == RemoveOne(d, c, id)
           f == Clear(d, id)
           k == Without(g, Below(d, id))
           E == D \ Below(d, id)
<1>f. Within(d, g, D)
  BY SeenFacts
<1>1. d.var[c].type \in Collection /\ K = Kids(d, c) /\ K \in Seq(Slots) /\ K \in Seq(D \ {Root})
  <2>1. d.var[c].type \in Collection
    BY DEF Collection
  <2>2. K = Kids(d, c)
    BY <2>1 DEF Of
  <2>3. K \in Seq(Slots) /\ K \in Seq(D \ {Root})
    BY <1>f, OfIs DEF Within
  <2> QED
    BY <2>1, <2>2, <2>3
<1>2. id \in g.in \ g.roots /\ g.own[id] = c /\ id \in D /\ id # Root
  <2>1. Tree(d, g) /\ c \in g.in
    BY <1>f DEF Within
  <2>2. i \in 1..Len(Kids(d, c)) /\ id = Kids(d, c)[i]
    BY <1>1
  <2>3. id \in D /\ id # Root
    BY <1>1
  <2> QED
    BY <2>1, <2>2, <2>3, KidsInTree
<1> HIDE DEF K
<1>3. PICK h : Good(e, h) /\ h.roots = g.roots /\ Unlinked(f, k, id, id, e, h)
  <2>1. Good(d, g) /\ c \in g.in
    BY <1>f DEF Within
  <2> QED
    BY <1>2, <2>1, ElementRemoved
<1>4. /\ Seen(f, k, E) /\ id \in E /\ SameMemory(d, f)
      /\ f.var[id].type = "null"
      /\ Shape(f, E) = Pruned(Shape(d, D), E, id, "null")
      /\ Document!IsCut(Shape(d, D), ToSet(Of(d, id)), D \ E)
  <2> HIDE DEF id
  <2>1. Seen(f, k, E) /\ id \in E
    BY <1>2, ClearedSeen, Zenon
  <2>2. SameMemory(d, f) /\ f.var[id].type = "null"
    BY <1>2, ClearedSeen, Zenon
  <2>3. Shape(f, E) = Pruned(Shape(d, D), E, id, "null")
    BY <1>2, ClearedSeen, Zenon
  <2>4. Document!IsCut(Shape(d, D), ToSet(Of(d, id)), D \ E)
    BY <1>2, ClearedSeen, Zenon
  <2> QED
    BY <2>1, <2>2, <2>3, <2>4
<1>5. c \in E /\ c # id
  <2>1. /\ g.rank[c] < g.rank[id] /\ \A w \in Below(d, id) : g.rank[id] < g.rank[w]
    <3>1. Tree(d, g) /\ id \in g.in
      BY <1>f, <1>2 DEF Within
    <3>2. \A w \in Below(d, id) : g.rank[id] < g.rank[w]
      BY <3>1, BelowInTree
    <3>3. g.rank[c] < g.rank[id]
      BY <1>2, <3>1 DEF Tree, Forest
    <3> QED
      BY <3>2, <3>3
  <2>2. g.rank[c] \in Nat /\ g.rank[id] \in Nat
    <3>1. c \in Nodes /\ id \in Nodes /\ Tree(d, g)
      BY <1>f, <1>2 DEF Within
    <3> QED
      BY <3>1, TreeFacts
  <2> HIDE DEF id
  <2> QED
    BY <2>1, <2>2
<1>6. /\ Shape(f, E)[c] = Shape(d, D)[c] /\ Of(f, c) = K /\ Is(f, c) = Is(d, c)
  <2>1. Shape(f, E)[c] = Shape(d, D)[c]
    BY <1>4, <1>5 DEF Pruned
  <2>2. Shape(f, E)[c] = [is |-> Is(f, c), of |-> Of(f, c)] /\ Shape(d, D)[c] = [is |-> Is(d, c), of |-> K]
    BY <1>5 DEF Shape, K
  <2> QED
    BY <2>1, <2>2
<1> HIDE DEF E, f, k, e
<1>7. f.var[c].type \in Collection
  <2>1. Emptied(d, id, f)
    <3>1. d \in Documents /\ id \in Nodes
      BY <1>f, <1>2 DEF Within
    <3> QED
      BY <3>1, ClearFields DEF f
  <2>2. c \in Nodes
    BY <1>f DEF Within
  <2>3. f.var[c] = d.var[c]
    BY <1>5, <2>1, <2>2 DEF Emptied
  <2> QED
    BY <1>1, <2>3
<1>8. CutBy(f, k, E, c, i, 1, id, id, e, h)
  <2>1. f.var[id].type \notin Collection
    BY <1>4 DEF Collection
  <2>2. CutAt(Of(f, c), i, 1, id, id)
    <3>1. i \in 1..Len(K) /\ i + 1 - 1 = i
      BY <1>1 DEF K
    <3> QED
      BY <1>6, <3>1 DEF CutAt
  <2> QED
    BY <1>3, <1>4, <1>5, <1>7, <2>1, <2>2 DEF CutBy
<1> DEFINE G == E \ {id, id}
           left == CutFrom(K, i, 1)
<1>9. /\ Seen(e, h, G) /\ (e.overflowed <=> f.overflowed)
      /\ Shape(e, G) = Trimmed(Shape(f, E), G, c, left)
      /\ ToSet(K) \ ToSet(Of(e, c)) = {id, id} /\ {id, id} \subseteq E
  <2> HIDE DEF id
  <2>0. /\ Seen(e, h, E \ {id, id}) /\ (e.overflowed <=> f.overflowed)
        /\ Shape(e, E \ {id, id}) = Trimmed(Shape(f, E), E \ {id, id}, c, CutFrom(Of(f, c), i, 1))
        /\ ToSet(Of(f, c)) \ ToSet(Of(e, c)) = {id, id} /\ {id, id} \subseteq E
    <3>1. CutOff(f, E, c, i, 1, id, id, e, h)
      BY <1>8, CutShown
    <3> QED
      BY <3>1 DEF CutOff
  <2>1. Seen(e, h, G) /\ (e.overflowed <=> f.overflowed)
    BY <2>0
  <2>2. Shape(e, G) = Trimmed(Shape(f, E), G, c, CutFrom(Of(f, c), i, 1))
    BY <2>0
  <2>3. ToSet(Of(f, c)) \ ToSet(Of(e, c)) = {id, id} /\ {id, id} \subseteq E
    BY <2>0
  <2> QED
    BY <1>6, <2>1, <2>2, <2>3
<1> HIDE DEF left
<1>10. Of(e, c) = left
  <2>1. c \in G
    BY <1>5
  <2> QED
    BY <1>9, <2>1 DEF Shape, Trimmed
<1>11. Left(Shape(d, D), c, left, Shape(e, G))
  <2>1. DOMAIN Shape(d, D) = D /\ DOMAIN Shape(e, G) = G /\ Shape(d, D)[c].of = K
    BY DEF Shape, K
  <2>2. E \subseteq D
    BY DEF E
  <2>3. Document!IsCut(Shape(d, D), ToSet(K) \ ToSet(left), D \ G)
    <3>1. \A u \in D : Shape(d, D)[u].of = Of(d, u)
      BY DEF Shape
    <3>2. D \ G = (D \ E) \cup {id}
      BY <1>4, <2>2
    <3>3. \A w \in D : w \in D \ E <=> w \in ToSet(Of(d, id)) \/ \E u \in D \ E : w \in ToSet(Of(d, u))
      BY <1>4, <2>1, <3>1, SameSets DEF Document!IsCut
    <3>4. ToSet(K) \ ToSet(left) = {id}
      BY <1>9, <1>10
    <3> HIDE DEF G, id
    <3>5. \A w \in D : w \in D \ G <=> w \in {id} \/ \E u \in D \ G : w \in ToSet(Of(d, u))
      BY <1>2, <3>2, <3>3
    <3> QED
      BY <2>1, <3>1, <3>4, <3>5, SameSets DEF Document!IsCut
  <2>4. Shape(e, G) = [w \in D \ (D \ G) |-> IF w = c THEN [Shape(d, D)[c] EXCEPT !.of = left]
                                              ELSE Shape(d, D)[w]]
    <3>1. D \ (D \ G) = G /\ c \in G
      BY <1>5, <2>2
    <3>2. [Shape(d, D)[c] EXCEPT !.of = left] = [is |-> Is(d, c), of |-> left]
      BY DEF Shape
    <3>3. \A w \in G : Shape(f, E)[w] = Shape(d, D)[w]
      BY <1>4 DEF Pruned
    <3>4. Shape(f, E)[c].is = Is(d, c)
      BY <1>6, <3>1 DEF Shape
    <3>5. Trimmed(Shape(f, E), G, c, left)
            = [w \in G |-> IF w = c THEN [is |-> Is(d, c), of |-> left] ELSE Shape(d, D)[w]]
      BY <3>3, <3>4 DEF Trimmed
    <3> QED
      BY <1>9, <3>1, <3>2, <3>5
  <2> QED
    BY <2>1, <2>3, <2>4 DEF Left
<1>12. left = Document!RemoveAt(K, i)
  BY <1>1, OneCut DEF left, K
<1> QED
  BY <1>3, <1>4, <1>9, <1>11, <1>12 DEF Reduced, SameMemory, e, K

\* The member at i: its key and its value.
MemberAt(d, g, D, c, i, key, value) ==
  /\ c \in D /\ d.var[c].type = "object" /\ i \in 1..Len(Of(d, c)) /\ i + 1 \in 1..Len(Of(d, c))
  /\ key = Of(d, c)[i] /\ value = Of(d, c)[i + 1] /\ value = d.var[key].next
  /\ g.role[key] = "key" /\ d.var[key].type \notin Collection

\* A cleared value, without LET.
ClearedTo(d, D, v, f, k, E) ==
  /\ Seen(f, k, E) /\ v \in E /\ SameMemory(d, f) /\ f.var[v].type = "null"
  /\ Shape(f, E) = Pruned(Shape(d, D), E, v, "null")
  /\ Document!IsCut(Shape(d, D), ToSet(Of(d, v)), D \ E)

LEMMA ClearedFrom ==
  ASSUME NEW d, NEW g, NEW D, Seen(d, g, D), NEW v \in D
  PROVE  ClearedTo(d, D, v, Clear(d, v), Without(g, Below(d, v)), D \ Below(d, v))
<1> DEFINE f == Clear(d, v)
           k == Without(g, Below(d, v))
           E == D \ Below(d, v)
<1>1. Seen(f, k, E) /\ v \in E
  BY ClearedSeen, Zenon
<1>2. SameMemory(d, f) /\ f.var[v].type = "null"
  BY ClearedSeen, Zenon
<1>3. Shape(f, E) = Pruned(Shape(d, D), E, v, "null")
  BY ClearedSeen, Zenon
<1>4. Document!IsCut(Shape(d, D), ToSet(Of(d, v)), D \ E)
  BY ClearedSeen, Zenon
<1> HIDE DEF f, k, E
<1>5. ClearedTo(d, D, v, f, k, E)
  BY <1>1, <1>2, <1>3, <1>4 DEF ClearedTo
<1> QED
  BY <1>5 DEF f, k, E

\* A member and what is below it.
LEMMA MemberLeaves ==
  ASSUME NEW d, NEW g, NEW D, Seen(d, g, D), NEW c, NEW i, NEW key, NEW value,
         MemberAt(d, g, D, c, i, key, value)
  PROVE  Reduced(d, g, D, c, Document!RemoveAt(Document!RemoveAt(Of(d, c), i), i),
                 RemovePair(d, c, key))
<1> DEFINE K == Of(d, c)
           e == RemovePair(d, c, key)
           c1 == Clear(d, value)
           g1 == Without(g, Below(d, value))
           E == D \ Below(d, value)
           c2 == Clear(c1, key)
           g3 == Without(g1, Below(c1, key))
<1>f. Within(d, g, D)
  BY SeenFacts
<1>m. /\ c \in D /\ d.var[c].type = "object" /\ i \in 1..Len(K) /\ i + 1 \in 1..Len(K)
      /\ key = K[i] /\ value = K[i + 1] /\ value = d.var[key].next
      /\ g.role[key] = "key" /\ d.var[key].type \notin Collection
  BY DEF MemberAt
<1>1. d.var[c].type \in Collection /\ K = Kids(d, c) /\ K \in Seq(Slots) /\ K \in Seq(D \ {Root})
  <2>1. d.var[c].type \in Collection
    BY <1>m DEF Collection
  <2>2. K = Kids(d, c)
    BY <2>1 DEF Of
  <2>3. K \in Seq(Slots) /\ K \in Seq(D \ {Root})
    BY <1>f, <1>m, OfIs DEF Within
  <2> QED
    BY <2>1, <2>2, <2>3
<1>2. /\ key \in g.in \ g.roots /\ g.own[key] = c /\ key \in D
      /\ value \in g.in \ g.roots /\ g.own[value] = c /\ value \in D
  <2>1. Tree(d, g) /\ c \in g.in
    BY <1>f, <1>m DEF Within
  <2>2. /\ i \in 1..Len(Kids(d, c)) /\ key = Kids(d, c)[i]
        /\ i + 1 \in 1..Len(Kids(d, c)) /\ value = Kids(d, c)[i + 1]
    BY <1>1, <1>m
  <2>3. key \in D /\ value \in D
    <3> HIDE DEF K
    <3>1. \A n \in 1..Len(K) : K[n] \in D
      BY <1>1
    <3> QED
      BY <1>m, <3>1
  <2> QED
    BY <2>1, <2>2, <2>3, KidsInTree
<1> HIDE DEF K
<1>3. PICK h : Good(e, h) /\ h.roots = g.roots /\ Unlinked(c2, g3, key, value, e, h)
  <2>1. Good(d, g) /\ c \in g.in
    BY <1>f, <1>m DEF Within
  <2>2. \E h : Good(e, h) /\ h.roots = g.roots
               /\ Unlinked(Clear(Clear(d, d.var[key].next), key),
                           Without(Without(g, Below(d, d.var[key].next)),
                                   Below(Clear(d, d.var[key].next), key)),
                           key, d.var[key].next, e, h)
    BY <1>2, <1>m, <2>1, MemberRemoved, Zenon
  <2> HIDE DEF e
  <2> QED
    BY <1>m, <2>2
<1>4. ClearedTo(d, D, value, c1, g1, E)
  BY <1>2, ClearedFrom
<1>5. c \in E /\ key \in E /\ c # value /\ c # key /\ key # value
  <2>1. /\ Tree(d, g) /\ value \in g.in /\ key \in g.in /\ value \in g.in \ g.roots /\ key \in g.in \ g.roots
        /\ c \in Nodes /\ key \in Nodes /\ value \in Nodes
    BY <1>f, <1>m, <1>2 DEF Within
  <2>2. g.rank[c] < g.rank[key]
    BY <1>2, <2>1 DEF Tree, Forest
  <2>3. g.rank[key] < g.rank[value]
    <3>1. value # NullSlot
      BY <2>1, Sizes
    <3> QED
      BY <1>m, <2>1, <3>1 DEF Tree, Forest, Linked
  <2>4. \A w \in Below(d, value) : g.rank[value] < g.rank[w]
    BY <2>1, BelowInTree
  <2>5. g.rank[c] \in Nat /\ g.rank[key] \in Nat /\ g.rank[value] \in Nat
    BY <2>1, TreeFacts
  <2> QED
    BY <1>m, <1>2, <2>2, <2>3, <2>4, <2>5
<1>6. c1.var[key] = d.var[key] /\ c1.var[c] = d.var[c]
  <2>1. d \in Documents /\ value \in Nodes /\ key \in Nodes /\ c \in Nodes
    BY <1>f, <1>m, <1>2 DEF Within
  <2>2. Emptied(d, value, c1)
    BY <2>1, ClearFields
  <2> HIDE DEF c1
  <2> QED
    BY <1>5, <2>1, <2>2 DEF Emptied
<1>7. ClearedTo(c1, E, key, c2, g3, E)
  <2>1. Seen(c1, g1, E)
    BY <1>4 DEF ClearedTo
  <2>2. E \cap Below(c1, key) = {}
    <3>1. c1.var[key].type \notin Collection
      BY <1>6, <1>m
    <3> HIDE DEF c1, g1, E
    <3> QED
      BY <1>5, <2>1, <3>1, NothingShownBelow
  <2>3. ClearedTo(c1, E, key, Clear(c1, key), Without(g1, Below(c1, key)), E \ Below(c1, key))
    <3> HIDE DEF c1, g1, E
    <3> QED
      BY <1>5, <2>1, ClearedFrom
  <2>4. E \ Below(c1, key) = E
    BY <2>2
  <2> QED
    BY <2>3, <2>4
<1>8. c2.var[value] = c1.var[value] /\ c2.var[c] = c1.var[c]
  <2>1. c1 \in Documents /\ value \in Nodes /\ key \in Nodes /\ c \in Nodes
    <3>1. c1 \in Documents
      <4>1. Seen(c1, g1, E)
        BY <1>4 DEF ClearedTo
      <4> HIDE DEF c1, g1, E
      <4> QED
        BY <4>1, SeenFacts DEF Within
    <3> QED
      BY <1>f, <1>m, <1>2, <3>1 DEF Within
  <2>2. Emptied(c1, key, c2)
    BY <2>1, ClearFields
  <2> HIDE DEF c2, c1
  <2> QED
    BY <1>5, <2>1, <2>2 DEF Emptied
<1> HIDE DEF c1, c2, g1, g3, e
<1>9. /\ Seen(c2, g3, E) /\ SameMemory(d, c1) /\ SameMemory(c1, c2)
      /\ c2.var[key].type = "null" /\ c2.var[value].type = "null" /\ c2.var[c] = d.var[c]
      /\ Shape(c1, E) = Pruned(Shape(d, D), E, value, "null")
      /\ Shape(c2, E) = Pruned(Shape(c1, E), E, key, "null")
      /\ Document!IsCut(Shape(d, D), ToSet(Of(d, value)), D \ E)
      /\ value \in E
  BY <1>4, <1>6, <1>7, <1>8 DEF ClearedTo
<1>10. \A w \in E \ {key, value} : Shape(c2, E)[w] = Shape(d, D)[w]
  BY <1>9 DEF Pruned
<1>11. Shape(c2, E)[c] = Shape(d, D)[c] /\ Of(c2, c) = K /\ Is(c2, c) = Is(d, c)
  <2>1. Shape(c2, E)[c] = Shape(d, D)[c]
    BY <1>5, <1>10
  <2>2. Shape(c2, E)[c] = [is |-> Is(c2, c), of |-> Of(c2, c)] /\ Shape(d, D)[c] = [is |-> Is(d, c), of |-> K]
    BY <1>5, <1>m DEF Shape, K
  <2> QED
    BY <2>1, <2>2
<1> HIDE DEF E
<1>12. CutBy(c2, g3, E, c, i, 2, key, value, e, h)
  <2>1. c2.var[key].type \notin Collection /\ c2.var[value].type \notin Collection
    BY <1>9 DEF Collection
  <2>2. CutAt(Of(c2, c), i, 2, key, value)
    <3>1. i \in 1..Len(K) /\ i + 1 \in 1..Len(K) /\ i + 2 - 1 = i + 1
      BY <1>1, <1>m
    <3> QED
      BY <1>11, <1>m, <3>1 DEF CutAt
  <2>3. c2.var[c].type \in Collection
    BY <1>1, <1>9
  <2> QED
    BY <1>3, <1>5, <1>9, <2>1, <2>2, <2>3 DEF CutBy
<1> DEFINE G == E \ {key, value}
           left == CutFrom(K, i, 2)
<1>13. /\ Seen(e, h, G) /\ (e.overflowed <=> c2.overflowed)
       /\ Shape(e, G) = Trimmed(Shape(c2, E), G, c, left)
       /\ ToSet(K) \ ToSet(Of(e, c)) = {key, value} /\ {key, value} \subseteq E
  <2>1. CutOff(c2, E, c, i, 2, key, value, e, h)
    BY <1>12, CutShown
  <2> QED
    BY <1>11, <2>1 DEF CutOff
<1> HIDE DEF left
<1>14. Of(e, c) = left
  <2>1. c \in G
    BY <1>5
  <2> QED
    BY <1>13, <2>1 DEF Shape, Trimmed
<1>15. Left(Shape(d, D), c, left, Shape(e, G))
  <2>1. DOMAIN Shape(d, D) = D /\ DOMAIN Shape(e, G) = G /\ Shape(d, D)[c].of = K
    BY <1>m DEF Shape, K
  <2>2. E \subseteq D
    BY DEF E
  <2>3. Document!IsCut(Shape(d, D), ToSet(K) \ ToSet(left), D \ G)
    <3>1. \A u \in D : Shape(d, D)[u].of = Of(d, u)
      BY DEF Shape
    <3>2. D \ G = (D \ E) \cup {key, value}
      BY <1>13, <2>2
    <3>3. \A w \in D : w \in D \ E <=> w \in ToSet(Of(d, value)) \/ \E u \in D \ E : w \in ToSet(Of(d, u))
      BY <1>2, <1>9, <2>1, <3>1, SameSets DEF Document!IsCut
    <3>4. ToSet(K) \ ToSet(left) = {key, value}
      BY <1>13, <1>14
    <3>5. ToSet(Of(d, key)) = {}
      BY <1>m DEF Of, ToSet
    <3> HIDE DEF G
    <3>6. \A w \in D : w \in D \ G <=> w \in {key, value} \/ \E u \in D \ G : w \in ToSet(Of(d, u))
      BY <1>2, <3>2, <3>3, <3>5
    <3> QED
      BY <2>1, <3>1, <3>4, <3>6, SameSets DEF Document!IsCut
  <2>4. Shape(e, G) = [w \in D \ (D \ G) |-> IF w = c THEN [Shape(d, D)[c] EXCEPT !.of = left]
                                              ELSE Shape(d, D)[w]]
    <3>1. D \ (D \ G) = G /\ c \in G
      BY <1>5, <2>2
    <3>2. [Shape(d, D)[c] EXCEPT !.of = left] = [is |-> Is(d, c), of |-> left]
      BY <1>m DEF Shape
    <3>3. \A w \in G : Shape(c2, E)[w] = Shape(d, D)[w]
      BY <1>10
    <3>4. Shape(c2, E)[c].is = Is(d, c)
      BY <1>11, <3>1 DEF Shape
    <3>5. Trimmed(Shape(c2, E), G, c, left)
            = [w \in G |-> IF w = c THEN [is |-> Is(d, c), of |-> left] ELSE Shape(d, D)[w]]
      BY <3>3, <3>4 DEF Trimmed
    <3> QED
      BY <1>13, <3>1, <3>2, <3>5
  <2> QED
    BY <2>1, <2>3, <2>4 DEF Left
<1>16. left = Document!RemoveAt(Document!RemoveAt(K, i), i)
  BY <1>1, <1>m, TwoCut DEF left
<1> QED
  BY <1>3, <1>9, <1>13, <1>15, <1>16 DEF Reduced, SameMemory, e, K

\* c has got the null elements K, or none.
Longer(d, g, D, c, K, e, h) ==
  /\ K \in Seq(Slots) /\ ToSet(K) \cap D = {} /\ h.roots = g.roots
  /\ \A i, j \in 1..Len(K) : K[i] = K[j] => i = j
  /\ Seen(e, h, D \cup ToSet(K)) /\ Shape(e, D \cup ToSet(K)) = GrownBy(Shape(d, D), c, K, "null")
  /\ e.var[c].type = "array"

\* What comes of n calls of addElement.
Lengthened(d, g, D, c, n, q) ==
  /\ Grows(d, q[1])
  /\ Len(q[1].pools) <= MaxPools =>
       \E K, h : /\ Longer(d, g, D, c, K, q[1], h)
                 /\ IF q[2] = NullSlot THEN q[1].overflowed /\ Len(K) < n
                    ELSE /\ (q[1].overflowed <=> d.overflowed) /\ Len(K) = n
                         /\ n > 0 => q[2] = K[n]

LEMMA GrownByNone ==
  ASSUME NEW d, NEW D, NEW c \in D, Of(d, c) \in Seq(Slots)
  PROVE  GrownBy(Shape(d, D), c, << >>, "null") = Shape(d, D)
<1>1. ToSet(<< >>) = {} /\ DOMAIN Shape(d, D) = D
  BY DEF ToSet, Shape
<1>2. Of(d, c) \o << >> = Of(d, c)
  OBVIOUS
<1>3. [is |-> Shape(d, D)[c].is, of |-> Shape(d, D)[c].of \o << >>] = Shape(d, D)[c]
  BY <1>2 DEF Shape
<1>4. Shape(d, D) = [u \in D |-> Shape(d, D)[u]]
  BY DEF Shape
<1> QED
  BY <1>1, <1>3, <1>4 DEF GrownBy

LEMMA OneMore ==
  ASSUME NEW K \in Seq(Slots), NEW v \in Slots, \A i, j \in 1..Len(K) : K[i] = K[j] => i = j,
         v \notin ToSet(K)
  PROVE  LET M == K \o <<v>> IN
         /\ M \in Seq(Slots) /\ Len(M) = Len(K) + 1 /\ M[Len(K) + 1] = v /\ M # << >>
         /\ \A i \in 1..Len(K) : M[i] = K[i]
         /\ ToSet(M) = ToSet(K) \cup {v}
         /\ \A i, j \in 1..Len(M) : M[i] = M[j] => i = j
<1> DEFINE M == K \o <<v>>
<1>1. Len(K) \in Nat /\ <<v>> \in Seq(Slots) /\ Len(<<v>>) = 1
  OBVIOUS
<1>2. /\ M \in Seq(Slots) /\ Len(M) = Len(K) + 1 /\ M[Len(K) + 1] = v
      /\ \A i \in 1..Len(K) : M[i] = K[i]
  BY <1>1
<1>3. DOMAIN M = 1..Len(K) + 1 /\ DOMAIN K = 1..Len(K)
  BY <1>1, <1>2
<1> HIDE DEF M
<1>4. \A i \in 1..Len(K) + 1 : i \in 1..Len(K) \/ i = Len(K) + 1
  BY <1>1
<1>5. \A i \in 1..Len(K) : i \in 1..Len(K) + 1
  BY <1>1
<1>6. Len(K) + 1 \in 1..Len(K) + 1
  BY <1>1
<1>7. \A i \in 1..Len(K) : K[i] \in ToSet(K)
  BY DEF ToSet
<1>8. ToSet(M) = ToSet(K) \cup {v}
  BY <1>2, <1>3, <1>4, <1>5, <1>6 DEF ToSet
<1>9. \A i, j \in 1..Len(K) + 1 : M[i] = M[j] => i = j
  BY <1>2, <1>4, <1>7
<1>10. M # << >>
  BY <1>1, <1>2
<1> QED
  BY <1>2, <1>8, <1>9, <1>10 DEF M

LEMMA GrownTwice ==
  ASSUME NEW t, NEW c \in DOMAIN t, t[c].of \in Seq(Slots), NEW K \in Seq(Slots), NEW v \in Slots,
         v \notin DOMAIN t
  PROVE  GrownBy(GrownBy(t, c, K, "null"), c, <<v>>, "null") = GrownBy(t, c, K \o <<v>>, "null")
<1> DEFINE s == GrownBy(t, c, K, "null")
           M == K \o <<v>>
           o == t[c].of
           V == <<v>>
<1>1. V \in Seq(Slots) /\ ToSet(V) = {v}
  BY OneSlot
<1>2. (o \o K) \o V = o \o M
  <2>1. o \in Seq(Slots) /\ M = K \o V
    OBVIOUS
  <2> HIDE DEF o, M, V
  <2>2. (o \o K) \o V = o \o (K \o V)
    BY <1>1, <2>1, ConcatAssociative
  <2> QED
    BY <2>1, <2>2
<1>3. ToSet(M) = ToSet(K) \cup {v}
  <2>1. Len(K) \in Nat /\ Len(M) = Len(K) + 1 /\ DOMAIN M = 1..Len(K) + 1 /\ DOMAIN K = 1..Len(K)
        /\ M[Len(K) + 1] = v /\ \A i \in 1..Len(K) : M[i] = K[i]
    OBVIOUS
  <2> HIDE DEF M
  <2>2. /\ \A i \in 1..Len(K) + 1 : i \in 1..Len(K) \/ i = Len(K) + 1
        /\ \A i \in 1..Len(K) : i \in 1..Len(K) + 1
        /\ Len(K) + 1 \in 1..Len(K) + 1
    BY <2>1
  <2> QED
    BY <2>1, <2>2 DEF ToSet
<1> HIDE DEF M, V
<1>4. /\ DOMAIN s = DOMAIN t \cup ToSet(K)
      /\ s[c] = [is |-> t[c].is, of |-> o \o K]
      /\ \A u \in DOMAIN t : u # c => s[u] = t[u]
      /\ \A u \in ToSet(K) : u \notin DOMAIN t => s[u] = Document!Node("null")
  BY DEF GrownBy
<1> HIDE DEF s
<1>5. GrownBy(s, c, V, "null") =
        [u \in DOMAIN t \cup ToSet(M) |->
           IF u = c THEN [is |-> t[c].is, of |-> o \o M] ELSE IF u \in DOMAIN t THEN t[u]
           ELSE Document!Node("null")]
  <2>1. DOMAIN s \cup ToSet(V) = DOMAIN t \cup ToSet(M)
    BY <1>1, <1>3, <1>4
  <2>2. [is |-> s[c].is, of |-> s[c].of \o V] = [is |-> t[c].is, of |-> o \o M]
    <3>1. s[c].is = t[c].is /\ s[c].of = o \o K
      BY <1>4
    <3> HIDE DEF o
    <3> QED
      BY <1>2, <3>1
  <2>3. \A u \in DOMAIN t \cup ToSet(M) :
          (IF u = c THEN [is |-> s[c].is, of |-> s[c].of \o V] ELSE IF u \in DOMAIN s THEN s[u]
           ELSE Document!Node(IF u = V[1] THEN "null" ELSE "null"))
          = IF u = c THEN [is |-> t[c].is, of |-> o \o M] ELSE IF u \in DOMAIN t THEN t[u]
            ELSE Document!Node("null")
    BY <1>3, <1>4, <2>2
  <2> QED
    BY <2>1, <2>3 DEF GrownBy
<1>6. GrownBy(t, c, M, "null") =
        [u \in DOMAIN t \cup ToSet(M) |->
           IF u = c THEN [is |-> t[c].is, of |-> o \o M] ELSE IF u \in DOMAIN t THEN t[u]
           ELSE Document!Node("null")]
  BY DEF GrownBy
<1> QED
  BY <1>5, <1>6 DEF s, M, V

LEMMA OneLonger ==
  ASSUME NEW d, NEW g, NEW D, Seen(d, g, D), NEW c \in D, d.var[c].type = "array",
         NEW n \in Nat, NEW q, Lengthened(d, g, D, c, n, q), q[2] # NullSlot,
         NEW p \in AddElement(q[1], c)
  PROVE  Lengthened(d, g, D, c, n + 1, p)
<1>f. Within(d, g, D)
  BY SeenFacts
<1>1. Shaped(d) /\ Tree(d, g)
  BY <1>f, ShapedDocument DEF Within
<1>2. Grows(d, q[1]) /\ Shaped(q[1])
  BY DEF Lengthened, Grows
<1>3. Grows(q[1], p[1]) /\ Grows(d, p[1])
  <2>1. Grows(q[1], p[1])
    BY <1>2, AddElementGrows
  <2> QED
    BY <1>1, <1>2, <2>1, GrowsOn
<1>4. ASSUME Len(p[1].pools) <= MaxPools
      PROVE  \E K, h : /\ Longer(d, g, D, c, K, p[1], h)
                       /\ IF p[2] = NullSlot THEN p[1].overflowed /\ Len(K) < n + 1
                          ELSE /\ (p[1].overflowed <=> d.overflowed) /\ Len(K) = n + 1
                               /\ n + 1 > 0 => p[2] = K[n + 1]
  <2>1. Len(q[1].pools) <= MaxPools
    <3>1. /\ Len(q[1].pools) \in Nat /\ Len(p[1].pools) \in Nat /\ MaxPools \in Nat
          /\ Len(q[1].pools) <= Len(p[1].pools)
      BY <1>2, <1>3, ShapedLen, MaxPoolsIs DEF Grows
    <3> QED
      BY <1>4, <3>1
  <2>2. PICK K, k : Longer(d, g, D, c, K, q[1], k)
                    /\ (q[1].overflowed <=> d.overflowed) /\ Len(K) = n
    BY <2>1 DEF Lengthened
  <2> DEFINE D1 == D \cup ToSet(K)
             a == q[1]
             e == p[1]
             v == p[2]
  <2>3. /\ K \in Seq(Slots) /\ ToSet(K) \cap D = {} /\ k.roots = g.roots
        /\ \A i, j \in 1..Len(K) : K[i] = K[j] => i = j
        /\ Seen(a, k, D1) /\ Shape(a, D1) = GrownBy(Shape(d, D), c, K, "null")
        /\ a.var[c].type = "array"
    BY <2>2 DEF Longer
  <2>4. c \in D1 /\ c \in k.in /\ Good(a, k)
    BY <2>3 DEF Seen
  <2>5. e.var[c].type = "array"
    <3>1. PICK x : Keeps(a, k, e, x)
      BY <1>4, <2>3, <2>4, ElementAdded
    <3> QED
      BY <2>3, <2>4, <3>1 DEF Keeps
  <2>6. PICK h : IF v = NullSlot THEN RanOut(a, k, D1, e, h)
                 ELSE Sprung(a, k, D1, c, <<v>>, "null", e, h) /\ e.var[v].type = "null"
    <3>1. Seen(a, k, D1) /\ c \in D1 /\ a.var[c].type = "array" /\ p \in AddElement(a, c)
      BY <2>3, <2>4
    <3> HIDE DEF D1, a
    <3> QED
      BY <1>4, <3>1, ElementShown
  <2>7. CASE v = NullSlot
    <3>1. Seen(e, h, D1) /\ h.roots = k.roots /\ e.overflowed /\ Shape(e, D1) = Shape(a, D1)
      BY <2>6, <2>7 DEF RanOut
    <3>3. Longer(d, g, D, c, K, e, h)
      BY <2>3, <2>5, <3>1 DEF Longer
    <3> QED
      BY <2>2, <2>7, <3>1, <3>3
  <2>8. CASE v # NullSlot
    <3> DEFINE V == <<v>>
               M == K \o V
    <3>1. /\ V \in Seq(Slots) /\ ToSet(V) \cap k.in = {} /\ k.in \cup ToSet(V) \subseteq h.in
          /\ h.roots = k.roots /\ (e.overflowed <=> a.overflowed)
          /\ Seen(e, h, D1 \cup ToSet(V)) /\ Shape(e, D1 \cup ToSet(V)) = GrownBy(Shape(a, D1), c, V, "null")
      BY <2>6, <2>8 DEF Sprung
    <3>2. v \in Slots /\ ToSet(V) = {v}
      <4>1. V[1] = v /\ 1 \in 1..Len(V) /\ V \in Seq(Slots)
        BY <3>1
      <4>2. v \in Slots
        BY <4>1
      <4> QED
        BY <4>2, OneSlot
    <3>3. v \notin k.in /\ v \notin ToSet(K) /\ v \notin D
      <4>1. v \notin k.in
        BY <3>1, <3>2
      <4>2. D1 \subseteq k.in
        BY <2>3 DEF Seen
      <4> QED
        BY <4>1, <4>2
    <3>4. /\ M \in Seq(Slots) /\ Len(M) = n + 1 /\ M[n + 1] = v
          /\ ToSet(M) = ToSet(K) \cup {v}
          /\ \A i, j \in 1..Len(M) : M[i] = M[j] => i = j
      BY <2>2, <2>3, <3>2, <3>3, OneMore
    <3>5. D1 \cup ToSet(V) = D \cup ToSet(M)
      BY <3>2, <3>4
    <3>6. GrownBy(GrownBy(Shape(d, D), c, K, "null"), c, V, "null") = GrownBy(Shape(d, D), c, M, "null")
      <4> DEFINE t == Shape(d, D)
      <4>1. DOMAIN t = D /\ t[c].of \in Seq(Slots) /\ v \notin D
        BY <1>f, <3>3, OfIs DEF Shape, Within
      <4>2. K \in Seq(Slots) /\ v \in Slots /\ c \in DOMAIN t /\ v \notin DOMAIN t
        BY <2>3, <3>2, <4>1
      <4> HIDE DEF t, v
      <4>3. GrownBy(GrownBy(t, c, K, "null"), c, <<v>>, "null") = GrownBy(t, c, K \o <<v>>, "null")
        BY <4>1, <4>2, GrownTwice
      <4> QED
        BY <4>3 DEF t
    <3> HIDE DEF M, V
    <3>7. Longer(d, g, D, c, M, e, h)
      <4>1. ToSet(M) \cap D = {} /\ h.roots = g.roots
        BY <2>3, <3>1, <3>2, <3>3, <3>4
      <4>2. Seen(e, h, D \cup ToSet(M)) /\ Shape(e, D \cup ToSet(M)) = GrownBy(Shape(d, D), c, M, "null")
        BY <2>3, <3>1, <3>5, <3>6
      <4> QED
        BY <2>5, <3>4, <4>1, <4>2 DEF Longer
    <3> QED
      BY <2>2, <2>8, <3>1, <3>4, <3>7
  <2> QED
    BY <2>7, <2>8
<1> QED
  BY <1>3, <1>4 DEF Lengthened

LEMMA ElementsShown ==
  ASSUME NEW d, NEW g, NEW D, Seen(d, g, D), NEW c \in D, d.var[c].type = "array",
         NEW i \in Nat, NEW f, AddedBy(d, c, i, f), NEW m \in 0..i, NEW q \in f[m]
  PROVE  Lengthened(d, g, D, c, m, q)
<1>f. Within(d, g, D)
  BY SeenFacts
<1>1. f[0] = {<<d, c>>} /\ \A n \in 0..i - 1 : f[n + 1] = More(c, f[n])
  <2>1. \A n \in 0..i - 1 : n + 1 \in 0..i /\ n + 1 # 0 /\ (n + 1) - 1 = n
    OBVIOUS
  <2>2. 0 \in 0..i
    OBVIOUS
  <2> QED
    BY <2>1, <2>2 DEF AddedBy
<1>2. Longer(d, g, D, c, << >>, d, g)
  <2>1. /\ << >> \in Seq(Slots) /\ ToSet(<< >>) = {} /\ Len(<< >>) = 0
        /\ \A j, k \in 1..Len(<< >>) : (<< >>)[j] = (<< >>)[k] => j = k
    BY DEF ToSet
  <2>2. Of(d, c) \in Seq(Slots)
    BY <1>f, OfIs DEF Within
  <2>3. GrownBy(Shape(d, D), c, << >>, "null") = Shape(d, D)
    BY <2>2, GrownByNone
  <2>4. D \cup ToSet(<< >>) = D
    BY <2>1
  <2> QED
    BY <2>1, <2>3, <2>4 DEF Longer
<1> DEFINE S == {n \in Nat : n <= i => \A p \in f[n] : Lengthened(d, g, D, c, n, p)}
<1>3. 0 \in S
  <2>1. ASSUME NEW p \in f[0] PROVE Lengthened(d, g, D, c, 0, p)
    <3>1. p[1] = d /\ p[2] = c
      BY <1>1, <2>1
    <3>2. Grows(d, d) /\ c # NullSlot
      <4>1. d \in Documents /\ c \in Nodes
        BY <1>f DEF Within
      <4> QED
        BY <4>1, ShapedDocument, ShapedLen, Sizes
    <3>3. Len(<< >>) = 0 /\ ~ (0 > 0)
      OBVIOUS
    <3> QED
      BY <1>2, <3>1, <3>2, <3>3 DEF Lengthened
  <2> QED
    BY <2>1
<1>4. ASSUME NEW n \in Nat, n \in S PROVE n + 1 \in S
  <2>1. ASSUME n + 1 <= i, NEW p \in f[n + 1] PROVE Lengthened(d, g, D, c, n + 1, p)
    <3>1. n \in 0..i - 1 /\ n <= i
      BY <2>1
    <3>2. \A r \in f[n] : Lengthened(d, g, D, c, n, r)
      BY <1>4, <3>1
    <3>3. f[n + 1] = More(c, f[n])
      BY <1>1, <3>1
    <3>4. PICK r \in f[n] : p \in IF r[2] = NullSlot THEN {r} ELSE AddElement(r[1], c)
      BY <2>1, <3>3 DEF More
    <3>5. CASE r[2] = NullSlot
      <4>1. p = r /\ Lengthened(d, g, D, c, n, r)
        BY <3>2, <3>4, <3>5
      <4>2. ASSUME NEW K, Len(K) < n, NEW h, Longer(d, g, D, c, K, p[1], h) PROVE Len(K) < n + 1
        <5>1. Len(K) \in Nat
          BY <4>2 DEF Longer
        <5> QED
          BY <4>2, <5>1
      <4> QED
        BY <3>5, <4>1, <4>2 DEF Lengthened
    <3>6. CASE r[2] # NullSlot
      <4>1. Lengthened(d, g, D, c, n, r) /\ p \in AddElement(r[1], c)
        BY <3>2, <3>4, <3>6
      <4> QED
        BY <3>6, <4>1, OneLonger
    <3> QED
      BY <3>5, <3>6
  <2> QED
    BY <2>1
<1>5. Nat \subseteq S
  <2> HIDE DEF S
  <2> QED
    BY <1>3, <1>4, SetInduction
<1> QED
  BY <1>5

-----------------------------------------------------------------------------
(***************************************************************************)
(* What a program does with a document is done to its tree                 *)
(***************************************************************************)
\* A step that starts from the tree D and is seen.
Stepping(g, D) ==
  /\ Seen(doc, g, D) /\ tree = Shape(doc, D)
  /\ tree' = TreeOf(doc') /\ Len(doc'.pools) <= MaxPools

\* There is a tree after it.
Stays(g) == \E h, E : Seen(doc', h, E) /\ h.roots = g.roots

LEMMA SteppingFacts ==
  ASSUME NEW g, NEW D, Stepping(g, D)
  PROVE  /\ Within(doc, g, D) /\ doc.overflowed \in BOOLEAN /\ DOMAIN tree = D
         /\ \A u \in D : tree[u].is = Is(doc, u) /\ tree[u].of = Of(doc, u)
<1>1. Within(doc, g, D)
  BY SeenFacts DEF Stepping
<1>2. doc.overflowed \in BOOLEAN
  BY <1>1 DEF Within, Documents
<1>3. tree = Shape(doc, D)
  BY DEF Stepping
<1> QED
  BY <1>1, <1>2, <1>3 DEF Shape

LEMMA SteppedTo ==
  ASSUME NEW g, NEW D, Stepping(g, D), NEW h, NEW E, Seen(doc', h, E)
  PROVE  tree' = Shape(doc', E) /\ doc'.overflowed \in BOOLEAN
<1>1. TreeOf(doc') = Shape(doc', E)
  BY ShapeIs
<1>2. Within(doc', h, E)
  BY SeenFacts
<1>3. doc'.overflowed \in BOOLEAN
  BY <1>2 DEF Within, Documents
<1> QED
  BY <1>1, <1>3 DEF Stepping

LEMMA AssignIs ==
  ASSUME doc.overflowed \in BOOLEAN, doc'.overflowed \in BOOLEAN, NEW t, NEW v, NEW value,
         NEW was, was <=> doc.overflowed,
         Assigned(t, v, value, was, tree', doc'.overflowed)
  PROVE  Document!Assign(t, v, value)
BY SameSets DEF Document!Assign, Assigned

LEMMA LeaveIs ==
  ASSUME doc.overflowed \in BOOLEAN, doc'.overflowed \in BOOLEAN, NEW c, NEW left,
         doc'.overflowed <=> doc.overflowed, Left(tree, c, left, tree')
  PROVE  Document!Leave(c, left)
BY SameSets DEF Document!Leave, Left

LEMMA RunOutIs ==
  ASSUME NEW g, NEW D, Stepping(g, D), NEW h, RanOut(doc, g, D, doc', h)
  PROVE  Document!RunOut /\ Stays(g)
<1>1. /\ Seen(doc', h, D) /\ h.roots = g.roots /\ doc'.overflowed
      /\ Shape(doc', D) = Shape(doc, D)
  BY DEF RanOut
<1>2. tree' = Shape(doc', D) /\ doc'.overflowed \in BOOLEAN
  BY <1>1, SteppedTo
<1>3. tree = Shape(doc, D)
  BY DEF Stepping
<1> QED
  BY <1>1, <1>2, <1>3 DEF Document!RunOut, Stays

LEMMA GrownIs ==
  ASSUME NEW d, NEW D, NEW c \in D, NEW K
  PROVE  GrownBy(Shape(d, D), c, K, "null") = Document!Grown(Shape(d, D), c, K)
<1>1. [Shape(d, D)[c] EXCEPT !.of = @ \o K] = [is |-> Shape(d, D)[c].is, of |-> Shape(d, D)[c].of \o K]
  BY SMTT(30) DEF Shape
<1> QED
  BY <1>1, SameSets DEF GrownBy, Document!Grown

LEMMA GrownWithIs ==
  ASSUME NEW d, NEW D, NEW c \in D, NEW K, K[1] \in ToSet(K), ToSet(K) \cap D = {}, NEW x
  PROVE  GrownBy(Shape(d, D), c, K, x)
           = [Document!Grown(Shape(d, D), c, K) EXCEPT ![K[1]] = Document!Node(x)]
<1> DEFINE t == Shape(d, D)
<1>1. GrownBy(t, c, K, "null") = Document!Grown(t, c, K)
  BY GrownIs
<1>2. DOMAIN t = D
  BY DEF Shape
<1> HIDE DEF t
<1>3. GrownBy(t, c, K, x) = [GrownBy(t, c, K, "null") EXCEPT ![K[1]] = Document!Node(x)]
  BY <1>2 DEF GrownBy
<1> QED
  BY <1>1, <1>3 DEF t

LEMMA FreshIs ==
  ASSUME NEW K \in Seq(Slots), \A i, j \in 1..Len(K) : K[i] = K[j] => i = j,
         ToSet(K) \cap DOMAIN tree = {}
  PROVE  K \in Document!Fresh(Len(K))
<1>1. DOMAIN K = 1..Len(K) /\ K \in [1..Len(K) -> Slots]
  OBVIOUS
<1>2. \A i \in 1..Len(K) : K[i] \in (Slots \cup {Root}) \ DOMAIN tree
  BY <1>1 DEF ToSet
<1>3. K \in [1..Len(K) -> (Slots \cup {Root}) \ DOMAIN tree]
  BY <1>1, <1>2
<1>4. Document!IsInjective(K)
  BY <1>1 DEF Document!IsInjective
<1> QED
  BY <1>3, <1>4 DEF Document!Fresh

\* What a value that is given to v does to the tree, after others that led to d.
LEMMA AssignedIs ==
  ASSUME NEW g, NEW D, Stepping(g, D), NEW d, NEW h, NEW E, Seen(d, h, E), h.roots = g.roots,
         d.overflowed <=> doc.overflowed, NEW v \in E, NEW value \in AllValues,
         NEW r \in Set(d, v, value), doc' = r[1]
  PROVE  Document!Assign(Shape(d, E), v, value) /\ Stays(g)
<1>1. Len(r[1].pools) <= MaxPools
  BY DEF Stepping
<1>2. PICK k : /\ Seen(r[1], k, E \ Below(d, v)) /\ k.roots = h.roots
               /\ Assigned(Shape(d, E), v, value, d.overflowed, Shape(r[1], E \ Below(d, v)),
                           r[1].overflowed)
  BY <1>1, VariantShown
<1> DEFINE F == E \ Below(d, v)
<1> HIDE DEF F
<1>3. Seen(doc', k, F) /\ k.roots = g.roots
  BY <1>2 DEF F
<1>4. tree' = Shape(doc', F) /\ doc'.overflowed \in BOOLEAN
  BY <1>3, SteppedTo
<1>5. Assigned(Shape(d, E), v, value, d.overflowed, tree', doc'.overflowed)
  BY <1>2, <1>4 DEF F
<1>6. doc.overflowed \in BOOLEAN
  BY SteppingFacts
<1>7. Document!Assign(Shape(d, E), v, value)
  BY <1>4, <1>5, <1>6, AssignIs
<1> QED
  BY <1>3, <1>7 DEF Stays

LEMMA AddIs ==
  ASSUME NEW g, NEW D, Stepping(g, D), NEW c \in D, doc.var[c].type = "array",
         NEW value \in AllValues, Add(c, value)
  PROVE  Document!Add(c, value) /\ Stays(g)
<1>1. PICK r \in AddValue(doc, c, value) : doc' = r[1]
  BY DEF Add
<1>2. Seen(doc, g, D) /\ tree = Shape(doc, D) /\ Len(r[1].pools) <= MaxPools
  BY <1>1 DEF Stepping
<1>3. PICK h : IF r[2] = NullSlot THEN RanOut(doc, g, D, r[1], h)
               ELSE Sprung(doc, g, D, c, <<r[2]>>, value, r[1], h)
  BY <1>2, ValueShown
<1>4. CASE r[2] = NullSlot
  <2>1. Document!RunOut /\ Stays(g)
    BY <1>1, <1>3, <1>4, RunOutIs
  <2> QED
    BY <2>1 DEF Document!Add
<1>5. CASE r[2] # NullSlot
  <2> DEFINE K == <<r[2]>>
             E == D \cup ToSet(K)
  <2>1. /\ K \in Seq(Slots) /\ ToSet(K) \cap g.in = {} /\ h.roots = g.roots
        /\ (doc'.overflowed <=> doc.overflowed)
        /\ Seen(doc', h, E) /\ Shape(doc', E) = GrownBy(Shape(doc, D), c, K, value)
    BY <1>1, <1>3, <1>5 DEF Sprung
  <2>2. Len(K) = 1 /\ K[1] = r[2] /\ K[1] \in ToSet(K)
    BY DEF ToSet
  <2> HIDE DEF K, E
  <2>3. tree' = Shape(doc', E) /\ doc'.overflowed \in BOOLEAN
    BY <2>1, SteppedTo
  <2>4. /\ DOMAIN tree = D /\ doc.overflowed \in BOOLEAN /\ D \subseteq g.in
    BY SteppingFacts DEF Within
  <2>5. ToSet(K) \cap D = {}
    BY <2>1, <2>4
  <2>6. tree' = [Document!Grown(tree, c, K) EXCEPT ![K[1]] = Document!Node(value)]
    BY <1>2, <2>1, <2>2, <2>3, <2>5, GrownWithIs
  <2>7. K \in Document!Fresh(1)
    <3>1. \A i, j \in 1..Len(K) : K[i] = K[j] => i = j
      BY <2>2
    <3>2. K \in Document!Fresh(Len(K))
      BY <2>1, <2>4, <2>5, <3>1, FreshIs
    <3> QED
      BY <2>2, <3>2
  <2>8. doc'.overflowed = doc.overflowed
    BY <2>1, <2>3, <2>4
  <2> QED
    BY <2>1, <2>6, <2>7, <2>8 DEF Document!Add, Stays
<1> QED
  BY <1>4, <1>5

\* An operation that gives a value to the slot that was found or made.
Giving(q, value) ==
  \E r : /\ doc' = r[1]
         /\ q[2] = NullSlot => r = q
         /\ q[2] # NullSlot => r \in Set(q[1], q[2], value)

LEMMA GivenPools ==
  ASSUME NEW q, Shaped(q[1]), NEW value, Giving(q, value), Len(doc'.pools) <= MaxPools
  PROVE  Len(q[1].pools) <= MaxPools
<1>1. PICK r : /\ doc' = r[1]
               /\ q[2] = NullSlot => r = q
               /\ q[2] # NullSlot => r \in Set(q[1], q[2], value)
  BY DEF Giving
<1>2. CASE q[2] = NullSlot
  BY <1>1, <1>2
<1>3. CASE q[2] # NullSlot
  <2>1. Grows(q[1], r[1])
    BY <1>1, <1>3, SetGrows
  <2>2. /\ Len(q[1].pools) \in Nat /\ Len(r[1].pools) \in Nat /\ MaxPools \in Nat
        /\ Len(q[1].pools) <= Len(r[1].pools)
    BY <2>1, ShapedLen, MaxPoolsIs DEF Grows
  <2> QED
    BY <1>1, <2>2
<1> QED
  BY <1>2, <1>3

\* The slots that an operation appended are different ones.
LEMMA SprungApart ==
  ASSUME NEW d, NEW g, NEW D, Seen(d, g, D), NEW c \in D, NEW K, NEW x, NEW e, NEW h,
         Sprung(d, g, D, c, K, x, e, h)
  PROVE  \A i, j \in 1..Len(K) : K[i] = K[j] => i = j
<1> DEFINE E == D \cup ToSet(K)
           O == Of(d, c)
           P == Of(e, c)
<1>1. /\ K \in Seq(Slots) /\ Seen(e, h, E) /\ c \in E /\ K # << >>
      /\ Shape(e, E) = GrownBy(Shape(d, D), c, K, x)
  BY DEF Sprung
<1>2. P = O \o K
  <2>1. Shape(e, E)[c].of = P
    BY <1>1 DEF Shape
  <2>2. GrownBy(Shape(d, D), c, K, x)[c].of = O \o K
    BY DEF Shape, GrownBy
  <2> QED
    BY <1>1, <2>1, <2>2
<1>3. O \in Seq(D \ {Root}) /\ Within(e, h, E)
  BY <1>1, SeenFacts DEF Within
<1>4. Len(P) = Len(O) + Len(K) /\ Len(O) \in Nat /\ Len(K) \in Nat
      /\ \A i \in 1..Len(K) : P[Len(O) + i] = K[i]
  BY <1>1, <1>2, <1>3
<1>5. Len(K) > 0
  BY <1>1
<1>6. P = Kids(e, c)
  <2>1. P # << >>
    BY <1>4, <1>5
  <2> QED
    BY <2>1 DEF Of
<1>7. Tree(e, h) /\ c \in h.in
  BY <1>1, <1>3 DEF Within, Seen, Good
<1>8. \A i, j \in 1..Len(P) : P[i] = P[j] => i = j
  BY <1>6, <1>7, KidsApart
<1> HIDE DEF O, P
<1>9. ASSUME NEW i \in 1..Len(K), NEW j \in 1..Len(K), K[i] = K[j] PROVE i = j
  <2>1. Len(O) + i \in 1..Len(P) /\ Len(O) + j \in 1..Len(P)
    BY <1>4
  <2>2. P[Len(O) + i] = P[Len(O) + j]
    BY <1>4, <1>9
  <2>3. Len(O) + i = Len(O) + j
    BY <1>8, <2>1, <2>2
  <2> QED
    BY <1>4, <2>3
<1> QED
  BY <1>9

LEMMA PutMemberIs ==
  ASSUME NEW g, NEW D, Stepping(g, D), NEW c \in D, doc.var[c].type = "object",
         NEW s \in Strings, NEW value \in AllValues, PutMember(c, s, value)
  PROVE  Document!PutMember(c, s, value) /\ Stays(g)
<1>1. PICK q \in GetOrAddMember(doc, c, s) : Giving(q, value)
  <2>1. PICK q \in GetOrAddMember(doc, c, s) : \E r :
          /\ doc' = r[1]
          /\ q[2] = NullSlot => r = q
          /\ q[2] # NullSlot => r \in Set(q[1], q[2], value)
    BY DEF PutMember, Then
  <2> QED
    BY <2>1 DEF Giving
<1>2. PICK r : /\ doc' = r[1]
               /\ q[2] = NullSlot => r = q
               /\ q[2] # NullSlot => r \in Set(q[1], q[2], value)
  BY <1>1 DEF Giving
<1>3. /\ Seen(doc, g, D) /\ tree = Shape(doc, D) /\ Len(doc'.pools) <= MaxPools
      /\ Within(doc, g, D) /\ doc.overflowed \in BOOLEAN /\ DOMAIN tree = D
      /\ tree[c].of = Of(doc, c) /\ D \subseteq g.in /\ doc \in Documents
  BY SteppingFacts DEF Stepping, Within
<1> DEFINE key == FindKey(doc, c, s)
           keys == Document!KeysAt(tree, c, s)
<1>4. /\ keys = {} <=> key = NullSlot
      /\ key # NullSlot =>
           \E i \in keys : /\ i \in 1..Len(Of(doc, c)) /\ i + 1 \in 1..Len(Of(doc, c))
                           /\ Of(doc, c)[i] = key /\ Of(doc, c)[i + 1] = doc.var[key].next
  <2>1. /\ Document!KeysAt(Shape(doc, D), c, s) = {} <=> FindKey(doc, c, s) = NullSlot
        /\ FindKey(doc, c, s) # NullSlot =>
             \E i \in Document!KeysAt(Shape(doc, D), c, s) :
               /\ i \in 1..Len(Of(doc, c)) /\ i + 1 \in 1..Len(Of(doc, c))
               /\ Of(doc, c)[i] = FindKey(doc, c, s)
               /\ Of(doc, c)[i + 1] = doc.var[FindKey(doc, c, s)].next
    BY <1>3, KeyShown
  <2> QED
    BY <1>3, <2>1
<1>5. CASE key # NullSlot
  <2>1. PICK i \in keys : i + 1 \in 1..Len(Of(doc, c)) /\ Of(doc, c)[i + 1] = doc.var[key].next
    BY <1>4, <1>5
  <2> DEFINE v == doc.var[key].next
  <2>2. q = <<doc, v>>
    BY <1>1, <1>5 DEF GetOrAddMember
  <2>3. v \in D /\ v # NullSlot
    <3>1. Of(doc, c) \in Seq(D \ {Root}) /\ D \subseteq Nodes
      BY <1>3 DEF Within
    <3>2. v \in D
      BY <2>1, <3>1
    <3> QED
      BY <3>1, <3>2, Sizes
  <2>4. r \in Set(doc, v, value)
    BY <1>2, <2>2, <2>3
  <2> HIDE DEF v, key, keys
  <2>5. Document!Assign(tree, v, value) /\ Stays(g)
    BY <1>2, <1>3, <2>3, <2>4, AssignedIs
  <2>6. tree[c].of[i + 1] = v
    BY <1>3, <2>1 DEF v
  <2> QED
    BY <2>1, <2>5, <2>6 DEF keys, Document!PutMember
<1>6. CASE key = NullSlot
  <2>1. keys = {}
    BY <1>4, <1>6
  <2>2. Len(q[1].pools) <= MaxPools
    <3>1. Shaped(doc)
      BY <1>3, ShapedDocument
    <3>2. Grows(doc, q[1])
      BY <1>1, <3>1, MemberGrows
    <3> QED
      BY <1>1, <1>3, <3>2, GivenPools DEF Grows
  <2>3. PICK h : IF q[2] = NullSlot THEN RanOut(doc, g, D, q[1], h)
                 ELSE \E k : /\ Sprung(doc, g, D, c, <<k, q[2]>>, s, q[1], h)
                             /\ q[1].var[q[2]].type = "null"
    <3>1. Seen(doc, g, D) /\ FindKey(doc, c, s) = NullSlot /\ q \in GetOrAddMember(doc, c, s)
      BY <1>1, <1>3, <1>6
    <3> HIDE DEF key, keys
    <3> QED
      BY <2>2, <3>1, MemberShown
  <2>4. CASE q[2] = NullSlot
    <3>1. Document!RunOut /\ Stays(g)
      BY <1>2, <2>3, <2>4, RunOutIs
    <3> QED
      BY <3>1 DEF Document!PutMember
  <2>5. CASE q[2] # NullSlot
    <3>1. PICK k : Sprung(doc, g, D, c, <<k, q[2]>>, s, q[1], h)
      BY <2>3, <2>5
    <3> DEFINE K == <<k, q[2]>>
               E == D \cup ToSet(K)
               d == q[1]
    <3>2. /\ K \in Seq(Slots) /\ ToSet(K) \cap g.in = {} /\ h.roots = g.roots
          /\ (d.overflowed <=> doc.overflowed)
          /\ Seen(d, h, E) /\ Shape(d, E) = GrownBy(tree, c, K, s)
      BY <1>3, <3>1 DEF Sprung
    <3>3. /\ Len(K) = 2 /\ K[1] = k /\ K[2] = q[2] /\ K[1] \in ToSet(K) /\ K[2] \in ToSet(K)
      BY DEF ToSet
    <3> HIDE DEF K, E
    <3>4. ToSet(K) \cap D = {}
      BY <1>3, <3>2
    <3>5. Shape(d, E) = [Document!Grown(tree, c, K) EXCEPT ![K[1]] = Document!Node(s)]
      BY <1>3, <3>2, <3>3, <3>4, GrownWithIs
    <3>6. K \in Document!Fresh(2)
      <4>1. \A i, j \in 1..Len(K) : K[i] = K[j] => i = j
        <5>1. Sprung(doc, g, D, c, K, s, d, h)
          BY <3>1 DEF K
        <5> QED
          BY <1>3, <5>1, SprungApart
      <4>2. K \in Document!Fresh(Len(K))
        BY <1>3, <3>2, <3>4, <4>1, FreshIs
      <4> QED
        BY <3>3, <4>2
    <3>7. K[2] \in E
      BY <3>3 DEF E
    <3>8. Document!Assign(Shape(d, E), K[2], value) /\ Stays(g)
      <4>1. r \in Set(d, K[2], value)
        BY <1>2, <2>5, <3>3
      <4> HIDE DEF d
      <4> QED
        BY <1>2, <3>2, <3>7, <4>1, AssignedIs
    <3> QED
      BY <2>1, <3>5, <3>6, <3>8 DEF keys, Document!PutMember
  <2> QED
    BY <2>4, <2>5
<1> QED
  BY <1>5, <1>6

\* Elements that a step made without giving one a value, for memory ran out.
LEMMA LongerIs ==
  ASSUME NEW g, NEW D, Stepping(g, D), NEW c \in D, NEW K, NEW h,
         Longer(doc, g, D, c, K, doc', h), doc'.overflowed
  PROVE  K \in Document!Fresh(Len(K)) /\ tree' = Document!Grown(tree, c, K) /\ doc'.overflowed = TRUE
         /\ Stays(g)
<1> DEFINE E == D \cup ToSet(K)
<1>1. /\ K \in Seq(Slots) /\ ToSet(K) \cap D = {} /\ h.roots = g.roots
      /\ \A i, j \in 1..Len(K) : K[i] = K[j] => i = j
      /\ Seen(doc', h, E) /\ Shape(doc', E) = GrownBy(Shape(doc, D), c, K, "null")
  BY DEF Longer
<1>2. tree' = Shape(doc', E) /\ doc'.overflowed \in BOOLEAN
  BY <1>1, SteppedTo
<1>3. tree = Shape(doc, D) /\ DOMAIN tree = D
  BY SteppingFacts DEF Stepping
<1>4. K \in Document!Fresh(Len(K))
  BY <1>1, <1>3, FreshIs
<1>5. tree' = Document!Grown(tree, c, K)
  BY <1>1, <1>2, <1>3, GrownIs
<1> QED
  BY <1>1, <1>2, <1>4, <1>5 DEF Stays

LEMMA PutElementIs ==
  ASSUME NEW g, NEW D, Stepping(g, D), NEW c \in D, doc.var[c].type = "array",
         NEW i \in Nat, i > 0, NEW value \in AllValues, PutElement(c, i, value)
  PROVE  Document!PutElement(c, i, value) /\ Stays(g)
<1>1. PICK q \in GetOrAddElement(doc, c, i) : Giving(q, value)
  <2>1. PICK q \in GetOrAddElement(doc, c, i) : \E r :
          /\ doc' = r[1]
          /\ q[2] = NullSlot => r = q
          /\ q[2] # NullSlot => r \in Set(q[1], q[2], value)
    BY DEF PutElement, Then
  <2> QED
    BY <2>1 DEF Giving
<1>2. PICK r : /\ doc' = r[1]
               /\ q[2] = NullSlot => r = q
               /\ q[2] # NullSlot => r \in Set(q[1], q[2], value)
  BY <1>1 DEF Giving
<1>3. /\ Seen(doc, g, D) /\ tree = Shape(doc, D) /\ Len(doc'.pools) <= MaxPools
      /\ Within(doc, g, D) /\ doc.overflowed \in BOOLEAN /\ DOMAIN tree = D
      /\ tree[c].of = Of(doc, c) /\ D \subseteq g.in /\ doc \in Documents /\ D \subseteq Nodes
      /\ Of(doc, c) \in Seq(D \ {Root})
  BY SteppingFacts DEF Stepping, Within
<1>4. Kids(doc, c) = tree[c].of /\ Len(tree[c].of) \in Nat
  BY <1>3 DEF Of, Collection
<1> DEFINE n == Len(tree[c].of)
           m == i - n
<1>5. CASE i \in 1..Len(Kids(doc, c)) /\ q = <<doc, Kids(doc, c)[i]>>
  <2> DEFINE v == tree[c].of[i]
  <2>1. v \in D /\ v # NullSlot /\ q = <<doc, v>> /\ i <= n
    <3>1. i \in 1..Len(Of(doc, c)) /\ q = <<doc, v>>
      BY <1>3, <1>4, <1>5
    <3>2. v \in D
      BY <1>3, <3>1
    <3> QED
      BY <1>3, <3>1, <3>2, Sizes
  <2>2. r \in Set(doc, v, value)
    BY <1>2, <2>1
  <2> HIDE DEF v
  <2>3. Document!Assign(tree, v, value) /\ Stays(g)
    BY <1>2, <1>3, <2>1, <2>2, AssignedIs
  <2> QED
    BY <2>1, <2>3 DEF v, Document!PutElement
<1>6. CASE \E f : AddedBy(doc, c, i, f) /\ q \in f[m] /\ ~ (i <= n)
  <2>1. PICK f : AddedBy(doc, c, i, f) /\ q \in f[m] /\ ~ (i <= n)
    BY <1>6
  <2>2. m \in 0..i /\ m \in Nat /\ m > 0 /\ i > n
    BY <1>4, <2>1
  <2> HIDE DEF m, n
  <2>3. Lengthened(doc, g, D, c, m, q)
    BY <1>3, <2>1, <2>2, ElementsShown
  <2>4. Len(q[1].pools) <= MaxPools
    <3>1. Shaped(doc)
      BY <1>3, ShapedDocument
    <3>2. Grows(doc, q[1])
      BY <2>3 DEF Lengthened
    <3>3. Shaped(q[1])
      BY <3>1, <3>2 DEF Grows
    <3> QED
      BY <1>1, <1>3, <3>3, GivenPools
  <2>5. PICK K, h : /\ Longer(doc, g, D, c, K, q[1], h)
                    /\ IF q[2] = NullSlot THEN q[1].overflowed /\ Len(K) < m
                       ELSE /\ (q[1].overflowed <=> doc.overflowed) /\ Len(K) = m
                            /\ m > 0 => q[2] = K[m]
    BY <2>3, <2>4 DEF Lengthened
  <2>6. CASE q[2] = NullSlot
    <3>1. Longer(doc, g, D, c, K, doc', h) /\ doc'.overflowed
      BY <1>2, <2>5, <2>6
    <3>2. K \in Document!Fresh(Len(K)) /\ tree' = Document!Grown(tree, c, K) /\ doc'.overflowed = TRUE
          /\ Stays(g)
      BY <3>1, LongerIs
    <3>3. Len(K) \in 0..m - 1
      <4>1. Len(K) \in Nat
        BY <3>1 DEF Longer
      <4> QED
        BY <2>2, <2>5, <2>6, <4>1
    <3> QED
      BY <2>2, <3>2, <3>3 DEF m, n, Document!PutElement
  <2>7. CASE q[2] # NullSlot
    <3> DEFINE E == D \cup ToSet(K)
               d == q[1]
    <3>1. /\ K \in Seq(Slots) /\ ToSet(K) \cap D = {} /\ h.roots = g.roots
          /\ \A j, k \in 1..Len(K) : K[j] = K[k] => j = k
          /\ Seen(d, h, E) /\ Shape(d, E) = GrownBy(tree, c, K, "null")
      BY <1>3, <2>5 DEF Longer
    <3>2. Len(K) = m /\ q[2] = K[m] /\ (d.overflowed <=> doc.overflowed)
      BY <2>2, <2>5, <2>7
    <3>3. K \in Document!Fresh(m)
      BY <1>3, <3>1, <3>2, FreshIs
    <3>4. Shape(d, E) = Document!Grown(tree, c, K)
      BY <1>3, <3>1, GrownIs
    <3>5. K[m] \in E
      <4>1. K[m] \in ToSet(K)
        BY <2>2, <3>1, <3>2 DEF ToSet
      <4> QED
        BY <4>1
    <3>6. r \in Set(d, K[m], value)
      BY <1>2, <2>7, <3>2
    <3> HIDE DEF d, E
    <3>7. Document!Assign(Shape(d, E), K[m], value) /\ Stays(g)
      BY <1>2, <3>1, <3>2, <3>5, <3>6, AssignedIs
    <3> QED
      BY <2>2, <3>3, <3>4, <3>7 DEF m, n, Document!PutElement
  <2> QED
    BY <2>6, <2>7
<1> QED
  <2>1. \/ i \in 1..Len(Kids(doc, c)) /\ q = <<doc, Kids(doc, c)[i]>>
        \/ \E f, j : AddedBy(doc, c, i, f) /\ q \in f[j] /\ j = i - Len(Kids(doc, c)) /\ ~ (i <= Len(Kids(doc, c)))
    BY AddedAre
  <2> QED
    BY <1>4, <1>5, <1>6, <2>1

LEMMA ReducedIs ==
  ASSUME NEW g, NEW D, Stepping(g, D), NEW c, NEW left, Reduced(doc, g, D, c, left, doc')
  PROVE  Document!Leave(c, left) /\ Stays(g)
<1>1. PICK h, E : /\ Seen(doc', h, E) /\ h.roots = g.roots /\ (doc'.overflowed <=> doc.overflowed)
                  /\ Left(Shape(doc, D), c, left, Shape(doc', E))
  BY DEF Reduced
<1>2. tree' = Shape(doc', E) /\ doc'.overflowed \in BOOLEAN
  BY <1>1, SteppedTo
<1>3. tree = Shape(doc, D) /\ doc.overflowed \in BOOLEAN
  BY SteppingFacts DEF Stepping
<1>4. Left(tree, c, left, tree')
  BY <1>1, <1>2, <1>3
<1>5. Document!Leave(c, left)
  BY <1>1, <1>2, <1>3, <1>4, LeaveIs
<1> QED
  BY <1>1, <1>5 DEF Stays

LEMMA RemoveElementIs ==
  ASSUME NEW g, NEW D, Stepping(g, D), NEW c \in D, doc.var[c].type = "array",
         NEW i \in Nat, i > 0, RemoveElement(c, i)
  PROVE  Document!RemoveElement(c, i) /\ Stays(g)
<1>1. /\ Seen(doc, g, D) /\ tree[c].of = Of(doc, c) /\ Of(doc, c) \in Seq(D \ {Root})
  BY SteppingFacts DEF Stepping, Within
<1>2. Kids(doc, c) = Of(doc, c)
  BY DEF Of, Collection
<1>3. i <= Len(Of(doc, c)) /\ doc' = RemoveOne(doc, c, Of(doc, c)[i])
  BY <1>2 DEF RemoveElement
<1>4. i \in 1..Len(Of(doc, c)) /\ i \in DOMAIN Of(doc, c)
  BY <1>1, <1>3
<1>5. Reduced(doc, g, D, c, Document!RemoveAt(Of(doc, c), i), doc')
  BY <1>1, <1>3, <1>4, ElementLeaves
<1>6. Document!Leave(c, Document!RemoveAt(Of(doc, c), i)) /\ Stays(g)
  BY <1>5, ReducedIs
<1> QED
  BY <1>1, <1>4, <1>6 DEF Document!RemoveElement

LEMMA RemoveMemberIs ==
  ASSUME NEW g, NEW D, Stepping(g, D), NEW c \in D, doc.var[c].type = "object",
         NEW s \in Strings, RemoveMember(c, s)
  PROVE  Document!RemoveMember(c, s) /\ Stays(g)
<1> DEFINE key == FindKey(doc, c, s)
           keys == Document!KeysAt(Shape(doc, D), c, s)
           K == Of(doc, c)
<1>1. /\ Seen(doc, g, D) /\ tree = Shape(doc, D) /\ tree[c].of = K
      /\ D \subseteq g.in /\ Good(doc, g) /\ K \in Seq(D \ {Root})
      /\ \A u \in D : tree[u].is = Is(doc, u)
  BY SteppingFacts DEF Stepping, Within
<1>2. key # NullSlot /\ doc' = RemovePair(doc, c, key)
  BY DEF RemoveMember
<1>3. PICK i \in keys : /\ i \in 1..Len(K) /\ i + 1 \in 1..Len(K)
                        /\ K[i] = key /\ K[i + 1] = doc.var[key].next
  <2>1. FindKey(doc, c, s) # NullSlot =>
          \E i \in Document!KeysAt(Shape(doc, D), c, s) :
            /\ i \in 1..Len(Of(doc, c)) /\ i + 1 \in 1..Len(Of(doc, c))
            /\ Of(doc, c)[i] = FindKey(doc, c, s) /\ Of(doc, c)[i + 1] = doc.var[FindKey(doc, c, s)].next
    BY <1>1, KeyShown
  <2> QED
    BY <1>2, <2>1
<1>4. g.role[key] = "key"
  <2>1. c \in g.in
    BY <1>1
  <2> QED
    BY <1>1, <1>2, <2>1, FindKeyIs
<1>5. tree[key].is = s
  BY <1>1, <1>3 DEF Document!KeysAt
<1>6. key \in D
  BY <1>1, <1>3
<1>7. doc.var[key].type \notin Collection
  <2>1. Is(doc, key) = s
    BY <1>1, <1>5, <1>6
  <2>2. s # "array" /\ s # "object"
    BY StringsAssumption DEF Strings
  <2> QED
    BY <2>1, <2>2 DEF Is, Collection
<1> HIDE DEF key, keys
<1>8. MemberAt(doc, g, D, c, i, key, doc.var[key].next)
  BY <1>3, <1>4, <1>7 DEF MemberAt
<1> DEFINE left == Document!RemoveAt(Document!RemoveAt(K, i), i)
<1>9. Reduced(doc, g, D, c, left, doc')
  BY <1>1, <1>2, <1>8, MemberLeaves
<1> HIDE DEF left
<1>10. Document!Leave(c, left) /\ Stays(g)
  BY <1>9, ReducedIs
<1>11. i \in Document!KeysAt(tree, c, s)
  BY <1>1, <1>3 DEF keys
<1> QED
  BY <1>1, <1>10, <1>11 DEF left, Document!RemoveMember

\* An empty document is an empty tree.
LEMMA EmptyShown ==
  /\ Seen(Empty, OnlyRoot, {Root}) /\ OnlyRoot.roots = {Root} /\ Empty.overflowed = FALSE
  /\ Shape(Empty, {Root}) = [v \in {Root} |-> Document!Node("null")]
<1>1. Good(Empty, OnlyRoot) /\ OnlyRoot.in = {Root} /\ OnlyRoot.roots = {Root}
  BY EmptyGood DEF OnlyRoot
<1>2. Empty.var[Root] = NullVariant /\ Empty.overflowed = FALSE
  BY DEF Empty
<1>3. Of(Empty, Root) = << >> /\ Is(Empty, Root) = "null"
  BY <1>2, NullFields DEF Of, Is, Collection
<1>4. Proper(Empty, Root)
  BY <1>2, NullFields DEF Proper
<1>5. Shows(Empty, {Root})
  BY <1>3, <1>4 DEF Shows, ToSet
<1>6. Seen(Empty, OnlyRoot, {Root})
  BY <1>1, <1>5 DEF Seen
<1>7. Shape(Empty, {Root}) = [v \in {Root} |-> Document!Node("null")]
  BY <1>3 DEF Shape, Document!Node
<1> QED
  BY <1>1, <1>2, <1>6, <1>7

LEMMA ClearIs ==
  ASSUME NEW g, NEW D, Stepping(g, D), g.roots = {Root}, doc' = Empty
  PROVE  Document!Clear /\ Stays(g)
<1>1. tree' = TreeOf(doc')
  BY DEF Stepping
<1>2. tree' = Shape(Empty, {Root})
  BY <1>1, EmptyShown, ShapeIs
<1> QED
  BY <1>2, EmptyShown DEF Document!Clear, Stays

LEMMA SetIs ==
  ASSUME NEW g, NEW D, Stepping(g, D), g.roots = {Root}, NEW value \in AllValues, SetDocument(value)
  PROVE  Document!SetTree(value) /\ Stays(g)
<1> DEFINE F == {Root} \ Below(Empty, Root)
<1>1. PICK r \in Set(Empty, Root, value) : doc' = r[1]
  BY DEF SetDocument
<1>2. /\ Seen(Empty, OnlyRoot, {Root}) /\ OnlyRoot.roots = {Root} /\ Empty.overflowed = FALSE
      /\ Len(r[1].pools) <= MaxPools
  BY <1>1, EmptyShown DEF Stepping
<1>3. PICK h : /\ Seen(r[1], h, F) /\ h.roots = {Root}
               /\ Assigned(Shape(Empty, {Root}), Root, value, FALSE, Shape(r[1], F), r[1].overflowed)
  <2>1. \E h : /\ Seen(r[1], h, F) /\ h.roots = OnlyRoot.roots
               /\ Assigned(Shape(Empty, {Root}), Root, value, Empty.overflowed, Shape(r[1], F),
                           r[1].overflowed)
    BY <1>1, <1>2, VariantShown
  <2> QED
    BY <1>2, <2>1
<1>4. F = {Root}
  BY <1>3, SeenFacts DEF Within
<1> HIDE DEF F
<1>5. /\ tree' = Shape(r[1], {Root}) /\ doc'.overflowed \in BOOLEAN /\ Seen(doc', h, {Root})
      /\ Assigned(Shape(Empty, {Root}), Root, value, FALSE, tree', doc'.overflowed)
  BY <1>1, <1>3, <1>4, SteppedTo
<1> DEFINE t == Shape(Empty, {Root})
<1>6. DOMAIN t = {Root} /\ DOMAIN tree' = {Root} /\ DOMAIN t \ DOMAIN tree' = {}
  BY <1>5 DEF Shape
<1> HIDE DEF t
<1>7. \/ tree' = [w \in {Root} |-> Document!Node(value)] /\ doc'.overflowed = FALSE
      \/ tree' = [w \in {Root} |-> Document!Node("null")] /\ doc'.overflowed = TRUE
  <2> DEFINE assigned(x) == [w \in DOMAIN t \ {} |-> IF w = Root THEN Document!Node(x) ELSE t[w]]
  <2>1. \/ tree' = assigned(value) /\ doc'.overflowed = FALSE
        \/ tree' = assigned("null") /\ doc'.overflowed = TRUE
    BY <1>5, <1>6 DEF Assigned, t
  <2>2. \A x : assigned(x) = [w \in {Root} |-> Document!Node(x)]
    BY <1>6
  <2> HIDE DEF assigned
  <2> QED
    BY <2>1, <2>2
<1> QED
  BY <1>3, <1>5, <1>7 DEF Document!SetTree, Stays

LEMMA SameIs ==
  ASSUME NEW g, NEW D, Stepping(g, D), NEW h, Good(doc', h), g.in \subseteq h.in, h.roots = g.roots,
         doc'.var = doc.var
  PROVE  tree' = tree /\ Stays(g)
<1>1. Seen(doc, g, D) /\ tree = Shape(doc, D) /\ D \subseteq g.in
  BY DEF Stepping, Seen
<1>2. Seen(doc', h, D) /\ Shape(doc', D) = Shape(doc, D)
  BY <1>1, SameShown
<1>3. tree' = Shape(doc', D)
  BY <1>2, SteppedTo
<1> QED
  BY <1>1, <1>2, <1>3 DEF Stays

LEMMA ShrinkIs ==
  ASSUME NEW g, NEW D, Stepping(g, D), doc' \in Shrunk(doc)
  PROVE  tree' = tree /\ doc'.overflowed = doc.overflowed /\ Stays(g)
<1>1. Good(doc, g)
  BY DEF Stepping, Seen
<1>2. Good(doc', g) /\ doc'.var = doc.var
  BY <1>1, ShrunkGood
<1>3. tree' = tree /\ Stays(g)
  BY <1>2, SameIs
<1>4. doc'.overflowed = doc.overflowed
  <2>1. doc \in Documents
    BY <1>1 DEF Good, Tree
  <2> QED
    BY <2>1 DEF Shrunk, Documents
<1> QED
  BY <1>3, <1>4

\* The collections of the document are those of its tree.
LEMMA CollectionsIn ==
  ASSUME NEW g, NEW D, Stepping(g, D), NEW type \in Collection, NEW c \in Collections(type)
  PROVE  c \in D /\ doc.var[c].type = type /\ c \in Document!Those(tree, type)
<1>1. Seen(doc, g, D) /\ DOMAIN tree = D /\ \A u \in D : tree[u].is = Is(doc, u)
  BY SteppingFacts DEF Stepping
<1>2. c \in Reached(doc) /\ doc.var[c].type = type
  BY DEF Collections
<1>3. c \in D
  BY <1>1, <1>2, SeenReached
<1>4. Is(doc, c) = type
  BY <1>2 DEF Is, Collection
<1> QED
  BY <1>1, <1>2, <1>3, <1>4 DEF Document!Those

\* What an operation of the program does is what it does to the tree.
LEMMA UseIs ==
  ASSUME NEW g, NEW D, Stepping(g, D), g.roots = {Root}, Use
  PROVE  (Document!Next \/ UNCHANGED Document!vars) /\ Stays(g)
<1>1. Values \subseteq Strings \cup Plain \cup {"null", "ext", "array", "object"} /\ Values \subseteq AllValues
  BY DEF Values, AllValues, Strings, Plain
<1>2. /\ DOMAIN tree = D /\ Root \in D /\ \A u \in D : tree[u].of = Of(doc, u) /\ Of(doc, u) \in Seq(D \ {Root})
  BY SteppingFacts DEF Within
<1>3. ASSUME NEW value \in Values, NEW c \in Collections("object"), NEW s \in Long \cup Short,
             PutMember(c, s, value)
      PROVE  Document!Next /\ Stays(g)
  <2>1. c \in D /\ doc.var[c].type = "object" /\ c \in Document!Those(tree, "object")
    BY <1>3, CollectionsIn DEF Collection
  <2>2. s \in Strings /\ value \in AllValues
    BY <1>1 DEF Strings
  <2>3. Document!PutMember(c, s, value) /\ Stays(g)
    BY <1>3, <2>1, <2>2, PutMemberIs
  <2> QED
    BY <1>1, <2>1, <2>2, <2>3 DEF Document!Next
<1>4. ASSUME NEW value \in Values, NEW c \in Collections("array"),
             NEW i \in 1..Len(Kids(doc, c)) + 2, PutElement(c, i, value)
      PROVE  Document!Next /\ Stays(g)
  <2>1. c \in D /\ doc.var[c].type = "array" /\ c \in Document!Those(tree, "array")
    BY <1>4, CollectionsIn DEF Collection
  <2>2. Kids(doc, c) = tree[c].of /\ Len(tree[c].of) \in Nat
    BY <1>2, <2>1 DEF Of, Collection
  <2>3. i \in Nat /\ i > 0 /\ i \in 1..Len(tree[c].of) + 2
    BY <2>2
  <2>4. Document!PutElement(c, i, value) /\ Stays(g)
    BY <1>1, <1>4, <2>1, <2>3, PutElementIs
  <2> QED
    BY <1>1, <2>1, <2>3, <2>4 DEF Document!Next
<1>5. ASSUME NEW value \in Values, NEW c \in Collections("array"), Add(c, value)
      PROVE  Document!Next /\ Stays(g)
  <2>1. c \in D /\ doc.var[c].type = "array" /\ c \in Document!Those(tree, "array")
    BY <1>5, CollectionsIn DEF Collection
  <2>2. Document!Add(c, value) /\ Stays(g)
    BY <1>1, <1>5, <2>1, AddIs
  <2> QED
    BY <1>1, <2>1, <2>2 DEF Document!Next
<1>6. ASSUME NEW value \in Values, SetDocument(value)
      PROVE  Document!Next /\ Stays(g)
  <2>1. Document!SetTree(value) /\ Stays(g)
    BY <1>1, <1>6, SetIs
  <2> QED
    BY <1>1, <2>1 DEF Document!Next
<1>7. ASSUME NEW c \in Collections("object"), NEW s \in Long \cup Short, RemoveMember(c, s)
      PROVE  Document!Next /\ Stays(g)
  <2>1. c \in D /\ doc.var[c].type = "object" /\ c \in Document!Those(tree, "object") /\ s \in Strings
    BY <1>7, CollectionsIn DEF Collection, Strings
  <2>2. Document!RemoveMember(c, s) /\ Stays(g)
    BY <1>7, <2>1, RemoveMemberIs
  <2> QED
    BY <2>1, <2>2 DEF Document!Next
<1>8. ASSUME NEW c \in Collections("array"), NEW i \in 1..NullSlot, RemoveElement(c, i)
      PROVE  Document!Next /\ Stays(g)
  <2>1. c \in D /\ doc.var[c].type = "array" /\ c \in Document!Those(tree, "array")
    BY <1>8, CollectionsIn DEF Collection
  <2>2. i \in Nat /\ i > 0
    OBVIOUS
  <2>3. Document!RemoveElement(c, i) /\ Stays(g)
    BY <1>8, <2>1, <2>2, RemoveElementIs
  <2>4. i \in 1..Len(tree[c].of)
    <3>1. tree[c].of \in Seq(D \ {Root}) /\ i \in DOMAIN tree[c].of
      BY <1>2, <2>1, <2>3 DEF Document!RemoveElement
    <3> QED
      BY <3>1
  <2> QED
    BY <2>1, <2>3, <2>4 DEF Document!Next
<1>9. CASE ClearDocument
  <2>1. Document!Clear /\ Stays(g)
    BY <1>9, ClearIs DEF ClearDocument
  <2> QED
    BY <2>1 DEF Document!Next
<1>10. CASE ShrinkToFit
  <2>1. tree' = tree /\ doc'.overflowed = doc.overflowed /\ Stays(g)
    BY <1>10, ShrinkIs DEF ShrinkToFit
  <2> QED
    BY <2>1 DEF Document!vars
<1> QED
  BY <1>3, <1>4, <1>5, <1>6, <1>7, <1>8, <1>9, <1>10 DEF Use

LEMMA AskedIs ==
  ASSUME NEW g, NEW D, Stepping(g, D), g.roots = {Root}
  PROVE  AsAsked
<1>1. Values \subseteq AllValues /\ Root \in D
  BY SteppingFacts DEF Values, AllValues, Strings, Plain, Within
<1>2. \A u \in D : Of(doc, u) \in Seq(D \ {Root})
  BY SteppingFacts DEF Within
<1>3. ASSUME NEW c \in Collections("object"), NEW s \in Strings
      PROVE  /\ \A value \in Values : PutMember(c, s, value) => Document!PutMember(c, s, value)
             /\ RemoveMember(c, s) => Document!RemoveMember(c, s)
  <2>1. c \in D /\ doc.var[c].type = "object"
    BY <1>3, CollectionsIn DEF Collection
  <2> QED
    BY <1>1, <2>1, PutMemberIs, RemoveMemberIs
<1>4. ASSUME NEW c \in Collections("array")
      PROVE  /\ \A value \in Values :
                  /\ Add(c, value) => Document!Add(c, value)
                  /\ \A i \in 1 .. Len(Kids(doc, c)) + 2 :
                       PutElement(c, i, value) => Document!PutElement(c, i, value)
             /\ \A i \in 1 .. Len(Kids(doc, c)) : RemoveElement(c, i) => Document!RemoveElement(c, i)
  <2>1. c \in D /\ doc.var[c].type = "array"
    BY <1>4, CollectionsIn DEF Collection
  <2>2. Len(Kids(doc, c)) \in Nat
    BY <1>2, <2>1 DEF Of, Collection
  <2>3. \A i \in 1 .. Len(Kids(doc, c)) + 2 : i \in Nat /\ i > 0
    BY <2>2
  <2>4. \A i \in 1 .. Len(Kids(doc, c)) : i \in Nat /\ i > 0
    BY <2>2
  <2>5. ASSUME NEW value \in Values PROVE Add(c, value) => Document!Add(c, value)
    BY <1>1, <2>1, AddIs
  <2>6. ASSUME NEW value \in Values, NEW i \in 1 .. Len(Kids(doc, c)) + 2
        PROVE  PutElement(c, i, value) => Document!PutElement(c, i, value)
    BY <1>1, <2>1, <2>3, PutElementIs
  <2>7. ASSUME NEW i \in 1 .. Len(Kids(doc, c))
        PROVE  RemoveElement(c, i) => Document!RemoveElement(c, i)
    BY <2>1, <2>4, RemoveElementIs
  <2> QED
    BY <2>5, <2>6, <2>7
<1>5. \A value \in Values : SetDocument(value) => Document!SetTree(value)
  BY <1>1, SetIs
<1>6. ClearDocument => Document!Clear
  BY ClearIs DEF ClearDocument
<1>7. ShrinkToFit => UNCHANGED Document!vars
  BY ShrinkIs DEF ShrinkToFit, Document!vars
<1> QED
  BY <1>3, <1>4, <1>5, <1>6, <1>7 DEF AsAsked

-----------------------------------------------------------------------------
(***************************************************************************)
(* What the parser does to a document is done to its tree                  *)
(***************************************************************************)
\* What the parser goes on with is in the tree.
Placed ==
  /\ \A i \in 1..Len(parser.open) : parser.open[i] \in DOMAIN tree
  /\ parser.todo = "value" => parser.node \in Document!Places(tree)

\* A step of the parser, seen. k is what IInv knows of.
Stage(g, D, k) == Stepping(g, D) /\ g.roots = {Root} /\ Building(k) /\ Placed

\* A step that the tree can take, after which it can take the next.
Settled == \E h, E : Seen(doc', h, E) /\ h.roots = {Root}
Mirrored ==
  /\ Document!Next \/ UNCHANGED Document!vars
  /\ Settled
  /\ error' = Running => Placed'

LEMMA LedTo ==
  ASSUME NEW g, NEW D, Stepping(g, D), NEW d, NEW h, NEW E, Seen(d, h, E), h.roots = {Root},
         doc' = d \/ doc' \in Shrunk(d)
  PROVE  /\ tree' = Shape(d, E) /\ DOMAIN tree' = E /\ (doc'.overflowed <=> d.overflowed)
         /\ doc'.overflowed \in BOOLEAN /\ Settled
<1>1. Good(d, h) /\ Within(d, h, E)
  BY SeenFacts DEF Seen
<1>2. Good(doc', h) /\ doc'.var = d.var
  BY <1>1, ShrunkGood
<1>3. Seen(doc', h, E) /\ Shape(doc', E) = Shape(d, E)
  <2>1. E \subseteq h.in
    BY DEF Seen
  <2> QED
    BY <1>2, <2>1, SameShown
<1>4. tree' = Shape(doc', E) /\ doc'.overflowed \in BOOLEAN
  BY <1>3, SteppedTo
<1>5. doc'.overflowed = d.overflowed
  <2>1. d \in Documents
    BY <1>1 DEF Within
  <2>2. \A e \in Shrunk(d) : e.overflowed = d.overflowed
    BY <2>1 DEF Shrunk, Documents
  <2> QED
    BY <2>2
<1>6. DOMAIN Shape(d, E) = E
  BY DEF Shape
<1> QED
  BY <1>3, <1>4, <1>5, <1>6 DEF Settled

LEMMA StageFacts ==
  ASSUME NEW g, NEW D, NEW k, Stage(g, D, k)
  PROVE  /\ Stepping(g, D) /\ Seen(doc, g, D) /\ g.roots = {Root} /\ tree = Shape(doc, D) /\ DOMAIN tree = D
         /\ error = Running /\ doc \in Documents /\ Shaped(doc) /\ doc.overflowed \in BOOLEAN
         /\ Building(k) /\ ParserRecord(parser) /\ ParserRecord(Moved)
         /\ Moved.open = parser.open /\ Moved.todo = parser.todo
         /\ \A i \in 1..Len(parser.open) : parser.open[i] \in D
         /\ parser.todo = "value" => parser.node \in Document!Places(tree)
         /\ Len(doc'.pools) <= MaxPools
<1>1. Stepping(g, D) /\ g.roots = {Root} /\ Building(k) /\ Placed
  BY DEF Stage
<1>2. /\ Seen(doc, g, D) /\ tree = Shape(doc, D) /\ DOMAIN tree = D /\ doc.overflowed \in BOOLEAN
      /\ Len(doc'.pools) <= MaxPools
  BY <1>1, SteppingFacts DEF Stepping
<1>3. /\ error = Running /\ ParserRecord(parser) /\ ParserRecord(Moved) /\ Moved.open = parser.open
      /\ doc \in Documents /\ Shaped(doc)
  BY <1>1, BuildingFacts DEF Building
<1>4. Moved.todo = parser.todo
  BY <1>3, MovedFields
<1> QED
  BY <1>1, <1>2, <1>3, <1>4 DEF Placed

LEMMA SameMirrored ==
  ASSUME NEW g, NEW D, NEW k, Stage(g, D, k), doc' = doc \/ doc' \in Shrunk(doc)
  PROVE  UNCHANGED Document!vars /\ Settled /\ DOMAIN tree' = D
<1>1. /\ tree' = Shape(doc, D) /\ (doc'.overflowed <=> doc.overflowed) /\ doc'.overflowed \in BOOLEAN
      /\ Settled /\ DOMAIN tree' = D
  BY StageFacts, LedTo
<1>2. tree' = tree /\ doc'.overflowed = doc.overflowed
  BY <1>1, StageFacts
<1> QED
  BY <1>1, <1>2 DEF Document!vars

LEMMA NotedMirrored ==
  ASSUME NEW g, NEW D, NEW k, Stage(g, D, k), NEW d, d = [doc EXCEPT !.overflowed = TRUE],
         doc' = d \/ doc' \in Shrunk(d)
  PROVE  Document!Next /\ Settled
<1>1. /\ Seen(doc, g, D) /\ g.roots = {Root} /\ tree = Shape(doc, D) /\ doc \in Documents /\ Stepping(g, D)
  BY StageFacts
<1>2. Good(d, g) /\ d.var = doc.var /\ d.overflowed = TRUE
  BY <1>1, OverflowNoted DEF Seen, Documents
<1>3. Seen(d, g, D) /\ Shape(d, D) = Shape(doc, D)
  BY <1>1, <1>2, SameShown DEF Seen
<1>4. tree' = Shape(d, D) /\ (doc'.overflowed <=> d.overflowed) /\ doc'.overflowed \in BOOLEAN /\ Settled
  BY <1>1, <1>3, LedTo
<1>5. Document!RunOut
  BY <1>1, <1>2, <1>3, <1>4 DEF Document!RunOut
<1> QED
  BY <1>4, <1>5 DEF Document!Next

\* A leaf of the tree is given a value.
LEMMA NullAssigned ==
  ASSUME NEW t, NEW v \in DOMAIN t, t[v].of = << >>, NEW value,
         tree' = Put(t, v, value), doc'.overflowed = doc.overflowed
  PROVE  Document!Assign(t, v, value)
<1> DEFINE gone == DOMAIN t \ DOMAIN tree'
           assigned(is) == [u \in DOMAIN t \ gone |-> IF u = v THEN Document!Node(is) ELSE t[u]]
<1>1. DOMAIN tree' = DOMAIN t /\ gone = {}
  BY DEF Put
<1>2. Document!IsCut(t, ToSet(t[v].of), gone)
  BY <1>1 DEF Document!IsCut, ToSet
<1>3. tree' = assigned(value)
  BY <1>1 DEF Put
<1> HIDE DEF gone
<1>4. Document!Assign(t, v, value) <=>
        /\ Document!IsCut(t, ToSet(t[v].of), gone)
        /\ \/ tree' = assigned(value) /\ doc'.overflowed = doc.overflowed
           \/ tree' = assigned("null") /\ doc'.overflowed = TRUE
  BY SameSets DEF Document!Assign, gone
<1> QED
  BY <1>2, <1>3, <1>4

\* A value that is null is given one.
LEMMA NullMirrored ==
  ASSUME NEW g, NEW D, NEW k, Stage(g, D, k), NEW v \in Document!Places(tree), v \in D,
         doc.var[v].type = "null", NEW value \in AllValues, NEW r \in SetNull(doc, v, value),
         doc' = r[1] \/ doc' \in Shrunk(r[1])
  PROVE  Document!Next /\ Settled /\ DOMAIN tree' = D
<1>1. /\ Seen(doc, g, D) /\ g.roots = {Root} /\ tree = Shape(doc, D) /\ DOMAIN tree = D /\ Shaped(doc)
      /\ Stepping(g, D) /\ Len(doc'.pools) <= MaxPools /\ doc.overflowed \in BOOLEAN
  BY StageFacts
<1>2. Len(r[1].pools) <= MaxPools
  <2>1. Shaped(r[1])
    BY <1>1, SetNullGrows DEF Grows
  <2> QED
    BY <1>1, <2>1, BoundBack
<1>3. PICK h : /\ Seen(r[1], h, D) /\ h.roots = g.roots
               /\ \/ r[2] = NullSlot /\ r[1].overflowed /\ Shape(r[1], D) = Shape(doc, D)
                  \/ /\ r[2] = v /\ (r[1].overflowed <=> doc.overflowed)
                     /\ Shape(r[1], D) = Put(Shape(doc, D), v, value)
  BY <1>1, <1>2, NullShown
<1>4. /\ tree' = Shape(r[1], D) /\ (doc'.overflowed <=> r[1].overflowed) /\ doc'.overflowed \in BOOLEAN
      /\ Settled /\ DOMAIN tree' = D
  BY <1>1, <1>3, LedTo
<1>5. CASE r[1].overflowed /\ Shape(r[1], D) = Shape(doc, D)
  <2>1. Document!RunOut
    BY <1>1, <1>4, <1>5 DEF Document!RunOut
  <2> QED
    BY <1>4, <2>1 DEF Document!Next
<1>6. CASE (r[1].overflowed <=> doc.overflowed) /\ Shape(r[1], D) = Put(Shape(doc, D), v, value)
  <2>1. tree' = Put(tree, v, value) /\ doc'.overflowed = doc.overflowed
    BY <1>1, <1>4, <1>6
  <2>2. tree[v].of = << >>
    BY <1>1 DEF Shape, Of, Collection
  <2>3. Document!SetNode(v, value)
    BY <1>1, <2>1, <2>2, NullAssigned DEF Document!SetNode
  <2>4. value \in Strings \cup Plain \cup {"null", "ext", "array", "object"}
    BY DEF AllValues
  <2> QED
    BY <1>4, <2>3, <2>4 DEF Document!Next
<1> QED
  BY <1>3, <1>5, <1>6

LEMMA ReturnPlaced ==
  ASSUME NEW e \in Errors, NEW d, Return(e, d)
  PROVE  error' # Running /\ doc' \in Shrunk(d)
BY DEF Return, Errors, Running, NotRun

LEMMA ContinuePlaced ==
  ASSUME NEW d, NEW p, Continue(d, p), \A i \in 1..Len(p.open) : p.open[i] \in DOMAIN tree',
         p.todo = "value" => p.node \in Document!Places(tree')
  PROVE  Placed' /\ doc' = d
<1>1. parser' = p /\ doc' = d
  BY DEF Continue
<1> QED
  BY <1>1 DEF Placed

LEMMA ReadyPlaced ==
  ASSUME NEW d, NEW p, Ready(d, p), ParserRecord(p), \A i \in 1..Len(p.open) : p.open[i] \in DOMAIN tree'
  PROVE  error' = Running => Placed'
<1>1. CASE p.open # << >>
  <2> DEFINE q == [p EXCEPT !.todo = "more"]
  <2>1. Continue(d, q)
    BY <1>1 DEF Ready
  <2>2. q.open = p.open /\ q.todo = "more"
    BY DEF ParserRecord
  <2> HIDE DEF q
  <2> QED
    BY <2>1, <2>2, ContinuePlaced
<1>2. CASE p.open = << >>
  <2>1. PICK e \in Errors : Return(e, d)
    BY <1>2 DEF Ready, Errors
  <2> QED
    BY <2>1, ReturnPlaced
<1> QED
  BY <1>1, <1>2

LEMMA PlacesIn ==
  ASSUME NEW g, NEW D, Stepping(g, D)
  PROVE  Document!Places(tree) \subseteq D
<1>1. /\ DOMAIN tree = D /\ Root \in D
      /\ \A u \in D : tree[u].of \in Seq(D \ {Root})
  BY SteppingFacts DEF Within
<1>2. \A u \in D : /\ Document!ToSet(tree[u].of) \subseteq D
                   /\ \A i \in DOMAIN tree[u].of : tree[u].of[i] \in D
  BY <1>1 DEF Document!ToSet
<1> SUFFICES ASSUME NEW w \in Document!Places(tree) PROVE w \in D
  OBVIOUS
<1> DEFINE A == UNION {Document!ToSet(tree[c].of) : c \in Document!Those(tree, "array")}
           B == UNION {{tree[c].of[i] : i \in {n \in DOMAIN tree[c].of : n % 2 = 0}} :
                         c \in Document!Those(tree, "object")}
<1>3. w = Root \/ w \in A \/ w \in B
  BY DEF Document!Places
<1>4. CASE w \in A
  BY <1>1, <1>2, <1>4 DEF Document!Those
<1>5. CASE w \in B
  <2>1. PICK c \in D : \E i \in DOMAIN tree[c].of : w = tree[c].of[i]
    BY <1>1, <1>5 DEF Document!Those
  <2> QED
    BY <1>2, <2>1
<1> QED
  BY <1>1, <1>3, <1>4, <1>5

LEMMA SavedIsSet ==
  ASSUME NEW d, NEW v, NEW s \in Strings
  PROVE  <<Saved(d, v, s), v>> \in SetNull(d, v, s)
<1> DEFINE kept == [d EXCEPT !.var[v].type = IF s \in Long THEN "owned" ELSE "plain",
                              !.var[v].str = s,
                              !.refs = [t \in Long |-> @[t] + (IF t = s THEN 1 ELSE 0)]]
<1>1. SetNull(d, v, s) = SetString(d, v, s)
  BY StringsAssumption DEF SetNull, Strings, Plain
<1>2. Saved(d, v, s) = kept
  BY DEF Saved
<1>3. <<kept, v>> \in SetString(d, v, s)
  BY DEF SetString
<1> HIDE DEF kept
<1> QED
  BY <1>1, <1>2, <1>3

\* A step that ends the parsing.
LEMMA ReturnMirrored ==
  ASSUME NEW g, NEW D, NEW k, Stage(g, D, k), NEW e \in Errors, Return(e, doc)
  PROVE  Mirrored
BY ReturnPlaced, SameMirrored DEF Mirrored

LEMMA EndMirrored ==
  ASSUME NEW g, NEW D, NEW k, Stage(g, D, k), EndOfText(doc)
  PROVE  Mirrored
<1>1. PICK e \in Errors : Return(e, doc)
  BY DEF EndOfText, Errors
<1> QED
  BY <1>1, ReturnMirrored

LEMMA ReturnNoted ==
  ASSUME NEW g, NEW D, NEW k, Stage(g, D, k), NEW e \in Errors, NEW ok \in BOOLEAN,
         Return(e, [doc EXCEPT !.overflowed = @ \/ ~ok])
  PROVE  Mirrored
<1> DEFINE x == doc.overflowed \/ ~ok
           f == [doc EXCEPT !.overflowed = TRUE]
<1>1. doc \in Documents /\ doc.overflowed \in BOOLEAN
  BY StageFacts
<1>2. CASE Return(e, f)
  BY <1>2, ReturnPlaced, NotedMirrored DEF Mirrored
<1>4. Return(e, [doc EXCEPT !.overflowed = x])
  OBVIOUS
<1>3. CASE ~ Return(e, f)
  <2>1. x = TRUE \/ x = doc.overflowed
    BY <1>1
  <2> HIDE DEF x
  <2>2. CASE x = TRUE
    BY <1>3, <1>4, <2>2
  <2>3. CASE x = doc.overflowed
    <3>1. [doc EXCEPT !.overflowed = x] = doc
      BY <1>1, <2>3 DEF Documents
    <3> QED
      BY <1>4, <3>1, ReturnMirrored
  <2> QED
    BY <2>1, <2>2, <2>3
<1> QED
  BY <1>2, <1>3

LEMMA VariantMirrored ==
  ASSUME NEW g, NEW D, NEW k, Stage(g, D, k), ParseVariant
  PROVE  Mirrored
<1> DEFINE node == parser.node
<1>1. /\ Stepping(g, D) /\ error = Running /\ doc \in Documents
      /\ Building(k) /\ ParserRecord(parser) /\ ParserRecord(Moved) /\ Moved.open = parser.open
      /\ \A i \in 1..Len(parser.open) : parser.open[i] \in D
      /\ parser.todo = "value" => parser.node \in Document!Places(tree)
  BY StageFacts
<1>2. /\ node \in Document!Places(tree) /\ node \in D /\ doc.var[node].type = "null"
  BY <1>1, PlacesIn DEF Building, Parsing, ParseVariant
<1> HIDE DEF node
<1>3. CASE EndOfText(doc)
  BY <1>3, EndMirrored
<1>4. CASE Return("InvalidInput", doc)
  BY <1>4, ReturnMirrored DEF Errors
<1>5. CASE Ready(doc, Moved)
  <2>1. UNCHANGED Document!vars /\ Settled /\ DOMAIN tree' = D
    BY <1>5, ReadyDocument, SameMirrored
  <2>2. error' = Running => Placed'
    BY <1>1, <1>5, <2>1, ReadyPlaced
  <2> QED
    BY <2>1, <2>2 DEF Mirrored
\* A value that is ready.
<1>6. ASSUME NEW value \in AllValues, NEW r \in SetNull(doc, node, value), NEW p, ParserRecord(p),
             p.open = parser.open, Ready(r[1], p)
      PROVE  Mirrored
  <2>1. Document!Next /\ Settled /\ DOMAIN tree' = D
    BY <1>2, <1>6, ReadyDocument, NullMirrored
  <2>2. error' = Running => Placed'
    BY <1>1, <1>6, <2>1, ReadyPlaced
  <2> QED
    BY <2>1, <2>2 DEF Mirrored
<1>7. ASSUME NEW value \in AllValues, NEW r \in SetNull(doc, node, value), NEW e \in Errors,
             Return(e, r[1])
      PROVE  Mirrored
  <2>1. error' # Running /\ doc' \in Shrunk(r[1])
    BY <1>7, ReturnPlaced
  <2>2. Document!Next /\ Settled
    BY <1>2, <2>1, NullMirrored
  <2> QED
    BY <2>1, <2>2 DEF Mirrored
<1>8. ASSUME NEW value \in Collection,
             LET d == SetNull(doc, node, value)
                 e == (CHOOSE r \in d : TRUE)[1]
             IN IF Len(parser.open) = NestingLimit THEN Return("TooDeep", e)
                ELSE Continue(e, [Moved EXCEPT !.open = Append(@, node), !.todo = "first"])
      PROVE  Mirrored
  <2> DEFINE d == SetNull(doc, node, value)
             r == CHOOSE x \in d : TRUE
             e == r[1]
             p == [Moved EXCEPT !.open = Append(Moved.open, node), !.todo = "first"]
  <2>1. value \in AllValues
    BY DEF AllValues, Collection
  <2>2. r \in d
    <3>1. d = {<<[doc EXCEPT !.var[node].type = value], node>>}
      BY StringsAssumption DEF SetNull, Then, Plain, Collection
    <3> HIDE DEF d
    <3> QED
      BY <3>1
  <2> HIDE DEF r
  <2>3. r \in SetNull(doc, node, value)
    BY <2>2
  <2> HIDE DEF d
  <2>4. IF Len(parser.open) = NestingLimit THEN Return("TooDeep", e) ELSE Continue(e, p)
    BY <1>8 DEF d, r
  <2> HIDE DEF p
  <2>5. CASE Return("TooDeep", e)
    BY <1>7, <2>1, <2>3, <2>5 DEF Errors
  <2>6. CASE Continue(e, p)
    <3>1. p.open = Append(parser.open, node) /\ p.todo = "first"
      BY <1>1 DEF ParserRecord, p
    <3>2. doc' = e
      BY <2>6 DEF Continue
    <3>3. Document!Next /\ Settled /\ DOMAIN tree' = D
      BY <1>2, <2>1, <2>3, <3>2, NullMirrored
    <3>4. \A i \in 1..Len(p.open) : p.open[i] \in D
      <4>1. \E S : parser.open \in Seq(S)
        BY <1>1 DEF Building, Parsing, Opened
      <4>2. PICK S : parser.open \in Seq(S)
        BY <4>1
      <4>3. /\ Len(p.open) = Len(parser.open) + 1 /\ Len(parser.open) \in Nat
            /\ p.open[Len(parser.open) + 1] = node
            /\ \A i \in 1..Len(parser.open) : p.open[i] = parser.open[i]
        <5>1. parser.open \in Seq(S \cup {node})
          BY <4>2
        <5> QED
          BY <3>1, <5>1
      <4>4. \A i \in 1..Len(p.open) : i = Len(parser.open) + 1 \/ i \in 1..Len(parser.open)
        BY <4>3
      <4> QED
        BY <1>1, <1>2, <4>3, <4>4
    <3>5. Placed'
      BY <2>6, <3>1, <3>3, <3>4, ContinuePlaced
    <3> QED
      BY <3>3, <3>5 DEF Mirrored
  <2> QED
    BY <2>4, <2>5, <2>6
<1>9. ASSUME NEW value \in Plain \cup {"ext"}, NEW r \in SetNull(doc, node, value),
             IF r[2] = NullSlot THEN Return("NoMemory", r[1]) ELSE Ready(r[1], Moved)
      PROVE  Mirrored
  <2>1. value \in AllValues
    BY DEF AllValues
  <2>2. CASE Return("NoMemory", r[1])
    BY <1>7, <1>9, <2>1, <2>2 DEF Errors
  <2>3. CASE Ready(r[1], Moved)
    BY <1>1, <1>6, <1>9, <2>1, <2>3
  <2> QED
    BY <1>9, <2>2, <2>3
<1> DEFINE Opening(x) ==
             LET d == SetNull(doc, node, x)
                 e == (CHOOSE r \in d : TRUE)[1]
             IN IF Len(parser.open) = NestingLimit THEN Return("TooDeep", e)
                ELSE Continue(e, [Moved EXCEPT !.open = Append(@, node), !.todo = "first"])
<1>10. CASE Opening(IF Current = "[" THEN "array" ELSE "object")
  <2> DEFINE value == IF Current = "[" THEN "array" ELSE "object"
  <2>1. Opening(value)
    BY <1>10
  <2>2. value \in Collection
    BY DEF Collection
  <2> HIDE DEF value
  <2> QED
    BY <1>8, <2>1, <2>2
<1> DEFINE p == [Moved EXCEPT !.built = NodeAfterSave(doc, Current)]
<1>11. ASSUME NEW ok \in BOOLEAN, ReadOf(Current, ok, Ready(Saved(doc, node, Current), p)),
              Current \in Strings \cup {"cut"}
       PROVE  Mirrored
  <2>1. CASE \E e \in Errors : Return(e, [doc EXCEPT !.overflowed = @ \/ ~ok])
    BY <2>1, ReturnNoted
  <2>3. CASE Current # "cut" /\ Ready(Saved(doc, node, Current), p)
    <3>1. p.open = Moved.open /\ p.rest = Moved.rest /\ p.node = Moved.node /\ p.todo = Moved.todo
      BY <1>1 DEF ParserRecord
    <3>2. ParserRecord(p) /\ p.open = parser.open
      BY <1>1, <3>1 DEF ParserRecord
    <3> DEFINE r == <<Saved(doc, node, Current), node>>
    <3>3. Ready(r[1], p) /\ Current \in Strings
      BY <1>11, <2>3
    <3>4. r \in SetNull(doc, node, Current) /\ Current \in AllValues
      BY <3>3, SavedIsSet DEF AllValues
    <3> HIDE DEF p, r
    <3> QED
      BY <1>6, <3>2, <3>3, <3>4
  <2> HIDE DEF p
  <2> QED
    BY <1>11, <2>1, <2>3 DEF ReadOf
<1>12. CASE ReadString(Current, Ready(Saved(doc, node, Current), p)) /\ Current \in Strings \cup {"cut"}
  <2> HIDE DEF p
  <2>1. PICK ok \in BOOLEAN : ReadOf(Current, ok, Ready(Saved(doc, node, Current), p))
    BY <1>12, ReadIs
  <2> QED
    BY <1>11, <1>12, <2>1
<1>13. CASE Current \in Plain \cup {"ext"}
            /\ \E r \in SetNull(doc, node, Current) :
                 IF r[2] = NullSlot THEN Return("NoMemory", r[1]) ELSE Ready(r[1], Moved)
  BY <1>9, <1>13
<1> QED
  BY <1>3, <1>4, <1>5, <1>10, <1>12, <1>13 DEF ParseVariant, node

LEMMA Concatenated ==
  ASSUME NEW S, NEW O \in Seq(S), NEW K \in Seq(S)
  PROVE  /\ Len(O) \in Nat /\ Len(K) \in Nat
         /\ DOMAIN (O \o K) = 1..Len(O) + Len(K)
         /\ \A i \in 1..Len(O) : (O \o K)[i] = O[i]
         /\ \A i \in 1..Len(K) : (O \o K)[Len(O) + i] = K[i]
<1>1. Len(O) \in Nat /\ Len(K) \in Nat
  OBVIOUS
<1>2. O \o K \in Seq(S) /\ Len(O \o K) = Len(O) + Len(K)
  BY ConcatProperties
<1>3. DOMAIN (O \o K) = 1..Len(O) + Len(K)
  BY <1>2
<1>4. \A i \in 1..Len(O) : (O \o K)[i] = O[i]
  BY <1>1
<1>5. \A i \in 1..Len(K) : (O \o K)[Len(O) + i] = K[i]
  BY <1>1
<1> QED
  BY <1>1, <1>3, <1>4, <1>5

\* Every key has a value.
LEMMA EvenKids ==
  ASSUME NEW d, NEW g, NEW D, Seen(d, g, D), NEW c \in D, d.var[c].type = "object"
  PROVE  Len(Of(d, c)) % 2 = 0
<1> DEFINE K == Kids(d, c)
           n == Len(K)
<1>f. Within(d, g, D)
  BY SeenFacts
<1>1. Tree(d, g) /\ Alternating(d, g) /\ c \in g.in /\ Of(d, c) = K
  BY <1>f DEF Within, Good, Of, Collection
<1>2. /\ n \in Nat /\ \A i \in 1..n : K[i] \in g.in
      /\ \A i \in 1..n : i = n => d.var[K[i]].next = NullSlot
  BY <1>1, KidsInTree
<1>3. \A i \in 1..n : g.role[K[i]] = IF i % 2 = 1 THEN "key" ELSE "value"
  BY <1>1, KidsAlternate
<1> HIDE DEF n, K
<1>4. SUFFICES ASSUME n % 2 = 1 PROVE FALSE
  BY <1>1, <1>2 DEF n
<1>5. n \in 1..n
  BY <1>2, <1>4
<1>6. g.role[K[n]] = "key"
  BY <1>3, <1>4, <1>5
<1>7. d.var[K[n]].next = NullSlot /\ K[n] \in g.in
  BY <1>2, <1>5
<1> QED
  BY <1>1, <1>6, <1>7 DEF Alternating

\* The collection that is being filled.
LEMMA ContainerShown ==
  ASSUME NEW g, NEW D, NEW k, Stage(g, D, k), parser.todo # "value"
  PROVE  /\ Container \in D /\ doc.var[Container].type \in Collection /\ parser.open # << >>
         /\ Container \in k.in /\ (~ InArray => doc.var[Container].type = "object")
         /\ \A i \in 1..Len(parser.open) :
              /\ parser.open[i] \in k.in
              /\ parser.open[i] # Container => k.rank[parser.open[i]] < k.rank[Container]
<1>1. Building(k) /\ \A i \in 1..Len(parser.open) : parser.open[i] \in D
  BY StageFacts
<1>2. /\ Container \in k.in /\ doc.var[Container].type \in Collection /\ parser.open # << >>
      /\ (~ InArray => doc.var[Container].type = "object")
      /\ \A i \in 1..Len(parser.open) :
              /\ parser.open[i] \in k.in
              /\ parser.open[i] # Container => k.rank[parser.open[i]] < k.rank[Container]
  BY <1>1, ContainerFacts
<1>3. \E S : parser.open \in Seq(S)
  BY <1>1 DEF Building, Parsing, Opened
<1>4. Len(parser.open) \in Nat /\ Len(parser.open) # 0
  BY <1>2, <1>3
<1>5. Len(parser.open) \in 1..Len(parser.open)
  BY <1>4
<1>6. Container = parser.open[Len(parser.open)]
  BY DEF Container, Last
<1> QED
  BY <1>1, <1>2, <1>5, <1>6

\* The parser stops where memory ran out.
LEMMA RanOutMirrored ==
  ASSUME NEW g, NEW D, NEW k, Stage(g, D, k), NEW e, NEW h, RanOut(doc, g, D, e, h),
         Return("NoMemory", e)
  PROVE  Mirrored
<1>1. /\ Seen(e, h, D) /\ h.roots = {Root} /\ e.overflowed /\ Shape(e, D) = tree /\ Stepping(g, D)
  BY StageFacts DEF RanOut
<1>2. error' # Running /\ doc' \in Shrunk(e)
  BY ReturnPlaced DEF Errors
<1>3. /\ tree' = Shape(e, D) /\ (doc'.overflowed <=> e.overflowed) /\ doc'.overflowed \in BOOLEAN /\ Settled
  BY <1>1, <1>2, LedTo
<1>4. Document!RunOut
  BY <1>1, <1>3 DEF Document!RunOut
<1> QED
  BY <1>2, <1>3, <1>4 DEF Mirrored, Document!Next

LEMMA NextElementMirrored ==
  ASSUME NEW g, NEW D, NEW k, Stage(g, D, k), parser.todo # "value", InArray,
         NEW p, p = parser \/ p = Moved, NextElement(p)
  PROVE  Mirrored
<1> DEFINE c == Container
<1>1. /\ Stepping(g, D) /\ Seen(doc, g, D) /\ g.roots = {Root} /\ tree = Shape(doc, D) /\ DOMAIN tree = D
      /\ Shaped(doc) /\ doc.overflowed \in BOOLEAN /\ ParserRecord(p) /\ p.open = parser.open
      /\ Len(doc'.pools) <= MaxPools
      /\ \A i \in 1..Len(parser.open) : parser.open[i] \in D
  BY StageFacts
<1>2. c \in D /\ doc.var[c].type = "array"
  BY ContainerShown DEF InArray
<1>3. PICK r \in AddElement(doc, c) :
        IF r[2] = NullSlot THEN Return("NoMemory", r[1])
        ELSE Continue(r[1], [p EXCEPT !.node = r[2], !.todo = "value"])
  BY DEF NextElement
<1> HIDE DEF c
<1>4. Len(r[1].pools) <= MaxPools
  <2>1. Shaped(r[1])
    BY <1>1, AddElementGrows DEF Grows
  <2>2. doc' = r[1] \/ doc' \in Shrunk(r[1])
    BY <1>3 DEF Return, Continue
  <2> QED
    BY <1>1, <2>1, <2>2, BoundBack
<1>5. PICK h : IF r[2] = NullSlot THEN RanOut(doc, g, D, r[1], h)
               ELSE Sprung(doc, g, D, c, <<r[2]>>, "null", r[1], h)
  BY <1>1, <1>2, <1>4, ElementShown
<1>6. CASE r[2] = NullSlot
  <2>1. RanOut(doc, g, D, r[1], h) /\ Return("NoMemory", r[1])
    BY <1>3, <1>5, <1>6
  <2> QED
    BY <2>1, RanOutMirrored
<1>7. CASE r[2] # NullSlot
  <2> DEFINE x == r[2]
             K == <<x>>
             E == D \cup ToSet(K)
             q == [p EXCEPT !.node = x, !.todo = "value"]
  <2>1. /\ Continue(r[1], q) /\ q.open = parser.open /\ q.todo = "value" /\ q.node = x
    BY <1>1, <1>3, <1>7 DEF ParserRecord
  <2>2. /\ K \in Seq(Slots) /\ ToSet(K) \cap g.in = {} /\ h.roots = {Root}
        /\ (r[1].overflowed <=> doc.overflowed)
        /\ Seen(r[1], h, E) /\ Shape(r[1], E) = GrownBy(tree, c, K, "null")
    BY <1>1, <1>5, <1>7 DEF Sprung
  <2>3. Len(K) = 1 /\ K[1] = x /\ K[1] \in ToSet(K)
    BY DEF ToSet
  <2> HIDE DEF K, E, q, x
  <2>4. /\ tree' = GrownBy(tree, c, K, "null") /\ DOMAIN tree' = E
        /\ doc'.overflowed = doc.overflowed /\ Settled
    <3>1. doc' = r[1]
      BY <2>1 DEF Continue
    <3>2. /\ tree' = Shape(r[1], E) /\ DOMAIN tree' = E /\ (doc'.overflowed <=> r[1].overflowed)
          /\ doc'.overflowed \in BOOLEAN /\ Settled
      BY <1>1, <2>2, <3>1, LedTo
    <3> QED
      BY <1>1, <2>2, <3>2
  <2>5. ToSet(K) \cap D = {} /\ D \subseteq E
    BY <1>1, <2>2 DEF Seen, E
  <2>6. Document!Add(c, "null")
    <3>1. tree' = [Document!Grown(tree, c, K) EXCEPT ![K[1]] = Document!Node("null")]
      BY <1>1, <1>2, <2>3, <2>4, <2>5, GrownWithIs
    <3>2. \A i, j \in 1..Len(K) : K[i] = K[j] => i = j
      BY <2>3
    <3>3. K \in Document!Fresh(1)
      BY <1>1, <2>2, <2>3, <2>5, <3>2, FreshIs
    <3> QED
      BY <2>4, <3>1, <3>3 DEF Document!Add
  <2>7. Document!Next
    <3>1. tree[c].is = "array"
      BY <1>1, <1>2 DEF Shape, Is
    <3>2. c \in Document!Those(tree, "array")
      BY <1>1, <1>2, <3>1 DEF Document!Those
    <3> QED
      BY <2>6, <3>2 DEF Document!Next
  <2>8. x \in Document!Places(tree')
    <3>1. tree'[c].is = "array" /\ tree'[c].of = Of(doc, c) \o K
      BY <1>1, <1>2, <2>4 DEF GrownBy, Shape, Is
    <3>2. x \in ToSet(Of(doc, c) \o K)
      <4>1. Of(doc, c) \in Seq(D \ {Root})
        BY <1>1, SteppingFacts, <1>2 DEF Within
      <4>2. /\ DOMAIN (Of(doc, c) \o K) = 1..Len(Of(doc, c)) + 1 /\ Len(Of(doc, c)) \in Nat
            /\ (Of(doc, c) \o K)[Len(Of(doc, c)) + 1] = x
        <5> DEFINE O == Of(doc, c)
                   S == D \cup Slots
        <5> HIDE DEF O
        <5>1. O \in Seq(S) /\ K \in Seq(S) /\ Len(K) = 1 /\ K[1] = x
          BY <2>2, <2>3, <4>1 DEF O
        <5> HIDE DEF S
        <5>2. /\ DOMAIN (O \o K) = 1..Len(O) + 1 /\ Len(O) \in Nat /\ (O \o K)[Len(O) + 1] = x
          <6>1. 1 \in 1..Len(K)
            BY <5>1
          <6>2. /\ Len(O) \in Nat /\ DOMAIN (O \o K) = 1..Len(O) + Len(K)
                /\ \A i \in 1..Len(K) : (O \o K)[Len(O) + i] = K[i]
            <7>1. O \in Seq(S) /\ K \in Seq(S)
              BY <5>1
            <7>2. Len(O) \in Nat /\ DOMAIN (O \o K) = 1..Len(O) + Len(K)
              BY <7>1, Concatenated, Zenon
            <7>3. \A i \in 1..Len(K) : (O \o K)[Len(O) + i] = K[i]
              <8> SUFFICES ASSUME NEW i \in 1..Len(K) PROVE (O \o K)[Len(O) + i] = K[i]
                OBVIOUS
              <8> QED
                BY <7>1, Concatenated
            <7> QED
              BY <7>2, <7>3
          <6>3. (O \o K)[Len(O) + 1] = K[1]
            BY <6>1, <6>2
          <6> QED
            BY <5>1, <6>2, <6>3
        <5> QED
          BY <5>2 DEF O
      <4> QED
        BY <4>2 DEF ToSet
    <3>3. c \in Document!Those(tree', "array")
      BY <1>2, <2>4, <2>5, <3>1 DEF Document!Those
    <3>4. x \in Document!ToSet(tree'[c].of)
      BY <3>1, <3>2, SameSets
    <3> QED
      BY <3>3, <3>4 DEF Document!Places
  <2>9. Placed'
    BY <1>1, <2>1, <2>4, <2>5, <2>8, ContinuePlaced
  <2> QED
    BY <2>4, <2>7, <2>9 DEF Mirrored
<1> QED
  BY <1>6, <1>7

LEMMA CloseMirrored ==
  ASSUME NEW g, NEW D, NEW k, Stage(g, D, k), parser.todo # "value", Close
  PROVE  Mirrored
<1> DEFINE p == [Moved EXCEPT !.open = Front(Moved.open)]
<1>1. /\ ParserRecord(Moved) /\ Moved.open = parser.open /\ Building(k)
      /\ \A i \in 1..Len(parser.open) : parser.open[i] \in D
  BY StageFacts
<1>2. p.open = Front(parser.open) /\ p.todo = Moved.todo /\ p.node = Moved.node
      /\ p.built = Moved.built /\ p.rest = Moved.rest
  BY <1>1 DEF ParserRecord
<1>3. ParserRecord(p)
  BY <1>1, <1>2 DEF ParserRecord
<1>4. Ready(doc, p)
  BY DEF Close
<1> HIDE DEF p
<1>5. UNCHANGED Document!vars /\ Settled /\ DOMAIN tree' = D
  BY <1>4, ReadyDocument, SameMirrored
<1>6. \A i \in 1..Len(p.open) : p.open[i] \in D
  <2>1. \E S : parser.open \in Seq(S)
    BY <1>1 DEF Building, Parsing, Opened
  <2>2. PICK S : parser.open \in Seq(S)
    BY <2>1
  <2>3. parser.open # << >>
    BY ContainerShown
  <2> DEFINE o == parser.open
  <2> HIDE DEF o
  <2>4. Len(o) \in Nat /\ Len(o) # 0
    BY <2>2, <2>3 DEF o
  <2>5. Front(o) = SubSeq(o, 1, Len(o) - 1)
    BY DEF Front
  <2>6. Len(Front(o)) = Len(o) - 1 /\ \A i \in 1..Len(o) - 1 : Front(o)[i] = o[i]
    BY <2>2, <2>4, <2>5 DEF o
  <2>7. \A i \in 1..Len(o) - 1 : i \in 1..Len(o)
    BY <2>4
  <2> QED
    BY <1>1, <1>2, <2>6, <2>7 DEF o
<1>7. error' = Running => Placed'
  BY <1>3, <1>4, <1>5, <1>6, ReadyPlaced
<1> QED
  BY <1>5, <1>7 DEF Mirrored

LEMMA KeyNextMirrored ==
  ASSUME NEW g, NEW D, NEW k, Stage(g, D, k), NEW p, ParserRecord(p), p.open = parser.open,
         NEW x, x # "value", NEW b, Continue(doc, [p EXCEPT !.built = b, !.todo = x])
         \/ Continue(doc, [p EXCEPT !.todo = x])
  PROVE  Mirrored
<1> DEFINE q == [p EXCEPT !.built = b, !.todo = x]
           y == [p EXCEPT !.todo = x]
<1>1. q.open = parser.open /\ q.todo = x /\ y.open = parser.open /\ y.todo = x
  BY DEF ParserRecord
<1>2. Continue(doc, q) \/ Continue(doc, y)
  OBVIOUS
<1> HIDE DEF q, y
<1>3. doc' = doc
  BY <1>2 DEF Continue
<1>4. UNCHANGED Document!vars /\ Settled /\ DOMAIN tree' = D
  BY <1>3, SameMirrored
<1>5. Placed'
  BY <1>1, <1>2, <1>4, StageFacts, ContinuePlaced
<1> QED
  BY <1>4, <1>5 DEF Mirrored

LEMMA FirstMirrored ==
  ASSUME NEW g, NEW D, NEW k, Stage(g, D, k), ParseFirst
  PROVE  Mirrored
<1>1. parser.todo # "value" /\ ParserRecord(parser)
  BY StageFacts DEF ParseFirst
<1>2. CASE EndOfText(doc)
  BY <1>2, EndMirrored
<1>3. CASE Close
  BY <1>1, <1>3, CloseMirrored
<1>4. CASE InArray /\ NextElement(parser)
  BY <1>1, <1>4, NextElementMirrored
<1>5. CASE ~ InArray /\ Continue(doc, [parser EXCEPT !.todo = "key"])
  BY <1>1, <1>5, KeyNextMirrored
<1> QED
  BY <1>2, <1>3, <1>4, <1>5 DEF ParseFirst

LEMMA MoreMirrored ==
  ASSUME NEW g, NEW D, NEW k, Stage(g, D, k), ParseMore
  PROVE  Mirrored
<1>1. parser.todo # "value" /\ ParserRecord(Moved) /\ Moved.open = parser.open
  BY StageFacts DEF ParseMore
<1>2. CASE EndOfText(doc)
  BY <1>2, EndMirrored
<1>3. CASE Close
  BY <1>1, <1>3, CloseMirrored
<1>4. CASE InArray /\ NextElement(Moved)
  BY <1>1, <1>4, NextElementMirrored
<1>5. CASE ~ InArray /\ Continue(doc, [Moved EXCEPT !.todo = "key"])
  BY <1>1, <1>5, KeyNextMirrored
<1>6. CASE Return("InvalidInput", doc)
  BY <1>6, ReturnMirrored DEF Errors
<1> QED
  BY <1>2, <1>3, <1>4, <1>5, <1>6 DEF ParseMore

LEMMA KeyMirrored ==
  ASSUME NEW g, NEW D, NEW k, Stage(g, D, k), ParseKey
  PROVE  Mirrored
<1> DEFINE p(s) == [Moved EXCEPT !.built = s, !.todo = "member"]
<1>1. ParserRecord(Moved) /\ Moved.open = parser.open
  BY StageFacts
<1>2. CASE EndOfText(doc)
  BY <1>2, EndMirrored
<1>4. ASSUME NEW ok \in BOOLEAN, NEW s \in Keys, ReadOf(s, ok, Continue(doc, p(s)))
      PROVE  Mirrored
  <2>1. CASE \E e \in Errors : Return(e, [doc EXCEPT !.overflowed = @ \/ ~ok])
    BY <2>1, ReturnNoted
  <2>2. CASE Continue(doc, p(s))
    BY <1>1, <2>2, KeyNextMirrored
  <2> HIDE DEF p
  <2> QED
    BY <1>4, <2>1, <2>2 DEF ReadOf
<1>5. ASSUME NEW s \in Keys, ReadString(s, Continue(doc, p(s)))
      PROVE  Mirrored
  <2> HIDE DEF p
  <2>1. PICK ok \in BOOLEAN : ReadOf(s, ok, Continue(doc, p(s)))
    BY <1>5, ReadIs
  <2> QED
    BY <1>4, <2>1
<1> QED
  BY <1>2, <1>5 DEF ParseKey

\* The value of a key is a place.
LEMMA ValueIsPlace ==
  ASSUME NEW t, NEW c \in DOMAIN t, t[c].is = "object", NEW i \in DOMAIN t[c].of, i % 2 = 0
  PROVE  t[c].of[i] \in Document!Places(t)
<1> DEFINE B(u) == {t[u].of[n] : n \in {m \in DOMAIN t[u].of : m % 2 = 0}}
<1>1. c \in Document!Those(t, "object")
  BY DEF Document!Those
<1>2. t[c].of[i] \in B(c)
  OBVIOUS
<1>3. B(c) \subseteq UNION {B(u) : u \in Document!Those(t, "object")}
  BY <1>1
<1>4. UNION {B(u) : u \in Document!Those(t, "object")} \subseteq Document!Places(t)
  BY DEF Document!Places
<1> QED
  BY <1>2, <1>3, <1>4

\* A value becomes null, and what is below it is gone.
LEMMA PrunedAssigned ==
  ASSUME NEW t, NEW E, E \subseteq DOMAIN t, NEW v, Document!IsCut(t, ToSet(t[v].of), DOMAIN t \ E),
         tree' = Pruned(t, E, v, "null"), doc'.overflowed = doc.overflowed
  PROVE  Document!Assign(t, v, "null")
<1> DEFINE gone == DOMAIN t \ DOMAIN tree'
           assigned(is) == [u \in DOMAIN t \ gone |-> IF u = v THEN Document!Node(is) ELSE t[u]]
<1>1. DOMAIN tree' = E /\ gone = DOMAIN t \ E /\ DOMAIN t \ gone = E
  BY DEF Pruned
<1>2. Document!IsCut(t, ToSet(t[v].of), gone)
  BY <1>1
<1>3. tree' = assigned("null")
  BY <1>1 DEF Pruned
<1> HIDE DEF gone
<1>4. Document!Assign(t, v, "null") <=>
        /\ Document!IsCut(t, ToSet(t[v].of), gone)
        /\ \/ tree' = assigned("null") /\ doc'.overflowed = doc.overflowed
           \/ tree' = assigned("null") /\ doc'.overflowed = TRUE
  BY SameSets DEF Document!Assign, gone
<1> QED
  BY <1>2, <1>3, <1>4

\* A member that is there already loses its value.
LEMMA FoundMirrored ==
  ASSUME NEW g, NEW D, NEW k, Stage(g, D, k), parser.todo = "member",
         NEW s \in Strings, NEW key, key = FindKey(doc, Container, s), key # NullSlot,
         NEW v, v = doc.var[key].next,
         NEW p, p.open = parser.open, p.node = v, Continue(Clear(doc, v), p)
  PROVE  Mirrored
<1> DEFINE c == Container
           f == Clear(doc, v)
           h == Without(g, Below(doc, v))
           E == D \ Below(doc, v)
           O == Of(doc, c)
<1>1. /\ Stepping(g, D) /\ Seen(doc, g, D) /\ g.roots = {Root} /\ tree = Shape(doc, D) /\ DOMAIN tree = D
      /\ Shaped(doc) /\ doc.overflowed \in BOOLEAN /\ Building(k)
      /\ \A i \in 1..Len(parser.open) : parser.open[i] \in D
  BY StageFacts
<1>2. /\ c \in D /\ doc.var[c].type = "object" /\ c \in k.in
      /\ \A i \in 1..Len(parser.open) :
              /\ parser.open[i] \in k.in
              /\ parser.open[i] # c => k.rank[parser.open[i]] < k.rank[c]
  <2>1. parser.todo # "value"
    OBVIOUS
  <2>2. doc.var[c].type = "object"
    BY <1>1 DEF Building, Parsing, Container
  <2>3. /\ Container \in D /\ Container \in k.in
        /\ \A i \in 1..Len(parser.open) :
              /\ parser.open[i] \in k.in
              /\ parser.open[i] # Container => k.rank[parser.open[i]] < k.rank[Container]
    BY <2>1, ContainerShown
  <2> QED
    BY <2>2, <2>3
<1>3. /\ tree[c].of = O /\ O \in Seq(D \ {Root}) /\ tree[c].is = "object"
  <2>1. \A u \in D : tree[u].is = Is(doc, u) /\ tree[u].of = Of(doc, u) /\ Of(doc, u) \in Seq(D \ {Root})
    BY <1>1, SteppingFacts DEF Within
  <2> QED
    BY <1>2, <2>1 DEF Is
<1> HIDE DEF c, O
<1>4. PICK i \in 1..Len(O) : i % 2 = 1 /\ i + 1 \in 1..Len(O) /\ O[i + 1] = v
  <2>1. FindKey(doc, c, s) # NullSlot =>
          \E i \in Document!KeysAt(Shape(doc, D), c, s) :
             /\ i \in 1..Len(Of(doc, c)) /\ i + 1 \in 1..Len(Of(doc, c))
             /\ Of(doc, c)[i] = FindKey(doc, c, s) /\ Of(doc, c)[i + 1] = doc.var[FindKey(doc, c, s)].next
    BY <1>1, <1>2, KeyShown
  <2>2. PICK i \in Document!KeysAt(Shape(doc, D), c, s) :
             /\ i \in 1..Len(O) /\ i + 1 \in 1..Len(O) /\ O[i + 1] = v
    BY <2>1 DEF O, c
  <2>3. i % 2 = 1
    BY DEF Document!KeysAt
  <2> QED
    BY <2>2, <2>3
<1>5. v \in D /\ i + 1 \in DOMAIN O /\ (i + 1) % 2 = 0
  <2>1. v \in D /\ i + 1 \in DOMAIN O
    BY <1>3, <1>4
  <2>2. i \in Nat
    BY <1>4
  <2> QED
    BY <1>4, <2>1, <2>2
<1>6. v \in Document!Places(tree)
  <2>1. c \in DOMAIN tree /\ tree[c].is = "object" /\ i + 1 \in DOMAIN tree[c].of /\ tree[c].of[i + 1] = v
    BY <1>1, <1>2, <1>3, <1>4, <1>5
  <2> QED
    BY <1>5, <2>1, ValueIsPlace
\* What is open is not below v.
<1>7. /\ c \notin Below(doc, v) /\ c # v
      /\ \A n \in 1..Len(parser.open) : parser.open[n] \notin Below(doc, v)
  <2>1. Good(doc, k) /\ Tree(doc, k)
    BY <1>1 DEF Building, Good
  <2>2. v \in k.in /\ k.rank[c] < k.rank[v]
    <3>1. FindKey(doc, c, s) # NullSlot
      BY DEF c
    <3>2. /\ doc.var[FindKey(doc, c, s)].next \in k.in \ k.roots
          /\ k.rank[c] < k.rank[doc.var[FindKey(doc, c, s)].next]
      BY <1>2, <2>1, <3>1, FindKeyIs
    <3> QED
      BY <3>2 DEF c
  <2>3. \A w \in Below(doc, v) : w \in k.in /\ k.rank[v] < k.rank[w]
    BY <2>1, <2>2, BelowInTree
  <2>4. \A u \in k.in : k.rank[u] \in Nat
    BY <2>1, TreeFacts
  <2>5. \A u \in k.in : k.rank[u] < k.rank[v] => u \notin Below(doc, v) /\ u # v
    BY <2>2, <2>3, <2>4
  <2>6. ASSUME NEW n \in 1..Len(parser.open)
        PROVE  k.rank[parser.open[n]] < k.rank[v] /\ parser.open[n] \in k.in
    <3> DEFINE o == parser.open[n]
    <3>1. o \in k.in /\ (o # c => k.rank[o] < k.rank[c])
      BY <1>2
    <3> HIDE DEF o
    <3>2. k.rank[o] \in Nat /\ k.rank[c] \in Nat /\ k.rank[v] \in Nat
      BY <1>2, <2>2, <2>4, <3>1
    <3>3. CASE o = c
      BY <2>2, <3>1, <3>3 DEF o
    <3>4. CASE o # c
      BY <2>2, <3>1, <3>2, <3>4 DEF o
    <3> QED
      BY <3>3, <3>4
  <2> QED
    BY <1>2, <2>2, <2>5, <2>6
<1>8. ClearedTo(doc, D, v, f, h, E)
  BY <1>1, <1>5, ClearedFrom
<1>9. h.roots = {Root}
  <2>1. Tree(doc, g) /\ v \in g.in
    BY <1>1, <1>5 DEF Seen, Good
  <2>2. Below(doc, v) \cap g.roots = {}
    BY <2>1, BelowInTree
  <2>3. h.roots = g.roots \ Below(doc, v)
    <3>1. g \in Places
      BY <2>1 DEF Tree
    <3> QED
      BY <3>1, WithoutFields
  <2> QED
    BY <1>1, <2>2, <2>3
<1>10. c \in E /\ \A n \in 1..Len(parser.open) : parser.open[n] \in E
  BY <1>1, <1>2, <1>7
<1>11. E \subseteq D
  OBVIOUS
<1> HIDE DEF f, h, E
<1>12. /\ Seen(f, h, E) /\ v \in E /\ (f.overflowed <=> doc.overflowed)
       /\ Shape(f, E) = Pruned(tree, E, v, "null")
       /\ Document!IsCut(tree, ToSet(Of(doc, v)), D \ E)
  BY <1>1, <1>8 DEF ClearedTo, SameMemory
<1>13. doc' = f /\ p.todo \in {p.todo}
  BY DEF Continue, f
<1>14. /\ tree' = Pruned(tree, E, v, "null") /\ DOMAIN tree' = E
       /\ doc'.overflowed = doc.overflowed /\ Settled
  <2>1. /\ tree' = Shape(f, E) /\ DOMAIN tree' = E /\ (doc'.overflowed <=> f.overflowed)
        /\ doc'.overflowed \in BOOLEAN /\ Settled
    BY <1>1, <1>9, <1>12, <1>13, LedTo
  <2> QED
    BY <1>1, <1>12, <2>1
<1>15. Document!SetNode(v, "null")
  <2>1. tree[v].of = Of(doc, v)
    BY <1>1, <1>5 DEF Shape
  <2>2. Document!Assign(tree, v, "null")
    BY <1>1, <1>11, <1>12, <1>14, <2>1, PrunedAssigned
  <2> QED
    BY <2>2 DEF Document!SetNode
<1>16. v \in Document!Places(tree')
  <2>1. c \in DOMAIN tree' /\ tree'[c] = tree[c]
    BY <1>7, <1>10, <1>14 DEF Pruned
  <2>2. /\ tree'[c].is = "object" /\ i + 1 \in DOMAIN tree'[c].of /\ tree'[c].of[i + 1] = v
    BY <1>3, <1>4, <1>5, <2>1
  <2> QED
    BY <1>5, <2>1, <2>2, ValueIsPlace
<1>17. Placed'
  <2>1. Continue(f, p)
    BY DEF f
  <2> QED
    BY <1>10, <1>14, <1>16, <2>1, ContinuePlaced
<1> QED
  BY <1>6, <1>14, <1>15, <1>17 DEF Mirrored, Document!Next

\* The key of a new member is written where there was nothing.
Membered(t, c, K, s) == Put(GrownBy(t, c, K, "null"), K[1], s)

MemberGrown(t, c, K, s, v) ==
  LET u == Membered(t, c, K, s) IN
  /\ u[v] = Document!Node("null")
  /\ u[c] = [is |-> t[c].is, of |-> t[c].of \o K]
  /\ Put(u, v, "null") = u
  /\ u = GrownBy(t, c, K, s)

LEMMA PutGrown ==
  ASSUME NEW t, NEW c \in DOMAIN t, NEW K, K[1] \in ToSet(K), ToSet(K) \cap DOMAIN t = {}, NEW s,
         NEW v \in ToSet(K), v # K[1]
  PROVE  MemberGrown(t, c, K, s, v)
<1> DEFINE u == Membered(t, c, K, s)
<1>0. u = Put(GrownBy(t, c, K, "null"), K[1], s)
  BY DEF Membered
<1> HIDE DEF u
<1>1. DOMAIN u = DOMAIN t \cup ToSet(K) /\ c # v /\ c # K[1]
  BY <1>0 DEF Put, GrownBy
<1>2. u[v] = Document!Node("null")
  BY <1>0 DEF Put, GrownBy
<1>3. u[c] = [is |-> t[c].is, of |-> t[c].of \o K]
  BY <1>0, <1>1 DEF Put, GrownBy
<1>4. u = Put(u, v, "null")
  <2>1. u = [w \in DOMAIN u |-> u[w]]
    BY <1>0 DEF Put, GrownBy
  <2> HIDE DEF Put
  <2> DEFINE x == Put(u, v, "null")
  <2>2. DOMAIN x = DOMAIN u /\ x = [w \in DOMAIN u |-> x[w]] /\ \A w \in DOMAIN u : u[w] = x[w]
    BY <1>1, <1>2 DEF Put
  <2> HIDE DEF x
  <2>3. u = x
    BY <2>1, <2>2
  <2> QED
    BY <2>3 DEF x
<1>5. u = GrownBy(t, c, K, s)
  BY <1>0 DEF Put, GrownBy
<1> QED
  BY <1>2, <1>3, <1>4, <1>5 DEF u, MemberGrown

\* The two slots of a member, when there was room for both.
LEMMA PairMade ==
  ASSUME NEW g, NEW D, Seen(doc, g, D), NEW c \in D, doc.var[c].type = "object",
         NEW r \in AddPair(doc, c), Len(r[1].pools) <= MaxPools, r[2] # NullSlot
  PROVE  \E h, v : /\ Sprung(doc, g, D, c, <<r[2], v>>, "null", r[1], h)
                    /\ r[1].var[r[2]].next = v /\ r[1].var[r[2]].type = "null"
<1>1. \E h : IF r[2] = NullSlot THEN RanOut(doc, g, D, r[1], h)
             ELSE \E v : /\ Sprung(doc, g, D, c, <<r[2], v>>, "null", r[1], h)
                         /\ r[1].var[r[2]].next = v /\ r[1].var[v].type = "null"
                         /\ r[1].var[r[2]].type = "null"
  BY PairShown
<1> QED
  BY <1>1

\* A member that is new.
LEMMA MadeMirrored ==
  ASSUME NEW g, NEW D, NEW k, Stage(g, D, k), parser.todo = "member",
         NEW s \in Strings, FindKey(doc, Container, s) = NullSlot,
         NEW r \in AddPair(doc, Container), r[2] # NullSlot,
         NEW p, p.open = parser.open, p.node = r[1].var[r[2]].next,
         Continue(Saved(r[1], r[2], s), p)
  PROVE  Mirrored
<1> DEFINE c == Container
           x == r[2]
           e == r[1]
           f == Saved(e, x, s)
           O == Of(doc, c)
<1>1. /\ Stepping(g, D) /\ Seen(doc, g, D) /\ g.roots = {Root} /\ tree = Shape(doc, D) /\ DOMAIN tree = D
      /\ Shaped(doc) /\ doc.overflowed \in BOOLEAN /\ Building(k) /\ Len(doc'.pools) <= MaxPools
      /\ \A i \in 1..Len(parser.open) : parser.open[i] \in D
  BY StageFacts
<1>2. c \in D /\ doc.var[c].type = "object"
  <2>1. parser.todo # "value"
    OBVIOUS
  <2>2. doc.var[c].type = "object"
    BY <1>1 DEF Building, Parsing, Container
  <2> QED
    BY <2>1, <2>2, ContainerShown
<1>3. doc' = f
  BY DEF Continue
<1>4. Len(e.pools) <= MaxPools /\ Len(f.pools) <= MaxPools
  <2>1. Shaped(e)
    BY <1>1, AddPairGrows DEF Grows
  <2>2. Saved(e, x, s).pools = e.pools
    BY <2>1 DEF Saved, Shaped
  <2> QED
    BY <1>1, <1>3, <2>2
<1>5. PICK h : \E v : /\ Sprung(doc, g, D, c, <<x, v>>, "null", e, h)
                      /\ e.var[x].next = v /\ e.var[x].type = "null"
  <2>1. Seen(doc, g, D) /\ Len(r[1].pools) <= MaxPools
    BY <1>1, <1>4
  <2> QED
    BY <1>2, <2>1, PairMade
<1>6. PICK v : /\ Sprung(doc, g, D, c, <<x, v>>, "null", e, h)
               /\ e.var[x].next = v /\ e.var[x].type = "null"
  BY <1>5
<1> DEFINE K == <<x, v>>
           E == D \cup ToSet(K)
<1>7. Len(K) = 2 /\ K[1] = x /\ K[2] = v /\ x \in ToSet(K) /\ v \in ToSet(K)
  BY DEF ToSet
<1>8. Sprung(doc, g, D, c, K, "null", e, h)
  BY <1>6
<1>9. FindKey(doc, c, s) = NullSlot /\ x # NullSlot /\ p.node = v
  BY <1>6
<1> HIDE DEF K, E, c, x, O
<1>10. /\ K \in Seq(Slots) /\ ToSet(K) \cap g.in = {} /\ h.roots = {Root}
       /\ (e.overflowed <=> doc.overflowed)
       /\ Seen(e, h, E) /\ Shape(e, E) = GrownBy(tree, c, K, "null")
  BY <1>1, <1>8 DEF Sprung, E
<1>11. x # v
  <2>1. \A i, j \in 1..Len(K) : K[i] = K[j] => i = j
    BY <1>1, <1>2, <1>8, SprungApart
  <2> QED
    BY <1>7, <2>1
<1>12. ToSet(K) \cap D = {} /\ D \subseteq E /\ x \in E
  BY <1>1, <1>7, <1>10 DEF Seen, E
<1>13. PICK j : /\ Seen(f, j, E) /\ j.roots = h.roots /\ (f.overflowed <=> e.overflowed)
                /\ Shape(f, E) = Put(Shape(e, E), x, s)
  <2> DEFINE q == <<f, x>>
  <2>1. q \in SetNull(e, x, s) /\ s \in AllValues
    BY SavedIsSet DEF AllValues, x
  <2>2. q[1] = f /\ q[2] = x /\ q[2] # NullSlot
    BY <1>9
  <2> HIDE DEF q, f, e
  <2>3. e.var[x].type = "null"
    BY <1>6 DEF x
  <2>4. \E j : /\ Seen(q[1], j, E) /\ j.roots = h.roots
               /\ \/ q[2] = NullSlot /\ q[1].overflowed /\ Shape(q[1], E) = Shape(e, E)
                  \/ /\ q[2] = x /\ (q[1].overflowed <=> e.overflowed)
                     /\ Shape(q[1], E) = Put(Shape(e, E), x, s)
    BY <1>4, <1>10, <1>12, <2>1, <2>2, <2>3, NullShown
  <2> QED
    BY <2>2, <2>4
<1> HIDE DEF f, e
<1>14. /\ tree' = Put(GrownBy(tree, c, K, "null"), K[1], s) /\ doc'.overflowed = doc.overflowed
       /\ DOMAIN tree' = E /\ Settled
  <2>1. /\ tree' = Shape(f, E) /\ DOMAIN tree' = E /\ (doc'.overflowed <=> f.overflowed)
        /\ doc'.overflowed \in BOOLEAN /\ Settled
    BY <1>1, <1>3, <1>10, <1>13, LedTo
  <2> QED
    BY <1>1, <1>7, <1>10, <1>13, <2>1
<1>15. /\ tree'[v] = Document!Node("null") /\ tree' = Put(tree', v, "null")
       /\ tree'[c] = [is |-> tree[c].is, of |-> tree[c].of \o K]
       /\ tree' = GrownBy(tree, c, K, s) /\ v \in E
  <2>1. c \in DOMAIN tree /\ K[1] \in ToSet(K) /\ ToSet(K) \cap DOMAIN tree = {} /\ v \in ToSet(K) /\ v # K[1]
    BY <1>1, <1>2, <1>7, <1>11, <1>12
  <2> QED
    <3> DEFINE t == tree
    <3>1. tree' = Membered(t, c, K, s)
      BY <1>14 DEF Membered
    <3>2. c \in DOMAIN t /\ K[1] \in ToSet(K) /\ ToSet(K) \cap DOMAIN t = {} /\ v \in ToSet(K) /\ v # K[1]
      BY <2>1
    <3> HIDE DEF t
    <3>3. MemberGrown(t, c, K, s, v)
      BY <3>2, PutGrown
    <3>4. v \in E
      BY <1>7 DEF E
    <3> QED
      BY <3>1, <3>3, <3>4 DEF t, MemberGrown
<1>16. Document!PutMember(c, s, "null")
  <2>1. Document!KeysAt(tree, c, s) = {}
    <3>1. Document!KeysAt(Shape(doc, D), c, s) = {} <=> FindKey(doc, c, s) = NullSlot
      BY <1>1, <1>2, KeyShown
    <3> QED
      BY <1>1, <1>9, <3>1
  <2>2. K \in Document!Fresh(2)
    <3>1. \A i, l \in 1..Len(K) : K[i] = K[l] => i = l
      BY <1>1, <1>2, <1>8, SprungApart
    <3> QED
      BY <1>1, <1>7, <1>10, <1>12, <3>1, FreshIs
  <2> DEFINE t == [Document!Grown(tree, c, K) EXCEPT ![K[1]] = Document!Node(s)]
  <2>3. t = tree'
    <3>1. GrownBy(Shape(doc, D), c, K, s) = t
      BY <1>1, <1>2, <1>7, <1>12, GrownWithIs
    <3> QED
      BY <1>1, <1>15, <3>1
  <2> HIDE DEF t
  <2>4. Document!Assign(t, K[2], "null")
    <3>1. v \in DOMAIN t /\ t[v].of = << >> /\ tree' = Put(t, v, "null")
      BY <1>14, <1>15, <2>3 DEF Document!Node
    <3> QED
      BY <1>7, <1>14, <3>1, NullAssigned
  <2> QED
    BY <2>1, <2>2, <2>4 DEF t, Document!PutMember
<1>17. tree[c].of = O /\ O \in Seq(D \ {Root}) /\ tree[c].is = "object" /\ Len(O) % 2 = 0
  <2>1. \A u \in D : tree[u].is = Is(doc, u) /\ tree[u].of = Of(doc, u) /\ Of(doc, u) \in Seq(D \ {Root})
    BY <1>1, SteppingFacts DEF Within
  <2>2. Len(Of(doc, c)) % 2 = 0
    BY <1>1, <1>2, EvenKids
  <2> QED
    BY <1>2, <2>1, <2>2 DEF Is, O
<1>18. v \in Document!Places(tree')
  <2> DEFINE S == D \cup Slots
             i == Len(O) + 2
  <2>1. O \in Seq(S) /\ K \in Seq(S)
    BY <1>10, <1>17
  <2> HIDE DEF S
  <2>2. Len(O) \in Nat /\ DOMAIN (O \o K) = 1..Len(O) + 2
    <3>1. Len(O) \in Nat /\ DOMAIN (O \o K) = 1..Len(O) + Len(K)
      BY <2>1, Concatenated, Zenon
    <3> QED
      BY <1>7, <3>1
  <2>3. (O \o K)[Len(O) + 2] = v
    <3>1. 2 \in 1..Len(K)
      BY <1>7
    <3>2. (O \o K)[Len(O) + 2] = K[2]
      BY <2>1, <3>1, Concatenated
    <3> QED
      BY <1>7, <3>2
  <2>4. i \in DOMAIN (O \o K) /\ i % 2 = 0
    BY <1>17, <2>2
  <2>5. c \in DOMAIN tree' /\ tree'[c].is = "object" /\ tree'[c].of = O \o K
    BY <1>2, <1>12, <1>14, <1>15, <1>17
  <2> HIDE DEF i
  <2>6. tree'[c].of[i] = v
    BY <2>3, <2>5 DEF i
  <2>7. i \in DOMAIN tree'[c].of
    BY <2>4, <2>5
  <2> QED
    BY <2>4, <2>5, <2>6, <2>7, ValueIsPlace
<1>19. Placed'
  <2>1. Continue(f, p)
    BY DEF f, e, x
  <2> QED
    BY <1>1, <1>9, <1>12, <1>14, <1>18, <2>1, ContinuePlaced
<1>20. Document!Next
  <2>1. c \in Document!Those(tree, "object")
    BY <1>1, <1>2, <1>17 DEF Document!Those
  <2> QED
    BY <1>16, <2>1 DEF Document!Next
<1> QED
  BY <1>14, <1>19, <1>20 DEF Mirrored

LEMMA MemberMirrored ==
  ASSUME NEW g, NEW D, NEW k, Stage(g, D, k), ParseMember
  PROVE  Mirrored
<1> DEFINE s == parser.built
           key == FindKey(doc, Container, s)
           q(d, n) == [Moved EXCEPT !.node = d.var[n].next, !.todo = "value"]
<1>1. ParserRecord(Moved) /\ Moved.open = parser.open /\ Building(k) /\ Shaped(doc)
      /\ Len(doc'.pools) <= MaxPools
  BY StageFacts
<1>2. parser.todo = "member"
  BY DEF ParseMember
<1>3. s \in Strings
  BY <1>1, <1>2 DEF Building, Parsing
<1>4. CASE EndOfText(doc)
  BY <1>4, EndMirrored
<1>5. CASE Return("InvalidInput", doc)
  BY <1>5, ReturnMirrored DEF Errors
<1> HIDE DEF s
<1>6. CASE key # NullSlot /\ Continue(Clear(doc, doc.var[key].next), q(doc, key))
  <2> DEFINE v == doc.var[key].next
             p == [Moved EXCEPT !.node = v, !.todo = "value"]
  <2>1. Continue(Clear(doc, v), p) /\ key # NullSlot
    BY <1>6
  <2> HIDE DEF key
  <2>2. p.open = parser.open /\ p.node = v
    <3> HIDE DEF v
    <3> QED
      BY <1>1 DEF ParserRecord
  <2> HIDE DEF p
  <2>3. key = FindKey(doc, Container, s) /\ v = doc.var[key].next
    BY DEF key
  <2> HIDE DEF v
  <2> QED
    BY <1>2, <1>3, <2>1, <2>2, <2>3, FoundMirrored
<1>7. ASSUME key = NullSlot, NEW r \in AddPair(doc, Container),
             IF r[2] = NullSlot THEN Return("NoMemory", r[1])
             ELSE Continue(Saved(r[1], r[2], s), [q(r[1], r[2]) EXCEPT !.built = NodeAfterSave(doc, s)])
      PROVE  Mirrored
  <2>1. CASE r[2] = NullSlot
    <3>1. Return("NoMemory", r[1])
      BY <1>7, <2>1
    <3>2. Seen(doc, g, D) /\ Container \in D /\ doc.var[Container].type = "object"
      <4>1. parser.todo # "value"
        BY <1>2
      <4>2. doc.var[Container].type = "object"
        BY <1>1, <1>2 DEF Building, Parsing, Container
      <4> QED
        BY <4>1, <4>2, ContainerShown, StageFacts
    <3>3. Len(r[1].pools) <= MaxPools
      <4>1. Shaped(r[1])
        BY <1>1, AddPairGrows DEF Grows
      <4>2. doc' \in Shrunk(r[1])
        BY <3>1 DEF Return
      <4> QED
        BY <1>1, <4>1, <4>2, BoundBack
    <3>4. \E h : RanOut(doc, g, D, r[1], h)
      <4>1. \E h : IF r[2] = NullSlot THEN RanOut(doc, g, D, r[1], h)
                   ELSE \E v : /\ Sprung(doc, g, D, Container, <<r[2], v>>, "null", r[1], h)
                               /\ r[1].var[r[2]].next = v /\ r[1].var[v].type = "null"
                               /\ r[1].var[r[2]].type = "null"
        BY <1>7, <3>2, <3>3, PairShown
      <4> QED
        BY <2>1, <4>1
    <3> QED
      BY <3>1, <3>4, RanOutMirrored
  <2>2. CASE r[2] # NullSlot
    <3> DEFINE v == r[1].var[r[2]].next
               x == NodeAfterSave(doc, s)
               p == [Moved EXCEPT !.node = v, !.todo = "value"]
               y == [p EXCEPT !.built = x]
    <3>1. Continue(Saved(r[1], r[2], s), y)
      BY <1>7, <2>2
    <3>2. y.open = parser.open /\ y.node = v
      <4> HIDE DEF v, x
      <4>1. p.open = parser.open /\ p.node = v
        BY <1>1 DEF ParserRecord
      <4> HIDE DEF p
      <4>2. y.open = p.open /\ y.node = p.node
        OBVIOUS
      <4> QED
        BY <4>1, <4>2
    <3> HIDE DEF y
    <3> QED
      BY <1>2, <1>3, <1>7, <2>2, <3>1, <3>2, MadeMirrored
  <2> QED
    BY <2>1, <2>2
<1> QED
  BY <1>4, <1>5, <1>6, <1>7 DEF ParseMember, s

\* A text that is new clears the tree.
LEMMA DeserializeMirrored ==
  ASSUME NEW g, NEW D, Stepping(g, D), g.roots = {Root}, NEW t, Deserialize(t)
  PROVE  Mirrored
<1>1. doc' = Empty /\ parser' = Start(t)
  BY DEF Deserialize
<1>2. Document!Clear /\ Stays(g)
  BY <1>1, ClearIs
<1>3. Settled
  BY <1>2 DEF Stays, Settled
<1>4. parser'.open = << >> /\ parser'.node = Root
  BY <1>1 DEF Start
<1>5. Root \in Document!Places(tree')
  BY DEF Document!Places
<1>6. Placed'
  <2>1. \A i \in 1..Len(parser'.open) : parser'.open[i] \in DOMAIN tree'
    BY <1>4
  <2>2. Document!Places(tree)' = Document!Places(tree')
    BY DEF Document!Places, Document!Those
  <2> QED
    BY <1>4, <1>5, <2>1, <2>2 DEF Placed
<1> QED
  BY <1>2, <1>3, <1>6 DEF Mirrored, Document!Next

LEMMA UseMirrored ==
  ASSUME NEW g, NEW D, Stepping(g, D), g.roots = {Root}, UseDocument
  PROVE  Mirrored
<1>1. Use /\ error' # Running
  BY DEF UseDocument, NotRun, Running
<1>2. (Document!Next \/ UNCHANGED Document!vars) /\ Stays(g)
  BY <1>1, UseIs
<1> QED
  BY <1>1, <1>2 DEF Mirrored, Stays, Settled

LEMMA NoStepMirrored ==
  ASSUME NEW g, NEW D, Stepping(g, D), g.roots = {Root}, error = Running => Placed, UNCHANGED vars
  PROVE  Mirrored
<1>1. doc' = doc /\ parser' = parser /\ error' = error
  BY DEF vars
<1>2. Seen(doc, g, D) /\ tree = Shape(doc, D)
  BY DEF Stepping
<1>3. Seen(doc', g, D)
  BY <1>1, <1>2
<1>4. tree' = tree
  BY <1>1, <1>2, <1>3, SteppedTo
<1>5. error' = Running => Placed'
  BY <1>1, <1>4 DEF Placed, Document!Places, Document!Those
<1> QED
  BY <1>1, <1>3, <1>4, <1>5 DEF Mirrored, Settled, Document!vars

-----------------------------------------------------------------------------
\* The document is seen as the tree, and the parser is inside of it.
Mirror ==
  /\ IInv /\ Observed
  /\ \E g, D : Seen(doc, g, D) /\ g.roots = {Root}
  /\ error = Running => Placed

LEMMA MirrorInit ==
  ASSUME Init, Observed
  PROVE  Mirror /\ Document!Init
<1>1. IInv /\ doc = Empty /\ error # Running
  BY InitKeeps DEF Init, NotRun, Running
<1>2. tree = Shape(Empty, {Root})
  BY <1>1, EmptyShown, ShapeIs DEF Observed
<1> QED
  BY <1>1, <1>2, EmptyShown DEF Mirror, Document!Init

LEMMA MirrorStepping ==
  ASSUME Mirror, Observed', Len(doc'.pools) <= MaxPools
  PROVE  \E g, D : Stepping(g, D) /\ g.roots = {Root}
<1>1. PICK g, D : Seen(doc, g, D) /\ g.roots = {Root}
  BY DEF Mirror
<1>2. tree = Shape(doc, D)
  BY <1>1, ShapeIs DEF Mirror, Observed
<1>3. tree' = TreeOf(doc')
  BY DEF Observed, TreeOf
<1> QED
  BY <1>1, <1>2, <1>3 DEF Stepping

LEMMA NextMirrored ==
  ASSUME Mirror, [Next]_vars, Observed', Len(doc'.pools) <= MaxPools
  PROVE  Mirrored
<1>1. PICK g, D : Stepping(g, D) /\ g.roots = {Root}
  BY MirrorStepping
<1>2. CASE \E t \in Texts : Deserialize(t)
  BY <1>1, <1>2, DeserializeMirrored
<1>3. CASE error = Running /\ Parse
  <2>1. PICK k : Building(k)
    BY <1>3 DEF Mirror, IInv, Building, Errors, Running, NotRun
  <2>2. Stage(g, D, k)
    BY <1>1, <1>3, <2>1 DEF Mirror, Stage
  <2> QED
    BY <1>3, <2>2, VariantMirrored, FirstMirrored, MoreMirrored, KeyMirrored, MemberMirrored DEF Parse
<1>4. CASE UseDocument
  BY <1>1, <1>4, UseMirrored
<1>5. CASE UNCHANGED vars
  BY <1>1, <1>5, NoStepMirrored DEF Mirror
<1> QED
  BY <1>2, <1>3, <1>4, <1>5 DEF Next

LEMMA MirrorNext ==
  ASSUME Mirror, [Next]_vars, Observed', Len(doc'.pools) <= MaxPools
  PROVE  Mirror' /\ (Document!Next \/ UNCHANGED Document!vars)
<1>1. Mirrored /\ IInv'
  BY NextMirrored, NextKeeps DEF Mirror
<1>2. \E h, E : Seen(doc', h, E) /\ h.roots = {Root}
  BY <1>1 DEF Mirrored, Settled
<1>3. (\E h, E : Seen(doc, h, E) /\ h.roots = {Root})'
  BY <1>2
<1> QED
  BY <1>1, <1>3 DEF Mirrored, Mirror

LEMMA NextAsked ==
  ASSUME Mirror, Observed', Len(doc'.pools) <= MaxPools
  PROVE  AsAsked
BY MirrorStepping, AskedIs

LEMMA MirrorAlways == Spec /\ []Observed /\ []PoolsFit => []Mirror
<1>1. Init /\ Observed => Mirror
  BY MirrorInit
<1>2. Mirror /\ Observed' /\ PoolsFit' /\ [Next]_vars => Mirror'
  BY MirrorNext DEF PoolsFit
<1> QED
  BY <1>1, <1>2, PTL DEF Spec

\* What the slots, the links between them and the shared strings of a document do, while
\* a text fills it or a program uses it, is what happens to one tree: a slot that is
\* used again, a value that is freed below another or a heap that runs out never shows
\* anywhere else (CollectionImpl.hpp:33-118, ObjectImpl.hpp:16-94, VariantImpl.hpp:48-62).
THEOREM TheMemoryIsATree == Spec /\ []Observed /\ []PoolsFit => ImplementsTree
<1>1. Init /\ Observed => Document!Init
  BY MirrorInit
<1>2. Mirror /\ Observed' /\ PoolsFit' /\ [Next]_vars => [Document!Next]_(Document!vars)
  BY MirrorNext DEF PoolsFit
<1> QED
  BY <1>1, <1>2, MirrorAlways, PTL DEF Spec, ImplementsTree, Document!Spec

\* Each operation of a program changes the member or element it names in the way it is
\* asked to, and no other, or tells that memory ran out (ElementProxy.hpp, MemberProxy.hpp,
\* VariantRefBaseImpl.hpp).
THEOREM UsesDoWhatTheySay == Spec /\ []Observed /\ []PoolsFit => UsesDoAsAsked
<1>1. Mirror /\ Observed' /\ PoolsFit' => AsAsked
  BY NextAsked DEF PoolsFit
<1>2. Mirror /\ Observed' /\ PoolsFit' => [error # Running => AsAsked]_vars
  BY <1>1
<1> QED
  BY <1>2, MirrorAlways, PTL DEF UsesDoAsAsked

-----------------------------------------------------------------------------
(***************************************************************************)
(* The names of members                                                    *)
(***************************************************************************)
\* A node is in one place, and every key has a value.
TreeLike(t) ==
  /\ \A c \in DOMAIN t : t[c] = [is |-> t[c].is, of |-> t[c].of]
  /\ \A c \in DOMAIN t : t[c].of \in Seq(DOMAIN t \ {Root})
  /\ \A c, e \in DOMAIN t : \A i \in DOMAIN t[c].of, j \in DOMAIN t[e].of :
       t[c].of[i] = t[e].of[j] => c = e /\ i = j
  /\ \A c \in Document!Those(t, "object") : Len(t[c].of) % 2 = 0

LEMMA ShapeTreeLike ==
  ASSUME NEW d, NEW g, NEW D, Seen(d, g, D)
  PROVE  TreeLike(Shape(d, D))
<1> DEFINE t == Shape(d, D)
<1>f. Within(d, g, D)
  BY SeenFacts
<1>1. DOMAIN t = D /\ \A c \in D : t[c].is = Is(d, c) /\ t[c].of = Of(d, c)
  BY DEF Shape
<1>2. D \subseteq g.in /\ Tree(d, g) /\ \A c \in D : Of(d, c) \in Seq(D \ {Root})
  BY <1>f DEF Within
<1>3. ASSUME NEW c \in D, NEW e \in D, NEW i \in DOMAIN Of(d, c), NEW j \in DOMAIN Of(d, e),
             Of(d, c)[i] = Of(d, e)[j]
      PROVE  c = e /\ i = j
  <2>1. Of(d, c)[i] \in ToSet(Of(d, c)) /\ Of(d, e)[j] \in ToSet(Of(d, e))
    BY DEF ToSet
  <2>2. c \in g.in /\ e \in g.in
    BY <1>2
  <2>3. g.own[Of(d, c)[i]] = c /\ g.own[Of(d, e)[j]] = e /\ d.var[c].type \in Collection
    BY <1>2, <2>1, <2>2, OfIs
  <2>4. c = e
    BY <1>3, <2>3
  <2>5. Of(d, c) = Kids(d, c) /\ DOMAIN Of(d, c) = 1..Len(Of(d, c))
    BY <1>2, <2>3 DEF Of
  <2>6. i = j
    BY <1>2, <1>3, <2>2, <2>4, <2>5, KidsApart
  <2> QED
    BY <2>4, <2>6
<1>4. ASSUME NEW c \in D, Is(d, c) = "object"
      PROVE  Len(Of(d, c)) % 2 = 0
  <2>1. CASE d.var[c].type = "object"
    BY <2>1, EvenKids
  <2>2. CASE d.var[c].type # "object"
    <3>1. d.var[c].type \notin Collection
      BY <1>4, <2>2 DEF Is, Collection
    <3>2. Of(d, c) = << >>
      BY <3>1 DEF Of
    <3> QED
      BY <3>2
  <2> QED
    BY <2>1, <2>2
<1>5. \A c \in Document!Those(t, "object") : c \in D /\ Is(d, c) = "object" /\ t[c].of = Of(d, c)
  BY <1>1 DEF Document!Those
<1> HIDE DEF t
<1>6. \A c, e \in DOMAIN t : \A i \in DOMAIN t[c].of, j \in DOMAIN t[e].of :
        t[c].of[i] = t[e].of[j] => c = e /\ i = j
  BY <1>1, <1>3
<1>7. \A c \in Document!Those(t, "object") : Len(t[c].of) % 2 = 0
  BY <1>4, <1>5
<1>8. \A c \in DOMAIN t : t[c].of \in Seq(DOMAIN t \ {Root})
  BY <1>1, <1>2
<1>9. \A c \in DOMAIN t : t[c] = [is |-> t[c].is, of |-> t[c].of]
  BY DEF t, Shape
<1> QED
  BY <1>6, <1>7, <1>8, <1>9 DEF TreeLike, t

-----------------------------------------------------------------------------
\* NamesAreUnique, of any tree.
NamesApart(t) ==
  \A c \in Document!Those(t, "object"), s \in Strings :
    \A i, j \in Document!KeysAt(t, c, s) : i = j

\* v is not the name of a member.
NoKey(t, v) ==
  \A c \in Document!Those(t, "object") :
    \A i \in DOMAIN t[c].of : i % 2 = 1 => t[c].of[i] # v

\* The members of c in u have the names they have in t.
SameNames(t, u, c) ==
  /\ c \in Document!Those(t, "object") /\ u[c].of = t[c].of
  /\ \A i \in DOMAIN t[c].of : i % 2 = 1 => u[t[c].of[i]].is = t[t[c].of[i]].is

LEMMA NamesKept ==
  ASSUME NEW t, NamesApart(t), NEW u,
         \A c \in Document!Those(u, "object") : u[c].of = << >> \/ SameNames(t, u, c)
  PROVE  NamesApart(u)
<1> SUFFICES ASSUME NEW c \in Document!Those(u, "object"), NEW s \in Strings,
                    NEW i \in Document!KeysAt(u, c, s), NEW j \in Document!KeysAt(u, c, s)
             PROVE  i = j
  BY DEF NamesApart
<1>1. i \in DOMAIN u[c].of
  BY DEF Document!KeysAt
<1>2. SameNames(t, u, c)
  BY <1>1
<1>3. i \in Document!KeysAt(t, c, s) /\ j \in Document!KeysAt(t, c, s)
  BY <1>2 DEF SameNames, Document!KeysAt
<1> QED
  BY <1>2, <1>3 DEF NamesApart, SameNames

LEMMA PlaceNoKey ==
  ASSUME NEW t, TreeLike(t), NEW v \in Document!Places(t)
  PROVE  NoKey(t, v)
<1> SUFFICES ASSUME NEW c \in Document!Those(t, "object"), NEW i \in DOMAIN t[c].of, i % 2 = 1,
                    t[c].of[i] = v
             PROVE  FALSE
  BY DEF NoKey
<1>1. c \in DOMAIN t /\ t[c].is = "object"
  BY DEF Document!Those
<1>2. v # Root
  BY <1>1 DEF TreeLike
<1>3. ASSUME NEW e \in Document!Those(t, "array"), v \in Document!ToSet(t[e].of)
      PROVE  FALSE
  <2>1. e \in DOMAIN t /\ t[e].is = "array"
    BY DEF Document!Those
  <2>2. PICK j \in DOMAIN t[e].of : t[e].of[j] = v
    BY <1>3 DEF Document!ToSet
  <2>3. c = e
    BY <1>1, <2>1, <2>2 DEF TreeLike
  <2> QED
    BY <1>1, <2>1, <2>3
<1>4. ASSUME NEW e \in Document!Those(t, "object"), NEW j \in DOMAIN t[e].of, j % 2 = 0, t[e].of[j] = v
      PROVE  FALSE
  <2>1. e \in DOMAIN t
    BY DEF Document!Those
  <2>2. i = j
    BY <1>1, <1>4, <2>1 DEF TreeLike
  <2> QED
    BY <1>4, <2>2
<1> DEFINE B(e) == {t[e].of[n] : n \in {m \in DOMAIN t[e].of : m % 2 = 0}}
           X == UNION {Document!ToSet(t[e].of) : e \in Document!Those(t, "array")}
           Y == UNION {B(e) : e \in Document!Those(t, "object")}
<1>5. v \notin X
  BY <1>3
<1>6. v \notin Y
  BY <1>4
<1>7. v \in {Root} \cup X \cup Y
  BY DEF Document!Places
<1> HIDE DEF X, Y
<1> QED
  BY <1>2, <1>5, <1>6, <1>7

\* Giving v a value, which is no key, leaves the names as they are.
LEMMA AssignNames ==
  ASSUME NEW t, NamesApart(t), NEW v, NoKey(t, v), NEW value, Document!Assign(t, v, value), TreeLike(tree')
  PROVE  NamesApart(tree')
<1> DEFINE u == tree'
<1>1. PICK is : u = [w \in DOMAIN t \ (DOMAIN t \ DOMAIN u) |-> IF w = v THEN Document!Node(is) ELSE t[w]]
  BY DEF Document!Assign
<1>2. DOMAIN u \subseteq DOMAIN t /\ \A w \in DOMAIN u : u[w] = IF w = v THEN Document!Node(is) ELSE t[w]
  BY <1>1
<1>3. \A c \in DOMAIN u : \A i \in DOMAIN u[c].of : u[c].of[i] \in DOMAIN u
  BY DEF TreeLike
<1>4. Document!Node(is).of = << >>
  BY DEF Document!Node
<1>5. ASSUME NEW c \in Document!Those(u, "object")
      PROVE  u[c].of = << >> \/ SameNames(t, u, c)
  <2>1. c \in DOMAIN u /\ u[c].is = "object"
    BY DEF Document!Those
  <2>2. CASE c = v
    BY <1>2, <1>4, <2>1, <2>2
  <2>3. CASE c # v
    <3>1. u[c] = t[c] /\ c \in DOMAIN t
      BY <1>2, <2>1, <2>3
    <3>2. c \in Document!Those(t, "object")
      BY <2>1, <3>1 DEF Document!Those
    <3>3. \A i \in DOMAIN t[c].of : i % 2 = 1 => t[c].of[i] # v /\ t[c].of[i] \in DOMAIN u
      BY <1>3, <2>1, <3>1, <3>2 DEF NoKey
    <3> QED
      BY <1>2, <3>1, <3>2, <3>3 DEF SameNames
  <2> QED
    BY <2>2, <2>3
<1> HIDE DEF u
<1>6. NamesApart(u)
  BY <1>5, NamesKept
<1> QED
  BY <1>6 DEF u

\* What is left of K has the keys of K, some of them.
Drawn(K, left) ==
  \E f : \A i, j \in DOMAIN left : i % 2 = 1 =>
           /\ f[i] \in DOMAIN K /\ f[i] % 2 = 1 /\ left[i] = K[f[i]]
           /\ f[i] = f[j] => i = j

LEMMA PairDrawn ==
  ASSUME NEW S, NEW K \in Seq(S), Len(K) % 2 = 0, NEW i \in DOMAIN K, i % 2 = 1
  PROVE  Drawn(K, Document!RemoveAt(Document!RemoveAt(K, i), i))
<1>1. Len(K) \in Nat /\ i \in 1..Len(K) /\ DOMAIN K = 1..Len(K)
  OBVIOUS
<1>2. i + 1 \in 1..Len(K)
  BY <1>1
<1> DEFINE left == CutFrom(K, i, 2)
           f == [n \in 1..Len(K) - 2 |-> IF n < i THEN n ELSE n + 2]
<1>3. left = Document!RemoveAt(Document!RemoveAt(K, i), i)
  BY <1>1, <1>2, TwoCut
<1>4. DOMAIN left = 1..Len(K) - 2 /\ \A n \in 1..Len(K) - 2 : left[n] = K[f[n]]
  BY DEF CutFrom
<1>5. ASSUME NEW n \in 1..Len(K) - 2, NEW m \in 1..Len(K) - 2, n % 2 = 1
      PROVE  f[n] \in 1..Len(K) /\ f[n] % 2 = 1 /\ (f[n] = f[m] => n = m)
  <2>1. n \in Nat /\ m \in Nat /\ n + 2 \in 1..Len(K) /\ n \in 1..Len(K) /\ (n + 2) % 2 = 1
    BY <1>1, <1>5
  <2>2. f[n] = IF n < i THEN n ELSE n + 2
    OBVIOUS
  <2>3. f[m] = IF m < i THEN m ELSE m + 2
    OBVIOUS
  <2> HIDE DEF f
  <2>4. f[n] \in 1..Len(K) /\ f[n] % 2 = 1
    BY <1>5, <2>1, <2>2
  <2>5. f[n] = f[m] => n = m
    BY <1>1, <2>1, <2>2, <2>3
  <2> QED
    BY <2>4, <2>5
<1> HIDE DEF left, f
<1>6. \A n, m \in DOMAIN left : n % 2 = 1 =>
         /\ f[n] \in DOMAIN K /\ f[n] % 2 = 1 /\ left[n] = K[f[n]]
         /\ f[n] = f[m] => n = m
  <2> SUFFICES ASSUME NEW n \in DOMAIN left, NEW m \in DOMAIN left, n % 2 = 1
               PROVE  /\ f[n] \in DOMAIN K /\ f[n] % 2 = 1 /\ left[n] = K[f[n]]
                      /\ f[n] = f[m] => n = m
    OBVIOUS
  <2> QED
    BY <1>1, <1>4, <1>5
<1>7. Drawn(K, left)
  BY <1>6 DEF Drawn
<1> QED
  BY <1>3, <1>7

\* What is left of a collection has the names that it had.
LEMMA LeaveNames ==
  ASSUME TreeLike(tree), NamesApart(tree), NEW c \in DOMAIN tree, NEW left, Document!Leave(c, left),
         tree[c].is # "object" \/ Drawn(tree[c].of, left), TreeLike(tree')
  PROVE  NamesApart(tree')
<1> DEFINE t == tree
           u == tree'
<1>1. u = [w \in DOMAIN t \ (DOMAIN t \ DOMAIN u) |-> IF w = c THEN [t[c] EXCEPT !.of = left] ELSE t[w]]
  BY DEF Document!Leave
<1>2. t[c] = [is |-> t[c].is, of |-> t[c].of]
  BY DEF TreeLike
<1>3. /\ DOMAIN u \subseteq DOMAIN t /\ \A w \in DOMAIN u : w # c => u[w] = t[w]
      /\ \A w \in DOMAIN u : u[w].is = t[w].is
      /\ c \in DOMAIN u => u[c].is = t[c].is /\ u[c].of = left
  BY <1>1, <1>2
<1>4. \A w \in DOMAIN u : \A i \in DOMAIN u[w].of : u[w].of[i] \in DOMAIN u
  BY DEF TreeLike
<1>5. NamesApart(t) /\ (t[c].is # "object" \/ Drawn(t[c].of, left))
  OBVIOUS
<1> HIDE DEF t, u
<1>6. ASSUME NEW e \in Document!Those(u, "object"), NEW s \in Strings,
             NEW i \in Document!KeysAt(u, e, s), NEW j \in Document!KeysAt(u, e, s)
      PROVE  i = j
  <2>1. e \in DOMAIN u /\ u[e].is = "object"
    BY DEF Document!Those
  <2>2. e \in Document!Those(t, "object") /\ t[e].is = "object"
    BY <1>3, <2>1 DEF Document!Those
  <2>3. /\ i \in DOMAIN u[e].of /\ i % 2 = 1 /\ u[u[e].of[i]].is = s
        /\ j \in DOMAIN u[e].of /\ j % 2 = 1 /\ u[u[e].of[j]].is = s
    BY DEF Document!KeysAt
  <2>4. t[u[e].of[i]].is = s /\ t[u[e].of[j]].is = s
    BY <1>3, <1>4, <2>1, <2>3
  <2>5. CASE e # c
    <3>1. u[e] = t[e]
      BY <1>3, <2>1, <2>5
    <3>2. i \in Document!KeysAt(t, e, s) /\ j \in Document!KeysAt(t, e, s)
      BY <2>3, <2>4, <3>1 DEF Document!KeysAt
    <3> QED
      BY <1>5, <2>2, <3>2 DEF NamesApart
  <2>6. CASE e = c
    <3>1. u[e].of = left
      BY <1>3, <2>1, <2>6
    <3>2. PICK f : \A k, l \in DOMAIN left : k % 2 = 1 =>
                     /\ f[k] \in DOMAIN t[c].of /\ f[k] % 2 = 1 /\ left[k] = t[c].of[f[k]]
                     /\ f[k] = f[l] => k = l
      BY <1>5, <2>2, <2>6 DEF Drawn
    <3>3. f[i] \in Document!KeysAt(t, e, s) /\ f[j] \in Document!KeysAt(t, e, s)
      BY <2>3, <2>4, <2>6, <3>1, <3>2 DEF Document!KeysAt
    <3>4. f[i] = f[j]
      BY <1>5, <2>2, <3>3 DEF NamesApart
    <3> QED
      BY <2>3, <3>1, <3>2, <3>4
  <2> QED
    BY <2>5, <2>6
<1>7. NamesApart(u)
  BY <1>6 DEF NamesApart
<1> QED
  BY <1>7 DEF u

\* New elements are no names, and leave the names as they are.
LEMMA GrownNames ==
  ASSUME TreeLike(tree), NamesApart(tree), NEW c \in Document!Those(tree, "array"),
         NEW n, NEW new \in Document!Fresh(n)
  PROVE  /\ NamesApart(Document!Grown(tree, c, new))
         /\ \A k \in 1..n : NoKey(Document!Grown(tree, c, new), new[k])
<1> DEFINE t == tree
           u == Document!Grown(tree, c, new)
<1>1. c \in DOMAIN t /\ t[c].is = "array" /\ t[c] = [is |-> t[c].is, of |-> t[c].of]
  BY DEF Document!Those, TreeLike
<1>2. new \in [1..n -> (Slots \cup {Root}) \ DOMAIN t]
  BY DEF Document!Fresh
<1>3. DOMAIN u = DOMAIN t \cup Document!ToSet(new) /\ u[c].is = "array"
  BY <1>1 DEF Document!Grown
<1>4. /\ \A w \in DOMAIN t : w # c => u[w] = t[w]
      /\ \A w \in DOMAIN u : w \notin DOMAIN t => u[w].is = "null"
      /\ \A w \in DOMAIN t : u[w].is = t[w].is
  BY <1>1, <1>3 DEF Document!Grown, Document!Node
<1>5. \A w \in DOMAIN t : \A i \in DOMAIN t[w].of : t[w].of[i] \in DOMAIN t
  BY DEF TreeLike
<1>6. NamesApart(t)
  OBVIOUS
<1> HIDE DEF t, u
<1>7. ASSUME NEW e \in Document!Those(u, "object")
      PROVE  e \in DOMAIN t /\ u[e] = t[e] /\ e \in Document!Those(t, "object")
  <2>1. e \in DOMAIN u /\ u[e].is = "object"
    BY DEF Document!Those
  <2>2. e # c /\ e \in DOMAIN t
    BY <1>3, <1>4, <2>1
  <2>3. u[e] = t[e]
    BY <1>4, <2>2
  <2> QED
    BY <2>1, <2>2, <2>3 DEF Document!Those
<1>8. \A e \in Document!Those(u, "object") : SameNames(t, u, e)
  BY <1>4, <1>5, <1>7 DEF SameNames
<1>9. NamesApart(u)
  BY <1>6, <1>8, NamesKept
<1>10. ASSUME NEW k \in 1..n PROVE NoKey(u, new[k])
  <2>1. new[k] \notin DOMAIN t
    BY <1>2
  <2> QED
    BY <1>5, <1>7, <2>1 DEF NoKey
<1> QED
  BY <1>9, <1>10 DEF u

LEMMA TwoOf ==
  ASSUME NEW X, NEW new \in [1..2 -> X]
  PROVE  new \in Seq(X) /\ Len(new) = 2
<1>1. new \in Seq(X)
  <2>1. new \in UNION {[1..n -> X] : n \in Nat}
    OBVIOUS
  <2> QED
    BY <2>1, SeqDef, Zenon
<1>2. Len(new) \in Nat /\ DOMAIN new = 1..Len(new) /\ DOMAIN new = 1..2
  BY <1>1
<1>3. 2 \in 1..Len(new) /\ 3 \notin 1..Len(new)
  BY <1>2
<1> QED
  BY <1>1, <1>2, <1>3

\* A member whose name is not there yet.
LEMMA MemberNames ==
  ASSUME TreeLike(tree), NamesApart(tree), NEW c \in Document!Those(tree, "object"), NEW s \in Strings,
         Document!KeysAt(tree, c, s) = {}, NEW new \in Document!Fresh(2)
  PROVE  /\ NamesApart([Document!Grown(tree, c, new) EXCEPT ![new[1]] = Document!Node(s)])
         /\ NoKey([Document!Grown(tree, c, new) EXCEPT ![new[1]] = Document!Node(s)], new[2])
<1> DEFINE t == tree
           x == new[1]
           v == new[2]
           K == t[c].of
           g == Document!Grown(tree, c, new)
           u == [g EXCEPT ![x] = Document!Node(s)]
           S == DOMAIN t \cup Slots \cup {Root}
<1>1. c \in DOMAIN t /\ t[c].is = "object" /\ t[c] = [is |-> t[c].is, of |-> K] /\ K \in Seq(DOMAIN t)
  BY DEF Document!Those, TreeLike
<1>2. new \in [1..2 -> (Slots \cup {Root}) \ DOMAIN t] /\ Document!IsInjective(new)
  BY DEF Document!Fresh
<1>3. x \notin DOMAIN t /\ v \notin DOMAIN t /\ x # v /\ Document!ToSet(new) = {x, v}
  BY <1>2 DEF Document!IsInjective, Document!ToSet
<1>4. /\ DOMAIN g = DOMAIN t \cup {x, v} /\ g[v] = Document!Node("null")
      /\ g[c].is = "object" /\ g[c].of = K \o new
      /\ \A w \in DOMAIN t : w # c => g[w] = t[w]
      /\ \A w \in DOMAIN t : g[w].is = t[w].is
  BY <1>1, <1>3 DEF Document!Grown
<1> HIDE DEF g
<1>5. /\ DOMAIN u = DOMAIN t \cup {x, v} /\ u[v].is = "null" /\ u[x].is = s
      /\ u[c].is = "object" /\ u[c].of = K \o new
      /\ \A w \in DOMAIN t : w # c => u[w] = t[w]
      /\ \A w \in DOMAIN t : u[w].is = t[w].is
  BY <1>1, <1>3, <1>4 DEF Document!Node
<1>6. K \in Seq(S) /\ new \in Seq(S)
  <2>1. new \in Seq((Slots \cup {Root}) \ DOMAIN t)
    BY <1>2, TwoOf
  <2> QED
    BY <1>1, <2>1
<1>7. /\ \A w \in DOMAIN t : \A i \in DOMAIN t[w].of : t[w].of[i] \in DOMAIN t
      /\ Len(K) % 2 = 0 /\ Document!KeysAt(t, c, s) = {} /\ NamesApart(t) /\ Len(new) = 2
  <2>1. Len(new) = 2
    BY <1>2, TwoOf
  <2>2. \A w \in DOMAIN t : t[w].of \in Seq(DOMAIN t \ {Root})
    BY DEF TreeLike
  <2>3. Len(K) % 2 = 0
    BY DEF TreeLike
  <2>4. \A w \in DOMAIN t : \A i \in DOMAIN t[w].of : t[w].of[i] \in DOMAIN t
    BY <2>2
  <2>5. NamesApart(t) /\ Document!KeysAt(t, c, s) = {}
    OBVIOUS
  <2> QED
    BY <2>1, <2>3, <2>4, <2>5
<1>8. s # "object"
  BY StringsAssumption DEF Strings
<1>9. /\ Len(K) \in Nat /\ DOMAIN K = 1..Len(K) /\ DOMAIN (K \o new) = 1..Len(K) + 2
      /\ \A i \in 1..Len(K) : (K \o new)[i] = K[i] /\ K[i] \in DOMAIN t
      /\ (K \o new)[Len(K) + 1] = x /\ (K \o new)[Len(K) + 2] = v
  <2> HIDE DEF S, K, t
  <2>1. /\ Len(K) \in Nat /\ DOMAIN (K \o new) = 1..Len(K) + Len(new)
        /\ \A i \in 1..Len(K) : (K \o new)[i] = K[i]
        /\ \A i \in 1..Len(new) : (K \o new)[Len(K) + i] = new[i]
    BY <1>6, Concatenated
  <2>2. 1 \in 1..Len(new) /\ 2 \in 1..Len(new)
    BY <1>7
  <2> QED
    BY <1>1, <1>7, <2>1, <2>2
<1> HIDE DEF t, u, x, v, K, S
<1>10. ASSUME NEW e \in Document!Those(u, "object"), e # c
       PROVE  e \in DOMAIN t /\ u[e] = t[e] /\ e \in Document!Those(t, "object")
  <2>1. e \in DOMAIN u /\ u[e].is = "object"
    BY DEF Document!Those
  <2>2. e \in DOMAIN t
    BY <1>5, <1>8, <2>1
  <2> QED
    BY <1>5, <1>10, <2>1, <2>2 DEF Document!Those
<1>11. ASSUME NEW i \in DOMAIN (K \o new), i % 2 = 1
       PROVE  i \in 1..Len(K) \/ i = Len(K) + 1
  <2>1. i # Len(K) + 2
    BY <1>7, <1>9, <1>11
  <2> QED
    BY <1>9, <2>1
<1>12. c \in Document!Those(t, "object")
  BY DEF t
<1>13. NamesApart(u)
  <2> SUFFICES ASSUME NEW e \in Document!Those(u, "object"), NEW r \in Strings,
                      NEW i \in Document!KeysAt(u, e, r), NEW j \in Document!KeysAt(u, e, r)
               PROVE  i = j
    BY DEF NamesApart
  <2>1. /\ i \in DOMAIN u[e].of /\ i % 2 = 1 /\ u[u[e].of[i]].is = r
        /\ j \in DOMAIN u[e].of /\ j % 2 = 1 /\ u[u[e].of[j]].is = r
    BY DEF Document!KeysAt
  <2>2. CASE e # c
    <3>1. i \in Document!KeysAt(t, e, r) /\ j \in Document!KeysAt(t, e, r)
      BY <1>5, <1>7, <1>10, <2>1, <2>2 DEF Document!KeysAt
    <3> QED
      BY <1>7, <1>10, <2>2, <3>1 DEF NamesApart
  <2>3. CASE e = c
    <3>1. ASSUME NEW k \in DOMAIN (K \o new), k % 2 = 1, u[(K \o new)[k]].is = r
          PROVE  \/ k \in Document!KeysAt(t, c, r)
                 \/ k = Len(K) + 1 /\ r = s
      <4>1. CASE k \in 1..Len(K)
        <5>1. t[K[k]].is = r /\ k \in DOMAIN K
          BY <1>5, <1>9, <3>1, <4>1
        <5> QED
          BY <3>1, <5>1 DEF Document!KeysAt, K
      <4>2. CASE k = Len(K) + 1
        BY <1>5, <1>9, <3>1, <4>2
      <4> QED
        BY <1>11, <3>1, <4>1, <4>2
    <3>2. \/ i \in Document!KeysAt(t, c, r)
          \/ i = Len(K) + 1 /\ r = s
      BY <1>5, <2>1, <2>3, <3>1
    <3>3. \/ j \in Document!KeysAt(t, c, r)
          \/ j = Len(K) + 1 /\ r = s
      BY <1>5, <2>1, <2>3, <3>1
    <3>4. CASE r = s
      BY <1>7, <3>2, <3>3, <3>4
    <3>5. CASE r # s
      BY <1>7, <1>12, <3>2, <3>3, <3>5 DEF NamesApart
    <3> QED
      BY <3>4, <3>5
  <2> QED
    BY <2>2, <2>3
<1>14. NoKey(u, v)
  <2> SUFFICES ASSUME NEW e \in Document!Those(u, "object"), NEW i \in DOMAIN u[e].of, i % 2 = 1, u[e].of[i] = v
               PROVE  FALSE
    BY DEF NoKey
  <2>1. v \notin DOMAIN t /\ x # v
    BY <1>3 DEF t, v, x
  <2>2. CASE e # c
    BY <1>7, <1>10, <2>1, <2>2
  <2>3. CASE e = c
    <3>1. i \in 1..Len(K) \/ i = Len(K) + 1
      BY <1>5, <1>11, <2>3
    <3> QED
      BY <1>5, <1>9, <2>1, <2>3, <3>1
  <2> QED
    BY <2>2, <2>3
<1> QED
  BY <1>13, <1>14 DEF u, v, x, t, g

LEMMA MemberStep ==
  ASSUME TreeLike(tree), TreeLike(tree'), NamesApart(tree), NEW c \in Document!Those(tree, "object"),
         NEW s \in Strings, NEW value, Document!PutMember(c, s, value)
  PROVE  NamesApart(tree')
<1>1. c \in DOMAIN tree /\ tree[c].is = "object"
  BY DEF Document!Those
<1>2. ASSUME NEW i \in Document!KeysAt(tree, c, s), Document!Assign(tree, tree[c].of[i + 1], value)
      PROVE  NamesApart(tree')
  <2>1. i \in DOMAIN tree[c].of /\ i % 2 = 1 /\ Len(tree[c].of) % 2 = 0 /\ tree[c].of \in Seq(DOMAIN tree \ {Root})
    BY <1>1 DEF Document!KeysAt, TreeLike
  <2>2. i \in 1..Len(tree[c].of) /\ Len(tree[c].of) \in Nat /\ DOMAIN tree[c].of = 1..Len(tree[c].of)
    BY <2>1
  <2>3. i + 1 \in DOMAIN tree[c].of /\ (i + 1) % 2 = 0
    <3> DEFINE n == Len(tree[c].of)
    <3>1. n \in Nat /\ i \in 1..n /\ i % 2 = 1 /\ n % 2 = 0
      BY <2>1, <2>2
    <3> HIDE DEF n
    <3>2. i + 1 \in 1..n /\ (i + 1) % 2 = 0
      BY <3>1
    <3> QED
      BY <2>2, <3>2 DEF n
  <2>4. tree[c].of[i + 1] \in Document!Places(tree)
    BY <1>1, <2>3, ValueIsPlace
  <2> DEFINE v == tree[c].of[i + 1]
  <2>5. NoKey(tree, v) /\ Document!Assign(tree, v, value)
    BY <1>2, <2>4, PlaceNoKey
  <2> HIDE DEF v
  <2> QED
    BY <2>5, AssignNames
<1>3. ASSUME Document!KeysAt(tree, c, s) = {}, NEW new \in Document!Fresh(2),
             Document!Assign([Document!Grown(tree, c, new) EXCEPT ![new[1]] = Document!Node(s)], new[2], value)
      PROVE  NamesApart(tree')
  <2> DEFINE t == [Document!Grown(tree, c, new) EXCEPT ![new[1]] = Document!Node(s)]
             v == new[2]
  <2>1. NamesApart(t) /\ NoKey(t, v) /\ Document!Assign(t, v, value)
    BY <1>3, MemberNames
  <2> HIDE DEF t, v
  <2> QED
    BY <2>1, AssignNames
<1>4. CASE Document!RunOut
  BY <1>4 DEF Document!RunOut
<1> QED
  BY <1>2, <1>3, <1>4 DEF Document!PutMember

LEMMA ElementStep ==
  ASSUME TreeLike(tree), TreeLike(tree'), NamesApart(tree), NEW c \in Document!Those(tree, "array"),
         NEW i \in Nat, i > 0, NEW value, Document!PutElement(c, i, value)
  PROVE  NamesApart(tree')
<1> DEFINE K == tree[c].of
           missing == i - Len(K)
<1>1. c \in DOMAIN tree /\ K \in Seq(DOMAIN tree \ {Root}) /\ Len(K) \in Nat
  BY DEF Document!Those, TreeLike
<1>2. CASE i <= Len(K) /\ Document!Assign(tree, K[i], value)
  <2> DEFINE v == K[i]
  <2>1. i \in DOMAIN K
    BY <1>1, <1>2
  <2>2. v \in Document!ToSet(K)
    BY <2>1 DEF Document!ToSet
  <2> HIDE DEF v
  <2>3. v \in Document!Places(tree)
    BY <2>2 DEF Document!Places
  <2>4. NoKey(tree, v) /\ Document!Assign(tree, v, value)
    BY <1>2, <2>3, PlaceNoKey DEF v
  <2> QED
    BY <2>4, AssignNames
<1>3. ASSUME i > Len(K), NEW new \in Document!Fresh(missing),
             Document!Assign(Document!Grown(tree, c, new), new[missing], value)
      PROVE  NamesApart(tree')
  <2> DEFINE n == missing
             t == Document!Grown(tree, c, new)
             v == new[n]
  <2>1. n \in 1..n
    BY <1>1, <1>3
  <2>2. NamesApart(t) /\ \A k \in 1..n : NoKey(t, new[k])
    BY <1>3, GrownNames
  <2>3. Document!Assign(t, v, value)
    BY <1>3
  <2> HIDE DEF n, t
  <2>4. NoKey(t, v)
    BY <2>1, <2>2
  <2> HIDE DEF v
  <2> QED
    BY <2>2, <2>3, <2>4, AssignNames
<1>4. ASSUME NEW n \in 0..missing - 1, NEW new \in Document!Fresh(n), tree' = Document!Grown(tree, c, new)
      PROVE  NamesApart(tree')
  BY <1>4, GrownNames
<1> QED
  BY <1>2, <1>3, <1>4 DEF Document!PutElement

LEMMA AddStep ==
  ASSUME TreeLike(tree), TreeLike(tree'), NamesApart(tree), NEW c \in Document!Those(tree, "array"),
         NEW value, Document!Add(c, value)
  PROVE  NamesApart(tree')
<1>1. ASSUME NEW new \in Document!Fresh(1),
             tree' = [Document!Grown(tree, c, new) EXCEPT ![new[1]] = Document!Node(value)]
      PROVE  NamesApart(tree')
  <2> DEFINE t == Document!Grown(tree, c, new)
             x == new[1]
             u == tree'
  <2>1. NamesApart(t) /\ NoKey(t, x)
    BY GrownNames
  <2>2. u = [t EXCEPT ![x] = Document!Node(value)] /\ DOMAIN t = DOMAIN tree \cup Document!ToSet(new)
    BY <1>1 DEF Document!Grown
  <2>3. \A w \in DOMAIN u : \A i \in DOMAIN u[w].of : u[w].of[i] \in DOMAIN u
    BY DEF TreeLike
  <2> HIDE DEF t, x, u
  <2>4. DOMAIN u = DOMAIN t /\ \A w \in DOMAIN u : u[w] = IF w = x THEN Document!Node(value) ELSE t[w]
    BY <2>2
  <2>5. Document!Node(value).of = << >>
    BY DEF Document!Node
  <2>6. ASSUME NEW e \in Document!Those(u, "object")
        PROVE  u[e].of = << >> \/ SameNames(t, u, e)
    <3>1. e \in DOMAIN u /\ u[e].is = "object"
      BY DEF Document!Those
    <3>2. CASE e = x
      BY <2>4, <2>5, <3>1, <3>2
    <3>3. CASE e # x
      <4>1. u[e] = t[e] /\ e \in Document!Those(t, "object")
        BY <2>4, <3>1, <3>3 DEF Document!Those
      <4>2. \A i \in DOMAIN t[e].of : i % 2 = 1 => t[e].of[i] # x /\ t[e].of[i] \in DOMAIN u
        BY <2>1, <2>3, <3>1, <4>1 DEF NoKey
      <4> QED
        BY <2>4, <4>1, <4>2 DEF SameNames
    <3> QED
      BY <3>2, <3>3
  <2>7. NamesApart(u)
    BY <2>1, <2>6, NamesKept
  <2> QED
    BY <2>7 DEF u
<1>2. CASE Document!RunOut
  BY <1>2 DEF Document!RunOut
<1> QED
  BY <1>1, <1>2 DEF Document!Add

\* No step of a tree gives an object a name that it has.
LEMMA NamesStep ==
  ASSUME TreeLike(tree), TreeLike(tree'), NamesApart(tree), Document!Next \/ UNCHANGED Document!vars
  PROVE  NamesApart(tree')
<1>1. ASSUME NEW v \in Document!Places(tree), NEW value, Document!SetNode(v, value)
      PROVE  NamesApart(tree')
  <2>1. NoKey(tree, v)
    BY PlaceNoKey
  <2> QED
    BY <1>1, <2>1, AssignNames DEF Document!SetNode
<1>2. ASSUME NEW c \in Document!Those(tree, "object"), NEW s \in Strings, Document!RemoveMember(c, s)
      PROVE  NamesApart(tree')
  <2> DEFINE K == tree[c].of
  <2>1. c \in DOMAIN tree /\ K \in Seq(DOMAIN tree \ {Root}) /\ Len(K) % 2 = 0
    BY DEF Document!Those, TreeLike
  <2>2. PICK i \in Document!KeysAt(tree, c, s) :
          Document!Leave(c, Document!RemoveAt(Document!RemoveAt(K, i), i))
    BY <1>2 DEF Document!RemoveMember
  <2>3. i \in DOMAIN K /\ i % 2 = 1
    BY DEF Document!KeysAt
  <2> DEFINE left == Document!RemoveAt(Document!RemoveAt(K, i), i)
  <2>4. Drawn(K, left)
    BY <2>1, <2>3, PairDrawn
  <2>5. Document!Leave(c, left)
    BY <2>2
  <2> HIDE DEF left
  <2> QED
    BY <2>1, <2>4, <2>5, LeaveNames
<1>3. ASSUME NEW c \in Document!Those(tree, "array"), NEW i, Document!RemoveElement(c, i)
      PROVE  NamesApart(tree')
  <2> DEFINE left == Document!RemoveAt(tree[c].of, i)
  <2>1. Document!Leave(c, left)
    BY <1>3 DEF Document!RemoveElement
  <2>2. c \in DOMAIN tree /\ tree[c].is # "object"
    BY DEF Document!Those
  <2> HIDE DEF left
  <2> QED
    BY <2>1, <2>2, LeaveNames
<1>4. CASE Document!Clear
  <2>1. \A e \in DOMAIN tree' : tree'[e].is = "null"
    BY <1>4 DEF Document!Clear, Document!Node
  <2> QED
    BY <2>1 DEF NamesApart, Document!Those
<1>5. CASE Document!RunOut \/ UNCHANGED Document!vars
  BY <1>5 DEF Document!RunOut, Document!vars
<1>7. ASSUME NEW value, Document!SetTree(value)
      PROVE  NamesApart(tree')
  <2>1. \A e \in DOMAIN tree' : tree'[e].of = << >>
    BY <1>7 DEF Document!SetTree, Document!Node
  <2>2. \A e \in DOMAIN tree' : \A s : Document!KeysAt(tree', e, s) = {}
    BY <2>1 DEF Document!KeysAt
  <2> QED
    BY <2>2 DEF NamesApart, Document!Those
<1>6. ASSUME NEW c \in Document!Those(tree, "array"), NEW i \in 1..Len(tree[c].of) + 2
      PROVE  i \in Nat /\ i > 0
  OBVIOUS
<1> QED
  BY <1>1, <1>2, <1>3, <1>4, <1>5, <1>6, <1>7, MemberStep, ElementStep, AddStep DEF Document!Next

-----------------------------------------------------------------------------
\* No object ever gets a second member of one name, from a text that repeats it or from a
\* program that sets it again (JsonDeserializer.hpp:298-316, ObjectImpl.hpp:24-67).
THEOREM NamesStayUnique == Spec /\ []Observed /\ []PoolsFit => []NamesAreUnique
<1>1. NamesAreUnique <=> NamesApart(tree)
  BY DEF NamesAreUnique, NamesApart
<1>2. Init /\ Observed => NamesAreUnique
  <2> SUFFICES ASSUME Init, Observed PROVE NamesAreUnique
    OBVIOUS
  <2>1. Document!Init
    BY MirrorInit
  <2>2. \A e \in DOMAIN tree : tree[e].is = "null"
    BY <2>1 DEF Document!Init, Document!Node
  <2> QED
    BY <2>2 DEF NamesAreUnique, Document!Those
<1>3. Mirror => TreeLike(tree)
  <2> SUFFICES ASSUME Mirror PROVE TreeLike(tree)
    OBVIOUS
  <2>1. PICK g, D : Seen(doc, g, D)
    BY DEF Mirror
  <2>2. tree = Shape(doc, D)
    BY <2>1, ShapeIs DEF Mirror, Observed
  <2> QED
    BY <2>1, <2>2, ShapeTreeLike
<1>4. (Mirror => TreeLike(tree))'
  <2> SUFFICES ASSUME Mirror' PROVE TreeLike(tree)'
    OBVIOUS
  <2>1. \E g, D : Seen(doc', g, D)
    BY DEF Mirror
  <2>2. PICK g, D : Seen(doc', g, D)
    BY <2>1
  <2>3. tree' = TreeOf(doc')
    BY DEF Mirror, Observed, TreeOf
  <2>4. tree' = Shape(doc', D)
    BY <2>2, <2>3, ShapeIs
  <2> QED
    BY <2>2, <2>4, ShapeTreeLike
<1>5. NamesAreUnique /\ Mirror /\ Observed' /\ PoolsFit' /\ [Next]_vars => NamesAreUnique'
  <2> SUFFICES ASSUME NamesAreUnique, Mirror, Observed', PoolsFit', [Next]_vars PROVE NamesAreUnique'
    OBVIOUS
  <2>1. Mirror' /\ (Document!Next \/ UNCHANGED Document!vars)
    BY MirrorNext DEF PoolsFit
  <2>2. NamesApart(tree')
    BY <1>1, <1>3, <1>4, <2>1, NamesStep
  <2> QED
    BY <2>2 DEF NamesAreUnique, NamesApart, Document!Those, Document!KeysAt
<1> QED
  BY <1>2, <1>5, MirrorAlways, PTL DEF Spec
=============================================================================
