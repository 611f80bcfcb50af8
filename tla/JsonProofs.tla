------------------------------ MODULE JsonProofs ------------------------------
(***************************************************************************)
(* Theorems of JsonDocument and JsonDeserializer, for every size of the    *)
(* pools and of the slot numbers, all texts and every nesting limit.       *)
(***************************************************************************)
EXTENDS JsonDeserializer, FiniteSetTheorems, WellFoundedInduction, TLAPS

-----------------------------------------------------------------------------
(***************************************************************************)
(* Induction, in the form of a set of numbers                              *)
(***************************************************************************)

LEMMA Least ==
  ASSUME NEW S \in SUBSET Nat, S # {}
  PROVE  \E x \in S : \A y \in S : x <= y
<1> DEFINE R == OpToRel(<, Nat)
<1>1. PICK x \in S : \A y \in S : ~ (<<y, x>> \in R)
  <2>1. IsWellFoundedOn(R, Nat)
    BY NatLessThanWellFounded
  <2> HIDE DEF R
  <2> QED
    BY <2>1, WFMin
<1>2. \A y, z \in Nat : <<y, z>> \in R <=> y < z
  BY DEF R, OpToRel
<1>3. ASSUME NEW y \in S PROVE x <= y
  <2> HIDE DEF R
  <2>1. x \in Nat /\ y \in Nat /\ ~ (y < x)
    BY <1>1, <1>2
  <2> QED
    BY <2>1
<1> QED
  BY <1>1, <1>3

LEMMA SetInduction ==
  ASSUME NEW S, 0 \in S, \A n \in Nat : n \in S => n + 1 \in S
  PROVE  Nat \subseteq S
<1> SUFFICES ASSUME Nat \ S # {} PROVE FALSE
  OBVIOUS
<1>1. PICK x \in Nat \ S : \A y \in Nat \ S : x <= y
  BY Least
<1>2. x - 1 \in Nat /\ x - 1 < x
  BY <1>1
<1> QED
  BY <1>1, <1>2

LEMMA MinIs == ASSUME NEW S \in SUBSET Nat, S # {} PROVE Min(S) \in S
BY Least DEF Min

Iterates(f, F, x, N) == f[0] = x /\ \A n \in 1..N : f[n] = F[f[n - 1]]

\* A function can be iterated.
LEMMA Iteration ==
  ASSUME NEW T, NEW F \in [T -> T], NEW x \in T, NEW N \in Nat
  PROVE  \E f \in [0..N -> T] : Iterates(f, F, x, N)
<1> DEFINE Is(f, m) == f \in [0..m -> T] /\ f[0] = x /\ \A n \in 1..m : f[n] = F[f[n - 1]]
           S == {m \in Nat : \E f : Is(f, m)}
<1>1. 0 \in S
  <2>1. Is([n \in 0..0 |-> x], 0)
    OBVIOUS
  <2> QED
    BY <2>1
<1>2. ASSUME NEW m \in Nat, m \in S PROVE m + 1 \in S
  <2>1. PICK f : Is(f, m)
    BY <1>2
  <2> DEFINE g == [n \in 0..m + 1 |-> IF n = m + 1 THEN F[f[m]] ELSE f[n]]
  <2>2. g \in [0..m + 1 -> T] /\ g[0] = x
    BY <2>1
  <2>3. ASSUME NEW n \in 1..m + 1 PROVE g[n] = F[g[n - 1]]
    <3>1. n - 1 \in 0..m /\ n - 1 # m + 1 /\ g[n - 1] = f[n - 1]
      OBVIOUS
    <3>2. CASE n = m + 1
      BY <3>1, <3>2
    <3>3. CASE n \in 1..m
      BY <2>1, <3>1, <3>3
    <3> QED
      BY <3>2, <3>3
  <2>4. Is(g, m + 1)
    <3> HIDE DEF g
    <3> QED
      BY <2>2, <2>3 DEF Is
  <2> HIDE DEF Is, g
  <2> QED
    BY <2>4
<1> HIDE DEF Is
<1>3. Nat \subseteq S
  <2> HIDE DEF S
  <2> QED
    BY <1>1, <1>2, SetInduction
<1>4. \E f : Is(f, N)
  BY <1>3
<1> QED
  BY <1>4 DEF Is, Iterates

-----------------------------------------------------------------------------
(***************************************************************************)
(* Documents, and what hangs below a value                                 *)
(***************************************************************************)

Nodes == Slots \cup {Root}

Types == {"null", "plain", "owned", "ext", "array", "object"}

Variants ==
  [type : Types, str : Strings \cup Plain \cup {""},
   head : 0..NullSlot, tail : 0..NullSlot, next : 0..NullSlot]

Documents ==
  [pools : Seq([capacity : Nat, usage : Nat]), capacity : Nat, moved : BOOLEAN,
   free : SUBSET Slots, var : [Nodes -> Variants], refs : [Long -> Nat],
   overflowed : BOOLEAN]

LEMMA Sizes ==
  /\ NullSlot \in Nat /\ NullSlot > 2 /\ PoolCapacity \in Nat /\ PoolCapacity > 1
  /\ NullSlot \notin Nodes /\ Root \in Nodes /\ Root \notin Slots
  /\ Slots \subseteq Nodes /\ Slots \subseteq Nat /\ Nodes \subseteq Nat
  /\ \A id \in 0..NullSlot : id # NullSlot <=> id \in Slots
  /\ \A id \in Nodes : id # Root <=> id \in Slots
  /\ NullSlot \in 0..NullSlot /\ Slots \subseteq 0..NullSlot
BY PoolsAssumption DEF Nodes, Slots, Root

LEMMA SlotsFinite == IsFiniteSet(Slots) /\ Cardinality(Slots) = NullSlot /\ IsFiniteSet(Nodes)
<1>1. IsFiniteSet(Slots) /\ Cardinality(Slots) = NullSlot
  BY Sizes, FS_Interval DEF Slots
<1> QED
  BY <1>1, FS_AddElement DEF Nodes

LEMMA VarType ==
  ASSUME NEW d \in Documents, NEW u \in Nodes
  PROVE  /\ d.var[u] \in Variants /\ d.var[u].type \in Types
         /\ d.var[u].head \in 0..NullSlot /\ d.var[u].tail \in 0..NullSlot
         /\ d.var[u].next \in 0..NullSlot
         /\ d.var[u].head # NullSlot <=> d.var[u].head \in Slots
         /\ d.var[u].tail # NullSlot <=> d.var[u].tail \in Slots
         /\ d.var[u].next # NullSlot <=> d.var[u].next \in Slots
<1>1. d.var[u] \in Variants
  BY DEF Documents
<1> QED
  BY <1>1, Sizes DEF Variants

Links(d, u) == {d.var[u].head, d.var[u].next} \ {NullSlot}

LEMMA NullFields ==
  /\ NullVariant \in Variants /\ NullVariant.type = "null" /\ NullVariant.str = ""
  /\ NullVariant.head = NullSlot /\ NullVariant.tail = NullSlot /\ NullVariant.next = NullSlot
BY Sizes DEF NullVariant, Variants, Types

LEMMA LinksType == ASSUME NEW d \in Documents, NEW u \in Nodes PROVE Links(d, u) \subseteq Slots
BY VarType DEF Links

\* The steps by which Below is reached.
Deeper(d, S) == S \cup UNION {Links(d, u) : u \in S}

BelowBy(d, v, b) ==
  /\ b \in [0..NullSlot -> SUBSET Slots]
  /\ b[0] = {d.var[v].head} \ {NullSlot}
  /\ \A n \in 1..NullSlot : b[n] = Deeper(d, b[n - 1])

LEMMA BelowSteps ==
  ASSUME NEW d \in Documents, NEW v \in Nodes
  PROVE  \E b : BelowBy(d, v, b) /\ Below(d, v) = b[NullSlot]
<1> DEFINE F == [S \in SUBSET Slots |-> Deeper(d, S)]
           x == {d.var[v].head} \ {NullSlot}
           Is(f) == f = [n \in 0..NullSlot |->
                           IF n = 0 THEN {d.var[v].head} \ {NullSlot}
                           ELSE LET S == f[n - 1] IN
                                S \cup UNION {{d.var[u].head, d.var[u].next} \ {NullSlot} : u \in S}]
           b == CHOOSE f : Is(f)
<1>1. ASSUME NEW S \in SUBSET Slots PROVE Deeper(d, S) \in SUBSET Slots
  BY LinksType, Sizes DEF Deeper
<1>2. F \in [SUBSET Slots -> SUBSET Slots] /\ x \in SUBSET Slots /\ NullSlot \in Nat
  BY <1>1, VarType, Sizes
<1>3. \E f : Is(f)
  <2> DEFINE T == SUBSET Slots
  <2>1. F \in [T -> T] /\ x \in T /\ NullSlot \in Nat
    BY <1>2
  <2>2. \A S \in T : F[S] = Deeper(d, S)
    OBVIOUS
  <2>3. x = {d.var[v].head} \ {NullSlot}
    OBVIOUS
  <2> HIDE DEF F, x, T
  <2>4. PICK f \in [0..NullSlot -> T] : Iterates(f, F, x, NullSlot)
    BY <2>1, Iteration
  <2>5. f[0] = x /\ \A n \in 1..NullSlot : f[n] = F[f[n - 1]]
    BY <2>4 DEF Iterates
  <2>6. \A n \in 1..NullSlot : n - 1 \in 0..NullSlot /\ n \in 0..NullSlot /\ n # 0
    BY Sizes
  <2>7. \A n \in 1..NullSlot : f[n - 1] \in T /\ f[n] = Deeper(d, f[n - 1])
    BY <2>2, <2>5, <2>6
  <2>8. Is(f)
    BY <2>3, <2>5, <2>7 DEF Deeper, Links
  <2> QED
    BY <2>8
<1>4. Is(b)
  <2> HIDE DEF Is
  <2> QED
    BY <1>3
<1>5. Below(d, v) = b[NullSlot]
  BY DEF Below
<1>6. b[0] = x /\ \A n \in 1..NullSlot : b[n] = Deeper(d, b[n - 1])
  <2> HIDE DEF b
  <2> QED
    BY <1>4, Sizes, SMTT(30) DEF Deeper, Links
<1> HIDE DEF Is, b
<1>7. \A n \in 0..NullSlot : b[n] \in SUBSET Slots
  <2> DEFINE S == {n \in Nat : n <= NullSlot => b[n] \in SUBSET Slots}
  <2>1. 0 \in S
    BY <1>2, <1>6
  <2>2. ASSUME NEW n \in Nat, n \in S PROVE n + 1 \in S
    <3>1. n + 1 <= NullSlot => b[n + 1] = Deeper(d, b[n])
      BY <1>6, Sizes
    <3> QED
      BY <1>1, <2>2, <3>1, Sizes
  <2>3. Nat \subseteq S
    <3> HIDE DEF S
    <3> QED
      BY <2>1, <2>2, SetInduction
  <2> QED
    BY <2>3
<1>8. b \in [0..NullSlot -> SUBSET Slots]
  <2>1. b = [n \in 0..NullSlot |-> b[n]]
    BY <1>4 DEF Is
  <2> QED
    BY <1>7, <2>1
<1> QED
  BY <1>5, <1>6, <1>8 DEF BelowBy

\* Below is closed under the links,
LEMMA BelowClosed ==
  ASSUME NEW d \in Documents, NEW v \in Nodes
  PROVE  /\ Below(d, v) \subseteq Slots
         /\ d.var[v].head # NullSlot => d.var[v].head \in Below(d, v)
         /\ \A u \in Below(d, v) : Links(d, u) \subseteq Below(d, v)
<1>1. PICK b : BelowBy(d, v, b) /\ Below(d, v) = b[NullSlot]
  BY BelowSteps
<1> DEFINE Closed(S) == \A u \in S : Links(d, u) \subseteq S
<1>2. ASSUME NEW n \in 1..NullSlot
      PROVE  /\ b[n - 1] \subseteq b[n]
             /\ Closed(b[n - 1]) => b[n] = b[n - 1]
             /\ ~ Closed(b[n - 1]) => b[n] # b[n - 1]
             /\ b[n - 1] \in SUBSET Slots /\ b[n] \in SUBSET Slots
  <2>1. n - 1 \in 0..NullSlot /\ n \in 0..NullSlot
    BY Sizes
  <2>2. b[n] = b[n - 1] \cup UNION {Links(d, u) : u \in b[n - 1]}
    BY <1>1 DEF BelowBy, Deeper
  <2>3. b[n - 1] \in SUBSET Slots /\ b[n] \in SUBSET Slots
    BY <1>1, <2>1 DEF BelowBy
  <2> QED
    BY <2>2, <2>3
<1>3. ASSUME NEW n \in 0..NullSlot PROVE IsFiniteSet(b[n]) /\ Cardinality(b[n]) \in Nat
  BY <1>1, SlotsFinite, FS_Subset, FS_CardinalityType DEF BelowBy
<1> DEFINE S == {n \in Nat : n <= NullSlot =>
                   /\ d.var[v].head # NullSlot => d.var[v].head \in b[n]
                   /\ Closed(b[n]) \/ Cardinality(b[n]) > n}
<1>4. 0 \in S
  <2>1. b[0] = {d.var[v].head} \ {NullSlot}
    BY <1>1 DEF BelowBy
  <2>2. CASE b[0] = {}
    BY <2>1, <2>2
  <2>3. CASE b[0] = {d.var[v].head}
    <3>1. Cardinality(b[0]) = 1
      BY <2>3, FS_Singleton
    <3> QED
      BY <2>1, <2>3, <3>1
  <2> QED
    BY <2>1, <2>2, <2>3
<1>5. ASSUME NEW n \in Nat, n \in S PROVE n + 1 \in S
  <2> SUFFICES ASSUME n + 1 <= NullSlot
               PROVE  /\ d.var[v].head # NullSlot => d.var[v].head \in b[n + 1]
                      /\ Closed(b[n + 1]) \/ Cardinality(b[n + 1]) > n + 1
    OBVIOUS
  <2>1. n + 1 \in 1..NullSlot /\ n + 1 - 1 = n /\ n \in 0..NullSlot /\ n + 1 \in 0..NullSlot
    BY Sizes
  <2>2. /\ b[n] \subseteq b[n + 1]
        /\ Closed(b[n]) => b[n + 1] = b[n]
        /\ ~ Closed(b[n]) => b[n + 1] # b[n]
    <3> HIDE DEF Closed
    <3> QED
      BY <1>2, <2>1
  <2>3. CASE Closed(b[n])
    <3> HIDE DEF Closed
    <3> QED
      BY <1>5, <2>1, <2>2, <2>3
  <2>4. CASE ~ Closed(b[n])
    <3> HIDE DEF Closed
    <3>1. Cardinality(b[n]) > n /\ b[n] # b[n + 1]
      BY <1>5, <2>1, <2>2, <2>4
    <3>2. Cardinality(b[n]) < Cardinality(b[n + 1])
      <4>1. /\ Cardinality(b[n]) <= Cardinality(b[n + 1])
            /\ Cardinality(b[n + 1]) = Cardinality(b[n]) => b[n + 1] = b[n]
        BY <1>3, <2>1, <2>2, FS_Subset
      <4> QED
        BY <1>3, <2>1, <3>1, <4>1
    <3> QED
      BY <1>3, <1>5, <2>1, <2>2, <3>1, <3>2
  <2> QED
    BY <2>3, <2>4
<1> HIDE DEF Closed
<1>6. Nat \subseteq S
  <2> HIDE DEF S
  <2> QED
    BY <1>4, <1>5, SetInduction
<1>7. /\ d.var[v].head # NullSlot => d.var[v].head \in b[NullSlot]
      /\ Closed(b[NullSlot]) \/ Cardinality(b[NullSlot]) > NullSlot
  BY <1>6, Sizes
<1>8. b[NullSlot] \in SUBSET Slots /\ Cardinality(b[NullSlot]) <= NullSlot
  BY <1>1, Sizes, SlotsFinite, FS_Subset DEF BelowBy
<1>9. Closed(b[NullSlot])
  BY <1>3, <1>7, <1>8, Sizes
<1> QED
  BY <1>1, <1>7, <1>8, <1>9 DEF Closed

\* and contains nothing else.
LEMMA BelowLeast ==
  ASSUME NEW d \in Documents, NEW v \in Nodes, NEW S,
         d.var[v].head # NullSlot => d.var[v].head \in S,
         \A u \in S \cap Slots : Links(d, u) \subseteq S
  PROVE  Below(d, v) \subseteq S
<1>1. PICK b : BelowBy(d, v, b) /\ Below(d, v) = b[NullSlot]
  BY BelowSteps
<1> DEFINE T == {n \in Nat : n <= NullSlot => b[n] \subseteq S}
<1>2. 0 \in T
  BY <1>1 DEF BelowBy
<1>3. ASSUME NEW n \in Nat, n \in T PROVE n + 1 \in T
  <2> SUFFICES ASSUME n + 1 <= NullSlot PROVE b[n + 1] \subseteq S
    OBVIOUS
  <2>1. n + 1 \in 1..NullSlot /\ n + 1 - 1 = n /\ n \in 0..NullSlot
    BY Sizes
  <2>2. b[n + 1] = Deeper(d, b[n]) /\ b[n] \subseteq Slots /\ b[n] \subseteq S
    BY <1>1, <1>3, <2>1 DEF BelowBy
  <2> QED
    BY <2>2 DEF Deeper
<1>4. Nat \subseteq T
  <2> HIDE DEF T
  <2> QED
    BY <1>2, <1>3, SetInduction
<1> QED
  BY <1>1, <1>4, Sizes

-----------------------------------------------------------------------------
(***************************************************************************)
(* The values in use form a tree. What the links leave implicit is kept    *)
(* beside the document, in g: the values in use (in); those which no link  *)
(* leads to, the root and the slots just taken (roots); for every other    *)
(* value the one whose link leads to it (up) and the array, object or      *)
(* number it is part of (own); what it is there (role); and a number that  *)
(* grows along the links (rank), below top.                                *)
(***************************************************************************)

Places ==
  [in : SUBSET Nodes, roots : SUBSET Nodes, up : [Nodes -> Nodes], own : [Nodes -> Nodes],
   role : [Nodes -> {"element", "key", "value"}], rank : [Nodes -> Nat], top : Nat]

\* A link to w, from u, of a value whose container is c.
Linked(g, u, w, c) ==
  w \in g.in \ g.roots /\ g.up[w] = u /\ g.own[w] = c /\ g.rank[u] < g.rank[w]

Forest(d, g) ==
  /\ Root \in g.roots /\ g.roots \subseteq g.in
  /\ \A u \in g.in :
       /\ g.rank[u] < g.top
       /\ d.var[u].head # NullSlot =>
            Linked(g, u, d.var[u].head, u) /\ d.var[u].head # d.var[u].next
       /\ d.var[u].next # NullSlot => Linked(g, u, d.var[u].next, g.own[u])
  /\ \A w \in g.in \ g.roots :
       /\ g.up[w] \in g.in /\ w \in Links(d, g.up[w])
       /\ g.own[w] \in g.in /\ g.rank[g.own[w]] < g.rank[w]
  /\ \A x \in g.roots : d.var[x].next = NullSlot

Collection == {"array", "object"}

\* A collection remembers the last of its slots; other values have none.
Tails(d, g) ==
  \A u \in g.in :
    /\ d.var[u].type \in {"null", "plain", "owned"} => d.var[u].head = NullSlot
    /\ d.var[u].type \notin Collection => d.var[u].tail = NullSlot
    /\ d.var[u].tail # NullSlot =>
         /\ d.var[u].head # NullSlot
         /\ d.var[u].tail \in g.in \ g.roots /\ g.own[d.var[u].tail] = u
         /\ d.var[d.var[u].tail].next = NullSlot
    /\ d.var[u].type \in Collection /\ d.var[u].head # NullSlot => d.var[u].tail # NullSlot

\* Keys and values alternate in an object, from a key to a value.
Alternating(d, g) ==
  \A u \in g.in :
    /\ d.var[u].head # NullSlot =>
         g.role[d.var[u].head] = IF d.var[u].type = "object" THEN "key" ELSE "element"
    /\ g.role[u] = "key" => d.var[u].next # NullSlot /\ g.role[d.var[u].next] = "value"
    /\ g.role[u] # "key" /\ d.var[u].next # NullSlot =>
         g.role[d.var[u].next] = IF g.role[u] = "value" THEN "key" ELSE "element"

Tree(d, g) == d \in Documents /\ g \in Places /\ Forest(d, g)

LEMMA TreeFacts ==
  ASSUME NEW d, NEW g, Tree(d, g)
  PROVE  /\ d \in Documents /\ g \in Places /\ g.in \subseteq Nodes /\ g.roots \subseteq g.in
         /\ Root \in g.roots /\ g.in \ g.roots \subseteq Slots /\ Root \in g.in
         /\ \A u \in Nodes : g.rank[u] \in Nat /\ g.own[u] \in Nodes /\ g.up[u] \in Nodes
BY Sizes DEF Tree, Places, Forest

LEMMA LeastRank ==
  ASSUME NEW S, NEW r, \A w \in S : r[w] \in Nat, S # {}
  PROVE  \E w \in S : \A z \in S : r[w] <= r[z]
<1> DEFINE T == {r[w] : w \in S}
<1>1. PICK x \in T : \A y \in T : x <= y
  BY Least
<1> QED
  BY <1>1

\* What is below a value hangs on nothing else.
LEMMA BelowInTree ==
  ASSUME NEW d, NEW g, Tree(d, g), NEW v \in g.in
  PROVE  /\ Below(d, v) \subseteq g.in \ g.roots
         /\ \A w \in Below(d, v) :
              /\ g.rank[v] < g.rank[w] /\ g.own[w] \in Below(d, v) \cup {v}
              /\ w = d.var[v].head \/ g.up[w] \in Below(d, v)
         /\ v \notin Below(d, v) /\ d.var[v].next \notin Below(d, v)
         /\ \A u \in g.in \ (Below(d, v) \cup {v}) : Links(d, u) \cap Below(d, v) = {}
         /\ \A w \in g.in \ g.roots : g.own[w] \in Below(d, v) \cup {v} => w \in Below(d, v)
<1> DEFINE D == Below(d, v)
           S == {w \in D \cap (g.in \ g.roots) :
                   /\ g.rank[v] < g.rank[w] /\ g.own[w] \in D \cup {v}
                   /\ w = d.var[v].head \/ g.up[w] \in D}
<1> USE TreeFacts
<1>1. /\ D \subseteq Slots
      /\ d.var[v].head # NullSlot => d.var[v].head \in D
      /\ \A u \in D : Links(d, u) \subseteq D
  BY BelowClosed
<1> HIDE DEF D
<1>2. d.var[v].head # NullSlot => d.var[v].head \in S
  BY <1>1 DEF Tree, Forest, Linked
<1>3. ASSUME NEW u \in S, NEW w \in Links(d, u) PROVE w \in S
  <2>1. w \in D
    BY <1>1, <1>3
  <2>2. Linked(g, u, w, u) \/ Linked(g, u, w, g.own[u])
    BY DEF Tree, Forest, Links
  <2>3. g.rank[v] \in Nat /\ g.rank[u] \in Nat /\ g.rank[w] \in Nat
    BY <1>1, <2>1, Sizes
  <2> QED
    BY <2>1, <2>2, <2>3 DEF Linked
<1>4. D \subseteq S
  <2>1. \A u \in S \cap Slots : Links(d, u) \subseteq S
    BY <1>3
  <2> HIDE DEF S
  <2>2. Below(d, v) \subseteq S
    BY <1>2, <2>1, BelowLeast
  <2> QED
    BY <2>2 DEF D
<1>5. \A w \in D : /\ w \in g.in \ g.roots
                   /\ g.rank[v] < g.rank[w] /\ g.own[w] \in D \cup {v}
                   /\ w = d.var[v].head \/ g.up[w] \in D
  BY <1>4
<1>6. v \notin D
  BY <1>5
<1>7. d.var[v].next \notin D
  <2> SUFFICES ASSUME d.var[v].next \in D PROVE FALSE
    OBVIOUS
  <2>1. d.var[v].next # NullSlot
    BY <1>1, Sizes
  <2>2. g.up[d.var[v].next] = v /\ d.var[v].next # d.var[v].head
    BY <2>1 DEF Tree, Forest, Linked
  <2> QED
    BY <1>5, <1>6, <2>2
<1>8. ASSUME NEW u \in g.in \ (D \cup {v}), NEW w \in Links(d, u) \cap D PROVE FALSE
  <2>1. g.up[w] = u
    BY DEF Tree, Forest, Links, Linked
  <2>2. w = d.var[v].head
    BY <1>5, <2>1
  <2>3. g.up[w] = v
    BY <2>2, <1>1, Sizes DEF Tree, Forest, Linked
  <2> QED
    BY <2>1, <2>3
<1> DEFINE Bad == {w \in g.in \ g.roots : g.own[w] \in D \cup {v} /\ w \notin D}
<1>9. Bad = {}
  <2> SUFFICES ASSUME Bad # {} PROVE FALSE
    OBVIOUS
  <2>1. PICK w \in Bad : \A z \in Bad : g.rank[w] <= g.rank[z]
    <3>1. \A w \in Bad : g.rank[w] \in Nat
      OBVIOUS
    <3> HIDE DEF Bad
    <3> QED
      BY <3>1, LeastRank
  <2> DEFINE u == g.up[w]
  <2>2. u \in g.in /\ w \in Links(d, u) /\ w # NullSlot /\ g.rank[u] \in Nat /\ g.rank[w] \in Nat
    BY DEF Tree, Forest, Links
  <2>3. CASE w = d.var[u].head
    <3>1. g.own[w] = u
      BY <2>2, <2>3 DEF Tree, Forest, Linked
    <3> QED
      BY <1>1, <2>1, <2>2, <2>3, <3>1
  <2>4. CASE w = d.var[u].next
    <3>1. g.own[u] = g.own[w] /\ g.rank[u] < g.rank[w] /\ u \notin g.roots
      BY <2>2, <2>4 DEF Tree, Forest, Linked
    <3>2. u \notin Bad
      BY <2>1, <2>2, <3>1
    <3>3. u \in D
      BY <2>1, <2>2, <3>1, <3>2
    <3> QED
      BY <1>1, <2>1, <2>2, <3>3
  <2> QED
    BY <2>2, <2>3, <2>4 DEF Links
<1> QED
  BY <1>5, <1>6, <1>7, <1>8, <1>9 DEF D

-----------------------------------------------------------------------------
(***************************************************************************)
(* The slots of a collection                                               *)
(***************************************************************************)

\* A set of numbers without gaps.
LEMMA Initial ==
  ASSUME NEW N \in Nat, NEW S \in SUBSET (1..N), \A n \in S : n > 1 => n - 1 \in S
  PROVE  IsFiniteSet(S) /\ Cardinality(S) \in 0..N /\ S = 1..Cardinality(S)
<1> DEFINE T == {n \in Nat : n >= 1 /\ n \notin S}
<1>1. PICK m \in T : \A n \in T : m <= n
  <2>1. N + 1 \in T
    OBVIOUS
  <2> HIDE DEF T
  <2>2. T \in SUBSET Nat /\ T # {}
    BY <2>1 DEF T
  <2> QED
    BY <2>2, Least
<1>2. m \in Nat /\ m >= 1 /\ m \notin S /\ m <= N + 1 /\ 1..m - 1 \subseteq S
  BY <1>1
<1> DEFINE U == {n \in Nat : m + n \notin S}
<1>3. Nat \subseteq U
  <2>1. 0 \in U
    BY <1>2
  <2>2. ASSUME NEW n \in Nat, n \in U PROVE n + 1 \in U
    <3>1. m + (n + 1) \in S => m + (n + 1) - 1 \in S
      BY <1>2
    <3>2. m + (n + 1) - 1 = m + n
      BY <1>2
    <3> QED
      BY <2>2, <3>1, <3>2
  <2> HIDE DEF U
  <2> QED
    BY <2>1, <2>2, SetInduction
<1>4. S = 1..m - 1
  <2>1. ASSUME NEW n \in S PROVE n < m
    <3>1. n >= m => n - m \in Nat /\ m + (n - m) = n
      BY <1>2
    <3> QED
      BY <1>2, <1>3, <3>1
  <2>2. S \subseteq 1..m - 1
    BY <1>2, <2>1
  <2> QED
    BY <1>2, <2>2
<1>5. IsFiniteSet(S) /\ Cardinality(S) = m - 1
  BY <1>2, <1>4, FS_Interval
<1> QED
  BY <1>2, <1>4, <1>5

KidsBy(d, c, at) ==
  /\ at \in [1..NullSlot -> 0..NullSlot]
  /\ at[1] = d.var[c].head
  /\ \A n \in 1..NullSlot - 1 :
       at[n + 1] = IF at[n] = NullSlot THEN NullSlot ELSE d.var[at[n]].next

LEMMA KidsSteps ==
  ASSUME NEW d \in Documents, NEW c \in Nodes
  PROVE  \E at : /\ KidsBy(d, c, at)
                 /\ Kids(d, c) = SubSeq(at, 1, Cardinality({n \in 1..NullSlot : at[n] # NullSlot}))
<1> DEFINE T == 0..NullSlot
           F == [id \in T |-> IF id = NullSlot THEN NullSlot ELSE d.var[id].next]
           Is(f) == f = [n \in 1..NullSlot |->
                          LET id == IF n = 1 THEN Root ELSE f[n - 1] IN
                          IF id = NullSlot THEN NullSlot
                          ELSE IF id = Root THEN d.var[c].head ELSE d.var[id].next]
           at == CHOOSE f : Is(f)
<1>1. /\ F \in [T -> T] /\ d.var[c].head \in T /\ NullSlot \in Nat /\ NullSlot - 1 \in Nat
      /\ Root \notin T /\ Root # NullSlot
  BY VarType, Sizes DEF Root
<1>2. \A id \in T : F[id] = IF id = NullSlot THEN NullSlot ELSE d.var[id].next
  OBVIOUS
<1>3. \E f : Is(f)
  <2> DEFINE x == d.var[c].head
  <2> HIDE DEF F, T, x
  <2>1. PICK f \in [0..NullSlot - 1 -> T] : Iterates(f, F, x, NullSlot - 1)
    BY <1>1, Iteration DEF x
  <2>2. f[0] = x /\ \A n \in 1..NullSlot - 1 : f[n] = F[f[n - 1]]
    BY <2>1 DEF Iterates
  <2> DEFINE g == [n \in 1..NullSlot |-> f[n - 1]]
  <2>3. ASSUME NEW n \in 1..NullSlot
        PROVE  g[n] = LET id == IF n = 1 THEN Root ELSE g[n - 1] IN
                      IF id = NullSlot THEN NullSlot
                      ELSE IF id = Root THEN d.var[c].head ELSE d.var[id].next
    <3>1. CASE n = 1
      BY <1>1, <2>2, <3>1 DEF x
    <3>2. CASE n # 1
      <4>1. n - 1 \in 1..NullSlot - 1 /\ n - 1 \in 1..NullSlot /\ n - 1 - 1 \in 0..NullSlot - 1
        BY <1>1, <3>2
      <4>2. g[n] = F[f[n - 1 - 1]] /\ g[n - 1] = f[n - 1 - 1] /\ f[n - 1 - 1] \in T
        BY <2>1, <2>2, <4>1
      <4> HIDE DEF g
      <4>3. g[n - 1] \in T /\ g[n] = F[g[n - 1]]
        BY <4>2
      <4> QED
        BY <1>1, <1>2, <3>2, <4>3
    <3> QED
      BY <3>1, <3>2
  <2>4. Is(g)
    BY <2>3
  <2> HIDE DEF Is, g
  <2> QED
    BY <2>4
<1>4. Is(at)
  <2> HIDE DEF Is
  <2> QED
    BY <1>3
<1>5. Kids(d, c) = SubSeq(at, 1, Cardinality({n \in 1..NullSlot : at[n] # NullSlot}))
  BY DEF Kids
<1> HIDE DEF at
<1>6. at[1] = d.var[c].head
  BY <1>1, <1>4
<1>7. ASSUME NEW n \in 1..NullSlot - 1
      PROVE  at[n + 1] = LET id == at[n] IN
                         IF id = NullSlot THEN NullSlot
                         ELSE IF id = Root THEN d.var[c].head ELSE d.var[id].next
  <2>1. n + 1 \in 1..NullSlot /\ n + 1 # 1 /\ n + 1 - 1 = n
    BY <1>1
  <2>2. \A m \in 1..NullSlot : at[m] = LET id == IF m = 1 THEN Root ELSE at[m - 1] IN
                                     IF id = NullSlot THEN NullSlot
                                     ELSE IF id = Root THEN d.var[c].head ELSE d.var[id].next
    BY <1>4
  <2>3. at[n + 1] = LET id == at[n + 1 - 1] IN
                    IF id = NullSlot THEN NullSlot
                    ELSE IF id = Root THEN d.var[c].head ELSE d.var[id].next
    BY <2>1, <2>2
  <2> QED
    BY <2>1, <2>3
<1> DEFINE S == {n \in Nat : n + 1 <= NullSlot => at[n + 1] \in T}
<1>8. 0 \in S
  BY <1>1, <1>6
<1>9. ASSUME NEW n \in Nat, n \in S PROVE n + 1 \in S
  <2> SUFFICES ASSUME n + 1 + 1 <= NullSlot PROVE at[n + 1 + 1] \in T
    OBVIOUS
  <2>1. n + 1 \in 1..NullSlot - 1 /\ at[n + 1] \in T
    BY <1>1, <1>9
  <2>2. at[n + 1 + 1] = IF at[n + 1] = NullSlot THEN NullSlot ELSE d.var[at[n + 1]].next
    BY <1>1, <1>7, <2>1
  <2>3. at[n + 1] # NullSlot => at[n + 1] \in Nodes
    BY <2>1, Sizes
  <2> QED
    BY <2>2, <2>3, VarType, Sizes
<1>10. Nat \subseteq S
  <2> HIDE DEF S
  <2> QED
    BY <1>8, <1>9, SetInduction
<1>11. ASSUME NEW n \in 1..NullSlot PROVE at[n] \in T
  <2>1. n - 1 \in Nat /\ n - 1 + 1 = n /\ n <= NullSlot
    BY <1>1
  <2> QED
    BY <1>10, <2>1
<1>12. at \in [1..NullSlot -> T]
  <2>1. at = [n \in 1..NullSlot |-> at[n]]
    BY <1>4
  <2> QED
    BY <1>11, <2>1
<1>13. ASSUME NEW n \in 1..NullSlot - 1
       PROVE  at[n + 1] = IF at[n] = NullSlot THEN NullSlot ELSE d.var[at[n]].next
  <2>1. n \in 1..NullSlot
    BY <1>1
  <2> HIDE DEF T
  <2> QED
    BY <1>1, <1>7, <1>11, <2>1
<1> QED
  BY <1>5, <1>6, <1>12, <1>13 DEF KidsBy

\* The slots of a value are those that it owns, from its head along next.
LEMMA KidsInTree ==
  ASSUME NEW d, NEW g, Tree(d, g), NEW c \in g.in
  PROVE  /\ Kids(d, c) \in Seq(Slots)
         /\ \A i \in 1..Len(Kids(d, c)) :
              /\ Kids(d, c)[i] \in g.in \ g.roots /\ g.own[Kids(d, c)[i]] = c
              /\ i = Len(Kids(d, c)) => d.var[Kids(d, c)[i]].next = NullSlot
         /\ \A i \in 1..Len(Kids(d, c)) - 1 : Kids(d, c)[i + 1] = d.var[Kids(d, c)[i]].next
         /\ Kids(d, c) # << >> => Kids(d, c)[1] = d.var[c].head
         /\ Kids(d, c) = << >> <=> d.var[c].head = NullSlot
         /\ \A w \in g.in \ g.roots : g.own[w] = c => \E i \in 1..Len(Kids(d, c)) : Kids(d, c)[i] = w
<1> USE TreeFacts
<1> DEFINE K == Kids(d, c)
<1>1. PICK at : /\ KidsBy(d, c, at)
                /\ K = SubSeq(at, 1, Cardinality({n \in 1..NullSlot : at[n] # NullSlot}))
  BY KidsSteps
<1> DEFINE S == {n \in 1..NullSlot : at[n] # NullSlot}
           k == Cardinality(S)
<1>2. /\ at \in [1..NullSlot -> 0..NullSlot]
      /\ at[1] = d.var[c].head
      /\ \A n \in 1..NullSlot - 1 :
           at[n + 1] = IF at[n] = NullSlot THEN NullSlot ELSE d.var[at[n]].next
  BY <1>1 DEF KidsBy
<1>3. \A n \in S : n > 1 => n - 1 \in S
  <2> SUFFICES ASSUME NEW n \in S, n > 1 PROVE n - 1 \in S
    OBVIOUS
  <2>1. n - 1 \in 1..NullSlot - 1 /\ n - 1 \in 1..NullSlot /\ n - 1 + 1 = n
    BY Sizes
  <2> QED
    BY <1>2, <2>1
<1>4. k \in 0..NullSlot /\ S = 1..k
  <2>1. S \in SUBSET (1..NullSlot) /\ NullSlot \in Nat
    BY Sizes
  <2> HIDE DEF S
  <2> QED
    BY <1>3, <2>1, Initial
<1>5. /\ NullSlot \in Nat /\ k \in Nat /\ k <= NullSlot /\ 1..k \subseteq 1..NullSlot
      /\ \A n \in 1..NullSlot : at[n] # NullSlot <=> n \in 1..k
      /\ K = SubSeq(at, 1, k)
  BY <1>1, <1>4, Sizes
<1> HIDE DEF K, k, S
<1>6. \A n \in 1..k : at[n] \in Slots /\ at[n] # NullSlot
  BY <1>2, <1>5, Sizes
<1>7. K = [n \in 1..k |-> at[n]] /\ K \in Seq(Slots) /\ Len(K) = k /\ DOMAIN K = 1..k
  <2>1. K = [n \in 1..k |-> at[n]]
    BY <1>5
  <2> QED
    BY <1>5, <1>6, <2>1
<1>8. \A i \in 1..k : K[i] = at[i]
  BY <1>7
<1> DEFINE In(n) == /\ at[n] \in g.in \ g.roots /\ g.own[at[n]] = c
                    /\ \A m \in 1..NullSlot : m < n => g.rank[at[m]] < g.rank[at[n]]
           T == {n \in Nat : n + 1 <= k => In(n + 1)}
<1>9. 0 \in T
  BY <1>2, <1>5 DEF Tree, Forest, Linked
<1>10. ASSUME NEW n \in Nat, n \in T PROVE n + 1 \in T
  <2> SUFFICES ASSUME n + 1 + 1 <= k PROVE In(n + 1 + 1)
    OBVIOUS
  <2>1. /\ n + 1 \in 1..NullSlot - 1 /\ n + 1 \in 1..k /\ n + 1 + 1 \in 1..k /\ In(n + 1)
    BY <1>5, <1>10
  <2>2. at[n + 1] \in Slots /\ at[n + 1 + 1] \in Slots
    BY <1>6, <2>1
  <2>3. at[n + 1 + 1] = d.var[at[n + 1]].next /\ at[n + 1 + 1] # NullSlot
    BY <1>2, <2>1, <2>2, Sizes
  <2>4. Linked(g, at[n + 1], at[n + 1 + 1], c)
    BY <2>1, <2>3 DEF Tree, Forest
  <2>5. ASSUME NEW m \in 1..NullSlot, m < n + 1 + 1 PROVE g.rank[at[m]] < g.rank[at[n + 1 + 1]]
    <3>1. CASE m = n + 1
      BY <2>4, <3>1 DEF Linked
    <3>2. CASE m # n + 1
      <4>1. m < n + 1 /\ m \in 1..k
        BY <1>5, <2>1, <2>5, <3>2
      <4>2. g.rank[at[m]] < g.rank[at[n + 1]]
        BY <2>1, <4>1
      <4>3. g.rank[at[m]] \in Nat /\ g.rank[at[n + 1]] \in Nat /\ g.rank[at[n + 1 + 1]] \in Nat
        BY <1>6, <2>2, <4>1, Sizes
      <4> QED
        BY <2>4, <4>2, <4>3 DEF Linked
    <3> QED
      BY <3>1, <3>2
  <2> QED
    BY <2>4, <2>5 DEF Linked
<1> HIDE DEF In
<1>11. Nat \subseteq T
  <2> HIDE DEF T
  <2> QED
    BY <1>9, <1>10, SetInduction
<1>12. ASSUME NEW n \in 1..k PROVE In(n)
  <2>1. n - 1 \in Nat /\ n - 1 + 1 = n /\ n <= k
    BY <1>5
  <2> QED
    BY <1>11, <2>1
<1>13. k > 0 => K[1] = d.var[c].head
  BY <1>2, <1>5, <1>8
<1>20. \A i \in 1..k - 1 : K[i + 1] = d.var[K[i]].next
  <2> SUFFICES ASSUME NEW i \in 1..k - 1 PROVE K[i + 1] = d.var[K[i]].next
    OBVIOUS
  <2>1. i \in 1..k /\ i + 1 \in 1..k /\ i \in 1..NullSlot - 1
    BY <1>5
  <2> QED
    BY <1>2, <1>6, <1>8, <2>1
<1>14. k > 0 => d.var[at[k]].next = NullSlot
  <2> SUFFICES ASSUME k > 0, d.var[at[k]].next # NullSlot PROVE FALSE
    OBVIOUS
  <2>1. k \in 1..k /\ at[k] \in Slots /\ at[k] # NullSlot
    BY <1>5, <1>6
  <2>2. CASE k < NullSlot
    <3>1. k + 1 \notin 1..k /\ k + 1 \in 1..NullSlot /\ k \in 1..NullSlot - 1
      BY <1>5, <2>1, <2>2, Sizes
    <3>2. at[k + 1] = NullSlot
      BY <1>5, <3>1
    <3> QED
      BY <1>2, <2>1, <3>1, <3>2
  <2>3. CASE k = NullSlot
    <3>1. at \in [1..NullSlot -> Slots]
      BY <1>2, <1>6, <2>3
    <3>2. ASSUME NEW i \in 1..NullSlot, NEW j \in 1..NullSlot, at[i] = at[j] PROVE i = j
      <4>3. In(i) /\ In(j) /\ at[i] \in Nodes /\ at[j] \in Nodes
        BY <1>6, <1>12, <2>3, Sizes
      <4>4. i < j => g.rank[at[i]] < g.rank[at[j]]
        BY <4>3 DEF In
      <4>5. j < i => g.rank[at[j]] < g.rank[at[i]]
        BY <4>3 DEF In
      <4>6. g.rank[at[i]] \in Nat
        BY <4>3
      <4>7. i \in Nat /\ j \in Nat
        BY Sizes
      <4> QED
        BY <3>2, <4>4, <4>5, <4>6, <4>7
    <3>3. at \in Injection(1..NullSlot, Slots)
      BY <3>1, <3>2 DEF Injection, IsInjective
    <3>4. Cardinality(1..NullSlot) = Cardinality(Slots)
      BY SlotsFinite, FS_Interval, Sizes
    <3>5. at \in Surjection(1..NullSlot, Slots)
      BY <3>3, <3>4, SlotsFinite, FS_Injection
    <3>6. Linked(g, at[k], d.var[at[k]].next, c) /\ In(k)
      BY <1>12, <2>1 DEF In, Tree, Forest
    <3>7. PICK j \in 1..NullSlot : at[j] = d.var[at[k]].next
      BY <3>5, <3>6 DEF Surjection, Linked
    <3>8. j = k \/ j < k
      BY <1>5, <2>3
    <3>9. g.rank[at[k]] \in Nat /\ g.rank[at[j]] \in Nat
      BY <1>6, <2>1, <2>3, Sizes
    <3> QED
      BY <3>6, <3>7, <3>8, <3>9 DEF In, Linked
  <2> QED
    BY <1>5, <2>2, <2>3
<1>15. K = << >> <=> d.var[c].head = NullSlot
  <2>1. K = << >> <=> k = 0
    <3>1. K = << >> => k = 0
      BY <1>7
    <3>2. k = 0 => K = << >>
      BY <1>7
    <3> QED
      BY <3>1, <3>2
  <2>2. k = 0 <=> at[1] = NullSlot
    BY <1>5, Sizes
  <2> QED
    BY <1>2, <2>1, <2>2
<1> DEFINE Bad == {w \in g.in \ g.roots : g.own[w] = c /\ \A i \in 1..k : K[i] # w}
<1>16. Bad = {}
  <2> SUFFICES ASSUME Bad # {} PROVE FALSE
    OBVIOUS
  <2>1. PICK w \in Bad : \A z \in Bad : g.rank[w] <= g.rank[z]
    <3>1. \A w \in Bad : g.rank[w] \in Nat
      OBVIOUS
    <3> HIDE DEF Bad
    <3> QED
      BY <3>1, LeastRank
  <2> DEFINE u == g.up[w]
  <2>2. u \in g.in /\ w \in Links(d, u) /\ w # NullSlot
    BY DEF Tree, Forest, Links
  <2>3. CASE w = d.var[u].head
    <3>1. u = c
      BY <2>2, <2>3 DEF Tree, Forest, Linked
    <3>2. 1 \in 1..k
      <4>1. K # << >>
        BY <1>15, <2>2, <2>3, <3>1
      <4>2. k # 0
        BY <1>7, <4>1
      <4> QED
        BY <1>5, <4>2
    <3>3. K[1] = w
      BY <1>5, <1>13, <2>3, <3>1, <3>2
    <3>4. \A i \in 1..k : K[i] # w
      BY <2>1
    <3> QED
      BY <3>2, <3>3, <3>4
  <2>4. CASE w = d.var[u].next
    <3>1. g.own[u] = c /\ g.rank[u] < g.rank[w] /\ u \notin g.roots
      BY <2>2, <2>4 DEF Tree, Forest, Linked
    <3>2. u \notin Bad
      BY <2>1, <2>2, <3>1
    <3>3. PICK i \in 1..k : K[i] = u
      BY <2>2, <3>1, <3>2
    <3>4. i # k
      BY <1>7, <1>8, <1>14, <2>2, <2>4, <3>3
    <3>5. i \in 1..k - 1 /\ i + 1 \in 1..k
      BY <1>5, <3>4
    <3>6. K[i + 1] = w
      BY <1>20, <2>4, <3>3, <3>5
    <3> QED
      BY <2>1, <3>5, <3>6
  <2> QED
    BY <2>2, <2>3, <2>4 DEF Links
<1>17. \A w \in g.in \ g.roots : g.own[w] = c => \E i \in 1..k : K[i] = w
  BY <1>16
<1>18. \A i \in 1..k : /\ K[i] \in g.in \ g.roots /\ g.own[K[i]] = c
                       /\ i = Len(K) => d.var[K[i]].next = NullSlot
  BY <1>5, <1>7, <1>8, <1>12, <1>14 DEF In
<1> HIDE DEF Bad, T, In
<1>19. /\ K \in Seq(Slots)
       /\ \A i \in 1..Len(K) :
              /\ K[i] \in g.in \ g.roots /\ g.own[K[i]] = c
              /\ i = Len(K) => d.var[K[i]].next = NullSlot
       /\ K # << >> => K[1] = d.var[c].head
       /\ K = << >> <=> d.var[c].head = NullSlot
  <2>1. K # << >> => k > 0
    BY <1>5, <1>7
  <2>2. K \in Seq(Slots)
    BY <1>7
  <2>3. \A i \in 1..Len(K) : /\ K[i] \in g.in \ g.roots /\ g.own[K[i]] = c
                             /\ i = Len(K) => d.var[K[i]].next = NullSlot
    <3>1. Len(K) = k
      BY <1>7
    <3> QED
      BY <1>18, <3>1
  <2>4. K # << >> => K[1] = d.var[c].head
    BY <1>13, <2>1
  <2> QED
    BY <1>15, <2>2, <2>3, <2>4
<1> QED
  BY <1>7, <1>17, <1>19, <1>20 DEF K

\* In an object they are keys and values in turn.
LEMMA KidsAlternate ==
  ASSUME NEW d, NEW g, Tree(d, g), Alternating(d, g), NEW c \in g.in
  PROVE  \A i \in 1..Len(Kids(d, c)) :
           g.role[Kids(d, c)[i]] = IF d.var[c].type # "object" THEN "element"
                                   ELSE IF i % 2 = 1 THEN "key" ELSE "value"
<1> DEFINE K == Kids(d, c)
           Role(i) == IF d.var[c].type # "object" THEN "element"
                      ELSE IF i % 2 = 1 THEN "key" ELSE "value"
           T == {n \in Nat : n + 1 <= Len(K) => g.role[K[n + 1]] = Role(n + 1)}
<1> USE TreeFacts
<1>1. /\ K \in Seq(Slots)
      /\ \A i \in 1..Len(K) : K[i] \in g.in \ g.roots
      /\ \A i \in 1..Len(K) - 1 : K[i + 1] = d.var[K[i]].next
      /\ K # << >> => K[1] = d.var[c].head
      /\ K = << >> <=> d.var[c].head = NullSlot
  BY KidsInTree
<1>2. Len(K) \in Nat /\ (Len(K) > 0 => K # << >>)
  BY <1>1
<1> HIDE DEF K
<1>3. 0 \in T
  BY <1>1, <1>2 DEF Alternating
<1>4. ASSUME NEW n \in Nat, n \in T PROVE n + 1 \in T
  <2> SUFFICES ASSUME n + 1 + 1 <= Len(K) PROVE g.role[K[n + 1 + 1]] = Role(n + 1 + 1)
    OBVIOUS
  <2>1. n + 1 \in 1..Len(K) - 1 /\ n + 1 \in 1..Len(K) /\ n + 1 + 1 \in 1..Len(K)
    BY <1>2
  <2>2. K[n + 1 + 1] = d.var[K[n + 1]].next /\ K[n + 1] \in g.in /\ K[n + 1 + 1] \in Slots
    BY <1>1, <2>1
  <2>3. g.role[K[n + 1]] = Role(n + 1)
    BY <1>2, <1>4, <2>1
  <2>4. K[n + 1 + 1] # NullSlot
    BY <2>2, Sizes
  <2>5. (n + 1) % 2 = 1 <=> (n + 1 + 1) % 2 # 1
    OBVIOUS
  <2> HIDE DEF T
  <2> QED
    BY <2>2, <2>3, <2>4, <2>5 DEF Alternating
<1>5. Nat \subseteq T
  <2> HIDE DEF T
  <2> QED
    BY <1>3, <1>4, SetInduction
<1>6. ASSUME NEW i \in 1..Len(K) PROVE g.role[K[i]] = Role(i)
  <2>1. i - 1 \in Nat /\ i - 1 + 1 = i /\ i <= Len(K)
    BY <1>2
  <2> HIDE DEF Role
  <2>2. i - 1 + 1 <= Len(K) => g.role[K[i - 1 + 1]] = Role(i - 1 + 1)
    BY <1>5, <2>1
  <2> QED
    BY <2>1, <2>2
<1> QED
  BY <1>6 DEF K

-----------------------------------------------------------------------------
(***************************************************************************)
(* The invariant of a document                                             *)
(***************************************************************************)

PoolsOK(d) ==
  /\ \A n \in DOMAIN d.pools :
       /\ d.pools[n].usage <= d.pools[n].capacity /\ d.pools[n].capacity <= PoolCapacity
       /\ n = MaxPools => d.pools[n].capacity < PoolCapacity
  /\ Len(d.pools) <= d.capacity /\ d.capacity > 0
  /\ d.moved => d.pools # << >>

\* A slot that was handed out is in use or free, unless memory ran out.
Accounted(d, g) ==
  /\ g.in \ {Root} \subseteq Given(d) /\ d.free \subseteq Given(d) /\ g.in \cap d.free = {}
  /\ d.overflowed \/ Given(d) \subseteq g.in \cup d.free

Counted(d, g) == \A s \in Long : d.refs[s] = Cardinality(Owners(d, g.in, s))

Good(d, g) ==
  /\ Tree(d, g) /\ Tails(d, g) /\ Alternating(d, g)
  /\ PoolsOK(d) /\ Accounted(d, g) /\ Counted(d, g)

\* The memory of e is that of d.
SameMemory(d, e) ==
  /\ e.pools = d.pools /\ e.capacity = d.capacity
  /\ (e.moved <=> d.moved) /\ (e.overflowed <=> d.overflowed)

LEMMA MemoryKept ==
  ASSUME NEW d, NEW e, SameMemory(d, e)
  PROVE  (PoolsOK(d) => PoolsOK(e)) /\ Given(e) = Given(d)
BY DEF SameMemory, PoolsOK, Given

LEMMA OwnersFinite ==
  ASSUME NEW d, NEW S \in SUBSET Nodes, NEW s
  PROVE  IsFiniteSet(Owners(d, S, s)) /\ Cardinality(Owners(d, S, s)) \in Nat
BY SlotsFinite, FS_Subset, FS_CardinalityType DEF Owners

\* A null value becomes one that fits in its slot.
LEMMA Relabelled ==
  ASSUME NEW d, NEW g, Good(d, g), NEW v \in g.in, d.var[v].type = "null",
         NEW e \in Documents, SameMemory(d, e), e.free = d.free,
         \A u \in Nodes \ {v} : e.var[u] = d.var[u],
         e.var[v].type \in {"plain", "owned", "array", "object"},
         e.var[v].head = d.var[v].head, e.var[v].tail = d.var[v].tail,
         e.var[v].next = d.var[v].next,
         \A s \in Long : e.refs[s] = d.refs[s] +
           (IF e.var[v].type = "owned" /\ e.var[v].str = s THEN 1 ELSE 0)
  PROVE  Good(e, g)
<1> USE DEF Good
<1>1. /\ d \in Documents /\ g \in Places /\ g.in \subseteq Nodes /\ v \in Nodes
      /\ g.in \ g.roots \subseteq Nodes
  BY TreeFacts, Sizes
<1>2. \A u \in Nodes : /\ e.var[u].head = d.var[u].head /\ e.var[u].tail = d.var[u].tail
                       /\ e.var[u].next = d.var[u].next
                       /\ u # v => e.var[u].type = d.var[u].type
  OBVIOUS
<1>3. d.var[v].head = NullSlot /\ d.var[v].tail = NullSlot
  BY DEF Tails, Collection
<1>4. Tree(e, g)
  <2>1. \A u \in Nodes : Links(e, u) = Links(d, u)
    BY <1>2 DEF Links
  <2> QED
    BY <1>1, <1>2, <2>1, TreeFacts DEF Tree, Forest
<1>5. Tails(e, g)
  BY <1>1, <1>2, <1>3 DEF Tails
<1>6. Alternating(e, g)
  BY <1>1, <1>2, <1>3 DEF Alternating
<1>7. PoolsOK(e) /\ Accounted(e, g)
  <2>1. PoolsOK(e) /\ Given(e) = Given(d)
    BY MemoryKept
  <2> QED
    BY <2>1 DEF Accounted, SameMemory
<1>8. ASSUME NEW s \in Long PROVE e.refs[s] = Cardinality(Owners(e, g.in, s))
  <2>1. IsFiniteSet(Owners(d, g.in, s)) /\ v \notin Owners(d, g.in, s)
    <3>1. IsFiniteSet(Owners(d, g.in, s))
      BY <1>1, OwnersFinite
    <3> QED
      BY <3>1 DEF Owners
  <2>2. CASE e.var[v].type = "owned" /\ e.var[v].str = s
    <3>1. Owners(e, g.in, s) = Owners(d, g.in, s) \cup {v}
      BY <1>1, <2>2 DEF Owners
    <3>2. Cardinality(Owners(e, g.in, s)) = d.refs[s] + 1
      BY <2>1, <3>1, FS_AddElement DEF Counted
    <3> QED
      BY <2>2, <3>2
  <2>3. CASE ~ (e.var[v].type = "owned" /\ e.var[v].str = s)
    <3>1. Owners(e, g.in, s) = Owners(d, g.in, s)
      BY <1>1, <2>3 DEF Owners
    <3>2. d.refs[s] \in Nat
      BY <1>1 DEF Documents
    <3> QED
      BY <2>3, <3>1, <3>2 DEF Counted
  <2> QED
    BY <2>2, <2>3
<1> QED
  BY <1>4, <1>5, <1>6, <1>7, <1>8 DEF Counted

\* The places that are left without the values of D.
Without(g, D) == [g EXCEPT !.in = @ \ D, !.roots = @ \ D]

LEMMA WithoutFields ==
  ASSUME NEW g \in Places, NEW D
  PROVE  /\ Without(g, D) \in Places
         /\ Without(g, D).in = g.in \ D /\ Without(g, D).roots = g.roots \ D
         /\ Without(g, D).own = g.own /\ Without(g, D).up = g.up
         /\ Without(g, D).role = g.role /\ Without(g, D).rank = g.rank
         /\ Without(g, D).top = g.top
BY DEF Without, Places

\* The counts that are left without the values of S.
RefsWithout(d, S) == [s \in Long |-> d.refs[s] - Cardinality(Owners(d, S, s))]

\* What Clear does to the memory of a value.
Emptied(d, v, f) ==
  /\ SameMemory(d, f) /\ f.free = d.free \cup Below(d, v)
  /\ f.refs = RefsWithout(d, {v} \cup Below(d, v))
  /\ f.var \in [Nodes -> Variants] /\ \A u \in Nodes \ {v} : f.var[u] = d.var[u]
  /\ f.var[v].type = "null" /\ f.var[v].head = NullSlot
  /\ f.var[v].tail = NullSlot /\ f.var[v].next = d.var[v].next
  /\ f.pools \in Seq([capacity : Nat, usage : Nat]) /\ f.capacity \in Nat
  /\ f = [pools |-> d.pools, capacity |-> d.capacity, moved |-> d.moved, free |-> f.free,
          var |-> f.var, refs |-> f.refs, overflowed |-> d.overflowed]

LEMMA ClearFields ==
  ASSUME NEW d \in Documents, NEW v \in Nodes
  PROVE  Emptied(d, v, Clear(d, v))
<1> DEFINE n == [NullVariant EXCEPT !.next = d.var[v].next]
<1>1. n \in Variants
  BY VarType, Sizes DEF NullVariant, Variants, Types
<1>2. n.type = "null" /\ n.head = NullSlot /\ n.tail = NullSlot /\ n.next = d.var[v].next
  BY DEF NullVariant
<1>3. /\ d.var \in [Nodes -> Variants] /\ d.pools \in Seq([capacity : Nat, usage : Nat])
      /\ d.capacity \in Nat
      /\ d = [pools |-> d.pools, capacity |-> d.capacity, moved |-> d.moved, free |-> d.free,
              var |-> d.var, refs |-> d.refs, overflowed |-> d.overflowed]
  BY DEF Documents
<1>4. Clear(d, v) =
        [pools |-> d.pools, capacity |-> d.capacity, moved |-> d.moved,
         free |-> d.free \cup Below(d, v), var |-> [d.var EXCEPT ![v] = n],
         refs |-> RefsWithout(d, {v} \cup Below(d, v)),
         overflowed |-> d.overflowed]
  <2>1. Clear(d, v) = [d EXCEPT !.free = d.free \cup Below(d, v),
                !.refs = RefsWithout(d, {v} \cup Below(d, v)),
                !.var = [d.var EXCEPT ![v] = n]]
    BY DEF Clear, RefsWithout
  <2> HIDE DEF n
  <2> QED
    BY <1>3, <2>1
<1> HIDE DEF n
<1>5. /\ [d.var EXCEPT ![v] = n] \in [Nodes -> Variants] /\ [d.var EXCEPT ![v] = n][v] = n
      /\ \A u \in Nodes \ {v} : [d.var EXCEPT ![v] = n][u] = d.var[u]
  BY <1>1, <1>3
<1> DEFINE var == [d.var EXCEPT ![v] = n]
           f == Clear(d, v)
<1>6. /\ f.pools = d.pools /\ f.capacity = d.capacity /\ (f.moved <=> d.moved)
      /\ (f.overflowed <=> d.overflowed) /\ f.free = d.free \cup Below(d, v) /\ f.var = var
      /\ f.refs = RefsWithout(d, {v} \cup Below(d, v))
  BY <1>4
<1> HIDE DEF var, f
<1> QED
  BY <1>2, <1>3, <1>4, <1>5, <1>6 DEF SameMemory, Emptied, var, f

\* A value that is cleared gives back what is below it.
LEMMA Cleared ==
  ASSUME NEW d, NEW g, Good(d, g), NEW v \in g.in
  PROVE  Good(Clear(d, v), Without(g, Below(d, v)))
<1> DEFINE e == Clear(d, v)
           D == Below(d, v)
           h == Without(g, D)
<1> USE DEF Good
<1>1. /\ d \in Documents /\ g \in Places /\ g.in \subseteq Nodes /\ v \in Nodes
      /\ g.in \ g.roots \subseteq Slots /\ g.roots \subseteq g.in
      /\ Root \in g.roots
  BY TreeFacts
<1>2. /\ SameMemory(d, e)
      /\ e.free = d.free \cup D
      /\ e.refs = RefsWithout(d, {v} \cup D)
      /\ e.var \in [Nodes -> Variants]
      /\ \A u \in Nodes \ {v} : e.var[u] = d.var[u]
      /\ e.var[v].type = "null" /\ e.var[v].head = NullSlot
      /\ e.var[v].tail = NullSlot /\ e.var[v].next = d.var[v].next
      /\ e = [pools |-> d.pools, capacity |-> d.capacity, moved |-> d.moved,
              free |-> e.free, var |-> e.var, refs |-> e.refs, overflowed |-> d.overflowed]
  <2>1. Emptied(d, v, e)
    BY <1>1, ClearFields
  <2> QED
    BY <2>1 DEF Emptied
<1>3. /\ D \subseteq g.in \ g.roots
      /\ \A w \in D : g.own[w] \in D \cup {v}
      /\ v \notin D /\ d.var[v].next \notin D
      /\ \A u \in g.in \ (D \cup {v}) : Links(d, u) \cap D = {}
      /\ \A w \in g.in \ g.roots : g.own[w] \in D => w \in D
  BY BelowInTree
<1>4. /\ h \in Places /\ h.in = g.in \ D /\ h.roots = g.roots /\ h.own = g.own
      /\ h.up = g.up /\ h.role = g.role /\ h.rank = g.rank /\ h.top = g.top
  <2>1. g.roots \ D = g.roots
    BY <1>3
  <2> QED
    BY <1>1, <2>1, WithoutFields
<1> HIDE DEF e, D, h
<1>5. \A s \in Long : /\ e.refs[s] = Cardinality(Owners(e, h.in, s)) /\ e.refs[s] \in Nat
  <2> SUFFICES ASSUME NEW s \in Long
               PROVE  e.refs[s] = Cardinality(Owners(e, h.in, s)) /\ e.refs[s] \in Nat
    OBVIOUS
  <2> DEFINE A == Owners(d, g.in, s)
             B == Owners(d, {v} \cup D, s)
  <2>1. IsFiniteSet(A) /\ Cardinality(A) \in Nat
    BY <1>1, OwnersFinite
  <2>2. B \subseteq A
    BY <1>3 DEF Owners
  <2>3. Owners(e, h.in, s) = A \ B
    BY <1>1, <1>2, <1>3, <1>4 DEF Owners
  <2>4. Cardinality(B) \in Nat /\ Cardinality(A \ B) \in Nat
    BY <2>1, <2>2, FS_Subset, FS_CardinalityType
  <2>5. A \cap B = B
    BY <2>2
  <2>6. Cardinality(A \ B) = Cardinality(A) - Cardinality(B)
    <3> HIDE DEF A, B
    <3> QED
      BY <2>1, <2>5, FS_Difference
  <2>7. e.refs[s] = Cardinality(A) - Cardinality(B)
    BY <1>2 DEF Counted, RefsWithout
  <2> QED
    BY <2>3, <2>4, <2>6, <2>7
<1>6. e \in Documents
  <2>1. e.free \subseteq Slots /\ e.refs \in [Long -> Nat]
    BY <1>1, <1>2, <1>3, <1>5 DEF Documents, RefsWithout
  <2>2. [pools |-> d.pools, capacity |-> d.capacity, moved |-> d.moved, free |-> e.free,
         var |-> e.var, refs |-> e.refs, overflowed |-> d.overflowed] \in Documents
    BY <1>1, <1>2, <2>1 DEF Documents
  <2> QED
    BY <1>2, <2>2
<1>7. Tree(e, h)
  <2>1. \A u \in h.in : Links(e, u) \subseteq Links(d, u) /\ Links(e, u) \cap D = {}
    BY <1>1, <1>2, <1>3, <1>4 DEF Links
  <2>2. \A u \in h.in : u # v => Links(e, u) = Links(d, u)
    BY <1>1, <1>2, <1>4 DEF Links
  <2>3. Root \in h.roots /\ h.roots \subseteq h.in /\ \A x \in h.roots : e.var[x].next = NullSlot
    BY <1>1, <1>2, <1>3, <1>4 DEF Tree, Forest
  <2>4. ASSUME NEW u \in h.in
        PROVE  /\ h.rank[u] < h.top
               /\ e.var[u].head # NullSlot =>
                    Linked(h, u, e.var[u].head, u) /\ e.var[u].head # e.var[u].next
               /\ e.var[u].next # NullSlot => Linked(h, u, e.var[u].next, h.own[u])
    <3>1. e.var[u].next = d.var[u].next /\ e.var[u].head \in {NullSlot, d.var[u].head}
      BY <1>1, <1>2, <1>4
    <3>2. e.var[u].next # NullSlot => e.var[u].next \notin D
      BY <2>1 DEF Links
    <3>3. e.var[u].head # NullSlot => e.var[u].head \notin D
      BY <2>1 DEF Links
    <3> QED
      BY <1>1, <1>4, <3>1, <3>2, <3>3 DEF Tree, Forest, Linked
  <2>5. ASSUME NEW w \in h.in \ h.roots
        PROVE  /\ h.up[w] \in h.in /\ w \in Links(e, h.up[w])
               /\ h.own[w] \in h.in /\ h.rank[h.own[w]] < h.rank[w]
    <3>1. /\ g.up[w] \in g.in /\ w \in Links(d, g.up[w]) /\ w \notin D
          /\ g.own[w] \in g.in \ D /\ g.rank[g.own[w]] < g.rank[w]
      BY <1>3, <1>4 DEF Tree, Forest
    <3>2. g.up[w] \notin D
      <4>1. \A u \in D : Links(d, u) \subseteq D
        BY <1>1, BelowClosed DEF D
      <4> QED
        BY <3>1, <4>1
    <3>3. g.up[w] = v => w = d.var[v].next
      BY <1>1, <3>1, BelowClosed DEF D, Links
    <3>4. w # NullSlot
      BY <1>1, <1>4, Sizes
    <3> QED
      BY <1>2, <1>4, <2>2, <3>1, <3>2, <3>3, <3>4 DEF Links
  <2> QED
    BY <1>4, <1>6, <2>3, <2>4, <2>5 DEF Tree, Forest
<1>8. Tails(e, h)
  <2> SUFFICES ASSUME NEW u \in h.in
      PROVE /\ e.var[u].type \in {"null", "plain", "owned"} => e.var[u].head = NullSlot
            /\ e.var[u].type \notin Collection => e.var[u].tail = NullSlot
            /\ e.var[u].tail # NullSlot =>
                 /\ e.var[u].head # NullSlot
                 /\ e.var[u].tail \in h.in \ h.roots /\ h.own[e.var[u].tail] = u
                 /\ e.var[e.var[u].tail].next = NullSlot
            /\ e.var[u].type \in Collection /\ e.var[u].head # NullSlot => e.var[u].tail # NullSlot
    BY DEF Tails
  <2>1. CASE u = v
    BY <1>2, <2>1 DEF Collection
  <2>2. CASE u # v
    <3>1. e.var[u] = d.var[u] /\ u \in g.in /\ u \notin D
      BY <1>1, <1>2, <1>4, <2>2
    <3>2. d.var[u].tail # NullSlot =>
            /\ d.var[u].tail \in g.in \ g.roots /\ g.own[d.var[u].tail] = u
            /\ d.var[d.var[u].tail].next = NullSlot /\ d.var[u].tail \notin D
      BY <1>3, <2>2, <3>1 DEF Tails
    <3>3. d.var[u].tail # NullSlot => e.var[d.var[u].tail].next = d.var[d.var[u].tail].next
      BY <1>1, <1>2, <3>2, Sizes
    <3> QED
      BY <1>4, <3>1, <3>2, <3>3 DEF Tails
  <2> QED
    BY <2>1, <2>2
<1>9. Alternating(e, h)
  BY <1>1, <1>2, <1>4 DEF Alternating
<1>10. PoolsOK(e) /\ Accounted(e, h)
  <2>1. PoolsOK(e) /\ Given(e) = Given(d)
    BY <1>2, MemoryKept
  <2> QED
    BY <1>1, <1>2, <1>3, <1>4, <2>1, Sizes DEF Accounted, SameMemory
<1> QED
  BY <1>5, <1>7, <1>8, <1>9, <1>10 DEF Counted, e, D, h

-----------------------------------------------------------------------------
(***************************************************************************)
(* Slots are handed out, and given back                                    *)
(***************************************************************************)

LEMMA Times ==
  ASSUME NEW a \in Int, NEW b \in Int
  PROVE  /\ a <= b => a * PoolCapacity <= b * PoolCapacity
         /\ (a - 1) * PoolCapacity = a * PoolCapacity - PoolCapacity
<1>1. (b - a) * PoolCapacity = b * PoolCapacity - a * PoolCapacity
  BY Sizes
<1>2. a <= b => (b - a) * PoolCapacity >= 0
  BY Sizes
<1>3. a * PoolCapacity \in Int /\ b * PoolCapacity \in Int
  BY Sizes
<1>4. (a - 1) * PoolCapacity = a * PoolCapacity - PoolCapacity
  BY Sizes
<1> QED
  BY <1>1, <1>2, <1>3, <1>4

LEMMA MaxPoolsIs == MaxPools \in Nat /\ MaxPools * PoolCapacity = NullSlot + 1
<1> DEFINE q == (NullSlot + 1) \div PoolCapacity
<1>1. q \in Int /\ NullSlot + 1 = PoolCapacity * q
  BY PoolsAssumption
<1>2. NullSlot \div PoolCapacity = q - 1
  <2>1. NullSlot = PoolCapacity * (q - 1) + (PoolCapacity - 1)
    BY PoolsAssumption, <1>1
  <2> HIDE DEF q
  <2> QED
    BY <1>1, <2>1, PoolsAssumption
<1> QED
  BY <1>1, <1>2, PoolsAssumption DEF MaxPools

LEMMA PoolFacts ==
  ASSUME NEW d \in Documents
  PROVE  /\ d.pools \in Seq([capacity : Nat, usage : Nat]) /\ Len(d.pools) \in Nat
         /\ DOMAIN d.pools = 1..Len(d.pools)
         /\ \A m \in 1..Len(d.pools) :
              /\ d.pools[m] \in [capacity : Nat, usage : Nat]
              /\ d.pools[m].capacity \in Nat /\ d.pools[m].usage \in Nat
         /\ d.pools = << >> <=> Len(d.pools) = 0
         /\ d.pools # << >> <=> Len(d.pools) \in 1..Len(d.pools)
<1>1. d.pools \in Seq([capacity : Nat, usage : Nat])
  BY DEF Documents
<1> DEFINE p == d.pools
           T == [capacity : Nat, usage : Nat]
<1>2. p \in Seq(T)
  BY <1>1
<1>5. \A t \in T : t.capacity \in Nat /\ t.usage \in Nat
  OBVIOUS
<1> HIDE DEF p, T
<1>3. /\ Len(p) \in Nat /\ DOMAIN p = 1..Len(p)
      /\ \A m \in 1..Len(p) : p[m] \in T
      /\ p = << >> <=> Len(p) = 0
  BY <1>2
<1>4. p # << >> <=> Len(p) \in 1..Len(p)
  BY <1>3
<1> QED
  BY <1>2, <1>3, <1>4, <1>5 DEF p, T

\* The numbers of the slots of a pool are slots,
LEMMA SlotNumbers ==
  ASSUME NEW n \in 1..MaxPools, NEW i \in 0..PoolCapacity - 1,
         n = MaxPools => i < PoolCapacity - 1
  PROVE  (n - 1) * PoolCapacity + i \in Slots
<1> DEFINE y == (n - 1) * PoolCapacity
           z == (MaxPools - 1) * PoolCapacity
<1>1. n \in Int /\ MaxPools \in Int /\ n - 1 \in Int /\ MaxPools - 1 \in Int /\ 0 \in Int
  BY MaxPoolsIs
<1>2. y \in Int /\ z \in Int /\ 0 * PoolCapacity = 0
  BY <1>1, Sizes
<1>3. z = MaxPools * PoolCapacity - PoolCapacity
  BY <1>1, Times
<1>4. z = NullSlot + 1 - PoolCapacity
  <2> DEFINE w == MaxPools * PoolCapacity
  <2>1. z = w - PoolCapacity /\ w = NullSlot + 1
    BY <1>3, MaxPoolsIs
  <2> HIDE DEF w, z
  <2> QED
    BY <2>1, Sizes
<1>5. 0 * PoolCapacity <= y
  BY <1>1, Times
<1>6. n # MaxPools => n <= MaxPools - 1 - 1 + 1
  BY <1>1
<1>7. ASSUME n # MaxPools PROVE y <= z - PoolCapacity
  <2>1. n - 1 <= MaxPools - 1 - 1 /\ MaxPools - 1 - 1 \in Int
    BY <1>1, <1>7
  <2>2. y <= (MaxPools - 1 - 1) * PoolCapacity
    BY <1>1, <2>1, Times
  <2>3. (MaxPools - 1 - 1) * PoolCapacity = z - PoolCapacity
    BY <1>1, Times
  <2> HIDE DEF y, z
  <2> QED
    BY <2>2, <2>3
<1>8. n = MaxPools => y = z
  OBVIOUS
<1> HIDE DEF y, z
<1>9. y + i \in 0..NullSlot - 1
  BY <1>2, <1>4, <1>5, <1>7, <1>8, Sizes
<1> QED
  BY <1>9 DEF y, Slots

\* and those of different pools are different.
LEMMA SlotsApart ==
  ASSUME NEW m \in Nat, NEW n \in Nat, m < n, NEW i \in Int, i < PoolCapacity, NEW j \in Nat
  PROVE  (m - 1) * PoolCapacity + i # (n - 1) * PoolCapacity + j
<1> DEFINE y == (n - 1) * PoolCapacity
           z == m * PoolCapacity
<1>1. m \in Int /\ n - 1 \in Int /\ m <= n - 1
  OBVIOUS
<1>2. y \in Int /\ z \in Int
  BY <1>1, Sizes
<1>3. z <= y /\ (m - 1) * PoolCapacity = z - PoolCapacity
  BY <1>1, Times
<1>4. y = (n - 1) * PoolCapacity
  OBVIOUS
<1> HIDE DEF y, z
<1>5. z - PoolCapacity + i # y + j
  BY <1>2, <1>3, Sizes
<1> QED
  BY <1>3, <1>4, <1>5

LEMMA GivenIs ==
  ASSUME NEW d \in Documents, NEW x
  PROVE  x \in Given(d) <=> \E m \in 1..Len(d.pools) :
           \E i \in 0..d.pools[m].usage - 1 : x = (m - 1) * PoolCapacity + i
<1> DEFINE Of(m) == {(m - 1) * PoolCapacity + i : i \in 0..d.pools[m].usage - 1}
<1>1. Given(d) = UNION {Of(m) : m \in 1..Len(d.pools)}
  BY PoolFacts DEF Given
<1>2. x \in Given(d) <=> \E m \in 1..Len(d.pools) : x \in Of(m)
  <2> HIDE DEF Of
  <2> QED
    BY <1>1
<1> QED
  BY <1>2

\* The next slot of the last pool was not handed out before.
LEMMA Taken ==
  ASSUME NEW d \in Documents, PoolsOK(d), HasRoom(d), Len(d.pools) <= MaxPools
  PROVE  LET e == Take(d)[1]
             id == Take(d)[2] IN
         /\ id \in Slots \ Given(d) /\ Given(e) = Given(d) \cup {id} /\ e \in Documents
         /\ Len(e.pools) = Len(d.pools) /\ PoolsOK(e)
         /\ e.free = d.free /\ e.refs = d.refs /\ (e.overflowed <=> d.overflowed)
         /\ e.var[id] = NullVariant /\ \A u \in Nodes \ {id} : e.var[u] = d.var[u]
<1> DEFINE n == Len(d.pools)
           p == d.pools[n]
           x == (n - 1) * PoolCapacity + p.usage
           q == [d.pools EXCEPT ![n] = [capacity |-> p.capacity, usage |-> p.usage + 1]]
           e == Take(d)[1]
           id == Take(d)[2]
<1>1. /\ d.pools \in Seq([capacity : Nat, usage : Nat]) /\ n \in Nat /\ n \in 1..n
      /\ DOMAIN d.pools = 1..n
      /\ \A m \in 1..n : /\ d.pools[m] \in [capacity : Nat, usage : Nat]
                         /\ d.pools[m].capacity \in Nat /\ d.pools[m].usage \in Nat
                         /\ d.pools[m].usage <= d.pools[m].capacity
                         /\ d.pools[m].capacity <= PoolCapacity
                         /\ m = MaxPools => d.pools[m].capacity < PoolCapacity
      /\ n \in 1..MaxPools
  <2>1. d.pools # << >>
    BY DEF HasRoom
  <2>2. n \in 1..MaxPools
    BY <2>1, PoolFacts, MaxPoolsIs
  <2> QED
    BY <2>1, <2>2, PoolFacts DEF PoolsOK
<1>2. p.usage < p.capacity /\ p = [capacity |-> p.capacity, usage |-> p.usage]
  BY <1>1 DEF HasRoom, Last
<1>3. /\ e = [d EXCEPT !.pools = q, !.var = [d.var EXCEPT ![id] = NullVariant]]
      /\ id = x % (NullSlot + 1)
  <2>1. [p EXCEPT !.usage = @ + 1] = [capacity |-> p.capacity, usage |-> p.usage + 1]
    BY <1>2
  <2> QED
    BY <2>1 DEF Take
<1>4. /\ q \in Seq([capacity : Nat, usage : Nat]) /\ Len(q) = n /\ DOMAIN q = 1..n
      /\ \A m \in 1..n : q[m].capacity = d.pools[m].capacity
      /\ \A m \in 1..n : q[m].usage = IF m = n THEN p.usage + 1 ELSE d.pools[m].usage
  <2> DEFINE r == [capacity |-> p.capacity, usage |-> p.usage + 1]
  <2>1. r \in [capacity : Nat, usage : Nat] /\ r.capacity = p.capacity /\ r.usage = p.usage + 1
    BY <1>1
  <2> HIDE DEF r
  <2>2. /\ q \in Seq([capacity : Nat, usage : Nat]) /\ Len(q) = n /\ DOMAIN q = 1..n
        /\ \A m \in 1..n : q[m] = IF m = n THEN r ELSE d.pools[m]
    BY <1>1, <2>1 DEF r
  <2> HIDE DEF q, n
  <2> QED
    BY <2>1, <2>2
<1> HIDE DEF e, id, q
<1>5. x \in Slots
  <2>1. p.usage \in 0..PoolCapacity - 1 /\ (n = MaxPools => p.usage < PoolCapacity - 1)
    <3>1. /\ p.usage \in Nat /\ p.capacity \in Nat /\ p.capacity <= PoolCapacity
          /\ n = MaxPools => p.capacity < PoolCapacity
      BY <1>1
    <3> HIDE DEF p, n
    <3> QED
      BY <1>2, <3>1, Sizes
  <2> HIDE DEF p, n
  <2> QED
    BY <1>1, <2>1, SlotNumbers
<1> HIDE DEF p, n
<1>6. id = x
  <2> HIDE DEF x
  <2> QED
    BY <1>3, <1>5, Sizes, SMTT(30) DEF Slots
<1>7. /\ e.pools = q /\ e.free = d.free /\ e.refs = d.refs /\ (e.overflowed <=> d.overflowed)
      /\ e.capacity = d.capacity /\ (e.moved <=> d.moved)
      /\ e.var = [d.var EXCEPT ![x] = NullVariant] /\ e \in Documents
  <2> DEFINE var == [d.var EXCEPT ![x] = NullVariant]
  <2>1. var \in [Nodes -> Variants]
    <3>1. NullVariant \in Variants
      BY Sizes DEF NullVariant, Variants, Types
    <3> HIDE DEF x
    <3> QED
      BY <1>5, <3>1, Sizes DEF Documents
  <2>2. e = [d EXCEPT !.pools = q, !.var = var]
    BY <1>3, <1>6
  <2> HIDE DEF x, var
  <2>3. e \in Documents
    BY <1>4, <2>1, <2>2 DEF Documents
  <2>4. e.var = var
    BY <2>2 DEF Documents
  <2> QED
    BY <2>2, <2>3, <2>4 DEF Documents, var
<1>8. e.var[x] = NullVariant /\ \A u \in Nodes \ {x} : e.var[u] = d.var[u]
  <2> HIDE DEF x
  <2> QED
    BY <1>5, <1>7, Sizes DEF Documents
<1>9. p = d.pools[n] /\ p.usage \in Nat /\ p.capacity \in Nat /\ n = Len(d.pools)
  BY <1>1 DEF p, n
<1>10. x \notin Given(d)
  <2> SUFFICES ASSUME NEW m \in 1..n, NEW i \in 0..d.pools[m].usage - 1
               PROVE  x # (m - 1) * PoolCapacity + i
    BY <1>9, GivenIs
  <2> HIDE DEF x
  <2>1. d.pools[m].usage \in Nat /\ d.pools[m].usage <= d.pools[m].capacity
        /\ d.pools[m].capacity <= PoolCapacity /\ d.pools[m].capacity \in Nat
    BY <1>1
  <2>2. i \in Nat /\ i < PoolCapacity /\ i < d.pools[m].usage
    BY <2>1, Sizes
  <2>3. CASE m < n
    <3>1. m \in Nat /\ n \in Nat /\ i \in Int /\ p.usage \in Nat
      BY <1>1, <1>9, <2>2
    <3>2. (m - 1) * PoolCapacity + i # (n - 1) * PoolCapacity + p.usage
      BY <2>2, <2>3, <3>1, SlotsApart
    <3> QED
      BY <3>2 DEF x
  <2>4. CASE m = n
    <3> DEFINE y == (n - 1) * PoolCapacity
    <3>1. i < p.usage /\ y \in Int
      BY <1>1, <1>9, <2>2, <2>4, Sizes
    <3> HIDE DEF y
    <3>2. y + p.usage # y + i
      BY <1>9, <2>2, <3>1
    <3> QED
      BY <2>4, <3>2 DEF x, y
  <2> QED
    BY <1>1, <2>3, <2>4
<1>11. Given(e) = Given(d) \cup {x}
  <2>1. ASSUME NEW y
        PROVE  y \in Given(e) <=> \E m \in 1..n : \E i \in 0..q[m].usage - 1 :
                                    y = (m - 1) * PoolCapacity + i
    <3>1. e.pools = q /\ Len(q) = n
      BY <1>4, <1>7
    <3>2. y \in Given(e) <=> \E m \in 1..Len(e.pools) : \E i \in 0..e.pools[m].usage - 1 :
                                    y = (m - 1) * PoolCapacity + i
      BY <1>7, GivenIs
    <3> QED
      BY <3>1, <3>2
  <2>2. ASSUME NEW y
        PROVE  y \in Given(d) <=> \E m \in 1..n : \E i \in 0..d.pools[m].usage - 1 :
                                    y = (m - 1) * PoolCapacity + i
    BY <1>9, GivenIs
  <2>3. ASSUME NEW m \in 1..n, NEW i \in 0..q[m].usage - 1
        PROVE  i \in 0..d.pools[m].usage - 1 \/ (m = n /\ i = p.usage)
    <3>1. q[m].usage = IF m = n THEN p.usage + 1 ELSE d.pools[m].usage
      BY <1>4
    <3> QED
      BY <1>1, <1>9, <3>1
  <2>4. ASSUME NEW m \in 1..n, NEW i \in 0..d.pools[m].usage - 1 PROVE i \in 0..q[m].usage - 1
    <3>1. q[m].usage = IF m = n THEN p.usage + 1 ELSE d.pools[m].usage
      BY <1>4
    <3> QED
      BY <1>1, <1>9, <3>1
  <2>5. n \in 1..n /\ p.usage \in 0..q[n].usage - 1
    <3>1. q[n].usage = p.usage + 1
      BY <1>1, <1>4
    <3> QED
      BY <1>1, <1>9, <3>1
  <2>6. ASSUME NEW y PROVE y \in Given(e) => y \in Given(d) \/ y = x
    BY <2>1, <2>2, <2>3
  <2>7. ASSUME NEW y PROVE y \in Given(d) => y \in Given(e)
    BY <2>1, <2>2, <2>4
  <2>8. x \in Given(e)
    BY <2>1, <2>5
  <2> HIDE DEF x
  <2> QED
    BY <2>6, <2>7, <2>8
<1>12. PoolsOK(e)
  <2>1. ASSUME NEW m \in 1..n
        PROVE  /\ q[m].usage <= q[m].capacity /\ q[m].capacity <= PoolCapacity
               /\ m = MaxPools => q[m].capacity < PoolCapacity
    <3>1. /\ q[m].usage = IF m = n THEN p.usage + 1 ELSE d.pools[m].usage
          /\ q[m].capacity = d.pools[m].capacity
      BY <1>4
    <3> QED
      BY <1>1, <1>2, <1>9, <3>1
  <2>2. q # << >>
    BY <1>1, <1>4
  <2>3. Len(q) <= d.capacity /\ d.capacity > 0
    BY <1>4, <1>9 DEF PoolsOK
  <2> QED
    BY <1>4, <1>7, <2>1, <2>2, <2>3 DEF PoolsOK
<1> HIDE DEF x
<1> QED
  BY <1>4, <1>5, <1>6, <1>7, <1>8, <1>9, <1>10, <1>11, <1>12 DEF e, id

\* A pool that was added is empty.
LEMMA PoolAdded ==
  ASSUME NEW d \in Documents, PoolsOK(d), NEW p \in AddPool(d)
  PROVE  /\ p \in Documents /\ PoolsOK(p) /\ Given(p) = Given(d)
         /\ p.free = d.free /\ p.refs = d.refs /\ p.var = d.var
         /\ (p.overflowed <=> d.overflowed) /\ Len(d.pools) <= Len(p.pools)
<1> DEFINE n == Len(d.pools)
           full == IF n + 1 = MaxPools THEN PoolCapacity - 1 ELSE PoolCapacity
<1>1. CASE p = d
  BY <1>1, PoolFacts
<1>2. ASSUME NEW g \in Grown(d), NEW c \in {0, full},
             p = [g EXCEPT !.pools = Append(g.pools, [capacity |-> c, usage |-> 0])]
      PROVE  /\ p \in Documents /\ PoolsOK(p) /\ Given(p) = Given(d)
             /\ p.free = d.free /\ p.refs = d.refs /\ p.var = d.var
             /\ (p.overflowed <=> d.overflowed) /\ Len(d.pools) <= Len(p.pools)
  <2> DEFINE t == [capacity |-> c, usage |-> 0]
             q == Append(g.pools, t)
  <2>1. /\ n \in Nat /\ d.capacity \in Nat /\ n <= d.capacity /\ d.capacity > 0
        /\ d.pools \in Seq([capacity : Nat, usage : Nat])
        /\ c \in Nat /\ c <= PoolCapacity /\ (n + 1 = MaxPools => c < PoolCapacity)
    BY PoolFacts, Sizes DEF PoolsOK, Documents
  <2>2. /\ g \in Documents /\ g.pools = d.pools /\ g.free = d.free /\ g.refs = d.refs
        /\ g.var = d.var /\ (g.overflowed <=> d.overflowed)
        /\ n < g.capacity /\ g.capacity \in Nat
    <3>1. CASE g = d /\ n < d.capacity
      BY <2>1, <3>1
    <3>2. CASE n = d.capacity /\ g = [d EXCEPT !.capacity = 2 * d.capacity, !.moved = TRUE]
      <4> DEFINE k == 2 * d.capacity
      <4>1. k \in Nat /\ n < k /\ g = [d EXCEPT !.capacity = k, !.moved = TRUE]
        BY <2>1, <3>2
      <4> HIDE DEF k
      <4> QED
        BY <4>1 DEF Documents
    <3> QED
      BY <2>1, <3>1, <3>2 DEF Grown
  <2>3. t \in [capacity : Nat, usage : Nat] /\ t.capacity = c /\ t.usage = 0
    BY <2>1
  <2> HIDE DEF t, full
  <2>4. /\ q \in Seq([capacity : Nat, usage : Nat]) /\ Len(q) = n + 1 /\ DOMAIN q = 1..n + 1
        /\ \A m \in 1..n : q[m] = d.pools[m]
        /\ q[n + 1] = t
    BY <2>1, <2>2, <2>3
  <2>5. p = [g EXCEPT !.pools = q]
    BY <1>2 DEF t
  <2> HIDE DEF q
  <2>6. /\ p \in Documents /\ p.pools = q /\ p.free = g.free /\ p.refs = g.refs /\ p.var = g.var
        /\ (p.overflowed <=> g.overflowed) /\ p.capacity = g.capacity
    BY <2>2, <2>4, <2>5 DEF Documents
  <2>7. PoolsOK(p)
    <3>1. ASSUME NEW m \in 1..n + 1
          PROVE  /\ q[m].usage <= q[m].capacity /\ q[m].capacity <= PoolCapacity
                 /\ m = MaxPools => q[m].capacity < PoolCapacity
      <4>1. CASE m \in 1..n
        BY <2>4, <4>1, PoolFacts DEF PoolsOK
      <4>2. CASE m = n + 1
        BY <2>1, <2>3, <2>4, <4>2
      <4> QED
        BY <2>1, <4>1, <4>2
    <3>2. q # << >>
      BY <2>1, <2>4
    <3>3. Len(q) <= g.capacity /\ g.capacity > 0
      BY <2>1, <2>2, <2>4
    <3> QED
      BY <2>4, <2>6, <3>1, <3>2, <3>3 DEF PoolsOK
  <2>8. Given(p) = Given(d)
    <3>1. \A i : i \notin 0..q[n + 1].usage - 1
      BY <2>3, <2>4
    <3>2. \A m \in 1..n + 1 : m # n + 1 => m \in 1..n
      BY <2>1
    <3>3. \A m \in 1..n : m \in 1..n + 1
      BY <2>1
    <3>4. ASSUME NEW x PROVE x \in Given(p) <=> x \in Given(d)
      <4>1. x \in Given(p) <=> \E m \in 1..n + 1 :
              \E i \in 0..q[m].usage - 1 : x = (m - 1) * PoolCapacity + i
        <5>1. Len(p.pools) = n + 1
          BY <2>4, <2>6
        <5> QED
          BY <2>6, <5>1, GivenIs
      <4>2. x \in Given(d) <=> \E m \in 1..n :
              \E i \in 0..d.pools[m].usage - 1 : x = (m - 1) * PoolCapacity + i
        BY GivenIs
      <4> HIDE DEF n
      <4>3. \A m \in 1..n : q[m] = d.pools[m]
        BY <2>4
      <4> QED
        BY <3>1, <3>2, <3>3, <4>1, <4>2, <4>3
    <3> QED
      BY <3>4
  <2> QED
    BY <2>1, <2>2, <2>4, <2>6, <2>7, <2>8
<1>3. \/ p = d
      \/ \E g \in Grown(d), c \in {0, full} :
           p = [g EXCEPT !.pools = Append(g.pools, [capacity |-> c, usage |-> 0])]
  BY DEF AddPool
<1> HIDE DEF full
<1> QED
  BY <1>1, <1>2, <1>3

\* Where the values are does not depend on the pools.
LEMMA Regarded ==
  ASSUME NEW d, NEW g, Good(d, g), NEW e \in Documents, PoolsOK(e), Given(e) = Given(d),
         e.free = d.free, e.var = d.var, e.refs = d.refs, d.overflowed => e.overflowed
  PROVE  Good(e, g)
<1> USE DEF Good
<1>1. Tree(e, g)
  <2>1. \A u : Links(e, u) = Links(d, u)
    BY DEF Links
  <2> QED
    BY <2>1 DEF Tree, Forest
<1>2. Tails(e, g) /\ Alternating(e, g)
  BY DEF Tails, Alternating
<1>3. Accounted(e, g)
  BY DEF Accounted
<1>4. Counted(e, g)
  BY DEF Counted, Owners
<1> QED
  BY <1>1, <1>2, <1>3, <1>4

\* The places with a slot that was just taken.
With(g, id) ==
  [g EXCEPT !.in = @ \cup {id}, !.roots = @ \cup {id}, !.role = [@ EXCEPT ![id] = "element"],
            !.rank = [@ EXCEPT ![id] = g.top], !.top = @ + 1]

LEMMA WithFields ==
  ASSUME NEW g \in Places, NEW id \in Slots
  PROVE  /\ With(g, id) \in Places
         /\ With(g, id).in = g.in \cup {id} /\ With(g, id).roots = g.roots \cup {id}
         /\ With(g, id).own = g.own /\ With(g, id).up = g.up
         /\ With(g, id).top = g.top + 1
         /\ With(g, id).role[id] = "element" /\ With(g, id).rank[id] = g.top
         /\ \A u \in Nodes \ {id} : /\ With(g, id).role[u] = g.role[u]
                                    /\ With(g, id).rank[u] = g.rank[u]
<1> DEFINE role == [g.role EXCEPT ![id] = "element"]
           rank == [g.rank EXCEPT ![id] = g.top]
<1>1. /\ role \in [Nodes -> {"element", "key", "value"}] /\ rank \in [Nodes -> Nat]
      /\ role[id] = "element" /\ rank[id] = g.top
      /\ \A u \in Nodes \ {id} : role[u] = g.role[u] /\ rank[u] = g.rank[u]
      /\ g.in \cup {id} \in SUBSET Nodes /\ g.roots \cup {id} \in SUBSET Nodes
      /\ g.top + 1 \in Nat
  BY Sizes DEF Places
<1>2. With(g, id) = [g EXCEPT !.in = g.in \cup {id}, !.roots = g.roots \cup {id}, !.role = role,
                              !.rank = rank, !.top = g.top + 1]
  BY DEF With
<1> HIDE DEF role, rank
<1> QED
  BY <1>1, <1>2 DEF Places

\* A slot that nobody uses joins the document.
LEMMA Joined ==
  ASSUME NEW d, NEW g, Good(d, g), NEW e \in Documents, PoolsOK(e),
         NEW id \in Slots, id \notin g.in,
         id \in Given(e) \ e.free, Given(d) \subseteq Given(e), Given(e) \subseteq Given(d) \cup {id},
         e.free \subseteq d.free, d.free \subseteq e.free \cup {id},
         e.refs = d.refs, e.overflowed <=> d.overflowed,
         e.var[id] = NullVariant, \A u \in Nodes \ {id} : e.var[u] = d.var[u]
  PROVE  Good(e, With(g, id))
<1> DEFINE h == With(g, id)
<1> USE DEF Good
<1>1. /\ d \in Documents /\ g \in Places /\ g.in \subseteq Nodes
      /\ g.in \ g.roots \subseteq Slots /\ g.roots \subseteq g.in
      /\ Root \in g.roots /\ g.top \in Nat /\ id \in Nodes
      /\ \A u \in Nodes : g.rank[u] \in Nat /\ g.own[u] \in Nodes /\ g.up[u] \in Nodes
  BY TreeFacts, Sizes DEF Places
<1>2. /\ h \in Places /\ h.in = g.in \cup {id} /\ h.roots = g.roots \cup {id}
      /\ h.own = g.own /\ h.up = g.up /\ h.top = g.top + 1
      /\ h.role[id] = "element" /\ h.rank[id] = g.top
      /\ \A u \in Nodes \ {id} : h.role[u] = g.role[u] /\ h.rank[u] = g.rank[u]
  BY <1>1, WithFields
<1>3. /\ e.var[id].type = "null" /\ e.var[id].head = NullSlot /\ e.var[id].tail = NullSlot
      /\ e.var[id].next = NullSlot
  BY NullFields
<1> HIDE DEF h
<1>4. ASSUME NEW u \in g.in
      PROVE  /\ e.var[u] = d.var[u] /\ h.role[u] = g.role[u] /\ h.rank[u] = g.rank[u]
             /\ g.rank[u] \in Nat /\ u # id /\ Links(e, u) = Links(d, u)
  BY <1>1, <1>2 DEF Links
<1>5. h.in \ h.roots = g.in \ g.roots
  BY <1>1, <1>2
<1>6. Tree(e, h)
  <2>1. ASSUME NEW u \in h.in
        PROVE  /\ h.rank[u] < h.top
               /\ e.var[u].head # NullSlot =>
                    Linked(h, u, e.var[u].head, u) /\ e.var[u].head # e.var[u].next
               /\ e.var[u].next # NullSlot => Linked(h, u, e.var[u].next, h.own[u])
    <3>1. CASE u = id
      BY <1>1, <1>2, <1>3, <3>1
    <3>2. CASE u \in g.in
      <4>1. g.rank[u] < g.top
        BY <3>2 DEF Tree, Forest
      <4>2. h.rank[u] < h.top
        BY <1>1, <1>2, <1>4, <3>2, <4>1
      <4> QED
        BY <1>2, <1>4, <1>5, <3>2, <4>2, SMTT(30) DEF Tree, Forest, Linked
    <3> QED
      BY <1>2, <3>1, <3>2
  <2>2. ASSUME NEW w \in h.in \ h.roots
        PROVE  /\ h.up[w] \in h.in /\ w \in Links(e, h.up[w])
               /\ h.own[w] \in h.in /\ h.rank[h.own[w]] < h.rank[w]
    BY <1>2, <1>4, <1>5 DEF Tree, Forest
  <2>3. \A x \in h.roots : e.var[x].next = NullSlot
    BY <1>1, <1>2, <1>3, <1>4 DEF Tree, Forest
  <2> QED
    BY <1>1, <1>2, <2>1, <2>2, <2>3 DEF Tree, Forest
<1>7. Tails(e, h)
  <2> SUFFICES ASSUME NEW u \in h.in
      PROVE /\ e.var[u].type \in {"null", "plain", "owned"} => e.var[u].head = NullSlot
            /\ e.var[u].type \notin Collection => e.var[u].tail = NullSlot
            /\ e.var[u].tail # NullSlot =>
                 /\ e.var[u].head # NullSlot
                 /\ e.var[u].tail \in h.in \ h.roots /\ h.own[e.var[u].tail] = u
                 /\ e.var[e.var[u].tail].next = NullSlot
            /\ e.var[u].type \in Collection /\ e.var[u].head # NullSlot => e.var[u].tail # NullSlot
    BY DEF Tails
  <2>1. CASE u = id
    BY <1>3, <2>1 DEF Collection
  <2>2. CASE u \in g.in
    BY <1>2, <1>4, <1>5, <2>2 DEF Tails
  <2> QED
    BY <1>2, <2>1, <2>2
<1>8. Alternating(e, h)
  <2> SUFFICES ASSUME NEW u \in h.in
      PROVE /\ e.var[u].head # NullSlot =>
                 h.role[e.var[u].head] = IF e.var[u].type = "object" THEN "key" ELSE "element"
            /\ h.role[u] = "key" => e.var[u].next # NullSlot /\ h.role[e.var[u].next] = "value"
            /\ h.role[u] # "key" /\ e.var[u].next # NullSlot =>
                 h.role[e.var[u].next] = IF h.role[u] = "value" THEN "key" ELSE "element"
    BY DEF Alternating
  <2>1. CASE u = id
    BY <1>2, <1>3, <2>1
  <2>2. CASE u \in g.in
    <3>1. d.var[u].head # NullSlot => d.var[u].head \in g.in
      BY <2>2 DEF Tree, Forest, Linked
    <3>2. d.var[u].next # NullSlot => d.var[u].next \in g.in
      BY <2>2 DEF Tree, Forest, Linked
    <3> QED
      BY <1>4, <2>2, <3>1, <3>2 DEF Alternating
  <2> QED
    BY <1>2, <2>1, <2>2
<1>9. Accounted(e, h)
  BY <1>2, Sizes DEF Accounted
<1>10. Counted(e, h)
  <2>1. \A s : Owners(e, h.in, s) = Owners(d, g.in, s)
    BY <1>2, <1>3, <1>4 DEF Owners
  <2> QED
    BY <2>1 DEF Counted
<1> QED
  BY <1>6, <1>7, <1>8, <1>9, <1>10 DEF h

\* A slot is taken, if there is one.
LEMMA Allocated ==
  ASSUME NEW d, NEW g, Good(d, g), NEW r \in Alloc(d), Len(r[1].pools) <= MaxPools
  PROVE  /\ r[1] \in Documents /\ Len(d.pools) <= Len(r[1].pools)
         /\ r[1].refs = d.refs
         /\ \/ /\ r[2] = NullSlot /\ r[1].overflowed /\ r[1].var = d.var /\ Good(r[1], g)
            \/ /\ r[2] \in Slots \ g.in /\ Good(r[1], With(g, r[2]))
               /\ r[1].var[r[2]] = NullVariant
               /\ \A u \in Nodes \ {r[2]} : r[1].var[u] = d.var[u]
<1>1. d \in Documents /\ PoolsOK(d) /\ g.in \subseteq Nodes
  BY TreeFacts DEF Good
<1>2. g.in \ {Root} \subseteq Given(d) /\ g.in \cap d.free = {} /\ d.free \subseteq Given(d)
  BY DEF Good, Accounted
<1>3. Len(d.pools) \in Nat
  BY <1>1, PoolFacts
<1>4. CASE d.free # {}
  <2> DEFINE id == Min(d.free)
             var == [d.var EXCEPT ![id] = NullVariant]
             e == r[1]
  <2>1. id \in d.free /\ d.free \subseteq Slots
    BY <1>1, <1>4, MinIs, Sizes DEF Documents
  <2>2. r = <<[d EXCEPT !.free = d.free \ {id}, !.var = [d.var EXCEPT ![id] = NullVariant]], id>>
    BY <1>4 DEF Alloc
  <2> HIDE DEF id
  <2>3. /\ var \in [Nodes -> Variants] /\ var[id] = NullVariant
        /\ \A u \in Nodes \ {id} : var[u] = d.var[u]
    <3>1. NullVariant \in Variants
      BY Sizes DEF NullVariant, Variants, Types
    <3> QED
      BY <1>1, <2>1, <3>1, Sizes DEF Documents
  <2>4. e = [d EXCEPT !.free = d.free \ {id}, !.var = var] /\ r[2] = id
    BY <2>2
  <2> HIDE DEF var, e
  <2>5. /\ e.free = d.free \ {id} /\ e.var = var /\ e.refs = d.refs /\ SameMemory(d, e)
        /\ e \in Documents
    BY <1>1, <2>1, <2>3, <2>4 DEF Documents, SameMemory
  <2>6. PoolsOK(e) /\ Given(e) = Given(d)
    BY <1>1, <2>5, MemoryKept
  <2>7. id \in Slots /\ id \notin g.in
    BY <1>2, <2>1
  <2>8. e.overflowed <=> d.overflowed
    BY <2>5 DEF SameMemory
  <2>9. Good(e, With(g, id))
    BY <1>2, <2>1, <2>3, <2>5, <2>6, <2>7, <2>8, Joined
  <2>10. Len(e.pools) = Len(d.pools)
    BY <2>5 DEF SameMemory
  <2> QED
    BY <1>3, <2>3, <2>4, <2>5, <2>7, <2>9, <2>10 DEF e
<1>5. ASSUME NEW p \in Documents, Good(p, g), HasRoom(p), r = Take(p), p.var = d.var,
             p.refs = d.refs, Len(d.pools) <= Len(p.pools)
      PROVE  /\ r[1] \in Documents /\ Len(d.pools) <= Len(r[1].pools) /\ r[1].refs = d.refs
             /\ r[2] \in Slots \ g.in /\ Good(r[1], With(g, r[2]))
             /\ r[1].var[r[2]] = NullVariant
             /\ \A u \in Nodes \ {r[2]} : r[1].var[u] = d.var[u]
  <2> DEFINE e == Take(p)[1]
             id == Take(p)[2]
  <2>1. Len(e.pools) = Len(p.pools)
    <3>1. e.pools = [p.pools EXCEPT ![Len(p.pools)].usage = @ + 1]
      BY DEF Take, Documents
    <3>2. Len(p.pools) \in Nat /\ DOMAIN p.pools = 1..Len(p.pools)
      BY PoolFacts
    <3> HIDE DEF e
    <3>3. DOMAIN e.pools = 1..Len(p.pools)
      BY <3>1, <3>2
    <3> QED
      BY <3>2, <3>3
  <2>2. /\ id \in Slots \ Given(p) /\ Given(e) = Given(p) \cup {id} /\ e \in Documents
        /\ PoolsOK(e) /\ e.free = p.free /\ e.refs = p.refs /\ (e.overflowed <=> p.overflowed)
        /\ e.var[id] = NullVariant /\ \A u \in Nodes \ {id} : e.var[u] = p.var[u]
    <3>1. Len(p.pools) <= MaxPools
      BY <1>5, <2>1
    <3> HIDE DEF e, id
    <3>2. PoolsOK(p)
      BY <1>5 DEF Good
    <3> QED
      BY <1>5, <3>1, <3>2, Taken DEF e, id
  <2> HIDE DEF e, id
  <2>3. id \notin g.in /\ id \notin p.free
    BY <1>5, <2>2, Sizes DEF Good, Accounted
  <2>4. Good(e, With(g, id))
    BY <1>5, <2>2, <2>3, Joined
  <2> QED
    BY <1>5, <2>1, <2>2, <2>3, <2>4 DEF e, id
<1>6. CASE d.free = {} /\ HasRoom(d)
  <2>1. r = Take(d)
    BY <1>6 DEF Alloc
  <2> QED
    BY <1>1, <1>3, <1>5, <1>6, <2>1
<1>7. CASE d.free = {} /\ ~ HasRoom(d)
  <2>1. PICK p \in AddPool(d) :
          r = IF HasRoom(p) THEN Take(p) ELSE <<[p EXCEPT !.overflowed = TRUE], NullSlot>>
    BY <1>7 DEF Alloc
  <2>2. /\ p \in Documents /\ PoolsOK(p) /\ Given(p) = Given(d)
        /\ p.free = d.free /\ p.refs = d.refs /\ p.var = d.var
        /\ (p.overflowed <=> d.overflowed) /\ Len(d.pools) <= Len(p.pools)
    BY <1>1, PoolAdded
  <2>3. Good(p, g)
    BY <2>2, Regarded
  <2>4. CASE HasRoom(p)
    BY <1>5, <2>1, <2>2, <2>3, <2>4
  <2>5. CASE ~ HasRoom(p)
    <3> DEFINE e == [p EXCEPT !.overflowed = TRUE]
    <3>1. r = <<e, NullSlot>>
      BY <2>1, <2>5
    <3>2. /\ e \in Documents /\ e.pools = p.pools /\ e.free = p.free /\ e.var = p.var
          /\ e.refs = p.refs /\ e.overflowed /\ e.capacity = p.capacity /\ (e.moved <=> p.moved)
      BY <2>2 DEF Documents
    <3> HIDE DEF e
    <3>3. PoolsOK(e) /\ Given(e) = Given(p)
      BY <2>2, <3>2 DEF PoolsOK, Given
    <3>4. Good(e, g)
      BY <2>3, <3>2, <3>3, Regarded
    <3> QED
      BY <2>2, <3>1, <3>2, <3>4
  <2> QED
    BY <2>4, <2>5
<1> QED
  BY <1>4, <1>6, <1>7

\* Pools are only added, whatever else is in the document.
Shaped(d) ==
  d \in [pools : Seq([capacity : Nat, usage : Nat]), capacity : Nat, moved : {d.moved},
        free : {d.free}, var : {d.var}, refs : {d.refs}, overflowed : {d.overflowed}]

Grows(d, e) == Shaped(e) /\ Len(d.pools) <= Len(e.pools)

LEMMA ShapedLen == ASSUME NEW d, Shaped(d) PROVE Len(d.pools) \in Nat /\ Grows(d, d)
<1>1. Len(d.pools) \in Nat
  BY DEF Shaped
<1> QED
  BY <1>1 DEF Grows

LEMMA ShapedDocument == ASSUME NEW d \in Documents PROVE Shaped(d)
BY DEF Documents, Shaped

LEMMA GrowsOn == ASSUME NEW d, NEW e, NEW f, Shaped(d), Grows(d, e), Grows(e, f) PROVE Grows(d, f)
<1>1. Len(d.pools) \in Nat /\ Len(e.pools) \in Nat /\ Len(f.pools) \in Nat
  BY ShapedLen DEF Grows
<1> QED
  BY <1>1 DEF Grows

LEMMA PoolGrows ==
  ASSUME NEW d, Shaped(d), NEW p \in AddPool(d)
  PROVE  Grows(d, p)
<1> DEFINE n == Len(d.pools)
           full == IF n + 1 = MaxPools THEN PoolCapacity - 1 ELSE PoolCapacity
<1>1. CASE p = d
  BY <1>1, ShapedLen
<1>2. ASSUME NEW g \in Grown(d), NEW c \in {0, full},
             p = [g EXCEPT !.pools = Append(g.pools, [capacity |-> c, usage |-> 0])]
      PROVE  Grows(d, p)
  <2> DEFINE t == [capacity |-> c, usage |-> 0]
             q == Append(g.pools, t)
  <2>1. /\ n \in Nat /\ d.capacity \in Nat /\ d.pools \in Seq([capacity : Nat, usage : Nat])
        /\ c \in Nat
    BY ShapedLen, Sizes DEF Shaped
  <2>2. Shaped(g) /\ g.pools = d.pools
    <3>1. CASE g = d
      BY <3>1
    <3>2. CASE g = [d EXCEPT !.capacity = 2 * d.capacity, !.moved = TRUE]
      <4> DEFINE k == 2 * d.capacity
      <4>1. k \in Nat /\ g = [d EXCEPT !.capacity = k, !.moved = TRUE]
        BY <2>1, <3>2
      <4> HIDE DEF k
      <4>2. g.pools = d.pools /\ g.capacity = k /\ g.free = d.free /\ g.var = d.var
        BY <4>1 DEF Shaped
      <4> QED
        BY <4>1, <4>2 DEF Shaped
    <3> QED
      BY <3>1, <3>2 DEF Grown
  <2>3. t \in [capacity : Nat, usage : Nat]
    BY <2>1
  <2> HIDE DEF t, full
  <2>4. q \in Seq([capacity : Nat, usage : Nat]) /\ Len(q) = n + 1
    BY <2>1, <2>2, <2>3
  <2>5. p = [g EXCEPT !.pools = q]
    BY <1>2 DEF t
  <2> HIDE DEF q
  <2>6. Shaped(p) /\ p.pools = q
    BY <2>2, <2>4, <2>5 DEF Shaped
  <2> QED
    BY <2>1, <2>4, <2>6 DEF Grows
<1>3. \/ p = d
      \/ \E g \in Grown(d), c \in {0, full} :
           p = [g EXCEPT !.pools = Append(g.pools, [capacity |-> c, usage |-> 0])]
  BY DEF AddPool
<1> HIDE DEF full
<1> QED
  BY <1>1, <1>2, <1>3

LEMMA TakeGrows ==
  ASSUME NEW d, Shaped(d), HasRoom(d)
  PROVE  Grows(d, Take(d)[1])
<1> DEFINE n == Len(d.pools)
           y == [d.pools[n] EXCEPT !.usage = d.pools[n].usage + 1]
           q == [d.pools EXCEPT ![n] = y]
           id == ((n - 1) * PoolCapacity + d.pools[n].usage) % (NullSlot + 1)
           var == [d.var EXCEPT ![id] = NullVariant]
           e == Take(d)[1]
<1>1. /\ n \in 1..n /\ d.pools[n] \in [capacity : Nat, usage : Nat]
      /\ d.pools \in Seq([capacity : Nat, usage : Nat])
  <2> DEFINE p == d.pools
             T == [capacity : Nat, usage : Nat]
  <2>1. p \in Seq(T) /\ p # << >>
    BY DEF Shaped, HasRoom
  <2> HIDE DEF p, T
  <2>2. Len(p) \in Nat /\ Len(p) # 0
    BY <2>1
  <2>3. Len(p) \in 1..Len(p)
    BY <2>2
  <2>4. p[Len(p)] \in T
    BY <2>1, <2>3
  <2> QED
    BY <2>1, <2>3, <2>4 DEF p, T
<1>2. y \in [capacity : Nat, usage : Nat]
  BY <1>1
<1>3. q \in Seq([capacity : Nat, usage : Nat]) /\ Len(q) = n
  <2> HIDE DEF y
  <2> QED
    BY <1>1, <1>2
<1>4. e = [d EXCEPT !.pools = q, !.var = var]
  <2> HIDE DEF id
  <2>1. Take(d) = <<[d EXCEPT !.pools[n].usage = @ + 1, !.var[id] = NullVariant], id>>
    BY DEF Take, id
  <2> QED
    BY <2>1 DEF Shaped
<1> HIDE DEF q, var, e
<1>5. Shaped(e) /\ e.pools = q
  BY <1>3, <1>4 DEF Shaped
<1> QED
  BY <1>1, <1>3, <1>5 DEF Grows, e

LEMMA AllocGrows ==
  ASSUME NEW d, Shaped(d), NEW r \in Alloc(d)
  PROVE  Grows(d, r[1])
<1>1. CASE d.free # {}
  <2> DEFINE id == Min(d.free)
             e == [d EXCEPT !.free = d.free \ {id}, !.var[id] = NullVariant]
  <2>1. r[1] = e
    BY <1>1 DEF Alloc
  <2> HIDE DEF id
  <2>2. Shaped(e) /\ e.pools = d.pools
    BY DEF Shaped
  <2> HIDE DEF e
  <2> QED
    BY <2>1, <2>2, ShapedLen DEF Grows
<1>2. CASE d.free = {} /\ HasRoom(d)
  <2>1. r = Take(d)
    BY <1>2 DEF Alloc
  <2> QED
    BY <2>1, <1>2, TakeGrows
<1>3. CASE d.free = {} /\ ~ HasRoom(d)
  <2>1. PICK p \in AddPool(d) :
          r = IF HasRoom(p) THEN Take(p) ELSE <<[p EXCEPT !.overflowed = TRUE], NullSlot>>
    BY <1>3 DEF Alloc
  <2>2. Shaped(p) /\ Grows(d, p)
    BY PoolGrows DEF Grows
  <2>3. CASE HasRoom(p)
    BY <2>1, <2>2, <2>3, TakeGrows, GrowsOn
  <2>4. CASE ~ HasRoom(p)
    <3> DEFINE e == [p EXCEPT !.overflowed = TRUE]
    <3>1. r[1] = e
      BY <2>1, <2>4
    <3>2. Shaped(e) /\ e.pools = p.pools
      BY <2>2 DEF Shaped
    <3> HIDE DEF e
    <3>3. Grows(d, e)
      BY <2>2, <3>2 DEF Grows
    <3> QED
      BY <3>1, <3>3
  <2> QED
    BY <2>3, <2>4
<1> QED
  BY <1>1, <1>2, <1>3

LEMMA ClearGrows ==
  ASSUME NEW d, Shaped(d), NEW v
  PROVE  Grows(d, Clear(d, v))
<1> DEFINE a == d.free \cup Below(d, v)
           b == [s \in Long |-> d.refs[s] - Cardinality(Owners(d, {v} \cup Below(d, v), s))]
           c == [NullVariant EXCEPT !.next = d.var[v].next]
           e == [d EXCEPT !.free = a, !.refs = b, !.var[v] = c]
<1>1. Clear(d, v) = e
  BY DEF Clear, Shaped
<1> HIDE DEF a, b, c
<1>2. Shaped(e) /\ e.pools = d.pools
  BY DEF Shaped
<1> HIDE DEF e
<1> QED
  BY <1>1, <1>2, ShapedLen DEF Grows

LEMMA FreeGrows ==
  ASSUME NEW d, Shaped(d), NEW v
  PROVE  Grows(d, FreeVariant(d, v))
<1> DEFINE f == Clear(d, v)
           e == [f EXCEPT !.free = f.free \cup {v}]
<1>1. Grows(d, f)
  BY ClearGrows
<1> HIDE DEF f
<1>2. Shaped(e) /\ e.pools = f.pools
  BY <1>1 DEF Grows, Shaped
<1>3. FreeVariant(d, v) = e
  BY DEF FreeVariant, f
<1> HIDE DEF e
<1> QED
  BY <1>1, <1>2, <1>3 DEF Grows

LEMMA AppendGrows ==
  ASSUME NEW d, Shaped(d), NEW c, NEW first, NEW last
  PROVE  Grows(d, Append1(d, c, first, last))
<1> DEFINE e == IF d.var[c].tail = NullSlot THEN [d EXCEPT !.var[c].head = first]
                ELSE [d EXCEPT !.var[d.var[c].tail].next = first]
           f == [e EXCEPT !.var[c].tail = last]
<1>1. Shaped(e) /\ e.pools = d.pools
  BY DEF Shaped
<1>2. Append1(d, c, first, last) = f
  BY DEF Append1
<1> HIDE DEF e
<1>3. Shaped(f) /\ f.pools = e.pools
  BY <1>1 DEF Shaped
<1> HIDE DEF f
<1> QED
  BY <1>1, <1>2, <1>3, ShapedLen DEF Grows

LEMMA PairGrows ==
  ASSUME NEW d, Shaped(d), NEW c, NEW key, NEW value
  PROVE  Grows(d, AppendPair(d, c, key, value))
<1> DEFINE e == [d EXCEPT !.var[key].next = value]
<1>1. Shaped(e) /\ e.pools = d.pools
  BY DEF Shaped
<1>2. AppendPair(d, c, key, value) = Append1(e, c, key, value)
  BY DEF AppendPair
<1> HIDE DEF e
<1>3. Grows(e, Append1(e, c, key, value))
  BY <1>1, AppendGrows
<1> QED
  BY <1>1, <1>2, <1>3 DEF Grows

LEMMA StringGrows ==
  ASSUME NEW d, Shaped(d), NEW v, NEW s, NEW r \in SetString(d, v, s)
  PROVE  Grows(d, r[1])
<1> DEFINE kept == [d EXCEPT !.var[v].type = IF s \in Long THEN "owned" ELSE "plain",
                             !.var[v].str = s,
                             !.refs = [t \in Long |-> @[t] + (IF t = s THEN 1 ELSE 0)]]
           over == [d EXCEPT !.overflowed = TRUE]
<1>1. Shaped(kept) /\ kept.pools = d.pools
  BY DEF Shaped
<1>2. Shaped(over) /\ over.pools = d.pools
  BY DEF Shaped
<1>3. r = <<kept, v>> \/ r = <<over, NullSlot>>
  BY DEF SetString
<1> HIDE DEF kept, over
<1> QED
  BY <1>1, <1>2, <1>3, ShapedLen DEF Grows

LEMMA SetNullGrows ==
  ASSUME NEW d, Shaped(d), NEW v, NEW value, NEW r \in SetNull(d, v, value)
  PROVE  Grows(d, r[1])
<1>1. ASSUME NEW q \in Alloc(d),
             r = IF q[2] = NullSlot THEN q
                 ELSE <<[q[1] EXCEPT !.var[v].type = "ext", !.var[v].head = q[2]], v>>
      PROVE  Grows(d, r[1])
  <2> DEFINE f == q[1]
             id == q[2]
             e == [f EXCEPT !.var[v].type = "ext", !.var[v].head = id]
  <2>1. Grows(d, f)
    BY AllocGrows
  <2>2. r = IF id = NullSlot THEN q ELSE <<e, v>>
    BY <1>1
  <2> HIDE DEF f, id
  <2>3. Shaped(e) /\ e.pools = f.pools
    BY <2>1 DEF Shaped, Grows
  <2> HIDE DEF e
  <2>4. Grows(d, e)
    BY <2>1, <2>3 DEF Grows
  <2> QED
    BY <2>1, <2>2, <2>4 DEF f
<1>2. CASE value \in Strings
  <2>1. r \in SetString(d, v, value)
    BY <1>2, StringsAssumption DEF SetNull, Then, Strings, Plain
  <2> QED
    BY <2>1, StringGrows
<1>3. CASE value = "ext"
  <2>1. value \notin Long \cup Short
    BY <1>3, StringsAssumption
  <2>2. r \in Then(Alloc(d), LAMBDA e, id :
                     {<<[e EXCEPT !.var[v].type = "ext", !.var[v].head = id], v>>})
    BY <1>3, <2>1 DEF SetNull, Then, Plain
  <2>3. PICK q \in Alloc(d) :
          r = IF q[2] = NullSlot THEN q
              ELSE <<[q[1] EXCEPT !.var[v].type = "ext", !.var[v].head = q[2]], v>>
    BY <2>2 DEF Then
  <2> QED
    BY <1>1, <2>3
<1>4. CASE value \notin Strings /\ value # "ext"
  <2> DEFINE a == [d EXCEPT !.var[v].type = "plain", !.var[v].str = value]
             b == [d EXCEPT !.var[v].type = value]
  <2>1. r = <<a, v>> \/ r = <<b, v>>
    BY <1>4 DEF SetNull, Strings, Then
  <2>2. Shaped(a) /\ a.pools = d.pools
    BY DEF Shaped
  <2>3. Shaped(b) /\ b.pools = d.pools
    BY DEF Shaped
  <2> HIDE DEF a, b
  <2> QED
    BY <2>1, <2>2, <2>3, ShapedLen DEF Grows
<1> QED
  BY <1>2, <1>3, <1>4

LEMMA SetGrows ==
  ASSUME NEW d, Shaped(d), NEW v, NEW value, NEW r \in Set(d, v, value)
  PROVE  Grows(d, r[1])
<1>1. Shaped(Clear(d, v)) /\ Grows(d, Clear(d, v))
  BY ClearGrows DEF Grows
<1> QED
  BY <1>1, SetNullGrows, GrowsOn DEF Set

LEMMA AddElementGrows ==
  ASSUME NEW d, Shaped(d), NEW c, NEW r \in AddElement(d, c)
  PROVE  Grows(d, r[1])
<1>1. PICK q \in Alloc(d) :
        r = IF q[2] = NullSlot THEN q ELSE <<AppendOne(q[1], c, q[2]), q[2]>>
  BY DEF AddElement, Then
<1>2. Grows(d, q[1]) /\ Shaped(q[1])
  BY AllocGrows DEF Grows
<1>3. Grows(q[1], AppendOne(q[1], c, q[2]))
  BY <1>2, AppendGrows DEF AppendOne
<1>4. r[1] = q[1] \/ r[1] = AppendOne(q[1], c, q[2])
  BY <1>1
<1> QED
  BY <1>2, <1>3, <1>4, GrowsOn

LEMMA MemberGrows ==
  ASSUME NEW d, Shaped(d), NEW c, NEW s, NEW r \in GetOrAddMember(d, c, s)
  PROVE  Grows(d, r[1])
<1>1. CASE FindKey(d, c, s) # NullSlot
  <2>1. r[1] = d
    BY <1>1 DEF GetOrAddMember, Then
  <2> QED
    BY <2>1, ShapedLen
<1>2. CASE FindKey(d, c, s) = NullSlot
  <2>1. PICK q \in Alloc(d) :
          IF q[2] = NullSlot THEN r = q
          ELSE \E p \in Alloc(q[1]) :
                 IF p[2] = NullSlot THEN r = p
                 ELSE \E z \in SetString(p[1], q[2], s) :
                        r = IF z[2] = NullSlot THEN z
                            ELSE <<AppendPair(z[1], c, q[2], p[2]), p[2]>>
    BY <1>2 DEF GetOrAddMember, Then
  <2>2. Grows(d, q[1]) /\ Shaped(q[1])
    BY AllocGrows DEF Grows
  <2>3. CASE r = q
    BY <2>2, <2>3
  <2>4. ASSUME NEW p \in Alloc(q[1]),
               IF p[2] = NullSlot THEN r = p
               ELSE \E z \in SetString(p[1], q[2], s) :
                      r = IF z[2] = NullSlot THEN z
                          ELSE <<AppendPair(z[1], c, q[2], p[2]), p[2]>>
        PROVE  Grows(d, r[1])
    <3>1. Grows(d, p[1]) /\ Shaped(p[1])
      BY <2>2, AllocGrows, GrowsOn DEF Grows
    <3>2. CASE r = p
      BY <3>1, <3>2
    <3>3. ASSUME NEW z \in SetString(p[1], q[2], s),
                 r[1] = z[1] \/ r[1] = AppendPair(z[1], c, q[2], p[2])
          PROVE  Grows(d, r[1])
      <4>1. Grows(d, z[1]) /\ Shaped(z[1])
        BY <3>1, StringGrows, GrowsOn DEF Grows
      <4>2. Grows(z[1], AppendPair(z[1], c, q[2], p[2]))
        BY <4>1, PairGrows
      <4> QED
        BY <3>3, <4>1, <4>2, GrowsOn
    <3>4. CASE \E z \in SetString(p[1], q[2], s) :
                 r = IF z[2] = NullSlot THEN z
                     ELSE <<AppendPair(z[1], c, q[2], p[2]), p[2]>>
      <4>1. PICK z \in SetString(p[1], q[2], s) :
              r = IF z[2] = NullSlot THEN z ELSE <<AppendPair(z[1], c, q[2], p[2]), p[2]>>
        BY <3>4
      <4>2. r[1] = z[1] \/ r[1] = AppendPair(z[1], c, q[2], p[2])
        BY <4>1
      <4> QED
        BY <3>3, <4>2
    <3> QED
      BY <2>4, <3>2, <3>4
  <2> QED
    BY <2>1, <2>3, <2>4
<1> QED
  BY <1>1, <1>2

\* Nothing is below a value that links to nothing.
LEMMA NothingBelow ==
  ASSUME NEW d \in Documents, NEW v \in Nodes, d.var[v].head = NullSlot
  PROVE  Below(d, v) = {}
<1>1. \A u \in {} \cap Slots : Links(d, u) \subseteq {}
  OBVIOUS
<1>2. Below(d, v) \subseteq {}
  BY <1>1, BelowLeast
<1> QED
  BY <1>2

\* A slot that was taken and not linked is given back, or lost.
LEMMA Dropped ==
  ASSUME NEW d, NEW g, Good(d, g), NEW x \in g.roots \ {Root},
         d.var[x].head = NullSlot, d.var[x].type # "owned",
         NEW e \in Documents, PoolsOK(e), Given(e) = Given(d),
         \A u \in Nodes : e.var[u] = d.var[u], e.refs = d.refs, d.overflowed => e.overflowed,
         e.free = d.free \cup {x} \/ (e.free = d.free /\ e.overflowed)
  PROVE  Good(e, Without(g, {x}))
<1> DEFINE h == Without(g, {x})
<1> USE DEF Good
<1>1. /\ d \in Documents /\ g \in Places /\ g.in \subseteq Nodes
      /\ g.in \ g.roots \subseteq Slots /\ g.roots \subseteq g.in
      /\ Root \in g.roots /\ x \in Nodes /\ x \in g.in
  BY TreeFacts
<1>2. /\ h \in Places /\ h.in = g.in \ {x} /\ h.roots = g.roots \ {x} /\ h.own = g.own
      /\ h.up = g.up /\ h.role = g.role /\ h.rank = g.rank /\ h.top = g.top
  BY <1>1, WithoutFields
<1> HIDE DEF h
<1>3. \A w \in g.in \ g.roots : g.own[w] # x /\ g.up[w] # x
  <2>1. Below(d, x) = {} /\ d.var[x].next = NullSlot
    BY <1>1, NothingBelow DEF Tree, Forest
  <2>2. \A w \in g.in \ g.roots : g.own[w] # x
    BY <1>1, <2>1, BelowInTree
  <2>3. \A w \in g.in \ g.roots : w \in Links(d, g.up[w])
    BY DEF Tree, Forest
  <2> QED
    BY <2>1, <2>2, <2>3 DEF Links
<1>4. h.in \ h.roots = g.in \ g.roots
  BY <1>1, <1>2
<1>5. \A u \in h.in : e.var[u] = d.var[u] /\ Links(e, u) = Links(d, u) /\ u \in g.in /\ u # x
  BY <1>1, <1>2 DEF Links
<1>6. Tree(e, h)
  <2>1. ASSUME NEW u \in h.in
        PROVE  /\ h.rank[u] < h.top
               /\ e.var[u].head # NullSlot =>
                    Linked(h, u, e.var[u].head, u) /\ e.var[u].head # e.var[u].next
               /\ e.var[u].next # NullSlot => Linked(h, u, e.var[u].next, h.own[u])
    BY <1>2, <1>4, <1>5 DEF Tree, Forest, Linked
  <2>2. ASSUME NEW w \in h.in \ h.roots
        PROVE  /\ h.up[w] \in h.in /\ w \in Links(e, h.up[w])
               /\ h.own[w] \in h.in /\ h.rank[h.own[w]] < h.rank[w]
    BY <1>2, <1>3, <1>4, <1>5 DEF Tree, Forest
  <2>3. \A y \in h.roots : e.var[y].next = NullSlot
    BY <1>1, <1>2 DEF Tree, Forest
  <2> QED
    BY <1>1, <1>2, <2>1, <2>2, <2>3 DEF Tree, Forest
<1>7. Tails(e, h)
  BY <1>1, <1>2, <1>4, <1>5 DEF Tails
<1>8. Alternating(e, h)
  BY <1>2, <1>5 DEF Alternating
<1>9. Accounted(e, h)
  BY <1>1, <1>2 DEF Accounted
<1>10. Counted(e, h)
  <2>1. \A s : Owners(e, h.in, s) = Owners(d, g.in, s)
    BY <1>1, <1>2 DEF Owners
  <2> QED
    BY <2>1 DEF Counted
<1> QED
  BY <1>6, <1>7, <1>8, <1>9, <1>10 DEF h

\* The places with id as part of c, after u and in the role r.
Hung(g, id, c, u, r) ==
  [g EXCEPT !.roots = @ \ {id}, !.up = [@ EXCEPT ![id] = u], !.own = [@ EXCEPT ![id] = c],
            !.role = [@ EXCEPT ![id] = r]]

LEMMA HungFields ==
  ASSUME NEW g \in Places, NEW id \in Nodes, NEW c \in Nodes, NEW u \in Nodes,
         NEW r \in {"element", "key", "value"}
  PROVE  /\ Hung(g, id, c, u, r) \in Places
         /\ Hung(g, id, c, u, r).in = g.in /\ Hung(g, id, c, u, r).roots = g.roots \ {id}
         /\ Hung(g, id, c, u, r).rank = g.rank /\ Hung(g, id, c, u, r).top = g.top
         /\ Hung(g, id, c, u, r).own[id] = c /\ Hung(g, id, c, u, r).up[id] = u
         /\ Hung(g, id, c, u, r).role[id] = r
         /\ \A w \in Nodes \ {id} : /\ Hung(g, id, c, u, r).own[w] = g.own[w]
                                    /\ Hung(g, id, c, u, r).up[w] = g.up[w]
                                    /\ Hung(g, id, c, u, r).role[w] = g.role[w]
<1> DEFINE role == [g.role EXCEPT ![id] = r]
           own == [g.own EXCEPT ![id] = c]
           up == [g.up EXCEPT ![id] = u]
<1>1. /\ role \in [Nodes -> {"element", "key", "value"}]
      /\ own \in [Nodes -> Nodes] /\ up \in [Nodes -> Nodes]
      /\ role[id] = r /\ own[id] = c /\ up[id] = u
      /\ \A w \in Nodes \ {id} : role[w] = g.role[w] /\ own[w] = g.own[w] /\ up[w] = g.up[w]
      /\ g.roots \ {id} \in SUBSET Nodes
  BY DEF Places
<1>2. Hung(g, id, c, u, r) = [g EXCEPT !.roots = g.roots \ {id}, !.up = up, !.own = own, !.role = role]
  BY DEF Hung
<1> HIDE DEF role, own, up
<1> QED
  BY <1>1, <1>2 DEF Places

\* A number that does not fit in its slot is put in another one.
LEMMA Extended ==
  ASSUME NEW d, NEW g, Good(d, g), NEW v \in g.in, d.var[v].type = "null",
         NEW id \in g.roots \ {Root, v}, g.role[id] = "element", g.rank[v] < g.rank[id],
         NEW e \in Documents, SameMemory(d, e), e.free = d.free, e.refs = d.refs,
         \A u \in Nodes \ {v} : e.var[u] = d.var[u],
         e.var[v].type = "ext", e.var[v].head = id, e.var[v].tail = d.var[v].tail,
         e.var[v].next = d.var[v].next
  PROVE  Good(e, Hung(g, id, v, v, "element"))
<1> DEFINE h == Hung(g, id, v, v, "element")
<1> USE DEF Good
<1>1. /\ d \in Documents /\ g \in Places /\ g.in \subseteq Nodes
      /\ g.in \ g.roots \subseteq Slots /\ g.roots \subseteq g.in
      /\ Root \in g.roots /\ id \in Nodes /\ id \in g.in /\ v \in Nodes
      /\ id # NullSlot
  BY TreeFacts, Sizes
<1>2. /\ h \in Places /\ h.in = g.in /\ h.roots = g.roots \ {id}
      /\ h.rank = g.rank /\ h.top = g.top
      /\ h.own[id] = v /\ h.up[id] = v /\ h.role[id] = "element"
      /\ \A w \in Nodes \ {id} : h.own[w] = g.own[w] /\ h.up[w] = g.up[w] /\ h.role[w] = g.role[w]
  <2>1. "element" \in {"element", "key", "value"}
    OBVIOUS
  <2>2. g \in Places /\ id \in Nodes /\ v \in Nodes
    BY <1>1
  <2>3. /\ h \in Places /\ h.in = g.in /\ h.rank = g.rank /\ h.top = g.top
        /\ h.own[id] = v /\ h.up[id] = v /\ h.role[id] = "element"
        /\ \A w \in Nodes \ {id} : h.own[w] = g.own[w] /\ h.up[w] = g.up[w] /\ h.role[w] = g.role[w]
    BY <2>1, <2>2, HungFields
  <2>4. h.roots = g.roots \ {id}
    BY <2>2 DEF Hung, Places
  <2> QED
    BY <2>3, <2>4
<1> HIDE DEF h
<1>3. d.var[v].head = NullSlot /\ d.var[v].tail = NullSlot
  BY DEF Tails, Collection
<1>4. \A u \in g.in : id \notin Links(d, u)
  BY <1>1 DEF Tree, Forest, Linked, Links
<1>5. \A u \in g.in \ {v} : e.var[u] = d.var[u] /\ Links(e, u) = Links(d, u)
  BY <1>1 DEF Links
<1>6. Links(e, v) = Links(d, v) \cup {id}
  BY <1>1, <1>3 DEF Links
<1>7. Tree(e, h)
  <2>1. ASSUME NEW u \in g.in, NEW w, NEW c, Linked(g, u, w, c) PROVE Linked(h, u, w, c)
    BY <1>1, <1>2, <2>1 DEF Linked
  <2>2. d.var[id].next = NullSlot /\ d.var[v].next # id
    BY <1>1, <1>4 DEF Links, Tree, Forest
  <2>3. ASSUME NEW u \in h.in
        PROVE  /\ h.rank[u] < h.top
               /\ e.var[u].head # NullSlot =>
                    Linked(h, u, e.var[u].head, u) /\ e.var[u].head # e.var[u].next
               /\ e.var[u].next # NullSlot => Linked(h, u, e.var[u].next, h.own[u])
    <3>1. CASE u = v
      <4>1. Linked(h, v, id, v)
        BY <1>1, <1>2 DEF Linked
      <4>2. d.var[v].next # NullSlot => Linked(h, v, d.var[v].next, g.own[v])
        BY <2>1 DEF Tree, Forest
      <4> QED
        BY <1>1, <1>2, <2>2, <3>1, <4>1, <4>2 DEF Tree, Forest
    <3>2. CASE u # v
      <4>1. e.var[u] = d.var[u] /\ u \in g.in
        BY <1>2, <1>5, <3>2
      <4>2. d.var[u].next # NullSlot => u # id
        BY <2>2
      <4>3. d.var[u].head # NullSlot =>
              Linked(h, u, d.var[u].head, u) /\ d.var[u].head # d.var[u].next
        BY <2>1, <4>1 DEF Tree, Forest
      <4>4. d.var[u].next # NullSlot => Linked(h, u, d.var[u].next, h.own[u])
        BY <1>1, <1>2, <2>1, <4>1, <4>2 DEF Tree, Forest
      <4> QED
        BY <1>2, <4>1, <4>3, <4>4 DEF Tree, Forest
    <3> QED
      BY <3>1, <3>2
  <2>4. ASSUME NEW w \in h.in \ h.roots
        PROVE  /\ h.up[w] \in h.in /\ w \in Links(e, h.up[w])
               /\ h.own[w] \in h.in /\ h.rank[h.own[w]] < h.rank[w]
    <3>1. CASE w = id
      BY <1>2, <1>6, <3>1
    <3>2. CASE w # id
      <4>1. w \in g.in \ g.roots
        BY <1>2, <3>2
      <4> QED
        BY <1>1, <1>2, <1>5, <1>6, <3>2, <4>1 DEF Tree, Forest
    <3> QED
      BY <3>1, <3>2
  <2>5. \A x \in h.roots : e.var[x].next = NullSlot
    BY <1>1, <1>2 DEF Tree, Forest
  <2> QED
    BY <1>1, <1>2, <2>3, <2>4, <2>5 DEF Tree, Forest
<1>8. Tails(e, h)
  <2> SUFFICES ASSUME NEW u \in h.in
      PROVE /\ e.var[u].type \in {"null", "plain", "owned"} => e.var[u].head = NullSlot
            /\ e.var[u].type \notin Collection => e.var[u].tail = NullSlot
            /\ e.var[u].tail # NullSlot =>
                 /\ e.var[u].head # NullSlot
                 /\ e.var[u].tail \in h.in \ h.roots /\ h.own[e.var[u].tail] = u
                 /\ e.var[e.var[u].tail].next = NullSlot
            /\ e.var[u].type \in Collection /\ e.var[u].head # NullSlot => e.var[u].tail # NullSlot
    BY DEF Tails
  <2>1. CASE u = v
    BY <1>3, <2>1 DEF Collection
  <2>2. CASE u # v
    <3>1. e.var[u] = d.var[u] /\ u \in g.in
      BY <1>2, <1>5, <2>2
    <3>2. d.var[u].tail # NullSlot =>
            /\ d.var[u].tail \in g.in \ g.roots /\ g.own[d.var[u].tail] = u
            /\ e.var[d.var[u].tail].next = d.var[d.var[u].tail].next
      BY <1>5, <3>1 DEF Tails
    <3>3. d.var[u].tail # NullSlot =>
            d.var[u].tail \in h.in \ h.roots /\ h.own[d.var[u].tail] = u
      BY <1>1, <1>2, <3>2
    <3> QED
      BY <3>1, <3>2, <3>3 DEF Tails
  <2> QED
    BY <2>1, <2>2
<1>9. Alternating(e, h)
  <2>1. \A u \in g.in : h.role[u] = g.role[u]
    BY <1>1, <1>2
  <2>2. \A u \in g.in : d.var[u].head # NullSlot => d.var[u].head \in g.in
    BY DEF Tree, Forest, Linked
  <2>3. \A u \in g.in : d.var[u].next # NullSlot => d.var[u].next \in g.in
    BY DEF Tree, Forest, Linked
  <2>4. \A u \in g.in : e.var[u].next = d.var[u].next
    BY <1>5
  <2> SUFFICES ASSUME NEW u \in h.in
      PROVE /\ e.var[u].head # NullSlot =>
                 h.role[e.var[u].head] = IF e.var[u].type = "object" THEN "key" ELSE "element"
            /\ h.role[u] = "key" => e.var[u].next # NullSlot /\ h.role[e.var[u].next] = "value"
            /\ h.role[u] # "key" /\ e.var[u].next # NullSlot =>
                 h.role[e.var[u].next] = IF h.role[u] = "value" THEN "key" ELSE "element"
    BY DEF Alternating
  <2>5. e.var[u].head # NullSlot =>
                 h.role[e.var[u].head] = IF e.var[u].type = "object" THEN "key" ELSE "element"
    BY <1>2, <1>5, <2>1, <2>2 DEF Alternating
  <2> QED
    BY <1>2, <2>1, <2>3, <2>4, <2>5 DEF Alternating
<1>10. PoolsOK(e) /\ Accounted(e, h)
  <2>1. PoolsOK(e) /\ Given(e) = Given(d)
    BY MemoryKept
  <2> QED
    BY <1>2, <2>1 DEF Accounted, SameMemory
<1>11. Counted(e, h)
  <2>1. \A s : Owners(e, h.in, s) = Owners(d, g.in, s)
    BY <1>2, <1>5 DEF Owners
  <2> QED
    BY <2>1 DEF Counted
<1> QED
  BY <1>7, <1>8, <1>9, <1>10, <1>11 DEF h

-----------------------------------------------------------------------------
(***************************************************************************)
(* Collections grow at their end, and shrink anywhere                      *)
(***************************************************************************)

\* What follows a value: in an object a key has a value, and a value the next key.
Follows(role) == CASE role = "key" -> "value" [] role = "value" -> "key" [] OTHER -> "element"

LEMMA AlternatingIs ==
  ASSUME NEW d, NEW g \in Places, g.in \subseteq Nodes
  PROVE  Alternating(d, g) <=>
           \A u \in g.in :
             /\ d.var[u].head # NullSlot =>
                  g.role[d.var[u].head] = IF d.var[u].type = "object" THEN "key" ELSE "element"
             /\ d.var[u].next # NullSlot => g.role[d.var[u].next] = Follows(g.role[u])
             /\ g.role[u] = "key" => d.var[u].next # NullSlot
<1>1. \A u \in g.in : g.role[u] \in {"element", "key", "value"}
  BY DEF Places
<1> QED
  BY <1>1 DEF Alternating, Follows

\* The last slot of a collection.
LEMMA TailIs ==
  ASSUME NEW d, NEW g, Good(d, g), NEW c \in g.in, d.var[c].tail # NullSlot
  PROVE  /\ d.var[c].tail \in g.in \ g.roots /\ g.own[d.var[c].tail] = c
         /\ d.var[d.var[c].tail].next = NullSlot /\ d.var[c].head # NullSlot
         /\ Follows(g.role[d.var[c].tail]) = IF d.var[c].type = "object" THEN "key" ELSE "element"
<1>1. /\ d.var[c].tail \in g.in \ g.roots /\ g.own[d.var[c].tail] = c
      /\ d.var[d.var[c].tail].next = NullSlot /\ d.var[c].head # NullSlot
  BY DEF Good, Tails
<1>2. PICK i \in 1..Len(Kids(d, c)) : Kids(d, c)[i] = d.var[c].tail
  BY <1>1, KidsInTree DEF Good
<1>3. g.role[d.var[c].tail] = IF d.var[c].type # "object" THEN "element"
                              ELSE IF i % 2 = 1 THEN "key" ELSE "value"
  BY <1>2, KidsAlternate DEF Good
<1>4. g.role[d.var[c].tail] # "key"
  BY <1>1 DEF Good, Alternating
<1> QED
  BY <1>1, <1>3, <1>4 DEF Follows

\* An element, or a key and its value, at the end of a collection.
LEMMA Appended ==
  ASSUME NEW d, NEW g, Good(d, g), NEW c \in g.in, d.var[c].type \in Collection,
         NEW first \in g.roots \ {Root}, NEW last \in g.roots \ {Root},
         d.var[c].type = "object" <=> first # last,
         NEW p, p = IF d.var[c].tail = NullSlot THEN c ELSE d.var[c].tail,
         g.rank[c] < g.rank[first], g.rank[p] < g.rank[first],
         first # last => g.rank[first] < g.rank[last],
         NEW h \in Places, h.in = g.in, \A u : u \in h.roots <=> u \in g.roots \ {first, last},
         h.rank = g.rank, h.top = g.top, h.own[first] = c, h.own[last] = c, h.up[first] = p,
         first # last => h.up[last] = first /\ h.role[first] = "key" /\ h.role[last] = "value",
         first = last => h.role[first] = "element",
         \A w \in Nodes \ {first, last} :
           h.own[w] = g.own[w] /\ h.up[w] = g.up[w] /\ h.role[w] = g.role[w],
         NEW e \in Documents, SameMemory(d, e), e.free = d.free, e.refs = d.refs,
         \A u \in Nodes : /\ e.var[u].type = d.var[u].type /\ e.var[u].str = d.var[u].str
                          /\ e.var[u].tail = IF u = c THEN last ELSE d.var[u].tail
                          /\ e.var[u].head = IF u = c /\ p = c THEN first ELSE d.var[u].head
                          /\ e.var[u].next = IF u = p /\ p # c THEN first
                                             ELSE IF u = first /\ first # last THEN last
                                             ELSE d.var[u].next
  PROVE  Good(e, h)
<1>1. /\ Tree(d, g) /\ Tails(d, g) /\ Alternating(d, g) /\ PoolsOK(d) /\ Accounted(d, g) /\ Counted(d, g)
      /\ d \in Documents /\ g \in Places /\ g.in \subseteq Nodes
      /\ g.in \ g.roots \subseteq Slots /\ g.roots \subseteq g.in
      /\ Root \in g.roots /\ c \in Nodes /\ first \in Slots /\ last \in Slots
      /\ NullSlot \notin g.in
      /\ \A u \in Nodes : g.rank[u] \in Nat
  BY TreeFacts, Sizes DEF Good
<1>2. /\ first \in g.in /\ last \in g.in /\ first \in Nodes /\ last \in Nodes
      /\ first # NullSlot /\ last # NullSlot
      /\ d.var[first].next = NullSlot /\ d.var[last].next = NullSlot
  BY <1>1, Sizes DEF Tree, Forest
<1>3. /\ p \in g.in /\ p \in Nodes /\ g.rank[c] < g.rank[last] /\ g.rank[p] < g.rank[last]
      /\ p # first /\ p # last /\ c # first /\ c # last
  <2>1. p \in g.in
    BY TailIs
  <2>2. p \in Nodes /\ g.rank[p] \in Nat /\ g.rank[c] \in Nat /\ g.rank[first] \in Nat /\ g.rank[last] \in Nat
    BY <1>1, <1>2, <2>1
  <2> QED
    BY <2>1, <2>2
<1>4. p # c => /\ p = d.var[c].tail /\ p \notin g.roots /\ g.own[p] = c /\ d.var[p].next = NullSlot
               /\ d.var[c].head # NullSlot
               /\ Follows(g.role[p]) = IF d.var[c].type = "object" THEN "key" ELSE "element"
  BY TailIs
<1>5. p = c => d.var[c].tail = NullSlot /\ d.var[c].head = NullSlot
  <2>1. ASSUME d.var[c].tail # NullSlot PROVE p # c
    <3>1. d.var[c].tail \in g.in \ g.roots /\ g.own[d.var[c].tail] = c
      BY <2>1, TailIs
    <3>2. g.rank[c] < g.rank[d.var[c].tail]
      BY <1>1, <3>1 DEF Tree, Forest
    <3>3. g.rank[c] \in Nat
      BY <1>1
    <3>4. d.var[c].tail # c
      BY <3>2, <3>3
    <3> QED
      BY <2>1, <3>4
  <2> QED
    BY <1>1, <2>1 DEF Tails
<1>6. ASSUME NEW u \in g.in
      PROVE  /\ d.var[u].head \notin g.roots /\ d.var[u].next \notin g.roots
             /\ d.var[u].head # NullSlot => d.var[u].head \in g.in
             /\ d.var[u].next # NullSlot => d.var[u].next \in g.in
             /\ Links(d, u) \subseteq Links(e, u)
  <2>1. /\ d.var[u].head # NullSlot => d.var[u].head \in g.in \ g.roots
        /\ d.var[u].next # NullSlot => d.var[u].next \in g.in \ g.roots
    BY <1>1 DEF Tree, Forest, Linked
  <2>2. NullSlot \notin g.roots
    BY <1>1
  <2>3. Links(d, u) \subseteq Links(e, u)
    <3>1. u \in Nodes
      BY <1>1
    <3>2. e.var[u].head = d.var[u].head \/ d.var[u].head = NullSlot
      BY <1>5, <3>1
    <3>3. e.var[u].next = d.var[u].next \/ d.var[u].next = NullSlot
      BY <1>2, <1>4, <3>1
    <3> QED
      BY <3>2, <3>3 DEF Links
  <2> QED
    BY <2>1, <2>2, <2>3
<1>7. ASSUME NEW u \in g.in, NEW w, NEW x, Linked(g, u, w, x) PROVE Linked(h, u, w, x)
  BY <1>1, <1>7 DEF Linked
<1>8. ASSUME NEW u \in g.in
      PROVE  /\ u \notin {first, last} => h.own[u] = g.own[u] /\ h.up[u] = g.up[u] /\ h.role[u] = g.role[u]
             /\ u \in Nodes
  BY <1>1
<1>9. Linked(h, p, first, c) /\ (first # last => Linked(h, first, last, c))
  BY <1>2 DEF Linked
<1>10. \A u : u \in h.in \ h.roots <=> (u \in g.in \ g.roots \/ u = first \/ u = last)
  BY <1>1, <1>2
<1>11. Tree(e, h)
  <2>1. ASSUME NEW u \in h.in
        PROVE  /\ h.rank[u] < h.top
               /\ e.var[u].head # NullSlot =>
                    Linked(h, u, e.var[u].head, u) /\ e.var[u].head # e.var[u].next
               /\ e.var[u].next # NullSlot => Linked(h, u, e.var[u].next, h.own[u])
    <3>1. /\ g.rank[u] < g.top
          /\ d.var[u].head # NullSlot =>
               Linked(h, u, d.var[u].head, u) /\ d.var[u].head # d.var[u].next
          /\ d.var[u].next # NullSlot => Linked(h, u, d.var[u].next, g.own[u])
      BY <1>1, <1>7 DEF Tree, Forest
    <3>2. d.var[u].head \notin {first, last} /\ d.var[u].next \notin {first, last}
      BY <1>6
    <3>3. u \in Nodes
      BY <1>1
    <3>4. e.var[u].head # NullSlot =>
             Linked(h, u, e.var[u].head, u) /\ e.var[u].head # e.var[u].next
      <4>1. CASE u = c /\ p = c
        <5>1. e.var[u].head = first /\ e.var[u].next = d.var[u].next
          BY <1>3, <3>3, <4>1
        <5> QED
          BY <1>9, <3>2, <4>1, <5>1
      <4>2. CASE ~ (u = c /\ p = c)
        <5>1. e.var[u].head = d.var[u].head /\ e.var[u].next \in {first, last, d.var[u].next}
          BY <3>3, <4>2
        <5> QED
          BY <3>1, <3>2, <5>1
      <4> QED
        BY <4>1, <4>2
    <3>5. e.var[u].next # NullSlot => Linked(h, u, e.var[u].next, h.own[u])
      <4>1. CASE u = p /\ p # c
        <5>1. e.var[u].next = first /\ h.own[u] = c
          BY <1>3, <1>4, <1>8, <3>3, <4>1
        <5> QED
          BY <1>9, <4>1, <5>1
      <4>2. CASE u = first /\ first # last
        BY <1>2, <1>3, <1>9, <4>2
      <4>3. CASE ~ (u = p /\ p # c) /\ ~ (u = first /\ first # last)
        <5>1. e.var[u].next = d.var[u].next
          BY <3>3, <4>3
        <5>2. d.var[u].next # NullSlot => h.own[u] = g.own[u]
          BY <1>2, <1>8
        <5> QED
          BY <3>1, <5>1, <5>2
      <4> QED
        BY <4>1, <4>2, <4>3
    <3> QED
      BY <3>1, <3>4, <3>5
  <2>2. ASSUME NEW w \in h.in \ h.roots
        PROVE  /\ h.up[w] \in h.in /\ w \in Links(e, h.up[w])
               /\ h.own[w] \in h.in /\ h.rank[h.own[w]] < h.rank[w]
    <3>1. CASE w = first
      <4>1. e.var[p].head = first \/ e.var[p].next = first
        BY <1>3
      <4> QED
        BY <1>2, <1>3, <3>1, <4>1 DEF Links
    <3>2. CASE w = last /\ first # last
      <4>1. e.var[first].next = last
        BY <1>2, <1>3, <3>2
      <4> QED
        BY <1>2, <1>3, <3>2, <4>1 DEF Links
    <3>3. CASE w \notin {first, last}
      <4>1. w \in g.in \ g.roots /\ h.up[w] = g.up[w] /\ h.own[w] = g.own[w]
        BY <1>8, <1>10, <3>3
      <4>2. g.up[w] \in g.in /\ w \in Links(d, g.up[w]) /\ g.own[w] \in g.in
            /\ g.rank[g.own[w]] < g.rank[w]
        BY <1>1, <4>1 DEF Tree, Forest
      <4> QED
        BY <1>6, <4>1, <4>2
    <3> QED
      BY <3>1, <3>2, <3>3
  <2>3. \A x \in h.roots : e.var[x].next = NullSlot
    <3> SUFFICES ASSUME NEW x \in h.roots PROVE e.var[x].next = NullSlot
      OBVIOUS
    <3>1. x \in g.roots /\ x # first /\ x # last /\ x \in Nodes /\ d.var[x].next = NullSlot
      BY <1>1 DEF Tree, Forest
    <3>2. ~ (x = p /\ p # c)
      BY <1>4, <3>1
    <3> QED
      BY <3>1, <3>2
  <2>4. Root \in h.roots /\ h.roots \subseteq h.in
    BY <1>1
  <2> QED
    BY <2>1, <2>2, <2>3, <2>4 DEF Tree, Forest
<1>12. Tails(e, h)
  <2> SUFFICES ASSUME NEW u \in h.in
      PROVE /\ e.var[u].type \in {"null", "plain", "owned"} => e.var[u].head = NullSlot
            /\ e.var[u].type \notin Collection => e.var[u].tail = NullSlot
            /\ e.var[u].tail # NullSlot =>
                 /\ e.var[u].head # NullSlot
                 /\ e.var[u].tail \in h.in \ h.roots /\ h.own[e.var[u].tail] = u
                 /\ e.var[e.var[u].tail].next = NullSlot
            /\ e.var[u].type \in Collection /\ e.var[u].head # NullSlot => e.var[u].tail # NullSlot
    BY DEF Tails
  <2>1. CASE u = c
    <3>1. e.var[u].tail = last /\ e.var[u].type = d.var[u].type
      BY <1>1, <2>1
    <3>2. e.var[u].head # NullSlot
      BY <1>1, <1>2, <1>4, <2>1
    <3>3. e.var[last].next = NullSlot
      BY <1>2, <1>3
    <3> QED
      BY <1>2, <1>10, <2>1, <3>1, <3>2, <3>3 DEF Collection
  <2>2. CASE u # c
    <3>1. /\ u \in g.in /\ e.var[u].type = d.var[u].type /\ e.var[u].tail = d.var[u].tail
          /\ e.var[u].head = d.var[u].head
      BY <1>1, <2>2
    <3>2. d.var[u].tail # NullSlot =>
            /\ d.var[u].tail \in g.in \ g.roots /\ g.own[d.var[u].tail] = u
            /\ d.var[d.var[u].tail].next = NullSlot
      BY <1>1, <3>1 DEF Tails
    <3>3. d.var[u].tail # NullSlot =>
            /\ d.var[u].tail \in h.in \ h.roots /\ h.own[d.var[u].tail] = u
            /\ e.var[d.var[u].tail].next = NullSlot
      <4> SUFFICES ASSUME d.var[u].tail # NullSlot
                   PROVE  /\ d.var[u].tail \in h.in \ h.roots /\ h.own[d.var[u].tail] = u
                          /\ e.var[d.var[u].tail].next = NullSlot
        OBVIOUS
      <4> DEFINE t == d.var[u].tail
      <4>1. t \in g.in \ g.roots /\ g.own[t] = u /\ d.var[t].next = NullSlot
        BY <3>2
      <4> HIDE DEF t
      <4>2. t \notin {first, last} /\ t \in Nodes /\ ~ (t = p /\ p # c)
        BY <1>1, <1>4, <2>2, <4>1
      <4>3. h.own[t] = u /\ e.var[t].next = NullSlot /\ t \in h.in \ h.roots
        BY <1>10, <4>1, <4>2
      <4> QED
        BY <4>3 DEF t
    <3> QED
      BY <1>1, <3>1, <3>3 DEF Tails
  <2> QED
    BY <2>1, <2>2
<1>13. Alternating(e, h)
  <2>1. h.in \subseteq Nodes
    BY <1>1
  <2> SUFFICES ASSUME NEW u \in g.in
      PROVE  /\ e.var[u].head # NullSlot =>
                  h.role[e.var[u].head] = IF e.var[u].type = "object" THEN "key" ELSE "element"
             /\ e.var[u].next # NullSlot => h.role[e.var[u].next] = Follows(h.role[u])
             /\ h.role[u] = "key" => e.var[u].next # NullSlot
    BY <2>1, AlternatingIs
  <2>2. /\ d.var[u].head # NullSlot =>
             g.role[d.var[u].head] = IF d.var[u].type = "object" THEN "key" ELSE "element"
        /\ d.var[u].next # NullSlot => g.role[d.var[u].next] = Follows(g.role[u])
        /\ g.role[u] = "key" => d.var[u].next # NullSlot
    BY <1>1, AlternatingIs
  <2>3. /\ d.var[u].head # NullSlot => h.role[d.var[u].head] = g.role[d.var[u].head]
        /\ d.var[u].next # NullSlot => h.role[d.var[u].next] = g.role[d.var[u].next]
    BY <1>6, <1>8
  <2>4. u \in Nodes /\ e.var[u].type = d.var[u].type
    BY <1>1
  <2>5. h.role[first] = IF d.var[c].type = "object" THEN "key" ELSE "element"
    BY <1>1
  <2>6. e.var[u].head # NullSlot =>
          h.role[e.var[u].head] = IF e.var[u].type = "object" THEN "key" ELSE "element"
    BY <2>2, <2>3, <2>4, <2>5
  <2>7. CASE u = p /\ p # c
    <3>1. e.var[u].next = first /\ h.role[u] = g.role[u]
      BY <1>3, <1>8, <2>4, <2>7
    <3>2. h.role[first] = Follows(h.role[u])
      BY <1>4, <2>5, <2>7, <3>1
    <3> QED
      BY <1>2, <2>6, <3>1, <3>2
  <2>8. CASE u = first /\ first # last
    <3>1. e.var[u].next = last /\ h.role[u] = "key" /\ h.role[last] = "value"
      BY <1>3, <2>4, <2>8
    <3> QED
      BY <1>2, <2>6, <3>1 DEF Follows
  <2>9. CASE u = last
    <3>1. h.role[u] # "key"
      BY <2>9
    <3>2. first # last => u # first
      BY <2>9
    <3>3. e.var[u].next = NullSlot
      BY <1>2, <1>3, <2>4, <2>9, <3>2
    <3> QED
      BY <2>6, <3>1, <3>3
  <2>10. CASE ~ (u = p /\ p # c) /\ u # first /\ u # last
    <3>1. e.var[u].next = d.var[u].next /\ h.role[u] = g.role[u]
      BY <1>8, <2>4, <2>10
    <3> QED
      BY <2>2, <2>3, <2>6, <3>1
  <2> QED
    BY <2>7, <2>8, <2>9, <2>10
<1>14. PoolsOK(e) /\ Accounted(e, h)
  <2>1. PoolsOK(e) /\ Given(e) = Given(d)
    BY <1>1, MemoryKept
  <2> QED
    BY <1>1, <2>1 DEF Accounted, SameMemory
<1>15. Counted(e, h)
  <2>1. \A s : Owners(e, h.in, s) = Owners(d, g.in, s)
    BY <1>1 DEF Owners
  <2> QED
    BY <1>1, <2>1 DEF Counted
<1> QED
  BY <1>11, <1>12, <1>13, <1>14, <1>15 DEF Good

\* Only links differ.
Rewired(d, e) ==
  /\ e \in Documents /\ SameMemory(d, e) /\ e.free = d.free /\ e.refs = d.refs
  /\ \A u \in Nodes : e.var[u].type = d.var[u].type /\ e.var[u].str = d.var[u].str

LEMMA VarReplaced ==
  ASSUME NEW d \in Documents, NEW v \in Nodes, NEW x \in Variants
  PROVE  LET e == [d EXCEPT !.var = [d.var EXCEPT ![v] = x]] IN
         /\ e \in Documents /\ SameMemory(d, e) /\ e.free = d.free /\ e.refs = d.refs
         /\ e.var[v] = x /\ \A u \in Nodes \ {v} : e.var[u] = d.var[u]
<1> DEFINE var == [d.var EXCEPT ![v] = x]
<1>1. /\ var \in [Nodes -> Variants] /\ var[v] = x
      /\ \A u \in Nodes \ {v} : var[u] = d.var[u]
  BY DEF Documents
<1> HIDE DEF var
<1>2. [d EXCEPT !.var = var] \in Documents /\ SameMemory(d, [d EXCEPT !.var = var])
  BY <1>1 DEF Documents, SameMemory
<1>3. [d EXCEPT !.var = var].var = var
  BY DEF Documents
<1> QED
  BY <1>1, <1>2, <1>3 DEF var

LEMMA HeadSet ==
  ASSUME NEW d \in Documents, NEW v \in Nodes, NEW x \in 0..NullSlot
  PROVE  LET e == [d EXCEPT !.var[v].head = x] IN
         /\ Rewired(d, e)
         /\ \A u \in Nodes : /\ e.var[u].head = IF u = v THEN x ELSE d.var[u].head
                             /\ e.var[u].tail = d.var[u].tail /\ e.var[u].next = d.var[u].next
<1> DEFINE y == [d.var[v] EXCEPT !.head = x]
<1>1. /\ y \in Variants /\ y.head = x /\ y.tail = d.var[v].tail /\ y.next = d.var[v].next
      /\ y.type = d.var[v].type /\ y.str = d.var[v].str
  BY DEF Documents, Variants
<1>2. [d EXCEPT !.var[v].head = x] = [d EXCEPT !.var = [d.var EXCEPT ![v] = y]]
  OBVIOUS
<1> DEFINE e == [d EXCEPT !.var = [d.var EXCEPT ![v] = y]]
<1> HIDE DEF y
<1>3. /\ e \in Documents /\ SameMemory(d, e) /\ e.free = d.free /\ e.refs = d.refs
      /\ e.var[v] = y /\ \A u \in Nodes \ {v} : e.var[u] = d.var[u]
  BY <1>1, VarReplaced
<1> HIDE DEF e
<1>4. /\ Rewired(d, e)
      /\ \A u \in Nodes : /\ e.var[u].head = IF u = v THEN x ELSE d.var[u].head
                          /\ e.var[u].tail = d.var[u].tail /\ e.var[u].next = d.var[u].next
  BY <1>1, <1>3 DEF Rewired
<1> QED
  BY <1>2, <1>4 DEF e

LEMMA TailSet ==
  ASSUME NEW d \in Documents, NEW v \in Nodes, NEW x \in 0..NullSlot
  PROVE  LET e == [d EXCEPT !.var[v].tail = x] IN
         /\ Rewired(d, e)
         /\ \A u \in Nodes : /\ e.var[u].tail = IF u = v THEN x ELSE d.var[u].tail
                             /\ e.var[u].head = d.var[u].head /\ e.var[u].next = d.var[u].next
<1> DEFINE y == [d.var[v] EXCEPT !.tail = x]
<1>1. /\ y \in Variants /\ y.tail = x /\ y.head = d.var[v].head /\ y.next = d.var[v].next
      /\ y.type = d.var[v].type /\ y.str = d.var[v].str
  BY DEF Documents, Variants
<1>2. [d EXCEPT !.var[v].tail = x] = [d EXCEPT !.var = [d.var EXCEPT ![v] = y]]
  OBVIOUS
<1> DEFINE e == [d EXCEPT !.var = [d.var EXCEPT ![v] = y]]
<1> HIDE DEF y
<1>3. /\ e \in Documents /\ SameMemory(d, e) /\ e.free = d.free /\ e.refs = d.refs
      /\ e.var[v] = y /\ \A u \in Nodes \ {v} : e.var[u] = d.var[u]
  BY <1>1, VarReplaced
<1> HIDE DEF e
<1>4. /\ Rewired(d, e)
      /\ \A u \in Nodes : /\ e.var[u].tail = IF u = v THEN x ELSE d.var[u].tail
                          /\ e.var[u].head = d.var[u].head /\ e.var[u].next = d.var[u].next
  BY <1>1, <1>3 DEF Rewired
<1> QED
  BY <1>2, <1>4 DEF e

LEMMA NextSet ==
  ASSUME NEW d \in Documents, NEW v \in Nodes, NEW x \in 0..NullSlot
  PROVE  LET e == [d EXCEPT !.var[v].next = x] IN
         /\ Rewired(d, e)
         /\ \A u \in Nodes : /\ e.var[u].next = IF u = v THEN x ELSE d.var[u].next
                             /\ e.var[u].head = d.var[u].head /\ e.var[u].tail = d.var[u].tail
<1> DEFINE y == [d.var[v] EXCEPT !.next = x]
<1>1. /\ y \in Variants /\ y.next = x /\ y.head = d.var[v].head /\ y.tail = d.var[v].tail
      /\ y.type = d.var[v].type /\ y.str = d.var[v].str
  BY DEF Documents, Variants
<1>2. [d EXCEPT !.var[v].next = x] = [d EXCEPT !.var = [d.var EXCEPT ![v] = y]]
  OBVIOUS
<1> DEFINE e == [d EXCEPT !.var = [d.var EXCEPT ![v] = y]]
<1> HIDE DEF y
<1>3. /\ e \in Documents /\ SameMemory(d, e) /\ e.free = d.free /\ e.refs = d.refs
      /\ e.var[v] = y /\ \A u \in Nodes \ {v} : e.var[u] = d.var[u]
  BY <1>1, VarReplaced
<1> HIDE DEF e
<1>4. /\ Rewired(d, e)
      /\ \A u \in Nodes : /\ e.var[u].next = IF u = v THEN x ELSE d.var[u].next
                          /\ e.var[u].head = d.var[u].head /\ e.var[u].tail = d.var[u].tail
  BY <1>1, <1>3 DEF Rewired
<1> QED
  BY <1>2, <1>4 DEF e

LEMMA AppendFields ==
  ASSUME NEW d \in Documents, NEW c \in Nodes, NEW first \in Slots, NEW last \in Slots
  PROVE  LET e == Append1(d, c, first, last)
             t == d.var[c].tail IN
         /\ Rewired(d, e)
         /\ \A u \in Nodes :
              /\ e.var[u].tail = IF u = c THEN last ELSE d.var[u].tail
              /\ e.var[u].head = IF u = c /\ t = NullSlot THEN first ELSE d.var[u].head
              /\ e.var[u].next = IF u = t THEN first ELSE d.var[u].next
<1> DEFINE t == d.var[c].tail
           m == IF t = NullSlot THEN [d EXCEPT !.var[c].head = first]
                ELSE [d EXCEPT !.var[t].next = first]
           e == [m EXCEPT !.var[c].tail = last]
<1>1. e = Append1(d, c, first, last) /\ NullSlot \notin Nodes /\ first \in 0..NullSlot /\ last \in 0..NullSlot
  BY Sizes DEF Append1
<1>2. /\ Rewired(d, m)
      /\ \A u \in Nodes :
           /\ m.var[u].tail = d.var[u].tail
           /\ m.var[u].head = IF u = c /\ t = NullSlot THEN first ELSE d.var[u].head
           /\ m.var[u].next = IF u = t THEN first ELSE d.var[u].next
  <2>1. CASE t = NullSlot
    <3>1. m = [d EXCEPT !.var[c].head = first]
      BY <2>1
    <3>2. \A u \in Nodes : u # t
      BY <1>1, <2>1
    <3> HIDE DEF m, t
    <3> QED
      BY <1>1, <2>1, <3>1, <3>2, HeadSet
  <2>2. CASE t # NullSlot
    <3>1. m = [d EXCEPT !.var[t].next = first] /\ t \in Nodes
      BY <2>2, VarType, Sizes
    <3> HIDE DEF m, t
    <3> QED
      BY <1>1, <2>2, <3>1, NextSet
  <2> QED
    BY <2>1, <2>2
<1>3. m \in Documents
  BY <1>2 DEF Rewired
<1> HIDE DEF m
<1>4. /\ Rewired(m, e)
      /\ \A u \in Nodes : /\ e.var[u].tail = IF u = c THEN last ELSE m.var[u].tail
                          /\ e.var[u].head = m.var[u].head /\ e.var[u].next = m.var[u].next
  BY <1>1, <1>3, TailSet
<1> HIDE DEF e, t
<1>5. Rewired(d, e)
  BY <1>2, <1>4 DEF Rewired, SameMemory
<1> QED
  BY <1>1, <1>2, <1>4, <1>5 DEF t

LEMMA ElementAppended ==
  ASSUME NEW d, NEW g, Good(d, g), NEW c \in g.in, d.var[c].type = "array",
         NEW id \in g.roots \ {Root}, g.rank[c] < g.rank[id],
         d.var[c].tail # NullSlot => g.rank[d.var[c].tail] < g.rank[id]
  PROVE  /\ Rewired(d, AppendOne(d, c, id))
         /\ \E h : /\ Good(AppendOne(d, c, id), h)
                   /\ h.in = g.in /\ h.rank = g.rank /\ h.top = g.top
                   /\ \A u : u \in h.roots <=> u \in g.roots \ {id}
<1> DEFINE e == AppendOne(d, c, id)
           t == d.var[c].tail
           p == IF t = NullSlot THEN c ELSE t
           h == Hung(g, id, c, p, "element")
<1>1. /\ d \in Documents /\ g \in Places /\ c \in Nodes /\ id \in Slots /\ id \in Nodes
      /\ Root \notin Slots
  BY TreeFacts, Sizes DEF Good
<1>2. p \in Nodes /\ (p = c <=> t = NullSlot) /\ g.rank[p] < g.rank[id]
  <2>1. CASE t = NullSlot
    BY <1>1, <2>1
  <2>2. CASE t # NullSlot
    <3>1. t \in g.in \ g.roots /\ g.own[t] = c
      BY <2>2, TailIs
    <3>2. g.rank[c] < g.rank[t] /\ t \in Nodes
      BY <3>1, TreeFacts DEF Good, Tree, Forest
    <3>3. g.rank[c] \in Nat
      BY <1>1, TreeFacts DEF Good
    <3>4. t # c
      BY <3>2, <3>3
    <3> QED
      BY <2>2, <3>2, <3>4
  <2> QED
    BY <2>1, <2>2
<1>3. /\ Rewired(d, e)
      /\ \A u \in Nodes :
           /\ e.var[u].tail = IF u = c THEN id ELSE d.var[u].tail
           /\ e.var[u].head = IF u = c /\ t = NullSlot THEN id ELSE d.var[u].head
           /\ e.var[u].next = IF u = t THEN id ELSE d.var[u].next
  BY <1>1, AppendFields DEF AppendOne
<1>4. "element" \in {"element", "key", "value"}
  OBVIOUS
<1>5. /\ h \in Places /\ h.in = g.in /\ h.rank = g.rank /\ h.top = g.top
      /\ h.own[id] = c /\ h.up[id] = p /\ h.role[id] = "element"
      /\ \A w \in Nodes \ {id} : h.own[w] = g.own[w] /\ h.up[w] = g.up[w] /\ h.role[w] = g.role[w]
  <2> HIDE DEF p
  <2> QED
    BY <1>1, <1>2, <1>4, HungFields
<1>6. \A u : u \in h.roots <=> u \in g.roots \ {id}
  BY <1>1 DEF Hung, Places
<1>7. p = IF d.var[c].tail = NullSlot THEN c ELSE d.var[c].tail
  OBVIOUS
<1> HIDE DEF h, e, p
<1>8. \A u \in Nodes :
        /\ e.var[u].type = d.var[u].type /\ e.var[u].str = d.var[u].str
        /\ e.var[u].tail = IF u = c THEN id ELSE d.var[u].tail
        /\ e.var[u].head = IF u = c /\ p = c THEN id ELSE d.var[u].head
        /\ e.var[u].next = IF u = p /\ p # c THEN id
                           ELSE IF u = id /\ id # id THEN id ELSE d.var[u].next
  <2>1. \A u \in Nodes : u = t <=> u = p /\ p # c
    BY <1>2, <1>7, Sizes
  <2> QED
    BY <1>2, <1>3, <2>1 DEF Rewired
<1>9. /\ d.var[c].type \in Collection /\ (d.var[c].type = "object" <=> id # id)
      /\ \A u : u \in h.roots <=> u \in g.roots \ {id, id}
      /\ \A w \in Nodes \ {id, id} : h.own[w] = g.own[w] /\ h.up[w] = g.up[w] /\ h.role[w] = g.role[w]
  BY <1>5, <1>6 DEF Collection
<1>10. e \in Documents /\ SameMemory(d, e) /\ e.free = d.free /\ e.refs = d.refs
  BY <1>3 DEF Rewired
<1>11. Good(e, h)
  BY <1>2, <1>5, <1>7, <1>8, <1>9, <1>10, Appended
<1> QED
  BY <1>3, <1>5, <1>6, <1>11 DEF e

LEMMA MemberAppended ==
  ASSUME NEW d, NEW g, Good(d, g), NEW c \in g.in, d.var[c].type = "object",
         NEW key \in g.roots \ {Root}, NEW value \in g.roots \ {Root},
         g.rank[c] < g.rank[key], g.rank[key] < g.rank[value],
         d.var[c].tail # NullSlot => g.rank[d.var[c].tail] < g.rank[key]
  PROVE  /\ Rewired(d, AppendPair(d, c, key, value))
         /\ AppendPair(d, c, key, value).var[key].next = value
         /\ \E h : /\ Good(AppendPair(d, c, key, value), h)
                   /\ h.in = g.in /\ h.rank = g.rank /\ h.top = g.top
                   /\ \A u : u \in h.roots <=> u \in g.roots \ {key, value}
<1> DEFINE m == [d EXCEPT !.var[key].next = value]
           e == AppendPair(d, c, key, value)
           t == d.var[c].tail
           p == IF t = NullSlot THEN c ELSE t
           f == Hung(g, key, c, p, "key")
           h == Hung(f, value, c, key, "value")
<1>1. /\ d \in Documents /\ g \in Places /\ c \in Nodes /\ key \in Slots /\ key \in Nodes
      /\ value \in Slots /\ value \in Nodes /\ Root \notin Slots /\ value \in 0..NullSlot
      /\ g.rank[key] \in Nat /\ g.rank[value] \in Nat /\ g.rank[c] \in Nat
  BY TreeFacts, Sizes DEF Good
<1>2. p \in Nodes /\ (p = c <=> t = NullSlot) /\ g.rank[p] < g.rank[key] /\ g.rank[p] \in Nat
  <2>1. CASE t = NullSlot
    BY <1>1, <2>1
  <2>2. CASE t # NullSlot
    <3>1. t \in g.in \ g.roots /\ g.own[t] = c
      BY <2>2, TailIs
    <3>2. g.rank[c] < g.rank[t] /\ t \in Nodes /\ g.rank[t] \in Nat
      BY <3>1, TreeFacts DEF Good, Tree, Forest
    <3>4. t # c
      BY <1>1, <3>2
    <3> QED
      BY <2>2, <3>2, <3>4
  <2> QED
    BY <2>1, <2>2
<1>3. key # value /\ p # key /\ c # key
  BY <1>1, <1>2
<1>4. /\ Rewired(d, m)
      /\ \A u \in Nodes : /\ m.var[u].next = IF u = key THEN value ELSE d.var[u].next
                          /\ m.var[u].head = d.var[u].head /\ m.var[u].tail = d.var[u].tail
  BY <1>1, NextSet
<1>5. /\ e = Append1(m, c, key, value) /\ m \in Documents
  BY <1>4 DEF AppendPair, Rewired
<1> HIDE DEF m, e
<1>6. /\ Rewired(m, e)
      /\ \A u \in Nodes :
           /\ e.var[u].tail = IF u = c THEN value ELSE m.var[u].tail
           /\ e.var[u].head = IF u = c /\ t = NullSlot THEN key ELSE m.var[u].head
           /\ e.var[u].next = IF u = t THEN key ELSE m.var[u].next
  <2>1. m.var[c].tail = t
    BY <1>1, <1>4
  <2> HIDE DEF t
  <2> QED
    BY <1>1, <1>5, <2>1, AppendFields
<1>7. Rewired(d, e)
  BY <1>4, <1>6 DEF Rewired, SameMemory
<1>8. "key" \in {"element", "key", "value"} /\ "value" \in {"element", "key", "value"}
  OBVIOUS
<1>9. /\ f \in Places /\ f.in = g.in /\ f.rank = g.rank /\ f.top = g.top
      /\ f.own[key] = c /\ f.up[key] = p /\ f.role[key] = "key"
      /\ \A w \in Nodes \ {key} : f.own[w] = g.own[w] /\ f.up[w] = g.up[w] /\ f.role[w] = g.role[w]
  <2>1. g \in Places /\ key \in Nodes /\ c \in Nodes /\ p \in Nodes
    BY <1>1, <1>2
  <2>2. "key" \in {"element", "key", "value"}
    BY <1>8
  <2> HIDE DEF p
  <2>3. /\ f \in Places /\ f.in = g.in /\ f.rank = g.rank /\ f.top = g.top
        /\ f.own[key] = c /\ f.up[key] = p /\ f.role[key] = "key"
    BY <2>1, <2>2, HungFields
  <2>4. \A w \in Nodes \ {key} :
          f.own[w] = g.own[w] /\ f.up[w] = g.up[w] /\ f.role[w] = g.role[w]
    BY <2>1, <2>2, HungFields
  <2> QED
    BY <2>3, <2>4
<1>10. \A u : u \in f.roots <=> u \in g.roots \ {key}
  BY <1>1 DEF Hung, Places
<1> HIDE DEF f
<1>11. /\ h \in Places /\ h.in = f.in /\ h.rank = f.rank /\ h.top = f.top
       /\ h.own[value] = c /\ h.up[value] = key /\ h.role[value] = "value"
       /\ \A w \in Nodes \ {value} : h.own[w] = f.own[w] /\ h.up[w] = f.up[w] /\ h.role[w] = f.role[w]
  <2> HIDE DEF p
  <2> QED
    BY <1>1, <1>2, <1>8, <1>9, HungFields, SMTT(30)
<1>12. \A u : u \in h.roots <=> u \in f.roots \ {value}
  BY <1>9 DEF Hung, Places
<1>13. p = IF d.var[c].tail = NullSlot THEN c ELSE d.var[c].tail
  OBVIOUS
<1> HIDE DEF h, p
<1>14. \A u \in Nodes :
         /\ e.var[u].type = d.var[u].type /\ e.var[u].str = d.var[u].str
         /\ e.var[u].tail = IF u = c THEN value ELSE d.var[u].tail
         /\ e.var[u].head = IF u = c /\ p = c THEN key ELSE d.var[u].head
         /\ e.var[u].next = IF u = p /\ p # c THEN key
                            ELSE IF u = key /\ key # value THEN value ELSE d.var[u].next
  <2>1. \A u \in Nodes : u = t <=> u = p /\ p # c
    BY <1>2, <1>13, Sizes
  <2> QED
    BY <1>2, <1>3, <1>4, <1>6, <1>7, <2>1 DEF Rewired
<1>15. /\ h \in Places /\ h.in = g.in /\ h.rank = g.rank /\ h.top = g.top
       /\ \A u : u \in h.roots <=> u \in g.roots \ {key, value}
       /\ h.own[key] = c /\ h.own[value] = c /\ h.up[key] = p
       /\ h.up[value] = key /\ h.role[key] = "key" /\ h.role[value] = "value"
       /\ \A w \in Nodes \ {key, value} :
            h.own[w] = g.own[w] /\ h.up[w] = g.up[w] /\ h.role[w] = g.role[w]
  BY <1>1, <1>3, <1>9, <1>10, <1>11, <1>12
<1>16. d.var[c].type \in Collection /\ (d.var[c].type = "object" <=> key # value)
  BY <1>3 DEF Collection
<1>17. e \in Documents /\ SameMemory(d, e) /\ e.free = d.free /\ e.refs = d.refs
  BY <1>7 DEF Rewired
<1>18. Good(e, h)
  BY <1>2, <1>3, <1>13, <1>14, <1>15, <1>16, <1>17, Appended, SMTT(30)
<1>19. e.var[key].next = value
  BY <1>1, <1>3, <1>14
<1> QED
  BY <1>7, <1>15, <1>18, <1>19 DEF e

\* A value, or a key and its value, is cut out of the chain: e links p to what came next.
CutOut(d, g, first, last, e, h) ==
  LET next == d.var[last].next
      p == g.up[first] IN
  /\ first \in g.in \ g.roots /\ last \in g.in \ g.roots
  /\ last = first \/ last = d.var[first].next
  /\ d.var[first].head = NullSlot /\ d.var[last].head = NullSlot
  /\ e \in Documents
  /\ \A u \in g.in \ {first, last} :
       /\ e.var[u].head = IF u = p /\ d.var[p].head = first THEN next ELSE d.var[u].head
       /\ e.var[u].next = IF u = p /\ d.var[p].next = first THEN next ELSE d.var[u].next
  /\ h \in Places /\ h.in = g.in \ {first, last} /\ h.roots = g.roots
  /\ h.rank = g.rank /\ h.top = g.top /\ h.own = g.own /\ h.role = g.role
  /\ \A w \in Nodes : h.up[w] = IF w = next THEN p ELSE g.up[w]

LEMMA CutOutFacts ==
  ASSUME NEW d, NEW g, Tree(d, g), NEW first, NEW last, NEW e, NEW h,
         CutOut(d, g, first, last, e, h)
  PROVE  LET next == d.var[last].next
             p == g.up[first] IN
         /\ p \in g.in \ {first, last} /\ p \in Nodes /\ first \in Nodes /\ last \in Nodes
         /\ g.own[last] = g.own[first] /\ g.rank[p] < g.rank[last]
         /\ first # last => d.var[first].next = last
         /\ d.var[p].head = first \/ d.var[p].next = first
         /\ d.var[p].head = first => g.own[first] = p
         /\ d.var[p].next = first => g.own[first] = g.own[p] /\ p \notin g.roots
         /\ d.var[p].head # d.var[p].next
         /\ next # NullSlot =>
              /\ next \in g.in \ g.roots /\ next \notin {first, last} /\ g.up[next] = last
              /\ g.own[next] = g.own[first] /\ g.rank[last] < g.rank[next]
         /\ next = NullSlot \/ next \in Nodes
         /\ \A w \in g.in \ g.roots : g.own[w] \notin {first, last}
<1> DEFINE next == d.var[last].next
           p == g.up[first]
<1> USE TreeFacts
<1>1. /\ first \in g.in \ g.roots /\ last \in g.in \ g.roots
      /\ last = first \/ last = d.var[first].next
      /\ d.var[first].head = NullSlot /\ d.var[last].head = NullSlot
  BY DEF CutOut
<1>2. /\ p \in g.in /\ first \in Links(d, p) /\ first \in Slots /\ last \in Slots
      /\ p \in Nodes /\ first \in Nodes /\ last \in Nodes
      /\ first # NullSlot /\ last # NullSlot
      /\ g.rank[p] \in Nat /\ g.rank[first] \in Nat /\ g.rank[last] \in Nat
  BY <1>1, Sizes DEF Tree, Forest
<1>3. d.var[p].head = first \/ d.var[p].next = first
  BY <1>2 DEF Links
<1>4. g.rank[p] < g.rank[first]
  BY <1>2, <1>3 DEF Tree, Forest, Linked
<1>5. first # last =>
        d.var[first].next = last /\ g.rank[first] < g.rank[last] /\ g.own[last] = g.own[first]
  BY <1>1, <1>2 DEF Tree, Forest, Linked
<1>6. p # first /\ p # last /\ g.own[last] = g.own[first] /\ g.rank[p] < g.rank[last]
  BY <1>2, <1>4, <1>5
<1>7. /\ d.var[p].head = first => g.own[first] = p
      /\ d.var[p].next = first => g.own[first] = g.own[p] /\ p \notin g.roots
  BY <1>2 DEF Tree, Forest, Linked
<1>8. d.var[p].head # d.var[p].next
  <2>1. CASE d.var[p].head = NullSlot
    BY <1>2, <1>3, <2>1
  <2>2. CASE d.var[p].head # NullSlot
    BY <1>2, <2>2 DEF Tree, Forest
  <2> QED
    BY <2>1, <2>2
<1>9. next # NullSlot =>
        /\ next \in g.in \ g.roots /\ next \notin {first, last} /\ g.up[next] = last
        /\ g.own[next] = g.own[first] /\ g.rank[last] < g.rank[next]
  <2> SUFFICES ASSUME next # NullSlot
      PROVE  /\ next \in g.in \ g.roots /\ next \notin {first, last} /\ g.up[next] = last
             /\ g.own[next] = g.own[first] /\ g.rank[last] < g.rank[next]
    OBVIOUS
  <2>1. Linked(g, last, next, g.own[last])
    BY <1>1 DEF Tree, Forest
  <2> HIDE DEF next
  <2>2. next \in g.in \ g.roots /\ g.up[next] = last /\ g.rank[last] < g.rank[next] /\ g.own[next] = g.own[last]
    BY <2>1 DEF Linked
  <2>3. next # last
    BY <1>2, <2>2
  <2>4. next # first
    BY <1>2, <1>5, <2>2
  <2> QED
    BY <1>6, <2>2, <2>3, <2>4
<1>10. next = NullSlot \/ next \in Nodes
  BY <1>2, VarType, Sizes
<1>11. \A w \in g.in \ g.roots : g.own[w] \notin {first, last}
  <2>1. Below(d, first) = {} /\ Below(d, last) = {}
    BY <1>1, <1>2, NothingBelow
  <2>2. \A w \in g.in \ g.roots : g.own[w] # first
    BY <1>1, <2>1, BelowInTree
  <2>3. \A w \in g.in \ g.roots : g.own[w] # last
    BY <1>1, <2>1, BelowInTree
  <2> QED
    BY <2>2, <2>3
<1> QED
  BY <1>2, <1>3, <1>5, <1>6, <1>7, <1>8, <1>9, <1>10, <1>11

\* What remains is a tree.
LEMMA CutOutTree ==
  ASSUME NEW d, NEW g, Tree(d, g), NEW first, NEW last, NEW e, NEW h,
         CutOut(d, g, first, last, e, h)
  PROVE  Tree(e, h)
<1> DEFINE next == d.var[last].next
           p == g.up[first]
<1>1. /\ first \in g.in \ g.roots /\ last \in g.in \ g.roots
      /\ last = first \/ last = d.var[first].next
      /\ d.var[first].head = NullSlot /\ d.var[last].head = NullSlot /\ e \in Documents
      /\ h \in Places /\ h.in = g.in \ {first, last} /\ h.roots = g.roots
      /\ h.rank = g.rank /\ h.top = g.top /\ h.own = g.own /\ h.role = g.role
      /\ \A w \in Nodes : h.up[w] = IF w = next THEN p ELSE g.up[w]
      /\ \A u \in g.in \ {first, last} :
           /\ e.var[u].head = IF u = p /\ d.var[p].head = first THEN next ELSE d.var[u].head
           /\ e.var[u].next = IF u = p /\ d.var[p].next = first THEN next ELSE d.var[u].next
  BY DEF CutOut
<1>2. /\ p \in g.in \ {first, last} /\ p \in Nodes /\ first \in Nodes /\ last \in Nodes
      /\ g.own[last] = g.own[first] /\ g.rank[p] < g.rank[last]
      /\ first # last => d.var[first].next = last
      /\ d.var[p].head = first \/ d.var[p].next = first
      /\ d.var[p].head = first => g.own[first] = p
      /\ d.var[p].next = first => g.own[first] = g.own[p] /\ p \notin g.roots
      /\ d.var[p].head # d.var[p].next
      /\ next # NullSlot =>
           /\ next \in g.in \ g.roots /\ next \notin {first, last} /\ g.up[next] = last
           /\ g.own[next] = g.own[first] /\ g.rank[last] < g.rank[next]
      /\ next = NullSlot \/ next \in Nodes
      /\ \A w \in g.in \ g.roots : g.own[w] \notin {first, last}
  BY CutOutFacts
<1> HIDE DEF next, p
<1>3. h.in \ h.roots = (g.in \ g.roots) \ {first, last}
  BY <1>1
<1>4. /\ g.in \subseteq Nodes /\ g.roots \subseteq g.in /\ Root \in g.roots
      /\ \A u \in Nodes : g.rank[u] \in Nat
      /\ NullSlot \notin Nodes
  BY TreeFacts, Sizes
<1>5. next # NullSlot =>
        /\ next \in h.in \ h.roots /\ h.up[next] = p /\ h.own[next] = g.own[first]
        /\ h.rank[p] < h.rank[next]
  BY <1>1, <1>2, <1>3, <1>4
<1>6. ASSUME NEW u \in h.in, NEW w, NEW x, Linked(g, u, w, x), w # first
      PROVE  Linked(h, u, w, x)
  <2>1. w \in g.in \ g.roots /\ g.up[w] = u /\ g.own[w] = x /\ g.rank[u] < g.rank[w] /\ w \in Nodes
    BY <1>4, <1>6 DEF Linked
  <2>2. u \in g.in /\ u # first /\ u # last
    BY <1>1, <1>6
  <2>3. w # next
    BY <1>2, <1>4, <2>1, <2>2
  <2>4. w # last
    <3>1. first # last => g.up[last] = first
      <4>1. first # last => d.var[first].next # NullSlot
        BY <1>2, <1>4
      <4> QED
        BY <1>1, <1>2, <4>1 DEF Tree, Forest, Linked
    <3> QED
      BY <1>6, <2>1, <2>2, <3>1
  <2> QED
    BY <1>1, <1>3, <1>6, <2>1, <2>3, <2>4 DEF Linked
<1>7. ASSUME NEW u \in h.in
      PROVE  /\ h.rank[u] < h.top
             /\ e.var[u].head # NullSlot =>
                  Linked(h, u, e.var[u].head, u) /\ e.var[u].head # e.var[u].next
             /\ e.var[u].next # NullSlot => Linked(h, u, e.var[u].next, h.own[u])
  <2>1. /\ u \in g.in /\ u # first /\ u # last /\ u \in Nodes
        /\ g.rank[u] < g.top
        /\ d.var[u].head # NullSlot =>
             Linked(g, u, d.var[u].head, u) /\ d.var[u].head # d.var[u].next
        /\ d.var[u].next # NullSlot => Linked(g, u, d.var[u].next, g.own[u])
    BY <1>1, <1>4 DEF Tree, Forest
  <2>2. CASE u # p
    <3>1. e.var[u].head = d.var[u].head /\ e.var[u].next = d.var[u].next
      BY <1>1, <2>1, <2>2
    <3>2. first # NullSlot
      BY <1>2, <1>4
    <3>3. d.var[u].head # first /\ d.var[u].next # first
      BY <2>1, <2>2, <3>2 DEF Linked, p
    <3> QED
      BY <1>1, <1>6, <2>1, <3>1, <3>3
  <2>3. CASE u = p /\ d.var[p].head = first
    <3>1. e.var[u].head = next /\ e.var[u].next = d.var[u].next /\ d.var[u].next # first
      BY <1>1, <1>2, <2>1, <2>3
    <3>2. d.var[u].next # NullSlot => d.var[u].next # next
      <4>1. d.var[u].next # NullSlot => g.up[d.var[u].next] = u
        BY <2>1 DEF Linked
      <4> QED
        BY <1>2, <2>1, <4>1
    <3>3. next # NullSlot => Linked(h, u, next, u)
      BY <1>2, <1>5, <2>3 DEF Linked
    <3> QED
      BY <1>1, <1>6, <2>1, <3>1, <3>2, <3>3
  <2>4. CASE u = p /\ d.var[p].head # first
    <3>1. e.var[u].next = next /\ e.var[u].head = d.var[u].head /\ d.var[p].next = first
      BY <1>1, <1>2, <2>1, <2>4
    <3>2. d.var[u].head # NullSlot => d.var[u].head # next
      <4>1. d.var[u].head # NullSlot => g.up[d.var[u].head] = u
        BY <2>1 DEF Linked
      <4> QED
        BY <1>2, <2>1, <4>1
    <3>3. next # NullSlot => Linked(h, u, next, h.own[u])
      BY <1>1, <1>2, <1>5, <2>4, <3>1 DEF Linked
    <3> QED
      BY <1>1, <1>6, <2>1, <2>4, <3>1, <3>2, <3>3
  <2> QED
    BY <2>2, <2>3, <2>4
<1>8. ASSUME NEW w \in h.in \ h.roots
      PROVE  /\ h.up[w] \in h.in /\ w \in Links(e, h.up[w])
             /\ h.own[w] \in h.in /\ h.rank[h.own[w]] < h.rank[w]
  <2>1. /\ w \in g.in \ g.roots /\ w # first /\ w # last /\ w \in Nodes
        /\ g.up[w] \in g.in /\ w \in Links(d, g.up[w])
        /\ g.own[w] \in g.in /\ g.rank[g.own[w]] < g.rank[w] /\ g.own[w] \notin {first, last}
    BY <1>2, <1>3, <1>4 DEF Tree, Forest
  <2>2. h.own[w] \in h.in /\ h.rank[h.own[w]] < h.rank[w]
    BY <1>1, <2>1
  <2>3. CASE w = next
    <3>1. h.up[w] = p /\ (e.var[p].head = next \/ e.var[p].next = next)
      BY <1>1, <1>2, <2>1, <2>3
    <3> QED
      BY <1>1, <1>2, <1>4, <2>1, <2>2, <2>3, <3>1 DEF Links
  <2>4. CASE w # next
    <3> DEFINE u == g.up[w]
    <3>1. h.up[w] = u /\ u \in g.in /\ w \in Links(d, u)
      BY <1>1, <2>1, <2>4
    <3> HIDE DEF u
    <3>2. d.var[u].head = w \/ d.var[u].next = w
      BY <3>1 DEF Links
    <3>3. u # last
      BY <1>1, <1>4, <2>1, <2>4, <3>2 DEF next
    <3>4. u # first
      BY <1>1, <1>2, <1>4, <2>1, <2>4, <3>2, <3>3
    <3>5. e.var[u].head = w \/ e.var[u].next = w
      BY <1>1, <2>1, <3>1, <3>2, <3>3, <3>4
    <3> QED
      BY <1>1, <1>4, <2>1, <2>2, <3>1, <3>3, <3>4, <3>5 DEF Links
  <2> QED
    BY <2>3, <2>4
<1>9. \A x \in h.roots : e.var[x].next = NullSlot
  <2> SUFFICES ASSUME NEW x \in g.roots PROVE e.var[x].next = NullSlot
    BY <1>1
  <2>1. d.var[x].next = NullSlot /\ x \in g.in \ {first, last}
    BY <1>1, <1>4 DEF Tree, Forest
  <2>2. ~ (x = p /\ d.var[p].next = first)
    BY <1>2
  <2> QED
    BY <1>1, <2>1, <2>2
<1>10. Root \in h.roots /\ h.roots \subseteq h.in
  BY <1>1, <1>4
<1> QED
  BY <1>1, <1>7, <1>8, <1>9, <1>10 DEF Tree, Forest

\* Cleared values that were cut out of their collection are given back.
LEMMA CutOutGood ==
  ASSUME NEW d, NEW g, Good(d, g), NEW first, NEW last, NEW e, NEW h,
         CutOut(d, g, first, last, e, h),
         d.var[first].type = "null", d.var[last].type = "null",
         g.role[first] = "element" => first = last, g.role[first] = "key" => first # last,
         g.role[first] # "value", d.var[g.own[first]].type \in Collection,
         SameMemory(d, e), e.refs = d.refs, e.free = d.free \cup {first, last},
         \A u \in g.in \ {first, last} :
           /\ e.var[u].type = d.var[u].type /\ e.var[u].str = d.var[u].str
           /\ e.var[u].tail = IF u = g.own[first] /\ d.var[last].next = NullSlot
                              THEN IF g.up[first] = u THEN NullSlot ELSE g.up[first]
                              ELSE d.var[u].tail
  PROVE  Good(e, h)
<1> DEFINE next == d.var[last].next
           p == g.up[first]
           c == g.own[first]
<1>1. /\ Tree(d, g) /\ Tails(d, g) /\ Alternating(d, g) /\ PoolsOK(d) /\ Accounted(d, g)
      /\ Counted(d, g)
  BY DEF Good
<1>2. Tree(e, h)
  BY <1>1, CutOutTree
<1>3. /\ first \in g.in \ g.roots /\ last \in g.in \ g.roots
      /\ last = first \/ last = d.var[first].next
      /\ h \in Places /\ h.in = g.in \ {first, last} /\ h.roots = g.roots
      /\ h.own = g.own /\ h.role = g.role
      /\ \A u \in g.in \ {first, last} :
           /\ e.var[u].head = IF u = p /\ d.var[p].head = first THEN next ELSE d.var[u].head
           /\ e.var[u].next = IF u = p /\ d.var[p].next = first THEN next ELSE d.var[u].next
  BY DEF CutOut
<1>4. /\ p \in g.in \ {first, last} /\ p \in Nodes /\ first \in Nodes /\ last \in Nodes
      /\ g.own[last] = c
      /\ first # last => d.var[first].next = last
      /\ d.var[p].head = first \/ d.var[p].next = first
      /\ d.var[p].head = first => c = p
      /\ d.var[p].next = first => c = g.own[p] /\ p \notin g.roots
      /\ d.var[p].head # d.var[p].next
      /\ next # NullSlot =>
           /\ next \in g.in \ g.roots /\ next \notin {first, last}
           /\ g.own[next] = c
      /\ next = NullSlot \/ next \in Nodes
      /\ \A w \in g.in \ g.roots : g.own[w] \notin {first, last}
  BY <1>1, CutOutFacts
<1>5. /\ d \in Documents /\ g \in Places /\ g.in \subseteq Nodes /\ g.roots \subseteq g.in
      /\ Root \in g.roots /\ g.in \ g.roots \subseteq Slots
      /\ \A u \in Nodes : g.rank[u] \in Nat
      /\ NullSlot \notin Nodes
      /\ h.in \ h.roots = (g.in \ g.roots) \ {first, last}
  BY <1>1, <1>3, TreeFacts, Sizes
<1>6. \A w \in g.in \ g.roots : g.own[w] \in g.in /\ g.own[w] # w
  <2> SUFFICES ASSUME NEW w \in g.in \ g.roots PROVE g.own[w] \in g.in /\ g.own[w] # w
    OBVIOUS
  <2>1. g.own[w] \in g.in /\ g.rank[g.own[w]] < g.rank[w] /\ g.rank[w] \in Nat
    BY <1>1, <1>5 DEF Tree, Forest
  <2> QED
    BY <2>1
<1>7. c \in g.in \ {first, last} /\ c \in Nodes /\ d.var[c].head # NullSlot
  <2>1. c \in g.in \ {first, last}
    BY <1>3, <1>4, <1>6
  <2>2. PICK i \in 1..Len(Kids(d, c)) : Kids(d, c)[i] = first
    BY <1>1, <1>3, <2>1, KidsInTree
  <2>3. Kids(d, c) # << >>
    BY <2>2
  <2>4. d.var[c].head # NullSlot
    BY <1>1, <2>1, <2>3, KidsInTree
  <2> QED
    BY <1>5, <2>1, <2>4
<1>8. d.var[c].type \in Collection /\ \A u \in g.in \ {first, last} :
           /\ e.var[u].type = d.var[u].type /\ e.var[u].str = d.var[u].str
           /\ e.var[u].tail = IF u = c /\ next = NullSlot
                              THEN IF p = u THEN NullSlot ELSE p ELSE d.var[u].tail
  OBVIOUS
<1> HIDE DEF next, p, c
<1>9. d.var[p].head = first <=> p = c
  <2>1. ASSUME d.var[p].next = first PROVE p # c
    BY <1>4, <1>6, <2>1
  <2> QED
    BY <1>4, <2>1
<1>10. next # NullSlot => g.role[next] = g.role[first]
  <2>1. next # NullSlot => g.role[next] = Follows(g.role[last])
    BY <1>1, <1>3, <1>5, AlternatingIs DEF next
  <2>2. first # last => g.role[last] = Follows(g.role[first])
    BY <1>1, <1>3, <1>4, <1>5, AlternatingIs
  <2>3. g.role[first] \in {"element", "key"}
    BY <1>4, <1>5 DEF Places
  <2> QED
    BY <2>1, <2>2, <2>3 DEF Follows
<1>11. Tails(e, h)
  <2> SUFFICES ASSUME NEW u \in h.in
      PROVE /\ e.var[u].type \in {"null", "plain", "owned"} => e.var[u].head = NullSlot
            /\ e.var[u].type \notin Collection => e.var[u].tail = NullSlot
            /\ e.var[u].tail # NullSlot =>
                 /\ e.var[u].head # NullSlot
                 /\ e.var[u].tail \in h.in \ h.roots /\ h.own[e.var[u].tail] = u
                 /\ e.var[e.var[u].tail].next = NullSlot
            /\ e.var[u].type \in Collection /\ e.var[u].head # NullSlot => e.var[u].tail # NullSlot
    BY DEF Tails
  <2>1. /\ u \in g.in \ {first, last}
        /\ d.var[u].type \in {"null", "plain", "owned"} => d.var[u].head = NullSlot
        /\ d.var[u].type \notin Collection => d.var[u].tail = NullSlot
        /\ d.var[u].tail # NullSlot =>
             /\ d.var[u].head # NullSlot
             /\ d.var[u].tail \in g.in \ g.roots /\ g.own[d.var[u].tail] = u
             /\ d.var[d.var[u].tail].next = NullSlot
        /\ d.var[u].type \in Collection /\ d.var[u].head # NullSlot => d.var[u].tail # NullSlot
        /\ e.var[u].type = d.var[u].type
    BY <1>1, <1>3, <1>8 DEF Tails
  <2> DEFINE t == d.var[u].tail
  <2>2. ASSUME t # NullSlot, t \notin {first, last}, t # p \/ p = c
        PROVE  t \in h.in \ h.roots /\ h.own[t] = u /\ e.var[t].next = NullSlot
    <3>1. t \in g.in \ g.roots /\ g.own[t] = u /\ d.var[t].next = NullSlot
      BY <2>1, <2>2
    <3> HIDE DEF t
    <3>2. ~ (t = p /\ d.var[p].next = first)
      BY <1>4, <1>9, <2>2
    <3> QED
      BY <1>3, <1>5, <2>2, <3>1, <3>2
  <2>3. CASE u # c
    <3>1. e.var[u].head = d.var[u].head /\ e.var[u].tail = t
      BY <1>3, <1>8, <1>9, <2>1, <2>3
    <3>2. t # NullSlot => t \notin {first, last} /\ (t # p \/ p = c)
      <4>1. t # NullSlot => g.own[t] = u
        BY <2>1
      <4> HIDE DEF t
      <4> QED
        BY <1>4, <1>9, <2>3, <4>1 DEF c
    <3> QED
      BY <2>1, <2>2, <3>1, <3>2
  <2>4. CASE u = c /\ next = NullSlot /\ p = c
    <3>1. e.var[u].head = NullSlot /\ e.var[u].tail = NullSlot
      BY <1>3, <1>8, <1>9, <2>1, <2>4
    <3> QED
      BY <3>1
  <2>5. CASE u = c /\ next = NullSlot /\ p # c
    <3>1. e.var[u].head = d.var[u].head /\ e.var[u].tail = p
      BY <1>3, <1>8, <1>9, <2>1, <2>5
    <3>2. e.var[p].next = NullSlot /\ g.own[p] = c /\ p \in g.in \ g.roots
      BY <1>3, <1>4, <1>9, <2>5
    <3>3. p # NullSlot
      BY <1>4, <1>5
    <3> QED
      BY <1>3, <1>4, <1>5, <1>7, <1>8, <2>1, <2>5, <3>1, <3>2, <3>3 DEF Collection
  <2>6. CASE u = c /\ next # NullSlot
    <3>1. e.var[u].head # NullSlot /\ e.var[u].tail = t /\ t # NullSlot
      BY <1>3, <1>7, <1>8, <2>1, <2>6
    <3>2. t \in g.in \ g.roots /\ g.own[t] = c /\ d.var[t].next = NullSlot
      BY <2>1, <2>6, <3>1
    <3> HIDE DEF t
    <3>3. d.var[last].next # NullSlot /\ d.var[first].next # NullSlot
      BY <1>4, <1>5, <2>6 DEF next
    <3>4. t \notin {first, last}
      BY <3>2, <3>3
    <3>5. t # p \/ p = c
      BY <1>4, <1>5, <1>9, <3>2
    <3>6. t \in h.in \ h.roots /\ h.own[t] = u /\ e.var[t].next = NullSlot
      BY <2>2, <3>1, <3>4, <3>5
    <3> QED
      BY <1>8, <2>1, <2>6, <3>1, <3>6 DEF Collection
  <2> QED
    BY <2>3, <2>4, <2>5, <2>6
<1>12. Alternating(e, h)
  <2>1. h.in \subseteq Nodes
    BY <1>3, <1>5
  <2> SUFFICES ASSUME NEW u \in h.in
      PROVE  /\ e.var[u].head # NullSlot =>
                  h.role[e.var[u].head] = IF e.var[u].type = "object" THEN "key" ELSE "element"
             /\ e.var[u].next # NullSlot => h.role[e.var[u].next] = Follows(h.role[u])
             /\ h.role[u] = "key" => e.var[u].next # NullSlot
    BY <1>3, <2>1, AlternatingIs
  <2>2. /\ d.var[u].head # NullSlot =>
             g.role[d.var[u].head] = IF d.var[u].type = "object" THEN "key" ELSE "element"
        /\ d.var[u].next # NullSlot => g.role[d.var[u].next] = Follows(g.role[u])
        /\ g.role[u] = "key" => d.var[u].next # NullSlot
    BY <1>1, <1>3, <1>5, AlternatingIs
  <2>3. u \in g.in \ {first, last} /\ e.var[u].type = d.var[u].type
    BY <1>3, <1>8
  <2>4. CASE u # p
    <3>1. e.var[u].head = d.var[u].head /\ e.var[u].next = d.var[u].next
      BY <1>3, <2>3, <2>4
    <3> QED
      BY <1>3, <2>2, <2>3, <3>1
  <2>5. CASE u = p /\ d.var[p].head = first
    <3>1. e.var[u].head = next /\ e.var[u].next = d.var[u].next
      BY <1>3, <1>4, <2>3, <2>5
    <3>2. first # NullSlot
      BY <1>4, <1>5
    <3> QED
      BY <1>3, <1>10, <2>2, <2>3, <2>5, <3>1, <3>2
  <2>6. CASE u = p /\ d.var[p].next = first
    <3>1. e.var[u].head = d.var[u].head /\ e.var[u].next = next
      BY <1>3, <1>4, <2>3, <2>6
    <3>2. first # NullSlot
      BY <1>4, <1>5
    <3>3. g.role[u] # "key"
      BY <2>2, <2>6, <3>2 DEF Follows
    <3> QED
      BY <1>3, <1>10, <2>2, <2>3, <2>6, <3>1, <3>2, <3>3
  <2> QED
    BY <1>4, <2>4, <2>5, <2>6
<1>13. PoolsOK(e) /\ Accounted(e, h)
  <2>1. PoolsOK(e) /\ Given(e) = Given(d)
    BY <1>1, MemoryKept
  <2>2. first # Root /\ last # Root
    BY <1>3, <1>5
  <2> QED
    BY <1>1, <1>3, <2>1, <2>2 DEF Accounted, SameMemory
<1>14. Counted(e, h)
  <2>1. \A s : Owners(e, h.in, s) = Owners(d, g.in, s)
    BY <1>3, <1>8 DEF Owners
  <2> QED
    BY <1>1, <2>1 DEF Counted
<1> QED
  BY <1>2, <1>11, <1>12, <1>13, <1>14 DEF Good

\* What is below a value does not depend on the rest of the document.
LEMMA BelowSame ==
  ASSUME NEW d \in Documents, NEW e \in Documents, NEW v \in Nodes,
         e.var[v].head = d.var[v].head, \A u \in Below(d, v) : Links(e, u) = Links(d, u)
  PROVE  Below(e, v) = Below(d, v)
<1>1. Below(e, v) \subseteq Below(d, v)
  <2>1. /\ d.var[v].head # NullSlot => d.var[v].head \in Below(d, v)
        /\ \A u \in Below(d, v) : Links(d, u) \subseteq Below(d, v)
    BY BelowClosed
  <2>2. \A u \in Below(d, v) \cap Slots : Links(e, u) \subseteq Below(d, v)
    BY <2>1
  <2> QED
    BY <2>1, <2>2, BelowLeast
<1>2. Below(d, v) \subseteq Below(e, v)
  <2>1. /\ e.var[v].head # NullSlot => e.var[v].head \in Below(e, v)
        /\ \A u \in Below(e, v) : Links(e, u) \subseteq Below(e, v)
    BY BelowClosed
  <2>2. \A u \in Below(e, v) \cap Slots : Links(d, u) \subseteq Below(e, v)
    BY <1>1, <2>1
  <2> QED
    BY <2>1, <2>2, BelowLeast
<1> QED
  BY <1>1, <1>2

\* What FreeVariant does to the memory of a value.
LEMMA FreeFields ==
  ASSUME NEW d \in Documents, NEW v \in Slots
  PROVE  LET e == FreeVariant(d, v) IN
         /\ SameMemory(d, e) /\ e.free = d.free \cup Below(d, v) \cup {v}
         /\ e.refs = RefsWithout(d, {v} \cup Below(d, v))
         /\ e.refs = Clear(d, v).refs
         /\ e.var = Clear(d, v).var /\ e.var \in [Nodes -> Variants]
         /\ \A u \in Nodes \ {v} : e.var[u] = d.var[u]
         /\ e.var[v].type = "null" /\ e.var[v].head = NullSlot
         /\ e.var[v].tail = NullSlot /\ e.var[v].next = d.var[v].next
         /\ e.refs \in [Long -> Nat] => e \in Documents
<1> DEFINE f == Clear(d, v)
           e == FreeVariant(d, v)
<1>1. /\ SameMemory(d, f) /\ f.free = d.free \cup Below(d, v)
      /\ f.refs = RefsWithout(d, {v} \cup Below(d, v))
      /\ f.var \in [Nodes -> Variants] /\ \A u \in Nodes \ {v} : f.var[u] = d.var[u]
      /\ f.var[v].type = "null" /\ f.var[v].head = NullSlot
      /\ f.var[v].tail = NullSlot /\ f.var[v].next = d.var[v].next
      /\ f = [pools |-> d.pools, capacity |-> d.capacity, moved |-> d.moved, free |-> f.free,
              var |-> f.var, refs |-> f.refs, overflowed |-> d.overflowed]
  <2>1. Emptied(d, v, f)
    BY Sizes, ClearFields
  <2> QED
    BY <2>1 DEF Emptied
<1>2. e = [f EXCEPT !.free = f.free \cup {v}]
  BY DEF FreeVariant
<1> HIDE DEF e, f
<1>3. e = [pools |-> d.pools, capacity |-> d.capacity, moved |-> d.moved, free |-> f.free \cup {v},
           var |-> f.var, refs |-> f.refs, overflowed |-> d.overflowed]
  <2> DEFINE a == f.free
             b == f.var
             c == f.refs
  <2>1. f = [pools |-> d.pools, capacity |-> d.capacity, moved |-> d.moved, free |-> a,
             var |-> b, refs |-> c, overflowed |-> d.overflowed]
    BY <1>1
  <2>2. e = [f EXCEPT !.free = a \cup {v}]
    BY <1>2
  <2> HIDE DEF a, b, c
  <2>3. e = [pools |-> d.pools, capacity |-> d.capacity, moved |-> d.moved, free |-> a \cup {v},
             var |-> b, refs |-> c, overflowed |-> d.overflowed]
    BY <2>1, <2>2
  <2> QED
    BY <2>3 DEF a, b, c
<1>4. e.refs = f.refs /\ e.var = f.var /\ e.free = f.free \cup {v} /\ SameMemory(d, e)
  BY <1>3 DEF SameMemory
<1>5. e.refs \in [Long -> Nat] => e \in Documents
  <2>1. f.free \cup {v} \subseteq Slots
    BY <1>1, BelowClosed, Sizes DEF Documents
  <2> QED
    BY <1>1, <1>3, <1>4, <2>1 DEF Documents
<1> QED
  BY <1>1, <1>4, <1>5 DEF e, f

\* A value that belongs to nothing is given back, with what is below it.
LEMMA Freed ==
  ASSUME NEW d, NEW g, Good(d, g), NEW x \in g.roots \ {Root}
  PROVE  /\ FreeVariant(d, x) \in Documents /\ FreeVariant(d, x).pools = d.pools
         /\ \A u \in Nodes \ {x} : FreeVariant(d, x).var[u] = d.var[u]
         /\ Good(FreeVariant(d, x), Without(Without(g, Below(d, x)), {x}))
<1> DEFINE f == Clear(d, x)
           e == FreeVariant(d, x)
           h == Without(g, Below(d, x))
<1>1. d \in Documents /\ g \in Places /\ x \in Slots /\ x \in Nodes /\ x \in g.in
  BY TreeFacts, Sizes DEF Good
<1>2. Good(f, h)
  BY <1>1, Cleared
<1>3. f \in Documents /\ PoolsOK(f)
  BY <1>2, TreeFacts DEF Good
<1>4. x \in h.roots \ {Root}
  BY <1>1, BelowInTree, WithoutFields DEF Good
<1>5. /\ SameMemory(d, e) /\ e.free = d.free \cup Below(d, x) \cup {x} /\ e.refs = f.refs
      /\ e.var = f.var /\ e.var[x].type = "null" /\ e.var[x].head = NullSlot
      /\ e.refs \in [Long -> Nat] => e \in Documents
      /\ \A u \in Nodes \ {x} : e.var[u] = d.var[u]
  BY <1>1, FreeFields
<1>6. SameMemory(d, f) /\ f.free = d.free \cup Below(d, x)
  BY <1>1, ClearFields DEF Emptied
<1> HIDE DEF e, f, h
<1>7. e \in Documents
  BY <1>3, <1>5 DEF Documents
<1>8. SameMemory(f, e)
  BY <1>5, <1>6 DEF SameMemory
<1>9. PoolsOK(e) /\ Given(e) = Given(f) /\ e.free = f.free \cup {x} /\ (f.overflowed => e.overflowed)
  BY <1>3, <1>5, <1>6, <1>8, MemoryKept DEF SameMemory
<1>10. Good(e, Without(h, {x}))
  <2>1. \A u \in Nodes : e.var[u] = f.var[u]
    BY <1>5
  <2>2. f.var[x].head = NullSlot /\ f.var[x].type # "owned"
    BY <1>5
  <2> QED
    BY <1>2, <1>4, <1>5, <1>7, <1>9, <2>1, <2>2, Dropped
<1>11. e.pools = d.pools
  BY <1>5 DEF SameMemory
<1> QED
  BY <1>5, <1>7, <1>10, <1>11 DEF e, h

\* The slot before one of the slots of a collection.
LEMMA PreviousIs ==
  ASSUME NEW d, NEW g, Tree(d, g), NEW c \in g.in, NEW id \in g.in \ g.roots, g.own[id] = c
  PROVE  LET prev == {u \in ToSet(Kids(d, c)) : d.var[u].next = id} IN
         /\ g.up[id] \in Nodes
         /\ d.var[c].head = id => prev = {} /\ g.up[id] = c /\ d.var[c].next # id
         /\ d.var[c].head # id =>
              /\ prev = {g.up[id]} /\ g.up[id] # c
              /\ d.var[g.up[id]].next = id /\ d.var[g.up[id]].head # id
<1> DEFINE u0 == g.up[id]
           K == Kids(d, c)
<1>1. ToSet(K) = {K[i] : i \in 1..Len(K)}
  <2>1. K \in Seq(Slots)
    BY KidsInTree
  <2> HIDE DEF K
  <2> QED
    BY <2>1 DEF ToSet
<1>2. /\ \A u \in ToSet(K) : u \in g.in \ g.roots /\ g.own[u] = c
      /\ \A u \in g.in \ g.roots : g.own[u] = c => u \in ToSet(K)
  <2>1. \A i \in 1..Len(K) : K[i] \in g.in \ g.roots /\ g.own[K[i]] = c
    BY KidsInTree
  <2>2. \A u \in g.in \ g.roots : g.own[u] = c => \E i \in 1..Len(K) : K[i] = u
    BY KidsInTree
  <2> HIDE DEF K
  <2> QED
    BY <1>1, <2>1, <2>2
<1> HIDE DEF K
<1>3. /\ id # NullSlot /\ id \in Slots /\ u0 \in g.in /\ id \in Links(d, u0) /\ u0 \in Nodes
      /\ g.rank[c] < g.rank[id]
  BY TreeFacts, Sizes DEF Tree, Forest
<1>4. ASSUME NEW u \in g.in, d.var[u].next = id PROVE u = u0 /\ g.own[u] = c /\ u \notin g.roots
  BY <1>3, <1>4 DEF Tree, Forest, Linked
<1>5. ASSUME NEW u \in g.in, d.var[u].head = id PROVE u = u0 /\ u = c
  BY <1>3, <1>5 DEF Tree, Forest, Linked
<1>6. ASSUME NEW u \in g.in \ g.roots, g.own[u] = c PROVE u # c
  <2>1. g.rank[c] < g.rank[u] /\ g.rank[c] \in Nat
    BY <1>6, TreeFacts DEF Tree, Forest
  <2> QED
    BY <2>1
<1>7. CASE d.var[c].head = id
  <2>1. u0 = c
    BY <1>5, <1>7
  <2>2. \A u \in ToSet(K) : d.var[u].next # id
    BY <1>2, <1>4, <1>6, <2>1
  <2>3. d.var[c].next # id
    BY <1>4, <1>6
  <2> QED
    BY <1>3, <1>7, <2>1, <2>2, <2>3 DEF K
<1>8. CASE d.var[c].head # id
  <2>1. d.var[u0].head # id
    BY <1>3, <1>5, <1>8
  <2>2. d.var[u0].next = id
    BY <1>3, <2>1 DEF Links
  <2>3. u0 \in ToSet(K) /\ u0 # c
    BY <1>2, <1>3, <1>4, <1>6, <2>2
  <2>4. {u \in ToSet(K) : d.var[u].next = id} = {u0}
    BY <1>2, <1>4, <2>2, <2>3
  <2> QED
    BY <1>3, <1>8, <2>1, <2>2, <2>3, <2>4 DEF K
<1> QED
  BY <1>7, <1>8

\* What RemoveOne does to the memory of the values.
Removed(d, g, c, id, e) ==
  LET next == d.var[id].next
      p == g.up[id] IN
  /\ SameMemory(d, e) /\ e.free = d.free \cup Below(d, id) \cup {id}
  /\ e.refs = RefsWithout(d, {id} \cup Below(d, id))
  /\ \A u \in Nodes \ {id} :
       /\ e.var[u].type = d.var[u].type /\ e.var[u].str = d.var[u].str
       /\ e.var[u].head = IF u = p /\ d.var[p].head = id THEN next ELSE d.var[u].head
       /\ e.var[u].next = IF u = p /\ d.var[p].next = id THEN next ELSE d.var[u].next
       /\ e.var[u].tail = IF u = c /\ next = NullSlot
                          THEN IF p = u THEN NullSlot ELSE p ELSE d.var[u].tail
  /\ e.refs \in [Long -> Nat] => e \in Documents

LEMMA RemoveOneFields ==
  ASSUME NEW d, NEW g, Tree(d, g), NEW c \in g.in, NEW id \in g.in \ g.roots, g.own[id] = c
  PROVE  Removed(d, g, c, id, RemoveOne(d, c, id))
<1> DEFINE next == d.var[id].next
           p == g.up[id]
           prev == {u \in ToSet(Kids(d, c)) : d.var[u].next = id}
           last == IF prev = {} THEN NullSlot ELSE CHOOSE u \in prev : TRUE
           unlinked == IF prev = {} THEN [d EXCEPT !.var[c].head = next]
                       ELSE [d EXCEPT !.var[last].next = next]
           m == IF next = NullSlot THEN [unlinked EXCEPT !.var[c].tail = last] ELSE unlinked
           e == RemoveOne(d, c, id)
<1>1. /\ d \in Documents /\ id \in Slots /\ id \in Nodes /\ c \in Nodes
      /\ NullSlot \notin Nodes /\ NullSlot \in 0..NullSlot /\ next \in 0..NullSlot
      /\ g.rank[c] \in Nat /\ g.rank[id] \in Nat /\ g.rank[c] < g.rank[id]
  <2>1. d \in Documents /\ id \in Slots /\ id \in Nodes /\ c \in Nodes
    BY TreeFacts, Sizes
  <2> QED
    BY <2>1, VarType, TreeFacts, Sizes DEF Tree, Forest
<1>2. e = FreeVariant(m, id)
  BY DEF RemoveOne
<1>3. /\ p \in Nodes
      /\ d.var[c].head = id => prev = {} /\ p = c /\ d.var[c].next # id
      /\ d.var[c].head # id =>
           prev = {p} /\ p # c /\ d.var[p].next = id /\ d.var[p].head # id
  BY PreviousIs
<1>4. /\ last = (IF p = c THEN NullSlot ELSE p) /\ last \in 0..NullSlot
      /\ prev = {} <=> p = c
      /\ d.var[c].head = id <=> p = c
      /\ p \in g.in /\ p # id /\ c # id
  <2>1. last = (IF p = c THEN NullSlot ELSE p) /\ (prev = {} <=> p = c) /\ (d.var[c].head = id <=> p = c)
    <3> HIDE DEF p
    <3>1. prev = {p} => (CHOOSE u \in prev : TRUE) = p
      OBVIOUS
    <3> HIDE DEF prev
    <3> QED
      BY <1>3, <3>1
  <2>2. p \in g.in /\ id \in Links(d, p)
    BY DEF Tree, Forest
  <2>3. d.var[p].head = id \/ d.var[p].next = id
    BY <2>2 DEF Links
  <2>4. g.rank[p] < g.rank[id] /\ g.rank[p] \in Nat
    BY <1>1, <1>3, <2>2, <2>3, TreeFacts DEF Tree, Forest, Linked
  <2>5. p # c => p \in g.in \ g.roots
    BY <1>1, <1>3, <2>2, <2>3 DEF Tree, Forest
  <2>6. p # c => p \in 0..NullSlot
    BY <2>5, TreeFacts, Sizes
  <2> HIDE DEF p, last
  <2> QED
    BY <1>1, <2>1, <2>2, <2>4, <2>6
<1>5. /\ Rewired(d, unlinked)
      /\ \A u \in Nodes :
           /\ unlinked.var[u].tail = d.var[u].tail
           /\ unlinked.var[u].head = IF u = c /\ p = c THEN next ELSE d.var[u].head
           /\ unlinked.var[u].next = IF u = p /\ p # c THEN next ELSE d.var[u].next
  <2> HIDE DEF next, p, prev
  <2>1. CASE p = c
    <3>1. unlinked = [d EXCEPT !.var[c].head = next]
      BY <1>4, <2>1
    <3> HIDE DEF unlinked
    <3> QED
      BY <1>1, <2>1, <3>1, HeadSet
  <2>2. CASE p # c
    <3>1. unlinked = [d EXCEPT !.var[last].next = next] /\ last = p
      BY <1>4, <2>2
    <3> HIDE DEF unlinked, last
    <3>2. unlinked = [d EXCEPT !.var[p].next = next]
      BY <3>1
    <3> QED
      BY <1>1, <1>3, <2>2, <3>2, NextSet
  <2> QED
    BY <2>1, <2>2
<1> HIDE DEF unlinked
<1>6. /\ Rewired(d, m)
      /\ \A u \in Nodes :
           /\ m.var[u].tail = IF u = c /\ next = NullSlot THEN last ELSE d.var[u].tail
           /\ m.var[u].head = IF u = c /\ p = c THEN next ELSE d.var[u].head
           /\ m.var[u].next = IF u = p /\ p # c THEN next ELSE d.var[u].next
  <2> HIDE DEF next, p, prev, last
  <2>1. CASE next = NullSlot
    <3>1. m = [unlinked EXCEPT !.var[c].tail = last] /\ unlinked \in Documents
      BY <1>5, <2>1 DEF Rewired
    <3> HIDE DEF m
    <3>2. /\ Rewired(unlinked, m)
          /\ \A u \in Nodes : /\ m.var[u].tail = IF u = c THEN last ELSE unlinked.var[u].tail
                              /\ m.var[u].head = unlinked.var[u].head
                              /\ m.var[u].next = unlinked.var[u].next
      BY <1>1, <1>4, <3>1, TailSet
    <3>3. Rewired(d, m)
      BY <1>5, <3>2 DEF Rewired, SameMemory
    <3> QED
      BY <1>5, <2>1, <3>2, <3>3
  <2>2. CASE next # NullSlot
    BY <1>5, <2>2
  <2> QED
    BY <2>1, <2>2
<1> HIDE DEF m
<1>7. m \in Documents
  BY <1>6 DEF Rewired
<1>8. /\ SameMemory(m, e) /\ e.free = m.free \cup Below(m, id) \cup {id}
      /\ e.refs = RefsWithout(m, {id} \cup Below(m, id))
      /\ \A u \in Nodes \ {id} : e.var[u] = m.var[u]
      /\ e.refs \in [Long -> Nat] => e \in Documents
  <2> DEFINE f == FreeVariant(m, id)
  <2>1. /\ SameMemory(m, f) /\ f.free = m.free \cup Below(m, id) \cup {id}
        /\ f.refs = RefsWithout(m, {id} \cup Below(m, id))
        /\ \A u \in Nodes \ {id} : f.var[u] = m.var[u]
        /\ f.refs \in [Long -> Nat] => f \in Documents
    BY <1>1, <1>7, FreeFields
  <2> QED
    BY <1>2, <2>1
<1>9. Below(m, id) = Below(d, id) /\ Below(d, id) \subseteq Nodes
  <2>1. m.var[id].head = d.var[id].head
    BY <1>1, <1>4, <1>6
  <2>2. Below(d, id) \subseteq g.in \ g.roots /\ \A w \in Below(d, id) : g.rank[id] < g.rank[w]
    BY BelowInTree
  <2>3. ASSUME NEW w \in Below(d, id) PROVE w # c /\ w # p /\ w \in Nodes
    <3>1. w \in Nodes /\ g.rank[w] \in Nat
      BY <2>2, TreeFacts
    <3>2. w # c
      BY <1>1, <2>2, <3>1
    <3>3. w # p
      <4>1. p \notin Below(d, id)
        <5>1. id \in Links(d, p)
          BY DEF Tree, Forest
        <5>2. id \notin Below(d, id)
          BY BelowInTree
        <5>3. \A u \in Below(d, id) : Links(d, u) \subseteq Below(d, id)
          BY <1>1, BelowClosed
        <5> QED
          BY <5>1, <5>2, <5>3
      <4> QED
        BY <4>1
    <3> QED
      BY <3>1, <3>2, <3>3
  <2>4. \A u \in Below(d, id) : Links(m, u) = Links(d, u)
    BY <1>6, <2>3 DEF Links
  <2>5. Below(m, id) = Below(d, id)
    BY <1>1, <1>7, <2>1, <2>4, BelowSame
  <2> QED
    BY <2>3, <2>5
<1>10. \A s : Owners(m, {id} \cup Below(d, id), s) = Owners(d, {id} \cup Below(d, id), s)
  BY <1>1, <1>6, <1>9 DEF Owners, Rewired
<1>11. SameMemory(d, e) /\ m.free = d.free /\ m.refs = d.refs
  BY <1>6, <1>8 DEF SameMemory, Rewired
<1>12. e.refs = RefsWithout(d, {id} \cup Below(d, id))
  <2>1. RefsWithout(m, {id} \cup Below(d, id)) = RefsWithout(d, {id} \cup Below(d, id))
    BY <1>10, <1>11 DEF RefsWithout
  <2> QED
    BY <1>8, <1>9, <2>1
<1>13. ASSUME NEW u \in Nodes \ {id}
       PROVE  /\ e.var[u].type = d.var[u].type /\ e.var[u].str = d.var[u].str
              /\ e.var[u].head = IF u = p /\ d.var[p].head = id THEN next ELSE d.var[u].head
              /\ e.var[u].next = IF u = p /\ d.var[p].next = id THEN next ELSE d.var[u].next
              /\ e.var[u].tail = IF u = c /\ next = NullSlot
                                 THEN IF p = u THEN NullSlot ELSE p ELSE d.var[u].tail
  <2> HIDE DEF next, p, last, prev
  <2>1. e.var[u] = m.var[u] /\ u \in Nodes
    BY <1>8, <1>13
  <2>2. e.var[u].type = d.var[u].type /\ e.var[u].str = d.var[u].str
    BY <1>6, <2>1 DEF Rewired
  <2>3. u = p /\ d.var[p].head = id <=> u = c /\ p = c
    BY <1>3, <1>4
  <2>4. u = p /\ d.var[p].next = id <=> u = p /\ p # c
    BY <1>3, <1>4
  <2> QED
    BY <1>4, <1>6, <2>1, <2>2, <2>3, <2>4
<1> HIDE DEF e
<1> QED
  BY <1>8, <1>9, <1>11, <1>12, <1>13 DEF e, Removed

\* The places that are left when first and last are cut out, before next.
CutPlaces(g, first, last, next) ==
  [g EXCEPT !.in = @ \ {first, last},
            !.up = [w \in Nodes |-> IF w = next THEN g.up[first] ELSE g.up[w]]]

PlacesCut(g, first, last, next, h) ==
  /\ h \in Places /\ h.in = g.in \ {first, last} /\ h.roots = g.roots
  /\ h.rank = g.rank /\ h.top = g.top /\ h.own = g.own /\ h.role = g.role
  /\ \A w \in Nodes : h.up[w] = IF w = next THEN g.up[first] ELSE g.up[w]

LEMMA CutPlacesFields ==
  ASSUME NEW g \in Places, NEW first \in Nodes, NEW last, NEW next
  PROVE  PlacesCut(g, first, last, next, CutPlaces(g, first, last, next))
<1> DEFINE up == [w \in Nodes |-> IF w = next THEN g.up[first] ELSE g.up[w]]
           h == CutPlaces(g, first, last, next)
<1>1. /\ up \in [Nodes -> Nodes]
      /\ \A w \in Nodes : up[w] = IF w = next THEN g.up[first] ELSE g.up[w]
  BY DEF Places
<1>2. h = [g EXCEPT !.in = g.in \ {first, last}, !.up = up]
  BY DEF CutPlaces
<1> HIDE DEF up
<1> QED
  BY <1>1, <1>2 DEF Places, PlacesCut

LEMMA RoleOfKid ==
  ASSUME NEW d, NEW g, Good(d, g), NEW c \in g.in, NEW id \in g.in \ g.roots, g.own[id] = c
  PROVE  IF d.var[c].type = "object" THEN g.role[id] \in {"key", "value"}
         ELSE g.role[id] = "element"
<1>1. PICK i \in 1..Len(Kids(d, c)) : Kids(d, c)[i] = id
  BY KidsInTree DEF Good
<1>2. g.role[id] = IF d.var[c].type # "object" THEN "element"
                   ELSE IF i % 2 = 1 THEN "key" ELSE "value"
  BY <1>1, KidsAlternate DEF Good
<1> QED
  BY <1>2

\* What was cut out is all that e has not, of what it is made of.
Unlinked(d, g, first, last, e, h) ==
  /\ CutOut(d, g, first, last, e, h) /\ SameMemory(d, e)
  /\ \A u \in g.in \ {first, last} : e.var[u].type = d.var[u].type /\ e.var[u].str = d.var[u].str

\* An element is removed from an array.
LEMMA ElementRemoved ==
  ASSUME NEW d, NEW g, Good(d, g), NEW c \in g.in, d.var[c].type = "array",
         NEW id \in g.in \ g.roots, g.own[id] = c
  PROVE  /\ RemoveOne(d, c, id).pools = d.pools
         /\ \E h : /\ Good(RemoveOne(d, c, id), h) /\ h.roots = g.roots
                  /\ Unlinked(Clear(d, id), Without(g, Below(d, id)), id, id, RemoveOne(d, c, id), h)
<1> DEFINE B == Below(d, id)
           f == Clear(d, id)
           g1 == Without(g, B)
           e == RemoveOne(d, c, id)
           next == d.var[id].next
           p == g.up[id]
           h == CutPlaces(g1, id, id, next)
<1>1. Tree(d, g) /\ d \in Documents /\ g \in Places /\ id \in Slots /\ id \in Nodes /\ id \in g.in
      /\ g.in \subseteq Nodes /\ g.roots \subseteq g.in
  BY TreeFacts, Sizes DEF Good
<1>2. Good(f, g1)
  BY <1>1, Cleared
<1>3. /\ SameMemory(d, f) /\ f.free = d.free \cup B
      /\ f.refs = RefsWithout(d, {id} \cup B)
      /\ \A u \in Nodes \ {id} : f.var[u] = d.var[u]
      /\ f.var[id].type = "null" /\ f.var[id].head = NullSlot /\ f.var[id].next = next
  <2>1. Emptied(d, id, f)
    BY <1>1, ClearFields
  <2> QED
    BY <2>1 DEF Emptied
<1>4. /\ SameMemory(d, e) /\ e.free = d.free \cup B \cup {id}
      /\ e.refs = RefsWithout(d, {id} \cup B)
      /\ \A u \in Nodes \ {id} :
           /\ e.var[u].type = d.var[u].type /\ e.var[u].str = d.var[u].str
           /\ e.var[u].head = IF u = p /\ d.var[p].head = id THEN next ELSE d.var[u].head
           /\ e.var[u].next = IF u = p /\ d.var[p].next = id THEN next ELSE d.var[u].next
           /\ e.var[u].tail = IF u = c /\ next = NullSlot
                              THEN IF p = u THEN NullSlot ELSE p ELSE d.var[u].tail
      /\ e.refs \in [Long -> Nat] => e \in Documents
  <2>1. Removed(d, g, c, id, e)
    BY <1>1, RemoveOneFields
  <2> QED
    BY <2>1 DEF Removed
<1>5. B \subseteq g.in \ g.roots /\ id \notin B
  BY <1>1, BelowInTree
<1>6. /\ g1 \in Places /\ g1.in = g.in \ B /\ g1.roots = g.roots /\ g1.own = g.own
      /\ g1.up = g.up /\ g1.role = g.role /\ g1.rank = g.rank /\ g1.top = g.top
  <2>1. g.roots \ B = g.roots
    BY <1>5
  <2> QED
    BY <1>1, <2>1, WithoutFields
<1> HIDE DEF e, f, g1, B
<1>7. /\ h \in Places /\ h.in = g1.in \ {id, id} /\ h.roots = g1.roots
      /\ h.rank = g1.rank /\ h.top = g1.top /\ h.own = g1.own /\ h.role = g1.role
      /\ \A w \in Nodes : h.up[w] = IF w = next THEN g1.up[id] ELSE g1.up[w]
  <2> HIDE DEF next, p
  <2>1. PlacesCut(g1, id, id, next, h)
    BY <1>1, <1>6, CutPlacesFields
  <2> HIDE DEF h
  <2> QED
    BY <2>1 DEF PlacesCut
<1>8. e \in Documents
  <2>1. f \in Documents /\ e.refs = f.refs
    BY <1>2, <1>3, <1>4 DEF Good, Tree
  <2>2. f.refs \in [Long -> Nat]
    BY <2>1 DEF Documents
  <2> QED
    BY <1>4, <2>1, <2>2
<1>9. g.role[id] = "element"
  <2>1. d.var[c].type # "object"
    OBVIOUS
  <2> QED
    BY <2>1, RoleOfKid
<1>10. p \in g.in /\ p # id /\ c \in g.in /\ c # id
  <2>1. p \in g.in /\ id \in Links(d, p) /\ g.rank[c] < g.rank[id]
    BY <1>1 DEF Tree, Forest
  <2>2. g.rank[p] < g.rank[id] /\ g.rank[id] \in Nat /\ g.rank[c] \in Nat
    BY <1>1, <2>1, TreeFacts DEF Tree, Forest, Links, Linked
  <2> QED
    BY <2>1, <2>2
<1> HIDE DEF h, next, p
<1>11. ASSUME NEW u \in g1.in \ {id, id}
       PROVE  /\ u \in Nodes \ {id} /\ f.var[u] = d.var[u]
              /\ e.var[u].head = IF u = p /\ f.var[p].head = id THEN next ELSE f.var[u].head
              /\ e.var[u].next = IF u = p /\ f.var[p].next = id THEN next ELSE f.var[u].next
              /\ e.var[u].type = f.var[u].type /\ e.var[u].str = f.var[u].str
              /\ e.var[u].tail = IF u = c /\ next = NullSlot
                                 THEN IF p = u THEN NullSlot ELSE p ELSE f.var[u].tail
  <2>1. u \in Nodes \ {id} /\ f.var[u] = d.var[u] /\ f.var[p] = d.var[p]
    BY <1>1, <1>3, <1>6, <1>10
  <2> QED
    BY <1>4, <2>1
<1>12. p = g1.up[id] /\ next = f.var[id].next /\ c = g1.own[id] /\ f.var[c] = d.var[c]
  BY <1>1, <1>3, <1>6, <1>10 DEF p
<1>13. CutOut(f, g1, id, id, e, h)
  <2>1. id \in g1.in \ g1.roots
    BY <1>5, <1>6
  <2> QED
    BY <1>3, <1>7, <1>8, <1>11, <1>12, <2>1 DEF CutOut
<1>14. SameMemory(f, e) /\ e.refs = f.refs /\ e.free = f.free \cup {id, id}
  BY <1>3, <1>4 DEF SameMemory
<1>15. Good(e, h)
  <2>1. /\ g1.role[id] = "element" /\ f.var[g1.own[id]].type \in Collection
        /\ f.var[id].type = "null"
    BY <1>3, <1>6, <1>9, <1>12 DEF Collection
  <2>2. \A u \in g1.in \ {id, id} :
          /\ e.var[u].type = f.var[u].type /\ e.var[u].str = f.var[u].str
          /\ e.var[u].tail = IF u = g1.own[id] /\ f.var[id].next = NullSlot
                             THEN IF g1.up[id] = u THEN NullSlot ELSE g1.up[id]
                             ELSE f.var[u].tail
    BY <1>11, <1>12
  <2> QED
    BY <1>2, <1>13, <1>14, <2>1, <2>2, CutOutGood
<1>16. e.pools = d.pools
  BY <1>4 DEF SameMemory
<1>17. Unlinked(f, g1, id, id, e, h)
  <2>1. \A u \in g1.in \ {id, id} :
          e.var[u].type = f.var[u].type /\ e.var[u].str = f.var[u].str
    BY <1>11
  <2> QED
    BY <1>13, <1>14, <2>1 DEF Unlinked
<1> QED
  BY <1>6, <1>7, <1>15, <1>16, <1>17 DEF e, f, g1, B

\* A member is removed from an object.
LEMMA MemberRemoved ==
  ASSUME NEW d, NEW g, Good(d, g), NEW c \in g.in, d.var[c].type = "object",
         NEW key \in g.in \ g.roots, g.own[key] = c, g.role[key] = "key"
  PROVE  LET value == d.var[key].next
             c1 == Clear(d, value)
             g1 == Without(g, Below(d, value))
         IN /\ RemovePair(d, c, key).pools = d.pools
            /\ \E h : /\ Good(RemovePair(d, c, key), h) /\ h.roots = g.roots
                     /\ Unlinked(Clear(c1, key), Without(g1, Below(c1, key)), key, value,
                                 RemovePair(d, c, key), h)
<1> DEFINE value == d.var[key].next
           next == d.var[value].next
           p == g.up[key]
           B == Below(d, value)
           c1 == Clear(d, value)
           g1 == Without(g, B)
           D == Below(c1, key)
           c2 == Clear(c1, key)
           g3 == Without(g1, D)
           d1 == [d EXCEPT !.var[key].next = next]
           d2 == FreeVariant(d1, value)
           g2 == CutPlaces(g1, value, value, next)
           e == RemoveOne(d2, c, key)
           h == CutPlaces(g3, key, value, next)
<1>1. /\ Tree(d, g) /\ d \in Documents /\ g \in Places /\ key \in Slots /\ key \in Nodes
      /\ key \in g.in /\ c \in Nodes /\ g.in \subseteq Nodes /\ g.roots \subseteq g.in
      /\ g.in \ g.roots \subseteq Slots /\ \A u \in Nodes : g.rank[u] \in Nat
  BY TreeFacts, Sizes DEF Good
<1>2. value # NullSlot /\ g.role[value] = "value"
  BY <1>1 DEF Good, Alternating
<1> HIDE DEF next, p, B, c1, g1, D, c2, g3, d1, d2, g2, e, h
<1>3. /\ value \in g.in \ g.roots /\ g.up[value] = key /\ g.own[value] = c
      /\ g.rank[key] < g.rank[value] /\ g.rank[c] < g.rank[key] /\ d.var[key].head # value
  BY <1>1, <1>2, Sizes DEF Good, Tree, Forest, Linked
<1>4. value = d.var[key].next
  OBVIOUS
<1> HIDE DEF value
<1>5. /\ value \in Slots /\ value \in Nodes /\ value \in g.in /\ next \in 0..NullSlot
      /\ value # key /\ c # key /\ c # value
  BY <1>1, <1>3, VarType DEF next
<1>6. next # key /\ next # value
  <2>1. next # NullSlot => g.rank[value] < g.rank[next] /\ next \in Nodes
    BY <1>1, <1>5, VarType, Sizes DEF Tree, Forest, Linked, next
  <2> QED
    BY <1>1, <1>3, <1>5, <2>1, Sizes
<1>7. /\ p \in g.in /\ p \in Nodes /\ p # key /\ (d.var[p].head = key \/ d.var[p].next = key)
  <2>1. p \in g.in /\ key \in Links(d, p)
    BY <1>1 DEF Tree, Forest, p
  <2>2. d.var[p].head = key \/ d.var[p].next = key
    BY <2>1 DEF Links
  <2>3. g.rank[p] < g.rank[key]
    BY <1>1, <2>1, <2>2, Sizes DEF Tree, Forest, Linked
  <2> QED
    BY <1>1, <2>1, <2>2, <2>3
<1>8. Good(c1, g1)
  BY <1>5, Cleared DEF c1, g1, B
<1>9. Emptied(d, value, c1)
  BY <1>1, <1>5, ClearFields DEF c1
<1>10. B \subseteq g.in \ g.roots /\ value \notin B /\ key \notin B /\ c \notin B
  <2>1. B \subseteq g.in \ g.roots /\ value \notin B /\ \A w \in B : g.rank[value] < g.rank[w]
    BY <1>1, <1>5, BelowInTree DEF B
  <2> QED
    BY <1>1, <1>3, <1>5, <2>1
<1>11. /\ g1 \in Places /\ g1.in = g.in \ B /\ g1.roots = g.roots /\ g1.own = g.own
       /\ g1.up = g.up /\ g1.role = g.role /\ g1.rank = g.rank
  <2>1. g.roots \ B = g.roots
    BY <1>10
  <2> QED
    BY <1>1, <2>1, WithoutFields DEF g1
<1>12. c1 \in Documents /\ Tree(c1, g1)
  BY <1>8 DEF Good, Tree
<1>13. \A u \in Nodes \ {value} : c1.var[u] = d.var[u]
  BY <1>9 DEF Emptied
<1>14. /\ c1.var[value].type = "null" /\ c1.var[value].head = NullSlot
       /\ c1.var[value].tail = NullSlot /\ c1.var[value].next = next
       /\ SameMemory(d, c1) /\ c1.free = d.free \cup B /\ c1.refs = RefsWithout(d, {value} \cup B)
  BY <1>9 DEF Emptied, B, next
<1>15. /\ Rewired(d, d1)
       /\ \A u \in Nodes : /\ d1.var[u].next = IF u = key THEN next ELSE d.var[u].next
                           /\ d1.var[u].head = d.var[u].head /\ d1.var[u].tail = d.var[u].tail
  BY <1>1, <1>5, NextSet DEF d1
<1>16. Below(d1, value) = B
  <2>1. d1 \in Documents /\ d1.var[value].head = d.var[value].head
    BY <1>5, <1>15 DEF Rewired
  <2>2. \A u \in B : Links(d1, u) = Links(d, u)
    BY <1>1, <1>10, <1>15 DEF Links
  <2> QED
    BY <1>1, <1>5, <2>1, <2>2, BelowSame DEF B
<1>17. /\ SameMemory(d1, d2) /\ d2.free = d1.free \cup B \cup {value}
       /\ d2.refs = RefsWithout(d1, {value} \cup B)
       /\ \A u \in Nodes \ {value} : d2.var[u] = d1.var[u]
       /\ d2.var[value].type = "null" /\ d2.var[value].head = NullSlot
       /\ d2.var[value].tail = NullSlot /\ d2.var[value].next = d1.var[value].next
       /\ d2.refs \in [Long -> Nat] => d2 \in Documents
  <2>1. d1 \in Documents
    BY <1>15 DEF Rewired
  <2> DEFINE f == FreeVariant(d1, value)
  <2>2. /\ SameMemory(d1, f) /\ f.free = d1.free \cup Below(d1, value) \cup {value}
        /\ f.refs = RefsWithout(d1, {value} \cup Below(d1, value))
        /\ \A u \in Nodes \ {value} : f.var[u] = d1.var[u]
        /\ f.var[value].type = "null" /\ f.var[value].head = NullSlot
        /\ f.var[value].tail = NullSlot /\ f.var[value].next = d1.var[value].next
        /\ f.refs \in [Long -> Nat] => f \in Documents
    BY <1>5, <2>1, FreeFields
  <2> QED
    BY <1>16, <2>2 DEF d2
<1>18. RefsWithout(d1, {value} \cup B) = RefsWithout(d, {value} \cup B)
  <2>1. \A u \in {value} \cup B : u \in Nodes
    BY <1>1, <1>5, <1>10
  <2>2. \A s : Owners(d1, {value} \cup B, s) = Owners(d, {value} \cup B, s)
    BY <1>15, <2>1 DEF Owners, Rewired
  <2>3. d1.refs = d.refs
    BY <1>15 DEF Rewired
  <2> QED
    BY <2>2, <2>3 DEF RefsWithout
<1>19. d2.refs = c1.refs /\ d2 \in Documents
  <2>1. c1.refs \in [Long -> Nat]
    BY <1>12 DEF Documents
  <2> QED
    BY <1>14, <1>17, <1>18, <2>1
<1>20. \A u \in Nodes : /\ d2.var[u].head = c1.var[u].head /\ d2.var[u].tail = c1.var[u].tail
                        /\ d2.var[u].type = c1.var[u].type
                        /\ d2.var[u].next = IF u = key THEN next ELSE c1.var[u].next
                        /\ u # value => d2.var[u].str = c1.var[u].str
  <2> SUFFICES ASSUME NEW u \in Nodes
      PROVE  /\ d2.var[u].head = c1.var[u].head /\ d2.var[u].tail = c1.var[u].tail
             /\ d2.var[u].type = c1.var[u].type
             /\ d2.var[u].next = IF u = key THEN next ELSE c1.var[u].next
             /\ u # value => d2.var[u].str = c1.var[u].str
    OBVIOUS
  <2>1. CASE u = value
    BY <1>5, <1>14, <1>15, <1>17, <2>1 DEF next
  <2>2. CASE u # value
    <3>1. d2.var[u] = d1.var[u] /\ c1.var[u] = d.var[u]
      BY <1>13, <1>17, <2>2
    <3> QED
      BY <1>15, <2>2, <3>1 DEF Rewired
  <2> QED
    BY <2>1, <2>2
<1>21. PlacesCut(g1, value, value, next, g2)
  BY <1>5, <1>11, CutPlacesFields DEF g2
<1>22. CutOut(c1, g1, value, value, d2, g2)
  <2>1. g1.up[value] = key /\ value \in g1.in \ g1.roots /\ c1.var[value].next = next
    BY <1>3, <1>10, <1>11, <1>14
  <2>2. c1.var[key].head # value /\ c1.var[key].next = value
    BY <1>1, <1>3, <1>4, <1>5, <1>13
  <2>3. \A u \in g1.in \ {value, value} :
          /\ d2.var[u].head = IF u = key /\ c1.var[key].head = value THEN next ELSE c1.var[u].head
          /\ d2.var[u].next = IF u = key /\ c1.var[key].next = value THEN next ELSE c1.var[u].next
    BY <1>1, <1>11, <1>20, <2>2
  <2> QED
    BY <1>14, <1>19, <1>21, <2>1, <2>3 DEF CutOut, PlacesCut
<1>23. Tree(d2, g2)
  BY <1>12, <1>22, CutOutTree
<1>24. /\ key \in g2.in \ g2.roots /\ g2.own[key] = c /\ c \in g2.in /\ g2.up[key] = p
  BY <1>1, <1>3, <1>5, <1>6, <1>10, <1>11, <1>21 DEF PlacesCut, p
<1>25. D \subseteq g1.in \ g1.roots /\ value \notin D /\ key \notin D /\ c \notin D
  <2>1. key \in g1.in
    BY <1>1, <1>10, <1>11
  <2>2. /\ D \subseteq g1.in \ g1.roots /\ c1.var[key].next \notin D /\ key \notin D
        /\ \A w \in D : g1.rank[key] < g1.rank[w]
    BY <1>12, <2>1, BelowInTree DEF D
  <2>3. c1.var[key].next = value
    BY <1>1, <1>4, <1>5, <1>13
  <2> QED
    BY <1>1, <1>3, <1>11, <2>2, <2>3
<1>26. Below(d2, key) = D
  <2>1. d2.var[key].head = c1.var[key].head
    BY <1>1, <1>20
  <2>2. \A u \in D : Links(d2, u) = Links(c1, u)
    BY <1>1, <1>11, <1>20, <1>25 DEF Links
  <2> QED
    BY <1>1, <1>12, <1>19, <2>1, <2>2, BelowSame DEF D
<1>27. Removed(d2, g2, c, key, e)
  BY <1>23, <1>24, RemoveOneFields DEF e
<1>28. d2.var[key].next = next
  BY <1>1, <1>20
<1>29. /\ SameMemory(d2, e) /\ e.free = d2.free \cup D \cup {key}
       /\ e.refs = RefsWithout(d2, {key} \cup D)
       /\ \A u \in Nodes \ {key} :
            /\ e.var[u].type = d2.var[u].type /\ e.var[u].str = d2.var[u].str
            /\ e.var[u].head = IF u = p /\ d2.var[p].head = key THEN next ELSE d2.var[u].head
            /\ e.var[u].next = IF u = p /\ d2.var[p].next = key THEN next ELSE d2.var[u].next
            /\ e.var[u].tail = IF u = c /\ next = NullSlot
                               THEN IF p = u THEN NullSlot ELSE p ELSE d2.var[u].tail
       /\ e.refs \in [Long -> Nat] => e \in Documents
  BY <1>24, <1>26, <1>27, <1>28 DEF Removed
<1>30. Good(c2, g3) /\ Emptied(c1, key, c2)
  <2>1. key \in g1.in
    BY <1>1, <1>10, <1>11
  <2> QED
    BY <1>1, <1>8, <1>12, <2>1, Cleared, ClearFields DEF c2, g3, D
<1>31. /\ c2.var[key].type = "null" /\ c2.var[key].head = NullSlot /\ c2.var[key].next = value
       /\ SameMemory(c1, c2) /\ c2.free = c1.free \cup D /\ c2.refs = RefsWithout(c1, {key} \cup D)
       /\ \A u \in Nodes \ {key} : c2.var[u] = c1.var[u]
  <2>1. c1.var[key].next = value
    BY <1>1, <1>4, <1>5, <1>13
  <2> QED
    BY <1>30, <2>1 DEF Emptied, D
<1>32. RefsWithout(d2, {key} \cup D) = RefsWithout(c1, {key} \cup D)
  <2>1. \A u \in {key} \cup D : u \in Nodes \ {value}
    BY <1>1, <1>5, <1>11, <1>25
  <2>2. \A s : Owners(d2, {key} \cup D, s) = Owners(c1, {key} \cup D, s)
    BY <1>20, <2>1 DEF Owners
  <2> QED
    BY <1>19, <2>2 DEF RefsWithout
<1>33. e.refs = c2.refs /\ e \in Documents
  <2>1. c2 \in Documents
    BY <1>30 DEF Good, Tree
  <2>2. c2.refs \in [Long -> Nat]
    BY <2>1 DEF Documents
  <2> QED
    BY <1>29, <1>31, <1>32, <2>2
<1>34. /\ g3 \in Places /\ g3.in = g1.in \ D /\ g3.roots = g.roots /\ g3.own = g.own
       /\ g3.up = g.up /\ g3.role = g.role /\ g3.rank = g.rank
  <2>1. g1.roots \ D = g.roots
    BY <1>11, <1>25
  <2> QED
    BY <1>11, <2>1, WithoutFields DEF g3
<1>35. PlacesCut(g3, key, value, next, h)
  BY <1>1, <1>34, CutPlacesFields DEF h
<1>36. /\ key \in g3.in \ g3.roots /\ value \in g3.in \ g3.roots /\ g3.up[key] = p
       /\ g3.own[key] = c /\ g3.role[key] = "key"
       /\ c2.var[value].next = next /\ c2.var[value].head = NullSlot
       /\ c2.var[value].type = "null" /\ c2.var[c].type = "object"
  <2>1. c2.var[value] = c1.var[value] /\ c2.var[c] = d.var[c]
    BY <1>1, <1>5, <1>13, <1>31
  <2> QED
    BY <1>1, <1>3, <1>10, <1>11, <1>14, <1>25, <1>34, <2>1 DEF p
<1>37. ASSUME NEW u \in g3.in \ {key, value}
       PROVE  /\ e.var[u].type = c2.var[u].type /\ e.var[u].str = c2.var[u].str
              /\ e.var[u].head = IF u = p /\ c2.var[p].head = key THEN next ELSE c2.var[u].head
              /\ e.var[u].next = IF u = p /\ c2.var[p].next = key THEN next ELSE c2.var[u].next
              /\ e.var[u].tail = IF u = c /\ next = NullSlot
                                 THEN IF p = u THEN NullSlot ELSE p ELSE c2.var[u].tail
  <2>1. u \in Nodes /\ u # key /\ u # value
    BY <1>1, <1>11, <1>34, <1>37
  <2>2. /\ d2.var[u].head = c2.var[u].head /\ d2.var[u].tail = c2.var[u].tail
        /\ d2.var[u].type = c2.var[u].type /\ d2.var[u].next = c2.var[u].next
        /\ d2.var[u].str = c2.var[u].str
    BY <1>20, <1>31, <2>1
  <2>3. d2.var[p].head = c2.var[p].head /\ d2.var[p].next = c2.var[p].next
    BY <1>7, <1>20, <1>31
  <2> QED
    BY <1>29, <2>1, <2>2, <2>3
<1>38. CutOut(c2, g3, key, value, e, h)
  BY <1>31, <1>33, <1>35, <1>36, <1>37 DEF CutOut, PlacesCut
<1>39. SameMemory(c2, e) /\ SameMemory(d, e) /\ e.free = c2.free \cup {key, value}
  <2>1. e.free = d.free \cup B \cup {value} \cup D \cup {key} /\ c2.free = d.free \cup B \cup D
    BY <1>14, <1>15, <1>17, <1>29, <1>31 DEF Rewired
  <2> QED
    BY <1>14, <1>15, <1>17, <1>29, <1>31, <2>1 DEF Rewired, SameMemory
<1>40. Good(e, h)
  <2>1. \A u \in g3.in \ {key, value} :
          /\ e.var[u].type = c2.var[u].type /\ e.var[u].str = c2.var[u].str
          /\ e.var[u].tail = IF u = g3.own[key] /\ c2.var[value].next = NullSlot
                             THEN IF g3.up[key] = u THEN NullSlot ELSE g3.up[key]
                             ELSE c2.var[u].tail
    BY <1>36, <1>37
  <2>2. c2.var[g3.own[key]].type \in Collection
    BY <1>36 DEF Collection
  <2>3. c2.var[key].type = "null" /\ c2.var[value].type = "null" /\ key # value /\ e.refs = c2.refs
    BY <1>5, <1>31, <1>33, <1>36
  <2> QED
    BY <1>30, <1>36, <1>38, <1>39, <2>1, <2>2, <2>3, CutOutGood
<1>41. e = RemovePair(d, c, key)
  BY DEF RemovePair, e, d2, d1, next, value
<1>42. e.pools = d.pools /\ h.roots = g.roots
  BY <1>34, <1>35, <1>39 DEF SameMemory, PlacesCut
<1>43. Unlinked(c2, g3, key, value, e, h)
  <2>1. \A u \in g3.in \ {key, value} :
          e.var[u].type = c2.var[u].type /\ e.var[u].str = c2.var[u].str
    BY <1>37
  <2> QED
    BY <1>38, <1>39, <2>1 DEF Unlinked
<1> QED
  BY <1>40, <1>41, <1>42, <1>43 DEF c2, g3, c1, g1, B, D, value

-----------------------------------------------------------------------------
(***************************************************************************)
(* What the operations do to a document                                    *)
(***************************************************************************)

LEMMA OverflowNoted ==
  ASSUME NEW d, NEW g, Good(d, g)
  PROVE  /\ Good([d EXCEPT !.overflowed = TRUE], g) /\ [d EXCEPT !.overflowed = TRUE] \in Documents
         /\ [d EXCEPT !.overflowed = TRUE].var = d.var
         /\ [d EXCEPT !.overflowed = TRUE].pools = d.pools
         /\ [d EXCEPT !.overflowed = TRUE].overflowed
<1> DEFINE e == [d EXCEPT !.overflowed = TRUE]
<1>1. d \in Documents /\ PoolsOK(d)
  BY DEF Good, Tree
<1>2. /\ e \in Documents /\ e.pools = d.pools /\ e.capacity = d.capacity /\ (e.moved <=> d.moved)
      /\ e.free = d.free /\ e.var = d.var /\ e.refs = d.refs /\ e.overflowed
  BY <1>1 DEF Documents
<1> HIDE DEF e
<1>3. PoolsOK(e) /\ Given(e) = Given(d)
  BY <1>1, <1>2 DEF PoolsOK, Given
<1>4. Good(e, g)
  BY <1>2, <1>3, Regarded
<1> QED
  BY <1>2, <1>4 DEF e

LEMMA ShrunkGood ==
  ASSUME NEW d, NEW g, Good(d, g), NEW e \in Shrunk(d)
  PROVE  Good(e, g) /\ e.var = d.var
<1> DEFINE n == Len(d.pools)
           fit == IF n = 0 THEN d ELSE [d EXCEPT !.pools[n].capacity = d.pools[n].usage]
<1>1. d \in Documents /\ PoolsOK(d)
  BY DEF Good, Tree
<1>2. /\ n \in Nat /\ DOMAIN d.pools = 1..n
      /\ \A m \in 1..n : /\ d.pools[m] \in [capacity : Nat, usage : Nat]
                         /\ d.pools[m].capacity \in Nat /\ d.pools[m].usage \in Nat
      /\ d.pools = << >> <=> n = 0
      /\ d.pools \in Seq([capacity : Nat, usage : Nat])
  BY <1>1, PoolFacts
<1>3. /\ fit \in Documents /\ Len(fit.pools) = n
      /\ \A m \in 1..n : /\ fit.pools[m].usage = d.pools[m].usage
                         /\ fit.pools[m].capacity = IF m = n THEN d.pools[m].usage
                                                    ELSE d.pools[m].capacity
      /\ fit.capacity = d.capacity /\ (fit.moved <=> d.moved) /\ fit.free = d.free
      /\ fit.var = d.var /\ fit.refs = d.refs /\ (fit.overflowed <=> d.overflowed)
  <2>1. CASE n = 0
    BY <1>1, <1>2, <2>1
  <2>2. CASE n # 0
    <3> DEFINE q == [d.pools EXCEPT ![n] = [d.pools[n] EXCEPT !.capacity = d.pools[n].usage]]
    <3>1. /\ q \in Seq([capacity : Nat, usage : Nat]) /\ Len(q) = n
          /\ \A m \in 1..n : /\ q[m].usage = d.pools[m].usage
                             /\ q[m].capacity = IF m = n THEN d.pools[m].usage
                                                ELSE d.pools[m].capacity
      <4> DEFINE y == [d.pools[n] EXCEPT !.capacity = d.pools[n].usage]
      <4>1. /\ y \in [capacity : Nat, usage : Nat] /\ y.capacity = d.pools[n].usage
            /\ y.usage = d.pools[n].usage /\ n \in 1..n
        BY <1>2, <2>2
      <4> HIDE DEF y, n
      <4>2. q = [d.pools EXCEPT ![n] = y]
        BY DEF y
      <4> HIDE DEF q
      <4>3. q \in Seq([capacity : Nat, usage : Nat]) /\ Len(q) = Len(d.pools) /\ q[n] = y
            /\ \A m \in 1..n : m # n => q[m] = d.pools[m]
        BY <1>2, <4>1, <4>2
      <4> QED
        BY <4>1, <4>3 DEF n
    <3>2. fit = [d EXCEPT !.pools = q]
      BY <2>2
    <3> HIDE DEF q, fit, n
    <3>3. /\ fit \in Documents /\ fit.pools = q /\ fit.capacity = d.capacity
          /\ (fit.moved <=> d.moved) /\ fit.free = d.free /\ fit.var = d.var
          /\ fit.refs = d.refs /\ (fit.overflowed <=> d.overflowed)
      BY <1>1, <3>1, <3>2 DEF Documents
    <3> QED
      BY <3>1, <3>3
  <2> QED
    BY <2>1, <2>2
<1>4. PICK f \in {d, fit} : e = IF d.moved THEN [f EXCEPT !.capacity = n] ELSE f
  BY DEF Shrunk
<1> HIDE DEF fit, n
<1>12. /\ f \in Documents /\ Len(f.pools) = n
       /\ \A m \in 1..n : /\ f.pools[m].usage = d.pools[m].usage
                          /\ f.pools[m].capacity = d.pools[m].usage
                                \/ f.pools[m].capacity = d.pools[m].capacity
       /\ f.capacity = d.capacity /\ (f.moved <=> d.moved) /\ f.free = d.free
       /\ f.var = d.var /\ f.refs = d.refs /\ (f.overflowed <=> d.overflowed)
  <2>1. CASE f = d
    BY <1>1, <2>1 DEF n
  <2>2. CASE f = fit
    BY <1>3, <2>2
  <2> QED
    BY <2>1, <2>2
<1>5. /\ e \in Documents /\ e.pools = f.pools /\ e.capacity = (IF d.moved THEN n ELSE f.capacity)
      /\ (e.moved <=> d.moved) /\ e.free = d.free /\ e.var = d.var /\ e.refs = d.refs
      /\ (e.overflowed <=> d.overflowed)
  <2>1. CASE d.moved
    <3>1. e = [f EXCEPT !.capacity = n]
      BY <1>4, <2>1
    <3> QED
      BY <1>2, <1>12, <2>1, <3>1 DEF Documents
  <2>2. CASE ~ d.moved
    BY <1>12, <1>4, <2>2
  <2> QED
    BY <2>1, <2>2
<1>6. DOMAIN e.pools = 1..n /\ Len(e.pools) = n
  BY <1>12, <1>5, PoolFacts
<1>7. PoolsOK(e)
  <2>1. ASSUME NEW m \in 1..n
        PROVE  /\ e.pools[m].usage <= e.pools[m].capacity /\ e.pools[m].capacity <= PoolCapacity
               /\ m = MaxPools => e.pools[m].capacity < PoolCapacity
    <3>1. /\ d.pools[m].usage <= d.pools[m].capacity /\ d.pools[m].capacity <= PoolCapacity
          /\ m = MaxPools => d.pools[m].capacity < PoolCapacity
          /\ d.pools[m].usage \in Nat /\ d.pools[m].capacity \in Nat
      BY <1>1, <1>2 DEF PoolsOK
    <3>2. e.pools[m].usage = d.pools[m].usage
          /\ (e.pools[m].capacity = d.pools[m].usage \/ e.pools[m].capacity = d.pools[m].capacity)
      BY <1>12, <1>5
    <3> QED
      BY <3>1, <3>2, Sizes
  <2>2. n <= e.capacity /\ e.capacity > 0 /\ (e.moved => e.pools # << >>)
    <3>1. n <= d.capacity /\ d.capacity > 0 /\ (d.moved => d.pools # << >>)
      BY <1>1 DEF PoolsOK, n
    <3>2. e.pools = << >> <=> n = 0
      BY <1>5, <1>6, PoolFacts
    <3> QED
      BY <1>2, <1>12, <1>5, <3>1, <3>2
  <2> QED
    BY <1>6, <2>1, <2>2 DEF PoolsOK
<1>8. Given(e) = Given(d)
  <2>1. \A m \in 1..n : e.pools[m].usage = d.pools[m].usage
    BY <1>12, <1>5
  <2>2. \A x : x \in Given(e) <=> x \in Given(d)
    <3>1. Len(e.pools) = n /\ Len(d.pools) = n
      BY <1>6 DEF n
    <3>2. ASSUME NEW x PROVE x \in Given(e) <=> x \in Given(d)
      <4> DEFINE Is(m, i) == x = (m - 1) * PoolCapacity + i
      <4>1. x \in Given(e) <=> \E m \in 1..n : \E i \in 0..e.pools[m].usage - 1 : Is(m, i)
        <5>1. e \in Documents
          BY <1>5
        <5>2. x \in Given(e) <=> \E m \in 1..Len(e.pools) :
                \E i \in 0..e.pools[m].usage - 1 : Is(m, i)
          BY <5>1, GivenIs
        <5> QED
          BY <3>1, <5>2
      <4>2. x \in Given(d) <=> \E m \in 1..n : \E i \in 0..d.pools[m].usage - 1 : Is(m, i)
        BY <1>1, <3>1, GivenIs
      <4> HIDE DEF Is
      <4> QED
        BY <2>1, <4>1, <4>2
    <3> QED
      BY <3>2
  <2> QED
    BY <2>2
<1>9. Good(e, g)
  BY <1>5, <1>7, <1>8, Regarded
<1> QED
  BY <1>5, <1>9

\* The places of a new document.
OnlyRoot ==
  [in |-> {Root}, roots |-> {Root}, up |-> [u \in Nodes |-> Root], own |-> [u \in Nodes |-> Root],
   role |-> [u \in Nodes |-> "element"], rank |-> [u \in Nodes |-> 0], top |-> 1]

LEMMA EmptyGood == Good(Empty, OnlyRoot)
<1>1. /\ Root \in Nodes /\ NullVariant \in Variants /\ NullVariant.head = NullSlot
      /\ NullVariant.tail = NullSlot /\ NullVariant.next = NullSlot /\ NullVariant.type = "null"
  BY Sizes, NullFields
<1>2. InitialPools \in Nat /\ InitialPools > 0
  BY PoolsAssumption
<1>3. /\ Empty \in Documents /\ Empty.pools = << >> /\ Empty.capacity = InitialPools
      /\ ~ Empty.moved /\ Empty.free = {} /\ \A u \in Nodes : Empty.var[u] = NullVariant
      /\ \A s \in Long : Empty.refs[s] = 0
  BY <1>1, <1>2 DEF Empty, Documents, Nodes
<1>4. /\ OnlyRoot \in Places /\ OnlyRoot.in = {Root} /\ OnlyRoot.roots = {Root}
      /\ OnlyRoot.top = 1 /\ \A u \in Nodes : OnlyRoot.rank[u] = 0 /\ OnlyRoot.role[u] = "element"
  BY <1>1 DEF OnlyRoot, Places
<1> DEFINE d == Empty
           g == OnlyRoot
<1> HIDE DEF d, g
<1>5. Tree(d, g) /\ Tails(d, g) /\ Alternating(d, g)
  BY <1>1, <1>3, <1>4 DEF Tree, Forest, Tails, Alternating, Collection, d, g
<1>6. PoolsOK(d)
  BY <1>2, <1>3 DEF PoolsOK, d
<1>7. Accounted(d, g)
  <2>1. Given(d) = {}
    BY <1>3 DEF Given, d
  <2> QED
    BY <1>3, <1>4, <2>1 DEF Accounted, d, g
<1>8. Counted(d, g)
  <2>1. \A s : Owners(d, {Root}, s) = {}
    BY <1>1, <1>3 DEF Owners, d
  <2> QED
    BY <1>3, <1>4, <2>1, FS_EmptySet DEF Counted, d, g
<1> QED
  BY <1>5, <1>6, <1>7, <1>8 DEF Good, d, g

\* A string becomes the value of a slot that was null.
LEMMA SavedGood ==
  ASSUME NEW d, NEW g, Good(d, g), NEW v \in g.in, d.var[v].type = "null", NEW s \in Strings
  PROVE  /\ Good(Saved(d, v, s), g) /\ Saved(d, v, s) \in Documents
         /\ Saved(d, v, s).pools = d.pools
         /\ \A u \in Nodes \ {v} : Saved(d, v, s).var[u] = d.var[u]
         /\ Saved(d, v, s).var[v].next = d.var[v].next
<1> DEFINE e == Saved(d, v, s)
           ty == IF s \in Long THEN "owned" ELSE "plain"
           y == [d.var[v] EXCEPT !.type = ty, !.str = s]
           refs == [t \in Long |-> d.refs[t] + (IF t = s THEN 1 ELSE 0)]
           var == [d.var EXCEPT ![v] = y]
<1>1. d \in Documents /\ v \in Nodes /\ d.var[v] \in Variants /\ s \in Strings \cup Plain \cup {""}
  BY TreeFacts, VarType DEF Good
<1>2. /\ y \in Variants /\ y.type = ty /\ y.str = s /\ y.head = d.var[v].head
      /\ y.tail = d.var[v].tail /\ y.next = d.var[v].next /\ ty \in {"owned", "plain"}
      /\ ty \in Types
  BY <1>1 DEF Variants, Types
<1>3. e = [d EXCEPT !.var = var, !.refs = refs]
  BY <1>1 DEF Saved, Documents
<1>4. /\ var \in [Nodes -> Variants] /\ var[v] = y /\ \A u \in Nodes \ {v} : var[u] = d.var[u]
  BY <1>1, <1>2 DEF Documents
<1>5. refs \in [Long -> Nat] /\ \A t \in Long : refs[t] = d.refs[t] + (IF t = s THEN 1 ELSE 0)
  <2>1. d.refs \in [Long -> Nat]
    BY <1>1 DEF Documents
  <2> QED
    BY <2>1
<1> HIDE DEF e, refs, var, y
<1>6. /\ e \in Documents /\ e.pools = d.pools /\ SameMemory(d, e) /\ e.free = d.free
      /\ e.var = var /\ e.refs = refs
  BY <1>1, <1>3, <1>4, <1>5 DEF Documents, SameMemory
<1>7. \A t \in Long : e.refs[t] = d.refs[t] +
        (IF e.var[v].type = "owned" /\ e.var[v].str = t THEN 1 ELSE 0)
  BY <1>2, <1>4, <1>5, <1>6
<1>8. /\ e.var[v].type \in {"plain", "owned", "array", "object"} /\ e.var[v].head = d.var[v].head
      /\ e.var[v].tail = d.var[v].tail /\ e.var[v].next = d.var[v].next
      /\ \A u \in Nodes \ {v} : e.var[u] = d.var[u]
  BY <1>2, <1>4, <1>6
<1> HIDE DEF ty
<1>9. Good(e, g)
  BY <1>6, <1>7, <1>8, Relabelled
<1> QED
  BY <1>6, <1>8, <1>9 DEF e

LEMMA StringSet ==
  ASSUME NEW d, NEW g, Good(d, g), NEW v \in g.in, d.var[v].type = "null", NEW s \in Strings,
         NEW r \in SetString(d, v, s)
  PROVE  /\ Good(r[1], g) /\ r[1] \in Documents /\ r[1].pools = d.pools
         /\ \A u \in Nodes \ {v} : r[1].var[u] = d.var[u]
         /\ r[2] \in {v, NullSlot}
         /\ r[2] = NullSlot => r[1].overflowed /\ r[1].var = d.var
<1>1. r = <<Saved(d, v, s), v>> \/ r = <<[d EXCEPT !.overflowed = TRUE], NullSlot>>
  BY DEF SetString, Saved
<1>2. v # NullSlot
  BY TreeFacts, Sizes DEF Good
<1>3. CASE r = <<Saved(d, v, s), v>>
  <2> DEFINE e == Saved(d, v, s)
  <2>1. /\ Good(e, g) /\ e \in Documents /\ e.pools = d.pools
        /\ \A u \in Nodes \ {v} : e.var[u] = d.var[u]
    BY SavedGood
  <2> HIDE DEF e
  <2>2. r[1] = e /\ r[2] = v
    BY <1>3 DEF e
  <2> QED
    BY <1>2, <2>1, <2>2
<1>4. CASE r = <<[d EXCEPT !.overflowed = TRUE], NullSlot>>
  <2> DEFINE e == [d EXCEPT !.overflowed = TRUE]
  <2>1. Good(e, g) /\ e \in Documents /\ e.pools = d.pools /\ e.var = d.var /\ e.overflowed
    BY OverflowNoted
  <2> HIDE DEF e
  <2>2. r[1] = e /\ r[2] = NullSlot
    BY <1>4 DEF e
  <2> QED
    BY <2>1, <2>2
<1> QED
  BY <1>1, <1>3, <1>4

\* What was in use still is, where it was; only the values of X are others.
Continues(d, g, e, h, X) ==
  /\ Good(e, h) /\ g.in \subseteq h.in /\ h.roots = g.roots
  /\ \A u \in g.in : h.rank[u] = g.rank[u]
  /\ \A u \in g.in \ X : e.var[u] = d.var[u]

\* The values that a program or a text can give.
AllValues == Strings \cup Plain \cup {"ext", "array", "object"}

\* A value becomes that of a slot that was null.
LEMMA NullSet ==
  ASSUME NEW d, NEW g, Good(d, g), NEW v \in g.in, d.var[v].type = "null",
         NEW value \in AllValues, NEW r \in SetNull(d, v, value), Len(r[1].pools) <= MaxPools
  PROVE  /\ r[1] \in Documents /\ Len(d.pools) <= Len(r[1].pools) /\ r[2] \in {v, NullSlot}
         /\ \E h : Continues(d, g, r[1], h, {v})
         /\ r[2] = NullSlot => r[1].overflowed /\ r[1].var[v] = d.var[v]
         /\ value \in Collection => r[2] = v /\ r[1].var[v].type = value
<1>1. /\ d \in Documents /\ v \in Nodes /\ v # NullSlot /\ g.in \subseteq Nodes
      /\ g \in Places /\ Len(d.pools) \in Nat
  BY TreeFacts, PoolFacts, Sizes DEF Good
<1>2. CASE value \in Strings
  <2>1. r \in SetString(d, v, value)
    BY <1>2, StringsAssumption DEF SetNull, Then, Strings, Plain
  <2>2. /\ Good(r[1], g) /\ r[1] \in Documents /\ r[1].pools = d.pools
        /\ \A u \in Nodes \ {v} : r[1].var[u] = d.var[u]
        /\ r[2] \in {v, NullSlot}
        /\ r[2] = NullSlot => r[1].overflowed /\ r[1].var = d.var
    BY <1>2, <2>1, StringSet
  <2>3. Continues(d, g, r[1], g, {v})
    BY <1>1, <2>2 DEF Continues
  <2>4. value \notin Collection
    BY <1>2, StringsAssumption DEF Strings, Collection
  <2> QED
    BY <1>1, <2>2, <2>3, <2>4
<1>3. CASE value = "ext"
  <2>1. value \notin Long \cup Short
    BY <1>3, StringsAssumption
  <2>2. PICK q \in Alloc(d) :
          r = IF q[2] = NullSlot THEN q
              ELSE <<[q[1] EXCEPT !.var[v].type = "ext", !.var[v].head = q[2]], v>>
    BY <1>3, <2>1 DEF SetNull, Then, Plain
  <2>3. CASE q[2] = NullSlot
    <3>1. r = q
      BY <2>2, <2>3
    <3>2. Len(q[1].pools) <= MaxPools
      BY <3>1
    <3>3. /\ q[1] \in Documents /\ Len(d.pools) <= Len(q[1].pools) /\ q[1].overflowed
          /\ q[1].var = d.var /\ Good(q[1], g)
      <4>1. q[2] \notin Slots
        BY <2>3, Sizes
      <4> QED
        BY <3>2, <4>1, Allocated
    <3>4. Continues(d, g, r[1], g, {v})
      BY <3>1, <3>3 DEF Continues
    <3> QED
      BY <1>3, <2>3, <3>1, <3>3, <3>4 DEF Collection
  <2>4. CASE q[2] # NullSlot
    <3> DEFINE f == q[1]
               id == q[2]
               y == [f.var[v] EXCEPT !.type = "ext", !.head = id]
               e == [f EXCEPT !.var = [f.var EXCEPT ![v] = y]]
               k == With(g, id)
               h == Hung(k, id, v, v, "element")
    <3> HIDE DEF f, id
    <3>1. r[1] = [f EXCEPT !.var[v].type = "ext", !.var[v].head = id] /\ r[2] = v
      BY <2>2, <2>4 DEF f, id
    <3>2. e = [f EXCEPT !.var[v].type = "ext", !.var[v].head = id]
      OBVIOUS
    <3> HIDE DEF e
    <3>3. r[1] = e
      BY <3>1, <3>2
    <3>4. Len(f.pools) <= MaxPools => 
            /\ f \in Documents /\ Len(d.pools) <= Len(f.pools)
            /\ id \in Slots \ g.in /\ Good(f, k) /\ f.var[id] = NullVariant
            /\ \A u \in Nodes \ {id} : f.var[u] = d.var[u]
      BY <2>4, Allocated DEF f, id
    <3>5. e.pools = f.pools
      BY DEF e
    <3>6. /\ f \in Documents /\ Len(d.pools) <= Len(f.pools)
          /\ id \in Slots \ g.in /\ Good(f, k) /\ f.var[id] = NullVariant
          /\ \A u \in Nodes \ {id} : f.var[u] = d.var[u]
      BY <3>3, <3>4, <3>5
    <3>7. /\ k \in Places /\ k.in = g.in \cup {id} /\ k.roots = g.roots \cup {id}
          /\ k.role[id] = "element" /\ k.rank[id] = g.top
          /\ \A u \in Nodes \ {id} : k.rank[u] = g.rank[u]
      BY <1>1, <3>6, WithFields
    <3> HIDE DEF k
    <3>8. v # id /\ f.var[v] = d.var[v] /\ f.var[v] \in Variants
      BY <1>1, <3>6, VarType
    <3>9. /\ y \in Variants /\ y.type = "ext" /\ y.head = id /\ y.tail = d.var[v].tail
          /\ y.next = d.var[v].next
      BY <3>6, <3>8, Sizes DEF Variants, Types
    <3> HIDE DEF y
    <3>10. /\ e \in Documents /\ SameMemory(f, e) /\ e.free = f.free /\ e.refs = f.refs
           /\ e.var[v] = y /\ \A u \in Nodes \ {v} : e.var[u] = f.var[u]
      BY <1>1, <3>6, <3>9, VarReplaced DEF e
    <3>11. id \in k.roots \ {Root, v} /\ k.rank[v] < k.rank[id] /\ v \in k.in /\ id \in Nodes
      <4>1. g.rank[v] < g.top
        BY DEF Good, Tree, Forest
      <4> QED
        BY <1>1, <3>6, <3>7, <3>8, <4>1, Sizes
    <3>12. Good(e, h)
      BY <3>6, <3>7, <3>8, <3>9, <3>10, <3>11, Extended
    <3>13. /\ h.in = k.in /\ h.rank = k.rank
      BY <3>7 DEF Hung, Places
    <3>14. h.roots = g.roots
      <4>1. h.roots = k.roots \ {id}
        BY <3>7 DEF Hung, Places
      <4>2. id \notin g.roots
        BY <3>6, TreeFacts DEF Good
      <4> QED
        BY <3>7, <4>1, <4>2
    <3> HIDE DEF h
    <3>15. Continues(d, g, e, h, {v})
      BY <1>1, <3>6, <3>7, <3>10, <3>12, <3>13, <3>14 DEF Continues
    <3>16. v # NullSlot /\ value \notin Collection
      BY <1>1, <1>3 DEF Collection
    <3> QED
      BY <3>1, <3>3, <3>5, <3>6, <3>10, <3>15, <3>16
  <2> QED
    BY <2>3, <2>4
<1>4. CASE value \in Plain \cup Collection
  <2>1. value \notin Strings /\ value # "ext"
    BY <1>4, StringsAssumption DEF Strings, Plain, Collection
  <2> DEFINE y == IF value \in Plain THEN [d.var[v] EXCEPT !.type = "plain", !.str = value]
                  ELSE [d.var[v] EXCEPT !.type = value]
             e == [d EXCEPT !.var = [d.var EXCEPT ![v] = y]]
  <2>2. r = <<e, v>>
    <3>1. CASE value \in Plain
      <4>1. r = <<[d EXCEPT !.var[v].type = "plain", !.var[v].str = value], v>>
        BY <2>1, <3>1 DEF SetNull, Strings
      <4> QED
        BY <3>1, <4>1
    <3>2. CASE value \notin Plain
      <4>1. r = <<[d EXCEPT !.var[v].type = value], v>>
        BY <2>1, <3>2 DEF SetNull, Strings
      <4> QED
        BY <3>2, <4>1
    <3> QED
      BY <3>1, <3>2
  <2>3. /\ y \in Variants /\ y.head = d.var[v].head /\ y.tail = d.var[v].tail
        /\ y.next = d.var[v].next
        /\ y.type = IF value \in Plain THEN "plain" ELSE value
    BY <1>1, <1>4, VarType DEF Variants, Types, Collection
  <2> HIDE DEF y, e
  <2>4. /\ e \in Documents /\ SameMemory(d, e) /\ e.free = d.free /\ e.refs = d.refs
        /\ e.var[v] = y /\ \A u \in Nodes \ {v} : e.var[u] = d.var[u]
    BY <1>1, <2>3, VarReplaced DEF e
  <2>5. e.var[v].type \in {"plain", "owned", "array", "object"} /\ e.var[v].type # "owned"
    BY <1>4, <2>3, <2>4 DEF Collection
  <2>6. \A s \in Long : e.refs[s] = d.refs[s] +
          (IF e.var[v].type = "owned" /\ e.var[v].str = s THEN 1 ELSE 0)
    <3>1. \A s \in Long : d.refs[s] \in Nat
      BY <1>1 DEF Documents
    <3> QED
      BY <2>4, <2>5, <3>1
  <2>7. Good(e, g)
    BY <2>3, <2>4, <2>5, <2>6, Relabelled
  <2>8. Continues(d, g, e, g, {v})
    BY <1>1, <2>4, <2>7 DEF Continues
  <2>9. value \in Collection => e.var[v].type = value
    BY <2>3, <2>4 DEF Collection, Plain
  <2>10. r[1] = e /\ r[2] = v /\ Len(d.pools) <= Len(e.pools)
    BY <1>1, <2>2, <2>4 DEF SameMemory
  <2> QED
    BY <1>1, <2>4, <2>8, <2>9, <2>10
<1> QED
  BY <1>2, <1>3, <1>4 DEF AllValues, Collection

\* The value of a slot is replaced: first what it was is given back.
LEMMA VariantSet ==
  ASSUME NEW d, NEW g, Good(d, g), NEW v \in g.in,
         NEW value \in AllValues, NEW r \in Set(d, v, value), Len(r[1].pools) <= MaxPools
  PROVE  /\ r[1] \in Documents /\ Len(d.pools) <= Len(r[1].pools) /\ r[2] \in {v, NullSlot}
         /\ \E h : /\ Good(r[1], h) /\ g.in \ Below(d, v) \subseteq h.in /\ h.roots = g.roots
                   /\ \A u \in g.in \ Below(d, v) : h.rank[u] = g.rank[u]
                   /\ \A u \in g.in \ (Below(d, v) \cup {v}) : r[1].var[u] = d.var[u]
         /\ r[2] = NullSlot => r[1].overflowed
<1> DEFINE f == Clear(d, v)
           k == Without(g, Below(d, v))
<1>1. d \in Documents /\ v \in Nodes /\ g \in Places /\ g.in \subseteq Nodes /\ Tree(d, g)
  BY TreeFacts DEF Good
<1>2. Good(f, k) /\ Emptied(d, v, f)
  BY <1>1, Cleared, ClearFields
<1>3. Below(d, v) \subseteq g.in \ g.roots /\ v \notin Below(d, v)
  BY <1>1, BelowInTree
<1>4. k.in = g.in \ Below(d, v) /\ k.roots = g.roots /\ k.rank = g.rank
  <2>1. g.roots \ Below(d, v) = g.roots
    BY <1>3
  <2> QED
    BY <1>1, <2>1, WithoutFields
<1>5. f.var[v].type = "null" /\ f.pools = d.pools /\ \A u \in Nodes \ {v} : f.var[u] = d.var[u]
  BY <1>2 DEF Emptied, SameMemory
<1>6. r \in SetNull(f, v, value)
  BY DEF Set
<1> HIDE DEF f, k
<1>7. v \in k.in
  BY <1>3, <1>4
<1>8. /\ r[1] \in Documents /\ Len(f.pools) <= Len(r[1].pools) /\ r[2] \in {v, NullSlot}
      /\ \E h : Continues(f, k, r[1], h, {v})
      /\ r[2] = NullSlot => r[1].overflowed
  <2>1. Good(f, k) /\ v \in k.in /\ f.var[v].type = "null" /\ Len(r[1].pools) <= MaxPools
    BY <1>2, <1>5, <1>7
  <2>2. r[1] \in Documents /\ Len(f.pools) <= Len(r[1].pools) /\ r[2] \in {v, NullSlot}
    BY <1>6, <2>1, NullSet
  <2>3. \E h : Continues(f, k, r[1], h, {v})
    BY <1>6, <2>1, NullSet
  <2>4. r[2] = NullSlot => r[1].overflowed
    BY <1>6, <2>1, NullSet
  <2> QED
    BY <2>2, <2>3, <2>4
<1>9. PICK h : Continues(f, k, r[1], h, {v})
  BY <1>8
<1>10. /\ Good(r[1], h) /\ g.in \ Below(d, v) \subseteq h.in /\ h.roots = g.roots
       /\ \A u \in g.in \ Below(d, v) : h.rank[u] = g.rank[u]
       /\ \A u \in g.in \ (Below(d, v) \cup {v}) : r[1].var[u] = d.var[u]
  BY <1>1, <1>4, <1>5, <1>9 DEF Continues
<1> QED
  BY <1>5, <1>8, <1>10

\* A slot that was taken and that nothing leads to can be lost once memory ran out.
LEMMA Leaked ==
  ASSUME NEW d, NEW g, Good(d, g), NEW x \in g.roots \ {Root}, d.overflowed,
         d.var[x].head = NullSlot, d.var[x].type # "owned"
  PROVE  /\ Good(d, Without(g, {x}))
         /\ Without(g, {x}).in = g.in \ {x} /\ Without(g, {x}).roots = g.roots \ {x}
         /\ Without(g, {x}).rank = g.rank
<1>1. d \in Documents /\ PoolsOK(d) /\ g \in Places
  BY TreeFacts DEF Good
<1> QED
  BY <1>1, Dropped, WithoutFields

\* The key that was found is one of the object's, and its value follows.
LEMMA FindKeyIs ==
  ASSUME NEW d, NEW g, Good(d, g), NEW c \in g.in, d.var[c].type = "object", NEW s,
         FindKey(d, c, s) # NullSlot
  PROVE  LET key == FindKey(d, c, s) IN
         /\ key \in g.in \ g.roots /\ g.own[key] = c /\ g.role[key] = "key"
         /\ d.var[key].next \in g.in \ g.roots /\ d.var[key].next # NullSlot
         /\ g.rank[c] < g.rank[d.var[key].next]
<1> DEFINE kids == Kids(d, c)
           hits == {i \in DOMAIN kids : i % 2 = 1 /\ d.var[kids[i]].str = s}
           key == FindKey(d, c, s)
<1>1. /\ Tree(d, g) /\ Alternating(d, g) /\ kids \in Seq(Slots)
      /\ \A i \in 1..Len(kids) : kids[i] \in g.in \ g.roots /\ g.own[kids[i]] = c
  BY KidsInTree DEF Good
<1>2. \A i \in 1..Len(kids) : i % 2 = 1 => g.role[kids[i]] = "key"
  BY <1>1, KidsAlternate
<1>3. key = IF hits = {} THEN NullSlot ELSE kids[Min(hits)]
  BY DEF FindKey
<1> HIDE DEF key, kids
<1>4. DOMAIN kids = 1..Len(kids) /\ Len(kids) \in Nat
  BY <1>1
<1>5. hits # {}
  BY <1>3 DEF key
<1>6. Min(hits) \in hits
  <2>1. hits \in SUBSET Nat
    BY <1>4
  <2> HIDE DEF hits
  <2> QED
    BY <1>5, <2>1, MinIs
<1>7. key \in g.in \ g.roots /\ g.own[key] = c /\ g.role[key] = "key"
  <2>1. Min(hits) \in 1..Len(kids) /\ Min(hits) % 2 = 1
    BY <1>4, <1>6
  <2> HIDE DEF hits
  <2> QED
    BY <1>1, <1>2, <1>3, <1>5, <2>1
<1>8. d.var[key].next # NullSlot /\ g.role[d.var[key].next] = "value"
  BY <1>1, <1>7 DEF Alternating
<1>9. /\ d.var[key].next \in g.in \ g.roots /\ g.own[d.var[key].next] = c
  BY <1>1, <1>7, <1>8 DEF Tree, Forest, Linked
<1>10. g.rank[c] < g.rank[d.var[key].next]
  BY <1>1, <1>9 DEF Tree, Forest
<1> QED
  BY <1>7, <1>8, <1>9, <1>10 DEF key

\* All that was in use still is, where it was and as what it was.
Keeps(d, g, e, h) ==
  /\ Good(e, h) /\ g.in \subseteq h.in /\ h.roots = g.roots
  /\ \A u \in g.in : h.rank[u] = g.rank[u] /\ e.var[u].type = d.var[u].type

\* A null value that came after all others.
Newest(g, e, h, v) ==
  v \in h.in /\ v # NullSlot /\ e.var[v].type = "null" /\ \A u \in g.in : g.rank[u] < h.rank[v]

LEMMA KeepsOn ==
  ASSUME NEW d, NEW g, NEW e, NEW h, NEW f, NEW k, Keeps(d, g, e, h), Keeps(e, h, f, k)
  PROVE  Keeps(d, g, f, k)
BY DEF Keeps

\* An array gets one more element.
LEMMA ElementAdded ==
  ASSUME NEW d, NEW g, Good(d, g), NEW c \in g.in, d.var[c].type = "array",
         NEW r \in AddElement(d, c), Len(r[1].pools) <= MaxPools
  PROVE  /\ Len(d.pools) <= Len(r[1].pools)
         /\ \E h : Keeps(d, g, r[1], h) /\ (r[2] # NullSlot => Newest(g, r[1], h, r[2]))
<1>1. /\ d \in Documents /\ g.in \subseteq Nodes /\ g \in Places /\ c \in Nodes
      /\ g.top \in Nat /\ g.roots \subseteq g.in
  <2>1. /\ d \in Documents /\ g.in \subseteq Nodes /\ g \in Places /\ c \in Nodes
        /\ g.roots \subseteq g.in
    BY TreeFacts DEF Good
  <2> QED
    BY <2>1 DEF Places
<1>2. PICK q \in Alloc(d) :
        r = IF q[2] = NullSlot THEN q ELSE <<AppendOne(q[1], c, q[2]), q[2]>>
  BY DEF AddElement, Then
<1>3. CASE q[2] = NullSlot
  <2>1. r = q /\ q[2] \notin Slots
    BY <1>2, <1>3, Sizes
  <2>2. Len(q[1].pools) <= MaxPools
    BY <2>1
  <2>3. Len(d.pools) <= Len(q[1].pools) /\ Good(q[1], g) /\ q[1].var = d.var
    BY <2>1, <2>2, Allocated
  <2>4. Keeps(d, g, q[1], g)
    BY <1>1, <2>3 DEF Keeps
  <2> QED
    BY <1>3, <2>1, <2>3, <2>4
<1>4. CASE q[2] # NullSlot
  <2> DEFINE f == q[1]
             id == q[2]
             k == With(g, id)
             e == AppendOne(f, c, id)
  <2>1. r = <<e, id>>
    BY <1>2, <1>4
  <2> HIDE DEF f, id
  <2>2. Len(f.pools) <= MaxPools =>
          /\ f \in Documents /\ Len(d.pools) <= Len(f.pools)
          /\ id \in Slots \ g.in /\ Good(f, k) /\ f.var[id] = NullVariant
          /\ \A u \in Nodes \ {id} : f.var[u] = d.var[u]
    BY <1>4, Allocated DEF f, id
  <2>3. e.pools = f.pools
    BY DEF AppendOne, Append1
  <2> HIDE DEF e, k
  <2>4. r[1] = e /\ r[2] = id
    BY <2>1
  <2>5. /\ f \in Documents /\ Len(d.pools) <= Len(f.pools)
        /\ id \in Slots \ g.in /\ Good(f, k) /\ f.var[id] = NullVariant
        /\ \A u \in Nodes \ {id} : f.var[u] = d.var[u]
    BY <2>2, <2>3, <2>4
  <2>6. /\ k \in Places /\ k.in = g.in \cup {id} /\ k.roots = g.roots \cup {id}
        /\ k.rank[id] = g.top /\ \A u \in Nodes \ {id} : k.rank[u] = g.rank[u]
    BY <1>1, <2>5, WithFields DEF k
  <2>7. \A u \in g.in : u # id /\ u \in Nodes /\ g.rank[u] < g.top /\ f.var[u] = d.var[u]
    BY <1>1, <2>5 DEF Good, Tree, Forest
  <2>8. /\ f.var[c].type = "array" /\ id \in k.roots \ {Root} /\ k.rank[c] < k.rank[id]
        /\ c \in k.in
        /\ f.var[c].tail # NullSlot => k.rank[f.var[c].tail] < k.rank[id]
    <3>1. d.var[c].tail # NullSlot => d.var[c].tail \in g.in
      BY TailIs
    <3> QED
      BY <2>5, <2>6, <2>7, <3>1, Sizes
  <2>9. /\ Rewired(f, e)
        /\ \E h : /\ Good(e, h) /\ h.in = k.in /\ h.rank = k.rank
                  /\ \A u : u \in h.roots <=> u \in k.roots \ {id}
    BY <2>5, <2>8, ElementAppended DEF e
  <2>10. PICK h : /\ Good(e, h) /\ h.in = k.in /\ h.rank = k.rank
                  /\ \A u : u \in h.roots <=> u \in k.roots \ {id}
    BY <2>9
  <2>11. h.roots = g.roots
    <3>1. id \notin g.roots
      BY <1>1, <2>5
    <3> QED
      BY <2>6, <2>10, <3>1
  <2>12. Keeps(d, g, e, h)
    BY <2>6, <2>7, <2>9, <2>10, <2>11 DEF Keeps, Rewired
  <2>13. Newest(g, e, h, id)
    <3>1. id \in Nodes /\ id # NullSlot /\ f.var[id].type = "null"
      BY <2>5, NullFields, Sizes
    <3> QED
      BY <2>6, <2>7, <2>9, <2>10, <3>1 DEF Newest, Rewired
  <2> QED
    BY <2>3, <2>4, <2>5, <2>12, <2>13
<1> QED
  BY <1>3, <1>4

\* The slots of a member were taken, and are not yet part of its object.
Held(d, g, f, k, key, value) ==
  /\ Good(f, k) /\ k.in = g.in \cup {key, value} /\ k.roots = g.roots \cup {key, value}
  /\ key \in Slots \ g.in /\ value \in Slots \ g.in /\ key # value
  /\ f.var[value] = NullVariant
  /\ \A u \in g.in : k.rank[u] = g.rank[u] /\ k.rank[u] < k.rank[key] /\ f.var[u] = d.var[u]
  /\ k.rank[key] < k.rank[value] /\ \A u \in k.in : k.rank[u] \in Nat

LEMMA TwoTaken ==
  ASSUME NEW d, NEW g, Good(d, g), NEW q \in Alloc(d), q[2] # NullSlot,
         NEW p \in Alloc(q[1]), Len(p[1].pools) <= MaxPools
  PROVE  /\ Len(d.pools) <= Len(p[1].pools)
         /\ p[2] = NullSlot => \E h : Keeps(d, g, p[1], h)
         /\ p[2] # NullSlot => /\ p[1].var[q[2]] = NullVariant
                               /\ \E k : Held(d, g, p[1], k, q[2], p[2])
<1> DEFINE e == q[1]
           key == q[2]
           f == p[1]
           value == p[2]
           j == With(g, key)
           k == With(j, value)
<1>1. /\ d \in Documents /\ g.in \subseteq Nodes /\ g \in Places
      /\ g.top \in Nat /\ g.roots \subseteq g.in /\ \A u \in g.in : g.rank[u] \in Nat
  <2>1. /\ d \in Documents /\ g.in \subseteq Nodes /\ g \in Places /\ g.roots \subseteq g.in
        /\ \A u \in Nodes : g.rank[u] \in Nat
    BY TreeFacts DEF Good
  <2> QED
    BY <2>1 DEF Places
<1>2. Shaped(d) /\ Shaped(e) /\ Shaped(f) /\ Len(e.pools) <= Len(f.pools)
  BY <1>1, ShapedDocument, AllocGrows DEF Grows
<1>3. Len(d.pools) \in Nat /\ Len(e.pools) \in Nat /\ Len(f.pools) \in Nat /\ MaxPools \in Nat
  BY <1>2, ShapedLen, MaxPoolsIs
<1>4. Len(e.pools) <= MaxPools
  <2> HIDE DEF e
  <2> QED
    BY <1>2, <1>3
<1>5. /\ Len(d.pools) <= Len(e.pools) /\ key \in Slots \ g.in /\ Good(e, j)
      /\ e.var[key] = NullVariant /\ \A u \in Nodes \ {key} : e.var[u] = d.var[u]
  BY <1>4, Allocated
<1> HIDE DEF e, f, key, value, j, k
<1>6. /\ j \in Places /\ j.in = g.in \cup {key} /\ j.roots = g.roots \cup {key}
      /\ j.rank[key] = g.top /\ j.top = g.top + 1
      /\ \A u \in Nodes \ {key} : j.rank[u] = g.rank[u]
  BY <1>1, <1>5, WithFields DEF j
<1>7. \A u \in g.in : u # key /\ u \in Nodes /\ g.rank[u] < g.top
  BY <1>1, <1>5 DEF Good, Tree, Forest
<1>8. p \in Alloc(e)
  BY DEF e
<1>9. Len(f.pools) <= MaxPools
  BY DEF f
<1>10. CASE value = NullSlot
  <2>1. Good(f, j) /\ f.var = e.var /\ f.overflowed
    <3>1. value \notin Slots
      BY <1>10, Sizes
    <3> QED
      BY <1>5, <1>8, <1>9, <3>1, Allocated DEF f, value
  <2> DEFINE h == Without(j, {key})
  <2>2. /\ Good(f, h) /\ h.in = j.in \ {key} /\ h.roots = j.roots \ {key} /\ h.rank = j.rank
    <3>1. key \in j.roots \ {Root}
      BY <1>5, <1>6, Sizes
    <3>2. f.var[key].head = NullSlot /\ f.var[key].type # "owned"
      BY <1>5, <2>1, NullFields
    <3> QED
      BY <2>1, <3>1, <3>2, Leaked
  <2> HIDE DEF h
  <2>3. h.in = g.in /\ h.roots = g.roots
    BY <1>1, <1>5, <1>6, <2>2
  <2>4. \A u \in g.in : h.rank[u] = g.rank[u] /\ f.var[u].type = d.var[u].type
    BY <1>5, <1>6, <1>7, <2>1, <2>2
  <2>5. Keeps(d, g, f, h)
    BY <2>2, <2>3, <2>4 DEF Keeps
  <2> QED
    BY <1>2, <1>3, <1>5, <1>10, <2>5 DEF f, value
<1>11. CASE value # NullSlot
  <2>1. /\ value \in Slots \ j.in /\ Good(f, k) /\ f.var[value] = NullVariant
        /\ \A u \in Nodes \ {value} : f.var[u] = e.var[u]
    BY <1>5, <1>8, <1>9, <1>11, Allocated DEF f, value, k
  <2>2. /\ k \in Places /\ k.in = j.in \cup {value} /\ k.roots = j.roots \cup {value}
        /\ k.rank[value] = j.top /\ \A u \in Nodes \ {value} : k.rank[u] = j.rank[u]
    BY <1>6, <2>1, WithFields DEF k
  <2>3. key # value /\ key \in Nodes /\ f.var[key] = NullVariant
    BY <1>5, <1>6, <2>1, Sizes
  <2>4. \A u \in g.in : u # key /\ u # value /\ u \in Nodes
    BY <1>6, <1>7, <2>1
  <2>5. \A u \in g.in : k.rank[u] = g.rank[u] /\ k.rank[u] < k.rank[key] /\ f.var[u] = d.var[u]
    BY <1>5, <1>6, <1>7, <2>1, <2>2, <2>3, <2>4
  <2>6. k.rank[key] < k.rank[value] /\ \A u \in k.in : k.rank[u] \in Nat
    <3>1. k.rank[key] = g.top /\ k.rank[value] = g.top + 1
      BY <1>6, <2>2, <2>3
    <3>2. k.in \subseteq Nodes /\ \A u \in Nodes : k.rank[u] \in Nat
      BY <2>1, TreeFacts DEF Good
    <3> QED
      BY <1>1, <3>1, <3>2
  <2>7. k.in = g.in \cup {key, value} /\ k.roots = g.roots \cup {key, value}
    BY <1>6, <2>2
  <2>8. Held(d, g, f, k, key, value)
    BY <1>5, <1>6, <2>1, <2>3, <2>5, <2>6, <2>7, NullFields DEF Held
  <2> QED
    BY <1>2, <1>3, <1>5, <1>11, <2>3, <2>8 DEF f, value, key
<1> QED
  BY <1>10, <1>11 DEF f, value, key

\* They become one,
LEMMA MemberHeld ==
  ASSUME NEW d, NEW g, Good(d, g), NEW c \in g.in, d.var[c].type = "object",
         NEW f, NEW k, NEW key, NEW value, Held(d, g, f, k, key, value)
  PROVE  LET e == AppendPair(f, c, key, value) IN
         /\ e.pools = f.pools /\ e.var[key].next = value /\ e.var[key].type = f.var[key].type
         /\ \E h : Keeps(d, g, e, h) /\ Newest(g, e, h, value) /\ key \in h.in
<1> DEFINE e == AppendPair(f, c, key, value)
<1>1. /\ Good(f, k) /\ k.in = g.in \cup {key, value} /\ k.roots = g.roots \cup {key, value}
      /\ key \in Slots \ g.in /\ value \in Slots \ g.in /\ key # value
      /\ f.var[value] = NullVariant
      /\ \A u \in g.in : k.rank[u] = g.rank[u] /\ k.rank[u] < k.rank[key] /\ f.var[u] = d.var[u]
      /\ k.rank[key] < k.rank[value] /\ \A u \in k.in : k.rank[u] \in Nat
  BY DEF Held
<1>2. g.in \subseteq Nodes /\ g.roots \subseteq g.in
  BY TreeFacts DEF Good
<1>3. /\ f.var[c].type = "object" /\ c \in k.in
      /\ key \in k.roots \ {Root} /\ value \in k.roots \ {Root}
      /\ k.rank[c] < k.rank[key]
      /\ f.var[c].tail # NullSlot => k.rank[f.var[c].tail] < k.rank[key]
  <2>1. d.var[c].tail # NullSlot => d.var[c].tail \in g.in
    BY TailIs
  <2> QED
    BY <1>1, <2>1, Sizes
<1> HIDE DEF e
<1>4. /\ Rewired(f, e) /\ e.var[key].next = value
      /\ \E h : /\ Good(e, h) /\ h.in = k.in /\ h.rank = k.rank
                /\ \A u : u \in h.roots <=> u \in k.roots \ {key, value}
  BY <1>1, <1>3, MemberAppended DEF e
<1>5. PICK h : /\ Good(e, h) /\ h.in = k.in /\ h.rank = k.rank
               /\ \A u : u \in h.roots <=> u \in k.roots \ {key, value}
  BY <1>4
<1>6. h.roots = g.roots
  <2>1. key \notin g.roots /\ value \notin g.roots
    BY <1>1, <1>2
  <2>2. \A u : u \in h.roots <=> u \in g.roots
    BY <1>1, <1>5, <2>1
  <2> QED
    BY <2>2
<1>7. e.pools = f.pools /\ \A u \in Nodes : e.var[u].type = f.var[u].type
  BY <1>4 DEF Rewired, SameMemory
<1>8. Keeps(d, g, e, h)
  BY <1>1, <1>2, <1>5, <1>6, <1>7 DEF Keeps
<1>9. Newest(g, e, h, value)
  <2>1. value \in Nodes /\ value # NullSlot /\ f.var[value].type = "null"
    BY <1>1, NullFields, Sizes
  <2>2. \A u \in g.in : k.rank[u] < k.rank[value]
    BY <1>1
  <2> QED
    BY <1>1, <1>5, <1>7, <2>1, <2>2 DEF Newest
<1>10. key \in h.in /\ key \in Nodes
  BY <1>1, <1>5, Sizes
<1> QED
  BY <1>4, <1>7, <1>8, <1>9, <1>10 DEF e

\* or are lost.
LEMMA HeldLeaked ==
  ASSUME NEW d, NEW g, Good(d, g), NEW f, NEW k, NEW key, NEW value,
         Held(d, g, f, k, key, value), f.overflowed, f.var[key] = NullVariant
  PROVE  \E h : Keeps(d, g, f, h)
<1>1. /\ Good(f, k) /\ k.in = g.in \cup {key, value} /\ k.roots = g.roots \cup {key, value}
      /\ key \in Slots \ g.in /\ value \in Slots \ g.in /\ key # value
      /\ f.var[value] = NullVariant /\ f.var[key].head = NullSlot /\ f.var[key].type # "owned"
      /\ \A u \in g.in : k.rank[u] = g.rank[u] /\ f.var[u] = d.var[u]
  BY NullFields DEF Held
<1>2. g.in \subseteq Nodes /\ g.roots \subseteq g.in
  BY TreeFacts DEF Good
<1> DEFINE j == Without(k, {value})
           h == Without(j, {key})
<1>3. /\ Good(f, j) /\ j.in = k.in \ {value} /\ j.roots = k.roots \ {value} /\ j.rank = k.rank
  <2>1. value \in k.roots \ {Root}
    BY <1>1, Sizes
  <2>2. f.var[value].head = NullSlot /\ f.var[value].type # "owned"
    BY <1>1, NullFields
  <2>3. Good(f, j)
    BY <1>1, <2>1, <2>2, Leaked
  <2>4. k \in Places
    BY <1>1 DEF Good, Tree
  <2> QED
    BY <2>3, <2>4, WithoutFields
<1> HIDE DEF j
<1>4. /\ Good(f, h) /\ h.in = j.in \ {key} /\ h.roots = j.roots \ {key} /\ h.rank = j.rank
  <2>1. key \in j.roots \ {Root}
    BY <1>1, <1>3, Sizes
  <2>2. Good(f, h)
    BY <1>1, <1>3, <2>1, Leaked
  <2>3. j \in Places
    BY <1>3 DEF Good, Tree
  <2> QED
    BY <2>2, <2>3, WithoutFields
<1> HIDE DEF h
<1>5. h.in = g.in /\ h.roots = g.roots
  BY <1>1, <1>2, <1>3, <1>4
<1> QED
  BY <1>1, <1>3, <1>4, <1>5 DEF Keeps

\* An object gets one more member, as the deserializer adds it.
LEMMA PairAdded ==
  ASSUME NEW d, NEW g, Good(d, g), NEW c \in g.in, d.var[c].type = "object",
         NEW r \in AddPair(d, c), Len(r[1].pools) <= MaxPools
  PROVE  /\ Len(d.pools) <= Len(r[1].pools)
         /\ \E h : /\ Keeps(d, g, r[1], h)
                   /\ r[2] # NullSlot =>
                        /\ r[2] \in h.in /\ r[1].var[r[2]].type = "null"
                        /\ r[1].var[r[2]].next # r[2]
                        /\ Newest(g, r[1], h, r[1].var[r[2]].next)
<1>1. d \in Documents /\ g.in \subseteq Nodes
  BY TreeFacts DEF Good
<1>2. PICK q \in Alloc(d) :
        IF q[2] = NullSlot THEN r = q
        ELSE \E p \in Alloc(q[1]) :
               r = IF p[2] = NullSlot THEN p ELSE <<AppendPair(p[1], c, q[2], p[2]), q[2]>>
  BY DEF AddPair, Then
<1>3. CASE q[2] = NullSlot
  <2>1. r = q /\ q[2] \notin Slots
    BY <1>2, <1>3, Sizes
  <2>2. Len(q[1].pools) <= MaxPools
    BY <2>1
  <2>3. Len(d.pools) <= Len(q[1].pools) /\ Good(q[1], g) /\ q[1].var = d.var
    BY <2>1, <2>2, Allocated
  <2>4. Keeps(d, g, q[1], g)
    BY <1>1, <2>3 DEF Keeps
  <2> QED
    BY <1>3, <2>1, <2>3, <2>4
<1>4. CASE q[2] # NullSlot
  <2>1. PICK p \in Alloc(q[1]) :
          r = IF p[2] = NullSlot THEN p ELSE <<AppendPair(p[1], c, q[2], p[2]), q[2]>>
    BY <1>2, <1>4
  <2>2. CASE p[2] = NullSlot
    <3>1. r = p
      BY <2>1, <2>2
    <3>2. Len(p[1].pools) <= MaxPools
      BY <3>1
    <3>3. Len(d.pools) <= Len(p[1].pools) /\ \E h : Keeps(d, g, p[1], h)
      BY <1>4, <2>2, <3>2, TwoTaken
    <3> QED
      BY <2>2, <3>1, <3>3
  <2>3. CASE p[2] # NullSlot
    <3> DEFINE f == p[1]
               key == q[2]
               value == p[2]
               e == AppendPair(f, c, key, value)
    <3>1. r = <<e, key>>
      BY <2>1, <2>3
    <3>2. e.pools = f.pools
      BY DEF AppendPair, Append1
    <3> HIDE DEF e
    <3>3. Len(f.pools) <= MaxPools
      BY <3>1, <3>2
    <3>4. /\ Len(d.pools) <= Len(f.pools) /\ f.var[key] = NullVariant
          /\ \E k : Held(d, g, f, k, key, value)
      BY <1>4, <2>3, <3>3, TwoTaken
    <3> HIDE DEF f, key, value
    <3>5. PICK k : Held(d, g, f, k, key, value)
      BY <3>4
    <3>6. /\ e.pools = f.pools /\ e.var[key].next = value /\ e.var[key].type = f.var[key].type
          /\ \E h : Keeps(d, g, e, h) /\ Newest(g, e, h, value) /\ key \in h.in
      BY <3>5, MemberHeld DEF e
    <3>7. r[1] = e /\ r[2] = key
      BY <3>1
    <3>8. e.var[key].type = "null" /\ value # key
      BY <3>4, <3>5, <3>6, NullFields DEF Held
    <3>9. PICK h : Keeps(d, g, e, h) /\ Newest(g, e, h, value) /\ key \in h.in
      BY <3>6
    <3>10. /\ key \in h.in /\ e.var[key].type = "null" /\ e.var[key].next # key
           /\ Newest(g, e, h, e.var[key].next)
      BY <3>6, <3>8, <3>9
    <3> QED
      BY <3>4, <3>6, <3>7, <3>9, <3>10
  <2> QED
    BY <2>2, <2>3
<1> QED
  BY <1>3, <1>4

\* The slot of a member's value, which may be there already.
LEMMA MemberGot ==
  ASSUME NEW d, NEW g, Good(d, g), NEW c \in g.in, d.var[c].type = "object", NEW s \in Strings,
         NEW r \in GetOrAddMember(d, c, s), Len(r[1].pools) <= MaxPools
  PROVE  /\ Len(d.pools) <= Len(r[1].pools)
         /\ \E h : Keeps(d, g, r[1], h) /\ (r[2] # NullSlot => r[2] \in h.in)
<1>1. d \in Documents /\ g.in \subseteq Nodes /\ Len(d.pools) \in Nat
  BY TreeFacts, PoolFacts DEF Good
<1>2. CASE FindKey(d, c, s) # NullSlot
  <2> DEFINE key == FindKey(d, c, s)
  <2>1. r = <<d, d.var[key].next>>
    BY <1>2 DEF GetOrAddMember, Then
  <2>2. d.var[key].next \in g.in \ g.roots
    BY <1>2, FindKeyIs
  <2> HIDE DEF key
  <2>3. Keeps(d, g, d, g)
    BY DEF Keeps
  <2>4. r[1] = d /\ r[2] \in g.in
    BY <2>1, <2>2
  <2> QED
    BY <1>1, <2>3, <2>4
<1>3. CASE FindKey(d, c, s) = NullSlot
  <2>1. PICK q \in Alloc(d) :
          IF q[2] = NullSlot THEN r = q
          ELSE \E p \in Alloc(q[1]) :
                 IF p[2] = NullSlot THEN r = p
                 ELSE \E z \in SetString(p[1], q[2], s) :
                        r = IF z[2] = NullSlot THEN z
                            ELSE <<AppendPair(z[1], c, q[2], p[2]), p[2]>>
    BY <1>3 DEF GetOrAddMember, Then
  <2>2. CASE q[2] = NullSlot
    <3>1. r = q /\ q[2] \notin Slots
      BY <2>1, <2>2, Sizes
    <3>2. Len(q[1].pools) <= MaxPools
      BY <3>1
    <3>3. Len(d.pools) <= Len(q[1].pools) /\ Good(q[1], g) /\ q[1].var = d.var
      BY <3>1, <3>2, Allocated
    <3>4. Keeps(d, g, q[1], g)
      BY <1>1, <3>3 DEF Keeps
    <3> QED
      BY <2>2, <3>1, <3>3, <3>4
  <2>3. CASE q[2] # NullSlot
    <3>1. PICK p \in Alloc(q[1]) :
            IF p[2] = NullSlot THEN r = p
            ELSE \E z \in SetString(p[1], q[2], s) :
                   r = IF z[2] = NullSlot THEN z
                       ELSE <<AppendPair(z[1], c, q[2], p[2]), p[2]>>
      BY <2>1, <2>3
    <3>2. CASE p[2] = NullSlot
      <4>1. r = p
        BY <3>1, <3>2
      <4>2. Len(p[1].pools) <= MaxPools
        BY <4>1
      <4>3. Len(d.pools) <= Len(p[1].pools) /\ \E h : Keeps(d, g, p[1], h)
        BY <2>3, <3>2, <4>2, TwoTaken
      <4> QED
        BY <3>2, <4>1, <4>3
    <3>3. CASE p[2] # NullSlot
      <4> DEFINE f == p[1]
                 key == q[2]
                 value == p[2]
      <4>1. PICK z \in SetString(f, key, s) :
              r = IF z[2] = NullSlot THEN z ELSE <<AppendPair(z[1], c, key, value), value>>
        BY <3>1, <3>3
      <4> DEFINE w == z[1]
                 e == AppendPair(w, c, key, value)
      <4>2. w.pools = f.pools /\ e.pools = w.pools
        <5> HIDE DEF f, key, value
        <5>1. \/ z = <<Saved(f, key, s), key>>
              \/ z = <<[f EXCEPT !.overflowed = TRUE], NullSlot>>
          BY DEF SetString, Saved
        <5>2. w.pools = f.pools
          <6> HIDE DEF w
          <6>1. CASE z = <<Saved(f, key, s), key>>
            <7>1. w = Saved(f, key, s)
              BY <6>1 DEF w
            <7> QED
              BY <7>1 DEF Saved
          <6>2. CASE z = <<[f EXCEPT !.overflowed = TRUE], NullSlot>>
            <7>1. Shaped(f)
              <8>1. Shaped(q[1])
                BY <1>1, ShapedDocument, AllocGrows DEF Grows
              <8> QED
                BY <8>1, AllocGrows DEF Grows, f
            <7>2. w = [f EXCEPT !.overflowed = TRUE]
              BY <6>2 DEF w
            <7> QED
              BY <7>1, <7>2 DEF Shaped
          <6> QED
            BY <5>1, <6>1, <6>2
        <5> HIDE DEF w
        <5>3. e.pools = w.pools
          BY DEF AppendPair, Append1
        <5> QED
          BY <5>2, <5>3
      <4> HIDE DEF e, w
      <4>3. r[1] = (IF z[2] = NullSlot THEN w ELSE e) /\ r[2] = IF z[2] = NullSlot THEN NullSlot ELSE value
        BY <4>1 DEF w, e
      <4>4. Len(f.pools) <= MaxPools
        BY <4>2, <4>3
      <4>5. /\ Len(d.pools) <= Len(f.pools) /\ f.var[key] = NullVariant
            /\ \E k : Held(d, g, f, k, key, value)
        BY <2>3, <3>3, <4>4, TwoTaken
      <4> HIDE DEF f, key, value
      <4>6. PICK k : Held(d, g, f, k, key, value)
        BY <4>5
      <4>7. key \in k.in /\ f.var[key].type = "null" /\ Good(f, k)
        BY <4>5, <4>6, NullFields DEF Held
      <4>8. /\ Good(w, k) /\ \A u \in Nodes \ {key} : w.var[u] = f.var[u]
            /\ z[2] = NullSlot => w.overflowed /\ w.var = f.var
        BY <4>7, StringSet DEF w
      <4>9. Held(d, g, w, k, key, value)
        BY <1>1, <4>6, <4>8, Sizes DEF Held
      <4>10. CASE z[2] = NullSlot
        <5>1. \E h : Keeps(d, g, w, h)
          BY <4>5, <4>8, <4>9, <4>10, HeldLeaked
        <5> QED
          BY <4>2, <4>3, <4>5, <4>10, <5>1
      <4>11. CASE z[2] # NullSlot
        <5>1. \E h : Keeps(d, g, e, h) /\ Newest(g, e, h, value)
          BY <4>9, MemberHeld DEF e
        <5>2. r[1] = e /\ r[2] = value
          BY <4>3, <4>11
        <5> QED
          BY <4>2, <4>5, <5>1, <5>2 DEF Newest
      <4> QED
        BY <4>10, <4>11
    <3> QED
      BY <3>2, <3>3
  <2> QED
    BY <2>2, <2>3
<1> QED
  BY <1>2, <1>3

\* The elements that GetOrAddElement adds, one after the other.
More(c, S) == UNION {IF r[2] = NullSlot THEN {r} ELSE AddElement(r[1], c) : r \in S}

AddedBy(d, c, m, f) ==
  f = [n \in 0..m |-> IF n = 0 THEN {<<d, c>>} ELSE More(c, f[n - 1])]

LEMMA AddedSteps ==
  ASSUME NEW d, NEW c, NEW i \in Nat
  PROVE  \E f : AddedBy(d, c, i, f)
<1> DEFINE S == {m \in Nat : \E f : AddedBy(d, c, m, f)}
<1>1. 0 \in S
  <2> DEFINE f == [n \in 0..0 |-> {<<d, c>>}]
  <2>1. AddedBy(d, c, 0, f)
    <3>1. \A n \in 0..0 : n = 0
      OBVIOUS
    <3> QED
      BY <3>1 DEF AddedBy
  <2> QED
    BY <2>1
<1>2. ASSUME NEW m \in Nat, m \in S PROVE m + 1 \in S
  <2>1. PICK f : AddedBy(d, c, m, f)
    BY <1>2
  <2> DEFINE g == [n \in 0..m + 1 |-> IF n = m + 1 THEN More(c, f[m]) ELSE f[n]]
             G(n) == IF n = 0 THEN {<<d, c>>} ELSE More(c, g[n - 1])
  <2>2. ASSUME NEW n \in 0..m + 1 PROVE g[n] = G(n)
    <3>1. CASE n = m + 1
      <4>1. n # 0 /\ n - 1 = m /\ m \in 0..m + 1 /\ m # m + 1
        BY <3>1
      <4>2. g[n] = More(c, f[m]) /\ g[m] = f[m]
        BY <3>1, <4>1
      <4> QED
        BY <4>1, <4>2
    <3>2. CASE n \in 1..m
      <4>1. n # m + 1 /\ n \in 0..m /\ n # 0 /\ n - 1 \in 0..m + 1 /\ n - 1 # m + 1
        BY <3>2
      <4>2. g[n] = f[n] /\ g[n - 1] = f[n - 1]
        BY <4>1
      <4>3. f[n] = More(c, f[n - 1])
        BY <2>1, <4>1 DEF AddedBy
      <4> QED
        BY <4>1, <4>2, <4>3
    <3>3. CASE n = 0
      <4>1. 0 # m + 1 /\ 0 \in 0..m
        OBVIOUS
      <4>2. f[0] = {<<d, c>>}
        BY <2>1, <4>1 DEF AddedBy
      <4> QED
        BY <3>3, <4>1, <4>2
    <3> QED
      BY <3>1, <3>2, <3>3
  <2>3. g = [n \in 0..m + 1 |-> G(n)]
    <3>1. g = [n \in 0..m + 1 |-> g[n]]
      OBVIOUS
    <3> HIDE DEF g, G
    <3> QED
      BY <2>2, <3>1
  <2>4. AddedBy(d, c, m + 1, g)
    <3> HIDE DEF g
    <3> QED
      BY <2>3 DEF AddedBy
  <2> HIDE DEF g
  <2> QED
    BY <2>4
<1>3. Nat \subseteq S
  <2> HIDE DEF S
  <2> QED
    BY <1>1, <1>2, SetInduction
<1> QED
  BY <1>3

LEMMA AddedAre ==
  ASSUME NEW d, NEW c, NEW i \in Nat, i > 0, NEW r \in GetOrAddElement(d, c, i)
  PROVE  \/ i \in 1..Len(Kids(d, c)) /\ r = <<d, Kids(d, c)[i]>>
         \/ \E f, m : AddedBy(d, c, i, f) /\ r \in f[m] /\ m = i - Len(Kids(d, c)) /\ ~ (i <= Len(Kids(d, c)))
<1> DEFINE Is(f) == f = [n \in 0..i |->
                           IF n = 0 THEN {<<d, c>>}
                           ELSE Then(f[n - 1], LAMBDA e, v : AddElement(e, c))]
           added == CHOOSE f : Is(f)
<1>1. \A f : Is(f) <=> AddedBy(d, c, i, f)
  BY DEF AddedBy, More, Then
<1>2. i \in Nat
  BY Sizes
<1>3. Is(added)
  <2>1. \E f : Is(f)
    BY <1>1, <1>2, AddedSteps
  <2> HIDE DEF Is
  <2> QED
    BY <2>1
<1>4. AddedBy(d, c, i, added)
  <2> HIDE DEF Is, added
  <2> QED
    BY <1>1, <1>3
<1>5. GetOrAddElement(d, c, i) = IF i <= Len(Kids(d, c)) THEN {<<d, Kids(d, c)[i]>>}
                                 ELSE added[i - Len(Kids(d, c))]
  BY DEF GetOrAddElement, Then
<1> HIDE DEF added, Is
<1>6. CASE i <= Len(Kids(d, c))
  BY <1>5, <1>6
<1>7. CASE ~ (i <= Len(Kids(d, c)))
  <2> DEFINE m == i - Len(Kids(d, c))
  <2>1. r \in added[m]
    BY <1>5, <1>7
  <2> QED
    BY <1>4, <1>7, <2>1
<1> QED
  BY <1>6, <1>7

\* A value that was found or made, and the document that was kept meanwhile.
Got(d, g, r) ==
  /\ Grows(d, r[1])
  /\ Len(r[1].pools) <= MaxPools =>
       \E h : Keeps(d, g, r[1], h) /\ (r[2] # NullSlot => r[2] \in h.in)

\* The slot of an element, before which others may have to be added.
LEMMA ElementGot ==
  ASSUME NEW d, NEW g, Good(d, g), NEW c \in g.in, d.var[c].type = "array",
         NEW i \in Nat, i > 0, NEW r \in GetOrAddElement(d, c, i)
  PROVE  Got(d, g, r)
<1>1. d \in Documents /\ Shaped(d) /\ Tree(d, g)
  BY TreeFacts, ShapedDocument DEF Good
<1>2. Grows(d, d) /\ Keeps(d, g, d, g)
  BY <1>1, ShapedLen DEF Keeps
<1>3. /\ Kids(d, c) \in Seq(Slots) /\ Len(Kids(d, c)) \in Nat
      /\ \A n \in 1..Len(Kids(d, c)) : Kids(d, c)[n] \in g.in
  <2>1. /\ Kids(d, c) \in Seq(Slots)
        /\ \A n \in 1..Len(Kids(d, c)) : Kids(d, c)[n] \in g.in \ g.roots
    BY <1>1, KidsInTree
  <2>2. Len(Kids(d, c)) \in Nat
    BY <2>1
  <2> QED
    BY <2>1, <2>2
<1>4. CASE i \in 1..Len(Kids(d, c)) /\ r = <<d, Kids(d, c)[i]>>
  <2>1. r[1] = d /\ r[2] \in g.in
    BY <1>3, <1>4
  <2> QED
    BY <1>2, <2>1 DEF Got
<1>5. ASSUME NEW f, NEW m, AddedBy(d, c, i, f), r \in f[m], m = i - Len(Kids(d, c)),
             ~ (i <= Len(Kids(d, c)))
      PROVE  Got(d, g, r)
  <2>1. m \in Nat /\ m <= i
    BY <1>3, <1>5
  <2>2. f[0] = {<<d, c>>} /\ \A n \in 0..i - 1 : f[n + 1] = More(c, f[n])
    <3>1. \A n \in 0..i - 1 : n + 1 \in 0..i /\ n + 1 # 0 /\ (n + 1) - 1 = n
      OBVIOUS
    <3>2. 0 \in 0..i
      OBVIOUS
    <3> QED
      BY <1>5, <3>1, <3>2 DEF AddedBy
  <2> DEFINE S == {n \in Nat : n <= i => \A q \in f[n] : Got(d, g, q)}
  <2>3. 0 \in S
    <3>1. ASSUME NEW q \in f[0] PROVE Got(d, g, q)
      <4>1. q[1] = d /\ q[2] = c
        BY <2>2, <3>1
      <4> QED
        BY <1>2, <4>1 DEF Got
    <3> QED
      BY <3>1
  <2>4. ASSUME NEW n \in Nat, n \in S PROVE n + 1 \in S
    <3>1. ASSUME n + 1 <= i, NEW p \in f[n + 1] PROVE Got(d, g, p)
      <4>1. n \in 0..i - 1 /\ n <= i
        BY <3>1
      <4>2. \A q \in f[n] : Got(d, g, q)
        BY <2>4, <4>1
      <4>3. f[n + 1] = More(c, f[n])
        BY <2>2, <4>1
      <4>4. PICK q \in f[n] : p \in IF q[2] = NullSlot THEN {q} ELSE AddElement(q[1], c)
        BY <3>1, <4>3 DEF More
      <4>5. CASE q[2] = NullSlot
        BY <4>2, <4>4, <4>5
      <4>6. CASE q[2] # NullSlot
        <5>1. Got(d, g, q) /\ p \in AddElement(q[1], c)
          BY <4>2, <4>4, <4>6
        <5>2. Grows(d, q[1]) /\ Shaped(q[1])
          BY <5>1 DEF Got, Grows
        <5>3. Grows(q[1], p[1])
          BY <5>1, <5>2, AddElementGrows
        <5>4. Grows(d, p[1])
          BY <1>1, <5>2, <5>3, GrowsOn
        <5>5. ASSUME Len(p[1].pools) <= MaxPools
              PROVE  \E h : Keeps(d, g, p[1], h) /\ (p[2] # NullSlot => p[2] \in h.in)
          <6>1. /\ Len(q[1].pools) \in Nat /\ Len(p[1].pools) \in Nat /\ MaxPools \in Nat
                /\ Len(q[1].pools) <= Len(p[1].pools)
            BY <5>2, <5>3, ShapedLen, MaxPoolsIs DEF Grows
          <6>2. Len(q[1].pools) <= MaxPools
            BY <5>5, <6>1
          <6>3. PICK h : Keeps(d, g, q[1], h)
            BY <5>1, <6>2 DEF Got
          <6>4. Good(q[1], h) /\ c \in h.in /\ q[1].var[c].type = "array"
            BY <6>3 DEF Keeps
          <6>5. PICK k : Keeps(q[1], h, p[1], k) /\ (p[2] # NullSlot => Newest(h, p[1], k, p[2]))
            BY <5>1, <5>5, <6>4, ElementAdded
          <6>6. Keeps(d, g, p[1], k)
            BY <6>3, <6>5, KeepsOn
          <6> QED
            BY <6>5, <6>6 DEF Newest
        <5> QED
          BY <5>4, <5>5 DEF Got
      <4> QED
        BY <4>5, <4>6
    <3> QED
      BY <3>1
  <2>5. Nat \subseteq S
    <3> HIDE DEF S
    <3> QED
      BY <2>3, <2>4, SetInduction
  <2> QED
    BY <1>5, <2>1, <2>5
<1> QED
  BY <1>4, <1>5, AddedAre

\* A value that is added to an array, or given back.
LEMMA ValueAdded ==
  ASSUME NEW d, NEW g, Good(d, g), NEW c \in g.in, d.var[c].type = "array",
         NEW value \in AllValues, NEW r \in AddValue(d, c, value), Len(r[1].pools) <= MaxPools
  PROVE  \E h : Good(r[1], h) /\ h.roots = g.roots
<1>1. /\ d \in Documents /\ Shaped(d) /\ g.in \subseteq Nodes /\ g \in Places /\ c \in Nodes
      /\ g.roots \subseteq g.in
  BY TreeFacts, ShapedDocument DEF Good
<1>2. PICK q \in Alloc(d) :
        IF q[2] = NullSlot THEN r = q
        ELSE \E z \in Set(q[1], q[2], value) :
               r = IF z[2] = NullSlot \/ (value \in Long \cup Short /\ z[1].overflowed)
                   THEN <<FreeVariant(z[1], q[2]), NullSlot>>
                   ELSE <<AppendOne(z[1], c, q[2]), q[2]>>
  BY DEF AddValue, Then
<1>3. CASE q[2] = NullSlot
  <2>1. r = q /\ q[2] \notin Slots
    BY <1>2, <1>3, Sizes
  <2>2. Good(q[1], g)
    BY <2>1, Allocated
  <2> QED
    BY <2>1, <2>2
<1>4. CASE q[2] # NullSlot
  <2> DEFINE e == q[1]
             id == q[2]
             k == With(g, id)
  <2>1. PICK z \in Set(e, id, value) :
          r = IF z[2] = NullSlot \/ (value \in Long \cup Short /\ z[1].overflowed)
              THEN <<FreeVariant(z[1], id), NullSlot>>
              ELSE <<AppendOne(z[1], c, id), id>>
    BY <1>2, <1>4
  <2> DEFINE f == z[1]
             back == z[2] = NullSlot \/ (value \in Long \cup Short /\ z[1].overflowed)
  <2>2. Grows(d, e) /\ Shaped(e)
    BY <1>1, AllocGrows DEF Grows
  <2>3. Grows(e, f) /\ Shaped(f)
    BY <2>2, SetGrows DEF Grows
  <2>4. Grows(f, r[1])
    <3>1. Grows(f, FreeVariant(f, id)) /\ Grows(f, AppendOne(f, c, id))
      BY <2>3, FreeGrows, AppendGrows DEF AppendOne
    <3>2. r[1] = FreeVariant(f, id) \/ r[1] = AppendOne(f, c, id)
      BY <2>1
    <3> QED
      BY <3>1, <3>2
  <2>5. Len(e.pools) <= MaxPools /\ Len(f.pools) <= MaxPools
    <3>1. /\ Len(e.pools) \in Nat /\ Len(f.pools) \in Nat /\ Len(r[1].pools) \in Nat
          /\ MaxPools \in Nat /\ Len(e.pools) <= Len(f.pools) /\ Len(f.pools) <= Len(r[1].pools)
      BY <2>2, <2>3, <2>4, ShapedLen, MaxPoolsIs DEF Grows
    <3> QED
      BY <3>1
  <2>6. /\ id \in Slots \ g.in /\ Good(e, k) /\ e.var[id] = NullVariant
        /\ \A u \in Nodes \ {id} : e.var[u] = d.var[u]
    BY <1>4, <2>5, Allocated
  <2> HIDE DEF e, id, k, f
  <2>7. /\ k \in Places /\ k.in = g.in \cup {id} /\ k.roots = g.roots \cup {id}
        /\ k.rank[id] = g.top /\ \A u \in Nodes \ {id} : k.rank[u] = g.rank[u]
    BY <1>1, <2>6, WithFields DEF k
  <2>8. id \in k.in /\ id # Root /\ id \in Nodes /\ id \notin g.roots
    BY <1>1, <2>6, <2>7, Sizes
  <2>9. Below(e, id) = {}
    <3>1. e \in Documents /\ e.var[id].head = NullSlot
      BY <2>6, NullFields DEF Good, Tree
    <3> QED
      BY <2>8, <3>1, NothingBelow
  <2>10. \E h : /\ Good(f, h) /\ k.in \ Below(e, id) \subseteq h.in /\ h.roots = k.roots
                /\ \A u \in k.in \ Below(e, id) : h.rank[u] = k.rank[u]
                /\ \A u \in k.in \ (Below(e, id) \cup {id}) : f.var[u] = e.var[u]
    <3>1. z \in Set(e, id, value) /\ Len(z[1].pools) <= MaxPools /\ Good(e, k) /\ id \in k.in
      BY <2>1, <2>5, <2>6, <2>8 DEF f
    <3> QED
      BY <3>1, VariantSet DEF f
  <2>11. PICK h : /\ Good(f, h) /\ k.in \subseteq h.in /\ h.roots = k.roots
                  /\ \A u \in k.in : h.rank[u] = k.rank[u]
                  /\ \A u \in k.in \ {id} : f.var[u] = e.var[u]
    BY <2>9, <2>10
  <2>12. id \in h.roots \ {Root} /\ h.roots \ {id} = g.roots
    BY <2>7, <2>8, <2>11
  <2>13. CASE back
    <3> DEFINE j == Without(Without(h, Below(f, id)), {id})
    <3>1. Good(FreeVariant(f, id), j)
      BY <2>11, <2>12, Freed
    <3>2. j.roots = (h.roots \ Below(f, id)) \ {id}
      <4>1. h \in Places
        BY <2>11 DEF Good, Tree
      <4> QED
        BY <4>1, WithoutFields
    <3>3. Below(f, id) \cap h.roots = {}
      <4>1. Tree(f, h) /\ id \in h.in
        BY <2>11, <2>12, TreeFacts DEF Good
      <4> QED
        BY <4>1, BelowInTree
    <3>4. j.roots = g.roots
      BY <2>12, <3>2, <3>3
    <3> HIDE DEF j
    <3>5. r[1] = FreeVariant(f, id)
      BY <2>1, <2>13 DEF f
    <3> QED
      BY <3>1, <3>4, <3>5
  <2>14. CASE ~ back
    <3>1. \A u \in g.in : u # id /\ u \in Nodes /\ g.rank[u] < g.top
      BY <1>1, <2>6 DEF Good, Tree, Forest
    <3>2. d.var[c].tail # NullSlot => d.var[c].tail \in g.in
      BY TailIs
    <3>3. f.var[c] = d.var[c] /\ c \in h.in
      BY <1>1, <2>6, <2>7, <2>11, <3>1
    <3>4. \A u \in g.in : h.rank[u] < h.rank[id]
      BY <2>7, <2>8, <2>11, <3>1
    <3>5. \E j : /\ Good(AppendOne(f, c, id), j)
                 /\ \A u : u \in j.roots <=> u \in h.roots \ {id}
      BY <2>11, <2>12, <3>2, <3>3, <3>4, ElementAppended
    <3>6. PICK j : /\ Good(AppendOne(f, c, id), j)
                   /\ \A u : u \in j.roots <=> u \in h.roots \ {id}
      BY <3>5
    <3>7. j.roots = g.roots
      BY <2>12, <3>6
    <3>8. r[1] = AppendOne(f, c, id)
      BY <2>1, <2>14 DEF f
    <3> QED
      BY <3>6, <3>7, <3>8
  <2> QED
    BY <2>13, <2>14
<1> QED
  BY <1>3, <1>4

LEMMA MemberIsGot ==
  ASSUME NEW d, NEW g, Good(d, g), NEW c \in g.in, d.var[c].type = "object", NEW s \in Strings,
         NEW r \in GetOrAddMember(d, c, s)
  PROVE  Got(d, g, r)
<1>1. Grows(d, r[1])
  <2>1. Shaped(d)
    BY ShapedDocument DEF Good, Tree
  <2> QED
    BY <2>1, MemberGrows
<1> QED
  BY <1>1, MemberGot DEF Got

\* What was found or made gets its value.
LEMMA PutWhereGot ==
  ASSUME NEW d, NEW g, Good(d, g), NEW q, Got(d, g, q), NEW value \in AllValues, NEW r,
         q[2] = NullSlot => r = q, q[2] # NullSlot => r \in Set(q[1], q[2], value),
         Len(r[1].pools) <= MaxPools
  PROVE  \E h : Good(r[1], h) /\ h.roots = g.roots
<1>1. CASE q[2] = NullSlot
  BY <1>1 DEF Got, Keeps
<1>2. CASE q[2] # NullSlot
  <2>1. Grows(q[1], r[1]) /\ Shaped(q[1])
    BY <1>2, SetGrows DEF Got, Grows
  <2>2. /\ Len(q[1].pools) \in Nat /\ Len(r[1].pools) \in Nat /\ MaxPools \in Nat
        /\ Len(q[1].pools) <= Len(r[1].pools)
    BY <2>1, ShapedLen, MaxPoolsIs DEF Grows
  <2>3. Len(q[1].pools) <= MaxPools
    BY <2>2
  <2>4. PICK h : Keeps(d, g, q[1], h) /\ q[2] \in h.in
    BY <1>2, <2>3 DEF Got
  <2>5. Good(q[1], h) /\ h.roots = g.roots
    BY <2>4 DEF Keeps
  <2>6. \E k : Good(r[1], k) /\ k.roots = h.roots
    BY <1>2, <2>4, <2>5, VariantSet
  <2> QED
    BY <2>5, <2>6
<1> QED
  BY <1>1, <1>2

\* The values of a document are among those in use.
LEMMA ReachedIn ==
  ASSUME NEW d, NEW g, Tree(d, g)
  PROVE  Reached(d) \subseteq g.in
<1>1. Root \in g.in
  BY TreeFacts
<1> QED
  BY <1>1, BelowInTree DEF Reached

\* What a program does with a document keeps it good.
LEMMA UseKeeps ==
  ASSUME NEW g, Good(doc, g), g.roots = {Root}, Use, Len(doc'.pools) <= MaxPools
  PROVE  \E h : Good(doc', h) /\ h.roots = {Root}
<1>1. Tree(doc, g) /\ Root \in g.in
  BY TreeFacts DEF Good
<1>2. \A v \in Reached(doc) : v \in g.in
  BY <1>1, ReachedIn
<1>11. Values \subseteq AllValues
  BY DEF Values, AllValues, Strings, Plain
<1>3. ASSUME NEW value \in Values, NEW c \in Collections("object"), NEW s \in Long \cup Short,
             PutMember(c, s, value)
      PROVE  \E h : Good(doc', h) /\ h.roots = {Root}
  <2>1. c \in g.in /\ doc.var[c].type = "object" /\ s \in Strings /\ value \in AllValues
    BY <1>2, <1>3, <1>11 DEF Collections, Strings
  <2>2. PICK q \in GetOrAddMember(doc, c, s) : \E r :
          /\ doc' = r[1]
          /\ q[2] = NullSlot => r = q
          /\ q[2] # NullSlot => r \in Set(q[1], q[2], value)
    BY <1>3 DEF PutMember, Then
  <2>3. PICK r :
          /\ doc' = r[1]
          /\ q[2] = NullSlot => r = q
          /\ q[2] # NullSlot => r \in Set(q[1], q[2], value)
    BY <2>2
  <2>4. Got(doc, g, q)
    BY <2>1, MemberIsGot
  <2>5. Len(r[1].pools) <= MaxPools
    BY <2>3
  <2>6. \E h : Good(r[1], h) /\ h.roots = g.roots
    BY <2>1, <2>3, <2>4, <2>5, PutWhereGot
  <2> QED
    BY <2>3, <2>6
<1>4. ASSUME NEW value \in Values, NEW c \in Collections("array"),
             NEW i \in 1..Len(Kids(doc, c)) + 2, PutElement(c, i, value)
      PROVE  \E h : Good(doc', h) /\ h.roots = {Root}
  <2>1. c \in g.in /\ doc.var[c].type = "array" /\ value \in AllValues
    BY <1>2, <1>4, <1>11 DEF Collections
  <2>2. i \in Nat /\ i > 0
    <3>1. Kids(doc, c) \in Seq(Slots)
      BY <1>1, <2>1, KidsInTree
    <3>2. Len(Kids(doc, c)) \in Nat
      BY <3>1
    <3> QED
      BY <3>2
  <2>3. PICK q \in GetOrAddElement(doc, c, i) : \E r :
          /\ doc' = r[1]
          /\ q[2] = NullSlot => r = q
          /\ q[2] # NullSlot => r \in Set(q[1], q[2], value)
    BY <1>4 DEF PutElement, Then
  <2>4. PICK r :
          /\ doc' = r[1]
          /\ q[2] = NullSlot => r = q
          /\ q[2] # NullSlot => r \in Set(q[1], q[2], value)
    BY <2>3
  <2>5. Got(doc, g, q)
    BY <2>1, <2>2, ElementGot
  <2>6. Len(r[1].pools) <= MaxPools
    BY <2>4
  <2>7. \E h : Good(r[1], h) /\ h.roots = g.roots
    BY <2>1, <2>4, <2>5, <2>6, PutWhereGot
  <2> QED
    BY <2>4, <2>7
<1>5. ASSUME NEW value \in Values, NEW c \in Collections("array"), Add(c, value)
      PROVE  \E h : Good(doc', h) /\ h.roots = {Root}
  <2>1. c \in g.in /\ doc.var[c].type = "array" /\ value \in AllValues
    BY <1>2, <1>5, <1>11 DEF Collections
  <2>2. PICK r \in AddValue(doc, c, value) : doc' = r[1]
    BY <1>5 DEF Add
  <2> QED
    BY <2>1, <2>2, ValueAdded
<1>6. ASSUME NEW value \in Values, SetDocument(value)
      PROVE  \E h : Good(doc', h) /\ h.roots = {Root}
  <2>1. value \in AllValues
    BY <1>6, <1>11
  <2>2. PICK r \in Set(Empty, Root, value) : doc' = r[1]
    BY <1>6 DEF SetDocument
  <2>3. Good(Empty, OnlyRoot) /\ OnlyRoot.in = {Root} /\ OnlyRoot.roots = {Root}
    BY EmptyGood DEF OnlyRoot
  <2>4. \E h : Good(r[1], h) /\ h.roots = OnlyRoot.roots
    BY <2>1, <2>2, <2>3, VariantSet
  <2> QED
    BY <2>2, <2>3, <2>4
<1>7. ASSUME NEW c \in Collections("object"), NEW s \in Long \cup Short, RemoveMember(c, s)
      PROVE  \E h : Good(doc', h) /\ h.roots = {Root}
  <2>1. c \in g.in /\ doc.var[c].type = "object"
    BY <1>2, <1>7 DEF Collections
  <2> DEFINE key == FindKey(doc, c, s)
  <2>2. key # NullSlot /\ doc' = RemovePair(doc, c, key)
    BY <1>7 DEF RemoveMember
  <2>3. key \in g.in \ g.roots /\ g.own[key] = c /\ g.role[key] = "key"
    BY <2>1, <2>2, FindKeyIs
  <2> HIDE DEF key
  <2> QED
    BY <2>1, <2>2, <2>3, MemberRemoved
<1>8. ASSUME NEW c \in Collections("array"), NEW i \in 1..NullSlot, RemoveElement(c, i)
      PROVE  \E h : Good(doc', h) /\ h.roots = {Root}
  <2>1. c \in g.in /\ doc.var[c].type = "array"
    BY <1>2, <1>8 DEF Collections
  <2> DEFINE id == Kids(doc, c)[i]
  <2>2. id \in g.in \ g.roots /\ g.own[id] = c
    <3>1. i \in 1..Len(Kids(doc, c))
      <4>1. Kids(doc, c) \in Seq(Slots)
        BY <1>1, <2>1, KidsInTree
      <4>2. Len(Kids(doc, c)) \in Nat /\ i <= Len(Kids(doc, c))
        BY <1>8, <4>1 DEF RemoveElement
      <4> QED
        BY <4>2
    <3>2. Kids(doc, c)[i] \in g.in \ g.roots /\ g.own[Kids(doc, c)[i]] = c
      <4> HIDE DEF id
      <4>1. \A n \in 1..Len(Kids(doc, c)) :
              Kids(doc, c)[n] \in g.in \ g.roots /\ g.own[Kids(doc, c)[n]] = c
        BY <1>1, <2>1, KidsInTree
      <4> QED
        BY <3>1, <4>1
    <3> QED
      BY <3>2
  <2>3. doc' = RemoveOne(doc, c, id)
    BY <1>8 DEF RemoveElement
  <2> HIDE DEF id
  <2> QED
    BY <2>1, <2>2, <2>3, ElementRemoved
<1>9. CASE ClearDocument
  <2>1. doc' = Empty
    BY <1>9 DEF ClearDocument
  <2> QED
    BY <2>1, EmptyGood DEF OnlyRoot
<1>10. CASE ShrinkToFit
  <2>1. doc' \in Shrunk(doc)
    BY <1>10 DEF ShrinkToFit
  <2> QED
    BY <2>1, ShrunkGood
<1> QED
  BY <1>3, <1>4, <1>5, <1>6, <1>7, <1>8, <1>9, <1>10 DEF Use

-----------------------------------------------------------------------------
(***************************************************************************)
(* The parser and the document that it builds                              *)
(***************************************************************************)

\* The collections that are open: each is further from the root than the one before.
Opened(d, g, o) ==
  /\ o \in Seq(g.in)
  /\ \A i \in 1..Len(o) : d.var[o[i]].type \in Collection
  /\ \A i \in 1..Len(o), j \in 1..Len(o) : i < j => g.rank[o[i]] < g.rank[o[j]]

ParserRecord(p) ==
  p \in [rest : {p.rest}, todo : {p.todo}, open : {p.open}, node : {p.node}, built : {p.built}]

\* What is next fits to what the document is.
Parsing(d, g, p) ==
  /\ ParserRecord(p) /\ p.todo \in {"value", "first", "more", "key", "member"}
  /\ Opened(d, g, p.open)
  /\ p.todo = "value" =>
       /\ p.node \in g.in /\ d.var[p.node].type = "null"
       /\ \A i \in 1..Len(p.open) : g.rank[p.open[i]] < g.rank[p.node]
  /\ p.todo # "value" => p.open # << >>
  /\ p.todo \in {"key", "member"} => d.var[Last(p.open)].type = "object"
  /\ p.todo = "member" => p.built \in Strings

Errors ==
  {NotRun, "Ok", "EmptyInput", "IncompleteInput", "InvalidInput", "NoMemory", "TooDeep"}

Whole(d) == \E g : Good(d, g) /\ g.roots = {Root}

IInv ==
  \/ error \in Errors /\ parser = Start(<< >>) /\ Whole(doc)
  \/ error = Running /\ \E g : Good(doc, g) /\ g.roots = {Root} /\ Parsing(doc, g, parser)

LEMMA NoneOpened == ASSUME NEW d, NEW g PROVE Opened(d, g, << >>)
BY DEF Opened

LEMMA OpenedKept ==
  ASSUME NEW d, NEW g, NEW o, Opened(d, g, o), NEW e, NEW h,
         \A i \in 1..Len(o) : /\ o[i] \in h.in /\ h.rank[o[i]] = g.rank[o[i]]
                              /\ e.var[o[i]].type = d.var[o[i]].type
  PROVE  Opened(e, h, o)
<1>1. o \in Seq(g.in)
  BY DEF Opened
<1>2. o \in Seq(h.in)
  <2>1. Len(o) \in Nat /\ o = [i \in 1..Len(o) |-> o[i]]
    BY <1>1
  <2>2. \A i \in 1..Len(o) : o[i] \in h.in
    OBVIOUS
  <2> QED
    BY <2>1, <2>2
<1> QED
  BY <1>2 DEF Opened

LEMMA OneMoreOpened ==
  ASSUME NEW d, NEW g, NEW o, Opened(d, g, o), NEW v \in g.in, d.var[v].type \in Collection,
         \A i \in 1..Len(o) : g.rank[o[i]] < g.rank[v]
  PROVE  Opened(d, g, Append(o, v)) /\ Append(o, v) # << >>
<1>1. o \in Seq(g.in) /\ Len(o) \in Nat
  BY DEF Opened
<1> DEFINE q == Append(o, v)
<1>2. /\ q \in Seq(g.in) /\ Len(q) = Len(o) + 1 /\ q[Len(o) + 1] = v /\ q # << >>
      /\ \A i \in 1..Len(o) : q[i] = o[i]
  BY <1>1, SMTT(30)
<1> HIDE DEF q
<1>3. ASSUME NEW i \in 1..Len(q) PROVE d.var[q[i]].type \in Collection
  <2>1. i = Len(o) + 1 \/ i \in 1..Len(o)
    BY <1>1, <1>2
  <2> QED
    BY <1>2, <2>1 DEF Opened
<1>4. ASSUME NEW i \in 1..Len(q), NEW j \in 1..Len(q), i < j
      PROVE  g.rank[q[i]] < g.rank[q[j]]
  <2>1. i \in 1..Len(o) /\ (j = Len(o) + 1 \/ j \in 1..Len(o))
    BY <1>1, <1>2, <1>4
  <2>2. CASE j = Len(o) + 1
    BY <1>2, <2>1, <2>2
  <2>3. CASE j \in 1..Len(o)
    BY <1>2, <1>4, <2>1, <2>3 DEF Opened
  <2> QED
    BY <2>1, <2>2, <2>3
<1>5. Opened(d, g, q)
  BY <1>2, <1>3, <1>4 DEF Opened
<1> QED
  BY <1>2, <1>5 DEF q

LEMMA OneLessOpened ==
  ASSUME NEW d, NEW g, NEW o, Opened(d, g, o), o # << >>
  PROVE  /\ Opened(d, g, Front(o)) /\ Last(o) \in g.in /\ d.var[Last(o)].type \in Collection
         /\ \A i \in 1..Len(o) : o[i] \in g.in /\ (o[i] # Last(o) => g.rank[o[i]] < g.rank[Last(o)])
<1> DEFINE n == Len(o)
           q == SubSeq(o, 1, n - 1)
<1>1. o \in Seq(g.in) /\ n \in Nat
  BY DEF Opened
<1>2. n \in 1..n
  <2>1. n # 0
    BY <1>1
  <2> HIDE DEF n
  <2> QED
    BY <1>1, <2>1
<1>3. Last(o) = o[n] /\ Front(o) = q
  BY DEF Last, Front
<1>4. q \in Seq(g.in) /\ Len(q) = n - 1 /\ \A i \in 1..n - 1 : q[i] = o[i]
  <2> DEFINE S == g.in
             m == n - 1
  <2>1. o \in Seq(S) /\ m \in Nat /\ m <= Len(o)
    BY <1>1, <1>2
  <2> HIDE DEF S, m, n
  <2>2. \A i \in 1..m : i \in 1..Len(o) /\ o[i] \in S
    BY <2>1
  <2>3. SubSeq(o, 1, m) \in Seq(S) /\ Len(SubSeq(o, 1, m)) = m
    BY <2>1, <2>2
  <2>4. \A i \in 1..m : SubSeq(o, 1, m)[i] = o[i]
    BY <2>1
  <2> QED
    BY <2>3, <2>4 DEF S, m
<1>5. \A i \in 1..n : o[i] \in g.in
  BY <1>1
<1>6. \A i \in 1..n : i # n => g.rank[o[i]] < g.rank[o[n]]
  <2> HIDE DEF n
  <2>1. \A i \in 1..n : i # n => i < n
    BY <1>1
  <2> QED
    BY <1>2, <2>1 DEF Opened, n
<1> HIDE DEF q, n
<1>7. Opened(d, g, q)
  <2>1. \A i \in 1..n - 1 : i \in 1..n
    BY <1>1
  <2>2. \A i \in 1..Len(q) : i \in 1..n /\ q[i] = o[i]
    BY <1>4, <2>1
  <2>3. \A i \in 1..Len(q) : d.var[q[i]].type \in Collection
    BY <2>2 DEF Opened, n
  <2>4. \A i \in 1..Len(q), j \in 1..Len(q) : i < j => g.rank[q[i]] < g.rank[q[j]]
    BY <2>2 DEF Opened, n
  <2> QED
    BY <1>4, <2>3, <2>4 DEF Opened
<1>8. d.var[o[n]].type \in Collection
  BY <1>2 DEF Opened, n
<1> QED
  BY <1>2, <1>3, <1>5, <1>6, <1>7, <1>8 DEF n

LEMMA ShrunkPools ==
  ASSUME NEW d, Shaped(d), NEW e, e = d \/ e \in Shrunk(d)
  PROVE  Len(e.pools) = Len(d.pools)
<1> DEFINE n == Len(d.pools)
           y == [d.pools[n] EXCEPT !.capacity = d.pools[n].usage]
           q == IF n = 0 THEN d.pools ELSE [d.pools EXCEPT ![n] = y]
           fit == IF n = 0 THEN d ELSE [d EXCEPT !.pools = q]
           f(x) == IF d.moved THEN [x EXCEPT !.capacity = n] ELSE x
<1>1. d.pools \in Seq([capacity : Nat, usage : Nat])
  BY DEF Shaped
<1>2. Len(q) = n
  <2> HIDE DEF y
  <2>1. n \in Nat /\ DOMAIN d.pools = 1..n
    BY <1>1
  <2>2. n # 0 => DOMAIN [d.pools EXCEPT ![n] = y] = 1..n
    BY <2>1
  <2> QED
    BY <2>1, <2>2
<1>3. Shrunk(d) = {f(d), f(fit)}
  BY DEF Shrunk, Shaped
<1> HIDE DEF q
<1>4. f(d).pools = d.pools /\ f(fit).pools = q
  <2>1. n = 0 => q = d.pools
    BY DEF q
  <2> QED
    BY <2>1 DEF Shaped
<1> HIDE DEF f, fit
<1> QED
  BY <1>2, <1>3, <1>4

LEMMA ReturnKeeps ==
  ASSUME NEW e \in Errors, NEW d, Return(e, d), Whole(d)
  PROVE  IInv'
<1>1. error' = e /\ doc' \in Shrunk(d) /\ parser' = Start(<< >>)
  BY DEF Return
<1>2. Whole(doc')
  BY <1>1, ShrunkGood DEF Whole
<1> QED
  BY <1>1, <1>2 DEF IInv

LEMMA ContinueKeeps ==
  ASSUME error = Running, NEW d, NEW p, Continue(d, p), NEW g, Good(d, g), g.roots = {Root},
         Parsing(d, g, p)
  PROVE  IInv'
<1>1. error' = Running /\ doc' = d /\ parser' = p
  BY DEF Continue
<1> QED
  BY <1>1 DEF IInv

LEMMA WholeEmpty == Whole(Empty)
BY EmptyGood DEF Whole, OnlyRoot

LEMMA BoundBack ==
  ASSUME NEW d, Shaped(d), doc' = d \/ doc' \in Shrunk(d), Len(doc'.pools) <= MaxPools
  PROVE  Len(d.pools) <= MaxPools
<1>1. Len(doc'.pools) = Len(d.pools)
  BY ShrunkPools
<1> QED
  BY <1>1

LEMMA MovedFields ==
  ASSUME ParserRecord(parser)
  PROVE  /\ ParserRecord(Moved) /\ Moved.open = parser.open /\ Moved.todo = parser.todo
         /\ Moved.node = parser.node /\ Moved.built = parser.built
<1> DEFINE r == Tail(parser.rest)
           p == [parser EXCEPT !.rest = r]
<1>1. Moved = p
  BY DEF Moved
<1> HIDE DEF r
<1>2. p.open = parser.open /\ p.todo = parser.todo /\ p.node = parser.node /\ p.built = parser.built
  BY DEF ParserRecord
<1>3. ParserRecord(p)
  BY <1>2 DEF ParserRecord
<1> HIDE DEF p
<1> QED
  BY <1>1, <1>2, <1>3

\* A value is complete.
LEMMA ReadyKeeps ==
  ASSUME error = Running, NEW d, NEW g, Good(d, g), g.roots = {Root},
         NEW p, ParserRecord(p), Opened(d, g, p.open), Ready(d, p)
  PROVE  IInv'
<1>1. CASE p.open # << >>
  <2> DEFINE q == [p EXCEPT !.todo = "more"]
  <2>1. Continue(d, q)
    BY <1>1 DEF Ready
  <2>2. q.open = p.open /\ q.todo = "more"
    BY DEF ParserRecord
  <2>3. ParserRecord(q)
    BY <2>2 DEF ParserRecord
  <2> HIDE DEF q
  <2>4. Parsing(d, g, q)
    BY <1>1, <2>2, <2>3 DEF Parsing
  <2> QED
    BY <2>1, <2>4, ContinueKeeps
<1>2. CASE p.open = << >>
  <2>1. PICK e \in Errors : Return(e, d)
    BY <1>2 DEF Ready, Errors
  <2>2. Whole(d)
    BY DEF Whole
  <2> QED
    BY <2>1, <2>2, ReturnKeeps
<1> QED
  BY <1>1, <1>2

LEMMA ReadyDocument == ASSUME NEW d, NEW p, Ready(d, p) PROVE doc' = d \/ doc' \in Shrunk(d)
BY DEF Ready, Continue, Return

LEMMA EndKeeps == ASSUME NEW d, Whole(d), EndOfText(d) PROVE IInv'
<1>1. PICK e \in Errors : Return(e, d)
  BY DEF EndOfText, Errors
<1> QED
  BY <1>1, ReturnKeeps

\* What the steps of the parser have in common.
Building(g) ==
  error = Running /\ Good(doc, g) /\ g.roots = {Root} /\ Parsing(doc, g, parser)

LEMMA BuildingFacts ==
  ASSUME NEW g, Building(g)
  PROVE  /\ Good(doc, g) /\ doc \in Documents /\ Shaped(doc) /\ Whole(doc) /\ g.in \subseteq Nodes
         /\ ParserRecord(parser) /\ Opened(doc, g, parser.open)
         /\ ParserRecord(Moved) /\ Moved.open = parser.open
         /\ \A i \in 1..Len(parser.open) : parser.open[i] \in g.in
<1>1. /\ Good(doc, g) /\ ParserRecord(parser) /\ Opened(doc, g, parser.open)
      /\ g.roots = {Root}
  BY DEF Building, Parsing
<1>2. doc \in Documents /\ g.in \subseteq Nodes
  BY <1>1, TreeFacts DEF Good
<1>3. Shaped(doc) /\ Whole(doc)
  BY <1>1, <1>2, ShapedDocument DEF Whole
<1>4. \A i \in 1..Len(parser.open) : parser.open[i] \in g.in
  <2>1. parser.open \in Seq(g.in)
    BY <1>1 DEF Opened
  <2> QED
    BY <2>1
<1>5. ParserRecord(Moved) /\ Moved.open = parser.open
  BY <1>1, MovedFields
<1> QED
  BY <1>1, <1>2, <1>3, <1>4, <1>5

\* The text or the memory ends in a string.
LEMMA NotedKeeps ==
  ASSUME NEW g, Building(g), NEW e \in Errors, NEW ok \in BOOLEAN,
         Return(e, [doc EXCEPT !.overflowed = @ \/ ~ok])
  PROVE  IInv'
<1> DEFINE x == doc.overflowed \/ ~ok
           f == [doc EXCEPT !.overflowed = TRUE]
<1>1. Good(doc, g) /\ doc \in Documents /\ Whole(doc) /\ g.roots = {Root}
  BY BuildingFacts DEF Building
<1>2. Whole(f)
  <2>1. Good(f, g)
    BY <1>1, OverflowNoted
  <2> HIDE DEF f
  <2> QED
    BY <1>1, <2>1 DEF Whole
<1>4. Return(e, [doc EXCEPT !.overflowed = x])
  OBVIOUS
<1>3. CASE Return(e, f)
  BY <1>2, <1>3, ReturnKeeps
<1>5. CASE ~ Return(e, f)
  <2>1. x = TRUE \/ x = doc.overflowed
    BY <1>1 DEF Documents
  <2> HIDE DEF x
  <2>2. CASE x = TRUE
    BY <1>4, <1>5, <2>2
  <2>3. CASE x = doc.overflowed
    <3>1. [doc EXCEPT !.overflowed = x] = doc
      BY <1>1, <2>3 DEF Documents
    <3> QED
      BY <1>1, <1>4, <3>1, ReturnKeeps
  <2> QED
    BY <2>1, <2>2, <2>3
<1> QED
  BY <1>3, <1>5

\* What reading a string comes to.
ReadOf(s, ok, then) ==
  \/ \E e \in Errors : Return(e, [doc EXCEPT !.overflowed = @ \/ ~ok])
  \/ s \notin {"cut", "bad"} /\ then

LEMMA ReadIs ==
  ASSUME NEW s, NEW then, ReadString(s, then)
  PROVE  \E ok \in BOOLEAN : ReadOf(s, ok, then)
<1> DEFINE failed(e, ok) == Return(e, [doc EXCEPT !.overflowed = @ \/ ~ok])
<1>1. PICK ok \in BOOLEAN :
        CASE s = "cut" -> failed("IncompleteInput", ok)
          [] s = "bad" -> failed("InvalidInput", ok)
          [] OTHER -> IF ok THEN then ELSE failed("NoMemory", ok)
  BY DEF ReadString
<1> HIDE DEF failed
<1>2. \/ failed("IncompleteInput", ok) \/ failed("InvalidInput", ok) \/ failed("NoMemory", ok)
      \/ s \notin {"cut", "bad"} /\ then
  <2>1. CASE s = "cut"
    BY <1>1, <2>1
  <2>2. CASE s = "bad"
    BY <1>1, <2>2
  <2>3. CASE s \notin {"cut", "bad"}
    BY <1>1, <2>3
  <2> QED
    BY <2>1, <2>2, <2>3
<1>3. {"IncompleteInput", "InvalidInput", "NoMemory"} \subseteq Errors
  BY DEF Errors
<1> QED
  BY <1>2, <1>3 DEF ReadOf, failed

\* A null value gets what the text says.
LEMMA VariantKeeps ==
  ASSUME NEW g, Building(g), Len(doc'.pools) <= MaxPools, ParseVariant
  PROVE  IInv'
<1> DEFINE node == parser.node
<1>1. /\ Good(doc, g) /\ doc \in Documents /\ Shaped(doc) /\ Whole(doc) /\ g.in \subseteq Nodes
      /\ ParserRecord(parser) /\ Opened(doc, g, parser.open)
      /\ ParserRecord(Moved) /\ Moved.open = parser.open
      /\ \A i \in 1..Len(parser.open) : parser.open[i] \in g.in
  BY BuildingFacts
<1>2. /\ node \in g.in /\ doc.var[node].type = "null" /\ error = Running /\ g.roots = {Root}
      /\ \A i \in 1..Len(parser.open) : g.rank[parser.open[i]] < g.rank[node]
  BY DEF Building, Parsing, ParseVariant
<1>3. \A u \in Nodes : g.rank[u] \in Nat
  BY <1>1, TreeFacts DEF Good
<1>4. \A i \in 1..Len(parser.open) : parser.open[i] # node
  BY <1>1, <1>2, <1>3
<1> HIDE DEF node
\* A value that was set, with what hangs on it.
<1>5. ASSUME NEW value \in AllValues, NEW r \in SetNull(doc, node, value),
             Len(r[1].pools) <= MaxPools
      PROVE  \E h : /\ Good(r[1], h) /\ h.roots = {Root} /\ Opened(r[1], h, parser.open)
                    /\ value \in Collection =>
                         /\ r[2] = node /\ node \in h.in /\ r[1].var[node].type = value
                         /\ \A i \in 1..Len(parser.open) : h.rank[parser.open[i]] < h.rank[node]
  <2>1. /\ \E h : Continues(doc, g, r[1], h, {node})
        /\ value \in Collection => r[2] = node /\ r[1].var[node].type = value
    <3>1. Good(doc, g) /\ node \in g.in /\ doc.var[node].type = "null"
      BY <1>1, <1>2
    <3>2. \E h : Continues(doc, g, r[1], h, {node})
      BY <1>5, <3>1, NullSet
    <3>3. ASSUME value \in Collection PROVE r[2] = node /\ r[1].var[node].type = value
      <4> DEFINE var == [doc.var EXCEPT ![node].type = value]
                 e == [doc EXCEPT !.var = var]
      <4>1. r = <<e, node>>
        BY <3>3, StringsAssumption DEF SetNull, Then, Plain, Collection
      <4>2. doc.var[node] \in Variants /\ doc.var \in [Nodes -> Variants] /\ node \in Nodes
        BY <1>1, <1>2, VarType DEF Documents
      <4>3. var[node].type = value
        BY <4>2 DEF Variants
      <4> HIDE DEF var
      <4>4. e.var = var
        BY <1>1 DEF Documents
      <4> HIDE DEF e
      <4> QED
        BY <4>1, <4>3, <4>4
    <3> QED
      BY <3>2, <3>3
  <2>2. PICK h : Continues(doc, g, r[1], h, {node})
    BY <2>1
  <2>3. /\ Good(r[1], h) /\ g.in \subseteq h.in /\ h.roots = g.roots
        /\ \A u \in g.in : h.rank[u] = g.rank[u]
        /\ \A u \in g.in \ {node} : r[1].var[u] = doc.var[u]
    BY <2>2 DEF Continues
  <2>4. \A i \in 1..Len(parser.open) :
          /\ parser.open[i] \in h.in /\ h.rank[parser.open[i]] = g.rank[parser.open[i]]
          /\ r[1].var[parser.open[i]].type = doc.var[parser.open[i]].type
    BY <1>1, <1>4, <2>3
  <2>5. Opened(r[1], h, parser.open)
    BY <1>1, <2>4, OpenedKept
  <2> QED
    BY <1>2, <2>1, <2>3, <2>4, <2>5
<1>6. CASE EndOfText(doc)
  BY <1>1, <1>6, EndKeeps
<1>7. CASE Return("InvalidInput", doc)
  BY <1>1, <1>7, ReturnKeeps DEF Errors
<1>8. CASE Ready(doc, Moved)
  BY <1>1, <1>2, <1>8, ReadyKeeps
<1>9. ASSUME NEW value \in Collection,
             LET d == SetNull(doc, node, value)
                 e == (CHOOSE r \in d : TRUE)[1]
             IN IF Len(parser.open) = NestingLimit THEN Return("TooDeep", e)
                ELSE Continue(e, [Moved EXCEPT !.open = Append(@, node), !.todo = "first"])
      PROVE  IInv'
  <2> DEFINE d == SetNull(doc, node, value)
             r == CHOOSE x \in d : TRUE
             e == r[1]
             p == [Moved EXCEPT !.open = Append(Moved.open, node), !.todo = "first"]
  <2>1. value \in AllValues
    BY DEF AllValues, Collection
  <2>2. r \in d
    <3>1. d = {<<[doc EXCEPT !.var[node].type = value], node>>}
      BY StringsAssumption DEF SetNull, Then, Plain, Collection
    <3> HIDE DEF d
    <3> QED
      BY <3>1
  <2> HIDE DEF r
  <2>3. r \in SetNull(doc, node, value)
    BY <2>2
  <2> HIDE DEF d
  <2>4. IF Len(parser.open) = NestingLimit THEN Return("TooDeep", e) ELSE Continue(e, p)
    BY <1>9 DEF d, r
  <2> HIDE DEF p
  <2>5. doc' = e \/ doc' \in Shrunk(e)
    BY <2>4 DEF Return, Continue
  <2>6. Len(e.pools) <= MaxPools
    <3>1. Shaped(e)
      BY <1>1, <2>3, SetNullGrows DEF Grows
    <3> QED
      BY <2>5, <3>1, BoundBack
  <2>7. PICK h : /\ Good(e, h) /\ h.roots = {Root} /\ Opened(e, h, parser.open)
                 /\ node \in h.in /\ e.var[node].type = value
                 /\ \A i \in 1..Len(parser.open) : h.rank[parser.open[i]] < h.rank[node]
    BY <1>5, <2>1, <2>3, <2>6
  <2>8. CASE Return("TooDeep", e)
    <3>1. Whole(e)
      BY <2>7 DEF Whole
    <3> QED
      BY <2>8, <3>1, ReturnKeeps DEF Errors
  <2>9. CASE Continue(e, p)
    <3>1. p.open = Append(parser.open, node) /\ p.todo = "first"
      BY <1>1 DEF ParserRecord, p
    <3>2. p.node = Moved.node /\ p.built = Moved.built /\ p.rest = Moved.rest
      BY <1>1 DEF ParserRecord, p
    <3>3. ParserRecord(p)
      BY <1>1, <3>1, <3>2 DEF ParserRecord, p
    <3>4. Opened(e, h, p.open) /\ p.open # << >>
      BY <2>7, <3>1, OneMoreOpened
    <3>5. Parsing(e, h, p)
      BY <3>1, <3>3, <3>4 DEF Parsing
    <3> QED
      BY <1>2, <2>7, <2>9, <3>5, ContinueKeeps
  <2> QED
    BY <2>4, <2>8, <2>9
<1>10. ASSUME NEW value \in Plain \cup {"ext"}, NEW r \in SetNull(doc, node, value),
              IF r[2] = NullSlot THEN Return("NoMemory", r[1]) ELSE Ready(r[1], Moved)
       PROVE  IInv'
  <2>1. value \in AllValues
    BY DEF AllValues
  <2>2. Len(r[1].pools) <= MaxPools
    <3>1. Shaped(r[1])
      BY <1>1, SetNullGrows DEF Grows
    <3>2. doc' = r[1] \/ doc' \in Shrunk(r[1])
      BY <1>10, ReadyDocument DEF Return
    <3> QED
      BY <3>1, <3>2, BoundBack
  <2>3. PICK h : Good(r[1], h) /\ h.roots = {Root} /\ Opened(r[1], h, parser.open)
    BY <1>5, <2>1, <2>2
  <2>4. CASE Return("NoMemory", r[1])
    <3>1. Whole(r[1])
      BY <2>3 DEF Whole
    <3> QED
      BY <2>4, <3>1, ReturnKeeps DEF Errors
  <2>5. CASE Ready(r[1], Moved)
    BY <1>1, <1>2, <2>3, <2>5, ReadyKeeps
  <2> QED
    BY <1>10, <2>4, <2>5
<1>11. ASSUME NEW s \in Strings, NEW p, ParserRecord(p), p.open = parser.open,
              Ready(Saved(doc, node, s), p)
       PROVE  IInv'
  <2> DEFINE e == Saved(doc, node, s)
  <2>1. Good(e, g) /\ \A u \in Nodes \ {node} : e.var[u] = doc.var[u]
    BY <1>1, <1>2, SavedGood
  <2> HIDE DEF e
  <2>2. Opened(e, g, parser.open)
    <3>1. \A i \in 1..Len(parser.open) :
            parser.open[i] \in g.in /\ e.var[parser.open[i]].type = doc.var[parser.open[i]].type
      BY <1>1, <1>4, <2>1
    <3> QED
      BY <1>1, <3>1, OpenedKept
  <2>3. Ready(e, p)
    BY <1>11 DEF e
  <2> QED
    BY <1>2, <1>11, <2>1, <2>2, <2>3, ReadyKeeps
<1> DEFINE Opening(x) ==
             LET d == SetNull(doc, node, x)
                 e == (CHOOSE r \in d : TRUE)[1]
             IN IF Len(parser.open) = NestingLimit THEN Return("TooDeep", e)
                ELSE Continue(e, [Moved EXCEPT !.open = Append(@, node), !.todo = "first"])
<1>13. CASE Opening(IF Current = "[" THEN "array" ELSE "object")
  <2> DEFINE value == IF Current = "[" THEN "array" ELSE "object"
  <2>1. Opening(value)
    BY <1>13
  <2>2. value \in Collection
    BY DEF Collection
  <2> HIDE DEF value
  <2> QED
    BY <1>9, <2>1, <2>2
<1> DEFINE p == [Moved EXCEPT !.built = NodeAfterSave(doc, Current)]
<1>14. ASSUME NEW ok \in BOOLEAN, ReadOf(Current, ok, Ready(Saved(doc, node, Current), p)),
              Current \in Strings \cup {"cut"}
       PROVE  IInv'
  <2>1. CASE \E e \in Errors : Return(e, [doc EXCEPT !.overflowed = @ \/ ~ok])
    BY <2>1, NotedKeeps
  <2>3. CASE Current # "cut" /\ Ready(Saved(doc, node, Current), p)
    <3>1. p.open = Moved.open /\ p.rest = Moved.rest /\ p.node = Moved.node /\ p.todo = Moved.todo
      BY <1>1 DEF ParserRecord
    <3>2. ParserRecord(p)
      BY <1>1, <3>1 DEF ParserRecord
    <3>3. Ready(Saved(doc, node, Current), p) /\ Current \in Strings
      BY <1>14, <2>3
    <3> HIDE DEF p
    <3> QED
      BY <1>1, <1>11, <3>1, <3>2, <3>3
  <2> HIDE DEF p
  <2> QED
    BY <1>14, <2>1, <2>3 DEF ReadOf
<1>15. CASE ReadString(Current, Ready(Saved(doc, node, Current), p)) /\ Current \in Strings \cup {"cut"}
  <2> HIDE DEF p
  <2>1. PICK ok \in BOOLEAN : ReadOf(Current, ok, Ready(Saved(doc, node, Current), p))
    BY <1>15, ReadIs
  <2> QED
    BY <1>14, <1>15, <2>1
<1>16. CASE Current \in Plain \cup {"ext"}
            /\ \E r \in SetNull(doc, node, Current) :
                 IF r[2] = NullSlot THEN Return("NoMemory", r[1]) ELSE Ready(r[1], Moved)
  BY <1>10, <1>16
<1> QED
  BY <1>6, <1>7, <1>8, <1>13, <1>15, <1>16 DEF ParseVariant, node

LEMMA ContainerFacts ==
  ASSUME NEW g, Building(g), parser.todo # "value"
  PROVE  /\ Container \in g.in /\ doc.var[Container].type \in Collection
         /\ ~ InArray => doc.var[Container].type = "object"
         /\ Opened(doc, g, Front(parser.open)) /\ parser.open # << >>
         /\ \A i \in 1..Len(parser.open) :
              /\ parser.open[i] \in g.in
              /\ parser.open[i] # Container => g.rank[parser.open[i]] < g.rank[Container]
<1>1. Opened(doc, g, parser.open) /\ parser.open # << >>
  BY DEF Building, Parsing
<1>2. /\ Opened(doc, g, Front(parser.open)) /\ Last(parser.open) \in g.in
      /\ doc.var[Last(parser.open)].type \in Collection
      /\ \A i \in 1..Len(parser.open) :
           /\ parser.open[i] \in g.in
           /\ parser.open[i] # Last(parser.open) =>
                g.rank[parser.open[i]] < g.rank[Last(parser.open)]
  BY <1>1, OneLessOpened
<1> QED
  BY <1>1, <1>2 DEF Container, InArray, Collection

\* An array gets its next element, which is then read.
LEMMA NextElementKeeps ==
  ASSUME NEW g, Building(g), Len(doc'.pools) <= MaxPools, parser.todo # "value", InArray,
         NEW p, p = parser \/ p = Moved, NextElement(p)
  PROVE  IInv'
<1>1. /\ Good(doc, g) /\ Shaped(doc) /\ g.in \subseteq Nodes
      /\ ParserRecord(parser) /\ Opened(doc, g, parser.open)
      /\ ParserRecord(Moved) /\ Moved.open = parser.open
      /\ \A i \in 1..Len(parser.open) : parser.open[i] \in g.in
  BY BuildingFacts
<1>2. error = Running /\ g.roots = {Root} /\ Container \in g.in /\ doc.var[Container].type = "array"
  BY ContainerFacts DEF Building, InArray
<1>3. PICK r \in AddElement(doc, Container) :
        IF r[2] = NullSlot THEN Return("NoMemory", r[1])
        ELSE Continue(r[1], [p EXCEPT !.node = r[2], !.todo = "value"])
  BY DEF NextElement
<1>4. Len(r[1].pools) <= MaxPools
  <2>1. Shaped(r[1])
    BY <1>1, AddElementGrows DEF Grows
  <2>2. doc' = r[1] \/ doc' \in Shrunk(r[1])
    BY <1>3 DEF Return, Continue
  <2> QED
    BY <2>1, <2>2, BoundBack
<1>5. PICK h : Keeps(doc, g, r[1], h) /\ (r[2] # NullSlot => Newest(g, r[1], h, r[2]))
  BY <1>1, <1>2, <1>4, ElementAdded
<1>6. /\ Good(r[1], h) /\ h.roots = {Root} /\ g.in \subseteq h.in
      /\ \A u \in g.in : h.rank[u] = g.rank[u] /\ r[1].var[u].type = doc.var[u].type
  BY <1>2, <1>5 DEF Keeps
<1>7. CASE r[2] = NullSlot
  <2>1. Whole(r[1]) /\ Return("NoMemory", r[1])
    BY <1>3, <1>6, <1>7 DEF Whole
  <2> QED
    BY <2>1, ReturnKeeps DEF Errors
<1>8. CASE r[2] # NullSlot
  <2> DEFINE e == r[1]
             id == r[2]
             q == [p EXCEPT !.node = id, !.todo = "value"]
  <2>1. Continue(e, q)
    BY <1>3, <1>8
  <2> HIDE DEF e, id
  <2>2. ParserRecord(p) /\ p.open = parser.open
    BY <1>1
  <2>3. q.open = p.open /\ q.todo = "value" /\ q.node = id /\ q.built = p.built /\ q.rest = p.rest
    BY <2>2 DEF ParserRecord
  <2>4. ParserRecord(q)
    BY <2>2, <2>3 DEF ParserRecord
  <2> HIDE DEF q
  <2>5. Opened(e, h, parser.open)
    BY <1>1, <1>6, OpenedKept DEF e
  <2>6. id \in h.in /\ e.var[id].type = "null" /\ \A u \in g.in : g.rank[u] < h.rank[id]
    BY <1>5, <1>8 DEF Newest, e, id
  <2>7. \A i \in 1..Len(parser.open) : h.rank[parser.open[i]] < h.rank[id]
    BY <1>1, <1>6, <2>6
  <2>8. Parsing(e, h, q)
    BY <2>2, <2>3, <2>4, <2>5, <2>6, <2>7 DEF Parsing
  <2> QED
    BY <1>2, <1>6, <2>1, <2>8, ContinueKeeps DEF e
<1> QED
  BY <1>7, <1>8

\* A collection is closed.
LEMMA CloseKeeps ==
  ASSUME NEW g, Building(g), parser.todo # "value", Close
  PROVE  IInv'
<1> DEFINE p == [Moved EXCEPT !.open = Front(Moved.open)]
<1>1. Good(doc, g) /\ ParserRecord(Moved) /\ Moved.open = parser.open
  BY BuildingFacts
<1>2. p.open = Front(parser.open) /\ p.todo = Moved.todo /\ p.node = Moved.node
      /\ p.built = Moved.built /\ p.rest = Moved.rest
  BY <1>1 DEF ParserRecord
<1>3. ParserRecord(p)
  BY <1>1, <1>2 DEF ParserRecord
<1>4. Ready(doc, p)
  BY DEF Close
<1> HIDE DEF p
<1>5. Opened(doc, g, p.open)
  BY <1>2, ContainerFacts
<1>6. error = Running /\ g.roots = {Root}
  BY DEF Building
<1> QED
  BY <1>1, <1>3, <1>4, <1>5, <1>6, ReadyKeeps

\* An object is about to get a member.
LEMMA KeyNextKeeps ==
  ASSUME NEW g, Building(g), parser.todo # "value", ~ InArray,
         NEW p, p = parser \/ p = Moved, Continue(doc, [p EXCEPT !.todo = "key"])
  PROVE  IInv'
<1> DEFINE q == [p EXCEPT !.todo = "key"]
<1>1. /\ Good(doc, g) /\ ParserRecord(p) /\ p.open = parser.open /\ Opened(doc, g, parser.open)
      /\ error = Running /\ g.roots = {Root}
  BY BuildingFacts DEF Building
<1>2. q.open = p.open /\ q.todo = "key" /\ q.node = p.node /\ q.built = p.built /\ q.rest = p.rest
  BY <1>1 DEF ParserRecord
<1>3. ParserRecord(q)
  BY <1>1, <1>2 DEF ParserRecord
<1> HIDE DEF q
<1>4. doc.var[Last(parser.open)].type = "object" /\ parser.open # << >>
  BY ContainerFacts DEF Container
<1>5. Parsing(doc, g, q)
  BY <1>1, <1>2, <1>3, <1>4 DEF Parsing
<1> QED
  BY <1>1, <1>5, ContinueKeeps DEF q

LEMMA FirstKeeps ==
  ASSUME NEW g, Building(g), Len(doc'.pools) <= MaxPools, ParseFirst
  PROVE  IInv'
<1>1. parser.todo # "value"
  BY DEF ParseFirst
<1>2. CASE EndOfText(doc)
  BY <1>2, BuildingFacts, EndKeeps
<1>3. CASE Close
  BY <1>1, <1>3, CloseKeeps
<1>4. CASE InArray /\ NextElement(parser)
  BY <1>1, <1>4, NextElementKeeps
<1>5. CASE ~ InArray /\ Continue(doc, [parser EXCEPT !.todo = "key"])
  BY <1>1, <1>5, KeyNextKeeps
<1> QED
  BY <1>2, <1>3, <1>4, <1>5 DEF ParseFirst

LEMMA MoreKeeps ==
  ASSUME NEW g, Building(g), Len(doc'.pools) <= MaxPools, ParseMore
  PROVE  IInv'
<1>1. parser.todo # "value"
  BY DEF ParseMore
<1>2. CASE EndOfText(doc)
  BY <1>2, BuildingFacts, EndKeeps
<1>3. CASE Close
  BY <1>1, <1>3, CloseKeeps
<1>4. CASE InArray /\ NextElement(Moved)
  BY <1>1, <1>4, NextElementKeeps
<1>5. CASE ~ InArray /\ Continue(doc, [Moved EXCEPT !.todo = "key"])
  BY <1>1, <1>5, KeyNextKeeps
<1>6. CASE Return("InvalidInput", doc)
  BY <1>6, BuildingFacts, ReturnKeeps DEF Errors
<1> QED
  BY <1>2, <1>3, <1>4, <1>5, <1>6 DEF ParseMore

LEMMA AddPairGrows ==
  ASSUME NEW d, Shaped(d), NEW c, NEW r \in AddPair(d, c)
  PROVE  Grows(d, r[1])
<1>1. PICK q \in Alloc(d) :
        IF q[2] = NullSlot THEN r = q
        ELSE \E p \in Alloc(q[1]) :
               r = IF p[2] = NullSlot THEN p ELSE <<AppendPair(p[1], c, q[2], p[2]), q[2]>>
  BY DEF AddPair, Then
<1>2. Grows(d, q[1]) /\ Shaped(q[1])
  BY AllocGrows DEF Grows
<1>3. CASE r = q
  BY <1>2, <1>3
<1>4. ASSUME NEW p \in Alloc(q[1]),
             r[1] = p[1] \/ r[1] = AppendPair(p[1], c, q[2], p[2])
      PROVE  Grows(d, r[1])
  <2>1. Grows(d, p[1]) /\ Shaped(p[1])
    BY <1>2, AllocGrows, GrowsOn DEF Grows
  <2>2. Grows(p[1], AppendPair(p[1], c, q[2], p[2]))
    BY <2>1, PairGrows
  <2> QED
    BY <1>4, <2>1, <2>2, GrowsOn
<1>5. CASE \E p \in Alloc(q[1]) :
             r = IF p[2] = NullSlot THEN p ELSE <<AppendPair(p[1], c, q[2], p[2]), q[2]>>
  <2>1. PICK p \in Alloc(q[1]) :
          r = IF p[2] = NullSlot THEN p ELSE <<AppendPair(p[1], c, q[2], p[2]), q[2]>>
    BY <1>5
  <2>2. r[1] = p[1] \/ r[1] = AppendPair(p[1], c, q[2], p[2])
    BY <2>1
  <2> QED
    BY <1>4, <2>2
<1> QED
  BY <1>1, <1>3, <1>5

LEMMA KeyKeeps ==
  ASSUME NEW g, Building(g), ParseKey
  PROVE  IInv'
<1> DEFINE p(s) == [Moved EXCEPT !.built = s, !.todo = "member"]
<1>1. /\ Good(doc, g) /\ Whole(doc) /\ ParserRecord(Moved) /\ Moved.open = parser.open
      /\ Opened(doc, g, parser.open) /\ error = Running /\ g.roots = {Root}
  BY BuildingFacts DEF Building
<1>2. parser.open # << >> /\ doc.var[Last(parser.open)].type = "object"
  BY DEF Building, Parsing, ParseKey
<1>3. CASE EndOfText(doc)
  BY <1>1, <1>3, EndKeeps
<1>4. \A s \in Keys : s \in Strings \cup {"cut", "bad"}
  BY DEF Keys
<1>5. ASSUME NEW ok \in BOOLEAN, NEW s \in Keys, ReadOf(s, ok, Continue(doc, p(s)))
      PROVE  IInv'
  <2>1. CASE \E e \in Errors : Return(e, [doc EXCEPT !.overflowed = @ \/ ~ok])
    BY <2>1, NotedKeeps
  <2>3. CASE s \notin {"cut", "bad"} /\ Continue(doc, p(s))
    <3>1. /\ p(s).open = Moved.open /\ p(s).rest = Moved.rest /\ p(s).node = Moved.node
          /\ p(s).todo = "member" /\ p(s).built = s
      BY <1>1 DEF ParserRecord
    <3>3. Continue(doc, p(s)) /\ s \in Strings
      BY <1>4, <2>3
    <3>2. ParserRecord(p(s))
      BY <1>1, <3>1 DEF ParserRecord
    <3> HIDE DEF p
    <3>4. Parsing(doc, g, p(s))
      BY <1>1, <1>2, <3>1, <3>2, <3>3 DEF Parsing
    <3> QED
      BY <1>1, <3>3, <3>4, ContinueKeeps
  <2> HIDE DEF p
  <2> QED
    BY <1>5, <2>1, <2>3 DEF ReadOf
<1>6. ASSUME NEW s \in Keys, ReadString(s, Continue(doc, p(s)))
      PROVE  IInv'
  <2> HIDE DEF p
  <2>1. PICK ok \in BOOLEAN : ReadOf(s, ok, Continue(doc, p(s)))
    BY <1>6, ReadIs
  <2> QED
    BY <1>5, <2>1
<1> QED
  BY <1>3, <1>6 DEF ParseKey

\* The value of a member, which may have one already.
LEMMA MemberKeeps ==
  ASSUME NEW g, Building(g), Len(doc'.pools) <= MaxPools, ParseMember
  PROVE  IInv'
<1> DEFINE s == parser.built
           key == FindKey(doc, Container, s)
           q(d, k) == [Moved EXCEPT !.node = d.var[k].next, !.todo = "value"]
<1>1. /\ Good(doc, g) /\ doc \in Documents /\ Shaped(doc) /\ Whole(doc) /\ g.in \subseteq Nodes
      /\ ParserRecord(Moved) /\ Moved.open = parser.open /\ Opened(doc, g, parser.open)
      /\ error = Running /\ g.roots = {Root} /\ Tree(doc, g) /\ g \in Places
  BY BuildingFacts DEF Building, Good, Tree
<1>2. parser.todo = "member"
  BY DEF ParseMember
<1>3. doc.var[Container].type = "object" /\ s \in Strings /\ parser.open # << >>
  BY <1>2 DEF Building, Parsing, Container
<1>4. /\ Container \in g.in
      /\ \A i \in 1..Len(parser.open) :
           /\ parser.open[i] \in g.in
           /\ parser.open[i] # Container => g.rank[parser.open[i]] < g.rank[Container]
  BY <1>2, ContainerFacts
<1>5. \A u \in Nodes : g.rank[u] \in Nat
  BY <1>1, TreeFacts
<1>6. CASE EndOfText(doc)
  BY <1>1, <1>6, EndKeeps
<1>7. CASE Return("InvalidInput", doc)
  BY <1>1, <1>7, ReturnKeeps DEF Errors
\* The parser goes on with a value that is null.
<1>8. ASSUME NEW e, NEW h, Good(e, h), h.roots = {Root}, NEW p, ParserRecord(p),
             p.open = parser.open, p.todo = "value", Continue(e, p), Opened(e, h, parser.open),
             p.node \in h.in, e.var[p.node].type = "null",
             \A i \in 1..Len(parser.open) : h.rank[parser.open[i]] < h.rank[p.node]
      PROVE  IInv'
  <2>1. Parsing(e, h, p)
    BY <1>8 DEF Parsing
  <2> QED
    BY <1>1, <1>8, <2>1, ContinueKeeps
<1> HIDE DEF s
<1>9. ASSUME NEW v, NEW x
      PROVE  LET p == [Moved EXCEPT !.node = v, !.todo = "value"]
                 y == [p EXCEPT !.built = x] IN
             /\ ParserRecord(p) /\ p.open = parser.open /\ p.todo = "value" /\ p.node = v
             /\ ParserRecord(y) /\ y.open = parser.open /\ y.todo = "value" /\ y.node = v
  <2> DEFINE p == [Moved EXCEPT !.node = v, !.todo = "value"]
             y == [p EXCEPT !.built = x]
  <2>1. p.open = parser.open /\ p.todo = "value" /\ p.node = v /\ p.rest = Moved.rest /\ p.built = Moved.built
    BY <1>1 DEF ParserRecord
  <2>2. ParserRecord(p)
    BY <1>1, <2>1 DEF ParserRecord
  <2> HIDE DEF p
  <2>3. y.open = p.open /\ y.todo = p.todo /\ y.node = p.node /\ y.rest = p.rest /\ y.built = x
    BY <2>2 DEF ParserRecord
  <2>4. ParserRecord(y)
    BY <2>2, <2>3 DEF ParserRecord
  <2> HIDE DEF y
  <2> QED
    BY <2>1, <2>2, <2>3, <2>4 DEF p, y
<1>10. CASE key # NullSlot /\ Continue(Clear(doc, doc.var[key].next), q(doc, key))
  <2> DEFINE v == doc.var[key].next
             e == Clear(doc, v)
             h == Without(g, Below(doc, v))
             p == [Moved EXCEPT !.node = v, !.todo = "value"]
  <2>1. v \in g.in \ g.roots /\ g.rank[Container] < g.rank[v]
    BY <1>1, <1>3, <1>4, <1>10, FindKeyIs
  <2> HIDE DEF key
  <2>2. Continue(e, p)
    BY <1>10
  <2> HIDE DEF v
  <2>3. Good(e, h)
    BY <1>1, <2>1, Cleared
  <2>4. /\ e.var[v].type = "null" /\ \A u \in Nodes \ {v} : e.var[u] = doc.var[u]
    <3>1. Emptied(doc, v, e)
      BY <1>1, <2>1, ClearFields
    <3> HIDE DEF e
    <3> QED
      BY <3>1 DEF Emptied
  <2>5. /\ v \notin Below(doc, v) /\ Below(doc, v) \subseteq g.in \ g.roots
        /\ \A w \in Below(doc, v) : g.rank[v] < g.rank[w]
    BY <1>1, <2>1, BelowInTree
  <2>6. h.in = g.in \ Below(doc, v) /\ h.roots = g.roots \ Below(doc, v) /\ h.rank = g.rank
    BY <1>1, WithoutFields
  <2> HIDE DEF h, e, p
  <2>7. /\ \A u \in g.in : u \in Nodes /\ g.rank[u] \in Nat
        /\ \A i \in 1..Len(parser.open) : g.rank[parser.open[i]] < g.rank[v]
    BY <1>1, <1>4, <1>5, <2>1
  <2>8. \A i \in 1..Len(parser.open) :
          parser.open[i] \in g.in /\ parser.open[i] # v /\ parser.open[i] \notin Below(doc, v)
    BY <1>4, <2>1, <2>5, <2>7
  <2>9. Opened(e, h, parser.open)
    BY <1>1, <2>4, <2>6, <2>8, OpenedKept
  <2>10. h.roots = {Root}
    BY <1>1, <2>5, <2>6
  <2>11. ParserRecord(p) /\ p.open = parser.open /\ p.todo = "value" /\ p.node = v
    BY <1>9 DEF p
  <2>12. v \in h.in /\ \A i \in 1..Len(parser.open) : h.rank[parser.open[i]] < h.rank[v]
    BY <2>1, <2>5, <2>6, <2>7
  <2> QED
    BY <1>8, <2>2, <2>3, <2>4, <2>9, <2>10, <2>11, <2>12
<1>11. ASSUME NEW r \in AddPair(doc, Container),
              IF r[2] = NullSlot THEN Return("NoMemory", r[1])
              ELSE Continue(Saved(r[1], r[2], s),
                            [q(r[1], r[2]) EXCEPT !.built = NodeAfterSave(doc, s)])
       PROVE  IInv'
  <2>1. doc' = r[1] \/ doc' \in Shrunk(r[1]) \/ doc' = Saved(r[1], r[2], s)
    BY <1>11 DEF Return, Continue
  <2>2. Len(r[1].pools) <= MaxPools
    <3>1. Shaped(r[1])
      BY <1>1, AddPairGrows DEF Grows
    <3>2. Saved(r[1], r[2], s).pools = r[1].pools
      BY <3>1 DEF Saved, Shaped
    <3> QED
      BY <2>1, <3>1, <3>2, BoundBack
  <2>3. PICK h : /\ Keeps(doc, g, r[1], h)
                 /\ r[2] # NullSlot =>
                      /\ r[2] \in h.in /\ r[1].var[r[2]].type = "null"
                      /\ r[1].var[r[2]].next # r[2]
                      /\ Newest(g, r[1], h, r[1].var[r[2]].next)
    BY <1>1, <1>3, <1>4, <2>2, PairAdded
  <2>4. /\ Good(r[1], h) /\ h.roots = {Root} /\ g.in \subseteq h.in
        /\ \A u \in g.in : h.rank[u] = g.rank[u] /\ r[1].var[u].type = doc.var[u].type
    BY <1>1, <2>3 DEF Keeps
  <2>5. CASE r[2] = NullSlot
    <3>1. Whole(r[1]) /\ Return("NoMemory", r[1])
      BY <1>11, <2>4, <2>5 DEF Whole
    <3> QED
      BY <3>1, ReturnKeeps DEF Errors
  <2>6. CASE r[2] # NullSlot
    <3> DEFINE d == r[1]
               k == r[2]
               v == d.var[k].next
               e == Saved(d, k, s)
               x == NodeAfterSave(doc, s)
               p == [Moved EXCEPT !.node = v, !.todo = "value"]
               y == [p EXCEPT !.built = x]
    <3>1. Continue(e, y)
      BY <1>11, <2>6
    <3>2. ParserRecord(y) /\ y.open = parser.open /\ y.todo = "value" /\ y.node = v
      <4> HIDE DEF d, k, v, x
      <4> QED
        BY <1>9, ZenonT(40)
    <3> HIDE DEF x, p, y
    <3>3. /\ k \in h.in /\ d.var[k].type = "null" /\ v # k /\ v \in h.in
          /\ d.var[v].type = "null" /\ \A u \in g.in : g.rank[u] < h.rank[v]
      BY <2>3, <2>6 DEF Newest
    <3> HIDE DEF d, k, v
    <3>4. h.in \subseteq Nodes
      BY <2>4, TreeFacts DEF Good
    <3>5. Good(e, h) /\ \A u \in Nodes \ {k} : e.var[u] = d.var[u]
      BY <1>3, <2>4, <3>3, SavedGood DEF d
    <3> HIDE DEF e
    <3>6. e.var[v].type = "null"
      BY <3>3, <3>4, <3>5
    <3>7. \A i \in 1..Len(parser.open) : h.rank[parser.open[i]] < h.rank[v]
      BY <1>4, <2>4, <3>3
    <3>8. \A i \in 1..Len(parser.open) : e.var[parser.open[i]].type = doc.var[parser.open[i]].type
      <4>1. ASSUME NEW i \in 1..Len(parser.open) PROVE parser.open[i] # k
        <5>1. parser.open[i] \in g.in /\ doc.var[parser.open[i]].type \in Collection
          BY <1>1, <1>4 DEF Opened
        <5>2. d.var[parser.open[i]].type \in Collection
          BY <2>4, <5>1 DEF d
        <5> QED
          BY <3>3, <5>2 DEF Collection
      <4>2. ASSUME NEW i \in 1..Len(parser.open)
            PROVE  e.var[parser.open[i]].type = doc.var[parser.open[i]].type
        <5>1. parser.open[i] \in g.in /\ parser.open[i] \in Nodes
          BY <1>1, <1>4
        <5> QED
          BY <2>4, <3>5, <4>1, <5>1 DEF d
      <4> QED
        BY <4>2
    <3>9. Opened(e, h, parser.open)
      BY <1>1, <1>4, <2>4, <3>8, OpenedKept
    <3> QED
      BY <1>8, <2>4, <3>1, <3>2, <3>3, <3>5, <3>6, <3>7, <3>9
  <2> QED
    BY <2>5, <2>6
<1> QED
  BY <1>6, <1>7, <1>10, <1>11 DEF ParseMember, s

-----------------------------------------------------------------------------
(***************************************************************************)
(* The invariant, and what follows from it                                 *)
(***************************************************************************)

LEMMA InitKeeps == ASSUME Init PROVE IInv
<1>1. doc = Empty /\ parser = Start(<< >>) /\ error \in Errors
  BY DEF Init, Errors
<1> QED
  BY <1>1, WholeEmpty DEF IInv

LEMMA DeserializeKeeps == ASSUME NEW t, Deserialize(t) PROVE IInv'
<1> DEFINE p == Start(t)
<1>1. error' = Running /\ doc' = Empty /\ parser' = p
  BY DEF Deserialize
<1>2. ParserRecord(p) /\ p.todo = "value" /\ p.open = << >> /\ p.node = Root
  BY DEF Start, ParserRecord
<1> HIDE DEF p
<1>3. Empty.var[Root].type = "null"
  BY Sizes, NullFields DEF Empty, Nodes
<1>4. OnlyRoot.in = {Root} /\ OnlyRoot.roots = {Root}
  BY DEF OnlyRoot
<1>5. Opened(Empty, OnlyRoot, << >>)
  BY NoneOpened
<1>6. Parsing(Empty, OnlyRoot, p)
  BY <1>2, <1>3, <1>4, <1>5 DEF Parsing
<1> QED
  BY <1>1, <1>4, <1>6, EmptyGood DEF IInv

LEMMA UseDocumentKeeps ==
  ASSUME IInv, Len(doc'.pools) <= MaxPools, UseDocument
  PROVE  IInv'
<1>1. error # Running /\ Use /\ error' = NotRun /\ parser' = parser
  BY DEF UseDocument
<1>2. parser = Start(<< >>) /\ Whole(doc)
  BY <1>1 DEF IInv
<1>3. PICK g : Good(doc, g) /\ g.roots = {Root}
  BY <1>2 DEF Whole
<1>4. Whole(doc')
  BY <1>1, <1>3, UseKeeps DEF Whole
<1> QED
  BY <1>1, <1>2, <1>4 DEF IInv, Errors

\* A step keeps the invariant, if the pools it leaves are not too many.
LEMMA NextKeeps ==
  ASSUME IInv, [Next]_vars, Len(doc'.pools) <= MaxPools
  PROVE  IInv'
<1>1. CASE \E t \in Texts : Deserialize(t)
  BY <1>1, DeserializeKeeps
<1>2. CASE error = Running /\ Parse
  <2>1. PICK g : Building(g)
    BY <1>2 DEF IInv, Building, Errors, Running, NotRun
  <2> QED
    BY <1>2, <2>1, VariantKeeps, FirstKeeps, MoreKeeps, KeyKeeps, MemberKeeps DEF Parse
<1>3. CASE UseDocument
  BY <1>3, UseDocumentKeeps
<1>4. CASE UNCHANGED vars
  BY <1>4 DEF IInv, vars
<1> QED
  BY <1>1, <1>2, <1>3, <1>4 DEF Next

LEMMA InvariantIsWhole == ASSUME IInv PROVE Whole(doc)
BY DEF IInv, Whole

\* All that is in use hangs on the root.
LEMMA AllBelowRoot ==
  ASSUME NEW d, NEW g, Good(d, g), g.roots = {Root}
  PROVE  Below(d, Root) = g.in \ {Root} /\ Reached(d) = g.in
<1>1. Tree(d, g) /\ d \in Documents /\ Root \in g.in /\ Root \in Nodes /\ g.in \subseteq Nodes
  BY TreeFacts, Sizes DEF Good
<1>2. Below(d, Root) \subseteq g.in \ {Root}
  BY <1>1, BelowInTree
<1>3. /\ d.var[Root].head # NullSlot => d.var[Root].head \in Below(d, Root)
      /\ \A u \in Below(d, Root) : Links(d, u) \subseteq Below(d, Root)
  BY <1>1, BelowClosed
<1> DEFINE W == (g.in \ {Root}) \ Below(d, Root)
<1>4. W = {}
  <2> SUFFICES ASSUME W # {} PROVE FALSE
    OBVIOUS
  <2>1. \A u \in Nodes : g.rank[u] \in Nat
    BY <1>1, TreeFacts
  <2>2. \A w \in W : w \in g.in \ g.roots /\ g.rank[w] \in Nat
    BY <1>1, <2>1
  <2>3. PICK w \in W : \A z \in W : g.rank[w] <= g.rank[z]
    <3>1. \A w \in W : g.rank[w] \in Nat
      BY <2>2
    <3> DEFINE r == g.rank
    <3> HIDE DEF W, r
    <3>2. \A w \in W : r[w] \in Nat
      BY <3>1 DEF r
    <3>3. \E w \in W : \A z \in W : r[w] <= r[z]
      BY <3>2, LeastRank
    <3> QED
      BY <3>3 DEF r
  <2>4. /\ g.up[w] \in g.in /\ w \in Links(d, g.up[w])
        /\ \A u \in g.in : w \in Links(d, u) => g.rank[u] < g.rank[w]
    <3>1. w \in g.in \ g.roots
      BY <2>2
    <3>2. g.up[w] \in g.in /\ w \in Links(d, g.up[w])
      BY <1>1, <3>1 DEF Tree, Forest
    <3>3. \A u \in g.in : w \in Links(d, u) => g.rank[u] < g.rank[w]
      BY <1>1 DEF Tree, Forest, Linked, Links
    <3> QED
      BY <3>2, <3>3
  <2>5. g.rank[g.up[w]] < g.rank[w] /\ g.rank[g.up[w]] \in Nat /\ g.rank[w] \in Nat
    BY <1>1, <2>1, <2>2, <2>4
  <2>6. g.up[w] \notin W
    BY <2>3, <2>5
  <2>7. CASE g.up[w] = Root
    <3>1. d.var[Root].next = NullSlot
      BY <1>1, TreeFacts DEF Tree, Forest
    <3>2. w = d.var[Root].head /\ w # NullSlot
      BY <2>4, <2>7, <3>1 DEF Links
    <3> QED
      BY <1>3, <3>2
  <2>8. CASE g.up[w] \in Below(d, Root)
    BY <1>3, <2>4, <2>8
  <2> QED
    BY <2>4, <2>6, <2>7, <2>8
<1> QED
  BY <1>1, <1>2, <1>4 DEF Reached

\* A string is counted as often as it is used.
LEMMA CountsFollow == ASSUME Whole(doc) PROVE StringsAreCounted
<1>1. PICK g : Good(doc, g) /\ g.roots = {Root}
  BY DEF Whole
<1>2. Reached(doc) = g.in
  BY <1>1, AllBelowRoot
<1> QED
  BY <1>1, <1>2 DEF Good, Counted, StringsAreCounted

LEMMA TypesFollow == ASSUME Whole(doc) PROVE DocumentTypeOK
<1>1. PICK g : Good(doc, g)
  BY DEF Whole
<1>2. doc \in Documents /\ PoolsOK(doc)
  BY <1>1, TreeFacts DEF Good
<1>3. \A v \in Nodes : /\ doc.var[v].type \in Types
                       /\ {doc.var[v].head, doc.var[v].tail, doc.var[v].next} \subseteq 0..NullSlot
  BY <1>2, VarType
<1>4. /\ doc.capacity \in Nat /\ doc.moved \in BOOLEAN /\ doc.overflowed \in BOOLEAN
      /\ doc.free \subseteq Slots /\ \A s \in Long : doc.refs[s] \in Nat
  BY <1>2 DEF Documents
<1> QED
  BY <1>2, <1>3, <1>4 DEF DocumentTypeOK, PoolsOK, Types, Nodes

\* A collection that remembers a tail has it.
LEMMA TailIsLast ==
  ASSUME NEW d, NEW g, Good(d, g), NEW c \in g.in, d.var[c].type \in Collection
  PROVE  d.var[c].tail = IF Kids(d, c) = << >> THEN NullSlot ELSE Last(Kids(d, c))
<1> DEFINE kids == Kids(d, c)
           t == d.var[c].tail
<1>1. /\ Tree(d, g) /\ g.in \ g.roots \subseteq Slots
      /\ t # NullSlot => /\ d.var[c].head # NullSlot
                         /\ t \in g.in \ g.roots /\ g.own[t] = c /\ d.var[t].next = NullSlot
      /\ d.var[c].head # NullSlot => t # NullSlot
  BY TreeFacts DEF Good, Tails
<1>2. /\ kids \in Seq(Slots)
      /\ \A i \in 1..Len(kids) : kids[i] \in g.in \ g.roots
      /\ \A i \in 1..Len(kids) - 1 : kids[i + 1] = d.var[kids[i]].next
      /\ kids = << >> <=> d.var[c].head = NullSlot
  BY <1>1, KidsInTree
<1>3. CASE t = NullSlot
  BY <1>1, <1>2, <1>3
<1>4. CASE t # NullSlot
  <2>1. t \in g.in \ g.roots /\ g.own[t] = c
    BY <1>1, <1>4
  <2>2. PICK i \in 1..Len(kids) : kids[i] = t
    BY <1>1, <2>1, KidsInTree
  <2> HIDE DEF kids, t
  <2>3. i = Len(kids)
    <3> SUFFICES ASSUME i # Len(kids) PROVE FALSE
      OBVIOUS
    <3>1. Len(kids) \in Nat
      BY <1>2
    <3>2. i \in 1..Len(kids) - 1 /\ i + 1 \in 1..Len(kids)
      BY <3>1
    <3>3. kids[i + 1] = NullSlot /\ kids[i + 1] \in Slots
      BY <1>1, <1>2, <1>4, <2>2, <3>2
    <3> QED
      BY <3>3, Sizes
  <2>4. kids # << >>
    BY <1>1, <1>2, <1>4
  <2> QED
    BY <2>2, <2>3, <2>4 DEF Last, kids, t
<1> QED
  BY <1>3, <1>4

LEMMA OneToOne ==
  ASSUME NEW S, NEW T, IsFiniteSet(S), NEW f,
         \A x \in S : f[x] \in T, \A x \in S, y \in S : f[x] = f[y] => x = y,
         \A z \in T : \E x \in S : f[x] = z
  PROVE  IsFiniteSet(T) /\ Cardinality(T) = Cardinality(S)
<1> DEFINE h == [x \in S |-> f[x]]
<1>1. h \in Bijection(S, T)
  BY DEF Bijection, Injection, Surjection, IsInjective
<1>2. ExistsBijection(S, T)
  BY <1>1 DEF ExistsBijection
<1> QED
  BY <1>2, FS_Bijection

\* Each value in use is the head of one value, or follows one.
LEMMA LinksCounted ==
  ASSUME NEW d, NEW g, Good(d, g), g.roots = {Root}
  PROVE  LET used == g.in \ {Root} IN
         /\ Cardinality(used) = Cardinality({v \in g.in : d.var[v].head # NullSlot})
                                  + Cardinality({v \in used : d.var[v].next # NullSlot})
         /\ \A w : w \in used <=>
              \/ \E v \in g.in : w = d.var[v].head /\ w # NullSlot
              \/ \E v \in used : w = d.var[v].next /\ w # NullSlot
<1> DEFINE used == g.in \ {Root}
           H == {v \in g.in : d.var[v].head # NullSlot}
           N == {v \in used : d.var[v].next # NullSlot}
           A == {w \in used : d.var[g.up[w]].head = w}
           B == {w \in used : d.var[g.up[w]].next = w}
           head == [v \in Nodes |-> d.var[v].head]
           next == [v \in Nodes |-> d.var[v].next]
<1>1. Tree(d, g) /\ g.in \subseteq Nodes /\ Root \in g.in
  BY TreeFacts DEF Good
<1>2. /\ \A u \in g.in : d.var[u].head # NullSlot =>
           /\ d.var[u].head \in used /\ g.up[d.var[u].head] = u
           /\ d.var[u].head # d.var[u].next
      /\ \A u \in g.in : d.var[u].next # NullSlot =>
           d.var[u].next \in used /\ g.up[d.var[u].next] = u
      /\ d.var[Root].next = NullSlot
  BY <1>1 DEF Tree, Forest, Linked
<1>3. \A w \in used : /\ g.up[w] \in g.in /\ w # NullSlot
                      /\ w = d.var[g.up[w]].head \/ w = d.var[g.up[w]].next
  BY <1>1, Sizes DEF Tree, Forest, Links
<1>4. IsFiniteSet(used) /\ IsFiniteSet(H) /\ IsFiniteSet(N)
  <2>1. used \subseteq Nodes /\ H \subseteq Nodes /\ N \subseteq Nodes
    BY <1>1
  <2> QED
    BY <2>1, SlotsFinite, FS_Subset
<1>5. \A v \in g.in : head[v] = d.var[v].head /\ next[v] = d.var[v].next
  BY <1>1
<1>6. N \subseteq g.in /\ H \subseteq g.in
  OBVIOUS
<1> HIDE DEF head, next
<1>7. IsFiniteSet(A) /\ Cardinality(A) = Cardinality(H)
  <2>1. \A v \in H : head[v] \in A
    BY <1>2, <1>5
  <2>2. \A x \in H, y \in H : head[x] = head[y] => x = y
    BY <1>2, <1>5
  <2>3. \A w \in A : \E v \in H : head[v] = w
    BY <1>3, <1>5
  <2> HIDE DEF A, H
  <2> QED
    BY <1>4, <2>1, <2>2, <2>3, OneToOne
<1>8. IsFiniteSet(B) /\ Cardinality(B) = Cardinality(N)
  <2>1. \A v \in N : next[v] \in B
    BY <1>2, <1>5
  <2>2. \A x \in N, y \in N : next[x] = next[y] => x = y
    BY <1>2, <1>5
  <2>3. \A w \in B : \E v \in N : next[v] = w
    <3> SUFFICES ASSUME NEW w \in B PROVE \E v \in N : next[v] = w
      OBVIOUS
    <3>1. g.up[w] \in g.in /\ w # NullSlot /\ d.var[g.up[w]].next = w
      BY <1>3
    <3>2. g.up[w] \in N
      BY <1>2, <3>1
    <3> QED
      BY <1>5, <3>1, <3>2
  <2> HIDE DEF B, N
  <2> QED
    BY <1>4, <2>1, <2>2, <2>3, OneToOne
<1>9. used = A \cup B /\ A \cap B = {}
  <2>1. \A w \in used : w \in A \/ w \in B
    BY <1>3
  <2>2. \A w \in used : ~ (w \in A /\ w \in B)
    BY <1>2, <1>3
  <2> QED
    BY <2>1, <2>2
<1>10. Cardinality(used) = Cardinality(H) + Cardinality(N)
  <2> HIDE DEF A, B, H, N, used
  <2>1. Cardinality(A \cup B) = Cardinality(A) + Cardinality(B) - Cardinality(A \cap B)
    BY <1>7, <1>8, FS_Union
  <2>2. Cardinality(A \cap B) = 0
    BY <1>9, FS_EmptySet
  <2>3. Cardinality(A) \in Nat /\ Cardinality(B) \in Nat
    BY <1>7, <1>8, FS_CardinalityType
  <2> QED
    BY <1>7, <1>8, <1>9, <2>1, <2>2, <2>3
<1>11. \A w : w \in used <=> \/ \E v \in g.in : w = d.var[v].head /\ w # NullSlot
                             \/ \E v \in used : w = d.var[v].next /\ w # NullSlot
  <2>1. ASSUME NEW w \in used
        PROVE  \/ \E v \in g.in : w = d.var[v].head /\ w # NullSlot
               \/ \E v \in used : w = d.var[v].next /\ w # NullSlot
    BY <1>2, <1>3
  <2>2. ASSUME NEW v \in g.in, d.var[v].head # NullSlot PROVE d.var[v].head \in used
    BY <1>2, <2>2
  <2>3. ASSUME NEW v \in used, d.var[v].next # NullSlot PROVE d.var[v].next \in used
    BY <1>2, <2>3
  <2> QED
    BY <2>1, <2>2, <2>3
<1> QED
  BY <1>10, <1>11

\* Every slot that was handed out is one of the slots there are.
LEMMA GivenSlots ==
  ASSUME NEW d \in Documents, PoolsOK(d), Len(d.pools) <= MaxPools, NEW x \in Given(d)
  PROVE  x \in Slots
<1>1. PICK m \in 1..Len(d.pools) : \E i \in 0..d.pools[m].usage - 1 : x = (m - 1) * PoolCapacity + i
  BY GivenIs
<1>2. PICK i \in 0..d.pools[m].usage - 1 : x = (m - 1) * PoolCapacity + i
  BY <1>1
<1> DEFINE used == d.pools[m].usage
           all == d.pools[m].capacity
<1>3. /\ used \in Nat /\ all \in Nat /\ used <= all /\ all <= PoolCapacity
      /\ m = MaxPools => all < PoolCapacity
  BY PoolFacts DEF PoolsOK
<1>4. m \in 1..MaxPools /\ i \in 0..used - 1
  BY <1>2, PoolFacts, MaxPoolsIs
<1> HIDE DEF used, all
<1>5. i \in 0..PoolCapacity - 1 /\ (m = MaxPools => i < PoolCapacity - 1)
  BY <1>3, <1>4, Sizes
<1> QED
  BY <1>2, <1>4, <1>5, SlotNumbers

LEMMA PlacesFollow ==
  ASSUME Whole(doc), Len(doc.pools) <= MaxPools
  PROVE  SlotsHaveOnePlace
<1>1. PICK g : Good(doc, g) /\ g.roots = {Root}
  BY DEF Whole
<1> DEFINE used == Below(doc, Root)
           heads == [v \in used \cup {Root} |-> doc.var[v].head]
           nexts == [v \in used |-> doc.var[v].next]
           linked == (Range(heads) \cup Range(nexts)) \ {NullSlot}
           H == {v \in used \cup {Root} : heads[v] # NullSlot}
           N == {v \in used : nexts[v] # NullSlot}
<1>2. used = g.in \ {Root} /\ used \cup {Root} = g.in
  <2>1. used = g.in \ {Root}
    BY <1>1, AllBelowRoot
  <2>2. Root \in g.in
    BY <1>1, TreeFacts DEF Good
  <2> QED
    BY <2>1, <2>2
<1> HIDE DEF used
<1>3. used = linked
  <2>1. \A w : w \in used <=> \/ \E v \in used \cup {Root} : w = doc.var[v].head /\ w # NullSlot
                              \/ \E v \in used : w = doc.var[v].next /\ w # NullSlot
    <3>1. \A w : w \in g.in \ {Root} <=>
            \/ \E v \in g.in : w = doc.var[v].head /\ w # NullSlot
            \/ \E v \in g.in \ {Root} : w = doc.var[v].next /\ w # NullSlot
      BY <1>1, LinksCounted
    <3> QED
      BY <1>2, <3>1
  <2>2. Range(heads) = {doc.var[v].head : v \in used \cup {Root}}
    BY DEF Range
  <2>3. Range(nexts) = {doc.var[v].next : v \in used}
    BY DEF Range
  <2> HIDE DEF heads, nexts
  <2> QED
    BY <2>1, <2>2, <2>3
<1>4. Cardinality(used) = Cardinality(H) + Cardinality(N)
  <2>1. H = {v \in g.in : doc.var[v].head # NullSlot}
    BY <1>2
  <2>2. N = {v \in g.in \ {Root} : doc.var[v].next # NullSlot}
    BY <1>2
  <2> HIDE DEF H, N
  <2> QED
    BY <1>1, <1>2, <2>1, <2>2, LinksCounted
<1>5. /\ used \subseteq Given(doc) /\ used \cap doc.free = {}
      /\ doc.overflowed \/ used \cup doc.free = Given(doc)
  <2>1. /\ g.in \ {Root} \subseteq Given(doc) /\ doc.free \subseteq Given(doc)
        /\ g.in \cap doc.free = {}
        /\ doc.overflowed \/ Given(doc) \subseteq g.in \cup doc.free
    BY <1>1 DEF Good, Accounted
  <2>2. Root \notin Given(doc)
    <3>1. doc \in Documents /\ PoolsOK(doc)
      BY <1>1, TreeFacts DEF Good
    <3>2. Root \notin Slots
      BY Sizes DEF Root, Slots
    <3> QED
      BY <3>1, <3>2, GivenSlots
  <2> QED
    BY <1>2, <2>1, <2>2
<1>6. \A v \in used \cup {Root} :
        doc.var[v].type \in {"array", "object"} =>
          doc.var[v].tail = IF Kids(doc, v) = << >> THEN NullSlot ELSE Last(Kids(doc, v))
  BY <1>1, <1>2, TailIsLast DEF Collection
<1> QED
  BY <1>3, <1>4, <1>5, <1>6 DEF SlotsHaveOnePlace, used


-----------------------------------------------------------------------------
(***************************************************************************)
(* What holds of every document                                            *)
(***************************************************************************)
\* The slots of all pools have numbers of their own. The code stops at a capacity of
\* maxPools; doubling can step over it, once shrinkToFit has set the capacity to a number
\* of pools that is no power of two (MemoryPoolList.hpp:140-149, 181-201).
PoolsFit == Len(doc.pools) <= MaxPools

LEMMA ParserTypes ==
  ASSUME IInv
  PROVE  /\ parser.todo \in {"value", "first", "more", "key", "member"}
         /\ \A i \in DOMAIN parser.open : doc.var[parser.open[i]].type \in {"array", "object"}
<1>1. CASE parser = Start(<< >>)
  BY <1>1 DEF Start
<1>2. CASE \E g : Parsing(doc, g, parser)
  <2>1. PICK g : Parsing(doc, g, parser)
    BY <1>2
  <2>2. /\ parser.open \in Seq(g.in)
        /\ \A i \in 1..Len(parser.open) : doc.var[parser.open[i]].type \in Collection
    BY <2>1 DEF Parsing, Opened
  <2>3. DOMAIN parser.open = 1..Len(parser.open)
    BY <2>2
  <2> QED
    BY <2>1, <2>2, <2>3 DEF Parsing, Collection
<1> QED
  BY <1>1, <1>2 DEF IInv

LEMMA ErrorTypes ==
  ASSUME IInv
  PROVE  error \in {NotRun, Running, "Ok", "EmptyInput", "IncompleteInput", "InvalidInput",
                    "NoMemory", "TooDeep"}
BY DEF IInv, Errors

\* As long as the pools fit, a document is a tree of values that holds its memory, and
\* a parser that is not done is inside of it.
THEOREM Invariant == Spec /\ []PoolsFit => []IInv
<1>1. Init => IInv
  BY InitKeeps
<1>2. IInv /\ PoolsFit' /\ [Next]_vars => IInv'
  BY NextKeeps DEF PoolsFit
<1> QED
  BY <1>1, <1>2, PTL DEF Spec

\* The parser is always at a place of the grammar that there is, and the containers it
\* is in are containers, whatever the text and wherever memory runs out
\* (JsonDeserializer.hpp:61-380).
THEOREM TypesAreRight == Spec /\ []PoolsFit => []TypeOK
<1>1. IInv => TypeOK
  BY InvariantIsWhole, TypesFollow, ParserTypes, ErrorTypes DEF TypeOK
<1> QED
  BY <1>1, Invariant, PTL

\* No slot is lost or linked twice, through any sequence of texts, programs and failures
\* of the heap (MemoryPoolList.hpp:82-104, CollectionImpl.hpp:33-118).
THEOREM NoSlotIsLost == Spec /\ []PoolsFit => []SlotsHaveOnePlace
<1>1. IInv /\ PoolsFit => SlotsHaveOnePlace
  BY InvariantIsWhole, PlacesFollow DEF PoolsFit
<1> QED
  BY <1>1, Invariant, PTL

\* The number of references of a string is the number of the values that use it, so no
\* string is freed too early or kept for ever (StringPool.hpp:44-96, VariantImpl.hpp:48-62).
THEOREM NoStringIsLost == Spec /\ []PoolsFit => []StringsAreCounted
<1>1. IInv => StringsAreCounted
  BY InvariantIsWhole, CountsFollow
<1> QED
  BY <1>1, Invariant, PTL
=============================================================================
