----------------------------- MODULE OrderedTree -----------------------------
(***************************************************************************)
(* What a JsonDocument promises to the programs that use it: a tree, whose *)
(* nodes are values, with the elements of an array and the members of an   *)
(* object in the order they were added. An operation changes the node it   *)
(* is about and nothing else, and only when memory runs out, which the     *)
(* document then tells, may it stop on the way.                            *)
(***************************************************************************)
EXTENDS Naturals, Sequences, SequencesExt

CONSTANTS
  Nodes,
  Root,
  Names,   \* the keys of members
  Values   \* what a node can be, "null", "array" and "object" among them

VARIABLES
  tree,    \* of each node what it is, and the nodes below it: of an object,
           \* its keys and its values in turn
  full     \* has memory run out?

vars == <<tree, full>>

Node(value) == [is |-> value, of |-> << >>]

Init == tree = [v \in {Root} |-> Node("null")] /\ full = FALSE

-----------------------------------------------------------------------------
Those(t, kind) == {c \in DOMAIN t : t[c].is = kind}

\* The nodes that can be given a value, which keys cannot.
Places(t) ==
  {Root} \cup (UNION {ToSet(t[c].of) : c \in Those(t, "array")})
         \cup (UNION {{t[c].of[i] : i \in {n \in DOMAIN t[c].of : n % 2 = 0}} : c \in Those(t, "object")})

KeysAt(t, c, s) == {i \in DOMAIN t[c].of : i % 2 = 1 /\ t[t[c].of[i]].is = s}

\* D are the nodes of S and those below them; there are no others, for t is a tree.
IsCut(t, S, D) == \A w \in DOMAIN t : w \in D <=> w \in S \/ \E u \in D : w \in ToSet(t[u].of)

\* c gets new nodes behind those it has.
Grown(t, c, new) ==
  [u \in DOMAIN t \cup ToSet(new) |->
     IF u = c THEN [t[c] EXCEPT !.of = @ \o new] ELSE IF u \in DOMAIN t THEN t[u] ELSE Node("null")]

Fresh(n) == {new \in [1..n -> Nodes \ DOMAIN tree] : IsInjective(new)}

\* v gets a value, or is left without one, and what was below it is gone.
Assign(t, v, value) ==
  LET gone == DOMAIN t \ DOMAIN tree'
      assigned(is) == [u \in DOMAIN t \ gone |-> IF u = v THEN Node(is) ELSE t[u]]
  IN /\ IsCut(t, ToSet(t[v].of), gone)
     /\ \/ tree' = assigned(value) /\ UNCHANGED full
        \/ tree' = assigned("null") /\ full' = TRUE

\* Of the nodes of c, some are left; the others and what was below them is gone.
Leave(c, left) ==
  LET gone == DOMAIN tree \ DOMAIN tree' IN
  /\ IsCut(tree, ToSet(tree[c].of) \ ToSet(left), gone)
  /\ tree' = [u \in DOMAIN tree \ gone |-> IF u = c THEN [tree[c] EXCEPT !.of = left] ELSE tree[u]]
  /\ UNCHANGED full

-----------------------------------------------------------------------------
\* Memory runs out, or has done so before, and nothing is changed.
RunOut == full' = TRUE /\ UNCHANGED tree

SetNode(v, value) == Assign(tree, v, value)

\* A new tree takes the place of this one.
SetTree(value) ==
  \/ tree' = [v \in {Root} |-> Node(value)] /\ full' = FALSE
  \/ tree' = [v \in {Root} |-> Node("null")] /\ full' = TRUE

\* object[s] = value
PutMember(c, s, value) ==
  \/ \E i \in KeysAt(tree, c, s) : Assign(tree, tree[c].of[i + 1], value)
  \/ /\ KeysAt(tree, c, s) = {}
     /\ \E new \in Fresh(2) :
          Assign([Grown(tree, c, new) EXCEPT ![new[1]] = Node(s)], new[2], value)
  \/ RunOut

\* array[i] = value, which fills up with nulls.
PutElement(c, i, value) ==
  LET missing == i - Len(tree[c].of) IN
  \/ i <= Len(tree[c].of) /\ Assign(tree, tree[c].of[i], value)
  \/ i > Len(tree[c].of) /\ \E new \in Fresh(missing) : Assign(Grown(tree, c, new), new[missing], value)
  \/ /\ i > Len(tree[c].of)
     /\ \E n \in 0 .. missing - 1 : \E new \in Fresh(n) : tree' = Grown(tree, c, new)
     /\ full' = TRUE

\* array.add(value)
Add(c, value) ==
  \/ \E new \in Fresh(1) : tree' = [Grown(tree, c, new) EXCEPT ![new[1]] = Node(value)] /\ UNCHANGED full
  \/ RunOut

RemoveMember(c, s) ==
  \E i \in KeysAt(tree, c, s) :
    Leave(c, RemoveAt(RemoveAt(tree[c].of, i), i))

RemoveElement(c, i) ==
  i \in DOMAIN tree[c].of /\ Leave(c, RemoveAt(tree[c].of, i))

Clear == tree' = [v \in {Root} |-> Node("null")] /\ full' = FALSE

Next ==
  \/ \E v \in Places(tree), value \in Values : SetNode(v, value)
  \/ \E c \in Those(tree, "object"), s \in Names :
       (\E value \in Values : PutMember(c, s, value)) \/ RemoveMember(c, s)
  \/ \E c \in Those(tree, "array") :
       \/ \E value \in Values :
            Add(c, value) \/ \E i \in 1 .. Len(tree[c].of) + 2 : PutElement(c, i, value)
       \/ \E i \in 1 .. Len(tree[c].of) : RemoveElement(c, i)
  \/ \E value \in Values : SetTree(value)
  \/ Clear
  \/ RunOut

Spec == Init /\ [][Next]_vars
=============================================================================
