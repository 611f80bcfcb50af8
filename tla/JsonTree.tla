------------------------------- MODULE JsonTree -------------------------------
(***************************************************************************)
(* A document seen as the tree that it is: what the slots, their links and *)
(* the shared strings do is compared with OrderedTree. tree is observed,   *)
(* it is always what TreeOf sees in the document.                          *)
(***************************************************************************)
EXTENDS JsonDeserializer

VARIABLE tree

\* A large number keeps its second slot for itself.
TreeOf(d) ==
  LET inner == {c \in Reached(d) : d.var[c].type \in {"array", "object"}} IN
  [v \in {Root} \cup UNION {ToSet(Kids(d, c)) : c \in inner} |->
     [is |-> IF d.var[v].type \in {"plain", "owned"} THEN d.var[v].str ELSE d.var[v].type,
      of |-> IF v \in inner THEN Kids(d, v) ELSE << >>]]

Document ==
  INSTANCE OrderedTree WITH
    Nodes <- Slots \cup {Root},
    Names <- Strings,
    Values <- Strings \cup Plain \cup {"null", "ext", "array", "object"},
    full <- doc.overflowed

Observed == tree = TreeOf(doc)

-----------------------------------------------------------------------------
\* The memory of a document is a tree, for the parser as for the program: slots that are
\* used again, shared strings and unlinked slots do not show.
ImplementsTree == Document!Spec

AsAsked ==
  /\ \A c \in Collections("object"), s \in Strings :
       /\ \A value \in Values : PutMember(c, s, value) => Document!PutMember(c, s, value)
       /\ RemoveMember(c, s) => Document!RemoveMember(c, s)
  /\ \A c \in Collections("array") :
       /\ \A value \in Values :
            /\ Add(c, value) => Document!Add(c, value)
            /\ \A i \in 1 .. Len(Kids(doc, c)) + 2 :
                 PutElement(c, i, value) => Document!PutElement(c, i, value)
       /\ \A i \in 1 .. Len(Kids(doc, c)) : RemoveElement(c, i) => Document!RemoveElement(c, i)
  /\ \A value \in Values : SetDocument(value) => Document!SetTree(value)
  /\ ClearDocument => Document!Clear
  /\ ShrinkToFit => UNCHANGED Document!vars

\* Each use of a document does to the tree what it is asked to, to the member or element
\* it names, and nothing else.
UsesDoAsAsked == [][error # Running => AsAsked]_vars

\* No object has two members of one name (getOrAddMember, parseObject).
NamesAreUnique ==
  \A c \in Document!Those(tree, "object"), s \in Strings :
    \A i, j \in Document!KeysAt(tree, c, s) : i = j
=============================================================================
