------------------------------- MODULE MCJson -------------------------------
(***************************************************************************)
(* The texts are the renderings of a few trees, whole, cut short or with a *)
(* character that does not belong there, and what the parser made of them  *)
(* is compared with the tree.                                              *)
(***************************************************************************)
EXTENDS JsonSerializer, JsonTree

CONSTANT MaxUses  \* uses of a document, in a row

VARIABLES
  uses,
  saved   \* the tree whose text was kept and is read again

L == "deviceId"
S == "BD"
MCLong == {L}
MCShort == {S}

\* A tree: a plain value has nothing below it, a member has its key for a type.
Leaf(value) == [type |-> value, of |-> << >>]
Array(s) == [type |-> "array", of |-> s]
Object(s) == [type |-> "object", of |-> s]
Member(key, t) == [type |-> key, of |-> <<t>>]

RECURSIVE Rendered(_), Depth(_), ReadBack(_), Merged(_)

Rendered(t) ==
  LET items == [i \in DOMAIN t.of |-> (IF i = 1 THEN << >> ELSE <<",">>) \o Rendered(t.of[i])] IN
  CASE t.type = "array" -> <<"[">> \o FlattenSeq(items) \o <<"]">>
    [] t.type = "object" -> <<"{">> \o FlattenSeq(items) \o <<"}">>
    [] t.of = << >> -> <<t.type>>
    [] OTHER -> <<t.type, ":">> \o Rendered(t.of[1])

Depth(t) ==
  (IF t.type \in {"array", "object"} THEN 1 ELSE 0) + Max({0} \cup {Depth(u) : u \in ToSet(t.of)})

\* The tree that a document should be: of the members with one key, the place of the
\* first and the value of the last.
Merged(t) ==
  LET firsts == SelectSeq([i \in DOMAIN t.of |-> i],
                          LAMBDA i : \A j \in 1 .. i - 1 : t.of[j].type # t.of[i].type)
      last(i) == Max({j \in DOMAIN t.of : t.of[j].type = t.of[i].type})
  IN [t EXCEPT !.of = IF t.type = "object" THEN [n \in DOMAIN firsts |-> Merged(t.of[last(firsts[n])])]
                      ELSE [i \in DOMAIN t.of |-> Merged(t.of[i])]]

\* The tree that a value of the document is.
ReadBack(v) ==
  LET kids == Kids(doc, v) IN
  CASE doc.var[v].type = "array" -> Array([i \in DOMAIN kids |-> ReadBack(kids[i])])
    [] doc.var[v].type = "object" ->
         Object([n \in 1 .. Len(kids) \div 2 |->
                   Member(doc.var[kids[2 * n - 1]].str, ReadBack(kids[2 * n]))])
    [] doc.var[v].type \in {"plain", "owned"} -> Leaf(doc.var[v].str)
    [] OTHER -> Leaf(doc.var[v].type)

Leaves == {Leaf(value) : value \in {"null", "int", "float", "ext", L, S}}
Trees ==
  LET long == Leaf(L)  null == Leaf("null") IN
  Leaves \cup {Array(<< >>), Array(<<long, null, long>>), Array(<<Leaf("ext"), Leaf("float")>>)}
    \cup {Object(<< >>), Object(<<Member(L, long), Member(S, Leaf("ext"))>>),
          Object(<<Member(S, Array(<<Object(<< >>), Leaf(S)>>))>>)}
    \cup {Object(<<Member(key, Leaf("int"))>>) : key \in {L, S}}
    \cup {Object(<<Member(L, x), Member(L, y)>>) :
             x \in {long, Array(<<long>>)}, y \in {null, Array(<<long>>)}}

\* Keys without quotes.
Unquoted == {<<"{", key, ":", "int", "}">> : key \in {"null", "int"}}

MCTexts ==
  UNION {LET r == Rendered(t) IN
         {SubSeq(r, 1, n) : n \in 0 .. Len(r)} \cup {r \o <<"bad">>}
           \cup {[r EXCEPT ![n] = "bad"] : n \in DOMAIN r}
           \cup {SubSeq(r, 1, n - 1) \o <<"cut">> : n \in {m \in DOMAIN r : r[m] \in Strings}} :
         t \in Trees} \cup Unquoted

-----------------------------------------------------------------------------
NotSaved == Leaf("")

\* One text, or uses of an empty document; then uses of what was made of it, and the text
\* of it read again. A document that was shrunk can be given more than MaxPools pools,
\* with the slots of the first ones: that is not examined further.
MCInit == Init /\ tree = TreeOf(doc) /\ uses = 0 /\ saved = NotSaved
MCNext ==
  /\ error \in {NotRun, Running, "Ok"}
  /\ \/ /\ Next
        /\ uses' = IF error' = NotRun THEN uses + 1 ELSE uses
        /\ uses' <= MaxUses /\ (text' # text => text = << >>)
        /\ saved = NotSaved \/ error = Running
        /\ UNCHANGED saved
     \/ /\ saved = NotSaved
        /\ \E v \in Slots \cup {Root} : Reload(v) /\ saved' = ReadBack(v)
        /\ UNCHANGED uses
  /\ Len(doc'.pools) <= MaxPools
  /\ tree' = TreeOf(doc')
MCSpec == MCInit /\ [][MCNext]_<<vars, tree, uses, saved>>

\* The text says t, and perhaps more; a key without quotes says some string.
Says(t) ==
  IF text \in Unquoted THEN t \in {Object(<<Member(key, Leaf("int"))>>) : key \in Strings}
  ELSE IsPrefix(Rendered(t), text)

\* deserializeJson returns Ok only if the document is all that the text says, whatever
\* the heap refused on the way; what comes after a value is ignored, except after a number.
OkIsTheText ==
  error = "Ok" =>
    /\ ~doc.overflowed
    /\ \E t \in Trees \cup {saved} :
         /\ Says(t) /\ ReadBack(Root) = Merged(t)
         /\ t.type \in {"int", "float", "ext"} => Len(text) = 1

\* An error is what its name says, and nothing else is: a text that stops early is
\* incomplete, one with a wrong character or with a number for a key is invalid, one that
\* nests too deep is too deep, and only the heap makes it NoMemory.
ErrorsAreTrue ==
  LET given == IF saved = NotSaved THEN Trees ELSE {saved}
      stops == \E t \in given : IsStrictPrefix(text, Rendered(t)) \/ "cut" \in ToSet(text) IN
  /\ error = "EmptyInput" => text = << >>
  /\ error = "IncompleteInput" => stops /\ text # << >>
  /\ error = "InvalidInput" =>
       "bad" \in ToSet(text) \/ (text \in Unquoted /\ text[2] = "int")
  /\ error = "TooDeep" => \E t \in given : Depth(t) > NestingLimit /\ text[1] = Rendered(t)[1]
  /\ error = "NoMemory" => doc.overflowed

\* A document that is written and read again is what it was, however it came about and
\* whatever the heap refused meanwhile, unless reading it reports an error, which only
\* the heap or the nesting can cause (serializeJson and as<String>, then
\* deserializeJson: the way of a reading through the file of the store).
ReloadedIsSaved ==
  saved # NotSaved =>
    /\ error = "Ok" => ReadBack(Root) = saved
    /\ error \in {Running, "Ok", "NoMemory", "TooDeep"}
=============================================================================
