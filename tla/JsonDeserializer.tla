-------------------------- MODULE JsonDeserializer --------------------------
(***************************************************************************)
(* deserializeJson: one pass over the text, which builds the document as   *)
(* it goes. The text is a sequence of tokens: brackets, commas and colons; *)
(* the values of JsonDocument; "bad" is a character that no token begins   *)
(* with, "cut" a string that the end of the text cuts short. Spaces and    *)
(* comments are left out. The recursion of parseVariant, parseArray and    *)
(* parseObject is a stack of the collections that are open.                *)
(***************************************************************************)
EXTENDS JsonDocument

CONSTANTS
  Texts,        \* what may have to be parsed
  NestingLimit  \* ARDUINOJSON_DEFAULT_NESTING_LIMIT

ASSUME NestingAssumption == NestingLimit \in Nat

VARIABLES
  text,    \* the last text given
  parser,  \* JsonDeserializer, and its StringBuilder
  error    \* DeserializationError, NotRun or Running

vars == <<doc, text, parser, error>>

NotRun == "NotRun"
Running == "Running"
Strings == Long \cup Short
NoNode == ""  \* StringBuilder::node_

Start(t) == [rest |-> t, todo |-> "value", open |-> << >>, node |-> Root, built |-> NoNode]

Init == doc = Empty /\ text = << >> /\ parser = Start(<< >>) /\ error = NotRun

-----------------------------------------------------------------------------
\* deserialize: what the document was does not matter.
Deserialize(t) ==
  /\ error # Running
  /\ text' = t /\ parser' = Start(t) /\ error' = Running /\ doc' = Empty

\* doDeserialize shrinks the document, whatever parse returned.
Return(e, d) ==
  /\ error' = e /\ doc' \in Shrunk(d)
  /\ parser' = Start(<< >>) /\ UNCHANGED text

Continue(d, p) == doc' = d /\ parser' = p /\ UNCHANGED <<text, error>>

Current == IF parser.rest = << >> THEN "end" ELSE Head(parser.rest)
Moved == [parser EXCEPT !.rest = Tail(@)]
Container == Last(parser.open)
InArray == doc.var[Container].type = "array"

\* skipSpacesAndComments finds the end of the text.
EndOfText(d) == Return(IF parser.rest = text THEN "EmptyInput" ELSE "IncompleteInput", d)

\* isFloat: every number has the NumberBit.
IsNumber(v) == v.type = "ext" \/ v.str \in Plain

\* A value is complete: go on in its container, or return. What follows the last value is
\* looked at only after a number.
Ready(d, p) ==
  IF p.open # << >> THEN Continue(d, [p EXCEPT !.todo = "more"])
  ELSE Return(IF p.rest # << >> /\ IsNumber(d.var[Root]) THEN "InvalidInput" ELSE "Ok", d)

\* startString, append: a long string may need a larger node; what a failed one was
\* appended to is lost. A string that the text cuts short, and a key that is none, end
\* before isValid is asked.
ReadString(s, then) ==
  LET nodes == {TRUE} \cup (IF parser.built = NoNode \/ s \in Long THEN {FALSE} ELSE {})
      failed(e, ok) == Return(e, [doc EXCEPT !.overflowed = @ \/ ~ok])
  IN \E ok \in nodes :
       CASE s = "cut" -> failed("IncompleteInput", ok)
         [] s = "bad" -> failed("InvalidInput", ok)
         [] OTHER -> IF ok THEN then ELSE failed("NoMemory", ok)

\* StringBuilder::save: the node becomes the string, unless the string is known.
Saved(d, v, s) ==
  [d EXCEPT !.var[v].type = IF s \in Long THEN "owned" ELSE "plain",
            !.var[v].str = s,
            !.refs = [t \in Long |-> @[t] + (IF t = s THEN 1 ELSE 0)]]
NodeAfterSave(d, s) == IF s \in Long /\ d.refs[s] = 0 THEN NoNode ELSE s

-----------------------------------------------------------------------------
\* parseVariant
ParseVariant ==
  /\ parser.todo = "value"
  /\ LET node == parser.node IN
     CASE Current = "end" -> EndOfText(doc)
       [] Current \in {"[", "{"} ->
            LET d == SetNull(doc, node, IF Current = "[" THEN "array" ELSE "object")
                e == (CHOOSE r \in d : TRUE)[1]
            IN IF Len(parser.open) = NestingLimit THEN Return("TooDeep", e)
               ELSE Continue(e, [Moved EXCEPT !.open = Append(@, node), !.todo = "first"])
       [] Current \in Strings \cup {"cut"} ->
            ReadString(Current, Ready(Saved(doc, node, Current),
                             [Moved EXCEPT !.built = NodeAfterSave(doc, Current)]))
       [] Current \in Plain \cup {"ext"} ->
            \E r \in SetNull(doc, node, Current) :
              IF r[2] = NullSlot THEN Return("NoMemory", r[1]) ELSE Ready(r[1], Moved)
       [] Current = "null" -> Ready(doc, Moved)
       [] OTHER -> Return("InvalidInput", doc)

\* An array takes a slot for its next element before it looks at it.
NextElement(p) ==
  \E r \in AddElement(doc, Container) :
    IF r[2] = NullSlot THEN Return("NoMemory", r[1])
    ELSE Continue(r[1], [p EXCEPT !.node = r[2], !.todo = "value"])

Closing == IF InArray THEN "]" ELSE "}"
Close == Ready(doc, [Moved EXCEPT !.open = Front(@)])

\* After [ or {, which may be the last of the container.
ParseFirst ==
  /\ parser.todo = "first"
  /\ CASE Current = "end" -> EndOfText(doc)
       [] Current = Closing -> Close
       [] OTHER -> IF InArray THEN NextElement(parser)
                   ELSE Continue(doc, [parser EXCEPT !.todo = "key"])

\* After an element or a member.
ParseMore ==
  /\ parser.todo = "more"
  /\ CASE Current = "end" -> EndOfText(doc)
       [] Current = Closing -> Close
       [] Current = "," ->
            IF InArray THEN NextElement(Moved)
            ELSE Continue(doc, [Moved EXCEPT !.todo = "key"])
       [] OTHER -> Return("InvalidInput", doc)

\* What a key is read as: without quotes, null is a string, and a number is one unless it
\* has a sign or a point. Which string that is is left open.
Keys ==
  CASE Current \in Strings \cup {"cut"} -> {Current}
    [] Current = "null" -> Strings
    [] Current \in Plain \cup {"ext"} -> Strings \cup {"bad"}
    [] OTHER -> {"bad"}

\* parseKey
ParseKey ==
  /\ parser.todo = "key"
  /\ IF Current = "end" THEN EndOfText(doc)
     ELSE \E s \in Keys : ReadString(s, Continue(doc, [Moved EXCEPT !.built = s, !.todo = "member"]))

\* Mutant: the value of a key that comes twice is not cleared.
ParseMemberTwice ==
  /\ parser.todo = "member"
  /\ CASE Current = "end" -> EndOfText(doc)
       [] Current = ":" ->
            LET s == parser.built
                key == FindKey(doc, Container, s)
                value(d, k) == [Moved EXCEPT !.node = d.var[k].next, !.todo = "value"]
            IN IF key # NullSlot THEN Continue(doc, value(doc, key))
               ELSE \E r \in AddPair(doc, Container) :
                      IF r[2] = NullSlot THEN Return("NoMemory", r[1])
                      ELSE Continue(Saved(r[1], r[2], s),
                                    [value(r[1], r[2]) EXCEPT !.built = NodeAfterSave(doc, s)])
       [] OTHER -> Return("InvalidInput", doc)

\* The colon, and the slots of the member, which may be there already.
ParseMember ==
  /\ parser.todo = "member"
  /\ CASE Current = "end" -> EndOfText(doc)
       [] Current = ":" ->
            LET s == parser.built
                key == FindKey(doc, Container, s)
                value(d, k) == [Moved EXCEPT !.node = d.var[k].next, !.todo = "value"]
            IN IF key # NullSlot
               THEN Continue(Clear(doc, doc.var[key].next), value(doc, key))
               ELSE \E r \in AddPair(doc, Container) :
                      IF r[2] = NullSlot THEN Return("NoMemory", r[1])
                      ELSE Continue(Saved(r[1], r[2], s),
                                    [value(r[1], r[2]) EXCEPT !.built = NodeAfterSave(doc, s)])
       [] OTHER -> Return("InvalidInput", doc)

Parse == ParseVariant \/ ParseFirst \/ ParseMore \/ ParseKey \/ ParseMember

\* A program uses a document when it is not being filled.
UseDocument ==
  /\ error # Running /\ Use
  /\ error' = NotRun /\ UNCHANGED <<text, parser>>

Next ==
  \/ \E t \in Texts : Deserialize(t)
  \/ error = Running /\ Parse
  \/ UseDocument

Spec == Init /\ [][Next]_vars

\* The types of the parser and of its document.
TypeOK ==
  /\ DocumentTypeOK
  /\ parser.todo \in {"value", "first", "more", "key", "member"}
  /\ \A i \in DOMAIN parser.open : doc.var[parser.open[i]].type \in {"array", "object"}
  /\ error \in {NotRun, Running, "Ok", "EmptyInput", "IncompleteInput", "InvalidInput",
                "NoMemory", "TooDeep"}
=============================================================================
