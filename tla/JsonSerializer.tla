---------------------------- MODULE JsonSerializer ----------------------------
(***************************************************************************)
(* serializeJson, and as<String> of a value that is not a string: the text *)
(* of a document, in the tokens that JsonDeserializer reads. The meter     *)
(* makes every reading with it, and again when it loads the file of the    *)
(* readings that were not sent.                                            *)
(***************************************************************************)
EXTENDS JsonDeserializer

RECURSIVE Serialized(_, _)

\* Mutant: isKey is not toggled.
SerializedKeys(d, v) ==
  LET kids == Kids(d, v)
      type == d.var[v].type
      after(i) == IF i = Len(kids) THEN << >> ELSE IF type = "object" THEN <<":">> ELSE <<",">>
      items == FlattenSeq([i \in DOMAIN kids |-> Serialized(d, kids[i]) \o after(i)])
  IN CASE type = "array" -> <<"[">> \o items \o <<"]">>
       [] type = "object" -> <<"{">> \o items \o <<"}">>
       [] type \in {"plain", "owned"} -> <<d.var[v].str>>
       [] OTHER -> <<type>>

\* JsonSerializer::visit. The slots of an object are keys and values in turn.
Serialized(d, v) ==
  LET kids == Kids(d, v)
      type == d.var[v].type
      after(i) == IF i = Len(kids) THEN << >>
                  ELSE IF type = "object" /\ i % 2 = 1 THEN <<":">> ELSE <<",">>
      items == FlattenSeq([i \in DOMAIN kids |-> Serialized(d, kids[i]) \o after(i)])
  IN CASE type = "array" -> <<"[">> \o items \o <<"]">>
       [] type = "object" -> <<"{">> \o items \o <<"}">>
       [] type \in {"plain", "owned"} -> <<d.var[v].str>>
       [] OTHER -> <<type>>

\* The text of a value is kept, and read again into another document.
Reload(v) == v \in Reached(doc) /\ Deserialize(Serialized(doc, v))
=============================================================================
