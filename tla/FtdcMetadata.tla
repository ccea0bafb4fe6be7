---------------------------- MODULE FtdcMetadata ----------------------------
(***************************************************************************)
(* What src/rotation.c writes about a new file: the metadata line after    *)
(* the magic, which holds the server's whole reply to CONFIG GET, whatever *)
(* protocol it is in, and the sidecar.  The environment puts a reply       *)
(* together, the module writes it down.                                    *)
(***************************************************************************)
EXTENDS JsonText, FtdcScanner

CONSTANTS
  Leaf,       \* replies without elements: [type, text]
  MaxItems,   \* bound: elements of a reply, two less per level of nesting
  MaxDepth    \* bound: nesting of a reply

VARIABLES
  items,  \* external: the replies put together so far
  depth   \* how deep they nest

metadataVars == <<items, depth>>
-----------------------------------------------------------------------------
(* Replies.  A reply with elements is [type, elements]; the elements of a  *)
(* map alternate between keys and values.                                  *)

TextTypes == {"string", "error", "verbatim", "bignum"}
ListTypes == {"array", "set"}

\* CallReplyStringPtr gives nothing for a reply that is not a text.
StringReply(reply) ==
  JsonString(IF reply.type \in TextTypes THEN reply.text ELSE <<>>)

\* An array of pairs is how CONFIG GET answers in the older protocol: an even
\* number of elements, a string at every other place.
ConfigPairs(elements) ==
  /\ Len(elements) % 2 = 0
  /\ \A i \in DOMAIN elements : i % 2 = 1 => elements[i].type = "string"

RECURSIVE Reply(_)

PairsObjectMutant(elements) ==   \* the value of a pair is its neighbour's
  Enclosed("{", [i \in 1..(Len(elements) \div 2) |->
                   StringReply(elements[2 * i - 1]) \o <<":">>
                   \o Reply(elements[2])], "}")

PairsObject(elements) ==
  Enclosed("{", [i \in 1..(Len(elements) \div 2) |->
                   StringReply(elements[2 * i - 1]) \o <<":">>
                   \o Reply(elements[2 * i])], "}")

ArrayReply(elements) ==
  IF ConfigPairs(elements) THEN PairsObject(elements)
  ELSE Array([i \in DOMAIN elements |-> Reply(elements[i])])

ReplyMutant(reply) ==   \* a reply of an unknown type is passed over
  CASE reply.type \in TextTypes -> StringReply(reply)
    [] reply.type \in {"integer", "double", "bool"} -> reply.text
    [] reply.type = "map" -> PairsObject(reply.elements)
    [] reply.type \in ListTypes -> ArrayReply(reply.elements)
    [] OTHER -> <<>>

Reply(reply) ==
  CASE reply.type \in TextTypes -> StringReply(reply)
    [] reply.type \in {"integer", "double", "bool"} -> reply.text
    [] reply.type = "map" -> PairsObject(reply.elements)
    [] reply.type \in ListTypes -> ArrayReply(reply.elements)
    [] OTHER -> <<"null">>

-----------------------------------------------------------------------------
(* The two texts.                                                          *)

\* What both begin with.
About(delta_mode) ==
  << <<"format_version", IF delta_mode THEN <<"2">> ELSE <<"1">>>>,
     <<"schema_version", <<"1">>>>,
     <<"delta_mode", IF delta_mode THEN <<"true">> ELSE <<"false">>>>,
     <<"module", JsonString(<<"valkey-ftdc">>)>> >>

\* reply: none or one.
MetadataLine(delta_mode, reply) ==
  Object(About(delta_mode)
         \o << <<"compression", JsonString(<<"none">>)>>,
               <<"created_at_ms", <<"7">>>> >>
         \o [i \in DOMAIN reply |-> <<"config", Reply(reply[i])>>])
  \o <<"\n">>

\* The path is written as it is.
Sidecar(delta_mode, path) ==
  Object(About(delta_mode)
         \o << <<"current_file", <<"\"">> \o path \o <<"\"">>>>,
               <<"created_at_ms", <<"7">>>> >>)
  \o <<"\n">>
-----------------------------------------------------------------------------
MetadataInit == items = <<>> /\ depth = 0

\* One more element.
Put(leaf) ==
  /\ Len(items) + 2 * depth < MaxItems
  /\ items' = Append(items, leaf)
  /\ UNCHANGED depth

\* The elements so far become one element: a list, or a map of pairs.
Close(type) ==
  /\ depth < MaxDepth
  /\ type = "map" => Len(items) % 2 = 0
  /\ items' = <<[type |-> type, elements |-> items]>>
  /\ depth' = depth + 1

MetadataNext ==
  \/ \E leaf \in Leaf : Put(leaf)
  \/ \E type \in ListTypes \cup {"map"} : Close(type)
-----------------------------------------------------------------------------
(* Properties.                                                             *)

\* What the server may answer: what was put together, as a list or, in the
\* newer protocol, as a map; or nothing at all.
Answers ==
  {<<>>} \cup {<<[type |-> type, elements |-> items]>> :
                 type \in ListTypes \cup (IF Len(items) % 2 = 0 THEN {"map"} ELSE {})}

\* The line after the magic is one JSON value (README.md:81-86), whatever the
\* server answers and however replies nest.
MetadataIsJson ==
  \A reply \in Answers, delta_mode \in BOOLEAN :
    LET line == MetadataLine(delta_mode, reply)
    IN  SkipValue(line, 1) = Len(line)

\* The server's configuration can be read back from the line: the answer of
\* either protocol becomes one object with the same names and values, quotes
\* and line ends in them included (src/rotation.c:67-164).
RECURSIVE ReadPairs(_, _)
ReadPairs(s, p) ==
  LET key == ParseString(s, p, 0)
      value == ParseString(s, key.end + 1, 0)
  IN  IF value.end = Failed THEN <<>>
      ELSE <<key.str, value.str>>
           \o IF At(s, value.end) = "," THEN ReadPairs(s, value.end + 1) ELSE <<>>

ConfigIsReadBack ==
  Len(items) % 2 = 0 /\ (\A i \in DOMAIN items : items[i].type = "string") =>
    \A type \in {"array", "map"} :
      LET text == Reply([type |-> type, elements |-> items])
      IN  /\ At(text, 1) = "{"
          /\ ReadPairs(text, 2) = [i \in DOMAIN items |-> items[i].text]

\* The sidecar is a JSON file (README.md:92), unless the directory has a name
\* that would have to be escaped (src/rotation.c:253-257).  Directories are
\* configured like the server's settings: any text among the replies names one.
SidecarIsJson ==
  \A delta_mode \in BOOLEAN, i \in DOMAIN items :
    LET path == <<"/">> \o items[i].text
        text == Sidecar(delta_mode, path)
    IN  "text" \in DOMAIN items[i] /\ Escape(path) = path =>
          SkipValue(text, 1) = Len(text)
=============================================================================
