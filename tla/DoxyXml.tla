------------------------------- MODULE DoxyXml -------------------------------
(* What the generated classes do with an XML tree: build reads an element into *)
(* an object, export writes the object as XML again, and text.py flattens the  *)
(* prose of an object into a description.                                      *)
(*                                                                             *)
(* "<" stands for any word that XML must quote. An object keeps the            *)
(* attributes, the fields (for each tag the objects kept), the items of its    *)
(* content in their order, and the words of valueOf_.                          *)
EXTENDS DoxySchema, DoxyTree, TLC

WordsOf(kids) == Map(SelectSeq(kids, IsWord), LAMBDA k : k.word)

Object(class, attrs, fields, items, words) ==
    [class |-> class, attrs |-> attrs, fields |-> fields, items |-> items, words |-> words]
String(words) == Object("Text", <<>>, <<>>, <<>>, words)
Item(tag, obj) == [tag |-> tag, obj |-> obj]

-------------------------------------------------------------------------------
(* Reading: X.factory().build(node). *)

Tags(class, how) == {c.tag : c \in {d \in Range(Schema[class].children) : d.how = how}}
ClassOf(class, tag) == (CHOOSE c \in Range(Schema[class].children) : c.tag = tag).class
Known(class) == {c.tag : c \in Range(Schema[class].children)}

(* A string child with an element in it, or a number that is none, raises. *)
RECURSIVE Raises(_, _)
Raises(node, class) ==
    IF class \in Strings
    THEN \E i \in DOMAIN node.kids : ~IsWord(node.kids[i])
    ELSE \/ \E a \in DOMAIN node.attrs \cap Schema[class].attrs \cap Numbers :
                node.attrs[a] = "NaN"
         \/ \E i \in DOMAIN node.kids :
                /\ node.kids[i].tag \in Known(class)
                /\ Raises(node.kids[i], ClassOf(class, node.kids[i].tag))

(* What a field starts as: strings are empty, everything else is missing. *)
Missing(class) == IF class = "Text" THEN <<String(<<>>)>> ELSE <<>>

(* A single child is overwritten by a later one. *)
(* Mutant: the single child is appended to. *)
KeptOne_Appended(objs, class) == IF objs = <<>> THEN Missing(class) ELSE objs
KeptOne(objs, class) == IF objs = <<>> THEN Missing(class) ELSE <<Last(objs)>>

RECURSIVE Build(_, _)
Build(node, class) ==
    IF class \in Strings THEN [String(WordsOf(node.kids)) EXCEPT !.class = class]
    ELSE
    LET c == Schema[class]
        BuildKid(k) == Build(k, ClassOf(class, k.tag))
        Named(tag) == Map(SelectSeq(node.kids, LAMBDA k : k.tag = tag), BuildKid)
        InContent(k) == \/ IsWord(k) /\ c.text \in {"mixed", "both"}
                        \/ k.tag \in Tags(class, "mixed")
        ToItem(k) == Item(k.tag, IF IsWord(k) THEN String(<<k.word>>) ELSE BuildKid(k))
    IN Object(class,
              [a \in DOMAIN node.attrs \cap c.attrs |-> node.attrs[a]],
              [tag \in Tags(class, "one") |-> KeptOne(Named(tag), ClassOf(class, tag))]
                @@ [tag \in Tags(class, "many") |-> Named(tag)],
              Map(SelectSeq(node.kids, InContent), ToItem),
              IF c.text \in {"value", "both"} THEN WordsOf(node.kids) ELSE <<>>)

-------------------------------------------------------------------------------
(* Writing: obj.export(...). *)

(* What a class writes even where it is missing: the version of a document,     *)
(* kind and reference of an entry of the index.                                *)
(* Mutant: entries of the index are written like other elements. *)
AlwaysWritten_VersionOnly(class) ==
    IF class \in {"DoxygenType", "IndexDoxygenType"} THEN {"version"} ELSE {}
AlwaysWritten(class) ==
    CASE class \in {"DoxygenType", "IndexDoxygenType"} -> {"version"}
      [] class \in {"CompoundType", "MemberType"} -> {"kind", "refid"}
      [] OTHER -> {}

ExportAttributes(obj) == obj.attrs @@ [a \in AlwaysWritten(obj.class) |-> "None"]

(* The title of a compound is an object, but is written as if it were a string: *)
(* what comes out is the object's address. A missing title is the empty string, *)
(* and written too.                                                             *)
(* Mutant: the title is written as an element. *)
TitleOfCompound_AsElement(obj) ==
    Map(obj.fields["title"], LAMBDA t : Element("title", <<>>, Map(t.words, Word)))
TitleOfCompound(obj) ==
    <<Element("title", <<>>, IF obj.fields["title"] = <<>> THEN <<>> ELSE <<Word("<object>")>>)>>

RECURSIVE Export(_, _)
Export(tag, obj) ==
    LET c == Schema[obj.class]
        ExportItem(i) == IF i.tag = "" THEN Word(i.obj.words[1]) ELSE Export(i.tag, i.obj)
        Field(f) == Map(obj.fields[f], LAMBDA o : Export(f, o))
        InOrder == [i \in DOMAIN c.children |->
                      IF obj.class = "compounddefType" /\ c.children[i].tag = "title"
                      THEN TitleOfCompound(obj)
                      ELSE Field(c.children[i].tag)]
    IN IF obj.class \in Strings THEN Element(tag, <<>>, Map(obj.words, Word))
       ELSE Element(tag, ExportAttributes(obj),
                CASE c.text \in {"value", "both"} -> Map(obj.words, Word)
                  [] c.text = "mixed" -> Map(obj.items, ExportItem)
                  [] c.text = "none" -> FlattenSeq(InOrder))

(* The words of mixed content are written as they are, not quoted. *)
RECURSIVE Malformed(_)
Malformed(obj) ==
    /\ obj.class \notin Strings
    /\ \/ /\ Schema[obj.class].text = "mixed"
          /\ \E i \in Range(obj.items) :
                 \/ i.obj.class \in Strings /\ "<" \in Range(i.obj.words)
                 \/ Malformed(i.obj)
       \/ /\ Schema[obj.class].text = "none"
          /\ \E tag \in DOMAIN obj.fields : \E o \in Range(obj.fields[tag]) : Malformed(o)

-------------------------------------------------------------------------------
(* Writing as a Python literal: obj.exportLiteral(...). *)

(* hasContent_ of a class of mixed content asks for attributes that no          *)
(* constructor sets, which raises.                                              *)
(* Mutant: only the outermost object is asked. *)
LiteralRaises_OutermostOnly(obj) ==
    obj.class \notin Strings /\ Schema[obj.class].text = "mixed"
RECURSIVE LiteralRaises(_)
LiteralRaises(obj) ==
    /\ obj.class \notin Strings
    /\ \/ Schema[obj.class].text = "mixed"
       \/ /\ Schema[obj.class].text = "none"
          /\ \E tag \in DOMAIN obj.fields :
                \E o \in Range(obj.fields[tag]) : LiteralRaises(o)

(* What a literal says, again as an element: attributes and children that are   *)
(* there, the title of a compound among them.                                   *)
RECURSIVE Literal(_, _)
Literal(tag, obj) ==
    LET c == Schema[obj.class]
        Field(f) == Map(obj.fields[f], LAMBDA o : Literal(f, o))
    IN IF obj.class \in Strings THEN Element(tag, <<>>, Map(obj.words, Word))
       ELSE Element(tag, obj.attrs,
                IF c.text = "none"
                THEN FlattenSeq([i \in DOMAIN c.children |-> Field(c.children[i].tag)])
                ELSE Map(obj.words, Word))

-------------------------------------------------------------------------------
(* text.py *)

(* description_bit: the content in its order, two line breaks after a paragraph. *)
RECURSIVE description_bit(_)
description_bit(obj) ==
    LET Bit(i) == (IF i.obj.class \in Strings THEN i.obj.words ELSE description_bit(i.obj))
                  \o (IF i.tag = "para" THEN <<PAR>> ELSE <<>>)
    IN FlattenSeq(Map(obj.items, Bit))

Strip(words) ==
    LET text == {i \in DOMAIN words : words[i] # PAR}
    IN IF text = {} THEN <<>> ELSE SubSeq(words, Min(text), Max(text))

description(obj) == Strip(description_bit(obj))
===============================================================================
