----------------------------- MODULE MCDoxyReader -----------------------------
(* Documents for DoxyReader. *)
EXTENDS DoxyReader

(* An element of a class with all its attributes, a word, an element that no   *)
(* class knows and, to the given depth, one child of each kind.                *)
RECURSIVE Sample(_, _, _)
Sample(tag, class, depth) ==
    IF class \in Strings THEN Element(tag, <<>>, <<Word("a")>>)
    ELSE Element(tag, [a \in Schema[class].attrs |-> "1"],
           <<Word("a"), Element("bold", <<>>, <<Word("b")>>)>>
           \o IF depth = 0 THEN <<>>
              ELSE Map(Schema[class].children, LAMBDA c : Sample(c.tag, c.class, depth - 1)))

(* Each class with any two children: known ones, words, unknown elements, a    *)
(* string with an element in it; with all attributes, none, bad numbers, and   *)
(* one of two.                                                                 *)
Pieces(class) ==
    {Sample(c.tag, c.class, 1) : c \in Range(Schema[class].children)}
    \cup {Word("a"), Word("<"), Element("bold", <<>>, <<Word("b")>>)}
    \cup {Element(c.tag, <<>>, <<Element("bold", <<>>, <<>>)>>) :
              c \in {d \in Range(Schema[class].children) : d.class \in Strings}}

AttributeSets(class) ==
    LET attrs == Schema[class].attrs
    IN {<<>>, [a \in attrs |-> "1"], [a \in attrs |-> "NaN"]}
       \cup IF Cardinality(attrs) = 2 THEN {[a \in {b} |-> "1"] : b \in attrs} ELSE {}

OfClass(class) ==
    {[class |-> class, node |-> Element(class, attrs, <<p, q>>)] :
        attrs \in AttributeSets(class), p \in Pieces(class), q \in Pieces(class)}

(* Descriptions: paragraphs in up to five nested sections and internal parts.  *)
Bodies ==
    {<<Word("a"), Element("ref", <<>>, <<Word("b")>>), Element("bold", <<>>, <<Word("c")>>)>>,
     <<Element("ref", <<>>, <<Word("d")>>), Word("a"), Element("simplesect", <<>>, <<Word("b")>>)>>}

Wrappers == {"sect1", "sect2", "sect3", "sect4", "internal"}

RECURSIVE Wrapped(_, _)
Wrapped(tags, body) ==
    <<Element("title", <<>>, <<Word("t")>>), Element("para", <<>>, body)>>
    \o IF tags = <<>> THEN <<Word("e")>>
       ELSE <<Element(Head(tags), <<>>, Wrapped(Tail(tags), body)),
              Element("para", <<>>, <<Word("f")>>)>>

Descriptions ==
    {[class |-> "descriptionType", node |-> Element("detaileddescription", <<>>, Wrapped(t, b))] :
        t \in UNION {[1..n -> Wrappers] : n \in 0..5}, b \in Bodies}

MCDocuments == UNION {OfClass(class) : class \in DOMAIN Schema} \cup Descriptions
===============================================================================
