------------------------------ MODULE DoxyReader ------------------------------
(* One document on its way through the generated classes: read (compound.parse *)
(* or index.parse), written (export) and read again, or written as a Python     *)
(* literal (exportLiteral).                                                     *)
EXTENDS DoxyXml, Naturals

(* The documents: records of a class and an element of that class. *)
CONSTANT Documents

VARIABLES doc, stage, obj, out
vars == <<doc, stage, obj, out>>

Nothing == String(<<>>)
NoNode == Word("")

Init ==
    /\ doc \in Documents
    /\ stage = "xml"
    /\ obj = Nothing
    /\ out = NoNode

Parse ==
    /\ stage = "xml"
    /\ IF Raises(doc.node, doc.class)
       THEN stage' = "failed" /\ UNCHANGED obj
       ELSE stage' = "read" /\ obj' = Build(doc.node, doc.class)
    /\ UNCHANGED <<doc, out>>

Write ==
    /\ stage = "read"
    /\ stage' = IF Malformed(obj) THEN "malformed" ELSE "written"
    /\ out' = Export(doc.node.tag, obj)
    /\ UNCHANGED <<doc, obj>>

Reread ==
    /\ stage = "written"
    /\ stage' = "reread"
    /\ obj' = Build(out, doc.class)
    /\ UNCHANGED <<doc, out>>

WriteLiteral ==
    /\ stage = "read"
    /\ IF LiteralRaises(obj)
       THEN stage' = "unwritable" /\ UNCHANGED out
       ELSE stage' = "literal" /\ out' = Literal(doc.node.tag, obj)
    /\ UNCHANGED <<doc, obj>>

Next == Parse \/ Write \/ Reread \/ WriteLiteral
Spec == Init /\ [][Next]_vars

-------------------------------------------------------------------------------
(* Properties *)

RECURSIVE Conforms(_)
Conforms(o) ==
    \/ o.class \in Strings
    \/ /\ DOMAIN o.attrs \subseteq Schema[o.class].attrs
       /\ DOMAIN o.fields = Tags(o.class, "one") \cup Tags(o.class, "many")
       /\ \A tag \in Tags(o.class, "one") : Len(o.fields[tag]) <= 1
       /\ \A tag \in DOMAIN o.fields : \A p \in Range(o.fields[tag]) :
             p.class = ClassOf(o.class, tag) /\ Conforms(p)
       /\ \A i \in Range(o.items) : Conforms(i.obj)

(* Every object has the shape its class declares, at most one object for a     *)
(* child that the accessors treat as single (getters of compoundsuper.py).     *)
TypeOK ==
    /\ stage \in {"xml", "read", "written", "reread", "failed", "malformed",
                  "literal", "unwritable"}
    /\ Conforms(obj)

(* The prose below an element, read off the XML itself: the words of titles,   *)
(* paragraphs and the references in paragraphs, through sections nested in     *)
(* their order and internal parts. level counts the sections around it.        *)
(* Emphasis, lists, code and sections of the fourth level inside an internal   *)
(* part are not prose; a stray sect3 there is taken for one of the fourth.     *)
RECURSIVE Prose(_, _, _)
Prose(kids, level, internal) ==
    LET Inner(k) ==
          IF k.tag = "ref" THEN WordsOf(k.kids) ELSE IF IsWord(k) THEN <<k.word>> ELSE <<>>
        section == IF internal /\ level = 3 THEN 3 ELSE level + 1
        Of(k) ==
          CASE IsWord(k) -> <<k.word>>
            [] k.tag = "title" /\ ~internal -> WordsOf(k.kids)
            [] k.tag = "para" -> FlattenSeq(Map(k.kids, Inner)) \o <<PAR>>
            [] k.tag = "internal" /\ ~internal -> Prose(k.kids, level, TRUE)
            [] /\ level < 4
               /\ k.tag = <<"sect1", "sect2", "sect3", "sect4">>[section] ->
                 Prose(k.kids, level + 1, FALSE)
            [] OTHER -> <<>>
    IN FlattenSeq(Map(kids, Of))

(* The text of a description is its prose: every word of it once, in order,    *)
(* paragraphs apart, however sections, internal parts and references nest      *)
(* (text.py and the classes of prose in compoundsuper.py and compound.py).     *)
ProseKept ==
    (stage = "read" /\ doc.class = "descriptionType") =>
        description(obj) = Strip(Prose(doc.node.kids, 0, FALSE))

(* The elements of a document that are written again, with the classes they    *)
(* were read into: of a single child the last one, and none in a paragraph.    *)
RECURSIVE Written(_, _)
Written(node, class) ==
    LET Overwritten(i) ==
            /\ node.kids[i].tag \in Tags(class, "one")
            /\ \E j \in DOMAIN node.kids : j > i /\ node.kids[j].tag = node.kids[i].tag
        kept == {i \in DOMAIN node.kids :
                   node.kids[i].tag \in Known(class) /\ ~Overwritten(i)}
        here == [node |-> node, class |-> class]
    IN IF class \in Strings \cup {"docParaType"} THEN {here}
       ELSE {here} \cup UNION {Written(node.kids[i], ClassOf(class, node.kids[i].tag)) : i \in kept}

(* A paragraph with references, parameters or sections in it. *)
CutShort(e) ==
    e.class = "docParaType" /\ \E kid \in Range(e.node.kids) : kid.tag \in Known(e.class)

(* What does not survive being written and read: what is in a paragraph besides *)
(* its words, the title of a compound, or that it has none, and a missing      *)
(* version, kind or reference where None is written for it.                    *)
Lossy(node, class) ==
    \E e \in Written(node, class) :
        \/ CutShort(e)
        \/ e.class = "compounddefType"
        \/ /\ e.class \in {"DoxygenType", "IndexDoxygenType"}
           /\ "version" \notin DOMAIN e.node.attrs
        \/ /\ e.class \in {"CompoundType", "MemberType"}
           /\ ~({"kind", "refid"} \subseteq DOMAIN e.node.attrs)

(* An exported document reads back as the same object exactly if it has none   *)
(* of the losses that the export of compounddefType, docParaType, DoxygenType  *)
(* and the classes of the index brings.                                        *)
SurvivesExport ==
    stage = "reread" => (obj = Build(doc.node, doc.class) <=> ~Lossy(doc.node, doc.class))

MixedClasses ==
    {"descriptionType", "docSect1Type", "docSect2Type", "docSect3Type", "docSect4Type",
     "docInternalType", "docInternalS1Type", "docInternalS2Type", "docInternalS3Type",
     "docInternalS4Type", "linkedTextType", "highlightType", "enumvalueType",
     "docParamName"}

(* Writing a document as a literal fails exactly if a description, a type, an   *)
(* initializer, a line of source or the name of a parameter or of an            *)
(* enumeration's value is in it, however deep. A literal that is written holds  *)
(* what the object holds, titles included, but for what is in paragraphs        *)
(* (exportLiteral and hasContent_ of compoundsuper.py and indexsuper.py).       *)
LiteralIsWhole ==
    /\ stage \in {"literal", "unwritable"} =>
          (stage = "unwritable"
             <=> \E e \in Written(doc.node, doc.class) : e.class \in MixedClasses)
    /\ stage = "literal" =>
          (Build(out, doc.class) = obj
             <=> ~\E e \in Written(doc.node, doc.class) : CutShort(e))
===============================================================================
