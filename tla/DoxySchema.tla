------------------------------ MODULE DoxySchema ------------------------------
(* The classes that swig_doc.py reads Doxygen's XML into: the element classes  *)
(* of doxyxml/generated/compoundsuper.py and indexsuper.py which a compound    *)
(* file or the index can reach. Each class is the table its constructor, its   *)
(* buildAttributes and buildChildren, and its exportAttributes and             *)
(* exportChildren spell out, and exportLiteral with them; module DoxyXml       *)
(* interprets the tables. Left out: the accessors, and CDATA sections, which   *)
(* Doxygen does not write.                                                     *)
EXTENDS Naturals, Sequences

(* attrs: the attributes kept. text: what becomes of text between the          *)
(* children: "none" (dropped), "value" (joined in valueOf_), "mixed" (an item  *)
(* of content_), "both". children: in the order of exportChildren, the class   *)
(* of a child and whether the last one counts ("one"), all are kept ("many"),  *)
(* or it becomes an item of the content ("mixed").                             *)
Class(attrs, text, children) == [attrs |-> attrs, text |-> text, children |-> children]

Child(tag, class, how) == [tag |-> tag, class |-> class, how |-> how]
One(tag, class)   == Child(tag, class, "one")
Many(tag, class)  == Child(tag, class, "many")
Mixed(tag, class) == Child(tag, class, "mixed")

(* Classes of children that are kept as plain strings: "Text" joins the nodes  *)
(* below the child, "Simple" is a MixedContainer.CategorySimple item.          *)
Strings == {"Text", "Simple"}

Texts(tags) == [i \in 1..Len(tags) |-> One(tags[i], "Text")]
AllOf(class, tags) == [i \in 1..Len(tags) |-> Many(tags[i], class)]

-------------------------------------------------------------------------------
(* Compound files. *)

DoxygenType == Class({"version"}, "none", <<One("compounddef", "compounddefType")>>)

(* The attributes of a compound, and its references to other compounds. *)
compounddefAttributes == {"kind", "prot", "id"}
compounddefReferences ==
    AllOf("compoundRefType", <<"basecompoundref", "derivedcompoundref">>)
    \o AllOf("incType", <<"includes", "includedby">>)
    \o <<One("incdepgraph", "graphType"), One("invincdepgraph", "graphType")>>
    \o AllOf("refType", <<"innerdir", "innerfile", "innerclass",
                          "innernamespace", "innerpage", "innergroup">>)

compounddefType ==
    Class(compounddefAttributes, "none",
          <<One("compoundname", "Text"), One("title", "docTitleType")>>
          \o compounddefReferences
          \o <<One("templateparamlist", "templateparamlistType"),
               Many("sectiondef", "sectiondefType"),
               One("briefdescription", "descriptionType"),
               One("detaileddescription", "descriptionType"),
               One("inheritancegraph", "graphType"),
               One("collaborationgraph", "graphType"),
               One("programlisting", "listingType"),
               One("location", "locationType"),
               One("listofallmembers", "listofallmembersType")>>)

listofallmembersType == Class({}, "none", <<Many("member", "memberRefType")>>)
memberRefType ==
    Class({"virt", "prot", "refid", "ambiguityscope"}, "none", Texts(<<"scope", "name">>))

compoundRefType == Class({"virt", "prot", "refid"}, "both", <<>>)
reimplementType == Class({"refid"}, "both", <<>>)
incType == Class({"local", "refid"}, "both", <<>>)
refType == Class({"prot", "refid"}, "both", <<>>)

sectiondefType ==
    Class({"kind"}, "none",
          <<One("header", "Text"), One("description", "descriptionType"),
            Many("memberdef", "memberdefType")>>)

memberdefAttributes ==
    {"initonly", "kind", "volatile", "const", "raise", "virt", "readable", "prot",
     "explicit", "new", "final", "writable", "add", "static", "remove", "sealed",
     "mutable", "gettable", "inline", "settable", "id"}

memberdefType ==
    Class(memberdefAttributes, "none",
          <<One("templateparamlist", "templateparamlistType"),
            One("type", "linkedTextType")>>
          \o Texts(<<"definition", "argsstring", "name", "read", "write", "bitfield">>)
          \o AllOf("reimplementType", <<"reimplements", "reimplementedby">>)
          \o <<Many("param", "paramType"), Many("enumvalue", "enumvalueType"),
               One("initializer", "linkedTextType"),
               One("exceptions", "linkedTextType"),
               One("briefdescription", "descriptionType"),
               One("detaileddescription", "descriptionType"),
               One("inbodydescription", "descriptionType"),
               One("location", "locationType")>>
          \o AllOf("referenceType", <<"references", "referencedby">>))

enumvalueType ==
    Class({"prot", "id"}, "mixed",
          <<Mixed("name", "Simple"), Mixed("initializer", "linkedTextType"),
            Mixed("briefdescription", "descriptionType"),
            Mixed("detaileddescription", "descriptionType")>>)

templateparamlistType == Class({}, "none", <<Many("param", "paramType")>>)
paramType ==
    Class({}, "none",
          <<One("type", "linkedTextType")>> \o Texts(<<"declname", "defname", "array">>)
          \o <<One("defval", "linkedTextType"),
               One("briefdescription", "descriptionType")>>)

linkedTextType == Class({}, "mixed", <<Mixed("ref", "docRefTextType")>>)

-------------------------------------------------------------------------------
(* Graphs, listings, places in the source. *)

graphType == Class({}, "none", <<Many("node", "nodeType")>>)
nodeType ==
    Class({"id"}, "none",
          <<One("label", "Text"), One("link", "linkType"),
            Many("childnode", "childnodeType")>>)
childnodeType == Class({"relation", "refid"}, "none", <<Many("edgelabel", "Text")>>)
linkType == Class({"refid", "external"}, "value", <<>>)

listingType == Class({}, "none", <<Many("codeline", "codelineType")>>)
codelineType ==
    Class({"external", "lineno", "refkind", "refid"}, "none",
          <<Many("highlight", "highlightType")>>)
highlightType ==
    Class({"class"}, "mixed", <<Mixed("sp", "Simple"), Mixed("ref", "docRefTextType")>>)

referenceType == Class({"endline", "startline", "refid", "compoundref"}, "both", <<>>)
locationType == Class({"bodystart", "line", "bodyend", "bodyfile", "file"}, "value", <<>>)

(* Attributes read with int(): anything else raises ValueError. *)
Numbers == {"lineno", "endline", "startline", "bodystart", "line", "bodyend"}

-------------------------------------------------------------------------------
(* Prose. *)

descriptionType ==
    Class({}, "mixed",
          <<Mixed("title", "docTitleType"), Mixed("para", "docParaType"),
            Mixed("sect1", "docSect1Type"), Mixed("internal", "docInternalType")>>)

docSect1Type ==
    Class({"id"}, "mixed",
          <<Mixed("title", "docTitleType"), Mixed("para", "docParaType"),
            Mixed("sect2", "docSect2Type"), Mixed("internal", "docInternalS1Type")>>)
docSect2Type ==
    Class({"id"}, "mixed",
          <<Mixed("title", "docTitleType"), Mixed("para", "docParaType"),
            Mixed("sect3", "docSect3Type"), Mixed("internal", "docInternalS2Type")>>)
docSect3Type ==
    Class({"id"}, "mixed",
          <<Mixed("title", "docTitleType"), Mixed("para", "docParaType"),
            Mixed("sect4", "docSect4Type"), Mixed("internal", "docInternalS3Type")>>)
docSect4Type ==
    Class({"id"}, "mixed",
          <<Mixed("title", "docTitleType"), Mixed("para", "docParaType"),
            Mixed("internal", "docInternalS4Type")>>)

docInternalType ==
    Class({}, "mixed", <<Mixed("para", "docParaType"), Mixed("sect1", "docSect1Type")>>)
docInternalS1Type ==
    Class({}, "mixed", <<Mixed("para", "docParaType"), Mixed("sect2", "docSect2Type")>>)
docInternalS2Type ==
    Class({}, "mixed", <<Mixed("para", "docParaType"), Mixed("sect3", "docSect3Type")>>)
(* Sic: the tag is sect3, the class docSect4Type. *)
docInternalS3Type ==
    Class({}, "mixed", <<Mixed("para", "docParaType"), Mixed("sect3", "docSect4Type")>>)
docInternalS4Type == Class({}, "mixed", <<Mixed("para", "docParaType")>>)

docTitleType == Class({}, "both", <<>>)
docRefTextType == Class({"refid", "kindref", "external"}, "both", <<>>)

(* The generated class keeps the text of a paragraph only; the subclass in     *)
(* compound.py, which the factory returns, adds three kinds of children.       *)
docParaType == Class({}, "both", <<>>)

(* Mutant: the subclass forgets references. *)
docParaTypeSub_NoRef ==
    [docParaType EXCEPT !.children = <<Many("parameterlist", "docParamListType"),
                                       Many("simplesect", "docSimpleSectType")>>]
docParaTypeSub ==
    [docParaType EXCEPT !.children = <<Mixed("ref", "docRefTextType"),
                                       Many("parameterlist", "docParamListType"),
                                       Many("simplesect", "docSimpleSectType")>>]

docSimpleSectType ==
    Class({"kind"}, "none", <<One("title", "docTitleType"), Many("para", "docParaType")>>)
docParamListType == Class({"kind"}, "none", <<Many("parameteritem", "docParamListItem")>>)
docParamListItem ==
    Class({}, "none",
          <<Many("parameternamelist", "docParamNameList"),
            One("parameterdescription", "descriptionType")>>)
docParamNameList == Class({}, "none", <<Many("parametername", "docParamName")>>)
docParamName == Class({"direction"}, "mixed", <<Mixed("ref", "docRefTextType")>>)

-------------------------------------------------------------------------------
(* The index (indexsuper.py). *)

IndexDoxygenType == Class({"version"}, "none", <<Many("compound", "CompoundType")>>)
CompoundType ==
    Class({"kind", "refid"}, "none", <<One("name", "Text"), Many("member", "MemberType")>>)
MemberType == Class({"kind", "refid"}, "none", <<One("name", "Text")>>)

-------------------------------------------------------------------------------
(* The classes by name: what X.factory() creates. *)
Schema ==
    [DoxygenType |-> DoxygenType, compounddefType |-> compounddefType,
     listofallmembersType |-> listofallmembersType, memberRefType |-> memberRefType,
     compoundRefType |-> compoundRefType, reimplementType |-> reimplementType,
     incType |-> incType, refType |-> refType, sectiondefType |-> sectiondefType,
     memberdefType |-> memberdefType, enumvalueType |-> enumvalueType,
     templateparamlistType |-> templateparamlistType, paramType |-> paramType,
     linkedTextType |-> linkedTextType, graphType |-> graphType, nodeType |-> nodeType,
     childnodeType |-> childnodeType, linkType |-> linkType, listingType |-> listingType,
     codelineType |-> codelineType, highlightType |-> highlightType,
     referenceType |-> referenceType, locationType |-> locationType,
     descriptionType |-> descriptionType, docSect1Type |-> docSect1Type,
     docSect2Type |-> docSect2Type, docSect3Type |-> docSect3Type,
     docSect4Type |-> docSect4Type, docInternalType |-> docInternalType,
     docInternalS1Type |-> docInternalS1Type, docInternalS2Type |-> docInternalS2Type,
     docInternalS3Type |-> docInternalS3Type, docInternalS4Type |-> docInternalS4Type,
     docTitleType |-> docTitleType, docRefTextType |-> docRefTextType,
     docParaType |-> docParaTypeSub, docSimpleSectType |-> docSimpleSectType,
     docParamListType |-> docParamListType, docParamListItem |-> docParamListItem,
     docParamNameList |-> docParamNameList, docParamName |-> docParamName,
     IndexDoxygenType |-> IndexDoxygenType, CompoundType |-> CompoundType,
     MemberType |-> MemberType]
===============================================================================
