------------------------------ MODULE DoxyIndex -------------------------------
(* The object layer over the XML (doxyxml/base.py, doxyindex.py): compounds of *)
(* the index, their members, names and look-ups. Parsing is lazy and cached in *)
(* the code; as files do not change meanwhile, the result of parsing is an     *)
(* operator here, and what matters is when a failure strikes: at first use.    *)
(*                                                                             *)
(* A name is a record: the scope before "::", the parts between underscores,   *)
(* and the extension of a file.                                                *)
EXTENDS DoxyTree

(* The generated classes and text.py, which module DoxyXml defines: the object *)
(* of a class that is built from an element, whether building it raises        *)
(* instead, and the words of a description.                                    *)
CONSTANTS ReadAs(_, _), CannotRead(_, _), TextOf(_)

Name(scope, bits, ext) == [scope |-> scope, bits |-> bits, ext |-> ext]

(* What a refid leads to: no file, a file that is no XML, or a tree.           *)
File(state, tree) == [state |-> state, tree |-> tree]

-------------------------------------------------------------------------------
(* Fields of the built objects. *)

Field(obj, tag) == obj.fields[tag][1]
StringOf(obj, tag) == Field(obj, tag).words[1]
Attribute(obj, a) == obj.attrs[a]

(* get_cls: the first class that can parse something of this kind, or none. *)
get_cls(kind) ==
    CASE kind = "function" -> "DoxyFunction"
      [] kind = "class" -> "DoxyClass"
      [] kind = "file" -> "DoxyFile"
      [] kind = "namespace" -> "DoxyNamespace"
      [] kind = "group" -> "DoxyGroup"
      [] kind = "friend" -> "DoxyFriend"
      [] kind \in {"variable", "struct", "union", "define", "typedef", "enum", "dir", "page"}
            -> "DoxyOther"
      [] OTHER -> "none"

(* retrieve_data: what the file of a refid turns out to be. *)
retrieve_data(file) ==
    IF file.state = "ok" /\ CannotRead(file.tree, "DoxygenType") THEN "raises" ELSE file.state

-------------------------------------------------------------------------------
(* Members of a class or a file. *)

(* A function, friend or other member: its class, name, texts and parameters. *)
Member(mem) ==
    [cls |-> get_cls(Attribute(mem, "kind")),
     name |-> StringOf(mem, "name"),
     brief |-> TextOf(Field(mem, "briefdescription")),
     detailed |-> TextOf(Field(mem, "detaileddescription")),
     params |-> Map(mem.fields["param"], LAMBDA p : Field(p, "declname").words),
     members |-> <<>>, xml |-> "none"]

(* Of the members of one name the first counts: the pair that tells members    *)
(* apart is the name and the generated class, which is the same for all.       *)
(* Mutant: none is dropped. *)
Unique_All(mems) == mems
Unique(mems) ==
    Pick(mems, {i \in DOMAIN mems : \A j \in 1..(i - 1) : mems[j].name # mems[i].name})

memberdefs(cdef) == FlattenSeq(Map(cdef.fields["sectiondef"], LAMBDA s : s.fields["memberdef"]))
parsed(cdef) == Map(memberdefs(cdef), Member)
process_memberdefs(cdef) == Unique(parsed(cdef))

-------------------------------------------------------------------------------
(* Compounds. *)

(* A compound of the index, with what its file says; the code reads the file   *)
(* when it first needs it, and the script needs it of classes and headers.     *)
Compound(entry, files) ==
    LET file == files[Attribute(entry, "refid")]
        cls == get_cls(Attribute(entry, "kind"))
        read == cls \in {"DoxyClass", "DoxyFile"} /\ retrieve_data(file) = "ok"
        cdef == Field(ReadAs(file.tree, "DoxygenType"), "compounddef")
    IN [cls |-> cls, name |-> StringOf(entry, "name"),
        brief |-> IF read THEN TextOf(Field(cdef, "briefdescription")) ELSE <<>>,
        detailed |-> IF read THEN TextOf(Field(cdef, "detaileddescription")) ELSE <<>>,
        params |-> <<>>,
        members |-> IF read THEN process_memberdefs(cdef) ELSE <<>>,
        xml |-> retrieve_data(file)]

(* Only broken XML is a parsing error, for which a class has a flag; a missing *)
(* file raises. A file takes its descriptions before it looks at the flag, so  *)
(* that broken XML raises, too.                                                *)
(* Mutant: it looks at the flag first. *)
ParseRaises_FlagFirst(obj) == obj.xml \in {"missing", "raises"}
ParseRaises(obj) ==
    \/ obj.xml \in {"missing", "raises"}
    \/ obj.cls = "DoxyFile" /\ obj.xml = "broken"
error(obj) == obj.xml = "broken"

(* Mutant: everything is in every category. *)
in_category_All(objs, cls) == objs
in_category(objs, cls) == Pick(objs, {i \in DOMAIN objs : objs[i].cls = cls})

(* get_member: the one object of that class and name. A scope is looked up     *)
(* first; nothing that is looked up here is a scope, so there is none. Two     *)
(* objects of one name raise Duplicate.                                        *)
Candidates(objs, name, cls) ==
    IF name.scope # "" THEN <<>>
    ELSE Pick(objs, {i \in DOMAIN objs : objs[i].cls = cls /\ objs[i].name = name})
has_member(objs, name, cls) == Candidates(objs, name, cls) # <<>>
===============================================================================
