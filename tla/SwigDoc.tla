------------------------------- MODULE SwigDoc --------------------------------
(* swig_doc.py: docstrings for the Python bindings, from Doxygen's XML. The    *)
(* script reads the index and the headers, picks the classes that are blocks,  *)
(* documents blocks, functions and classes, and writes one file at the end.    *)
EXTENDS DoxyIndex

(* What was documented: sets of compounds, each a sequence.                    *)
CONSTANT Worlds

VARIABLES
    world,    \* the compounds Doxygen saw; never changes
    dir,      \* the XML files it wrote of them; never changes
    pc,       \* where the script is
    todo,     \* what the loop it is in has left
    di,       \* members of the DoxyIndex
    blocks,   \* di.in_category(Block)
    made,     \* make_funcs: names of the make functions documented with blocks
    output,   \* entries so far
    written   \* contents of the output file; <<>> until it is written
vars == <<world, dir, pc, todo, di, blocks, made, output, written>>

-------------------------------------------------------------------------------
(* Names *)

make_name(name) ==
    [name EXCEPT !.bits = <<name.bits[1], "make">>
                          \o (IF Len(name.bits) = 1 THEN <<"">> ELSE Tail(name.bits))]
header_name(name) == [name EXCEPT !.ext = ".h"]

(* A name with "operator " in it starts with it. *)
Operator(name) == name.bits[1] = "operator "

-------------------------------------------------------------------------------
(* The surroundings: Doxygen, which has turned a source tree into XML. A       *)
(* compound has a kind, a name, a brief and a detailed text (words), members   *)
(* by sections, which may share some, and the state of its file; a member has  *)
(* the same fields and parameters.                                             *)

Words(words) == Map(words, Word)
Prose(tag, words) ==
    Element(tag, <<>>, IF words = <<>> THEN <<>> ELSE <<Element("para", <<>>, Words(words))>>)
Memberdef(m) ==
    Element("memberdef", [kind |-> m.kind, id |-> "id"],
            <<Element("name", <<>>, <<Word(m.name)>>)>>
            \o Map(m.params, LAMBDA p :
                     Element("param", <<>>, <<Element("declname", <<>>, <<Word(p)>>)>>))
            \o <<Prose("briefdescription", m.brief), Prose("detaileddescription", m.detailed)>>)
Sectiondef(mems) == Element("sectiondef", <<>>, Map(mems, Memberdef))

CompoundFile(c) ==
    File(c.xml,
         Element("doxygen", [version |-> "1"],
           <<Element("compounddef", [kind |-> c.kind, id |-> "id"],
               <<Element("compoundname", <<>>, <<Word(c.name)>>)>>
               \o Map(c.sections, Sectiondef)
               \o <<Prose("briefdescription", c.brief),
                    Prose("detaileddescription", c.detailed)>>)>>))
Files(w) == Map(w, CompoundFile)
IndexFile(w) ==
    Element("doxygenindex", [version |-> "1"],
            [i \in DOMAIN w |-> Element("compound", [kind |-> w[i].kind, refid |-> i],
                                        <<Element("name", <<>>, <<Word(w[i].name)>>)>>)])
Entries(w) == ReadAs(IndexFile(w), "IndexDoxygenType").fields["compound"]

-------------------------------------------------------------------------------
(* What is taken for granted of source trees and of the generated classes.     *)

members(c) == FlattenSeq(c.sections)

(* Sequences are sequences, compounds and members have kinds of their own, no  *)
(* class has the name of an operator, and no two of them have one name or, as  *)
(* foo and foo_ would, one make function.                                      *)
ClassNames == [scope : STRING, bits : Seq(STRING) \ {<<>>}, ext : STRING]
ASSUME WorldAssumption ==
    \A w \in Worlds :
        /\ w \in Seq(Range(w))
        /\ \A c \in Range(w) :
              /\ c.kind \notin {"function", "friend"}
              /\ c.kind = "class" => c.name \in ClassNames /\ ~Operator(c.name)
              /\ c.xml \in {"ok", "broken", "missing"}
              /\ members(c) \in Seq(Range(members(c)))
              /\ \A m \in Range(members(c)) : /\ m.kind \notin {"class", "file"}
                                               /\ m.params \in Seq(Range(m.params))
        /\ \A i, j \in DOMAIN w :
              (i # j /\ w[i].kind = "class" /\ w[j].kind = "class") =>
                  w[i].name # w[j].name /\ make_name(w[i].name) # make_name(w[j].name)

(* A member as it should be read; a parameter is its words. *)
Given(params) == Map(params, LAMBDA p : <<p>>)
Described(m) ==
    [cls |-> get_cls(m.kind), name |-> m.name, brief |-> m.brief, detailed |-> m.detailed,
     params |-> Given(m.params), members |-> <<>>, xml |-> "none"]

AsRead(c) == Map(members(c), Described)

(* The generated classes read what Doxygen has written as it was meant: the    *)
(* index, and of each readable file the two texts and the members.             *)
ReadsIndex(w) ==
    /\ Entries(w) = [i \in DOMAIN w |-> Entries(w)[i]]
    /\ \A i \in DOMAIN w :
          /\ Attribute(Entries(w)[i], "kind") = w[i].kind
          /\ Attribute(Entries(w)[i], "refid") = i
          /\ StringOf(Entries(w)[i], "name") = w[i].name
ReadsFile(c) ==
    LET tree == CompoundFile(c).tree
        cdef == Field(ReadAs(tree, "DoxygenType"), "compounddef")
    IN  /\ ~CannotRead(tree, "DoxygenType")
        /\ TextOf(Field(cdef, "briefdescription")) = c.brief
        /\ TextOf(Field(cdef, "detaileddescription")) = c.detailed
        /\ parsed(cdef) = AsRead(c)
ASSUME ReaderAssumption ==
    \A w \in Worlds : ReadsIndex(w) /\ \A c \in Range(w) : c.xml = "ok" => ReadsFile(c)

-------------------------------------------------------------------------------
(* Entries *)

Joined(a, b) == IF a = <<>> THEN b ELSE IF b = <<>> THEN a ELSE a \o <<PAR>> \o b

combine_descriptions(obj) == Joined(obj.brief, obj.detailed)

(* An entry: what it is for (the class around it, if any, and the name), the   *)
(* text, and the parameters of a function.                                     *)
Entry(klass, name, text, params) ==
    [klass |-> klass, name |-> name, text |-> text, params |-> params]
None == <<"NONE">>

(* No entry for operators, nor for a class without a text. *)
make_entry(obj, text) ==
    IF Operator(obj.name) \/ text = <<>> THEN <<>>
    ELSE <<Entry(<<>>, obj.name, text, <<>>)>>
make_func_entry(klass, func, text, params) ==
    IF Operator(func.name) THEN <<>>
    ELSE <<Entry(klass, func.name, text, IF params = <<>> THEN <<None>> ELSE params)>>

(* The class, and the functions in it. *)
make_class_entry(klass, text) ==
    LET funcs == in_category(klass.members, "DoxyFunction")
        named == Pick(funcs, {i \in DOMAIN funcs : ~Operator(funcs[i].name)})
    IN make_entry(klass, text)
       \o Map(named, LAMBDA f :
                make_func_entry(<<klass.name>>, f, combine_descriptions(f), f.params)[1])

(* Block.includes *)
IsBlock(obj) ==
    /\ obj.cls = "DoxyClass"
    /\ ~error(obj)
    /\ has_member(obj.members, make_name(obj.name), "DoxyFriend")

(* What make_block_entry looks up: one make function among the headers'        *)
(* functions, at most one header, one constructor.                             *)
MakeFuncs(block) == Candidates(di, make_name(block.name), "DoxyFunction")
Headers(block) == Candidates(di, header_name(block.name), "DoxyFile")
Creators(block) == Candidates(block.members, block.name, "DoxyFunction")

make_block_entry(block) ==
    LET header == IF Headers(block) = <<>> THEN <<>>
                  ELSE combine_descriptions(Headers(block)[1])
        super == Joined(Joined(combine_descriptions(block),
                               combine_descriptions(MakeFuncs(block)[1])), header)
    IN make_class_entry(block, super)
       \o make_func_entry(<<>>, MakeFuncs(block)[1], super, Creators(block)[1].params)

-------------------------------------------------------------------------------
(* The script *)

Init ==
    /\ world \in Worlds
    /\ dir = Files(world)
    /\ pc = "index"
    /\ todo = Entries(world)
    /\ di = <<>>
    /\ blocks = <<>>
    /\ made = {}
    /\ output = <<>>
    /\ written = <<>>

Abort == pc' = "aborted" /\ UNCHANGED <<world, dir, todo, di, blocks, made, output, written>>
Proceed(label, rest) == pc' = label /\ todo' = rest

(* DoxyIndex._parse, one compound: of the files only headers count, and their  *)
(* members come before themselves. A kind without a class raises.              *)
ReadCompound ==
    /\ pc = "index" /\ todo # <<>>
    /\ LET c == Compound(Head(todo), dir)
           header == c.cls = "DoxyFile" /\ c.name.ext = ".h"
       IN IF c.cls = "none" \/ (header /\ ParseRaises(c))
          THEN Abort
          ELSE /\ di' = di \o (IF header THEN c.members ELSE <<>>)
                           \o (IF c.cls = "DoxyFile" /\ ~header THEN <<>> ELSE <<c>>)
               /\ Proceed("index", Tail(todo))
               /\ UNCHANGED <<world, dir, blocks, made, output, written>>

(* di.in_category(Block): looks into every class. *)
FindBlocks ==
    /\ pc = "index" /\ todo = <<>>
    /\ IF \E c \in Range(in_category(di, "DoxyClass")) : ParseRaises(c)
       THEN Abort
       ELSE /\ blocks' = Pick(di, {i \in DOMAIN di : IsBlock(di[i])})
            /\ Proceed("blocks", blocks')
            /\ UNCHANGED <<world, dir, di, made, output, written>>

(* Nothing but a parsing error is caught, and a block has none. *)
DocumentBlock ==
    /\ pc = "blocks" /\ todo # <<>>
    /\ LET b == Head(todo)
       IN IF Len(MakeFuncs(b)) # 1 \/ Len(Headers(b)) > 1 \/ Len(Creators(b)) # 1
          THEN Abort
          ELSE /\ made' = made \cup {MakeFuncs(b)[1].name}
               /\ output' = output \o make_block_entry(b)
               /\ Proceed("blocks", Tail(todo))
               /\ UNCHANGED <<world, dir, di, blocks, written>>

(* The functions left, without the make functions of blocks. *)
(* Mutant: they are documented again. *)
OtherFunctions_All == in_category(di, "DoxyFunction")
OtherFunctions ==
    LET funcs == in_category(di, "DoxyFunction")
    IN Pick(funcs, {i \in DOMAIN funcs : funcs[i].name \notin made})

FindFunctions ==
    /\ pc = "blocks" /\ todo = <<>>
    /\ Proceed("functions", OtherFunctions)
    /\ UNCHANGED <<world, dir, di, blocks, made, output, written>>

DocumentFunction ==
    /\ pc = "functions" /\ todo # <<>>
    /\ LET f == Head(todo)
       IN output' = output \o make_func_entry(<<>>, f, combine_descriptions(f), f.params)
    /\ Proceed("functions", Tail(todo))
    /\ UNCHANGED <<world, dir, di, blocks, made, written>>

(* The classes left, by name. *)
OtherClasses ==
    LET classes == in_category(di, "DoxyClass")
    IN Pick(classes, {i \in DOMAIN classes :
                        classes[i].name \notin {b.name : b \in Range(blocks)}})

FindClasses ==
    /\ pc = "functions" /\ todo = <<>>
    /\ Proceed("classes", OtherClasses)
    /\ UNCHANGED <<world, dir, di, blocks, made, output, written>>

(* A class with a parsing error is reported and passed over. *)
DocumentClass ==
    /\ pc = "classes" /\ todo # <<>>
    /\ LET k == Head(todo)
       IN output' = output \o (IF error(k) THEN <<>>
                               ELSE make_class_entry(k, combine_descriptions(k)))
    /\ Proceed("classes", Tail(todo))
    /\ UNCHANGED <<world, dir, di, blocks, made, written>>

WriteFile ==
    /\ pc = "classes" /\ todo = <<>>
    /\ written' = output
    /\ Proceed("done", <<>>)
    /\ UNCHANGED <<world, dir, di, blocks, made, output>>

Exited == pc \in {"done", "aborted"} /\ UNCHANGED vars

Next ==
    \/ ReadCompound \/ FindBlocks \/ DocumentBlock
    \/ FindFunctions \/ DocumentFunction
    \/ FindClasses \/ DocumentClass
    \/ WriteFile
    \/ Exited
Spec == Init /\ [][Next]_vars

-------------------------------------------------------------------------------
(* Properties *)

Stages == {"index", "blocks", "functions", "classes", "done", "aborted"}

(* The state is of its type, and what waits in todo is of the kind the loop    *)
(* takes (the loops of make_swig_interface_file).                              *)
TypeOK ==
    /\ pc \in Stages
    /\ pc = "functions" => \A f \in Range(todo) : f.cls = "DoxyFunction"
    /\ pc \in {"blocks", "classes"} => \A k \in Range(todo) : k.cls = "DoxyClass"
    /\ \A b \in Range(blocks) : b \in Range(di)
    /\ written # <<>> => pc = "done"

(* The source, without a detour through XML. *)
Classes == {c \in Range(world) : c.kind = "class"}
HeaderFiles == {i \in DOMAIN world : world[i].kind = "file" /\ world[i].name.ext = ".h"}
FirstOfName(c) ==
    {i \in DOMAIN members(c) : \A j \in 1..(i - 1) : members(c)[j].name # members(c)[i].name}
Functions(c) == {i \in FirstOfName(c) : members(c)[i].kind = "function"}
NamedFunctions(c, name) == {i \in Functions(c) : members(c)[i].name = name}
BlockClasses ==
    {c \in Classes : /\ c.xml = "ok" /\ c.name.scope = ""
                     /\ \E i \in FirstOfName(c) : /\ members(c)[i].kind = "friend"
                                                  /\ members(c)[i].name = make_name(c.name)}
MakersOf(c) ==
    {h \in HeaderFiles : NamedFunctions(world[h], make_name(c.name)) # {}}
HeadersOf(c) == {h \in HeaderFiles : world[h].name = header_name(c.name)}

KnownKinds == {"class", "file", "namespace", "group", "variable", "struct", "union",
               "define", "typedef", "enum", "dir", "page"}

(* A compound of a kind doxyindex.py does not know, a header that is not XML,  *)
(* a header or class without its file, a block without exactly one documented  *)
(* make function, with two headers of its name, or without a constructor.      *)
Unusable ==
    \/ \E c \in Range(world) : c.kind \notin KnownKinds
    \/ \E h \in HeaderFiles : world[h].xml # "ok"
    \/ \E c \in Classes : c.xml = "missing"
    \/ \E c \in BlockClasses :
          \/ Cardinality(MakersOf(c)) # 1
          \/ Cardinality(HeadersOf(c)) > 1
          \/ NamedFunctions(c, c.name) = {}

(* The script gives up on these inputs and on no others: in particular one     *)
(* class that cannot be parsed does not cost the documentation of the rest.    *)
GivesUpOnlyIfUnusable ==
    /\ pc = "aborted" => Unusable
    /\ pc = "done" => ~Unusable

Combined(x) == Joined(x.brief, x.detailed)
FunctionEntry(klass, m, text, params) ==
    Entry(klass, m.name, text, IF params = <<>> THEN <<None>> ELSE Given(params))
FunctionEntries(klass, c, names) ==
    {FunctionEntry(klass, members(c)[i], Combined(members(c)[i]), members(c)[i].params) :
        i \in {j \in Functions(c) : /\ ~Operator(members(c)[j].name)
                                    /\ members(c)[j].name \notin names}}

The(set) == CHOOSE x \in set : TRUE
SuperText(c) ==
    LET maker == The(MakersOf(c))
        make == The(NamedFunctions(world[maker], make_name(c.name)))
        text == Joined(Combined(c), Combined(members(world[maker])[make]))
    IN IF HeadersOf(c) = {} THEN text
       ELSE Joined(text, Combined(world[The(HeadersOf(c))]))

ClassEntries(c) ==
    LET text == IF c \in BlockClasses THEN SuperText(c) ELSE Combined(c)
    IN (IF text = <<>> THEN {} ELSE {Entry(<<>>, c.name, text, <<>>)})
       \cup FunctionEntries(<<c.name>>, c, {})
MakeEntry(c) ==
    LET constructor == members(c)[The(NamedFunctions(c, c.name))]
    IN FunctionEntry(<<>>, [name |-> make_name(c.name)], SuperText(c), constructor.params)

Promised ==
    (UNION {ClassEntries(c) : c \in {d \in Classes : d.xml = "ok"}})
    \cup {MakeEntry(c) : c \in BlockClasses}
    \cup (UNION {FunctionEntries(<<>>, world[h], {make_name(c.name) : c \in BlockClasses}) :
                 h \in HeaderFiles})

(* The file that is written documents every usable class, every function of    *)
(* one and of a header, and every block with the joint text of its class, make *)
(* function and header, and nothing else; of overloads only the first. The     *)
(* make function of a block must not appear again among the plain functions    *)
(* (swig_doc.py:209-210).                                                      *)
DocumentsAll ==
    pc = "done" =>
        /\ Range(written) = Promised
        /\ \A c \in BlockClasses :
              Cardinality({i \in DOMAIN written : /\ written[i].klass = <<>>
                                                  /\ written[i].name = make_name(c.name)
                                                  /\ written[i].params # <<>>}) <= 1
===============================================================================
