------------------------------- MODULE DoxyTree -------------------------------
(* XML trees, and the sequences of the documentation generator. A tree is made *)
(* of elements and of words: text is abstracted to the sequence of its words,  *)
(* layout to nothing.                                                          *)
EXTENDS SequencesExt, FiniteSets

Element(tag, attrs, kids) == [tag |-> tag, attrs |-> attrs, word |-> "", kids |-> kids]
Word(w) == [tag |-> "", attrs |-> <<>>, word |-> w, kids |-> <<>>]
IsWord(node) == node.tag = ""

(* Two line breaks: what separates paragraphs in a text. *)
PAR == "//"

(* The concatenation makes TLC evaluate the elements once. *)
Map(s, Op(_)) == <<>> \o [i \in DOMAIN s |-> Op(s[i])]

(* The elements of s at the places of a subset of its domain, in their order.  *)
Place(places, k) == CHOOSE i \in places : Cardinality({j \in places : j <= i}) = k
Pick(s, places) == <<>> \o [k \in 1..Cardinality(places) |-> s[Place(places, k)]]
===============================================================================
