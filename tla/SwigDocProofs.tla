----------------------------- MODULE SwigDocProofs ------------------------------
(* Proofs about SwigDoc, for every set of source trees and every reader of XML *)
(* that its assumptions allow.                                                 *)
EXTENDS SwigDoc, SequenceTheorems, FiniteSetTheorems, TLAPS

-------------------------------------------------------------------------------
(* Sequences *)

IsSequence(s) == s \in Seq(Range(s))

LEMMA One == \A n : n = 1 => 1 \in 1..n
  OBVIOUS

(* A sequence is a function on the numbers up to its length.                   *)
LEMMA SequenceParts ==
  ASSUME NEW s, IsSequence(s)
  PROVE  /\ Len(s) \in Nat /\ DOMAIN s = 1..Len(s)
         /\ s = [i \in 1..Len(s) |-> s[i]]
         /\ Range(s) = {s[i] : i \in 1..Len(s)}
         /\ s = <<>> <=> Len(s) = 0
<1>1. Len(s) \in Nat /\ s \in [1..Len(s) -> Range(s)] /\ DOMAIN s = 1..Len(s)
  BY LenProperties DEF IsSequence
<1>2. Range(s) = {s[i] : i \in 1..Len(s)}
  BY RangeEquality DEF IsSequence
<1>3. s = <<>> <=> Len(s) = 0
  BY EmptySeq DEF IsSequence
<1> QED BY <1>1, <1>2, <1>3

(* A function on the numbers up to some length is a sequence, and Map does not *)
(* change it.                                                                  *)
LEMMA FunctionIsSequence ==
  ASSUME NEW n \in Nat, NEW f, f = [i \in 1..n |-> f[i]]
  PROVE  /\ IsSequence(f) /\ Len(f) = n /\ <<>> \o f = f
         /\ Range(f) = {f[i] : i \in 1..n}
<1>1. f \in [1..n -> Range(f)] /\ Range(f) = {f[i] : i \in 1..n}
  BY DEF Range
<1>2. f \in Seq(Range(f))
  BY <1>1, SeqDef
<1>3. Len(f) = n
  <2>1. DOMAIN f = 1..n /\ DOMAIN f = 1..Len(f) /\ Len(f) \in Nat
    BY <1>1, <1>2, LenProperties
  <2> QED BY <2>1
<1> QED BY <1>1, <1>2, <1>3, ConcatEmptySeq DEF IsSequence

(* What a concatenation consists of.                                           *)
LEMMA Concatenation ==
  ASSUME NEW s, IsSequence(s), NEW t, IsSequence(t)
  PROVE  /\ IsSequence(s \o t) /\ Len(s \o t) = Len(s) + Len(t)
         /\ Range(s \o t) = Range(s) \cup Range(t)
         /\ \A i \in 1..Len(s) : (s \o t)[i] = s[i]
         /\ \A i \in 1..Len(t) : (s \o t)[Len(s) + i] = t[i]
<1> DEFINE S == Range(s) \cup Range(t)
<1>1. s \in Seq(S) /\ t \in Seq(S)
  BY SeqMonotonic DEF IsSequence
<1>2. Range(s \o t) = S
  BY <1>1, RangeConcatenation
<1>3. s \o t \in Seq(S) /\ Len(s \o t) = Len(s) + Len(t)
      /\ \A i \in 1 .. Len(s) + Len(t) : (s \o t)[i] = IF i <= Len(s) THEN s[i] ELSE t[i - Len(s)]
  BY <1>1, ConcatProperties
<1>4. Len(s) \in Nat /\ Len(t) \in Nat
  BY <1>1, LenProperties
<1> HIDE DEF S
<1>5. \A i \in 1..Len(s) : (s \o t)[i] = s[i]
  BY <1>3, <1>4
<1>6. ASSUME NEW i \in 1..Len(t) PROVE (s \o t)[Len(s) + i] = t[i]
  <2> DEFINE j == Len(s) + i
  <2>1. j \in 1 .. Len(s) + Len(t) /\ ~(j <= Len(s)) /\ j - Len(s) = i
    BY <1>4
  <2> HIDE DEF j
  <2>2. (s \o t)[j] = t[i]
    BY <1>3, <2>1
  <2> QED BY <2>2 DEF j
<1> QED BY <1>2, <1>3, <1>5, <1>6 DEF IsSequence, S

(* A sequence that is not empty has a first element and a rest.                *)
LEMMA FirstAndRest ==
  ASSUME NEW s, IsSequence(s), s # <<>>
  PROVE  /\ IsSequence(Tail(s)) /\ Len(Tail(s)) = Len(s) - 1
         /\ Head(s) = s[1] /\ 1 \in 1..Len(s)
         /\ \A i \in 1..Len(Tail(s)) : Tail(s)[i] = s[i + 1] /\ i + 1 \in 1..Len(s)
         /\ Range(s) = {Head(s)} \cup Range(Tail(s))
<1>1. /\ Tail(s) \in Seq(Range(s)) /\ Len(Tail(s)) = Len(s) - 1
      /\ \A i \in 1 .. Len(Tail(s)) : Tail(s)[i] = s[i + 1]
  BY HeadTailProperties DEF IsSequence
<1>2. Len(s) \in Nat /\ Len(s) # 0 /\ Range(s) = {s[i] : i \in 1..Len(s)}
  BY SequenceParts
<1>3. Head(s) = s[1]
  BY <1>2 DEF IsSequence
<1>4. IsSequence(Tail(s))
  BY <1>1, SeqOfRange DEF IsSequence
<1>5. Range(Tail(s)) = {Tail(s)[i] : i \in 1..Len(Tail(s))}
  BY <1>4, SequenceParts
<1>6. ASSUME NEW i \in 1..Len(Tail(s)) PROVE Tail(s)[i] = s[i + 1] /\ i + 1 \in 1..Len(s)
  BY <1>1, <1>2
<1>7. ASSUME NEW i \in 1..Len(s), i # 1 PROVE s[i] \in Range(Tail(s))
  <2>1. i - 1 \in 1..Len(Tail(s)) /\ (i - 1) + 1 = i
    BY <1>1, <1>2, <1>7
  <2>2. Tail(s)[i - 1] = s[i]
    BY <1>1, <2>1
  <2> QED BY <1>5, <2>1, <2>2
<1>8. Range(s) = {s[1]} \cup Range(Tail(s))
  BY <1>2, <1>5, <1>6, <1>7
<1> QED BY <1>1, <1>2, <1>3, <1>4, <1>6, <1>8

(* The places of a subset of a sequence's domain, in their order: every number *)
(* up to the cardinality has one, and every place a number.                    *)
LEMMA Places ==
  ASSUME NEW n \in Nat, NEW I \in SUBSET (1..n)
  PROVE  /\ IsFiniteSet(I) /\ Cardinality(I) \in Nat
         /\ \A k \in 1..Cardinality(I) : Place(I, k) \in I
         /\ \A k, l \in 1..Cardinality(I) : Place(I, k) = Place(I, l) => k = l
         /\ \A i \in I : \E k \in 1..Cardinality(I) : Place(I, k) = i
<1> DEFINE B(i) == {j \in I : j <= i}
           C == Cardinality(I)
           rank == [i \in I |-> Cardinality(B(i))]
<1>1. IsFiniteSet(I) /\ C \in Nat
  <2>1. IsFiniteSet(1..n)
    BY FS_Interval
  <2>2. IsFiniteSet(I)
    BY <2>1, FS_Subset
  <2> QED BY <2>2, FS_CardinalityType
<1>2. ASSUME NEW i \in I
      PROVE  /\ IsFiniteSet(B(i)) /\ B(i) \in SUBSET I /\ rank[i] = Cardinality(B(i))
             /\ rank[i] \in 1..C
  <2>1. B(i) \in SUBSET I /\ i \in B(i)
    OBVIOUS
  <2>2. IsFiniteSet(B(i)) /\ Cardinality(B(i)) <= C
    BY <1>1, <2>1, FS_Subset
  <2>3. Cardinality(B(i)) \in Nat /\ Cardinality(B(i)) # 0
    BY <2>1, <2>2, FS_CardinalityType, FS_EmptySet
  <2> HIDE DEF B, C
  <2> QED BY <1>1, <2>1, <2>2, <2>3
<1>3. ASSUME NEW i \in I, NEW j \in I, i < j PROVE rank[i] < rank[j]
  <2>1. B(i) \in SUBSET B(j) /\ j \in B(j) /\ j \notin B(i)
    <3>1. i \in Int /\ j \in Int /\ i < j /\ \A x \in I : x \in Int
      BY <1>3
    <3>2. (\A x \in I : x <= i => x <= j) /\ j <= j /\ ~(j <= i)
      BY <3>1
    <3> QED BY <3>2
  <2>2. Cardinality(B(i)) <= Cardinality(B(j)) /\ Cardinality(B(i)) # Cardinality(B(j))
    <3>1. IsFiniteSet(B(j))
      <4> HIDE DEF B, C, rank
      <4> QED BY <1>2
    <3>2. B(j) # B(i)
      <4> HIDE DEF B
      <4> QED BY <2>1
    <3> HIDE DEF B
    <3> QED BY <2>1, <3>1, <3>2, FS_Subset
  <2>3. rank[i] \in 1..C /\ rank[j] \in 1..C
        /\ rank[i] = Cardinality(B(i)) /\ rank[j] = Cardinality(B(j))
    BY <1>2
  <2> HIDE DEF B, C, rank
  <2> QED BY <1>1, <2>2, <2>3
<1> HIDE DEF B, C
<1>4. \A i, j \in I : rank[i] = rank[j] => i = j
  <2> SUFFICES ASSUME NEW i \in I, NEW j \in I, rank[i] = rank[j] PROVE i = j
    OBVIOUS
  <2>1. rank[i] \in 1..C
    BY <1>2
  <2>2. ~(rank[i] < rank[j]) /\ ~(rank[j] < rank[i])
    BY <1>1, <2>1
  <2>3. ~(i < j) /\ ~(j < i)
    <3> HIDE DEF rank
    <3> QED BY <1>3, <2>2
  <2> QED BY <2>3
<1>5. rank \in Injection(I, 1..C)
  BY <1>2, <1>4 DEF Injection, IsInjective
<1>6. Cardinality(1..C) = C
  BY <1>1, FS_Interval
<1>7. rank \in Surjection(I, 1..C)
  BY <1>1, <1>5, <1>6, FS_Injection, FS_Interval DEF C
<1>8. \A k \in 1..C : \E i \in I : rank[i] = k
  BY <1>7 DEF Surjection
<1>9. \A k \in 1..C : Place(I, k) \in I /\ rank[Place(I, k)] = k
  <2> SUFFICES ASSUME NEW k \in 1..C PROVE Place(I, k) \in I /\ rank[Place(I, k)] = k
    OBVIOUS
  <2>1. \E i \in I : Cardinality({j \in I : j <= i}) = k
    BY <1>8 DEF B
  <2>2. Place(I, k) \in I /\ Cardinality({j \in I : j <= Place(I, k)}) = k
    BY <2>1 DEF Place
  <2> QED BY <2>2 DEF B
<1>10. \A i \in I : rank[i] \in 1..C
  BY <1>2
<1> HIDE DEF rank
<1>11. \A i \in I : Place(I, rank[i]) = i
  BY <1>4, <1>9, <1>10
<1> QED BY <1>1, <1>9, <1>10, <1>11 DEF C

(* What Pick takes of a sequence: the elements at the places, each once.       *)
LEMMA Picking ==
  ASSUME NEW s, IsSequence(s), NEW I \in SUBSET DOMAIN s
  PROVE  /\ IsFiniteSet(I) /\ Cardinality(I) \in Nat
         /\ IsSequence(Pick(s, I)) /\ Len(Pick(s, I)) = Cardinality(I)
         /\ Range(Pick(s, I)) = {s[i] : i \in I}
         /\ Pick(s, I) = <<>> <=> I = {}
         /\ \A k \in 1..Cardinality(I) : Pick(s, I)[k] = s[Place(I, k)] /\ Place(I, k) \in I
         /\ \A k, l \in 1..Cardinality(I) : Place(I, k) = Place(I, l) => k = l
<1> DEFINE C == Cardinality(I)
           f == [k \in 1..C |-> s[Place(I, k)]]
<1>1. I \in SUBSET (1..Len(s)) /\ Len(s) \in Nat
  BY SequenceParts
<1>2. /\ IsFiniteSet(I) /\ C \in Nat
      /\ \A k \in 1..C : Place(I, k) \in I
      /\ \A k, l \in 1..C : Place(I, k) = Place(I, l) => k = l
      /\ \A i \in I : \E k \in 1..C : Place(I, k) = i
  BY <1>1, Places
<1>3. f = [k \in 1..C |-> f[k]]
  OBVIOUS
<1>4. \A k \in 1..C : f[k] = s[Place(I, k)]
  OBVIOUS
<1>5. Pick(s, I) = <<>> \o f
  BY DEF Pick
<1> HIDE DEF f, C
<1>6. IsSequence(f) /\ Len(f) = C /\ Pick(s, I) = f /\ Range(f) = {f[k] : k \in 1..C}
  BY <1>2, <1>3, <1>5, FunctionIsSequence
<1>7. {f[k] : k \in 1..C} = {s[i] : i \in I}
  BY <1>2, <1>4
<1>8. f = <<>> <=> I = {}
  BY <1>2, <1>6, SequenceParts, FS_EmptySet DEF C
<1> QED BY <1>2, <1>4, <1>6, <1>7, <1>8 DEF C

-------------------------------------------------------------------------------
(* What is read *)

(* The classes of members and compounds, by their kinds. *)
LEMMA Kinds ==
  ASSUME NEW kind
  PROVE  /\ get_cls(kind) = "DoxyFunction" <=> kind = "function"
         /\ get_cls(kind) = "DoxyFriend" <=> kind = "friend"
         /\ get_cls(kind) = "DoxyClass" <=> kind = "class"
         /\ get_cls(kind) = "DoxyFile" <=> kind = "file"
         /\ get_cls(kind) = "none" <=> kind \notin KnownKinds \cup {"function", "friend"}
  BY DEF get_cls, KnownKinds

(* The members of a compound and the compound itself, as they should be read. *)
Mems(c) == Unique(AsRead(c))
Read(c) == c.kind \in {"class", "file"} /\ c.xml = "ok"
View(c) ==
    [cls |-> get_cls(c.kind), name |-> c.name,
     brief |-> IF Read(c) THEN c.brief ELSE <<>>,
     detailed |-> IF Read(c) THEN c.detailed ELSE <<>>,
     params |-> <<>>,
     members |-> IF Read(c) THEN Mems(c) ELSE <<>>,
     xml |-> c.xml]

(* A compound whose members form a sequence.                                   *)
Listed(c) ==
    /\ IsSequence(members(c))
    /\ \A i \in 1..Len(members(c)) : /\ members(c)[i].kind \notin {"class", "file"}
                                     /\ IsSequence(members(c)[i].params)

LEMMA WorldParts ==
  ASSUME NEW w \in Worlds
  PROVE  /\ IsSequence(w) /\ Len(w) \in Nat /\ DOMAIN w = 1..Len(w)
         /\ \A i \in 1..Len(w) :
               /\ w[i] \in Range(w) /\ Listed(w[i])
               /\ w[i].kind \notin {"function", "friend"}
               /\ w[i].kind = "class" => w[i].name \in ClassNames /\ ~Operator(w[i].name)
               /\ w[i].xml \in {"ok", "broken", "missing"}
         /\ \A i, j \in 1..Len(w) :
               (i # j /\ w[i].kind = "class" /\ w[j].kind = "class") =>
                   w[i].name # w[j].name /\ make_name(w[i].name) # make_name(w[j].name)
         /\ \A c \in Range(w) : \E i \in 1..Len(w) : c = w[i]
<1>1. IsSequence(w)
  BY WorldAssumption DEF IsSequence
<1>2. Len(w) \in Nat /\ DOMAIN w = 1..Len(w) /\ Range(w) = {w[i] : i \in 1..Len(w)}
  BY <1>1, SequenceParts
<1>3. ASSUME NEW i \in 1..Len(w) PROVE w[i] \in Range(w) /\ Listed(w[i])
  <2>1. w[i] \in Range(w)
    BY <1>2
  <2>2. IsSequence(members(w[i]))
    BY <2>1, WorldAssumption DEF IsSequence
  <2>3. \A k \in 1..Len(members(w[i])) : members(w[i])[k] \in Range(members(w[i]))
    BY <2>2, SequenceParts
  <2>4. \A m \in Range(members(w[i])) : m.kind \notin {"class", "file"} /\ IsSequence(m.params)
    BY <2>1, WorldAssumption DEF IsSequence
  <2> QED BY <2>1, <2>2, <2>3, <2>4 DEF Listed
<1>4. \A c \in Range(w) : /\ c.kind \notin {"function", "friend"}
                          /\ c.kind = "class" => c.name \in ClassNames /\ ~Operator(c.name)
                          /\ c.xml \in {"ok", "broken", "missing"}
  BY WorldAssumption
<1>5. \A i, j \in 1..Len(w) :
               (i # j /\ w[i].kind = "class" /\ w[j].kind = "class") =>
                   w[i].name # w[j].name /\ make_name(w[i].name) # make_name(w[j].name)
  BY <1>2, WorldAssumption
<1> QED BY <1>1, <1>2, <1>3, <1>4, <1>5

(* The members that are kept: the first of each name. *)
LEMMA Kept ==
  ASSUME NEW c, Listed(c)
  PROVE  /\ IsSequence(Mems(c))
         /\ FirstOfName(c) \in SUBSET (1..Len(members(c)))
         /\ \A i, j \in FirstOfName(c) : members(c)[i].name = members(c)[j].name => i = j
         /\ \A p \in 1..Len(Mems(c)) :
               \E i \in FirstOfName(c) : Mems(c)[p] = Described(members(c)[i])
         /\ \A i \in FirstOfName(c) :
               \E p \in 1..Len(Mems(c)) : Mems(c)[p] = Described(members(c)[i])
         /\ \A p, q \in 1..Len(Mems(c)) : Mems(c)[p].name = Mems(c)[q].name => p = q
<1> DEFINE ms == members(c)
           as == AsRead(c)
           f == [i \in 1..Len(ms) |-> Described(ms[i])]
           I == {i \in DOMAIN as : \A j \in 1..(i - 1) : as[j].name # as[i].name}
<1>1. Len(ms) \in Nat /\ DOMAIN ms = 1..Len(ms)
  BY SequenceParts DEF Listed
<1>2. as = <<>> \o f
  BY <1>1 DEF AsRead, Map
<1>3. f = [i \in 1..Len(ms) |-> f[i]]
  OBVIOUS
<1>4. \A i \in 1..Len(ms) : f[i] = Described(ms[i])
  OBVIOUS
<1> HIDE DEF f, ms, as
<1>5. IsSequence(as) /\ Len(as) = Len(ms) /\ as = f
  BY <1>1, <1>2, <1>3, FunctionIsSequence
<1>6. DOMAIN as = 1..Len(ms)
  BY <1>5, SequenceParts
<1>7. \A i \in 1..Len(ms) : as[i] = Described(ms[i]) /\ as[i].name = ms[i].name
  BY <1>4, <1>5 DEF Described
<1>8. \A i \in 1..Len(ms) : \A j \in 1..(i - 1) : j \in 1..Len(ms)
  BY <1>1
<1>9. FirstOfName(c) = {i \in 1..Len(ms) : \A j \in 1..(i - 1) : ms[j].name # ms[i].name}
  BY <1>1 DEF FirstOfName, ms
<1>10. I = FirstOfName(c)
  BY <1>6, <1>7, <1>8, <1>9
<1>11. Mems(c) = Pick(as, I)
  BY DEF Mems, Unique, as
<1> HIDE DEF I
<1>12. I \in SUBSET DOMAIN as
  BY <1>6, <1>9, <1>10
<1>13. ASSUME NEW i \in FirstOfName(c), NEW j \in FirstOfName(c), ms[i].name = ms[j].name
       PROVE  i = j
  <2>1. i \in 1..Len(ms) /\ j \in 1..Len(ms)
    BY <1>9
  <2>2. ~(i \in 1..(j - 1)) /\ ~(j \in 1..(i - 1))
    BY <1>9, <1>13
  <2> QED BY <1>1, <2>1, <2>2
<1>14. /\ Cardinality(I) \in Nat /\ IsSequence(Mems(c)) /\ Len(Mems(c)) = Cardinality(I)
       /\ Range(Mems(c)) = {as[i] : i \in I}
       /\ \A k \in 1..Cardinality(I) : Mems(c)[k] = as[Place(I, k)] /\ Place(I, k) \in I
       /\ \A k, l \in 1..Cardinality(I) : Place(I, k) = Place(I, l) => k = l
  BY <1>5, <1>11, <1>12, Picking
<1>15. \A p \in 1..Len(Mems(c)) :
         /\ Place(I, p) \in FirstOfName(c)
         /\ Mems(c)[p] = Described(ms[Place(I, p)])
         /\ Mems(c)[p].name = ms[Place(I, p)].name
  BY <1>7, <1>9, <1>10, <1>14
<1>16. ASSUME NEW i \in FirstOfName(c)
       PROVE  \E p \in 1..Len(Mems(c)) : Mems(c)[p] = Described(ms[i])
  <2>1. as[i] \in Range(Mems(c)) /\ as[i] = Described(ms[i])
    BY <1>7, <1>9, <1>10, <1>14
  <2>2. Range(Mems(c)) = {Mems(c)[p] : p \in 1..Len(Mems(c))}
    BY <1>14, SequenceParts
  <2> QED BY <2>1, <2>2
<1>17. \A p, q \in 1..Len(Mems(c)) : Mems(c)[p].name = Mems(c)[q].name => p = q
  BY <1>13, <1>14, <1>15
<1>18. FirstOfName(c) \in SUBSET (1..Len(ms))
  BY <1>9
<1> QED BY <1>13, <1>14, <1>15, <1>16, <1>17, <1>18 DEF ms
(* The entries of the index are those of the compounds.                        *)
LEMMA IndexRead ==
  ASSUME NEW w \in Worlds
  PROVE  /\ IsSequence(Entries(w)) /\ Len(Entries(w)) = Len(w)
         /\ \A i \in 1..Len(w) :
               /\ Attribute(Entries(w)[i], "kind") = w[i].kind
               /\ Attribute(Entries(w)[i], "refid") = i
               /\ StringOf(Entries(w)[i], "name") = w[i].name
<1>1. DOMAIN w = 1..Len(w) /\ Len(w) \in Nat
  BY WorldParts
<1>2. ReadsIndex(w)
  BY ReaderAssumption
<1>3. Entries(w) = [i \in 1..Len(w) |-> Entries(w)[i]]
  BY <1>1, <1>2 DEF ReadsIndex
<1>4. IsSequence(Entries(w)) /\ Len(Entries(w)) = Len(w)
  BY <1>1, <1>3, FunctionIsSequence
<1> QED BY <1>1, <1>2, <1>4 DEF ReadsIndex

(* A file that can be read is read as meant.                                   *)
LEMMA FileRead ==
  ASSUME NEW w \in Worlds, NEW i \in 1..Len(w)
  PROVE  LET file == CompoundFile(w[i])
             cdef == Field(ReadAs(file.tree, "DoxygenType"), "compounddef")
         IN  /\ retrieve_data(file) = w[i].xml
             /\ w[i].xml = "ok" =>
                   /\ TextOf(Field(cdef, "briefdescription")) = w[i].brief
                   /\ TextOf(Field(cdef, "detaileddescription")) = w[i].detailed
                   /\ process_memberdefs(cdef) = Mems(w[i])
<1>1. CompoundFile(w[i]).state = w[i].xml
  BY DEF CompoundFile, File
<1>2. w[i].xml = "ok" => ReadsFile(w[i])
  BY WorldParts, ReaderAssumption
<1>3. retrieve_data(CompoundFile(w[i])) = w[i].xml
  BY <1>1, <1>2 DEF retrieve_data, ReadsFile
<1> QED BY <1>2, <1>3 DEF ReadsFile, process_memberdefs, Mems

(* The index reads every compound as it should.                                *)
LEMMA CompoundRead ==
  ASSUME NEW w \in Worlds, NEW i \in 1..Len(w)
  PROVE  Compound(Entries(w)[i], Files(w)) = View(w[i])
<1> DEFINE files == Files(w)
           f == [j \in 1..Len(w) |-> CompoundFile(w[j])]
           file == CompoundFile(w[i])
           cdef == Field(ReadAs(file.tree, "DoxygenType"), "compounddef")
<1>1. DOMAIN w = 1..Len(w) /\ Len(w) \in Nat
  BY WorldParts
<1>2. files = <<>> \o f
  BY <1>1 DEF Files, Map
<1>3. f = [j \in 1..Len(w) |-> f[j]] /\ f[i] = file
  OBVIOUS
<1> HIDE DEF f
<1>4. files[i] = file
  BY <1>1, <1>2, <1>3, FunctionIsSequence
<1>5. /\ retrieve_data(file) = w[i].xml
      /\ w[i].xml = "ok" =>
            /\ TextOf(Field(cdef, "briefdescription")) = w[i].brief
            /\ TextOf(Field(cdef, "detaileddescription")) = w[i].detailed
            /\ process_memberdefs(cdef) = Mems(w[i])
  BY FileRead
<1>6. /\ Attribute(Entries(w)[i], "kind") = w[i].kind
      /\ Attribute(Entries(w)[i], "refid") = i
      /\ StringOf(Entries(w)[i], "name") = w[i].name
  BY IndexRead
<1>7. get_cls(w[i].kind) \in {"DoxyClass", "DoxyFile"} <=> w[i].kind \in {"class", "file"}
  BY Kinds
<1> HIDE DEF files
<1>8. Compound(Entries(w)[i], files) = View(w[i])
  <2>1. files[Attribute(Entries(w)[i], "refid")] = file
    BY <1>4, <1>6
  <2> HIDE DEF file
  <2>2. CASE Read(w[i])
    BY <1>5, <1>6, <1>7, <2>1, <2>2 DEF Compound, View, Read
  <2>3. CASE ~Read(w[i])
    BY <1>5, <1>6, <1>7, <2>1, <2>3 DEF Compound, View, Read
  <2> QED BY <2>2, <2>3
<1> QED BY <1>8 DEF files
-------------------------------------------------------------------------------
(* The index *)

Header(c) == c.kind = "file" /\ c.name.ext = ".h"

(* What a compound adds to the index.                                          *)
Contribution(c) ==
    (IF Header(c) THEN Range(Mems(c)) ELSE {})
    \cup (IF c.kind = "file" /\ ~Header(c) THEN {} ELSE {View(c)})

(* What can be found by its class in a contribution: functions among the       *)
(* members of a header, classes and headers as themselves.                     *)
LEMMA ByClass ==
  ASSUME NEW c, Listed(c), c.kind \notin {"function", "friend"}, NEW x \in Contribution(c)
  PROVE  /\ x.cls = "DoxyFunction" =>
              Header(c) /\ \E i \in Functions(c) : x = Described(members(c)[i])
         /\ x.cls = "DoxyClass" => c.kind = "class" /\ x = View(c)
         /\ x.cls = "DoxyFile" => Header(c) /\ x = View(c)
<1>1. CASE Header(c) /\ x \in Range(Mems(c))
  <2>1. PICK p \in 1..Len(Mems(c)) : x = Mems(c)[p]
    BY <1>1, Kept, SequenceParts
  <2>2. PICK i \in FirstOfName(c) : x = Described(members(c)[i])
    BY <2>1, Kept
  <2>3. i \in 1..Len(members(c)) /\ members(c)[i].kind \notin {"class", "file"}
    BY Kept DEF Listed
  <2>4. x.cls = get_cls(members(c)[i].kind)
    BY <2>2 DEF Described
  <2> QED BY <1>1, <2>2, <2>3, <2>4, Kinds DEF Functions
<1>2. CASE x = View(c) /\ ~(c.kind = "file" /\ ~Header(c))
  <2>1. x.cls = get_cls(c.kind)
    BY <1>2 DEF View
  <2> QED BY <1>2, <2>1, Kinds
<1> QED BY <1>1, <1>2 DEF Contribution

(* Every function of a header, every class and every header is in one.         *)
LEMMA ToFind ==
  ASSUME NEW c, Listed(c)
  PROVE  /\ \A i \in Functions(c) : Header(c) => Described(members(c)[i]) \in Contribution(c)
         /\ c.kind = "class" \/ Header(c) => View(c) \in Contribution(c)
<1>1. ASSUME NEW i \in Functions(c) PROVE Described(members(c)[i]) \in Range(Mems(c))
  <2>1. i \in FirstOfName(c)
    BY DEF Functions
  <2>2. PICK p \in 1..Len(Mems(c)) : Mems(c)[p] = Described(members(c)[i])
    BY <2>1, Kept
  <2> QED BY <2>2, Kept, SequenceParts
<1> QED BY <1>1 DEF Contribution, Header

(* An index of the first k compounds of a source tree: every entry comes from  *)
(* one of them, everything they contribute is in it, and what comes from one   *)
(* of them is there once.                                                      *)
FromTo(w, d, k, from) ==
    /\ from \in [1..Len(d) -> 1..k]
    /\ \A p \in 1..Len(d) : d[p] \in Contribution(w[from[p]])
    /\ \A j \in 1..k : \A x \in Contribution(w[j]) :
          \E p \in 1..Len(d) : from[p] = j /\ d[p] = x
    /\ \A p, q \in 1..Len(d) :
          (from[p] = from[q] /\ d[p].cls = d[q].cls /\ d[p].name = d[q].name) => p = q
Indexed(w, d, k) ==
    IsSequence(d) /\ \E from \in [1..Len(d) -> 1..k] : FromTo(w, d, k, from)

(* What the script appends for a compound.                                     *)
Added(c) ==
    (IF Header(c) THEN View(c).members ELSE <<>>)
    \o (IF c.kind = "file" /\ ~Header(c) THEN <<>> ELSE <<View(c)>>)

LEMMA EmptyAndSingle ==
  /\ IsSequence(<<>>) /\ Len(<<>>) = 0 /\ Range(<<>>) = {}
  /\ \A x : /\ IsSequence(<<x>>) /\ Len(<<x>>) = 1 /\ Range(<<x>>) = {x} /\ <<x>>[1] = x
            /\ <<x>> # <<>>
<1>1. IsSequence(<<>>) /\ Len(<<>>) = 0 /\ Range(<<>>) = {}
  BY EmptySeq DEF IsSequence, Range
<1>2. ASSUME NEW x
      PROVE  IsSequence(<<x>>) /\ Len(<<x>>) = 1 /\ Range(<<x>>) = {x} /\ <<x>>[1] = x
             /\ <<x>> # <<>>
  <2> DEFINE t == <<x>>
  <2>1. t \in Seq({x}) /\ Len(t) = 1 /\ t[1] = x
    <3>1. t \in Seq({x})
      OBVIOUS
    <3>2. Len(t) = 1
      OBVIOUS
    <3>3. t[1] = x
      OBVIOUS
    <3> QED BY <3>1, <3>2, <3>3
  <2> HIDE DEF t
  <2>2. Range(t) = {x}
    <3>1. Range(t) = {t[i] : i \in 1..Len(t)}
      BY <2>1, RangeEquality
    <3>2. 1..Len(t) = {1}
      BY <2>1
    <3> QED BY <2>1, <3>1, <3>2
  <2>3. IsSequence(t) /\ t # <<>>
    BY <1>1, <2>1, <2>2 DEF IsSequence
  <2> QED BY <2>1, <2>2, <2>3 DEF t
<1> QED BY <1>1, <1>2

LEMMA AddedParts ==
  ASSUME NEW c, Listed(c), Header(c) => c.xml = "ok"
  PROVE  /\ IsSequence(Added(c)) /\ Range(Added(c)) = Contribution(c)
         /\ \A p, q \in 1..Len(Added(c)) :
               (Added(c)[p].cls = Added(c)[q].cls /\ Added(c)[p].name = Added(c)[q].name)
                  => p = q
<1> DEFINE a == IF Header(c) THEN View(c).members ELSE <<>>
           b == IF c.kind = "file" /\ ~Header(c) THEN <<>> ELSE <<View(c)>>
<1>1. Header(c) => a = Mems(c)
  BY DEF View, Read, Header
<1>2. IsSequence(a) /\ IsSequence(b) /\ Len(a) \in Nat /\ Len(b) \in {0, 1}
  BY <1>1, Kept, EmptyAndSingle, SequenceParts
<1>3. Range(a) = (IF Header(c) THEN Range(Mems(c)) ELSE {})
      /\ Range(b) = (IF c.kind = "file" /\ ~Header(c) THEN {} ELSE {View(c)})
  BY <1>1, EmptyAndSingle
<1>4. /\ Len(b) = 1 => b[1] = View(c)
      /\ Len(a) # 0 => Header(c) /\ Len(a) = Len(Mems(c))
      /\ Len(a) # 0 => \A p \in 1..Len(a) : a[p] = Mems(c)[p]
  BY <1>1, EmptyAndSingle
<1> HIDE DEF a, b
<1>5. /\ IsSequence(a \o b) /\ Len(a \o b) = Len(a) + Len(b)
      /\ Range(a \o b) = Range(a) \cup Range(b)
      /\ \A p \in 1..Len(a) : (a \o b)[p] = a[p]
      /\ \A p \in 1..Len(b) : (a \o b)[Len(a) + p] = b[p]
  BY <1>2, Concatenation
<1>6. Added(c) = a \o b
  BY DEF Added, a, b
<1>7. Range(Added(c)) = Contribution(c)
  BY <1>3, <1>5, <1>6 DEF Contribution
<1>8. ASSUME NEW p \in 1..Len(a) PROVE Header(c) /\ a[p] = Mems(c)[p] /\ a[p].cls # "DoxyFile"
  <2>1. Len(a) # 0
    BY <1>2
  <2>2. Header(c) /\ p \in 1..Len(Mems(c)) /\ a[p] = Mems(c)[p]
    BY <1>4, <2>1
  <2>3. PICK i \in FirstOfName(c) : Mems(c)[p] = Described(members(c)[i])
    BY <2>2, Kept
  <2>4. members(c)[i].kind \notin {"class", "file"}
    BY Kept DEF Listed
  <2>5. Mems(c)[p].cls = get_cls(members(c)[i].kind)
    BY <2>3 DEF Described
  <2> QED BY <2>2, <2>4, <2>5, Kinds
<1>9. ASSUME NEW p \in 1..Len(Added(c)), p \notin 1..Len(a)
      PROVE  p = Len(a) + 1 /\ Len(b) = 1 /\ Added(c)[p] = View(c)
             /\ (Header(c) => Added(c)[p].cls = "DoxyFile")
  <2>1. p = Len(a) + 1 /\ Len(b) = 1
    BY <1>2, <1>5, <1>6, <1>9
  <2>2. Added(c)[p] = View(c)
    BY <1>4, <1>5, <1>6, <2>1
  <2>3. Header(c) => View(c).cls = "DoxyFile"
    BY Kinds DEF View, Header
  <2> QED BY <2>1, <2>2, <2>3
<1>10. ASSUME NEW p \in 1..Len(Added(c)), NEW q \in 1..Len(Added(c)),
              Added(c)[p].cls = Added(c)[q].cls, Added(c)[p].name = Added(c)[q].name
       PROVE  p = q
  <2>1. CASE p \in 1..Len(a) /\ q \in 1..Len(a)
    <3>1. Len(a) # 0
      BY <1>2, <2>1
    <3>2. p \in 1..Len(Mems(c)) /\ q \in 1..Len(Mems(c))
      BY <1>4, <2>1, <3>1
    <3>3. Added(c)[p] = Mems(c)[p] /\ Added(c)[q] = Mems(c)[q]
      BY <1>5, <1>6, <1>8, <2>1
    <3>4. Mems(c)[p].name = Mems(c)[q].name
      BY <1>10, <3>3
    <3> QED BY <3>2, <3>4, Kept
  <2>2. CASE p \notin 1..Len(a) /\ q \notin 1..Len(a)
    BY <1>9, <2>2
  <2>3. CASE p \in 1..Len(a) /\ q \notin 1..Len(a)
    BY <1>5, <1>6, <1>8, <1>9, <1>10, <2>3
  <2>4. CASE p \notin 1..Len(a) /\ q \in 1..Len(a)
    BY <1>5, <1>6, <1>8, <1>9, <1>10, <2>4
  <2> QED BY <2>1, <2>2, <2>3, <2>4
<1> QED BY <1>5, <1>6, <1>7, <1>10
LEMMA EmptyIndex ==
  ASSUME NEW w
  PROVE  Indexed(w, <<>>, 0)
<1> DEFINE d == <<>>
<1>1. IsSequence(d) /\ 1..Len(d) = {} /\ 1..0 = {}
  BY EmptyAndSingle
<1> HIDE DEF d
<1>2. FromTo(w, d, 0, [p \in 1..Len(d) |-> 0])
  BY <1>1 DEF FromTo
<1> QED BY <1>1, <1>2 DEF Indexed, d

(* The next compound keeps it an index.                                        *)
LEMMA Appending ==
  ASSUME NEW w \in Worlds, NEW d, NEW k \in Nat, k + 1 \in 1..Len(w), Indexed(w, d, k),
         Header(w[k + 1]) => w[k + 1].xml = "ok"
  PROVE  Indexed(w, d \o Added(w[k + 1]), k + 1)
<1> DEFINE t == Added(w[k + 1])
           e == d \o t
<1>1. PICK from : FromTo(w, d, k, from)
  BY DEF Indexed
<1>2. /\ IsSequence(t) /\ Range(t) = Contribution(w[k + 1])
      /\ \A p, q \in 1..Len(t) : (t[p].cls = t[q].cls /\ t[p].name = t[q].name) => p = q
  BY WorldParts, AddedParts
<1> HIDE DEF t
<1>3. Len(d) \in Nat /\ Len(t) \in Nat /\ IsSequence(d) /\ Range(t) = {t[p] : p \in 1..Len(t)}
  BY <1>2, SequenceParts DEF Indexed
<1>4. /\ IsSequence(e) /\ Len(e) = Len(d) + Len(t)
      /\ \A p \in 1..Len(d) : e[p] = d[p]
      /\ \A p \in 1..Len(t) : e[Len(d) + p] = t[p]
  BY <1>2, <1>3, Concatenation
<1> HIDE DEF e
<1> DEFINE g == [p \in 1..Len(e) |-> IF p \in 1..Len(d) THEN from[p] ELSE k + 1]
<1>5. /\ from \in [1..Len(d) -> 1..k]
      /\ \A p \in 1..Len(d) : d[p] \in Contribution(w[from[p]])
      /\ \A j \in 1..k : \A x \in Contribution(w[j]) :
            \E p \in 1..Len(d) : from[p] = j /\ d[p] = x
      /\ \A p, q \in 1..Len(d) :
            (from[p] = from[q] /\ d[p].cls = d[q].cls /\ d[p].name = d[q].name) => p = q
  BY <1>1 DEF FromTo
<1>6. ASSUME NEW p \in 1..Len(d)
      PROVE  p \in 1..Len(e) /\ g[p] = from[p] /\ g[p] \in 1..k /\ e[p] = d[p]
  BY <1>3, <1>4, <1>5
<1>7. ASSUME NEW p \in 1..Len(e), p \notin 1..Len(d)
      PROVE  /\ p - Len(d) \in 1..Len(t) /\ g[p] = k + 1 /\ e[p] = t[p - Len(d)]
  <2>1. p - Len(d) \in 1..Len(t) /\ Len(d) + (p - Len(d)) = p
    BY <1>3, <1>4, <1>7
  <2> QED BY <1>4, <1>7, <2>1
<1>8. ASSUME NEW p \in 1..Len(t)
      PROVE  /\ Len(d) + p \in 1..Len(e) /\ Len(d) + p \notin 1..Len(d)
             /\ g[Len(d) + p] = k + 1 /\ e[Len(d) + p] = t[p]
  BY <1>3, <1>4
<1>9. g \in [1..Len(e) -> 1..(k + 1)]
  BY <1>5
<1> HIDE DEF g
<1>10. ASSUME NEW p \in 1..Len(e) PROVE e[p] \in Contribution(w[g[p]])
  <2>1. CASE p \in 1..Len(d)
    BY <1>5, <1>6, <2>1
  <2>2. CASE p \notin 1..Len(d)
    <3>1. g[p] = k + 1 /\ e[p] \in Range(t)
      BY <1>3, <1>7, <2>2
    <3> QED BY <1>2, <3>1
  <2> QED BY <2>1, <2>2
<1>11. ASSUME NEW j \in 1..(k + 1), NEW x \in Contribution(w[j])
       PROVE  \E p \in 1..Len(e) : g[p] = j /\ e[p] = x
  <2>1. CASE j \in 1..k
    <3>1. PICK p \in 1..Len(d) : from[p] = j /\ d[p] = x
      BY <1>5, <2>1
    <3> QED BY <1>6, <3>1
  <2>2. CASE j = k + 1
    <3>1. PICK p \in 1..Len(t) : x = t[p]
      BY <1>2, <1>3, <2>2
    <3> QED BY <1>8, <2>2, <3>1
  <2> QED BY <2>1, <2>2
<1>12. ASSUME NEW p \in 1..Len(e), NEW q \in 1..Len(e),
              g[p] = g[q], e[p].cls = e[q].cls, e[p].name = e[q].name
       PROVE  p = q
  <2>1. CASE p \in 1..Len(d) /\ q \in 1..Len(d)
    BY <1>5, <1>6, <1>12, <2>1
  <2>2. CASE p \notin 1..Len(d) /\ q \notin 1..Len(d)
    <3>1. /\ p - Len(d) \in 1..Len(t) /\ e[p] = t[p - Len(d)]
          /\ q - Len(d) \in 1..Len(t) /\ e[q] = t[q - Len(d)]
      BY <1>7, <2>2
    <3>2. p - Len(d) = q - Len(d)
      BY <1>2, <1>12, <3>1
    <3> QED BY <1>3, <3>2
  <2>3. p \in 1..Len(d) <=> q \in 1..Len(d)
    <3>1. \A r \in 1..Len(d) : g[r] # k + 1
      BY <1>6
    <3>2. \A r \in 1..Len(e) : r \notin 1..Len(d) => g[r] = k + 1
      BY <1>7
    <3> QED BY <1>12, <3>1, <3>2
  <2> QED BY <2>1, <2>2, <2>3
<1>13. FromTo(w, e, k + 1, g)
  BY <1>9, <1>10, <1>11, <1>12 DEF FromTo
<1> QED BY <1>4, <1>9, <1>13 DEF Indexed, e, t

Unscoped(name) == name.scope = ""

(* The compounds with an entry of a class and name.                            *)
Sources(w, k, cls, name) ==
    {j \in 1..k : \E x \in Contribution(w[j]) : x.cls = cls /\ x.name = name}

(* A look-up by class and name finds as many as there are compounds with such  *)
(* an entry, and of one such compound that entry.                              *)
LEMMA Found ==
  ASSUME NEW w, NEW d, NEW k \in Nat, Indexed(w, d, k), NEW name, Unscoped(name), NEW cls
  PROVE  LET J == Sources(w, k, cls, name)
             found == Candidates(d, name, cls)
         IN  /\ Len(found) = Cardinality(J) /\ Cardinality(J) \in Nat /\ IsFiniteSet(J)
             /\ found = <<>> <=> J = {}
             /\ Cardinality(J) = 1 =>
                  \E j \in J : /\ J = {j} /\ found[1] \in Contribution(w[j])
                               /\ found[1].cls = cls /\ found[1].name = name
<1> DEFINE J == Sources(w, k, cls, name)
           I == {p \in DOMAIN d : d[p].cls = cls /\ d[p].name = name}
           found == Candidates(d, name, cls)
<1>1. PICK from : FromTo(w, d, k, from)
  BY DEF Indexed
<1>2. found = Pick(d, I)
  BY DEF Candidates, Unscoped
<1>3. DOMAIN d = 1..Len(d) /\ Len(d) \in Nat /\ IsSequence(d)
  BY SequenceParts DEF Indexed
<1>4. \A p \in I : p \in 1..Len(d) /\ d[p].cls = cls /\ d[p].name = name
  BY <1>3
<1>5. \A j \in J : j \in 1..k /\ \E x \in Contribution(w[j]) : x.cls = cls /\ x.name = name
  BY DEF Sources
<1>6. \A p \in 1..Len(d) : d[p].cls = cls /\ d[p].name = name => p \in I
  BY <1>3
<1>7. \A j \in 1..k : (\E x \in Contribution(w[j]) : x.cls = cls /\ x.name = name) => j \in J
  BY DEF Sources
<1>8. I \in SUBSET DOMAIN d
  OBVIOUS
<1> HIDE DEF I, J, found
<1>9. /\ IsFiniteSet(I) /\ Cardinality(I) \in Nat /\ Len(found) = Cardinality(I)
      /\ found = <<>> <=> I = {}
      /\ \A r \in 1..Cardinality(I) : found[r] = d[Place(I, r)] /\ Place(I, r) \in I
  BY <1>2, <1>3, <1>8, Picking
<1> DEFINE g == [p \in I |-> from[p]]
<1>10. ASSUME NEW p \in I
       PROVE  g[p] = from[p] /\ from[p] \in J /\ d[p] \in Contribution(w[from[p]])
  BY <1>1, <1>4, <1>7 DEF FromTo
<1>11. \A p, q \in I : g[p] = g[q] => p = q
  BY <1>1, <1>4 DEF FromTo
<1>12. ASSUME NEW j \in J PROVE \E p \in I : g[p] = j
  <2>1. PICK x \in Contribution(w[j]) : x.cls = cls /\ x.name = name
    BY <1>5
  <2>2. PICK p \in 1..Len(d) : from[p] = j /\ d[p] = x
    <3>1. \A i \in 1..k : \A y \in Contribution(w[i]) :
            \E p \in 1..Len(d) : from[p] = i /\ d[p] = y
      BY <1>1 DEF FromTo
    <3>2. j \in 1..k
      BY <1>5
    <3> QED BY <3>1, <3>2
  <2> QED BY <1>6, <2>1, <2>2
<1>13. g \in [I -> J]
  BY <1>10
<1> HIDE DEF g
<1>14. g \in Bijection(I, J)
  BY <1>11, <1>12, <1>13 DEF Bijection, Injection, Surjection, IsInjective
<1>15. IsFiniteSet(J) /\ Cardinality(J) = Cardinality(I)
  BY <1>9, <1>14, FS_Bijection DEF ExistsBijection
<1>16. found = <<>> <=> J = {}
  BY <1>9, <1>10, <1>12
<1>17. ASSUME Cardinality(J) = 1
       PROVE  \E j \in J : /\ J = {j} /\ found[1] \in Contribution(w[j])
                           /\ found[1].cls = cls /\ found[1].name = name
  <2>1. PICK j : J = {j}
    BY <1>15, <1>17, FS_Singleton
  <2>2. found[1] = d[Place(I, 1)] /\ Place(I, 1) \in I
    <3>1. Cardinality(I) = 1
      BY <1>15, <1>17
    <3>2. 1 \in 1..Cardinality(I)
      BY <3>1, One
    <3> HIDE DEF J
    <3> QED BY <1>9, <3>2
  <2>3. from[Place(I, 1)] = j
    BY <1>10, <2>1, <2>2
  <2> QED BY <1>4, <1>10, <2>1, <2>2, <2>3
<1> QED BY <1>9, <1>15, <1>16, <1>17 DEF J, found
-------------------------------------------------------------------------------
(* Look-ups and entries *)

LEMMA Category ==
  ASSUME NEW s, IsSequence(s), NEW cls
  PROVE  /\ IsSequence(in_category(s, cls))
         /\ Range(in_category(s, cls)) = {x \in Range(s) : x.cls = cls}
<1> DEFINE I == {i \in DOMAIN s : s[i].cls = cls}
<1>1. in_category(s, cls) = Pick(s, I)
  BY DEF in_category
<1>2. {s[i] : i \in I} = {x \in Range(s) : x.cls = cls}
  BY SequenceParts
<1>3. I \in SUBSET DOMAIN s
  OBVIOUS
<1> HIDE DEF I
<1> QED BY <1>1, <1>2, <1>3, Picking

(* The names that are made of a class's name.                                  *)
LEMMA MakeNames ==
  ASSUME NEW name \in ClassNames
  PROVE  /\ make_name(name).scope = name.scope /\ header_name(name).scope = name.scope
         /\ Operator(make_name(name)) <=> Operator(name)
<1> DEFINE rest == IF Len(name.bits) = 1 THEN <<"">> ELSE Tail(name.bits)
           two == <<name.bits[1], "make">>
<1>1. name = [scope |-> name.scope, bits |-> name.bits, ext |-> name.ext]
      /\ name.bits \in Seq(STRING) \ {<<>>}
  BY DEF ClassNames
<1>2. IsSequence(two) /\ 1 \in 1..Len(two) /\ two[1] = name.bits[1]
  <2>1. two \in Seq({name.bits[1], "make"})
    OBVIOUS
  <2>2. Len(two) = 2
    OBVIOUS
  <2>3. two[1] = name.bits[1]
    OBVIOUS
  <2> HIDE DEF two
  <2>4. IsSequence(two)
    BY <2>1, SeqOfRange DEF IsSequence
  <2> QED BY <2>2, <2>3, <2>4
<1>3. IsSequence(rest)
  <2>1. IsSequence(name.bits) /\ name.bits # <<>>
    BY <1>1, SeqOfRange DEF IsSequence
  <2> QED BY <2>1, FirstAndRest, EmptyAndSingle
<1>4. (two \o rest)[1] = name.bits[1]
  <2> HIDE DEF two, rest
  <2> QED BY <1>2, <1>3, Concatenation
<1>5. make_name(name) = [name EXCEPT !.bits = two \o rest]
  BY DEF make_name
<1> HIDE DEF two, rest
<1>6. make_name(name).scope = name.scope /\ make_name(name).bits = two \o rest
  BY <1>1, <1>5
<1>7. header_name(name).scope = name.scope
  BY <1>1 DEF header_name
<1> QED BY <1>4, <1>6, <1>7 DEF Operator

(* The members that are kept of a class and name.                              *)
KeptOf(c, cls, name) ==
    {i \in FirstOfName(c) : get_cls(members(c)[i].kind) = cls /\ members(c)[i].name = name}

(* A look-up among the members of a compound, for functions or for friends.    *)
LEMMA MemberPlaces ==
  ASSUME NEW c, Listed(c), NEW name, Unscoped(name), NEW cls
  PROVE  LET found == Candidates(Mems(c), name, cls)
             F == KeptOf(c, cls, name)
         IN  /\ F = {} => found = <<>> /\ Len(found) = 0
             /\ F # {} => /\ found # <<>> /\ Len(found) = 1
                          /\ \E i \in F : found[1] = Described(members(c)[i])
<1> DEFINE I == {p \in DOMAIN Mems(c) : Mems(c)[p].cls = cls /\ Mems(c)[p].name = name}
           found == Candidates(Mems(c), name, cls)
           F == KeptOf(c, cls, name)
<1>1. found = Pick(Mems(c), I)
  BY DEF Candidates, Unscoped
<1>2. IsSequence(Mems(c)) /\ DOMAIN Mems(c) = 1..Len(Mems(c)) /\ Len(Mems(c)) \in Nat
  BY Kept, SequenceParts
<1>3. I \in SUBSET DOMAIN Mems(c)
  OBVIOUS
<1>4. ASSUME NEW i \in FirstOfName(c)
      PROVE  /\ Described(members(c)[i]).name = members(c)[i].name
             /\ Described(members(c)[i]).cls = get_cls(members(c)[i].kind)
  BY DEF Described
<1>5. ASSUME NEW p \in I PROVE \E i \in F : Mems(c)[p] = Described(members(c)[i])
  <2>1. PICK i \in FirstOfName(c) : Mems(c)[p] = Described(members(c)[i])
    BY <1>2, Kept
  <2>2. get_cls(members(c)[i].kind) = cls /\ members(c)[i].name = name
    BY <1>4, <2>1
  <2> QED BY <2>1, <2>2 DEF KeptOf
<1>6. ASSUME NEW i \in F PROVE I # {}
  <2>1. PICK p \in 1..Len(Mems(c)) : Mems(c)[p] = Described(members(c)[i])
    BY Kept DEF KeptOf
  <2>2. Mems(c)[p].cls = cls /\ Mems(c)[p].name = name
    BY <1>4, <2>1 DEF KeptOf
  <2> QED BY <1>2, <2>2
<1>7. \A p, q \in I : p = q
  BY <1>2, Kept
<1> HIDE DEF I, F, found
<1>8. /\ IsFiniteSet(I) /\ Cardinality(I) \in Nat
      /\ Len(found) = Cardinality(I) /\ (found = <<>> <=> I = {})
      /\ \A k \in 1..Cardinality(I) :
            found[k] = Mems(c)[Place(I, k)] /\ Place(I, k) \in I
  BY <1>1, <1>2, <1>3, Picking
<1>9. ASSUME F = {} PROVE found = <<>> /\ Len(found) = 0
  BY <1>5, <1>8, <1>9, FS_EmptySet
<1>10. ASSUME F # {}
       PROVE  /\ found # <<>> /\ Len(found) = 1
              /\ \E i \in F : found[1] = Described(members(c)[i])
  <2>1. PICK p : p \in I
    BY <1>6, <1>10
  <2>2. I = {p}
    BY <1>7, <2>1
  <2>3. Cardinality(I) = 1
    BY <2>2, FS_Singleton
  <2>4. 1 \in 1..Cardinality(I)
    BY <2>3, One
  <2>5. found[1] = Mems(c)[p]
    BY <1>8, <2>2, <2>4
  <2> QED BY <1>5, <1>8, <2>1, <2>3, <2>5
<1> QED BY <1>9, <1>10 DEF F, found

(* The function of a name is found, and it is the only one.                    *)
LEMMA FunctionFound ==
  ASSUME NEW c, Listed(c), NEW name, Unscoped(name)
  PROVE  LET found == Candidates(Mems(c), name, "DoxyFunction")
             named == NamedFunctions(c, name)
         IN  /\ Len(found) = 1 <=> named # {}
             /\ named # {} => \E i : named = {i} /\ found[1] = Described(members(c)[i])
<1> DEFINE found == Candidates(Mems(c), name, "DoxyFunction")
           named == NamedFunctions(c, name)
<1>1. named = KeptOf(c, "DoxyFunction", name)
  BY Kinds DEF NamedFunctions, Functions, KeptOf
<1>2. \A i, j \in named : i = j
  BY Kept DEF NamedFunctions, Functions
<1> HIDE DEF named
<1>3. /\ named = {} => Len(found) = 0
      /\ named # {} => Len(found) = 1 /\ \E i \in named : found[1] = Described(members(c)[i])
  BY <1>1, MemberPlaces
<1> HIDE DEF found
<1>4. ASSUME named # {} PROVE \E i : named = {i} /\ found[1] = Described(members(c)[i])
  <2>1. PICK i \in named : found[1] = Described(members(c)[i])
    BY <1>3, <1>4
  <2>2. named = {i}
    BY <1>2, <2>1
  <2> QED BY <2>1, <2>2
<1> QED BY <1>3, <1>4 DEF found, named

LEMMA GivenParts ==
  ASSUME NEW params, IsSequence(params)
  PROVE  Given(params) = <<>> <=> params = <<>>
<1> DEFINE f == [i \in 1..Len(params) |-> <<params[i]>>]
<1>1. Len(params) \in Nat /\ DOMAIN params = 1..Len(params)
      /\ (params = <<>> <=> Len(params) = 0)
  BY SequenceParts
<1>2. Given(params) = <<>> \o f
  BY <1>1 DEF Given, Map
<1>3. f = [i \in 1..Len(params) |-> f[i]]
  OBVIOUS
<1> HIDE DEF f
<1>4. IsSequence(f) /\ Len(f) = Len(params) /\ Given(params) = f
  BY <1>1, <1>2, <1>3, FunctionIsSequence
<1> QED BY <1>1, <1>4, SequenceParts

(* The entry of a function is the one that is promised of it.                  *)
LEMMA FunctionMade ==
  ASSUME NEW m, IsSequence(m.params), NEW klass
  PROVE  LET f == Described(m)
         IN  make_func_entry(klass, f, combine_descriptions(f), f.params) =
                IF Operator(m.name) THEN <<>>
                ELSE <<FunctionEntry(klass, m, Combined(m), m.params)>>
<1> DEFINE f == Described(m)
<1>1. f.name = m.name /\ f.brief = m.brief /\ f.detailed = m.detailed
      /\ f.params = Given(m.params)
  BY DEF Described
<1>2. combine_descriptions(f) = Combined(m)
  BY <1>1 DEF combine_descriptions, Combined
<1> HIDE DEF f
<1>3. make_func_entry(klass, f, combine_descriptions(f), f.params) =
                IF Operator(m.name) THEN <<>>
                ELSE <<FunctionEntry(klass, m, Combined(m), m.params)>>
  BY <1>1, <1>2, GivenParts DEF make_func_entry, FunctionEntry, Entry
<1> QED BY <1>3 DEF f

(* A plain function's entry: of none of the classes, and with parameters.      *)
Plain(e) == e.klass = <<>> /\ e.params # <<>>

LEMMA Kind ==
  ASSUME NEW klass, NEW name, NEW text, NEW params
  PROVE  /\ Entry(klass, name, text, params).klass = klass
         /\ Entry(klass, name, text, params).name = name
         /\ Entry(klass, name, text, params).params = params
  BY DEF Entry

(* The entries of a class are those that are promised of it.                   *)
LEMMA ClassMade ==
  ASSUME NEW c, Listed(c), ~Operator(c.name),
         NEW k, k.name = c.name, k.members = Mems(c), NEW text
  PROVE  /\ IsSequence(make_class_entry(k, text))
         /\ Range(make_class_entry(k, text)) =
               (IF text = <<>> THEN {} ELSE {Entry(<<>>, c.name, text, <<>>)})
               \cup FunctionEntries(<<c.name>>, c, {})
         /\ \A e \in Range(make_class_entry(k, text)) : ~Plain(e)
<1> DEFINE funcs == in_category(k.members, "DoxyFunction")
           I == {i \in DOMAIN funcs : ~Operator(funcs[i].name)}
           named == Pick(funcs, I)
           Of(f) == make_func_entry(<<k.name>>, f, combine_descriptions(f), f.params)[1]
           t == [i \in 1..Len(named) |-> Of(named[i])]
           head == make_entry(k, text)
           J == {j \in Functions(c) : ~Operator(members(c)[j].name)}
           Made(j) == FunctionEntry(<<c.name>>, members(c)[j], Combined(members(c)[j]),
                                    members(c)[j].params)
<1>1. IsSequence(funcs) /\ Range(funcs) = {x \in Range(Mems(c)) : x.cls = "DoxyFunction"}
  BY Kept, Category
<1>2. I \in SUBSET DOMAIN funcs
  OBVIOUS
<1>3. IsSequence(named) /\ Range(named) = {funcs[i] : i \in I}
  <2> HIDE DEF funcs, I
  <2> QED BY <1>1, <1>2, Picking
<1>4. Range(named) = {x \in Range(funcs) : ~Operator(x.name)}
  <2>1. Range(funcs) = {funcs[i] : i \in 1..Len(funcs)} /\ DOMAIN funcs = 1..Len(funcs)
    BY <1>1, SequenceParts
  <2> HIDE DEF funcs, named
  <2> QED BY <1>3, <2>1
<1>5. DOMAIN named = 1..Len(named) /\ Len(named) \in Nat
      /\ Range(named) = {named[i] : i \in 1..Len(named)}
  BY <1>3, SequenceParts
<1>6. make_class_entry(k, text) = head \o (<<>> \o t)
  <2> HIDE DEF funcs, I
  <2> QED BY <1>5 DEF make_class_entry, Map, funcs, I
<1>7. t = [i \in 1..Len(named) |-> t[i]] /\ \A i \in 1..Len(named) : t[i] = Of(named[i])
  OBVIOUS
<1> HIDE DEF funcs, I, named, t
<1>8. IsSequence(t) /\ <<>> \o t = t /\ Range(t) = {t[i] : i \in 1..Len(named)}
  BY <1>5, <1>7, FunctionIsSequence
<1>9. Range(t) = {Of(x) : x \in Range(named)}
  <2> HIDE DEF Of
  <2> QED BY <1>5, <1>7, <1>8
<1>10. \A i \in FirstOfName(c) : Described(members(c)[i]).cls = get_cls(members(c)[i].kind)
                                 /\ Described(members(c)[i]).name = members(c)[i].name
  BY DEF Described
<1>11. Range(Mems(c)) = {Described(members(c)[i]) : i \in FirstOfName(c)}
  BY Kept, SequenceParts
<1>12. Range(named) = {Described(members(c)[i]) : i \in J}
  BY <1>1, <1>4, <1>10, <1>11, Kinds DEF Functions
<1>13. ASSUME NEW j \in J PROVE Of(Described(members(c)[j])) = Made(j)
  <2>1. IsSequence(members(c)[j].params) /\ ~Operator(members(c)[j].name)
    BY Kept DEF Listed, Functions
  <2>2. make_func_entry(<<c.name>>, Described(members(c)[j]),
                        combine_descriptions(Described(members(c)[j])),
                        Described(members(c)[j]).params) = <<Made(j)>>
    BY <2>1, FunctionMade
  <2> HIDE DEF Made, J
  <2>3. <<Made(j)>>[1] = Made(j)
    BY EmptyAndSingle
  <2> QED BY <2>2, <2>3
<1>14. Range(t) = {Made(j) : j \in J}
  <2> HIDE DEF Of, Made, J
  <2> QED BY <1>9, <1>12, <1>13
<1>15. {Made(j) : j \in J} = FunctionEntries(<<c.name>>, c, {})
  BY DEF FunctionEntries
<1>16. /\ IsSequence(head)
       /\ Range(head) = IF text = <<>> THEN {} ELSE {Entry(<<>>, c.name, text, <<>>)}
  BY EmptyAndSingle DEF make_entry
<1>17. \A e \in Range(head) : ~Plain(e)
  BY <1>16, Kind DEF Plain
<1>18. \A j \in J : ~Plain(Made(j))
  <2> SUFFICES ASSUME NEW j \in J PROVE ~Plain(Made(j))
    OBVIOUS
  <2>1. Made(j).klass = <<c.name>>
    BY Kind DEF FunctionEntry
  <2> HIDE DEF Made
  <2> QED BY <2>1, EmptyAndSingle DEF Plain
<1> HIDE DEF head, Of, Made, J
<1>19. /\ IsSequence(head \o t) /\ Range(head \o t) = Range(head) \cup Range(t)
       /\ make_class_entry(k, text) = head \o t
  BY <1>6, <1>8, <1>16, Concatenation
<1>20. \A e \in Range(head \o t) : ~Plain(e)
  BY <1>14, <1>17, <1>18, <1>19
<1> QED BY <1>14, <1>15, <1>16, <1>19, <1>20
-------------------------------------------------------------------------------
(* Blocks *)

(* A class is taken for a block if it is one.                                  *)
LEMMA BlockSeen ==
  ASSUME world \in Worlds, NEW c \in Classes
  PROVE  IsBlock(View(c)) <=> c \in BlockClasses
<1>1. Listed(c) /\ c.kind = "class" /\ c.name \in ClassNames /\ c.xml \in {"ok", "broken", "missing"}
  BY WorldParts DEF Classes
<1>2. make_name(c.name).scope = c.name.scope
  BY <1>1, MakeNames
<1>3. /\ View(c).cls = "DoxyClass" /\ View(c).name = c.name /\ (error(View(c)) <=> c.xml = "broken")
      /\ View(c).members = IF c.xml = "ok" THEN Mems(c) ELSE <<>>
  BY <1>1, Kinds DEF View, Read, error
<1>4. ASSUME NEW name PROVE ~has_member(<<>>, name, "DoxyFriend")
  <2> DEFINE s == <<>>
             I == {i \in DOMAIN s : s[i].cls = "DoxyFriend" /\ s[i].name = name}
  <2>1. IsSequence(s) /\ s = <<>> /\ DOMAIN s = {}
    BY EmptyAndSingle DEF Range
  <2>2. I = {} /\ I \in SUBSET DOMAIN s
    BY <2>1
  <2>3. Candidates(s, name, "DoxyFriend") = IF name.scope # "" THEN <<>> ELSE Pick(s, I)
    BY DEF Candidates, Unscoped
  <2> HIDE DEF s, I
  <2>4. Pick(s, I) = <<>>
    BY <2>1, <2>2, Picking
  <2>5. ~has_member(s, name, "DoxyFriend")
    BY <2>3, <2>4 DEF has_member
  <2> QED BY <2>5 DEF s
<1>5. IsBlock(View(c)) <=> c.xml # "broken" /\ has_member(View(c).members, make_name(c.name), "DoxyFriend")
  BY <1>3 DEF IsBlock
<1>6. c \in BlockClasses <=>
        /\ c.xml = "ok" /\ c.name.scope = ""
        /\ \E i \in FirstOfName(c) : members(c)[i].kind = "friend"
                                     /\ members(c)[i].name = make_name(c.name)
  BY DEF BlockClasses
<1>7. CASE c.xml # "ok"
  <2>1. View(c).members = <<>>
    BY <1>3, <1>7
  <2> QED BY <1>4, <1>5, <1>6, <1>7, <2>1
<1>8. CASE c.xml = "ok" /\ c.name.scope # ""
  BY <1>2, <1>5, <1>6, <1>8 DEF has_member, Candidates
<1>9. CASE c.xml = "ok" /\ c.name.scope = ""
  <2> DEFINE F == KeptOf(c, "DoxyFriend", make_name(c.name))
  <2>1. Unscoped(make_name(c.name))
    BY <1>2, <1>9 DEF Unscoped
  <2>2. F = {i \in FirstOfName(c) : members(c)[i].kind = "friend"
                                    /\ members(c)[i].name = make_name(c.name)}
    BY Kinds DEF KeptOf
  <2>3. Candidates(Mems(c), make_name(c.name), "DoxyFriend") # <<>> <=> F # {}
    BY <1>1, <2>1, MemberPlaces
  <2> HIDE DEF F
  <2> QED BY <1>3, <1>5, <1>6, <1>9, <2>2, <2>3 DEF has_member
<1> QED BY <1>7, <1>8, <1>9

(* The index is that of the whole source tree, whose headers are in order.     *)
Complete ==
    /\ world \in Worlds
    /\ Indexed(world, di, Len(world))
    /\ \A j \in 1..Len(world) : Header(world[j]) => world[j].xml = "ok"

LEMMA Lookups ==
  ASSUME Complete, NEW c \in BlockClasses
  PROVE  LET b == View(c)
             creator == NamedFunctions(c, c.name)
         IN  /\ Len(MakeFuncs(b)) = Cardinality(MakersOf(c))
             /\ Len(Headers(b)) = Cardinality(HeadersOf(c)) /\ Cardinality(HeadersOf(c)) \in Nat
             /\ Headers(b) = <<>> <=> HeadersOf(c) = {}
             /\ HeadersOf(c) = {} <=> Cardinality(HeadersOf(c)) = 0
             /\ Cardinality(HeadersOf(c)) = 1 =>
                  \E h \in HeaderFiles : HeadersOf(c) = {h} /\ Headers(b)[1] = View(world[h])
             /\ Cardinality(MakersOf(c)) = 1 =>
                  \E h \in HeaderFiles : \E i :
                     /\ MakersOf(c) = {h} /\ NamedFunctions(world[h], make_name(c.name)) = {i}
                     /\ MakeFuncs(b)[1] = Described(members(world[h])[i])
             /\ Len(Creators(b)) = 1 <=> creator # {}
             /\ creator # {} =>
                  \E i : creator = {i} /\ Creators(b)[1] = Described(members(c)[i])
<1> DEFINE n == Len(world)
           b == View(c)
           make == make_name(c.name)
           head == header_name(c.name)
<1>1. c \in Classes /\ c.xml = "ok" /\ c.name.scope = ""
  BY DEF BlockClasses
<1>2. /\ Listed(c) /\ c.name \in ClassNames
      /\ n \in Nat /\ DOMAIN world = 1..n
      /\ \A i \in 1..n : Listed(world[i]) /\ world[i].kind \notin {"function", "friend"}
  <2>1. world \in Worlds /\ c \in Range(world) /\ c.kind = "class"
    BY <1>1 DEF Classes, Complete
  <2>2. Listed(c) /\ c.name \in ClassNames
    BY <2>1, WorldParts
  <2>3. n \in Nat /\ DOMAIN world = 1..n
    BY <2>1, WorldParts
  <2>4. \A i \in 1..n : Listed(world[i]) /\ world[i].kind \notin {"function", "friend"}
    BY <2>1, WorldParts
  <2> QED BY <2>2, <2>3, <2>4
<1>3. Unscoped(make) /\ Unscoped(head) /\ Unscoped(c.name)
  BY <1>1, <1>2, MakeNames DEF Unscoped
<1>4. b.name = c.name /\ b.members = Mems(c)
  BY <1>1 DEF View, Read, Classes
<1>5. HeaderFiles = {i \in 1..n : Header(world[i])}
  BY <1>2 DEF HeaderFiles, Header
<1> DEFINE M == Sources(world, n, "DoxyFunction", make)
           H == Sources(world, n, "DoxyFile", head)
<1>6. ASSUME NEW x, NEW i, NEW d, x = Described(members(d)[i])
      PROVE  x.name = members(d)[i].name /\ x.cls = get_cls(members(d)[i].kind)
  BY <1>6 DEF Described
<1>7. ASSUME NEW j \in 1..n, NEW x \in Contribution(world[j]),
             x.cls = "DoxyFunction", x.name = make
      PROVE  /\ j \in MakersOf(c)
             /\ \E i \in NamedFunctions(world[j], make) : x = Described(members(world[j])[i])
  <2>1. Header(world[j]) /\ \E i \in Functions(world[j]) : x = Described(members(world[j])[i])
    BY <1>2, <1>7, ByClass
  <2>2. PICK i \in Functions(world[j]) : x = Described(members(world[j])[i])
    BY <2>1
  <2>3. i \in NamedFunctions(world[j], make)
    BY <1>6, <1>7, <2>2 DEF NamedFunctions
  <2> QED BY <1>5, <2>1, <2>2, <2>3 DEF MakersOf
<1>8. ASSUME NEW h \in MakersOf(c) PROVE h \in M
  <2>1. h \in 1..n /\ Header(world[h]) /\ NamedFunctions(world[h], make) # {}
    BY <1>5 DEF MakersOf
  <2>2. PICK i \in Functions(world[h]) : members(world[h])[i].name = make
    BY <2>1 DEF NamedFunctions
  <2> DEFINE x == Described(members(world[h])[i])
  <2>3. x \in Contribution(world[h])
    BY <1>2, <2>1, ToFind
  <2>4. x.name = make /\ x.cls = "DoxyFunction"
    BY <1>6, <2>2, Kinds DEF Functions
  <2> HIDE DEF x
  <2> QED BY <2>1, <2>3, <2>4 DEF Sources
<1>9. M = MakersOf(c)
  BY <1>7, <1>8 DEF Sources
<1>10. ASSUME NEW j \in 1..n, NEW x \in Contribution(world[j]), x.cls = "DoxyFile", x.name = head
       PROVE  j \in HeadersOf(c) /\ x = View(world[j])
  <2>1. Header(world[j]) /\ x = View(world[j])
    BY <1>2, <1>10, ByClass
  <2> QED BY <1>5, <1>10, <2>1 DEF HeadersOf, View
<1>11. ASSUME NEW h \in HeadersOf(c) PROVE h \in H
  <2>1. h \in 1..n /\ Header(world[h]) /\ world[h].name = head
    BY <1>5 DEF HeadersOf
  <2>2. View(world[h]) \in Contribution(world[h])
    BY <1>2, <2>1, ToFind
  <2>3. View(world[h]).name = head /\ View(world[h]).cls = "DoxyFile"
    BY <2>1, Kinds DEF View, Header
  <2> QED BY <2>1, <2>2, <2>3 DEF Sources
<1>12. H = HeadersOf(c)
  BY <1>10, <1>11 DEF Sources
<1>13. \A d : Listed(d) =>
          \A name : \A i, j \in NamedFunctions(d, name) : i = j
  BY Kept DEF NamedFunctions, Functions
<1>14. MakeFuncs(b) = Candidates(di, make, "DoxyFunction")
       /\ Headers(b) = Candidates(di, head, "DoxyFile")
       /\ Creators(b) = Candidates(Mems(c), c.name, "DoxyFunction")
  BY <1>4 DEF MakeFuncs, Headers, Creators
<1>15. Indexed(world, di, n)
  BY DEF Complete
<1> HIDE DEF n, b, make, head
<1>16. /\ Len(MakeFuncs(b)) = Cardinality(M)
       /\ Cardinality(M) = 1 =>
            \E j \in M : /\ M = {j} /\ MakeFuncs(b)[1] \in Contribution(world[j])
                         /\ MakeFuncs(b)[1].cls = "DoxyFunction" /\ MakeFuncs(b)[1].name = make
  BY <1>2, <1>3, <1>14, <1>15, Found
<1>17. /\ Len(Headers(b)) = Cardinality(H) /\ Cardinality(H) \in Nat /\ IsFiniteSet(H)
       /\ Headers(b) = <<>> <=> H = {}
       /\ Cardinality(H) = 1 =>
            \E j \in H : /\ H = {j} /\ Headers(b)[1] \in Contribution(world[j])
                         /\ Headers(b)[1].cls = "DoxyFile" /\ Headers(b)[1].name = head
  <2> DEFINE found == Candidates(di, head, "DoxyFile")
  <2>1. /\ Len(found) = Cardinality(H) /\ Cardinality(H) \in Nat /\ IsFiniteSet(H)
        /\ found = <<>> <=> H = {}
    BY <1>2, <1>3, <1>15, Found DEF H
  <2>2. Cardinality(H) = 1 =>
            \E j \in H : /\ H = {j} /\ found[1] \in Contribution(world[j])
                         /\ found[1].cls = "DoxyFile" /\ found[1].name = head
    BY <1>2, <1>3, <1>15, Found DEF H
  <2>3. found = Headers(b)
    BY <1>14
  <2> HIDE DEF found
  <2> QED BY <2>1, <2>2, <2>3
<1>18. \A j \in M : j \in 1..n
  BY DEF Sources
<1>19. \A j \in H : j \in 1..n
  BY DEF Sources
<1> HIDE DEF M, H
<1>20. ASSUME Cardinality(MakersOf(c)) = 1
       PROVE  \E h \in HeaderFiles : \E i :
                  /\ MakersOf(c) = {h} /\ NamedFunctions(world[h], make) = {i}
                  /\ MakeFuncs(b)[1] = Described(members(world[h])[i])
  <2>1. PICK h \in M : /\ M = {h} /\ MakeFuncs(b)[1] \in Contribution(world[h])
                       /\ MakeFuncs(b)[1].cls = "DoxyFunction" /\ MakeFuncs(b)[1].name = make
    BY <1>9, <1>16, <1>20
  <2>2. h \in 1..n /\ h \in HeaderFiles
    BY <1>9, <1>18, <2>1 DEF MakersOf
  <2>3. PICK i \in NamedFunctions(world[h], make) :
           MakeFuncs(b)[1] = Described(members(world[h])[i])
    BY <1>7, <2>1, <2>2
  <2>4. NamedFunctions(world[h], make) = {i}
    BY <1>2, <1>13, <2>2, <2>3
  <2> QED BY <1>9, <2>1, <2>2, <2>3, <2>4
<1>21. ASSUME Cardinality(HeadersOf(c)) = 1
       PROVE  \E h \in HeaderFiles : HeadersOf(c) = {h} /\ Headers(b)[1] = View(world[h])
  <2>1. PICK h \in H : /\ H = {h} /\ Headers(b)[1] \in Contribution(world[h])
                       /\ Headers(b)[1].cls = "DoxyFile" /\ Headers(b)[1].name = head
    BY <1>12, <1>17, <1>21
  <2>2. h \in 1..n /\ h \in HeaderFiles
    BY <1>12, <1>19, <2>1 DEF HeadersOf
  <2> QED BY <1>10, <1>12, <2>1, <2>2
<1>22. HeadersOf(c) = {} <=> Cardinality(HeadersOf(c)) = 0
  BY <1>12, <1>17, FS_EmptySet
<1> DEFINE creator == NamedFunctions(c, c.name)
<1>23. /\ Len(Creators(b)) = 1 <=> creator # {}
       /\ creator # {} => \E i : creator = {i} /\ Creators(b)[1] = Described(members(c)[i])
  BY <1>2, <1>3, <1>14, FunctionFound
<1> HIDE DEF creator
<1> QED BY <1>9, <1>12, <1>16, <1>17, <1>20, <1>21, <1>22, <1>23 DEF b, make, creator
(* A block that can be documented, which the script looks up.                  *)
Usable(c) ==
    /\ Cardinality(MakersOf(c)) = 1
    /\ Cardinality(HeadersOf(c)) <= 1
    /\ NamedFunctions(c, c.name) # {}

(* The descriptions of a compound that is read.                                *)
LEMMA CombinedView ==
  ASSUME NEW c, Read(c)
  PROVE  combine_descriptions(View(c)) = Combined(c)
<1>1. View(c).brief = c.brief /\ View(c).detailed = c.detailed
  BY DEF View
<1> QED BY <1>1 DEF combine_descriptions, Combined

(* The entries of a block are those that are promised of it, and the only      *)
(* plain function among them is the make function of its name.                 *)
LEMMA BlockMade ==
  ASSUME Complete, NEW c \in BlockClasses, Usable(c)
  PROVE  LET b == View(c)
         IN  /\ MakeFuncs(b)[1].name = make_name(c.name)
             /\ IsSequence(make_block_entry(b))
             /\ Range(make_block_entry(b)) = ClassEntries(c) \cup {MakeEntry(c)}
             /\ \A p, q \in 1..Len(make_block_entry(b)) :
                   (Plain(make_block_entry(b)[p]) /\ Plain(make_block_entry(b)[q])) => p = q
             /\ \A p \in 1..Len(make_block_entry(b)) :
                   Plain(make_block_entry(b)[p]) =>
                      make_block_entry(b)[p].name = make_name(c.name)
<1> DEFINE b == View(c)
           make == make_name(c.name)
           super == SuperText(c)
           class == make_class_entry(b, super)
           func == make_func_entry(<<>>, MakeFuncs(b)[1], super, Creators(b)[1].params)
<1>1. c \in Classes /\ c.xml = "ok" /\ Read(c)
  BY DEF BlockClasses, Classes, Read
<1>2. Listed(c) /\ c.name \in ClassNames /\ ~Operator(c.name)
  <2>1. world \in Worlds /\ c \in Range(world) /\ c.kind = "class"
    BY <1>1 DEF Classes, Complete
  <2> QED BY <2>1, WorldParts
<1>3. PICK h \in HeaderFiles : \E i :
         /\ MakersOf(c) = {h} /\ NamedFunctions(world[h], make) = {i}
         /\ MakeFuncs(b)[1] = Described(members(world[h])[i])
  BY Lookups DEF Usable
<1>4. PICK i : /\ MakersOf(c) = {h} /\ NamedFunctions(world[h], make) = {i}
               /\ MakeFuncs(b)[1] = Described(members(world[h])[i])
  BY <1>3
<1>5. PICK j : NamedFunctions(c, c.name) = {j} /\ Creators(b)[1] = Described(members(c)[j])
  BY Lookups DEF Usable
<1>6. /\ The(MakersOf(c)) = h /\ The(NamedFunctions(world[h], make)) = i
      /\ The(NamedFunctions(c, c.name)) = j
  BY <1>4, <1>5 DEF The
<1>7. /\ combine_descriptions(b) = Combined(c)
      /\ combine_descriptions(MakeFuncs(b)[1]) = Combined(members(world[h])[i])
  <2>1. combine_descriptions(b) = Combined(c)
    BY <1>1, CombinedView
  <2> DEFINE f == Described(members(world[h])[i])
  <2>2. f.brief = members(world[h])[i].brief /\ f.detailed = members(world[h])[i].detailed
    BY DEF Described
  <2> HIDE DEF f
  <2>3. combine_descriptions(f) = Combined(members(world[h])[i])
    BY <2>2 DEF combine_descriptions, Combined
  <2> QED BY <1>4, <2>1, <2>3 DEF f
<1>8. MakeFuncs(b)[1].name = make
  <2>1. members(world[h])[i].name = make
    BY <1>4 DEF NamedFunctions
  <2> QED BY <1>4, <2>1 DEF Described
<1>9. Creators(b)[1].params = Given(members(c)[j].params)
  BY <1>5 DEF Described
<1> DEFINE text == Joined(Combined(c), Combined(members(world[h])[i]))
           header == IF Headers(b) = <<>> THEN <<>> ELSE combine_descriptions(Headers(b)[1])
<1>10. super = IF HeadersOf(c) = {} THEN text
               ELSE Joined(text, Combined(world[The(HeadersOf(c))]))
  BY <1>6 DEF SuperText
<1>11. Joined(text, header) = super
  <2>1. CASE HeadersOf(c) = {}
    <3>1. Headers(b) = <<>>
      BY <2>1, Lookups
    <3>2. Joined(text, <<>>) = text
      BY DEF Joined
    <3> HIDE DEF text, super
    <3> QED BY <1>10, <2>1, <3>1, <3>2
  <2>2. CASE HeadersOf(c) # {}
    <3>1. Headers(b) # <<>> /\ Cardinality(HeadersOf(c)) = 1
      BY <2>2, Lookups DEF Usable
    <3>2. PICK g \in HeaderFiles : HeadersOf(c) = {g} /\ Headers(b)[1] = View(world[g])
      BY <3>1, Lookups
    <3>3. The(HeadersOf(c)) = g
      BY <3>2 DEF The
    <3>4. Read(world[g])
      <4>1. world \in Worlds /\ g \in DOMAIN world /\ Header(world[g])
        BY DEF HeaderFiles, Complete, Header
      <4>2. g \in 1..Len(world)
        BY <4>1, WorldParts
      <4> QED BY <4>1, <4>2 DEF Read, Complete, Header
    <3>5. header = Combined(world[g])
      <4>1. combine_descriptions(View(world[g])) = Combined(world[g])
        BY <3>4, CombinedView
      <4> QED BY <3>1, <3>2, <4>1
    <3> HIDE DEF text, header, super
    <3> QED BY <1>10, <2>2, <3>3, <3>5
  <2> QED BY <2>1, <2>2
<1>12. make_block_entry(b) = class \o func
  <2> HIDE DEF super
  <2> QED BY <1>7, <1>11 DEF make_block_entry, text, header
<1> DEFINE me == FunctionEntry(<<>>, [name |-> make], super, members(c)[j].params)
<1>13. me = MakeEntry(c)
  BY <1>6 DEF MakeEntry
<1>14. func = <<me>>
  <2>1. ~Operator(make)
    BY <1>2, MakeNames
  <2>2. IsSequence(members(c)[j].params)
    <3>1. j \in FirstOfName(c)
      BY <1>5 DEF NamedFunctions, Functions
    <3> QED BY <1>2, <3>1, Kept DEF Listed
  <2>3. me = Entry(<<>>, make, super,
                   IF members(c)[j].params = <<>> THEN <<None>>
                   ELSE Given(members(c)[j].params))
    BY DEF FunctionEntry
  <2> HIDE DEF super, make, me
  <2> QED BY <1>8, <1>9, <2>1, <2>2, <2>3, GivenParts DEF make_func_entry
<1>15. me.name = make
  BY Kind DEF FunctionEntry
<1>16. /\ IsSequence(class)
       /\ Range(class) = (IF super = <<>> THEN {} ELSE {Entry(<<>>, c.name, super, <<>>)})
                         \cup FunctionEntries(<<c.name>>, c, {})
       /\ \A e \in Range(class) : ~Plain(e)
  <2>1. b.name = c.name /\ b.members = Mems(c)
    BY <1>1 DEF View
  <2> HIDE DEF b, super
  <2> QED BY <1>2, <2>1, ClassMade
<1>17. Range(class) = ClassEntries(c)
  BY <1>16 DEF ClassEntries
<1> HIDE DEF class, func, me
<1>18. IsSequence(func) /\ Len(func) = 1 /\ func[1] = me /\ Range(func) = {me}
  BY <1>14, EmptyAndSingle
<1>19. /\ IsSequence(class \o func) /\ Len(class \o func) = Len(class) + 1
       /\ Range(class \o func) = Range(class) \cup {me}
       /\ \A p \in 1..Len(class) : (class \o func)[p] = class[p]
       /\ (class \o func)[Len(class) + 1] = me
  <2>1. /\ IsSequence(class \o func) /\ Len(class \o func) = Len(class) + Len(func)
        /\ Range(class \o func) = Range(class) \cup Range(func)
        /\ \A p \in 1..Len(class) : (class \o func)[p] = class[p]
        /\ \A p \in 1..Len(func) : (class \o func)[Len(class) + p] = func[p]
    BY <1>16, <1>18, Concatenation
  <2>2. 1 \in 1..Len(func)
    BY <1>18, One
  <2>3. (class \o func)[Len(class) + 1] = func[1]
    BY <2>1, <2>2
  <2> QED BY <1>18, <2>1, <2>3
<1>20. ASSUME NEW p \in 1..Len(class \o func), Plain((class \o func)[p])
       PROVE  p = Len(class) + 1 /\ (class \o func)[p] = me
  <2>1. Len(class) \in Nat /\ Range(class) = {class[r] : r \in 1..Len(class)}
    BY <1>16, SequenceParts
  <2>2. p \notin 1..Len(class)
    BY <1>16, <1>19, <1>20, <2>1
  <2> QED BY <1>19, <2>1, <2>2
<1> HIDE DEF b, make, super
<1>21. /\ MakeFuncs(b)[1].name = make
       /\ IsSequence(make_block_entry(b))
       /\ Range(make_block_entry(b)) = ClassEntries(c) \cup {MakeEntry(c)}
  BY <1>8, <1>12, <1>13, <1>17, <1>19
<1>22. /\ \A p, q \in 1..Len(make_block_entry(b)) :
            (Plain(make_block_entry(b)[p]) /\ Plain(make_block_entry(b)[q])) => p = q
       /\ \A p \in 1..Len(make_block_entry(b)) :
            Plain(make_block_entry(b)[p]) => make_block_entry(b)[p].name = make
  <2> DEFINE entry == class \o func
  <2>1. \A p \in 1..Len(entry) : Plain(entry[p]) => p = Len(class) + 1 /\ entry[p].name = make
    BY <1>15, <1>20
  <2>2. make_block_entry(b) = entry
    BY <1>12
  <2> HIDE DEF entry
  <2> QED BY <2>1, <2>2
<1> QED BY <1>21, <1>22 DEF b, make
-------------------------------------------------------------------------------
(* What the whole index holds *)

LEMMA WorldNames ==
  ASSUME world \in Worlds
  PROVE  /\ HeaderFiles = {i \in 1..Len(world) : Header(world[i])}
         /\ \A c \in Classes : /\ c.kind = "class" /\ Listed(c) /\ c.name \in ClassNames
                               /\ ~Operator(c.name) /\ c.xml \in {"ok", "broken", "missing"}
         /\ \A c, d \in Classes : c.name = d.name => c = d
         /\ \A c, d \in Classes : make_name(c.name) = make_name(d.name) => c = d
         /\ \A c \in Classes : \E j \in 1..Len(world) : c = world[j]
<1>1. DOMAIN world = 1..Len(world)
  BY WorldParts
<1>2. ASSUME NEW c \in Classes
      PROVE  \E j \in 1..Len(world) : c = world[j] /\ world[j].kind = "class"
  <2>1. c \in Range(world) /\ c.kind = "class"
    BY DEF Classes
  <2>2. PICK j \in 1..Len(world) : c = world[j]
    BY <2>1, WorldParts
  <2> QED BY <2>1, <2>2
<1>3. HeaderFiles = {i \in 1..Len(world) : Header(world[i])}
  BY <1>1 DEF HeaderFiles, Header
<1>4. \A c \in Classes : /\ c.kind = "class" /\ Listed(c) /\ c.name \in ClassNames
                         /\ ~Operator(c.name) /\ c.xml \in {"ok", "broken", "missing"}
  BY <1>2, WorldParts
<1>5. \A i, j \in 1..Len(world) :
         (i # j /\ world[i].kind = "class" /\ world[j].kind = "class") =>
            world[i].name # world[j].name /\ make_name(world[i].name) # make_name(world[j].name)
  BY WorldParts
<1>6. ASSUME NEW c \in Classes, NEW d \in Classes, c # d
      PROVE  c.name # d.name /\ make_name(c.name) # make_name(d.name)
  <2>1. PICK i \in 1..Len(world) : c = world[i] /\ world[i].kind = "class"
    BY <1>2
  <2>2. PICK j \in 1..Len(world) : d = world[j] /\ world[j].kind = "class"
    BY <1>2
  <2>3. i # j
    BY <1>6, <2>1, <2>2
  <2> QED BY <1>5, <2>1, <2>2, <2>3
<1> QED BY <1>2, <1>3, <1>4, <1>6

LEMMA IndexedClasses ==
  ASSUME Complete
  PROVE  /\ IsSequence(di)
         /\ \A x \in Range(di) : x.cls = "DoxyClass" => \E c \in Classes : x = View(c)
         /\ \A c \in Classes : View(c) \in Range(di) /\ View(c).cls = "DoxyClass"
                               /\ View(c).name = c.name /\ View(c).xml = c.xml
         /\ \A p, q \in 1..Len(di) :
               (di[p].cls = "DoxyClass" /\ di[q].cls = "DoxyClass" /\ di[p].name = di[q].name)
                  => p = q
<1>1. world \in Worlds /\ IsSequence(di)
  BY DEF Complete, Indexed
<1>2. PICK from : FromTo(world, di, Len(world), from)
  BY DEF Complete, Indexed
<1>3. \A i \in 1..Len(world) : /\ Listed(world[i]) /\ world[i].kind \notin {"function", "friend"}
                               /\ world[i] \in Range(world)
  BY <1>1, WorldParts
<1>4. ASSUME NEW p \in 1..Len(di), di[p].cls = "DoxyClass"
      PROVE  from[p] \in 1..Len(world) /\ world[from[p]] \in Classes
             /\ di[p] = View(world[from[p]])
  <2>1. from[p] \in 1..Len(world) /\ di[p] \in Contribution(world[from[p]])
    BY <1>2 DEF FromTo
  <2>2. world[from[p]].kind = "class" /\ di[p] = View(world[from[p]])
    BY <1>3, <1>4, <2>1, ByClass
  <2> QED BY <1>3, <2>1, <2>2 DEF Classes
<1>5. Range(di) = {di[p] : p \in 1..Len(di)}
  BY <1>1, SequenceParts
<1>6. \A x \in Range(di) : x.cls = "DoxyClass" => \E c \in Classes : x = View(c)
  BY <1>4, <1>5
<1>7. ASSUME NEW c \in Classes
      PROVE  View(c) \in Range(di) /\ View(c).cls = "DoxyClass"
             /\ View(c).name = c.name /\ View(c).xml = c.xml
  <2>1. PICK j \in 1..Len(world) : c = world[j]
    BY <1>1, WorldNames
  <2>2. View(c) \in Contribution(world[j])
    BY <1>3, <2>1, ToFind DEF Classes
  <2>3. \A i \in 1..Len(world) : \A x \in Contribution(world[i]) :
            \E p \in 1..Len(di) : from[p] = i /\ di[p] = x
    BY <1>2 DEF FromTo
  <2>4. View(c) \in Range(di)
    BY <1>5, <2>2, <2>3
  <2> QED BY <2>4, Kinds DEF View, Classes
<1>8. ASSUME NEW p \in 1..Len(di), NEW q \in 1..Len(di),
             di[p].cls = "DoxyClass", di[q].cls = "DoxyClass", di[p].name = di[q].name
      PROVE  p = q
  <2>1. /\ world[from[p]] \in Classes /\ di[p] = View(world[from[p]])
        /\ world[from[q]] \in Classes /\ di[q] = View(world[from[q]])
        /\ from[p] \in 1..Len(world) /\ from[q] \in 1..Len(world)
    BY <1>4, <1>8
  <2>2. world[from[p]].name = world[from[q]].name
    BY <1>7, <1>8, <2>1
  <2>3. from[p] = from[q]
    <3>1. \A i, j \in 1..Len(world) :
             (i # j /\ world[i].kind = "class" /\ world[j].kind = "class") =>
                 world[i].name # world[j].name
      BY <1>1, WorldParts
    <3> QED BY <2>1, <2>2, <3>1 DEF Classes
  <2>4. \A r, s \in 1..Len(di) :
           (from[r] = from[s] /\ di[r].cls = di[s].cls /\ di[r].name = di[s].name) => r = s
    BY <1>2 DEF FromTo
  <2> QED BY <1>8, <2>3, <2>4
<1> QED BY <1>1, <1>6, <1>7, <1>8

(* The functions of the index are those of the headers.                        *)
LEMMA IndexedFunctions ==
  ASSUME Complete
  PROVE  {x \in Range(di) : x.cls = "DoxyFunction"} =
            UNION {{Described(members(world[h])[i]) : i \in Functions(world[h])} : h \in HeaderFiles}
<1>1. world \in Worlds /\ IsSequence(di)
  BY DEF Complete, Indexed
<1>2. PICK from : FromTo(world, di, Len(world), from)
  BY DEF Complete, Indexed
<1>3. \A i \in 1..Len(world) : Listed(world[i]) /\ world[i].kind \notin {"function", "friend"}
  BY <1>1, WorldParts
<1>4. Range(di) = {di[p] : p \in 1..Len(di)}
  BY <1>1, SequenceParts
<1>5. HeaderFiles = {i \in 1..Len(world) : Header(world[i])}
  BY <1>1, WorldNames
<1>6. ASSUME NEW x \in Range(di), x.cls = "DoxyFunction"
      PROVE  \E h \in HeaderFiles : \E i \in Functions(world[h]) : x = Described(members(world[h])[i])
  <2>1. PICK p \in 1..Len(di) : x = di[p]
    BY <1>4
  <2>2. from[p] \in 1..Len(world) /\ x \in Contribution(world[from[p]])
    BY <1>2, <2>1 DEF FromTo
  <2>3. Header(world[from[p]])
        /\ \E i \in Functions(world[from[p]]) : x = Described(members(world[from[p]])[i])
    BY <1>3, <1>6, <2>2, ByClass
  <2> QED BY <1>5, <2>2, <2>3
<1>7. ASSUME NEW h \in HeaderFiles, NEW i \in Functions(world[h])
      PROVE  /\ Described(members(world[h])[i]) \in Range(di)
             /\ Described(members(world[h])[i]).cls = "DoxyFunction"
  <2>1. h \in 1..Len(world) /\ Header(world[h])
    BY <1>5
  <2>2. Described(members(world[h])[i]) \in Contribution(world[h])
    BY <1>3, <2>1, ToFind
  <2>3. \A j \in 1..Len(world) : \A x \in Contribution(world[j]) :
            \E p \in 1..Len(di) : from[p] = j /\ di[p] = x
    BY <1>2 DEF FromTo
  <2>4. Described(members(world[h])[i]) \in Range(di)
    BY <1>4, <2>1, <2>2, <2>3
  <2>5. members(world[h])[i].kind = "function"
    BY DEF Functions
  <2>6. Described(members(world[h])[i]).cls = get_cls(members(world[h])[i].kind)
    BY DEF Described
  <2> QED BY <2>4, <2>5, <2>6, Kinds
<1> QED BY <1>6, <1>7

(* The blocks: each of them once, and none but those.                          *)
BlockList == Pick(di, {i \in DOMAIN di : IsBlock(di[i])})

LEMMA BlocksListed ==
  ASSUME Complete
  PROVE  /\ IsSequence(BlockList) /\ Range(BlockList) \subseteq Range(di)
         /\ \A i \in 1..Len(BlockList) : \E c \in BlockClasses : BlockList[i] = View(c)
         /\ \A c \in BlockClasses : \E i \in 1..Len(BlockList) : BlockList[i] = View(c)
         /\ \A i, j \in 1..Len(BlockList) : BlockList[i].name = BlockList[j].name => i = j
<1> DEFINE I == {i \in DOMAIN di : IsBlock(di[i])}
           list == BlockList
<1>1. world \in Worlds /\ IsSequence(di) /\ DOMAIN di = 1..Len(di)
      /\ Range(di) = {di[p] : p \in 1..Len(di)}
  BY IndexedClasses, SequenceParts DEF Complete
<1>2. \A i \in I : i \in 1..Len(di) /\ IsBlock(di[i]) /\ di[i] \in Range(di)
                   /\ di[i].cls = "DoxyClass"
  BY <1>1 DEF IsBlock
<1>3. \A i \in 1..Len(di) : IsBlock(di[i]) => i \in I
  BY <1>1
<1>4. list = Pick(di, I) /\ I \in SUBSET DOMAIN di
  BY DEF BlockList
<1> HIDE DEF I, list
<1>5. /\ Cardinality(I) \in Nat
      /\ IsSequence(list) /\ Len(list) = Cardinality(I) /\ Range(list) = {di[i] : i \in I}
      /\ \A k \in 1..Cardinality(I) : list[k] = di[Place(I, k)] /\ Place(I, k) \in I
      /\ \A k, l \in 1..Cardinality(I) : Place(I, k) = Place(I, l) => k = l
  BY <1>1, <1>4, Picking
<1>6. Range(list) = {list[i] : i \in 1..Len(list)}
  BY <1>5, SequenceParts
<1>7. Range(list) \subseteq Range(di)
  BY <1>2, <1>5
<1>8. ASSUME NEW i \in 1..Len(list) PROVE \E c \in BlockClasses : list[i] = View(c)
  <2>1. list[i] \in Range(di) /\ IsBlock(list[i]) /\ list[i].cls = "DoxyClass"
    BY <1>2, <1>5
  <2>2. PICK c \in Classes : list[i] = View(c)
    BY <2>1, IndexedClasses
  <2>3. c \in BlockClasses
    BY <1>1, <2>1, <2>2, BlockSeen
  <2> QED BY <2>2, <2>3
<1>9. ASSUME NEW c \in BlockClasses PROVE \E i \in 1..Len(list) : list[i] = View(c)
  <2>1. c \in Classes
    BY DEF BlockClasses
  <2>2. View(c) \in Range(di) /\ IsBlock(View(c))
    BY <1>1, <2>1, BlockSeen, IndexedClasses
  <2>3. PICK p \in 1..Len(di) : View(c) = di[p]
    BY <1>1, <2>2
  <2>4. View(c) \in Range(list)
    BY <1>3, <1>5, <2>2, <2>3
  <2> QED BY <1>6, <2>4
<1>10. ASSUME NEW i \in 1..Len(list), NEW j \in 1..Len(list), list[i].name = list[j].name
       PROVE  i = j
  <2>1. Place(I, i) = Place(I, j)
    <3>1. /\ Place(I, i) \in 1..Len(di) /\ list[i] = di[Place(I, i)]
          /\ di[Place(I, i)].cls = "DoxyClass"
      BY <1>2, <1>5
    <3>2. /\ Place(I, j) \in 1..Len(di) /\ list[j] = di[Place(I, j)]
          /\ di[Place(I, j)].cls = "DoxyClass"
      BY <1>2, <1>5
    <3> QED BY <1>10, <3>1, <3>2, IndexedClasses
  <2> QED BY <1>5, <2>1
<1> QED BY <1>5, <1>7, <1>8, <1>9, <1>10 DEF list
-------------------------------------------------------------------------------
(* The inductive invariant *)

(* A loop takes the elements of a list in their order: todo is what is left.   *)
Left(rest, list) ==
    /\ IsSequence(rest) /\ IsSequence(list) /\ Len(rest) <= Len(list)
    /\ \A i \in 1..Len(rest) : rest[i] = list[Len(list) - Len(rest) + i]

(* The entries of a function and of a class that is no block.                  *)
FunctionText(f) == make_func_entry(<<>>, f, combine_descriptions(f), f.params)
ClassText(k) == IF error(k) THEN <<>> ELSE make_class_entry(k, combine_descriptions(k))

(* What the loops have written when they have taken k elements of their lists. *)
OfBlocks(k) == UNION {Range(make_block_entry(blocks[i])) : i \in 1..k}
OfFunctions(k) == UNION {Range(FunctionText(OtherFunctions[i])) : i \in 1..k}
OfClasses(k) == UNION {Range(ClassText(OtherClasses[i])) : i \in 1..k}

(* While the index is read, the compounds so far are in it, and none of them   *)
(* is in the way.                                                              *)
Reading ==
    LET k == Len(world) - Len(todo)
    IN  /\ Left(todo, Entries(world))
        /\ Indexed(world, di, k)
        /\ \A j \in 1..k : /\ world[j].kind \in KnownKinds
                           /\ Header(world[j]) => world[j].xml = "ok"
        /\ blocks = <<>> /\ made = {} /\ output = <<>>

(* Then the index is complete, and the blocks are found.                       *)
IndexComplete ==
    /\ Complete
    /\ \A j \in 1..Len(world) : world[j].kind \in KnownKinds
    /\ \A c \in Classes : c.xml # "missing"
    /\ blocks = BlockList

(* The first k blocks were usable, and their make functions are remembered.    *)
BlocksMade(k) ==
    /\ \A i \in 1..k : \E c \in BlockClasses : blocks[i] = View(c) /\ Usable(c)
    /\ made = {make_name(blocks[i].name) : i \in 1..k}

(* No make function of a block was documented twice.                           *)
Once ==
    /\ IsSequence(output)
    /\ \A p, q \in 1..Len(output) :
          (/\ Plain(output[p]) /\ Plain(output[q])
           /\ output[p].name = output[q].name /\ output[p].name \in made) => p = q

InBlocks ==
    LET k == Len(blocks) - Len(todo)
    IN  /\ Left(todo, blocks) /\ BlocksMade(k) /\ Range(output) = OfBlocks(k)
        /\ \A p \in 1..Len(output) : Plain(output[p]) => output[p].name \in made
InFunctions ==
    /\ Left(todo, OtherFunctions) /\ BlocksMade(Len(blocks))
    /\ Range(output) = OfBlocks(Len(blocks)) \cup OfFunctions(Len(OtherFunctions) - Len(todo))
InClasses ==
    /\ Left(todo, OtherClasses) /\ BlocksMade(Len(blocks))
    /\ Range(output) = OfBlocks(Len(blocks)) \cup OfFunctions(Len(OtherFunctions))
                       \cup OfClasses(Len(OtherClasses) - Len(todo))
InFile ==
    /\ BlocksMade(Len(blocks)) /\ written = output
    /\ Range(output) = OfBlocks(Len(blocks)) \cup OfFunctions(Len(OtherFunctions))
                       \cup OfClasses(Len(OtherClasses))

IInv ==
    /\ world \in Worlds /\ dir = Files(world) /\ pc \in Stages
    /\ Range(blocks) \subseteq Range(di)
    /\ pc # "done" => written = <<>>
    /\ pc = "aborted" => Unusable
    /\ pc = "index" => Reading
    /\ pc \in {"blocks", "functions", "classes", "done"} => IndexComplete /\ Once
    /\ pc = "blocks" => InBlocks
    /\ pc = "functions" => InFunctions
    /\ pc = "classes" => InClasses
    /\ pc = "done" => InFile
-------------------------------------------------------------------------------
(* Steps *)

LEMMA Next1 ==
  ASSUME NEW rest, NEW list, Left(rest, list), rest # <<>>
  PROVE  LET k == Len(list) - Len(rest)
         IN  /\ k \in Nat /\ k + 1 \in 1..Len(list) /\ Head(rest) = list[k + 1]
             /\ Left(Tail(rest), list) /\ Len(list) - Len(Tail(rest)) = k + 1
<1> DEFINE k == Len(list) - Len(rest)
           t == Tail(rest)
<1>1. /\ IsSequence(rest) /\ IsSequence(list) /\ Len(rest) <= Len(list)
      /\ \A i \in 1..Len(rest) : rest[i] = list[k + i]
  BY DEF Left
<1>2. Len(rest) \in Nat /\ Len(list) \in Nat /\ Len(rest) # 0
  BY <1>1, SequenceParts
<1>3. /\ IsSequence(t) /\ Len(t) = Len(rest) - 1 /\ Head(rest) = rest[1] /\ 1 \in 1..Len(rest)
      /\ \A i \in 1..Len(t) : t[i] = rest[i + 1] /\ i + 1 \in 1..Len(rest)
  BY <1>1, FirstAndRest
<1>4. Head(rest) = list[k + 1]
  BY <1>1, <1>3
<1> HIDE DEF t
<1>5. k \in Nat /\ k + 1 \in 1..Len(list) /\ Len(list) - Len(t) = k + 1 /\ Len(t) <= Len(list)
  BY <1>1, <1>2, <1>3
<1>6. ASSUME NEW i \in 1..Len(t) PROVE t[i] = list[Len(list) - Len(t) + i]
  <2>1. t[i] = list[k + (i + 1)]
    BY <1>1, <1>3
  <2>2. k + (i + 1) = Len(list) - Len(t) + i
    BY <1>2, <1>3
  <2> QED BY <2>1, <2>2
<1> QED BY <1>1, <1>3, <1>4, <1>5, <1>6 DEF Left, t

LEMMA AllLeft ==
  ASSUME NEW list, IsSequence(list)
  PROVE  Left(list, list) /\ Len(list) - Len(list) = 0
<1>1. Len(list) \in Nat
  BY SequenceParts
<1> QED BY <1>1 DEF Left

LEMMA NoneLeft ==
  ASSUME NEW rest, NEW list, Left(rest, list), rest = <<>>
  PROVE  Len(list) - Len(rest) = Len(list)
<1>1. Len(list) \in Nat /\ Len(rest) = 0
  BY SequenceParts, EmptyAndSingle DEF Left
<1> QED BY <1>1

(* The source tree decides what is promised, the index what is looked up.      *)
LEMMA SameWorld ==
  ASSUME world' = world
  PROVE  /\ Unusable' <=> Unusable
         /\ Classes' = Classes /\ BlockClasses' = BlockClasses
         /\ \A c : Usable(c)' <=> Usable(c)
<1>1. Classes' = Classes /\ HeaderFiles' = HeaderFiles
  BY DEF Classes, HeaderFiles
<1>2. BlockClasses' = BlockClasses
  BY <1>1 DEF BlockClasses
<1>3. ASSUME NEW c PROVE MakersOf(c)' = MakersOf(c) /\ HeadersOf(c)' = HeadersOf(c)
  BY <1>1 DEF MakersOf, HeadersOf
<1>4. \A c : Usable(c)' <=> Usable(c)
  BY <1>3 DEF Usable
<1>5. Unusable' <=> Unusable
  BY <1>1, <1>2, <1>3 DEF Unusable
<1> QED BY <1>1, <1>2, <1>4, <1>5

LEMMA SameIndex ==
  ASSUME world' = world, di' = di
  PROVE  /\ Complete' <=> Complete
         /\ BlockList' = BlockList
         /\ \A b : make_block_entry(b)' = make_block_entry(b)
<1>1. \A b : MakeFuncs(b)' = MakeFuncs(b) /\ Headers(b)' = Headers(b)
  BY DEF MakeFuncs, Headers
<1>2. \A b : make_block_entry(b)' = make_block_entry(b)
  BY <1>1 DEF make_block_entry
<1> QED BY <1>2 DEF Complete, BlockList

LEMMA SameBlocks ==
  ASSUME world' = world, di' = di, blocks' = blocks
  PROVE  /\ IndexComplete' <=> IndexComplete
         /\ \A k : OfBlocks(k)' = OfBlocks(k)
<1>1. /\ Complete' <=> Complete
      /\ BlockList' = BlockList /\ Classes' = Classes
      /\ \A b : make_block_entry(b)' = make_block_entry(b)
  BY SameIndex, SameWorld
<1>2. IndexComplete' <=> IndexComplete
  BY <1>1 DEF IndexComplete
<1>3. \A k : OfBlocks(k)' = OfBlocks(k)
  BY <1>1 DEF OfBlocks
<1> QED BY <1>2, <1>3

LEMMA SameLists ==
  ASSUME world' = world, di' = di, blocks' = blocks, made' = made
  PROVE  /\ OtherFunctions' = OtherFunctions /\ OtherClasses' = OtherClasses
         /\ \A k : BlocksMade(k)' <=> BlocksMade(k)
         /\ \A k : OfFunctions(k)' = OfFunctions(k)
         /\ \A k : OfClasses(k)' = OfClasses(k)
<1>1. OtherFunctions' = OtherFunctions /\ OtherClasses' = OtherClasses
  BY DEF OtherFunctions, OtherClasses
<1>2. /\ BlockClasses' = BlockClasses
      /\ \A c : Usable(c)' <=> Usable(c)
  BY SameWorld
<1>3. \A k : BlocksMade(k)' <=> BlocksMade(k)
  BY <1>2 DEF BlocksMade
<1>4. \A k : OfFunctions(k)' = OfFunctions(k)
  BY <1>1 DEF OfFunctions
<1>5. \A k : OfClasses(k)' = OfClasses(k)
  BY <1>1 DEF OfClasses
<1> QED BY <1>1, <1>3, <1>4, <1>5

(* What a union over the first elements gains with the next one.               *)
LEMMA OneMore ==
  ASSUME NEW k \in Nat
  PROVE  /\ 1..(k + 1) = (1..k) \cup {k + 1}
         /\ OfBlocks(k + 1) = OfBlocks(k) \cup Range(make_block_entry(blocks[k + 1]))
         /\ OfFunctions(k + 1) = OfFunctions(k) \cup Range(FunctionText(OtherFunctions[k + 1]))
         /\ OfClasses(k + 1) = OfClasses(k) \cup Range(ClassText(OtherClasses[k + 1]))
<1>1. 1..(k + 1) = (1..k) \cup {k + 1}
  OBVIOUS
<1>2. OfBlocks(k + 1) = OfBlocks(k) \cup Range(make_block_entry(blocks[k + 1]))
  BY <1>1 DEF OfBlocks
<1>3. OfFunctions(k + 1) = OfFunctions(k) \cup Range(FunctionText(OtherFunctions[k + 1]))
  BY <1>1 DEF OfFunctions
<1>4. OfClasses(k + 1) = OfClasses(k) \cup Range(ClassText(OtherClasses[k + 1]))
  BY <1>1 DEF OfClasses
<1> QED BY <1>1, <1>2, <1>3, <1>4

LEMMA NoneYet == OfBlocks(0) = {} /\ OfFunctions(0) = {} /\ OfClasses(0) = {}
<1>1. 1..0 = {}
  OBVIOUS
<1> QED BY <1>1 DEF OfBlocks, OfFunctions, OfClasses

-------------------------------------------------------------------------------
(* The index is read *)

LEMMA Initial ==
  ASSUME Init
  PROVE  IInv
<1>1. world \in Worlds /\ dir = Files(world) /\ pc = "index" /\ todo = Entries(world)
      /\ di = <<>> /\ blocks = <<>> /\ made = {} /\ output = <<>> /\ written = <<>>
  BY DEF Init
<1>2. IsSequence(Entries(world)) /\ Len(Entries(world)) = Len(world)
  BY <1>1, IndexRead
<1>3. Left(todo, Entries(world)) /\ Len(world) - Len(todo) = 0
  BY <1>1, <1>2, AllLeft
<1>4. Indexed(world, di, 0)
  BY <1>1, EmptyIndex
<1>5. 1..0 = {}
  OBVIOUS
<1>6. Reading
  BY <1>1, <1>3, <1>4, <1>5 DEF Reading
<1> QED BY <1>1, <1>6 DEF IInv, Stages

LEMMA ReadCompoundSafe ==
  ASSUME IInv, ReadCompound
  PROVE  IInv'
<1> DEFINE k == Len(world) - Len(todo)
           w == world[k + 1]
           c == Compound(Head(todo), dir)
           header == c.cls = "DoxyFile" /\ c.name.ext = ".h"
<1>1. /\ world \in Worlds /\ dir = Files(world) /\ Range(blocks) \subseteq Range(di)
      /\ written = <<>> /\ pc = "index" /\ todo # <<>>
      /\ Left(todo, Entries(world)) /\ Indexed(world, di, k)
      /\ \A j \in 1..k : /\ world[j].kind \in KnownKinds
                         /\ Header(world[j]) => world[j].xml = "ok"
      /\ blocks = <<>> /\ made = {} /\ output = <<>>
  BY DEF IInv, Reading, ReadCompound
<1>2. Len(Entries(world)) = Len(world)
  BY <1>1, IndexRead
<1>3. /\ k \in Nat /\ k + 1 \in 1..Len(world) /\ Head(todo) = Entries(world)[k + 1]
      /\ Left(Tail(todo), Entries(world)) /\ Len(world) - Len(Tail(todo)) = k + 1
  BY <1>1, <1>2, Next1
<1>4. c = View(w)
  BY <1>1, <1>3, CompoundRead
<1>5. /\ Listed(w) /\ w \in Range(world) /\ w.kind \notin {"function", "friend"}
      /\ w.xml \in {"ok", "broken", "missing"} /\ DOMAIN world = 1..Len(world)
  BY <1>1, <1>3, WorldParts
<1>6. c.cls = get_cls(w.kind) /\ c.name = w.name /\ c.xml = w.xml /\ c.members = View(w).members
  BY <1>4 DEF View
<1>7. header <=> Header(w)
  BY <1>6, Kinds DEF Header
<1>8. c.cls = "none" <=> w.kind \notin KnownKinds
  BY <1>5, <1>6, Kinds
<1>9. c.cls = "DoxyFile" /\ ~header <=> w.kind = "file" /\ ~Header(w)
  BY <1>6, <1>7, Kinds
<1> HIDE DEF c, header, k
<1>10. CASE c.cls = "none" \/ (header /\ ParseRaises(c))
  <2>1. pc' = "aborted" /\ UNCHANGED <<world, dir, todo, di, blocks, made, output, written>>
    BY <1>10 DEF ReadCompound, Abort, c, header
  <2>2. Unusable
    <3>1. CASE c.cls = "none"
      BY <1>5, <1>8, <3>1 DEF Unusable
    <3>2. CASE header /\ ParseRaises(c)
      <4>1. w.xml # "ok"
        BY <1>6, <3>2 DEF ParseRaises
      <4>2. k + 1 \in HeaderFiles
        BY <1>3, <1>5, <1>7, <3>2 DEF HeaderFiles, Header
      <4> QED BY <4>1, <4>2 DEF Unusable
    <3> QED BY <1>10, <3>1, <3>2
  <2> QED BY <1>1, <2>1, <2>2, SameWorld DEF IInv, Stages
<1>11. CASE ~(c.cls = "none" \/ (header /\ ParseRaises(c)))
  <2> DEFINE a == IF header THEN c.members ELSE <<>>
             b == IF c.cls = "DoxyFile" /\ ~header THEN <<>> ELSE <<c>>
  <2>1. /\ di' = di \o a \o b /\ pc' = "index" /\ todo' = Tail(todo)
        /\ UNCHANGED <<world, dir, blocks, made, output, written>>
    BY <1>11 DEF ReadCompound, Proceed, c, header
  <2>2. w.kind \in KnownKinds /\ (Header(w) => w.xml = "ok")
    <3>1. w.kind \in KnownKinds
      BY <1>8, <1>11
    <3>2. header => w.xml = "ok"
      BY <1>5, <1>6, <1>11 DEF ParseRaises, header
    <3> QED BY <1>7, <3>1, <3>2
  <2>3. a \o b = Added(w)
    BY <1>4, <1>6, <1>7, <1>9 DEF Added
  <2>4. IsSequence(a) /\ IsSequence(b) /\ IsSequence(di)
    <3>1. header => c.members = Mems(w)
      BY <1>6, <1>7, <2>2 DEF View, Read, Header
    <3> QED BY <1>1, <1>5, <3>1, Kept, EmptyAndSingle DEF Indexed
  <2> HIDE DEF a, b
  <2>5. di \o a \o b = di \o (a \o b)
    <3> DEFINE S == Range(di) \cup Range(a) \cup Range(b)
    <3>1. di \in Seq(S) /\ a \in Seq(S) /\ b \in Seq(S)
      BY <2>4, SeqMonotonic DEF IsSequence
    <3> HIDE DEF S
    <3> QED BY <3>1, ConcatAssociative
  <2>6. di' = di \o Added(w)
    BY <2>1, <2>3, <2>5
  <2>7. Indexed(world, di', k + 1)
    BY <1>1, <1>3, <2>2, <2>6, Appending DEF k
  <2>8. \A j \in 1..(k + 1) : /\ world[j].kind \in KnownKinds
                              /\ Header(world[j]) => world[j].xml = "ok"
    <3>1. 1..(k + 1) = (1..k) \cup {k + 1}
      BY <1>3, OneMore
    <3>2. \A j \in 1..k : /\ world[j].kind \in KnownKinds
                          /\ Header(world[j]) => world[j].xml = "ok"
      BY <1>1 DEF k
    <3> QED BY <2>2, <3>1, <3>2
  <2>9. Reading'
    BY <1>1, <1>3, <2>1, <2>7, <2>8 DEF Reading
  <2>10. Range(blocks') \subseteq Range(di')
    BY <1>1, <2>1, EmptyAndSingle
  <2> QED BY <1>1, <2>1, <2>9, <2>10 DEF IInv, Stages
<1> QED BY <1>10, <1>11
LEMMA FindBlocksSafe ==
  ASSUME IInv, FindBlocks
  PROVE  IInv'
<1> DEFINE classes == in_category(di, "DoxyClass")
<1>1. /\ world \in Worlds /\ dir = Files(world) /\ Range(blocks) \subseteq Range(di)
      /\ written = <<>> /\ pc = "index" /\ todo = <<>>
      /\ Left(todo, Entries(world)) /\ Indexed(world, di, Len(world) - Len(todo))
      /\ \A j \in 1..(Len(world) - Len(todo)) : /\ world[j].kind \in KnownKinds
                                                /\ Header(world[j]) => world[j].xml = "ok"
      /\ made = {} /\ output = <<>>
  BY DEF IInv, Reading, FindBlocks
<1>2. Len(world) - Len(todo) = Len(world)
  BY <1>1, IndexRead, NoneLeft
<1>3. Complete
  BY <1>1, <1>2 DEF Complete
<1>4. Range(classes) = {x \in Range(di) : x.cls = "DoxyClass"}
  BY <1>3, IndexedClasses, Category
<1>5. \A c \in Classes : View(c) \in Range(classes) /\ View(c).cls = "DoxyClass"
                         /\ View(c).xml = c.xml /\ c.xml \in {"ok", "broken", "missing"}
  BY <1>1, <1>3, <1>4, IndexedClasses, WorldNames
<1>6. \A x \in Range(classes) : \E c \in Classes : x = View(c)
  BY <1>3, <1>4, IndexedClasses
<1> HIDE DEF classes
<1>7. CASE \E x \in Range(classes) : ParseRaises(x)
  <2>1. pc' = "aborted" /\ UNCHANGED <<world, dir, todo, di, blocks, made, output, written>>
    BY <1>7 DEF FindBlocks, Abort, classes
  <2>2. PICK c \in Classes : ParseRaises(View(c))
    BY <1>6, <1>7
  <2>3. c.xml = "missing"
    BY <1>5, <2>2 DEF ParseRaises
  <2>4. Unusable
    BY <2>3 DEF Unusable
  <2> QED BY <1>1, <2>1, <2>4, SameWorld DEF IInv, Stages
<1>8. CASE ~\E x \in Range(classes) : ParseRaises(x)
  <2>1. /\ blocks' = BlockList /\ pc' = "blocks" /\ todo' = blocks'
        /\ UNCHANGED <<world, dir, di, made, output, written>>
    BY <1>8 DEF FindBlocks, Proceed, BlockList, classes
  <2>2. \A c \in Classes : c.xml # "missing"
    BY <1>5, <1>8 DEF ParseRaises
  <2>3. Complete' /\ BlockList' = BlockList /\ Classes' = Classes
    BY <1>3, <2>1, SameIndex, SameWorld
  <2>4. IndexComplete'
    BY <1>1, <1>2, <2>1, <2>2, <2>3 DEF IndexComplete
  <2>5. IsSequence(blocks') /\ Range(blocks') \subseteq Range(di)
    BY <1>3, <2>1, BlocksListed
  <2>6. Left(todo', blocks') /\ Len(blocks') - Len(todo') = 0
    BY <2>1, <2>5, AllLeft
  <2>7. IsSequence(output') /\ Len(output') = 0 /\ Range(output') = {} /\ 1..0 = {} /\ made' = {}
    BY <1>1, <2>1, EmptyAndSingle
  <2>8. BlocksMade(0)'
    BY <2>7 DEF BlocksMade
  <2>9. OfBlocks(0)' = {}
    BY <2>7 DEF OfBlocks
  <2>10. InBlocks'
    BY <2>6, <2>7, <2>8, <2>9 DEF InBlocks
  <2>11. Once'
    BY <2>7 DEF Once
  <2> QED BY <1>1, <2>1, <2>4, <2>5, <2>10, <2>11 DEF IInv, Stages
<1> QED BY <1>7, <1>8

-------------------------------------------------------------------------------
(* The loops *)

LEMMA DocumentBlockSafe ==
  ASSUME IInv, DocumentBlock
  PROVE  IInv'
<1> DEFINE b == Head(todo)
<1>0. PICK k : k = Len(blocks) - Len(todo)
  OBVIOUS
<1>1. /\ world \in Worlds /\ dir = Files(world) /\ Range(blocks) \subseteq Range(di)
      /\ written = <<>> /\ pc = "blocks" /\ todo # <<>>
      /\ IndexComplete /\ Once
      /\ Left(todo, blocks) /\ BlocksMade(k) /\ Range(output) = OfBlocks(k)
      /\ \A p \in 1..Len(output) : Plain(output[p]) => output[p].name \in made
  BY <1>0 DEF IInv, InBlocks, DocumentBlock
<1>2. Complete /\ blocks = BlockList
  BY <1>1 DEF IndexComplete
<1>3. /\ k \in Nat /\ k + 1 \in 1..Len(blocks) /\ b = blocks[k + 1]
      /\ Left(Tail(todo), blocks) /\ Len(blocks) - Len(Tail(todo)) = k + 1
  BY <1>0, <1>1, Next1
<1>4. PICK c \in BlockClasses : b = View(c)
  BY <1>2, <1>3, BlocksListed
<1>5. b.name = c.name
  BY <1>4 DEF View
<1> HIDE DEF b
<1>6. CASE Len(MakeFuncs(b)) # 1 \/ Len(Headers(b)) > 1 \/ Len(Creators(b)) # 1
  <2>1. pc' = "aborted" /\ UNCHANGED <<world, dir, todo, di, blocks, made, output, written>>
    BY <1>6 DEF DocumentBlock, Abort, b
  <2>2. \/ Cardinality(MakersOf(c)) # 1
        \/ Cardinality(HeadersOf(c)) > 1
        \/ NamedFunctions(c, c.name) = {}
    BY <1>2, <1>4, <1>6, Lookups
  <2>3. Unusable
    BY <2>2 DEF Unusable
  <2> QED BY <1>1, <2>1, <2>3, SameWorld DEF IInv, Stages
<1>7. CASE ~(Len(MakeFuncs(b)) # 1 \/ Len(Headers(b)) > 1 \/ Len(Creators(b)) # 1)
  <2> DEFINE entry == make_block_entry(b)
  <2>1. /\ made' = made \cup {MakeFuncs(b)[1].name} /\ output' = output \o entry
        /\ pc' = "blocks" /\ todo' = Tail(todo)
        /\ UNCHANGED <<world, dir, di, blocks, written>>
    BY <1>7 DEF DocumentBlock, Proceed, b
  <2>2. Usable(c)
    <3>1. /\ Len(MakeFuncs(b)) = Cardinality(MakersOf(c))
          /\ Len(Headers(b)) = Cardinality(HeadersOf(c)) /\ Cardinality(HeadersOf(c)) \in Nat
          /\ Len(Creators(b)) = 1 <=> NamedFunctions(c, c.name) # {}
      BY <1>2, <1>4, Lookups
    <3> QED BY <1>7, <3>1 DEF Usable
  <2>3. /\ MakeFuncs(b)[1].name = make_name(c.name)
        /\ IsSequence(entry)
        /\ \A p, q \in 1..Len(entry) : (Plain(entry[p]) /\ Plain(entry[q])) => p = q
        /\ \A p \in 1..Len(entry) : Plain(entry[p]) => entry[p].name = make_name(c.name)
    BY <1>2, <1>4, <2>2, BlockMade
  <2>4. 1..(k + 1) = (1..k) \cup {k + 1}
        /\ OfBlocks(k + 1) = OfBlocks(k) \cup Range(make_block_entry(blocks[k + 1]))
    BY <1>3, OneMore
  <2>5. made' = {make_name(blocks[i].name) : i \in 1..(k + 1)}
    <3>1. made' = {make_name(blocks[i].name) : i \in 1..k} \cup {make_name(blocks[k + 1].name)}
      BY <1>1, <1>3, <1>5, <2>1, <2>3 DEF BlocksMade
    <3> QED BY <2>4, <3>1
  <2>6. \A i \in 1..(k + 1) : \E d \in BlockClasses : blocks[i] = View(d) /\ Usable(d)
    BY <1>1, <1>3, <1>4, <2>2, <2>4 DEF BlocksMade
  <2>7. make_name(c.name) \notin made
    <3> SUFFICES ASSUME NEW i \in 1..k, make_name(blocks[i].name) = make_name(c.name)
                 PROVE  FALSE
      BY <1>1 DEF BlocksMade
    <3>1. PICK d \in BlockClasses : blocks[i] = View(d)
      BY <2>4, <2>6
    <3>2. make_name(d.name) = make_name(c.name)
      BY <3>1 DEF View
    <3>3. d = c
      BY <1>1, <3>2, WorldNames DEF BlockClasses
    <3>4. blocks[i].name = blocks[k + 1].name
      BY <1>3, <1>4, <3>1, <3>3
    <3>5. i \in 1..Len(blocks) /\ i # k + 1
      BY <1>3
    <3> QED BY <1>2, <1>3, <3>4, <3>5, BlocksListed
  <2> HIDE DEF entry
  <2>8. /\ IsSequence(output) /\ Len(output) \in Nat /\ Len(entry) \in Nat
        /\ \A p, q \in 1..Len(output) :
              (/\ Plain(output[p]) /\ Plain(output[q])
               /\ output[p].name = output[q].name /\ output[p].name \in made) => p = q
        /\ \A p \in 1..Len(output) : Plain(output[p]) => output[p].name \in made
    BY <1>1, <2>3, SequenceParts DEF Once
  <2>9. /\ IsSequence(output') /\ Len(output') = Len(output) + Len(entry)
        /\ Range(output') = Range(output) \cup Range(entry)
        /\ \A p \in 1..Len(output) : output'[p] = output[p]
        /\ \A p \in 1..Len(entry) : output'[Len(output) + p] = entry[p]
    BY <2>1, <2>3, <2>8, Concatenation
  <2>10. \A p \in 1..Len(output') : p \notin 1..Len(output) =>
            p - Len(output) \in 1..Len(entry) /\ output'[p] = entry[p - Len(output)]
    BY <2>8, <2>9
  <2>11. ASSUME NEW p \in 1..Len(output'), Plain(output'[p])
         PROVE  IF p \in 1..Len(output) THEN output'[p].name \in made
                ELSE output'[p].name = make_name(c.name)
    BY <2>3, <2>8, <2>9, <2>10, <2>11
  <2>12. \A p \in 1..Len(output') : Plain(output'[p]) => output'[p].name \in made'
    BY <2>1, <2>3, <2>11
  <2>13. ASSUME NEW p \in 1..Len(output'), NEW q \in 1..Len(output'),
                Plain(output'[p]), Plain(output'[q]), output'[p].name = output'[q].name
         PROVE  p = q
    <3>1. CASE p \in 1..Len(output) /\ q \in 1..Len(output)
      BY <2>8, <2>9, <2>13, <3>1
    <3>2. CASE p \notin 1..Len(output) /\ q \notin 1..Len(output)
      <4>1. p - Len(output) = q - Len(output)
        BY <2>3, <2>10, <2>13, <3>2
      <4> QED BY <2>8, <4>1
    <3>3. p \in 1..Len(output) <=> q \in 1..Len(output)
      BY <2>7, <2>11, <2>13
    <3> QED BY <3>1, <3>2, <3>3
  <2>14. Once'
    BY <2>9, <2>13 DEF Once
  <2>15. Range(output') = OfBlocks(k + 1)'
    BY <1>1, <1>3, <2>1, <2>4, <2>9, SameBlocks DEF entry
  <2>16. BlocksMade(k + 1)'
    <3>1. BlockClasses' = BlockClasses /\ \A d : Usable(d)' <=> Usable(d)
      BY <2>1, SameWorld
    <3> QED BY <2>1, <2>5, <2>6, <3>1 DEF BlocksMade
  <2>17. InBlocks'
    BY <1>3, <2>1, <2>12, <2>15, <2>16 DEF InBlocks
  <2>18. IndexComplete'
    BY <1>1, <2>1, SameBlocks
  <2> QED BY <1>1, <2>1, <2>14, <2>17, <2>18 DEF IInv, Stages
<1> QED BY <1>6, <1>7
(* The functions that are left are those whose name no block's make function   *)
(* has.                                                                        *)
LEMMA FunctionsLeft ==
  ASSUME Complete
  PROVE  /\ IsSequence(OtherFunctions)
         /\ Range(OtherFunctions) =
               {x \in Range(di) : x.cls = "DoxyFunction" /\ x.name \notin made}
<1> DEFINE funcs == in_category(di, "DoxyFunction")
           I == {i \in DOMAIN funcs : funcs[i].name \notin made}
<1>1. IsSequence(funcs) /\ Range(funcs) = {x \in Range(di) : x.cls = "DoxyFunction"}
  BY IndexedClasses, Category
<1>2. OtherFunctions = Pick(funcs, I) /\ I \in SUBSET DOMAIN funcs
  BY DEF OtherFunctions
<1>3. {funcs[i] : i \in I} = {x \in Range(funcs) : x.name \notin made}
  <2>1. DOMAIN funcs = 1..Len(funcs) /\ Range(funcs) = {funcs[i] : i \in 1..Len(funcs)}
    BY <1>1, SequenceParts
  <2> HIDE DEF funcs
  <2> QED BY <2>1
<1> HIDE DEF funcs, I
<1>4. IsSequence(OtherFunctions) /\ Range(OtherFunctions) = {funcs[i] : i \in I}
  BY <1>1, <1>2, Picking
<1> QED BY <1>1, <1>3, <1>4

(* The classes that are left are those whose name no block has.                *)
LEMMA ClassesLeft ==
  ASSUME Complete
  PROVE  /\ IsSequence(OtherClasses)
         /\ Range(OtherClasses) =
               {x \in Range(di) : x.cls = "DoxyClass" /\ \A b \in Range(blocks) : b.name # x.name}
<1> DEFINE classes == in_category(di, "DoxyClass")
           I == {i \in DOMAIN classes : classes[i].name \notin {b.name : b \in Range(blocks)}}
<1>1. IsSequence(classes) /\ Range(classes) = {x \in Range(di) : x.cls = "DoxyClass"}
  BY IndexedClasses, Category
<1>2. OtherClasses = Pick(classes, I) /\ I \in SUBSET DOMAIN classes
  BY DEF OtherClasses
<1>3. {classes[i] : i \in I} = {x \in Range(classes) : \A b \in Range(blocks) : b.name # x.name}
  <2>1. DOMAIN classes = 1..Len(classes) /\ Range(classes) = {classes[i] : i \in 1..Len(classes)}
    BY <1>1, SequenceParts
  <2> HIDE DEF classes
  <2> QED BY <2>1
<1> HIDE DEF classes, I
<1>4. IsSequence(OtherClasses) /\ Range(OtherClasses) = {classes[i] : i \in I}
  BY <1>1, <1>2, Picking
<1> QED BY <1>1, <1>3, <1>4

(* A text without plain functions whose names are those of make functions      *)
(* leaves them documented once.                                                *)
LEMMA StillOnce ==
  ASSUME Once, NEW text, IsSequence(text),
         \A e \in Range(text) : Plain(e) => e.name \notin made,
         output' = output \o text, made' = made
  PROVE  Once' /\ Range(output') = Range(output) \cup Range(text)
<1>1. /\ IsSequence(output) /\ Len(output) \in Nat /\ Len(text) \in Nat
      /\ \A p, q \in 1..Len(output) :
            (/\ Plain(output[p]) /\ Plain(output[q])
             /\ output[p].name = output[q].name /\ output[p].name \in made) => p = q
      /\ Range(text) = {text[p] : p \in 1..Len(text)}
  BY SequenceParts DEF Once
<1>2. /\ IsSequence(output') /\ Len(output') = Len(output) + Len(text)
      /\ Range(output') = Range(output) \cup Range(text)
      /\ \A p \in 1..Len(output) : output'[p] = output[p]
      /\ \A p \in 1..Len(text) : output'[Len(output) + p] = text[p]
  BY <1>1, Concatenation
<1>3. ASSUME NEW p \in 1..Len(output'), p \notin 1..Len(output)
      PROVE  output'[p] \in Range(text)
  <2>1. p - Len(output) \in 1..Len(text) /\ Len(output) + (p - Len(output)) = p
    BY <1>1, <1>2, <1>3
  <2>2. output'[p] = text[p - Len(output)]
    BY <1>2, <2>1
  <2> QED BY <1>1, <2>1, <2>2
<1>4. \A p \in 1..Len(output') :
         Plain(output'[p]) /\ output'[p].name \in made => p \in 1..Len(output)
  BY <1>3
<1>5. ASSUME NEW p \in 1..Len(output'), NEW q \in 1..Len(output'),
             Plain(output'[p]), Plain(output'[q]),
             output'[p].name = output'[q].name, output'[p].name \in made'
      PROVE  p = q
  <2>1. p \in 1..Len(output) /\ q \in 1..Len(output)
    BY <1>4, <1>5
  <2> QED BY <1>1, <1>2, <1>5, <2>1
<1> QED BY <1>2, <1>5 DEF Once

LEMMA FindFunctionsSafe ==
  ASSUME IInv, FindFunctions
  PROVE  IInv'
<1>1. /\ world \in Worlds /\ dir = Files(world) /\ Range(blocks) \subseteq Range(di)
      /\ written = <<>> /\ pc = "blocks" /\ todo = <<>> /\ IndexComplete /\ Once
      /\ Left(todo, blocks) /\ BlocksMade(Len(blocks) - Len(todo))
      /\ Range(output) = OfBlocks(Len(blocks) - Len(todo))
  BY DEF IInv, InBlocks, FindFunctions
<1>2. /\ pc' = "functions" /\ todo' = OtherFunctions
      /\ UNCHANGED <<world, dir, di, blocks, made, output, written>>
  BY DEF FindFunctions, Proceed
<1>3. Len(blocks) - Len(todo) = Len(blocks)
  BY <1>1, NoneLeft
<1>4. IsSequence(OtherFunctions)
  BY <1>1, FunctionsLeft DEF IndexComplete
<1>5. Left(OtherFunctions, OtherFunctions) /\ Len(OtherFunctions) - Len(OtherFunctions) = 0
  BY <1>4, AllLeft
<1>6. /\ OtherFunctions' = OtherFunctions /\ OfFunctions(0)' = OfFunctions(0)
      /\ OfBlocks(Len(blocks))' = OfBlocks(Len(blocks))
      /\ BlocksMade(Len(blocks))' <=> BlocksMade(Len(blocks))
      /\ IndexComplete' <=> IndexComplete
  <2>1. PICK n : n = Len(blocks)
    OBVIOUS
  <2>2. OfBlocks(n)' = OfBlocks(n) /\ (BlocksMade(n)' <=> BlocksMade(n))
    BY <1>2, SameBlocks, SameLists
  <2> QED BY <1>2, <2>1, <2>2, SameBlocks, SameLists
<1>7. OfFunctions(0) = {}
  BY NoneYet
<1>8. InFunctions'
  BY <1>1, <1>2, <1>3, <1>5, <1>6, <1>7 DEF InFunctions
<1>9. Once'
  BY <1>1, <1>2 DEF Once
<1> QED BY <1>1, <1>2, <1>6, <1>8, <1>9 DEF IInv, Stages
(* What is written does not change while the lists do not.                     *)
LEMMA SameTexts ==
  ASSUME UNCHANGED <<world, di, blocks, made>>
  PROVE  /\ OtherFunctions' = OtherFunctions /\ OtherClasses' = OtherClasses
         /\ OfBlocks(Len(blocks))' = OfBlocks(Len(blocks))
         /\ OfFunctions(Len(OtherFunctions))' = OfFunctions(Len(OtherFunctions))
         /\ OfClasses(Len(OtherClasses))' = OfClasses(Len(OtherClasses))
         /\ BlocksMade(Len(blocks))' <=> BlocksMade(Len(blocks))
         /\ IndexComplete' <=> IndexComplete
<1>1. PICK n : n = Len(blocks)
  OBVIOUS
<1>2. PICK l : l = Len(OtherFunctions)
  OBVIOUS
<1>3. PICK m : m = Len(OtherClasses)
  OBVIOUS
<1>4. OtherFunctions' = OtherFunctions /\ OtherClasses' = OtherClasses
      /\ (IndexComplete' <=> IndexComplete)
  BY SameBlocks, SameLists
<1>5. OfBlocks(n)' = OfBlocks(n) /\ (BlocksMade(n)' <=> BlocksMade(n))
      /\ OfFunctions(l)' = OfFunctions(l) /\ OfClasses(m)' = OfClasses(m)
  BY SameBlocks, SameLists
<1>6. Len(blocks)' = n /\ Len(OtherFunctions)' = l /\ Len(OtherClasses)' = m
  BY <1>1, <1>2, <1>3, <1>4
<1> QED BY <1>1, <1>2, <1>3, <1>4, <1>5, <1>6

LEMMA DocumentFunctionSafe ==
  ASSUME IInv, DocumentFunction
  PROVE  IInv'
<1> DEFINE f == Head(todo)
           text == FunctionText(f)
<1>0. PICK k : k = Len(OtherFunctions) - Len(todo)
  OBVIOUS
<1>1. /\ world \in Worlds /\ dir = Files(world) /\ Range(blocks) \subseteq Range(di)
      /\ written = <<>> /\ pc = "functions" /\ todo # <<>> /\ IndexComplete /\ Once
      /\ Left(todo, OtherFunctions) /\ BlocksMade(Len(blocks))
      /\ Range(output) = OfBlocks(Len(blocks)) \cup OfFunctions(k)
  BY <1>0 DEF IInv, InFunctions, DocumentFunction
<1>2. /\ pc' = "functions" /\ todo' = Tail(todo) /\ output' = output \o text
      /\ UNCHANGED <<world, dir, di, blocks, made, written>>
  BY DEF DocumentFunction, Proceed, FunctionText
<1>3. /\ k \in Nat /\ k + 1 \in 1..Len(OtherFunctions) /\ f = OtherFunctions[k + 1]
      /\ Left(Tail(todo), OtherFunctions) /\ Len(OtherFunctions) - Len(Tail(todo)) = k + 1
  BY <1>0, <1>1, Next1
<1>4. f \in Range(OtherFunctions) /\ f.name \notin made
  BY <1>1, <1>3, FunctionsLeft, SequenceParts DEF IndexComplete
<1> HIDE DEF f
<1>5. IsSequence(text) /\ \A e \in Range(text) : Plain(e) => e.name \notin made
  BY <1>4, EmptyAndSingle, Kind DEF FunctionText, make_func_entry
<1>6. OfFunctions(k + 1) = OfFunctions(k) \cup Range(text)
  BY <1>3, OneMore
<1> HIDE DEF text
<1>7. Once' /\ Range(output') = Range(output) \cup Range(text)
  BY <1>1, <1>2, <1>5, StillOnce
<1>8. OfFunctions(k + 1)' = OfFunctions(k + 1)
  BY <1>2, SameLists
<1>9. InFunctions'
  BY <1>1, <1>2, <1>3, <1>6, <1>7, <1>8, SameTexts DEF InFunctions
<1> QED BY <1>1, <1>2, <1>7, <1>9, SameTexts DEF IInv, Stages

LEMMA FindClassesSafe ==
  ASSUME IInv, FindClasses
  PROVE  IInv'
<1>1. /\ world \in Worlds /\ dir = Files(world) /\ Range(blocks) \subseteq Range(di)
      /\ written = <<>> /\ pc = "functions" /\ todo = <<>> /\ IndexComplete /\ Once
      /\ Left(todo, OtherFunctions) /\ BlocksMade(Len(blocks))
      /\ Range(output) = OfBlocks(Len(blocks))
                         \cup OfFunctions(Len(OtherFunctions) - Len(todo))
  BY DEF IInv, InFunctions, FindClasses
<1>2. /\ pc' = "classes" /\ todo' = OtherClasses
      /\ UNCHANGED <<world, dir, di, blocks, made, output, written>>
  BY DEF FindClasses, Proceed
<1>3. Len(OtherFunctions) - Len(todo) = Len(OtherFunctions)
  BY <1>1, NoneLeft
<1>4. IsSequence(OtherClasses)
  BY <1>1, ClassesLeft DEF IndexComplete
<1>5. Left(OtherClasses, OtherClasses) /\ Len(OtherClasses) - Len(OtherClasses) = 0
  BY <1>4, AllLeft
<1>6. OfClasses(0)' = OfClasses(0) /\ OfClasses(0) = {}
  BY <1>2, SameLists, NoneYet
<1>7. InClasses'
  BY <1>1, <1>2, <1>3, <1>5, <1>6, SameTexts DEF InClasses
<1>8. Once'
  BY <1>1, <1>2 DEF Once
<1> QED BY <1>1, <1>2, <1>7, <1>8, SameTexts DEF IInv, Stages

(* The text of a class that is left is that of a class that was read.          *)
LEMMA ClassLeft ==
  ASSUME IndexComplete, NEW c \in Classes
  PROVE  LET text == ClassText(View(c))
         IN  /\ IsSequence(text)
             /\ \A e \in Range(text) : ~Plain(e)
             /\ c.xml # "ok" => Range(text) = {}
             /\ (c.xml = "ok" /\ c \notin BlockClasses) => Range(text) = ClassEntries(c)
<1>1. /\ c.kind = "class" /\ Listed(c) /\ ~Operator(c.name) /\ c.xml \in {"ok", "broken"}
  BY WorldNames DEF IndexComplete, Complete
<1>2. error(View(c)) <=> c.xml = "broken"
  BY DEF View, error
<1>3. CASE c.xml = "broken"
  <2>1. ClassText(View(c)) = <<>>
    BY <1>2, <1>3 DEF ClassText
  <2> QED BY <1>3, <2>1, EmptyAndSingle
<1>4. CASE c.xml = "ok"
  <2> DEFINE k == View(c)
             text == make_class_entry(k, Combined(c))
  <2>1. Read(c) /\ k.name = c.name /\ k.members = Mems(c)
    BY <1>1, <1>4 DEF View, Read
  <2>2. combine_descriptions(k) = Combined(c)
    BY <2>1, CombinedView
  <2>3. ClassText(k) = text
    BY <1>2, <1>4, <2>2 DEF ClassText
  <2> HIDE DEF k
  <2>4. /\ IsSequence(text)
        /\ Range(text) = (IF Combined(c) = <<>> THEN {}
                          ELSE {Entry(<<>>, c.name, Combined(c), <<>>)})
                         \cup FunctionEntries(<<c.name>>, c, {})
        /\ \A e \in Range(text) : ~Plain(e)
    BY <1>1, <2>1, ClassMade
  <2>5. c \notin BlockClasses => Range(text) = ClassEntries(c)
    BY <2>4 DEF ClassEntries
  <2> HIDE DEF text
  <2> QED BY <1>4, <2>3, <2>4, <2>5 DEF k
<1> QED BY <1>1, <1>3, <1>4

LEMMA DocumentClassSafe ==
  ASSUME IInv, DocumentClass
  PROVE  IInv'
<1> DEFINE c == Head(todo)
           text == ClassText(c)
<1>0. PICK k : k = Len(OtherClasses) - Len(todo)
  OBVIOUS
<1>1. /\ world \in Worlds /\ dir = Files(world) /\ Range(blocks) \subseteq Range(di)
      /\ written = <<>> /\ pc = "classes" /\ todo # <<>> /\ IndexComplete /\ Once
      /\ Left(todo, OtherClasses) /\ BlocksMade(Len(blocks))
      /\ Range(output) = OfBlocks(Len(blocks)) \cup OfFunctions(Len(OtherFunctions))
                         \cup OfClasses(k)
  BY <1>0 DEF IInv, InClasses, DocumentClass
<1>2. /\ pc' = "classes" /\ todo' = Tail(todo) /\ output' = output \o text
      /\ UNCHANGED <<world, dir, di, blocks, made, written>>
  BY DEF DocumentClass, Proceed, ClassText
<1>3. /\ k \in Nat /\ k + 1 \in 1..Len(OtherClasses) /\ c = OtherClasses[k + 1]
      /\ Left(Tail(todo), OtherClasses) /\ Len(OtherClasses) - Len(Tail(todo)) = k + 1
  BY <1>0, <1>1, Next1
<1>4. c \in Range(di) /\ c.cls = "DoxyClass"
  BY <1>1, <1>3, ClassesLeft, SequenceParts DEF IndexComplete
<1> HIDE DEF c
<1>5. PICK d \in Classes : c = View(d)
  BY <1>1, <1>4, IndexedClasses DEF IndexComplete
<1>6. IsSequence(text) /\ \A e \in Range(text) : ~Plain(e)
  BY <1>1, <1>5, ClassLeft
<1>7. OfClasses(k + 1) = OfClasses(k) \cup Range(text)
  BY <1>3, OneMore
<1> HIDE DEF text
<1>8. Once' /\ Range(output') = Range(output) \cup Range(text)
  BY <1>1, <1>2, <1>6, StillOnce
<1>9. OfClasses(k + 1)' = OfClasses(k + 1)
  BY <1>2, SameLists
<1>10. InClasses'
  BY <1>1, <1>2, <1>3, <1>7, <1>8, <1>9, SameTexts DEF InClasses
<1> QED BY <1>1, <1>2, <1>8, <1>10, SameTexts DEF IInv, Stages

LEMMA WriteFileSafe ==
  ASSUME IInv, WriteFile
  PROVE  IInv'
<1>1. /\ world \in Worlds /\ dir = Files(world) /\ Range(blocks) \subseteq Range(di)
      /\ pc = "classes" /\ todo = <<>> /\ IndexComplete /\ Once
      /\ Left(todo, OtherClasses) /\ BlocksMade(Len(blocks))
      /\ Range(output) = OfBlocks(Len(blocks)) \cup OfFunctions(Len(OtherFunctions))
                         \cup OfClasses(Len(OtherClasses) - Len(todo))
  BY DEF IInv, InClasses, WriteFile
<1>2. /\ pc' = "done" /\ written' = output
      /\ UNCHANGED <<world, dir, di, blocks, made, output>>
  BY DEF WriteFile, Proceed
<1>3. Len(OtherClasses) - Len(todo) = Len(OtherClasses)
  BY <1>1, NoneLeft
<1>4. InFile'
  BY <1>1, <1>2, <1>3, SameTexts DEF InFile
<1>5. Once'
  BY <1>1, <1>2 DEF Once
<1> QED BY <1>1, <1>2, <1>4, <1>5, SameTexts DEF IInv, Stages

LEMMA ExitedSafe ==
  ASSUME IInv, UNCHANGED vars
  PROVE  IInv'
<1>1. /\ pc' = pc /\ todo' = todo /\ output' = output /\ written' = written /\ dir' = dir
      /\ UNCHANGED <<world, di, blocks, made>>
  BY DEF vars
<1>2. Unusable' <=> Unusable
  BY <1>1, SameWorld
<1>3. Reading' <=> Reading
  BY <1>1 DEF Reading
<1>4. Once' <=> Once
  BY <1>1 DEF Once
<1>5. InBlocks' <=> InBlocks
  <2>1. PICK k : k = Len(blocks) - Len(todo)
    OBVIOUS
  <2>2. (BlocksMade(k)' <=> BlocksMade(k)) /\ OfBlocks(k)' = OfBlocks(k)
    BY <1>1, SameBlocks, SameLists
  <2> QED BY <1>1, <2>1, <2>2 DEF InBlocks
<1>6. InFunctions' <=> InFunctions
  <2>1. PICK k : k = Len(OtherFunctions) - Len(todo)
    OBVIOUS
  <2>2. OfFunctions(k)' = OfFunctions(k)
    BY <1>1, SameLists
  <2> QED BY <1>1, <2>1, <2>2, SameTexts DEF InFunctions
<1>7. InClasses' <=> InClasses
  <2>1. PICK k : k = Len(OtherClasses) - Len(todo)
    OBVIOUS
  <2>2. OfClasses(k)' = OfClasses(k)
    BY <1>1, SameLists
  <2> QED BY <1>1, <2>1, <2>2, SameTexts DEF InClasses
<1>8. InFile' <=> InFile
  BY <1>1, SameTexts DEF InFile
<1> QED BY <1>1, <1>2, <1>3, <1>4, <1>5, <1>6, <1>7, <1>8, SameTexts DEF IInv

LEMMA Invariance == Spec => []IInv
<1>1. Init => IInv
  BY Initial
<1>2. IInv /\ [Next]_vars => IInv'
  BY ReadCompoundSafe, FindBlocksSafe, DocumentBlockSafe, FindFunctionsSafe,
     DocumentFunctionSafe, FindClassesSafe, DocumentClassSafe, WriteFileSafe, ExitedSafe
  DEF Next, Exited
<1> QED BY <1>1, <1>2, PTL DEF Spec
-------------------------------------------------------------------------------
(* What the invariant says *)

(* What is left of a list is part of it.                                       *)
LEMMA LeftPart ==
  ASSUME NEW rest, NEW list, Left(rest, list)
  PROVE  \A x \in Range(rest) : x \in Range(list)
<1>1. /\ Len(rest) \in Nat /\ Len(list) \in Nat /\ Len(rest) <= Len(list)
      /\ Range(rest) = {rest[i] : i \in 1..Len(rest)}
      /\ Range(list) = {list[i] : i \in 1..Len(list)}
      /\ \A i \in 1..Len(rest) : rest[i] = list[Len(list) - Len(rest) + i]
  BY SequenceParts DEF Left
<1>2. \A i \in 1..Len(rest) : Len(list) - Len(rest) + i \in 1..Len(list)
  BY <1>1
<1> QED BY <1>1, <1>2

LEMMA TypeFollows ==
  ASSUME IInv
  PROVE  TypeOK
<1>1. ASSUME pc = "functions", NEW f \in Range(todo)
      PROVE  f.cls = "DoxyFunction"
  <2>1. Complete /\ Left(todo, OtherFunctions)
    BY <1>1 DEF IInv, IndexComplete, InFunctions
  <2>2. f \in Range(OtherFunctions)
    BY <1>1, <2>1, LeftPart
  <2> QED BY <2>1, <2>2, FunctionsLeft
<1>2. ASSUME pc = "blocks", NEW k \in Range(todo)
      PROVE  k.cls = "DoxyClass"
  <2>1. Complete /\ blocks = BlockList /\ Left(todo, blocks)
    BY <1>2 DEF IInv, IndexComplete, InBlocks
  <2>2. k \in Range(BlockList)
    BY <1>2, <2>1, LeftPart
  <2>3. PICK i \in 1..Len(BlockList) : k = BlockList[i]
    BY <2>1, <2>2, BlocksListed, SequenceParts
  <2>4. PICK c \in BlockClasses : k = View(c)
    BY <2>1, <2>3, BlocksListed
  <2> QED BY <2>1, <2>4, IndexedClasses DEF BlockClasses
<1>3. ASSUME pc = "classes", NEW k \in Range(todo)
      PROVE  k.cls = "DoxyClass"
  <2>1. Complete /\ Left(todo, OtherClasses)
    BY <1>3 DEF IInv, IndexComplete, InClasses
  <2>2. k \in Range(OtherClasses)
    BY <1>3, <2>1, LeftPart
  <2> QED BY <2>1, <2>2, ClassesLeft
<1>4. pc \in Stages /\ (written # <<>> => pc = "done") /\ \A b \in Range(blocks) : b \in Range(di)
  BY DEF IInv
<1> QED BY <1>1, <1>2, <1>3, <1>4 DEF TypeOK

(* Every block was usable when all of them are documented.                     *)
LEMMA BlocksUsable ==
  ASSUME IndexComplete, BlocksMade(Len(blocks)), NEW c \in BlockClasses
  PROVE  Usable(c)
<1>1. /\ world \in Worlds /\ Complete /\ blocks = BlockList
      /\ \A i \in 1..Len(blocks) : \E d \in BlockClasses : blocks[i] = View(d) /\ Usable(d)
  BY DEF IndexComplete, Complete, BlocksMade
<1>2. PICK i \in 1..Len(blocks) : blocks[i] = View(c)
  BY <1>1, BlocksListed
<1>3. PICK d \in BlockClasses : blocks[i] = View(d) /\ Usable(d)
  BY <1>1
<1>4. c \in Classes /\ d \in Classes
  BY DEF BlockClasses
<1>5. View(c).name = c.name /\ View(d).name = d.name
  BY DEF View
<1>6. c = d
  BY <1>1, <1>2, <1>3, <1>4, <1>5, WorldNames
<1> QED BY <1>3, <1>6

LEMMA GivesUpFollows ==
  ASSUME IInv
  PROVE  GivesUpOnlyIfUnusable
<1>1. pc = "aborted" => Unusable
  BY DEF IInv
<1>2. ASSUME pc = "done"
      PROVE  ~Unusable
  <2>1. /\ world \in Worlds /\ Complete /\ IndexComplete /\ BlocksMade(Len(blocks))
        /\ \A j \in 1..Len(world) : /\ world[j].kind \in KnownKinds
                                    /\ Header(world[j]) => world[j].xml = "ok"
        /\ \A c \in Classes : c.xml # "missing"
    BY <1>2 DEF IInv, InFile, IndexComplete, Complete
  <2>2. \A c \in Range(world) : c.kind \in KnownKinds
    BY <2>1, WorldParts
  <2>3. \A h \in HeaderFiles : world[h].xml = "ok"
    BY <2>1, WorldNames
  <2>4. ASSUME NEW c \in BlockClasses
        PROVE  /\ Cardinality(MakersOf(c)) = 1 /\ ~(Cardinality(HeadersOf(c)) > 1)
               /\ NamedFunctions(c, c.name) # {}
    <3>1. Usable(c)
      BY <2>1, BlocksUsable
    <3>2. Cardinality(HeadersOf(c)) \in Nat
      BY <2>1, Lookups
    <3> QED BY <3>1, <3>2 DEF Usable
  <2> QED BY <2>1, <2>2, <2>3, <2>4 DEF Unusable
<1> QED BY <1>1, <1>2 DEF GivesUpOnlyIfUnusable
(* What the three loops have written in the end is what is promised of the     *)
(* blocks, of the functions and of the other classes.                          *)
MakeNamesOfBlocks == {make_name(c.name) : c \in BlockClasses}

LEMMA AllMade ==
  ASSUME IndexComplete, BlocksMade(Len(blocks))
  PROVE  made = MakeNamesOfBlocks
<1>1. /\ made = {make_name(blocks[i].name) : i \in 1..Len(blocks)}
      /\ \A i \in 1..Len(blocks) : \E c \in BlockClasses : blocks[i] = View(c)
      /\ \A c \in BlockClasses : \E i \in 1..Len(blocks) : blocks[i] = View(c)
  BY BlocksListed DEF IndexComplete, BlocksMade
<1>2. \A c : View(c).name = c.name
  BY DEF View
<1>3. \A i \in 1..Len(blocks) : \E c \in BlockClasses : blocks[i].name = c.name
  BY <1>1, <1>2
<1>4. \A c \in BlockClasses : \E i \in 1..Len(blocks) : blocks[i].name = c.name
  BY <1>1, <1>2
<1> HIDE DEF BlockClasses
<1>5. ASSUME NEW n \in made
      PROVE  n \in MakeNamesOfBlocks
  <2>1. PICK i \in 1..Len(blocks) : n = make_name(blocks[i].name)
    BY <1>1, <1>5
  <2>2. PICK c \in BlockClasses : blocks[i].name = c.name
    BY <1>3, <2>1
  <2> QED BY <2>1, <2>2 DEF MakeNamesOfBlocks
<1>6. ASSUME NEW n \in MakeNamesOfBlocks
      PROVE  n \in made
  <2>1. PICK c \in BlockClasses : n = make_name(c.name)
    BY <1>6 DEF MakeNamesOfBlocks
  <2>2. PICK i \in 1..Len(blocks) : blocks[i].name = c.name
    BY <1>4, <2>1
  <2> QED BY <1>1, <2>1, <2>2
<1> QED BY <1>5, <1>6

LEMMA AllBlocks ==
  ASSUME IndexComplete, BlocksMade(Len(blocks)), NEW e
  PROVE  e \in OfBlocks(Len(blocks)) <=>
           \E c \in BlockClasses : e \in ClassEntries(c) \/ e = MakeEntry(c)
<1>1. /\ Complete
      /\ \A i \in 1..Len(blocks) : \E c \in BlockClasses : blocks[i] = View(c)
      /\ \A c \in BlockClasses : \E i \in 1..Len(blocks) : blocks[i] = View(c)
  BY BlocksListed DEF IndexComplete
<1>2. \A c \in BlockClasses :
         Range(make_block_entry(View(c))) = ClassEntries(c) \cup {MakeEntry(c)}
  BY <1>1, BlocksUsable, BlockMade
<1>3. e \in OfBlocks(Len(blocks)) <=>
         \E i \in 1..Len(blocks) : e \in Range(make_block_entry(blocks[i]))
  BY DEF OfBlocks
<1> QED BY <1>1, <1>2, <1>3

LEMMA AllFunctions ==
  ASSUME IndexComplete, BlocksMade(Len(blocks)), NEW e
  PROVE  e \in OfFunctions(Len(OtherFunctions)) <=>
           \E h \in HeaderFiles : e \in FunctionEntries(<<>>, world[h], MakeNamesOfBlocks)
<1>1. /\ Complete /\ world \in Worlds /\ made = MakeNamesOfBlocks
      /\ \A h \in HeaderFiles : h \in 1..Len(world)
  BY AllMade, WorldNames DEF IndexComplete, Complete
<1>2. \A h \in HeaderFiles : \A i \in Functions(world[h]) :
         IsSequence(members(world[h])[i].params)
  <2> TAKE h \in HeaderFiles
  <2> TAKE i \in Functions(world[h])
  <2>1. Listed(world[h])
    BY <1>1, WorldParts
  <2>2. i \in 1..Len(members(world[h]))
    BY <2>1, Kept DEF Functions
  <2> QED BY <2>1, <2>2 DEF Listed
<1>3. \A f : f \in Range(OtherFunctions) <=>
         \E h \in HeaderFiles : \E i \in Functions(world[h]) :
            f = Described(members(world[h])[i]) /\ f.name \notin MakeNamesOfBlocks
  <2>1. \A f : f \in Range(OtherFunctions) <=>
           f \in {x \in Range(di) : x.cls = "DoxyFunction"} /\ f.name \notin made
    BY <1>1, FunctionsLeft
  <2>2. \A f : f \in {x \in Range(di) : x.cls = "DoxyFunction"} <=>
           \E h \in HeaderFiles : \E i \in Functions(world[h]) : f = Described(members(world[h])[i])
    <3>1. \A f : f \in UNION {{Described(members(world[h])[i]) : i \in Functions(world[h])} :
                             h \in HeaderFiles}
                 <=> \E h \in HeaderFiles : \E i \in Functions(world[h]) :
                        f = Described(members(world[h])[i])
      <4> DEFINE Of(h) == {Described(members(world[h])[i]) : i \in Functions(world[h])}
      <4>1. \A f, h : f \in Of(h) <=>
               \E i \in Functions(world[h]) : f = Described(members(world[h])[i])
        OBVIOUS
      <4> HIDE DEF Of
      <4>2. \A f : f \in UNION {Of(h) : h \in HeaderFiles} <=> \E h \in HeaderFiles : f \in Of(h)
        OBVIOUS
      <4>3. \A f : f \in UNION {Of(h) : h \in HeaderFiles} <=>
               \E h \in HeaderFiles : \E i \in Functions(world[h]) :
                  f = Described(members(world[h])[i])
        BY <4>1, <4>2
      <4> QED BY <4>3 DEF Of
    <3>2. {x \in Range(di) : x.cls = "DoxyFunction"} =
             UNION {{Described(members(world[h])[i]) : i \in Functions(world[h])} : h \in HeaderFiles}
      BY <1>1, IndexedFunctions
    <3> QED BY <3>1, <3>2
  <2> QED BY <1>1, <2>1, <2>2
<1>4. e \in OfFunctions(Len(OtherFunctions)) <=>
         \E f \in Range(OtherFunctions) : e \in Range(FunctionText(f))
  <2>1. Range(OtherFunctions) = {OtherFunctions[i] : i \in 1..Len(OtherFunctions)}
    BY <1>1, FunctionsLeft, SequenceParts
  <2>2. e \in OfFunctions(Len(OtherFunctions)) <=>
           \E i \in 1..Len(OtherFunctions) : e \in Range(FunctionText(OtherFunctions[i]))
    BY DEF OfFunctions
  <2> QED BY <2>1, <2>2
<1>5. \A m : IsSequence(m.params) =>
         (e \in Range(FunctionText(Described(m))) <=>
             ~Operator(m.name) /\ e = FunctionEntry(<<>>, m, Combined(m), m.params))
  <2> TAKE m
  <2> HAVE IsSequence(m.params)
  <2>1. FunctionText(Described(m)) =
           IF Operator(m.name) THEN <<>>
           ELSE <<FunctionEntry(<<>>, m, Combined(m), m.params)>>
    BY FunctionMade DEF FunctionText
  <2>2. CASE Operator(m.name)
    BY <2>1, <2>2, EmptyAndSingle
  <2>3. CASE ~Operator(m.name)
    BY <2>1, <2>3, EmptyAndSingle
  <2> QED BY <2>2, <2>3
<1>6. \A m : Described(m).name = m.name
  BY DEF Described
<1>7. \A h : e \in FunctionEntries(<<>>, world[h], MakeNamesOfBlocks) <=>
         \E i \in Functions(world[h]) :
            /\ ~Operator(members(world[h])[i].name)
            /\ members(world[h])[i].name \notin MakeNamesOfBlocks
            /\ e = FunctionEntry(<<>>, members(world[h])[i], Combined(members(world[h])[i]),
                                 members(world[h])[i].params)
  BY DEF FunctionEntries
<1>8. ASSUME e \in OfFunctions(Len(OtherFunctions))
      PROVE  \E h \in HeaderFiles : e \in FunctionEntries(<<>>, world[h], MakeNamesOfBlocks)
  <2>1. PICK f \in Range(OtherFunctions) : e \in Range(FunctionText(f))
    BY <1>4, <1>8
  <2>2. PICK h \in HeaderFiles : \E i \in Functions(world[h]) :
            f = Described(members(world[h])[i]) /\ f.name \notin MakeNamesOfBlocks
    BY <1>3, <2>1
  <2>3. PICK i \in Functions(world[h]) :
            f = Described(members(world[h])[i]) /\ f.name \notin MakeNamesOfBlocks
    BY <2>2
  <2> QED BY <1>2, <1>5, <1>6, <1>7, <2>1, <2>3
<1>9. ASSUME NEW h \in HeaderFiles, e \in FunctionEntries(<<>>, world[h], MakeNamesOfBlocks)
      PROVE  e \in OfFunctions(Len(OtherFunctions))
  <2>1. PICK i \in Functions(world[h]) :
            /\ ~Operator(members(world[h])[i].name)
            /\ members(world[h])[i].name \notin MakeNamesOfBlocks
            /\ e = FunctionEntry(<<>>, members(world[h])[i], Combined(members(world[h])[i]),
                                 members(world[h])[i].params)
    BY <1>7, <1>9
  <2>2. Described(members(world[h])[i]) \in Range(OtherFunctions)
    BY <1>3, <1>6, <2>1
  <2>3. e \in Range(FunctionText(Described(members(world[h])[i])))
    BY <1>2, <1>5, <2>1
  <2> QED BY <1>4, <2>2, <2>3
<1> QED BY <1>8, <1>9

LEMMA AllClasses ==
  ASSUME IndexComplete, NEW e
  PROVE  e \in OfClasses(Len(OtherClasses)) <=>
           \E c \in Classes : c.xml = "ok" /\ c \notin BlockClasses /\ e \in ClassEntries(c)
<1>1. Complete /\ world \in Worlds /\ blocks = BlockList
  BY DEF IndexComplete, Complete
<1>2. \A c : View(c).name = c.name
  BY DEF View
<1>3. \A c \in Classes : (\A b \in Range(blocks) : b.name # c.name) <=> c \notin BlockClasses
  <2>1. /\ Range(blocks) = {blocks[i] : i \in 1..Len(blocks)}
        /\ \A i \in 1..Len(blocks) : \E c \in BlockClasses : blocks[i] = View(c)
        /\ \A c \in BlockClasses : \E i \in 1..Len(blocks) : blocks[i] = View(c)
    BY <1>1, BlocksListed, SequenceParts
  <2>2. \A b \in Range(blocks) : \E c \in BlockClasses : b = View(c)
    BY <2>1
  <2>3. \A c \in BlockClasses : View(c) \in Range(blocks)
    BY <2>1
  <2>4. \A c \in BlockClasses : c \in Classes
    BY DEF BlockClasses
  <2> QED BY <1>1, <1>2, <2>2, <2>3, <2>4, WorldNames
<1>4. \A x : x \in Range(OtherClasses) <=> \E c \in Classes : x = View(c) /\ c \notin BlockClasses
  <2>1. \A x : x \in Range(OtherClasses) <=>
           x \in Range(di) /\ x.cls = "DoxyClass" /\ \A b \in Range(blocks) : b.name # x.name
    BY <1>1, ClassesLeft
  <2>2. \A x \in Range(di) : x.cls = "DoxyClass" => \E c \in Classes : x = View(c)
    BY <1>1, IndexedClasses
  <2>3. \A c \in Classes : View(c) \in Range(di) /\ View(c).cls = "DoxyClass"
    BY <1>1, IndexedClasses
  <2> QED BY <1>2, <1>3, <2>1, <2>2, <2>3
<1>5. e \in OfClasses(Len(OtherClasses)) <=>
         \E x \in Range(OtherClasses) : e \in Range(ClassText(x))
  <2>1. Range(OtherClasses) = {OtherClasses[i] : i \in 1..Len(OtherClasses)}
    BY <1>1, ClassesLeft, SequenceParts
  <2>2. e \in OfClasses(Len(OtherClasses)) <=>
           \E i \in 1..Len(OtherClasses) : e \in Range(ClassText(OtherClasses[i]))
    BY DEF OfClasses
  <2> QED BY <2>1, <2>2
<1>6. \A c \in Classes : c \notin BlockClasses =>
         Range(ClassText(View(c))) = IF c.xml = "ok" THEN ClassEntries(c) ELSE {}
  BY ClassLeft
<1> QED BY <1>4, <1>5, <1>6

LEMMA AllPromised ==
  ASSUME IndexComplete, BlocksMade(Len(blocks))
  PROVE  OfBlocks(Len(blocks)) \cup OfFunctions(Len(OtherFunctions))
         \cup OfClasses(Len(OtherClasses)) = Promised
<1>1. \A c \in BlockClasses : c \in Classes /\ c.xml = "ok"
  BY DEF BlockClasses
<1>2. ASSUME NEW e
      PROVE  e \in Promised <=>
               \/ \E c \in Classes : c.xml = "ok" /\ e \in ClassEntries(c)
               \/ \E c \in BlockClasses : e = MakeEntry(c)
               \/ \E h \in HeaderFiles : e \in FunctionEntries(<<>>, world[h], MakeNamesOfBlocks)
  <2>1. e \in UNION {ClassEntries(c) : c \in {d \in Classes : d.xml = "ok"}} <=>
           \E c \in Classes : c.xml = "ok" /\ e \in ClassEntries(c)
    OBVIOUS
  <2>2. e \in {MakeEntry(c) : c \in BlockClasses} <=> \E c \in BlockClasses : e = MakeEntry(c)
    OBVIOUS
  <2>3. e \in UNION {FunctionEntries(<<>>, world[h], MakeNamesOfBlocks) : h \in HeaderFiles} <=>
           \E h \in HeaderFiles : e \in FunctionEntries(<<>>, world[h], MakeNamesOfBlocks)
    OBVIOUS
  <2>4. Promised =
           (UNION {ClassEntries(c) : c \in {d \in Classes : d.xml = "ok"}})
           \cup {MakeEntry(c) : c \in BlockClasses}
           \cup (UNION {FunctionEntries(<<>>, world[h], MakeNamesOfBlocks) : h \in HeaderFiles})
    BY DEF Promised, MakeNamesOfBlocks
  <2> QED BY <2>1, <2>2, <2>3, <2>4
<1>3. ASSUME NEW e
      PROVE  e \in OfBlocks(Len(blocks)) \cup OfFunctions(Len(OtherFunctions))
                   \cup OfClasses(Len(OtherClasses)) <=> e \in Promised
  <2>1. e \in OfBlocks(Len(blocks)) <=>
           \E c \in BlockClasses : e \in ClassEntries(c) \/ e = MakeEntry(c)
    BY AllBlocks
  <2>2. e \in OfFunctions(Len(OtherFunctions)) <=>
           \E h \in HeaderFiles : e \in FunctionEntries(<<>>, world[h], MakeNamesOfBlocks)
    BY AllFunctions
  <2>3. e \in OfClasses(Len(OtherClasses)) <=>
           \E c \in Classes : c.xml = "ok" /\ c \notin BlockClasses /\ e \in ClassEntries(c)
    BY AllClasses
  <2> QED BY <1>1, <1>2, <2>1, <2>2, <2>3
<1> QED BY <1>3

LEMMA DocumentsFollows ==
  ASSUME IInv
  PROVE  DocumentsAll
<1> SUFFICES ASSUME pc = "done" PROVE DocumentsAll
  BY DEF DocumentsAll
<1>1. /\ IndexComplete /\ Once /\ BlocksMade(Len(blocks)) /\ written = output
      /\ Range(output) = OfBlocks(Len(blocks)) \cup OfFunctions(Len(OtherFunctions))
                         \cup OfClasses(Len(OtherClasses))
  BY DEF IInv, InFile
<1>2. Range(written) = Promised
  BY <1>1, AllPromised
<1>3. ASSUME NEW c \in BlockClasses
      PROVE  Cardinality({i \in DOMAIN written : /\ written[i].klass = <<>>
                                                 /\ written[i].name = make_name(c.name)
                                                 /\ written[i].params # <<>>}) <= 1
  <2> DEFINE I == {i \in DOMAIN written : /\ written[i].klass = <<>>
                                          /\ written[i].name = make_name(c.name)
                                          /\ written[i].params # <<>>}
  <2>1. DOMAIN written = 1..Len(output)
    BY <1>1, SequenceParts DEF Once
  <2>2. make_name(c.name) \in made
    BY <1>1, AllMade DEF MakeNamesOfBlocks
  <2>3. \A p, q \in I : p = q
    BY <1>1, <2>1, <2>2 DEF Once, Plain
  <2> HIDE DEF I
  <2>4. I = {} \/ \E p : I = {p}
    BY <2>3
  <2>5. Cardinality({}) = 0 /\ \A p : Cardinality({p}) = 1
    BY FS_EmptySet, FS_Singleton
  <2>6. Cardinality(I) = 0 \/ Cardinality(I) = 1
    BY <2>4, <2>5, Zenon
  <2>7. Cardinality(I) <= 1
    BY <2>6
  <2> QED BY <2>7 DEF I
<1> QED BY <1>2, <1>3 DEF DocumentsAll

-------------------------------------------------------------------------------
(* The theorems *)

(* Whatever the source tree, and whatever reader reads what Doxygen wrote as   *)
(* it was meant, the loops of make_swig_interface_file only meet objects of    *)
(* the class they take, and the file is written at the end and not before.     *)
THEOREM TypeCorrect == Spec => []TypeOK
<1>1. IInv => TypeOK
  BY TypeFollows
<1> QED BY <1>1, Invariance, PTL

(* The script gives up exactly on the inputs listed in Unusable: an exception  *)
(* that escapes means such an input, and such an input is never passed over in *)
(* silence; a class that cannot be parsed does not end the script.             *)
THEOREM GivesUpCorrect == Spec => []GivesUpOnlyIfUnusable
<1>1. IInv => GivesUpOnlyIfUnusable
  BY GivesUpFollows
<1> QED BY <1>1, Invariance, PTL

(* The file that is written holds exactly the promised entries, from however   *)
(* many headers, classes and overloads, and no block's make function twice,    *)
(* though the loop over functions meets it again (swig_doc.py:209-210).        *)
THEOREM DocumentsCorrect == Spec => []DocumentsAll
<1>1. IInv => DocumentsAll
  BY DocumentsFollows
<1> QED BY <1>1, Invariance, PTL
===============================================================================
