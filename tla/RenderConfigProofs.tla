------------------------- MODULE RenderConfigProofs -------------------------
(***************************************************************************)
(* RenderConfig keeps RenderInv, which implies MergedInOrder, Verbatim and *)
(* OnlyNamedVariables. The proof rests on three facts about its operators: *)
(* replacing in two steps is replacing at once (SubstituteTwice), the      *)
(* documents with one more give what is merged from it into what they gave *)
(* before (CombinedOfMore), and the last documents are carried by all of   *)
(* them together (LastInEffect).                                           *)
(***************************************************************************)
EXTENDS RenderConfig, SequenceFacts

(***************************************************************************)
(* The texts that words are replaced by are texts over T.                  *)
(***************************************************************************)
IsImage(f, T) == f \in [DOMAIN f -> Seq(T)]

(***************************************************************************)
(* What a word is replaced by.                                             *)
(***************************************************************************)
Piece(w, f) == IF w \in DOMAIN f THEN f[w] ELSE <<w>>

(***************************************************************************)
(* A text is expanded word by word.                                        *)
(***************************************************************************)
LEMMA ExpandType ==
  ASSUME NEW T, NEW t \in Seq(T), NEW f, IsImage(f, T)
  PROVE  Expand(t, f) \in Seq(T) /\ Expand(<<>>, f) = <<>>
<1> DEFINE s == [i \in DOMAIN t |-> Piece(t[i], f)]
<1>1. \A i \in DOMAIN t : Piece(t[i], f) \in Seq(T)
  <2>1. \A i \in DOMAIN t : t[i] \in T
    BY ElementOfSeq
  <2> QED BY <2>1 DEF Piece, IsImage
<1>2. s \in Seq(Seq(T))
  BY <1>1
<1>3. Expand(t, f) = FlattenSeq(s)
  BY DEF Expand, Piece
<1>4. Expand(<<>>, f) = <<>>
  BY DEF Expand, FlattenSeq
<1> HIDE DEF s
<1> QED BY <1>2, <1>3, <1>4, FlattenType

(***************************************************************************)
(* A text with one word more.                                              *)
(***************************************************************************)
LEMMA ExpandAppend ==
  ASSUME NEW T, NEW t \in Seq(T), NEW w \in T, NEW f, IsImage(f, T)
  PROVE  Expand(Append(t, w), f) = Expand(t, f) \o Piece(w, f)
<1> DEFINE g == [x \in T |-> Piece(x, f)]
           u == Append(t, w)
           s == [i \in DOMAIN t |-> g[t[i]]]
           r == [i \in DOMAIN u |-> g[u[i]]]
<1>1. g \in [T -> Seq(T)]
  <2>1. \A x \in T : Piece(x, f) \in Seq(T)
    BY DEF Piece, IsImage
  <2> QED BY <2>1
<1>2. u \in Seq(T)
  BY AppendProperties
<1>3. Expand(t, f) = FlattenSeq(s)
  <2>1. \A i \in DOMAIN t : g[t[i]] = Piece(t[i], f)
    BY ElementOfSeq
  <2> HIDE DEF g
  <2>2. s = [i \in DOMAIN t |-> Piece(t[i], f)]
    BY <2>1
  <2> QED BY <2>2 DEF Expand, Piece
<1>4. Expand(u, f) = FlattenSeq(r)
  <2> HIDE DEF u
  <2>1. \A i \in DOMAIN u : g[u[i]] = Piece(u[i], f)
    BY <1>2, ElementOfSeq
  <2> HIDE DEF g
  <2>2. r = [i \in DOMAIN u |-> Piece(u[i], f)]
    BY <2>1
  <2> QED BY <2>2 DEF Expand, Piece
<1>5. g[w] = Piece(w, f)
  OBVIOUS
<1> HIDE DEF g
<1>6. s \in Seq(Seq(T)) /\ r = Append(s, g[w])
  <2> DEFINE U == Seq(T)
  <2>1. g \in [T -> U]
    BY <1>1
  <2> HIDE DEF U
  <2>2. s \in Seq(U) /\ r = Append(s, g[w])
    BY <2>1, MapAppend
  <2> QED BY <2>2 DEF U
<1> HIDE DEF s, r
<1>7. g[w] \in Seq(T)
  BY <1>1
<1>8. FlattenSeq(Append(s, g[w])) = FlattenSeq(s) \o g[w]
  BY <1>6, <1>7, FlattenAppend
<1> QED BY <1>3, <1>4, <1>5, <1>6, <1>8 DEF u

(***************************************************************************)
(* A text after another one: by induction on its words.                    *)
(***************************************************************************)
LEMMA ExpandConcat ==
  ASSUME NEW T, NEW s \in Seq(T), NEW f, IsImage(f, T)
  PROVE  \A t \in Seq(T) : Expand(s \o t, f) = Expand(s, f) \o Expand(t, f)
<1> DEFINE S == {t \in Seq(T) : Expand(s \o t, f) = Expand(s, f) \o Expand(t, f)}
<1>0. \A t \in Seq(T) : Expand(t, f) \in Seq(T)
  BY ExpandType
<1>1. <<>> \in S
  <2>1. Expand(<<>>, f) = <<>>
    BY DEF Expand, FlattenSeq
  <2>2. Expand(s, f) \in Seq(T) /\ s \in Seq(T)
    BY <1>0
  <2>3. s \o <<>> = s /\ Expand(s, f) \o <<>> = Expand(s, f)
    BY <2>2, ConcatEmptySeq
  <2>4. <<>> \in Seq(T)
    OBVIOUS
  <2> QED BY <2>1, <2>3, <2>4
<1>2. ASSUME NEW t \in S, NEW w \in T PROVE Append(t, w) \in S
  <2> DEFINE es == Expand(s, f)
             et == Expand(t, f)
             p == Piece(w, f)
  <2>0. t \in Seq(T)
    OBVIOUS
  <2>1. s \o t \in Seq(T) /\ Append(t, w) \in Seq(T)
    BY <2>0, ConcatProperties, AppendProperties
  <2>2. Expand(Append(s \o t, w), f) = Expand(s \o t, f) \o p
    BY <2>1, ExpandAppend
  <2>3. Expand(Append(t, w), f) = et \o p
    BY <2>0, ExpandAppend
  <2>4. s \o Append(t, w) = Append(s \o t, w)
    <3>1. Append(t, w) = t \o <<w>> /\ Append(s \o t, w) = (s \o t) \o <<w>>
      BY <2>0, <2>1, AppendIsConcat
    <3>2. <<w>> \in Seq(T) /\ s \in Seq(T) /\ t \in Seq(T)
      BY <2>0
    <3>3. (s \o t) \o <<w>> = s \o (t \o <<w>>)
      BY <3>2, ConcatAssociative
    <3> QED BY <3>1, <3>3
  <2>5. es \in Seq(T) /\ et \in Seq(T) /\ p \in Seq(T)
    <3>1. p \in Seq(T)
      BY DEF Piece, IsImage
    <3> QED BY <3>1, <2>0, <1>0
  <2>6. Expand(s \o t, f) = es \o et
    OBVIOUS
  <2> HIDE DEF es, et, p
  <2>7. (es \o et) \o p = es \o (et \o p)
    BY <2>5, ConcatAssociative
  <2>8. Expand(s \o Append(t, w), f) = es \o Expand(Append(t, w), f)
    BY <2>2, <2>3, <2>4, <2>6, <2>7
  <2> QED BY <2>1, <2>8 DEF es
<1>3. S = Seq(T)
  <2>1. S \in SUBSET Seq(T)
    OBVIOUS
  <2> HIDE DEF S
  <2> QED BY <1>1, <1>2, <2>1, SequenceInduction
<1> QED BY <1>3

(***************************************************************************)
(* Without a word to replace a text stays as it is.                        *)
(***************************************************************************)
LEMMA ExpandNothing ==
  ASSUME NEW T, NEW f, IsImage(f, T)
  PROVE  \A t \in Seq(T) : ToSet(t) \cap DOMAIN f = {} => Expand(t, f) = t
<1> DEFINE S == {t \in Seq(T) : ToSet(t) \cap DOMAIN f = {} => Expand(t, f) = t}
<1>1. <<>> \in S
  BY DEF Expand, FlattenSeq
<1>2. ASSUME NEW t \in S, NEW w \in T PROVE Append(t, w) \in S
  <2>0. t \in Seq(T)
    OBVIOUS
  <2>1. Append(t, w) \in Seq(T) /\ Append(t, w) = t \o <<w>>
    BY <2>0, AppendProperties, AppendIsConcat
  <2>2. ASSUME ToSet(Append(t, w)) \cap DOMAIN f = {} PROVE Expand(Append(t, w), f) = Append(t, w)
    <3>1. w \in ToSet(Append(t, w)) /\ ToSet(t) \subseteq ToSet(Append(t, w))
      BY <2>0, SetOfAppend
    <3>2. Expand(t, f) = t
      BY <3>1, <2>2
    <3>3. Piece(w, f) = <<w>>
      BY <3>1, <2>2 DEF Piece
    <3>4. Expand(Append(t, w), f) = Expand(t, f) \o Piece(w, f)
      BY <2>0, ExpandAppend
    <3> QED BY <3>2, <3>3, <3>4, <2>1
  <2> QED BY <2>1, <2>2
<1>3. S = Seq(T)
  <2>1. S \in SUBSET Seq(T)
    OBVIOUS
  <2> HIDE DEF S
  <2> QED BY <1>1, <1>2, <2>1, SequenceInduction
<1> QED BY <1>3

(***************************************************************************)
(* Expanding a second time reaches only what the first left: when the      *)
(* texts put in first have no word that the second replaces, the two are   *)
(* one expansion.                                                          *)
(***************************************************************************)
Either(f, g) == [w \in DOMAIN f \cup DOMAIN g |-> IF w \in DOMAIN f THEN f[w] ELSE g[w]]

(***************************************************************************)
(* Replacing first the one words, then the others, is replacing all at     *)
(* once, if no text of the first brings in a word of the others.           *)
(***************************************************************************)
LEMMA ExpandTwice ==
  ASSUME NEW T, NEW f, IsImage(f, T), NEW g, IsImage(g, T),
         \A w \in DOMAIN f : ToSet(f[w]) \cap DOMAIN g = {}
  PROVE  \A t \in Seq(T) : Expand(Expand(t, f), g) = Expand(t, Either(f, g))
<1> DEFINE h == Either(f, g)
           S == {t \in Seq(T) : Expand(Expand(t, f), g) = Expand(t, h)}
<1>0. IsImage(h, T)
  BY DEF IsImage, Either
<1>1. <<>> \in S
  <2>1. Expand(<<>>, f) = <<>> /\ Expand(<<>>, g) = <<>> /\ Expand(<<>>, h) = <<>>
    BY DEF Expand, FlattenSeq
  <2> QED BY <2>1
<1>2. ASSUME NEW t \in S, NEW w \in T PROVE Append(t, w) \in S
  <2> DEFINE et == Expand(t, f)
             p == Piece(w, f)
  <2>0. t \in Seq(T) /\ Append(t, w) \in Seq(T)
    BY AppendProperties
  <2>1. et \in Seq(T) /\ p \in Seq(T)
    <3>1. et \in Seq(T)
      BY <2>0, ExpandType
    <3>2. p \in Seq(T)
      BY DEF Piece, IsImage
    <3> QED BY <3>1, <3>2
  <2>2. Expand(Append(t, w), f) = et \o p
    BY <2>0, ExpandAppend
  <2>3. Expand(et \o p, g) = Expand(et, g) \o Expand(p, g)
    <3> HIDE DEF et, p
    <3> QED BY <2>1, ExpandConcat
  <2>4. Expand(p, g) = Piece(w, h)
    <3>1. CASE w \in DOMAIN f
      <4>1. p = f[w] /\ f[w] \in Seq(T) /\ ToSet(f[w]) \cap DOMAIN g = {}
        BY <3>1 DEF Piece, IsImage
      <4>2. Expand(f[w], g) = f[w]
        BY <4>1, ExpandNothing
      <4>3. Piece(w, h) = f[w]
        BY <3>1 DEF Piece, Either
      <4> HIDE DEF p
      <4> QED BY <4>1, <4>2, <4>3
    <3>2. CASE w \notin DOMAIN f
      <4>1. p = Append(<<>>, w)
        BY <3>2 DEF Piece
      <4>2. <<>> \in Seq(T)
        OBVIOUS
      <4>3. Expand(Append(<<>>, w), g) = <<>> \o Piece(w, g)
        <5>1. Expand(Append(<<>>, w), g) = Expand(<<>>, g) \o Piece(w, g)
          <6> DEFINE e == <<>>
          <6>1. e \in Seq(T)
            OBVIOUS
          <6> HIDE DEF e
          <6>2. Expand(Append(e, w), g) = Expand(e, g) \o Piece(w, g)
            BY <6>1, ExpandAppend
          <6> QED BY <6>2 DEF e
        <5> QED BY <5>1, <4>2, ExpandType
      <4>4. Piece(w, g) \in Seq(T)
        BY DEF Piece, IsImage
      <4>5. <<>> \o Piece(w, g) = Piece(w, g)
        BY <4>4, ConcatEmptySeq
      <4>6. Piece(w, h) = Piece(w, g)
        BY <3>2 DEF Piece, Either
      <4> HIDE DEF p
      <4> QED BY <4>1, <4>3, <4>5, <4>6
    <3> QED BY <3>1, <3>2
  <2>5. Expand(Append(t, w), h) = Expand(t, h) \o Piece(w, h)
    <3> HIDE DEF h
    <3> QED BY <1>0, <2>0, ExpandAppend
  <2>6. Expand(et, g) = Expand(t, h)
    OBVIOUS
  <2> HIDE DEF et, p, h
  <2> QED BY <2>0, <2>2, <2>3, <2>4, <2>5, <2>6
<1>3. S = Seq(T)
  <2>1. S \in SUBSET Seq(T)
    OBVIOUS
  <2> HIDE DEF S
  <2> QED BY <1>1, <1>2, <2>1, SequenceInduction
<1> QED BY <1>3

-----------------------------------------------------------------------------

(***************************************************************************)
(* What Substitute makes of a node.                                        *)
(***************************************************************************)
InNode(n, image) ==
  CASE n.kind = "scalar" -> Scalar(Expand(n.value, image))
    [] n.kind = "array" -> Array([i \in DOMAIN n.value |-> Expand(n.value[i], image)])
    [] n.kind = "map" -> n

(***************************************************************************)
(* A document is substituted node by node.                                 *)
(***************************************************************************)
LEMMA SubstituteByNodes ==
  ASSUME NEW d, NEW f
  PROVE  Substitute(d, f) = [p \in DOMAIN d |-> InNode(d[p], f)]
BY DEF Substitute, InNode

(***************************************************************************)
(* A node is of one of three kinds.                                        *)
(***************************************************************************)
LEMMA Kinds ==
  ASSUME NEW n \in Node
  PROVE  \/ n.kind = "scalar" /\ n.value \in Seq(STRING) /\ n = Scalar(n.value)
         \/ n.kind = "array" /\ n.value \in Seq(Seq(STRING)) /\ n = Array(n.value)
         \/ n.kind = "map" /\ n = Map
BY DEF Node, Scalar, Array, Map

(***************************************************************************)
(* The three kinds of nodes and what they hold.                            *)
(***************************************************************************)
LEMMA NodesAre ==
  /\ \A t \in Seq(STRING) : Scalar(t) \in Node /\ Scalar(t).kind = "scalar" /\ Scalar(t).value = t
  /\ \A a \in Seq(Seq(STRING)) : Array(a) \in Node /\ Array(a).kind = "array" /\ Array(a).value = a
  /\ Map \in Node /\ Map.kind = "map"
BY DEF Node, Scalar, Array, Map

(***************************************************************************)
(* Substitution in a scalar.                                               *)
(***************************************************************************)
LEMMA InScalar ==
  ASSUME NEW t \in Seq(STRING), NEW f
  PROVE  InNode(Scalar(t), f) = Scalar(Expand(t, f))
BY NodesAre DEF InNode

(***************************************************************************)
(* Substitution in an array, item by item.                                 *)
(***************************************************************************)
LEMMA InArray ==
  ASSUME NEW a \in Seq(Seq(STRING)), NEW f
  PROVE  InNode(Array(a), f) = Array([i \in DOMAIN a |-> Expand(a[i], f)])
BY NodesAre DEF InNode

(***************************************************************************)
(* A map's entries are at paths of their own.                              *)
(***************************************************************************)
LEMMA InMap ==
  ASSUME NEW f
  PROVE  InNode(Map, f) = Map
BY NodesAre DEF InNode

(***************************************************************************)
(* Substitution keeps a node a node, and a map a map.                      *)
(***************************************************************************)
LEMMA InNodeType ==
  ASSUME NEW n \in Node, NEW f, IsImage(f, STRING)
  PROVE  InNode(n, f) \in Node /\ (n = Map => InNode(n, f) = Map)
<1>1. CASE n.kind = "scalar" /\ n.value \in Seq(STRING) /\ n = Scalar(n.value)
  <2>1. Expand(n.value, f) \in Seq(STRING)
    BY <1>1, ExpandType
  <2>2. InNode(n, f) = Scalar(Expand(n.value, f))
    BY <1>1, InScalar
  <2>3. n # Map
    BY <1>1, NodesAre
  <2> QED BY <2>1, <2>2, <2>3, NodesAre
<1>2. CASE n.kind = "array" /\ n.value \in Seq(Seq(STRING)) /\ n = Array(n.value)
  <2> DEFINE a == n.value
             b == [i \in DOMAIN a |-> Expand(a[i], f)]
  <2>1. \A i \in DOMAIN a : Expand(a[i], f) \in Seq(STRING)
    <3> TAKE i \in DOMAIN a
    <3>1. a[i] \in Seq(STRING)
      BY <1>2, ElementOfSeq
    <3> HIDE DEF a
    <3> QED BY <3>1, ExpandType
  <2>2. b \in Seq(Seq(STRING))
    <3>1. a \in Seq(Seq(STRING))
      BY <1>2
    <3>2. b \in [DOMAIN a -> Seq(STRING)]
      BY <2>1
    <3> HIDE DEF a, b
    <3> QED BY <3>1, <3>2, SameLength
  <2>3. InNode(n, f) = Array(b)
    BY <1>2, InArray
  <2>4. n # Map
    BY <1>2, NodesAre
  <2> HIDE DEF b
  <2> QED BY <2>2, <2>3, <2>4, NodesAre
<1>3. CASE n.kind = "map" /\ n = Map
  BY <1>3, InMap, NodesAre
<1> QED BY <1>1, <1>2, <1>3, Kinds

(***************************************************************************)
(* Substitution keeps the paths of a document.                             *)
(***************************************************************************)
LEMMA SubstituteType ==
  ASSUME NEW d, IsDocument(d), NEW f, IsImage(f, STRING)
  PROVE  IsDocument(Substitute(d, f)) /\ DOMAIN Substitute(d, f) = DOMAIN d
<1> DEFINE e == [p \in DOMAIN d |-> InNode(d[p], f)]
<1>1. Substitute(d, f) = e /\ DOMAIN e = DOMAIN d
  BY SubstituteByNodes
<1>2. \A p \in DOMAIN d : d[p] \in Node
  BY DEF IsDocument
<1>3. \A p \in DOMAIN d : e[p] \in Node /\ (d[p] = Map => e[p] = Map)
  BY <1>2, InNodeType
<1>4. e \in [DOMAIN d -> Node]
  BY <1>3
<1> HIDE DEF e
<1>5. IsDocument(e)
  BY <1>1, <1>3, <1>4 DEF IsDocument
<1> QED BY <1>1, <1>5

(***************************************************************************)
(* Replacing no word leaves a document as it is.                           *)
(***************************************************************************)
LEMMA SubstituteNothing ==
  ASSUME NEW d, IsDocument(d), NEW f, IsImage(f, STRING), DOMAIN f = {}
  PROVE  Substitute(d, f) = d
<1>1. ASSUME NEW n \in Node PROVE InNode(n, f) = n
  <2>0. \A t \in Seq(STRING) : Expand(t, f) = t
    BY ExpandNothing
  <2>1. CASE n.kind = "scalar" /\ n.value \in Seq(STRING) /\ n = Scalar(n.value)
    BY <2>0, <2>1, InScalar
  <2>2. CASE n.kind = "array" /\ n.value \in Seq(Seq(STRING)) /\ n = Array(n.value)
    <3> DEFINE a == n.value
               b == [i \in DOMAIN a |-> Expand(a[i], f)]
    <3>1. \A i \in DOMAIN a : b[i] = a[i]
      BY <2>0, <2>2, ElementOfSeq
    <3>2. a \in Seq(Seq(STRING))
      BY <2>2
    <3>3. InNode(n, f) = Array(b)
      BY <2>2, InArray
    <3> HIDE DEF a
    <3>4. b = a
      BY <3>1, <3>2
    <3> HIDE DEF b
    <3> QED BY <3>3, <3>4, <2>2 DEF a
  <2>3. CASE n.kind = "map" /\ n = Map
    BY <2>3, InMap
  <2> QED BY <2>1, <2>2, <2>3, Kinds
<1>2. d \in [DOMAIN d -> Node]
  BY DEF IsDocument
<1>3. [p \in DOMAIN d |-> InNode(d[p], f)] = d
  BY <1>1, <1>2
<1> QED BY <1>3, SubstituteByNodes

(***************************************************************************)
(* Substituting a second time, as ExpandTwice for texts.                   *)
(***************************************************************************)
THEOREM SubstituteTwice ==
  ASSUME NEW d, IsDocument(d), NEW f, IsImage(f, STRING), NEW g, IsImage(g, STRING),
         \A w \in DOMAIN f : ToSet(f[w]) \cap DOMAIN g = {}
  PROVE  Substitute(Substitute(d, f), g) = Substitute(d, Either(f, g))
<1> DEFINE h == Either(f, g)
<1>0. \A t \in Seq(STRING) : Expand(Expand(t, f), g) = Expand(t, h) /\ Expand(t, f) \in Seq(STRING)
  <2>1. \A t \in Seq(STRING) : Expand(Expand(t, f), g) = Expand(t, h)
    BY ExpandTwice
  <2>2. \A t \in Seq(STRING) : Expand(t, f) \in Seq(STRING)
    BY ExpandType
  <2> QED BY <2>1, <2>2
<1> HIDE DEF h
<1>1. ASSUME NEW n \in Node PROVE InNode(InNode(n, f), g) = InNode(n, h)
  <2>1. CASE n.kind = "scalar" /\ n.value \in Seq(STRING) /\ n = Scalar(n.value)
    <3> DEFINE t == n.value
    <3>1. InNode(n, f) = Scalar(Expand(t, f)) /\ InNode(n, h) = Scalar(Expand(t, h))
      BY <2>1, InScalar
    <3>2. Expand(t, f) \in Seq(STRING) /\ Expand(Expand(t, f), g) = Expand(t, h)
      BY <1>0, <2>1
    <3> HIDE DEF t
    <3>3. InNode(Scalar(Expand(t, f)), g) = Scalar(Expand(Expand(t, f), g))
      BY <3>2, InScalar
    <3> QED BY <3>1, <3>2, <3>3
  <2>2. CASE n.kind = "array" /\ n.value \in Seq(Seq(STRING)) /\ n = Array(n.value)
    <3> DEFINE a == n.value
               b == [i \in DOMAIN a |-> Expand(a[i], f)]
               c == [i \in DOMAIN b |-> Expand(b[i], g)]
    <3>1. InNode(n, f) = Array(b) /\ InNode(n, h) = Array([i \in DOMAIN a |-> Expand(a[i], h)])
      BY <2>2, InArray
    <3>2. a \in Seq(Seq(STRING)) /\ \A i \in DOMAIN a : a[i] \in Seq(STRING)
      BY <2>2, ElementOfSeq
    <3> HIDE DEF a
    <3>3. b \in Seq(Seq(STRING)) /\ DOMAIN b = DOMAIN a
      <4>1. b \in [DOMAIN a -> Seq(STRING)]
        BY <3>2, <1>0
      <4> HIDE DEF b
      <4> QED BY <3>2, <4>1, SameLength
    <3>4. InNode(Array(b), g) = Array(c)
      <4> HIDE DEF b
      <4> QED BY <3>3, InArray
    <3>5. c = [i \in DOMAIN a |-> Expand(a[i], h)]
      BY <3>2, <3>3, <1>0
    <3> HIDE DEF b, c
    <3> QED BY <3>1, <3>4, <3>5
  <2>3. CASE n.kind = "map" /\ n = Map
    BY <2>3, InMap
  <2> QED BY <2>1, <2>2, <2>3, Kinds
<1>2. \A p \in DOMAIN d : d[p] \in Node
  BY DEF IsDocument
<1> DEFINE e == [p \in DOMAIN d |-> InNode(d[p], f)]
<1>3. Substitute(d, f) = e /\ DOMAIN e = DOMAIN d
  BY SubstituteByNodes
<1>4. \A p \in DOMAIN d : InNode(e[p], g) = InNode(d[p], h)
  BY <1>1, <1>2
<1> HIDE DEF e
<1>5. Substitute(e, g) = [p \in DOMAIN d |-> InNode(e[p], g)]
  BY <1>3, SubstituteByNodes
<1>6. Substitute(d, h) = [p \in DOMAIN d |-> InNode(d[p], h)]
  BY SubstituteByNodes
<1>7. Substitute(e, g) = Substitute(d, h)
  BY <1>4, <1>5, <1>6
<1> QED BY <1>3, <1>7 DEF h

-----------------------------------------------------------------------------

(***************************************************************************)
(* What is above a path above p is above p.                                *)
(***************************************************************************)
LEMMA AboveAbove ==
  ASSUME NEW p \in Seq(STRING), NEW q \in Above(p)
  PROVE  q \in Seq(STRING) /\ Above(q) \subseteq Above(p)
<1>1. PICK n \in 1..Len(p) - 1 : q = SubSeq(p, 1, n)
  BY DEF Above
<1>2. n \in 1..Len(p) /\ Len(p) \in Nat
  OBVIOUS
<1>3. \A i \in 1..n : p[i] \in STRING
  BY <1>2, ElementOfSeq
<1>4. q \in Seq(STRING) /\ Len(q) = n
  BY <1>1, <1>2, <1>3, SubSeqProperties
<1>5. ASSUME NEW r \in Above(q) PROVE r \in Above(p)
  <2>1. PICK m \in 1..n - 1 : r = SubSeq(q, 1, m)
    BY <1>4, <1>5 DEF Above
  <2>2. SubSeq(q, 1, m) = SubSeq(p, 1, m)
    <3>1. 1 \in 1..n /\ m \in 1..n /\ 1 \in 1..Len(p)
      BY <1>2
    <3>2. q = [i \in 1..n |-> p[i]]
      BY <1>1, <1>2
    <3>3. SubSeq(q, 1, m) = [i \in 1..m |-> q[i]] /\ SubSeq(p, 1, m) = [i \in 1..m |-> p[i]]
      BY <1>2, <1>4, <3>1
    <3>4. \A i \in 1..m : q[i] = p[i]
      BY <3>1, <3>2
    <3> QED BY <3>3, <3>4
  <2>3. m \in 1..Len(p) - 1
    BY <1>2
  <2> QED BY <2>1, <2>2, <2>3 DEF Above
<1> QED BY <1>4, <1>5

(***************************************************************************)
(* A document clears nothing of what it has itself.                        *)
(***************************************************************************)
LEMMA OwnPathsStay ==
  ASSUME NEW d, IsDocument(d), NEW p \in DOMAIN d
  PROVE  ~Clears(d, p)
<1>1. \A q \in Above(p) : d[q] = Map
  BY DEF IsDocument
<1>2. Map.kind = "map"
  BY DEF Map
<1> QED BY <1>1, <1>2 DEF Clears

(***************************************************************************)
(* Merging two documents gives a document: above every path that is kept   *)
(* there is still a map.                                                   *)
(***************************************************************************)
LEMMA DeepMergeType ==
  ASSUME NEW s, IsDocument(s), NEW d, IsDocument(d)
  PROVE  IsDocument(DeepMerge(s, d))
<1> DEFINE m == DeepMerge(s, d)
           kept == {p \in DOMAIN d : ~Clears(s, p)}
           arrays == {p \in DOMAIN s \cap DOMAIN d : s[p].kind = "array" /\ d[p].kind = "array"}
<1>1. m = [p \in DOMAIN s \cup kept |->
             IF p \in arrays THEN Appended(s[p], d[p]) ELSE IF p \in DOMAIN s THEN s[p] ELSE d[p]]
  BY DEF DeepMerge
<1>2. /\ DOMAIN m = DOMAIN s \cup kept
      /\ \A p \in arrays : m[p] = Appended(s[p], d[p])
      /\ \A p \in DOMAIN s : p \notin arrays => m[p] = s[p]
      /\ \A p \in kept : p \notin DOMAIN s => m[p] = d[p]
      /\ m = [p \in DOMAIN m |-> m[p]]
  BY <1>1
<1>3. /\ DOMAIN s \subseteq Seq(STRING) /\ DOMAIN d \subseteq Seq(STRING)
      /\ \A p \in DOMAIN s : s[p] \in Node
      /\ \A p \in DOMAIN d : d[p] \in Node
  BY DEF IsDocument
<1>4. \A p \in arrays : Appended(s[p], d[p]) \in Node
  <2> TAKE p \in arrays
  <2>1. s[p].value \in Seq(Seq(STRING)) /\ d[p].value \in Seq(Seq(STRING))
    <3>1. s[p] \in Node /\ s[p].kind = "array" /\ d[p] \in Node /\ d[p].kind = "array"
      BY <1>3
    <3> QED BY <3>1, Kinds
  <2>2. d[p].value \o s[p].value \in Seq(Seq(STRING))
    BY <2>1, ConcatProperties
  <2> QED BY <2>2, NodesAre DEF Appended
<1> HIDE DEF m
<1>5. \A p \in DOMAIN m : m[p] \in Node
  <2> TAKE p \in DOMAIN m
  <2>1. CASE p \in arrays
    BY <2>1, <1>2, <1>4
  <2>2. CASE p \notin arrays /\ p \in DOMAIN s
    BY <2>2, <1>2, <1>3
  <2>3. CASE p \notin DOMAIN s
    BY <2>3, <1>2, <1>3
  <2> QED BY <2>1, <2>2, <2>3
<1>6. ASSUME NEW p \in DOMAIN m, NEW q \in Above(p) PROVE q \in DOMAIN m /\ m[q] = Map
  <2>0. Map.kind = "map"
    BY DEF Map
  <2>1. CASE p \in DOMAIN s
    <3>1. q \in DOMAIN s /\ s[q] = Map
      BY <2>1 DEF IsDocument
    <3>2. q \notin arrays
      BY <3>1, <2>0
    <3> QED BY <3>1, <3>2, <1>2
  <2>2. CASE p \notin DOMAIN s
    <3>1. p \in DOMAIN d /\ ~Clears(s, p)
      BY <2>2, <1>2
    <3>2. q \in DOMAIN d /\ d[q] = Map
      BY <3>1 DEF IsDocument
    <3>3. CASE q \in DOMAIN s
      <4>1. s[q].kind = "map"
        BY <3>1, <3>3 DEF Clears
      <4>2. s[q] = Map
        BY <4>1, <3>3, <1>3, Kinds
      <4>3. q \notin arrays
        BY <4>1
      <4> QED BY <3>3, <4>2, <4>3, <1>2
    <3>4. CASE q \notin DOMAIN s
      <4>1. Above(q) \subseteq Above(p)
        BY <3>1, <1>3, AboveAbove
      <4>2. ~Clears(s, q)
        BY <3>1, <4>1 DEF Clears
      <4> QED BY <3>2, <3>4, <4>2, <1>2
    <3> QED BY <3>3, <3>4
  <2> QED BY <2>1, <2>2
<1>7. \A p \in DOMAIN m : p \in Seq(STRING) /\ p # <<>>
  BY <1>2 DEF IsDocument
<1> HIDE DEF kept, arrays
<1>8. m \in [DOMAIN m -> Node]
  BY <1>2, <1>5
<1>9. IsDocument(m)
  BY <1>6, <1>7, <1>8 DEF IsDocument
<1> QED BY <1>9 DEF m

-----------------------------------------------------------------------------

(***************************************************************************)
(* A sequence of documents.                                                *)
(***************************************************************************)
AreDocuments(documents) ==
  documents \in Seq(ToSet(documents)) /\ \A i \in DOMAIN documents : IsDocument(documents[i])

(***************************************************************************)
(* One more document: which documents set a path, and which came last.     *)
(***************************************************************************)
LEMMA OneMore ==
  ASSUME NEW docs, AreDocuments(docs), NEW c, IsDocument(c)
  PROVE  LET more == Append(docs, c) IN
         /\ AreDocuments(more)
         /\ DOMAIN docs = 1..Len(docs) /\ Len(docs) \in Nat
         /\ DOMAIN more = 1..Len(docs) + 1 /\ Len(more) = Len(docs) + 1
         /\ more[Len(docs) + 1] = c
         /\ \A i \in 1..Len(docs) : more[i] = docs[i]
<1> DEFINE D == ToSet(docs) \cup {c}
           more == Append(docs, c)
<1>1. docs \in Seq(D) /\ c \in D
  BY SeqMonotonic DEF AreDocuments
<1>2. /\ more \in Seq(D) /\ Len(more) = Len(docs) + 1 /\ more[Len(docs) + 1] = c
      /\ \A i \in 1..Len(docs) : more[i] = docs[i]
  <2> HIDE DEF D
  <2> QED BY <1>1, AppendProperties
<1>3. DOMAIN docs = 1..Len(docs) /\ Len(docs) \in Nat /\ DOMAIN more = 1..Len(docs) + 1
  <2> HIDE DEF D, more
  <2> QED BY <1>1, <1>2
<1>4. ToSet(more) = D
  BY <1>1, SetOfAppend
<1>5. \A i \in DOMAIN more : IsDocument(more[i])
  <2>1. \A i \in DOMAIN more : i \in 1..Len(docs) \/ i = Len(docs) + 1
    BY <1>3
  <2> QED BY <2>1, <1>2, <1>3 DEF AreDocuments
<1> QED BY <1>2, <1>3, <1>4, <1>5 DEF AreDocuments

(***************************************************************************)
(* One more document sets its own paths and clears those below its values. *)
(***************************************************************************)
LEMMA SettingOfMore ==
  ASSUME NEW docs, AreDocuments(docs), NEW c, IsDocument(c), NEW p
  PROVE  /\ Setting(docs, p) \subseteq 1..Len(docs)
         /\ p \in DOMAIN c => Setting(Append(docs, c), p) = Setting(docs, p) \cup {Len(docs) + 1}
         /\ p \notin DOMAIN c => Setting(Append(docs, c), p)
                                 = IF Clears(c, p) THEN {} ELSE Setting(docs, p)
<1> DEFINE more == Append(docs, c)
           N == Len(docs)
<1>1. /\ DOMAIN docs = 1..N /\ N \in Nat /\ DOMAIN more = 1..N + 1 /\ Len(more) = N + 1
      /\ more[N + 1] = c /\ \A i \in 1..N : more[i] = docs[i]
  BY OneMore
<1>2. p \in DOMAIN c => ~Clears(c, p)
  BY OwnPathsStay
<1> HIDE DEF more, N
<1>3. \A i \in 1..N : i \in 1..N + 1 /\ i + 1..N + 1 = (i + 1..N) \cup {N + 1} /\ i + 1..N \subseteq 1..N
  BY <1>1
<1>4. (N + 1) + 1..N + 1 = {} /\ N + 1 \in 1..N + 1 /\ N + 1 \notin 1..N
      /\ 1..N + 1 = (1..N) \cup {N + 1}
  BY <1>1
<1>5. ASSUME NEW i \in 1..N
      PROVE  i \in Setting(more, p) <=> i \in Setting(docs, p) /\ ~Clears(c, p)
  <2>1. (\A j \in i + 1..N + 1 : ~Clears(more[j], p))
        <=> (\A j \in i + 1..N : ~Clears(docs[j], p)) /\ ~Clears(c, p)
    BY <1>1, <1>3
  <2> QED BY <2>1, <1>1, <1>3 DEF Setting, N
<1>6. N + 1 \in Setting(more, p) <=> p \in DOMAIN c
  BY <1>1, <1>4 DEF Setting
<1>7. Setting(more, p) \subseteq 1..N + 1 /\ Setting(docs, p) \subseteq 1..N
  BY <1>1 DEF Setting
<1> QED BY <1>2, <1>4, <1>5, <1>6, <1>7 DEF more, N

(***************************************************************************)
(* The last document that sets a path.                                     *)
(***************************************************************************)
LEMMA LastOfIs ==
  ASSUME NEW docs, AreDocuments(docs), NEW p, Setting(docs, p) # {}
  PROVE  \E i \in Setting(docs, p) :
           /\ \A j \in Setting(docs, p) : j <= i
           /\ LastOf(docs, p) = docs[i][p] /\ p \in DOMAIN docs[i] /\ i \in 1..Len(docs)
<1> DEFINE S == Setting(docs, p)
           m == CHOOSE i \in S : \A j \in S : j <= i
<1>1. S \subseteq 1..Len(docs) /\ Len(docs) \in Nat
  BY DEF Setting, AreDocuments
<1> HIDE DEF S
<1>2. \E i \in S : \A j \in S : j <= i
  BY <1>1, MaximumExists DEF S
<1>3. m \in S /\ \A j \in S : j <= m
  BY <1>2
<1>4. LastOf(docs, p) = docs[m][p]
  BY DEF LastOf, S
<1>5. p \in DOMAIN docs[m]
  BY <1>3 DEF Setting, S
<1> HIDE DEF m
<1> QED BY <1>1, <1>3, <1>4, <1>5 DEF S

(***************************************************************************)
(* The last document that sets a path, with one document more.             *)
(***************************************************************************)
LEMMA LastOfMore ==
  ASSUME NEW docs, AreDocuments(docs), NEW c, IsDocument(c), NEW p
  PROVE  /\ p \in DOMAIN c => LastOf(Append(docs, c), p) = c[p]
         /\ p \notin DOMAIN c /\ Setting(Append(docs, c), p) # {} =>
              LastOf(Append(docs, c), p) = LastOf(docs, p)
<1> DEFINE more == Append(docs, c)
           N == Len(docs)
<1>1. /\ N \in Nat /\ more[N + 1] = c /\ \A i \in 1..N : more[i] = docs[i]
  BY OneMore
<1>2. AreDocuments(more)
  BY OneMore
<1>3. /\ Setting(docs, p) \subseteq 1..N
      /\ p \in DOMAIN c => Setting(more, p) = Setting(docs, p) \cup {N + 1}
      /\ p \notin DOMAIN c => Setting(more, p) = IF Clears(c, p) THEN {} ELSE Setting(docs, p)
  BY SettingOfMore
<1> HIDE DEF more, N
<1>4. CASE p \in DOMAIN c
  <2>1. N + 1 \in Setting(more, p)
    BY <1>3, <1>4
  <2>2. PICK i \in Setting(more, p) :
          (\A j \in Setting(more, p) : j <= i) /\ LastOf(more, p) = more[i][p]
    BY <1>2, <2>1, LastOfIs
  <2>3. i = N + 1
    BY <1>1, <1>3, <1>4, <2>1, <2>2
  <2> QED BY <1>1, <1>4, <2>2, <2>3 DEF more
<1>5. CASE p \notin DOMAIN c /\ Setting(more, p) # {}
  <2>1. Setting(more, p) = Setting(docs, p) /\ Setting(docs, p) # {}
    BY <1>3, <1>5
  <2>2. PICK i \in Setting(docs, p) :
          (\A j \in Setting(docs, p) : j <= i) /\ LastOf(docs, p) = docs[i][p] /\ i \in 1..N
    BY <2>1, LastOfIs DEF N
  <2>3. PICK k \in Setting(docs, p) :
          (\A j \in Setting(docs, p) : j <= k) /\ LastOf(more, p) = more[k][p]
    BY <1>2, <2>1, LastOfIs
  <2>4. k = i
    BY <1>1, <1>3, <2>2, <2>3
  <2>5. more[k] = docs[i]
    BY <1>1, <2>2, <2>4
  <2> QED BY <2>2, <2>3, <2>5, <1>5 DEF more
<1> QED BY <1>4, <1>5 DEF more

(***************************************************************************)
(* The items the last run of arrays has, document by document.             *)
(***************************************************************************)
Items(documents, p) ==
  [i \in DOMAIN documents |->
     IF i \in LastRun(documents, p) THEN documents[i][p].value ELSE <<>>]

(***************************************************************************)
(* The items the last run of arrays gives a path.                          *)
(***************************************************************************)
LEMMA ItemsType ==
  ASSUME NEW docs, AreDocuments(docs), NEW p, LastOf(docs, p).kind = "array"
  PROVE  Items(docs, p) \in Seq(Seq(Seq(STRING))) /\ Len(Items(docs, p)) = Len(docs)
<1> DEFINE T == Seq(Seq(STRING))
<1>1. ASSUME NEW i \in DOMAIN docs PROVE Items(docs, p)[i] \in T
  <2>1. CASE i \in LastRun(docs, p)
    <3>1. i \in Setting(docs, p) /\ i \in Nat
      BY <2>1 DEF LastRun, Setting, AreDocuments
    <3>2. docs[i][p].kind = "array" /\ p \in DOMAIN docs[i]
      <4>1. i <= i
        BY <3>1
      <4> QED BY <2>1, <3>1, <4>1 DEF LastRun, Setting
    <3>3. docs[i][p] \in Node
      BY <3>2 DEF AreDocuments, IsDocument
    <3>4. docs[i][p].value \in T
      BY <3>2, <3>3, Kinds
    <3> QED BY <2>1, <3>4 DEF Items
  <2>2. CASE i \notin LastRun(docs, p)
    <3>1. <<>> \in T
      OBVIOUS
    <3> QED BY <2>2, <3>1 DEF Items
  <2> QED BY <2>1, <2>2
<1> HIDE DEF T
<1>2. Items(docs, p) \in [DOMAIN docs -> T]
  <2>1. Items(docs, p) = [i \in DOMAIN docs |-> Items(docs, p)[i]]
    BY DEF Items
  <2> QED BY <1>1, <2>1
<1>3. docs \in Seq(ToSet(docs))
  BY DEF AreDocuments
<1>4. Items(docs, p) \in Seq(T) /\ Len(Items(docs, p)) = Len(docs)
  BY <1>2, <1>3, SameLength
<1> QED BY <1>4 DEF T

(***************************************************************************)
(* Combined, path by path.                                                 *)
(***************************************************************************)
LEMMA CombinedAt ==
  ASSUME NEW docs
  PROVE  /\ DOMAIN Combined(docs) = {p \in UNION {DOMAIN docs[i] : i \in DOMAIN docs} : Setting(docs, p) # {}}
         /\ \A p \in DOMAIN Combined(docs) :
              Combined(docs)[p] = IF LastOf(docs, p).kind = "array"
                                  THEN Array(FlattenSeq(Items(docs, p)))
                                  ELSE LastOf(docs, p)
BY DEF Combined, Items

(***************************************************************************)
(* The paths that are set, and the kind of what is there.                  *)
(***************************************************************************)
LEMMA CombinedPaths ==
  ASSUME NEW docs, AreDocuments(docs)
  PROVE  /\ \A p : p \in DOMAIN Combined(docs) <=> Setting(docs, p) # {}
         /\ \A p \in DOMAIN Combined(docs) : Combined(docs)[p].kind = LastOf(docs, p).kind
<1>1. ASSUME NEW p, Setting(docs, p) # {} PROVE p \in UNION {DOMAIN docs[i] : i \in DOMAIN docs}
  BY <1>1 DEF Setting
<1>2. \A x : Array(x).kind = "array"
  BY DEF Array
<1> QED BY <1>1, <1>2, CombinedAt

(***************************************************************************)
(* The items of one more document come last; a document that has something *)
(* else than an array ends the run.                                        *)
(***************************************************************************)
LEMMA ItemsOfMore ==
  ASSUME NEW docs, AreDocuments(docs), NEW c, IsDocument(c), NEW p,
         Setting(Append(docs, c), p) # {}, LastOf(Append(docs, c), p).kind = "array"
  PROVE  FlattenSeq(Items(Append(docs, c), p))
         = IF p \notin DOMAIN c THEN FlattenSeq(Items(docs, p))
           ELSE IF Setting(docs, p) # {} /\ LastOf(docs, p).kind = "array"
           THEN FlattenSeq(Items(docs, p)) \o c[p].value
           ELSE c[p].value
<1> DEFINE more == Append(docs, c)
           N == Len(docs)
           T == Seq(STRING)
           run == LastRun(more, p)
           all == Items(more, p)
<1>1. /\ N \in Nat /\ more[N + 1] = c /\ \A i \in 1..N : more[i] = docs[i]
      /\ DOMAIN more = 1..N + 1 /\ DOMAIN docs = 1..N /\ Len(more) = N + 1 /\ AreDocuments(more)
  BY OneMore
<1>2. /\ Setting(docs, p) \subseteq 1..N
      /\ p \in DOMAIN c => Setting(more, p) = Setting(docs, p) \cup {N + 1}
      /\ p \notin DOMAIN c => Setting(more, p) = Setting(docs, p)
  BY SettingOfMore
<1>3. /\ p \in DOMAIN c => LastOf(more, p) = c[p]
      /\ p \notin DOMAIN c => LastOf(more, p) = LastOf(docs, p)
  BY LastOfMore
<1>4. all \in Seq(Seq(T)) /\ Len(all) = N + 1
  <2> HIDE DEF more
  <2> QED BY <1>1, ItemsType DEF more
<1>5. \A i \in 1..N + 1 : all[i] = IF i \in run THEN more[i][p].value ELSE <<>>
  <2> HIDE DEF more
  <2> QED BY <1>1 DEF Items
<1>6. \A i \in Setting(more, p) :
        i \in run <=> \A j \in Setting(more, p) : i <= j => more[j][p].kind = "array"
  <2> HIDE DEF more
  <2> QED BY DEF LastRun, more
<1>7. run \subseteq Setting(more, p)
  BY DEF LastRun
<1>8. \A i \in 1..N : i \in Nat /\ i # N + 1 /\ i <= N + 1 /\ i \in 1..N + 1
  BY <1>1
<1> HIDE DEF more, N, T, run, all
<1>9. ASSUME NEW x \in Seq(Seq(T)), Len(x) = N, NEW v \in Seq(T),
             \A i \in 1..N : all[i] = x[i], all[N + 1] = v
      PROVE  FlattenSeq(all) = FlattenSeq(x) \o v
  <2> DEFINE a == Append(x, v)
  <2>1. /\ a \in Seq(Seq(T)) /\ Len(a) = N + 1 /\ a[N + 1] = v /\ \A i \in 1..N : a[i] = x[i]
    <3> DEFINE U == Seq(T)
    <3>1. x \in Seq(U) /\ v \in U
      BY <1>9
    <3> HIDE DEF U
    <3>2. /\ a \in Seq(U) /\ Len(a) = Len(x) + 1 /\ a[Len(x) + 1] = v
          /\ \A i \in 1..Len(x) : a[i] = x[i]
      BY <3>1, AppendProperties
    <3> QED BY <3>2, <1>9 DEF U
  <2>2. FlattenSeq(a) = FlattenSeq(x) \o v
    BY FlattenAppend
  <2> HIDE DEF a
  <2>3. \A i \in 1..N + 1 : i = N + 1 \/ i \in 1..N
    BY <1>1
  <2>4. \A i \in 1..N + 1 : all[i] = a[i]
    BY <2>1, <2>3, <1>9
  <2>5. all = a
    BY <1>4, <2>1, <2>4, SeqEqual
  <2> QED BY <2>2, <2>5
<1>10. CASE p \notin DOMAIN c
  <2> DEFINE x == Items(docs, p)
  <2>1. x \in Seq(Seq(T)) /\ Len(x) = N
    BY <1>3, <1>10, ItemsType DEF T, N, more
  <2>2. \A i \in 1..N : i \in run <=> i \in LastRun(docs, p)
    <3>1. Setting(more, p) = Setting(docs, p) /\ LastOf(docs, p).kind = "array"
      BY <1>2, <1>3, <1>10 DEF more
    <3>2. \A i \in Setting(docs, p) : more[i] = docs[i]
      BY <1>1, <1>2
    <3> QED BY <1>6, <1>7, <3>1, <3>2 DEF LastRun
  <2>3. \A i \in 1..N : all[i] = x[i]
    BY <1>1, <1>5, <1>8, <2>2 DEF Items
  <2>4. N + 1 \notin run /\ N + 1 \in 1..N + 1
    BY <1>1, <1>2, <1>7, <1>8, <1>10
  <2>5. all[N + 1] = <<>> /\ <<>> \in Seq(T)
    BY <1>5, <2>4
  <2> HIDE DEF x
  <2>6. FlattenSeq(all) = FlattenSeq(x) \o <<>>
    <3> DEFINE v == <<>>
    <3>1. v \in Seq(T) /\ all[N + 1] = v
      BY <2>5
    <3> HIDE DEF v
    <3>2. FlattenSeq(all) = FlattenSeq(x) \o v
      BY <1>9, <2>1, <2>3, <3>1
    <3> QED BY <3>2 DEF v
  <2>7. FlattenSeq(x) \in Seq(T)
    BY <2>1, FlattenType
  <2>8. FlattenSeq(x) \o <<>> = FlattenSeq(x)
    BY <2>7, ConcatEmptySeq
  <2> QED BY <2>6, <2>8, <1>10 DEF all, more, x
<1>11. CASE p \in DOMAIN c
  <2> DEFINE v == c[p].value
  <2>1. v \in Seq(T)
    <3>1. c[p] \in Node /\ c[p].kind = "array"
      BY <1>3, <1>11 DEF IsDocument, more
    <3> QED BY <3>1, Kinds DEF T
  <2>2. c[p].kind = "array" /\ Setting(more, p) = Setting(docs, p) \cup {N + 1}
    BY <1>2, <1>3, <1>11 DEF more
  <2>3. N + 1 \in run
    <3>1. \A j \in Setting(more, p) : N + 1 <= j => j = N + 1
      BY <1>1, <1>2, <2>2
    <3> QED BY <1>1, <1>6, <2>2, <3>1
  <2>4. all[N + 1] = v
    <3>1. N + 1 \in 1..N + 1
      BY <1>1
    <3> QED BY <1>1, <1>5, <2>3, <3>1
  <2>5. \A i \in Setting(docs, p) :
          i \in run <=> \A j \in Setting(docs, p) : i <= j => docs[j][p].kind = "array"
    BY <1>1, <1>2, <1>6, <2>2
  <2> HIDE DEF v
  <2>6. CASE Setting(docs, p) # {} /\ LastOf(docs, p).kind = "array"
    <3> DEFINE x == Items(docs, p)
    <3>1. x \in Seq(Seq(T)) /\ Len(x) = N
      BY <2>6, ItemsType DEF T, N
    <3>2. \A i \in 1..N : i \in run <=> i \in LastRun(docs, p)
      BY <1>7, <1>8, <2>2, <2>5, <2>6 DEF LastRun
    <3>3. \A i \in 1..N : all[i] = x[i]
      BY <1>1, <1>5, <1>8, <3>2 DEF Items
    <3> HIDE DEF x
    <3>4. FlattenSeq(all) = FlattenSeq(x) \o v
      BY <1>9, <2>1, <2>4, <3>1, <3>3
    <3> QED BY <3>4, <2>6, <1>11 DEF all, more, x, v
  <2>7. CASE ~(Setting(docs, p) # {} /\ LastOf(docs, p).kind = "array")
    <3> DEFINE x == [i \in 1..N |-> <<>>]
    <3>1. x \in Seq(Seq(T)) /\ Len(x) = N /\ \A i \in 1..N : x[i] = <<>>
      BY <1>1
    <3>2. \A i \in 1..N : i \notin run
      <4> SUFFICES ASSUME NEW i \in Setting(docs, p) PROVE i \notin run
        BY <1>7, <1>8, <2>2
      <4>1. PICK m \in Setting(docs, p) :
              (\A j \in Setting(docs, p) : j <= m) /\ LastOf(docs, p) = docs[m][p]
        BY LastOfIs
      <4> QED BY <2>5, <2>7, <4>1
    <3>3. \A i \in 1..N : all[i] = x[i]
      BY <1>5, <1>8, <3>1, <3>2
    <3> HIDE DEF x
    <3>4. FlattenSeq(all) = FlattenSeq(x) \o v
      BY <1>9, <2>1, <2>4, <3>1, <3>3
    <3>5. FlattenSeq(x) = <<>>
      BY <3>1, FlattenEmpty
    <3>6. <<>> \o v = v
      BY <2>1, ConcatEmptySeq
    <3>7. FlattenSeq(all) = v
      BY <3>4, <3>5, <3>6
    <3> QED BY <3>7, <2>7, <1>11 DEF all, more, v
  <2> QED BY <2>6, <2>7
<1> QED BY <1>10, <1>11

(***************************************************************************)
(* Merging one more document into what the documents before it combine to  *)
(* gives what they combine to with it: what MergedInOrder rests on.        *)
(***************************************************************************)
THEOREM CombinedOfMore ==
  ASSUME NEW docs, AreDocuments(docs), NEW c, IsDocument(c)
  PROVE  Combined(Append(docs, c)) = DeepMerge(c, Combined(docs))
<1> DEFINE more == Append(docs, c)
           D == Combined(docs)
           E == Combined(more)
           M == DeepMerge(c, D)
           arrays == {p \in DOMAIN c \cap DOMAIN D : c[p].kind = "array" /\ D[p].kind = "array"}
<1>1. AreDocuments(more)
  BY OneMore
<1>2. /\ DOMAIN M = DOMAIN c \cup {p \in DOMAIN D : ~Clears(c, p)}
      /\ \A p \in DOMAIN M : M[p] = IF p \in arrays THEN Appended(c[p], D[p])
                                    ELSE IF p \in DOMAIN c THEN c[p] ELSE D[p]
  BY DEF DeepMerge
<1>3. /\ \A p : p \in DOMAIN D <=> Setting(docs, p) # {}
      /\ \A p \in DOMAIN D : D[p].kind = LastOf(docs, p).kind
  BY CombinedPaths
<1>4. /\ \A p : p \in DOMAIN E <=> Setting(more, p) # {}
  <2> HIDE DEF more
  <2> QED BY <1>1, CombinedPaths
<1>5. \A p \in DOMAIN E : E[p] = IF LastOf(more, p).kind = "array"
                                 THEN Array(FlattenSeq(Items(more, p))) ELSE LastOf(more, p)
  <2> HIDE DEF more
  <2> QED BY CombinedAt
<1>6. \A p \in DOMAIN D : D[p] = IF LastOf(docs, p).kind = "array"
                                 THEN Array(FlattenSeq(Items(docs, p))) ELSE LastOf(docs, p)
  BY CombinedAt
<1>7. ASSUME NEW p
      PROVE  /\ p \in DOMAIN c => Setting(more, p) # {}
             /\ p \notin DOMAIN c => Setting(more, p) = IF Clears(c, p) THEN {} ELSE Setting(docs, p)
  <2>1. /\ p \in DOMAIN c => Setting(more, p) = Setting(docs, p) \cup {Len(docs) + 1}
        /\ p \notin DOMAIN c => Setting(more, p) = IF Clears(c, p) THEN {} ELSE Setting(docs, p)
    BY SettingOfMore
  <2> HIDE DEF more
  <2> QED BY <2>1
<1>8. DOMAIN E = DOMAIN M
  <2> HIDE DEF more, D, E, M
  <2>1. \A p : p \in DOMAIN E <=> p \in DOMAIN M
    <3> TAKE p
    <3>1. p \in DOMAIN c => ~Clears(c, p)
      BY OwnPathsStay
    <3> QED BY <1>2, <1>3, <1>4, <1>7, <3>1
  <2> QED BY <2>1
<1>9. ASSUME NEW p \in DOMAIN E PROVE E[p] = M[p]
  <2>1. Setting(more, p) # {}
    BY <1>4
  <2>2. /\ p \in DOMAIN c => LastOf(more, p) = c[p]
        /\ p \notin DOMAIN c => LastOf(more, p) = LastOf(docs, p)
    BY <2>1, LastOfMore
  <2>3. LastOf(more, p).kind = "array" =>
          FlattenSeq(Items(more, p))
          = IF p \notin DOMAIN c THEN FlattenSeq(Items(docs, p))
            ELSE IF Setting(docs, p) # {} /\ LastOf(docs, p).kind = "array"
            THEN FlattenSeq(Items(docs, p)) \o c[p].value ELSE c[p].value
    BY <2>1, ItemsOfMore
  <2>4. M[p] = IF p \in arrays THEN Appended(c[p], D[p]) ELSE IF p \in DOMAIN c THEN c[p] ELSE D[p]
    BY <1>2, <1>8
  <2>5. p \notin DOMAIN c => p \in DOMAIN D
    BY <1>3, <1>4, <1>7
  <2> HIDE DEF more, D, E, M
  <2>6. CASE p \notin DOMAIN c
    BY <1>5, <1>6, <2>2, <2>3, <2>4, <2>5, <2>6
  <2>7. CASE p \in DOMAIN c /\ c[p].kind # "array"
    BY <1>5, <2>2, <2>4, <2>7
  <2>8. CASE p \in DOMAIN c /\ c[p].kind = "array"
    <3>0. c[p] = Array(c[p].value)
      <4>1. c[p] \in Node
        BY <2>8 DEF IsDocument
      <4> QED BY <4>1, <2>8, Kinds
    <3>1. CASE p \in arrays
      <4>1. Setting(docs, p) # {} /\ LastOf(docs, p).kind = "array" /\ p \in DOMAIN D
        BY <1>3, <3>1
      <4>2. D[p].value = FlattenSeq(Items(docs, p))
        BY <1>6, <4>1 DEF Array
      <4>3. E[p] = Array(D[p].value \o c[p].value)
        BY <1>5, <2>2, <2>3, <2>8, <4>1, <4>2
      <4> QED BY <2>4, <3>1, <4>3 DEF Appended
    <3>2. CASE p \notin arrays
      <4>1. ~(Setting(docs, p) # {} /\ LastOf(docs, p).kind = "array")
        BY <1>3, <2>8, <3>2
      <4>2. E[p] = Array(c[p].value)
        BY <1>5, <2>2, <2>3, <2>8, <4>1
      <4> QED BY <2>4, <2>8, <3>0, <3>2, <4>2
    <3> QED BY <3>1, <3>2
  <2> QED BY <2>6, <2>7, <2>8
<1>10. E = [p \in DOMAIN E |-> E[p]] /\ M = [p \in DOMAIN M |-> M[p]]
  BY DEF Combined, DeepMerge
<1> HIDE DEF D, E, M, more
<1>11. E = M
  BY <1>8, <1>9, <1>10
<1> QED BY <1>11 DEF D, E, M, more

(***************************************************************************)
(* Before the first document there is none.                                *)
(***************************************************************************)
LEMMA CombinedOfNone == Combined(<<>>) = NoDocument
<1>1. UNION {DOMAIN <<>>[i] : i \in DOMAIN <<>>} = {}
  OBVIOUS
<1>2. DOMAIN Combined(<<>>) = {}
  BY <1>1, CombinedAt
<1>3. Combined(<<>>) = [p \in DOMAIN Combined(<<>>) |-> Combined(<<>>)[p]]
  BY DEF Combined
<1>4. NoDocument = [p \in {} |-> NoDocument[p]]
  BY DEF NoDocument
<1> HIDE DEF NoDocument
<1> QED BY <1>2, <1>3, <1>4

(***************************************************************************)
(* The empty document is a document.                                       *)
(***************************************************************************)
LEMMA NoDocumentIs == IsDocument(NoDocument) /\ DOMAIN NoDocument = {}
BY DEF IsDocument, NoDocument

(***************************************************************************)
(* What the documents from some place on give is carried by what all of    *)
(* them give: what OverridesInEffect rests on.                             *)
(***************************************************************************)
LEMMA LastInEffect ==
  ASSUME NEW docs, AreDocuments(docs), NEW m \in Nat, NEW own,
         own = [i \in DOMAIN docs |-> IF m <= i THEN docs[i] ELSE NoDocument]
  PROVE  Carries(Combined(docs), Combined(own))
<1> DEFINE N == Len(docs)
<1>1. /\ N \in Nat /\ DOMAIN docs = 1..N /\ DOMAIN own = 1..N /\ Len(own) = N
      /\ \A i \in 1..N : own[i] = IF m <= i THEN docs[i] ELSE NoDocument
      /\ AreDocuments(own)
  <2> DEFINE D == {own[i] : i \in DOMAIN docs}
  <2>1. own \in [DOMAIN docs -> D] /\ docs \in Seq(ToSet(docs))
    BY DEF AreDocuments
  <2>2. own \in Seq(D) /\ Len(own) = N /\ DOMAIN own = DOMAIN docs
    <3> HIDE DEF D
    <3> QED BY <2>1, SameLength
  <2>3. D = ToSet(own)
    BY <2>2 DEF ToSet
  <2>4. \A i \in DOMAIN own : IsDocument(own[i])
    BY <2>2, NoDocumentIs DEF AreDocuments
  <2>5. N \in Nat /\ DOMAIN docs = 1..N
    BY <2>1
  <2> QED BY <2>2, <2>3, <2>4, <2>5 DEF AreDocuments
<1> HIDE DEF N
<1>2. ASSUME NEW p PROVE Setting(own, p) = {i \in Setting(docs, p) : m <= i}
  <2>1. ASSUME NEW i \in 1..N PROVE i \in Setting(own, p) <=> i \in Setting(docs, p) /\ m <= i
    <3>1. CASE m <= i
      <4>1. \A j \in i + 1..N : own[j] = docs[j]
        BY <1>1, <3>1
      <4> QED BY <4>1, <1>1, <3>1 DEF Setting, N
    <3>2. CASE ~(m <= i)
      BY <3>2, <1>1, NoDocumentIs DEF Setting
    <3> QED BY <3>1, <3>2
  <2>2. Setting(own, p) \subseteq 1..N /\ Setting(docs, p) \subseteq 1..N
    BY <1>1 DEF Setting
  <2> QED BY <2>1, <2>2
<1>3. ASSUME NEW p, Setting(own, p) # {}
      PROVE  Setting(docs, p) # {} /\ LastOf(docs, p) = LastOf(own, p)
  <2>1. PICK i \in Setting(own, p) :
          /\ \A j \in Setting(own, p) : j <= i
          /\ LastOf(own, p) = own[i][p] /\ i \in 1..N
    BY <1>1, <1>3, LastOfIs
  <2>2. i \in Setting(docs, p) /\ m <= i
    BY <1>2, <2>1
  <2>3. PICK k \in Setting(docs, p) :
          /\ \A j \in Setting(docs, p) : j <= k
          /\ LastOf(docs, p) = docs[k][p] /\ k \in 1..N
    BY <2>2, LastOfIs DEF N
  <2>4. m <= k
    BY <1>1, <2>1, <2>2, <2>3
  <2>5. k \in Setting(own, p)
    BY <1>2, <2>3, <2>4
  <2>6. i = k
    BY <2>1, <2>2, <2>3, <2>5
  <2>7. own[i] = docs[i]
    BY <1>1, <2>1, <2>2
  <2> QED BY <2>1, <2>2, <2>3, <2>6, <2>7
<1>4. ASSUME NEW p, Setting(own, p) # {}, LastOf(own, p).kind = "array"
      PROVE  IsSuffix(FlattenSeq(Items(own, p)), FlattenSeq(Items(docs, p)))
  <2> DEFINE T == Seq(STRING)
             x == Items(docs, p)
             y == Items(own, p)
  <2>1. LastOf(docs, p).kind = "array"
    BY <1>3, <1>4
  <2>2. x \in Seq(Seq(T)) /\ Len(x) = N /\ y \in Seq(Seq(T)) /\ Len(y) = N
    BY <1>1, <1>4, <2>1, ItemsType DEF N
  <2>3. \A i \in 1..N : i \in LastRun(own, p) <=> i \in LastRun(docs, p) /\ m <= i
    <3> TAKE i \in 1..N
    <3>0. \A j \in Setting(docs, p) : j \in 1..N
      BY <1>1 DEF Setting
    <3>1. \A j \in Setting(own, p) : j \in Setting(docs, p) /\ m <= j /\ own[j] = docs[j]
      BY <1>1, <1>2, <3>0
    <3>2. \A j \in Setting(docs, p) : m <= j => j \in Setting(own, p)
      BY <1>2
    <3>3. CASE m <= i
      <4>1. \A j \in Setting(docs, p) : i <= j => m <= j
        BY <1>1, <3>0, <3>3
      <4> QED BY <3>1, <3>2, <3>3, <4>1, <1>3, <1>4 DEF LastRun
    <3>4. CASE ~(m <= i)
      BY <3>1, <3>4 DEF LastRun
    <3> QED BY <3>3, <3>4
  <2>4. \A i \in 1..N : y[i] = IF m <= i THEN x[i] ELSE <<>>
    <3>1. \A i \in 1..N : m <= i => own[i] = docs[i]
      BY <1>1
    <3> QED BY <1>1, <2>3, <3>1 DEF Items
  <2> HIDE DEF x, y, T
  <2>5. PICK e \in Seq(T) : FlattenSeq(x) = e \o FlattenSeq(y)
    <3>1. x \in Seq(Seq(T)) /\ y \in Seq(Seq(T)) /\ Len(x) = Len(y)
      BY <2>2
    <3>2. \A i \in 1..Len(x) : y[i] = IF m <= i THEN x[i] ELSE <<>>
      BY <2>2, <2>4
    <3> HIDE DEF N
    <3> QED BY ONLY <3>1, <3>2, m \in Nat, FlattenSuffix
  <2>6. FlattenSeq(y) \in Seq(T)
    BY <2>2, FlattenType
  <2>7. IsSuffix(FlattenSeq(y), e \o FlattenSeq(y))
    BY <2>6, SuffixOfConcat
  <2> QED BY <2>5, <2>7 DEF x, y
<1> DEFINE A == Combined(docs)
           O == Combined(own)
<1>5. /\ \A p : p \in DOMAIN A <=> Setting(docs, p) # {}
      /\ \A p \in DOMAIN A : A[p].kind = LastOf(docs, p).kind
      /\ \A p : p \in DOMAIN O <=> Setting(own, p) # {}
      /\ \A p \in DOMAIN O : O[p].kind = LastOf(own, p).kind
  BY <1>1, CombinedPaths
<1>6. /\ \A p \in DOMAIN A : A[p] = IF LastOf(docs, p).kind = "array"
                                    THEN Array(FlattenSeq(Items(docs, p))) ELSE LastOf(docs, p)
      /\ \A p \in DOMAIN O : O[p] = IF LastOf(own, p).kind = "array"
                                    THEN Array(FlattenSeq(Items(own, p))) ELSE LastOf(own, p)
  BY CombinedAt
<1>7. \A x : Array(x).value = x
  BY DEF Array
<1> HIDE DEF A, O
<1>8. ASSUME NEW p \in DOMAIN O
      PROVE  /\ p \in DOMAIN A
             /\ A[p].kind = O[p].kind
             /\ IF O[p].kind = "array" THEN IsSuffix(O[p].value, A[p].value) ELSE A[p] = O[p]
  <2>1. /\ Setting(own, p) # {} /\ p \in DOMAIN A
        /\ LastOf(docs, p) = LastOf(own, p)
    BY <1>3, <1>5
  <2>2. A[p].kind = O[p].kind /\ O[p].kind = LastOf(own, p).kind
    BY <1>5, <2>1
  <2>3. CASE O[p].kind = "array"
    <3>1. A[p].value = FlattenSeq(Items(docs, p)) /\ O[p].value = FlattenSeq(Items(own, p))
      BY <1>6, <1>7, <2>1, <2>2, <2>3
    <3> QED BY <1>4, <2>1, <2>2, <2>3, <3>1
  <2>4. CASE O[p].kind # "array"
    BY <1>6, <2>1, <2>2, <2>4
  <2> QED BY <2>1, <2>2, <2>3, <2>4
<1>9. Carries(A, O)
  BY <1>8 DEF Carries
<1> QED BY <1>9 DEF A, O

-----------------------------------------------------------------------------

(***************************************************************************)
(* What holds while a file's variables are replaced: the names replaced so *)
(* far are those in front of the pending ones, none of them failed, and    *)
(* when no value brings a name in, the content is the file with these      *)
(* names replaced all at once.                                             *)
(***************************************************************************)
Replaced == {current.names[i] : i \in 1..Len(current.names) - Len(pending)}

(***************************************************************************)
(* No value the current file asks for contains the name of a variable.     *)
(***************************************************************************)
BringNoName ==
  \A v \in ToSet(current.names) :
    Executable(env[v]) => ToSet(Executed(env[v])) \cap Variables = {}

(***************************************************************************)
(* While the variables of a file are replaced: those that are not pending  *)
(* are, and no value has brought in the name of another one.               *)
(***************************************************************************)
Replacing ==
  /\ Len(pending) <= Len(current.names)
  /\ \A i \in 1..Len(pending) :
       pending[i] = current.names[Len(current.names) - Len(pending) + i]
  /\ \A v \in Replaced : Executable(env[v])
  /\ BringNoName =>
       content = Substitute(current.document, [v \in Replaced |-> Executed(env[v])])

(***************************************************************************)
(* The types of what RenderConfig keeps.                                   *)
(***************************************************************************)
RenderTypes ==
  /\ files \in Seq(ToSet(files)) /\ \A i \in DOMAIN files : IsFile(files[i])
  /\ env \in [Variables -> Template]
  /\ pc \in {"read", "replace", "done", "error"}
  /\ pending \in Seq(Variables)
  /\ IsDocument(content) /\ AreDocuments(parsed) /\ IsDocument(output)

(***************************************************************************)
(* The inductive invariant: MergedInOrder is inductive by CombinedOfMore,  *)
(* Verbatim and OnlyNamedVariables only with Replacing.                    *)
(***************************************************************************)
RenderInv ==
  /\ RenderTypes
  /\ Len(parsed) <= Len(files)
  /\ pc \in {"replace", "error"} => Len(parsed) < Len(files)
  /\ pc = "done" => Len(parsed) = Len(files)
  /\ pc = "replace" => Replacing
  /\ OnlyNamedVariables
  /\ MergedInOrder

(***************************************************************************)
(* A template that can be executed gives a text.                           *)
(***************************************************************************)
LEMMA TemplateGives ==
  ASSUME IsDocument(output), NEW t \in Template, Executable(t)
  PROVE  Executed(t) \in Seq(STRING)
<1>0. t.kind = "text" \/ t.kind = "lookup"
  BY DEF Executable
<1>1. CASE t.kind = "text"
  <2>1. t.value \in Seq(STRING)
    BY <1>1 DEF Template
  <2> QED BY <1>1, <2>1 DEF Executed
<1>2. CASE t.kind = "lookup" /\ t.path \in DOMAIN output /\ output[t.path].kind = "scalar"
  <2>1. output[t.path] \in Node
    BY <1>2 DEF IsDocument
  <2>2. output[t.path].value \in Seq(STRING)
    BY <1>2, <2>1, Kinds
  <2> QED BY <1>2, <2>2 DEF Executed
<1>3. CASE t.kind = "lookup" /\ ~(t.path \in DOMAIN output /\ output[t.path].kind = "scalar")
  <2>1. Executed(t) = <<"<no value>">>
    BY <1>3 DEF Executed
  <2> QED BY <2>1, NoValueAssumption
<1> QED BY <1>0, <1>1, <1>2, <1>3

(***************************************************************************)
(* The file being rendered is one of the files.                            *)
(***************************************************************************)
LEMMA CurrentIsFile ==
  ASSUME RenderTypes, Len(parsed) < Len(files)
  PROVE  /\ IsFile(current) /\ IsDocument(current.document) /\ current.names \in Seq(Variables)
         /\ Len(current.names) \in Nat /\ Len(parsed) \in Nat /\ Len(files) \in Nat
<1>1. Len(parsed) \in Nat /\ Len(files) \in Nat /\ DOMAIN files = 1..Len(files)
  BY DEF RenderTypes, AreDocuments
<1>2. Len(parsed) + 1 \in DOMAIN files
  BY <1>1
<1>3. IsFile(current)
  BY <1>2 DEF RenderTypes, current
<1> QED BY <1>1, <1>3 DEF IsFile

(***************************************************************************)
(* What a variable gives depends only on what was merged so far.           *)
(***************************************************************************)
LEMMA SameValues ==
  ASSUME UNCHANGED <<files, env, parsed, output>>
  PROVE  /\ current' = current /\ BringNoName' = BringNoName
         /\ \A v : Executed(env[v])' = Executed(env[v])
         /\ \A v : Executable(env[v])' = Executable(env[v])
<1>1. current' = current
  BY DEF current
<1>2. ASSUME NEW v
      PROVE  Executed(env[v])' = Executed(env[v]) /\ Executable(env[v])' = Executable(env[v])
  BY Zenon DEF Executed, Executable, Clears
<1>3. BringNoName' = BringNoName
  BY <1>1, <1>2 DEF BringNoName
<1> QED BY <1>1, <1>2, <1>3

(***************************************************************************)
(* A step of the program that is none of RenderConfig.                     *)
(***************************************************************************)
LEMMA RenderUnchanged ==
  ASSUME RenderInv, UNCHANGED renderVars
  PROVE  RenderInv'
<1>0. UNCHANGED <<files, env, pc, content, pending, parsed, output>>
  BY DEF renderVars
<1>1. /\ current' = current /\ BringNoName' = BringNoName
      /\ \A v : Executed(env[v])' = Executed(env[v])
      /\ \A v : Executable(env[v])' = Executable(env[v])
  BY <1>0, SameValues
<1>2. Replaced' = Replaced
  BY <1>0, <1>1 DEF Replaced
<1>3. Replacing' = Replacing
  BY <1>0, <1>1, <1>2 DEF Replacing
<1>4. OnlyNamedVariables' = OnlyNamedVariables /\ MergedInOrder' = MergedInOrder
  BY <1>0, <1>1 DEF OnlyNamedVariables, MergedInOrder
<1>5. RenderTypes' = RenderTypes
  BY <1>0 DEF RenderTypes
<1> QED BY <1>0, <1>3, <1>4, <1>5 DEF RenderInv

(***************************************************************************)
(* With a new file, none of its names has been replaced.                   *)
(***************************************************************************)
LEMMA ReadFileKeeps ==
  ASSUME RenderInv, ReadFile
  PROVE  RenderInv'
<1>0. /\ Len(parsed) < Len(files) /\ content' = current.document /\ pending' = current.names
      /\ pc' = "replace" /\ UNCHANGED <<files, env, parsed, output>>
  BY DEF ReadFile
<1>1. /\ current' = current /\ BringNoName' = BringNoName
  BY <1>0, SameValues
<1>2. IsDocument(current.document) /\ current.names \in Seq(Variables)
  BY <1>0, CurrentIsFile DEF RenderInv
<1>3. RenderTypes'
  BY <1>0, <1>2 DEF RenderTypes, RenderInv
<1>4. Len(current.names) \in Nat
  BY <1>2
<1>5. Replaced' = {}
  <2>1. 1..Len(current.names) - Len(current.names) = {}
    BY <1>4
  <2> QED BY <2>1, <1>0, <1>1 DEF Replaced
<1>6. Substitute(current.document, [v \in Replaced |-> Executed(env[v])])' = current.document
  <2> DEFINE f == [v \in Replaced |-> Executed(env[v])]
  <2>1. IsImage(f', STRING) /\ DOMAIN f' = {}
    BY <1>5 DEF IsImage
  <2> HIDE DEF f
  <2>2. Substitute(current.document, f') = current.document
    BY <1>2, <2>1, SubstituteNothing
  <2>3. Substitute(current.document, f)' = Substitute(current.document, f')
    BY <1>1 DEF Substitute, Expand, Scalar, Array
  <2> QED BY <2>2, <2>3 DEF f
<1>7. Replacing'
  BY <1>0, <1>1, <1>4, <1>5, <1>6 DEF Replacing
<1>8. MergedInOrder' /\ OnlyNamedVariables'
  BY <1>0 DEF MergedInOrder, OnlyNamedVariables, RenderInv
<1> QED BY <1>0, <1>3, <1>7, <1>8 DEF RenderInv

(***************************************************************************)
(* One more variable is replaced.                                          *)
(***************************************************************************)
LEMMA ReplaceKeeps ==
  ASSUME RenderInv, Replace
  PROVE  RenderInv'
<1> DEFINE names == current.names
           v == Head(pending)
           f == [w \in Replaced |-> Executed(env[w])]
           g == [w \in {v} |-> Executed(env[w])]
           N == Len(names)
           n == Len(pending)
<1>0. /\ pc = "replace" /\ pending # <<>> /\ Executable(env[v])
      /\ content' = Substitute(content, g) /\ pending' = Tail(pending)
      /\ UNCHANGED <<files, env, pc, parsed, output>>
  BY DEF Replace
<1>1. /\ current' = current /\ BringNoName' = BringNoName
      /\ \A w : Executed(env[w])' = Executed(env[w])
      /\ \A w : Executable(env[w])' = Executable(env[w])
  BY <1>0, SameValues
<1>2. /\ RenderTypes /\ Replacing /\ IsDocument(content) /\ pending \in Seq(Variables)
      /\ IsDocument(output) /\ env \in [Variables -> Template]
  BY <1>0 DEF RenderInv, RenderTypes
<1>3. IsDocument(current.document) /\ names \in Seq(Variables) /\ N \in Nat
  BY <1>0, CurrentIsFile DEF RenderInv
<1>4. /\ v \in Variables /\ v = pending[1] /\ n \in Nat /\ n >= 1 /\ n <= N
      /\ pending' \in Seq(Variables) /\ Len(pending') = n - 1
      /\ \A i \in 1..n - 1 : pending'[i] = pending[i + 1]
  <2>1. /\ Head(pending) \in Variables /\ Tail(pending) \in Seq(Variables)
        /\ Len(Tail(pending)) = Len(pending) - 1 /\ Head(pending) = pending[1]
        /\ \A i \in 1..Len(Tail(pending)) : Tail(pending)[i] = pending[i + 1]
    BY <1>0, <1>2, HeadTailProperties
  <2>2. n \in Nat /\ n # 0
    BY <1>0, <1>2, EmptySeq
  <2> QED BY <2>1, <2>2, <1>0, <1>2 DEF Replacing
<1>5. \A i \in 1..n : pending[i] = names[N - n + i]
  BY <1>2 DEF Replacing
<1>6. Replaced \subseteq Variables /\ Replaced \subseteq ToSet(names)
  <2>1. \A i \in 1..N - n : i \in 1..N
    BY <1>3, <1>4
  <2>2. \A i \in 1..N : names[i] \in Variables /\ names[i] \in ToSet(names)
    BY <1>3, ElementOfSeq DEF ToSet
  <2> QED BY <2>1, <2>2 DEF Replaced
<1>7. Replaced' = Replaced \cup {v} /\ v \in ToSet(names)
  <2>1. v = names[N - n + 1]
    BY <1>4, <1>5
  <2>2. N - (n - 1) = N - n + 1 /\ N - n \in Nat /\ N - n + 1 \in 1..N
    BY <1>3, <1>4
  <2>3. Replaced' = {names[i] : i \in 1..N - n + 1}
    BY <1>1, <1>4, <2>2 DEF Replaced
  <2>4. v \in ToSet(names)
    BY <1>3, <2>1, <2>2 DEF ToSet
  <2> HIDE DEF names, N, n, v
  <2>5. 1..N - n + 1 = (1..N - n) \cup {N - n + 1}
    BY <2>2
  <2>6. Replaced = {names[i] : i \in 1..N - n}
    BY DEF Replaced, names, N, n
  <2> QED BY <2>1, <2>3, <2>4, <2>5, <2>6
<1>8. \A w \in Replaced' : Executable(env[w])
  BY <1>0, <1>2, <1>7 DEF Replacing
<1>9. IsImage(f, STRING) /\ IsImage(g, STRING) /\ DOMAIN g = {v} /\ g[v] = Executed(env[v])
  <2>1. \A w \in Replaced \cup {v} : Executed(env[w]) \in Seq(STRING)
    BY <1>0, <1>2, <1>4, <1>6, TemplateGives DEF Replacing
  <2> HIDE DEF v
  <2> QED BY <2>1 DEF IsImage
<1>10. IsDocument(content')
  <2> HIDE DEF g
  <2> QED BY <1>0, <1>2, <1>9, SubstituteType
<1>11. RenderTypes'
  BY <1>0, <1>2, <1>4, <1>10 DEF RenderTypes
<1>12. ASSUME BringNoName
       PROVE  content' = Substitute(current.document, [w \in Replaced \cup {v} |-> Executed(env[w])])
  <2>1. content = Substitute(current.document, f)
    BY <1>2, <1>12 DEF Replacing
  <2>2. \A w \in DOMAIN f : ToSet(f[w]) \cap DOMAIN g = {}
    BY <1>2, <1>4, <1>6, <1>9, <1>12 DEF BringNoName, Replacing
  <2>3. Either(f, g) = [w \in Replaced \cup {v} |-> Executed(env[w])]
    <3> HIDE DEF v
    <3> QED BY DEF Either
  <2> HIDE DEF f, g
  <2>4. Substitute(Substitute(current.document, f), g) = Substitute(current.document, Either(f, g))
    BY <1>3, <1>9, <2>2, SubstituteTwice
  <2> QED BY <1>0, <2>1, <2>3, <2>4
<1>13. Replacing'
  <2>1. Len(pending') <= Len(current'.names)
    BY <1>1, <1>3, <1>4
  <2>2. ASSUME NEW i \in 1..Len(pending')
        PROVE  pending'[i] = current'.names[Len(current'.names) - Len(pending') + i]
    <3>1. i \in 1..n - 1 /\ i + 1 \in 1..n /\ N - n + (i + 1) = N - (n - 1) + i
      <4>1. i \in 1..n - 1 /\ n \in Nat /\ N \in Nat
        BY <1>3, <1>4
      <4> HIDE DEF N, n
      <4> QED BY <4>1
    <3> QED BY <1>1, <1>4, <1>5, <3>1
  <2>3. BringNoName' => content' = Substitute(current.document, [w \in Replaced |-> Executed(env[w])])'
    <3>1. [w \in Replaced |-> Executed(env[w])]' = [w \in Replaced \cup {v} |-> Executed(env[w])]
      <4> HIDE DEF v
      <4> QED BY <1>1, <1>7
    <3> DEFINE h == [w \in Replaced |-> Executed(env[w])]
    <3>2. Substitute(current.document, h)' = Substitute(current.document, h')
      <4> HIDE DEF h
      <4> QED BY <1>1 DEF Substitute, Expand, Scalar, Array
    <3> QED BY <1>1, <1>12, <3>1, <3>2
  <2>4. \A w \in Replaced' : Executable(env[w])'
    BY <1>1, <1>8
  <2> QED BY <1>0, <2>1, <2>2, <2>3, <2>4 DEF Replacing
<1>14. MergedInOrder' /\ OnlyNamedVariables'
  BY <1>0 DEF MergedInOrder, OnlyNamedVariables, RenderInv
<1> QED BY <1>0, <1>11, <1>13, <1>14 DEF RenderInv

(***************************************************************************)
(* RenderConfig fails only over the file it is at.                         *)
(***************************************************************************)
LEMMA FailsKeeps ==
  ASSUME RenderInv, ReplaceFails \/ UnmarshalFails
  PROVE  RenderInv'
<1>0. /\ pc = "replace" /\ pc' = "error"
      /\ UNCHANGED <<files, env, content, pending, parsed, output>>
  BY DEF ReplaceFails, UnmarshalFails, Error
<1>1. current' = current /\ \A v : Executable(env[v])' = Executable(env[v])
  BY <1>0, SameValues
<1>2. RenderTypes' /\ MergedInOrder'
  BY <1>0 DEF RenderInv, RenderTypes, MergedInOrder
<1>3. OnlyNamedVariables'
  <2>1. CASE ReplaceFails
    <3>1. pending # <<>> /\ ~Executable(env[Head(pending)])
      BY <2>1 DEF ReplaceFails
    <3>2. Head(pending) \in ToSet(current.names)
      <4>1. Replacing /\ pending \in Seq(Variables)
        BY <1>0 DEF RenderInv, RenderTypes
      <4>2. current.names \in Seq(Variables)
        BY <1>0, CurrentIsFile DEF RenderInv
      <4>3. Len(pending) \in Nat /\ Len(pending) # 0 /\ Head(pending) = pending[1]
        BY <3>1, <4>1, EmptySeq
      <4>4. /\ Len(current.names) - Len(pending) + 1 \in 1..Len(current.names)
            /\ pending[1] = current.names[Len(current.names) - Len(pending) + 1]
        BY <4>1, <4>2, <4>3 DEF Replacing
      <4> QED BY <4>2, <4>3, <4>4 DEF ToSet
    <3>3. \E v \in ToSet(current.names)' : ~Executable(env[v])'
      BY <1>1, <3>1, <3>2
    <3> QED BY <3>3 DEF OnlyNamedVariables
  <2>2. CASE UnmarshalFails
    BY <1>0, <2>2 DEF OnlyNamedVariables, UnmarshalFails
  <2> QED BY <2>1, <2>2
<1> QED BY <1>0, <1>2, <1>3 DEF RenderInv

(***************************************************************************)
(* The document is merged into what those before it gave.                  *)
(***************************************************************************)
LEMMA MergeKeeps ==
  ASSUME RenderInv, Merge
  PROVE  RenderInv'
<1>0. /\ pc = "replace" /\ pc' = "read"
      /\ output' = DeepMerge(content, output) /\ parsed' = Append(parsed, content)
      /\ UNCHANGED <<files, env, content, pending>>
  BY DEF Merge
<1>1. IsDocument(content) /\ AreDocuments(parsed) /\ IsDocument(output)
  BY DEF RenderInv, RenderTypes
<1>2. AreDocuments(parsed') /\ Len(parsed') = Len(parsed) + 1 /\ Len(parsed) \in Nat
  BY <1>0, <1>1, OneMore
<1>3. IsDocument(output')
  BY <1>0, <1>1, DeepMergeType
<1>4. Combined(parsed') = DeepMerge(content, Combined(parsed))
  BY <1>0, <1>1, CombinedOfMore
<1>5. MergedInOrder'
  BY <1>0, <1>4 DEF RenderInv, MergedInOrder
<1>6. Len(files) \in Nat /\ Len(parsed) < Len(files)
  BY <1>0, CurrentIsFile DEF RenderInv
<1>7. RenderTypes'
  BY <1>0, <1>1, <1>2, <1>3 DEF RenderInv, RenderTypes
<1> QED BY <1>0, <1>2, <1>5, <1>6, <1>7 DEF RenderInv, OnlyNamedVariables

(***************************************************************************)
(* RenderConfig returns when every file is merged.                         *)
(***************************************************************************)
LEMMA ReturnKeeps ==
  ASSUME RenderInv, Return
  PROVE  RenderInv'
BY DEF Return, RenderInv, RenderTypes, OnlyNamedVariables, MergedInOrder

(***************************************************************************)
(* Every step of RenderConfig keeps the invariant.                         *)
(***************************************************************************)
LEMMA RenderKeeps ==
  ASSUME RenderInv, RenderStep
  PROVE  RenderInv'
BY ReadFileKeeps, ReplaceKeeps, FailsKeeps, MergeKeeps, ReturnKeeps DEF RenderStep

(***************************************************************************)
(* Before the first file, whatever the files are.                          *)
(***************************************************************************)
RenderReady ==
  /\ RenderStart
  /\ files \in Seq(ToSet(files)) /\ \A i \in DOMAIN files : IsFile(files[i])
  /\ env \in [Variables -> Template]

(***************************************************************************)
(* The invariant holds when RenderConfig is called.                        *)
(***************************************************************************)
LEMMA RenderBegins == RenderReady => RenderInv
<1> SUFFICES ASSUME RenderReady PROVE RenderInv
  OBVIOUS
<1>1. /\ pc = "read" /\ content = NoDocument /\ pending = <<>> /\ parsed = <<>>
      /\ output = NoDocument
  BY DEF RenderReady, RenderStart
<1>2. AreDocuments(<<>>) /\ Len(<<>>) = 0
  BY DEF AreDocuments, ToSet
<1>3. RenderTypes
  BY <1>1, <1>2, NoDocumentIs DEF RenderReady, RenderTypes
<1>4. MergedInOrder
  BY <1>1, CombinedOfNone DEF MergedInOrder
<1> QED BY <1>1, <1>2, <1>3, <1>4 DEF RenderInv, OnlyNamedVariables

(***************************************************************************)
(* When no name is pending, every name has been replaced, in whatever      *)
(* order and however often it occurred.                                    *)
(***************************************************************************)
LEMMA RenderVerbatim ==
  ASSUME RenderInv
  PROVE  Verbatim
<1> SUFFICES ASSUME pc = "replace", pending = <<>>, BringNoName
             PROVE  /\ \A v \in ToSet(current.names) : Executable(env[v])
                    /\ content = Substitute(current.document,
                                            [v \in ToSet(current.names) |-> Executed(env[v])])
  BY DEF Verbatim, BringNoName
<1>1. Replacing
  BY DEF RenderInv
<1>2. current.names \in Seq(Variables)
  BY CurrentIsFile DEF RenderInv
<1>3. Replaced = ToSet(current.names)
  <2>1. Len(current.names) - Len(pending) = Len(current.names)
    BY <1>2
  <2>2. DOMAIN current.names = 1..Len(current.names)
    BY <1>2
  <2> QED BY <2>1, <2>2 DEF Replaced, ToSet
<1> QED BY <1>1, <1>3 DEF Replacing
=============================================================================
