---------------------------- MODULE MCMatrixTools ----------------------------
(***************************************************************************)
(* Command lines, files and environments for MatrixTools.                  *)
(***************************************************************************)
EXTENDS MatrixTools

-----------------------------------------------------------------------------

(***************************************************************************)
(* Documents with one key at the top, scalars and items that show which    *)
(* file they are from, and maps over some of the keys given.               *)
(***************************************************************************)
Documents(keys, nodes) == UNION {[{<<k>> : k \in S} -> nodes] : S \in SUBSET keys}

Below(key, document) ==
  [p \in {<<key>> \o q : q \in DOMAIN document} |-> document[Tail(p)]]

Leaves(w) == {Scalar(<<w>>), Array(<<<<w>>>>), Map}

Shapes(w, keys) ==
  Documents({"k"}, Leaves(w) \cup {Array(<<>>)}) \cup
  {<<"k">> :> Map @@ Below("k", d) : d \in Documents(keys, Leaves(w))}

NoVariables(document) == [document |-> document, names |-> <<>>]

FourFiles ==
  {"underrides" :> NoVariables(a) @@ "user" :> NoVariables(b) @@ "overrides" :> NoVariables(c) @@ "process" :> NoVariables(d) :
     a \in Shapes("1", {"x"}), b \in Shapes("2", {"x"}),
     c \in Shapes("4", {"x"}), d \in Shapes("5", {"x"})}

ThreeFiles ==
  {"underrides" :> NoVariables(a) @@ "user" :> NoVariables(b) @@ "overrides" :> NoVariables(c) :
     a \in Shapes("1", {"x", "y"}), b \in Shapes("2", {"x", "y"}), c \in Shapes("4", {"x", "y"})}

(***************************************************************************)
(* A file with two variables that occur twice each, in any order.          *)
(***************************************************************************)
Substituted == <<"k">> :> Scalar(<<"A", "word">>) @@ <<"l">> :> Array(<<<<"B">>, <<"A">>>>)
               @@ <<"m">> :> Map @@ <<"m", "x">> :> Scalar(<<"B">>)

VariableFiles ==
  {"underrides" :> NoVariables(<<"k">> :> Scalar(<<"1">>)) @@
   "overrides" :> [document |-> Substituted, names |-> n] :
     n \in {n \in [1..4 -> {"A", "B"}] : \E i, j \in 1..4 : i # j /\ {l \in 1..4 : n[l] = "A"} = {i, j}}}

Templates ==
  {[kind |-> "text", value |-> t] :
     t \in {<<"secret">>, <<"A">>, <<"B", "secret">>, <<"C">>, <<"%">>}} \cup
  {[kind |-> "lookup", path |-> p] : p \in {<<"k">>, <<"k", "x">>, <<"q", "x">>}} \cup
  {[kind |-> "missing"], [kind |-> "invalid"]}

-----------------------------------------------------------------------------

(***************************************************************************)
(* deepMergeMaps as it is written, over nested maps, and such maps by the  *)
(* paths of RenderConfig.                                                  *)
(***************************************************************************)
MapOf(entries) == [kind |-> "map", value |-> entries]

RECURSIVE DeepMergeMaps(_, _)
DeepMergeMaps(source, destination) ==
  LET Merged(s, d) ==
        IF s.kind = "map" /\ d.kind = "map" THEN MapOf(DeepMergeMaps(s.value, d.value))
        ELSE IF s.kind = "array" /\ d.kind = "array" THEN Appended(s, d)
        ELSE s
      common == DOMAIN source \cap DOMAIN destination
  IN  [k \in common |-> Merged(source[k], destination[k])] @@ source @@ destination

RECURSIVE ByPaths(_)
ByPaths(entries) ==
  LET Under(k) == IF entries[k].kind = "map" THEN Below(k, ByPaths(entries[k].value)) ELSE <<>>
      node(n) == IF n.kind = "map" THEN Map ELSE n
      nested == UNION {DOMAIN Under(k) : k \in DOMAIN entries}
  IN  [k \in {<<k>> : k \in DOMAIN entries} |-> node(entries[k[1]])]
      @@ [p \in nested |-> Under(p[1])[p]]

RECURSIVE Nested(_, _, _)
Nested(w, keys, depth) ==
  LET leaves == {Scalar(<<w>>), Array(<<<<w>>>>)}
      maps == IF depth = 1 THEN {} ELSE {MapOf(e) : e \in Nested(w, keys, depth - 1)}
  IN  UNION {[S -> leaves \cup maps] : S \in SUBSET keys}

ASSUME MergesByPath ==
  \A <<keys, depth>> \in {<<{"x", "y"}, 2>>, <<{"x"}, 4>>} :
    \A s \in Nested("1", keys, depth), d \in Nested("2", keys, depth) :
      ByPaths(DeepMergeMaps(s, d)) = DeepMerge(ByPaths(s), ByPaths(d))

-----------------------------------------------------------------------------

RenderedFrom(user, overrides) ==
  [output |-> <<"out">>, underrides |-> <<"underrides">>, user |-> user, overrides |-> overrides]

WithUser == RenderedFrom(<<"user">>, <<"overrides">>)

WithProcess == RenderedFrom(<<"user">>, <<"overrides", "process">>)

WithoutUser == RenderedFrom(<<>>, <<"overrides">>)

(***************************************************************************)
(* The labels, for an image with a tag and for one with a digest only.     *)
(***************************************************************************)
ChartLabels ==
  {<<"part-of">> :> <<"matrix-stack">> @@ <<"managed-by">> :> <<"Helm">> @@ Version :> v :
     v \in {<<"0.5.7">>, <<>>}}

AnySecret(keys, types) ==
  [name : {<<"generated">>}, key : {<<k>> : k \in keys}, type : {<<t>> : t \in types}]

SecretRequests ==
  {[command |-> "generate_secrets", secrets |-> s, labels |-> l] :
     l \in ChartLabels,
     s \in [{1} -> AnySecret({"K"}, Types)] \cup [1..2 -> AnySecret({"K", "L"}, {"rand32", "hex32"})]}

MarkerRequests ==
  {[command |-> "deployment_markers", labels |-> l,
    markers |-> <<[name |-> <<"markers">>, key |-> <<"MSC3861">>, newValue |-> <<v>>,
                   step |-> <<s>>, allowed |-> a]>>] :
     l \in ChartLabels, v \in {"legacy_auth", "delegated_auth"}, s \in {"pre", "post"},
     a \in {{<<"legacy_auth">>}, {<<"delegated_auth">>, <<"syn2mas_migrated">>}}}

OtherRequests ==
  {[command |-> "syn2mas", masConfig |-> <<"mas.yaml">>, synapseConfig |-> <<"homeserver.yaml">>],
   [command |-> "tcpwait", address |-> <<"postgres:5432">>]}

(***************************************************************************)
(* Command lines nobody renders.                                           *)
(***************************************************************************)
Lists == {<<>>, <<"a">>, <<"a", ":", "b">>, <<"a", ":", "b", ":", "rand32">>,
          <<"a", ":", "b", ":", "c", ":", "d">>,
          <<"a", ":", "b", ":", "rand32", ",", "a", ":", "b">>,
          <<"a", ":", "b", ":", "c", ":", "d", ",", "a", ":", "b">>,
          <<"a", ":", "b", ":", "c", ",", "a">>, <<"a", ",", "a", ":", "b", ":", "c">>}

LabelLists == {<<>>, <<"a">>, <<"a", "=", "b">>, <<"a", "=", "b", ",">>}

Unrendered ==
  {<<>>, <<Word("help")>>, <<Word("render_config")>>, <<Word("syn2mas")>>,
   <<Word("render_config"), Word("user"), Flag("output", <<"out">>)>>,
   <<Word("render_config"), Flag("output", <<"out">>), Word("nowhere"), Word("user")>>,
   <<Word("tcpwait"), Flag("port", <<"1">>)>>,
   <<Word("syn2mas"), Flag("config", <<"mas.yaml">>)>>} \cup
  {<<Word("generate_secrets"), Flag("secrets", l), Flag("labels", m)>> :
     l \in Lists, m \in LabelLists} \cup
  {<<Word("deployment_markers"), Flag("markers", l), Flag("labels", m)>> :
     l \in Lists, m \in LabelLists}

-----------------------------------------------------------------------------

MCRenders == {WithUser, WithProcess, WithoutUser}

MCRequests == SecretRequests \cup MarkerRequests \cup OtherRequests

Unset == [v \in Variables |-> [kind |-> "missing"]]

Init ==
  /\ \/ /\ fs \in FourFiles
        /\ argv = CommandLine(RenderRequest(WithProcess))
        /\ env = Unset
     \/ /\ fs \in ThreeFiles
        /\ argv = CommandLine(RenderRequest(WithUser))
        /\ env = Unset
     \/ /\ fs \in VariableFiles
        /\ argv = CommandLine(RenderRequest(WithoutUser))
        /\ env \in [Variables -> Templates]
     \/ /\ fs = "user" :> NoVariables(<<"k">> :> Scalar(<<"2">>))
        /\ argv \in Unrendered \cup {CommandLine(o) : o \in MCRequests}
        /\ env = Unset
  /\ Start

MCSpec == Init /\ [][Next]_vars
=============================================================================
