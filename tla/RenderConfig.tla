---------------------------- MODULE RenderConfig ----------------------------
(***************************************************************************)
(* RenderConfig of matrix-tools: the files are taken in order; in the text *)
(* of each the variables ${NAME} it contains are replaced one after the    *)
(* other, then it is parsed and merged into what the files before it gave. *)
(*                                                                         *)
(* A document is a function from paths to nodes: a path is the sequence of *)
(* the keys that lead to a node, a node a scalar, an array or a map, whose *)
(* entries are at the paths that go on. The text of a scalar, or of an     *)
(* array's element, is a sequence of words and variables; where in the     *)
(* file a node stands matters only for the order in which the variables    *)
(* occur, which a file has as "names". A map with a key that is not a      *)
(* string is decoded to another Go type and merged as a scalar is.         *)
(***************************************************************************)
EXTENDS Naturals, Sequences, SequencesExt

CONSTANTS Variables  \* the names that may stand in ${...}

VARIABLES files,    \* the sources, in the order of the arguments
          env,      \* what each variable is set to
          pc,       \* where RenderConfig is
          content,  \* the file being rendered
          pending,  \* envVarNames, those not yet replaced
          parsed,   \* the documents merged so far
          output    \* the result so far

renderVars == <<files, env, pc, content, pending, parsed, output>>

-----------------------------------------------------------------------------

Scalar(text) == [kind |-> "scalar", value |-> text]

Array(items) == [kind |-> "array", value |-> items]

Map == [kind |-> "map"]

Node == [kind : {"scalar"}, value : Seq(STRING)] \cup [kind : {"array"}, value : Seq(Seq(STRING))]
        \cup {Map}

Above(path) == {SubSeq(path, 1, n) : n \in 1..Len(path) - 1}

IsDocument(d) ==
  /\ d \in [DOMAIN d -> Node]
  /\ DOMAIN d \subseteq Seq(STRING)
  /\ \A p \in DOMAIN d : p # <<>> /\ \A q \in Above(p) : q \in DOMAIN d /\ d[q] = Map

NoDocument == [p \in {} |-> Map]

(***************************************************************************)
(* deepMergeMaps, by paths: it comes to a path of both maps only through   *)
(* maps of both. There two arrays are appended, two maps are merged, and   *)
(* otherwise the source's value counts. A value of the source that is no   *)
(* map, or has no map to be merged into, takes everything's place that was *)
(* below its path.                                                         *)
(***************************************************************************)
Clears(document, path) ==
  \E q \in Above(path) \cap DOMAIN document : document[q].kind # "map"

AppendedInFront(s, d) == Array(s.value \o d.value)  \* mutant: append(srcArray, destArray...)

Appended(s, d) == Array(d.value \o s.value)

DeepMerge(source, destination) ==
  LET kept == {p \in DOMAIN destination : ~Clears(source, p)}
      arrays == {p \in DOMAIN source \cap DOMAIN destination :
                   source[p].kind = "array" /\ destination[p].kind = "array"}
  IN  [p \in DOMAIN source \cup kept |->
         IF p \in arrays THEN Appended(source[p], destination[p])
         ELSE IF p \in DOMAIN source THEN source[p]
         ELSE destination[p]]

(***************************************************************************)
(* bytes.ReplaceAll over a document: the words and variables in the domain *)
(* of "image" are replaced by the texts it gives them.                     *)
(***************************************************************************)
Expand(text, image) ==
  FlattenSeq([i \in DOMAIN text |->
                IF text[i] \in DOMAIN image THEN image[text[i]] ELSE <<text[i]>>])

Substitute(document, image) ==
  [p \in DOMAIN document |->
     LET n == document[p]
     IN  CASE n.kind = "scalar" -> Scalar(Expand(n.value, image))
           [] n.kind = "array" -> Array([i \in DOMAIN n.value |-> Expand(n.value[i], image)])
           [] n.kind = "map" -> n]

Words(document) ==
  UNION {LET n == document[p]
         IN  CASE n.kind = "scalar" -> ToSet(n.value)
               [] n.kind = "array" -> UNION {ToSet(n.value[i]) : i \in DOMAIN n.value}
               [] n.kind = "map" -> {} : p \in DOMAIN document}

(***************************************************************************)
(* A file whose variables are among the names extracted from its text.     *)
(***************************************************************************)
IsFile(f) ==
  /\ f = [document |-> f.document, names |-> f.names]
  /\ IsDocument(f.document)
  /\ f.names \in Seq(Variables)
  /\ Words(f.document) \cap Variables \subseteq ToSet(f.names)

(***************************************************************************)
(* A variable is set to a template: one that fails, one whose text does    *)
(* not depend on the configuration (a secret that is read, the host name), *)
(* or one that looks up a path of what was merged so far. A path that goes *)
(* on below a value that is no map cannot be evaluated; one that is not    *)
(* there gives "<no value>", the word that is also used for the Go syntax  *)
(* of an array or a map.                                                   *)
(***************************************************************************)
Executable(template) ==
  \/ template.kind = "text"
  \/ template.kind = "lookup" /\ ~Clears(output, template.path)

Executed(template) ==
  CASE template.kind = "text" -> template.value
    [] template.kind = "lookup" ->
         IF template.path \in DOMAIN output /\ output[template.path].kind = "scalar"
         THEN output[template.path].value
         ELSE <<"<no value>">>

(***************************************************************************)
(* "<no value>", what text/template prints for a path that is not there, is *)
(* one word of a text like every other.                                    *)
(***************************************************************************)
ASSUME NoValueAssumption == <<"<no value>">> \in Seq(STRING)

Template ==
  [kind : {"text"}, value : Seq(STRING)] \cup [kind : {"lookup"}, path : Seq(STRING)]
  \cup [kind : {"missing", "invalid"}]

(***************************************************************************)
(* The text of a value may make a file invalid YAML.                       *)
(***************************************************************************)
Valid(document) == "%" \notin Words(document)

-----------------------------------------------------------------------------

Error ==
  /\ pc' = "error"
  /\ UNCHANGED <<files, env, content, pending, parsed, output>>

current == files[Len(parsed) + 1]

(***************************************************************************)
(* ReadAll of the next file; the names are extracted once, from the text   *)
(* as it was read.                                                         *)
(***************************************************************************)
ReadFile ==
  /\ pc = "read"
  /\ Len(parsed) < Len(files)
  /\ content' = current.document
  /\ pending' = current.names
  /\ pc' = "replace"
  /\ UNCHANGED <<files, env, parsed, output>>

ReplaceOnce ==  \* mutant: names found in a value that was put in are replaced too
  /\ pc = "replace"
  /\ pending # <<>>
  /\ Executable(env[Head(pending)])
  /\ content' = Substitute(content, [v \in {Head(pending)} |-> Executed(env[v])])
  /\ pending' = SetToSeq(Words(content') \cap Variables)
  /\ UNCHANGED <<files, env, pc, parsed, output>>

ReplaceUntilUnchanged ==  \* mutant: stops at a name that is not there any more
  /\ pc = "replace"
  /\ pending # <<>>
  /\ Executable(env[Head(pending)])
  /\ content' = Substitute(content, [v \in {Head(pending)} |-> Executed(env[v])])
  /\ pending' = IF content' = content THEN <<>> ELSE Tail(pending)
  /\ UNCHANGED <<files, env, pc, parsed, output>>

Replace ==
  /\ pc = "replace"
  /\ pending # <<>>
  /\ Executable(env[Head(pending)])
  /\ content' = Substitute(content, [v \in {Head(pending)} |-> Executed(env[v])])
  /\ pending' = Tail(pending)
  /\ UNCHANGED <<files, env, pc, parsed, output>>

(***************************************************************************)
(* The variable is not in the environment, or its template does not parse  *)
(* or cannot be executed.                                                  *)
(***************************************************************************)
ReplaceFails ==
  /\ pc = "replace"
  /\ pending # <<>>
  /\ ~Executable(env[Head(pending)])
  /\ Error

Merge ==
  /\ pc = "replace"
  /\ pending = <<>>
  /\ Valid(content)
  /\ output' = DeepMerge(content, output)
  /\ parsed' = Append(parsed, content)
  /\ pc' = "read"
  /\ UNCHANGED <<files, env, content, pending>>

UnmarshalFails ==
  /\ pc = "replace"
  /\ pending = <<>>
  /\ ~Valid(content)
  /\ Error

Return ==
  /\ pc = "read"
  /\ Len(parsed) = Len(files)
  /\ pc' = "done"
  /\ UNCHANGED <<files, env, content, pending, parsed, output>>

RenderStart ==
  /\ pc = "read"
  /\ content = NoDocument
  /\ pending = <<>>
  /\ parsed = <<>>
  /\ output = NoDocument

RenderStep ==
  ReadFile \/ Replace \/ ReplaceFails \/ Merge \/ UnmarshalFails \/ Return

-----------------------------------------------------------------------------

(***************************************************************************)
(* The value the documents give a path, defined without merging them one   *)
(* by one: of those that have the path after the last one that clears it,  *)
(* the last run of one kind decides. An array is the concatenation of that *)
(* run, of other values the last one counts.                               *)
(***************************************************************************)
Setting(documents, path) ==
  {i \in DOMAIN documents :
     /\ path \in DOMAIN documents[i]
     /\ \A j \in i + 1..Len(documents) : ~Clears(documents[j], path)}

LastOf(documents, path) ==
  LET setting == Setting(documents, path)
  IN  documents[CHOOSE i \in setting : \A j \in setting : j <= i][path]

LastRun(documents, path) ==
  {i \in Setting(documents, path) :
     \A j \in Setting(documents, path) :
       i <= j => documents[j][path].kind = LastOf(documents, path).kind}

Combined(documents) ==
  [p \in {p \in UNION {DOMAIN documents[i] : i \in DOMAIN documents} : Setting(documents, p) # {}} |->
     IF LastOf(documents, p).kind = "array"
     THEN Array(FlattenSeq([i \in DOMAIN documents |->
                  IF i \in LastRun(documents, p) THEN documents[i][p].value ELSE <<>>]))
     ELSE LastOf(documents, p)]

(***************************************************************************)
(* Everything a document sets is in the result: scalars as they are set,   *)
(* maps with everything they set, arrays at the end of what is there.      *)
(***************************************************************************)
Carries(result, document) ==
  \A p \in DOMAIN document :
    /\ p \in DOMAIN result
    /\ result[p].kind = document[p].kind
    /\ IF document[p].kind = "array" THEN IsSuffix(document[p].value, result[p].value)
       ELSE result[p] = document[p]

(***************************************************************************)
(* "a single map[string]any containing the deeply merged data ... The      *)
(* files are merged in the order they are provided" (renderer.go:79-81):   *)
(* merging is not associative, a scalar between two maps separates them,   *)
(* and still the outcome is what the last run of each key says.            *)
(***************************************************************************)
MergedInOrder == output = Combined(parsed)

(***************************************************************************)
(* Values are put in as they are: when none of those a file asks for       *)
(* contains the name of a variable, replacing one name after the other,    *)
(* some of them twice, is the simultaneous replacement of all the          *)
(* variables in the file.                                                  *)
(***************************************************************************)
Verbatim ==
  pc = "replace" /\ pending = <<>>
  /\ (\A v \in ToSet(current.names) :
        Executable(env[v]) => ToSet(Executed(env[v])) \cap Variables = {}) =>
       /\ \A v \in ToSet(current.names) : Executable(env[v])
       /\ content = Substitute(current.document,
                               [v \in ToSet(current.names) |-> Executed(env[v])])

(***************************************************************************)
(* Only a variable that a file names itself can be missing or fail: text   *)
(* in ${} that a secret brings in does not make the rendering fail.        *)
(***************************************************************************)
OnlyNamedVariables ==
  pc = "error" =>
    \/ ~Valid(content)
    \/ \E v \in ToSet(current.names) : ~Executable(env[v])
=============================================================================
