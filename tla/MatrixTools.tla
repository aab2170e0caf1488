----------------------------- MODULE MatrixTools -----------------------------
(***************************************************************************)
(* The matrix-tools program: main parses its arguments and runs one of the *)
(* five commands. What render-config does from there is RenderConfig; the  *)
(* other commands have modules of their own.                               *)
(*                                                                         *)
(* The value of a flag is a sequence of words and separators. The command  *)
(* lines are those the chart renders, and others somebody might write.     *)
(***************************************************************************)
EXTENDS RenderConfig, FiniteSets

CONSTANTS Renders,    \* the lists of files the chart renders configurations from
          Overrides,  \* the files in them with which the chart overrides the user
          Requests    \* what the chart asks of the other commands

VARIABLES argv,     \* what follows the name of the program
          fs,       \* the files that exist, by path
          phase,    \* how far main is
          options,  \* what ParseArgs returned
          status    \* the exit status

toolVars == <<argv, fs, phase, options, status>>

vars == <<renderVars, toolVars>>

-----------------------------------------------------------------------------

(***************************************************************************)
(* strings.Split and its opposite, Helm's join.                            *)
(***************************************************************************)
Split(s, separator) ==
  LET parts[i \in 0..Len(s)] ==
        IF i = 0 THEN << <<>> >>
        ELSE IF s[i] = separator THEN Append(parts[i - 1], <<>>)
        ELSE [parts[i - 1] EXCEPT ![Len(parts[i - 1])] = Append(@, s[i])]
  IN  parts[Len(s)]

Join(parts, separator) ==
  FlattenSeq([i \in DOMAIN parts |->
                IF i = 1 THEN parts[i] ELSE <<separator>> \o parts[i]])

(***************************************************************************)
(* Package flag: flags come before the first argument that is not one; an  *)
(* unknown flag prints the usage and exits with 2 (ExitOnError).           *)
(***************************************************************************)
Flag(name, value) == [flag |-> name, value |-> value]

Word(word) == [flag |-> "", value |-> <<word>>]

Argument == [flag : STRING \ {""}, value : Seq(STRING)] \cup [flag : {""}, value : [{1} -> STRING]]

Flags(args) ==
  LET words == {i \in DOMAIN args : args[i].flag = ""}
  IN  {i \in DOMAIN args : \A w \in words : i < w}

Value(args, name) ==
  LET given == {i \in Flags(args) : args[i].flag = name}
  IN  IF given = {} THEN <<>> ELSE args[CHOOSE i \in given : \A j \in given : j <= i].value

KnownFlags ==
  [render_config      |-> {"output"},
   tcpwait            |-> {"address"},
   syn2mas            |-> {"config", "synapse-config"},
   generate_secrets   |-> {"secrets", "labels"},
   deployment_markers |-> {"markers", "labels", "step"}]

Types == {"rand32", "signingkey", "hex32", "rsa4096", "ecdsaprime256v1"}

(***************************************************************************)
(* The command lines the chart renders, from the options they ask for. The *)
(* files of render-config: the chart's defaults, the user's, its settings. *)
(***************************************************************************)
UserFilesLast(underrides, user, overrides) ==  \* mutant: the user has the last word
  underrides \o overrides \o user

ConfigFiles(underrides, user, overrides) == underrides \o user \o overrides

RenderRequest(r) ==
  [command |-> "render_config", output |-> r.output,
   files   |-> ConfigFiles(r.underrides, r.user, r.overrides)]

Asked == {RenderRequest(r) : r \in Renders} \cup Requests

(***************************************************************************)
(* The labels are YAML text, one on a line, put through trim, replace ": " *)
(* "=" and replace "\n" ",". The last is that of the version, and an image  *)
(* that has only a digest has none: then trim takes the space of its ": "  *)
(* and the ":" stays. An empty label of the user's is written as "".       *)
(***************************************************************************)
Version == <<"version">>

LabelsArgument(labels) ==
  LET entry(l) == l \o <<"=">> \o labels[l]
      others == SetToSeq({entry(l) : l \in DOMAIN labels \ {Version}})
      last == IF labels[Version] = <<>> THEN Version \o <<":">> ELSE entry(Version)
  IN  Join(Append(others, last), ",")

CommandLine(o) ==
  <<Word(o.command)>> \o
      CASE o.command = "render_config" ->
             <<Flag("output", o.output)>> \o [i \in DOMAIN o.files |-> Word(o.files[i])]
        [] o.command = "tcpwait" -> <<Flag("address", o.address)>>
        [] o.command = "syn2mas" ->
             <<Flag("config", o.masConfig), Flag("synapse-config", o.synapseConfig)>>
        [] o.command = "generate_secrets" ->
             <<Flag("secrets", Join([i \in DOMAIN o.secrets |->
                 Join(<<o.secrets[i].name, o.secrets[i].key, o.secrets[i].type>>, ":")], ",")),
               Flag("labels", LabelsArgument(o.labels))>>
        [] o.command = "deployment_markers" ->
             <<Flag("step", o.markers[1].step),
               Flag("markers", Join([i \in DOMAIN o.markers |->
                 Join(<<o.markers[i].name, o.markers[i].key, o.markers[i].newValue,
                        Join(SetToSeq(o.markers[i].allowed), ";")>>, ":")], ",")),
               Flag("labels", LabelsArgument(o.labels))>>

(***************************************************************************)
(* The chart's names, keys, values and labels are free of separators. Its  *)
(* labels name Helm as what manages the objects, and a version that may be *)
(* empty. Its markers are of one step, and it tells its own files from the *)
(* user's.                                                                 *)
(***************************************************************************)
Plain == Seq(STRING \ {",", ":", ";", "="})

ArePlain(labels) ==
  /\ IsFiniteSet(DOMAIN labels) /\ DOMAIN labels \subseteq Plain
  /\ labels \in [DOMAIN labels -> Plain]
  /\ {<<"managed-by">>, Version} \subseteq DOMAIN labels

IsSecretsRequest(o) ==
  /\ o.command = "generate_secrets"
  /\ o = [command |-> o.command, secrets |-> o.secrets, labels |-> o.labels]
  /\ o.secrets \in Seq([name : Plain, key : Plain, type : {<<t>> : t \in Types}]) \ {<<>>}
  /\ ArePlain(o.labels)

IsMarkersRequest(o) ==
  /\ o.command = "deployment_markers"
  /\ o = [command |-> o.command, markers |-> o.markers, labels |-> o.labels]
  /\ o.markers \in Seq([name : Plain, key : Plain, newValue : Plain, step : Plain,
                        allowed : SUBSET Plain]) \ {<<>>}
  /\ \A i \in DOMAIN o.markers :
       /\ IsFiniteSet(o.markers[i].allowed) /\ o.markers[i].allowed # {}
       /\ o.markers[i].step = o.markers[1].step
  /\ ArePlain(o.labels)

IsOtherRequest(o) ==
  \/ o \in [command : {"syn2mas"}, masConfig : Seq(STRING) \ {<<>>},
            synapseConfig : Seq(STRING) \ {<<>>}]
  \/ o \in [command : {"tcpwait"}, address : Seq(STRING)]

ASSUME RendersAssumption ==
  \A r \in Renders :
    /\ r.output \in Seq(STRING) \ {<<>>}
    /\ {r.underrides, r.user} \subseteq Seq(STRING \ Overrides)
    /\ r.overrides \in Seq(Overrides \cap STRING)

ASSUME RequestsAssumption ==
  \A o \in Requests : IsOtherRequest(o) \/ IsSecretsRequest(o) \/ IsMarkersRequest(o)

(***************************************************************************)
(* What a parser returns: options, an error, or not at all.                *)
(***************************************************************************)
Options(o) == [outcome |-> "options", options |-> o]

None == [command |-> "none"]

Fails(how) == [outcome |-> how, options |-> None]

(***************************************************************************)
(* render-config: the arguments left are the files, none looking like a    *)
(* flag that came too late.                                                *)
(***************************************************************************)
ParseRenderConfig(args) ==
  LET rest == {i \in DOMAIN args : i \notin Flags(args)}
  IN  IF (\E i \in rest : args[i].flag # "") \/ Value(args, "output") = <<>>
      THEN Fails("error")
      ELSE Options([command |-> "render_config",
                    output  |-> Value(args, "output"),
                    files   |-> [i \in 1..Cardinality(rest) |->
                                   args[i + Cardinality(Flags(args))].value[1]]])

ParseTcpWait(args) ==
  Options([command |-> "tcpwait", address |-> Value(args, "address")])

ParseSyn2Mas(args) ==
  IF \E f \in KnownFlags["syn2mas"] : Value(args, f) = <<>>
  THEN Fails("error")
  ELSE Options([command |-> "syn2mas", masConfig |-> Value(args, "config"),
                synapseConfig |-> Value(args, "synapse-config")])

(***************************************************************************)
(* Labels are key=value; one without "=" is an index out of range. The     *)
(* label by which the command knows its own objects is set last.           *)
(***************************************************************************)
Labelled(args) ==
  IF Value(args, "labels") = <<>> THEN <<>> ELSE Split(Value(args, "labels"), ",")

LabelsPanic(args) == \E i \in DOMAIN Labelled(args) : Len(Split(Labelled(args)[i], "=")) < 2

LastOfEach(pairs) ==
  LET last(k) == CHOOSE i \in DOMAIN pairs :
                   pairs[i][1] = k /\ \A j \in i + 1..Len(pairs) : pairs[j][1] # k
  IN  [k \in {pairs[i][1] : i \in DOMAIN pairs} |-> pairs[last(k)][2]]

LabelsAsGiven(args, managedBy) ==  \* mutant: managed-by can be set by the argument
  LastOfEach(<<<<<<"managed-by">>, managedBy>>>> \o
             [i \in DOMAIN Labelled(args) |-> Split(Labelled(args)[i], "=")])

Labels(args, managedBy) ==
  LastOfEach(Append([i \in DOMAIN Labelled(args) |-> Split(Labelled(args)[i], "=")],
                    <<<<"managed-by">>, managedBy>>))

Entries(args, name) ==
  LET entries == Split(Value(args, name), ",")
  IN  [i \in DOMAIN entries |-> Split(entries[i], ":")]

ParseGenerateSecrets(args) ==
  LET e == Entries(args, "secrets")
  IN  IF \E i \in DOMAIN e : Len(e[i]) < 3 \/ e[i][3] \notin {<<t>> : t \in Types}
      THEN Fails("error")
      ELSE IF LabelsPanic(args) THEN Fails("panic")
      ELSE Options([command |-> "generate_secrets",
                    secrets |-> [i \in DOMAIN e |-> [name |-> e[i][1], key |-> e[i][2],
                                                     type |-> e[i][3]]],
                    labels  |-> Labels(args, <<"matrix-tools-init-secrets">>)])

(***************************************************************************)
(* An entry with three fields passes the check of its length; the fourth,  *)
(* the allowed values, is then out of range. The entries are parsed in     *)
(* order, so it panics only if no earlier entry is refused.                *)
(***************************************************************************)
ShortMarker == 2  \* mutant of Fields: entries of two fields pass the check

Fields == 3

ParseDeploymentMarkers(args) ==
  LET e == Entries(args, "markers")
      short == {i \in DOMAIN e : Len(e[i]) < 4}
      first == CHOOSE i \in short : \A j \in short : i <= j
  IN  IF short # {} THEN Fails(IF Len(e[first]) < Fields THEN "error" ELSE "panic")
      ELSE IF LabelsPanic(args) THEN Fails("panic")
      ELSE Options([command |-> "deployment_markers",
                    markers |-> [i \in DOMAIN e |->
                                   [name |-> e[i][1], key |-> e[i][2], newValue |-> e[i][3],
                                    step |-> Value(args, "step"),
                                    allowed |-> ToSet(Split(e[i][4], ";"))]],
                    labels  |-> Labels(args, <<"matrix-tools-deployment-markers">>)])

(***************************************************************************)
(* args.ParseArgs: without any argument args[1] is out of range.           *)
(***************************************************************************)
ParseArgs ==
  LET command == Head(argv).value[1]
      args == Tail(argv)
  IN  IF argv = <<>> THEN Fails("panic")
      ELSE IF command \notin DOMAIN KnownFlags THEN Fails("error")
      ELSE IF \E i \in Flags(args) : args[i].flag \notin KnownFlags[command]
      THEN Fails("usage")
      ELSE CASE command = "render_config"      -> ParseRenderConfig(args)
             [] command = "tcpwait"            -> ParseTcpWait(args)
             [] command = "syn2mas"            -> ParseSyn2Mas(args)
             [] command = "generate_secrets"   -> ParseGenerateSecrets(args)
             [] command = "deployment_markers" -> ParseDeploymentMarkers(args)

-----------------------------------------------------------------------------

ExitWith(code) == phase' = "exited" /\ status' = code /\ UNCHANGED <<argv, fs, options>>

Parse ==
  /\ phase = "parse"
  /\ ParseArgs.outcome = "options"
  /\ options' = ParseArgs.options
  /\ phase' = "dispatch"
  /\ UNCHANGED <<renderVars, argv, fs, status>>

ParseFails ==
  /\ phase = "parse"
  /\ ParseArgs.outcome # "options"
  /\ ExitWith(IF ParseArgs.outcome = "error" THEN 1 ELSE 2)
  /\ UNCHANGED renderVars

(***************************************************************************)
(* The commands that go on in a module of their own.                       *)
(***************************************************************************)
Dispatch ==
  /\ phase = "dispatch"
  /\ options.command # "render_config"
  /\ phase' = "running"
  /\ UNCHANGED <<renderVars, argv, fs, options, status>>

(***************************************************************************)
(* render-config opens all the files, in the order of the arguments.       *)
(***************************************************************************)
OpenFiles ==
  /\ phase = "dispatch"
  /\ options.command = "render_config"
  /\ ToSet(options.files) \subseteq DOMAIN fs
  /\ files' = [i \in DOMAIN options.files |-> fs[options.files[i]]]
  /\ phase' = "running"
  /\ UNCHANGED <<env, pc, content, pending, parsed, output, argv, fs, options, status>>

OpenFails ==
  /\ phase = "dispatch"
  /\ options.command = "render_config"
  /\ ~ToSet(options.files) \subseteq DOMAIN fs
  /\ ExitWith(1)
  /\ UNCHANGED renderVars

Render ==
  /\ phase = "running"
  /\ options.command = "render_config"
  /\ RenderStep
  /\ UNCHANGED toolVars

Exit ==
  /\ phase = "running"
  /\ pc \in {"done", "error"}
  /\ ExitWith(IF pc = "done" THEN 0 ELSE 1)
  /\ UNCHANGED renderVars

Terminating ==
  /\ phase = "exited" \/ (phase = "running" /\ options.command # "render_config")
  /\ UNCHANGED vars

Next ==
  Parse \/ ParseFails \/ Dispatch \/ OpenFiles \/ OpenFails \/ Render \/ Exit \/ Terminating

Start ==
  /\ RenderStart
  /\ files = <<>>
  /\ phase = "parse"
  /\ options = None
  /\ status = 0
  /\ argv \in Seq(Argument) /\ (argv # <<>> => argv[1].flag = "")
  /\ \A path \in DOMAIN fs : IsFile(fs[path])
  /\ env \in [Variables -> Template]

Spec == Start /\ [][Next]_vars

-----------------------------------------------------------------------------

(***************************************************************************)
(* What the chart asks for, with an image that has a tag, is never refused *)
(* and runs as asked: every list comes out of the parser with the entries  *)
(* it was rendered from, in their order, and the objects the command makes *)
(* carry the label by which it knows them again, although the labels of    *)
(* the chart say they are managed by Helm.                                 *)
(***************************************************************************)
OwnLabel == [generate_secrets   |-> <<"matrix-tools-init-secrets">>,
             deployment_markers |-> <<"matrix-tools-deployment-markers">>]

HasTag(o) == o.command \in DOMAIN OwnLabel => o.labels[Version] # <<>>

RunsWhatTheChartAsks ==
  phase # "parse" =>
    \A o \in Asked :
      CommandLine(o) = argv /\ HasTag(o) =>
        options = IF o.command \in DOMAIN OwnLabel
                  THEN [o EXCEPT !.labels[<<"managed-by">>] = OwnLabel[o.command]]
                  ELSE o

(***************************************************************************)
(* "One of tag or digest must be provided" (values.yaml:23) for an image:  *)
(* with a digest and no tag, too, the program accepts what the chart asks. *)
(***************************************************************************)
DigestIsEnough ==
  phase # "parse" => \A o \in Asked : CommandLine(o) = argv => options # None

(***************************************************************************)
(* What the user wrote wrongly is refused with an error (exit status 1),   *)
(* as args_test.go:122-126 and 166-170 expect. The program dies otherwise  *)
(* only without a command, with a flag it does not know, with a label that *)
(* has no value, and with a marker of three fields, which its check of     *)
(* "less than 3" lets through.                                             *)
(***************************************************************************)
RefusedWithAnError ==
  phase = "exited" /\ status = 2 =>
    \/ argv = <<>>
    \/ LET args == Tail(argv)
       IN  \/ \E i \in Flags(args) : args[i].flag \notin KnownFlags[Head(argv).value[1]]
           \/ LabelsPanic(args)
           \/ \E i \in DOMAIN Entries(args, "markers") : Len(Entries(args, "markers")[i]) = 3

(***************************************************************************)
(* Whatever a user's files hold, and of whatever kind, everything the      *)
(* chart's own override files set together is in effect in what is         *)
(* rendered ("guarantee the order the YAML files are merged",              *)
(* _synapse_pod.tpl:55). To an array of theirs the user's stays in front.  *)
(***************************************************************************)
OverridesInEffect ==
  phase = "exited" /\ status = 0 /\ (\E r \in Renders : CommandLine(RenderRequest(r)) = argv) =>
    Carries(output, Combined([i \in DOMAIN parsed |->
                      IF options.files[i] \in Overrides THEN parsed[i] ELSE NoDocument]))
=============================================================================
