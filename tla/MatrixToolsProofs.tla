------------------------- MODULE MatrixToolsProofs -------------------------
(***************************************************************************)
(* What the program makes of its arguments, and what it renders. Inv, the  *)
(* inductive invariant, says for every phase of main what has been parsed  *)
(* and opened by then, and holds RenderInv of the renderer below. What a   *)
(* list on the command line is parsed into rests on SplitJoin: splitting   *)
(* takes apart what Helm joined.                                           *)
(***************************************************************************)
EXTENDS MatrixTools, RenderConfigProofs, FiniteSetTheorems

(***************************************************************************)
(* The command of a command line.                                          *)
(***************************************************************************)
Command == Head(argv).value[1]

(***************************************************************************)
(* What follows the command.                                               *)
(***************************************************************************)
Arguments == Tail(argv)

(***************************************************************************)
(* Which parser ParseArgs comes to.                                        *)
(***************************************************************************)
LEMMA ParseArgsIs ==
  \/ argv = <<>> /\ ParseArgs = Fails("panic")
  \/ ParseArgs = Fails("error")
  \/ /\ ParseArgs = Fails("usage")
     /\ \E i \in Flags(Arguments) : Arguments[i].flag \notin KnownFlags[Command]
  \/ /\ argv # <<>>
     /\ \A i \in Flags(Arguments) : Arguments[i].flag \in KnownFlags[Command]
     /\ \/ Command = "render_config" /\ ParseArgs = ParseRenderConfig(Arguments)
        \/ Command = "tcpwait" /\ ParseArgs = ParseTcpWait(Arguments)
        \/ Command = "syn2mas" /\ ParseArgs = ParseSyn2Mas(Arguments)
        \/ Command = "generate_secrets" /\ ParseArgs = ParseGenerateSecrets(Arguments)
        \/ Command = "deployment_markers" /\ ParseArgs = ParseDeploymentMarkers(Arguments)
<1>1. DOMAIN KnownFlags = {"render_config", "tcpwait", "syn2mas", "generate_secrets", "deployment_markers"}
  BY DEF KnownFlags
<1>2. CASE argv = <<>>
  BY <1>2 DEF ParseArgs
<1>3. CASE argv # <<>> /\ Command \notin DOMAIN KnownFlags
  BY <1>3 DEF ParseArgs, Command
<1>4. CASE /\ argv # <<>> /\ Command \in DOMAIN KnownFlags
           /\ \E i \in Flags(Arguments) : Arguments[i].flag \notin KnownFlags[Command]
  BY <1>4 DEF ParseArgs, Command, Arguments
<1>5. CASE /\ argv # <<>> /\ Command \in DOMAIN KnownFlags
           /\ ~\E i \in Flags(Arguments) : Arguments[i].flag \notin KnownFlags[Command]
  <2>1. ParseArgs =
          CASE Command = "render_config"      -> ParseRenderConfig(Arguments)
            [] Command = "tcpwait"            -> ParseTcpWait(Arguments)
            [] Command = "syn2mas"            -> ParseSyn2Mas(Arguments)
            [] Command = "generate_secrets"   -> ParseGenerateSecrets(Arguments)
            [] Command = "deployment_markers" -> ParseDeploymentMarkers(Arguments)
    BY <1>5, Zenon DEF ParseArgs, Command, Arguments
  <2>2. CASE Command = "render_config"
    BY <1>5, <2>1, <2>2
  <2>3. CASE Command = "tcpwait"
    BY <1>5, <2>1, <2>3
  <2>4. CASE Command = "syn2mas"
    BY <1>5, <2>1, <2>4
  <2>5. CASE Command = "generate_secrets"
    BY <1>5, <2>1, <2>5
  <2>6. CASE Command = "deployment_markers"
    BY <1>5, <2>1, <2>6
  <2> QED BY <1>1, <1>5, <2>2, <2>3, <2>4, <2>5, <2>6
<1> QED BY <1>2, <1>3, <1>4, <1>5

(***************************************************************************)
(* One word more to split.                                                 *)
(***************************************************************************)
SplitStep(parts, word, separator) ==
  IF word = separator THEN Append(parts, <<>>)
  ELSE [parts EXCEPT ![Len(parts)] = Append(@, word)]

(***************************************************************************)
(* A function g that has split the first words of s, for each number of    *)
(* them.                                                                   *)
(***************************************************************************)
IsSplitting(g, s, T, separator) ==
  /\ g \in [0..Len(s) -> Seq(Seq(T))]
  /\ g[0] = << <<>> >>
  /\ \A i \in 1..Len(s) : g[i] = SplitStep(g[i - 1], s[i], separator)

(***************************************************************************)
(* One step of a split keeps pieces of T.                                  *)
(***************************************************************************)
LEMMA SplitStepType ==
  ASSUME NEW T, NEW p \in Seq(Seq(T)), NEW w \in T, NEW separator
  PROVE  SplitStep(p, w, separator) \in Seq(Seq(T))
<1> DEFINE U == Seq(T)
           e == <<>>
           a == Append(p[Len(p)], w)
<1>1. e \in U /\ p \in Seq(U)
  OBVIOUS
<1>2. CASE w = separator
  <2>1. Append(p, e) \in Seq(U)
    <3> HIDE DEF U, e
    <3> QED BY <1>1
  <2> QED BY <1>2, <2>1 DEF SplitStep
<1>3. CASE w # separator /\ Len(p) # 0
  <2>1. p[Len(p)] \in Seq(T)
    BY <1>3, ElementOfSeq
  <2>2. a \in U
    BY <2>1
  <2>3. [p EXCEPT ![Len(p)] = a] \in Seq(U)
    <3> DEFINE r == [p EXCEPT ![Len(p)] = a]
    <3>1. p \in [DOMAIN p -> U] /\ p \in Seq(U)
      BY <1>1
    <3>2. r \in [DOMAIN p -> U]
      <4> HIDE DEF U, a
      <4> QED BY <2>2, <3>1
    <3> HIDE DEF r, U
    <3>3. r \in Seq(U)
      BY <3>1, <3>2, SameLength
    <3> QED BY <3>3 DEF r
  <2> QED BY <1>3, <2>3 DEF SplitStep
<1>4. CASE w # separator /\ Len(p) = 0
  <2>1. [p EXCEPT ![Len(p)] = a] = p
    <3> HIDE DEF a
    <3> QED BY <1>4, EmptySeq
  <2> QED BY <1>4, <2>1 DEF SplitStep
<1> QED BY <1>2, <1>3, <1>4

(***************************************************************************)
(* Split is the last of such steps: by induction on their number.          *)
(***************************************************************************)
LEMMA SplitSteps ==
  ASSUME NEW T, NEW s \in Seq(T), NEW separator, NEW g, IsSplitting(g, s, T, separator)
  PROVE  Split(s, separator) = g[Len(s)]
<1> DEFINE N == Len(s)
           first == << <<>> >>
           Next2(f) == [i \in 0..N |-> IF i = 0 THEN first ELSE SplitStep(f[i - 1], s[i], separator)]
           parts == CHOOSE f : f = Next2(f)
<1>0. /\ N \in Nat /\ g \in [0..N -> Seq(Seq(T))] /\ g[0] = first
      /\ \A i \in 1..N : g[i] = SplitStep(g[i - 1], s[i], separator)
  BY DEF IsSplitting
<1>1. Split(s, separator) = parts[N]
  BY DEF Split, SplitStep
<1> HIDE DEF N, first
<1>2. g = Next2(g)
  <2>1. \A i \in 0..N : i = 0 \/ i \in 1..N
    BY <1>0
  <2>2. \A i \in 0..N : g[i] = IF i = 0 THEN first ELSE SplitStep(g[i - 1], s[i], separator)
    BY <1>0, <2>1
  <2>3. g = [i \in 0..N |-> g[i]]
    BY <1>0
  <2> HIDE DEF first
  <2> QED BY <2>2, <2>3
<1>3. parts = Next2(parts)
  <2> HIDE DEF Next2
  <2> QED BY <1>2
<1> HIDE DEF parts
<1>4. \A i \in 0..N : parts[i] = IF i = 0 THEN first ELSE SplitStep(parts[i - 1], s[i], separator)
  <2>1. \A i \in 0..N : Next2(parts)[i] = IF i = 0 THEN first ELSE SplitStep(parts[i - 1], s[i], separator)
    BY Zenon
  <2> HIDE DEF Next2
  <2> QED BY <1>3, <2>1, Zenon
<1> DEFINE Good(n) == parts[n] = g[n]
           S == {n \in Nat : n <= N => Good(n)}
<1>5. Good(0)
  BY <1>0, <1>4
<1>6. ASSUME NEW n \in Nat, n + 1 <= N, Good(n) PROVE Good(n + 1)
  <2>1. n + 1 \in 1..N /\ n + 1 \in 0..N /\ (n + 1) - 1 = n /\ n + 1 # 0
    <3> HIDE DEF Good
    <3> QED BY <1>0, <1>6
  <2>2. g[n + 1] = SplitStep(g[n], s[n + 1], separator)
    BY <1>0, <2>1
  <2>3. parts[n + 1] = SplitStep(parts[n], s[n + 1], separator)
    BY <1>4, <2>1
  <2> QED BY <2>2, <2>3, <1>6
<1> HIDE DEF Good
<1>7. S = Nat
  <2>1. S \in SUBSET Nat /\ 0 \in S
    BY <1>5
  <2>2. \A n \in S : n + 1 \in S
    BY <1>0, <1>6
  <2> HIDE DEF S
  <2> QED BY <2>1, <2>2, Induction
<1> QED BY <1>0, <1>1, <1>7 DEF Good, N

(***************************************************************************)
(* strings.Split, word by word.                                            *)
(***************************************************************************)
LEMMA SplitStepsExist ==
  ASSUME NEW T, NEW s \in Seq(T), NEW separator
  PROVE  \E g : IsSplitting(g, s, T, separator)
<1> DEFINE N == Len(s)
           V == Seq(Seq(T))
           first == << <<>> >>
           step == [i \in 1..N |-> [v \in V |-> SplitStep(v, s[i], separator)]]
<1>0. N \in Nat /\ first \in V
  OBVIOUS
<1>1. step \in [1..N -> [V -> V]]
  <2>1. \A i \in 1..N, v \in V : SplitStep(v, s[i], separator) \in V
    BY ElementOfSeq, SplitStepType
  <2> HIDE DEF N, V
  <2> QED BY <2>1
<1>2. PICK g \in [0..N -> V] : g[0] = first /\ \A i \in 1..N : g[i] = step[i][g[i - 1]]
  <2> HIDE DEF step, N, V, first
  <2>1. \E g : IsRecursion(g, N, V, first, step)
    BY <1>0, <1>1, Recursion, Zenon
  <2> QED BY <2>1 DEF IsRecursion
<1>3. \A i \in 1..N : g[i] = SplitStep(g[i - 1], s[i], separator)
  <2> TAKE i \in 1..N
  <2>1. i - 1 \in 0..N
    BY <1>0
  <2>2. g[i - 1] \in V
    BY <2>1
  <2> HIDE DEF N, V
  <2> QED BY <1>2, <2>2
<1> QED BY <1>2, <1>3 DEF IsSplitting

(***************************************************************************)
(* Splitting gives texts over the same words.                              *)
(***************************************************************************)
LEMMA SplitType ==
  ASSUME NEW T, NEW s \in Seq(T), NEW separator
  PROVE  Split(s, separator) \in Seq(Seq(T))
<1>1. PICK g : IsSplitting(g, s, T, separator)
  BY SplitStepsExist
<1>2. Split(s, separator) = g[Len(s)]
  BY <1>1, SplitSteps
<1>3. Len(s) \in 0..Len(s) /\ g \in [0..Len(s) -> Seq(Seq(T))]
  BY <1>1 DEF IsSplitting
<1> QED BY <1>2, <1>3

(***************************************************************************)
(* A split of one word more is one step more.                              *)
(***************************************************************************)
LEMMA SplitAppend ==
  ASSUME NEW T, NEW s \in Seq(T), NEW w \in T, NEW separator
  PROVE  Split(Append(s, w), separator) = SplitStep(Split(s, separator), w, separator)
<1> DEFINE t == Append(s, w)
           N == Len(s)
<1>1. /\ t \in Seq(T) /\ Len(t) = N + 1 /\ t[N + 1] = w /\ N \in Nat
      /\ \A i \in 1..N : t[i] = s[i]
  BY AppendProperties
<1> HIDE DEF t
<1>2. PICK g : IsSplitting(g, t, T, separator)
  BY <1>1, SplitStepsExist
<1> DEFINE h == [i \in 0..N |-> g[i]]
<1>3. Split(t, separator) = g[N + 1]
  BY <1>1, <1>2, SplitSteps
<1>7. /\ g \in [0..N + 1 -> Seq(Seq(T))] /\ g[0] = << <<>> >>
      /\ \A i \in 1..N + 1 : g[i] = SplitStep(g[i - 1], t[i], separator)
  BY <1>1, <1>2 DEF IsSplitting
<1>4. IsSplitting(h, s, T, separator) /\ h[N] = g[N]
  <2> HIDE DEF N
  <2>1. \A i \in 0..N : i \in 0..N + 1 /\ h[i] = g[i]
    BY <1>1
  <2>2. 0 \in 0..N /\ N \in 0..N
    BY <1>1
  <2>3. ASSUME NEW i \in 1..N PROVE h[i] = SplitStep(h[i - 1], s[i], separator)
    <3>1. i \in 1..N + 1 /\ i \in 0..N /\ i - 1 \in 0..N
      BY <1>1
    <3>2. g[i] = SplitStep(g[i - 1], t[i], separator) /\ t[i] = s[i]
      BY <1>1, <1>7, <3>1
    <3> QED BY <2>1, <3>1, <3>2
  <2> QED BY <1>7, <2>1, <2>2, <2>3 DEF IsSplitting, N
<1>5. Split(s, separator) = g[N]
  <2> HIDE DEF h
  <2> QED BY <1>4, SplitSteps
<1>6. g[N + 1] = SplitStep(g[N], w, separator)
  <2>1. N + 1 \in 1..N + 1 /\ (N + 1) - 1 = N
    BY <1>1
  <2> QED BY <1>1, <1>7, <2>1
<1> QED BY <1>3, <1>5, <1>6 DEF t

(***************************************************************************)
(* Splitting the empty text gives one empty piece, as strings.Split does.  *)
(***************************************************************************)
LEMMA SplitEmpty ==
  ASSUME NEW separator
  PROVE  Split(<<>>, separator) = << <<>> >>
<1> DEFINE s == <<>>
           g == [i \in 0..0 |-> << <<>> >>]
<1>1. s \in Seq({0}) /\ Len(s) = 0
  OBVIOUS
<1>2. IsSplitting(g, s, {0}, separator)
  <2>1. << <<>> >> \in Seq(Seq({0}))
    OBVIOUS
  <2>2. 1..0 = {}
    OBVIOUS
  <2> QED BY <1>1, <2>1, <2>2 DEF IsSplitting
<1>3. g[0] = << <<>> >>
  OBVIOUS
<1> HIDE DEF s, g
<1>4. Split(s, separator) = g[0]
  BY <1>1, <1>2, SplitSteps
<1> QED BY <1>3, <1>4 DEF s

(***************************************************************************)
(* Splitting takes a join apart: a text without the separator stays in one *)
(* piece, and behind a separator a new piece begins.                       *)
(***************************************************************************)
LEMMA SplitPlain ==
  ASSUME NEW T, NEW separator
  PROVE  \A x \in Seq(T) : separator \notin ToSet(x) => Split(x, separator) = <<x>>
<1> DEFINE S == {x \in Seq(T) : separator \notin ToSet(x) => Split(x, separator) = <<x>>}
<1>1. <<>> \in S
  BY SplitEmpty
<1>2. ASSUME NEW x \in S, NEW w \in T PROVE Append(x, w) \in S
  <2>0. x \in Seq(T) /\ Append(x, w) \in Seq(T)
    BY AppendProperties
  <2>1. ASSUME separator \notin ToSet(Append(x, w)) PROVE Split(Append(x, w), separator) = <<Append(x, w)>>
    <3>1. w # separator /\ separator \notin ToSet(x)
      BY <2>0, <2>1, SetOfAppend
    <3>2. Split(x, separator) = <<x>>
      BY <3>1
    <3>3. Split(Append(x, w), separator) = SplitStep(<<x>>, w, separator)
      BY <2>0, <3>2, SplitAppend
    <3>4. SplitStep(<<x>>, w, separator) = <<Append(x, w)>>
      BY <3>1 DEF SplitStep
    <3> QED BY <3>3, <3>4
  <2> QED BY <2>0, <2>1
<1>3. S = Seq(T)
  <2>1. S \in SUBSET Seq(T)
    OBVIOUS
  <2> HIDE DEF S
  <2> QED BY <1>1, <1>2, <2>1, SequenceInduction
<1> QED BY <1>3

(***************************************************************************)
(* A text behind a separator is a piece of its own: by induction on its    *)
(* words.                                                                  *)
(***************************************************************************)
LEMMA SplitBehind ==
  ASSUME NEW T, NEW s \in Seq(T), NEW separator \in T
  PROVE  \A x \in Seq(T) : separator \notin ToSet(x) =>
           Split(s \o (<<separator>> \o x), separator) = Append(Split(s, separator), x)
<1> DEFINE At(x) == s \o (<<separator>> \o x)
           parts == Split(s, separator)
           S == {x \in Seq(T) : separator \notin ToSet(x) => Split(At(x), separator) = Append(parts, x)}
<1>0. parts \in Seq(Seq(T))
  BY SplitType
<1>1. <<>> \in S
  <2>1. At(<<>>) = Append(s, separator)
    OBVIOUS
  <2>2. Split(At(<<>>), separator) = SplitStep(parts, separator, separator)
    BY <2>1, SplitAppend
  <2>3. SplitStep(parts, separator, separator) = Append(parts, <<>>)
    BY DEF SplitStep
  <2>4. <<>> \in Seq(T)
    OBVIOUS
  <2> HIDE DEF At, parts
  <2> QED BY <2>2, <2>3, <2>4
<1>2. ASSUME NEW x \in S, NEW w \in T PROVE Append(x, w) \in S
  <2>0. x \in Seq(T) /\ Append(x, w) \in Seq(T)
    BY AppendProperties
  <2>1. ASSUME separator \notin ToSet(Append(x, w))
        PROVE  Split(At(Append(x, w)), separator) = Append(parts, Append(x, w))
    <3>1. w # separator /\ separator \notin ToSet(x)
      BY <2>0, <2>1, SetOfAppend
    <3>2. Split(At(x), separator) = Append(parts, x)
      BY <3>1
    <3>3. At(x) \in Seq(T) /\ At(Append(x, w)) = Append(At(x), w)
      BY <2>0
    <3>4. Split(At(Append(x, w)), separator) = SplitStep(Append(parts, x), w, separator)
      <4> HIDE DEF At, parts
      <4> QED BY <3>2, <3>3, SplitAppend
    <3>5. SplitStep(Append(parts, x), w, separator) = Append(parts, Append(x, w))
      <4> DEFINE a == Append(parts, x)
                 y == Append(x, w)
                 U == Seq(T)
                 N == Len(parts)
                 b == Append(parts, y)
      <4>1. x \in U /\ y \in U /\ parts \in Seq(U)
        BY <1>0, <2>0
      <4> HIDE DEF parts, U
      <4>2. /\ a \in Seq(U) /\ Len(a) = N + 1 /\ a[N + 1] = x /\ N \in Nat
            /\ \A i \in 1..N : a[i] = parts[i]
        BY <4>1, AppendProperties
      <4>3. /\ b \in Seq(U) /\ Len(b) = N + 1 /\ b[N + 1] = y
            /\ \A i \in 1..N : b[i] = parts[i]
        <5> HIDE DEF y
        <5> QED BY <4>1, AppendProperties
      <4> HIDE DEF a, b, N
      <4>4. SplitStep(a, w, separator) = [a EXCEPT ![N + 1] = y]
        BY <3>1, <4>2 DEF SplitStep
      <4> DEFINE c == [a EXCEPT ![N + 1] = y]
      <4> HIDE DEF y
      <4>5. c \in [1..N + 1 -> U] /\ b \in [1..N + 1 -> U]
        BY <4>1, <4>2, <4>3
      <4>6. \A i \in 1..N + 1 : c[i] = b[i]
        <5>1. \A i \in 1..N + 1 : i = N + 1 \/ (i \in 1..N /\ i # N + 1)
          BY <4>2
        <5> QED BY <4>2, <4>3, <5>1
      <4>7. c = b
        <5> DEFINE D == 1..N + 1
        <5>1. c \in [D -> U] /\ b \in [D -> U] /\ \A i \in D : c[i] = b[i]
          BY <4>5, <4>6
        <5> HIDE DEF c, D
        <5> QED BY <5>1
      <4> QED BY <4>4, <4>7 DEF a, b, y
    <3> QED BY <3>4, <3>5
  <2> HIDE DEF At
  <2> QED BY <2>0, <2>1
<1>3. S = Seq(T)
  <2>1. S \in SUBSET Seq(T)
    OBVIOUS
  <2> HIDE DEF S
  <2> QED BY <1>1, <1>2, <2>1, SequenceInduction
<1> QED BY <1>3

(***************************************************************************)
(* Joining texts over T gives one over T.                                  *)
(***************************************************************************)
LEMMA JoinType ==
  ASSUME NEW T, NEW separator \in T, NEW parts \in Seq(Seq(T))
  PROVE  Join(parts, separator) \in Seq(T)
<1> DEFINE U == Seq(T)
           y == <<separator>>
           b == [i \in DOMAIN parts |-> IF i = 1 THEN parts[i] ELSE y \o parts[i]]
<1>1. y \in U
  OBVIOUS
<1>2. \A i \in DOMAIN parts : parts[i] \in U
  BY ElementOfSeq
<1>3. \A i \in DOMAIN parts : y \o parts[i] \in U
  <2> HIDE DEF y
  <2> QED BY <1>1, <1>2
<1>4. b \in [DOMAIN parts -> U] /\ parts \in Seq(U)
  <2> HIDE DEF U, y
  <2> QED BY <1>2, <1>3 DEF U
<1>5. b \in Seq(U)
  <2> HIDE DEF U, b
  <2> QED BY <1>4, SameLength
<1>6. Join(parts, separator) = FlattenSeq(b)
  BY DEF Join
<1> HIDE DEF b
<1> QED BY <1>5, <1>6, FlattenType

(***************************************************************************)
(* One text more to join.                                                  *)
(***************************************************************************)
LEMMA JoinAppend ==
  ASSUME NEW T, NEW separator \in T, NEW parts \in Seq(Seq(T)), NEW x \in Seq(T)
  PROVE  Join(Append(parts, x), separator)
         = IF parts = <<>> THEN x ELSE Join(parts, separator) \o (<<separator>> \o x)
<1> DEFINE U == Seq(T)
           y == <<separator>>
           more == Append(parts, x)
           N == Len(parts)
           In(s) == [i \in DOMAIN s |-> IF i = 1 THEN s[i] ELSE y \o s[i]]
           z == IF N = 0 THEN x ELSE y \o x
<1>1. /\ parts \in Seq(U) /\ more \in Seq(U) /\ Len(more) = N + 1 /\ more[N + 1] = x /\ N \in Nat
      /\ x \in U /\ \A i \in 1..N : more[i] = parts[i]
  <2>1. parts \in Seq(U) /\ x \in U
    OBVIOUS
  <2> HIDE DEF U
  <2> QED BY <2>1, AppendProperties
<1>2. y \in U
  OBVIOUS
<1>3. z \in U
  <2> HIDE DEF y
  <2> QED BY <1>1, <1>2
<1>4. \A s \in Seq(U) : In(s) \in Seq(U) /\ Len(In(s)) = Len(s)
  <2> TAKE s \in Seq(U)
  <2>1. \A i \in DOMAIN s : s[i] \in U
    BY ElementOfSeq
  <2>2. \A i \in DOMAIN s : y \o s[i] \in U
    <3> HIDE DEF y
    <3> QED BY <1>2, <2>1
  <2> DEFINE b == In(s)
  <2>3. b \in [DOMAIN s -> U]
    <3> HIDE DEF y, U
    <3> QED BY <2>1, <2>2
  <2>4. b \in Seq(U) /\ Len(b) = Len(s)
    <3> HIDE DEF b, U
    <3> QED BY <2>3, SameLength
  <2> QED BY <2>4
<1> DEFINE a == In(more)
           b == In(parts)
           c == Append(b, z)
<1>5. a \in Seq(U) /\ Len(a) = N + 1 /\ b \in Seq(U) /\ Len(b) = N
  <2> HIDE DEF In, U, more
  <2> QED BY <1>1, <1>4
<1>6. \A i \in 1..N : a[i] = b[i]
  <2> HIDE DEF y, U
  <2> QED BY <1>1
<1>7. a[N + 1] = z
  <2> HIDE DEF y, U
  <2>1. N + 1 \in DOMAIN more /\ (N + 1 = 1 <=> N = 0)
    BY <1>1
  <2> HIDE DEF more, N
  <2> QED BY <1>1, <2>1
<1>8. c \in Seq(U) /\ Len(c) = N + 1 /\ c[N + 1] = z /\ \A i \in 1..N : c[i] = b[i]
  <2> HIDE DEF b, z, U
  <2> QED BY <1>3, <1>5, AppendProperties
<1> HIDE DEF a, b, z, c, N, U
<1>9. a = c
  <2>1. \A i \in 1..N + 1 : i = N + 1 \/ i \in 1..N
    BY <1>1
  <2>2. \A i \in 1..N + 1 : a[i] = c[i]
    BY <2>1, <1>6, <1>7, <1>8
  <2> QED BY <1>5, <1>8, <2>2, SeqEqual
<1>10. FlattenSeq(c) = FlattenSeq(b) \o z
  <2> HIDE DEF b, z
  <2> QED BY <1>3, <1>5, FlattenAppend DEF c, U
<1>11. Join(more, separator) = FlattenSeq(a) /\ Join(parts, separator) = FlattenSeq(b)
  BY DEF Join, a, b
<1>12. CASE parts = <<>>
  <2>1. N = 0 /\ z = x
    BY <1>12 DEF N, z
  <2>2. b = <<>>
    BY <1>5, <2>1, EmptySeq
  <2>3. FlattenSeq(b) = <<>>
    BY <2>2 DEF FlattenSeq
  <2>4. <<>> \o x = x
    BY ConcatEmptySeq
  <2> QED BY <1>9, <1>10, <1>11, <1>12, <2>1, <2>3, <2>4
<1>13. CASE parts # <<>>
  <2>1. N # 0
    BY <1>13, EmptySeq DEF N
  <2>2. z = y \o x
    BY <2>1 DEF z
  <2> QED BY <1>9, <1>10, <1>11, <1>13, <2>2
<1> QED BY <1>12, <1>13

(***************************************************************************)
(* What is joined comes out of the parser as it was.                       *)
(***************************************************************************)
THEOREM SplitJoin ==
  ASSUME NEW T, NEW separator \in T
  PROVE  \A parts \in Seq(Seq(T \ {separator})) :
           parts # <<>> => Split(Join(parts, separator), separator) = parts
<1> DEFINE P == Seq(T \ {separator})
           S == {parts \in Seq(P) :
                   parts # <<>> => Split(Join(parts, separator), separator) = parts}
<1>0. P \subseteq Seq(T) /\ \A x \in P : separator \notin ToSet(x)
  <2>1. P \subseteq Seq(T)
    BY SeqMonotonic
  <2>2. ASSUME NEW x \in P PROVE separator \notin ToSet(x)
    <3>1. \A i \in DOMAIN x : x[i] \in T \ {separator}
      BY <2>2, ElementOfSeq
    <3> QED BY <3>1 DEF ToSet
  <2> QED BY <2>1, <2>2
<1> HIDE DEF P
<1>1. <<>> \in S
  OBVIOUS
<1>2. ASSUME NEW parts \in S, NEW x \in P PROVE Append(parts, x) \in S
  <2>1. parts \in Seq(P) /\ Append(parts, x) \in Seq(P) /\ parts \in Seq(Seq(T)) /\ x \in Seq(T)
    <3>1. parts \in Seq(P) /\ x \in Seq(T)
      BY <1>0
    <3>2. parts \in Seq(Seq(T))
      <4> DEFINE U == Seq(T)
      <4>1. P \subseteq U
        BY <1>0
      <4> HIDE DEF U
      <4>2. parts \in Seq(U)
        BY <3>1, <4>1, SeqMonotonic
      <4> QED BY <4>2 DEF U
    <3> QED BY <3>1, <3>2, AppendProperties
  <2>2. separator \notin ToSet(x)
    BY <1>0
  <2>3. CASE parts = <<>>
    <3>1. Join(Append(parts, x), separator) = x
      BY <2>1, <2>3, JoinAppend
    <3>2. Split(x, separator) = <<x>>
      BY <2>1, <2>2, SplitPlain
    <3>3. Append(parts, x) = <<x>>
      BY <2>3
    <3> QED BY <2>1, <3>1, <3>2, <3>3
  <2>4. CASE parts # <<>>
    <3> DEFINE s == Join(parts, separator)
    <3>1. Join(Append(parts, x), separator) = s \o (<<separator>> \o x)
      BY <2>1, <2>4, JoinAppend
    <3>2. s \in Seq(T) /\ Split(s, separator) = parts
      BY <2>1, <2>4, JoinType
    <3> HIDE DEF s
    <3>3. Split(s \o (<<separator>> \o x), separator) = Append(parts, x)
      BY <2>1, <2>2, <3>2, SplitBehind
    <3> QED BY <2>1, <3>1, <3>3
  <2> QED BY <2>3, <2>4
<1>3. S = Seq(P)
  <2>1. S \in SUBSET Seq(P)
    OBVIOUS
  <2> HIDE DEF S
  <2> QED BY <1>1, <1>2, <2>1, SequenceInduction
<1> QED BY <1>3 DEF P

-----------------------------------------------------------------------------

(***************************************************************************)
(* The value of a flag is a text, empty if the flag is not given.          *)
(***************************************************************************)
LEMMA ValueType ==
  ASSUME NEW args \in Seq(Argument), NEW name, name # ""
  PROVE  Value(args, name) \in Seq(STRING)
<1> DEFINE given == {i \in Flags(args) : args[i].flag = name}
           last == CHOOSE i \in given : \A j \in given : j <= i
           N == Len(args)
<1>1. CASE given = {}
  <2>1. Value(args, name) = <<>>
    BY <1>1 DEF Value
  <2> QED BY <2>1, EmptySeq
<1>2. CASE given # {}
  <2>1. N \in Nat /\ given \in SUBSET (1..N)
    <3>1. DOMAIN args = 1..N /\ N \in Nat
      BY SeqAt
    <3>2. given \in SUBSET DOMAIN args
      BY DEF Flags
    <3> HIDE DEF given, N
    <3> QED BY <3>1, <3>2
  <2>2. Value(args, name) = args[last].value
    BY <1>2 DEF Value
  <2>3. \E i \in given : \A j \in given : j <= i
    <3> HIDE DEF given, N
    <3> QED BY <1>2, <2>1, MaximumExists
  <2>4. last \in given
    <3> HIDE DEF given
    <3> QED BY <2>3
  <2> HIDE DEF last
  <2>5. args[last] \in Argument /\ args[last].flag = name
    BY <2>1, <2>4, ElementOfSeq
  <2> QED BY <2>2, <2>5 DEF Argument
<1> QED BY <1>1, <1>2

(***************************************************************************)
(* The entries of a list are lists of fields, of a length each.            *)
(***************************************************************************)
LEMMA EntriesType ==
  ASSUME NEW args \in Seq(Argument), NEW name, name # ""
  PROVE  /\ Entries(args, name) \in Seq(Seq(Seq(STRING)))
         /\ \A i \in DOMAIN Entries(args, name) : Len(Entries(args, name)[i]) \in Nat
<1> DEFINE T == Seq(STRING)
           e == Split(Value(args, name), ",")
           s == [i \in DOMAIN e |-> Split(e[i], ":")]
<1>1. e \in Seq(T)
  BY ValueType, SplitType
<1>2. \A i \in DOMAIN e : Split(e[i], ":") \in Seq(T)
  <2> TAKE i \in DOMAIN e
  <2>1. e[i] \in T
    <3> HIDE DEF e, T
    <3> QED BY <1>1, SeqAt
  <2> HIDE DEF e
  <2> QED BY <2>1, SplitType
<1>3. Entries(args, name) = s
  BY DEF Entries
<1> HIDE DEF e
<1>4. s \in [DOMAIN e -> Seq(T)]
  BY <1>2
<1> HIDE DEF s
<1>5. s \in Seq(Seq(T))
  <2> DEFINE U == Seq(T)
  <2>1. s \in [DOMAIN e -> U]
    BY <1>4
  <2> HIDE DEF U, T
  <2>2. s \in Seq(U)
    BY <1>1, <2>1, SameLength
  <2> QED BY <2>2 DEF U
<1>6. \A i \in DOMAIN s : Len(s[i]) \in Nat
  <2> TAKE i \in DOMAIN s
  <2> DEFINE U == Seq(T)
  <2>0. s \in Seq(U)
    BY <1>5
  <2> HIDE DEF U, T
  <2>1. s[i] \in U
    BY <2>0, SeqAt
  <2>2. s[i] \in Seq(T)
    BY <2>1 DEF U
  <2> QED BY <2>2, SeqAt
<1> QED BY <1>3, <1>5, <1>6

(***************************************************************************)
(* A parser returns options of its own command, or fails.                  *)
(***************************************************************************)
LEMMA Outcomes ==
  /\ \A o : Options(o).outcome = "options" /\ Options(o).options = o
  /\ \A how : Fails(how).outcome = how
BY DEF Options, Fails

(***************************************************************************)
(* What the parsers other than that of deployment-markers return.          *)
(***************************************************************************)
LEMMA ParsersReturn ==
  ASSUME NEW args
  PROVE  /\ \/ ParseRenderConfig(args).outcome = "error"
            \/ /\ ParseRenderConfig(args).outcome = "options"
               /\ ParseRenderConfig(args).options.command = "render_config"
               /\ DOMAIN ParseRenderConfig(args).options.files
                  = 1..Cardinality({i \in DOMAIN args : i \notin Flags(args)})
         /\ ParseTcpWait(args).outcome = "options" /\ ParseTcpWait(args).options.command = "tcpwait"
         /\ \/ ParseSyn2Mas(args).outcome = "error"
            \/ /\ ParseSyn2Mas(args).outcome = "options"
               /\ ParseSyn2Mas(args).options.command = "syn2mas"
         /\ \/ ParseGenerateSecrets(args).outcome = "error"
            \/ ParseGenerateSecrets(args).outcome = "panic" /\ LabelsPanic(args)
            \/ /\ ParseGenerateSecrets(args).outcome = "options"
               /\ ParseGenerateSecrets(args).options.command = "generate_secrets"
<1>1. \/ ParseRenderConfig(args).outcome = "error"
      \/ /\ ParseRenderConfig(args).outcome = "options"
         /\ ParseRenderConfig(args).options.command = "render_config"
         /\ DOMAIN ParseRenderConfig(args).options.files
            = 1..Cardinality({i \in DOMAIN args : i \notin Flags(args)})
  BY DEF ParseRenderConfig, Options, Fails
<1>2. ParseTcpWait(args).outcome = "options" /\ ParseTcpWait(args).options.command = "tcpwait"
  BY DEF ParseTcpWait, Options
<1>3. \/ ParseSyn2Mas(args).outcome = "error"
      \/ /\ ParseSyn2Mas(args).outcome = "options"
         /\ ParseSyn2Mas(args).options.command = "syn2mas"
  BY DEF ParseSyn2Mas, Options, Fails
<1>4. \/ ParseGenerateSecrets(args).outcome = "error"
      \/ ParseGenerateSecrets(args).outcome = "panic" /\ LabelsPanic(args)
      \/ /\ ParseGenerateSecrets(args).outcome = "options"
         /\ ParseGenerateSecrets(args).options.command = "generate_secrets"
  BY DEF ParseGenerateSecrets, Options, Fails
<1> QED BY <1>1, <1>2, <1>3, <1>4

(***************************************************************************)
(* A list of markers makes the program panic only at an entry of three     *)
(* fields.                                                                 *)
(***************************************************************************)
LEMMA MarkersReturn ==
  ASSUME NEW args \in Seq(Argument)
  PROVE  \/ ParseDeploymentMarkers(args).outcome = "error"
         \/ /\ ParseDeploymentMarkers(args).outcome = "panic"
            /\ \/ LabelsPanic(args)
               \/ \E i \in DOMAIN Entries(args, "markers") : Len(Entries(args, "markers")[i]) = 3
         \/ /\ ParseDeploymentMarkers(args).outcome = "options"
            /\ ParseDeploymentMarkers(args).options.command = "deployment_markers"
<1> DEFINE e == Entries(args, "markers")
           short == {i \in DOMAIN e : Len(e[i]) < 4}
           first == CHOOSE i \in short : \A j \in short : i <= j
<1>1. \A i \in DOMAIN e : Len(e[i]) \in Nat /\ i \in Nat
  <2>1. e \in Seq(Seq(Seq(STRING))) /\ \A i \in DOMAIN e : Len(e[i]) \in Nat
    BY EntriesType
  <2> DEFINE U == Seq(Seq(STRING))
  <2>2. e \in Seq(U)
    BY <2>1
  <2> HIDE DEF e, U
  <2> QED BY <2>1, <2>2
<1>2. CASE short # {}
  <2>1. ParseDeploymentMarkers(args) = Fails(IF Len(e[first]) < Fields THEN "error" ELSE "panic")
    BY <1>2, Zenon DEF ParseDeploymentMarkers
  <2>2. \E i \in short : \A j \in short : i <= j
    <3>1. short \in SUBSET Nat
      BY <1>1
    <3> HIDE DEF short
    <3> QED BY <1>2, <3>1, MinimumExists
  <2>3. first \in short
    <3> HIDE DEF short
    <3> QED BY <2>2
  <2> HIDE DEF first, e
  <2>4. first \in DOMAIN e /\ Len(e[first]) \in Nat /\ Len(e[first]) < 4
    BY <1>1, <2>3
  <2>5. Len(e[first]) < Fields \/ Len(e[first]) = 3
    <3> DEFINE n == Len(e[first])
    <3>1. n \in Nat /\ n < 4
      BY <2>4
    <3> HIDE DEF n
    <3>2. n < Fields \/ n = 3
      BY <3>1 DEF Fields
    <3> QED BY <3>2 DEF n
  <2> QED BY <2>1, <2>4, <2>5, Outcomes DEF e
<1>3. CASE short = {}
  <2>1. CASE LabelsPanic(args)
    <3>1. ParseDeploymentMarkers(args) = Fails("panic")
      BY <1>3, <2>1, Zenon DEF ParseDeploymentMarkers
    <3> QED BY <2>1, <3>1, Outcomes
  <2>2. CASE ~LabelsPanic(args)
    <3> DEFINE o == [command |-> "deployment_markers",
                     markers |-> [i \in DOMAIN e |->
                                    [name |-> e[i][1], key |-> e[i][2], newValue |-> e[i][3],
                                     step |-> Value(args, "step"),
                                     allowed |-> ToSet(Split(e[i][4], ";"))]],
                     labels  |-> Labels(args, <<"matrix-tools-deployment-markers">>)]
    <3>1. ParseDeploymentMarkers(args) = Options(o)
      BY <1>3, <2>2, Zenon DEF ParseDeploymentMarkers
    <3>2. o.command = "deployment_markers"
      OBVIOUS
    <3> QED BY <3>1, <3>2, Outcomes
  <2> QED BY <2>1, <2>2
<1> QED BY <1>2, <1>3

-----------------------------------------------------------------------------

(***************************************************************************)
(* How far main is, and what it has by then.                               *)
(***************************************************************************)
Parsed ==
  /\ ParseArgs.outcome = "options"
  /\ options = ParseArgs.options

(***************************************************************************)
(* render-config has opened the files of its options, in their order.      *)
(***************************************************************************)
Opened == files = [i \in DOMAIN options.files |-> fs[options.files[i]]]

(***************************************************************************)
(* Before render-config runs nothing is rendered; what runs is what was    *)
(* parsed, and what could be parsed was; with status 0 all was rendered,   *)
(* with status 2 the arguments made the parser panic or print its usage.   *)
(***************************************************************************)
ToolInv ==
  /\ argv \in Seq(Argument)
  /\ \A path \in DOMAIN fs : IsFile(fs[path])
  /\ phase \in {"parse", "dispatch", "running", "exited"}
  /\ phase \in {"parse", "dispatch"} => RenderStart /\ files = <<>>
  /\ phase \in {"dispatch", "running"} => Parsed
  /\ phase # "parse" /\ ParseArgs.outcome = "options" => options = ParseArgs.options
  /\ phase = "running" => IF options.command = "render_config" THEN Opened ELSE pc = "read"
  /\ phase = "exited" =>
       \/ status = 0 /\ Parsed /\ Opened /\ pc = "done"
       \/ status = 1
       \/ status = 2 /\ ParseArgs.outcome \in {"panic", "usage"}

(***************************************************************************)
(* The inductive invariant of the program.                                 *)
(***************************************************************************)
Inv == RenderInv /\ ToolInv

(***************************************************************************)
(* What follows the command are arguments.                                 *)
(***************************************************************************)
LEMMA ArgumentsType ==
  ASSUME argv \in Seq(Argument), argv # <<>>
  PROVE  Arguments \in Seq(Argument)
BY HeadTailProperties DEF Arguments

(***************************************************************************)
(* Which outcomes ParseArgs has, and when the program dies of one.         *)
(***************************************************************************)
LEMMA ParseArgsReturns ==
  ASSUME argv \in Seq(Argument)
  PROVE  /\ ParseArgs.outcome \in {"options", "error", "panic", "usage"}
         /\ ParseArgs.outcome = "panic" =>
              \/ argv = <<>>
              \/ LabelsPanic(Arguments)
              \/ \E i \in DOMAIN Entries(Arguments, "markers") : Len(Entries(Arguments, "markers")[i]) = 3
         /\ ParseArgs.outcome = "usage" =>
              \E i \in Flags(Arguments) : Arguments[i].flag \notin KnownFlags[Command]
         /\ ParseArgs.outcome = "options" /\ ParseArgs.options.command = "render_config" =>
              \E n \in Nat : DOMAIN ParseArgs.options.files = 1..n
<1>1. CASE argv = <<>> /\ ParseArgs = Fails("panic")
  BY <1>1, Outcomes
<1>2. CASE ParseArgs = Fails("error")
  BY <1>2, Outcomes
<1>3. CASE /\ ParseArgs = Fails("usage")
           /\ \E i \in Flags(Arguments) : Arguments[i].flag \notin KnownFlags[Command]
  BY <1>3, Outcomes
<1>4. CASE argv # <<>> /\ ParseArgs = ParseRenderConfig(Arguments)
  <2> DEFINE rest == {i \in DOMAIN Arguments : i \notin Flags(Arguments)}
  <2>1. Cardinality(rest) \in Nat
    <3>1. Arguments \in Seq(Argument)
      BY <1>4, ArgumentsType
    <3>2. DOMAIN Arguments = 1..Len(Arguments) /\ Len(Arguments) \in Nat
      BY <3>1, SeqAt
    <3>3. IsFiniteSet(DOMAIN Arguments)
      BY <3>2, FS_Interval
    <3>4. IsFiniteSet(rest)
      BY <3>3, FS_Subset
    <3> HIDE DEF rest
    <3> QED BY <3>4, FS_CardinalityType
  <2> QED BY <1>4, <2>1, ParsersReturn
<1>5. CASE ParseArgs = ParseTcpWait(Arguments)
  BY <1>5, ParsersReturn
<1>6. CASE ParseArgs = ParseSyn2Mas(Arguments)
  BY <1>6, ParsersReturn
<1>7. CASE ParseArgs = ParseGenerateSecrets(Arguments)
  BY <1>7, ParsersReturn
<1>8. CASE argv # <<>> /\ ParseArgs = ParseDeploymentMarkers(Arguments)
  <2>1. Arguments \in Seq(Argument)
    BY <1>8, ArgumentsType
  <2> QED BY <1>8, <2>1, MarkersReturn
<1> QED BY <1>1, <1>2, <1>3, <1>4, <1>5, <1>6, <1>7, <1>8, ParseArgsIs

(***************************************************************************)
(* ParseArgs depends on the command line only.                             *)
(***************************************************************************)
LEMMA ParseArgsStays ==
  ASSUME argv' = argv
  PROVE  ParseArgs' = ParseArgs
BY DEF ParseArgs

(***************************************************************************)
(* The invariant holds at the start.                                       *)
(***************************************************************************)
LEMMA ToolBegins == Start => Inv
<1> SUFFICES ASSUME Start PROVE Inv
  OBVIOUS
<1>1. RenderStart /\ files = <<>> /\ env \in [Variables -> Template]
  BY DEF Start
<1>2. files \in Seq(ToSet(files)) /\ \A i \in DOMAIN files : IsFile(files[i])
  BY <1>1
<1>3. RenderInv
  BY <1>1, <1>2, RenderBegins DEF RenderReady
<1>4. ToolInv
  BY DEF Start, ToolInv
<1> QED BY <1>3, <1>4 DEF Inv

(***************************************************************************)
(* The files opened are files of the file system, in the order given.      *)
(***************************************************************************)
LEMMA OpenKeeps ==
  ASSUME Inv, OpenFiles
  PROVE  Inv'
<1>0. /\ phase = "dispatch" /\ options.command = "render_config" /\ phase' = "running"
      /\ ToSet(options.files) \subseteq DOMAIN fs
      /\ files' = [i \in DOMAIN options.files |-> fs[options.files[i]]]
      /\ UNCHANGED <<env, pc, content, pending, parsed, output, argv, fs, options, status>>
  BY DEF OpenFiles
<1>1. RenderStart /\ env \in [Variables -> Template] /\ ToolInv /\ Parsed
  BY <1>0 DEF Inv, ToolInv, RenderInv, RenderTypes
<1>2. \A i \in DOMAIN options.files : IsFile(fs[options.files[i]])
  BY <1>0, <1>1 DEF ToolInv, ToSet
<1>3. PICK n \in Nat : DOMAIN options.files = 1..n
  BY <1>0, <1>1, ParseArgsReturns DEF Parsed, ToolInv
<1>4. files' \in Seq(ToSet(files')) /\ \A i \in DOMAIN files' : IsFile(files'[i])
  <2>1. DOMAIN files' = 1..n /\ \A i \in 1..n : files'[i] = fs[options.files[i]]
    BY <1>0, <1>3
  <2>2. files' \in [1..n -> ToSet(files')]
    <3>1. \A i \in 1..n : files'[i] \in ToSet(files')
      BY <2>1 DEF ToSet
    <3>2. files' = [i \in 1..n |-> files'[i]]
      BY <1>0, <1>3
    <3> QED BY <3>1, <3>2
  <2> QED BY <1>2, <1>3, <2>1, <2>2
<1>5. RenderStart'
  BY <1>0, <1>1 DEF RenderStart
<1>6. RenderInv'
  <2>1. env' \in [Variables -> Template]
    BY <1>0, <1>1
  <2>2. RenderReady'
    BY <1>4, <1>5, <2>1 DEF RenderReady
  <2> QED BY <2>2, RenderBegins, PTL
<1>7. Parsed' /\ Opened'
  BY <1>0, <1>1, ParseArgsStays DEF Parsed, Opened
<1>8. ToolInv'
  BY <1>0, <1>1, <1>7, ParseArgsStays DEF ToolInv, Parsed
<1> QED BY <1>6, <1>8 DEF Inv

(***************************************************************************)
(* Every step keeps the invariant.                                         *)
(***************************************************************************)
LEMMA ToolKeeps == Inv /\ [Next]_vars => Inv'
<1> SUFFICES ASSUME Inv, [Next]_vars PROVE Inv'
  OBVIOUS
<1> USE DEF Inv
<1>1. CASE Parse
  <2>0. /\ phase = "parse" /\ phase' = "dispatch" /\ ParseArgs.outcome = "options"
        /\ options' = ParseArgs.options /\ UNCHANGED <<renderVars, argv, fs, status>>
    BY <1>1 DEF Parse
  <2>1. RenderInv'
    BY <2>0, RenderUnchanged
  <2>2. Parsed'
    BY <2>0, ParseArgsStays DEF Parsed
  <2>3. RenderStart' /\ files' = <<>>
    BY <2>0 DEF ToolInv, RenderStart, renderVars
  <2> QED BY <2>0, <2>1, <2>2, <2>3 DEF ToolInv, Parsed
<1>2. CASE ParseFails
  <2>0. /\ phase = "parse" /\ phase' = "exited" /\ ParseArgs.outcome # "options"
        /\ status' = (IF ParseArgs.outcome = "error" THEN 1 ELSE 2)
        /\ UNCHANGED <<renderVars, argv, fs, options>>
    BY <1>2 DEF ParseFails, ExitWith
  <2>1. RenderInv'
    BY <2>0, RenderUnchanged
  <2>2. ParseArgs' = ParseArgs
    BY <2>0, ParseArgsStays
  <2>3. ParseArgs.outcome \in {"options", "error", "panic", "usage"}
    BY ParseArgsReturns DEF ToolInv
  <2> QED BY <2>0, <2>1, <2>2, <2>3 DEF ToolInv
<1>3. CASE Dispatch
  <2>0. /\ phase = "dispatch" /\ phase' = "running" /\ options.command # "render_config"
        /\ UNCHANGED <<renderVars, argv, fs, options, status>>
    BY <1>3 DEF Dispatch
  <2>1. RenderInv'
    BY <2>0, RenderUnchanged
  <2>2. Parsed'
    BY <2>0, ParseArgsStays DEF Parsed, ToolInv
  <2>3. pc' = "read"
    BY <2>0 DEF ToolInv, RenderStart, renderVars
  <2> QED BY <2>0, <2>1, <2>2, <2>3, ParseArgsStays DEF ToolInv, Parsed
<1>4. CASE OpenFiles
  BY <1>4, OpenKeeps
<1>5. CASE OpenFails
  <2>0. /\ phase = "dispatch" /\ phase' = "exited" /\ status' = 1
        /\ UNCHANGED <<renderVars, argv, fs, options>>
    BY <1>5 DEF OpenFails, ExitWith
  <2>1. RenderInv'
    BY <2>0, RenderUnchanged
  <2> QED BY <2>0, <2>1, ParseArgsStays DEF ToolInv
<1>6. CASE Render
  <2>0. /\ phase = "running" /\ options.command = "render_config" /\ RenderStep
        /\ UNCHANGED <<argv, fs, phase, options, status>>
    BY <1>6 DEF Render, toolVars
  <2>1. RenderInv'
    BY <2>0, RenderKeeps
  <2>2. files' = files
    BY <2>0 DEF RenderStep, ReadFile, Replace, ReplaceFails, Merge, UnmarshalFails, Return, Error
  <2>3. Parsed' /\ Opened'
    BY <2>0, <2>2, ParseArgsStays DEF Parsed, Opened, ToolInv
  <2> QED BY <2>0, <2>1, <2>3, ParseArgsStays DEF ToolInv
<1>7. CASE Exit
  <2>0. /\ phase = "running" /\ phase' = "exited" /\ pc \in {"done", "error"}
        /\ status' = (IF pc = "done" THEN 0 ELSE 1)
        /\ UNCHANGED <<renderVars, argv, fs, options>>
    BY <1>7 DEF Exit, ExitWith
  <2>1. RenderInv'
    BY <2>0, RenderUnchanged
  <2>2. Parsed' /\ Opened'
    BY <2>0, ParseArgsStays DEF Parsed, Opened, ToolInv, renderVars
  <2>3. pc' = pc
    BY <2>0 DEF renderVars
  <2> QED BY <2>0, <2>1, <2>2, <2>3, ParseArgsStays DEF ToolInv
<1>8. CASE UNCHANGED vars
  <2>0. UNCHANGED <<renderVars, argv, fs, phase, options, status>>
    BY <1>8 DEF vars, toolVars
  <2>1. RenderInv'
    BY <2>0, RenderUnchanged
  <2>2. ParseArgs' = ParseArgs
    BY <2>0, ParseArgsStays
  <2> QED BY <2>0, <2>1, <2>2 DEF ToolInv, Parsed, Opened, RenderStart, renderVars
<1> QED BY <1>1, <1>2, <1>3, <1>4, <1>5, <1>6, <1>7, <1>8 DEF Next, Terminating

(***************************************************************************)
(* The invariant holds in every reachable state.                           *)
(***************************************************************************)
THEOREM ToolIsSafe == Spec => []Inv
<1>1. Start => Inv
  BY ToolBegins
<1>2. Inv /\ [Next]_vars => Inv'
  BY ToolKeeps
<1> QED BY <1>1, <1>2, PTL DEF Spec

(***************************************************************************)
(* The result of every render-config, after each of its files, is what the *)
(* documents give together.                                                *)
(***************************************************************************)
THEOREM MergesInOrder == Spec => []MergedInOrder
<1>1. Inv => MergedInOrder
  BY DEF Inv, RenderInv
<1> QED BY <1>1, ToolIsSafe, PTL

(***************************************************************************)
(* Replacing the variables one after the other is replacing them at once,  *)
(* unless a value brings the name of a variable in.                        *)
(***************************************************************************)
THEOREM ReplacesVerbatim == Spec => []Verbatim
<1>1. Inv => Verbatim
  BY RenderVerbatim DEF Inv
<1> QED BY <1>1, ToolIsSafe, PTL

(***************************************************************************)
(* render-config fails only over a file that is no YAML any more or names  *)
(* itself a variable that cannot be replaced.                              *)
(***************************************************************************)
THEOREM FailsOverNamedVariables == Spec => []OnlyNamedVariables
<1>1. Inv => OnlyNamedVariables
  BY DEF Inv, RenderInv
<1> QED BY <1>1, ToolIsSafe, PTL

(***************************************************************************)
(* Whatever the arguments are, the program dies (status 2) only of those   *)
(* it does not check, as RefusedWithAnError names them.                    *)
(***************************************************************************)
THEOREM RefusesWithAnError == Spec => []RefusedWithAnError
<1>1. Inv => RefusedWithAnError
  <2> SUFFICES ASSUME ToolInv, phase = "exited", status = 2 PROVE RefusedWithAnError
    BY DEF Inv, RefusedWithAnError
  <2>1. ParseArgs.outcome \in {"panic", "usage"} /\ argv \in Seq(Argument)
    BY DEF ToolInv
  <2>2. \/ argv = <<>>
        \/ LabelsPanic(Arguments)
        \/ \E i \in DOMAIN Entries(Arguments, "markers") : Len(Entries(Arguments, "markers")[i]) = 3
        \/ \E i \in Flags(Arguments) : Arguments[i].flag \notin KnownFlags[Command]
    BY <2>1, ParseArgsReturns
  <2> QED BY <2>2, Zenon DEF RefusedWithAnError, Arguments, Command
<1> QED BY <1>1, ToolIsSafe, PTL

-----------------------------------------------------------------------------

(***************************************************************************)
(* A sequence with one element put in front.                               *)
(***************************************************************************)
LEMMA FirstOf ==
  ASSUME NEW U, NEW w \in U, NEW s \in Seq(U)
  PROVE  /\ <<w>> \o s \in Seq(U) /\ <<w>> \o s # <<>>
         /\ Head(<<w>> \o s) = w /\ Tail(<<w>> \o s) = s
         /\ Len(<<w>> \o s) = Len(s) + 1 /\ Len(s) \in Nat
         /\ (<<w>> \o s)[1] = w /\ \A i \in 1..Len(s) : (<<w>> \o s)[i + 1] = s[i]
<1> DEFINE h == <<w>>
           t == h \o s
           N == Len(s)
<1>1. h \in Seq(U) /\ Len(h) = 1 /\ h[1] = w /\ N \in Nat
  OBVIOUS
<1>2. /\ t \in Seq(U) /\ Len(t) = 1 + N
      /\ \A i \in 1..1 + N : t[i] = IF i <= 1 THEN h[i] ELSE s[i - 1]
  <2>1. /\ t \in Seq(U) /\ Len(t) = Len(h) + Len(s)
        /\ \A i \in 1..Len(h) + Len(s) : t[i] = IF i <= Len(h) THEN h[i] ELSE s[i - Len(h)]
    <3> HIDE DEF h
    <3> QED BY <1>1, ConcatProperties
  <2> HIDE DEF h, t
  <2> QED BY <1>1, <2>1
<1> HIDE DEF h
<1>3. t[1] = w /\ \A i \in 1..N : t[i + 1] = s[i]
  <2>1. 1 \in 1..1 + N /\ \A i \in 1..N : i + 1 \in 1..1 + N /\ ~(i + 1 <= 1) /\ (i + 1) - 1 = i
    <3> HIDE DEF N
    <3> QED BY <1>1
  <2> HIDE DEF t, N
  <2>2. t[1] = w
    BY <1>1, <1>2, <2>1
  <2>3. ASSUME NEW i \in 1..N PROVE t[i + 1] = s[i]
    BY <1>2, <2>1
  <2> QED BY <2>2, <2>3
<1> HIDE DEF t
<1>4. t # <<>> /\ Head(t) = w
  BY <1>1, <1>2, <1>3
<1>5. Tail(t) = s
  <2>1. /\ Tail(t) \in Seq(U) /\ Len(Tail(t)) = Len(t) - 1
        /\ \A i \in 1..Len(Tail(t)) : Tail(t)[i] = t[i + 1]
    BY <1>2, <1>4, HeadTailProperties
  <2>2. Len(Tail(t)) = N /\ \A i \in 1..N : Tail(t)[i] = s[i]
    BY <1>1, <1>2, <1>3, <2>1
  <2> DEFINE u == Tail(t)
  <2> HIDE DEF u
  <2>3. u \in Seq(U) /\ Len(u) = Len(s) /\ \A i \in 1..Len(u) : u[i] = s[i]
    BY <2>1, <2>2 DEF u
  <2>4. u = s
    BY <2>3, SeqEqual
  <2> QED BY <2>4 DEF u
<1> QED BY <1>1, <1>2, <1>3, <1>4, <1>5 DEF t, h

(***************************************************************************)
(* The parts of a word on the command line.                                *)
(***************************************************************************)
LEMMA WordIs ==
  ASSUME NEW w
  PROVE  Word(w).flag = "" /\ Word(w).value = <<w>> /\ Word(w).value[1] = w
BY DEF Word

(***************************************************************************)
(* The parts of a flag on the command line.                                *)
(***************************************************************************)
LEMMA FlagIs ==
  ASSUME NEW name, NEW value
  PROVE  Flag(name, value).flag = name /\ Flag(name, value).value = value
BY DEF Flag

(***************************************************************************)
(* The command line of a render-config.                                    *)
(***************************************************************************)
LEMMA RenderArguments ==
  ASSUME NEW o, o.command = "render_config", NEW T, o.files \in Seq(T)
  PROVE  /\ CommandLine(o) # <<>> /\ Head(CommandLine(o)) = Word("render_config")
         /\ DOMAIN Tail(CommandLine(o)) = 1..Len(o.files) + 1 /\ Len(o.files) \in Nat
         /\ Tail(CommandLine(o))[1] = Flag("output", o.output)
         /\ \A i \in 1..Len(o.files) : Tail(CommandLine(o))[i + 1] = Word(o.files[i])
<1> DEFINE fls == o.files
           f == Flag("output", o.output)
           c == Word("render_config")
           W == [i \in DOMAIN fls |-> Word(fls[i])]
           U == {f, c} \cup {Word(fls[i]) : i \in DOMAIN fls}
           args == <<f>> \o W
<1>1. CommandLine(o) = <<c>> \o args
  BY DEF CommandLine
<1>2. fls \in Seq(T) /\ DOMAIN fls = 1..Len(fls) /\ Len(fls) \in Nat
  BY SeqAt
<1>3. W \in [DOMAIN fls -> U] /\ f \in U /\ c \in U
  OBVIOUS
<1>4. W \in Seq(U) /\ Len(W) = Len(fls)
  <2> HIDE DEF W, U, fls
  <2> QED BY <1>2, <1>3, SameLength
<1>5. \A i \in 1..Len(fls) : W[i] = Word(fls[i])
  BY <1>2
<1> HIDE DEF W, U, f, c
<1>6. /\ args \in Seq(U) /\ Len(args) = Len(fls) + 1 /\ args[1] = f
      /\ \A i \in 1..Len(fls) : args[i + 1] = W[i]
  BY <1>3, <1>4, FirstOf
<1> HIDE DEF args
<1>7. /\ <<c>> \o args # <<>> /\ Head(<<c>> \o args) = c /\ Tail(<<c>> \o args) = args
  BY <1>3, <1>6, FirstOf
<1>8. DOMAIN args = 1..Len(fls) + 1
  BY <1>6, SeqAt
<1> QED BY <1>1, <1>2, <1>5, <1>6, <1>7, <1>8 DEF args, W, f, c

(***************************************************************************)
(* The command line of a render-config is parsed into what it was rendered *)
(* from.                                                                   *)
(***************************************************************************)
LEMMA RenderParses ==
  ASSUME NEW o, o = [command |-> "render_config", output |-> o.output, files |-> o.files],
         NEW T, o.files \in Seq(T), o.output # <<>>, CommandLine(o) = argv
  PROVE  ParseArgs = Options(o)
<1> DEFINE args == Arguments
           n == Len(o.files)
           rest == {i \in DOMAIN args : i \notin Flags(args)}
           words == {i \in DOMAIN args : args[i].flag = ""}
<1>0. o.command = "render_config" /\ o.files = [i \in 1..n |-> o.files[i]]
  <2>1. DOMAIN o.files = 1..n
    BY SeqAt
  <2> QED BY <2>1
<1>1. /\ argv # <<>> /\ Head(argv) = Word("render_config")
      /\ DOMAIN args = 1..n + 1 /\ args[1] = Flag("output", o.output)
      /\ \A i \in 1..n : args[i + 1] = Word(o.files[i])
  BY <1>0, RenderArguments DEF Arguments
<1>n. n \in Nat
  BY <1>0, RenderArguments
<1> HIDE DEF args, n
<1>2. /\ args[1].flag = "output" /\ args[1].value = o.output
      /\ \A i \in 1..n : args[i + 1].flag = "" /\ args[i + 1].value[1] = o.files[i]
      /\ Command = "render_config"
  <2>1. args[1].flag = "output" /\ args[1].value = o.output
    BY <1>1, FlagIs
  <2>2. ASSUME NEW i \in 1..n PROVE args[i + 1].flag = "" /\ args[i + 1].value[1] = o.files[i]
    <3>1. args[i + 1] = Word(o.files[i])
      BY <1>1
    <3> QED BY <3>1, WordIs
  <2>3. Command = "render_config"
    BY <1>1, WordIs DEF Command
  <2> QED BY <2>1, <2>2, <2>3
<1>3. words = 2..n + 1
  <2>0. \A j \in 1..n + 1 : j # 1 => j \in 2..n + 1
    BY <1>n
  <2>1. ASSUME NEW i \in 2..n + 1 PROVE i \in words
    <3>1. i - 1 \in 1..n /\ (i - 1) + 1 = i /\ i \in 1..n + 1
      BY <1>n
    <3> QED BY <1>1, <1>2, <3>1
  <2>2. ASSUME NEW i \in words PROVE i \in 2..n + 1
    <3>1. i \in 1..n + 1 /\ i # 1
      BY <1>1, <1>2
    <3> QED BY <2>0, <3>1, Zenon
  <2> HIDE DEF words
  <2> QED BY <2>1, <2>2
<1>4. Flags(args) = {1}
  <2>1. Flags(args) = {i \in 1..n + 1 : \A w \in 2..n + 1 : i < w}
    BY <1>1, <1>3 DEF Flags
  <2>2. ASSUME NEW i \in 1..n + 1, \A w \in 2..n + 1 : i < w PROVE i = 1
    <3>1. i \notin 2..n + 1
      BY <1>n, <2>2
    <3> QED BY <1>n, <3>1
  <2>3. 1 \in 1..n + 1 /\ \A w \in 2..n + 1 : 1 < w
    BY <1>n
  <2> QED BY <2>1, <2>2, <2>3
<1>5. rest = 2..n + 1
  <2>1. rest = {i \in 1..n + 1 : i # 1}
    BY <1>1, <1>4
  <2>2. \A i \in 1..n + 1 : i # 1 <=> i \in 2..n + 1
    BY <1>n
  <2>3. 2..n + 1 \subseteq 1..n + 1
    BY <1>n
  <2> QED BY <2>1, <2>2, <2>3
<1>6. Cardinality(rest) = n /\ Cardinality(Flags(args)) = 1
  <2>1. Cardinality(2..n + 1) = n
    <3> DEFINE b == n + 1
    <3>1. b \in Int /\ b >= 1 /\ b - 2 + 1 = n /\ (2 > b => n = 0) /\ 2 \in Int
      BY <1>n
    <3> HIDE DEF b
    <3>2. Cardinality(2..b) = IF 2 > b THEN 0 ELSE b - 2 + 1
      BY <3>1, FS_Interval
    <3>3. Cardinality(2..b) = n
      BY <3>1, <3>2
    <3> QED BY <3>3 DEF b
  <2>2. Cardinality({1}) = 1
    BY FS_Singleton
  <2> QED BY <1>4, <1>5, <2>1, <2>2
<1>7. Value(args, "output") = o.output
  <2> DEFINE given == {i \in Flags(args) : args[i].flag = "output"}
  <2>1. given = {1}
    BY <1>2, <1>4
  <2>2. (CHOOSE i \in given : \A j \in given : j <= i) = 1
    BY <2>1
  <2>3. Value(args, "output") = args[CHOOSE i \in given : \A j \in given : j <= i].value
    <3>1. given # {}
      BY <2>1
    <3> QED BY <3>1, Zenon DEF Value
  <2> QED BY <1>2, <2>2, <2>3
<1>8. ~(\E i \in rest : args[i].flag # "") /\ ~(Value(args, "output") = <<>>)
  <2>1. \A i \in rest : args[i].flag = ""
    BY <1>3, <1>5
  <2> QED BY <1>7, <2>1
<1> DEFINE p == [command |-> "render_config", output |-> Value(args, "output"),
                 files |-> [i \in 1..Cardinality(rest) |-> args[i + Cardinality(Flags(args))].value[1]]]
<1>9. ParseRenderConfig(args) = Options(p)
  BY <1>8, Zenon DEF ParseRenderConfig
<1>10. p = o
  <2>1. [i \in 1..Cardinality(rest) |-> args[i + Cardinality(Flags(args))].value[1]] = o.files
    <3> DEFINE a == [i \in 1..n |-> args[i + 1].value[1]]
    <3>1. \A i \in 1..n : a[i] = o.files[i]
      BY <1>2
    <3>2. a = o.files
      BY <1>0, <3>1
    <3> QED BY <1>6, <3>2
  <2> QED BY <1>0, <1>7, <2>1
<1>11. ParseArgs = ParseRenderConfig(args)
  <2>1. \A i \in Flags(Arguments) : Arguments[i].flag \in KnownFlags[Command]
    BY <1>2, <1>4 DEF KnownFlags, args
  <2>2. "render_config" \in DOMAIN KnownFlags
    BY DEF KnownFlags
  <2> QED BY <1>1, <1>2, <2>1, <2>2 DEF ParseArgs, Command, Arguments, args
<1> QED BY <1>9, <1>10, <1>11

(***************************************************************************)
(* The chart's own files are the last ones.                                *)
(***************************************************************************)
LEMMA OverridesAreLast ==
  ASSUME NEW r \in Renders
  PROVE  /\ RenderRequest(r).files \in Seq(STRING)
         /\ RenderRequest(r).output # <<>>
         /\ \E m \in Nat : \A i \in DOMAIN RenderRequest(r).files :
              RenderRequest(r).files[i] \in Overrides <=> m <= i
<1> DEFINE A == STRING \ Overrides
           B == Overrides \cap STRING
           T == STRING
           u == r.underrides
           v == r.user
           w == r.overrides
           uv == u \o v
           all == uv \o w
<1>1. u \in Seq(A) /\ v \in Seq(A) /\ w \in Seq(B) /\ r.output # <<>>
  BY RendersAssumption
<1>2. /\ RenderRequest(r).files = all /\ RenderRequest(r).output = r.output
  BY DEF RenderRequest, ConfigFiles
<1>3. A \subseteq T /\ B \subseteq T /\ (\A a \in A : a \notin Overrides) /\ (\A b \in B : b \in Overrides)
  OBVIOUS
<1> HIDE DEF A, B, T, u, v, w
<1>4. /\ uv \in Seq(A) /\ Len(uv) \in Nat
  BY <1>1, ConcatProperties
<1> HIDE DEF uv
<1>5. /\ uv \in Seq(T) /\ w \in Seq(T) /\ Len(w) \in Nat
  BY <1>1, <1>3, <1>4, SeqMonotonic
<1>6. /\ all \in Seq(T) /\ Len(all) = Len(uv) + Len(w)
      /\ \A i \in 1..Len(uv) + Len(w) : all[i] = IF i <= Len(uv) THEN uv[i] ELSE w[i - Len(uv)]
  BY <1>5, ConcatProperties
<1> HIDE DEF all
<1>7. /\ DOMAIN all = 1..Len(uv) + Len(w)
      /\ (\A i \in 1..Len(uv) : uv[i] \in A) /\ (\A i \in 1..Len(w) : w[i] \in B)
  BY <1>1, <1>4, <1>6, SeqAt
<1>8. \A i \in DOMAIN all : all[i] \in Overrides <=> Len(uv) + 1 <= i
  <2> TAKE i \in DOMAIN all
  <2>1. CASE i <= Len(uv)
    <3>1. i \in 1..Len(uv) /\ ~(Len(uv) + 1 <= i)
      BY <1>4, <1>5, <1>7, <2>1
    <3>2. all[i] \in A
      BY <1>6, <1>7, <2>1, <3>1
    <3> QED BY <1>3, <3>1, <3>2
  <2>2. CASE ~(i <= Len(uv))
    <3>1. i - Len(uv) \in 1..Len(w) /\ Len(uv) + 1 <= i
      BY <1>4, <1>5, <1>7, <2>2
    <3>2. all[i] \in B
      BY <1>6, <1>7, <2>2, <3>1
    <3> QED BY <1>3, <3>1, <3>2
  <2> QED BY <2>1, <2>2
<1>9. Len(uv) + 1 \in Nat
  BY <1>4
<1> QED BY <1>1, <1>2, <1>6, <1>8, <1>9 DEF T

(***************************************************************************)
(* What the chart's own files set is in effect whatever the user's say.    *)
(***************************************************************************)
THEOREM OverridesStayInEffect == Spec => []OverridesInEffect
<1>1. Inv => OverridesInEffect
  <2> SUFFICES ASSUME RenderInv, ToolInv, phase = "exited", status = 0,
                      NEW r \in Renders, CommandLine(RenderRequest(r)) = argv
               PROVE  Carries(output, Combined([i \in DOMAIN parsed |->
                        IF options.files[i] \in Overrides THEN parsed[i] ELSE NoDocument]))
    BY DEF Inv, OverridesInEffect
  <2> DEFINE o == RenderRequest(r)
  <2>1. Parsed /\ Opened /\ pc = "done"
    BY DEF ToolInv
  <2>2. options = o
    <3>1. o = [command |-> "render_config", output |-> o.output, files |-> o.files]
      BY DEF RenderRequest
    <3>2. o.files \in Seq(STRING) /\ o.output # <<>> /\ CommandLine(o) = argv
      BY OverridesAreLast
    <3> HIDE DEF o
    <3>3. ParseArgs = Options(o)
      BY <3>1, <3>2, RenderParses
    <3> QED BY <2>1, <3>3, Outcomes DEF Parsed
  <2>3. PICK m \in Nat : \A i \in DOMAIN o.files : o.files[i] \in Overrides <=> m <= i
    BY OverridesAreLast
  <2> HIDE DEF o
  <2>4. AreDocuments(parsed) /\ output = Combined(parsed)
    BY DEF RenderInv, RenderTypes, MergedInOrder
  <2>5. DOMAIN parsed = DOMAIN o.files
    <3>1. Len(parsed) = Len(files)
      BY <2>1 DEF RenderInv
    <3>2. DOMAIN parsed = 1..Len(parsed) /\ DOMAIN files = 1..Len(files)
      BY SeqAt DEF RenderInv, RenderTypes, AreDocuments
    <3>3. DOMAIN files = DOMAIN o.files
      BY <2>1, <2>2 DEF Opened
    <3> QED BY <3>1, <3>2, <3>3
  <2> DEFINE own == [i \in DOMAIN parsed |-> IF m <= i THEN parsed[i] ELSE NoDocument]
             named == [i \in DOMAIN parsed |->
                         IF options.files[i] \in Overrides THEN parsed[i] ELSE NoDocument]
  <2>6. named = own
    <3>1. \A i \in DOMAIN parsed : options.files[i] \in Overrides <=> m <= i
      BY <2>2, <2>3, <2>5
    <3> QED BY <3>1
  <2>7. Carries(Combined(parsed), Combined(own))
    BY <2>4, LastInEffect
  <2> HIDE DEF own, named
  <2>8. Carries(output, Combined(named))
    BY <2>4, <2>6, <2>7
  <2> QED BY <2>8 DEF named
<1> QED BY <1>1, ToolIsSafe, PTL

-----------------------------------------------------------------------------

(***************************************************************************)
(* SetToSeq lists every element of a finite set.                           *)
(***************************************************************************)
LEMMA SetToSeqIs ==
  ASSUME NEW S, IsFiniteSet(S)
  PROVE  /\ SetToSeq(S) \in Seq(S) /\ ToSet(SetToSeq(S)) = S
         /\ S # {} => SetToSeq(S) # <<>>
<1> DEFINE N == Cardinality(S)
           D == 1..N
           s == SetToSeq(S)
<1>1. N \in Nat /\ IsFiniteSet(D) /\ Cardinality(D) = N
  <2>1. N \in Nat
    BY FS_CardinalityType
  <2> HIDE DEF N
  <2>2. IsFiniteSet(1..N) /\ Cardinality(1..N) = N
    BY <2>1, FS_Interval
  <2> QED BY <2>1, <2>2
<1>2. \E f \in [D -> S] : IsInjective(f)
  <2>1. ExistsBijection(D, S)
    <3> HIDE DEF D
    <3> QED BY <1>1, FS_SameCardinalityBij
  <2>2. PICK f : f \in Bijection(D, S)
    BY <2>1 DEF ExistsBijection
  <2> HIDE DEF D
  <2>3. f \in [D -> S] /\ \A a, b \in D : f[a] = f[b] => a = b
    BY <2>2, Zenon DEF Bijection, Injection, IsInjective
  <2> QED BY <2>3 DEF IsInjective
<1>3. s \in [D -> S] /\ IsInjective(s)
  BY <1>2 DEF SetToSeq
<1> HIDE DEF s, D, N
<1>4. s \in Surjection(D, S)
  <2>1. s \in Injection(D, S)
    BY <1>3, Zenon DEF Injection
  <2> QED BY <1>1, <2>1, FS_Injection DEF N
<1>5. \A x \in S : \E i \in D : s[i] = x
  BY <1>4, Zenon DEF Surjection
<1>6. s \in Seq(S)
  BY <1>1, <1>3 DEF D
<1>7. ToSet(s) = S
  BY <1>3, <1>5 DEF ToSet
<1>8. ASSUME S # {}, s = <<>> PROVE FALSE
  BY <1>7, <1>8 DEF ToSet
<1> QED BY <1>6, <1>7, <1>8 DEF s

(***************************************************************************)
(* The command and the arguments of a command line.                        *)
(***************************************************************************)
LEMMA CommandOf ==
  ASSUME NEW c, NEW U, NEW args \in Seq(U), argv = <<Word(c)>> \o args
  PROVE  argv # <<>> /\ Command = c /\ Arguments = args
<1> DEFINE w == Word(c)
           V == U \cup {w}
<1>1. w \in V /\ args \in Seq(V)
  BY SeqMonotonic
<1> HIDE DEF w, V
<1>2. argv # <<>> /\ Head(argv) = w /\ Tail(argv) = args
  BY <1>1, FirstOf DEF w
<1> QED BY <1>2, WordIs DEF Command, Arguments, w

(***************************************************************************)
(* Its parser is the one of its command, if it knows the flags.            *)
(***************************************************************************)
LEMMA ParserOf ==
  ASSUME argv # <<>>, Command \in DOMAIN KnownFlags,
         \A i \in Flags(Arguments) : Arguments[i].flag \in KnownFlags[Command]
  PROVE  /\ Command = "tcpwait" => ParseArgs = ParseTcpWait(Arguments)
         /\ Command = "syn2mas" => ParseArgs = ParseSyn2Mas(Arguments)
         /\ Command = "generate_secrets" => ParseArgs = ParseGenerateSecrets(Arguments)
         /\ Command = "deployment_markers" => ParseArgs = ParseDeploymentMarkers(Arguments)
<1>1. ParseArgs =
        CASE Command = "render_config"      -> ParseRenderConfig(Arguments)
          [] Command = "tcpwait"            -> ParseTcpWait(Arguments)
          [] Command = "syn2mas"            -> ParseSyn2Mas(Arguments)
          [] Command = "generate_secrets"   -> ParseGenerateSecrets(Arguments)
          [] Command = "deployment_markers" -> ParseDeploymentMarkers(Arguments)
  BY Zenon DEF ParseArgs, Command, Arguments
<1> HIDE DEF Command
<1>2. CASE Command = "tcpwait"
  BY <1>1, <1>2
<1>3. CASE Command = "syn2mas"
  BY <1>1, <1>3
<1>4. CASE Command = "generate_secrets"
  BY <1>1, <1>4
<1>5. CASE Command = "deployment_markers"
  BY <1>1, <1>5
<1> QED BY <1>2, <1>3, <1>4, <1>5

(***************************************************************************)
(* An index is a number, and not behind itself.                            *)
(***************************************************************************)
LEMMA Indices ==
  ASSUME NEW U, NEW s \in Seq(U)
  PROVE  \A i \in DOMAIN s : i \in Nat /\ i <= i
OBVIOUS

(***************************************************************************)
(* Arguments that are all flags, each given once, have the values given.   *)
(***************************************************************************)
LEMMA FlagsOnly ==
  ASSUME NEW U, NEW args \in Seq(U), \A i \in DOMAIN args : args[i].flag # "",
         \A i, j \in DOMAIN args : args[i].flag = args[j].flag => i = j
  PROVE  /\ Flags(args) = DOMAIN args
         /\ \A i \in DOMAIN args : Value(args, args[i].flag) = args[i].value
<1>1. Flags(args) = DOMAIN args
  BY DEF Flags
<1>2. ASSUME NEW i \in DOMAIN args PROVE Value(args, args[i].flag) = args[i].value
  <2> DEFINE given == {k \in Flags(args) : args[k].flag = args[i].flag}
             last == CHOOSE k \in given : \A j \in given : j <= k
  <2>1. given = {i}
    BY <1>1
  <2>2. Value(args, args[i].flag) = args[last].value
    <3>1. given # {}
      BY <2>1
    <3> QED BY <3>1, Zenon DEF Value
  <2>3. i <= i
    BY Indices
  <2>4. last = i
    <3> HIDE DEF given
    <3> QED BY <2>1, <2>3
  <2> QED BY <2>2, <2>4
<1> QED BY <1>1, <1>2

(***************************************************************************)
(* The flags and values of arguments with one flag.                        *)
(***************************************************************************)
OneGiven(args, a, x) ==
  /\ args \in Seq({Flag(a, x)})
  /\ {args[i].flag : i \in Flags(args)} = {a}
  /\ Value(args, a) = x

(***************************************************************************)
(* A command line of one flag gives each its value.                        *)
(***************************************************************************)
LEMMA OneFlag ==
  ASSUME NEW a, NEW x
  PROVE  a # "" => OneGiven(<<Flag(a, x)>>, a, x)
<1> DEFINE f == Flag(a, x)
           args == <<f>>
<1>1. f.flag = a /\ f.value = x
  BY FlagIs
<1> HIDE DEF f
<1>2. args \in Seq({f}) /\ DOMAIN args = {1} /\ args[1] = f
  <2>1. 1..1 = {1}
    OBVIOUS
  <2> QED BY <2>1
<1> HIDE DEF args
<1>3. SUFFICES ASSUME a # ""
               PROVE  /\ args \in Seq({f})
                      /\ {args[i].flag : i \in Flags(args)} = {a}
                      /\ Value(args, a) = x
  BY Zenon DEF OneGiven, args, f
<1>4. {args[i].flag : i \in Flags(args)} = {a} /\ Value(args, a) = x
  <2>1. /\ \A i \in DOMAIN args : args[i].flag # ""
        /\ \A i, j \in DOMAIN args : args[i].flag = args[j].flag => i = j
    BY <1>1, <1>2, <1>3
  <2>2. Flags(args) = DOMAIN args /\ \A i \in DOMAIN args : Value(args, args[i].flag) = args[i].value
    BY <1>2, <2>1, FlagsOnly
  <2>3. Flags(args) = {1} /\ args[1].flag = a /\ Value(args, args[1].flag) = x
    BY <1>1, <1>2, <2>2
  <2>4. {args[i].flag : i \in {1}} = {a}
    BY <2>3
  <2> QED BY <2>3, <2>4
<1> QED BY <1>2, <1>4

(***************************************************************************)
(* The flags and values of arguments with two flags.                       *)
(***************************************************************************)
TwoGiven(args, a, x, b, y) ==
  /\ args \in Seq({Flag(a, x), Flag(b, y)})
  /\ {args[i].flag : i \in Flags(args)} = {a, b}
  /\ Value(args, a) = x /\ Value(args, b) = y

(***************************************************************************)
(* A command line of two flags gives each its value.                       *)
(***************************************************************************)
LEMMA TwoFlags ==
  ASSUME NEW a, NEW x, NEW b, NEW y
  PROVE  a # "" /\ b # "" /\ a # b => TwoGiven(<<Flag(a, x), Flag(b, y)>>, a, x, b, y)
<1> DEFINE f == Flag(a, x)
           g == Flag(b, y)
           args == <<f, g>>
<1>1. f.flag = a /\ f.value = x /\ g.flag = b /\ g.value = y
  BY FlagIs
<1> HIDE DEF f, g
<1>2. args \in Seq({f, g}) /\ DOMAIN args = {1, 2} /\ args[1] = f /\ args[2] = g
  <2>1. 1..2 = {1, 2}
    OBVIOUS
  <2> QED BY <2>1
<1> HIDE DEF args
<1>3. SUFFICES ASSUME a # "", b # "", a # b
               PROVE  /\ args \in Seq({f, g})
                      /\ {args[i].flag : i \in Flags(args)} = {a, b}
                      /\ Value(args, a) = x /\ Value(args, b) = y
  BY Zenon DEF TwoGiven, args, f, g
<1>4. {args[i].flag : i \in Flags(args)} = {a, b} /\ Value(args, a) = x /\ Value(args, b) = y
  <2>1. /\ \A i \in DOMAIN args : args[i].flag # ""
        /\ \A i, j \in DOMAIN args : args[i].flag = args[j].flag => i = j
    BY <1>1, <1>2, <1>3
  <2>2. Flags(args) = DOMAIN args /\ \A i \in DOMAIN args : Value(args, args[i].flag) = args[i].value
    BY <1>2, <2>1, FlagsOnly
  <2> QED BY <1>1, <1>2, <2>2
<1> QED BY <1>2, <1>4

(***************************************************************************)
(* The flags and values of arguments with three flags.                     *)
(***************************************************************************)
ThreeGiven(args, a, x, b, y, c, z) ==
  /\ args \in Seq({Flag(a, x), Flag(b, y), Flag(c, z)})
  /\ {args[i].flag : i \in Flags(args)} = {a, b, c}
  /\ Value(args, a) = x /\ Value(args, b) = y /\ Value(args, c) = z

(***************************************************************************)
(* A command line of three flags gives each its value.                     *)
(***************************************************************************)
LEMMA ThreeFlags ==
  ASSUME NEW a, NEW x, NEW b, NEW y, NEW c, NEW z
  PROVE  a # "" /\ b # "" /\ c # "" /\ a # b /\ a # c /\ b # c =>
           ThreeGiven(<<Flag(a, x), Flag(b, y), Flag(c, z)>>, a, x, b, y, c, z)
<1> DEFINE f == Flag(a, x)
           g == Flag(b, y)
           h == Flag(c, z)
           args == <<f, g, h>>
<1>1. f.flag = a /\ f.value = x /\ g.flag = b /\ g.value = y /\ h.flag = c /\ h.value = z
  BY FlagIs
<1> HIDE DEF f, g, h
<1>2. args \in Seq({f, g, h}) /\ DOMAIN args = {1, 2, 3} /\ args[1] = f /\ args[2] = g /\ args[3] = h
  <2>1. 1..3 = {1, 2, 3}
    OBVIOUS
  <2> QED BY <2>1
<1> HIDE DEF args
<1>3. SUFFICES ASSUME a # "", b # "", c # "", a # b, a # c, b # c
               PROVE  /\ args \in Seq({f, g, h})
                      /\ {args[i].flag : i \in Flags(args)} = {a, b, c}
                      /\ Value(args, a) = x /\ Value(args, b) = y /\ Value(args, c) = z
  BY Zenon DEF ThreeGiven, args, f, g, h
<1>4. /\ {args[i].flag : i \in Flags(args)} = {a, b, c}
      /\ Value(args, a) = x /\ Value(args, b) = y /\ Value(args, c) = z
  <2>1. /\ \A i \in DOMAIN args : args[i].flag # ""
        /\ \A i, j \in DOMAIN args : args[i].flag = args[j].flag => i = j
    BY <1>1, <1>2, <1>3
  <2>2. Flags(args) = DOMAIN args /\ \A i \in DOMAIN args : Value(args, args[i].flag) = args[i].value
    BY <1>2, <2>1, FlagsOnly
  <2> QED BY <1>1, <1>2, <2>2
<1> QED BY <1>2, <1>4

(***************************************************************************)
(* An element at the end.                                                  *)
(***************************************************************************)
LEMMA AppendLast ==
  ASSUME NEW U, NEW s \in Seq(U), NEW b \in U
  PROVE  /\ Append(s, b) \in Seq(U) /\ Len(Append(s, b)) = Len(s) + 1
         /\ Append(s, b)[Len(s) + 1] = b
         /\ \A i \in 1..Len(s) : Append(s, b)[i] = s[i]
BY AppendProperties

(***************************************************************************)
(* Appending to one element gives a pair.                                  *)
(***************************************************************************)
LEMMA AppendPair ==
  ASSUME NEW a, NEW b
  PROVE  Append(<<a>>, b) = <<a, b>>
<1> DEFINE U == {a, b}
           s == <<a>>
           t == Append(s, b)
           u == <<a, b>>
<1>1. b \in U /\ s \in Seq(U) /\ Len(s) = 1 /\ s[1] = a
  OBVIOUS
<1>2. u \in Seq(U) /\ Len(u) = 2 /\ u[1] = a /\ u[2] = b
  OBVIOUS
<1> HIDE DEF s, U, u
<1>3. /\ t \in Seq(U) /\ Len(t) = Len(s) + 1 /\ t[Len(s) + 1] = b
      /\ \A i \in 1..Len(s) : t[i] = s[i]
  BY <1>1, AppendLast
<1> HIDE DEF t
<1>4. Len(t) = 2 /\ t[1] = a /\ t[2] = b
  BY <1>1, <1>3
<1>5. \A i \in 1..Len(t) : t[i] = u[i]
  <2>1. \A i \in 1..2 : i = 1 \/ i = 2
    OBVIOUS
  <2> QED BY <1>2, <1>4, <2>1
<1>6. t = u
  BY <1>2, <1>3, <1>4, <1>5, SeqEqual
<1> QED BY <1>6 DEF t, s, u

(***************************************************************************)
(* A key joined to its value is split into the two.                        *)
(***************************************************************************)
LEMMA SplitPair ==
  ASSUME NEW T, NEW separator \in T, NEW l \in Seq(T \ {separator}), NEW v \in Seq(T \ {separator})
  PROVE  /\ l \o <<separator>> \o v # <<>>
         /\ Split(l \o <<separator>> \o v, separator) = <<l, v>>
<1> DEFINE y == <<separator>>
<1>1. /\ l \in Seq(T) /\ v \in Seq(T) /\ y \in Seq(T) /\ Len(y) = 1
      /\ separator \notin ToSet(l) /\ separator \notin ToSet(v)
  <2>1. l \in Seq(T) /\ v \in Seq(T)
    BY SeqMonotonic
  <2>2. \A x \in Seq(T \ {separator}) : separator \notin ToSet(x)
    <3> TAKE x \in Seq(T \ {separator})
    <3>1. \A i \in DOMAIN x : x[i] \in T \ {separator}
      BY ElementOfSeq
    <3> QED BY <3>1 DEF ToSet
  <2> QED BY <2>1, <2>2
<1>2. Split(l, separator) = <<l>>
  BY <1>1, SplitPlain
<1>3. Split(l \o (y \o v), separator) = Append(<<l>>, v)
  <2>1. Split(l \o (y \o v), separator) = Append(Split(l, separator), v)
    BY <1>1, SplitBehind
  <2> QED BY <1>2, <2>1
<1> HIDE DEF y
<1>4. (l \o y) \o v = l \o (y \o v)
  BY <1>1, ConcatAssociative
<1>5. (l \o y) \o v # <<>>
  <2> DEFINE s == l \o y
             t == s \o v
  <2>1. s \in Seq(T) /\ Len(s) = Len(l) + Len(y)
    BY <1>1, ConcatProperties
  <2> HIDE DEF s
  <2>2. t \in Seq(T) /\ Len(t) = Len(s) + Len(v)
    BY <1>1, <2>1, ConcatProperties
  <2>3. Len(l) \in Nat /\ Len(v) \in Nat
    BY <1>1
  <2> HIDE DEF t
  <2>4. Len(t) # 0
    BY <1>1, <2>1, <2>2, <2>3
  <2>5. t # <<>>
    BY <2>4
  <2> QED BY <2>5 DEF t, s
<1>6. Append(<<l>>, v) = <<l, v>>
  BY AppendPair
<1> QED BY <1>3, <1>4, <1>5, <1>6 DEF y

(***************************************************************************)
(* Pairs that give the labels in D their values, in any order.             *)
(***************************************************************************)
Give(pairs, labels, D) ==
  /\ labels = [l \in D |-> labels[l]]
  /\ \A i \in DOMAIN pairs : \E l \in D : pairs[i] = <<l, labels[l]>>
  /\ \A l \in D : \E i \in DOMAIN pairs : pairs[i] = <<l, labels[l]>>

(***************************************************************************)
(* Labels with one of them set by the command.                             *)
(***************************************************************************)
Relabelled(labels, k, own) == [labels EXCEPT ![k] = own]

(***************************************************************************)
(* Of such pairs, with one more behind them, the last one decides: the     *)
(* command's own label replaces the chart's.                               *)
(***************************************************************************)
LEMMA LastOneCounts ==
  ASSUME NEW D, NEW labels, NEW k \in D, NEW own, NEW U, NEW pairs \in Seq(U),
         Give(pairs, labels, D)
  PROVE  LastOfEach(Append(pairs, <<k, own>>)) = Relabelled(labels, k, own)
<1> DEFINE p == <<k, own>>
           V == U \cup {p}
           N == Len(pairs)
           more == Append(pairs, p)
           IsLast(l, i) == more[i][1] = l /\ \A j \in i + 1..Len(more) : more[j][1] # l
           last(l) == CHOOSE i \in DOMAIN more : IsLast(l, i)
           keys == {more[i][1] : i \in DOMAIN more}
<1>g. /\ labels = [l \in D |-> labels[l]]
      /\ \A i \in DOMAIN pairs : \E l \in D : pairs[i] = <<l, labels[l]>>
      /\ \A l \in D : \E i \in DOMAIN pairs : pairs[i] = <<l, labels[l]>>
  BY DEF Give
<1>0. p[1] = k /\ p[2] = own
  OBVIOUS
<1>1. p \in V /\ pairs \in Seq(V)
  BY SeqMonotonic
<1> HIDE DEF V, p
<1>2. /\ more \in Seq(V) /\ Len(more) = N + 1 /\ more[N + 1] = p /\ N \in Nat
      /\ (\A i \in 1..N : more[i] = pairs[i]) /\ DOMAIN more = 1..N + 1 /\ DOMAIN pairs = 1..N
  BY <1>1, AppendProperties, SeqAt
<1>3. LastOfEach(more) = [l \in keys |-> more[last(l)][2]]
  BY DEF LastOfEach
<1> HIDE DEF more, N
<1>4. \A i \in DOMAIN more : i = N + 1 \/ i \in 1..N
  BY <1>2
<1>5. keys = D
  <2>1. ASSUME NEW i \in DOMAIN more PROVE more[i][1] \in D
    <3>1. CASE i = N + 1
      BY <1>0, <1>2, <3>1
    <3>2. CASE i \in 1..N
      <4>1. more[i] = pairs[i]
        BY <1>2, <3>2
      <4>2. PICK l \in D : pairs[i] = <<l, labels[l]>>
        BY <1>2, <1>g, <3>2
      <4> QED BY <4>1, <4>2
    <3> QED BY <1>4, <3>1, <3>2
  <2>2. ASSUME NEW l \in D PROVE \E i \in DOMAIN more : more[i][1] = l
    <3>1. PICK i \in 1..N : pairs[i] = <<l, labels[l]>>
      BY <1>2, <1>g
    <3>2. i \in DOMAIN more /\ more[i] = pairs[i]
      BY <1>2
    <3> QED BY <3>1, <3>2
  <2> QED BY <2>1, <2>2
<1>6. ASSUME NEW l \in D PROVE last(l) \in DOMAIN more /\ IsLast(l, last(l))
  <2> DEFINE S == {i \in DOMAIN more : more[i][1] = l}
  <2>1. S \in SUBSET (1..N + 1) /\ S # {} /\ N + 1 \in Nat
    BY <1>2, <1>5
  <2>2. PICK m \in S : \A i \in S : i <= m
    <3> HIDE DEF S
    <3> QED BY <2>1, MaximumExists
  <2>3. IsLast(l, m) /\ m \in DOMAIN more
    <3>1. m \in 1..N + 1 /\ more[m][1] = l
      BY <2>1
    <3>2. ASSUME NEW j \in m + 1..Len(more), more[j][1] = l PROVE FALSE
      <4>1. j \in 1..N + 1 /\ ~(j <= m)
        BY <1>2, <3>1
      <4>2. j \in S
        BY <1>2, <3>2, <4>1
      <4> QED BY <2>2, <4>1, <4>2
    <3> QED BY <1>2, <3>1, <3>2
  <2> HIDE DEF IsLast
  <2> QED BY <2>3
<1>7. ASSUME NEW l \in D PROVE more[last(l)][2] = IF l = k THEN own ELSE labels[l]
  <2> DEFINE i == last(l)
  <2>1. i \in DOMAIN more /\ more[i][1] = l /\ \A j \in i + 1..Len(more) : more[j][1] # l
    BY <1>6
  <2> HIDE DEF i, last
  <2>2. CASE l = k
    <3>1. ASSUME i # N + 1 PROVE FALSE
      <4>1. i \in 1..N
        BY <1>4, <2>1, <3>1
      <4>2. N + 1 \in i + 1..Len(more)
        BY <1>2, <4>1
      <4> QED BY <1>0, <1>2, <2>1, <2>2, <4>2
    <3> QED BY <1>0, <1>2, <2>2, <3>1 DEF i
  <2>3. CASE l # k
    <3>1. i # N + 1
      BY <1>0, <1>2, <2>1, <2>3
    <3>2. i \in 1..N
      BY <1>4, <2>1, <3>1
    <3>3. PICK m \in D : pairs[i] = <<m, labels[m]>>
      BY <1>2, <1>g, <3>2
    <3>4. more[i] = <<m, labels[m]>>
      BY <1>2, <3>2, <3>3
    <3>5. more[i][1] = m /\ more[i][2] = labels[m]
      BY <3>4
    <3> QED BY <2>1, <2>3, <3>5 DEF i
  <2> QED BY <2>2, <2>3
<1> HIDE DEF last, keys
<1>8. Relabelled(labels, k, own) = [l \in D |-> IF l = k THEN own ELSE labels[l]]
  BY <1>g DEF Relabelled
<1> QED BY <1>3, <1>5, <1>7, <1>8 DEF more, p

(***************************************************************************)
(* One word is a text.                                                     *)
(***************************************************************************)
LEMMA OneWord ==
  ASSUME NEW T, NEW t \in T
  PROVE  <<t>> \in Seq(T)
OBVIOUS

(***************************************************************************)
(* The first of one, and that a pair has a value behind its key.           *)
(***************************************************************************)
LEMMA Tuples ==
  ASSUME NEW a, NEW b
  PROVE  /\ 1 \in DOMAIN <<a>> /\ <<a>>[1] = a
         /\ Len(<<a, b>>) = 2 /\ ~(Len(<<a, b>>) < 2)
OBVIOUS

(***************************************************************************)
(* Texts one behind the other.                                             *)
(***************************************************************************)
LEMMA ThreeTexts ==
  ASSUME NEW T, NEW x \in Seq(T), NEW y \in Seq(T), NEW z \in Seq(T)
  PROVE  x \o y \o z \in Seq(T)
OBVIOUS

(***************************************************************************)
(* The words of names, types and values, with the separators.              *)
(***************************************************************************)
Texts == STRING \cup Types \cup {",", ":", ";", "="}

(***************************************************************************)
(* Plain names and the types do without any one of the separators.         *)
(***************************************************************************)
LEMMA PlainTexts ==
  ASSUME NEW separator \in {",", ":", ";", "="}
  PROVE  /\ \A x \in Plain : x \in Seq(Texts \ {separator}) /\ x \in Seq(Texts)
         /\ \A t \in Types : <<t>> \in Seq(Texts \ {separator}) /\ <<t>> \in Seq(Texts)
<1> DEFINE A == STRING \ {",", ":", ";", "="}
           T == Texts
           B == T \ {separator}
<1>1. A \subseteq B /\ A \subseteq T /\ Types \subseteq B /\ Types \subseteq T
  BY DEF Texts, Types
<1>2. Plain = Seq(A)
  BY DEF Plain
<1> HIDE DEF A, B, T
<1>3. \A x \in Plain : x \in Seq(B) /\ x \in Seq(T)
  BY <1>1, <1>2, SeqMonotonic
<1>4. \A t \in Types : <<t>> \in Seq(B) /\ <<t>> \in Seq(T)
  BY <1>1, OneWord
<1> QED BY <1>3, <1>4 DEF B, T

(***************************************************************************)
(* A label and its value on the command line.                              *)
(***************************************************************************)
LabelText(labels, l) == l \o <<"=">> \o labels[l]

(***************************************************************************)
(* The labels of the chart on the command line, when the image has a tag:  *)
(* that of the version is the last.                                        *)
(***************************************************************************)
LabelsText(labels) ==
  Join(Append(SetToSeq({LabelText(labels, l) : l \in DOMAIN labels \ {Version}}),
              LabelText(labels, Version)), ",")

(***************************************************************************)
(* With a tag the chart renders every label with its value.                *)
(***************************************************************************)
LEMMA LabelsWithTag ==
  ASSUME NEW labels, labels[Version] # <<>>
  PROVE  LabelsArgument(labels) = LabelsText(labels)
BY Zenon DEF LabelsArgument, LabelsText, LabelText

(***************************************************************************)
(* A sequence with one element more behind it.                             *)
(***************************************************************************)
LEMMA OneBehind ==
  ASSUME NEW T, NEW s \in Seq(T), NEW x \in T
  PROVE  /\ Append(s, x) \in Seq(T) /\ Append(s, x) # <<>>
         /\ ToSet(Append(s, x)) = ToSet(s) \cup {x}
<1> DEFINE n == Len(s)
           t == Append(s, x)
<1>1. /\ t \in Seq(T) /\ Len(t) = n + 1 /\ t[n + 1] = x /\ n \in Nat
      /\ \A i \in 1..n : t[i] = s[i]
  BY AppendLast, SeqAt
<1>2. DOMAIN t = 1..n + 1 /\ DOMAIN s = 1..n
  BY <1>1, SeqAt
<1> HIDE DEF t, n
<1>3. 1..n + 1 = (1..n) \cup {n + 1}
  BY <1>1
<1>4. ToSet(t) = ToSet(s) \cup {x}
  BY <1>1, <1>2, <1>3 DEF ToSet
<1>5. t # <<>>
  BY AppendProperties DEF t
<1> QED BY <1>1, <1>4, <1>5 DEF t

(***************************************************************************)
(* With a version among them the labels of the chart are parsed into       *)
(* themselves, except that the command names itself as what manages the    *)
(* object.                                                                 *)
(***************************************************************************)
LEMMA LabelsParse ==
  ASSUME NEW labels, ArePlain(labels), NEW args, NEW own,
         Value(args, "labels") = LabelsText(labels)
  PROVE  ~LabelsPanic(args) /\ Labels(args, own) = [labels EXCEPT ![<<"managed-by">>] = own]
<1> DEFINE D == DOMAIN labels
           Entry(l) == LabelText(labels, l)
           E == {Entry(l) : l \in D}
           others == {Entry(l) : l \in D \ {Version}}
           ls == Append(SetToSeq(others), Entry(Version))
           P == Seq(Texts \ {","})
           k == <<"managed-by">>
           pairs == [i \in DOMAIN ls |-> Split(ls[i], "=")]
<1>1. IsFiniteSet(D) /\ D \subseteq Plain /\ labels \in [D -> Plain]
      /\ k \in D /\ Version \in D
  BY DEF ArePlain
<1> HIDE DEF D, k
<1>2. \A l \in D : Entry(l) \in P /\ Entry(l) # <<>> /\ Split(Entry(l), "=") = <<l, labels[l]>>
  <2> TAKE l \in D
  <2>1. l \in Plain /\ labels[l] \in Plain
    BY <1>1
  <2>2. l \in P /\ labels[l] \in P /\ l \in Seq(Texts \ {"="}) /\ labels[l] \in Seq(Texts \ {"="})
    BY <2>1, PlainTexts
  <2>3. "=" \in Texts /\ "=" \in Texts \ {","}
    BY DEF Texts
  <2>4. <<"=">> \in P
    BY <2>3, OneWord
  <2>5. Entry(l) \in P
    BY <2>2, <2>4, ThreeTexts DEF LabelText
  <2> DEFINE v == labels[l]
  <2>6. Entry(l) # <<>> /\ Split(Entry(l), "=") = <<l, v>>
    <3> HIDE DEF v
    <3> QED BY <2>2, <2>3, SplitPair DEF v, LabelText
  <2> QED BY <2>5, <2>6
<1> HIDE DEF Entry
<1>3. IsFiniteSet(others)
  <2> DEFINE C == D \ {Version}
             f == [l \in C |-> Entry(l)]
  <2>1. IsFiniteSet(C)
    BY <1>1, FS_Subset
  <2>2. f \in Surjection(C, others)
    BY DEF Surjection
  <2> HIDE DEF f, others, C
  <2> QED BY <2>1, <2>2, FS_Surjection
<1>4. ls \in Seq(E) /\ ToSet(ls) = E /\ ls # <<>>
  <2>1. others \subseteq E /\ Entry(Version) \in E /\ E = others \cup {Entry(Version)}
    BY <1>1
  <2> HIDE DEF E, others
  <2>2. SetToSeq(others) \in Seq(others) /\ ToSet(SetToSeq(others)) = others
    BY <1>3, SetToSeqIs
  <2>3. SetToSeq(others) \in Seq(E)
    BY <2>1, <2>2, SeqMonotonic
  <2> QED BY <2>1, <2>2, <2>3, OneBehind
<1>5. ls \in Seq(P) /\ E \subseteq P
  <2>1. E \subseteq P
    BY <1>2
  <2> HIDE DEF E, P, ls
  <2> QED BY <1>4, <2>1, SeqMonotonic
<1>6. Value(args, "labels") = Join(ls, ",")
  BY DEF Entry, D, LabelsText
<1> HIDE DEF ls, E, others
<1>7. Split(Join(ls, ","), ",") = ls
  <2>1. "," \in Texts
    BY DEF Texts
  <2>2. ls \in Seq(Seq(Texts \ {","})) /\ ls # <<>>
    BY <1>4, <1>5
  <2> QED BY <2>1, <2>2, SplitJoin
<1>8. \A i \in DOMAIN ls : ls[i] \in E
  BY <1>4, SeqAt
<1>9. Join(ls, ",") # <<>>
  <2> SUFFICES ASSUME Join(ls, ",") = <<>> PROVE FALSE
    OBVIOUS
  <2>1. ls = << <<>> >>
    BY <1>7, SplitEmpty
  <2>2. 1 \in DOMAIN ls /\ ls[1] = <<>>
    BY <2>1, Tuples
  <2>3. PICK l \in D : <<>> = Entry(l)
    BY <1>8, <2>2 DEF E
  <2> QED BY <1>2, <2>3
<1>10. Labelled(args) = ls
  BY <1>6, <1>7, <1>9 DEF Labelled
<1> HIDE DEF P
<1>11. \A i \in DOMAIN ls : \E l \in D : ls[i] = Entry(l) /\ Split(ls[i], "=") = <<l, labels[l]>>
  BY <1>2, <1>8 DEF E
<1>12. \A l \in D : \E i \in DOMAIN ls : Split(ls[i], "=") = <<l, labels[l]>>
  <2> TAKE l \in D
  <2>1. Entry(l) \in ToSet(ls)
    BY <1>4 DEF E
  <2>2. PICK i \in DOMAIN ls : ls[i] = Entry(l)
    BY <2>1 DEF ToSet
  <2> QED BY <1>2, <2>2
<1>13. ~LabelsPanic(args)
  <2>1. ASSUME NEW i \in DOMAIN ls PROVE ~(Len(Split(ls[i], "=")) < 2)
    <3>1. PICK l \in D : Split(ls[i], "=") = <<l, labels[l]>>
      BY <1>11
    <3> DEFINE v == labels[l]
    <3>2. ~(Len(<<l, v>>) < 2)
      BY Tuples
    <3> QED BY <3>1, <3>2
  <2> QED BY <1>10, <2>1 DEF LabelsPanic
<1>14. Labels(args, own) = LastOfEach(Append(pairs, <<k, own>>))
  BY <1>10 DEF Labels, k
<1>15. LastOfEach(Append(pairs, <<k, own>>)) = [labels EXCEPT ![k] = own]
  <2> DEFINE U == {Split(ls[i], "=") : i \in DOMAIN ls}
  <2>1. pairs \in Seq(U) /\ DOMAIN pairs = DOMAIN ls
    <3>1. pairs \in [DOMAIN ls -> U]
      OBVIOUS
    <3> HIDE DEF U, pairs
    <3> QED BY <1>4, <3>1, SameLength
  <2>2. /\ \A i \in DOMAIN pairs : \E l \in D : pairs[i] = <<l, labels[l]>>
        /\ \A l \in D : \E i \in DOMAIN pairs : pairs[i] = <<l, labels[l]>>
    BY <1>11, <1>12
  <2>3. labels = [l \in D |-> labels[l]]
    BY <1>1
  <2>4. Give(pairs, labels, D)
    BY <2>2, <2>3 DEF Give
  <2> HIDE DEF pairs, U
  <2>5. LastOfEach(Append(pairs, <<k, own>>)) = Relabelled(labels, k, own)
    BY <1>1, <2>1, <2>4, LastOneCounts
  <2> QED BY <2>5 DEF Relabelled
<1> QED BY <1>13, <1>14, <1>15 DEF k

(***************************************************************************)
(* The words that may stand in a field of an entry.                        *)
(***************************************************************************)
Bare == Texts \ {",", ":"}

(***************************************************************************)
(* A list of entries, each with its fields, on the command line.           *)
(***************************************************************************)
FieldsText(fields) == Join([i \in DOMAIN fields |-> Join(fields[i], ":")], ",")

(***************************************************************************)
(* A sequence that is not empty has a first element.                       *)
(***************************************************************************)
LEMMA HasFirst ==
  ASSUME NEW T, NEW s \in Seq(T), s # <<>>
  PROVE  1 \in DOMAIN s
OBVIOUS

(***************************************************************************)
(* A list is parsed into the entries and the fields it was joined from.    *)
(***************************************************************************)
LEMMA EntriesParse ==
  ASSUME NEW args, NEW name, NEW fields \in Seq(Seq(Seq(Bare)) \ {<<>>}), fields # <<>>,
         Value(args, name) = FieldsText(fields)
  PROVE  Entries(args, name) = fields
<1> DEFINE D == DOMAIN fields
           rows == [i \in D |-> Join(fields[i], ":")]
           P == Seq(Texts \ {","})
           V == Seq(Seq(Bare)) \ {<<>>}
<1>1. \A x \in Seq(Seq(Bare)) : x \in Seq(P) /\ x \in Seq(Seq(Texts \ {":"}))
  <2>1. Bare \subseteq Texts \ {","} /\ Bare \subseteq Texts \ {":"}
    BY DEF Bare
  <2> DEFINE A == Texts \ {","}
             B == Texts \ {":"}
  <2> HIDE DEF A, B
  <2>2. Seq(Bare) \subseteq Seq(A) /\ Seq(Bare) \subseteq Seq(B)
    BY <2>1, SeqMonotonic DEF A, B
  <2>3. \A x \in Seq(Seq(Bare)) : x \in Seq(Seq(A)) /\ x \in Seq(Seq(B))
    BY <2>2, SeqMonotonic
  <2> QED BY <2>3 DEF A, B
<1>2. \A i \in D : fields[i] \in Seq(Seq(Bare)) /\ fields[i] # <<>>
  BY ElementOfSeq
<1>3. \A i \in D : Join(fields[i], ":") \in P
  <2> TAKE i \in D
  <2>1. ":" \in Texts \ {","}
    BY DEF Texts
  <2>2. fields[i] \in Seq(P)
    BY <1>1, <1>2
  <2> QED BY <2>1, <2>2, JoinType
<1>4. \A i \in D : Split(Join(fields[i], ":"), ":") = fields[i]
  <2> TAKE i \in D
  <2>1. ":" \in Texts
    BY DEF Texts
  <2>2. fields[i] \in Seq(Seq(Texts \ {":"})) /\ fields[i] # <<>>
    BY <1>1, <1>2
  <2> QED BY <2>1, <2>2, SplitJoin
<1>5. rows \in Seq(P) /\ DOMAIN rows = D /\ rows # <<>>
  <2>1. rows \in [D -> P]
    <3> HIDE DEF P, D
    <3> QED BY <1>3
  <2> HIDE DEF P
  <2>2. rows \in Seq(P) /\ DOMAIN rows = D
    <3> HIDE DEF rows
    <3> QED BY <2>1, SameLength
  <2>3. 1 \in D
    <3> HIDE DEF V
    <3> QED BY HasFirst
  <2> HIDE DEF rows, D
  <2> QED BY <2>2, <2>3
<1>6. Split(Value(args, name), ",") = rows
  <2>1. "," \in Texts
    BY DEF Texts
  <2>2. Value(args, name) = Join(rows, ",")
    BY DEF FieldsText
  <2> HIDE DEF rows
  <2>3. rows \in Seq(Seq(Texts \ {","})) /\ rows # <<>>
    BY <1>5
  <2> QED BY <2>1, <2>2, <2>3, SplitJoin
<1>7. Entries(args, name) = [i \in D |-> Split(rows[i], ":")]
  <2> HIDE DEF rows
  <2> QED BY <1>5, <1>6 DEF Entries
<1>8. [i \in D |-> Split(rows[i], ":")] = [i \in D |-> fields[i]]
  BY <1>4
<1>9. fields = [i \in D |-> fields[i]]
  OBVIOUS
<1> QED BY <1>7, <1>8, <1>9

(***************************************************************************)
(* The fields of an entry are texts without the separators around them.    *)
(***************************************************************************)
LEMMA BareTexts ==
  /\ \A x \in Plain : x \in Seq(Bare) /\ x \in Seq(Texts \ {";"})
  /\ \A t \in Types : <<t>> \in Seq(Bare)
  /\ ";" \in Bare /\ ";" \in Texts
<1> DEFINE A == STRING \ {",", ":", ";", "="}
           B == Bare
           C == Texts \ {";"}
<1>1. A \subseteq B /\ A \subseteq C /\ Types \subseteq B /\ ";" \in B /\ ";" \in Texts
  BY DEF Texts, Types, Bare
<1>2. Plain = Seq(A)
  BY DEF Plain
<1> HIDE DEF A, B, C
<1>3. \A x \in Plain : x \in Seq(B) /\ x \in Seq(C)
  BY <1>1, <1>2, SeqMonotonic
<1>4. \A t \in Types : <<t>> \in Seq(B)
  BY <1>1, OneWord
<1> QED BY <1>1, <1>3, <1>4 DEF B, C

(***************************************************************************)
(* Three and four fields make an entry.                                    *)
(***************************************************************************)
LEMMA FieldsOf ==
  ASSUME NEW T, NEW a \in T, NEW b \in T, NEW c \in T, NEW d \in T
  PROVE  /\ <<a, b, c>> \in Seq(T) \ {<<>>} /\ ~(Len(<<a, b, c>>) < 3)
         /\ <<a, b, c>>[1] = a /\ <<a, b, c>>[2] = b /\ <<a, b, c>>[3] = c
         /\ <<a, b, c, d>> \in Seq(T) \ {<<>>} /\ ~(Len(<<a, b, c, d>>) < 4)
         /\ <<a, b, c, d>>[1] = a /\ <<a, b, c, d>>[2] = b /\ <<a, b, c, d>>[3] = c
         /\ <<a, b, c, d>>[4] = d
OBVIOUS

(***************************************************************************)
(* The fields of the entries in a list of secrets.                         *)
(***************************************************************************)
SecretFields(o) ==
  [i \in DOMAIN o.secrets |-> <<o.secrets[i].name, o.secrets[i].key, o.secrets[i].type>>]

(***************************************************************************)
(* What was asked for, with the label by which the command knows its own.  *)
(***************************************************************************)
Own(o, label) == [o EXCEPT !.labels[<<"managed-by">>] = label]

(***************************************************************************)
(* generate-secrets gets the secrets and the labels the chart asked for.   *)
(***************************************************************************)
LEMMA SecretsParse ==
  ASSUME NEW o, IsSecretsRequest(o), NEW args,
         Value(args, "secrets") = FieldsText(SecretFields(o)),
         Value(args, "labels") = LabelsText(o.labels)
  PROVE  ParseGenerateSecrets(args) = Options(Own(o, <<"matrix-tools-init-secrets">>))
<1> DEFINE s == o.secrets
           Typed == {<<t>> : t \in Types}
           Secret == [name : Plain, key : Plain, type : Typed]
           D == DOMAIN s
           e == SecretFields(o)
           label == <<"matrix-tools-init-secrets">>
           own == [o.labels EXCEPT ![<<"managed-by">>] = label]
           V == Seq(Seq(Bare)) \ {<<>>}
<1>1. /\ o = [command |-> "generate_secrets", secrets |-> s, labels |-> o.labels]
      /\ s \in Seq(Secret) /\ s # <<>> /\ ArePlain(o.labels)
  BY DEF IsSecretsRequest
<1>2. ASSUME NEW i \in D
      PROVE  /\ s[i] = [name |-> s[i].name, key |-> s[i].key, type |-> s[i].type]
             /\ e[i] \in V /\ ~(Len(e[i]) < 3) /\ s[i].type \in Typed
             /\ e[i][1] = s[i].name /\ e[i][2] = s[i].key /\ e[i][3] = s[i].type
  <2>1. s[i] \in Secret
    <3> HIDE DEF Secret, s
    <3> QED BY <1>1, ElementOfSeq
  <2> DEFINE r == s[i]
             a == r.name
             b == r.key
             c == r.type
  <2>2. r = [name |-> a, key |-> b, type |-> c] /\ a \in Plain /\ b \in Plain /\ c \in Typed
    <3> HIDE DEF Typed
    <3> QED BY <2>1
  <2>3. e[i] = <<a, b, c>>
    BY DEF SecretFields
  <2> HIDE DEF a, b, c, s, e
  <2>4. a \in Seq(Bare) /\ b \in Seq(Bare) /\ c \in Seq(Bare)
    BY <2>2, BareTexts
  <2>5. /\ <<a, b, c>> \in V /\ ~(Len(<<a, b, c>>) < 3)
        /\ <<a, b, c>>[1] = a /\ <<a, b, c>>[2] = b /\ <<a, b, c>>[3] = c
    BY <2>4, FieldsOf
  <2> QED BY <2>2, <2>3, <2>5 DEF a, b, c
<1>3. e \in Seq(V) /\ DOMAIN e = D /\ e # <<>>
  <2>1. e \in [D -> V]
    <3>1. e = [i \in D |-> e[i]]
      BY DEF SecretFields
    <3> HIDE DEF e, V, D
    <3> QED BY <1>2, <3>1
  <2> HIDE DEF Secret, V, e, s
  <2>2. e \in Seq(V) /\ DOMAIN e = D
    BY <1>1, <2>1, SameLength
  <2>3. 1 \in D
    BY <1>1, HasFirst
  <2> QED BY <2>2, <2>3
<1>4. Entries(args, "secrets") = e
  <2>1. Value(args, "secrets") = FieldsText(e)
    OBVIOUS
  <2> HIDE DEF e, V
  <2>2. e \in Seq(Seq(Seq(Bare)) \ {<<>>}) /\ e # <<>>
    BY <1>3 DEF V
  <2> QED BY <2>1, <2>2, EntriesParse
<1>5. ~LabelsPanic(args) /\ Labels(args, label) = own
  BY <1>1, LabelsParse
<1> DEFINE secrets == [i \in D |-> [name |-> e[i][1], key |-> e[i][2], type |-> e[i][3]]]
           parsedOptions == [command |-> "generate_secrets", secrets |-> secrets, labels |-> own]
<1>6. secrets = s
  <2>1. s = [i \in D |-> s[i]]
    <3> HIDE DEF Secret, s
    <3> QED BY <1>1
  <2> HIDE DEF s, e
  <2>2. \A i \in D : [name |-> e[i][1], key |-> e[i][2], type |-> e[i][3]] = s[i]
    BY <1>2
  <2> QED BY <2>1, <2>2
<1>7. ParseGenerateSecrets(args) = Options(parsedOptions)
  <2>1. ~\E i \in D : Len(e[i]) < 3 \/ e[i][3] \notin Typed
    <3> HIDE DEF D, e, s, Typed
    <3>1. ASSUME NEW i \in D PROVE ~(Len(e[i]) < 3) /\ e[i][3] \in Typed
      BY <1>2
    <3> QED BY <3>1
  <2> HIDE DEF e, D, own, s
  <2> QED BY <1>3, <1>4, <1>5, <2>1 DEF ParseGenerateSecrets
<1>8. parsedOptions = Own(o, label)
  <2> HIDE DEF secrets, s, e
  <2>1. Own(o, label) = [o EXCEPT !.labels = own]
    BY DEF Own
  <2> HIDE DEF own
  <2> QED BY <1>1, <1>6, <2>1
<1> QED BY <1>7, <1>8

(***************************************************************************)
(* The fields of the entries in a list of markers.                         *)
(***************************************************************************)
MarkerFields(o) ==
  [i \in DOMAIN o.markers |->
     <<o.markers[i].name, o.markers[i].key, o.markers[i].newValue,
       Join(SetToSeq(o.markers[i].allowed), ";")>>]

(***************************************************************************)
(* The values a marker may have come out of their field as the same set.   *)
(***************************************************************************)
LEMMA AllowedParse ==
  ASSUME NEW allowed \in SUBSET Plain, IsFiniteSet(allowed), allowed # {}
  PROVE  /\ Join(SetToSeq(allowed), ";") \in Seq(Bare)
         /\ ToSet(Split(Join(SetToSeq(allowed), ";"), ";")) = allowed
<1> DEFINE s == SetToSeq(allowed)
           C == Texts \ {";"}
<1>1. s \in Seq(allowed) /\ ToSet(s) = allowed /\ s # <<>>
  BY SetToSeqIs
<1> HIDE DEF s
<1>2. s \in Seq(Seq(Bare)) /\ s \in Seq(Seq(C))
  <2>1. allowed \subseteq Seq(Bare) /\ allowed \subseteq Seq(C)
    BY BareTexts
  <2> HIDE DEF C
  <2> QED BY <1>1, <2>1, SeqMonotonic
<1>3. Join(s, ";") \in Seq(Bare)
  <2>1. ";" \in Bare
    BY BareTexts
  <2> QED BY <1>2, <2>1, JoinType
<1>4. Split(Join(s, ";"), ";") = s
  <2>1. ";" \in Texts
    BY BareTexts
  <2> QED BY <1>1, <1>2, <2>1, SplitJoin
<1> QED BY <1>1, <1>3, <1>4 DEF s

(***************************************************************************)
(* deployment-markers gets the markers and the labels the chart asked for. *)
(***************************************************************************)
LEMMA MarkersParse ==
  ASSUME NEW o, IsMarkersRequest(o), NEW args,
         Value(args, "step") = o.markers[1].step,
         Value(args, "markers") = FieldsText(MarkerFields(o)),
         Value(args, "labels") = LabelsText(o.labels)
  PROVE  ParseDeploymentMarkers(args) = Options(Own(o, <<"matrix-tools-deployment-markers">>))
<1> DEFINE s == o.markers
           Marker == [name : Plain, key : Plain, newValue : Plain, step : Plain,
                      allowed : SUBSET Plain]
           D == DOMAIN s
           e == MarkerFields(o)
           label == <<"matrix-tools-deployment-markers">>
           own == [o.labels EXCEPT ![<<"managed-by">>] = label]
           V == Seq(Seq(Bare)) \ {<<>>}
           Allowed(text) == ToSet(Split(text, ";"))
<1>1. /\ o = [command |-> "deployment_markers", markers |-> s, labels |-> o.labels]
      /\ s \in Seq(Marker) /\ s # <<>> /\ ArePlain(o.labels)
      /\ \A i \in D : /\ IsFiniteSet(s[i].allowed) /\ s[i].allowed # {}
                      /\ s[i].step = s[1].step
  BY DEF IsMarkersRequest
<1> HIDE DEF Allowed
<1>2. ASSUME NEW i \in D
      PROVE  /\ s[i] = [name |-> s[i].name, key |-> s[i].key, newValue |-> s[i].newValue,
                        step |-> Value(args, "step"), allowed |-> s[i].allowed]
             /\ e[i] \in V /\ ~(Len(e[i]) < 4)
             /\ e[i][1] = s[i].name /\ e[i][2] = s[i].key /\ e[i][3] = s[i].newValue
             /\ Allowed(e[i][4]) = s[i].allowed
  <2>1. s[i] \in Marker
    <3> HIDE DEF Marker, s
    <3> QED BY <1>1, ElementOfSeq
  <2> DEFINE r == s[i]
             a == r.name
             b == r.key
             c == r.newValue
             g == r.allowed
             d == Join(SetToSeq(g), ";")
  <2>2. /\ r = [name |-> a, key |-> b, newValue |-> c, step |-> r.step, allowed |-> g]
        /\ a \in Plain /\ b \in Plain /\ c \in Plain /\ g \in SUBSET Plain
    BY <2>1
  <2>3. e[i] = <<a, b, c, d>>
    BY DEF MarkerFields
  <2>4. r.step = Value(args, "step") /\ IsFiniteSet(g) /\ g # {}
    BY <1>1
  <2> HIDE DEF s, e, g
  <2>5. d \in Seq(Bare) /\ Allowed(d) = g
    BY <2>2, <2>4, AllowedParse DEF Allowed
  <2> HIDE DEF a, b, c, d
  <2>6. a \in Seq(Bare) /\ b \in Seq(Bare) /\ c \in Seq(Bare)
    BY <2>2, BareTexts
  <2>7. /\ <<a, b, c, d>> \in V /\ ~(Len(<<a, b, c, d>>) < 4)
        /\ <<a, b, c, d>>[1] = a /\ <<a, b, c, d>>[2] = b /\ <<a, b, c, d>>[3] = c
        /\ <<a, b, c, d>>[4] = d
    BY <2>5, <2>6, FieldsOf
  <2> QED BY <2>2, <2>3, <2>4, <2>5, <2>7 DEF a, b, c, g
<1>3. e \in Seq(V) /\ DOMAIN e = D /\ e # <<>>
  <2>1. e \in [D -> V]
    <3>1. e = [i \in D |-> e[i]]
      BY DEF MarkerFields
    <3> HIDE DEF e, V, D
    <3> QED BY <1>2, <3>1
  <2> HIDE DEF Marker, V, e, s
  <2>2. e \in Seq(V) /\ DOMAIN e = D
    BY <1>1, <2>1, SameLength
  <2>3. 1 \in D
    BY <1>1, HasFirst
  <2> QED BY <2>2, <2>3
<1>4. Entries(args, "markers") = e
  <2>1. Value(args, "markers") = FieldsText(e)
    OBVIOUS
  <2> HIDE DEF e, V
  <2>2. e \in Seq(Seq(Seq(Bare)) \ {<<>>}) /\ e # <<>>
    BY <1>3 DEF V
  <2> QED BY <2>1, <2>2, EntriesParse
<1>5. ~LabelsPanic(args) /\ Labels(args, label) = own
  BY <1>1, LabelsParse
<1> DEFINE markers == [i \in D |-> [name |-> e[i][1], key |-> e[i][2], newValue |-> e[i][3],
                                    step |-> Value(args, "step"), allowed |-> Allowed(e[i][4])]]
           parsedOptions == [command |-> "deployment_markers", markers |-> markers, labels |-> own]
<1>6. markers = s
  <2>1. s = [i \in D |-> s[i]]
    <3> HIDE DEF Marker, s
    <3> QED BY <1>1
  <2> HIDE DEF s, e
  <2>2. \A i \in D : [name |-> e[i][1], key |-> e[i][2], newValue |-> e[i][3],
                      step |-> Value(args, "step"), allowed |-> Allowed(e[i][4])] = s[i]
    BY <1>2
  <2> QED BY <2>1, <2>2
<1>7. ParseDeploymentMarkers(args) = Options(parsedOptions)
  <2>1. {i \in D : Len(e[i]) < 4} = {}
    <3> HIDE DEF D, e, s
    <3>1. ASSUME NEW i \in D PROVE ~(Len(e[i]) < 4)
      BY <1>2
    <3> QED BY <3>1
  <2>2. markers = [i \in D |-> [name |-> e[i][1], key |-> e[i][2], newValue |-> e[i][3],
                                step |-> Value(args, "step"),
                                allowed |-> ToSet(Split(e[i][4], ";"))]]
    BY DEF Allowed
  <2> HIDE DEF e, D, own, s, markers
  <2> QED BY <1>3, <1>4, <1>5, <2>1, <2>2 DEF ParseDeploymentMarkers
<1>8. parsedOptions = Own(o, label)
  <2> HIDE DEF markers, s, e
  <2>1. Own(o, label) = [o EXCEPT !.labels = own]
    BY DEF Own
  <2> HIDE DEF own
  <2> QED BY <1>1, <1>6, <2>1
<1> QED BY <1>7, <1>8

(***************************************************************************)
(* What follows the command in a command line of the chart.                *)
(***************************************************************************)
LEMMA CommandLineIs ==
  ASSUME NEW o
  PROVE  /\ o.command = "tcpwait" =>
              CommandLine(o) = <<Word("tcpwait")>> \o <<Flag("address", o.address)>>
         /\ o.command = "syn2mas" =>
              CommandLine(o) = <<Word("syn2mas")>> \o
                <<Flag("config", o.masConfig), Flag("synapse-config", o.synapseConfig)>>
         /\ o.command = "generate_secrets" /\ HasTag(o) =>
              CommandLine(o) = <<Word("generate_secrets")>> \o
                <<Flag("secrets", Join([i \in DOMAIN o.secrets |->
                    Join(<<o.secrets[i].name, o.secrets[i].key, o.secrets[i].type>>, ":")], ",")),
                  Flag("labels", LabelsText(o.labels))>>
         /\ o.command = "deployment_markers" /\ HasTag(o) =>
              CommandLine(o) = <<Word("deployment_markers")>> \o
                <<Flag("step", o.markers[1].step),
                  Flag("markers", Join([i \in DOMAIN o.markers |->
                    Join(<<o.markers[i].name, o.markers[i].key, o.markers[i].newValue,
                           Join(SetToSeq(o.markers[i].allowed), ";")>>, ":")], ",")),
                  Flag("labels", LabelsText(o.labels))>>
<1>1. o.command \in {"generate_secrets", "deployment_markers"} /\ HasTag(o) =>
        LabelsArgument(o.labels) = LabelsText(o.labels)
  <2>1. {"generate_secrets", "deployment_markers"} = DOMAIN OwnLabel
    BY DEF OwnLabel
  <2> QED BY <2>1, LabelsWithTag DEF HasTag
<1> QED BY <1>1 DEF CommandLine

(***************************************************************************)
(* tcpwait waits for the address asked for.                                *)
(***************************************************************************)
LEMMA TcpWaitRuns ==
  ASSUME NEW o \in Requests, o.command = "tcpwait", IsOtherRequest(o), CommandLine(o) = argv
  PROVE  ParseArgs = Options(o)
<1> DEFINE f == Flag("address", o.address)
           args == <<f>>
<1>1. argv = <<Word("tcpwait")>> \o args
  BY CommandLineIs
<1>2. /\ args \in Seq({f}) /\ {args[i].flag : i \in Flags(args)} = {"address"}
      /\ Value(args, "address") = o.address
  <2>1. OneGiven(args, "address", o.address)
    BY OneFlag
  <2> QED BY <2>1 DEF OneGiven
<1> HIDE DEF f, args
<1>3. argv # <<>> /\ Command = "tcpwait" /\ Arguments = args
  BY <1>1, <1>2, CommandOf
<1>4. ParseArgs = ParseTcpWait(args)
  <2>1. \A i \in Flags(args) : args[i].flag \in {"address"}
    BY <1>2
  <2>2. "tcpwait" \in DOMAIN KnownFlags /\ KnownFlags["tcpwait"] = {"address"}
    BY DEF KnownFlags
  <2> QED BY <1>3, <2>1, <2>2, ParserOf
<1>5. o = [command |-> "tcpwait", address |-> o.address]
  BY DEF IsOtherRequest
<1> QED BY <1>2, <1>4, <1>5 DEF ParseTcpWait

(***************************************************************************)
(* syn2mas runs with the two configurations asked for.                     *)
(***************************************************************************)
LEMMA Syn2MasRuns ==
  ASSUME NEW o \in Requests, o.command = "syn2mas", IsOtherRequest(o), CommandLine(o) = argv
  PROVE  ParseArgs = Options(o)
<1> DEFINE f == Flag("config", o.masConfig)
           g == Flag("synapse-config", o.synapseConfig)
           args == <<f, g>>
<1>1. argv = <<Word("syn2mas")>> \o args
  BY CommandLineIs
<1>2. /\ args \in Seq({f, g}) /\ {args[i].flag : i \in Flags(args)} = {"config", "synapse-config"}
      /\ Value(args, "config") = o.masConfig /\ Value(args, "synapse-config") = o.synapseConfig
  <2>1. TwoGiven(args, "config", o.masConfig, "synapse-config", o.synapseConfig)
    BY TwoFlags
  <2> QED BY <2>1 DEF TwoGiven
<1> HIDE DEF f, g, args
<1>3. argv # <<>> /\ Command = "syn2mas" /\ Arguments = args
  BY <1>1, <1>2, CommandOf
<1>4. ParseArgs = ParseSyn2Mas(args)
  <2>1. \A i \in Flags(args) : args[i].flag \in {"config", "synapse-config"}
    BY <1>2
  <2>2. "syn2mas" \in DOMAIN KnownFlags /\ KnownFlags["syn2mas"] = {"config", "synapse-config"}
    BY DEF KnownFlags
  <2> QED BY <1>3, <2>1, <2>2, ParserOf
<1>5. /\ o = [command |-> "syn2mas", masConfig |-> o.masConfig, synapseConfig |-> o.synapseConfig]
      /\ o.masConfig # <<>> /\ o.synapseConfig # <<>>
  BY DEF IsOtherRequest
<1>6. ~\E f1 \in KnownFlags["syn2mas"] : Value(args, f1) = <<>>
  <2>1. KnownFlags["syn2mas"] = {"config", "synapse-config"}
    BY DEF KnownFlags
  <2> QED BY <1>2, <1>5, <2>1
<1> QED BY <1>2, <1>4, <1>5, <1>6 DEF ParseSyn2Mas

(***************************************************************************)
(* generate-secrets runs with the secrets and labels asked for.            *)
(***************************************************************************)
LEMMA SecretsRun ==
  ASSUME NEW o \in Requests, IsSecretsRequest(o), HasTag(o), CommandLine(o) = argv
  PROVE  ParseArgs = Options(Own(o, <<"matrix-tools-init-secrets">>))
<1> DEFINE list == FieldsText(SecretFields(o))
           labels == LabelsText(o.labels)
           f == Flag("secrets", list)
           g == Flag("labels", labels)
           args == <<f, g>>
<1>0. o.command = "generate_secrets"
  BY DEF IsSecretsRequest
<1>1. argv = <<Word("generate_secrets")>> \o args
  <2>1. list = Join([i \in DOMAIN o.secrets |->
                 Join(<<o.secrets[i].name, o.secrets[i].key, o.secrets[i].type>>, ":")], ",")
    BY Zenon DEF FieldsText, SecretFields
  <2> QED BY <1>0, <2>1, CommandLineIs, Zenon
<1> HIDE DEF list, labels
<1>2. /\ args \in Seq({f, g}) /\ {args[i].flag : i \in Flags(args)} = {"secrets", "labels"}
      /\ Value(args, "secrets") = list /\ Value(args, "labels") = labels
  <2>1. TwoGiven(args, "secrets", list, "labels", labels)
    BY TwoFlags
  <2> QED BY <2>1 DEF TwoGiven
<1> HIDE DEF f, g, args
<1>3. argv # <<>> /\ Command = "generate_secrets" /\ Arguments = args
  BY <1>1, <1>2, CommandOf
<1>4. ParseArgs = ParseGenerateSecrets(args)
  <2>1. \A i \in Flags(args) : args[i].flag \in {"secrets", "labels"}
    BY <1>2
  <2>2. /\ "generate_secrets" \in DOMAIN KnownFlags
        /\ KnownFlags["generate_secrets"] = {"secrets", "labels"}
    BY DEF KnownFlags
  <2> QED BY <1>3, <2>1, <2>2, ParserOf
<1> QED BY <1>2, <1>4, SecretsParse DEF list, labels

(***************************************************************************)
(* deployment-markers runs with the markers and labels asked for.          *)
(***************************************************************************)
LEMMA MarkersRun ==
  ASSUME NEW o \in Requests, IsMarkersRequest(o), HasTag(o), CommandLine(o) = argv
  PROVE  ParseArgs = Options(Own(o, <<"matrix-tools-deployment-markers">>))
<1> DEFINE list == FieldsText(MarkerFields(o))
           labels == LabelsText(o.labels)
           step == o.markers[1].step
           f == Flag("step", step)
           g == Flag("markers", list)
           h == Flag("labels", labels)
           args == <<f, g, h>>
<1>0. o.command = "deployment_markers"
  BY DEF IsMarkersRequest
<1>1. argv = <<Word("deployment_markers")>> \o args
  <2>1. list = Join([i \in DOMAIN o.markers |->
                 Join(<<o.markers[i].name, o.markers[i].key, o.markers[i].newValue,
                        Join(SetToSeq(o.markers[i].allowed), ";")>>, ":")], ",")
    BY Zenon DEF FieldsText, MarkerFields
  <2> QED BY <1>0, <2>1, CommandLineIs, Zenon
<1> HIDE DEF list, labels, step
<1>2. /\ args \in Seq({f, g, h})
      /\ {args[i].flag : i \in Flags(args)} = {"step", "markers", "labels"}
      /\ Value(args, "step") = step /\ Value(args, "markers") = list
      /\ Value(args, "labels") = labels
  <2>1. ThreeGiven(args, "step", step, "markers", list, "labels", labels)
    BY ThreeFlags
  <2> QED BY <2>1 DEF ThreeGiven
<1> HIDE DEF f, g, h, args
<1>3. argv # <<>> /\ Command = "deployment_markers" /\ Arguments = args
  BY <1>1, <1>2, CommandOf
<1>4. ParseArgs = ParseDeploymentMarkers(args)
  <2>1. \A i \in Flags(args) : args[i].flag \in {"markers", "labels", "step"}
    BY <1>2
  <2>2. /\ "deployment_markers" \in DOMAIN KnownFlags
        /\ KnownFlags["deployment_markers"] = {"markers", "labels", "step"}
    BY DEF KnownFlags
  <2> QED BY <1>3, <2>1, <2>2, ParserOf
<1> QED BY <1>2, <1>4, MarkersParse DEF list, labels, step

(***************************************************************************)
(* What the chart asks of the other commands, with an image that has a     *)
(* tag, is what they run with.                                             *)
(***************************************************************************)
LEMMA RequestRuns ==
  ASSUME NEW o \in Requests, HasTag(o), CommandLine(o) = argv
  PROVE  ParseArgs = Options(IF o.command \in DOMAIN OwnLabel THEN Own(o, OwnLabel[o.command]) ELSE o)
<1>1. /\ DOMAIN OwnLabel = {"generate_secrets", "deployment_markers"}
      /\ OwnLabel["generate_secrets"] = <<"matrix-tools-init-secrets">>
      /\ OwnLabel["deployment_markers"] = <<"matrix-tools-deployment-markers">>
  BY DEF OwnLabel
<1>2. CASE IsOtherRequest(o)
  <2>1. o.command = "syn2mas" \/ o.command = "tcpwait"
    BY <1>2 DEF IsOtherRequest
  <2> QED BY <1>1, <1>2, <2>1, Syn2MasRuns, TcpWaitRuns
<1>3. CASE IsSecretsRequest(o)
  <2>1. o.command = "generate_secrets"
    BY <1>3 DEF IsSecretsRequest
  <2> QED BY <1>1, <1>3, <2>1, SecretsRun
<1>4. CASE IsMarkersRequest(o)
  <2>1. o.command = "deployment_markers"
    BY <1>4 DEF IsMarkersRequest
  <2> QED BY <1>1, <1>4, <2>1, MarkersRun
<1> QED BY <1>2, <1>3, <1>4, RequestsAssumption

(***************************************************************************)
(* What the chart asks for with an image that has a tag is never refused,  *)
(* and what runs is what was asked for.                                    *)
(***************************************************************************)
THEOREM RunsWhatIsAsked == Spec => []RunsWhatTheChartAsks
<1>1. Inv => RunsWhatTheChartAsks
  <2> SUFFICES ASSUME ToolInv, phase # "parse", NEW o \in Asked, CommandLine(o) = argv, HasTag(o)
               PROVE  options = IF o.command \in DOMAIN OwnLabel
                                THEN [o EXCEPT !.labels[<<"managed-by">>] = OwnLabel[o.command]]
                                ELSE o
    BY DEF Inv, RunsWhatTheChartAsks
  <2> DEFINE ran == IF o.command \in DOMAIN OwnLabel THEN Own(o, OwnLabel[o.command]) ELSE o
  <2>1. ParseArgs.outcome = "options" => options = ParseArgs.options
    BY DEF ToolInv
  <2>2. CASE o \in Requests
    <3> HIDE DEF ran
    <3>1. ParseArgs = Options(ran)
      BY <2>2, RequestRuns DEF ran
    <3>2. options = ran
      BY <2>1, <3>1, Outcomes
    <3> QED BY <3>2, Zenon DEF ran, Own
  <2>3. ASSUME NEW r \in Renders, o = RenderRequest(r) PROVE options = o /\ o.command = "render_config"
    <3>1. o = [command |-> "render_config", output |-> o.output, files |-> o.files]
      BY <2>3 DEF RenderRequest
    <3>2. o.files \in Seq(STRING) /\ o.output # <<>>
      BY <2>3, OverridesAreLast
    <3>3. ParseArgs = Options(o)
      BY <3>1, <3>2, RenderParses
    <3>4. options = o
      BY <2>1, <3>3, Outcomes
    <3> QED BY <3>1, <3>4
  <2>4. "render_config" \notin DOMAIN OwnLabel
    BY DEF OwnLabel
  <2> QED BY <2>2, <2>3, <2>4 DEF Asked
<1> QED BY <1>1, ToolIsSafe, PTL
=============================================================================
