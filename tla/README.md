# Verification of the ESS Community Helm chart

TLA+ models of the programs and hooks that carry the state of a release of the
`matrix-stack` chart: what `matrix-tools` (Go, `src/matrix-tools`) does inside
the cluster, and the order in which the chart (`src/charts/matrix-stack`) makes
Helm run it. TLC checks the models on small instances; TLAPS proves the safety
properties of the jobs, of the release they belong to, of the start of a pod, and of the
arguments and configurations matrix-tools parses and renders, for all instances.

    tlc -workers 2 -config MCGenerateSecrets_edits.cfg MCGenerateSecrets
    tlapm GenerateSecretsProofs.tla
    tlapm DeploymentMarkersProofs.tla
    tlapm HelmReleaseProofs.tla
    tlapm Syn2MasProofs.tla
    tlapm PasswordChangeProofs.tla
    tlapm SequenceFacts.tla
    tlapm RenderConfigProofs.tla
    tlapm MatrixToolsProofs.tla

Each `.cfg` is run with the module `PROJECT.json` names for it under `runs`.

## 1. Inventory

The chart is mostly text: templates that render Kubernetes manifests for Synapse,
Matrix Authentication Service (MAS), Element Web and others, which are third-party
programs. The behaviour of its own is in five commands of one binary,
`matrix-tools`, and in the hooks that run them.

| part | state it keeps | operations | talks to |
|---|---|---|---|
| init-secrets job (`generate-secrets`) | the generated Secret; its place in the list of requests | Get, Create, Update of a Secret, generation of a value | API server, other pods of the job, administrators |
| deployment-markers jobs (`deployment-markers`) | the markers ConfigMap; the value `MATRIX_STACK_MSC3861` | Get, Create, Update; check (pre) or record (post) | API server, Helm |
| release lifecycle | how the deployed Synapse authenticates, where accounts are, the status of the release | install, upgrade, rollback, the hooks in order of weight | Helm, all jobs |
| syn2mas job (`syn2mas`) | the replicas it found, its loops | list, scale down, two waits, migrate, scale back | StatefulSet controller, mas-cli |
| render-config (init container) | the merged configuration, the output file | substitution of variables, deep merge, removing and writing the file | environment, mounted files, emptyDir |
| tcpwait (init container) | none | dial until the address accepts | the database |
| pod start | the revision of the pod, of its volumes and of what was rendered | create, replace, restart, update a volume | Helm, StatefulSet controller, kubelet |
| Postgres and its password updater | the password of each role | start, restart in place, set the password once | the pods that log in |
| argument parsing, dispatch | none | parse the fields, run a command | the command lines of the chart |
| templates of the deployed services | none | rendering | |

How they interact. An install or upgrade runs, in order of hook weight and then
of name: deployment-markers-pre (-10), init-secrets (-10), syn2mas and
synapse-check-config (0), then the manifests, then syn2mas again in dry run
(as a post hook) and deployment-markers-post (10). The pods the manifests make run render-config and
tcpwait before their main container. Helm waits for each hook and stops
the operation at the first that fails. The jobs talk to one another only through
objects in the API server: the Secret, the ConfigMap and the StatefulSets.

What makes each part correct, and what is hard about it:

* **init-secrets.** Everything that mounts the Secret (database passwords,
  signing keys, macaroon secrets) depends on a value being generated once and
  never replaced. `GenerateSecret` reads the whole Secret, decides, and writes
  the whole Secret back, with the ownership check made only at the read. Hard:
  several pods on one Secret, restarts after a write whose response was lost,
  an empty Secret left by a crash, an administrator who edits, relabels or
  deletes the Secret between the two calls.
* **deployment-markers.** A transition the chart does not support must be
  refused before anything changes, and what is recorded afterwards must be what
  happened. Hard: the pre step also writes; the post step compares nothing; jobs
  outlive the operation that made them.
* **release lifecycle.** An account must be where the deployed Synapse looks for
  it, whatever values an administrator tries in whatever order and wherever an
  operation stops. Hard: the marker is written after the rollout, hooks are
  skipped by a rollback, and a failed operation may have been applied.
* **syn2mas.** No pod of Synapse may use the database while it is migrated, and
  Synapse must come back afterwards. Hard: the job and the StatefulSet controller
  write the same objects; statuses describe the past; refused updates are
  only printed; one of the two waits has no limit.
* **render-config.** The result must not depend on anything but the order of the
  files and the environment, values must arrive as they are, and what the chart sets
  must win over what a user writes. Hard: values are substituted into the text in
  which the next variable is replaced; merging is not associative.
* **pod start.** Nothing starts with half a configuration or with files of two
  revisions, and in the end the last revision runs. Hard: the output is written in
  place, with a mode that forbids to open it again; volumes change while they are read;
  a pod that cannot be rendered must not stand in the way of the revision that can.
* **Postgres and its password updater.** A change of password must end with the pods
  logged in. Hard: two pods are replaced in any order, and the script runs once.
* **argument parsing.** What runs is what the chart rendered. Hard: lists are joined by the
  chart and split by the program, and slices are indexed after a check of their length.

`PROJECT.json` lists the components with their sources and the hazards line by line.

## 2. Modules

| module | models | EXTENDS / INSTANCE |
|---|---|---|
| `KubeApi` | one object of the API server: resourceVersion, owner label, data, and when an Update is accepted (external, from how secret.go and marker.go use the client) | |
| `GenerateSecrets` | `GenerateSecret`, `Run`, and the job around them | EXTENDS `KubeApi`; INSTANCE `WriteOnce` |
| `WriteOnce` | the abstract promise: a cell gets its value once | |
| `GenerateSecretsProofs` | theorems and proofs | EXTENDS `GenerateSecrets`, TLAPS |
| `DeploymentMarkers` | `GenerateConfigMap` in both steps, the tables of `_helpers.tpl`, the two jobs | EXTENDS `KubeApi` |
| `DeploymentMarkersProofs` | theorems and proofs | EXTENDS `DeploymentMarkers`, TLAPS |
| `AuthMigration` | the abstract protocol of the marker: only forward | |
| `HelmRelease` | operations, hooks, rollout, rollback, accounts | EXTENDS `DeploymentMarkers`; INSTANCE `AuthMigration` |
| `HelmReleaseProofs` | theorems and proofs | EXTENDS `HelmRelease`, `DeploymentMarkersProofs` |
| `Syn2Mas` | `RunSyn2MAS`, `scaleDownSynapse`, `scaleBack` and the StatefulSet controller | |
| `Syn2MasProofs` | theorems and proofs | EXTENDS `Syn2Mas`, TLAPS |
| `RenderConfig` | renderer.go: substitution, parsing and `deepMergeMaps` | |
| `MatrixTools` | main, the five parsers of arguments, the command lines of the chart, and render-config up to the result | EXTENDS `RenderConfig` |
| `SequenceFacts` | lemmas about numbers, sequences and functions defined by recursion | EXTENDS the library's theorem modules |
| `RenderConfigProofs` | lemmas about substitution and merging, theorems and proofs | EXTENDS `RenderConfig`, `SequenceFacts` |
| `MatrixToolsProofs` | theorems and proofs | EXTENDS `MatrixTools`, `RenderConfigProofs` |
| `PodStart` | Helm applying revisions, the controller, the kubelet, the life of the rendered file, tcpwait | |
| `PasswordChange` | Postgres, its sidecar, and the login of a pod beside them | EXTENDS `PodStart` |
| `PasswordChangeProofs` | theorems and proofs | EXTENDS `PasswordChange`, TLAPS |
| `MCGenerateSecrets`, `MCMatrixTools`, `MCPasswordChange`, `MCSyn2Mas` | inputs, the values of function-valued constants, and a bound on retries | EXTENDS the component |

Some definitions marked `\* mutant` are deliberately wrong variants of the
definition that follows them. They occur in no specification; they are there to
show that each property can tell the code from a broken version of it.

### GenerateSecrets

A pod is in `"get"`, `"create"` or `"update"`, the three calls of
`GenerateSecret` (secret.go), or has `"failed"` or is `"done"`. Between calls
the state is its `copy`, the Go value `existingSecret` as it will be sent back.
`Prepare` is the code between the read and the Update: labels set, key generated
if missing. `GetError` is the branch in which *any* error of Get leads to
Create. `NextRequest` is the loop of cmd.go; `Restart` is `restartPolicy:
OnFailure` with `backoffLimit` of job.yaml, from the first request again.
`LostResponse` is a call that took effect and reported an error.

Values are opaque. `rand32`, `hex32` and the private keys draw from
`RandomValues`; `signingkey` always yields `SeededKey`, because signing_key.go
draws from a source with a constant seed. Of the labels only managed-by is kept,
as `owner`; the code also sets the others, so that an Update after a change of
the chart version advances the resourceVersion where the model's does not. That
removes only conflicts between pods of different chart versions, which end like
any other conflict. A failing generator is a failing command for every type; in
the code `rand32` swallows the error, which `crypto/rand` does not return.

### DeploymentMarkers

Pods are pairs `<<operation, step>>`. The structure is that of `GenerateSecrets`
with one ConfigMap: `Passes` is the check of the pre step, `Marked` the
assignment of the post step, `NewValue` and `AllowedValues` the three markers of
`_helpers.tpl` for the four ways to set the values (`Modes`). A mode in
which Synapse is disabled renders no marker and no job, and is left out. `Reap`
is the hook deletion policy before-hook-creation, which kills the job of an earlier operation.
`MarkersNext` is what the jobs may do on their own; the runs check them inside `HelmRelease`.

### HelmRelease

`Start` is `helm upgrade --install`; `phase` walks the hooks in order.
`synapse-check-config` and `syn2mas` have the same weight and are taken in
either order. `auth` changes at `Apply`, before the rollout is known to
succeed, and follows `readyToHandleAuth`. `accounts` says which service holds
accounts that no other service has: the migration copies them to MAS (the
database of Synapse is not changed by it), `Register` creates one with the
service the deployed Synapse asks. `OperationFails` is any other hook or the
rollout failing. `Timeouts` lets Helm give up on a marker job that goes on
running. `Rollback` applies an earlier revision and runs no hook, as annotated.
`tainted` records what a marker cannot show: an operation that began
when the marker did not describe the release, or while a post job Helm had given up on
was still at work and could yet record its value (`PostAtWork`); a rollback; and a
registration between migration and rollout. `PostAtWork` came out of the proof: the stale
job of one operation may write `legacy_auth` after the check of the next but one, which
then strands accounts. It takes three operations; the two of `release_timeouts` cannot show it.

### Syn2Mas

One action per API call and poll of syn2mas.go. `fresh` stands for
resourceVersions: it holds the StatefulSets not written since the job last read
them, and a status report removes its set. `kept` and `lost` record which
updates were refused, by version or by error; the code only prints them. The
controller observes, starts and stops pods and reports in separate steps, so a
status may be older than the update the job waits for. Waiting on a status that
is not 0 is `PollAgain`, a step that changes nothing. `CheckPod` allows a pod of
the check-config hook, which carries the counted label. If that pod failed it is
never `Succeeded`, uses up the retries, and the job aborts with Synapse scaled down;
this is in the model because `CheckPodEnds` is not fair.

### RenderConfig and MatrixTools

A document is a function from paths to nodes. A path is the sequence of keys that leads to a
node; a node is a scalar, an array, or a map, whose entries are at the paths that go on, to any depth. The text
of a scalar or an item is a sequence of words and variables. `ReadFile`, `Replace` and `Merge` are the
steps of the loop in renderer.go, `DeepMerge` is `deepMergeMaps` said of paths: where both
documents have a path, arrays are appended and otherwise the source counts, and a value of the source
that stands where the destination has a map, or has no map to be merged into, `Clears` what was below. That this is
what the recursion of the code computes is checked by TLC: `MCMatrixTools` has `deepMergeMaps` as it is
written, over nested maps, and `MergesByPath` compares the two. A file has its
document and, apart from it, the order in which its text names the variables (`names`,
what `extractEnvVarNames` returns), because the order of keys is not in a function.
A template is a text, the lookup of a path of what was merged so far (`tmpl.Execute(&buffer,
output)`), or one that fails; the template functions only produce texts. A lookup of a path that is not there
gives `<no value>`, at any depth, because the renderer leaves the option `missingkey` of text/template at its default; one
that goes on below a value that is no map cannot be executed (`Executable`). "%"
stands for a value after which the file does not parse. A map with a key that is
not a string is another Go type and merged as a scalar is.

`MatrixTools` takes an argument vector from main to the exit. A value is a sequence of words and
separators, split and joined as strings.Split and the chart's `join` do. `CommandLine` is
what the chart renders for the options it wants, and `ParseArgs` is what the program makes of any
vector: options, an error (status 1), the usage or a panic (status 2). Secrets and markers are joined by the
chart; the labels are YAML text in which `trim` and `replace` make "=" of ": " and "," of a new line (`LabelsArgument`). For an
ordinary label that is the same as joining, with "=" and nothing behind it where the value is the empty string. But the last label is the
version, for an image without a tag its value is not written at all, and the space of its ": " is trimmed: `version:` stays. `HasTag`
tells the two cases apart. The commands other than
render-config end in `Dispatch` and go on in their own modules. What the chart may ask for is a
parameter: `Renders` and `Overrides` for render-config, `Requests` for the rest. Their assumptions are what
the templates guarantee. Names of Secrets and ConfigMaps, keys and labels follow the syntax of Kubernetes, and
values of markers are words of `_helpers.tpl`, so none has one of the separators `,` `:` `;` `=`; the labels always
have managed-by (`_labels.tpl`) and version (the `_helpers.tpl` of the two jobs), and no key is so long that YAML would write it on a line of its own; the markers of a job are of one step; lists are not empty, an output file is named; and no file of
a user's has the path of one the chart overrides it with. Not modelled:
a file that is opened but cannot be read, and a result that cannot be marshalled.

Two things the properties do not say because they are not so. A value that contains the name of
a variable is replaced too, if a name that comes later in the file asks for it; `Verbatim` is
about values that contain none. And `OverridesInEffect` lets the items of a user's array stand
in front of the chart's: an array is appended to, never replaced.

### PodStart and PasswordChange

Contents are the numbers of the revisions they are from. `release` is the revision Helm is
applying, `stored` the objects in the API server, `template` the pod templates (of
both workloads: the order in which Helm applies two StatefulSets makes no difference to
pods that are replaced at any later time), `pod` and `postgres` the revisions the two
pods were made from, `volume` what is mounted, `read` what render-config has opened, `conf` what the
output was rendered from. An operation may be abandoned at any point by the next `Upgrade`.

render-config is `RemoveOutput`, one `OpenFile` for each file (readFiles opens them all before any is
read, so what counts is the moment of opening), then `RenderFails`, or `CreateOutput` and `WriteOutput`,
between which a killed container leaves an incomplete file. `CreateOutput` needs that there is no
file: one of mode 0440 cannot be opened for writing. `Broken` revisions fail, because of
their files or of the arguments in their pod template. `Disturb` is a killed init container or
a lost sandbox; the emptyDir in memory survives both, except a new start of the node.
`DeletePod` does not wait for the pod to be ready (`podManagementPolicy: Parallel`); `DeletePostgres` does,
because Postgres has the default policy.

A new pod mounts what is stored when it is created (`CreatePod`). This is the one assumption about the
kubelet: one that serves a new pod an older copy from its cache would invalidate `Unmixed`.

The password of a role changes only in `Configure` (`ALTER USER`), and on the first start of Postgres. It is the one
the Secret mounted in the Postgres pod holds at that time (`Mounted`). `ConfigureFails` is the
script failing because Postgres has gone down since `pg_isready`: the sidecar prints "Done" and sleeps. Its own
probes ask Postgres too, so that it is restarted, and runs its script again, when Postgres stays down for long (`RestartUpdater`).
A main container with another password ends and is restarted, which changes no state.

## 3. Runs

| run | shows | bounds |
|---|---|---|
| `secrets_edits` | no update is lost or revived, no foreign Secret is touched, success means the keys are there, `WriteOnce` is implemented, and the inductive invariant of the proofs holds | two pods on one Secret, the second with one key more, one restart, one fault, two edits, every initial Secret |
| `secrets_live` | all pods succeed within the backoff limit of 6 | two pods visiting two Secrets in opposite orders, two faults, no edits |
| `release_accounts` | accounts reachable, marker truthful, no second migration, the marker only moves forward | four operations of any mode, one restart and fault, failing hooks, rollbacks |
| `release_timeouts` | only post steps record; the exit status of a marker job is true at the moment of success; accounts stay reachable when marker jobs outlive their operation, unless an operation begins beside a post job; every operation ends, even if Helm never gives up | two operations (four marker pods), two restarts and faults, failing hooks, rollbacks, every initial ConfigMap |
| `matrix_tools` | what the chart asks for with an image that has a tag is accepted and runs as asked; wrong arguments are refused; files are merged in order, values put in verbatim, and the chart's files win | four files over one nested key or three over two, two variables in every order and setting, one secret of every type and every list of two over two keys and two types, one marker with each value and set of allowed values, labels with a version and without, 80 argument vectors the chart does not render |
| `pods` | nothing half-written or mixed is run; the last revision is what runs in the end, and it can log in | three revisions of which the second is broken, two files of one ConfigMap and one of a Secret, two disturbances, one outage of Postgres |
| `syn2mas_job` | no pod while migrating; replicas restored unless refused; the job ends unless a scale-down was refused | two StatefulSets, one error, and a disruption or a second attempt without faults of its own (`CalmRetry`) |

Why these bounds are enough to be interesting. A collision in a
read-modify-write needs two writers; the second Secret is there for opposite
orders, the second key for a Secret that is only partly filled. Six restarts with two
faults is more than collisions can consume: a pod fails at most once for each
write of the other and each fault. In the marker protocol there are three
values and the longest chain of modes that matters (legacy, dry run, migrate,
delegated) takes four operations. Two operations with timeouts allow the job of
the first to act at every point of the second. One pod of one StatefulSet is enough for any
stale status, and a scale down half done has one set at 0 and the other not; that more replicas make no difference to safety is proved
(`Syn2MasProofs`).
A merge is decided by the kinds of the values a key has in turn, so every sequence of four kinds, at two levels,
is every case there is; two keys show that neighbours do not disturb each other. Two files of one volume
are needed to open them on both sides of an update, a file of another object for an
upgrade that is half applied. Three revisions put a broken one between two good ones.
`MaxRetries` 1 distinguishes the first, the last and one retry too many.

Values that are only compared are symmetric in `secrets_edits`
(`ValueSymmetry`); no symmetry is used where liveness is checked.

### Where the code and its documents disagree

Five runs check what a document or comment claims and find it violated:

* `release_enable`: the comment says MAS cannot be enabled before syn2mas was run.
  A missing marker passes, so after a first install that was applied but did not
  become ready it can, with accounts left in Synapse. For the same reason MAS can be
  disabled again after such an install, which the same comment rules out.
* `release_downgrade`: docs/syn2mas.md says the marker prevents downgrading. A post
  job that Helm gave up on compares nothing and can write `legacy_auth` over `delegated_auth`.
* `release_rollback`: docs/syn2mas.md says a `delegated_auth` system cannot be rolled
  back. `helm rollback` runs no check.
* `labels_digest`: values.yaml says that one of tag or digest must be provided for an image, and
  tests/manifests/test_pod_images.py renders the chart with digests only. The hooks that create the Secrets and check the
  markers then get labels the last of which has no "=", index past its end and panic, so that an install or upgrade fails.
  No test runs the program on the labels of such a chart.
* `syn2mas_back`: docs/syn2mas.md says Synapse is scaled back at the end. A status
  report between Get and Update refuses that update, which is only printed. The
  same happens to a scale-down: the migration then runs while that StatefulSet
  keeps its replicas, if its pods are gone when the job looks (docs/syn2mas.md:77 says 0 replicas).
  That takes a disruption: without one, the migration runs at 0 replicas only (`Syn2MasProofs`).

`HelmReleaseProofs` shows that the first three have no other cause than the one named: see 5.

Also noticed, and not modelled: the uninstall instructions of the repository's
README.md (line 553) name the ConfigMap `ess-deployment-markers`, while the chart
creates `<release>-markers`.

## 4. Fairness

Liveness assumes weak fairness of the steps a scheduler owes, and of nothing else:

* `Progress(p)`: a running container proceeds and the kubelet restarts one that
  failed, as long as the backoff limit allows. Faults, edits, lost responses
  and the deletion of an old job are never owed.
* `HelmStep`: Helm goes on when a hook has ended. That a rollout ends is Helm's
  own timeout (`Ready` or `OperationFails`). `MarkersTimeOut` is not owed, so that
  `OperationsEnd` does not hold by Helm's patience alone.
* `JobStep`: the syn2mas command proceeds, and mas-cli ends one way or the other.
* `ControllerStep`, `ContainerStep`, `SyncVolume(s)`, `PostgresStep`, `Login`: the controller replaces pods, containers
  proceed or are restarted, volumes are brought up to date, Postgres comes up, main tries to log
  in again. Helm, outages and disturbances are not owed: `EventuallyCurrent` and `EventuallyServing`
  speak of behaviours in which the last revision was applied completely. Nor is `RestartUpdater`: Postgres may come
  up before the probes of the sidecar have failed often enough, which is why `EventuallyServing` excludes a sidecar that is left
  with a failed script. The bounds on
  disturbances and outages stand for "only finitely often". The controller has a fairness of its own because a
  container that is restarted for ever must not keep it from replacing the pod.
* `Controller(s)`: the StatefulSet controller and the kubelets act on each set.

Weak fairness suffices in each case because no other actor can switch an owed step off
for good and on again: a failed call leads to another step of the same actor.
`CHECK_DEADLOCK` is never turned off: `Terminating` names the states in which a
system may stop.

## 5. Proofs

`GenerateSecretsProofs` proves for every number of pods, Secrets, keys and requests, and
every value of the bounds (assuming only `ConstantsAssumption`: request lists are
not empty, `Unset` is not a value, the bounds are naturals):

| theorem | states |
|---|---|
| `TypeCorrect` | `Spec => []TypeOK` |
| `CopiesAreSafe` | `Spec => []SafeCopies`, the inductive invariant |
| `ForeignIsUntouched` | `Spec => ForeignUntouched` |
| `UpdatesAreKept` | `Spec => NoLostUpdate` |
| `PromiseKept` | `Spec => ImplementsWriteOnce` |
| `SuccessIsReal` | `Spec => []DoneMeansPresent` |

The argument. None of the properties is inductive, because what an Update does is
decided when the copy is made. `SafeCopies` carries that decision to the moment of the
write. It has three parts: `TypeOK`; `VersionsPast`, by which every
resourceVersion in a Secret or a copy is smaller than the next one handed out; and
`CopyCurrent`, by which a copy whose version is still the stored one differs from
the stored Secret at most in the requested key, and there only if it was unset.
`VersionsPast` is what makes `CopyCurrent` survive other pods and edits: whatever
they write gets a version no copy has, so that the copy is refused from then on.
An Update under `SafeCopies` then either leaves the Secret as it is or gives one
unset key of a Secret of ours a value, which is the step `Choose` of `WriteOnce`,
the shape `NoLostUpdate` demands, and keeps every key `DoneMeansPresent` speaks of.
`SuccessIsReal` adds `DoneMeansPresent` itself to the invariant.

`DeploymentMarkersProofs` proves of the marker jobs on their own (`MarkersSpec`), for any set of
operations, in any modes, with their jobs side by side in any order, and every value of the bounds
(assuming `MarkersAssumption`: operations are numbered from 1, as Helm numbers revisions;
the marker is a key; `Unset` is not a value):

| theorem | states |
|---|---|
| `MarkersAreSafe` | `MarkersSpec => []MarkersInv`, the inductive invariant |
| `PostRecordsOnly` | `MarkersSpec => OnlyPostRecords` |
| `CheckHolds` | `MarkersSpec => CheckHoldsAtSuccess` |
| `Records` | `MarkersSpec => RecordedAtSuccess` |

The argument. The pre step writes back a whole ConfigMap it read some time ago. `CopyCurrent` says
why that is harmless: a copy about to be written has passed the check of its step, and if its
resourceVersion is still the stored one, it *is* the stored ConfigMap, with the value of its
operation in it if the step is post. With `VersionsPast`, as for the Secrets, every write by anybody makes
all other copies stale. So an Update of a pre step changes nothing and finds the
marker it checked, and that of a post step records its value; nothing else writes data.

`HelmReleaseProofs` proves of a release, for any number of operations in any modes, with hooks
and rollouts failing anywhere, jobs outliving their operations, rollbacks, and a ConfigMap
left over or not:

| theorem | states | assuming |
|---|---|---|
| `ReleaseIsSafe` | `Spec => []IInv`, the inductive invariant | |
| `ReleaseTypeCorrect` | `Spec => []ReleaseTypeOK` | |
| `NobodyStranded` | `Spec => []AccountsReachable` | |
| `DeployedTruth` | `Spec => []DeployedIsTruthful` | |
| `ReleaseRunsMarkers` | `Spec => MarkersSpec` | |
| `ReleasePostRecordsOnly`, `ReleaseCheckHolds`, `ReleaseRecords` | the three properties of the marker jobs, of `Spec` | |
| `MigratedOnce` | `Spec => NoSecondMigration` | `~Timeouts` |
| `MarkerGoesForward` | `Spec => ImplementsAuthMigration` | `~Timeouts`, `~Leftovers` |
| `DowngradeNeedsTimeout` | `Spec => NoDowngrade` | `~Timeouts` |
| `BackNeedsRollback` | `Spec => MigrationIsFinal` | `~Timeouts`, `~Rollbacks` |
| `MasNeedsMigration` | authentication is delegated only once Synapse holds no account, while `~tainted` | |

The assumptions name what the administrator may do, and cannot be dropped. A post job that
Helm gave up on compares nothing with what it overwrites, so with `Timeouts` the marker can go back
(`release_downgrade`) and the migration can run again; with a ConfigMap left over the marker does
not begin unset. The last three theorems are the other side of the runs
that refute the documents: what is claimed there holds but for the cause each run shows.

The argument. A release *is* a run of the marker jobs (`StepOfMarkers`), so the lemmas about them
apply. The check of the pre step and the record of the post step are separated by the hooks and the
rollout, and the question is what keeps the check true. `Alone` says that while an operation is at work no
other has a post pod that can still write; where Helm never gives up on a job that is always so, otherwise as long
as the release is not tainted (`Trusted`). By `PostRecordsOnly` nobody then changes the marker before the post step
of the operation itself, and `Checked` carries the outcome of the check, phase by phase, up to the
record. `NotStranded` is the other half: an operation that begins with a truthful marker and passes the
check finds the accounts where its mode needs them (`Fitting`), a migration moves them
before the rollout changes `auth`, so that the value recorded at the end is true again (`Settled`).
`HooksLeft` ties the phases to the hooks, so that a rollout of mode "migrate" has a migration before it.

`Syn2MasProofs` proves of the syn2mas job, for any StatefulSets with any replicas, and any retries,
attempts, errors and disruptions (assuming `Syn2MasAssumption`: there is a StatefulSet, the main
process of Synapse; the job runs at least once; the bounds are naturals):

| theorem | states |
|---|---|
| `JobIsSafe` | `Spec => []IInv`, the inductive invariant |
| `JobTypeCorrect` | `Spec => []TypeOK` |
| `NobodyWritesMeanwhile` | `Spec => []QuietWhileMigrating` |
| `ScaledBack` | `Spec => []RestoredUnlessRefused` |

The argument. A status may be older than the update the job waits for, an update may be
refused, and a terminating pod is not available any more and still there. `Settled` says why the two
waits suffice all the same: a StatefulSet found at rest is either `Untouched`, with a status that shows its
pods, or `Down`, with a controller that has observed that it wants none, and there is no way back.
Zero available replicas is therefore the status of a set that is down (or had none to begin with), from which on pods only go, and the third
loop leaves when none is left. `Restored` follows the list of sets through `scaleBack`.

`PasswordChangeProofs` proves for every number of revisions, ConfigMaps, Secrets and files,
every set of revisions that cannot be rendered and every value of the bounds (assuming
`PodAssumption` and `PasswordAssumption`: there is a file, every file is in a mounted
object, the password is in one of them, the bounds are naturals):

| theorem | states |
|---|---|
| `RevisionsInOrder` | `Spec => []IInv`, the inductive invariant |
| `PodsTypeCorrect` | `Spec => []TypeOK` |
| `NeverPartial` | `Spec => []StartsComplete` |
| `OneRevision` | `Spec => []Unmixed` |

The argument. `AppliedInOrder` is what Helm applying objects before workloads gives: no
object is earlier than the template, so a pod of revision r mounts r or later, and every
later synchronisation of a volume, seen or unseen by a reader, only moves forward.
`Progressed` follows it into the pod: whatever was read or rendered is of r or later, and
not later than `release`. Where the pod is of the current revision the two limits meet,
which is `Unmixed`. Its other part, that a pod which writes has read everything and made
the file, is what carries `StartsComplete` over a kill in the middle of the write.

`RenderConfigProofs` and `MatrixToolsProofs` prove of matrix-tools, for every argument vector, any
number of files of any depth, any variables, templates and environment, and whatever the chart may ask for (assuming
`RendersAssumption` and `RequestsAssumption`, explained in section 2, and `NoValueAssumption`: the text `<no value>` is
a word like any other):

| theorem | states |
|---|---|
| `ToolIsSafe` | `Spec => []Inv`, the inductive invariant |
| `MergesInOrder` | `Spec => []MergedInOrder` |
| `ReplacesVerbatim` | `Spec => []Verbatim` |
| `FailsOverNamedVariables` | `Spec => []OnlyNamedVariables` |
| `RunsWhatIsAsked` | `Spec => []RunsWhatTheChartAsks` |
| `RefusesWithAnError` | `Spec => []RefusedWithAnError` |
| `OverridesStayInEffect` | `Spec => []OverridesInEffect` |
| `CombinedOfMore` | merging one more document gives what `Combined` says of all of them |
| `SubstituteTwice` | substituting twice is substituting once, when the first brings nothing in that the second replaces |
| `SplitJoin` | splitting what was joined gives the parts back, if none of them has the separator |

The argument. `Inv` is `RenderInv`, about the loop, and `ToolInv`, about main around it. `MergedInOrder` is a
conjunct of `RenderInv`, and inductive because of `CombinedOfMore`: `Combined` defines the outcome from all the documents at
once, by the last run of one kind at each path, and a further document either continues that run, begins another, or
clears the path. `Verbatim` speaks of the end of the replacements; `Replacing` is what is true on the way there: the names
replaced so far are those at the front of `names`, all could be executed, and the content is the
simultaneous substitution of them, which `SubstituteTwice` extends by one name, one that was replaced before
included. `OverridesInEffect` needs, beyond `MergedInOrder`, that what the documents from some place on give together is carried by what all of
them give (`LastInEffect`), and that `ConfigFiles` puts the chart's overrides last.
`RunsWhatTheChartAsks` says that such a command line is never refused, whatever phase the program is in. It is about `ParseArgs`
alone, since a conjunct of `ToolInv` says that whatever can be parsed is taken over: the
flags of a command line the chart renders are found, each list falls apart
into the entries it was joined from (`SplitJoin` twice, or three times for the allowed values of a marker: `EntriesParse`,
`AllowedParse`, `LabelsParse`), and of the two managed-by labels the one the program appends counts (`LastOneCounts`). It
holds for images that have a tag (`HasTag`, by which `LabelsWithTag` makes the labels a join); for the others
`labels_digest` shows the opposite.

How the inductions are done. The library's induction theorems take an operator as a parameter, which the provers cannot
instantiate. `SequenceFacts` states induction as a fact about subsets of Nat, and
about sets of sequences, from the well-foundedness of `<`, and that a function defined by
recursion exists, with the step as a function. So what `FlattenSeq` and `Split`
compute is proved for every input, not only for those TLC tries.

## 6. What is only model-checked

* Liveness (`AllSucceed`, `OperationsEnd`, `JobEnds`, `EventuallyCurrent`, `EventuallyServing`): TLAPS does not reason about
  fairness and ENABLED.
* That `DeepMerge` by paths is the recursive `deepMergeMaps` (`MergesByPath`: all maps over two keys at two levels and
  over one key at four levels). It is written with recursive operators, which the prover does not accept.

Every invariant and every safety property of a passing run is stated by a theorem.

## 7. What is not modelled

* A Secret that exists or is generated, edited between two upgrades: the label of the pods is a hash
  of its name, so nothing restarts and there is no revision to speak of.
* Deployments (MAS) replace their pod by a ReplicaSet rather than a StatefulSet; with `maxSurge` 0 the steps are the same.
* The text of templates, the values schema, labels other than managed-by, and
  the programs deployed. What of them decides behaviour (hook weights, marker
  tables, backoff limits, the mode of authentication) is in the models.
* Helm, the API server, the StatefulSet controller and mas-cli are external: modelled
  as far as the code depends on them. The migration is one step that copies
  every account or fails.
* The second attempt of an aborted syn2mas job finds 0 replicas and restores 0; this is in
  `Syn2Mas`, where `RestoredUnlessRefused` speaks of the replicas the job *found*.
* Uninstalling, and two releases of one name at the same time.

## 8. Plan

In order of what matters most to a running deployment:

1. `GenerateSecrets` with its proofs, `DeploymentMarkers`, `HelmRelease`, `Syn2Mas`: done.
2. `RenderConfig`, `MatrixTools`, `PodStart`, `PasswordChange`: done.
3. `PasswordChangeProofs`: done.
4. `DeploymentMarkersProofs`, `HelmReleaseProofs`, `Syn2MasProofs`: done.
5. `SequenceFacts`, `RenderConfigProofs`, `MatrixToolsProofs`: done.
6. A module that puts `Syn2Mas` in the place of the one-step migration of `HelmRelease`,
   with attempts left over from an earlier operation.
