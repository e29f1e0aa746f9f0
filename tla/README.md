# leartech-plan-catalog, in TLA+

Models of the catalog's own programs, the TLC runs that check them and the
theorems TLAPS proves about them. Paths are relative to the repository.

1. The system: parts, state, operations, interactions
2. The modules, and how they correspond to the code
3. The runs: what each asks, its bounds, what it shows
4. Fairness
5. What is proved
6. Where the code and its documents disagree
7. What is not modelled, and the plan

## 1. The system

The catalog is a git repository of Plans (`plans/*.yaml`) and PlanTemplates
(`templates/*.yaml`). A pull request is gated by **plan-lint** and, advisorily,
by a server-side dry run and two AI reviews. A merge to main starts a release
pipeline on *each* cluster: **plan-submit** posts the plans the merge touched to
that cluster's plan-api, and **sync-templates-to-controller.sh** opens a pull
request that mirrors the templates into the controller's library. A person
promotes a submitted plan by unpausing it; the controller then expands `use:`
steps and executes the step graph.

```
 author --PR--> plan-lint, reviews --merge--> main --postsubmit--> plan-submit --POST--> plan-api --> Plan object
                                                |                                                      |   operators promote, delete
                                                +--postsubmit--> template sync --PR--> library --> controller executes
```

| component | state | operations | talks to |
|---|---|---|---|
| plan-submit: scope and projection (`cmd/plan-submit/changed.go`, `project.go`, `discover` in `main.go`) | none; pure functions of two trees | `resolveBase`, `git diff -M`, `parseNameStatus`, `selectChanged`, `discover`, `project` | git |
| plan-submit: the run (`main.go`, `resubmit.go`) | one process: files left, `failed`, a 60 s context | `fetchToken`, `submit`, `classifyResubmit`, exit code | Keycloak, plan-api |
| plan-api (external) | Plan objects | create, and after AlreadyExists a *second* call that compares | plan-submit, operators |
| plan-lint, graph rules (`pkg/planlint/lint.go` 733-858) | none; `detectCycle` has colours and a call stack | R7, R8, R11, R12, R13, R17 | - |
| plan-lint, document and step rules (`lint.go` 100-730) | none | R2-R6, R9, R10, R14-R16, R18-R27 | - |
| schema conformance (`kubeconform` in `pullrequest.yaml`, `schemas/*.json`) | none | every document of `plans/` and `templates/` against the schema of its kind | - |
| plan-lint, the run and its in-memory twins (`Run` in `lint.go`, `cmd/plan-lint/main.go`, `api.go`) | an index of the templates, filled by a first pass over all files | R1, `LintDoc`, the exit status; `BuildIndex`, `LintOne`, `LintDocs`, `LintBytes` | plan-api, which imports `api.go` |
| controller (external) | phases of the steps | spawn, expand, cancel | plan-api objects |
| template sync (`scripts/sync-templates-to-controller.sh`) | one force-pushed branch, at most one open PR, the controller's default branch | clone, copy over what is there, strip comments, force-push, look up, open or refresh the PR; exit 0 whatever happens | git host, people who merge and close |
| PR comment, reviews, cluster verify (`scripts/plan-*.sh`) | a sticky comment | look up, then create or patch | git host, model gateway, apiserver |
| crd2schema, rulesdoc (`cmd/`) | none | generate a schema, a table | - |

What is hard in it, and what must hold:

* **Release runs overlap.** The postsubmit sets no concurrency limit, runs can be
  re-run by hand, two clusters run their own copies, and pods die. Correct means:
  a green run had every plan of its merge on the cluster; two green runs do not
  disagree; a plan that comes back does so by a request of a merge that touched its file.
* **An answer may be lost** after plan-api has created the Plan, and the 409 path
  is two calls on the server. Correct means: nothing but an identical plan passes
  for a success, and the failure of one file survives to the exit code.
* **One deadline** covers token and every POST: a release must end with the other
  side silent for ever.
* **Partial failure**: one bad file must keep the whole run off the cluster.
* **The diff** is what makes deletion possible: the set of files submitted must be
  exactly what the merge touched, whatever git calls a rename.
* **The graph rules** must accept no plan the controller can never finish: no
  cycle missed, in any order of the steps, and no cycle reported that is none.
* **No release makes up for another.** Each diffs against its own first parent, so
  what main says and what a cluster has meet only if every commit had a green run.
* **Template syncs overlap too**, share one branch, and may stop at any step with
  exit 0, while people merge or close the pull request between two steps. Correct
  means: the library never takes what catalog main has not held; an undisturbed
  release delivers; whatever went wrong, later releases repair it; and when comments
  are stripped a prompt loses no line of its text, but for repeated blank ones.
* **Four programs read the same bytes.** plan-lint decodes every document of every
  `.yaml`, kubeconform holds those of `.yml` files too to the schemas, plan-api reads one document or one submission, plan-submit the first document
  of a `.yaml` or `.yml`, into narrower types. Correct means: what is sent was
  judged, what was judged is not refused afterwards, and file order plays no part.
* **The gate reads files; the cluster runs something else.** After it has judged a
  plan, the plan is projected, plan-api injects steps, and the controller inlines
  templates from a library that people merge into whenever they do, and that lags
  behind the catalog or is ahead of what a plan was reviewed with. Correct means:
  what the gate established still holds of the graph that runs.

Every hazard is listed, at its line and with the properties that cover it, in
`PROJECT.json` ("hazards").

## 2. The modules

| module | models | state and actions |
|---|---|---|
| `SubmitScope` | `changed.go`, `project.go`, `discover` | Operators over trees. A tree maps a file to its document or `Absent`. A file is the five things the code looks at in its name (stem, extension, example marker, nested, ASCII); a document is its kind, name, `brief` (all a `createPlanRequest` carries) and `extra` (what the gate accepts and no request carries). `Pairings` is every injective pairing git's rename detection could report. |
| `PlanSubmit` | `main.go`, `resubmit.go`; plan-api, operators and the controller as external | `history` is main; per run `stage`, `head`, `all`, `todo`, `failed`, `expired`, `reply` are the locals of `run`; `net` holds the requests plan-api has not finished. Actions: `BaseUnresolved` (resolveBase), `NothingToSubmit`, `ProjectFails`, `ProjectAll` (with `-dry-run`), `TokenFails`, `TokenMinted`, `Deadline`, `Post`, `PostFails`, `PostAnswered`, `Finish`, `Killed`; `ApiCreate`, `ApiReject`, `ApiCompare`; `Promote`, `Terminate`, `Delete`; `Merge`, `StartRun`. |
| `PlanLedger` | what the release leg promises | What each release `owes`, its `verdict`, what it has `seen` stand, and the `plans`. Actions: `Start`, `See`, `End`, `Delete`; no file, request, answer or deadline. |
| `StepGraph` | `graphChecks`, `lintFanIn` | The rules as predicates on a list of steps, and the reference definition of a cycle: a set of declared steps each of which waits for another of the set. |
| `DetectCycle` | `detectCycle` | The program: the collecting loop, the loop over `order`, and the recursion of `visit` as a stack of frames. |
| `PlanLint` | `LintDoc`, `lintPlan`, `lintUseStep`, `lintTestDirected`, `lintAutoInject`, `lintTemplate`, the index of `Run` | One predicate per rule that gates a merge. A name is a sequence of atoms, so that `b` joined with `l` and the name `b-l` are the same. |
| `Expansion` | `project`; plan-api's injection and the controller's expansion as `lint.go` and the CRD schemas describe them (external) | Operators. A plan is a family of steps indexed by where each came from: `<<i, "own">>`, `<<i, "verify">>`, and in an expansion `<<that, j>>` for step `j` of its template. |
| `PlanAdmission` | the way of a plan from its pull request to the controller | `templates` (main), `library` (controller), `submitted`, `expanded`, `outcome`. Actions: `MergeTemplates`, `MergePlan`, `Sync`, `Expand`, `Validate`, `Delete`. |
| `PlanRun` | what the vendored CRD says of `dependsOn`, `triggeredWhen`, `fanIn`, `hold`, `paused` | EXTENDS `DetectCycle`: the search runs, its verdict and the other graph rules accept the plan, it is sent (`Sent`: its steps as `project` leaves them, without triggers), and then `phase` of each step: `Spawn`, `OpenPR`, `Succeed`, `Fail`, `Cancel`, `TogglePaused`. |
| `LintRun` | `Run`, `templateMeta`, `LintDoc`, `main` of plan-lint, `api.go`; the schemas (`Conforms`) and the files they are held against (`Conformance`); what `discover` and `project` make of the same files | EXTENDS `PlanLint`. A file is the sequence of its YAML documents, each perhaps empty or undecodable. `tree`, `stage` of a pull request, `release`. Actions: `Lint` (in either output mode, with kubeconform: the whole required check), `Merge`, `Release` of any files of the tree. |
| `TemplateLibrary` | what the way of a template into the library promises | `merged` (versions main has held), `library`. Actions: `Merge`, `Publish`. |
| `TemplateSync` | `sync-templates-to-controller.sh`; the controller's repository as external | `templates` (catalog main), `library` (controller main), `branch` and what it forked from, `pull` (whose release its body names); per run `stage`, `head`, `base`, `found`. Actions: `Release`; `NoTemplates`, `Clone`, `NothingToPropose`, `ForcePush`, `LookUp`, `LookUpFails`, `Refresh`, `Open`, `Stops`; `MergePull`, `ClosePull`. |
| `StripComments` | `strip_yaml_comments` | The pass as a scanner over lines (`Scanned`, `Collapse`), and what YAML makes of the same lines: `Owners` (which block scalar a line is in), `IsYaml`, `Told`, `Meaning`: line for line, but for comments and blank lines outside of texts. `Repeats` are the lines `Collapse` takes out of texts. |
| `SyncedText` | both of these | `TemplateSync` whose `Emit` is `Strip`; the documents are sequences of lines of any length. |
| `*_proofs` | - | theorems and proofs of the module they are named after |
| `MC*` | - | finite instances: pools of trees, step lists, proposals, catalogs, texts |

How they are composed:

```
 DetectCycle -- extended by --> PlanRun             search, verdict, execution: one behaviour
 PlanLint    -- extended by --> LintRun             rules, and the run that applies them
 SubmitScope -- instance in --> PlanSubmit, LintRun the release; the same files read twice
 TemplateSync + StripComments --> SyncedText        protocol and texts
 PlanSubmit    -- implements --> PlanLedger
 TemplateSync  -- implements --> TemplateLibrary <-- implements -- PlanAdmission (Library!Publish is its Sync)
```

`TemplateLibrary` is the seam: `TemplateSync` is shown to do no more than it
allows, and `PlanAdmission` assumes no more of it, so the theorems about expansion
hold whatever the sync does. Likewise `GateIsLintCatalog` says that the
`LintCatalog` which guards `PlanAdmission` is what the gate's run computes.

Choices a reader should know:

* `held` and `deleted` in `PlanSubmit` are observers: no guard reads them. `held[r]`
  collects a request of run `r` at the moment the *server* created it or found it
  identical, so `GreenMeansHeld` relates the exit code to what happened on the other
  side of the network, not to what the run believes.
* `PlanLedger` owes what `Due` says, as requests; a file no request can be made of makes
  the whole debt unpayable (`Unusable`), so that such a release neither touches the
  cluster nor ends green. `See` has no guard on the verdict: a request that outlives
  its run is carried out after the run has ended, and the ledger says so.
* A request stays in `net` when its sender gives up or dies; plan-api may carry
  it out at any later time. An answer reaches a run only if it still waits for
  that file.
* `ApiReject` is any status but 2xx and 409. The verdict step may also answer
  `unknown` or `unreadable` whatever the cluster holds, which covers every body
  `classifyResubmit` does not recognise, among them one cut at 1 MiB.
* `Killed` covers eviction and the pipeline's own timeout.
* Every commit of the model has the previous one as its first parent: one merge,
  one commit. `BaseUnresolved` may also happen with a parent (a shallow clone).
* The files of a scope are walked in `sort.Strings` order (`Pos`, `Current`).
* `Sync` in `PlanAdmission` is a step of `TemplateLibrary`: each template of the
  library may move to any version main has ever held. `MergeTemplates` may take plans
  out of `plans/` that its templates no longer suit: a Plan object outlives its file.
* `agreed` in `PlanAdmission` is an observer: the templates a plan was reviewed with.
* `merged` and `alone` in `TemplateSync` are observers. `alone` holds the runs that
  no push of another run, no person, no failed call came across since they started;
  reading does not disturb anyone.
* The git host keeps at most one open pull request per branch and may refuse one
  with nothing to merge; merging is three-way by file (`Conflict`, `Combined`).
* A template file that a merge deletes is `Absent`; the copy loop never removes one
  from the clone (`Overlay`).
* A line of `StripComments` is its indentation, the column of its key (further right
  behind a dash) and one of four kinds. A text that `IsYaml` refuses is no
  YAML, and nothing is claimed of it.
* In `LintRun` a release may be of *any* files of the tree: what its scope is belongs
  to `SubmitScope`. `typed` says whether a document's fields have the types of the
  schemas, which are those of plan-submit's structs. `Conforms` looks at no more than
  the schemas do: they ask for no spec, no name and no apiVersion group, and let
  unknown fields pass; a name that is no string counts as none.
* `PlanAdmission` asks of a catalog what the rules ask (`LintCatalog`), not what the
  schemas ask: it accepts more than the whole gate.
* Parameters are a set of supplied names; what `${name}` is replaced by in a template
  step is not modelled, a template stands for one of its instances.
* Operators named in a comment as a *seeded fault* are mutated copies of the
  definition below them; no specification uses them.

## 3. The runs

| run | module, instance | asks | bounds |
|---|---|---|---|
| `amend` | `PlanSubmit`: 2 runs, 4 commits, 2 files, plan `p` absent / brief 1 / brief 2 beside an unrelated plan `q`, re-runs | `GreenReleasesAgree`, `CatalogIsLive`, `OnlyTouchedPlansAppear`, `ImplementsLedger` | Disagreement needs two runs and two briefs; a plan's return needs add, withdraw and a further merge, unrelated or late: four commits. Two runs give a green run to each of the commits two and three, in either order. |
| `mixed` | 2 runs, 2 commits, two files that declare one plan, or one of which has no steps; `-all` and re-runs | `TypeOK`, `GreenMeansHeld`, `BadFileSubmitsNothing` | Two files are the least with a failure *before* the last, and a bad file before or after a good one. |
| `ends` | 1 run, 2 commits, trees over 5 kinds of name with at most one plan, or two of names that could be taken for each other | `ScopeIsExact`, `EveryRunEnds` | Every move from one kind of name to another and every pairing: renames onto, off and between nested, example and plain names. Runs share only plan-api, of which nothing is assumed, so one is enough for its end. |
| `cycle` | `PlanRun`: all lists of up to 2 steps with repeated and missing names, 3 steps with distinct ones, dependsOn of up to 2 entries and one undeclared reference; every pair of steps over 5 dependsOn lists x 4 triggers x fan-in; chains and joins of three | `TypeOK`, `NoCycleMissed`, `NoFalseCycle`, `NeverWedged`, `Terminates`, `Approaches` | The triggers of the file are dropped by the projection; kept, they close circles that no rule sees. Three names give cycles of length 1, 2, 3, diamonds, a cycle not reachable from the first step, every way two steps can wait for each other, and a third in between. |
| `admission` | `PlanAdmission`: 81 plans of up to 3 steps (a deployable or privileged step, a use-step in five forms, a dependant, a fan-in gate or a triggered step) around 2 templates, each absent, in two accepted versions or in one the gate must reject | `TypeOK`, `ExpandsAsReviewed`, `GraphSurvives`, `VerifiedOnce`, `PrivilegeOnlyByTemplate` | Two versions per template give a library that is older, newer or mixed; the versions differ in their entries, their terminals and the parameters they require. |
| `sync` | `SyncedText`: 2 overlapping runs, 3 changes of `templates/`, 1 fault (failed call, dead run or closed pull request), 2 templates and an example, texts with a block scalar, `#` lines and gaps in it | `TypeOK`, `ImplementsLibrary`, `AloneDelivers`, `SelfHeals`, `PublishedLosesGapsOnly` | Three changes let one be reverted or amended while an older run still holds its checkout; two runs suffice for a push over a push; `c1` and `v1` differ in comments and in the length of a gap only, `v2` in a `#` line of the prompt, and one change removes a template. Two faults are not explored. |
| `lint` | `LintRun`: 4140 catalogs of a plan in `.yaml`, in `.yml` and in a subdirectory, a second plan, and templates; missing, empty, undecodable, ill-typed, misfiled and multi-document files, two templates of one name | `TypeOK`, `GateIsLintCatalog`, `AcceptedEverywhere`, `SentWasJudged`, `AcceptedIsProjected` | Each rule of `LintDoc` is broken once, and so are the schemas where they ask for more or look at more files than the rules (types, a trigger's phase; a `.yml` without a kind, without steps), a plan stands before and after its template, and a release has one file, several or one that fails. Before it starts, TLC evaluates `TextsAssumption`: `LosesGapsOnly` for every text of up to five lines over ten kinds of line (which section 5 proves for all). |
| `accent`, `sticks`, `skip`, `admits`, `verbatim` | | one documented promise each | section 6 |

The passing runs check these for the instance; the theorems of section 5 hold
for every instance. `CHECK_DEADLOCK FALSE` where runs are finitely many and end,
or the function returns.

Bounds are constants: `MaxCommits`, `Run`, the pools `SomeTree`, `SomeSteps`,
`SomePlans`, `SomeTemplates`, `SomeCatalogs`, and for the sync `MaxChanges` and
`MaxFaults`. `AllowAll` and `AllowRerun` switch operator behaviour on. Symmetry
(`Runs`) permutes the two runs in safety runs only.

Each property of a passing run has a mutant in `PROJECT.json`: a plausible bug in
one mapped definition under which TLC finds that property violated.

## 4. Fairness

`FairSpec` of `PlanSubmit` gives weak fairness to the local steps of a process that
knows its diff (projecting, finishing). Before that, `resolveBase` may run `git fetch`,
which has no context and no deadline (`changed.go:72`): all that is assumed is that it
returns *or* the pipeline's own timeout (30 minutes, `release.yaml`) kills the run. A run
with `-all` fetches nothing. Fairness also goes to the deadline (`context.WithTimeout`
fires by itself), and to leaving a call *once the deadline has struck* (an
`http.Client` call with an expired context returns). Nothing is assumed of
plan-api, of the token endpoint, of operators, or of releases being started.
`DetectCycle` is a sequential function: weak fairness of its next step
(`FairRunSpec` of `PlanRun` has it for the search, and none for the execution).

`FairSpec` of `TemplateSync` has three parts. A started script goes on, step by step;
its calls may still fail or the pod die (`MaxFaults` times: failures do not go on for
ever). Merges to the catalog go on, whatever they touch: the release pipeline
runs the script after each of them, and README and `release.yaml` call it a
reconciler, which heals only by being run again. And people merge a pull
request that can be merged for as long as it can; nothing is assumed when it
conflicts. Without the second part a lost POST is never made up for; that is what
the code does, not a weakness of the model.

## 5. What is proved

The proof modules are checked from nothing by `tlapm`. Assumptions on constants
are in the modules that declare the constants: `FileAssumption` (two paths of one
directory differ, `Pos` is a total order), the marker values lie outside the sets
they extend, `SubmitAssumption`, `StepsAssumption`, `NameAssumption` and
`InjectedAssumption` (authors' names are non-empty and none ends in the atom of an
injected step), `LintAssumption`, `AdmissionAssumption` (no step of a template has a
trigger: the schema does not say what would become of it), `NoPlanAssumption`,
`SyncAssumption` and `LintRunAssumption` (examples are templates, `Emit` maps documents
to chart files, catalogs are trees of files of documents). TLC evaluates all of them. The
theorems of `PlanSubmit_proofs` that speak of scope also assume `AsciiNames`,
without which they are false (section 6).

* `PlanSubmit_proofs`. `ScopeIsExactCorrect` needs no induction: `git diff`'s
  entries, parsed and matched by base name, are worked out to `Touched`. The other
  theorems rest on `IInv == TypeOK /\ Bookkeeping /\ Agreement`.
  `GreenMeansHeld` alone is not inductive: it says nothing of a run on its way.
  `Bookkeeping` says, for a working run, that what is left to do is due and
  clean; that while nothing has failed, all that is done was held; that a good
  answer waiting to be read is about the *current* file and was held; that
  every request in flight was owed by its run. `Agreement` says that a plan held
  once and not deleted since is still there with that brief: nothing else writes
  Plans and plan-api only creates. `Invariance` has one lemma per action.
  `OnlyTouchedPlansAppearCorrect`: a Plan appears by `ApiCreate` only, which takes the
  request it carries out from `net`, and `Bookkeeping` says whose and about which
  file of its merge that request is, however long ago it was sent.
  `CatalogIsLiveCorrect` takes, of each plan file main has changed, the last commit
  that changed it (`LastChange`: a greatest index exists), whose green run held
  that brief; `Agreement` does the rest.
  `ImplementsLedgerCorrect` is the refinement, from the same invariant: starting a run
  is `Start` (what it owes is fixed then: `MergeScope`, `Unmoved`), a create or an
  identical verdict is `See` because every request in flight is owed by a run with no
  bad file, every way to end is `End`, green only by way of `Progressing`, and all
  other steps, lost answers and state changes of a Plan among them, stutter.
* `DetectCycle_proofs`. `NoCycleMissed` (for distinct names) and `NoFalseCycle` (for any) by the classical
  white-path-free argument: black names depend on black names only, except that
  each frame's examined entries are black or grey, and the stack is a chain of
  dependsOn. Proved from sets closed under waiting, without paths.
  `ApproachesCorrect`: every step lowers `Left`, five numbers compared in order: phases
  of the program, turns of its loop, white names, calls to return from, entries of the
  innermost call. `Bounded` is the invariant that keeps them natural (the indices stay
  within one of the end of what they walk, a frame's name has an entry in `deps`).
  A call costs a frame but colours a name, and `color` is set before the recursion:
  that is all that makes the search end on a cycle. `NoEndlessSearch`: five naturals
  cannot go down in that order for ever (`Nearest`: among any of them there is a least).
* `PlanRun_proofs`. `RunsTheSearch`: every behaviour of `RunSpec` is one of
  `DetectCycle`'s `Spec`, so the search's theorems hold of it as they are.
  `RunInvariance`: a plan under execution has passed the rules, and is the one that
  was searched. `NeverWedgedCorrect`: what is sent has the dependsOn lists of what was
  searched and no trigger (`SentStep`); among the pending steps one waits for no
  pending one (R11), and with nothing active or broken all others have Succeeded.

* `PlanAdmission_proofs`. `ExpansionSound` is a theorem about operators, for plans,
  templates and names of any number: an accepted template has a terminal step
  (`HasTerminal`: take a smallest set of steps closed under "waits for one of it"),
  so a rewired dependsOn is not empty and R13 survives; every reference of a node
  names a node, so R8 survives; and for R11, given a set of nodes, among the steps
  they come from one waits for none of the others, and inside its template again
  one does. `SubmissionSound` says that projection and injection keep R7, R8, R11
  and R13. The state invariant `Inv` then only has to remember where the Plan and
  its expansion came from; the four properties follow from it.

  `LibraryIsTheSyncs`: every step of `PlanAdmission` is one of `TemplateLibrary` or
  leaves its variables alone.
* `TemplateSync_proofs`. `IInv` adds to the types `Provenance` (a checkout holds, and
  the branch *changes* a file to, only what main has held; what the branch merely
  carries along came from the library) and `Undisturbed` (what a run still in
  `alone` knows: its clone is the library, after the push the branch is its own,
  what it found is still open). `ImplementsLibraryCorrect` is the refinement: the
  initial states agree, a `Release` is a `Merge`, `MergePull` a `Publish` by
  `Provenance`, all other steps stutter. `AloneDeliversCorrect` follows from
  `Undisturbed`: a merge of a branch forked from the very library cannot conflict.
* `LintRun_proofs`. `Invariance`: a verdict is `Run`'s and the schemas' on a tree that
  does not change under it, and what was released is what `Sends` makes of it. From there the four
  properties are facts about operators. `SentWasJudgedCorrect` and
  `AcceptedIsProjectedCorrect`: a document `project` accepts that is at the head of
  a linted file has been decoded, so `LintDoc` held of it, and conversely;
  `ReleasedConforms` adds what the schemas have held of it, in a `.yml` file too.
  `GateIsLintCatalogCorrect`: with one template per name `BuildIndex` does not depend on
  the order of documents. `AcceptedEverywhereCorrect`: rules read the index only
  for a template a step uses, and R15 lets a missing one pass, so a smaller index
  breaks none.

* `StripComments_proofs`. `StripLosesGapsOnly`: for a document of any length that is YAML,
  what is left says, line for line, what was there without its `Repeats`. The pass and the definition of block scalars
  are recursive *functions* on numbers, so what they compute can be proved by a least
  counterexample in `Nat` (`Induction`, from `WFMin`), one number at a time:
  `Scanning` says what `Scan` has after `n` lines, `Owning` whom the first `n` lines
  belong to. The argument then is about three documents, the text, what the pass let
  through and what is left after `Collapse`, and the places of each in the one before
  (`AtFacts`, `Places`):
  - `Covered`, `OwnedKept`: a line of a block scalar's text is one the pass took for
    body too, so it was kept; a line the pass keeps by mistake (a comment after the
    text, deeper than its header) is in `After` and means nothing. The two indentations
    differ (`l.indent <= l.key`, a header behind a dash), and `IsYaml` is what
    excludes the lines in between (`NextIsShallow`).
  - `DroppedStays`, `OutStaysOut`, `OwnersKept`: taking lines out that are comments
    outside every text, or second blank lines, changes the owner of no other line:
    neither a block scalar grows over what followed it, nor does one end early.
  - `TextKept`, `GapKept`, `EndedKept`: where a text begins, ends and has gaps is
    the same afterwards, so `MeansKept` and `MeansLeft` pair the lines that mean
    something in the one with those of the other, in order (`AtAt`).
* `SyncedText_proofs`. `PublishedCorrect` composes the two: `Authored` is inductive
  (every checkout, every file the branch changes or carries along and every file of
  the library is some document main has held under that name, stripped), on top of
  the `IInv` of the protocol; `StripLosesGapsOnly` says the rest.

Only model-checked: `EveryRunEnds`, `Terminates` and `SelfHeals` (liveness under
fairness), and of course the five violations. Of `Terminates` the safety half is
proved (`Approaches`, `NoEndlessSearch`); that a search which has not ended can take
a step is ENABLED, and TLC's.

## 6. Where the code and its documents disagree

* `sticks`: scoping "makes deletion stick" (`changed.go:17-19`). A release of an
  earlier merge that runs late, or is run again, recreates a plan whose file is
  gone and which was deleted. What does hold is `OnlyTouchedPlansAppear`: it is always
  such a release, by a request for just that file, and never an unrelated merge's.
* `skip`: "The on-cluster plan already matches this file" (`resubmit.go:85`). The
  verdict is about the request; a merge that changes only fields `project` leaves
  out is green and applies nothing. What does hold is `GreenReleasesAgree`.
* `accent`: `changedPlanFiles` "returns the plan files under dir that base..HEAD
  touched" (`changed.go:39-41`). git quotes non-ASCII paths and the quoted text
  matches no file. What does hold is `ScopeIsExact` under `AsciiNames`.
* `admits`: "a Plan the catalog accepts is a Plan the controller will actually run"
  (`lint.go:14-17`). R7 compares the names a plan is written with; a
  use-step `b` of a template with a step `l`, beside a step named `b-l`, is accepted
  and expands to two steps of one name, which the controller rejects. What does
  hold is `GraphSurvives`: nothing else can go wrong with the graph.
* `verbatim`: of block scalars the filter "copies their body verbatim"
  (`sync-templates-to-controller.sh:73-77`). The second pass (100-108) collapses runs
  of blank lines over the whole document, bodies included: a gap of two lines in a
  prompt becomes one. What does hold is `PublishedLosesGapsOnly`: nothing else of a
  body is lost, and no `#` line of it.

Seen on the way, without a run:

* `lint.go:57-58` says triggeredWhen is not forbidden on a use-step, the CRD
  (`agent.leartech.io_plans.yaml:459-461`) that it is; no plan submitted by this
  catalog carries one, since projection drops it (`skip`).
* The gate lets steps pass that wait for each other by triggeredWhen, or in a mix of
  both ways: `detectCycle` follows dependsOn only. No plan of the catalog wedges by it,
  since the trigger never gets to the cluster: `NeverWedged` holds, and breaks when the
  projection keeps triggers. Templates reach the library with theirs; no model
  follows them there.
* The scan of `strip_yaml_comments` knows no block scalar behind `- |`, none with a tag
  or anchor, and none whose key holds a `#` or a `:`. `Told` leaves the blank lines at the
  end of a text out, which is right for `|` and `|-` but not for `|+`. No template of the
  catalog has any of these.
* A merge that reverts templates to what the controller has stops at the empty diff;
  the pull request of the reverted change stays open and can be merged. The
  next release of any merge then puts it right (`SelfHeals`), by a second pull request.
* The body of the sync's pull request may name another release than the one whose
  templates the branch carries, when two runs overlap. `AloneDelivers` says what
  holds of a run that was alone.
* The gate judges every document of a file, a release sends the first only; an empty
  first document, or a template under `plans/`, passes the gate and fails the release,
  with every other plan of that merge. Fields of wrong types (`dependsOn: a`) pass
  R1-R27, but not kubeconform, which is part of the same required check:
  `AcceptedIsProjected` needs both layers.
* plan-lint reads `.yaml` files, kubeconform and plan-submit `.yml` files as well: such a
  plan is submitted with its schema checked and none of the rules, R5 among them.
  `SentWasJudged` says what that leaves.
* Two templates of one name are both accepted; the index takes the later one, the
  sync publishes both, under their file names.

## 7. What is not modelled, and the plan

Not modelled for good: the advisory reviews (a model gateway's prose, which
gates nothing), cluster verify (the apiserver decides, of top-level `.yaml` files, and
without access to a cluster it passes; the models accept what it would refuse),
rulesdoc (prints a table), YAML's grammar beyond block scalars, HTTP and TLS. Of the
lint rules, R15, R18, R25 and R27 only warn.

What the models take from outside, and would be wrong if it were: plan-api only
creates, and answers 409 by a second call; the controller expands and validates as
the vendored schemas say; the git host keeps one open pull request per branch; what
merges is what was linted (the merge bot is not part of this repository).

Left, in this order:

1. `PlanRun` on expanded plans: `GraphSurvives` and `NeverWedged` composed, so that
   an accepted plan with templates never wedges; substitution of parameters.
2. A measure for a release, as `Approaches` is one for `detectCycle`, so that the
   safety half of `EveryRunEnds` (no more than so many steps) is proved as well.
3. Pushes of several commits (`HEAD^` is then not main's previous tip).
4. The sticky comment of `plan-lint-comment.sh` (look up, then create or patch, by
   two runs), and crd2schema's normalisation of a schema as a function.
