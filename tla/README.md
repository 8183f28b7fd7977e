# SessionScope in TLA+

SessionScope is a static scanner for session and token lifecycles: a Rust
workspace under `src/crates/` that walks a repository, runs detectors on each
file, links the evidence into lifecycle paths, classifies findings, writes
reports and, in enforce mode, turns findings into an exit status. A GitHub
Action wraps it. This directory models what it decides and when: the parts in
which the order of steps, failures or shared state settle the result, and the
detectors and classifiers as functions, over repositories that change. TLC
checks them on small instances; TLAPS proves the most important invariants for
every value of the constants.

## The system

| Part | Code | State it keeps | Operations | Hard behaviour | What makes it correct |
|---|---|---|---|---|---|
| Discovery | core `discovery.rs`, `config.rs` | sorted lists of files and of skipped paths | walk, classify an entry by kind, globs, size | the tree changes after it was looked at | every path is scanned or skipped with the reason that applies |
| Source reading | core `source.rs` | a handle, a buffer | validate, open, validate again, size, probe, read to the cap, probe for more | files grow, shrink and are replaced between the calls | a bounded body, whole, from inside the tree |
| Scan pipeline | core `pipeline.rs`, detectors `registry.rs` | per-thread results and panic counts, joined results | chunk, spawn, scan a file under a deadline, contain panics, join, sort, publish | threads in any order; panics and deadlines half way through the registry; threads that die | one entry per file, all or none of a file's evidence, right counts, an end |
| Panic hook | core `pipeline.rs` | the hook of the process | take, set, restore | scans side by side in one process | a payload is not printed, the hook is restored |
| Detectors | detectors `*/mod.rs` | scopes, aliases, groups of calls of one file | match syntax nodes and lines, group by name, merge attributes | aliases that are overwritten, calls that share a name, wrappers, nested scopes, neighbourhoods of lines | evidence the text supports, none of it talked away by other code |
| Lifecycle linking | classifier `lifecycle.rs` | paths that passes merge in place | build, merge revoke, merge query, merge refresh, sort | merging while iterating; ids that repeat; metadata derived before or after a merge | nothing lost, nothing told twice, metadata of what is there |
| Findings | classifier `*.rs` | none | rules over artifacts, evidence and paths; merge | rules that contradict each other, look-ups over the whole report, ids that repeat | findings the evidence supports, each in its own file, handler and flow |
| Capability filter | core `capability.rs` | sets of ids that grow | select, widen, filter, summarise again | one pass in the order of hashes | a view has the findings of its area |
| Redaction | core `redaction.rs` | none | rewrite strings | applied twice to some reports | no secret, idempotent |
| Baseline and diff | core `baseline.rs` | matched ids | match by id, by fingerprint, report new ones | ids that repeat, several candidates | every finding told once, moves found |
| Commands and policy | cli `commands/*`, `enforcement.rs`, `project_config.rs` | files in the working directory | scan, evaluate, baseline create, diff, explain, init | killed in mid write, files that change between commands, one file as input and output | a verdict that follows the policy, after the reports |
| GitHub Action | `scripts/github-action.sh` | a reports directory shared by the job | check inputs, scan, prefix SARIF, summary, outputs, evaluate, EXIT trap | `set -e`, a trap, a directory used twice | the status follows this use's inputs and scan, what is published is there |
| Reporters | reporters `*.rs` | none | render | none | stable output |

Interaction: the CLI calls `scan_path`; discovery hands a sorted file list to
the pipeline, whose threads read sources and run the registry of detectors; the
merged report goes to `classify`, which links paths and adds findings; a
focused view filters it; reporters render it to files; enforcement reads the
baseline file and the sanitized findings. `evaluate`, `baseline create` and
`diff` meet the other commands only through files, and so do the two commands
the action runs.

## Modules

From the tree to the report:

| Module | Models | How |
|---|---|---|
| `SourceRead` | one path through `discover_files` and `read_source_under_root` | every system call is a step; `Append`, `Truncate`, `Replace` are other programs |
| `ScanPipeline` | `scan_files`, `scan_file`, `run_with_deadline`, the tail of `scan_path` | `files`, `discoverySkips`: discovery's lists. Per thread `pc`, `next`, `late`, `output`, `local`, `localPanics`: the closure's locals. `joined`, `results`, `workerPanicCount`, `report`: the main thread's. `Spawn`, `JoinReturned`, `JoinPanicked`, `Publish` are main steps; `StartFile`, `ReadDone`, `BeginDetector`, `EndDetector`, `KeepOutput`, `TimeOut`, `FinishFile`, `CatchPanic`, `Die`, `Return` a thread's |
| `ScanContract`, `ScanRefinement` | what a scan promises: a verdict per path, given once, lost only with its thread; the report is the verdicts left | the abstract specification, and the mapping of `ScanPipeline` to it (`ImplementsContract` is a property of the run) |
| `PanicHook` | `SuppressedPanicHook` | `hook` is the process's; `TakeHook`, `SetHook`, `DetectorPanics`, `DropHook` |

What is found, as functions of the source:

| Module | Models | How |
|---|---|---|
| `Report` | the fields of artifacts, evidence and findings that rules read; which facts an id is hashed from | records; `Fire` makes findings of a table of guarded rules |
| `Source` | a file: its path, language and syntax nodes in preorder, each with the function it is in | `Inside`, `Innermost`: scopes |
| `Words` | what the word-matching detectors find in a text, and how signals are grouped into artifacts | a text is the set of the words it contains |
| `CookieCode` | the cookie detector: calls of cookie APIs, headers, wrappers and their expansion, options in variables, `session()`, Django settings | `CookieCalls(f)`, `CookieArtifacts(f)` |
| `JwtCode` | the JWT detector: imports and aliases, options and payloads in place or in variables, grouping of calls by name, merge of attributes, key headers and key maps | `JwtCalls(f)`, `JwtArtifacts(f)` |
| `BearerCode`, `ClientCode` | the detectors of bearer tokens and API keys, of browser storage, of query parameters | signals of a node, grouped |
| `SessionCode`, `RefreshCode`, `ResetCode` | the detectors of session transitions, refresh tokens, reset and verification tokens | likewise |
| `OAuthCode` | the detector of authorization code flows | a flow and the lines around it |
| `CookieRules`, `JwtRules`, `BearerRules`, `TrustRules`, `OAuthRules`, `FixationRules` | every rule of the classifiers of that name (browser storage and query parameters are in `BearerRules`) | findings as a function of the report |
| `Audit` | a repository that is edited and scanned: the registry over all files, then `classify` | `Commit` appends a statement to a file, in any function open there; the report is that of the code |

From the report to the paths:

| Module | Models | How |
|---|---|---|
| `LifecycleLink` | `link` and its three passes | `paths`, `gone`, and the loop indices `i`, `j`; one step per iteration, `SortPaths` at the end |
| `LifecycleRules` | the ten rules of `lifecycle.rs` over the linked paths | findings as a function of the final state, `RulesSpec` |
| `CapabilityFilter` | `filter_report` for cookies, logout and refresh | the walk over the paths as a recursive function |

From the report to the exit status:

| Module | Models | How |
|---|---|---|
| `BaselineDiff` | `diff_baseline` | the two lists, `matched_baseline`, `matched_current`, `changes`; one step per iteration of the three loops |
| `PolicyGate` | `scan`, `evaluate`, `baseline create` over files | `disk`, `config`, `tree`, and the running command; `OpenOutput` and `FillOutput` are the two halves of `fs::write`; `WriteFails`, `Kill` end a command anywhere |
| `ActionRun` | `github-action.sh`, used several times in a job | extends `PolicyGate`: its steps run between those of the script (`CheckInputs` to the trap), which adds failures and a kill of its own |

`MC…` modules hold instances and bounds, `…Proofs` modules theorems.

`PROJECT.json` maps each definition to the lines it stands for. Definitions
whose comment starts with "Slip" are what a plausible mistake would make of the
next one; no specification uses them, and substituting one breaks the property
`PROJECT.json` names with it.

### Abstractions

- **ScanPipeline.** A path is its rank in path order; paths are taken to be
  distinct (a skipped path outside the root is displayed by its basename
  alone, so two such paths could collide). A detector's output is its index in
  the registry: what is found is `Audit`'s question. The clock is a flag per
  file that may be raised at any step. A detector may panic anywhere, and a
  thread may die outside `catch_unwind`, where an allocation can fail.
- **SourceRead.** Lengths are a few units. Discovery is one step; the read is
  one step per system call, and `read_to_end` one per `read`. Glob matching is
  an input. Read errors and invalid UTF-8 can happen at any call that can
  fail.
- **Detectors.** Parsing is an input: a file is the list of the syntax nodes
  detectors look at, one statement to a line, calls flat (a call in an argument
  of another is not built). A `Cookie` or `Jwt` node is seen by the detector of
  that name and by none of the word-matching ones. Text is the set of the words
  the detector looks for; words every list has together are one. How far
  a detector climbs (16 ancestors) and the 12 000 characters of a context are
  not reached by files of this size and are left out, and so are the framework
  hints of sessions and the path words in the hints of OAuth flows. A value of a JWT's
  attribute is the place of its text in alphabetical order and the words it says, so which
  three an observation keeps is as in the code; that a key reference counts as public for
  ending in `.pem`, which depends on the last of them, is left out.
- **Rules.** Wording is left out. Findings are a set: the order in which
  findings, and groups of one line, are listed is layout. An id is the tuple of
  facts it is hashed from; the order of ids is any fixed one, as that of hashes.
- **Audit.** A file only grows, at its end. Reset and verification tokens are
  judged by `LifecycleRules`, not here.
- **LifecycleLink, LifecycleRules.** A piece of evidence is the facts its id is
  hashed from; names are normalized names; the wording and `framework_default`
  that `refresh_path_metadata` derives are the `stamp`. Paths absorbed by a
  pass are in `gone` where the code shortens the vector. Artifacts are those
  the detectors emit together, as catalogued in `MCLifecycle`; evidence that is
  no artifact's takes no part.
- **CapabilityFilter.** The `claims` view, about JWT claims, and the counters of the
  summary are left out.
- **BaselineDiff.** A fingerprint is a number, the semantic and the evidence
  one together. A change names its findings by index; the sort of the changes
  is layout. Lists may repeat an id and a baseline may be unsorted: nothing in
  the code that reads the files excludes either.
- **PolicyGate.** A finding is an id with a severity and a category. What a
  scan finds is the variable `tree`, which changes whenever it likes. A file is
  absent, torn, a text (which tells of ids), a report or a baseline. The
  configuration and files change under no running command: commands are taken
  to run one at a time.
- **ActionRun.** The inputs of a use are one record. Getting the release binary
  is one step that works or fails; `publish`, an append of a few lines to
  `GITHUB_OUTPUT`, is atomic. While a command runs it is the command that is
  killed. The branch on `enforcement_path` is dead: nothing in the script sets it.

## Runs

| Run | Asks | Size |
|---|---|---|
| `scan_pipeline` | safety, termination and refinement of the parallel scan | 4 files, 2 threads, 2 detectors |
| `source_read` | the read of one path beside a changing tree | cap 2, lengths to 4, one replacement |
| `audit` | what edits of a repository do to its findings | nine repositories of up to three files, 3 or 4 statements of up to eleven |
| `lifecycle_link` | bookkeeping and locality of the passes, what the rules and the views make of the paths | all lists of up to 4 artifacts of a detector group and up to 3 of 18 classes, ids in both orders |
| `baseline_diff` | the three passes over any two lists | up to 2 findings a side, 4 ids, 2 texts, 2 places |
| `policy_gate` | any sequence of commands over files | 7 command lines, 4 configurations, 2 findings, 3 files |
| `action` | jobs that use the action twice in one directory | 7 kinds of use, any failure or kill |
| `payload_discarded`, `password_change`, `issued_unvalidated`, `output_over_baseline`, `finding_ids` | a sentence of a doc or a comment that the code does not keep | see Findings |

Why the bounds are enough. Four files and two threads give two full chunks, a
full one beside a shorter one, one chunk for two threads and no file at all;
two detectors put a deadline and a panic before, between and after detectors.
A cap of two with a probe of one and lengths to four separates shorter,
exact, one over and growing files, and NUL bytes in and beyond the probe.
`audit` has a repository for each family of detectors that can meet, with a
statement for each thing its rules tell apart, one where flows and reset tokens
meet, and two of statements whose text grows, as code is added to a callback;
three statements are a function, a call in it and a call that could answer for
it, four a second scope or flow besides, and every property is about two of
them and what comes between or after. In the first repository a function can be
at the first byte of a file, and a ninth has four calls of one JWT that give
more values of `algorithm` than an observation keeps. The flow and link
distances of two let a line be near one flow, near two and near none. The
eighteen artifacts of `lifecycle_link` are one per class the linkability rules
distinguish, three lines apart by the link distance so that one bridges the
other two, and three are needed for a merge that enables or prevents another;
lists of four are of eight groups of artifacts that meet: in one handler, at a
logout, under one name.
Two findings a side are a match, a competitor and a leftover in each pass. In
`policy_gate` the command lines cover each place a value can come from, each
kind of file a command reads, outputs in two formats and a focused view; the
sequence of commands is unbounded. Two uses are what a shared directory can go
wrong with: one that leaves something and one that finds it.

### What the properties say

- `BoundedInFlight`, `FileOwnership`, `NoPartialEvidence`, `PanicAccounting`,
  `ReportComplete`, `ScanReturns`, `ImplementsContract`: the division of files
  into chunks bounds the bodies in memory and gives no file to two threads; a
  result carries all detectors' output or none; every panic is counted once;
  the report lists every file once, in order, but those of threads that died;
  the scan returns.
- `BodyWithinCap`, `TooLargeWasTooLarge`, `AcceptedAtEnd`, `AcceptedFromTree`,
  `ReadFinishes`: a body never exceeds the cap, a file of exactly the cap is
  read, no file is scanned as a prefix of itself, one replacement of the path at
  any moment lets nothing from outside in, and a file that keeps growing does
  not keep the worker. Two replacements, one before the open and one after, do
  escape the checks by name: that is the limit of `AcceptedFromTree`.
- `Grounded`, `NamedFindingsUnique`: findings cite what is in the report and a
  misconfiguration rests on something the source says; but for JWTs without a
  name, ids tell findings apart across all rules, files and artifacts.
- `LocalRules`: the rules that look things up in the whole report still judge
  each file by itself. (Those about bearer tokens and trust boundaries do not
  claim it.)
- `WorstCallCounts`: JWT calls of one name are one artifact, and no call hides a
  check another lacks. `OneStorageReport`: of the two classifiers that see a
  token stored in the browser exactly one reports each place.
  `ConflictsInOneHandler`: conflicting cookie writes are reported for the pairs
  of one handler, all of them and no others; but a handler is told by the byte its
  function starts at and the top level by 0 (cookies/mod.rs:199-208), so a function at
  the first byte of its file is one with the code outside of all functions.
- `NeverTalkedAway`, `FixationStays`, `SettledFlows`: what is reported stays so
  while code is written that is not about it: a later call, another handler,
  a later flow. Each says what it cannot promise, because the code does not keep it.
  A query parameter that is accepted as a token, a misconfiguration, is only a
  review once the file also reads it under a computed name, since one dynamic read of
  the name makes its artifact uncertain (query_params.rs:62). Code added to the
  callback of a call is part of the call's text, and can turn what the call
  transmits into what it reads. A handler that becomes a login because of what is
  added to it takes the regeneration inside from the export beside another login,
  which is then reported for both. A configuration file that turns out to hold expected
  results (bearer/mod.rs:1280) is no longer searched for tokens,
  so a line added to it can silence all it said. The calls of one name are one JWT, and of
  the values its calls give an attribute the first three in alphabetical order are kept
  (jwt/mod.rs:833-842): a later call whose `algorithm` sorts before an earlier one's can take
  `jwt_alg_confusion_signal` or `jwt_alg_none_accepted` away when they rested on the value
  left out; what the allow-lists of the calls say by themselves stays reported.
- `NothingLost`, `NothingTwice`, `StampCurrent`, `RefreshStaysLocal`,
  `NoStrayRevoke`: merging conserves evidence, derived metadata is
  that of the final content, an artifact is merged with others, where all of its name are
  refresh tokens, only if it is near one of them or shares evidence with it, and
  no reported revocation could still be merged with a path whose artifacts are of its type and name.
  (With artifacts of other types in either path one can: which of them represents a path
  changes as it is merged.)
- `RevokedNotReported`, `ClearingIsNotRevoking`, `LogoutNearToken`,
  `ViewKeepsItsFindings`: through all the merging, a revocation near every
  token of a path silences the finding that there is none, whatever tokens of its type it was
  merged into; clearing a cookie does not, neither for a refresh token nor for a session whose
  name no token of another kind has; a logout is held only against tokens near it; a focused view has
  the findings of its own rules. With a revocation near *one* token of the path
  the first does not hold: the refresh pass is one sweep per target
  (lifecycle.rs:161), and a source it has passed stays apart.
- `EachToldOnce`, `NoIdUntold`, `NoMissedMove`, `MovesAreMaximal`,
  `QuietAgainstItself`: each finding is in one
  change, also over several passes; no id disappears; a moved finding is not
  told as resolved and new; a report against its own baseline is quiet.
- `VerdictFollowsPolicy`, `ReportsBeforeVerdict`, `OnlyWholeInputs`: the exit
  status is that of the policy and of the baseline as it was when the command
  started, reports are whole before it is given, and what a crash left is
  refused rather than read as empty.
- `StatusFollowsInputs`, `LeavesWhatItPublished`: a use of the action passes or
  fails by its own inputs, its own scan and its baseline, whatever an earlier
  use left in the directory; when it ends, what it published is on disk, whole
  and its own, and a JSON report nobody asked for is gone unless the script was killed.

### Fairness

`ScanPipeline` assumes weak fairness of the main thread's step and of each
thread's steps: the operating system schedules runnable threads, and a
detector's call returns (nothing interrupts one that does not; the code
checks its deadline between calls). `SourceRead` assumes it of the reader and
of no other program. `LifecycleLink` and `BaselineDiff` are sequential and have
no liveness property of interest: their loops are over finite lists. `Audit`,
`PolicyGate` and `ActionRun` state no liveness: nobody has to commit, to run
a command or to start a job.

### Findings

Each is the counterexample of a run; `PROJECT.json` quotes the sentences.

- **`payload_discarded`**: the panic hook is the process's; scans side by side
  take it from each other, and a payload is printed.
- **`password_change`**: all password-change handlers of a repository are one
  path, and a global revocation near one silences the finding about another.
- **`issued_unvalidated`**: a merged path is judged by the artifact with the
  smallest hash; a query parameter can make a JWT's path no JWT's.
- **`output_over_baseline`**: a report written to the baseline's path is the
  baseline by the time it is read, so nothing blocks.
- **`finding_ids`**: two JWTs without a name that share an options variable give
  two findings one id.

Met while modelling, without a run of their own (the model does what the code
does in each):

- Scan: a thread that dies outside `catch_unwind` is counted as a panic but has
  no entry, and its files leave the report (pipeline.rs:173).
- Linking: a refresh JWT by type alone (`app_refresh_token` in the browser, say) is linked
  with a cleared cookie of that name wherever both are: `revoke_paths_are_linkable` asks for
  context only where both are refresh artifacts, and the cookie's is by its name (lifecycle.rs:1333).
  A JWT kept in the browser as `refresh_jwt` is an access JWT by type and a refresh
  token by name (client_storage/mod.rs:254). `bearer.revoke` is no revocation to the
  rules of refresh tokens (lifecycle.rs:949).
- Linking: revoke-only paths merge without regard to source context, though
  `docs/SCHEMA.md` speaks of one; `refresh.rotate` and
  `refresh.reuse_detection` give two artifacts one id, which can end in two
  reported paths.
- Views: the logout view looks for words in ids, which are hashes, so its rule
  about artifacts never holds (capability.rs:135), and evidence of
  `refresh.revoke` and `password_change.global_revoke` is not in it
  (README.md:121). Findings of other areas in a view, and evidence its paths name, depend on
  the order of path hashes. A view counts the summary again, and skipped files
  and panics vanish from it (capability.rs:91).
- Sessions: a `login` call inside `def login…` is its own handler
  (session_fixation.rs:117-132); transitions outside of any function, as
  exported arrow functions are, are never silenced. `revokeAllSessions` is
  taken for a destroyed session before it is taken for a global revocation.
- JWTs: verification without an allow-list is hidden by an algorithm that
  signing gives (docs/COVERAGE_MATRIX.md:50); of more than three algorithms in the calls
  of one name, which are judged depends on how they are spelled (jwt/mod.rs:838).
- Cookies: two writes are called "in one handler" (cookies/mod.rs:402) when one is in a
  function at the first byte of the file and the other outside of all functions, and what
  such a function says of its options in a variable, or sets of Django's, is taken for the
  top level's. `cookie_excessive_expires` never fires; shorthand members are
  reported as missing with confidence (SS-DEC-001); the default `sameSite` of
  `session()` cites evidence of defaults (SS-DEC-002).
- OAuth: evidence between two near flows counts for both; a flow over two
  lines (`authorizationUrl({` and `response_type: 'code'`) is two flows;
  `state` and `nonce` on a line of their own are no evidence
  (docs/FRAMEWORK_COVERAGE.md:111); `state !== storedState` is not taken as
  verified (docs/SARIF_RULES.md:217); any literal with a bare host on the line makes a
  redirect URI broad. Reset tokens: the first expiry line of
  a file counts for both families.
- Action: two uses of a job share a directory (github-action.sh:70), so a later
  one overwrites what an earlier one published, and a stale SARIF report stays
  when a later use writes none; an empty `fail-severity` is passed on in
  enforce mode and fails the evaluation (github-action.sh:497).

## Proofs

All proofs are checked by `tlapm` to the last leaf, from the assumptions named
in the modules: `PipelineAssumption`, `ReasonsApart`, `SizeAssumption`, `LinkAssumption`, `IdAssumption`,
`DetectorAssumption`, `DiffAssumption`, `GateAssumption`, `ActionAssumption`, `AuditAssumption`. Two of these say what a
report can hold: `IdAssumption` that artifacts of one id have one type and name, which are hashed
into it; `DetectorAssumption` that a logout handler is an artifact named `logout`,
which no JWT is (the detectors give JWTs three fixed names), and which calls revoke a
refresh token. TLC checks both on the reports of `lifecycle_link`. `AuditAssumption` says what a
repository is: files of distinct paths, and statements with the fields the detectors read, in files
of configuration only lines; TLC checks it on the nine repositories of `audit`.

- **`ScanPipelineProofs`**: `TypeOK`, `NoPartialEvidence`, `BoundedInFlight` for
  any number of files, threads and detectors. `IInv` adds what they need:
  where a thread stands in its own chunk, that its results are those of the
  files before it (so `files[next[w]]` exists), and that the output kept so
  far is a prefix of the registry. `BoundedInFlight` is arithmetic about
  `len.div_ceil(workers)` and needs no induction over steps.
  `FileOwnership`, `PanicAccounting`, `ReportComplete` for any number of files
  and threads are in the second half. The chunks are shown to be a partition
  of the file list, which gives ownership at once. The rest is an invariant of
  its own, `AccountInv`: each thread's count is that of the panic entries it
  recorded, it returns at the end of its chunk, and what has been joined is the
  chunks of the threads that returned, with as many panics as their entries
  and the dead threads make. Without the third part nothing ties `results` to
  the chunks when `Publish` sorts them; that sorting keeps entries and their
  number is `SortPaths` and `SortPanics`.
- **`ScanPipelineProofs`**, last part: `ImplementsContract`. A push is a `Settle` of a
  path of which nothing was known, `Die` is a `Lose` of the thread's chunk, the
  publication a `Publish` whose list has the verdicts that are left; every other
  step stutters. `StatusInv` adds that an entry of `results` is one its thread
  recorded, with the status it gave.
- **`SourceReadProofs`**: `BodyWithinCap`, `TooLargeWasTooLarge`,
  `AcceptedAtEnd` for any cap and sizes: what has been read is what lies before
  the position, and a probe that answers found the file longer than the cap.
  `AcceptedFromTree` holds with at most one replacement of the path
  (`MaxReplacements <= 1` is a hypothesis of the theorem): two in the right
  places go past both checks.
- **`LifecycleProofs`**, first part: `TypeOK`, `NothingLost`, `NothingTwice`,
  `StampCurrent` for every report, whatever the linkability rules answer: only
  the bookkeeping of the passes is used. The invariant `Inv` says that live paths
  hold all evidence, that the refresh pass looks only forward from a live
  target, and that the metadata of that target alone may be out of date.
- **`LifecycleProofs`**, second part: `RefreshStaysLocal` and `NoStrayRevoke` for every
  report, from `LinkInv`, which says what the rules are for. A path holds
  artifacts with all their evidence, and a live path its own (`Homes`); but for the
  open target of the refresh pass its ids are sorted (`Sorted`), so that its
  representative is that of the reported path; until the refresh pass a path has one
  name, or session aliases only (`Homonyms`). `Locals` is `RefreshStaysLocal` of every live
  path. `Unstray` is `NoStrayRevoke` of the paths the revoke pass has been at,
  strengthened: what is like such a revocation and was not merged needs to be near
  it and is not; later merges keep that only because they bring in nothing of the
  same kind that is near. `Waiting` and `Caught` follow a revocation of
  refresh tokens: each path of tokens it is near is, until the end, the path it is in or still
  ahead of the loops. `Caught` says it only of a revocation that is told with
  tokens of its own type, and of tokens each of which is near: TLC refutes it without either.
- **`LifecycleProofs`**, last part: `RevokedNotReported`, `ClearingIsNotRevoking`,
  `LogoutNearToken`, `ViewKeepsItsFindings` for every report the detectors emit. The
  rules look at the one artifact that represents a path, so the invariant
  (`AllJudged`) is about who that is: a path that names a refresh token is
  represented by one, one that names a session by an artifact of that kind, a
  logout handler only by another. When the refresh pass is over `Caught` becomes
  `ToldTogether`: a revocation is in the path of the tokens it is near. A view only ever adds to what
  it keeps: `WalkedKeeps` is an induction over the order of the walk, by
  the library's `NaturalsInduction` in its form for sets.
- **`BaselineDiffProofs`**: `TypeOK`, `NoIdUntold`, `EachToldOnce`,
  `NoMissedMove`, `MovesAreMaximal`, `UntouchedIsSame` and `QuietAgainstItself` for all lists. The
  invariant ties `matched_baseline` and `matched_current`, which hold ids, to
  the changes told, pass by pass. For a report against itself it is
  strengthened by `Steady`: the first pass has told `unchanged` of each finding
  before `i`, and the later two find every id matched. For
  `MovesAreMaximal` it is `Paired`: what is told as a pair has one id, or is a move of one
  text between ids only one side knows. The moves are then an injection between the
  findings only the baseline and only the report knows, and as no move is missed it
  exhausts the smaller side.
- **`ActionRunProofs`**, first half: `TypeOK`, `VerdictFollowsPolicy`, `OnlyWholeInputs`,
  `ReportsBeforeVerdict` of `PolicyGate` for all findings, paths, command lines and
  configurations. The invariant says that the options in force are those of
  the command and the file, that only outputs have changed since the start,
  and that each output is written or still in `todo`. `BuildSays` relates the
  merged options to what each source says. `GateStep` and `GateReports` state
  a step of a command for a specification that has other steps besides.
- **`ActionRunProofs`**, second half: `StatusFollowsInputs`, `LeavesWhatItPublished`, and the
  commands' `VerdictFollowsPolicy` inside the action, for any findings, files,
  inputs and number of uses. The proof composes: a step is one of the command,
  and then `GateStep` keeps `GateInv` and the script stands still, or one of the
  script, which runs when no command does. Beside `GateInv` the invariant has
  two parts. One, for the status, says that from the scan to the verdict the JSON report is the
  one of this use's own scan, with what that scan found; without it the evaluation could be
  that of an older file. The other, for the outputs, says that each published path is a
  requested format whose file the scan wrote and the prefix step left whole.
- **`DetectorProofs`**, **`AuditProofs`**: `WorstCallCounts`, `OneStorageReport`,
  `ConflictsInOneHandler` and `LocalRules` for every repository, any number of
  files and any order of commits. A step is simple: the invariant `Written` says that the files hold nodes
  that may be written to them and that the report is theirs, and each property
  follows from `Written` alone. That is where the work is: the properties tell the
  evidence of one detector from that of the other seven, so `DetectorProofs` shows of
  each detector, call by call, that its artifacts are a sequence whose evidence
  is of the file, at its place and of the detector it names (`DetectIs`).
  It starts with what the prover does not know of sequences joined (`FlattenBlocks`:
  each element has its place in the whole, and each place its element), because two writes of a
  cookie are two places of one list even when all else about them is the same.
  `AuditProofs` then follows evidence through the classifiers. `WorstCallCounts`: a field
  that one call of a group lacks is kept as the worst (`WorstIsKept`), and no rule about
  the field passes it over (`LackIsReported`). `OneStorageReport`: the rules that report storage are
  told from all others by their names (`StorageRulesAre`, `BearerRulesAre` and one lemma for each other family),
  and `StoredIsReported` and `KeptIsReported` show that they split the places between them.
  `ConflictsInOneHandler`: evidence of a conflict is shared by two artifacts exactly when the calls are of
  one name and one scope (`ConflictIsShared`), only such evidence makes the rule
  report (`ReportedIsShared`), and two lines have one scope when they are in one handler, or when
  the one is in a function at the first byte of the file and the other in none (`ScopeIsHandler`). `LocalRules`: the report's artifacts are the blocks of the
  files joined, one after the other (`ReportHasParts`), and what is written in a file is
  known by its path (`WrittenIsLocal`); a rule that looks up evidence or pairs artifacts
  then finds nothing outside the block, at places shifted by its start
  (`ConflictsAreLocal`, `StorageIsLocal`, `QueryIsLocal`, `FixationIsLocal`, joined in
  `RulesAreLocal`).
- **`FindingProofs`**: `Grounded`, `NamedFindingsUnique`, `SettledFlows` and `FixationStays` for every
  repository, rule by rule. For `Grounded`, `DetectorProofs` also shows what the evidence of each
  artifact is worth. The ids an observation of a cookie or a JWT cites are of the artifact's own
  evidence, and where it says `present` or `missing` one of them is firm, neither dynamic nor a
  default (`CookieBacked`, `JwtBacked`: `CookieIsBacked`, `JwtIsBacked`); evidence a rule reports as a
  misconfiguration by itself is firm by its detector (`Sure`). Together that is `Basis`
  of the report (`ReportIsSolid`), and each rule of each classifier is then shown to keep to it
  (`Claim`): a guard that fires has evidence to cite, and firm evidence if it accuses. The
  guards matter: `bearer_missing_scope_evidence`, say, cites something only
  because what is transmitted is always evidence of that stage.
  `NamedFindingsUnique`: an id is made of the rule, of ids of artifacts and evidence and of a
  name, so the proof has three parts. What ids tell apart (`Distinct`,
  `ReportIsDistinct`): two cookies, two JWTs of one name that is known, two flows or two
  places of browser storage with one id are the same, because no two calls of cookies share line and
  column (`CallsOf`) and a group of JWT calls begins at a line of its own; and no cookie has
  two evidences of a conflict. What a rule says of one artifact (`OneEach`): rules of one name exclude
  each other by their guards, so that each fires at most once. And for findings about several
  artifacts or none in particular, what else their ids hold: the artifact that stands for the context of a
  bearer token, the key of a trust boundary's group, the transition that is reported, the first artifact a query
  parameter is asked of (`...AreApart`). As no two classifiers use one rule name,
  `ToldApart` of each of them is `ToldApart` of all (`ToldApartTogether`). JWTs without a name
  are left out because two of them in one file do share ids: `FindingIdsUnique` is violated.
  `SettledFlows`: no rule but those about flows is about one (`OfOthers`, family by family, because
  no flow has the attributes, the type or the evidence the other rules ask for), so what a report says
  of a flow is a function of its id, its name and its evidence (`AboutFlows`); and of a file that has grown by one
  node, a flow with another behind it has the evidence it had, because that other one
  lies between it and the new line (`FlowStays`).
  `FixationStays` needs to know what a node is in, which the model computes by following
  `within` from node to node. That ends only if each node is in nodes before it, so there is a
  second invariant, `Nested` (`AuditNested`): what a commit writes is in a function that is
  open at the end of its file (`CommitGrows`). From it `AuditProofs` shows that
  the nodes around a node are a chain, and that a node added to a file changes no chain
  and nothing that is read around a node it is not in (`OutsideAll`, `Unmoved`); so
  a handler that it is not in shows the same logins, changes of privilege and regenerations
  (`SeenStays`, `FactsStay`; where the user is stored in the session is left out, because that
  is looked for in all of the file). `FindingProofs` carries this to the report:
  what the classifier compares are exactly those facts of the files
  (`WrittenTellsFixation`), of a scope that shows the same in both reports it finds the
  same (`FactsMirror`, `RegeneratedAlike`), and of the transitions of one line, which share
  what identifies them, one is reported (`OneIsReported`).

Every invariant of the runs that pass is a theorem. Only model-checked: liveness
(`ScanReturns`, `ReadFinishes`), which tlapm does not prove; and the action
property `NeverTalkedAway` of `Audit`, which compares all that the detectors find in a
file with and without one more node, so that each detector and each rule would have to be
followed through all that it looks around for (for flows and for sessions that is done:
`SettledFlows`, `FixationStays`).

## Not modelled

- Redaction and reporters: string rewriting and rendering of a finished report,
  without order or state. That sanitizing twice changes nothing is assumed by
  `BaselineDiff` and `PolicyGate`.
- `init` and `explain`: one guarded write, one read-only view. The rendering half
  of `diff`.
- Parsing in the detectors; the `claims` view; glob matching and ignore files
  in discovery: inputs of the models.
- The testing crate, and the release and CI workflows.

## Plan

1. Done: `ScanPipeline` with its contract, `SourceRead`, `LifecycleLink`,
   `BaselineDiff`, `PolicyGate`, `PanicHook`.
2. Done: the rules of the classifiers and of `lifecycle.rs`, the capability
   filter, the detectors they rest on, over repositories that change.
3. Done: `ActionRun`, composed with `PolicyGate`, with its proofs.
4. Done: proofs of the report's accounting and of the refinement; of `SourceRead`.
5. Done: proofs of the linking's rules, of the lifecycle findings and of the views;
   `MovesAreMaximal` by counting.
6. Done: theorems about `Audit` that follow a call, a place and a pair of writes from the
   text to the finding, that no file disturbs what is found in another, that every
   finding has the evidence it needs, that no two named ones share an id, that flows
   with others behind them are settled, and that what is reported of a login stays while
   code is written elsewhere. Left: `NeverTalkedAway` for every repository.
7. Left: redaction as a function of marked strings, for its idempotence; the
   `claims` view.
