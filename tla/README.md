# TLA+ verification of security-shift-intake

security-shift-intake reads one scanned occurrence sheet with local OCR, turns it
into a structured draft, and lets a person correct, approve, reject, export and
hand over that draft. Nothing leaves without a decision of a person about the very
text that leaves. This directory models that program in TLA+, checks the models
with TLC and proves the main results with TLAPS. Paths are relative to the
repository; `src/src/...` is the Python package.

Contents: [the system](#the-system), [modules](#modules-and-code),
[runs](#what-the-runs-check), [bounds](#bounds), [fairness](#fairness),
[proofs](#what-is-proved), [disagreements](#where-code-and-documentation-disagree),
[limits](#what-is-not-modelled), [plan](#plan).

## The system

A command line process (`scripts/demo_pipeline.py`) runs the intake pipeline on one
source and commits a draft; one server process with one worker
(`docs/ARCHITECTURE.md:148`) shows drafts and executes reviewers' requests. They
share the SQLite file and the directory of page images. Server threads share the
registry of draft locks. Intakes that share a process share two more locks, around
PDFium and around the process's temporary directory; the command line tool runs one
intake per process, the locks are there for callers that run more. Beside the program
stands its release: workflows freeze a synthetic truth, build a corpus of it and
score the reader on it, a hook admits what may be committed, and a publisher turns one
score into the evidence that the tagged commit carries.

| Component | State it keeps | Operations | What is hard | What makes it correct |
|---|---|---|---|---|
| Per-draft operation lock, `api/repository.py:38-110` | registry of entries, reference counts, entry locks | enter waiting (`simulate_draft`) or trying (all others), leave | entries are created, counted, refused and popped under a guard that is dropped while a caller blocks | one thread per draft inside; the registry does not leak; every call returns |
| Review desk: `api/gate.py`, transactions of `api/repository.py`, routes | `Draft`, `DraftRevision`, `AuditEntry` rows; the pages in browsers | open page, approve, reject, edit, simulate, export | checks before the lock are stale under it; handover precedes its commit; failed commits, crashes, retries, out-of-band edits | a stamp always stands for preserved text of the current revision; saves replace what was seen; outputs were approved; the audit explains the state |
| Sheet review: `api/review_service.py`, `api/forms.py`, `pipeline/classify.py` | the `PipelineState` stored as `state_json` | save a full-replacement form | refusals, reclassification and confirmation depend on each other over several saves; `model_copy` skips validators | stored sheets can be opened, decisions fit rows, only what the last form confirmed is approvable, review converges |
| Readiness: `api/readiness.py` | none | list blockers | combines sheet, page file, configuration, status and stamp | fresh and half-reviewed sheets are blocked |
| Review queue: `repository.list_draft_page` | none (a cursor in the page) | list a page after a cursor | rows are inserted and change filter between pages; ties on `created_at` | a walk lists what stayed in the filter exactly once |
| Intake pipeline: `orchestrator.py`, `pipeline/*`, `clients/local_ocr.py` | deadline, PDFium lock, temporary-directory lock, partial state | ingest, read, extract, classify, save | timeouts between stages; locks waited for under a deadline | what was not read is blocked, every intake ends |
| Page evidence: `api/page_images.py` | staged and published image directories | save, read with integrity check | crash between files and row; a cleanup that fails | a stored draft has its page, and no page is kept twice |
| Store and migrations: `api/db.py` | tables, columns, indexes, the ledger `schema_migration` | create, upgrade | SQLite commits the first statements on their own; a start may die half-way or run beside another | whoever serves has the current schema, and a start repeated succeeds |
| Configuration, routing: `schema/config.py`, `schema/loader.py`, `pipeline/route.py`, `classifier/rules.py` | a loaded configuration | validate, classify text, select route | first match, fallbacks, routes behind more general ones | every text is decided and every triage routed, by the rule a reader of the document expects |
| Evaluation: `evals/eval_extraction_synthetic.py`, `evals/eval_extraction_real.py` | private results, public sums | score a sheet, add up, gate | the gates see sums only | a gated run is safe sheet by sheet |
| Corpus: `data/safety_corpus.py`, `data/tier_c_contract.py`, `scripts/privacy_policy.py`, `check_real_data.py`, `build_safety_corpus.py`, `propose_safety_logical_freeze.py` and their verifiers | freeze, pin and corpus in the repository | propose, build, verify, commit | three files that vouch for each other, committed one by one | the corpus that is scored was pinned, and its truth frozen, before |
| Publication: `scripts/publish_eval_evidence.py`, `verify_release_delta.py` | evidence, catalogue and narrative in the worktree | publish, retry, check the tagged commit | stale summaries, overlapping publishers, a death between two files | evidence is written once and of the commit before the release |
| HTTP boundary, privacy scans, generators, preflight | none | filter requests, scan files, render sheets | | |

How they interact. Intake writes page files and then a row; the row's `state_json`
is what sheet review rewrites; the review desk wraps each rewrite and each decision
in the draft's lock and one transaction; readiness is asked inside the lock by
approve, simulate and export; the queue only reads. Requests carry the snapshot
(revision and hash) of the page they come from, so a page is a cache that may be
stale, and the server checks it twice, before and under the lock. Server and pipelines
bring the store to the current schema when they start, each for itself. The release
scripts meet only in files: each takes what another left and checks it again.

## Modules and code

`PROJECT.json` maps every definition to its lines; this is the overview.

- **`DraftMutex`**, abstract: a holder per draft, entered only when free.
- **`DraftLock`**, `draft_operation_lock`. `registry`, `references`, `owner` and
  `guard` are `_DRAFT_LOCKS`, `_DraftLockEntry.references`, `_DraftLockEntry.lock` and
  `_DRAFT_LOCKS_GUARD`; `Lookup`, `Count`, `Acquire`, `Refuse`, `Release`, `Uncount`
  and `Reclaim` are the statements between the places where threads can switch. A
  guarded section is two steps, so the guard has to earn its atomicity. Heap objects
  are reused once unreachable.
- **`ApprovalContract`**, abstract: what the gate promises about a draft, without
  requests, locks or processes. Revise, approve, reject, deliver, simulate.
- **`StoreContract`**, **`IntakeContract`**, **`ReleaseContract`**, abstract: what the
  store promises to the builds that open it, intake to the review desk, and a release to
  those who read its numbers; each without processes, stages, files or publishers.
- **`ReviewDesk`**, one draft and several pages. `draft`, `snapshots` and `audit` are
  rows of the three tables, `holder` the draft's lock, `pc` and `job` a request and
  its locals, `tab` what a browser page shows (`shown`, with the token of the
  correction form) and the token of its status panel (`token`), `handed` what the
  recorders were given. Sending is the part of a handler before the lock
  (`SendDecision`, `SendEdit`, `SendExport`); then `Acquire` or `Refuse`; then one
  action per outcome under the lock, up to the commit, the release and the answer. The
  only outcome in two steps is a simulation, because the recorder's call precedes the
  commit (`Record`, `MarkCommit`). An answer may always be lost (`KeepsPage`): a JSON
  caller has no page, and htmx does not swap in a 409. Disabled buttons are no guards:
  a JSON caller has none. `CommitFails`, `EvidenceChanges`, `Crash`, `Restart` (perhaps
  with another configuration) and `OfflineWrite` (tampering with the file) are the
  environment. Initial states are a fresh draft and the rows an older build left,
  decided or already sent, whose stamps the migrations add empty. `draft.simulated` is
  "`simulated_at` is not None" (the column was once `sent_at`): this build sets it with
  the status, a row the older build sent has it under status `approved`. `Terminal` is
  the test of both that every transition makes; `ui_edit` looks at the column alone
  before it takes the lock; readiness looks at neither, so an export of a sent row is
  refused for want of a stamp.
- **`Sheet`**, operators only: what a sheet is, what intake leaves of it
  (`Extracted`, `Expired`, `Unread`), classification (`RuleFor`, `PrimaryRule`,
  `Decision`), what a form makes of it (`Refused`, `Reviewed`) and each readiness blocker
  that looks at the sheet (`Approvable`). A row is a text known only by the rules it
  matches; a triage is the triple type, urgency, sector.
- **`Intake`**, intakes of one process (`run_pipeline`, then `build_and_store`) on a
  discrete clock. `pc` is the stage, `expires` the `Deadline`, `limit` the timeout of
  the OCR call, `pdfium` and `temp` the holders of `_PDFIUM_LOCK` and
  `_TESSERACT_TEMP_LOCK`, `tempdir` the redirected `tempfile.tempdir` and environment,
  `previous` what each call will put back, `pages` and `sheet` the `IntakeResult`,
  `staging`, `published` and `drafts` what is on disk. The cleanup of a failed save
  may fail as well (`rmtree` ignores its errors). Each stage succeeds, raises, or
  finds the deadline exceeded; a `ProcessingDeadlineExceeded` anywhere becomes
  `_timeout_result` (`GiveUp` before extraction, `ClassifyLate` after).
- **`SheetReview`**, the stored sheet under any sequence of accepted forms, and the
  forms its page can send (`PageForms`).
- **`QueuePaging`**, one reviewer's walk through the queue while drafts are
  inserted and decided. `created` is read before the row is committed, so a draft can
  appear anywhere in the order. One query is one step, a SQLite read snapshot.
- **`ReportConfig`**, operators only: which documents load (`Valid`, one operator per
  check of `validate_runtime_contract`) and how a loaded one decides a text (`RuleOf`)
  and routes a triage (`RouteOf`). Names and keywords are members of a set; `Folded`,
  `KeyFolded` and `Surface` say which of them the checks and the classifier take for the
  same, because the two do not agree. `Fits` is what the pipeline takes for granted.
- **`Startup`**, processes that load a configuration and open one database, statement by
  statement: `create_all` (which looks at all tables, then creates), the ledger, and each
  migration (which looks at all columns, then adds). `committed` is the file as others see
  it, `working` and `writer` the one open transaction. The driver opens it at the first
  INSERT, so that statements before it are durable at once, one by one. A write behind
  another's transaction waits and may time out; any failure ends the process.
- **`SafetyCorpus`** and **`Evaluation`**, operators only: the first what a coherent
  sheet is, what a build assembles and what the loaders accept; the second what a sheet
  scores, the sums over sheets, the gates of the evaluator and the equations of the
  publisher (`CoherentMetrics`). A digest is the content it stands for.
- **`Release`**, a repository (`history`, `work`), the workflows dispatched at its HEAD
  (`Propose`, `Build`, `Evaluate`), what a person takes from them, changes, restores or
  commits through the hook (`CheckStaged`), publishers that run statement by statement
  (`Authorize`, `Persist`, `Create`, `Write`, `ReadCatalog`, `ReplaceCatalog`,
  `RenameCatalog`) and may die, and `Tag`, admitted by `verify_release_delta --require-promotion`.
- **`DraftLockProofs`, `ReviewDeskProofs`, `QueuePagingProofs`, `SheetReviewProofs`,
  `IntakeProofs`, `ReleaseProofs` (with those of `Evaluation`), `StartupProofs`**,
  theorems; **`SheetProofs`**, the lemmas about `Sheet` that two of them share.
- **`MC*`**, instances for TLC.

How they compose: `DraftLock` implements `DraftMutex` (`ImplementsMutex`), and the
variable `holder` of `ReviewDesk` is a `DraftMutex` of one draft (`UsesDraftLock`): what
`draft_operation_lock` gives is what the requests take. `ReviewDesk` implements
`ApprovalContract`, `Intake` `IntakeContract`, `Startup` `StoreContract` and `Release`
`ReleaseContract`. `ReviewDesk` sees contents
only as ready or not; `SheetReview` is what makes one content of another, and its
`ReadyWasReviewed` is why `ReviewDesk` may assume that what intake produced is not
ready. `SheetReview` begins with any of `FreshSheets`, and `IntakeFeedsReview` of
`Intake` says that these are what intake stores. `Startup` extends `ReportConfig` and
`Release` extends `SafetyCorpus` and `Evaluation`: the state machines decide when, the
operators what. Operators named after a way to break the code (`ReclaimAlways`, `EditUnchecked`,
`FirstRowRule`, ...) are not part of any specification: they are the mutants
`PROJECT.json` lists, one per property, each of which makes its property fail.

## What the runs check

| Run | Shows |
|---|---|
| `draft_lock` | No two threads inside one draft's operation (`MutualExclusion`), no entry without a caller that will pop it (`RegistryReclaimed`), refinement of the abstract lock (`ImplementsMutex`), some thread can always go on while a call is in progress, so that guard and entry locks never wait for each other (`NeverStuck`), and every call returns (`CallsReturn`): refused callers, waiting simulations and holders |
| `review_desk` | `ApprovalBindsContent`: a stamp is the current revision's preserved text, a terminal draft has one if this build ended it, and a row an older build sent never gets one. `HandoffOnce`: a second handover needs a failed commit or a crash. `HandoverCanBeMarked`: what was handed over is still approved as it was when the commit that marks it comes. `AuditExplainsDraft`: the last deciding audit row tells status and snapshot. `OutputsWereApproved`: an export follows the approval of its snapshot with no other decision between, a handover has one. `SavesReplaceSeenContent`, `SimulatedIsFinal`, `SnapshotsAppendOnly`: no lost update, nothing after the end (whichever build brought it), no preserved text rewritten. `UsesDraftLock`: requests that fail, crash or restart keep to the abstract lock. `ImplementsContract`: refinement of `ApprovalContract` |
| `review_desk_live` | Every request is answered or dies with its process (`RequestsFinish`) |
| `review_desk_seen` | *violated*: `ApprovedContentWasShown`, see below |
| `sheet_review` | `StoredSheetsOpen`: what the skipped validators would refuse is never stored. `ReadyWasReviewed`: approvable only by the word of the last form. `DecisionFitsRows`: a rule's decision is the gravest, then earliest, rule of the stored rows. `TwoSavesSuffice`: from every stored sheet two careful saves of its page's own form are accepted and make it approvable |
| `sheet_review_rows` | *violated*: `EverySheetCanBeSaved` |
| `sheet_review_triage` | *violated*: `EditsResuggest` |
| `intake` | `PdfiumExclusive`, `OcrTempIsPrivate`: the two native libraries run under their locks, and the process has its own temporary directory back whenever no OCR runs, whatever overlapped, failed or timed out. `DraftsHaveTheirPages`: a committed draft names a page exactly if its directory is published. `IntakeFeedsReview`: in time or late, what is stored is a sheet review begins with and not approvable. `PageKeptOnce`: no page is staged and in place at once, and what no row names was left by an intake that failed, and could not clean up, or died. `ImplementsIntake`: a source becomes one row, in one step and with its page, or is lost and never appears later. `OthersEnd`: nothing but the renderer holds an intake up for good |
| `intake_late` | *violated*: `OcrBoundedByDeadline` |
| `queue_paging` | Nothing twice (`NothingListedTwice`), nothing that stayed is skipped (`WalkIsComplete`), each draft under one status filter (`FiltersPartition`), and a walk ends although drafts keep arriving (`WalkEnds`) |
| `startup` | `ServesCurrentSchema`: no process serves from a database that lacks a table, a column, an index its code counts on or the record of a migration, whatever died half-way before it or starts beside it. `ImplementsStore`: starts that die or collide take nothing from the store, the ledger goes in one step from what it was to all migrations of this build, and a store that another build has migrated is not served. `StartsEventually`: a process started again after a failure serves in the end. `ServedConfigFits`: none touches the database with a configuration that leaves a text undecided, a triage unrouted or a route unreachable behind another |
| `release` | `CorpusWasPinned`: a committed corpus was pinned, and its truth frozen, by two earlier commits. `ReleaseWasMeasured`: a tagged commit carries evidence of its parent, nothing measured has changed between, and every sheet of that run was read rightly or stopped. `ImplementsRelease`: truth, images and corpus are written in that order and once, and every released run is sound over the truth that was frozen first. `PublishedOnce`: whole evidence and its entry are never replaced by other ones, although publishers overlap between comparison and rename. `RetryCompletes`: a publication that died between artifact and catalogue is completed by a retry |

Stated and proved but in no run: the type invariants (`TypeOK` of each module), and
`CommittedInputsWriteOnce` (no commit changes or removes freeze, pin or corpus), which
`ImplementsRelease` and `CorpusWasPinned` together contain. `HandoffOnce` states what the
code achieves, not exactly-once: the recorder is called before the terminal commit, so
each failure in between allows one repetition, and the run reaches it.

## Bounds

- `DraftLock`: three threads, two drafts, two calls each. Two threads collide on
  a draft while a third registers, waits for or reclaims either entry; a second call
  meets what the first left. `Entries` as many as threads: each holds at most one.
- `ReviewDesk`: two pages; four requests are enough to correct, approve, simulate
  and retry, or to race any two pairs; one fault and one restart, because two cover each
  other only through what they leave in the store, which one already leaves. Two
  contents, one of them ready and with rows. The draft found is fresh, or an older
  build's: pending, approved, rejected or sent, with either content. The liveness run takes three requests
  and no symmetry.
- `SheetReview`: three texts over three rules, the gravest neither first nor last, two
  of them equally grave, one matching two rules, one none; a triple outside the taxonomy;
  two headers; at most two rows stand for the code's ten, one reading has three.
- `Intake`: two intakes, started at most one unit apart, so that their deadlines may
  differ; two units of budget, so that a stage may be entered in time and left late;
  time runs until the one that waited longest has been cut off; one crash. The sheet has
  no headers here, because which are found has no say in the order of the stages
  (`SheetReview` has two). A table with a row and one without stand for the readings.
- `QueuePaging`: four drafts, two timestamps (so ties), pages of two: three pages at
  most, with insertion and decision between them.
- `Startup`: two processes, so that each statement of one can fall between two of the
  other; one crash, because a second finds what the first may already leave; databases
  of every age that differ for the code (empty, without revisions, after one, two and
  all migrations) and three it must refuse; sixteen documents, two that load, one that
  only the shadowing check refuses, and one for each other check.
- `Release`: three sheets, one with an occurrence, one without, one crossed out, under
  every label; a generator whose first version is not deterministic and sometimes loses
  a row; two versions of lockfile, rasters and code; five commits, enough for freeze, pin,
  corpus, one change and a promotion (`MaxCommits`); four workflows, one of each kind and
  one more (`MaxDispatches`); two publishers; one tampering, edit or death (`MaxFaults`),
  because each is recovered from or refused for itself. A written sheet is read rightly,
  read wrongly and stopped or let out, or missed; sheets that did not run or hold an
  unreviewed false incident are left to `GatesMeanSafeSheets`, which covers every result.

Symmetry is declared for pages in safety runs only; nothing names one. Most runs say
`CHECK_DEADLOCK FALSE` because bounded calls, requests, commits and dispatches run out,
and because a sheet with no acceptable form stops: those states are expected ends.
`startup` checks deadlock.

## Fairness

`DraftLock` and `ReviewDesk` assume weak fairness of each thread's own progress (the
operating system schedules a thread that can run), never of sending, failing or
crashing. Python's `threading.Lock` is not fair; nothing more is assumed of it, and
waiters still get through because requests are finitely many. `QueuePaging` assumes
that a reviewer who turns pages keeps turning them. `Startup` assumes that a process that
failed is started again, in the end with a document that loads, and that a running one
goes on; `StartsEventually` claims nothing of a database of another build or with rows the
unique index forbids (`Upgradable`), which every start refuses. `Release` assumes of all
its actors only that somebody goes on publishing: a publication under way proceeds, or
one is begun where the publisher admits it. `Intake` assumes that time passes
and that every stage ends in one of its ways, except rendering: `page.render` is native
code that no timeout cuts off, so nothing is assumed of it, and `OthersEnd` claims
nothing of the intake that renders. Time does not pass over a free lock somebody waits
for or over a timeout that is due (`Urgent`): a unit is long compared with the
scheduling of a thread.

## What is proved

All theorems hold for every value of the constants: any number of threads, pages,
contents, rules, rows, requests and faults.

- **Lock** (`DraftLockProofs`). `LockInvariant` proves the inductive invariant
  `LockInv`: the guard is held exactly by the thread in a guarded section, an entry in
  use is the one registered under its user's draft, no entry is registered twice,
  an entry's count is the number of its users, and a thread inside owns its entry's
  lock. Without the second part mutual exclusion is not inductive: two threads could
  own different entries of one draft. From it: `TypeCorrect`, `MutualExclusionHolds`,
  `RegistryReclaimedHolds`, `RegistryImplementsMutex` (refinement) and `NeverStuckHolds`:
  the guard's holder can always step; if nobody holds it, a thread outside `acquire` can;
  and if all wait in `acquire`, the owner of a lock they wait for is inside and can leave.
  That a lookup finds a fresh entry is a counting argument, for which `HeapAssumption`
  gives one entry per thread.
- **Review desk** (`ReviewDeskProofs`). `DeskInvariant` proves `DeskInv`: types,
  `ApprovalBindsContent`, the lock's holder is the one client inside, a process that is
  down runs nothing, and a correction in flight was made on the content its page
  still shows. The last part of `ApprovalBindsContent`, that a terminal row without a
  stamp is one an older build sent, keeps that row out of the recorder.
  From it: `TypeCorrect`, `ApprovalBindsContentHolds`,
  `SnapshotsAppendOnlyHolds`, `SimulatedIsFinalHolds`, `SavesReplaceSeenContentHolds`
  and the refinement `DeskImplementsContract`. `HandoffInvariant` adds to it that
  handovers are counted by faults, restarts, the terminal status and the one in
  progress; `HandoffOnceHolds` follows, and `HandoverCanBeMarkedHolds` from the lock: between
  `Record` and `MarkCommit` nobody else is inside. `DeskUsesDraftLock` is the refinement of
  `DraftMutex`. `AuditInvariant` adds that the audit has a last
  decision (`LastAt`: without it `LastDecided` would be free), and that appending a row
  either makes it the last one or leaves it; `AuditExplainsDraftHolds` and
  `OutputsWereApprovedHolds` follow.
- **Review queue** (`QueuePagingProofs`). `QueueInvariant` proves `QueueInv`: drafts take
  consecutive ids, what the walk has listed is at or before its cursor, and what stayed in
  the filter without being listed is after it (`WalkInv`). That a page without an extra row
  has everything that was selected is `ExtraRowTells`, an argument about ranks in the
  listing. From it: `TypeCorrect`, `NothingListedTwiceHolds`, `WalkIsCompleteHolds` and
  `FiltersPartitionHolds`.
- **Sheet review** (`SheetReviewProofs`). `SheetInvariant` proves `SheetInv`: types,
  `StoredSheetsOpen`, `DecisionFitsRows`, and that a confirmed sheet agrees with
  the last accepted form (needed because readiness is a property of the sheet alone).
  From it: `SheetTypeCorrect`, `StoredSheetsCanBeOpened`, `DecisionsFitRows`,
  `ReadyMeansReviewed`, and `ReviewConverges` for any configuration and limit.
- **Intake** (`IntakeProofs`). `IntakeInvariant` proves `IntakeInv`, which says for each
  stage which lock the intake holds (`LockInv`), that what an OCR call will put back
  is the process's own directory (`TempInv`: without it two overlapping calls could
  restore each other's), that it has its page (`PageInv`), what its sheet is
  (`SheetInv`: read, then one of `FreshSheets` that says whether there is a page)
  and which of its files exist (`FilesInv`). From it: `TypeCorrect`,
  `PdfiumIsExclusive`, `TempIsPrivate`, `PagesPrecedeDrafts`, `StoredSheetsAreFresh`,
  `PagesAreKeptOnce`, and the refinement `IntakeKeepsContract`, in which every step of an
  intake is a stutter, `Publish`, `Store` or `Lose`, and a crash loses all that are under
  way at once. That a fresh sheet is not approvable needs `FreshFields` of
  `SheetProofs`: intake never confirms a disposition.

- **Evaluation** (`ReleaseProofs`). `GatesMeanSafeSheets`: a run whose sums pass the
  gates has, sheet by sheet, a right reading or nothing that leaves, for any number of
  sheets; the rate of blocked mismatches is rounded to four places, so the proof rests on
  the counts. `GatedIsCoherent`: the sums of a gated run with a sheet under every label
  satisfy the publisher's equations, so that it refuses no genuine summary.
- **Release** (`ReleaseProofs`). The invariant says in which order freeze, pin and corpus
  stand in the history and that what precedes them stays, that a whole artifact is what
  each publisher past `persist_once` has in hand, and that totals are those of private
  results. From it: `TypeCorrect`, `CorpusPinnedFirst`, `InputsWriteOnce`,
  `TaggedWasMeasured` (with `GatesMeanSafeSheets`) and `PublicationOnce`. The last rests on
  `OneWriter` (who writes the artifact has created it and is alone) and `OneEntry`: who is
  past the artifact has compared it with its own, so the entry a publisher overwrites at
  its rename can only be the one it writes. `ReleaseKeepsContract`
  is the refinement: the hook's comparisons of HEAD, index and worktree are what makes a
  commit a `Freeze`, a `Pin`, a `Corpus` or a stutter, and `Tag` a `Release`.
- **Startup** (`StartupProofs`). `StoreInvariant` says of the committed and of the open
  transaction's database that what is recorded was applied, and of each process that the
  objects before the statement it is at exist; without the second part a migration could
  be recorded by a process that only saw another one's columns. From it: `TypeCorrect` and
  `SchemaIsCurrent`. `LedgerInvariant` adds that a version is recorded once
  (`RowsOK`), that a process in the migrations has read every row of the ledger but those
  this build has added since (`SeenOK`), and that whoever serves finds no other rows than
  this build's (`ServedOK`). `StartupImplementsStore`, the refinement of `StoreContract`,
  needs all three: a start that adds nothing serves only if all was recorded before.
  `LoadedConfigFits` is about any document, names and texts whatever,
  and gives `ConfigFits`.

Assumptions, each named in its module and evaluated by TLC on the instances:
`ThreadsAssumption`, `EntriesAssumption`, `HeapAssumption` (an allocation never fails),
`MaxCallsAssumption`, `ContentsAssumption`
(what intake produced is not ready: shown by `ReadyWasReviewed`), `ClientsAssumption`,
`SnapshotAssumption`, `PagingAssumption`, `RulesAssumption` (there is a fallback rule),
`TaxonomyAssumption` (the no-change triple belongs to the taxonomy: true of the
configuration shipped, not validated when one is loaded), `RoutingAssumption` (the last
route takes everything), `LimitsAssumption`, `PicksAssumption`,
`UndecidedAssumption`, `ReadingsAssumption`, `IntakesAssumption`, `BudgetAssumption`,
`TablesAssumption`, `ReleaseAssumption`, `NamesAssumption`, `TextsAssumption`,
`TitlesAssumption`, `DatabasesAssumption` (a migration a found database records under
this build's name was applied by it; `version` is the ledger's primary key), `DocumentsAssumption`, `ProcsAssumption`.

Every invariant, action property and refinement the passing runs check is also proved.
The abstract contracts hold no theorems of their own: they are small enough to read, and
what they promise reaches the code through the refinements.
Only model-checked: liveness (`CallsReturn`, `RequestsFinish`, `WalkEnds`, `OthersEnd`,
`RetryCompletes`, `StartsEventually`), which under fairness is outside what TLAPS is used
for here.

## Where code and documentation disagree

1. `review_desk_seen`. `models.py:38-40` says that an approval never stands for
   content the reviewer has not seen. A blocked approval or simulation is answered
   with the status panel alone, rendered from the current draft: its forms carry the
   new snapshot while the body above still shows the old content. The next click
   approves a revision the page has not shown. The panel does ask for a reload.
2. `sheet_review_rows`. The README says rows can be edited and removed. A sheet read
   with more than ten rows is shown with all of them, and every form of its page is
   refused, blanked rows included. The sheet stays blocked, so nothing unreviewed
   gets through.
3. `sheet_review_triage`. `tests/test_ui_table.py:470` and `docs/ARCHITECTURE.md:114`
   say that edited content yields a new suggestion to be confirmed. Once a triage is
   confirmed, editing rows and saving the untouched, still ticked controls turns
   the old triage into a confirmed human override.
4. `intake_late`. `clients/local_ocr.py:4` says the subprocess timeout is bounded by
   the intake's deadline. The timeout is computed first (line 220) and the lock of the
   temporary directory then waited for without limit (line 71), so with two intakes in
   one process OCR may run past the deadline. What it read is discarded (line 239).

## What is not modelled

- Text: OCR, parsing, normalisation, dates, the wording of outputs, cursor encoding.
  They are pure functions of one document; what the state machines need of them
  (which rules a text matches, which headers have a value) is abstract.
- The content and integrity check of a page file is one flag; the hash is assumed to
  tell contents apart.
- `_urgency` and other fields of a triage are not separated: the form sends and the
  rules give them together.
- HTTP header and size checks, templates beyond the controls a form sends, scans for
  personal data, generators and renderers, preflight, text distances and reports of the
  evaluation: stateless, or single passes over files.
- Exports change nothing but the audit, so their bytes are not modelled.
- Release: workflows run at HEAD of the one branch; local evaluations of a worktree with
  changes have no part in a release and are left out. Every commit goes through the hook,
  and what is staged is what the worktree holds. `Restore` waits until no publisher runs.
  The catalogue speaks of the release entry only; its historical entries never change.
  What an editor saves in it between a publisher's comparison and its rename
  (`publish_eval_evidence.py:625-627`) is lost.
- Starting: a build that is being replaced by a newer one while it starts; SQLite errors
  other than those of the statements named.

Seen while modelling and not made a run:

- `persist_once` compares a file that is there before it does anything else, so an
  artifact that was created and not written whole is refused by every later run,
  whatever `assert_write_context` admits ("except an interrupted artifact create",
  `publish_eval_evidence.py:688`, `docs/EVAL_RELEASE.md:136-138`). `RetryCompletes` is
  about a whole artifact without its entry; a partial one has to be removed by hand.
- `_apply_migrations` says "inside one transaction" (`db.py:169`); the driver commits the
  statements before the first INSERT on their own. The migrations look before they add and
  the ledger's rows are written together, which is why `StartsEventually` and
  `ImplementsStore` hold all the same.
- A crash of `create_all` between a table and its plain indexes loses those indexes for
  good, and an old `auditentry` never gets `ix_auditentry_revision`: the table is there,
  so nothing looks for them again. Only speed depends on them. `create_all` also runs
  before the check that refuses a newer database.
- The checks of a configuration do not reject routes that several earlier ones shadow
  together, a route shadowed because a dimension has one label only, keywords that differ
  by an accent, or keywords of which the classifier keeps nothing. `Fits` claims
  accordingly less.

## Plan

Done, in this order: `DraftMutex`, `DraftLock`, `ApprovalContract`, `ReviewDesk`,
`QueuePaging`, `Sheet`, `SheetReview`, `Intake`, `SafetyCorpus`, `Evaluation`, `Release`,
`ReportConfig`, `Startup`, then `StoreContract`, `IntakeContract`, `ReleaseContract` and the
refinements to them, with the proofs above. What would come next: an abstract walk that
`QueuePaging` implements; the comparison of two evaluation runs
(`evals/eval_extraction_real.py:726-777`).
