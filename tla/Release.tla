------------------------------ MODULE Release ------------------------------
(***************************************************************************)
(* How a release is measured and published: the repository and its hook,   *)
(* the workflows that freeze the truth, build the corpus and score it, the *)
(* publisher that a person runs on the result, and the check of the commit *)
(* that is tagged.  A commit is its position in history; work is the       *)
(* worktree.  Workflows run in a checkout of the commit they are given.    *)
(***************************************************************************)
EXTENDS SafetyCorpus, Evaluation, Sequences

CONSTANTS
  Codes,        \* versions of generator, evaluator and gates
  Locks,        \* versions of uv.lock and the bundled fonts
  Generates,    \* the truths a version of the generator may produce
  Outcomes,     \* the results a sheet may get
  Difficulty, Template,   \* the labels of the sheets
  Publishers,   \* terminals in which the publisher runs
  Partial,      \* a file that was created and not yet written whole
  MaxCommits, MaxDispatches, MaxFaults   \* bounds on what TLC explores

ASSUME ReleaseAssumption ==
  /\ IsFiniteSet(Sheets) /\ Outcomes \subseteq Result
  /\ 1 \in Codes /\ 1 \in Locks /\ Partial # None
  /\ Generates \in [Codes -> SUBSET DOMAIN TruthOf]
  /\ MaxCommits \in Nat \ {0} /\ MaxDispatches \in Nat /\ MaxFaults \in Nat

VARIABLES
  history,      \* the commits
  work,         \* the worktree
  candidate,    \* the downloaded freeze proposal
  checkpoint,   \* the downloaded corpus and its pin
  runs,         \* the evaluations so far: private results, public totals
  summary,      \* the downloaded public summary
  publisher,    \* where each publisher is, its source and the catalogue it read
  tagged,       \* the released commits
  dispatches, faults

vars == <<history, work, candidate, checkpoint, runs, summary, publisher, tagged,
          dispatches, faults>>

Tip == Len(history)
Committed == history[Tip]
Paths == {"code", "lock", "freeze", "pin", "corpus", "evidence", "catalog", "narrative"}
Changed == {p \in Paths : work[p] # Committed[p]}

\* A publisher that is not running; its variables are gone with its process.
Idle == [pc |-> "idle", source |-> None, original |-> None]

Init ==
  /\ work = [code |-> 1, lock |-> 1, freeze |-> None, pin |-> None, corpus |-> None,
             evidence |-> None, catalog |-> None, narrative |-> None]
  /\ history = <<work>>
  /\ candidate = None /\ checkpoint = None
  /\ runs = <<>> /\ summary = None
  /\ publisher = [p \in Publishers |-> Idle]
  /\ tagged = {} /\ dispatches = 0 /\ faults = 0

-----------------------------------------------------------------------------
\* Freeze, pin and corpus.

\* A workflow is dispatched at the commit that is HEAD then.
Dispatch ==
  /\ dispatches < MaxDispatches
  /\ dispatches' = dispatches + 1

\* The proposal workflow: two generations in fresh directories must agree.
Propose ==
  /\ Dispatch
  /\ \E first, second \in Generates[Committed.code] :
       /\ \A s \in Sheets : CoherentSheet(TruthOf[first][s]) /\ CoherentSheet(TruthOf[second][s])
       /\ first = second
       /\ candidate' = [freeze |-> first, commit |-> Tip, lock |-> Committed.lock]
  /\ UNCHANGED <<history, work, checkpoint, runs, summary, publisher, tagged,
                 faults>>

\* verify_candidate, then the JSONL is copied into the worktree.
TakeFreeze ==
  /\ candidate # None
  /\ candidate.commit = Tip /\ candidate.lock = work.lock
  /\ work' = [work EXCEPT !.freeze = candidate.freeze]
  /\ candidate' = None
  /\ UNCHANGED <<history, checkpoint, runs, summary, publisher, tagged, dispatches,
                 faults>>

\* The builder: a new generation must equal the committed freeze.
Build ==
  /\ Dispatch
  /\ Committed.freeze # None
  /\ \E gt \in Generates[Committed.code], img \in Rasters :
       LET tree == Tree(gt, img, Tip, Committed.lock) IN
       /\ LoadBuilt(tree, Committed.freeze, Committed.lock)
       /\ checkpoint' = [tree |-> tree, pin |-> tree.inventory]
  /\ UNCHANGED <<history, work, candidate, runs, summary, publisher, tagged, faults>>

\* verify_checkpoint, then the pin is copied; the corpus follows in a later commit.
TakePin ==
  /\ checkpoint # None
  /\ LoadVerified(checkpoint.tree, checkpoint.pin, work.freeze, work.lock)
  /\ checkpoint.tree.members.provenance.commit = Tip
  /\ work' = [work EXCEPT !.pin = checkpoint.pin]
  /\ UNCHANGED <<history, candidate, checkpoint, runs, summary, publisher, tagged,
                 dispatches, faults>>

TakeCorpus ==
  /\ checkpoint # None
  /\ work' = [work EXCEPT !.corpus = checkpoint.tree]
  /\ checkpoint' = None
  /\ UNCHANGED <<history, candidate, runs, summary, publisher, tagged, dispatches,
                 faults>>

-----------------------------------------------------------------------------
\* What a person does to the repository.

EditSource ==
  /\ faults < MaxFaults
  /\ faults' = faults + 1
  /\ \/ \E code \in Codes \ {work.code} : work' = [work EXCEPT !.code = code]
     \/ \E lock \in Locks \ {work.lock} : work' = [work EXCEPT !.lock = lock]
  /\ UNCHANGED <<history, candidate, checkpoint, runs, summary, publisher, tagged,
                 dispatches>>

\* Other images in the corpus, with or without the files that vouch for them.
RetouchCorpus ==
  /\ faults < MaxFaults /\ work.corpus # None
  /\ faults' = faults + 1
  /\ \E img \in Rasters \ {work.corpus.members.img} :
       LET m == work.corpus.members IN
       \/ work' = [work EXCEPT !.corpus.members.img = img]
       \/ work' = [work EXCEPT !.corpus = Tree(m.gt, img, m.meta, work.lock)]
  /\ UNCHANGED <<history, candidate, checkpoint, runs, summary, publisher, tagged,
                 dispatches>>

WriteNarrative ==
  /\ work.evidence \notin {None, Partial}
  /\ work' = [work EXCEPT !.narrative = work.evidence.commit]
  /\ UNCHANGED <<history, candidate, checkpoint, runs, summary, publisher, tagged,
                 dispatches, faults>>

\* The worktree is put back to what is committed, between two publications.
Restore ==
  /\ \A p \in Publishers : publisher[p].pc = "idle"
  /\ work' = Committed
  /\ UNCHANGED <<history, candidate, checkpoint, runs, summary, publisher, tagged,
                 dispatches, faults>>

\* require_committed_logical_freeze, _require_committed_inventory_pin: in HEAD, in
\* the index (no path of the commit) and in the worktree alike.
CommittedAlike(path, paths) ==
  /\ Committed[path] # None
  /\ path \notin paths
  /\ work[path] = Committed[path]

\* Flawed: the truth may still be frozen anew while there is no corpus.
FreezeAdmittedAgain(paths) ==
  /\ Committed.corpus = None
  /\ paths = {"freeze"}

FreezeAdmitted(paths) ==
  /\ Committed.freeze = None /\ Committed.pin = None /\ Committed.corpus = None
  /\ paths = {"freeze"}

PinAdmitted(paths) ==
  /\ paths = {"pin"}
  /\ CommittedAlike("freeze", paths)
  /\ Committed.pin = None /\ Committed.corpus = None

\* Flawed: the inventory that comes with the corpus is believed.
CorpusAdmittedUnpinned(paths) ==
  /\ CommittedAlike("freeze", paths) /\ CommittedAlike("pin", paths)
  /\ LoadBuilt(work.corpus, Committed.freeze, work.lock)

\* The staged corpus is authenticated with the lockfile of the worktree.
CorpusAdmitted(paths) ==
  /\ CommittedAlike("freeze", paths) /\ CommittedAlike("pin", paths)
  /\ LoadVerified(work.corpus, Committed.pin, Committed.freeze, work.lock)

\* check_staged, the hook: freeze, pin and corpus in commits of their own, in order.
CheckStaged(paths) ==
  /\ "freeze" \in paths => FreezeAdmitted(paths)
  /\ "pin" \in paths => PinAdmitted(paths)
  /\ "corpus" \in paths => CorpusAdmitted(paths)

Commit ==
  /\ Tip < MaxCommits
  /\ \E paths \in SUBSET Changed \ {{}} :
       /\ CheckStaged(paths)
       /\ history' = Append(history,
            [p \in Paths |-> IF p \in paths THEN work[p] ELSE Committed[p]])
  /\ UNCHANGED <<work, candidate, checkpoint, runs, summary, publisher, tagged,
                 dispatches, faults>>

-----------------------------------------------------------------------------
\* Measuring a commit.

\* A CI run of the evaluator.  It writes a summary whether or not the gates pass.
Evaluate ==
  /\ Dispatch
  /\ LET at == Committed IN
     /\ LoadVerified(at.corpus, at.pin, at.freeze, at.lock)
     /\ \E results \in [Sheets -> Outcomes] :
          /\ \A s \in Sheets :
               results[s].occ = HasOccurrence(TruthOf[at.corpus.members.gt][s])
          /\ runs' = Append(runs, [results |-> results,
                                totals |-> Aggregate(results, Difficulty, Template)])
          /\ summary' = [commit |-> Tip, run |-> Len(runs) + 1, lock |-> at.lock,
                         manifest |-> at.corpus.members.manifest]
  /\ UNCHANGED <<history, work, candidate, checkpoint, publisher, tagged, faults>>

-----------------------------------------------------------------------------
\* The publisher, run with --write on the downloaded summary.

\* validate_release_evidence: identity, coverage, gates, equations.
ReleaseEvidence(s, commit) ==
  /\ s \notin {None, Partial}
  /\ s.commit = commit
  /\ s.lock = work.lock
  /\ LoadVerified(work.corpus, work.pin, work.freeze, work.lock)
  /\ s.manifest = work.corpus.members.manifest
  /\ LET totals == runs[s.run].totals IN
     /\ totals.n_sheets = Cardinality(Sheets)
     /\ totals.n_sheets_ran = Cardinality(Sheets)
     /\ SafetyGates(totals)
     /\ Coherent(totals)

\* The bytes a catalogue entry speaks of: the tracked blob, else the file.
ArtifactBytes == IF Committed.evidence # None THEN Committed.evidence ELSE work.evidence

Entry(s) == [commit |-> s.commit, content |-> s]

\* _validate_catalog_payload
CatalogValid(entry) ==
  entry # None =>
    /\ work.evidence # None
    /\ ArtifactBytes = entry.content
    /\ ReleaseEvidence(entry.content, entry.commit)

\* Flawed: an artifact left by a publication that died counts as a change.
WriteContextClean(commit) == commit = Tip /\ Changed = {}

\* assert_write_context: nothing has changed but for an artifact not yet tracked.
WriteContext(commit) ==
  /\ commit = Tip
  /\ Changed \subseteq {"evidence"}
  /\ "evidence" \in Changed => Committed.evidence = None

Goto(p, step) ==
  publisher' = [publisher EXCEPT ![p] = IF step = "idle" THEN Idle ELSE [@ EXCEPT !.pc = step]]

\* A publisher writes nothing but the evidence and the catalogue of the worktree.
Elsewhere == UNCHANGED <<history, candidate, checkpoint, runs, summary, tagged, dispatches>>

Authorize(p) ==
  /\ publisher[p].pc = "idle" /\ summary # None
  /\ WriteContext(summary.commit)
  /\ ReleaseEvidence(summary, summary.commit)
  /\ CatalogValid(work.catalog)
  /\ publisher' = [publisher EXCEPT ![p] = [@ EXCEPT !.pc = "persist", !.source = summary]]
  /\ UNCHANGED <<work, faults>> /\ Elsewhere

\* Bytes that are there already are only compared.
Verified(p) == IF work.evidence = publisher[p].source THEN "catalog" ELSE "idle"

\* persist_once: is there an artifact already?
Persist(p) ==
  /\ publisher[p].pc = "persist"
  /\ Goto(p, IF work.evidence = None THEN "create" ELSE Verified(p))
  /\ UNCHANGED <<work, faults>> /\ Elsewhere

\* Flawed: opened for writing, whatever is there.
CreateAnyway(p) ==
  /\ publisher[p].pc = "create"
  /\ work' = [work EXCEPT !.evidence = Partial] /\ Goto(p, "write")
  /\ UNCHANGED faults /\ Elsewhere

\* It is opened for exclusive creation; another publisher's is compared.
Create(p) ==
  /\ publisher[p].pc = "create"
  /\ IF work.evidence = None
     THEN work' = [work EXCEPT !.evidence = Partial] /\ Goto(p, "write")
     ELSE UNCHANGED work /\ Goto(p, Verified(p))
  /\ UNCHANGED faults /\ Elsewhere

Write(p) ==
  /\ publisher[p].pc = "write"
  /\ work' = [work EXCEPT !.evidence = publisher[p].source]
  /\ Goto(p, "catalog")
  /\ UNCHANGED faults /\ Elsewhere

\* update_catalog: nothing to do if there is an entry, this one or another.
ReadCatalog(p) ==
  /\ publisher[p].pc = "catalog"
  /\ IF work.catalog = None /\ CatalogValid(Entry(publisher[p].source))
     THEN publisher' = [publisher EXCEPT ![p] =
                          [@ EXCEPT !.pc = "replace", !.original = work.catalog]]
     ELSE Goto(p, "idle")
  /\ UNCHANGED <<work, faults>> /\ Elsewhere

\* _replace_catalog_atomically: refused if the catalogue is not the one read ...
ReplaceCatalog(p) ==
  /\ publisher[p].pc = "replace"
  /\ Goto(p, IF work.catalog = publisher[p].original THEN "rename" ELSE "idle")
  /\ UNCHANGED <<work, faults>> /\ Elsewhere

\* ... and then renamed over whatever is there by now.
RenameCatalog(p) ==
  /\ publisher[p].pc = "rename"
  /\ work' = [work EXCEPT !.catalog = Entry(publisher[p].source)]
  /\ Goto(p, "idle")
  /\ UNCHANGED faults /\ Elsewhere

Kill(p) ==
  /\ faults < MaxFaults /\ publisher[p].pc # "idle"
  /\ faults' = faults + 1
  /\ Goto(p, "idle")
  /\ UNCHANGED work /\ Elsewhere

-----------------------------------------------------------------------------
\* The check of the tagged commit.

\* _verify_catalog_identity and _verify_narrative_identity
Identified(at) ==
  /\ at.evidence \notin {None, Partial}
  /\ at.catalog = Entry(at.evidence)
  /\ at.narrative = at.evidence.commit

\* Flawed: what else changed is not looked at.
PromotionOfAnything(base, head) ==
  /\ history[base].evidence = None
  /\ Identified(history[head]) /\ history[head].evidence.commit = base

\* verify_release_delta with --require-promotion, of a commit and its parent.
Promotion(base, head) ==
  LET before == history[base]
      after == history[head]
  IN /\ after.evidence # None /\ before.evidence = None
     /\ {p \in Paths : after[p] # before[p]} = {"evidence", "catalog", "narrative"}
     /\ Identified(after)
     /\ after.evidence.commit = base

Tag ==
  /\ Tip > 1 /\ Promotion(Tip - 1, Tip)
  /\ tagged' = tagged \union {Tip}
  /\ UNCHANGED <<history, work, candidate, checkpoint, runs, summary, publisher,
                 dispatches, faults>>

-----------------------------------------------------------------------------

Step(p) == \/ Persist(p) \/ Create(p) \/ Write(p)
           \/ ReadCatalog(p) \/ ReplaceCatalog(p) \/ RenameCatalog(p)

Next ==
  \/ Propose \/ TakeFreeze \/ Build \/ TakePin \/ TakeCorpus
  \/ EditSource \/ RetouchCorpus \/ WriteNarrative \/ Restore \/ Commit
  \/ Evaluate \/ Tag
  \/ \E p \in Publishers : Authorize(p) \/ Step(p) \/ Kill(p)

Spec == Init /\ [][Next]_vars

\* Somebody goes on publishing: a publication under way proceeds, or one is begun.
FairSpec == Spec /\ WF_vars(\E p \in Publishers : Authorize(p) \/ Step(p))

-----------------------------------------------------------------------------

GroundTruths == DOMAIN TruthOf
Manifests == [gt : GroundTruths, img : Rasters]
Inventories == [gt : GroundTruths, img : Rasters, manifest : Manifests,
                meta : 1 .. MaxCommits,
                provenance : [freeze : GroundTruths, manifest : Manifests,
                              commit : 1 .. MaxCommits, lock : Locks]]
Trees == [members : Inventories, inventory : Inventories]
Summaries == [commit : 1 .. MaxCommits, run : 1 .. MaxDispatches, lock : Locks,
              manifest : Manifests]
Entries == [commit : 1 .. MaxCommits, content : Summaries]
Snapshots == [code : Codes, lock : Locks, freeze : GroundTruths \union {None},
              pin : Inventories \union {None}, corpus : Trees \union {None},
              evidence : Summaries \union {None, Partial},
              catalog : Entries \union {None},
              narrative : (1 .. MaxCommits) \union {None}]

TypeOK ==
  /\ history \in Seq(Snapshots) /\ Tip \in 1 .. MaxCommits
  /\ work \in Snapshots
  /\ candidate \in [freeze : GroundTruths, commit : 1 .. MaxCommits, lock : Locks]
                     \union {None}
  /\ checkpoint \in [tree : Trees, pin : Inventories] \union {None}
  /\ Len(runs) \in 0 .. dispatches
  /\ \A r \in 1 .. Len(runs) : runs[r].results \in [Sheets -> Outcomes]
  /\ summary \in Summaries \union {None}
  /\ publisher \in [Publishers ->
       [pc : {"idle", "persist", "create", "write", "catalog", "replace", "rename"},
        source : Summaries \union {None}, original : Entries \union {None}]]
  /\ tagged \subseteq 1 .. Tip
  /\ dispatches \in 0 .. MaxDispatches /\ faults \in 0 .. MaxFaults

\* Whatever is committed in whatever order, a corpus in the history is the one whose
\* inventory an earlier commit pinned and whose truth a still earlier one froze, and
\* every member of it is what the inventory lists.
CorpusWasPinned ==
  \A c \in 1 .. Tip :
    history[c].corpus # None =>
      \E f, p \in 1 .. Tip :
        /\ f < p /\ p < c
        /\ history[f].pin = None /\ history[p].corpus = None
        /\ history[p].freeze = history[f].freeze
        /\ LET tree == history[c].corpus IN
           /\ tree.inventory = history[p].pin /\ tree.members = tree.inventory
           /\ LogicalProjection(tree.members.manifest) = history[f].freeze

\* Freeze, pin and corpus are written once: no commit changes or removes them.
CommittedInputsWriteOnce ==
  [][\A p \in {"freeze", "pin", "corpus"} :
       Committed[p] # None => Committed'[p] = Committed[p]]_vars

\* A released commit carries evidence of the commit before it, measured over the corpus
\* that commit holds, in which every sheet was read rightly or stopped; and between the
\* measured commit and the release nothing that was measured has changed.
ReleaseWasMeasured ==
  \A c \in tagged :
    LET at == history[c]
        measured == history[c - 1]
    IN /\ \A p \in Paths \ {"evidence", "catalog", "narrative"} : at[p] = measured[p]
       /\ at.evidence.commit = c - 1
       /\ LoadVerified(measured.corpus, measured.pin, measured.freeze, measured.lock)
       /\ at.evidence.manifest = measured.corpus.members.manifest
       /\ \A s \in Sheets :
            /\ SafeResult(runs[at.evidence.run].results[s])
            /\ runs[at.evidence.run].results[s].occ
                 = HasOccurrence(TruthOf[measured.corpus.members.gt][s])

\* The runs of a truth that may be published: every sheet is scored by that truth and
\* was read rightly or stopped.
Sound ==
  [gt \in GroundTruths |->
     {R \in [Sheets -> Outcomes] :
        \A s \in Sheets : SafeResult(R[s]) /\ R[s].occ = HasOccurrence(TruthOf[gt][s])}]

\* The committed inputs and the released runs, as ReleaseContract sees them.
Contract == INSTANCE ReleaseContract
              WITH Truths <- GroundTruths,
                   freeze <- Committed.freeze, pin <- Committed.pin,
                   corpus <- IF Committed.corpus = None THEN None
                             ELSE Committed.corpus.members,
                   published <- {runs[history[c].evidence.run].results : c \in tagged}

\* Whatever is edited, retouched, rebuilt, killed or committed in whatever order, what
\* is released was measured over images pinned before they were committed and scored
\* by a truth frozen before both, and none of it changes afterwards (check_staged,
\* _verify_release_delta).
ImplementsRelease == Contract!Spec

\* Evidence once whole, and an entry of the catalogue, are only ever lost to a restored
\* worktree, and never replaced by others or emptied, however publishers of different runs
\* overlap or die, between the comparison of the catalogue and the rename included
\* (persist_once, _replace_catalog_atomically).
PublishedOnce ==
  [][/\ work.evidence \notin {None, Partial} =>
          work'.evidence \in {work.evidence, Committed.evidence}
     /\ work.catalog # None => work'.catalog \in {work.catalog, Committed.catalog}]_vars

\* The artifact of the summary at hand is in the worktree, and its entry is not.
Pending ==
  /\ summary # None /\ summary.commit = Tip
  /\ Changed = {"evidence"} /\ Committed.evidence = None
  /\ work.evidence = summary
  /\ ReleaseEvidence(summary, Tip)

\* A publication that died between artifact and catalogue can be repeated: the pending
\* artifact does not stay without its entry.
RetryCompletes == Pending ~> ~Pending
=============================================================================
