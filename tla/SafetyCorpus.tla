---------------------------- MODULE SafetyCorpus ----------------------------
(***************************************************************************)
(* The synthetic corpus that the release evaluation scores: what a         *)
(* generated sheet must be, what the builder assembles, and what the       *)
(* loader accepts.  Operators only; Release runs them.  A digest is the    *)
(* content it identifies, so two digests agree exactly if the contents do. *)
(***************************************************************************)
EXTENDS Naturals

CONSTANTS
  Sheets,      \* the documents of bench-balanced/val
  TruthOf,     \* what the bytes of the ground-truth files say of each sheet
  Rasters,     \* the PNG bytes a renderer may produce of one truth
  None         \* an absent file

\* The truth of one sheet: how many occurrence rows it has and how many were
\* rendered, and whether it is marked as without change or crossed out.
Truth == [rows : 0 .. 1, rendered : 0 .. 1, unchanged : BOOLEAN, struck : BOOLEAN]

\* _coherent_sheet: the marks of a sheet agree with its rows.
CoherentSheet(t) ==
  /\ t.unchanged = (t.rows = 0)
  /\ t.struck => t.unchanged
  /\ t.rendered = t.rows

\* has_occurrence: what the evaluator takes for the truth of a sheet.
HasOccurrence(t) == ~t.unchanged /\ ~t.struck /\ t.rows > 0

-----------------------------------------------------------------------------
\* What identifies a corpus.

\* The complete manifest: one digest per truth, one per image.
Manifest(gt, img) == [gt |-> gt, img |-> img]

\* Its projection leaves the image bytes out, which depend on the platform.
LogicalProjection(manifest) == manifest.gt

\* load_verified_generated_split: the members are those of the manifest.
VerifiedSplit(m) ==
  /\ m.manifest = Manifest(m.gt, m.img)
  /\ \A s \in Sheets : CoherentSheet(TruthOf[m.gt][s])

\* _copy_verified_payload with collect_provenance: the tree a build at a commit
\* leaves, and the inventory of all its members.
Tree(gt, img, commit, lock) ==
  LET manifest == Manifest(gt, img)
      members == [gt |-> gt, img |-> img, manifest |-> manifest, meta |-> commit,
                  provenance |-> [freeze |-> LogicalProjection(manifest),
                                  manifest |-> manifest, commit |-> commit,
                                  lock |-> lock]]
  IN [members |-> members, inventory |-> members]

\* _load_inventory_verified_safety_corpus: every member is listed with its digest,
\* and freeze, manifest, commits and lockfile agree with the provenance.
LoadBuilt(tree, freeze, lock) ==
  /\ tree # None /\ freeze # None
  /\ LET m == tree.members
         p == m.provenance
     IN /\ tree.inventory = m
        /\ VerifiedSplit(m)
        /\ LogicalProjection(m.manifest) = freeze
        /\ p.freeze = freeze /\ p.manifest = m.manifest
        /\ p.commit = m.meta
        /\ p.lock = lock

\* load_verified_safety_corpus: the inventory is also the one pinned outside.
LoadVerified(tree, pin, freeze, lock) ==
  /\ tree # None /\ pin # None
  /\ tree.inventory = pin
  /\ LoadBuilt(tree, freeze, lock)
=============================================================================
