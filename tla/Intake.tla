------------------------------- MODULE Intake --------------------------------
(***************************************************************************)
(* Intakes that run in one process: run_pipeline of src/orchestrator.py    *)
(* and the storing of its result (build_and_store of                       *)
(* scripts/demo_pipeline.py).  Each has a monotonic deadline, looked at    *)
(* between its stages; PDFium is used under a process-wide lock that is    *)
(* waited for with what is left of the deadline, Tesseract under another   *)
(* one, waited for without limit, because it redirects the temporary       *)
(* directory of the whole process.  Page files are staged, published by a  *)
(* rename, and only then named by a committed row.                         *)
(*                                                                         *)
(* What a stage computes is Sheet's; here is when it is kept.              *)
(***************************************************************************)
EXTENDS Sheet

CONSTANTS
  Intakes,      \* runs of the pipeline, one source each
  Readings,     \* tables OCR may read
  Budget,       \* performance.max_seconds_per_sheet
  OcrTimeout,   \* TESSERACT_TIMEOUT_SECONDS
  Nobody,       \* the holder of a free lock
  LastStart,    \* bound: when the last intake may start
  MaxTime,      \* bound: when the clock stops
  MaxCrashes    \* bound: crashes of the process

ASSUME IntakesAssumption == Nobody \notin Intakes
ASSUME BudgetAssumption ==
  /\ Budget \in Nat \ {0} /\ OcrTimeout \in Nat \ {0}
  /\ LastStart \in Nat /\ MaxTime \in Nat /\ MaxCrashes \in Nat
ASSUME TablesAssumption == Readings \subseteq Seq(Texts)

VARIABLES
  now,        \* time.monotonic()
  pc,         \* where each intake is
  expires,    \* Deadline.expires_at
  limit,      \* timeout of the OCR call; once it runs, when it will be killed
  pdfium,     \* who holds _PDFIUM_LOCK
  temp,       \* who holds _TESSERACT_TEMP_LOCK
  tempdir,    \* tempfile.tempdir and TMP, TEMP, TMPDIR
  previous,   \* previous_tempdir and previous_env of each OCR call
  pages,      \* the intakes whose page artifact has been made
  sheet,      \* what each intake has to hand over
  staging,    \* the intakes with a hidden staging directory
  published,  \* the intakes with a page directory
  drafts,     \* the intakes with a committed row, which holds their sheet
  crashes

clockVars == <<now, expires, limit>>
ocrVars == <<temp, tempdir, previous>>
files == <<staging, published, drafts>>
vars == <<clockVars, pc, pdfium, ocrVars, pages, sheet, files, crashes>>

Ended == {"done", "failed", "dead"}
Steps == {"new", "source", "queue", "pdf", "decode", "prepare", "read", "ocrQueue",
          "ocr", "text", "classify", "saving", "staged", "store"} \cup Ended

TypeOK ==
  /\ now \in Nat /\ expires \in [Intakes -> Nat] /\ limit \in [Intakes -> Nat]
  /\ pc \in [Intakes -> Steps]
  /\ pdfium \in Intakes \cup {Nobody} /\ temp \in Intakes \cup {Nobody}
  /\ tempdir \in {"system", "private"} /\ previous \in [Intakes -> {"system", "private"}]
  /\ pages \subseteq Intakes
  /\ sheet \in [Intakes -> Sheets]
  /\ staging \subseteq Intakes /\ published \subseteq Intakes /\ drafts \subseteq Intakes
  /\ crashes \in Nat

Init ==
  /\ now = 0
  /\ pc = [i \in Intakes |-> "new"]
  /\ expires = [i \in Intakes |-> 0] /\ limit = [i \in Intakes |-> 0]
  /\ pdfium = Nobody /\ temp = Nobody
  /\ tempdir = "system" /\ previous = [i \in Intakes |-> "system"]
  /\ pages = {}
  /\ sheet = [i \in Intakes |-> Unread(FALSE)]
  /\ staging = {} /\ published = {} /\ drafts = {}
  /\ crashes = 0

Goto(i, step) == pc' = [pc EXCEPT ![i] = step]

(* Deadline.remaining_seconds does not raise. *)
InTime(i) == now < expires[i]

(* The stage of an intake leaves everything outside it alone. *)
Alone == UNCHANGED <<clockVars, pdfium, ocrVars, pages, files, crashes>>

(* run_pipeline returns s. *)
Return(i, s) == sheet' = [sheet EXCEPT ![i] = s] /\ Goto(i, "saving")

(* _timeout_result before extraction: the pages are kept if load_page_artifacts *)
(* had returned them.                                                           *)
GiveUp(i) == Return(i, Unread(i \in pages))

-----------------------------------------------------------------------------
(* Ingestion *)

Start(i) ==
  /\ pc[i] = "new" /\ now <= LastStart
  /\ expires' = [expires EXCEPT ![i] = now + Budget]
  /\ Goto(i, "source")
  /\ UNCHANGED <<now, limit, pdfium, ocrVars, pages, sheet, files, crashes>>

(* An unreadable, oversized or unsupported source, no Tesseract, or no     *)
(* directory to stage pages in: the exception ends the intake.             *)
Fails(i) ==
  /\ pc[i] \in {"source", "decode", "read", "saving"}
  /\ pc[i] = "saving" => i \in pages
  /\ Goto(i, "failed")
  /\ Alone /\ UNCHANGED sheet

(* A stage finds the deadline exceeded; no lock is held. *)
Late(i) ==
  /\ pc[i] \in {"source", "decode", "prepare", "read", "text"}
  /\ ~InTime(i)
  /\ GiveUp(i)
  /\ Alone

OpenSource(i) ==
  /\ pc[i] = "source" /\ InTime(i)
  /\ Goto(i, "queue") \/ Goto(i, "decode")      \* a PDF or an image
  /\ Alone /\ UNCHANGED sheet

(* _pdfium_guard *)
EnterPdfium(i) ==
  /\ pc[i] = "queue"
  /\ pdfium = Nobody
  /\ pdfium' = i
  /\ Goto(i, "pdf")
  /\ UNCHANGED <<clockVars, ocrVars, pages, sheet, files, crashes>>

(* A guard that does not look at what acquire returned. *)
QueueIgnoresTimeout(i) ==
  /\ pc[i] = "queue"
  /\ ~InTime(i)
  /\ pdfium' = i
  /\ Goto(i, "pdf")
  /\ UNCHANGED <<clockVars, ocrVars, pages, sheet, files, crashes>>

QueueTimesOut(i) ==
  /\ pc[i] = "queue"
  /\ ~InTime(i)
  /\ GiveUp(i)
  /\ Alone

(* The page is rendered, with the deadline looked at before and after. *)
Render(i) ==
  /\ pc[i] = "pdf" /\ InTime(i)
  /\ pdfium' = Nobody
  /\ Goto(i, "prepare")
  /\ UNCHANGED <<clockVars, ocrVars, pages, sheet, files, crashes>>

RenderFails(i) ==
  /\ pc[i] = "pdf"
  /\ pdfium' = Nobody
  /\ Goto(i, "failed")
  /\ UNCHANGED <<clockVars, ocrVars, pages, sheet, files, crashes>>

RenderLate(i) ==
  /\ pc[i] = "pdf" /\ ~InTime(i)
  /\ pdfium' = Nobody
  /\ GiveUp(i)
  /\ UNCHANGED <<clockVars, ocrVars, pages, files, crashes>>

Decode(i) ==
  /\ pc[i] = "decode" /\ InTime(i)
  /\ Goto(i, "prepare")
  /\ Alone /\ UNCHANGED sheet

Prepare(i) ==
  /\ pc[i] = "prepare" /\ InTime(i)
  /\ pages' = pages \cup {i}
  /\ Goto(i, "read")
  /\ UNCHANGED <<clockVars, pdfium, ocrVars, sheet, files, crashes>>

-----------------------------------------------------------------------------
(* Reading *)

(* bounded_timeout: what is left of the deadline, before the lock is taken. *)
Read(i) ==
  /\ pc[i] = "read" /\ InTime(i)
  /\ limit' = [limit EXCEPT ![i] =
                 IF OcrTimeout < expires[i] - now THEN OcrTimeout ELSE expires[i] - now]
  /\ Goto(i, "ocrQueue")
  /\ UNCHANGED <<now, expires, pdfium, ocrVars, pages, sheet, files, crashes>>

(* A redirection without the lock. *)
EnterOcrUnlocked(i) ==
  /\ pc[i] = "ocrQueue"
  /\ temp' = i
  /\ previous' = [previous EXCEPT ![i] = tempdir]
  /\ tempdir' = "private"
  /\ limit' = [limit EXCEPT ![i] = now + @]
  /\ Goto(i, "ocr")
  /\ UNCHANGED <<now, expires, pdfium, pages, sheet, files, crashes>>

(* _tesseract_private_temp is entered and the subprocess starts. *)
EnterOcr(i) ==
  /\ pc[i] = "ocrQueue"
  /\ temp = Nobody
  /\ temp' = i
  /\ previous' = [previous EXCEPT ![i] = tempdir]
  /\ tempdir' = "private"
  /\ limit' = [limit EXCEPT ![i] = now + @]
  /\ Goto(i, "ocr")
  /\ UNCHANGED <<now, expires, pdfium, pages, sheet, files, crashes>>

(* The finally block that puts the temporary directory back. *)
LeaveOcr(i) ==
  /\ pc[i] = "ocr"
  /\ temp' = Nobody
  /\ tempdir' = previous[i]
  /\ previous' = [previous EXCEPT ![i] = "system"]
  /\ limit' = [limit EXCEPT ![i] = 0]
  /\ UNCHANGED <<now, expires, pdfium, pages, files, crashes>>

OcrReturns(i) == LeaveOcr(i) /\ Goto(i, "text") /\ UNCHANGED sheet

(* A failing call that leaves the redirection in place. *)
OcrFailsKeeping(i) ==
  /\ pc[i] = "ocr"
  /\ Goto(i, "failed")
  /\ UNCHANGED <<clockVars, pdfium, ocrVars, pages, sheet, files, crashes>>

OcrFails(i) == LeaveOcr(i) /\ Goto(i, "failed") /\ UNCHANGED sheet

OcrTimesOut(i) == limit[i] <= now /\ LeaveOcr(i) /\ GiveUp(i)

-----------------------------------------------------------------------------
(* Extraction and classification *)

(* A sheet OCR failed on is returned unclassified, without another look at *)
(* the deadline.                                                           *)
Extract(i) ==
  /\ pc[i] = "text" /\ InTime(i)
  /\ \E rows \in Readings, line \in BOOLEAN, found \in SUBSET Headers,
        quality \in {"good", "low", "failed"} :
       /\ sheet' = [sheet EXCEPT ![i] = Extracted(rows, line, found, quality)]
       /\ Goto(i, IF quality = "failed" THEN "saving" ELSE "classify")
  /\ Alone

Classify(i) ==
  /\ pc[i] = "classify" /\ InTime(i)
  /\ Return(i, Classified(sheet[i]))
  /\ Alone

(* A late intake that classifies what it extracted all the same. *)
ClassifyAllTheSame(i) ==
  /\ pc[i] = "classify" /\ ~InTime(i)
  /\ Return(i, [Classified(sheet[i]) EXCEPT !.errors = @ \cup {"deadline"}])
  /\ Alone

(* _timeout_result after extraction: what was extracted is kept. *)
ClassifyLate(i) ==
  /\ pc[i] = "classify" /\ ~InTime(i)
  /\ Return(i, Expired(sheet[i]))
  /\ Alone

-----------------------------------------------------------------------------
(* Storing *)

(* save_page_artifacts, when there is a page to save. *)
Stage(i) ==
  /\ pc[i] = "saving" /\ i \in pages
  /\ staging' = staging \cup {i}
  /\ Goto(i, "staged")
  /\ UNCHANGED <<clockVars, pdfium, ocrVars, pages, sheet, published, drafts, crashes>>

NothingToStage(i) ==
  /\ pc[i] = "saving" /\ i \notin pages
  /\ Goto(i, "store")
  /\ Alone /\ UNCHANGED sheet

(* A page cannot be written or the directory not renamed.  The cleanup may *)
(* fail as well: rmtree ignores its own errors, and the intake ends with   *)
(* its staging directory still there.                                      *)
StageFails(i) ==
  /\ pc[i] = "staged"
  /\ staging' = staging \ {i} \/ UNCHANGED staging
  /\ Goto(i, "failed")
  /\ UNCHANGED <<clockVars, pdfium, ocrVars, pages, sheet, published, drafts, crashes>>

(* A directory that is copied into place instead of renamed. *)
PublishCopying(i) ==
  /\ pc[i] = "staged"
  /\ published' = published \cup {i}
  /\ Goto(i, "store")
  /\ UNCHANGED <<clockVars, pdfium, ocrVars, pages, sheet, staging, drafts, crashes>>

(* os.replace *)
Publish(i) ==
  /\ pc[i] = "staged"
  /\ staging' = staging \ {i}
  /\ published' = published \cup {i}
  /\ Goto(i, "store")
  /\ UNCHANGED <<clockVars, pdfium, ocrVars, pages, sheet, drafts, crashes>>

(* A row committed as soon as its files are staged. *)
StoreStaged(i) ==
  /\ pc[i] \in {"staged", "store"}
  /\ drafts' = drafts \cup {i}
  /\ Goto(i, IF pc[i] = "staged" THEN "staged" ELSE "done")
  /\ UNCHANGED <<clockVars, pdfium, ocrVars, pages, sheet, staging, published, crashes>>

(* create_draft commits the row, its revision and its audit entry. *)
Store(i) ==
  /\ pc[i] = "store"
  /\ drafts' = drafts \cup {i}
  /\ Goto(i, "done")
  /\ UNCHANGED <<clockVars, pdfium, ocrVars, pages, sheet, staging, published, crashes>>

(* A commit that fails after the row itself was committed. *)
StoreFailsHalfway(i) ==
  /\ pc[i] = "store"
  /\ drafts' = drafts \cup {i}
  /\ Goto(i, "failed")
  /\ UNCHANGED <<clockVars, pdfium, ocrVars, pages, sheet, staging, published, crashes>>

(* The commit fails and is rolled back; the page files stay. *)
StoreFails(i) ==
  /\ pc[i] = "store"
  /\ Goto(i, "failed")
  /\ Alone /\ UNCHANGED sheet

-----------------------------------------------------------------------------
Working == {i \in Intakes : pc[i] \notin Ended \cup {"new"}}

(* The process dies; locks, redirection and unsaved work go with it. *)
Crash ==
  /\ Working # {}
  /\ crashes < MaxCrashes
  /\ crashes' = crashes + 1
  /\ pc' = [i \in Intakes |-> IF i \in Working THEN "dead" ELSE pc[i]]
  /\ pdfium' = Nobody /\ temp' = Nobody
  /\ tempdir' = "system" /\ previous' = [i \in Intakes |-> "system"]
  /\ limit' = [i \in Intakes |-> 0]
  /\ UNCHANGED <<now, expires, pages, sheet, files>>

(* A free lock is taken, and a timeout fires, within a unit of time. *)
Urgent(i) ==
  \/ pc[i] = "queue" /\ (pdfium = Nobody \/ ~InTime(i))
  \/ pc[i] = "ocrQueue" /\ temp = Nobody
  \/ pc[i] = "ocr" /\ limit[i] <= now

Tick ==
  /\ now < MaxTime
  /\ \A i \in Intakes : ~Urgent(i)
  /\ now' = now + 1
  /\ UNCHANGED <<pc, expires, limit, pdfium, ocrVars, pages, sheet, files, crashes>>

Rendering(i) == Render(i) \/ RenderFails(i) \/ RenderLate(i)

Proceed(i) ==
  \/ Fails(i) \/ Late(i) \/ OpenSource(i) \/ EnterPdfium(i) \/ QueueTimesOut(i)
  \/ Decode(i) \/ Prepare(i)
  \/ Read(i) \/ EnterOcr(i) \/ OcrReturns(i) \/ OcrFails(i) \/ OcrTimesOut(i)
  \/ Extract(i) \/ Classify(i) \/ ClassifyLate(i)
  \/ Stage(i) \/ NothingToStage(i) \/ StageFails(i) \/ Publish(i) \/ Store(i) \/ StoreFails(i)

Next ==
  \/ \E i \in Intakes : Start(i) \/ Proceed(i) \/ Rendering(i)
  \/ Crash \/ Tick

Spec == Init /\ [][Next]_vars

(* Time passes and stages end, but for the native renderer, which nothing  *)
(* cuts off: the deadline is only looked at around it.                     *)
FairSpec == Spec /\ WF_vars(Tick) /\ \A i \in Intakes : WF_vars(Proceed(i))

-----------------------------------------------------------------------------
(* PDFium, which is not thread-safe, is used by one intake at a time, also *)
(* when a queue for it times out or a source breaks it.                    *)
PdfiumExclusive == \A i, j \in Intakes : pc[i] = "pdf" /\ pc[j] = "pdf" => i = j

(* OCR writes its temporary files below private/ and nowhere else, and the *)
(* process has its own temporary directory back whenever no OCR runs,      *)
(* whichever calls overlapped, failed or timed out.                        *)
OcrTempIsPrivate ==
  IF \E i \in Intakes : pc[i] = "ocr" THEN tempdir = "private" ELSE tempdir = "system"

(* A committed draft that names a page has it in place, whatever failed or *)
(* crashed on the way.                                                     *)
DraftsHaveTheirPages == \A i \in drafts : sheet[i].evidence <=> i \in published

(* What is stored is what SheetReview begins with, so nothing an intake    *)
(* did in time or late, half-way or to the end, is approvable before a     *)
(* reviewer's form.                                                        *)
IntakeFeedsReview ==
  \A i \in drafts : sheet[i] \in FreshSheets(Readings) /\ ~Approvable(sheet[i])

(* The committed rows and page directories, as IntakeContract sees them.   *)
Contract == INSTANCE IntakeContract
              WITH Fresh <- FreshSheets(Readings),
                   rows <- [i \in drafts |-> sheet[i]], directories <- published,
                   lost <- {i \in Intakes : pc[i] \in {"failed", "dead"}}

(* A source becomes one whole draft or none: what failed or died has no    *)
(* row and gets none, and no row or page directory that is there is        *)
(* touched by the intakes that run, fail or crash beside it                *)
(* (build_and_store: save_page_artifacts, then one commit).                *)
ImplementsIntake == Contract!Spec

(* The image of a sheet is on disk once at most, staged or in place, and   *)
(* what no row names is left by an intake that was lost: one that failed   *)
(* and could not clean up after itself, or died (save_page_artifacts).     *)
PageKeptOnce ==
  /\ staging \cap published = {}
  /\ \A i \in (staging \cup published) \ drafts : pc[i] \in {"staged", "store", "failed", "dead"}

(* Only rendering may hang: whoever queues for a renderer that hangs, or   *)
(* for OCR, ends all the same.                                             *)
OthersEnd ==
  \A i \in Intakes : i \in Working /\ pc[i] # "pdf" ~> pc[i] \in Ended \cup {"pdf"}

(* "The subprocess timeout is bounded by the intake's global monotonic     *)
(* deadline" (clients/local_ocr.py): no OCR may run past it.               *)
OcrBoundedByDeadline == \A i \in Intakes : pc[i] = "ocr" => limit[i] <= expires[i]
=============================================================================
