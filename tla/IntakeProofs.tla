---------------------------- MODULE IntakeProofs -----------------------------
(***************************************************************************)
(* What TLAPS proves of Intake, for any number of intakes, any budgets and *)
(* any bounds on time and crashes.                                         *)
(*                                                                         *)
(* IntakeInv, the inductive invariant, says at which steps an intake holds *)
(* a lock, has its page, what its sheet is by then, and which of its files *)
(* exist.  The checked invariants follow from it.                          *)
(***************************************************************************)
EXTENDS Intake, SheetProofs

ReadSheets == {Extracted(rows, line, found, quality) :
                 rows \in Readings, line \in BOOLEAN,
                 found \in SUBSET Headers, quality \in {"good", "low", "failed"}}

(* A native library is used by the holder of its lock. *)
LockInv ==
  \A i \in Intakes : (pc[i] = "pdf" <=> pdfium = i) /\ (pc[i] = "ocr" <=> temp = i)

(* The redirection is there while the lock is held, and what the holder    *)
(* will put back is the directory of the process.                          *)
TempInv ==
  /\ temp = Nobody => tempdir = "system"
  /\ \A i \in Intakes : pc[i] = "ocr" => tempdir = "private" /\ previous[i] = "system"

PageInv ==
  \A i \in Intakes :
    pc[i] \in {"read", "ocrQueue", "ocr", "text", "classify", "staged"} => i \in pages

SheetInv ==
  \A i \in Intakes :
    /\ pc[i] = "classify" => sheet[i] \in ReadSheets /\ sheet[i].ocr # "failed"
    /\ pc[i] \in {"saving", "staged", "store", "done"} =>
         sheet[i] \in FreshSheets(Readings) /\ (sheet[i].evidence <=> i \in pages)

(* A page directory is there before the row that names it, its staging     *)
(* directory is gone by then, and only a lost intake leaves one behind.    *)
FilesInv ==
  \A i \in Intakes :
    /\ i \in staging => pc[i] \in {"staged", "failed", "dead"} /\ i \notin published
    /\ i \in published => pc[i] \in {"store", "done", "failed", "dead"}
    /\ pc[i] \in {"store", "done"} => (i \in published <=> i \in pages)
    /\ i \in drafts <=> pc[i] = "done"

IntakeInv == TypeOK /\ LockInv /\ TempInv /\ PageInv /\ SheetInv /\ FilesInv

-----------------------------------------------------------------------------
(* What the stages make of a sheet *)

LEMMA FreshAreSheets ==
  ASSUME NEW s \in FreshSheets(Readings)
  PROVE  s \in Sheets /\ ~Approvable(s)
<1>1. s \in Sheets /\ ~s.confirmed
  BY FreshFields, TablesAssumption
<1> QED BY <1>1 DEF Approvable, DispositionUnconfirmed

LEMMA UnreadIsFresh ==
  ASSUME NEW e \in BOOLEAN
  PROVE  Unread(e) \in FreshSheets(Readings) /\ Unread(e).evidence = e
<1>1. Unread(e) \in FreshSheets(Readings)
  BY DEF FreshSheets
<1>2. Unread(e).evidence = e
  BY DEF Unread, Expired, Extracted
<1> QED BY <1>1, <1>2

(* What was read has its page, is returned as it is when OCR failed, and   *)
(* classified or marked late otherwise.                                    *)
LEMMA ReadIsFresh ==
  ASSUME NEW r \in ReadSheets
  PROVE  /\ r \in Sheets /\ r.evidence
         /\ r.ocr = "failed" => r \in FreshSheets(Readings)
         /\ r.ocr # "failed" =>
              /\ Classified(r) \in FreshSheets(Readings) /\ Classified(r).evidence
              /\ Expired(r) \in FreshSheets(Readings) /\ Expired(r).evidence
<1>1. PICK rows \in Readings, line \in BOOLEAN, found \in SUBSET Headers,
           quality \in {"good", "low", "failed"} : r = Extracted(rows, line, found, quality)
  BY DEF ReadSheets
<1>2. r.evidence /\ r.decision = Undecided
  BY <1>1 DEF Extracted
<1>3. r \in Sheets
  <2>1. DispositionRead(rows, line) \in {"unknown", "none", "present"}
    BY DEF DispositionRead
  <2> QED BY <1>1, <2>1, TablesAssumption DEF Extracted, Sheets
<1>4. Classified(r) \in FreshSheets(Readings)
  BY DEF FreshSheets, ReadSheets
<1>5. Classified(r).evidence
  BY <1>2, <1>3 DEF Classified, Sheets
<1>6. ASSUME r.ocr # "failed"
      PROVE  Expired(r) \in FreshSheets(Readings) /\ Expired(r).evidence
  <2>1. Expired(r) \in FreshSheets(Readings)
    BY <1>6 DEF FreshSheets, ReadSheets
  <2>2. Expired(r).evidence
    BY <1>2, <1>3 DEF Expired, Sheets
  <2> QED BY <2>1, <2>2
<1>7. ASSUME r.ocr = "failed"
      PROVE  r \in FreshSheets(Readings)
  <2>1. Decision(r) = Undecided
    BY <1>7 DEF Decision
  <2>2. Classified(r) = r
    BY <1>2, <1>3, <2>1 DEF Classified, Sheets
  <2> QED BY <1>4, <2>2
<1> QED BY <1>2, <1>3, <1>4, <1>5, <1>6, <1>7

-----------------------------------------------------------------------------
(* The steps of an intake preserve the invariant *)

LEMMA InitInv == Init => IntakeInv
<1> SUFFICES ASSUME Init PROVE IntakeInv
  OBVIOUS
<1>1. Unread(FALSE) \in Sheets
  BY UnreadIsFresh, FreshAreSheets
<1>2. TypeOK
  BY <1>1, BudgetAssumption DEF Init, TypeOK, Steps, Ended
<1>3. LockInv /\ TempInv /\ PageInv /\ SheetInv /\ FilesInv
  BY IntakesAssumption DEF Init, LockInv, TempInv, PageInv, SheetInv, FilesInv
<1> QED BY <1>2, <1>3 DEF IntakeInv

(* Whoever gives up before extraction hands over an unread sheet. *)
LEMMA GiveUpKeeps ==
  ASSUME IntakeInv, NEW i \in Intakes, GiveUp(i), UNCHANGED <<pages, files>>,
         pc[i] \notin {"saving", "staged", "store", "done", "failed", "dead"}
  PROVE  sheet' \in [Intakes -> Sheets] /\ PageInv' /\ SheetInv' /\ FilesInv'
<1> DEFINE kept == i \in pages
<1>1. Unread(kept) \in FreshSheets(Readings) /\ Unread(kept).evidence = kept
  <2>1. kept \in BOOLEAN
    OBVIOUS
  <2> HIDE DEF kept
  <2> QED BY <2>1, UnreadIsFresh
<1>2. Unread(kept) \in Sheets
  BY <1>1, FreshAreSheets
<1> USE DEF GiveUp, Return, Goto, files
<1>3. sheet' \in [Intakes -> Sheets]
  BY <1>2 DEF IntakeInv, TypeOK
<1>4. PageInv' /\ FilesInv'
  BY DEF IntakeInv, TypeOK, PageInv, FilesInv
<1>5. SheetInv'
  BY <1>1 DEF IntakeInv, TypeOK, SheetInv
<1> QED BY <1>3, <1>4, <1>5

(* Ingestion, with PDFium under its lock. *)
LEMMA IngestInv ==
  ASSUME IntakeInv, NEW i \in Intakes,
         Start(i) \/ Fails(i) \/ Late(i) \/ OpenSource(i) \/ EnterPdfium(i)
         \/ QueueTimesOut(i) \/ Render(i) \/ RenderFails(i) \/ RenderLate(i)
         \/ Decode(i) \/ Prepare(i)
  PROVE  IntakeInv'
<1> USE DEF Goto, Alone, clockVars, ocrVars, files, Ended
<1>1. CASE Start(i)
  <2>1. TypeOK'
    BY <1>1, BudgetAssumption DEF Start, IntakeInv, TypeOK, Steps
  <2>2. LockInv' /\ TempInv'
    BY <1>1, IntakesAssumption DEF Start, IntakeInv, TypeOK, LockInv, TempInv
  <2>3. PageInv' /\ SheetInv' /\ FilesInv'
    BY <1>1 DEF Start, IntakeInv, TypeOK, PageInv, SheetInv, FilesInv
  <2> QED BY <2>1, <2>2, <2>3 DEF IntakeInv
<1>2. CASE Fails(i)
  <2>1. TypeOK'
    BY <1>2 DEF Fails, IntakeInv, TypeOK, Steps
  <2>2. LockInv' /\ TempInv'
    BY <1>2, IntakesAssumption DEF Fails, IntakeInv, TypeOK, LockInv, TempInv
  <2>3. PageInv' /\ SheetInv' /\ FilesInv'
    BY <1>2 DEF Fails, IntakeInv, TypeOK, PageInv, SheetInv, FilesInv
  <2> QED BY <2>1, <2>2, <2>3 DEF IntakeInv
<1>3. CASE Late(i)
  <2>1. sheet' \in [Intakes -> Sheets] /\ PageInv' /\ SheetInv' /\ FilesInv'
    BY <1>3, GiveUpKeeps DEF Late
  <2>2. TypeOK'
    BY <1>3, <2>1 DEF Late, GiveUp, Return, IntakeInv, TypeOK, Steps
  <2>3. LockInv' /\ TempInv'
    BY <1>3, IntakesAssumption DEF Late, GiveUp, Return, IntakeInv, TypeOK, LockInv, TempInv
  <2> QED BY <2>1, <2>2, <2>3 DEF IntakeInv
<1>4. CASE OpenSource(i)
  <2>1. TypeOK'
    BY <1>4 DEF OpenSource, IntakeInv, TypeOK, Steps
  <2>2. LockInv' /\ TempInv'
    BY <1>4, IntakesAssumption DEF OpenSource, IntakeInv, TypeOK, LockInv, TempInv
  <2>3. PageInv' /\ SheetInv' /\ FilesInv'
    BY <1>4 DEF OpenSource, IntakeInv, TypeOK, PageInv, SheetInv, FilesInv
  <2> QED BY <2>1, <2>2, <2>3 DEF IntakeInv
<1>5. CASE EnterPdfium(i)
  <2>1. TypeOK'
    BY <1>5 DEF EnterPdfium, IntakeInv, TypeOK, Steps
  <2>2. LockInv' /\ TempInv'
    BY <1>5, IntakesAssumption DEF EnterPdfium, IntakeInv, TypeOK, LockInv, TempInv
  <2>3. PageInv' /\ SheetInv' /\ FilesInv'
    BY <1>5 DEF EnterPdfium, IntakeInv, TypeOK, PageInv, SheetInv, FilesInv
  <2> QED BY <2>1, <2>2, <2>3 DEF IntakeInv
<1>6. CASE QueueTimesOut(i)
  <2>1. sheet' \in [Intakes -> Sheets] /\ PageInv' /\ SheetInv' /\ FilesInv'
    BY <1>6, GiveUpKeeps DEF QueueTimesOut
  <2>2. TypeOK'
    BY <1>6, <2>1 DEF QueueTimesOut, GiveUp, Return, IntakeInv, TypeOK, Steps
  <2>3. LockInv' /\ TempInv'
    BY <1>6, IntakesAssumption DEF QueueTimesOut, GiveUp, Return, IntakeInv, TypeOK, LockInv, TempInv
  <2> QED BY <2>1, <2>2, <2>3 DEF IntakeInv
<1>7. CASE Render(i)
  <2>1. TypeOK'
    BY <1>7 DEF Render, IntakeInv, TypeOK, Steps
  <2>2. LockInv' /\ TempInv'
    BY <1>7, IntakesAssumption DEF Render, IntakeInv, TypeOK, LockInv, TempInv
  <2>3. PageInv' /\ SheetInv' /\ FilesInv'
    BY <1>7 DEF Render, IntakeInv, TypeOK, PageInv, SheetInv, FilesInv
  <2> QED BY <2>1, <2>2, <2>3 DEF IntakeInv
<1>8. CASE RenderFails(i)
  <2>1. TypeOK'
    BY <1>8 DEF RenderFails, IntakeInv, TypeOK, Steps
  <2>2. LockInv' /\ TempInv'
    BY <1>8, IntakesAssumption DEF RenderFails, IntakeInv, TypeOK, LockInv, TempInv
  <2>3. PageInv' /\ SheetInv' /\ FilesInv'
    BY <1>8 DEF RenderFails, IntakeInv, TypeOK, PageInv, SheetInv, FilesInv
  <2> QED BY <2>1, <2>2, <2>3 DEF IntakeInv
<1>9. CASE RenderLate(i)
  <2>1. sheet' \in [Intakes -> Sheets] /\ PageInv' /\ SheetInv' /\ FilesInv'
    BY <1>9, GiveUpKeeps DEF RenderLate
  <2>2. TypeOK'
    BY <1>9, <2>1 DEF RenderLate, GiveUp, Return, IntakeInv, TypeOK, Steps
  <2>3. LockInv' /\ TempInv'
    BY <1>9, IntakesAssumption DEF RenderLate, GiveUp, Return, IntakeInv, TypeOK, LockInv, TempInv
  <2> QED BY <2>1, <2>2, <2>3 DEF IntakeInv
<1>10. CASE Decode(i)
  <2>1. TypeOK'
    BY <1>10 DEF Decode, IntakeInv, TypeOK, Steps
  <2>2. LockInv' /\ TempInv'
    BY <1>10, IntakesAssumption DEF Decode, IntakeInv, TypeOK, LockInv, TempInv
  <2>3. PageInv' /\ SheetInv' /\ FilesInv'
    BY <1>10 DEF Decode, IntakeInv, TypeOK, PageInv, SheetInv, FilesInv
  <2> QED BY <2>1, <2>2, <2>3 DEF IntakeInv
<1>11. CASE Prepare(i)
  <2>1. TypeOK'
    BY <1>11 DEF Prepare, IntakeInv, TypeOK, Steps
  <2>2. LockInv' /\ TempInv'
    BY <1>11, IntakesAssumption DEF Prepare, IntakeInv, TypeOK, LockInv, TempInv
  <2>3. PageInv' /\ SheetInv' /\ FilesInv'
    BY <1>11 DEF Prepare, IntakeInv, TypeOK, PageInv, SheetInv, FilesInv
  <2> QED BY <2>1, <2>2, <2>3 DEF IntakeInv
<1> QED BY <1>1, <1>2, <1>3, <1>4, <1>5, <1>6, <1>7, <1>8, <1>9, <1>10, <1>11

(* OCR, with the temporary directory under its lock. *)
LEMMA ReadInv ==
  ASSUME IntakeInv, NEW i \in Intakes,
         Read(i) \/ EnterOcr(i) \/ OcrReturns(i) \/ OcrFails(i) \/ OcrTimesOut(i)
  PROVE  IntakeInv'
<1> USE DEF Goto, Alone, clockVars, ocrVars, files, Ended
<1>1. CASE Read(i)
  <2>1. TypeOK'
    <3>1. expires[i] - now \in Nat
      BY <1>1 DEF Read, InTime, IntakeInv, TypeOK
    <3> QED BY <1>1, <3>1, BudgetAssumption DEF Read, IntakeInv, TypeOK, Steps
  <2>2. LockInv' /\ TempInv'
    BY <1>1, IntakesAssumption DEF Read, IntakeInv, TypeOK, LockInv, TempInv
  <2>3. PageInv' /\ SheetInv' /\ FilesInv'
    BY <1>1 DEF Read, IntakeInv, TypeOK, PageInv, SheetInv, FilesInv
  <2> QED BY <2>1, <2>2, <2>3 DEF IntakeInv
<1>2. CASE EnterOcr(i)
  <2>1. TypeOK'
    BY <1>2 DEF EnterOcr, IntakeInv, TypeOK, Steps
  <2>2. LockInv' /\ TempInv'
    BY <1>2, IntakesAssumption DEF EnterOcr, IntakeInv, TypeOK, LockInv, TempInv
  <2>3. PageInv' /\ SheetInv' /\ FilesInv'
    BY <1>2 DEF EnterOcr, IntakeInv, TypeOK, PageInv, SheetInv, FilesInv
  <2> QED BY <2>1, <2>2, <2>3 DEF IntakeInv
<1>3. CASE OcrReturns(i)
  <2>1. TypeOK'
    BY <1>3 DEF OcrReturns, LeaveOcr, IntakeInv, TypeOK, Steps
  <2>2. LockInv' /\ TempInv'
    BY <1>3, IntakesAssumption DEF OcrReturns, LeaveOcr, IntakeInv, TypeOK, LockInv, TempInv
  <2>3. PageInv' /\ SheetInv' /\ FilesInv'
    BY <1>3 DEF OcrReturns, LeaveOcr, IntakeInv, TypeOK, PageInv, SheetInv, FilesInv
  <2> QED BY <2>1, <2>2, <2>3 DEF IntakeInv
<1>4. CASE OcrFails(i)
  <2>1. TypeOK'
    BY <1>4 DEF OcrFails, LeaveOcr, IntakeInv, TypeOK, Steps
  <2>2. LockInv' /\ TempInv'
    BY <1>4, IntakesAssumption DEF OcrFails, LeaveOcr, IntakeInv, TypeOK, LockInv, TempInv
  <2>3. PageInv' /\ SheetInv' /\ FilesInv'
    BY <1>4 DEF OcrFails, LeaveOcr, IntakeInv, TypeOK, PageInv, SheetInv, FilesInv
  <2> QED BY <2>1, <2>2, <2>3 DEF IntakeInv
<1>5. CASE OcrTimesOut(i)
  <2>1. sheet' \in [Intakes -> Sheets] /\ PageInv' /\ SheetInv' /\ FilesInv'
    BY <1>5, GiveUpKeeps DEF OcrTimesOut, LeaveOcr
  <2>2. TypeOK'
    BY <1>5, <2>1 DEF OcrTimesOut, LeaveOcr, GiveUp, Return, IntakeInv, TypeOK, Steps
  <2>3. LockInv' /\ TempInv'
    BY <1>5, IntakesAssumption DEF OcrTimesOut, LeaveOcr, GiveUp, Return, IntakeInv, TypeOK, LockInv, TempInv
  <2> QED BY <2>1, <2>2, <2>3 DEF IntakeInv
<1> QED BY <1>1, <1>2, <1>3, <1>4, <1>5

(* Extraction and classification, in time or late. *)
LEMMA ClassifyInv ==
  ASSUME IntakeInv, NEW i \in Intakes,
         Extract(i) \/ Classify(i) \/ ClassifyLate(i)
  PROVE  IntakeInv'
<1> USE DEF Return, Goto, Alone, clockVars, ocrVars, files, Ended
<1>1. CASE Extract(i)
  <2>1. PICK r \in ReadSheets :
          /\ sheet' = [sheet EXCEPT ![i] = r]
          /\ Goto(i, IF r.ocr = "failed" THEN "saving" ELSE "classify")
    <3>1. PICK rows \in Readings, line \in BOOLEAN, found \in SUBSET Headers,
               quality \in {"good", "low", "failed"} :
            /\ sheet' = [sheet EXCEPT ![i] = Extracted(rows, line, found, quality)]
            /\ Goto(i, IF quality = "failed" THEN "saving" ELSE "classify")
      BY <1>1 DEF Extract
    <3>2. Extracted(rows, line, found, quality).ocr = quality
      BY DEF Extracted
    <3>3. Extracted(rows, line, found, quality) \in ReadSheets
      BY DEF ReadSheets
    <3> QED BY <3>1, <3>2, <3>3
  <2>2. r \in Sheets /\ r.evidence /\ (r.ocr = "failed" => r \in FreshSheets(Readings))
    BY ReadIsFresh
  <2>3. i \in pages /\ pc[i] = "text"
    BY <1>1 DEF Extract, IntakeInv, PageInv
  <2>4. Alone
    BY <1>1 DEF Extract
  <2>5. TypeOK'
    BY <2>1, <2>2, <2>4 DEF IntakeInv, TypeOK, Steps
  <2>6. SheetInv'
    BY <2>1, <2>2, <2>3, <2>4 DEF IntakeInv, TypeOK, SheetInv
  <2>7. LockInv' /\ TempInv' /\ PageInv' /\ FilesInv'
    BY <2>1, <2>3, <2>4 DEF IntakeInv, TypeOK, LockInv, TempInv, PageInv, FilesInv
  <2> QED BY <2>5, <2>6, <2>7 DEF IntakeInv
<1>2. CASE Classify(i)
  <2>1. /\ Classified(sheet[i]) \in FreshSheets(Readings) /\ Classified(sheet[i]).evidence
        /\ Classified(sheet[i]) \in Sheets /\ i \in pages
    BY <1>2, ReadIsFresh, FreshAreSheets DEF Classify, IntakeInv, SheetInv, PageInv
  <2>2. TypeOK'
    BY <1>2, <2>1 DEF Classify, IntakeInv, TypeOK, Steps
  <2>3. SheetInv'
    BY <1>2, <2>1 DEF Classify, IntakeInv, TypeOK, SheetInv
  <2>4. LockInv' /\ TempInv' /\ PageInv' /\ FilesInv'
    BY <1>2 DEF Classify, IntakeInv, TypeOK, LockInv, TempInv, PageInv, FilesInv
  <2> QED BY <2>2, <2>3, <2>4 DEF IntakeInv
<1>3. CASE ClassifyLate(i)
  <2>1. /\ Expired(sheet[i]) \in FreshSheets(Readings) /\ Expired(sheet[i]).evidence
        /\ Expired(sheet[i]) \in Sheets /\ i \in pages
    BY <1>3, ReadIsFresh, FreshAreSheets DEF ClassifyLate, IntakeInv, SheetInv, PageInv
  <2>2. TypeOK'
    BY <1>3, <2>1 DEF ClassifyLate, IntakeInv, TypeOK, Steps
  <2>3. SheetInv'
    BY <1>3, <2>1 DEF ClassifyLate, IntakeInv, TypeOK, SheetInv
  <2>4. LockInv' /\ TempInv' /\ PageInv' /\ FilesInv'
    BY <1>3 DEF ClassifyLate, IntakeInv, TypeOK, LockInv, TempInv, PageInv, FilesInv
  <2> QED BY <2>2, <2>3, <2>4 DEF IntakeInv
<1> QED BY <1>1, <1>2, <1>3

(* Page files, then the row that names them. *)
LEMMA StoreInv ==
  ASSUME IntakeInv, NEW i \in Intakes,
         Stage(i) \/ NothingToStage(i) \/ StageFails(i) \/ Publish(i) \/ Store(i)
         \/ StoreFails(i)
  PROVE  IntakeInv'
<1> USE DEF Goto, Alone, clockVars, ocrVars, files, Ended
<1>1. CASE Stage(i)
  <2>1. TypeOK'
    BY <1>1 DEF Stage, IntakeInv, TypeOK, Steps
  <2>2. LockInv' /\ TempInv'
    BY <1>1, IntakesAssumption DEF Stage, IntakeInv, TypeOK, LockInv, TempInv
  <2>3. PageInv' /\ SheetInv' /\ FilesInv'
    BY <1>1 DEF Stage, IntakeInv, TypeOK, PageInv, SheetInv, FilesInv
  <2> QED BY <2>1, <2>2, <2>3 DEF IntakeInv
<1>2. CASE NothingToStage(i)
  <2>1. TypeOK'
    BY <1>2 DEF NothingToStage, IntakeInv, TypeOK, Steps
  <2>2. LockInv' /\ TempInv'
    BY <1>2, IntakesAssumption DEF NothingToStage, IntakeInv, TypeOK, LockInv, TempInv
  <2>3. PageInv' /\ SheetInv' /\ FilesInv'
    BY <1>2 DEF NothingToStage, IntakeInv, TypeOK, PageInv, SheetInv, FilesInv
  <2> QED BY <2>1, <2>2, <2>3 DEF IntakeInv
<1>3. CASE StageFails(i)
  <2>1. TypeOK'
    BY <1>3 DEF StageFails, IntakeInv, TypeOK, Steps
  <2>2. LockInv' /\ TempInv'
    BY <1>3, IntakesAssumption DEF StageFails, IntakeInv, TypeOK, LockInv, TempInv
  <2>3. PageInv' /\ SheetInv' /\ FilesInv'
    BY <1>3 DEF StageFails, IntakeInv, TypeOK, PageInv, SheetInv, FilesInv
  <2> QED BY <2>1, <2>2, <2>3 DEF IntakeInv
<1>4. CASE Publish(i)
  <2>1. TypeOK'
    BY <1>4 DEF Publish, IntakeInv, TypeOK, Steps
  <2>2. LockInv' /\ TempInv'
    BY <1>4, IntakesAssumption DEF Publish, IntakeInv, TypeOK, LockInv, TempInv
  <2>3. PageInv' /\ SheetInv' /\ FilesInv'
    BY <1>4 DEF Publish, IntakeInv, TypeOK, PageInv, SheetInv, FilesInv
  <2> QED BY <2>1, <2>2, <2>3 DEF IntakeInv
<1>5. CASE Store(i)
  <2>1. TypeOK'
    BY <1>5 DEF Store, IntakeInv, TypeOK, Steps
  <2>2. LockInv' /\ TempInv'
    BY <1>5, IntakesAssumption DEF Store, IntakeInv, TypeOK, LockInv, TempInv
  <2>3. PageInv' /\ SheetInv' /\ FilesInv'
    BY <1>5 DEF Store, IntakeInv, TypeOK, PageInv, SheetInv, FilesInv
  <2> QED BY <2>1, <2>2, <2>3 DEF IntakeInv
<1>6. CASE StoreFails(i)
  <2>1. TypeOK'
    BY <1>6 DEF StoreFails, IntakeInv, TypeOK, Steps
  <2>2. LockInv' /\ TempInv'
    BY <1>6, IntakesAssumption DEF StoreFails, IntakeInv, TypeOK, LockInv, TempInv
  <2>3. PageInv' /\ SheetInv' /\ FilesInv'
    BY <1>6 DEF StoreFails, IntakeInv, TypeOK, PageInv, SheetInv, FilesInv
  <2> QED BY <2>1, <2>2, <2>3 DEF IntakeInv
<1> QED BY <1>1, <1>2, <1>3, <1>4, <1>5, <1>6

(* The process dies, or time passes. *)
LEMMA CrashInv == IntakeInv /\ Crash => IntakeInv'
<1> SUFFICES ASSUME IntakeInv, Crash PROVE IntakeInv'
  OBVIOUS
<1> USE DEF Crash, Working, Ended, files
<1>1. TypeOK'
  BY DEF IntakeInv, TypeOK, Steps
<1>2. LockInv' /\ TempInv'
  BY IntakesAssumption DEF IntakeInv, TypeOK, LockInv, TempInv
<1>3. PageInv' /\ SheetInv' /\ FilesInv'
  BY DEF IntakeInv, TypeOK, PageInv, SheetInv, FilesInv
<1> QED BY <1>1, <1>2, <1>3 DEF IntakeInv

LEMMA IdleInv ==
  IntakeInv /\ UNCHANGED <<pc, pdfium, ocrVars, pages, sheet, files>> /\ TypeOK' => IntakeInv'
BY DEF IntakeInv, LockInv, TempInv, PageInv, SheetInv, FilesInv, ocrVars, files

LEMMA NextInv == IntakeInv /\ [Next]_vars => IntakeInv'
<1> SUFFICES ASSUME IntakeInv, [Next]_vars PROVE IntakeInv'
  OBVIOUS
<1>1. ASSUME NEW i \in Intakes, Start(i) \/ Proceed(i) \/ Rendering(i)
      PROVE  IntakeInv'
  BY <1>1, IngestInv, ReadInv, ClassifyInv, StoreInv DEF Proceed, Rendering
<1>2. CASE Tick
  <2>1. TypeOK'
    BY <1>2 DEF Tick, IntakeInv, TypeOK, ocrVars, files
  <2> QED BY <1>2, <2>1, IdleInv DEF Tick
<1>3. CASE UNCHANGED vars
  <2>1. TypeOK'
    BY <1>3 DEF vars, clockVars, ocrVars, files, IntakeInv, TypeOK
  <2> QED BY <1>3, <2>1, IdleInv DEF vars
<1> QED BY <1>1, <1>2, <1>3, CrashInv DEF Next

-----------------------------------------------------------------------------
(* Locks, redirection, pages, sheets and files keep step with each other,  *)
(* whatever times out, fails or crashes.                                   *)
THEOREM IntakeInvariant == Spec => []IntakeInv
BY InitInv, NextInv, PTL DEF Spec

(* Every intake stays in its steps, with a sheet that is one. *)
THEOREM TypeCorrect == Spec => []TypeOK
<1>1. IntakeInv => TypeOK
  BY DEF IntakeInv
<1> QED BY <1>1, IntakeInvariant, PTL

(* No two intakes are in PDFium, also after a timeout or a broken source.  *)
THEOREM PdfiumIsExclusive == Spec => []PdfiumExclusive
<1>1. IntakeInv => PdfiumExclusive
  BY IntakesAssumption DEF IntakeInv, LockInv, PdfiumExclusive
<1> QED BY <1>1, IntakeInvariant, PTL

(* The process has its own temporary directory back whenever no OCR runs.  *)
THEOREM TempIsPrivate == Spec => []OcrTempIsPrivate
<1>1. IntakeInv => OcrTempIsPrivate
  <2> SUFFICES ASSUME IntakeInv PROVE OcrTempIsPrivate
    OBVIOUS
  <2>1. CASE \E i \in Intakes : pc[i] = "ocr"
    BY <2>1 DEF IntakeInv, TempInv, OcrTempIsPrivate
  <2>2. CASE \A i \in Intakes : pc[i] # "ocr"
    <3>1. temp = Nobody
      BY <2>2 DEF IntakeInv, TypeOK, LockInv
    <3> QED BY <2>2, <3>1 DEF IntakeInv, TempInv, OcrTempIsPrivate
  <2> QED BY <2>1, <2>2
<1> QED BY <1>1, IntakeInvariant, PTL

(* A committed draft that names a page has it in place. *)
THEOREM PagesPrecedeDrafts == Spec => []DraftsHaveTheirPages
<1>1. IntakeInv => DraftsHaveTheirPages
  BY DEF IntakeInv, TypeOK, SheetInv, FilesInv, DraftsHaveTheirPages
<1> QED BY <1>1, IntakeInvariant, PTL

(* What is stored is one of the sheets SheetReview begins with. *)
THEOREM StoredSheetsAreFresh == Spec => []IntakeFeedsReview
<1>1. IntakeInv => IntakeFeedsReview
  BY FreshAreSheets DEF IntakeInv, TypeOK, SheetInv, FilesInv, IntakeFeedsReview
<1> QED BY <1>1, IntakeInvariant, PTL

(* No page is on disk twice, and whatever no row names was left by an      *)
(* intake that failed or died.                                             *)
THEOREM PagesAreKeptOnce == Spec => []PageKeptOnce
<1>1. IntakeInv => PageKeptOnce
  BY DEF IntakeInv, TypeOK, FilesInv, PageKeptOnce
<1> QED BY <1>1, IntakeInvariant, PTL

-----------------------------------------------------------------------------
(* Intake implements IntakeContract *)

Lost == {i \in Intakes : pc[i] \in {"failed", "dead"}}

(* An intake that takes a step has no row yet, so every row keeps its      *)
(* sheet; the one that commits hands over a fresh sheet.                   *)
LEMMA IntakeMoves ==
  ASSUME IntakeInv, NEW i \in Intakes, Start(i) \/ Proceed(i) \/ Rendering(i)
  PROVE  /\ i \notin drafts /\ i \notin Lost
         /\ \A j \in drafts : sheet'[j] = sheet[j]
         /\ \/ Publish(i)
            \/ Store(i)
            \/ UNCHANGED <<published, drafts>> /\ Lost' \in {Lost, Lost \cup {i}}
<1> USE DEF Goto, Alone, clockVars, ocrVars, files, Ended
<1>1. pc[i] \notin Ended /\ i \notin Lost
  BY DEF Start, Proceed, Rendering, Fails, Late, OpenSource, EnterPdfium, QueueTimesOut,
         Render, RenderFails, RenderLate, Decode, Prepare, Read, EnterOcr, OcrReturns,
         OcrFails, OcrTimesOut, LeaveOcr, Extract, Classify, ClassifyLate, Stage,
         NothingToStage, StageFails, Publish, Store, StoreFails, Lost
<1>2. \A j \in drafts : j \in Intakes /\ pc[j] = "done"
  BY DEF IntakeInv, TypeOK, FilesInv
<1>3. i \notin drafts
  BY <1>1, <1>2
<1>4. \A s : sheet' = [sheet EXCEPT ![i] = s] => \A j \in drafts : sheet'[j] = sheet[j]
  BY <1>3 DEF IntakeInv, TypeOK
<1>5. \A j \in drafts : sheet'[j] = sheet[j]
  BY <1>4 DEF Start, Proceed, Rendering, Fails, Late, OpenSource, EnterPdfium, QueueTimesOut,
         Render, RenderFails, RenderLate, Decode, Prepare, Read, EnterOcr, OcrReturns,
         OcrFails, OcrTimesOut, LeaveOcr, Extract, Classify, ClassifyLate, Stage,
         NothingToStage, StageFails, Publish, Store, StoreFails, GiveUp, Return
<1>6. \A step : Goto(i, step) => Lost' \in {Lost, Lost \cup {i}}
  <2> SUFFICES ASSUME NEW step, Goto(i, step) PROVE Lost' \in {Lost, Lost \cup {i}}
    OBVIOUS
  <2>1. pc'[i] = step /\ \A j \in Intakes \ {i} : pc'[j] = pc[j]
    BY DEF IntakeInv, TypeOK
  <2>2. CASE step \in {"failed", "dead"}
    <3>1. Lost' = Lost \cup {i}
      BY <2>1, <2>2 DEF Lost
    <3> QED BY <3>1
  <2>3. CASE step \notin {"failed", "dead"}
    <3>1. Lost' = Lost
      BY <1>1, <2>1, <2>3 DEF Lost
    <3> QED BY <3>1
  <2> QED BY <2>2, <2>3
<1>7. Publish(i) \/ Store(i) \/ UNCHANGED <<published, drafts>>
  BY DEF Start, Proceed, Rendering, Fails, Late, OpenSource, EnterPdfium, QueueTimesOut,
         Render, RenderFails, RenderLate, Decode, Prepare, Read, EnterOcr, OcrReturns,
         OcrFails, OcrTimesOut, LeaveOcr, Extract, Classify, ClassifyLate, Stage,
         NothingToStage, StageFails, StoreFails
<1>8. \E step : Goto(i, step)
  <2> HIDE DEF Goto
  <2> QED BY DEF Start, Proceed, Rendering, Fails, Late, OpenSource, EnterPdfium,
         QueueTimesOut, Render, RenderFails, RenderLate, Decode, Prepare, Read, EnterOcr,
         OcrReturns, OcrFails, OcrTimesOut, LeaveOcr, Extract, Classify, ClassifyLate, Stage,
         NothingToStage, StageFails, Publish, Store, StoreFails, GiveUp, Return
<1> QED BY <1>1, <1>3, <1>5, <1>6, <1>7, <1>8

LEMMA ContractSteps ==
  ASSUME IntakeInv, NEW i \in Intakes, Start(i) \/ Proceed(i) \/ Rendering(i)
  PROVE  [Contract!Next]_(Contract!vars)
<1> DEFINE rows == [j \in drafts |-> sheet[j]]
<1>1. /\ i \notin drafts /\ i \notin Lost
      /\ \A j \in drafts : sheet'[j] = sheet[j]
  BY IntakeMoves
<1>2. CASE Publish(i)
  <2>1. drafts' = drafts /\ published' = published \cup {i} /\ i \notin published
    BY <1>2 DEF Publish, IntakeInv, FilesInv
  <2>2. rows' = rows
    BY <1>1, <2>1
  <2>3. Lost' = Lost
    BY <1>2 DEF Publish, Goto, Lost, IntakeInv, TypeOK
  <2>4. Contract!Publish(i)
    BY <1>1, <2>1, <2>2, <2>3 DEF Contract!Publish, Contract!Stored, Lost
  <2> QED BY <2>4 DEF Contract!Next
<1>3. CASE Store(i)
  <2>1. drafts' = drafts \cup {i} /\ UNCHANGED <<sheet, published>>
    BY <1>3 DEF Store
  <2>2. Lost' = Lost
    BY <1>3 DEF Store, Goto, Lost, IntakeInv, TypeOK
  <2>3. sheet[i] \in FreshSheets(Readings) /\ (sheet[i].evidence <=> i \in published)
    BY <1>3 DEF Store, IntakeInv, TypeOK, SheetInv, FilesInv
  <2>4. rows' = [j \in drafts \cup {i} |-> IF j = i THEN sheet[i] ELSE rows[j]]
    BY <1>1, <2>1
  <2>5. Contract!Store(i)
    BY <1>1, <2>1, <2>2, <2>3, <2>4 DEF Contract!Store, Contract!Stored, Lost
  <2> QED BY <2>5 DEF Contract!Next
<1>4. CASE UNCHANGED <<published, drafts>> /\ Lost' \in {Lost, Lost \cup {i}}
  <2>1. rows' = rows
    BY <1>1, <1>4
  <2>2. CASE Lost' = Lost
    BY <1>4, <2>1, <2>2 DEF Contract!vars, Lost
  <2>3. CASE Lost' = Lost \cup {i}
    <3>1. Contract!Lose({i})
      BY <1>1, <1>4, <2>1, <2>3 DEF Contract!Lose, Contract!Stored, Lost
    <3> QED BY <3>1 DEF Contract!Next
  <2> QED BY <1>4, <2>2, <2>3
<1> QED BY <1>2, <1>3, <1>4, IntakeMoves

LEMMA ContractCrash ==
  ASSUME IntakeInv, Crash
  PROVE  Contract!Next
<1>1. /\ Working # {} /\ UNCHANGED <<sheet, drafts, published>>
      /\ pc' = [i \in Intakes |-> IF i \in Working THEN "dead" ELSE pc[i]]
  BY DEF Crash, files
<1>2. Lost' = Lost \cup Working
  BY <1>1 DEF Lost, Working
<1>3. Working \cap (drafts \cup Lost) = {} /\ Working \subseteq Intakes
  BY DEF IntakeInv, TypeOK, FilesInv, Working, Lost, Ended
<1>4. PICK gone \in SUBSET Intakes : gone = Working
  BY <1>3
<1>5. Contract!Lose(gone)
  BY <1>1, <1>2, <1>3, <1>4 DEF Contract!Lose, Contract!Stored, Lost
<1> QED BY <1>5 DEF Contract!Next

(* Every source becomes one whole draft or none, and no intake touches the *)
(* row or the pages of another, for any number of intakes, whatever times  *)
(* out, fails or crashes (build_and_store).                                *)
THEOREM IntakeKeepsContract == Spec => ImplementsIntake
<1>1. Init => Contract!Init
  BY DEF Init, Contract!Init, Contract!Stored
<1>2. IntakeInv /\ [Next]_vars => [Contract!Next]_(Contract!vars)
  <2> SUFFICES ASSUME IntakeInv, [Next]_vars PROVE [Contract!Next]_(Contract!vars)
    OBVIOUS
  <2>1. ASSUME UNCHANGED <<pc, sheet, files>>
        PROVE  UNCHANGED Contract!vars
    BY <2>1 DEF Contract!vars, files
  <2>2. CASE Tick
    BY <2>1, <2>2 DEF Tick
  <2>3. CASE UNCHANGED vars
    BY <2>1, <2>3 DEF vars
  <2> QED BY <2>2, <2>3, ContractSteps, ContractCrash DEF Next
<1> QED BY <1>1, <1>2, IntakeInvariant, PTL DEF Spec, ImplementsIntake, Contract!Spec
=============================================================================
