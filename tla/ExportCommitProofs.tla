------------------------- MODULE ExportCommitProofs -------------------------
(***************************************************************************)
(* What holds of an export for every number of faults, every set of        *)
(* movements and every layout.  Since the process may die at any point,    *)
(* the next export knows only the files: one part of the inductive         *)
(* invariant relates the files to one another at any time; the other says, *)
(* step by step, what the running export may still do or undo.             *)
(***************************************************************************)
EXTENDS ExportCommit, FiniteSetTheorems, TLAPS

Here == profile.format
Calm == "removal" \notin mishaps
NoneMoved == [f \in Format |-> None]

\* Where a last entry is.
In(k, sheet) == sheet # None /\ sheet.cells[k]
InResults(k) == \E f \in Format : In(k, active[f])
InOthers(k) == \E f \in Format : f # Here /\ In(k, active[f])
InArchive(k) == \E s \in archive : s.cells[k]
InPlaced(k) == InResults(k) \/ InArchive(k) \/ In(k, state)

\* No last entry that doc holds is missing in a sheet with its movement.
AsNew(sheet, doc) ==
  sheet # None => \A k \in Key : k \in sheet.keys /\ typed[k] /\ doc.cells[k] => sheet.cells[k]

Legible(sheet, doc) == sheet # None => Readable(sheet, doc)

\* A sheet agrees with the state: it is not refused, and reading it loses nothing.
AgreesWithState(sheet) ==
  state # None => AsNew(sheet, state) /\ (Calm => Legible(sheet, state))

StateFits == state # None => AgreesWithState(active[state.profile.format])

USE DEF ResultGone, Result

-----------------------------------------------------------------------------
\* The files, at any time.  Nothing is pending: the result agrees with the state.
Settled ==
  pending = None =>
    /\ rollback = None
    /\ StateFits
    /\ \A k \in Key : typed[k] => InPlaced(k)

\* What is pending describes the files that it names.
PendingDescribes ==
  pending # None =>
    /\ Readable(pending.file, pending.doc)
    /\ Legible(temp, pending.doc) /\ AsNew(temp, pending.doc)
    /\ AsNew(active[pending.doc.profile.format], pending.doc)
    /\ AsNew(rollback, pending.doc)
    /\ rollback # None => state = None \/ state.profile = pending.doc.profile
    /\ \A k \in Key : typed[k] => InResults(k) \/ InArchive(k) \/ In(k, pending.doc)

\* An export that was not installed is given up; the files are as before unless the
\* previous result is gone, moved aside or purged.
CanBeGivenUp ==
  pending # None /\ (temp # None \/ pending.retry) =>
    /\ StateFits
    /\ ~ResultGone /\ (pending.retry \/ \E f \in Format : active[f] # None) =>
         \A k \in Key : typed[k] => InPlaced(k)

\* The result that was moved aside is put back when there is none.
CanBePutBack ==
  pending # None /\ rollback # None /\ active[pending.doc.profile.format] = None =>
    /\ AgreesWithState(rollback)
    /\ \A k \in Key : typed[k] => InPlaced(k) \/ In(k, rollback)

\* A spreadsheet has no entries but those of its rows.
HasRows(sheet) == sheet # None => \A k \in Key : sheet.cells[k] => k \in sheet.keys

Filled == /\ \A f \in Format : HasRows(active[f])
          /\ HasRows(temp) /\ HasRows(rollback)

FilesFit == Settled /\ PendingDescribes /\ CanBeGivenUp /\ CanBePutBack /\ Filled

-----------------------------------------------------------------------------
\* The recovery.

Untouched == ~job.staged /\ ~job.installed /\ job.moved = NoneMoved

Starting ==
  pc \in {"idle", "prepare", "announce"} \cup Recovering =>
    ~job.announced /\ ~job.dirty /\ Untouched

Redoing == pc = "redo" => pending # None /\ pending.retry

Recording ==
  pc = "record" =>
    /\ pending # None /\ ~pending.retry /\ temp = None
    /\ job.doc # None /\ job.doc.profile = pending.doc.profile
    /\ active[job.doc.profile.format] # None
    /\ Legible(active[job.doc.profile.format], job.doc)
    /\ AsNew(active[job.doc.profile.format], job.doc)
    /\ \A k \in Key : typed[k] => InResults(k) \/ InArchive(k) \/ In(k, job.doc)

DroppingRollback ==
  pc = "dropRollback" =>
    /\ pending # None /\ ~pending.retry /\ temp = None
    /\ active[pending.doc.profile.format] # None
    /\ StateFits
    /\ \A k \in Key : typed[k] => InPlaced(k)

Forgetting ==
  pc = "forget" =>
    /\ pending # None
    /\ StateFits
    /\ ~pending.retry \/ ~ResultGone => \A k \in Key : typed[k] => InPlaced(k)

-----------------------------------------------------------------------------
\* The export, and its rollback.

\* What is announced is what runs.
Announced ==
  /\ pc \in {"stage", "rotate", "install", "commit"} \cup Tidying => job.announced /\ ~job.dirty
  /\ pc \in {"prepare", "announce"} \cup Undoing /\ ~job.announced => pending = None /\ Untouched
  /\ job.announced =>
       /\ pending # None /\ pending.doc = job.doc /\ ~pending.retry
       /\ job.doc # None /\ job.doc.profile = profile
  /\ job.installed => job.announced /\ temp = None
  /\ pc \in {"stage", "rotate", "install", "announce"} => temp # None /\ ~job.installed
  /\ pc \in {"commit"} \cup Tidying => job.installed

\* What was installed is removed again; nothing is aside that was not put there.
Cleared ==
  /\ pc \in {"undoStage", "undoRotate"} /\ job.installed /\ ~job.staged /\ ~job.dirty =>
       active[Here] = None
  /\ pc = "undoRotate" /\ ~job.staged => rollback = None

\* The result moved aside is the one the state describes.
Aside ==
  pc \in {"announce", "stage", "rotate", "install", "commit", "undoTemp", "undoInstall", "undoStage"} =>
    IF job.staged
    THEN /\ ~job.discard /\ job.moved = NoneMoved /\ Compatible
         /\ rollback # None /\ AgreesWithState(rollback)
         /\ ~job.installed => active[Here] = None
    ELSE rollback = None

\* What was rotated can be put back.
MovedFits ==
  pc \in {"rotate", "install", "commit"} \cup (Undoing \ {"undoPending"}) =>
    /\ job.discard \/ job.staged => job.moved = NoneMoved
    /\ \A f \in Format : job.moved[f] # None =>
         /\ active[f] = None \/ (f = Here /\ job.installed)
         /\ (state # None /\ state.profile.format = f => AgreesWithState(job.moved[f]))
         /\ HasRows(job.moved[f])
    /\ job.announced => AsNew(job.moved[Here], job.doc)

\* So the state agrees with what is put back, ...
StateAgrees ==
  /\ pc \in {"stage", "rotate", "install"} \cup Undoing /\ ~job.installed => StateFits
  /\ /\ pc \in {"commit", "undoTemp", "undoInstall"} /\ job.installed
     /\ state # None /\ state.profile.format # Here
     => AgreesWithState(active[state.profile.format])
  /\ pc \in {"undoStage", "undoRotate", "undoPending"} /\ ~job.dirty => StateFits

\* ... which has the last entries, too; ...
OldEntries ==
  ~job.discard =>
    /\ pc \in {"stage", "rotate", "install", "commit", "undoTemp", "undoInstall", "undoStage"} =>
         \A k \in Key : typed[k] =>
           \/ \E f \in Format : ~(job.installed /\ f = Here) /\ In(k, active[f])
           \/ InArchive(k) \/ In(k, state) \/ In(k, rollback)
    /\ pc \in {"undoRotate", "undoPending"} =>
         /\ ~job.dirty => \A k \in Key : typed[k] => InPlaced(k)
         /\ ~job.installed => \A k \in Key : typed[k] => InPlaced(k) \/ In(k, rollback)

\* ... and what is announced has them without the result it replaces.
NewEntries ==
  /\ pc \in {"announce", "stage"} =>
       IF job.discard THEN \A k \in Key : typed[k] => In(k, job.doc)
       ELSE IF Compatible THEN \A k \in Key : typed[k] => InOthers(k) \/ InArchive(k) \/ In(k, job.doc)
       ELSE \A k \in Key : typed[k] => InResults(k) \/ InArchive(k)
  /\ pc = "rotate" => \A k \in Key : typed[k] => InResults(k) \/ InArchive(k)
  /\ pc \in {"install", "commit"} \/ (pc \in Undoing \ {"undoPending"} /\ (job.staged \/ job.installed)) =>
       \A k \in Key : typed[k] => InOthers(k) \/ InArchive(k) \/ In(k, job.doc)

\* What a purge must keep, the state has, or the result as long as it is in place.
PurgedEntries ==
  job.discard /\ (job.announced \/ pc = "announce") /\ pc \notin Tidying =>
    \A k \in Key : typed[k] =>
      /\ Compatible
      /\ \/ In(k, state) \/ In(k, active[Here]) \/ active[Here] = None
         \/ job.installed /\ (pc \in {"commit", "undoTemp", "undoInstall"} \/ job.dirty)

\* The new result is generated for the new state.
Generating ==
  /\ pc = "announce" =>
       /\ job.doc # None /\ job.doc.profile = profile
       /\ Legible(temp, job.doc) /\ AsNew(temp, job.doc) /\ AsNew(active[Here], job.doc)
  /\ pc = "stage" => Untouched /\ (~job.discard => Compatible)
  /\ pc = "rotate" => ~job.discard /\ ~job.staged
  /\ pc = "install" =>
       \/ \A f \in Format : active[f] = None
       \/ ~job.discard /\ Compatible /\ active[Here] = None
  /\ pc \in {"commit"} \cup Tidying => active[Here] # None /\ Readable(active[Here], job.doc)
  /\ pc \in Tidying => state = job.doc

\* What the rollback puts back in place of f, if nothing of it fails.
Back(f) ==
  IF job.moved[f] # None /\ pc # "undoPending" THEN job.moved[f]
  ELSE IF f # Here \/ pc \in {"undoRotate", "undoPending"} THEN active[f]
  ELSE IF job.staged THEN rollback
  ELSE IF job.installed THEN None ELSE active[f]

BeforeIsKept ==
  pc \in {"announce", "stage", "rotate", "install", "commit"} \cup Undoing
  /\ ~job.discard /\ ~job.dirty /\ "scattered" \notin mishaps =>
    \A f \in Format : IF job.before[f] # None THEN Same(Back(f), job.before[f])
                      ELSE Back(f) = None

IInv ==
  /\ TypeOK /\ FilesFit
  /\ Starting /\ Redoing /\ Recording /\ DroppingRollback /\ Forgetting
  /\ Announced /\ Cleared /\ Aside /\ MovedFits /\ StateAgrees /\ OldEntries /\ NewEntries
  /\ PurgedEntries /\ Generating /\ BeforeIsKept

-----------------------------------------------------------------------------
\* Types.

\* A sheet is no missing file, and neither is what is pending.
LEMMA SheetTypes ==
  /\ \A s \in Sheet : /\ s # None /\ s.profile \in Profile /\ s.profile.format \in Format
                      /\ s.keys \subseteq Key /\ s.cells \in [Key -> BOOLEAN]
  /\ \A p \in PendingExport : /\ p # None /\ p.doc \in Sheet /\ p.file \in Sheet
                              /\ p.retry \in BOOLEAN
BY ExportAssumption DEF Sheet, PendingExport, Profile

\* The fields of a job, and of the files.
LEMMA StateTypes ==
  ASSUME TypeOK
  PROVE  /\ Here \in Format
         /\ \A f \in Format : active[f] # None => active[f] \in Sheet
         /\ state # None => state \in Sheet
         /\ temp # None => temp \in Sheet
         /\ rollback # None => rollback \in Sheet
         /\ pending # None => pending \in PendingExport
         /\ job \in ExportJob
         /\ job.doc # None => job.doc \in Sheet
         /\ job.discard \in BOOLEAN
         /\ \A f \in Format : /\ job.moved[f] # None => job.moved[f] \in Sheet
                              /\ job.before[f] # None => job.before[f] \in Sheet
BY DEF TypeOK, ExportJob, Profile, Here

\* A sheet with other entries.
LEMMA SheetCells ==
  ASSUME NEW s \in Sheet, NEW cells \in [Key -> BOOLEAN]
  PROVE  /\ [s EXCEPT !.cells = cells] \in Sheet
         /\ [s EXCEPT !.cells = cells].profile = s.profile
         /\ [s EXCEPT !.cells = cells].keys = s.keys
         /\ [s EXCEPT !.cells = cells].cells = cells
BY DEF Sheet

\* A sheet with the entries of another, and the one generated for a state.
LEMMA SheetOperators ==
  ASSUME NEW doc \in Sheet, NEW sheet \in Sheet
  PROVE  /\ WithEntries(doc, sheet) \in Sheet
         /\ WithEntries(doc, sheet).profile = doc.profile
         /\ WithEntries(doc, sheet).keys = doc.keys
         /\ \A k \in sheet.keys : (WithEntries(doc, sheet).cells[k] <=> sheet.cells[k])
         /\ \A k \in Key \ sheet.keys : (WithEntries(doc, sheet).cells[k] <=> doc.cells[k])
         /\ Generated(doc) \in Sheet
         /\ Generated(doc).profile = doc.profile /\ Generated(doc).keys = doc.keys
         /\ \A k \in Key : (Generated(doc).cells[k] <=> k \in doc.keys /\ doc.cells[k])
<1>1. doc.cells \in [Key -> BOOLEAN] /\ sheet.cells \in [Key -> BOOLEAN]
      /\ sheet.keys \subseteq Key
  BY SheetTypes
<1> DEFINE read == [k \in Key |-> IF k \in sheet.keys THEN sheet.cells[k] ELSE doc.cells[k]]
           written == [k \in Key |-> k \in doc.keys /\ doc.cells[k]]
<1>2. read \in [Key -> BOOLEAN] /\ written \in [Key -> BOOLEAN]
  BY <1>1
<1>3. /\ WithEntries(doc, sheet) = [doc EXCEPT !.cells = read]
      /\ Generated(doc) = [doc EXCEPT !.cells = written]
  BY DEF WithEntries, Generated
<1>4. /\ \A k \in sheet.keys : read[k] = sheet.cells[k]
      /\ \A k \in Key \ sheet.keys : read[k] = doc.cells[k]
      /\ \A k \in Key : written[k] = (k \in doc.keys /\ doc.cells[k])
  BY <1>1
<1> HIDE DEF read, written
<1>5. QED
  BY <1>2, <1>3, <1>4, SheetCells

\* A sheet with an entry that is no longer the last.
LEMMA OutdatedSheet ==
  ASSUME NEW sheet \in Sheet, NEW key \in Key
  PROVE  /\ Outdated(sheet, key) \in Sheet
         /\ Outdated(sheet, key).profile = sheet.profile
         /\ Outdated(sheet, key).keys = sheet.keys
         /\ \A k \in Key : (Outdated(sheet, key).cells[k] <=> k # key /\ sheet.cells[k])
<1>1. sheet.cells \in [Key -> BOOLEAN] /\ sheet # None
  BY SheetTypes
<1> DEFINE left == [sheet.cells EXCEPT ![key] = FALSE]
<1>2. left \in [Key -> BOOLEAN] /\ \A k \in Key : left[k] = (k # key /\ sheet.cells[k])
  BY <1>1
<1>3. Outdated(sheet, key) = [sheet EXCEPT !.cells = left]
  BY <1>1 DEF Outdated, Sheet
<1> HIDE DEF left
<1>4. QED
  BY <1>2, <1>3, SheetCells

\* The archive that is left keeps the sheets with entries.
LEMMA ArchivedEntries ==
  ASSUME NEW sheets \in SUBSET Sheet
  PROVE  /\ Entries(sheets) \subseteq sheets
         /\ \A k \in Key : (\E s \in Entries(sheets) : s.cells[k]) <=> \E s \in sheets : s.cells[k]
BY DEF Entries

\* What it means that an entry is held.
LEMMA HeldInPlaced ==
  ASSUME TypeOK, NEW k \in Key
  PROVE  /\ Held(k, Placed) <=> InPlaced(k)
         /\ Held(k, Reachable) <=>
              \/ InPlaced(k)
              \/ pending # None /\ (In(k, temp) \/ In(k, rollback) \/ In(k, pending.doc))
<1>1. None \notin archive /\ (pending # None => pending.doc # None)
  BY SheetTypes, StateTypes DEF TypeOK
<1>2. Held(k, Placed) <=> InPlaced(k)
  BY <1>1 DEF Held, Placed, InPlaced, InResults, InArchive, In
<1>3. Held(k, Reachable) <=>
        Held(k, Placed) \/ Held(k, Present(IF pending = None THEN {}
                                           ELSE {temp, rollback, pending.doc}))
  BY DEF Held, Reachable
<1>4. QED
  BY <1>1, <1>2, <1>3 DEF Held, Present, In

-----------------------------------------------------------------------------
\* Steps that change no file.

\* The invariants that speak of the files only hold when these stay.
LEMMA FilesStay ==
  ASSUME IInv, UNCHANGED <<files, typed, mishaps>>
  PROVE  FilesFit'
<1> USE DEF IInv, FilesFit, files
<1>1. Settled'
  BY DEF Settled, StateFits, InPlaced, AgreesWithState, InResults, InArchive, In, AsNew,
     Calm, Legible, Readable
<1>2. PendingDescribes'
  BY DEF PendingDescribes, Readable, Legible, AsNew, InResults, InArchive, In
<1>3. CanBeGivenUp'
  BY DEF CanBeGivenUp, StateFits, InPlaced, AgreesWithState, InResults, InArchive, In,
     AsNew, Calm, Legible, Readable
<1>4. CanBePutBack'
  BY DEF CanBePutBack, AgreesWithState, InPlaced, In, AsNew, Calm, Legible, InResults,
     InArchive, Readable
<1>5. Filled'
  BY DEF Filled, HasRows
<1>6. QED
  BY <1>1, <1>2, <1>3, <1>4, <1>5

\* An export that is over, or is to begin, has nothing to say but of the files.
LEMMA NothingRuns ==
  ASSUME TypeOK', FilesFit', pc' \in {"idle", "recover"}, ~job'.announced, ~job'.dirty, Untouched'
  PROVE  IInv'
BY DEF Starting, Redoing, Recording, DroppingRollback, Forgetting, Announced, Cleared,
   Aside, MovedFits, StateAgrees, OldEntries, NewEntries, PurgedEntries, Generating, BeforeIsKept,
   Recovering, Untouched, Tidying, Undoing, Untyped, Here, NoneMoved, Calm, IInv

\* NoJob is what a job begins as.
LEMMA NoJobFits ==
  /\ NoJob \in ExportJob
  /\ ~NoJob.announced /\ ~NoJob.dirty /\ ~NoJob.staged /\ ~NoJob.installed /\ ~NoJob.discard
  /\ NoJob.moved = NoneMoved
BY DEF NoJob, ExportJob, NoneMoved

\* An export that begins, dies or throws leaves the files as they are, which is all
\* that the next one finds; inputs change between exports.
LEMMA StandstillStep ==
  ASSUME IInv, \/ Abort \/ Crash \/ ChangeInputs \/ UNCHANGED vars
               \/ \E discard \in BOOLEAN : Export(discard)
  PROVE  IInv'
<1> USE DEF IInv
<1>1. CASE Abort \/ Crash
  <2>1. UNCHANGED <<inputs, files, typed, mishaps>> /\ pc' = "idle" /\ job' = NoJob
        /\ faults' \in 0 .. MaxFaults
    BY <1>1, ExportAssumption DEF Abort, Crash, Over, Fault, TypeOK
  <2>2. TypeOK'
    BY <2>1, NoJobFits DEF TypeOK, inputs, files
  <2>3. QED
    BY <2>1, <2>2, FilesStay, NothingRuns, NoJobFits DEF Untouched
<1>2. CASE ChangeInputs
  <2>1. /\ UNCHANGED <<files, pc, job, typed, faults, mishaps>> /\ pc = "idle"
        /\ movements' \subseteq Key /\ profile' \in Profile
    BY <1>2 DEF ChangeInputs, TypeOK
  <2>2. TypeOK'
    BY <2>1 DEF TypeOK, files
  <2>3. QED
    BY <2>1, <2>2, FilesStay, NothingRuns DEF Starting, Untouched
<1>3. CASE \E discard \in BOOLEAN : Export(discard)
  <2>1. PICK discard \in BOOLEAN : Export(discard)
    BY <1>3
  <2>2. UNCHANGED <<inputs, files, typed, faults, mishaps>> /\ pc' = "recover"
        /\ job' = [NoJob EXCEPT !.discard = discard]
    BY <2>1 DEF Export, Goto
  <2>3. job' \in ExportJob /\ ~job'.announced /\ ~job'.dirty /\ Untouched'
    BY <2>2, NoJobFits DEF ExportJob, Untouched
  <2>4. TypeOK'
    BY <2>2, <2>3 DEF TypeOK, inputs, files, Recovering
  <2>5. QED
    BY <2>2, <2>3, <2>4, FilesStay, NothingRuns
<1>4. CASE UNCHANGED vars
  <2>1. UNCHANGED <<inputs, files, pc, job, typed, faults, mishaps>>
    BY <1>4 DEF vars, inputs, files
  <2>2. TypeOK'
    BY <2>1 DEF TypeOK, inputs, files
  <2>3. Starting' /\ Redoing' /\ Recording' /\ DroppingRollback' /\ Forgetting'
    BY <2>1 DEF Starting, Redoing, Recording, DroppingRollback, Forgetting, inputs, files,
       Recovering, Untouched, Legible, AsNew, InResults, InArchive, In, StateFits,
       InPlaced, NoneMoved, Readable, AgreesWithState, Calm
  <2>4. Announced' /\ Cleared' /\ Aside' /\ MovedFits'
    BY <2>1 DEF Announced, Cleared, Aside, MovedFits, inputs, files, Tidying, Undoing,
       Untouched, Untyped, Here, NoneMoved, Compatible, AgreesWithState, HasRows, AsNew,
       Calm, Legible, Readable
  <2>5. StateAgrees' /\ OldEntries'
    BY <2>1 DEF StateAgrees, OldEntries, inputs, files, Undoing, StateFits, Here,
       AgreesWithState, In, InArchive, InPlaced, AsNew, Calm, Legible, InResults, Readable
  <2>6. NewEntries' /\ PurgedEntries' /\ Generating'
    BY <2>1 DEF NewEntries, PurgedEntries, Generating, inputs, files, In, Compatible, InOthers,
       InArchive, InResults, Undoing, Legible, AsNew, Here, Untouched, Tidying, Readable,
       NoneMoved
  <2>7. BeforeIsKept'
    BY <2>1 DEF BeforeIsKept, inputs, files, Undoing, Same, Back, Here
  <2>8. QED
    BY <2>1, <2>2, <2>3, <2>4, <2>5, <2>6, <2>7, FilesStay
<1>5. QED
  BY <1>1, <1>2, <1>3, <1>4

-----------------------------------------------------------------------------
\* The recovery of an interrupted export.

\* What fits the state still does when fewer entries are to be kept.
LEMMA StateFitsStays ==
  ASSUME StateFits, UNCHANGED <<active, state>>, Calm' => Calm,
         \A k \in Key : typed'[k] => typed[k]
  PROVE  StateFits'
BY DEF StateFits, AgreesWithState, AsNew, Legible, Readable

\* A recovery has nothing to undo.
LEMMA RecoveryGoesOn ==
  ASSUME TypeOK', FilesFit', pc' \in Recovering \cup {"prepare"},
         ~job'.announced, ~job'.dirty, Untouched', pc' = "prepare" => pending' = None,
         Redoing', Recording', DroppingRollback', Forgetting'
  PROVE  IInv'
BY DEF Starting, Announced, Cleared, Aside, MovedFits, StateAgrees, OldEntries,
   NewEntries, PurgedEntries, Generating, BeforeIsKept, Recovering, Untouched, Tidying, Undoing,
   Untyped, Here, NoneMoved, Calm, IInv

\* What became of the export is decided.
LEMMA RecoverStep ==
  ASSUME IInv, Recover
  PROVE  IInv'
<1> USE DEF IInv, FilesFit
<1>1. /\ UNCHANGED <<movements, profile, archive, state, typed, faults, mishaps>>
      /\ ~job.announced /\ ~job.dirty /\ Untouched
  BY DEF Recover, inputs, Starting, Recovering
<1>2. /\ pending # None => /\ pending \in PendingExport /\ pending.doc \in Sheet
                           /\ pending.doc # None /\ pending.doc.profile.format \in Format
      /\ job \in ExportJob
  BY StateTypes, SheetTypes
<1>3. CASE /\ UNCHANGED <<active, pending, temp, rollback, job>>
           /\ \/ pending = None /\ pc' = "prepare"
              \/ pending # None /\ pending.retry /\ pc' = "redo"
  <2>1. UNCHANGED <<files, typed, mishaps>>
    BY <1>1, <1>3 DEF files
  <2>2. TypeOK'
    BY <1>1, <1>3 DEF TypeOK, Recovering, Writing
  <2>3. Redoing' /\ Recording' /\ DroppingRollback' /\ Forgetting'
    BY <1>3 DEF Redoing, Recording, DroppingRollback, Forgetting
  <2>4. QED
    BY <1>1, <1>3, <2>1, <2>2, <2>3, FilesStay, RecoveryGoesOn DEF Untouched, Recovering
<1>4. CASE /\ pending # None /\ ~pending.retry /\ temp # None
           /\ \E f \in Format : active[f] # None
           /\ pending' = [pending EXCEPT !.retry = TRUE]
           /\ pc' = "redo" /\ UNCHANGED <<active, temp, rollback, job>>
  <2>1. /\ pending' \in PendingExport /\ pending' # None /\ pending'.retry
        /\ pending'.doc = pending.doc /\ pending'.file = pending.file
    <3>1. pending \in PendingExport
      BY <1>2, <1>4
    <3>2. /\ pending' \in PendingExport /\ pending'.retry
          /\ pending'.doc = pending.doc /\ pending'.file = pending.file
      BY <1>4, <3>1 DEF PendingExport
    <3>3. QED
      BY <3>2, SheetTypes
  <2>2. TypeOK'
    BY <1>1, <1>4, <2>1 DEF TypeOK, Recovering
  <2>3. Settled' /\ PendingDescribes'
    BY <1>1, <1>4, <2>1 DEF Settled, PendingDescribes, StateFits, InPlaced, Readable,
       Legible, AsNew, InResults, InArchive, In, AgreesWithState, Calm
  <2>4. CanBeGivenUp' /\ CanBePutBack'
    BY <1>1, <1>4, <2>1 DEF CanBeGivenUp, CanBePutBack, StateFits, InPlaced,
       AgreesWithState, In, InResults, InArchive, AsNew, Calm, Legible, Readable
  <2>5. Redoing' /\ Recording' /\ DroppingRollback' /\ Forgetting'
    BY <1>4, <2>1 DEF Redoing, Recording, DroppingRollback, Forgetting
  <2>6. QED
    BY <1>1, <1>4, <2>2, <2>3, <2>4, <2>5, RecoveryGoesOn DEF Untouched, Recovering,
       Filled, HasRows
<1> DEFINE target == pending.doc.profile.format
<1>5. CASE /\ pending # None /\ ~pending.retry /\ temp # None
           /\ \A f \in Format : active[f] = None
           /\ active' = [active EXCEPT ![target] = temp]
           /\ temp' = None /\ job' = [job EXCEPT !.doc = pending.doc]
           /\ pc' = "record" /\ UNCHANGED <<pending, rollback>>
  <2>1. /\ active'[target] = temp /\ temp # None
        /\ \A f \in Format : f # target => active'[f] = None
    BY <1>2, <1>5 DEF TypeOK
  <2>2. /\ job' \in ExportJob /\ job'.doc = pending.doc
        /\ ~job'.announced /\ ~job'.dirty /\ Untouched'
    BY <1>1, <1>2, <1>5 DEF ExportJob, Untouched
  <2>3. TypeOK'
    BY <1>1, <1>2, <1>5, <2>2 DEF TypeOK, Recovering
  <2>4. Legible(temp, pending.doc) /\ AsNew(temp, pending.doc)
    BY <1>5 DEF PendingDescribes
  <2>5. \A k \in Key : typed[k] => InArchive(k) \/ In(k, pending.doc)
    BY <1>5 DEF PendingDescribes, InResults, In
  <2>6. Settled' /\ PendingDescribes'
    BY <1>1, <1>2, <1>5, <2>1, <2>4, <2>5 DEF Settled, PendingDescribes, StateFits,
       InPlaced, Readable, Legible, AsNew, InResults, InArchive, In, AgreesWithState, Calm
  <2>7. CanBeGivenUp' /\ CanBePutBack' /\ Filled'
    BY <1>2, <1>5, <2>1 DEF CanBeGivenUp, CanBePutBack, Filled, HasRows
  <2>8. Recording'
    BY <1>1, <1>2, <1>5, <2>1, <2>2, <2>4, <2>5 DEF Recording, Legible, AsNew, InResults,
       InArchive, In, Readable
  <2>9. Redoing' /\ DroppingRollback' /\ Forgetting'
    BY <1>5 DEF Redoing, DroppingRollback, Forgetting
  <2>10. QED
    BY <1>5, <2>2, <2>3, <2>6, <2>7, <2>8, <2>9, RecoveryGoesOn DEF Recovering
<1>6. CASE /\ pending # None /\ ~pending.retry /\ temp = None /\ active[target] # None
           /\ Recognized(active[target]) /\ pc' = "record"
           /\ job' = [job EXCEPT !.doc = IF active[target] = pending.file THEN pending.doc
                                         ELSE WithEntries(pending.doc, active[target])]
           /\ UNCHANGED <<active, pending, temp, rollback>>
  <2> DEFINE found == IF active[target] = pending.file THEN pending.doc
                    ELSE WithEntries(pending.doc, active[target])
  <2>1. active[target] \in Sheet
    BY <1>2, <1>6, StateTypes
  <2>2. Readable(active[target], pending.doc) /\ AsNew(active[target], pending.doc)
    BY <1>6 DEF PendingDescribes, Recognized
  <2>3. /\ found \in Sheet /\ found.profile = pending.doc.profile /\ found.keys = pending.doc.keys
        /\ \A k \in Key : \/ found.cells[k] <=> pending.doc.cells[k]
                          \/ k \in active[target].keys /\ (found.cells[k] <=> active[target].cells[k])
    <3>1. CASE active[target] = pending.file
      <4>1. found = pending.doc
        BY <3>1
      <4>2. QED
        BY <1>2, <1>6, <4>1
    <3>2. CASE active[target] # pending.file
      <4>1. found = WithEntries(pending.doc, active[target])
        BY <3>2
      <4>2. pending.doc \in Sheet
        BY <1>2, <1>6
      <4> HIDE DEF found
      <4>3. ASSUME NEW d \in Sheet, NEW s \in Sheet, NEW k \in Key
            PROVE  \/ WithEntries(d, s).cells[k] <=> d.cells[k]
                   \/ k \in s.keys /\ (WithEntries(d, s).cells[k] <=> s.cells[k])
        BY SheetOperators
      <4>4. /\ found \in Sheet /\ found.profile = pending.doc.profile
            /\ found.keys = pending.doc.keys
        BY <2>1, <4>1, <4>2, SheetOperators
      <4>5. QED
        BY <2>1, <4>1, <4>2, <4>3, <4>4
    <3>3. QED
      BY <3>1, <3>2
  <2>4. \A k \in Key : k \in active[target].keys /\ typed[k] /\ found.cells[k] => active[target].cells[k]
    BY <1>6, <2>2, <2>3 DEF AsNew
  <2>5. /\ job' \in ExportJob /\ job'.doc = found
        /\ ~job'.announced /\ ~job'.dirty /\ Untouched'
    BY <1>1, <1>2, <1>6, <2>3 DEF ExportJob, Untouched
  <2> HIDE DEF found
  <2>6. TypeOK'
    BY <1>1, <1>6, <2>5 DEF TypeOK, Recovering
  <2>7. found # None /\ active[target].keys \subseteq Key
    BY <2>1, <2>3, SheetTypes
  <2>8. \A k \in Key : typed[k] => InResults(k) \/ InArchive(k) \/ In(k, found)
    <3>1. ASSUME NEW k \in Key, typed[k], In(k, pending.doc)
          PROVE  InResults(k) \/ In(k, found)
      BY <1>2, <1>6, <2>2, <2>3, <2>7, <3>1 DEF AsNew, InResults, In
    <3>2. QED
      BY <1>6, <3>1 DEF PendingDescribes
  <2>9. Recording'
    BY <1>1, <1>6, <2>2, <2>3, <2>4, <2>5, <2>7, <2>8 DEF Recording, Legible, AsNew,
       InResults, InArchive, In, Readable
  <2>10. UNCHANGED <<files, typed, mishaps>>
    BY <1>1, <1>6 DEF files
  <2>11. Redoing' /\ DroppingRollback' /\ Forgetting'
    BY <1>6 DEF Redoing, DroppingRollback, Forgetting
  <2>12. QED
    BY <1>6, <2>5, <2>6, <2>9, <2>10, <2>11, FilesStay, RecoveryGoesOn DEF Recovering
<1>7. CASE /\ pending # None /\ ~pending.retry /\ temp = None /\ active[target] = None
           /\ rollback # None /\ active' = [active EXCEPT ![target] = rollback]
           /\ rollback' = None /\ pc' = "forget" /\ UNCHANGED <<pending, temp, job>>
  <2>1. /\ active'[target] = rollback
        /\ \A f \in Format : f # target => active'[f] = active[f]
    BY <1>2, <1>7 DEF TypeOK
  <2>2. TypeOK'
    BY <1>1, <1>2, <1>7 DEF TypeOK, Recovering
  <2>3. /\ AgreesWithState(rollback) /\ AsNew(rollback, pending.doc)
        /\ state = None \/ state.profile = pending.doc.profile
        /\ \A k \in Key : typed[k] => InPlaced(k) \/ In(k, rollback)
    BY <1>7 DEF CanBePutBack, PendingDescribes
  <2>4. \A k \in Key : (InResults(k) => InResults(k)') /\ (In(k, rollback) => InResults(k)')
    BY <1>2, <1>7, <2>1 DEF InResults, In
  <2>5. Settled' /\ CanBeGivenUp' /\ CanBePutBack' /\ Filled'
    BY <1>7, <2>1 DEF Settled, CanBeGivenUp, CanBePutBack, Filled, HasRows
  <2>6. PendingDescribes'
    BY <1>1, <1>2, <1>7, <2>1, <2>3, <2>4 DEF PendingDescribes, Legible, AsNew, InArchive
  <2>7. Forgetting'
    BY <1>1, <1>7, <2>1, <2>3, <2>4 DEF Forgetting, StateFits, AgreesWithState, AsNew,
       Calm, Legible, InPlaced, InArchive
  <2>8. Redoing' /\ Recording' /\ DroppingRollback'
    BY <1>7 DEF Redoing, Recording, DroppingRollback
  <2>9. QED
    BY <1>1, <1>7, <2>2, <2>5, <2>6, <2>7, <2>8, RecoveryGoesOn DEF Untouched, Recovering
<1>8. CASE pc' = "idle" /\ job' = NoJob /\ UNCHANGED <<active, pending, temp, rollback>>
  <2>1. UNCHANGED <<files, typed, mishaps>>
    BY <1>1, <1>8 DEF files
  <2>2. TypeOK'
    BY <1>1, <1>8, NoJobFits DEF TypeOK
  <2>3. QED
    BY <1>8, <2>1, <2>2, FilesStay, NothingRuns, NoJobFits DEF Untouched
<1>9. QED
  BY <1>3, <1>4, <1>5, <1>6, <1>7, <1>8 DEF Recover, Goto, Over, Result

\* A result that was never installed is dropped.
LEMMA RedoStep ==
  ASSUME IInv, Redo
  PROVE  IInv'
<1> USE DEF IInv, FilesFit
<1>1. /\ temp' = None /\ pc' = "forget" /\ pending # None /\ pending.retry
      /\ UNCHANGED <<movements, profile, active, archive, state, pending, rollback, job, typed,
                     faults, mishaps>>
      /\ ~job.announced /\ ~job.dirty /\ Untouched
  BY DEF Redo, Goto, inputs, Redoing, Starting, Recovering
<1>2. TypeOK'
  BY <1>1 DEF TypeOK, Recovering
<1>3. Settled' /\ PendingDescribes'
  BY <1>1 DEF Settled, PendingDescribes, StateFits, InPlaced, Readable, Legible, AsNew,
     InResults, InArchive, In, AgreesWithState, Calm
<1>4. CanBeGivenUp' /\ CanBePutBack' /\ Filled'
  BY <1>1 DEF CanBeGivenUp, CanBePutBack, Filled, StateFits, InPlaced, AgreesWithState,
     In, HasRows, InResults, InArchive, AsNew, Calm, Legible, Readable
<1>5. Forgetting'
  BY <1>1 DEF CanBeGivenUp, Forgetting, StateFits, InPlaced, AgreesWithState, InResults,
     InArchive, In, AsNew, Calm, Legible, Readable
<1>6. Redoing' /\ Recording' /\ DroppingRollback'
  BY <1>1 DEF Redoing, Recording, DroppingRollback
<1>7. QED
  BY <1>1, <1>2, <1>3, <1>4, <1>5, <1>6, RecoveryGoesOn DEF Untouched, Recovering

\* The result in place was installed: its state is stored.
LEMMA RecordStep ==
  ASSUME IInv, Record
  PROVE  IInv'
<1> USE DEF IInv, FilesFit
<1>1. /\ state' = job.doc /\ pc = "record" /\ pc' = "dropRollback"
      /\ UNCHANGED <<movements, profile, active, archive, temp, pending, rollback, job, typed,
                     faults, mishaps>>
      /\ ~job.announced /\ ~job.dirty /\ Untouched
  BY DEF Record, Goto, inputs, Starting, Recovering
<1>2. /\ pending # None /\ ~pending.retry /\ temp = None
      /\ job.doc # None /\ job.doc.profile = pending.doc.profile
      /\ active[job.doc.profile.format] # None
      /\ Legible(active[job.doc.profile.format], job.doc)
      /\ AsNew(active[job.doc.profile.format], job.doc)
      /\ \A k \in Key : typed[k] => InResults(k) \/ InArchive(k) \/ In(k, job.doc)
  BY <1>1 DEF Recording
<1>3. TypeOK'
  BY <1>1, <1>2, StateTypes DEF TypeOK, Recovering
<1>4. Settled' /\ CanBeGivenUp' /\ CanBePutBack' /\ Filled'
  BY <1>1, <1>2 DEF Settled, CanBeGivenUp, CanBePutBack, Filled, HasRows
<1>5. PendingDescribes'
  BY <1>1, <1>2 DEF PendingDescribes, Readable, Legible, AsNew, InResults, InArchive, In
<1>6. DroppingRollback'
  BY <1>1, <1>2 DEF DroppingRollback, StateFits, InPlaced, AgreesWithState, InResults,
     InArchive, In, AsNew, Calm, Legible, Readable
<1>7. Redoing' /\ Recording' /\ Forgetting'
  BY <1>1 DEF Redoing, Recording, Forgetting
<1>8. QED
  BY <1>1, <1>3, <1>4, <1>5, <1>6, <1>7, RecoveryGoesOn DEF Untouched, Recovering

\* The previous result is dropped, ...
LEMMA DropRollbackStep ==
  ASSUME IInv, DropRollback
  PROVE  IInv'
<1> USE DEF IInv, FilesFit
<1>1. /\ rollback' = None /\ pc = "dropRollback" /\ pc' = "forget"
      /\ UNCHANGED <<movements, profile, active, archive, state, temp, pending, job, typed,
                     faults, mishaps>>
      /\ ~job.announced /\ ~job.dirty /\ Untouched
  BY DEF DropRollback, Goto, inputs, Starting, Recovering
<1>2. /\ pending # None /\ ~pending.retry /\ temp = None
      /\ active[pending.doc.profile.format] # None /\ StateFits
      /\ \A k \in Key : typed[k] => InPlaced(k)
  BY <1>1 DEF DroppingRollback
<1>3. TypeOK'
  BY <1>1 DEF TypeOK, Recovering
<1>4. Settled' /\ CanBeGivenUp' /\ CanBePutBack' /\ Filled'
  BY <1>1, <1>2 DEF Settled, CanBeGivenUp, CanBePutBack, Filled, HasRows
<1>5. PendingDescribes'
  BY <1>1, <1>2 DEF PendingDescribes, Readable, Legible, AsNew, InResults, InArchive, In
<1>6. Forgetting'
  BY <1>1, <1>2 DEF Forgetting, StateFits, InPlaced, AgreesWithState, InResults,
     InArchive, In, AsNew, Calm, Legible, Readable
<1>7. Redoing' /\ Recording' /\ DroppingRollback'
  BY <1>1 DEF Redoing, Recording, DroppingRollback
<1>8. QED
  BY <1>1, <1>3, <1>4, <1>5, <1>6, <1>7, RecoveryGoesOn DEF Untouched, Recovering

\* ... and then what was pending.
LEMMA ForgetStep ==
  ASSUME IInv, Forget
  PROVE  IInv'
<1> USE DEF IInv, FilesFit
<1>1. /\ pending' = None /\ rollback' = None /\ pc = "forget" /\ pc' = "prepare"
      /\ UNCHANGED <<movements, profile, active, archive, state, temp, job, faults, mishaps>>
      /\ ~job.announced /\ ~job.dirty /\ Untouched
      /\ typed' = IF pending.retry /\ ResultGone
                  THEN [k \in Key |-> typed[k] /\ Held(k, Placed)] ELSE typed
  BY DEF Forget, LoseOthers, RemovePending, Goto, inputs, Starting, Recovering
<1>2. StateFits /\ (~pending.retry \/ ~ResultGone => \A k \in Key : typed[k] => InPlaced(k))
  BY <1>1 DEF Forgetting
<1>3. /\ typed' \in [Key -> BOOLEAN]
      /\ \A k \in Key : typed'[k] => typed[k] /\ InPlaced(k)
  BY <1>1, <1>2, HeldInPlaced DEF TypeOK
<1>4. TypeOK'
  BY <1>1, <1>3 DEF TypeOK, Writing
<1>5. StateFits'
  BY <1>1, <1>2, <1>3, StateFitsStays DEF Calm
<1>6. Settled'
  BY <1>1, <1>3, <1>5 DEF Settled, InPlaced, InResults, InArchive, In
<1>7. PendingDescribes' /\ CanBeGivenUp' /\ CanBePutBack' /\ Filled'
  BY <1>1 DEF PendingDescribes, CanBeGivenUp, CanBePutBack, Filled, HasRows
<1>8. Redoing' /\ Recording' /\ DroppingRollback' /\ Forgetting'
  BY <1>1 DEF Redoing, Recording, DroppingRollback, Forgetting
<1>9. QED
  BY <1>1, <1>4, <1>6, <1>7, <1>8, RecoveryGoesOn DEF Untouched

-----------------------------------------------------------------------------
\* The export itself.

\* An export that was announced recovers nothing.
LEMMA ExportGoesOn ==
  ASSUME TypeOK', FilesFit', pc' \in (Writing \ {"prepare", "announce"}) \cup Tidying \cup Undoing,
         Announced', Cleared', Aside', MovedFits', StateAgrees', OldEntries', NewEntries',
         PurgedEntries', Generating', BeforeIsKept'
  PROVE  IInv'
BY DEF IInv, Starting, Redoing, Recording, DroppingRollback, Forgetting, Writing, Tidying,
   Undoing,
       Recovering

\* The new result is generated with the entries of the one it replaces.
LEMMA PrepareStep ==
  ASSUME IInv, Prepare
  PROVE  IInv'
<1> USE DEF IInv, FilesFit
<1> DEFINE previous == IF Compatible THEN state
                       ELSE [profile |-> profile, keys |-> {}, cells |-> Untyped]
           read == IF Compatible /\ Result(profile) # None
                   THEN WithEntries(previous, Result(profile)) ELSE previous
           kept == IF job.discard THEN movements ELSE Key
           doc == [profile |-> profile, keys |-> movements,
                   cells |-> [k \in Key |-> k \in kept /\ read.cells[k]]]
<1>1. /\ pc = "prepare"
      /\ UNCHANGED <<movements, profile, active, archive, state, pending, rollback, faults, mishaps>>
      /\ ~job.announced /\ ~job.dirty /\ Untouched /\ pending = None /\ rollback = None
      /\ StateFits /\ \A k \in Key : typed[k] => InPlaced(k)
  BY DEF Prepare, inputs, Starting, Announced, Settled
<1>2. CASE Over /\ UNCHANGED <<temp, typed>>
  <2>1. UNCHANGED <<files, typed, mishaps>> /\ pc' = "idle" /\ job' = NoJob
    BY <1>1, <1>2 DEF files, Over
  <2>2. TypeOK'
    BY <1>1, <1>2, <2>1, NoJobFits DEF TypeOK
  <2>3. QED
    BY <2>1, <2>2, FilesStay, NothingRuns, NoJobFits DEF Untouched
<1>3. CASE /\ temp' = Generated(doc)
           /\ job' = [job EXCEPT !.doc = doc, !.before = active]
           /\ typed' = [k \in Key |-> Carried(k) /\ typed[k]]
           /\ pc' = "announce"
  <2>1. previous \in Sheet /\ previous.profile = profile
    <3>1. CASE Compatible
      BY <3>1, StateTypes DEF Compatible
    <3>2. CASE ~Compatible
      BY <3>2 DEF TypeOK, Sheet, Untyped
    <3>3. QED
      BY <3>1, <3>2
  <2>2. active[Here] # None => active[Here] \in Sheet
    BY StateTypes
  <2>3. read \in Sheet
    <3>1. CASE Compatible /\ active[Here] # None
      <4> HIDE DEF previous
      <4>1. read = WithEntries(previous, active[Here])
        BY <3>1 DEF Result, Here
      <4>2. QED
        BY <2>1, <2>2, <3>1, <4>1, SheetOperators
    <3>2. CASE ~(Compatible /\ active[Here] # None)
      BY <2>1, <3>2 DEF Result, Here
    <3>3. QED
      BY <3>1, <3>2
  <2>4. /\ ~Compatible => \A k \in Key : ~read.cells[k]
        /\ Compatible /\ active[Here] = None => read = state
        /\ Compatible /\ active[Here] # None => read = WithEntries(state, active[Here])
    BY DEF Result, Here, Untyped
  <2>5. read.cells \in [Key -> BOOLEAN]
    BY <2>3, SheetTypes
  <2> HIDE DEF previous, read
  <2>6. /\ doc \in Sheet /\ doc.profile = profile /\ doc.keys = movements
        /\ \A k \in Key : doc.cells[k] <=> k \in kept /\ read.cells[k]
    BY <2>5 DEF TypeOK, Sheet
  <2> HIDE DEF doc
  <2>7. /\ temp' \in Sheet /\ temp'.profile = profile /\ temp'.keys = doc.keys /\ temp' # None
        /\ \A k \in Key : temp'.cells[k] <=> k \in doc.keys /\ doc.cells[k]
    <3>1. \A s \in Sheet : s # None
      BY SheetTypes
    <3>2. QED
      BY <1>3, <2>6, <3>1, SheetOperators
  <2>8. /\ job' \in ExportJob /\ job'.doc = doc /\ job'.before = active
        /\ job'.discard = job.discard /\ job'.announced = job.announced /\ job'.dirty = job.dirty
        /\ job'.staged = job.staged /\ job'.installed = job.installed /\ job'.moved = job.moved
    <3>1. job \in ExportJob /\ active \in [Format -> Sheet \cup {None}]
      BY DEF TypeOK
    <3>2. QED
      BY <1>3, <2>6, <3>1 DEF ExportJob
  <2>9. /\ typed' \in [Key -> BOOLEAN]
        /\ \A k \in Key : typed'[k] => Carried(k) /\ typed[k]
    <3>1. \A k \in Key : (Carried(k) /\ typed[k]) \in BOOLEAN
      BY DEF TypeOK, Carried
    <3>2. QED
      BY <1>3, <3>1
  <2>10. TypeOK'
    BY <1>1, <1>3, <2>7, <2>8, <2>9 DEF TypeOK, Writing
  <2>11. StateFits'
    BY <1>1, <2>9, StateFitsStays DEF Calm
  <2>12. /\ Settled' /\ PendingDescribes' /\ CanBeGivenUp' /\ CanBePutBack'
    BY <1>1, <2>9, <2>11
       DEF Settled, PendingDescribes, CanBeGivenUp, CanBePutBack, InPlaced, InResults, InArchive, In
  <2>13. Filled'
    BY <1>1, <2>7 DEF Filled, HasRows
  \* What the result that is replaced holds is read, and so is what only the state remembers.
  <2>14. Compatible => \A k \in Key :
           /\ In(k, active[Here]) => read.cells[k]
           /\ typed[k] /\ In(k, state) => read.cells[k]
           /\ active[Here] # None /\ k \in active[Here].keys /\ read.cells[k] => In(k, active[Here])
    <3> SUFFICES ASSUME Compatible, NEW k \in Key
                 PROVE  /\ In(k, active[Here]) => read.cells[k]
                        /\ typed[k] /\ In(k, state) => read.cells[k]
                        /\ active[Here] # None /\ k \in active[Here].keys /\ read.cells[k]
                             => In(k, active[Here])
      OBVIOUS
    <3>1. state # None /\ state \in Sheet /\ state.profile.format = Here
      BY StateTypes DEF Compatible, Here
    <3>2. CASE active[Here] = None
      BY <2>4, <3>2 DEF In
    <3>3. CASE active[Here] # None
      <4>1. active[Here] \in Sheet /\ active[Here].keys \subseteq Key
        BY <2>2, <3>3, SheetTypes
      <4>2. /\ k \in active[Here].keys => (read.cells[k] <=> active[Here].cells[k])
            /\ k \notin active[Here].keys => (read.cells[k] <=> state.cells[k])
        <5>1. /\ \A i \in active[Here].keys :
                    WithEntries(state, active[Here]).cells[i] <=> active[Here].cells[i]
              /\ \A i \in Key \ active[Here].keys :
                    WithEntries(state, active[Here]).cells[i] <=> state.cells[i]
          BY <3>1, <4>1, SheetOperators
        <5>2. QED
          BY <2>4, <3>3, <5>1
      <4>3. active[Here].cells[k] => k \in active[Here].keys
        BY <3>3, StateTypes DEF Filled, HasRows
      <4>4. k \in active[Here].keys /\ typed[k] /\ state.cells[k] => active[Here].cells[k]
        BY <1>1, <3>1, <3>3 DEF StateFits, AgreesWithState, AsNew
      <4>5. QED
        BY <3>1, <3>3, <4>2, <4>3, <4>4 DEF In
    <3>4. QED
      BY <3>2, <3>3
  <2>15. NewEntries'
    <3> SUFFICES
          IF job.discard THEN \A k \in Key : typed'[k] => In(k, doc)
          ELSE IF Compatible
               THEN \A k \in Key : typed'[k] => InOthers(k) \/ InArchive(k) \/ In(k, doc)
          ELSE \A k \in Key : typed'[k] => InResults(k) \/ InArchive(k)
      BY <1>1, <1>3, <2>8 DEF NewEntries, In, Compatible, InOthers, InArchive, InResults,
         Undoing, Here
    <3>1. doc # None
      BY <2>6, SheetTypes
    <3>2. CASE job.discard
      <4> SUFFICES ASSUME NEW k \in Key, typed'[k]  PROVE In(k, doc)
        BY <3>2
      <4>1. /\ typed[k] /\ Compatible /\ k \in movements
            /\ \E s \in {state, active[Here]} \ {None} : s.cells[k]
        BY <2>9, <3>2 DEF Carried, Result, Here
      <4>2. read.cells[k]
        BY <2>14, <4>1 DEF In
      <4>3. QED
        BY <2>6, <3>1, <3>2, <4>1, <4>2 DEF In
    <3>3. CASE ~job.discard /\ Compatible
      <4> SUFFICES ASSUME NEW k \in Key, typed'[k]
                   PROVE  InOthers(k) \/ InArchive(k) \/ In(k, doc)
        BY <3>3
      <4>1. typed[k] /\ InPlaced(k)
        BY <1>1, <2>9
      <4>2. read.cells[k] => In(k, doc)
        BY <2>6, <3>1, <3>3 DEF In
      <4>3. QED
        BY <2>14, <3>3, <4>1, <4>2 DEF InPlaced, InResults, InOthers
    <3>4. CASE ~job.discard /\ ~Compatible
      <4> SUFFICES ASSUME NEW k \in Key, typed'[k]  PROVE InResults(k) \/ InArchive(k)
        BY <3>4
      <4>1. /\ typed[k]
            /\ \E s \in ({active[f] : f \in Format} \cup archive) \ {None} : s.cells[k]
        BY <2>9, <3>4 DEF Carried
      <4>2. QED
        BY <4>1 DEF InResults, InArchive, In
    <3>5. QED
      BY <3>2, <3>3, <3>4
  <2>16. /\ Legible(temp', doc)
         /\ \A k \in Key : k \in temp'.keys /\ doc.cells[k] => temp'.cells[k]
         /\ \A k \in Key : active[Here] # None /\ k \in active[Here].keys /\ doc.cells[k]
                             => active[Here].cells[k]
    BY <2>4, <2>6, <2>7, <2>14 DEF Legible, Readable, In
  <2>17. temp'.keys \subseteq Key /\ (active[Here] # None => active[Here].keys \subseteq Key)
    BY <2>2, <2>7, SheetTypes
  <2>18. doc # None
    BY <2>6, SheetTypes
  <2>19. Generating'
    BY <1>1, <1>3, <2>6, <2>8, <2>16, <2>17, <2>18
       DEF Generating, Legible, AsNew, Tidying, Here, Readable
  <2>20. Starting' /\ Redoing' /\ Recording' /\ DroppingRollback' /\ Forgetting'
    BY <1>1, <1>3, <2>8
       DEF Starting, Redoing, Recording, DroppingRollback, Forgetting, Recovering, Untouched
  <2>21. Announced' /\ Cleared' /\ Aside'
    BY <1>1, <1>3, <2>7, <2>8 DEF Announced, Cleared, Aside, Tidying, Undoing, Untouched
  <2>22. MovedFits' /\ StateAgrees' /\ OldEntries'
    BY <1>3 DEF MovedFits, StateAgrees, OldEntries, Undoing
  <2>23. BeforeIsKept'
    BY <1>1, <1>3, <2>8 DEF BeforeIsKept, Back, Same, Untouched, NoneMoved, Here
  <2>24. PurgedEntries'
    <3> SUFFICES ASSUME job.discard, NEW k \in Key, typed'[k]
                 PROVE  Compatible /\ (In(k, state) \/ In(k, active[Here]))
      BY <1>1, <2>8 DEF PurgedEntries, Compatible, In, Here
    <3>1. Carried(k) /\ typed[k]
      BY <2>9
    <3>2. QED
      BY <3>1 DEF Carried, In, Here
  <2>25. QED
    BY <2>10, <2>12, <2>13, <2>15, <2>19, <2>20, <2>21, <2>22, <2>23, <2>24
<1>4. QED
  BY <1>2, <1>3 DEF Prepare, Goto

\* When nothing was moved there is nothing to put back.
LEMMA NothingMoved ==
  ASSUME TypeOK', job'.moved = NoneMoved
  PROVE  MovedFits'
<1>1. Here' \in Format
  BY DEF TypeOK, Here, Profile
<1>2. \A f \in Format : job'.moved[f] = None
  BY DEF NoneMoved
<1>3. AsNew(job.moved[Here], job.doc)'
  BY <1>1, <1>2 DEF AsNew
<1>4. QED
  BY <1>2, <1>3 DEF MovedFits

\* It is announced before the files are touched.
LEMMA AnnounceStep ==
  ASSUME IInv, Announce
  PROVE  IInv'
<1> USE DEF IInv, FilesFit
<1>1. /\ pc = "announce"
      /\ UNCHANGED <<movements, profile, active, archive, state, temp, rollback, typed, faults, mishaps>>
      /\ ~job.announced /\ ~job.dirty /\ Untouched /\ pending = None /\ rollback = None
      /\ StateFits /\ \A k \in Key : typed[k] => InPlaced(k)
      /\ temp # None
  BY DEF Announce, inputs, Starting, Announced, Settled
<1>2. /\ job.doc # None /\ job.doc.profile = profile
      /\ Legible(temp, job.doc) /\ AsNew(temp, job.doc) /\ AsNew(active[Here], job.doc)
  BY <1>1 DEF Generating
<1>3. /\ pending' \in PendingExport /\ pending' # None
      /\ pending'.doc = job.doc /\ pending'.file = temp /\ ~pending'.retry
  <2>1. job.doc \in Sheet /\ temp \in Sheet
    BY <1>1, <1>2, StateTypes
  <2>2. pending' = [doc |-> job.doc, file |-> temp, retry |-> FALSE]
    BY DEF Announce
  <2>3. pending' \in PendingExport
    BY <2>1, <2>2 DEF PendingExport
  <2>4. QED
    BY <2>2, <2>3, SheetTypes
<1>4. /\ job' \in ExportJob /\ job'.announced
      /\ job'.doc = job.doc /\ job'.before = job.before /\ job'.discard = job.discard
      /\ job'.dirty = job.dirty /\ job'.staged = job.staged /\ job'.installed = job.installed
      /\ job'.moved = job.moved
  <2>1. job \in ExportJob /\ job' = [job EXCEPT !.announced = TRUE]
    BY DEF TypeOK, Announce
  <2>2. QED
    BY <2>1 DEF ExportJob
<1>5. pc' = IF job.discard \/ Compatible THEN "stage" ELSE "rotate"
  BY DEF Announce, Goto
<1>6. TypeOK'
  BY <1>1, <1>3, <1>4, <1>5 DEF TypeOK, Writing
<1>7. StateFits' /\ \A k \in Key : typed'[k] => InPlaced(k)'
  BY <1>1 DEF StateFits, InPlaced, AgreesWithState, InResults, InArchive, In, AsNew, Calm,
     Legible, Readable
<1>8. PendingDescribes'
  <2>1. \A k \in Key : typed[k] => InResults(k) \/ InArchive(k) \/ In(k, job.doc)
    BY <1>1 DEF NewEntries, InOthers, InResults
  <2>2. QED
    BY <1>1, <1>2, <1>3, <2>1 DEF PendingDescribes, Readable, Legible, AsNew, InResults,
       InArchive, In, Here
<1>9. Settled' /\ CanBeGivenUp' /\ CanBePutBack' /\ Filled'
  BY <1>1, <1>3, <1>7 DEF Settled, CanBeGivenUp, CanBePutBack, Filled, HasRows
<1>10. Announced' /\ Cleared' /\ Aside'
  BY <1>1, <1>2, <1>3, <1>4, <1>5 DEF Announced, Cleared, Aside, Tidying, Undoing, Untouched
<1>11. MovedFits'
  BY <1>1, <1>4, <1>6, NothingMoved DEF Untouched
<1>12. StateAgrees' /\ OldEntries'
  <2>1. StateAgrees'
    BY <1>1, <1>4, <1>5, <1>7 DEF StateAgrees, Undoing, Untouched
  <2>2. OldEntries'
    BY <1>1, <1>4, <1>5, <1>7 DEF OldEntries, Here, In, InArchive, InPlaced, InResults,
       Undoing, Untouched
  <2>3. QED
    BY <2>1, <2>2
<1>13. NewEntries'
  BY <1>1, <1>4, <1>5 DEF NewEntries, In, Compatible, InOthers, InArchive, InResults,
     Undoing, Here, Untouched
<1>14. Generating'
  BY <1>1, <1>4, <1>5 DEF Generating, Tidying, Compatible, Untouched
<1>15. BeforeIsKept'
  BY <1>1, <1>4, <1>5 DEF BeforeIsKept, Undoing, Same, Back, Here, Untouched
<1>16. PurgedEntries'
  BY <1>1, <1>4, <1>5 DEF PurgedEntries, Tidying, Compatible, In, Here, Untouched
<1>17. QED
  BY <1>5, <1>6, <1>8, <1>9, <1>10, <1>11, <1>12, <1>13, <1>14, <1>15, <1>16,
     ExportGoesOn DEF Writing

\* What is announced is what the export does until it is committed or rolled back.
LEMMA AnnouncedExport ==
  ASSUME IInv, pc \in (Writing \ {"prepare", "announce"}) \cup Tidying
  PROVE  /\ job.announced /\ ~job.dirty /\ pending # None /\ ~pending.retry
         /\ job.doc # None /\ job.doc \in Sheet /\ pending.doc = job.doc
         /\ pending.doc.profile = profile /\ pending.doc.profile.format = Here
         /\ job \in ExportJob /\ Here \in Format
BY StateTypes DEF IInv, Announced, Writing, Tidying, Here

\* A purge leaves a state that fits what is left, ...
LEMMA PurgedFits ==
  ASSUME IInv, StateFits, UNCHANGED state, Calm' => Calm, UNCHANGED typed,
         \A f \in Format : active'[f] = None \/ active'[f] = active[f]
  PROVE  StateFits'
<1>1. state # None => state.profile.format \in Format
  BY StateTypes, SheetTypes DEF IInv
<1>2. QED
  BY <1>1 DEF StateFits, AgreesWithState, AsNew, Legible, Readable

\* ... and loses no entry as long as the result that the state describes is there.
LEMMA PurgedIsHeld ==
  ASSUME IInv, job.discard, job.announced, pc \notin Tidying, ~job.installed,
         UNCHANGED <<profile, state>>,
         \A f \in Format : active'[f] = None \/ active'[f] = active[f],
         NEW k \in Key, typed[k]
  PROVE  InPlaced(k)' \/ ResultGone'
<1>1. Here \in Format /\ Compatible /\ (In(k, state) \/ In(k, active[Here]) \/ active[Here] = None)
  BY StateTypes DEF IInv, PurgedEntries
<1>2. state # None /\ state.profile.format = Here
  BY <1>1 DEF Compatible, Here
<1>3. QED
  BY <1>1, <1>2 DEF InPlaced, InResults, In

\* The previous result is moved aside, or the results are purged.
LEMMA StageStep ==
  ASSUME IInv, Stage
  PROVE  IInv'
<1> USE DEF IInv, FilesFit
<1>1. /\ pc = "stage"
      /\ UNCHANGED <<movements, profile, archive, state, pending, temp, typed, faults, mishaps>>
      /\ Untouched /\ (~job.discard => Compatible) /\ rollback = None /\ temp # None
  BY DEF Stage, inputs, Goto, Generating, Announced, Aside, Untouched
<1>2. /\ job.announced /\ ~job.dirty /\ pending # None /\ ~pending.retry
      /\ job.doc # None /\ job.doc \in Sheet /\ pending.doc = job.doc
      /\ pending.doc.profile = profile /\ pending.doc.profile.format = Here
      /\ job \in ExportJob /\ Here \in Format
  BY <1>1, AnnouncedExport DEF Writing
<1>3. CASE job.discard
  <2>1. /\ UNCHANGED <<rollback, job>> /\ pc' \in {"stage", "install"}
        /\ active' \in [Format -> Sheet \cup {None}]
        /\ \A f \in Format : active'[f] = None \/ active'[f] = active[f]
        /\ pc' = "install" => \A f \in Format : active'[f] = None
    BY <1>1, <1>3 DEF Stage, Goto, TypeOK
  <2>2. \A k \in Key : typed[k] => In(k, job.doc)
    BY <1>1, <1>3 DEF NewEntries
  <2>3. TypeOK'
    BY <1>1, <2>1 DEF TypeOK, Writing
  <2>4. StateFits'
    BY <1>1, <2>1, PurgedFits DEF StateAgrees, Untouched, Calm
  <2>5. PurgedEntries'
    BY <1>1, <1>2, <1>3, <2>1 DEF PurgedEntries, Compatible, In, Here, Tidying, Untouched
  <2>6. \A k \in Key : typed[k] => InPlaced(k)' \/ ResultGone'
    BY <1>1, <1>2, <1>3, <2>1, PurgedIsHeld DEF Untouched, Tidying
  <2>7. Settled' /\ CanBeGivenUp' /\ CanBePutBack' /\ Filled'
    BY <1>1, <1>2, <2>1, <2>4, <2>6 DEF Settled, CanBeGivenUp, CanBePutBack, Filled, HasRows
  <2>8. PendingDescribes'
    BY <1>1, <1>2, <2>1, <2>2 DEF PendingDescribes, Readable, Legible, AsNew, InResults,
       InArchive, In
  <2>9. Announced' /\ Cleared' /\ Aside' /\ MovedFits'
    BY <1>1, <1>2, <2>1
       DEF Announced, Cleared, Aside, MovedFits, Tidying, Undoing, Untouched, NoneMoved, AsNew, HasRows, Here
  <2>10. StateAgrees' /\ OldEntries'
    BY <1>1, <1>3, <2>1, <2>4 DEF StateAgrees, OldEntries, Undoing
  <2>11. NewEntries'
    BY <1>1, <1>3, <2>1, <2>2 DEF NewEntries, Undoing, In
  <2>12. Generating' /\ BeforeIsKept'
    BY <1>1, <1>3, <2>1 DEF Generating, BeforeIsKept, Tidying, Untouched
  <2>13. QED
    BY <1>1, <2>1, <2>3, <2>5, <2>7, <2>8, <2>9, <2>10, <2>11, <2>12, ExportGoesOn DEF Writing
<1>4. CASE ~job.discard
  <2>1. /\ active' = [active EXCEPT ![Here] = None] /\ rollback' = active[Here]
        /\ active'[Here] = None /\ \A f \in Format : f # Here => active'[f] = active[f]
        /\ pc' = "install"
    BY <1>2, <1>4 DEF Stage, Goto, Here, TypeOK
  <2>2. /\ job' \in ExportJob /\ (job'.staged <=> active[Here] # None)
        /\ job'.doc = job.doc /\ job'.before = job.before /\ job'.discard = job.discard
        /\ job'.dirty = job.dirty /\ job'.announced = job.announced
        /\ job'.installed = job.installed /\ job'.moved = job.moved
    <3>1. job' = [job EXCEPT !.staged = active[Here] # None]
      BY <1>4 DEF Stage, Here
    <3>2. QED
      BY <1>2, <3>1 DEF ExportJob
  <2>3. TypeOK'
    BY <1>1, <1>2, <2>1, <2>2 DEF TypeOK, Writing
  <2>4. /\ state # None /\ state.profile = profile /\ state.profile.format = Here
        /\ StateFits /\ AgreesWithState(active[Here]) /\ AsNew(active[Here], pending.doc)
        /\ Untouched
    <3>1. StateFits /\ AsNew(active[Here], pending.doc)
      BY <1>1, <1>2 DEF CanBeGivenUp, PendingDescribes
    <3>2. QED
      BY <1>1, <1>4, <3>1 DEF Compatible, Here, StateFits
  <2>5. StateFits'
    BY <1>1, <2>1, <2>4 DEF StateFits, AgreesWithState, AsNew, Legible
  <2>6. \A k \in Key : typed[k] => InPlaced(k)
    BY <1>1, <1>4, <2>4 DEF OldEntries, InPlaced, InResults, In, Untouched
  <2>7. \A k \in Key : /\ InPlaced(k) => InPlaced(k)' \/ In(k, rollback)'
                       /\ InOthers(k) <=> InOthers(k)'
                       /\ InArchive(k) <=> InArchive(k)'
                       /\ InOthers(k) => InResults(k)'
                       /\ In(k, rollback)' => rollback' # None
    BY <1>1, <2>1 DEF InPlaced, InOthers, InResults, InArchive, In, Here
  <2>8. \A k \in Key : typed[k] => InOthers(k) \/ InArchive(k) \/ In(k, job.doc)
    BY <1>1, <1>4 DEF NewEntries
  <2>9. PendingDescribes'
    <3>1. \A k \in Key : typed'[k] => InResults(k)' \/ InArchive(k)' \/ In(k, pending'.doc)
      BY <1>1, <1>2, <2>7, <2>8
    <3>2. Readable(pending.file, pending.doc) /\ Legible(temp, pending.doc) /\ AsNew(temp, pending.doc)
      BY <1>2 DEF PendingDescribes
    <3>3. QED
      BY <1>1, <1>2, <2>1, <2>4, <3>1, <3>2 DEF PendingDescribes, Legible, Readable,
         AsNew, In
  <2>10. CanBePutBack'
    <3>1. AgreesWithState(rollback)'
      BY <1>1, <2>1, <2>4 DEF AgreesWithState, AsNew, Legible, Calm
    <3>2. QED
      BY <1>1, <2>6, <2>7, <3>1 DEF CanBePutBack
  <2>11. Settled' /\ CanBeGivenUp' /\ Filled'
    BY <1>1, <1>2, <2>1, <2>4, <2>5 DEF Settled, CanBeGivenUp, Filled, HasRows, In
  <2>12. Announced' /\ Cleared'
    BY <1>1, <1>2, <2>1, <2>2 DEF Announced, Cleared, Tidying, Undoing, Untouched
  <2>13. Aside'
    <3>1. AgreesWithState(rollback)'
      BY <1>1, <2>1, <2>4 DEF AgreesWithState, AsNew, Legible, Calm
    <3>2. Compatible' /\ Here' = Here
      BY <1>1, <2>4 DEF Compatible, Here
    <3>3. QED
      BY <1>1, <1>4, <2>1, <2>2, <2>4, <3>1, <3>2 DEF Aside, Untouched
  <2>14. MovedFits'
    BY <1>1, <2>2, <2>3, NothingMoved DEF Untouched
  <2>15. StateAgrees'
    BY <1>1, <2>2, <2>4, <2>5 DEF StateAgrees, Undoing, Untouched
  <2>16. OldEntries'
    <3>1. \A k \in Key : typed'[k] => InPlaced(k)' \/ In(k, rollback)'
      BY <1>1, <2>6, <2>7
    <3>2. ~job'.installed
      BY <1>1, <2>2 DEF Untouched
    <3>3. QED
      BY <1>1, <2>1, <3>1, <3>2 DEF OldEntries, InPlaced, InResults
  <2>17. NewEntries'
    <3>1. \A k \in Key : typed'[k] => InOthers(k)' \/ InArchive(k)' \/ In(k, job'.doc)
      BY <1>1, <2>2, <2>7, <2>8
    <3>2. QED
      BY <1>1, <2>1, <3>1 DEF NewEntries, Undoing, In
  <2>18. Generating'
    BY <1>1, <1>4, <2>1, <2>2, <2>4 DEF Generating, Tidying, Compatible, Here
  <2>19. BeforeIsKept'
    <3>1. \A f \in Format : Back(f)' = active[f] /\ Back(f) = active[f]
      BY <1>1, <2>1, <2>2, <2>4 DEF Back, Untouched, NoneMoved, Here
    <3>2. QED
      BY <1>1, <2>2, <3>1 DEF BeforeIsKept, Same
  <2>20. PurgedEntries'
    BY <1>4, <2>2 DEF PurgedEntries
  <2>21. QED
    BY <1>1, <2>1, <2>3, <2>20, <2>9, <2>10, <2>11, <2>12, <2>13, <2>14, <2>15, <2>16, <2>17, <2>18, <2>19,
       ExportGoesOn DEF Writing
<1>5. QED
  BY <1>3, <1>4

\* Results of another profile go to the archive, one after the other.
LEMMA RotateStep ==
  ASSUME IInv, Rotate
  PROVE  IInv'
<1> USE DEF IInv, FilesFit
<1>1. /\ pc = "rotate"
      /\ UNCHANGED <<movements, profile, state, pending, temp, rollback, typed, faults, mishaps>>
      /\ ~job.discard /\ ~job.staged /\ ~job.installed /\ rollback = None /\ temp # None
      /\ StateFits
  BY DEF Rotate, inputs, Generating, Announced, Aside, StateAgrees
<1>2. /\ job.announced /\ ~job.dirty /\ pending # None /\ ~pending.retry
      /\ job.doc # None /\ job.doc \in Sheet /\ pending.doc = job.doc
      /\ pending.doc.profile = profile /\ pending.doc.profile.format = Here
      /\ job \in ExportJob /\ Here \in Format
  BY <1>1, AnnouncedExport DEF Writing
<1>3. \A k \in Key : typed[k] => (InResults(k) \/ InArchive(k)) /\ InPlaced(k)
  <2>1. \A k \in Key : typed[k] => InResults(k) \/ InArchive(k)
    BY <1>1 DEF NewEntries
  <2>2. QED
    BY <2>1 DEF InPlaced
<1>4. /\ Readable(pending.file, pending.doc) /\ Legible(temp, pending.doc) /\ AsNew(temp, pending.doc)
      /\ AsNew(active[Here], job.doc)
  BY <1>2 DEF PendingDescribes
<1>5. CASE /\ \A f \in Format : active[f] = None
           /\ pc' = "install" /\ UNCHANGED <<active, archive, job>>
  <2>1. TypeOK'
    BY <1>1, <1>5 DEF TypeOK, Writing
  <2>2. FilesFit'
    BY <1>1, <1>5, FilesStay DEF files
  <2>3. Announced' /\ Cleared' /\ Aside'
    BY <1>1, <1>2, <1>5
       DEF Announced, Cleared, Aside, AgreesWithState, AsNew, Legible, Calm, Here, Compatible, Undoing, Tidying
  <2>4. MovedFits'
    BY <1>1, <1>5 DEF MovedFits, Undoing, NoneMoved, Here, AgreesWithState, HasRows,
       AsNew, Calm, Legible, Readable
  <2>5. StateAgrees' /\ OldEntries'
    BY <1>1, <1>5 DEF StateAgrees, OldEntries, Undoing, StateFits, Here, AgreesWithState,
       In, InArchive, InPlaced, AsNew, Calm, Legible, InResults, Readable
  <2>6. NewEntries'
    <3>1. \A k \in Key : typed[k] => InArchive(k)
      BY <1>3, <1>5 DEF InResults, In
    <3>2. QED
      BY <1>1, <1>5, <3>1 DEF NewEntries, InArchive, Undoing
  <2>7. Generating'
    BY <1>1, <1>5 DEF Generating, Tidying
  <2>8. BeforeIsKept'
    BY <1>1, <1>5 DEF BeforeIsKept, Undoing, Same, Back, Here
  <2>9. PurgedEntries'
    BY <1>1, <1>5 DEF PurgedEntries
  <2>10. QED
    BY <1>5, <2>1, <2>2, <2>3, <2>4, <2>5, <2>6, <2>7, <2>8, <2>9, ExportGoesOn DEF Writing
<1>6. ASSUME NEW f \in Format, active[f] # None,
             archive' = Entries(archive \cup {active[f]}),
             active' = [active EXCEPT ![f] = None],
             job' = [job EXCEPT !.moved[f] = active[f]], UNCHANGED pc
      PROVE  IInv'
  <2>1. active'[f] = None /\ \A g \in Format : g # f => active'[g] = active[g]
    BY <1>6 DEF TypeOK
  <2>2. active[f] \in Sheet /\ archive \subseteq Sheet
    BY <1>6 DEF TypeOK
  <2>3. /\ job' \in ExportJob /\ job'.doc = job.doc /\ job'.before = job.before
        /\ job'.discard = job.discard /\ job'.dirty = job.dirty /\ job'.announced = job.announced
        /\ job'.installed = job.installed /\ job'.staged = job.staged
        /\ job'.moved[f] = active[f]
        /\ \A g \in Format : g # f => job'.moved[g] = job.moved[g]
    <3> DEFINE moved == [job.moved EXCEPT ![f] = active[f]]
    <3>1. job.moved \in [Format -> Sheet \cup {None}]
      BY <1>2 DEF ExportJob
    <3>2. /\ moved \in [Format -> Sheet \cup {None}] /\ moved[f] = active[f]
          /\ \A g \in Format : g # f => moved[g] = job.moved[g]
      BY <2>2, <3>1
    <3>3. job' = [job EXCEPT !.moved = moved]
      BY <1>2, <1>6 DEF ExportJob
    <3> HIDE DEF moved
    <3>4. QED
      BY <1>2, <3>2, <3>3 DEF ExportJob
  <2>4. /\ archive' \subseteq Sheet
        /\ \A k \in Key : InArchive(k)' <=> InArchive(k) \/ In(k, active[f])
    <3>1. archive \cup {active[f]} \in SUBSET Sheet
      BY <2>2
    <3>2. QED
      BY <1>6, <3>1, ArchivedEntries DEF InArchive, In
  <2>5. TypeOK'
    BY <1>1, <1>2, <1>6, <2>3, <2>4 DEF TypeOK
  <2>6. \A k \in Key : /\ InResults(k) \/ InArchive(k) => InResults(k)' \/ InArchive(k)'
                       /\ InPlaced(k) => InPlaced(k)'
    BY <1>1, <2>1, <2>4 DEF InPlaced, InResults, In
  <2>7. StateFits'
    <3>1. state # None => state.profile.format \in Format
      BY StateTypes, SheetTypes
    <3>2. QED
      BY <1>1, <2>1, <3>1 DEF StateFits, AgreesWithState, AsNew, Calm, Legible, Readable
  <2>8. Settled' /\ CanBeGivenUp' /\ CanBePutBack' /\ Filled'
    BY <1>1, <1>2, <1>3, <2>1, <2>6, <2>7 DEF Settled, CanBeGivenUp, CanBePutBack, Filled,
       HasRows
  <2>9. PendingDescribes'
    <3>1. \A k \in Key : typed'[k] => InResults(k)' \/ InArchive(k)' \/ In(k, pending'.doc)
      BY <1>1, <1>3, <2>6
    <3>2. AsNew(active'[Here], pending.doc)
      BY <1>2, <1>4, <2>1 DEF AsNew
    <3>3. QED
      BY <1>1, <1>2, <1>4, <3>1, <3>2 DEF PendingDescribes, Legible, AsNew, In
  <2>10. Announced' /\ Cleared' /\ Aside'
    BY <1>1, <1>2, <1>6, <2>3 DEF Announced, Cleared, Aside, Undoing, Tidying
  <2>11. MovedFits'
    <3>1. ASSUME NEW g \in Format, job'.moved[g] # None
          PROVE  /\ active'[g] = None
                 /\ state # None /\ state.profile.format = g => AgreesWithState(job'.moved[g])
                 /\ HasRows(job'.moved[g])
      <4>1. CASE g = f
        BY <2>1, <2>3, <4>1, <1>1 DEF StateFits, Filled
      <4>2. CASE g # f
        BY <1>1, <2>1, <2>3, <3>1, <4>2 DEF MovedFits
      <4>3. QED
        BY <4>1, <4>2
    <3>2. AsNew(job'.moved[Here], job.doc)
      <4>1. CASE Here = f
        BY <1>4, <2>3, <4>1
      <4>2. CASE Here # f
        BY <1>1, <1>2, <2>3, <4>2 DEF MovedFits
      <4>3. QED
        BY <4>1, <4>2
    <3>3. \A g \in Format : state # None /\ state.profile.format = g =>
            (AgreesWithState(job.moved[g])' <=> AgreesWithState(job'.moved[g]))
      BY <1>1 DEF AgreesWithState, AsNew, Legible, Calm
    <3>4. QED
      BY <1>1, <1>2, <1>6, <2>3, <3>1, <3>2, <3>3 DEF MovedFits, AsNew, HasRows, Here
  <2>12. StateAgrees'
    BY <1>1, <1>6, <2>3, <2>7 DEF StateAgrees, Undoing
  <2>13. OldEntries'
    <3>1. \A k \in Key : typed'[k] => InPlaced(k)'
      BY <1>1, <1>3, <2>6
    <3>2. QED
      BY <1>1, <1>6, <2>3, <3>1 DEF OldEntries, InPlaced, InResults
  <2>14. NewEntries'
    <3>1. \A k \in Key : typed'[k] => InResults(k)' \/ InArchive(k)'
      BY <1>1, <1>3, <2>6
    <3>2. QED
      BY <1>1, <1>6, <3>1 DEF NewEntries, Undoing
  <2>15. Generating'
    BY <1>1, <1>6, <2>3 DEF Generating, Tidying
  <2>16. BeforeIsKept'
    <3>1. job.moved[f] = None
      BY <1>1, <1>6 DEF MovedFits
    <3>2. \A g \in Format : Back(g)' = Back(g)
      BY <1>1, <1>6, <2>1, <2>3, <3>1 DEF Back, Here
    <3>3. QED
      BY <1>1, <1>6, <2>3, <3>2 DEF BeforeIsKept, Same
  <2>17. PurgedEntries'
    BY <1>1, <2>3 DEF PurgedEntries
  <2>18. QED
    BY <1>1, <1>6, <2>5, <2>8, <2>9, <2>10, <2>11, <2>12, <2>13, <2>14, <2>15, <2>16, <2>17,
       ExportGoesOn DEF Writing
<1>7. QED
  <2>1. \A g \in Format : g \in {"csv", "xlsx"}
    BY DEF Format
  <2>2. "csv" \in Format /\ "xlsx" \in Format
    BY DEF Format
  <2>3. CASE \A f \in Format : active[f] = None
    BY <1>5, <2>3 DEF Rotate, Goto
  <2>4. CASE active["csv"] # None
    BY <1>6, <2>2, <2>4 DEF Rotate
  <2>5. CASE active["csv"] = None /\ active["xlsx"] # None
    BY <1>6, <2>2, <2>5 DEF Rotate
  <2>6. QED
    BY <2>1, <2>3, <2>4, <2>5

\* The new result takes its place, ...
LEMMA InstallStep ==
  ASSUME IInv, Install
  PROVE  IInv'
<1> USE DEF IInv, FilesFit
<1>1. /\ pc = "install" /\ pc' = "commit" /\ temp' = None
      /\ active' = [active EXCEPT ![Here] = temp]
      /\ UNCHANGED <<movements, profile, archive, state, pending, rollback, typed, faults, mishaps>>
      /\ temp # None /\ ~job.installed /\ StateFits
  BY DEF Install, inputs, Goto, Here, Announced, StateAgrees
<1>2. /\ job.announced /\ ~job.dirty /\ pending # None /\ ~pending.retry
      /\ job.doc # None /\ job.doc \in Sheet /\ pending.doc = job.doc
      /\ pending.doc.profile = profile /\ pending.doc.profile.format = Here
      /\ job \in ExportJob /\ Here \in Format
  BY <1>1, AnnouncedExport DEF Writing
<1>3. active[Here] = None
  BY <1>1, <1>2 DEF Generating
<1>4. active'[Here] = temp /\ \A f \in Format : f # Here => active'[f] = active[f]
  BY <1>1, <1>2 DEF TypeOK
<1>5. /\ job' \in ExportJob /\ job'.installed /\ job'.doc = job.doc /\ job'.before = job.before
      /\ job'.discard = job.discard /\ job'.dirty = job.dirty /\ job'.announced = job.announced
      /\ job'.moved = job.moved /\ job'.staged = job.staged
  <2>1. job' = [job EXCEPT !.installed = TRUE]
    BY DEF Install
  <2>2. QED
    BY <1>2, <2>1 DEF ExportJob
<1>6. TypeOK'
  BY <1>1, <1>2, <1>5 DEF TypeOK, Writing
<1>7. /\ Readable(pending.file, pending.doc) /\ Legible(temp, pending.doc) /\ AsNew(temp, pending.doc)
      /\ AsNew(rollback, pending.doc)
      /\ rollback # None => state = None \/ state.profile = pending.doc.profile
      /\ \A k \in Key : typed[k] => InResults(k) \/ InArchive(k) \/ In(k, pending.doc)
  BY <1>2 DEF PendingDescribes
<1>8. \A k \in Key : /\ InResults(k) => InResults(k)'
                     /\ InOthers(k) <=> InOthers(k)'
                     /\ InArchive(k) <=> InArchive(k)'
  BY <1>1, <1>3, <1>4 DEF InResults, InOthers, InArchive, In, Here
<1>9. PendingDescribes'
  <2>1. \A k \in Key : typed'[k] => InResults(k)' \/ InArchive(k)' \/ In(k, pending'.doc)
    BY <1>1, <1>7, <1>8
  <2>2. QED
    BY <1>1, <1>2, <1>4, <1>7, <2>1 DEF PendingDescribes, Legible, Readable, AsNew, In
<1>10. Settled' /\ CanBeGivenUp' /\ CanBePutBack' /\ Filled'
  BY <1>1, <1>2, <1>4 DEF Settled, CanBeGivenUp, CanBePutBack, Filled, HasRows
<1>11. Announced' /\ Cleared'
  BY <1>1, <1>2, <1>5 DEF Announced, Cleared, Undoing, Tidying
<1>12. Aside'
  BY <1>1, <1>5 DEF Aside, NoneMoved, Compatible, AgreesWithState, Here, AsNew, Calm,
     Legible, Readable
<1>13. MovedFits'
  BY <1>1, <1>4, <1>5 DEF MovedFits, Undoing, NoneMoved, Here, AgreesWithState, HasRows,
     AsNew, Calm, Legible, Readable
<1>14. StateAgrees'
  <2>1. state # None => state.profile.format \in Format
    BY StateTypes, SheetTypes
  <2>2. QED
    BY <1>1, <1>4, <1>5, <2>1 DEF StateAgrees, Undoing, StateFits, Here, AgreesWithState,
       AsNew, Calm, Legible, Readable
<1>15. OldEntries'
  <2>1. \A k \in Key : (\E f \in Format : In(k, active[f])) =>
          \E f \in Format : f # Here /\ In(k, active'[f])
    BY <1>3, <1>4 DEF In
  <2>2. ~job.discard => \A k \in Key : typed[k] =>
          InResults(k) \/ InArchive(k) \/ In(k, state) \/ In(k, rollback)
    BY <1>1 DEF OldEntries, InResults
  <2>3. QED
    BY <1>1, <1>5, <2>1, <2>2 DEF OldEntries, InResults, InArchive, Here, In, Undoing
<1>16. NewEntries'
  <2>1. \A k \in Key : typed'[k] => InOthers(k)' \/ InArchive(k)' \/ In(k, job'.doc)
    BY <1>1, <1>5, <1>8 DEF NewEntries
  <2>2. QED
    BY <1>1, <2>1 DEF NewEntries, In
<1>17. Generating'
  <2>1. Readable(temp, job.doc)
    BY <1>1, <1>2, <1>7 DEF Legible
  <2>2. QED
    BY <1>1, <1>4, <1>5, <2>1 DEF Generating, Tidying, Here, Readable
<1>18. BeforeIsKept'
  <2>1. \A f \in Format : Back(f)' = Back(f)
    BY <1>1, <1>3, <1>4, <1>5 DEF Back, Here
  <2>2. QED
    BY <1>1, <1>5, <2>1 DEF BeforeIsKept, Same
<1>19. PurgedEntries'
  BY <1>1, <1>5 DEF PurgedEntries, Compatible, In, Here, Tidying
<1>20. QED
  BY <1>1, <1>19, <1>6, <1>9, <1>10, <1>11, <1>12, <1>13, <1>14, <1>15, <1>16, <1>17, <1>18, ExportGoesOn
     DEF Writing

\* ... and the state that describes it is stored.
LEMMA CommitStep ==
  ASSUME IInv, Commit
  PROVE  IInv'
<1> USE DEF IInv, FilesFit
<1>1. /\ pc = "commit" /\ pc' = "tidyRollback" /\ state' = job.doc
      /\ UNCHANGED <<movements, profile, active, archive, pending, temp, rollback, job, typed,
                     faults, mishaps>>
      /\ job.installed /\ temp = None
      /\ active[Here] # None /\ Readable(active[Here], job.doc)
  BY DEF Commit, inputs, Goto, Generating, Announced
<1>2. /\ job.announced /\ ~job.dirty /\ pending # None /\ ~pending.retry
      /\ job.doc # None /\ job.doc \in Sheet /\ pending.doc = job.doc
      /\ pending.doc.profile = profile /\ pending.doc.profile.format = Here
      /\ job \in ExportJob /\ Here \in Format
  BY <1>1, AnnouncedExport DEF Writing
<1>3. TypeOK'
  BY <1>1, <1>2 DEF TypeOK, Tidying
<1>4. PendingDescribes'
  BY <1>1, <1>2 DEF PendingDescribes, Readable, Legible, AsNew, InResults, InArchive, In
<1>5. Settled' /\ CanBeGivenUp' /\ CanBePutBack' /\ Filled'
  BY <1>1, <1>2 DEF Settled, CanBeGivenUp, CanBePutBack, Filled, HasRows
<1>6. Announced' /\ Cleared' /\ Aside' /\ MovedFits'
  BY <1>1, <1>2 DEF Announced, Cleared, Aside, MovedFits, Tidying, Undoing
<1>7. StateAgrees' /\ OldEntries' /\ NewEntries' /\ PurgedEntries' /\ BeforeIsKept'
  BY <1>1 DEF StateAgrees, OldEntries, NewEntries, PurgedEntries, BeforeIsKept, Undoing, Tidying
<1>8. Generating'
  BY <1>1 DEF Generating, Tidying, Here, Readable
<1>9. QED
  BY <1>1, <1>3, <1>4, <1>5, <1>6, <1>7, <1>8, ExportGoesOn DEF Tidying

\* What is left of the previous result and of the announcement is removed.
LEMMA TidyRollbackStep ==
  ASSUME IInv, TidyRollback
  PROVE  IInv'
<1> USE DEF IInv, FilesFit
<1>1. /\ pc = "tidyRollback" /\ pc' = "tidyPending" /\ (rollback' = None \/ rollback' = rollback)
      /\ UNCHANGED <<movements, profile, active, archive, state, pending, temp, job, typed,
                     faults, mishaps>>
      /\ job.installed /\ temp = None
      /\ active[Here] # None
  BY DEF TidyRollback, inputs, Goto, Generating, Announced, Tidying
<1>2. /\ job.announced /\ ~job.dirty /\ pending # None /\ ~pending.retry
      /\ job.doc # None /\ job.doc \in Sheet /\ pending.doc = job.doc
      /\ pending.doc.profile = profile /\ pending.doc.profile.format = Here
      /\ job \in ExportJob /\ Here \in Format
  BY <1>1, AnnouncedExport DEF Tidying
<1>3. TypeOK'
  BY <1>1, <1>2 DEF TypeOK, Tidying
<1>4. PendingDescribes'
  BY <1>1, <1>2 DEF PendingDescribes, Readable, Legible, AsNew, InResults, InArchive, In
<1>5. Settled' /\ CanBeGivenUp' /\ CanBePutBack' /\ Filled'
  BY <1>1, <1>2 DEF Settled, CanBeGivenUp, CanBePutBack, Filled, HasRows
<1>6. Announced' /\ Cleared' /\ Aside' /\ MovedFits'
  BY <1>1, <1>2 DEF Announced, Cleared, Aside, MovedFits, Tidying, Undoing
<1>7. StateAgrees' /\ OldEntries' /\ NewEntries' /\ PurgedEntries' /\ BeforeIsKept'
  BY <1>1 DEF StateAgrees, OldEntries, NewEntries, PurgedEntries, BeforeIsKept, Undoing, Tidying
<1>8. Generating'
  BY <1>1 DEF Generating, Tidying, Here, Readable
<1>9. QED
  BY <1>1, <1>3, <1>4, <1>5, <1>6, <1>7, <1>8, ExportGoesOn DEF Tidying

\* The pending file goes, after its rollback file: the files are settled.
LEMMA TidyPendingStep ==
  ASSUME IInv, TidyPending
  PROVE  IInv'
<1> USE DEF IInv, FilesFit
<1>1. /\ pc = "tidyPending" /\ pc' = "idle" /\ job' = NoJob /\ pending' = None /\ rollback' = None
      /\ UNCHANGED <<movements, profile, active, archive, state, temp, typed, faults>>
      /\ mishaps' = {}
      /\ active[Here] # None /\ Readable(active[Here], job.doc) /\ state = job.doc
  BY DEF TidyPending, RemovePending, Over, inputs, Generating, Announced, Tidying
<1>2. /\ job.announced /\ ~job.dirty /\ pending # None /\ ~pending.retry
      /\ job.doc # None /\ job.doc \in Sheet /\ pending.doc = job.doc
      /\ pending.doc.profile = profile /\ pending.doc.profile.format = Here
      /\ job \in ExportJob /\ Here \in Format
  BY <1>1, AnnouncedExport DEF Tidying
<1>3. TypeOK'
  BY <1>1, NoJobFits DEF TypeOK
<1>4. /\ AsNew(active[Here], job.doc)
      /\ \A k \in Key : typed[k] => InPlaced(k)
  BY <1>1, <1>2 DEF PendingDescribes, InPlaced
<1>5. StateFits'
  BY <1>1, <1>2, <1>4 DEF StateFits, AgreesWithState, AsNew, Legible, Readable
<1>6. Settled'
  BY <1>1, <1>4, <1>5 DEF Settled, InPlaced, InResults, InArchive, In
<1>7. PendingDescribes' /\ CanBeGivenUp' /\ CanBePutBack' /\ Filled'
  BY <1>1 DEF PendingDescribes, CanBeGivenUp, CanBePutBack, Filled, HasRows
<1>8. QED
  BY <1>1, <1>3, <1>6, <1>7, NothingRuns, NoJobFits DEF Untouched

-----------------------------------------------------------------------------
\* The rollback.

\* How many files a failing rotation leaves in the archive is a number.
LEMMA FewFormats ==
  ASSUME NEW S \in SUBSET Format
  PROVE  /\ Cardinality(S) \in Nat
         /\ Cardinality(S) = 0 <=> S = {}
<1>1. Format = {"csv"} \cup {"xlsx"}
  BY DEF Format
<1>2. IsFiniteSet(Format)
  BY <1>1, FS_Singleton, FS_Union
<1>3. QED
  BY <1>2, FS_Subset, FS_CardinalityType, FS_EmptySet

\* What a failure changes whatever failed.
LEMMA FailureEffects ==
  ASSUME IInv, Fail
  PROVE  /\ pc \in Writing /\ pc' = "undoTemp"
         /\ UNCHANGED <<movements, profile, state, pending, temp, rollback, typed>>
         /\ faults' \in 0 .. MaxFaults
         /\ Calm' <=> Calm
         /\ "scattered" \notin mishaps' => "scattered" \notin mishaps
         /\ mishaps' \subseteq {"rollback", "scattered", "removal"}
<1>1. /\ pc \in Writing /\ pc' = "undoTemp"
      /\ UNCHANGED <<movements, profile, state, pending, temp, rollback, typed>>
  BY DEF Fail, Goto, inputs
<1>2. faults' \in 0 .. MaxFaults
  <2>1. ASSUME NEW back \in SUBSET Moved,
               faults' = faults + 1 + Cardinality(Moved \ back), faults' <= MaxFaults
        PROVE  faults' \in 0 .. MaxFaults
    <3>1. Cardinality(Moved \ back) \in Nat
      BY FewFormats DEF Moved
    <3>2. QED
      BY <2>1, <3>1, ExportAssumption DEF IInv, TypeOK
  <2>2. Fault => faults' \in 0 .. MaxFaults
    BY ExportAssumption DEF IInv, TypeOK, Fault
  <2>3. QED
    BY <2>1, <2>2 DEF Fail
<1>3. mishaps' = mishaps \cup (IF job.announced THEN {"rollback"} ELSE {})
                         \cup (IF faults' > faults + 1 THEN {"scattered"} ELSE {})
  BY DEF Fail
<1>4. /\ Calm' <=> Calm
      /\ "scattered" \notin mishaps' => "scattered" \notin mishaps
      /\ mishaps' \subseteq {"rollback", "scattered", "removal"}
  BY <1>3 DEF Calm, IInv, TypeOK
<1>5. QED
  BY <1>1, <1>2, <1>4

\* An operation fails before the export is announced: nothing was done.
LEMMA FailEarlyStep ==
  ASSUME IInv, Fail, pc \in {"prepare", "announce"}
  PROVE  IInv'
<1> USE DEF IInv, FilesFit
<1>1. /\ pc' = "undoTemp"
      /\ UNCHANGED <<movements, profile, active, archive, state, pending, temp, rollback>>
      /\ faults' \in 0 .. MaxFaults
      /\ ~job.announced /\ ~job.dirty /\ Untouched /\ pending = None /\ rollback = None
      /\ StateFits /\ \A k \in Key : typed[k] => InPlaced(k)
      /\ typed' = typed
  BY FailureEffects DEF Fail, Starting, Announced, Settled
<1>2. mishaps' = mishaps
  BY <1>1 DEF Fail, Fault, TypeOK
<1>3. /\ job' \in ExportJob /\ job'.doc = job.doc /\ job'.discard = job.discard
      /\ job'.dirty = job.dirty /\ job'.announced = job.announced /\ job'.staged = job.staged
      /\ job'.installed = job.installed /\ job'.moved = job.moved
      /\ job'.before = IF pc = "prepare" THEN active ELSE job.before
  <2>1. job \in ExportJob /\ active \in [Format -> Sheet \cup {None}]
    BY DEF TypeOK
  <2>2. job' = IF pc = "prepare" THEN [job EXCEPT !.before = active] ELSE job
    BY DEF Fail
  <2>3. QED
    BY <2>1, <2>2 DEF ExportJob
<1>4. TypeOK'
  BY <1>1, <1>2, <1>3 DEF TypeOK, Undoing
<1>5. FilesFit'
  BY <1>1, <1>2, FilesStay DEF files
<1>6. StateFits' /\ \A k \in Key : typed'[k] => InPlaced(k)'
  BY <1>1, <1>2 DEF StateFits, InPlaced, AgreesWithState, InResults, InArchive, In, AsNew,
     Calm, Legible, Readable
<1>7. Announced' /\ Cleared' /\ Aside'
  BY <1>1, <1>3 DEF Announced, Cleared, Aside, Undoing, Tidying, Untouched
<1>8. MovedFits'
  BY <1>1, <1>3, <1>4, NothingMoved DEF Untouched
<1>9. StateAgrees'
  BY <1>1, <1>3, <1>6 DEF StateAgrees, Undoing, Untouched
<1>10. OldEntries'
  BY <1>1, <1>3, <1>6 DEF OldEntries, Here, In, InArchive, InPlaced, InResults, Undoing,
     Untouched
<1>11. NewEntries' /\ PurgedEntries' /\ Generating'
  BY <1>1, <1>3 DEF NewEntries, PurgedEntries, Generating, Undoing, Tidying, Untouched
<1>12. BeforeIsKept'
  <2>1. \A f \in Format : Back(f)' = active[f] /\ Back(f) = active[f]
    BY <1>1, <1>3 DEF Back, Untouched, NoneMoved, Here
  <2>2. QED
    BY <1>1, <1>2, <1>3, <2>1 DEF BeforeIsKept, Same
<1>13. QED
  BY <1>1, <1>4, <1>5, <1>7, <1>8, <1>9, <1>10, <1>11, <1>12, ExportGoesOn DEF Undoing

\* An operation fails, and the files are as they were.
LEMMA FailStandingStep ==
  ASSUME IInv, Fail, pc \in {"stage", "install", "commit"}, UNCHANGED <<active, archive, job>>
  PROVE  IInv'
<1> USE DEF IInv, FilesFit
<1>1. /\ pc' = "undoTemp"
      /\ UNCHANGED <<movements, profile, active, archive, state, pending, temp, rollback, job,
                     typed>>
      /\ faults' \in 0 .. MaxFaults /\ mishaps' \subseteq {"rollback", "scattered", "removal"}
      /\ Calm' <=> Calm
      /\ "scattered" \notin mishaps' => "scattered" \notin mishaps
      /\ pending # None /\ job.announced /\ ~job.dirty
  BY FailureEffects, AnnouncedExport DEF Writing
<1>2. TypeOK'
  BY <1>1 DEF TypeOK, Undoing
<1>3. Settled' /\ PendingDescribes'
  BY <1>1 DEF Settled, PendingDescribes, StateFits, InPlaced, Readable, Legible, AsNew,
     InResults, InArchive, In, AgreesWithState
<1>4. CanBeGivenUp' /\ CanBePutBack' /\ Filled'
  BY <1>1 DEF CanBeGivenUp, CanBePutBack, Filled, StateFits, InPlaced, AgreesWithState,
     In, HasRows, InResults, InArchive, AsNew, Legible, Readable
<1>5. Announced' /\ Cleared'
  BY <1>1 DEF Announced, Cleared, Undoing, Tidying
<1>6. Aside'
  BY <1>1 DEF Aside, NoneMoved, Compatible, AgreesWithState, Here, AsNew, Legible, Readable
<1>7. MovedFits'
  <2>1. CASE pc = "stage"
    BY <1>1, <1>2, <2>1, NothingMoved DEF Generating, Untouched
  <2>2. CASE pc \in {"install", "commit"}
    BY <1>1, <2>2 DEF MovedFits, Undoing, NoneMoved, Here, AgreesWithState, HasRows,
       AsNew, Legible, Readable
  <2>3. QED
    BY <2>1, <2>2
<1>8. StateAgrees'
  <2>1. CASE pc \in {"stage", "install"}
    BY <1>1, <2>1 DEF StateAgrees, Announced, Undoing, StateFits, Here, AgreesWithState,
       Tidying, Untouched, Untyped, AsNew, Legible, NoneMoved, Readable
  <2>2. CASE pc = "commit"
    BY <1>1, <2>2 DEF StateAgrees, Announced, Undoing, StateFits, Here, AgreesWithState,
       Tidying, Untouched, Untyped, AsNew, Legible, NoneMoved, Readable
  <2>3. QED
    BY <2>1, <2>2
<1>9. OldEntries'
  BY <1>1 DEF OldEntries, Here, In, InArchive, InPlaced, InResults
<1>10. NewEntries'
  <2>1. CASE pc = "stage"
    BY <1>1, <2>1 DEF NewEntries, Generating, Untouched, Undoing
  <2>2. CASE pc \in {"install", "commit"}
    BY <1>1, <2>2 DEF NewEntries, In, Compatible, InOthers, InArchive, InResults, Undoing,
       Here
  <2>3. QED
    BY <2>1, <2>2
<1>11. Generating' /\ PurgedEntries'
  BY <1>1 DEF Generating, PurgedEntries, Compatible, In, Here, Tidying
<1>12. BeforeIsKept'
  BY <1>1 DEF BeforeIsKept, Undoing, Same, Back, Here
<1>13. QED
  BY <1>1, <1>2, <1>3, <1>4, <1>5, <1>6, <1>7, <1>8, <1>9, <1>10, <1>11, <1>12,
     ExportGoesOn DEF Undoing

\* A purge fails, and some results stay while others are removed.
LEMMA FailPurgeStep ==
  ASSUME IInv, Fail, pc = "stage", job.discard, UNCHANGED <<archive, job>>,
         NEW left \in SUBSET Format,
         active' = [f \in Format |-> IF f \in left THEN active[f] ELSE None]
  PROVE  IInv'
<1> USE DEF IInv, FilesFit
<1>1. /\ pc' = "undoTemp"
      /\ UNCHANGED <<movements, profile, archive, state, pending, temp, rollback, job, typed>>
      /\ faults' \in 0 .. MaxFaults /\ mishaps' \subseteq {"rollback", "scattered", "removal"}
      /\ Calm' <=> Calm
      /\ Untouched /\ rollback = None /\ job.discard
  BY FailureEffects DEF Generating, Aside, Untouched
<1>2. /\ job.announced /\ ~job.dirty /\ pending # None /\ ~pending.retry
      /\ job.doc # None /\ job.doc \in Sheet /\ pending.doc = job.doc
      /\ pending.doc.profile = profile /\ pending.doc.profile.format = Here
      /\ job \in ExportJob /\ Here \in Format
  BY AnnouncedExport DEF Writing
<1>3. /\ active' \in [Format -> Sheet \cup {None}]
      /\ \A f \in Format : active'[f] = None \/ active'[f] = active[f]
  BY DEF TypeOK
<1>4. TypeOK'
  BY <1>1, <1>3 DEF TypeOK, Undoing
<1>5. StateFits'
  BY <1>1, <1>3, PurgedFits DEF StateAgrees, Untouched
<1>6. \A k \in Key : typed[k] => InPlaced(k)' \/ ResultGone'
  BY <1>1, <1>2, <1>3, PurgedIsHeld DEF Untouched, Tidying
<1>7. Settled' /\ CanBeGivenUp' /\ CanBePutBack' /\ Filled'
  BY <1>1, <1>2, <1>3, <1>5, <1>6 DEF Settled, CanBeGivenUp, CanBePutBack, Filled, HasRows
<1>8. PendingDescribes'
  <2>1. \A k \in Key : typed[k] => In(k, job.doc)
    BY <1>1 DEF NewEntries
  <2>2. QED
    BY <1>1, <1>2, <1>3, <2>1 DEF PendingDescribes, Readable, Legible, AsNew, In
<1>9. Announced' /\ Cleared' /\ Aside'
  BY <1>1, <1>2 DEF Announced, Cleared, Aside, Undoing, Tidying, Untouched
<1>10. MovedFits'
  BY <1>1, <1>4, NothingMoved DEF Untouched
<1>11. StateAgrees'
  BY <1>1, <1>5 DEF StateAgrees, Undoing, Untouched
<1>12. PurgedEntries'
  BY <1>1, <1>2, <1>3 DEF PurgedEntries, Compatible, In, Here, Tidying
<1>13. OldEntries' /\ NewEntries' /\ Generating' /\ BeforeIsKept'
  BY <1>1 DEF OldEntries, NewEntries, Generating, BeforeIsKept, Undoing, Tidying, Untouched
<1>14. QED
  BY <1>1, <1>4, <1>7, <1>8, <1>9, <1>10, <1>11, <1>12, <1>13, ExportGoesOn DEF Undoing

\* A rotation fails, and puts back what it had moved, if it can.
LEMMA FailRotationStep ==
  ASSUME IInv, Fail, pc = "rotate"
  PROVE  IInv'
<1> USE DEF IInv, FilesFit
<1>1. /\ pc' = "undoTemp"
      /\ UNCHANGED <<movements, profile, state, pending, temp, rollback, typed>>
      /\ faults' \in 0 .. MaxFaults /\ mishaps' \subseteq {"rollback", "scattered", "removal"}
      /\ Calm' <=> Calm
      /\ "scattered" \notin mishaps' => "scattered" \notin mishaps
      /\ ~job.discard /\ ~job.staged /\ ~job.installed /\ rollback = None /\ temp # None
      /\ StateFits
  BY FailureEffects DEF Generating, Announced, Aside, StateAgrees
<1>2. /\ job.announced /\ ~job.dirty /\ pending # None /\ ~pending.retry
      /\ job.doc # None /\ job.doc \in Sheet /\ pending.doc = job.doc
      /\ pending.doc.profile = profile /\ pending.doc.profile.format = Here
      /\ job \in ExportJob /\ Here \in Format
  BY AnnouncedExport DEF Writing
<1>3. PICK back \in SUBSET Moved :
        /\ faults' = faults + 1 + Cardinality(Moved \ back)
        /\ MoveBack(back)
  BY DEF Fail
<1>4. /\ job' \in ExportJob /\ job'.doc = job.doc /\ job'.discard = job.discard
      /\ job'.dirty = job.dirty /\ job'.announced = job.announced /\ job'.staged = job.staged
      /\ job'.installed = job.installed /\ job'.moved = NoneMoved /\ job'.before = job.before
  <2>1. job' = [job EXCEPT !.moved = NoneMoved] /\ NoneMoved \in [Format -> Sheet \cup {None}]
    BY DEF Fail, NoJob, NoneMoved
  <2>2. QED
    BY <1>2, <2>1 DEF ExportJob
<1>5. /\ active' \in [Format -> Sheet \cup {None}] /\ archive' \subseteq Sheet
      /\ archive' = archive \ {job.moved[f] : f \in back}
      /\ \A f \in Format :
           \/ f \in back /\ job.moved[f] # None /\ active[f] = None /\ active'[f] = job.moved[f]
           \/ f \notin back /\ active'[f] = active[f]
  <2>1. /\ active' = [f \in Format |-> IF f \in back THEN job.moved[f] ELSE active[f]]
        /\ archive' = archive \ {job.moved[f] : f \in back}
        /\ job.moved \in [Format -> Sheet \cup {None}]
    BY <1>2, <1>3 DEF MoveBack, ExportJob
  <2>2. \A f \in back : job.moved[f] # None /\ active[f] = None
    BY <1>1 DEF Moved, MovedFits
  <2>3. QED
    BY <2>1, <2>2 DEF TypeOK, Moved
<1>6. \A k \in Key : /\ InResults(k) \/ InArchive(k) => InResults(k)' \/ InArchive(k)'
                     /\ InPlaced(k) => InPlaced(k)'
  <2> SUFFICES ASSUME NEW k \in Key
               PROVE  InResults(k) \/ InArchive(k) => InResults(k)' \/ InArchive(k)'
    BY <1>1 DEF InPlaced, In
  <2>1. InResults(k) => InResults(k)'
    BY <1>5 DEF InResults, In
  <2>2. InArchive(k) => InResults(k)' \/ InArchive(k)'
    <3>1. ASSUME NEW s \in archive, s.cells[k]  PROVE InResults(k)' \/ InArchive(k)'
      <4>1. CASE s \in archive'
        BY <3>1, <4>1 DEF InArchive
      <4>2. CASE s \notin archive'
        <5>1. PICK f \in back : s = job.moved[f]
          BY <1>5, <4>2
        <5>2. f \in Format /\ active'[f] = s /\ s # None
          BY <1>5, <5>1 DEF Moved
        <5>3. QED
          BY <3>1, <5>2 DEF InResults, In
      <4>3. QED
        BY <4>1, <4>2
    <3>2. QED
      BY <3>1 DEF InArchive
  <2>3. QED
    BY <2>1, <2>2
<1>7. \A k \in Key : typed[k] => InPlaced(k) /\ (InResults(k) \/ InArchive(k))
  BY DEF NewEntries, InPlaced
<1>8. TypeOK'
  BY <1>1, <1>4, <1>5 DEF TypeOK, Undoing
<1>9. StateFits'
  <2>1. state # None => state.profile.format \in Format
    BY StateTypes, SheetTypes
  <2>2. \A f \in Format : job.moved[f] # None /\ state # None /\ state.profile.format = f
                            => AgreesWithState(job.moved[f])
    BY DEF MovedFits
  <2>3. QED
    BY <1>1, <1>5, <2>1, <2>2 DEF StateFits, AgreesWithState, AsNew, Legible, Readable
<1>10. Settled' /\ CanBeGivenUp' /\ CanBePutBack'
  BY <1>1, <1>2, <1>6, <1>7, <1>9 DEF Settled, CanBeGivenUp, CanBePutBack
<1>11. Filled'
  <2>1. \A f \in Format : job.moved[f] # None => HasRows(job.moved[f])
    BY DEF MovedFits
  <2>2. QED
    BY <1>1, <1>5, <2>1 DEF Filled, HasRows
<1>12. PendingDescribes'
  <2>1. \A k \in Key : typed'[k] => InResults(k)' \/ InArchive(k)' \/ In(k, pending'.doc)
    BY <1>1, <1>6, <1>7
  <2>2. AsNew(active'[Here], job.doc)
    <3>1. AsNew(active[Here], job.doc) /\ AsNew(job.moved[Here], job.doc)
      BY <1>2 DEF PendingDescribes, MovedFits
    <3>2. QED
      BY <1>2, <1>5, <3>1
  <2>3. Readable(pending.file, pending.doc) /\ Legible(temp, pending.doc) /\ AsNew(temp, pending.doc)
    BY <1>2 DEF PendingDescribes
  <2>4. QED
    BY <1>1, <1>2, <2>1, <2>2, <2>3 DEF PendingDescribes, Legible, AsNew, In
<1>13. Announced' /\ Cleared' /\ Aside'
  BY <1>1, <1>2, <1>4 DEF Announced, Cleared, Aside, Undoing, Tidying
<1>14. MovedFits'
  BY <1>4, <1>8, NothingMoved
<1>15. StateAgrees'
  BY <1>1, <1>4, <1>9 DEF StateAgrees, Undoing
<1>16. OldEntries'
  <2>1. \A k \in Key : typed'[k] => InPlaced(k)'
    BY <1>1, <1>6, <1>7
  <2>2. QED
    BY <1>1, <1>4, <2>1 DEF OldEntries, InPlaced, InResults, Undoing
<1>17. NewEntries' /\ PurgedEntries' /\ Generating'
  BY <1>1, <1>4 DEF NewEntries, PurgedEntries, Generating, Undoing, Tidying
<1>18. BeforeIsKept'
  <2>1. ASSUME "scattered" \notin mishaps', NEW f \in Format
        PROVE  Back(f)' = Back(f)
    <3>1. ~(faults' > faults + 1)
      BY <2>1 DEF Fail
    <3>2. Cardinality(Moved \ back) \in Nat /\ faults \in Nat
      BY FewFormats DEF Moved, TypeOK
    <3>3. Cardinality(Moved \ back) = 0
      BY <1>3, <3>1, <3>2
    <3>4. Moved \ back = {}
      BY <3>3, FewFormats DEF Moved
    <3>5. job.moved[f] # None => f \in back
      BY <3>4 DEF Moved
    <3>6. QED
      BY <1>1, <1>4, <1>5, <3>5 DEF Back, NoneMoved
  <2>2. QED
    BY <1>1, <1>4, <2>1 DEF BeforeIsKept, Same
<1>19. QED
  BY <1>1, <1>8, <1>10, <1>11, <1>12, <1>13, <1>14, <1>15, <1>16, <1>17, <1>18,
     ExportGoesOn DEF Undoing

\* However an export fails.
LEMMA FailStep ==
  ASSUME IInv, Fail
  PROVE  IInv'
<1>1. pc \in Writing
  BY DEF Fail
<1>2. CASE pc \in {"prepare", "announce"}
  BY <1>2, FailEarlyStep
<1>3. CASE pc = "rotate"
  BY <1>3, FailRotationStep
<1>4. CASE pc \in {"stage", "install", "commit"}
  <2>1. \/ UNCHANGED <<active, archive, job>>
        \/ /\ pc = "stage" /\ job.discard /\ UNCHANGED <<archive, job>>
           /\ \E left \in SUBSET Format :
                active' = [f \in Format |-> IF f \in left THEN active[f] ELSE None]
    BY <1>4 DEF Fail
  <2>2. QED
    BY <1>4, <2>1, FailStandingStep, FailPurgeStep
<1>5. QED
  BY <1>1, <1>2, <1>3, <1>4 DEF Writing

\* What the steps of the rollback have in common.
LEMMA UndoEffects ==
  ASSUME IInv, pc \in Undoing, UNCHANGED <<movements, profile, state, pending, typed, mishaps>>,
         \/ UNCHANGED <<faults, job>>
         \/ Fault /\ job' = [job EXCEPT !.dirty = TRUE]
  PROVE  /\ job' \in ExportJob /\ job'.doc = job.doc /\ job'.discard = job.discard
         /\ (job.dirty => job'.dirty)
         /\ job'.announced = job.announced /\ job'.staged = job.staged
         /\ job'.installed = job.installed /\ job'.moved = job.moved /\ job'.before = job.before
         /\ faults' \in 0 .. MaxFaults
         /\ pending = None <=> ~job.announced
         /\ ~job.announced => Untouched
         /\ pending # None =>
              /\ ~pending.retry /\ pending.doc = job.doc /\ job.doc # None
              /\ pending.doc.profile = profile /\ pending.doc.profile.format = Here
         /\ job.installed => temp = None
         /\ Here \in Format
<1>1. job \in ExportJob
  BY DEF IInv, TypeOK
<1>2. /\ job' \in ExportJob /\ job'.doc = job.doc /\ job'.discard = job.discard
      /\ (job.dirty => job'.dirty)
      /\ job'.announced = job.announced /\ job'.staged = job.staged
      /\ job'.installed = job.installed /\ job'.moved = job.moved /\ job'.before = job.before
  <2>1. CASE job' = job
    BY <1>1, <2>1
  <2>2. CASE job' = [job EXCEPT !.dirty = TRUE]
    BY <1>1, <2>2 DEF ExportJob
  <2>3. QED
    BY <2>1, <2>2
<1>3. faults' \in 0 .. MaxFaults
  BY ExportAssumption DEF IInv, TypeOK, Fault
<1>4. /\ pending = None <=> ~job.announced
      /\ ~job.announced => Untouched
      /\ pending # None => ~pending.retry /\ pending.doc = job.doc /\ job.doc # None
                           /\ pending.doc.profile = profile
      /\ job.installed => temp = None
  BY DEF IInv, Announced
<1>5. Here \in Format
  BY StateTypes DEF IInv
<1>6. QED
  BY <1>2, <1>3, <1>4, <1>5 DEF Here

\* The generated file is removed, ...
LEMMA UndoTempStep ==
  ASSUME IInv, UndoTemp
  PROVE  IInv'
<1> USE DEF IInv, FilesFit
<1>1. /\ pc = "undoTemp" /\ pc' = "undoInstall" /\ (temp' = None \/ temp' = temp)
      /\ UNCHANGED <<movements, profile, active, archive, state, pending, rollback, typed, mishaps>>
  BY DEF UndoTemp, Undo, inputs, Goto
<1>2. /\ job' \in ExportJob /\ job'.doc = job.doc /\ job'.discard = job.discard
      /\ (job.dirty => job'.dirty)
      /\ job'.announced = job.announced /\ job'.staged = job.staged
      /\ job'.installed = job.installed /\ job'.moved = job.moved /\ job'.before = job.before
      /\ faults' \in 0 .. MaxFaults
      /\ (pending # None => ~pending.retry)
  BY <1>1, UndoEffects DEF UndoTemp, Undo, inputs, Undoing
<1>3. TypeOK'
  BY <1>1, <1>2 DEF TypeOK, Undoing
<1>4. Settled' /\ PendingDescribes'
  BY <1>1, <1>2 DEF Settled, PendingDescribes, StateFits, InPlaced, Readable, Legible,
     AsNew, InResults, InArchive, In, AgreesWithState, Calm
<1>5. CanBeGivenUp' /\ CanBePutBack' /\ Filled'
  BY <1>1, <1>2 DEF CanBeGivenUp, CanBePutBack, Filled, StateFits, InPlaced,
     AgreesWithState, In, HasRows, InResults, InArchive, AsNew, Calm, Legible, Readable
<1>6. Announced' /\ Cleared'
  BY <1>1, <1>2 DEF Announced, Cleared, Undoing, Tidying, Untouched
<1>7. Aside'
  BY <1>1, <1>2 DEF Aside, NoneMoved, Compatible, AgreesWithState, Here, AsNew, Calm,
     Legible, Readable
<1>8. MovedFits'
  BY <1>1, <1>2 DEF MovedFits, Undoing, NoneMoved, Here, AgreesWithState, HasRows, AsNew,
     Calm, Legible, Readable
<1>9. StateAgrees'
  BY <1>1, <1>2 DEF StateAgrees, Undoing, StateFits, Here, AgreesWithState, AsNew, Calm,
     Legible, Readable
<1>10. OldEntries'
  BY <1>1, <1>2 DEF OldEntries, Here, In, InArchive, InPlaced, InResults
<1>11. NewEntries' /\ PurgedEntries' /\ Generating'
  BY <1>1, <1>2 DEF NewEntries, PurgedEntries, Generating, In, Compatible, InOthers, InArchive,
     InResults, Undoing, Legible, AsNew, Here, Untouched, Tidying, Readable, NoneMoved
<1>12. BeforeIsKept'
  BY <1>1, <1>2 DEF BeforeIsKept, Undoing, Same, Back, Here
<1>13. QED
  BY <1>1, <1>3, <1>4, <1>5, <1>6, <1>7, <1>8, <1>9, <1>10, <1>11, <1>12,
     ExportGoesOn DEF Undoing

\* ... then the new result, ...
LEMMA UndoInstallStep ==
  ASSUME IInv, UndoInstall
  PROVE  IInv'
<1> USE DEF IInv, FilesFit
<1>1. /\ pc = "undoInstall" /\ pc' = "undoStage"
      /\ UNCHANGED <<movements, profile, archive, state, pending, temp, rollback, typed, mishaps>>
      /\ \/ job.installed /\ active' = [active EXCEPT ![Here] = None]
         \/ ~job.installed /\ active' = active
         \/ job.installed /\ job'.dirty /\ active' = active
  BY DEF UndoInstall, Undo, inputs, Goto, Here, TypeOK, ExportJob
<1>2. /\ job' \in ExportJob /\ job'.doc = job.doc /\ job'.discard = job.discard
      /\ (job.dirty => job'.dirty)
      /\ job'.announced = job.announced /\ job'.staged = job.staged
      /\ job'.installed = job.installed /\ job'.moved = job.moved /\ job'.before = job.before
      /\ faults' \in 0 .. MaxFaults
      /\ (pending = None <=> ~job.announced)
      /\ (~job.announced => Untouched)
      /\ (pending # None => ~pending.retry /\ pending.doc = job.doc /\ job.doc # None
                            /\ pending.doc.profile = profile /\ pending.doc.profile.format = Here)
      /\ (job.installed => temp = None)
      /\ Here \in Format
  BY <1>1, UndoEffects DEF UndoInstall, Undo, inputs, Undoing
<1>3. /\ active' \in [Format -> Sheet \cup {None}]
      /\ \A f \in Format : f # Here => active'[f] = active[f]
      /\ \/ active'[Here] = active[Here]
         \/ job.installed /\ active'[Here] = None
      /\ ~job.installed => active' = active
      /\ job.installed => active'[Here] = None \/ job'.dirty
  BY <1>1, <1>2 DEF TypeOK
<1>4. TypeOK'
  BY <1>1, <1>2, <1>3 DEF TypeOK, Undoing
<1>5. job.staged \/ job.installed =>
        \A k \in Key : typed[k] => InOthers(k) \/ InArchive(k) \/ In(k, job.doc)
  BY <1>1 DEF NewEntries, Undoing
<1>6. \A k \in Key : /\ InOthers(k) <=> InOthers(k)'
                     /\ InArchive(k) <=> InArchive(k)'
                     /\ InOthers(k) => InResults(k)'
                     /\ ~job.installed => (InResults(k) <=> InResults(k)')
  BY <1>1, <1>3 DEF InOthers, InArchive, InResults, Here, In
<1>7. job.installed => job.announced
  BY <1>2 DEF Untouched
<1>8. PendingDescribes'
  <2>1. ASSUME pending # None
        PROVE  \A k \in Key : typed'[k] => InResults(k)' \/ InArchive(k)' \/ In(k, pending'.doc)
    <3>1. CASE job.installed
      BY <1>1, <1>2, <1>5, <1>6, <2>1, <3>1
    <3>2. CASE ~job.installed
      BY <1>1, <1>6, <2>1, <3>2 DEF PendingDescribes
    <3>3. QED
      BY <3>1, <3>2
  <2>2. QED
    BY <1>1, <1>2, <1>3, <2>1 DEF PendingDescribes, Legible, Readable, AsNew, In
<1>9. job.staged => AgreesWithState(rollback)
  BY <1>1 DEF Aside
<1>10. ~job.discard => \A k \in Key : typed[k] => InPlaced(k)' \/ In(k, rollback)
  <2>1. \A k \in Key : (\E f \in Format : ~(job.installed /\ f = Here) /\ In(k, active[f]))
                         => InResults(k)'
    BY <1>3 DEF InResults, In
  <2>2. QED
    BY <1>1, <2>1 DEF OldEntries, InPlaced, InArchive, In
<1>11. StateFits \/ job.installed
  BY <1>1 DEF StateAgrees, Undoing
<1>12. ~job.installed => StateFits'
  BY <1>1, <1>3, <1>11 DEF StateFits, AgreesWithState, AsNew, Calm, Legible, Readable
<1>13. ~job'.dirty => StateFits'
  <2>1. CASE ~job.installed
    BY <1>12, <2>1
  <2>2. CASE job.installed /\ ~job'.dirty
    <3>1. active'[Here] = None /\ (state # None => state.profile.format \in Format)
      BY <1>3, <2>2, StateTypes, SheetTypes
    <3>2. state # None /\ state.profile.format # Here => AgreesWithState(active[state.profile.format])
      BY <1>1, <2>2 DEF StateAgrees
    <3>3. QED
      BY <1>1, <1>3, <3>1, <3>2 DEF StateFits, AgreesWithState, AsNew, Calm, Legible,
         Readable
  <2>3. QED
    BY <2>1, <2>2
<1>14. Settled'
  <2>1. CASE pending = None
    <3>1. active' = active
      BY <1>2, <1>3, <1>7, <2>1
    <3>2. QED
      BY <1>1, <2>1, <3>1 DEF Settled, StateFits, InPlaced, AgreesWithState, InResults,
         InArchive, In, AsNew, Calm, Legible, Readable
  <2>2. CASE pending # None
    BY <1>1, <2>2 DEF Settled
  <2>3. QED
    BY <2>1, <2>2
<1>15. CanBeGivenUp'
  <2>1. CASE job.installed
    BY <1>1, <1>2, <2>1 DEF CanBeGivenUp
  <2>2. CASE ~job.installed
    <3>1. active' = active
      BY <1>3, <2>2
    <3>2. QED
      BY <1>1, <3>1 DEF CanBeGivenUp, StateFits, InPlaced, AgreesWithState, InResults,
         InArchive, In, AsNew, Calm, Legible, Readable
  <2>3. QED
    BY <2>1, <2>2
<1>16. CanBePutBack'
  <2>1. CASE job.installed
    <3>1. rollback # None => job.staged
      BY <1>1 DEF Aside
    <3>2. job.staged => ~job.discard
      BY <1>1 DEF Aside
    <3>3. AgreesWithState(rollback)' <=> AgreesWithState(rollback)
      BY <1>1 DEF AgreesWithState, AsNew, Legible, Calm
    <3>4. QED
      BY <1>1, <1>9, <1>10, <3>1, <3>2, <3>3 DEF CanBePutBack, In
  <2>2. CASE ~job.installed
    <3>1. active' = active
      BY <1>3, <2>2
    <3>2. QED
      BY <1>1, <3>1 DEF CanBePutBack, AgreesWithState, InPlaced, In, AsNew, Calm, Legible,
         InResults, InArchive, Readable
  <2>3. QED
    BY <2>1, <2>2
<1>17. Filled'
  BY <1>1, <1>3 DEF Filled, HasRows
<1>18. Announced' /\ Cleared'
  BY <1>1, <1>2, <1>3 DEF Announced, Cleared, Undoing, Tidying, Untouched, Here
<1>19. Aside'
  BY <1>1, <1>2, <1>3 DEF Aside, NoneMoved, Compatible, AgreesWithState, Here, AsNew,
     Calm, Legible, Readable
<1>20. MovedFits'
  BY <1>1, <1>2, <1>3 DEF MovedFits, Undoing, NoneMoved, Here, AgreesWithState, HasRows,
     AsNew, Calm, Legible, Readable
<1>21. StateAgrees'
  BY <1>1, <1>2, <1>12, <1>13 DEF StateAgrees, Undoing
<1>22. OldEntries'
  <2>1. \A k \in Key : (\E f \in Format : ~(job.installed /\ f = Here) /\ In(k, active[f]))
                         => \E f \in Format : ~(job.installed /\ f = Here) /\ In(k, active'[f])
    BY <1>3
  <2>2. QED
    BY <1>1, <1>2, <2>1 DEF OldEntries, InArchive, In, Here
<1>23. NewEntries'
  <2>1. job'.staged \/ job'.installed =>
          \A k \in Key : typed'[k] => InOthers(k)' \/ InArchive(k)' \/ In(k, job'.doc)
    BY <1>1, <1>2, <1>5, <1>6
  <2>2. QED
    BY <1>1, <2>1 DEF NewEntries, Undoing, In
<1>24. Generating' /\ PurgedEntries'
  BY <1>1, <1>2, <1>3 DEF Generating, PurgedEntries, Compatible, In, Here, Tidying, Untouched
<1>25. BeforeIsKept'
  <2>1. ASSUME ~job'.dirty, NEW f \in Format
        PROVE  Back(f)' = Back(f)
    BY <1>1, <1>2, <1>3, <2>1 DEF Back, Here
  <2>2. QED
    BY <1>1, <1>2, <2>1 DEF BeforeIsKept, Same, Undoing
<1>26. QED
  BY <1>1, <1>4, <1>8, <1>14, <1>15, <1>16, <1>17, <1>18, <1>19, <1>20, <1>21, <1>22, <1>23,
     <1>24, <1>25, ExportGoesOn DEF Undoing

\* ... then the previous result is put back, ...
LEMMA UndoStageStep ==
  ASSUME IInv, UndoStage
  PROVE  IInv'
<1> USE DEF IInv, FilesFit
<1>1. /\ pc = "undoStage" /\ pc' = "undoRotate"
      /\ UNCHANGED <<movements, profile, archive, state, pending, temp, typed, mishaps>>
      /\ \/ job.staged /\ active' = [active EXCEPT ![Here] = rollback] /\ rollback' = None
         \/ ~job.staged /\ active' = active /\ rollback' = rollback
         \/ job.staged /\ job'.dirty /\ active' = active /\ rollback' = rollback
  BY DEF UndoStage, Undo, inputs, Goto, Here, TypeOK, ExportJob
<1>2. /\ job' \in ExportJob /\ job'.doc = job.doc /\ job'.discard = job.discard
      /\ (job.dirty => job'.dirty)
      /\ job'.announced = job.announced /\ job'.staged = job.staged
      /\ job'.installed = job.installed /\ job'.moved = job.moved /\ job'.before = job.before
      /\ faults' \in 0 .. MaxFaults
      /\ (pending = None <=> ~job.announced)
      /\ (~job.announced => Untouched)
      /\ (pending # None => ~pending.retry /\ pending.doc = job.doc /\ job.doc # None
                            /\ pending.doc.profile = profile /\ pending.doc.profile.format = Here)
      /\ (job.installed => temp = None)
      /\ Here \in Format
  BY <1>1, UndoEffects DEF UndoStage, Undo, inputs, Undoing
<1>3. /\ \A f \in Format : f # Here => active'[f] = active[f]
      /\ \/ active' = active /\ rollback' = rollback /\ (job.staged => job'.dirty)
         \/ job.staged /\ active'[Here] = rollback /\ rollback' = None
  BY <1>1, <1>2 DEF TypeOK
<1>4. TypeOK'
  BY <1>1, <1>2 DEF TypeOK, Undoing
<1>5. job.staged \/ job.installed =>
        \A k \in Key : typed[k] => InOthers(k) \/ InArchive(k) \/ In(k, job.doc)
  BY <1>1 DEF NewEntries, Undoing
<1>6. \A k \in Key : /\ InOthers(k) <=> InOthers(k)'
                     /\ InArchive(k) <=> InArchive(k)'
                     /\ InOthers(k) => InResults(k)'
  BY <1>1, <1>3 DEF InOthers, InArchive, InResults, Here, In
<1>7. /\ job.staged => /\ ~job.discard /\ job.moved = NoneMoved /\ Compatible
                       /\ rollback # None /\ AgreesWithState(rollback)
                       /\ ~job.installed => active[Here] = None
      /\ ~job.staged => rollback = None
      /\ job.staged \/ job.installed => job.announced
  BY <1>1, <1>2 DEF Aside, Untouched
<1>8. PendingDescribes'
  <2>1. ASSUME pending # None, job.staged
        PROVE  /\ \A k \in Key : typed'[k] => InResults(k)' \/ InArchive(k)' \/ In(k, pending'.doc)
               /\ AsNew(active'[Here], pending.doc)
    <3>1. AsNew(rollback, pending.doc) /\ AsNew(active[Here], pending.doc)
      BY <1>2, <2>1 DEF PendingDescribes
    <3>2. QED
      BY <1>1, <1>2, <1>3, <1>5, <1>6, <2>1, <3>1
  <2>2. CASE job.staged
    BY <1>1, <1>2, <1>3, <2>1, <2>2 DEF PendingDescribes, Legible, Readable, AsNew, In
  <2>3. CASE ~job.staged
    BY <1>1, <1>3, <2>3 DEF PendingDescribes, Readable, Legible, AsNew, InResults,
       InArchive, In
  <2>4. QED
    BY <2>2, <2>3
<1>9. StateFits => StateFits'
  <2>1. state # None => state.profile.format \in Format
    BY StateTypes, SheetTypes
  <2>2. CASE active' = active
    BY <1>1, <2>2 DEF StateFits, AgreesWithState, AsNew, Calm, Legible, Readable
  <2>3. CASE job.staged /\ active'[Here] = rollback
    BY <1>1, <1>3, <1>7, <2>1, <2>3 DEF StateFits, AgreesWithState, AsNew, Calm, Legible,
       Readable
  <2>4. QED
    BY <1>3, <2>2, <2>3
<1>10. /\ ~job.installed => StateFits'
       /\ ~job'.dirty => StateFits'
  <2>1. CASE ~job.installed
    BY <1>1, <1>9, <2>1 DEF StateAgrees, Undoing
  <2>2. CASE ~job'.dirty /\ ~job.staged
    BY <1>1, <1>2, <1>9, <2>2 DEF StateAgrees
  <2>3. CASE ~job'.dirty /\ job.staged
    <3>1. active'[Here] = rollback /\ state # None /\ state.profile.format = Here
      BY <1>3, <1>7, <2>3 DEF Compatible, Here
    <3>2. QED
      BY <1>1, <1>7, <2>3, <3>1 DEF StateFits, AgreesWithState, AsNew, Calm, Legible,
         Readable
  <2>4. QED
    BY <2>1, <2>2, <2>3
\* The last entries before and after the step.
<1>11. ~job.discard => \A k \in Key : typed[k] =>
         /\ ~job'.dirty => InPlaced(k)'
         /\ ~job.installed => InPlaced(k)' \/ In(k, rollback)'
         /\ InPlaced(k)' \/ In(k, rollback')
  <2> SUFFICES ASSUME ~job.discard, NEW k \in Key, typed[k]
               PROVE  /\ ~job'.dirty => InPlaced(k)'
                      /\ InPlaced(k)' \/ In(k, rollback')
    BY <1>1 DEF In
  <2>1. \/ \E f \in Format : ~(job.installed /\ f = Here) /\ In(k, active[f])
        \/ InArchive(k) \/ In(k, state) \/ In(k, rollback)
    BY <1>1 DEF OldEntries
  <2>2. CASE InArchive(k) \/ In(k, state)
    BY <1>1, <2>2 DEF InPlaced, InArchive, In
  <2>3. ASSUME NEW f \in Format, ~(job.installed /\ f = Here), In(k, active[f])
        PROVE  InPlaced(k)'
    <3>1. active'[f] = active[f]
      BY <1>3, <1>7, <2>3 DEF In
    <3>2. QED
      BY <2>3, <3>1 DEF InPlaced, InResults, In
  <2>4. CASE In(k, rollback)
    BY <1>2, <1>3, <1>7, <2>4 DEF InPlaced, InResults, In
  <2>5. QED
    BY <2>1, <2>2, <2>3, <2>4
<1>12. Settled'
  <2>1. CASE pending = None
    <3>1. active' = active /\ rollback' = rollback
      BY <1>2, <1>3, <1>7, <2>1
    <3>2. QED
      BY <1>1, <2>1, <3>1 DEF Settled, StateFits, InPlaced, AgreesWithState, InResults,
         InArchive, In, AsNew, Calm, Legible, Readable
  <2>2. CASE pending # None
    BY <1>1, <2>2 DEF Settled
  <2>3. QED
    BY <2>1, <2>2
<1>13. CanBeGivenUp'
  <2>1. CASE job.staged /\ rollback' = None
    BY <1>1, <1>2, <1>7, <1>10, <1>11, <2>1 DEF CanBeGivenUp, In
  <2>2. CASE active' = active
    BY <1>1, <2>2 DEF CanBeGivenUp, StateFits, InPlaced, AgreesWithState, InResults,
       InArchive, In, AsNew, Calm, Legible, Readable
  <2>3. QED
    BY <1>3, <2>1, <2>2
<1>14. CanBePutBack'
  <2>1. CASE active' = active /\ rollback' = rollback
    BY <1>1, <2>1 DEF CanBePutBack, AgreesWithState, InPlaced, In, AsNew, Calm, Legible,
       InResults, InArchive, Readable
  <2>2. CASE rollback' = None
    BY <2>2 DEF CanBePutBack
  <2>3. QED
    BY <1>3, <2>1, <2>2
<1>15. Filled'
  BY <1>1, <1>3 DEF Filled, HasRows
<1>16. Announced'
  BY <1>1, <1>2 DEF Announced, Undoing, Tidying, Untouched
<1>17. Cleared'
  BY <1>1, <1>2, <1>3, <1>7 DEF Cleared, Here
<1>18. Aside'
  BY <1>1 DEF Aside
<1>19. MovedFits'
  <2>1. CASE job.staged
    BY <1>2, <1>4, <1>7, <2>1, NothingMoved
  <2>2. CASE ~job.staged
    <3>1. active' = active
      BY <1>3, <2>2
    <3>2. QED
      BY <1>1, <1>2, <3>1 DEF MovedFits, Undoing, NoneMoved, Here, AgreesWithState,
         HasRows, AsNew, Calm, Legible, Readable
  <2>3. QED
    BY <2>1, <2>2
<1>20. StateAgrees'
  BY <1>1, <1>2, <1>10 DEF StateAgrees, Undoing
<1>21. OldEntries'
  BY <1>1, <1>2, <1>11 DEF OldEntries, Undoing
<1>22. NewEntries'
  <2>1. job'.staged \/ job'.installed =>
          \A k \in Key : typed'[k] => InOthers(k)' \/ InArchive(k)' \/ In(k, job'.doc)
    BY <1>1, <1>2, <1>5, <1>6
  <2>2. QED
    BY <1>1, <2>1 DEF NewEntries, Undoing, In
<1>23. Generating' /\ PurgedEntries'
  BY <1>1, <1>2, <1>3, <1>7 DEF Generating, PurgedEntries, Compatible, In, Here, Tidying
<1>24. BeforeIsKept'
  <2>1. ASSUME ~job'.dirty, NEW f \in Format
        PROVE  Back(f)' = Back(f)
    <3>1. CASE job.staged
      BY <1>1, <1>2, <1>3, <1>7, <2>1, <3>1 DEF Back, Here, NoneMoved
    <3>2. CASE ~job.staged
      <4>1. job.installed => active[Here] = None
        BY <1>1, <1>2, <2>1, <3>2 DEF Cleared
      <4>2. QED
        BY <1>1, <1>2, <1>3, <2>1, <3>2, <4>1 DEF Back, Here
    <3>3. QED
      BY <3>1, <3>2
  <2>2. QED
    BY <1>1, <1>2, <2>1 DEF BeforeIsKept, Same, Undoing
<1>25. QED
  BY <1>1, <1>4, <1>8, <1>12, <1>13, <1>14, <1>15, <1>16, <1>17, <1>18, <1>19, <1>20, <1>21,
     <1>22, <1>23, <1>24, ExportGoesOn DEF Undoing

\* ... and so is what was rotated.
LEMMA UndoRotateStep ==
  ASSUME IInv, UndoRotate
  PROVE  IInv'
<1> USE DEF IInv, FilesFit
<1>1. /\ pc = "undoRotate" /\ pc' = "undoPending"
      /\ UNCHANGED <<movements, profile, state, pending, temp, rollback, typed, mishaps>>
      /\ \E back \in SUBSET Moved : MoveBack(back) /\ (back = Moved \/ job'.dirty)
  BY DEF UndoRotate, Undo, inputs, Goto, TypeOK, ExportJob
<1>2. /\ job' \in ExportJob /\ job'.doc = job.doc /\ job'.discard = job.discard
      /\ (job.dirty => job'.dirty)
      /\ job'.announced = job.announced /\ job'.staged = job.staged
      /\ job'.installed = job.installed /\ job'.moved = job.moved /\ job'.before = job.before
      /\ faults' \in 0 .. MaxFaults
      /\ (pending = None <=> ~job.announced)
      /\ (~job.announced => Untouched)
      /\ (pending # None => ~pending.retry /\ pending.doc = job.doc /\ job.doc # None
                            /\ pending.doc.profile = profile /\ pending.doc.profile.format = Here)
      /\ (job.installed => temp = None)
      /\ Here \in Format
  BY <1>1, UndoEffects DEF UndoRotate, Undo, inputs, Undoing
<1>3. PICK back \in SUBSET Moved : MoveBack(back) /\ (back = Moved \/ job'.dirty)
  BY <1>1
<1>4. /\ active' \in [Format -> Sheet \cup {None}] /\ archive' \subseteq Sheet
      /\ archive' = archive \ {job.moved[f] : f \in back}
      /\ \A f \in Format :
           \/ f \in back /\ job.moved[f] # None /\ active'[f] = job.moved[f]
              /\ (active[f] = None \/ (f = Here /\ job.installed))
           \/ f \notin back /\ active'[f] = active[f]
  <2>1. /\ active' = [f \in Format |-> IF f \in back THEN job.moved[f] ELSE active[f]]
        /\ archive' = archive \ {job.moved[f] : f \in back}
        /\ job.moved \in [Format -> Sheet \cup {None}]
    BY <1>3 DEF MoveBack, ExportJob, TypeOK
  <2>2. \A f \in Format : job.moved[f] # None => active[f] = None \/ (f = Here /\ job.installed)
    BY <1>1 DEF MovedFits, Undoing
  <2>3. \A f \in back : f \in Format /\ job.moved[f] # None
    BY <1>3 DEF Moved
  <2>4. QED
    BY <2>1, <2>2, <2>3 DEF TypeOK
<1>5. job.staged \/ job.installed =>
        \A k \in Key : typed[k] => InOthers(k) \/ InArchive(k) \/ In(k, job.doc)
  BY <1>1 DEF NewEntries, Undoing
\* Only what was installed can be replaced.
<1>6. \A k \in Key :
        /\ InOthers(k) \/ InArchive(k) => InResults(k)' \/ InArchive(k)'
        /\ ~job.installed \/ active[Here] = None => (InPlaced(k) => InPlaced(k)')
  <2> SUFFICES ASSUME NEW k \in Key
               PROVE  /\ InOthers(k) => InResults(k)'
                      /\ InArchive(k) => InResults(k)' \/ InArchive(k)'
                      /\ ~job.installed \/ active[Here] = None => (InResults(k) => InResults(k)')
    BY <1>1 DEF InPlaced, In
  <2>1. /\ InOthers(k) => InResults(k)'
        /\ ~job.installed \/ active[Here] = None => (InResults(k) => InResults(k)')
    BY <1>4 DEF InResults, InOthers, In
  <2>2. InArchive(k) => InResults(k)' \/ InArchive(k)'
    <3>1. ASSUME NEW s \in archive, s.cells[k]  PROVE InResults(k)' \/ InArchive(k)'
      <4>1. CASE s \in archive'
        BY <3>1, <4>1 DEF InArchive
      <4>2. CASE s \notin archive'
        <5>1. PICK f \in back : s = job.moved[f]
          BY <1>4, <4>2
        <5>2. f \in Format /\ active'[f] = s /\ s # None
          BY <1>4, <5>1 DEF Moved
        <5>3. QED
          BY <3>1, <5>2 DEF InResults, In
      <4>3. QED
        BY <4>1, <4>2
    <3>2. QED
      BY <3>1 DEF InArchive
  <2>3. QED
    BY <2>1, <2>2
<1>7. TypeOK'
  BY <1>1, <1>2, <1>4 DEF TypeOK, Undoing
<1>8. StateFits => StateFits'
  <2>1. state # None => state.profile.format \in Format
    BY StateTypes, SheetTypes
  <2>2. \A f \in Format : job.moved[f] # None /\ state # None /\ state.profile.format = f
                            => AgreesWithState(job.moved[f])
    BY <1>1 DEF MovedFits, Undoing
  <2>3. QED
    BY <1>1, <1>4, <2>1, <2>2 DEF StateFits, AgreesWithState, AsNew, Calm, Legible, Readable
<1>9. PendingDescribes'
  <2>1. ASSUME pending # None
        PROVE  \A k \in Key : typed'[k] => InResults(k)' \/ InArchive(k)' \/ In(k, pending'.doc)
    <3>1. CASE job.installed
      BY <1>1, <1>2, <1>5, <1>6, <2>1, <3>1
    <3>2. CASE ~job.installed
      <4>1. \A k \in Key : InResults(k) => InResults(k)'
        BY <1>4, <3>2 DEF InResults, In
      <4>2. QED
        BY <1>1, <1>6, <2>1, <4>1 DEF PendingDescribes
    <3>3. QED
      BY <3>1, <3>2
  <2>2. pending # None => AsNew(active'[Here], pending.doc)
    <3>1. pending # None => AsNew(active[Here], pending.doc) /\ AsNew(job.moved[Here], pending.doc)
      BY <1>1, <1>2 DEF PendingDescribes, MovedFits, Undoing
    <3>2. QED
      BY <1>2, <1>4, <3>1
  <2>3. QED
    BY <1>1, <1>2, <2>1, <2>2 DEF PendingDescribes, Legible, Readable, AsNew, In
<1>10. ~job.announced => active' = active /\ archive' = archive
  <2>1. ~job.announced => back = {}
    BY <1>2 DEF Moved, Untouched, NoneMoved
  <2>2. QED
    BY <1>3, <2>1 DEF MoveBack, TypeOK
<1>11. Settled'
  <2>1. CASE pending = None
    BY <1>1, <1>2, <1>10, <2>1 DEF Settled, StateFits, InPlaced, AgreesWithState,
       InResults, InArchive, In, AsNew, Calm, Legible, Readable
  <2>2. CASE pending # None
    BY <1>1, <2>2 DEF Settled
  <2>3. QED
    BY <2>1, <2>2
<1>12. /\ ~job.installed => StateFits'
       /\ ~job'.dirty => StateFits'
  BY <1>1, <1>2, <1>8 DEF StateAgrees, Undoing
<1>13. ~job.discard => \A k \in Key : typed[k] =>
         /\ ~job'.dirty => InPlaced(k)'
         /\ ~job.installed => InPlaced(k)' \/ In(k, rollback)
  <2>1. job.installed /\ ~job.dirty /\ ~job.staged => active[Here] = None
    BY <1>1 DEF Cleared
  <2>2. job.staged => \A f \in Format : f \notin back
    <3>1. job.staged => job.moved = NoneMoved
      BY <1>1 DEF MovedFits, Undoing
    <3>2. QED
      BY <3>1 DEF Moved, NoneMoved
  <2>3. job.staged => \A k \in Key : InResults(k) => InResults(k)'
    BY <1>4, <2>2 DEF InResults, In
  <2>4. job.staged => \A k \in Key : InPlaced(k) => InPlaced(k)'
    BY <1>1, <1>6, <2>3 DEF InPlaced, In
  <2>5. QED
    BY <1>1, <1>2, <1>6, <2>1, <2>4 DEF OldEntries
<1>14. CanBeGivenUp'
  <2>1. CASE job.discard \/ job.staged
    <3>1. back = {}
      BY <1>1, <2>1 DEF MovedFits, Undoing, Moved, NoneMoved
    <3>2. active' = active /\ archive' = archive
      BY <1>3, <3>1 DEF MoveBack, TypeOK
    <3>3. QED
      BY <1>1, <3>2 DEF CanBeGivenUp, StateFits, InPlaced, AgreesWithState, InResults,
         InArchive, In, AsNew, Calm, Legible, Readable
  <2>2. CASE ~job.discard /\ ~job.staged
    <3>1. rollback = None
      BY <1>1, <2>2 DEF Cleared
    <3>2. QED
      BY <1>1, <1>2, <1>12, <1>13, <2>2, <3>1 DEF CanBeGivenUp, In
  <2>3. QED
    BY <2>1, <2>2
<1>15. CanBePutBack'
  <2> SUFFICES ASSUME pending # None, rollback # None, active'[Here] = None
               PROVE  /\ AgreesWithState(rollback)'
                      /\ \A k \in Key : typed[k] => InPlaced(k)' \/ In(k, rollback)
    BY <1>1, <1>2 DEF CanBePutBack, In
  <2>1. active[Here] = None
    BY <1>2, <1>4
  <2>2. /\ AgreesWithState(rollback)
        /\ \A k \in Key : typed[k] => InPlaced(k) \/ In(k, rollback)
    BY <1>2, <2>1 DEF CanBePutBack
  <2>3. QED
    BY <1>1, <1>6, <2>1, <2>2 DEF AgreesWithState, AsNew, Legible, Calm
<1>16. Filled'
  <2>1. \A f \in Format : job.moved[f] # None => HasRows(job.moved[f])
    BY <1>1 DEF MovedFits, Undoing
  <2>2. QED
    BY <1>1, <1>4, <2>1 DEF Filled, HasRows
<1>17. Announced' /\ Cleared' /\ Aside'
  BY <1>1, <1>2 DEF Announced, Cleared, Aside, Undoing, Tidying, Untouched
<1>18. MovedFits' /\ Generating' /\ PurgedEntries'
  <2>1. MovedFits' /\ Generating'
    BY <1>1 DEF MovedFits, Generating, Undoing, Tidying
  <2>2. job.discard => active' = active
    <3>1. job.discard => back = {}
      BY <1>1 DEF MovedFits, Undoing, Moved, NoneMoved
    <3>2. QED
      BY <1>3, <3>1 DEF MoveBack, TypeOK
  <2>3. PurgedEntries'
    BY <1>1, <1>2, <2>2 DEF PurgedEntries, Compatible, In, Here, Tidying
  <2>4. QED
    BY <2>1, <2>3
<1>19. StateAgrees'
  BY <1>1, <1>2, <1>12 DEF StateAgrees, Undoing
<1>20. OldEntries'
  <2>1. ~job'.discard => \A k \in Key : typed'[k] =>
          /\ ~job'.dirty => InPlaced(k)'
          /\ ~job'.installed => InPlaced(k)' \/ In(k, rollback)'
    BY <1>1, <1>2, <1>13 DEF In
  <2>2. QED
    BY <1>1, <2>1 DEF OldEntries
<1>21. NewEntries'
  BY <1>1 DEF NewEntries, Undoing
<1>22. BeforeIsKept'
  <2>1. ASSUME ~job'.dirty, NEW f \in Format
        PROVE  Back(f)' = Back(f)
    BY <1>1, <1>2, <1>3, <1>4, <2>1 DEF Back, Here, Moved
  <2>2. QED
    BY <1>1, <1>2, <2>1 DEF BeforeIsKept, Same, Undoing
<1>23. QED
  BY <1>1, <1>7, <1>9, <1>11, <1>14, <1>15, <1>16, <1>17, <1>18, <1>19, <1>20, <1>21, <1>22,
     ExportGoesOn DEF Undoing

\* The export is over; what was announced is forgotten if all of it was undone.
LEMMA UndoPendingStep ==
  ASSUME IInv, UndoPending
  PROVE  IInv'
<1> USE DEF IInv, FilesFit
<1>1. /\ pc = "undoPending" /\ pc' = "idle" /\ job' = NoJob
      /\ UNCHANGED <<movements, profile, active, archive, state, temp, mishaps>>
      /\ faults' \in 0 .. MaxFaults
      /\ \/ UNCHANGED <<pending, rollback, typed>>
         \/ /\ job.announced /\ ~job.dirty /\ pending' = None /\ rollback' = None
            /\ typed' = IF job.discard /\ ResultGone
                        THEN [k \in Key |-> typed[k] /\ Held(k, Placed)] ELSE typed
  BY ExportAssumption DEF UndoPending, Over, inputs, RemovePending, LoseOthers, Fault, TypeOK
<1>2. CASE UNCHANGED <<pending, rollback, typed>>
  <2>1. TypeOK'
    BY <1>1, <1>2, NoJobFits DEF TypeOK
  <2>2. QED
    BY <1>1, <1>2, <2>1, FilesStay, NothingRuns, NoJobFits DEF Untouched, files
<1>3. CASE /\ job.announced /\ ~job.dirty /\ pending' = None /\ rollback' = None
           /\ typed' = IF job.discard /\ ResultGone
                       THEN [k \in Key |-> typed[k] /\ Held(k, Placed)] ELSE typed
  <2>1. \A k \in Key : typed[k] /\ ~(job.discard /\ ResultGone) => InPlaced(k)
    <3>1. CASE ~job.discard
      BY <1>1, <1>3, <3>1 DEF OldEntries
    <3>2. CASE job.discard /\ ~ResultGone
      <4>1. Here \in Format
        BY StateTypes
      <4>2. \A k \in Key : typed[k] =>
              Compatible /\ (In(k, state) \/ In(k, active[Here]) \/ active[Here] = None)
        BY <1>1, <1>3, <3>2 DEF PurgedEntries, Tidying
      <4>3. QED
        BY <3>2, <4>1, <4>2 DEF Compatible, InPlaced, InResults, In, Here
    <3>3. QED
      BY <3>1, <3>2
  <2>2. /\ typed' \in [Key -> BOOLEAN]
        /\ \A k \in Key : typed'[k] => typed[k] /\ InPlaced(k)
    BY <1>3, <2>1, HeldInPlaced DEF TypeOK
  <2>3. TypeOK'
    BY <1>1, <1>3, <2>2, NoJobFits DEF TypeOK
  <2>4. StateFits'
    <3>1. StateFits
      BY <1>1, <1>3 DEF StateAgrees, Undoing
    <3>2. QED
      BY <1>1, <2>2, <3>1, StateFitsStays DEF Calm
  <2>5. Settled'
    BY <1>1, <1>3, <2>2, <2>4 DEF Settled, InPlaced, InResults, InArchive, In
  <2>6. PendingDescribes' /\ CanBeGivenUp' /\ CanBePutBack' /\ Filled'
    BY <1>1, <1>3 DEF PendingDescribes, CanBeGivenUp, CanBePutBack, Filled, HasRows
  <2>7. QED
    BY <1>1, <2>3, <2>5, <2>6, NothingRuns, NoJobFits DEF Untouched
<1>4. QED
  BY <1>1, <1>2, <1>3

-----------------------------------------------------------------------------
\* What the user does.

\* The result that the user types into while an export runs has its entries, and more.
LEMMA TypeMeanwhileStep ==
  ASSUME IInv, NEW f \in Format, NEW key \in Key, TypeMeanwhile(f, key)
  PROVE  IInv'
<1> USE DEF IInv, FilesFit
<1>1. /\ pc' = pc /\ pc # "idle" /\ active[f] # None /\ key \in active[f].keys
      /\ UNCHANGED <<movements, profile, archive, state, pending, temp, rollback, job, typed,
                     faults, mishaps>>
  BY DEF TypeMeanwhile, inputs
<1>2. /\ active'[f] \in Sheet /\ active'[f] # None
      /\ active'[f].profile = active[f].profile /\ active'[f].keys = active[f].keys
      /\ \A k \in Key : active'[f].cells[k] <=> k = key \/ active[f].cells[k]
      /\ \A g \in Format : g # f => active'[g] = active[g]
      /\ active' \in [Format -> Sheet \cup {None}]
  <2> DEFINE typing == [active[f].cells EXCEPT ![key] = TRUE]
  <2>1. active[f] \in Sheet /\ active[f].cells \in [Key -> BOOLEAN]
    BY <1>1, StateTypes, SheetTypes
  <2>2. typing \in [Key -> BOOLEAN] /\ \A k \in Key : typing[k] <=> k = key \/ active[f].cells[k]
    BY <2>1
  <2>3. active \in [Format -> Sheet \cup {None}]
    BY DEF TypeOK
  <2>4. active' = [active EXCEPT ![f] = [active[f] EXCEPT !.cells = typing]]
    BY <2>1, <2>3 DEF TypeMeanwhile, Sheet
  <2> HIDE DEF typing
  <2>5. active'[f] = [active[f] EXCEPT !.cells = typing]
    BY <2>3, <2>4
  <2>6. /\ active'[f] \in Sheet
        /\ active'[f].profile = active[f].profile /\ active'[f].keys = active[f].keys
        /\ active'[f].cells = typing
    BY <2>1, <2>2, <2>5, SheetCells
  <2>7. active'[f] # None
    BY <2>6, SheetTypes
  <2>8. \A g \in Format : g # f => active'[g] = active[g]
    BY <2>3, <2>4
  <2>9. active' \in [Format -> Sheet \cup {None}]
    BY <2>3, <2>4, <2>5, <2>6
  <2>10. QED
    BY <2>2, <2>6, <2>7, <2>8, <2>9
<1>3. \A g \in Format :
        /\ active'[g] = None <=> active[g] = None
        /\ active[g] # None =>
             /\ active'[g].profile = active[g].profile /\ active'[g].keys = active[g].keys
             /\ \A k \in Key : active[g].cells[k] => active'[g].cells[k]
        /\ HasRows(active[g]) => HasRows(active'[g])
  BY <1>1, <1>2 DEF HasRows
<1>4. TypeOK'
  BY <1>1, <1>2 DEF TypeOK
<1>5. ASSUME NEW g \in Format, NEW doc
      PROVE  /\ AsNew(active[g], doc) => AsNew(active'[g], doc)
             /\ Legible(active[g], doc) => Legible(active'[g], doc)
             /\ Readable(active[g], doc) /\ active[g] # None => Readable(active'[g], doc)
  BY <1>3 DEF AsNew, Legible, Readable
<1>6. \A g \in Format : AgreesWithState(active[g]) => AgreesWithState(active'[g])
  BY <1>5 DEF AgreesWithState
<1>7. \A k \in Key : /\ InResults(k) => InResults(k)'
                     /\ InOthers(k) => InOthers(k)'
                     /\ InArchive(k) <=> InArchive(k)'
                     /\ InPlaced(k) => InPlaced(k)'
  BY <1>1, <1>3 DEF InPlaced, InResults, InOthers, InArchive, In, Here
<1>8. /\ Here \in Format /\ Here' = Here
      /\ state # None => state.profile.format \in Format
      /\ pending # None => pending.doc.profile.format \in Format
      /\ job.doc # None => job.doc.profile.format \in Format
  BY <1>1, StateTypes, SheetTypes DEF Here
<1>9. StateFits => StateFits'
  <2>1. StateFits' <=> (state # None => AgreesWithState(active'[state.profile.format]))
    BY <1>1 DEF StateFits, AgreesWithState, AsNew, Calm, Legible, Readable
  <2>2. QED
    BY <1>6, <1>8, <2>1 DEF StateFits
<1>10. Settled' /\ CanBeGivenUp'
  BY <1>1, <1>3, <1>7, <1>8, <1>9 DEF Settled, CanBeGivenUp
<1>11. PendingDescribes'
  <2>1. pending # None => AsNew(active'[pending.doc.profile.format], pending.doc)
    BY <1>5, <1>8 DEF PendingDescribes
  <2>2. pending # None => \A k \in Key : typed[k] =>
          InResults(k)' \/ InArchive(k)' \/ In(k, pending.doc)
    BY <1>7 DEF PendingDescribes
  <2>3. QED
    BY <1>1, <2>1, <2>2 DEF PendingDescribes, Legible, Readable, AsNew, In
<1>12. CanBePutBack'
  <2>1. AgreesWithState(rollback)' <=> AgreesWithState(rollback)
    BY <1>1 DEF AgreesWithState, AsNew, Legible, Calm
  <2>2. QED
    BY <1>1, <1>3, <1>7, <1>8, <2>1 DEF CanBePutBack, In
<1>13. Filled'
  BY <1>1, <1>3 DEF Filled, HasRows
<1>14. Starting' /\ Redoing'
  BY <1>1 DEF Starting, Redoing, Untouched
<1>15. Recording'
  <2>1. pc = "record" =>
          /\ Legible(active'[job.doc.profile.format], job.doc)
          /\ AsNew(active'[job.doc.profile.format], job.doc)
          /\ \A k \in Key : typed[k] => InResults(k)' \/ InArchive(k)' \/ In(k, job.doc)
    BY <1>5, <1>7, <1>8 DEF Recording
  <2>2. QED
    BY <1>1, <1>3, <1>8, <2>1 DEF Recording, Legible, Readable, AsNew, In
<1>16. DroppingRollback' /\ Forgetting'
  BY <1>1, <1>3, <1>7, <1>8, <1>9 DEF DroppingRollback, Forgetting
<1>17. Announced' /\ Cleared'
  BY <1>1, <1>3, <1>8 DEF Announced, Cleared, Untouched, Untyped, Here
<1>18. Aside'
  <2>1. AgreesWithState(rollback)' <=> AgreesWithState(rollback)
    BY <1>1 DEF AgreesWithState, AsNew, Legible, Calm
  <2>2. QED
    BY <1>1, <1>3, <1>8, <2>1 DEF Aside, Compatible, Here
<1>19. MovedFits'
  <2>1. \A g \in Format : AgreesWithState(job.moved[g])' <=> AgreesWithState(job.moved[g])
    BY <1>1 DEF AgreesWithState, AsNew, Legible, Calm
  <2>2. QED
    BY <1>1, <1>3, <1>8, <2>1 DEF MovedFits, HasRows, AsNew, Here
<1>20. StateAgrees'
  <2>1. state # None => (AgreesWithState(active[state.profile.format])'
                           <=> AgreesWithState(active'[state.profile.format]))
    BY <1>1 DEF AgreesWithState, AsNew, Legible, Calm
  <2>2. QED
    BY <1>1, <1>6, <1>8, <1>9, <2>1 DEF StateAgrees, Here
<1>21. OldEntries'
  <2>1. \A k \in Key : \A g \in Format : In(k, active[g]) => In(k, active'[g])
    BY <1>3 DEF In
  <2>2. QED
    BY <1>1, <1>7, <1>8, <2>1 DEF OldEntries, In, Here, InArchive
<1>22. NewEntries' /\ PurgedEntries'
  <2>1. NewEntries'
    BY <1>1, <1>7 DEF NewEntries, In, Compatible
  <2>2. \A k \in Key : In(k, active[Here]) => In(k, active'[Here])
    BY <1>3, <1>8 DEF In
  <2>3. PurgedEntries'
    BY <1>1, <1>3, <1>8, <2>2 DEF PurgedEntries, In, Compatible
  <2>4. QED
    BY <2>1, <2>3
<1>23. Generating'
  BY <1>1, <1>3, <1>5, <1>8 DEF Generating, Legible, Readable, AsNew, Compatible,
     Untouched, Here
<1>24. BeforeIsKept'
  <2>1. \A g \in Format : \/ Back(g)' = Back(g)
                          \/ Back(g) = active[g] /\ Back(g)' = active'[g]
    BY <1>1, <1>8 DEF Back, Here
  <2>2. \A g \in Format : \A old :
          /\ Same(Back(g), old) => Same(Back(g)', old)
          /\ Back(g) = None <=> Back(g)' = None
    BY <1>3, <2>1 DEF Same
  <2>3. QED
    BY <1>1, <2>2 DEF BeforeIsKept, Same
<1>25. QED
  BY <1>4, <1>10, <1>11, <1>12, <1>13, <1>14, <1>15, <1>16, <1>17, <1>18, <1>19, <1>20, <1>21,
     <1>22, <1>23, <1>24

\* What the user types into a result is its last entry: no other file has it.
LEMMA TypeStep ==
  ASSUME IInv, NEW f \in Format, NEW key \in Key, Type(f, key)
  PROVE  IInv'
<1> USE DEF IInv, FilesFit
<1> DEFINE Like(new, old) ==
             /\ new = None <=> old = None
             /\ old # None => /\ new \in Sheet
                              /\ new.profile = old.profile /\ new.keys = old.keys
                              /\ \A k \in Key : k # key => (new.cells[k] <=> old.cells[k])
           Left(new, old) == Like(new, old) /\ (old # None => ~new.cells[key])
<1>1. /\ pc = "idle" /\ pc' = "idle" /\ active[f] # None /\ key \in active[f].keys
      /\ UNCHANGED <<movements, profile, job, faults, mishaps>>
      /\ typed' \in [Key -> BOOLEAN]
      /\ \A k \in Key : k # key => typed'[k] = typed[k]
      /\ Untouched /\ ~job.announced /\ ~job.dirty
  BY DEF Type, inputs, TypeOK, Starting
<1>2. /\ Left(None, None)
      /\ \A s \in Sheet : Left(Outdated(s, key), s)
      /\ Outdated(None, key) = None
  BY OutdatedSheet, SheetTypes DEF Outdated
<1>3. /\ active[f] \in Sheet
      /\ \A g \in Format : active[g] # None => active[g] \in Sheet
      /\ state # None => state \in Sheet /\ state.profile.format \in Format
      /\ temp # None => temp \in Sheet
      /\ rollback # None => rollback \in Sheet
      /\ pending # None => /\ pending \in PendingExport /\ pending.doc \in Sheet
                           /\ pending.doc # None /\ pending.file # None
                           /\ pending.file \in Sheet /\ pending.doc.profile.format \in Format
  BY <1>1, StateTypes, SheetTypes
<1>4. Like(active'[f], active[f]) /\ active'[f].cells[key]
  <2> DEFINE typing == [active[f].cells EXCEPT ![key] = TRUE]
  <2>1. active[f].cells \in [Key -> BOOLEAN]
    BY <1>3, SheetTypes
  <2>2. typing \in [Key -> BOOLEAN] /\ \A k \in Key : typing[k] <=> k = key \/ active[f].cells[k]
    BY <2>1
  <2>3. active'[f] = [active[f] EXCEPT !.cells = typing]
    BY <1>3, <2>1 DEF Type, Sheet
  <2> HIDE DEF typing
  <2>4. /\ active'[f] \in Sheet
        /\ active'[f].profile = active[f].profile /\ active'[f].keys = active[f].keys
        /\ active'[f].cells = typing
    BY <1>3, <2>2, <2>3, SheetCells
  <2>5. active'[f] # None
    BY <2>4, SheetTypes
  <2>6. QED
    BY <1>1, <2>2, <2>4, <2>5
<1>5. \A g \in Format : /\ Like(active'[g], active[g])
                        /\ g # f => Left(active'[g], active[g])
  <2>1. \A g \in Format : g # f => active'[g] = Outdated(active[g], key)
    BY DEF Type
  <2>2. QED
    BY <1>2, <1>3, <1>4, <2>1
<1>6. /\ Left(state', state) /\ Left(temp', temp) /\ Left(rollback', rollback)
      /\ pending' = None <=> pending = None
  <2>1. /\ state' = Outdated(state, key) /\ temp' = Outdated(temp, key)
        /\ rollback' = Outdated(rollback, key)
        /\ pending' = IF pending = None THEN None
                      ELSE [pending EXCEPT !.doc = Outdated(@, key), !.file = Outdated(@, key)]
    BY DEF Type
  <2>2. Left(state', state) /\ Left(temp', temp) /\ Left(rollback', rollback)
    BY <1>2, <1>3, <2>1
  <2>3. pending # None => pending' # None
    <3>1. pending # None => pending' \in PendingExport
      <4>1. pending # None => Outdated(pending.doc, key) \in Sheet /\ Outdated(pending.file, key) \in Sheet
        BY <1>3, OutdatedSheet
      <4>2. QED
        BY <1>3, <2>1, <4>1 DEF PendingExport
    <3>2. QED
      BY <3>1, SheetTypes
  <2>4. QED
    BY <2>1, <2>2, <2>3
<1>7. pending # None => /\ pending' \in PendingExport /\ pending'.retry = pending.retry
                        /\ Left(pending'.doc, pending.doc) /\ Left(pending'.file, pending.file)
  <2> SUFFICES ASSUME pending # None
               PROVE  /\ pending' \in PendingExport /\ pending'.retry = pending.retry
                      /\ Left(pending'.doc, pending.doc) /\ Left(pending'.file, pending.file)
    OBVIOUS
  <2>1. pending' = [pending EXCEPT !.doc = Outdated(@, key), !.file = Outdated(@, key)]
    BY DEF Type
  <2>2. Outdated(pending.doc, key) \in Sheet /\ Outdated(pending.file, key) \in Sheet
    BY <1>3, OutdatedSheet
  <2>3. /\ pending' \in PendingExport /\ pending'.retry = pending.retry
        /\ pending'.doc = Outdated(pending.doc, key) /\ pending'.file = Outdated(pending.file, key)
    BY <1>3, <2>1, <2>2 DEF PendingExport
  <2>4. QED
    BY <1>2, <1>3, <2>3
<1>8. /\ archive' \subseteq Sheet
      /\ \A k \in Key : k # key /\ InArchive(k) => InArchive(k)'
  <2> DEFINE left == {Outdated(s, key) : s \in archive}
  <2>1. archive \subseteq Sheet /\ archive' = Entries(left)
    BY DEF Type, TypeOK
  <2>2. left \in SUBSET Sheet
    BY <2>1, OutdatedSheet
  <2>3. ASSUME NEW k \in Key, k # key, NEW s \in archive, s.cells[k]
        PROVE  \E t \in left : t.cells[k]
    <3>1. Outdated(s, key).cells[k] /\ Outdated(s, key) \in left
      BY <2>1, <2>3, OutdatedSheet
    <3>2. QED
      BY <3>1
  <2> HIDE DEF left
  <2>4. QED
    BY <2>1, <2>2, <2>3, ArchivedEntries DEF InArchive
<1>9. TypeOK'
  <2>1. active' \in [Format -> Sheet \cup {None}]
    <3>1. active' = [g \in Format |-> active'[g]]
      BY DEF Type
    <3>2. \A g \in Format : active'[g] \in Sheet \cup {None}
      BY <1>5
    <3>3. QED
      BY <3>1, <3>2
  <2>2. /\ state' \in Sheet \cup {None} /\ temp' \in Sheet \cup {None}
        /\ rollback' \in Sheet \cup {None} /\ pending' \in PendingExport \cup {None}
    BY <1>6, <1>7
  <2>3. QED
    BY <1>1, <1>8, <2>1, <2>2 DEF TypeOK
\* So the others have no last entry that is not in the result.
<1>10. ASSUME NEW new, NEW old, NEW newDoc, NEW oldDoc, Like(new, old), Left(newDoc, oldDoc),
              oldDoc # None
       PROVE  /\ AsNew(old, oldDoc) /\ new # None => \A k \in Key :
                   k \in new.keys /\ typed'[k] /\ newDoc.cells[k] => new.cells[k]
              /\ Legible(old, oldDoc) => Legible(new, newDoc)
              /\ old # None /\ Readable(old, oldDoc) => Readable(new, newDoc)
  BY <1>1, <1>10 DEF AsNew, Legible, Readable
<1>11. \A k \in Key : k # key => /\ InResults(k) => InResults(k)'
                                 /\ InPlaced(k) => InPlaced(k)'
  BY <1>5, <1>6, <1>8 DEF InPlaced, InResults, In
<1>12. InResults(key)' /\ InPlaced(key)'
  BY <1>1, <1>4 DEF InPlaced, InResults, In
<1> HIDE DEF Like, Left
<1>13. StateFits => StateFits'
  <2> SUFFICES ASSUME StateFits, state' # None
               PROVE  AgreesWithState(active[state.profile.format])'
    BY DEF StateFits
  <2>1. state # None /\ state'.profile = state.profile
    BY <1>6 DEF Like, Left
  <2> DEFINE g == state.profile.format
  <2>2. g \in Format /\ Like(active'[g], active[g]) /\ Left(state', state)
    BY <1>3, <1>5, <1>6, <2>1
  <2>3. AsNew(active[g], state) /\ (Calm => Legible(active[g], state))
    BY <2>1 DEF StateFits, AgreesWithState
  <2>4. active'[g] # None => \A k \in Key :
          k \in active'[g].keys /\ typed'[k] /\ state'.cells[k] => active'[g].cells[k]
    BY <1>10, <2>1, <2>2, <2>3
  <2>5. Calm => Legible(active'[g], state')
    BY <1>10, <2>1, <2>2, <2>3
  <2>6. QED
    BY <1>1, <2>1, <2>4, <2>5 DEF AgreesWithState, AsNew, Legible, Calm
<1>14. Settled'
  <2>1. CASE pending = None
    <3>1. rollback' = None
      BY <1>6, <2>1 DEF Settled, Like, Left
    <3>2. \A k \in Key : typed'[k] => InPlaced(k)'
      BY <1>1, <1>11, <1>12, <2>1 DEF Settled
    <3>3. QED
      BY <1>13, <2>1, <3>1, <3>2 DEF Settled
  <2>2. CASE pending # None
    BY <1>6, <2>2 DEF Settled
  <2>3. QED
    BY <2>1, <2>2
<1>15. PendingDescribes'
  <2> SUFFICES ASSUME pending # None
               PROVE  PendingDescribes'
    BY <1>6 DEF PendingDescribes
  <2> DEFINE g == pending.doc.profile.format
  <2>1. /\ Left(pending'.doc, pending.doc) /\ Left(pending'.file, pending.file)
        /\ pending.doc # None /\ pending.file # None
        /\ Like(temp', temp) /\ Like(rollback', rollback) /\ Like(pending'.file, pending.file)
        /\ g \in Format /\ Like(active'[g], active[g]) /\ pending'.doc.profile = pending.doc.profile
    BY <1>3, <1>5, <1>6, <1>7 DEF Like, Left
  <2>2. /\ Readable(pending.file, pending.doc)
        /\ Legible(temp, pending.doc) /\ AsNew(temp, pending.doc)
        /\ AsNew(active[g], pending.doc) /\ AsNew(rollback, pending.doc)
        /\ rollback # None => state = None \/ state.profile = pending.doc.profile
        /\ \A k \in Key : typed[k] => InResults(k) \/ InArchive(k) \/ In(k, pending.doc)
    BY DEF PendingDescribes
  <2>3. Readable(pending'.file, pending'.doc) /\ Legible(temp', pending'.doc)
    BY <1>10, <2>1, <2>2
  <2>4. temp' # None => \A k \in Key :
          k \in temp'.keys /\ typed'[k] /\ pending'.doc.cells[k] => temp'.cells[k]
    BY <1>10, <2>1, <2>2
  <2>5. active'[g] # None => \A k \in Key :
          k \in active'[g].keys /\ typed'[k] /\ pending'.doc.cells[k] => active'[g].cells[k]
    BY <1>10, <2>1, <2>2
  <2>6. rollback' # None => \A k \in Key :
          k \in rollback'.keys /\ typed'[k] /\ pending'.doc.cells[k] => rollback'.cells[k]
    BY <1>10, <2>1, <2>2
  <2>7. rollback' # None => state' = None \/ state'.profile = pending'.doc.profile
    BY <1>6, <2>1, <2>2 DEF Like, Left
  <2>8. \A k \in Key : typed'[k] => InResults(k)' \/ InArchive(k)' \/ In(k, pending'.doc)
    <3>1. \A k \in Key : k # key /\ In(k, pending.doc) => In(k, pending'.doc)
      BY <2>1 DEF In, Like, Left
    <3>2. QED
      BY <1>1, <1>8, <1>11, <1>12, <2>2, <3>1
  <2>9. QED
    BY <2>1, <2>3, <2>4, <2>5, <2>6, <2>7, <2>8 DEF PendingDescribes, AsNew, Legible,
       Readable, In
<1>16. CanBeGivenUp'
  <2>1. (pending # None /\ (temp # None \/ pending.retry)) <=>
        (pending' # None /\ (temp' # None \/ pending'.retry))
    BY <1>6, <1>7 DEF Like, Left
  <2>2. ResultGone' <=> ResultGone
    BY <1>3, <1>5, <1>6 DEF Like, Left
  <2>3. \A g \in Format : active'[g] # None <=> active[g] # None
    BY <1>5 DEF Like
  <2>4. pending # None => pending'.retry = pending.retry
    BY <1>7
  <2>5. QED
    BY <1>1, <1>6, <1>11, <1>12, <1>13, <2>1, <2>2, <2>3, <2>4 DEF CanBeGivenUp
<1>17. CanBePutBack'
  <2> SUFFICES ASSUME pending' # None, rollback' # None,
                      active'[pending'.doc.profile.format] = None
               PROVE  /\ AgreesWithState(rollback)'
                      /\ \A k \in Key : typed'[k] => InPlaced(k)' \/ In(k, rollback')
    BY DEF CanBePutBack, In
  <2>1. /\ pending # None /\ rollback # None /\ pending'.doc.profile = pending.doc.profile
        /\ active[pending.doc.profile.format] = None
    BY <1>3, <1>5, <1>6, <1>7 DEF Like, Left
  <2>2. /\ AgreesWithState(rollback)
        /\ \A k \in Key : typed[k] => InPlaced(k) \/ In(k, rollback)
    BY <2>1 DEF CanBePutBack
  <2>3. \A k \in Key : k # key /\ In(k, rollback) => In(k, rollback')
    BY <1>6, <2>1 DEF In, Like, Left
  <2>4. ASSUME state' # None
        PROVE  AgreesWithState(rollback)'
    <3>1. state # None /\ Left(state', state) /\ Like(rollback', rollback)
      BY <1>6, <2>4 DEF Like, Left
    <3>2. AsNew(rollback, state) /\ (Calm => Legible(rollback, state))
      BY <2>2, <3>1 DEF AgreesWithState
    <3>3. \A k \in Key :
            k \in rollback'.keys /\ typed'[k] /\ state'.cells[k] => rollback'.cells[k]
      BY <1>10, <3>1, <3>2
    <3>4. Calm => Legible(rollback', state')
      BY <1>10, <3>1, <3>2
    <3>5. QED
      BY <1>1, <3>3, <3>4 DEF AgreesWithState, AsNew, Legible, Calm
  <2>5. state' = None => AgreesWithState(rollback)'
    BY DEF AgreesWithState
  <2>6. QED
    BY <1>1, <1>11, <1>12, <2>2, <2>3, <2>4, <2>5
<1>18. Filled'
  <2>1. \A g \in Format : HasRows(active'[g])
    BY <1>1, <1>4, <1>5 DEF Filled, HasRows, Like, Left
  <2>2. HasRows(temp') /\ HasRows(rollback')
    BY <1>6 DEF Filled, HasRows, Like, Left
  <2>3. QED
    BY <2>1, <2>2 DEF Filled, HasRows
<1>19. QED
  BY <1>1, <1>9, <1>14, <1>15, <1>16, <1>17, <1>18, NothingRuns DEF Untouched

\* When nothing that was typed must be kept, the files need only describe one another.
LEMMA NothingToKeep ==
  ASSUME \A k \in Key : ~typed[k]
  PROVE  /\ \A sheet, doc : AsNew(sheet, doc)
         /\ \A sheet : AgreesWithState(sheet) <=> (state # None /\ Calm => Legible(sheet, state))
BY DEF AsNew, AgreesWithState

\* A result that the user deletes is missing.
LEMMA DeleteStep ==
  ASSUME IInv, NEW f \in Format, Delete(f)
  PROVE  IInv'
<1> USE DEF IInv, FilesFit
<1>1. /\ pc = "idle" /\ pc' = "idle"
      /\ UNCHANGED <<movements, profile, archive, state, pending, temp, rollback, job, faults>>
      /\ typed' \in [Key -> BOOLEAN] /\ \A k \in Key : ~typed'[k]
      /\ mishaps' = IF pending = None THEN mishaps ELSE mishaps \cup {"removal"}
      /\ Untouched /\ ~job.announced /\ ~job.dirty
  BY DEF Delete, inputs, Untyped, Starting
<1>2. /\ active' \in [Format -> Sheet \cup {None}]
      /\ \A g \in Format : active'[g] = None \/ active'[g] = active[g]
  BY DEF Delete, TypeOK
<1>3. (Calm' => Calm) /\ (pending # None => ~Calm') /\ mishaps' \subseteq {"rollback", "scattered", "removal"}
  BY <1>1 DEF Calm, TypeOK
<1>4. TypeOK'
  BY <1>1, <1>2, <1>3 DEF TypeOK
<1>5. StateFits => StateFits'
  <2>1. state # None => state.profile.format \in Format
    BY StateTypes, SheetTypes
  <2>2. QED
    BY <1>1, <1>2, <1>3, <2>1 DEF StateFits, AgreesWithState, AsNew, Legible, Readable
<1>6. Settled' /\ PendingDescribes'
  BY <1>1, <1>5 DEF Settled, PendingDescribes, AsNew, Legible, Readable
<1>7. CanBeGivenUp'
  BY <1>1, <1>2, <1>5 DEF CanBeGivenUp
<1>8. CanBePutBack'
  BY <1>1, <1>3 DEF CanBePutBack, AgreesWithState, AsNew
<1>9. Filled'
  BY <1>1, <1>2 DEF Filled, HasRows
<1>10. QED
  BY <1>1, <1>4, <1>6, <1>7, <1>8, <1>9, NothingRuns DEF Untouched

\* Whatever traces of exports are left, they are not taken for something else.
LEMMA ClearStep ==
  ASSUME IInv, NEW left \in SUBSET Traces, Clear(left)
  PROVE  IInv'
<1> USE DEF IInv, FilesFit
<1>1. /\ pc = "idle" /\ pc' = "idle"
      /\ UNCHANGED <<movements, profile, job>>
      /\ typed' \in [Key -> BOOLEAN] /\ \A k \in Key : ~typed'[k]
      /\ Untouched /\ ~job.announced /\ ~job.dirty
  BY DEF Clear, inputs, Untyped, Starting
<1>2. faults' \in 0 .. MaxFaults
  <2>1. IsFiniteSet({"csv"} \cup {"xlsx"}) /\ IsFiniteSet({"temp"} \cup {"rollback"})
        /\ IsFiniteSet({"archive"} \cup {"state"}) /\ IsFiniteSet({"pending"})
    BY FS_Singleton, FS_Union
  <2>2. IsFiniteSet(Traces)
    <3>1. IsFiniteSet(({"csv"} \cup {"xlsx"}) \cup ({"temp"} \cup {"rollback"}))
          /\ IsFiniteSet(({"archive"} \cup {"state"}) \cup {"pending"})
      BY <2>1, FS_Union
    <3>2. Traces = (({"csv"} \cup {"xlsx"}) \cup ({"temp"} \cup {"rollback"}))
                   \cup (({"archive"} \cup {"state"}) \cup {"pending"})
      BY DEF Traces, Outputs
    <3>3. QED
      BY <3>1, <3>2, FS_Union
  <2>3. Cardinality(left) \in Nat
    BY <2>2, FS_Subset, FS_CardinalityType
  <2>4. QED
    BY <2>3, ExportAssumption DEF Clear, TypeOK
<1>3. /\ active' \in [Format -> Sheet \cup {None}]
      /\ \A g \in Format : active'[g] = None \/ active'[g] = active[g]
      /\ temp' = None \/ temp' = temp
      /\ rollback' = None \/ rollback' = rollback
      /\ archive' \subseteq Sheet
      /\ state' = None \/ state' = state
      /\ pending' = None \/ pending' = pending
      /\ pending' = None => rollback' = None
  BY DEF Clear, TypeOK, Settled
<1>4. /\ mishaps' \subseteq {"rollback", "scattered", "removal"}
      /\ state' # None /\ pending = None => (Calm' => Calm)
      /\ pending' # None \/ (state' # None /\ pending # None) => ~Calm'
  BY <1>3 DEF Clear, Calm, TypeOK
<1>5. TypeOK'
  BY <1>1, <1>2, <1>3, <1>4 DEF TypeOK
<1>6. state' # None => (pending = None => StateFits) /\ state.profile.format \in Format
  BY <1>3, StateTypes, SheetTypes DEF Settled
<1>7. StateFits'
  <2> SUFFICES ASSUME state' # None, Calm'
               PROVE  Legible(active'[state.profile.format], state)
    BY <1>1, <1>3 DEF StateFits, AgreesWithState, AsNew
  <2>1. state' = state /\ pending = None /\ Calm /\ state.profile.format \in Format
    BY <1>3, <1>4, <1>6
  <2>2. StateFits
    BY <1>6, <2>1
  <2>3. Legible(active[state.profile.format], state)
    BY <2>1, <2>2 DEF StateFits, AgreesWithState
  <2>4. QED
    BY <1>3, <2>1, <2>3 DEF Legible
<1>8. Settled' /\ CanBeGivenUp'
  BY <1>1, <1>3, <1>7 DEF Settled, CanBeGivenUp
<1>9. PendingDescribes'
  BY <1>1, <1>3 DEF PendingDescribes, AsNew, Legible, Readable
<1>10. CanBePutBack'
  BY <1>1, <1>4 DEF CanBePutBack, AgreesWithState, AsNew
<1>11. Filled'
  BY <1>3 DEF Filled, HasRows
<1>12. QED
  BY <1>1, <1>5, <1>8, <1>9, <1>10, <1>11, NothingRuns DEF Untouched

-----------------------------------------------------------------------------
\* The invariant is inductive.
LEMMA InitInv == Init => IInv
<1> SUFFICES ASSUME Init  PROVE IInv
  OBVIOUS
<1>1. /\ pc = "idle" /\ job = NoJob /\ pending = None /\ rollback = None /\ state = None
      /\ temp = None /\ archive = {} /\ typed = Untyped /\ \A f \in Format : active[f] = None
  BY DEF Init
<1>2. TypeOK
  BY NoJobFits, ExportAssumption DEF Init, TypeOK, Untyped
<1>3. FilesFit
  BY <1>1 DEF FilesFit, Settled, PendingDescribes, CanBeGivenUp, CanBePutBack, Filled,
     HasRows,
              StateFits, Untyped
<1>4. Starting /\ Redoing /\ Recording /\ DroppingRollback /\ Forgetting
  BY <1>1, NoJobFits
     DEF Starting, Redoing, Recording, DroppingRollback, Forgetting, Untouched
<1>5. Announced /\ Cleared /\ Aside /\ MovedFits
  BY <1>1, NoJobFits DEF Announced, Cleared, Aside, MovedFits, Tidying, Undoing
<1>6. StateAgrees /\ OldEntries /\ NewEntries /\ PurgedEntries /\ Generating /\ BeforeIsKept
  BY <1>1, NoJobFits DEF StateAgrees, OldEntries, NewEntries, PurgedEntries, Generating,
     BeforeIsKept, Tidying, Undoing
<1>7. QED
  BY <1>2, <1>3, <1>4, <1>5, <1>6 DEF IInv

\* The invariant is inductive.
LEMMA StepInv == IInv /\ [Next]_vars => IInv'
<1> SUFFICES ASSUME IInv, [Next]_vars  PROVE IInv'
  OBVIOUS
<1>1. CASE Recover \/ Redo \/ Record \/ DropRollback \/ Forget
  BY <1>1, RecoverStep, RedoStep, RecordStep, DropRollbackStep, ForgetStep
<1>2. CASE Prepare \/ Announce \/ Stage \/ Rotate \/ Install \/ Commit \/ TidyRollback \/ TidyPending
  BY <1>2, PrepareStep, AnnounceStep, StageStep, RotateStep, InstallStep, CommitStep,
     TidyRollbackStep, TidyPendingStep
<1>3. CASE UndoTemp \/ UndoInstall \/ UndoStage \/ UndoRotate \/ UndoPending
  BY <1>3, UndoTempStep, UndoInstallStep, UndoStageStep, UndoRotateStep, UndoPendingStep
<1>4. CASE Fail
  BY <1>4, FailStep
<1>5. CASE \/ Abort \/ Crash \/ ChangeInputs \/ UNCHANGED vars
           \/ \E discard \in BOOLEAN : Export(discard)
  BY <1>5, StandstillStep
<1>6. CASE \E f \in Format : Delete(f) \/ \E k \in Key : Type(f, k) \/ TypeMeanwhile(f, k)
  BY <1>6, DeleteStep, TypeStep, TypeMeanwhileStep
<1>7. CASE \E left \in SUBSET Traces : Clear(left)
  BY <1>7, ClearStep
<1>8. QED
  BY <1>1, <1>2, <1>3, <1>4, <1>5, <1>6, <1>7 DEF Next, Step

\* It holds in every behaviour.
LEMMA Invariance == Spec => []IInv
BY InitInv, StepInv, PTL DEF Spec

-----------------------------------------------------------------------------
\* The types: in particular there are no more faults than allowed.
THEOREM ExportCommitTypeCorrect == Spec => []TypeOK
<1>1. IInv => TypeOK
  BY DEF IInv
<1>2. QED
  BY <1>1, Invariance, PTL

\* What the user typed into a result between two exports is held by a file that the
\* program reads back or keeps, at any time and however many faults there were: by a
\* result, the archive, the state or what is pending.  Excepted is what is removed on
\* purpose, and the two losses of the code that typed tells: what only the result held
\* that a purge had removed before it failed, and what only the result held that was
\* moved aside, or purged, by an export that recovery dropped without having installed
\* it.  In both the result that the state describes is gone (ResultGone): an export that
\* fails or is recovered while it is in place loses nothing.
THEOREM EntriesAreNotLost == Spec => []EntriesAreKept
<1>1. IInv => EntriesAreKept
  <2> SUFFICES ASSUME IInv, NEW k \in Key, typed[k]
               PROVE  Held(k, Reachable)
    BY DEF EntriesAreKept
  <2>1. \/ InPlaced(k)
        \/ pending # None /\ In(k, pending.doc)
    BY DEF IInv, FilesFit, Settled, PendingDescribes, InPlaced
  <2>2. TypeOK
    BY DEF IInv
  <2>3. QED
    BY <2>1, <2>2, HeldInPlaced
<1>2. QED
  BY <1>1, Invariance, PTL

\* The next export can read the result in place.
THEOREM ResultsAreReadable == Spec => []StateDescribesResult
<1>1. IInv => StateDescribesResult
  BY DEF IInv, FilesFit, Settled, StateFits, AgreesWithState, Legible, Calm,
     StateDescribesResult,
         Result
<1>2. QED
  BY <1>1, Invariance, PTL

\* A rollback that meets no failure of its own puts every result back.
THEOREM RollbacksRestore == Spec => RollbackRestores
<1>1. ASSUME IInv, [Next]_vars, pc = "undoPending", ~job.dirty, ~job.discard,
             "scattered" \notin mishaps, pc' = "idle"
      PROVE  /\ Kept(job.before, active')
             /\ \A f \in Format : job.before[f] = None => active'[f] = None
  <2>1. \A f \in Format : IF job.before[f] # None THEN Same(active[f], job.before[f])
                          ELSE active[f] = None
    <3>1. \A f \in Format : Back(f) = active[f]
      BY <1>1 DEF Back
    <3>2. QED
      BY <1>1, <3>1 DEF IInv, BeforeIsKept, Undoing
  <2>2. active' = active
    <3>1. UndoPending \/ Crash
      BY <1>1 DEF Next, Step, Recover, Redo, Record, DropRollback, Forget, Prepare,
         Announce, Stage,
                  Rotate, Install, Commit, TidyRollback, TidyPending, UndoTemp, UndoInstall, UndoStage,
                  UndoRotate, Undo, Fail, Abort, Export, Delete, Type, TypeMeanwhile, ChangeInputs,
                  Clear, vars, Recovering, Writing, Tidying
    <3>2. QED
      BY <3>1 DEF UndoPending, Crash, files
  <2>3. QED
    BY <2>1, <2>2 DEF Kept
<1>2. IInv /\ [Next]_vars =>
        [(pc = "undoPending" /\ ~job.dirty /\ ~job.discard /\ "scattered" \notin mishaps)
           => ( pc' = "idle"
                => /\ Kept(job.before, active')
                   /\ \A f \in Format : job.before[f] = None => active'[f] = None )]_vars
  BY <1>1
<1>3. QED
  BY <1>2, Invariance, PTL DEF Spec, RollbackRestores
=============================================================================
