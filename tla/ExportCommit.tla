---------------------------- MODULE ExportCommit ----------------------------
(***************************************************************************)
(* How an export replaces the active result: CsvExporter.export, the       *)
(* recovery of an interrupted export and clearGeneratedExportFiles.        *)
(*                                                                         *)
(* The result is a spreadsheet the user writes into: what is typed into    *)
(* its custom columns exists only there until the next export reads it     *)
(* back.  An export therefore replaces the file, and the private state     *)
(* that describes it, by a sequence of renames announced in a pending      *)
(* file, so that the process may die, or any operation on a file fail,     *)
(* between any two of them.  Exports hold the synchronization lock: there  *)
(* is one at a time.  Movements are keys, the entries of a movement are    *)
(* one cell, and of a cell we only tell whether it holds what the user     *)
(* typed last into the results of that movement between two exports, or    *)
(* something typed later.  Highlights and dated backups are left out.      *)
(***************************************************************************)
EXTENDS Naturals, FiniteSets

CONSTANTS
  Key,         \* movement keys
  Layout,      \* enabled columns, headers and CSV options
  None,        \* no file, no state, nothing pending
  MaxFaults    \* bound: crashes and failing file operations

Format == {"csv", "xlsx"}
Profile == [format : Format, layout : Layout]

\* The content of a spreadsheet, and what a state says of one.  A state also
\* remembers the entries of movements that are no longer exported.
Sheet == [profile : Profile, keys : SUBSET Key, cells : [Key -> BOOLEAN]]
PendingExport == [doc : Sheet, file : Sheet, retry : BOOLEAN]

ASSUME ExportAssumption ==
  /\ MaxFaults \in Nat
  /\ None \notin Sheet \cup PendingExport

VARIABLES
  movements,  \* rows(): keys of the movements to export
  profile,    \* the saved export settings
  active,     \* kakebo_movements.csv and .xlsx
  archive,    \* the files in archive/ that hold a last entry; the program never
              \* reads the others
  state,      \* export-settings.json.state.json
  pending,    \* ....pending: the next state, the hash of its file, and
              \* retryBeforeInstall
  temp,       \* the generated file that is not yet installed
  rollback,   \* the previous result, moved aside
  pc,         \* what the running export does next
  job,        \* its local variables; before: history, the results it started from
  typed,      \* history: whether the last entry typed for a key must not be lost
  faults,     \* how many faults there have been
  mishaps     \* history: since the last export that succeeded, an announced one
              \* was rolled back, a rotation could not be undone ("scattered"),
              \* or files were removed while an export was pending

vars == <<movements, profile, active, archive, state, pending, temp, rollback,
          pc, job, typed, faults, mishaps>>
files == <<active, archive, state, pending, temp, rollback>>
inputs == <<movements, profile>>

Recovering == {"recover", "redo", "record", "dropRollback", "forget"}
Writing == {"prepare", "announce", "stage", "rotate", "install", "commit"}
Undoing == {"undoTemp", "undoInstall", "undoStage", "undoRotate", "undoPending"}
Tidying == {"tidyRollback", "tidyPending"}

ExportJob == [doc : Sheet \cup {None}, discard : BOOLEAN, announced : BOOLEAN,
              staged : BOOLEAN, installed : BOOLEAN, moved : [Format -> Sheet \cup {None}],
              before : [Format -> Sheet \cup {None}], dirty : BOOLEAN]
NoJob == [doc |-> None, discard |-> FALSE, announced |-> FALSE, staged |-> FALSE,
          installed |-> FALSE, moved |-> [f \in Format |-> None],
          before |-> [f \in Format |-> None], dirty |-> FALSE]

TypeOK ==
  /\ movements \subseteq Key
  /\ profile \in Profile
  /\ active \in [Format -> Sheet \cup {None}]
  /\ archive \subseteq Sheet
  /\ state \in Sheet \cup {None}
  /\ pending \in PendingExport \cup {None}
  /\ temp \in Sheet \cup {None}
  /\ rollback \in Sheet \cup {None}
  /\ pc \in {"idle"} \cup Recovering \cup Writing \cup Undoing \cup Tidying
  /\ job \in ExportJob
  /\ typed \in [Key -> BOOLEAN]
  /\ faults \in 0..MaxFaults
  /\ mishaps \subseteq {"rollback", "scattered", "removal"}

Untyped == [k \in Key |-> FALSE]

Init ==
  /\ movements = Key
  /\ profile \in Profile
  /\ active = [f \in Format |-> None]
  /\ archive = {}
  /\ state = None
  /\ pending = None
  /\ temp = None
  /\ rollback = None
  /\ pc = "idle"
  /\ job = NoJob
  /\ typed = Untyped
  /\ faults = 0
  /\ mishaps = {}

-----------------------------------------------------------------------------
\* previousCustomValues reads sheet as one that doc describes; it throws if the
\* header differs or a key is unknown.
Readable(sheet, doc) == sheet.profile = doc.profile /\ sheet.keys \subseteq doc.keys

\* doc with the entries found in sheet, empty ones too.
WithEntries(doc, sheet) ==
  [doc EXCEPT !.cells = [k \in Key |->
     IF k \in sheet.keys THEN sheet.cells[k] ELSE doc.cells[k]]]

\* The spreadsheet generated for the state doc.
Generated(doc) ==
  [doc EXCEPT !.cells = [k \in Key |-> k \in doc.keys /\ doc.cells[k]]]

\* The sheets that hold a last entry.
Entries(sheets) == {s \in sheets : \E k \in Key : s.cells[k]}

Result(p) == active[p.format]
Goto(label) == pc' = label

\* The export is over, having returned, thrown or died.
Over == pc' = "idle" /\ job' = NoJob

Fault == faults < MaxFaults /\ faults' = faults + 1

\* The results, the archive and the state, and whether one of some sheets holds k.
Placed == ({active[f] : f \in Format} \cup archive \cup {state}) \ {None}
Held(k, sheets) == \E s \in sheets : s.cells[k]

\* Removing the pending file also leaves the rollback file it names to itself.
RemovePending == pending' = None /\ rollback' = None

\* The result that the state describes is gone: moved aside, or purged.
ResultGone == state # None /\ Result(state.profile) = None

\* History: what no file in place holds is lost.
LoseOthers == typed' = [k \in Key |-> typed[k] /\ Held(k, Placed)]

-----------------------------------------------------------------------------
\* export() is called.
Export(discard) ==
  /\ pc = "idle"
  /\ Goto("recover")
  /\ job' = [NoJob EXCEPT !.discard = discard]
  /\ UNCHANGED <<inputs, files, typed, faults, mishaps>>

\* Mutant: an installed file must be as it was generated.
RecognizedUnedited(result) == result = pending.file

\* The file in place is the pending one, as installed or edited since.
Recognized(result) == result = pending.file \/ Readable(result, pending.doc)

\* recoverPendingExportState decides what became of the pending export: it was
\* not installed (do it now, or drop it if there still is a result in place),
\* it was installed (and perhaps edited since), or it was rolled back.
Recover ==
  /\ pc = "recover"
  /\ UNCHANGED <<inputs, archive, state, typed, faults, mishaps>>
  /\ IF pending = None
     THEN Goto("prepare") /\ UNCHANGED <<active, pending, temp, rollback, job>>
     ELSE LET target == pending.doc.profile
              result == Result(target)
          IN \/ /\ pending.retry
                /\ Goto("redo")
                /\ UNCHANGED <<active, pending, temp, rollback, job>>
             \/ /\ ~pending.retry /\ temp # None
                /\ \E f \in Format : active[f] # None
                /\ pending' = [pending EXCEPT !.retry = TRUE]
                /\ Goto("redo")
                /\ UNCHANGED <<active, temp, rollback, job>>
             \/ /\ ~pending.retry /\ temp # None
                /\ \A f \in Format : active[f] = None
                /\ active' = [active EXCEPT ![target.format] = temp]
                /\ temp' = None
                /\ job' = [job EXCEPT !.doc = pending.doc]
                /\ Goto("record")
                /\ UNCHANGED <<pending, rollback>>
             \/ /\ ~pending.retry /\ temp = None /\ result # None
                /\ IF Recognized(result)
                   THEN /\ job' = [job EXCEPT !.doc =
                                     IF result = pending.file THEN pending.doc
                                     ELSE WithEntries(pending.doc, result)]
                        /\ Goto("record")
                   ELSE Over
                /\ UNCHANGED <<active, pending, temp, rollback>>
             \/ /\ ~pending.retry /\ temp = None /\ result = None
                /\ IF rollback # None
                   THEN /\ active' = [active EXCEPT ![target.format] = rollback]
                        /\ rollback' = None
                        /\ Goto("forget")
                        /\ UNCHANGED job
                   ELSE Over /\ UNCHANGED <<active, rollback>>
                /\ UNCHANGED <<pending, temp>>

Redo ==
  /\ pc = "redo"
  /\ temp' = None
  /\ Goto("forget")
  /\ UNCHANGED <<inputs, active, archive, state, pending, rollback, job, typed,
                 faults, mishaps>>

\* Mutant: the state is written only if the file was edited.
RecordOnlyEdits ==
  /\ pc = "record"
  /\ state' = IF job.doc = pending.doc THEN state ELSE job.doc
  /\ Goto("dropRollback")
  /\ UNCHANGED <<inputs, active, archive, pending, temp, rollback, job, typed,
                 faults, mishaps>>

Record ==
  /\ pc = "record"
  /\ state' = job.doc
  /\ Goto("dropRollback")
  /\ UNCHANGED <<inputs, active, archive, pending, temp, rollback, job, typed,
                 faults, mishaps>>

DropRollback ==
  /\ pc = "dropRollback"
  /\ rollback' = None
  /\ Goto("forget")
  /\ UNCHANGED <<inputs, active, archive, state, pending, temp, job, typed,
                 faults, mishaps>>

\* The pending file is removed.  If the export was never installed but had moved
\* the previous result aside, or purged it, that result is lost with it: the
\* rollback file stays behind and is never read again.
Forget ==
  /\ pc = "forget"
  /\ RemovePending
  /\ IF pending.retry /\ ResultGone THEN LoseOthers ELSE UNCHANGED typed
  /\ Goto("prepare")
  /\ UNCHANGED <<inputs, active, archive, state, temp, job, faults, mishaps>>

-----------------------------------------------------------------------------
\* The state counts only if its fingerprint and format are those of the profile.
Compatible == state # None /\ state.profile = profile

\* History: whether the export must keep the last entry of k.  A purge carries
\* over what the result and its state hold of the movements that are left, and
\* nothing from a result in the other format.  Under other settings an export
\* starts anew: it archives the files, but what only the state remembers, of a
\* movement no longer exported, is gone.
Carried(k) ==
  LET Holds(sheets) == \E s \in sheets \ {None} : (typed[k] => s.cells[k])
      results == {active[f] : f \in Format}
  IN IF job.discard
     THEN Compatible /\ k \in movements /\ Holds({state, Result(profile)})
     ELSE Compatible \/ Holds(results \cup archive)

\* Entries are read back from the result the state describes, which must be
\* readable; the new file is generated beside it.  A purge keeps the entries of
\* the movements that are left.
Prepare ==
  /\ pc = "prepare"
  /\ LET previous == IF Compatible THEN state
                     ELSE [profile |-> profile, keys |-> {}, cells |-> Untyped]
         read == IF Compatible /\ Result(profile) # None
                 THEN WithEntries(previous, Result(profile)) ELSE previous
         kept == IF job.discard THEN movements ELSE Key
         doc == [profile |-> profile, keys |-> movements,
                 cells |-> [k \in Key |-> k \in kept /\ read.cells[k]]]
     IN IF Compatible /\ Result(profile) # None /\ ~Readable(Result(profile), state)
        THEN Over /\ UNCHANGED <<temp, typed>>
        ELSE /\ temp' = Generated(doc)
             /\ job' = [job EXCEPT !.doc = doc, !.before = active]
             /\ typed' = [k \in Key |-> Carried(k) /\ typed[k]]
             /\ Goto("announce")
  /\ UNCHANGED <<inputs, active, archive, state, pending, rollback, faults, mishaps>>

Announce ==
  /\ pc = "announce"
  /\ pending' = [doc |-> job.doc, file |-> temp, retry |-> FALSE]
  /\ job' = [job EXCEPT !.announced = TRUE]
  /\ Goto(IF job.discard \/ Compatible THEN "stage" ELSE "rotate")
  /\ UNCHANGED <<inputs, active, archive, state, temp, rollback, typed, faults, mishaps>>

\* The previous result is moved aside, or both results are purged, in any order.
Stage ==
  /\ pc = "stage"
  /\ \/ /\ ~job.discard
        /\ LET f == profile.format
           IN /\ active' = [active EXCEPT ![f] = None]
              /\ rollback' = active[f]
              /\ job' = [job EXCEPT !.staged = active[f] # None]
        /\ Goto("install")
     \/ /\ job.discard
        /\ IF \A f \in Format : active[f] = None
           THEN Goto("install") /\ UNCHANGED active
           ELSE /\ \E f \in Format : /\ active[f] # None
                                     /\ active' = [active EXCEPT ![f] = None]
                /\ UNCHANGED pc
        /\ UNCHANGED <<rollback, job>>
  /\ UNCHANGED <<inputs, archive, state, pending, temp, typed, faults, mishaps>>

\* rotateIncompatibleOutputs: results of another profile go to the archive, the
\* CSV file first.
Rotate ==
  /\ pc = "rotate"
  /\ IF \A f \in Format : active[f] = None
     THEN Goto("install") /\ UNCHANGED <<active, archive, job>>
     ELSE LET f == IF active["csv"] # None THEN "csv" ELSE "xlsx"
          IN /\ archive' = Entries(archive \cup {active[f]})
             /\ active' = [active EXCEPT ![f] = None]
             /\ job' = [job EXCEPT !.moved[f] = active[f]]
             /\ UNCHANGED pc
  /\ UNCHANGED <<inputs, state, pending, temp, rollback, typed, faults, mishaps>>

Install ==
  /\ pc = "install"
  /\ active' = [active EXCEPT ![profile.format] = temp]
  /\ temp' = None
  /\ job' = [job EXCEPT !.installed = TRUE]
  /\ Goto("commit")
  /\ UNCHANGED <<inputs, archive, state, pending, rollback, typed, faults, mishaps>>

Commit ==
  /\ pc = "commit"
  /\ state' = job.doc
  /\ Goto("tidyRollback")
  /\ UNCHANGED <<inputs, active, archive, pending, temp, rollback, job, typed,
                 faults, mishaps>>

TidyRollback ==
  /\ pc = "tidyRollback"
  /\ rollback' = IF job.staged THEN None ELSE rollback
  /\ Goto("tidyPending")
  /\ UNCHANGED <<inputs, active, archive, state, pending, temp, job, typed,
                 faults, mishaps>>

\* The export returns its path.
TidyPending ==
  /\ pc = "tidyPending"
  /\ RemovePending
  /\ Over
  /\ mishaps' = {}
  /\ UNCHANGED <<inputs, active, archive, state, temp, typed, faults>>

-----------------------------------------------------------------------------
\* The files a rotation moved, and those of them in back put back in place.
Moved == {f \in Format : job.moved[f] # None}

MoveBack(back) ==
  /\ active' = [f \in Format |-> IF f \in back THEN job.moved[f] ELSE active[f]]
  /\ archive' = archive \ {job.moved[f] : f \in back}

\* An operation fails before the commit: the export is rolled back, step by
\* step and each only tried.  Of a purge, one removal may fail and the other not;
\* nothing restores what is removed.
Fail ==
  /\ pc \in Writing
  /\ Goto("undoTemp")
  /\ \/ /\ pc # "rotate" /\ ~(pc = "stage" /\ job.discard)
        /\ Fault
        /\ job' = IF pc = "prepare" THEN [job EXCEPT !.before = active] ELSE job
        /\ UNCHANGED <<active, archive>>
     \/ /\ pc = "stage" /\ job.discard
        /\ Fault
        /\ \E left \in (SUBSET Format) \ {{}} :
             active' = [f \in Format |-> IF f \in left THEN active[f] ELSE None]
        /\ UNCHANGED <<archive, job>>
     \/ \* the rotation itself restores what it has moved, or fails to
        /\ pc = "rotate"
        /\ \E back \in SUBSET Moved :
             /\ faults' = faults + 1 + Cardinality(Moved \ back)
             /\ MoveBack(back)
        /\ faults' <= MaxFaults
        /\ job' = [job EXCEPT !.moved = NoJob.moved]
  /\ mishaps' = mishaps
       \cup (IF job.announced THEN {"rollback"} ELSE {})
       \cup (IF faults' > faults + 1 THEN {"scattered"} ELSE {})
  /\ UNCHANGED <<inputs, state, pending, temp, rollback, typed>>

\* One step of the rollback: done, or failed and remembered.
Undo(label, next, done, failed) ==
  /\ pc = label
  /\ Goto(next)
  /\ \/ done /\ UNCHANGED <<faults, job>>
     \/ Fault /\ job' = [job EXCEPT !.dirty = TRUE] /\ failed
  /\ UNCHANGED <<inputs, state, pending, typed, mishaps>>

UndoTemp ==
  /\ Undo("undoTemp", "undoInstall", temp' = None, UNCHANGED temp)
  /\ UNCHANGED <<active, archive, rollback>>

UndoInstall ==
  /\ Undo("undoInstall", "undoStage",
          active' = IF job.installed THEN [active EXCEPT ![profile.format] = None]
                    ELSE active,
          job.installed /\ UNCHANGED active)
  /\ UNCHANGED <<archive, temp, rollback>>

\* Mutant: the previous result is put back only if it had been replaced.
UndoStageIfInstalled ==
  /\ Undo("undoStage", "undoRotate",
          IF job.staged /\ job.installed
          THEN /\ active' = [active EXCEPT ![profile.format] = rollback]
               /\ rollback' = None
          ELSE UNCHANGED <<active, rollback>>,
          job.staged /\ UNCHANGED <<active, rollback>>)
  /\ UNCHANGED <<archive, temp>>

UndoStage ==
  /\ Undo("undoStage", "undoRotate",
          IF job.staged
          THEN /\ active' = [active EXCEPT ![profile.format] = rollback]
               /\ rollback' = None
          ELSE UNCHANGED <<active, rollback>>,
          job.staged /\ UNCHANGED <<active, rollback>>)
  /\ UNCHANGED <<archive, temp>>

UndoRotate ==
  /\ Undo("undoRotate", "undoPending", MoveBack(Moved),
          \E back \in SUBSET Moved : back # Moved /\ MoveBack(back))
  /\ UNCHANGED <<temp, rollback>>

\* export() throws.  If the result was purged, the pending file was the last to
\* hold the entries of the movements that are left.
UndoPending ==
  /\ pc = "undoPending"
  /\ \/ /\ job.announced /\ ~job.dirty
        /\ RemovePending
        /\ IF job.discard /\ ResultGone THEN LoseOthers ELSE UNCHANGED typed
        /\ UNCHANGED faults
     \/ /\ ~job.announced \/ job.dirty
        /\ UNCHANGED <<pending, rollback, typed, faults>>
     \/ /\ job.announced /\ ~job.dirty
        /\ Fault /\ UNCHANGED <<pending, rollback, typed>>
  /\ Over
  /\ UNCHANGED <<inputs, active, archive, state, temp, mishaps>>

\* An operation of the recovery or of the tidying fails: export() throws as it
\* is, committed or not.
Abort ==
  /\ pc \in Recovering \cup Tidying
  /\ Fault
  /\ Over
  /\ UNCHANGED <<inputs, files, typed, mishaps>>

Crash ==
  /\ pc # "idle"
  /\ Fault
  /\ Over
  /\ UNCHANGED <<inputs, files, typed, mishaps>>

-----------------------------------------------------------------------------
\* What a sheet holds for k is no longer the last entry.
Outdated(sheet, k) == IF sheet = None THEN None ELSE [sheet EXCEPT !.cells[k] = FALSE]

\* The user types into the custom column of a result between two exports: the
\* entry must not be lost.
Type(f, k) ==
  /\ pc = "idle"
  /\ active[f] # None
  /\ k \in active[f].keys
  /\ active' = [g \in Format |-> IF g = f THEN [active[f] EXCEPT !.cells[k] = TRUE]
                                ELSE Outdated(active[g], k)]
  /\ archive' = Entries({Outdated(sheet, k) : sheet \in archive})
  /\ state' = Outdated(state, k)
  /\ pending' = IF pending = None THEN None
                ELSE [pending EXCEPT !.doc = Outdated(@, k), !.file = Outdated(@, k)]
  /\ temp' = Outdated(temp, k)
  /\ rollback' = Outdated(rollback, k)
  /\ typed' = [typed EXCEPT ![k] = TRUE]
  /\ UNCHANGED <<inputs, pc, job, faults, mishaps>>

\* The user types while an export runs: that entry may be lost, which must not
\* lose the one before.
TypeMeanwhile(f, k) ==
  /\ pc # "idle"
  /\ active[f] # None
  /\ k \in active[f].keys
  /\ active' = [active EXCEPT ![f].cells[k] = TRUE]
  /\ UNCHANGED <<inputs, archive, state, pending, temp, rollback, pc, job, typed,
                 faults, mishaps>>

\* Movements come and go, and the settings are saved, between exports.
ChangeInputs ==
  /\ pc = "idle"
  /\ \/ \E ms \in SUBSET Key : movements' = ms /\ UNCHANGED profile
     \/ \E p \in Profile : profile' = p /\ UNCHANGED movements
  /\ UNCHANGED <<files, pc, job, typed, faults, mishaps>>

\* The user deletes a result, and what was typed into it.
Delete(f) ==
  /\ pc = "idle"
  /\ active[f] # None
  /\ active' = [active EXCEPT ![f] = None]
  /\ typed' = Untyped
  /\ mishaps' = IF pending = None THEN mishaps ELSE mishaps \cup {"removal"}
  /\ UNCHANGED <<inputs, archive, state, pending, temp, rollback, pc, job, faults>>

\* clearGeneratedExportFiles removes all traces of exports in this order, the
\* files of the export directory in any.  A removal that fails does not stop
\* the others; a crash leaves everything from some point on.
Outputs == {"csv", "xlsx", "temp", "rollback"}
Traces == Outputs \cup {"archive", "state", "pending"}

LeftByCrash ==
  {{"pending"}, {"state", "pending"}}
  \cup {left \cup {"archive", "state", "pending"} : left \in SUBSET Outputs}

Clear(left) ==
  /\ pc = "idle"
  /\ faults' = faults + IF left \in LeftByCrash THEN 1 ELSE Cardinality(left)
  /\ faults' <= MaxFaults
  /\ active' = [f \in Format |-> IF f \in left THEN active[f] ELSE None]
  /\ temp' = IF "temp" \in left THEN temp ELSE None
  /\ rollback' = IF "rollback" \in left /\ "pending" \in left THEN rollback ELSE None
  /\ archive' = IF "archive" \in left THEN archive ELSE {}
  /\ state' = IF "state" \in left THEN state ELSE None
  /\ pending' = IF "pending" \in left THEN pending ELSE None
  /\ mishaps' = IF pending' = None /\ state' = None THEN {}
                ELSE mishaps \cup IF pending = None THEN {} ELSE {"removal"}
  /\ typed' = Untyped
  /\ UNCHANGED <<inputs, pc, job>>

Step ==
  \/ Recover \/ Redo \/ Record \/ DropRollback \/ Forget
  \/ Prepare \/ Announce \/ Stage \/ Rotate \/ Install \/ Commit
  \/ TidyRollback \/ TidyPending
  \/ UndoTemp \/ UndoInstall \/ UndoStage \/ UndoRotate \/ UndoPending

Next ==
  \/ Step \/ Fail \/ Abort \/ Crash
  \/ \E discard \in BOOLEAN : Export(discard)
  \/ \E f \in Format : Delete(f) \/ \E k \in Key : Type(f, k) \/ TypeMeanwhile(f, k)
  \/ ChangeInputs
  \/ \E left \in SUBSET Traces : Clear(left)

Spec == Init /\ [][Next]_vars

\* Fairness: an export that runs goes on, and there is always another one.
FairSpec == Spec /\ WF_vars(Step) /\ WF_vars(Export(FALSE))

-----------------------------------------------------------------------------
Present(sheets) == sheets \ {None}

\* What the program still reads, or keeps for the user.
Reachable ==
  Placed \cup Present(IF pending = None THEN {} ELSE {temp, rollback, pending.doc})

\* What the user typed into a result between two exports is never lost, neither
\* by an export that succeeds nor by one that fails, is rolled back, dies at any
\* point or is recovered: a file that the program reads back or keeps holds it.
\* (typed forgets what the user removes; by Carried, what a purge is asked to
\* remove, all entries if it runs under other settings, and what other settings
\* leave out; and two losses that are not on purpose.  By UndoPending, a purge that
\* fails after it has removed the result loses the entries of the movements that
\* are left.  By Forget, so does a recovery that drops such a purge, or an export
\* that had moved the result aside: see InterruptedExportKeepsEntries.)
EntriesAreKept ==
  \A k \in Key : typed[k] => Held(k, Reachable)

\* docs/superpowers/specs/2026-09-11-export-custom-columns-design.md, "Goal":
\* subsequent exports preserve the previous value for the same movementKey.  So
\* does one that drops an interrupted export which was never installed, but had
\* moved the result aside.
InterruptedExportKeepsEntries ==
  [][Forget /\ rollback # None =>
       \A k \in Key : typed[k] => Held(k, Reachable)']_vars

\* The state describes the result in place whenever no export runs or is
\* pending, so that the next export does not refuse the user's file for its
\* header or its movement keys.  It fails if files are removed while an export
\* is pending.
StateDescribesResult ==
  ( /\ pc = "idle"
    /\ pending = None
    /\ "removal" \notin mishaps
    /\ state # None
    /\ Result(state.profile) # None )
  => Readable(Result(state.profile), state)

\* The same result: at most edited since.
Same(sheet, old) ==
  /\ sheet # None
  /\ sheet.profile = old.profile
  /\ sheet.keys = old.keys
  /\ \A k \in Key : old.cells[k] => sheet.cells[k]

Kept(before, after) ==
  \A f \in Format : before[f] # None => Same(after[f], before[f])

\* An export that fails and whose rollback meets no failure of its own puts
\* every result back where it was, whatever had been moved or replaced, and
\* leaves no new one.
RollbackRestores ==
  [][(pc = "undoPending" /\ ~job.dirty /\ ~job.discard /\ "scattered" \notin mishaps)
       => ( pc' = "idle"
            => /\ Kept(job.before, active')
               /\ \A f \in Format : job.before[f] = None => active'[f] = None )]_vars

\* An interrupted export is resolved by the exports that follow, unless it was
\* being rolled back or files were removed meanwhile.
PendingIsResolved == pending # None ~> (pending = None \/ mishaps # {})

\* docs/DESKTOP_APP.md, "Profile rotation": a failed new export does not replace
\* the active result.
FailedExportKeepsResult ==
  [][UndoPending \/ (Abort /\ pc \in Tidying) => Kept(job.before, active')]_vars
=============================================================================
