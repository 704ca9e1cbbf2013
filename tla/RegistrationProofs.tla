-------------------------- MODULE RegistrationProofs --------------------------
(***************************************************************************)
(* TLAPS proofs about Registration, for any registrars, directories and    *)
(* commits, any templates, and any number of launches and interferences.   *)
(***************************************************************************)
EXTENDS Registration, TLAPS

-----------------------------------------------------------------------------
(* The counters and the repository *)

Counters ==
  /\ head \in Commits /\ dirty \in BOOLEAN /\ shared \in BOOLEAN
  /\ started \in Nat /\ launched \in Nat /\ upsets \in Nat
  /\ started <= MaxRegisters /\ launched <= MaxLaunches /\ upsets <= MaxUpsets

\* Every step of a registrar but the first, and every step of a launch but the first and
\* the last, counts nothing; none touches the repository.
RegisterStep(r) ==
  \/ ReadHead(r) \/ AuthenticateStudy(r) \/ AuthenticatePlan(r) \/ TakeStageA(r)
  \/ ClearStaging(r) \/ WriteStudy(r) \/ ValidateStudy(r) \/ WriteProvenance(r)
  \/ WritePlan(r) \/ WritePrerequisite(r) \/ Commit(r)

LEMMA RegisterStepKeeps ==
  ASSUME NEW r, RegisterStep(r)
  PROVE  UNCHANGED <<repository, launcher, roots, history>>
<1>1. CASE ReadHead(r)
  BY <1>1 DEF ReadHead
<1>2. CASE AuthenticateStudy(r)
  BY <1>2 DEF AuthenticateStudy, ShowStudy, DiffHead
<1>3. CASE AuthenticatePlan(r)
  BY <1>3 DEF AuthenticatePlan, ShowPlan, DiffHead
<1>4. CASE TakeStageA(r)
  BY <1>4 DEF TakeStageA
<1>5. CASE ClearStaging(r)
  BY <1>5 DEF ClearStaging
<1>6. CASE WriteStudy(r)
  BY <1>6 DEF WriteStudy, Writes
<1>7. CASE ValidateStudy(r)
  BY <1>7 DEF ValidateStudy
<1>8. CASE WriteProvenance(r)
  BY <1>8 DEF WriteProvenance, Writes
<1>9. CASE WritePlan(r)
  BY <1>9 DEF WritePlan, Writes
<1>10. CASE WritePrerequisite(r)
  BY <1>10 DEF WritePrerequisite
<1>11. CASE Commit(r)
  BY <1>11 DEF Commit
<1>12. QED
  BY <1>1, <1>2, <1>3, <1>4, <1>5, <1>6, <1>7, <1>8, <1>9, <1>10, <1>11 DEF RegisterStep

LEMMA RegisterCounts ==
  ASSUME Counters, NEW r, Register(r)
  PROVE  Counters' /\ upsets' = upsets
<1>1. CASE RegisterStep(r)
  BY <1>1, RegisterStepKeeps DEF repository, history, Counters
<1>2. CASE \E d \in Dirs, drill \in BOOLEAN, root \in {None, StageA, Drill} :
             BeginRegister(r, d, drill, root)
  <2>1. /\ started < MaxRegisters /\ started' = started + 1 /\ shared' \in BOOLEAN
        /\ UNCHANGED <<repository, launched, done, upsets>>
    BY <1>2 DEF BeginRegister, Counters
  <2>2. QED
    BY <2>1, RegistrationAssumption DEF Counters, repository
<1>3. QED
  BY <1>1, <1>2 DEF Register, RegisterStep

LEMMA LaunchCounts ==
  ASSUME Counters, Launch
  PROVE  Counters' /\ upsets' = upsets /\ UNCHANGED <<files, registrar>>
<1>1. CASE \E d \in Dirs, resume \in BOOLEAN : OpenPlan(d, resume)
  <2>1. /\ launched < MaxLaunches /\ launched' = launched + 1
        /\ UNCHANGED <<repository, files, registrar, started, done, upsets, shared>>
    BY <1>1 DEF OpenPlan
  <2>2. QED
    BY <2>1, RegistrationAssumption DEF Counters, repository
<1>2. CASE ProveDerivation
  BY <1>2 DEF ProveDerivation, repository, history, Counters
<1>3. CASE ProveStageA
  BY <1>3 DEF ProveStageA, repository, history, Counters
<1>4. CASE ReadRoot
  BY <1>4 DEF ReadRoot, repository, history, Counters
<1>5. CASE ArchivePlan
  BY <1>5 DEF ArchivePlan, repository, history, Counters
<1>6. CASE ArchiveStudy
  BY <1>6 DEF ArchiveStudy, repository, history, Counters
<1>7. CASE ArchiveRecords
  BY <1>7 DEF ArchiveRecords, repository, history, Counters
<1>8. CASE WriteState
  BY <1>8 DEF WriteState, repository, history, Counters
<1>9. CASE FreezeViolated
  BY <1>9 DEF FreezeViolated, repository, history, Counters
<1>10. CASE \E passed \in BOOLEAN : Complete(passed)
  BY <1>10 DEF Complete, repository, Counters
<1>11. QED
  BY <1>1, <1>2, <1>3, <1>4, <1>5, <1>6, <1>7, <1>8, <1>9, <1>10 DEF Launch

LEMMA InterfereCounts ==
  ASSUME Counters, Interfere
  PROVE  /\ Counters'
         /\ upsets' # upsets \/ UNCHANGED <<files, registrar, launcher, roots>>
<1>1. Upset => upsets' \in Nat /\ upsets' <= MaxUpsets /\ upsets' # upsets
  BY RegistrationAssumption DEF Counters, Upset
<1>2. CASE Clean
  BY <1>2 DEF Clean, Counters, history
<1>3. CASE \E c \in Commits : MoveHead(c)
  BY <1>1, <1>3 DEF MoveHead, Counters, OtherHistory
<1>4. CASE Dirty
  BY <1>1, <1>4 DEF Dirty, Counters, OtherHistory
<1>5. CASE \E d \in Dirs : \E file \in DOMAIN NoFiles : EditFile(d, file)
  BY <1>1, <1>5 DEF EditFile, Counters, OtherHistory, repository
<1>6. CASE \E d, e \in Dirs : \E file \in DOMAIN NoFiles : CopyFile(d, e, file)
  BY <1>1, <1>6 DEF CopyFile, Counters, OtherHistory, repository
<1>7. CASE \E d \in Dirs : RemoveDirectory(d)
  BY <1>1, <1>7 DEF RemoveDirectory, Counters, OtherHistory, repository
<1>8. CASE \E t \in Registrations : MoveRootAway(t) \/ DamageRoot(t)
  BY <1>1, <1>8 DEF MoveRootAway, DamageRoot, Counters, OtherHistory, repository
<1>9. CASE (\E r \in Registrars : KillRegistrar(r)) \/ KillLauncher
  BY <1>1, <1>9 DEF KillRegistrar, KillLauncher, Counters, OtherHistory, repository
<1>10. QED
  BY <1>2, <1>3, <1>4, <1>5, <1>6, <1>7, <1>8, <1>9 DEF Interfere

LEMMA CountersInvariant == Spec => []Counters
<1>1. Init => Counters
  <2> SUFFICES ASSUME Init PROVE Counters
    OBVIOUS
  <2>1. /\ head = FirstCommit /\ dirty = FALSE /\ shared = FALSE
        /\ started = 0 /\ launched = 0 /\ upsets = 0
    BY DEF Init
  <2>2. FirstCommit \in Commits /\ MaxRegisters \in Nat /\ MaxLaunches \in Nat /\ MaxUpsets \in Nat
    BY RegistrationAssumption
  <2>3. dirty \in BOOLEAN /\ shared \in BOOLEAN
    BY <2>1, Zenon
  <2>4. /\ started \in Nat /\ launched \in Nat /\ upsets \in Nat
        /\ started <= MaxRegisters /\ launched <= MaxLaunches /\ upsets <= MaxUpsets
    BY <2>1, <2>2
  <2>5. QED
    BY <2>1, <2>2, <2>3, <2>4, Zenon DEF Counters
<1>2. Counters /\ [Next]_vars => Counters'
  <2> SUFFICES ASSUME Counters, [Next]_vars PROVE Counters'
    OBVIOUS
  <2>1. CASE UNCHANGED vars
    BY <2>1 DEF vars, Counters, repository, history
  <2>2. CASE Next
    BY <2>2, RegisterCounts, LaunchCounts, InterfereCounts DEF Next
  <2>3. QED
    BY <2>1, <2>2
<1>3. QED
  BY <1>1, <1>2, PTL DEF Spec

-----------------------------------------------------------------------------
(* The registrars and their files *)

\* A provenance record is what a registrar stamps.
Stamped(v) ==
  v = Provenance(v.id, v.sha, v.at, v.studyTemplate, v.planTemplate, v.study,
                 v.prerequisite, v.drill)

\* Edited or not, a plan is a record that names its registration, and the provenance it
\* was stamped with saw the same study.
PlanFields ==
  {"id", "sha", "template", "dir", "study", "provenance", "prerequisite", "edited"}

Planned(plan) ==
  /\ DOMAIN plan = PlanFields
  /\ plan.id \in Registrations
  /\ Stamped(plan.provenance) /\ plan.provenance.study = plan.study

Batch(b) == DOMAIN b = DOMAIN NoFiles /\ (b.plan # None => Planned(b.plan))

Working(p) ==
  /\ DOMAIN p = DOMAIN Blank
  /\ p.pc # "idle" => p.dir \in Dirs
  /\ p.pc = "recorded" => Stamped(p.provenance) /\ p.provenance.study = p.study

Batches(f) == DOMAIN f = Dirs /\ \A d \in Dirs : f[d] # None => Batch(f[d])

FilesInv ==
  /\ Batches(staging) /\ Batches(registered)
  /\ DOMAIN registrar = Registrars
  /\ \A r \in Registrars : Working(registrar[r])

LEMMA BlankWorks == Working(Blank)
  BY DEF Working, Blank

LEMMA GoesWorks ==
  ASSUME FilesInv, NEW r \in Registrars, NEW p, Working(p), Goes(r, p),
         Batches(staging)', Batches(registered)'
  PROVE  FilesInv'
  BY DEF FilesInv, Goes

LEMMA PutBatch ==
  ASSUME NEW f, Batches(f), NEW d \in Dirs, NEW b, b # None => Batch(b)
  PROVE  Batches([f EXCEPT ![d] = b])
  BY DEF Batches

LEMMA PutFile ==
  ASSUME NEW b, Batch(b), NEW file \in DOMAIN NoFiles, NEW content,
         file = "plan" /\ content # None => Planned(content)
  PROVE  Batch([b EXCEPT ![file] = content])
  BY DEF Batch, NoFiles

LEMMA FailsWorks ==
  ASSUME FilesInv, NEW r \in Registrars, registrar[r].pc # "idle", Fails(r) \/ FailsStaged(r)
  PROVE  FilesInv'
<1>1. Batches([staging EXCEPT ![registrar[r].dir] = None])
  BY PutBatch DEF FilesInv, Working
<1>2. Batches(staging)' /\ Batches(registered)'
  BY <1>1 DEF FilesInv, Fails, FailsStaged, files, Batches
<1>3. QED
  BY <1>2, BlankWorks DEF FilesInv, Fails, FailsStaged

\* A registrar reads or decides: what it holds changes, the files do not.
LEMMA ReadsWorks ==
  ASSUME FilesInv, NEW r \in Registrars, registrar[r].pc # "idle",
         NEW p, (Goes(r, p) /\ UNCHANGED files) \/ Fails(r) \/ FailsStaged(r),
         DOMAIN p = DOMAIN Blank, p.dir = registrar[r].dir, p.pc # "recorded"
  PROVE  FilesInv'
<1>1. CASE Fails(r) \/ FailsStaged(r)
  BY <1>1, FailsWorks
<1>2. CASE Goes(r, p) /\ UNCHANGED files
  <2>1. Working(p)
    BY DEF FilesInv, Working
  <2>2. Batches(staging)' /\ Batches(registered)'
    BY <1>2 DEF FilesInv, files, Batches
  <2>3. QED
    BY <1>2, <2>1, <2>2, GoesWorks
<1>3. QED
  BY <1>1, <1>2

LEMMA WritesWorks ==
  ASSUME FilesInv, NEW r \in Registrars, NEW from, from # "idle", NEW to,
         NEW file \in DOMAIN NoFiles, NEW content, Writes(r, from, to, file, content),
         Working(to), file = "plan" => Planned(content)
  PROVE  FilesInv'
<1> DEFINE d == registrar[r].dir
<1>1. d \in Dirs /\ registrar[r].pc # "idle"
  BY DEF FilesInv, Working, Writes
<1>2. CASE Staged(r)
  <2>1. Batch(staging[d])
    BY <1>1, <1>2 DEF Staged, FilesInv, Batches
  <2>2. Batch([staging[d] EXCEPT ![file] = content])
    BY <2>1, PutFile
  <2>3. Batches([staging EXCEPT ![d] = [staging[d] EXCEPT ![file] = content]])
    BY <1>1, <2>2, PutBatch DEF FilesInv
  <2>4. Batches(staging)' /\ Batches(registered)' /\ Goes(r, to)
    BY <1>2, <2>3 DEF Writes, FilesInv, Batches
  <2>5. QED
    BY <2>4, GoesWorks
<1>3. CASE ~Staged(r)
  BY <1>1, <1>3, FailsWorks DEF Writes
<1>4. QED
  BY <1>2, <1>3

LEMMA RegisterFiles ==
  ASSUME FilesInv, NEW r \in Registrars, Register(r)
  PROVE  FilesInv'
<1> DEFINE p == registrar[r]
<1>0. DOMAIN p = DOMAIN Blank /\ (p.pc # "idle" => p.dir \in Dirs)
  BY DEF FilesInv, Working
<1>1. CASE \E d \in Dirs, drill \in BOOLEAN, root \in {None, StageA, Drill} :
             BeginRegister(r, d, drill, root)
  <2>1. PICK d \in Dirs, drill \in BOOLEAN, root \in {None, StageA, Drill} :
          BeginRegister(r, d, drill, root)
    BY <1>1
  <2> DEFINE q == [Blank EXCEPT !.pc = "clean", !.dir = d, !.drill = drill, !.root = root,
                                !.at = started + 1]
  <2>2. Working(q)
    BY DEF Working, Blank
  <2>3. Goes(r, q) /\ UNCHANGED files
    BY <2>1 DEF BeginRegister
  <2>4. QED
    BY <2>2, <2>3, GoesWorks DEF files, FilesInv, Batches
<1>2. CASE ReadHead(r)
  <2> DEFINE q == [p EXCEPT !.pc = "headed", !.sha = head]
  <2>1. DOMAIN q = DOMAIN Blank /\ q.dir = p.dir /\ q.pc = "headed" /\ p.pc = "clean"
    BY <1>0, <1>2 DEF Blank, ReadHead
  <2>2. (Goes(r, q) /\ UNCHANGED files) \/ Fails(r)
    BY <1>2 DEF ReadHead
  <2>3. QED
    BY <2>1, <2>2, ReadsWorks
<1>3. CASE AuthenticateStudy(r)
  <2>1. CASE ShowStudy(r)
    <3> DEFINE q == [p EXCEPT !.pc = "study shown",
                              !.studyTemplate = StudyTemplate[head][Id(r)]]
    <3>1. DOMAIN q = DOMAIN Blank /\ q.dir = p.dir /\ q.pc = "study shown" /\ p.pc = "headed"
      BY <1>0, <2>1 DEF Blank, ShowStudy
    <3>2. Goes(r, q) /\ UNCHANGED files
      BY <2>1 DEF ShowStudy, files
    <3>3. QED
      BY <3>1, <3>2, ReadsWorks
  <2>2. CASE DiffHead(r, "study shown", "study source")
    <3> DEFINE q == [p EXCEPT !.pc = "study source"]
    <3>1. DOMAIN q = DOMAIN Blank /\ q.dir = p.dir /\ q.pc = "study source"
          /\ p.pc = "study shown"
      BY <1>0, <2>2 DEF Blank, DiffHead
    <3>2. (Goes(r, q) /\ UNCHANGED files) \/ Fails(r)
      BY <2>2 DEF DiffHead
    <3>3. QED
      BY <3>1, <3>2, ReadsWorks
  <2>3. QED
    BY <1>3, <2>1, <2>2 DEF AuthenticateStudy
<1>4. CASE AuthenticatePlan(r)
  <2>1. CASE ShowPlan(r)
    <3> DEFINE q == [p EXCEPT !.pc = "plan shown",
                              !.planTemplate = PlanTemplate[head][Id(r)]]
    <3>1. DOMAIN q = DOMAIN Blank /\ q.dir = p.dir /\ q.pc = "plan shown"
          /\ p.pc = "study source"
      BY <1>0, <2>1 DEF Blank, ShowPlan
    <3>2. Goes(r, q) /\ UNCHANGED files
      BY <2>1 DEF ShowPlan, files
    <3>3. QED
      BY <3>1, <3>2, ReadsWorks
  <2>2. CASE DiffHead(r, "plan shown", "sources")
    <3> DEFINE q == [p EXCEPT !.pc = "sources"]
    <3>1. DOMAIN q = DOMAIN Blank /\ q.dir = p.dir /\ q.pc = "sources" /\ p.pc = "plan shown"
      BY <1>0, <2>2 DEF Blank, DiffHead
    <3>2. (Goes(r, q) /\ UNCHANGED files) \/ Fails(r)
      BY <2>2 DEF DiffHead
    <3>3. QED
      BY <3>1, <3>2, ReadsWorks
  <2>3. QED
    BY <1>4, <2>1, <2>2 DEF AuthenticatePlan
<1>5. CASE TakeStageA(r)
  <2> DEFINE q1 == [p EXCEPT !.pc = "proven"]
             q2 == [p EXCEPT !.pc = "proven", !.prerequisite = BuiltRecord(p.root)]
  <2>1. /\ DOMAIN q1 = DOMAIN Blank /\ q1.dir = p.dir /\ q1.pc = "proven"
        /\ DOMAIN q2 = DOMAIN Blank /\ q2.dir = p.dir /\ q2.pc = "proven"
        /\ p.pc = "sources"
    BY <1>0, <1>5 DEF Blank, TakeStageA
  <2>2. \/ Goes(r, q1) /\ UNCHANGED files
        \/ Goes(r, q2) /\ UNCHANGED files
        \/ Fails(r)
    BY <1>5 DEF TakeStageA
  <2>3. QED
    BY <2>1, <2>2, ReadsWorks
<1>6. CASE ClearStaging(r)
  <2> DEFINE q == [p EXCEPT !.pc = "staged"]
  <2>1. DOMAIN q = DOMAIN Blank /\ q.dir = p.dir /\ q.pc = "staged" /\ p.pc = "proven"
    BY <1>0, <1>6 DEF Blank, ClearStaging
  <2>2. Working(q) /\ Goes(r, q)
    BY <1>0, <1>6, <2>1 DEF Working, ClearStaging
  <2>3. Batch(NoFiles)
    BY DEF Batch, NoFiles
  <2>4. Batches([staging EXCEPT ![p.dir] = NoFiles])
    BY <1>0, <2>1, <2>3, PutBatch DEF FilesInv
  <2>5. Batches(staging)' /\ Batches(registered)'
    BY <1>6, <2>4 DEF ClearStaging, FilesInv, Batches
  <2>6. QED
    BY <2>2, <2>5, GoesWorks
<1>7. CASE WriteStudy(r)
  <2> DEFINE q == [p EXCEPT !.pc = "study written"]
             text == StudyFrom(Id(r), p.sha, p.studyTemplate, p.prerequisite)
  <2>1. Writes(r, "staged", q, "study", text)
    BY <1>7 DEF WriteStudy
  <2>2. Working(q)
    BY <1>0, <2>1 DEF Working, Blank, Writes
  <2>3. "study" \in DOMAIN NoFiles
    BY DEF NoFiles
  <2>4. QED
    BY <2>1, <2>2, <2>3, WritesWorks
<1>8. CASE ValidateStudy(r)
  <2> DEFINE q == [p EXCEPT !.pc = "validated", !.study = staging[p.dir].study]
  <2>1. DOMAIN q = DOMAIN Blank /\ q.dir = p.dir /\ q.pc = "validated" /\ p.pc = "study written"
    BY <1>0, <1>8 DEF Blank, ValidateStudy
  <2>2. (Goes(r, q) /\ UNCHANGED files) \/ FailsStaged(r)
    BY <1>8 DEF ValidateStudy
  <2>3. QED
    BY <2>1, <2>2, ReadsWorks
<1>9. CASE WriteProvenance(r)
  <2> DEFINE q == [p EXCEPT !.pc = "recorded", !.provenance = ProvenanceOf(r)]
  <2>1. Writes(r, "validated", q, "provenance", ProvenanceOf(r))
    BY <1>9 DEF WriteProvenance
  <2>2. /\ DOMAIN q = DOMAIN Blank /\ q.dir = p.dir /\ q.study = p.study
        /\ q.provenance = ProvenanceOf(r) /\ p.pc = "validated"
    BY <1>0, <2>1 DEF Blank, Writes
  <2>3. Stamped(ProvenanceOf(r)) /\ ProvenanceOf(r).study = p.study
    BY DEF ProvenanceOf, Stamped, Provenance
  <2>4. Working(q)
    BY <1>0, <2>2, <2>3 DEF Working
  <2>5. "provenance" \in DOMAIN NoFiles
    BY DEF NoFiles
  <2>6. QED
    BY <2>1, <2>4, <2>5, WritesWorks
<1>10. CASE WritePlan(r)
  <2> DEFINE q == [p EXCEPT !.pc = "planned"]
             text == Plan(Id(r), p.sha, p.planTemplate, p.dir, p.study, p.provenance,
                          p.prerequisite)
  <2>1. Writes(r, "recorded", q, "plan", text)
    BY <1>10 DEF WritePlan
  <2>2. /\ p.pc = "recorded" /\ p.dir \in Dirs
        /\ Stamped(p.provenance) /\ p.provenance.study = p.study
    BY <2>1 DEF Writes, FilesInv, Working
  <2>3. Working(q)
    BY <1>0, <2>2 DEF Working, Blank
  <2>4. Id(r) \in Registrations
    BY <2>2, RegistrationAssumption DEF Id
  <2>5. Planned(text)
    BY <2>2, <2>4 DEF Planned, Plan, PlanFields
  <2>6. "plan" \in DOMAIN NoFiles
    BY DEF NoFiles
  <2>7. QED
    BY <2>1, <2>3, <2>5, <2>6, WritesWorks
<1>11. CASE WritePrerequisite(r)
  <2> DEFINE q == [p EXCEPT !.pc = "complete"]
             text == IF p.prerequisite = None THEN staging[p.dir].prerequisite
                     ELSE p.prerequisite
  <2>1. p.pc = "planned"
    BY <1>11 DEF WritePrerequisite
  <2>2. CASE Staged(r) /\ staging[p.dir].plan # None
    <3>1. Batch(staging[p.dir])
      BY <1>0, <2>1, <2>2 DEF Staged, FilesInv, Batches
    <3>2. "prerequisite" \in DOMAIN NoFiles
      BY DEF NoFiles
    <3>3. Batch([staging[p.dir] EXCEPT !["prerequisite"] = text])
      BY <3>1, <3>2, PutFile
    <3>4. Batches([staging EXCEPT ![p.dir] = [staging[p.dir] EXCEPT !.prerequisite = text]])
      BY <1>0, <2>1, <3>3, PutBatch DEF FilesInv
    <3>5. Batches(staging)' /\ Batches(registered)' /\ Goes(r, q)
      BY <1>11, <2>2, <3>4 DEF WritePrerequisite, FilesInv, Batches
    <3>6. Working(q)
      BY <1>0, <2>1 DEF Working, Blank
    <3>7. QED
      BY <3>5, <3>6, GoesWorks
  <2>3. CASE ~(Staged(r) /\ staging[p.dir].plan # None)
    BY <1>11, <2>1, <2>3, FailsWorks DEF WritePrerequisite
  <2>4. QED
    BY <2>2, <2>3
<1>12. CASE Commit(r)
  <2>1. p.pc = "complete"
    BY <1>12 DEF Commit
  <2>2. CASE Staged(r) /\ Vacant(p.dir)
    <3>1. Batch(staging[p.dir])
      BY <1>0, <2>1, <2>2 DEF Staged, FilesInv, Batches
    <3>2. /\ Batches([registered EXCEPT ![p.dir] = staging[p.dir]])
          /\ Batches([staging EXCEPT ![p.dir] = None])
      BY <1>0, <2>1, <3>1, PutBatch DEF FilesInv
    <3>3. Batches(staging)' /\ Batches(registered)' /\ Goes(r, Blank)
      BY <1>12, <2>2, <3>2 DEF Commit, Batches
    <3>4. QED
      BY <3>3, BlankWorks, GoesWorks
  <2>3. CASE ~(Staged(r) /\ Vacant(p.dir))
    BY <1>12, <2>1, <2>3, FailsWorks DEF Commit
  <2>4. QED
    BY <2>2, <2>3
<1>13. QED
  BY <1>1, <1>2, <1>3, <1>4, <1>5, <1>6, <1>7, <1>8, <1>9, <1>10, <1>11, <1>12 DEF Register

LEMMA InterfereFiles ==
  ASSUME FilesInv, Interfere
  PROVE  FilesInv'
<1>1. CASE UNCHANGED <<files, registrar>>
  BY <1>1 DEF FilesInv, files, Batches
<1>2. ASSUME Batches(registered)', UNCHANGED <<staging, registrar>> PROVE FilesInv'
  BY <1>2 DEF FilesInv, Batches
<1>3. CASE \E d \in Dirs : \E file \in DOMAIN NoFiles : EditFile(d, file)
  <2>1. PICK d \in Dirs, file \in DOMAIN NoFiles : EditFile(d, file)
    BY <1>3
  <2> DEFINE text == [registered[d][file] EXCEPT !.edited = TRUE]
  <2>2. /\ UNCHANGED <<staging, registrar>>
        /\ registered' = [registered EXCEPT ![d] = [registered[d] EXCEPT ![file] = text]]
        /\ registered[d] # None /\ registered[d][file] # None
    BY <2>1 DEF EditFile, Has
  <2>3. Batch(registered[d])
    BY <2>2 DEF FilesInv, Batches
  <2>4. file = "plan" => Planned(text)
    BY <2>2, <2>3 DEF Batch, Planned, PlanFields
  <2>5. Batch([registered[d] EXCEPT ![file] = text])
    BY <2>3, <2>4, PutFile
  <2>6. Batches(registered)'
    BY <2>2, <2>5, PutBatch DEF FilesInv, Batches
  <2>7. QED
    BY <1>2, <2>2, <2>6
<1>4. CASE \E d, e \in Dirs : \E file \in DOMAIN NoFiles : CopyFile(d, e, file)
  <2>1. PICK d \in Dirs, e \in Dirs, file \in DOMAIN NoFiles : CopyFile(d, e, file)
    BY <1>4
  <2> DEFINE text == registered[d][file]
  <2>2. /\ UNCHANGED <<staging, registrar>>
        /\ registered' = [registered EXCEPT ![e] = [registered[e] EXCEPT ![file] = text]]
        /\ registered[d] # None /\ registered[e] # None /\ text # None
    BY <2>1 DEF CopyFile, Has
  <2>3. Batch(registered[d]) /\ Batch(registered[e])
    BY <2>2 DEF FilesInv, Batches
  <2>4. Batch([registered[e] EXCEPT ![file] = text])
    BY <2>2, <2>3, PutFile DEF Batch
  <2>5. Batches(registered)'
    BY <2>2, <2>4, PutBatch DEF FilesInv, Batches
  <2>6. QED
    BY <1>2, <2>2, <2>5
<1>5. CASE \E d \in Dirs : RemoveDirectory(d)
  <2>1. Batches(registered)' /\ UNCHANGED <<staging, registrar>>
    BY <1>5, PutBatch DEF RemoveDirectory, FilesInv, Batches
  <2>2. QED
    BY <1>2, <2>1
<1>6. CASE \E r \in Registrars : KillRegistrar(r)
  <2>1. PICK r \in Registrars : Goes(r, Blank) /\ UNCHANGED files
    BY <1>6 DEF KillRegistrar, Goes
  <2>2. QED
    BY <2>1, BlankWorks, GoesWorks DEF files, FilesInv, Batches
<1>7. CASE (\E c \in Commits : MoveHead(c)) \/ Dirty \/ Clean \/ KillLauncher
  BY <1>1, <1>7 DEF MoveHead, Dirty, Clean, KillLauncher
<1>8. CASE \E t \in Registrations : MoveRootAway(t) \/ DamageRoot(t)
  BY <1>1, <1>8 DEF MoveRootAway, DamageRoot
<1>9. QED
  BY <1>3, <1>4, <1>5, <1>6, <1>7, <1>8 DEF Interfere

LEMMA FilesInvariant == Spec => [](Counters /\ FilesInv)
<1>1. Init => FilesInv
  BY BlankWorks DEF Init, FilesInv, Batches
<1>2. FilesInv /\ Counters /\ [Next]_vars => FilesInv'
  <2> SUFFICES ASSUME FilesInv, Counters, [Next]_vars PROVE FilesInv'
    OBVIOUS
  <2>1. CASE UNCHANGED vars
    BY <2>1 DEF vars, files, FilesInv, Batches
  <2>2. CASE \E r \in Registrars : Register(r)
    BY <2>2, RegisterFiles
  <2>3. CASE Launch
    BY <2>3, LaunchCounts DEF files, FilesInv, Batches
  <2>4. CASE Interfere
    BY <2>4, InterfereFiles
  <2>5. QED
    BY <2>1, <2>2, <2>3, <2>4 DEF Next
<1>3. QED
  BY <1>1, <1>2, CountersInvariant, PTL DEF Spec

-----------------------------------------------------------------------------
(* Registration is create-once *)

\* A registrar adds a directory where there is none, and changes no other.
LEMMA RegisterAddsOnly ==
  ASSUME FilesInv, NEW r, Register(r), NEW d \in Dirs, registered[d] # None
  PROVE  registered'[d] = registered[d]
<1>1. CASE Commit(r)
  BY <1>1 DEF Commit, Vacant, FailsStaged, FilesInv, Batches
<1>2. CASE \E e \in Dirs, drill \in BOOLEAN, root \in {None, StageA, Drill} :
             BeginRegister(r, e, drill, root)
  BY <1>2 DEF BeginRegister, files
<1>3. CASE ReadHead(r)
  BY <1>3 DEF ReadHead, Fails, files
<1>4. CASE AuthenticateStudy(r)
  BY <1>4 DEF AuthenticateStudy, ShowStudy, DiffHead, Fails, files
<1>5. CASE AuthenticatePlan(r)
  BY <1>5 DEF AuthenticatePlan, ShowPlan, DiffHead, Fails, files
<1>6. CASE TakeStageA(r)
  BY <1>6 DEF TakeStageA, Fails, files
<1>7. CASE ClearStaging(r)
  BY <1>7 DEF ClearStaging
<1>8. CASE WriteStudy(r) \/ WriteProvenance(r) \/ WritePlan(r)
  BY <1>8 DEF WriteStudy, WriteProvenance, WritePlan, Writes, FailsStaged
<1>9. CASE ValidateStudy(r)
  BY <1>9 DEF ValidateStudy, FailsStaged, files
<1>10. CASE WritePrerequisite(r)
  BY <1>10 DEF WritePrerequisite, FailsStaged
<1>11. QED
  BY <1>1, <1>2, <1>3, <1>4, <1>5, <1>6, <1>7, <1>8, <1>9, <1>10 DEF Register

\* RegistrationIsFinal: whichever registrars race for an output directory, crash or leave
\* a staging sibling behind, a directory that holds a registration changes only by an
\* operator's interference (register.ts, the rename of the staged directory).
THEOREM CreateOnce == Spec => RegistrationIsFinal
<1>1. Counters /\ FilesInv /\ [Next]_vars =>
        [\A d \in Dirs : registered[d] # None =>
           registered'[d] = registered[d] \/ upsets' # upsets]_vars
  <2> SUFFICES ASSUME Counters, FilesInv, [Next]_vars, NEW d \in Dirs, registered[d] # None
               PROVE  registered'[d] = registered[d] \/ upsets' # upsets
    OBVIOUS
  <2>1. CASE UNCHANGED vars
    BY <2>1 DEF vars, files
  <2>2. CASE \E r \in Registrars : Register(r)
    BY <2>2, RegisterAddsOnly
  <2>3. CASE Launch
    BY <2>3, LaunchCounts DEF files
  <2>4. CASE Interfere
    BY <2>4, InterfereCounts DEF files
  <2>5. QED
    BY <2>1, <2>2, <2>3, <2>4 DEF Next
<1>2. QED
  BY <1>1, FilesInvariant, PTL DEF Spec, RegistrationIsFinal

-----------------------------------------------------------------------------
(* What is launched is one registration *)

ControlFields == {"plan", "sha", "edition", "status", "provenance", "prerequisite",
                  "execution", "aggregate", "archive"}

\* The records of one registration, whoever holds them.
OneRegistration(id, plan, study, v, prerequisite) ==
  /\ plan = Plan(id, plan.sha, PlanTemplate[plan.sha][id], plan.dir, study, v, prerequisite)
  /\ study = Study(id, plan.sha, prerequisite)
  /\ <<study.template, plan.template>> \in Implements
  /\ v = Provenance(id, plan.sha, v.at, StudyTemplate[plan.sha][id],
                    PlanTemplate[plan.sha][id], study, prerequisite, v.drill)

\* What LaunchIsSound says of a root, and that its control state is one.
Kept(root, id) ==
  /\ DOMAIN root = DOMAIN NoRoot /\ DOMAIN root.state = ControlFields
  /\ root.plan = root.state.plan /\ root.study # None
  /\ root.state.sha = root.plan.sha
  /\ OneRegistration(id, root.plan, root.study, root.state.provenance,
                     root.state.prerequisite)

\* Another root that differs only in what Kept does not look at.
Like(root, other) ==
  /\ DOMAIN other = DOMAIN root /\ DOMAIN other.state = DOMAIN root.state
  /\ other.plan = root.plan /\ other.study = root.study
  /\ other.state.plan = root.state.plan /\ other.state.sha = root.state.sha
  /\ other.state.provenance = root.state.provenance
  /\ other.state.prerequisite = root.state.prerequisite

RootsInv ==
  /\ DOMAIN roots = Roots
  /\ \A t \in Roots : DOMAIN roots[t] = DOMAIN NoRoot
  /\ roots[Drill].plan = roots[Drill].state.plan
  /\ \A id \in Registrations : roots[id].state # None => Kept(roots[id], id)

\* What the launcher has established when it stands at a point, in the order it does.
AtOpen ==
  /\ Planned(launcher.plan) /\ launcher.plan # None /\ launcher.plan.study # None
  /\ launcher.head \in Commits /\ launcher.plan.sha = launcher.head
  /\ <<launcher.plan.study.template, launcher.plan.template>> \in Implements
AtDerived == OneRegistration(launcher.plan.id, launcher.plan, launcher.plan.study,
                             launcher.provenance, launcher.plan.prerequisite)
AtProven == launcher.prerequisite = launcher.plan.prerequisite
AtReady == IF launcher.resume
           THEN Kept(Root, launcher.plan.id) /\ Root.state.plan = launcher.plan
           ELSE Root.state = None
AtRunning == Kept(Root, launcher.plan.id)

LauncherInv ==
  /\ DOMAIN launcher = DOMAIN Idle
  /\ launcher.pc \in {"idle", "open", "derived", "proven", "ready", "plan archived",
                      "study archived", "archived", "running"}
  /\ launcher.pc # "idle" => AtOpen
  /\ launcher.pc \notin {"idle", "open"} => AtDerived
  /\ launcher.pc \notin {"idle", "open", "derived"} => AtProven
  /\ launcher.pc \in {"ready", "plan archived", "study archived", "archived"} => AtReady
  /\ launcher.pc \in {"plan archived", "study archived", "archived"} =>
       Root.plan = launcher.plan
  /\ launcher.pc \in {"study archived", "archived"} => Root.study = launcher.plan.study
  /\ launcher.pc = "running" => AtRunning

LEMMA LikeKept ==
  ASSUME NEW root, NEW other, NEW id, Kept(root, id), Like(root, other)
  PROVE  Kept(other, id)
  BY DEF Kept, Like

LEMMA IdleInv == DOMAIN launcher = DOMAIN Idle /\ launcher.pc = "idle" => LauncherInv
  BY DEF LauncherInv

\* A refusal leaves the launcher idle.
LEMMA RefusesInv ==
  ASSUME NEW why, Refuses(why)
  PROVE  LauncherInv'
<1>1. DOMAIN launcher' = DOMAIN Idle /\ launcher'.pc = "idle"
  BY DEF Refuses, Idle
<1>2. QED
  BY <1>1 DEF LauncherInv

\* One file of a root, and the root as it may be altered by hand, completed or failed.
LEMMA StateLike ==
  ASSUME NEW root, DOMAIN root = DOMAIN NoRoot, DOMAIN root.state = ControlFields,
         NEW field \in ControlFields \ {"plan", "sha", "provenance", "prerequisite"},
         NEW x
  PROVE  Like(root, [root EXCEPT !.state = [root.state EXCEPT ![field] = x]])
  BY DEF Like, NoRoot, ControlFields

LEMMA FileLike ==
  ASSUME NEW root, DOMAIN root = DOMAIN NoRoot,
         NEW file \in DOMAIN NoRoot \ {"plan", "study", "state"}, NEW x
  PROVE  Like(root, [root EXCEPT ![file] = x])
  BY DEF Like, NoRoot

LEMMA BothLike ==
  ASSUME NEW root, DOMAIN root.state = ControlFields, NEW other,
         NEW field \in ControlFields \ {"plan", "sha", "provenance", "prerequisite"}, NEW y,
         DOMAIN other = DOMAIN root, other.plan = root.plan, other.study = root.study,
         other.state = [root.state EXCEPT ![field] = y]
  PROVE  Like(root, other)
  BY DEF Like, ControlFields

LEMMA LikeTransitive ==
  ASSUME NEW r1, NEW r2, NEW r3, Like(r1, r2), Like(r2, r3)
  PROVE  Like(r1, r3)
  BY DEF Like

LEMMA AlteredLike ==
  ASSUME NEW root, DOMAIN root = DOMAIN NoRoot, DOMAIN root.state = ControlFields,
         NEW other \in Alterations(root)
  PROVE  Like(root, other)
<1>1. /\ "execution" \in ControlFields \ {"plan", "sha", "provenance", "prerequisite"}
      /\ "aggregate" \in ControlFields \ {"plan", "sha", "provenance", "prerequisite"}
  BY DEF ControlFields
<1>2. /\ "provenance" \in DOMAIN NoRoot \ {"plan", "study", "state"}
      /\ "execution" \in DOMAIN NoRoot \ {"plan", "study", "state"}
      /\ "manifest" \in DOMAIN NoRoot \ {"plan", "study", "state"}
      /\ "inventory" \in DOMAIN NoRoot \ {"plan", "study", "state"}
      /\ "archive" \in DOMAIN NoRoot \ {"plan", "study", "state"}
  BY DEF NoRoot
<1>3. other = RecordAltered(root) \/ other \in EvidenceAltered(root)
  BY DEF Alterations
<1>4. CASE other = RecordAltered(root)
  BY <1>2, <1>4, FileLike DEF RecordAltered
<1>5. CASE other = [root EXCEPT !.execution.valid = FALSE]
  BY <1>2, <1>5, FileLike
<1>6. CASE other = [root EXCEPT !.execution.edition = 0]
  BY <1>2, <1>6, FileLike
<1>7. CASE other = [root EXCEPT !.state.execution.passed = ~@]
  BY <1>1, <1>7, StateLike
<1>8. CASE other = [root EXCEPT !.state.execution.seal = root.execution]
  BY <1>1, <1>8, StateLike
<1>9. CASE other = [root EXCEPT !.manifest.execution.passed = ~@]
  BY <1>2, <1>9, FileLike
<1>10. CASE other = [root EXCEPT !.inventory.files = Tree(root)]
  BY <1>2, <1>10, FileLike
<1>11. CASE other = [root EXCEPT !.inventory = Inventory(root)]
  BY <1>2, <1>11, FileLike
<1>12. CASE other = [root EXCEPT !.state.aggregate = root.inventory.aggregate]
  BY <1>1, <1>12, StateLike
<1>13. CASE other = [root EXCEPT !.archive = Zip(root)]
  BY <1>2, <1>13, FileLike
<1>14. QED
  BY <1>3, <1>4, <1>5, <1>6, <1>7, <1>8, <1>9, <1>10, <1>11, <1>12, <1>13
     DEF EvidenceAltered

\* What a run adds to its root, one file after another.
LEMMA ExecutionLike ==
  ASSUME NEW root, DOMAIN root = DOMAIN NoRoot, DOMAIN root.state = ControlFields, NEW passed
  PROVE  Like(root, WithExecution(root, passed))
<1> DEFINE other == WithExecution(root, passed)
           y == sealExecution(Executed(root.state.edition), passed)
<1>1. "execution" \in ControlFields \ {"plan", "sha", "provenance", "prerequisite"}
  BY DEF ControlFields
<1>2. /\ DOMAIN other = DOMAIN root /\ other.plan = root.plan /\ other.study = root.study
      /\ other.state = [root.state EXCEPT !["execution"] = y]
  BY DEF WithExecution, NoRoot
<1>3. QED
  BY <1>1, <1>2, BothLike

LEMMA ManifestLike ==
  ASSUME NEW root, DOMAIN root = DOMAIN NoRoot, DOMAIN root.state = ControlFields
  PROVE  Like(root, WithManifest(root))
  BY FileLike DEF WithManifest, NoRoot

LEMMA InventoryLike ==
  ASSUME NEW root, DOMAIN root = DOMAIN NoRoot, DOMAIN root.state = ControlFields
  PROVE  Like(root, WithInventory(root))
<1> DEFINE other == WithInventory(root)
           y == Inventory(root).aggregate
<1>1. "aggregate" \in ControlFields \ {"plan", "sha", "provenance", "prerequisite"}
  BY DEF ControlFields
<1>2. /\ DOMAIN other = DOMAIN root /\ other.plan = root.plan /\ other.study = root.study
      /\ other.state = [root.state EXCEPT !["aggregate"] = y]
  BY DEF WithInventory, NoRoot
<1>3. QED
  BY <1>1, <1>2, BothLike

LEMMA ArchiveLike ==
  ASSUME NEW root, DOMAIN root = DOMAIN NoRoot, DOMAIN root.state = ControlFields
  PROVE  Like(root, WithArchive(root))
<1> DEFINE other == WithArchive(root)
           y == Zip(root).sha
<1>1. "archive" \in ControlFields \ {"plan", "sha", "provenance", "prerequisite"}
  BY DEF ControlFields
<1>2. /\ DOMAIN other = DOMAIN root /\ other.plan = root.plan /\ other.study = root.study
      /\ other.state = [root.state EXCEPT !["archive"] = y]
  BY DEF WithArchive, NoRoot
<1>3. QED
  BY <1>1, <1>2, BothLike

LEMMA CompletedLike ==
  ASSUME NEW root, DOMAIN root = DOMAIN NoRoot, DOMAIN root.state = ControlFields,
         NEW passed
  PROVE  Like(root, Completed(root, passed))
<1> DEFINE a == WithExecution(root, passed)
           b == WithManifest(a)
           c == WithInventory(b)
           d == WithArchive(c)
           whole(r) == DOMAIN r = DOMAIN NoRoot /\ DOMAIN r.state = ControlFields
<1>1. Like(root, a) /\ whole(a)
  BY ExecutionLike DEF Like
<1>2. Like(a, b) /\ whole(b)
  BY <1>1, ManifestLike DEF Like
<1>3. Like(b, c) /\ whole(c)
  BY <1>2, InventoryLike DEF Like
<1>4. Like(c, d) /\ whole(d)
  BY <1>3, ArchiveLike DEF Like
<1>5. Like(d, [d EXCEPT !.state = [d.state EXCEPT !["status"] = "completed"]])
  BY <1>4, StateLike DEF ControlFields
<1>6. Completed(root, passed) = [d EXCEPT !.state = [d.state EXCEPT !["status"] = "completed"]]
  BY DEF Completed
<1>7. Like(root, d)
  BY <1>1, <1>2, <1>3, <1>4, LikeTransitive
<1>8. QED
  BY <1>5, <1>6, <1>7, LikeTransitive

-----------------------------------------------------------------------------
(* The steps of a launch *)

\* A step that writes no root, and one that writes the launcher's own.
LEMMA SameRoots ==
  ASSUME RootsInv, UNCHANGED roots
  PROVE  RootsInv'
  BY DEF RootsInv

LEMMA OwnRoot ==
  ASSUME RootsInv, NEW id \in Registrations, NEW root,
         roots' = [roots EXCEPT ![id] = root],
         DOMAIN root = DOMAIN NoRoot, root.state # None => Kept(root, id)
  PROVE  RootsInv' /\ roots'[id] = root
<1>1. id \in Roots /\ id # Drill
  BY DEF Registrations, Roots, StageA, Calibration, Drill
<1>2. Drill \in Roots /\ Registrations \subseteq Roots
  BY DEF Roots
<1>3. /\ DOMAIN roots' = Roots /\ roots'[id] = root
      /\ \A t \in Roots : t # id => roots'[t] = roots[t]
  BY <1>1 DEF RootsInv
<1>4. QED
  BY <1>1, <1>2, <1>3 DEF RootsInv

LEMMA OpenPlanKeeps ==
  ASSUME FilesInv, Counters, RootsInv, LauncherInv,
         NEW d \in Dirs, NEW resume \in BOOLEAN, OpenPlan(d, resume)
  PROVE  RootsInv' /\ LauncherInv'
<1> DEFINE plan == registered[d].plan
           l == [Idle EXCEPT !.pc = "open", !.resume = resume, !.dir = d, !.plan = plan,
                             !.head = head]
<1>1. RootsInv'
  BY SameRoots DEF OpenPlan
<1>2. CASE Refuses("preflight")
  BY <1>1, <1>2, RefusesInv
<1>3. CASE ~Refuses("preflight")
  <2>1. /\ Has(d, "plan") /\ Formal(plan) /\ StudyBound(plan) /\ Reconciled(plan.study, plan)
        /\ plan.sha = head /\ launcher' = l
    BY <1>3 DEF OpenPlan, Advances
  <2>2. plan # None /\ Planned(plan)
    BY <2>1 DEF Has, FilesInv, Batches, Batch
  <2>3. plan.study # None /\ <<plan.study.template, plan.template>> \in Implements
    BY <2>1 DEF StudyBound, Has, Reconciled
  <2>4. /\ DOMAIN l = DOMAIN Idle /\ l.pc = "open" /\ l.plan = plan /\ l.head = head
    BY DEF Idle
  <2>5. AtOpen'
    BY <2>1, <2>2, <2>3, <2>4 DEF AtOpen, Counters, Planned
  <2>6. QED
    BY <1>1, <2>1, <2>4, <2>5 DEF LauncherInv
<1>4. QED
  BY <1>2, <1>3

\* The launcher goes from one point to a later one and learns what it notes.
LEMMA ProveDerivationKeeps ==
  ASSUME RootsInv, LauncherInv, ProveDerivation
  PROVE  RootsInv' /\ LauncherInv'
<1> DEFINE plan == launcher.plan
           v == registered[launcher.dir].provenance
           l == [launcher EXCEPT !.pc = "derived", !.provenance = v]
<1>1. RootsInv' /\ launcher.pc = "open" /\ AtOpen /\ DOMAIN launcher = DOMAIN Idle
  BY SameRoots DEF ProveDerivation, LauncherInv
<1>2. CASE Refuses("preflight")
  BY <1>1, <1>2, RefusesInv
<1>3. CASE ~Refuses("preflight")
  <2>1. Derived(plan, v) /\ launcher' = l
    BY <1>3 DEF ProveDerivation, Advances
  <2>2. /\ DOMAIN l = DOMAIN Idle /\ l.pc = "derived" /\ l.plan = plan /\ l.head = launcher.head
        /\ l.provenance = v
    BY <1>1 DEF Idle
  <2>3. Stamped(v) /\ v.study = plan.study
    BY <1>1, <2>1 DEF AtOpen, Planned, Derived
  <2>4. plan.study = Study(plan.id, plan.sha, plan.prerequisite)
    BY <2>1, <2>3 DEF Derived
  <2>5. v = Provenance(plan.id, plan.sha, v.at, StudyTemplate[plan.sha][plan.id],
                       PlanTemplate[plan.sha][plan.id], plan.study, plan.prerequisite, v.drill)
    BY <2>1, <2>3 DEF Derived, Stamped
  <2>6. plan = Plan(plan.id, plan.sha, PlanTemplate[plan.sha][plan.id], plan.dir, plan.study,
                    v, plan.prerequisite)
    BY <2>1 DEF Derived
  <2>7. OneRegistration(plan.id, plan, plan.study, v, plan.prerequisite)
    BY <1>1, <2>4, <2>5, <2>6 DEF OneRegistration, AtOpen
  <2>8. AtOpen' /\ AtDerived'
    BY <1>1, <2>1, <2>2, <2>7 DEF AtOpen, AtDerived
  <2>9. QED
    BY <1>1, <2>1, <2>2, <2>8 DEF LauncherInv
<1>4. QED
  BY <1>2, <1>3

LEMMA ProveStageAKeeps ==
  ASSUME RootsInv, LauncherInv, ProveStageA
  PROVE  RootsInv' /\ LauncherInv'
<1> DEFINE l == [launcher EXCEPT !.pc = "proven", !.prerequisite = launcher.plan.prerequisite]
<1>1. /\ RootsInv' /\ launcher.pc = "derived" /\ AtOpen /\ AtDerived
      /\ DOMAIN launcher = DOMAIN Idle
  BY SameRoots DEF ProveStageA, LauncherInv
<1>2. CASE Refuses("preflight") \/ Refuses("drill")
  BY <1>1, <1>2, RefusesInv
<1>3. CASE launcher' = l
  <2>1. /\ DOMAIN l = DOMAIN Idle /\ l.pc = "proven" /\ l.plan = launcher.plan
        /\ l.head = launcher.head /\ l.provenance = launcher.provenance
        /\ l.prerequisite = launcher.plan.prerequisite
    BY <1>1 DEF Idle
  <2>2. AtOpen' /\ AtDerived' /\ AtProven'
    BY <1>1, <1>3, <2>1 DEF AtOpen, AtDerived, AtProven
  <2>3. QED
    BY <1>1, <1>3, <2>1, <2>2 DEF LauncherInv
<1>4. QED
  BY <1>2, <1>3 DEF ProveStageA, Advances

LEMMA ReadRootKeeps ==
  ASSUME RootsInv, LauncherInv, ReadRoot
  PROVE  RootsInv' /\ LauncherInv'
<1> DEFINE l == [launcher EXCEPT !.pc = "ready"]
<1>1. /\ RootsInv' /\ launcher.pc = "proven" /\ AtOpen /\ AtDerived /\ AtProven
      /\ DOMAIN launcher = DOMAIN Idle
  BY SameRoots DEF ReadRoot, LauncherInv
<1>2. CASE Refuses("root") \/ Refuses("verified")
  BY <1>1, <1>2, RefusesInv
<1>3. CASE ~(Refuses("root") \/ Refuses("verified"))
  <2>1. RootIsOurs /\ launcher' = l /\ UNCHANGED roots
    BY <1>3 DEF ReadRoot, Advances
  <2>2. /\ DOMAIN l = DOMAIN Idle /\ l.pc = "ready" /\ l.plan = launcher.plan
        /\ l.head = launcher.head /\ l.provenance = launcher.provenance
        /\ l.prerequisite = launcher.prerequisite /\ l.resume = launcher.resume
    BY <1>1 DEF Idle
  <2>3. launcher.plan.id \in Registrations
    BY <1>1 DEF AtOpen, Planned
  <2>4. AtReady
    BY <1>1, <2>1, <2>3 DEF AtReady, RootIsOurs, RootsInv, Root, NoRoot
  <2>5. AtOpen' /\ AtDerived' /\ AtProven' /\ AtReady'
    BY <1>1, <2>1, <2>2, <2>4 DEF AtOpen, AtDerived, AtProven, AtReady, Root
  <2>6. QED
    BY <1>1, <2>1, <2>2, <2>5 DEF LauncherInv
<1>4. QED
  BY <1>2, <1>3

\* The launcher keeps all it knows when only its place changes.
LEMMA MovesOn ==
  ASSUME DOMAIN launcher = DOMAIN Idle, NEW to, Advances([launcher EXCEPT !.pc = to])
  PROVE  /\ DOMAIN launcher' = DOMAIN Idle /\ launcher'.pc = to
         /\ launcher'.plan = launcher.plan /\ launcher'.resume = launcher.resume
         /\ AtOpen => AtOpen'
         /\ AtDerived => AtDerived'
         /\ AtProven => AtProven'
<1>1. /\ DOMAIN launcher' = DOMAIN Idle /\ launcher'.pc = to
      /\ launcher'.plan = launcher.plan /\ launcher'.head = launcher.head
      /\ launcher'.provenance = launcher.provenance
      /\ launcher'.prerequisite = launcher.prerequisite
      /\ launcher'.resume = launcher.resume
  BY DEF Idle, Advances
<1>2. QED
  BY <1>1 DEF AtOpen, AtDerived, AtProven

LEMMA ArchivePlanKeeps ==
  ASSUME RootsInv, LauncherInv, ArchivePlan
  PROVE  RootsInv' /\ LauncherInv'
<1> DEFINE id == launcher.plan.id
           copy == IF Root.plan # None THEN Root.plan
                   ELSE IF Has(launcher.dir, "plan") THEN registered[launcher.dir].plan
                   ELSE None
           root == [Root EXCEPT !.plan = copy]
<1>1. /\ launcher.pc = "ready" /\ AtOpen /\ AtDerived /\ AtProven /\ AtReady
      /\ DOMAIN launcher = DOMAIN Idle /\ Archived(root)
  BY DEF ArchivePlan, LauncherInv
<1>2. id \in Registrations /\ launcher.plan # None /\ DOMAIN Root = DOMAIN NoRoot
  BY <1>1 DEF AtOpen, Planned, RootsInv, Roots, Root
<1>3. /\ DOMAIN root = DOMAIN NoRoot /\ root.plan = copy /\ root.state = Root.state
      /\ root.study = Root.study
  BY <1>2 DEF NoRoot
<1>4. IF launcher.resume THEN Kept(root, id) /\ root.state.plan = launcher.plan
      ELSE root.state = None
  <2>1. CASE launcher.resume
    <3>1. Kept(Root, id) /\ Root.state.plan = launcher.plan
      BY <1>1, <2>1 DEF AtReady
    <3>2. copy = Root.plan
      BY <1>2, <3>1 DEF Kept
    <3>3. QED
      BY <1>3, <2>1, <3>1, <3>2 DEF Kept
  <2>2. CASE ~launcher.resume
    BY <1>1, <1>3, <2>2 DEF AtReady
  <2>3. QED
    BY <2>1, <2>2
<1>5. RootsInv' /\ roots'[id] = root
  BY <1>1, <1>2, <1>3, <1>4, OwnRoot DEF Archived
<1>6. CASE Refuses("archive")
  BY <1>5, <1>6, RefusesInv
<1>7. CASE copy = launcher.plan /\ Advances([launcher EXCEPT !.pc = "plan archived"])
  <2>1. /\ DOMAIN launcher' = DOMAIN Idle /\ launcher'.pc = "plan archived"
        /\ launcher'.plan = launcher.plan /\ launcher'.resume = launcher.resume
        /\ AtOpen' /\ AtDerived' /\ AtProven'
    BY <1>1, <1>7, MovesOn
  <2>2. Root' = root
    BY <1>5, <2>1 DEF Root
  <2>3. AtReady' /\ Root'.plan = launcher'.plan
    BY <1>3, <1>4, <1>7, <2>1, <2>2 DEF AtReady
  <2>4. QED
    BY <1>5, <2>1, <2>3 DEF LauncherInv
<1>8. QED
  BY <1>6, <1>7 DEF ArchivePlan

LEMMA ArchiveStudyKeeps ==
  ASSUME RootsInv, LauncherInv, ArchiveStudy
  PROVE  RootsInv' /\ LauncherInv'
<1> DEFINE id == launcher.plan.id
           copy == IF Root.study # None THEN Root.study
                   ELSE IF Has(launcher.plan.dir, "study")
                        THEN registered[launcher.plan.dir].study
                   ELSE None
           root == [Root EXCEPT !.study = copy]
<1>1. /\ launcher.pc = "plan archived" /\ AtOpen /\ AtDerived /\ AtProven /\ AtReady
      /\ Root.plan = launcher.plan /\ DOMAIN launcher = DOMAIN Idle /\ Archived(root)
  BY DEF ArchiveStudy, LauncherInv
<1>2. id \in Registrations /\ DOMAIN Root = DOMAIN NoRoot
  BY <1>1 DEF AtOpen, Planned, RootsInv, Roots, Root
<1>3. /\ DOMAIN root = DOMAIN NoRoot /\ root.plan = Root.plan /\ root.state = Root.state
      /\ root.study = copy
  BY <1>2 DEF NoRoot
<1>4. IF launcher.resume THEN Kept(root, id) /\ root.state.plan = launcher.plan
      ELSE root.state = None
  <2>1. CASE launcher.resume
    <3>1. Kept(Root, id) /\ Root.state.plan = launcher.plan
      BY <1>1, <2>1 DEF AtReady
    <3>2. copy = Root.study
      BY <3>1 DEF Kept
    <3>3. QED
      BY <1>3, <2>1, <3>1, <3>2 DEF Kept
  <2>2. CASE ~launcher.resume
    BY <1>1, <1>3, <2>2 DEF AtReady
  <2>3. QED
    BY <2>1, <2>2
<1>5. RootsInv' /\ roots'[id] = root
  BY <1>1, <1>2, <1>3, <1>4, OwnRoot DEF Archived
<1>6. CASE Refuses("archive")
  BY <1>5, <1>6, RefusesInv
<1>7. CASE copy = launcher.plan.study /\ Advances([launcher EXCEPT !.pc = "study archived"])
  <2>1. /\ DOMAIN launcher' = DOMAIN Idle /\ launcher'.pc = "study archived"
        /\ launcher'.plan = launcher.plan /\ launcher'.resume = launcher.resume
        /\ AtOpen' /\ AtDerived' /\ AtProven'
    BY <1>1, <1>7, MovesOn
  <2>2. Root' = root
    BY <1>5, <2>1 DEF Root
  <2>3. AtReady' /\ Root'.plan = launcher'.plan /\ Root'.study = launcher'.plan.study
    BY <1>1, <1>3, <1>4, <1>7, <2>1, <2>2 DEF AtReady
  <2>4. QED
    BY <1>5, <2>1, <2>3 DEF LauncherInv
<1>8. QED
  BY <1>6, <1>7 DEF ArchiveStudy

LEMMA ArchiveRecordsKeeps ==
  ASSUME RootsInv, LauncherInv, ArchiveRecords
  PROVE  RootsInv' /\ LauncherInv'
<1> DEFINE id == launcher.plan.id
           root == [Root EXCEPT !.provenance = launcher.provenance,
                                !.prerequisite = launcher.prerequisite]
<1>1. /\ launcher.pc = "study archived" /\ AtOpen /\ AtDerived /\ AtProven /\ AtReady
      /\ Root.plan = launcher.plan /\ Root.study = launcher.plan.study
      /\ DOMAIN launcher = DOMAIN Idle
  BY DEF ArchiveRecords, LauncherInv
<1>2. id \in Registrations /\ DOMAIN Root = DOMAIN NoRoot
  BY <1>1 DEF AtOpen, Planned, RootsInv, Roots, Root
<1>3. CASE Refuses("archive") /\ UNCHANGED roots
  BY <1>3, SameRoots, RefusesInv
<1>4. CASE Archived(root) /\ Advances([launcher EXCEPT !.pc = "archived"])
  <2>1. /\ DOMAIN root = DOMAIN NoRoot /\ root.plan = Root.plan /\ root.state = Root.state
        /\ root.study = Root.study
    BY <1>2 DEF NoRoot
  <2>2. IF launcher.resume THEN Kept(root, id) /\ root.state.plan = launcher.plan
        ELSE root.state = None
    BY <1>1, <2>1 DEF AtReady, Kept
  <2>3. RootsInv' /\ roots'[id] = root
    BY <1>2, <1>4, <2>1, <2>2, OwnRoot DEF Archived
  <2>4. /\ DOMAIN launcher' = DOMAIN Idle /\ launcher'.pc = "archived"
        /\ launcher'.plan = launcher.plan /\ launcher'.resume = launcher.resume
        /\ AtOpen' /\ AtDerived' /\ AtProven'
    BY <1>1, <1>4, MovesOn
  <2>5. Root' = root
    BY <2>3, <2>4 DEF Root
  <2>6. AtReady' /\ Root'.plan = launcher'.plan /\ Root'.study = launcher'.plan.study
    BY <1>1, <2>1, <2>2, <2>4, <2>5 DEF AtReady
  <2>7. QED
    BY <2>3, <2>4, <2>6 DEF LauncherInv
<1>5. QED
  BY <1>3, <1>4 DEF ArchiveRecords

\* The first control state is that of the registration that was proven.
LEMMA WriteStateKeeps ==
  ASSUME RootsInv, LauncherInv, WriteState
  PROVE  RootsInv' /\ LauncherInv'
<1> DEFINE id == launcher.plan.id
           first == Control(launcher.plan, launcher.head, launched, launcher.provenance,
                            launcher.prerequisite)
           again == [Root.state EXCEPT !.status = "in-progress"]
           root == [Root EXCEPT !.state = IF launcher.resume THEN again ELSE first]
<1>1. /\ launcher.pc = "archived" /\ AtOpen /\ AtDerived /\ AtProven /\ AtReady
      /\ Root.plan = launcher.plan /\ Root.study = launcher.plan.study
      /\ DOMAIN launcher = DOMAIN Idle /\ Archived(root)
      /\ Advances([launcher EXCEPT !.pc = "running"])
  BY DEF WriteState, LauncherInv
<1>2. id \in Registrations /\ DOMAIN Root = DOMAIN NoRoot
  BY <1>1 DEF AtOpen, Planned, RootsInv, Roots, Root
<1>3. Kept(root, id)
  <2>1. CASE launcher.resume
    <3>1. Kept(Root, id)
      BY <1>1, <2>1 DEF AtReady
    <3>2. Like(Root, [Root EXCEPT !.state = [Root.state EXCEPT !["status"] = "in-progress"]])
      BY <1>2, <3>1, StateLike DEF Kept, ControlFields
    <3>3. QED
      BY <2>1, <3>1, <3>2, LikeKept
  <2>2. CASE ~launcher.resume
    <3>1. /\ DOMAIN root = DOMAIN NoRoot /\ root.plan = launcher.plan
          /\ root.study = launcher.plan.study /\ root.state = first
      BY <1>1, <1>2, <2>2 DEF NoRoot
    <3>2. /\ DOMAIN first = ControlFields /\ first.plan = launcher.plan
          /\ first.sha = launcher.head /\ first.provenance = launcher.provenance
          /\ first.prerequisite = launcher.prerequisite
      BY DEF Control, ControlFields
    <3>3. OneRegistration(id, root.plan, root.study, root.state.provenance,
                          root.state.prerequisite)
      BY <1>1, <3>1, <3>2 DEF AtDerived, AtProven
    <3>4. QED
      BY <1>1, <3>1, <3>2, <3>3 DEF Kept, AtOpen
  <2>3. QED
    BY <2>1, <2>2
<1>4. RootsInv' /\ roots'[id] = root
  BY <1>1, <1>2, <1>3, OwnRoot DEF Archived, Kept
<1>5. /\ DOMAIN launcher' = DOMAIN Idle /\ launcher'.pc = "running"
      /\ launcher'.plan = launcher.plan
      /\ AtOpen' /\ AtDerived' /\ AtProven'
  BY <1>1, MovesOn
<1>6. AtRunning'
  BY <1>3, <1>4, <1>5 DEF AtRunning, Root
<1>7. QED
  BY <1>4, <1>5, <1>6 DEF LauncherInv

LEMMA EndKeeps ==
  ASSUME RootsInv, LauncherInv, FreezeViolated \/ \E passed \in BOOLEAN : Complete(passed)
  PROVE  RootsInv' /\ LauncherInv'
<1> DEFINE id == launcher.plan.id
<1>1. id \in Registrations /\ Kept(Root, id)
  BY DEF FreezeViolated, Complete, LauncherInv, AtOpen, AtRunning, Planned
<1>2. DOMAIN Root = DOMAIN NoRoot /\ DOMAIN Root.state = ControlFields
  BY <1>1 DEF Kept
<1>3. CASE FreezeViolated
  <2> DEFINE root == [Root EXCEPT !.state = [Root.state EXCEPT !["status"] = "failed"]]
  <2>1. Like(Root, root)
    BY <1>2, StateLike DEF ControlFields
  <2>2. Kept(root, id)
    BY <1>1, <2>1, LikeKept
  <2>3. Archived(root) /\ Refuses("drift")
    BY <1>3 DEF FreezeViolated
  <2>4. RootsInv'
    BY <1>1, <2>2, <2>3, OwnRoot DEF Archived, Kept
  <2>5. QED
    BY <2>3, <2>4, RefusesInv
<1>4. CASE \E passed \in BOOLEAN : Complete(passed)
  <2>1. PICK passed \in BOOLEAN : Complete(passed)
    BY <1>4
  <2>2. Like(Root, Completed(Root, passed))
    BY <1>2, CompletedLike
  <2>3. Kept(Completed(Root, passed), id)
    BY <1>1, <2>2, LikeKept
  <2>4. Archived(Completed(Root, passed)) /\ Refuses("completed")
    BY <2>1 DEF Complete
  <2>5. RootsInv'
    BY <1>1, <2>3, <2>4, OwnRoot DEF Archived, Kept
  <2>6. QED
    BY <2>4, <2>5, RefusesInv
<1>5. QED
  BY <1>3, <1>4

-----------------------------------------------------------------------------
(* The other actors *)

\* The launcher stands where it stood, and its root changed at most in what Kept ignores.
LEMMA StandsStill ==
  ASSUME LauncherInv, UNCHANGED launcher,
         launcher.pc # "idle" => Root' = Root \/ (Root.state # None /\ Like(Root, Root'))
  PROVE  LauncherInv'
<1>1. CASE launcher.pc = "idle"
  BY <1>1 DEF LauncherInv
<1>2. CASE launcher.pc # "idle" /\ Root' = Root
  BY <1>2 DEF LauncherInv, AtOpen, AtDerived, AtProven, AtReady, AtRunning
<1>3. CASE launcher.pc # "idle" /\ Root.state # None /\ Like(Root, Root')
  <2>1. /\ Root'.plan = Root.plan /\ Root'.study = Root.study
        /\ Root'.state.plan = Root.state.plan
    BY <1>3 DEF Like
  <2>2. \A id : Kept(Root, id) => Kept(Root', id)
    BY <1>3, LikeKept
  <2>3. AtReady => AtReady'
    BY <1>3, <2>1, <2>2 DEF AtReady
  <2>4. AtRunning => AtRunning'
    BY <2>2 DEF AtRunning
  <2>5. (AtOpen => AtOpen') /\ (AtDerived => AtDerived') /\ (AtProven => AtProven')
    BY DEF AtOpen, AtDerived, AtProven
  <2>6. QED
    BY <2>1, <2>3, <2>4, <2>5 DEF LauncherInv
<1>4. QED
  BY <1>1, <1>2, <1>3

LEMMA NothingLaunched ==
  ASSUME RootsInv, LauncherInv, UNCHANGED <<launcher, roots>>
  PROVE  RootsInv' /\ LauncherInv'
<1>1. Root' = Root
  BY DEF Root
<1>2. QED
  BY <1>1, SameRoots, StandsStill

LEMMA MoveRootAwayKeeps ==
  ASSUME RootsInv, LauncherInv, NEW t \in Registrations, MoveRootAway(t)
  PROVE  RootsInv' /\ LauncherInv'
<1>1. roots' = [roots EXCEPT ![t] = NoRoot] /\ UNCHANGED launcher /\ ~InUse(t)
  BY DEF MoveRootAway
<1>2. NoRoot.state = None
  BY DEF NoRoot
<1>3. RootsInv'
  BY <1>1, <1>2, OwnRoot
<1>4. launcher.pc # "idle" => Root' = Root
  BY <1>1 DEF InUse, Root, RootsInv
<1>5. QED
  BY <1>1, <1>3, <1>4, StandsStill

LEMMA DamageRootKeeps ==
  ASSUME RootsInv, LauncherInv, NEW t \in Registrations, DamageRoot(t)
  PROVE  RootsInv' /\ LauncherInv'
<1>1. PICK altered \in Alterations(roots[t]) : roots' = [roots EXCEPT ![t] = altered]
  BY DEF DamageRoot
<1>2. roots[t].state # None /\ UNCHANGED launcher
  BY DEF DamageRoot
<1>3. Kept(roots[t], t)
  BY <1>2 DEF RootsInv
<1>4. Like(roots[t], altered)
  BY <1>3, AlteredLike DEF Kept
<1>5. Kept(altered, t)
  BY <1>3, <1>4, LikeKept
<1>6. RootsInv' /\ roots'[t] = altered
  BY <1>1, <1>5, OwnRoot DEF Kept
<1>7. Root' = Root \/ (Root.state # None /\ Like(Root, Root'))
  <2>1. CASE launcher.plan.id = t
    BY <1>2, <1>4, <1>6, <2>1 DEF Root
  <2>2. CASE launcher.plan.id # t
    BY <1>1, <1>2, <2>2 DEF Root
  <2>3. QED
    BY <2>1, <2>2
<1>8. QED
  BY <1>2, <1>6, <1>7, StandsStill

LEMMA KillLauncherKeeps ==
  ASSUME RootsInv, KillLauncher
  PROVE  RootsInv' /\ LauncherInv'
<1>1. UNCHANGED roots /\ launcher' = Idle
  BY DEF KillLauncher
<1>2. DOMAIN launcher' = DOMAIN Idle /\ launcher'.pc = "idle"
  BY <1>1 DEF Idle
<1>3. QED
  BY <1>1, <1>2, SameRoots DEF LauncherInv

LEMMA RegisterLaunchesNothing ==
  ASSUME NEW r \in Registrars, Register(r)
  PROVE  UNCHANGED <<launcher, roots>>
<1>1. CASE RegisterStep(r)
  BY <1>1, RegisterStepKeeps
<1>2. CASE \E d \in Dirs, drill \in BOOLEAN, root \in {None, StageA, Drill} :
             BeginRegister(r, d, drill, root)
  BY <1>2 DEF BeginRegister
<1>3. QED
  BY <1>1, <1>2 DEF Register, RegisterStep

-----------------------------------------------------------------------------
(* The invariant *)

LaunchInv == Counters /\ FilesInv /\ RootsInv /\ LauncherInv

LEMMA InitRoots == Init => RootsInv /\ LauncherInv
<1> SUFFICES ASSUME Init PROVE RootsInv /\ LauncherInv
  OBVIOUS
<1> DEFINE first == [NoRoot EXCEPT
             !.plan = Rehearsal, !.state = Control(Rehearsal, FirstCommit, 0, None, None)]
<1>1. /\ DOMAIN first = DOMAIN NoRoot /\ DOMAIN first.state = ControlFields
      /\ first.plan = first.state.plan
  BY DEF NoRoot, Control, ControlFields
<1>2. Like(first, Completed(first, TRUE))
  BY <1>1, CompletedLike
<1>3. roots = [t \in Roots |-> IF t # Drill THEN NoRoot ELSE Completed(first, TRUE)]
  BY DEF Init
<1>4. Drill \in Roots /\ Drill \notin Registrations /\ Registrations \subseteq Roots
  BY DEF Roots, Registrations, Drill, StageA, Calibration
<1>5. roots[Drill] = Completed(first, TRUE) /\ \A t \in Roots : t # Drill => roots[t] = NoRoot
  BY <1>3, <1>4
<1>6. DOMAIN roots = Roots
  BY <1>3
<1>7. /\ DOMAIN roots[Drill] = DOMAIN NoRoot /\ roots[Drill].plan = roots[Drill].state.plan
  BY <1>1, <1>2, <1>5 DEF Like
<1>8. NoRoot.state = None
  BY DEF NoRoot
<1>9. RootsInv
  BY <1>4, <1>5, <1>6, <1>7, <1>8 DEF RootsInv
<1>10. DOMAIN launcher = DOMAIN Idle /\ launcher.pc = "idle"
  BY DEF Init, Idle
<1>11. QED
  BY <1>9, <1>10, IdleInv

LEMMA LaunchKeeps ==
  ASSUME Counters, FilesInv, RootsInv, LauncherInv, Launch
  PROVE  RootsInv' /\ LauncherInv'
<1>1. CASE \E d \in Dirs, resume \in BOOLEAN : OpenPlan(d, resume)
  BY <1>1, OpenPlanKeeps
<1>2. CASE ProveDerivation
  BY <1>2, ProveDerivationKeeps
<1>3. CASE ProveStageA
  BY <1>3, ProveStageAKeeps
<1>4. CASE ReadRoot
  BY <1>4, ReadRootKeeps
<1>5. CASE ArchivePlan
  BY <1>5, ArchivePlanKeeps
<1>6. CASE ArchiveStudy
  BY <1>6, ArchiveStudyKeeps
<1>7. CASE ArchiveRecords
  BY <1>7, ArchiveRecordsKeeps
<1>8. CASE WriteState
  BY <1>8, WriteStateKeeps
<1>9. CASE FreezeViolated \/ \E passed \in BOOLEAN : Complete(passed)
  BY <1>9, EndKeeps
<1>10. QED
  BY <1>1, <1>2, <1>3, <1>4, <1>5, <1>6, <1>7, <1>8, <1>9 DEF Launch

LEMMA InterfereKeeps ==
  ASSUME RootsInv, LauncherInv, Interfere
  PROVE  RootsInv' /\ LauncherInv'
<1>1. CASE (\E c \in Commits : MoveHead(c)) \/ Dirty \/ Clean
  BY <1>1, NothingLaunched DEF MoveHead, Dirty, Clean
<1>2. CASE \E d \in Dirs : \E file \in DOMAIN NoFiles : EditFile(d, file)
  BY <1>2, NothingLaunched DEF EditFile
<1>3. CASE \E d, e \in Dirs : \E file \in DOMAIN NoFiles : CopyFile(d, e, file)
  BY <1>3, NothingLaunched DEF CopyFile
<1>4. CASE (\E d \in Dirs : RemoveDirectory(d)) \/ \E r \in Registrars : KillRegistrar(r)
  BY <1>4, NothingLaunched DEF RemoveDirectory, KillRegistrar
<1>5. CASE \E t \in Registrations : MoveRootAway(t) \/ DamageRoot(t)
  BY <1>5, MoveRootAwayKeeps, DamageRootKeeps
<1>6. CASE KillLauncher
  BY <1>6, KillLauncherKeeps
<1>7. QED
  BY <1>1, <1>2, <1>3, <1>4, <1>5, <1>6 DEF Interfere

LEMMA LaunchInvariant == Spec => []LaunchInv
<1>1. RootsInv /\ LauncherInv /\ Counters /\ FilesInv /\ [Next]_vars =>
        RootsInv' /\ LauncherInv'
  <2> SUFFICES ASSUME RootsInv, LauncherInv, Counters, FilesInv, [Next]_vars
               PROVE  RootsInv' /\ LauncherInv'
    OBVIOUS
  <2>1. CASE UNCHANGED vars
    BY <2>1, NothingLaunched DEF vars
  <2>2. CASE \E r \in Registrars : Register(r)
    BY <2>2, RegisterLaunchesNothing, NothingLaunched
  <2>3. CASE Launch
    BY <2>3, LaunchKeeps
  <2>4. CASE Interfere
    BY <2>4, InterfereKeeps
  <2>5. QED
    BY <2>1, <2>2, <2>3, <2>4 DEF Next
<1>2. QED
  BY <1>1, InitRoots, FilesInvariant, PTL DEF Spec, LaunchInv

\* LaunchIsSound: however registrations race, whatever is edited, swapped or altered and
\* wherever HEAD moves between two steps of a launch, a control state stands beside a plan,
\* a study and records that were all stamped as one registration from the templates of the
\* commit it runs at (registrationPreflight.ts, orchestrate.ts).
THEOREM LaunchSound == Spec => []LaunchIsSound
<1>1. LaunchInv => LaunchIsSound
  <2> SUFFICES ASSUME Counters, FilesInv, RootsInv, LauncherInv PROVE LaunchIsSound
    BY DEF LaunchInv
  <2>1. \A d \in Dirs : staging[d] # None => DOMAIN staging[d] = DOMAIN NoFiles
    BY DEF FilesInv, Batches, Batch
  <2>2. \A d \in Dirs : registered[d] # None => DOMAIN registered[d] = DOMAIN NoFiles
    BY DEF FilesInv, Batches, Batch
  <2>3. \A r \in Registrars : registrar[r].pc # "idle" => registrar[r].dir \in Dirs
    BY DEF FilesInv, Working
  <2>4. launcher.pc # "idle" => launcher.plan # None /\ launcher.head \in Commits
    BY DEF LauncherInv, AtOpen
  <2>5. \A t \in Roots : roots[t].state # None => roots[t].plan = roots[t].state.plan
    BY DEF RootsInv, Kept, Roots
  <2>6. TypeOK
    BY <2>1, <2>2, <2>3, <2>4, <2>5 DEF TypeOK, Counters
  <2>7. LaunchedIsOneRegistration
    BY DEF LaunchedIsOneRegistration, RootsInv, Kept, OneRegistration
  <2>8. QED
    BY <2>6, <2>7 DEF LaunchIsSound
<1>2. QED
  BY <1>1, LaunchInvariant, PTL

-----------------------------------------------------------------------------
(* Evidence that verifies is what a run left behind *)

\* A root and what is in it are records, so that they are known by their fields.
IsRecord(x, fields) == x = [f \in fields |-> x[f]]

RootFields      == {"plan", "study", "provenance", "prerequisite", "execution", "manifest",
                    "inventory", "archive", "state"}
InventoryFields == {"files", "aggregate"}
ArchiveFields   == {"content", "sha", "plan", "aggregate"}

\* The tree a run packs: the provenance, the executions and the manifest over them, told
\* by what it knows of itself and by the control state it ran from.
Story(state, run) ==
  <<state.provenance, Executed(run.edition),
    [plan |-> state.plan, sha |-> run.sha,
     execution |-> sealExecution(Executed(run.edition), run.passed),
     registration |-> [provenance |-> state.provenance, prerequisite |-> state.prerequisite]]>>

\* A completed root of that run, whatever was altered in it since: no alteration reaches
\* the hash of the archive in the control state.
LeftBy(root, t, run) ==
  /\ run.id = t
  /\ root.plan = root.state.plan
  /\ root.state.sha = run.sha /\ root.state.edition = run.edition
  /\ root.state.status = "completed"
  /\ root.state.archive = Story(root.state, run)
  /\ IsRecord(root.inventory, InventoryFields)
  /\ IsRecord(root.archive, ArchiveFields)

Shaped(root) ==
  /\ IsRecord(root, RootFields)
  /\ root.state # None => IsRecord(root.state, ControlFields)

Genuine(root, t, runs) ==
  /\ Shaped(root)
  /\ root.state # None /\ root.state.status = "completed" => \E run \in runs : LeftBy(root, t, run)

GenuineInv == \A t \in Roots : Genuine(roots[t], t, done)

\* What completing a root writes, field by field.
Packed(root, passed) ==
  LET tree == <<root.provenance, Executed(root.state.edition),
                [plan |-> root.state.plan, sha |-> root.state.sha,
                 execution |-> sealExecution(Executed(root.state.edition), passed),
                 registration |-> buildManifestRegistration(root)]>>
  IN [plan |-> root.plan, study |-> root.study, provenance |-> root.provenance,
      prerequisite |-> root.prerequisite, execution |-> tree[2], manifest |-> tree[3],
      inventory |-> [files |-> tree, aggregate |-> tree],
      archive |-> [content |-> tree, sha |-> tree, plan |-> root.state.plan, aggregate |-> tree],
      state |-> [plan |-> root.state.plan, sha |-> root.state.sha,
                 edition |-> root.state.edition, status |-> "completed",
                 provenance |-> root.state.provenance, prerequisite |-> root.state.prerequisite,
                 execution |-> sealExecution(Executed(root.state.edition), passed),
                 aggregate |-> tree, archive |-> tree]]

LEMMA CompletedIsPacked ==
  ASSUME NEW root, NEW passed, IsRecord(root, RootFields), IsRecord(root.state, ControlFields)
  PROVE  Completed(root, passed) = Packed(root, passed)
<1> DEFINE a == WithExecution(root, passed)
           b == WithManifest(a)
           c == WithInventory(b)
           d == WithArchive(c)
           e == [d EXCEPT !.state.status = "completed"]
           x == Executed(root.state.edition)
           seal == sealExecution(x, passed)
           m == [plan |-> root.state.plan, sha |-> root.state.sha, execution |-> seal,
                 registration |-> buildManifestRegistration(root)]
           tree == <<root.provenance, x, m>>
           zip == [content |-> tree, sha |-> tree, plan |-> root.state.plan, aggregate |-> tree]
           same(r) == /\ IsRecord(r, RootFields) /\ IsRecord(r.state, ControlFields)
                      /\ r.plan = root.plan /\ r.study = root.study
                      /\ r.provenance = root.provenance /\ r.prerequisite = root.prerequisite
                      /\ r.state.plan = root.state.plan /\ r.state.sha = root.state.sha
                      /\ r.state.edition = root.state.edition
                      /\ r.state.provenance = root.state.provenance
                      /\ r.state.prerequisite = root.state.prerequisite
<1>1. same(a) /\ a.execution = x /\ a.state.execution = seal
  BY DEF WithExecution, IsRecord, RootFields, ControlFields
<1> HIDE DEF a, x, seal
<1>2. /\ same(b) /\ b.execution = x /\ b.state = a.state
      /\ b.manifest = m
  BY <1>1 DEF WithManifest, buildSequenceManifest, buildManifestRegistration, IsRecord,
              RootFields, ControlFields
<1> HIDE DEF b, m
<1>3. Inventory(b) = [files |-> tree, aggregate |-> tree]
  BY <1>2 DEF Inventory, Tree
<1> HIDE DEF tree
<1>4. /\ same(c) /\ c.execution = x /\ c.state.execution = seal /\ c.manifest = m
      /\ c.inventory = [files |-> tree, aggregate |-> tree] /\ c.state.aggregate = tree
  <2> DEFINE sb == [b.state EXCEPT !.aggregate = tree]
             i  == [files |-> tree, aggregate |-> tree]
  <2>0. c = [b EXCEPT !.inventory = i, !.state.aggregate = i.aggregate] /\ i.aggregate = tree
    BY <1>3 DEF WithInventory
  <2>1. c = [b EXCEPT !.inventory = i, !.state = sb]
    <3> HIDE DEF i, c
    <3> QED BY <1>2, <2>0 DEF IsRecord, RootFields
  <2>2. /\ IsRecord(sb, ControlFields) /\ sb.aggregate = tree /\ sb.execution = seal
        /\ sb.plan = root.state.plan /\ sb.sha = root.state.sha
        /\ sb.edition = root.state.edition /\ sb.provenance = root.state.provenance
        /\ sb.prerequisite = root.state.prerequisite
    BY <1>1, <1>2 DEF IsRecord, ControlFields
  <2> HIDE DEF sb, c, i
  <2>3. /\ IsRecord(c, RootFields) /\ c.state = sb /\ c.inventory = i
        /\ c.plan = root.plan /\ c.study = root.study /\ c.provenance = root.provenance
        /\ c.prerequisite = root.prerequisite /\ c.execution = x /\ c.manifest = m
    BY <1>2, <2>1 DEF IsRecord, RootFields
  <2>4. QED
    BY <2>2, <2>3 DEF i
<1> HIDE DEF c
<1>5. Zip(c) = zip /\ zip.sha = tree
  BY <1>4 DEF Zip, Tree, tree
<1> HIDE DEF zip
<1>6. /\ same(d) /\ d.execution = x /\ d.state.execution = seal /\ d.manifest = m
      /\ d.inventory = [files |-> tree, aggregate |-> tree] /\ d.state.aggregate = tree
      /\ d.archive = zip /\ d.state.archive = tree
  <2> DEFINE sc == [c.state EXCEPT !.archive = tree]
  <2>1. d = [c EXCEPT !.archive = zip, !.state = sc]
    BY <1>4, <1>5 DEF WithArchive, IsRecord, RootFields
  <2>2. /\ IsRecord(sc, ControlFields) /\ sc.archive = tree /\ sc.execution = seal
        /\ sc.aggregate = tree /\ sc.plan = root.state.plan /\ sc.sha = root.state.sha
        /\ sc.edition = root.state.edition /\ sc.provenance = root.state.provenance
        /\ sc.prerequisite = root.state.prerequisite
    BY <1>4 DEF IsRecord, ControlFields
  <2> HIDE DEF sc, d
  <2>3. /\ IsRecord(d, RootFields) /\ d.state = sc /\ d.archive = zip
        /\ d.plan = root.plan /\ d.study = root.study /\ d.provenance = root.provenance
        /\ d.prerequisite = root.prerequisite /\ d.execution = x /\ d.manifest = m
        /\ d.inventory = [files |-> tree, aggregate |-> tree]
    BY <1>4, <2>1 DEF IsRecord, RootFields
  <2>4. QED
    BY <2>2, <2>3
<1> HIDE DEF d
<1>7. /\ same(e) /\ e.execution = x /\ e.state.execution = seal /\ e.manifest = m
      /\ e.inventory = [files |-> tree, aggregate |-> tree] /\ e.state.aggregate = tree
      /\ e.archive = zip /\ e.state.archive = tree /\ e.state.status = "completed"
  BY <1>6 DEF IsRecord, RootFields, ControlFields
<1>8. Completed(root, passed) = e
  BY DEF Completed, a, b, c, d
<1> HIDE DEF e
<1> DEFINE s == [plan |-> root.state.plan, sha |-> root.state.sha,
                 edition |-> root.state.edition, status |-> "completed",
                 provenance |-> root.state.provenance,
                 prerequisite |-> root.state.prerequisite, execution |-> seal,
                 aggregate |-> tree, archive |-> tree]
<1>9. e.state = s
  BY <1>7 DEF IsRecord, ControlFields
<1>10. Packed(root, passed) =
         [plan |-> root.plan, study |-> root.study, provenance |-> root.provenance,
          prerequisite |-> root.prerequisite, execution |-> x, manifest |-> m,
          inventory |-> [files |-> tree, aggregate |-> tree], archive |-> zip, state |-> s]
  BY DEF Packed, x, m, tree, zip, seal
<1> HIDE DEF s
<1>11. e = Packed(root, passed)
  BY <1>7, <1>9, <1>10 DEF IsRecord, RootFields
<1>12. QED
  BY <1>8, <1>11

\* What a run completes is left by it, when the records in the root are those the control
\* state states.
LEMMA PackedIsLeft ==
  ASSUME NEW root, NEW passed, NEW t, root.plan = root.state.plan, RecordsHashAsStated(root),
         NEW run, run = [id |-> t, sha |-> root.state.sha, edition |-> root.state.edition,
                         passed |-> passed]
  PROVE  LeftBy(Packed(root, passed), t, run) /\ Shaped(Packed(root, passed))
<1> DEFINE p == Packed(root, passed)
<1>1. /\ run.id = t /\ run.sha = root.state.sha /\ run.edition = root.state.edition
      /\ run.passed = passed
  OBVIOUS
<1>2. /\ p.plan = p.state.plan /\ p.state.sha = run.sha /\ p.state.edition = run.edition
      /\ p.state.status = "completed" /\ p.state.plan = root.state.plan
      /\ p.state.provenance = root.provenance /\ p.state.prerequisite = root.prerequisite
  BY <1>1 DEF Packed, RecordsHashAsStated
<1>3. p.state.archive = Story(p.state, run)
  BY <1>1, <1>2 DEF Packed, Story, buildManifestRegistration
<1>4. IsRecord(p.inventory, InventoryFields) /\ IsRecord(p.archive, ArchiveFields)
  BY DEF Packed, IsRecord, InventoryFields, ArchiveFields
<1>5. IsRecord(p, RootFields) /\ IsRecord(p.state, ControlFields)
  BY DEF Packed, IsRecord, RootFields, ControlFields
<1>6. QED
  BY <1>1, <1>2, <1>3, <1>4, <1>5 DEF LeftBy, Shaped

\* A root that a run left behind and that verifies is what that run packed, to the last file.
LEMMA VerifiedIsPacked ==
  ASSUME NEW root, NEW t, NEW run, Shaped(root), root.state # None, LeftBy(root, t, run),
         verifyCompletedSequence(root),
         NEW begun,
         begun = [[NoRoot EXCEPT !.plan = root.plan, !.study = root.study,
                                 !.provenance = root.provenance,
                                 !.prerequisite = root.prerequisite] EXCEPT
                    !.state = Control(root.plan, run.sha, run.edition, root.provenance,
                                      root.prerequisite)]
  PROVE  /\ root = Completed(begun, run.passed)
         /\ root.execution.edition = run.edition /\ root.state.execution.passed = run.passed
<1> DEFINE x == Executed(run.edition)
           m == [plan |-> root.plan, sha |-> run.sha,
                 execution |-> sealExecution(x, run.passed),
                 registration |-> [provenance |-> root.provenance,
                                   prerequisite |-> root.prerequisite]]
           tree == <<root.provenance, x, m>>
<1>1. root.provenance = root.state.provenance /\ root.prerequisite = root.state.prerequisite
  BY DEF verifyCompletedSequence, RecordsHashAsStated
<1>2. root.state.archive = tree
  BY <1>1 DEF LeftBy, Story
<1>3. /\ root.archive.content = tree /\ root.archive.sha = tree
      /\ root.archive.plan = root.plan /\ root.archive.aggregate = tree
      /\ root.inventory.files = tree /\ root.inventory.aggregate = tree
      /\ root.state.aggregate = tree /\ Tree(root) = tree
  BY <1>2 DEF verifyCompletedSequence, verifyCompletedArchive, verifyTreeAgainstInventory,
              validateInventory, LeftBy
<1>4. root.execution = x /\ root.manifest = m
  BY <1>3 DEF Tree
<1>5. root.state.execution = sealExecution(x, run.passed)
  BY <1>4 DEF verifyCompletedSequence, reconcileManifestWithState
<1>6. root.inventory = [files |-> tree, aggregate |-> tree]
  BY <1>3 DEF LeftBy, IsRecord, InventoryFields
<1>7. root.archive = [content |-> tree, sha |-> tree, plan |-> root.plan, aggregate |-> tree]
  BY <1>3 DEF LeftBy, IsRecord, ArchiveFields
<1>8. root.state = [plan |-> root.plan, sha |-> run.sha, edition |-> run.edition,
                    status |-> "completed", provenance |-> root.provenance,
                    prerequisite |-> root.prerequisite,
                    execution |-> sealExecution(x, run.passed), aggregate |-> tree,
                    archive |-> tree]
  BY <1>1, <1>2, <1>3, <1>5 DEF LeftBy, Shaped, IsRecord, ControlFields
<1>9. /\ begun.plan = root.plan /\ begun.study = root.study
      /\ begun.provenance = root.provenance /\ begun.prerequisite = root.prerequisite
      /\ begun.state = Control(root.plan, run.sha, run.edition, root.provenance,
                               root.prerequisite)
      /\ IsRecord(begun, RootFields)
  BY DEF NoRoot, IsRecord, RootFields
<1>10. /\ begun.state.plan = root.plan /\ begun.state.sha = run.sha
       /\ begun.state.edition = run.edition /\ begun.state.provenance = root.provenance
       /\ begun.state.prerequisite = root.prerequisite
       /\ IsRecord(begun.state, ControlFields)
  BY <1>9 DEF Control, IsRecord, ControlFields
<1>11. Completed(begun, run.passed) = Packed(begun, run.passed)
  BY <1>9, <1>10, CompletedIsPacked
<1>12. Packed(begun, run.passed) =
         [plan |-> root.plan, study |-> root.study, provenance |-> root.provenance,
          prerequisite |-> root.prerequisite, execution |-> x, manifest |-> m,
          inventory |-> [files |-> tree, aggregate |-> tree],
          archive |-> [content |-> tree, sha |-> tree, plan |-> root.plan, aggregate |-> tree],
          state |-> [plan |-> root.plan, sha |-> run.sha, edition |-> run.edition,
                     status |-> "completed", provenance |-> root.provenance,
                     prerequisite |-> root.prerequisite,
                     execution |-> sealExecution(x, run.passed), aggregate |-> tree,
                     archive |-> tree]]
  BY <1>9, <1>10 DEF Packed, buildManifestRegistration
<1>13. root = Packed(begun, run.passed)
  BY <1>4, <1>6, <1>7, <1>8, <1>12 DEF Shaped, IsRecord, RootFields
<1>14. x.edition = run.edition /\ sealExecution(x, run.passed).passed = run.passed
  BY DEF Executed, sealExecution
<1>15. QED
  BY <1>4, <1>5, <1>11, <1>13, <1>14

\* Another root, or the same one altered, that tells of the same run.
Alike(root, other) ==
  /\ IsRecord(other, RootFields) /\ IsRecord(other.state, ControlFields)
  /\ other.plan = root.plan /\ other.prerequisite = root.prerequisite
  /\ other.state.plan = root.state.plan /\ other.state.sha = root.state.sha
  /\ other.state.edition = root.state.edition /\ other.state.status = root.state.status
  /\ other.state.provenance = root.state.provenance
  /\ other.state.prerequisite = root.state.prerequisite
  /\ other.state.archive = root.state.archive
  /\ IsRecord(root.inventory, InventoryFields) => IsRecord(other.inventory, InventoryFields)
  /\ IsRecord(root.archive, ArchiveFields) => IsRecord(other.archive, ArchiveFields)

LEMMA AlikeLeft ==
  ASSUME NEW root, NEW other, NEW t, NEW run, LeftBy(root, t, run), Alike(root, other)
  PROVE  LeftBy(other, t, run)
<1>1. Story(other.state, run) = Story(root.state, run)
  BY DEF Story, Alike
<1>2. QED
  BY <1>1 DEF LeftBy, Alike

LEMMA AlikeGenuine ==
  ASSUME NEW root, NEW other, NEW t, NEW runs, Genuine(root, t, runs), root.state # None,
         Alike(root, other)
  PROVE  Genuine(other, t, runs)
<1>1. other.state.status = root.state.status
  BY DEF Alike
<1>2. ASSUME other.state.status = "completed" PROVE \E run \in runs : LeftBy(other, t, run)
  BY <1>1, <1>2, AlikeLeft DEF Genuine
<1>3. QED
  BY <1>2 DEF Genuine, Shaped, Alike

LEMMA StateAlike ==
  ASSUME NEW root, Shaped(root), root.state # None, NEW field \in {"execution", "aggregate"},
         NEW x
  PROVE  Alike(root, [root EXCEPT !.state = [root.state EXCEPT ![field] = x]])
  BY DEF Alike, Shaped, IsRecord, RootFields, ControlFields

LEMMA FileAlike ==
  ASSUME NEW root, Shaped(root), root.state # None,
         NEW file \in {"provenance", "execution", "manifest", "inventory", "archive"}, NEW x,
         file = "inventory" /\ IsRecord(root.inventory, InventoryFields) =>
           IsRecord(x, InventoryFields),
         file = "archive" => IsRecord(x, ArchiveFields)
  PROVE  Alike(root, [root EXCEPT ![file] = x])
<1> DEFINE other == [root EXCEPT ![file] = x]
<1>1. IsRecord(other, RootFields)
  BY DEF Shaped, IsRecord, RootFields
<1>2. /\ other.plan = root.plan /\ other.prerequisite = root.prerequisite
      /\ other.state = root.state
      /\ other.inventory = IF file = "inventory" THEN x ELSE root.inventory
      /\ other.archive = IF file = "archive" THEN x ELSE root.archive
  BY DEF Shaped, IsRecord, RootFields
<1> HIDE DEF other
<1>3. Alike(root, other)
  BY <1>1, <1>2 DEF Alike, Shaped
<1>4. QED
  BY <1>3 DEF other

\* Whatever one alteration changes, the root still tells of the run that left it.
LEMMA AlteredAlike ==
  ASSUME NEW root, Shaped(root), root.state # None, NEW other \in Alterations(root)
  PROVE  Alike(root, other)
<1>1. other = RecordAltered(root) \/ other \in EvidenceAltered(root)
  BY DEF Alterations
<1>2. CASE other = RecordAltered(root)
  BY <1>2, FileAlike DEF RecordAltered
<1>3. CASE other = [root EXCEPT !.execution.valid = FALSE]
  BY <1>3, FileAlike
<1>4. CASE other = [root EXCEPT !.execution.edition = 0]
  BY <1>4, FileAlike
<1>5. CASE other = [root EXCEPT !.state.execution.passed = ~@]
  BY <1>5, StateAlike
<1>6. CASE other = [root EXCEPT !.state.execution.seal = root.execution]
  BY <1>6, StateAlike
<1>7. CASE other = [root EXCEPT !.manifest.execution.passed = ~@]
  BY <1>7, FileAlike
<1>8. CASE other = [root EXCEPT !.inventory.files = Tree(root)]
  <2> DEFINE x == [root.inventory EXCEPT !.files = Tree(root)]
  <2>1. IsRecord(root.inventory, InventoryFields) => IsRecord(x, InventoryFields)
    BY DEF IsRecord, InventoryFields
  <2> HIDE DEF x
  <2>2. Alike(root, [root EXCEPT !["inventory"] = x])
    BY <2>1, FileAlike
  <2>3. QED
    BY <1>8, <2>2 DEF x
<1>9. CASE other = [root EXCEPT !.inventory = Inventory(root)]
  <2>1. IsRecord(Inventory(root), InventoryFields)
    BY DEF Inventory, IsRecord, InventoryFields
  <2>2. QED
    BY <1>9, <2>1, FileAlike
<1>10. CASE other = [root EXCEPT !.state.aggregate = root.inventory.aggregate]
  BY <1>10, StateAlike
<1>11. CASE other = [root EXCEPT !.archive = Zip(root)]
  <2>1. IsRecord(Zip(root), ArchiveFields)
    BY DEF Zip, IsRecord, ArchiveFields
  <2>2. QED
    BY <1>11, <2>1, FileAlike
<1>12. QED
  BY <1>1, <1>2, <1>3, <1>4, <1>5, <1>6, <1>7, <1>8, <1>9, <1>10, <1>11 DEF EvidenceAltered

\* A root into which the launcher puts a file while its state, if any, stands.
LEMMA ArchivesGenuine ==
  ASSUME NEW root, NEW other, NEW t, NEW runs, Genuine(root, t, runs),
         IsRecord(other, RootFields), other.state = root.state,
         other.inventory = root.inventory, other.archive = root.archive,
         root.state # None => other.plan = root.plan
  PROVE  Genuine(other, t, runs)
<1>1. ASSUME other.state # None, other.state.status = "completed"
      PROVE  \E run \in runs : LeftBy(other, t, run)
  BY <1>1 DEF Genuine, LeftBy
<1>2. QED
  BY <1>1 DEF Genuine, Shaped

-----------------------------------------------------------------------------
(* What a calibration rests on *)

\* A prerequisite record that names a Stage A which ran at that commit and passed.
Rests(prerequisite, sha, runs) ==
  \E run \in runs : /\ run.id = StageA /\ run.passed /\ run.sha = sha
                    /\ prerequisite = Record(StageA, run.sha, run.edition)

FollowsInv ==
  /\ roots[Calibration].state # None =>
       Rests(roots[Calibration].prerequisite, roots[Calibration].state.sha, done)
  /\ launcher.pc # "idle" => Formal(launcher.plan)
  /\ launcher.pc \notin {"idle", "open", "derived"} /\ launcher.plan.id = Calibration =>
       Rests(launcher.prerequisite, launcher.plan.sha, done)
  /\ launcher.pc = "archived" => Root.prerequisite = launcher.prerequisite
  /\ launcher.pc = "running" => IsRecord(Root.state, ControlFields)
  /\ launcher.pc = "running" /\ launcher.plan.id = Calibration =>
       Rests(Root.prerequisite, Root.state.sha, done)

EvidenceInv == GenuineInv /\ FollowsInv

LEMMA GenuineVerifies ==
  ASSUME GenuineInv
  PROVE  VerifiedIsGenuine
<1> SUFFICES ASSUME NEW t \in Roots, roots[t].state # None,
                    roots[t].state.status = "completed", verifyCompletedSequence(roots[t])
             PROVE  LET root == roots[t]
                        begun == [NoRoot EXCEPT !.plan = root.plan, !.study = root.study,
                                                !.provenance = root.provenance,
                                                !.prerequisite = root.prerequisite]
                    IN \E run \in done :
                         /\ run.id = t
                         /\ root = Completed([begun EXCEPT !.state =
                                     Control(root.plan, run.sha, run.edition, root.provenance,
                                             root.prerequisite)], run.passed)
  BY DEF VerifiedIsGenuine
<1> DEFINE root == roots[t]
<1>1. Genuine(root, t, done)
  BY DEF GenuineInv
<1>2. PICK run \in done : LeftBy(root, t, run)
  BY <1>1 DEF Genuine
<1> DEFINE begun == [[NoRoot EXCEPT !.plan = root.plan, !.study = root.study,
                                    !.provenance = root.provenance,
                                    !.prerequisite = root.prerequisite] EXCEPT
                       !.state = Control(root.plan, run.sha, run.edition, root.provenance,
                                         root.prerequisite)]
<1>3. Shaped(root)
  BY <1>1 DEF Genuine
<1>4. root = Completed(begun, run.passed)
  BY <1>2, <1>3, VerifiedIsPacked
<1>5. run.id = t
  BY <1>2 DEF LeftBy
<1>6. QED
  BY <1>4, <1>5

\* An accepted Stage A is one that ran, at the commit asked for, and passed.
LEMMA AcceptableRests ==
  ASSUME GenuineInv, NEW record, NEW sha, Acceptable(record.id, sha, FALSE),
         BuiltRecord(record.id) = record
  PROVE  Rests(record, sha, done)
<1> DEFINE root == roots[StageA]
<1>1. record.id = StageA
  BY DEF Acceptable, Live, BuiltRecord, Record
<1>2. /\ root.state # None /\ root.state.status = "completed" /\ verifyCompletedSequence(root)
      /\ root.state.sha = sha /\ root.state.execution.passed
      /\ record = Record(StageA, root.state.sha, root.execution.edition)
  BY <1>1 DEF Acceptable, BuiltRecord
<1>3. StageA \in Roots
  BY DEF Roots, Registrations
<1>4. Shaped(root) /\ \E run \in done : LeftBy(root, StageA, run)
  BY <1>2, <1>3 DEF GenuineInv, Genuine
<1>5. PICK run \in done : LeftBy(root, StageA, run)
  BY <1>4
<1>6. root.execution.edition = run.edition /\ root.state.execution.passed = run.passed
  BY <1>2, <1>4, <1>5, VerifiedIsPacked
<1>7. run.id = StageA /\ run.sha = root.state.sha /\ run.passed
  BY <1>2, <1>5, <1>6 DEF LeftBy
<1>8. QED
  BY <1>2, <1>6, <1>7 DEF Rests

-----------------------------------------------------------------------------
(* The steps, as the evidence sees them *)

\* Runs are only added to the history, so what one of them left or carried stands.
LEMMA MoreRuns ==
  ASSUME NEW runs, NEW more, runs \subseteq more
  PROVE  /\ \A root, t : Genuine(root, t, runs) => Genuine(root, t, more)
         /\ \A record, sha : Rests(record, sha, runs) => Rests(record, sha, more)
  BY DEF Genuine, Rests

LEMMA OwnGenuine ==
  ASSUME DOMAIN roots = Roots, GenuineInv, NEW id \in Roots, NEW root,
         roots' = [roots EXCEPT ![id] = root], Genuine(root, id, done'), done \subseteq done'
  PROVE  GenuineInv' /\ roots'[id] = root /\ \A t \in Roots \ {id} : roots'[t] = roots[t]
<1>1. roots'[id] = root /\ \A t \in Roots \ {id} : roots'[t] = roots[t]
  OBVIOUS
<1>2. \A t \in Roots : Genuine(roots[t], t, done')
  BY MoreRuns DEF GenuineInv
<1>3. QED
  BY <1>1, <1>2 DEF GenuineInv

LEMMA SameEvidence ==
  ASSUME GenuineInv, UNCHANGED <<roots, done>>
  PROVE  GenuineInv'
  BY DEF GenuineInv

\* The launcher is idle, or stands where it stood, over the roots as they were.
LEMMA NothingFollows ==
  ASSUME FollowsInv, UNCHANGED <<roots, done>>, launcher' = launcher \/ launcher'.pc = "idle"
  PROVE  FollowsInv'
  BY DEF FollowsInv, Root

LEMMA RefusesIdle == ASSUME NEW why, Refuses(why) PROVE launcher'.pc = "idle"
  BY DEF Refuses, Idle

GoesOn(to) ==
  /\ launcher'.pc = to /\ launcher'.plan = launcher.plan
  /\ launcher'.prerequisite = launcher.prerequisite

LEMMA AdvancesOn ==
  ASSUME LauncherInv, NEW to, Advances([launcher EXCEPT !.pc = to])
  PROVE  GoesOn(to)
  BY DEF GoesOn, Advances, LauncherInv, Idle

LEMMA OpenPlanFollows ==
  ASSUME EvidenceInv, NEW d \in Dirs, NEW resume \in BOOLEAN, OpenPlan(d, resume)
  PROVE  EvidenceInv'
<1>1. UNCHANGED <<roots, done>>
  BY DEF OpenPlan
<1>2. CASE Refuses("preflight")
  BY <1>1, <1>2, RefusesIdle, NothingFollows, SameEvidence DEF EvidenceInv
<1>3. CASE ~Refuses("preflight")
  <2>1. Formal(registered[d].plan)
        /\ launcher' = [Idle EXCEPT !.pc = "open", !.resume = resume, !.dir = d,
                                    !.plan = registered[d].plan, !.head = head]
    BY <1>3 DEF OpenPlan, Advances
  <2>2. launcher'.pc = "open" /\ Formal(launcher'.plan)
    BY <2>1 DEF Idle
  <2>3. FollowsInv'
    BY <1>1, <2>2 DEF EvidenceInv, FollowsInv
  <2>4. QED
    BY <1>1, <2>3, SameEvidence DEF EvidenceInv
<1>4. QED
  BY <1>2, <1>3

LEMMA ProveDerivationFollows ==
  ASSUME LauncherInv, EvidenceInv, ProveDerivation
  PROVE  EvidenceInv'
<1>1. UNCHANGED <<roots, done>> /\ launcher.pc = "open" /\ DOMAIN launcher = DOMAIN Idle
  BY DEF ProveDerivation, history, LauncherInv
<1>2. CASE Refuses("preflight")
  BY <1>1, <1>2, RefusesIdle, NothingFollows, SameEvidence DEF EvidenceInv
<1>3. CASE ~Refuses("preflight")
  <2>1. launcher' = [launcher EXCEPT !.pc = "derived",
                                     !.provenance = registered[launcher.dir].provenance]
    BY <1>3 DEF ProveDerivation, Advances
  <2>2. launcher'.pc = "derived" /\ launcher'.plan = launcher.plan
    BY <1>1, <2>1 DEF Idle
  <2>3. FollowsInv'
    BY <1>1, <2>2 DEF EvidenceInv, FollowsInv
  <2>4. QED
    BY <1>1, <2>3, SameEvidence DEF EvidenceInv
<1>4. QED
  BY <1>2, <1>3

\* The gate: what a calibration names is proved to have run, on the way to the evidence root.
LEMMA ProveStageAFollows ==
  ASSUME LauncherInv, EvidenceInv, ProveStageA
  PROVE  EvidenceInv'
<1> DEFINE record == launcher.plan.prerequisite
<1>1. /\ UNCHANGED <<roots, done>> /\ launcher.pc = "derived" /\ DOMAIN launcher = DOMAIN Idle
      /\ AtDerived
  BY DEF ProveStageA, history, LauncherInv
<1>2. CASE Refuses("preflight") \/ Refuses("drill")
  BY <1>1, <1>2, RefusesIdle, NothingFollows, SameEvidence DEF EvidenceInv
<1>3. CASE ~(Refuses("preflight") \/ Refuses("drill"))
  <2>1. /\ ~(record # None /\ launcher.provenance.drill)
        /\ record = None \/ RestsOn(record)
        /\ launcher' = [launcher EXCEPT !.pc = "proven", !.prerequisite = record]
    BY <1>3 DEF ProveStageA, Advances
  <2>2. /\ launcher'.pc = "proven" /\ launcher'.plan = launcher.plan
        /\ launcher'.prerequisite = record
    BY <1>1, <2>1 DEF Idle
  <2>3. ASSUME launcher.plan.id = Calibration PROVE Rests(record, launcher.plan.sha, done)
    <3>1. Formal(launcher.plan)
      BY <1>1 DEF EvidenceInv, FollowsInv
    <3>2. record # None
      BY <2>3, <3>1 DEF Formal, NeedsStageA
    <3>3. launcher.provenance.sha = launcher.plan.sha
      BY <1>1 DEF AtDerived, OneRegistration, Provenance
    <3>4. Acceptable(record.id, launcher.provenance.sha, launcher.provenance.drill)
          /\ BuiltRecord(record.id) = record
      BY <2>1, <3>2 DEF RestsOn
    <3>5. Acceptable(record.id, launcher.plan.sha, FALSE)
      BY <2>1, <3>2, <3>3, <3>4 DEF Acceptable
    <3>6. QED
      BY <3>4, <3>5, AcceptableRests DEF EvidenceInv
  <2>4. FollowsInv'
    BY <1>1, <2>2, <2>3 DEF EvidenceInv, FollowsInv
  <2>5. QED
    BY <1>1, <2>4, SameEvidence DEF EvidenceInv
<1>4. QED
  BY <1>2, <1>3

LEMMA ReadRootFollows ==
  ASSUME LauncherInv, EvidenceInv, ReadRoot
  PROVE  EvidenceInv'
<1>1. UNCHANGED <<roots, done>> /\ launcher.pc = "proven" /\ DOMAIN launcher = DOMAIN Idle
  BY DEF ReadRoot, history, LauncherInv
<1>2. CASE Refuses("root") \/ Refuses("verified")
  BY <1>1, <1>2, RefusesIdle, NothingFollows, SameEvidence DEF EvidenceInv
<1>3. CASE ~(Refuses("root") \/ Refuses("verified"))
  <2>1. launcher' = [launcher EXCEPT !.pc = "ready"]
    BY <1>3 DEF ReadRoot, Advances
  <2>2. GoesOn("ready")
    BY <1>1, <2>1 DEF Idle, GoesOn
  <2>3. FollowsInv'
    BY <1>1, <2>2 DEF EvidenceInv, FollowsInv, GoesOn
  <2>4. QED
    BY <1>1, <2>3, SameEvidence DEF EvidenceInv
<1>4. QED
  BY <1>2, <1>3

\* A step that puts a file into the launcher's root and refuses or goes on, before any
\* prerequisite is compared with what is there.
LEMMA ArchiveFollows ==
  ASSUME RootsInv, LauncherInv, EvidenceInv, NEW root, Archived(root), done' = done,
         NEW to \in {"plan archived", "study archived"},
         launcher.pc \in {"ready", "plan archived"},
         IsRecord(root, RootFields), root.state = Root.state, root.inventory = Root.inventory,
         root.archive = Root.archive, root.prerequisite = Root.prerequisite,
         Root.state # None => root.plan = Root.plan,
         launcher'.pc = "idle" \/ GoesOn(to)
  PROVE  EvidenceInv'
<1> DEFINE id == launcher.plan.id
<1>1. id \in Roots /\ AtOpen /\ DOMAIN launcher = DOMAIN Idle
  BY DEF LauncherInv, AtOpen, Planned, Roots
<1>2. Genuine(Root, id, done)
  BY <1>1 DEF EvidenceInv, GenuineInv, Root
<1>3. Genuine(root, id, done)
  BY <1>2, ArchivesGenuine
<1>4. GenuineInv' /\ roots'[id] = root /\ \A t \in Roots \ {id} : roots'[t] = roots[t]
  BY <1>1, <1>3, OwnGenuine DEF Archived, RootsInv, EvidenceInv
<1>5. Calibration \in Roots
  BY DEF Roots, Registrations
<1>6. roots'[Calibration].state # None =>
        Rests(roots'[Calibration].prerequisite, roots'[Calibration].state.sha, done')
  BY <1>4, <1>5 DEF EvidenceInv, FollowsInv, Root
<1>7. FollowsInv'
  BY <1>6 DEF EvidenceInv, FollowsInv, GoesOn
<1>8. QED
  BY <1>4, <1>7 DEF EvidenceInv

LEMMA ArchivePlanFollows ==
  ASSUME RootsInv, LauncherInv, EvidenceInv, ArchivePlan
  PROVE  EvidenceInv'
<1> DEFINE copy == IF Root.plan # None THEN Root.plan
                   ELSE IF Has(launcher.dir, "plan") THEN registered[launcher.dir].plan
                   ELSE None
           root == [Root EXCEPT !.plan = copy]
<1>1. /\ launcher.pc = "ready" /\ AtOpen /\ AtReady /\ Archived(root) /\ done' = done
      /\ launcher'.pc = "idle" \/ GoesOn("plan archived")
  BY RefusesIdle, AdvancesOn DEF ArchivePlan, LauncherInv, history
<1>2. launcher.plan.id \in Roots /\ launcher.plan # None
  BY <1>1 DEF AtOpen, Planned, Roots
<1>3. IsRecord(Root, RootFields)
  BY <1>2 DEF EvidenceInv, GenuineInv, Genuine, Shaped, Root
<1>4. /\ IsRecord(root, RootFields) /\ root.state = Root.state
      /\ root.inventory = Root.inventory /\ root.archive = Root.archive
      /\ root.prerequisite = Root.prerequisite /\ root.plan = copy
  BY <1>3 DEF IsRecord, RootFields
<1>5. Root.state # None => Root.plan = launcher.plan
  BY <1>1 DEF AtReady, Kept
<1> HIDE DEF root
<1>6. QED
  BY <1>1, <1>2, <1>4, <1>5, ArchiveFollows

LEMMA ArchiveStudyFollows ==
  ASSUME RootsInv, LauncherInv, EvidenceInv, ArchiveStudy
  PROVE  EvidenceInv'
<1> DEFINE copy == IF Root.study # None THEN Root.study
                   ELSE IF Has(launcher.plan.dir, "study")
                        THEN registered[launcher.plan.dir].study
                   ELSE None
           root == [Root EXCEPT !.study = copy]
<1>1. /\ launcher.pc = "plan archived" /\ AtOpen /\ Archived(root) /\ done' = done
      /\ launcher'.pc = "idle" \/ GoesOn("study archived")
  BY RefusesIdle, AdvancesOn DEF ArchiveStudy, LauncherInv, history
<1>2. launcher.plan.id \in Roots
  BY <1>1 DEF AtOpen, Planned, Roots
<1>3. IsRecord(Root, RootFields)
  BY <1>2 DEF EvidenceInv, GenuineInv, Genuine, Shaped, Root
<1>4. /\ IsRecord(root, RootFields) /\ root.state = Root.state /\ root.plan = Root.plan
      /\ root.inventory = Root.inventory /\ root.archive = Root.archive
      /\ root.prerequisite = Root.prerequisite
  BY <1>3 DEF IsRecord, RootFields
<1> HIDE DEF root
<1>5. launcher.pc \in {"ready", "plan archived"} /\ done' = done /\ Archived(root)
  BY <1>1
<1>6. CASE launcher'.pc = "idle"
  BY <1>4, <1>5, <1>6, ArchiveFollows
<1>7. CASE GoesOn("study archived")
  BY <1>4, <1>5, <1>7, ArchiveFollows
<1>8. QED
  BY <1>1, <1>6, <1>7

LEMMA ArchiveRecordsFollows ==
  ASSUME RootsInv, LauncherInv, EvidenceInv, ArchiveRecords
  PROVE  EvidenceInv'
<1> DEFINE id == launcher.plan.id
           root == [Root EXCEPT !.provenance = launcher.provenance,
                                !.prerequisite = launcher.prerequisite]
<1>1. /\ launcher.pc = "study archived" /\ AtOpen /\ AtReady /\ done' = done
  BY DEF ArchiveRecords, LauncherInv, history
<1>2. id \in Roots
  BY <1>1 DEF AtOpen, Planned, Roots
<1>3. CASE Refuses("archive") /\ UNCHANGED roots
  BY <1>1, <1>3, RefusesIdle, NothingFollows, SameEvidence DEF EvidenceInv
<1>4. CASE Archived(root) /\ Advances([launcher EXCEPT !.pc = "archived"])
  <2>1. Genuine(Root, id, done) /\ IsRecord(Root, RootFields)
    BY <1>2 DEF EvidenceInv, GenuineInv, Genuine, Shaped, Root
  <2>2. /\ IsRecord(root, RootFields) /\ root.state = Root.state /\ root.plan = Root.plan
        /\ root.inventory = Root.inventory /\ root.archive = Root.archive
        /\ root.prerequisite = launcher.prerequisite
    BY <2>1 DEF IsRecord, RootFields
  <2> HIDE DEF root
  <2>3. Genuine(root, id, done)
    BY <2>1, <2>2, ArchivesGenuine
  <2>4. GenuineInv' /\ roots'[id] = root /\ \A t \in Roots \ {id} : roots'[t] = roots[t]
    BY <1>1, <1>2, <1>4, <2>3, OwnGenuine DEF Archived, RootsInv, EvidenceInv
  <2>5. GoesOn("archived")
    BY <1>4, AdvancesOn
  <2>6. Root.state # None => Root.state.sha = launcher.plan.sha
    BY <1>1 DEF AtReady, Kept
  <2>7. Calibration \in Roots
    BY DEF Roots, Registrations
  <2>8. ASSUME roots'[Calibration].state # None
        PROVE  Rests(roots'[Calibration].prerequisite, roots'[Calibration].state.sha, done')
    <3>1. CASE id = Calibration
      <4>1. Rests(launcher.prerequisite, launcher.plan.sha, done)
        BY <1>1, <3>1 DEF EvidenceInv, FollowsInv
      <4>2. QED
        BY <1>1, <2>2, <2>4, <2>6, <2>8, <3>1, <4>1
    <3>2. CASE id # Calibration
      BY <1>1, <2>4, <2>7, <2>8, <3>2 DEF EvidenceInv, FollowsInv
    <3>3. QED
      BY <3>1, <3>2
  <2>9. Root' = root
    BY <2>4, <2>5 DEF Root, GoesOn
  <2>10. FollowsInv'
    BY <1>1, <2>2, <2>5, <2>8, <2>9 DEF EvidenceInv, FollowsInv, GoesOn
  <2>11. QED
    BY <2>4, <2>10 DEF EvidenceInv
<1>5. QED
  BY <1>3, <1>4 DEF ArchiveRecords

LEMMA WriteStateFollows ==
  ASSUME RootsInv, LauncherInv, EvidenceInv, WriteState
  PROVE  EvidenceInv'
<1> DEFINE id == launcher.plan.id
           first == Control(launcher.plan, launcher.head, launched, launcher.provenance,
                            launcher.prerequisite)
           again == [Root.state EXCEPT !.status = "in-progress"]
           state == IF launcher.resume THEN again ELSE first
           root == [Root EXCEPT !.state = state]
<1>1. /\ launcher.pc = "archived" /\ AtOpen /\ AtReady /\ done' = done
      /\ Archived(root) /\ Advances([launcher EXCEPT !.pc = "running"])
  BY DEF WriteState, LauncherInv, history
<1>2. id \in Roots /\ launcher.head = launcher.plan.sha
  BY <1>1 DEF AtOpen, Planned, Roots
<1>3. /\ Genuine(Root, id, done) /\ IsRecord(Root, RootFields)
      /\ Root.state # None => IsRecord(Root.state, ControlFields)
  BY <1>2 DEF EvidenceInv, GenuineInv, Genuine, Shaped, Root
<1>4. /\ IsRecord(state, ControlFields) /\ state.status = "in-progress"
      /\ state.sha = launcher.plan.sha
  <2>1. CASE launcher.resume
    <3>1. DOMAIN Root.state = ControlFields /\ Root.state.sha = launcher.plan.sha
      BY <1>1, <2>1 DEF AtReady, Kept
    <3>2. IsRecord(again, ControlFields) /\ again.status = "in-progress"
          /\ again.sha = launcher.plan.sha
      BY <3>1 DEF IsRecord, ControlFields
    <3>3. QED
      BY <2>1, <3>2
  <2>2. CASE ~launcher.resume
    <3>1. IsRecord(first, ControlFields) /\ first.status = "in-progress"
          /\ first.sha = launcher.head
      BY DEF Control, IsRecord, ControlFields
    <3>2. QED
      BY <1>2, <2>2, <3>1
  <2>3. QED
    BY <2>1, <2>2
<1> HIDE DEF state
<1>5. IsRecord(root, RootFields) /\ root.state = state /\ root.prerequisite = Root.prerequisite
  BY <1>3 DEF IsRecord, RootFields
<1> HIDE DEF root
<1>6. Genuine(root, id, done)
  BY <1>4, <1>5 DEF Genuine, Shaped
<1>7. GenuineInv' /\ roots'[id] = root /\ \A t \in Roots \ {id} : roots'[t] = roots[t]
  BY <1>1, <1>2, <1>6, OwnGenuine DEF Archived, RootsInv, EvidenceInv
<1>8. GoesOn("running")
  BY <1>1, AdvancesOn
<1>9. Calibration \in Roots
  BY DEF Roots, Registrations
<1>10. ASSUME roots'[Calibration].state # None
       PROVE  Rests(roots'[Calibration].prerequisite, roots'[Calibration].state.sha, done')
  <2>1. CASE id = Calibration
    <3>1. Rests(launcher.prerequisite, launcher.plan.sha, done)
          /\ Root.prerequisite = launcher.prerequisite
      BY <1>1, <2>1 DEF EvidenceInv, FollowsInv
    <3>2. QED
      BY <1>1, <1>4, <1>5, <1>7, <2>1, <3>1
  <2>2. CASE id # Calibration
    BY <1>1, <1>7, <1>9, <1>10, <2>2 DEF EvidenceInv, FollowsInv
  <2>3. QED
    BY <2>1, <2>2
<1>11. /\ IsRecord(Root'.state, ControlFields)
       /\ launcher'.plan.id = Calibration => Rests(Root'.prerequisite, Root'.state.sha, done')
  <2>1. Root' = root
    BY <1>7, <1>8 DEF Root, GoesOn
  <2>2. id = Calibration => Rests(launcher.prerequisite, launcher.plan.sha, done)
                            /\ Root.prerequisite = launcher.prerequisite
    BY <1>1 DEF EvidenceInv, FollowsInv
  <2>3. QED
    BY <1>1, <1>4, <1>5, <1>8, <2>1, <2>2 DEF GoesOn
<1>12. FollowsInv'
  BY <1>1, <1>8, <1>10, <1>11 DEF EvidenceInv, FollowsInv, GoesOn
<1>13. QED
  BY <1>7, <1>12 DEF EvidenceInv

\* The launcher's root with another state beside the same prerequisite, and the launcher idle.
LEMMA EndFollows ==
  ASSUME RootsInv, LauncherInv, EvidenceInv, NEW root, Archived(root), done \subseteq done',
         launcher.pc = "running", launcher'.pc = "idle", Genuine(root, launcher.plan.id, done'),
         root.prerequisite = Root.prerequisite, root.state.sha = Root.state.sha
  PROVE  EvidenceInv'
<1> DEFINE id == launcher.plan.id
<1>1. id \in Roots
  BY DEF LauncherInv, AtOpen, Planned, Roots
<1>2. GenuineInv' /\ roots'[id] = root /\ \A t \in Roots \ {id} : roots'[t] = roots[t]
  BY <1>1, OwnGenuine DEF Archived, RootsInv, EvidenceInv
<1>3. Calibration \in Roots
  BY DEF Roots, Registrations
<1>4. ASSUME roots'[Calibration].state # None
      PROVE  Rests(roots'[Calibration].prerequisite, roots'[Calibration].state.sha, done)
  <2>1. CASE id = Calibration
    <3>1. Rests(Root.prerequisite, Root.state.sha, done)
      BY <2>1 DEF EvidenceInv, FollowsInv
    <3>2. QED
      BY <1>2, <2>1, <3>1
  <2>2. CASE id # Calibration
    BY <1>2, <1>3, <1>4, <2>2 DEF EvidenceInv, FollowsInv
  <2>3. QED
    BY <2>1, <2>2
<1>5. FollowsInv'
  BY <1>4, MoreRuns DEF FollowsInv
<1>6. QED
  BY <1>2, <1>5 DEF EvidenceInv

LEMMA FreezeViolatedFollows ==
  ASSUME RootsInv, LauncherInv, EvidenceInv, FreezeViolated
  PROVE  EvidenceInv'
<1> DEFINE state == [Root.state EXCEPT !.status = "failed"]
           root == [Root EXCEPT !.state = state]
<1>1. /\ launcher.pc = "running" /\ AtOpen /\ AtRunning /\ done' = done /\ Refuses("drift")
      /\ Archived([Root EXCEPT !.state.status = "failed"])
  BY DEF FreezeViolated, LauncherInv, history
<1>2. launcher.plan.id \in Roots
  BY <1>1 DEF AtOpen, Planned, Roots
<1>3. IsRecord(Root, RootFields) /\ DOMAIN Root.state = ControlFields
  BY <1>1, <1>2 DEF EvidenceInv, GenuineInv, Genuine, Shaped, Root, AtRunning, Kept
<1>4. /\ IsRecord(state, ControlFields) /\ state.status = "failed"
      /\ state.sha = Root.state.sha
  BY <1>3 DEF IsRecord, ControlFields
<1>5. Archived(root)
  BY <1>1
<1> HIDE DEF state
<1>6. IsRecord(root, RootFields) /\ root.state = state /\ root.prerequisite = Root.prerequisite
  BY <1>3 DEF IsRecord, RootFields
<1> HIDE DEF root
<1>7. Genuine(root, launcher.plan.id, done')
  BY <1>4, <1>6 DEF Genuine, Shaped
<1>8. launcher'.pc = "idle"
  BY <1>1, RefusesIdle
<1>9. QED
  BY <1>1, <1>4, <1>5, <1>6, <1>7, <1>8, EndFollows

\* The run that ends enters the history with what the control state says of it, and what
\* the freeze check found in the root is what the control state states.
LEMMA CompleteFollows ==
  ASSUME RootsInv, LauncherInv, EvidenceInv, NEW passed \in BOOLEAN, Complete(passed)
  PROVE  EvidenceInv'
<1> DEFINE id == launcher.plan.id
           run == [id |-> id, sha |-> Root.state.sha, edition |-> Root.state.edition,
                   passed |-> passed]
           root == Packed(Root, passed)
<1>1. /\ launcher.pc = "running" /\ AtOpen /\ AtDerived /\ AtProven /\ AtRunning
      /\ FreezeHolds /\ Archived(Completed(Root, passed)) /\ done' = done \cup {run}
      /\ Refuses("completed")
  BY DEF Complete, LauncherInv
<1>2. id \in Roots
  BY <1>1 DEF AtOpen, Planned, Roots
<1>3. /\ Root.provenance = launcher.plan.provenance
      /\ Root.prerequisite = launcher.plan.prerequisite
      /\ Root.plan = launcher.plan
  BY <1>1 DEF FreezeHolds, AtDerived, AtProven, OneRegistration, Plan
<1>4. /\ Root.state.provenance = Root.plan.provenance
      /\ Root.state.prerequisite = Root.plan.prerequisite
      /\ Root.plan = Root.state.plan /\ DOMAIN Root.state = ControlFields
  BY <1>1 DEF AtRunning, Kept, OneRegistration, Plan
<1>5. RecordsHashAsStated(Root)
  BY <1>3, <1>4 DEF RecordsHashAsStated
<1>6. IsRecord(Root, RootFields) /\ IsRecord(Root.state, ControlFields)
  BY <1>1, <1>2 DEF EvidenceInv, FollowsInv, GenuineInv, Genuine, Shaped, Root
<1>7. Completed(Root, passed) = root
  BY <1>6, CompletedIsPacked
<1>8. LeftBy(root, id, run) /\ Shaped(root)
  BY <1>4, <1>5, PackedIsLeft
<1>9. root.prerequisite = Root.prerequisite /\ root.state.sha = Root.state.sha
  BY DEF Packed
<1> HIDE DEF root, run
<1>10. run \in done' /\ done \subseteq done'
  BY <1>1
<1>11. Genuine(root, id, done')
  BY <1>8, <1>10 DEF Genuine
<1>12. launcher'.pc = "idle" /\ Archived(root)
  BY <1>1, <1>7, RefusesIdle
<1>13. QED
  BY <1>1, <1>9, <1>10, <1>11, <1>12, EndFollows

LEMMA LaunchFollows ==
  ASSUME RootsInv, LauncherInv, EvidenceInv, Launch
  PROVE  EvidenceInv'
<1>1. CASE \E d \in Dirs, resume \in BOOLEAN : OpenPlan(d, resume)
  BY <1>1, OpenPlanFollows
<1>2. CASE ProveDerivation
  BY <1>2, ProveDerivationFollows
<1>3. CASE ProveStageA
  BY <1>3, ProveStageAFollows
<1>4. CASE ReadRoot
  BY <1>4, ReadRootFollows
<1>5. CASE ArchivePlan
  BY <1>5, ArchivePlanFollows
<1>6. CASE ArchiveStudy
  BY <1>6, ArchiveStudyFollows
<1>7. CASE ArchiveRecords
  BY <1>7, ArchiveRecordsFollows
<1>8. CASE WriteState
  BY <1>8, WriteStateFollows
<1>9. CASE FreezeViolated
  BY <1>9, FreezeViolatedFollows
<1>10. CASE \E passed \in BOOLEAN : Complete(passed)
  BY <1>10, CompleteFollows
<1>11. QED
  BY <1>1, <1>2, <1>3, <1>4, <1>5, <1>6, <1>7, <1>8, <1>9, <1>10 DEF Launch

\* The root of another sequence moved away, or any root altered.
LEMMA MoveRootAwayFollows ==
  ASSUME RootsInv, LauncherInv, EvidenceInv, NEW t \in Registrations, MoveRootAway(t)
  PROVE  EvidenceInv'
<1>1. /\ roots' = [roots EXCEPT ![t] = NoRoot] /\ UNCHANGED <<launcher, done>> /\ ~InUse(t)
  BY DEF MoveRootAway, OtherHistory
<1>2. t \in Roots
  BY DEF Roots
<1>3. Genuine(NoRoot, t, done') /\ NoRoot.state = None
  BY DEF Genuine, Shaped, NoRoot, IsRecord, RootFields
<1>4. GenuineInv' /\ roots'[t] = NoRoot /\ \A u \in Roots \ {t} : roots'[u] = roots[u]
  BY <1>1, <1>2, <1>3, OwnGenuine DEF RootsInv, EvidenceInv
<1>5. launcher.pc # "idle" => Root' = Root
  BY <1>1 DEF InUse, Root, RootsInv
<1>6. Calibration \in Roots
  BY DEF Roots, Registrations
<1>7. FollowsInv'
  BY <1>1, <1>3, <1>4, <1>5, <1>6 DEF EvidenceInv, FollowsInv
<1>8. QED
  BY <1>4, <1>7 DEF EvidenceInv

LEMMA DamageRootFollows ==
  ASSUME RootsInv, LauncherInv, EvidenceInv, NEW t \in Registrations, DamageRoot(t)
  PROVE  EvidenceInv'
<1>1. PICK altered \in Alterations(roots[t]) : roots' = [roots EXCEPT ![t] = altered]
  BY DEF DamageRoot
<1>2. UNCHANGED <<launcher, done>> /\ roots[t].state # None /\ t \in Roots
  BY DEF DamageRoot, OtherHistory, Roots
<1>3. Genuine(roots[t], t, done)
  BY <1>2 DEF EvidenceInv, GenuineInv
<1>4. Alike(roots[t], altered)
  BY <1>2, <1>3, AlteredAlike DEF Genuine
<1>5. Genuine(altered, t, done')
  BY <1>2, <1>3, <1>4, AlikeGenuine
<1>6. GenuineInv' /\ roots'[t] = altered /\ \A u \in Roots \ {t} : roots'[u] = roots[u]
  BY <1>1, <1>2, <1>5, OwnGenuine DEF RootsInv, EvidenceInv
<1>7. /\ altered.prerequisite = roots[t].prerequisite
      /\ altered.state.sha = roots[t].state.sha /\ IsRecord(altered.state, ControlFields)
  BY <1>4 DEF Alike
<1>8. Calibration \in Roots
  BY DEF Roots, Registrations
<1>9. ASSUME roots'[Calibration].state # None
      PROVE  Rests(roots'[Calibration].prerequisite, roots'[Calibration].state.sha, done')
  <2>1. CASE t = Calibration
    BY <1>2, <1>6, <1>7, <2>1 DEF EvidenceInv, FollowsInv
  <2>2. CASE t # Calibration
    BY <1>2, <1>6, <1>8, <1>9, <2>2 DEF EvidenceInv, FollowsInv
  <2>3. QED
    BY <2>1, <2>2
<1>10. launcher.pc # "idle" =>
         \/ Root' = Root
         \/ /\ Root'.prerequisite = Root.prerequisite /\ Root'.state.sha = Root.state.sha
            /\ IsRecord(Root'.state, ControlFields)
  <2> SUFFICES ASSUME launcher.pc # "idle"
               PROVE  \/ Root' = Root
                      \/ /\ Root'.prerequisite = Root.prerequisite
                         /\ Root'.state.sha = Root.state.sha
                         /\ IsRecord(Root'.state, ControlFields)
    OBVIOUS
  <2>1. launcher.plan.id \in Roots
    BY DEF LauncherInv, AtOpen, Planned, Roots
  <2>2. CASE launcher.plan.id = t
    BY <1>2, <1>6, <1>7, <2>2 DEF Root
  <2>3. CASE launcher.plan.id # t
    BY <1>2, <1>6, <2>1, <2>3 DEF Root
  <2>4. QED
    BY <2>2, <2>3
<1>11. /\ launcher.pc = "archived" => Root'.prerequisite = launcher.prerequisite
       /\ launcher.pc = "running" => IsRecord(Root'.state, ControlFields)
       /\ launcher.pc = "running" /\ launcher.plan.id = Calibration =>
            Rests(Root'.prerequisite, Root'.state.sha, done)
  BY <1>10 DEF EvidenceInv, FollowsInv
<1>12. FollowsInv'
  BY <1>2, <1>9, <1>11 DEF EvidenceInv, FollowsInv
<1>13. QED
  BY <1>6, <1>12 DEF EvidenceInv

LEMMA InterfereFollows ==
  ASSUME RootsInv, LauncherInv, EvidenceInv, Interfere
  PROVE  EvidenceInv'
<1>1. CASE UNCHANGED <<launcher, roots, done>>
  BY <1>1, NothingFollows, SameEvidence DEF EvidenceInv
<1>2. CASE (\E c \in Commits : MoveHead(c)) \/ Dirty \/ Clean
  BY <1>1, <1>2 DEF MoveHead, Dirty, Clean, history, OtherHistory
<1>3. CASE \E d \in Dirs : \E file \in DOMAIN NoFiles : EditFile(d, file)
  BY <1>1, <1>3 DEF EditFile, OtherHistory
<1>4. CASE \E d, e \in Dirs : \E file \in DOMAIN NoFiles : CopyFile(d, e, file)
  BY <1>1, <1>4 DEF CopyFile, OtherHistory
<1>5. CASE (\E d \in Dirs : RemoveDirectory(d)) \/ \E r \in Registrars : KillRegistrar(r)
  BY <1>1, <1>5 DEF RemoveDirectory, KillRegistrar, OtherHistory
<1>6. CASE \E t \in Registrations : MoveRootAway(t) \/ DamageRoot(t)
  BY <1>6, MoveRootAwayFollows, DamageRootFollows
<1>7. CASE KillLauncher
  <2>1. UNCHANGED <<roots, done>> /\ launcher'.pc = "idle"
    BY <1>7 DEF KillLauncher, OtherHistory, Idle
  <2>2. QED
    BY <2>1, NothingFollows, SameEvidence DEF EvidenceInv
<1>8. QED
  BY <1>2, <1>3, <1>4, <1>5, <1>6, <1>7 DEF Interfere

\* The one root there is at the start was left by the drill that is in the history.
LEMMA InitEvidence == Init => EvidenceInv
<1> SUFFICES ASSUME Init PROVE EvidenceInv
  OBVIOUS
<1> DEFINE first == [NoRoot EXCEPT
             !.plan = Rehearsal, !.state = Control(Rehearsal, FirstCommit, 0, None, None)]
           run == [id |-> Drill, sha |-> FirstCommit, edition |-> 0, passed |-> TRUE]
<1>1. /\ first.plan = Rehearsal /\ first.state = Control(Rehearsal, FirstCommit, 0, None, None)
      /\ first.provenance = None /\ first.prerequisite = None /\ IsRecord(first, RootFields)
  BY DEF NoRoot, IsRecord, RootFields
<1>2. roots = [t \in Roots |-> IF t # Drill THEN NoRoot ELSE Completed(first, TRUE)]
  BY DEF Init
<1> HIDE DEF first
<1>3. /\ first.plan = first.state.plan /\ RecordsHashAsStated(first)
      /\ first.state.sha = FirstCommit /\ first.state.edition = 0
      /\ IsRecord(first.state, ControlFields)
  BY <1>1 DEF Control, RecordsHashAsStated, IsRecord, ControlFields
<1>4. Completed(first, TRUE) = Packed(first, TRUE)
  BY <1>1, <1>3, CompletedIsPacked
<1>5. LeftBy(Packed(first, TRUE), Drill, run) /\ Shaped(Packed(first, TRUE))
  BY <1>3, PackedIsLeft
<1>6. run \in done
  BY DEF Init
<1>7. Genuine(Completed(first, TRUE), Drill, done)
  BY <1>4, <1>5, <1>6 DEF Genuine
<1>8. NoRoot.state = None /\ \A t : Genuine(NoRoot, t, done)
  BY DEF Genuine, Shaped, NoRoot, IsRecord, RootFields
<1>9. GenuineInv
  BY <1>2, <1>7, <1>8 DEF GenuineInv
<1>10. Calibration \in Roots /\ Calibration # Drill
  BY DEF Roots, Registrations, Calibration, Drill
<1>11. launcher.pc = "idle" /\ roots[Calibration] = NoRoot
  BY <1>2, <1>10 DEF Init, Idle
<1>12. QED
  BY <1>8, <1>9, <1>11 DEF EvidenceInv, FollowsInv

LEMMA EvidenceInvariant == Spec => []EvidenceInv
<1>1. LaunchInv /\ EvidenceInv /\ [Next]_vars => EvidenceInv'
  <2> SUFFICES ASSUME RootsInv, LauncherInv, EvidenceInv, [Next]_vars PROVE EvidenceInv'
    BY DEF LaunchInv
  <2>1. CASE UNCHANGED <<launcher, roots, done>>
    BY <2>1, NothingFollows, SameEvidence DEF EvidenceInv
  <2>2. CASE UNCHANGED vars
    BY <2>1, <2>2 DEF vars, history
  <2>3. ASSUME NEW r \in Registrars, Register(r) PROVE EvidenceInv'
    <3>1. CASE RegisterStep(r)
      BY <2>1, <3>1, RegisterStepKeeps DEF history
    <3>2. CASE \E d \in Dirs, drill \in BOOLEAN, root \in {None, StageA, Drill} :
                 BeginRegister(r, d, drill, root)
      BY <2>1, <3>2 DEF BeginRegister
    <3>3. QED
      BY <2>3, <3>1, <3>2 DEF Register, RegisterStep
  <2>4. CASE Launch
    BY <2>4, LaunchFollows
  <2>5. CASE Interfere
    BY <2>5, InterfereFollows
  <2>6. QED
    BY <2>2, <2>3, <2>4, <2>5 DEF Next
<1>2. QED
  BY <1>1, InitEvidence, LaunchInvariant, PTL DEF Spec

\* EvidenceIsGenuine: a completed root that verifies is, to the last file, what a run that
\* ended left behind, whichever of its files were altered by hand and however often; and a
\* calibration exists only on a Stage A that ran at the same commit and passed
\* (sequenceVerification.ts, stageAPrerequisite.ts, registrationPreflight.ts).
THEOREM GenuineEvidence == Spec => []EvidenceIsGenuine
<1>1. EvidenceInv => EvidenceIsGenuine
  <2> SUFFICES ASSUME EvidenceInv PROVE VerifiedIsGenuine /\ CalibrationFollowsStageA
    BY DEF EvidenceIsGenuine
  <2>1. VerifiedIsGenuine
    BY GenuineVerifies DEF EvidenceInv
  <2>2. CalibrationFollowsStageA
    BY DEF EvidenceInv, FollowsInv, CalibrationFollowsStageA, Rests
  <2>3. QED
    BY <2>1, <2>2
<1>2. QED
  BY <1>1, EvidenceInvariant, PTL

-----------------------------------------------------------------------------
(* A registration nobody interfered with *)

Honest == upsets = 0 /\ ~shared

\* The templates committed at the start agree with each other.
TemplatesAgree ==
  \A id \in Registrations :
    <<StudyTemplate[FirstCommit][id], PlanTemplate[FirstCommit][id]>> \in Implements

\* The files of a registration at the first commit, as one registrar writes them.
OurStudy(id, pre) == Study(id, FirstCommit, pre)

OurProvenance(id, at, pre, drill) ==
  Provenance(id, FirstCommit, at, StudyTemplate[FirstCommit][id],
             PlanTemplate[FirstCommit][id], OurStudy(id, pre), pre, drill)

OurPlan(d, at, pre, drill) ==
  Plan(Registers[d], FirstCommit, PlanTemplate[FirstCommit][Registers[d]], d,
       OurStudy(Registers[d], pre), OurProvenance(Registers[d], at, pre, drill), pre)

FilesOf(study, v, plan, pre) ==
  [study |-> study, provenance |-> v, plan |-> plan, prerequisite |-> pre]

OurFiles(d, at, pre, drill) ==
  FilesOf(OurStudy(Registers[d], pre), OurProvenance(Registers[d], at, pre, drill),
          OurPlan(d, at, pre, drill), pre)

\* The record that the launcher's gate would accept now, if there is one.
Accepted == IF Acceptable(StageA, FirstCommit, FALSE) THEN {BuiltRecord(StageA)} ELSE {}

Backed(d, pre, drill, accepted) ==
  /\ pre \in {None} \cup Records
  /\ NeedsStageA(Registers[d]) = (pre # None)
  /\ pre # None /\ ~drill => pre \in accepted

Whole(d, f, accepted) ==
  /\ f.provenance.at \in Nat /\ f.provenance.drill \in BOOLEAN
  /\ f = OurFiles(d, f.provenance.at, f.prerequisite, f.provenance.drill)
  /\ Backed(d, f.prerequisite, f.provenance.drill, accepted)

\* The points of its walk at which a registrar has not looked at Stage A yet.
Authenticating ==
  {"clean", "headed", "study shown", "study source", "plan shown", "sources"}

\* What a registrar holds at each point of its walk, and what it has staged.
Holds(p, accepted) ==
  LET id == Registers[p.dir] IN
  /\ p.pc \in {"clean", "headed", "study shown", "study source", "plan shown", "sources",
               "proven", "staged", "study written", "validated", "recorded", "planned", "complete"}
  /\ p.dir \in Dirs /\ p.at \in Nat /\ p.drill \in BOOLEAN /\ p.root \in {None, StageA, Drill}
  /\ NeedsStageA(id) = (p.root # None)
  /\ p.pc # "clean" => p.sha = FirstCommit
  /\ p.pc \notin {"clean", "headed"} => p.studyTemplate = StudyTemplate[FirstCommit][id]
  /\ p.pc \notin {"clean", "headed", "study shown", "study source"} =>
       p.planTemplate = PlanTemplate[FirstCommit][id]
  /\ p.pc \in Authenticating => p.prerequisite = None
  /\ p.pc \notin Authenticating =>
       Backed(p.dir, p.prerequisite, p.drill, accepted)
  /\ p.pc \in {"validated", "recorded", "planned", "complete"} =>
       p.study = OurStudy(id, p.prerequisite)
  /\ p.pc \in {"recorded", "planned", "complete"} =>
       p.provenance = OurProvenance(id, p.at, p.prerequisite, p.drill)

Stages(p, f) ==
  LET study == OurStudy(Registers[p.dir], p.prerequisite)
      v     == OurProvenance(Registers[p.dir], p.at, p.prerequisite, p.drill)
      plan  == OurPlan(p.dir, p.at, p.prerequisite, p.drill)
  IN
  /\ p.pc = "staged" => f = FilesOf(None, None, None, None)
  /\ p.pc \in {"study written", "validated"} => f = FilesOf(study, None, None, None)
  /\ p.pc = "recorded" => f = FilesOf(study, v, None, None)
  /\ p.pc = "planned" => f = FilesOf(study, v, plan, None)
  /\ p.pc = "complete" => f = FilesOf(study, v, plan, p.prerequisite)

RegistrarsHonest ==
  /\ \A r \in Registrars : registrar[r].pc # "idle" =>
       Holds(registrar[r], Accepted) /\ Stages(registrar[r], staging[registrar[r].dir])
  /\ \A r, q \in Registrars :
       registrar[r].pc # "idle" /\ registrar[q].pc # "idle"
         /\ registrar[r].dir = registrar[q].dir => r = q
  /\ \A d \in Dirs : registered[d] # None => Whole(d, registered[d], Accepted)

\* Where the launcher stands in the root of its plan, and what the other roots hold.
AtWork(l) == l.pc \in {"plan archived", "study archived", "archived", "running"}

Filled(plan, study, v, pre, state) ==
  [plan |-> plan, study |-> study, provenance |-> v, prerequisite |-> pre, execution |-> None,
   manifest |-> None, inventory |-> None, archive |-> None, state |-> state]

RootSoFar(l, root) ==
  /\ l.pc = "ready" => root = NoRoot
  /\ l.pc = "plan archived" => root = Filled(l.plan, None, None, None, None)
  /\ l.pc = "study archived" => root = Filled(l.plan, l.plan.study, None, None, None)
  /\ l.pc = "archived" =>
       root = Filled(l.plan, l.plan.study, l.provenance, l.prerequisite, None)
  /\ l.pc = "running" =>
       /\ root.state.edition \in Nat
       /\ root = Filled(l.plan, l.plan.study, l.provenance, l.prerequisite,
                        Control(l.plan, l.head, root.state.edition, l.provenance,
                                l.prerequisite))

Opened(l) ==
  /\ l.outcome \notin {"preflight", "archive", "drift"}
  /\ l.pc # "idle" =>
       /\ l.dir \in Dirs /\ registered[l.dir] # None
       /\ l.plan = registered[l.dir].plan /\ l.head = FirstCommit
  /\ l.pc \notin {"idle", "open"} => l.provenance = registered[l.dir].provenance

LauncherHonest ==
  /\ Opened(launcher)
  /\ launcher.pc = "ready" \/ AtWork(launcher) => ~launcher.resume
  /\ RootSoFar(launcher, Root)

RootsHonest ==
  /\ \A t \in Registrations : \/ roots[t] = NoRoot
                              \/ AtWork(launcher) /\ launcher.plan.id = t
                              \/ roots[t].state.status = "completed"
  /\ roots[Drill].plan = Rehearsal
  /\ \A run \in done : run.edition \in Nat

HonestInv ==
  Honest => /\ head = FirstCommit /\ ~dirty
            /\ RegistrarsHonest /\ LauncherHonest /\ RootsHonest

\* What a registrar writes is a file.
LEMMA OursAreFiles ==
  ASSUME NEW d \in Dirs, NEW at \in Nat, NEW pre \in {None} \cup Records, NEW drill \in BOOLEAN
  PROVE  /\ OurStudy(Registers[d], pre) # None
         /\ OurProvenance(Registers[d], at, pre, drill) # None
         /\ OurPlan(d, at, pre, drill) # None
<1> DEFINE id == Registers[d]
<1>1. /\ id \in Registrations /\ FirstCommit \in Commits
      /\ StudyTemplate[FirstCommit][id] \in STRING /\ PlanTemplate[FirstCommit][id] \in STRING
  BY RegistrationAssumption
<1> HIDE DEF id
<1>2. OurStudy(id, pre) \in Studies
  BY <1>1 DEF OurStudy, Study, Studies
<1>3. OurProvenance(id, at, pre, drill) \in Provenances
  BY <1>1, <1>2 DEF OurProvenance, Provenance, Provenances
<1>4. OurPlan(d, at, pre, drill) \in Plans
  BY <1>1, <1>2, <1>3 DEF OurPlan, Plan, Plans, id
<1>5. QED
  BY <1>2, <1>3, <1>4, NoneIsNoFile DEF id

LEMMA OursAreWhole ==
  ASSUME NEW d, NEW at \in Nat, NEW pre, NEW drill \in BOOLEAN, NEW accepted,
         Backed(d, pre, drill, accepted)
  PROVE  Whole(d, OurFiles(d, at, pre, drill), accepted)
<1> DEFINE f == OurFiles(d, at, pre, drill)
<1>1. f.provenance.at = at /\ f.provenance.drill = drill /\ f.prerequisite = pre
  BY DEF OurFiles, FilesOf, OurProvenance, Provenance
<1>2. QED
  BY <1>1 DEF Whole

LEMMA MoreAccepted ==
  ASSUME NEW accepted, NEW more, accepted \subseteq more
  PROVE  /\ \A d, pre, drill : Backed(d, pre, drill, accepted) => Backed(d, pre, drill, more)
         /\ \A d, f : Whole(d, f, accepted) => Whole(d, f, more)
         /\ \A p : Holds(p, accepted) => Holds(p, more)
<1>1. \A d, pre, drill : Backed(d, pre, drill, accepted) => Backed(d, pre, drill, more)
  BY DEF Backed
<1>2. \A d, f : Whole(d, f, accepted) => Whole(d, f, more)
  BY <1>1 DEF Whole
<1>3. \A p : Holds(p, accepted) => Holds(p, more)
  BY <1>1 DEF Holds, Authenticating
<1>4. QED
  BY <1>1, <1>2, <1>3

\* A registrar that works in its own directory disturbs no other.
LEMMA OwnStep ==
  ASSUME FilesInv, RegistrarsHonest, Accepted' = Accepted,
         NEW r \in Registrars, registrar[r].pc # "idle", NEW p, Goes(r, p),
         p.pc # "idle" => /\ p.dir = registrar[r].dir /\ Holds(p, Accepted)
                          /\ Stages(p, staging'[p.dir]),
         \A d \in Dirs : d # registrar[r].dir => staging'[d] = staging[d],
         \A d \in Dirs : \/ registered'[d] = registered[d]
                         \/ Whole(d, registered'[d], Accepted)
  PROVE  RegistrarsHonest'
<1>1. registrar'[r] = p /\ \A q \in Registrars : q # r => registrar'[q] = registrar[q]
  BY DEF Goes, FilesInv
<1>2. ASSUME NEW q \in Registrars, registrar'[q].pc # "idle"
      PROVE  /\ Holds(registrar'[q], Accepted') /\ Stages(registrar'[q], staging'[registrar'[q].dir])
             /\ registrar[q].pc # "idle" /\ registrar'[q].dir = registrar[q].dir
  <2>1. CASE q = r
    BY <1>1, <1>2, <2>1
  <2>2. CASE q # r
    <3>1. registrar'[q] = registrar[q] /\ registrar[q].dir # registrar[r].dir
      BY <1>1, <1>2, <2>2 DEF RegistrarsHonest
    <3>2. registrar[q].dir \in Dirs
      BY <1>2, <3>1 DEF FilesInv, Working
    <3>3. staging'[registrar[q].dir] = staging[registrar[q].dir]
      BY <3>1, <3>2
    <3>4. QED
      BY <1>2, <3>1, <3>3 DEF RegistrarsHonest
  <2>3. QED
    BY <2>1, <2>2
<1>3. \A q1, q2 \in Registrars :
        registrar'[q1].pc # "idle" /\ registrar'[q2].pc # "idle"
          /\ registrar'[q1].dir = registrar'[q2].dir => q1 = q2
  BY <1>2 DEF RegistrarsHonest
<1>4. \A d \in Dirs : registered'[d] # None => Whole(d, registered'[d], Accepted')
  BY DEF RegistrarsHonest
<1>5. QED
  BY <1>2, <1>3, <1>4 DEF RegistrarsHonest

LEMMA FailsHonest ==
  ASSUME FilesInv, RegistrarsHonest, Accepted' = Accepted,
         NEW r \in Registrars, registrar[r].pc # "idle", Fails(r) \/ FailsStaged(r)
  PROVE  RegistrarsHonest'
<1>1. Goes(r, Blank) /\ Blank.pc = "idle"
  BY DEF Fails, FailsStaged, Goes, Blank
<1>2. /\ \A d \in Dirs : d # registrar[r].dir => staging'[d] = staging[d]
      /\ \A d \in Dirs : registered'[d] = registered[d]
  BY DEF Fails, FailsStaged, files, FilesInv, Batches
<1>3. QED
  BY <1>1, <1>2, OwnStep

\* A registrar reads or decides and goes on.
LEMMA ReadsHonest ==
  ASSUME FilesInv, RegistrarsHonest, Accepted' = Accepted,
         NEW r \in Registrars, registrar[r].pc # "idle", NEW p,
         (Goes(r, p) /\ UNCHANGED files) \/ Fails(r) \/ FailsStaged(r),
         p.dir = registrar[r].dir, Holds(p, Accepted), Stages(p, staging[p.dir])
  PROVE  RegistrarsHonest'
<1>1. CASE Fails(r) \/ FailsStaged(r)
  BY <1>1, FailsHonest
<1>2. CASE Goes(r, p) /\ UNCHANGED files
  <2>1. UNCHANGED staging /\ UNCHANGED registered
    BY <1>2 DEF files
  <2>2. QED
    BY <1>2, <2>1, OwnStep
<1>3. QED
  BY <1>1, <1>2

LEMMA WritesHonest ==
  ASSUME FilesInv, RegistrarsHonest, Accepted' = Accepted,
         NEW r \in Registrars, NEW from, from # "idle", NEW p, NEW file, NEW content,
         Writes(r, from, p, file, content),
         p.dir = registrar[r].dir, Holds(p, Accepted),
         Stages(p, [staging[p.dir] EXCEPT ![file] = content])
  PROVE  RegistrarsHonest'
<1>1. registrar[r].pc = from /\ p.dir \in Dirs /\ DOMAIN staging = Dirs
  BY DEF Writes, FilesInv, Batches, Working
<1>2. CASE Staged(r)
  <2>1. /\ staging' = [staging EXCEPT ![p.dir] = [staging[p.dir] EXCEPT ![file] = content]]
        /\ Goes(r, p) /\ UNCHANGED registered
    BY <1>2 DEF Writes
  <2>2. /\ staging'[p.dir] = [staging[p.dir] EXCEPT ![file] = content]
        /\ \A d \in Dirs : d # p.dir => staging'[d] = staging[d]
    BY <1>1, <2>1
  <2>3. QED
    BY <1>1, <2>1, <2>2, OwnStep
<1>3. CASE ~Staged(r)
  BY <1>1, <1>3, FailsHonest DEF Writes
<1>4. QED
  BY <1>2, <1>3

-----------------------------------------------------------------------------
(* An honest registrar *)

LEMMA BeginsHonest ==
  ASSUME FilesInv, Counters, RegistrarsHonest, Accepted' = Accepted, ~shared',
         NEW r \in Registrars, NEW d \in Dirs, NEW drill \in BOOLEAN,
         NEW root \in {None, StageA, Drill}, BeginRegister(r, d, drill, root)
  PROVE  RegistrarsHonest'
<1> DEFINE p == [Blank EXCEPT !.pc = "clean", !.dir = d, !.drill = drill, !.root = root,
                              !.at = started + 1]
<1>1. /\ registrar' = [registrar EXCEPT ![r] = p] /\ UNCHANGED files
      /\ NeedsStageA(Registers[d]) = (root # None)
      /\ \A q \in Registrars \ {r} : registrar[q].dir # d
  BY DEF BeginRegister, Goes
<1>2. /\ p.pc = "clean" /\ p.dir = d /\ p.drill = drill /\ p.root = root
      /\ p.at = started + 1 /\ p.prerequisite = None
  BY DEF Blank
<1>3. started + 1 \in Nat
  BY DEF Counters
<1> HIDE DEF p
<1>4. Holds(p, Accepted) /\ Stages(p, staging[d])
  BY <1>1, <1>2, <1>3 DEF Holds, Authenticating, Stages
<1>5. registrar'[r] = p /\ \A q \in Registrars : q # r => registrar'[q] = registrar[q]
  BY <1>1 DEF FilesInv
<1>6. staging' = staging /\ registered' = registered
  BY <1>1 DEF files
<1>7. \A q \in Registrars : registrar'[q].pc # "idle" =>
        Holds(registrar'[q], Accepted') /\ Stages(registrar'[q], staging'[registrar'[q].dir])
  BY <1>2, <1>4, <1>5, <1>6 DEF RegistrarsHonest
<1>8. \A q1, q2 \in Registrars :
        registrar'[q1].pc # "idle" /\ registrar'[q2].pc # "idle"
          /\ registrar'[q1].dir = registrar'[q2].dir => q1 = q2
  BY <1>1, <1>2, <1>5 DEF RegistrarsHonest
<1>9. QED
  BY <1>6, <1>7, <1>8 DEF RegistrarsHonest

\* What an honest registrar knows when it goes.
LEMMA AtWorkHolds ==
  ASSUME FilesInv, RegistrarsHonest, NEW r \in Registrars, registrar[r].pc # "idle"
  PROVE  /\ Holds(registrar[r], Accepted) /\ Stages(registrar[r], staging[registrar[r].dir])
         /\ DOMAIN registrar[r] = DOMAIN Blank /\ Id(r) = Registers[registrar[r].dir]
         /\ registrar[r].dir \in Dirs
  BY DEF FilesInv, RegistrarsHonest, Working, Id

LEMMA ReadHeadHonest ==
  ASSUME FilesInv, RegistrarsHonest, Accepted' = Accepted, head = FirstCommit,
         NEW r \in Registrars, ReadHead(r)
  PROVE  RegistrarsHonest'
<1> DEFINE p == registrar[r]
           q == [p EXCEPT !.pc = "headed", !.sha = head]
<1>1. p.pc = "clean" /\ ((Goes(r, q) /\ UNCHANGED files) \/ Fails(r))
  BY DEF ReadHead
<1>2. Holds(p, Accepted) /\ DOMAIN p = DOMAIN Blank
  BY <1>1, AtWorkHolds
<1>3. /\ q.pc = "headed" /\ q.sha = FirstCommit /\ q.dir = p.dir /\ q.at = p.at
      /\ q.drill = p.drill /\ q.root = p.root /\ q.prerequisite = p.prerequisite
  BY <1>2 DEF Blank
<1> HIDE DEF q
<1>4. Holds(q, Accepted) /\ Stages(q, staging[q.dir])
  BY <1>1, <1>2, <1>3 DEF Holds, Authenticating, Stages
<1>5. QED
  BY <1>1, <1>3, <1>4, ReadsHonest

LEMMA AuthenticateHonest ==
  ASSUME FilesInv, RegistrarsHonest, Accepted' = Accepted, head = FirstCommit,
         NEW r \in Registrars, AuthenticateStudy(r) \/ AuthenticatePlan(r)
  PROVE  RegistrarsHonest'
<1> DEFINE p == registrar[r]
           id == Registers[p.dir]
<1>0. /\ p.pc \in {"headed", "study shown", "study source", "plan shown"}
      /\ p.pc # "idle"
  BY DEF AuthenticateStudy, AuthenticatePlan, ShowStudy, ShowPlan, DiffHead
<1>1. Holds(p, Accepted) /\ DOMAIN p = DOMAIN Blank /\ Id(r) = id
  BY <1>0, AtWorkHolds
<1>2. CASE ShowStudy(r)
  <2> DEFINE q == [p EXCEPT !.pc = "study shown",
                            !.studyTemplate = StudyTemplate[head][Id(r)]]
  <2>1. p.pc = "headed" /\ Goes(r, q) /\ UNCHANGED files
    BY <1>2 DEF ShowStudy, files
  <2>2. /\ q.pc = "study shown" /\ q.sha = p.sha /\ q.dir = p.dir /\ q.at = p.at
        /\ q.drill = p.drill /\ q.root = p.root /\ q.prerequisite = p.prerequisite
        /\ q.studyTemplate = StudyTemplate[FirstCommit][id]
    BY <1>1 DEF Blank
  <2> HIDE DEF q
  <2>3. Holds(q, Accepted) /\ Stages(q, staging[q.dir])
    BY <1>1, <2>1, <2>2 DEF Holds, Stages, Authenticating
  <2>4. QED
    BY <2>1, <2>2, <2>3, ReadsHonest
<1>3. CASE ShowPlan(r)
  <2> DEFINE q == [p EXCEPT !.pc = "plan shown", !.planTemplate = PlanTemplate[head][Id(r)]]
  <2>1. p.pc = "study source" /\ Goes(r, q) /\ UNCHANGED files
    BY <1>3 DEF ShowPlan, files
  <2>2. /\ q.pc = "plan shown" /\ q.sha = p.sha /\ q.dir = p.dir /\ q.at = p.at
        /\ q.drill = p.drill /\ q.root = p.root /\ q.prerequisite = p.prerequisite
        /\ q.studyTemplate = p.studyTemplate /\ q.planTemplate = PlanTemplate[FirstCommit][id]
    BY <1>1 DEF Blank
  <2> HIDE DEF q
  <2>3. Holds(q, Accepted) /\ Stages(q, staging[q.dir])
    BY <1>1, <2>1, <2>2 DEF Holds, Stages, Authenticating
  <2>4. QED
    BY <2>1, <2>2, <2>3, ReadsHonest
<1>4. ASSUME NEW from, NEW to, DiffHead(r, from, to),
             <<from, to>> \in {<<"study shown", "study source">>, <<"plan shown", "sources">>}
      PROVE  RegistrarsHonest'
  <2> DEFINE q == [p EXCEPT !.pc = to]
  <2>1. p.pc = from /\ ((Goes(r, q) /\ UNCHANGED files) \/ Fails(r))
    BY <1>4 DEF DiffHead
  <2>2. /\ q.pc = to /\ q.sha = p.sha /\ q.dir = p.dir /\ q.at = p.at
        /\ q.drill = p.drill /\ q.root = p.root /\ q.prerequisite = p.prerequisite
        /\ q.studyTemplate = p.studyTemplate /\ q.planTemplate = p.planTemplate
    BY <1>1 DEF Blank
  <2> HIDE DEF q
  <2>3. Holds(q, Accepted) /\ Stages(q, staging[q.dir])
    BY <1>1, <1>4, <2>1, <2>2 DEF Holds, Stages, Authenticating
  <2>4. QED
    BY <1>4, <2>1, <2>2, <2>3, ReadsHonest
<1>5. QED
  BY <1>2, <1>3, <1>4 DEF AuthenticateStudy, AuthenticatePlan

\* The record built of an acceptable root is a record, and of a live one the accepted one.
LEMMA BuiltIsBacked ==
  ASSUME RootsInv, GenuineInv, RootsHonest, NEW root \in {StageA, Drill},
         NEW drill \in BOOLEAN, Acceptable(root, FirstCommit, drill)
  PROVE  BuiltRecord(root) \in Records /\ (~drill => BuiltRecord(root) \in Accepted)
<1> DEFINE evidence == roots[root]
<1>1. /\ evidence.state # None /\ evidence.state.status = "completed"
      /\ verifyCompletedSequence(evidence) /\ evidence.state.sha = FirstCommit
  BY DEF Acceptable
<1>2. root \in Roots
  BY DEF Roots, Registrations
<1>3. Shaped(evidence) /\ \E run \in done : LeftBy(evidence, root, run)
  BY <1>1, <1>2 DEF GenuineInv, Genuine
<1>4. PICK run \in done : LeftBy(evidence, root, run)
  BY <1>3
<1>5. evidence.execution.edition \in Nat
  BY <1>1, <1>3, <1>4, VerifiedIsPacked DEF RootsHonest
<1>6. evidence.plan.id \in Roots
  <2>1. CASE root = StageA
    <3>1. Kept(roots[StageA], StageA)
      BY <1>1, <2>1 DEF RootsInv, Registrations
    <3>2. roots[StageA].plan.id = StageA
      BY <3>1 DEF Kept, OneRegistration, Plan
    <3>3. QED
      BY <1>2, <2>1, <3>2
  <2>2. CASE root = Drill
    BY <1>2, <2>2 DEF RootsHonest, Rehearsal
  <2>3. QED
    BY <2>1, <2>2
<1>7. FirstCommit \in Commits
  BY RegistrationAssumption
<1>8. BuiltRecord(root) \in Records
  BY <1>1, <1>5, <1>6, <1>7 DEF BuiltRecord, Record, Records
<1>9. ASSUME ~drill PROVE BuiltRecord(root) \in Accepted
  <2>1. root = StageA
    BY <1>9 DEF Acceptable, Live, RootsHonest, Rehearsal, StageA, Drill
  <2>2. Acceptable(StageA, FirstCommit, FALSE)
    BY <1>9, <2>1 DEF Acceptable
  <2>3. QED
    BY <2>1, <2>2 DEF Accepted
<1>10. QED
  BY <1>8, <1>9

LEMMA TakeStageAHonest ==
  ASSUME FilesInv, RootsInv, GenuineInv, RegistrarsHonest, RootsHonest, Accepted' = Accepted,
         NEW r \in Registrars, TakeStageA(r)
  PROVE  RegistrarsHonest'
<1> DEFINE p == registrar[r]
           root == p.root
           q1 == [p EXCEPT !.pc = "proven"]
           q2 == [p EXCEPT !.pc = "proven", !.prerequisite = BuiltRecord(root)]
<1>1. p.pc = "sources" /\ p.pc # "idle"
  BY DEF TakeStageA
<1>2. Holds(p, Accepted) /\ DOMAIN p = DOMAIN Blank
  BY <1>1, AtWorkHolds
<1>3. CASE root = None
  <2>1. Goes(r, q1) /\ UNCHANGED files
    BY <1>3 DEF TakeStageA
  <2>2. /\ q1.pc = "proven" /\ q1.sha = p.sha /\ q1.dir = p.dir /\ q1.at = p.at
        /\ q1.drill = p.drill /\ q1.root = p.root /\ q1.prerequisite = p.prerequisite
        /\ q1.studyTemplate = p.studyTemplate /\ q1.planTemplate = p.planTemplate
    BY <1>2 DEF Blank
  <2> HIDE DEF q1
  <2>3. Holds(q1, Accepted) /\ Stages(q1, staging[q1.dir])
    BY <1>1, <1>2, <1>3, <2>2 DEF Holds, Authenticating, Stages, Backed
  <2>4. QED
    BY <1>1, <2>1, <2>2, <2>3, ReadsHonest
<1>4. CASE root # None /\ Acceptable(root, p.sha, p.drill)
  <2>1. Goes(r, q2) /\ UNCHANGED files
    BY <1>4 DEF TakeStageA
  <2>2. p.sha = FirstCommit /\ root \in {StageA, Drill} /\ p.drill \in BOOLEAN
    BY <1>1, <1>2, <1>4 DEF Holds, Authenticating
  <2>3. BuiltRecord(root) \in Records /\ (~p.drill => BuiltRecord(root) \in Accepted)
    BY <1>4, <2>2, BuiltIsBacked
  <2>4. BuiltRecord(root) # None
    BY <2>3, NoneIsNoFile
  <2>5. /\ q2.pc = "proven" /\ q2.sha = p.sha /\ q2.dir = p.dir /\ q2.at = p.at
        /\ q2.drill = p.drill /\ q2.root = p.root /\ q2.prerequisite = BuiltRecord(root)
        /\ q2.studyTemplate = p.studyTemplate /\ q2.planTemplate = p.planTemplate
    BY <1>2 DEF Blank
  <2> HIDE DEF q2
  <2>6. Backed(q2.dir, q2.prerequisite, q2.drill, Accepted)
    BY <1>2, <1>4, <2>3, <2>4, <2>5 DEF Holds, Authenticating, Backed
  <2>7. Holds(q2, Accepted) /\ Stages(q2, staging[q2.dir])
    BY <1>1, <1>2, <2>5, <2>6 DEF Holds, Authenticating, Stages
  <2>8. QED
    BY <1>1, <2>1, <2>5, <2>7, ReadsHonest
<1>5. CASE root # None /\ ~Acceptable(root, p.sha, p.drill)
  <2>1. Fails(r)
    BY <1>5 DEF TakeStageA
  <2>2. QED
    BY <1>1, <2>1, FailsHonest
<1>6. QED
  BY <1>3, <1>4, <1>5

\* Stamping with the template of the commit itself is what Study says.
LEMMA StampedStudy ==
  ASSUME NEW id, NEW sha, NEW pre
  PROVE  StudyFrom(id, sha, StudyTemplate[sha][id], pre) = Study(id, sha, pre)
<1> DEFINE study == Study(id, sha, pre)
<1>1. study = [f \in DOMAIN study |-> study[f]] /\ study.template = StudyTemplate[sha][id]
  BY DEF Study
<1> HIDE DEF study
<1>2. [study EXCEPT !.template = StudyTemplate[sha][id]] = study
  BY <1>1
<1>3. QED
  BY <1>2 DEF StudyFrom, study

\* The study, the provenance and the plan are written with what the registrar holds.
LEMMA WriteStudyHonest ==
  ASSUME FilesInv, RegistrarsHonest, Accepted' = Accepted, NEW r \in Registrars, WriteStudy(r)
  PROVE  RegistrarsHonest'
<1> DEFINE p == registrar[r]
           q == [p EXCEPT !.pc = "study written"]
           text == StudyFrom(Id(r), p.sha, p.studyTemplate, p.prerequisite)
<1>1. Writes(r, "staged", q, "study", text) /\ p.pc = "staged" /\ p.pc # "idle"
  BY DEF WriteStudy, Writes
<1>2. /\ Holds(p, Accepted) /\ Stages(p, staging[p.dir]) /\ DOMAIN p = DOMAIN Blank
      /\ Id(r) = Registers[p.dir]
  BY <1>1, AtWorkHolds
<1>3. /\ q.pc = "study written" /\ q.sha = p.sha /\ q.dir = p.dir /\ q.at = p.at
      /\ q.drill = p.drill /\ q.root = p.root /\ q.prerequisite = p.prerequisite
      /\ q.studyTemplate = p.studyTemplate /\ q.planTemplate = p.planTemplate
  BY <1>2 DEF Blank
<1>4. text = OurStudy(Registers[p.dir], p.prerequisite)
  <2>1. p.sha = FirstCommit /\ p.studyTemplate = StudyTemplate[FirstCommit][Registers[p.dir]]
    BY <1>1, <1>2 DEF Holds, Authenticating
  <2>2. text = StudyFrom(Registers[p.dir], FirstCommit,
                         StudyTemplate[FirstCommit][Registers[p.dir]], p.prerequisite)
    BY <1>2, <2>1
  <2>3. QED
    BY <2>2, StampedStudy DEF OurStudy
<1> HIDE DEF q, text
<1>5. Holds(q, Accepted)
  BY <1>1, <1>2, <1>3 DEF Holds, Authenticating
<1>6. [staging[p.dir] EXCEPT !["study"] = text] = FilesOf(text, None, None, None)
  <2>1. staging[p.dir] = FilesOf(None, None, None, None)
    BY <1>1, <1>2 DEF Stages
  <2>2. QED
    BY <2>1 DEF FilesOf
<1>7. Stages(q, [staging[q.dir] EXCEPT !["study"] = text])
  BY <1>3, <1>4, <1>6 DEF Stages
<1>8. QED
  BY <1>1, <1>3, <1>5, <1>7, WritesHonest

LEMMA ValidateStudyHonest ==
  ASSUME FilesInv, RegistrarsHonest, Accepted' = Accepted, NEW r \in Registrars,
         ValidateStudy(r)
  PROVE  RegistrarsHonest'
<1> DEFINE p == registrar[r]
           q == [p EXCEPT !.pc = "validated", !.study = staging[p.dir].study]
<1>1. /\ p.pc = "study written" /\ p.pc # "idle"
      /\ (Goes(r, q) /\ UNCHANGED files) \/ FailsStaged(r)
  BY DEF ValidateStudy
<1>2. Holds(p, Accepted) /\ Stages(p, staging[p.dir]) /\ DOMAIN p = DOMAIN Blank
  BY <1>1, AtWorkHolds
<1>3. staging[p.dir].study = OurStudy(Registers[p.dir], p.prerequisite)
  <2>1. staging[p.dir] = FilesOf(OurStudy(Registers[p.dir], p.prerequisite), None, None, None)
    BY <1>1, <1>2 DEF Stages
  <2>2. QED
    BY <2>1 DEF FilesOf
<1>4. /\ q.pc = "validated" /\ q.sha = p.sha /\ q.dir = p.dir /\ q.at = p.at
      /\ q.drill = p.drill /\ q.root = p.root /\ q.prerequisite = p.prerequisite
      /\ q.studyTemplate = p.studyTemplate /\ q.planTemplate = p.planTemplate
      /\ q.study = OurStudy(Registers[p.dir], p.prerequisite)
  BY <1>2, <1>3 DEF Blank
<1> HIDE DEF q
<1>5. Holds(q, Accepted) /\ Stages(q, staging[q.dir])
  BY <1>1, <1>2, <1>4 DEF Holds, Authenticating, Stages
<1>6. QED
  BY <1>1, <1>4, <1>5, ReadsHonest

LEMMA WriteProvenanceHonest ==
  ASSUME FilesInv, RegistrarsHonest, Accepted' = Accepted, NEW r \in Registrars,
         WriteProvenance(r)
  PROVE  RegistrarsHonest'
<1> DEFINE p == registrar[r]
           v == ProvenanceOf(r)
           q == [p EXCEPT !.pc = "recorded", !.provenance = v]
<1>1. Writes(r, "validated", q, "provenance", v) /\ p.pc = "validated" /\ p.pc # "idle"
  BY DEF WriteProvenance, Writes
<1>2. /\ Holds(p, Accepted) /\ Stages(p, staging[p.dir]) /\ DOMAIN p = DOMAIN Blank
      /\ Id(r) = Registers[p.dir]
  BY <1>1, AtWorkHolds
<1>3. v = OurProvenance(Registers[p.dir], p.at, p.prerequisite, p.drill)
  BY <1>1, <1>2 DEF Holds, Authenticating, ProvenanceOf, OurProvenance
<1> HIDE DEF v
<1>4. /\ q.pc = "recorded" /\ q.sha = p.sha /\ q.dir = p.dir /\ q.at = p.at
      /\ q.drill = p.drill /\ q.root = p.root /\ q.prerequisite = p.prerequisite
      /\ q.studyTemplate = p.studyTemplate /\ q.planTemplate = p.planTemplate
      /\ q.study = p.study /\ q.provenance = v
  BY <1>2 DEF Blank
<1> HIDE DEF q
<1>5. Holds(q, Accepted)
  BY <1>1, <1>2, <1>3, <1>4 DEF Holds, Authenticating
<1>6. [staging[p.dir] EXCEPT !["provenance"] = v]
        = FilesOf(OurStudy(Registers[p.dir], p.prerequisite), v, None, None)
  <2>1. staging[p.dir] = FilesOf(OurStudy(Registers[p.dir], p.prerequisite), None, None, None)
    BY <1>1, <1>2 DEF Stages
  <2>2. QED
    BY <2>1 DEF FilesOf
<1>7. Stages(q, [staging[q.dir] EXCEPT !["provenance"] = v])
  BY <1>3, <1>4, <1>6 DEF Stages
<1>8. QED
  BY <1>1, <1>4, <1>5, <1>7, WritesHonest

LEMMA WritePlanHonest ==
  ASSUME FilesInv, RegistrarsHonest, Accepted' = Accepted, NEW r \in Registrars, WritePlan(r)
  PROVE  RegistrarsHonest'
<1> DEFINE p == registrar[r]
           q == [p EXCEPT !.pc = "planned"]
           text == Plan(Id(r), p.sha, p.planTemplate, p.dir, p.study, p.provenance,
                        p.prerequisite)
<1>1. Writes(r, "recorded", q, "plan", text) /\ p.pc = "recorded" /\ p.pc # "idle"
  BY DEF WritePlan, Writes
<1>2. /\ Holds(p, Accepted) /\ Stages(p, staging[p.dir]) /\ DOMAIN p = DOMAIN Blank
      /\ Id(r) = Registers[p.dir]
  BY <1>1, AtWorkHolds
<1>3. text = OurPlan(p.dir, p.at, p.prerequisite, p.drill)
  BY <1>1, <1>2 DEF Holds, Authenticating, OurPlan
<1> HIDE DEF text
<1>4. /\ q.pc = "planned" /\ q.sha = p.sha /\ q.dir = p.dir /\ q.at = p.at
      /\ q.drill = p.drill /\ q.root = p.root /\ q.prerequisite = p.prerequisite
      /\ q.studyTemplate = p.studyTemplate /\ q.planTemplate = p.planTemplate
      /\ q.study = p.study /\ q.provenance = p.provenance
  BY <1>2 DEF Blank
<1> HIDE DEF q
<1>5. Holds(q, Accepted)
  BY <1>1, <1>2, <1>4 DEF Holds, Authenticating
<1>6. [staging[p.dir] EXCEPT !["plan"] = text]
        = FilesOf(OurStudy(Registers[p.dir], p.prerequisite),
                  OurProvenance(Registers[p.dir], p.at, p.prerequisite, p.drill), text, None)
  <2>1. staging[p.dir]
          = FilesOf(OurStudy(Registers[p.dir], p.prerequisite),
                    OurProvenance(Registers[p.dir], p.at, p.prerequisite, p.drill), None, None)
    BY <1>1, <1>2 DEF Stages
  <2>2. QED
    BY <2>1 DEF FilesOf
<1>7. Stages(q, [staging[q.dir] EXCEPT !["plan"] = text])
  BY <1>3, <1>4, <1>6 DEF Stages
<1>8. QED
  BY <1>1, <1>4, <1>5, <1>7, WritesHonest

LEMMA ClearStagingHonest ==
  ASSUME FilesInv, RegistrarsHonest, Accepted' = Accepted, NEW r \in Registrars,
         ClearStaging(r)
  PROVE  RegistrarsHonest'
<1> DEFINE p == registrar[r]
           q == [p EXCEPT !.pc = "staged"]
<1>1. /\ p.pc = "proven" /\ p.pc # "idle" /\ Goes(r, q) /\ UNCHANGED registered
      /\ staging' = [staging EXCEPT ![p.dir] = NoFiles]
  BY DEF ClearStaging
<1>2. Holds(p, Accepted) /\ DOMAIN p = DOMAIN Blank /\ p.dir \in Dirs
  BY <1>1, AtWorkHolds
<1>3. /\ q.pc = "staged" /\ q.sha = p.sha /\ q.dir = p.dir /\ q.at = p.at
      /\ q.drill = p.drill /\ q.root = p.root /\ q.prerequisite = p.prerequisite
      /\ q.studyTemplate = p.studyTemplate /\ q.planTemplate = p.planTemplate
  BY <1>2 DEF Blank
<1> HIDE DEF q
<1>4. staging'[p.dir] = NoFiles /\ \A d \in Dirs : d # p.dir => staging'[d] = staging[d]
  BY <1>1, <1>2 DEF FilesInv, Batches
<1>5. Holds(q, Accepted)
  BY <1>1, <1>2, <1>3 DEF Holds, Authenticating
<1>6. Stages(q, NoFiles)
  BY <1>3 DEF Stages, NoFiles, FilesOf
<1>7. QED
  BY <1>1, <1>3, <1>4, <1>5, <1>6, OwnStep

LEMMA WritePrerequisiteHonest ==
  ASSUME FilesInv, RegistrarsHonest, Accepted' = Accepted, NEW r \in Registrars,
         WritePrerequisite(r)
  PROVE  RegistrarsHonest'
<1> DEFINE p == registrar[r]
           q == [p EXCEPT !.pc = "complete"]
           study == OurStudy(Registers[p.dir], p.prerequisite)
           v == OurProvenance(Registers[p.dir], p.at, p.prerequisite, p.drill)
           plan == OurPlan(p.dir, p.at, p.prerequisite, p.drill)
           text == IF p.prerequisite = None THEN staging[p.dir].prerequisite
                   ELSE p.prerequisite
<1>1. p.pc = "planned" /\ p.pc # "idle"
  BY DEF WritePrerequisite
<1>2. CASE FailsStaged(r)
  BY <1>1, <1>2, FailsHonest
<1>3. CASE ~FailsStaged(r)
  <2>1. /\ Goes(r, q) /\ UNCHANGED registered
        /\ staging' = [staging EXCEPT ![p.dir] = [staging[p.dir] EXCEPT !["prerequisite"] = text]]
    BY <1>3 DEF WritePrerequisite
  <2>2. /\ Holds(p, Accepted) /\ Stages(p, staging[p.dir]) /\ DOMAIN p = DOMAIN Blank
        /\ p.dir \in Dirs
    BY <1>1, AtWorkHolds
  <2>3. /\ q.pc = "complete" /\ q.sha = p.sha /\ q.dir = p.dir /\ q.at = p.at
        /\ q.drill = p.drill /\ q.root = p.root /\ q.prerequisite = p.prerequisite
        /\ q.studyTemplate = p.studyTemplate /\ q.planTemplate = p.planTemplate
        /\ q.study = p.study /\ q.provenance = p.provenance
    BY <2>2 DEF Blank
  <2> HIDE DEF q
  <2>4. staging[p.dir] = FilesOf(study, v, plan, None)
    BY <1>1, <2>2 DEF Stages
  <2>5. text = p.prerequisite
    BY <2>4 DEF FilesOf
  <2> HIDE DEF text
  <2> HIDE DEF study, v, plan
  <2>6. [staging[p.dir] EXCEPT !["prerequisite"] = text]
          = FilesOf(study, v, plan, p.prerequisite)
    <3>1. [staging[p.dir] EXCEPT !["prerequisite"] = text] = FilesOf(study, v, plan, text)
      BY <2>4 DEF FilesOf
    <3>2. QED
      BY <2>5, <3>1
  <2> USE DEF study, v, plan
  <2>7. /\ staging'[p.dir] = FilesOf(study, v, plan, p.prerequisite)
        /\ \A d \in Dirs : d # p.dir => staging'[d] = staging[d]
    BY <2>1, <2>2, <2>6 DEF FilesInv, Batches
  <2>8. Holds(q, Accepted) /\ Stages(q, staging'[p.dir])
    BY <1>1, <2>2, <2>3, <2>7 DEF Holds, Authenticating, Stages
  <2>9. QED
    BY <1>1, <2>1, <2>3, <2>7, <2>8, OwnStep
<1>4. QED
  BY <1>2, <1>3

LEMMA CommitHonest ==
  ASSUME FilesInv, RegistrarsHonest, Accepted' = Accepted, NEW r \in Registrars, Commit(r)
  PROVE  RegistrarsHonest'
<1> DEFINE p == registrar[r]
<1>1. p.pc = "complete" /\ p.pc # "idle"
  BY DEF Commit
<1>2. CASE FailsStaged(r)
  BY <1>1, <1>2, FailsHonest
<1>3. CASE ~FailsStaged(r)
  <2>1. /\ Goes(r, Blank) /\ Blank.pc = "idle"
        /\ registered' = [registered EXCEPT ![p.dir] = staging[p.dir]]
        /\ staging' = [staging EXCEPT ![p.dir] = None]
    BY <1>3 DEF Commit, Blank
  <2>2. Holds(p, Accepted) /\ Stages(p, staging[p.dir]) /\ p.dir \in Dirs
    BY <1>1, AtWorkHolds
  <2>3. staging[p.dir] = OurFiles(p.dir, p.at, p.prerequisite, p.drill)
    BY <1>1, <2>2 DEF Stages, OurFiles
  <2>4. /\ p.at \in Nat /\ p.drill \in BOOLEAN
        /\ Backed(p.dir, p.prerequisite, p.drill, Accepted)
    BY <1>1, <2>2 DEF Holds, Authenticating
  <2>5. Whole(p.dir, staging[p.dir], Accepted)
    BY <2>3, <2>4, OursAreWhole
  <2>6. \A d \in Dirs : d # p.dir => staging'[d] = staging[d] /\ registered'[d] = registered[d]
    BY <2>1, <2>2 DEF FilesInv, Batches
  <2>7. registered'[p.dir] = staging[p.dir]
    BY <2>1, <2>2 DEF FilesInv, Batches
  <2>8. QED
    BY <1>1, <2>1, <2>5, <2>6, <2>7, OwnStep
<1>4. QED
  BY <1>2, <1>3

\* A registrar's step leaves the launcher and the roots as they are, and what it rests on.
LEMMA RegisterHonest ==
  ASSUME LaunchInv, GenuineInv, head = FirstCommit, RegistrarsHonest, LauncherHonest,
         RootsHonest, ~shared', NEW r \in Registrars, Register(r)
  PROVE  /\ UNCHANGED repository
         /\ RegistrarsHonest' /\ LauncherHonest' /\ RootsHonest'
<1>1. FilesInv /\ Counters /\ RootsInv
  BY DEF LaunchInv
<1>2. UNCHANGED <<repository, launcher, roots, done>>
  <2>1. CASE RegisterStep(r)
    BY <2>1, RegisterStepKeeps DEF history
  <2>2. CASE \E d \in Dirs, drill \in BOOLEAN, root \in {None, StageA, Drill} :
               BeginRegister(r, d, drill, root)
    BY <2>2 DEF BeginRegister
  <2>3. QED
    BY <2>1, <2>2 DEF Register, RegisterStep
<1>3. Accepted' = Accepted
  BY <1>2 DEF Accepted, Acceptable, BuiltRecord, Live
<1>4. RegistrarsHonest'
  <2>1. CASE \E d \in Dirs, drill \in BOOLEAN, root \in {None, StageA, Drill} :
               BeginRegister(r, d, drill, root)
    BY <1>1, <1>3, <2>1, BeginsHonest
  <2>2. CASE ReadHead(r)
    BY <1>1, <1>3, <2>2, ReadHeadHonest
  <2>3. CASE AuthenticateStudy(r) \/ AuthenticatePlan(r)
    BY <1>1, <1>3, <2>3, AuthenticateHonest
  <2>4. CASE TakeStageA(r)
    BY <1>1, <1>3, <2>4, TakeStageAHonest
  <2>5. CASE ClearStaging(r)
    BY <1>1, <1>3, <2>5, ClearStagingHonest
  <2>6. CASE WriteStudy(r)
    BY <1>1, <1>3, <2>6, WriteStudyHonest
  <2>7. CASE ValidateStudy(r)
    BY <1>1, <1>3, <2>7, ValidateStudyHonest
  <2>8. CASE WriteProvenance(r)
    BY <1>1, <1>3, <2>8, WriteProvenanceHonest
  <2>9. CASE WritePlan(r)
    BY <1>1, <1>3, <2>9, WritePlanHonest
  <2>10. CASE WritePrerequisite(r)
    BY <1>1, <1>3, <2>10, WritePrerequisiteHonest
  <2>11. CASE Commit(r)
    BY <1>1, <1>3, <2>11, CommitHonest
  <2>12. QED
    BY <2>1, <2>2, <2>3, <2>4, <2>5, <2>6, <2>7, <2>8, <2>9, <2>10, <2>11 DEF Register
<1>5. LauncherHonest'
  <2>1. \A d \in Dirs : registered[d] # None => registered'[d] = registered[d]
    BY <1>1, RegisterAddsOnly
  <2>2. Opened(launcher)'
    BY <1>2, <2>1 DEF LauncherHonest, Opened
  <2>3. QED
    BY <1>2, <2>2 DEF LauncherHonest, Root, AtWork, RootSoFar
<1>6. RootsHonest'
  BY <1>2 DEF RootsHonest, AtWork
<1>7. QED
  BY <1>2, <1>4, <1>5, <1>6

-----------------------------------------------------------------------------
(* An honest launch *)

\* What is registered is what one registrar wrote.
LEMMA RegisteredIsOurs ==
  ASSUME RegistrarsHonest, NEW d \in Dirs, registered[d] # None
  PROVE  \E at \in Nat, drill \in BOOLEAN : \E pre \in {None} \cup Records :
           /\ registered[d] = OurFiles(d, at, pre, drill)
           /\ Backed(d, pre, drill, Accepted)
<1> DEFINE f == registered[d]
<1>1. Whole(d, f, Accepted)
  BY DEF RegistrarsHonest
<1>2. /\ f.provenance.at \in Nat /\ f.provenance.drill \in BOOLEAN
      /\ f = OurFiles(d, f.provenance.at, f.prerequisite, f.provenance.drill)
      /\ Backed(d, f.prerequisite, f.provenance.drill, Accepted)
  BY <1>1 DEF Whole
<1>3. f.prerequisite \in {None} \cup Records
  BY <1>2 DEF Backed
<1>4. QED
  BY <1>2, <1>3

LEMMA OurFields ==
  ASSUME NEW d, NEW at, NEW pre, NEW drill, NEW f, f = OurFiles(d, at, pre, drill)
  PROVE  /\ f.study = OurStudy(Registers[d], pre)
         /\ f.provenance = OurProvenance(Registers[d], at, pre, drill)
         /\ f.plan = OurPlan(d, at, pre, drill)
         /\ f.prerequisite = pre
         /\ f.plan.id = Registers[d] /\ f.plan.dir = d /\ f.plan.sha = FirstCommit
         /\ f.plan.study = f.study /\ f.plan.provenance = f.provenance
         /\ f.plan.prerequisite = pre
         /\ f.plan.template = PlanTemplate[FirstCommit][Registers[d]]
         /\ f.study.sha = FirstCommit
         /\ f.study.template = StudyTemplate[FirstCommit][Registers[d]]
         /\ f.provenance.drill = drill /\ f.provenance.sha = FirstCommit
<1>1. /\ f.study = OurStudy(Registers[d], pre)
      /\ f.provenance = OurProvenance(Registers[d], at, pre, drill)
      /\ f.plan = OurPlan(d, at, pre, drill)
      /\ f.prerequisite = pre
  BY DEF OurFiles, FilesOf
<1>2. /\ f.plan.id = Registers[d] /\ f.plan.dir = d /\ f.plan.sha = FirstCommit
      /\ f.plan.study = f.study /\ f.plan.provenance = f.provenance
      /\ f.plan.prerequisite = pre
      /\ f.plan.template = PlanTemplate[FirstCommit][Registers[d]]
  BY <1>1 DEF OurPlan, Plan
<1>3. /\ f.study.sha = FirstCommit
      /\ f.study.template = StudyTemplate[FirstCommit][Registers[d]]
  BY <1>1 DEF OurStudy, Study
<1>4. f.provenance.drill = drill /\ f.provenance.sha = FirstCommit
  BY <1>1 DEF OurProvenance, Provenance
<1>5. QED
  BY <1>1, <1>2, <1>3, <1>4

\* A launch leaves the files to the registrars, and takes no accepted record from them.
LEMMA StillHonest ==
  ASSUME RegistrarsHonest, UNCHANGED <<files, registrar>>, Accepted \subseteq Accepted'
  PROVE  RegistrarsHonest'
<1>1. UNCHANGED staging /\ UNCHANGED registered /\ UNCHANGED registrar
  BY DEF files
<1>2. /\ \A d, f : Whole(d, f, Accepted) => Whole(d, f, Accepted')
      /\ \A p : Holds(p, Accepted) => Holds(p, Accepted')
  BY MoreAccepted
<1>3. QED
  BY <1>1, <1>2 DEF RegistrarsHonest

\* A step that writes no root keeps them honest, unless the launcher leaves its own.
LEMMA RootsAsTheyWere ==
  ASSUME RegistrarsHonest, RootsHonest, ~AtWork(launcher),
         UNCHANGED <<files, registrar, roots, done>>
  PROVE  RegistrarsHonest' /\ RootsHonest'
<1>1. Accepted' = Accepted
  BY DEF Accepted, Acceptable, BuiltRecord, Live
<1>2. RootsHonest'
  BY DEF RootsHonest
<1>3. QED
  BY <1>1, <1>2, StillHonest

LEMMA RefusesHonest ==
  ASSUME NEW why, why \notin {"preflight", "archive", "drift"}, Refuses(why)
  PROVE  LauncherHonest'
<1>1. launcher'.pc = "idle" /\ launcher'.outcome = why
  BY DEF Refuses, Idle
<1>2. QED
  BY <1>1 DEF LauncherHonest, Opened, RootSoFar, AtWork

\* The plan of an honest registration is opened: its study implements it, and both pin HEAD.
LEMMA OpenPlanHonest ==
  ASSUME LaunchInv, TemplatesAgree, head = FirstCommit, ~dirty,
         RegistrarsHonest, LauncherHonest, RootsHonest,
         NEW d \in Dirs, NEW resume \in BOOLEAN, OpenPlan(d, resume)
  PROVE  RegistrarsHonest' /\ LauncherHonest' /\ RootsHonest'
<1> DEFINE plan == registered[d].plan
           l == [Idle EXCEPT !.pc = "open", !.resume = resume, !.dir = d, !.plan = plan,
                             !.head = head]
<1>1. /\ launcher.pc = "idle" /\ registered[d] # None
      /\ UNCHANGED <<files, registrar, roots, done>>
  BY DEF OpenPlan, Has
<1>2. RegistrarsHonest' /\ RootsHonest'
  BY <1>1, RootsAsTheyWere DEF AtWork
<1>3. PICK at \in Nat, drill \in BOOLEAN : \E pre \in {None} \cup Records :
        registered[d] = OurFiles(d, at, pre, drill) /\ Backed(d, pre, drill, Accepted)
  BY <1>1, RegisteredIsOurs
<1>4. PICK pre \in {None} \cup Records :
        registered[d] = OurFiles(d, at, pre, drill) /\ Backed(d, pre, drill, Accepted)
  BY <1>3
<1>5. /\ plan.id = Registers[d] /\ plan.dir = d /\ plan.sha = FirstCommit
      /\ plan.study = registered[d].study /\ plan.prerequisite = pre
      /\ plan.template = PlanTemplate[FirstCommit][Registers[d]]
      /\ plan.study.sha = FirstCommit
      /\ plan.study.template = StudyTemplate[FirstCommit][Registers[d]]
      /\ registered[d].study = OurStudy(Registers[d], pre)
  BY <1>4, OurFields
<1>6. Formal(plan)
  BY <1>4, <1>5 DEF Formal, Backed
<1>7. StudyBound(plan)
  BY <1>1, <1>5, OursAreFiles DEF StudyBound, Has
<1>8. Reconciled(plan.study, plan)
  BY <1>5, RegistrationAssumption DEF Reconciled, TemplatesAgree
<1>9. launcher' = l
  BY <1>5, <1>6, <1>7, <1>8 DEF OpenPlan, Advances
<1>10. /\ l.pc = "open" /\ l.dir = d /\ l.plan = plan /\ l.head = FirstCommit
       /\ l.outcome = None
  BY DEF Idle
<1> HIDE DEF l
<1>11. Opened(launcher)'
  BY <1>1, <1>9, <1>10, NoneIsNoFile DEF Opened, files
<1>12. LauncherHonest'
  BY <1>9, <1>10, <1>11 DEF LauncherHonest, RootSoFar, AtWork
<1>13. QED
  BY <1>2, <1>12

\* The launcher stands before the root of its plan; what it holds is what is registered.
LEMMA HoldsTheRegistered ==
  ASSUME LaunchInv, RegistrarsHonest, LauncherHonest, launcher.pc # "idle"
  PROVE  \E at \in Nat, drill \in BOOLEAN : \E pre \in {None} \cup Records :
           LET f == registered[launcher.dir] IN
           /\ launcher.dir \in Dirs /\ f # None
           /\ f = OurFiles(launcher.dir, at, pre, drill)
           /\ Backed(launcher.dir, pre, drill, Accepted)
           /\ launcher.plan = f.plan /\ launcher.head = FirstCommit
<1>1. /\ launcher.dir \in Dirs /\ registered[launcher.dir] # None
      /\ launcher.plan = registered[launcher.dir].plan /\ launcher.head = FirstCommit
  BY DEF LauncherHonest, Opened
<1>2. QED
  BY <1>1, RegisteredIsOurs

\* The launcher learns something and goes on to the next point.
LEMMA AdvancesHonest ==
  ASSUME LaunchInv, LauncherHonest, launcher.pc # "idle", NEW l, Advances(l),
         UNCHANGED registered,
         l.pc \in {"derived", "proven"}, l.dir = launcher.dir, l.plan = launcher.plan,
         l.head = launcher.head, l.outcome = launcher.outcome,
         l.provenance = registered[l.dir].provenance
  PROVE  LauncherHonest'
<1>1. Opened(launcher)'
  BY DEF LauncherHonest, Opened, Advances
<1>2. launcher'.pc \in {"derived", "proven"}
  BY DEF Advances
<1>3. QED
  BY <1>1, <1>2 DEF LauncherHonest, RootSoFar, AtWork

LEMMA ProveDerivationHonest ==
  ASSUME LaunchInv, RegistrarsHonest, LauncherHonest, RootsHonest, ProveDerivation
  PROVE  RegistrarsHonest' /\ LauncherHonest' /\ RootsHonest'
<1> DEFINE d == launcher.dir
           f == registered[d]
           l == [launcher EXCEPT !.pc = "derived", !.provenance = f.provenance]
<1>1. /\ launcher.pc = "open" /\ UNCHANGED <<files, registrar, roots, done>>
      /\ DOMAIN launcher = DOMAIN Idle
  BY DEF ProveDerivation, history, LaunchInv, LauncherInv
<1>2. RegistrarsHonest' /\ RootsHonest'
  BY <1>1, RootsAsTheyWere DEF AtWork
<1>3. PICK at \in Nat, drill \in BOOLEAN : \E pre \in {None} \cup Records :
        /\ d \in Dirs /\ f # None /\ f = OurFiles(d, at, pre, drill)
        /\ launcher.plan = f.plan
  BY <1>1, HoldsTheRegistered
<1>4. PICK pre \in {None} \cup Records :
        /\ d \in Dirs /\ f # None /\ f = OurFiles(d, at, pre, drill)
        /\ launcher.plan = f.plan
  BY <1>3
<1> HIDE DEF d, f
<1>5. /\ f.study = OurStudy(Registers[d], pre) /\ f.plan = OurPlan(d, at, pre, drill)
      /\ f.provenance = OurProvenance(Registers[d], at, pre, drill)
  BY <1>4, OurFields
<1>6. Has(d, "provenance") /\ Has(d, "study")
  BY <1>4, <1>5, OursAreFiles DEF Has, f
<1>7. Derived(f.plan, f.provenance)
  BY <1>5, <1>6 DEF Derived, OurPlan, OurProvenance, OurStudy, Plan, Provenance, f
<1>8. Advances(l)
  BY <1>4, <1>6, <1>7 DEF ProveDerivation, d, f
<1>9. /\ l.pc = "derived" /\ l.dir = d /\ l.plan = launcher.plan /\ l.head = launcher.head
      /\ l.outcome = launcher.outcome /\ l.provenance = f.provenance
  BY <1>1 DEF Idle, d
<1> HIDE DEF l
<1>10. LauncherHonest'
  BY <1>1, <1>8, <1>9, AdvancesHonest DEF d, f, files
<1>11. QED
  BY <1>2, <1>10

\* The record of a live Stage A was accepted when the registrar took it, and still is.
LEMMA ProveStageAHonest ==
  ASSUME LaunchInv, RegistrarsHonest, LauncherHonest, RootsHonest, ProveStageA
  PROVE  RegistrarsHonest' /\ LauncherHonest' /\ RootsHonest'
<1> DEFINE d == launcher.dir
           f == registered[d]
           record == launcher.plan.prerequisite
           l == [launcher EXCEPT !.pc = "proven", !.prerequisite = record]
<1>1. /\ launcher.pc = "derived" /\ UNCHANGED <<files, registrar, roots, done>>
      /\ DOMAIN launcher = DOMAIN Idle
  BY DEF ProveStageA, history, LaunchInv, LauncherInv
<1>2. RegistrarsHonest' /\ RootsHonest'
  BY <1>1, RootsAsTheyWere DEF AtWork
<1>3. PICK at \in Nat, drill \in BOOLEAN : \E pre \in {None} \cup Records :
        /\ d \in Dirs /\ f # None /\ f = OurFiles(d, at, pre, drill)
        /\ Backed(d, pre, drill, Accepted) /\ launcher.plan = f.plan
  BY <1>1, HoldsTheRegistered
<1>4. PICK pre \in {None} \cup Records :
        /\ d \in Dirs /\ f # None /\ f = OurFiles(d, at, pre, drill)
        /\ Backed(d, pre, drill, Accepted) /\ launcher.plan = f.plan
  BY <1>3
<1>5. launcher.provenance = f.provenance
  BY <1>1 DEF LauncherHonest, Opened
<1> HIDE DEF d, f
<1>6. /\ record = pre /\ f.prerequisite = pre
      /\ f.provenance.drill = drill /\ f.provenance.sha = FirstCommit
  BY <1>4, OurFields
<1>7. CASE record # None /\ drill
  <2>1. Refuses("drill")
    BY <1>5, <1>6, <1>7 DEF ProveStageA
  <2>2. QED
    BY <1>2, <2>1, RefusesHonest
<1>8. CASE ~(record # None /\ drill)
  <2>1. record # None => RestsOn(record)
    <3>1. SUFFICES ASSUME record # None PROVE RestsOn(record)
      OBVIOUS
    <3>2. Acceptable(StageA, FirstCommit, FALSE) /\ record = BuiltRecord(StageA)
      BY <1>4, <1>6, <1>8, <3>1 DEF Backed, Accepted
    <3>3. record.id = StageA
      BY <3>2 DEF Acceptable, Live, BuiltRecord, Record
    <3>4. drill = FALSE
      BY <1>8, <3>1
    <3>5. QED
      BY <1>4, <1>5, <1>6, <3>1, <3>2, <3>3, <3>4 DEF RestsOn, Has, d, f
  <2>2. Advances(l)
    BY <1>5, <1>6, <1>8, <2>1 DEF ProveStageA
  <2>3. /\ l.pc = "proven" /\ l.dir = d /\ l.plan = launcher.plan /\ l.head = launcher.head
        /\ l.outcome = launcher.outcome /\ l.provenance = f.provenance
    BY <1>1, <1>5 DEF Idle, d
  <2> HIDE DEF l
  <2>4. LauncherHonest'
    BY <1>1, <2>2, <2>3, AdvancesHonest DEF d, f, files
  <2>5. QED
    BY <1>2, <2>4
<1>9. QED
  BY <1>7, <1>8

\* An honest launch starts in an empty root: what stands in one is completed.
LEMMA ReadRootHonest ==
  ASSUME LaunchInv, RegistrarsHonest, LauncherHonest, RootsHonest, ReadRoot
  PROVE  RegistrarsHonest' /\ LauncherHonest' /\ RootsHonest'
<1> DEFINE l == [launcher EXCEPT !.pc = "ready"]
<1>1. /\ launcher.pc = "proven" /\ UNCHANGED <<files, registrar, roots, done>>
      /\ DOMAIN launcher = DOMAIN Idle /\ launcher.plan.id \in Registrations
  BY DEF ReadRoot, history, LaunchInv, LauncherInv, AtOpen, Planned
<1>2. RegistrarsHonest' /\ RootsHonest'
  BY <1>1, RootsAsTheyWere DEF AtWork
<1>3. CASE Refuses("root") \/ Refuses("verified")
  BY <1>2, <1>3, RefusesHonest
<1>4. CASE ~(Refuses("root") \/ Refuses("verified"))
  <2>1. /\ RootIsOurs /\ Advances(l)
        /\ ~(Root.state # None /\ Root.state.status = "completed")
    BY <1>4 DEF ReadRoot
  <2>2. Root = NoRoot \/ Root.state.status = "completed"
    BY <1>1 DEF RootsHonest, AtWork, Root
  <2>3. ~launcher.resume /\ Root = NoRoot
    BY <2>1, <2>2 DEF RootIsOurs, NoRoot
  <2>4. /\ l.pc = "ready" /\ l.dir = launcher.dir /\ l.plan = launcher.plan
        /\ l.head = launcher.head /\ l.outcome = launcher.outcome
        /\ l.provenance = launcher.provenance /\ l.resume = launcher.resume
    BY <1>1 DEF Idle
  <2> HIDE DEF l
  <2>5. launcher' = l /\ Root' = Root /\ registered' = registered
    BY <1>1, <2>1, <2>4 DEF Advances, Root, files
  <2>6. Opened(launcher)'
    BY <1>1, <2>4, <2>5 DEF LauncherHonest, Opened
  <2>7. QED
    BY <1>2, <2>3, <2>4, <2>5, <2>6 DEF LauncherHonest, RootSoFar, AtWork
<1>5. QED
  BY <1>3, <1>4

\* The launcher writes the root it works in: no record was accepted of that one.
LEMMA OwnRootHonest ==
  ASSUME LaunchInv, RegistrarsHonest, LauncherHonest, RootsHonest,
         launcher.pc = "ready" \/ AtWork(launcher), NEW root, Archived(root),
         UNCHANGED <<files, registrar>>, \A run \in done' : run.edition \in Nat,
         \/ AtWork(launcher') /\ launcher'.plan = launcher.plan
         \/ root.state.status = "completed"
  PROVE  /\ RegistrarsHonest' /\ RootsHonest'
         /\ launcher'.plan = launcher.plan => Root' = root
<1> DEFINE id == launcher.plan.id
<1>1. /\ DOMAIN roots = Roots /\ id \in Registrations
      /\ roots' = [roots EXCEPT ![id] = root]
  BY DEF LaunchInv, LauncherInv, AtOpen, Planned, RootsInv, Archived, AtWork
<1>2. id \in Roots /\ Drill \in Roots /\ id # Drill /\ StageA \in Roots /\ Registrations \subseteq Roots
  BY <1>1 DEF Roots, Registrations, StageA, Calibration, Drill
<1>3. roots'[id] = root /\ \A t \in Roots : t # id => roots'[t] = roots[t]
  BY <1>1, <1>2
<1>4. Root.state = None \/ Root.state.status = "in-progress"
  <2>1. RootSoFar(launcher, Root)
    BY DEF LauncherHonest
  <2>2. CASE launcher.pc = "ready"
    <3>1. Root = NoRoot
      BY <2>1, <2>2 DEF RootSoFar
    <3>2. QED
      BY <3>1 DEF NoRoot
  <2>3. CASE launcher.pc \in {"plan archived", "study archived", "archived"}
    <3>1. \E study, v, pre : Root = Filled(launcher.plan, study, v, pre, None)
      BY <2>1, <2>3 DEF RootSoFar
    <3>2. QED
      BY <3>1 DEF Filled
  <2>4. CASE launcher.pc = "running"
    <3>1. Root.state = Control(launcher.plan, launcher.head, Root.state.edition,
                               launcher.provenance, launcher.prerequisite)
      BY <2>1, <2>4 DEF RootSoFar, Filled
    <3>2. QED
      BY <3>1 DEF Control
  <2>5. QED
    BY <2>2, <2>3, <2>4 DEF AtWork
<1>5. Accepted \subseteq Accepted'
  <2>1. CASE id = StageA
    BY <1>4, <2>1 DEF Accepted, Acceptable, Root
  <2>2. CASE id # StageA
    <3>1. roots'[StageA] = roots[StageA]
      BY <1>2, <1>3, <2>2
    <3>2. QED
      BY <3>1 DEF Accepted, Acceptable, BuiltRecord, Live
  <2>3. QED
    BY <2>1, <2>2
<1>6. RegistrarsHonest'
  BY <1>5, StillHonest
<1>7. ASSUME NEW t \in Registrations
      PROVE  \/ roots'[t] = NoRoot
             \/ AtWork(launcher') /\ launcher'.plan.id = t
             \/ roots'[t].state.status = "completed"
  <2>1. CASE t = id
    BY <1>3, <2>1
  <2>2. CASE t # id
    BY <1>2, <1>3, <2>2 DEF RootsHonest
  <2>3. QED
    BY <2>1, <2>2
<1>8. roots'[Drill].plan = Rehearsal
  BY <1>2, <1>3 DEF RootsHonest
<1>9. RootsHonest'
  BY <1>7, <1>8 DEF RootsHonest
<1>10. QED
  BY <1>3, <1>6, <1>9 DEF Root

\* The launcher works on in its root.
WorksOn(l, to) ==
  /\ l.pc = to /\ l.dir = launcher.dir /\ l.plan = launcher.plan /\ l.head = launcher.head
  /\ l.outcome = launcher.outcome /\ l.resume = launcher.resume
  /\ l.provenance = launcher.provenance /\ l.prerequisite = launcher.prerequisite

LEMMA WorksOnHonest ==
  ASSUME LaunchInv, RegistrarsHonest, LauncherHonest, RootsHonest,
         launcher.pc = "ready" \/ AtWork(launcher),
         NEW to \in {"plan archived", "study archived", "archived", "running"},
         Advances([launcher EXCEPT !.pc = to]), NEW root, Archived(root),
         UNCHANGED <<files, registrar, done>>,
         \A l : WorksOn(l, to) => RootSoFar(l, root)
  PROVE  RegistrarsHonest' /\ LauncherHonest' /\ RootsHonest'
<1> DEFINE l == [launcher EXCEPT !.pc = to]
<1>1. DOMAIN launcher = DOMAIN Idle
  BY DEF LaunchInv, LauncherInv
<1>2. WorksOn(l, to) /\ launcher' = l
  BY <1>1 DEF WorksOn, Idle, Advances
<1> HIDE DEF l
<1>3. AtWork(launcher') /\ launcher'.plan = launcher.plan
  BY <1>2 DEF AtWork, WorksOn
<1>4. RegistrarsHonest' /\ RootsHonest' /\ Root' = root
  BY <1>3, OwnRootHonest DEF RootsHonest
<1>5. Opened(launcher)'
  BY <1>2 DEF LauncherHonest, Opened, WorksOn, AtWork, files
<1>6. LauncherHonest'
  BY <1>2, <1>4, <1>5 DEF LauncherHonest, WorksOn
<1>7. QED
  BY <1>4, <1>6

LEMMA ArchivePlanHonest ==
  ASSUME LaunchInv, RegistrarsHonest, LauncherHonest, RootsHonest, ArchivePlan
  PROVE  RegistrarsHonest' /\ LauncherHonest' /\ RootsHonest'
<1> DEFINE root == [Root EXCEPT !.plan = launcher.plan]
<1>1. launcher.pc = "ready" /\ UNCHANGED <<files, registrar, done>>
  BY DEF ArchivePlan, history
<1>2. /\ Root = NoRoot /\ registered[launcher.dir] # None
      /\ launcher.plan = registered[launcher.dir].plan
  BY <1>1 DEF LauncherHonest, RootSoFar, Opened
<1>3. launcher.plan # None
  BY <1>1 DEF LaunchInv, LauncherInv, AtOpen
<1>4. Archived(root) /\ Advances([launcher EXCEPT !.pc = "plan archived"])
  BY <1>2, <1>3 DEF ArchivePlan, Has, NoRoot
<1>5. root = Filled(launcher.plan, None, None, None, None)
  BY <1>2 DEF NoRoot, Filled
<1> HIDE DEF root
<1>6. \A l : WorksOn(l, "plan archived") => RootSoFar(l, root)
  BY <1>5 DEF WorksOn, RootSoFar
<1>7. QED
  BY <1>1, <1>4, <1>6, WorksOnHonest

LEMMA ArchiveStudyHonest ==
  ASSUME LaunchInv, RegistrarsHonest, LauncherHonest, RootsHonest, ArchiveStudy
  PROVE  RegistrarsHonest' /\ LauncherHonest' /\ RootsHonest'
<1> DEFINE root == [Root EXCEPT !.study = launcher.plan.study]
           d == launcher.dir
           f == registered[d]
<1>1. launcher.pc = "plan archived" /\ UNCHANGED <<files, registrar, done>>
  BY DEF ArchiveStudy, history
<1>2. Root = Filled(launcher.plan, None, None, None, None)
  BY <1>1 DEF LauncherHonest, RootSoFar
<1>3. \E at \in Nat, drill \in BOOLEAN : \E pre \in {None} \cup Records :
        /\ d \in Dirs /\ f # None /\ f = OurFiles(d, at, pre, drill)
        /\ launcher.plan = f.plan
  BY <1>1, HoldsTheRegistered
<1>4. f # None /\ launcher.plan.dir = d /\ launcher.plan.study = f.study
  BY <1>3, OurFields
<1>5. launcher.plan.study # None /\ Root.study = None
  BY <1>1, <1>2 DEF LaunchInv, LauncherInv, AtOpen, Filled
<1>6. Archived(root) /\ Advances([launcher EXCEPT !.pc = "study archived"])
  BY <1>4, <1>5 DEF ArchiveStudy, Has
<1>7. root = Filled(launcher.plan, launcher.plan.study, None, None, None)
  <2> DEFINE r == Root
             study == launcher.plan.study
  <2>1. r = Filled(launcher.plan, None, None, None, None)
    BY <1>2
  <2> HIDE DEF r, study
  <2>2. [r EXCEPT !.study = study] = Filled(launcher.plan, study, None, None, None)
    BY <2>1 DEF Filled
  <2>3. QED
    BY <2>2 DEF r, study
<1> HIDE DEF root
<1>8. \A l : WorksOn(l, "study archived") => RootSoFar(l, root)
  BY <1>7 DEF WorksOn, RootSoFar
<1>9. AtWork(launcher)
  BY <1>1 DEF AtWork
<1>10. QED
  BY <1>1, <1>6, <1>8, <1>9, WorksOnHonest

LEMMA ArchiveRecordsHonest ==
  ASSUME LaunchInv, RegistrarsHonest, LauncherHonest, RootsHonest, ArchiveRecords
  PROVE  RegistrarsHonest' /\ LauncherHonest' /\ RootsHonest'
<1> DEFINE root == [Root EXCEPT !.provenance = launcher.provenance,
                                !.prerequisite = launcher.prerequisite]
<1>1. launcher.pc = "study archived" /\ UNCHANGED <<files, registrar, done>>
  BY DEF ArchiveRecords, history
<1>2. Root = Filled(launcher.plan, launcher.plan.study, None, None, None)
  BY <1>1 DEF LauncherHonest, RootSoFar
<1>3. Root.provenance = None /\ Root.prerequisite = None
  BY <1>2 DEF Filled
<1>4. Archived(root) /\ Advances([launcher EXCEPT !.pc = "archived"])
  BY <1>3 DEF ArchiveRecords
<1>5. root = Filled(launcher.plan, launcher.plan.study, launcher.provenance,
                    launcher.prerequisite, None)
  <2> DEFINE r == Root
             plan == launcher.plan
             study == launcher.plan.study
             v == launcher.provenance
             pre == launcher.prerequisite
  <2>1. r = Filled(plan, study, None, None, None)
    BY <1>2
  <2> HIDE DEF r, plan, study, v, pre
  <2> DEFINE s == [r EXCEPT !.provenance = v]
  <2>2. s = Filled(plan, study, v, None, None)
    BY <2>1 DEF Filled
  <2> HIDE DEF s
  <2>3. [s EXCEPT !.prerequisite = pre] = Filled(plan, study, v, pre, None)
    BY <2>2 DEF Filled
  <2>4. QED
    BY <2>3 DEF r, s, plan, study, v, pre
<1> HIDE DEF root
<1>6. \A l : WorksOn(l, "archived") => RootSoFar(l, root)
  BY <1>5 DEF WorksOn, RootSoFar
<1>7. AtWork(launcher)
  BY <1>1 DEF AtWork
<1>8. QED
  BY <1>1, <1>4, <1>6, <1>7, WorksOnHonest

LEMMA WriteStateHonest ==
  ASSUME LaunchInv, RegistrarsHonest, LauncherHonest, RootsHonest, WriteState
  PROVE  RegistrarsHonest' /\ LauncherHonest' /\ RootsHonest'
<1> DEFINE state == Control(launcher.plan, launcher.head, launched, launcher.provenance,
                            launcher.prerequisite)
           root == [Root EXCEPT !.state = state]
<1>1. launcher.pc = "archived" /\ UNCHANGED <<files, registrar, done>> /\ AtWork(launcher)
  BY DEF WriteState, history, AtWork
<1>2. Root = Filled(launcher.plan, launcher.plan.study, launcher.provenance,
                    launcher.prerequisite, None)
  BY <1>1 DEF LauncherHonest, RootSoFar
<1>3. ~launcher.resume
  BY <1>1 DEF LauncherHonest
<1>4. Archived(root) /\ Advances([launcher EXCEPT !.pc = "running"])
  BY <1>3 DEF WriteState
<1>5. root = Filled(launcher.plan, launcher.plan.study, launcher.provenance,
                    launcher.prerequisite, state)
  <2> DEFINE r == Root
             plan == launcher.plan
             study == launcher.plan.study
             v == launcher.provenance
             pre == launcher.prerequisite
  <2>1. r = Filled(plan, study, v, pre, None)
    BY <1>2
  <2> HIDE DEF r, plan, study, v, pre, state
  <2>2. [r EXCEPT !.state = state] = Filled(plan, study, v, pre, state)
    BY <2>1 DEF Filled
  <2>3. QED
    BY <2>2 DEF r, plan, study, v, pre
<1> HIDE DEF root
<1>6. root.state.edition = launched /\ launched \in Nat
  BY <1>5 DEF Filled, Control, LaunchInv, Counters
<1>7. \A l : WorksOn(l, "running") => RootSoFar(l, root)
  BY <1>5, <1>6 DEF WorksOn, RootSoFar
<1>8. QED
  BY <1>1, <1>4, <1>7, WorksOnHonest

\* While an honest sequence runs, nothing that it froze changes.
LEMMA FrozenHolds ==
  ASSUME LaunchInv, head = FirstCommit, ~dirty, RegistrarsHonest, LauncherHonest,
         launcher.pc = "running"
  PROVE  FreezeHolds
<1> DEFINE d == launcher.dir
           f == registered[d]
<1>1. Root = Filled(launcher.plan, launcher.plan.study, launcher.provenance,
                    launcher.prerequisite,
                    Control(launcher.plan, launcher.head, Root.state.edition,
                            launcher.provenance, launcher.prerequisite))
  BY DEF LauncherHonest, RootSoFar
<1>2. /\ Root.plan = launcher.plan /\ Root.study = launcher.plan.study
      /\ Root.provenance = launcher.provenance /\ Root.prerequisite = launcher.prerequisite
  BY <1>1 DEF Filled
<1>3. \E at \in Nat, drill \in BOOLEAN : \E pre \in {None} \cup Records :
        /\ d \in Dirs /\ f # None /\ f = OurFiles(d, at, pre, drill)
        /\ launcher.plan = f.plan /\ launcher.head = FirstCommit
  BY HoldsTheRegistered
<1>4. /\ f # None /\ launcher.plan.dir = d /\ launcher.plan.study = f.study
      /\ launcher.head = FirstCommit
  BY <1>3, OurFields
<1>5. \E at \in Nat, drill \in BOOLEAN : \E pre \in {None} \cup Records :
        d \in Dirs /\ f.study = OurStudy(Registers[d], pre)
  BY <1>3, OurFields
<1>6. f.study # None
  BY <1>5, OursAreFiles
<1>7. QED
  BY <1>2, <1>4, <1>6 DEF FreezeHolds, Has

LEMMA CompleteHonest ==
  ASSUME LaunchInv, EvidenceInv, RegistrarsHonest, LauncherHonest, RootsHonest,
         NEW passed \in BOOLEAN, Complete(passed)
  PROVE  RegistrarsHonest' /\ LauncherHonest' /\ RootsHonest'
<1> DEFINE root == Completed(Root, passed)
           run == [id |-> launcher.plan.id, sha |-> Root.state.sha,
                   edition |-> Root.state.edition, passed |-> passed]
<1>1. /\ launcher.pc = "running" /\ AtWork(launcher) /\ UNCHANGED <<files, registrar>>
      /\ Archived(root) /\ done' = done \cup {run} /\ Refuses("completed")
  BY DEF Complete, AtWork
<1>2. launcher.plan.id \in Roots
  BY <1>1 DEF LaunchInv, LauncherInv, AtOpen, Planned, Roots
<1>3. IsRecord(Root, RootFields) /\ IsRecord(Root.state, ControlFields)
  BY <1>1, <1>2 DEF EvidenceInv, FollowsInv, GenuineInv, Genuine, Shaped, Root
<1>4. root = Packed(Root, passed)
  BY <1>3, CompletedIsPacked
<1>5. root.state.status = "completed"
  BY <1>4 DEF Packed
<1>6. Root.state.edition \in Nat
  BY <1>1 DEF LauncherHonest, RootSoFar
<1>7. \A other \in done' : other.edition \in Nat
  BY <1>1, <1>6 DEF RootsHonest
<1> HIDE DEF root
<1>8. RegistrarsHonest' /\ RootsHonest'
  BY <1>1, <1>5, <1>7, OwnRootHonest
<1>9. LauncherHonest'
  BY <1>1, RefusesHonest
<1>10. QED
  BY <1>8, <1>9

LEMMA LaunchHonest ==
  ASSUME LaunchInv, EvidenceInv, TemplatesAgree, head = FirstCommit, ~dirty,
         RegistrarsHonest, LauncherHonest, RootsHonest, Launch
  PROVE  UNCHANGED repository /\ RegistrarsHonest' /\ LauncherHonest' /\ RootsHonest'
<1>1. CASE \E d \in Dirs, resume \in BOOLEAN : OpenPlan(d, resume)
  <2>1. PICK d \in Dirs, resume \in BOOLEAN : OpenPlan(d, resume)
    BY <1>1
  <2>2. UNCHANGED repository
    BY <2>1 DEF OpenPlan
  <2>3. QED
    BY <2>1, <2>2, OpenPlanHonest
<1>2. CASE ProveDerivation
  BY <1>2, ProveDerivationHonest DEF ProveDerivation
<1>3. CASE ProveStageA
  BY <1>3, ProveStageAHonest DEF ProveStageA
<1>4. CASE ReadRoot
  BY <1>4, ReadRootHonest DEF ReadRoot
<1>5. CASE ArchivePlan
  BY <1>5, ArchivePlanHonest DEF ArchivePlan
<1>6. CASE ArchiveStudy
  BY <1>6, ArchiveStudyHonest DEF ArchiveStudy
<1>7. CASE ArchiveRecords
  BY <1>7, ArchiveRecordsHonest DEF ArchiveRecords
<1>8. CASE WriteState
  BY <1>8, WriteStateHonest DEF WriteState
<1>9. CASE FreezeViolated
  BY <1>9, FrozenHolds DEF FreezeViolated
<1>10. CASE \E passed \in BOOLEAN : Complete(passed)
  <2>1. PICK passed \in BOOLEAN : Complete(passed)
    BY <1>10
  <2>2. UNCHANGED repository
    BY <2>1 DEF Complete
  <2>3. QED
    BY <2>1, <2>2, CompleteHonest
<1>11. QED
  BY <1>1, <1>2, <1>3, <1>4, <1>5, <1>6, <1>7, <1>8, <1>9, <1>10 DEF Launch

-----------------------------------------------------------------------------
(* The honest invariant *)

\* Only an operator's interference and a shared directory end an honest history, for good.
LEMMA HonestBefore ==
  ASSUME Counters, Next, Honest'
  PROVE  /\ Honest
         /\ (\E r \in Registrars : Register(r)) \/ Launch \/ (dirty /\ Clean)
<1>1. CASE \E r \in Registrars : Register(r)
  <2>1. PICK r \in Registrars : Register(r)
    BY <1>1
  <2>2. upsets' = upsets
    BY <2>1, RegisterCounts
  <2>3. shared => shared'
    <3>1. CASE RegisterStep(r)
      BY <3>1, RegisterStepKeeps DEF history
    <3>2. CASE \E d \in Dirs, drill \in BOOLEAN, root \in {None, StageA, Drill} :
                 BeginRegister(r, d, drill, root)
      BY <3>2 DEF BeginRegister
    <3>3. QED
      BY <2>1, <3>1, <3>2 DEF Register, RegisterStep
  <2>4. QED
    BY <1>1, <2>2, <2>3 DEF Honest
<1>2. CASE Launch
  <2>1. UNCHANGED shared
    BY <1>2 DEF Launch, OpenPlan, ProveDerivation, ProveStageA, ReadRoot, ArchivePlan,
                ArchiveStudy, ArchiveRecords, WriteState, FreezeViolated, Complete, history
  <2>2. QED
    BY <1>2, <2>1, LaunchCounts DEF Honest
<1>3. CASE Interfere
  <2>1. ~Upset
    BY DEF Upset, Counters, Honest
  <2>2. Clean
    BY <1>3, <2>1 DEF Interfere, MoveHead, Dirty, EditFile, CopyFile, RemoveDirectory,
                      MoveRootAway, DamageRoot, KillRegistrar, KillLauncher
  <2>3. QED
    BY <2>2 DEF Clean, history, Honest
<1>4. QED
  BY <1>1, <1>2, <1>3 DEF Next

LEMMA InitHonest == Init => HonestInv
<1> SUFFICES ASSUME Init PROVE HonestInv
  OBVIOUS
<1>1. /\ head = FirstCommit /\ dirty = FALSE /\ launcher = Idle
      /\ \A r \in Registrars : registrar[r].pc = "idle"
      /\ \A d \in Dirs : registered[d] = None
  BY DEF Init, Blank
<1>2. RegistrarsHonest
  BY <1>1 DEF RegistrarsHonest
<1>3. launcher.pc = "idle" /\ launcher.outcome = None
  BY <1>1 DEF Idle
<1>4. LauncherHonest
  BY <1>3, NoneIsNoFile DEF LauncherHonest, Opened, RootSoFar, AtWork
<1>5. \A t \in Registrations : roots[t] = NoRoot
  BY DEF Init, Roots, Registrations, StageA, Calibration, Drill
<1>6. roots[Drill].plan = Rehearsal
  <2> DEFINE first == [NoRoot EXCEPT
               !.plan = Rehearsal, !.state = Control(Rehearsal, FirstCommit, 0, None, None)]
  <2>1. /\ DOMAIN first = DOMAIN NoRoot /\ DOMAIN first.state = ControlFields
        /\ first.plan = Rehearsal
    BY DEF NoRoot, Control, ControlFields
  <2>2. Completed(first, TRUE).plan = Rehearsal
    BY <2>1, CompletedLike DEF Like
  <2>3. roots = [t \in Roots |-> IF t # Drill THEN NoRoot ELSE Completed(first, TRUE)]
    BY DEF Init
  <2>4. QED
    BY <2>2, <2>3 DEF Roots
<1>7. \A run \in done : run.edition \in Nat
  BY DEF Init
<1>8. QED
  BY <1>1, <1>2, <1>4, <1>5, <1>6, <1>7 DEF HonestInv, RootsHonest

LEMMA HonestStep ==
  ASSUME LaunchInv, EvidenceInv, TemplatesAgree, HonestInv, [Next]_vars
  PROVE  HonestInv'
<1> SUFFICES ASSUME Honest'
             PROVE  /\ head' = FirstCommit /\ ~dirty'
                    /\ RegistrarsHonest' /\ LauncherHonest' /\ RootsHonest'
  BY DEF HonestInv
<1>1. CASE UNCHANGED vars
  <2>1. /\ UNCHANGED <<head, dirty, staging, registered, registrar, launcher, roots, done>>
        /\ Honest
    BY <1>1 DEF vars, repository, files, history, Honest
  <2>2. Accepted' = Accepted
    BY <2>1 DEF Accepted, Acceptable, BuiltRecord, Live
  <2>3. QED
    BY <2>1, <2>2 DEF HonestInv, RegistrarsHonest, LauncherHonest, Opened, Root, RootsHonest
<1>2. CASE Next
  <2>1. /\ head = FirstCommit /\ ~dirty /\ RegistrarsHonest /\ LauncherHonest /\ RootsHonest
        /\ (\E r \in Registrars : Register(r)) \/ Launch
        /\ ~shared'
    BY <1>2, HonestBefore DEF LaunchInv, HonestInv, Honest
  <2>2. CASE \E r \in Registrars : Register(r)
    BY <2>1, <2>2, RegisterHonest DEF EvidenceInv, repository
  <2>3. CASE Launch
    BY <2>1, <2>3, LaunchHonest DEF repository
  <2>4. QED
    BY <2>1, <2>2, <2>3
<1>3. QED
  BY <1>1, <1>2

\* HonestRegistrationLaunches: a registration nobody interfered with is never refused by the
\* launch preflight, nor its archive or its freeze found broken, however the registrars and
\* the launches interleave (register.ts, registrationPreflight.ts).  The hypothesis is about
\* the templates committed at the start: the registrar does not compare the two, the launcher
\* does (studyReconciliation.ts), and what is stamped from two that disagree never starts.
THEOREM HonestLaunch ==
  ASSUME TemplatesAgree PROVE Spec => []HonestRegistrationLaunches
<1>1. HonestInv => HonestRegistrationLaunches
  BY DEF HonestInv, Honest, HonestRegistrationLaunches, LauncherHonest, Opened
<1>2. Init => HonestInv
  BY InitHonest
<1>3. LaunchInv /\ EvidenceInv /\ HonestInv /\ [Next]_vars => HonestInv'
  BY HonestStep
<1>4. QED
  BY <1>1, <1>2, <1>3, LaunchInvariant, EvidenceInvariant, PTL DEF Spec

=============================================================================
