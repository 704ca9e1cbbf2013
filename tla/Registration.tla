----------------------------- MODULE Registration -----------------------------
(***************************************************************************)
(* Registration and launch of formal sequences.  A registrar (m2:register) *)
(* stamps the templates committed at HEAD into a study, a provenance       *)
(* record and a plan in a directory outside the repository; the launcher   *)
(* (m2:orchestrate) proves a plan to be such an output, archives it with   *)
(* its records in an evidence root and runs the sequence.  A calibration   *)
(* must rest on a completed Stage A of the same commit.  Processes share   *)
(* the repository, the directories and the evidence roots, and an operator *)
(* commits, edits and moves files between any two of their steps.  The     *)
(* hash of a file is injective, so it is modelled as the file's content.   *)
(***************************************************************************)
EXTENDS Naturals, FiniteSets, SequenceEvidence

CONSTANTS
  Registrars,      \* m2:register processes
  Dirs,            \* output directories
  Registers,       \* directory -> the registration an operator makes in it
  Commits,         \* repository commits HEAD can be at
  StudyTemplate,   \* commit -> registration -> edition of its study template
  PlanTemplate,    \* commit -> registration -> edition of its plan template
  Implements,      \* pairs of a study and a plan template that agree field by field
  FirstCommit,     \* the commit at which the history starts
  MaxRegisters,    \* how many registrations are started
  MaxLaunches,     \* how many launches are started
  MaxUpsets        \* how often the operator or a crash interferes

StageA        == "stage-a"
Calibration   == "calibration-variance-a"
Registrations == {StageA, Calibration}   \* REGISTRATION_REGISTRY
Drill         == "drill"                 \* root of a keyless rehearsal of Stage A
Roots         == Registrations \cup {Drill}

ASSUME RegistrationAssumption ==
  /\ Registers \in [Dirs -> Registrations]
  /\ FirstCommit \in Commits
  /\ StudyTemplate \in [Commits -> [Registrations -> STRING]]
  /\ PlanTemplate \in [Commits -> [Registrations -> STRING]]
  /\ MaxRegisters \in Nat /\ MaxLaunches \in Nat /\ MaxUpsets \in Nat
  /\ None \notin Dirs \cup Commits \cup Roots

VARIABLES
  head,       \* the commit HEAD names
  dirty,      \* the tracked worktree differs from HEAD
  staging,    \* directory -> the files of its .staging sibling, or None
  registered, \* directory -> the files committed to it, or None
  registrar,  \* registrar -> where it stands and what it holds in memory
  launcher,   \* the orchestrator process: where it stands, what it holds
  roots,      \* evidence root -> what is archived in it, and its control state
  started,    \* registrations started so far, the stand-in for atUtc
  launched,   \* launches started so far
  done,       \* history: the sequences that ran to completion
  upsets,     \* interferences so far
  shared      \* history: two registrars worked on one directory at once

repository == <<head, dirty>>
files      == <<staging, registered>>
history    == <<started, launched, done, upsets, shared>>
vars       == <<repository, files, registrar, launcher, roots, history>>

-----------------------------------------------------------------------------
(* The files: what is stamped into them, and whether they were edited since *)

NeedsStageA(id) == id = Calibration

Study(id, sha, prerequisite) ==
  [id |-> id, sha |-> sha, template |-> StudyTemplate[sha][id],
   prerequisite |-> prerequisite, edited |-> FALSE]

\* a study stamped with one commit from the template another commit holds
StudyFrom(id, sha, template, prerequisite) ==
  [Study(id, sha, prerequisite) EXCEPT !.template = template]

Provenance(id, sha, at, studyTemplate, planTemplate, study, prerequisite, drill) ==
  [id |-> id, sha |-> sha, at |-> at, studyTemplate |-> studyTemplate,
   planTemplate |-> planTemplate, study |-> study, prerequisite |-> prerequisite,
   drill |-> drill, edited |-> FALSE]

Plan(id, sha, template, dir, study, provenance, prerequisite) ==
  [id |-> id, sha |-> sha, template |-> template, dir |-> dir, study |-> study,
   provenance |-> provenance, prerequisite |-> prerequisite, edited |-> FALSE]

Rehearsal == [id |-> Drill, sha |-> FirstCommit, edited |-> FALSE]  \* an unregistered plan

NoFiles == [study |-> None, provenance |-> None, plan |-> None, prerequisite |-> None]
\* the canonical record of one completed Stage A: its identity and its hashes.  The edition
\* stands for those of the manifest, archive and receipt (VerifiedIsGenuine says why it may)
Record(id, sha, edition) == [id |-> id, sha |-> sha, edition |-> edition, edited |-> FALSE]

\* What a registrar writes.  A file that is there is never the value for no file, nor the
\* reason of a refusal the value for no outcome.
Records     == [id : Roots, sha : Commits, edition : Nat, edited : BOOLEAN]
Studies     == [id : Registrations, sha : Commits, template : STRING,
                prerequisite : {None} \cup Records, edited : BOOLEAN]
Provenances == [id : Registrations, sha : Commits, at : Nat, studyTemplate : STRING,
                planTemplate : STRING, study : Studies, prerequisite : {None} \cup Records,
                drill : BOOLEAN, edited : BOOLEAN]
Plans       == [id : Registrations, sha : Commits, template : STRING, dir : Dirs,
                study : Studies, provenance : Provenances,
                prerequisite : {None} \cup Records, edited : BOOLEAN]

ASSUME NoneIsNoFile ==
  /\ None \notin Records \cup Studies \cup Provenances \cup Plans
  /\ None \notin {"preflight", "archive", "drift"}
  /\ None # NoFiles

Live(root) == roots[root].plan.id = StageA      \* gatewayMode of the model attempt

\* buildStageAPrerequisite, up to the record it returns
Acceptable(root, sha, drill) ==
  LET evidence == roots[root] IN
  /\ evidence.plan # None /\ evidence.state # None
  /\ evidence.state.status = "completed" /\ evidence.state.plan = evidence.plan
  /\ drill \/ Live(root)
  /\ verifyCompletedSequence(evidence)
  /\ evidence.state.sha = sha
  /\ drill \/ evidence.plan.id = StageA         \* expectedIdentity
  /\ evidence.state.execution.passed                      \* verdicts and thresholds

BuiltRecord(root) ==
  Record(roots[root].plan.id, roots[root].state.sha, roots[root].execution.edition)

-----------------------------------------------------------------------------
(* m2:register *)

Blank == [pc |-> "idle", dir |-> None, drill |-> FALSE, root |-> None, at |-> 0, sha |-> None,
          studyTemplate |-> None, planTemplate |-> None, prerequisite |-> None,
          study |-> None, provenance |-> None]

Idle == [pc |-> "idle", resume |-> FALSE, dir |-> None, plan |-> None, head |-> None,
         provenance |-> None, prerequisite |-> None, outcome |-> None]

Init ==
  /\ head = FirstCommit /\ dirty = FALSE
  /\ staging = [d \in Dirs |-> None]
  /\ registered = [d \in Dirs |-> None]
  /\ registrar = [r \in Registrars |-> Blank]
  /\ launcher = Idle
  /\ roots = [t \in Roots |->
       IF t # Drill THEN NoRoot
       ELSE Completed([NoRoot EXCEPT
              !.plan = Rehearsal, !.state = Control(Rehearsal, FirstCommit, 0, None, None)], TRUE)]
  /\ started = 0 /\ launched = 0 /\ upsets = 0 /\ shared = FALSE
  /\ done = {[id |-> Drill, sha |-> FirstCommit, edition |-> 0, passed |-> TRUE]}

Id(r) == Registers[registrar[r].dir]

Goes(r, fields) == registrar' = [registrar EXCEPT ![r] = fields]

Fails(r) ==   \* an error before the staging directory is this process's to remove
  /\ registrar' = [registrar EXCEPT ![r] = Blank]
  /\ UNCHANGED files

FailsStaged(r) ==   \* the catch around everything written
  /\ registrar' = [registrar EXCEPT ![r] = Blank]
  /\ staging' = [staging EXCEPT ![registrar[r].dir] = None]
  /\ UNCHANGED registered

\* `git status` of a clean worktree; the options are the operator's
BeginRegister(r, d, drill, root) ==
  /\ registrar[r].pc = "idle" /\ started < MaxRegisters
  /\ ~dirty
  /\ NeedsStageA(Registers[d]) = (root # None)
  /\ drill => root # None
  /\ started' = started + 1
  /\ shared' = (shared \/ \E q \in Registrars \ {r} : registrar[q].dir = d)
  /\ Goes(r, [Blank EXCEPT !.pc = "clean", !.dir = d, !.drill = drill, !.root = root,
                           !.at = started + 1])
  /\ UNCHANGED <<repository, files, launcher, roots, launched, done, upsets>>

\* `git rev-parse HEAD`, and the create-once check of the output directory
ReadHead(r) ==
  /\ registrar[r].pc = "clean"
  /\ IF registered[registrar[r].dir] # None THEN Fails(r)
     ELSE /\ Goes(r, [registrar[r] EXCEPT !.pc = "headed", !.sha = head])
          /\ UNCHANGED files
  /\ UNCHANGED <<repository, launcher, roots, history>>

\* authenticateTemplate, of each template in turn: `git show HEAD:<path>` names HEAD, which
\* may have moved since (its blob id is read with it), and `git diff HEAD` names it again.
ShowStudy(r) ==
  /\ registrar[r].pc = "headed"
  /\ Goes(r, [registrar[r] EXCEPT !.pc = "study shown",
                                  !.studyTemplate = StudyTemplate[head][Id(r)]])
  /\ UNCHANGED <<repository, files, launcher, roots, history>>

ShowPlan(r) ==
  /\ registrar[r].pc = "study source"
  /\ Goes(r, [registrar[r] EXCEPT !.pc = "plan shown",
                                  !.planTemplate = PlanTemplate[head][Id(r)]])
  /\ UNCHANGED <<repository, files, launcher, roots, history>>

DiffHead(r, from, to) ==
  /\ registrar[r].pc = from
  /\ IF dirty THEN Fails(r) ELSE Goes(r, [registrar[r] EXCEPT !.pc = to]) /\ UNCHANGED files
  /\ UNCHANGED <<repository, launcher, roots, history>>

AuthenticateStudy(r) == ShowStudy(r) \/ DiffHead(r, "study shown", "study source")
AuthenticatePlan(r)  == ShowPlan(r) \/ DiffHead(r, "plan shown", "sources")

TakeStageA(r) ==
  /\ registrar[r].pc = "sources"
  /\ LET root == registrar[r].root IN
     IF root = None THEN Goes(r, [registrar[r] EXCEPT !.pc = "proven"]) /\ UNCHANGED files
     ELSE IF Acceptable(root, registrar[r].sha, registrar[r].drill)
     THEN /\ Goes(r, [registrar[r] EXCEPT !.pc = "proven", !.prerequisite = BuiltRecord(root)])
          /\ UNCHANGED files
     ELSE Fails(r)
  /\ UNCHANGED <<repository, launcher, roots, history>>

\* a staging directory left by an earlier process, or used by a present one, is removed
ClearStaging(r) ==
  /\ registrar[r].pc = "proven"
  /\ staging' = [staging EXCEPT ![registrar[r].dir] = NoFiles]
  /\ Goes(r, [registrar[r] EXCEPT !.pc = "staged"])
  /\ UNCHANGED <<repository, registered, launcher, roots, history>>

Staged(r) == staging[registrar[r].dir] # None

Writes(r, from, to, file, content) ==
  /\ registrar[r].pc = from
  /\ IF Staged(r)
     THEN /\ staging' = [staging EXCEPT ![registrar[r].dir][file] = content]
          /\ Goes(r, to)
          /\ UNCHANGED registered
     ELSE FailsStaged(r)
  /\ UNCHANGED <<repository, launcher, roots, history>>

WriteStudy(r) ==
  LET p == registrar[r] IN
  Writes(r, "staged", [p EXCEPT !.pc = "study written"], "study",
         StudyFrom(Id(r), p.sha, p.studyTemplate, p.prerequisite))

\* validateStudyFile reads the staged file again, and its hash is what counts from here
ValidateStudy(r) ==
  /\ registrar[r].pc = "study written"
  /\ IF Staged(r) /\ staging[registrar[r].dir].study # None
     THEN /\ Goes(r, [registrar[r] EXCEPT !.pc = "validated",
                                          !.study = staging[registrar[r].dir].study])
          /\ UNCHANGED files
     ELSE FailsStaged(r)
  /\ UNCHANGED <<repository, launcher, roots, history>>

\* Mutated form of ProvenanceOf: both templates recorded with the edition of the study's.
ProvenanceOfStudy(r) ==
  LET p == registrar[r] IN
  Provenance(Id(r), p.sha, p.at, p.studyTemplate, p.studyTemplate, p.study, p.prerequisite, p.drill)

ProvenanceOf(r) ==
  LET p == registrar[r] IN
  Provenance(Id(r), p.sha, p.at, p.studyTemplate, p.planTemplate, p.study, p.prerequisite, p.drill)

WriteProvenance(r) ==
  Writes(r, "validated",
         [registrar[r] EXCEPT !.pc = "recorded", !.provenance = ProvenanceOf(r)],
         "provenance", ProvenanceOf(r))

WritePlan(r) ==
  LET p == registrar[r] IN
  Writes(r, "recorded", [p EXCEPT !.pc = "planned"], "plan",
         Plan(Id(r), p.sha, p.planTemplate, p.dir, p.study, p.provenance, p.prerequisite))

\* parsePlan reads the staged plan again; then the Stage A record is written
WritePrerequisite(r) ==
  /\ registrar[r].pc = "planned"
  /\ IF Staged(r) /\ staging[registrar[r].dir].plan # None
     THEN /\ staging' = [staging EXCEPT ![registrar[r].dir].prerequisite =
                           IF registrar[r].prerequisite = None THEN @
                           ELSE registrar[r].prerequisite]
          /\ Goes(r, [registrar[r] EXCEPT !.pc = "complete"])
          /\ UNCHANGED registered
     ELSE FailsStaged(r)
  /\ UNCHANGED <<repository, launcher, roots, history>>

\* Mutated form of Vacant: the rename replaces whatever the directory held.
Anyway(d) == TRUE

\* rename refuses a destination that holds files
Vacant(d) == registered[d] = None

Commit(r) ==
  LET d == registrar[r].dir IN
  /\ registrar[r].pc = "complete"
  /\ IF Staged(r) /\ Vacant(d)
     THEN /\ registered' = [registered EXCEPT ![d] = staging[d]]
          /\ staging' = [staging EXCEPT ![d] = None]
          /\ Goes(r, Blank)
     ELSE FailsStaged(r)
  /\ UNCHANGED <<repository, launcher, roots, history>>

-----------------------------------------------------------------------------
(* m2:orchestrate, up to the control state and its last checkpoint *)

Refuses(why) == launcher' = [Idle EXCEPT !.outcome = why]

Advances(fields) == launcher' = fields

Has(d, file) == registered[d] # None /\ registered[d][file] # None

\* the registration gates of the plan schema
Formal(plan) == NeedsStageA(plan.id) = (plan.prerequisite # None)

\* the study the plan names is the registered one
StudyBound(plan) == Has(plan.dir, "study") /\ registered[plan.dir].study = plan.study

\* reconcileStudyWithPlan: the study pins HEAD, and the plan implements it
Reconciled(study, plan) == study.sha = head /\ <<study.template, plan.template>> \in Implements

OpenPlan(d, resume) ==
  /\ launcher.pc = "idle" /\ launched < MaxLaunches
  /\ Has(d, "plan")
  /\ launched' = launched + 1
  /\ LET plan == registered[d].plan IN
     IF /\ Formal(plan) /\ StudyBound(plan) /\ Reconciled(plan.study, plan)
        /\ plan.sha = head /\ ~dirty
     THEN Advances([Idle EXCEPT !.pc = "open", !.resume = resume, !.dir = d,
                                !.plan = plan, !.head = head])
     ELSE Refuses("preflight")
  /\ UNCHANGED <<repository, files, registrar, roots, started, done, upsets, shared>>

\* the provenance hashes to the plan's binding, the templates of the pinned commit are
\* the recorded ones, and stamping them again yields the plan and the study byte for byte
Derived(plan, v) ==
  /\ v = plan.provenance
  /\ v.id = plan.id /\ v.sha = plan.sha /\ v.prerequisite = plan.prerequisite
  /\ v.studyTemplate = StudyTemplate[v.sha][v.id]
  /\ v.planTemplate = PlanTemplate[v.sha][v.id]
  /\ plan = Plan(v.id, v.sha, v.planTemplate, plan.dir, plan.study, v, plan.prerequisite)
  /\ Has(plan.dir, "study")
  /\ registered[plan.dir].study = Study(v.id, v.sha, plan.prerequisite)
  /\ v.study = Study(v.id, v.sha, plan.prerequisite)

ProveDerivation ==
  /\ launcher.pc = "open"
  /\ IF /\ Has(launcher.dir, "provenance")
        /\ Derived(launcher.plan, registered[launcher.dir].provenance)
     THEN Advances([launcher EXCEPT !.pc = "derived",
                                    !.provenance = registered[launcher.dir].provenance])
     ELSE Refuses("preflight")
  /\ UNCHANGED <<repository, files, registrar, roots, history>>

\* the registered record is there, and the evidence it names still yields it
RestsOn(record) ==
  /\ Has(launcher.dir, "prerequisite")
  /\ registered[launcher.dir].prerequisite = record
  /\ Acceptable(record.id, launcher.provenance.sha, launcher.provenance.drill)
  /\ BuiltRecord(record.id) = record

\* every attempt of the calibration plan is live, so the record of a drill never starts it
ProveStageA ==
  /\ launcher.pc = "derived"
  /\ LET record == launcher.plan.prerequisite IN
     IF record # None /\ launcher.provenance.drill THEN Refuses("drill")
     ELSE IF record = None \/ RestsOn(record)
     THEN Advances([launcher EXCEPT !.pc = "proven", !.prerequisite = record])
     ELSE Refuses("preflight")
  /\ UNCHANGED <<repository, files, registrar, roots, history>>

Root == roots[launcher.plan.id]

\* a resume finds its own sequence; a fresh start finds no file at all
RootIsOurs ==
  IF launcher.resume
  THEN Root.state # None /\ Root.state.plan = launcher.plan /\ Root.state.sha = launcher.head
  ELSE Root = NoRoot

\* a completed sequence is verified and left as it is
ReadRoot ==
  /\ launcher.pc = "proven"
  /\ IF ~RootIsOurs THEN Refuses("root")
     ELSE IF Root.state # None /\ Root.state.status = "completed"
     THEN Refuses(IF verifyCompletedSequence(Root) THEN "verified" ELSE "root")
     ELSE Advances([launcher EXCEPT !.pc = "ready"])
  /\ UNCHANGED <<repository, files, registrar, roots, history>>

Archived(fields) == roots' = [roots EXCEPT ![launcher.plan.id] = fields]

\* Mutated form of ArchivePlan: the copy is not compared with the plan that was proven.
ArchivePlanUncompared ==
  /\ launcher.pc = "ready" /\ Has(launcher.dir, "plan")
  /\ Archived([Root EXCEPT !.plan = IF @ # None THEN @ ELSE registered[launcher.dir].plan])
  /\ Advances([launcher EXCEPT !.pc = "plan archived"])
  /\ UNCHANGED <<repository, files, registrar, history>>

\* the file is copied again from the directory, and the copy compared
ArchivePlan ==
  /\ launcher.pc = "ready"
  /\ LET copy == IF Root.plan # None THEN Root.plan
                 ELSE IF Has(launcher.dir, "plan") THEN registered[launcher.dir].plan ELSE None
     IN /\ Archived([Root EXCEPT !.plan = copy])
        /\ IF copy = launcher.plan THEN Advances([launcher EXCEPT !.pc = "plan archived"])
           ELSE Refuses("archive")
  /\ UNCHANGED <<repository, files, registrar, history>>

ArchiveStudy ==
  /\ launcher.pc = "plan archived"
  /\ LET d    == launcher.plan.dir
         copy == IF Root.study # None THEN Root.study
                 ELSE IF Has(d, "study") THEN registered[d].study ELSE None
     IN /\ Archived([Root EXCEPT !.study = copy])
        /\ IF copy = launcher.plan.study THEN Advances([launcher EXCEPT !.pc = "study archived"])
           ELSE Refuses("archive")
  /\ UNCHANGED <<repository, files, registrar, history>>

\* the authenticated records are written from memory, or compared with what is there
ArchiveRecords ==
  /\ launcher.pc = "study archived"
  /\ IF /\ Root.provenance \in {None, launcher.provenance}
        /\ Root.prerequisite \in {None, launcher.prerequisite}
     THEN /\ Archived([Root EXCEPT !.provenance = launcher.provenance,
                                   !.prerequisite = launcher.prerequisite])
          /\ Advances([launcher EXCEPT !.pc = "archived"])
     ELSE Refuses("archive") /\ UNCHANGED roots
  /\ UNCHANGED <<repository, files, registrar, history>>

WriteState ==
  /\ launcher.pc = "archived"
  /\ Archived([Root EXCEPT !.state =
       IF launcher.resume THEN [@ EXCEPT !.status = "in-progress"]
       ELSE Control(launcher.plan, launcher.head, launched,
                    launcher.provenance, launcher.prerequisite)])
  /\ Advances([launcher EXCEPT !.pc = "running"])
  /\ UNCHANGED <<repository, files, registrar, history>>

\* checkFreeze
FreezeHolds ==
  /\ head = launcher.head /\ ~dirty
  /\ Root.plan = launcher.plan /\ Root.study = launcher.plan.study
  /\ Root.provenance = launcher.provenance /\ Root.prerequisite = launcher.prerequisite
  /\ Has(launcher.plan.dir, "study")
  /\ registered[launcher.plan.dir].study = launcher.plan.study

FreezeViolated ==
  /\ launcher.pc = "running" /\ ~FreezeHolds
  /\ Archived([Root EXCEPT !.state.status = "failed"])
  /\ Refuses("drift")
  /\ UNCHANGED <<repository, files, registrar, history>>

Complete(passed) ==
  /\ launcher.pc = "running" /\ FreezeHolds
  /\ Archived(Completed(Root, passed))
  /\ done' = done \cup {[id |-> launcher.plan.id, sha |-> Root.state.sha,
                         edition |-> Root.state.edition, passed |-> passed]}
  /\ Refuses("completed")
  /\ UNCHANGED <<repository, files, registrar, started, launched, upsets, shared>>

-----------------------------------------------------------------------------
(* The operator, who commits, edits and moves files; and crashes *)

Upset == upsets < MaxUpsets /\ upsets' = upsets + 1

OtherHistory == <<started, launched, done, shared>>

MoveHead(c) ==
  /\ Upset /\ c # head /\ ~dirty
  /\ head' = c
  /\ UNCHANGED <<dirty, files, registrar, launcher, roots, OtherHistory>>

Dirty ==
  /\ Upset /\ ~dirty /\ dirty' = TRUE
  /\ UNCHANGED <<head, files, registrar, launcher, roots, OtherHistory>>

Clean ==
  /\ dirty /\ dirty' = FALSE
  /\ UNCHANGED <<head, files, registrar, launcher, roots, history>>

EditFile(d, file) ==
  /\ Upset /\ Has(d, file)
  /\ registered' = [registered EXCEPT ![d][file].edited = TRUE]
  /\ UNCHANGED <<repository, staging, registrar, launcher, roots, OtherHistory>>

\* a file of one registration put over the same file of another
CopyFile(d, e, file) ==
  /\ Upset /\ Has(d, file) /\ Has(e, file)
  /\ Registers[d] = Registers[e] /\ registered[d][file] # registered[e][file]
  /\ registered' = [registered EXCEPT ![e][file] = registered[d][file]]
  /\ UNCHANGED <<repository, staging, registrar, launcher, roots, OtherHistory>>

RemoveDirectory(d) ==
  /\ Upset /\ registered[d] # None
  /\ registered' = [registered EXCEPT ![d] = None]
  /\ UNCHANGED <<repository, staging, registrar, launcher, roots, OtherHistory>>

InUse(t) == launcher.pc # "idle" /\ launcher.plan.id = t

\* an evidence root is moved away, to run the sequence again, or altered in place
MoveRootAway(t) ==
  /\ Upset /\ roots[t] # NoRoot /\ ~InUse(t)
  /\ roots' = [roots EXCEPT ![t] = NoRoot]
  /\ UNCHANGED <<repository, files, registrar, launcher, OtherHistory>>

DamageRoot(t) ==
  /\ Upset /\ roots[t].state # None
  /\ \E altered \in Alterations(roots[t]) : roots' = [roots EXCEPT ![t] = altered]
  /\ UNCHANGED <<repository, files, registrar, launcher, OtherHistory>>

KillRegistrar(r) ==
  /\ Upset /\ registrar[r].pc # "idle"
  /\ registrar' = [registrar EXCEPT ![r] = Blank]
  /\ UNCHANGED <<repository, files, launcher, roots, OtherHistory>>

KillLauncher ==
  /\ Upset /\ launcher.pc # "idle"
  /\ launcher' = Idle
  /\ UNCHANGED <<repository, files, registrar, roots, OtherHistory>>

-----------------------------------------------------------------------------
Register(r) ==
  \/ \E d \in Dirs, drill \in BOOLEAN, root \in {None, StageA, Drill} :
       BeginRegister(r, d, drill, root)
  \/ ReadHead(r) \/ AuthenticateStudy(r) \/ AuthenticatePlan(r) \/ TakeStageA(r)
  \/ ClearStaging(r) \/ WriteStudy(r) \/ ValidateStudy(r) \/ WriteProvenance(r)
  \/ WritePlan(r) \/ WritePrerequisite(r) \/ Commit(r)

Launch ==
  \/ \E d \in Dirs, resume \in BOOLEAN : OpenPlan(d, resume)
  \/ ProveDerivation \/ ProveStageA \/ ReadRoot
  \/ ArchivePlan \/ ArchiveStudy \/ ArchiveRecords \/ WriteState
  \/ FreezeViolated \/ \E passed \in BOOLEAN : Complete(passed)

Interfere ==
  \/ \E c \in Commits : MoveHead(c)
  \/ Dirty \/ Clean
  \/ \E d \in Dirs : \/ \E file \in DOMAIN NoFiles :
                          EditFile(d, file) \/ \E e \in Dirs : CopyFile(d, e, file)
                     \/ RemoveDirectory(d)
  \/ \E t \in Registrations : MoveRootAway(t) \/ DamageRoot(t)
  \/ \E r \in Registrars : KillRegistrar(r)
  \/ KillLauncher

Next == (\E r \in Registrars : Register(r)) \/ Launch \/ Interfere

Spec == Init /\ [][Next]_vars

-----------------------------------------------------------------------------
(* Properties *)

\* No registrar and no root is in a state the programs cannot write: a registrar that
\* holds anything knows its directory, and a control state stands beside its plan.
TypeOK ==
  /\ head \in Commits /\ dirty \in BOOLEAN /\ shared \in BOOLEAN
  /\ \A d \in Dirs : staging[d] # None => DOMAIN staging[d] = DOMAIN NoFiles
  /\ \A d \in Dirs : registered[d] # None => DOMAIN registered[d] = DOMAIN NoFiles
  /\ \A r \in Registrars : registrar[r].pc # "idle" => registrar[r].dir \in Dirs
  /\ launcher.pc # "idle" => launcher.plan # None /\ launcher.head \in Commits
  /\ \A t \in Roots : roots[t].state # None => roots[t].plan = roots[t].state.plan
  /\ started <= MaxRegisters /\ launched <= MaxLaunches /\ upsets <= MaxUpsets

\* A sequence with a control state holds the records of exactly one registration:
\* its plan implements its study, both stamped from the templates of the commit it runs at, and
\* the provenance and the prerequisite are those the plan was stamped with, whatever
\* was edited, swapped or re-registered while the launcher worked
\* (registrationPreflight.ts, orchestrate.ts).
LaunchedIsOneRegistration ==
  \A id \in Registrations :
    LET root == roots[id]
        plan == root.plan
        v    == root.state.provenance
    IN root.state # None =>
       /\ root.state.sha = plan.sha
       /\ plan = Plan(id, plan.sha, PlanTemplate[plan.sha][id], plan.dir, root.study, v,
                      root.state.prerequisite)
       /\ root.study = Study(id, plan.sha, root.state.prerequisite)
       /\ <<root.study.template, plan.template>> \in Implements
       /\ v = Provenance(id, plan.sha, v.at, StudyTemplate[plan.sha][id],
                         PlanTemplate[plan.sha][id], root.study, root.state.prerequisite, v.drill)

\* A calibration sequence exists only on the evidence of a Stage A that really ran to
\* completion, live and unaltered, at the same commit, and passed its thresholds
\* (stageAPrerequisite.ts: any change after Stage A requires Stage A to run again).
CalibrationFollowsStageA ==
  roots[Calibration].state # None =>
    \E run \in done :
      /\ run.id = StageA /\ run.passed
      /\ run.sha = roots[Calibration].state.sha
      /\ roots[Calibration].prerequisite = Record(StageA, run.sha, run.edition)

\* Evidence that verifies is what a run left behind, to the last file: verifyCompletedSequence
\* notices whatever was changed by hand in a completed root, in any number and any order: its
\* executions, a verdict or a seal of the control state, a verdict of the manifest, the
\* inventory's entries or its aggregate, the archive, the provenance record.  The manifest's
\* seals and the control state's files, artifacts and times are not among the edits
\* (sequenceVerification.ts: the manifest is authoritative; packageEvidence.ts: an
\* aggregate-preserving entry rewrite can no longer self-certify).
VerifiedIsGenuine ==
  \A t \in Roots :
    LET root  == roots[t]
        begun == [NoRoot EXCEPT !.plan = root.plan, !.study = root.study,
                                !.provenance = root.provenance,
                                !.prerequisite = root.prerequisite]
    IN root.state # None /\ root.state.status = "completed" /\ verifyCompletedSequence(root) =>
       \E run \in done :
         /\ run.id = t
         /\ root = Completed([begun EXCEPT !.state =
                     Control(root.plan, run.sha, run.edition, root.provenance,
                             root.prerequisite)], run.passed)

\* The chain of evidence is unbroken: what verifies was produced, and what starts rests
\* on it (sequenceVerification.ts, stageAPrerequisite.ts, registrationPreflight.ts).
EvidenceIsGenuine == VerifiedIsGenuine /\ CalibrationFollowsStageA

\* What is launched is one registration, and the records of every party are well formed
\* (register.ts, registrationPreflight.ts, orchestrate.ts).
LaunchIsSound == TypeOK /\ LaunchedIsOneRegistration

\* A registration nobody interfered with is never refused by the launch preflight:
\* the registrar stamps what the launcher proves.
HonestRegistrationLaunches ==
  upsets = 0 /\ ~shared => launcher.outcome \notin {"preflight", "archive", "drift"}

\* Registration is create-once: no registrar changes a directory that holds one, however
\* many race for it; only the operator's own hand does.
RegistrationIsFinal ==
  [][\A d \in Dirs : registered[d] # None =>
       registered'[d] = registered[d] \/ upsets' # upsets]_vars

===============================================================================
