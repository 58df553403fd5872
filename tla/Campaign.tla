------------------------------ MODULE Campaign ------------------------------
(***************************************************************************)
(* A campaign of the evaluation harness, from the freeze to the report:    *)
(* freeze_campaign.py writes the frozen plans, execute_campaign.py runs    *)
(* one paired study per repository in a process of its own (benchmark      *)
(* run-plan, eval/runners), exports each one, runs the meta-study, and     *)
(* finalize_campaign.py reads what is on disk into the evidence.  Around   *)
(* them the machine drifts, operators interrupt or repeat commands, and    *)
(* processes are killed.                                                   *)
(***************************************************************************)
EXTENDS StudySchedule

CONSTANTS
  Repositories,  \* REPOSITORY_ORDER
  Attempts,      \* attempt ids
  Operators,     \* the processes that execute and finalize
  Repeats,       \* repetitions of a study
  MaxFaults,     \* bound: changes of the machine, signals and new freezes
  None

ASSUME CampaignAssumption ==
  /\ Repositories \in Seq(ToSet(Repositories))
  /\ IsInjective(Repositories) /\ Len(Repositories) >= 2
  /\ Repeats \in Nat /\ Repeats >= 2

Repos == ToSet(Repositories)
NRepos == Len(Repositories)

\* The commands that execute_campaign.py starts, and where their programs are.
Commands ==
  [kind : {"study", "export", "meta"}, repo : Repos \cup {None},
   at : {"start", "arm", "turn", "write", "paired", "publish", "manifest", "exited"},
   orders : Schedules(Repeats) \cup {<<>>}, rep : Nat, slot : Nat, ok : BOOLEAN]

ASSUME NoneIsNoCommand == None \notin Commands

VARIABLES
  drift,     \* what differs from the frozen contract
  runtime,   \* the ARC commit and provider CLI of the machine
  frozen,    \* the bundle in the freeze directory, or None
  freezer,   \* the freeze command
  exec,      \* each operator's executor or finalizer
  ledger,    \* execution-manifest.json of each attempt
  study,     \* the artifacts of each attempt's studies
  meta,      \* the meta-study of each attempt
  evidence,  \* final-evidence of each attempt
  job,       \* the command each attempt has started
  freezes,   \* how many bundles were published
  killed,    \* the attempts that had a command killed
  faults     \* what MaxFaults bounds

machine == <<drift, runtime>>
bundle == <<frozen, freezer, freezes>>
artifacts == <<study, meta>>
vars == <<machine, bundle, exec, ledger, artifacts, evidence, job, killed, faults>>

\* What can differ in a repository, and the provider's login.
Things == (Repos \X {"tree", "hidden", "config"}) \cup {<<None, "auth">>}

NoStudy == [dir |-> FALSE, plan |-> 0, files |-> {}, exported |-> "none",
            workspace |-> FALSE, turns |-> FALSE]
NoMeta == [files |-> "none", plan |-> 0, effect |-> None]
NoEvidence == [files |-> "none", higher |-> FALSE, claim |-> None]
NoLedger == [status |-> "none", started |-> FALSE, manifest |-> 0, plans |-> 0,
             repos |-> [r \in Repos |-> "PENDING"], meta |-> "PENDING"]
Idle == [at |-> "idle", attempt |-> None, manifest |-> 0, plans |-> 0, next |-> 0]
NoFreezer == [at |-> "idle", lock |-> 0]

Init ==
  /\ drift = Repos \X {"config"} /\ runtime = 0
  /\ frozen = None /\ freezer = NoFreezer
  /\ exec = [o \in Operators |-> Idle]
  /\ ledger = [a \in Attempts |-> NoLedger]
  /\ study = [a \in Attempts |-> [r \in Repos |-> NoStudy]]
  /\ meta = [a \in Attempts |-> NoMeta]
  /\ evidence = [a \in Attempts |-> NoEvidence]
  /\ job = [a \in Attempts |-> None]
  /\ freezes = 0 /\ killed = {} /\ faults = 0

-----------------------------------------------------------------------------
(* The machine *)

Fault == faults < MaxFaults /\ faults' = faults + 1

\* Somebody changes a repository, the hidden tests, a configuration or the
\* login, or puts it right.
Drift(thing) ==
  /\ Fault
  /\ drift' = IF thing \in drift THEN drift \ {thing} ELSE drift \cup {thing}
  /\ UNCHANGED <<runtime, bundle, exec, ledger, artifacts, evidence, job, killed>>

\* The ARC checkout or the provider's CLI is upgraded.
Upgrade ==
  /\ Fault
  /\ runtime' = runtime + 1
  /\ UNCHANGED <<drift, bundle, exec, ledger, artifacts, evidence, job, killed>>

-----------------------------------------------------------------------------
(* freeze_campaign.py *)

\* _validate_repo: HEAD is the contract's commit, and nothing is changed.
TreeAsInContract(r) == <<r, "tree">> \notin drift

\* tree_digest of the hidden tests is the contract's.
HiddenAsInContract(r) == <<r, "hidden">> \notin drift

AsInContract(r) == TreeAsInContract(r) /\ HiddenAsInContract(r)

\* _configure_repo saves the campaign's profile and limits.
Configured(things) == things \ (Repos \X {"config"})

\* create_preregistration hashes the hidden tests as they are; each bundle
\* has plan digests of its own, for they hash the time.
NewPlans(version, lock) ==
  [version |-> version, lock |-> lock, hidden |-> {r \in Repos : ~HiddenAsInContract(r)}]

BeginFreeze ==
  /\ freezer.at = "idle" /\ frozen = None
  /\ \A r \in Repos : AsInContract(r)
  /\ freezer' = [freezer EXCEPT !.at = "configure"]
  /\ UNCHANGED <<machine, frozen, freezes, exec, ledger, artifacts, evidence, job, killed, faults>>

\* Nothing undoes the configuration when the freeze fails later.  Then
\* runtime_lock.freeze, and verify for every repository.
ConfigureAndLock ==
  /\ freezer.at = "configure"
  /\ drift' = Configured(drift)
  /\ freezer' = [at |-> "plan", lock |-> runtime]
  /\ UNCHANGED <<runtime, frozen, freezes, exec, ledger, artifacts, evidence, job,
                 killed, faults>>

\* The plans, the meta-plan and the manifest are renamed into place together.
PublishFreeze ==
  /\ freezer.at = "plan" /\ frozen = None
  /\ freezes' = freezes + 1
  /\ frozen' = NewPlans(freezes', freezer.lock)
  /\ freezer' = NoFreezer
  /\ UNCHANGED <<machine, exec, ledger, artifacts, evidence, job, killed, faults>>

\* Any exception removes the temporary directory.
AbandonFreeze ==
  /\ freezer.at /= "idle"
  /\ freezer' = NoFreezer
  /\ UNCHANGED <<machine, frozen, freezes, exec, ledger, artifacts, evidence, job, killed,
                 faults>>

\* An operator moves the bundle away, to freeze the campaign again.
RetireFreeze ==
  /\ Fault
  /\ frozen /= None /\ frozen' = None
  /\ UNCHANGED <<machine, freezer, freezes, exec, ledger, artifacts, evidence, job, killed>>

-----------------------------------------------------------------------------
(* execute_campaign.py *)

\* _load_freeze_bundle: the hidden tests the plans froze are the contract's.
BundleLoads == frozen /= None /\ frozen.hidden = {}

\* runtime_lock.verify.
RuntimeVerified(r) ==
  /\ frozen /= None /\ frozen.lock = runtime
  /\ <<r, "config">> \notin drift

\* _validate_live_repository.
LiveRepositoryValid(r) == AsInContract(r) /\ RuntimeVerified(r)

\* _study_deltas reads whole studies only.
EntersMeta(s) == "study" \in s.files /\ "provenance" \in s.files /\ "failure" \notin s.files

\* auth_status asks the provider's CLI.
LoggedIn == <<None, "auth">> \notin drift

Executing(o) == exec[o].at \in {"next", "spawn", "study", "export", "meta", "closing"}
Repo(o) == Repositories[exec[o].next]

\* preflight_campaign writes nothing; its report is of the bundle it reads.
Preflight(o, a) ==
  /\ exec[o].at = "idle"
  /\ BundleLoads /\ ledger[a].status = "none"
  /\ \A r \in Repos : LiveRepositoryValid(r)
  /\ LoggedIn
  /\ exec' = [exec EXCEPT ![o] = [Idle EXCEPT !.at = "ready", !.attempt = a,
                                           !.manifest = frozen.version]]
  /\ UNCHANGED <<machine, bundle, ledger, artifacts, evidence, job, killed, faults>>

\* Mutant: mkdir accepts a directory that exists.
ClaimAttempt_ExistOk(o) ==
  LET a == exec[o].attempt IN
  /\ exec[o].at = "ready"
  /\ IF BundleLoads
     THEN /\ exec' = [exec EXCEPT ![o].at = "claimed", ![o].plans = frozen.version]
          /\ ledger' = [ledger EXCEPT ![a].status = "claimed"]
     ELSE exec' = [exec EXCEPT ![o] = Idle] /\ UNCHANGED ledger
  /\ UNCHANGED <<machine, bundle, artifacts, evidence, job, killed, faults>>

\* execute_campaign reads the bundle again, and the directory of the attempt
\* is its own: mkdir refuses one that exists.
ClaimAttempt(o) ==
  LET a == exec[o].attempt IN
  /\ exec[o].at = "ready"
  /\ IF BundleLoads /\ ledger[a].status = "none"
     THEN /\ exec' = [exec EXCEPT ![o].at = "claimed", ![o].plans = frozen.version]
          /\ ledger' = [ledger EXCEPT ![a].status = "claimed"]
     ELSE exec' = [exec EXCEPT ![o] = Idle] /\ UNCHANGED ledger
  /\ UNCHANGED <<machine, bundle, artifacts, evidence, job, killed, faults>>

\* The freeze manifest's digest, the runtime lock and the preflight report are
\* of the bundle the preflight read, the plans of the one read since.
OpenLedger(o) ==
  /\ exec[o].at = "claimed"
  /\ ledger' = [ledger EXCEPT ![exec[o].attempt] =
                  [NoLedger EXCEPT !.status = "RUNNING", !.manifest = exec[o].manifest,
                                   !.plans = exec[o].plans]]
  /\ exec' = [exec EXCEPT ![o].at = "next", ![o].next = 1]
  /\ UNCHANGED <<machine, bundle, artifacts, evidence, job, killed, faults>>

\* Mutant: the ledger is saved once the study is over.
Started_Later(l, r) == l

\* The repository is RUNNING, and the provider's turns begin.
Started(l, r) == [l EXCEPT !.repos[r] = "RUNNING", !.started = TRUE]

\* The repository is validated again, right before its study.
Revalidate(o) ==
  LET a == exec[o].attempt IN
  /\ exec[o].at = "next" /\ exec[o].next <= NRepos
  /\ LiveRepositoryValid(Repo(o)) /\ LoggedIn
  /\ ledger' = [ledger EXCEPT ![a] = Started(@, Repo(o))]
  /\ exec' = [exec EXCEPT ![o].at = "spawn"]
  /\ UNCHANGED <<machine, bundle, artifacts, evidence, job, killed, faults>>

Command(kind, r) == [kind |-> kind, repo |-> r, at |-> "start", orders |-> <<>>,
                     rep |-> 1, slot |-> 1, ok |-> FALSE]

\* _run_logged starts benchmark run-plan.
SpawnStudy(o) ==
  /\ exec[o].at = "spawn"
  /\ job' = [job EXCEPT ![exec[o].attempt] = Command("study", Repo(o))]
  /\ exec' = [exec EXCEPT ![o].at = "study"]
  /\ UNCHANGED <<machine, bundle, ledger, artifacts, evidence, killed, faults>>

\* The command the executor waits for has ended.
Ended(o, kind) ==
  /\ exec[o].at = kind
  /\ job[exec[o].attempt] /= None /\ job[exec[o].attempt].at = "exited"

\* Mutant: any study.json will do.
StudyCompleted_AnyPlan(o) ==
  LET s == study[exec[o].attempt][Repo(o)]
  IN  job[exec[o].attempt].ok /\ "study" \in s.files

\* Exit code 0, a study.json, and the plan the executor loaded.
StudyCompleted(o) ==
  LET s == study[exec[o].attempt][Repo(o)]
  IN  job[exec[o].attempt].ok /\ "study" \in s.files /\ s.plan = exec[o].plans

\* _run_logged starts benchmark export.
SpawnExport(o) ==
  /\ Ended(o, "study") /\ StudyCompleted(o)
  /\ job' = [job EXCEPT ![exec[o].attempt] = Command("export", Repo(o))]
  /\ exec' = [exec EXCEPT ![o].at = "export"]
  /\ UNCHANGED <<machine, bundle, ledger, artifacts, evidence, killed, faults>>

ExportCompleted(o) ==
  /\ job[exec[o].attempt].ok
  /\ study[exec[o].attempt][Repo(o)].exported = "whole"

RepositorySucceeded(o) ==
  LET a == exec[o].attempt IN
  /\ Ended(o, "export") /\ ExportCompleted(o)
  /\ ledger' = [ledger EXCEPT ![a].repos[Repo(o)] = "SUCCEEDED"]
  /\ exec' = [exec EXCEPT ![o].at = "next", ![o].next = @ + 1]
  /\ job' = [job EXCEPT ![a] = None]
  /\ UNCHANGED <<machine, bundle, artifacts, evidence, killed, faults>>

\* _run_logged starts benchmark meta.
SpawnMeta(o) ==
  LET a == exec[o].attempt IN
  /\ exec[o].at = "next" /\ exec[o].next > NRepos
  /\ ledger' = [ledger EXCEPT ![a].meta = "RUNNING"]
  /\ job' = [job EXCEPT ![a] = Command("meta", None)]
  /\ exec' = [exec EXCEPT ![o].at = "meta"]
  /\ UNCHANGED <<machine, bundle, artifacts, evidence, killed, faults>>

MetaCompleted(o) ==
  job[exec[o].attempt].ok /\ meta[exec[o].attempt].files /= "none"

CloseLedger(o) ==
  LET a == exec[o].attempt IN
  /\ Ended(o, "meta") /\ MetaCompleted(o)
  /\ ledger' = [ledger EXCEPT ![a].meta = "SUCCEEDED", ![a].status = "SUCCEEDED"]
  /\ job' = [job EXCEPT ![a] = None]
  /\ exec' = [exec EXCEPT ![o].at = "closing"]
  /\ UNCHANGED <<machine, bundle, artifacts, evidence, killed, faults>>

\* The paths are printed before execute_campaign leaves its try.
Return(o) ==
  /\ exec[o].at = "closing"
  /\ exec' = [exec EXCEPT ![o] = Idle]
  /\ UNCHANGED <<machine, bundle, ledger, artifacts, evidence, job, killed, faults>>

\* The handler of execute_campaign: what is RUNNING is FAILED.
Failed(l) ==
  [l EXCEPT !.status = "FAILED",
            !.repos = [r \in Repos |-> IF @[r] = "RUNNING" THEN "FAILED" ELSE @[r]],
            !.meta = IF @ = "RUNNING" THEN "FAILED" ELSE @]

\* A check or a command fails.
ExecutorRaises(o) ==
  LET a == exec[o].attempt IN
  /\ \/ /\ exec[o].at = "next" /\ exec[o].next <= NRepos
        /\ ~(LiveRepositoryValid(Repo(o)) /\ LoggedIn)
     \/ Ended(o, "study") /\ ~StudyCompleted(o)
     \/ Ended(o, "export") /\ ~ExportCompleted(o)
     \/ Ended(o, "meta") /\ ~MetaCompleted(o)
  /\ ledger' = [ledger EXCEPT ![a] = Failed(@)]
  /\ job' = [job EXCEPT ![a] = None]
  /\ exec' = [exec EXCEPT ![o] = Idle]
  /\ UNCHANGED <<machine, bundle, artifacts, evidence, killed, faults>>

Live(a) == job[a] /= None /\ job[a].at /= "exited"

\* The command of an attempt exits.
Exited(j, ok) == [Command(j.kind, j.repo) EXCEPT !.at = "exited", !.ok = ok]

\* Mutant: an arm that fails keeps its worktree.
CleanedUp_Never(s) == s

\* The finally clauses of both runners: _remove_workspace, and rmtree.
CleanedUp(s) == [s EXCEPT !.workspace = FALSE]

\* Control-C reaches the executor and its command, which is no Exception to
\* the runners; an error of the log or of a print, or a signal to the executor
\* alone, leaves the command running.
Interrupt(o, both) ==
  LET a == exec[o].attempt IN
  /\ Executing(o)
  /\ both => Live(a)
  /\ ledger' = [ledger EXCEPT ![a] = Failed(@)]
  /\ exec' = [exec EXCEPT ![o] = Idle]
  /\ job' = IF both THEN [job EXCEPT ![a] = Exited(@, FALSE)] ELSE job
  /\ study' = IF both /\ job[a].kind = "study"
              THEN [study EXCEPT ![a][job[a].repo] = CleanedUp(@)] ELSE study
  /\ Fault
  /\ UNCHANGED <<machine, bundle, meta, evidence, killed>>

KillExecutor(o) ==
  /\ exec[o].at /= "idle"
  /\ exec' = [exec EXCEPT ![o] = Idle]
  /\ Fault
  /\ UNCHANGED <<machine, bundle, ledger, artifacts, evidence, job, killed>>

-----------------------------------------------------------------------------
(* benchmark run-plan: study_commands.py, repeated.py, paired.py *)

\* A step of the study command of attempt a, at a point of its program.
Studying(a, at) == job[a] /= None /\ job[a].kind = "study" /\ job[a].at = at
Artifacts(a) == study[a][job[a].repo]
SetArtifacts(a, s) == study' = [study EXCEPT ![a][job[a].repo] = s]
Rest == <<machine, bundle, exec, ledger, evidence, meta, killed, faults>>

\* load_preregistration, validate_execution_environment, and an artifact
\* directory that is not there.
PlanRuns(a) ==
  LET r == job[a].repo IN
  /\ frozen /= None
  /\ r \notin frozen.hidden <=> HiddenAsInContract(r)
  /\ <<r, "config">> \notin drift
  /\ ~study[a][r].dir

\* The schedule is drawn and the first repetition begins.
StartStudy(a) ==
  /\ Studying(a, "start") /\ PlanRuns(a)
  /\ \E orders \in {o \in Schedules(Repeats) : SeedsFound(o)} :
       job' = [job EXCEPT ![a].at = "arm", ![a].orders = orders]
  /\ SetArtifacts(a, [NoStudy EXCEPT !.dir = TRUE, !.plan = frozen.version])
  /\ UNCHANGED Rest

\* No seed gives an order of the schedule: the directory stays, with no
\* failure.json.
SeedsMissing(a) ==
  /\ Studying(a, "start") /\ PlanRuns(a)
  /\ \E orders \in Schedules(Repeats) : ~SeedsFound(orders)
  /\ job' = [job EXCEPT ![a] = Exited(@, FALSE)]
  /\ SetArtifacts(a, [NoStudy EXCEPT !.dir = TRUE, !.plan = frozen.version])
  /\ UNCHANGED Rest

RefuseStudy(a) ==
  /\ Studying(a, "start") /\ ~PlanRuns(a)
  /\ job' = [job EXCEPT ![a] = Exited(@, FALSE)]
  /\ UNCHANGED <<study, Rest>>

\* An arm gets a worktree at the canonical commit, and stores of its own.
CreateArm(a) ==
  /\ Studying(a, "arm")
  /\ SetArtifacts(a, [Artifacts(a) EXCEPT !.workspace = TRUE])
  /\ job' = [job EXCEPT ![a].at = "turn"]
  /\ UNCHANGED Rest

\* run_manifest: the provider works through the tasks.
RunArm(a) ==
  /\ Studying(a, "turn")
  /\ SetArtifacts(a, [Artifacts(a) EXCEPT !.turns = TRUE])
  /\ job' = [job EXCEPT ![a].at = "write"]
  /\ UNCHANGED Rest

\* Its measurements are written and its worktree is removed.
FinishArm(a) ==
  /\ Studying(a, "write")
  /\ SetArtifacts(a, CleanedUp(Artifacts(a)))
  /\ job' = [job EXCEPT ![a].at = IF job[a].slot = NArms THEN "paired" ELSE "arm",
                        ![a].slot = IF @ = NArms THEN 1 ELSE @ + 1]
  /\ UNCHANGED Rest

\* The orders that ran: each repetition shuffles the manifests with its seed.
Executed(orders) ==
  LET seeds == SeedSchedule(orders) IN [k \in DOMAIN orders |-> ExecutionOrder(seeds[k])]

\* paired_run.json; the order must be the planned one.
EndRepetition(a) ==
  LET j == job[a] IN
  /\ Studying(a, "paired")
  /\ Executed(j.orders)[j.rep] = j.orders[j.rep]
  /\ job' = [job EXCEPT ![a].at = IF j.rep = Repeats THEN "publish" ELSE "arm",
                        ![a].rep = IF j.rep = Repeats THEN @ ELSE @ + 1]
  /\ UNCHANGED <<study, Rest>>

\* study.json is the last of the study's files.
NextFile(s) ==
  IF "provenance" \notin s.files THEN "provenance"
  ELSE IF "aggregates" \notin s.files THEN "aggregates" ELSE "study"

Publish(a) ==
  LET s == Artifacts(a) IN
  /\ Studying(a, "publish") /\ "study" \notin s.files
  /\ SetArtifacts(a, [s EXCEPT !.files = @ \cup {NextFile(s)}])
  /\ UNCHANGED <<job, Rest>>

EndStudy(a) ==
  /\ Studying(a, "publish") /\ "study" \in Artifacts(a).files
  /\ job' = [job EXCEPT ![a] = Exited(@, TRUE)]
  /\ UNCHANGED <<study, Rest>>

\* Any Exception before the study has returned: failure.json, beside a file
\* it may have torn.
StudyRaises(a) ==
  LET s == Artifacts(a) IN
  /\ \E at \in {"arm", "turn", "write", "paired", "publish"} : Studying(a, at)
  /\ "study" \notin s.files
  /\ \E torn \in IF job[a].at = "publish" THEN {{}, {NextFile(s)}} ELSE {{}} :
       SetArtifacts(a, CleanedUp([s EXCEPT !.files = @ \cup torn \cup {"failure"},
                                            !.turns = @ \/ job[a].at = "turn"]))
  /\ job' = [job EXCEPT ![a] = Exited(@, FALSE)]
  /\ UNCHANGED Rest

-----------------------------------------------------------------------------
(* benchmark export and benchmark meta: export.py, meta.py *)

Running(a, kind, at) == job[a] /= None /\ job[a].kind = kind /\ job[a].at = at

WriteTables(a) ==
  /\ Running(a, "export", "start")
  /\ SetArtifacts(a, [Artifacts(a) EXCEPT !.exported = "part"])
  /\ job' = [job EXCEPT ![a].at = "manifest"]
  /\ UNCHANGED Rest

WriteExportManifest(a) ==
  /\ Running(a, "export", "manifest")
  /\ SetArtifacts(a, [Artifacts(a) EXCEPT !.exported = "whole"])
  /\ job' = [job EXCEPT ![a] = Exited(@, TRUE)]
  /\ UNCHANGED Rest

MetaRest == <<machine, bundle, exec, ledger, evidence, study, killed, faults>>

\* load_meta_preregistration, validate_meta_inputs.
MetaInputsValid(a) ==
  /\ frozen /= None
  /\ \A r \in Repos : EntersMeta(study[a][r]) /\ study[a][r].plan = frozen.version

\* aggregate_meta_study: the effect is what the summaries hold, repositories
\* without an observation left out.
Aggregate(a) ==
  /\ Running(a, "meta", "start") /\ MetaInputsValid(a)
  /\ \E n \in 0..NRepos : \E means \in [1..n -> -1..1] :
       \E effect \in HierarchicalMetrics(means) :
         meta' = [meta EXCEPT ![a] = [files |-> "part", plan |-> frozen.version,
                                      effect |-> effect]]
  /\ job' = [job EXCEPT ![a].at = "manifest"]
  /\ UNCHANGED MetaRest

WriteMetaManifest(a) ==
  /\ Running(a, "meta", "manifest")
  /\ meta' = [meta EXCEPT ![a].files = "whole"]
  /\ job' = [job EXCEPT ![a] = Exited(@, TRUE)]
  /\ UNCHANGED MetaRest

\* The inputs are refused, or a write fails.
OfflineRaises(a) ==
  /\ Live(a) /\ job[a].kind \in {"export", "meta"}
  /\ job' = [job EXCEPT ![a] = Exited(@, FALSE)]
  /\ UNCHANGED <<meta, MetaRest>>

KillJob(a) ==
  /\ Live(a)
  /\ job' = [job EXCEPT ![a] = Exited(@, FALSE)]
  /\ killed' = killed \cup {a} /\ Fault
  /\ UNCHANGED <<machine, bundle, exec, ledger, artifacts, evidence>>

-----------------------------------------------------------------------------
(* finalize_campaign.py *)

\* _verify_repository_export and _verify_meta_export.
ExportVerified(s, plan) == s.exported = "whole" /\ s.plan = plan
MetaVerified(m, plan) == m.files = "whole" /\ m.plan = plan

\* What finalize_campaign verifies of an attempt.
Finalizable(a) ==
  LET l == ledger[a] IN
  /\ l.status = "SUCCEEDED" /\ l.started /\ l.meta = "SUCCEEDED"
  /\ \A r \in Repos :
       /\ l.repos[r] = "SUCCEEDED"
       /\ {"study", "provenance", "aggregates"} \subseteq study[a][r].files
       /\ ExportVerified(study[a][r], l.plans)
  /\ MetaVerified(meta[a], l.plans)

\* The report and the claims, in a directory that must not exist.
WriteReport(o, a) ==
  /\ exec[o].at = "idle" /\ Finalizable(a) /\ evidence[a].files = "none"
  /\ \E higher \in BOOLEAN :
       evidence' = [evidence EXCEPT ![a] =
         [files |-> "part", higher |-> higher,
          claim |-> OrientMetric(SortedArms[1], meta[a].effect, higher)]]
  /\ exec' = [exec EXCEPT ![o] = [Idle EXCEPT !.at = "report", !.attempt = a]]
  /\ UNCHANGED <<machine, bundle, ledger, artifacts, job, killed, faults>>

SealEvidence(o) ==
  /\ exec[o].at = "report"
  /\ evidence' = [evidence EXCEPT ![exec[o].attempt].files = "whole"]
  /\ exec' = [exec EXCEPT ![o] = Idle]
  /\ UNCHANGED <<machine, bundle, ledger, artifacts, job, killed, faults>>

-----------------------------------------------------------------------------

Freezing == BeginFreeze \/ ConfigureAndLock \/ PublishFreeze \/ AbandonFreeze

ExecutorStep(o) ==
  \/ ClaimAttempt(o) \/ OpenLedger(o) \/ Revalidate(o) \/ SpawnStudy(o) \/ SpawnExport(o)
  \/ RepositorySucceeded(o) \/ SpawnMeta(o) \/ CloseLedger(o) \/ Return(o)
  \/ ExecutorRaises(o) \/ SealEvidence(o)

JobStep(a) ==
  \/ StartStudy(a) \/ SeedsMissing(a) \/ RefuseStudy(a) \/ CreateArm(a) \/ RunArm(a) \/ FinishArm(a)
  \/ EndRepetition(a) \/ Publish(a) \/ EndStudy(a) \/ StudyRaises(a)
  \/ WriteTables(a) \/ WriteExportManifest(a) \/ Aggregate(a) \/ WriteMetaManifest(a)
  \/ OfflineRaises(a)

Next ==
  \/ \E thing \in Things : Drift(thing)
  \/ Upgrade \/ Freezing \/ RetireFreeze
  \/ \E o \in Operators :
       \/ ExecutorStep(o) \/ KillExecutor(o)
       \/ \E both \in BOOLEAN : Interrupt(o, both)
       \/ \E a \in Attempts : Preflight(o, a) \/ WriteReport(o, a)
  \/ \E a \in Attempts : JobStep(a) \/ KillJob(a)

Spec == Init /\ [][Next]_vars

-----------------------------------------------------------------------------
(* Properties *)

Bundles == [version : Nat, lock : Nat, hidden : SUBSET Repos]
Executors == [at : {"idle", "ready", "claimed", "next", "spawn", "study", "export", "meta",
                    "closing", "report"},
              attempt : Attempts \cup {None}, manifest : Nat, plans : Nat, next : Nat]
Outcomes == {"PENDING", "RUNNING", "SUCCEEDED", "FAILED"}
Ledgers == [status : {"none", "claimed", "RUNNING", "SUCCEEDED", "FAILED"}, started : BOOLEAN,
            manifest : Nat, plans : Nat, repos : [Repos -> Outcomes], meta : Outcomes]
StudyFiles == {"provenance", "aggregates", "study", "failure"}
Studies == [dir : BOOLEAN, plan : Nat, files : SUBSET StudyFiles,
            exported : {"none", "part", "whole"}, workspace : BOOLEAN, turns : BOOLEAN]
Effects == {None} \cup
  UNION {HierarchicalMetrics(means) : means \in UNION {[1..n -> -1..1] : n \in 0..NRepos}}
Metas == [files : {"none", "part", "whole"}, plan : Nat, effect : Effects]
Claims == {"unobserved", "uncertain", "favors_B7", "favors_comparator"}

TypeOK ==
  /\ drift \subseteq Things /\ runtime \in Nat
  /\ frozen \in Bundles \cup {None} /\ freezes \in Nat
  /\ freezer \in [at : {"idle", "configure", "plan"}, lock : Nat]
  /\ exec \in [Operators -> Executors]
  /\ ledger \in [Attempts -> Ledgers]
  /\ study \in [Attempts -> [Repos -> Studies]]
  /\ meta \in [Attempts -> Metas]
  /\ evidence \in [Attempts -> [files : {"none", "part", "whole"}, higher : BOOLEAN,
                                claim : Claims \cup {None}]]
  /\ job \in [Attempts -> Commands \cup {None}]
  /\ killed \subseteq Attempts /\ faults \in Nat

\* execute_campaign.py: "runs all three repository studies ..., exports them,
\* and only then runs the frozen hierarchical meta-analysis".  An attempt that
\* SUCCEEDED has every artifact of every study and of the meta-study, all of
\* the plans its ledger names, however the bundle and the machine changed
\* meanwhile.  The manifest digest and the runtime lock in that ledger may be
\* those of an older bundle, never those of a later one.
SuccessIsWhole ==
  \A a \in Attempts : ledger[a].status = "SUCCEEDED" =>
    /\ \A r \in Repos :
         /\ ledger[a].repos[r] = "SUCCEEDED"
         /\ study[a][r].files = {"provenance", "aggregates", "study"}
         /\ study[a][r].exported = "whole"
         /\ study[a][r].plan = ledger[a].plans
    /\ meta[a].files = "whole" /\ meta[a].plan = ledger[a].plans
    /\ ledger[a].manifest \in 1..ledger[a].plans

\* README.md of the campaign: only an outage "before the first provider turn"
\* may be excluded.  The ledger on disk never denies a turn that began,
\* whoever was killed or interrupted, and whatever runs on without its parent.
NoHiddenTurns ==
  \A a \in Attempts, r \in Repos : study[a][r].turns =>
    ledger[a].started /\ ledger[a].repos[r] \in {"RUNNING", "SUCCEEDED", "FAILED"}

\* repeated.py, balanced_execution_orders: wherever a study is cut off, every
\* treatment ran as often as every other in every place, up to the unfinished
\* block, in what really ran; and no two repetitions share a seed, that is a
\* run id.
OrdersAreBalanced ==
  \A a \in Attempts : Studying(a, "publish") =>
    LET ran == Executed(job[a].orders)
        seeds == SeedSchedule(job[a].orders)
    IN  /\ \A n \in 1..Repeats, x, y \in ToSet(Manifests), p \in Places :
             LET first == [k \in 1..n |-> ran[k]]
                 gap == TimesAt(first, x, p) - TimesAt(first, y, p)
             IN  gap \in -1..1 /\ (n % NArms = 0 => gap = 0)
        /\ IsInjective(seeds)

\* paired.py: "Only audit artifacts survive workspace cleanup", unless the
\* study itself is killed.
NoWorkspaceLeft ==
  \A a \in Attempts, r \in Repos : study[a][r].workspace =>
    (Live(a) /\ job[a].kind = "study" /\ job[a].repo = r) \/ a \in killed

\* FINAL_EVIDENCE.md: a claim is made exactly where the frozen interval
\* excludes zero.  It favors B7 only if the whole interval lies on the side
\* that is better for B7, and the comparator likewise, as long as the interval
\* holds its estimate (the code reads the side from the estimate).
ClaimsAreOriented ==
  \A a \in Attempts : evidence[a].files /= "none" =>
    LET e == meta[a].effect
        below == e.repos > 0 /\ e.upper < 0
        above == e.repos > 0 /\ e.lower > 0
        B7Higher == IF SortedArms[1] = B7 THEN above ELSE below  \* e is first - second
        B7Lower == IF SortedArms[1] = B7 THEN below ELSE above
        good == IF evidence[a].higher THEN B7Higher ELSE B7Lower
        bad == IF evidence[a].higher THEN B7Lower ELSE B7Higher
    IN  /\ evidence[a].claim \in {"favors_B7", "favors_comparator"} <=> below \/ above
        /\ e.lower <= e.mean /\ e.mean <= e.upper =>
             /\ evidence[a].claim = "favors_B7" <=> good
             /\ evidence[a].claim = "favors_comparator" <=> bad

\* README.md of the campaign: no "resume, overwrite, or pick the best
\* attempt".  An outcome is final: a FAILED ledger never changes, a SUCCEEDED
\* one only if its own executor is interrupted before it has returned, and
\* then to FAILED.  The artifacts of a SUCCEEDED attempt never change, and a
\* study that was published keeps its files in every attempt.
ResultsAreFinal ==
  [][\A a \in Attempts :
       /\ ledger[a].status = "FAILED" => ledger'[a] = ledger[a]
       /\ ledger[a].status = "SUCCEEDED" =>
            /\ study'[a] = study[a] /\ meta'[a] = meta[a]
            /\ \/ ledger'[a] = ledger[a]
               \/ /\ ledger'[a] = Failed(ledger[a])
                  /\ \E o \in Operators : exec[o].attempt = a /\ exec[o].at = "closing"
       /\ \A r \in Repos : "study" \in study[a][r].files =>
            study'[a][r].files = study[a][r].files /\ study'[a][r].plan = study[a][r].plan]_vars

=============================================================================
