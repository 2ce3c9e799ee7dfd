---------------------------- MODULE LaunchProofs ----------------------------
(***************************************************************************)
(* Theorems about the build pipelines of module Pipelines, for every set   *)
(* of jobs and every value of the bounds. The invariant is the conjunction *)
(* of six parts; each has a lemma that says a step keeps it, with one case *)
(* per action, and the implementation of module BuildLife rests on two of  *)
(* them.                                                                   *)
(*                                                                         *)
(* The second part is about module Provision, for every set of variables a *)
(* workspace may define and every choice of databases.  The third is about *)
(* module Catalogue, for every archive: what its forty-nine plugins share  *)
(* is proved of each, and the rest of the detector.                        *)
(***************************************************************************)
EXTENDS Pipelines, Provision, Catalogue, WellFoundedInduction, SequenceTheorems, TLAPS

(***************************************************************************)
(* Where a pipeline has not run its build command yet, and how many runs   *)
(* of a job healing a peer dependency conflict may have added after n      *)
(* retries.                                                                *)
(***************************************************************************)
Early == {"none", "admitted", "clone", "init", "extract", "audit", "paused", "prepare"}

Peers(n) == IF n = 0 THEN 0 ELSE 2

(***************************************************************************)
(* The runs of the build command are paid for by the retries: before the   *)
(* command runs there are none, and in the loop there is one per attempt   *)
(* and at most two more for a peer dependency conflict, which is healed at *)
(* the first attempt only.                                                 *)
(***************************************************************************)
BuildsCounted ==
    \A j \in Jobs :
        /\ pc[j] \in Early => commands[j] = 0 /\ attempts[j] = 0
        /\ pc[j] = "build" => commands[j] <= attempts[j] + Peers(attempts[j])
        /\ pc[j] = "heal" => commands[j] <= attempts[j] + 1 + Peers(attempts[j])
        /\ pc[j] = "force" => attempts[j] = 0 /\ commands[j] <= 2
        /\ commands[j] <= MaxRetries + 3

(***************************************************************************)
(* Membership by membership, what PausedIffPending says of the sets.       *)
(***************************************************************************)
ChoicesPaused == \A j \in Jobs : j \in pending <=> pc[j] = "paused"

(***************************************************************************)
(* A document names an artifact only once its pipeline is over, and a      *)
(* pipeline whose own verdict is good has written its artifact: nobody     *)
(* deletes a file whose name no document has had, and who does is known.   *)
(***************************************************************************)
ArtifactsKept ==
    \A j \in Jobs :
        /\ j \in seen => pc[j] = "done"
        /\ j \in listed => pc[j] = "done" /\ Exists(j) /\ (j \in artifact \/ j \in unlinked)
        /\ verdict[j] = "deployed" => pc[j] = "done" \/ j \in artifact

(***************************************************************************)
(* A queued build has no workspace, so that nobody can start its preview   *)
(* and no health check can give it a verdict before its pipeline has       *)
(* begun; a build without a document has no spawn under way.               *)
(***************************************************************************)
PendingIsFresh ==
    \A j \in Jobs :
        /\ status[j] = "pending" => /\ pc[j] \in {"clone", "init", "lost"}
                                   /\ workspace[j] = "absent" /\ watch[j] = "no"
        /\ status[j] = "absent" => pc[j] \in {"none", "admitted", "done", "lost"} /\ watch[j] = "no"
        /\ pc[j] \in {"none", "admitted"} => /\ status[j] = "absent" /\ workspace[j] = "absent"
                                             /\ watch[j] = "no"

(***************************************************************************)
(* A source archive on disk belongs to a pipeline that is under way, or    *)
(* that a crash has lost.                                                  *)
(***************************************************************************)
ArchiveHasPipeline ==
    \A j \in Jobs : j \in zip => pc[j] \notin {"none", "clone", "done"}

(***************************************************************************)
(* Every step keeps the variables within their types.                      *)
(***************************************************************************)
LEMMA TypesStep ==
    ASSUME TypeOK, BuildsCounted, [Next]_vars PROVE TypeOK'
<1> USE DEF Go, MaxRetries, Quiet, run, record, disk, others, deletion, Written, Logged, Exists, Shown,
        TypeOK, BuildsCounted, Early, Peers
<1>1. ASSUME NEW j \in Jobs, Upload(j) PROVE TypeOK'
  BY <1>1 DEF Upload
<1>2. ASSUME NEW j \in Jobs, ImportGithubRepo(j) PROVE TypeOK'
  BY <1>2 DEF ImportGithubRepo
<1>3. ASSUME NEW j \in Jobs, CreateDeployment(j) PROVE TypeOK'
  BY <1>3 DEF CreateDeployment
<1>4. ASSUME NEW j \in Jobs, Clone(j) PROVE TypeOK'
  BY <1>4 DEF Clone
<1>5. ASSUME NEW j \in Jobs, Initialize(j) PROVE TypeOK'
  BY <1>5 DEF Initialize
<1>6. ASSUME NEW j \in Jobs, Extract(j) PROVE TypeOK'
  <2>1. CASE GiveUp(j) /\ UNCHANGED docker /\ workspace' = Logged(j, workspace[j])
    BY <1>6, <2>1 DEF Extract, GiveUp
  <2>2. CASE Go(j, "audit") /\ UNCHANGED verdict /\ workspace' = [workspace EXCEPT ![j] = "source"]
    BY <1>6, <2>2 DEF Extract
  <2> QED
    BY <1>6, <2>1, <2>2 DEF Extract
<1>7. ASSUME NEW j \in Jobs, Audit(j) PROVE TypeOK'
  BY <1>7 DEF Audit
<1>8. ASSUME NEW j \in Jobs, WaitForUserSelection(j) PROVE TypeOK'
  BY <1>8 DEF WaitForUserSelection
<1>9. ASSUME NEW j \in Jobs, SelectionTimeout(j) PROVE TypeOK'
  BY <1>9 DEF SelectionTimeout, Resume
<1>10. ASSUME NEW j \in Jobs, Prepare(j) PROVE TypeOK'
  BY <1>10 DEF Prepare, GiveUp
<1>11. ASSUME NEW j \in Jobs, Build(j) PROVE TypeOK'
  BY <1>11 DEF Build, RunCommand
<1>12. ASSUME NEW j \in Jobs, RetryLimit(j) PROVE TypeOK'
  BY <1>12 DEF RetryLimit, GiveUp
<1>13. ASSUME NEW j \in Jobs, RelaxTypes(j) PROVE TypeOK'
  BY <1>13 DEF RelaxTypes, Retry
<1>14. ASSUME NEW j \in Jobs, InjectPackage(j) PROVE TypeOK'
  BY <1>14 DEF InjectPackage, Retry
<1>15. ASSUME NEW j \in Jobs, InjectVariable(j) PROVE TypeOK'
  BY <1>15 DEF InjectVariable, Retry
<1>16. ASSUME NEW j \in Jobs, AskModel(j) PROVE TypeOK'
  BY <1>16 DEF AskModel, Retry
<1>17. ASSUME NEW j \in Jobs, HealPeers(j) PROVE TypeOK'
  BY <1>17 DEF HealPeers, RunCommand
<1>18. ASSUME NEW j \in Jobs, HealByForce(j) PROVE TypeOK'
  BY <1>18 DEF HealByForce, RunCommand
<1>19. ASSUME NEW j \in Jobs, Scan(j) PROVE TypeOK'
  BY <1>19 DEF Scan
<1>20. ASSUME NEW j \in Jobs, Semgrep(j) PROVE TypeOK'
  BY <1>20 DEF Semgrep, ScanStep, GiveUp
<1>21. ASSUME NEW j \in Jobs, Osv(j) PROVE TypeOK'
  BY <1>21 DEF Osv, ScanStep, GiveUp
<1>22. ASSUME NEW j \in Jobs, Trivy(j) PROVE TypeOK'
  BY <1>22 DEF Trivy, ScanStep, GiveUp
<1>23. ASSUME NEW j \in Jobs, Package(j) PROVE TypeOK'
  BY <1>23 DEF Package, GiveUp
<1>24. ASSUME NEW j \in Jobs, Launch(j) PROVE TypeOK'
  BY <1>24 DEF Launch, GiveUp
<1>25. ASSUME NEW j \in Jobs, HostHealth(j) PROVE TypeOK'
  BY <1>25 DEF HostHealth, HealthVerdict
<1>26. ASSUME NEW j \in Jobs, Settle(j) PROVE TypeOK'
  BY <1>26 DEF Settle
<1>27. ASSUME NEW j \in Jobs, SubmitUserSelection(j) PROVE TypeOK'
  BY <1>27 DEF SubmitUserSelection, Resume
<1>28. ASSUME NEW j \in Jobs, ContainerUp(j) PROVE TypeOK'
  BY <1>28 DEF ContainerUp
<1>29. ASSUME NEW j \in Jobs, ContainerVerdict(j) PROVE TypeOK'
  BY <1>29 DEF ContainerVerdict, HealthVerdict
<1>30. ASSUME NEW j \in Jobs, PreviewStops(j) PROVE TypeOK'
  BY <1>30 DEF PreviewStops
<1>31. ASSUME NEW j \in Jobs, StartPreview(j) PROVE TypeOK'
  BY <1>31 DEF StartPreview
<1>32. ASSUME NEW j \in Jobs, DeleteDeployment(j) PROVE TypeOK'
  BY <1>32 DEF DeleteDeployment
<1>33. ASSUME NEW j \in Jobs, PruneDeploymentWorkspace(j) PROVE TypeOK'
  BY <1>33 DEF PruneDeploymentWorkspace
<1>34. ASSUME RunPruningCycle PROVE TypeOK'
  BY <1>34 DEF RunPruningCycle
<1>35. ASSUME Crash PROVE TypeOK'
  BY <1>35, BoundsAreNumbers DEF Crash
<1>36. CASE UNCHANGED vars
  BY <1>36 DEF vars
<1>37. ASSUME NEW j \in Jobs, DeletionCleans(j) PROVE TypeOK'
  BY <1>37 DEF DeletionCleans
<1>38. ASSUME NEW j \in Jobs, DeletionEnds(j) PROVE TypeOK'
  BY <1>38 DEF DeletionEnds
<1> QED
    BY <1>1, <1>2, <1>3, <1>4, <1>5, <1>6, <1>7, <1>8, <1>9, <1>10, <1>11, <1>12, <1>13, <1>14,
     <1>15, <1>16, <1>17, <1>18, <1>19, <1>20, <1>21, <1>22, <1>23, <1>24, <1>25, <1>26, <1>27,
     <1>28, <1>29, <1>30, <1>31, <1>32, <1>33, <1>34, <1>35, <1>36, <1>37, <1>38 DEF Next, PipelineStep

(***************************************************************************)
(* Every step keeps the count of the build commands: the branches of the   *)
(* healing loop add an attempt for every command.                          *)
(***************************************************************************)
LEMMA CountStep ==
    ASSUME TypeOK, ChoicesPaused, BuildsCounted, [Next]_vars PROVE BuildsCounted'
<1> USE DEF Go, MaxRetries, Quiet, run, record, disk, others, deletion, Written, Logged, Exists, Shown,
        TypeOK, ChoicesPaused, BuildsCounted, Early, Peers
<1>1. ASSUME NEW j \in Jobs, Upload(j) PROVE BuildsCounted'
  BY <1>1 DEF Upload
<1>2. ASSUME NEW j \in Jobs, ImportGithubRepo(j) PROVE BuildsCounted'
  BY <1>2 DEF ImportGithubRepo
<1>3. ASSUME NEW j \in Jobs, CreateDeployment(j) PROVE BuildsCounted'
  BY <1>3 DEF CreateDeployment
<1>4. ASSUME NEW j \in Jobs, Clone(j) PROVE BuildsCounted'
  BY <1>4 DEF Clone
<1>5. ASSUME NEW j \in Jobs, Initialize(j) PROVE BuildsCounted'
  BY <1>5 DEF Initialize
<1>6. ASSUME NEW j \in Jobs, Extract(j) PROVE BuildsCounted'
  BY <1>6 DEF Extract, GiveUp
<1>7. ASSUME NEW j \in Jobs, Audit(j) PROVE BuildsCounted'
  BY <1>7 DEF Audit
<1>8. ASSUME NEW j \in Jobs, WaitForUserSelection(j) PROVE BuildsCounted'
  BY <1>8 DEF WaitForUserSelection
<1>9. ASSUME NEW j \in Jobs, SelectionTimeout(j) PROVE BuildsCounted'
  BY <1>9 DEF SelectionTimeout, Resume
<1>10. ASSUME NEW j \in Jobs, Prepare(j) PROVE BuildsCounted'
  BY <1>10 DEF Prepare, GiveUp
<1>11. ASSUME NEW j \in Jobs, Build(j) PROVE BuildsCounted'
  BY <1>11 DEF Build, RunCommand
<1>12. ASSUME NEW j \in Jobs, RetryLimit(j) PROVE BuildsCounted'
  BY <1>12 DEF RetryLimit, GiveUp
<1>13. ASSUME NEW j \in Jobs, RelaxTypes(j) PROVE BuildsCounted'
  BY <1>13 DEF RelaxTypes, Retry
<1>14. ASSUME NEW j \in Jobs, InjectPackage(j) PROVE BuildsCounted'
  BY <1>14 DEF InjectPackage, Retry
<1>15. ASSUME NEW j \in Jobs, InjectVariable(j) PROVE BuildsCounted'
  BY <1>15 DEF InjectVariable, Retry
<1>16. ASSUME NEW j \in Jobs, AskModel(j) PROVE BuildsCounted'
  BY <1>16 DEF AskModel, Retry
<1>17. ASSUME NEW j \in Jobs, HealPeers(j) PROVE BuildsCounted'
  BY <1>17 DEF HealPeers, RunCommand
<1>18. ASSUME NEW j \in Jobs, HealByForce(j) PROVE BuildsCounted'
  BY <1>18 DEF HealByForce, RunCommand
<1>19. ASSUME NEW j \in Jobs, Scan(j) PROVE BuildsCounted'
  BY <1>19 DEF Scan
<1>20. ASSUME NEW j \in Jobs, Semgrep(j) PROVE BuildsCounted'
  BY <1>20 DEF Semgrep, ScanStep, GiveUp
<1>21. ASSUME NEW j \in Jobs, Osv(j) PROVE BuildsCounted'
  BY <1>21 DEF Osv, ScanStep, GiveUp
<1>22. ASSUME NEW j \in Jobs, Trivy(j) PROVE BuildsCounted'
  BY <1>22 DEF Trivy, ScanStep, GiveUp
<1>23. ASSUME NEW j \in Jobs, Package(j) PROVE BuildsCounted'
  BY <1>23 DEF Package, GiveUp
<1>24. ASSUME NEW j \in Jobs, Launch(j) PROVE BuildsCounted'
  BY <1>24 DEF Launch, GiveUp
<1>25. ASSUME NEW j \in Jobs, HostHealth(j) PROVE BuildsCounted'
  BY <1>25 DEF HostHealth, HealthVerdict
<1>26. ASSUME NEW j \in Jobs, Settle(j) PROVE BuildsCounted'
  BY <1>26 DEF Settle
<1>27. ASSUME NEW j \in Jobs, SubmitUserSelection(j) PROVE BuildsCounted'
  BY <1>27 DEF SubmitUserSelection, Resume
<1>28. ASSUME NEW j \in Jobs, ContainerUp(j) PROVE BuildsCounted'
  BY <1>28 DEF ContainerUp
<1>29. ASSUME NEW j \in Jobs, ContainerVerdict(j) PROVE BuildsCounted'
  BY <1>29 DEF ContainerVerdict, HealthVerdict
<1>30. ASSUME NEW j \in Jobs, PreviewStops(j) PROVE BuildsCounted'
  BY <1>30 DEF PreviewStops
<1>31. ASSUME NEW j \in Jobs, StartPreview(j) PROVE BuildsCounted'
  BY <1>31 DEF StartPreview
<1>32. ASSUME NEW j \in Jobs, DeleteDeployment(j) PROVE BuildsCounted'
  BY <1>32 DEF DeleteDeployment
<1>33. ASSUME NEW j \in Jobs, PruneDeploymentWorkspace(j) PROVE BuildsCounted'
  BY <1>33 DEF PruneDeploymentWorkspace
<1>34. ASSUME RunPruningCycle PROVE BuildsCounted'
  BY <1>34 DEF RunPruningCycle
<1>35. ASSUME Crash PROVE BuildsCounted'
  BY <1>35, BoundsAreNumbers DEF Crash
<1>36. CASE UNCHANGED vars
  BY <1>36 DEF vars
<1>37. ASSUME NEW j \in Jobs, DeletionCleans(j) PROVE BuildsCounted'
  BY <1>37 DEF DeletionCleans
<1>38. ASSUME NEW j \in Jobs, DeletionEnds(j) PROVE BuildsCounted'
  BY <1>38 DEF DeletionEnds
<1> QED
    BY <1>1, <1>2, <1>3, <1>4, <1>5, <1>6, <1>7, <1>8, <1>9, <1>10, <1>11, <1>12, <1>13, <1>14,
     <1>15, <1>16, <1>17, <1>18, <1>19, <1>20, <1>21, <1>22, <1>23, <1>24, <1>25, <1>26, <1>27,
     <1>28, <1>29, <1>30, <1>31, <1>32, <1>33, <1>34, <1>35, <1>36, <1>37, <1>38 DEF Next, PipelineStep

(***************************************************************************)
(* Pausing registers the choice, an answer and the timeout take it back as *)
(* they resume the pipeline, a crash forgets both.                         *)
(***************************************************************************)
LEMMA ChoiceStep ==
    ASSUME TypeOK, ChoicesPaused, [Next]_vars PROVE ChoicesPaused'
<1> USE DEF Go, MaxRetries, Quiet, run, record, disk, others, deletion, Written, Logged, Exists, Shown,
        TypeOK, ChoicesPaused
<1>1. ASSUME NEW j \in Jobs, Upload(j) PROVE ChoicesPaused'
  BY <1>1 DEF Upload
<1>2. ASSUME NEW j \in Jobs, ImportGithubRepo(j) PROVE ChoicesPaused'
  BY <1>2 DEF ImportGithubRepo
<1>3. ASSUME NEW j \in Jobs, CreateDeployment(j) PROVE ChoicesPaused'
  BY <1>3 DEF CreateDeployment
<1>4. ASSUME NEW j \in Jobs, Clone(j) PROVE ChoicesPaused'
  BY <1>4 DEF Clone
<1>5. ASSUME NEW j \in Jobs, Initialize(j) PROVE ChoicesPaused'
  BY <1>5 DEF Initialize
<1>6. ASSUME NEW j \in Jobs, Extract(j) PROVE ChoicesPaused'
  BY <1>6 DEF Extract, GiveUp
<1>7. ASSUME NEW j \in Jobs, Audit(j) PROVE ChoicesPaused'
  BY <1>7 DEF Audit
<1>8. ASSUME NEW j \in Jobs, WaitForUserSelection(j) PROVE ChoicesPaused'
  BY <1>8 DEF WaitForUserSelection
<1>9. ASSUME NEW j \in Jobs, SelectionTimeout(j) PROVE ChoicesPaused'
  BY <1>9 DEF SelectionTimeout, Resume
<1>10. ASSUME NEW j \in Jobs, Prepare(j) PROVE ChoicesPaused'
  BY <1>10 DEF Prepare, GiveUp
<1>11. ASSUME NEW j \in Jobs, Build(j) PROVE ChoicesPaused'
  BY <1>11 DEF Build, RunCommand
<1>12. ASSUME NEW j \in Jobs, RetryLimit(j) PROVE ChoicesPaused'
  BY <1>12 DEF RetryLimit, GiveUp
<1>13. ASSUME NEW j \in Jobs, RelaxTypes(j) PROVE ChoicesPaused'
  BY <1>13 DEF RelaxTypes, Retry
<1>14. ASSUME NEW j \in Jobs, InjectPackage(j) PROVE ChoicesPaused'
  BY <1>14 DEF InjectPackage, Retry
<1>15. ASSUME NEW j \in Jobs, InjectVariable(j) PROVE ChoicesPaused'
  BY <1>15 DEF InjectVariable, Retry
<1>16. ASSUME NEW j \in Jobs, AskModel(j) PROVE ChoicesPaused'
  BY <1>16 DEF AskModel, Retry
<1>17. ASSUME NEW j \in Jobs, HealPeers(j) PROVE ChoicesPaused'
  BY <1>17 DEF HealPeers, RunCommand
<1>18. ASSUME NEW j \in Jobs, HealByForce(j) PROVE ChoicesPaused'
  BY <1>18 DEF HealByForce, RunCommand
<1>19. ASSUME NEW j \in Jobs, Scan(j) PROVE ChoicesPaused'
  BY <1>19 DEF Scan
<1>20. ASSUME NEW j \in Jobs, Semgrep(j) PROVE ChoicesPaused'
  BY <1>20 DEF Semgrep, ScanStep, GiveUp
<1>21. ASSUME NEW j \in Jobs, Osv(j) PROVE ChoicesPaused'
  BY <1>21 DEF Osv, ScanStep, GiveUp
<1>22. ASSUME NEW j \in Jobs, Trivy(j) PROVE ChoicesPaused'
  BY <1>22 DEF Trivy, ScanStep, GiveUp
<1>23. ASSUME NEW j \in Jobs, Package(j) PROVE ChoicesPaused'
  BY <1>23 DEF Package, GiveUp
<1>24. ASSUME NEW j \in Jobs, Launch(j) PROVE ChoicesPaused'
  BY <1>24 DEF Launch, GiveUp
<1>25. ASSUME NEW j \in Jobs, HostHealth(j) PROVE ChoicesPaused'
  BY <1>25 DEF HostHealth, HealthVerdict
<1>26. ASSUME NEW j \in Jobs, Settle(j) PROVE ChoicesPaused'
  BY <1>26 DEF Settle
<1>27. ASSUME NEW j \in Jobs, SubmitUserSelection(j) PROVE ChoicesPaused'
  BY <1>27 DEF SubmitUserSelection, Resume
<1>28. ASSUME NEW j \in Jobs, ContainerUp(j) PROVE ChoicesPaused'
  BY <1>28 DEF ContainerUp
<1>29. ASSUME NEW j \in Jobs, ContainerVerdict(j) PROVE ChoicesPaused'
  BY <1>29 DEF ContainerVerdict, HealthVerdict
<1>30. ASSUME NEW j \in Jobs, PreviewStops(j) PROVE ChoicesPaused'
  BY <1>30 DEF PreviewStops
<1>31. ASSUME NEW j \in Jobs, StartPreview(j) PROVE ChoicesPaused'
  BY <1>31 DEF StartPreview
<1>32. ASSUME NEW j \in Jobs, DeleteDeployment(j) PROVE ChoicesPaused'
  BY <1>32 DEF DeleteDeployment
<1>33. ASSUME NEW j \in Jobs, PruneDeploymentWorkspace(j) PROVE ChoicesPaused'
  BY <1>33 DEF PruneDeploymentWorkspace
<1>34. ASSUME RunPruningCycle PROVE ChoicesPaused'
  BY <1>34 DEF RunPruningCycle
<1>35. ASSUME Crash PROVE ChoicesPaused'
  BY <1>35, BoundsAreNumbers DEF Crash
<1>36. CASE UNCHANGED vars
  BY <1>36 DEF vars
<1>37. ASSUME NEW j \in Jobs, DeletionCleans(j) PROVE ChoicesPaused'
  BY <1>37 DEF DeletionCleans
<1>38. ASSUME NEW j \in Jobs, DeletionEnds(j) PROVE ChoicesPaused'
  BY <1>38 DEF DeletionEnds
<1> QED
    BY <1>1, <1>2, <1>3, <1>4, <1>5, <1>6, <1>7, <1>8, <1>9, <1>10, <1>11, <1>12, <1>13, <1>14,
     <1>15, <1>16, <1>17, <1>18, <1>19, <1>20, <1>21, <1>22, <1>23, <1>24, <1>25, <1>26, <1>27,
     <1>28, <1>29, <1>30, <1>31, <1>32, <1>33, <1>34, <1>35, <1>36, <1>37, <1>38 DEF Next, PipelineStep

(***************************************************************************)
(* Packaging writes the artifact, the end of the pipeline names it, and a  *)
(* deletion takes the file if it has read the name, and then the name.     *)
(***************************************************************************)
LEMMA ArtifactStep ==
    ASSUME TypeOK, ChoicesPaused, ArtifactsKept, [Next]_vars PROVE ArtifactsKept'
<1> USE DEF Go, MaxRetries, Quiet, run, record, disk, others, deletion, Written, Logged, Exists, Shown,
        TypeOK, ChoicesPaused, ArtifactsKept
<1>1. ASSUME NEW j \in Jobs, Upload(j) PROVE ArtifactsKept'
  BY <1>1 DEF Upload
<1>2. ASSUME NEW j \in Jobs, ImportGithubRepo(j) PROVE ArtifactsKept'
  BY <1>2 DEF ImportGithubRepo
<1>3. ASSUME NEW j \in Jobs, CreateDeployment(j) PROVE ArtifactsKept'
  BY <1>3 DEF CreateDeployment
<1>4. ASSUME NEW j \in Jobs, Clone(j) PROVE ArtifactsKept'
  BY <1>4 DEF Clone
<1>5. ASSUME NEW j \in Jobs, Initialize(j) PROVE ArtifactsKept'
  BY <1>5 DEF Initialize
<1>6. ASSUME NEW j \in Jobs, Extract(j) PROVE ArtifactsKept'
  BY <1>6 DEF Extract, GiveUp
<1>7. ASSUME NEW j \in Jobs, Audit(j) PROVE ArtifactsKept'
  BY <1>7 DEF Audit
<1>8. ASSUME NEW j \in Jobs, WaitForUserSelection(j) PROVE ArtifactsKept'
  BY <1>8 DEF WaitForUserSelection
<1>9. ASSUME NEW j \in Jobs, SelectionTimeout(j) PROVE ArtifactsKept'
  BY <1>9 DEF SelectionTimeout, Resume
<1>10. ASSUME NEW j \in Jobs, Prepare(j) PROVE ArtifactsKept'
  BY <1>10 DEF Prepare, GiveUp
<1>11. ASSUME NEW j \in Jobs, Build(j) PROVE ArtifactsKept'
  BY <1>11 DEF Build, RunCommand
<1>12. ASSUME NEW j \in Jobs, RetryLimit(j) PROVE ArtifactsKept'
  BY <1>12 DEF RetryLimit, GiveUp
<1>13. ASSUME NEW j \in Jobs, RelaxTypes(j) PROVE ArtifactsKept'
  BY <1>13 DEF RelaxTypes, Retry
<1>14. ASSUME NEW j \in Jobs, InjectPackage(j) PROVE ArtifactsKept'
  BY <1>14 DEF InjectPackage, Retry
<1>15. ASSUME NEW j \in Jobs, InjectVariable(j) PROVE ArtifactsKept'
  BY <1>15 DEF InjectVariable, Retry
<1>16. ASSUME NEW j \in Jobs, AskModel(j) PROVE ArtifactsKept'
  BY <1>16 DEF AskModel, Retry
<1>17. ASSUME NEW j \in Jobs, HealPeers(j) PROVE ArtifactsKept'
  BY <1>17 DEF HealPeers, RunCommand
<1>18. ASSUME NEW j \in Jobs, HealByForce(j) PROVE ArtifactsKept'
  BY <1>18 DEF HealByForce, RunCommand
<1>19. ASSUME NEW j \in Jobs, Scan(j) PROVE ArtifactsKept'
  BY <1>19 DEF Scan
<1>20. ASSUME NEW j \in Jobs, Semgrep(j) PROVE ArtifactsKept'
  BY <1>20 DEF Semgrep, ScanStep, GiveUp
<1>21. ASSUME NEW j \in Jobs, Osv(j) PROVE ArtifactsKept'
  BY <1>21 DEF Osv, ScanStep, GiveUp
<1>22. ASSUME NEW j \in Jobs, Trivy(j) PROVE ArtifactsKept'
  BY <1>22 DEF Trivy, ScanStep, GiveUp
<1>23. ASSUME NEW j \in Jobs, Package(j) PROVE ArtifactsKept'
  BY <1>23 DEF Package, GiveUp
<1>24. ASSUME NEW j \in Jobs, Launch(j) PROVE ArtifactsKept'
  BY <1>24 DEF Launch, GiveUp
<1>25. ASSUME NEW j \in Jobs, HostHealth(j) PROVE ArtifactsKept'
  BY <1>25 DEF HostHealth, HealthVerdict
<1>26. ASSUME NEW j \in Jobs, Settle(j) PROVE ArtifactsKept'
  BY <1>26 DEF Settle
<1>27. ASSUME NEW j \in Jobs, SubmitUserSelection(j) PROVE ArtifactsKept'
  BY <1>27 DEF SubmitUserSelection, Resume
<1>28. ASSUME NEW j \in Jobs, ContainerUp(j) PROVE ArtifactsKept'
  BY <1>28 DEF ContainerUp
<1>29. ASSUME NEW j \in Jobs, ContainerVerdict(j) PROVE ArtifactsKept'
  BY <1>29 DEF ContainerVerdict, HealthVerdict
<1>30. ASSUME NEW j \in Jobs, PreviewStops(j) PROVE ArtifactsKept'
  BY <1>30 DEF PreviewStops
<1>31. ASSUME NEW j \in Jobs, StartPreview(j) PROVE ArtifactsKept'
  BY <1>31 DEF StartPreview
<1>32. ASSUME NEW j \in Jobs, DeleteDeployment(j) PROVE ArtifactsKept'
  BY <1>32 DEF DeleteDeployment
<1>33. ASSUME NEW j \in Jobs, PruneDeploymentWorkspace(j) PROVE ArtifactsKept'
  BY <1>33 DEF PruneDeploymentWorkspace
<1>34. ASSUME RunPruningCycle PROVE ArtifactsKept'
  BY <1>34 DEF RunPruningCycle
<1>35. ASSUME Crash PROVE ArtifactsKept'
  BY <1>35, BoundsAreNumbers DEF Crash
<1>36. CASE UNCHANGED vars
  BY <1>36 DEF vars
<1>37. ASSUME NEW j \in Jobs, DeletionCleans(j) PROVE ArtifactsKept'
  BY <1>37 DEF DeletionCleans
<1>38. ASSUME NEW j \in Jobs, DeletionEnds(j) PROVE ArtifactsKept'
  BY <1>38 DEF DeletionEnds
<1> QED
    BY <1>1, <1>2, <1>3, <1>4, <1>5, <1>6, <1>7, <1>8, <1>9, <1>10, <1>11, <1>12, <1>13, <1>14,
     <1>15, <1>16, <1>17, <1>18, <1>19, <1>20, <1>21, <1>22, <1>23, <1>24, <1>25, <1>26, <1>27,
     <1>28, <1>29, <1>30, <1>31, <1>32, <1>33, <1>34, <1>35, <1>36, <1>37, <1>38 DEF Next, PipelineStep

(***************************************************************************)
(* Only the clone and the first step of the pipeline see a queued build.   *)
(***************************************************************************)
LEMMA PendingStep ==
    ASSUME TypeOK, ChoicesPaused, PendingIsFresh, [Next]_vars PROVE PendingIsFresh'
<1> USE DEF Go, MaxRetries, Quiet, run, record, disk, others, deletion, Written, Logged, Exists, Shown,
        TypeOK, ChoicesPaused, PendingIsFresh
<1>1. ASSUME NEW j \in Jobs, Upload(j) PROVE PendingIsFresh'
  BY <1>1 DEF Upload
<1>2. ASSUME NEW j \in Jobs, ImportGithubRepo(j) PROVE PendingIsFresh'
  BY <1>2 DEF ImportGithubRepo
<1>3. ASSUME NEW j \in Jobs, CreateDeployment(j) PROVE PendingIsFresh'
  BY <1>3 DEF CreateDeployment
<1>4. ASSUME NEW j \in Jobs, Clone(j) PROVE PendingIsFresh'
  BY <1>4 DEF Clone
<1>5. ASSUME NEW j \in Jobs, Initialize(j) PROVE PendingIsFresh'
  BY <1>5 DEF Initialize
<1>6. ASSUME NEW j \in Jobs, Extract(j) PROVE PendingIsFresh'
  BY <1>6 DEF Extract, GiveUp
<1>7. ASSUME NEW j \in Jobs, Audit(j) PROVE PendingIsFresh'
  BY <1>7 DEF Audit
<1>8. ASSUME NEW j \in Jobs, WaitForUserSelection(j) PROVE PendingIsFresh'
  BY <1>8 DEF WaitForUserSelection
<1>9. ASSUME NEW j \in Jobs, SelectionTimeout(j) PROVE PendingIsFresh'
  BY <1>9 DEF SelectionTimeout, Resume
<1>10. ASSUME NEW j \in Jobs, Prepare(j) PROVE PendingIsFresh'
  BY <1>10 DEF Prepare, GiveUp
<1>11. ASSUME NEW j \in Jobs, Build(j) PROVE PendingIsFresh'
  BY <1>11 DEF Build, RunCommand
<1>12. ASSUME NEW j \in Jobs, RetryLimit(j) PROVE PendingIsFresh'
  BY <1>12 DEF RetryLimit, GiveUp
<1>13. ASSUME NEW j \in Jobs, RelaxTypes(j) PROVE PendingIsFresh'
  BY <1>13 DEF RelaxTypes, Retry
<1>14. ASSUME NEW j \in Jobs, InjectPackage(j) PROVE PendingIsFresh'
  BY <1>14 DEF InjectPackage, Retry
<1>15. ASSUME NEW j \in Jobs, InjectVariable(j) PROVE PendingIsFresh'
  BY <1>15 DEF InjectVariable, Retry
<1>16. ASSUME NEW j \in Jobs, AskModel(j) PROVE PendingIsFresh'
  BY <1>16 DEF AskModel, Retry
<1>17. ASSUME NEW j \in Jobs, HealPeers(j) PROVE PendingIsFresh'
  BY <1>17 DEF HealPeers, RunCommand
<1>18. ASSUME NEW j \in Jobs, HealByForce(j) PROVE PendingIsFresh'
  BY <1>18 DEF HealByForce, RunCommand
<1>19. ASSUME NEW j \in Jobs, Scan(j) PROVE PendingIsFresh'
  BY <1>19 DEF Scan
<1>20. ASSUME NEW j \in Jobs, Semgrep(j) PROVE PendingIsFresh'
  BY <1>20 DEF Semgrep, ScanStep, GiveUp
<1>21. ASSUME NEW j \in Jobs, Osv(j) PROVE PendingIsFresh'
  BY <1>21 DEF Osv, ScanStep, GiveUp
<1>22. ASSUME NEW j \in Jobs, Trivy(j) PROVE PendingIsFresh'
  BY <1>22 DEF Trivy, ScanStep, GiveUp
<1>23. ASSUME NEW j \in Jobs, Package(j) PROVE PendingIsFresh'
  BY <1>23 DEF Package, GiveUp
<1>24. ASSUME NEW j \in Jobs, Launch(j) PROVE PendingIsFresh'
  BY <1>24 DEF Launch, GiveUp
<1>25. ASSUME NEW j \in Jobs, HostHealth(j) PROVE PendingIsFresh'
  BY <1>25 DEF HostHealth, HealthVerdict
<1>26. ASSUME NEW j \in Jobs, Settle(j) PROVE PendingIsFresh'
  BY <1>26 DEF Settle
<1>27. ASSUME NEW j \in Jobs, SubmitUserSelection(j) PROVE PendingIsFresh'
  BY <1>27 DEF SubmitUserSelection, Resume
<1>28. ASSUME NEW j \in Jobs, ContainerUp(j) PROVE PendingIsFresh'
  BY <1>28 DEF ContainerUp
<1>29. ASSUME NEW j \in Jobs, ContainerVerdict(j) PROVE PendingIsFresh'
  BY <1>29 DEF ContainerVerdict, HealthVerdict
<1>30. ASSUME NEW j \in Jobs, PreviewStops(j) PROVE PendingIsFresh'
  BY <1>30 DEF PreviewStops
<1>31. ASSUME NEW j \in Jobs, StartPreview(j) PROVE PendingIsFresh'
  BY <1>31 DEF StartPreview
<1>32. ASSUME NEW j \in Jobs, DeleteDeployment(j) PROVE PendingIsFresh'
  BY <1>32 DEF DeleteDeployment
<1>33. ASSUME NEW j \in Jobs, PruneDeploymentWorkspace(j) PROVE PendingIsFresh'
  BY <1>33 DEF PruneDeploymentWorkspace
<1>34. ASSUME RunPruningCycle PROVE PendingIsFresh'
  BY <1>34 DEF RunPruningCycle
<1>35. ASSUME Crash PROVE PendingIsFresh'
  BY <1>35, BoundsAreNumbers DEF Crash
<1>36. CASE UNCHANGED vars
  BY <1>36 DEF vars
<1>37. ASSUME NEW j \in Jobs, DeletionCleans(j) PROVE PendingIsFresh'
  BY <1>37 DEF DeletionCleans
<1>38. ASSUME NEW j \in Jobs, DeletionEnds(j) PROVE PendingIsFresh'
  BY <1>38 DEF DeletionEnds
<1> QED
    BY <1>1, <1>2, <1>3, <1>4, <1>5, <1>6, <1>7, <1>8, <1>9, <1>10, <1>11, <1>12, <1>13, <1>14,
     <1>15, <1>16, <1>17, <1>18, <1>19, <1>20, <1>21, <1>22, <1>23, <1>24, <1>25, <1>26, <1>27,
     <1>28, <1>29, <1>30, <1>31, <1>32, <1>33, <1>34, <1>35, <1>36, <1>37, <1>38 DEF Next, PipelineStep

(***************************************************************************)
(* The upload and the clone leave an archive, the end of the pipeline and  *)
(* a document that cannot be created remove it.                            *)
(***************************************************************************)
LEMMA ArchiveStep ==
    ASSUME TypeOK, ChoicesPaused, ArchiveHasPipeline, [Next]_vars PROVE ArchiveHasPipeline'
<1> USE DEF Go, MaxRetries, Quiet, run, record, disk, others, deletion, Written, Logged, Exists, Shown,
        TypeOK, ChoicesPaused, ArchiveHasPipeline
<1>1. ASSUME NEW j \in Jobs, Upload(j) PROVE ArchiveHasPipeline'
  BY <1>1 DEF Upload
<1>2. ASSUME NEW j \in Jobs, ImportGithubRepo(j) PROVE ArchiveHasPipeline'
  BY <1>2 DEF ImportGithubRepo
<1>3. ASSUME NEW j \in Jobs, CreateDeployment(j) PROVE ArchiveHasPipeline'
  BY <1>3 DEF CreateDeployment
<1>4. ASSUME NEW j \in Jobs, Clone(j) PROVE ArchiveHasPipeline'
  BY <1>4 DEF Clone
<1>5. ASSUME NEW j \in Jobs, Initialize(j) PROVE ArchiveHasPipeline'
  BY <1>5 DEF Initialize
<1>6. ASSUME NEW j \in Jobs, Extract(j) PROVE ArchiveHasPipeline'
  BY <1>6 DEF Extract, GiveUp
<1>7. ASSUME NEW j \in Jobs, Audit(j) PROVE ArchiveHasPipeline'
  BY <1>7 DEF Audit
<1>8. ASSUME NEW j \in Jobs, WaitForUserSelection(j) PROVE ArchiveHasPipeline'
  BY <1>8 DEF WaitForUserSelection
<1>9. ASSUME NEW j \in Jobs, SelectionTimeout(j) PROVE ArchiveHasPipeline'
  BY <1>9 DEF SelectionTimeout, Resume
<1>10. ASSUME NEW j \in Jobs, Prepare(j) PROVE ArchiveHasPipeline'
  BY <1>10 DEF Prepare, GiveUp
<1>11. ASSUME NEW j \in Jobs, Build(j) PROVE ArchiveHasPipeline'
  BY <1>11 DEF Build, RunCommand
<1>12. ASSUME NEW j \in Jobs, RetryLimit(j) PROVE ArchiveHasPipeline'
  BY <1>12 DEF RetryLimit, GiveUp
<1>13. ASSUME NEW j \in Jobs, RelaxTypes(j) PROVE ArchiveHasPipeline'
  BY <1>13 DEF RelaxTypes, Retry
<1>14. ASSUME NEW j \in Jobs, InjectPackage(j) PROVE ArchiveHasPipeline'
  BY <1>14 DEF InjectPackage, Retry
<1>15. ASSUME NEW j \in Jobs, InjectVariable(j) PROVE ArchiveHasPipeline'
  BY <1>15 DEF InjectVariable, Retry
<1>16. ASSUME NEW j \in Jobs, AskModel(j) PROVE ArchiveHasPipeline'
  BY <1>16 DEF AskModel, Retry
<1>17. ASSUME NEW j \in Jobs, HealPeers(j) PROVE ArchiveHasPipeline'
  BY <1>17 DEF HealPeers, RunCommand
<1>18. ASSUME NEW j \in Jobs, HealByForce(j) PROVE ArchiveHasPipeline'
  BY <1>18 DEF HealByForce, RunCommand
<1>19. ASSUME NEW j \in Jobs, Scan(j) PROVE ArchiveHasPipeline'
  BY <1>19 DEF Scan
<1>20. ASSUME NEW j \in Jobs, Semgrep(j) PROVE ArchiveHasPipeline'
  BY <1>20 DEF Semgrep, ScanStep, GiveUp
<1>21. ASSUME NEW j \in Jobs, Osv(j) PROVE ArchiveHasPipeline'
  BY <1>21 DEF Osv, ScanStep, GiveUp
<1>22. ASSUME NEW j \in Jobs, Trivy(j) PROVE ArchiveHasPipeline'
  BY <1>22 DEF Trivy, ScanStep, GiveUp
<1>23. ASSUME NEW j \in Jobs, Package(j) PROVE ArchiveHasPipeline'
  BY <1>23 DEF Package, GiveUp
<1>24. ASSUME NEW j \in Jobs, Launch(j) PROVE ArchiveHasPipeline'
  BY <1>24 DEF Launch, GiveUp
<1>25. ASSUME NEW j \in Jobs, HostHealth(j) PROVE ArchiveHasPipeline'
  BY <1>25 DEF HostHealth, HealthVerdict
<1>26. ASSUME NEW j \in Jobs, Settle(j) PROVE ArchiveHasPipeline'
  BY <1>26 DEF Settle
<1>27. ASSUME NEW j \in Jobs, SubmitUserSelection(j) PROVE ArchiveHasPipeline'
  BY <1>27 DEF SubmitUserSelection, Resume
<1>28. ASSUME NEW j \in Jobs, ContainerUp(j) PROVE ArchiveHasPipeline'
  BY <1>28 DEF ContainerUp
<1>29. ASSUME NEW j \in Jobs, ContainerVerdict(j) PROVE ArchiveHasPipeline'
  BY <1>29 DEF ContainerVerdict, HealthVerdict
<1>30. ASSUME NEW j \in Jobs, PreviewStops(j) PROVE ArchiveHasPipeline'
  BY <1>30 DEF PreviewStops
<1>31. ASSUME NEW j \in Jobs, StartPreview(j) PROVE ArchiveHasPipeline'
  BY <1>31 DEF StartPreview
<1>32. ASSUME NEW j \in Jobs, DeleteDeployment(j) PROVE ArchiveHasPipeline'
  BY <1>32 DEF DeleteDeployment
<1>33. ASSUME NEW j \in Jobs, PruneDeploymentWorkspace(j) PROVE ArchiveHasPipeline'
  BY <1>33 DEF PruneDeploymentWorkspace
<1>34. ASSUME RunPruningCycle PROVE ArchiveHasPipeline'
  BY <1>34 DEF RunPruningCycle
<1>35. ASSUME Crash PROVE ArchiveHasPipeline'
  BY <1>35, BoundsAreNumbers DEF Crash
<1>36. CASE UNCHANGED vars
  BY <1>36 DEF vars
<1>37. ASSUME NEW j \in Jobs, DeletionCleans(j) PROVE ArchiveHasPipeline'
  BY <1>37 DEF DeletionCleans
<1>38. ASSUME NEW j \in Jobs, DeletionEnds(j) PROVE ArchiveHasPipeline'
  BY <1>38 DEF DeletionEnds
<1> QED
    BY <1>1, <1>2, <1>3, <1>4, <1>5, <1>6, <1>7, <1>8, <1>9, <1>10, <1>11, <1>12, <1>13, <1>14,
     <1>15, <1>16, <1>17, <1>18, <1>19, <1>20, <1>21, <1>22, <1>23, <1>24, <1>25, <1>26, <1>27,
     <1>28, <1>29, <1>30, <1>31, <1>32, <1>33, <1>34, <1>35, <1>36, <1>37, <1>38 DEF Next, PipelineStep

-----------------------------------------------------------------------------
(***************************************************************************)
(* The life of a build.  phases is the value module BuildLife sees.        *)
(***************************************************************************)

(***************************************************************************)
(* The phase a status stands for, and the phases of all jobs.              *)
(***************************************************************************)
PhaseOf(s) ==
    CASE s = "absent"                   -> "none"
      [] s = "pending"                  -> "queued"
      [] s \in {"building", "scanning"} -> "working"
      [] s = "deployed"                 -> "good"
      [] s = "failed"                   -> "bad"
      [] s = "gone"                     -> "removed"

phases == [j \in Jobs |-> Phase(j)]

(***************************************************************************)
(* A write of one document's status is a move of one phase.                *)
(***************************************************************************)
LEMMA PhaseMoves ==
    ASSUME TypeOK, NEW j \in Jobs, NEW s, status' = [status EXCEPT ![j] = s]
    PROVE phases' = [phases EXCEPT ![j] = PhaseOf(s)]
<1>1. ASSUME NEW k \in Jobs PROVE status'[k] = IF k = j THEN s ELSE status[k]
  BY DEF TypeOK
<1>2. ASSUME NEW k \in Jobs PROVE Phase(k) = PhaseOf(status[k]) /\ Phase(k)' = PhaseOf(status'[k])
  BY DEF Phase, PhaseOf
<1>3. phases' = [k \in Jobs |-> Phase(k)']
  BY DEF phases
<1>4. ASSUME NEW k \in Jobs
      PROVE Phase(k)' = IF k = j THEN PhaseOf(s) ELSE Phase(k)
  BY <1>1, <1>2, Zenon
<1>5. phases' = [k \in Jobs |-> IF k = j THEN PhaseOf(s) ELSE Phase(k)]
  BY <1>3, <1>4
<1> QED
  BY <1>5 DEF phases

(***************************************************************************)
(* A step that writes no status moves no phase.                            *)
(***************************************************************************)
LEMMA PhaseRests ==
    ASSUME status' = status PROVE phases' = phases
  BY DEF phases, Phase

(***************************************************************************)
(* Every step of the pipelines is a step of BuildLife or changes nothing   *)
(* it sees. A write of a status by a pipeline or a health check works on,  *)
(* spoils or approves the build; the end of a pipeline approves it with    *)
(* its artifact.                                                           *)
(***************************************************************************)
LEMMA LifeStep ==
    ASSUME TypeOK, ArtifactsKept, PendingIsFresh, [Next]_vars
    PROVE [Life!Next]_(Life!life)
<1> DEFINE Goal == [Life!Next]_(Life!life)
<1>s. ASSUME status' = status, listed' = listed PROVE Goal
  BY <1>s, PhaseRests DEF Life!life, phases
<1>w. ASSUME NEW j \in Jobs, NEW s \in {"building", "scanning", "deployed", "failed"},
             status' = Written(j, s), status[j] # "pending" \/ s # "deployed", listed' = listed
      PROVE Goal
  <2>1. CASE ~Exists(j)
    BY <1>w, <1>s, <2>1 DEF Written, TypeOK
  <2>2. CASE Exists(j)
    <3>1. phases' = [phases EXCEPT ![j] = PhaseOf(s)]
      BY <1>w, <2>2, PhaseMoves DEF Written
    <3>2. phases[j] \in {"queued", "working", "good", "bad"}
      BY <2>2 DEF Exists, phases, Phase, TypeOK
    <3>3. s = "deployed" => phases[j] \in {"working", "good", "bad"}
      BY <1>w, <2>2 DEF Exists, phases, Phase, TypeOK
    <3> QED
      BY <1>w, <3>1, <3>2, <3>3 DEF PhaseOf, phases, Life!Next, Life!Work, Life!Spoil, Life!Approve, Life!Move
  <2> QED
    BY <2>1, <2>2
<1>1. ASSUME NEW j \in Jobs, Upload(j) PROVE Goal
  BY <1>1, <1>s DEF Upload, record
<1>2. ASSUME NEW j \in Jobs, Extract(j) PROVE Goal
  BY <1>2, <1>s DEF Extract, record
<1>3. ASSUME NEW j \in Jobs, Audit(j) PROVE Goal
  BY <1>3, <1>s DEF Audit, record
<1>4. ASSUME NEW j \in Jobs, WaitForUserSelection(j) PROVE Goal
  BY <1>4, <1>s DEF WaitForUserSelection, record
<1>5. ASSUME NEW j \in Jobs, SelectionTimeout(j) PROVE Goal
  BY <1>5, <1>s DEF SelectionTimeout, Resume, record
<1>6. ASSUME NEW j \in Jobs, Prepare(j) PROVE Goal
  BY <1>6, <1>s DEF Prepare, record
<1>7. ASSUME NEW j \in Jobs, Build(j) PROVE Goal
  BY <1>7, <1>s DEF Build, RunCommand, record
<1>8. ASSUME NEW j \in Jobs, RetryLimit(j) PROVE Goal
  BY <1>8, <1>s DEF RetryLimit, record
<1>9. ASSUME NEW j \in Jobs, RelaxTypes(j) PROVE Goal
  BY <1>9, <1>s DEF RelaxTypes, Retry, record
<1>10. ASSUME NEW j \in Jobs, InjectPackage(j) PROVE Goal
  BY <1>10, <1>s DEF InjectPackage, Retry, record
<1>11. ASSUME NEW j \in Jobs, InjectVariable(j) PROVE Goal
  BY <1>11, <1>s DEF InjectVariable, Retry, record
<1>12. ASSUME NEW j \in Jobs, AskModel(j) PROVE Goal
  BY <1>12, <1>s DEF AskModel, Retry, record
<1>13. ASSUME NEW j \in Jobs, HealPeers(j) PROVE Goal
  BY <1>13, <1>s DEF HealPeers, RunCommand, record
<1>14. ASSUME NEW j \in Jobs, HealByForce(j) PROVE Goal
  BY <1>14, <1>s DEF HealByForce, RunCommand, record
<1>15. ASSUME NEW j \in Jobs, Semgrep(j) PROVE Goal
  BY <1>15, <1>s DEF Semgrep, ScanStep, record
<1>16. ASSUME NEW j \in Jobs, Osv(j) PROVE Goal
  BY <1>16, <1>s DEF Osv, ScanStep, record
<1>17. ASSUME NEW j \in Jobs, Trivy(j) PROVE Goal
  BY <1>17, <1>s DEF Trivy, ScanStep, record
<1>18. ASSUME NEW j \in Jobs, Package(j) PROVE Goal
  BY <1>18, <1>s DEF Package, record
<1>19. ASSUME NEW j \in Jobs, Launch(j) PROVE Goal
  BY <1>19, <1>s DEF Launch, record
<1>20. ASSUME NEW j \in Jobs, SubmitUserSelection(j) PROVE Goal
  BY <1>20, <1>s DEF SubmitUserSelection, Resume, record
<1>21. ASSUME NEW j \in Jobs, ContainerUp(j) PROVE Goal
  BY <1>21, <1>s DEF ContainerUp, record
<1>22. ASSUME NEW j \in Jobs, PreviewStops(j) PROVE Goal
  BY <1>22, <1>s DEF PreviewStops, record
<1>23. ASSUME NEW j \in Jobs, StartPreview(j) PROVE Goal
  BY <1>23, <1>s DEF StartPreview, record
<1>24. ASSUME NEW j \in Jobs, PruneDeploymentWorkspace(j) PROVE Goal
  BY <1>24, <1>s DEF PruneDeploymentWorkspace, record
<1>25. ASSUME RunPruningCycle \/ Crash \/ UNCHANGED vars PROVE Goal
  BY <1>25, <1>s DEF RunPruningCycle, Crash, vars, record
<1>26. ASSUME NEW j \in Jobs, status[j] = "absent", listed' = listed,
              status' = [status EXCEPT ![j] = "pending"]
       PROVE Goal
  <2>1. phases' = [phases EXCEPT ![j] = "queued"] /\ phases[j] = "none"
    BY <1>26, PhaseMoves DEF PhaseOf, phases, Phase
  <2> QED
    BY <1>26, <2>1 DEF phases, Life!Next, Life!Queue, Life!Move
<1>27. ASSUME NEW j \in Jobs, ImportGithubRepo(j) PROVE Goal
  BY <1>26, <1>27 DEF ImportGithubRepo, PendingIsFresh
<1>28. ASSUME NEW j \in Jobs, CreateDeployment(j) PROVE Goal
  BY <1>26, <1>28, <1>s DEF CreateDeployment, PendingIsFresh
<1>29. ASSUME NEW j \in Jobs, Clone(j) PROVE Goal
  BY <1>29, <1>s, <1>w DEF Clone
<1>30. ASSUME NEW j \in Jobs, Initialize(j) PROVE Goal
  BY <1>30, <1>w DEF Initialize
<1>31. ASSUME NEW j \in Jobs, Scan(j) PROVE Goal
  BY <1>31, <1>w DEF Scan
<1>32. ASSUME NEW j \in Jobs, HostHealth(j) PROVE Goal
  <2>1. status[j] # "pending"
    BY <1>32 DEF HostHealth, PendingIsFresh
  <2> QED
    BY <1>32, <2>1, <1>w DEF HostHealth, HealthVerdict
<1>33. ASSUME NEW j \in Jobs, ContainerVerdict(j) PROVE Goal
  <2>1. status[j] # "pending"
    BY <1>33 DEF ContainerVerdict, PendingIsFresh
  <2> QED
    BY <1>33, <2>1, <1>w DEF ContainerVerdict, HealthVerdict
<1>34. ASSUME NEW j \in Jobs, Settle(j) PROVE Goal
  <2>1. status[j] # "pending" /\ verdict[j] \in {"failed", "deployed"}
    BY <1>34 DEF Settle, PendingIsFresh, TypeOK
  <2>2. status' = Written(j, verdict[j])
    BY <1>34 DEF Settle
  <2>3. CASE listed' = listed
    BY <2>1, <2>2, <2>3, <1>w
  <2>4. CASE listed' # listed
    <3>1. verdict[j] = "deployed" /\ Exists(j) /\ listed' = listed \cup {j}
      BY <1>34, <2>4 DEF Settle
    <3>2. phases' = [phases EXCEPT ![j] = "good"]
      BY <2>2, <3>1, PhaseMoves DEF Written, PhaseOf
    <3>3. phases[j] \in {"working", "good", "bad"}
      BY <2>1, <3>1 DEF Exists, phases, Phase, TypeOK
    <3> QED
      BY <3>1, <3>2, <3>3 DEF phases, Life!Next, Life!Approve, Life!Move
  <2> QED
    BY <2>3, <2>4
<1>35. ASSUME NEW j \in Jobs, DeleteDeployment(j) PROVE Goal
  BY <1>35, <1>s DEF DeleteDeployment, record
<1>36. ASSUME NEW j \in Jobs, DeletionCleans(j) PROVE Goal
  BY <1>36, <1>s DEF DeletionCleans
<1>37. ASSUME NEW j \in Jobs, DeletionEnds(j) PROVE Goal
  <2>1. CASE UNCHANGED <<status, listed>>
    BY <2>1, <1>s
  <2>2. CASE status' = Written(j, "gone") /\ listed' = listed \ {j} /\ ~Exists(j)
    <3>1. status' = status
      BY <2>2 DEF Written, TypeOK
    <3>2. j \notin listed
      BY <2>2 DEF ArtifactsKept
    <3> QED
      BY <3>1, <3>2, <2>2, <1>s
  <2>3. CASE status' = Written(j, "gone") /\ listed' = listed \ {j} /\ Exists(j)
    <3>1. phases' = [phases EXCEPT ![j] = "removed"]
      BY <2>3, PhaseMoves DEF Written, PhaseOf
    <3>2. phases[j] \in {"queued", "working", "good", "bad"}
      BY <2>3 DEF Exists, phases, Phase, TypeOK
    <3> QED
      BY <2>3, <3>1, <3>2 DEF phases, Life!Next, Life!Remove, Life!Move
  <2> QED
    BY <1>37, <2>1, <2>2, <2>3 DEF DeletionEnds
<1> QED
  BY <1>1, <1>2, <1>3, <1>4, <1>5, <1>6, <1>7, <1>8, <1>9, <1>10, <1>11, <1>12, <1>13, <1>14,
     <1>15, <1>16, <1>17, <1>18, <1>19, <1>20, <1>21, <1>22, <1>23, <1>24, <1>25, <1>27, <1>28,
     <1>29, <1>30, <1>31, <1>32, <1>33, <1>34, <1>35, <1>36, <1>37 DEF Next, PipelineStep

-----------------------------------------------------------------------------
(***************************************************************************)
(* The inductive invariant.                                                *)
(***************************************************************************)
IInv ==
    /\ TypeOK /\ BuildsCounted /\ ChoicesPaused /\ ArtifactsKept
    /\ PendingIsFresh /\ ArchiveHasPipeline

(***************************************************************************)
(* The initial states satisfy it.                                          *)
(***************************************************************************)
LEMMA InitiallyIInv ==
    ASSUME Init PROVE IInv
<1>1. TypeOK
  BY BoundsAreNumbers DEF Init, TypeOK, Quiet, MaxRetries
<1>2. BuildsCounted /\ ChoicesPaused /\ ArtifactsKept /\ PendingIsFresh /\ ArchiveHasPipeline
  BY DEF Init, BuildsCounted, ChoicesPaused, ArtifactsKept, PendingIsFresh, ArchiveHasPipeline,
         Early, MaxRetries
<1> QED
  BY <1>1, <1>2 DEF IInv

(***************************************************************************)
(* In every behaviour all six parts hold in every state.                   *)
(***************************************************************************)
THEOREM Inductive ==
    Spec => []IInv
<1>1. Init => IInv
  BY InitiallyIInv
<1>2. IInv /\ [Next]_vars => IInv'
  BY TypesStep, CountStep, ChoiceStep, ArtifactStep, PendingStep, ArchiveStep DEF IInv
<1> QED
  BY <1>1, <1>2, PTL DEF Spec

(***************************************************************************)
(* The variables keep their types.                                         *)
(***************************************************************************)
THEOREM TypeCorrect ==
    Spec => []TypeOK
<1>1. IInv => TypeOK
  BY DEF IInv
<1> QED
  BY <1>1, Inductive, PTL

(***************************************************************************)
(* A pipeline waits for its user exactly as long as the choice can be      *)
(* made: the late answer, the timeout and a crash (interaction-            *)
(* manager.service.js) never leave one without the other.                  *)
(***************************************************************************)
THEOREM ChoiceIsLive ==
    Spec => []PausedIffPending
<1>1. IInv => PausedIffPending
  BY DEF IInv, ChoicesPaused, PausedIffPending, TypeOK
<1> QED
  BY <1>1, Inductive, PTL

(***************************************************************************)
(* A document that names an artifact exists and its file is on disk, or a  *)
(* deletion that read the document has taken it: no other step of the      *)
(* pipelines, the pruner and the deletions takes a file that is named.     *)
(***************************************************************************)
THEOREM DownloadsFind ==
    Spec => []ListedIsOnDisk
<1>1. IInv => ListedIsOnDisk
  BY DEF IInv, ArtifactsKept, ListedIsOnDisk, Downloadable, TypeOK
<1> QED
  BY <1>1, Inductive, PTL

(***************************************************************************)
(* The healing loop of the pipeline runs its build command at most         *)
(* MaxRetries + 3 times, whatever fails and whichever cure is chosen.      *)
(***************************************************************************)
THEOREM BuildsEnd ==
    Spec => []CommandsAreBounded
<1>1. IInv => CommandsAreBounded
  BY DEF IInv, BuildsCounted, CommandsAreBounded
<1> QED
  BY <1>1, Inductive, PTL

(***************************************************************************)
(* The source archive is removed on every way out of a pipeline, those     *)
(* that fail included.                                                     *)
(***************************************************************************)
THEOREM ArchivesGo ==
    Spec => []ArchiveIsConsumed
<1>1. IInv => ArchiveIsConsumed
  BY DEF IInv, ArchiveHasPipeline, ArchiveIsConsumed, TypeOK
<1> QED
  BY <1>1, Inductive, PTL

(***************************************************************************)
(* The pipelines, the health checks in the background, deletions and       *)
(* crashes implement the life of a build: no verdict before the work, none *)
(* for a removed build, no artifact without a good verdict.                *)
(***************************************************************************)
THEOREM Implements ==
    Spec => ImplementsBuildLife
<1>1. Init => Life!Init
  BY DEF Init, Life!Init, Phase
<1>2. IInv /\ [Next]_vars => [Life!Next]_(Life!life)
  BY LifeStep DEF IInv
<1> QED
  BY <1>1, <1>2, Inductive, PTL DEF Spec, ImplementsBuildLife, Life!Spec

-----------------------------------------------------------------------------
(***************************************************************************)
(* Provision.  What the environment names is settled when it is made, from *)
(* the list of databases, while the containers are made one by one; the    *)
(* invariant relates the two stages.                                       *)
(***************************************************************************)

\* The steps before the container runs.
Making == {"php", "detect", "network", "database", "seed", "env"}
ProvisionTypes ==
    /\ wanted \in Seq(Kinds)
    /\ db \in [Kinds -> {"absent", "down", "up"}]
    /\ next \in Nat \ {0}
    /\ step \in Making \cup {"run", "live", "exited"}

(***************************************************************************)
(* The databases are made in their order.  Those passed on the job's       *)
(* network exist; once the loop is through, that is all of them.           *)
(***************************************************************************)
Passed ==
    /\ step = "network" => next = 1
    /\ step \in {"database", "seed"} => network = "isolated" /\ next <= Len(wanted) + 1
    /\ step = "seed" => next <= Len(wanted) /\ db[wanted[next]] # "absent"
    /\ step \in {"database", "seed"} => \A i \in DOMAIN wanted : i < next => db[wanted[i]] # "absent"
    /\ step \in {"env", "run", "live"} /\ network = "isolated" =>
           \A i \in DOMAIN wanted : db[wanted[i]] # "absent"

(***************************************************************************)
(* The environment is made from the file and the databases of this start,  *)
(* and does not outlive it.                                                *)
(***************************************************************************)
Settings == Own \cup FromFile \cup {Setting(key, Provider(key)) : key \in Missing}
EnvMade ==
    /\ step \in Making => env = {}
    /\ step \notin Making => env = Settings

(***************************************************************************)
(* The proxy runs only in front of a built client.                         *)
(***************************************************************************)
ProxyAfterBuild ==
    /\ proxy = "up" => client = "built"
    /\ answer # "none" /\ mern => client = "built"
    /\ step # "live" => answer = "none"

ProvisionInv == ProvisionTypes /\ Passed /\ EnvMade /\ ProxyAfterBuild

-----------------------------------------------------------------------------
(* What the choices of MakeEnv are.                                        *)

\* A set of numbers that is not empty has a least one.
LEMMA LeastOf ==
    ASSUME NEW S \in SUBSET Nat, S # {}
    PROVE  \E i \in S : \A j \in S : i <= j
<1>1. PICK x \in S : \A y \in S : ~(<<y, x>> \in OpToRel(<, Nat))
  BY WFMin, NatLessThanWellFounded
<1>2. \A y \in S : ~(y < x)
  BY <1>1 DEF OpToRel
<1> QED
  BY <1>2

\* A set of numbers with a bound that is not empty has a greatest one.
LEMMA GreatestOf ==
    ASSUME NEW n \in Nat, NEW S \in SUBSET (1..n), S # {}
    PROVE  \E i \in S : \A j \in S : j <= i
<1> DEFINE T == {n - i : i \in S}
<1>1. \A i \in S : n - i \in Nat
  OBVIOUS
<1>2. PICK k \in S : TRUE
  OBVIOUS
<1>3. n - k \in T
  BY <1>2
<1>4. T \in SUBSET Nat
  BY <1>1
<1>5. PICK m \in T : \A t \in T : m <= t
  <2> HIDE DEF T
  <2> QED
    BY <1>3, <1>4, LeastOf
<1>6. PICK i \in S : m = n - i
  BY <1>5
<1>7. \A j \in S : n - i <= n - j
  BY <1>5, <1>6
<1> QED
  BY <1>7

\* The host of a port that is served, and the provider of a variable that is
\* provided, are databases of the job.
LEMMA HostIsWanted ==
    ASSUME wanted \in Seq(Kinds), NEW port, Serves(port)
    PROVE  \E i \in DOMAIN wanted : HostFor(port) = wanted[i]
<1> DEFINE on == {i \in DOMAIN wanted : PortOf(wanted[i]) = port}
<1>1. DOMAIN wanted = 1..Len(wanted) /\ Len(wanted) \in Nat
  BY LenProperties
<1>2. on \in SUBSET (1..Len(wanted)) /\ on # {}
  BY <1>1 DEF Serves
<1>3. \E i \in on : \A j \in on : j <= i
  <2> HIDE DEF on
  <2> QED
    BY <1>1, <1>2, GreatestOf
<1>4. (CHOOSE i \in on : \A j \in on : j <= i) \in on
  <2> HIDE DEF on
  <2> QED
    BY <1>3
<1> QED
  BY <1>4 DEF HostFor

LEMMA ProviderIsWanted ==
    ASSUME wanted \in Seq(Kinds), NEW key \in Missing
    PROVE  \E i \in DOMAIN wanted : Provider(key) = wanted[i]
<1> DEFINE of == {i \in DOMAIN wanted : key \in Usual(wanted[i])}
<1>1. DOMAIN wanted = 1..Len(wanted) /\ Len(wanted) \in Nat
  BY LenProperties
<1>2. of \in SUBSET Nat /\ of # {}
  BY <1>1 DEF Missing
<1>3. \E i \in of : \A j \in of : i <= j
  <2> HIDE DEF of
  <2> QED
    BY <1>2, LeastOf
<1>4. (CHOOSE i \in of : \A j \in of : i <= j) \in of
  <2> HIDE DEF of
  <2> QED
    BY <1>3
<1> QED
  BY <1>4 DEF Provider

\* A setting leads to this machine, to the host, or to a database of the job.
LEMMA SettingsLead ==
    ASSUME wanted \in Seq(Kinds), NEW e \in Settings
    PROVE  \/ e.target \in {"local", "dockerhost"}
           \/ \E i \in DOMAIN wanted : e.target = wanted[i]
<1>1. ASSUME NEW v \in dotenv, e = Setting(v.key, Target(v))
      PROVE  \/ Target(v) \in {"local", "dockerhost"}
             \/ \E i \in DOMAIN wanted : Target(v) = wanted[i]
  <2>1. ASSUME Serves(v.port)
        PROVE  \E i \in DOMAIN wanted : HostFor(v.port) = wanted[i]
    BY <2>1, HostIsWanted
  <2>2. wanted # <<>> => 1 \in DOMAIN wanted
    BY LenProperties, EmptySeq
  <2> QED
    BY <2>1, <2>2 DEF Target
<1>2. ASSUME NEW key \in Missing, e = Setting(key, Provider(key))
      PROVE  \E i \in DOMAIN wanted : e.target = wanted[i]
  BY <1>2, ProviderIsWanted DEF Setting
<1>3. e \in Own => e.target = "local"
  BY DEF Own, Setting
<1> QED
  BY <1>1, <1>2, <1>3 DEF Settings, FromFile, Setting

-----------------------------------------------------------------------------
(* The databases that are detected.                                        *)

LEMMA NamedAreKinds == ASSUME NEW file PROVE Named(file) \in Seq(Kinds)
<1> DEFINE If(k) == IF \E v \in file : v.kind = k THEN <<k>> ELSE <<>>
<1>1. \A k \in Kinds : If(k) \in Seq(Kinds)
  OBVIOUS
<1>2. \A s, t \in Seq(Kinds) : s \o t \in Seq(Kinds)
  BY ConcatProperties
<1>3. /\ If("mysql") \in Seq(Kinds) /\ If("postgres") \in Seq(Kinds)
      /\ If("mongodb") \in Seq(Kinds) /\ If("redis") \in Seq(Kinds)
      /\ If("qdrant") \in Seq(Kinds) /\ If("chroma") \in Seq(Kinds)
      /\ If("cassandra") \in Seq(Kinds) /\ If("mssql") \in Seq(Kinds)
      /\ If("oracle") \in Seq(Kinds) /\ If("mariadb") \in Seq(Kinds)
  <2> HIDE DEF If
  <2> QED
    BY <1>1 DEF Kinds
<1>4. If("mysql") \o If("postgres") \o If("mongodb") \o If("redis") \o If("qdrant")
       \o If("chroma") \o If("cassandra") \o If("mssql") \o If("oracle") \o If("mariadb")
      \in Seq(Kinds)
  <2> HIDE DEF If
  <2> QED
    BY <1>2, <1>3
<1> QED
  BY <1>4 DEF Named

LEMMA DetectedAreKinds ==
    ASSUME NEW seq \in Seq(Kinds) PROVE WithChoice(seq) \in Seq(Kinds)
BY AppendProperties DEF WithChoice

-----------------------------------------------------------------------------
(* The steps.                                                              *)

LEMMA ProvisionStarts == ProvisionInit => ProvisionInv
<1> SUFFICES ASSUME ProvisionInit PROVE ProvisionInv
  OBVIOUS
<1>1. ProvisionTypes
  BY EmptySeq DEF ProvisionInit, ProvisionTypes, SmallEnvFiles, EnvFiles, Making
<1>2. Passed /\ EnvMade /\ ProxyAfterBuild
  BY DEF ProvisionInit, Passed, EnvMade, ProxyAfterBuild, Making
<1> QED
  BY <1>1, <1>2 DEF ProvisionInv

LEMMA ProvisionTypesKeep == ProvisionInv /\ [ProvisionNext]_all => ProvisionTypes'
<1> SUFFICES ASSUME ProvisionInv, [ProvisionNext]_all PROVE ProvisionTypes'
  OBVIOUS
<1> USE DEF ProvisionInv, ProvisionTypes, given, inside, Making
<1>1. CASE DetectDatabases
  BY <1>1, NamedAreKinds, DetectedAreKinds, EmptySeq DEF DetectDatabases
<1>2. CASE StartExisting
  BY <1>2 DEF StartExisting, Current
<1>3. CASE CreateDatabase
  BY <1>3 DEF CreateDatabase, Current, FallBack
<1>4. CASE SeedDatabase
  BY <1>4 DEF SeedDatabase
<1>5. CASE PatchPhp \/ CreateNetwork \/ AllProvisioned \/ MakeEnv \/ RunContainer \/ BuildClient
  BY <1>5 DEF PatchPhp, CreateNetwork, FallBack, AllProvisioned, MakeEnv, RunContainer, BuildClient
<1>6. CASE StartProxy \/ ServerListens \/ HealthProbe \/ ServerDies
  BY <1>6 DEF StartProxy, ServerListens, HealthProbe, ServerDies
<1>7. CASE SpawnAgain
  BY <1>7 DEF SpawnAgain
<1>8. CASE UNCHANGED all
  BY <1>8 DEF all
<1> QED
  BY <1>1, <1>2, <1>3, <1>4, <1>5, <1>6, <1>7, <1>8 DEF ProvisionNext

\* A database that was passed stays passed: no step of this part takes a
\* container away.
LEMMA PassedKeep == ProvisionInv /\ [ProvisionNext]_all => Passed'
<1> SUFFICES ASSUME ProvisionInv, [ProvisionNext]_all PROVE Passed'
  OBVIOUS
<1> USE DEF ProvisionInv, ProvisionTypes, Passed, given, inside, Making
<1>0. DOMAIN wanted = 1..Len(wanted) /\ Len(wanted) \in Nat
      /\ \A i \in DOMAIN wanted : wanted[i] \in Kinds
  BY LenProperties, ElementOfSeq
<1>1. CASE DetectDatabases
  <2>1. wanted' = <<>> => DOMAIN wanted' = {}
    OBVIOUS
  <2> QED
    BY <1>1, <2>1 DEF DetectDatabases
<1>2. CASE CreateNetwork
  BY <1>0, <1>2 DEF CreateNetwork, FallBack
<1>3. CASE StartExisting
  BY <1>0, <1>3 DEF StartExisting, Current
<1>4. CASE CreateDatabase
  BY <1>0, <1>4 DEF CreateDatabase, Current, FallBack
<1>5. CASE SeedDatabase
  BY <1>0, <1>5 DEF SeedDatabase, Current
<1>6. CASE AllProvisioned
  BY <1>0, <1>6 DEF AllProvisioned
<1>7. CASE PatchPhp \/ MakeEnv \/ RunContainer \/ BuildClient
  BY <1>7 DEF PatchPhp, MakeEnv, RunContainer, BuildClient
<1>8. CASE StartProxy \/ ServerListens \/ HealthProbe \/ ServerDies
  BY <1>8 DEF StartProxy, ServerListens, HealthProbe, ServerDies
<1>9. CASE SpawnAgain
  BY <1>9 DEF SpawnAgain
<1>10. CASE UNCHANGED all
  BY <1>10 DEF all
<1> QED
  BY <1>1, <1>2, <1>3, <1>4, <1>5, <1>6, <1>7, <1>8, <1>9, <1>10 DEF ProvisionNext

\* What MakeEnv would make depends on the file and the databases.
LEMMA SameSettings ==
    ASSUME UNCHANGED <<dotenv, wanted>> PROVE Settings' = Settings
BY DEF Settings, Own, FromFile, Missing, Provider, Setting, Target, HostFor, Serves, Usual, PortOf

LEMMA EnvKeep == ProvisionInv /\ [ProvisionNext]_all => EnvMade'
<1> SUFFICES ASSUME ProvisionInv, [ProvisionNext]_all PROVE EnvMade'
  OBVIOUS
<1> USE DEF ProvisionInv, EnvMade, given, inside, Making
<1>1. CASE MakeEnv
  <2>1. Settings' = Settings
    BY <1>1, SameSettings DEF MakeEnv
  <2>2. env' = Settings
    BY <1>1 DEF MakeEnv, Settings
  <2> QED
    BY <1>1, <2>1, <2>2 DEF MakeEnv
<1>2. CASE RunContainer \/ BuildClient \/ StartProxy \/ ServerListens \/ HealthProbe \/ ServerDies
  <2>1. Settings' = Settings
    BY <1>2, SameSettings DEF RunContainer, BuildClient, StartProxy, ServerListens, HealthProbe, ServerDies
  <2> QED
    BY <1>2, <2>1 DEF RunContainer, BuildClient, StartProxy, ServerListens, HealthProbe, ServerDies
<1>3. CASE PatchPhp \/ DetectDatabases \/ CreateNetwork \/ StartExisting \/ CreateDatabase
           \/ SeedDatabase \/ AllProvisioned \/ SpawnAgain
  BY <1>3 DEF PatchPhp, DetectDatabases, CreateNetwork, StartExisting, CreateDatabase, FallBack,
              SeedDatabase, AllProvisioned, SpawnAgain
<1>4. CASE UNCHANGED all
  <2>1. Settings' = Settings
    BY <1>4, SameSettings DEF all
  <2> QED
    BY <1>4, <2>1 DEF all
<1> QED
  BY <1>1, <1>2, <1>3, <1>4 DEF ProvisionNext

LEMMA ProxyKeep == ProvisionInv /\ [ProvisionNext]_all => ProxyAfterBuild'
<1> SUFFICES ASSUME ProvisionInv, [ProvisionNext]_all PROVE ProxyAfterBuild'
  OBVIOUS
<1> USE DEF ProvisionInv, ProxyAfterBuild, given, inside
<1>1. CASE PatchPhp \/ DetectDatabases \/ CreateNetwork \/ StartExisting \/ CreateDatabase
           \/ SeedDatabase \/ AllProvisioned \/ MakeEnv \/ SpawnAgain
  BY <1>1 DEF PatchPhp, DetectDatabases, CreateNetwork, StartExisting, CreateDatabase, FallBack,
              SeedDatabase, AllProvisioned, MakeEnv, SpawnAgain
<1>2. CASE RunContainer \/ BuildClient \/ StartProxy \/ ServerListens \/ HealthProbe \/ ServerDies
  BY <1>2 DEF RunContainer, BuildClient, StartProxy, ServerListens, HealthProbe, ServerDies
<1>3. CASE UNCHANGED all
  BY <1>3 DEF all
<1> QED
  BY <1>1, <1>2, <1>3 DEF ProvisionNext

LEMMA ProvisionKeeps == ProvisionSpec => []ProvisionInv
<1>1. ProvisionInv /\ [ProvisionNext]_all => ProvisionInv'
  BY ProvisionTypesKeep, PassedKeep, EnvKeep, ProxyKeep DEF ProvisionInv
<1> QED
  BY ProvisionStarts, <1>1, PTL DEF ProvisionSpec

-----------------------------------------------------------------------------
(* The theorems.                                                           *)

\* An application that runs on the job's network is sent only to databases
\* whose container was created, wherever the preparation of the others failed.
THEOREM EnvironmentNamesDatabases == ProvisionSpec => []EnvNamesDatabases
<1>1. ProvisionInv => EnvNamesDatabases
  <2> SUFFICES ASSUME ProvisionInv, step \in {"run", "live"}, network = "isolated",
                      NEW e \in env, e.target \in Kinds
               PROVE  db[e.target] # "absent"
    BY DEF EnvNamesDatabases
  <2>1. e \in Settings /\ wanted \in Seq(Kinds)
    BY DEF ProvisionInv, EnvMade, ProvisionTypes, Making
  <2>2. PICK i \in DOMAIN wanted : e.target = wanted[i]
    BY <2>1, SettingsLead DEF Kinds
  <2> QED
    BY <2>2 DEF ProvisionInv, Passed
<1> QED
  BY ProvisionKeeps, <1>1, PTL

\* The health check of a React client with an Express server is not answered
\* before the client is built.
THEOREM ReadyWhenBuilt == ProvisionSpec => []ReadyAfterBuild
<1>1. ProvisionInv => ReadyAfterBuild
  BY DEF ProvisionInv, ProxyAfterBuild, ReadyAfterBuild
<1> QED
  BY ProvisionKeeps, <1>1, PTL

-----------------------------------------------------------------------------
(***************************************************************************)
(* Module Catalogue.                                                       *)
(***************************************************************************)

(***************************************************************************)
(* The plugins by name, in the order the detector asks them: what no       *)
(* directory changes.                                                      *)
(***************************************************************************)
Ids ==
    <<"quarkus", "spring", "rust", "blazor", "dotnet", "phoenix", "rails", "sinatra", "symfony",
      "php", "deno-fresh", "deno", "fastapi", "flask", "django", "elysia", "bun-native",
      "tanstack-start", "analog", "nextjs", "sveltekit", "nuxt", "astro", "remix", "blitz",
      "redwood", "solidstart", "svelte", "qwik", "nitro", "marko", "preact", "gatsby", "cra",
      "vite", "angular", "vuecli", "hugo", "eleventy", "gin", "fiber", "echo-go", "fastify",
      "hono", "koa", "h3", "express", "mern", "static">>

\* The plugin at every place has the name of the place.
LEMMA PluginNames ==
    ASSUME NEW d
    PROVE  /\ DOMAIN Plugins(d) = 1..49
           /\ \A i \in 1..49 : Plugins(d)[i].id = Ids[i]
<1>1. /\ Quarkus(d).id = "quarkus"
      /\ Spring(d).id = "spring"
      /\ Rust(d).id = "rust"
      /\ Blazor(d).id = "blazor"
      /\ Dotnet(d).id = "dotnet"
      /\ Phoenix(d).id = "phoenix"
      /\ Rails(d).id = "rails"
  BY DEF Quarkus, Spring, Rust, Blazor, Dotnet, Phoenix, Rails, Plain,
     GoPlugin
<1>2. /\ Sinatra(d).id = "sinatra"
      /\ Symfony(d).id = "symfony"
      /\ Php(d).id = "php"
      /\ DenoFresh(d).id = "deno-fresh"
      /\ Deno(d).id = "deno"
      /\ FastApi(d).id = "fastapi"
      /\ Flask(d).id = "flask"
  BY DEF Sinatra, Symfony, Php, DenoFresh, Deno, FastApi, Flask, Plain,
     GoPlugin
<1>3. /\ Django(d).id = "django"
      /\ Elysia(d).id = "elysia"
      /\ BunNative(d).id = "bun-native"
      /\ TanstackStart(d).id = "tanstack-start"
      /\ Analog(d).id = "analog"
      /\ Nextjs(d).id = "nextjs"
      /\ Sveltekit(d).id = "sveltekit"
  BY DEF Django, Elysia, BunNative, TanstackStart, Analog, Nextjs, Sveltekit,
     Plain, GoPlugin
<1>4. /\ Nuxt(d).id = "nuxt"
      /\ Astro(d).id = "astro"
      /\ Remix(d).id = "remix"
      /\ Blitz(d).id = "blitz"
      /\ Redwood(d).id = "redwood"
      /\ SolidStart(d).id = "solidstart"
      /\ Svelte(d).id = "svelte"
  BY DEF Nuxt, Astro, Remix, Blitz, Redwood, SolidStart, Svelte, Plain,
     GoPlugin
<1>5. /\ Qwik(d).id = "qwik"
      /\ Nitro(d).id = "nitro"
      /\ Marko(d).id = "marko"
      /\ Preact(d).id = "preact"
      /\ Gatsby(d).id = "gatsby"
      /\ Cra(d).id = "cra"
      /\ Vite(d).id = "vite"
  BY DEF Qwik, Nitro, Marko, Preact, Gatsby, Cra, Vite, Plain, GoPlugin
<1>6. /\ Angular(d).id = "angular"
      /\ VueCli(d).id = "vuecli"
      /\ Hugo(d).id = "hugo"
      /\ Eleventy(d).id = "eleventy"
      /\ Gin(d).id = "gin"
      /\ Fiber(d).id = "fiber"
      /\ EchoGo(d).id = "echo-go"
  BY DEF Angular, VueCli, Hugo, Eleventy, Gin, Fiber, EchoGo, Plain, GoPlugin
<1>7. /\ Fastify(d).id = "fastify"
      /\ Hono(d).id = "hono"
      /\ Koa(d).id = "koa"
      /\ H3(d).id = "h3"
      /\ Express(d).id = "express"
      /\ Mern(d).id = "mern"
      /\ Static(d).id = "static"
  BY DEF Fastify, Hono, Koa, H3, Express, Mern, Static, Plain, GoPlugin
<1>8. DOMAIN Plugins(d) = 1..49
  BY DEF Plugins, InOrder
<1> QED
  BY <1>1, <1>2, <1>3, <1>4, <1>5, <1>6, <1>7, <1>8 DEF Ids, Plugins, InOrder

\* No two places have one name, and none has that of the fallback.
LEMMA NamesDiffer ==
    /\ \A i, j \in 1..49 : Ids[i] = Ids[j] => i = j
    /\ \A i \in 1..49 : Ids[i] # "generic"
<1>1. \A i \in 1..49 : Ids[i] # "generic"
  BY DEF Ids
<1>2. \A i, j \in 1..49 : Ids[i] = Ids[j] => i = j
  BY DEF Ids
<1> QED
  BY <1>1, <1>2

\* The pairs the comments name are in the order they ask for.
LEMMA PairsInOrder ==
    ASSUME NEW p \in Precedes, NEW i \in 1..49, NEW j \in 1..49, Ids[i] = p[1], Ids[j] = p[2]
    PROVE  i < j
  BY DEF Ids, Precedes

(***************************************************************************)
(* What a plugin says of a directory, the command apart, it reads from its *)
(* files, scripts and those packages some plugin looks for: neither the    *)
(* output of a build nor another package changes any of it.                *)
(***************************************************************************)
SameSources(d, e) ==
    /\ e.files = d.files /\ e.scripts = d.scripts
    /\ \A n \in PluginPackages : (n \in e.deps <=> n \in d.deps) /\ (n \in e.dev <=> n \in d.dev)

\* The parts of the plugins agree on two such directories.
LEMMA PartsKeep ==
    ASSUME NEW d, NEW e, SameSources(d, e)
    PROVE  /\ \A S : S \subseteq PluginPackages =>
                 /\ Uses(e, S) <=> Uses(d, S)
                 /\ Composer(e, S) <=> Composer(d, S)
                 /\ Requires(e, S) <=> Requires(d, S)
                 /\ e.deps \cap S # {} <=> d.deps \cap S # {}
           /\ \A n \in PluginPackages :
                 /\ Needs(e, n) <=> Needs(d, n)
                 /\ \A f : Names(e, f, n) <=> Names(d, f, n)
                 /\ n \in e.deps <=> n \in d.deps
           /\ e.files = d.files /\ \A S : Has(e, S) <=> Has(d, S)
<1>1. ASSUME NEW S, S \subseteq PluginPackages
      PROVE  /\ e.deps \cap S # {} <=> d.deps \cap S # {}
             /\ (e.deps \cup e.dev) \cap S # {} <=> (d.deps \cup d.dev) \cap S # {}
  BY <1>1 DEF SameSources
<1> QED
  BY <1>1 DEF SameSources, Uses, Composer, Requires, Needs, Names, Has

\* The packages the plugins name.
LEMMA PackagesAre ==
    /\ {"blazor", "fresh", "gatsby", "gin-gonic/gin", "gofiber/fiber",
        "labstack/echo", "next", "quarkus", "rails", "react-scripts", "sinatra"} \subseteq PluginPackages
    /\ KnownFrameworkDeps \subseteq PluginPackages
    /\ SymfonyPackages \subseteq PluginPackages
    /\ SymfonyPackages \cup {"laravel/framework", "slim/slim"} \subseteq PluginPackages
    /\ {"@11ty/eleventy"} \subseteq PluginPackages
    /\ {"@analogjs/platform", "@analogjs/router"} \subseteq PluginPackages
    /\ {"@angular/core"} \subseteq PluginPackages
    /\ {"@builder.io/qwik", "@builder.io/qwik-city"} \subseteq PluginPackages
    /\ {"@redwoodjs/core"} \subseteq PluginPackages
    /\ {"@remix-run/react"} \subseteq PluginPackages
    /\ {"@solidjs/start"} \subseteq PluginPackages
    /\ {"@sveltejs/kit"} \subseteq PluginPackages
    /\ {"@tanstack/react-start", "@tanstack/start"} \subseteq PluginPackages
    /\ {"@vue/cli-service"} \subseteq PluginPackages
    /\ {"astro"} \subseteq PluginPackages
    /\ {"blitz"} \subseteq PluginPackages
    /\ {"elysia"} \subseteq PluginPackages
    /\ {"express"} \subseteq PluginPackages
    /\ {"fastapi", "uvicorn"} \subseteq PluginPackages
    /\ {"fastify"} \subseteq PluginPackages
    /\ {"flask"} \subseteq PluginPackages
    /\ {"h3"} \subseteq PluginPackages
    /\ {"hono"} \subseteq PluginPackages
    /\ {"koa"} \subseteq PluginPackages
    /\ {"marko"} \subseteq PluginPackages
    /\ {"next", "nuxt", "@remix-run/react", "@remix-run/node", "fastify", "koa",
        "mongoose"} \subseteq PluginPackages
    /\ {"nitropack"} \subseteq PluginPackages
    /\ {"nuxt"} \subseteq PluginPackages
    /\ {"preact"} \subseteq PluginPackages
    /\ {"svelte"} \subseteq PluginPackages
    /\ {"vite"} \subseteq PluginPackages
  BY DEF PluginPackages, KnownFrameworkDeps, SymfonyPackages

Keeps(p, q) ==
    /\ q.id = p.id /\ (q.detects <=> p.detects)
    /\ q.build = p.build /\ q.preview = p.preview

LEMMA PluginsKeep ==
    ASSUME NEW d, NEW e, SameSources(d, e)
    PROVE  \A i \in 1..49 : Keeps(Plugins(d)[i], Plugins(e)[i])
<1>1. /\ Keeps(Quarkus(d), Quarkus(e))
      /\ Keeps(Spring(d), Spring(e))
      /\ Keeps(Rust(d), Rust(e))
      /\ Keeps(Blazor(d), Blazor(e))
      /\ Keeps(Dotnet(d), Dotnet(e))
      /\ Keeps(Phoenix(d), Phoenix(e))
      /\ Keeps(Rails(d), Rails(e))
  BY PartsKeep, PackagesAre DEF Keeps, Quarkus, Spring, Rust,
     Blazor, Dotnet, Phoenix, Rails, Plain, Scripted, Gradle, Csproj, Lock,
     DenoFile, GoPlugin, LockedBuild
<1>2. /\ Keeps(Sinatra(d), Sinatra(e))
      /\ Keeps(Symfony(d), Symfony(e))
      /\ Keeps(Php(d), Php(e))
      /\ Keeps(DenoFresh(d), DenoFresh(e))
      /\ Keeps(Deno(d), Deno(e))
      /\ Keeps(FastApi(d), FastApi(e))
      /\ Keeps(Flask(d), Flask(e))
  BY PartsKeep, PackagesAre DEF Keeps, Sinatra, Symfony, Php,
     DenoFresh, Deno, FastApi, Flask, Plain, Scripted, Gradle, Csproj, Lock,
     DenoFile, GoPlugin, LockedBuild
<1>3. /\ Keeps(Django(d), Django(e))
      /\ Keeps(Elysia(d), Elysia(e))
      /\ Keeps(BunNative(d), BunNative(e))
      /\ Keeps(TanstackStart(d), TanstackStart(e))
      /\ Keeps(Analog(d), Analog(e))
      /\ Keeps(Nextjs(d), Nextjs(e))
      /\ Keeps(Sveltekit(d), Sveltekit(e))
  BY PartsKeep, PackagesAre DEF Keeps, Django, Elysia, BunNative,
     TanstackStart, Analog, Nextjs, Sveltekit, Plain, Scripted, Gradle,
     Csproj, Lock, DenoFile, GoPlugin, LockedBuild
<1>4. /\ Keeps(Nuxt(d), Nuxt(e))
      /\ Keeps(Astro(d), Astro(e))
      /\ Keeps(Remix(d), Remix(e))
      /\ Keeps(Blitz(d), Blitz(e))
      /\ Keeps(Redwood(d), Redwood(e))
      /\ Keeps(SolidStart(d), SolidStart(e))
      /\ Keeps(Svelte(d), Svelte(e))
  BY PartsKeep, PackagesAre DEF Keeps, Nuxt, Astro, Remix, Blitz,
     Redwood, SolidStart, Svelte, Plain, Scripted, Gradle, Csproj, Lock,
     DenoFile, GoPlugin, LockedBuild
<1>5. /\ Keeps(Qwik(d), Qwik(e))
      /\ Keeps(Nitro(d), Nitro(e))
      /\ Keeps(Marko(d), Marko(e))
      /\ Keeps(Preact(d), Preact(e))
      /\ Keeps(Gatsby(d), Gatsby(e))
      /\ Keeps(Cra(d), Cra(e))
      /\ Keeps(Vite(d), Vite(e))
  BY PartsKeep, PackagesAre DEF Keeps, Qwik, Nitro, Marko, Preact,
     Gatsby, Cra, Vite, Plain, Scripted, Gradle, Csproj, Lock, DenoFile,
     GoPlugin, LockedBuild
<1>6. /\ Keeps(Angular(d), Angular(e))
      /\ Keeps(VueCli(d), VueCli(e))
      /\ Keeps(Hugo(d), Hugo(e))
      /\ Keeps(Eleventy(d), Eleventy(e))
      /\ Keeps(Gin(d), Gin(e))
      /\ Keeps(Fiber(d), Fiber(e))
      /\ Keeps(EchoGo(d), EchoGo(e))
  BY PartsKeep, PackagesAre DEF Keeps, Angular, VueCli, Hugo,
     Eleventy, Gin, Fiber, EchoGo, Plain, Scripted, Gradle, Csproj, Lock,
     DenoFile, GoPlugin, LockedBuild
<1>7. /\ Keeps(Fastify(d), Fastify(e))
      /\ Keeps(Hono(d), Hono(e))
      /\ Keeps(Koa(d), Koa(e))
      /\ Keeps(H3(d), H3(e))
      /\ Keeps(Express(d), Express(e))
      /\ Keeps(Mern(d), Mern(e))
      /\ Keeps(Static(d), Static(e))
  BY PartsKeep, PackagesAre DEF Keeps, Fastify, Hono, Koa, H3,
     Express, Mern, Static, Plain, Scripted, Gradle, Csproj, Lock, DenoFile,
     GoPlugin, LockedBuild
<1> QED
  BY <1>1, <1>2, <1>3, <1>4, <1>5, <1>6, <1>7 DEF Plugins, InOrder

(***************************************************************************)
(* In a directory that was built, the command of each plugin runs a tool   *)
(* its preview image has, if its build image had those of its build.       *)
(***************************************************************************)
Fits(p) == Compiles(p.build) => p.start.tool \in Tools(p.preview)

LEMMA PluginsFit ==
    ASSUME NEW d, d.built
    PROVE  \A i \in 1..49 : Fits(Plugins(d)[i])
<1>1. /\ Fits(Quarkus(d))
      /\ Fits(Spring(d))
      /\ Fits(Rust(d))
      /\ Fits(Blazor(d))
      /\ Fits(Dotnet(d))
      /\ Fits(Phoenix(d))
      /\ Fits(Rails(d))
  BY DEF Fits, Compiles, Tools, Start, BuiltIn, NodeBuild, PythonBuild, Plain,
     GoPlugin, LockedBuild, DotnetStart, ScriptOrFile, Runner, Quarkus,
     Spring, Rust, Blazor, Dotnet, Phoenix, Rails
<1>2. /\ Fits(Sinatra(d))
      /\ Fits(Symfony(d))
      /\ Fits(Php(d))
      /\ Fits(DenoFresh(d))
      /\ Fits(Deno(d))
      /\ Fits(FastApi(d))
      /\ Fits(Flask(d))
  BY DEF Fits, Compiles, Tools, Start, BuiltIn, NodeBuild, PythonBuild, Plain,
     GoPlugin, LockedBuild, DotnetStart, ScriptOrFile, Runner, Sinatra,
     Symfony, Php, DenoFresh, Deno, FastApi, Flask
<1>3. /\ Fits(Django(d))
      /\ Fits(Elysia(d))
      /\ Fits(BunNative(d))
      /\ Fits(TanstackStart(d))
      /\ Fits(Analog(d))
      /\ Fits(Nextjs(d))
      /\ Fits(Sveltekit(d))
  BY DEF Fits, Compiles, Tools, Start, BuiltIn, NodeBuild, PythonBuild, Plain,
     GoPlugin, LockedBuild, DotnetStart, ScriptOrFile, Runner, Django, Elysia,
     BunNative, TanstackStart, Analog, Nextjs, Sveltekit
<1>4. /\ Fits(Nuxt(d))
      /\ Fits(Astro(d))
      /\ Fits(Remix(d))
      /\ Fits(Blitz(d))
      /\ Fits(Redwood(d))
      /\ Fits(SolidStart(d))
      /\ Fits(Svelte(d))
  BY DEF Fits, Compiles, Tools, Start, BuiltIn, NodeBuild, PythonBuild, Plain,
     GoPlugin, LockedBuild, DotnetStart, ScriptOrFile, Runner, Nuxt, Astro,
     Remix, Blitz, Redwood, SolidStart, Svelte
<1>5. /\ Fits(Qwik(d))
      /\ Fits(Nitro(d))
      /\ Fits(Marko(d))
      /\ Fits(Preact(d))
      /\ Fits(Gatsby(d))
      /\ Fits(Cra(d))
      /\ Fits(Vite(d))
  BY DEF Fits, Compiles, Tools, Start, BuiltIn, NodeBuild, PythonBuild, Plain,
     GoPlugin, LockedBuild, DotnetStart, ScriptOrFile, Runner, Qwik, Nitro,
     Marko, Preact, Gatsby, Cra, Vite
<1>6. /\ Fits(Angular(d))
      /\ Fits(VueCli(d))
      /\ Fits(Hugo(d))
      /\ Fits(Eleventy(d))
      /\ Fits(Gin(d))
      /\ Fits(Fiber(d))
      /\ Fits(EchoGo(d))
  BY DEF Fits, Compiles, Tools, Start, BuiltIn, NodeBuild, PythonBuild, Plain,
     GoPlugin, LockedBuild, DotnetStart, ScriptOrFile, Runner, Angular,
     VueCli, Hugo, Eleventy, Gin, Fiber, EchoGo
<1>7. /\ Fits(Fastify(d))
      /\ Fits(Hono(d))
      /\ Fits(Koa(d))
      /\ Fits(H3(d))
      /\ Fits(Express(d))
      /\ Fits(Mern(d))
      /\ Fits(Static(d))
  BY DEF Fits, Compiles, Tools, Start, BuiltIn, NodeBuild, PythonBuild, Plain,
     GoPlugin, LockedBuild, DotnetStart, ScriptOrFile, Runner, Fastify, Hono,
     Koa, H3, Express, Mern, Static
<1> QED
  BY <1>1, <1>2, <1>3, <1>4, <1>5, <1>6, <1>7 DEF Plugins, InOrder

(***************************************************************************)
(* The directories a behaviour comes to.                                   *)
(***************************************************************************)
\* What is uploaded is among them, and building, healing or editing leads to
\* others.
LEMMA DirectoriesAre ==
    /\ Directories \subseteq Workspaces
    /\ \A d \in Uploaded : d \in Directories
    /\ \A d \in Directories :
          /\ WithOutput(d) \in Directories /\ WithOutput(d).built /\ SameSources(d, WithOutput(d))
          /\ \A f \in Additions :
                /\ [d EXCEPT !.files = @ \cup {f}] \in Directories
                /\ [d EXCEPT !.files = @ \cup {f}].built = d.built
          /\ \A q \in Injections :
                /\ [d EXCEPT !.deps = @ \cup {q}] \in Directories
                /\ [d EXCEPT !.deps = @ \cup {q}].files = d.files
                /\ q \notin PluginPackages => SameSources(d, [d EXCEPT !.deps = @ \cup {q}])
<1> DEFINE Dir5(f, p, u, b) == [files |-> f, deps |-> p, dev |-> u.dev, scripts |-> u.scripts,
                                built |-> b]
<1>1. Uploaded \subseteq Workspaces
  <2> SUFFICES ASSUME NEW a \in Archives, NEW d \in {a.root} \cup {a.sub[s] : s \in DOMAIN a.sub}
               PROVE  d \in Workspaces
    BY DEF Uploaded
  <2> QED
    BY ArchivesAreWorkspaces
<1>2. \A d : d \in Directories <=>
          \E u \in Uploaded, made \in SUBSET Additions, put \in SUBSET Injections, b \in BOOLEAN :
                d = Dir5(u.files \cup made, u.deps \cup put, u, b)
  BY DEF Directories
<1>3. \A u \in Workspaces : /\ u.files \subseteq STRING /\ u.deps \subseteq STRING
                            /\ u.dev \subseteq STRING /\ u.scripts \subseteq STRING
                            /\ u.built \in BOOLEAN
                            /\ u = Dir5(u.files, u.deps, u, u.built)
  BY DEF Workspaces
<1>4. Directories \subseteq Workspaces
  <2> SUFFICES ASSUME NEW d \in Directories PROVE d \in Workspaces
    OBVIOUS
  <2>1. PICK u \in Uploaded, made \in SUBSET Additions, put \in SUBSET Injections, b \in BOOLEAN :
           d = Dir5(u.files \cup made, u.deps \cup put, u, b)
    BY <1>2
  <2>2. u.files \cup made \subseteq STRING /\ u.deps \cup put \subseteq STRING
    BY <1>1, <1>3, ArchivesAreWorkspaces
  <2> QED
    BY <1>1, <1>3, <2>1, <2>2 DEF Workspaces
<1>5. ASSUME NEW d \in Uploaded PROVE d \in Directories
  <2>1. d = Dir5(d.files \cup {}, d.deps \cup {}, d, d.built)
    BY <1>1, <1>3
  <2>2. {} \in SUBSET Additions /\ {} \in SUBSET Injections /\ d.built \in BOOLEAN
    BY <1>1, <1>3
  <2> HIDE DEF Dir5
  <2> QED
    BY <1>2, <2>1, <2>2
<1>6. ASSUME NEW d \in Directories
      PROVE  /\ WithOutput(d) \in Directories /\ WithOutput(d).built
             /\ SameSources(d, WithOutput(d))
             /\ \A f \in Additions :
                   /\ [d EXCEPT !.files = @ \cup {f}] \in Directories
                   /\ [d EXCEPT !.files = @ \cup {f}].built = d.built
             /\ \A q \in Injections :
                   /\ [d EXCEPT !.deps = @ \cup {q}] \in Directories
                   /\ [d EXCEPT !.deps = @ \cup {q}].files = d.files
                   /\ q \notin PluginPackages => SameSources(d, [d EXCEPT !.deps = @ \cup {q}])
  <2>1. PICK u \in Uploaded, made \in SUBSET Additions, put \in SUBSET Injections, b \in BOOLEAN :
           d = Dir5(u.files \cup made, u.deps \cup put, u, b)
    BY <1>2
  <2> DEFINE names == u.files \cup made
             packages == u.deps \cup put
  <2>2. WithOutput(d) = Dir5(names, packages, u, TRUE)
    <3> HIDE DEF names, packages
    <3>1. d = Dir5(names, packages, u, b)
      BY <2>1 DEF names, packages
    <3>2. WithOutput(d) = [Dir5(names, packages, u, b) EXCEPT !.built = TRUE]
      BY <3>1 DEF WithOutput
    <3> QED
      BY <3>2
  <2>3. WithOutput(d) \in Directories
    <3> HIDE DEF Dir5
    <3>1. TRUE \in BOOLEAN
      OBVIOUS
    <3>2. \E v \in Uploaded, made1 \in SUBSET Additions, put1 \in SUBSET Injections,
             x \in BOOLEAN :
               WithOutput(d) = Dir5(v.files \cup made1, v.deps \cup put1, v, x)
      BY <2>2, <3>1
    <3> QED
      BY <1>2, <3>2
  <2>4. WithOutput(d).built /\ SameSources(d, WithOutput(d))
    <3> HIDE DEF names, packages
    <3>1. d = Dir5(names, packages, u, b) /\ WithOutput(d) = Dir5(names, packages, u, TRUE)
      BY <2>1, <2>2 DEF names, packages
    <3> QED
      BY <3>1 DEF SameSources
  <2>5. ASSUME NEW f \in Additions
        PROVE  /\ [d EXCEPT !.files = @ \cup {f}] \in Directories
               /\ [d EXCEPT !.files = @ \cup {f}].built = d.built
    <3> DEFINE more == made \cup {f}
    <3>1. names \cup {f} = u.files \cup more
      OBVIOUS
    <3>2. [d EXCEPT !.files = @ \cup {f}] = Dir5(u.files \cup more, packages, u, b)
      <4> HIDE DEF names, packages, more
      <4>1. d = Dir5(names, packages, u, b)
        BY <2>1 DEF names, packages
      <4>2. [d EXCEPT !.files = @ \cup {f}] = Dir5(names \cup {f}, packages, u, b)
        BY <4>1
      <4> QED
        BY <3>1, <4>2
    <3>3. more \in SUBSET Additions
      OBVIOUS
    <3>4. Dir5(u.files \cup more, packages, u, b) \in Directories
      <4> HIDE DEF more, Dir5
      <4> QED
        BY <1>2, <3>3
    <3> QED
      BY <2>1, <3>2, <3>4
  <2>6. ASSUME NEW q \in Injections
        PROVE  /\ [d EXCEPT !.deps = @ \cup {q}] \in Directories
               /\ [d EXCEPT !.deps = @ \cup {q}].files = d.files
               /\ q \notin PluginPackages => SameSources(d, [d EXCEPT !.deps = @ \cup {q}])
    <3> DEFINE more == put \cup {q}
    <3>1. packages \cup {q} = u.deps \cup more
      OBVIOUS
    <3>2. [d EXCEPT !.deps = @ \cup {q}] = Dir5(names, u.deps \cup more, u, b)
      <4> HIDE DEF names, packages, more
      <4>1. d = Dir5(names, packages, u, b)
        BY <2>1 DEF names, packages
      <4>2. [d EXCEPT !.deps = @ \cup {q}] = Dir5(names, packages \cup {q}, u, b)
        BY <4>1
      <4> QED
        BY <3>1, <4>2
    <3>3. more \in SUBSET Injections
      OBVIOUS
    <3>4. Dir5(names, u.deps \cup more, u, b) \in Directories
      <4> HIDE DEF more, Dir5
      <4> QED
        BY <1>2, <3>3
    <3>5. q \notin PluginPackages => SameSources(d, [d EXCEPT !.deps = @ \cup {q}])
      BY <2>1, <3>2 DEF SameSources
    <3> QED
      BY <2>1, <3>2, <3>4, <3>5
  <2> QED
    BY <2>3, <2>4, <2>5, <2>6
<1> QED
  BY <1>4, <1>5, <1>6

\* The table is that of the plugins.
LEMMA TableIs ==
    ASSUME NEW d \in Directories
    PROVE  /\ PluginTable[d] = Plugins(d)
           /\ DOMAIN PluginTable[d] = 1..49
           /\ \A i \in 1..49 : PluginTable[d][i].id = Ids[i]
<1>1. PluginTable[d] = Plugins(d)
  BY DEF PluginTable
<1> QED
  BY <1>1, PluginNames

\* The least of a set of places is one of them.
LEMMA MinOf ==
    ASSUME NEW S \in SUBSET Nat, S # {}
    PROVE  Min(S) \in S /\ \A i \in S : Min(S) <= i
  BY LeastOf DEF Min

(***************************************************************************)
(* The answer of the detector is that of the first plugin that detects     *)
(* the directory, or the fallback if there is none.                        *)
(***************************************************************************)
Finds(d) == {i \in DOMAIN PluginTable[d] : PluginTable[d][i].detects}

LEMMA FirstIs ==
    ASSUME NEW d \in Directories
    PROVE  \/ Finds(d) = {} /\ First(d) = Generic
           \/ \E i \in 1..49 : /\ First(d) = Plugins(d)[i] /\ First(d).id = Ids[i]
                               /\ i \in Finds(d) /\ \A j \in Finds(d) : i <= j
<1>1. Finds(d) \in SUBSET Nat /\ Finds(d) \subseteq 1..49
  BY TableIs DEF Finds
<1>2. First(d) = Asked(d, Finds(d))
  BY DEF First, Finds
<1>3. CASE Finds(d) = {}
  BY <1>2, <1>3 DEF Asked
<1>4. CASE Finds(d) # {}
  <2>1. Min(Finds(d)) \in Finds(d) /\ \A j \in Finds(d) : Min(Finds(d)) <= j
    BY <1>1, <1>4, MinOf
  <2>2. First(d) = PluginTable[d][Min(Finds(d))]
    BY <1>2, <1>4 DEF Asked
  <2> QED
    BY <1>1, <2>1, <2>2, TableIs
<1> QED
  BY <1>3, <1>4

\* A directory with the same sources has the same answer, the command apart.
LEMMA FirstKeeps ==
    ASSUME NEW d \in Directories, NEW e \in Directories, SameSources(d, e)
    PROVE  /\ First(e).id = First(d).id /\ First(e).build = First(d).build
           /\ First(e).preview = First(d).preview
<1>1. \A i \in 1..49 : Keeps(PluginTable[d][i], PluginTable[e][i])
  BY TableIs, PluginsKeep
<1>2. Finds(e) = Finds(d)
  BY <1>1, TableIs DEF Finds, Keeps
<1>3. First(d) = Asked(d, Finds(d)) /\ First(e) = Asked(e, Finds(d))
  BY <1>2 DEF First, Finds
<1>4. CASE Finds(d) = {}
  BY <1>3, <1>4 DEF Asked
<1>5. CASE Finds(d) # {}
  <2>1. Finds(d) \in SUBSET Nat /\ Finds(d) \subseteq 1..49
    BY TableIs DEF Finds
  <2>2. Min(Finds(d)) \in 1..49
    BY <1>5, <2>1, MinOf
  <2> QED
    BY <1>1, <1>3, <1>5, <2>2 DEF Asked, Keeps
<1> QED
  BY <1>4, <1>5

(***************************************************************************)
(* The command of a preview comes from the plugin that was detected: names *)
(* are places.  In a built directory it fits the image.                    *)
(***************************************************************************)
LEMMA CommandsFit ==
    ASSUME NEW d \in Directories, d.built, Compiles(First(d).build)
    PROVE  PluginOf(First(d).id, d).start.tool \in Tools(First(d).preview)
<1> DEFINE named == {i \in DOMAIN PluginTable[d] : PluginTable[d][i].id = First(d).id}
<1>1. DOMAIN PluginTable[d] = 1..49 /\ \A i \in 1..49 : PluginTable[d][i].id = Ids[i]
  BY TableIs
<1>2. PluginOf(First(d).id, d) = Asked(d, named)
  BY DEF PluginOf
<1>3. CASE First(d) = Generic
  <2>1. Generic.id = "generic"
    BY DEF Generic, Plain
  <2>2. \A i \in 1..49 : PluginTable[d][i].id # First(d).id
    BY <1>3, <1>1, <2>1, NamesDiffer
  <2>3. named = {}
    BY <1>1, <2>2
  <2>4. Generic.start.tool \in Tools(Generic.preview)
    BY DEF Generic, Plain, Start, BuiltIn, Tools
  <2> QED
    BY <1>2, <1>3, <2>3, <2>4 DEF Asked
<1>4. ASSUME NEW k \in 1..49, First(d) = Plugins(d)[k], First(d).id = Ids[k]
      PROVE  PluginOf(First(d).id, d).start.tool \in Tools(First(d).preview)
  <2>1. \A i \in 1..49 : PluginTable[d][i].id = First(d).id <=> i = k
    BY <1>1, <1>4, NamesDiffer
  <2>2. named = {k}
    BY <1>1, <2>1
  <2> HIDE DEF named
  <2>3. named \in SUBSET Nat /\ named # {}
    BY <2>2
  <2>4. Min(named) = k
    BY <2>2, <2>3, MinOf
  <2>5. Asked(d, named) = PluginTable[d][k]
    BY <2>3, <2>4 DEF Asked
  <2>6. PluginOf(First(d).id, d) = First(d)
    BY <1>2, <1>4, <2>5, TableIs
  <2> QED
    BY <1>4, <2>6, PluginsFit DEF Fits
<1> QED
  BY <1>3, <1>4, FirstIs

(***************************************************************************)
(* The inductive invariant.  Every directory is one of Directories.        *)
(***************************************************************************)
Folders == {""} \cup ToSet(Subfolders)
Callers == {"pipeline", "user", "port", "agent", "watchdog"}

CatalogueTypes ==
    /\ root \in Directories
    /\ sub \in [ToSet(Subfolders) -> Directories]
    /\ target \in Folders
    /\ outcome \in {"submitted", "building", "deployed", "failed"} /\ healed \in BOOLEAN
    /\ outcome # "submitted" => detection.dir \in Folders
    /\ \/ container = NoPreview
       \/ /\ container = [by |-> container.by, dir |-> container.dir,
                          framework |-> container.framework, up |-> container.up]
          /\ container.by \in Callers /\ container.dir \in Folders

(***************************************************************************)
(* Until a file or a package a plugin looks for is written, by healing or  *)
(* by an edit, to detect the deployment again gives what was built.        *)
(***************************************************************************)
Answers(found, d) ==
    found.framework = First(d).id /\ found.build = First(d).build /\ found.image = First(d).preview

DetectionStands ==
    outcome # "submitted" /\ Untouched =>
        detection.dir = Where(target) /\ Answers(detection, Dir(detection.dir))

(***************************************************************************)
(* What was deployed had the tools of its build, and has the output.       *)
(***************************************************************************)
DeployedIsBuilt == outcome = "deployed" => Compiles(detection.build) /\ Dir(detection.dir).built

(***************************************************************************)
(* A preview follows a build, and its first three callers spawned what was *)
(* built.                                                                  *)
(***************************************************************************)
PreviewsAgree ==
    container # NoPreview =>
        /\ Over
        /\ container.by \in {"pipeline", "user", "port"} /\ Untouched => AsBuilt(container)

CatalogueInv == CatalogueTypes /\ DetectionStands /\ DeployedIsBuilt /\ PreviewsAgree

\* The folders with a manifest are folders there are, at places of their order.
LEMMA ManifestsAre ==
    /\ WithManifest \in SUBSET Nat
    /\ \A i \in WithManifest : Subfolders[i] \in Below
<1>1. DOMAIN Subfolders = 1..Len(Subfolders) /\ Len(Subfolders) \in Nat
  BY ArchivesAreWorkspaces, LenProperties
<1> QED
  BY <1>1 DEF WithManifest

\* A detection ends at the root or in one of the folders there are.
LEMMA TopIs ==
    ASSUME CatalogueTypes, NEW t \in Folders
    PROVE  /\ Below \subseteq ToSet(Subfolders) /\ "" \notin Below
           /\ Top(t) \in Below \cup {""}
<1>1. Below \subseteq ToSet(Subfolders) /\ "" \notin Below
  BY ArchivesAreWorkspaces DEF CatalogueTypes, Below
<1>2. ASSUME NEW s \in Below
      PROVE  (CHOOSE x \in Below : TRUE) \in Below
  BY <1>2
<1> QED
  BY <1>1, <1>2 DEF Top

LEMMA WhereIs ==
    ASSUME CatalogueTypes, NEW t \in Folders
    PROVE  /\ Where(t) \in Below \cup {""} /\ Where(t) \in Folders
           /\ Dir(Where(t)) \in Directories
<1>1. Below \subseteq ToSet(Subfolders) /\ Top(t) \in Below \cup {""}
  BY TopIs
<1>2. ASSUME Where(t) = Top(t) PROVE Where(t) \in Below \cup {""}
  BY <1>1, <1>2
<1>3. ASSUME WithManifest # {}, Where(t) = Subfolders[Min(WithManifest)]
      PROVE  Where(t) \in Below \cup {""}
  <2>1. Min(WithManifest) \in WithManifest
    BY <1>3, ManifestsAre, MinOf
  <2> QED
    BY <1>3, <2>1, ManifestsAre
<1>4. Where(t) \in Below \cup {""}
  BY <1>2, <1>3 DEF Where
<1> QED
  BY <1>1, <1>4 DEF CatalogueTypes, Dir, Folders

\* A detection that ends at the root would end there from the root as well.
LEMMA RootAlone ==
    ASSUME CatalogueTypes, NEW t \in Folders, Where(t) = ""
    PROVE  Top(t) = "" /\ Where("") = ""
<1>1. "" \notin Below /\ "" \in Folders
  BY TopIs DEF Folders
<1>2. Top(t) = ""
  <2>1. SUFFICES ASSUME Top(t) # "" PROVE FALSE
    OBVIOUS
  <2>2. WithManifest # {} /\ Subfolders[Min(WithManifest)] = ""
    BY <2>1 DEF Where
  <2>3. Min(WithManifest) \in WithManifest
    BY <2>2, ManifestsAre, MinOf
  <2> QED
    BY <1>1, <2>2, <2>3, ManifestsAre
<1>3. Top("") = ""
  BY <1>1, <1>2 DEF Top
<1> QED
  BY <1>2, <1>3 DEF Where

(***************************************************************************)
(* What the build leaves, or healing writes without touching the sources,  *)
(* lies where the detection ended: a second detection ends there again.    *)
(***************************************************************************)
LEMMA RewriteKeepsDetection ==
    ASSUME CatalogueTypes, target' = target, NEW e \in Directories, e # Nothing,
           SameSources(Dir(Where(target)), e), Rewrite(Where(target), e)
    PROVE  /\ Where(target)' = Where(target)
           /\ Dir(Where(target))' = e
<1> DEFINE w == Where(target)
<1>1. /\ w \in Below \cup {""} /\ "" \notin Below /\ Below \subseteq ToSet(Subfolders)
      /\ Top(target) \in Below \cup {""} /\ Dir(w) \in Directories
  BY TopIs, WhereIs DEF CatalogueTypes
<1>2. \A s \in ToSet(Subfolders) : sub[s] \in Directories
  BY DEF CatalogueTypes
<1>3. \A s \in ToSet(Subfolders) : sub'[s] = IF s = w THEN e ELSE sub[s]
  BY <1>1, ArchivesAreWorkspaces DEF CatalogueTypes, Rewrite
<1>4. root' = IF w = "" THEN e ELSE root
  BY DEF Rewrite
<1>5. Below' = Below
  <2>1. DOMAIN sub = ToSet(Subfolders) /\ DOMAIN sub' = ToSet(Subfolders)
    <3>1. \/ sub' = [sub EXCEPT ![w] = e]
          \/ sub' = sub
      BY DEF Rewrite
    <3> QED
      BY <3>1 DEF CatalogueTypes
  <2>2. \A s \in ToSet(Subfolders) : sub'[s] # Nothing <=> sub[s] # Nothing
    BY <1>1, <1>3, ArchivesAreWorkspaces DEF Below
  <2> QED
    BY <2>1, <2>2 DEF Below
<1>6. Recognised(e) <=> Recognised(Dir(w))
  BY <1>1, FirstKeeps DEF Recognised
<1>7. /\ Recognised(root') <=> Recognised(root)
      /\ \A s \in ToSet(Subfolders) : Recognised(sub'[s]) <=> Recognised(sub[s])
  <2>1. Recognised(root') <=> Recognised(root)
    BY <1>4, <1>6 DEF Dir
  <2>2. ASSUME NEW s \in ToSet(Subfolders)
        PROVE  Recognised(sub'[s]) <=> Recognised(sub[s])
    <3>1. CASE s = w
      <4>1. Dir(w) = sub[s]
        BY <3>1, <2>2, ArchivesAreWorkspaces DEF Dir
      <4> QED
        BY <1>3, <1>6, <2>2, <3>1, <4>1
    <3>2. CASE s # w
      BY <1>3, <2>2, <3>2
    <3> QED
      BY <3>1, <3>2
  <2> QED
    BY <2>1, <2>2
<1>8. WithManifest' = WithManifest
  <2>1. \A i \in DOMAIN Subfolders : Subfolders[i] \in ToSet(Subfolders)
    BY DEF ToSet
  <2>2. \A i \in DOMAIN Subfolders :
           Subfolders[i] \in Below /\ Recognised(sub'[Subfolders[i]])
             <=> Subfolders[i] \in Below /\ Recognised(sub[Subfolders[i]])
    BY <1>7, <2>1
  <2> QED
    BY <1>5, <2>2 DEF WithManifest
<1>9. Top(target)' = Top(target)
  <2>1. CASE w = ""
    <3>1. Top(target) = ""
      BY <2>1, RootAlone DEF CatalogueTypes
    <3>2. target \notin Below /\ ~(root.files = {} /\ \E s \in Below : Below = {s})
      BY <1>1, <3>1 DEF Top
    <3>3. root'.files = root.files
      BY <1>4, <2>1 DEF SameSources, Dir
    <3> QED
      BY <1>5, <3>1, <3>2, <3>3 DEF Top
  <2>2. CASE w # ""
    BY <1>4, <1>5, <2>2 DEF Top
  <2> QED
    BY <2>1, <2>2
<1>10. Recognised(Dir(Top(target)))' <=> Recognised(Dir(Top(target)))
  BY <1>1, <1>7, <1>9 DEF Dir
<1>11. Where(target)' = Where(target)
  BY <1>8, <1>9, <1>10 DEF Where
<1> QED
  BY <1>1, <1>3, <1>4, <1>11 DEF Dir

\* What a detection finds.
LEMMA DetectionIs ==
    ASSUME NEW t
    PROVE  /\ DetectFramework(t).dir = Where(t)
           /\ Answers(DetectFramework(t), Dir(Where(t)))
           /\ DetectFramework(t).framework = First(Dir(Where(t))).id
  BY DEF DetectFramework, Detected, Answers

\* Where nothing moves, a detection ends where it did.
LEMMA SameWorkspace ==
    ASSUME UNCHANGED <<root, sub, target>>
    PROVE  /\ Where(target)' = Where(target)
           /\ \A s : Dir(s)' = Dir(s)
<1>1. Below' = Below
  BY DEF Below
<1>2. \A s : Dir(s)' = Dir(s)
  BY DEF Dir
<1>3. WithManifest' = WithManifest
  BY <1>1 DEF WithManifest
<1>4. Top(target)' = Top(target)
  BY <1>1 DEF Top
<1>5. Dir(Top(target))' = Dir(Top(target))
  BY <1>4 DEF Dir
<1> QED
  BY <1>2, <1>3, <1>4, <1>5 DEF Where

LEMMA CatalogueStarts == CatalogueInit => CatalogueInv
<1> SUFFICES ASSUME CatalogueInit PROVE CatalogueInv
  OBVIOUS
<1>1. PICK a \in Archives : root = a.root /\ sub = a.sub /\ target = a.target
  BY DEF CatalogueInit
<1>2. root \in Directories
  BY <1>1, DirectoriesAre DEF Uploaded
<1>3. DOMAIN a.sub = ToSet(Subfolders) /\ a.sub \in [ToSet(Subfolders) -> Workspaces]
  BY ArchivesAreWorkspaces
<1>4. \A s \in ToSet(Subfolders) : a.sub[s] \in Directories
  BY <1>3, DirectoriesAre DEF Uploaded
<1>5. sub \in [ToSet(Subfolders) -> Directories]
  BY <1>1, <1>3, <1>4
<1>6. target \in Folders
  BY <1>1, ArchivesAreWorkspaces DEF Folders
<1>7. CatalogueTypes
  BY <1>2, <1>5, <1>6 DEF CatalogueInit, CatalogueTypes
<1> QED
  BY <1>7 DEF CatalogueInit, CatalogueInv, DetectionStands, DeployedIsBuilt, PreviewsAgree

\* The detection stands when the build begins.
LEMMA DetectionSteps ==
    ASSUME CatalogueInv, RunPipeline
    PROVE  CatalogueInv' /\ spawns' = spawns
<1> DEFINE w == Where(target)
<1> USE DEF CatalogueInv
<1>1. /\ target \in Folders /\ outcome' = "building" /\ container' = NoPreview
      /\ UNCHANGED <<root, sub, target, healed>> /\ spawns' = spawns
  BY DEF RunPipeline, CatalogueTypes, PreviewsAgree, Over
<1>2. w \in Folders
  BY <1>1, WhereIs
<1>3. detection'.dir = w /\ Answers(detection', Dir(w))
  BY DetectionIs DEF RunPipeline
<1>4. CatalogueTypes'
  BY <1>1, <1>2, <1>3 DEF CatalogueTypes
<1>5. Where(target)' = w /\ Dir(w)' = Dir(w)
  BY <1>1, SameWorkspace
<1>6. DetectionStands'
  BY <1>3, <1>5 DEF DetectionStands, Dir, Answers
<1> QED
  BY <1>1, <1>4, <1>6 DEF DeployedIsBuilt, PreviewsAgree

\* What is rewritten in the directory of the detection is typed.
LEMMA RewriteIsTyped ==
    ASSUME CatalogueTypes, NEW dir \in Folders, NEW e \in Directories, Rewrite(dir, e)
    PROVE  /\ root' \in Directories /\ sub' \in [ToSet(Subfolders) -> Directories]
           /\ Dir(dir)' = e
<1>1. CASE dir = ""
  BY <1>1 DEF CatalogueTypes, Rewrite, Dir
<1>2. CASE dir # ""
  <2>1. dir \in ToSet(Subfolders) /\ sub' = [sub EXCEPT ![dir] = e] /\ root' = root
    BY <1>2 DEF Folders, Rewrite
  <2> QED
    BY <1>2, <2>1 DEF CatalogueTypes, Dir
<1> QED
  BY <1>1, <1>2

\* A build or a healing that rewrites the directory of the detection.
LEMMA RewriteSteps ==
    ASSUME CatalogueInv, outcome = "building", outcome' \in {"building", "deployed"},
           UNCHANGED <<target, detection, edited, container, spawns>>,
           healed' \in BOOLEAN, healed => healed',
           NEW e \in Directories, Rewrite(detection.dir, e),
           outcome' = "deployed" => Compiles(detection.build) /\ e.built,
           ~healed' => e # Nothing /\ SameSources(Dir(detection.dir), e)
    PROVE  CatalogueInv'
<1> USE DEF CatalogueInv
<1>1. detection.dir \in Folders /\ container = NoPreview
  BY DEF CatalogueTypes, PreviewsAgree, Over
<1>2. /\ root' \in Directories /\ sub' \in [ToSet(Subfolders) -> Directories]
      /\ Dir(detection.dir)' = e
  BY <1>1, RewriteIsTyped DEF Dir
<1>3. CatalogueTypes'
  BY <1>1, <1>2 DEF CatalogueTypes
<1>4. DeployedIsBuilt'
  BY <1>2 DEF DeployedIsBuilt
<1>5. DetectionStands'
  <2>1. SUFFICES ASSUME ~healed', ~edited'
                 PROVE  (detection.dir = Where(target) /\ Answers(detection, Dir(detection.dir)))'
    BY DEF DetectionStands, Untouched
  <2>2. ~healed /\ ~edited /\ e # Nothing /\ SameSources(Dir(detection.dir), e)
    BY <2>1
  <2>3. detection.dir = Where(target) /\ Answers(detection, Dir(detection.dir))
    BY <2>2 DEF DetectionStands, Untouched
  <2>4. Where(target)' = Where(target)
    BY <2>2, <2>3, RewriteKeepsDetection
  <2>5. Dir(detection.dir) \in Directories
    BY <2>3, WhereIs DEF CatalogueTypes
  <2>6. Answers(detection, e)
    BY <2>2, <2>3, <2>5, FirstKeeps DEF Answers
  <2> QED
    BY <1>2, <2>3, <2>4, <2>6 DEF Answers
<1> QED
  BY <1>1, <1>3, <1>4, <1>5 DEF PreviewsAgree

\* Another package, a marker file, the output of the build.
LEMMA BuildSteps ==
    ASSUME CatalogueInv, HealPackage \/ HealFiles \/ EndBuild
    PROVE  CatalogueInv' /\ spawns' = spawns
<1> DEFINE d == Dir(detection.dir)
<1> USE DEF CatalogueInv
<1>1. outcome = "building" /\ detection.dir \in Folders /\ healed \in BOOLEAN
  BY DEF HealPackage, HealFiles, EndBuild, CatalogueTypes
<1>2. d \in Directories
  BY <1>1 DEF Dir, Folders, CatalogueTypes
<1>3. UNCHANGED <<target, detection, edited, container, spawns>>
  BY DEF HealPackage, HealFiles, EndBuild
<1>4. CASE HealPackage
  <2>1. PICK q \in Injections :
           /\ Rewrite(detection.dir, [Dir(detection.dir) EXCEPT !.deps = @ \cup {q}])
           /\ healed' = (healed \/ q \in PluginPackages)
    BY <1>4 DEF HealPackage
  <2> DEFINE e == [d EXCEPT !.deps = @ \cup {q}]
  <2>2. /\ e \in Directories /\ e.files = d.files
        /\ q \notin PluginPackages => SameSources(d, e)
    BY <1>2, DirectoriesAre
  <2>3. e # Nothing
    BY <1>4, <2>2 DEF HealPackage, Has, Nothing
  <2>4. outcome' = "building"
    BY <1>4 DEF HealPackage
  <2>5. Rewrite(detection.dir, e)
    BY <2>1
  <2> HIDE DEF e, d
  <2>6. ~healed' => e # Nothing /\ SameSources(Dir(detection.dir), e)
    BY <2>1, <2>2, <2>3 DEF d
  <2>7. healed' \in BOOLEAN /\ (healed => healed')
    BY <2>1
  <2> QED
    BY <1>1, <1>3, <2>2, <2>4, <2>5, <2>6, <2>7, RewriteSteps
<1>5. CASE HealFiles
  <2>1. PICK f \in Additions :
           Rewrite(detection.dir, [Dir(detection.dir) EXCEPT !.files = @ \cup {f}])
    BY <1>5 DEF HealFiles
  <2> DEFINE e == [d EXCEPT !.files = @ \cup {f}]
  <2>2. e \in Directories
    BY <1>2, DirectoriesAre
  <2>3. outcome' = "building" /\ healed'
    BY <1>5 DEF HealFiles
  <2>4. Rewrite(detection.dir, e)
    BY <2>1
  <2> HIDE DEF e, d
  <2> QED
    BY <1>1, <1>3, <1>5, <2>2, <2>3, <2>4, RewriteSteps DEF HealFiles
<1>6. CASE EndBuild /\ outcome' = "deployed" /\ Compiles(detection.build)
           /\ Rewrite(detection.dir, WithOutput(Dir(detection.dir)))
  <2>1. /\ WithOutput(d) \in Directories /\ WithOutput(d).built
        /\ SameSources(d, WithOutput(d))
    BY <1>2, DirectoriesAre
  <2>2. WithOutput(d) # Nothing
    BY <2>1 DEF Nothing
  <2>3. healed' = healed
    BY <1>6 DEF EndBuild
  <2> QED
    BY <1>1, <1>3, <1>6, <2>1, <2>2, <2>3, RewriteSteps
<1>7. CASE EndBuild /\ outcome' = "failed" /\ UNCHANGED <<root, sub>>
  <2>1. UNCHANGED <<root, sub, target, detection, healed, edited, container>>
    BY <1>7 DEF EndBuild
  <2>2. CatalogueTypes'
    BY <1>1, <1>7, <2>1 DEF CatalogueTypes
  <2>3. Where(target)' = Where(target) /\ Dir(detection.dir)' = Dir(detection.dir)
    BY <2>1, SameWorkspace DEF Dir
  <2>4. DetectionStands'
    BY <1>1, <2>1, <2>3 DEF DetectionStands, Answers, Untouched
  <2> QED
    BY <1>1, <1>3, <1>7, <2>1, <2>2, <2>4 DEF DeployedIsBuilt, PreviewsAgree, Over
<1> QED
  BY <1>3, <1>4, <1>5, <1>6, <1>7 DEF EndBuild

\* A spawn that names what is built, or that is not of the first three callers.
LEMMA SpawnSteps ==
    ASSUME CatalogueInv, NEW by \in Callers, NEW dir \in Folders, NEW framework,
           Spawn(by, dir, framework), Over,
           by = "pipeline" \/ (by \in {"user", "port"} /\ Untouched) =>
               dir = detection.dir /\ framework = detection.framework
    PROVE  CatalogueInv' /\ SpawnsAsBuilt
<1> USE DEF CatalogueInv
<1>1. /\ container' = [by |-> by, dir |-> dir, framework |-> framework, up |-> TRUE]
      /\ UNCHANGED <<root, sub, target, detection, outcome, healed, edited>>
  BY DEF Spawn
<1>2. container'.by = by /\ container'.dir = dir /\ container'.framework = framework
  BY <1>1
<1>3. CatalogueTypes'
  BY <1>1, <1>2 DEF CatalogueTypes
<1>4. Where(target)' = Where(target) /\ Dir(detection.dir)' = Dir(detection.dir)
  BY <1>1, SameWorkspace DEF Dir
<1>5. DetectionStands' /\ DeployedIsBuilt'
  BY <1>1, <1>4 DEF DetectionStands, DeployedIsBuilt, Answers, Untouched
<1>6. PreviewsAgree'
  BY <1>1, <1>2 DEF PreviewsAgree, AsBuilt, Over, Untouched
<1> QED
  BY <1>1, <1>2, <1>3, <1>5, <1>6 DEF SpawnsAsBuilt, Spawned, AsBuilt, Untouched

LEMMA CatalogueSteps ==
    CatalogueInv /\ [CatalogueNext]_catalogue => CatalogueInv' /\ [SpawnsAsBuilt]_catalogue
<1> SUFFICES ASSUME CatalogueInv, [CatalogueNext]_catalogue
             PROVE  CatalogueInv' /\ [SpawnsAsBuilt]_catalogue
  OBVIOUS
<1> USE DEF CatalogueInv
<1>1. /\ target \in Folders /\ "" \in Folders
      /\ Where(target) \in Folders /\ Where("") \in Folders
  BY WhereIs DEF CatalogueTypes, Folders
<1>2. outcome # "submitted" => detection.dir \in Folders
  BY DEF CatalogueTypes
<1>3. /\ container # NoPreview => Over
      /\ Over => outcome # "submitted"
  BY DEF PreviewsAgree, Over
<1>4. /\ DetectFramework(target).dir = Where(target)
      /\ DetectFramework(target).framework = First(Dir(Where(target))).id
  BY DetectionIs
<1>5. outcome # "submitted" /\ Untouched =>
         /\ DetectFramework(target).dir = detection.dir
         /\ DetectFramework(target).framework = detection.framework
  BY <1>4 DEF DetectionStands, Answers
<1>6. CASE RunPipeline \/ HealPackage \/ HealFiles \/ EndBuild
  <2>1. CatalogueInv' /\ spawns' = spawns
    BY <1>6, DetectionSteps, BuildSteps
  <2> QED
    BY <2>1 DEF SpawnsAsBuilt, Spawned
<1>7. CASE PipelinePreview
  <2>1. Spawn("pipeline", detection.dir, detection.framework) /\ Over
    BY <1>7 DEF PipelinePreview, Over
  <2> QED
    BY <1>2, <1>3, <2>1, SpawnSteps DEF Callers
<1>8. CASE StartAgain
  <2>1. /\ Spawn("user", DetectFramework(target).dir, DetectFramework(target).framework)
        /\ Over
    BY <1>8 DEF StartAgain
  <2> QED
    BY <1>1, <1>3, <1>4, <1>5, <2>1, SpawnSteps DEF Callers
<1>9. CASE ChangePort
  <2>1. /\ Spawn("port", DetectFramework(target).dir, DetectFramework(target).framework)
        /\ Over
    BY <1>3, <1>9 DEF ChangePort
  <2> QED
    BY <1>1, <1>3, <1>4, <1>5, <2>1, SpawnSteps DEF Callers
<1>10. CASE HotReload
  <2>1. Spawn("agent", "", DetectFramework("").framework) /\ Over
    BY <1>10 DEF HotReload, Over
  <2> QED
    BY <1>1, <2>1, SpawnSteps DEF Callers
<1>11. CASE Watchdog
  <2>1. Spawn("watchdog", "", "nextjs") /\ Over
    BY <1>3, <1>11 DEF Watchdog
  <2> QED
    BY <1>1, <2>1, SpawnSteps DEF Callers
<1>12. ASSUME UNCHANGED <<root, sub, target, detection, outcome, healed, edited, spawns>>,
              \/ container' = container
              \/ container' = NoPreview
              \/ container # NoPreview /\ container' = [container EXCEPT !.up = FALSE]
       PROVE  CatalogueInv' /\ [SpawnsAsBuilt]_catalogue
  <2>1. \/ container' = container
        \/ container' = NoPreview
        \/ /\ container # NoPreview
           /\ container' = [by |-> container.by, dir |-> container.dir,
                            framework |-> container.framework, up |-> FALSE]
    BY <1>12 DEF CatalogueTypes
  <2>2. CatalogueTypes'
    BY <1>12, <2>1 DEF CatalogueTypes
  <2>3. Where(target)' = Where(target) /\ Dir(detection.dir)' = Dir(detection.dir)
    BY <1>12, SameWorkspace DEF Dir
  <2>4. DetectionStands' /\ DeployedIsBuilt'
    BY <1>12, <2>3 DEF DetectionStands, DeployedIsBuilt, Answers, Untouched
  <2>5. PreviewsAgree'
    BY <1>12, <2>1 DEF PreviewsAgree, AsBuilt, Over, Untouched
  <2> QED
    BY <1>12, <2>2, <2>4, <2>5 DEF SpawnsAsBuilt, Spawned
<1>13. CASE ContainerDies
  BY <1>12, <1>13 DEF ContainerDies
<1>14. CASE StopPreview
  BY <1>12, <1>14 DEF StopPreview
<1>15. CASE Edit
  <2>1. PICK f \in Additions : root' = [root EXCEPT !.files = @ \cup {f}]
    BY <1>15 DEF Edit
  <2>2. /\ UNCHANGED <<sub, target, detection, outcome, healed, container, spawns>>
        /\ outcome # "submitted" /\ edited'
    BY <1>15 DEF Edit
  <2>3. root' \in Directories /\ root'.built = root.built
    BY <2>1, DirectoriesAre DEF CatalogueTypes
  <2>4. CatalogueTypes'
    BY <2>2, <2>3 DEF CatalogueTypes
  <2>5. DeployedIsBuilt'
    BY <2>2, <2>3 DEF DeployedIsBuilt, Dir
  <2> QED
    BY <2>2, <2>4, <2>5
    DEF DetectionStands, PreviewsAgree, SpawnsAsBuilt, Spawned, Over, Untouched
<1>16. CASE UNCHANGED catalogue
  BY <1>12, <1>16 DEF catalogue
<1> QED
  BY <1>6, <1>7, <1>8, <1>9, <1>10, <1>11, <1>13, <1>14, <1>15, <1>16 DEF CatalogueNext

(***************************************************************************)
(* The theorems.                                                           *)
(***************************************************************************)
\* Whatever is uploaded and whoever spawns: the invariant holds.
LEMMA CatalogueInvariant == CatalogueSpec => []CatalogueInv
<1>1. CatalogueInit => CatalogueInv
  BY CatalogueStarts
<1>2. CatalogueInv /\ [CatalogueNext]_catalogue => CatalogueInv'
  BY CatalogueSteps
<1> QED
  BY <1>1, <1>2, PTL DEF CatalogueSpec

(***************************************************************************)
(* A workspace that the specific plugin of a pair the comments name knows  *)
(* is not built as an application of the general one, for any archives,    *)
(* until healing or an edit writes what a plugin looks for                 *)
(* (framework-detector.service.js:68).                                     *)
(***************************************************************************)
THEOREM SpecificIsFirst == CatalogueSpec => []SpecificFirst
<1>1. CatalogueInv => SpecificFirst
  <2> SUFFICES ASSUME CatalogueInv, outcome # "submitted", Untouched,
                      NEW p \in Precedes, detection.framework = p[2],
                      Detects(p[1], Dir(detection.dir))
               PROVE  FALSE
    BY DEF SpecificFirst
  <2> DEFINE d == Dir(detection.dir)
  <2>1. detection.framework = First(d).id
    BY DEF CatalogueInv, DetectionStands, Answers
  <2>2. d \in Directories
    BY DEF CatalogueInv, CatalogueTypes, Dir, Folders
  <2> HIDE DEF d
  <2>3. PICK i \in 1..49 : Ids[i] = p[1] /\ i \in Finds(d)
    <3>1. PICK q \in ToSet(PluginTable[d]) : q.id = p[1] /\ q.detects
      BY DEF Detects, d
    <3>2. PICK i \in DOMAIN PluginTable[d] : q = PluginTable[d][i]
      BY <3>1 DEF ToSet
    <3> QED
      BY <2>2, <3>1, <3>2, TableIs DEF Finds
  <2>4. PICK j \in 1..49 : First(d).id = Ids[j] /\ \A k \in Finds(d) : j <= k
    BY <2>2, <2>3, FirstIs
  <2>5. i < j
    BY <2>1, <2>3, <2>4, PairsInOrder
  <2>6. j <= i
    BY <2>3, <2>4
  <2> QED
    BY <2>5, <2>6
<1> QED
  BY <1>1, CatalogueInvariant, PTL

(***************************************************************************)
(* The pipeline spawns what it detected, and a manual start and a change   *)
(* of the port mount the directory that was built, with its framework      *)
(* (devops.controller.js:684): detection has one answer before and after   *)
(* the build, the packages healing adds included, as long as none of them  *)
(* is one a plugin looks for and nobody writes a marker file.              *)
(***************************************************************************)
THEOREM SpawnsFollowBuilds == CatalogueSpec => SpawnedAsBuilt
  BY CatalogueInvariant, CatalogueSteps, PTL DEF CatalogueSpec, SpawnedAsBuilt

(***************************************************************************)
(* The command of a preview of what was built runs a tool its image has,   *)
(* though image and command are looked up apart, on the two sides of the   *)
(* build (process-manager.service.js:662), with the same proviso.          *)
(***************************************************************************)
THEOREM CommandsFitImages == CatalogueSpec => []CommandFitsImage
<1>1. CatalogueInv => CommandFitsImage
  <2> SUFFICES ASSUME CatalogueInv, container.by \in {"pipeline", "user", "port"},
                      outcome = "deployed", Untouched
               PROVE  Command(container).tool \in Tools(Image(container))
    BY DEF CommandFitsImage
  <2> DEFINE d == Dir(detection.dir)
  <2>1. container # NoPreview
    BY DEF NoPreview
  <2>2. container.dir = detection.dir /\ container.framework = detection.framework
    BY <2>1 DEF CatalogueInv, PreviewsAgree, AsBuilt
  <2>3. detection.dir = Where(target) /\ Answers(detection, d)
    BY DEF CatalogueInv, DetectionStands
  <2>4. target \in Folders /\ CatalogueTypes /\ d \in Directories
    BY <2>3, WhereIs DEF CatalogueInv, CatalogueTypes
  <2>5. Compiles(First(d).build) /\ d.built
    BY <2>3 DEF CatalogueInv, DeployedIsBuilt, Answers
  <2>6. Command(container) = PluginOf(First(d).id, d).start
    BY <2>2, <2>3 DEF Command, Answers
  <2>7. Image(container) = First(d).preview
    <3>1. CASE detection.dir = ""
      <4>1. Where("") = ""
        BY <2>3, <2>4, <3>1, RootAlone
      <4>2. DetectFramework("").image = First(Dir("")).preview
        BY <4>1, DetectionIs DEF Answers
      <4> QED
        BY <2>2, <3>1, <4>2 DEF Image
    <3>2. CASE detection.dir # ""
      BY <2>2, <3>2 DEF Image, Detected
    <3> QED
      BY <3>1, <3>2
  <2> QED
    BY <2>4, <2>5, <2>6, <2>7, CommandsFit
<1> QED
  BY <1>1, CatalogueInvariant, PTL
=============================================================================
