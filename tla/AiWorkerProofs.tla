--------------------------- MODULE AiWorkerProofs ---------------------------
(***************************************************************************)
(* The AI worker for any number of emails, workers, attempts and digests,  *)
(* whatever jobs throw: mail marked as processed has been fanned out, a    *)
(* name from a header stays, and merged priorities are kept while nothing  *)
(* overlaps them.                                                          *)
(***************************************************************************)
EXTENDS AiWorker, FiniteSetTheorems, TLAPS

-----------------------------------------------------------------------------
(* Types *)

LEMMA JobTypes ==
  /\ \A k \in Kinds, e \in Emails \cup {NoEmail} : Job(k, e) \in Jobs
  /\ \A k \in Kinds, e \in Emails \cup {NoEmail} : Job(k, e).kind = k /\ Job(k, e).email = e
  /\ NoJob \in Jobs /\ Free \in Run
<1>1. 0 \in 0..Attempts /\ 1 \in 0..Attempts /\ Attempts \in 0..Attempts
  BY WorkerAssumption
<1>2. NoJob \in Jobs
  BY <1>1 DEF NoJob, Jobs, Kinds, Fanned
<1> QED
  BY <1>1, <1>2 DEF Job, Jobs, Free, Run, Pcs

\* What a worker does, field by field.
LEMMA RunFields ==
  ASSUME TypeOK, NEW w \in Workers
  PROVE  /\ run[w] \in Run /\ run[w].job \in Jobs /\ run[w].pc \in Pcs
         /\ run[w].todo \subseteq Fanned /\ run[w].list \subseteq Emails /\ run[w].found \in BOOLEAN
         /\ run[w].job.kind \in Kinds /\ Email(w) \in Emails \cup {NoEmail}
<1>1. run[w] \in Run
  BY DEF TypeOK
<1>2. run[w].job \in Jobs
  BY <1>1 DEF Run
<1> QED
  BY <1>1, <1>2 DEF Run, Jobs, Email

\* The email of a job in progress is stored.
LEMMA RunningIsStored ==
  ASSUME TypeOK, JobsStored, NEW w \in Workers, run[w].pc # "free", run[w].job.kind # "digest"
  PROVE  Email(w) \in stored /\ Email(w) \in Emails
  BY DEF TypeOK, JobsStored

LEMMA RunTypes ==
  ASSUME TypeOK, NEW w \in Workers
  PROVE  /\ Done(w) => run' \in [Workers -> Run]
         /\ \A p \in Pcs : GoTo(w, p) => run' \in [Workers -> Run]
<1>1. Free \in Run
  BY JobTypes
<1>2. ASSUME NEW p \in Pcs PROVE [run[w] EXCEPT !.pc = p] \in Run
  BY RunFields DEF Run
<1> QED
  BY <1>1, <1>2 DEF Done, GoTo, TypeOK

LEMMA AddTypes ==
  ASSUME TypeOK, NEW j \in Jobs, Add(j)
  PROVE  jobs' \in [Jobs -> Nat]
  BY DEF Add, TypeOK

LEMMA TypeInit == Init => TypeOK
<1> SUFFICES ASSUME Init PROVE TypeOK
  OBVIOUS
<1>1. run \in [Workers -> Run]
  BY JobTypes DEF Init
<1>2. digests \in 0..MaxDigests /\ faults \in 0..MaxFaults
  BY WorkerAssumption DEF Init
<1> QED
  BY <1>1, <1>2 DEF Init, TypeOK

LEMMA TypeStep == TypeOK /\ JobsStored /\ [Next]_vars => TypeOK'
<1> SUFFICES ASSUME TypeOK, JobsStored, [Next]_vars PROVE TypeOK'
  OBVIOUS
<1> USE DEF mail, queue, priorities, history
<1>1. ASSUME NEW e \in Emails, NameSender(e) PROVE TypeOK'
  BY <1>1 DEF NameSender, TypeOK
<1>2. ASSUME NEW e \in Emails, StoreEmail(e) PROVE TypeOK'
<2>1. jobs' \in [Jobs -> Nat]
  BY <1>2, JobTypes, AddTypes DEF StoreEmail, Kinds
<2> QED
  BY <1>2, <2>1 DEF StoreEmail, TypeOK
<1>3. ASSUME RequestDigest PROVE TypeOK'
<2>1. jobs' \in [Jobs -> Nat]
  BY <1>3, JobTypes, AddTypes DEF RequestDigest, Kinds
<2>2. digests' \in 0..MaxDigests
  BY <1>3, WorkerAssumption DEF RequestDigest, TypeOK
<2> QED
  BY <1>3, <2>1, <2>2 DEF RequestDigest, TypeOK
<1>4. ASSUME NEW w \in Workers, NEW j \in Jobs, TakeJob(w, j) PROVE TypeOK'
<2>1. [Free EXCEPT !.pc = "start", !.job = j] \in Run
  BY JobTypes DEF Free, Run, Pcs
<2>2. run' \in [Workers -> Run]
  BY <1>4, <2>1 DEF TakeJob, TypeOK
<2>3. jobs' \in [Jobs -> Nat]
  BY <1>4 DEF TakeJob, TypeOK
<2>4. tried' \in [Emails -> Nat]
  <3>1. CASE j.kind = "ingest"
    <4>1. j.email \in Emails
      BY <1>4, <3>1 DEF TakeJob, JobsStored, TypeOK
    <4> QED
      BY <1>4, <3>1, <4>1 DEF TakeJob, TypeOK
  <3>2. CASE j.kind # "ingest"
    BY <1>4, <3>2 DEF TakeJob, TypeOK
  <3> QED
    BY <3>1, <3>2
<2> QED
  BY <1>4, <2>2, <2>3, <2>4 DEF TakeJob, TypeOK
<1>5. ASSUME NEW w \in Workers, JobFails(w) PROVE TypeOK'
<2>1. run' \in [Workers -> Run]
  BY <1>5, RunTypes DEF JobFails
<2>2. run[w].job.left > 1 => [run[w].job EXCEPT !.left = @ - 1] \in Jobs
  BY RunFields, WorkerAssumption DEF Jobs
<2>3. jobs' \in [Jobs -> Nat]
  BY <1>5, <2>2 DEF JobFails, TypeOK
<2>4. faults' \in 0..MaxFaults
  BY <1>5, WorkerAssumption DEF JobFails, TypeOK
<2> QED
  BY <1>5, <2>1, <2>3, <2>4 DEF JobFails, TypeOK
<1>6. ASSUME NEW w \in Workers, IngestStart(w) PROVE TypeOK'
<2>1. [run[w] EXCEPT !.pc = "fan", !.todo = Fanned] \in Run
  BY RunFields DEF Run, Pcs
<2>2. run' \in [Workers -> Run]
  BY <1>6, <2>1, RunTypes DEF IngestStart, TypeOK
<2> QED
  BY <1>6, <2>2 DEF IngestStart, TypeOK
<1>7. ASSUME NEW w \in Workers, NEW k \in Fanned, FanOut(w, k) PROVE TypeOK'
<2>1. Email(w) \in Emails
  BY <1>7, RunningIsStored DEF FanOut, At
<2>2. jobs' \in [Jobs -> Nat]
  BY <1>7, <2>1, JobTypes, AddTypes DEF FanOut, Kinds
<2>3. [run[w] EXCEPT !.todo = @ \ {k}, !.pc = IF run[w].todo = {k} THEN "name" ELSE "fan"] \in Run
  BY RunFields DEF Run, Pcs
<2>4. run' \in [Workers -> Run]
  BY <1>7, <2>3 DEF FanOut, TypeOK
<2>5. added' \in [Fanned \X Emails -> Nat]
  BY <1>7, <2>1 DEF FanOut, TypeOK
<2> QED
  BY <1>7, <2>2, <2>4, <2>5 DEF FanOut, TypeOK
<1>8. ASSUME NEW w \in Workers, AskName(w) PROVE TypeOK'
<2>1. Email(w) \in Emails
  BY <1>8, RunningIsStored DEF AskName, At
<2>2. jobs' \in [Jobs -> Nat] /\ derive' \in {"none", "known"}
  BY <1>8, <2>1, JobTypes, AddTypes DEF AskName, Kinds, TypeOK
<2>3. run' \in [Workers -> Run]
  BY <1>8, RunTypes DEF AskName, Pcs
<2> QED
  BY <1>8, <2>2, <2>3 DEF AskName, TypeOK
<1>9. ASSUME NEW w \in Workers, MarkProcessed(w) PROVE TypeOK'
<2>1. Email(w) \in stored
  BY <1>9, RunningIsStored DEF MarkProcessed, At
<2>2. run' \in [Workers -> Run]
  BY <1>9, RunTypes DEF MarkProcessed
<2> QED
  BY <1>9, <2>1, <2>2 DEF MarkProcessed, TypeOK
<1>10. ASSUME NEW w \in Workers, DeriveLookup(w) PROVE TypeOK'
<2>1. run' \in [Workers -> Run]
  BY <1>10, RunTypes DEF DeriveLookup, Pcs, TypeOK
<2> QED
  BY <1>10, <2>1 DEF DeriveLookup, TypeOK
<1>11. ASSUME NEW w \in Workers, DeriveUpsert(w) PROVE TypeOK'
<2>1. run' \in [Workers -> Run]
  BY <1>11, RunTypes DEF DeriveUpsert, Pcs
<2> QED
  BY <1>11, <2>1 DEF DeriveUpsert, UpsertSender, TypeOK
<1>12. ASSUME NEW w \in Workers, DeriveApply(w) PROVE TypeOK'
<2>1. run' \in [Workers -> Run]
  BY <1>12, RunTypes DEF DeriveApply
<2> QED
  BY <1>12, <2>1 DEF DeriveApply, TypeOK
<1>13. ASSUME NEW w \in Workers, Enrich(w) PROVE TypeOK'
<2>1. run' \in [Workers -> Run]
  BY <1>13, RunTypes DEF Enrich
<2> QED
  BY <1>13, <2>1 DEF Enrich, TypeOK
<1>14. ASSUME NEW w \in Workers, Classify(w) PROVE TypeOK'
<2>1. Email(w) \in stored
  BY <1>14, RunningIsStored DEF Classify, At
<2>2. run' \in [Workers -> Run]
  BY <1>14, RunTypes DEF Classify, Pcs
<2> QED
  BY <1>14, <2>1, <2>2 DEF Classify, TypeOK
<1>15. ASSUME NEW w \in Workers, MergeRead(w) PROVE TypeOK'
<2>1. [run[w] EXCEPT !.pc = "write", !.list = digest] \in Run
  BY RunFields DEF Run, Pcs, TypeOK
<2>2. run' \in [Workers -> Run]
  BY <1>15, <2>1, RunTypes DEF MergeRead, TypeOK
<2>3. crossed' \in BOOLEAN
  BY <1>15 DEF MergeRead
<2> QED
  BY <1>15, <2>2, <2>3 DEF MergeRead, TypeOK
<1>16. ASSUME NEW w \in Workers, MergeWrite(w) PROVE TypeOK'
<2>1. Email(w) \in Emails
  BY <1>16, RunningIsStored DEF MergeWrite, At
<2>2. run' \in [Workers -> Run]
  BY <1>16, RunTypes DEF MergeWrite
<2>3. digest' \subseteq Emails
  BY <1>16, <2>1, RunFields DEF MergeWrite, TopOf
<2> QED
  BY <1>16, <2>1, <2>2, <2>3 DEF MergeWrite, TypeOK
<1>17. ASSUME NEW w \in Workers, DigestRead(w) PROVE TypeOK'
<2>1. stored \subseteq Emails
  BY DEF TypeOK
<2>2. [run[w] EXCEPT !.pc = "write", !.list = stored] \in Run
  BY <2>1, RunFields DEF Run, Pcs
<2>3. run' \in [Workers -> Run]
  BY <1>17, <2>2 DEF DigestRead, TypeOK
<2>4. crossed' \in BOOLEAN
  BY <1>17 DEF DigestRead
<2> QED
  BY <1>17, <2>3, <2>4 DEF DigestRead, TypeOK
<1>18. ASSUME NEW w \in Workers, DigestWrite(w) PROVE TypeOK'
<2>1. run' \in [Workers -> Run]
  BY <1>18, RunTypes DEF DigestWrite
<2>2. digest' \subseteq Emails
  BY <1>18, RunFields DEF DigestWrite
<2> QED
  BY <1>18, <2>1, <2>2 DEF DigestWrite, TypeOK
<1>19. CASE UNCHANGED vars
  BY <1>19 DEF vars, TypeOK
<1> QED
  BY <1>1, <1>2, <1>3, <1>4, <1>5, <1>6, <1>7, <1>8, <1>9, <1>10, <1>11, <1>12, <1>13, <1>14,
     <1>15, <1>16, <1>17, <1>18, <1>19 DEF Next, WorkerStep, IngestStep

-----------------------------------------------------------------------------
(* Jobs are about stored mail, and one ingest job about each *)

\* No worker takes up a job, though some may drop theirs.
KeepsJobs ==
  \A v \in Workers : run'[v].pc = "free" \/ (run[v].pc # "free" /\ run'[v].job = run[v].job)

LEMMA FreeIsFree == Free.pc = "free" /\ Free.job.kind = "digest"
  BY DEF Free, NoJob

\* Every step of a worker keeps its job or ends it, and nobody else's.
LEMMA WorkersKeep ==
  ASSUME TypeOK, NEW w \in Workers, WorkerStep(w) \/ JobFails(w)
  PROVE  KeepsJobs
<1> USE FreeIsFree DEF KeepsJobs, TypeOK
<1>1. \A v \in Workers : run[v] \in Run
  OBVIOUS
<1>2. ASSUME NEW p \in Pcs, GoTo(w, p), run[w].pc # "free" PROVE KeepsJobs
  BY <1>1, <1>2 DEF GoTo, Run
<1>3. ASSUME Done(w) PROVE \A v \in Workers : run'[v] = run[v] \/ run'[v].pc = "free"
  BY <1>3 DEF Done
<1>4. ASSUME NEW r \in Run, r.job = run[w].job, run' = [run EXCEPT ![w] = r], run[w].pc # "free"
      PROVE  KeepsJobs
  BY <1>4
<1>5. ASSUME IngestStart(w) PROVE KeepsJobs \/ Done(w)
<2>1. [run[w] EXCEPT !.pc = "fan", !.todo = Fanned] \in Run
  BY RunFields DEF Run, Pcs
<2>2. [run[w] EXCEPT !.pc = "fan", !.todo = Fanned].job = run[w].job
  BY RunFields DEF Run
<2> QED
  BY <1>4, <1>5, <2>1, <2>2 DEF IngestStart, At
<1>6. ASSUME NEW k \in Fanned, FanOut(w, k) PROVE KeepsJobs
<2>1. [run[w] EXCEPT !.todo = @ \ {k}, !.pc = IF run[w].todo = {k} THEN "name" ELSE "fan"] \in Run
  BY RunFields DEF Run, Pcs
<2>2. [run[w] EXCEPT !.todo = @ \ {k}, !.pc = IF run[w].todo = {k} THEN "name" ELSE "fan"].job = run[w].job
  BY RunFields DEF Run
<2> QED
  BY <1>4, <1>6, <2>1, <2>2 DEF FanOut, At
<1>7. ASSUME AskName(w) PROVE KeepsJobs
  BY <1>2, <1>7 DEF AskName, At, Pcs
<1>8. ASSUME DeriveLookup(w) \/ DeriveUpsert(w) \/ Classify(w) PROVE KeepsJobs \/ Done(w)
  BY <1>2, <1>8 DEF DeriveLookup, DeriveUpsert, Classify, At, Pcs
<1>9. ASSUME MergeRead(w) PROVE KeepsJobs \/ Done(w)
<2>1. [run[w] EXCEPT !.pc = "write", !.list = digest] \in Run
  BY RunFields DEF Run, Pcs
<2>2. [run[w] EXCEPT !.pc = "write", !.list = digest].job = run[w].job
  BY RunFields DEF Run
<2> QED
  BY <1>4, <1>9, <2>1, <2>2 DEF MergeRead, At
<1>10. ASSUME DigestRead(w) PROVE KeepsJobs
<2>1. [run[w] EXCEPT !.pc = "write", !.list = stored] \in Run
  BY RunFields DEF Run, Pcs
<2>2. [run[w] EXCEPT !.pc = "write", !.list = stored].job = run[w].job
  BY RunFields DEF Run
<2> QED
  BY <1>4, <1>10, <2>1, <2>2 DEF DigestRead, At
<1>11. ASSUME JobFails(w) \/ MarkProcessed(w) \/ DeriveApply(w) \/ Enrich(w) \/ MergeWrite(w) \/ DigestWrite(w)
       PROVE  Done(w)
  BY <1>11 DEF JobFails, MarkProcessed, DeriveApply, Enrich, MergeWrite, DigestWrite
<1>12. ASSUME Done(w) PROVE KeepsJobs
  BY <1>3, <1>12
<1> QED
  BY <1>5, <1>6, <1>7, <1>8, <1>9, <1>10, <1>11, <1>12 DEF WorkerStep, IngestStep

LEMMA StoredStep == TypeOK /\ JobsStored /\ [Next]_vars => JobsStored'
<1> SUFFICES ASSUME TypeOK, JobsStored, [Next]_vars PROVE JobsStored'
  OBVIOUS
<1> USE DEF mail, queue, priorities, history
<1>1. stored \subseteq stored'
  BY DEF Next, WorkerStep, IngestStep, NameSender, StoreEmail, RequestDigest, TakeJob, JobFails,
         IngestStart, FanOut, AskName, MarkProcessed, DeriveLookup, DeriveUpsert, DeriveApply,
         Enrich, Classify, MergeRead, MergeWrite, DigestRead, DigestWrite, vars
<1>2. ASSUME \A j \in Jobs : jobs'[j] > 0 /\ j.kind # "digest" => jobs[j] > 0 \/ j.email \in stored',
             KeepsJobs \/ UNCHANGED run
      PROVE  JobsStored'
  BY <1>1, <1>2 DEF JobsStored, KeepsJobs, Email
<1>3. ASSUME NEW j \in Jobs, Add(j), j.kind # "digest" => j.email \in stored', KeepsJobs \/ UNCHANGED run
      PROVE  JobsStored'
  BY <1>2, <1>3 DEF Add, TypeOK
<1>4. ASSUME UNCHANGED jobs, KeepsJobs \/ UNCHANGED run PROVE JobsStored'
  BY <1>2, <1>4
<1>5. ASSUME NEW e \in Emails, NameSender(e) PROVE JobsStored'
  BY <1>5, <1>4 DEF NameSender
<1>6. ASSUME NEW e \in Emails, StoreEmail(e) PROVE JobsStored'
  BY <1>6, <1>3, JobTypes DEF StoreEmail, Kinds
<1>7. ASSUME RequestDigest PROVE JobsStored'
  BY <1>7, <1>3, JobTypes DEF RequestDigest, Kinds
<1>8. ASSUME NEW w \in Workers, NEW j \in Jobs, TakeJob(w, j) PROVE JobsStored'
<2>1. \A i \in Jobs : jobs'[i] > 0 => jobs[i] > 0
  BY <1>8 DEF TakeJob, TypeOK
<2>2. \A v \in Workers : run'[v] = run[v] \/ run'[v].job = j
  BY <1>8 DEF TakeJob, TypeOK
<2> QED
  BY <1>1, <1>8, <2>1, <2>2 DEF TakeJob, JobsStored, Email
<1>9. ASSUME NEW w \in Workers, JobFails(w) PROVE JobsStored'
<2>1. run[w].job \in Jobs /\ (run[w].job.left > 1 => [run[w].job EXCEPT !.left = @ - 1] \in Jobs)
  BY RunFields, WorkerAssumption DEF Jobs
<2>2. ASSUME run[w].job.left > 1
      PROVE  /\ [run[w].job EXCEPT !.left = @ - 1].kind = run[w].job.kind
             /\ [run[w].job EXCEPT !.left = @ - 1].email = run[w].job.email
  BY <2>1 DEF Jobs
<2>3. run[w].job.kind # "digest" => run[w].job.email \in stored'
  BY <1>1, <1>9 DEF JobsStored, JobFails, Email
<2> QED
  BY <1>2, <1>9, <2>1, <2>2, <2>3, WorkersKeep DEF JobFails, TypeOK
<1>10. ASSUME NEW w \in Workers, NEW k \in Fanned, FanOut(w, k) PROVE JobsStored'
<2>1. Email(w) \in stored /\ Email(w) \in Emails
  BY <1>10, RunningIsStored DEF FanOut, At
<2>2. KeepsJobs
  BY <1>10, WorkersKeep DEF WorkerStep, IngestStep
<2>3. Job(k, Email(w)) \in Jobs /\ Job(k, Email(w)).email = Email(w)
  BY <2>1, JobTypes DEF Kinds
<2> QED
  BY <1>1, <1>3, <1>10, <2>1, <2>2, <2>3 DEF FanOut
<1>11. ASSUME NEW w \in Workers, AskName(w) PROVE JobsStored'
<2>1. Email(w) \in stored /\ Email(w) \in Emails
  BY <1>11, RunningIsStored DEF AskName, At
<2> QED
  BY <1>1, <1>3, <1>4, <1>11, <2>1, JobTypes, WorkersKeep DEF AskName, WorkerStep, IngestStep, Kinds
<1>12. ASSUME NEW w \in Workers, WorkerStep(w), UNCHANGED jobs PROVE JobsStored'
  BY <1>4, <1>12, WorkersKeep
<1>13. ASSUME NEW w \in Workers, WorkerStep(w) PROVE JobsStored'
  BY <1>10, <1>11, <1>12, <1>13
     DEF WorkerStep, IngestStep, IngestStart, MarkProcessed, DeriveLookup, DeriveUpsert,
         DeriveApply, Enrich, Classify, MergeRead, MergeWrite, DigestRead, DigestWrite
<1>14. CASE UNCHANGED vars
  BY <1>4, <1>14 DEF vars
<1> QED
  BY <1>5, <1>6, <1>7, <1>8, <1>9, <1>13, <1>14 DEF Next

\* A worker adds no ingest job.
LEMMA WorkersAddNoIngest ==
  ASSUME TypeOK, JobsStored, NEW w \in Workers, WorkerStep(w), NEW e \in Emails, NEW j \in IngestsOf(e)
  PROVE  jobs'[j] = jobs[j]
<1> USE DEF mail, queue, priorities, history
<1>1. ASSUME NEW k \in Fanned, FanOut(w, k) PROVE jobs'[j] = jobs[j]
<2>1. Email(w) \in Emails
  BY <1>1, RunningIsStored DEF FanOut, At
<2>2. Job(k, Email(w)).kind # "ingest"
  BY <2>1, JobTypes DEF Kinds, Fanned
<2> QED
  BY <1>1, <2>2 DEF FanOut, Add, IngestsOf, TypeOK
<1>2. ASSUME AskName(w) PROVE jobs'[j] = jobs[j]
<2>1. Email(w) \in Emails
  BY <1>2, RunningIsStored DEF AskName, At
<2>2. Job("derive", Email(w)).kind # "ingest"
  BY <2>1, JobTypes DEF Kinds
<2> QED
  BY <1>2, <2>2 DEF AskName, Add, IngestsOf, TypeOK
<1>3. ASSUME UNCHANGED jobs PROVE jobs'[j] = jobs[j]
  BY <1>3
<1> QED
  BY <1>1, <1>2, <1>3
     DEF WorkerStep, IngestStep, IngestStart, MarkProcessed, DeriveLookup, DeriveUpsert,
         DeriveApply, Enrich, Classify, MergeRead, MergeWrite, DigestRead, DigestWrite

LEMMA OneIngestStep == TypeOK /\ JobsStored /\ OneIngest /\ [Next]_vars => OneIngest'
<1> SUFFICES ASSUME TypeOK, JobsStored, OneIngest, [Next]_vars PROVE OneIngest'
  OBVIOUS
<1> USE DEF mail, queue, priorities, history
<1>1. ASSUME \A e \in Emails : \A j \in IngestsOf(e) : jobs'[j] = jobs[j], KeepsJobs \/ UNCHANGED run
      PROVE  OneIngest'
<2>1. \A v \in Workers, e \in Emails : Ingesting(v, e)' => Ingesting(v, e)
  BY <1>1 DEF KeepsJobs, Ingesting, Email
<2> QED
  BY <1>1, <2>1 DEF OneIngest
<1>2. ASSUME NEW e \in Emails, NameSender(e) PROVE OneIngest'
  BY <1>1, <1>2 DEF NameSender
<1>3. ASSUME NEW e \in Emails, StoreEmail(e) PROVE OneIngest'
<2>1. \A j \in IngestsOf(e) : jobs[j] = 0
  BY <1>3 DEF IngestsOf, JobsStored, StoreEmail, TypeOK
<2>2. \A w \in Workers : ~Ingesting(w, e)
  BY <1>3 DEF Ingesting, JobsStored, StoreEmail
<2>3. Job("ingest", e) \in Jobs /\ Job("ingest", e).email = e /\ Job("ingest", e).kind = "ingest"
  BY JobTypes DEF Kinds
<2>4. \A j \in Jobs : jobs'[j] = IF j = Job("ingest", e) THEN jobs[j] + 1 ELSE jobs[j]
  BY <1>3, <2>3 DEF StoreEmail, Add, TypeOK
<2>5. \A w \in Workers, o \in Emails : Ingesting(w, o)' = Ingesting(w, o)
  BY <1>3 DEF StoreEmail, Ingesting, Email
<2>6. \A j \in IngestsOf(e) : jobs'[j] = IF j = Job("ingest", e) THEN 1 ELSE 0
  BY <2>1, <2>4 DEF IngestsOf
<2>7. \A o \in Emails \ {e} : \A j \in IngestsOf(o) : jobs'[j] = jobs[j]
  BY <2>3, <2>4 DEF IngestsOf
<2>8. ASSUME NEW o \in Emails
      PROVE  /\ \A i, j \in IngestsOf(o) : jobs'[i] <= 1 /\ (jobs'[i] > 0 /\ jobs'[j] > 0 => i = j)
             /\ \A w \in Workers : Ingesting(w, o) =>
                  (\A v \in Workers : Ingesting(v, o) => v = w) /\ \A j \in IngestsOf(o) : jobs'[j] = 0
  <3>1. CASE o = e
    BY <3>1, <2>2, <2>6
  <3>2. CASE o # e
    BY <3>2, <2>7 DEF OneIngest
  <3> QED
    BY <3>1, <3>2
<2> QED
  BY <2>5, <2>8 DEF OneIngest, IngestsOf
<1>4. ASSUME RequestDigest PROVE OneIngest'
<2>1. Job("digest", NoEmail).kind # "ingest"
  BY JobTypes DEF Kinds
<2> QED
  BY <1>1, <1>4, <2>1 DEF RequestDigest, Add, IngestsOf, TypeOK
<1>5. ASSUME NEW w \in Workers, NEW j \in Jobs, TakeJob(w, j) PROVE OneIngest'
<2>1. \A i \in Jobs : jobs'[i] = IF i = j THEN jobs[i] - 1 ELSE jobs[i]
  BY <1>5 DEF TakeJob, TypeOK
<2>2. /\ run'[w].pc = "start" /\ run'[w].job = j /\ run[w].pc = "free"
      /\ \A v \in Workers \ {w} : run'[v] = run[v]
  BY <1>5, JobTypes DEF TakeJob, TypeOK, Free
<2>3. \A v \in Workers \ {w}, o \in Emails : Ingesting(v, o)' = Ingesting(v, o)
  BY <2>2 DEF Ingesting, Email
<2>4. \A o \in Emails : Ingesting(w, o)' <=> j \in IngestsOf(o)
  BY <2>2 DEF Ingesting, Email, IngestsOf
<2>5. ASSUME NEW o \in Emails, j \in IngestsOf(o)
      PROVE  /\ \A v \in Workers : ~Ingesting(v, o)
             /\ \A i \in IngestsOf(o) : jobs'[i] = 0
  <3>1. jobs[j] = 1 /\ \A i \in IngestsOf(o) \ {j} : jobs[i] = 0
    BY <1>5, <2>5 DEF TakeJob, OneIngest, IngestsOf, TypeOK
  <3> QED
    BY <2>1, <2>5, <3>1 DEF OneIngest, IngestsOf
<2>6. \A o \in Emails : j \notin IngestsOf(o) => \A i \in IngestsOf(o) : jobs'[i] = jobs[i]
  BY <2>1 DEF IngestsOf
<2>7. ASSUME NEW o \in Emails
      PROVE  /\ \A i, k \in IngestsOf(o) : jobs'[i] <= 1 /\ (jobs'[i] > 0 /\ jobs'[k] > 0 => i = k)
             /\ \A u \in Workers : Ingesting(u, o)' =>
                  (\A v \in Workers : Ingesting(v, o)' => v = u) /\ \A i \in IngestsOf(o) : jobs'[i] = 0
  <3>1. CASE j \in IngestsOf(o)
    BY <3>1, <2>3, <2>5
  <3>2. CASE j \notin IngestsOf(o)
    BY <3>2, <2>3, <2>4, <2>6 DEF OneIngest
  <3> QED
    BY <3>1, <3>2
<2> QED
  BY <2>7 DEF OneIngest, IngestsOf
<1>6. ASSUME NEW w \in Workers, JobFails(w) PROVE OneIngest'
<2> DEFINE j == run[w].job
           i == [j EXCEPT !.left = @ - 1]
<2>1. j \in Jobs /\ (j.left > 1 => i \in Jobs /\ i.kind = j.kind /\ i.email = j.email)
  BY RunFields, WorkerAssumption DEF Jobs
<2>2. KeepsJobs /\ run'[w].pc = "free"
  BY <1>6, WorkersKeep, FreeIsFree DEF JobFails, Done, TypeOK
<2>3. \A v \in Workers, o \in Emails : Ingesting(v, o)' => Ingesting(v, o) /\ v # w
  BY <2>2 DEF KeepsJobs, Ingesting, Email
<2>4. \A k \in Jobs : jobs'[k] = IF j.left > 1 /\ k = i THEN jobs[k] + 1 ELSE jobs[k]
  BY <1>6, <2>1 DEF JobFails, TypeOK
<2> HIDE DEF i
<2>5. ASSUME NEW o \in Emails
      PROVE  /\ \A k, l \in IngestsOf(o) : jobs'[k] <= 1 /\ (jobs'[k] > 0 /\ jobs'[l] > 0 => k = l)
             /\ \A u \in Workers : Ingesting(u, o)' =>
                  (\A v \in Workers : Ingesting(v, o)' => v = u) /\ \A k \in IngestsOf(o) : jobs'[k] = 0
  <3>1. CASE j.kind = "ingest" /\ j.email = o
    <4>1. Ingesting(w, o)
      BY <1>6, <3>1 DEF JobFails, Ingesting, Email
    <4>2. \A k \in IngestsOf(o) : jobs[k] = 0
      BY <4>1 DEF OneIngest
    <4>3. \A v \in Workers : ~Ingesting(v, o)'
      BY <2>3, <4>1 DEF OneIngest
    <4> QED
      BY <2>4, <4>2, <4>3 DEF IngestsOf
  <3>2. CASE ~(j.kind = "ingest" /\ j.email = o)
    <4>1. \A k \in IngestsOf(o) : jobs'[k] = jobs[k]
      BY <2>1, <2>4, <3>2 DEF IngestsOf
    <4> QED
      BY <2>3, <4>1 DEF OneIngest
  <3> QED
    BY <3>1, <3>2
<2> QED
  BY <2>5 DEF OneIngest, IngestsOf
<1>7. ASSUME NEW w \in Workers, WorkerStep(w) PROVE OneIngest'
  BY <1>1, <1>7, WorkersKeep, WorkersAddNoIngest
<1>8. CASE UNCHANGED vars
  BY <1>1, <1>8 DEF vars
<1> QED
  BY <1>2, <1>3, <1>4, <1>5, <1>6, <1>7, <1>8 DEF Next

-----------------------------------------------------------------------------
(* Fan-out *)

FanOutInv == FannedSoFar /\ FannedOut

LEMMA FannedStep ==
  TypeOK /\ JobsStored /\ OneIngest /\ FanOutInv /\ [Next]_vars => FanOutInv'
<1> SUFFICES ASSUME TypeOK, JobsStored, OneIngest, FanOutInv, [Next]_vars PROVE FanOutInv'
  OBVIOUS
<1> USE DEF mail, queue, priorities, history
<1>0. \A k \in Fanned, e \in Emails : added[<<k, e>>] \in Nat /\ tried[e] \in Nat
  BY DEF TypeOK
\* A step that is not one of an ingest attempt.
<1>1. ASSUME UNCHANGED <<added, tried, processed>>,
             \A v \in Workers : run'[v] = run[v] \/ run'[v].pc = "free" \/ run'[v].job.kind # "ingest"
      PROVE  FanOutInv'
  BY <1>1 DEF FanOutInv, FannedSoFar, FannedOut, Ingesting, Email
<1>2. ASSUME NEW e \in Emails, NameSender(e) \/ StoreEmail(e) PROVE FanOutInv'
  BY <1>1, <1>2 DEF NameSender, StoreEmail
<1>3. ASSUME RequestDigest PROVE FanOutInv'
  BY <1>1, <1>3 DEF RequestDigest
<1>4. ASSUME NEW w \in Workers, NEW j \in Jobs, TakeJob(w, j) PROVE FanOutInv'
<2>1. /\ run'[w].pc = "start" /\ run'[w].job = j
      /\ \A v \in Workers \ {w} : run'[v] = run[v]
  BY <1>4, JobTypes DEF TakeJob, TypeOK, Free
<2>2. CASE j.kind # "ingest"
  BY <1>1, <1>4, <2>1, <2>2 DEF TakeJob
<2>3. CASE j.kind = "ingest"
  <3>1. j.email \in Emails
    BY <1>4, <2>3 DEF TakeJob, JobsStored, TypeOK
  <3>2. \A e \in Emails : tried'[e] = IF e = j.email THEN tried[e] + 1 ELSE tried[e]
    BY <1>4, <2>3, <3>1 DEF TakeJob, TypeOK
  <3>3. UNCHANGED <<added, processed>>
    BY <1>4 DEF TakeJob
  <3>4. FannedOut'
    <4>1. ASSUME NEW e \in Emails, NEW k \in Fanned PROVE added[<<k, e>>] <= tried'[e]
      BY <1>0, <3>2 DEF FanOutInv, FannedOut
    <4> QED
      BY <3>3, <4>1 DEF FanOutInv, FannedOut
  <3>5. ASSUME NEW v \in Workers, NEW e \in Emails, NEW k \in Fanned, Ingesting(v, e)'
        PROVE  /\ run'[v].pc = "start" \/ (run'[v].pc = "fan" /\ k \in run'[v].todo)
                    => added'[<<k, e>>] < tried'[e]
               /\ run'[v].pc \in {"name", "mark"} \/ (run'[v].pc = "fan" /\ k \notin run'[v].todo)
                    => added'[<<k, e>>] > 0
    <4>1. CASE v = w
      <5>1. e = j.email
        BY <2>1, <3>5, <4>1 DEF Ingesting, Email
      <5> QED
        BY <1>0, <2>1, <3>2, <3>3, <4>1, <5>1 DEF FanOutInv, FannedOut
    <4>2. CASE v # w
      <5>1. Ingesting(v, e)
        BY <2>1, <3>5, <4>2 DEF Ingesting, Email
      <5> QED
        BY <1>0, <2>1, <3>2, <3>3, <4>2, <5>1 DEF FanOutInv, FannedSoFar
    <4> QED
      BY <4>1, <4>2
  <3> QED
    BY <3>4, <3>5 DEF FanOutInv, FannedSoFar
<2> QED
  BY <2>2, <2>3
<1>5. ASSUME NEW w \in Workers, JobFails(w) PROVE FanOutInv'
  BY <1>1, <1>5, FreeIsFree DEF JobFails, Done, TypeOK
<1>6. ASSUME NEW w \in Workers, IngestStart(w) PROVE FanOutInv'
<2>1. CASE Done(w)
  BY <1>1, <1>6, <2>1, FreeIsFree DEF IngestStart, Done, TypeOK
<2>2. CASE ~Done(w)
  <3>1. /\ \A v \in Workers \ {w} : run'[v] = run[v]
        /\ run'[w].pc = "fan" /\ run'[w].todo = Fanned /\ run'[w].job = run[w].job /\ run[w].pc = "start"
    <4>1. run' = [run EXCEPT ![w].pc = "fan", ![w].todo = Fanned]
      BY <1>6, <2>2 DEF IngestStart
    <4>2. run'[w] = [run[w] EXCEPT !.pc = "fan", !.todo = Fanned]
      BY <4>1 DEF TypeOK
    <4> QED
      BY <1>6, <4>1, <4>2, RunFields DEF IngestStart, At, TypeOK, Run
  <3>2. \A v \in Workers, e \in Emails : Ingesting(v, e)' = Ingesting(v, e)
    BY <3>1 DEF Ingesting, Email
  <3>3. UNCHANGED <<added, tried, processed>>
    BY <1>6 DEF IngestStart
  <3>4. ASSUME NEW v \in Workers, NEW e \in Emails, NEW k \in Fanned, Ingesting(v, e)
        PROVE  /\ run'[v].pc = "start" \/ (run'[v].pc = "fan" /\ k \in run'[v].todo)
                    => added[<<k, e>>] < tried[e]
               /\ run'[v].pc \in {"name", "mark"} \/ (run'[v].pc = "fan" /\ k \notin run'[v].todo)
                    => added[<<k, e>>] > 0
    BY <3>1, <3>4 DEF FanOutInv, FannedSoFar
  <3> QED
    BY <3>2, <3>3, <3>4 DEF FanOutInv, FannedSoFar, FannedOut
<2> QED
  BY <2>1, <2>2
<1>7. ASSUME NEW w \in Workers, NEW k \in Fanned, FanOut(w, k) PROVE FanOutInv'
<2>1. Email(w) \in Emails /\ Ingesting(w, Email(w))
  BY <1>7, RunningIsStored DEF FanOut, At, Ingesting
<2>2. /\ \A v \in Workers \ {w} : run'[v] = run[v]
      /\ run'[w].job = run[w].job /\ run'[w].todo = run[w].todo \ {k}
      /\ run'[w].pc = IF run[w].todo = {k} THEN "name" ELSE "fan"
      /\ run[w].pc = "fan" /\ k \in run[w].todo
  <3>1. run'[w] = [run[w] EXCEPT !.todo = @ \ {k}, !.pc = IF run[w].todo = {k} THEN "name" ELSE "fan"]
    BY <1>7 DEF FanOut, TypeOK
  <3> QED
    BY <1>7, <3>1, RunFields DEF FanOut, At, TypeOK, Run
<2>3. \A v \in Workers, e \in Emails : Ingesting(v, e)' = Ingesting(v, e)
  BY <2>2 DEF Ingesting, Email
<2>4. \A l \in Fanned, e \in Emails :
        added'[<<l, e>>] = IF l = k /\ e = Email(w) THEN added[<<l, e>>] + 1 ELSE added[<<l, e>>]
  BY <1>7, <2>1 DEF FanOut, TypeOK
<2>5. UNCHANGED <<tried, processed>>
  BY <1>7 DEF FanOut
<2>6. added[<<k, Email(w)>>] < tried[Email(w)]
  BY <2>1, <2>2 DEF FanOutInv, FannedSoFar
<2>7. FannedOut'
  <3>1. ASSUME NEW e \in Emails, NEW l \in Fanned
        PROVE  added'[<<l, e>>] <= tried[e] /\ (e \in processed => added'[<<l, e>>] > 0)
    BY <1>0, <2>1, <2>4, <2>6 DEF FanOutInv, FannedOut
  <3> QED
    BY <2>5, <3>1 DEF FannedOut
<2>8. ASSUME NEW v \in Workers, NEW e \in Emails, NEW l \in Fanned, Ingesting(v, e)
      PROVE  /\ run'[v].pc = "start" \/ (run'[v].pc = "fan" /\ l \in run'[v].todo)
                  => added'[<<l, e>>] < tried[e]
             /\ run'[v].pc \in {"name", "mark"} \/ (run'[v].pc = "fan" /\ l \notin run'[v].todo)
                  => added'[<<l, e>>] > 0
  <3>1. CASE v = w
    <4>1. e = Email(w)
      BY <2>8, <3>1 DEF Ingesting
    <4>2. l # k => (l \in run[w].todo => added[<<l, e>>] < tried[e]) /\ (l \notin run[w].todo => added[<<l, e>>] > 0)
      BY <2>2, <2>8, <3>1 DEF FanOutInv, FannedSoFar
    <4> QED
      BY <1>0, <2>2, <2>4, <3>1, <4>1, <4>2
  <3>2. CASE v # w
    <4>1. e # Email(w)
      BY <2>1, <2>8, <3>2 DEF OneIngest
    <4> QED
      BY <2>2, <2>4, <2>8, <3>2, <4>1 DEF FanOutInv, FannedSoFar
  <3> QED
    BY <3>1, <3>2
<2> QED
  BY <2>3, <2>5, <2>7, <2>8 DEF FanOutInv, FannedSoFar
<1>8. ASSUME NEW w \in Workers, AskName(w) PROVE FanOutInv'
<2>1. /\ \A v \in Workers \ {w} : run'[v] = run[v]
      /\ run'[w].pc = "mark" /\ run'[w].job = run[w].job /\ run[w].pc = "name"
  BY <1>8, RunFields DEF AskName, At, GoTo, TypeOK, Run
<2>2. UNCHANGED <<added, tried, processed>>
  BY <1>8 DEF AskName
<2>3. \A v \in Workers, e \in Emails : Ingesting(v, e)' = Ingesting(v, e)
  BY <2>1 DEF Ingesting, Email
<2>4. ASSUME NEW v \in Workers, NEW e \in Emails, NEW k \in Fanned, Ingesting(v, e)
      PROVE  /\ run'[v].pc = "start" \/ (run'[v].pc = "fan" /\ k \in run'[v].todo)
                  => added[<<k, e>>] < tried[e]
             /\ run'[v].pc \in {"name", "mark"} \/ (run'[v].pc = "fan" /\ k \notin run'[v].todo)
                  => added[<<k, e>>] > 0
  BY <2>1, <2>4 DEF FanOutInv, FannedSoFar
<2> QED
  BY <2>2, <2>3, <2>4 DEF FanOutInv, FannedSoFar, FannedOut
<1>9. ASSUME NEW w \in Workers, MarkProcessed(w) PROVE FanOutInv'
<2>1. Email(w) \in Emails /\ Ingesting(w, Email(w)) /\ run[w].pc = "mark"
  BY <1>9, RunningIsStored DEF MarkProcessed, At, Ingesting
<2>2. \A k \in Fanned : added[<<k, Email(w)>>] > 0
  BY <2>1 DEF FanOutInv, FannedSoFar
<2>3. \A v \in Workers : run'[v] = run[v] \/ run'[v].pc = "free"
  BY <1>9, FreeIsFree DEF MarkProcessed, Done, TypeOK
<2> QED
  BY <1>9, <2>2, <2>3 DEF MarkProcessed, FanOutInv, FannedSoFar, FannedOut, Ingesting, Email
<1>10. ASSUME NEW w \in Workers, run[w].job.kind # "ingest", WorkerStep(w) PROVE FanOutInv'
<2>1. ~IngestStep(w)
  BY <1>10 DEF IngestStep, IngestStart, FanOut, AskName, MarkProcessed, At
<2>2. UNCHANGED <<added, tried, processed>>
  BY <1>10, <2>1 DEF WorkerStep, DeriveLookup, DeriveUpsert, DeriveApply, Enrich, Classify,
                     MergeRead, MergeWrite, DigestRead, DigestWrite
<2>3. \A v \in Workers \ {w} : run'[v] = run[v]
  BY <1>10, <2>1 DEF WorkerStep, DeriveLookup, DeriveUpsert, DeriveApply, Enrich, Classify,
                     MergeRead, MergeWrite, DigestRead, DigestWrite, GoTo, Done, TypeOK
<2>4. run'[w].pc = "free" \/ run'[w].job.kind # "ingest"
  BY <1>10, WorkersKeep DEF KeepsJobs
<2> QED
  BY <1>1, <2>2, <2>3, <2>4
<1>11. ASSUME NEW w \in Workers, WorkerStep(w) PROVE FanOutInv'
  BY <1>6, <1>7, <1>8, <1>9, <1>10, <1>11
     DEF WorkerStep, IngestStep, DeriveLookup, DeriveUpsert, DeriveApply, Enrich, Classify,
         MergeRead, MergeWrite, DigestRead, DigestWrite, At
<1>12. CASE UNCHANGED vars
  BY <1>1, <1>12 DEF vars
<1> QED
  BY <1>2, <1>3, <1>4, <1>5, <1>11, <1>12 DEF Next

-----------------------------------------------------------------------------
(* Sender names *)

LEMMA HeaderStep == TypeOK /\ HeaderNameWins /\ [Next]_vars => HeaderNameWins'
<1> SUFFICES ASSUME TypeOK, HeaderNameWins, [Next]_vars PROVE HeaderNameWins'
  OBVIOUS
<1> USE DEF mail, queue, priorities, history
<1>1. ASSUME UNCHANGED seen, sender = "header" => sender' = "header" PROVE HeaderNameWins'
  BY <1>1 DEF HeaderNameWins
<1>2. ASSUME NEW e \in Emails, NameSender(e) PROVE HeaderNameWins'
  BY <1>2 DEF NameSender, HeaderNameWins
<1>3. ASSUME NEW e \in Emails, StoreEmail(e) PROVE HeaderNameWins'
  BY <1>1, <1>3 DEF StoreEmail
<1>4. ASSUME NEW w \in Workers, WorkerStep(w) PROVE HeaderNameWins'
  BY <1>1, <1>4 DEF WorkerStep, IngestStep, IngestStart, FanOut, AskName, MarkProcessed,
     DeriveLookup, DeriveUpsert, UpsertSender, DeriveApply, Enrich, Classify, MergeRead, MergeWrite,
     DigestRead, DigestWrite
<1>5. ASSUME NEW w \in Workers, JobFails(w) \/ \E j \in Jobs : TakeJob(w, j) PROVE HeaderNameWins'
  BY <1>1, <1>5 DEF JobFails, TakeJob
<1>6. ASSUME RequestDigest \/ UNCHANGED vars PROVE HeaderNameWins'
  BY <1>1, <1>6 DEF RequestDigest, vars
<1> QED
  BY <1>2, <1>3, <1>4, <1>5, <1>6 DEF Next

-----------------------------------------------------------------------------
(* The digest *)

LEMMA EmailSets ==
  ASSUME NEW S \in SUBSET Emails
  PROVE  IsFiniteSet(S) /\ Cardinality(S) \in Nat
  BY WorkerAssumption, FS_Subset, FS_CardinalityType

\* Sorting by urgency and cutting loses only mail that Cap others outrank: of what is
\* sorted, and of what an earlier list had lost to others.
LEMMA TopKeeps ==
  ASSUME NEW list \in SUBSET Emails, NEW e \in Emails, NEW top \in TopOf(list \cup {e}),
         Cardinality(list) <= Cap, NEW x \in Emails \ top,
         \/ x \in list \cup {e}
         \/ Cardinality(list) = Cap /\ \A o \in list : Urgency[o] >= Urgency[x]
  PROVE  Cardinality(top) = Cap /\ \A o \in top : Urgency[o] >= Urgency[x]
<1> DEFINE all == list \cup {e}
<1>0. Cap \in Nat /\ \A o \in Emails : Urgency[o] \in Nat
  BY WorkerAssumption
<1>1. /\ top \subseteq all /\ all \subseteq Emails
      /\ Cardinality(top) <= Cap /\ (Cardinality(top) < Cap => top = all)
      /\ \A o \in top, l \in all \ top : Urgency[l] <= Urgency[o]
  BY DEF TopOf
<1>2. Cardinality(top) \in Nat /\ Cardinality(list) \in Nat /\ IsFiniteSet(list) /\ IsFiniteSet(all)
  BY <1>1, EmailSets
<1>3. CASE x \in all
<2>1. Cardinality(top) = Cap
  BY <1>0, <1>1, <1>2, <1>3
<2> QED
  BY <1>0, <1>1, <1>3, <2>1
<1>4. CASE x \notin all
<2>1. Cardinality(list) = Cap /\ \A o \in list : Urgency[o] >= Urgency[x]
  BY <1>4
<2>2. Cardinality(all) >= Cap
  BY <1>0, <1>2, <2>1, FS_AddElement
<2>3. Cardinality(top) = Cap
  BY <1>0, <1>1, <1>2, <2>2
<2>4. ASSUME e \in top, e \notin list PROVE Urgency[e] >= Urgency[x]
  <3>1. Cardinality(all) = Cap + 1
    BY <1>2, <2>1, <2>4, FS_AddElement
  <3>2. top # all
    BY <1>0, <2>3, <3>1
  <3>3. PICK l \in all : l \notin top
    BY <1>1, <3>2
  <3>4. l \in list /\ Urgency[l] <= Urgency[e] /\ Urgency[l] >= Urgency[x]
    BY <1>1, <2>1, <2>4, <3>3
  <3> QED
    BY <1>0, <1>1, <3>4
<2>5. ASSUME NEW o \in top PROVE Urgency[o] >= Urgency[x]
  BY <1>1, <2>1, <2>4, <2>5
<2> QED
  BY <2>3, <2>5
<1> QED
  BY <1>3, <1>4

Writes(v) == Merging(v) \/ Digesting(v)

PriorityInv == MergesAlone /\ PrioritiesKept

LEMMA PriorityStep ==
  TypeOK /\ JobsStored /\ PriorityInv /\ [Next]_vars => PriorityInv'
<1> SUFFICES ASSUME TypeOK, JobsStored, PriorityInv, [Next]_vars PROVE PriorityInv'
  OBVIOUS
<1> USE DEF mail, queue, priorities, history
\* A step that no merge and no digest begins or ends its list with.
<1>1. ASSUME UNCHANGED <<digest, merged, crossed>>,
             \A v \in Workers : run'[v] = run[v] \/ run'[v].pc # "write"
      PROVE  PriorityInv'
<2>1. \A v \in Workers :
        (Merging(v)' => Merging(v) /\ run'[v].list = run[v].list) /\ (Writes(v)' => Writes(v))
  BY <1>1 DEF Writes, Merging, Digesting
<2>2. PrioritiesKept'
  BY <1>1 DEF PriorityInv, PrioritiesKept
<2>3. MergesAlone'
  BY <1>1, <2>1 DEF PriorityInv, MergesAlone, Writes
<2> QED
  BY <2>2, <2>3 DEF PriorityInv
<1>2. ASSUME NEW e \in Emails, NameSender(e) \/ StoreEmail(e) PROVE PriorityInv'
  BY <1>1, <1>2 DEF NameSender, StoreEmail
<1>3. ASSUME RequestDigest \/ UNCHANGED vars PROVE PriorityInv'
  BY <1>1, <1>3 DEF RequestDigest, vars
<1>4. ASSUME NEW w \in Workers, NEW j \in Jobs, TakeJob(w, j) PROVE PriorityInv'
<2>1. \A v \in Workers : run'[v] = run[v] \/ run'[v].pc = "start"
  BY <1>4 DEF TakeJob, TypeOK, Free
<2> QED
  BY <1>1, <1>4, <2>1 DEF TakeJob
<1>5. ASSUME NEW w \in Workers, Done(w) PROVE \A v \in Workers : run'[v] = run[v] \/ run'[v].pc # "write"
  BY <1>5, FreeIsFree DEF Done, TypeOK
<1>6. ASSUME NEW w \in Workers, JobFails(w) PROVE PriorityInv'
  BY <1>1, <1>5, <1>6 DEF JobFails
<1>7. ASSUME NEW w \in Workers, NEW p \in Pcs \ {"write"}, GoTo(w, p)
      PROVE  \A v \in Workers : run'[v] = run[v] \/ run'[v].pc # "write"
  BY <1>7, RunFields DEF GoTo, TypeOK, Run
<1>8. ASSUME NEW w \in Workers, IngestStart(w) PROVE PriorityInv'
<2>1. run' = [run EXCEPT ![w].pc = "fan", ![w].todo = Fanned] =>
        \A v \in Workers : run'[v] = run[v] \/ run'[v].pc # "write"
  <3>1. [run[w] EXCEPT !.pc = "fan", !.todo = Fanned].pc = "fan"
    BY RunFields DEF Run
  <3> QED
    BY <3>1 DEF TypeOK
<2> QED
  BY <1>1, <1>5, <1>8, <2>1 DEF IngestStart
<1>9. ASSUME NEW w \in Workers, NEW k \in Fanned, FanOut(w, k) PROVE PriorityInv'
<2>1. [run[w] EXCEPT !.todo = @ \ {k}, !.pc = IF run[w].todo = {k} THEN "name" ELSE "fan"].pc # "write"
  BY RunFields DEF Run
<2>2. \A v \in Workers : run'[v] = run[v] \/ run'[v].pc # "write"
  BY <1>9, <2>1 DEF FanOut, TypeOK
<2> QED
  BY <1>1, <1>9, <2>2 DEF FanOut
<1>10. ASSUME NEW w \in Workers, AskName(w) \/ MarkProcessed(w) \/ DeriveLookup(w) \/ DeriveUpsert(w)
                                \/ DeriveApply(w) \/ Enrich(w) \/ Classify(w)
       PROVE  PriorityInv'
<2>1. \A v \in Workers : run'[v] = run[v] \/ run'[v].pc # "write"
  BY <1>5, <1>7, <1>10 DEF AskName, MarkProcessed, DeriveLookup, DeriveUpsert, DeriveApply, Enrich,
                         Classify, Pcs
<2> QED
  BY <1>1, <1>10, <2>1 DEF AskName, MarkProcessed, DeriveLookup, DeriveUpsert, DeriveApply, Enrich, Classify
<1>11. ASSUME NEW w \in Workers, MergeRead(w) PROVE PriorityInv'
<2>1. CASE ~dated
  BY <1>1, <1>5, <1>11, <2>1 DEF MergeRead, TypeOK
<2>2. CASE dated
  <3>1. /\ \A v \in Workers \ {w} : run'[v] = run[v]
        /\ run'[w].list = digest /\ run'[w].job = run[w].job /\ run[w].job.kind = "classify"
    <4>1. run'[w] = [run[w] EXCEPT !.pc = "write", !.list = digest]
      BY <1>11, <2>2 DEF MergeRead, TypeOK
    <4> QED
      BY <1>11, <2>2, <4>1, RunFields DEF MergeRead, At, TypeOK, Run
  <3>2. UNCHANGED <<digest, merged>> /\ crossed' = (crossed \/ \E v \in Workers : Writes(v))
    BY <1>11, <2>2 DEF MergeRead, Writes
  <3>3. PrioritiesKept'
    BY <3>2 DEF PriorityInv, PrioritiesKept
  <3>4. ASSUME ~crossed' PROVE \A v \in Workers \ {w} : ~Writes(v)'
    BY <3>1, <3>2, <3>4 DEF Writes, Merging, Digesting
  <3>5. MergesAlone'
    BY <3>1, <3>2, <3>4 DEF PriorityInv, MergesAlone, Writes
  <3> QED
    BY <3>3, <3>5 DEF PriorityInv
<2> QED
  BY <2>1, <2>2
<1>12. ASSUME NEW w \in Workers, DigestRead(w) PROVE PriorityInv'
<2>1. /\ \A v \in Workers \ {w} : run'[v] = run[v]
      /\ run'[w].job = run[w].job /\ run[w].job.kind = "digest"
  <3>1. run'[w] = [run[w] EXCEPT !.pc = "write", !.list = stored]
    BY <1>12 DEF DigestRead, TypeOK
  <3> QED
    BY <1>12, <3>1, RunFields DEF DigestRead, At, TypeOK, Run
<2>2. UNCHANGED <<digest, merged>> /\ crossed' = (crossed \/ \E v \in Workers : Writes(v))
  BY <1>12 DEF DigestRead, Writes
<2>3. PrioritiesKept'
  BY <2>2 DEF PriorityInv, PrioritiesKept
<2>4. ASSUME ~crossed' PROVE \A v \in Workers \ {w} : ~Writes(v)'
  BY <2>1, <2>2, <2>4 DEF Writes, Merging, Digesting
<2>5. ~Merging(w)'
  BY <2>1 DEF Merging
<2>6. MergesAlone'
  BY <2>2, <2>4, <2>5 DEF PriorityInv, MergesAlone, Writes
<2> QED
  BY <2>3, <2>6 DEF PriorityInv
\* The worker that writes was alone, if nothing has crossed.
<1>13. ASSUME NEW w \in Workers, Writes(w), Done(w), UNCHANGED crossed, Cardinality(digest') <= Cap
       PROVE  MergesAlone'
<2>1. run'[w].pc = "free" /\ \A v \in Workers \ {w} : run'[v] = run[v]
  BY <1>13, FreeIsFree DEF Done, TypeOK
<2>2. ASSUME ~crossed PROVE \A v \in Workers : ~Writes(v)'
  BY <1>13, <2>1, <2>2 DEF PriorityInv, MergesAlone, Writes, Merging, Digesting
<2> QED
  BY <1>13, <2>2 DEF MergesAlone, Writes
<1>14. ASSUME NEW w \in Workers, DigestWrite(w) PROVE PriorityInv'
<2>1. Writes(w) /\ Done(w) /\ UNCHANGED crossed /\ Cardinality(digest') <= Cap /\ merged' = {}
  BY <1>14 DEF DigestWrite, Writes, Digesting, At
<2> QED
  BY <1>13, <2>1 DEF PriorityInv, PrioritiesKept
<1>15. ASSUME NEW w \in Workers, MergeWrite(w) PROVE PriorityInv'
<2>1. Email(w) \in Emails
  BY <1>15, RunningIsStored DEF MergeWrite, At
<2>2. Writes(w) /\ Merging(w) /\ Done(w) /\ UNCHANGED crossed /\ digest' \in TopOf(run[w].list \cup {Email(w)})
      /\ merged' = merged \cup {Email(w)}
  BY <1>15 DEF MergeWrite, Writes, Merging, At
<2>3. Cardinality(digest') <= Cap
  BY <2>2 DEF TopOf
<2>4. MergesAlone'
  BY <1>13, <2>2, <2>3
<2>5. ASSUME ~crossed', NEW x \in merged' \ digest'
      PROVE  Cardinality(digest') = Cap /\ \A o \in digest' : Urgency[o] >= Urgency[x]
  <3>1. run[w].list = digest /\ digest \subseteq Emails /\ Cardinality(digest) <= Cap
    BY <2>2, <2>5 DEF PriorityInv, MergesAlone, TypeOK
  <3>2. x \in Emails
    BY <2>1, <2>2, <2>5 DEF TypeOK
  <3>3. \/ x \in digest \cup {Email(w)}
        \/ Cardinality(digest) = Cap /\ \A o \in digest : Urgency[o] >= Urgency[x]
    BY <2>2, <2>5 DEF PriorityInv, PrioritiesKept
  <3> QED
    BY <2>1, <2>2, <2>5, <3>1, <3>2, <3>3, TopKeeps
<2>6. PrioritiesKept'
  BY <2>5 DEF PrioritiesKept
<2> QED
  BY <2>4, <2>6 DEF PriorityInv
<1> QED
  BY <1>2, <1>3, <1>4, <1>6, <1>8, <1>9, <1>10, <1>11, <1>12, <1>14, <1>15
     DEF Next, WorkerStep, IngestStep

-----------------------------------------------------------------------------
(* Theorems *)

LEMMA InvInit == Init => WorkerInv
<1> SUFFICES ASSUME Init PROVE WorkerInv
  OBVIOUS
<1>1. \A w \in Workers : run[w].pc = "free"
  BY FreeIsFree DEF Init
<1>2. JobsStored /\ OneIngest
  BY <1>1 DEF Init, JobsStored, OneIngest, Ingesting, IngestsOf
<1>3. FannedSoFar /\ FannedOut /\ HeaderNameWins /\ PrioritiesKept
  BY <1>1 DEF Init, FannedSoFar, FannedOut, HeaderNameWins, PrioritiesKept, Ingesting
<1>4. MergesAlone
  BY <1>1, FS_EmptySet, WorkerAssumption DEF Init, MergesAlone, Merging, Digesting
<1> QED
  BY <1>2, <1>3, <1>4, TypeInit DEF WorkerInv

LEMMA InvStep == WorkerInv /\ [Next]_vars => WorkerInv'
  BY TypeStep, StoredStep, OneIngestStep, FannedStep, HeaderStep, PriorityStep
     DEF WorkerInv, FanOutInv, PriorityInv

\* The inductive invariant of the worker: it holds whatever jobs throw, are repeated,
\* or run side by side.
THEOREM WorkerInvariant == Spec => []WorkerInv
<1>1. Init => WorkerInv
  BY InvInit
<1>2. WorkerInv /\ [Next]_vars => WorkerInv'
  BY InvStep
<1> QED
  BY <1>1, <1>2, PTL DEF Spec

\* Mail marked as processed has been fanned out, and no oftener than its job was tried.
THEOREM FanOutCorrect == Spec => []FannedOut
<1>1. WorkerInv => FannedOut
  BY DEF WorkerInv
<1> QED
  BY <1>1, WorkerInvariant, PTL

\* A derived name never replaces one from a From header.
THEOREM HeaderCorrect == Spec => []HeaderNameWins
<1>1. WorkerInv => HeaderNameWins
  BY DEF WorkerInv
<1> QED
  BY <1>1, WorkerInvariant, PTL

\* Without overlap the digest keeps the most urgent of what was merged, for any
\* number of emails and any Cap.
THEOREM PriorityCorrect == Spec => []PrioritiesKept
<1>1. WorkerInv => PrioritiesKept
  BY DEF WorkerInv
<1> QED
  BY <1>1, WorkerInvariant, PTL
=============================================================================
