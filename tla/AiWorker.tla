------------------------------- MODULE AiWorker -------------------------------
(***************************************************************************)
(* apps/ai-worker/src/processors.ts: the ingest fan-out, the display name  *)
(* of a sender, the needs-reply classifier with its merge into the user's  *)
(* digest, and the digest itself, fed by services/email-receiver.ts.  One  *)
(* user, mail of one sender.  The job queue (BullMQ) runs a job on a free  *)
(* worker, gives it back while it has attempts left, and ignores a job     *)
(* whose id it still knows.  Workers interleave at every await.            *)
(***************************************************************************)
EXTENDS Naturals, FiniteSets

CONSTANTS
  Emails,      \* mail the sender sends
  Named,       \* mail whose From header carries a name
  Urgency,     \* of mail that needs a reply soon (0: below 0.6, or no reply needed)
  Cap,         \* how many priorities a digest keeps
  Workers,     \* jobs that run at once
  Attempts,    \* of every job but the digest's
  NoEmail,     \* the email of a digest job
  MaxDigests,  \* bound: digest jobs
  MaxFaults    \* bound: jobs that throw or whose worker dies

ASSUME WorkerAssumption ==
  /\ Named \subseteq Emails /\ NoEmail \notin Emails /\ IsFiniteSet(Emails)
  /\ Urgency \in [Emails -> Nat] /\ Cap \in Nat \ {0} /\ Attempts \in Nat \ {0}
  /\ MaxDigests \in Nat /\ MaxFaults \in Nat

VARIABLES
  seen,      \* mail whose sender's name has been looked up
  stored,     \* rows of emails
  fromName,   \* fromName of each row
  processed,  \* rows with aiProcessedAt
  needsReply, \* rows the classifier has flagged
  sender,     \* source of the sender_names row
  jobs,       \* waiting jobs: how many of each
  derive,     \* the one derive-display-name job of the sender
  run,        \* what each worker does
  digest,     \* today_digests: the row's priorities
  dated,      \* whether the digest row exists
  added,      \* history: jobs each email was fanned out to, how often
  tried,      \* history: attempts of each ingest job
  merged,     \* history: urgent mail merged since the last digest
  crossed,    \* history: a digest or a merge overlapped another
  digests, faults

queue == <<jobs, derive>>
mail == <<seen, stored, fromName, processed, needsReply>>
priorities == <<digest, dated, merged, crossed>>
history == <<added, tried>>
vars == <<mail, sender, queue, run, priorities, history, digests, faults>>

\* enrich stands for summarize, auto-label and draft-reply, which replace their own
\* output as a whole and read nothing that others write.
Fanned == {"classify", "enrich"}
Kinds == Fanned \cup {"ingest", "derive", "digest"}
Jobs == [kind : Kinds, email : Emails \cup {NoEmail}, left : 0..Attempts]
Pcs == {"free", "start", "fan", "name", "mark", "merge", "write", "upsert", "apply"}
Run == [pc : Pcs, job : Jobs, todo : SUBSET Fanned, list : SUBSET Emails, found : BOOLEAN]

NoJob == [kind |-> "digest", email |-> NoEmail, left |-> 0]
Free == [pc |-> "free", job |-> NoJob, todo |-> {}, list |-> {}, found |-> FALSE]
Job(k, e) == [kind |-> k, email |-> e, left |-> IF k = "digest" THEN 1 ELSE Attempts]

TypeOK ==
  /\ seen \subseteq Emails /\ stored \subseteq seen
  /\ processed \subseteq stored /\ needsReply \subseteq stored
  /\ fromName \in [Emails -> {"null", "header", "derived"}]
  /\ sender \in {"none", "header", "derived", "unknown"}
  /\ jobs \in [Jobs -> Nat] /\ derive \in {"none", "known"}
  /\ run \in [Workers -> Run]
  /\ digest \subseteq Emails /\ dated \in BOOLEAN
  /\ added \in [Fanned \X Emails -> Nat] /\ tried \in [Emails -> Nat]
  /\ merged \subseteq Emails /\ crossed \in BOOLEAN
  /\ digests \in 0..MaxDigests /\ faults \in 0..MaxFaults

Init ==
  /\ seen = {} /\ stored = {} /\ processed = {} /\ needsReply = {}
  /\ fromName = [e \in Emails |-> "null"] /\ sender = "none"
  /\ jobs = [j \in Jobs |-> 0] /\ derive = "none"
  /\ run = [w \in Workers |-> Free]
  /\ digest = {} /\ dated = FALSE /\ merged = {} /\ crossed = FALSE
  /\ added = [x \in Fanned \X Emails |-> 0] /\ tried = [e \in Emails |-> 0]
  /\ digests = 0 /\ faults = 0

At(w, k, pc) == run[w].pc = pc /\ run[w].job.kind = k
Email(w) == run[w].job.email
GoTo(w, pc) == run' = [run EXCEPT ![w].pc = pc]
Done(w) == run' = [run EXCEPT ![w] = Free]
Add(j) == jobs' = [jobs EXCEPT ![j] = @ + 1]

-----------------------------------------------------------------------------
(* The API *)

\* processInbound: a header name goes to sender_names, a missing one is taken from
\* there ...
NameSender(e) ==
  /\ e \notin seen /\ seen' = seen \cup {e}
  /\ IF e \in Named
     THEN fromName' = [fromName EXCEPT ![e] = "header"] /\ sender' = "header"
     ELSE /\ fromName' = [fromName EXCEPT ![e] = IF sender \in {"none", "unknown"} THEN "null"
                                                 ELSE sender]
          /\ UNCHANGED sender
  /\ UNCHANGED <<stored, processed, needsReply, queue, run, priorities, history, digests, faults>>

\* ... the row is inserted with it, and the ingest job is added.
StoreEmail(e) ==
  /\ e \in seen \ stored /\ stored' = stored \cup {e}
  /\ Add(Job("ingest", e))
  /\ UNCHANGED <<seen, fromName, processed, needsReply, sender, derive, run, priorities, history,
                 digests, faults>>

\* The scheduler or a stale GET /today; ids are per day, so jobs of two days may meet.
RequestDigest ==
  /\ digests < MaxDigests /\ digests' = digests + 1
  /\ Add(Job("digest", NoEmail))
  /\ UNCHANGED <<mail, sender, derive, run, priorities, history, faults>>

-----------------------------------------------------------------------------
(* The queue *)

Merging(w) == run[w].job.kind = "classify" /\ run[w].pc = "write"
Digesting(w) == run[w].job.kind = "digest" /\ run[w].pc = "write"

TakeJob(w, j) ==
  /\ run[w].pc = "free" /\ jobs[j] > 0
  /\ jobs' = [jobs EXCEPT ![j] = @ - 1]
  /\ run' = [run EXCEPT ![w] = [Free EXCEPT !.pc = "start", !.job = j]]
  /\ tried' = IF j.kind = "ingest" THEN [tried EXCEPT ![j.email] = @ + 1] ELSE tried
  /\ UNCHANGED <<mail, sender, derive, priorities, added, digests, faults>>

\* A processor throws or its worker dies; the last attempt is not repeated, and
\* the id of a failed job stays known.
JobFails(w) ==
  LET j == run[w].job IN
  /\ run[w].pc # "free" /\ faults < MaxFaults /\ faults' = faults + 1
  /\ Done(w)
  /\ jobs' = IF j.left > 1 THEN [jobs EXCEPT ![[j EXCEPT !.left = @ - 1]] = @ + 1] ELSE jobs
  /\ UNCHANGED <<mail, sender, derive, priorities, history, digests>>

-----------------------------------------------------------------------------
(* processIngestEmail *)

\* Mutant: the mail is marked before it is fanned out.
MarkThenFanOut(w) ==
  /\ At(w, "ingest", "start")
  /\ IF Email(w) \in processed THEN Done(w) /\ UNCHANGED processed
     ELSE /\ run' = [run EXCEPT ![w].pc = "fan", ![w].todo = Fanned]
          /\ processed' = processed \cup {Email(w)}
  /\ UNCHANGED <<seen, stored, fromName, needsReply, sender, queue, priorities, history, digests, faults>>

IngestStart(w) ==
  /\ At(w, "ingest", "start")
  /\ IF Email(w) \in processed THEN Done(w)
     ELSE run' = [run EXCEPT ![w].pc = "fan", ![w].todo = Fanned]
  /\ UNCHANGED <<mail, sender, queue, priorities, history, digests, faults>>

\* The jobs are added one by one.
FanOut(w, k) ==
  /\ At(w, "ingest", "fan") /\ k \in run[w].todo
  /\ Add(Job(k, Email(w)))
  /\ added' = [added EXCEPT ![<<k, Email(w)>>] = @ + 1]
  /\ run' = [run EXCEPT ![w].todo = @ \ {k}, ![w].pc = IF run[w].todo = {k} THEN "name" ELSE "fan"]
  /\ UNCHANGED <<mail, sender, derive, priorities, tried, digests, faults>>

\* A row without a name asks for one; a job of the same id is ignored.
AskName(w) ==
  LET asks == fromName[Email(w)] = "null" /\ derive = "none" IN
  /\ At(w, "ingest", "name") /\ GoTo(w, "mark")
  /\ IF asks THEN Add(Job("derive", Email(w))) /\ derive' = "known" ELSE UNCHANGED queue
  /\ UNCHANGED <<mail, sender, priorities, history, digests, faults>>

MarkProcessed(w) ==
  /\ At(w, "ingest", "mark") /\ Done(w)
  /\ processed' = processed \cup {Email(w)}
  /\ UNCHANGED <<seen, stored, fromName, needsReply, sender, queue, priorities, history, digests, faults>>

-----------------------------------------------------------------------------
(* processDeriveDisplayName *)

\* The cache; a miss goes on to the heuristic and the model.
DeriveLookup(w) ==
  /\ At(w, "derive", "start")
  /\ CASE sender = "none" -> GoTo(w, "upsert")
       [] sender = "unknown" -> Done(w)
       [] OTHER -> GoTo(w, "apply")
  /\ UNCHANGED <<mail, sender, queue, priorities, history, digests, faults>>

\* Mutant: the upsert without its WHERE.
UpsertAny(source) == sender' = source

\* ON CONFLICT ... WHERE the stored source is not header.
UpsertSender(source) == sender' = IF sender = "header" THEN sender ELSE source

DeriveUpsert(w) ==
  /\ At(w, "derive", "upsert")
  /\ \/ UpsertSender("derived") /\ GoTo(w, "apply")
     \/ UpsertSender("unknown") /\ Done(w)
  /\ UNCHANGED <<mail, queue, priorities, history, digests, faults>>

\* applyToEmail fills a name that is still null.
DeriveApply(w) ==
  /\ At(w, "derive", "apply") /\ Done(w)
  /\ fromName' = [fromName EXCEPT ![Email(w)] = IF @ = "null" THEN "derived" ELSE @]
  /\ UNCHANGED <<seen, stored, processed, needsReply, sender, queue, priorities, history, digests, faults>>

-----------------------------------------------------------------------------
(* processClassifyNeedsReply and the others that one email gets *)

Enrich(w) ==
  /\ At(w, "enrich", "start") /\ Done(w)
  /\ UNCHANGED <<mail, sender, queue, priorities, history, digests, faults>>

Classify(w) ==
  /\ At(w, "classify", "start")
  /\ \E flag \in BOOLEAN :
       /\ Urgency[Email(w)] > 0 => flag
       /\ needsReply' = IF flag THEN needsReply \cup {Email(w)} ELSE needsReply \ {Email(w)}
  /\ IF Urgency[Email(w)] > 0 THEN GoTo(w, "merge") ELSE Done(w)
  /\ UNCHANGED <<seen, stored, fromName, processed, sender, queue, priorities, history, digests, faults>>

\* mergeEmailIntoDigest reads the digest; without one there is nothing to do.
MergeRead(w) ==
  /\ At(w, "classify", "merge")
  /\ IF dated THEN run' = [run EXCEPT ![w].pc = "write", ![w].list = digest] ELSE Done(w)
  /\ crossed' = (crossed \/ (dated /\ \E v \in Workers : Merging(v) \/ Digesting(v)))
  /\ UNCHANGED <<mail, sender, queue, digest, dated, merged, history, digests, faults>>

\* Mutant: the first Cap of the list, unsorted.
FirstOf(list) ==
  {top \in SUBSET list : Cardinality(top) <= Cap /\ (Cardinality(top) < Cap => top = list)}

\* Sort by urgency, keep Cap.
TopOf(list) ==
  {top \in SUBSET list :
     /\ Cardinality(top) <= Cap /\ (Cardinality(top) < Cap => top = list)
     /\ \A e \in top, o \in list \ top : Urgency[o] <= Urgency[e]}

MergeWrite(w) ==
  /\ At(w, "classify", "write") /\ Done(w)
  /\ digest' \in TopOf(run[w].list \cup {Email(w)})
  /\ merged' = merged \cup {Email(w)}
  /\ UNCHANGED <<mail, sender, queue, dated, crossed, history, digests, faults>>

-----------------------------------------------------------------------------
(* processTodayDigest *)

\* Pending mail is read, then the model works on it.
DigestRead(w) ==
  /\ At(w, "digest", "start")
  /\ run' = [run EXCEPT ![w].pc = "write", ![w].list = stored]
  /\ crossed' = (crossed \/ \E v \in Workers : Merging(v) \/ Digesting(v))
  /\ UNCHANGED <<mail, sender, queue, digest, dated, merged, history, digests, faults>>

\* The row is replaced by what the model chose.
DigestWrite(w) ==
  /\ At(w, "digest", "write") /\ Done(w)
  /\ \E top \in SUBSET run[w].list : Cardinality(top) <= Cap /\ digest' = top
  /\ dated' = TRUE /\ merged' = {}
  /\ UNCHANGED <<mail, sender, queue, crossed, history, digests, faults>>

-----------------------------------------------------------------------------

IngestStep(w) ==
  IngestStart(w) \/ AskName(w) \/ MarkProcessed(w) \/ \E k \in Fanned : FanOut(w, k)

WorkerStep(w) ==
  \/ IngestStep(w) \/ DeriveLookup(w) \/ DeriveUpsert(w) \/ DeriveApply(w)
  \/ Enrich(w) \/ Classify(w) \/ MergeRead(w) \/ MergeWrite(w) \/ DigestRead(w) \/ DigestWrite(w)

Next ==
  \/ \E e \in Emails : NameSender(e) \/ StoreEmail(e)
  \/ RequestDigest
  \/ \E w \in Workers : WorkerStep(w) \/ JobFails(w) \/ \E j \in Jobs : TakeJob(w, j)

Spec == Init /\ [][Next]_vars

-----------------------------------------------------------------------------
(* Properties *)

\* Whatever throws in between, mail marked as processed has been fanned out, and a
\* second time only by a second attempt of its ingest job.
FannedOut ==
  \A e \in Emails, k \in Fanned :
    /\ e \in processed => added[<<k, e>>] > 0
    /\ added[<<k, e>>] <= tried[e]

\* A name from a From header is never replaced by a weaker one, even by a job that
\* looked before it came.
HeaderNameWins == Named \cap seen # {} => sender = "header"

\* While no digest or merge overlaps another, urgent mail merged into the digest stays
\* there until the next digest, unless Cap others are at least as urgent.
PrioritiesKept ==
  ~crossed => \A e \in merged \ digest :
    Cardinality(digest) = Cap /\ \A o \in digest : Urgency[o] >= Urgency[e]

-----------------------------------------------------------------------------
(* The inductive invariant *)

Ingesting(w, e) == run[w].pc # "free" /\ run[w].job.kind = "ingest" /\ Email(w) = e
IngestsOf(e) == {j \in Jobs : j.kind = "ingest" /\ j.email = e}

\* Every job but a digest is about a stored email.
JobsStored ==
  /\ \A j \in Jobs : jobs[j] > 0 /\ j.kind # "digest" => j.email \in stored
  /\ \A w \in Workers : run[w].pc # "free" /\ run[w].job.kind # "digest" => Email(w) \in stored

\* An email has one ingest job, which waits or is run by one worker.
OneIngest ==
  \A e \in Emails :
    /\ \A i, j \in IngestsOf(e) : jobs[i] <= 1 /\ (jobs[i] > 0 /\ jobs[j] > 0 => i = j)
    /\ \A w \in Workers : Ingesting(w, e) =>
         (\A v \in Workers : Ingesting(v, e) => v = w) /\ \A j \in IngestsOf(e) : jobs[j] = 0

\* FannedOut, with what the attempt in progress has done and has still to do.
FannedSoFar ==
  \A w \in Workers, e \in Emails, k \in Fanned : Ingesting(w, e) =>
    /\ run[w].pc = "start" \/ (run[w].pc = "fan" /\ k \in run[w].todo)
         => added[<<k, e>>] < tried[e]
    /\ run[w].pc \in {"name", "mark"} \/ (run[w].pc = "fan" /\ k \notin run[w].todo)
         => added[<<k, e>>] > 0

\* A digest has at most Cap priorities, and a merge that meets no other has read them.
MergesAlone ==
  /\ Cardinality(digest) <= Cap
  /\ ~crossed => \A w \in Workers :
       /\ Merging(w) => run[w].list = digest
       /\ Merging(w) \/ Digesting(w) => \A v \in Workers : Merging(v) \/ Digesting(v) => v = w

\* Together with the properties they strengthen, these are preserved by every step.
WorkerInv ==
  /\ TypeOK /\ JobsStored /\ OneIngest /\ FannedSoFar /\ FannedOut /\ HeaderNameWins
  /\ MergesAlone /\ PrioritiesKept
=============================================================================
