------------------------------- MODULE Mailbox -------------------------------
(***************************************************************************)
(* The mail store: inbound delivery (the engine's NotifyAPI, the inbound   *)
(* route, services/email-receiver.ts), folder moves, and the three hard    *)
(* deletes of services/trash-retention.ts, over the emails and attachments *)
(* tables and the attachment files on disk.  A delivery attempt makes its  *)
(* own row and its own files.  Nothing runs in a transaction; each await   *)
(* ends an action.  Times are not kept: a row that stays in trash or spam  *)
(* past its retention becomes old, and every update makes it young again.  *)
(***************************************************************************)
EXTENDS Naturals, FiniteSets

CONSTANTS
  Mails,       \* messages that other mail servers send to the user
  Parts,       \* the attachments each of them carries
  Purgers,     \* hard deletes that can be in progress at once
  Batch,       \* LIMIT of the retention sweep
  MaxTries,    \* bound: deliveries of one message
  MaxMoves,    \* bound: moves and updates by the user
  MaxFaults    \* bound: crashes, timeouts, failing statements and file operations

ASSUME MailboxAssumption ==
  /\ IsFiniteSet(Mails)
  /\ Batch \in Nat \ {0}
  /\ MaxTries \in Nat /\ MaxMoves \in Nat /\ MaxFaults \in Nat

VARIABLES
  mta,        \* how the sending server stands with each message
  tries,      \* deliveries of each message so far
  post,       \* the inbound request of each delivery
  disk,       \* attachment files
  kept,       \* of each delivery, the files it could write
  torn,       \* files whose write failed halfway; no row will name them
  folder,     \* the emails table: the folder of each row
  old,        \* rows whose updatedAt is before the cutoff
  attached,   \* the attachments table: files with a row
  purge,      \* hard deletes in progress
  picked,     \* history: rows a hard delete has selected
  asked,      \* history: rows selected because the user asked
  disturbed,  \* history: rows updated while a hard delete held them
  stuck,      \* history: files an unlink failed on
  missed,     \* history: rows selected while their attachments were being inserted
  moves, faults

delivery == <<mta, tries, post, kept, torn>>
table == <<folder, old, attached>>
history == <<picked, asked, disturbed, stuck, missed>>
vars == <<delivery, disk, table, purge, history, moves, faults>>

Rows == Mails \X (1..MaxTries)     \* a row is named by the delivery that makes it
Files == Rows \X Parts
FilesOf(r) == {r} \X Parts
Discarding == {"trash", "spam"}    \* EMPTYABLE_FOLDERS
Folders == {"inbox"} \cup Discarding   \* inbox stands for every other folder
PostPcs == {"none", "parse", "store", "insert", "attach", "answer", "refuse",
            "done", "refused", "dead"}
PurgePcs == {"idle", "list", "unlink", "delete"}
Idle == [pc |-> "idle", rows |-> {}, todo |-> {}]

Exists(r) == folder[r] \in Folders
Busy(r) == post[r] \in {"parse", "store", "insert", "attach", "answer", "refuse"}
Latest(r) == tries[r[1]] = r[2]
Held(r) == \E p \in Purgers : r \in purge[p].rows

TypeOK ==
  /\ mta \in [Mails -> {"queued", "waiting", "accepted"}]
  /\ tries \in [Mails -> 0..MaxTries] /\ post \in [Rows -> PostPcs]
  /\ disk \subseteq Files /\ kept \in [Rows -> SUBSET Files] /\ torn \subseteq Files
  /\ folder \in [Rows -> {"none", "gone"} \cup Folders] /\ old \subseteq Rows
  /\ attached \subseteq Files
  /\ purge \in [Purgers -> [pc : PurgePcs, rows : SUBSET Rows, todo : SUBSET Files]]
  /\ picked \subseteq Rows /\ asked \subseteq Rows /\ disturbed \subseteq Rows
  /\ stuck \subseteq Files /\ missed \subseteq Rows
  /\ moves \in 0..MaxMoves /\ faults \in 0..MaxFaults

Init ==
  /\ mta = [m \in Mails |-> "queued"] /\ tries = [m \in Mails |-> 0]
  /\ post = [r \in Rows |-> "none"] /\ disk = {} /\ kept = [r \in Rows |-> {}]
  /\ torn = {}
  /\ folder = [r \in Rows |-> "none"] /\ old = {} /\ attached = {}
  /\ purge = [p \in Purgers |-> Idle]
  /\ picked = {} /\ asked = {} /\ disturbed = {} /\ stuck = {} /\ missed = {}
  /\ moves = 0 /\ faults = 0

Fault == faults < MaxFaults /\ faults' = faults + 1

-----------------------------------------------------------------------------
(* The engine *)

\* handleDATA hands the message to NotifyAPI and waits for the answer.
Deliver(m) ==
  /\ mta[m] = "queued" /\ tries[m] < MaxTries
  /\ mta' = [mta EXCEPT ![m] = "waiting"]
  /\ tries' = [tries EXCEPT ![m] = @ + 1]
  /\ post' = [post EXCEPT ![<<m, tries[m] + 1>>] = "parse"]
  /\ UNCHANGED <<disk, kept, torn, table, purge, history, moves, faults>>

\* The 10 s timeout, or the SMTP session is lost: the request goes on without it,
\* and the sending server will try again.
GiveUp(m) ==
  /\ mta[m] = "waiting" /\ Fault
  /\ mta' = [mta EXCEPT ![m] = "queued"]
  /\ UNCHANGED <<tries, post, disk, kept, torn, table, purge, history, moves>>

\* What the engine makes of an answer, if it still waits for it: 451 for a failure,
\* 250 for every status below 300.
Heard(r, reply) ==
  mta' = IF Latest(r) /\ mta[r[1]] = "waiting" THEN [mta EXCEPT ![r[1]] = reply] ELSE mta

-----------------------------------------------------------------------------
(* processInbound *)

Moves(r, from, to) == post[r] = from /\ post' = [post EXCEPT ![r] = to]

\* Parsing and the look-up of the mailbox; where one fails, stored: false is returned.
Parse(r) ==
  /\ Moves(r, "parse", "store") \/ Moves(r, "parse", "refuse")
  /\ UNCHANGED <<mta, tries, disk, kept, torn, table, purge, history, moves, faults>>

\* persistAttachments: every file that can be written; where a write fails the file
\* is skipped, and nobody removes the bytes that are there already.
PersistAttachments(r) ==
  /\ Moves(r, "store", "insert")
  /\ \E lost \in SUBSET FilesOf(r) : \E part \in SUBSET lost :
       /\ kept' = [kept EXCEPT ![r] = FilesOf(r) \ lost]
       /\ disk' = disk \cup (FilesOf(r) \ lost) \cup part
       /\ torn' = torn \cup part
       /\ IF lost = {} THEN UNCHANGED faults ELSE Fault
  /\ UNCHANGED <<mta, tries, table, purge, history, moves>>

\* Mutant: the answer does not wait for the attachment rows.
InsertAndAnswer(r) ==
  /\ Moves(r, "insert", "answer")
  /\ folder' = [folder EXCEPT ![r] = "inbox"]
  /\ UNCHANGED <<mta, tries, disk, kept, torn, old, attached, purge, history, moves, faults>>

\* The row is inserted whatever rows the same message has already.
InsertEmail(r) ==
  /\ Moves(r, "insert", IF kept[r] = {} THEN "answer" ELSE "attach")
  /\ folder' = [folder EXCEPT ![r] = "inbox"]
  /\ UNCHANGED <<mta, tries, disk, kept, torn, old, attached, purge, history, moves, faults>>

\* One INSERT for all the rows; it needs the email.
InsertAttachments(r) ==
  /\ Exists(r) /\ Moves(r, "attach", "answer")
  /\ attached' = attached \cup kept[r]
  /\ UNCHANGED <<mta, tries, disk, kept, torn, folder, old, purge, history, moves, faults>>

\* An INSERT throws, or the process dies: the engine gets a failure, also when only
\* the answer was missing.
DeliveryFails(r) ==
  /\ Busy(r) /\ Heard(r, "queued")
  /\ post' = [post EXCEPT ![r] = IF @ = "answer" THEN "done" ELSE "dead"]
  /\ IF post[r] = "attach" /\ ~Exists(r) THEN UNCHANGED faults ELSE Fault
  /\ UNCHANGED <<tries, disk, kept, torn, table, purge, history, moves>>

\* 201 stored, or 200 not stored.
Answer(r) ==
  /\ Moves(r, "answer", "done") \/ Moves(r, "refuse", "refused")
  /\ Heard(r, "accepted")
  /\ UNCHANGED <<tries, disk, kept, torn, table, purge, history, moves, faults>>

-----------------------------------------------------------------------------
(* The user and the clock *)

Touched(r) ==
  /\ old' = old \ {r}
  /\ disturbed' = IF Held(r) THEN disturbed \cup {r} ELSE disturbed
  /\ moves < MaxMoves /\ moves' = moves + 1

\* moveToFolder and the batch moves; also restores.
MoveToFolder(r, to) ==
  /\ Exists(r) /\ to # folder[r] /\ Touched(r)
  /\ folder' = [folder EXCEPT ![r] = to]
  /\ UNCHANGED <<delivery, disk, attached, purge, picked, asked, stuck, missed, faults>>

\* Reading, starring and snoozing write updatedAt too.
Update(r) ==
  /\ Exists(r) /\ r \in old /\ Touched(r)
  /\ UNCHANGED <<delivery, disk, folder, attached, purge, picked, asked, stuck, missed, faults>>

\* TRASH_RETENTION_DAYS or SPAM_RETENTION_DAYS pass.
Expires(r) ==
  /\ folder[r] \in Discarding /\ r \notin old
  /\ old' = old \cup {r}
  /\ UNCHANGED <<delivery, disk, folder, attached, purge, history, moves, faults>>

-----------------------------------------------------------------------------
(* Hard deletes: select the rows, list their attachments, unlink, delete *)

Select(p, rows) ==
  /\ purge[p].pc = "idle" /\ rows # {}
  /\ purge' = [purge EXCEPT ![p] = [pc |-> "list", rows |-> rows, todo |-> {}]]
  /\ picked' = picked \cup rows
  /\ UNCHANGED <<delivery, disk, table, disturbed, stuck, missed, moves, faults>>

\* Mutant: the sweep forgets the spam folder.
TrashOnlySelect(p) ==
  LET expired == {r \in Rows : folder[r] = "trash" /\ r \in old} IN
  \E rows \in SUBSET expired :
    /\ Cardinality(rows) = Batch \/ (rows = expired /\ Cardinality(rows) < Batch)
    /\ Select(p, rows) /\ UNCHANGED asked

\* purgeExpiredFolder: any Batch of the rows that have been there too long.
RetentionSelect(p) ==
  \E f \in Discarding :
    LET expired == {r \in Rows : folder[r] = f /\ r \in old} IN
    \E rows \in SUBSET expired :
      /\ Cardinality(rows) = Batch \/ (rows = expired /\ Cardinality(rows) < Batch)
      /\ Select(p, rows) /\ UNCHANGED asked

\* emptyFolderForUser
EmptySelect(p, f) ==
  LET rows == {r \in Rows : folder[r] = f} IN
  /\ f \in Discarding /\ Select(p, rows) /\ asked' = asked \cup rows

\* Mutant: the folder is not checked.
PurgeAny(p, r) == Exists(r) /\ Select(p, {r}) /\ asked' = asked \cup {r}

\* purgeOneFromTrash refuses a row that is not in the trash.
PurgeSelect(p, r) ==
  /\ folder[r] = "trash" /\ Select(p, {r}) /\ asked' = asked \cup {r}

\* Mutant: the rows are deleted before the files.
DeleteThenUnlink(p) ==
  /\ purge[p].pc = "list"
  /\ purge' = [purge EXCEPT ![p].pc = "unlink",
                            ![p].todo = {f \in attached : f[1] \in purge[p].rows}]
  /\ folder' = [r \in Rows |-> IF r \in purge[p].rows THEN "gone" ELSE folder[r]]
  /\ attached' = {f \in attached : f[1] \notin purge[p].rows}
  /\ old' = old \ purge[p].rows
  /\ missed' = missed \cup {r \in purge[p].rows : post[r] = "attach"}
  /\ UNCHANGED <<delivery, disk, picked, asked, disturbed, stuck, moves, faults>>

ListAttachments(p) ==
  /\ purge[p].pc = "list"
  /\ purge' = [purge EXCEPT ![p].pc = "unlink",
                            ![p].todo = {f \in attached : f[1] \in purge[p].rows}]
  /\ missed' = missed \cup {r \in purge[p].rows : post[r] = "attach"}
  /\ UNCHANGED <<delivery, disk, table, picked, asked, disturbed, stuck, moves, faults>>

\* deleteAttachmentBytes does not mind a missing file; an error is logged and the
\* loop goes on.
Unlink(p, f) ==
  /\ purge[p].pc = "unlink" /\ f \in purge[p].todo
  /\ purge' = [purge EXCEPT ![p].todo = @ \ {f}]
  /\ \/ disk' = disk \ {f} /\ UNCHANGED <<stuck, faults>>
     \/ f \in disk /\ Fault /\ stuck' = stuck \cup {f} /\ UNCHANGED disk
  /\ UNCHANGED <<delivery, table, picked, asked, disturbed, missed, moves>>

\* Mutant: DELETE of what the folders hold by then.
DeleteDiscarded(p) ==
  LET rows == {r \in Rows : folder[r] \in Discarding} IN
  /\ purge[p].pc = "unlink" /\ purge[p].todo = {}
  /\ folder' = [r \in Rows |-> IF r \in rows THEN "gone" ELSE folder[r]]
  /\ old' = old \ rows
  /\ attached' = {f \in attached : f[1] \notin rows}
  /\ purge' = [purge EXCEPT ![p] = Idle]
  /\ UNCHANGED <<delivery, disk, history, moves, faults>>

\* DELETE by the ids that were selected; attachment rows go by cascade.
DeleteRows(p) ==
  /\ purge[p].pc = "unlink" /\ purge[p].todo = {}
  /\ folder' = [r \in Rows |-> IF r \in purge[p].rows THEN "gone" ELSE folder[r]]
  /\ old' = old \ purge[p].rows
  /\ attached' = {f \in attached : f[1] \notin purge[p].rows}
  /\ purge' = [purge EXCEPT ![p] = Idle]
  /\ UNCHANGED <<delivery, disk, history, moves, faults>>

\* A statement throws, or the process dies.
PurgeFails(p) ==
  /\ purge[p].pc # "idle" /\ Fault
  /\ purge' = [purge EXCEPT ![p] = Idle]
  /\ UNCHANGED <<delivery, disk, table, history, moves>>

-----------------------------------------------------------------------------

DeliveryStep(r) ==
  \/ Parse(r) \/ PersistAttachments(r) \/ InsertEmail(r) \/ InsertAttachments(r)
  \/ DeliveryFails(r) \/ Answer(r)

PurgeStep(p) == ListAttachments(p) \/ DeleteRows(p) \/ \E f \in Files : Unlink(p, f)

Request(p) ==
  \/ \E f \in Discarding : EmptySelect(p, f)
  \/ \E r \in Rows : PurgeSelect(p, r)

Next ==
  \/ \E m \in Mails : Deliver(m) \/ GiveUp(m)
  \/ \E r \in Rows :
       DeliveryStep(r) \/ Update(r) \/ Expires(r) \/ \E f \in Folders : MoveToFolder(r, f)
  \/ \E p \in Purgers : RetentionSelect(p) \/ Request(p) \/ PurgeStep(p) \/ PurgeFails(p)

Spec == Init /\ [][Next]_vars

\* The hourly timer fires again and again, and what it starts goes on.
FairSpec ==
  /\ Spec
  /\ WF_vars(\E p \in Purgers : RetentionSelect(p))
  /\ \A p \in Purgers : WF_vars(PurgeStep(p))

-----------------------------------------------------------------------------
(* Properties *)

\* Bytes are written before the rows that name them, and only a hard delete takes
\* them: an attachment of mail that none has selected can be opened.
RowHasBytes == \A f \in attached : f[1] \notin picked => f \in disk

\* What trash-retention.ts:69-71 promises: however a hard delete ends, bytes without
\* a row are left over only where an unlink failed, where the write itself failed
\* halfway, where the delivery that wrote them is not over or failed before their
\* rows were inserted, or where it was still inserting them when its mail was selected.
BytesHaveRow ==
  \A f \in disk \ attached :
    f \in stuck \cup torn \/ f[1] \in missed \/ post[f[1]] \in {"insert", "attach", "dead"}

\* Rows and files agree, but for what the two say.
DiskMatchesRows == RowHasBytes /\ BytesHaveRow

\* Mail the engine has answered 250 for was refused as a whole, or is stored with
\* every attachment that could be written, or has been given to a hard delete.
AcceptedIsStored ==
  \A m \in Mails : mta[m] = "accepted" =>
    \E r \in {m} \X (1..MaxTries) :
      \/ post[r] = "refused" \/ r \in picked
      \/ post[r] = "done" /\ Exists(r) /\ attached \cap FilesOf(r) = kept[r]

\* A row disappears only out of trash or spam, and only when its time has run out
\* or the user asked for it; unless somebody touched it while a delete held it.
OnlyDiscardedIsDeleted ==
  [][\A r \in Rows : folder'[r] = "gone" /\ Exists(r) =>
       r \in disturbed \/ (folder[r] \in Discarding /\ (r \in old \/ r \in asked))]_vars

\* Mail left in trash or spam past its time is deleted.
ExpiredIsDeleted ==
  \A r \in Rows : r \in old ~> r \notin old

-----------------------------------------------------------------------------
(* The abstract specification this module implements *)

\* A delivery counts as whole from the last INSERT on; who answers comes after.
ImplementedStore == INSTANCE MailStore WITH
  Copies <- Rows, Files <- Files,
  promised <- {m \in Mails : mta[m] = "accepted"},
  refused <- {r \in Rows : post[r] = "refused"},
  whole <- {r \in Rows : post[r] \in {"answer", "done"}},
  place <- folder, expired <- old,
  condemned <- {r \in Rows : Held(r)},
  opens <- attached \cap disk

\* Every step of a delivery or a hard delete is a step of MailStore or leaves its
\* view unchanged: a 250 follows the complete storing of some copy of the message,
\* and a row is destroyed only by a delete that chose it in trash or spam.
ImplementsMailStore == ImplementedStore!Spec

-----------------------------------------------------------------------------
(* The inductive invariant *)

Unstored == {"none", "parse", "store", "refuse", "refused"}

\* What a delivery has left behind at each of its statements; its files stay its own.
DeliverySoFar ==
  \A r \in Rows :
    /\ r[2] > tries[r[1]] => post[r] = "none"
    /\ kept[r] \subseteq FilesOf(r) /\ disk \cap FilesOf(r) \subseteq kept[r] \cup torn
    /\ kept[r] \cap torn = {} /\ (post[r] \in Unstored => torn \cap FilesOf(r) = {})
    /\ post[r] \in Unstored => kept[r] = {}
    /\ post[r] \in Unstored \cup {"insert"} => folder[r] = "none"
    /\ post[r] \in {"attach", "answer", "done"} => folder[r] # "none"
    /\ post[r] \in {"insert", "attach"} => kept[r] \subseteq disk

\* The rows of the attachments are there from the answer until the mail is deleted.
AttachedSoFar ==
  /\ \A f \in attached : post[f[1]] \in {"answer", "done"} /\ Exists(f[1]) /\ f \in kept[f[1]]
  /\ \A r \in Rows : post[r] \in {"answer", "done"} /\ Exists(r) => kept[r] \subseteq attached

\* A hard delete holds rows that it selected, and unlinks their files only.
HeldIsPicked ==
  /\ \A p \in Purgers :
       /\ purge[p].rows \subseteq picked /\ \A r \in purge[p].rows : folder[r] # "none"
       /\ \A f \in purge[p].todo : f[1] \in purge[p].rows /\ post[f[1]] \in {"answer", "done"}
       /\ purge[p].pc = "idle" => purge[p].rows = {}
  /\ \A r \in Rows : folder[r] = "gone" => r \in picked

\* What a hard delete has passed over while unlinking has its reason.
UnlinkedSoFar ==
  \A p \in Purgers : purge[p].pc = "unlink" =>
    \A r \in purge[p].rows :
      /\ post[r] = "attach" => r \in missed
      /\ \A f \in attached \cap disk : f[1] = r => f \in purge[p].todo \/ f \in stuck \/ r \in missed

\* The reason for which a row is held stays until somebody touches the row.
HeldForAReason ==
  \A p \in Purgers : \A r \in purge[p].rows : Exists(r) =>
    r \in disturbed \/ (folder[r] \in Discarding /\ (r \in old \/ r \in asked))

\* A 250 answers a delivery that was refused or that is over.
AcceptedIsOver ==
  \A m \in Mails : mta[m] = "accepted" =>
    \E r \in {m} \X (1..MaxTries) : post[r] \in {"refused", "done"}

\* Together these are preserved by every step.
MailboxInv ==
  /\ TypeOK /\ DeliverySoFar /\ AttachedSoFar /\ HeldIsPicked /\ UnlinkedSoFar
  /\ HeldForAReason /\ AcceptedIsOver /\ RowHasBytes /\ BytesHaveRow
=============================================================================
