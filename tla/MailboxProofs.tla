---------------------------- MODULE MailboxProofs ----------------------------
(***************************************************************************)
(* Mailbox for any number of messages, attachments, deliveries and hard    *)
(* deletes: rows and files agree but for the stated leftovers, mail that   *)
(* was answered with 250 is stored, and nothing is deleted that is neither *)
(* expired nor given up by the user.                                       *)
(***************************************************************************)
EXTENDS Mailbox, TLAPS

-----------------------------------------------------------------------------
(* What each action does, row by row *)

LEMMA FilesOfRow ==
  /\ \A r \in Rows : FilesOf(r) \subseteq Files
  /\ \A r \in Rows : \A f \in Files : f \in FilesOf(r) <=> f[1] = r
  /\ \A f \in Files : f[1] \in Rows
  /\ \A m \in Mails : \A r : r \in {m} \X (1..MaxTries) <=> r \in Rows /\ r[1] = m
  /\ \A r \in Rows : r[1] \in Mails /\ r[2] \in 1..MaxTries /\ r = <<r[1], r[2]>>
  BY DEF FilesOf, Files, Rows

Purges == [pc : PurgePcs, rows : SUBSET Rows, todo : SUBSET Files]

\* The fields of a hard delete in progress.
LEMMA PurgeFields ==
  ASSUME TypeOK, NEW p \in Purgers
  PROVE  purge[p] \in Purges /\ purge[p].rows \subseteq Rows /\ purge[p].todo \subseteq Files
  BY DEF TypeOK, Purges

OtherPosts(r) == \A s \in Rows \ {r} : post'[s] = post[s]
OtherPurges(p) == \A q \in Purgers \ {p} : purge'[q] = purge[q]

\* A statement of a delivery moves that delivery alone.
LEMMA MovesFacts ==
  ASSUME TypeOK, NEW r \in Rows, NEW from, NEW to \in PostPcs, Moves(r, from, to)
  PROVE  post[r] = from /\ post'[r] = to /\ OtherPosts(r) /\ post' \in [Rows -> PostPcs]
  BY DEF TypeOK, Moves, OtherPosts

LEMMA DeliverFacts ==
  ASSUME TypeOK, DeliverySoFar, NEW m \in Mails, Deliver(m)
  PROVE  \E r \in Rows :
           /\ r[1] = m /\ post[r] = "none" /\ post'[r] = "parse" /\ OtherPosts(r)
           /\ post' \in [Rows -> PostPcs]
           /\ tries' \in [Mails -> 0..MaxTries] /\ tries'[m] = r[2]
           /\ \A n \in Mails : tries[n] <= tries'[n]
           /\ mta' \in [Mails -> {"queued", "waiting", "accepted"}]
           /\ \A n \in Mails : mta'[n] = "accepted" => mta[n] = "accepted"
           /\ UNCHANGED <<disk, kept, torn, table, purge, history, moves, faults>>
<1> DEFINE r == <<m, tries[m] + 1>>
<1>1. tries[m] \in Nat /\ tries[m] < MaxTries /\ MaxTries \in Nat
  BY MailboxAssumption DEF Deliver, TypeOK
<1>2. r \in Rows /\ r[1] = m /\ r[2] = tries[m] + 1
  BY <1>1 DEF Rows
<1>3. post[r] = "none"
  BY <1>1, <1>2 DEF DeliverySoFar
<1>4. post'[r] = "parse" /\ OtherPosts(r) /\ post' \in [Rows -> PostPcs]
  BY <1>2 DEF Deliver, TypeOK, OtherPosts, PostPcs
<1>5. /\ tries' \in [Mails -> 0..MaxTries] /\ tries'[m] = r[2]
      /\ \A n \in Mails : tries[n] <= tries'[n]
  BY <1>1, <1>2 DEF Deliver, TypeOK
<1>6. /\ mta' \in [Mails -> {"queued", "waiting", "accepted"}]
      /\ \A n \in Mails : mta'[n] = "accepted" => mta[n] = "accepted"
  BY DEF Deliver, TypeOK
<1>7. UNCHANGED <<disk, kept, torn, table, purge, history, moves, faults>>
  BY DEF Deliver
<1> QED
  BY <1>2, <1>3, <1>4, <1>5, <1>6, <1>7

LEMMA HeardFacts ==
  ASSUME TypeOK, NEW r \in Rows, NEW reply \in {"queued", "accepted"}, Heard(r, reply)
  PROVE  /\ mta' \in [Mails -> {"queued", "waiting", "accepted"}]
         /\ \A m \in Mails : mta'[m] = mta[m] \/ (m = r[1] /\ mta'[m] = reply)
  BY FilesOfRow DEF Heard, TypeOK

LEMMA PersistFacts ==
  ASSUME TypeOK, NEW r \in Rows, PersistAttachments(r)
  PROVE  /\ post[r] = "store" /\ post'[r] = "insert" /\ OtherPosts(r)
         /\ disk \subseteq disk' /\ disk' \subseteq disk \cup FilesOf(r)
         /\ kept'[r] \subseteq FilesOf(r) \cap disk' /\ disk' \subseteq disk \cup kept'[r] \cup torn'
         /\ torn \subseteq torn' /\ torn' \subseteq torn \cup FilesOf(r) /\ kept'[r] \cap torn' \subseteq torn
         /\ \A s \in Rows \ {r} : kept'[s] = kept[s]
         /\ torn' \in SUBSET Files
         /\ post' \in [Rows -> PostPcs] /\ kept' \in [Rows -> SUBSET Files] /\ faults' \in 0..MaxFaults
         /\ UNCHANGED <<mta, tries, table, purge, history, moves>>
<1>1. post[r] = "store" /\ post'[r] = "insert" /\ OtherPosts(r) /\ post' \in [Rows -> PostPcs]
  BY MovesFacts DEF PersistAttachments, PostPcs
<1>2. PICK lost \in SUBSET FilesOf(r), part \in SUBSET FilesOf(r) :
        /\ part \subseteq lost
        /\ kept' = [kept EXCEPT ![r] = FilesOf(r) \ lost]
        /\ disk' = disk \cup (FilesOf(r) \ lost) \cup part
        /\ torn' = torn \cup part
        /\ IF lost = {} THEN UNCHANGED faults ELSE Fault
  BY DEF PersistAttachments
<1>3. FilesOf(r) \subseteq Files
  BY FilesOfRow
<1>4. /\ kept'[r] = FilesOf(r) \ lost /\ \A s \in Rows \ {r} : kept'[s] = kept[s]
      /\ kept' \in [Rows -> SUBSET Files]
  BY <1>2, <1>3 DEF TypeOK
<1>5. /\ disk \subseteq disk' /\ disk' \subseteq disk \cup FilesOf(r)
      /\ kept'[r] \subseteq FilesOf(r) \cap disk' /\ disk' \subseteq disk \cup kept'[r] \cup torn'
      /\ torn \subseteq torn' /\ torn' \subseteq torn \cup FilesOf(r) /\ kept'[r] \cap torn' \subseteq torn
  BY <1>2, <1>4
<1>6. torn' \in SUBSET Files
  BY <1>3, <1>5 DEF TypeOK
<1>7. faults' \in 0..MaxFaults
  BY <1>2, MailboxAssumption DEF Fault, TypeOK
<1> QED
  BY <1>1, <1>4, <1>5, <1>6, <1>7 DEF PersistAttachments

LEMMA InsertFacts ==
  ASSUME TypeOK, NEW r \in Rows, InsertEmail(r)
  PROVE  /\ post[r] = "insert" /\ post'[r] = (IF kept[r] = {} THEN "answer" ELSE "attach") /\ OtherPosts(r)
         /\ folder'[r] = "inbox" /\ \A s \in Rows \ {r} : folder'[s] = folder[s]
         /\ post' \in [Rows -> PostPcs] /\ folder' \in [Rows -> {"none", "gone"} \cup Folders]
         /\ UNCHANGED <<mta, tries, disk, kept, torn, old, attached, purge, history, moves, faults>>
<1>1. /\ post[r] = "insert" /\ post'[r] = (IF kept[r] = {} THEN "answer" ELSE "attach")
      /\ OtherPosts(r) /\ post' \in [Rows -> PostPcs]
  BY MovesFacts DEF InsertEmail, PostPcs
<1>2. /\ folder'[r] = "inbox" /\ \A s \in Rows \ {r} : folder'[s] = folder[s]
      /\ folder' \in [Rows -> {"none", "gone"} \cup Folders]
  BY DEF InsertEmail, TypeOK, Folders
<1> QED
  BY <1>1, <1>2 DEF InsertEmail

LEMMA AttachFacts ==
  ASSUME TypeOK, NEW r \in Rows, InsertAttachments(r)
  PROVE  /\ post[r] = "attach" /\ post'[r] = "answer" /\ OtherPosts(r) /\ Exists(r)
         /\ attached' = attached \cup kept[r]
         /\ post' \in [Rows -> PostPcs]
         /\ UNCHANGED <<mta, tries, disk, kept, torn, folder, old, purge, history, moves, faults>>
  BY MovesFacts DEF InsertAttachments, PostPcs

LEMMA FailsFacts ==
  ASSUME TypeOK, NEW r \in Rows, DeliveryFails(r)
  PROVE  /\ Busy(r) /\ post'[r] = (IF post[r] = "answer" THEN "done" ELSE "dead") /\ OtherPosts(r)
         /\ \A m \in Mails : mta'[m] = "accepted" => mta[m] = "accepted"
         /\ mta' \in [Mails -> {"queued", "waiting", "accepted"}]
         /\ post' \in [Rows -> PostPcs] /\ faults' \in 0..MaxFaults
         /\ UNCHANGED <<tries, disk, kept, torn, table, purge, history, moves>>
<1>1. /\ post'[r] = (IF post[r] = "answer" THEN "done" ELSE "dead") /\ OtherPosts(r)
      /\ post' \in [Rows -> PostPcs]
  BY DEF DeliveryFails, TypeOK, OtherPosts, PostPcs
<1>2. faults' \in 0..MaxFaults
  BY MailboxAssumption DEF DeliveryFails, Fault, TypeOK
<1> QED
  BY <1>1, <1>2, HeardFacts DEF DeliveryFails

LEMMA AnswerFacts ==
  ASSUME TypeOK, NEW r \in Rows, Answer(r)
  PROVE  /\ \/ post[r] = "answer" /\ post'[r] = "done"
            \/ post[r] = "refuse" /\ post'[r] = "refused"
         /\ OtherPosts(r) /\ post' \in [Rows -> PostPcs]
         /\ \A m \in Mails : mta'[m] = mta[m] \/ m = r[1]
         /\ mta' \in [Mails -> {"queued", "waiting", "accepted"}]
         /\ UNCHANGED <<tries, disk, kept, torn, table, purge, history, moves, faults>>
<1>1. /\ \/ post[r] = "answer" /\ post'[r] = "done"
         \/ post[r] = "refuse" /\ post'[r] = "refused"
      /\ OtherPosts(r) /\ post' \in [Rows -> PostPcs]
  BY MovesFacts DEF Answer, PostPcs
<1> QED
  BY <1>1, HeardFacts DEF Answer

LEMMA ParseFacts ==
  ASSUME TypeOK, NEW r \in Rows, Parse(r)
  PROVE  /\ post[r] = "parse" /\ post'[r] \in {"store", "refuse"} /\ OtherPosts(r)
         /\ post' \in [Rows -> PostPcs]
         /\ UNCHANGED <<mta, tries, disk, kept, torn, table, purge, history, moves, faults>>
<1>1. post[r] = "parse" /\ post'[r] \in {"store", "refuse"} /\ OtherPosts(r) /\ post' \in [Rows -> PostPcs]
  BY MovesFacts DEF Parse, PostPcs
<1> QED
  BY <1>1 DEF Parse
\* The user's updates and the passing of time.
UserStep ==
  \E r \in Rows : Update(r) \/ Expires(r) \/ \E to \in Folders : MoveToFolder(r, to)

LEMMA UserFacts ==
  ASSUME TypeOK, UserStep
  PROVE  /\ UNCHANGED <<delivery, disk, attached, purge, picked, asked, stuck, missed, faults>>
         /\ moves' \in 0..MaxMoves /\ old' \subseteq Rows /\ disturbed' \subseteq Rows
         /\ folder' \in [Rows -> {"none", "gone"} \cup Folders]
         /\ \A s \in Rows : folder'[s] # folder[s] => Exists(s) /\ folder'[s] \in Folders
         /\ disturbed \subseteq disturbed'
         /\ \A s \in Rows : Held(s) /\ s \notin disturbed' =>
              folder'[s] = folder[s] /\ (s \in old => s \in old')
<1> USE DEF history
<1>1. ASSUME NEW r \in Rows, Update(r)
      PROVE  /\ UNCHANGED <<delivery, disk, attached, purge, picked, asked, stuck, missed, faults, folder>>
             /\ old' = old \ {r} /\ disturbed' = IF Held(r) THEN disturbed \cup {r} ELSE disturbed
             /\ moves' \in 0..MaxMoves
  BY <1>1, MailboxAssumption DEF Update, Touched, TypeOK
<1>2. ASSUME NEW r \in Rows, Expires(r)
      PROVE  /\ UNCHANGED <<delivery, disk, attached, purge, history, faults, folder, moves>>
             /\ old' = old \cup {r}
  BY <1>2 DEF Expires
<1>3. ASSUME NEW r \in Rows, NEW to \in Folders, MoveToFolder(r, to)
      PROVE  /\ UNCHANGED <<delivery, disk, attached, purge, picked, asked, stuck, missed, faults>>
             /\ old' = old \ {r} /\ disturbed' = IF Held(r) THEN disturbed \cup {r} ELSE disturbed
             /\ moves' \in 0..MaxMoves /\ Exists(r)
             /\ folder' = [folder EXCEPT ![r] = to]
  BY <1>3, MailboxAssumption DEF MoveToFolder, Touched, TypeOK
<1>4. CASE \E r \in Rows : Update(r)
  BY <1>1, <1>4 DEF TypeOK
<1>5. CASE \E r \in Rows : Expires(r)
  BY <1>2, <1>5 DEF TypeOK
<1>6. CASE \E r \in Rows, to \in Folders : MoveToFolder(r, to)
  BY <1>3, <1>6 DEF TypeOK
<1> QED
  BY <1>4, <1>5, <1>6 DEF UserStep

Selects(p) == RetentionSelect(p) \/ Request(p)

LEMMA SelectFacts ==
  ASSUME TypeOK, NEW p \in Purgers, Selects(p)
  PROVE  \E rows \in SUBSET Rows :
           /\ purge[p].pc = "idle" /\ OtherPurges(p)
           /\ purge'[p] = [pc |-> "list", rows |-> rows, todo |-> {}]
           /\ purge' \in [Purgers -> Purges]
           /\ picked' = picked \cup rows /\ asked \subseteq asked' /\ asked' \subseteq asked \cup rows
           /\ \A r \in rows : folder[r] \in Discarding /\ (r \in old \/ r \in asked')
           /\ UNCHANGED <<delivery, disk, table, disturbed, stuck, missed, moves, faults>>
<1>1. ASSUME NEW rows \in SUBSET Rows, Select(p, rows)
      PROVE  /\ purge[p].pc = "idle" /\ OtherPurges(p)
             /\ purge'[p] = [pc |-> "list", rows |-> rows, todo |-> {}]
             /\ purge' \in [Purgers -> Purges]
             /\ picked' = picked \cup rows
             /\ UNCHANGED <<delivery, disk, table, disturbed, stuck, missed, moves, faults>>
<2>1. [pc |-> "list", rows |-> rows, todo |-> {}] \in Purges
  BY DEF Purges, PurgePcs
<2> QED
  BY <1>1, <2>1 DEF Select, TypeOK, Purges, OtherPurges
<1>2. CASE RetentionSelect(p)
<2>1. PICK f \in Discarding : \E rows \in SUBSET {r \in Rows : folder[r] = f /\ r \in old} :
        Select(p, rows) /\ UNCHANGED asked
  BY <1>2 DEF RetentionSelect
<2>2. PICK rows \in SUBSET {r \in Rows : folder[r] = f /\ r \in old} : Select(p, rows) /\ UNCHANGED asked
  BY <2>1
<2>3. rows \in SUBSET Rows /\ \A r \in rows : folder[r] \in Discarding /\ r \in old
  BY <2>2
<2> QED
  BY <1>1, <2>2, <2>3
<1>3. ASSUME NEW f \in Discarding, EmptySelect(p, f)
      PROVE  \E rows \in SUBSET Rows :
               Select(p, rows) /\ asked' = asked \cup rows /\ \A r \in rows : folder[r] \in Discarding
<2> DEFINE rows == {r \in Rows : folder[r] = f}
<2>1. Select(p, rows) /\ asked' = asked \cup rows
  BY <1>3 DEF EmptySelect
<2>2. rows \in SUBSET Rows /\ \A r \in rows : folder[r] \in Discarding
  OBVIOUS
<2> QED
  BY <2>1, <2>2
<1>4. ASSUME NEW r \in Rows, PurgeSelect(p, r)
      PROVE  \E rows \in SUBSET Rows :
               Select(p, rows) /\ asked' = asked \cup rows /\ \A s \in rows : folder[s] \in Discarding
<2>1. Select(p, {r}) /\ asked' = asked \cup {r} /\ folder[r] \in Discarding
  BY <1>4 DEF PurgeSelect, Discarding
<2> QED
  BY <2>1
<1>5. CASE Request(p)
<2>1. PICK rows \in SUBSET Rows :
        Select(p, rows) /\ asked' = asked \cup rows /\ \A r \in rows : folder[r] \in Discarding
  BY <1>3, <1>4, <1>5 DEF Request
<2> QED
  BY <1>1, <2>1
<1> QED
  BY <1>2, <1>5 DEF Selects

LEMMA ListFacts ==
  ASSUME TypeOK, NEW p \in Purgers, ListAttachments(p)
  PROVE  /\ purge[p].pc = "list" /\ purge'[p].pc = "unlink" /\ purge'[p].rows = purge[p].rows
         /\ purge'[p].todo = {f \in attached : f[1] \in purge[p].rows}
         /\ OtherPurges(p) /\ purge' \in [Purgers -> Purges]
         /\ missed' = missed \cup {r \in purge[p].rows : post[r] = "attach"}
         /\ UNCHANGED <<delivery, disk, table, picked, asked, disturbed, stuck, moves, faults>>
<1> DEFINE todo == {f \in attached : f[1] \in purge[p].rows}
<1>1. [purge[p] EXCEPT !.pc = "unlink", !.todo = todo] \in Purges
  BY PurgeFields DEF Purges, PurgePcs, TypeOK
<1>2. purge' = [purge EXCEPT ![p] = [purge[p] EXCEPT !.pc = "unlink", !.todo = todo]]
  BY DEF ListAttachments
<1>3. purge'[p] = [purge[p] EXCEPT !.pc = "unlink", !.todo = todo]
      /\ OtherPurges(p) /\ purge' \in [Purgers -> Purges]
  BY <1>1, <1>2 DEF TypeOK, Purges, OtherPurges
<1> QED
  BY <1>3, PurgeFields DEF ListAttachments, Purges

LEMMA UnlinkFacts ==
  ASSUME TypeOK, NEW p \in Purgers, NEW f \in Files, Unlink(p, f)
  PROVE  /\ purge[p].pc = "unlink" /\ purge'[p].pc = "unlink" /\ purge'[p].rows = purge[p].rows
         /\ f \in purge[p].todo /\ purge'[p].todo = purge[p].todo \ {f}
         /\ OtherPurges(p) /\ purge' \in [Purgers -> Purges]
         /\ disk \ {f} \subseteq disk' /\ disk' \subseteq disk
         /\ stuck \subseteq stuck' /\ stuck' \subseteq Files /\ (f \in disk' => f \in stuck')
         /\ faults' \in 0..MaxFaults
         /\ UNCHANGED <<delivery, table, picked, asked, disturbed, missed, moves>>
<1>1. [purge[p] EXCEPT !.todo = purge[p].todo \ {f}] \in Purges
  BY PurgeFields DEF Purges
<1>2. purge' = [purge EXCEPT ![p] = [purge[p] EXCEPT !.todo = purge[p].todo \ {f}]]
  BY DEF Unlink
<1>3. purge'[p] = [purge[p] EXCEPT !.todo = purge[p].todo \ {f}]
      /\ OtherPurges(p) /\ purge' \in [Purgers -> Purges]
  BY <1>1, <1>2 DEF TypeOK, Purges, OtherPurges
<1>4. purge'[p].pc = purge[p].pc /\ purge'[p].rows = purge[p].rows /\ purge'[p].todo = purge[p].todo \ {f}
  BY <1>3, PurgeFields DEF Purges
<1>5. /\ disk \ {f} \subseteq disk' /\ disk' \subseteq disk
      /\ stuck \subseteq stuck' /\ stuck' \subseteq Files /\ (f \in disk' => f \in stuck')
      /\ faults' \in 0..MaxFaults
  BY MailboxAssumption DEF Unlink, Fault, TypeOK
<1> QED
  BY <1>3, <1>4, <1>5 DEF Unlink

LEMMA DeleteFacts ==
  ASSUME TypeOK, NEW p \in Purgers, DeleteRows(p)
  PROVE  /\ purge[p].pc = "unlink" /\ purge[p].todo = {} /\ purge'[p] = Idle
         /\ OtherPurges(p) /\ purge' \in [Purgers -> Purges]
         /\ \A r \in Rows : folder'[r] = IF r \in purge[p].rows THEN "gone" ELSE folder[r]
         /\ folder' \in [Rows -> {"none", "gone"} \cup Folders]
         /\ old' = old \ purge[p].rows /\ attached' = {f \in attached : f[1] \notin purge[p].rows}
         /\ UNCHANGED <<delivery, disk, history, moves, faults>>
<1>1. Idle \in Purges
  BY DEF Idle, Purges, PurgePcs
<1>2. purge'[p] = Idle /\ OtherPurges(p) /\ purge' \in [Purgers -> Purges]
  BY <1>1 DEF DeleteRows, TypeOK, Purges, OtherPurges
<1>3. /\ \A r \in Rows : folder'[r] = IF r \in purge[p].rows THEN "gone" ELSE folder[r]
      /\ folder' \in [Rows -> {"none", "gone"} \cup Folders]
  BY DEF DeleteRows, TypeOK
<1> QED
  BY <1>2, <1>3 DEF DeleteRows

LEMMA PurgeFailsFacts ==
  ASSUME TypeOK, NEW p \in Purgers, PurgeFails(p)
  PROVE  /\ purge'[p] = Idle /\ OtherPurges(p) /\ purge' \in [Purgers -> Purges]
         /\ faults' \in 0..MaxFaults
         /\ UNCHANGED <<delivery, disk, table, history, moves>>
<1>1. Idle \in Purges
  BY DEF Idle, Purges, PurgePcs
<1>2. purge'[p] = Idle /\ OtherPurges(p) /\ purge' \in [Purgers -> Purges]
  BY <1>1 DEF PurgeFails, TypeOK, Purges, OtherPurges
<1> QED
  BY <1>2, MailboxAssumption DEF PurgeFails, Fault, TypeOK

LEMMA GiveUpFacts ==
  ASSUME TypeOK, NEW m \in Mails, GiveUp(m)
  PROVE  /\ \A n \in Mails : mta'[n] = "accepted" => mta[n] = "accepted"
         /\ mta' \in [Mails -> {"queued", "waiting", "accepted"}] /\ faults' \in 0..MaxFaults
         /\ UNCHANGED <<tries, post, disk, kept, torn, table, purge, history, moves>>
  BY MailboxAssumption DEF GiveUp, Fault, TypeOK
-----------------------------------------------------------------------------
(* Type correctness *)

\* A statement of a hard delete.
Purging(p) == Selects(p) \/ PurgeStep(p) \/ PurgeFails(p)

LEMMA Cases ==
  ASSUME [Next]_vars
  PROVE  \/ \E m \in Mails : Deliver(m) \/ GiveUp(m)
         \/ \E r \in Rows : DeliveryStep(r)
         \/ UserStep
         \/ \E p \in Purgers : Purging(p)
         \/ UNCHANGED vars
  BY DEF Next, UserStep, Purging, Selects

LEMMA TypeInit == Init => TypeOK
<1> SUFFICES ASSUME Init PROVE TypeOK
  OBVIOUS
<1>1. Idle \in Purges
  BY DEF Idle, Purges, PurgePcs
<1>2. 0 \in 0..MaxTries /\ 0 \in 0..MaxMoves /\ 0 \in 0..MaxFaults
  BY MailboxAssumption
<1> QED
  BY <1>1, <1>2 DEF Init, TypeOK, Purges, PostPcs

LEMMA TypeStep == TypeOK /\ DeliverySoFar /\ [Next]_vars => TypeOK'
<1> SUFFICES ASSUME TypeOK, DeliverySoFar, [Next]_vars PROVE TypeOK'
  OBVIOUS
<1> USE DEF delivery, table, history
<1>1. ASSUME NEW m \in Mails, Deliver(m) PROVE TypeOK'
  BY <1>1, DeliverFacts DEF TypeOK
<1>2. ASSUME NEW m \in Mails, GiveUp(m) PROVE TypeOK'
  BY <1>2, GiveUpFacts DEF TypeOK
<1>3. ASSUME NEW r \in Rows, DeliveryStep(r) PROVE TypeOK'
<2>1. CASE Parse(r)
  BY <2>1, ParseFacts DEF TypeOK
<2>2. CASE PersistAttachments(r)
  BY <2>2, PersistFacts, FilesOfRow DEF TypeOK
<2>3. CASE InsertEmail(r)
  BY <2>3, InsertFacts DEF TypeOK
<2>4. CASE InsertAttachments(r)
  BY <2>4, AttachFacts DEF TypeOK
<2>5. CASE DeliveryFails(r)
  BY <2>5, FailsFacts DEF TypeOK
<2>6. CASE Answer(r)
  BY <2>6, AnswerFacts DEF TypeOK
<2> QED
  BY <1>3, <2>1, <2>2, <2>3, <2>4, <2>5, <2>6 DEF DeliveryStep
<1>4. ASSUME UserStep PROVE TypeOK'
  BY <1>4, UserFacts DEF TypeOK
<1>5. ASSUME NEW p \in Purgers, Purging(p) PROVE TypeOK'
<2>1. CASE Selects(p)
  BY <2>1, SelectFacts DEF TypeOK, Purges
<2>2. CASE ListAttachments(p)
  BY <2>2, ListFacts, PurgeFields DEF TypeOK, Purges
<2>3. ASSUME NEW f \in Files, Unlink(p, f) PROVE TypeOK'
  BY <2>3, UnlinkFacts DEF TypeOK, Purges
<2>4. CASE DeleteRows(p)
  BY <2>4, DeleteFacts DEF TypeOK, Purges
<2>5. CASE PurgeFails(p)
  BY <2>5, PurgeFailsFacts DEF TypeOK, Purges
<2> QED
  BY <1>5, <2>1, <2>2, <2>3, <2>4, <2>5 DEF Purging, PurgeStep
<1>6. CASE UNCHANGED vars
  BY <1>6 DEF vars, TypeOK
<1> QED
  BY <1>1, <1>2, <1>3, <1>4, <1>5, <1>6, Cases

-----------------------------------------------------------------------------
(* What deliveries leave behind *)

\* What hard deletes, the user and the engine do to rows and files that a delivery
\* still works on: nothing.
LEMMA ElsewhereFacts ==
  ASSUME TypeOK, HeldIsPicked,
         UserStep \/ (\E p \in Purgers : Purging(p)) \/ (\E m \in Mails : GiveUp(m)) \/ UNCHANGED vars
  PROVE  /\ UNCHANGED <<tries, post, kept, torn>> /\ disk' \subseteq disk
         /\ \A m \in Mails : mta'[m] = "accepted" => mta[m] = "accepted"
         /\ \A r \in Rows : folder'[r] = "none" <=> folder[r] = "none"
         /\ \A f \in disk : post[f[1]] \notin {"answer", "done"} => f \in disk'
<1> USE DEF delivery, table, history
<1>1. ASSUME UserStep
      PROVE  /\ UNCHANGED <<mta, tries, post, kept, torn, disk>>
             /\ \A r \in Rows : folder'[r] = "none" <=> folder[r] = "none"
  BY <1>1, UserFacts DEF Exists, Folders, Discarding
<1>2. ASSUME NEW p \in Purgers, Selects(p) \/ ListAttachments(p) \/ PurgeFails(p)
      PROVE  UNCHANGED <<mta, tries, post, kept, torn, disk, folder>>
  BY <1>2, SelectFacts, ListFacts, PurgeFailsFacts
<1>3. ASSUME NEW p \in Purgers, NEW f \in Files, Unlink(p, f)
      PROVE  /\ UNCHANGED <<mta, tries, post, kept, torn, folder>> /\ disk' \subseteq disk
             /\ \A g \in disk : post[g[1]] \notin {"answer", "done"} => g \in disk'
  BY <1>3, UnlinkFacts DEF HeldIsPicked
<1>4. ASSUME NEW p \in Purgers, DeleteRows(p)
      PROVE  /\ UNCHANGED <<mta, tries, post, kept, torn, disk>>
             /\ \A r \in Rows : folder'[r] = "none" <=> folder[r] = "none"
  BY <1>4, DeleteFacts DEF HeldIsPicked
<1>5. CASE \E p \in Purgers : Purging(p)
  BY <1>2, <1>3, <1>4, <1>5 DEF Purging, PurgeStep
<1>6. CASE UNCHANGED vars
  BY <1>6 DEF vars
<1> QED
  BY <1>1, <1>5, <1>6, GiveUpFacts

LEMMA DeliveryStepKeeps ==
  TypeOK /\ HeldIsPicked /\ DeliverySoFar /\ [Next]_vars => DeliverySoFar'
<1> SUFFICES ASSUME TypeOK, HeldIsPicked, DeliverySoFar, [Next]_vars PROVE DeliverySoFar'
  OBVIOUS
<1> USE DEF delivery, table, history, Unstored
<1>0. \A r \in Rows : tries[r[1]] \in Nat /\ r[2] \in Nat /\ r[1] \in Mails
  BY MailboxAssumption, FilesOfRow DEF TypeOK
<1>1. ASSUME NEW m \in Mails, Deliver(m) PROVE DeliverySoFar'
<2>1. PICK r \in Rows :
        /\ r[1] = m /\ post[r] = "none" /\ post'[r] = "parse" /\ OtherPosts(r)
        /\ tries' \in [Mails -> 0..MaxTries] /\ tries'[m] = r[2]
        /\ \A n \in Mails : tries[n] <= tries'[n]
        /\ UNCHANGED <<disk, kept, torn, folder>>
  BY <1>1, DeliverFacts
<2>2. ASSUME NEW s \in Rows, s[2] > tries'[s[1]] PROVE post'[s] = "none"
  <3>1. tries'[s[1]] \in Nat /\ s # r
    BY <1>0, <2>1, <2>2, MailboxAssumption
  <3> QED
    BY <1>0, <2>1, <2>2, <3>1 DEF DeliverySoFar, OtherPosts
<2> QED
  BY <2>1, <2>2 DEF DeliverySoFar, OtherPosts
<1>2. ASSUME NEW r \in Rows, DeliveryStep(r) PROVE DeliverySoFar'
<2>1. CASE Parse(r)
  BY <2>1, ParseFacts DEF DeliverySoFar, OtherPosts
<2>2. CASE PersistAttachments(r)
  <3>0. /\ post[r] = "store" /\ post'[r] = "insert" /\ OtherPosts(r)
        /\ disk \subseteq disk' /\ disk' \subseteq disk \cup FilesOf(r)
        /\ kept'[r] \subseteq FilesOf(r) \cap disk' /\ disk' \subseteq disk \cup kept'[r] \cup torn'
        /\ torn \subseteq torn' /\ torn' \subseteq torn \cup FilesOf(r) /\ kept'[r] \cap torn' \subseteq torn
        /\ \A s \in Rows \ {r} : kept'[s] = kept[s]
        /\ UNCHANGED <<tries, folder>>
    BY <2>2, PersistFacts
  <3>1. \A s \in Rows \ {r} :
          disk' \cap FilesOf(s) = disk \cap FilesOf(s) /\ torn' \cap FilesOf(s) = torn \cap FilesOf(s)
    BY <3>0, FilesOfRow
  <3>2. \A s \in Rows \ {r} :
          /\ s[2] > tries'[s[1]] => post'[s] = "none"
          /\ kept'[s] \subseteq FilesOf(s) /\ disk' \cap FilesOf(s) \subseteq kept'[s] \cup torn'
          /\ kept'[s] \cap torn' = {} /\ (post'[s] \in Unstored => torn' \cap FilesOf(s) = {})
          /\ post'[s] \in Unstored => kept'[s] = {}
          /\ post'[s] \in Unstored \cup {"insert"} => folder'[s] = "none"
          /\ post'[s] \in {"attach", "answer", "done"} => folder'[s] # "none"
          /\ post'[s] \in {"insert", "attach"} => kept'[s] \subseteq disk'
    <4> SUFFICES ASSUME NEW s \in Rows \ {r}
                 PROVE  /\ s[2] > tries'[s[1]] => post'[s] = "none"
                        /\ kept'[s] \subseteq FilesOf(s) /\ disk' \cap FilesOf(s) \subseteq kept'[s] \cup torn'
                        /\ kept'[s] \cap torn' = {} /\ (post'[s] \in Unstored => torn' \cap FilesOf(s) = {})
                        /\ post'[s] \in Unstored => kept'[s] = {}
                        /\ post'[s] \in Unstored \cup {"insert"} => folder'[s] = "none"
                        /\ post'[s] \in {"attach", "answer", "done"} => folder'[s] # "none"
                        /\ post'[s] \in {"insert", "attach"} => kept'[s] \subseteq disk'
      OBVIOUS
    <4>1. /\ post'[s] = post[s] /\ kept'[s] = kept[s] /\ folder'[s] = folder[s] /\ tries' = tries
          /\ disk' \cap FilesOf(s) = disk \cap FilesOf(s) /\ torn' \cap FilesOf(s) = torn \cap FilesOf(s)
      BY <3>0, <3>1 DEF OtherPosts
    <4>2. /\ s[2] > tries[s[1]] => post[s] = "none"
          /\ kept[s] \subseteq FilesOf(s) /\ disk \cap FilesOf(s) \subseteq kept[s] \cup torn
          /\ kept[s] \cap torn = {} /\ (post[s] \in Unstored => torn \cap FilesOf(s) = {})
          /\ post[s] \in Unstored => kept[s] = {}
          /\ post[s] \in Unstored \cup {"insert"} => folder[s] = "none"
          /\ post[s] \in {"attach", "answer", "done"} => folder[s] # "none"
          /\ post[s] \in {"insert", "attach"} => kept[s] \subseteq disk
      BY DEF DeliverySoFar
    <4>3. /\ kept[s] \cap torn' = {} /\ disk' \cap FilesOf(s) \subseteq kept[s] \cup torn'
          /\ kept[s] \subseteq disk => kept[s] \subseteq disk'
      BY <3>0, <4>1, <4>2
    <4> QED
      BY <4>1, <4>2, <4>3
  <3>3. /\ ~(r[2] > tries'[r[1]])
        /\ kept'[r] \subseteq FilesOf(r) /\ disk' \cap FilesOf(r) \subseteq kept'[r] \cup torn'
        /\ kept'[r] \cap torn' = {}
        /\ folder'[r] = "none" /\ kept'[r] \subseteq disk'
    <4>1. torn \cap FilesOf(r) = {} /\ disk \cap FilesOf(r) = {} /\ ~(r[2] > tries[r[1]]) /\ folder[r] = "none"
      BY <3>0 DEF DeliverySoFar
    <4> QED
      BY <3>0, <4>1
  <3> QED
    BY <3>0, <3>2, <3>3 DEF DeliverySoFar
<2>3. CASE InsertEmail(r)
  BY <2>3, InsertFacts DEF DeliverySoFar, OtherPosts
<2>4. CASE InsertAttachments(r)
  BY <2>4, AttachFacts DEF DeliverySoFar, OtherPosts, Exists, Folders, Discarding
<2>5. CASE DeliveryFails(r)
  BY <2>5, FailsFacts DEF DeliverySoFar, OtherPosts, Busy
<2>6. CASE Answer(r)
  BY <2>6, AnswerFacts DEF DeliverySoFar, OtherPosts
<2> QED
  BY <1>2, <2>1, <2>2, <2>3, <2>4, <2>5, <2>6 DEF DeliveryStep
<1>3. ASSUME UNCHANGED <<tries, post, kept, torn>>, disk' \subseteq disk,
             \A r \in Rows : folder'[r] = "none" <=> folder[r] = "none",
             \A f \in disk : post[f[1]] \notin {"answer", "done"} => f \in disk'
      PROVE  DeliverySoFar'
<2>1. ASSUME NEW r \in Rows, post[r] \in {"insert", "attach"} PROVE kept[r] \subseteq disk'
  <3>1. \A f \in kept[r] : f \in disk /\ f[1] = r
    BY <2>1, FilesOfRow DEF DeliverySoFar
  <3> QED
    BY <1>3, <2>1, <3>1
<2> QED
  BY <1>3, <2>1 DEF DeliverySoFar
<1> QED
  BY <1>1, <1>2, <1>3, Cases, ElsewhereFacts

LEMMA AttachedStep ==
  TypeOK /\ HeldIsPicked /\ DeliverySoFar /\ AttachedSoFar /\ [Next]_vars => AttachedSoFar'
<1> SUFFICES ASSUME TypeOK, HeldIsPicked, DeliverySoFar, AttachedSoFar, [Next]_vars PROVE AttachedSoFar'
  OBVIOUS
<1> USE DEF delivery, table, history
<1>0. \A f \in attached : f \in Files /\ f[1] \in Rows
  BY FilesOfRow DEF TypeOK
<1>1. ASSUME NEW r \in Rows, OtherPosts(r), post[r] \notin {"answer", "done"}, post'[r] \notin {"answer", "done"},
             \A s \in Rows \ {r} : kept'[s] = kept[s], UNCHANGED <<attached, folder>>
      PROVE  AttachedSoFar'
  BY <1>0, <1>1 DEF AttachedSoFar, OtherPosts, Exists
<1>2. ASSUME NEW m \in Mails, Deliver(m) PROVE AttachedSoFar'
  BY <1>1, <1>2, DeliverFacts
<1>3. ASSUME NEW r \in Rows, DeliveryStep(r) PROVE AttachedSoFar'
<2>1. CASE Parse(r)
  BY <1>1, <2>1, ParseFacts
<2>2. CASE PersistAttachments(r)
  BY <1>1, <2>2, PersistFacts
<2>3. CASE InsertEmail(r)
  <3>1. \A f \in attached : f[1] # r
    BY <2>3, InsertFacts DEF AttachedSoFar
  <3> QED
    BY <1>0, <2>3, <3>1, InsertFacts DEF AttachedSoFar, OtherPosts, Exists
<2>4. CASE InsertAttachments(r)
  <3>1. \A f \in kept[r] : f[1] = r
    BY FilesOfRow DEF DeliverySoFar
  <3>2. \A f \in attached : f[1] # r
    BY <2>4, AttachFacts DEF AttachedSoFar
  <3> QED
    BY <1>0, <2>4, <3>1, <3>2, AttachFacts DEF AttachedSoFar, OtherPosts, Exists
<2>5. CASE DeliveryFails(r)
  BY <1>0, <2>5, FailsFacts DEF AttachedSoFar, OtherPosts, Exists, Busy
<2>6. CASE Answer(r)
  BY <1>0, <2>6, AnswerFacts DEF AttachedSoFar, OtherPosts, Exists
<2> QED
  BY <1>3, <2>1, <2>2, <2>3, <2>4, <2>5, <2>6 DEF DeliveryStep
<1>4. ASSUME UNCHANGED <<post, kept, torn, attached>>, \A r \in Rows : Exists(r)' <=> Exists(r) PROVE AttachedSoFar'
  BY <1>0, <1>4 DEF AttachedSoFar
<1>5. ASSUME UserStep PROVE AttachedSoFar'
<2>1. UNCHANGED <<post, kept, torn, attached>> /\ \A r \in Rows : Exists(r)' <=> Exists(r)
  BY <1>5, UserFacts DEF Exists
<2> QED
  BY <1>4, <2>1
<1>6. ASSUME NEW p \in Purgers, DeleteRows(p) PROVE AttachedSoFar'
<2>1. \A r \in Rows : Exists(r)' <=> Exists(r) /\ r \notin purge[p].rows
  BY <1>6, DeleteFacts DEF Exists, Folders, Discarding
<2>2. UNCHANGED <<post, kept, torn>> /\ attached' = {f \in attached : f[1] \notin purge[p].rows}
  BY <1>6, DeleteFacts
<2>3. \A r \in Rows \ purge[p].rows : kept[r] \subseteq attached => kept[r] \subseteq attached'
  BY <2>2, FilesOfRow DEF DeliverySoFar
<2> QED
  BY <1>0, <2>1, <2>2, <2>3 DEF AttachedSoFar
<1>7. ASSUME NEW p \in Purgers, Purging(p), ~DeleteRows(p) PROVE AttachedSoFar'
<2>1. UNCHANGED <<post, kept, torn, attached, folder>>
  BY <1>7, SelectFacts, ListFacts, UnlinkFacts, PurgeFailsFacts DEF Purging, PurgeStep
<2> QED
  BY <1>4, <2>1 DEF Exists
<1>8. CASE UNCHANGED vars \/ \E m \in Mails : GiveUp(m)
  BY <1>4, <1>8, GiveUpFacts DEF vars, Exists
<1> QED
  BY <1>2, <1>3, <1>5, <1>6, <1>7, <1>8, Cases
-----------------------------------------------------------------------------
(* What hard deletes hold *)

\* Deliveries do not touch the hard deletes, and rows once answered stay so.
LEMMA DeliveryFacts ==
  ASSUME TypeOK, DeliverySoFar, (\E m \in Mails : Deliver(m) \/ GiveUp(m)) \/ (\E r \in Rows : DeliveryStep(r))
  PROVE  /\ UNCHANGED <<purge, old, history>> /\ disk \subseteq disk' /\ attached \subseteq attached'
         /\ \A r \in Rows : folder'[r] = folder[r] \/ (folder[r] = "none" /\ folder'[r] = "inbox")
         /\ \A r \in Rows : post[r] \in {"answer", "done"} => post'[r] \in {"answer", "done"}
         /\ \A r \in Rows : post[r] \in {"refused", "done"} => post'[r] = post[r]
         /\ \A r \in Rows : post'[r] = "attach" => post[r] = "attach" \/ folder[r] = "none"
<1> USE DEF delivery, table
<1>1. ASSUME NEW m \in Mails, Deliver(m)
      PROVE  /\ UNCHANGED <<purge, old, history, disk, attached, folder>>
             /\ \A r \in Rows : post'[r] = post[r] \/ (post[r] = "none" /\ post'[r] = "parse")
  BY <1>1, DeliverFacts DEF OtherPosts
<1>2. ASSUME NEW m \in Mails, GiveUp(m) PROVE UNCHANGED <<purge, old, history, disk, attached, folder, post>>
  BY <1>2, GiveUpFacts
<1>3. ASSUME NEW r \in Rows, Parse(r) \/ DeliveryFails(r) \/ Answer(r)
      PROVE  /\ UNCHANGED <<purge, old, history, disk, attached, folder>> /\ OtherPosts(r)
             /\ post[r] \notin {"refused", "done"} /\ post'[r] # "attach"
             /\ post[r] = "answer" => post'[r] = "done"
  BY <1>3, ParseFacts, FailsFacts, AnswerFacts DEF Busy
<1>4. ASSUME NEW r \in Rows, PersistAttachments(r)
      PROVE  /\ UNCHANGED <<purge, old, history, attached, folder>> /\ disk \subseteq disk' /\ OtherPosts(r)
             /\ post[r] = "store" /\ post'[r] = "insert"
  BY <1>4, PersistFacts
<1>5. ASSUME NEW r \in Rows, InsertEmail(r)
      PROVE  /\ UNCHANGED <<purge, old, history, attached, disk>> /\ OtherPosts(r)
             /\ post[r] = "insert" /\ folder[r] = "none" /\ folder'[r] = "inbox"
             /\ \A s \in Rows \ {r} : folder'[s] = folder[s]
  BY <1>5, InsertFacts DEF DeliverySoFar
<1>6. ASSUME NEW r \in Rows, InsertAttachments(r)
      PROVE  /\ UNCHANGED <<purge, old, history, folder, disk>> /\ OtherPosts(r)
             /\ post[r] = "attach" /\ post'[r] = "answer" /\ attached \subseteq attached'
  BY <1>6, AttachFacts
<1>7. CASE \E m \in Mails : Deliver(m) \/ GiveUp(m)
  BY <1>1, <1>2, <1>7
<1>8. ASSUME NEW r \in Rows, DeliveryStep(r)
      PROVE  /\ UNCHANGED <<purge, old, history>> /\ disk \subseteq disk' /\ attached \subseteq attached'
             /\ \A s \in Rows : folder'[s] = folder[s] \/ (folder[s] = "none" /\ folder'[s] = "inbox")
             /\ \A s \in Rows : post[s] \in {"answer", "done"} => post'[s] \in {"answer", "done"}
             /\ \A s \in Rows : post[s] \in {"refused", "done"} => post'[s] = post[s]
             /\ \A s \in Rows : post'[s] = "attach" => post[s] = "attach" \/ folder[s] = "none"
<2>1. CASE Parse(r) \/ DeliveryFails(r) \/ Answer(r)
  BY <1>3, <2>1 DEF OtherPosts
<2>2. CASE PersistAttachments(r)
  BY <1>4, <2>2 DEF OtherPosts
<2>3. CASE InsertEmail(r)
  BY <1>5, <2>3 DEF OtherPosts
<2>4. CASE InsertAttachments(r)
  BY <1>6, <2>4 DEF OtherPosts
<2> QED
  BY <1>8, <2>1, <2>2, <2>3, <2>4 DEF DeliveryStep
<1> QED
  BY <1>7, <1>8

LEMMA HeldStep == TypeOK /\ DeliverySoFar /\ AttachedSoFar /\ HeldIsPicked /\ [Next]_vars => HeldIsPicked'
<1> SUFFICES ASSUME TypeOK, DeliverySoFar, AttachedSoFar, HeldIsPicked, [Next]_vars PROVE HeldIsPicked'
  OBVIOUS
<1> USE DEF delivery, table, history
<1>0. /\ \A f \in attached : f \in Files /\ f[1] \in Rows
      /\ \A q \in Purgers : purge[q].rows \subseteq Rows /\ purge[q].todo \subseteq Files
      /\ \A f \in Files : f[1] \in Rows
  BY FilesOfRow, PurgeFields DEF TypeOK
<1>1. CASE (\E m \in Mails : Deliver(m) \/ GiveUp(m)) \/ (\E r \in Rows : DeliveryStep(r))
<2>1. /\ UNCHANGED <<purge, picked>>
      /\ \A r \in Rows : folder'[r] = folder[r] \/ (folder[r] = "none" /\ folder'[r] = "inbox")
      /\ \A r \in Rows : post[r] \in {"answer", "done"} => post'[r] \in {"answer", "done"}
  BY <1>1, DeliveryFacts
<2> QED
  BY <1>0, <2>1 DEF HeldIsPicked
<1>2. CASE UserStep
<2>1. /\ UNCHANGED <<purge, picked, post>>
      /\ \A s \in Rows : folder'[s] # folder[s] => folder'[s] \notin {"none", "gone"}
  BY <1>2, UserFacts DEF Folders, Discarding
<2> QED
  BY <1>0, <2>1 DEF HeldIsPicked
<1>3. ASSUME NEW p \in Purgers, Selects(p) PROVE HeldIsPicked'
<2>1. PICK rows \in SUBSET Rows :
        /\ OtherPurges(p) /\ purge'[p] = [pc |-> "list", rows |-> rows, todo |-> {}]
        /\ picked' = picked \cup rows /\ \A r \in rows : folder[r] \in Discarding
        /\ UNCHANGED <<post, folder>>
  BY <1>3, SelectFacts
<2>2. purge'[p].pc = "list" /\ purge'[p].rows = rows /\ purge'[p].todo = {}
  BY <2>1
<2> QED
  BY <2>1, <2>2 DEF HeldIsPicked, OtherPurges, Discarding
<1>4. ASSUME NEW p \in Purgers, ListAttachments(p) PROVE HeldIsPicked'
<2>1. \A f \in purge'[p].todo : f[1] \in purge[p].rows /\ post[f[1]] \in {"answer", "done"}
  BY <1>4, ListFacts DEF AttachedSoFar
<2> QED
  BY <1>4, <2>1, ListFacts DEF HeldIsPicked, OtherPurges
<1>5. ASSUME NEW p \in Purgers, NEW f \in Files, Unlink(p, f) PROVE HeldIsPicked'
  BY <1>5, UnlinkFacts DEF HeldIsPicked, OtherPurges
<1>6. Idle.pc = "idle" /\ Idle.rows = {} /\ Idle.todo = {}
  BY DEF Idle
<1>7. ASSUME NEW p \in Purgers, DeleteRows(p) PROVE HeldIsPicked'
  BY <1>0, <1>6, <1>7, DeleteFacts DEF HeldIsPicked, OtherPurges
<1>8. ASSUME NEW p \in Purgers, PurgeFails(p) PROVE HeldIsPicked'
  BY <1>6, <1>8, PurgeFailsFacts DEF HeldIsPicked, OtherPurges
<1>9. CASE UNCHANGED vars
  BY <1>9 DEF HeldIsPicked, vars
<1> QED
  BY <1>1, <1>2, <1>3, <1>4, <1>5, <1>7, <1>8, <1>9, Cases DEF Purging, PurgeStep

LEMMA UnlinkedStep ==
  TypeOK /\ DeliverySoFar /\ AttachedSoFar /\ HeldIsPicked /\ UnlinkedSoFar /\ [Next]_vars => UnlinkedSoFar'
<1> SUFFICES ASSUME TypeOK, DeliverySoFar, AttachedSoFar, HeldIsPicked, UnlinkedSoFar, [Next]_vars
             PROVE  UnlinkedSoFar'
  OBVIOUS
<1> USE DEF delivery, table, history
<1>0. /\ \A f \in attached : f \in Files /\ f[1] \in Rows
      /\ \A q \in Purgers : purge[q].rows \subseteq Rows /\ purge[q].todo \subseteq Files
      /\ \A q \in Purgers : \A r \in purge[q].rows : folder[r] # "none"
  BY FilesOfRow, PurgeFields DEF TypeOK, HeldIsPicked
\* Where no hard delete moves.
<1>1. ASSUME UNCHANGED <<purge, missed, stuck>>,
             \A r \in Rows : post'[r] = "attach" => post[r] = "attach" \/ folder[r] = "none",
             \A f \in attached' \cap disk' : f[1] \in Rows /\
               (f \in attached \cap disk \/ post[f[1]] = "attach" \/ folder[f[1]] = "none")
      PROVE  UnlinkedSoFar'
  BY <1>0, <1>1 DEF UnlinkedSoFar
<1>2. ASSUME NEW m \in Mails, Deliver(m) \/ GiveUp(m) PROVE UnlinkedSoFar'
<2>1. UNCHANGED <<disk, attached>>
  BY <1>2 DEF Deliver, GiveUp
<2> QED
  BY <1>0, <1>1, <1>2, <2>1, DeliveryFacts
<1>3. ASSUME NEW r \in Rows, DeliveryStep(r) PROVE UnlinkedSoFar'
<2>1. \A f \in attached' \cap disk' : f[1] \in Rows /\
        (f \in attached \cap disk \/ post[f[1]] = "attach" \/ folder[f[1]] = "none")
  <3>1. CASE PersistAttachments(r)
    <4>1. UNCHANGED attached /\ disk' \subseteq disk \cup FilesOf(r) /\ folder[r] = "none"
      BY <3>1, PersistFacts DEF DeliverySoFar, Unstored
    <4> QED
      BY <1>0, <4>1, FilesOfRow
  <3>2. CASE InsertAttachments(r)
    <4>1. attached' = attached \cup kept[r] /\ UNCHANGED disk /\ post[r] = "attach"
      BY <3>2, AttachFacts
    <4>2. \A f \in kept[r] : f[1] = r
      BY FilesOfRow DEF DeliverySoFar
    <4> QED
      BY <1>0, <4>1, <4>2
  <3>3. CASE Parse(r) \/ InsertEmail(r) \/ DeliveryFails(r) \/ Answer(r)
    <4>1. UNCHANGED <<attached, disk>>
      BY <3>3, ParseFacts, InsertFacts, FailsFacts, AnswerFacts
    <4> QED
      BY <1>0, <4>1
  <3> QED
    BY <1>3, <3>1, <3>2, <3>3 DEF DeliveryStep
<2> QED
  BY <1>1, <1>3, <2>1, DeliveryFacts
<1>4. ASSUME UserStep PROVE UnlinkedSoFar'
  BY <1>0, <1>1, <1>4, UserFacts
<1>5. ASSUME NEW p \in Purgers, Selects(p) PROVE UnlinkedSoFar'
<2>1. PICK rows \in SUBSET Rows :
        /\ purge'[p] = [pc |-> "list", rows |-> rows, todo |-> {}] /\ OtherPurges(p)
        /\ UNCHANGED <<post, attached, disk, missed, stuck>>
  BY <1>5, SelectFacts
<2> QED
  BY <2>1 DEF UnlinkedSoFar, OtherPurges
<1>6. ASSUME NEW p \in Purgers, ListAttachments(p) PROVE UnlinkedSoFar'
<2>1. /\ purge'[p].rows = purge[p].rows /\ purge'[p].todo = {f \in attached : f[1] \in purge[p].rows}
      /\ missed' = missed \cup {r \in purge[p].rows : post[r] = "attach"}
      /\ OtherPurges(p) /\ UNCHANGED <<post, attached, disk, stuck>>
  BY <1>6, ListFacts
<2> QED
  BY <2>1 DEF UnlinkedSoFar, OtherPurges
<1>7. ASSUME NEW p \in Purgers, NEW g \in Files, Unlink(p, g) PROVE UnlinkedSoFar'
<2>1. /\ purge[p].pc = "unlink" /\ purge'[p].rows = purge[p].rows /\ purge'[p].todo = purge[p].todo \ {g}
      /\ disk' \subseteq disk /\ stuck \subseteq stuck' /\ (g \in disk' => g \in stuck')
      /\ OtherPurges(p) /\ UNCHANGED <<post, attached, missed>>
  BY <1>7, UnlinkFacts
<2> QED
  BY <2>1 DEF UnlinkedSoFar, OtherPurges
<1>8. ASSUME NEW p \in Purgers, DeleteRows(p) \/ PurgeFails(p) PROVE UnlinkedSoFar'
<2>1. /\ purge'[p] = Idle /\ OtherPurges(p)
      /\ attached' \subseteq attached /\ UNCHANGED <<post, disk, missed, stuck>>
  BY <1>8, DeleteFacts, PurgeFailsFacts
<2>2. Idle.pc = "idle"
  BY DEF Idle
<2> QED
  BY <2>1, <2>2 DEF UnlinkedSoFar, OtherPurges
<1>9. CASE UNCHANGED vars
  BY <1>9 DEF UnlinkedSoFar, vars
<1> QED
  BY <1>2, <1>3, <1>4, <1>5, <1>6, <1>7, <1>8, <1>9, Cases DEF Purging, PurgeStep
LEMMA ReasonStep ==
  TypeOK /\ DeliverySoFar /\ HeldIsPicked /\ HeldForAReason /\ [Next]_vars => HeldForAReason'
<1> SUFFICES ASSUME TypeOK, DeliverySoFar, HeldIsPicked, HeldForAReason, [Next]_vars PROVE HeldForAReason'
  OBVIOUS
<1> USE DEF delivery, table, history
<1>0. \A q \in Purgers : purge[q].rows \subseteq Rows /\ \A r \in purge[q].rows : folder[r] # "none"
  BY PurgeFields DEF HeldIsPicked
<1>1. CASE (\E m \in Mails : Deliver(m) \/ GiveUp(m)) \/ (\E r \in Rows : DeliveryStep(r))
<2>1. /\ UNCHANGED <<purge, old, asked, disturbed>>
      /\ \A r \in Rows : folder'[r] = folder[r] \/ folder[r] = "none"
  BY <1>1, DeliveryFacts
<2> QED
  BY <1>0, <2>1 DEF HeldForAReason, Exists
<1>2. CASE UserStep
<2>1. /\ UNCHANGED <<purge, asked>> /\ disturbed \subseteq disturbed'
      /\ \A s \in Rows : Held(s) /\ s \notin disturbed' => folder'[s] = folder[s] /\ (s \in old => s \in old')
  BY <1>2, UserFacts
<2>2. \A q \in Purgers : \A r \in purge[q].rows : r \in Rows /\ Held(r)
  BY <1>0 DEF Held
<2> QED
  BY <2>1, <2>2 DEF HeldForAReason, Exists
<1>3. ASSUME NEW p \in Purgers, Selects(p) PROVE HeldForAReason'
<2>1. PICK rows \in SUBSET Rows :
        /\ OtherPurges(p) /\ purge'[p] = [pc |-> "list", rows |-> rows, todo |-> {}]
        /\ \A r \in rows : folder[r] \in Discarding /\ (r \in old \/ r \in asked')
        /\ asked \subseteq asked' /\ UNCHANGED <<folder, old, disturbed>>
  BY <1>3, SelectFacts
<2>2. purge'[p].rows = rows
  BY <2>1
<2> QED
  BY <2>1, <2>2 DEF HeldForAReason, OtherPurges, Exists
<1>4. ASSUME NEW p \in Purgers, ListAttachments(p) \/ \E f \in Files : Unlink(p, f) PROVE HeldForAReason'
<2>1. OtherPurges(p) /\ purge'[p].rows = purge[p].rows /\ UNCHANGED <<folder, old, asked, disturbed>>
  BY <1>4, ListFacts, UnlinkFacts
<2> QED
  BY <2>1 DEF HeldForAReason, OtherPurges, Exists
<1>5. ASSUME NEW p \in Purgers, DeleteRows(p) PROVE HeldForAReason'
<2>1. /\ OtherPurges(p) /\ purge'[p] = Idle /\ old' = old \ purge[p].rows /\ UNCHANGED <<asked, disturbed>>
      /\ \A r \in Rows : folder'[r] = IF r \in purge[p].rows THEN "gone" ELSE folder[r]
  BY <1>5, DeleteFacts
<2>2. Idle.rows = {} /\ "gone" \notin Folders
  BY DEF Idle, Folders, Discarding
<2> QED
  BY <1>0, <2>1, <2>2 DEF HeldForAReason, OtherPurges, Exists
<1>6. ASSUME NEW p \in Purgers, PurgeFails(p) PROVE HeldForAReason'
<2>1. OtherPurges(p) /\ purge'[p] = Idle /\ UNCHANGED <<folder, old, asked, disturbed>>
  BY <1>6, PurgeFailsFacts
<2>2. Idle.rows = {}
  BY DEF Idle
<2> QED
  BY <2>1, <2>2 DEF HeldForAReason, OtherPurges, Exists
<1>7. CASE UNCHANGED vars
  BY <1>7 DEF HeldForAReason, Exists, vars
<1> QED
  BY <1>1, <1>2, <1>3, <1>4, <1>5, <1>6, <1>7, Cases DEF Purging, PurgeStep

-----------------------------------------------------------------------------
(* Mail that was accepted *)

LEMMA AcceptedStep ==
  TypeOK /\ DeliverySoFar /\ HeldIsPicked /\ AcceptedIsOver /\ [Next]_vars => AcceptedIsOver'
<1> SUFFICES ASSUME TypeOK, DeliverySoFar, HeldIsPicked, AcceptedIsOver, [Next]_vars,
                    NEW m \in Mails, mta'[m] = "accepted"
             PROVE  \E r \in Rows : r[1] = m /\ post'[r] \in {"refused", "done"}
  BY FilesOfRow DEF AcceptedIsOver
<1> USE DEF delivery
<1>1. ASSUME mta[m] = "accepted", \A r \in Rows : post[r] \in {"refused", "done"} => post'[r] = post[r]
      PROVE  \E r \in Rows : r[1] = m /\ post'[r] \in {"refused", "done"}
  BY <1>1, FilesOfRow DEF AcceptedIsOver
<1>2. ASSUME NEW r \in Rows, DeliveryStep(r), mta[m] # "accepted"
      PROVE  r[1] = m /\ post'[r] \in {"refused", "done"}
<2>1. CASE Answer(r)
  BY <1>2, <2>1, AnswerFacts
<2>2. CASE ~Answer(r)
  BY <1>2, <2>2, ParseFacts, PersistFacts, InsertFacts, AttachFacts, FailsFacts DEF DeliveryStep
<2> QED
  BY <2>1, <2>2
<1>3. ASSUME NEW n \in Mails, Deliver(n) PROVE mta[m] = "accepted"
  BY <1>3, DeliverFacts
<1>4. CASE (\E n \in Mails : Deliver(n)) \/ (\E r \in Rows : DeliveryStep(r))
  BY <1>1, <1>2, <1>3, <1>4, DeliveryFacts
<1>5. CASE ~((\E n \in Mails : Deliver(n)) \/ (\E r \in Rows : DeliveryStep(r)))
<2>1. UNCHANGED post /\ mta[m] = "accepted"
  BY <1>5, Cases, ElsewhereFacts
<2> QED
  BY <1>1, <2>1
<1> QED
  BY <1>4, <1>5

-----------------------------------------------------------------------------
(* Rows and files *)

LEMMA RowHasBytesStep ==
  TypeOK /\ DeliverySoFar /\ HeldIsPicked /\ RowHasBytes /\ [Next]_vars => RowHasBytes'
<1> SUFFICES ASSUME TypeOK, DeliverySoFar, HeldIsPicked, RowHasBytes, [Next]_vars PROVE RowHasBytes'
  OBVIOUS
<1> USE DEF delivery, table, history
<1>1. ASSUME attached' \subseteq attached, disk \subseteq disk', picked \subseteq picked' PROVE RowHasBytes'
  BY <1>1 DEF RowHasBytes
<1>2. ASSUME NEW m \in Mails, Deliver(m) \/ GiveUp(m) PROVE RowHasBytes'
  BY <1>1, <1>2 DEF Deliver, GiveUp
<1>3. ASSUME NEW r \in Rows, DeliveryStep(r) PROVE RowHasBytes'
<2>1. CASE InsertAttachments(r)
  BY <2>1, AttachFacts DEF RowHasBytes, DeliverySoFar
<2>2. CASE ~InsertAttachments(r)
  BY <1>1, <1>3, <2>2, ParseFacts, PersistFacts, InsertFacts, FailsFacts, AnswerFacts DEF DeliveryStep
<2> QED
  BY <2>1, <2>2
<1>4. CASE UserStep
  BY <1>1, <1>4, UserFacts
<1>5. ASSUME NEW p \in Purgers, NEW f \in Files, Unlink(p, f) PROVE RowHasBytes'
  BY <1>5, UnlinkFacts DEF RowHasBytes, HeldIsPicked
<1>6. ASSUME NEW p \in Purgers, Selects(p) \/ ListAttachments(p) \/ DeleteRows(p) \/ PurgeFails(p)
      PROVE  RowHasBytes'
<2>1. attached' \subseteq attached /\ UNCHANGED disk /\ picked \subseteq picked'
  BY <1>6, SelectFacts, ListFacts, DeleteFacts, PurgeFailsFacts
<2> QED
  BY <1>1, <2>1
<1>7. CASE UNCHANGED vars
  BY <1>1, <1>7 DEF vars
<1> QED
  BY <1>2, <1>3, <1>4, <1>5, <1>6, <1>7, Cases DEF Purging, PurgeStep

LEMMA BytesHaveRowStep ==
  TypeOK /\ DeliverySoFar /\ AttachedSoFar /\ UnlinkedSoFar /\ BytesHaveRow /\ [Next]_vars => BytesHaveRow'
<1> SUFFICES ASSUME TypeOK, DeliverySoFar, AttachedSoFar, UnlinkedSoFar, BytesHaveRow, [Next]_vars
             PROVE  BytesHaveRow'
  OBVIOUS
<1> USE DEF delivery, table, history
<1>0. \A f \in disk : f \in Files /\ f[1] \in Rows
  BY FilesOfRow DEF TypeOK
<1>1. ASSUME NEW r \in Rows, OtherPosts(r), UNCHANGED <<disk, attached, stuck, torn, missed>>,
             post'[r] \in {"insert", "attach", "dead"} \/ post[r] \notin {"insert", "attach", "dead"}
      PROVE  BytesHaveRow'
  BY <1>0, <1>1 DEF BytesHaveRow, OtherPosts
<1>2. ASSUME UNCHANGED post, attached \subseteq attached', disk' \subseteq disk,
             stuck \subseteq stuck', torn \subseteq torn', missed \subseteq missed'
      PROVE  BytesHaveRow'
  BY <1>2 DEF BytesHaveRow
<1>3. ASSUME NEW m \in Mails, Deliver(m) PROVE BytesHaveRow'
  BY <1>1, <1>3, DeliverFacts
<1>4. ASSUME NEW r \in Rows, DeliveryStep(r) PROVE BytesHaveRow'
<2>1. CASE Parse(r)
  BY <1>1, <2>1, ParseFacts
<2>2. CASE PersistAttachments(r)
  <3>1. /\ post'[r] = "insert" /\ OtherPosts(r) /\ torn \subseteq torn'
        /\ disk' \subseteq disk \cup FilesOf(r) /\ UNCHANGED <<attached, stuck, missed>>
    BY <2>2, PersistFacts
  <3>2. ASSUME NEW f \in disk' \ attached', f[1] # r
        PROVE  f \in stuck' \cup torn' \/ f[1] \in missed' \/ post'[f[1]] \in {"insert", "attach", "dead"}
    <4>1. f \in disk /\ f \notin attached /\ f[1] \in Rows \ {r}
      BY <1>0, <3>1, <3>2, FilesOfRow
    <4> QED
      BY <3>1, <4>1 DEF BytesHaveRow, OtherPosts
  <3> QED
    BY <3>1, <3>2 DEF BytesHaveRow
<2>3. CASE InsertEmail(r)
  <3>1. kept[r] = {} => \A f \in disk : f[1] # r \/ f \in torn
    BY <1>0, FilesOfRow DEF DeliverySoFar
  <3> QED
    BY <1>0, <2>3, <3>1, InsertFacts DEF BytesHaveRow, OtherPosts
<2>4. CASE InsertAttachments(r)
  <3>1. \A f \in disk : f[1] = r => f \in kept[r] \cup torn
    BY <1>0, FilesOfRow DEF DeliverySoFar
  <3> QED
    BY <1>0, <2>4, <3>1, AttachFacts DEF BytesHaveRow, OtherPosts
<2>5. CASE DeliveryFails(r)
  BY <1>1, <2>5, FailsFacts
<2>6. CASE Answer(r)
  BY <1>1, <2>6, AnswerFacts
<2> QED
  BY <1>4, <2>1, <2>2, <2>3, <2>4, <2>5, <2>6 DEF DeliveryStep
<1>5. CASE UserStep
  BY <1>2, <1>5, UserFacts
<1>6. ASSUME NEW p \in Purgers, DeleteRows(p) PROVE BytesHaveRow'
<2>1. /\ purge[p].pc = "unlink" /\ purge[p].todo = {} /\ UNCHANGED <<post, disk, stuck, torn, missed>>
      /\ attached' = {f \in attached : f[1] \notin purge[p].rows}
  BY <1>6, DeleteFacts
<2>2. \A f \in attached \cap disk : f[1] \in purge[p].rows => f \in stuck \/ f[1] \in missed
  BY <2>1 DEF UnlinkedSoFar
<2> QED
  BY <2>1, <2>2 DEF BytesHaveRow
<1>7. ASSUME NEW p \in Purgers, Selects(p) \/ ListAttachments(p) \/ PurgeFails(p) \/ \E f \in Files : Unlink(p, f)
      PROVE  BytesHaveRow'
<2>1. /\ UNCHANGED <<post, attached, torn>> /\ disk' \subseteq disk
      /\ stuck \subseteq stuck' /\ missed \subseteq missed'
  BY <1>7, SelectFacts, ListFacts, UnlinkFacts, PurgeFailsFacts
<2> QED
  BY <1>2, <2>1
<1>8. CASE UNCHANGED vars \/ \E m \in Mails : GiveUp(m)
  BY <1>2, <1>8, GiveUpFacts DEF vars
<1> QED
  BY <1>3, <1>4, <1>5, <1>6, <1>7, <1>8, Cases DEF Purging, PurgeStep

-----------------------------------------------------------------------------
(* The theorems *)

LEMMA InvInit == Init => MailboxInv
<1> SUFFICES ASSUME Init PROVE MailboxInv
  OBVIOUS
<1>1. TypeOK
  BY TypeInit
<1>2. Idle.pc = "idle" /\ Idle.rows = {} /\ Idle.todo = {}
  BY DEF Idle
<1>3. DeliverySoFar /\ AttachedSoFar
  BY DEF Init, DeliverySoFar, AttachedSoFar, Unstored
<1>4. HeldIsPicked /\ UnlinkedSoFar /\ HeldForAReason
  BY <1>2 DEF Init, HeldIsPicked, UnlinkedSoFar, HeldForAReason
<1>5. AcceptedIsOver /\ RowHasBytes /\ BytesHaveRow
  BY DEF Init, AcceptedIsOver, RowHasBytes, BytesHaveRow
<1> QED
  BY <1>1, <1>3, <1>4, <1>5 DEF MailboxInv

LEMMA InvStep == MailboxInv /\ [Next]_vars => MailboxInv'
<1> SUFFICES ASSUME MailboxInv, [Next]_vars PROVE MailboxInv'
  OBVIOUS
<1>1. /\ TypeOK /\ DeliverySoFar /\ AttachedSoFar /\ HeldIsPicked /\ UnlinkedSoFar
      /\ HeldForAReason /\ AcceptedIsOver /\ RowHasBytes /\ BytesHaveRow
  BY DEF MailboxInv
<1>2. TypeOK' /\ DeliverySoFar' /\ AttachedSoFar' /\ HeldIsPicked' /\ UnlinkedSoFar'
  BY <1>1, TypeStep, DeliveryStepKeeps, AttachedStep, HeldStep, UnlinkedStep
<1>3. HeldForAReason' /\ AcceptedIsOver' /\ RowHasBytes' /\ BytesHaveRow'
  BY <1>1, ReasonStep, AcceptedStep, RowHasBytesStep, BytesHaveRowStep
<1> QED
  BY <1>2, <1>3 DEF MailboxInv

\* Deliveries, the user and hard deletes keep the inductive invariant, whatever fails.
THEOREM MailboxInvariant == Spec => []MailboxInv
  BY InvInit, InvStep, PTL DEF Spec

\* The mail store keeps its types.
THEOREM TypeCorrect == Spec => []TypeOK
<1>1. MailboxInv => TypeOK
  BY DEF MailboxInv
<1> QED
  BY <1>1, MailboxInvariant, PTL

\* Attachment rows have their bytes and bytes have their rows, but for what an unlink
\* could not remove and what a delivery had not attached yet or never did.
THEOREM DiskCorrect == Spec => []DiskMatchesRows
<1>1. MailboxInv => DiskMatchesRows
  BY DEF MailboxInv, DiskMatchesRows
<1> QED
  BY <1>1, MailboxInvariant, PTL

\* The 250 of the SMTP server means that the mail is stored with its attachments, was
\* refused as a whole, or has gone to a hard delete since.
THEOREM AcceptedCorrect == Spec => []AcceptedIsStored
<1>1. ASSUME MailboxInv PROVE AcceptedIsStored
<2> SUFFICES ASSUME NEW m \in Mails, mta[m] = "accepted"
             PROVE  \E r \in {m} \X (1..MaxTries) :
                      \/ post[r] = "refused" \/ r \in picked
                      \/ post[r] = "done" /\ Exists(r) /\ attached \cap FilesOf(r) = kept[r]
  BY DEF AcceptedIsStored
<2>1. PICK r \in {m} \X (1..MaxTries) : post[r] \in {"refused", "done"}
  BY <1>1 DEF MailboxInv, AcceptedIsOver
<2>2. r \in Rows
  BY FilesOfRow
<2>3. post[r] = "done" /\ ~Exists(r) => r \in picked
  BY <1>1, <2>2 DEF MailboxInv, TypeOK, DeliverySoFar, HeldIsPicked, Exists
<2>4. \A f \in attached \cap FilesOf(r) : f \in kept[r]
  BY <1>1, <2>2, FilesOfRow DEF MailboxInv, AttachedSoFar
<2>5. post[r] = "done" /\ Exists(r) => kept[r] \subseteq attached \cap FilesOf(r)
  BY <1>1, <2>2 DEF MailboxInv, AttachedSoFar, DeliverySoFar
<2> QED
  BY <2>1, <2>3, <2>4, <2>5
<1> QED
  BY <1>1, MailboxInvariant, PTL

\* The retention sweep, Empty folder and Delete forever remove only mail that is in
\* trash or spam and has expired or was given up, unless it was touched in between.
THEOREM DeletionCorrect == Spec => OnlyDiscardedIsDeleted
<1> DEFINE Kept == \A r \in Rows : folder'[r] = "gone" /\ Exists(r) =>
                     r \in disturbed \/ (folder[r] \in Discarding /\ (r \in old \/ r \in asked))
<1>1. ASSUME MailboxInv, [Next]_vars PROVE [Kept]_vars
<2> USE DEF delivery, table, history
<2>1. TypeOK /\ DeliverySoFar /\ HeldIsPicked /\ HeldForAReason
  BY <1>1 DEF MailboxInv
<2>2. "gone" \notin Folders
  BY DEF Folders, Discarding
<2>3. ASSUME NEW p \in Purgers, DeleteRows(p) PROVE Kept
  BY <2>1, <2>2, <2>3, DeleteFacts DEF HeldForAReason, Exists
<2>4. ASSUME ~\E p \in Purgers : DeleteRows(p)
      PROVE  \A r \in Rows : folder'[r] = "gone" => folder[r] = "gone"
  <3>1. CASE (\E m \in Mails : Deliver(m) \/ GiveUp(m)) \/ (\E r \in Rows : DeliveryStep(r))
    BY <2>1, <3>1, DeliveryFacts
  <3>2. CASE UserStep
    BY <2>1, <2>2, <3>2, UserFacts
  <3>3. ASSUME NEW p \in Purgers, Purging(p) PROVE UNCHANGED folder
    BY <2>1, <2>4, <3>3, SelectFacts, ListFacts, UnlinkFacts, PurgeFailsFacts DEF Purging, PurgeStep
  <3>4. CASE UNCHANGED vars
    BY <3>4 DEF vars
  <3> QED
    BY <1>1, <3>1, <3>2, <3>3, <3>4, Cases
<2> QED
  BY <2>2, <2>3, <2>4 DEF Exists
<1> QED
  BY <1>1, MailboxInvariant, PTL DEF Spec, OnlyDiscardedIsDeleted

-----------------------------------------------------------------------------
(* The mail store implements MailStore *)

\* What MailStore sees of a state.
Promised  == {m \in Mails : mta[m] = "accepted"}
Refused   == {r \in Rows : post[r] = "refused"}
Whole     == {r \in Rows : post[r] \in {"answer", "done"}}
Condemned == {r \in Rows : Held(r)}
Opens     == attached \cap disk

LEMMA ViewStutters ==
  ASSUME UNCHANGED <<Promised, Refused, Whole, folder, old, Condemned, Opens>>
  PROVE  [ImplementedStore!Next]_(ImplementedStore!vars)
  BY DEF Promised, Refused, Whole, Condemned, Opens, ImplementedStore!vars

\* Who holds what depends on the rows of the hard deletes only.
LEMMA CondemnedSame ==
  ASSUME \A p \in Purgers : purge'[p].rows = purge[p].rows
  PROVE  UNCHANGED Condemned
  BY DEF Condemned, Held

\* A request whose answer says neither stored nor refused changes no promise.
LEMMA PromisedSame ==
  ASSUME TypeOK, [Next]_vars,
         \A m \in Mails : mta'[m] = "accepted" => mta[m] = "accepted"
  PROVE  UNCHANGED Promised
<1> USE DEF delivery, table, history
<1>1. ASSUME NEW r \in Rows, NEW reply, Heard(r, reply), NEW m \in Mails, mta[m] = "accepted"
      PROVE  mta'[m] = "accepted"
  BY <1>1 DEF Heard, TypeOK
<1>2. ASSUME NEW m \in Mails, mta[m] = "accepted" PROVE mta'[m] = "accepted"
<2>1. ASSUME NEW n \in Mails, Deliver(n) \/ GiveUp(n) PROVE mta'[m] = "accepted"
  BY <1>2, <2>1 DEF Deliver, GiveUp, TypeOK
<2>2. ASSUME NEW r \in Rows, DeliveryStep(r) PROVE mta'[m] = "accepted"
  <3>1. CASE Answer(r) \/ DeliveryFails(r)
    BY <1>1, <1>2, <3>1 DEF Answer, DeliveryFails
  <3>2. CASE ~(Answer(r) \/ DeliveryFails(r))
    BY <1>2, <2>2, <3>2, ParseFacts, PersistFacts, InsertFacts, AttachFacts DEF DeliveryStep
  <3> QED
    BY <3>1, <3>2
<2>3. CASE UserStep
  BY <1>2, <2>3, UserFacts
<2>4. ASSUME NEW p \in Purgers, Purging(p) PROVE mta'[m] = "accepted"
  BY <1>2, <2>4, SelectFacts, ListFacts, UnlinkFacts, DeleteFacts, PurgeFailsFacts DEF Purging, PurgeStep
<2>5. CASE UNCHANGED vars
  BY <1>2, <2>5 DEF vars
<2> QED
  BY <2>1, <2>2, <2>3, <2>4, <2>5, Cases
<1> QED
  BY <1>2 DEF Promised

\* The steps of a delivery before the row exists, its failures, and time-outs.
LEMMA UnseenRefines ==
  ASSUME MailboxInv, [Next]_vars,
         \/ \E m \in Mails : Deliver(m) \/ GiveUp(m)
         \/ \E r \in Rows : Parse(r) \/ PersistAttachments(r) \/ DeliveryFails(r)
  PROVE  [ImplementedStore!Next]_(ImplementedStore!vars)
<1> USE DEF delivery, table, history
<1>0. TypeOK /\ DeliverySoFar /\ AttachedSoFar
  BY DEF MailboxInv
<1>1. ASSUME NEW m \in Mails, Deliver(m)
      PROVE  /\ UNCHANGED <<Refused, Whole, folder, old, purge, Opens>>
             /\ \A n \in Mails : mta'[n] = "accepted" => mta[n] = "accepted"
<2>1. PICK r \in Rows :
        /\ post[r] = "none" /\ post'[r] = "parse" /\ OtherPosts(r)
        /\ \A n \in Mails : mta'[n] = "accepted" => mta[n] = "accepted"
        /\ UNCHANGED <<disk, kept, torn, table, purge, history, moves, faults>>
  BY <1>0, <1>1, DeliverFacts
<2> QED
  BY <2>1 DEF Refused, Whole, Opens, OtherPosts
<1>2. ASSUME NEW m \in Mails, GiveUp(m)
      PROVE  /\ UNCHANGED <<Refused, Whole, folder, old, purge, Opens>>
             /\ \A n \in Mails : mta'[n] = "accepted" => mta[n] = "accepted"
  BY <1>0, <1>2, GiveUpFacts DEF Refused, Whole, Opens
<1>3. ASSUME NEW r \in Rows, Parse(r)
      PROVE  /\ UNCHANGED <<Refused, Whole, folder, old, purge, Opens>>
             /\ \A n \in Mails : mta'[n] = "accepted" => mta[n] = "accepted"
  BY <1>0, <1>3, ParseFacts DEF Refused, Whole, Opens, OtherPosts
<1>4. ASSUME NEW r \in Rows, PersistAttachments(r)
      PROVE  /\ UNCHANGED <<Refused, Whole, folder, old, purge, Opens>>
             /\ \A n \in Mails : mta'[n] = "accepted" => mta[n] = "accepted"
<2>1. /\ post[r] = "store" /\ post'[r] = "insert" /\ OtherPosts(r)
      /\ disk \subseteq disk' /\ disk' \subseteq disk \cup FilesOf(r)
      /\ UNCHANGED <<mta, folder, old, attached, purge>>
  BY <1>0, <1>4, PersistFacts
<2>2. \A f \in attached : f \in FilesOf(r) => FALSE
  BY <1>0, <2>1, FilesOfRow DEF AttachedSoFar, TypeOK
<2>3. UNCHANGED Opens
  BY <2>1, <2>2 DEF Opens
<2> QED
  BY <2>1, <2>3 DEF Refused, Whole, OtherPosts
<1>5. ASSUME NEW r \in Rows, DeliveryFails(r)
      PROVE  /\ UNCHANGED <<Refused, Whole, folder, old, purge, Opens>>
             /\ \A n \in Mails : mta'[n] = "accepted" => mta[n] = "accepted"
  BY <1>0, <1>5, FailsFacts DEF Refused, Whole, Opens, OtherPosts, Busy
<1>6. /\ UNCHANGED <<Refused, Whole, folder, old, purge, Opens>>
      /\ \A n \in Mails : mta'[n] = "accepted" => mta[n] = "accepted"
  BY <1>1, <1>2, <1>3, <1>4, <1>5
<1>7. UNCHANGED Promised
  BY <1>0, <1>6, PromisedSame
<1>8. UNCHANGED Condemned
  BY <1>6 DEF Condemned, Held
<1> QED
  BY <1>6, <1>7, <1>8, ViewStutters

\* Storing a row, attaching its files, answering.
LEMMA StoringRefines ==
  ASSUME MailboxInv, NEW r \in Rows, InsertEmail(r) \/ InsertAttachments(r) \/ Answer(r)
  PROVE  [ImplementedStore!Next]_(ImplementedStore!vars)
<1> USE DEF delivery, table, history
<1>0. TypeOK /\ DeliverySoFar /\ AttachedSoFar
  BY DEF MailboxInv
<1>1. CASE InsertEmail(r)
<2>1. /\ post[r] = "insert" /\ post'[r] \in {"answer", "attach"} /\ OtherPosts(r)
      /\ UNCHANGED <<mta, disk, old, attached, purge>>
  BY <1>0, <1>1, InsertFacts
<2>2. folder[r] = "none" /\ folder' = [folder EXCEPT ![r] = "inbox"]
  BY <1>0, <1>1, <2>1 DEF InsertEmail, DeliverySoFar
<2>3. Whole' \in {Whole, Whole \cup {r}} /\ UNCHANGED Refused
  BY <2>1 DEF Whole, Refused, OtherPosts
<2>4. UNCHANGED <<Promised, Condemned, Opens>>
  BY <2>1 DEF Promised, Condemned, Held, Opens
<2>5. UNCHANGED <<Promised, Refused, old, Condemned, Opens>>
  BY <2>1, <2>3, <2>4
<2>6. ImplementedStore!Store(r)
  BY <2>2, <2>3, <2>5 DEF ImplementedStore!Store, Whole, Refused, Promised, Condemned, Opens
<2> QED
  BY <2>6 DEF ImplementedStore!Next
<1>2. CASE InsertAttachments(r)
<2>1. /\ post[r] = "attach" /\ post'[r] = "answer" /\ OtherPosts(r) /\ Exists(r)
      /\ attached' = attached \cup kept[r]
      /\ UNCHANGED <<mta, disk, folder, old, purge>>
  BY <1>0, <1>2, AttachFacts
<2>2. kept[r] \subseteq disk /\ kept[r] \subseteq FilesOf(r)
  BY <1>0, <2>1 DEF DeliverySoFar
<2>3. PICK files \in SUBSET Files : files = kept[r] /\ \A f \in files : f[1] = r
  BY <2>2, FilesOfRow
<2>4. Opens' = Opens \cup files
  BY <2>1, <2>2, <2>3 DEF Opens
<2>5. r \notin Whole /\ Whole' = Whole \cup {r} /\ UNCHANGED Refused
  BY <2>1 DEF Whole, Refused, OtherPosts
<2>6. UNCHANGED <<Promised, Condemned>>
  BY <2>1 DEF Promised, Condemned, Held
<2>7. folder[r] \in ImplementedStore!Places
  BY <2>1 DEF Exists, Folders, Discarding, ImplementedStore!Places, ImplementedStore!Discarding
<2>8. ImplementedStore!Attach(r, files)
  BY <2>1, <2>3, <2>4, <2>5, <2>6, <2>7
     DEF ImplementedStore!Attach, Whole, Refused, Promised, Condemned, Opens
<2> QED
  BY <2>3, <2>8 DEF ImplementedStore!Next
<1>3. CASE Answer(r)
<2>1. /\ OtherPosts(r)
      /\ UNCHANGED <<disk, folder, old, attached, purge>>
      /\ \/ post[r] = "answer" /\ post'[r] = "done"
         \/ post[r] = "refuse" /\ post'[r] = "refused"
  BY <1>0, <1>3, AnswerFacts
<2>2. Promised' \in {Promised, Promised \cup {r[1]}}
  BY <1>0, <1>3, FilesOfRow DEF Answer, Heard, Promised, TypeOK
<2>3. UNCHANGED <<Condemned, Opens>>
  BY <2>1 DEF Condemned, Held, Opens
<2>4. CASE post[r] = "answer"
  <3>1. r \in Whole /\ UNCHANGED <<Whole, Refused>>
    BY <2>1, <2>4 DEF Whole, Refused, OtherPosts
  <3>2. CASE Promised' = Promised
    BY <2>1, <2>3, <3>1, <3>2, ViewStutters
  <3>3. CASE Promised' = Promised \cup {r[1]}
    <4>1. ImplementedStore!Promise(r)
      BY <2>1, <2>3, <3>1, <3>3 DEF ImplementedStore!Promise, Whole, Refused, Promised, Condemned, Opens
    <4> QED
      BY <4>1 DEF ImplementedStore!Next
  <3> QED
    BY <2>2, <3>2, <3>3
<2>5. CASE post[r] = "refuse"
  <3>1. Refused' = Refused \cup {r} /\ UNCHANGED Whole
    BY <2>1, <2>5 DEF Whole, Refused, OtherPosts
  <3>2. folder[r] = "none"
    BY <1>0, <2>5 DEF DeliverySoFar, Unstored
  <3>3. ImplementedStore!Refuse(r)
    BY <2>1, <2>2, <2>3, <3>1, <3>2
       DEF ImplementedStore!Refuse, Whole, Refused, Promised, Condemned, Opens
  <3> QED
    BY <3>3 DEF ImplementedStore!Next
<2> QED
  BY <2>1, <2>4, <2>5
<1> QED
  BY <1>1, <1>2, <1>3

\* Moves, updates and expiry.
LEMMA UserRefines ==
  ASSUME MailboxInv, UserStep
  PROVE  [ImplementedStore!Next]_(ImplementedStore!vars)
<1> USE DEF delivery, table, history
<1>0. TypeOK
  BY DEF MailboxInv
<1>1. UNCHANGED <<mta, post, disk, attached, purge>>
  BY <1>0, UserFacts
<1>2. UNCHANGED <<Promised, Refused, Whole, Condemned, Opens>>
  BY <1>1 DEF Promised, Refused, Whole, Condemned, Held, Opens
<1>3. ASSUME NEW r \in Rows, Update(r) PROVE ImplementedStore!Touch(r)
<2>1. old' = old \ {r} /\ UNCHANGED folder
  BY <1>3 DEF Update, Touched
<2> QED
  BY <1>2, <2>1 DEF ImplementedStore!Touch, Promised, Refused, Whole, Condemned, Opens
<1>4. ASSUME NEW r \in Rows, Expires(r) PROVE ImplementedStore!Expire(r)
<2>1. folder[r] \in Discarding /\ old' = old \cup {r} /\ UNCHANGED folder
  BY <1>4 DEF Expires
<2> QED
  BY <1>2, <2>1 DEF ImplementedStore!Expire, Promised, Refused, Whole, Condemned, Opens,
     Discarding, ImplementedStore!Discarding
<1>5. ASSUME NEW r \in Rows, NEW to \in Folders, MoveToFolder(r, to) PROVE ImplementedStore!Move(r, to)
<2>1. Exists(r) /\ old' = old \ {r} /\ folder' = [folder EXCEPT ![r] = to]
  BY <1>5 DEF MoveToFolder, Touched
<2>2. folder[r] \in ImplementedStore!Places
  BY <2>1 DEF Exists, Folders, Discarding, ImplementedStore!Places, ImplementedStore!Discarding
<2> QED
  BY <1>2, <2>1, <2>2 DEF ImplementedStore!Move, Promised, Refused, Whole, Condemned, Opens
<1>6. Folders = ImplementedStore!Places
  BY DEF Folders, Discarding, ImplementedStore!Places, ImplementedStore!Discarding
<1> QED
  BY <1>3, <1>4, <1>5, <1>6 DEF UserStep, ImplementedStore!Next

\* What a hard delete selects is a choice MailStore allows.
LEMMA ChosenInTrash ==
  ASSUME NEW p \in Purgers, Selects(p)
  PROVE  \E rows \in SUBSET Rows :
           Select(p, rows) /\ ImplementedStore!Choice(rows) /\ \A r \in rows : folder[r] \in Discarding
<1>1. CASE RetentionSelect(p)
<2>1. PICK f \in Discarding : \E rows \in SUBSET {r \in Rows : folder[r] = f /\ r \in old} : Select(p, rows)
  BY <1>1 DEF RetentionSelect
<2>2. PICK rows \in SUBSET {r \in Rows : folder[r] = f /\ r \in old} : Select(p, rows)
  BY <2>1
<2>3. rows \subseteq old /\ rows \in SUBSET Rows /\ \A r \in rows : folder[r] \in Discarding
  BY <2>2
<2> QED
  BY <2>2, <2>3 DEF ImplementedStore!Choice
<1>2. ASSUME NEW f \in Discarding, EmptySelect(p, f)
      PROVE  \E rows \in SUBSET Rows :
               Select(p, rows) /\ ImplementedStore!Choice(rows) /\ \A r \in rows : folder[r] \in Discarding
<2> DEFINE rows == {r \in Rows : folder[r] = f}
<2>1. Select(p, rows) /\ rows \in SUBSET Rows /\ \A r \in rows : folder[r] \in Discarding
  BY <1>2 DEF EmptySelect
<2>2. ImplementedStore!Choice(rows)
  BY DEF ImplementedStore!Choice, ImplementedStore!Discarding, Discarding
<2> QED
  BY <2>1, <2>2
<1>3. ASSUME NEW r \in Rows, PurgeSelect(p, r)
      PROVE  \E rows \in SUBSET Rows :
               Select(p, rows) /\ ImplementedStore!Choice(rows) /\ \A s \in rows : folder[s] \in Discarding
<2>1. Select(p, {r}) /\ folder[r] = "trash" /\ {r} \in SUBSET Rows
  BY <1>3 DEF PurgeSelect
<2>2. ImplementedStore!Choice({r}) /\ \A s \in {r} : folder[s] \in Discarding
  BY <2>1 DEF ImplementedStore!Choice, Discarding
<2> QED
  BY <2>1, <2>2
<1> QED
  BY <1>1, <1>2, <1>3 DEF Selects, Request

\* A hard delete condemns rows, takes their files, and destroys them or gives them up.
LEMMA PurgeRefines ==
  ASSUME MailboxInv, NEW p \in Purgers, Purging(p)
  PROVE  [ImplementedStore!Next]_(ImplementedStore!vars)
<1> USE DEF delivery, table, history
<1>0. TypeOK /\ HeldIsPicked
  BY DEF MailboxInv
<1>a. purge[p].rows \subseteq Condemned
  BY <1>0, PurgeFields DEF Condemned, Held
<1>b. ASSUME UNCHANGED <<mta, post>> PROVE UNCHANGED <<Promised, Refused, Whole>>
  BY <1>b DEF Promised, Refused, Whole
<1>1. CASE Selects(p)
<2>1. PICK rows \in SUBSET Rows :
        Select(p, rows) /\ ImplementedStore!Choice(rows) /\ \A r \in rows : folder[r] \in Discarding
  BY <1>1, ChosenInTrash
<2>2. /\ purge[p].rows = {} /\ purge' = [purge EXCEPT ![p] = [pc |-> "list", rows |-> rows, todo |-> {}]]
      /\ UNCHANGED <<mta, post, disk, attached, folder, old>>
  BY <1>0, <2>1 DEF Select, HeldIsPicked
<2>3. purge'[p].rows = rows /\ \A q \in Purgers \ {p} : purge'[q] = purge[q]
  BY <1>0, <2>2 DEF TypeOK
<2>4. Condemned' = Condemned \cup rows
  BY <2>2, <2>3 DEF Condemned, Held
<2>5. ImplementedStore!Condemn(rows)
  BY <1>b, <2>1, <2>2, <2>4 DEF ImplementedStore!Condemn, ImplementedStore!Discarding, Discarding,
     Promised, Refused, Whole, Condemned, Opens
<2> QED
  BY <2>5 DEF ImplementedStore!Next
<1>2. CASE ListAttachments(p)
<2>1. /\ UNCHANGED <<mta, post, disk, attached, folder, old>>
      /\ \A q \in Purgers : purge'[q].rows = purge[q].rows
  BY <1>0, <1>2, ListFacts DEF OtherPurges
<2>2. UNCHANGED Condemned
  BY <2>1, CondemnedSame
<2> QED
  BY <1>b, <2>1, <2>2, ViewStutters DEF Opens
<1>3. ASSUME NEW f \in Files, Unlink(p, f)
      PROVE  [ImplementedStore!Next]_(ImplementedStore!vars)
<2>1. /\ UNCHANGED <<mta, post, attached, folder, old>>
      /\ disk' \in {disk, disk \ {f}} /\ f \in purge[p].todo
  BY <1>3 DEF Unlink
<2>2. \A q \in Purgers : purge'[q].rows = purge[q].rows
  BY <1>0, <1>3, UnlinkFacts DEF OtherPurges
<2>3. UNCHANGED Condemned
  BY <2>2, CondemnedSame
<2>4. f[1] \in Condemned
  BY <1>0, <1>a, <2>1 DEF HeldIsPicked
<2>5. CASE disk' = disk
  BY <1>b, <2>1, <2>3, <2>5, ViewStutters DEF Opens
<2>6. CASE disk' = disk \ {f}
  <3>1. Opens' = Opens \ {f}
    BY <2>1, <2>6 DEF Opens
  <3>2. ImplementedStore!Unlink(f)
    BY <1>b, <2>1, <2>3, <2>4, <3>1 DEF ImplementedStore!Unlink, Promised, Refused, Whole, Condemned, Opens
  <3> QED
    BY <3>2 DEF ImplementedStore!Next
<2> QED
  BY <2>1, <2>5, <2>6
<1>4. CASE DeleteRows(p)
<2> DEFINE rows == purge[p].rows
           done == {r \in rows : \A q \in Purgers \ {p} : r \notin purge[q].rows}
<2>1. /\ folder' = [r \in Rows |-> IF r \in rows THEN "gone" ELSE folder[r]]
      /\ old' = old \ rows /\ attached' = {f \in attached : f[1] \notin rows}
      /\ UNCHANGED <<mta, post, disk>>
  BY <1>4 DEF DeleteRows
<2>2. purge'[p].rows = {} /\ \A q \in Purgers \ {p} : purge'[q] = purge[q]
  BY <1>0, <1>4, DeleteFacts DEF OtherPurges, Idle
<2>3. Condemned' = Condemned \ done
  BY <2>2 DEF Condemned, Held
<2>4. Opens' = {f \in Opens : f[1] \notin rows}
  BY <2>1 DEF Opens
<2>5. rows \in SUBSET Rows /\ done \in SUBSET rows
  BY <1>0, PurgeFields
<2>6. ImplementedStore!Destroy(rows, done)
  BY <1>a, <1>b, <2>1, <2>3, <2>4, <2>5
     DEF ImplementedStore!Destroy, Promised, Refused, Whole, Condemned, Opens
<2> QED
  BY <2>5, <2>6 DEF ImplementedStore!Next
<1>5. CASE PurgeFails(p)
<2> DEFINE spared == {r \in purge[p].rows : \A q \in Purgers \ {p} : r \notin purge[q].rows}
<2>1. UNCHANGED <<mta, post, disk, attached, folder, old>>
  BY <1>0, <1>5, PurgeFailsFacts
<2>2. purge'[p].rows = {} /\ \A q \in Purgers \ {p} : purge'[q] = purge[q]
  BY <1>0, <1>5, PurgeFailsFacts DEF OtherPurges, Idle
<2>3. Condemned' = Condemned \ spared
  BY <2>2 DEF Condemned, Held
<2>4. ImplementedStore!Spare(spared)
  BY <1>b, <2>1, <2>3 DEF ImplementedStore!Spare, Promised, Refused, Whole, Condemned, Opens
<2>5. spared \in SUBSET Rows
  BY <1>0, PurgeFields
<2> QED
  BY <2>4, <2>5 DEF ImplementedStore!Next
<1> QED
  BY <1>1, <1>2, <1>3, <1>4, <1>5 DEF Purging, PurgeStep

LEMMA StoreInit == Init => ImplementedStore!Init
<1> SUFFICES ASSUME Init PROVE ImplementedStore!Init
  OBVIOUS
<1>1. Promised = {} /\ Refused = {} /\ Whole = {} /\ Opens = {}
  BY FilesOfRow DEF Init, Promised, Refused, Whole, Opens
<1>2. Condemned = {}
  BY DEF Init, Condemned, Held, Idle
<1> QED
  BY <1>1, <1>2 DEF Init, ImplementedStore!Init, Promised, Refused, Whole, Condemned, Opens

LEMMA StoreStep ==
  ASSUME MailboxInv, [Next]_vars
  PROVE  [ImplementedStore!Next]_(ImplementedStore!vars)
<1>1. CASE UNCHANGED vars
  BY <1>1, ViewStutters DEF vars, delivery, table, Promised, Refused, Whole, Condemned, Held, Opens
<1>2. CASE \E m \in Mails : Deliver(m) \/ GiveUp(m)
  BY <1>2, UnseenRefines
<1>3. ASSUME NEW r \in Rows, DeliveryStep(r) PROVE [ImplementedStore!Next]_(ImplementedStore!vars)
  BY <1>3, UnseenRefines, StoringRefines DEF DeliveryStep
<1> QED
  BY <1>1, <1>2, <1>3, Cases, UserRefines, PurgeRefines

\* Deliveries, the user and hard deletes together are MailStore: other servers hear of
\* mail once it is stored whole or refused, and nothing goes that was not condemned.
THEOREM RefinesMailStore == Spec => ImplementsMailStore
<1>1. MailboxInv /\ [Next]_vars => [ImplementedStore!Next]_(ImplementedStore!vars)
  BY StoreStep
<1> QED
  BY <1>1, StoreInit, MailboxInvariant, PTL DEF Spec, ImplementsMailStore, ImplementedStore!Spec
=============================================================================
