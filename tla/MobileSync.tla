----------------------------- MODULE MobileSync -----------------------------
(***************************************************************************)
(* The mobile client's offline queue: apps/mobile/lib/core/local/outbox.dart,*)
(* core/local/sync_engine.dart, and the mail actions and handlers on top   *)
(* of them, against the server's star, folder and compose endpoints.       *)
(* Dart runs one isolate: code interleaves only at its awaits, which are   *)
(* the SQLite statements and the HTTP calls.  The app may be killed at any *)
(* point; the outbox is on disk, everything else is lost.                  *)
(***************************************************************************)
EXTENDS Naturals, FiniteSets

CONSTANTS
  Mail,         \* received and sent mail the user acts on
  Stored,       \* the mail the local store holds a row of: what this device sent
  Drafts,       \* new messages the user sends
  NoTarget,     \* the target of an outbox row that is not used yet
  MaxAttempts,  \* SyncEngine.maxAttempts
  MaxRows,      \* bound: outbox rows
  MaxTaps,      \* bound: stars and moves, queued or direct
  MaxRequeues,  \* bound: retries from the Pending Sync screen
  MaxKills      \* bound: how often the app is killed

ASSUME MobileAssumption ==
  /\ Stored \subseteq Mail
  /\ Mail \cap Drafts = {}
  /\ NoTarget \notin Mail \cup Drafts
  /\ MaxAttempts \in Nat \ {0}
  /\ MaxRows \in Nat /\ MaxTaps \in Nat /\ MaxRequeues \in Nat /\ MaxKills \in Nat

VARIABLES
  row,        \* the outbox table, by id
  used,       \* ids handed out (AUTOINCREMENT)
  drain,      \* _drainOnce: where it is and the snapshot of the row it runs
  batch,      \* the snapshots pullDue returned and that are still to be run
  star, folder, copies,      \* server: isStarred and folder of a mail, emails made of a draft
  shown,      \* isStarred of the Email object on the detail screen
  storeStar,  \* is_starred in the local store
  direct,     \* the folder of a move the server is asked for directly ("none": no such call)
  send,       \* MailActions.send of each draft
  local,      \* the draft's row in the local store: its placeholder or the server's id
  lastStar, lastMove,        \* history: the row that carries the user's last choice (0: none)
  bypassed,   \* history: mails whose last move went, or still may go, past the outbox
  settled,    \* history: where such a move put the mail with no row of it left to run
  unheard,    \* history: compose calls whose success never reached the app
  orphans,    \* history: rows left in flight with nobody running them
  discarded,  \* history: drafts whose row the user discarded
  taps, requeues, kills

server == <<star, folder, copies>>
choices == <<lastStar, lastMove, direct, bypassed, settled>>
queue == <<row, used, drain, batch, orphans>>
compose == <<send, local, unheard, discarded>>
counters == <<taps, requeues, kills>>
vars == <<queue, server, shown, storeStar, compose, choices, counters>>

Ids == 1..MaxRows
Targets == Mail \cup Drafts
Terminal == {"archive", "delete"}
Ops == Terminal \cup {"setStarred", "composeSend"}
Folders == {"inbox", "archive", "trash"}
\* Mutant: the operation taken for the folder.
FolderNamed(op) == op

FolderOf(op) == IF op = "archive" THEN "archive" ELSE "trash"
Rows == [status : {"unused", "pending", "inflight", "failed", "gone"},
         op : Ops, target : Targets \cup {NoTarget}, value : BOOLEAN,
         attempts : Nat, due : BOOLEAN]
Snapshots == [id : Ids, value : BOOLEAN, attempts : Nat]
DrainPcs == {"idle", "loop", "claimed", "calling", "executed", "ok", "soft", "hard"}
SendPcs == {"new", "calling", "executed", "soft", "hard", "over"}

TypeOK ==
  /\ row \in [Ids -> Rows] /\ used \in 0..MaxRows
  /\ drain \in [pc : DrainPcs, id : 0..MaxRows, value : BOOLEAN, attempts : Nat]
  /\ drain.pc \notin {"idle", "loop"} => drain.id \in Ids
  /\ batch \subseteq Snapshots
  /\ star \in [Mail -> BOOLEAN] /\ folder \in [Mail -> Folders] /\ copies \in [Drafts -> Nat]
  /\ shown \in [Mail -> BOOLEAN] /\ storeStar \in [Stored -> BOOLEAN]
  /\ send \in [Drafts -> SendPcs]
  /\ local \in [Drafts -> {"none", "sending", "failed", "server"}]
  /\ lastStar \in [Mail -> 0..MaxRows] /\ lastMove \in [Mail -> 0..MaxRows]
  /\ direct \in [Mail -> Folders \cup {"none"}] /\ settled \in [Mail -> Folders \cup {"none"}]
  /\ bypassed \subseteq Mail
  /\ unheard \in [Drafts -> Nat] /\ orphans \subseteq Ids /\ discarded \subseteq Drafts
  /\ taps \in 0..MaxTaps /\ requeues \in 0..MaxRequeues /\ kills \in 0..MaxKills

Unused == [status |-> "unused", op |-> "setStarred", target |-> NoTarget, value |-> FALSE,
           attempts |-> 0, due |-> FALSE]
Idle == [pc |-> "idle", id |-> 0, value |-> FALSE, attempts |-> 0]

Init ==
  /\ row = [i \in Ids |-> Unused] /\ used = 0
  /\ drain = Idle /\ batch = {}
  /\ star = [m \in Mail |-> FALSE] /\ folder = [m \in Mail |-> "inbox"]
  /\ copies = [d \in Drafts |-> 0]
  /\ shown = star /\ storeStar = [m \in Stored |-> FALSE]
  /\ send = [d \in Drafts |-> "new"] /\ local = [d \in Drafts |-> "none"]
  /\ lastStar = [m \in Mail |-> 0] /\ lastMove = [m \in Mail |-> 0]
  /\ direct = [m \in Mail |-> "none"] /\ settled = direct /\ bypassed = {}
  /\ unheard = [d \in Drafts |-> 0] /\ orphans = {} /\ discarded = {}
  /\ taps = 0 /\ requeues = 0 /\ kills = 0

-----------------------------------------------------------------------------
(* Outbox *)

\* Mutant: a slot of its own for every operation.
SlotByOp(op) == op

\* coalesceSuffix: delete and archive share a slot.
Slot(op) == IF op \in Terminal THEN "terminal" ELSE op

Pending(i, op, t) ==
  row[i].status = "pending" /\ row[i].target = t /\ Slot(row[i].op) = Slot(op)

\* The partial unique index: a pending row of the same key exists besides i.
Taken(i) == \E j \in Ids \ {i} : Pending(j, row[i].op, row[i].target)

\* A deleted row keeps what it was for; nothing reads the rest.
Gone(r) == [r EXCEPT !.status = "gone", !.attempts = 0, !.due = FALSE]

\* A terminal operation first deletes every pending row of the mail.
Kept(op, t) ==
  [i \in Ids |-> IF op \in Terminal /\ row[i].status = "pending" /\ row[i].target = t
                 THEN Gone(row[i]) ELSE row[i]]

\* The row of an enqueue: the pending one of the key, or a new one.
SlotRow(op, t) ==
  IF op \notin Terminal /\ \E i \in Ids : Pending(i, op, t)
  THEN CHOOSE i \in Ids : Pending(i, op, t) ELSE used + 1

Enqueue(op, t, v) ==
  LET id == SlotRow(op, t) IN
  /\ id \in Ids
  /\ used' = IF id > used THEN id ELSE used
  /\ row' = [Kept(op, t) EXCEPT
       ![id] = [status |-> "pending", op |-> op, target |-> t, value |-> v,
                attempts |-> 0, due |-> TRUE]]
  /\ UNCHANGED <<drain, batch, orphans>>

\* A mail whose move is queued: the choice is the outbox's again, unless a direct
\* call for the mail is still on its way.
Chosen(m) ==
  /\ bypassed' = IF direct[m] = "none" THEN bypassed \ {m} ELSE bypassed
  /\ settled' = [n \in Mail |-> IF n = m THEN "none" ELSE settled[n]]
  /\ UNCHANGED direct

\* Requeue from the Pending Sync screen, which offers it for failed rows; the
\* attempts stay, and the unique index refuses it while a newer row is pending.
Requeue(i) ==
  /\ row[i].status = "failed" /\ ~Taken(i)
  /\ requeues < MaxRequeues /\ requeues' = requeues + 1
  /\ row' = [row EXCEPT ![i].status = "pending", ![i].due = TRUE]
  /\ lastMove' = [m \in Mail |-> IF m = row[i].target /\ row[i].op \in Terminal
                                  THEN i ELSE lastMove[m]]
  /\ lastStar' = [m \in Mail |-> IF m = row[i].target /\ row[i].op = "setStarred"
                                  THEN i ELSE lastStar[m]]
  /\ IF row[i].op \in Terminal THEN Chosen(row[i].target)
     ELSE UNCHANGED <<direct, bypassed, settled>>
  /\ UNCHANGED <<used, drain, batch, orphans, server, shown, storeStar, compose, taps, kills>>

\* Discard: the user gives the change up.
Discard(i) ==
  LET t == row[i].target IN
  /\ row[i].status = "failed"
  /\ row' = [row EXCEPT ![i] = Gone(@)]
  /\ lastMove' = [m \in Mail |-> IF lastMove[m] = i THEN 0 ELSE lastMove[m]]
  /\ lastStar' = [m \in Mail |-> IF lastStar[m] = i THEN 0 ELSE lastStar[m]]
  /\ discarded' = IF t \in Drafts THEN discarded \cup {t} ELSE discarded
  /\ UNCHANGED <<used, drain, batch, orphans, server, shown, storeStar, send, local, unheard,
                 direct, bypassed, settled, counters>>

-----------------------------------------------------------------------------
(* MailActions *)

\* toggleStar works on the Email object of the detail screen.
ToggleStar(m) ==
  LET next == ~shown[m] IN
  /\ taps < MaxTaps /\ taps' = taps + 1
  /\ storeStar' = [s \in Stored |-> IF s = m THEN next ELSE storeStar[s]]
  /\ Enqueue("setStarred", m, next)
  /\ lastStar' = [lastStar EXCEPT ![m] = SlotRow("setStarred", m)]
  /\ UNCHANGED <<server, shown, compose, lastMove, direct, bypassed, settled, requeues, kills>>

\* The screen fetches the mail again (ref.invalidate after a tap, or on opening).
Refetch(m) ==
  /\ shown[m] # star[m] /\ shown' = [shown EXCEPT ![m] = star[m]]
  /\ UNCHANGED <<queue, server, storeStar, compose, choices, counters>>

\* archive and delete; a star still waiting is given up by design.
Move(m, op) ==
  /\ taps < MaxTaps /\ taps' = taps + 1
  /\ Enqueue(op, m, TRUE)
  /\ lastMove' = [lastMove EXCEPT ![m] = SlotRow(op, m)]
  /\ lastStar' = [lastStar EXCEPT ![m] = 0]
  /\ Chosen(m)
  /\ UNCHANGED <<server, shown, storeStar, compose, requeues, kills>>

\* The moves that never enter the outbox: UNDO, which asks for the inbox, and the
\* bulk actions of the inbox screen.  What is queued for the mail stays queued.
MoveDirectly(m, f) ==
  /\ taps < MaxTaps /\ taps' = taps + 1
  /\ direct[m] = "none" /\ direct' = [direct EXCEPT ![m] = f]
  /\ bypassed' = bypassed \cup {m}
  /\ UNCHANGED <<queue, server, shown, storeStar, compose, lastStar, lastMove, settled,
                 requeues, kills>>

\* A row of the mail that may still move it.
Waiting(m) ==
  \E i \in Ids : /\ row[i].target = m /\ row[i].op \in Terminal
                 /\ row[i].status = "pending" \/ (row[i].status = "inflight" /\ i \notin orphans)

\* The server moves the mail.  What the app does with the answer changes nothing here.
DirectMoves(m) ==
  /\ direct[m] # "none" /\ direct' = [direct EXCEPT ![m] = "none"]
  /\ folder' = [folder EXCEPT ![m] = direct[m]]
  /\ settled' = [settled EXCEPT ![m] = IF Waiting(m) THEN "none" ELSE direct[m]]
  /\ UNCHANGED <<queue, star, copies, shown, storeStar, compose, lastStar, lastMove, bypassed, counters>>

\* The call fails; nobody repeats it.
DirectFails(m) ==
  /\ direct[m] # "none" /\ direct' = [direct EXCEPT ![m] = "none"]
  /\ UNCHANGED <<queue, server, shown, storeStar, compose, lastStar, lastMove, bypassed, settled,
                 counters>>

\* Mutant: the row is queued before the direct call.
QueuedAndCalled(d) ==
  /\ send[d] = "new"
  /\ send' = [send EXCEPT ![d] = "calling"]
  /\ local' = [local EXCEPT ![d] = "sending"]
  /\ Enqueue("composeSend", d, TRUE)
  /\ UNCHANGED <<server, shown, storeStar, unheard, discarded, choices, counters>>

\* send: placeholder first, then the direct call.
SendTapped(d) ==
  /\ send[d] = "new"
  /\ send' = [send EXCEPT ![d] = "calling"]
  /\ local' = [local EXCEPT ![d] = "sending"]
  /\ UNCHANGED <<queue, server, shown, storeStar, unheard, discarded, choices, counters>>

SendExecuted(d) ==
  /\ send[d] = "calling"
  /\ send' = [send EXCEPT ![d] = "executed"]
  /\ copies' = [copies EXCEPT ![d] = @ + 1]
  /\ UNCHANGED <<queue, star, folder, shown, storeStar, local, unheard, discarded, choices, counters>>

\* A failed call: retryable (network, 429, 5xx) or refused.
SendFails(d, kind) ==
  /\ send[d] = "calling" /\ kind \in {"soft", "hard"}
  /\ send' = [send EXCEPT ![d] = kind]
  /\ UNCHANGED <<queue, server, shown, storeStar, local, unheard, discarded, choices, counters>>

\* The server made the email and the answer is lost.
SendLost(d) ==
  /\ send[d] = "executed"
  /\ send' = [send EXCEPT ![d] = "soft"]
  /\ unheard' = [unheard EXCEPT ![d] = @ + 1]
  /\ UNCHANGED <<queue, server, shown, storeStar, local, discarded, choices, counters>>

\* swapId: the row of the placeholder takes the server's id, if it is there.
Swapped(d) == [local EXCEPT ![d] = IF @ = "none" THEN @ ELSE "server"]

\* The answer arrives and the id is swapped; no one looks in between.
SendSwaps(d) ==
  /\ send[d] = "executed"
  /\ send' = [send EXCEPT ![d] = "over"]
  /\ local' = Swapped(d)
  /\ UNCHANGED <<queue, server, shown, storeStar, unheard, discarded, choices, counters>>

SendQueued(d) ==
  /\ send[d] = "soft"
  /\ send' = [send EXCEPT ![d] = "over"]
  /\ Enqueue("composeSend", d, TRUE)
  /\ UNCHANGED <<server, shown, storeStar, local, unheard, discarded, choices, counters>>

\* Mutant: the placeholder is not marked.
RejectedSilently(d) ==
  /\ send[d] = "hard"
  /\ send' = [send EXCEPT ![d] = "over"]
  /\ UNCHANGED <<queue, server, shown, storeStar, local, unheard, discarded, choices, counters>>

SendRejected(d) ==
  /\ send[d] = "hard"
  /\ send' = [send EXCEPT ![d] = "over"]
  /\ local' = [local EXCEPT ![d] = "failed"]
  /\ UNCHANGED <<queue, server, shown, storeStar, unheard, discarded, choices, counters>>

-----------------------------------------------------------------------------
(* SyncEngine *)

Cur == row[drain.id]
Between == [Idle EXCEPT !.pc = "loop"]
At(pc) == drain.pc = pc
GoTo(pc) == drain' = [drain EXCEPT !.pc = pc]
Elsewhere == <<shown, storeStar, send, discarded, choices, counters>>

\* The debounce or the 15 s tick fires, and nothing drains (_draining); pullDue
\* returns what is due then.
StartDrain ==
  LET due == {i \in Ids : row[i].status = "pending" /\ row[i].due} IN
  /\ At("idle") /\ due # {}
  /\ drain' = Between
  /\ batch' = {[id |-> i, value |-> row[i].value, attempts |-> row[i].attempts] : i \in due}
  /\ UNCHANGED <<row, used, orphans, server, local, unheard, Elsewhere>>

\* claim succeeds only on a row that is still pending.
ClaimRow(s) ==
  /\ At("loop") /\ s \in batch
  /\ batch' = batch \ {s}
  /\ IF row[s.id].status = "pending"
     THEN /\ row' = [row EXCEPT ![s.id].status = "inflight"]
          /\ drain' = [pc |-> "claimed", id |-> s.id, value |-> s.value, attempts |-> s.attempts]
     ELSE UNCHANGED <<row, drain>>
  /\ UNCHANGED <<used, orphans, server, local, unheard, Elsewhere>>

\* Mutant: _draining is not reset.
EndDrainBusy ==
  /\ At("loop") /\ batch = {} /\ GoTo("busy")
  /\ UNCHANGED <<row, used, batch, orphans, server, local, unheard, Elsewhere>>

EndDrain ==
  /\ At("loop") /\ batch = {}
  /\ drain' = Idle
  /\ UNCHANGED <<row, used, batch, orphans, server, local, unheard, Elsewhere>>

\* setStarred returns without a call when the local store already has the value.
Handle ==
  /\ At("claimed")
  /\ GoTo(IF Cur.op = "setStarred" /\ Cur.target \in Stored /\ storeStar[Cur.target] = drain.value
          THEN "ok" ELSE "calling")
  /\ UNCHANGED <<row, used, batch, orphans, server, local, unheard, Elsewhere>>

\* The endpoint: toggleStar flips, archive and delete move, compose makes an email.
Execute ==
  /\ At("calling")
  /\ GoTo("executed")
  /\ star' = IF Cur.op = "setStarred" THEN [star EXCEPT ![Cur.target] = ~@] ELSE star
  /\ folder' = IF Cur.op \in Terminal
               THEN [folder EXCEPT ![Cur.target] = FolderOf(Cur.op)] ELSE folder
  /\ copies' = IF Cur.op = "composeSend" THEN [copies EXCEPT ![Cur.target] = @ + 1] ELSE copies
  /\ UNCHANGED <<row, used, batch, orphans, local, unheard, Elsewhere>>

\* The answer arrives, and composeSend swaps the id; or it is lost after the
\* server did its work; or the call fails.
Answer ==
  /\ At("executed") /\ GoTo("ok")
  /\ local' = IF Cur.op = "composeSend" THEN Swapped(Cur.target) ELSE local
  /\ UNCHANGED <<row, used, batch, orphans, server, unheard, Elsewhere>>

Lose ==
  /\ At("executed") /\ GoTo("soft")
  /\ unheard' = IF Cur.op = "composeSend" THEN [unheard EXCEPT ![Cur.target] = @ + 1] ELSE unheard
  /\ UNCHANGED <<row, used, batch, orphans, server, local, Elsewhere>>

Fail(kind) ==
  /\ At("calling") /\ kind \in {"soft", "hard"} /\ GoTo(kind)
  /\ UNCHANGED <<row, used, batch, orphans, server, local, unheard, Elsewhere>>

\* ackSuccess
Ack ==
  /\ At("ok") /\ drain' = Between
  /\ row' = [row EXCEPT ![drain.id] = Gone(@)]
  /\ UNCHANGED <<used, batch, orphans, server, local, unheard, Elsewhere>>

\* shouldRetry counts with the attempts of the snapshot.
Retries == At("soft") /\ drain.attempts + 1 < MaxAttempts

MarkRetry ==
  /\ Retries /\ ~Taken(drain.id)
  /\ drain' = Between
  /\ row' = [row EXCEPT ![drain.id].status = "pending", ![drain.id].attempts = @ + 1,
                        ![drain.id].due = FALSE]
  /\ UNCHANGED <<used, batch, orphans, server, local, unheard, Elsewhere>>

\* markRetry of a row whose key was enqueued again meanwhile: the unique index
\* refuses, the exception ends the drain and the row stays in flight.
RetryRefused ==
  /\ Retries /\ Taken(drain.id)
  /\ drain' = Idle /\ batch' = {}
  /\ orphans' = orphans \cup {drain.id}
  /\ UNCHANGED <<row, used, server, local, unheard, Elsewhere>>

MarkFailed ==
  /\ At("hard") \/ (At("soft") /\ ~Retries)
  /\ drain' = Between
  /\ row' = [row EXCEPT ![drain.id].status = "failed", ![drain.id].attempts = @ + 1]
  /\ UNCHANGED <<used, batch, orphans, server, local, unheard, Elsewhere>>

\* not_before_ms passes.
Elapses(i) ==
  /\ row[i].status = "pending" /\ ~row[i].due
  /\ row' = [row EXCEPT ![i].due = TRUE]
  /\ UNCHANGED <<used, drain, batch, orphans, server, local, unheard, Elsewhere>>

\* The app is killed; nothing at startup looks at rows in flight.
Kill ==
  /\ kills < MaxKills /\ kills' = kills + 1
  /\ drain' = Idle /\ batch' = {}
  /\ orphans' = IF drain.pc \in {"idle", "loop"} THEN orphans ELSE orphans \cup {drain.id}
  /\ send' = [d \in Drafts |-> IF send[d] = "new" THEN "new" ELSE "over"]
  /\ UNCHANGED <<row, used, server, shown, storeStar, local, unheard, discarded, choices,
                 taps, requeues>>

-----------------------------------------------------------------------------

SendStep(d) ==
  \/ SendExecuted(d) \/ SendSwaps(d) \/ SendLost(d)
  \/ SendQueued(d) \/ SendRejected(d)
  \/ \E kind \in {"soft", "hard"} : SendFails(d, kind)

DrainStep ==
  \/ StartDrain \/ EndDrain \/ Handle \/ Execute \/ Answer \/ Lose \/ Ack
  \/ MarkRetry \/ RetryRefused \/ MarkFailed
  \/ \E s \in batch : ClaimRow(s)
  \/ \E kind \in {"soft", "hard"} : Fail(kind)

Next ==
  \/ DrainStep
  \/ \E m \in Mail : ToggleStar(m) \/ Refetch(m) \/ \E op \in Terminal : Move(m, op)
  \/ \E m \in Mail : DirectMoves(m) \/ DirectFails(m) \/ \E f \in Folders : MoveDirectly(m, f)
  \/ \E d \in Drafts : SendTapped(d) \/ SendStep(d)
  \/ \E i \in Ids : Requeue(i) \/ Discard(i) \/ Elapses(i)
  \/ Kill

Spec == Init /\ [][Next]_vars

\* Timers fire and awaited calls end, with an answer or an error; nothing is
\* assumed of the user.
FairSpec ==
  /\ Spec
  /\ WF_vars(DrainStep)
  /\ \A d \in Drafts : WF_vars(SendStep(d))
  /\ \A i \in Ids : WF_vars(Elapses(i))

-----------------------------------------------------------------------------
(* Properties *)

\* A draft becomes more than one email only by compose calls whose success the
\* app never heard of: the direct call, the queued row and its retries never
\* run one after another otherwise.
CopiesExplained == \A d \in Drafts : copies[d] <= 1 + unheard[d]

\* Once the row that carries the user's last move is gone, the mail is where the
\* user moved it last: an older archive retried after a newer delete cannot win.
\* This is said of a mail whose last move was queued; a direct one, such as UNDO,
\* does not take back what is queued.
QueuedMoveWins ==
  \A m \in Mail : lastMove[m] # 0 /\ row[lastMove[m]].status = "gone" /\ m \notin bypassed
                  => folder[m] = FolderOf(row[lastMove[m]].op)

\* A direct move that reached the server when no row of the mail could still run holds
\* until the user moves the mail again: no retry and no orphan undoes it.
DirectMoveWins == \A m \in Mail : settled[m] # "none" => folder[m] = settled[m]

\* The user's last move is where the mail is, by whichever of the two ways it went;
\* not said of a direct move made while an older one was still in the outbox, which
\* the older one overrides.
LatestMoveWins == QueuedMoveWins /\ DirectMoveWins

\* A placeholder shown as sending has a direct call in progress or a row: one the drain
\* will run, or one among the failed changes, where only the user can retry or discard
\* it.  It is never left with neither, but by a kill or once the user discarded the row.
NoStrandedPlaceholder ==
  kills = 0 =>
    \A d \in Drafts : local[d] = "sending" =>
      \/ send[d] # "over" \/ d \in discarded
      \/ \E i \in Ids : row[i].target = d /\ row[i].status \in {"pending", "inflight", "failed"}

\* The row being run is in flight, and a row in flight nobody runs was left by a
\* kill or by a retry that met a newer row of its key.
InflightExplained ==
  \A i \in Ids : row[i].status = "inflight" <=>
    \/ i \in orphans
    \/ drain.id = i /\ drain.pc \notin {"idle", "loop"}

\* At most one pending row per key, as the index demands and coalescing arranges.
OnePending == \A i \in Ids : row[i].status = "pending" => ~Taken(i)

\* A queued change is settled: sent, failed for the user to see, or an orphan.
RowSettles ==
  \A i \in Ids : row[i].status = "pending" ~> (row[i].status \in {"gone", "failed"} \/ i \in orphans)

\* What outbox.dart:11 says: the latest desired value wins.
LatestStarWins ==
  \A m \in Mail : lastStar[m] # 0 /\ row[lastStar[m]].status = "gone"
                  => star[m] = row[lastStar[m]].value

-----------------------------------------------------------------------------
(* The inductive invariant *)

Running == drain.pc \notin {"idle", "loop"}

\* Ids are handed out in order; what a row is for fits its operation.
RowsUsed ==
  \A i \in Ids :
    /\ row[i].status = "unused" <=> i > used
    /\ row[i].target = NoTarget <=> row[i].status = "unused"
    /\ row[i].target \in Drafts <=> row[i].op = "composeSend" /\ row[i].status # "unused"

\* A row that runs is nobody's orphan.
RunsAlone == Running => row[drain.id].status = "inflight" /\ drain.id \notin orphans

\* A draft has a row only when its direct call has ended, and never a second one.
OneRow ==
  /\ \A d \in Drafts :
       /\ local[d] = "none" <=> send[d] = "new"
       /\ send[d] # "over" => \A i \in Ids : row[i].target # d
  /\ \A i, j \in Ids : row[i].target \in Drafts /\ row[j].target = row[i].target => i = j

\* While a draft can still be sent, every email made of it is one that went unheard.
CopiesSoFar ==
  \A d \in Drafts :
    /\ send[d] \in {"new", "calling", "soft", "hard"} => copies[d] <= unheard[d]
    /\ \A i \in Ids : row[i].target = d =>
         /\ row[i].status \in {"pending", "failed"} => copies[d] <= unheard[d]
         /\ drain.id = i /\ drain.pc \in {"claimed", "calling", "soft", "hard"} =>
              copies[d] <= unheard[d]

\* The user's last move is the only one waiting; a move that runs is the last one, or
\* the last one waits.
MovesSoFar ==
  /\ \A m \in Mail : lastMove[m] # 0 =>
       row[lastMove[m]].target = m /\ row[lastMove[m]].op \in Terminal
  /\ \A i \in Ids : row[i].op \in Terminal =>
       /\ row[i].status = "pending" => lastMove[row[i].target] = i
       /\ Running /\ drain.id = i =>
            /\ lastMove[row[i].target] # 0
            /\ lastMove[row[i].target] = i \/ row[lastMove[row[i].target]].status = "pending"
            /\ drain.pc \in {"executed", "ok"} /\ lastMove[row[i].target] = i
                 /\ row[i].target \notin bypassed => folder[row[i].target] = FolderOf(row[i].op)

\* A direct call on its way may still move its mail; where one settled a mail, no row is
\* left to move it.
DirectSoFar ==
  \A m \in Mail :
    /\ direct[m] # "none" => m \in bypassed
    /\ settled[m] # "none" => ~Waiting(m)

\* A draft that is acknowledged has swapped its placeholder.
SwappedByThen ==
  \A i \in Ids : drain.pc = "ok" /\ drain.id = i /\ row[i].target \in Drafts =>
    local[row[i].target] = "server"

\* Together these are preserved by every step.
MobileInv ==
  /\ TypeOK /\ RowsUsed /\ RunsAlone /\ OnePending /\ InflightExplained
  /\ OneRow /\ CopiesSoFar /\ CopiesExplained /\ MovesSoFar /\ DirectSoFar /\ LatestMoveWins
  /\ SwappedByThen /\ NoStrandedPlaceholder
=============================================================================
