---------------------------- MODULE SendPipeline ----------------------------
(***************************************************************************)
(* The outbound half of the mail API: how a composed email reaches the     *)
(* mail engine.  Three kinds of actor move one row of the table `emails`:  *)
(*                                                                         *)
(*   - the request handlers of routes/inbox.ts (compose, dispatch, purge), *)
(*   - the dispatcher tick of services/send-dispatcher.ts, one per API     *)
(*     process, and                                                        *)
(*   - the background EmailSender.sendEmail calls they start (`jobs`).     *)
(*                                                                         *)
(* Every `await` of the code ends a step, so all of them interleave.  The  *)
(* rows are those of one user, whose hourly send budget is `used`; the     *)
(* two-window counter behind it is modelled in SendRateLimit.              *)
(***************************************************************************)
EXTENDS Naturals, FiniteSets

CONSTANTS
  Emails,           \* rows the user may compose
  Unowned,          \* those whose From names none of his mailboxes letter for
                    \* letter: compose accepts it in any case
  Procs,            \* API processes, each running its own dispatcher tick
  Requests,         \* dispatch requests the user can have in progress
  MaxSendAttempts,  \* length of RETRY_DELAYS_MS (5 in the code)
  Budget,           \* SEND_LIMIT_PER_HOUR
  Batch,            \* TICK_BATCH_SIZE
  MaxClaims,        \* bound: the user retries a row only below this count
  MaxCrashes,       \* bound: process crashes
  DbErrors,         \* may a database statement fail?
  Purges,           \* may the user hard-delete rows?
  EarlyAccess       \* may another client act on a row whose compose request
                    \* has inserted it but has not returned yet?

ASSUME ParametersAssumption ==
  /\ Unowned \subseteq Emails
  /\ MaxSendAttempts \in Nat \ {0}
  /\ Budget \in Nat \ {0}
  /\ Batch \in Nat \ {0}
  /\ MaxClaims \in Nat
  /\ MaxCrashes \in Nat
  /\ DbErrors \in BOOLEAN
  /\ Purges \in BOOLEAN
  /\ EarlyAccess \in BOOLEAN

VARIABLES
  status,     \* emails.status; "none" before the insert, "purged" after a delete
  isDraft,    \* emails.isDraft
  schedule,   \* emails.scheduledAt against the clock: "none", "future", "past"
  attempts,   \* emails.sendAttempts
  backoff,    \* emails.lastAttemptAt against the clock: "null", "fresh" (< 1 s
              \* old), "aged" (>= 1 s, backoff still running), "due"
  compose,    \* per row, the compose request that creates it: [pc, proc]
  dispatch,   \* POST /dispatch requests between reservation and claim
  tickPc,     \* per process, where its dispatcher tick is
  retryList,  \* per process, the retry candidates the tick still has to visit
  schedList,  \* per process, the scheduled candidates it still has to visit
  tickRow,    \* per process, the row it has reserved a slot for, as a set
  jobs,       \* sendEmail calls in progress
  used,       \* send slots consumed in the current window
  crashes,    \* number of crashes so far
  accepted,   \* copies of each email the mail engine took
  unheard,    \* those of them whose acceptance no job got to know
  spent,      \* attempts this window that ended in "sent" or in a hard
              \* rejection, those of other mail included, up to Budget
  lost        \* slots this window whose holder ended without recording an
              \* outcome or returning the slot, up to Budget

row     == <<status, isDraft, schedule, attempts, backoff>>
tick    == <<tickPc, retryList, schedList, tickRow>>
history == <<accepted, unheard, spent, lost>>
vars    == <<row, compose, dispatch, tick, jobs, used, crashes, history>>

Statuses == {"none", "idle", "sending", "sent", "failed", "rate_limited", "purged"}
ComposePcs == {"new", "scheduling", "allowed", "blocked", "claiming", "limiting", "done"}
TickPcs  == {"off", "selecting", "loop", "reserved", "refunding"}
Stages   == {"claimed", "calling", "taken", "ok", "hard", "soft", "refund"}

\* A sendEmail call: the row, the claim it answers for, the process it runs in,
\* how far it is, and the attempt count it read.
JobRecord == [email : Emails, n : Nat, proc : Procs, stage : Stages, seen : Nat]

-----------------------------------------------------------------------------
(* The row and the budget *)

Exists(e) == status[e] \notin {"none", "purged"}

\* Mutant of Refund: without the guard that stops the counter at zero.
RefundBelowZero == used' = used - 1

\* checkAndReserveSend and refundSend on the one window kept here.
SlotFree == used < Budget
Reserve  == used' = used + 1
Refund   == used' = IF used > 0 THEN used - 1 ELSE 0
Spend    == spent' = IF spent < Budget THEN spent + 1 ELSE spent

\* n slots are given up by their holders and go back to nobody.
Lose(n)  == lost' = IF n \in 0..(Budget - lost) THEN lost + n ELSE Budget

\* Mutants of Claimable: no look at the status at all, or only for "sending".
ClaimableInAnyStatus(e)   == Exists(e)
ClaimableUnlessSending(e) == Exists(e) /\ status[e] # "sending"

\* The WHERE clause of EmailSender.claim.
Claimable(e) == status[e] \in {"idle", "rate_limited", "failed"}

\* The conditional UPDATE of EmailSender.claim when it matches ...
MarkSending(e) ==
  /\ status'   = [status EXCEPT ![e] = "sending"]
  /\ attempts' = [attempts EXCEPT ![e] = @ + 1]
  /\ backoff'  = [backoff EXCEPT ![e] = "fresh"]
  /\ UNCHANGED <<isDraft, schedule>>

\* ... and the background sendEmail call every caller starts after winning it.
Claim(e, p) ==
  /\ MarkSending(e)
  /\ jobs' = jobs \cup {[email |-> e, n |-> attempts[e] + 1, proc |-> p,
                         stage |-> "claimed", seen |-> 0]}

\* A request whose claim matches nothing answers 409 and keeps its slot.
ClaimOrLose(e, p) ==
  \/ Claimable(e) /\ Claim(e, p) /\ UNCHANGED lost
  \/ ~Claimable(e) /\ UNCHANGED <<row, jobs>> /\ Lose(1)

\* A statement of claim throws.  When it is the SELECT after the UPDATE, the row
\* is left "sending" with no job behind it.
ClaimThrows(e) ==
  /\ DbErrors
  /\ \/ UNCHANGED row
     \/ Claimable(e) /\ MarkSending(e)
  /\ UNCHANGED jobs

\* What holds a slot it will spend, return or lose, in the processes of P.
Composing(P)   == {e \in Emails : compose[e].pc \in {"allowed", "claiming"} /\ compose[e].proc \in P}
Dispatching(P) == {d \in dispatch : d.proc \in P}
Ticking(P)     == {p \in P : tickPc[p] \in {"reserved", "refunding"}}
Sending(P)     == {j \in jobs : j.proc \in P}
HeldSlots(P)   == Cardinality(Composing(P)) + Cardinality(Dispatching(P))
                  + Cardinality(Ticking(P)) + Cardinality(Sending(P))

\* A client other than the composing one may use the row.
Reachable(e) == Exists(e) /\ (EarlyAccess \/ compose[e].pc = "done")

-----------------------------------------------------------------------------
(* POST /inbox/compose *)

At(e, pc) == compose' = [compose EXCEPT ![e].pc = pc]

NewRow(e, when) ==
  /\ status'   = [status EXCEPT ![e] = "idle"]
  /\ isDraft'  = [isDraft EXCEPT ![e] = TRUE]
  /\ schedule' = [schedule EXCEPT ![e] = when]
  /\ UNCHANGED <<attempts, backoff>>

\* send = false: the row is only a draft.
ComposeDraft(e) ==
  /\ compose[e].pc = "new"
  /\ NewRow(e, "none")
  /\ At(e, "done")
  /\ UNCHANGED <<dispatch, tick, jobs, used, crashes, history>>

\* send = true with a future scheduledAt: createDraft ...
ComposeScheduled(e) ==
  /\ compose[e].pc = "new"
  /\ NewRow(e, "future")
  /\ At(e, "scheduling")
  /\ UNCHANGED <<dispatch, tick, jobs, used, crashes, history>>

\* ... then an UPDATE that does not look at the row's status.
ComposeMarkScheduled(e) ==
  /\ compose[e].pc = "scheduling"
  /\ IF Exists(e)
     THEN /\ status'  = [status EXCEPT ![e] = "idle"]
          /\ isDraft' = [isDraft EXCEPT ![e] = FALSE]
     ELSE UNCHANGED <<status, isDraft>>
  /\ At(e, "done")
  /\ UNCHANGED <<schedule, attempts, backoff, dispatch, tick, jobs, used, crashes, history>>

\* send = true, now: the slot is reserved before the row exists.
ComposeReserve(e) ==
  /\ compose[e].pc = "new"
  /\ \/ SlotFree /\ Reserve /\ At(e, "allowed")
     \/ ~SlotFree /\ UNCHANGED used /\ At(e, "blocked")
  /\ UNCHANGED <<row, dispatch, tick, jobs, crashes, history>>

ComposeInsert(e) ==
  /\ compose[e].pc \in {"allowed", "blocked"}
  /\ NewRow(e, "none")
  /\ At(e, IF compose[e].pc = "allowed" THEN "claiming" ELSE "limiting")
  /\ UNCHANGED <<dispatch, tick, jobs, used, crashes, history>>

\* createDraft or one of the UPDATEs throws: the handler ends in a 500; a slot
\* it has reserved stays consumed, a row it has inserted stays a draft.
ComposeThrows(e) ==
  /\ DbErrors
  /\ compose[e].pc \in {"scheduling", "allowed", "blocked", "limiting"}
  /\ At(e, "done")
  /\ IF compose[e].pc = "allowed" THEN Lose(1) ELSE UNCHANGED lost
  /\ UNCHANGED <<row, dispatch, tick, jobs, used, crashes, accepted, unheard, spent>>

\* Blocked by the limiter: another UPDATE that does not look at the status.
\* It leaves lastAttemptAt alone.
ComposeMarkLimited(e) ==
  /\ compose[e].pc = "limiting"
  /\ status' = IF Exists(e) THEN [status EXCEPT ![e] = "rate_limited"] ELSE status
  /\ At(e, "done")
  /\ UNCHANGED <<isDraft, schedule, attempts, backoff, dispatch, tick, jobs, used, crashes, history>>

ComposeClaim(e) ==
  /\ compose[e].pc = "claiming"
  /\ ClaimOrLose(e, compose[e].proc)
  /\ At(e, "done")
  /\ UNCHANGED <<dispatch, tick, used, crashes, accepted, unheard, spent>>

ComposeClaimThrows(e) ==
  /\ compose[e].pc = "claiming"
  /\ ClaimThrows(e)
  /\ Lose(1)
  /\ At(e, "done")
  /\ UNCHANGED <<dispatch, tick, used, crashes, accepted, unheard, spent>>

-----------------------------------------------------------------------------
(* POST /inbox/emails/:id/dispatch and the hard delete *)

\* The ownership check and the reservation; a blocked request answers 429.
DispatchReserve(r, e, p) ==
  /\ \A d \in dispatch : d.id # r
  /\ Reachable(e)
  /\ attempts[e] < MaxClaims
  /\ SlotFree
  /\ Reserve
  /\ dispatch' = dispatch \cup {[id |-> r, email |-> e, proc |-> p]}
  /\ UNCHANGED <<row, compose, tick, jobs, crashes, history>>

\* Mutant of DispatchClaim: sendEmail starts whatever claim answered.
DispatchSendsAnyway(d) ==
  /\ IF Claimable(d.email)
     THEN Claim(d.email, d.proc)
     ELSE /\ jobs' = jobs \cup {[email |-> d.email, n |-> attempts[d.email], proc |-> d.proc,
                                stage |-> "claimed", seen |-> 0]}
          /\ UNCHANGED row
  /\ dispatch' = dispatch \ {d}
  /\ UNCHANGED <<compose, tick, used, crashes, history>>

DispatchClaim(d) ==
  /\ ClaimOrLose(d.email, d.proc)
  /\ dispatch' = dispatch \ {d}
  /\ UNCHANGED <<compose, tick, used, crashes, accepted, unheard, spent>>

DispatchClaimThrows(d) ==
  /\ ClaimThrows(d.email)
  /\ Lose(1)
  /\ dispatch' = dispatch \ {d}
  /\ UNCHANGED <<compose, tick, used, crashes, accepted, unheard, spent>>

\* POST /inbox/emails/:id/purge and its batch form end in a DELETE by id.
Purge(e) ==
  /\ Purges
  /\ Reachable(e)
  /\ status' = [status EXCEPT ![e] = "purged"]
  /\ UNCHANGED <<isDraft, schedule, attempts, backoff, compose, dispatch, tick, jobs,
                 used, crashes, history>>

-----------------------------------------------------------------------------
(* The dispatcher tick of process p *)

\* SELECT ... LIMIT without an ORDER BY: any full batch of the matching rows.
FullBatch(S) ==
  {c \in SUBSET S : Cardinality(c) = IF Cardinality(S) < Batch THEN Cardinality(S) ELSE Batch}

\* Mutant of PassesBackoff: the last retry is given up.
PassesBackoffOneShort(e) == attempts[e] + 1 < MaxSendAttempts /\ backoff[e] = "due"

\* rate_limited rows at least 1 s old.  The attempt and backoff checks of the
\* loop below read only values of this result and the `now` taken before it.
RetryCandidates  == {e \in Emails : status[e] = "rate_limited" /\ backoff[e] \in {"aged", "due"}}
PassesBackoff(e) == attempts[e] < MaxSendAttempts /\ backoff[e] = "due"

\* Mutant of ScheduledCandidates: it asks for a lastAttemptAt, as the retry query does.
AttemptedScheduledCandidates ==
  {e \in Emails : status[e] = "idle" /\ ~isDraft[e] /\ schedule[e] = "past" /\ backoff[e] # "null"}

ScheduledCandidates ==
  {e \in Emails : status[e] = "idle" /\ ~isDraft[e] /\ schedule[e] = "past"}

TickSelectRetries(p) ==
  /\ tickPc[p] = "off"
  /\ \E c \in FullBatch(RetryCandidates) :
       retryList' = [retryList EXCEPT ![p] = {e \in c : PassesBackoff(e)}]
  /\ tickPc' = [tickPc EXCEPT ![p] = "selecting"]
  /\ UNCHANGED <<row, compose, dispatch, schedList, tickRow, jobs, used, crashes, history>>

TickSelectScheduled(p) ==
  /\ tickPc[p] = "selecting"
  /\ \E c \in FullBatch(ScheduledCandidates) : schedList' = [schedList EXCEPT ![p] = c]
  /\ tickPc' = [tickPc EXCEPT ![p] = "loop"]
  /\ UNCHANGED <<row, compose, dispatch, retryList, tickRow, jobs, used, crashes, history>>

\* The next row in the order [...candidates, ...scheduled] ...
TakesNext(p, e) ==
  \/ /\ e \in retryList[p]
     /\ retryList' = [retryList EXCEPT ![p] = @ \ {e}]
     /\ UNCHANGED schedList
  \/ /\ retryList[p] = {}
     /\ e \in schedList[p]
     /\ schedList' = [schedList EXCEPT ![p] = @ \ {e}]
     /\ UNCHANGED retryList

\* ... and a slot for it; a blocked row waits for a later tick.
ReservesFor(p, e) ==
  \/ /\ SlotFree
     /\ Reserve
     /\ tickRow' = [tickRow EXCEPT ![p] = {e}]
     /\ tickPc'  = [tickPc EXCEPT ![p] = "reserved"]
  \/ /\ ~SlotFree
     /\ UNCHANGED <<used, tickRow, tickPc>>

TickReserve(p) ==
  /\ tickPc[p] = "loop"
  /\ \E e \in Emails : TakesNext(p, e) /\ ReservesFor(p, e)
  /\ UNCHANGED <<row, compose, dispatch, jobs, crashes, history>>

\* The row may have moved since the SELECT; claim is the only re-check.
TickClaim(p) ==
  /\ tickPc[p] = "reserved"
  /\ \E e \in tickRow[p] :
       \/ /\ Claimable(e)
          /\ Claim(e, p)
          /\ tickPc' = [tickPc EXCEPT ![p] = "loop"]
       \/ /\ ~Claimable(e)
          /\ tickPc' = [tickPc EXCEPT ![p] = "refunding"]
          /\ UNCHANGED <<row, jobs>>
  /\ tickRow' = [tickRow EXCEPT ![p] = {}]
  /\ UNCHANGED <<compose, dispatch, retryList, schedList, used, crashes, history>>

\* Mutant of TickRefund: the tick that lost the claim keeps its slot.
TickKeepsSlot(p) ==
  /\ tickPc[p] = "refunding"
  /\ tickPc' = [tickPc EXCEPT ![p] = "loop"]
  /\ UNCHANGED <<row, compose, dispatch, retryList, schedList, tickRow, jobs, used, crashes, history>>

TickRefund(p) ==
  /\ tickPc[p] = "refunding"
  /\ Refund
  /\ tickPc' = [tickPc EXCEPT ![p] = "loop"]
  /\ UNCHANGED <<row, compose, dispatch, retryList, schedList, tickRow, jobs, crashes, history>>

TickEnd(p) ==
  /\ tickPc[p] = "loop"
  /\ retryList[p] = {} /\ schedList[p] = {}
  /\ tickPc' = [tickPc EXCEPT ![p] = "off"]
  /\ UNCHANGED <<row, compose, dispatch, retryList, schedList, tickRow, jobs, used, crashes, history>>

\* The second SELECT or claim throws: the tick gives up the rest of its batch
\* and keeps the slot it has reserved.
TickThrows(p) ==
  /\ \/ tickPc[p] = "selecting" /\ DbErrors /\ UNCHANGED <<row, jobs, lost>>
     \/ tickPc[p] = "reserved" /\ Lose(1) /\ \E e \in tickRow[p] : ClaimThrows(e)
  /\ tickPc'    = [tickPc EXCEPT ![p] = "off"]
  /\ retryList' = [retryList EXCEPT ![p] = {}]
  /\ schedList' = [schedList EXCEPT ![p] = {}]
  /\ tickRow'   = [tickRow EXCEPT ![p] = {}]
  /\ UNCHANGED <<compose, dispatch, used, crashes, accepted, unheard, spent>>

-----------------------------------------------------------------------------
(* EmailSender.sendEmail, one job *)

MoveJob(j, stage) == jobs' = (jobs \ {j}) \cup {[j EXCEPT !.stage = stage]}

\* Mutant of JobRead: the attempt count is the one from before the claim.
JobReadsOldCount(j) ==
  /\ j.stage = "claimed"
  /\ jobs' = IF Exists(j.email)
             THEN (jobs \ {j}) \cup {[j EXCEPT !.stage = "calling", !.seen = attempts[j.email] - 1]}
             ELSE jobs \ {j}
  /\ UNCHANGED <<row, compose, dispatch, tick, used, crashes, history>>

\* SELECT the row; a purged row ends the job at once, without a refund.
JobRead(j) ==
  /\ j.stage = "claimed"
  /\ \/ /\ Exists(j.email)
        /\ jobs' = (jobs \ {j}) \cup {[j EXCEPT !.stage = "calling", !.seen = attempts[j.email]]}
        /\ UNCHANGED lost
     \/ /\ ~Exists(j.email)
        /\ jobs' = jobs \ {j}
        /\ Lose(1)
  /\ UNCHANGED <<row, compose, dispatch, tick, used, crashes, accepted, unheard, spent>>

\* The engine hands the message over for at least one recipient domain.
EngineTakes(j) ==
  /\ j.stage = "calling"
  /\ MoveJob(j, "taken")
  /\ accepted' = [accepted EXCEPT ![j.email] = @ + 1]
  /\ UNCHANGED <<row, compose, dispatch, tick, used, crashes, unheard, spent, lost>>

\* Mutant of EngineConfirms: a call that never reached the engine counts as sent.
SilenceConfirms(j) ==
  /\ j.stage \in {"calling", "taken"}
  /\ MoveJob(j, "ok")
  /\ UNCHANGED <<row, compose, dispatch, tick, used, crashes, history>>

\* It answers 2xx ...
EngineConfirms(j) ==
  /\ j.stage = "taken"
  /\ MoveJob(j, "ok")
  /\ UNCHANGED <<row, compose, dispatch, tick, used, crashes, history>>

\* ... or an error, or nothing that arrives: "hard" by marker text or a 4xx other
\* than 429, "soft" otherwise.  The message may already have been taken.
EngineFails(j, kind) ==
  /\ j.stage \in {"calling", "taken"}
  /\ kind \in {"hard", "soft"}
  /\ MoveJob(j, kind)
  /\ unheard' = IF j.stage = "taken" THEN [unheard EXCEPT ![j.email] = @ + 1] ELSE unheard
  /\ UNCHANGED <<row, compose, dispatch, tick, used, crashes, accepted, spent, lost>>

\* Mutant of JobSucceeds: the outcome is not written to the row.
JobSucceedsUnwritten(j) ==
  /\ j.stage = "ok"
  /\ jobs' = jobs \ {j}
  /\ Spend
  /\ UNCHANGED <<row, compose, dispatch, tick, used, crashes, accepted, unheard, lost>>

JobSucceeds(j) ==
  /\ j.stage = "ok"
  /\ IF Exists(j.email)
     THEN /\ status'  = [status EXCEPT ![j.email] = "sent"]
          /\ isDraft' = [isDraft EXCEPT ![j.email] = FALSE]
     ELSE UNCHANGED <<status, isDraft>>
  /\ jobs'  = jobs \ {j}
  /\ Spend
  /\ UNCHANGED <<schedule, attempts, backoff, compose, dispatch, tick, used, crashes,
                 accepted, unheard, lost>>

\* Mutant of FinalState: one attempt too many before the row is given up.
FinalStateLate(j) == IF j.stage = "hard" \/ j.seen > MaxSendAttempts THEN "failed" ELSE "rate_limited"

\* The outcome by kind of failure and attempts so far.
FinalState(j) == IF j.stage = "hard" \/ j.seen >= MaxSendAttempts THEN "failed" ELSE "rate_limited"

\* What a failure does with the slot: a hard one spends it, a soft one refunds it
\* in a further step if the mailbox of the From was found, and drops it otherwise.
FailureEnds(j) ==
  \/ j.stage = "hard" /\ jobs' = jobs \ {j} /\ Spend /\ UNCHANGED lost
  \/ j.stage = "soft" /\ j.email \notin Unowned /\ MoveJob(j, "refund") /\ UNCHANGED <<spent, lost>>
  \/ j.stage = "soft" /\ j.email \in Unowned /\ jobs' = jobs \ {j} /\ Lose(1) /\ UNCHANGED spent

JobFails(j) ==
  /\ j.stage \in {"hard", "soft"}
  /\ status' = IF Exists(j.email) THEN [status EXCEPT ![j.email] = FinalState(j)] ELSE status
  /\ FailureEnds(j)
  /\ UNCHANGED <<isDraft, schedule, attempts, backoff, compose, dispatch, tick, used,
                 crashes, accepted, unheard>>

JobRefunds(j) ==
  /\ j.stage = "refund"
  /\ Refund
  /\ jobs' = jobs \ {j}
  /\ UNCHANGED <<row, compose, dispatch, tick, crashes, history>>

\* Mutant of JobThrows: the catch handler only logs.
JobThrowsUnrefunded(j) ==
  /\ \/ DbErrors /\ j.stage = "claimed"
     \/ (DbErrors \/ ~Exists(j.email)) /\ j.stage \in {"ok", "hard", "soft"}
  /\ jobs' = jobs \ {j}
  /\ UNCHANGED <<row, compose, dispatch, tick, used, crashes, history>>

\* A statement of sendEmail throws: the caller's catch handler refunds the slot,
\* to the user it knows itself, and leaves the row as it is.  The INSERT into sending_logs always throws once
\* the row it references has been purged.
JobThrows(j) ==
  /\ \/ DbErrors /\ j.stage = "claimed"
     \/ (DbErrors \/ ~Exists(j.email)) /\ j.stage \in {"ok", "hard", "soft"}
  /\ MoveJob(j, "refund")
  /\ UNCHANGED <<row, compose, dispatch, tick, used, crashes, history>>

-----------------------------------------------------------------------------
(* The environment: the clock, the window and crashes *)

Ages(e) ==
  /\ backoff[e] \in {"fresh", "aged"}
  /\ backoff' = [backoff EXCEPT ![e] = IF @ = "fresh" THEN "aged" ELSE "due"]
  /\ UNCHANGED <<status, isDraft, schedule, attempts, compose, dispatch, tick, jobs, used,
                 crashes, history>>

ScheduleElapses(e) ==
  /\ schedule[e] = "future"
  /\ schedule' = [schedule EXCEPT ![e] = "past"]
  /\ UNCHANGED <<status, isDraft, attempts, backoff, compose, dispatch, tick, jobs, used,
                 crashes, history>>

WindowRolls ==
  /\ used > 0
  /\ used' = 0
  /\ spent' = 0
  /\ lost' = 0
  /\ UNCHANGED <<row, compose, dispatch, tick, jobs, crashes, accepted, unheard>>

\* Process p stops and starts again: rows and counters survive, everything it
\* held in memory does not.  An engine call already made may still be served;
\* that is EngineTakes before the crash.
Crash(p) ==
  /\ crashes < MaxCrashes
  /\ crashes' = crashes + 1
  /\ compose' = [e \in Emails |-> IF compose[e].pc # "new" /\ compose[e].proc = p
                                  THEN [compose[e] EXCEPT !.pc = "done"] ELSE compose[e]]
  /\ dispatch'  = {d \in dispatch : d.proc # p}
  /\ tickPc'    = [tickPc EXCEPT ![p] = "off"]
  /\ retryList' = [retryList EXCEPT ![p] = {}]
  /\ schedList' = [schedList EXCEPT ![p] = {}]
  /\ tickRow'   = [tickRow EXCEPT ![p] = {}]
  /\ jobs'      = {j \in jobs : j.proc # p}
  /\ Lose(HeldSlots({p}))
  /\ UNCHANGED <<row, used, accepted, unheard, spent>>

-----------------------------------------------------------------------------
Init ==
  /\ status    = [e \in Emails |-> "none"]
  /\ isDraft   = [e \in Emails |-> TRUE]
  /\ schedule  = [e \in Emails |-> "none"]
  /\ attempts  = [e \in Emails |-> 0]
  /\ backoff   = [e \in Emails |-> "null"]
  /\ compose   \in [Emails -> [pc : {"new"}, proc : Procs]]
  /\ dispatch  = {}
  /\ tickPc    = [p \in Procs |-> "off"]
  /\ retryList = [p \in Procs |-> {}]
  /\ schedList = [p \in Procs |-> {}]
  /\ tickRow   = [p \in Procs |-> {}]
  /\ jobs      = {}
  /\ used      \in 0..Budget  \* what the user's other mail has consumed of
                              \* the window: compose can be blocked at once
  /\ crashes   = 0
  /\ accepted  = [e \in Emails |-> 0]
  /\ unheard   = [e \in Emails |-> 0]
  /\ spent     = used
  /\ lost      = 0

ComposeStep(e) ==
  \/ ComposeMarkScheduled(e) \/ ComposeInsert(e) \/ ComposeThrows(e)
  \/ ComposeMarkLimited(e) \/ ComposeClaim(e)
  \/ ComposeClaimThrows(e)
ComposeStart(e) == ComposeDraft(e) \/ ComposeScheduled(e) \/ ComposeReserve(e)
TickStep(p) ==
  \/ TickSelectRetries(p) \/ TickSelectScheduled(p) \/ TickReserve(p)
  \/ TickClaim(p) \/ TickRefund(p) \/ TickEnd(p) \/ TickThrows(p)
JobStep(j) ==
  \/ JobRead(j) \/ EngineTakes(j) \/ EngineConfirms(j)
  \/ \E kind \in {"hard", "soft"} : EngineFails(j, kind)
  \/ JobSucceeds(j) \/ JobFails(j) \/ JobRefunds(j) \/ JobThrows(j)

Next ==
  \/ \E e \in Emails : ComposeStart(e) \/ ComposeStep(e) \/ Purge(e) \/ Ages(e) \/ ScheduleElapses(e)
  \/ \E r \in Requests, e \in Emails, p \in Procs : DispatchReserve(r, e, p)
  \/ \E d \in dispatch : DispatchClaim(d) \/ DispatchClaimThrows(d)
  \/ \E p \in Procs : TickStep(p) \/ Crash(p)
  \/ \E j \in jobs : JobStep(j)
  \/ WindowRolls

Spec == Init /\ [][Next]_vars

-----------------------------------------------------------------------------
(* Safety *)

TypeOK ==
  /\ status    \in [Emails -> Statuses]
  /\ isDraft   \in [Emails -> BOOLEAN]
  /\ schedule  \in [Emails -> {"none", "future", "past"}]
  /\ attempts  \in [Emails -> Nat]
  /\ backoff   \in [Emails -> {"null", "fresh", "aged", "due"}]
  /\ compose   \in [Emails -> [pc : ComposePcs, proc : Procs]]
  /\ dispatch  \subseteq [id : Requests, email : Emails, proc : Procs]
  /\ tickPc    \in [Procs -> TickPcs]
  /\ retryList \in [Procs -> SUBSET Emails]
  /\ schedList \in [Procs -> SUBSET Emails]
  /\ tickRow   \in [Procs -> SUBSET Emails]
  /\ jobs      \subseteq JobRecord
  /\ used      \in 0..Budget
  /\ crashes   \in 0..MaxCrashes
  /\ accepted  \in [Emails -> Nat]
  /\ unheard   \in [Emails -> Nat]
  /\ spent     \in 0..Budget
  /\ lost      \in 0..Budget

\* A job still works for its row until it has written the outcome.
Working(j) == j.stage # "refund"

\* "The conditional clause is the lock" (email-sender.ts:90): at most one
\* sendEmail call works on a row, and only while the row says "sending" (or is
\* gone), however compose, dispatch requests and several ticks interleave.
SendLock ==
  /\ \A j, k \in jobs : Working(j) /\ Working(k) /\ j.email = k.email => j = k
  /\ \A j \in jobs : Working(j) => status[j.email] \in {"sending", "purged"}

\* A row waits for an automatic retry only while it has one left: the tick skips
\* a row at MAX_SEND_ATTEMPTS, so such a row in rate_limited would be stuck.
RetryLeft == \A e \in Emails : status[e] = "rate_limited" => attempts[e] < MaxSendAttempts

\* The engine takes a second copy of an email only if the answer to an earlier
\* one never reached its job, and a row shown as sent was taken exactly once
\* more than that: no copy is invented and none is forgotten.
CopiesAccounted ==
  \A e \in Emails :
    /\ accepted[e] <= unheard[e] + 1
    /\ status[e] = "sent" => accepted[e] = unheard[e] + 1

\* Every slot that counts against the user was spent on an attempt the engine
\* answered for good, is still held, or went with one of the holders that end
\* without a refund: a request whose claim matched nothing, a handler or tick that
\* threw or crashed, a job whose row was purged, a job whose soft failure finds no
\* mailbox for the From.  No other path loses one.
SlotsAccounted == used <= spent + lost + HeldSlots(Procs)

\* Where nothing throws, crashes, is purged or is dispatched, no slot is lost at all
\* ("Without this the user would lose a send-slot to a no-op",
\* send-rate-limit.ts:83), unless a row was attempted whose From names no mailbox.
NoLostSlot == (\A e \in Unowned : attempts[e] = 0) => used <= spent + HeldSlots(Procs)

\* Once sent, a row never goes back into the pipeline.
SentIsFinal ==
  [][\A e \in Emails : status[e] = "sent" => status'[e] \in {"sent", "purged"}]_vars

-----------------------------------------------------------------------------
(* Liveness: the event loop, the timer, the clock and the engine keep going; *)
(* users and crashes owe nothing.                                            *)

JobProgress(e) ==
  \E j \in jobs :
    /\ j.email = e
    /\ \/ JobRead(j) \/ EngineConfirms(j) \/ EngineTakes(j)
       \/ \E kind \in {"hard", "soft"} : EngineFails(j, kind)
       \/ JobSucceeds(j) \/ JobFails(j) \/ JobRefunds(j)

Fairness ==
  /\ \A e \in Emails : /\ WF_vars(ComposeStep(e))
                       /\ WF_vars(JobProgress(e))
                       /\ WF_vars(Ages(e))
                       /\ WF_vars(ScheduleElapses(e))
  /\ WF_vars(\E d \in dispatch : DispatchClaim(d))
  /\ \A p \in Procs : WF_vars(TickStep(p))
  /\ WF_vars(WindowRolls)

FairSpec == Spec /\ Fairness

\* A "Sending..." row resolves "when the mail-engine reports back"
\* (packages/db/src/schema/emails.ts, comment of the status column).
SendingResolves == \A e \in Emails : status[e] = "sending" ~> status[e] # "sending"

\* A row whose attempt failed softly is taken up again by some tick.
SoftFailureRetried ==
  \A e \in Emails :
    status[e] = "rate_limited" /\ backoff[e] # "null" ~> status[e] # "rate_limited"

\* A scheduled send is attempted once its moment has passed.
ScheduledSent ==
  \A e \in Emails :
    status[e] = "idle" /\ ~isDraft[e] /\ schedule[e] # "none" ~> status[e] # "idle"

\* "the dispatcher loop will retry it automatically when the window rolls over"
\* (routes/inbox.ts:495), said of every email the limiter blocked.
RateLimitedRetried ==
  \A e \in Emails : status[e] = "rate_limited" ~> status[e] # "rate_limited"

-----------------------------------------------------------------------------
(* The inductive invariant, for rows no other client reaches early *)

\* Where the compose request of a row stands, and what it knows of the row.
ComposeOwnsRow ==
  \A e \in Emails :
    /\ compose[e].pc \in {"new", "allowed", "blocked"} => status[e] = "none"
    /\ compose[e].pc \in {"scheduling", "claiming", "limiting"} => status[e] = "idle"
    /\ compose[e].pc # "done" => isDraft[e] /\ attempts[e] = 0

\* Nobody else has a hand on the row before that request is done.
OthersWait ==
  /\ \A p \in Procs : \A e \in retryList[p] \cup schedList[p] \cup tickRow[p] : compose[e].pc = "done"
  /\ \A d \in dispatch : compose[d.email].pc = "done"
  /\ \A j \in jobs : compose[j.email].pc = "done"

\* The attempt count a job decides by is the row's.
SeenIsCurrent ==
  \A j \in jobs : Working(j) /\ j.stage # "claimed" => j.seen = attempts[j.email]

\* Where the acceptance of the last copy is remembered.
CopyKnown ==
  /\ \A j \in jobs :
       /\ j.stage \in {"taken", "ok"} => accepted[j.email] = unheard[j.email] + 1
       /\ j.stage \in {"claimed", "calling", "hard", "soft"} => accepted[j.email] = unheard[j.email]
  /\ \A e \in Emails :
       status[e] \in {"none", "idle", "rate_limited", "failed"} => accepted[e] = unheard[e]

\* Together these hold initially and are preserved by every step.
IInv ==
  /\ TypeOK /\ ComposeOwnsRow /\ OthersWait /\ SendLock
  /\ SeenIsCurrent /\ RetryLeft /\ CopyKnown /\ CopiesAccounted

-----------------------------------------------------------------------------
(* The inductive invariant of the slot accounts, for every kind of client *)

\* A claim is answered for by one job, and the row's attempt count remembers it.
UniqueClaims ==
  /\ \A j \in jobs : j.n \in 1..attempts[j.email]
  /\ \A j, k \in jobs : j.email = k.email /\ j.n = k.n => j = k

\* Slots are only ever held by finitely many.
FinitelyHeld ==
  /\ IsFiniteSet(Composing(Procs)) /\ IsFiniteSet(dispatch)
  /\ IsFiniteSet(Ticking(Procs)) /\ IsFiniteSet(jobs)

SlotInv == TypeOK /\ UniqueClaims /\ FinitelyHeld /\ SlotsAccounted

-----------------------------------------------------------------------------
(* The abstract specification this module implements *)

Phase(e) ==
  IF \E j \in jobs : j.email = e /\ j.stage \in {"taken", "ok"} THEN "handed"
  ELSE IF \E j \in jobs : j.email = e /\ Working(j) THEN "trying" ELSE "none"

\* Every row goes through the state machine of Outbox, one sender at a time.
ImplementedOutbox == INSTANCE Outbox WITH
  state <- status, phase <- [e \in Emails |-> Phase(e)],
  copies <- accepted, unheard <- unheard

\* Every step of the pipeline is a step of Outbox or leaves its view unchanged:
\* each row follows the documented state machine with one sender at a time.
ImplementsOutbox == ImplementedOutbox!Spec
=============================================================================
