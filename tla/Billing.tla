------------------------------- MODULE Billing -------------------------------
(***************************************************************************)
(* services/billing.ts and routes/billing.ts for one organisation: its     *)
(* wallet with the ledger, its subscription and its collection attempts.   *)
(* Workers are requests in progress: /subscribe, the provider's webhook,   *)
(* /internal/tick and /wallet.  Each await ends an action; a transaction   *)
(* reads the wallet in one step and commits in another.  No code sets      *)
(* wallets.frozen or the status cancelled, so neither appears.             *)
(***************************************************************************)
EXTENDS Integers, Sequences, FiniteSets

CONSTANTS
  Workers,        \* requests that can be in progress at once
  Topups,         \* collection attempts
  NoTopup,        \* marks a request or a ledger row without one
  Amount,         \* amountCents of each attempt
  Price,          \* seats * perSeatCents
  Trial,          \* plans.trialDays, in units of the model's clock
  Period,         \* the 30 days of a renewal
  Grace,          \* plans.gracePeriodDays
  MaxTime,        \* bound: the clock
  MaxDeliveries,  \* bound: webhook calls
  MaxAborts       \* bound: requests cut off by a crash or a failing statement

ASSUME BillingAssumption ==
  /\ NoTopup \notin Topups
  /\ Amount \in [Topups -> Nat \ {0}]
  /\ Price \in Nat \ {0}
  /\ Trial \in Nat \ {0}
  /\ Period \in Nat \ {0}
  /\ Grace \in Nat \ {0}
  /\ MaxTime \in Nat
  /\ MaxDeliveries \in Nat
  /\ MaxAborts \in Nat

VARIABLES
  wallet,      \* the organisation has a wallets row
  balance,     \* wallets.balanceCents, 0 without a row
  ledger,      \* wallet_transactions in the order they were committed
  sub,         \* the subscriptions row
  attempt,     \* collection_attempts.status
  named,       \* attempts whose collection_attempts.providerCollectionId is set
  provider,    \* what the payment provider knows of each attempt
  pc,          \* where each worker is
  req,         \* what each worker has read
  now,         \* the clock
  overlapped,  \* two requests have been in progress at the same time
  deliveries, aborts,
  cut          \* top-ups with a delivery that ended in an exception between
               \* writing the status and committing the credit

vars == <<wallet, balance, ledger, sub, attempt, named, provider, pc, req, now, overlapped, deliveries, aborts, cut>>

Refs == Topups \cup {NoTopup}
\* A top-up goes by two names: the provider's transaction id and the key it was sent with.
Names == {"id", "key"}
RefNames == Names \cup {"none"}
Rows == [amount : Int, after : Nat, topup : Refs, name : RefNames]
Subscription == [status : {"none", "trial", "active", "grace", "suspended"},
                 trialEnd : Nat, end : Nat, grace : Nat]
AttemptStatuses == {"none", "pending", "succeeded", "failed"}
Events == {"completed", "failed", "other"}
Requests == [topup : Refs, name : RefNames, event : Events, seen : AttemptStatuses,
             at : Nat, due : Nat, end : Nat, wallet : Nat, creates : BOOLEAN]
Pcs == {"idle", "insert", "trialWallet", "trialNew", "trialRow", "showNew", "affordNew", "mark",
        "dup", "creditRead", "creditCommit", "current", "charge", "afford", "debitRead",
        "debitCommit", "extend", "toGrace", "suspend"}

NoRequest == [topup |-> NoTopup, name |-> "none", event |-> "other", seen |-> "none",
              at |-> 0, due |-> 0, end |-> 0, wallet |-> 0, creates |-> FALSE]

Init ==
  /\ wallet = FALSE
  /\ balance = 0
  /\ ledger = <<>>
  /\ sub = [status |-> "none", trialEnd |-> 0, end |-> 0, grace |-> 0]
  /\ attempt = [t \in Topups |-> "none"]
  /\ named = {}
  /\ provider = [t \in Topups |-> "none"]
  /\ pc = [w \in Workers |-> "idle"]
  /\ req = [w \in Workers |-> NoRequest]
  /\ now = 0
  /\ overlapped = FALSE
  /\ deliveries = 0
  /\ aborts = 0
  /\ cut = {}

-----------------------------------------------------------------------------
(* Requests *)

\* A request starts; the single-writer assumption of applyLedgerEntry is that
\* nobody else works on the organisation at the same time.
Begin(w, label, r) ==
  /\ pc[w] = "idle"
  /\ pc' = [pc EXCEPT ![w] = label]
  /\ req' = [req EXCEPT ![w] = r]
  /\ overlapped' = (overlapped \/ \E v \in Workers : pc[v] # "idle")

Goto(w, label) ==
  /\ pc' = [pc EXCEPT ![w] = label]
  /\ UNCHANGED <<overlapped, deliveries, aborts, cut>>

\* A request answers, or refuses before it has written anything of a credit.
Return(w) ==
  /\ Goto(w, "idle")
  /\ req' = [req EXCEPT ![w] = NoRequest]

\* A delivery has written the status of t and not yet committed its credit.
Crediting(w, t) == req[w].topup = t /\ pc[w] \in {"dup", "creditRead", "creditCommit"}

\* A request ends where it is; an open transaction rolls back.
EndsHere(w) ==
  /\ pc' = [pc EXCEPT ![w] = "idle"]
  /\ req' = [req EXCEPT ![w] = NoRequest]
  /\ cut' = cut \cup {t \in Topups : Crediting(w, t)}

\* The code itself throws, and nobody catches it.
Throw(w) == EndsHere(w) /\ UNCHANGED <<overlapped, deliveries, aborts>>

\* A crash or a failing statement cuts a request off.
Abort(w) ==
  /\ pc[w] # "idle"
  /\ aborts < MaxAborts
  /\ aborts' = aborts + 1
  /\ EndsHere(w)
  /\ UNCHANGED <<wallet, balance, ledger, sub, attempt, named, provider, now, overlapped, deliveries>>

-----------------------------------------------------------------------------
(* getOrCreateWallet, where no row was found *)

\* The INSERT runs into the unique index of the organisation if another request was
\* faster; otherwise its caller goes on with the row.
NewWallet(w, from, to) ==
  /\ pc[w] = from
  /\ \/ /\ ~wallet
        /\ wallet' = TRUE
        /\ Goto(w, to)
        /\ req' = [req EXCEPT ![w] = IF to = "idle" THEN NoRequest ELSE @]
     \/ wallet /\ Throw(w) /\ UNCHANGED wallet
  /\ UNCHANGED <<balance, ledger, sub, attempt, named, provider, now>>

\* GET /wallet of an organisation without one.
ShowWallet(w) ==
  /\ ~wallet
  /\ Begin(w, "showNew", NoRequest)
  /\ UNCHANGED <<wallet, balance, ledger, sub, attempt, named, provider, now, deliveries, aborts, cut>>

-----------------------------------------------------------------------------
(* applyLedgerEntry *)

Credited(t) == \E i \in 1..Len(ledger) : ledger[i].topup = t
CreditedAs(t, name) == \E i \in 1..Len(ledger) : ledger[i].topup = t /\ ledger[i].name = name

\* Mutant of Covered: allowNegative.
AllowNegative(amount) == amount < 0 \/ balance + amount >= 0

\* The wallet is read; a debit it does not cover throws ConflictError.
Covered(amount) == balance + amount >= 0

\* A transaction that finds no row inserts one of its own.
ReadWallet(w, from, amount, to) ==
  /\ pc[w] = from
  /\ \/ /\ Covered(amount)
        /\ req' = [req EXCEPT ![w].wallet = balance, ![w].creates = ~wallet]
        /\ Goto(w, to)
     \/ /\ ~Covered(amount)
        /\ Return(w)
  /\ UNCHANGED <<wallet, balance, ledger, sub, attempt, named, provider, now>>

\* Mutant of Refused: no unique index on (provider, providerRef).
NeverRefused(t, name) == FALSE

\* The unique index on (provider, providerRef) lets only one row of a reference commit.
Refused(t, name) == t # NoTopup /\ CreditedAs(t, name)

\* The wallet the transaction inserts has been inserted by another one.
WalletTaken(w) == req[w].creates /\ wallet

\* The row and the balance computed from the balance read before commit together.
CommitEntry(w, from, amount, t, name, to) ==
  /\ pc[w] = from
  /\ \/ /\ ~Refused(t, name) /\ ~WalletTaken(w)
        /\ ledger' = Append(ledger, [amount |-> amount, after |-> req[w].wallet + amount,
                                     topup |-> t, name |-> name])
        /\ balance' = req[w].wallet + amount
        /\ wallet' = TRUE
        /\ Goto(w, to)
        /\ UNCHANGED req
     \/ /\ Refused(t, name) \/ WalletTaken(w)
        /\ Throw(w)
        /\ UNCHANGED <<ledger, balance, wallet>>
  /\ UNCHANGED <<sub, attempt, named, provider, now>>

-----------------------------------------------------------------------------
(* startTrial *)

Subscribe(w) ==
  /\ sub.status = "none"
  /\ Begin(w, "insert", [NoRequest EXCEPT !.at = now])
  /\ UNCHANGED <<wallet, balance, ledger, sub, attempt, named, provider, now, deliveries, aborts, cut>>

\* The partial unique index lets one row of the organisation in.
InsertTrial(w) ==
  /\ pc[w] = "insert"
  /\ \/ /\ sub.status = "none"
        /\ sub' = [status |-> "trial", trialEnd |-> req[w].at + Trial,
                   end |-> req[w].at + Trial, grace |-> 0]
        /\ Goto(w, "trialWallet")
        /\ UNCHANGED req
     \/ /\ sub.status # "none"
        /\ Return(w)
        /\ UNCHANGED sub
  /\ UNCHANGED <<wallet, balance, ledger, attempt, named, provider, now>>

TrialWallet(w) ==
  /\ pc[w] = "trialWallet"
  /\ \/ wallet /\ req' = [req EXCEPT ![w].wallet = balance] /\ Goto(w, "trialRow")
     \/ ~wallet /\ UNCHANGED req /\ Goto(w, "trialNew")
  /\ UNCHANGED <<wallet, balance, ledger, sub, attempt, named, provider, now>>

\* Mutant of TrialRow: the audit row says zero instead of the balance.
TrialRowOfZero(w) ==
  /\ pc[w] = "trialRow"
  /\ ledger' = Append(ledger, [amount |-> 0, after |-> 0, topup |-> NoTopup, name |-> "none"])
  /\ Return(w)
  /\ UNCHANGED <<wallet, balance, sub, attempt, named, provider, now>>

\* The audit row is inserted outside any transaction.
TrialRow(w) ==
  /\ pc[w] = "trialRow"
  /\ ledger' = Append(ledger, [amount |-> 0, after |-> req[w].wallet,
                               topup |-> NoTopup, name |-> "none"])
  /\ Return(w)
  /\ UNCHANGED <<wallet, balance, sub, attempt, named, provider, now>>

-----------------------------------------------------------------------------
(* Top-ups and the webhook *)

\* POST /topup inserts the attempt ...
Topup(t) ==
  /\ attempt[t] = "none"
  /\ attempt' = [attempt EXCEPT ![t] = "pending"]
  /\ UNCHANGED <<wallet, balance, ledger, sub, named, provider, pc, req, now, overlapped, deliveries, aborts, cut>>

\* ... and asks the provider, whose customer pays or does not.
ProviderAccepts(t) ==
  /\ attempt[t] # "none"
  /\ provider[t] = "none"
  /\ provider' = [provider EXCEPT ![t] = "asked"]
  /\ UNCHANGED <<wallet, balance, ledger, sub, attempt, named, pc, req, now, overlapped, deliveries, aborts, cut>>

ProviderSettles(t) ==
  /\ provider[t] = "asked"
  /\ \E outcome \in {"paid", "declined"} : provider' = [provider EXCEPT ![t] = outcome]
  /\ UNCHANGED <<wallet, balance, ledger, sub, attempt, named, pc, req, now, overlapped, deliveries, aborts, cut>>

\* POST /topup stores the transaction id of the answer, if it gets one.
SetProviderId(t) ==
  /\ provider[t] # "none"
  /\ named' = named \cup {t}
  /\ UNCHANGED <<wallet, balance, ledger, sub, attempt, provider, pc, req, now, overlapped,
                 deliveries, aborts, cut>>

\* What the provider can report of t, as often as it likes and in any order.
Reportable(t) ==
  (IF provider[t] = "none" THEN {} ELSE {"other"})
    \cup (IF provider[t] = "paid" THEN {"completed"} ELSE {})
    \cup (IF provider[t] = "declined" THEN {"failed"} ELSE {})

\* findCollectionAttempt, by the names the payload happens to give ...
Found(t, names) == ("id" \in names /\ t \in named) \/ "key" \in names

\* ... and transactionId ?? attempt.idempotencyKey, the reference of the credit.
RefName(names) == IF "id" \in names THEN "id" ELSE "key"

Webhook(w, t) ==
  /\ deliveries < MaxDeliveries
  /\ deliveries' = deliveries + 1
  /\ \E event \in Reportable(t), names \in SUBSET Names :
       /\ Found(t, names)
       /\ Begin(w, "mark", [NoRequest EXCEPT !.topup = t, !.name = RefName(names),
                                              !.event = event, !.seen = attempt[t]])
  /\ UNCHANGED <<wallet, balance, ledger, sub, attempt, named, provider, now, aborts, cut>>

\* An attempt that is not found is answered 200 and forgotten.
UnknownAttempt(t) ==
  /\ deliveries < MaxDeliveries
  /\ deliveries' = deliveries + 1
  /\ Reportable(t) # {} /\ \E names \in SUBSET Names : ~Found(t, names)
  /\ UNCHANGED <<wallet, balance, ledger, sub, attempt, named, provider, pc, req, now, overlapped,
                 aborts, cut>>

\* What markCollectionTerminal writes: an unknown event writes the status as read.
Marked(w) ==
  CASE req[w].event = "completed" -> "succeeded"
    [] req[w].event = "failed"    -> "failed"
    [] OTHER                      -> req[w].seen

Mark(w) ==
  /\ pc[w] = "mark"
  /\ req[w].topup \in Topups
  /\ attempt' = [attempt EXCEPT ![req[w].topup] = Marked(w)]
  /\ named' = IF req[w].name = "id" /\ req[w].event # "other"
                THEN named \cup {req[w].topup} ELSE named
  /\ \/ req[w].event = "completed" /\ Goto(w, "dup") /\ UNCHANGED req
     \/ req[w].event # "completed" /\ Return(w)
  /\ UNCHANGED <<wallet, balance, ledger, sub, provider, now>>

\* Mutant of IsDuplicate: the reference is not compared.
IsDuplicateOfAny(w) == \E t \in Topups : Credited(t)

IsDuplicate(w) == CreditedAs(req[w].topup, req[w].name)

\* The idempotency check before the transaction.
FindDuplicate(w) ==
  /\ pc[w] = "dup"
  /\ Goto(w, IF IsDuplicate(w) THEN "current" ELSE "creditRead")
  /\ UNCHANGED <<wallet, balance, ledger, sub, attempt, named, provider, now, req>>

CreditAmount(w) == Amount[req[w].topup]

CreditRead(w)   == req[w].topup \in Topups /\ ReadWallet(w, "creditRead", CreditAmount(w), "creditCommit")
CreditCommit(w) ==
  /\ req[w].topup \in Topups
  /\ CommitEntry(w, "creditCommit", CreditAmount(w), req[w].topup, req[w].name, "current")

\* Mutant of Revivable: every top-up charges a renewal.
RevivableAlways == sub.status # "none"

Revivable == sub.status = "suspended"

\* After a credit only a suspended subscription is charged.
Current(w) ==
  /\ pc[w] = "current"
  /\ \/ Revivable /\ Goto(w, "charge") /\ UNCHANGED req
     \/ ~Revivable /\ Return(w)
  /\ UNCHANGED <<wallet, balance, ledger, sub, attempt, named, provider, now>>

-----------------------------------------------------------------------------
(* chargeRenewal, called by the tick or by the webhook *)

\* The webhook calls it with the present time, the tick with its own.
Charge(w) ==
  /\ pc[w] = "charge"
  /\ req' = [req EXCEPT ![w].end = sub.end,
                        ![w].at = IF req[w].topup = NoTopup THEN req[w].at ELSE now]
  /\ Goto(w, "afford")
  /\ UNCHANGED <<wallet, balance, ledger, sub, attempt, named, provider, now>>

\* Without funds the tick goes on to grace and the webhook gives up.
Afford(w) ==
  /\ pc[w] = "afford"
  /\ \/ ~wallet /\ Goto(w, "affordNew") /\ UNCHANGED req
     \/ wallet /\ balance >= Price /\ Goto(w, "debitRead") /\ UNCHANGED req
     \/ wallet /\ balance < Price /\ req[w].topup = NoTopup /\ Goto(w, "toGrace") /\ UNCHANGED req
     \/ wallet /\ balance < Price /\ req[w].topup # NoTopup /\ Return(w)
  /\ UNCHANGED <<wallet, balance, ledger, sub, attempt, named, provider, now>>

DebitRead(w)   == ReadWallet(w, "debitRead", -Price, "debitCommit")
DebitCommit(w) == CommitEntry(w, "debitCommit", -Price, NoTopup, "none", "extend")

\* Mutant of Anchor: the new period starts when the tick runs.
AnchorNow(w) == req[w].at

\* start = prevEnd > now ? now : prevEnd, which is prevEnd for every renewal that
\* is due, the late first charge of a trial included.
Anchor(w) == IF req[w].end > req[w].at THEN req[w].at ELSE req[w].end

\* The UPDATE after the debit, outside its transaction.
Extend(w) ==
  /\ pc[w] = "extend"
  /\ sub' = [sub EXCEPT !.status = "active", !.end = Anchor(w) + Period, !.grace = 0]
  /\ Return(w)
  /\ UNCHANGED <<wallet, balance, ledger, attempt, named, provider, now>>

-----------------------------------------------------------------------------
(* tickRenewals *)

\* Mutants of PeriodOver: a day early; trials are forgotten.
PeriodAlmostOver == sub.status \in {"trial", "active"} /\ sub.end <= now + 1
ActivePeriodOver == sub.status = "active" /\ sub.end <= now

PeriodOver == \/ sub.status = "trial" /\ sub.trialEnd <= now
              \/ sub.status = "active" /\ sub.end <= now
GraceOver  == sub.status = "grace" /\ sub.grace <= now

\* The SELECT of the tick; it acts on what it has read here.
Tick(w) ==
  /\ \E label \in {"charge", "suspend"} :
       /\ (label = "charge" /\ PeriodOver) \/ (label = "suspend" /\ GraceOver)
       /\ Begin(w, label, [NoRequest EXCEPT !.at = now, !.due = sub.end])
  /\ UNCHANGED <<wallet, balance, ledger, sub, attempt, named, provider, now, deliveries, aborts, cut>>

\* transitionToGrace looks neither at the status nor at the period it ends.
ToGrace(w) ==
  /\ pc[w] = "toGrace"
  /\ sub' = [sub EXCEPT !.status = "grace", !.grace = req[w].due + Grace]
  /\ Return(w)
  /\ UNCHANGED <<wallet, balance, ledger, attempt, named, provider, now>>

Suspend(w) ==
  /\ pc[w] = "suspend"
  /\ sub' = [sub EXCEPT !.status = "suspended"]
  /\ Return(w)
  /\ UNCHANGED <<wallet, balance, ledger, attempt, named, provider, now>>

-----------------------------------------------------------------------------
(* The specification *)

Clock ==
  /\ now < MaxTime
  /\ now' = now + 1
  /\ UNCHANGED <<wallet, balance, ledger, sub, attempt, named, provider, pc, req, overlapped, deliveries, aborts, cut>>

Step(w) ==
  \/ InsertTrial(w) \/ TrialWallet(w) \/ TrialRow(w)
  \/ NewWallet(w, "trialNew", "trialWallet") \/ NewWallet(w, "affordNew", "afford")
  \/ NewWallet(w, "showNew", "idle")
  \/ Mark(w) \/ FindDuplicate(w) \/ CreditRead(w) \/ CreditCommit(w) \/ Current(w)
  \/ Charge(w) \/ Afford(w) \/ DebitRead(w) \/ DebitCommit(w) \/ Extend(w)
  \/ ToGrace(w) \/ Suspend(w)

Next ==
  \/ \E w \in Workers : Subscribe(w) \/ ShowWallet(w) \/ Tick(w) \/ Step(w) \/ Abort(w)
  \/ \E w \in Workers, t \in Topups : Webhook(w, t)
  \/ \E t \in Topups : Topup(t) \/ ProviderAccepts(t) \/ SetProviderId(t) \/ ProviderSettles(t)
  \/ \E t \in Topups : UnknownAttempt(t)
  \/ Clock

Spec == Init /\ [][Next]_vars

\* Requests in progress go on, the cron keeps ticking and time passes; users and
\* the provider owe nothing.
FairSpec ==
  /\ Spec
  /\ \A w \in Workers : WF_vars(Step(w))
  /\ WF_vars(\E w \in Workers : Tick(w))
  /\ WF_vars(Clock)

-----------------------------------------------------------------------------
(* Properties *)

\* Every value is of its kind.
TypeOK ==
  /\ wallet \in BOOLEAN
  /\ balance \in Nat
  /\ ledger \in Seq(Rows)
  /\ sub \in Subscription
  /\ attempt \in [Topups -> AttemptStatuses]
  /\ named \subseteq Topups
  /\ provider \in [Topups -> {"none", "asked", "paid", "declined"}]
  /\ pc \in [Workers -> Pcs]
  /\ req \in [Workers -> Requests]
  /\ now \in 0..MaxTime
  /\ overlapped \in BOOLEAN
  /\ deliveries \in 0..MaxDeliveries
  /\ aborts \in 0..MaxAborts
  /\ cut \subseteq Topups

\* "balanceCents is never allowed below zero unless the caller explicitly sets
\* allowNegative" (billing.ts:13), which no caller does: no overlap of debits overdraws
\* the wallet, for each checks the balance once more in its own transaction.  (The
\* schema says otherwise, "May be briefly negative during grace", wallets.ts:29.)
NeverOverdrawn == balance >= 0

\* "balanceAfterCents on each tx row equals the wallet's balance after the row was
\* applied (monotonic, derivable from the ledger alone)" (billing.ts:8): as long as
\* requests do not overlap, each row continues the one before it and the balance is
\* what the last one says, wherever a request is cut off.
Before(i) == IF i = 1 THEN 0 ELSE ledger[i - 1].after
LedgerExplainsBalance ==
  ~overlapped =>
    /\ \A i \in 1..Len(ledger) : ledger[i].after = Before(i) + ledger[i].amount
    /\ balance = Before(Len(ledger) + 1)

\* "a duplicate webhook delivery cannot double-credit" (wallet-transactions.ts:17),
\* even when deliveries overlap, come after a failed one or revive the subscription:
\* there is one credit per name of a payment, so one as long as the provider keeps to
\* one name, and two at most; and what was credited had been paid.
CreditedOnce ==
  /\ \A i, j \in 1..Len(ledger) :
       /\ ledger[i].topup # NoTopup
       /\ ledger[i].topup = ledger[j].topup /\ ledger[i].name = ledger[j].name
       => i = j
  /\ \A i \in 1..Len(ledger) : ledger[i].topup # NoTopup => provider[ledger[i].topup] = "paid"

\* "succeeded: funds collected, wallet credited" (collection-attempts.ts:10): a
\* succeeded attempt has its credit or a delivery that is about to make it, in every
\* order and overlap of deliveries, unless a delivery of it was cut off in between or
\* lost the race for the organisation's first wallet row.
SucceededIsCredited ==
  \A t \in Topups :
    attempt[t] = "succeeded" => Credited(t) \/ t \in cut \/ \E w \in Workers : Crediting(w, t)

\* "This avoids period drift if a tick runs late" (billing.ts:335): as long as requests
\* do not overlap, every charge has bought one whole period that follows the one
\* before, the first one the trial, and no period was free, however late ticks and
\* top-ups come; each request that was cut off can have cost one period.
Charges == {i \in 1..Len(ledger) : ledger[i].amount < 0}
PaidTime ==
  ~overlapped /\ sub.status # "none" /\ (\A w \in Workers : pc[w] # "extend") =>
    \E missed \in 0..aborts :
      sub.end + Period * missed = sub.trialEnd + Period * Cardinality(Charges)

\* "grace: current_period_end passed" (subscriptions.ts:9): as long as requests do not
\* overlap, nobody whose time is paid for is in grace or suspended.
PaidIsServed ==
  ~overlapped /\ sub.status \in {"grace", "suspended"} => sub.end <= now

-----------------------------------------------------------------------------
(* The inductive invariant *)

\* Without overlap at most one request is in progress.
Alone == ~overlapped => \A v, w \in Workers : pc[v] # "idle" /\ pc[w] # "idle" => v = w

\* A completed delivery speaks of a paid top-up, and only such deliveries credit.
DeliveriesPaid ==
  \A w \in Workers :
    /\ pc[w] \in {"dup", "creditRead", "creditCommit", "current"} => req[w].event = "completed"
    /\ req[w].event = "completed" => req[w].topup \in Topups /\ provider[req[w].topup] = "paid"

\* What a transaction has read covers its debit, and is the balance if it is alone.
WalletRead ==
  /\ \A w \in Workers : pc[w] = "debitCommit" => req[w].wallet >= Price
  /\ ~overlapped =>
       \A w \in Workers :
         pc[w] \in {"trialRow", "creditCommit", "debitCommit"} => req[w].wallet = balance

Renewing == {"charge", "afford", "affordNew", "debitRead", "debitCommit", "extend", "toGrace", "suspend"}

\* Nothing is charged before the trial has started.
NoChargeYet ==
  sub.status = "none" => Charges = {} /\ \A w \in Workers : pc[w] \notin Renewing

\* A renewal that is alone works on a period that is over, and knows its end.
OnlyDueIsRenewed ==
  /\ sub.status = "trial" => sub.end = sub.trialEnd
  /\ ~overlapped =>
       \A w \in Workers :
         /\ pc[w] \in Renewing => sub.end <= now
         /\ pc[w] = "charge" /\ req[w].topup = NoTopup => sub.end <= req[w].at
         /\ pc[w] \in {"afford", "affordNew", "debitRead", "debitCommit", "extend"} =>
              req[w].end = sub.end /\ req[w].end <= req[w].at

\* PaidTime, with the charge whose period is still to be written.
PaidSoFar ==
  ~overlapped /\ sub.status # "none" =>
    \E missed \in 0..aborts :
      sub.end + Period * missed + (IF \E w \in Workers : pc[w] = "extend" THEN Period ELSE 0)
        = sub.trialEnd + Period * Cardinality(Charges)

\* Together these hold initially and are preserved by every step.
BillingInv ==
  /\ TypeOK /\ Alone /\ DeliveriesPaid /\ WalletRead /\ NoChargeYet /\ OnlyDueIsRenewed
  /\ CreditedOnce /\ LedgerExplainsBalance /\ PaidSoFar /\ PaidIsServed

-----------------------------------------------------------------------------
(* Liveness *)

\* "keeps advancing without anyone poking the admin UI" (billing-tick-cron.ts:6): time
\* that is over is renewed or ends in grace, and grace ends.
Overdue == \/ sub.status \in {"trial", "active"} /\ sub.end <= now
           \/ sub.status = "grace" /\ sub.grace <= now
NothingOverdue == Overdue ~> ~Overdue

\* "outbound is suspended until the wallet is topped up" (expiry-reminder.ts:142): a
\* suspended organisation whose wallet covers a renewal gets its service back.
FundedIsRevived == (sub.status = "suspended" /\ balance >= Price) ~> sub.status = "active"
=============================================================================
