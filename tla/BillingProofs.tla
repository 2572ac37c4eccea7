---------------------------- MODULE BillingProofs ----------------------------
(***************************************************************************)
(* Billing for every number of requests and top-ups, every price, and any  *)
(* interleaving, duplication and cut: the wallet is never overdrawn and a  *)
(* payment is credited once; and while requests do not overlap, the ledger *)
(* explains the balance and the time paid for is the time served.          *)
(***************************************************************************)
EXTENDS Billing, FiniteSetTheorems, TLAPS

-----------------------------------------------------------------------------
(* Types of what requests keep *)

\* TypeOK in two halves: what requests keep, and what they work on.
RequestsOK ==
  /\ pc \in [Workers -> Pcs]
  /\ req \in [Workers -> Requests]
  /\ overlapped \in BOOLEAN
  /\ deliveries \in 0..MaxDeliveries
  /\ aborts \in 0..MaxAborts
  /\ cut \subseteq Topups

RowsOK ==
  /\ wallet \in BOOLEAN
  /\ named \subseteq Topups
  /\ balance \in Nat
  /\ ledger \in Seq(Rows)
  /\ sub \in Subscription
  /\ attempt \in [Topups -> AttemptStatuses]
  /\ provider \in [Topups -> {"none", "asked", "paid", "declined"}]
  /\ now \in 0..MaxTime

LEMMA TypeHalves == TypeOK <=> RequestsOK /\ RowsOK
  BY DEF TypeOK, RequestsOK, RowsOK

LEMMA NoRequestType == NoRequest \in Requests
  BY DEF NoRequest, Requests, Refs, RefNames, Events, AttemptStatuses

\* What a request has read is typed.
LEMMA RequestFields ==
  ASSUME RequestsOK, NEW w \in Workers
  PROVE  /\ pc[w] \in Pcs /\ req[w] \in Requests
         /\ req[w].topup \in Refs /\ req[w].event \in Events /\ req[w].seen \in AttemptStatuses
         /\ req[w].at \in Nat /\ req[w].due \in Nat /\ req[w].end \in Nat /\ req[w].wallet \in Nat
         /\ req[w].name \in RefNames /\ req[w].creates \in BOOLEAN
<1>1. req[w] \in Requests /\ pc[w] \in Pcs
  BY DEF RequestsOK
<1> QED
  BY <1>1 DEF Requests

\* The columns of the subscription are typed.
LEMMA SubscriptionFields ==
  ASSUME RowsOK
  PROVE  /\ sub.status \in {"none", "trial", "active", "grace", "suspended"}
         /\ sub.trialEnd \in Nat /\ sub.end \in Nat /\ sub.grace \in Nat
         /\ now \in Nat /\ balance \in Nat /\ balance \in Int
  BY BillingAssumption DEF RowsOK, Subscription

LEMMA BeginTypes ==
  ASSUME RequestsOK, NEW w \in Workers, NEW label \in Pcs, NEW r \in Requests, Begin(w, label, r)
  PROVE  pc' \in [Workers -> Pcs] /\ req' \in [Workers -> Requests] /\ overlapped' \in BOOLEAN
<1>1. pc' \in [Workers -> Pcs]
  BY DEF Begin, RequestsOK
<1>2. req' \in [Workers -> Requests]
  BY DEF Begin, RequestsOK
<1>3. overlapped' \in BOOLEAN
  BY DEF Begin, RequestsOK
<1> QED
  BY <1>1, <1>2, <1>3

LEMMA GotoTypes ==
  ASSUME RequestsOK, NEW w \in Workers, NEW label \in Pcs, Goto(w, label),
         req' \in [Workers -> Requests]
  PROVE  RequestsOK'
<1>1. pc' \in [Workers -> Pcs]
  BY DEF Goto, RequestsOK
<1> QED
  BY <1>1 DEF Goto, RequestsOK

LEMMA EndsHereTypes ==
  ASSUME RequestsOK, NEW w \in Workers, EndsHere(w), overlapped' = overlapped,
         deliveries' = deliveries, aborts' \in 0..MaxAborts
  PROVE  RequestsOK'
<1>1. req' \in [Workers -> Requests]
  BY NoRequestType DEF EndsHere, RequestsOK
<1>2. pc' \in [Workers -> Pcs]
  BY DEF EndsHere, RequestsOK, Pcs
<1>3. cut' \subseteq Topups
  BY DEF EndsHere, RequestsOK
<1> QED
  BY <1>1, <1>2, <1>3 DEF RequestsOK

LEMMA ThrowTypes ==
  ASSUME RequestsOK, NEW w \in Workers, Throw(w)
  PROVE  RequestsOK'
  BY EndsHereTypes DEF Throw, RequestsOK

LEMMA ReturnTypes ==
  ASSUME RequestsOK, NEW w \in Workers, Return(w)
  PROVE  RequestsOK'
<1>1. req' \in [Workers -> Requests]
  BY NoRequestType DEF Return, RequestsOK
<1>2. "idle" \in Pcs /\ Goto(w, "idle")
  BY DEF Pcs, Return
<1> QED
  BY <1>1, <1>2, GotoTypes

\* Writing one field of a request.
LEMMA WalletWritten ==
  ASSUME RequestsOK, NEW w \in Workers, NEW n \in Nat
  PROVE  [req EXCEPT ![w].wallet = n] \in [Workers -> Requests]
<1>1. [req[w] EXCEPT !.wallet = n] \in Requests
  BY RequestFields DEF Requests
<1> QED
  BY <1>1 DEF RequestsOK

LEMMA ReadWritten ==
  ASSUME RequestsOK, NEW w \in Workers, NEW n \in Nat, NEW b \in BOOLEAN
  PROVE  [req EXCEPT ![w].wallet = n, ![w].creates = b] \in [Workers -> Requests]
<1>1. [req[w] EXCEPT !.wallet = n, !.creates = b] \in Requests
  BY RequestFields DEF Requests
<1> QED
  BY <1>1 DEF RequestsOK

LEMMA EndWritten ==
  ASSUME RequestsOK, NEW w \in Workers, NEW m \in Nat, NEW n \in Nat
  PROVE  [req EXCEPT ![w].end = m, ![w].at = n] \in [Workers -> Requests]
<1>1. [req[w] EXCEPT !.end = m, !.at = n] \in Requests
  BY RequestFields DEF Requests
<1> QED
  BY <1>1 DEF RequestsOK

\* A row of the ledger.
LEMMA RowAppended ==
  ASSUME ledger \in Seq(Rows), NEW amount \in Int, NEW after \in Nat,
         NEW topup \in Refs, NEW name \in RefNames
  PROVE  Append(ledger, [amount |-> amount, after |-> after, topup |-> topup, name |-> name]) \in Seq(Rows)
<1>1. [amount |-> amount, after |-> after, topup |-> topup, name |-> name] \in Rows
  BY DEF Rows
<1> QED
  BY <1>1

-----------------------------------------------------------------------------
(* Type correctness *)

LEMMA TypeInit == Init => TypeOK
<1> SUFFICES ASSUME Init PROVE TypeOK
  OBVIOUS
<1>1. req \in [Workers -> Requests]
  BY NoRequestType DEF Init
<1>2. sub \in Subscription
  BY DEF Init, Subscription
<1>3. ledger \in Seq(Rows) /\ balance \in Nat
  BY DEF Init
<1>4. /\ attempt \in [Topups -> AttemptStatuses] /\ pc \in [Workers -> Pcs]
      /\ wallet \in BOOLEAN /\ named \subseteq Topups /\ cut \subseteq Topups
      /\ provider \in [Topups -> {"none", "asked", "paid", "declined"}]
  BY DEF Init, AttemptStatuses, Pcs
<1>5. now \in 0..MaxTime /\ overlapped \in BOOLEAN /\ deliveries \in 0..MaxDeliveries /\ aborts \in 0..MaxAborts
  <2>1. now = 0 /\ deliveries = 0 /\ aborts = 0
    BY DEF Init
  <2>2. overlapped \in BOOLEAN
    BY DEF Init
  <2>3. now \in 0..MaxTime /\ deliveries \in 0..MaxDeliveries /\ aborts \in 0..MaxAborts
    BY <2>1, BillingAssumption
  <2> QED
    BY <2>2, <2>3
<1> QED
  BY <1>1, <1>2, <1>3, <1>4, <1>5 DEF TypeOK

\* What a delivery begins with.
LEMMA Deliveries ==
  ASSUME NEW w \in Workers, NEW t \in Topups, Webhook(w, t)
  PROVE  \E event \in Events, name \in RefNames :
           /\ event \in Reportable(t)
           /\ Begin(w, "mark", [NoRequest EXCEPT !.topup = t, !.name = name, !.event = event, !.seen = attempt[t]])
<1>1. PICK event \in Reportable(t), names \in SUBSET Names :
        Begin(w, "mark", [NoRequest EXCEPT !.topup = t, !.name = RefName(names), !.event = event,
                                            !.seen = attempt[t]])
  BY DEF Webhook
<1>2. event \in Events /\ RefName(names) \in RefNames
  BY DEF Reportable, Events, RefName, RefNames, Names
<1> QED
  BY <1>1, <1>2

\* The steps of getOrCreateWallet.
NewWallets(w) ==
  \/ NewWallet(w, "trialNew", "trialWallet")
  \/ NewWallet(w, "affordNew", "afford")
  \/ NewWallet(w, "showNew", "idle")

LEMMA TypeStep == TypeOK /\ WalletRead /\ [Next]_vars => TypeOK'
<1> SUFFICES ASSUME TypeOK, WalletRead, [Next]_vars PROVE RequestsOK' /\ RowsOK'
  BY TypeHalves DEF TypeOK, RequestsOK, RowsOK
<1> USE BillingAssumption
<1>0. RequestsOK /\ RowsOK
  BY TypeHalves

<1>1. ASSUME NEW w \in Workers, Subscribe(w) PROVE RequestsOK' /\ RowsOK'
<2>1. [NoRequest EXCEPT !.at = now] \in Requests
  BY <1>0, SubscriptionFields, NoRequestType DEF Requests, NoRequest
<2>2. Begin(w, "insert", [NoRequest EXCEPT !.at = now]) /\ "insert" \in Pcs
  BY <1>1 DEF Subscribe, Pcs
<2>3. RequestsOK'
  BY <1>0, <2>1, <2>2, BeginTypes, <1>1 DEF Subscribe, RequestsOK, Pcs
<2>4. RowsOK'
  BY <1>0, <1>1 DEF Subscribe, RowsOK
<2> QED
  BY <2>3, <2>4
<1>2. ASSUME NEW w \in Workers, Tick(w) PROVE RequestsOK' /\ RowsOK'
<2>1. [NoRequest EXCEPT !.at = now, !.due = sub.end] \in Requests
  BY <1>0, SubscriptionFields, NoRequestType DEF Requests, NoRequest
<2>2. \E label \in Pcs : Begin(w, label, [NoRequest EXCEPT !.at = now, !.due = sub.end])
  BY <1>2 DEF Tick, Pcs
<2>3. RequestsOK'
  BY <1>0, <2>1, <2>2, BeginTypes, <1>2 DEF Tick, RequestsOK, Pcs
<2>4. RowsOK'
  BY <1>0, <1>2 DEF Tick, RowsOK
<2> QED
  BY <2>3, <2>4
<1>3. ASSUME NEW w \in Workers, Abort(w) PROVE RequestsOK' /\ RowsOK'
<2>1. RequestsOK'
  BY <1>0, EndsHereTypes, <1>3 DEF Abort, RequestsOK
<2>2. RowsOK'
  BY <1>0, <1>3 DEF Abort, RowsOK
<2> QED
  BY <2>1, <2>2
<1>4. ASSUME NEW w \in Workers, InsertTrial(w) PROVE RequestsOK' /\ RowsOK'
<2>1. "trialWallet" \in Pcs
  BY DEF Pcs
<2>2. Return(w) \/ (Goto(w, "trialWallet") /\ req' = req)
  BY <1>4 DEF InsertTrial
<2>3. [status |-> "trial", trialEnd |-> req[w].at + Trial, end |-> req[w].at + Trial, grace |-> 0] \in Subscription
  BY <1>0, RequestFields DEF Subscription
<2>4. RequestsOK'
  BY <1>0, <2>1, <2>2, ReturnTypes, GotoTypes DEF RequestsOK
<2>5. RowsOK'
  BY <1>0, <2>3, <1>4 DEF InsertTrial, RowsOK
<2> QED
  BY <2>4, <2>5
<1>5. ASSUME NEW w \in Workers, TrialWallet(w) PROVE RequestsOK' /\ RowsOK'
<2>1. "trialRow" \in Pcs /\ "trialNew" \in Pcs
  BY DEF Pcs
<2>2. (req' = [req EXCEPT ![w].wallet = balance] /\ Goto(w, "trialRow")) \/ (req' = req /\ Goto(w, "trialNew"))
  BY <1>5 DEF TrialWallet
<2>4. RequestsOK'
  BY <1>0, WalletWritten, SubscriptionFields, GotoTypes, <2>1, <2>2 DEF RequestsOK
<2>3. RowsOK'
  BY <1>0, <1>5 DEF TrialWallet, RowsOK
<2> QED
  BY <2>3, <2>4
<1>6. ASSUME NEW w \in Workers, TrialRow(w) PROVE RequestsOK' /\ RowsOK'
<2>1. Append(ledger, [amount |-> 0, after |-> req[w].wallet, topup |-> NoTopup, name |-> "none"]) \in Seq(Rows)
  BY <1>0, RequestFields, RowAppended DEF RowsOK, Refs, RefNames
<2>2. RequestsOK'
  BY <1>0, ReturnTypes, <1>6 DEF TrialRow
<2>3. RowsOK'
  BY <1>0, <2>1, <1>6 DEF TrialRow, RowsOK
<2> QED
  BY <2>2, <2>3
<1>7. ASSUME NEW w \in Workers, Mark(w) PROVE RequestsOK' /\ RowsOK'
<2>1. "dup" \in Pcs
  BY DEF Pcs
<2>2. Return(w) \/ (Goto(w, "dup") /\ req' = req)
  BY <1>7 DEF Mark
<2>3. Marked(w) \in AttemptStatuses
  BY <1>0, RequestFields DEF Marked, AttemptStatuses, Events
<2>4. RequestsOK'
  BY <1>0, <2>1, <2>2, ReturnTypes, GotoTypes DEF RequestsOK
<2>6. named' \subseteq Topups
  BY <1>0, <1>7 DEF Mark, RowsOK
<2>5. RowsOK'
  BY <1>0, <2>3, <2>6, <1>7 DEF Mark, RowsOK
<2> QED
  BY <2>4, <2>5
<1>8. ASSUME NEW w \in Workers, FindDuplicate(w) PROVE RequestsOK' /\ RowsOK'
<2>1. "current" \in Pcs /\ "creditRead" \in Pcs
  BY DEF Pcs
<2>2. Return(w) \/ ((Goto(w, "current") \/ Goto(w, "creditRead")) /\ req' = req)
  BY <1>8 DEF FindDuplicate
<2>3. RequestsOK'
  BY <1>0, <2>1, <2>2, ReturnTypes, GotoTypes DEF RequestsOK
<2>4. RowsOK'
  BY <1>0, <1>8 DEF FindDuplicate, RowsOK
<2> QED
  BY <2>3, <2>4
<1>9. ASSUME NEW w \in Workers, CreditRead(w) PROVE RequestsOK' /\ RowsOK'
<2>1. "creditCommit" \in Pcs
  BY DEF Pcs
<2>2. Return(w) \/ (Goto(w, "creditCommit") /\ req' = [req EXCEPT ![w].wallet = balance, ![w].creates = ~wallet])
  BY <1>9 DEF CreditRead, ReadWallet
<2>3. [req EXCEPT ![w].wallet = balance, ![w].creates = ~wallet] \in [Workers -> Requests]
  BY <1>0, ReadWritten, SubscriptionFields
<2>4. RequestsOK'
  BY <1>0, <2>1, <2>2, <2>3, ReturnTypes, GotoTypes
<2>5. RowsOK'
  BY <1>0, <1>9 DEF CreditRead, ReadWallet, RowsOK
<2> QED
  BY <2>4, <2>5
<1>10. ASSUME NEW w \in Workers, CreditCommit(w) PROVE RequestsOK' /\ RowsOK'
<2>1. "current" \in Pcs
  BY DEF Pcs
<2>2. Throw(w) \/ (Goto(w, "current") /\ req' = req)
  BY <1>10 DEF CreditCommit, CommitEntry
<2>3. req[w].wallet + CreditAmount(w) \in Nat /\ CreditAmount(w) \in Int
  BY <1>0, RequestFields, <1>10 DEF CreditCommit, CreditAmount
<2>4. Append(ledger, [amount |-> CreditAmount(w), after |-> req[w].wallet + CreditAmount(w), topup |-> req[w].topup, name |-> req[w].name]) \in Seq(Rows)
  BY <1>0, <2>3, RequestFields, RowAppended DEF RowsOK, Refs, RefNames
<2>5. RequestsOK'
  BY <1>0, <2>1, <2>2, ThrowTypes, GotoTypes DEF RequestsOK
<2>6. RowsOK'
  BY <1>0, <2>3, <2>4, <1>10 DEF CreditCommit, CommitEntry, RowsOK
<2> QED
  BY <2>5, <2>6
<1>11. ASSUME NEW w \in Workers, Current(w) PROVE RequestsOK' /\ RowsOK'
<2>1. "charge" \in Pcs
  BY DEF Pcs
<2>2. Return(w) \/ (Goto(w, "charge") /\ req' = req)
  BY <1>11 DEF Current
<2>3. RequestsOK'
  BY <1>0, <2>1, <2>2, ReturnTypes, GotoTypes DEF RequestsOK
<2>4. RowsOK'
  BY <1>0, <1>11 DEF Current, RowsOK
<2> QED
  BY <2>3, <2>4
<1>12. ASSUME NEW w \in Workers, Charge(w) PROVE RequestsOK' /\ RowsOK'
<2>1. "afford" \in Pcs
  BY DEF Pcs
<2>2. req' \in [Workers -> Requests]
  BY <1>0, EndWritten, RequestFields, SubscriptionFields, <1>12 DEF Charge
<2>3. RequestsOK'
  BY <1>0, <2>1, <2>2, GotoTypes, <1>12 DEF Charge
<2>4. RowsOK'
  BY <1>0, <1>12 DEF Charge, RowsOK
<2> QED
  BY <2>3, <2>4
<1>13. ASSUME NEW w \in Workers, Afford(w) PROVE RequestsOK' /\ RowsOK'
<2>1. "debitRead" \in Pcs /\ "toGrace" \in Pcs /\ "affordNew" \in Pcs
  BY DEF Pcs
<2>2. Return(w) \/ ((Goto(w, "debitRead") \/ Goto(w, "toGrace") \/ Goto(w, "affordNew")) /\ req' = req)
  BY <1>13 DEF Afford
<2>3. RequestsOK'
  BY <1>0, <2>1, <2>2, ReturnTypes, GotoTypes DEF RequestsOK
<2>4. RowsOK'
  BY <1>0, <1>13 DEF Afford, RowsOK
<2> QED
  BY <2>3, <2>4
<1>14. ASSUME NEW w \in Workers, DebitRead(w) PROVE RequestsOK' /\ RowsOK'
<2>1. "debitCommit" \in Pcs
  BY DEF Pcs
<2>2. Return(w) \/ (Goto(w, "debitCommit") /\ req' = [req EXCEPT ![w].wallet = balance, ![w].creates = ~wallet])
  BY <1>14 DEF DebitRead, ReadWallet
<2>3. [req EXCEPT ![w].wallet = balance, ![w].creates = ~wallet] \in [Workers -> Requests]
  BY <1>0, ReadWritten, SubscriptionFields
<2>4. RequestsOK'
  BY <1>0, <2>1, <2>2, <2>3, ReturnTypes, GotoTypes
<2>5. RowsOK'
  BY <1>0, <1>14 DEF DebitRead, ReadWallet, RowsOK
<2> QED
  BY <2>4, <2>5
<1>15. ASSUME NEW w \in Workers, DebitCommit(w) PROVE RequestsOK' /\ RowsOK'
<2>1. "extend" \in Pcs
  BY DEF Pcs
<2>2. Throw(w) \/ (Goto(w, "extend") /\ req' = req)
  BY <1>15 DEF DebitCommit, CommitEntry
<2>3. req[w].wallet + (-Price) \in Nat /\ (-Price) \in Int
  BY <1>0, RequestFields, <1>15 DEF DebitCommit, CommitEntry, WalletRead
<2>4. Append(ledger, [amount |-> (-Price), after |-> req[w].wallet + (-Price), topup |-> NoTopup, name |-> "none"]) \in Seq(Rows)
  BY <1>0, <2>3, RequestFields, RowAppended DEF RowsOK, Refs, RefNames
<2>5. RequestsOK'
  BY <1>0, <2>1, <2>2, ThrowTypes, GotoTypes DEF RequestsOK
<2>6. RowsOK'
  BY <1>0, <2>3, <2>4, <1>15 DEF DebitCommit, CommitEntry, RowsOK
<2> QED
  BY <2>5, <2>6
<1>16. ASSUME NEW w \in Workers, Extend(w) PROVE RequestsOK' /\ RowsOK'
<2>1. Anchor(w) + Period \in Nat
  BY <1>0, RequestFields DEF Anchor
<2>2. [sub EXCEPT !.status = "active", !.end = Anchor(w) + Period, !.grace = 0] \in Subscription
  BY <1>0, <2>1, SubscriptionFields DEF RowsOK, Subscription
<2>3. RequestsOK'
  BY <1>0, ReturnTypes, <1>16 DEF Extend
<2>4. RowsOK'
  BY <1>0, <2>1, <2>2, <1>16 DEF Extend, RowsOK
<2> QED
  BY <2>3, <2>4
<1>17. ASSUME NEW w \in Workers, ToGrace(w) PROVE RequestsOK' /\ RowsOK'
<2>1. req[w].due + Grace \in Nat
  BY <1>0, RequestFields
<2>2. [sub EXCEPT !.status = "grace", !.grace = req[w].due + Grace] \in Subscription
  BY <1>0, <2>1, SubscriptionFields DEF RowsOK, Subscription
<2>3. RequestsOK'
  BY <1>0, ReturnTypes, <1>17 DEF ToGrace
<2>4. RowsOK'
  BY <1>0, <2>1, <2>2, <1>17 DEF ToGrace, RowsOK
<2> QED
  BY <2>3, <2>4
<1>18. ASSUME NEW w \in Workers, Suspend(w) PROVE RequestsOK' /\ RowsOK'
<2>1. [sub EXCEPT !.status = "suspended"] \in Subscription
  BY <1>0, SubscriptionFields DEF RowsOK, Subscription
<2>2. RequestsOK'
  BY <1>0, ReturnTypes, <1>18 DEF Suspend
<2>3. RowsOK'
  BY <1>0, <2>1, <1>18 DEF Suspend, RowsOK
<2> QED
  BY <2>2, <2>3
<1>19. ASSUME NEW w \in Workers, NEW t \in Topups, Webhook(w, t) PROVE RequestsOK' /\ RowsOK'
<2>1. ASSUME NEW event \in Events, NEW name \in RefNames
      PROVE  [NoRequest EXCEPT !.topup = t, !.name = name, !.event = event, !.seen = attempt[t]] \in Requests
  BY <1>0, NoRequestType DEF Requests, NoRequest, RowsOK, Refs
<2>2. \E event \in Events, name \in RefNames :
        Begin(w, "mark", [NoRequest EXCEPT !.topup = t, !.name = name, !.event = event, !.seen = attempt[t]])
  BY <1>19, Deliveries
<2>3. pc' \in [Workers -> Pcs] /\ req' \in [Workers -> Requests] /\ overlapped' \in BOOLEAN
  <3>1. "mark" \in Pcs
    BY DEF Pcs
  <3> QED
    BY <1>0, <2>1, <2>2, <3>1, BeginTypes
<2>4. deliveries' \in 0..MaxDeliveries /\ aborts' = aborts /\ cut' = cut
  BY <1>0, <1>19 DEF Webhook, RequestsOK
<2>5. RequestsOK'
  BY <1>0, <2>3, <2>4 DEF RequestsOK
<2>6. RowsOK'
  BY <1>0, <1>19 DEF Webhook, RowsOK
<2> QED
  BY <2>5, <2>6
<1>20. ASSUME NEW t \in Topups, Topup(t) PROVE RequestsOK' /\ RowsOK'
<2>1. RequestsOK'
  BY <1>0, <1>20 DEF Topup, RequestsOK
<2>2. RowsOK'
  BY <1>0, <1>20 DEF Topup, RowsOK, AttemptStatuses
<2> QED
  BY <2>1, <2>2
<1>21. ASSUME NEW t \in Topups, ProviderAccepts(t) PROVE RequestsOK' /\ RowsOK'
<2>1. RequestsOK'
  BY <1>0, <1>21 DEF ProviderAccepts, RequestsOK
<2>2. RowsOK'
  BY <1>0, <1>21 DEF ProviderAccepts, RowsOK, AttemptStatuses
<2> QED
  BY <2>1, <2>2
<1>22. ASSUME NEW t \in Topups, ProviderSettles(t) PROVE RequestsOK' /\ RowsOK'
<2>1. RequestsOK'
  BY <1>0, <1>22 DEF ProviderSettles, RequestsOK
<2>2. RowsOK'
  BY <1>0, <1>22 DEF ProviderSettles, RowsOK, AttemptStatuses
<2> QED
  BY <2>1, <2>2
<1>23. ASSUME Clock PROVE RequestsOK' /\ RowsOK'
<2>1. RequestsOK'
  BY <1>0, <1>23 DEF Clock, RequestsOK
<2>2. RowsOK'
  BY <1>0, <1>23 DEF Clock, RowsOK, AttemptStatuses
<2> QED
  BY <2>1, <2>2
<1>25. ASSUME NEW w \in Workers, ShowWallet(w) PROVE RequestsOK' /\ RowsOK'
<2>1. Begin(w, "showNew", NoRequest) /\ "showNew" \in Pcs
  BY <1>25 DEF ShowWallet, Pcs
<2>2. RequestsOK'
  BY <1>0, <2>1, NoRequestType, BeginTypes, <1>25 DEF ShowWallet, RequestsOK
<2>3. RowsOK'
  BY <1>0, <1>25 DEF ShowWallet, RowsOK
<2> QED
  BY <2>2, <2>3
<1>26. ASSUME NEW w \in Workers, NewWallets(w) PROVE RequestsOK' /\ RowsOK'
<2>1. "trialWallet" \in Pcs /\ "afford" \in Pcs /\ "idle" \in Pcs
  BY DEF Pcs
<2>2. [req EXCEPT ![w] = NoRequest] \in [Workers -> Requests]
  BY <1>0, NoRequestType DEF RequestsOK
<2>3. [req EXCEPT ![w] = req[w]] \in [Workers -> Requests]
  BY <1>0 DEF RequestsOK
<2>4. Throw(w) \/ \E to \in Pcs : Goto(w, to) /\ req' \in [Workers -> Requests]
  BY <1>26, <2>1, <2>2, <2>3 DEF NewWallets, NewWallet
<2>5. RequestsOK'
  BY <1>0, <2>4, ThrowTypes, GotoTypes
<2>6. RowsOK'
  BY <1>0, <1>26 DEF NewWallets, NewWallet, RowsOK
<2> QED
  BY <2>5, <2>6
<1>27. ASSUME NEW t \in Topups, SetProviderId(t) \/ UnknownAttempt(t) PROVE RequestsOK' /\ RowsOK'
<2>1. RequestsOK'
  BY <1>0, <1>27 DEF SetProviderId, UnknownAttempt, RequestsOK
<2>2. RowsOK'
  BY <1>0, <1>27 DEF SetProviderId, UnknownAttempt, RowsOK
<2> QED
  BY <2>1, <2>2
<1>24. CASE UNCHANGED vars
  BY <1>24, <1>0 DEF vars, RequestsOK, RowsOK
<1> QED
  BY <1>1, <1>2, <1>3, <1>4, <1>5, <1>6, <1>7, <1>8, <1>9, <1>10, <1>11, <1>12, <1>13, <1>14, <1>15, <1>16, <1>17, <1>18, <1>19, <1>20, <1>21, <1>22, <1>23, <1>24, <1>25, <1>26, <1>27
     DEF Next, Step, NewWallets

-----------------------------------------------------------------------------
(* How a step moves the requests *)

\* A request that goes on leaves the others where they are.
LEMMA StepIsLocal ==
  ASSUME RequestsOK, NEW w \in Workers, Step(w) \/ Abort(w)
  PROVE  /\ pc[w] # "idle" /\ overlapped' = overlapped
         /\ \A v \in Workers : v # w => pc'[v] = pc[v] /\ req'[v] = req[v]
<1> USE DEF RequestsOK
<1>1. CASE InsertTrial(w)
  BY <1>1 DEF InsertTrial, Goto, Return
<1>2. CASE TrialWallet(w)
  BY <1>2 DEF TrialWallet, Goto
<1>3. CASE TrialRow(w)
  BY <1>3 DEF TrialRow, Goto, Return
<1>4. CASE Mark(w)
  BY <1>4 DEF Mark, Marked, Goto, Return
<1>5. CASE FindDuplicate(w)
  BY <1>5 DEF FindDuplicate, IsDuplicate, Goto
<1>6. CASE CreditRead(w)
  BY <1>6 DEF CreditRead, ReadWallet, Covered, Goto, Return, CreditAmount
<1>7. CASE CreditCommit(w)
  BY <1>7 DEF CreditCommit, CommitEntry, Throw, EndsHere, Goto, CreditAmount
<1>8. CASE Current(w)
  BY <1>8 DEF Current, Revivable, Goto, Return
<1>9. CASE Charge(w)
  BY <1>9 DEF Charge, Goto
<1>10. CASE Afford(w)
  BY <1>10 DEF Afford, Goto, Return
<1>11. CASE DebitRead(w)
  BY <1>11 DEF DebitRead, ReadWallet, Covered, Goto, Return
<1>12. CASE DebitCommit(w)
  BY <1>12 DEF DebitCommit, CommitEntry, Throw, EndsHere, Goto
<1>13. CASE Extend(w)
  BY <1>13 DEF Extend, Anchor, Goto, Return
<1>14. CASE ToGrace(w)
  BY <1>14 DEF ToGrace, Goto, Return
<1>15. CASE Suspend(w)
  BY <1>15 DEF Suspend, Goto, Return
<1>16. CASE Abort(w)
  BY <1>16 DEF Abort, EndsHere
<1>17. CASE NewWallets(w)
  BY <1>17 DEF NewWallets, NewWallet, Throw, EndsHere, Goto
<1> QED
  BY <1>1, <1>2, <1>3, <1>4, <1>5, <1>6, <1>7, <1>8, <1>9, <1>10, <1>11, <1>12, <1>13, <1>14, <1>15, <1>16, <1>17
     DEF Step, NewWallets

\* A request that begins leaves the others where they are, and is alone or noticed.
LEMMA BeginIsLocal ==
  ASSUME RequestsOK, NEW w \in Workers, NEW label, NEW r, Begin(w, label, r)
  PROVE  /\ pc[w] = "idle" /\ pc'[w] = label /\ req'[w] = r
         /\ \A v \in Workers : v # w => pc'[v] = pc[v] /\ req'[v] = req[v]
         /\ ~overlapped' => ~overlapped /\ \A v \in Workers : pc[v] = "idle"
  BY DEF Begin, RequestsOK

LEMMA GotoMoves ==
  ASSUME RequestsOK, NEW w \in Workers, NEW label, Goto(w, label)
  PROVE  pc'[w] = label
  BY DEF Goto, RequestsOK

LEMMA ReturnMoves ==
  ASSUME RequestsOK, NEW w \in Workers, Return(w)
  PROVE  pc'[w] = "idle" /\ req'[w] = NoRequest
  BY DEF Return, Goto, RequestsOK

\* Every step begins a request, lets one go on, or touches none.
Begins(w) ==
  \E label \in {"insert", "charge", "suspend", "mark", "showNew"} : \E r \in Requests : Begin(w, label, r)

LEMMA Kinds ==
  ASSUME TypeOK, [Next]_vars
  PROVE  \/ \E w \in Workers : Subscribe(w) \/ ShowWallet(w) \/ Tick(w) \/ \E t \in Topups : Webhook(w, t)
         \/ \E w \in Workers : Step(w) \/ Abort(w)
         \/ /\ UNCHANGED <<pc, req, overlapped, balance, ledger, sub, aborts, cut>>
            /\ \/ \E t \in Topups : \/ Topup(t) \/ ProviderAccepts(t) \/ ProviderSettles(t)
                                    \/ SetProviderId(t) \/ UnknownAttempt(t)
               \/ Clock
               \/ UNCHANGED vars
  BY DEF Next, vars, Topup, ProviderAccepts, ProviderSettles, SetProviderId, UnknownAttempt, Clock

\* How the four entry points begin.
LEMMA Entries ==
  ASSUME NEW w \in Workers,
         Subscribe(w) \/ ShowWallet(w) \/ Tick(w) \/ \E t \in Topups : Webhook(w, t)
  PROVE  /\ \E label, r : Begin(w, label, r)
         /\ UNCHANGED <<balance, ledger, sub, attempt, provider, now, aborts, cut>>
  BY DEF Subscribe, ShowWallet, Tick, Webhook

-----------------------------------------------------------------------------
(* Requests that do not overlap are alone *)

LEMMA AloneStep == TypeOK /\ Alone /\ [Next]_vars => Alone'
<1> SUFFICES ASSUME TypeOK, Alone, [Next]_vars PROVE Alone'
  OBVIOUS
<1>0. RequestsOK
  BY TypeHalves
<1>1. ASSUME NEW w \in Workers, Subscribe(w) \/ ShowWallet(w) \/ Tick(w) \/ \E t \in Topups : Webhook(w, t)
      PROVE  Alone'
  BY <1>0, <1>1, Entries, BeginIsLocal DEF Alone
<1>2. ASSUME NEW w \in Workers, Step(w) \/ Abort(w) PROVE Alone'
  BY <1>0, <1>2, StepIsLocal DEF Alone
<1>3. CASE UNCHANGED <<pc, overlapped>>
  BY <1>3 DEF Alone
<1> QED
  BY <1>1, <1>2, <1>3, Kinds

\* Where a request is alone, the others are idle before and after its step.
LEMMA OthersIdle ==
  ASSUME RequestsOK, Alone, ~overlapped', NEW w \in Workers, Step(w) \/ Abort(w)
  PROVE  ~overlapped /\ \A v \in Workers : v # w => pc[v] = "idle" /\ pc'[v] = "idle"
  BY StepIsLocal DEF Alone

-----------------------------------------------------------------------------
(* Deliveries and credits *)

\* A request keeps its top-up and its event, and credits only a completed one.
LEMMA KeepsTopup ==
  ASSUME RequestsOK, NEW w \in Workers, Step(w) \/ Abort(w)
  PROVE  /\ \/ req'[w].topup = req[w].topup /\ req'[w].event = req[w].event
            \/ req'[w] = NoRequest /\ pc'[w] = "idle"
         /\ pc'[w] \in {"dup", "creditRead", "creditCommit", "current"} =>
              pc[w] \in {"dup", "creditRead", "creditCommit"} \/ req[w].event = "completed"
<1> USE DEF RequestsOK
<1>1. CASE InsertTrial(w)
  BY <1>1 DEF InsertTrial, Goto, Return, Requests
<1>2. CASE TrialWallet(w)
  BY <1>2 DEF TrialWallet, Goto, Requests
<1>3. CASE TrialRow(w)
  BY <1>3 DEF TrialRow, Goto, Return, Requests
<1>4. CASE Mark(w)
  BY <1>4 DEF Mark, Marked, Goto, Return, Requests
<1>5. CASE FindDuplicate(w)
  BY <1>5 DEF FindDuplicate, IsDuplicate, Goto, Requests
<1>6. CASE CreditRead(w)
  BY <1>6 DEF CreditRead, ReadWallet, Covered, Goto, Return, CreditAmount, Requests
<1>7. CASE CreditCommit(w)
  BY <1>7 DEF CreditCommit, CommitEntry, Throw, EndsHere, Goto, CreditAmount, Requests
<1>8. CASE Current(w)
  BY <1>8 DEF Current, Revivable, Goto, Return, Requests
<1>9. CASE Charge(w)
  BY <1>9 DEF Charge, Goto, Requests
<1>10. CASE Afford(w)
  BY <1>10 DEF Afford, Goto, Return, Requests
<1>11. CASE DebitRead(w)
  BY <1>11 DEF DebitRead, ReadWallet, Covered, Goto, Return, Requests
<1>12. CASE DebitCommit(w)
  BY <1>12 DEF DebitCommit, CommitEntry, Throw, EndsHere, Goto, Requests
<1>13. CASE Extend(w)
  BY <1>13 DEF Extend, Anchor, Goto, Return, Requests
<1>14. CASE ToGrace(w)
  BY <1>14 DEF ToGrace, Goto, Return, Requests
<1>15. CASE Suspend(w)
  BY <1>15 DEF Suspend, Goto, Return, Requests
<1>16. CASE Abort(w)
  BY <1>16 DEF Abort, EndsHere
<1>17. CASE NewWallets(w)
  BY <1>17 DEF NewWallets, NewWallet, Throw, EndsHere, Goto, Requests
<1> QED
  BY <1>1, <1>2, <1>3, <1>4, <1>5, <1>6, <1>7, <1>8, <1>9, <1>10, <1>11, <1>12, <1>13, <1>14, <1>15, <1>16, <1>17
     DEF Step, NewWallets

LEMMA PaidStays ==
  ASSUME TypeOK, [Next]_vars, NEW t \in Topups, provider[t] = "paid"
  PROVE  provider'[t] = "paid"
<1>1. CASE provider' = provider
  BY <1>1
<1>2. ASSUME NEW u \in Topups, ProviderAccepts(u) \/ ProviderSettles(u) PROVE provider'[t] = "paid"
  BY <1>2 DEF ProviderAccepts, ProviderSettles, TypeOK
<1>3. ASSUME NEW w \in Workers, Step(w) \/ Abort(w) PROVE provider' = provider
  BY <1>3 DEF Step, Abort, NewWallet, InsertTrial, TrialWallet, TrialRow, Mark, FindDuplicate, CreditRead, CreditCommit,
              ReadWallet, CommitEntry, Current, Charge, Afford, DebitRead, DebitCommit, Extend, ToGrace, Suspend
<1>4. ASSUME NEW u \in Topups, Topup(u) \/ SetProviderId(u) \/ UnknownAttempt(u) PROVE provider' = provider
  BY <1>4 DEF Topup, SetProviderId, UnknownAttempt
<1>5. CASE Clock \/ UNCHANGED vars
  BY <1>1, <1>5 DEF Clock, vars
<1> QED
  BY <1>1, <1>2, <1>3, <1>4, <1>5, Kinds, Entries

LEMMA PaidStep == TypeOK /\ DeliveriesPaid /\ [Next]_vars => DeliveriesPaid'
<1> SUFFICES ASSUME TypeOK, DeliveriesPaid, [Next]_vars PROVE DeliveriesPaid'
  OBVIOUS
<1>0. RequestsOK
  BY TypeHalves
<1>1. ASSUME NEW w \in Workers, Step(w) \/ Abort(w) PROVE DeliveriesPaid'
  <2>1. NoRequest.event = "other"
    BY DEF NoRequest
  <2>2. \A v \in Workers : v # w => pc'[v] = pc[v] /\ req'[v] = req[v]
    BY <1>0, <1>1, StepIsLocal
  <2> QED
    BY <1>0, <1>1, <2>1, <2>2, KeepsTopup, PaidStays DEF DeliveriesPaid
<1>2. ASSUME NEW w \in Workers, Subscribe(w) \/ ShowWallet(w) \/ Tick(w) PROVE DeliveriesPaid'
  <2>1. \E label \in {"insert", "charge", "suspend", "showNew"} : \E r : Begin(w, label, r) /\ r.event = "other"
    <3>1. CASE Subscribe(w)
      <4> DEFINE r == [NoRequest EXCEPT !.at = now]
      <4>1. r.event = "other"
        BY DEF NoRequest
      <4>2. Begin(w, "insert", r)
        BY <3>1 DEF Subscribe
      <4> HIDE DEF r
      <4> QED
        BY <4>1, <4>2
    <3>2. CASE Tick(w)
      <4> DEFINE r == [NoRequest EXCEPT !.at = now, !.due = sub.end]
      <4>1. r.event = "other"
        BY DEF NoRequest
      <4>2. \E label \in {"charge", "suspend"} : Begin(w, label, r)
        BY <3>2 DEF Tick
      <4> HIDE DEF r
      <4> QED
        BY <4>1, <4>2
    <3>3. CASE ShowWallet(w)
      BY <3>3 DEF ShowWallet, NoRequest
    <3> QED
      BY <1>2, <3>1, <3>2, <3>3
  <2> QED
    BY <1>0, <2>1, BeginIsLocal, PaidStays DEF DeliveriesPaid
<1>3. ASSUME NEW w \in Workers, NEW t \in Topups, Webhook(w, t) PROVE DeliveriesPaid'
  <2>1. \E r : Begin(w, "mark", r) /\ r.topup = t /\ (r.event = "completed" => provider[t] = "paid")
    <3>1. PICK event \in Events, name \in RefNames :
            /\ event \in Reportable(t)
            /\ Begin(w, "mark", [NoRequest EXCEPT !.topup = t, !.name = name, !.event = event, !.seen = attempt[t]])
      BY <1>3, Deliveries
    <3> DEFINE r == [NoRequest EXCEPT !.topup = t, !.name = name, !.event = event, !.seen = attempt[t]]
    <3>2. r.topup = t /\ r.event = event
      BY DEF NoRequest
    <3>3. event = "completed" => provider[t] = "paid"
      BY <3>1 DEF Reportable
    <3>4. Begin(w, "mark", r)
      BY <3>1
    <3> HIDE DEF r
    <3> QED
      BY <3>2, <3>3, <3>4
  <2> QED
    BY <1>0, <2>1, BeginIsLocal, PaidStays DEF DeliveriesPaid
<1>4. CASE UNCHANGED <<pc, req>>
  BY <1>4, PaidStays DEF DeliveriesPaid
<1> QED
  BY <1>1, <1>2, <1>3, <1>4, Kinds

\* Only these steps write the ledger.
LEMMA LedgerWriters ==
  ASSUME TypeOK, [Next]_vars
  PROVE  UNCHANGED <<ledger, balance>>
         \/ \E w \in Workers : TrialRow(w) \/ CreditCommit(w) \/ DebitCommit(w)
<1>1. ASSUME NEW w \in Workers, Step(w) \/ Abort(w)
      PROVE  UNCHANGED <<ledger, balance>> \/ TrialRow(w) \/ CreditCommit(w) \/ DebitCommit(w)
  BY <1>1 DEF Step, Abort, NewWallet, InsertTrial, TrialWallet, Mark, FindDuplicate, CreditRead,
              ReadWallet, Current, Charge, Afford, DebitRead, Extend, ToGrace, Suspend
<1> QED
  BY <1>1, Kinds, Entries

\* Appending a row keeps the rows before it.
LEMMA RowsKept ==
  ASSUME ledger \in Seq(Rows), NEW r \in Rows, ledger' = Append(ledger, r)
  PROVE  /\ Len(ledger) \in Nat /\ Len(ledger') = Len(ledger) + 1
         /\ \A i \in 1..Len(ledger) : ledger'[i] = ledger[i]
         /\ ledger'[Len(ledger) + 1] = r
  OBVIOUS

LEMMA CreditStep == TypeOK /\ DeliveriesPaid /\ WalletRead /\ CreditedOnce /\ [Next]_vars => CreditedOnce'
<1> SUFFICES ASSUME TypeOK, DeliveriesPaid, WalletRead, CreditedOnce, [Next]_vars PROVE CreditedOnce'
  OBVIOUS
<1>0. RequestsOK /\ RowsOK
  BY TypeHalves
<1>1. \A i \in 1..Len(ledger) : ledger[i].topup # NoTopup => ledger[i].topup \in Topups
  <2>1. \A i \in 1..Len(ledger) : ledger[i] \in Rows
    BY <1>0 DEF RowsOK
  <2> QED
    BY <2>1 DEF Rows, Refs, RefNames
<1>2. ASSUME NEW r \in Rows, ledger' = Append(ledger, r),
             r.topup # NoTopup =>
               r.topup \in Topups /\ ~CreditedAs(r.topup, r.name) /\ provider[r.topup] = "paid"
      PROVE  CreditedOnce'
  <2>1. /\ Len(ledger) \in Nat /\ Len(ledger') = Len(ledger) + 1
        /\ \A i \in 1..Len(ledger) : ledger'[i] = ledger[i]
        /\ ledger'[Len(ledger) + 1] = r
    BY <1>0, <1>2, RowsKept DEF RowsOK
  <2>2. \A i \in 1..Len(ledger') : i \in 1..Len(ledger) \/ i = Len(ledger) + 1
    BY <2>1
  <2>3. ASSUME NEW i \in 1..Len(ledger'), NEW j \in 1..Len(ledger'),
               ledger'[i].topup # NoTopup, ledger'[i].topup = ledger'[j].topup,
               ledger'[i].name = ledger'[j].name
        PROVE  i = j
    BY <1>2, <2>1, <2>2, <2>3 DEF CreditedOnce, CreditedAs
  <2>4. ASSUME NEW i \in 1..Len(ledger'), ledger'[i].topup # NoTopup
        PROVE  provider'[ledger'[i].topup] = "paid"
    BY <1>1, <1>2, <2>1, <2>2, <2>4, PaidStays DEF CreditedOnce
  <2> QED
    BY <2>3, <2>4 DEF CreditedOnce
<1>3. CASE ledger' = ledger
  BY <1>1, <1>3, PaidStays DEF CreditedOnce
<1>4. ASSUME NEW w \in Workers, TrialRow(w) PROVE CreditedOnce'
  <2>1. [amount |-> 0, after |-> req[w].wallet, topup |-> NoTopup, name |-> "none"] \in Rows
    BY <1>0, RequestFields DEF Rows, Refs, RefNames
  <2> QED
    BY <1>2, <1>4, <2>1 DEF TrialRow
<1>5. ASSUME NEW w \in Workers, CreditCommit(w) PROVE CreditedOnce'
  <2> DEFINE r == [amount |-> CreditAmount(w), after |-> req[w].wallet + CreditAmount(w), topup |-> req[w].topup, name |-> req[w].name]
  <2>1. r \in Rows
    BY <1>0, <1>5, RequestFields, BillingAssumption DEF Rows, Refs, RefNames, CreditCommit, CreditAmount
  <2>2. req[w].topup \in Topups /\ provider[req[w].topup] = "paid"
    BY <1>5 DEF CreditCommit, CommitEntry, DeliveriesPaid
  <2>3. ledger' = ledger \/ (ledger' = Append(ledger, r) /\ ~CreditedAs(req[w].topup, req[w].name))
    BY <1>5, <2>2, BillingAssumption DEF CreditCommit, CommitEntry, Refused
  <2> QED
    BY <1>2, <1>3, <2>1, <2>2, <2>3
<1>6. ASSUME NEW w \in Workers, DebitCommit(w) PROVE CreditedOnce'
  <2> DEFINE r == [amount |-> -Price, after |-> req[w].wallet + (-Price), topup |-> NoTopup, name |-> "none"]
  <2>1. r \in Rows
    BY <1>0, <1>6, RequestFields, BillingAssumption DEF Rows, Refs, RefNames, DebitCommit, CommitEntry, WalletRead
  <2>2. ledger' = ledger \/ ledger' = Append(ledger, r)
    BY <1>6 DEF DebitCommit, CommitEntry
  <2> QED
    BY <1>2, <1>3, <2>1, <2>2
<1> QED
  BY <1>3, <1>4, <1>5, <1>6, LedgerWriters

-----------------------------------------------------------------------------
(* What transactions have read *)

\* A transaction that is open after a step has just read the balance, or was open.
LEMMA WalletMoves ==
  ASSUME RequestsOK, RowsOK, NEW w \in Workers, Step(w) \/ Abort(w)
  PROVE  pc'[w] \in {"trialRow", "creditCommit", "debitCommit"} =>
           /\ req'[w].wallet = balance /\ balance' = balance
           /\ pc'[w] = "debitCommit" => balance >= Price
<1> USE BillingAssumption DEF RequestsOK, RowsOK
<1>1. CASE InsertTrial(w)
  BY <1>1 DEF InsertTrial, Goto, Return, Requests
<1>2. CASE TrialWallet(w)
  BY <1>2 DEF TrialWallet, Goto, Requests
<1>3. CASE TrialRow(w)
  BY <1>3 DEF TrialRow, Goto, Return, Requests
<1>4. CASE Mark(w)
  BY <1>4 DEF Mark, Marked, Goto, Return, Requests
<1>5. CASE FindDuplicate(w)
  BY <1>5 DEF FindDuplicate, IsDuplicate, Goto, Requests
<1>6. CASE CreditRead(w)
  BY <1>6 DEF CreditRead, ReadWallet, Covered, Goto, Return, CreditAmount, Requests
<1>7. CASE CreditCommit(w)
  BY <1>7 DEF CreditCommit, CommitEntry, Throw, EndsHere, Goto, CreditAmount, Requests
<1>8. CASE Current(w)
  BY <1>8 DEF Current, Revivable, Goto, Return, Requests
<1>9. CASE Charge(w)
  BY <1>9 DEF Charge, Goto, Requests
<1>10. CASE Afford(w)
  BY <1>10 DEF Afford, Goto, Return, Requests
<1>11. CASE DebitRead(w)
  <2>1. CASE Covered(-Price) /\ req' = [req EXCEPT ![w].wallet = balance, ![w].creates = ~wallet]
    <3>1. balance >= Price
      BY <2>1 DEF Covered
    <3>2. req'[w].wallet = balance
      BY <2>1 DEF Requests
    <3>3. balance' = balance
      BY <1>11 DEF DebitRead, ReadWallet
    <3> QED
      BY <3>1, <3>2, <3>3
  <2>2. CASE Return(w)
    BY <2>2, ReturnMoves
  <2> QED
    BY <1>11, <2>1, <2>2 DEF DebitRead, ReadWallet
<1>12. CASE DebitCommit(w)
  BY <1>12 DEF DebitCommit, CommitEntry, Throw, EndsHere, Goto, Requests
<1>13. CASE Extend(w)
  BY <1>13 DEF Extend, Anchor, Goto, Return, Requests
<1>14. CASE ToGrace(w)
  BY <1>14 DEF ToGrace, Goto, Return, Requests
<1>15. CASE Suspend(w)
  BY <1>15 DEF Suspend, Goto, Return, Requests
<1>16. CASE Abort(w)
  BY <1>16 DEF Abort, EndsHere
<1>17. CASE NewWallets(w)
  BY <1>17 DEF NewWallets, NewWallet, Throw, EndsHere, Goto, Requests
<1> QED
  BY <1>1, <1>2, <1>3, <1>4, <1>5, <1>6, <1>7, <1>8, <1>9, <1>10, <1>11, <1>12, <1>13, <1>14, <1>15, <1>16, <1>17
     DEF Step, NewWallets

LEMMA WalletStep == TypeOK /\ Alone /\ WalletRead /\ [Next]_vars => WalletRead'
<1> SUFFICES ASSUME TypeOK, Alone, WalletRead, [Next]_vars PROVE WalletRead'
  OBVIOUS
<1>0. RequestsOK /\ RowsOK
  BY TypeHalves
<1>1. ASSUME NEW w \in Workers, Step(w) \/ Abort(w) PROVE WalletRead'
  <2>1. ASSUME NEW v \in Workers, pc'[v] = "debitCommit" PROVE req'[v].wallet >= Price
    BY <1>0, <1>1, <2>1, WalletMoves, StepIsLocal DEF WalletRead
  <2>2. ASSUME ~overlapped', NEW v \in Workers, pc'[v] \in {"trialRow", "creditCommit", "debitCommit"}
        PROVE  req'[v].wallet = balance'
    BY <1>0, <1>1, <2>2, WalletMoves, OthersIdle
  <2> QED
    BY <2>1, <2>2 DEF WalletRead
<1>2. ASSUME NEW w \in Workers, Subscribe(w) \/ ShowWallet(w) \/ Tick(w) \/ \E t \in Topups : Webhook(w, t)
      PROVE  WalletRead'
  <2>1. \E label \in {"insert", "charge", "suspend", "mark", "showNew"} : \E r : Begin(w, label, r)
    BY <1>2 DEF Subscribe, ShowWallet, Tick, Webhook
  <2>2. balance' = balance
    BY <1>2, Entries
  <2> QED
    BY <1>0, <2>1, <2>2, BeginIsLocal DEF WalletRead
<1>3. CASE UNCHANGED <<pc, req, overlapped, balance>>
  BY <1>3 DEF WalletRead
<1> QED
  BY <1>1, <1>2, <1>3, Kinds

-----------------------------------------------------------------------------
(* The ledger explains the balance *)

LEMMA OverlapStays ==
  ASSUME TypeOK, [Next]_vars, ~overlapped'
  PROVE  ~overlapped
<1>0. RequestsOK
  BY TypeHalves
<1> QED
  BY <1>0, Kinds, Entries, BeginIsLocal, StepIsLocal

LEMMA LedgerStep ==
  TypeOK /\ Alone /\ WalletRead /\ LedgerExplainsBalance /\ [Next]_vars => LedgerExplainsBalance'
<1> SUFFICES ASSUME TypeOK, Alone, WalletRead, LedgerExplainsBalance, [Next]_vars, ~overlapped'
             PROVE  /\ \A i \in 1..Len(ledger') : ledger'[i].after = Before(i)' + ledger'[i].amount
                    /\ balance' = Before(Len(ledger) + 1)'
  BY DEF LedgerExplainsBalance
<1>0. RequestsOK /\ RowsOK /\ ~overlapped
  BY TypeHalves, OverlapStays
<1>1. /\ \A i \in 1..Len(ledger) : ledger[i].after = Before(i) + ledger[i].amount
      /\ balance = Before(Len(ledger) + 1)
  BY <1>0 DEF LedgerExplainsBalance
<1>2. ASSUME NEW r \in Rows, ledger' = Append(ledger, r), r.after = balance + r.amount, balance' = r.after
      PROVE  /\ \A i \in 1..Len(ledger') : ledger'[i].after = Before(i)' + ledger'[i].amount
             /\ balance' = Before(Len(ledger) + 1)'
  <2>1. /\ Len(ledger) \in Nat /\ Len(ledger') = Len(ledger) + 1
        /\ \A i \in 1..Len(ledger) : ledger'[i] = ledger[i]
        /\ ledger'[Len(ledger) + 1] = r
    BY <1>0, <1>2, RowsKept DEF RowsOK
  <2>2. \A i \in 1..Len(ledger) + 1 : Before(i)' = Before(i)
    BY <2>1 DEF Before
  <2>3. \A i \in 1..Len(ledger') : i \in 1..Len(ledger) \/ i = Len(ledger) + 1
    BY <2>1
  <2>4. ASSUME NEW i \in 1..Len(ledger')
        PROVE  ledger'[i].after = Before(i)' + ledger'[i].amount
    BY <1>1, <1>2, <2>1, <2>2, <2>3
  <2>5. balance' = Before(Len(ledger) + 1)'
    BY <1>2, <2>1 DEF Before
  <2> QED
    BY <2>4, <2>5
<1>3. CASE UNCHANGED <<ledger, balance>>
  BY <1>1, <1>3 DEF Before
<1>4. ASSUME NEW w \in Workers, TrialRow(w) \/ CreditCommit(w) \/ DebitCommit(w)
      PROVE  req[w].wallet = balance
  BY <1>0, <1>4 DEF WalletRead, TrialRow, CreditCommit, DebitCommit, CommitEntry
<1>5. ASSUME NEW w \in Workers, TrialRow(w)
      PROVE  \E r \in Rows : ledger' = Append(ledger, r) /\ r.after = balance + r.amount /\ balance' = r.after
  <2> DEFINE r == [amount |-> 0, after |-> req[w].wallet, topup |-> NoTopup, name |-> "none"]
  <2>1. r \in Rows /\ r.after = balance + r.amount
    BY <1>0, <1>4, <1>5, RequestFields, SubscriptionFields DEF Rows, Refs, RefNames
  <2>2. ledger' = Append(ledger, r) /\ balance' = r.after
    BY <1>4, <1>5 DEF TrialRow
  <2> QED
    BY <2>1, <2>2
<1>6. ASSUME NEW w \in Workers, CreditCommit(w)
      PROVE  \/ UNCHANGED <<ledger, balance>>
             \/ \E r \in Rows : ledger' = Append(ledger, r) /\ r.after = balance + r.amount /\ balance' = r.after
  <2> DEFINE r == [amount |-> CreditAmount(w), after |-> req[w].wallet + CreditAmount(w), topup |-> req[w].topup, name |-> req[w].name]
  <2>1. r \in Rows /\ r.after = balance + r.amount
    BY <1>0, <1>4, <1>6, RequestFields, BillingAssumption DEF Rows, Refs, RefNames, CreditCommit, CreditAmount
  <2>2. UNCHANGED <<ledger, balance>> \/ (ledger' = Append(ledger, r) /\ balance' = r.after)
    BY <1>6 DEF CreditCommit, CommitEntry
  <2> QED
    BY <2>1, <2>2
<1>7. ASSUME NEW w \in Workers, DebitCommit(w)
      PROVE  \/ UNCHANGED <<ledger, balance>>
             \/ \E r \in Rows : ledger' = Append(ledger, r) /\ r.after = balance + r.amount /\ balance' = r.after
  <2> DEFINE r == [amount |-> -Price, after |-> req[w].wallet + (-Price), topup |-> NoTopup, name |-> "none"]
  <2>1. r \in Rows /\ r.after = balance + r.amount
    BY <1>0, <1>4, <1>7, RequestFields, BillingAssumption DEF Rows, Refs, RefNames, DebitCommit, CommitEntry, WalletRead
  <2>2. UNCHANGED <<ledger, balance>> \/ (ledger' = Append(ledger, r) /\ balance' = r.after)
    BY <1>7 DEF DebitCommit, CommitEntry
  <2> QED
    BY <2>1, <2>2
<1> QED
  BY <1>2, <1>3, <1>5, <1>6, <1>7, LedgerWriters

-----------------------------------------------------------------------------
(* Renewals *)

\* A renewal goes on, or a suspended organisation has topped up.
LEMMA RenewingMoves ==
  ASSUME RequestsOK, NEW w \in Workers, Step(w) \/ Abort(w)
  PROVE  pc'[w] \in Renewing =>
           /\ UNCHANGED <<sub, now>>
           /\ \/ pc[w] \in Renewing /\ pc'[w] # "charge"
              \/ pc[w] = "current" /\ pc'[w] = "charge" /\ sub.status = "suspended"
<1> USE DEF RequestsOK, Renewing
<1>1. CASE InsertTrial(w)
  BY <1>1 DEF InsertTrial, Goto, Return
<1>2. CASE TrialWallet(w)
  BY <1>2 DEF TrialWallet, Goto
<1>3. CASE TrialRow(w)
  BY <1>3 DEF TrialRow, Goto, Return
<1>4. CASE Mark(w)
  BY <1>4 DEF Mark, Marked, Goto, Return
<1>5. CASE FindDuplicate(w)
  BY <1>5 DEF FindDuplicate, IsDuplicate, Goto
<1>6. CASE CreditRead(w)
  BY <1>6 DEF CreditRead, ReadWallet, Covered, Goto, Return, CreditAmount
<1>7. CASE CreditCommit(w)
  BY <1>7 DEF CreditCommit, CommitEntry, Throw, EndsHere, Goto, CreditAmount
<1>8. CASE Current(w)
  BY <1>8 DEF Current, Revivable, Goto, Return
<1>9. CASE Charge(w)
  BY <1>9 DEF Charge, Goto
<1>10. CASE Afford(w)
  BY <1>10 DEF Afford, Goto, Return
<1>11. CASE DebitRead(w)
  BY <1>11 DEF DebitRead, ReadWallet, Covered, Goto, Return
<1>12. CASE DebitCommit(w)
  BY <1>12 DEF DebitCommit, CommitEntry, Throw, EndsHere, Goto
<1>13. CASE Extend(w)
  BY <1>13 DEF Extend, Anchor, Goto, Return
<1>14. CASE ToGrace(w)
  BY <1>14 DEF ToGrace, Goto, Return
<1>15. CASE Suspend(w)
  BY <1>15 DEF Suspend, Goto, Return
<1>16. CASE Abort(w)
  BY <1>16 DEF Abort, EndsHere
<1>17. CASE NewWallets(w)
  BY <1>17 DEF NewWallets, NewWallet, Throw, EndsHere, Goto
<1> QED
  BY <1>1, <1>2, <1>3, <1>4, <1>5, <1>6, <1>7, <1>8, <1>9, <1>10, <1>11, <1>12, <1>13, <1>14, <1>15, <1>16, <1>17
     DEF Step, NewWallets

\* What a renewal knows of the period it renews.
LEMMA ChargeMoves ==
  ASSUME RequestsOK, NEW w \in Workers, Step(w) \/ Abort(w),
         pc'[w] \in {"afford", "affordNew", "debitRead", "debitCommit", "extend"}
  PROVE  \/ /\ pc[w] \in {"afford", "affordNew", "debitRead", "debitCommit"}
            /\ req'[w].end = req[w].end /\ req'[w].at = req[w].at
         \/ /\ pc[w] = "charge" /\ req'[w].end = sub.end
            /\ req'[w].at = (IF req[w].topup = NoTopup THEN req[w].at ELSE now)
<1> USE DEF RequestsOK
<1>1. CASE InsertTrial(w)
  BY <1>1 DEF InsertTrial, Goto, Return, Requests
<1>2. CASE TrialWallet(w)
  BY <1>2 DEF TrialWallet, Goto, Requests
<1>3. CASE TrialRow(w)
  BY <1>3 DEF TrialRow, Goto, Return, Requests
<1>4. CASE Mark(w)
  BY <1>4 DEF Mark, Marked, Goto, Return, Requests
<1>5. CASE FindDuplicate(w)
  BY <1>5 DEF FindDuplicate, IsDuplicate, Goto, Requests
<1>6. CASE CreditRead(w)
  BY <1>6 DEF CreditRead, ReadWallet, Covered, Goto, Return, CreditAmount, Requests
<1>7. CASE CreditCommit(w)
  BY <1>7 DEF CreditCommit, CommitEntry, Throw, EndsHere, Goto, CreditAmount, Requests
<1>8. CASE Current(w)
  BY <1>8 DEF Current, Revivable, Goto, Return, Requests
<1>9. CASE Charge(w)
  BY <1>9 DEF Charge, Goto, Requests
<1>10. CASE Afford(w)
  BY <1>10 DEF Afford, Goto, Return, Requests
<1>11. CASE DebitRead(w)
  BY <1>11 DEF DebitRead, ReadWallet, Covered, Goto, Return, Requests
<1>12. CASE DebitCommit(w)
  BY <1>12 DEF DebitCommit, CommitEntry, Throw, EndsHere, Goto, Requests
<1>13. CASE Extend(w)
  BY <1>13 DEF Extend, Anchor, Goto, Return, Requests
<1>14. CASE ToGrace(w)
  BY <1>14 DEF ToGrace, Goto, Return, Requests
<1>15. CASE Suspend(w)
  BY <1>15 DEF Suspend, Goto, Return, Requests
<1>16. CASE Abort(w)
  BY <1>16 DEF Abort, EndsHere
<1>17. CASE NewWallets(w)
  BY <1>17 DEF NewWallets, NewWallet, Throw, EndsHere, Goto, Requests
<1> QED
  BY <1>1, <1>2, <1>3, <1>4, <1>5, <1>6, <1>7, <1>8, <1>9, <1>10, <1>11, <1>12, <1>13, <1>14, <1>15, <1>16, <1>17
     DEF Step, NewWallets

\* Only these steps write the subscription.
LEMMA SubWriters ==
  ASSUME TypeOK, [Next]_vars
  PROVE  \/ sub' = sub
         \/ \E w \in Workers : InsertTrial(w) \/ Extend(w) \/ ToGrace(w) \/ Suspend(w)
<1>1. ASSUME NEW w \in Workers, Step(w) \/ Abort(w)
      PROVE  sub' = sub \/ InsertTrial(w) \/ Extend(w) \/ ToGrace(w) \/ Suspend(w)
  BY <1>1 DEF Step, Abort, NewWallet, TrialWallet, TrialRow, Mark, FindDuplicate, CreditRead, CreditCommit,
              ReadWallet, CommitEntry, Current, Charge, Afford, DebitRead, DebitCommit
<1> QED
  BY <1>1, Kinds, Entries

\* What they write.
LEMMA SubWritten ==
  ASSUME RowsOK, NEW w \in Workers
  PROVE  /\ InsertTrial(w) => sub' = sub \/ (sub'.status = "trial" /\ sub'.end = sub'.trialEnd)
         /\ Extend(w)  => sub'.status = "active" /\ sub'.end = Anchor(w) + Period /\ sub'.trialEnd = sub.trialEnd
         /\ ToGrace(w) => sub'.status = "grace" /\ sub'.end = sub.end /\ sub'.trialEnd = sub.trialEnd
         /\ Suspend(w) => sub'.status = "suspended" /\ sub'.end = sub.end /\ sub'.trialEnd = sub.trialEnd
<1>1. InsertTrial(w) => sub' = sub \/ (sub'.status = "trial" /\ sub'.end = sub'.trialEnd)
  BY DEF InsertTrial
<1>2. Extend(w)  => sub'.status = "active" /\ sub'.end = Anchor(w) + Period /\ sub'.trialEnd = sub.trialEnd
  BY DEF Extend, RowsOK, Subscription
<1>3. ToGrace(w) => sub'.status = "grace" /\ sub'.end = sub.end /\ sub'.trialEnd = sub.trialEnd
  BY DEF ToGrace, RowsOK, Subscription
<1>4. Suspend(w) => sub'.status = "suspended" /\ sub'.end = sub.end /\ sub'.trialEnd = sub.trialEnd
  BY DEF Suspend, RowsOK, Subscription
<1> QED
  BY <1>1, <1>2, <1>3, <1>4

LEMMA TimePasses ==
  ASSUME TypeOK, [Next]_vars
  PROVE  now \in Nat /\ now' \in Nat /\ now <= now'
<1>1. ASSUME NEW w \in Workers, Step(w) \/ Abort(w) PROVE now' = now
  BY <1>1 DEF Step, Abort, NewWallet, InsertTrial, TrialWallet, TrialRow, Mark, FindDuplicate, CreditRead, CreditCommit,
              ReadWallet, CommitEntry, Current, Charge, Afford, DebitRead, DebitCommit, Extend, ToGrace, Suspend
<1>2. now \in Nat
  BY BillingAssumption DEF TypeOK
<1>3. ASSUME NEW t \in Topups,
             \/ Topup(t) \/ ProviderAccepts(t) \/ ProviderSettles(t)
             \/ SetProviderId(t) \/ UnknownAttempt(t)
      PROVE  now' = now
  BY <1>3 DEF Topup, ProviderAccepts, ProviderSettles, SetProviderId, UnknownAttempt
<1>4. CASE Clock
  BY <1>2, <1>4 DEF Clock
<1>5. now' = now \/ Clock
  BY <1>1, <1>3, Kinds, Entries DEF vars
<1> QED
  BY <1>2, <1>4, <1>5

LEMMA ServedStep ==
  TypeOK /\ OnlyDueIsRenewed /\ PaidIsServed /\ [Next]_vars => PaidIsServed'
<1> SUFFICES ASSUME TypeOK, OnlyDueIsRenewed, PaidIsServed, [Next]_vars,
                    ~overlapped', sub'.status \in {"grace", "suspended"}
             PROVE  sub'.end <= now'
  BY DEF PaidIsServed
<1>0. RequestsOK /\ RowsOK /\ ~overlapped
  BY TypeHalves, OverlapStays
<1>1. sub.end \in Nat /\ now \in Nat /\ now' \in Nat /\ now <= now'
  BY <1>0, SubscriptionFields, TimePasses
<1>2. CASE sub' = sub
  BY <1>0, <1>1, <1>2 DEF PaidIsServed
<1>3. ASSUME NEW w \in Workers, ToGrace(w) \/ Suspend(w) PROVE sub'.end <= now'
  <2>1. sub.end <= now
    BY <1>0, <1>3 DEF OnlyDueIsRenewed, Renewing, ToGrace, Suspend
  <2> QED
    BY <1>0, <1>1, <1>3, <2>1, SubWritten
<1>4. ASSUME NEW w \in Workers, InsertTrial(w) \/ Extend(w) PROVE sub' = sub
  BY <1>0, <1>4, SubWritten
<1> QED
  BY <1>2, <1>3, <1>4, SubWriters

LEMMA DueStep ==
  TypeOK /\ Alone /\ DeliveriesPaid /\ OnlyDueIsRenewed /\ PaidIsServed /\ [Next]_vars => OnlyDueIsRenewed'
<1> SUFFICES ASSUME TypeOK, Alone, DeliveriesPaid, OnlyDueIsRenewed, PaidIsServed, [Next]_vars
             PROVE  OnlyDueIsRenewed'
  OBVIOUS
<1> DEFINE Fine(v) ==
      /\ pc[v] \in Renewing => sub.end <= now
      /\ pc[v] = "charge" /\ req[v].topup = NoTopup => sub.end <= req[v].at
      /\ pc[v] \in {"afford", "affordNew", "debitRead", "debitCommit", "extend"} =>
           req[v].end = sub.end /\ req[v].end <= req[v].at
<1>0. RequestsOK /\ RowsOK /\ sub.end \in Nat /\ now \in Nat /\ now' \in Nat /\ now <= now'
  BY TypeHalves, SubscriptionFields, TimePasses
<1>1. sub'.status = "trial" => sub'.end = sub'.trialEnd
  BY <1>0, SubWriters, SubWritten DEF OnlyDueIsRenewed
<1>2. ASSUME ~overlapped', NEW v \in Workers PROVE Fine(v)'
  <2>0. ~overlapped /\ Fine(v)
    BY <1>2, OverlapStays DEF OnlyDueIsRenewed
  <2>1. CASE pc'[v] = "idle"
    BY <2>1 DEF Renewing
  <2>2. ASSUME NEW w \in Workers, Step(w) \/ Abort(w) PROVE Fine(v)'
    <3>1. CASE v # w
      BY <1>0, <1>2, <2>1, <2>2, <3>1, OthersIdle
    <3>2. CASE v = w /\ pc'[v] \in Renewing
      <4>1. UNCHANGED <<sub, now>>
        BY <1>0, <2>2, <3>2, RenewingMoves
      <4>2. pc[v] \in Renewing => sub.end <= now
        BY <2>0
      <4>3. sub.end <= now
        BY <1>0, <2>0, <2>2, <3>2, <4>2, RenewingMoves DEF PaidIsServed
      <4>4. pc'[v] = "charge" => req'[v].topup # NoTopup
        <5>1. pc'[v] = "charge" => pc[v] = "current"
          BY <1>0, <2>2, <3>2, RenewingMoves
        <5>2. pc[v] = "current" => req[v].event = "completed" /\ req[v].topup # NoTopup
          BY BillingAssumption DEF DeliveriesPaid
        <5>3. pc'[v] = "charge" => req'[v].topup = req[v].topup
          BY <1>0, <2>2, <3>2, KeepsTopup
        <5> QED
          BY <5>1, <5>2, <5>3
      <4>5. pc'[v] \in {"afford", "affordNew", "debitRead", "debitCommit", "extend"} =>
              req'[v].end = sub.end /\ req'[v].end <= req'[v].at
        BY <1>0, <2>0, <2>2, <3>2, <4>3, ChargeMoves
      <4> QED
        BY <4>1, <4>3, <4>4, <4>5
    <3>3. CASE pc'[v] \notin Renewing
      BY <3>3 DEF Renewing
    <3> QED
      BY <3>1, <3>2, <3>3
  <2>3. ASSUME NEW w \in Workers, Subscribe(w) \/ ShowWallet(w) \/ \E t \in Topups : Webhook(w, t)
        PROVE  Fine(v)'
    <3>1. \E label \in {"insert", "mark", "showNew"} : \E r : Begin(w, label, r)
      BY <2>3 DEF Subscribe, ShowWallet, Webhook
    <3>2. pc'[v] \in {"insert", "mark", "showNew", "idle"}
      BY <1>0, <1>2, <3>1, BeginIsLocal
    <3> QED
      BY <3>2 DEF Renewing
  <2>4. ASSUME NEW w \in Workers, Tick(w) PROVE Fine(v)'
    <3> DEFINE r == [NoRequest EXCEPT !.at = now, !.due = sub.end]
    <3>1. r.at = now
      BY DEF NoRequest
    <3>2. \E label \in {"charge", "suspend"} : Begin(w, label, r)
      BY <2>4 DEF Tick
    <3>3. sub' = sub /\ now' = now
      BY <2>4 DEF Tick
    <3>4. sub.end <= now
      BY <2>0, <2>4 DEF Tick, PeriodOver, GraceOver, OnlyDueIsRenewed, PaidIsServed
    <3> HIDE DEF r
    <3>5. CASE v # w
      BY <1>0, <1>2, <2>1, <3>2, <3>5, BeginIsLocal
    <3>6. CASE v = w
      <4>1. pc'[v] \in {"charge", "suspend"} /\ req'[v] = r
        BY <1>0, <3>2, <3>6, BeginIsLocal
      <4> QED
        BY <3>1, <3>3, <3>4, <4>1
    <3> QED
      BY <3>5, <3>6
  <2>5. CASE UNCHANGED <<pc, req, sub>>
    <3>1. pc'[v] \in Renewing => sub'.end <= now'
      BY <1>0, <2>0, <2>5
    <3> QED
      BY <2>0, <2>5, <3>1
  <2> QED
    BY <2>2, <2>3, <2>4, <2>5, Kinds
<1> QED
  BY <1>1, <1>2 DEF OnlyDueIsRenewed


-----------------------------------------------------------------------------
(* Charges and the time they buy *)

LEMMA ChargesFinite ==
  ASSUME RowsOK
  PROVE  Cardinality(Charges) \in Nat /\ IsFiniteSet(Charges) /\ Charges \subseteq 1..Len(ledger)
<1>1. Len(ledger) \in Nat
  BY DEF RowsOK
<1>2. IsFiniteSet(1..Len(ledger)) /\ Charges \subseteq 1..Len(ledger)
  BY <1>1, FS_Interval DEF Charges
<1> QED
  BY <1>2, FS_Subset, FS_CardinalityType

\* A row that takes nothing is no charge; a row that does is one more.
LEMMA ChargesGrow ==
  ASSUME RowsOK, NEW r \in Rows, ledger' = Append(ledger, r)
  PROVE  /\ r.amount >= 0 => Charges' = Charges
         /\ r.amount < 0 => Cardinality(Charges') = Cardinality(Charges) + 1
<1>1. /\ Len(ledger) \in Nat /\ Len(ledger') = Len(ledger) + 1
      /\ \A i \in 1..Len(ledger) : ledger'[i] = ledger[i]
      /\ ledger'[Len(ledger) + 1] = r
  BY RowsKept DEF RowsOK
<1>2. \A i : i \in 1..Len(ledger') <=> i \in 1..Len(ledger) \/ i = Len(ledger) + 1
  BY <1>1
<1>3. r.amount >= 0 => Charges' = Charges
  <2>1. r.amount \in Int
    BY DEF Rows
  <2>2. ASSUME r.amount >= 0, NEW i PROVE i \in Charges' <=> i \in Charges
    BY <1>1, <1>2, <2>1, <2>2 DEF Charges
  <2> QED
    BY <2>2
<1>4. r.amount < 0 => Charges' = Charges \cup {Len(ledger) + 1} /\ Len(ledger) + 1 \notin Charges
  <2>1. ASSUME r.amount < 0, NEW i PROVE i \in Charges' <=> i \in Charges \/ i = Len(ledger) + 1
    BY <1>1, <1>2, <2>1 DEF Charges
  <2>2. Len(ledger) + 1 \notin Charges
    BY <1>1 DEF Charges
  <2> QED
    BY <2>1, <2>2
<1> QED
  BY <1>3, <1>4, ChargesFinite, FS_AddElement

\* Only the commit of a debit adds a charge.
LEMMA OnlyDebitsCharge ==
  ASSUME TypeOK, WalletRead, [Next]_vars
  PROVE  \/ Charges' = Charges
         \/ /\ Cardinality(Charges') = Cardinality(Charges) + 1
            /\ \E w \in Workers : DebitCommit(w) /\ pc'[w] = "extend"
<1>0. RequestsOK /\ RowsOK
  BY TypeHalves
<1>1. CASE UNCHANGED <<ledger, balance>>
  BY <1>1 DEF Charges
<1>2. ASSUME NEW w \in Workers, TrialRow(w) PROVE Charges' = Charges
  <2> DEFINE r == [amount |-> 0, after |-> req[w].wallet, topup |-> NoTopup, name |-> "none"]
  <2>1. r \in Rows /\ r.amount = 0
    BY <1>0, RequestFields DEF Rows, Refs, RefNames
  <2>2. ledger' = Append(ledger, r)
    BY <1>2 DEF TrialRow
  <2> HIDE DEF r
  <2> QED
    BY <1>0, <2>1, <2>2, ChargesGrow
<1>3. ASSUME NEW w \in Workers, CreditCommit(w) PROVE Charges' = Charges
  <2> DEFINE r == [amount |-> CreditAmount(w), after |-> req[w].wallet + CreditAmount(w), topup |-> req[w].topup, name |-> req[w].name]
  <2>1. r \in Rows /\ r.amount >= 0
    BY <1>0, <1>3, RequestFields, BillingAssumption DEF Rows, Refs, RefNames, CreditCommit, CreditAmount
  <2>2. ledger' = ledger \/ ledger' = Append(ledger, r)
    BY <1>3 DEF CreditCommit, CommitEntry
  <2> HIDE DEF r
  <2>3. CASE ledger' = ledger
    BY <2>3 DEF Charges
  <2> QED
    BY <1>0, <2>1, <2>2, <2>3, ChargesGrow
<1>4. ASSUME NEW w \in Workers, DebitCommit(w)
      PROVE  \/ Charges' = Charges
             \/ Cardinality(Charges') = Cardinality(Charges) + 1 /\ pc'[w] = "extend"
  <2> DEFINE r == [amount |-> -Price, after |-> req[w].wallet + (-Price), topup |-> NoTopup, name |-> "none"]
  <2>1. r \in Rows /\ r.amount < 0
    BY <1>0, <1>4, RequestFields, BillingAssumption DEF Rows, Refs, RefNames, DebitCommit, CommitEntry, WalletRead
  <2>2. ledger' = ledger \/ (ledger' = Append(ledger, r) /\ Goto(w, "extend"))
    BY <1>4 DEF DebitCommit, CommitEntry
  <2> HIDE DEF r
  <2>3. CASE ledger' = ledger
    BY <2>3 DEF Charges
  <2> QED
    BY <1>0, <2>1, <2>2, <2>3, ChargesGrow, GotoMoves
<1> QED
  BY <1>1, <1>2, <1>3, <1>4, LedgerWriters

LEMMA NoChargeStep == TypeOK /\ WalletRead /\ NoChargeYet /\ [Next]_vars => NoChargeYet'
<1> SUFFICES ASSUME TypeOK, WalletRead, NoChargeYet, [Next]_vars, sub'.status = "none"
             PROVE  Charges' = {} /\ \A w \in Workers : pc'[w] \notin Renewing
  BY DEF NoChargeYet
<1>0. RequestsOK /\ RowsOK
  BY TypeHalves
<1>1. sub' = sub
  BY <1>0, SubWriters, SubWritten
<1>2. Charges = {} /\ \A w \in Workers : pc[w] \notin Renewing
  BY <1>1 DEF NoChargeYet
<1>3. Charges' = {}
  <2>1. ASSUME NEW w \in Workers, DebitCommit(w) PROVE pc[w] \in Renewing
    BY <2>1 DEF DebitCommit, CommitEntry, Renewing
  <2> QED
    BY <1>2, <2>1, OnlyDebitsCharge
<1>4. ASSUME NEW w \in Workers, Step(w) \/ Abort(w), NEW v \in Workers PROVE pc'[v] \notin Renewing
  BY <1>0, <1>1, <1>2, <1>4, StepIsLocal, RenewingMoves
<1>5. ASSUME NEW w \in Workers, Subscribe(w) \/ ShowWallet(w) \/ \E t \in Topups : Webhook(w, t),
             NEW v \in Workers
      PROVE  pc'[v] \notin Renewing
  <2>1. \E label \in {"insert", "mark", "showNew"} : \E r : Begin(w, label, r)
    BY <1>5 DEF Subscribe, ShowWallet, Webhook
  <2>2. pc'[v] \in {"insert", "mark", "showNew"} \/ pc'[v] = pc[v]
    BY <1>0, <2>1, BeginIsLocal
  <2> QED
    BY <1>2, <2>2 DEF Renewing
<1>6. ASSUME NEW w \in Workers, Tick(w) PROVE FALSE
  BY <1>1, <1>6 DEF Tick, PeriodOver, GraceOver
<1> QED
  BY <1>2, <1>3, <1>4, <1>5, <1>6, Kinds

\* A request is about to write the new period only after the commit of its debit.
LEMMA ExtendMoves ==
  ASSUME RequestsOK, NEW w \in Workers, Step(w) \/ Abort(w)
  PROVE  /\ pc'[w] = "extend" => DebitCommit(w)
         /\ pc[w] = "extend" => Extend(w) \/ Abort(w)
<1> USE DEF RequestsOK
<1>1. CASE InsertTrial(w)
  BY <1>1 DEF InsertTrial, Goto, Return
<1>2. CASE TrialWallet(w)
  BY <1>2 DEF TrialWallet, Goto
<1>3. CASE TrialRow(w)
  BY <1>3 DEF TrialRow, Goto, Return
<1>4. CASE Mark(w)
  BY <1>4 DEF Mark, Marked, Goto, Return
<1>5. CASE FindDuplicate(w)
  BY <1>5 DEF FindDuplicate, IsDuplicate, Goto
<1>6. CASE CreditRead(w)
  BY <1>6 DEF CreditRead, ReadWallet, Covered, Goto, Return, CreditAmount
<1>7. CASE CreditCommit(w)
  BY <1>7 DEF CreditCommit, CommitEntry, Throw, EndsHere, Goto, CreditAmount
<1>8. CASE Current(w)
  BY <1>8 DEF Current, Revivable, Goto, Return
<1>9. CASE Charge(w)
  BY <1>9 DEF Charge, Goto
<1>10. CASE Afford(w)
  BY <1>10 DEF Afford, Goto, Return
<1>11. CASE DebitRead(w)
  BY <1>11 DEF DebitRead, ReadWallet, Covered, Goto, Return
<1>12. CASE DebitCommit(w)
  BY <1>12 DEF DebitCommit, CommitEntry, Throw, EndsHere, Goto
<1>13. CASE Extend(w)
  BY <1>13 DEF Extend, Anchor, Goto, Return
<1>14. CASE ToGrace(w)
  BY <1>14 DEF ToGrace, Goto, Return
<1>15. CASE Suspend(w)
  BY <1>15 DEF Suspend, Goto, Return
<1>16. CASE Abort(w)
  BY <1>16 DEF Abort, EndsHere
<1>17. CASE NewWallets(w)
  BY <1>17 DEF NewWallets, NewWallet, Throw, EndsHere, Goto
<1> QED
  BY <1>1, <1>2, <1>3, <1>4, <1>5, <1>6, <1>7, <1>8, <1>9, <1>10, <1>11, <1>12, <1>13, <1>14, <1>15, <1>16, <1>17
     DEF Step, NewWallets

\* One period more for one charge more.
LEMMA OneMore ==
  ASSUME NEW n \in Nat
  PROVE  Period * (n + 1) = Period * n + Period /\ Period * n \in Nat
  BY BillingAssumption

\* A debit that goes on has charged.
LEMMA DebitCharges ==
  ASSUME RequestsOK, RowsOK, WalletRead, NEW w \in Workers, DebitCommit(w), pc'[w] = "extend"
  PROVE  Cardinality(Charges') = Cardinality(Charges) + 1
<1> DEFINE r == [amount |-> -Price, after |-> req[w].wallet + (-Price), topup |-> NoTopup, name |-> "none"]
<1>1. r \in Rows /\ r.amount < 0
  BY RequestFields, BillingAssumption DEF Rows, Refs, RefNames, DebitCommit, CommitEntry, WalletRead
<1>2. Throw(w) => pc'[w] = "idle"
  BY DEF Throw, EndsHere, RequestsOK
<1>3. ledger' = Append(ledger, r)
  BY <1>2 DEF DebitCommit, CommitEntry
<1> HIDE DEF r
<1> QED
  BY <1>1, <1>3, ChargesGrow

\* How many periods have been paid for and not served, as far as requests say.
Owed(missed) ==
  sub.end + Period * missed + (IF \E w \in Workers : pc[w] = "extend" THEN Period ELSE 0)
    = sub.trialEnd + Period * Cardinality(Charges)

LEMMA PaidStepInduction ==
  TypeOK /\ Alone /\ WalletRead /\ NoChargeYet /\ OnlyDueIsRenewed /\ PaidSoFar /\ [Next]_vars => PaidSoFar'
<1> SUFFICES ASSUME TypeOK, Alone, WalletRead, NoChargeYet, OnlyDueIsRenewed, PaidSoFar, [Next]_vars,
                    ~overlapped', sub'.status # "none"
             PROVE  \E missed \in 0..aborts' : Owed(missed)'
  BY DEF PaidSoFar, Owed
<1>0. /\ RequestsOK /\ RowsOK /\ ~overlapped
      /\ sub.end \in Nat /\ sub.trialEnd \in Nat /\ Period \in Nat
      /\ Cardinality(Charges) \in Nat /\ aborts \in Nat
  BY TypeHalves, OverlapStays, SubscriptionFields, ChargesFinite, BillingAssumption DEF RequestsOK
<1>1. sub.status # "none" => \E missed \in 0..aborts : Owed(missed)
  BY <1>0 DEF PaidSoFar, Owed
<1>2. aborts' = aborts \/ ((\E w \in Workers : Abort(w)) /\ aborts' = aborts + 1)
  <2>1. ASSUME NEW w \in Workers, Step(w) PROVE aborts' = aborts
    BY <2>1 DEF Step, NewWallet, InsertTrial, TrialWallet, TrialRow, Mark, FindDuplicate, CreditRead,
                CreditCommit, ReadWallet, CommitEntry, Current, Charge, Afford, DebitRead, DebitCommit,
                Extend, ToGrace, Suspend, Goto, Return, Throw
  <2>2. ASSUME NEW w \in Workers, Abort(w) PROVE aborts' = aborts + 1
    BY <2>2 DEF Abort
  <2> QED
    BY <2>1, <2>2, Kinds, Entries
<1>3. ASSUME NEW w \in Workers, InsertTrial(w), sub.status = "none"
      PROVE  \E missed \in 0..aborts' : Owed(missed)'
  <2>1. Charges = {} /\ \A v \in Workers : pc[v] \notin Renewing
    BY <1>3 DEF NoChargeYet
  <2>2. Charges' = Charges
    BY <1>3 DEF InsertTrial, Charges
  <2>3. sub'.end = sub'.trialEnd /\ sub'.end \in Nat
    BY <1>0, <1>3, RequestFields, BillingAssumption DEF InsertTrial
  <2>4. \A v \in Workers : pc'[v] # "extend"
    BY <1>0, <1>3, <2>1, StepIsLocal, ExtendMoves DEF Step, InsertTrial, DebitCommit, CommitEntry, Renewing
  <2>5. Cardinality(Charges') = 0
    BY <2>1, <2>2, FS_EmptySet
  <2>6. Period * 0 = 0 /\ 0 \in 0..aborts'
    BY <1>0, <1>2
  <2>7. Owed(0)'
    BY <2>3, <2>4, <2>5, <2>6 DEF Owed
  <2> QED
    BY <2>6, <2>7
<1>4. ASSUME NEW w \in Workers, Extend(w)
      PROVE  \E missed \in 0..aborts' : Owed(missed)'
  <2>1. pc[w] = "extend" /\ Charges' = Charges
    BY <1>4 DEF Extend, Charges
  <2>2. \A v \in Workers : pc'[v] # "extend"
    <3>1. pc'[w] = "idle"
      BY <1>0, <1>4, ReturnMoves DEF Extend
    <3>2. Step(w)
      BY <1>4 DEF Step
    <3> QED
      BY <1>0, <3>1, <3>2, OthersIdle
  <2>3. sub.status # "none"
    BY <2>1 DEF NoChargeYet, Renewing
  <2>4. PICK missed \in 0..aborts : Owed(missed)
    BY <1>1, <2>3
  <2>5. Anchor(w) = sub.end
    <3>1. req[w].end = sub.end /\ req[w].end <= req[w].at
      BY <1>0, <2>1 DEF OnlyDueIsRenewed
    <3>2. req[w].end \in Nat /\ req[w].at \in Nat
      BY <1>0, RequestFields
    <3> QED
      BY <3>1, <3>2 DEF Anchor
  <2>6. sub'.end = sub.end + Period /\ sub'.trialEnd = sub.trialEnd
    BY <1>0, <1>4, <2>5, SubWritten
  <2>7. sub.end + Period * missed + Period = sub.trialEnd + Period * Cardinality(Charges)
    BY <2>1, <2>4 DEF Owed
  <2>8. Period * missed \in Nat /\ missed \in 0..aborts'
    BY <1>0, <1>2, OneMore
  <2>9. sub'.end + Period * missed + 0 = sub'.trialEnd + Period * Cardinality(Charges')
    BY <1>0, <2>1, <2>6, <2>7, <2>8
  <2>10. Owed(missed)'
    BY <2>2, <2>9 DEF Owed
  <2> QED
    BY <2>8, <2>10
<1>5. ASSUME NEW w \in Workers, DebitCommit(w), pc'[w] = "extend",
             Cardinality(Charges') = Cardinality(Charges) + 1
      PROVE  \E missed \in 0..aborts' : Owed(missed)'
  <2>1. pc[w] = "debitCommit" /\ sub' = sub
    BY <1>5 DEF DebitCommit, CommitEntry
  <2>2. \A v \in Workers : pc[v] # "extend"
    <3>1. Step(w)
      BY <1>5 DEF Step
    <3> QED
      BY <1>0, <2>1, <3>1, OthersIdle
  <2>3. PICK missed \in 0..aborts : Owed(missed)
    BY <1>1, <2>1
  <2>4. Period * Cardinality(Charges') = Period * Cardinality(Charges) + Period
    BY <1>0, <1>5, OneMore
  <2>5. Period * Cardinality(Charges) \in Nat /\ Period * missed \in Nat /\ missed \in 0..aborts'
    BY <1>0, <1>2, OneMore
  <2>6. sub.end + Period * missed + 0 = sub.trialEnd + Period * Cardinality(Charges)
    BY <2>2, <2>3 DEF Owed
  <2>7. sub'.end + Period * missed + Period = sub'.trialEnd + Period * Cardinality(Charges')
    BY <1>0, <2>1, <2>4, <2>5, <2>6
  <2>8. Owed(missed)'
    BY <1>5, <2>7 DEF Owed
  <2> QED
    BY <2>5, <2>8
<1>6. CASE /\ sub'.end = sub.end /\ sub'.trialEnd = sub.trialEnd /\ sub.status # "none"
           /\ Charges' = Charges
           /\ \A w \in Workers : ~Extend(w) /\ (pc'[w] = "extend" => pc[w] = "extend")
  <2>0. PICK missed \in 0..aborts : Owed(missed)
    BY <1>1, <1>6
  <2>1. Period * missed \in Nat /\ missed \in 0..aborts' /\ Period * Cardinality(Charges) \in Nat
    BY <1>0, <1>2, OneMore
  <2>2. CASE (\E v \in Workers : pc'[v] = "extend") <=> (\E v \in Workers : pc[v] = "extend")
    <3>1. Owed(missed)'
      BY <1>6, <2>0, <2>2 DEF Owed
    <3> QED
      BY <2>1, <3>1
  <2>3. ASSUME NEW v \in Workers, pc[v] = "extend", \A u \in Workers : pc'[u] # "extend"
        PROVE  \E m \in 0..aborts' : Owed(m)'
    <3>1. \E w \in Workers : Abort(w)
      <4>1. ASSUME NEW w \in Workers, Subscribe(w) \/ ShowWallet(w) \/ Tick(w) \/ \E t \in Topups : Webhook(w, t)
            PROVE  FALSE
        BY <1>0, <2>3, <4>1, Entries, BeginIsLocal
      <4>2. ASSUME NEW w \in Workers, Step(w) PROVE Abort(w)
        <5>1. w = v
          BY <1>0, <2>3, <4>2, StepIsLocal
        <5> QED
          BY <1>0, <1>6, <2>3, <4>2, <5>1, ExtendMoves
      <4>3. pc' # pc
        BY <2>3
      <4> QED
        BY <4>1, <4>2, <4>3, Kinds
    <3>2. aborts' = aborts + 1
      BY <3>1 DEF Abort
    <3>3. missed + 1 \in 0..aborts' /\ Period * (missed + 1) = Period * missed + Period
      BY <1>0, <3>2, OneMore
    <3>4. sub.end + Period * missed + Period = sub.trialEnd + Period * Cardinality(Charges)
      BY <2>0, <2>3 DEF Owed
    <3>5. sub'.end + Period * (missed + 1) + 0 = sub'.trialEnd + Period * Cardinality(Charges')
      BY <1>0, <1>6, <2>1, <3>3, <3>4
    <3>6. Owed(missed + 1)'
      BY <2>3, <3>5 DEF Owed
    <3> QED
      BY <3>3, <3>6
  <2> QED
    BY <1>6, <2>2, <2>3
<1>7. ASSUME \A w \in Workers : ~Extend(w)
      PROVE  \/ sub'.end = sub.end /\ sub'.trialEnd = sub.trialEnd /\ sub.status # "none"
             \/ \E w \in Workers : InsertTrial(w) /\ sub.status = "none"
  <2>1. CASE sub' = sub
    BY <2>1
  <2>2. ASSUME NEW w \in Workers, InsertTrial(w) PROVE sub' = sub \/ sub.status = "none"
    BY <2>2 DEF InsertTrial
  <2>3. ASSUME NEW w \in Workers, ToGrace(w) \/ Suspend(w)
        PROVE  sub'.end = sub.end /\ sub'.trialEnd = sub.trialEnd /\ sub.status # "none"
    <3>1. pc[w] \in Renewing
      BY <2>3 DEF ToGrace, Suspend, Renewing
    <3> QED
      BY <1>0, <2>3, <3>1, SubWritten DEF NoChargeYet
  <2> QED
    BY <1>7, <2>1, <2>2, <2>3, SubWriters
<1>8. CASE Charges' = Charges
  <2>1. ASSUME NEW w \in Workers, pc'[w] = "extend" PROVE pc[w] = "extend"
    <3>1. ASSUME NEW v \in Workers, Subscribe(v) \/ ShowWallet(v) \/ Tick(v) \/ \E t \in Topups : Webhook(v, t)
          PROVE  pc[w] = "extend"
      <4>1. \E label \in {"insert", "charge", "suspend", "mark", "showNew"} : \E r : Begin(v, label, r)
        BY <3>1 DEF Subscribe, ShowWallet, Tick, Webhook
      <4> QED
        BY <1>0, <2>1, <4>1, BeginIsLocal
    <3>2. ASSUME NEW v \in Workers, Step(v) \/ Abort(v), v # w PROVE pc[w] = "extend"
      BY <1>0, <2>1, <3>2, StepIsLocal
    <3>3. ASSUME Step(w) \/ Abort(w) PROVE FALSE
      <4>1. DebitCommit(w)
        BY <1>0, <2>1, <3>3, ExtendMoves
      <4>2. Cardinality(Charges') = Cardinality(Charges) + 1
        BY <1>0, <2>1, <4>1, DebitCharges
      <4> QED
        BY <1>0, <1>8, <4>2
    <3> QED
      BY <2>1, <3>1, <3>2, <3>3, Kinds
  <2> QED
    BY <1>3, <1>4, <1>6, <1>7, <1>8, <2>1
<1> QED
  BY <1>5, <1>8, OnlyDebitsCharge

-----------------------------------------------------------------------------
(* The theorems *)

LEMMA InvInit == Init => BillingInv
<1> SUFFICES ASSUME Init PROVE BillingInv
  OBVIOUS
<1>1. TypeOK
  BY TypeInit
<1>2. /\ balance = 0 /\ ledger = <<>> /\ sub.status = "none" /\ overlapped = FALSE
      /\ \A w \in Workers : pc[w] = "idle" /\ req[w].event = "other"
  BY DEF Init, NoRequest
<1>3. Charges = {} /\ Len(ledger) = 0
  BY <1>2 DEF Charges
<1>4. Alone /\ DeliveriesPaid /\ WalletRead /\ CreditedOnce /\ PaidSoFar /\ PaidIsServed
  BY <1>2, <1>3 DEF Alone, DeliveriesPaid, WalletRead, CreditedOnce, PaidSoFar, PaidIsServed
<1>5. NoChargeYet /\ OnlyDueIsRenewed
  BY <1>2, <1>3 DEF NoChargeYet, OnlyDueIsRenewed, Renewing
<1>6. LedgerExplainsBalance
  BY <1>2, <1>3 DEF LedgerExplainsBalance, Before
<1> QED
  BY <1>1, <1>4, <1>5, <1>6 DEF BillingInv

LEMMA InvStep == BillingInv /\ [Next]_vars => BillingInv'
  BY TypeStep, AloneStep, PaidStep, WalletStep, NoChargeStep, DueStep, CreditStep, LedgerStep,
     PaidStepInduction, ServedStep DEF BillingInv

\* The inductive invariant of the billing service: it holds for any requests that
\* interleave, overlap or are cut off at any await.
THEOREM BillingInvariant == Spec => []BillingInv
<1>1. Init => BillingInv
  BY InvInit
<1>2. BillingInv /\ [Next]_vars => BillingInv'
  BY InvStep
<1> QED
  BY <1>1, <1>2, PTL DEF Spec

\* The wallet is never overdrawn, overlapping debits included.
THEOREM OverdrawnCorrect == Spec => []NeverOverdrawn
<1>1. BillingInv => NeverOverdrawn
  BY DEF BillingInv, TypeOK, NeverOverdrawn
<1> QED
  BY <1>1, BillingInvariant, PTL

\* A payment is credited at most once under each of its two names, and only if the
\* customer has paid.
THEOREM CreditCorrect == Spec => []CreditedOnce
<1>1. BillingInv => CreditedOnce
  BY DEF BillingInv
<1> QED
  BY <1>1, BillingInvariant, PTL

\* While requests do not overlap, the ledger is a running sum that ends in the balance.
THEOREM LedgerCorrect == Spec => []LedgerExplainsBalance
<1>1. BillingInv => LedgerExplainsBalance
  BY DEF BillingInv
<1> QED
  BY <1>1, BillingInvariant, PTL

\* While requests do not overlap, every charge buys one whole period that follows the
\* one before, except that each request cut off can have cost one.
THEOREM PaidTimeCorrect == Spec => []PaidTime
<1>1. BillingInv => PaidTime
  <2> SUFFICES ASSUME BillingInv, ~overlapped, sub.status # "none", \A w \in Workers : pc[w] # "extend"
               PROVE  \E missed \in 0..aborts :
                        sub.end + Period * missed = sub.trialEnd + Period * Cardinality(Charges)
    BY DEF PaidTime
  <2>1. PICK missed \in 0..aborts : Owed(missed)
    BY DEF BillingInv, PaidSoFar, Owed
  <2>2. sub.end + Period * missed + 0 = sub.trialEnd + Period * Cardinality(Charges)
    BY <2>1 DEF Owed
  <2>3. sub.end \in Nat /\ missed \in Nat
    BY TypeHalves, SubscriptionFields DEF BillingInv
  <2>4. Period * missed \in Nat
    BY <2>3, OneMore
  <2> QED
    BY <2>2, <2>3, <2>4
<1> QED
  BY <1>1, BillingInvariant, PTL

\* While requests do not overlap, nobody loses service that is paid for.
THEOREM ServiceCorrect == Spec => []PaidIsServed
<1>1. BillingInv => PaidIsServed
  BY DEF BillingInv
<1> QED
  BY <1>1, BillingInvariant, PTL
-----------------------------------------------------------------------------
(* Succeeded attempts are credited *)

\* The payment of t has its credit, a delivery is about to make it, or one was cut off.
Explained(t) == Credited(t) \/ t \in cut \/ \E w \in Workers : Crediting(w, t)

\* A delivery of an unknown event, which writes back the status it has read, has
\* read "succeeded" only where this was so: what SucceededIsCredited needs to be
\* inductive.
SeenIsExplained ==
  \A w \in Workers :
    pc[w] = "mark" /\ req[w].seen = "succeeded" => req[w].topup \in Topups /\ Explained(req[w].topup)

LEMMA CreditedStays ==
  ASSUME TypeOK, WalletRead, [Next]_vars, NEW t, Credited(t)
  PROVE  Credited(t)'
<1>0. RequestsOK /\ RowsOK
  BY TypeHalves
<1>1. ASSUME NEW r \in Rows, ledger' = Append(ledger, r) PROVE Credited(t)'
  BY <1>0, <1>1, RowsKept DEF RowsOK, Credited
<1>2. CASE UNCHANGED ledger
  BY <1>2 DEF Credited
<1>3. ASSUME NEW w \in Workers, TrialRow(w) PROVE Credited(t)'
  <2>1. [amount |-> 0, after |-> req[w].wallet, topup |-> NoTopup, name |-> "none"] \in Rows
    BY <1>0, RequestFields DEF Rows, Refs, RefNames
  <2> QED
    BY <2>1, <1>1, <1>3 DEF TrialRow
<1>4. ASSUME NEW w \in Workers, CreditCommit(w) PROVE Credited(t)'
  <2>1. CASE UNCHANGED ledger
    BY <2>1, <1>2
  <2>2. CASE ledger' = Append(ledger, [amount |-> CreditAmount(w), after |-> req[w].wallet + CreditAmount(w),
                                       topup |-> req[w].topup, name |-> req[w].name])
    <3>1. /\ req[w].topup \in Topups /\ req[w].name \in RefNames
          /\ CreditAmount(w) \in Nat /\ req[w].wallet \in Nat
      BY <1>0, <1>4, RequestFields, BillingAssumption DEF CreditCommit, CreditAmount
    <3>2. [amount |-> CreditAmount(w), after |-> req[w].wallet + CreditAmount(w),
           topup |-> req[w].topup, name |-> req[w].name] \in Rows
      BY <3>1 DEF Rows, Refs, RefNames
    <3> QED
      BY <3>2, <2>2, <1>1
  <2> QED
    BY <2>1, <2>2, <1>4 DEF CreditCommit, CommitEntry
<1>5. ASSUME NEW w \in Workers, DebitCommit(w) PROVE Credited(t)'
  <2>1. CASE UNCHANGED ledger
    BY <2>1, <1>2
  <2>2. CASE ledger' = Append(ledger, [amount |-> -Price, after |-> req[w].wallet + (-Price), topup |-> NoTopup, name |-> "none"])
    <3>1. req[w].wallet \in Nat /\ req[w].wallet >= Price /\ Price \in Nat
      BY <1>0, <1>5, RequestFields, BillingAssumption DEF DebitCommit, CommitEntry, WalletRead
    <3>2. req[w].wallet + (-Price) \in Nat /\ -Price \in Int
      BY <3>1
    <3>3. [amount |-> -Price, after |-> req[w].wallet + (-Price), topup |-> NoTopup, name |-> "none"] \in Rows
      BY <3>2 DEF Rows, Refs, RefNames
    <3> QED
      BY <3>3, <2>2, <1>1
  <2> QED
    BY <2>1, <2>2, <1>5 DEF DebitCommit, CommitEntry
<1> QED
  BY <1>2, <1>3, <1>4, <1>5, LedgerWriters

\* A delivery that is about to credit goes on until the credit is there, or throws.
LEMMA CreditingGoesOn ==
  ASSUME TypeOK, NEW w \in Workers, NEW t \in Topups, Crediting(w, t), Step(w)
  PROVE  Crediting(w, t)' \/ Credited(t)' \/ Credited(t) \/ t \in cut'
<1>0. /\ RequestsOK /\ RowsOK /\ balance \in Nat
      /\ req[w].topup = t /\ pc[w] \in {"dup", "creditRead", "creditCommit"}
  BY TypeHalves DEF RowsOK, Crediting
<1>1. CASE FindDuplicate(w)
  BY <1>0, <1>1, GotoMoves DEF FindDuplicate, IsDuplicate, CreditedAs, Credited, Crediting
<1>2. CASE CreditRead(w)
  <2>1. Covered(CreditAmount(w))
    <3>1. CreditAmount(w) \in Nat
      BY <1>2, BillingAssumption DEF CreditRead, CreditAmount
    <3> QED
      BY <1>0, <3>1 DEF Covered
  <2>2. req' = [req EXCEPT ![w].wallet = balance, ![w].creates = ~wallet] /\ Goto(w, "creditCommit")
    BY <2>1, <1>2 DEF CreditRead, ReadWallet
  <2>3. req'[w].topup = req[w].topup
    BY <1>0, <2>2 DEF RequestsOK, Requests
  <2> QED
    BY <1>0, <2>2, <2>3, GotoMoves DEF Crediting
<1>3. CASE CreditCommit(w)
  <2>1. CASE Throw(w)
    BY <1>0, <2>1 DEF Throw, EndsHere, Crediting
  <2>2. CASE ~Throw(w)
    <3> DEFINE r == [amount |-> CreditAmount(w), after |-> req[w].wallet + CreditAmount(w), topup |-> t, name |-> req[w].name]
    <3>1. ledger' = Append(ledger, r)
      BY <1>0, <1>3, <2>2 DEF CreditCommit, CommitEntry
    <3>2. r \in Rows
      <4>1. CreditAmount(w) \in Nat /\ req[w].wallet \in Nat /\ req[w].name \in RefNames
        BY <1>0, <1>3, RequestFields, BillingAssumption DEF CreditCommit, CreditAmount
      <4> QED
        BY <1>0, <1>3, <4>1 DEF CreditCommit, Rows, Refs
    <3>3. r.topup = t
      OBVIOUS
    <3> HIDE DEF r
    <3>4. Len(ledger') = Len(ledger) + 1 /\ Len(ledger) \in Nat /\ ledger'[Len(ledger) + 1] = r
      BY <1>0, <3>1, <3>2, RowsKept DEF RowsOK
    <3>5. Len(ledger) + 1 \in 1..Len(ledger') /\ ledger'[Len(ledger) + 1].topup = t
      BY <3>3, <3>4
    <3> QED
      BY <3>5 DEF Credited
  <2> QED
    BY <2>1, <2>2
<1> QED
  BY <1>0, <1>1, <1>2, <1>3
     DEF Step, NewWallet, InsertTrial, TrialWallet, TrialRow, Mark, Current, Charge, Afford, DebitRead,
         ReadWallet, DebitCommit, CommitEntry, Extend, ToGrace, Suspend

\* Of a request in progress only its own steps decide, or it is cut off.
LEMMA Progress ==
  ASSUME TypeOK, [Next]_vars, NEW v \in Workers, pc[v] # "idle"
  PROVE  Step(v) \/ Abort(v) \/ (pc'[v] = pc[v] /\ req'[v] = req[v])
<1>0. RequestsOK
  BY TypeHalves
<1>1. ASSUME NEW w \in Workers, Subscribe(w) \/ ShowWallet(w) \/ Tick(w) \/ \E t \in Topups : Webhook(w, t)
      PROVE  pc'[v] = pc[v] /\ req'[v] = req[v]
  <2>1. PICK label, r : Begin(w, label, r)
    BY <1>1, Entries
  <2>2. v # w
    BY <2>1 DEF Begin
  <2> QED
    BY <1>0, <2>1, <2>2, BeginIsLocal
<1>2. ASSUME NEW w \in Workers, Step(w) \/ Abort(w)
      PROVE  Step(v) \/ Abort(v) \/ (pc'[v] = pc[v] /\ req'[v] = req[v])
  BY <1>0, <1>2, StepIsLocal
<1> QED
  BY <1>1, <1>2, Kinds

\* A cut is never forgotten.
LEMMA CutGrows ==
  ASSUME TypeOK, [Next]_vars
  PROVE  cut \subseteq cut'
<1>1. ASSUME NEW w \in Workers, Abort(w) PROVE cut \subseteq cut'
  BY <1>1 DEF Abort, EndsHere
<1>2. ASSUME NEW w \in Workers, Step(w) PROVE cut \subseteq cut'
  BY <1>2 DEF Step, NewWallet, InsertTrial, TrialWallet, TrialRow, Mark, FindDuplicate, CreditRead,
              CreditCommit, ReadWallet, CommitEntry, Current, Charge, Afford, DebitRead, DebitCommit,
              Extend, ToGrace, Suspend, Return, Goto, Throw, EndsHere
<1> QED
  BY <1>1, <1>2, Kinds, Entries

\* What is explained stays explained.
LEMMA ExplainedStays ==
  ASSUME TypeOK, WalletRead, [Next]_vars, NEW t \in Topups, Explained(t)
  PROVE  Explained(t)'
<1>1. CASE Credited(t)
  BY <1>1, CreditedStays DEF Explained
<1>2. CASE t \in cut
  BY <1>2, CutGrows DEF Explained
<1>3. ASSUME NEW w \in Workers, Crediting(w, t) PROVE Explained(t)'
  <2>1. CASE Step(w)
    BY <1>3, <2>1, CreditingGoesOn, CreditedStays DEF Explained
  <2>2. CASE pc'[w] = pc[w] /\ req'[w] = req[w]
    BY <1>3, <2>2 DEF Crediting, Explained
  <2>3. CASE Abort(w)
    BY <1>3, <2>3 DEF Abort, EndsHere, Explained
  <2> QED
    BY <1>3, <2>1, <2>2, <2>3, Progress DEF Crediting
<1> QED
  BY <1>1, <1>2, <1>3 DEF Explained

\* A request comes to "mark" only as a new delivery, which reads the status.
LEMMA MarksBegin ==
  ASSUME TypeOK, [Next]_vars, NEW w \in Workers, pc'[w] = "mark"
  PROVE  \/ pc[w] = "mark" /\ req'[w] = req[w]
         \/ /\ UNCHANGED attempt
            /\ req'[w].topup \in Topups /\ req'[w].seen = attempt[req'[w].topup]
<1>0. RequestsOK
  BY TypeHalves
<1>1. ASSUME NEW v \in Workers, Subscribe(v) \/ ShowWallet(v) \/ Tick(v)
      PROVE  pc[w] = "mark" /\ req'[w] = req[w]
  <2>1. PICK label \in {"insert", "charge", "suspend", "showNew"} : \E r : Begin(v, label, r)
    BY <1>1 DEF Subscribe, ShowWallet, Tick
  <2> QED
    BY <1>0, <2>1, BeginIsLocal
<1>2. ASSUME NEW v \in Workers, NEW t \in Topups, Webhook(v, t)
      PROVE  \/ pc[w] = "mark" /\ req'[w] = req[w]
             \/ /\ UNCHANGED attempt
                /\ req'[w].topup \in Topups /\ req'[w].seen = attempt[req'[w].topup]
  <2>1. PICK event \in Events, name \in RefNames :
          Begin(v, "mark", [NoRequest EXCEPT !.topup = t, !.name = name, !.event = event, !.seen = attempt[t]])
    BY <1>2, Deliveries
  <2>2. CASE v = w
    <3>1. req'[w] = [NoRequest EXCEPT !.topup = t, !.name = name, !.event = event, !.seen = attempt[t]]
      BY <1>0, <2>1, <2>2, BeginIsLocal
    <3>2. req'[w].topup = t /\ req'[w].seen = attempt[t]
      BY <3>1 DEF NoRequest
    <3> QED
      BY <3>2, <1>2 DEF Webhook
  <2>3. CASE v # w
    BY <1>0, <2>1, <2>3, BeginIsLocal
  <2> QED
    BY <2>2, <2>3
<1>3. ASSUME NEW v \in Workers, Step(v) \/ Abort(v)
      PROVE  pc[w] = "mark" /\ req'[w] = req[w]
  <2>1. v # w
    <3>1. ASSUME Step(w) \/ Abort(w) PROVE FALSE
      BY <1>0, <3>1 DEF RequestsOK, Step, Abort, NewWallet, Throw, EndsHere, InsertTrial, TrialWallet, TrialRow, Mark, FindDuplicate,
          CreditRead, CreditCommit, ReadWallet, CommitEntry, Current, Charge, Afford, DebitRead,
          DebitCommit, Extend, ToGrace, Suspend, Return, Goto
    <3> QED
      BY <3>1, <1>3
  <2> QED
    BY <1>0, <1>3, <2>1, StepIsLocal
<1>4. CASE UNCHANGED <<pc, req>>
  BY <1>4
<1> QED
  BY <1>1, <1>2, <1>3, <1>4, Kinds

\* A status becomes succeeded by a completed delivery, which then credits, or by one
\* that had read succeeded.
LEMMA SucceededBy ==
  ASSUME TypeOK, [Next]_vars, NEW t \in Topups, attempt'[t] = "succeeded", attempt[t] # "succeeded"
  PROVE  \E w \in Workers :
           /\ pc[w] = "mark" /\ req[w].topup = t
           /\ Crediting(w, t)' \/ req[w].seen = "succeeded"
<1>0. RequestsOK /\ RowsOK
  BY TypeHalves
<1>1. ASSUME NEW w \in Workers, Mark(w)
      PROVE  /\ pc[w] = "mark" /\ req[w].topup = t
             /\ Crediting(w, t)' \/ req[w].seen = "succeeded"
  <2>1. pc[w] = "mark" /\ attempt' = [attempt EXCEPT ![req[w].topup] = Marked(w)]
    BY <1>1 DEF Mark
  <2>2. req[w].topup = t /\ Marked(w) = "succeeded"
    BY <1>0, <2>1 DEF RowsOK
  <2>3. CASE req[w].event = "completed"
    <3>1. Goto(w, "dup") /\ UNCHANGED req
      BY <2>3, <1>1 DEF Mark
    <3> QED
      BY <1>0, <2>1, <2>2, <3>1, GotoMoves DEF Crediting
  <2>4. CASE req[w].event # "completed"
    BY <2>1, <2>2, <2>4 DEF Marked
  <2> QED
    BY <2>1, <2>2, <2>3, <2>4
<1>2. ASSUME NEW w \in Workers, Step(w) \/ Abort(w), ~Mark(w) PROVE UNCHANGED attempt
  BY <1>2 DEF Step, Abort, NewWallet, InsertTrial, TrialWallet, TrialRow, FindDuplicate, CreditRead, CreditCommit,
              ReadWallet, CommitEntry, Current, Charge, Afford, DebitRead, DebitCommit, Extend,
              ToGrace, Suspend
<1>3. ASSUME NEW u \in Topups, Topup(u) PROVE attempt'[t] # "succeeded"
  BY <1>0, <1>3 DEF Topup, RowsOK
<1>4. CASE UNCHANGED attempt
  BY <1>4
<1>5. ASSUME NEW u \in Topups,
             ProviderAccepts(u) \/ ProviderSettles(u) \/ SetProviderId(u) \/ UnknownAttempt(u)
      PROVE  FALSE
  BY <1>5 DEF ProviderAccepts, ProviderSettles, SetProviderId, UnknownAttempt
<1>6. CASE Clock
  BY <1>6 DEF Clock
<1>7. CASE UNCHANGED vars
  BY <1>7 DEF vars
<1> QED
  BY <1>1, <1>2, <1>3, <1>4, <1>5, <1>6, <1>7, Kinds, Entries

LEMMA SucceededStep ==
  TypeOK /\ WalletRead /\ SeenIsExplained /\ SucceededIsCredited /\ [Next]_vars
    => SeenIsExplained' /\ SucceededIsCredited'
<1> SUFFICES ASSUME TypeOK, WalletRead, SeenIsExplained, SucceededIsCredited, [Next]_vars
             PROVE  /\ \A w \in Workers :
                         pc'[w] = "mark" /\ req'[w].seen = "succeeded" =>
                           req'[w].topup \in Topups /\ Explained(req[w].topup)'
                    /\ \A t \in Topups : attempt'[t] = "succeeded" => Explained(t)'
  BY DEF SeenIsExplained, SucceededIsCredited, Explained
<1>1. \A t \in Topups : attempt[t] = "succeeded" => Explained(t)
  BY DEF SucceededIsCredited, Explained
<1>2. \A w \in Workers : pc[w] = "mark" /\ req[w].seen = "succeeded" =>
                           req[w].topup \in Topups /\ Explained(req[w].topup)
  BY DEF SeenIsExplained
<1>3. ASSUME NEW t \in Topups, Explained(t) PROVE Explained(t)'
  BY <1>3, ExplainedStays
<1>4. ASSUME NEW t \in Topups, attempt'[t] = "succeeded" PROVE Explained(t)'
  <2>1. CASE attempt[t] = "succeeded"
    BY <2>1, <1>1, <1>3
  <2>2. CASE attempt[t] # "succeeded"
    <3>1. PICK w \in Workers : /\ pc[w] = "mark" /\ req[w].topup = t
                               /\ Crediting(w, t)' \/ req[w].seen = "succeeded"
      BY <2>2, <1>4, SucceededBy
    <3>2. CASE Crediting(w, t)'
      BY <3>2 DEF Explained
    <3>3. CASE req[w].seen = "succeeded"
      BY <3>1, <3>3, <1>2, <1>3
    <3> QED
      BY <3>1, <3>2, <3>3
  <2> QED
    BY <2>1, <2>2
<1>5. ASSUME NEW w \in Workers, pc'[w] = "mark", req'[w].seen = "succeeded"
      PROVE  req'[w].topup \in Topups /\ Explained(req[w].topup)'
  <2>1. CASE pc[w] = "mark" /\ req'[w] = req[w]
    <3>1. Explained(req[w].topup) /\ req[w].topup \in Topups
      BY <2>1, <1>2, <1>5
    <3> DEFINE t == req[w].topup
    <3>2. Explained(t) /\ req'[w].topup = t /\ t \in Topups
      BY <2>1, <3>1
    <3> HIDE DEF t
    <3> QED
      BY <3>2, <1>3 DEF Explained, Credited, Crediting
  <2>2. CASE /\ UNCHANGED attempt
             /\ req'[w].topup \in Topups /\ req'[w].seen = attempt[req'[w].topup]
    <3> DEFINE t == req'[w].topup
    <3>1. Explained(t) /\ t \in Topups
      BY <2>2, <1>1, <1>5
    <3>2. t = req'[w].topup
      OBVIOUS
    <3> HIDE DEF t
    <3> QED
      BY <3>1, <3>2, <1>3 DEF Explained, Credited, Crediting
  <2> QED
    BY <2>1, <2>2, <1>5, MarksBegin
<1> QED
  BY <1>4, <1>5

LEMMA SucceededInit == Init => SeenIsExplained /\ SucceededIsCredited
  BY DEF Init, SeenIsExplained, SucceededIsCredited

\* A succeeded attempt has its credit, or a delivery that is about to make it or was
\* cut off before it did, in every order and overlap of deliveries.
THEOREM SucceededCorrect == Spec => []SucceededIsCredited
<1>1. Init => SeenIsExplained /\ SucceededIsCredited
  BY SucceededInit
<1>2. BillingInv /\ SeenIsExplained /\ SucceededIsCredited /\ [Next]_vars
        => SeenIsExplained' /\ SucceededIsCredited'
  BY SucceededStep DEF BillingInv
<1> QED
  BY <1>1, <1>2, BillingInvariant, PTL DEF Spec
=============================================================================
