------------------------------- MODULE Outbox -------------------------------
(***************************************************************************)
(* What the outbound pipeline promises about one user's mail, without any  *)
(* handler, tick, job or counter: the state machine drawn above            *)
(* EmailSender, with the rule that an attempt belongs to exactly one       *)
(* sender.  `phase` follows the attempt under way, `copies` and `unheard`  *)
(* count what the mail engine was given.  SendPipeline implements it.      *)
(***************************************************************************)
EXTENDS Naturals

CONSTANT Emails

VARIABLES
  state,    \* what the user sees of the row
  phase,    \* the attempt under way: "none", "trying", or "handed" over
  copies,   \* copies the engine accepted
  unheard   \* accepted copies the pipeline does not know of

vars == <<state, phase, copies, unheard>>

Startable == {"idle", "rate_limited", "failed"}

Init ==
  /\ state   = [e \in Emails |-> "none"]
  /\ phase   = [e \in Emails |-> "none"]
  /\ copies  = [e \in Emails |-> 0]
  /\ unheard = [e \in Emails |-> 0]

Compose(e) ==
  /\ state[e] = "none"
  /\ state' = [state EXCEPT ![e] = "idle"]
  /\ UNCHANGED <<phase, copies, unheard>>

\* The send budget is exhausted when the user sends.
Postpone(e) ==
  /\ state[e] = "idle"
  /\ state' = [state EXCEPT ![e] = "rate_limited"]
  /\ UNCHANGED <<phase, copies, unheard>>

\* One sender takes the row; nobody else can until it is resolved.
Begin(e) ==
  /\ state[e] \in Startable
  /\ phase[e] = "none"
  /\ state' = [state EXCEPT ![e] = "sending"]
  /\ phase' = [phase EXCEPT ![e] = "trying"]
  /\ UNCHANGED <<copies, unheard>>

\* The row is marked, but its sender is lost before it starts.
BeginInVain(e) ==
  /\ state[e] \in Startable
  /\ phase[e] = "none"
  /\ state' = [state EXCEPT ![e] = "sending"]
  /\ UNCHANGED <<phase, copies, unheard>>

HandOver(e) ==
  /\ phase[e] = "trying"
  /\ phase'  = [phase EXCEPT ![e] = "handed"]
  /\ copies' = [copies EXCEPT ![e] = @ + 1]
  /\ UNCHANGED <<state, unheard>>

\* The engine's acceptance is not heard: the attempt counts as failed.
LoseAnswer(e) ==
  /\ phase[e] = "handed"
  /\ phase'   = [phase EXCEPT ![e] = "trying"]
  /\ unheard' = [unheard EXCEPT ![e] = @ + 1]
  /\ UNCHANGED <<state, copies>>

Succeed(e) ==
  /\ phase[e] = "handed"
  /\ state[e] = "sending"
  /\ state' = [state EXCEPT ![e] = "sent"]
  /\ phase' = [phase EXCEPT ![e] = "none"]
  /\ UNCHANGED <<copies, unheard>>

Fail(e) ==
  /\ phase[e] = "trying"
  /\ state[e] = "sending"
  /\ state' \in {[state EXCEPT ![e] = s] : s \in {"failed", "rate_limited"}}
  /\ phase' = [phase EXCEPT ![e] = "none"]
  /\ UNCHANGED <<copies, unheard>>

\* Senders vanish: their process stops, their database statement fails, or the
\* row they were sending is gone.
Abandon(S) ==
  /\ phase' = [e \in Emails |-> IF e \in S THEN "none" ELSE phase[e]]
  /\ UNCHANGED <<state, copies, unheard>>

Delete(e) ==
  /\ state[e] \notin {"none", "purged"}
  /\ state' = [state EXCEPT ![e] = "purged"]
  /\ UNCHANGED <<phase, copies, unheard>>

Step(e) ==
  \/ Compose(e) \/ Postpone(e) \/ Begin(e) \/ BeginInVain(e) \/ HandOver(e)
  \/ LoseAnswer(e) \/ Succeed(e) \/ Fail(e) \/ Delete(e)

Next == (\E e \in Emails : Step(e)) \/ (\E S \in SUBSET Emails : Abandon(S))

Spec == Init /\ [][Next]_vars
=============================================================================
