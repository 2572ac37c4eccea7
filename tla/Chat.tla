-------------------------------- MODULE Chat --------------------------------
(***************************************************************************)
(* services/chat.ts, the upload and direct-conversation routes, and        *)
(* services/chat-attachment-cleanup.ts: one group conversation with its    *)
(* messages, counters, receipts and attachments, and the direct            *)
(* conversations of one pair of users.  Workers are requests in progress.  *)
(* No statement runs in a transaction; each await ends an action.          *)
(* Times come from one clock; a message is named by its createdAt.         *)
(***************************************************************************)
EXTENDS Naturals, FiniteSets

CONSTANTS
  Users,        \* the users of the conversation
  Creator,      \* conversations.createdBy of the group
  Files,        \* attachment ids
  Workers,      \* requests that can be in progress at once
  Nobody,       \* no user
  MaxTime,      \* bound: the clock, hence messages
  MaxRequests,  \* bound: requests
  MaxSweeps,    \* bound: orphan sweeps
  MaxCuts       \* bound: requests cut off by a crash

ASSUME ChatAssumption ==
  /\ Creator \in Users /\ Nobody \notin Users
  /\ IsFiniteSet(Workers)
  /\ MaxTime \in Nat /\ MaxRequests \in Nat /\ MaxSweeps \in Nat /\ MaxCuts \in Nat

VARIABLES
  members,     \* conversation_participants of the group
  joined,      \* joinedAt of each participant
  unread,      \* unreadCount of each participant
  lastRead,    \* lastReadAt (0: null)
  lastMessage, \* conversations.lastMessageAt
  message,     \* chat_messages by createdAt
  receipts,    \* chat_message_reads
  file,        \* chat_attachments
  bytes,       \* files on disk
  pairs, halves,  \* direct conversations of the pair, with and without participants
  pc, req,     \* requests in progress
  sweep,       \* the orphan sweep in progress
  clock,
  named,       \* history: attachments named by the send of each message
  delivered,   \* history: messages whose send returned success
  overlapped,  \* history: kinds of requests that have been in progress together
  late,        \* history: attachments that were older than the TTL when claimed
  requests, sweeps, cuts

talk == <<members, joined, unread, lastRead, lastMessage, message, receipts>>
store == <<file, bytes>>
direct == <<pairs, halves>>
history == <<named, delivered, late>>
bounds == <<sweeps, cuts>>
vars == <<talk, store, direct, pc, req, sweep, clock, history, overlapped, requests, bounds>>

Times == 0..MaxTime
Stamps == 1..MaxTime
Pcs == {"idle", "insert", "check", "claim", "rollback", "touch", "count",
        "since", "reset", "receipts", "stage", "add", "remove", "pair", "fill"}
Requests == [user : Users \cup {Nobody}, files : SUBSET Files, at : Times, since : Times]
Blank == [user |-> Nobody, files |-> {}, at |-> 0, since |-> 0]
Attachments == [row : BOOLEAN, owner : Users \cup {Nobody}, msg : Times, old : BOOLEAN]
NoFile == [row |-> FALSE, owner |-> Nobody, msg |-> 0, old |-> FALSE]
Messages == [state : {"none", "live", "deleted", "gone"}, sender : Users \cup {Nobody}]

TypeOK ==
  /\ members \subseteq Users /\ joined \in [Users -> Times]
  /\ unread \in [Users -> Nat] /\ lastRead \in [Users -> Times]
  /\ lastMessage \in Times /\ message \in [Stamps -> Messages]
  /\ receipts \subseteq Stamps \X Users
  /\ file \in [Files -> Attachments] /\ bytes \subseteq Files
  /\ pairs \in Nat /\ halves \in Nat
  /\ pc \in [Workers -> Pcs] /\ req \in [Workers -> Requests]
  /\ \A w \in Workers : pc[w] \notin {"idle", "pair", "fill"} => req[w].user \in Users
  /\ sweep \in [pc : {"off", "unlink"}, found : SUBSET Files, todo : SUBSET Files]
  /\ clock \in Times
  /\ named \in [Stamps -> SUBSET Files] /\ delivered \subseteq Stamps
  /\ overlapped \subseteq {"send", "read", "pair"} /\ late \subseteq Files
  /\ requests \in 0..MaxRequests
  /\ sweeps \in 0..MaxSweeps /\ cuts \in 0..MaxCuts

Init ==
  /\ members = Users /\ joined = [u \in Users |-> 0]
  /\ unread = [u \in Users |-> 0] /\ lastRead = [u \in Users |-> 0]
  /\ lastMessage = 0 /\ message = [t \in Stamps |-> [state |-> "none", sender |-> Nobody]]
  /\ receipts = {} /\ file = [f \in Files |-> NoFile] /\ bytes = {}
  /\ pairs = 0 /\ halves = 0
  /\ pc = [w \in Workers |-> "idle"] /\ req = [w \in Workers |-> Blank]
  /\ sweep = [pc |-> "off", found |-> {}, todo |-> {}]
  /\ clock = 0 /\ named = [t \in Stamps |-> {}] /\ delivered = {}
  /\ overlapped = {} /\ late = {} /\ requests = 0 /\ sweeps = 0 /\ cuts = 0

-----------------------------------------------------------------------------
(* Requests *)

Sending(w) == pc[w] \in {"insert", "check", "claim", "rollback", "touch", "count"}
Reading(w) == pc[w] \in {"since", "reset", "receipts"}
Pairing(w) == pc[w] \in {"pair", "fill"}

At(w, p) == pc[w] = p
GoTo(w, p) == pc' = [pc EXCEPT ![w] = p]
Finish(w) == pc' = [pc EXCEPT ![w] = "idle"] /\ req' = [req EXCEPT ![w] = Blank]

\* A request begins; what it runs together with is remembered.
Begin(w, p, r, kinds) ==
  /\ At(w, "idle") /\ requests < MaxRequests
  /\ requests' = requests + 1
  /\ GoTo(w, p)
  /\ req' = [req EXCEPT ![w] = r]
  /\ overlapped' = overlapped \cup kinds

Tick == clock < MaxTime /\ clock' = clock + 1

\* The process dies; a message inserted by then stays as it is.
Cut(w) ==
  /\ ~At(w, "idle") /\ cuts < MaxCuts /\ cuts' = cuts + 1
  /\ Finish(w)
  /\ UNCHANGED <<talk, store, direct, sweep, clock, history, overlapped, requests,
                 sweeps>>

-----------------------------------------------------------------------------
(* Attachments *)

\* POST /chat/attachments: the bytes are written, then the row.
Upload(w, u, f) ==
  /\ f \notin bytes /\ ~file[f].row /\ \A v \in Workers : f \notin req[v].files
  /\ \A t \in Stamps : f \notin named[t]   \* a fresh id
  /\ Begin(w, "stage", [Blank EXCEPT !.user = u, !.files = {f}], {})
  /\ bytes' = bytes \cup {f}
  /\ UNCHANGED <<talk, file, direct, sweep, clock, history, bounds>>

StageAttachment(w) ==
  /\ At(w, "stage") /\ Finish(w)
  /\ file' = [f \in Files |-> IF f \in req[w].files
                THEN [NoFile EXCEPT !.row = TRUE, !.owner = req[w].user] ELSE file[f]]
  /\ UNCHANGED <<talk, bytes, direct, sweep, clock, history, overlapped, requests, bounds>>

\* An unclaimed row passes the orphan TTL.
Ages(f) ==
  /\ file[f].row /\ file[f].msg = 0 /\ ~file[f].old
  /\ file' = [file EXCEPT ![f].old = TRUE]
  /\ UNCHANGED <<talk, bytes, direct, pc, req, sweep, clock, history, overlapped, requests, bounds>>

\* Mutant: the TTL is not looked at.
SweepSelectAny ==
  LET found == {f \in Files : file[f].row /\ file[f].msg = 0} IN
  /\ sweep.pc = "off" /\ found # {} /\ sweeps < MaxSweeps
  /\ sweeps' = sweeps + 1
  /\ sweep' = [pc |-> "unlink", found |-> found, todo |-> found]
  /\ UNCHANGED <<talk, store, direct, pc, req, clock, history, overlapped, requests, cuts>>

\* cleanupOrphanChatAttachments: select, unlink one by one, delete by condition.
SweepSelect ==
  LET found == {f \in Files : file[f].row /\ file[f].msg = 0 /\ file[f].old} IN
  /\ sweep.pc = "off" /\ found # {} /\ sweeps < MaxSweeps
  /\ sweeps' = sweeps + 1
  /\ sweep' = [pc |-> "unlink", found |-> found, todo |-> found]
  /\ UNCHANGED <<talk, store, direct, pc, req, clock, history, overlapped, requests, cuts>>

\* A disk error leaves the bytes and does not stop the sweep.
SweepUnlink(f) ==
  /\ sweep.pc = "unlink" /\ f \in sweep.todo
  /\ sweep' = [sweep EXCEPT !.todo = @ \ {f}]
  /\ \/ bytes' = bytes \ {f}
     \/ UNCHANGED bytes
  /\ UNCHANGED <<talk, file, direct, pc, req, clock, history, overlapped, requests, bounds>>

SweepDelete ==
  /\ sweep.pc = "unlink" /\ sweep.todo = {}
  /\ file' = [f \in Files |-> IF f \in sweep.found /\ file[f].msg = 0 THEN NoFile ELSE file[f]]
  /\ sweep' = [pc |-> "off", found |-> {}, todo |-> {}]
  /\ UNCHANGED <<talk, bytes, direct, pc, req, clock, history, overlapped, requests, bounds>>

-----------------------------------------------------------------------------
(* sendMessage *)

\* requireParticipant, then createdAt is taken before the INSERT.
Send(w, u, files) ==
  /\ u \in members /\ Tick
  /\ Begin(w, "insert", [user |-> u, files |-> files, at |-> clock + 1, since |-> 0],
           (IF \E v \in Workers : Sending(v) THEN {"send"} ELSE {}) \cup
           (IF \E v \in Workers : Reading(v) THEN {"read"} ELSE {}))
  /\ UNCHANGED <<talk, store, direct, sweep, history, bounds>>

InsertMessage(w) ==
  /\ At(w, "insert") /\ GoTo(w, IF req[w].files = {} THEN "touch" ELSE "check")
  /\ message' = [message EXCEPT ![req[w].at] = [state |-> "live", sender |-> req[w].user]]
  /\ named' = [named EXCEPT ![req[w].at] = req[w].files]
  /\ UNCHANGED <<members, joined, unread, lastRead, lastMessage, receipts, store, direct, req, sweep, clock,
                 delivered, late, overlapped, requests, bounds>>

\* claimAttachments reads the rows ...
Claimable(f, u) == file[f].row /\ file[f].owner = u /\ file[f].msg = 0

\* Mutant: what cannot be claimed is dropped, and the send goes on.
CheckAndDrop(w) ==
  /\ At(w, "check")
  /\ GoTo(w, IF \A f \in req[w].files : Claimable(f, req[w].user) THEN "claim" ELSE "touch")
  /\ UNCHANGED <<talk, store, direct, req, sweep, clock, history, overlapped, requests, bounds>>

CheckAttachments(w) ==
  /\ At(w, "check")
  /\ GoTo(w, IF \A f \in req[w].files : Claimable(f, req[w].user) THEN "claim" ELSE "rollback")
  /\ UNCHANGED <<talk, store, direct, req, sweep, clock, history, overlapped, requests, bounds>>

\* ... and stamps those that are still unclaimed; how many is not looked at.
ClaimAttachments(w) ==
  LET claimed == {f \in req[w].files : file[f].row /\ file[f].msg = 0} IN
  /\ At(w, "claim") /\ GoTo(w, "touch")
  /\ file' = [f \in Files |-> IF f \in claimed THEN [file[f] EXCEPT !.msg = req[w].at] ELSE file[f]]
  /\ late' = late \cup {f \in claimed : file[f].old}
  /\ UNCHANGED <<talk, bytes, direct, req, sweep, clock, named, delivered, overlapped, requests, bounds>>

\* A refused claim deletes the message; receipts go with it.
Rollback(w) ==
  /\ At(w, "rollback") /\ Finish(w)
  /\ message' = [message EXCEPT ![req[w].at].state = "gone"]
  /\ receipts' = {r \in receipts : r[1] # req[w].at}
  /\ UNCHANGED <<members, joined, unread, lastRead, lastMessage, store, direct, sweep, clock,
                 named, delivered, late, overlapped, requests, bounds>>

TouchConversation(w) ==
  /\ At(w, "touch") /\ GoTo(w, "count")
  /\ lastMessage' = req[w].at
  /\ UNCHANGED <<members, joined, unread, lastRead, message, receipts, store, direct, req, sweep, clock,
                 history, overlapped, requests, bounds>>

CountUnread(w) ==
  /\ At(w, "count") /\ Finish(w)
  /\ unread' = [u \in Users |-> IF u \in members \ {req[w].user} THEN unread[u] + 1 ELSE unread[u]]
  /\ delivered' = delivered \cup {req[w].at}
  /\ UNCHANGED <<members, joined, lastRead, lastMessage, message, receipts, store, direct, sweep, clock,
                 named, late, overlapped, requests, bounds>>

\* deleteMessage, by the sender.
DeleteMessage(t) ==
  /\ message[t].state = "live"
  /\ message' = [message EXCEPT ![t].state = "deleted"]
  /\ UNCHANGED <<members, joined, unread, lastRead, lastMessage, receipts, store, direct, pc, req, sweep,
                 clock, history, overlapped, requests, bounds>>

-----------------------------------------------------------------------------
(* markRead *)

Read(w, u) ==
  /\ u \in members /\ Tick
  /\ Begin(w, "since", [Blank EXCEPT !.user = u, !.at = clock + 1],
           IF \E v \in Workers : Sending(v) \/ (Reading(v) /\ req[v].user = u)
           THEN {"read"} ELSE {})
  /\ UNCHANGED <<talk, store, direct, sweep, history, bounds>>

ReadSince(w) ==
  /\ At(w, "since") /\ GoTo(w, "reset")
  /\ req' = [req EXCEPT ![w].since = lastRead[req[w].user]]
  /\ UNCHANGED <<talk, store, direct, sweep, clock, history, overlapped, requests, bounds>>

\* An UPDATE that matches nobody when the user has left meanwhile.
ResetUnread(w) ==
  LET u == req[w].user IN
  /\ At(w, "reset") /\ GoTo(w, "receipts")
  /\ unread' = IF u \in members THEN [unread EXCEPT ![u] = 0] ELSE unread
  /\ lastRead' = IF u \in members THEN [lastRead EXCEPT ![u] = req[w].at] ELSE lastRead
  /\ UNCHANGED <<members, joined, lastMessage, message, receipts, store, direct, req, sweep, clock,
                 history, overlapped, requests, bounds>>

\* Mutant: lastReadAt is read after it has been moved.
ReceiptsSinceNow(w) ==
  LET u == req[w].user IN
  /\ At(w, "receipts") /\ Finish(w)
  /\ receipts' = receipts \cup
       {<<t, u>> : t \in {s \in Stamps : s > lastRead[u] /\ message[s].state = "live"
                                           /\ message[s].sender # u}}
  /\ UNCHANGED <<members, joined, unread, lastRead, lastMessage, message, store, direct, sweep, clock,
                 history, overlapped, requests, bounds>>

InsertReceipts(w) ==
  LET u == req[w].user IN
  /\ At(w, "receipts") /\ Finish(w)
  /\ receipts' = receipts \cup
       {<<t, u>> : t \in {s \in Stamps : s > req[w].since /\ message[s].state = "live"
                                           /\ message[s].sender # u}}
  /\ UNCHANGED <<members, joined, unread, lastRead, lastMessage, message, store, direct, sweep, clock,
                 history, overlapped, requests, bounds>>

-----------------------------------------------------------------------------
(* Membership and direct conversations *)

\* addParticipants reads the members, then inserts those it did not find.
AddParticipant(w, u) ==
  /\ members # {} /\ u \notin members
  /\ Begin(w, "add", [Blank EXCEPT !.user = u], {})
  /\ UNCHANGED <<talk, store, direct, sweep, clock, history, bounds>>

\* The primary key refuses a second row.
InsertParticipant(w) ==
  /\ At(w, "add") /\ Finish(w)
  /\ members' = members \cup {req[w].user}
  /\ joined' = [u \in Users |-> IF u \in {req[w].user} \ members THEN clock ELSE joined[u]]
  /\ UNCHANGED <<unread, lastRead, lastMessage, message, receipts, store, direct, sweep, clock,
                 history, overlapped, requests, bounds>>

\* removeParticipant: a member leaves, or the creator removes one.
RemoveParticipant(w, by, u) ==
  /\ by \in members /\ by \in {u, Creator}
  /\ Begin(w, "remove", [Blank EXCEPT !.user = u], {})
  /\ UNCHANGED <<talk, store, direct, sweep, clock, history, bounds>>

\* The row goes with its counter and its lastReadAt.
DeleteParticipant(w) ==
  LET u == req[w].user IN
  /\ At(w, "remove") /\ Finish(w)
  /\ members' = members \ {u}
  /\ unread' = [unread EXCEPT ![u] = 0] /\ lastRead' = [lastRead EXCEPT ![u] = 0]
  /\ UNCHANGED <<joined, lastMessage, message, receipts, store, direct, sweep, clock, history,
                 overlapped, requests, bounds>>

\* createDirect returns a conversation that has both participants; else it inserts
\* the conversation and then the participants.
CreateDirect(w) ==
  /\ pairs = 0
  /\ Begin(w, "pair", Blank, IF \E v \in Workers : Pairing(v) THEN {"pair"} ELSE {})
  /\ UNCHANGED <<talk, store, direct, sweep, clock, history, bounds>>

\* Mutant: participants of a conversation that has not been inserted.
FillAtOnce(w) ==
  /\ At(w, "pair") /\ GoTo(w, "fill")
  /\ UNCHANGED <<talk, store, direct, req, sweep, clock, history, overlapped, requests, bounds>>

InsertDirect(w) ==
  /\ At(w, "pair") /\ GoTo(w, "fill")
  /\ halves' = halves + 1
  /\ UNCHANGED <<talk, store, pairs, req, sweep, clock, history, overlapped, requests, bounds>>

FillDirect(w) ==
  /\ At(w, "fill") /\ Finish(w)
  /\ halves' = halves - 1 /\ pairs' = pairs + 1
  /\ UNCHANGED <<talk, store, sweep, clock, history, overlapped, requests, bounds>>

-----------------------------------------------------------------------------

SendStep(w) ==
  \/ InsertMessage(w) \/ CheckAttachments(w) \/ ClaimAttachments(w) \/ Rollback(w)
  \/ TouchConversation(w) \/ CountUnread(w)

ReadStep(w) == ReadSince(w) \/ ResetUnread(w) \/ InsertReceipts(w)

OtherStep(w) ==
  \/ StageAttachment(w) \/ InsertParticipant(w) \/ DeleteParticipant(w)
  \/ InsertDirect(w) \/ FillDirect(w)

Sweep == SweepSelect \/ SweepDelete \/ \E f \in Files : SweepUnlink(f)

NewRequest(w) ==
  \/ CreateDirect(w)
  \/ \E u \in Users :
       \/ Read(w, u) \/ AddParticipant(w, u)
       \/ \E files \in SUBSET Files : Send(w, u, files)
       \/ \E f \in Files : Upload(w, u, f)
       \/ \E by \in Users : RemoveParticipant(w, by, u)

Next ==
  \/ \E w \in Workers : NewRequest(w) \/ SendStep(w) \/ ReadStep(w) \/ OtherStep(w) \/ Cut(w)
  \/ Sweep
  \/ \E f \in Files : Ages(f)
  \/ \E t \in Stamps : DeleteMessage(t)

Spec == Init /\ [][Next]_vars

-----------------------------------------------------------------------------
(* Properties *)

Live(t) == message[t].state = "live"

\* An attachment claimed within the TTL keeps its bytes, whatever sweeps run.
ClaimedInTimeKeepsBytes ==
  \A f \in Files : file[f].msg # 0 /\ f \notin late => f \in bytes

\* An attachment belongs to a message that named it, and whenever a send that named
\* it succeeded it belongs to one, unless a sweep took it.
NamedIsAttached ==
  \A f \in Files :
    /\ file[f].msg # 0 => f \in named[file[f].msg]
    /\ file[f].row /\ (\E t \in delivered : f \in named[t]) => file[f].msg # 0

\* Where no send and no other markRead ran during a markRead, and none was cut
\* off, nothing falls between the badge and the receipts: what was sent up to the
\* last markRead has a receipt, what came after is counted.
SeenOrCounted ==
  "read" \notin overlapped /\ cuts = 0 =>
    \A u \in members, t \in delivered :
      /\ Live(t) /\ message[t].sender # u /\ t > joined[u]
      /\ \A w \in Workers : ~(Reading(w) /\ req[w].user = u)
      => /\ t <= lastRead[u] => <<t, u>> \in receipts
         /\ t > lastRead[u] => unread[u] > 0

\* Sends that do not overlap leave the conversation sorted by its newest message.
LastMessageIsNewest ==
  "send" \notin overlapped => \A t \in delivered : t <= lastMessage

\* createDirect alone never makes a second conversation of a pair.
OneDirect == "pair" \notin overlapped => pairs <= 1

\* What requests promise that no other of their kind overlaps: messages are seen or
\* counted, the conversation is sorted, and a pair has one conversation.
AsIfAlone == SeenOrCounted /\ LastMessageIsNewest /\ OneDirect

\* What chat.ts:356 says: the send rejects rather than silently dropping refs.
NothingDropped ==
  \A t \in delivered : \A f \in named[t] : file[f].msg = t

-----------------------------------------------------------------------------
(* The inductive invariant *)

\* What has happened is not later than now.
NothingLater ==
  /\ \A w \in Workers : req[w].at <= clock
  /\ \A u \in Users : lastRead[u] <= clock
  /\ \A t \in delivered : t <= clock
  /\ \A t \in Stamps : t > clock => named[t] = {}

\* Conversations without participants are there for those who are to fill them.
HalvesCounted == Cardinality({w \in Workers : pc[w] = "fill"}) <= halves

\* A send in progress works on a message of its own, which names its files.
SendsOwn ==
  \A w \in Workers : Sending(w) =>
    /\ req[w].at \in Stamps \ delivered
    /\ \A v \in Workers : Sending(v) /\ req[v].at = req[w].at => v = w
    /\ pc[w] = "insert" => named[req[w].at] = {}
    /\ pc[w] # "insert" =>
         named[req[w].at] = req[w].files /\ message[req[w].at].sender = req[w].user

Staging(w, f) == pc[w] = "stage" /\ f \in req[w].files

\* An upload has written its bytes and not its row; nobody else uploads the same id.
StagingAlone ==
  \A w \in Workers, f \in Files : Staging(w, f) =>
    f \in bytes /\ ~file[f].row /\ \A v \in Workers : Staging(v, f) => v = w

\* Only rows past the TTL are swept, and an unclaimed row loses its bytes to nobody else.
SweptIsOld ==
  /\ sweep.todo \subseteq sweep.found
  /\ \A f \in sweep.found : file[f].row /\ file[f].old
  /\ \A f \in Files :
       /\ file[f].row /\ ~file[f].old => f \in bytes
       /\ file[f].msg # 0 => file[f].row /\ (file[f].old => f \in late)

\* Once its attachments are checked they cannot be staged anew, and once claimed they
\* stay with a message as long as their rows exist.
ClaimStays ==
  /\ \A w \in Workers : \A f \in req[w].files :
       /\ pc[w] \in {"claim", "touch", "count"} => \A v \in Workers : ~Staging(v, f)
       /\ pc[w] \in {"touch", "count"} /\ file[f].row => file[f].msg # 0
  /\ \A t \in delivered : \A f \in named[t] : \A v \in Workers : ~Staging(v, f)

\* Requests that no other of their kind overlaps are alone.
SendsAlone ==
  "send" \notin overlapped => \A w \in Workers : Sending(w) =>
    /\ \A v \in Workers : Sending(v) => v = w
    /\ \A t \in delivered : t < req[w].at
    /\ pc[w] = "count" => lastMessage = req[w].at

PairsAlone ==
  "pair" \notin overlapped => \A w \in Workers : Pairing(w) =>
    pairs = 0 /\ \A v \in Workers : Pairing(v) => v = w

ReadsAlone ==
  "read" \notin overlapped =>
    /\ \A w \in Workers : Sending(w) => \A u \in Users : lastRead[u] < req[w].at
    /\ \A w \in Workers : Reading(w) =>
         /\ \A t \in delivered : t < req[w].at
         /\ \A v \in Workers : ~Sending(v) /\ (Reading(v) /\ req[v].user = req[w].user => v = w)

\* A message a member has to notice.
Owed(u, t) ==
  u \in members /\ t \in delivered /\ Live(t) /\ message[t].sender # u /\ t > joined[u]

\* SeenOrCounted, with what holds between the statements of a markRead.
SeenSoFar ==
  "read" \notin overlapped /\ cuts = 0 =>
    \A u \in Users, t \in Stamps : Owed(u, t) =>
      /\ (\A w \in Workers : ~(pc[w] = "receipts" /\ req[w].user = u)) =>
           /\ t <= lastRead[u] => <<t, u>> \in receipts
           /\ t > lastRead[u] => unread[u] > 0
      /\ \A w \in Workers : req[w].user = u =>
           /\ pc[w] = "reset" => req[w].since = lastRead[u]
           /\ pc[w] = "receipts" =>
                t <= lastRead[u] /\ (t <= req[w].since => <<t, u>> \in receipts)

\* Together with the properties they strengthen, these are preserved by every step.
ChatInv ==
  /\ TypeOK /\ HalvesCounted /\ NothingLater /\ SendsOwn
  /\ StagingAlone /\ SweptIsOld /\ ClaimStays /\ NamedIsAttached
  /\ SendsAlone /\ PairsAlone /\ ReadsAlone /\ LastMessageIsNewest /\ OneDirect /\ SeenSoFar
=============================================================================
