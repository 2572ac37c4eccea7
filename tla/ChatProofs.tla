----------------------------- MODULE ChatProofs -----------------------------
(***************************************************************************)
(* Chat for any number of users, attachments, messages and requests:       *)
(* attachments claimed in time keep their bytes, an attachment belongs to  *)
(* a message that named it, and requests that no other of their kind       *)
(* overlaps leave nothing between the badge and the receipts.              *)
(***************************************************************************)
EXTENDS Chat, FiniteSetTheorems, TLAPS

-----------------------------------------------------------------------------
(* What requests do to pc and req *)

LEMMA Clock == MaxTime \in Nat /\ 0 \in Times /\ Times \subseteq Nat /\ Stamps \subseteq Times
  BY ChatAssumption DEF Times, Stamps

LEMMA BlankType ==
  /\ Blank \in Requests
  /\ Blank.user = Nobody /\ Blank.files = {} /\ Blank.at = 0 /\ Blank.since = 0
  BY Clock DEF Blank, Requests

\* The fields of a request in progress.
LEMMA RequestFields ==
  ASSUME TypeOK, NEW w \in Workers
  PROVE  /\ req[w] \in Requests /\ pc[w] \in Pcs
         /\ req[w].user \in Users \cup {Nobody} /\ req[w].files \subseteq Files
         /\ req[w].at \in Times /\ req[w].since \in Times
         /\ req[w].at \in Nat /\ req[w].since \in Nat
  BY Clock DEF TypeOK, Requests

LEMMA UserOf ==
  ASSUME TypeOK, NEW w \in Workers, pc[w] \notin {"idle", "pair", "fill"}
  PROVE  req[w].user \in Users
  BY DEF TypeOK

\* Requests move alone.
UsersKnown == \A v \in Workers : pc[v] \notin {"idle", "pair", "fill"} => req[v].user \in Users

LEMMA Moved ==
  ASSUME TypeOK, NEW w \in Workers
  PROVE  /\ \A p \in Pcs : GoTo(w, p) =>
              /\ pc' \in [Workers -> Pcs] /\ pc'[w] = p /\ \A v \in Workers \ {w} : pc'[v] = pc[v]
              /\ UNCHANGED req /\ req[w].user \in Users => UsersKnown'
         /\ Finish(w) =>
              /\ pc' \in [Workers -> Pcs] /\ req' \in [Workers -> Requests]
              /\ pc'[w] = "idle" /\ req'[w] = Blank
              /\ \A v \in Workers \ {w} : pc'[v] = pc[v] /\ req'[v] = req[v]
              /\ UsersKnown'
  BY BlankType DEF TypeOK, GoTo, Finish, Pcs, UsersKnown

LEMMA Begun ==
  ASSUME TypeOK, NEW w \in Workers, NEW p \in Pcs, NEW r \in Requests, NEW kinds, Begin(w, p, r, kinds)
  PROVE  /\ pc' \in [Workers -> Pcs] /\ req' \in [Workers -> Requests]
         /\ pc[w] = "idle" /\ pc'[w] = p /\ req'[w] = r
         /\ \A v \in Workers \ {w} : pc'[v] = pc[v] /\ req'[v] = req[v]
         /\ requests' \in 0..MaxRequests
         /\ overlapped' = overlapped \cup kinds
         /\ (p \in {"idle", "pair", "fill"} \/ r.user \in Users) => UsersKnown'
  BY ChatAssumption DEF TypeOK, Begin, GoTo, At, UsersKnown

-----------------------------------------------------------------------------
(* Type correctness *)

LEMMA TypeInit == Init => TypeOK
<1> SUFFICES ASSUME Init PROVE TypeOK
  OBVIOUS
<1>1. req \in [Workers -> Requests] /\ pc \in [Workers -> Pcs]
  BY BlankType DEF Init, Pcs
<1>2. file \in [Files -> Attachments] /\ message \in [Stamps -> Messages]
  BY Clock DEF Init, Attachments, NoFile, Messages
<1>3. joined \in [Users -> Times] /\ unread \in [Users -> Nat] /\ lastRead \in [Users -> Times]
  BY Clock DEF Init
<1>4. requests \in 0..MaxRequests /\ sweeps \in 0..MaxSweeps /\ cuts \in 0..MaxCuts /\ clock \in Times
      /\ lastMessage \in Times /\ pairs \in Nat /\ halves \in Nat
  BY Clock, ChatAssumption DEF Init
<1> QED
  BY <1>1, <1>2, <1>3, <1>4 DEF Init, TypeOK

\* A statement of a send writes its message and its attachments.
LEMMA TypeSend ==
  ASSUME TypeOK, SendsOwn, NEW w \in Workers, SendStep(w)
  PROVE  TypeOK'
<1> USE DEF talk, store, direct, history, bounds
<1>0. Sending(w) => req[w].at \in Stamps /\ req[w].at \in Times
  BY Clock DEF SendsOwn
<1>1. ASSUME InsertMessage(w) PROVE TypeOK'
<2>1. pc' \in [Workers -> Pcs] /\ UsersKnown'
  BY <1>1, UserOf, Moved DEF InsertMessage, At, Pcs
<2>2. [state |-> "live", sender |-> req[w].user] \in Messages
  BY RequestFields DEF Messages
<2>3. message' \in [Stamps -> Messages] /\ named' \in [Stamps -> SUBSET Files]
  BY <1>0, <1>1, <2>2, RequestFields DEF InsertMessage, TypeOK, Sending, At
<2> QED
  BY <1>1, <2>1, <2>3 DEF InsertMessage, TypeOK, UsersKnown
<1>2. ASSUME CheckAttachments(w) PROVE TypeOK'
<2>1. pc' \in [Workers -> Pcs] /\ UsersKnown'
  BY <1>2, UserOf, Moved DEF CheckAttachments, At, Pcs
<2> QED
  BY <1>2, <2>1 DEF CheckAttachments, TypeOK, UsersKnown
<1>3. ASSUME ClaimAttachments(w) PROVE TypeOK'
<2>1. pc' \in [Workers -> Pcs] /\ UsersKnown'
  BY <1>3, UserOf, Moved DEF ClaimAttachments, At, Pcs
<2>2. \A f \in Files : [file[f] EXCEPT !.msg = req[w].at] \in Attachments
  BY RequestFields DEF TypeOK, Attachments
<2>3. file' \in [Files -> Attachments]
  BY <1>3, <2>2 DEF ClaimAttachments, TypeOK
<2>4. late' \subseteq Files
  BY <1>3, RequestFields DEF ClaimAttachments, TypeOK
<2> QED
  BY <1>3, <2>1, <2>3, <2>4 DEF ClaimAttachments, TypeOK, UsersKnown
<1>4. ASSUME Rollback(w) PROVE TypeOK'
<2>1. pc' \in [Workers -> Pcs] /\ req' \in [Workers -> Requests] /\ UsersKnown'
  BY <1>4, Moved DEF Rollback
<2>2. [message[req[w].at] EXCEPT !.state = "gone"] \in Messages
  BY <1>0, <1>4 DEF Rollback, At, Sending, TypeOK, Messages
<2>3. message' \in [Stamps -> Messages]
  BY <1>0, <1>4, <2>2 DEF Rollback, At, Sending, TypeOK
<2>4. receipts' \subseteq Stamps \X Users
  BY <1>4 DEF Rollback, TypeOK
<2> QED
  BY <1>4, <2>1, <2>3, <2>4 DEF Rollback, TypeOK, UsersKnown
<1>5. ASSUME TouchConversation(w) PROVE TypeOK'
<2>1. pc' \in [Workers -> Pcs] /\ UsersKnown'
  BY <1>5, UserOf, Moved DEF TouchConversation, At, Pcs
<2> QED
  BY <1>5, <2>1, RequestFields DEF TouchConversation, TypeOK, UsersKnown
<1>6. ASSUME CountUnread(w) PROVE TypeOK'
<2>1. pc' \in [Workers -> Pcs] /\ req' \in [Workers -> Requests] /\ UsersKnown'
  BY <1>6, Moved DEF CountUnread
<2>2. unread' \in [Users -> Nat]
  BY <1>6 DEF CountUnread, TypeOK
<2>3. delivered' \subseteq Stamps
  BY <1>0, <1>6 DEF CountUnread, TypeOK, At, Sending
<2> QED
  BY <1>6, <2>1, <2>2, <2>3 DEF CountUnread, TypeOK, UsersKnown
<1> QED
  BY <1>1, <1>2, <1>3, <1>4, <1>5, <1>6 DEF SendStep

LEMMA TypeRead ==
  ASSUME TypeOK, NEW w \in Workers, ReadStep(w)
  PROVE  TypeOK'
<1> USE DEF talk, store, direct, history, bounds
<1>0. req[w].user \in Users
  BY UserOf DEF ReadStep, ReadSince, ResetUnread, InsertReceipts, At
<1>1. ASSUME ReadSince(w) PROVE TypeOK'
<2>1. pc' \in [Workers -> Pcs]
  BY <1>1, Moved DEF ReadSince, Pcs
<2>2. [req[w] EXCEPT !.since = lastRead[req[w].user]] \in Requests
      /\ [req[w] EXCEPT !.since = lastRead[req[w].user]].user = req[w].user
  BY <1>0, RequestFields DEF Requests, TypeOK
<2>3. req' \in [Workers -> Requests] /\ \A v \in Workers : req'[v].user = req[v].user
  BY <1>1, <2>2 DEF ReadSince, TypeOK
<2>4. UsersKnown'
  BY <1>0, <1>1, <2>3 DEF ReadSince, GoTo, TypeOK, UsersKnown
<2> QED
  BY <1>1, <2>1, <2>3, <2>4 DEF ReadSince, TypeOK, UsersKnown
<1>2. ASSUME ResetUnread(w) PROVE TypeOK'
<2>1. pc' \in [Workers -> Pcs] /\ UsersKnown'
  BY <1>0, <1>2, Moved DEF ResetUnread, Pcs
<2>2. unread' \in [Users -> Nat] /\ lastRead' \in [Users -> Times]
  BY <1>2, RequestFields DEF ResetUnread, TypeOK
<2> QED
  BY <1>2, <2>1, <2>2 DEF ResetUnread, TypeOK, UsersKnown
<1>3. ASSUME InsertReceipts(w) PROVE TypeOK'
<2>1. pc' \in [Workers -> Pcs] /\ req' \in [Workers -> Requests] /\ UsersKnown'
  BY <1>3, Moved DEF InsertReceipts
<2>2. receipts' \subseteq Stamps \X Users
  BY <1>0, <1>3 DEF InsertReceipts, TypeOK
<2> QED
  BY <1>3, <2>1, <2>2 DEF InsertReceipts, TypeOK, UsersKnown
<1> QED
  BY <1>1, <1>2, <1>3 DEF ReadStep

LEMMA TypeOther ==
  ASSUME TypeOK, HalvesCounted, NEW w \in Workers, OtherStep(w) \/ Cut(w)
  PROVE  TypeOK'
<1> USE DEF talk, store, direct, history, bounds
<1>1. ASSUME StageAttachment(w) PROVE TypeOK'
<2>1. pc' \in [Workers -> Pcs] /\ req' \in [Workers -> Requests] /\ UsersKnown'
  BY <1>1, Moved DEF StageAttachment
<2>2. [NoFile EXCEPT !.row = TRUE, !.owner = req[w].user] \in Attachments
  BY RequestFields, Clock DEF Attachments, NoFile
<2>3. file' \in [Files -> Attachments]
  BY <1>1, <2>2 DEF StageAttachment, TypeOK
<2> QED
  BY <1>1, <2>1, <2>3 DEF StageAttachment, TypeOK, UsersKnown
<1>2. ASSUME InsertParticipant(w) PROVE TypeOK'
<2>1. pc' \in [Workers -> Pcs] /\ req' \in [Workers -> Requests] /\ UsersKnown'
  BY <1>2, Moved DEF InsertParticipant
<2>2. req[w].user \in Users
  BY <1>2, UserOf DEF InsertParticipant, At
<2>3. members' \subseteq Users /\ joined' \in [Users -> Times]
  BY <1>2, <2>2 DEF InsertParticipant, TypeOK
<2> QED
  BY <1>2, <2>1, <2>3 DEF InsertParticipant, TypeOK, UsersKnown
<1>3. ASSUME DeleteParticipant(w) PROVE TypeOK'
<2>1. pc' \in [Workers -> Pcs] /\ req' \in [Workers -> Requests] /\ UsersKnown'
  BY <1>3, Moved DEF DeleteParticipant
<2>2. members' \subseteq Users /\ unread' \in [Users -> Nat] /\ lastRead' \in [Users -> Times]
  BY <1>3, Clock DEF DeleteParticipant, TypeOK
<2> QED
  BY <1>3, <2>1, <2>2 DEF DeleteParticipant, TypeOK, UsersKnown
<1>4. ASSUME InsertDirect(w) PROVE TypeOK'
<2>1. pc' \in [Workers -> Pcs] /\ UsersKnown'
  BY <1>4 DEF InsertDirect, GoTo, Pcs, TypeOK, UsersKnown
<2> QED
  BY <1>4, <2>1 DEF InsertDirect, TypeOK, UsersKnown
<1>5. ASSUME FillDirect(w) PROVE TypeOK'
<2>1. pc' \in [Workers -> Pcs] /\ req' \in [Workers -> Requests] /\ UsersKnown'
  BY <1>5, Moved DEF FillDirect
<2>2. halves > 0
  <3> DEFINE Filling == {v \in Workers : pc[v] = "fill"}
  <3>1. IsFiniteSet(Filling) /\ w \in Filling
    BY <1>5, ChatAssumption, FS_Subset DEF FillDirect, At
  <3>2. Cardinality(Filling) \in Nat /\ Cardinality(Filling) # 0
    BY <3>1, FS_CardinalityType, FS_EmptySet
  <3> QED
    BY <3>2 DEF HalvesCounted, TypeOK
<2>3. halves' \in Nat /\ pairs' \in Nat
  BY <1>5, <2>2 DEF FillDirect, TypeOK
<2> QED
  BY <1>5, <2>1, <2>3 DEF FillDirect, TypeOK, UsersKnown
<1>6. ASSUME Cut(w) PROVE TypeOK'
<2>1. pc' \in [Workers -> Pcs] /\ req' \in [Workers -> Requests] /\ UsersKnown'
  BY <1>6, Moved DEF Cut
<2>2. cuts' \in 0..MaxCuts
  BY <1>6, ChatAssumption DEF Cut, TypeOK
<2> QED
  BY <1>6, <2>1, <2>2 DEF Cut, TypeOK, UsersKnown
<1> QED
  BY <1>1, <1>2, <1>3, <1>4, <1>5, <1>6 DEF OtherStep

LEMMA TypeNew ==
  ASSUME TypeOK, NEW w \in Workers, NewRequest(w)
  PROVE  TypeOK'
<1> USE DEF talk, store, direct, history, bounds
<1>0. Tick => clock' \in Times /\ clock + 1 \in Times
  BY ChatAssumption DEF Tick, TypeOK, Times
<1>1. ASSUME CreateDirect(w) PROVE TypeOK'
<2>1. PICK kinds \in {{}, {"pair"}} : Begin(w, "pair", Blank, kinds)
  BY <1>1 DEF CreateDirect
<2>2. pc' \in [Workers -> Pcs] /\ req' \in [Workers -> Requests] /\ requests' \in 0..MaxRequests
      /\ overlapped' = overlapped \cup kinds /\ UsersKnown'
  BY <2>1, BlankType, Begun DEF Pcs
<2> QED
  BY <1>1, <2>2 DEF CreateDirect, TypeOK, UsersKnown
<1>2. ASSUME NEW u \in Users, Read(w, u) PROVE TypeOK'
<2> DEFINE r == [Blank EXCEPT !.user = u, !.at = clock + 1]
<2>1. r \in Requests /\ r.user = u
  BY <1>0, <1>2, BlankType DEF Read, Blank, Requests
<2>2. PICK kinds \in {{}, {"read"}}, q \in Requests : q.user = u /\ Begin(w, "since", q, kinds)
  BY <2>1, <1>2 DEF Read
<2>3. pc' \in [Workers -> Pcs] /\ req' \in [Workers -> Requests] /\ requests' \in 0..MaxRequests
      /\ overlapped' = overlapped \cup kinds /\ UsersKnown'
  BY <2>2, Begun DEF Pcs
<2> QED
  BY <1>0, <1>2, <2>3 DEF Read, TypeOK, UsersKnown
<1>3. ASSUME NEW u \in Users, NEW files \in SUBSET Files, Send(w, u, files) PROVE TypeOK'
<2> DEFINE r == [user |-> u, files |-> files, at |-> clock + 1, since |-> 0]
<2>1. r \in Requests /\ r.user = u
  BY <1>0, <1>3, Clock DEF Send, Requests
<2>2. PICK kinds \in SUBSET {"send", "read"}, q \in Requests : q.user = u /\ Begin(w, "insert", q, kinds)
  BY <2>1, <1>3 DEF Send
<2>3. pc' \in [Workers -> Pcs] /\ req' \in [Workers -> Requests] /\ requests' \in 0..MaxRequests
      /\ overlapped' = overlapped \cup kinds /\ UsersKnown'
  BY <2>2, Begun DEF Pcs
<2> QED
  BY <1>0, <1>3, <2>3 DEF Send, TypeOK, UsersKnown
<1>4. ASSUME NEW u \in Users, NEW f \in Files, Upload(w, u, f) PROVE TypeOK'
<2> DEFINE r == [Blank EXCEPT !.user = u, !.files = {f}]
<2>1. r \in Requests /\ r.user = u
  BY BlankType DEF Blank, Requests
<2>2. Begin(w, "stage", r, {})
  BY <1>4 DEF Upload
<2> HIDE DEF r
<2>3. pc' \in [Workers -> Pcs] /\ req' \in [Workers -> Requests] /\ requests' \in 0..MaxRequests
      /\ overlapped' = overlapped \cup {} /\ UsersKnown'
  BY <2>1, <2>2, Begun DEF Pcs
<2> QED
  BY <1>4, <2>3 DEF Upload, TypeOK, UsersKnown
<1>5. ASSUME NEW u \in Users, AddParticipant(w, u) \/ \E by \in Users : RemoveParticipant(w, by, u)
      PROVE  TypeOK'
<2> DEFINE r == [Blank EXCEPT !.user = u]
<2>1. r \in Requests /\ r.user = u
  BY BlankType DEF Blank, Requests
<2>2. Begin(w, "add", r, {}) \/ Begin(w, "remove", r, {})
  BY <1>5 DEF AddParticipant, RemoveParticipant
<2> HIDE DEF r
<2>3. pc' \in [Workers -> Pcs] /\ req' \in [Workers -> Requests] /\ requests' \in 0..MaxRequests
      /\ overlapped' = overlapped \cup {} /\ UsersKnown'
  BY <2>1, <2>2, Begun DEF Pcs
<2> QED
  BY <1>5, <2>3 DEF AddParticipant, RemoveParticipant, TypeOK, UsersKnown
<1> QED
  BY <1>1, <1>2, <1>3, <1>4, <1>5 DEF NewRequest

LEMMA TypeStep == TypeOK /\ HalvesCounted /\ SendsOwn /\ [Next]_vars => TypeOK'
<1> SUFFICES ASSUME TypeOK, HalvesCounted, SendsOwn, [Next]_vars PROVE TypeOK'
  OBVIOUS
<1> USE DEF talk, store, direct, history, bounds
<1>1. ASSUME SweepSelect PROVE TypeOK'
<2>1. sweeps' \in 0..MaxSweeps
  BY <1>1, ChatAssumption DEF SweepSelect, TypeOK
<2> QED
  BY <1>1, <2>1 DEF SweepSelect, TypeOK
<1>2. ASSUME SweepDelete PROVE TypeOK'
<2>1. NoFile \in Attachments
  BY Clock DEF NoFile, Attachments
<2> QED
  BY <1>2, <2>1 DEF SweepDelete, TypeOK
<1>3. ASSUME NEW f \in Files, SweepUnlink(f) PROVE TypeOK'
  BY <1>3 DEF SweepUnlink, TypeOK
<1>4. ASSUME NEW f \in Files, Ages(f) PROVE TypeOK'
<2>0. file[f] \in Attachments
  BY DEF TypeOK
<2>1. [file[f] EXCEPT !.old = TRUE] \in Attachments
  BY <2>0 DEF Attachments
<2> QED
  BY <1>4, <2>1 DEF Ages, TypeOK
<1>5. ASSUME NEW t \in Stamps, DeleteMessage(t) PROVE TypeOK'
<2>1. [message[t] EXCEPT !.state = "deleted"] \in Messages
  BY DEF TypeOK, Messages
<2> QED
  BY <1>5, <2>1 DEF DeleteMessage, TypeOK
<1>6. CASE UNCHANGED vars
  BY <1>6 DEF vars, TypeOK
<1> QED
  BY <1>1, <1>2, <1>3, <1>4, <1>5, <1>6, TypeNew, TypeSend, TypeRead, TypeOther DEF Next, Sweep

-----------------------------------------------------------------------------
(* Steps by what they do to the requests in progress *)

Others(w) == \A v \in Workers \ {w} : pc'[v] = pc[v] /\ req'[v] = req[v]
Begins(w, p) == pc[w] = "idle" /\ pc'[w] = p /\ Others(w)
Goes(w, p, q) == pc[w] = p /\ pc'[w] = q /\ req'[w] = req[w] /\ Others(w)
Ends(w) == pc'[w] = "idle" /\ req'[w] = Blank /\ Others(w)

LEMMA NewFacts ==
  ASSUME TypeOK, NEW w \in Workers, NEW u \in Users
  PROVE  /\ Read(w, u) =>
              /\ Begins(w, "since") /\ Tick /\ clock' = clock + 1
              /\ req'[w].user = u /\ req'[w].files = {} /\ req'[w].at = clock + 1
         /\ \A files \in SUBSET Files : Send(w, u, files) =>
              /\ Begins(w, "insert") /\ Tick /\ clock' = clock + 1
              /\ req'[w].user = u /\ req'[w].files = files /\ req'[w].at = clock + 1
         /\ \A f \in Files : Upload(w, u, f) =>
              /\ Begins(w, "stage") /\ req'[w].user = u /\ req'[w].files = {f} /\ req'[w].at = 0
         /\ AddParticipant(w, u) =>
              /\ Begins(w, "add") /\ req'[w].user = u /\ req'[w].files = {} /\ req'[w].at = 0
         /\ \A by \in Users : RemoveParticipant(w, by, u) =>
              /\ Begins(w, "remove") /\ req'[w].user = u /\ req'[w].files = {} /\ req'[w].at = 0
         /\ CreateDirect(w) => Begins(w, "pair") /\ req'[w] = Blank
<1> USE DEF Begin, At, GoTo, Begins, Others
<1>0. pc \in [Workers -> Pcs] /\ req \in [Workers -> Requests]
  BY DEF TypeOK
<1>1. ASSUME Read(w, u)
      PROVE  /\ Begins(w, "since") /\ Tick /\ clock' = clock + 1
             /\ req'[w].user = u /\ req'[w].files = {} /\ req'[w].at = clock + 1
<2>1. req'[w] = [Blank EXCEPT !.user = u, !.at = clock + 1]
  BY <1>0, <1>1 DEF Read
<2> QED
  BY <1>0, <1>1, <2>1 DEF Read, Tick, Blank
<1>2. ASSUME NEW files \in SUBSET Files, Send(w, u, files)
      PROVE  /\ Begins(w, "insert") /\ Tick /\ clock' = clock + 1
             /\ req'[w].user = u /\ req'[w].files = files /\ req'[w].at = clock + 1
<2>1. req'[w] = [user |-> u, files |-> files, at |-> clock + 1, since |-> 0]
  BY <1>0, <1>2 DEF Send
<2> QED
  BY <1>0, <1>2, <2>1 DEF Send, Tick
<1>3. ASSUME NEW f \in Files, Upload(w, u, f)
      PROVE  /\ Begins(w, "stage") /\ req'[w].user = u /\ req'[w].files = {f} /\ req'[w].at = 0
<2>1. req'[w] = [Blank EXCEPT !.user = u, !.files = {f}]
  BY <1>0, <1>3 DEF Upload
<2> QED
  BY <1>0, <1>3, <2>1 DEF Upload, Blank
<1>4. ASSUME AddParticipant(w, u)
      PROVE  Begins(w, "add") /\ req'[w].user = u /\ req'[w].files = {} /\ req'[w].at = 0
<2>1. req'[w] = [Blank EXCEPT !.user = u]
  BY <1>0, <1>4 DEF AddParticipant
<2> QED
  BY <1>0, <1>4, <2>1 DEF AddParticipant, Blank
<1>5. ASSUME NEW by \in Users, RemoveParticipant(w, by, u)
      PROVE  Begins(w, "remove") /\ req'[w].user = u /\ req'[w].files = {} /\ req'[w].at = 0
<2>1. req'[w] = [Blank EXCEPT !.user = u]
  BY <1>0, <1>5 DEF RemoveParticipant
<2> QED
  BY <1>0, <1>5, <2>1 DEF RemoveParticipant, Blank
<1>6. ASSUME CreateDirect(w) PROVE Begins(w, "pair") /\ req'[w] = Blank
  BY <1>0, <1>6 DEF CreateDirect
<1> QED
  BY <1>1, <1>2, <1>3, <1>4, <1>5, <1>6

LEMMA NewBegins ==
  ASSUME TypeOK, NEW w \in Workers, NewRequest(w)
  PROVE  \E p \in {"insert", "since", "stage", "add", "remove", "pair"} :
           /\ Begins(w, p)
           /\ p \in {"insert", "since"} => Tick /\ clock' = clock + 1 /\ req'[w].at = clock + 1
           /\ p \notin {"insert", "since"} => clock' = clock /\ req'[w].at = 0
           /\ p \notin {"insert", "stage"} => req'[w].files = {}
<1>1. ASSUME CreateDirect(w) PROVE Begins(w, "pair") /\ clock' = clock /\ req'[w].at = 0 /\ req'[w].files = {}
<2>1. \E u : u \in Users
  BY ChatAssumption
<2> QED
  BY <1>1, <2>1, NewFacts, BlankType DEF CreateDirect
<1>2. ASSUME NEW u \in Users, Read(w, u)
      PROVE  Begins(w, "since") /\ Tick /\ clock' = clock + 1 /\ req'[w].at = clock + 1 /\ req'[w].files = {}
  BY <1>2, NewFacts
<1>3. ASSUME NEW u \in Users, NEW files \in SUBSET Files, Send(w, u, files)
      PROVE  Begins(w, "insert") /\ Tick /\ clock' = clock + 1 /\ req'[w].at = clock + 1
  BY <1>3, NewFacts
<1>4. ASSUME NEW u \in Users, NEW f \in Files, Upload(w, u, f)
      PROVE  Begins(w, "stage") /\ clock' = clock /\ req'[w].at = 0
  BY <1>4, NewFacts DEF Upload
<1>5. ASSUME NEW u \in Users, AddParticipant(w, u)
      PROVE  Begins(w, "add") /\ clock' = clock /\ req'[w].at = 0 /\ req'[w].files = {}
  BY <1>5, NewFacts DEF AddParticipant
<1>6. ASSUME NEW u \in Users, NEW by \in Users, RemoveParticipant(w, by, u)
      PROVE  Begins(w, "remove") /\ clock' = clock /\ req'[w].at = 0 /\ req'[w].files = {}
  BY <1>6, NewFacts DEF RemoveParticipant
<1> QED
  BY <1>1, <1>2, <1>3, <1>4, <1>5, <1>6 DEF NewRequest

LEMMA SendFacts ==
  ASSUME TypeOK, NEW w \in Workers
  PROVE  /\ InsertMessage(w) => \E q \in {"touch", "check"} :
              Goes(w, "insert", q) /\ (q = "touch" => req[w].files = {})
         /\ CheckAttachments(w) => \E q \in {"claim", "rollback"} :
              /\ Goes(w, "check", q)
              /\ q = "claim" => \A f \in req[w].files : Claimable(f, req[w].user)
         /\ ClaimAttachments(w) => Goes(w, "claim", "touch")
         /\ Rollback(w) => pc[w] = "rollback" /\ Ends(w)
         /\ TouchConversation(w) => Goes(w, "touch", "count")
         /\ CountUnread(w) => pc[w] = "count" /\ Ends(w)
<1> USE DEF At, GoTo, Finish, Goes, Ends, Others, TypeOK
<1>1. InsertMessage(w) => \E q \in {"touch", "check"} :
         Goes(w, "insert", q) /\ (q = "touch" => req[w].files = {})
  BY DEF InsertMessage
<1>2. CheckAttachments(w) => \E q \in {"claim", "rollback"} :
        /\ Goes(w, "check", q)
        /\ q = "claim" => \A f \in req[w].files : Claimable(f, req[w].user)
  BY DEF CheckAttachments
<1>3. ClaimAttachments(w) => Goes(w, "claim", "touch")
  BY DEF ClaimAttachments
<1>4. Rollback(w) => pc[w] = "rollback" /\ Ends(w)
  BY DEF Rollback
<1>5. TouchConversation(w) => Goes(w, "touch", "count")
  BY DEF TouchConversation
<1>6. CountUnread(w) => pc[w] = "count" /\ Ends(w)
  BY DEF CountUnread
<1> QED
  BY <1>1, <1>2, <1>3, <1>4, <1>5, <1>6

LEMMA OtherFacts ==
  ASSUME TypeOK, NEW w \in Workers
  PROVE  /\ ReadSince(w) =>
              /\ pc[w] = "since" /\ pc'[w] = "reset" /\ Others(w)
              /\ req'[w].user = req[w].user /\ req'[w].files = req[w].files /\ req'[w].at = req[w].at
              /\ req'[w].since = lastRead[req[w].user]
         /\ ResetUnread(w) => Goes(w, "reset", "receipts")
         /\ InsertReceipts(w) => pc[w] = "receipts" /\ Ends(w)
         /\ StageAttachment(w) => pc[w] = "stage" /\ Ends(w)
         /\ InsertParticipant(w) => pc[w] = "add" /\ Ends(w)
         /\ DeleteParticipant(w) => pc[w] = "remove" /\ Ends(w)
         /\ InsertDirect(w) => Goes(w, "pair", "fill")
         /\ FillDirect(w) => pc[w] = "fill" /\ Ends(w)
         /\ Cut(w) => pc[w] # "idle" /\ Ends(w)
<1> USE DEF At, GoTo, Finish, Goes, Ends, Others, TypeOK
<1>1. ASSUME ReadSince(w)
      PROVE  /\ pc[w] = "since" /\ pc'[w] = "reset" /\ Others(w)
             /\ req'[w].user = req[w].user /\ req'[w].files = req[w].files /\ req'[w].at = req[w].at
             /\ req'[w].since = lastRead[req[w].user]
<2>1. req'[w] = [req[w] EXCEPT !.since = lastRead[req[w].user]]
  BY <1>1 DEF ReadSince
<2>2. req[w] \in Requests
  OBVIOUS
<2> QED
  BY <1>1, <2>1, <2>2 DEF ReadSince, Requests
<1>2. ResetUnread(w) => Goes(w, "reset", "receipts")
  BY DEF ResetUnread
<1>3. InsertReceipts(w) => pc[w] = "receipts" /\ Ends(w)
  BY DEF InsertReceipts
<1>4. StageAttachment(w) => pc[w] = "stage" /\ Ends(w)
  BY DEF StageAttachment
<1>5. InsertParticipant(w) => pc[w] = "add" /\ Ends(w)
  BY DEF InsertParticipant
<1>6. DeleteParticipant(w) => pc[w] = "remove" /\ Ends(w)
  BY DEF DeleteParticipant
<1>7. InsertDirect(w) => Goes(w, "pair", "fill")
  BY DEF InsertDirect
<1>8. FillDirect(w) => pc[w] = "fill" /\ Ends(w)
  BY DEF FillDirect
<1>9. Cut(w) => pc[w] # "idle" /\ Ends(w)
  BY DEF Cut
<1> QED
  BY <1>1, <1>2, <1>3, <1>4, <1>5, <1>6, <1>7, <1>8, <1>9

\* Sweeps, ageing and deletions touch no request.
Background ==
  Sweep \/ (\E f \in Files : Ages(f)) \/ (\E t \in Stamps : DeleteMessage(t)) \/ UNCHANGED vars

LEMMA BackgroundFacts ==
  ASSUME Background
  PROVE  /\ UNCHANGED <<members, joined, unread, lastRead, lastMessage, receipts>>
         /\ UNCHANGED <<pairs, halves, pc, req, clock, named, delivered, late, overlapped, cuts>>
  BY DEF Background, Sweep, SweepSelect, SweepUnlink, SweepDelete, Ages, DeleteMessage, vars, talk,
         store, direct, history, bounds

-----------------------------------------------------------------------------
(* Direct conversations without participants *)

LEMMA HalvesStep == TypeOK /\ HalvesCounted /\ [Next]_vars => HalvesCounted'
<1> SUFFICES ASSUME TypeOK, HalvesCounted, [Next]_vars PROVE HalvesCounted'
  OBVIOUS
<1> USE DEF talk, store, direct, history, bounds
<1> DEFINE Filling == {v \in Workers : pc[v] = "fill"}
<1>0. IsFiniteSet(Filling) /\ Cardinality(Filling) \in Nat
  BY ChatAssumption, FS_Subset, FS_CardinalityType
<1>1. ASSUME UNCHANGED halves, \A v \in Workers : pc'[v] = "fill" => pc[v] = "fill"
      PROVE  HalvesCounted'
<2>1. Filling' \subseteq Filling
  BY <1>1
<2>2. Cardinality(Filling') <= Cardinality(Filling) /\ Cardinality(Filling') \in Nat
  BY <1>0, <2>1, FS_Subset, FS_CardinalityType
<2> QED
  BY <1>0, <1>1, <2>2 DEF HalvesCounted, TypeOK
<1>2. ASSUME NEW w \in Workers, NewRequest(w) PROVE HalvesCounted'
<2>1. UNCHANGED halves
  BY <1>2 DEF NewRequest, CreateDirect, Read, AddParticipant, Send, Upload, RemoveParticipant
<2>2. \A v \in Workers : pc'[v] = "fill" => pc[v] = "fill"
  BY <1>2, NewBegins DEF Begins, Others
<2> QED
  BY <1>1, <2>1, <2>2
<1>3. ASSUME NEW w \in Workers, SendStep(w) PROVE HalvesCounted'
<2>1. \A v \in Workers : pc'[v] = "fill" => pc[v] = "fill"
  BY <1>3, SendFacts DEF SendStep, Goes, Ends, Others
<2> QED
  BY <1>1, <1>3, <2>1 DEF SendStep, InsertMessage, CheckAttachments, ClaimAttachments, Rollback,
                          TouchConversation, CountUnread
<1>4. ASSUME NEW w \in Workers, ReadStep(w) PROVE HalvesCounted'
  BY <1>1, <1>4, OtherFacts DEF ReadStep, ReadSince, ResetUnread, InsertReceipts, Goes, Ends, Others
<1>5. ASSUME NEW w \in Workers, StageAttachment(w) \/ InsertParticipant(w) \/ DeleteParticipant(w) \/ Cut(w)
      PROVE  HalvesCounted'
  BY <1>1, <1>5, OtherFacts DEF StageAttachment, InsertParticipant, DeleteParticipant, Cut, Ends, Others
<1>6. ASSUME NEW w \in Workers, InsertDirect(w) PROVE HalvesCounted'
<2>1. Goes(w, "pair", "fill") /\ halves' = halves + 1
  BY <1>6, OtherFacts DEF InsertDirect
<2>2. Filling' = Filling \cup {w} /\ w \notin Filling
  BY <2>1 DEF Goes, Others
<2>3. Cardinality(Filling') = Cardinality(Filling) + 1
  BY <1>0, <2>2, FS_AddElement
<2> QED
  BY <1>0, <2>1, <2>3 DEF HalvesCounted, TypeOK
<1>7. ASSUME NEW w \in Workers, FillDirect(w) PROVE HalvesCounted'
<2>1. pc[w] = "fill" /\ Ends(w) /\ halves' = halves - 1
  BY <1>7, OtherFacts DEF FillDirect
<2>2. Filling' = Filling \ {w} /\ w \in Filling
  BY <2>1 DEF Ends, Others
<2>3. Cardinality(Filling') = Cardinality(Filling) - 1
  BY <1>0, <2>2, FS_RemoveElement
<2> QED
  BY <1>0, <2>1, <2>3 DEF HalvesCounted, TypeOK
<1>8. ASSUME Background PROVE HalvesCounted'
  BY <1>1, <1>8, BackgroundFacts
<1> QED
  BY <1>2, <1>3, <1>4, <1>5, <1>6, <1>7, <1>8 DEF Next, OtherStep, Background

-----------------------------------------------------------------------------
(* Times *)

LEMMA LaterStep == TypeOK /\ SendsOwn /\ NothingLater /\ [Next]_vars => NothingLater'
<1> SUFFICES ASSUME TypeOK, SendsOwn, NothingLater, [Next]_vars PROVE NothingLater'
  OBVIOUS
<1> USE DEF talk, store, direct, history, bounds
<1>0. /\ clock \in Nat /\ (\A w \in Workers : req[w].at \in Nat) /\ (\A u \in Users : lastRead[u] \in Nat)
      /\ \A t \in Stamps : t \in Nat
      /\ delivered \subseteq Stamps
  BY Clock, RequestFields DEF TypeOK
\* Time passes, and nothing else moves forward but the request that begins.
<1>1. ASSUME NEW w \in Workers, Others(w), clock' \in {clock, clock + 1}, req'[w].at <= clock',
             req'[w].at \in Nat, \A u \in Users : lastRead'[u] <= clock',
             UNCHANGED <<delivered, named>>
      PROVE  NothingLater'
  BY <1>0, <1>1 DEF NothingLater, Others
<1>2. ASSUME NEW w \in Workers, NewRequest(w) PROVE NothingLater'
<2>1. UNCHANGED <<lastRead, delivered, named>>
  BY <1>2 DEF NewRequest, CreateDirect, Read, AddParticipant, Send, Upload, RemoveParticipant
<2>2. Others(w) /\ clock' \in {clock, clock + 1} /\ req'[w].at <= clock' /\ req'[w].at \in Nat
  <3>1. CASE clock' = clock /\ req'[w].at = 0 /\ Others(w)
    BY <1>0, <3>1
  <3>2. CASE clock' = clock + 1 /\ req'[w].at = clock + 1 /\ Others(w)
    BY <1>0, <3>2
  <3> QED
    BY <1>2, <3>1, <3>2, NewBegins DEF Begins
<2>3. \A u \in Users : lastRead'[u] <= clock'
  BY <1>0, <2>1, <2>2 DEF NothingLater
<2> QED
  BY <1>1, <2>1, <2>2, <2>3
<1>3. ASSUME NEW w \in Workers, SendStep(w) PROVE NothingLater'
<2>1. UNCHANGED <<lastRead, clock>> /\ Others(w) /\ req'[w].at <= req[w].at /\ req'[w].at \in Nat
  BY <1>0, <1>3, SendFacts, BlankType
     DEF SendStep, InsertMessage, CheckAttachments, ClaimAttachments, Rollback, TouchConversation,
         CountUnread, Goes, Ends
<2>2. req[w].at \in Stamps
  BY <1>3, SendFacts DEF SendsOwn, Sending, SendStep, Goes
<2>3. delivered' \subseteq delivered \cup {req[w].at}
  BY <1>3 DEF SendStep, InsertMessage, CheckAttachments, ClaimAttachments, Rollback,
              TouchConversation, CountUnread
<2>4. \A t \in Stamps : t # req[w].at => named'[t] = named[t]
  BY <1>3 DEF SendStep, InsertMessage, CheckAttachments, ClaimAttachments, Rollback,
              TouchConversation, CountUnread, TypeOK
<2> QED
  BY <1>0, <2>1, <2>2, <2>3, <2>4 DEF NothingLater, Others
<1>4. ASSUME NEW w \in Workers, ReadStep(w) PROVE NothingLater'
<2>1. UNCHANGED <<clock, delivered, named>> /\ Others(w) /\ req'[w].at <= req[w].at /\ req'[w].at \in Nat
  BY <1>0, <1>4, OtherFacts, BlankType DEF ReadStep, ReadSince, ResetUnread, InsertReceipts, Goes, Ends
<2>2. \A u \in Users : lastRead'[u] <= clock
  BY <1>0, <1>4 DEF ReadStep, ReadSince, ResetUnread, InsertReceipts, NothingLater, TypeOK
<2> QED
  BY <1>0, <1>1, <2>1, <2>2 DEF NothingLater
<1>5. ASSUME NEW w \in Workers, OtherStep(w) \/ Cut(w) PROVE NothingLater'
<2>0. Ends(w) \/ Goes(w, "pair", "fill")
  BY <1>5, OtherFacts DEF OtherStep
<2>1. UNCHANGED <<clock, delivered, named>> /\ Others(w) /\ req'[w].at <= req[w].at /\ req'[w].at \in Nat
  BY <1>0, <1>5, <2>0, BlankType
     DEF OtherStep, StageAttachment, InsertParticipant, DeleteParticipant, InsertDirect, FillDirect,
         Cut, Goes, Ends
<2>2. \A u \in Users : lastRead'[u] <= clock
  BY <1>0, <1>5 DEF OtherStep, StageAttachment, InsertParticipant, DeleteParticipant, InsertDirect,
                    FillDirect, Cut, NothingLater, TypeOK
<2> QED
  BY <1>0, <1>1, <2>1, <2>2 DEF NothingLater
<1>6. ASSUME Background PROVE NothingLater'
  BY <1>6, BackgroundFacts DEF NothingLater
<1> QED
  BY <1>2, <1>3, <1>4, <1>5, <1>6 DEF Next, Background

-----------------------------------------------------------------------------
(* Sends own their messages *)

SendPcs == {"insert", "check", "claim", "rollback", "touch", "count"}

LEMMA SendingPcs == \A w \in Workers : Sending(w) <=> pc[w] \in SendPcs
  BY DEF Sending, SendPcs

\* Only a statement of a send moves a send.
LEMMA ElsewhereKeepsSends ==
  ASSUME TypeOK, NEW w \in Workers, ReadStep(w) \/ OtherStep(w) \/ Cut(w)
  PROVE  \A v \in Workers : pc'[v] \in SendPcs => v # w /\ pc'[v] = pc[v] /\ req'[v] = req[v]
<1>1. Ends(w) \/ (\E p, q \in Pcs \ SendPcs : pc'[w] = q /\ Others(w))
  BY OtherFacts DEF ReadStep, OtherStep, Goes, Pcs, SendPcs
<1> QED
  BY <1>1 DEF Ends, Others, SendPcs

LEMMA OwnStep == TypeOK /\ NothingLater /\ SendsOwn /\ [Next]_vars => SendsOwn'
<1> SUFFICES ASSUME TypeOK, NothingLater, SendsOwn, [Next]_vars PROVE SendsOwn'
  OBVIOUS
<1> USE DEF talk, store, direct, history, bounds
<1>0. /\ \A v \in Workers : Sending(v)' <=> pc'[v] \in SendPcs
      /\ \A v \in Workers : Sending(v) <=> pc[v] \in SendPcs
  BY DEF Sending, SendPcs
<1>1. ASSUME \A v \in Workers : pc'[v] \in SendPcs => pc'[v] = pc[v] /\ req'[v] = req[v],
             UNCHANGED <<delivered, named>>,
             \A t \in Stamps : message'[t].sender = message[t].sender
      PROVE  SendsOwn'
  BY <1>0, <1>1 DEF SendsOwn
<1>2. ASSUME NEW w \in Workers, NewRequest(w) PROVE SendsOwn'
<2>1. UNCHANGED <<delivered, named, message>>
  BY <1>2 DEF NewRequest, CreateDirect, Read, AddParticipant, Send, Upload, RemoveParticipant
<2>2. PICK p \in {"insert", "since", "stage", "add", "remove", "pair"} :
        /\ Begins(w, p)
        /\ p \in {"insert", "since"} => Tick /\ clock' = clock + 1 /\ req'[w].at = clock + 1
  BY <1>2, NewBegins
<2>3. CASE p # "insert"
  BY <1>1, <2>1, <2>2, <2>3 DEF Begins, Others, SendPcs
<2>4. CASE p = "insert"
  <3>1. /\ clock + 1 \in Stamps /\ clock \in Nat /\ \A t \in Stamps : t \in Nat
        /\ \A v \in Workers : req[v].at \in Nat
    BY <2>2, <2>4, Clock, RequestFields, ChatAssumption DEF Tick, TypeOK, Stamps, Times
  <3>2. clock + 1 \notin delivered /\ named[clock + 1] = {} /\ \A v \in Workers : req[v].at # clock + 1
    BY <3>1 DEF NothingLater
  <3>3. pc'[w] = "insert" /\ req'[w].at = clock + 1 /\ \A v \in Workers \ {w} : pc'[v] = pc[v] /\ req'[v] = req[v]
    BY <2>2, <2>4 DEF Begins, Others
  <3> QED
    BY <1>0, <2>1, <3>1, <3>2, <3>3 DEF SendsOwn
<2> QED
  BY <2>3, <2>4
<1>3. ASSUME NEW w \in Workers, SendStep(w) PROVE SendsOwn'
<2>0. /\ Sending(w) /\ req[w].at \in Stamps \ delivered
      /\ \A v \in Workers : Sending(v) /\ req[v].at = req[w].at => v = w
  BY <1>3, SendFacts DEF SendStep, Sending, SendsOwn, Goes
<2>1. \A v \in Workers \ {w} : pc'[v] = pc[v] /\ req'[v] = req[v]
  BY <1>3, SendFacts DEF SendStep, Goes, Ends, Others
\* A step that ends the send, or goes on with it.
<2>2. ASSUME pc'[w] = "idle" \/ (pc[w] # "insert" /\ pc'[w] # "insert" /\ req'[w] = req[w]),
             UNCHANGED named, delivered' \subseteq delivered \cup {req[w].at},
             req[w].at \in delivered' => pc'[w] = "idle",
             \A t \in Stamps : message'[t].sender = message[t].sender
      PROVE  SendsOwn'
  BY <1>0, <2>0, <2>1, <2>2 DEF SendsOwn, SendPcs
<2>3. ASSUME InsertMessage(w) PROVE SendsOwn'
  <3>1. pc'[w] \in {"touch", "check"} /\ req'[w] = req[w]
    BY <2>3, SendFacts DEF Goes
  <3>2. /\ named'[req[w].at] = req[w].files /\ message'[req[w].at].sender = req[w].user
        /\ \A t \in Stamps \ {req[w].at} : named'[t] = named[t] /\ message'[t] = message[t]
        /\ UNCHANGED delivered
    BY <2>0, <2>3 DEF InsertMessage, TypeOK
  <3> QED
    BY <1>0, <2>0, <2>1, <3>1, <3>2 DEF SendsOwn
<2>4. ASSUME CheckAttachments(w) \/ ClaimAttachments(w) \/ TouchConversation(w) PROVE SendsOwn'
  <3>1. pc[w] # "insert" /\ pc'[w] # "insert" /\ req'[w] = req[w]
    BY <2>4, SendFacts DEF Goes
  <3> QED
    BY <2>0, <2>2, <2>4, <3>1 DEF CheckAttachments, ClaimAttachments, TouchConversation
<2>5. ASSUME Rollback(w) PROVE SendsOwn'
  <3>1. \A t \in Stamps : message'[t].sender = message[t].sender
    BY <2>0, <2>5 DEF Rollback, TypeOK, Messages
  <3> QED
    BY <2>2, <2>5, <3>1, SendFacts DEF Rollback, Ends
<2>6. ASSUME CountUnread(w) PROVE SendsOwn'
  BY <2>2, <2>6, SendFacts DEF CountUnread, Ends
<2> QED
  BY <1>3, <2>3, <2>4, <2>5, <2>6 DEF SendStep
<1>4. ASSUME NEW w \in Workers, ReadStep(w) \/ OtherStep(w) \/ Cut(w) PROVE SendsOwn'
<2>1. UNCHANGED <<delivered, named, message>>
  BY <1>4 DEF ReadStep, ReadSince, ResetUnread, InsertReceipts, OtherStep, StageAttachment,
              InsertParticipant, DeleteParticipant, InsertDirect, FillDirect, Cut
<2> QED
  BY <1>1, <1>4, <2>1, ElsewhereKeepsSends
<1>5. ASSUME Background PROVE SendsOwn'
<2>1. \A t \in Stamps : message'[t].sender = message[t].sender
  BY <1>5 DEF Background, Sweep, SweepSelect, SweepUnlink, SweepDelete, Ages, DeleteMessage, vars,
              TypeOK, Messages
<2> QED
  BY <1>1, <1>5, <2>1, BackgroundFacts
<1> QED
  BY <1>2, <1>3, <1>4, <1>5 DEF Next, Background

-----------------------------------------------------------------------------
(* Attachments *)

LEMMA FileFacts ==
  ASSUME TypeOK
  PROVE  /\ \A w \in Workers : StageAttachment(w) =>
              /\ \A f \in req[w].files : file'[f].row /\ file'[f].msg = 0 /\ ~file'[f].old
              /\ \A f \in Files \ req[w].files : file'[f] = file[f]
         /\ \A w \in Workers : ClaimAttachments(w) => \A f \in Files :
              /\ file'[f].row = file[f].row /\ file'[f].old = file[f].old
              /\ file'[f].msg = IF f \in req[w].files /\ file[f].row /\ file[f].msg = 0
                                THEN req[w].at ELSE file[f].msg
              /\ f \in late' <=> f \in late \/ (f \in req[w].files /\ file[f].row /\ file[f].msg = 0 /\ file[f].old)
         /\ \A g \in Files : Ages(g) => \A f \in Files :
              /\ file'[f].row = file[f].row /\ file'[f].msg = file[f].msg
              /\ (file'[f].old <=> file[f].old \/ f = g) /\ file[g].row /\ file[g].msg = 0
         /\ SweepDelete => \A f \in Files :
              \/ f \in sweep.found /\ file[f].msg = 0 /\ ~file'[f].row /\ file'[f].msg = 0
              \/ file'[f] = file[f]
<1>0. \A f \in Files : file[f] \in Attachments
  BY DEF TypeOK
<1>1. ASSUME NEW w \in Workers, StageAttachment(w)
      PROVE  /\ \A f \in req[w].files : file'[f].row /\ file'[f].msg = 0 /\ ~file'[f].old
             /\ \A f \in Files \ req[w].files : file'[f] = file[f]
  BY <1>1, RequestFields DEF StageAttachment, NoFile
<1>2. ASSUME NEW w \in Workers, ClaimAttachments(w), NEW f \in Files
      PROVE  /\ file'[f].row = file[f].row /\ file'[f].old = file[f].old
             /\ file'[f].msg = IF f \in req[w].files /\ file[f].row /\ file[f].msg = 0
                               THEN req[w].at ELSE file[f].msg
             /\ f \in late' <=> f \in late \/ (f \in req[w].files /\ file[f].row /\ file[f].msg = 0 /\ file[f].old)
<2>1. file'[f] = IF f \in req[w].files /\ file[f].row /\ file[f].msg = 0
                 THEN [file[f] EXCEPT !.msg = req[w].at] ELSE file[f]
  BY <1>2 DEF ClaimAttachments
<2>2. [file[f] EXCEPT !.msg = req[w].at].row = file[f].row
      /\ [file[f] EXCEPT !.msg = req[w].at].old = file[f].old
      /\ [file[f] EXCEPT !.msg = req[w].at].msg = req[w].at
  BY <1>0 DEF Attachments
<2> QED
  BY <1>2, <2>1, <2>2 DEF ClaimAttachments
<1>3. ASSUME NEW g \in Files, Ages(g), NEW f \in Files
      PROVE  /\ file'[f].row = file[f].row /\ file'[f].msg = file[f].msg
             /\ (file'[f].old <=> file[f].old \/ f = g) /\ file[g].row /\ file[g].msg = 0
<2>1. [file[g] EXCEPT !.old = TRUE].row = file[g].row /\ [file[g] EXCEPT !.old = TRUE].msg = file[g].msg
      /\ [file[g] EXCEPT !.old = TRUE].old = TRUE
  BY <1>0 DEF Attachments
<2>2. file'[f] = IF f = g THEN [file[g] EXCEPT !.old = TRUE] ELSE file[f]
  BY <1>3 DEF Ages, TypeOK
<2>3. file[f].old \in BOOLEAN
  BY <1>0 DEF Attachments
<2> QED
  BY <1>3, <2>1, <2>2, <2>3 DEF Ages
<1>4. ASSUME SweepDelete, NEW f \in Files
      PROVE  \/ f \in sweep.found /\ file[f].msg = 0 /\ ~file'[f].row /\ file'[f].msg = 0
             \/ file'[f] = file[f]
  BY <1>4 DEF SweepDelete, NoFile
<1> QED
  BY <1>1, <1>2, <1>3, <1>4

\* Every other step leaves the rows of attachments alone.
LEMMA FileKept ==
  ASSUME [Next]_vars, UNCHANGED file => FALSE
  PROVE  \/ \E w \in Workers : StageAttachment(w) \/ ClaimAttachments(w)
         \/ (\E f \in Files : Ages(f)) \/ SweepDelete
  BY DEF Next, NewRequest, CreateDirect, Read, AddParticipant, Send, Upload, RemoveParticipant,
         SendStep, InsertMessage, CheckAttachments, Rollback, TouchConversation, CountUnread,
         ReadStep, ReadSince, ResetUnread, InsertReceipts, OtherStep, InsertParticipant,
         DeleteParticipant, InsertDirect, FillDirect, Cut, Sweep, SweepSelect, SweepUnlink,
         DeleteMessage, vars, talk, store, direct, history, bounds

\* Bytes come with uploads and go with sweeps.
LEMMA BytesKept ==
  ASSUME [Next]_vars, ~(bytes \subseteq bytes')
  PROVE  \E f \in sweep.todo : bytes' = bytes \ {f}
  BY DEF Next, NewRequest, CreateDirect, Read, AddParticipant, Send, Upload, RemoveParticipant,
         SendStep, InsertMessage, CheckAttachments, ClaimAttachments, Rollback, TouchConversation,
         CountUnread, ReadStep, ReadSince, ResetUnread, InsertReceipts, OtherStep, StageAttachment,
         InsertParticipant, DeleteParticipant, InsertDirect, FillDirect, Cut, Sweep, SweepSelect,
         SweepUnlink, SweepDelete, Ages, DeleteMessage, vars, talk, store, direct, history, bounds

\* A file is staged by the upload that names it, which nothing else names.
LEMMA StagingBegins ==
  ASSUME TypeOK, [Next]_vars, NEW w \in Workers, NEW f \in Files, Staging(w, f)', ~Staging(w, f)
  PROVE  \E u \in Users : Upload(w, u, f)
<1>1. ASSUME NEW v \in Workers, NewRequest(v) PROVE \E u \in Users : Upload(w, u, f)
<2>1. PICK p \in {"insert", "since", "stage", "add", "remove", "pair"} : Begins(v, p)
  BY <1>1, NewBegins
<2>2. v = w /\ p = "stage"
  BY <2>1 DEF Begins, Others, Staging
<2>3. PICK u \in Users, g \in Files : Upload(w, u, g)
  <3>1. ASSUME NEW u \in Users, Read(w, u) \/ AddParticipant(w, u) \/ (\E by \in Users : RemoveParticipant(w, by, u))
               \/ (\E files \in SUBSET Files : Send(w, u, files))
        PROVE  FALSE
    BY <2>1, <2>2, <3>1, NewFacts DEF Begins
  <3>2. ~CreateDirect(w)
    BY <2>1, <2>2, NewFacts, ChatAssumption DEF Begins
  <3> QED
    BY <1>1, <2>2, <3>1, <3>2 DEF NewRequest
<2>4. req'[w].files = {g}
  BY <2>3, NewFacts
<2> QED
  BY <2>3, <2>4 DEF Staging
<1>2. ASSUME NEW v \in Workers, SendStep(v) \/ ReadStep(v) \/ OtherStep(v) \/ Cut(v) PROVE FALSE
<2>1. pc'[v] # "stage" /\ Others(v)
  BY <1>2, SendFacts, OtherFacts DEF SendStep, ReadStep, OtherStep, Goes, Ends
<2> QED
  BY <2>1 DEF Others, Staging
<1>3. ASSUME Background PROVE FALSE
  BY <1>3, BackgroundFacts DEF Staging
<1> QED
  BY <1>1, <1>2, <1>3 DEF Next, Background

LEMMA StagingStep == TypeOK /\ StagingAlone /\ SweptIsOld /\ [Next]_vars => StagingAlone'
<1> SUFFICES ASSUME TypeOK, StagingAlone, SweptIsOld, [Next]_vars,
                    NEW w \in Workers, NEW f \in Files, Staging(w, f)'
             PROVE  f \in bytes' /\ ~file'[f].row /\ \A v \in Workers : Staging(v, f)' => v = w
  BY DEF StagingAlone, Staging
<1>1. CASE Staging(w, f)
<2>1. f \in bytes /\ ~file[f].row /\ \A v \in Workers : Staging(v, f) => v = w
  BY <1>1 DEF StagingAlone
<2>2. f \in bytes'
  BY <2>1, BytesKept DEF SweptIsOld
<2>3. \A v \in Workers : Staging(v, f)' => v = w
  <3>1. \A v \in Workers, u \in Users : ~Upload(v, u, f)
    BY <2>1 DEF Upload
  <3> QED
    BY <2>1, <3>1, StagingBegins
<2>4. ~file'[f].row
  <3>1. ASSUME NEW v \in Workers, StageAttachment(v) PROVE f \notin req[v].files
    <4>1. pc[v] = "stage" /\ Ends(v)
      BY <3>1, OtherFacts
    <4>2. v # w
      BY <4>1 DEF Ends, Staging
    <4> QED
      BY <2>1, <4>1, <4>2 DEF Staging
  <3> QED
    BY <2>1, <3>1, FileKept, FileFacts
<2> QED
  BY <2>2, <2>3, <2>4
<1>2. CASE ~Staging(w, f)
<2>1. PICK u \in Users : Upload(w, u, f)
  BY <1>2, StagingBegins
<2>2. f \in bytes' /\ ~file'[f].row /\ UNCHANGED file
  BY <2>1 DEF Upload, store
<2>3. \A v \in Workers \ {w} : ~Staging(v, f)'
  BY <2>1, NewFacts DEF Upload, Begins, Others, Staging
<2> QED
  BY <2>2, <2>3
<1> QED
  BY <1>1, <1>2

LEMMA SweepKept ==
  ASSUME [Next]_vars, UNCHANGED <<sweep, late>> => FALSE
  PROVE  \/ SweepSelect \/ SweepDelete \/ (\E f \in Files : SweepUnlink(f))
         \/ \E w \in Workers : ClaimAttachments(w)
  BY DEF Next, NewRequest, CreateDirect, Read, AddParticipant, Send, Upload, RemoveParticipant,
         SendStep, InsertMessage, CheckAttachments, Rollback, TouchConversation, CountUnread,
         ReadStep, ReadSince, ResetUnread, InsertReceipts, OtherStep, StageAttachment,
         InsertParticipant, DeleteParticipant, InsertDirect, FillDirect, Cut, Sweep, Ages,
         DeleteMessage, vars, talk, store, direct, history, bounds

LEMMA SweptStep == TypeOK /\ SendsOwn /\ StagingAlone /\ SweptIsOld /\ [Next]_vars => SweptIsOld'
<1> SUFFICES ASSUME TypeOK, SendsOwn, StagingAlone, SweptIsOld, [Next]_vars PROVE SweptIsOld'
  OBVIOUS
<1> USE DEF talk, store, direct, history, bounds
<1>0. sweep.found \subseteq Files /\ sweep.todo \subseteq sweep.found
  BY DEF TypeOK, SweptIsOld
<1>1. ASSUME SweepSelect PROVE SweptIsOld'
  BY <1>1 DEF SweepSelect, SweptIsOld
<1>2. ASSUME NEW g \in Files, SweepUnlink(g) PROVE SweptIsOld'
<2>1. sweep'.found = sweep.found /\ sweep'.todo \subseteq sweep.todo
  BY <1>2 DEF SweepUnlink, TypeOK
<2>2. bytes \ {g} \subseteq bytes' /\ file[g].old /\ UNCHANGED <<file, late>>
  BY <1>2 DEF SweepUnlink, SweptIsOld
<2> QED
  BY <2>1, <2>2 DEF SweptIsOld
<1>3. ASSUME SweepDelete PROVE SweptIsOld'
<2>1. sweep'.found = {} /\ sweep'.todo = {} /\ UNCHANGED <<bytes, late>>
  BY <1>3 DEF SweepDelete
<2> QED
  BY <1>3, <2>1, FileFacts DEF SweptIsOld
<1>4. ASSUME NEW w \in Workers, StageAttachment(w) PROVE SweptIsOld'
<2>1. \A f \in req[w].files : f \in bytes /\ ~file[f].row
  BY <1>4, RequestFields DEF StageAttachment, At, StagingAlone, Staging
<2>2. UNCHANGED <<bytes, late, sweep>>
  BY <1>4 DEF StageAttachment
<2> QED
  BY <1>0, <1>4, <2>1, <2>2, FileFacts DEF SweptIsOld
<1>5. ASSUME NEW w \in Workers, ClaimAttachments(w) PROVE SweptIsOld'
<2>1. UNCHANGED <<bytes, sweep>>
  BY <1>5 DEF ClaimAttachments
<2> QED
  BY <1>0, <1>5, <2>1, FileFacts DEF SweptIsOld
<1>6. ASSUME NEW f \in Files, Ages(f) PROVE SweptIsOld'
<2>1. UNCHANGED <<bytes, late, sweep>>
  BY <1>6 DEF Ages
<2> QED
  BY <1>0, <1>6, <2>1, FileFacts DEF SweptIsOld
<1>7. ASSUME UNCHANGED <<file, sweep, late>>, bytes \subseteq bytes' PROVE SweptIsOld'
  BY <1>7 DEF SweptIsOld
<1>8. \/ UNCHANGED bytes \/ (\E f \in Files : SweepUnlink(f))
      \/ \E w \in Workers, u \in Users, f \in Files : Upload(w, u, f)
  BY DEF Next, NewRequest, CreateDirect, Read, AddParticipant, Send, RemoveParticipant,
         SendStep, InsertMessage, CheckAttachments, ClaimAttachments, Rollback, TouchConversation,
         CountUnread, ReadStep, ReadSince, ResetUnread, InsertReceipts, OtherStep, StageAttachment,
         InsertParticipant, DeleteParticipant, InsertDirect, FillDirect, Cut, Sweep, SweepSelect,
         SweepDelete, Ages, DeleteMessage, vars
<1>9. ASSUME NEW w \in Workers, NEW u \in Users, NEW f \in Files, Upload(w, u, f)
      PROVE  bytes \subseteq bytes'
  BY <1>9 DEF Upload
<1> QED
  BY <1>1, <1>2, <1>3, <1>4, <1>5, <1>6, <1>7, <1>8, <1>9, FileKept, SweepKept

\* Named files change with the insertion of their message, deliveries with its last step.
LEMMA HistoryKept ==
  ASSUME TypeOK, [Next]_vars
  PROVE  /\ \A t \in Stamps : named'[t] = named[t] \/ \E w \in Workers : InsertMessage(w) /\ t = req[w].at
         /\ \A t \in delivered' : t \in delivered \/ \E w \in Workers : CountUnread(w) /\ t = req[w].at
<1> USE DEF talk, store, direct, history, bounds
<1>1. ASSUME NEW w \in Workers, InsertMessage(w)
      PROVE  UNCHANGED delivered /\ \A t \in Stamps \ {req[w].at} : named'[t] = named[t]
  BY <1>1 DEF InsertMessage, TypeOK
<1>2. ASSUME NEW w \in Workers, CountUnread(w)
      PROVE  UNCHANGED named /\ delivered' = delivered \cup {req[w].at}
  BY <1>2 DEF CountUnread
<1>3. \/ UNCHANGED <<named, delivered>>
      \/ \E w \in Workers : InsertMessage(w) \/ CountUnread(w)
<2>1. ASSUME NEW w \in Workers, NewRequest(w) PROVE UNCHANGED <<named, delivered>>
  BY <2>1 DEF NewRequest, CreateDirect, Read, AddParticipant, Send, Upload, RemoveParticipant
<2>2. ASSUME NEW w \in Workers, CheckAttachments(w) \/ ClaimAttachments(w) \/ Rollback(w) \/ TouchConversation(w)
      PROVE  UNCHANGED <<named, delivered>>
  BY <2>2 DEF CheckAttachments, ClaimAttachments, Rollback, TouchConversation
<2>3. ASSUME NEW w \in Workers, ReadStep(w) \/ OtherStep(w) \/ Cut(w) PROVE UNCHANGED <<named, delivered>>
  BY <2>3 DEF ReadStep, ReadSince, ResetUnread, InsertReceipts, OtherStep, StageAttachment,
         InsertParticipant, DeleteParticipant, InsertDirect, FillDirect, Cut
<2> QED
  BY <2>1, <2>2, <2>3, BackgroundFacts DEF Next, SendStep, Background
<1> QED
  BY <1>1, <1>2, <1>3

\* How a send gets past the check and the claim.
LEMMA PastTheClaim ==
  ASSUME TypeOK, [Next]_vars, NEW w \in Workers, pc'[w] \in {"claim", "touch", "count"}
  PROVE  /\ req'[w] = req[w]
         /\ \/ pc[w] \in {"claim", "touch", "count"}
            \/ pc'[w] = "touch" /\ req[w].files = {}
            \/ pc'[w] = "claim" /\ CheckAttachments(w) /\ \A f \in req[w].files : file[f].row
         /\ \/ pc'[w] = "claim" \/ pc[w] \in {"touch", "count"} \/ req[w].files = {}
            \/ pc[w] = "claim" /\ ClaimAttachments(w)
<1>1. ASSUME NEW v \in Workers, NewRequest(v) PROVE pc'[w] = pc[w] /\ req'[w] = req[w]
  BY <1>1, NewBegins DEF Begins, Others
<1>2. ASSUME NEW v \in Workers, ReadStep(v) \/ OtherStep(v) \/ Cut(v)
      PROVE  pc'[w] = pc[w] /\ req'[w] = req[w]
  BY <1>2, ElsewhereKeepsSends DEF SendPcs
<1>3. ASSUME NEW v \in Workers \ {w}, SendStep(v) PROVE pc'[w] = pc[w] /\ req'[w] = req[w]
  BY <1>3, SendFacts DEF SendStep, Goes, Ends, Others
<1>4. ASSUME Background PROVE pc'[w] = pc[w] /\ req'[w] = req[w]
  BY <1>4, BackgroundFacts
<1>5. CASE SendStep(w)
<2>1. CASE InsertMessage(w)
  BY <2>1, SendFacts DEF Goes
<2>2. CASE CheckAttachments(w)
  BY <2>2, SendFacts DEF Goes, Claimable
<2>3. CASE ClaimAttachments(w)
  BY <2>3, SendFacts DEF Goes
<2>4. CASE TouchConversation(w)
  BY <2>4, SendFacts DEF Goes
<2>5. CASE Rollback(w) \/ CountUnread(w)
  BY <2>5, SendFacts DEF Ends
<2> QED
  BY <1>5, <2>1, <2>2, <2>3, <2>4, <2>5 DEF SendStep
<1> QED
  BY <1>1, <1>2, <1>3, <1>4, <1>5 DEF Next, Background

\* Rows of attachments come from staging, and what is claimed stays claimed.
LEMMA RowsKept ==
  ASSUME TypeOK, [Next]_vars, NEW f \in Files, file'[f].row
  PROVE  \/ \E w \in Workers : Staging(w, f)
         \/ file[f].row /\ (file[f].msg # 0 => file'[f].msg # 0)
<1>1. CASE UNCHANGED file
  BY <1>1
<1>2. ASSUME NEW w \in Workers, StageAttachment(w), f \notin req[w].files PROVE file'[f] = file[f]
  BY <1>2, FileFacts
<1>3. ASSUME NEW w \in Workers, StageAttachment(w), f \in req[w].files PROVE Staging(w, f)
  BY <1>3 DEF Staging, StageAttachment, At
<1>4. CASE (\E w \in Workers : ClaimAttachments(w)) \/ (\E g \in Files : Ages(g)) \/ SweepDelete
  BY <1>4, FileFacts
<1> QED
  BY <1>1, <1>2, <1>3, <1>4, FileKept

LEMMA ClaimStep ==
  TypeOK /\ SendsOwn /\ StagingAlone /\ ClaimStays /\ [Next]_vars => ClaimStays'
<1> SUFFICES ASSUME TypeOK, SendsOwn, StagingAlone, ClaimStays, [Next]_vars PROVE ClaimStays'
  OBVIOUS
\* An attachment named by a request in progress or by a message is not uploaded again.
<1>1. ASSUME NEW f \in Files, \A v \in Workers : ~Staging(v, f),
             (\E w \in Workers : f \in req[w].files) \/ (\E t \in Stamps : f \in named[t])
      PROVE  \A v \in Workers : ~Staging(v, f)'
  BY <1>1, StagingBegins DEF Upload
<1>2. ASSUME NEW w \in Workers, pc'[w] \in {"claim", "touch", "count"}, NEW f \in req'[w].files
      PROVE  /\ f \in Files /\ f \in req[w].files
             /\ \A v \in Workers : ~Staging(v, f) /\ ~Staging(v, f)'
<2>1. f \in Files /\ f \in req[w].files
  BY <1>2, PastTheClaim, RequestFields
<2>2. \A v \in Workers : ~Staging(v, f)
  BY <1>2, <2>1, PastTheClaim DEF ClaimStays, StagingAlone
<2> QED
  BY <1>1, <2>1, <2>2
<1>3. ASSUME NEW w \in Workers, pc'[w] \in {"touch", "count"}, NEW f \in req'[w].files, file'[f].row
      PROVE  file'[f].msg # 0
<2>1. f \in Files /\ f \in req[w].files /\ \A v \in Workers : ~Staging(v, f)
  BY <1>2, <1>3
<2>2. file[f].row /\ (file[f].msg # 0 => file'[f].msg # 0)
  BY <1>3, <2>1, RowsKept
<2>3. CASE pc[w] \in {"touch", "count"}
  BY <2>1, <2>2, <2>3 DEF ClaimStays
<2>4. CASE pc[w] = "claim" /\ ClaimAttachments(w)
  <3>1. req[w].at \in Stamps /\ 0 \notin Stamps
    BY <2>4 DEF SendsOwn, Sending, Stamps
  <3> QED
    BY <2>1, <2>2, <2>4, <3>1, FileFacts
<2> QED
  BY <1>3, <2>1, <2>3, <2>4, PastTheClaim
<1>4. ASSUME NEW t \in delivered', NEW f \in named'[t] PROVE \A v \in Workers : ~Staging(v, f)'
<2>1. CASE t \in delivered
  <3>1. t \in Stamps /\ named'[t] = named[t]
    BY <2>1, HistoryKept, SendFacts DEF TypeOK, SendsOwn, Sending, Goes
  <3>2. f \in Files /\ f \in named[t]
    BY <1>4, <3>1 DEF TypeOK
  <3> QED
    BY <1>1, <2>1, <3>1, <3>2 DEF ClaimStays
<2>2. CASE t \notin delivered
  <3>1. PICK w \in Workers : CountUnread(w) /\ t = req[w].at
    BY <1>4, <2>2, HistoryKept
  <3>2. pc[w] = "count" /\ named'[t] = named[t] /\ named[t] = req[w].files
    BY <3>1, SendFacts DEF CountUnread, SendsOwn, Sending
  <3>3. f \in Files /\ f \in req[w].files
    BY <1>4, <3>2, RequestFields
  <3> QED
    BY <1>1, <3>2, <3>3 DEF ClaimStays
<2> QED
  BY <2>1, <2>2
<1> QED
  BY <1>2, <1>3, <1>4 DEF ClaimStays, Staging

LEMMA NamedStep ==
  TypeOK /\ SendsOwn /\ StagingAlone /\ ClaimStays /\ NamedIsAttached /\ [Next]_vars => NamedIsAttached'
<1> SUFFICES ASSUME TypeOK, SendsOwn, StagingAlone, ClaimStays, NamedIsAttached, [Next]_vars,
                    NEW f \in Files
             PROVE  /\ file'[f].msg # 0 => f \in named'[file'[f].msg]
                    /\ file'[f].row /\ (\E t \in delivered' : f \in named'[t]) => file'[f].msg # 0
  BY DEF NamedIsAttached
<1>0. file[f].msg \in Times /\ 0 \notin Stamps /\ Stamps = Times \ {0}
  BY Clock DEF TypeOK, Attachments, Stamps, Times
\* A message being inserted has named nothing yet.
<1>1. \A t \in Stamps : named[t] # {} => named'[t] = named[t]
  BY HistoryKept, SendFacts DEF SendsOwn, Sending, Goes
<1>2. ASSUME file'[f].msg # 0 PROVE f \in named'[file'[f].msg]
<2>1. CASE file'[f].msg = file[f].msg
  BY <1>0, <1>1, <1>2, <2>1 DEF NamedIsAttached
<2>2. CASE file'[f].msg # file[f].msg
  <3>1. PICK w \in Workers : ClaimAttachments(w) /\ f \in req[w].files /\ file'[f].msg = req[w].at
    BY <1>2, <2>2, FileKept, FileFacts
  <3>2. UNCHANGED named /\ pc[w] = "claim"
    BY <3>1, SendFacts DEF ClaimAttachments, Goes
  <3> QED
    BY <3>1, <3>2 DEF SendsOwn, Sending
<2> QED
  BY <2>1, <2>2
<1>3. ASSUME file'[f].row, NEW t \in delivered', f \in named'[t] PROVE file'[f].msg # 0
<2>1. CASE t \in delivered
  <3>1. t \in Stamps /\ named'[t] = named[t]
    BY <2>1, HistoryKept, SendFacts DEF TypeOK, SendsOwn, Sending, Goes
  <3>2. \A v \in Workers : ~Staging(v, f)
    BY <1>3, <2>1, <3>1 DEF ClaimStays
  <3> QED
    BY <1>3, <2>1, <3>1, <3>2, RowsKept DEF NamedIsAttached
<2>2. CASE t \notin delivered
  <3>1. PICK w \in Workers : CountUnread(w) /\ t = req[w].at
    BY <1>3, <2>2, HistoryKept
  <3>2. pc[w] = "count" /\ named'[t] = named[t] /\ named[t] = req[w].files
    BY <3>1, SendFacts DEF CountUnread, SendsOwn, Sending
  <3>3. f \in req[w].files /\ \A v \in Workers : ~Staging(v, f)
    BY <1>3, <3>2 DEF ClaimStays
  <3> QED
    BY <1>3, <3>2, <3>3, RowsKept DEF ClaimStays
<2> QED
  BY <2>1, <2>2
<1> QED
  BY <1>2, <1>3

-----------------------------------------------------------------------------
(* Requests that meet no other of their kind *)

\* What a request that begins has met is remembered.
LEMMA Overlaps ==
  ASSUME TypeOK, NEW w \in Workers
  PROVE  /\ \A u \in Users : \A files \in SUBSET Files : Send(w, u, files) =>
              /\ "send" \notin overlapped' => \A v \in Workers : ~Sending(v)
              /\ "read" \notin overlapped' => \A v \in Workers : ~Reading(v)
         /\ \A u \in Users : Read(w, u) /\ "read" \notin overlapped' =>
              \A v \in Workers : ~Sending(v) /\ ~(Reading(v) /\ req[v].user = u)
         /\ CreateDirect(w) =>
              pairs = 0 /\ ("pair" \notin overlapped' => \A v \in Workers : ~Pairing(v))
  BY DEF Send, Read, CreateDirect, Begin

LEMMA OverlapKept == TypeOK /\ [Next]_vars => overlapped \subseteq overlapped'
<1> SUFFICES ASSUME TypeOK, [Next]_vars PROVE overlapped \subseteq overlapped'
  OBVIOUS
<1>1. ASSUME NEW w \in Workers, NewRequest(w) PROVE overlapped \subseteq overlapped'
  BY <1>1 DEF NewRequest, CreateDirect, Read, AddParticipant, Send, Upload, RemoveParticipant, Begin
<1>2. ASSUME NEW w \in Workers, SendStep(w) PROVE overlapped \subseteq overlapped'
  BY <1>2 DEF SendStep, InsertMessage, CheckAttachments, ClaimAttachments, Rollback,
              TouchConversation, CountUnread
<1>3. ASSUME NEW w \in Workers, ReadStep(w) \/ OtherStep(w) \/ Cut(w) PROVE overlapped \subseteq overlapped'
  BY <1>3 DEF ReadStep, ReadSince, ResetUnread, InsertReceipts, OtherStep, StageAttachment,
         InsertParticipant, DeleteParticipant, InsertDirect, FillDirect, Cut
<1> QED
  BY <1>1, <1>2, <1>3, BackgroundFacts DEF Next, Background

\* A request that begins is a send, a markRead, or neither.
LEMMA NewCases ==
  ASSUME TypeOK, NEW w \in Workers, NewRequest(w)
  PROVE  \/ \E u \in Users, files \in SUBSET Files : Send(w, u, files)
         \/ \E u \in Users : Read(w, u)
         \/ CreateDirect(w)
         \/ pc[w] = "idle" /\ pc'[w] \in {"stage", "add", "remove"} /\ Others(w)
<1>1. ASSUME NEW u \in Users, NEW f \in Files, Upload(w, u, f)
      PROVE  pc[w] = "idle" /\ pc'[w] \in {"stage", "add", "remove"} /\ Others(w)
  BY <1>1, NewFacts DEF Begins
<1>2. ASSUME NEW u \in Users, AddParticipant(w, u)
      PROVE  pc[w] = "idle" /\ pc'[w] \in {"stage", "add", "remove"} /\ Others(w)
  BY <1>2, NewFacts DEF Begins
<1>3. ASSUME NEW u \in Users, NEW by \in Users, RemoveParticipant(w, by, u)
      PROVE  pc[w] = "idle" /\ pc'[w] \in {"stage", "add", "remove"} /\ Others(w)
  BY <1>3, NewFacts DEF Begins
<1> QED
  BY <1>1, <1>2, <1>3 DEF NewRequest

LEMMA NewKeeps ==
  ASSUME NEW w \in Workers, NewRequest(w)
  PROVE  UNCHANGED <<members, joined, unread, lastRead, lastMessage, message, receipts, file, pairs,
                     halves, named, delivered, late, cuts>>
  BY DEF NewRequest, CreateDirect, Read, AddParticipant, Send, Upload, RemoveParticipant, talk,
         store, direct, history, bounds

SendsInv == SendsAlone /\ LastMessageIsNewest

LEMMA SendsStep == TypeOK /\ NothingLater /\ SendsOwn /\ SendsInv /\ [Next]_vars => SendsInv'
<1> SUFFICES ASSUME TypeOK, NothingLater, SendsOwn, SendsInv, [Next]_vars PROVE SendsInv'
  OBVIOUS
<1> USE DEF talk, store, direct, history, bounds
<1>0. /\ \A v \in Workers : (Sending(v)' <=> pc'[v] \in SendPcs) /\ (Sending(v) <=> pc[v] \in SendPcs)
      /\ "send" \notin overlapped' => "send" \notin overlapped
  BY OverlapKept DEF Sending, SendPcs
<1>1. ASSUME \A v \in Workers : pc'[v] \in SendPcs => pc'[v] = pc[v] /\ req'[v] = req[v],
             UNCHANGED <<delivered, lastMessage>>
      PROVE  SendsInv'
  BY <1>0, <1>1 DEF SendsInv, SendsAlone, LastMessageIsNewest
<1>2. ASSUME NEW w \in Workers, NewRequest(w) PROVE SendsInv'
<2>1. UNCHANGED <<delivered, lastMessage>>
  BY <1>2, NewKeeps
<2>2. CASE pc'[w] \notin SendPcs /\ Others(w)
  BY <1>1, <2>1, <2>2 DEF Others
<2>3. ASSUME NEW u \in Users, NEW files \in SUBSET Files, Send(w, u, files) PROVE SendsInv'
  <3>1. Begins(w, "insert") /\ req'[w].at = clock + 1 /\ clock \in Nat /\ delivered \subseteq Nat
    BY <2>3, NewFacts, Clock DEF TypeOK
  <3>2. \A t \in delivered : t < clock + 1
    BY <3>1 DEF NothingLater
  <3>3. "send" \notin overlapped' => \A v \in Workers : ~Sending(v)
    BY <2>3, Overlaps
  <3> QED
    BY <1>0, <2>1, <3>1, <3>2, <3>3 DEF SendsInv, SendsAlone, LastMessageIsNewest, Begins, Others
<2>4. (\E u \in Users, files \in SUBSET Files : Send(w, u, files)) \/ (pc'[w] \notin SendPcs /\ Others(w))
  BY <1>2, NewCases, NewFacts, ChatAssumption DEF Begins, SendPcs
<2> QED
  BY <2>2, <2>3, <2>4
<1>3. ASSUME NEW w \in Workers, SendStep(w), "send" \notin overlapped' PROVE SendsInv'
<2>0. /\ Sending(w) /\ \A v \in Workers : Sending(v) => v = w
      /\ \A t \in delivered : t < req[w].at /\ t <= lastMessage
      /\ pc[w] = "count" => lastMessage = req[w].at
      /\ req[w].at \in Nat /\ lastMessage \in Nat /\ delivered \subseteq Nat
  BY <1>0, <1>3, SendFacts, Clock DEF SendStep, Goes, Sending, SendsInv, SendsAlone,
                                      LastMessageIsNewest, SendsOwn, TypeOK
<2>1. Others(w) /\ \A v \in Workers \ {w} : pc'[v] \notin SendPcs
  BY <1>0, <1>3, <2>0, SendFacts DEF SendStep, Goes, Ends, Others
<2>2. ASSUME InsertMessage(w) \/ CheckAttachments(w) \/ ClaimAttachments(w) PROVE SendsInv'
  <3>1. pc'[w] # "count" /\ req'[w] = req[w]
    BY <2>2, SendFacts DEF Goes
  <3>2. UNCHANGED <<delivered, lastMessage>>
    BY <2>2 DEF InsertMessage, CheckAttachments, ClaimAttachments
  <3> QED
    BY <1>0, <2>0, <2>1, <3>1, <3>2 DEF SendsInv, SendsAlone, LastMessageIsNewest
<2>3. ASSUME Rollback(w) PROVE SendsInv'
  BY <1>1, <2>1, <2>3, SendFacts DEF Rollback, Ends, SendPcs
<2>4. ASSUME TouchConversation(w) PROVE SendsInv'
  <3>1. req'[w] = req[w] /\ lastMessage' = req[w].at /\ UNCHANGED delivered
    BY <2>4, SendFacts DEF TouchConversation, Goes
  <3> QED
    BY <1>0, <2>0, <2>1, <3>1 DEF SendsInv, SendsAlone, LastMessageIsNewest
<2>5. ASSUME CountUnread(w) PROVE SendsInv'
  <3>1. pc[w] = "count" /\ pc'[w] = "idle" /\ UNCHANGED lastMessage /\ delivered' = delivered \cup {req[w].at}
    BY <2>5, SendFacts DEF CountUnread, Ends
  <3>2. \A v \in Workers : ~Sending(v)'
    BY <1>0, <2>1, <3>1 DEF SendPcs
  <3>3. SendsAlone'
    BY <3>2 DEF SendsAlone
  <3>4. \A t \in delivered' : t <= lastMessage'
    BY <2>0, <3>1
  <3> QED
    BY <3>3, <3>4 DEF SendsInv, LastMessageIsNewest
<2> QED
  BY <1>3, <2>2, <2>3, <2>4, <2>5 DEF SendStep
<1>4. ASSUME NEW w \in Workers, ReadStep(w) \/ OtherStep(w) \/ Cut(w) PROVE SendsInv'
<2>1. UNCHANGED <<delivered, lastMessage>>
  BY <1>4 DEF ReadStep, ReadSince, ResetUnread, InsertReceipts, OtherStep, StageAttachment,
              InsertParticipant, DeleteParticipant, InsertDirect, FillDirect, Cut
<2> QED
  BY <1>1, <1>4, <2>1, ElsewhereKeepsSends
<1>5. ASSUME Background PROVE SendsInv'
  BY <1>1, <1>5, BackgroundFacts
<1>6. "send" \in overlapped' => SendsInv'
  BY DEF SendsInv, SendsAlone, LastMessageIsNewest
<1> QED
  BY <1>2, <1>3, <1>4, <1>5, <1>6 DEF Next, Background

PairsInv == PairsAlone /\ OneDirect

LEMMA PairsStep == TypeOK /\ PairsInv /\ [Next]_vars => PairsInv'
<1> SUFFICES ASSUME TypeOK, PairsInv, [Next]_vars PROVE PairsInv'
  OBVIOUS
<1> USE DEF talk, store, direct, history, bounds
<1>0. "pair" \notin overlapped' => "pair" \notin overlapped
  BY OverlapKept
<1>1. ASSUME \A v \in Workers : Pairing(v)' => Pairing(v), UNCHANGED pairs PROVE PairsInv'
  BY <1>0, <1>1 DEF PairsInv, PairsAlone, OneDirect
<1>2. ASSUME NEW w \in Workers, NewRequest(w) PROVE PairsInv'
<2>1. CASE CreateDirect(w)
  <3>1. Begins(w, "pair") /\ UNCHANGED pairs
    BY <2>1, NewFacts, ChatAssumption DEF CreateDirect
  <3>2. pairs = 0 /\ ("pair" \notin overlapped' => \A v \in Workers : ~Pairing(v))
    BY <2>1, Overlaps
  <3> QED
    BY <3>1, <3>2 DEF PairsInv, PairsAlone, OneDirect, Pairing, Begins, Others
<2>2. CASE ~CreateDirect(w)
  <3>1. pc'[w] \notin {"pair", "fill"} /\ Others(w)
    BY <1>2, <2>2, NewCases, NewFacts DEF Begins
  <3> QED
    BY <1>1, <1>2, <3>1, NewKeeps DEF Pairing, Others
<2> QED
  BY <2>1, <2>2
<1>3. ASSUME NEW w \in Workers, SendStep(w) PROVE PairsInv'
<2>1. Others(w) /\ pc'[w] \notin {"pair", "fill"}
  BY <1>3, SendFacts DEF SendStep, Goes, Ends
<2>2. UNCHANGED pairs
  BY <1>3 DEF SendStep, InsertMessage, CheckAttachments, ClaimAttachments, Rollback,
              TouchConversation, CountUnread
<2> QED
  BY <1>1, <2>1, <2>2 DEF Pairing, Others
<1>4. ASSUME NEW w \in Workers, ReadStep(w) \/ OtherStep(w) \/ Cut(w), ~FillDirect(w) PROVE PairsInv'
<2>1. Others(w) /\ (pc'[w] \in {"pair", "fill"} => pc[w] \in {"pair", "fill"})
  BY <1>4, OtherFacts DEF ReadStep, OtherStep, Goes, Ends
<2>2. UNCHANGED pairs
  BY <1>4 DEF ReadStep, ReadSince, ResetUnread, InsertReceipts, OtherStep, StageAttachment,
              InsertParticipant, DeleteParticipant, InsertDirect, Cut
<2> QED
  BY <1>1, <2>1, <2>2 DEF Pairing, Others
<1>5. ASSUME NEW w \in Workers, FillDirect(w) PROVE PairsInv'
<2>1. pc[w] = "fill" /\ pc'[w] = "idle" /\ Others(w) /\ pairs' = pairs + 1 /\ UNCHANGED overlapped
  BY <1>5, OtherFacts DEF FillDirect, Ends
<2> QED
  BY <2>1 DEF PairsInv, PairsAlone, OneDirect, Pairing, Others
<1>6. ASSUME Background PROVE PairsInv'
  BY <1>1, <1>6, BackgroundFacts DEF Pairing
<1> QED
  BY <1>2, <1>3, <1>4, <1>5, <1>6 DEF Next, Background, OtherStep

LEMMA ReadsStep == TypeOK /\ NothingLater /\ SendsOwn /\ ReadsAlone /\ [Next]_vars => ReadsAlone'
<1> SUFFICES ASSUME TypeOK, NothingLater, SendsOwn, ReadsAlone, [Next]_vars, "read" \notin overlapped'
             PROVE  ReadsAlone'
  BY DEF ReadsAlone
<1> USE DEF talk, store, direct, history, bounds
<1> DEFINE ReadPcs == {"since", "reset", "receipts"}
<1>0. /\ \A v \in Workers : (Sending(v)' <=> pc'[v] \in SendPcs) /\ (Sending(v) <=> pc[v] \in SendPcs)
      /\ \A v \in Workers : (Reading(v)' <=> pc'[v] \in ReadPcs) /\ (Reading(v) <=> pc[v] \in ReadPcs)
      /\ "read" \notin overlapped
      /\ clock \in Nat /\ delivered \subseteq Nat /\ \A u \in Users : lastRead[u] \in Nat
  BY OverlapKept, Clock DEF Sending, SendPcs, Reading, TypeOK
<1>1. ASSUME \A v \in Workers : pc'[v] \in SendPcs => Sending(v) /\ req'[v] = req[v],
             \A v \in Workers : pc'[v] \in ReadPcs =>
               Reading(v) /\ req'[v].user = req[v].user /\ req'[v].at = req[v].at,
             (\E v \in Workers : Sending(v)) \/ UNCHANGED delivered,
             (\E v \in Workers : Reading(v)) \/ \A u \in Users : lastRead'[u] \in {0, lastRead[u]}
      PROVE  ReadsAlone'
<2>1. \A w \in Workers : Sending(w) => req[w].at > 0
  BY DEF SendsOwn, Stamps
<2>2. ASSUME NEW w \in Workers, Sending(w)' PROVE \A u \in Users : lastRead'[u] < req'[w].at
  <3>1. Sending(w) /\ req'[w] = req[w] /\ \A v \in Workers : ~Reading(v)
    BY <1>0, <1>1, <2>2 DEF ReadsAlone
  <3> QED
    BY <1>0, <1>1, <2>1, <3>1 DEF ReadsAlone
<2>3. ASSUME NEW w \in Workers, Reading(w)'
      PROVE  /\ \A t \in delivered' : t < req'[w].at
             /\ \A v \in Workers : ~Sending(v)' /\ (Reading(v)' /\ req'[v].user = req'[w].user => v = w)
  <3>1. Reading(w) /\ req'[w].user = req[w].user /\ req'[w].at = req[w].at /\ \A v \in Workers : ~Sending(v)
    BY <1>0, <1>1, <2>3 DEF ReadsAlone
  <3> QED
    BY <1>0, <1>1, <3>1 DEF ReadsAlone
<2> QED
  BY <2>2, <2>3 DEF ReadsAlone
<1>2. ASSUME NEW w \in Workers, NewRequest(w) PROVE ReadsAlone'
<2>1. UNCHANGED <<delivered, lastRead>> /\ pc[w] = "idle" /\ Others(w)
  BY <1>2, NewKeeps, NewBegins DEF Begins
<2>2. CASE pc'[w] \notin SendPcs \cup ReadPcs
  BY <1>0, <1>1, <2>1, <2>2 DEF Others
<2>3. ASSUME NEW u \in Users, NEW files \in SUBSET Files, Send(w, u, files) PROVE ReadsAlone'
  <3>1. pc'[w] = "insert" /\ req'[w].at = clock + 1
    BY <2>3, NewFacts DEF Begins
  <3>2. \A v \in Workers : ~Reading(v)
    BY <2>3, Overlaps
  <3>3. \A v \in Users : lastRead[v] < clock + 1
    BY <1>0 DEF NothingLater
  <3>4. \A v \in Workers : ~Reading(v)'
    BY <1>0, <2>1, <3>1, <3>2 DEF Others
  <3>5. \A v \in Workers \ {w} : Sending(v)' => Sending(v) /\ req'[v] = req[v]
    BY <1>0, <2>1 DEF Others
  <3> QED
    BY <1>0, <2>1, <3>1, <3>3, <3>4, <3>5 DEF ReadsAlone
<2>4. ASSUME NEW u \in Users, Read(w, u) PROVE ReadsAlone'
  <3>1. pc'[w] = "since" /\ req'[w].at = clock + 1 /\ req'[w].user = u
    BY <2>4, NewFacts DEF Begins
  <3>2. \A v \in Workers : ~Sending(v) /\ ~(Reading(v) /\ req[v].user = u)
    BY <2>4, Overlaps
  <3>3. \A t \in delivered : t < clock + 1
    BY <1>0 DEF NothingLater
  <3>4. \A v \in Workers : ~Sending(v)'
    BY <1>0, <2>1, <3>1, <3>2 DEF Others, SendPcs
  <3>5. \A v \in Workers \ {w} : Reading(v)' => Reading(v) /\ req'[v] = req[v] /\ req[v].user # u
    BY <1>0, <2>1, <3>2 DEF Others
  <3> QED
    BY <1>0, <2>1, <3>1, <3>3, <3>4, <3>5 DEF ReadsAlone
<2>5. CASE CreateDirect(w)
  BY <2>2, <2>5, NewFacts, ChatAssumption DEF Begins, SendPcs
<2> QED
  BY <1>2, <2>2, <2>3, <2>4, <2>5, NewCases DEF SendPcs
<1>3. ASSUME NEW w \in Workers, SendStep(w) PROVE ReadsAlone'
<2>1. Sending(w) /\ Others(w) /\ pc'[w] \notin ReadPcs /\ (pc'[w] \in SendPcs => req'[w] = req[w])
  BY <1>0, <1>3, SendFacts DEF SendStep, Goes, Ends, SendPcs
<2>2. UNCHANGED lastRead
  BY <1>3 DEF SendStep, InsertMessage, CheckAttachments, ClaimAttachments, Rollback,
              TouchConversation, CountUnread
<2> QED
  BY <1>0, <1>1, <2>1, <2>2 DEF Others
<1>4. ASSUME NEW w \in Workers, ReadStep(w) PROVE ReadsAlone'
<2>1. /\ Reading(w) /\ Others(w) /\ pc'[w] \notin SendPcs
      /\ pc'[w] \in ReadPcs => req'[w].user = req[w].user /\ req'[w].at = req[w].at
  BY <1>0, <1>4, OtherFacts DEF ReadStep, Goes, Ends, SendPcs
<2>2. UNCHANGED delivered
  BY <1>4 DEF ReadStep, ReadSince, ResetUnread, InsertReceipts
<2> QED
  BY <1>0, <1>1, <2>1, <2>2 DEF Others
<1>5. ASSUME NEW w \in Workers, OtherStep(w) \/ Cut(w) PROVE ReadsAlone'
<2>1. Others(w) /\ pc'[w] \notin SendPcs \cup ReadPcs
  BY <1>5, OtherFacts DEF OtherStep, Goes, Ends, SendPcs
<2>2. UNCHANGED delivered /\ \A u \in Users : lastRead'[u] \in {0, lastRead[u]}
  BY <1>5 DEF OtherStep, StageAttachment, InsertParticipant, DeleteParticipant, InsertDirect,
              FillDirect, Cut, TypeOK
<2> QED
  BY <1>0, <1>1, <2>1, <2>2 DEF Others
<1>6. ASSUME Background PROVE ReadsAlone'
  BY <1>0, <1>1, <1>6, BackgroundFacts
<1> QED
  BY <1>2, <1>3, <1>4, <1>5, <1>6 DEF Next, Background

-----------------------------------------------------------------------------
(* Between the badge and the receipts *)

\* What SeenSoFar says of a message and a member.
Seen(u, t) ==
  /\ (\A w \in Workers : ~(pc[w] = "receipts" /\ req[w].user = u)) =>
       /\ t <= lastRead[u] => <<t, u>> \in receipts
       /\ t > lastRead[u] => unread[u] > 0
  /\ \A w \in Workers : req[w].user = u =>
       /\ pc[w] = "reset" => req[w].since = lastRead[u]
       /\ pc[w] = "receipts" =>
            t <= lastRead[u] /\ (t <= req[w].since => <<t, u>> \in receipts)

\* Nothing is lost where the badge and the receipts do not shrink and no markRead of
\* the user moves.
LEMMA SeenKept ==
  ASSUME NEW u \in Users, NEW t \in Stamps, Seen(u, t), UNCHANGED lastRead[u],
         unread[u] > 0 => unread'[u] > 0,
         <<t, u>> \in receipts => <<t, u>> \in receipts',
         \A v \in Workers : pc'[v] \in {"reset", "receipts"} /\ req'[v].user = u =>
           pc'[v] = pc[v] /\ req'[v] = req[v],
         \A v \in Workers : pc[v] = "receipts" /\ req[v].user = u =>
           pc'[v] = "receipts" /\ req'[v] = req[v]
  PROVE  Seen(u, t)'
  BY DEF Seen

\* The contents of a message that has been delivered change only when it is deleted.
LEMMA MessageKept ==
  ASSUME TypeOK, SendsOwn, [Next]_vars, NEW t \in delivered
  PROVE  /\ Live(t)' => Live(t) /\ message'[t].sender = message[t].sender
         /\ \A u \in Users : <<t, u>> \in receipts => <<t, u>> \in receipts'
<1> USE DEF talk, store, direct, history, bounds
<1>0. t \in Stamps
  BY DEF TypeOK
<1>1. ASSUME NEW w \in Workers, InsertMessage(w) PROVE message'[t] = message[t] /\ UNCHANGED receipts
<2>1. req[w].at # t
  BY <1>1, SendFacts DEF SendsOwn, Sending, Goes
<2> QED
  BY <1>0, <1>1, <2>1 DEF InsertMessage, TypeOK
<1>2. ASSUME NEW w \in Workers, Rollback(w)
      PROVE  message'[t] = message[t] /\ \A u \in Users : <<t, u>> \in receipts => <<t, u>> \in receipts'
<2>1. req[w].at # t
  BY <1>2, SendFacts DEF SendsOwn, Sending
<2> QED
  BY <1>0, <1>2, <2>1 DEF Rollback, TypeOK
<1>3. ASSUME NEW s \in Stamps, DeleteMessage(s)
      PROVE  (Live(t)' => message'[t] = message[t]) /\ UNCHANGED receipts
<2>1. CASE s = t
  <3>1. message'[t].state = "deleted"
    BY <1>0, <1>3, <2>1 DEF DeleteMessage, TypeOK, Messages
  <3> QED
    BY <1>3, <3>1 DEF DeleteMessage, Live
<2>2. CASE s # t
  BY <1>0, <1>3, <2>2 DEF DeleteMessage, TypeOK
<2> QED
  BY <2>1, <2>2
<1>4. ASSUME NEW w \in Workers, InsertReceipts(w) PROVE UNCHANGED message /\ receipts \subseteq receipts'
  BY <1>4 DEF InsertReceipts
<1>5. \/ UNCHANGED <<message, receipts>>
      \/ \E w \in Workers : InsertMessage(w) \/ Rollback(w) \/ InsertReceipts(w)
      \/ \E s \in Stamps : DeleteMessage(s)
<2>1. ASSUME NEW w \in Workers, CheckAttachments(w) \/ ClaimAttachments(w) \/ TouchConversation(w) \/ CountUnread(w)
      PROVE  UNCHANGED <<message, receipts>>
  BY <2>1 DEF CheckAttachments, ClaimAttachments, TouchConversation, CountUnread
<2>2. ASSUME NEW w \in Workers, ReadSince(w) \/ ResetUnread(w) \/ OtherStep(w) \/ Cut(w)
      PROVE  UNCHANGED <<message, receipts>>
  BY <2>2 DEF ReadSince, ResetUnread, OtherStep, StageAttachment, InsertParticipant,
              DeleteParticipant, InsertDirect, FillDirect, Cut
<2>3. ASSUME Sweep \/ (\E f \in Files : Ages(f)) \/ UNCHANGED vars PROVE UNCHANGED <<message, receipts>>
  BY <2>3 DEF Sweep, SweepSelect, SweepUnlink, SweepDelete, Ages, vars
<2>4. ASSUME NEW w \in Workers, NewRequest(w) PROVE UNCHANGED <<message, receipts>>
  BY <2>4, NewKeeps
<2> QED
  BY <2>1, <2>2, <2>3, <2>4 DEF Next, SendStep, ReadStep
<1> QED
  BY <1>1, <1>2, <1>3, <1>4, <1>5 DEF Live

\* Members join with the clock, so what they have to notice they had to notice before,
\* unless it has just been delivered.
LEMMA OwedBefore ==
  ASSUME TypeOK, NothingLater, SendsOwn, [Next]_vars, NEW u \in Users, NEW t \in delivered, Owed(u, t)'
  PROVE  Owed(u, t)
<1> USE DEF talk, store, direct, history, bounds
<1>1. Live(t) /\ message[t].sender # u
  BY MessageKept DEF Owed
<1>2. ASSUME NEW w \in Workers, InsertParticipant(w) PROVE u \in members /\ t > joined[u]
<2>1. t <= clock /\ t \in Nat /\ clock \in Nat /\ \A v \in Users : joined'[v] = IF v \in {req[w].user} \ members THEN clock ELSE joined[v]
  BY <1>2, Clock DEF NothingLater, InsertParticipant, TypeOK
<2> QED
  BY <1>2, <2>1 DEF Owed, InsertParticipant
<1>3. ASSUME NEW w \in Workers, DeleteParticipant(w) PROVE u \in members /\ t > joined[u]
  BY <1>3 DEF Owed, DeleteParticipant
<1>4. \/ UNCHANGED <<members, joined>>
      \/ \E w \in Workers : InsertParticipant(w) \/ DeleteParticipant(w)
<2>1. ASSUME NEW w \in Workers, SendStep(w) \/ ReadStep(w) PROVE UNCHANGED <<members, joined>>
  BY <2>1 DEF SendStep, InsertMessage, CheckAttachments, ClaimAttachments, Rollback,
              TouchConversation, CountUnread, ReadStep, ReadSince, ResetUnread, InsertReceipts
<2>2. ASSUME NEW w \in Workers, StageAttachment(w) \/ InsertDirect(w) \/ FillDirect(w) \/ Cut(w)
      PROVE  UNCHANGED <<members, joined>>
  BY <2>2 DEF StageAttachment, InsertDirect, FillDirect, Cut
<2> QED
  BY <2>1, <2>2, NewKeeps, BackgroundFacts DEF Next, OtherStep, Background
<1> QED
  BY <1>1, <1>2, <1>3, <1>4 DEF Owed
LEMMA SeenStep ==
  TypeOK /\ NothingLater /\ SendsOwn /\ ReadsAlone /\ SeenSoFar /\ [Next]_vars => SeenSoFar'
<1> SUFFICES ASSUME TypeOK, NothingLater, SendsOwn, ReadsAlone, SeenSoFar, [Next]_vars,
                    "read" \notin overlapped', cuts' = 0,
                    NEW u \in Users, NEW t \in Stamps, Owed(u, t)'
             PROVE  Seen(u, t)'
  BY DEF SeenSoFar, Seen
<1> USE DEF talk, store, direct, history, bounds
<1>0. "read" \notin overlapped /\ t \in Nat /\ \A v \in Workers : Reading(v) <=> pc[v] \in {"since", "reset", "receipts"}
  BY OverlapKept, Clock DEF Reading
<1>1. cuts = 0 /\ \A w \in Workers : ~Cut(w)
<2>1. ASSUME NEW w \in Workers, Cut(w) PROVE FALSE
  BY <2>1 DEF Cut, TypeOK
<2>2. ASSUME NEW w \in Workers, SendStep(w) \/ ReadStep(w) \/ OtherStep(w) PROVE UNCHANGED cuts
  BY <2>2 DEF SendStep, InsertMessage, CheckAttachments, ClaimAttachments, Rollback, TouchConversation,
              CountUnread, ReadStep, ReadSince, ResetUnread, InsertReceipts, OtherStep, StageAttachment,
              InsertParticipant, DeleteParticipant, InsertDirect, FillDirect
<2> QED
  BY <2>1, <2>2, NewKeeps, BackgroundFacts DEF Next, Background
<1>2. ASSUME t \in delivered PROVE Seen(u, t)
  BY <1>0, <1>1, <1>2, OwedBefore DEF SeenSoFar, Seen
<1>3. t \in delivered => (<<t, u>> \in receipts => <<t, u>> \in receipts')
  BY MessageKept
<1>4. ASSUME NEW w \in Workers, NewRequest(w) PROVE Seen(u, t)'
<2>1. UNCHANGED <<delivered, unread, lastRead, receipts>> /\ pc[w] = "idle" /\ Others(w)
  BY <1>4, NewKeeps, NewBegins DEF Begins
<2>2. pc'[w] \notin {"reset", "receipts"}
  BY <1>4, NewBegins DEF Begins
<2>3. Seen(u, t)
  BY <1>2, <2>1 DEF Owed
<2> QED
  BY <2>1, <2>2, <2>3, SeenKept DEF Others
<1>5. ASSUME NEW w \in Workers, SendStep(w), ~CountUnread(w) PROVE Seen(u, t)'
<2>1. UNCHANGED <<delivered, unread, lastRead>>
  BY <1>5 DEF SendStep, InsertMessage, CheckAttachments, ClaimAttachments, Rollback, TouchConversation
<2>2. Others(w) /\ {pc[w], pc'[w]} \cap {"reset", "receipts"} = {}
  BY <1>5, SendFacts DEF SendStep, Goes, Ends
<2>3. t \in delivered
  BY <2>1 DEF Owed
<2> QED
  BY <1>2, <1>3, <2>1, <2>2, <2>3, SeenKept DEF Others
<1>6. ASSUME NEW w \in Workers, CountUnread(w) PROVE Seen(u, t)'
<2>1. /\ delivered' = delivered \cup {req[w].at} /\ UNCHANGED <<lastRead, members, message, receipts>>
      /\ unread' = [v \in Users |-> IF v \in members \ {req[w].user} THEN unread[v] + 1 ELSE unread[v]]
  BY <1>6 DEF CountUnread
<2>2. pc[w] = "count" /\ pc'[w] = "idle" /\ Others(w) /\ Sending(w)
  BY <1>6, SendFacts DEF Ends, Sending
<2>3. unread[u] \in Nat /\ unread'[u] \in {unread[u], unread[u] + 1}
  BY <2>1 DEF TypeOK
<2>4. CASE t \in delivered
  <3>1. unread[u] > 0 => unread'[u] > 0
    BY <2>3
  <3> QED
    BY <1>2, <2>1, <2>2, <2>4, <3>1, SeenKept DEF Others
<2>5. CASE t = req[w].at
  <3>1. \A v \in Workers : ~Reading(v) /\ pc'[v] \notin {"reset", "receipts"}
    BY <1>0, <2>2 DEF ReadsAlone, Others
  <3>2. lastRead[u] < t
    BY <1>0, <2>2, <2>5 DEF ReadsAlone
  <3>3. message[t].sender = req[w].user /\ u \in members /\ message[t].sender # u
    BY <2>1, <2>2, <2>5 DEF SendsOwn, Owed
  <3>4. unread'[u] = unread[u] + 1
    BY <2>1, <3>3
  <3>5. lastRead[u] \in Nat
    BY Clock DEF TypeOK
  <3> QED
    BY <1>0, <2>1, <2>3, <3>1, <3>2, <3>4, <3>5 DEF Seen
<2> QED
  BY <2>1, <2>4, <2>5 DEF Owed
<1>7. ASSUME NEW w \in Workers, ReadSince(w) PROVE Seen(u, t)'
<2>1. UNCHANGED <<unread, lastRead, receipts, delivered>>
  BY <1>7 DEF ReadSince
<2>2. pc[w] = "since" /\ pc'[w] = "reset" /\ Others(w) /\ req'[w].user = req[w].user /\ req'[w].since = lastRead[req[w].user]
  BY <1>7, OtherFacts
<2>3. Seen(u, t)
  BY <1>2, <2>1 DEF Owed
<2> QED
  BY <2>1, <2>2, <2>3 DEF Seen, Others
<1>8. ASSUME NEW w \in Workers, ResetUnread(w) PROVE Seen(u, t)'
<2>1. UNCHANGED <<members, receipts, delivered>>
  BY <1>8 DEF ResetUnread
<2>2. pc[w] = "reset" /\ pc'[w] = "receipts" /\ req'[w] = req[w] /\ Others(w) /\ Reading(w)
  BY <1>8, OtherFacts DEF Goes, Reading
<2>3. t \in delivered /\ u \in members
  BY <2>1 DEF Owed
<2>4. CASE req[w].user # u
  <3>1. lastRead'[u] = lastRead[u] /\ unread'[u] = unread[u]
    BY <1>8, <2>4 DEF ResetUnread, TypeOK
  <3> QED
    BY <1>2, <2>1, <2>2, <2>3, <2>4, <3>1, SeenKept DEF Others
<2>5. CASE req[w].user = u
  <3>1. \A v \in Workers \ {w} : Reading(v) => req[v].user # u
    BY <1>0, <2>2, <2>5 DEF ReadsAlone
  <3>2. lastRead'[u] = req[w].at /\ t < req[w].at
    BY <1>0, <1>8, <2>2, <2>3, <2>5 DEF ResetUnread, TypeOK, ReadsAlone
  <3>3. req[w].since = lastRead[u] /\ (t <= lastRead[u] => <<t, u>> \in receipts)
    BY <1>0, <1>2, <2>2, <2>3, <2>5, <3>1 DEF Seen
  <3>4. \A v \in Workers \ {w} : req'[v].user = u => pc'[v] \notin {"reset", "receipts"}
    BY <1>0, <2>2, <3>1 DEF Others
  <3>5. req[w].at \in Nat
    BY RequestFields
  <3> QED
    BY <1>0, <2>1, <2>2, <2>5, <3>2, <3>3, <3>4, <3>5 DEF Seen
<2> QED
  BY <2>4, <2>5
<1>9. ASSUME NEW w \in Workers, InsertReceipts(w) PROVE Seen(u, t)'
<2>1. UNCHANGED <<members, unread, lastRead, message, delivered>>
  BY <1>9 DEF InsertReceipts
<2>2. pc[w] = "receipts" /\ pc'[w] = "idle" /\ Others(w) /\ Reading(w)
  BY <1>9, OtherFacts DEF Ends, Reading
<2>3. t \in delivered /\ Seen(u, t) /\ lastRead[u] \in Nat
  BY <1>2, <2>1, Clock DEF Owed, TypeOK
<2>4. CASE req[w].user # u
  BY <1>3, <2>1, <2>2, <2>3, <2>4, SeenKept DEF Others
<2>5. CASE req[w].user = u
  <3>1. \A v \in Workers \ {w} : Reading(v) => req[v].user # u
    BY <1>0, <2>2, <2>5 DEF ReadsAlone
  <3>2. t <= lastRead[u] /\ (t <= req[w].since => <<t, u>> \in receipts)
    BY <2>2, <2>3, <2>5 DEF Seen
  <3>3. message[t].state = "live" /\ message[t].sender # u
    BY <2>1 DEF Owed, Live
  <3>4. <<t, u>> \in receipts'
    BY <1>0, <1>9, <2>5, <3>2, <3>3, RequestFields DEF InsertReceipts
  <3>5. \A v \in Workers : req'[v].user = u => pc'[v] \notin {"reset", "receipts"}
    BY <1>0, <2>2, <3>1 DEF Others
  <3> QED
    BY <1>0, <2>1, <2>3, <3>2, <3>4, <3>5 DEF Seen
<2> QED
  BY <2>4, <2>5
<1>10. ASSUME NEW w \in Workers, OtherStep(w) PROVE Seen(u, t)'
<2>1. Others(w) /\ {pc[w], pc'[w]} \cap {"reset", "receipts"} = {}
  BY <1>10, OtherFacts DEF OtherStep, Goes, Ends
<2>2. UNCHANGED <<delivered, receipts>> /\ lastRead'[u] = lastRead[u] /\ unread'[u] = unread[u]
  <3>1. ASSUME DeleteParticipant(w) PROVE lastRead'[u] = lastRead[u] /\ unread'[u] = unread[u]
    <4>1. req[w].user # u
      BY <3>1 DEF Owed, DeleteParticipant
    <4> QED
      BY <3>1, <4>1 DEF DeleteParticipant, TypeOK
  <3> QED
    BY <1>10, <3>1 DEF OtherStep, StageAttachment, InsertParticipant, DeleteParticipant, InsertDirect, FillDirect
<2>3. Seen(u, t)
  BY <1>2, <2>2 DEF Owed
<2> QED
  BY <2>1, <2>2, <2>3, SeenKept DEF Others
<1>11. ASSUME Background PROVE Seen(u, t)'
<2>1. UNCHANGED <<unread, lastRead, receipts, pc, req, delivered>>
  BY <1>11, BackgroundFacts
<2>2. Seen(u, t)
  BY <1>2, <2>1 DEF Owed
<2> QED
  BY <2>1, <2>2, SeenKept
<1> QED
  BY <1>1, <1>4, <1>5, <1>6, <1>7, <1>8, <1>9, <1>10, <1>11 DEF Next, ReadStep, Background

-----------------------------------------------------------------------------
(* The invariant *)

LEMMA InvInit == Init => ChatInv
<1> SUFFICES ASSUME Init PROVE ChatInv
  OBVIOUS
<1>1. TypeOK
  BY TypeInit
<1>2. \A w \in Workers : pc[w] = "idle" /\ req[w] = Blank
  BY DEF Init
<1>3. {w \in Workers : pc[w] = "fill"} = {} /\ halves = 0
  BY <1>2 DEF Init
<1>4. HalvesCounted
  BY <1>3, FS_EmptySet DEF HalvesCounted
<1>5. NothingLater
  BY <1>2, BlankType DEF Init, NothingLater
<1>6. SendsOwn /\ StagingAlone /\ ClaimStays /\ SendsAlone /\ PairsAlone /\ ReadsAlone
  BY <1>2, BlankType DEF Init, SendsOwn, StagingAlone, ClaimStays, SendsAlone, PairsAlone, ReadsAlone,
                         Sending, Staging, Pairing, Reading
<1>7. SweptIsOld /\ NamedIsAttached
  BY DEF Init, SweptIsOld, NamedIsAttached, NoFile
<1>8. LastMessageIsNewest /\ OneDirect /\ SeenSoFar
  BY DEF Init, LastMessageIsNewest, OneDirect, SeenSoFar, Owed
<1> QED
  BY <1>1, <1>4, <1>5, <1>6, <1>7, <1>8 DEF ChatInv

LEMMA InvStep == ChatInv /\ [Next]_vars => ChatInv'
<1> SUFFICES ASSUME ChatInv, [Next]_vars PROVE ChatInv'
  OBVIOUS
<1>1. /\ TypeOK /\ HalvesCounted /\ NothingLater /\ SendsOwn
      /\ StagingAlone /\ SweptIsOld /\ ClaimStays /\ NamedIsAttached
      /\ SendsInv /\ PairsInv /\ ReadsAlone /\ SeenSoFar
  BY DEF ChatInv, SendsInv, PairsInv
<1>2. TypeOK' /\ HalvesCounted' /\ NothingLater' /\ SendsOwn'
  BY <1>1, TypeStep, HalvesStep, LaterStep, OwnStep
<1>3. StagingAlone' /\ SweptIsOld' /\ ClaimStays' /\ NamedIsAttached'
  BY <1>1, StagingStep, SweptStep, ClaimStep, NamedStep
<1>4. SendsInv' /\ PairsInv' /\ ReadsAlone' /\ SeenSoFar'
  BY <1>1, SendsStep, PairsStep, ReadsStep, SeenStep
<1> QED
  BY <1>2, <1>3, <1>4 DEF ChatInv, SendsInv, PairsInv

\* The conversation, its counters, its attachments and the requests in progress keep
\* the inductive invariant through every interleaving of sendMessage, markRead,
\* uploads, membership changes, createDirect, the orphan sweep and crashes.
THEOREM ChatInvariant == Spec => []ChatInv
  BY InvInit, InvStep, PTL DEF Spec

\* The variables of the chat keep their types, halves never below zero among them.
THEOREM TypeCorrect == Spec => []TypeOK
<1>1. ChatInv => TypeOK
  BY DEF ChatInv
<1> QED
  BY <1>1, ChatInvariant, PTL

\* The orphan sweep unlinks before it looks at the claim again, and still an attachment
\* claimed within the TTL keeps its bytes, whatever sweeps and sends overlap.
THEOREM BytesCorrect == Spec => []ClaimedInTimeKeepsBytes
<1>1. ChatInv => ClaimedInTimeKeepsBytes
  BY DEF ChatInv, SweptIsOld, ClaimedInTimeKeepsBytes
<1> QED
  BY <1>1, ChatInvariant, PTL

\* claimAttachments looks and then updates: two sends that name the same attachment
\* never leave it with a message that did not name it, nor unclaimed.
THEOREM AttachedCorrect == Spec => []NamedIsAttached
<1>1. ChatInv => NamedIsAttached
  BY DEF ChatInv
<1> QED
  BY <1>1, ChatInvariant, PTL

\* Requests that no other of their kind overlaps: every message is seen or counted, the
\* conversation is sorted by its newest message, a pair has one conversation.
THEOREM AloneCorrect == Spec => []AsIfAlone
<1>1. ASSUME ChatInv PROVE SeenOrCounted
<2> SUFFICES ASSUME "read" \notin overlapped, cuts = 0, NEW u \in members, NEW t \in delivered,
                    Live(t), message[t].sender # u, t > joined[u],
                    \A w \in Workers : ~(Reading(w) /\ req[w].user = u)
             PROVE  /\ t <= lastRead[u] => <<t, u>> \in receipts
                    /\ t > lastRead[u] => unread[u] > 0
  BY DEF SeenOrCounted
<2>1. u \in Users /\ t \in Stamps
  BY <1>1 DEF ChatInv, TypeOK
<2>2. \A w \in Workers : ~(pc[w] = "receipts" /\ req[w].user = u)
  BY DEF Reading
<2> QED
  BY <1>1, <2>1, <2>2 DEF ChatInv, SeenSoFar, Owed
<1>2. ChatInv => AsIfAlone
  BY <1>1 DEF AsIfAlone, ChatInv
<1> QED
  BY <1>2, ChatInvariant, PTL
=============================================================================
