------------------------------ MODULE MailStore ------------------------------
(***************************************************************************)
(* What the mail store promises to other mail servers and to its user,     *)
(* without requests, statements, answers or ids held in memory.  A copy is *)
(* one stored delivery of a message r[1]; an attachment belongs to the     *)
(* copy f[1].  Other servers hear of a message only once it is stored with *)
(* its attachments or refused; mail is destroyed only after it has been    *)
(* condemned, and condemned only while it is in trash or spam.  Mailbox    *)
(* implements it.                                                          *)
(***************************************************************************)
CONSTANTS Copies, Files

VARIABLES
  promised,   \* messages whose sender was told that we have taken them
  refused,    \* deliveries refused as a whole
  whole,      \* copies that were stored with every attachment we could keep
  place,      \* where the user finds each copy
  expired,    \* copies left in trash or spam past their retention
  condemned,  \* copies a hard delete has chosen and not yet given up or finished
  opens       \* attachments the user can open

vars == <<promised, refused, whole, place, expired, condemned, opens>>

Discarding == {"trash", "spam"}
Places     == {"inbox"} \cup Discarding

Init ==
  /\ promised = {} /\ refused = {} /\ whole = {}
  /\ place = [r \in Copies |-> "none"]
  /\ expired = {} /\ condemned = {} /\ opens = {}

-----------------------------------------------------------------------------
(* Delivery *)

\* A copy without attachments is whole at once.
Store(r) ==
  /\ place[r] = "none"
  /\ place' = [place EXCEPT ![r] = "inbox"]
  /\ whole' \in {whole, whole \cup {r}}
  /\ UNCHANGED <<promised, refused, expired, condemned, opens>>

\* All its attachments appear together, even if a hard delete has chosen it already.
Attach(r, files) ==
  /\ place[r] \in Places /\ r \notin whole
  /\ \A f \in files : f[1] = r
  /\ opens' = opens \cup files
  /\ whole' = whole \cup {r}
  /\ UNCHANGED <<promised, refused, place, expired, condemned>>

\* The sender may have stopped listening.
Refuse(r) ==
  /\ place[r] = "none"
  /\ refused' = refused \cup {r}
  /\ promised' \in {promised, promised \cup {r[1]}}
  /\ UNCHANGED <<whole, place, expired, condemned, opens>>

Promise(r) ==
  /\ r \in whole
  /\ promised' = promised \cup {r[1]}
  /\ UNCHANGED <<refused, whole, place, expired, condemned, opens>>

-----------------------------------------------------------------------------
(* The user and the clock *)

Move(r, to) ==
  /\ place[r] \in Places
  /\ place' = [place EXCEPT ![r] = to]
  /\ expired' = expired \ {r}
  /\ UNCHANGED <<promised, refused, whole, condemned, opens>>

Touch(r) ==
  /\ expired' = expired \ {r}
  /\ UNCHANGED <<promised, refused, whole, place, condemned, opens>>

Expire(r) ==
  /\ place[r] \in Discarding
  /\ expired' = expired \cup {r}
  /\ UNCHANGED <<promised, refused, whole, place, condemned, opens>>

-----------------------------------------------------------------------------
(* Hard deletes *)

\* What may be chosen: expired mail, a folder the user empties, a mail the user
\* deletes from the trash.
Choice(S) ==
  \/ S \subseteq expired
  \/ \E f \in Discarding : S = {r \in Copies : place[r] = f}
  \/ \E r \in Copies : S = {r} /\ place[r] = "trash"

Condemn(S) ==
  /\ Choice(S) /\ \A r \in S : place[r] \in Discarding
  /\ condemned' = condemned \cup S
  /\ UNCHANGED <<promised, refused, whole, place, expired, opens>>

\* A hard delete fails: its copies stay, perhaps without some of their attachments.
Spare(S) ==
  /\ condemned' = condemned \ S
  /\ UNCHANGED <<promised, refused, whole, place, expired, opens>>

Unlink(f) ==
  /\ f[1] \in condemned
  /\ opens' = opens \ {f}
  /\ UNCHANGED <<promised, refused, whole, place, expired, condemned>>

\* Copies go with their attachments, wherever the user has put them meanwhile.
\* Another hard delete may still hold some of them.
Destroy(S, done) ==
  /\ S \subseteq condemned /\ done \subseteq S
  /\ place' = [r \in Copies |-> IF r \in S THEN "gone" ELSE place[r]]
  /\ expired' = expired \ S
  /\ opens' = {f \in opens : f[1] \notin S}
  /\ condemned' = condemned \ done
  /\ UNCHANGED <<promised, refused, whole>>

Next ==
  \/ \E r \in Copies :
       \/ Store(r) \/ Refuse(r) \/ Promise(r) \/ Touch(r) \/ Expire(r)
       \/ \E files \in SUBSET Files : Attach(r, files)
       \/ \E to \in Places : Move(r, to)
  \/ \E S \in SUBSET Copies : Condemn(S) \/ Spare(S) \/ \E done \in SUBSET S : Destroy(S, done)
  \/ \E f \in Files : Unlink(f)

Spec == Init /\ [][Next]_vars
=============================================================================
