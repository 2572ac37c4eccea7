-------------------------- MODULE MobileSyncProofs --------------------------
(***************************************************************************)
(* MobileSync for any number of mails, drafts, rows and kills: a draft     *)
(* becomes a second email only after a success that went unheard, the last *)
(* of the queued moves is the one that holds and so is a direct move that  *)
(* finds none of them waiting, no placeholder loses its row but by a       *)
(* discard or a kill, and the outbox keeps one pending row per key.        *)
(***************************************************************************)
EXTENDS MobileSync, TLAPS

-----------------------------------------------------------------------------
(* What each action does to the outbox *)

LEMMA IdFacts ==
  /\ Ids \subseteq Nat \ {0} /\ Ids \subseteq 0..MaxRows /\ 0 \notin Ids
  /\ \A i \in 0..MaxRows : i # 0 => i \in Ids
  BY MobileAssumption DEF Ids

LEMMA RowFields ==
  ASSUME TypeOK, NEW i \in Ids
  PROVE  /\ row[i] \in Rows
         /\ row[i].status \in {"unused", "pending", "inflight", "failed", "gone"}
         /\ row[i].op \in Ops /\ row[i].target \in Targets \cup {NoTarget}
         /\ row[i].value \in BOOLEAN /\ row[i].attempts \in Nat /\ row[i].due \in BOOLEAN
  BY DEF TypeOK, Rows

\* What a row is for.
Same(i) == row'[i].op = row[i].op /\ row'[i].target = row[i].target
OtherRows(i) == \A j \in Ids \ {i} : row'[j] = row[j]

\* One row goes from a status to another.
Turns(i, from, to) ==
  row[i].status = from /\ row'[i].status = to /\ Same(i) /\ OtherRows(i) /\ row' \in [Ids -> Rows]

LEMMA GoneFacts ==
  ASSUME NEW r \in Rows
  PROVE  Gone(r) \in Rows /\ Gone(r).status = "gone" /\ Gone(r).op = r.op /\ Gone(r).target = r.target
  BY DEF Gone, Rows

\* An enqueue by a terminal operation gives up the mail's pending rows and takes a new
\* one; another takes the pending row of the key, or a new one.
Superseded(op, t, j) == op \in Terminal /\ row[j].status = "pending" /\ row[j].target = t

LEMMA EnqueueFacts ==
  ASSUME TypeOK, NEW op \in Ops, NEW t \in Targets, NEW v \in BOOLEAN, Enqueue(op, t, v)
  PROVE  LET id == SlotRow(op, t) IN
           /\ id \in Ids /\ row' \in [Ids -> Rows] /\ used' \in 0..MaxRows
           /\ row'[id].status = "pending" /\ row'[id].op = op /\ row'[id].target = t
           /\ \A j \in Ids \ {id} :
                /\ Same(j)
                /\ ~Superseded(op, t, j) => row'[j].status = row[j].status
                /\ Superseded(op, t, j) => row'[j].status = "gone"
           /\ \/ id = used + 1 /\ used' = id /\ \A j \in Ids : ~(op \notin Terminal /\ Pending(j, op, t))
              \/ op \notin Terminal /\ Pending(id, op, t) /\ (used' = used \/ (id > used /\ used' = id))
           /\ UNCHANGED <<drain, batch, orphans>>
<1> DEFINE id == SlotRow(op, t)
<1> DEFINE new == [status |-> "pending", op |-> op, target |-> t, value |-> v, attempts |-> 0, due |-> TRUE]
<1>1. id \in Ids /\ id \in 0..MaxRows /\ used \in Nat /\ used \in 0..MaxRows /\ UNCHANGED <<drain, batch, orphans>>
<2>1. id \in Ids /\ UNCHANGED <<drain, batch, orphans>>
  BY DEF Enqueue
<2>2. used \in 0..MaxRows /\ used \in Nat
  BY MobileAssumption DEF TypeOK
<2> QED
  BY <2>1, <2>2, IdFacts
<1>2. \/ id = used + 1 /\ \A j \in Ids : ~(op \notin Terminal /\ Pending(j, op, t))
      \/ op \notin Terminal /\ Pending(id, op, t)
  BY DEF SlotRow
<1>3. used' = (IF id > used THEN id ELSE used)
  BY DEF Enqueue
<1>4. new \in Rows
  BY DEF Rows
<1>5. Kept(op, t) \in [Ids -> Rows]
  BY GoneFacts DEF Kept, TypeOK
<1>6. row' = [Kept(op, t) EXCEPT ![id] = new]
  BY DEF Enqueue
<1>7. row' \in [Ids -> Rows] /\ row'[id] = new /\ \A j \in Ids \ {id} : row'[j] = Kept(op, t)[j]
  BY <1>1, <1>4, <1>5, <1>6
<1>8. \A j \in Ids : Kept(op, t)[j] = IF Superseded(op, t, j) THEN Gone(row[j]) ELSE row[j]
  BY DEF Kept, Superseded
<1>9. \A j \in Ids \ {id} :
        /\ Same(j)
        /\ ~Superseded(op, t, j) => row'[j].status = row[j].status
        /\ Superseded(op, t, j) => row'[j].status = "gone"
  BY <1>7, <1>8, GoneFacts DEF Same, TypeOK
<1>10. id = used + 1 => used' = id
  BY <1>1, <1>3
<1>11. used' \in 0..MaxRows
  BY <1>1, <1>3
<1> QED
  BY <1>1, <1>2, <1>3, <1>7, <1>9, <1>10, <1>11

LEMMA TurnFacts ==
  ASSUME TypeOK, NEW i \in Ids
  PROVE  /\ Requeue(i) => Turns(i, "failed", "pending") /\ ~Taken(i)
         /\ Discard(i) => Turns(i, "failed", "gone")
         /\ Elapses(i) => Turns(i, "pending", "pending")
<1>0. row[i] \in Rows /\ row \in [Ids -> Rows]
  BY DEF TypeOK
<1>1. ASSUME Requeue(i) PROVE Turns(i, "failed", "pending") /\ ~Taken(i)
<2>1. [row[i] EXCEPT !.status = "pending", !.due = TRUE] \in Rows
  BY <1>0 DEF Rows
<2>2. row' = [row EXCEPT ![i] = [row[i] EXCEPT !.status = "pending", !.due = TRUE]]
  BY <1>1 DEF Requeue
<2>3. row' \in [Ids -> Rows] /\ OtherRows(i) /\ row'[i] = [row[i] EXCEPT !.status = "pending", !.due = TRUE]
  BY <1>0, <2>1, <2>2 DEF OtherRows
<2>4. row'[i].status = "pending" /\ Same(i)
  BY <1>0, <2>3 DEF Same, Rows
<2> QED
  BY <1>1, <2>3, <2>4 DEF Requeue, Turns
<1>2. ASSUME Discard(i) PROVE Turns(i, "failed", "gone")
<2>1. row' = [row EXCEPT ![i] = Gone(row[i])]
  BY <1>2 DEF Discard
<2>2. row' \in [Ids -> Rows] /\ OtherRows(i) /\ row'[i] = Gone(row[i])
  BY <1>0, <2>1, GoneFacts DEF OtherRows
<2> QED
  BY <1>0, <1>2, <2>2, GoneFacts DEF Discard, Turns, Same
<1>3. ASSUME Elapses(i) PROVE Turns(i, "pending", "pending")
<2>1. [row[i] EXCEPT !.due = TRUE] \in Rows
  BY <1>0 DEF Rows
<2>2. row' = [row EXCEPT ![i] = [row[i] EXCEPT !.due = TRUE]]
  BY <1>3 DEF Elapses
<2>3. row' \in [Ids -> Rows] /\ OtherRows(i) /\ row'[i] = [row[i] EXCEPT !.due = TRUE]
  BY <1>0, <2>1, <2>2 DEF OtherRows
<2>4. row'[i].status = row[i].status /\ Same(i)
  BY <1>0, <2>3 DEF Same, Rows
<2> QED
  BY <1>3, <2>3, <2>4 DEF Elapses, Turns
<1> QED
  BY <1>1, <1>2, <1>3

\* The drain's own record.
Drains == [pc : DrainPcs, id : 0..MaxRows, value : BOOLEAN, attempts : Nat]

LEMMA DrainFacts ==
  /\ Idle \in Drains /\ Idle.pc = "idle"
  /\ Between \in Drains /\ Between.pc = "loop"
  /\ \A pc \in DrainPcs : \A r \in Drains :
       [r EXCEPT !.pc = pc] \in Drains /\ [r EXCEPT !.pc = pc].pc = pc /\ [r EXCEPT !.pc = pc].id = r.id
<1>1. 0 \in 0..MaxRows
  BY MobileAssumption
<1>2. Idle \in Drains /\ Idle.pc = "idle"
  BY <1>1 DEF Idle, Drains, DrainPcs
<1>3. Between \in Drains /\ Between.pc = "loop"
  BY <1>1 DEF Between, Idle, Drains, DrainPcs
<1>4. \A pc \in DrainPcs : \A r \in Drains :
        [r EXCEPT !.pc = pc] \in Drains /\ [r EXCEPT !.pc = pc].pc = pc /\ [r EXCEPT !.pc = pc].id = r.id
  BY DEF Drains
<1> QED
  BY <1>2, <1>3, <1>4

\* The drain goes on with the same row.
Goes(from, to) == drain.pc = from /\ drain'.pc = to /\ drain'.id = drain.id /\ drain' \in Drains

LEMMA GoToFacts ==
  ASSUME TypeOK, NEW from, NEW to \in DrainPcs, At(from), GoTo(to)
  PROVE  Goes(from, to)
  BY DrainFacts DEF TypeOK, At, GoTo, Goes, Drains

\* What the steps of the drain that end the run of a row do to it.
LEMMA EndFacts ==
  ASSUME TypeOK
  PROVE  /\ Ack => drain.pc = "ok" /\ drain.id \in Ids /\ row'[drain.id].status = "gone"
         /\ MarkRetry => /\ drain.pc = "soft" /\ drain.id \in Ids /\ ~Taken(drain.id)
                         /\ row'[drain.id].status = "pending"
         /\ MarkFailed => drain.pc \in {"soft", "hard"} /\ drain.id \in Ids /\ row'[drain.id].status = "failed"
         /\ Ack \/ MarkRetry \/ MarkFailed =>
              Same(drain.id) /\ OtherRows(drain.id) /\ row' \in [Ids -> Rows] /\ drain' = Between
<1> USE DEF At
<1>0. (drain.pc \notin {"idle", "loop"} => drain.id \in Ids /\ row[drain.id] \in Rows) /\ row \in [Ids -> Rows]
  BY DEF TypeOK
<1>1. ASSUME Ack
      PROVE  /\ drain.pc = "ok" /\ drain.id \in Ids /\ row'[drain.id].status = "gone"
             /\ Same(drain.id) /\ OtherRows(drain.id) /\ row' \in [Ids -> Rows] /\ drain' = Between
<2>1. drain.pc = "ok" /\ drain' = Between /\ row' = [row EXCEPT ![drain.id] = Gone(row[drain.id])]
  BY <1>1 DEF Ack
<2> QED
  BY <1>0, <2>1, GoneFacts DEF Same, OtherRows
<1>2. ASSUME MarkRetry
      PROVE  /\ drain.pc = "soft" /\ drain.id \in Ids /\ row'[drain.id].status = "pending" /\ ~Taken(drain.id)
             /\ Same(drain.id) /\ OtherRows(drain.id) /\ row' \in [Ids -> Rows] /\ drain' = Between
<2> DEFINE r == row[drain.id]
<2> DEFINE new == [r EXCEPT !.status = "pending", !.attempts = r.attempts + 1, !.due = FALSE]
<2>1. /\ drain.pc = "soft" /\ drain' = Between /\ ~Taken(drain.id)
      /\ row' = [row EXCEPT ![drain.id] = new]
  BY <1>2 DEF MarkRetry, Retries
<2>2. r \in Rows /\ r.attempts + 1 \in Nat
  BY <1>0, <2>1, RowFields
<2>3. new \in Rows /\ new.status = "pending" /\ new.op = r.op /\ new.target = r.target
  BY <2>2 DEF Rows
<2>4. row'[drain.id] = new /\ OtherRows(drain.id) /\ row' \in [Ids -> Rows]
  BY <1>0, <2>1, <2>3 DEF OtherRows
<2> QED
  BY <1>0, <2>1, <2>3, <2>4 DEF Same
<1>3. ASSUME MarkFailed
      PROVE  /\ drain.pc \in {"soft", "hard"} /\ drain.id \in Ids /\ row'[drain.id].status = "failed"
             /\ Same(drain.id) /\ OtherRows(drain.id) /\ row' \in [Ids -> Rows] /\ drain' = Between
<2> DEFINE r == row[drain.id]
<2> DEFINE new == [r EXCEPT !.status = "failed", !.attempts = r.attempts + 1]
<2>1. /\ drain.pc \in {"soft", "hard"} /\ drain' = Between /\ row' = [row EXCEPT ![drain.id] = new]
  BY <1>3 DEF MarkFailed
<2>2. r \in Rows /\ r.attempts + 1 \in Nat
  BY <1>0, <2>1, RowFields
<2>3. new \in Rows /\ new.status = "failed" /\ new.op = r.op /\ new.target = r.target
  BY <2>2 DEF Rows
<2>4. row'[drain.id] = new /\ OtherRows(drain.id) /\ row' \in [Ids -> Rows]
  BY <1>0, <2>1, <2>3 DEF OtherRows
<2> QED
  BY <1>0, <2>1, <2>3, <2>4 DEF Same
<1> QED
  BY <1>1, <1>2, <1>3
\* The drain between two rows, and how it takes one.
LEMMA BetweenFacts ==
  ASSUME TypeOK
  PROVE  /\ StartDrain => drain.pc = "idle" /\ drain' = Between /\ batch' \subseteq Snapshots
         /\ EndDrain => drain.pc = "loop" /\ drain' = Idle
         /\ RetryRefused => Running /\ drain.pc = "soft" /\ drain.id \in Ids /\ drain' = Idle /\ batch' = {}
                            /\ orphans' = orphans \cup {drain.id}
         /\ \A s \in batch : ClaimRow(s) =>
              /\ drain.pc = "loop" /\ s.id \in Ids /\ batch' \subseteq Snapshots
              /\ \/ UNCHANGED <<row, drain>>
                 \/ /\ Turns(s.id, "pending", "inflight")
                    /\ drain'.pc = "claimed" /\ drain'.id = s.id /\ drain' \in Drains
<1> USE DEF At
<1>1. ASSUME StartDrain PROVE drain.pc = "idle" /\ drain' = Between /\ batch' \subseteq Snapshots
<2>1. \A i \in Ids : [id |-> i, value |-> row[i].value, attempts |-> row[i].attempts] \in Snapshots
  BY RowFields DEF Snapshots
<2> QED
  BY <1>1, <2>1 DEF StartDrain
<1>2. ASSUME NEW s \in batch, ClaimRow(s)
      PROVE  /\ drain.pc = "loop" /\ s.id \in Ids /\ batch' \subseteq Snapshots
             /\ \/ UNCHANGED <<row, drain>>
                \/ /\ Turns(s.id, "pending", "inflight")
                   /\ drain'.pc = "claimed" /\ drain'.id = s.id /\ drain' \in Drains
<2>1. s \in Snapshots /\ s.id \in Ids /\ s.id \in 0..MaxRows /\ s.value \in BOOLEAN /\ s.attempts \in Nat
  BY IdFacts DEF TypeOK, Snapshots
<2>2. CASE row[s.id].status = "pending"
  <3>1. /\ row' = [row EXCEPT ![s.id] = [row[s.id] EXCEPT !.status = "inflight"]]
        /\ drain' = [pc |-> "claimed", id |-> s.id, value |-> s.value, attempts |-> s.attempts]
    BY <1>2, <2>2 DEF ClaimRow
  <3>2. drain' \in Drains /\ drain'.pc = "claimed" /\ drain'.id = s.id
    BY <2>1, <3>1 DEF Drains, DrainPcs
  <3>3. [row[s.id] EXCEPT !.status = "inflight"] \in Rows /\ row[s.id] \in Rows
    BY <2>1, RowFields DEF Rows
  <3>4. row'[s.id] = [row[s.id] EXCEPT !.status = "inflight"] /\ OtherRows(s.id) /\ row' \in [Ids -> Rows]
    BY <2>1, <3>1, <3>3 DEF TypeOK, OtherRows
  <3>5. Turns(s.id, "pending", "inflight")
    BY <2>2, <3>3, <3>4 DEF Turns, Same, Rows
  <3> QED
    BY <1>2, <2>1, <3>2, <3>5 DEF ClaimRow, TypeOK
<2>3. CASE row[s.id].status # "pending"
  BY <1>2, <2>1, <2>3 DEF ClaimRow, TypeOK
<2> QED
  BY <2>2, <2>3
<1>3. EndDrain => drain.pc = "loop" /\ drain' = Idle
  BY DEF EndDrain
<1>4. ASSUME RetryRefused
      PROVE  Running /\ drain.pc = "soft" /\ drain.id \in Ids /\ drain' = Idle /\ batch' = {}
             /\ orphans' = orphans \cup {drain.id}
  BY <1>4 DEF RetryRefused, Retries, TypeOK, Running
<1> QED
  BY <1>1, <1>2, <1>3, <1>4

\* The steps of a call.
LEMMA CallFacts ==
  ASSUME TypeOK
  PROVE  /\ Handle => Goes("claimed", "calling") \/ (Goes("claimed", "ok") /\ Cur.op = "setStarred")
         /\ Execute => Goes("calling", "executed")
         /\ Answer => Goes("executed", "ok")
         /\ Lose => Goes("executed", "soft")
         /\ \A kind \in {"soft", "hard"} : Fail(kind) => Goes("calling", kind)
         /\ Handle \/ Execute \/ Answer \/ Lose \/ (\E kind \in {"soft", "hard"} : Fail(kind)) =>
              Running /\ Running' /\ drain.id \in Ids /\ UNCHANGED <<row, used, batch, orphans>>
<1>1. Handle => Goes("claimed", "calling") \/ (Goes("claimed", "ok") /\ Cur.op = "setStarred")
  BY GoToFacts DEF Handle, DrainPcs
<1>2. Execute => Goes("calling", "executed")
  BY GoToFacts DEF Execute, DrainPcs
<1>3. Answer => Goes("executed", "ok")
  BY GoToFacts DEF Answer, DrainPcs
<1>4. Lose => Goes("executed", "soft")
  BY GoToFacts DEF Lose, DrainPcs
<1>5. \A kind \in {"soft", "hard"} : Fail(kind) => Goes("calling", kind)
  BY GoToFacts DEF Fail, DrainPcs
<1>6. Handle \/ Execute \/ Answer \/ Lose \/ (\E kind \in {"soft", "hard"} : Fail(kind)) =>
        UNCHANGED <<row, used, batch, orphans>>
  BY DEF Handle, Execute, Answer, Lose, Fail
<1> QED
  BY <1>1, <1>2, <1>3, <1>4, <1>5, <1>6 DEF Goes, Running, TypeOK

-----------------------------------------------------------------------------
(* The direct call of a send *)

OtherSends(d) == \A e \in Drafts \ {d} : send'[e] = send[e]

\* What the steps of MailActions.send do to the draft, but for the queueing.
LEMMA SendFacts ==
  ASSUME TypeOK, NEW d \in Drafts, SendTapped(d) \/ SendStep(d)
  PROVE  /\ OtherSends(d) /\ send' \in [Drafts -> SendPcs]
         /\ local' \in [Drafts -> {"none", "sending", "failed", "server"}]
         /\ copies' \in [Drafts -> Nat] /\ unheard' \in [Drafts -> Nat]
         /\ \A e \in Drafts \ {d} : local'[e] = local[e] /\ copies'[e] = copies[e] /\ unheard'[e] = unheard[e]
         /\ UNCHANGED <<star, folder, shown, storeStar, discarded, choices, counters, drain, batch, orphans>>
         /\ ~SendQueued(d) => UNCHANGED <<row, used>>
         /\ \/ send[d] = "new" /\ send'[d] = "calling" /\ local'[d] = "sending" /\ UNCHANGED <<copies, unheard>>
            \/ send[d] = "calling" /\ send'[d] = "executed" /\ copies'[d] = copies[d] + 1 /\ UNCHANGED <<local, unheard>>
            \/ send[d] = "calling" /\ send'[d] \in {"soft", "hard"} /\ UNCHANGED <<local, copies, unheard>>
            \/ send[d] = "executed" /\ send'[d] = "soft" /\ unheard'[d] = unheard[d] + 1 /\ UNCHANGED <<local, copies>>
            \/ /\ send[d] = "executed" /\ send'[d] = "over" /\ UNCHANGED <<copies, unheard>>
               /\ local'[d] = (IF local[d] = "none" THEN "none" ELSE "server")
            \/ send[d] = "hard" /\ send'[d] = "over" /\ local'[d] = "failed" /\ UNCHANGED <<copies, unheard>>
            \/ SendQueued(d) /\ send[d] = "soft" /\ send'[d] = "over" /\ UNCHANGED <<local, copies, unheard>>
<1> USE DEF TypeOK, OtherSends, SendPcs, queue, server
<1>1. CASE SendTapped(d)
  BY <1>1 DEF SendTapped, SendQueued
<1>2. CASE SendExecuted(d)
  BY <1>2 DEF SendExecuted, SendQueued
<1>3. ASSUME NEW kind \in {"soft", "hard"}, SendFails(d, kind)
      PROVE  /\ send[d] = "calling" /\ send' = [send EXCEPT ![d] = kind]
             /\ UNCHANGED <<row, used, drain, batch, orphans, copies, star, folder, shown, storeStar,
                            local, unheard, discarded, choices, counters>>
  BY <1>3 DEF SendFails
<1>4. CASE SendLost(d)
  BY <1>4 DEF SendLost, SendQueued
<1>5. CASE SendSwaps(d)
  BY <1>5 DEF SendSwaps, Swapped, SendQueued
<1>6. CASE SendRejected(d)
  BY <1>6 DEF SendRejected, SendQueued
<1>7. CASE SendQueued(d)
  BY <1>7 DEF SendQueued, Enqueue
<1>8. CASE \E kind \in {"soft", "hard"} : SendFails(d, kind)
  BY <1>3, <1>8 DEF SendQueued
<1> QED
  BY <1>1, <1>2, <1>4, <1>5, <1>6, <1>7, <1>8 DEF SendStep
-----------------------------------------------------------------------------
(* Type correctness *)

Calls == Handle \/ Execute \/ Answer \/ Lose \/ \E kind \in {"soft", "hard"} : Fail(kind)
Concludes == Ack \/ MarkRetry \/ MarkFailed
DirectStep == \E m \in Mail : DirectMoves(m) \/ DirectFails(m) \/ \E f \in Folders : MoveDirectly(m, f)

LEMMA Cases ==
  ASSUME [Next]_vars
  PROVE  \/ StartDrain \/ EndDrain \/ RetryRefused \/ (\E s \in batch : ClaimRow(s))
         \/ Calls \/ Concludes
         \/ (\E m \in Mail : ToggleStar(m) \/ Refetch(m) \/ \E op \in Terminal : Move(m, op))
         \/ DirectStep
         \/ (\E d \in Drafts : SendTapped(d) \/ SendStep(d))
         \/ (\E i \in Ids : Requeue(i) \/ Discard(i) \/ Elapses(i))
         \/ Kill \/ UNCHANGED vars
  BY DEF Next, DrainStep, DirectStep, Calls, Concludes

\* TypeOK with the drain's record named.
Typed ==
  /\ row \in [Ids -> Rows] /\ used \in 0..MaxRows
  /\ drain \in Drains /\ (drain.pc \notin {"idle", "loop"} => drain.id \in Ids)
  /\ batch \subseteq Snapshots
  /\ star \in [Mail -> BOOLEAN] /\ folder \in [Mail -> Folders] /\ copies \in [Drafts -> Nat]
  /\ shown \in [Mail -> BOOLEAN] /\ storeStar \in [Stored -> BOOLEAN]
  /\ send \in [Drafts -> SendPcs]
  /\ local \in [Drafts -> {"none", "sending", "failed", "server"}]
  /\ lastStar \in [Mail -> 0..MaxRows] /\ lastMove \in [Mail -> 0..MaxRows]
  /\ direct \in [Mail -> Folders \cup {"none"}] /\ settled \in [Mail -> Folders \cup {"none"}]
  /\ bypassed \subseteq Mail
  /\ unheard \in [Drafts -> Nat] /\ orphans \subseteq Ids /\ discarded \subseteq Drafts
  /\ taps \in 0..MaxTaps /\ requeues \in 0..MaxRequeues /\ kills \in 0..MaxKills

LEMMA TypeParts == (TypeOK <=> Typed) /\ (TypeOK' <=> Typed')
  BY DEF TypeOK, Typed, Drains

\* What the row of a call in progress is for.
LEMMA CurFacts ==
  ASSUME TypeOK, RowsUsed, RunsAlone, Running
  PROVE  /\ drain.id \in Ids /\ Cur \in Rows
         /\ Cur.op = "composeSend" => Cur.target \in Drafts
         /\ Cur.op # "composeSend" => Cur.target \in Mail /\ Cur.target \notin Drafts
  BY RowFields, MobileAssumption DEF TypeOK, Running, RowsUsed, RunsAlone, Cur, Targets

\* What the endpoints do.
LEMMA ServerFacts ==
  ASSUME TypeOK, RowsUsed, RunsAlone
  PROVE  /\ Execute =>
              /\ star' \in [Mail -> BOOLEAN] /\ folder' \in [Mail -> Folders] /\ copies' \in [Drafts -> Nat]
              /\ \A d \in Drafts : copies'[d] = IF d = Cur.target THEN copies[d] + 1 ELSE copies[d]
              /\ \A m \in Mail : folder'[m] =
                   IF m = Cur.target /\ Cur.op \in Terminal THEN FolderOf(Cur.op) ELSE folder[m]
              /\ UNCHANGED <<local, unheard, Elsewhere>>
         /\ Answer =>
              /\ local' \in [Drafts -> {"none", "sending", "failed", "server"}]
              /\ \A d \in Drafts : local'[d] =
                   IF d = Cur.target /\ local[d] # "none" THEN "server" ELSE local[d]
              /\ UNCHANGED <<server, unheard, Elsewhere>>
         /\ Lose =>
              /\ unheard' \in [Drafts -> Nat]
              /\ \A d \in Drafts : unheard'[d] = IF d = Cur.target THEN unheard[d] + 1 ELSE unheard[d]
              /\ UNCHANGED <<server, local, Elsewhere>>
         /\ Handle \/ (\E kind \in {"soft", "hard"} : Fail(kind)) =>
              UNCHANGED <<server, local, unheard, Elsewhere>>
<1> USE DEF server, Elsewhere
<1>1. ASSUME Execute
      PROVE  /\ star' \in [Mail -> BOOLEAN] /\ folder' \in [Mail -> Folders] /\ copies' \in [Drafts -> Nat]
             /\ \A d \in Drafts : copies'[d] = IF d = Cur.target THEN copies[d] + 1 ELSE copies[d]
             /\ \A m \in Mail : folder'[m] =
                  IF m = Cur.target /\ Cur.op \in Terminal THEN FolderOf(Cur.op) ELSE folder[m]
             /\ UNCHANGED <<local, unheard, Elsewhere>>
<2>1. Running
  BY <1>1, CallFacts DEF Calls
<2>2. FolderOf(Cur.op) \in Folders
  BY DEF FolderOf, Folders
<2>3. star' \in [Mail -> BOOLEAN]
  BY <1>1 DEF Execute, TypeOK
<2>4. /\ copies' \in [Drafts -> Nat]
      /\ \A d \in Drafts : copies'[d] = IF d = Cur.target THEN copies[d] + 1 ELSE copies[d]
  BY <1>1, <2>1, CurFacts DEF Execute, TypeOK
<2>5. /\ folder' \in [Mail -> Folders]
      /\ \A m \in Mail : folder'[m] =
           IF m = Cur.target /\ Cur.op \in Terminal THEN FolderOf(Cur.op) ELSE folder[m]
  BY <1>1, <2>2 DEF Execute, TypeOK
<2> QED
  BY <1>1, <2>3, <2>4, <2>5 DEF Execute
<1>2. ASSUME Answer
      PROVE  /\ local' \in [Drafts -> {"none", "sending", "failed", "server"}]
             /\ \A d \in Drafts : local'[d] =
                  IF d = Cur.target /\ local[d] # "none" THEN "server" ELSE local[d]
             /\ UNCHANGED <<server, unheard, Elsewhere>>
<2>1. Running
  BY <1>2, CallFacts DEF Calls
<2>2. local' = IF Cur.op = "composeSend"
               THEN [local EXCEPT ![Cur.target] = IF local[Cur.target] = "none" THEN local[Cur.target] ELSE "server"]
               ELSE local
  BY <1>2 DEF Answer, Swapped
<2>3. local \in [Drafts -> {"none", "sending", "failed", "server"}]
  BY DEF TypeOK
<2>4. /\ Cur.op = "composeSend" => Cur.target \in Drafts
      /\ Cur.op # "composeSend" => Cur.target \notin Drafts
  BY <2>1, CurFacts
<2>5. /\ local' \in [Drafts -> {"none", "sending", "failed", "server"}]
      /\ \A d \in Drafts : local'[d] =
           IF d = Cur.target /\ local[d] # "none" THEN "server" ELSE local[d]
  BY <2>2, <2>3, <2>4
<2> QED
  BY <1>2, <2>5 DEF Answer
<1>3. ASSUME Lose
      PROVE  /\ unheard' \in [Drafts -> Nat]
             /\ \A d \in Drafts : unheard'[d] = IF d = Cur.target THEN unheard[d] + 1 ELSE unheard[d]
             /\ UNCHANGED <<server, local, Elsewhere>>
<2>1. Running
  BY <1>3, CallFacts DEF Calls
<2> QED
  BY <1>3, <2>1, CurFacts DEF Lose, TypeOK
<1>4. Handle \/ (\E kind \in {"soft", "hard"} : Fail(kind)) =>
        UNCHANGED <<server, local, unheard, Elsewhere>>
  BY DEF Handle, Fail
<1> QED
  BY <1>1, <1>2, <1>3, <1>4

LEMMA KillFacts ==
  ASSUME TypeOK, Kill
  PROVE  /\ drain' = Idle /\ batch' = {} /\ kills' # 0 /\ kills' \in 0..MaxKills
         /\ orphans' = (IF Running THEN orphans \cup {drain.id} ELSE orphans)
         /\ \A d \in Drafts : send'[d] = IF send[d] = "new" THEN "new" ELSE "over"
         /\ send' \in [Drafts -> SendPcs]
         /\ UNCHANGED <<row, used, server, shown, storeStar, local, unheard, discarded, choices, taps, requeues>>
  BY MobileAssumption DEF Kill, Running, TypeOK, SendPcs

\* A direct move touches neither the outbox nor what is being sent.
LEMMA DirectFacts ==
  ASSUME DirectStep
  PROVE  UNCHANGED <<row, used, drain, batch, orphans, shown, storeStar, compose, lastStar, lastMove,
                     star, copies, requeues, kills>>
  BY DEF DirectStep, DirectMoves, DirectFails, MoveDirectly, queue, server, counters

\* What a queued move does to the choices.
LEMMA ChosenFacts ==
  ASSUME TypeOK, NEW m \in Mail, Chosen(m)
  PROVE  /\ direct' \in [Mail -> Folders \cup {"none"}] /\ settled' \in [Mail -> Folders \cup {"none"}]
         /\ bypassed' \subseteq Mail
  BY DEF Chosen, TypeOK

LEMMA TypeInit == Init => TypeOK
<1> SUFFICES ASSUME Init PROVE TypeOK
  OBVIOUS
<1>1. 0 \in 0..MaxRows /\ 0 \in 0..MaxTaps /\ 0 \in 0..MaxRequeues /\ 0 \in 0..MaxKills
  BY MobileAssumption
<1>2. Unused \in Rows
  BY DEF Unused, Rows, Ops
<1>3. "inbox" \in Folders /\ "new" \in SendPcs
  BY DEF Folders, SendPcs
<1> QED
  BY <1>1, <1>2, <1>3, DrainFacts, TypeParts DEF Init, Typed

LEMMA TypeStep == TypeOK /\ RowsUsed /\ RunsAlone /\ [Next]_vars => TypeOK'
<1> SUFFICES ASSUME TypeOK, RowsUsed, RunsAlone, [Next]_vars PROVE TypeOK'
  OBVIOUS
<1> USE DEF queue, server, compose, choices, counters, Elsewhere, Typed
<1>1. ASSUME StartDrain \/ EndDrain \/ RetryRefused \/ (\E s \in batch : ClaimRow(s)) PROVE TypeOK'
<2>1. UNCHANGED <<used, server, local, unheard, Elsewhere>>
  BY <1>1 DEF StartDrain, EndDrain, RetryRefused, ClaimRow
<2>2. row' \in [Ids -> Rows] /\ drain' \in Drains /\ (drain'.pc \notin {"idle", "loop"} => drain'.id \in Ids)
  <3>1. CASE StartDrain \/ EndDrain \/ RetryRefused
    BY <3>1, BetweenFacts, DrainFacts DEF StartDrain, EndDrain, RetryRefused, TypeOK
  <3>2. CASE \E s \in batch : ClaimRow(s)
    BY <3>2, BetweenFacts, TypeParts DEF Turns
  <3> QED
    BY <1>1, <3>1, <3>2
<2>3. batch' \subseteq Snapshots /\ orphans' \subseteq Ids
  BY <1>1, BetweenFacts DEF StartDrain, EndDrain, RetryRefused, ClaimRow, TypeOK
<2> QED
  BY <2>1, <2>2, <2>3, TypeParts
<1>2. ASSUME Calls PROVE TypeOK'
<2>1. UNCHANGED <<row, used, batch, orphans>> /\ drain' \in Drains /\ drain'.id \in Ids
  BY <1>2, CallFacts DEF Calls, Goes
<2>2. /\ star' \in [Mail -> BOOLEAN] /\ folder' \in [Mail -> Folders] /\ copies' \in [Drafts -> Nat]
      /\ local' \in [Drafts -> {"none", "sending", "failed", "server"}] /\ unheard' \in [Drafts -> Nat]
      /\ UNCHANGED Elsewhere
  BY <1>2, ServerFacts DEF Calls, TypeOK
<2> QED
  BY <2>1, <2>2, TypeParts
<1>3. ASSUME Concludes PROVE TypeOK'
<2>1. row' \in [Ids -> Rows] /\ drain' = Between
  BY <1>3, EndFacts DEF Concludes
<2>2. UNCHANGED <<used, batch, orphans, server, local, unheard, Elsewhere>>
  BY <1>3 DEF Concludes, Ack, MarkRetry, MarkFailed
<2> QED
  BY <2>1, <2>2, DrainFacts, TypeParts
<1>4. ASSUME NEW op \in Ops, NEW t \in Targets, NEW v \in BOOLEAN, Enqueue(op, t, v)
      PROVE  row' \in [Ids -> Rows] /\ used' \in 0..MaxRows /\ SlotRow(op, t) \in 0..MaxRows
             /\ UNCHANGED <<drain, batch, orphans>>
<2>1. /\ SlotRow(op, t) \in Ids /\ row' \in [Ids -> Rows] /\ used' \in 0..MaxRows
      /\ UNCHANGED <<drain, batch, orphans>>
  BY <1>4, EnqueueFacts
<2> QED
  BY <2>1, IdFacts
<1>5. ASSUME NEW m \in Mail, ToggleStar(m) PROVE TypeOK'
<2>1. Enqueue("setStarred", m, ~shown[m])
  BY <1>5 DEF ToggleStar
<2>0. "setStarred" \in Ops /\ m \in Targets /\ (~shown[m]) \in BOOLEAN
  BY DEF Ops, Targets
<2>2. row' \in [Ids -> Rows] /\ used' \in 0..MaxRows /\ SlotRow("setStarred", m) \in 0..MaxRows
      /\ UNCHANGED <<drain, batch, orphans>>
  BY <1>4, <2>0, <2>1
<2>3. taps' \in 0..MaxTaps
  BY <1>5, MobileAssumption DEF ToggleStar, TypeOK
<2>4. storeStar' \in [Stored -> BOOLEAN] /\ lastStar' \in [Mail -> 0..MaxRows]
  BY <1>5, <2>2 DEF ToggleStar, TypeOK
<2> QED
  BY <1>5, <2>2, <2>3, <2>4, TypeParts DEF ToggleStar
<1>6. ASSUME NEW m \in Mail, NEW op \in Terminal, Move(m, op) PROVE TypeOK'
<2>1. Enqueue(op, m, TRUE) /\ op \in Ops /\ m \in Targets
  BY <1>6 DEF Move, Ops, Targets
<2>2. row' \in [Ids -> Rows] /\ used' \in 0..MaxRows /\ SlotRow(op, m) \in 0..MaxRows
      /\ UNCHANGED <<drain, batch, orphans>>
  BY <1>4, <2>1
<2>3. taps' \in 0..MaxTaps /\ 0 \in 0..MaxRows
  BY <1>6, MobileAssumption DEF Move, TypeOK
<2>4. lastMove' \in [Mail -> 0..MaxRows] /\ lastStar' \in [Mail -> 0..MaxRows]
  BY <1>6, <2>2, <2>3 DEF Move, TypeOK
<2>5. /\ direct' \in [Mail -> Folders \cup {"none"}] /\ settled' \in [Mail -> Folders \cup {"none"}]
      /\ bypassed' \subseteq Mail
  BY <1>6, ChosenFacts DEF Move
<2> QED
  BY <1>6, <2>2, <2>3, <2>4, <2>5, TypeParts DEF Move
<1>12. ASSUME NEW m \in Mail, NEW f \in Folders, DirectMoves(m) \/ DirectFails(m) \/ MoveDirectly(m, f)
       PROVE  TypeOK'
<2>1. UNCHANGED <<row, used, drain, batch, orphans, shown, storeStar, compose, lastStar, lastMove,
                  star, copies, requeues, kills>>
  BY <1>12, DirectFacts DEF DirectStep
<2>2. folder' \in [Mail -> Folders]
  BY <1>12 DEF DirectMoves, DirectFails, MoveDirectly, TypeOK
<2>3. direct' \in [Mail -> Folders \cup {"none"}] /\ settled' \in [Mail -> Folders \cup {"none"}]
      /\ bypassed' \subseteq Mail
  BY <1>12 DEF DirectMoves, DirectFails, MoveDirectly, TypeOK
<2>4. taps' \in 0..MaxTaps
  BY <1>12, MobileAssumption DEF DirectMoves, DirectFails, MoveDirectly, TypeOK
<2> QED
  BY <2>1, <2>2, <2>3, <2>4, TypeParts
<1>7. ASSUME NEW m \in Mail, Refetch(m) PROVE TypeOK'
  BY <1>7, TypeParts DEF Refetch, TypeOK
<1>8. ASSUME NEW d \in Drafts, SendTapped(d) \/ SendStep(d) PROVE TypeOK'
<2>1. row' \in [Ids -> Rows] /\ used' \in 0..MaxRows
  <3>1. CASE SendQueued(d)
    BY <1>4, <3>1 DEF SendQueued, Ops, Targets
  <3> QED
    BY <1>8, <3>1, SendFacts, TypeParts
<2> QED
  BY <1>8, <2>1, SendFacts, TypeParts
<1>9. ASSUME NEW i \in Ids, Requeue(i) \/ Discard(i) \/ Elapses(i) PROVE TypeOK'
<2>1. row' \in [Ids -> Rows]
  BY <1>9, TurnFacts DEF Turns
<2>2. i \in 0..MaxRows /\ 0 \in 0..MaxRows
  BY IdFacts, MobileAssumption
<2>3. lastStar' \in [Mail -> 0..MaxRows] /\ lastMove' \in [Mail -> 0..MaxRows]
  BY <1>9, <2>2 DEF Requeue, Discard, Elapses, TypeOK
<2>4. requeues' \in 0..MaxRequeues /\ discarded' \subseteq Drafts
  BY <1>9, MobileAssumption DEF Requeue, Discard, Elapses, TypeOK
<2>5. UNCHANGED <<used, drain, batch, orphans, server, shown, storeStar, send, local, unheard, taps, kills>>
  BY <1>9 DEF Requeue, Discard, Elapses
<2>6. /\ direct' \in [Mail -> Folders \cup {"none"}] /\ settled' \in [Mail -> Folders \cup {"none"}]
      /\ bypassed' \subseteq Mail
  <3>1. CASE UNCHANGED <<direct, bypassed, settled>>
    BY <3>1 DEF TypeOK
  <3>2. CASE Requeue(i) /\ row[i].op \in Terminal
    <4>1. row[i].target \in Mail
      BY <3>2, RowFields DEF Requeue, RowsUsed, Terminal, Targets
    <4> QED
      BY <3>2, <4>1, ChosenFacts DEF Requeue
  <3> QED
    BY <1>9, <3>1, <3>2 DEF Requeue, Discard, Elapses
<2> QED
  BY <2>1, <2>3, <2>4, <2>5, <2>6, TypeParts
<1>10. CASE Kill
<2>1. orphans' \subseteq Ids
  BY <1>10, KillFacts DEF TypeOK, Running
<2>2. send' \in [Drafts -> SendPcs] /\ kills' \in 0..MaxKills /\ drain' = Idle /\ batch' = {}
      /\ UNCHANGED <<row, used, server, shown, storeStar, local, unheard, discarded, choices, taps, requeues>>
  BY <1>10, KillFacts
<2> QED
  BY <2>1, <2>2, DrainFacts, TypeParts
<1>11. CASE UNCHANGED vars
  BY <1>11, TypeParts DEF vars
<1>13. DirectStep => TypeOK'
  BY <1>12 DEF DirectStep, Folders
<1> QED
  BY <1>1, <1>2, <1>3, <1>5, <1>6, <1>7, <1>8, <1>9, <1>10, <1>11, <1>13, Cases
-----------------------------------------------------------------------------
(* The outbox: one pending row per key, and who runs what is in flight *)

\* The drain's steps leave what the user's steps write, and the other way around.
UserStep ==
  \/ \E m \in Mail : ToggleStar(m) \/ Refetch(m) \/ \E op \in Terminal : Move(m, op)
  \/ DirectStep
  \/ \E d \in Drafts : SendTapped(d) \/ SendStep(d)
  \/ \E i \in Ids : Requeue(i) \/ Discard(i) \/ Elapses(i)

\* The enqueues: their operation fits their target.
Enqueues(op, t) ==
  /\ op \in Ops /\ t \in Targets /\ (op = "composeSend" <=> t \in Drafts)
  /\ \E v \in BOOLEAN : Enqueue(op, t, v)

LEMMA EnqueuesFacts ==
  ASSUME TypeOK, NEW op, NEW t, Enqueues(op, t)
  PROVE  LET id == SlotRow(op, t) IN
           /\ id \in Ids
           /\ row'[id].status = "pending" /\ row'[id].op = op /\ row'[id].target = t
           /\ \A j \in Ids \ {id} :
                /\ Same(j)
                /\ ~Superseded(op, t, j) => row'[j].status = row[j].status
                /\ Superseded(op, t, j) => row'[j].status = "gone"
           /\ \/ id = used + 1 /\ used' = id /\ \A j \in Ids : ~(op \notin Terminal /\ Pending(j, op, t))
              \/ op \notin Terminal /\ Pending(id, op, t) /\ (used' = used \/ (id > used /\ used' = id))
           /\ UNCHANGED <<drain, batch, orphans>>
  BY EnqueueFacts DEF Enqueues

\* The user's steps enqueue, turn a row that does not run, or leave the outbox.
LEMMA UserFacts ==
  ASSUME TypeOK, UserStep
  PROVE  /\ UNCHANGED <<drain, batch, orphans>>
         /\ \/ UNCHANGED <<row, used>>
            \/ \E m \in Mail : ToggleStar(m) /\ Enqueues("setStarred", m)
            \/ \E m \in Mail, op \in Terminal : Move(m, op) /\ Enqueues(op, m)
            \/ \E d \in Drafts : SendQueued(d) /\ Enqueues("composeSend", d)
            \/ /\ UNCHANGED used
               /\ \E i \in Ids : \/ Requeue(i) /\ Turns(i, "failed", "pending") /\ ~Taken(i)
                                 \/ Discard(i) /\ Turns(i, "failed", "gone")
                                 \/ Elapses(i) /\ Turns(i, "pending", "pending")
<1> USE DEF queue, server, compose, choices, counters, Elsewhere
<1>0. \A m \in Mail : m \in Targets /\ m \notin Drafts
  BY MobileAssumption DEF Targets
<1>1. ASSUME NEW m \in Mail, ToggleStar(m)
      PROVE  UNCHANGED <<drain, batch, orphans>> /\ Enqueues("setStarred", m)
<2>1. Enqueue("setStarred", m, ~shown[m])
  BY <1>1 DEF ToggleStar
<2>2. (~shown[m]) \in BOOLEAN
  OBVIOUS
<2>3. \E v \in BOOLEAN : Enqueue("setStarred", m, v)
  BY <2>1, <2>2
<2>4. UNCHANGED <<drain, batch, orphans>>
  BY <2>1 DEF Enqueue
<2> QED
  BY <1>0, <2>3, <2>4 DEF Enqueues, Ops
<1>2. ASSUME NEW m \in Mail, NEW op \in Terminal, Move(m, op)
      PROVE  UNCHANGED <<drain, batch, orphans>> /\ Enqueues(op, m)
<2>1. Enqueue(op, m, TRUE)
  BY <1>2 DEF Move
<2>2. op \in Ops /\ op # "composeSend"
  BY DEF Ops, Terminal
<2> QED
  BY <1>0, <2>1, <2>2 DEF Enqueues, Enqueue
<1>3. ASSUME NEW d \in Drafts, SendTapped(d) \/ SendStep(d)
      PROVE  /\ UNCHANGED <<drain, batch, orphans>>
             /\ UNCHANGED <<row, used>> \/ (SendQueued(d) /\ Enqueues("composeSend", d))
<2>1. CASE SendQueued(d)
  BY <2>1 DEF SendQueued, Enqueues, Enqueue, Ops, Targets
<2> QED
  BY <1>3, <2>1, SendFacts
<1>4. ASSUME NEW m \in Mail, Refetch(m) PROVE UNCHANGED <<drain, batch, orphans, row, used>>
  BY <1>4 DEF Refetch
<1>5. ASSUME NEW i \in Ids, Requeue(i) \/ Discard(i) \/ Elapses(i)
      PROVE  /\ UNCHANGED <<drain, batch, orphans, used>>
             /\ \/ Requeue(i) /\ Turns(i, "failed", "pending") /\ ~Taken(i)
                \/ Discard(i) /\ Turns(i, "failed", "gone")
                \/ Elapses(i) /\ Turns(i, "pending", "pending")
<2>1. UNCHANGED <<drain, batch, orphans, used>>
  BY <1>5 DEF Requeue, Discard, Elapses
<2> QED
  BY <1>5, <2>1, TurnFacts
<1> QED
  BY <1>1, <1>2, <1>3, <1>4, <1>5, DirectFacts DEF UserStep

\* What becomes of the rows in any step.
LEMMA Turning ==
  ASSUME TypeOK, RunsAlone, [Next]_vars
  PROVE  \/ UNCHANGED <<row, used>>
         \/ /\ UNCHANGED used
            /\ \E i \in Ids : \E from, to \in {"pending", "inflight", "failed", "gone"} :
                 Turns(i, from, to) /\ (to = "pending" => from = "pending" \/ ~Taken(i))
         \/ \E op, t : Enqueues(op, t)
<1> USE DEF queue, server, compose, choices, counters, Elsewhere
<1>1. CASE StartDrain \/ EndDrain \/ RetryRefused \/ Calls \/ Kill \/ UNCHANGED vars
  BY <1>1, CallFacts DEF StartDrain, EndDrain, RetryRefused, Calls, Kill, vars
<1>2. ASSUME NEW s \in batch, ClaimRow(s)
      PROVE  \/ UNCHANGED <<row, used>>
             \/ UNCHANGED used /\ \E i \in Ids : Turns(i, "pending", "inflight")
<2>1. UNCHANGED used
  BY <1>2 DEF ClaimRow
<2> QED
  BY <1>2, <2>1, BetweenFacts
<1>3. ASSUME Concludes
      PROVE  UNCHANGED used /\ \E i \in Ids : \E to \in {"pending", "failed", "gone"} :
               Turns(i, "inflight", to) /\ (to = "pending" => ~Taken(i))
<2>1. UNCHANGED used /\ drain.id \in Ids /\ row[drain.id].status = "inflight"
  BY <1>3, EndFacts DEF Concludes, Ack, MarkRetry, MarkFailed, RunsAlone, Running
<2>2. Same(drain.id) /\ OtherRows(drain.id) /\ row' \in [Ids -> Rows]
  BY <1>3, EndFacts DEF Concludes
<2>3. \E to \in {"pending", "failed", "gone"} :
        row'[drain.id].status = to /\ (to = "pending" => ~Taken(drain.id))
  BY <1>3, EndFacts DEF Concludes
<2>4. PICK to \in {"pending", "failed", "gone"} :
        row'[drain.id].status = to /\ (to = "pending" => ~Taken(drain.id))
  BY <2>3
<2>5. Turns(drain.id, "inflight", to)
  BY <2>1, <2>2, <2>4 DEF Turns
<2>6. \E i \in Ids : i = drain.id
  BY <2>1
<2> QED
  BY <2>1, <2>4, <2>5, <2>6
<1>4. CASE UserStep
  BY <1>4, UserFacts
<1>5. CASE \E s \in batch : ClaimRow(s)
  BY <1>2, <1>5
<1>6. CASE Concludes
  BY <1>3, <1>6
<1> QED
  BY <1>1, <1>4, <1>5, <1>6, Cases DEF UserStep

LEMMA RowsStep == TypeOK /\ RunsAlone /\ RowsUsed /\ OnePending /\ [Next]_vars => RowsUsed' /\ OnePending'
<1> SUFFICES ASSUME TypeOK, RunsAlone, RowsUsed, OnePending, [Next]_vars PROVE RowsUsed' /\ OnePending'
  OBVIOUS
<1>0. used \in Nat /\ Ids \subseteq Nat
  BY IdFacts, MobileAssumption DEF TypeOK
<1>1. CASE UNCHANGED <<row, used>>
  BY <1>1 DEF RowsUsed, OnePending, Taken, Pending
<1>2. ASSUME NEW i \in Ids, NEW from \in {"pending", "inflight", "failed", "gone"},
             NEW to \in {"pending", "inflight", "failed", "gone"},
             Turns(i, from, to), to = "pending" => from = "pending" \/ ~Taken(i), UNCHANGED used
      PROVE  RowsUsed' /\ OnePending'
<2>1. RowsUsed'
  BY <1>2 DEF Turns, RowsUsed, Same, OtherRows
<2>2. OnePending'
  BY <1>2 DEF Turns, OnePending, Taken, Pending, Same, OtherRows
<2> QED
  BY <2>1, <2>2
<1>3. ASSUME NEW op, NEW t, Enqueues(op, t) PROVE RowsUsed' /\ OnePending'
<2> DEFINE id == SlotRow(op, t)
<2>1. t # NoTarget /\ (op = "composeSend" <=> t \in Drafts)
  BY <1>3, MobileAssumption DEF Enqueues, Targets
<2>2. /\ id \in Ids
      /\ row'[id].status = "pending" /\ row'[id].op = op /\ row'[id].target = t
      /\ \A j \in Ids \ {id} :
           /\ Same(j)
           /\ ~Superseded(op, t, j) => row'[j].status = row[j].status
           /\ Superseded(op, t, j) => row'[j].status = "gone"
  BY <1>3, EnqueuesFacts
<2>3. \/ id = used + 1 /\ used' = id /\ \A j \in Ids : ~(op \notin Terminal /\ Pending(j, op, t))
      \/ op \notin Terminal /\ Pending(id, op, t) /\ (used' = used \/ (id > used /\ used' = id))
  BY <1>3, EnqueuesFacts
<2> HIDE DEF id
<2>4. \A j \in Ids \ {id} : row'[j].status = "unused" <=> row[j].status = "unused"
  BY <2>2 DEF Superseded
<2>5. (\A j \in Ids \ {id} : j > used' <=> j > used) /\ ~(id > used')
  <3>1. CASE id = used + 1 /\ used' = id
    BY <1>0, <3>1
  <3>2. CASE Pending(id, op, t) /\ (used' = used \/ (id > used /\ used' = id))
    <4>1. ~(id > used)
      BY <2>2, <3>2 DEF Pending, RowsUsed
    <4> QED
      BY <3>2, <4>1
  <3> QED
    BY <2>3, <3>1, <3>2
<2>7. RowsUsed'
  BY <2>1, <2>2, <2>4, <2>5 DEF RowsUsed, Same
<2>8. \A j \in Ids \ {id} : row'[j].status = "pending" => row[j].status = "pending" /\ ~Pending(j, op, t)
  BY <2>2, <2>3 DEF Superseded, Pending, OnePending, Taken, Slot
<2>9. OnePending'
  BY <2>2, <2>8 DEF OnePending, Taken, Pending, Same
<2> QED
  BY <2>7, <2>9
<1> QED
  BY <1>1, <1>2, <1>3, Turning
\* Rows in flight are left alone by the user.
LEMMA InflightKept ==
  ASSUME TypeOK, RowsUsed, UserStep, NEW i \in Ids
  PROVE  /\ row'[i].status = "inflight" <=> row[i].status = "inflight"
         /\ row[i].status # "unused" => Same(i)
<1>0. used \in Nat /\ Ids \subseteq Nat
  BY IdFacts, MobileAssumption DEF TypeOK
<1>1. ASSUME NEW j \in Ids, Turns(j, "failed", "pending") \/ Turns(j, "failed", "gone") \/ Turns(j, "pending", "pending")
      PROVE  (row'[i].status = "inflight" <=> row[i].status = "inflight") /\ Same(i)
  BY <1>1 DEF Turns, OtherRows, Same
<1>2. ASSUME NEW op, NEW t, Enqueues(op, t)
      PROVE  (row'[i].status = "inflight" <=> row[i].status = "inflight") /\ (row[i].status # "unused" => Same(i))
<2> DEFINE id == SlotRow(op, t)
<2>1. /\ id \in Ids
      /\ row'[id].status = "pending" /\ row'[id].op = op /\ row'[id].target = t
      /\ \A j \in Ids \ {id} :
           /\ Same(j)
           /\ ~Superseded(op, t, j) => row'[j].status = row[j].status
           /\ Superseded(op, t, j) => row'[j].status = "gone"
  BY <1>2, EnqueuesFacts
<2>2. \/ id = used + 1
      \/ op \notin Terminal /\ Pending(id, op, t)
  BY <1>2, EnqueuesFacts
<2> HIDE DEF id
<2>3. CASE i # id
  BY <2>1, <2>3 DEF Superseded
<2>4. CASE i = id /\ id = used + 1
  <3>1. row[i].status = "unused"
    BY <1>0, <2>4 DEF RowsUsed
  <3> QED
    BY <2>1, <2>4, <3>1
<2>5. CASE i = id /\ op \notin Terminal /\ Pending(id, op, t)
  <3>1. row[i].status = "pending" /\ row[i].target = t /\ row[i].op = op
    <4>1. row[i].status = "pending" /\ row[i].target = t /\ Slot(row[i].op) = Slot(op)
      BY <2>5 DEF Pending
    <4>2. op # "terminal" /\ row[i].op # "terminal"
      BY <1>2, RowFields DEF Enqueues, Ops, Terminal
    <4> QED
      BY <2>5, <4>1, <4>2 DEF Slot
  <3> QED
    BY <2>1, <2>5, <3>1 DEF Same
<2> QED
  BY <2>2, <2>3, <2>4, <2>5
<1> QED
  BY <1>1, <1>2, UserFacts DEF Same

\* What the drain does to the row it runs, and when it lets go.
LEMMA DrainSteps ==
  ASSUME TypeOK, [Next]_vars
  PROVE  \/ UserStep
         \/ (StartDrain \/ EndDrain) /\ ~Running /\ ~Running' /\ UNCHANGED <<row, orphans>>
         \/ \E s \in batch : ClaimRow(s)
         \/ Calls
         \/ Concludes
         \/ RetryRefused
         \/ Kill
         \/ UNCHANGED vars
<1>1. ASSUME StartDrain \/ EndDrain PROVE ~Running /\ ~Running' /\ UNCHANGED <<row, orphans>>
  BY <1>1, BetweenFacts, DrainFacts DEF StartDrain, EndDrain, Running
<1> QED
  BY <1>1, Cases DEF UserStep

LEMMA RunsStep ==
  TypeOK /\ RowsUsed /\ RunsAlone /\ InflightExplained /\ [Next]_vars => RunsAlone' /\ InflightExplained'
<1> SUFFICES ASSUME TypeOK, RowsUsed, RunsAlone, InflightExplained, [Next]_vars
             PROVE  RunsAlone' /\ InflightExplained'
  OBVIOUS
<1> USE DEF queue, server, compose, choices, counters, Elsewhere
<1>0. /\ Running => drain.id \in Ids
      /\ \A i \in Ids : row[i].status = "inflight" <=> i \in orphans \/ (Running /\ drain.id = i)
      /\ InflightExplained' <=>
           \A i \in Ids : row'[i].status = "inflight" <=> i \in orphans' \/ (Running' /\ drain'.id = i)
  BY DEF TypeOK, Running, InflightExplained
<1>1. CASE UserStep
<2>1. UNCHANGED <<drain, orphans>> /\ \A i \in Ids : row'[i].status = "inflight" <=> row[i].status = "inflight"
  BY <1>1, UserFacts, InflightKept
<2> QED
  BY <1>0, <2>1 DEF RunsAlone, Running
<1>2. CASE ~Running /\ ~Running' /\ UNCHANGED <<row, orphans>>
  BY <1>0, <1>2 DEF RunsAlone
<1>3. ASSUME NEW s \in batch, ClaimRow(s) PROVE RunsAlone' /\ InflightExplained'
<2>1. ~Running /\ UNCHANGED orphans
  BY <1>3, BetweenFacts DEF ClaimRow, Running
<2>2. CASE UNCHANGED <<row, drain>>
  BY <1>0, <2>1, <2>2 DEF RunsAlone, Running
<2>3. CASE Turns(s.id, "pending", "inflight") /\ drain'.pc = "claimed" /\ drain'.id = s.id /\ s.id \in Ids
  <3>1. Running'
    BY <2>3 DEF Running
  <3> QED
    BY <1>0, <2>1, <2>3, <3>1 DEF RunsAlone, Turns, OtherRows
<2> QED
  BY <1>3, <2>2, <2>3, BetweenFacts
<1>4. CASE Calls
<2>1. Running /\ Running' /\ UNCHANGED <<row, orphans>> /\ drain'.id = drain.id
  BY <1>4, CallFacts DEF Calls, Goes
<2> QED
  BY <1>0, <2>1 DEF RunsAlone
<1>5. CASE Concludes
<2>1. /\ Running /\ ~Running' /\ UNCHANGED orphans /\ drain.id \in Ids
      /\ row'[drain.id].status # "inflight" /\ OtherRows(drain.id)
  BY <1>5, EndFacts, DrainFacts DEF Concludes, Ack, MarkRetry, MarkFailed, Running
<2> QED
  BY <1>0, <2>1 DEF RunsAlone, OtherRows
<1>6. CASE RetryRefused
<2>1. Running /\ ~Running' /\ UNCHANGED row /\ orphans' = orphans \cup {drain.id}
  BY <1>6, BetweenFacts, DrainFacts DEF RetryRefused, Running
<2> QED
  BY <1>0, <2>1 DEF RunsAlone
<1>7. CASE Kill
<2>1. ~Running' /\ UNCHANGED row /\ orphans' = (IF Running THEN orphans \cup {drain.id} ELSE orphans)
  BY <1>7, KillFacts, DrainFacts DEF Running
<2> QED
  BY <1>0, <2>1 DEF RunsAlone
<1>8. CASE UNCHANGED vars
  BY <1>0, <1>8 DEF vars, RunsAlone, Running
<1> QED
  BY <1>1, <1>2, <1>3, <1>4, <1>5, <1>6, <1>7, <1>8, DrainSteps

-----------------------------------------------------------------------------
(* A draft has one row, and only after its direct call *)

\* The steps of the drain that make no call and the user's taps leave a draft alone.
LEMMA QuietFacts ==
  /\ StartDrain \/ EndDrain \/ RetryRefused \/ (\E s \in batch : ClaimRow(s)) \/ Concludes =>
       UNCHANGED <<server, local, unheard, Elsewhere>>
  /\ \A m \in Mail : ToggleStar(m) \/ Refetch(m) => UNCHANGED <<server, compose, lastMove, direct, bypassed, settled, kills>>
  /\ \A m \in Mail : \A op \in Terminal : Move(m, op) => UNCHANGED <<server, compose, kills>>
  /\ \A i \in Ids : Requeue(i) \/ Discard(i) \/ Elapses(i) =>
       UNCHANGED <<server, send, local, unheard, kills>>
<1> USE DEF server, compose, choices, counters, Elsewhere
<1>1. StartDrain \/ EndDrain \/ RetryRefused \/ (\E s \in batch : ClaimRow(s)) \/ Concludes =>
        UNCHANGED <<server, local, unheard, Elsewhere>>
  BY DEF StartDrain, EndDrain, RetryRefused, ClaimRow, Concludes, Ack, MarkRetry, MarkFailed
<1>2. \A m \in Mail : ToggleStar(m) \/ Refetch(m) => UNCHANGED <<server, compose, lastMove, direct, bypassed, settled, kills>>
  BY DEF ToggleStar, Refetch
<1>3. \A m \in Mail : \A op \in Terminal : Move(m, op) => UNCHANGED <<server, compose, kills>>
  BY DEF Move
<1>4. \A i \in Ids : Requeue(i) \/ Discard(i) \/ Elapses(i) =>
        UNCHANGED <<server, send, local, unheard, kills>>
  BY DEF Requeue, Discard, Elapses
<1> QED
  BY <1>1, <1>2, <1>3, <1>4

\* What the user's steps do to the row of a draft.
LEMMA UserDraftRows ==
  ASSUME TypeOK, RowsUsed, OneRow, UserStep, NEW i \in Ids, row'[i].target \in Drafts
  PROVE  \/ /\ Same(i)
            /\ \/ row'[i].status = row[i].status
               \/ row[i].status = "failed" /\ row'[i].status = "pending"
               \/ Discard(i) /\ row'[i].status = "gone"
         \/ /\ SendQueued(row'[i].target) /\ row'[i].status = "pending"
            /\ \A j \in Ids \ {i} : Same(j)
<1>0. Mail \cap Drafts = {}
  BY MobileAssumption
<1>1. ASSUME NEW j \in Ids,
             \/ Turns(j, "failed", "pending")
             \/ Discard(j) /\ Turns(j, "failed", "gone")
             \/ Turns(j, "pending", "pending")
      PROVE  /\ Same(i)
             /\ \/ row'[i].status = row[i].status
                \/ row[i].status = "failed" /\ row'[i].status = "pending"
                \/ Discard(i) /\ row'[i].status = "gone"
<2>1. CASE i = j
  BY <1>1, <2>1 DEF Turns
<2>2. CASE i # j
  BY <1>1, <2>2 DEF Turns, OtherRows, Same
<2> QED
  BY <2>1, <2>2
<1>2. ASSUME NEW op, NEW m \in Mail, Enqueues(op, m)
      PROVE  Same(i) /\ row'[i].status = row[i].status
<2>1. i # SlotRow(op, m) /\ (\A j \in Ids \ {SlotRow(op, m)} :
        Same(j) /\ (~Superseded(op, m, j) => row'[j].status = row[j].status))
  BY <1>0, <1>2, EnqueuesFacts
<2>2. ~Superseded(op, m, i)
  BY <1>0, <2>1 DEF Superseded, Same
<2> QED
  BY <2>1, <2>2
<1>3. ASSUME NEW d \in Drafts, SendQueued(d), Enqueues("composeSend", d)
      PROVE  \/ Same(i) /\ row'[i].status = row[i].status
             \/ /\ SendQueued(row'[i].target) /\ row'[i].status = "pending"
                /\ \A j \in Ids \ {i} : Same(j)
<2> DEFINE id == SlotRow("composeSend", d)
<2>1. /\ id \in Ids /\ row'[id].status = "pending" /\ row'[id].target = d
      /\ \A j \in Ids \ {id} :
           Same(j) /\ (~Superseded("composeSend", d, j) => row'[j].status = row[j].status)
  BY <1>3, EnqueuesFacts
<2>2. \A j \in Ids : ~Superseded("composeSend", d, j)
  BY DEF Superseded, Terminal
<2> HIDE DEF id
<2> QED
  BY <1>3, <2>1, <2>2
<1>4. CASE UNCHANGED <<row, used>>
  BY <1>4 DEF Same
<1> QED
  BY <1>1, <1>2, <1>3, <1>4, UserFacts

\* A draft gets its row from the queueing of its send, and keeps it.
LEMMA DraftRows ==
  ASSUME TypeOK, RowsUsed, RunsAlone, OneRow, [Next]_vars, NEW i \in Ids, row'[i].target \in Drafts
  PROVE  \/ row[i].target = row'[i].target
         \/ SendQueued(row'[i].target) /\ \A j \in Ids \ {i} : Same(j)
<1>1. CASE UserStep
  BY <1>1, UserDraftRows DEF Same
<1>2. CASE UNCHANGED row
  BY <1>2
<1>3. ASSUME NEW s \in batch, ClaimRow(s) PROVE row[i].target = row'[i].target
  BY <1>3, BetweenFacts DEF Turns, Same, OtherRows
<1>4. CASE Concludes
  BY <1>4, EndFacts DEF Concludes, Same, OtherRows
<1>5. CASE Calls \/ RetryRefused \/ Kill \/ UNCHANGED vars
  BY <1>5, <1>2, CallFacts, KillFacts DEF Calls, RetryRefused, vars, queue
<1> QED
  BY <1>1, <1>2, <1>3, <1>4, <1>5, DrainSteps

\* A send that is over stays over, and a draft without a row in the store is untouched.
LEMMA SendKept ==
  ASSUME TypeOK, RowsUsed, RunsAlone, OneRow, [Next]_vars, NEW d \in Drafts
  PROVE  /\ send[d] = "over" => send'[d] = "over"
         /\ SendQueued(d) => send[d] = "soft" /\ send'[d] = "over"
         /\ local'[d] = "none" <=> send'[d] = "new"
<1> USE DEF server, compose, choices, counters, Elsewhere
<1>0. local[d] = "none" <=> send[d] = "new"
  BY DEF OneRow
<1>1. CASE UNCHANGED <<send, local>>
<2>1. ~SendQueued(d)
  <3>1. SendQueued(d) => send' # send
    BY DEF SendQueued, TypeOK
  <3> QED
    BY <1>1, <3>1
<2> QED
  BY <1>0, <1>1, <2>1
<1>2. ASSUME NEW e \in Drafts, SendTapped(e) \/ SendStep(e)
      PROVE  /\ send[d] = "over" => send'[d] = "over"
             /\ SendQueued(d) => send[d] = "soft" /\ send'[d] = "over"
             /\ local'[d] = "none" <=> send'[d] = "new"
<2>1. SendQueued(d) => send[d] = "soft" /\ send'[d] = "over"
  BY DEF SendQueued, TypeOK
<2>2. CASE e # d
  BY <1>0, <1>2, <2>1, <2>2, SendFacts DEF OtherSends
<2>3. CASE e = d
  BY <1>0, <1>2, <2>1, <2>3, SendFacts
<2> QED
  BY <2>2, <2>3
<1>3. ASSUME Calls
      PROVE  UNCHANGED send /\ (local'[d] = "none" <=> local[d] = "none")
  BY <1>3, ServerFacts DEF Calls
<1>4. CASE Calls
<2>1. SendQueued(d) => send' # send
  BY DEF SendQueued, TypeOK
<2> QED
  BY <1>0, <1>3, <1>4, <2>1
<1>5. CASE Kill
<2>1. SendQueued(d) => kills' = kills
  BY DEF SendQueued
<2>2. ~SendQueued(d)
  BY <1>5, <2>1, MobileAssumption DEF Kill, TypeOK
<2> QED
  BY <1>0, <1>5, <2>2, KillFacts
<1>6. CASE UNCHANGED vars
  BY <1>1, <1>6 DEF vars
<1>7. CASE StartDrain \/ EndDrain \/ RetryRefused \/ (\E s \in batch : ClaimRow(s)) \/ Concludes
  BY <1>1, <1>7, QuietFacts
<1>8. CASE \E m \in Mail : ToggleStar(m) \/ Refetch(m) \/ \E op \in Terminal : Move(m, op)
  BY <1>1, <1>8, QuietFacts
<1>9. CASE \E i \in Ids : Requeue(i) \/ Discard(i) \/ Elapses(i)
  BY <1>1, <1>9, QuietFacts
<1> QED
  BY <1>1, <1>2, <1>4, <1>5, <1>6, <1>7, <1>8, <1>9, DirectFacts, Cases

LEMMA OneRowStep == TypeOK /\ RowsUsed /\ RunsAlone /\ OneRow /\ [Next]_vars => OneRow'
<1> SUFFICES ASSUME TypeOK, RowsUsed, RunsAlone, OneRow, [Next]_vars PROVE OneRow'
  OBVIOUS
<1>1. \A d \in Drafts : local'[d] = "none" <=> send'[d] = "new"
  BY SendKept
<1>2. ASSUME NEW d \in Drafts, send'[d] # "over", NEW i \in Ids PROVE row'[i].target # d
  BY <1>2, SendKept, DraftRows DEF OneRow
<1>3. ASSUME NEW i \in Ids, NEW j \in Ids, row'[i].target \in Drafts, row'[j].target = row'[i].target
      PROVE  i = j
<2>1. CASE row[i].target = row'[i].target /\ row[j].target = row'[j].target
  BY <1>3, <2>1 DEF OneRow
<2>2. ASSUME NEW k \in Ids, SendQueued(row'[i].target), \A l \in Ids \ {k} : Same(l)
      PROVE  i = j
  <3>1. \A l \in Ids : row[l].target # row'[i].target
    BY <1>3, <2>2, SendKept DEF OneRow
  <3> QED
    BY <1>3, <2>2, <3>1 DEF Same
<2> QED
  BY <1>3, <2>1, <2>2, DraftRows
<1> QED
  BY <1>1, <1>2, <1>3 DEF OneRow

-----------------------------------------------------------------------------
(* What becomes of a draft *)

\* A draft that has a row is not touched by the user's steps.
LEMMA DraftKept ==
  ASSUME TypeOK, OneRow, UserStep, NEW d \in Drafts,
         send[d] = "over" \/ \E i \in Ids : row[i].target = d
  PROVE  send'[d] = send[d] /\ local'[d] = local[d] /\ copies'[d] = copies[d] /\ unheard'[d] = unheard[d]
<1> USE DEF server, compose, choices, counters
<1>0. send[d] = "over"
  BY DEF OneRow
<1>1. ASSUME NEW e \in Drafts, SendTapped(e) \/ SendStep(e)
      PROVE  send'[d] = send[d] /\ local'[d] = local[d] /\ copies'[d] = copies[d] /\ unheard'[d] = unheard[d]
<2>1. send[e] # "over"
  BY <1>1, SendFacts
<2> QED
  BY <1>0, <1>1, <2>1, SendFacts DEF OtherSends
<1>2. CASE \E m \in Mail : ToggleStar(m) \/ Refetch(m) \/ \E op \in Terminal : Move(m, op)
  BY <1>2, QuietFacts
<1>3. CASE \E i \in Ids : Requeue(i) \/ Discard(i) \/ Elapses(i)
  BY <1>3, QuietFacts
<1> QED
  BY <1>1, <1>2, <1>3, DirectFacts DEF UserStep

LEMMA SwappedStep ==
  TypeOK /\ RowsUsed /\ RunsAlone /\ OneRow /\ SwappedByThen /\ [Next]_vars => SwappedByThen'
<1> SUFFICES ASSUME TypeOK, RowsUsed, RunsAlone, OneRow, SwappedByThen, [Next]_vars,
                    NEW i \in Ids, drain'.pc = "ok", drain'.id = i, row'[i].target \in Drafts
             PROVE  local'[row'[i].target] = "server"
  BY DEF SwappedByThen
<1>1. CASE UserStep
<2>1. drain' = drain /\ Running
  BY <1>1, UserFacts DEF Running
<2>2. row[i].status = "inflight"
  BY <2>1 DEF RunsAlone
<2>3. Same(i)
  BY <1>1, <2>2, InflightKept
<2> QED
  BY <1>1, <2>1, <2>3, DraftKept DEF Same, SwappedByThen
<1>2. CASE Calls
<2>1. UNCHANGED row /\ drain'.id = drain.id /\ drain.id \in Ids /\ Running
  BY <1>2, CallFacts DEF Calls, Goes
<2>2. CASE Answer
  <3>1. row[i].target = Cur.target /\ local[row[i].target] # "none"
    BY <2>1 DEF OneRow, Cur
  <3> QED
    BY <2>1, <2>2, <3>1, ServerFacts
<2>3. CASE Handle
  <3>1. Cur.op = "setStarred" /\ Cur = row[i]
    BY <2>1, <2>3, CallFacts DEF Goes, Cur
  <3> QED
    BY <2>1, <3>1, CurFacts
<2>4. CASE Execute \/ Lose \/ \E kind \in {"soft", "hard"} : Fail(kind)
  BY <2>4, CallFacts DEF Goes
<2> QED
  BY <1>2, <2>2, <2>3, <2>4 DEF Calls
<1>3. CASE UNCHANGED vars
  BY <1>3 DEF SwappedByThen, vars, queue, compose
<1>4. CASE StartDrain \/ EndDrain \/ RetryRefused \/ Concludes \/ Kill
  BY <1>4, BetweenFacts, EndFacts, KillFacts, DrainFacts DEF Concludes
<1>5. ASSUME NEW s \in batch, ClaimRow(s) PROVE FALSE
  BY <1>5, BetweenFacts
<1> QED
  BY <1>1, <1>2, <1>3, <1>4, <1>5, DrainSteps

\* No step but a kill counts one.
LEMMA KillsKept == ASSUME TypeOK, [Next]_vars, kills' = 0 PROVE kills = 0 /\ ~Kill
<1>1. ~Kill
  BY KillFacts
<1>2. \A d \in Drafts : SendTapped(d) \/ SendStep(d) => UNCHANGED kills
  BY SendFacts DEF counters
<1>3. Calls => UNCHANGED kills
  BY DEF Calls, Handle, Execute, Answer, Lose, Fail, Elsewhere, counters
<1>4. UNCHANGED vars => UNCHANGED kills
  BY DEF vars, counters
<1>5. StartDrain \/ EndDrain \/ RetryRefused \/ (\E s \in batch : ClaimRow(s)) \/ Concludes => UNCHANGED kills
  BY QuietFacts DEF Elsewhere, counters
<1> QED
  BY <1>1, <1>2, <1>3, <1>4, <1>5, DirectFacts, QuietFacts, Cases

Live(i) == row[i].status \in {"pending", "inflight", "failed"}

\* A row of a draft that is still to be sent stays, until it is discarded or its draft
\* has the server's id.
LEMMA LiveKept ==
  ASSUME TypeOK, RowsUsed, RunsAlone, OneRow, SwappedByThen, [Next]_vars,
         NEW i \in Ids, Live(i), row[i].target \in Drafts
  PROVE  \/ Live(i)' /\ row'[i].target = row[i].target
         \/ row[i].target \in discarded'
         \/ local[row[i].target] = "server" /\ Concludes
<1>1. CASE UserStep
<2>1. Same(i)
  BY <1>1, InflightKept DEF Live
<2>2. CASE Discard(i)
  BY <2>2 DEF Discard
<2>3. CASE ~Discard(i)
  BY <1>1, <2>1, <2>3, UserDraftRows DEF Live, Same
<2> QED
  BY <2>2, <2>3
<1>2. CASE UNCHANGED row
  BY <1>2 DEF Live
<1>3. ASSUME NEW s \in batch, ClaimRow(s) PROVE Live(i)' /\ row'[i].target = row[i].target
  BY <1>3, BetweenFacts DEF Turns, Same, OtherRows, Live
<1>4. CASE Concludes
<2>1. CASE i = drain.id /\ Ack
  BY <1>4, <2>1, EndFacts DEF SwappedByThen
<2>2. CASE i = drain.id /\ (MarkRetry \/ MarkFailed)
  BY <2>2, EndFacts DEF Live, Same
<2>3. CASE i # drain.id
  BY <1>4, <2>3, EndFacts DEF Concludes, OtherRows, Live
<2> QED
  BY <1>4, <2>1, <2>2, <2>3 DEF Concludes
<1>5. CASE Calls \/ RetryRefused \/ Kill \/ UNCHANGED vars
  BY <1>2, <1>5, CallFacts, KillFacts DEF Calls, RetryRefused, vars, queue
<1> QED
  BY <1>1, <1>2, <1>3, <1>4, <1>5, DrainSteps

\* Discarding is never undone.
LEMMA DiscardedKept == ASSUME TypeOK, [Next]_vars PROVE discarded \subseteq discarded'
<1>1. \A d \in Drafts : SendTapped(d) \/ SendStep(d) => UNCHANGED discarded
  BY SendFacts
<1>2. \A m \in Mail : ToggleStar(m) \/ Refetch(m) \/ (\E op \in Terminal : Move(m, op)) => UNCHANGED discarded
  BY QuietFacts DEF compose
<1>3. \A i \in Ids : Requeue(i) \/ Discard(i) \/ Elapses(i) => discarded \subseteq discarded'
  BY DEF Requeue, Discard, Elapses, compose, Elsewhere
<1>4. Calls => UNCHANGED discarded
  BY DEF Calls, Handle, Execute, Answer, Lose, Fail, Elsewhere
<1>5. StartDrain \/ EndDrain \/ RetryRefused \/ (\E s \in batch : ClaimRow(s)) \/ Concludes => UNCHANGED discarded
  BY QuietFacts DEF Elsewhere
<1>6. Kill \/ UNCHANGED vars => UNCHANGED discarded
  BY KillFacts DEF vars, compose
<1>7. DirectStep => UNCHANGED discarded
  BY DirectFacts DEF compose
<1> QED
  BY <1>1, <1>2, <1>3, <1>4, <1>5, <1>6, <1>7, Cases

\* A placeholder comes from a tap on send, and is settled with its send.
LEMMA SendingFrom ==
  ASSUME TypeOK, RowsUsed, RunsAlone, OneRow, [Next]_vars, NEW d \in Drafts, local'[d] = "sending", ~Kill
  PROVE  \/ send'[d] # "over"
         \/ local[d] = "sending" /\ send[d] = "over"
         \/ SendQueued(d)
<1> USE DEF compose, server, choices, counters, Elsewhere
<1>1. CASE UNCHANGED <<send, local>>
  BY <1>1
<1>2. ASSUME NEW e \in Drafts, SendTapped(e) \/ SendStep(e)
      PROVE  send'[d] # "over" \/ (local[d] = "sending" /\ send[d] = "over") \/ SendQueued(d)
<2>1. CASE e # d
  BY <1>2, <2>1, SendFacts DEF OtherSends
<2>2. CASE e = d
  BY <1>2, <2>2, SendFacts
<2> QED
  BY <2>1, <2>2
<1>3. CASE Calls
<2>1. UNCHANGED send /\ local[d] = "sending"
  BY <1>3, ServerFacts DEF Calls
<2> QED
  BY <2>1
<1>4. CASE UNCHANGED vars
  BY <1>1, <1>4 DEF vars
<1>5. CASE StartDrain \/ EndDrain \/ RetryRefused \/ (\E s \in batch : ClaimRow(s)) \/ Concludes
  BY <1>1, <1>5, QuietFacts
<1>6. CASE \E m \in Mail : ToggleStar(m) \/ Refetch(m) \/ \E op \in Terminal : Move(m, op)
  BY <1>1, <1>6, QuietFacts
<1>7. CASE \E i \in Ids : Requeue(i) \/ Discard(i) \/ Elapses(i)
  BY <1>1, <1>7, QuietFacts
<1> QED
  BY <1>1, <1>2, <1>3, <1>4, <1>5, <1>6, <1>7, DirectFacts, Cases

LEMMA StrandedStep ==
  TypeOK /\ RowsUsed /\ RunsAlone /\ OneRow /\ SwappedByThen /\ NoStrandedPlaceholder /\ [Next]_vars
    => NoStrandedPlaceholder'
<1> SUFFICES ASSUME TypeOK, RowsUsed, RunsAlone, OneRow, SwappedByThen, NoStrandedPlaceholder, [Next]_vars,
                    kills' = 0, NEW d \in Drafts, local'[d] = "sending", send'[d] = "over", d \notin discarded'
             PROVE  \E i \in Ids : row'[i].target = d /\ row'[i].status \in {"pending", "inflight", "failed"}
  BY DEF NoStrandedPlaceholder
<1>1. kills = 0 /\ ~Kill
  BY KillsKept
<1>2. d \notin discarded
  BY DiscardedKept
<1>3. CASE SendQueued(d)
<2>1. Enqueues("composeSend", d)
  BY <1>3 DEF SendQueued, Enqueues, Ops, Targets
<2> DEFINE id == SlotRow("composeSend", d)
<2>2. id \in Ids /\ row'[id].status = "pending" /\ row'[id].target = d
  BY <2>1, EnqueuesFacts
<2> HIDE DEF id
<2> QED
  BY <2>2
<1>4. CASE local[d] = "sending" /\ send[d] = "over"
<2>1. PICK i \in Ids : row[i].target = d /\ row[i].status \in {"pending", "inflight", "failed"}
  BY <1>1, <1>2, <1>4 DEF NoStrandedPlaceholder
<2>2. Live(i)
  BY <2>1 DEF Live
<2> QED
  BY <1>4, <2>1, <2>2, LiveKept DEF Live
<1> QED
  BY <1>1, <1>3, <1>4, SendingFrom

\* Which of a draft's figures a step of the drain changes.
LEMMA CopiesByCall ==
  ASSUME TypeOK, RowsUsed, RunsAlone, OneRow, Calls, NEW d \in Drafts
  PROVE  /\ drain.id \in Ids /\ Running /\ drain'.id = drain.id
         /\ row[drain.id].target = d => send[d] = "over"
         /\ \/ copies'[d] = copies[d] /\ unheard'[d] = unheard[d]
            \/ row[drain.id].target = d /\ copies'[d] = copies[d] + 1 /\ unheard'[d] = unheard[d]
               /\ drain.pc = "calling" /\ drain'.pc = "executed"
            \/ row[drain.id].target = d /\ copies'[d] = copies[d] /\ unheard'[d] = unheard[d] + 1
               /\ drain.pc = "executed" /\ drain'.pc = "soft"
         /\ drain.pc = "executed" /\ drain'.pc \in {"claimed", "calling", "soft", "hard"}
              /\ row[drain.id].target = d => unheard'[d] = unheard[d] + 1 /\ copies'[d] = copies[d]
<1>1. drain.id \in Ids /\ Running /\ drain'.id = drain.id
  BY CallFacts DEF Calls, Goes
<1>2. row[drain.id].target = d => send[d] = "over"
  BY <1>1 DEF OneRow
<1>3. CASE Execute
  BY <1>1, <1>2, <1>3, CallFacts, ServerFacts DEF Goes, Cur
<1>4. CASE Lose
  BY <1>1, <1>2, <1>4, CallFacts, ServerFacts DEF Goes, Cur, server
<1>5. CASE Answer
  BY <1>1, <1>2, <1>5, CallFacts, ServerFacts DEF Goes, Cur, server
<1>6. CASE Handle
  BY <1>1, <1>2, <1>6, CallFacts, ServerFacts DEF Goes, Cur, server
<1>7. CASE \E kind \in {"soft", "hard"} : Fail(kind)
  BY <1>1, <1>2, <1>7, CallFacts, ServerFacts DEF Goes, Cur, server
<1> QED
  BY <1>3, <1>4, <1>5, <1>6, <1>7 DEF Calls

\* The part of CopiesSoFar and CopiesExplained about one draft.
CopiesOf(d) ==
  /\ copies[d] <= 1 + unheard[d]
  /\ send[d] \in {"new", "calling", "soft", "hard"} => copies[d] <= unheard[d]
  /\ \A i \in Ids : row[i].target = d =>
       /\ row[i].status \in {"pending", "failed"} => copies[d] <= unheard[d]
       /\ drain.id = i /\ drain.pc \in {"claimed", "calling", "soft", "hard"} => copies[d] <= unheard[d]

LEMMA CopiesParts ==
  /\ CopiesSoFar /\ CopiesExplained <=> \A d \in Drafts : CopiesOf(d)
  /\ (CopiesSoFar /\ CopiesExplained)' <=> \A d \in Drafts : CopiesOf(d)'
  BY DEF CopiesSoFar, CopiesExplained, CopiesOf

\* While nothing is counted and the draft's row only waits, is claimed or fails.
LEMMA CopiesByUser ==
  ASSUME TypeOK, RowsUsed, RunsAlone, OneRow, UserStep, NEW d \in Drafts, CopiesOf(d)
  PROVE  CopiesOf(d)'
<1> USE DEF server, compose, choices, counters
<1>0. copies[d] \in Nat /\ unheard[d] \in Nat
  BY DEF TypeOK
<1>1. drain' = drain
  BY UserFacts
<1>2. CASE \E i \in Ids : row[i].target = d
<2>1. PICK i \in Ids : row[i].target = d
  BY <1>2
<2>2. send[d] = "over" /\ send'[d] = "over" /\ copies'[d] = copies[d] /\ unheard'[d] = unheard[d]
  BY <2>1, DraftKept DEF OneRow
<2>3. ~SendQueued(d)
  BY <2>2 DEF SendQueued
<2>4. \A j \in Ids : row'[j].target = d =>
        row[j].target = d /\ (row'[j].status \in {"pending", "failed"} => row[j].status \in {"pending", "failed"})
  BY <2>3, UserDraftRows DEF Same
<2> QED
  BY <1>1, <2>2, <2>4 DEF CopiesOf
<1>3. CASE ~SendQueued(d) /\ \A i \in Ids : row[i].target # d
<2>1. \A j \in Ids : row'[j].target # d
  BY <1>3, UserDraftRows DEF Same
<2>2. ASSUME NEW e \in Drafts, SendTapped(e) \/ SendStep(e)
      PROVE  /\ copies'[d] <= 1 + unheard'[d]
             /\ send'[d] \in {"new", "calling", "soft", "hard"} => copies'[d] <= unheard'[d]
  <3>1. CASE e # d
    BY <2>2, <3>1, SendFacts DEF OtherSends, CopiesOf
  <3>2. CASE e = d
    BY <1>0, <1>3, <2>2, <3>2, SendFacts DEF CopiesOf
  <3> QED
    BY <3>1, <3>2
<2>3. CASE UNCHANGED <<send, copies, unheard>>
  BY <2>1, <2>3 DEF CopiesOf
<2>4. CASE \E m \in Mail : ToggleStar(m) \/ Refetch(m) \/ \E op \in Terminal : Move(m, op)
  BY <2>3, <2>4, QuietFacts
<2>5. CASE \E i \in Ids : Requeue(i) \/ Discard(i) \/ Elapses(i)
  BY <2>3, <2>5, QuietFacts
<2> QED
  BY <2>1, <2>2, <2>3, <2>4, <2>5, DirectFacts DEF UserStep, CopiesOf
<1>4. CASE SendQueued(d)
<2>1. send[d] = "soft" /\ send' = [send EXCEPT ![d] = "over"] /\ UNCHANGED <<copies, unheard>>
  BY <1>4 DEF SendQueued
<2> QED
  BY <1>0, <2>1 DEF CopiesOf
<1> QED
  BY <1>2, <1>3, <1>4

LEMMA CopiesStep ==
  TypeOK /\ RowsUsed /\ RunsAlone /\ OneRow /\ CopiesSoFar /\ CopiesExplained /\ [Next]_vars
    => CopiesSoFar' /\ CopiesExplained'
<1> SUFFICES ASSUME TypeOK, RowsUsed, RunsAlone, OneRow, [Next]_vars, NEW d \in Drafts, CopiesOf(d)
             PROVE  CopiesOf(d)'
  BY CopiesParts
<1> USE DEF server, compose, choices, counters, Elsewhere
<1>0. copies[d] \in Nat /\ unheard[d] \in Nat
  BY DEF TypeOK
<1>1. CASE UserStep
  BY <1>1, CopiesByUser
<1>2. ASSUME NEW s \in batch, ClaimRow(s) PROVE CopiesOf(d)'
<2>1. UNCHANGED <<send, copies, unheard>> /\ drain.pc = "loop"
  BY <1>2, QuietFacts, BetweenFacts
<2>2. CASE UNCHANGED <<row, drain>>
  BY <2>1, <2>2 DEF CopiesOf
<2>3. CASE /\ s.id \in Ids /\ Turns(s.id, "pending", "inflight")
           /\ drain'.pc = "claimed" /\ drain'.id = s.id
  BY <2>1, <2>3 DEF CopiesOf, Turns, OtherRows, Same
<2> QED
  BY <1>2, <2>2, <2>3, BetweenFacts
<1>3. CASE Calls
<2>1. UNCHANGED <<row, send>>
  BY <1>3, CallFacts, ServerFacts DEF Calls
<2>2. row[drain.id].status = "inflight" /\ drain.id \in Ids
  BY <1>3, CopiesByCall DEF RunsAlone
<2>3. CASE row[drain.id].target # d
  BY <1>3, <2>1, <2>3, CopiesByCall DEF CopiesOf
<2>4. CASE row[drain.id].target = d
  <3>1. send[d] = "over" /\ \A i \in Ids : row[i].target = d => i = drain.id
    BY <2>2, <2>4 DEF OneRow
  <3>2. /\ copies'[d] <= 1 + unheard'[d]
        /\ drain'.pc \in {"claimed", "calling", "soft", "hard"} => copies'[d] <= unheard'[d]
    <4>1. drain.pc \in {"claimed", "calling", "soft", "hard"} => copies[d] <= unheard[d]
      BY <2>2, <2>4 DEF CopiesOf
    <4>2. drain.pc \in {"claimed", "calling", "executed"}
      BY <1>3, CallFacts DEF Calls, Goes
    <4> QED
      BY <1>0, <1>3, <2>4, <4>1, <4>2, CopiesByCall DEF CopiesOf
  <3> QED
    BY <2>1, <2>2, <3>1, <3>2 DEF CopiesOf
<2> QED
  BY <2>3, <2>4
<1>4. CASE Concludes
<2>1. UNCHANGED <<send, copies, unheard>> /\ drain'.pc = "loop" /\ OtherRows(drain.id) /\ Same(drain.id)
  BY <1>4, QuietFacts, EndFacts, DrainFacts DEF Concludes
<2>2. /\ row'[drain.id].status = "gone" \/ drain.pc \in {"soft", "hard"}
      /\ drain.id \in Ids
  BY <1>4, EndFacts DEF Concludes
<2> QED
  BY <2>1, <2>2 DEF CopiesOf, OtherRows, Same
<1>5. CASE (StartDrain \/ EndDrain \/ RetryRefused) /\ UNCHANGED row
<2>1. UNCHANGED <<send, copies, unheard>> /\ drain'.pc \in {"idle", "loop"}
  BY <1>5, QuietFacts, BetweenFacts, DrainFacts
<2> QED
  BY <1>5, <2>1 DEF CopiesOf
<1>6. CASE Kill
<2>1. /\ UNCHANGED <<row, copies, unheard>> /\ drain'.pc = "idle"
      /\ send'[d] = (IF send[d] = "new" THEN "new" ELSE "over")
  BY <1>6, KillFacts, DrainFacts
<2> QED
  BY <2>1 DEF CopiesOf
<1>7. CASE UNCHANGED vars
  BY <1>7 DEF vars, queue, CopiesOf
<1>8. RetryRefused => UNCHANGED row
  BY DEF RetryRefused
<1> QED
  BY <1>1, <1>2, <1>3, <1>4, <1>5, <1>6, <1>7, <1>8, DrainSteps

-----------------------------------------------------------------------------
(* The user's last move *)

\* The rows of moves, and the row that carries the last one.
LEMMA MoveRows ==
  ASSUME TypeOK, RowsUsed, MovesSoFar
  PROVE  /\ \A i \in Ids : row[i].status # "unused" /\ row[i].op \in Terminal => row[i].target \in Mail
         /\ \A m \in Mail : lastMove[m] # 0 =>
              /\ lastMove[m] \in Ids /\ row[lastMove[m]].status # "unused"
              /\ row[lastMove[m]].target = m /\ row[lastMove[m]].op \in Terminal
<1>1. ASSUME NEW i \in Ids, row[i].status # "unused", row[i].op \in Terminal PROVE row[i].target \in Mail
  BY <1>1, RowFields DEF RowsUsed, Terminal, Targets
<1>2. ASSUME NEW m \in Mail, lastMove[m] # 0
      PROVE  /\ lastMove[m] \in Ids /\ row[lastMove[m]].status # "unused"
             /\ row[lastMove[m]].target = m /\ row[lastMove[m]].op \in Terminal
<2>1. lastMove[m] \in Ids /\ row[lastMove[m]].target = m /\ row[lastMove[m]].op \in Terminal
  BY <1>2, IdFacts DEF TypeOK, MovesSoFar
<2>2. m # NoTarget
  BY MobileAssumption
<2> QED
  BY <2>1, <2>2 DEF RowsUsed
<1> QED
  BY <1>1, <1>2

\* A step that leaves what was queued and moved.
LEMMA MovesUnmoved ==
  ASSUME MovesSoFar, QueuedMoveWins, UNCHANGED <<row, lastMove, folder, bypassed>>,
         drain' = drain \/ drain'.pc \in {"idle", "loop"}
  PROVE  MovesSoFar' /\ QueuedMoveWins'
  BY DEF MovesSoFar, QueuedMoveWins, Running

LEMMA MovesByMove ==
  ASSUME TypeOK, RowsUsed, RunsAlone, MovesSoFar, QueuedMoveWins,
         NEW m \in Mail, NEW op \in Terminal, Move(m, op), Enqueues(op, m)
  PROVE  MovesSoFar' /\ QueuedMoveWins'
<1> DEFINE id == SlotRow(op, m)
<1>1. /\ id \in Ids /\ row'[id].status = "pending" /\ row'[id].op = op /\ row'[id].target = m
      /\ \A j \in Ids \ {id} :
           /\ Same(j)
           /\ ~Superseded(op, m, j) => row'[j].status = row[j].status
           /\ Superseded(op, m, j) => row'[j].status = "gone"
      /\ drain' = drain
  BY EnqueuesFacts
<1>2. id = used + 1
  BY EnqueuesFacts
<1>3. /\ UNCHANGED folder /\ \A n \in Mail : lastMove'[n] = IF n = m THEN id ELSE lastMove[n]
      /\ \A n \in Mail \ {m} : n \in bypassed' <=> n \in bypassed
  BY DEF Move, Chosen, TypeOK, server
<1> HIDE DEF id
<1>4. id # 0 /\ row[id].status = "unused"
  BY <1>1, <1>2, MobileAssumption, IdFacts DEF RowsUsed, TypeOK
<1>5. \A n \in Mail \ {m} : lastMove[n] # 0 =>
        /\ lastMove[n] # id /\ Same(lastMove[n]) /\ row'[lastMove[n]].status = row[lastMove[n]].status
  BY <1>1, <1>4, MoveRows DEF Superseded
<1>6. Running => drain.id \in Ids \ {id} /\ row[drain.id].status = "inflight" /\ Same(drain.id)
  BY <1>1, <1>4 DEF RunsAlone, TypeOK, Running
<1>7. \A n \in Mail : lastMove'[n] # 0 => row'[lastMove'[n]].target = n /\ row'[lastMove'[n]].op \in Terminal
  BY <1>1, <1>3, <1>5, MoveRows DEF Same
<1>8. ASSUME NEW i \in Ids, row'[i].op \in Terminal, row'[i].status = "pending"
      PROVE  lastMove'[row'[i].target] = i
<2>1. CASE i = id
  BY <1>1, <1>3, <2>1
<2>2. CASE i # id
  <3>1. Same(i) /\ row[i].status = "pending" /\ row[i].target # m
    BY <1>1, <1>8, <2>2 DEF Superseded
  <3>2. row[i].target \in Mail /\ lastMove[row[i].target] = i
    BY <1>8, <3>1, MoveRows DEF Same, MovesSoFar
  <3> QED
    BY <1>3, <3>1, <3>2 DEF Same
<2> QED
  BY <2>1, <2>2
<1>9. ASSUME Running', NEW i \in Ids, drain'.id = i, row'[i].op \in Terminal
      PROVE  /\ lastMove'[row'[i].target] # 0
             /\ lastMove'[row'[i].target] = i \/ row'[lastMove'[row'[i].target]].status = "pending"
             /\ drain'.pc \in {"executed", "ok"} /\ lastMove'[row'[i].target] = i /\ row'[i].target \notin bypassed'
                  => folder'[row'[i].target] = FolderOf(row'[i].op)
<2>1. Running /\ drain.id = i /\ Same(i) /\ row[i].status = "inflight" /\ row[i].op \in Terminal
  BY <1>1, <1>6, <1>9 DEF Running, Same
<2>2. /\ row[i].target \in Mail /\ lastMove[row[i].target] # 0
      /\ lastMove[row[i].target] = i \/ row[lastMove[row[i].target]].status = "pending"
      /\ drain.pc \in {"executed", "ok"} /\ lastMove[row[i].target] = i /\ row[i].target \notin bypassed
                => folder[row[i].target] = FolderOf(row[i].op)
  BY <2>1, MoveRows DEF MovesSoFar
<2>3. CASE row[i].target = m
  BY <1>1, <1>3, <1>4, <2>1, <2>2, <2>3 DEF Same
<2>4. CASE row[i].target # m
  BY <1>1, <1>3, <1>5, <2>1, <2>2, <2>4 DEF Same
<2> QED
  BY <2>3, <2>4
<1>10. ASSUME NEW n \in Mail, lastMove'[n] # 0, row'[lastMove'[n]].status = "gone", n \notin bypassed'
       PROVE  folder'[n] = FolderOf(row'[lastMove'[n]].op)
  BY <1>1, <1>3, <1>5, <1>10 DEF QueuedMoveWins, Same
<1> QED
  BY <1>7, <1>8, <1>9, <1>10 DEF MovesSoFar, QueuedMoveWins

\* An enqueue that is no move disturbs no row of a move.
LEMMA MovesByOther ==
  ASSUME TypeOK, RowsUsed, RunsAlone, MovesSoFar, QueuedMoveWins,
         NEW op, NEW t, Enqueues(op, t), op \notin Terminal, UNCHANGED <<lastMove, folder, bypassed>>
  PROVE  MovesSoFar' /\ QueuedMoveWins'
<1> DEFINE id == SlotRow(op, t)
<1>1. /\ id \in Ids /\ row'[id].op = op
      /\ \A j \in Ids \ {id} : Same(j) /\ (~Superseded(op, t, j) => row'[j].status = row[j].status)
      /\ drain' = drain
  BY EnqueuesFacts
<1>2. id = used + 1 \/ Pending(id, op, t)
  BY EnqueuesFacts
<1> HIDE DEF id
<1>3. row[id].status = "unused" \/ row[id].op \notin Terminal
<2>1. CASE id = used + 1
  BY <1>1, <2>1, IdFacts, MobileAssumption DEF RowsUsed, TypeOK
<2>2. CASE Pending(id, op, t)
  BY <2>2 DEF Pending, Slot, Terminal, Enqueues, Ops
<2> QED
  BY <1>2, <2>1, <2>2
<1>4. \A j \in Ids : row'[j].op \in Terminal \/ (row[j].status # "unused" /\ row[j].op \in Terminal) =>
        j # id /\ Same(j) /\ row'[j].status = row[j].status
  BY <1>1, <1>3 DEF Superseded
<1>5. \A m \in Mail : lastMove[m] # 0 =>
        Same(lastMove[m]) /\ row'[lastMove[m]].status = row[lastMove[m]].status
  BY <1>4, MoveRows
<1>6. \A i \in Ids : row'[i].op \in Terminal => Same(i) /\ row'[i].status = row[i].status
  BY <1>4
<1>7. \A m \in Mail : lastMove'[m] # 0 => row'[lastMove'[m]].target = m /\ row'[lastMove'[m]].op \in Terminal
  BY <1>5, MoveRows DEF Same
<1>8. \A i \in Ids : row'[i].op \in Terminal /\ row'[i].status = "pending" => lastMove'[row'[i].target] = i
  BY <1>6 DEF Same, MovesSoFar
<1>9. ASSUME Running', NEW i \in Ids, drain'.id = i, row'[i].op \in Terminal
      PROVE  /\ lastMove'[row'[i].target] # 0
             /\ lastMove'[row'[i].target] = i \/ row'[lastMove'[row'[i].target]].status = "pending"
             /\ drain'.pc \in {"executed", "ok"} /\ lastMove'[row'[i].target] = i /\ row'[i].target \notin bypassed'
                  => folder'[row'[i].target] = FolderOf(row'[i].op)
<2>1. Running /\ drain.id = i /\ Same(i) /\ row[i].op \in Terminal /\ row[i].status = "inflight"
  BY <1>1, <1>6, <1>9 DEF Running, Same, RunsAlone
<2>2. row[i].target \in Mail
  BY <2>1, MoveRows
<2> QED
  BY <1>1, <1>5, <2>1, <2>2 DEF MovesSoFar, Same
<1>10. \A m \in Mail : lastMove'[m] # 0 /\ row'[lastMove'[m]].status = "gone" /\ m \notin bypassed' =>
         folder'[m] = FolderOf(row'[lastMove'[m]].op)
  BY <1>5 DEF QueuedMoveWins, Same
<1> QED
  BY <1>7, <1>8, <1>9, <1>10 DEF MovesSoFar, QueuedMoveWins

\* The user retries, discards or waits out a row.
LEMMA MovesByRow ==
  ASSUME TypeOK, RowsUsed, RunsAlone, MovesSoFar, QueuedMoveWins,
         NEW i \in Ids, Requeue(i) \/ Discard(i) \/ Elapses(i)
  PROVE  MovesSoFar' /\ QueuedMoveWins'
<1> USE DEF server, queue, compose, counters, choices, Elsewhere
<1>0. i # 0
  BY IdFacts
<1>1. UNCHANGED <<drain, folder>>
  BY DEF Requeue, Discard, Elapses
<1>2. OtherRows(i) /\ Same(i) /\ \A j \in Ids : Same(j)
  BY TurnFacts DEF Turns, OtherRows, Same
<1>3. Running => drain.id \in Ids /\ row[drain.id].status = "inflight"
  BY DEF RunsAlone, TypeOK, Running
<1>4. CASE Requeue(i)
<2>1. Turns(i, "failed", "pending") /\ ~Taken(i)
  BY <1>4, TurnFacts
<2>2. \A m \in Mail : lastMove'[m] =
        IF m = row[i].target /\ row[i].op \in Terminal THEN i ELSE lastMove[m]
  BY <1>4 DEF Requeue
<2>8. \A m \in Mail : ~(m = row[i].target /\ row[i].op \in Terminal) =>
        (m \in bypassed' <=> m \in bypassed)
  BY <1>4 DEF Requeue, Chosen
<2>3. \A m \in Mail : lastMove'[m] # 0 => row'[lastMove'[m]].target = m /\ row'[lastMove'[m]].op \in Terminal
  BY <1>2, <2>2, MoveRows DEF Same
<2>4. ASSUME NEW j \in Ids, row'[j].op \in Terminal, row'[j].status = "pending"
      PROVE  lastMove'[row'[j].target] = j
  <3>1. CASE j = i
    <4>1. row[i].target \in Mail /\ row'[i].target = row[i].target /\ row[i].op \in Terminal
      BY <1>2, <2>1, <2>4, <3>1, MoveRows DEF Turns, Same
    <4> QED
      BY <2>2, <3>1, <4>1
  <3>2. CASE j # i
    <4>1. row'[j] = row[j] /\ row[j].target \in Mail /\ lastMove[row[j].target] = j
      BY <1>2, <2>4, <3>2, MoveRows DEF OtherRows, MovesSoFar
    <4>2. ~(row[j].target = row[i].target /\ row[i].op \in Terminal)
      BY <2>1, <2>4, <3>2, <4>1 DEF Taken, Pending, Slot
    <4> QED
      BY <2>2, <4>1, <4>2
  <3> QED
    BY <3>1, <3>2
<2>5. ASSUME Running', NEW j \in Ids, drain'.id = j, row'[j].op \in Terminal
      PROVE  /\ lastMove'[row'[j].target] # 0
             /\ lastMove'[row'[j].target] = j \/ row'[lastMove'[row'[j].target]].status = "pending"
             /\ drain'.pc \in {"executed", "ok"} /\ lastMove'[row'[j].target] = j /\ row'[j].target \notin bypassed'
                  => folder'[row'[j].target] = FolderOf(row'[j].op)
  <3>1. Running /\ drain.id = j /\ Same(j) /\ row[j].op \in Terminal /\ row[j].status = "inflight"
    BY <1>1, <1>2, <1>3, <2>5 DEF Running, Same
  <3>2. /\ row[j].target \in Mail /\ lastMove[row[j].target] # 0
        /\ lastMove[row[j].target] = j \/ row[lastMove[row[j].target]].status = "pending"
        /\ drain.pc \in {"executed", "ok"} /\ lastMove[row[j].target] = j /\ row[j].target \notin bypassed
                => folder[row[j].target] = FolderOf(row[j].op)
    BY <3>1, MoveRows DEF MovesSoFar
  <3>3. CASE row[j].target = row[i].target /\ row[i].op \in Terminal
    BY <1>0, <1>1, <2>1, <2>2, <3>1, <3>2, <3>3 DEF Same, Turns
  <3>4. CASE ~(row[j].target = row[i].target /\ row[i].op \in Terminal)
    <4>1. lastMove'[row[j].target] = lastMove[row[j].target] /\ lastMove[row[j].target] \in Ids
      BY <2>2, <3>2, <3>4, MoveRows
    <4>2. row[lastMove[row[j].target]].status = "pending" => row'[lastMove[row[j].target]].status = "pending"
      BY <2>1, <4>1 DEF Turns, OtherRows
    <4> QED
      BY <1>1, <2>8, <3>1, <3>2, <3>4, <4>1, <4>2 DEF Same
  <3> QED
    BY <3>3, <3>4
<2>6. ASSUME NEW m \in Mail, lastMove'[m] # 0, row'[lastMove'[m]].status = "gone", m \notin bypassed'
      PROVE  folder'[m] = FolderOf(row'[lastMove'[m]].op)
  <3>1. lastMove'[m] # i
    BY <2>1, <2>6 DEF Turns
  <3>2. lastMove'[m] = lastMove[m] /\ lastMove[m] \in Ids
    BY <2>2, <2>6, <3>1, MoveRows
  <3> QED
    BY <1>1, <2>2, <2>6, <2>8, <3>1, <3>2, <1>2 DEF OtherRows, QueuedMoveWins
<2> QED
  BY <2>3, <2>4, <2>5, <2>6 DEF MovesSoFar, QueuedMoveWins
<1>5. CASE Discard(i)
<2>1. Turns(i, "failed", "gone")
  BY <1>5, TurnFacts
<2>2. UNCHANGED bypassed /\ \A m \in Mail : lastMove'[m] = IF lastMove[m] = i THEN 0 ELSE lastMove[m]
  BY <1>5 DEF Discard
<2>3. \A m \in Mail : lastMove'[m] # 0 =>
        /\ lastMove'[m] = lastMove[m] /\ lastMove[m] # i /\ lastMove[m] \in Ids
        /\ row'[lastMove[m]] = row[lastMove[m]]
  BY <1>2, <2>2, MoveRows DEF OtherRows
<2>4. ASSUME NEW j \in Ids, row'[j].op \in Terminal, row'[j].status = "pending"
      PROVE  lastMove'[row'[j].target] = j
  <3>1. j # i /\ row'[j] = row[j]
    BY <1>2, <2>1, <2>4 DEF Turns, OtherRows
  <3>2. row[j].target \in Mail /\ lastMove[row[j].target] = j
    BY <2>4, <3>1, MoveRows DEF MovesSoFar
  <3> QED
    BY <2>2, <3>1, <3>2
<2>5. ASSUME Running', NEW j \in Ids, drain'.id = j, row'[j].op \in Terminal
      PROVE  /\ lastMove'[row'[j].target] # 0
             /\ lastMove'[row'[j].target] = j \/ row'[lastMove'[row'[j].target]].status = "pending"
             /\ drain'.pc \in {"executed", "ok"} /\ lastMove'[row'[j].target] = j /\ row'[j].target \notin bypassed'
                  => folder'[row'[j].target] = FolderOf(row'[j].op)
  <3>1. Running /\ drain.id = j /\ Same(j) /\ row[j].op \in Terminal /\ row[j].status = "inflight"
    BY <1>1, <1>2, <1>3, <2>5 DEF Running, Same
  <3>2. /\ row[j].target \in Mail /\ lastMove[row[j].target] # 0
        /\ lastMove[row[j].target] = j \/ row[lastMove[row[j].target]].status = "pending"
        /\ drain.pc \in {"executed", "ok"} /\ lastMove[row[j].target] = j /\ row[j].target \notin bypassed
                => folder[row[j].target] = FolderOf(row[j].op)
    BY <3>1, MoveRows DEF MovesSoFar
  <3>3. lastMove[row[j].target] # i
    BY <2>1, <3>1, <3>2 DEF Turns
  <3>4. lastMove'[row[j].target] = lastMove[row[j].target]
    BY <2>2, <3>2, <3>3
  <3> QED
    BY <1>1, <2>2, <2>3, <3>1, <3>2, <3>4 DEF Same
<2>6. \A m \in Mail : lastMove'[m] # 0 /\ row'[lastMove'[m]].status = "gone" /\ m \notin bypassed' =>
        folder'[m] = FolderOf(row'[lastMove'[m]].op)
  BY <1>1, <2>2, <2>3 DEF QueuedMoveWins
<2>7. \A m \in Mail : lastMove'[m] # 0 => row'[lastMove'[m]].target = m /\ row'[lastMove'[m]].op \in Terminal
  BY <2>3, MoveRows
<2> QED
  BY <2>4, <2>5, <2>6, <2>7 DEF MovesSoFar, QueuedMoveWins
<1>6. CASE Elapses(i)
<2>1. \A j \in Ids : row'[j].status = row[j].status
  BY <1>6, TurnFacts DEF Turns, OtherRows
<2>2. UNCHANGED <<lastMove, bypassed>>
  BY <1>6 DEF Elapses
<2>3. \A m \in Mail : lastMove[m] # 0 => lastMove[m] \in Ids
  BY MoveRows
<2>4. \A m \in Mail : lastMove'[m] # 0 =>
        /\ row'[lastMove'[m]].target = m /\ row'[lastMove'[m]].op \in Terminal
        /\ row'[lastMove'[m]].status = "gone" /\ m \notin bypassed' => folder'[m] = FolderOf(row'[lastMove'[m]].op)
  BY <1>1, <1>2, <2>1, <2>2, <2>3 DEF MovesSoFar, QueuedMoveWins, Same
<2>5. \A j \in Ids : row'[j].op \in Terminal /\ row'[j].status = "pending" => lastMove'[row'[j].target] = j
  BY <1>2, <2>1, <2>2 DEF MovesSoFar, Same
<2>6. ASSUME Running', NEW j \in Ids, drain'.id = j, row'[j].op \in Terminal
      PROVE  /\ lastMove'[row'[j].target] # 0
             /\ lastMove'[row'[j].target] = j \/ row'[lastMove'[row'[j].target]].status = "pending"
             /\ drain'.pc \in {"executed", "ok"} /\ lastMove'[row'[j].target] = j /\ row'[j].target \notin bypassed'
                  => folder'[row'[j].target] = FolderOf(row'[j].op)
  <3>1. Running /\ drain.id = j /\ Same(j) /\ row[j].op \in Terminal /\ row[j].target \in Mail
    BY <1>1, <1>2, <1>3, <2>6, MoveRows DEF Running, Same
  <3> QED
    BY <1>1, <2>1, <2>2, <2>3, <3>1 DEF MovesSoFar, Same
<2> QED
  BY <2>4, <2>5, <2>6 DEF MovesSoFar, QueuedMoveWins
<1> QED
  BY <1>4, <1>5, <1>6

\* The drain claims a row, or ends with it.
LEMMA MovesByDrain ==
  ASSUME TypeOK, RowsUsed, RunsAlone, MovesSoFar, QueuedMoveWins,
         Concludes \/ \E s \in batch : ClaimRow(s)
  PROVE  MovesSoFar' /\ QueuedMoveWins'
<1> USE DEF server, choices, Elsewhere
<1>1. UNCHANGED <<lastMove, folder, bypassed>>
  BY QuietFacts
<1>2. \A m \in Mail : lastMove[m] # 0 => lastMove[m] \in Ids
  BY MoveRows
<1>3. ASSUME NEW s \in batch, ClaimRow(s) PROVE MovesSoFar' /\ QueuedMoveWins'
<2>1. CASE UNCHANGED <<row, drain>>
  BY <1>1, <2>1, MovesUnmoved
<2>2. CASE s.id \in Ids /\ Turns(s.id, "pending", "inflight") /\ drain'.pc = "claimed" /\ drain'.id = s.id
  <3>1. \A j \in Ids : Same(j) /\ (row'[j].status = row[j].status \/ j = s.id)
    BY <2>2 DEF Turns, OtherRows, Same
  <3>2. \A m \in Mail : lastMove'[m] # 0 =>
          /\ row'[lastMove'[m]].target = m /\ row'[lastMove'[m]].op \in Terminal
          /\ row'[lastMove'[m]].status = "gone" /\ m \notin bypassed' => folder'[m] = FolderOf(row'[lastMove'[m]].op)
    BY <1>1, <1>2, <2>2, <3>1 DEF MovesSoFar, QueuedMoveWins, Same, Turns
  <3>3. \A j \in Ids : row'[j].op \in Terminal /\ row'[j].status = "pending" => lastMove'[row'[j].target] = j
    BY <1>1, <2>2, <3>1 DEF MovesSoFar, Same, Turns
  <3>4. row[s.id].op \in Terminal => lastMove[row[s.id].target] = s.id /\ s.id # 0
    BY <2>2, IdFacts DEF MovesSoFar, Turns
  <3> QED
    BY <1>1, <2>2, <3>1, <3>2, <3>3, <3>4 DEF MovesSoFar, QueuedMoveWins, Same
<2> QED
  BY <1>3, <2>1, <2>2, BetweenFacts
<1>4. CASE Concludes
<2> DEFINE id == drain.id
<2>1. id \in Ids /\ Same(id) /\ OtherRows(id) /\ ~Running' /\ Running
  BY <1>4, EndFacts, DrainFacts DEF Concludes, Running
<2>2. \A j \in Ids : Same(j) /\ (row'[j].status = row[j].status \/ j = id)
  BY <2>1 DEF OtherRows, Same
<2>3. CASE Ack
  <3>1. drain.pc = "ok" /\ row'[id].status = "gone"
    BY <2>3, EndFacts
  <3>2. \A m \in Mail : lastMove'[m] # 0 /\ row'[lastMove'[m]].status = "gone" /\ m \notin bypassed' =>
          folder'[m] = FolderOf(row'[lastMove'[m]].op)
    BY <1>1, <1>2, <2>1, <2>2, <3>1, MoveRows DEF MovesSoFar, QueuedMoveWins, Same
  <3> QED
    BY <1>1, <1>2, <2>1, <2>2, <3>1, <3>2 DEF MovesSoFar, QueuedMoveWins, Same
<2>4. CASE MarkRetry
  <3>1. row'[id].status = "pending" /\ ~Taken(id)
    BY <2>4, EndFacts
  <3>2. row[id].op \in Terminal => lastMove[row[id].target] = id
    <4>1. row[id].op \in Terminal /\ row[lastMove[row[id].target]].status = "pending"
            /\ lastMove[row[id].target] \in Ids \ {id} /\ row[id].target \in Mail => Taken(id)
      BY MoveRows, IdFacts DEF Taken, Pending, Slot
    <4> QED
      BY <2>1, <3>1, <4>1, MoveRows DEF MovesSoFar, RunsAlone
  <3> QED
    BY <1>1, <1>2, <2>1, <2>2, <3>1, <3>2 DEF MovesSoFar, QueuedMoveWins, Same
<2>5. CASE MarkFailed
  BY <1>1, <1>2, <2>1, <2>2, <2>5, EndFacts DEF MovesSoFar, QueuedMoveWins, Same
<2> QED
  BY <1>4, <2>3, <2>4, <2>5 DEF Concludes
<1> QED
  BY <1>3, <1>4

\* The call of a move that runs.
LEMMA MovesByCall ==
  ASSUME TypeOK, RowsUsed, RunsAlone, MovesSoFar, QueuedMoveWins, Calls
  PROVE  MovesSoFar' /\ QueuedMoveWins'
<1> USE DEF server, choices, Elsewhere
<1>1. UNCHANGED <<row, lastMove, bypassed>> /\ Running /\ Running' /\ drain'.id = drain.id /\ drain.id \in Ids
  BY CallFacts, ServerFacts DEF Calls, Goes
<1>2. row[drain.id].status = "inflight"
  BY <1>1 DEF RunsAlone
<1>3. CASE Execute
<2>1. \A m \in Mail : folder'[m] =
        IF m = row[drain.id].target /\ row[drain.id].op \in Terminal
        THEN FolderOf(row[drain.id].op) ELSE folder[m]
  BY <1>3, ServerFacts DEF Cur
<2>2. row[drain.id].op \in Terminal => row[drain.id].target \in Mail
  BY <1>1, <1>2, MoveRows
<2>3. ASSUME NEW m \in Mail, lastMove[m] # 0, row[lastMove[m]].status = "gone", m \notin bypassed
      PROVE  folder'[m] = FolderOf(row[lastMove[m]].op)
  <3>1. ~(m = row[drain.id].target /\ row[drain.id].op \in Terminal)
    BY <1>1, <1>2, <2>3 DEF MovesSoFar
  <3> QED
    BY <2>1, <2>3, <3>1 DEF QueuedMoveWins
<2>4. QueuedMoveWins'
  BY <1>1, <2>3 DEF QueuedMoveWins
<2>5. MovesSoFar'
  BY <1>1, <2>1, <2>2 DEF MovesSoFar
<2> QED
  BY <2>4, <2>5
<1>4. CASE ~Execute
<2>1. UNCHANGED folder
  BY <1>4, ServerFacts DEF Calls
<2>2. drain'.pc \in {"executed", "ok"} => drain.pc = "executed" \/ row[drain.id].op = "setStarred"
  BY <1>4, CallFacts DEF Calls, Goes, Cur
<2> QED
  BY <1>1, <2>1, <2>2 DEF MovesSoFar, QueuedMoveWins, Terminal
<1> QED
  BY <1>3, <1>4

\* A direct move takes its mail out of what is said of the outbox.
LEMMA MovesByDirect ==
  ASSUME TypeOK, RowsUsed, RunsAlone, MovesSoFar, QueuedMoveWins, DirectSoFar, DirectStep
  PROVE  MovesSoFar' /\ QueuedMoveWins'
<1>1. UNCHANGED <<row, drain, lastMove>>
  BY DirectFacts
<1>2. bypassed \subseteq bypassed' /\ \A m \in Mail : m \notin bypassed' => folder'[m] = folder[m]
<2>1. ASSUME NEW m \in Mail, DirectMoves(m)
      PROVE  UNCHANGED bypassed /\ m \in bypassed /\ \A n \in Mail \ {m} : folder'[n] = folder[n]
  BY <2>1 DEF DirectMoves, DirectSoFar, TypeOK
<2>2. ASSUME NEW m \in Mail, DirectFails(m) PROVE UNCHANGED <<bypassed, folder>>
  BY <2>2 DEF DirectFails, server
<2>3. ASSUME NEW m \in Mail, NEW f \in Folders, MoveDirectly(m, f)
      PROVE  UNCHANGED folder /\ bypassed \subseteq bypassed'
  BY <2>3 DEF MoveDirectly, server
<2> QED
  BY <2>1, <2>2, <2>3 DEF DirectStep
<1>3. \A i \in Ids : Running /\ drain.id = i /\ row[i].op \in Terminal => row[i].target \in Mail
  BY MoveRows DEF RunsAlone
<1> QED
  BY <1>1, <1>2, <1>3, MoveRows DEF MovesSoFar, QueuedMoveWins, Running

LEMMA MovesStep ==
  TypeOK /\ RowsUsed /\ RunsAlone /\ MovesSoFar /\ QueuedMoveWins /\ DirectSoFar /\ [Next]_vars
    => MovesSoFar' /\ QueuedMoveWins'
<1> SUFFICES ASSUME TypeOK, RowsUsed, RunsAlone, MovesSoFar, QueuedMoveWins, DirectSoFar, [Next]_vars
             PROVE  MovesSoFar' /\ QueuedMoveWins'
  OBVIOUS
<1> USE DEF queue, server, compose, choices, counters, Elsewhere
<1>1. ASSUME NEW m \in Mail, ToggleStar(m) PROVE MovesSoFar' /\ QueuedMoveWins'
<2>1. Enqueue("setStarred", m, ~shown[m]) /\ (~shown[m]) \in BOOLEAN
  BY <1>1 DEF ToggleStar
<2>2. \E v \in BOOLEAN : Enqueue("setStarred", m, v)
  BY <2>1
<2>3. Enqueues("setStarred", m)
  BY <2>2, MobileAssumption DEF Enqueues, Ops, Targets
<2> QED
  BY <1>1, <2>3, QuietFacts, MovesByOther DEF Terminal
<1>2. ASSUME NEW m \in Mail, NEW op \in Terminal, Move(m, op) PROVE MovesSoFar' /\ QueuedMoveWins'
<2>1. Enqueue(op, m, TRUE) /\ op # "composeSend" /\ m \notin Drafts
  BY <1>2, MobileAssumption DEF Move, Terminal
<2>2. Enqueues(op, m)
  BY <2>1 DEF Enqueues, Ops, Targets
<2> QED
  BY <1>2, <2>2, MovesByMove
<1>3. ASSUME NEW d \in Drafts, SendTapped(d) \/ SendStep(d) PROVE MovesSoFar' /\ QueuedMoveWins'
<2>1. UNCHANGED <<folder, lastMove, bypassed, drain>>
  BY <1>3, SendFacts
<2>2. CASE SendQueued(d)
  <3>1. Enqueues("composeSend", d)
    BY <2>2 DEF SendQueued, Enqueues, Ops, Targets
  <3> QED
    BY <2>1, <3>1, MovesByOther DEF Terminal
<2> QED
  BY <1>3, <2>1, <2>2, SendFacts, MovesUnmoved
<1>4. CASE \E i \in Ids : Requeue(i) \/ Discard(i) \/ Elapses(i)
  BY <1>4, MovesByRow
<1>5. CASE Calls
  BY <1>5, MovesByCall
<1>6. CASE Concludes \/ \E s \in batch : ClaimRow(s)
  BY <1>6, MovesByDrain
<1>7. CASE StartDrain \/ EndDrain \/ RetryRefused
<2>1. UNCHANGED <<row, lastMove, folder, bypassed>>
  BY <1>7 DEF StartDrain, EndDrain, RetryRefused
<2> QED
  BY <1>7, <2>1, BetweenFacts, DrainFacts, MovesUnmoved
<1>8. CASE Kill
  BY <1>8, KillFacts, DrainFacts, MovesUnmoved
<1>9. CASE UNCHANGED vars
  BY <1>9, MovesUnmoved DEF vars
<1>10. ASSUME NEW m \in Mail, Refetch(m) PROVE MovesSoFar' /\ QueuedMoveWins'
  BY <1>10, MovesUnmoved DEF Refetch
<1>11. CASE DirectStep
  BY <1>11, MovesByDirect
<1> QED
  BY <1>11, <1>1, <1>2, <1>3, <1>4, <1>5, <1>6, <1>7, <1>8, <1>9, <1>10, Cases

-----------------------------------------------------------------------------
(* The direct moves *)

\* A row that may still move its mail was one before, unless a move was just queued.
LEMMA WaitingKept ==
  ASSUME TypeOK, RowsUsed, RunsAlone, [Next]_vars, NEW m \in Mail, ~Waiting(m), Waiting(m)'
  PROVE  \/ \E op \in Terminal : Move(m, op)
         \/ \E i \in Ids : Requeue(i) /\ row[i].target = m /\ row[i].op \in Terminal
<1>0. orphans \subseteq orphans'
  BY UserFacts, QuietFacts, CallFacts, BetweenFacts, KillFacts, DrainSteps
     DEF ClaimRow, Calls, Concludes, Ack, MarkRetry, MarkFailed, vars, queue
<1>1. PICK i \in Ids : /\ row'[i].target = m /\ row'[i].op \in Terminal
                       /\ row'[i].status = "pending" \/ (row'[i].status = "inflight" /\ i \notin orphans')
  BY DEF Waiting
<1>2. ~(/\ row[i].target = m /\ row[i].op \in Terminal
        /\ row[i].status = "pending" \/ (row[i].status = "inflight" /\ i \notin orphans))
  BY DEF Waiting
<1>3. CASE UserStep
<2>1. ASSUME NEW n \in Mail, NEW op \in Terminal, Move(n, op), Enqueues(op, n) PROVE n = m
  BY <1>0, <1>1, <1>2, <2>1, EnqueuesFacts DEF Same, Superseded
<2>2. ASSUME NEW op, NEW t, op \notin Terminal, Enqueues(op, t) PROVE FALSE
  <3>1. i # SlotRow(op, t)
    BY <1>1, <2>2, EnqueuesFacts
  <3>2. Same(i) /\ (~Superseded(op, t, i) => row'[i].status = row[i].status)
    BY <2>2, <3>1, EnqueuesFacts
  <3> QED
    BY <1>0, <1>1, <1>2, <2>2, <3>2 DEF Same, Superseded
<2>3. ASSUME NEW j \in Ids,
             \/ Requeue(j) /\ Turns(j, "failed", "pending")
             \/ Discard(j) /\ Turns(j, "failed", "gone")
             \/ Elapses(j) /\ Turns(j, "pending", "pending")
      PROVE  Requeue(i) /\ row[i].target = m /\ row[i].op \in Terminal
  BY <1>0, <1>1, <1>2, <2>3 DEF Turns, Same, OtherRows
<2>4. CASE UNCHANGED row
  BY <1>0, <1>1, <1>2, <2>4
<2>5. "setStarred" \notin Terminal /\ "composeSend" \notin Terminal
  BY DEF Terminal
<2> QED
  BY <1>3, <2>1, <2>2, <2>3, <2>4, <2>5, UserFacts
<1>4. CASE UNCHANGED row
  BY <1>0, <1>1, <1>2, <1>4
<1>5. ASSUME NEW s \in batch, ClaimRow(s) PROVE FALSE
  BY <1>0, <1>1, <1>2, <1>4, <1>5, BetweenFacts DEF Turns, Same, OtherRows
<1>6. CASE Concludes
<2>1. /\ drain.id \in Ids /\ Same(drain.id) /\ OtherRows(drain.id)
      /\ row[drain.id].status = "inflight" /\ drain.id \notin orphans
  BY <1>6, EndFacts DEF Concludes, RunsAlone, Running
<2> QED
  BY <1>0, <1>1, <1>2, <2>1 DEF Same, OtherRows
<1>7. Calls \/ RetryRefused \/ Kill \/ UNCHANGED vars => UNCHANGED row
  BY CallFacts, KillFacts DEF Calls, RetryRefused, vars, queue
<1> QED
  BY <1>3, <1>4, <1>5, <1>6, <1>7, DrainSteps

\* What a step does to the folder of a mail and to what a direct move settled.
LEMMA SettledFrom ==
  ASSUME TypeOK, RowsUsed, RunsAlone, [Next]_vars, NEW m \in Mail, settled'[m] # "none"
  PROVE  /\ \A op \in Terminal : ~Move(m, op)
         /\ \A i \in Ids : ~(Requeue(i) /\ row[i].target = m /\ row[i].op \in Terminal)
         /\ \/ folder'[m] = settled'[m] /\ ~Waiting(m) /\ UNCHANGED <<row, orphans>>
            \/ settled'[m] = settled[m] /\ (folder'[m] = folder[m] \/ Waiting(m))
<1> USE DEF server, compose, choices, counters, Elsewhere
<1>1. \A op \in Terminal : ~Move(m, op)
  BY DEF Move, Chosen
<1>2. \A i \in Ids : ~(Requeue(i) /\ row[i].target = m /\ row[i].op \in Terminal)
  BY DEF Requeue, Chosen
<1> DEFINE Goal == \/ folder'[m] = settled'[m] /\ ~Waiting(m) /\ UNCHANGED <<row, orphans>>
                   \/ settled'[m] = settled[m] /\ (folder'[m] = folder[m] \/ Waiting(m))
<1> SUFFICES Goal
  BY <1>1, <1>2
<1>3. CASE DirectStep
<2>1. UNCHANGED <<row, orphans>>
  BY <1>3, DirectFacts
<2>2. ASSUME NEW n \in Mail, DirectMoves(n) PROVE Goal
  BY <2>1, <2>2 DEF DirectMoves, TypeOK
<2>3. ASSUME NEW n \in Mail, NEW f \in Folders, DirectFails(n) \/ MoveDirectly(n, f) PROVE Goal
  BY <2>3 DEF DirectFails, MoveDirectly
<2>4. "inbox" \in Folders
  BY DEF Folders
<2> QED
  BY <1>3, <2>2, <2>3, <2>4 DEF DirectStep
<1>4. ASSUME NEW n \in Mail, NEW op \in Terminal, Move(n, op) PROVE Goal
  BY <1>4 DEF Move, Chosen
<1>5. ASSUME NEW i \in Ids, Requeue(i) \/ Discard(i) \/ Elapses(i) PROVE Goal
  BY <1>5 DEF Requeue, Chosen, Discard, Elapses
<1>6. CASE Execute
<2>1. UNCHANGED settled
  BY <1>6 DEF Execute
<2>2. CASE m = Cur.target /\ Cur.op \in Terminal
  <3>1. drain.id \in Ids /\ row[drain.id].status = "inflight" /\ drain.id \notin orphans
    BY <1>6, CallFacts DEF RunsAlone
  <3> QED
    BY <2>1, <2>2, <3>1 DEF Waiting, Cur
<2>3. CASE ~(m = Cur.target /\ Cur.op \in Terminal)
  BY <1>6, <2>1, <2>3, ServerFacts
<2> QED
  BY <2>2, <2>3
<1>7. CASE Calls /\ ~Execute
  BY <1>7, ServerFacts DEF Calls
<1>8. CASE StartDrain \/ EndDrain \/ RetryRefused \/ (\E s \in batch : ClaimRow(s)) \/ Concludes
  BY <1>8, QuietFacts
<1>9. ASSUME NEW n \in Mail, ToggleStar(n) \/ Refetch(n) PROVE Goal
  BY <1>9, QuietFacts
<1>10. ASSUME NEW d \in Drafts, SendTapped(d) \/ SendStep(d) PROVE Goal
  BY <1>10, SendFacts
<1>11. CASE Kill \/ UNCHANGED vars
  BY <1>11, KillFacts DEF vars
<1> QED
  BY <1>3, <1>4, <1>5, <1>6, <1>7, <1>8, <1>9, <1>10, <1>11, Cases

LEMMA DirectsStep ==
  TypeOK /\ RowsUsed /\ RunsAlone /\ DirectSoFar /\ DirectMoveWins /\ [Next]_vars
    => DirectSoFar' /\ DirectMoveWins'
<1> SUFFICES ASSUME TypeOK, RowsUsed, RunsAlone, DirectSoFar, DirectMoveWins, [Next]_vars, NEW m \in Mail
             PROVE  /\ direct'[m] # "none" => m \in bypassed'
                    /\ settled'[m] # "none" => ~Waiting(m)' /\ folder'[m] = settled'[m]
  BY DEF DirectSoFar, DirectMoveWins
<1> USE DEF server, compose, choices, counters, Elsewhere
<1>1. ASSUME settled'[m] # "none" PROVE ~Waiting(m)' /\ folder'[m] = settled'[m]
<2>1. ~Waiting(m)
  BY <1>1, SettledFrom DEF DirectSoFar
<2>2. ~Waiting(m)'
  BY <1>1, <2>1, SettledFrom, WaitingKept
<2> QED
  BY <1>1, <2>1, <2>2, SettledFrom DEF DirectMoveWins
<1>2. ASSUME direct'[m] # "none" PROVE m \in bypassed'
<2>1. direct[m] # "none" => m \in bypassed
  BY DEF DirectSoFar
<2>2. CASE UNCHANGED <<direct, bypassed>>
  BY <1>2, <2>1, <2>2
<2>3. ASSUME NEW n \in Mail, NEW op \in Terminal, Move(n, op) PROVE m \in bypassed'
  BY <1>2, <2>1, <2>3 DEF Move, Chosen
<2>4. ASSUME NEW i \in Ids, Requeue(i) \/ Discard(i) \/ Elapses(i) PROVE m \in bypassed'
  BY <1>2, <2>1, <2>4 DEF Requeue, Chosen, Discard, Elapses
<2>5. CASE DirectStep
  <3>1. ASSUME NEW n \in Mail, DirectMoves(n) \/ DirectFails(n) PROVE m \in bypassed'
    BY <1>2, <2>1, <3>1 DEF DirectMoves, DirectFails, TypeOK
  <3>2. ASSUME NEW n \in Mail, NEW f \in Folders, MoveDirectly(n, f) PROVE m \in bypassed'
    BY <1>2, <2>1, <3>2 DEF MoveDirectly, TypeOK
  <3> QED
    BY <2>5, <3>1, <3>2 DEF DirectStep
<2>6. CASE Calls
  BY <2>2, <2>6, ServerFacts DEF Calls
<2>7. CASE StartDrain \/ EndDrain \/ RetryRefused \/ (\E s \in batch : ClaimRow(s)) \/ Concludes
  BY <2>2, <2>7, QuietFacts
<2>8. ASSUME NEW n \in Mail, ToggleStar(n) \/ Refetch(n) PROVE m \in bypassed'
  BY <2>2, <2>8, QuietFacts
<2>9. ASSUME NEW d \in Drafts, SendTapped(d) \/ SendStep(d) PROVE m \in bypassed'
  BY <2>2, <2>9, SendFacts
<2>10. CASE Kill \/ UNCHANGED vars
  BY <2>2, <2>10, KillFacts DEF vars
<2> QED
  BY <2>3, <2>4, <2>5, <2>6, <2>7, <2>8, <2>9, <2>10, Cases
<1> QED
  BY <1>1, <1>2

-----------------------------------------------------------------------------
(* The theorems *)

LEMMA InvInit == Init => MobileInv
<1> SUFFICES ASSUME Init PROVE MobileInv
  OBVIOUS
<1>1. /\ TypeOK /\ row = [i \in Ids |-> Unused] /\ used = 0 /\ drain.pc = "idle" /\ orphans = {}
      /\ \A d \in Drafts : local[d] = "none" /\ send[d] = "new" /\ copies[d] = 0 /\ unheard[d] = 0
      /\ \A m \in Mail : lastMove[m] = 0 /\ direct[m] = "none" /\ settled[m] = "none"
  BY TypeInit DEF Init, Idle
<1>2. \A i \in Ids :
        /\ row[i].status = "unused" /\ row[i].op = "setStarred" /\ row[i].target = NoTarget
        /\ i > 0 /\ NoTarget \notin Drafts
  BY <1>1, IdFacts, MobileAssumption DEF Unused
<1>3. RowsUsed /\ RunsAlone /\ OnePending /\ InflightExplained /\ OneRow
  BY <1>1, <1>2 DEF RowsUsed, RunsAlone, Running, OnePending, InflightExplained, OneRow
<1>4. CopiesSoFar /\ CopiesExplained
  BY <1>1 DEF CopiesSoFar, CopiesExplained
<1>5. MovesSoFar /\ LatestMoveWins /\ SwappedByThen /\ NoStrandedPlaceholder
  BY <1>1, <1>2 DEF MovesSoFar, LatestMoveWins, QueuedMoveWins, DirectMoveWins, SwappedByThen,
                    NoStrandedPlaceholder, Terminal
<1>6. DirectSoFar
  BY <1>1 DEF DirectSoFar
<1> QED
  BY <1>1, <1>3, <1>4, <1>5, <1>6 DEF MobileInv

LEMMA InvStep == MobileInv /\ [Next]_vars => MobileInv'
  BY TypeStep, RowsStep, RunsStep, OneRowStep, CopiesStep, MovesStep, DirectsStep, SwappedStep, StrandedStep
     DEF MobileInv, LatestMoveWins

\* The inductive invariant holds of the outbox, its drain and the direct send together.
THEOREM MobileInvariant == Spec => []MobileInv
  BY InvInit, InvStep, PTL DEF Spec

\* Every variable keeps its type: a queued row always carries an operation of the
\* outbox on a mail or a draft, and the drain only ever runs an existing row.
THEOREM TypeCorrect == Spec => []TypeOK
<1>1. MobileInv => TypeOK
  BY DEF MobileInv
<1> QED
  BY <1>1, MobileInvariant, PTL

\* The outbox holds at most one pending row per key, and a row in flight that nobody
\* runs was left by a kill or by a retry the unique index refused.
THEOREM OutboxCorrect == Spec => [](OnePending /\ InflightExplained)
<1>1. MobileInv => OnePending /\ InflightExplained
  BY DEF MobileInv
<1> QED
  BY <1>1, MobileInvariant, PTL

\* The direct send, the queued row and its retries never send a draft twice unless a
\* success went unheard (MailActions.send, composeSend in SyncEngine).
THEOREM CopiesCorrect == Spec => []CopiesExplained
<1>1. MobileInv => CopiesExplained
  BY DEF MobileInv
<1> QED
  BY <1>1, MobileInvariant, PTL

\* Archive and delete share a slot of the outbox, so that however the queued moves of a
\* mail are retried, refused and requeued, the last one is the one that holds; and a direct
\* move (UNDO, a bulk action) that reaches the server when none of them can still run holds
\* until the user moves the mail again.
THEOREM MovesCorrect == Spec => []LatestMoveWins
<1>1. MobileInv => LatestMoveWins
  BY DEF MobileInv
<1> QED
  BY <1>1, MobileInvariant, PTL

\* Without a kill a placeholder shown as sending has its direct call or its row, and the row
\* is at worst among the failed changes the user is shown; only a discard leaves it without.
THEOREM PlaceholderCorrect == Spec => []NoStrandedPlaceholder
<1>1. MobileInv => NoStrandedPlaceholder
  BY DEF MobileInv
<1> QED
  BY <1>1, MobileInvariant, PTL
=============================================================================
