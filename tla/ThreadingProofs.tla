--------------------------- MODULE ThreadingProofs ---------------------------
(***************************************************************************)
(* Thread assignment for every number of messages, backfills, deletions    *)
(* and faults, any subjects, dates and answers: threads that lost no       *)
(* update count exactly the messages in them and those deleted or lost on  *)
(* the way, answers join, and no message whose search saw every thread in  *)
(* the window splits one whose last date never went back.                  *)
(***************************************************************************)
EXTENDS Threading, FiniteSetTheorems, TLAPS

-----------------------------------------------------------------------------
(* What agents work on *)

\* What TypeOK says of an agent.
Busy(a) == work[a].pc \notin {"idle", "next"}

LEMMA AgentFields ==
  ASSUME TypeOK, NEW a \in Agents
  PROVE  /\ work[a] \in Work /\ work[a].pc \in Pcs /\ work[a].mails \subseteq Mails
         /\ work[a].thread \in 0..MaxThreads /\ work[a].thread \in Nat /\ work[a].count \in Nat
         /\ work[a].people \subseteq People /\ work[a].known \in [Mails -> 0..MaxThreads]
  BY ThreadingAssumption DEF TypeOK, Work

LEMMA FiniteMails == IsFiniteSet(Mails) /\ IsFiniteSet(Agents)
  BY ThreadingAssumption, FS_Subset DEF Agents

\* A busy agent has one message.
LEMMA MailOf ==
  ASSUME TypeOK, NEW a \in Agents, Busy(a)
  PROVE  Mail(a) \in Mails /\ work[a].mails = {Mail(a)}
<1>1. work[a].mails \subseteq Mails /\ Cardinality(work[a].mails) = 1
  BY AgentFields DEF TypeOK, Busy
<1>2. PICK m : work[a].mails = {m}
  BY <1>1, FiniteMails, FS_Subset, FS_Singleton
<1> QED
  BY <1>1, <1>2 DEF Mail

LEMMA SameMail ==
  ASSUME NEW a \in Agents, work'[a].mails = work[a].mails
  PROVE  Mail(a)' = Mail(a)
  BY DEF Mail

\* What an agent becomes in a step that changes no other.
Becomes(a, pc, mails, t, count, people, known) ==
  /\ work' \in [Agents -> Work]
  /\ work'[a].pc = pc /\ work'[a].mails = mails /\ work'[a].thread = t
  /\ work'[a].count = count /\ work'[a].people = people /\ work'[a].known = known
  /\ \A b \in Agents : b # a => work'[b] = work[b]

LEMMA Replaced ==
  ASSUME TypeOK, NEW a \in Agents, NEW r \in Work, work' = [work EXCEPT ![a] = r]
  PROVE  Becomes(a, r.pc, r.mails, r.thread, r.count, r.people, r.known)
  BY DEF TypeOK, Becomes

LEMMA IdleFields ==
  /\ Idle \in Work /\ Idle.pc = "idle" /\ Idle.mails = {} /\ Idle.thread = 0 /\ Idle.count = 0
  /\ Idle.people = {} /\ Idle.known = [m \in Mails |-> 0]
<1>1. "idle" \in Pcs /\ 0 \in 0..MaxThreads /\ [m \in Mails |-> 0] \in [Mails -> 0..MaxThreads]
  BY ThreadingAssumption DEF Pcs
<1> QED
  BY <1>1 DEF Idle, Work

LEMMA Begins ==
  ASSUME TypeOK, NEW a \in Agents, NEW m \in Mails, Assign(a, m)
  PROVE  Becomes(a, "refs", {m}, 0, 0, {}, thread)
<1> DEFINE r == [Idle EXCEPT !.pc = "refs", !.mails = {m}, !.known = thread]
<1>1. thread \in [Mails -> 0..MaxThreads] /\ "refs" \in Pcs
  BY DEF TypeOK, Pcs
<1>2. /\ r \in Work /\ r.pc = "refs" /\ r.mails = {m} /\ r.known = thread
      /\ r.thread = Idle.thread /\ r.count = Idle.count /\ r.people = Idle.people
  BY <1>1, IdleFields DEF Work
<1>3. work' = [work EXCEPT ![a] = r]
  BY DEF Assign
<1> HIDE DEF r
<1>4. Becomes(a, r.pc, r.mails, r.thread, r.count, r.people, r.known)
  BY <1>2, <1>3, Replaced
<1> QED
  BY <1>2, <1>4, IdleFields

LEMMA GoesTo ==
  ASSUME TypeOK, NEW a \in Agents, NEW pc \in Pcs, GoTo(a, pc)
  PROVE  Becomes(a, pc, work[a].mails, work[a].thread, work[a].count, work[a].people, work[a].known)
<1> DEFINE r == [work[a] EXCEPT !.pc = pc]
<1>1. /\ r \in Work /\ r.pc = pc /\ r.mails = work[a].mails /\ r.thread = work[a].thread
      /\ r.count = work[a].count /\ r.people = work[a].people /\ r.known = work[a].known
  BY AgentFields DEF Work
<1>2. work' = [work EXCEPT ![a] = r]
  BY DEF GoTo
<1> HIDE DEF r
<1>3. Becomes(a, r.pc, r.mails, r.thread, r.count, r.people, r.known)
  BY <1>1, <1>2, Replaced
<1> QED
  BY <1>1, <1>3

\* The agent has found a thread, or given up on one.
LEMMA Picks ==
  ASSUME TypeOK, NEW a \in Agents, NEW pc \in Pcs, NEW t \in 0..MaxThreads,
         work' = [work EXCEPT ![a].pc = pc, ![a].thread = t]
  PROVE  Becomes(a, pc, work[a].mails, t, work[a].count, work[a].people, work[a].known)
<1> DEFINE r == [work[a] EXCEPT !.pc = pc, !.thread = t]
<1>1. /\ r \in Work /\ r.pc = pc /\ r.mails = work[a].mails /\ r.thread = t
      /\ r.count = work[a].count /\ r.people = work[a].people /\ r.known = work[a].known
  BY AgentFields DEF Work
<1>2. work' = [work EXCEPT ![a] = r]
  BY DEF TypeOK
<1> HIDE DEF r
<1>3. Becomes(a, r.pc, r.mails, r.thread, r.count, r.people, r.known)
  BY <1>1, <1>2, Replaced
<1> QED
  BY <1>1, <1>3

LEMMA Reads ==
  ASSUME TypeOK, NEW a \in Agents, BumpRead(a), work[a].thread # 0
  PROVE  Becomes(a, "write", work[a].mails, work[a].thread, table[work[a].thread].count,
                 table[work[a].thread].people, work[a].known)
<1> DEFINE n == table[work[a].thread].count
           who == table[work[a].thread].people
           r == [work[a] EXCEPT !.pc = "write", !.count = n, !.people = who]
<1>1. work[a].thread \in Ids
  BY AgentFields DEF Ids
<1>2. n \in Nat /\ who \subseteq People /\ "write" \in Pcs
  BY <1>1 DEF TypeOK, Threads, Pcs
<1>3. work' = [work EXCEPT ![a] = r]
  BY DEF TypeOK, BumpRead
<1> HIDE DEF n, who
<1>4. /\ r \in Work /\ r.pc = "write" /\ r.mails = work[a].mails /\ r.thread = work[a].thread
      /\ r.count = n /\ r.people = who /\ r.known = work[a].known
  BY <1>2, AgentFields DEF Work
<1> HIDE DEF r
<1>5. Becomes(a, r.pc, r.mails, r.thread, r.count, r.people, r.known)
  BY <1>3, <1>4, Replaced
<1> QED
  BY <1>4, <1>5 DEF n, who

LEMMA Ends ==
  ASSUME TypeOK, NEW a \in Agents, NEW pc \in {"idle", "next"},
         work' = [work EXCEPT ![a] = [Idle EXCEPT !.pc = pc]]
  PROVE  Becomes(a, pc, {}, 0, 0, {}, [m \in Mails |-> 0])
<1> DEFINE r == [Idle EXCEPT !.pc = pc]
<1>1. /\ r \in Work /\ r.pc = pc /\ r.mails = Idle.mails /\ r.known = Idle.known
      /\ r.thread = Idle.thread /\ r.count = Idle.count /\ r.people = Idle.people
  BY IdleFields DEF Work, Pcs
<1> HIDE DEF r
<1>2. Becomes(a, r.pc, r.mails, r.thread, r.count, r.people, r.known)
  BY <1>1, Replaced DEF r
<1> QED
  BY <1>1, <1>2, IdleFields

LEMMA Stops ==
  ASSUME TypeOK, NEW a \in Agents, work' = [work EXCEPT ![a] = Idle]
  PROVE  Becomes(a, "idle", {}, 0, 0, {}, [m \in Mails |-> 0])
<1> HIDE DEF Idle
<1>1. Becomes(a, Idle.pc, Idle.mails, Idle.thread, Idle.count, Idle.people, Idle.known)
  BY Replaced, IdleFields
<1> QED
  BY <1>1, IdleFields

-----------------------------------------------------------------------------
(* What each action does *)

Quiet == UNCHANGED <<emails, threads, raced, rewound, wasted, split, context>>

LEMMA ArriveView ==
  ASSUME TypeOK, NEW m \in Mails, Arrive(m)
  PROVE  /\ m \in Agents /\ m \notin stored /\ work[m].pc = "idle"
         /\ Becomes(m, "refs", {m}, 0, 0, {}, thread)
         /\ Quiet /\ UNCHANGED <<todo, crowded, faults>>
  BY Begins DEF Arrive, At, Agents, Quiet, threads, history

LEMMA SelectView ==
  ASSUME TypeOK, NEW j \in Jobs, BackfillSelect(j)
  PROVE  /\ j \in Agents /\ work[j].pc = "idle" /\ todo' = [todo EXCEPT ![j] = stored \ Threaded]
         /\ Becomes(j, "next", work[j].mails, work[j].thread, work[j].count, work[j].people, work[j].known)
         /\ Quiet /\ UNCHANGED <<crowded, faults>>
  BY GoesTo DEF BackfillSelect, At, Agents, Quiet, Pcs, threads, history

LEMMA NextView ==
  ASSUME TypeOK, NEW j \in Jobs, NEW m \in Mails, BackfillNext(j, m)
  PROVE  /\ j \in Agents /\ m \in todo[j] /\ work[j].pc = "next" /\ todo' = [todo EXCEPT ![j] = @ \ {m}]
         /\ Becomes(j, "refs", {m}, 0, 0, {}, thread)
         /\ Quiet /\ UNCHANGED <<crowded, faults>>
  BY Begins DEF BackfillNext, At, Agents, Quiet, threads, history

LEMMA EndView ==
  ASSUME TypeOK, NEW j \in Jobs, BackfillEnd(j)
  PROVE  /\ j \in Agents /\ work[j].pc = "next"
         /\ Becomes(j, "idle", {}, 0, 0, {}, [m \in Mails |-> 0])
         /\ Quiet /\ UNCHANGED <<todo, crowded, faults>>
  BY Stops DEF BackfillEnd, At, Agents, Quiet, threads, history

LEMMA ReferenceView ==
  ASSUME TypeOK, NEW a \in Agents, LookupReference(a)
  PROVE  /\ work[a].pc = "refs" /\ Busy(a) /\ Mail(a) \in Mails
         /\ \/ \E p \in Answers[Mail(a)] \cap stored :
                 /\ p \in Mails /\ thread[p] # 0 /\ thread[p] \in 0..MaxThreads
                 /\ Becomes(a, "bump", work[a].mails, thread[p], work[a].count, work[a].people, work[a].known)
            \/ /\ LET refs == Answers[Mail(a)] \cap stored IN refs = {} \/ ~(refs \subseteq Threaded)
               /\ Becomes(a, "subject", work[a].mails, work[a].thread, work[a].count, work[a].people,
                          work[a].known)
         /\ Quiet /\ UNCHANGED <<todo, crowded, faults>>
<1>1. work[a].pc = "refs" /\ Busy(a) /\ Mail(a) \in Mails
  BY MailOf DEF LookupReference, At, Busy
<1>2. Quiet /\ UNCHANGED <<todo, crowded, faults>>
  BY DEF LookupReference, Quiet, threads, history
<1>3. ASSUME NEW p \in Answers[Mail(a)] \cap stored, thread[p] # 0,
             work' = [work EXCEPT ![a].pc = "bump", ![a].thread = thread[p]]
      PROVE  /\ p \in Mails /\ thread[p] # 0 /\ thread[p] \in 0..MaxThreads
             /\ Becomes(a, "bump", work[a].mails, thread[p], work[a].count, work[a].people, work[a].known)
  <2>1. p \in Mails /\ thread[p] \in 0..MaxThreads /\ "bump" \in Pcs
    BY DEF TypeOK, Pcs
  <2> QED
    BY <2>1, <1>3, Picks
<1>4. ASSUME GoTo(a, "subject")
      PROVE  Becomes(a, "subject", work[a].mails, work[a].thread, work[a].count, work[a].people, work[a].known)
  <2>1. "subject" \in Pcs
    BY DEF Pcs
  <2> QED
    BY <1>4, <2>1, GoesTo
<1> QED
  BY <1>1, <1>2, <1>3, <1>4 DEF LookupReference

LEMMA SubjectView ==
  ASSUME TypeOK, NEW a \in Agents, LookupSubject(a)
  PROVE  /\ work[a].pc = "subject" /\ Busy(a) /\ Mail(a) \in Mails
         /\ \/ /\ \E page \in SUBSET Recent(Mail(a)) :
                    Page(Mail(a), page) /\ Candidates(Mail(a), page) = {}
               /\ Becomes(a, "found", work[a].mails, work[a].thread, work[a].count, work[a].people,
                          work[a].known)
            \/ \E t \in 1..founded :
                 /\ t \in 0..MaxThreads
                 /\ Becomes(a, "bump", work[a].mails, t, work[a].count, work[a].people, work[a].known)
         /\ crowded' = IF Cardinality(Recent(Mail(a))) > Limit THEN crowded \cup {Mail(a)} ELSE crowded
         /\ Quiet /\ UNCHANGED <<todo, faults>>
<1> DEFINE m == Mail(a)
<1>1. work[a].pc = "subject" /\ Busy(a) /\ m \in Mails
  BY MailOf DEF LookupSubject, At, Busy
<1>2. /\ Quiet /\ UNCHANGED <<todo, faults>>
      /\ crowded' = IF Cardinality(Recent(m)) > Limit THEN crowded \cup {m} ELSE crowded
  BY DEF LookupSubject, Quiet, threads, history
<1>3. PICK page \in SUBSET Recent(m) :
        /\ Page(m, page)
        /\ \/ Candidates(m, page) = {} /\ GoTo(a, "found")
           \/ \E t \in Candidates(m, page) :
                work' = [work EXCEPT ![a].pc = "bump", ![a].thread = t]
  BY DEF LookupSubject
<1>4. ASSUME NEW t \in Candidates(m, page), work' = [work EXCEPT ![a].pc = "bump", ![a].thread = t]
      PROVE  /\ t \in 1..founded /\ t \in 0..MaxThreads
             /\ Becomes(a, "bump", work[a].mails, t, work[a].count, work[a].people, work[a].known)
  <2>1. t \in 1..founded /\ t \in 0..MaxThreads /\ "bump" \in Pcs
    BY ThreadingAssumption DEF Candidates, Recent, TypeOK, Pcs
  <2> QED
    BY <2>1, <1>4, Picks
<1>5. ASSUME GoTo(a, "found")
      PROVE  Becomes(a, "found", work[a].mails, work[a].thread, work[a].count, work[a].people, work[a].known)
  <2>1. "found" \in Pcs
    BY DEF Pcs
  <2> QED
    BY <1>5, <2>1, GoesTo
<1> QED
  BY <1>1, <1>2, <1>3, <1>4, <1>5

LEMMA FoundView ==
  ASSUME TypeOK, NEW a \in Agents, FoundThread(a)
  PROVE  /\ work[a].pc = "found" /\ Busy(a) /\ Mail(a) \in Mails
         /\ founded' = founded + 1 /\ founded + 1 \in Ids /\ founded \in Nat
         /\ table' = [table EXCEPT ![founded + 1] =
                        [subject |-> Subject[Mail(a)], count |-> 1, people |-> {Sender[Mail(a)]}]]
         /\ last' = [last EXCEPT ![founded + 1] = Sent[Mail(a)]]
         /\ split' = IF Splits(a, Mail(a)) THEN split \cup {Mail(a)} ELSE split
         /\ Becomes(a, "store", work[a].mails, founded + 1, work[a].count, work[a].people, work[a].known)
         /\ UNCHANGED <<emails, todo, raced, rewound, wasted, crowded, context, faults>>
<1>1. work[a].pc = "found" /\ Busy(a) /\ Mail(a) \in Mails
  BY MailOf DEF FoundThread, At, Busy
<1>2. founded + 1 \in Ids /\ founded + 1 \in 0..MaxThreads /\ founded \in Nat
  BY ThreadingAssumption DEF FoundThread, TypeOK, Ids
<1>3. Becomes(a, "store", work[a].mails, founded + 1, work[a].count, work[a].people, work[a].known)
  BY <1>2, Picks DEF FoundThread, Pcs
<1> QED
  BY <1>1, <1>2, <1>3 DEF FoundThread

LEMMA ReadView ==
  ASSUME TypeOK, ThreadsExist, NEW a \in Agents, BumpRead(a)
  PROVE  /\ work[a].pc = "bump" /\ Busy(a) /\ Mail(a) \in Mails /\ work[a].thread \in Ids
         /\ Becomes(a, "write", work[a].mails, work[a].thread, table[work[a].thread].count,
                    table[work[a].thread].people, work[a].known)
         /\ Quiet /\ UNCHANGED <<todo, crowded, faults>>
<1>1. work[a].pc = "bump" /\ Busy(a) /\ Mail(a) \in Mails
  BY MailOf DEF BumpRead, At, Busy
<1>2. work[a].thread \in Ids
  BY <1>1, AgentFields DEF ThreadsExist, Ids
<1>3. Quiet /\ UNCHANGED <<todo, crowded, faults>>
  BY DEF BumpRead, Quiet, threads, history
<1>4. work[a].thread # 0
  BY <1>1 DEF ThreadsExist
<1> QED
  BY <1>1, <1>2, <1>3, <1>4, Reads

LEMMA WriteView ==
  ASSUME TypeOK, ThreadsExist, NEW a \in Agents, BumpWrite(a)
  PROVE  /\ work[a].pc = "write" /\ Busy(a) /\ Mail(a) \in Mails /\ work[a].thread \in Ids
         /\ work[a].thread \in 1..founded /\ work[a].thread \in Nat
         /\ \E r \in Threads :
              /\ r.subject = table[work[a].thread].subject /\ r.count = work[a].count + 1
              /\ r.people = work[a].people \cup {Sender[Mail(a)]}
              /\ table' = [table EXCEPT ![work[a].thread] = r]
         /\ last' = [last EXCEPT ![work[a].thread] = Sent[Mail(a)]]
         /\ raced' = IF table[work[a].thread].count # work[a].count THEN raced \cup {work[a].thread} ELSE raced
         /\ rewound' = IF Sent[Mail(a)] < last[work[a].thread] THEN rewound \cup {work[a].thread} ELSE rewound
         /\ Becomes(a, "store", work[a].mails, work[a].thread, work[a].count, work[a].people, work[a].known)
         /\ UNCHANGED <<emails, founded, todo, wasted, split, crowded, context, faults>>
<1> DEFINE t == work[a].thread
           r == [table[t] EXCEPT !.count = work[a].count + 1,
                                 !.people = work[a].people \cup {Sender[Mail(a)]}]
<1>1. work[a].pc = "write" /\ Busy(a) /\ Mail(a) \in Mails
  BY MailOf DEF BumpWrite, At, Busy
<1>2. t \in Ids /\ t \in 1..founded /\ t \in Nat
  BY <1>1, AgentFields DEF ThreadsExist, Ids, TypeOK
<1>3. Becomes(a, "store", work[a].mails, t, work[a].count, work[a].people, work[a].known)
  BY GoesTo DEF BumpWrite, Pcs
<1>4. table[t] \in Threads /\ work[a].count + 1 \in Nat
      /\ work[a].people \cup {Sender[Mail(a)]} \in SUBSET People
  BY <1>1, <1>2, AgentFields DEF TypeOK, People
<1>5. /\ r \in Threads /\ r.subject = table[t].subject /\ r.count = work[a].count + 1
      /\ r.people = work[a].people \cup {Sender[Mail(a)]}
  BY <1>4 DEF Threads
<1>6. table' = [table EXCEPT ![t] = r]
  BY DEF BumpWrite
<1> HIDE DEF r
<1>7. /\ last' = [last EXCEPT ![t] = Sent[Mail(a)]]
      /\ raced' = IF table[t].count # work[a].count THEN raced \cup {t} ELSE raced
      /\ rewound' = IF Sent[Mail(a)] < last[t] THEN rewound \cup {t} ELSE rewound
      /\ UNCHANGED <<emails, founded, todo, wasted, split, crowded, context, faults>>
  BY DEF BumpWrite
<1> QED
  BY <1>1, <1>2, <1>3, <1>5, <1>6, <1>7

LEMMA StoreView ==
  ASSUME TypeOK, NEW a \in Agents, StoreThread(a)
  PROVE  /\ work[a].pc = "store" /\ Busy(a) /\ Mail(a) \in Mails
         /\ stored' = stored \cup {Mail(a)} /\ Mail(a) \notin purged
         /\ thread' = [thread EXCEPT ![Mail(a)] = work[a].thread]
         /\ raced' = IF thread[Mail(a)] = 0 THEN raced
                     ELSE raced \cup {thread[Mail(a)], work[a].thread}
         /\ context' = [context EXCEPT ![Mail(a)] = Known(a)]
         /\ \E pc \in {"idle", "next"} :
              /\ pc = IF a \in Jobs THEN "next" ELSE "idle"
              /\ Becomes(a, pc, {}, 0, 0, {}, [m \in Mails |-> 0])
         /\ UNCHANGED <<purged, threads, todo, rewound, wasted, split, crowded, faults>>
<1>1. work[a].pc = "store" /\ Busy(a) /\ Mail(a) \in Mails
  BY MailOf DEF StoreThread, At, Busy
<1>2. CASE a \in Jobs
  <2>1. Becomes(a, "next", {}, 0, 0, {}, [m \in Mails |-> 0])
    BY <1>2, Ends DEF StoreThread
  <2> QED
    BY <1>1, <1>2, <2>1 DEF StoreThread, Known
<1>3. CASE a \notin Jobs
  <2>1. Becomes(a, "idle", {}, 0, 0, {}, [m \in Mails |-> 0])
    BY <1>3, Stops DEF StoreThread
  <2> QED
    BY <1>1, <1>3, <2>1 DEF StoreThread, Known
<1> QED
  BY <1>2, <1>3

LEMMA FailView ==
  ASSUME TypeOK, NEW a \in Agents, AssignFails(a)
  PROVE  /\ work[a].pc \in {"refs", "subject", "bump", "write", "found"} /\ Busy(a) /\ Mail(a) \in Mails
         /\ \/ a \in Jobs /\ Becomes(a, "idle", {}, 0, 0, {}, [m \in Mails |-> 0])
            \/ /\ a \notin Jobs
               /\ Becomes(a, "store", work[a].mails, 0, work[a].count, work[a].people, work[a].known)
         /\ Quiet /\ UNCHANGED <<todo, crowded>> /\ Fault
<1>1. /\ work[a].pc \in {"refs", "subject", "bump", "write", "found"} /\ Busy(a) /\ Mail(a) \in Mails
      /\ Quiet /\ UNCHANGED <<todo, crowded>> /\ Fault
  BY MailOf DEF AssignFails, Busy, Quiet, threads, history
<1>2. CASE a \in Jobs
  BY <1>1, <1>2, Stops DEF AssignFails
<1>3. CASE a \notin Jobs
  <2>1. work' = [work EXCEPT ![a].pc = "store", ![a].thread = 0]
    BY <1>3 DEF AssignFails, TypeOK
  <2>2. 0 \in 0..MaxThreads /\ "store" \in Pcs
    BY ThreadingAssumption DEF Pcs
  <2> QED
    BY <1>1, <1>3, <2>1, <2>2, Picks
<1> QED
  BY <1>2, <1>3

\* What was counted is lost: the agent is cut, or a backfill's row is gone.
Lost(a) == Cut(a) \/ (a \in Jobs /\ StoreNowhere(a))

LEMMA LostView ==
  ASSUME TypeOK, NEW a \in Agents, Lost(a)
  PROVE  /\ work[a].pc # "idle"
         /\ \E pc \in {"idle", "next"} :
              /\ pc = "next" => a \in Jobs
              /\ Becomes(a, pc, {}, 0, 0, {}, [m \in Mails |-> 0])
         /\ wasted' = [t \in Ids |-> IF work[a].pc = "store" /\ t = work[a].thread
                                     THEN wasted[t] + 1 ELSE wasted[t]]
         /\ UNCHANGED <<emails, threads, todo, raced, rewound, split, crowded, context>>
         /\ UNCHANGED faults \/ Fault
<1>1. CASE Cut(a)
  BY <1>1, Stops DEF Cut, At, Waste
<1>2. CASE a \in Jobs /\ StoreNowhere(a)
  <2>1. Becomes(a, "next", {}, 0, 0, {}, [m \in Mails |-> 0])
    BY <1>2, Ends DEF StoreNowhere
  <2> QED
    BY <1>2, <2>1 DEF StoreNowhere, At, Waste
<1> QED
  BY <1>1, <1>2 DEF Lost

LEMMA PurgeView ==
  ASSUME NEW m \in Mails, Purge(m)
  PROVE  /\ m \in stored /\ stored' = stored \ {m} /\ purged' = purged \cup {m}
         /\ thread' = [thread EXCEPT ![m] = 0]
         /\ wasted' = [t \in Ids |-> IF t = thread[m] THEN wasted[t] + 1 ELSE wasted[t]]
         /\ UNCHANGED <<table, last, founded, work, todo, raced, rewound, split, crowded, context, faults>>
  BY DEF Purge, threads

LEMMA Steps ==
  ASSUME [Next]_vars
  PROVE  \/ \E m \in Mails : Arrive(m)
         \/ \E j \in Jobs : BackfillSelect(j) \/ BackfillEnd(j) \/ \E m \in Mails : BackfillNext(j, m)
         \/ \E a \in Agents : \/ LookupReference(a) \/ LookupSubject(a) \/ FoundThread(a)
                              \/ BumpRead(a) \/ BumpWrite(a) \/ StoreThread(a) \/ AssignFails(a) \/ Lost(a)
         \/ \E m \in Mails : Purge(m)
         \/ UNCHANGED vars
  BY DEF Next, AssignStep, BackfillStep, Agents, Lost

-----------------------------------------------------------------------------
(* Type correctness *)

\* TypeOK in two halves.
WorkTyped ==
  /\ work \in [Agents -> Work]
  /\ \A a \in Agents : Busy(a) => Cardinality(work[a].mails) = 1
RowsTyped ==
  /\ stored \subseteq Mails /\ purged \subseteq Mails /\ thread \in [Mails -> 0..MaxThreads]
  /\ table \in [Ids -> Threads] /\ last \in [Ids -> Nat] /\ founded \in 0..MaxThreads
  /\ todo \in [Jobs -> SUBSET Mails]
  /\ \A m \in Mails : thread[m] <= founded
  /\ raced \subseteq Ids /\ rewound \subseteq Ids /\ wasted \in [Ids -> Nat]
  /\ split \subseteq Mails /\ crowded \subseteq Mails /\ context \in [Mails -> SUBSET Mails]
  /\ faults \in 0..MaxFaults

LEMMA TypeHalves == TypeOK <=> WorkTyped /\ RowsTyped
  BY DEF TypeOK, WorkTyped, RowsTyped, Busy

LEMMA WorkKept ==
  ASSUME TypeOK, NEW a \in Agents, NEW pc, NEW mails, NEW t, NEW count, NEW people, NEW known,
         Becomes(a, pc, mails, t, count, people, known),
         pc \in {"idle", "next"} \/ Cardinality(mails) = 1
  PROVE  WorkTyped'
<1>1. ASSUME NEW b \in Agents, Busy(b)' PROVE Cardinality(work'[b].mails) = 1
  <2>1. CASE b = a
    BY <1>1, <2>1 DEF Becomes, Busy
  <2>2. CASE b # a
    BY <1>1, <2>2, TypeHalves DEF Becomes, Busy, WorkTyped
  <2> QED
    BY <2>1, <2>2
<1> QED
  BY <1>1 DEF Becomes, WorkTyped

LEMMA WorkStep == TypeOK /\ ThreadsExist /\ [Next]_vars => WorkTyped'
<1> SUFFICES ASSUME TypeOK, ThreadsExist, [Next]_vars PROVE WorkTyped'
  OBVIOUS
<1>1. \A m \in Mails : Cardinality({m}) = 1
  BY FS_Singleton
<1>2. \A a \in Agents : Busy(a) => Cardinality(work[a].mails) = 1
  BY TypeHalves DEF WorkTyped
<1>3. ASSUME NEW m \in Mails, Arrive(m) PROVE WorkTyped'
  BY <1>1, <1>3, ArriveView, WorkKept
<1>4. ASSUME NEW j \in Jobs, BackfillSelect(j) PROVE WorkTyped'
  BY <1>4, SelectView, WorkKept
<1>5. ASSUME NEW j \in Jobs, BackfillEnd(j) PROVE WorkTyped'
  BY <1>5, EndView, WorkKept
<1>6. ASSUME NEW j \in Jobs, NEW m \in Mails, BackfillNext(j, m) PROVE WorkTyped'
  BY <1>1, <1>6, NextView, WorkKept
<1>7. ASSUME NEW a \in Agents, LookupReference(a) PROVE WorkTyped'
  <2>1. \E pc, t : Becomes(a, pc, work[a].mails, t, work[a].count, work[a].people, work[a].known)
    BY <1>7, ReferenceView
  <2> QED
    BY <1>2, <1>7, <2>1, ReferenceView, WorkKept
<1>8. ASSUME NEW a \in Agents, LookupSubject(a) PROVE WorkTyped'
  <2>1. \E pc, t : Becomes(a, pc, work[a].mails, t, work[a].count, work[a].people, work[a].known)
    BY <1>8, SubjectView
  <2> QED
    BY <1>2, <1>8, <2>1, SubjectView, WorkKept
<1>9. ASSUME NEW a \in Agents, FoundThread(a) PROVE WorkTyped'
  BY <1>2, <1>9, FoundView, WorkKept
<1>10. ASSUME NEW a \in Agents, BumpRead(a) PROVE WorkTyped'
  BY <1>2, <1>10, ReadView, WorkKept
<1>11. ASSUME NEW a \in Agents, BumpWrite(a) PROVE WorkTyped'
  <2>1. Becomes(a, "store", work[a].mails, work[a].thread, work[a].count, work[a].people, work[a].known)
        /\ Busy(a)
    BY <1>11, WriteView
  <2> QED
    BY <1>2, <2>1, WorkKept
<1>12. ASSUME NEW a \in Agents, StoreThread(a) PROVE WorkTyped'
  <2>1. PICK pc \in {"idle", "next"} : Becomes(a, pc, {}, 0, 0, {}, [m \in Mails |-> 0])
    BY <1>12, StoreView
  <2> QED
    BY <2>1, WorkKept
<1>13. ASSUME NEW a \in Agents, AssignFails(a) PROVE WorkTyped'
  BY <1>2, <1>13, FailView, WorkKept
<1>14. ASSUME NEW a \in Agents, Lost(a) PROVE WorkTyped'
  <2>1. PICK pc \in {"idle", "next"} : Becomes(a, pc, {}, 0, 0, {}, [m \in Mails |-> 0])
    BY <1>14, LostView
  <2> QED
    BY <2>1, WorkKept
<1>15. ASSUME UNCHANGED work PROVE WorkTyped'
  BY <1>15, TypeHalves DEF WorkTyped, Busy
<1>16. ASSUME NEW m \in Mails, Purge(m) PROVE WorkTyped'
  BY <1>15, <1>16, PurgeView
<1>17. CASE UNCHANGED vars
  BY <1>15, <1>17 DEF vars
<1> QED
  BY <1>16, <1>17, <1>3, <1>4, <1>5, <1>6, <1>7, <1>8, <1>9, <1>10, <1>11, <1>12, <1>13, <1>14, Steps

LEMMA QuietRows ==
  ASSUME RowsTyped, Quiet, todo' \in [Jobs -> SUBSET Mails], crowded' \subseteq Mails,
         faults' \in 0..MaxFaults
  PROVE  RowsTyped'
  BY DEF RowsTyped, Quiet, emails, threads, history

LEMMA FaultTyped ==
  ASSUME RowsTyped, Fault
  PROVE  faults' \in 0..MaxFaults
  BY ThreadingAssumption DEF RowsTyped, Fault

LEMMA RowsStep == TypeOK /\ WorkersOwn /\ ThreadsExist /\ [Next]_vars => RowsTyped'
<1> SUFFICES ASSUME TypeOK, WorkersOwn, ThreadsExist, [Next]_vars PROVE RowsTyped'
  OBVIOUS
<1>0. RowsTyped /\ todo \in [Jobs -> SUBSET Mails] /\ crowded \subseteq Mails /\ faults \in 0..MaxFaults
  BY TypeHalves DEF RowsTyped
<1>1. ASSUME Quiet, UNCHANGED <<todo, faults>>, crowded' \subseteq Mails PROVE RowsTyped'
  BY <1>0, <1>1, QuietRows
<1>2. ASSUME NEW j \in Jobs, BackfillSelect(j) PROVE RowsTyped'
  <2>1. todo' \in [Jobs -> SUBSET Mails]
    BY <1>0, <1>2, SelectView DEF RowsTyped
  <2> QED
    BY <1>0, <1>2, <2>1, SelectView, QuietRows
<1>3. ASSUME NEW j \in Jobs, NEW m \in Mails, BackfillNext(j, m) PROVE RowsTyped'
  <2>1. todo' \in [Jobs -> SUBSET Mails]
    BY <1>0, <1>3, NextView
  <2> QED
    BY <1>0, <1>3, <2>1, NextView, QuietRows
<1>4. ASSUME NEW a \in Agents, FoundThread(a) PROVE RowsTyped'
  <2>1. [subject |-> Subject[Mail(a)], count |-> 1, people |-> {Sender[Mail(a)]}] \in Threads
        /\ Sent[Mail(a)] \in Nat
    BY <1>4, FoundView, ThreadingAssumption DEF Threads, Subjects, People
  <2>2. table' \in [Ids -> Threads] /\ last' \in [Ids -> Nat]
    BY <1>0, <1>4, <2>1, FoundView DEF RowsTyped
  <2>3. founded' \in 0..MaxThreads /\ \A m \in Mails : thread[m] <= founded'
    <3>1. \A m \in Mails : thread[m] \in Nat /\ thread[m] <= founded
      BY <1>0, ThreadingAssumption DEF RowsTyped
    <3>2. founded' = founded + 1 /\ founded \in Nat /\ founded + 1 \in 1..MaxThreads
      BY <1>4, FoundView DEF Ids
    <3> QED
      BY <3>1, <3>2, ThreadingAssumption
  <2>4. split' \subseteq Mails
    BY <1>0, <1>4, FoundView DEF RowsTyped
  <2> QED
    BY <1>0, <1>4, <2>2, <2>3, <2>4, FoundView DEF RowsTyped, emails
<1>5. ASSUME NEW a \in Agents, BumpWrite(a) PROVE RowsTyped'
  <2>1. \E r \in Threads : table' = [table EXCEPT ![work[a].thread] = r]
    BY <1>5, WriteView
  <2>2. Sent[Mail(a)] \in Nat /\ last' = [last EXCEPT ![work[a].thread] = Sent[Mail(a)]]
    <3>1. \A m \in Mails : Sent[m] \in Nat
      BY ThreadingAssumption
    <3> QED
      BY <1>5, <3>1, WriteView
  <2>3. /\ raced' \subseteq raced \cup {work[a].thread} /\ rewound' \subseteq rewound \cup {work[a].thread}
        /\ work[a].thread \in Ids
        /\ UNCHANGED <<emails, founded, todo, wasted, split, crowded, context, faults>>
    BY <1>5, WriteView
  <2>4. table' \in [Ids -> Threads] /\ last' \in [Ids -> Nat]
    BY <1>0, <2>1, <2>2, <2>3 DEF RowsTyped
  <2> QED
    BY <1>0, <2>3, <2>4 DEF RowsTyped, emails
<1>6. ASSUME NEW a \in Agents, StoreThread(a) PROVE RowsTyped'
  <2>1. Mail(a) \in Mails /\ work[a].thread \in 0..MaxThreads /\ work[a].thread <= founded
        /\ work[a].known \in [Mails -> 0..MaxThreads]
    BY <1>6, StoreView, AgentFields DEF ThreadsExist
  <2>2. stored' \subseteq Mails /\ thread' \in [Mails -> 0..MaxThreads]
        /\ \A m \in Mails : thread'[m] <= founded
    BY <1>0, <1>6, <2>1, StoreView DEF RowsTyped
  <2>3. thread[Mail(a)] # 0 => thread[Mail(a)] \in Ids /\ work[a].thread \in Ids
    <3>1. thread[Mail(a)] \in 0..MaxThreads
      BY <1>0, <2>1 DEF RowsTyped
    <3>2. CASE a \in Jobs
      BY <1>6, <2>1, <3>1, <3>2, StoreView DEF WorkersOwn, At, Ids
    <3>3. CASE a \in Mails
      <4>1. Mail(a) = a /\ a \notin stored
        BY <1>6, <3>3, StoreView, MailOf DEF WorkersOwn, At
      <4> QED
        BY <3>3, <4>1 DEF WorkersOwn
    <3> QED
      BY <3>2, <3>3 DEF Agents
  <2>4. raced' \subseteq Ids
    BY <1>0, <1>6, <2>3, StoreView DEF RowsTyped
  <2>5. context' \in [Mails -> SUBSET Mails]
    <3>1. Known(a) \subseteq Mails
      BY <2>1, ThreadingAssumption DEF Known
    <3> QED
      BY <1>0, <1>6, <3>1, StoreView DEF RowsTyped
  <2> QED
    BY <1>0, <1>6, <2>2, <2>4, <2>5, StoreView DEF RowsTyped, threads
<1>7. ASSUME NEW a \in Agents, AssignFails(a) PROVE RowsTyped'
  BY <1>0, <1>7, FailView, FaultTyped, QuietRows
<1>8. ASSUME NEW a \in Agents, Lost(a) PROVE RowsTyped'
  <2>1. wasted' \in [Ids -> Nat]
    BY <1>0, <1>8, LostView DEF RowsTyped
  <2>2. faults' \in 0..MaxFaults
    BY <1>0, <1>8, LostView, FaultTyped
  <2> QED
    BY <1>0, <1>8, <2>1, <2>2, LostView DEF RowsTyped, emails, threads
<1>9. CASE UNCHANGED vars
  BY <1>0, <1>1, <1>9 DEF vars, Quiet, emails, threads, history
<1>13. ASSUME NEW m \in Mails, Purge(m) PROVE RowsTyped'
  <2>1. 0 \in 0..MaxThreads /\ 0 <= founded
    BY <1>0, ThreadingAssumption DEF RowsTyped
  <2>2. /\ stored' \subseteq Mails /\ purged' \subseteq Mails /\ wasted' \in [Ids -> Nat]
        /\ thread' \in [Mails -> 0..MaxThreads] /\ \A o \in Mails : thread'[o] <= founded
    BY <1>0, <1>13, <2>1, PurgeView DEF RowsTyped
  <2> QED
    BY <1>0, <1>13, <2>2, PurgeView DEF RowsTyped
<1>10. ASSUME NEW m \in Mails, Arrive(m) PROVE RowsTyped'
  BY <1>0, <1>1, <1>10, ArriveView
<1>11. ASSUME NEW j \in Jobs, BackfillEnd(j) PROVE RowsTyped'
  BY <1>0, <1>1, <1>11, EndView
<1>12. ASSUME NEW a \in Agents, LookupReference(a) \/ LookupSubject(a) \/ BumpRead(a) PROVE RowsTyped'
  BY <1>0, <1>1, <1>12, ReferenceView, SubjectView, ReadView
<1> QED
  BY <1>13, <1>2, <1>3, <1>4, <1>5, <1>6, <1>7, <1>8, <1>9, <1>10, <1>11, <1>12, Steps

LEMMA TypeStep == TypeOK /\ WorkersOwn /\ ThreadsExist /\ [Next]_vars => TypeOK'
<1>1. WorkTyped' /\ RowsTyped' => TypeOK'
  BY DEF TypeOK, WorkTyped, RowsTyped, Busy
<1> QED
  BY <1>1, WorkStep, RowsStep

-----------------------------------------------------------------------------
(* Whose message an agent works on *)

\* A step of one agent.
Alone(a) == work' \in [Agents -> Work] /\ \A b \in Agents : b # a => work'[b] = work[b]

LEMMA OwnKept ==
  ASSUME TypeOK, WorkersOwn, NEW a \in Agents, Alone(a), UNCHANGED emails,
         a \in Mails => \/ work'[a].pc = "idle"
                        \/ work'[a].mails = {a} /\ a \notin stored /\ work'[a].pc # "next",
         a \in Jobs => work'[a].mails \subseteq stored \cup purged /\ (work'[a].pc = "store" => work'[a].thread # 0),
         \A j \in Jobs : todo'[j] \subseteq stored \cup purged
  PROVE  WorkersOwn'
<1>0. UNCHANGED <<stored, purged, thread>>
  BY DEF emails
<1>1. ASSUME NEW m \in Mails
      PROVE  /\ work'[m].pc # "idle" => work'[m].mails = {m} /\ m \notin stored'
             /\ work'[m].pc # "next"
             /\ m \notin stored' => thread'[m] = 0
  <2>1. CASE m = a
    BY <1>0, <2>1 DEF WorkersOwn
  <2>2. CASE m # a
    <3>1. work'[m] = work[m]
      BY <2>2 DEF Alone, Agents
    <3> QED
      BY <1>0, <3>1 DEF WorkersOwn, At
  <2> QED
    BY <2>1, <2>2
<1>2. ASSUME NEW j \in Jobs
      PROVE  /\ todo'[j] \cup work'[j].mails \subseteq stored' \cup purged'
             /\ work'[j].pc = "store" => work'[j].thread # 0
  <2>1. CASE j = a
    BY <1>0, <2>1
  <2>2. CASE j # a
    <3>1. work'[j] = work[j]
      BY <2>2 DEF Alone, Agents
    <3> QED
      BY <1>0, <3>1 DEF WorkersOwn, At
  <2> QED
    BY <2>1, <2>2
<1> QED
  BY <1>1, <1>2 DEF WorkersOwn, At

\* While it is busy, an agent's messages are its own.
LEMMA Own ==
  ASSUME WorkersOwn, NEW a \in Agents, Busy(a)
  PROVE  /\ a \in Mails => work[a].mails = {a} /\ a \notin stored
         /\ a \in Jobs => work[a].mails \subseteq stored \cup purged
  BY DEF WorkersOwn, At, Busy

LEMMA OwnStep == TypeOK /\ WorkersOwn /\ ThreadsExist /\ [Next]_vars => WorkersOwn'
<1> SUFFICES ASSUME TypeOK, WorkersOwn, ThreadsExist, [Next]_vars PROVE WorkersOwn'
  OBVIOUS
<1>0. /\ \A j \in Jobs : todo[j] \subseteq stored \cup purged
      /\ Mails \cap Jobs = {} /\ todo \in [Jobs -> SUBSET Mails]
  BY ThreadingAssumption DEF WorkersOwn, TypeOK
<1>1. ASSUME NEW m \in Mails, Arrive(m) PROVE WorkersOwn'
  BY <1>0, <1>1, ArriveView, OwnKept DEF Quiet, Becomes, Alone
<1>2. ASSUME NEW j \in Jobs, BackfillSelect(j) PROVE WorkersOwn'
  <2>1. \A i \in Jobs : todo'[i] \subseteq stored \cup purged
    BY <1>0, <1>2, SelectView
  <2>2. work[j].mails \subseteq stored \cup purged /\ j \notin Mails
    BY <1>0 DEF WorkersOwn
  <2> QED
    BY <1>2, <2>1, <2>2, SelectView, OwnKept DEF Quiet, Becomes, Alone
<1>3. ASSUME NEW j \in Jobs, BackfillEnd(j) PROVE WorkersOwn'
  BY <1>0, <1>3, EndView, OwnKept DEF Quiet, Becomes, Alone
<1>4. ASSUME NEW j \in Jobs, NEW m \in Mails, BackfillNext(j, m) PROVE WorkersOwn'
  <2>1. \A i \in Jobs : todo'[i] \subseteq stored \cup purged
    <3>1. todo' = [todo EXCEPT ![j] = todo[j] \ {m}]
      BY <1>4, NextView
    <3> QED
      BY <1>0, <3>1
  <2>2. {m} \subseteq stored \cup purged /\ j \notin Mails
    BY <1>0, <1>4, NextView
  <2> QED
    BY <1>4, <2>1, <2>2, NextView, OwnKept DEF Quiet, Becomes, Alone
<1>5. ASSUME NEW a \in Agents, Busy(a), Alone(a), UNCHANGED <<emails, todo>>,
             work'[a].mails = work[a].mails, work'[a].pc # "next",
             a \in Jobs /\ work'[a].pc = "store" => work'[a].thread # 0
      PROVE  WorkersOwn'
  BY <1>0, <1>5, Own, OwnKept
<1>6. ASSUME NEW a \in Agents, LookupReference(a) PROVE WorkersOwn'
  BY <1>5, <1>6, ReferenceView DEF Quiet, Becomes, Alone
<1>7. ASSUME NEW a \in Agents, LookupSubject(a) PROVE WorkersOwn'
  BY <1>5, <1>7, SubjectView DEF Quiet, Becomes, Alone
<1>8. ASSUME NEW a \in Agents, FoundThread(a) PROVE WorkersOwn'
  <2>1. founded + 1 # 0
    <3>1. founded \in Nat
      BY <1>8, FoundView
    <3> QED
      BY <3>1
  <2> QED
    BY <1>5, <1>8, <2>1, FoundView DEF Becomes, Alone
<1>9. ASSUME NEW a \in Agents, BumpRead(a) PROVE WorkersOwn'
  BY <1>5, <1>9, ReadView DEF Quiet, Becomes, Alone
<1>10. ASSUME NEW a \in Agents, BumpWrite(a) PROVE WorkersOwn'
  <2>1. work[a].thread # 0
    BY <1>10, WriteView DEF Ids
  <2> QED
    BY <1>5, <1>10, <2>1, WriteView DEF Becomes, Alone
<1>11. ASSUME NEW a \in Agents, StoreThread(a) PROVE WorkersOwn'
  <2> DEFINE m == Mail(a)
  <2>1. /\ m \in Mails /\ stored' = stored \cup {m} /\ m \notin purged /\ UNCHANGED <<todo, purged>>
        /\ thread' = [thread EXCEPT ![m] = work[a].thread] /\ thread \in [Mails -> 0..MaxThreads]
    BY <1>11, StoreView DEF TypeOK
  <2>2. PICK pc \in {"idle", "next"} : /\ pc = IF a \in Jobs THEN "next" ELSE "idle"
                                       /\ Becomes(a, pc, {}, 0, 0, {}, [o \in Mails |-> 0])
    BY <1>11, StoreView
  <2>3. Busy(a) /\ work[a].mails = {m}
    BY <1>11, StoreView, MailOf
  <2>4. a \in Mails => m = a
    BY <2>3, Own
  <2>5. a \in Jobs => m \in stored
    BY <2>1, <2>3, Own
  <2> HIDE DEF m
  <2>6. ASSUME NEW o \in Mails
        PROVE  /\ work'[o].pc # "idle" => work'[o].mails = {o} /\ o \notin stored'
               /\ work'[o].pc # "next"
               /\ o \notin stored' => thread'[o] = 0
    <3>1. CASE o = a
      BY <1>0, <2>1, <2>2, <2>4, <3>1 DEF Becomes
    <3>2. CASE o # a
      <4>1. work'[o] = work[o]
        BY <2>2, <3>2 DEF Becomes, Agents
      <4>2. work[o].pc # "idle" => o # m
        BY <2>4, <2>5, <3>2 DEF WorkersOwn, At, Agents
      <4>3. o \notin stored' => thread'[o] = thread[o]
        BY <2>1
      <4> QED
        BY <2>1, <4>1, <4>2, <4>3 DEF WorkersOwn, At
    <3> QED
      BY <3>1, <3>2
  <2>7. ASSUME NEW j \in Jobs
        PROVE  /\ todo'[j] \cup work'[j].mails \subseteq stored' \cup purged'
               /\ work'[j].pc = "store" => work'[j].thread # 0
    <3>1. CASE j = a
      BY <1>0, <2>1, <2>2, <3>1 DEF Becomes
    <3>2. CASE j # a
      <4>1. work'[j] = work[j]
        BY <2>2, <3>2 DEF Becomes, Agents
      <4> QED
        BY <1>0, <2>1, <4>1 DEF WorkersOwn, At
    <3> QED
      BY <3>1, <3>2
  <2> QED
    BY <2>6, <2>7 DEF WorkersOwn, At
<1>12. ASSUME NEW a \in Agents, AssignFails(a) PROVE WorkersOwn'
  <2>1. CASE Becomes(a, "idle", {}, 0, 0, {}, [m \in Mails |-> 0])
    BY <1>0, <1>12, <2>1, FailView, OwnKept DEF Quiet, Becomes, Alone
  <2>2. CASE /\ a \notin Jobs
             /\ Becomes(a, "store", work[a].mails, 0, work[a].count, work[a].people, work[a].known)
    BY <1>5, <1>12, <2>2, FailView DEF Quiet, Becomes, Alone
  <2> QED
    BY <1>12, <2>1, <2>2, FailView
<1>13. ASSUME NEW a \in Agents, Lost(a) PROVE WorkersOwn'
  <2>1. UNCHANGED <<emails, todo>>
    BY <1>13, LostView
  <2>2. PICK pc \in {"idle", "next"} : /\ pc = "next" => a \in Jobs
                                       /\ Becomes(a, pc, {}, 0, 0, {}, [m \in Mails |-> 0])
    BY <1>13, LostView
  <2>3. Alone(a) /\ work'[a].pc = pc /\ work'[a].mails = {}
    BY <2>2 DEF Becomes, Alone
  <2>4. \A j \in Jobs : todo'[j] \subseteq stored \cup purged
    BY <1>0, <2>1
  <2>5. a \in Jobs => work'[a].mails \subseteq stored \cup purged /\ (work'[a].pc = "store" => work'[a].thread # 0)
    BY <2>3
  <2>6. a \in Mails => work'[a].pc = "idle"
    BY <1>0, <2>2, <2>3
  <2>7. Alone(a) /\ UNCHANGED emails
    BY <2>1, <2>3
  <2> QED
    BY <2>4, <2>5, <2>6, <2>7, OwnKept
<1>14. ASSUME NEW m \in Mails, Purge(m) PROVE WorkersOwn'
  <2>1. /\ m \in stored /\ stored' = stored \ {m} /\ purged' = purged \cup {m}
        /\ thread' = [thread EXCEPT ![m] = 0] /\ UNCHANGED <<work, todo>>
        /\ thread \in [Mails -> 0..MaxThreads]
    BY <1>14, PurgeView DEF TypeOK
  <2>2. \A o \in Mails : o \notin stored' => thread'[o] = 0
    BY <2>1 DEF WorkersOwn
  <2>3. stored \cup purged = stored' \cup purged' /\ stored' \subseteq stored
    BY <2>1
  <2> QED
    BY <2>1, <2>2, <2>3 DEF WorkersOwn, At
<1>15. CASE UNCHANGED vars
  BY <1>15 DEF vars, emails, WorkersOwn, At
<1> QED
  BY <1>1, <1>2, <1>3, <1>4, <1>6, <1>7, <1>8, <1>9, <1>10, <1>11, <1>12, <1>13, <1>14, <1>15, Steps

-----------------------------------------------------------------------------
(* Only threads that exist are used *)

LEMMA ExistKept ==
  ASSUME TypeOK, ThreadsExist, NEW a \in Agents, Alone(a), founded' = founded \/ founded' = founded + 1,
         UNCHANGED wasted, work'[a].thread <= founded',
         work'[a].pc \in {"bump", "write"} => work'[a].thread # 0,
         \A p \in Mails : work'[a].known[p] <= founded
  PROVE  ThreadsExist'
<1>0. /\ founded \in Nat /\ founded' \in Nat /\ founded <= founded'
      /\ \A b \in Agents : work[b].thread \in Nat /\ work[b].known \in [Mails -> 0..MaxThreads]
  BY AgentFields, ThreadingAssumption DEF TypeOK
<1>1. ASSUME NEW b \in Agents
      PROVE  /\ work'[b].thread <= founded'
             /\ work'[b].pc \in {"bump", "write"} => work'[b].thread # 0
             /\ \A p \in Mails : work'[b].known[p] <= founded'
  <2>0. work'[b].known \in [Mails -> 0..MaxThreads]
    BY DEF Alone, Work
  <2>1. CASE b = a
    BY <1>0, <2>0, <2>1, ThreadingAssumption
  <2>2. CASE b # a
    <3>1. work'[b] = work[b]
      BY <2>2 DEF Alone
    <3> QED
      BY <1>0, <2>0, <3>1, ThreadingAssumption DEF ThreadsExist
  <2> QED
    BY <2>1, <2>2
<1>2. \A t2 \in Ids : t2 > founded' => wasted'[t2] = 0
  BY <1>0 DEF ThreadsExist, Ids
<1> QED
  BY <1>1, <1>2 DEF ThreadsExist

LEMMA ExistStep == TypeOK /\ ThreadsExist /\ [Next]_vars => ThreadsExist'
<1> SUFFICES ASSUME TypeOK, ThreadsExist, [Next]_vars PROVE ThreadsExist'
  OBVIOUS
<1>0. /\ founded \in Nat /\ 0 <= founded
      /\ \A m \in Mails : thread[m] \in Nat /\ thread[m] <= founded
      /\ \A m \in Mails : [o \in Mails |-> 0][m] <= founded
      /\ \A a \in Agents : /\ work[a].thread \in Nat /\ work[a].thread <= founded
                           /\ \A p \in Mails : work[a].known[p] <= founded
  BY ThreadingAssumption, AgentFields DEF TypeOK, ThreadsExist
<1>1. ASSUME NEW a \in Agents, NEW pc \in {"idle", "next", "refs"}, NEW mails, NEW known,
             Becomes(a, pc, mails, 0, 0, {}, known), \A p \in Mails : known[p] <= founded,
             UNCHANGED <<founded, wasted>>
      PROVE  ThreadsExist'
  <2>1. Alone(a) /\ work'[a].thread = 0 /\ work'[a].pc = pc /\ work'[a].known = known
    BY <1>1 DEF Becomes, Alone
  <2> QED
    BY <1>0, <1>1, <2>1, ExistKept
<1>2. ASSUME NEW m \in Mails, Arrive(m) PROVE ThreadsExist'
  BY <1>0, <1>1, <1>2, ArriveView DEF Quiet, threads, history
<1>3. ASSUME NEW j \in Jobs, BackfillEnd(j) PROVE ThreadsExist'
  BY <1>0, <1>1, <1>3, EndView DEF Quiet, threads, history
<1>4. ASSUME NEW j \in Jobs, NEW m \in Mails, BackfillNext(j, m) PROVE ThreadsExist'
  BY <1>0, <1>1, <1>4, NextView DEF Quiet, threads, history
<1>5. ASSUME NEW a \in Agents, Alone(a), work'[a].known = work[a].known,
             founded' = founded \/ founded' = founded + 1, UNCHANGED wasted, work'[a].thread <= founded',
             work'[a].pc \in {"bump", "write"} => work'[a].thread # 0
      PROVE  ThreadsExist'
  BY <1>0, <1>5, ExistKept
<1>6. ASSUME NEW j \in Jobs, BackfillSelect(j) PROVE ThreadsExist'
  <2>1. UNCHANGED <<founded, wasted>>
    BY <1>6, SelectView DEF Quiet, threads, history
  <2> QED
    BY <1>0, <1>5, <1>6, <2>1, SelectView DEF Becomes, Alone
<1>7. ASSUME NEW a \in Agents, LookupReference(a) PROVE ThreadsExist'
  <2>1. UNCHANGED <<founded, wasted>>
    BY <1>7, ReferenceView DEF Quiet, threads, history
  <2>2. /\ Alone(a) /\ work'[a].known = work[a].known /\ work'[a].thread <= founded
        /\ work'[a].pc \in {"bump", "write"} => work'[a].thread # 0
    BY <1>0, <1>7, ReferenceView DEF Becomes, Alone
  <2> QED
    BY <1>5, <2>1, <2>2
<1>8. ASSUME NEW a \in Agents, LookupSubject(a) PROVE ThreadsExist'
  <2>1. UNCHANGED <<founded, wasted>>
    BY <1>8, SubjectView DEF Quiet, threads, history
  <2>2. /\ Alone(a) /\ work'[a].known = work[a].known /\ work'[a].thread <= founded
        /\ work'[a].pc \in {"bump", "write"} => work'[a].thread # 0
    BY <1>0, <1>8, SubjectView DEF Becomes, Alone
  <2> QED
    BY <1>5, <2>1, <2>2
<1>9. ASSUME NEW a \in Agents, FoundThread(a) PROVE ThreadsExist'
  <2>1. UNCHANGED wasted /\ founded' = founded + 1 /\ founded \in Nat
    BY <1>9, FoundView
  <2>2. /\ Alone(a) /\ work'[a].known = work[a].known /\ work'[a].thread = founded + 1
        /\ work'[a].pc = "store"
    BY <1>9, FoundView DEF Becomes, Alone
  <2> QED
    BY <1>5, <2>1, <2>2
<1>10. ASSUME NEW a \in Agents, BumpRead(a) \/ BumpWrite(a) PROVE ThreadsExist'
  <2>1. UNCHANGED <<founded, wasted>> /\ work[a].thread \in Ids
    BY <1>10, ReadView, WriteView DEF Quiet, threads, history
  <2>2. Alone(a) /\ work'[a].known = work[a].known /\ work'[a].thread = work[a].thread
    BY <1>10, ReadView, WriteView DEF Becomes, Alone
  <2> QED
    BY <1>0, <1>5, <2>1, <2>2 DEF Ids
<1>11. ASSUME NEW a \in Agents, StoreThread(a) PROVE ThreadsExist'
  <2>1. PICK pc \in {"idle", "next"} : Becomes(a, pc, {}, 0, 0, {}, [o \in Mails |-> 0])
    BY <1>11, StoreView
  <2> QED
    BY <1>0, <1>1, <1>11, <2>1, StoreView DEF threads
<1>12. ASSUME NEW a \in Agents, AssignFails(a) PROVE ThreadsExist'
  <2>1. UNCHANGED <<founded, wasted>>
    BY <1>12, FailView DEF Quiet, threads, history
  <2>2. CASE Becomes(a, "idle", {}, 0, 0, {}, [m \in Mails |-> 0])
    BY <1>0, <1>1, <2>1, <2>2
  <2>3. CASE Becomes(a, "store", work[a].mails, 0, work[a].count, work[a].people, work[a].known)
    BY <1>0, <1>5, <2>1, <2>3 DEF Becomes, Alone
  <2> QED
    BY <1>12, <2>2, <2>3, FailView
<1>13. ASSUME NEW a \in Agents, Lost(a) PROVE ThreadsExist'
  <2>0. PICK pc \in {"idle", "next"} : Becomes(a, pc, {}, 0, 0, {}, [o \in Mails |-> 0])
    BY <1>13, LostView
  <2>1. Becomes(a, pc, {}, 0, 0, {}, [o \in Mails |-> 0]) /\ UNCHANGED founded
    BY <1>13, <2>0, LostView DEF threads
  <2>2. ASSUME NEW t \in Ids, t > founded PROVE wasted'[t] = 0
    <3>1. t # work[a].thread /\ wasted[t] = 0
      BY <1>0, <2>2 DEF ThreadsExist, Ids
    <3> QED
      BY <1>13, <3>1, LostView
  <2>3. ASSUME NEW b \in Agents
        PROVE  /\ work'[b].thread <= founded
               /\ work'[b].pc \in {"bump", "write"} => work'[b].thread # 0
               /\ \A p \in Mails : work'[b].known[p] <= founded
    <3>1. CASE b = a
      BY <1>0, <2>1, <3>1 DEF Becomes
    <3>2. CASE b # a
      BY <2>1, <3>2 DEF Becomes, ThreadsExist
    <3> QED
      BY <3>1, <3>2
  <2> QED
    BY <2>1, <2>2, <2>3 DEF ThreadsExist
<1>14. CASE UNCHANGED vars
  BY <1>14 DEF vars, threads, history, ThreadsExist
<1>15. ASSUME NEW m \in Mails, Purge(m) PROVE ThreadsExist'
  <2>1. UNCHANGED <<work, founded>>
    BY <1>15, PurgeView
  <2>2. ASSUME NEW t \in Ids, t > founded PROVE wasted'[t] = 0
    <3>1. t # thread[m] /\ wasted[t] = 0
      BY <1>0, <2>2 DEF ThreadsExist, Ids
    <3> QED
      BY <1>15, <3>1, PurgeView
  <2> QED
    BY <2>1, <2>2 DEF ThreadsExist
<1> QED
  BY <1>15, <1>2, <1>3, <1>4, <1>6, <1>7, <1>8, <1>9, <1>10, <1>11, <1>12, <1>13, <1>14, Steps

-----------------------------------------------------------------------------
(* Threads count and list their messages *)

\* CountExact, said of one thread.
Counts(t) == table[t].count = Cardinality(In(t)) + Cardinality(Coming(t)) + wasted[t]
Lists(t) == \A m \in In(t) : Sender[m] \in table[t].people

\* ComingListed, said of one thread and one agent.
ListedBy(t, a) ==
  work[a].thread = t =>
    /\ work[a].pc = "store" => Sender[Mail(a)] \in table[t].people
    /\ work[a].pc = "write" =>
         /\ work[a].count <= table[t].count
         /\ work[a].count = table[t].count => work[a].people = table[t].people

LEMMA Unfold ==
  /\ CountExact <=> \A t \in Ids \ raced : Counts(t) /\ Lists(t)
  /\ ComingListed <=> \A t \in Ids \ raced, a \in Agents : ListedBy(t, a)
  BY DEF CountExact, Counts, Lists, ComingListed, ListedBy, At

LEMMA ThreadTyped ==
  ASSUME TypeOK, NEW t \in Ids
  PROVE  /\ t # 0 /\ t \in Nat /\ table[t].count \in Nat /\ wasted[t] \in Nat /\ last[t] \in Nat
         /\ IsFiniteSet(In(t)) /\ IsFiniteSet(Coming(t))
         /\ Cardinality(In(t)) \in Nat /\ Cardinality(Coming(t)) \in Nat
<1>1. In(t) \subseteq Mails /\ Coming(t) \subseteq Agents
  BY DEF In, Coming, TypeOK
<1>2. IsFiniteSet(In(t)) /\ IsFiniteSet(Coming(t))
  BY <1>1, FiniteMails, FS_Subset
<1>3. t # 0 /\ t \in Nat /\ table[t].count \in Nat /\ wasted[t] \in Nat /\ last[t] \in Nat
  BY DEF TypeOK, Threads, Ids
<1> QED
  BY <1>2, <1>3, FS_CardinalityType

LEMMA ComingSame ==
  ASSUME NEW a \in Agents, Alone(a), work[a].pc # "store", NEW t \in Ids,
         work'[a].pc # "store" \/ work'[a].thread # t
  PROVE  Coming(t)' = Coming(t)
  BY DEF Alone, Coming, At

LEMMA ComingMore ==
  ASSUME NEW a \in Agents, Alone(a), work[a].pc # "store", NEW t \in Ids,
         work'[a].pc = "store", work'[a].thread = t
  PROVE  Coming(t)' = Coming(t) \cup {a} /\ a \notin Coming(t)
  BY DEF Alone, Coming, At

LEMMA ComingLess ==
  ASSUME NEW a \in Agents, Alone(a), work[a].pc = "store", work'[a].pc # "store", NEW t \in Ids
  PROVE  /\ t # work[a].thread => Coming(t)' = Coming(t)
         /\ t = work[a].thread => Coming(t)' = Coming(t) \ {a} /\ a \in Coming(t)
  BY DEF Alone, Coming, At

\* A step that neither stores a message nor lets one be counted.
LEMMA CountKept ==
  ASSUME TypeOK, NEW a \in Agents, Alone(a), work[a].pc # "store", NEW t \in Ids,
         work'[a].pc # "store" \/ work'[a].thread # t,
         UNCHANGED <<stored, thread>>, table'[t].count = table[t].count, wasted'[t] = wasted[t], Counts(t)
  PROVE  Counts(t)'
<1>1. In(t)' = In(t) /\ Coming(t)' = Coming(t)
  BY ComingSame DEF In
<1> QED
  BY <1>1 DEF Counts

LEMMA StoreCounts ==
  ASSUME TypeOK, NEW a \in Agents, StoreThread(a), NEW t \in Ids \ raced', Counts(t)
  PROVE  Counts(t)'
<1> DEFINE m == Mail(a)
           s == work[a].thread
<1>1. /\ m \in Mails /\ work[a].pc = "store" /\ stored' = stored \cup {m}
      /\ thread' = [thread EXCEPT ![m] = s] /\ UNCHANGED <<table, wasted>>
      /\ raced' = IF thread[m] = 0 THEN raced ELSE raced \cup {thread[m], s}
      /\ thread \in [Mails -> 0..MaxThreads] /\ stored \subseteq Mails
  BY StoreView DEF TypeOK, threads
<1>2. PICK pc \in {"idle", "next"} : Becomes(a, pc, {}, 0, 0, {}, [o \in Mails |-> 0])
  BY StoreView
<1>3. Alone(a) /\ work'[a].pc # "store"
  BY <1>2 DEF Becomes, Alone
<1>4. t # 0 /\ thread[m] # t
  BY <1>1, ThreadTyped DEF Ids
<1> HIDE DEF m
<1>5. CASE t # s
  <2>1. In(t)' = In(t)
    BY <1>1, <1>4, <1>5 DEF In
  <2>2. Coming(t)' = Coming(t)
    BY <1>1, <1>3, <1>5, ComingLess
  <2> QED
    BY <1>1, <2>1, <2>2 DEF Counts
<1>6. CASE t = s
  <2>1. In(t)' = In(t) \cup {m} /\ m \notin In(t)
    BY <1>1, <1>4, <1>6 DEF In
  <2>2. Coming(t)' = Coming(t) \ {a} /\ a \in Coming(t)
    BY <1>1, <1>3, <1>6, ComingLess
  <2>3. Cardinality(In(t)') = Cardinality(In(t)) + 1
    BY <2>1, ThreadTyped, FS_AddElement
  <2>4. Cardinality(Coming(t)') = Cardinality(Coming(t)) - 1
    BY <2>2, ThreadTyped, FS_RemoveElement
  <2>5. /\ table[t].count \in Nat /\ wasted[t] \in Nat
        /\ Cardinality(In(t)) \in Nat /\ Cardinality(Coming(t)) \in Nat
    BY ThreadTyped
  <2>6. table[t].count = Cardinality(In(t)') + Cardinality(Coming(t)') + wasted[t]
    BY <2>3, <2>4, <2>5 DEF Counts
  <2> QED
    BY <1>1, <2>6 DEF Counts
<1> QED
  BY <1>5, <1>6

LEMMA WriteCounts ==
  ASSUME TypeOK, ThreadsExist, NEW a \in Agents, BumpWrite(a), NEW t \in Ids \ raced', Counts(t)
  PROVE  Counts(t)'
<1> DEFINE s == work[a].thread
<1>1. /\ work[a].pc = "write" /\ s \in Ids /\ UNCHANGED <<stored, thread, wasted>>
      /\ raced' = IF table[s].count # work[a].count THEN raced \cup {s} ELSE raced
  BY WriteView DEF emails
<1>2. Alone(a) /\ work'[a].pc = "store" /\ work'[a].thread = s
  BY WriteView DEF Becomes, Alone
<1>3. PICK r \in Threads : r.count = work[a].count + 1 /\ table' = [table EXCEPT ![s] = r]
  BY WriteView
<1>4. table \in [Ids -> Threads]
  BY DEF TypeOK
<1>5. CASE t # s
  BY <1>1, <1>2, <1>3, <1>4, <1>5, CountKept
<1>6. CASE t = s
  <2>1. Coming(t)' = Coming(t) \cup {a} /\ a \notin Coming(t)
    BY <1>1, <1>2, <1>6, ComingMore
  <2>2. Cardinality(Coming(t)') = Cardinality(Coming(t)) + 1
    BY <2>1, ThreadTyped, FS_AddElement
  <2>3. table'[t].count = table[t].count + 1
    BY <1>1, <1>3, <1>4, <1>6
  <2>4. In(t)' = In(t)
    BY <1>1 DEF In
  <2>5. /\ table[t].count \in Nat /\ wasted[t] \in Nat
        /\ Cardinality(In(t)) \in Nat /\ Cardinality(Coming(t)) \in Nat
    BY ThreadTyped
  <2>6. table'[t].count = Cardinality(In(t)) + Cardinality(Coming(t)') + wasted[t]
    BY <2>2, <2>3, <2>5 DEF Counts
  <2> QED
    BY <1>1, <2>4, <2>6 DEF Counts
<1> QED
  BY <1>5, <1>6

LEMMA FoundCounts ==
  ASSUME TypeOK, ThreadsExist, NEW a \in Agents, FoundThread(a), NEW t \in Ids,
         t = founded + 1 \/ Counts(t)
  PROVE  Counts(t)'
<1>1. /\ work[a].pc = "found" /\ founded + 1 \in Ids /\ founded \in Nat
      /\ UNCHANGED <<stored, thread, wasted>>
      /\ table' = [table EXCEPT ![founded + 1] =
                     [subject |-> Subject[Mail(a)], count |-> 1, people |-> {Sender[Mail(a)]}]]
  BY FoundView DEF emails
<1>2. Alone(a) /\ work'[a].pc = "store" /\ work'[a].thread = founded + 1
  BY FoundView DEF Becomes, Alone
<1>3. table \in [Ids -> Threads]
  BY DEF TypeOK
<1>4. CASE t # founded + 1
  BY <1>1, <1>2, <1>3, <1>4, CountKept
<1>5. CASE t = founded + 1
  <2>1. In(t) = {}
    BY <1>1, <1>5, ThreadingAssumption DEF In, TypeOK
  <2>2. \A b \in Agents : work[b].thread \in Nat /\ work[b].thread <= founded
    BY AgentFields DEF ThreadsExist
  <2>3. Coming(t) = {}
    BY <1>1, <1>5, <2>2 DEF Coming
  <2>4. Coming(t)' = {a}
    BY <1>1, <1>2, <1>5, <2>3, ComingMore
  <2>5. In(t)' = {}
    BY <1>1, <2>1 DEF In
  <2>6. wasted[t] = 0
    BY <1>1, <1>5 DEF ThreadsExist
  <2>7. table'[t].count = 1
    BY <1>1, <1>3, <1>5
  <2>8. Cardinality(In(t)') = 0 /\ Cardinality(Coming(t)') = 1
    BY <2>4, <2>5, FS_EmptySet, FS_Singleton
  <2> QED
    BY <1>1, <2>6, <2>7, <2>8 DEF Counts
<1> QED
  BY <1>4, <1>5

LEMMA LostCounts ==
  ASSUME TypeOK, NEW a \in Agents, Lost(a), NEW t \in Ids, Counts(t)
  PROVE  Counts(t)'
<1>1. /\ UNCHANGED <<stored, thread, table>>
      /\ wasted'[t] = IF work[a].pc = "store" /\ t = work[a].thread THEN wasted[t] + 1 ELSE wasted[t]
  BY LostView DEF emails, threads
<1>2. Alone(a) /\ work'[a].pc # "store"
  BY LostView DEF Becomes, Alone
<1>3. In(t)' = In(t)
  BY <1>1 DEF In
<1>4. CASE work[a].pc # "store"
  BY <1>1, <1>2, <1>4, CountKept
<1>5. CASE work[a].pc = "store" /\ t # work[a].thread
  <2>1. Coming(t)' = Coming(t)
    BY <1>2, <1>5, ComingLess
  <2> QED
    BY <1>1, <1>3, <1>5, <2>1 DEF Counts
<1>6. CASE work[a].pc = "store" /\ t = work[a].thread
  <2>1. Coming(t)' = Coming(t) \ {a} /\ a \in Coming(t)
    BY <1>2, <1>6, ComingLess
  <2>2. Cardinality(Coming(t)') = Cardinality(Coming(t)) - 1
    BY <2>1, ThreadTyped, FS_RemoveElement
  <2>3. /\ table[t].count \in Nat /\ wasted[t] \in Nat /\ wasted'[t] = wasted[t] + 1
        /\ Cardinality(In(t)) \in Nat /\ Cardinality(Coming(t)) \in Nat
    BY <1>1, <1>6, ThreadTyped
  <2>4. table[t].count = Cardinality(In(t)) + Cardinality(Coming(t)') + wasted'[t]
    BY <2>2, <2>3 DEF Counts
  <2> QED
    BY <1>1, <1>3, <2>4 DEF Counts
<1> QED
  BY <1>4, <1>5, <1>6

\* A message that is deleted is counted as wasted from then on.
LEMMA PurgeCounts ==
  ASSUME TypeOK, NEW m \in Mails, Purge(m), NEW t \in Ids, Counts(t)
  PROVE  Counts(t)'
<1>1. /\ m \in stored /\ stored' = stored \ {m} /\ UNCHANGED <<table, work>>
      /\ thread' = [thread EXCEPT ![m] = 0] /\ thread \in [Mails -> 0..MaxThreads]
      /\ wasted'[t] = IF t = thread[m] THEN wasted[t] + 1 ELSE wasted[t]
      /\ stored \subseteq Mails /\ t # 0
  BY PurgeView, ThreadTyped DEF TypeOK
<1>2. Coming(t)' = Coming(t)
  BY <1>1 DEF Coming, At
<1>3. In(t)' = In(t) \ {m} /\ (m \in In(t) <=> t = thread[m])
  BY <1>1 DEF In
<1>4. CASE t # thread[m]
  <2>1. In(t)' = In(t)
    BY <1>3, <1>4
  <2> QED
    BY <1>1, <1>2, <1>4, <2>1 DEF Counts
<1>5. CASE t = thread[m]
  <2>1. Cardinality(In(t)') = Cardinality(In(t)) - 1
    BY <1>3, <1>5, ThreadTyped, FS_RemoveElement
  <2>2. /\ table[t].count \in Nat /\ wasted[t] \in Nat /\ wasted'[t] = wasted[t] + 1
        /\ Cardinality(In(t)) \in Nat /\ Cardinality(Coming(t)) \in Nat
    BY <1>1, <1>5, ThreadTyped
  <2>3. table[t].count = Cardinality(In(t)') + Cardinality(Coming(t)) + wasted'[t]
    BY <2>1, <2>2 DEF Counts
  <2> QED
    BY <1>1, <1>2, <2>3 DEF Counts
<1> QED
  BY <1>4, <1>5

LEMMA RacedGrows ==
  ASSUME TypeOK, ThreadsExist, [Next]_vars
  PROVE  raced \subseteq raced'
<1>1. ASSUME Quiet PROVE raced \subseteq raced'
  BY <1>1 DEF Quiet, history
<1>2. ASSUME NEW a \in Agents,
             FoundThread(a) \/ BumpWrite(a) \/ StoreThread(a) \/ Lost(a) \/ AssignFails(a)
      PROVE  raced \subseteq raced'
  BY <1>1, <1>2, FoundView, WriteView, StoreView, LostView, FailView
<1>3. CASE UNCHANGED vars
  BY <1>3 DEF vars, history
<1> QED
  BY <1>1, <1>2, <1>3, Steps, PurgeView, ArriveView, SelectView, EndView, NextView, ReferenceView, SubjectView, ReadView

\* The steps that leave the tables and the history alone, and where they lead.
QuietStep(a) ==
  /\ Quiet /\ Alone(a) /\ work[a].pc # "store"
  /\ \/ work'[a].thread = 0
     \/ work'[a].pc \notin {"store", "write"}
     \/ /\ work[a].pc = "bump" /\ work'[a].pc = "write" /\ work'[a].thread \in Ids
        /\ work'[a].thread = work[a].thread
        /\ work'[a].mails = work[a].mails
        /\ work'[a].count = table[work[a].thread].count /\ work'[a].people = table[work[a].thread].people

LEMMA QuietSteps ==
  ASSUME TypeOK, ThreadsExist, [Next]_vars
  PROVE  \/ \E a \in Agents : QuietStep(a)
         \/ \E a \in Agents : FoundThread(a) \/ BumpWrite(a) \/ StoreThread(a) \/ Lost(a)
         \/ \E m \in Mails : Purge(m)
         \/ UNCHANGED vars
<1>1. ASSUME NEW m \in Mails, Arrive(m) PROVE m \in Agents /\ QuietStep(m)
  BY <1>1, ArriveView DEF Becomes, Alone, QuietStep
<1>2. ASSUME NEW j \in Jobs, BackfillSelect(j) PROVE j \in Agents /\ QuietStep(j)
  BY <1>2, SelectView DEF Becomes, Alone, QuietStep
<1>3. ASSUME NEW j \in Jobs, BackfillEnd(j) PROVE j \in Agents /\ QuietStep(j)
  BY <1>3, EndView DEF Becomes, Alone, QuietStep
<1>4. ASSUME NEW j \in Jobs, NEW m \in Mails, BackfillNext(j, m) PROVE j \in Agents /\ QuietStep(j)
  BY <1>4, NextView DEF Becomes, Alone, QuietStep
<1>5. ASSUME NEW a \in Agents, LookupReference(a) PROVE QuietStep(a)
  BY <1>5, ReferenceView DEF Becomes, Alone, QuietStep
<1>6. ASSUME NEW a \in Agents, LookupSubject(a) PROVE QuietStep(a)
  BY <1>6, SubjectView DEF Becomes, Alone, QuietStep
<1>7. ASSUME NEW a \in Agents, BumpRead(a) PROVE QuietStep(a)
  BY <1>7, ReadView DEF Becomes, Alone, QuietStep
<1>8. ASSUME NEW a \in Agents, AssignFails(a) PROVE QuietStep(a)
  BY <1>8, FailView DEF Becomes, Alone, QuietStep
<1> QED
  BY <1>1, <1>2, <1>3, <1>4, <1>5, <1>6, <1>7, <1>8, Steps

LEMMA CountStep ==
  ASSUME TypeOK, ThreadsExist, [Next]_vars, NEW t \in Ids \ raced', Counts(t)
  PROVE  Counts(t)'
<1>1. ASSUME NEW a \in Agents, QuietStep(a) PROVE Counts(t)'
  <2>1. UNCHANGED <<stored, thread, table, wasted>>
    BY <1>1 DEF QuietStep, Quiet, emails, threads, history
  <2>2. work'[a].pc # "store" \/ work'[a].thread # t
    BY <1>1, ThreadTyped DEF QuietStep
  <2> QED
    BY <1>1, <2>1, <2>2, CountKept DEF QuietStep
<1>2. ASSUME NEW a \in Agents, FoundThread(a) \/ BumpWrite(a) \/ StoreThread(a) \/ Lost(a) PROVE Counts(t)'
  BY <1>2, FoundCounts, WriteCounts, StoreCounts, LostCounts
<1>3. CASE UNCHANGED vars
  BY <1>3 DEF vars, emails, threads, history, Counts, In, Coming, At
<1>4. ASSUME NEW m \in Mails, Purge(m) PROVE Counts(t)'
  BY <1>4, PurgeCounts
<1> QED
  BY <1>1, <1>2, <1>3, <1>4, QuietSteps

\* A step that changes neither a thread nor what one agent knows of it.
LEMMA ListedKept ==
  ASSUME NEW t, NEW a \in Agents, work'[a] = work[a], table'[t] = table[t], ListedBy(t, a)
  PROVE  ListedBy(t, a)'
<1>1. Mail(a)' = Mail(a)
  BY SameMail
<1> QED
  BY <1>1 DEF ListedBy

LEMMA ListStep ==
  ASSUME TypeOK, ThreadsExist, [Next]_vars, NEW t \in Ids \ raced', Lists(t),
         \A a \in Agents : ListedBy(t, a)
  PROVE  Lists(t)' /\ \A a \in Agents : ListedBy(t, a)'
<1>0. t # 0 /\ t \in Nat /\ table \in [Ids -> Threads] /\ table[t].count \in Nat
  BY ThreadTyped DEF TypeOK
<1>1. ASSUME NEW a \in Agents, QuietStep(a)
      PROVE  Lists(t)' /\ \A b \in Agents : ListedBy(t, b)'
  <2>1. UNCHANGED <<stored, thread, table>>
    BY <1>1 DEF QuietStep, Quiet, emails, threads, history
  <2>2. ASSUME NEW b \in Agents PROVE ListedBy(t, b)'
    <3>1. CASE b # a
      BY <1>1, <2>1, <3>1, ListedKept DEF QuietStep, Alone
    <3>2. CASE b = a
      BY <1>0, <1>1, <2>1, <3>2 DEF QuietStep, ListedBy
    <3> QED
      BY <3>1, <3>2
  <2> QED
    BY <2>1, <2>2 DEF Lists, In
<1>2. ASSUME NEW a \in Agents, FoundThread(a)
      PROVE  Lists(t)' /\ \A b \in Agents : ListedBy(t, b)'
  <2>1. /\ work[a].pc = "found" /\ founded + 1 \in Ids /\ founded \in Nat
        /\ UNCHANGED <<stored, thread>>
        /\ table' = [table EXCEPT ![founded + 1] =
                       [subject |-> Subject[Mail(a)], count |-> 1, people |-> {Sender[Mail(a)]}]]
    BY <1>2, FoundView DEF emails
  <2>2. /\ Alone(a) /\ work'[a].pc = "store" /\ work'[a].thread = founded + 1
        /\ Mail(a)' = Mail(a)
    BY <1>2, FoundView, SameMail DEF Becomes, Alone
  <2>3. CASE t # founded + 1
    <3>1. table'[t] = table[t]
      BY <1>0, <2>1, <2>3
    <3>2. ASSUME NEW b \in Agents PROVE ListedBy(t, b)'
      <4>1. CASE b # a
        BY <2>2, <3>1, <4>1, ListedKept DEF Alone
      <4>2. CASE b = a
        BY <2>2, <2>3, <4>2 DEF ListedBy
      <4> QED
        BY <4>1, <4>2
    <3> QED
      BY <2>1, <3>1, <3>2 DEF Lists, In
  <2>4. CASE t = founded + 1
    <3>1. In(t)' = {}
      BY <2>1, <2>4, ThreadingAssumption DEF In, TypeOK
    <3>2. table'[t].people = {Sender[Mail(a)]}
      BY <1>0, <2>1, <2>4
    <3>3. ASSUME NEW b \in Agents PROVE ListedBy(t, b)'
      <4>1. CASE b # a
        <5>1. work'[b] = work[b] /\ work[b].thread <= founded /\ work[b].thread \in Nat
          BY <2>2, <4>1, AgentFields DEF Alone, ThreadsExist
        <5>2. work'[b].thread # t
          BY <2>1, <2>4, <5>1
        <5> QED
          BY <5>2 DEF ListedBy
      <4>2. CASE b = a
        BY <2>2, <3>2, <4>2 DEF ListedBy
      <4> QED
        BY <4>1, <4>2
    <3> QED
      BY <3>1, <3>3 DEF Lists
  <2> QED
    BY <2>3, <2>4
<1>3. ASSUME NEW a \in Agents, BumpWrite(a)
      PROVE  Lists(t)' /\ \A b \in Agents : ListedBy(t, b)'
  <2> DEFINE s == work[a].thread
  <2>1. /\ work[a].pc = "write" /\ s \in Ids /\ UNCHANGED <<stored, thread>>
        /\ raced' = IF table[s].count # work[a].count THEN raced \cup {s} ELSE raced
    BY <1>3, WriteView DEF emails
  <2>2. /\ Alone(a) /\ work'[a].pc = "store" /\ work'[a].thread = s /\ Mail(a)' = Mail(a)
    BY <1>3, WriteView, SameMail DEF Becomes, Alone
  <2>3. PICK r \in Threads : /\ r.count = work[a].count + 1
                             /\ r.people = work[a].people \cup {Sender[Mail(a)]}
                             /\ table' = [table EXCEPT ![s] = r]
    BY <1>3, WriteView
  <2>4. CASE t # s
    <3>1. table'[t] = table[t]
      BY <1>0, <2>3, <2>4
    <3>2. ASSUME NEW b \in Agents PROVE ListedBy(t, b)'
      <4>1. CASE b # a
        BY <2>2, <3>1, <4>1, ListedKept DEF Alone
      <4>2. CASE b = a
        BY <2>2, <2>4, <4>2 DEF ListedBy
      <4> QED
        BY <4>1, <4>2
    <3> QED
      BY <2>1, <3>1, <3>2 DEF Lists, In
  <2>5. CASE t = s
    <3>1. work[a].count = table[t].count /\ work[a].people = table[t].people
      BY <2>1, <2>5 DEF ListedBy
    <3>2. /\ table'[t].count = table[t].count + 1
          /\ table'[t].people = table[t].people \cup {Sender[Mail(a)]}
      BY <1>0, <2>1, <2>3, <2>5, <3>1
    <3>3. ASSUME NEW b \in Agents PROVE ListedBy(t, b)'
      <4>1. CASE b # a
        <5>1. work'[b] = work[b] /\ work[b].count \in Nat /\ Mail(b)' = Mail(b)
          BY <2>2, <4>1, AgentFields, SameMail DEF Alone
        <5>2. ListedBy(t, b)
          OBVIOUS
        <5> QED
          BY <1>0, <3>2, <5>1, <5>2 DEF ListedBy
      <4>2. CASE b = a
        BY <2>2, <3>2, <4>2 DEF ListedBy
      <4> QED
        BY <4>1, <4>2
    <3>4. Lists(t)'
      BY <2>1, <3>2 DEF Lists, In
    <3> QED
      BY <3>3, <3>4
  <2> QED
    BY <2>4, <2>5
<1>4. ASSUME NEW a \in Agents, StoreThread(a)
      PROVE  Lists(t)' /\ \A b \in Agents : ListedBy(t, b)'
  <2> DEFINE m == Mail(a)
  <2>1. /\ m \in Mails /\ work[a].pc = "store" /\ stored' = stored \cup {m}
        /\ thread' = [thread EXCEPT ![m] = work[a].thread] /\ UNCHANGED table
        /\ thread \in [Mails -> 0..MaxThreads] /\ stored \subseteq Mails
    BY <1>4, StoreView DEF TypeOK, threads
  <2>2. PICK pc \in {"idle", "next"} : Becomes(a, pc, {}, 0, 0, {}, [o \in Mails |-> 0])
    BY <1>4, StoreView
  <2>3. Alone(a) /\ work'[a].pc \notin {"store", "write"}
    BY <2>2 DEF Becomes, Alone
  <2>4. ASSUME NEW b \in Agents PROVE ListedBy(t, b)'
    <3>1. CASE b # a
      BY <2>1, <2>3, <3>1, ListedKept DEF Alone
    <3>2. CASE b = a
      BY <2>3, <3>2 DEF ListedBy
    <3> QED
      BY <3>1, <3>2
  <2>5. work[a].thread = t => Sender[m] \in table[t].people
    BY <2>1 DEF ListedBy
  <2> HIDE DEF m
  <2>6. Lists(t)'
    BY <2>1, <2>5 DEF Lists, In
  <2> QED
    BY <2>4, <2>6
<1>5. ASSUME NEW a \in Agents, Lost(a)
      PROVE  Lists(t)' /\ \A b \in Agents : ListedBy(t, b)'
  <2>1. UNCHANGED <<stored, thread, table>>
    BY <1>5, LostView DEF emails, threads
  <2>2. Alone(a) /\ work'[a].pc \in {"idle", "next"}
    BY <1>5, LostView DEF Becomes, Alone
  <2>3. ASSUME NEW b \in Agents PROVE ListedBy(t, b)'
    <3>1. CASE b # a
      BY <2>1, <2>2, <3>1, ListedKept DEF Alone
    <3>2. CASE b = a
      BY <2>2, <3>2 DEF ListedBy
    <3> QED
      BY <3>1, <3>2
  <2> QED
    BY <2>1, <2>3 DEF Lists, In
<1>6. CASE UNCHANGED vars
  <2>1. UNCHANGED <<stored, thread, table, work>>
    BY <1>6 DEF vars, emails, threads
  <2> QED
    BY <2>1, ListedKept DEF Lists, In
<1>7. ASSUME NEW m \in Mails, Purge(m)
      PROVE  Lists(t)' /\ \A b \in Agents : ListedBy(t, b)'
  <2>1. /\ stored' = stored \ {m} /\ thread' = [thread EXCEPT ![m] = 0] /\ UNCHANGED <<table, work>>
        /\ thread \in [Mails -> 0..MaxThreads] /\ stored \subseteq Mails
    BY <1>7, PurgeView DEF TypeOK
  <2>2. In(t)' \subseteq In(t)
    BY <1>0, <2>1 DEF In
  <2> QED
    BY <2>1, <2>2, ListedKept DEF Lists
<1> QED
  BY <1>7, <1>1, <1>2, <1>3, <1>4, <1>5, <1>6, QuietSteps

LEMMA CountExactStep ==
  TypeOK /\ ThreadsExist /\ CountExact /\ ComingListed /\ [Next]_vars => CountExact' /\ ComingListed'
<1> SUFFICES ASSUME TypeOK, ThreadsExist, CountExact, ComingListed, [Next]_vars
             PROVE  CountExact' /\ ComingListed'
  OBVIOUS
<1>1. \A t \in Ids \ raced' : /\ Counts(t) /\ Lists(t) /\ \A a \in Agents : ListedBy(t, a)
  BY RacedGrows, Unfold
<1>2. \A t \in Ids \ raced' : /\ Counts(t)' /\ Lists(t)' /\ \A a \in Agents : ListedBy(t, a)'
  BY <1>1, CountStep, ListStep
<1>3. (\A t \in Ids \ raced : Counts(t) /\ Lists(t))' => CountExact'
  BY Unfold, PTL
<1>4. (\A t \in Ids \ raced, a \in Agents : ListedBy(t, a))' => ComingListed'
  BY Unfold, PTL
<1> QED
  BY <1>2, <1>3, <1>4

-----------------------------------------------------------------------------
(* Answers join *)

\* What any step keeps: messages stay stored and in threads until they are deleted,
\* and one that changes its thread leaves both in raced.
LEMMA Stays ==
  ASSUME TypeOK, WorkersOwn, ThreadsExist, [Next]_vars
  PROVE  /\ stored \subseteq stored' \cup purged' /\ purged \subseteq purged' /\ raced \subseteq raced'
         /\ \A p \in Threaded :
              /\ p \in Threaded' \cup purged'
              /\ p \in Threaded' => thread'[p] = thread[p] \/ (thread'[p] \in raced' /\ thread[p] \in raced')
<1>0. raced \subseteq raced'
  BY RacedGrows
<1>1. CASE UNCHANGED emails
  BY <1>0, <1>1 DEF emails, Threaded
<1>2. ASSUME NEW a \in Agents, StoreThread(a)
      PROVE  /\ stored \subseteq stored' /\ purged \subseteq purged'
             /\ \A p \in Threaded :
                  /\ p \in Threaded'
                  /\ thread'[p] = thread[p] \/ (thread'[p] \in raced' /\ thread[p] \in raced')
  <2> DEFINE m == Mail(a)
  <2>1. /\ m \in Mails /\ work[a].pc = "store" /\ stored' = stored \cup {m} /\ UNCHANGED purged
        /\ thread' = [thread EXCEPT ![m] = work[a].thread]
        /\ raced' = IF thread[m] = 0 THEN raced ELSE raced \cup {thread[m], work[a].thread}
        /\ thread \in [Mails -> 0..MaxThreads] /\ stored \subseteq Mails
    BY <1>2, StoreView DEF TypeOK
  <2>2. thread[m] # 0 => work[a].thread # 0
    <3>1. CASE a \in Jobs
      BY <2>1, <3>1 DEF WorkersOwn, At
    <3>2. CASE a \in Mails
      <4>1. m = a /\ a \notin stored
        BY <2>1, <3>2, MailOf, Own DEF Busy
      <4> QED
        BY <3>2, <4>1 DEF WorkersOwn
    <3> QED
      BY <3>1, <3>2 DEF Agents
  <2> HIDE DEF m
  <2>3. ASSUME NEW p \in stored, thread[p] # 0
        PROVE  /\ p \in stored' /\ thread'[p] # 0
               /\ thread'[p] = thread[p] \/ (thread'[p] \in raced' /\ thread[p] \in raced')
    BY <2>1, <2>2, <2>3
  <2> QED
    BY <2>1, <2>3 DEF Threaded
<1>3. ASSUME NEW a \in Agents, FoundThread(a) \/ BumpWrite(a) \/ Lost(a) PROVE UNCHANGED emails
  BY <1>3, FoundView, WriteView, LostView
<1>4. ASSUME NEW a \in Agents, QuietStep(a) PROVE UNCHANGED emails
  BY <1>4 DEF QuietStep, Quiet
<1>5. ASSUME NEW m \in Mails, Purge(m)
      PROVE  /\ stored \subseteq stored' \cup purged' /\ purged \subseteq purged'
             /\ \A p \in Threaded : /\ p \in Threaded' \cup purged'
                                    /\ p \in Threaded' => thread'[p] = thread[p]
  BY <1>5, PurgeView DEF Threaded, TypeOK
<1> QED
  BY <1>0, <1>1, <1>2, <1>3, <1>4, <1>5, QuietSteps DEF vars

\* JoiningReply, said of one agent.
Knows(a) == \A p \in Mails : work[a].known[p] # 0 => p \in Threaded \cup purged
Answered(a) ==
  Known(a) # {} /\ Known(a) = Answers[Mail(a)] \cap stored /\ Answers[Mail(a)] \cap purged = {}
Target(a) == \E p \in Known(a) : thread[p] = work[a].thread \/ thread[p] \in raced
Joining(a) ==
  Busy(a) =>
    /\ Knows(a)
    /\ Answered(a) =>
         /\ work[a].pc \notin {"subject", "found"}
         /\ work[a].pc \in {"bump", "write", "store"} /\ work[a].thread # 0 => Target(a)
InContext(m) == context[m] \subseteq Answers[m] \cap (Threaded \cup purged)

LEMMA UnfoldJoining ==
  JoiningReply <=> (\A m \in Mails : InContext(m)) /\ \A a \in Agents : Joining(a)
  BY DEF JoiningReply, InContext, Joining, Knows, Answered, Target, Busy

\* What an agent that keeps its message knew, answers and aims at stays.
LEMMA AnsweredStays ==
  ASSUME TypeOK, WorkersOwn, ThreadsExist, [Next]_vars, NEW a \in Agents, Busy(a), Knows(a),
         work'[a].mails = work[a].mails, work'[a].known = work[a].known
  PROVE  /\ Knows(a)' /\ Known(a)' = Known(a) /\ Known(a) \subseteq Threaded \cup purged
         /\ Answered(a)' => Answered(a)
         /\ work'[a].thread = work[a].thread /\ Answered(a)' /\ Target(a) => Target(a)'
<1>0. Mail(a) \in Mails /\ Mail(a)' = Mail(a) /\ Answers[Mail(a)] \subseteq Mails
  BY MailOf, SameMail, ThreadingAssumption
<1>1. /\ stored \subseteq stored' \cup purged' /\ purged \subseteq purged' /\ raced \subseteq raced'
      /\ \A p \in Threaded :
           /\ p \in Threaded' \cup purged'
           /\ p \in Threaded' => thread'[p] = thread[p] \/ (thread'[p] \in raced' /\ thread[p] \in raced')
  BY Stays
<1>2. Knows(a)'
  BY <1>1 DEF Knows
<1>3. Known(a)' = Known(a)
  BY <1>0 DEF Known
<1>4. Known(a) \subseteq Threaded \cup purged
  BY <1>0 DEF Known, Knows
<1>5. Answered(a)' => Answered(a)
  <2> SUFFICES ASSUME Answered(a)' PROVE Answered(a)
    OBVIOUS
  <2>1. /\ Known(a) # {} /\ Known(a) = Answers[Mail(a)] \cap stored'
        /\ Answers[Mail(a)] \cap purged' = {}
    BY <1>0, <1>3 DEF Answered
  <2>2. Known(a) \subseteq Answers[Mail(a)] \cap stored
    BY <1>1, <1>4, <2>1 DEF Known, Threaded
  <2> QED
    BY <1>1, <2>1, <2>2 DEF Answered
<1>6. ASSUME work'[a].thread = work[a].thread, Answered(a)', Target(a) PROVE Target(a)'
  <2>1. PICK p \in Known(a) : thread[p] = work[a].thread \/ thread[p] \in raced
    BY <1>6 DEF Target
  <2>2. p \in Threaded /\ p \in Threaded'
    BY <1>0, <1>1, <1>3, <1>4, <1>6, <2>1 DEF Answered, Known
  <2> QED
    BY <1>1, <1>3, <1>6, <2>1, <2>2 DEF Target
<1> QED
  BY <1>2, <1>3, <1>4, <1>5, <1>6

LEMMA JoiningKept ==
  ASSUME TypeOK, WorkersOwn, ThreadsExist, [Next]_vars, NEW a \in Agents, Joining(a),
         work'[a] = work[a]
  PROVE  Joining(a)'
  BY AnsweredStays DEF Joining, Busy

LEMMA JoiningStep ==
  ASSUME TypeOK, WorkersOwn, ThreadsExist, [Next]_vars, \A a \in Agents : Joining(a)
  PROVE  \A a \in Agents : Joining(a)'
<1>1. ASSUME NEW a \in Agents, Alone(a), Joining(a)' PROVE \A b \in Agents : Joining(b)'
  BY <1>1, JoiningKept DEF Alone
<1>2. ASSUME NEW a \in Agents, NEW m \in Mails, Becomes(a, "refs", {m}, 0, 0, {}, thread), Quiet
      PROVE  Alone(a) /\ Joining(a)'
  <2>1. work'[a].pc = "refs" /\ work'[a].known = thread /\ Alone(a)
    BY <1>2 DEF Becomes, Alone
  <2>2. \A p \in Mails : thread[p] # 0 => p \in stored
    BY DEF WorkersOwn
  <2>3. Knows(a)'
    BY <1>2, <2>1, <2>2 DEF Knows, Threaded, Quiet, emails
  <2> QED
    BY <2>1, <2>3 DEF Joining
<1>3. ASSUME NEW a \in Agents, Alone(a), work'[a].pc \in {"idle", "next"} PROVE Joining(a)'
  BY <1>3 DEF Joining, Busy
<1>4. ASSUME NEW a \in Agents, Alone(a), Busy(a), work'[a].mails = work[a].mails,
             work'[a].known = work[a].known,
             Answered(a) /\ Answered(a)' =>
               /\ work'[a].pc \notin {"subject", "found"}
               /\ work'[a].thread # 0 /\ work'[a].pc # "refs" => Target(a)'
      PROVE  Joining(a)'
  <2>1. Knows(a)' /\ (Answered(a)' => Answered(a))
    BY <1>4, AnsweredStays DEF Joining
  <2> QED
    BY <1>4, <2>1 DEF Joining
<1>5. ASSUME NEW m \in Mails, Arrive(m) PROVE \A b \in Agents : Joining(b)'
  BY <1>1, <1>2, <1>5, ArriveView
<1>6. ASSUME NEW j \in Jobs, BackfillSelect(j) PROVE \A b \in Agents : Joining(b)'
  <2>1. j \in Agents /\ Alone(j) /\ work'[j].pc = "next"
    BY <1>6, SelectView DEF Becomes, Alone
  <2> QED
    BY <1>1, <1>3, <2>1
<1>7. ASSUME NEW j \in Jobs, BackfillEnd(j) PROVE \A b \in Agents : Joining(b)'
  <2>1. j \in Agents /\ Alone(j) /\ work'[j].pc = "idle"
    BY <1>7, EndView DEF Becomes, Alone
  <2> QED
    BY <1>1, <1>3, <2>1
<1>8. ASSUME NEW j \in Jobs, NEW m \in Mails, BackfillNext(j, m) PROVE \A b \in Agents : Joining(b)'
  BY <1>1, <1>2, <1>8, NextView
<1>9. ASSUME NEW a \in Agents, LookupReference(a) PROVE \A b \in Agents : Joining(b)'
  <2>1. /\ work[a].pc = "refs" /\ Busy(a) /\ Mail(a) \in Mails /\ UNCHANGED emails
        /\ work'[a].mails = work[a].mails /\ work'[a].known = work[a].known /\ Alone(a)
    BY <1>9, ReferenceView DEF Becomes, Alone, Quiet
  <2>2. Knows(a) /\ Known(a)' = Known(a) /\ Known(a) \subseteq Threaded \cup purged
    BY <2>1, AnsweredStays DEF Joining
  <2>3. ASSUME Answered(a)
        PROVE  work'[a].pc \notin {"subject", "found"} /\ Target(a)'
    <3>1. Known(a) = Answers[Mail(a)] \cap stored /\ Known(a) # {} /\ Known(a) \subseteq Threaded
      BY <2>2, <2>3 DEF Answered
    <3>2. PICK p \in Answers[Mail(a)] \cap stored :
            Becomes(a, "bump", work[a].mails, thread[p], work[a].count, work[a].people, work[a].known)
      BY <1>9, <2>2, <3>1, ReferenceView
    <3>3. work'[a].pc = "bump" /\ work'[a].thread = thread[p] /\ p \in Known(a)'
      BY <2>2, <3>1, <3>2 DEF Becomes
    <3> QED
      BY <2>1, <3>3 DEF Target, emails
  <2> QED
    BY <1>1, <1>4, <2>1, <2>3
<1>10. ASSUME NEW a \in Agents, LookupSubject(a) \/ FoundThread(a) PROVE \A b \in Agents : Joining(b)'
  <2>1. work[a].pc \in {"subject", "found"} /\ Busy(a)
    BY <1>10, SubjectView, FoundView
  <2>2. work'[a].mails = work[a].mails /\ work'[a].known = work[a].known /\ Alone(a)
    BY <1>10, SubjectView, FoundView DEF Becomes, Alone
  <2>3. ~Answered(a)
    BY <2>1 DEF Joining
  <2> QED
    BY <1>1, <1>4, <2>1, <2>2, <2>3
<1>11. ASSUME NEW a \in Agents, BumpRead(a) \/ BumpWrite(a) PROVE \A b \in Agents : Joining(b)'
  <2>1. work[a].pc \in {"bump", "write"} /\ Busy(a) /\ work[a].thread # 0
    BY <1>11, ReadView, WriteView, ThreadTyped
  <2>2. /\ work'[a].mails = work[a].mails /\ work'[a].known = work[a].known /\ Alone(a)
        /\ work'[a].thread = work[a].thread /\ work'[a].pc \in {"write", "store"}
    BY <1>11, ReadView, WriteView DEF Becomes, Alone
  <2>3. Knows(a) /\ (Answered(a) => Target(a))
    BY <2>1 DEF Joining
  <2>4. Answered(a) /\ Answered(a)' => Target(a)'
    BY <2>1, <2>2, <2>3, AnsweredStays
  <2> QED
    BY <1>1, <1>4, <2>1, <2>2, <2>4
<1>12. ASSUME NEW a \in Agents, StoreThread(a) \/ Lost(a) PROVE \A b \in Agents : Joining(b)'
  <2>1. Alone(a) /\ work'[a].pc \in {"idle", "next"}
    BY <1>12, StoreView, LostView DEF Becomes, Alone
  <2> QED
    BY <1>1, <1>3, <2>1
<1>13. ASSUME NEW a \in Agents, AssignFails(a) PROVE \A b \in Agents : Joining(b)'
  <2>1. Busy(a)
    BY <1>13, FailView
  <2>2. CASE Becomes(a, "idle", {}, 0, 0, {}, [m \in Mails |-> 0])
    <3>1. Alone(a) /\ work'[a].pc = "idle"
      BY <2>2 DEF Becomes, Alone
    <3> QED
      BY <1>1, <1>3, <3>1
  <2>3. CASE Becomes(a, "store", work[a].mails, 0, work[a].count, work[a].people, work[a].known)
    <3>1. /\ work'[a].mails = work[a].mails /\ work'[a].known = work[a].known /\ Alone(a)
          /\ work'[a].thread = 0 /\ work'[a].pc = "store"
      BY <2>3 DEF Becomes, Alone
    <3> QED
      BY <1>1, <1>4, <2>1, <3>1
  <2> QED
    BY <1>13, <2>2, <2>3, FailView
<1>14. CASE UNCHANGED vars
  BY <1>14, JoiningKept DEF vars
<1>15. ASSUME NEW m \in Mails, Purge(m) PROVE \A b \in Agents : Joining(b)'
  BY <1>15, PurgeView, JoiningKept
<1> QED
  BY <1>15, <1>5, <1>6, <1>7, <1>8, <1>9, <1>10, <1>11, <1>12, <1>13, <1>14, Steps

\* RepliesJoin and InContext, said of one message.
Joins(m) ==
  m \in Threaded /\ context[m] # {} /\ context[m] = Answers[m] \cap stored
    /\ Answers[m] \cap purged = {} =>
    \E p \in context[m] : thread[p] = thread[m] \/ {thread[p], thread[m]} \cap raced # {}

LEMMA UnfoldJoins ==
  /\ RepliesJoin <=> \A m \in Threaded : Joins(m)
  /\ TypeOK => (RepliesJoin <=> \A m \in Mails : Joins(m))
  BY DEF RepliesJoin, Joins, TypeOK, Threaded

\* A message whose assignment is not being stored.
LEMMA JoinsKept ==
  ASSUME TypeOK, WorkersOwn, ThreadsExist, [Next]_vars, NEW m \in Mails, InContext(m), Joins(m),
         context'[m] = context[m], m \in Threaded' => m \in Threaded
  PROVE  InContext(m)' /\ Joins(m)'
<1>1. /\ stored \subseteq stored' \cup purged' /\ purged \subseteq purged' /\ raced \subseteq raced'
      /\ \A p \in Threaded :
           /\ p \in Threaded' \cup purged'
           /\ p \in Threaded' => thread'[p] = thread[p] \/ (thread'[p] \in raced' /\ thread[p] \in raced')
  BY Stays
<1>2. InContext(m)'
  BY <1>1 DEF InContext
<1>3. ASSUME m \in Threaded', context'[m] # {}, context'[m] = Answers[m] \cap stored',
             Answers[m] \cap purged' = {}
      PROVE  \E p \in context'[m] : thread'[p] = thread'[m] \/ {thread'[p], thread'[m]} \cap raced' # {}
  <2>1. context[m] \subseteq Answers[m] \cap Threaded /\ context[m] \subseteq stored /\ m \in Threaded
    BY <1>1, <1>3 DEF InContext, Threaded
  <2>2. context[m] = Answers[m] \cap stored /\ Answers[m] \cap purged = {}
    BY <1>1, <1>3, <2>1
  <2>3. PICK p \in context[m] : thread[p] = thread[m] \/ {thread[p], thread[m]} \cap raced # {}
    BY <1>3, <2>1, <2>2 DEF Joins
  <2>4. p \in Threaded /\ p \in Threaded' /\ m \in Threaded /\ m \in Threaded'
    BY <1>1, <1>3, <2>1, <2>2, <2>3
  <2>5. /\ thread'[p] = thread[p] \/ (thread'[p] \in raced' /\ thread[p] \in raced')
        /\ thread'[m] = thread[m] \/ (thread'[m] \in raced' /\ thread[m] \in raced')
    BY <1>1, <2>4
  <2> QED
    BY <1>1, <2>3, <2>5
<1> QED
  BY <1>2, <1>3 DEF Joins

\* A message that is stored: its agent was joining.
LEMMA JoinsStored ==
  ASSUME TypeOK, WorkersOwn, ThreadsExist, [Next]_vars, NEW a \in Agents, StoreThread(a), Joining(a),
         NEW m \in Mails, m = Mail(a)
  PROVE  InContext(m)' /\ Joins(m)'
<1> DEFINE t == work[a].thread
<1>1. /\ Busy(a) /\ work[a].pc = "store" /\ stored' = stored \cup {m} /\ stored \subseteq Mails
      /\ UNCHANGED purged
      /\ thread' = [thread EXCEPT ![m] = t] /\ context' = [context EXCEPT ![m] = Known(a)]
      /\ thread \in [Mails -> 0..MaxThreads] /\ context \in [Mails -> SUBSET Mails]
      /\ Answers[m] \subseteq Mails
  BY StoreView, ThreadingAssumption DEF TypeOK
<1>2. Knows(a) /\ (Answered(a) /\ t # 0 => Target(a))
  BY <1>1 DEF Joining
<1>3. context'[m] = Known(a) /\ thread'[m] = t /\ \A p \in Mails \ {m} : thread'[p] = thread[p]
  BY <1>1
<1>4. Known(a) \subseteq Answers[m] \cap (Threaded \cup purged)
  BY <1>1, <1>2 DEF Known, Knows
<1>5. InContext(m)'
  BY <1>3, <1>4, Stays DEF InContext
<1>6. ASSUME m \in Threaded', context'[m] # {}, context'[m] = Answers[m] \cap stored',
             Answers[m] \cap purged' = {}
      PROVE  \E p \in context'[m] : thread'[p] = thread'[m] \/ {thread'[p], thread'[m]} \cap raced' # {}
  <2>1. t # 0
    BY <1>3, <1>6 DEF Threaded
  <2>2. Known(a) \subseteq stored /\ Known(a) # {}
    BY <1>1, <1>3, <1>4, <1>6 DEF Threaded
  <2>3. Known(a) = Answers[m] \cap stored
    BY <1>1, <1>3, <1>4, <1>6, <2>2
  <2>4. PICK p \in Known(a) : thread[p] = t \/ thread[p] \in raced
    BY <1>1, <1>2, <1>6, <2>1, <2>2, <2>3 DEF Answered, Target
  <2>5. p \in Mails /\ raced \subseteq raced'
    BY <1>1, <1>4, <2>4, Stays
  <2>6. CASE p = m
    BY <1>3, <2>4, <2>6
  <2>7. CASE p # m
    BY <1>3, <2>4, <2>5, <2>7
  <2> QED
    BY <2>6, <2>7
<1> QED
  BY <1>5, <1>6 DEF Joins

LEMMA RepliesStep ==
  TypeOK /\ WorkersOwn /\ ThreadsExist /\ JoiningReply /\ RepliesJoin /\ [Next]_vars
    => JoiningReply' /\ RepliesJoin'
<1> SUFFICES ASSUME TypeOK, WorkersOwn, ThreadsExist, JoiningReply, RepliesJoin, [Next]_vars
             PROVE  JoiningReply' /\ RepliesJoin'
  OBVIOUS
<1>1. \A a \in Agents : Joining(a) /\ Joining(a)'
  BY UnfoldJoining, JoiningStep
<1>2. \A m \in Mails : InContext(m) /\ Joins(m)
  BY UnfoldJoining, UnfoldJoins
<1>3. ASSUME NEW m \in Mails PROVE InContext(m)' /\ Joins(m)'
  <2>1. ASSUME UNCHANGED <<emails, context>> PROVE InContext(m)' /\ Joins(m)'
    BY <1>2, <2>1, JoinsKept DEF emails, Threaded
  <2>2. ASSUME NEW a \in Agents, StoreThread(a) PROVE InContext(m)' /\ Joins(m)'
    <3>1. CASE m = Mail(a)
      BY <1>1, <2>2, <3>1, JoinsStored
    <3>2. CASE m # Mail(a)
      <4>1. /\ stored' = stored \cup {Mail(a)} /\ thread' = [thread EXCEPT ![Mail(a)] = work[a].thread]
            /\ context' = [context EXCEPT ![Mail(a)] = Known(a)]
            /\ thread \in [Mails -> 0..MaxThreads] /\ context \in [Mails -> SUBSET Mails]
        BY <2>2, StoreView DEF TypeOK
      <4>2. context'[m] = context[m] /\ thread'[m] = thread[m] /\ (m \in stored' => m \in stored)
        BY <3>2, <4>1
      <4> QED
        BY <1>2, <4>2, JoinsKept DEF Threaded
    <3> QED
      BY <3>1, <3>2
  <2>3. ASSUME NEW a \in Agents, FoundThread(a) \/ BumpWrite(a) \/ Lost(a)
        PROVE  UNCHANGED <<emails, context>>
    BY <2>3, FoundView, WriteView, LostView
  <2>4. ASSUME NEW a \in Agents, QuietStep(a) PROVE UNCHANGED <<emails, context>>
    BY <2>4 DEF QuietStep, Quiet, history
  <2>5. ASSUME NEW o \in Mails, Purge(o) PROVE InContext(m)' /\ Joins(m)'
    <3>1. context'[m] = context[m] /\ (m \in Threaded' => m \in Threaded)
      BY <2>5, PurgeView DEF Threaded, TypeOK
    <3> QED
      BY <1>2, <3>1, JoinsKept
  <2> QED
    BY <2>1, <2>2, <2>3, <2>4, <2>5, QuietSteps DEF vars, history
<1>4. JoiningReply'
  BY <1>1, <1>3 DEF JoiningReply, InContext, Joining, Knows, Answered, Target, Busy
<1>5. RepliesJoin'
  BY <1>3, TypeStep DEF RepliesJoin, Joins, TypeOK, Threaded
<1> QED
  BY <1>4, <1>5

-----------------------------------------------------------------------------
(* No message founds a second thread *)

\* LastCovers, said of one message and of one agent.
Dated(m) == m \in Threaded /\ thread[m] \notin rewound => Sent[m] <= last[thread[m]]
Covers(a) ==
  Busy(a) =>
    /\ work[a].pc = "store" /\ work[a].thread \in Ids \ rewound => Sent[Mail(a)] <= last[work[a].thread]
    /\ \A p \in Mails : work[a].known[p] \in Ids \ rewound => Sent[p] <= last[work[a].known[p]]
    /\ work[a].pc = "found" => ~Splits(a, Mail(a))

LEMMA UnfoldCovers ==
  TypeOK => (LastCovers <=> (\A m \in Mails : Dated(m)) /\ \A a \in Agents : Covers(a))
  BY DEF LastCovers, Dated, Covers, Busy, At, TypeOK, Threaded

LEMMA Numbers ==
  ASSUME TypeOK
  PROVE  /\ founded \in Nat /\ last \in [Ids -> Nat] /\ Window \in Nat
         /\ \A m \in Mails : Sent[m] \in Nat /\ thread[m] \in Nat /\ thread[m] <= founded
         /\ \A t \in Ids : t \in Nat /\ t # 0 /\ last[t] \in Nat
         /\ \A t \in Nat : t <= founded => t = 0 \/ (t \in Ids /\ t \in 1..founded)
  BY ThreadingAssumption DEF TypeOK, Ids

\* A thread whose date has not gone back has a date as late as before, and a thread
\* keeps its subject.
LEMMA Forward ==
  ASSUME TypeOK, ThreadsExist, [Next]_vars
  PROVE  /\ rewound \subseteq rewound'
         /\ \A t \in 1..founded \ rewound' :
              t \in Ids /\ last[t] <= last'[t] /\ table'[t].subject = table[t].subject
<1> DEFINE Ahead == /\ rewound \subseteq rewound'
                    /\ \A t \in 1..founded \ rewound' :
                         last[t] <= last'[t] /\ table'[t].subject = table[t].subject
<1>0. /\ founded \in Nat /\ last \in [Ids -> Nat] /\ table \in [Ids -> Threads]
      /\ \A t \in 1..founded : t \in Ids /\ last[t] \in Nat
  BY Numbers DEF TypeOK
<1>1. ASSUME UNCHANGED <<table, last, rewound>>
      PROVE  Ahead
  BY <1>0, <1>1
<1>2. ASSUME NEW a \in Agents, FoundThread(a)
      PROVE  Ahead
  <2>1. /\ founded + 1 \in Ids /\ UNCHANGED rewound
        /\ last' = [last EXCEPT ![founded + 1] = Sent[Mail(a)]]
        /\ \E r : table' = [table EXCEPT ![founded + 1] = r]
    BY <1>2, FoundView
  <2>2. \A t \in 1..founded : last'[t] = last[t] /\ table'[t] = table[t]
    BY <1>0, <2>1
  <2> QED
    BY <1>0, <2>1, <2>2
<1>3. ASSUME NEW a \in Agents, BumpWrite(a)
      PROVE  Ahead
  <2> DEFINE s == work[a].thread
             d == Sent[Mail(a)]
  <2>1. /\ s \in Ids /\ last' = [last EXCEPT ![s] = d] /\ Mail(a) \in Mails
        /\ rewound' = IF d < last[s] THEN rewound \cup {s} ELSE rewound
    BY <1>3, WriteView
  <2>2. PICK r \in Threads : r.subject = table[s].subject /\ table' = [table EXCEPT ![s] = r]
    BY <1>3, WriteView
  <2>3. d \in Nat
    BY <2>1, Numbers
  <2> HIDE DEF s, d
  <2>4. ASSUME NEW t \in 1..founded \ rewound'
        PROVE  last[t] <= last'[t] /\ table'[t].subject = table[t].subject
    BY <1>0, <2>1, <2>2, <2>3
  <2> QED
    BY <2>1, <2>4
<1>4. ASSUME NEW a \in Agents, QuietStep(a) \/ StoreThread(a) \/ Lost(a) PROVE UNCHANGED <<table, last, rewound>>
  BY <1>4, StoreView, LostView DEF QuietStep, Quiet, threads, history
<1>5. ASSUME UNCHANGED vars PROVE Ahead
  BY <1>1, <1>5 DEF vars, threads, history
<1> HIDE DEF Ahead
<1>6. ASSUME NEW m \in Mails, Purge(m) PROVE Ahead
  BY <1>1, <1>6, PurgeView
<1>7. Ahead
  BY <1>1, <1>2, <1>3, <1>4, <1>5, <1>6, QuietSteps
<1> QED
  BY <1>0, <1>7 DEF Ahead

\* A message keeps its excuse.
LEMMA CrowdedGrows ==
  ASSUME TypeOK, ThreadsExist, [Next]_vars
  PROVE  crowded \subseteq crowded'
<1>1. ASSUME NEW a \in Agents,
             \/ LookupReference(a) \/ LookupSubject(a) \/ FoundThread(a) \/ BumpRead(a) \/ BumpWrite(a)
             \/ StoreThread(a) \/ AssignFails(a) \/ Lost(a)
      PROVE  crowded \subseteq crowded'
  BY <1>1, ReferenceView, SubjectView, FoundView, ReadView, WriteView, StoreView, FailView, LostView
<1>2. CASE UNCHANGED vars
  BY <1>2 DEF vars, history
<1> QED
  BY <1>1, <1>2, Steps, ArriveView, SelectView, EndView, NextView, PurgeView

\* What an agent that keeps its message knew is still covered, and if nothing it
\* knew was a thread for it, nothing is.
LEMMA KnownCovered ==
  ASSUME TypeOK, WorkersOwn, ThreadsExist, [Next]_vars, NEW a \in Agents, Covers(a), Busy(a),
         work'[a].mails = work[a].mails, work'[a].known = work[a].known
  PROVE  /\ \A p \in Mails : work'[a].known[p] \in Ids \ rewound' => Sent[p] <= last'[work'[a].known[p]]
         /\ ~Splits(a, Mail(a)) => ~Splits(a, Mail(a))'
<1>0. Mail(a)' = Mail(a)
  BY SameMail
<1>1. last' \in [Ids -> Nat]
  BY TypeStep DEF TypeOK
<1>2. \A p \in Mails : work[a].known[p] \in Nat /\ work[a].known[p] <= founded /\ Sent[p] \in Nat
  BY AgentFields, Numbers, ThreadingAssumption DEF ThreadsExist
<1>3. ASSUME NEW p \in Mails, work[a].known[p] \in Ids \ rewound'
      PROVE  /\ work[a].known[p] \in Ids \ rewound
             /\ last[work[a].known[p]] \in Nat /\ last'[work[a].known[p]] \in Nat
             /\ last[work[a].known[p]] <= last'[work[a].known[p]]
             /\ table'[work[a].known[p]].subject = table[work[a].known[p]].subject
  <2>1. work[a].known[p] \in 1..founded \ rewound'
    BY <1>2, <1>3, Numbers
  <2> QED
    BY <1>1, <1>3, <2>1, Forward, Numbers
<1>4. ASSUME NEW p \in Mails, work[a].known[p] \in Ids \ rewound'
      PROVE  Sent[p] <= last'[work[a].known[p]]
  <2>1. Sent[p] <= last[work[a].known[p]]
    BY <1>3, <1>4 DEF Covers
  <2> QED
    BY <1>2, <1>3, <1>4, <2>1
<1>5. ASSUME Splits(a, Mail(a))' PROVE Splits(a, Mail(a))
  <2>1. PICK p \in Mails :
          /\ work[a].known[p] \in Ids \ rewound'
          /\ table'[work[a].known[p]].subject = Subject[Mail(a)] /\ Subject[Mail(a)] # Empty
          /\ Sent[p] + Window >= Sent[Mail(a)]
    BY <1>0, <1>5 DEF Splits
  <2>2. Mail(a) \notin crowded
    BY <1>0, <1>5, CrowdedGrows DEF Splits
  <2> QED
    BY <1>3, <2>1, <2>2 DEF Splits
<1> QED
  BY <1>4, <1>5

LEMMA CoversKept ==
  ASSUME TypeOK, WorkersOwn, ThreadsExist, [Next]_vars, NEW a \in Agents, Covers(a),
         work'[a] = work[a]
  PROVE  Covers(a)'
<1> SUFFICES ASSUME Busy(a), Busy(a)' PROVE Covers(a)'
  BY DEF Covers, Busy
<1>1. /\ \A p \in Mails : work'[a].known[p] \in Ids \ rewound' => Sent[p] <= last'[work'[a].known[p]]
      /\ ~Splits(a, Mail(a)) => ~Splits(a, Mail(a))'
  BY KnownCovered
<1>2. work'[a].pc = "found" => ~Splits(a, Mail(a))'
  BY <1>1 DEF Covers
<1>3. ASSUME work[a].pc = "store", work[a].thread \in Ids \ rewound'
      PROVE  Sent[Mail(a)] <= last'[work[a].thread]
  <2>1. work[a].thread \in 1..founded \ rewound'
    BY <1>3, Numbers DEF ThreadsExist
  <2>2. /\ last[work[a].thread] <= last'[work[a].thread] /\ work[a].thread \in Ids \ rewound
        /\ last[work[a].thread] \in Nat /\ last'[work[a].thread] \in Nat /\ Sent[Mail(a)] \in Nat
    BY <1>3, <2>1, Forward, Numbers, TypeStep, MailOf DEF TypeOK
  <2>3. Sent[Mail(a)] <= last[work[a].thread]
    BY <1>3, <2>2 DEF Covers
  <2> QED
    BY <2>2, <2>3
<1>4. Mail(a)' = Mail(a)
  BY SameMail
<1> QED
  BY <1>1, <1>2, <1>3, <1>4 DEF Covers

LEMMA CoversStep ==
  ASSUME TypeOK, WorkersOwn, ThreadsExist, [Next]_vars, \A m \in Mails : Dated(m),
         \A a \in Agents : Covers(a)
  PROVE  \A a \in Agents : Covers(a)'
<1>1. ASSUME NEW a \in Agents, Alone(a), Covers(a)' PROVE \A b \in Agents : Covers(b)'
  BY <1>1, CoversKept DEF Alone
<1>2. ASSUME NEW a \in Agents, NEW m \in Mails, Becomes(a, "refs", {m}, 0, 0, {}, thread), Quiet
      PROVE  Alone(a) /\ Covers(a)'
  <2>1. work'[a].pc = "refs" /\ work'[a].known = thread /\ Alone(a)
    BY <1>2 DEF Becomes, Alone
  <2>2. UNCHANGED <<last, rewound>>
    BY <1>2 DEF Quiet, threads, history
  <2>3. ASSUME NEW p \in Mails, thread[p] \in Ids \ rewound PROVE Sent[p] <= last[thread[p]]
    <3>1. p \in Threaded
      BY <2>3, Numbers DEF WorkersOwn, Threaded
    <3> QED
      BY <2>3, <3>1 DEF Dated
  <2> QED
    BY <2>1, <2>2, <2>3 DEF Covers
<1>3. ASSUME NEW a \in Agents, Alone(a), work'[a].pc \in {"idle", "next"} PROVE Covers(a)'
  BY <1>3 DEF Covers, Busy
<1>4. ASSUME NEW a \in Agents, Alone(a), Busy(a), work'[a].mails = work[a].mails,
             work'[a].known = work[a].known,
             work'[a].pc = "found" => ~Splits(a, Mail(a)) \/ Mail(a) \in crowded',
             work'[a].pc = "store" => work'[a].thread = 0 \/ last'[work'[a].thread] = Sent[Mail(a)]
      PROVE  Covers(a)'
  <2>1. /\ \A p \in Mails : work'[a].known[p] \in Ids \ rewound' => Sent[p] <= last'[work'[a].known[p]]
        /\ ~Splits(a, Mail(a)) => ~Splits(a, Mail(a))'
    BY <1>4, KnownCovered
  <2>2. Mail(a)' = Mail(a) /\ Sent[Mail(a)] \in Nat /\ 0 \notin Ids
    BY <1>4, SameMail, MailOf, Numbers
  <2>3. Mail(a) \in crowded' => ~Splits(a, Mail(a))'
    BY <2>2 DEF Splits
  <2> QED
    BY <1>4, <2>1, <2>2, <2>3 DEF Covers
<1>5. ASSUME NEW m \in Mails, Arrive(m) PROVE \A b \in Agents : Covers(b)'
  BY <1>1, <1>2, <1>5, ArriveView
<1>6. ASSUME NEW j \in Jobs, BackfillSelect(j) PROVE \A b \in Agents : Covers(b)'
  <2>1. j \in Agents /\ Alone(j) /\ work'[j].pc = "next"
    BY <1>6, SelectView DEF Becomes, Alone
  <2> QED
    BY <1>1, <1>3, <2>1
<1>7. ASSUME NEW j \in Jobs, BackfillEnd(j) PROVE \A b \in Agents : Covers(b)'
  <2>1. j \in Agents /\ Alone(j) /\ work'[j].pc = "idle"
    BY <1>7, EndView DEF Becomes, Alone
  <2> QED
    BY <1>1, <1>3, <2>1
<1>8. ASSUME NEW j \in Jobs, NEW m \in Mails, BackfillNext(j, m) PROVE \A b \in Agents : Covers(b)'
  BY <1>1, <1>2, <1>8, NextView
<1>9. ASSUME NEW a \in Agents, LookupReference(a) \/ BumpRead(a) PROVE \A b \in Agents : Covers(b)'
  <2>1. /\ Busy(a) /\ Alone(a) /\ work'[a].mails = work[a].mails /\ work'[a].known = work[a].known
        /\ work'[a].pc \notin {"found", "store"}
    BY <1>9, ReferenceView, ReadView DEF Becomes, Alone
  <2> QED
    BY <1>1, <1>4, <2>1
<1>10. ASSUME NEW a \in Agents, LookupSubject(a) PROVE \A b \in Agents : Covers(b)'
  <2>1. /\ Busy(a) /\ Alone(a) /\ work'[a].mails = work[a].mails /\ work'[a].known = work[a].known
        /\ work'[a].pc # "store" /\ Mail(a) \in Mails
        /\ work'[a].pc = "found" =>
             \E page \in SUBSET Recent(Mail(a)) : Page(Mail(a), page) /\ Candidates(Mail(a), page) = {}
        /\ crowded' = IF Cardinality(Recent(Mail(a))) > Limit THEN crowded \cup {Mail(a)} ELSE crowded
    BY <1>10, SubjectView DEF Becomes, Alone
  <2>2. ASSUME Mail(a) \notin crowded', NEW page, Page(Mail(a), page), Candidates(Mail(a), page) = {}
        PROVE  ~Splits(a, Mail(a))
    <3>0. page = Recent(Mail(a))
      <4>1. IsFiniteSet(Recent(Mail(a)))
        <5>1. Recent(Mail(a)) \subseteq 1..founded
          BY DEF Recent
        <5>2. 1 \in Int /\ founded \in Int
          BY Numbers
        <5>3. IsFiniteSet(1..founded)
          BY <5>2, FS_Interval
        <5> QED
          BY <5>1, <5>3, FS_Subset
      <4>2. Cardinality(Recent(Mail(a))) \in Nat /\ Limit \in Nat
        BY <4>1, FS_CardinalityType, ThreadingAssumption
      <4>3. ~(Cardinality(Recent(Mail(a))) > Limit)
        BY <2>1, <2>2
      <4> QED
        BY <2>2, <4>2, <4>3 DEF Page
    <3> SUFFICES ASSUME NEW p \in Mails, work[a].known[p] \in Ids \ rewound,
                        table[work[a].known[p]].subject = Subject[Mail(a)], Subject[Mail(a)] # Empty,
                        Sent[p] + Window >= Sent[Mail(a)]
                 PROVE  FALSE
      BY DEF Splits
    <3> DEFINE t == work[a].known[p]
    <3>1. t \in 1..founded /\ last[t] \in Nat
      BY Numbers DEF ThreadsExist
    <3>2. Sent[p] <= last[t]
      BY <2>1 DEF Covers
    <3>3. Sent[p] \in Nat /\ Sent[Mail(a)] \in Nat /\ Window \in Nat
      BY <2>1, Numbers
    <3> HIDE DEF t
    <3>4. last[t] + Window >= Sent[Mail(a)]
      BY <3>1, <3>2, <3>3 DEF t
    <3> QED
      BY <2>2, <3>0, <3>1, <3>4 DEF Candidates, Recent, t
  <2> QED
    BY <1>1, <1>4, <2>1, <2>2
<1>11. ASSUME NEW a \in Agents, FoundThread(a) \/ BumpWrite(a) PROVE \A b \in Agents : Covers(b)'
  <2>1. /\ Busy(a) /\ Alone(a) /\ work'[a].mails = work[a].mails /\ work'[a].known = work[a].known
        /\ work'[a].pc = "store" /\ work'[a].thread \in Ids
        /\ last' = [last EXCEPT ![work'[a].thread] = Sent[Mail(a)]]
    BY <1>11, FoundView, WriteView DEF Becomes, Alone
  <2>2. last'[work'[a].thread] = Sent[Mail(a)]
    BY <2>1, Numbers
  <2> QED
    BY <1>1, <1>4, <2>1, <2>2
<1>12. ASSUME NEW a \in Agents, StoreThread(a) \/ Lost(a) PROVE \A b \in Agents : Covers(b)'
  <2>1. Alone(a) /\ work'[a].pc \in {"idle", "next"}
    BY <1>12, StoreView, LostView DEF Becomes, Alone
  <2> QED
    BY <1>1, <1>3, <2>1
<1>13. ASSUME NEW a \in Agents, AssignFails(a) PROVE \A b \in Agents : Covers(b)'
  <2>1. Busy(a)
    BY <1>13, FailView
  <2>2. CASE Becomes(a, "idle", {}, 0, 0, {}, [m \in Mails |-> 0])
    <3>1. Alone(a) /\ work'[a].pc = "idle"
      BY <2>2 DEF Becomes, Alone
    <3> QED
      BY <1>1, <1>3, <3>1
  <2>3. CASE Becomes(a, "store", work[a].mails, 0, work[a].count, work[a].people, work[a].known)
    <3>1. /\ work'[a].mails = work[a].mails /\ work'[a].known = work[a].known /\ Alone(a)
          /\ work'[a].thread = 0 /\ work'[a].pc = "store"
      BY <2>3 DEF Becomes, Alone
    <3> QED
      BY <1>1, <1>4, <2>1, <3>1
  <2> QED
    BY <1>13, <2>2, <2>3, FailView
<1>14. CASE UNCHANGED vars
  BY <1>14, CoversKept DEF vars
<1>15. ASSUME NEW m \in Mails, Purge(m) PROVE \A b \in Agents : Covers(b)'
  BY <1>15, PurgeView, CoversKept
<1> QED
  BY <1>15, <1>5, <1>6, <1>7, <1>8, <1>9, <1>10, <1>11, <1>12, <1>13, <1>14, Steps

LEMMA DatedStep ==
  ASSUME TypeOK, WorkersOwn, ThreadsExist, [Next]_vars, \A m \in Mails : Dated(m),
         \A a \in Agents : Covers(a)
  PROVE  \A m \in Mails : Dated(m)'
<1>1. ASSUME NEW m \in Mails, thread'[m] = thread[m], m \in stored' => m \in stored PROVE Dated(m)'
  <2> SUFFICES ASSUME m \in Threaded', thread[m] \notin rewound' PROVE Sent[m] <= last'[thread[m]]
    BY <1>1 DEF Dated
  <2>1. m \in Threaded /\ thread[m] # 0
    BY <1>1 DEF Threaded
  <2>2. thread[m] \in 1..founded /\ thread[m] \in Ids
    BY <2>1, Numbers
  <2>3. /\ last[thread[m]] <= last'[thread[m]] /\ thread[m] \notin rewound
        /\ last[thread[m]] \in Nat /\ last'[thread[m]] \in Nat /\ Sent[m] \in Nat
    BY <2>2, Forward, Numbers, TypeStep DEF TypeOK
  <2>4. Sent[m] <= last[thread[m]]
    BY <2>1, <2>3 DEF Dated
  <2> QED
    BY <2>3, <2>4
<1>2. ASSUME UNCHANGED emails PROVE \A m \in Mails : Dated(m)'
  BY <1>1, <1>2 DEF emails
<1>3. ASSUME NEW a \in Agents, StoreThread(a), NEW m \in Mails PROVE Dated(m)'
  <2> DEFINE n == Mail(a)
             t == work[a].thread
  <2>1. /\ n \in Mails /\ Busy(a) /\ work[a].pc = "store" /\ stored' = stored \cup {n}
        /\ thread' = [thread EXCEPT ![n] = t] /\ UNCHANGED <<last, rewound>>
        /\ thread \in [Mails -> 0..MaxThreads]
    BY <1>3, StoreView DEF TypeOK, threads
  <2>2. CASE m = n
    <3>1. thread'[m] = t
      BY <2>1, <2>2
    <3>2. ASSUME t # 0, t \notin rewound PROVE Sent[m] <= last[t]
      <4>1. t \in Ids
        BY <3>2, AgentFields, Numbers DEF ThreadsExist
      <4> QED
        BY <2>1, <2>2, <3>2, <4>1 DEF Covers
    <3> QED
      BY <2>1, <3>1, <3>2 DEF Dated, Threaded
  <2>3. CASE m # n
    BY <1>1, <2>1, <2>3
  <2> QED
    BY <2>2, <2>3
<1>4. ASSUME NEW a \in Agents, FoundThread(a) \/ BumpWrite(a) \/ Lost(a) PROVE UNCHANGED emails
  BY <1>4, FoundView, WriteView, LostView
<1>5. ASSUME NEW a \in Agents, QuietStep(a) PROVE UNCHANGED emails
  BY <1>5 DEF QuietStep, Quiet
<1>6. ASSUME NEW o \in Mails, Purge(o), NEW m \in Mails PROVE Dated(m)'
  <2>1. CASE m = o
    BY <1>6, <2>1, PurgeView DEF Dated, Threaded
  <2>2. CASE m # o
    <3>1. thread'[m] = thread[m] /\ (m \in stored' => m \in stored)
      BY <1>6, <2>2, PurgeView DEF TypeOK
    <3> QED
      BY <1>1, <3>1
  <2> QED
    BY <2>1, <2>2
<1> QED
  BY <1>2, <1>3, <1>4, <1>5, <1>6, QuietSteps DEF vars

LEMMA SplitStep ==
  ASSUME TypeOK, ThreadsExist, [Next]_vars, \A a \in Agents : Covers(a)
  PROVE  UNCHANGED split
<1>1. ASSUME NEW a \in Agents, FoundThread(a) PROVE UNCHANGED split
  BY <1>1, FoundView DEF Covers
<1>2. ASSUME NEW a \in Agents, QuietStep(a) \/ BumpWrite(a) \/ StoreThread(a) \/ Lost(a) PROVE UNCHANGED split
  BY <1>2, WriteView, StoreView, LostView DEF QuietStep, Quiet, history
<1> QED
  BY <1>1, <1>2, QuietSteps, PurgeView DEF vars, history

LEMMA CoverStep ==
  TypeOK /\ WorkersOwn /\ ThreadsExist /\ LastCovers /\ NoSplit /\ [Next]_vars => LastCovers' /\ NoSplit'
<1> SUFFICES ASSUME TypeOK, WorkersOwn, ThreadsExist, LastCovers, NoSplit, [Next]_vars
             PROVE  LastCovers' /\ NoSplit'
  OBVIOUS
<1>1. (\A m \in Mails : Dated(m)) /\ \A a \in Agents : Covers(a)
  BY UnfoldCovers
<1>2. (\A m \in Mails : Dated(m)') /\ \A a \in Agents : Covers(a)'
  BY <1>1, DatedStep, CoversStep
<1>3. stored' \subseteq Mails
  BY TypeStep DEF TypeOK
<1>4. LastCovers'
  BY <1>2, <1>3 DEF LastCovers, Dated, Covers, Busy, At, Threaded
<1> QED
  BY <1>1, <1>4, SplitStep DEF NoSplit

-----------------------------------------------------------------------------
(* The theorems *)

LEMMA ThreadingInit == Init => ThreadingInv
<1> SUFFICES ASSUME Init PROVE ThreadingInv
  OBVIOUS
<1>1. /\ stored = Legacy /\ purged = {} /\ crowded = {}
      /\ thread = [m \in Mails |-> 0] /\ table = [t \in Ids |-> NoThread]
      /\ last = [t \in Ids |-> 0] /\ founded = 0 /\ raced = {} /\ rewound = {}
      /\ wasted = [t \in Ids |-> 0] /\ split = {} /\ context = [m \in Mails |-> {}] /\ faults = 0
      /\ todo = [j \in Jobs |-> {}] /\ work = [a \in Agents |-> Idle]
  BY DEF Init
<1>2. \A a \in Agents : /\ work[a] = Idle /\ work[a].pc = "idle" /\ work[a].mails = {}
                        /\ work[a].thread = 0 /\ work[a].known = [m \in Mails |-> 0]
  BY <1>1, IdleFields
<1>3. Threaded = {} /\ \A m \in Mails : thread[m] = 0
  BY <1>1, ThreadingAssumption DEF Threaded
<1>4. \A t \in Ids : t # 0 /\ In(t) = {} /\ Coming(t) = {}
  BY <1>1, <1>2, <1>3, ThreadingAssumption DEF In, Coming, At, Ids
<1>5. TypeOK
  <2>1. NoThread \in Threads
    BY DEF NoThread, Threads, Subjects
  <2>2. 0 \in 0..MaxThreads /\ 0 \in 0..MaxFaults
    BY ThreadingAssumption
  <2> QED
    BY <1>1, <1>2, <2>1, <2>2, IdleFields, ThreadingAssumption DEF TypeOK
<1>6. WorkersOwn
  BY <1>1, <1>2, <1>3 DEF WorkersOwn, At, Agents
<1>7. ThreadsExist
  BY <1>1, <1>2 DEF ThreadsExist
<1>8. ComingListed
  BY <1>2 DEF ComingListed, At
<1>9. JoiningReply
  BY <1>1, <1>2 DEF JoiningReply
<1>10. LastCovers
  BY <1>2, <1>3 DEF LastCovers
<1>11. CountExact
  <2>1. Cardinality({}) = 0
    BY FS_EmptySet
  <2>2. \A t \in Ids : table[t].count = 0 /\ wasted[t] = 0
    BY <1>1 DEF NoThread
  <2> QED
    BY <1>4, <2>1, <2>2 DEF CountExact
<1>12. RepliesJoin /\ NoSplit
  BY <1>1, <1>3 DEF RepliesJoin, NoSplit
<1> QED
  BY <1>5, <1>6, <1>7, <1>8, <1>9, <1>10, <1>11, <1>12 DEF ThreadingInv

LEMMA ThreadingStep == ThreadingInv /\ [Next]_vars => ThreadingInv'
  BY TypeStep, OwnStep, ExistStep, CountExactStep, RepliesStep, CoverStep DEF ThreadingInv

\* The inductive invariant holds in every reachable state of the thread assignment,
\* for every mailbox, any number of deliveries and backfills, and any faults.
THEOREM ThreadingInvariant == Spec => []ThreadingInv
<1>1. Init => ThreadingInv
  BY ThreadingInit
<1>2. ThreadingInv /\ [Next]_vars => ThreadingInv'
  BY ThreadingStep
<1> QED
  BY <1>1, <1>2, PTL DEF Spec

\* Type correctness: rows point at threads that were founded, and a busy agent has
\* exactly one message.
THEOREM TypeCorrect == Spec => []TypeOK
<1>1. ThreadingInv => TypeOK
  BY DEF ThreadingInv
<1> QED
  BY <1>1, ThreadingInvariant, PTL

\* However deliveries, backfills and purges interleave and fail, a thread that lost no
\* update between bumpThread's read and its write counts exactly its messages, those
\* lost on the way and those deleted, and lists everybody who wrote one it has.
THEOREM CountCorrect == Spec => []CountExact
<1>1. ThreadingInv => CountExact
  BY DEF ThreadingInv
<1> QED
  BY <1>1, ThreadingInvariant, PTL

\* A message whose answered mails were all in threads when assignThread began, and are
\* not deleted since, is in
\* the thread of one of them, unless a second backfill moved one of the two.
THEOREM RepliesCorrect == Spec => []RepliesJoin
<1>1. ThreadingInv => RepliesJoin
  BY DEF ThreadingInv
<1> QED
  BY <1>1, ThreadingInvariant, PTL

\* No assignment founds a thread beside one of the same subject that had mail inside
\* the window when it began, as long as bumpThread has not set its date back and the
\* search, LIMIT and all, returned every thread with mail in the window.
THEOREM SplitCorrect == Spec => []NoSplit
<1>1. ThreadingInv => NoSplit
  BY DEF ThreadingInv
<1> QED
  BY <1>1, ThreadingInvariant, PTL
=============================================================================
