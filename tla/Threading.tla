------------------------------ MODULE Threading ------------------------------
(****************************************************************************)
(* services/thread-service.ts and its callers, for one mailbox: the         *)
(* inbound delivery of services/email-receiver.ts, createDraft of           *)
(* services/email.ts (a delivery whose failing assignment is a Cut) and the *)
(* backfill route; and the hard deletes of services/trash-retention.ts.     *)
(* An agent is the delivery of a message or a backfill in progress; it      *)
(* assigns one message at a time, every await ending an action.  Subjects   *)
(* are normalised; dates are the messages' own (the Date header).           *)
(****************************************************************************)
EXTENDS Naturals, FiniteSets

CONSTANTS
  Mails,       \* messages
  Legacy,      \* those stored before there were threads
  Jobs,        \* backfills that can run at once
  Subject, Sender, Answers, Sent,  \* of each message
  Empty,       \* the normalised subject that matches nothing
  Window,      \* the 30 days
  Limit,       \* the LIMIT 50 of the search by subject
  MaxThreads,  \* bound: threads
  MaxFaults    \* bound: failing statements and crashes

ASSUME ThreadingAssumption ==
  /\ Legacy \subseteq Mails /\ Mails \cap Jobs = {} /\ IsFiniteSet(Mails \cup Jobs)
  /\ Answers \in [Mails -> SUBSET Mails] /\ Sent \in [Mails -> Nat]
  /\ DOMAIN Subject = Mails /\ DOMAIN Sender = Mails
  /\ Window \in Nat /\ Limit \in Nat \ {0} /\ MaxThreads \in Nat /\ MaxFaults \in Nat

VARIABLES
  stored,   \* the emails table
  purged,   \* rows deleted for good
  thread,   \* threadId of each row (0: null)
  table,    \* the threads table
  last,     \* lastEmailAt of each thread
  founded,  \* ids handed out
  work,     \* what each agent is doing
  todo,     \* rows each backfill selected and has not come to
  raced,    \* history: threads that lost an update or a message
  rewound,  \* history: threads whose lastEmailAt has moved backwards
  wasted,   \* history: messages counted in a thread that are not in it, or not any more
  split,    \* history: messages that founded a thread beside one they belong to
  crowded,  \* history: messages whose search by subject did not see every thread
  context,  \* history: the answered messages that were in threads when the assignment began
  faults

emails == <<stored, purged, thread>>
threads == <<table, last, founded>>
history == <<raced, rewound, wasted, split, crowded, context>>
vars == <<emails, threads, work, todo, history, faults>>

Agents == Mails \cup Jobs
Ids == 1..MaxThreads
People == {Sender[m] : m \in Mails}
Subjects == {Subject[m] : m \in Mails} \cup {Empty}
Pcs == {"idle", "refs", "subject", "bump", "write", "found", "store", "next"}
Threads == [subject : Subjects, count : Nat, people : SUBSET People]
NoThread == [subject |-> Empty, count |-> 0, people |-> {}]
Work == [pc : Pcs, mails : SUBSET Mails, thread : 0..MaxThreads, count : Nat,
         people : SUBSET People, known : [Mails -> 0..MaxThreads]]
Idle == [pc |-> "idle", mails |-> {}, thread |-> 0, count |-> 0, people |-> {},
         known |-> [m \in Mails |-> 0]]

TypeOK ==
  /\ stored \subseteq Mails /\ purged \subseteq Mails /\ thread \in [Mails -> 0..MaxThreads]
  /\ table \in [Ids -> Threads] /\ last \in [Ids -> Nat] /\ founded \in 0..MaxThreads
  /\ work \in [Agents -> Work] /\ todo \in [Jobs -> SUBSET Mails]
  /\ \A a \in Agents : work[a].pc \notin {"idle", "next"} => Cardinality(work[a].mails) = 1
  /\ \A m \in Mails : thread[m] <= founded
  /\ raced \subseteq Ids /\ rewound \subseteq Ids /\ wasted \in [Ids -> Nat]
  /\ split \subseteq Mails /\ crowded \subseteq Mails /\ context \in [Mails -> SUBSET Mails]
  /\ faults \in 0..MaxFaults

Init ==
  /\ stored = Legacy /\ purged = {} /\ thread = [m \in Mails |-> 0]
  /\ table = [t \in Ids |-> NoThread] /\ last = [t \in Ids |-> 0] /\ founded = 0
  /\ work = [a \in Agents |-> Idle] /\ todo = [j \in Jobs |-> {}]
  /\ raced = {} /\ rewound = {} /\ wasted = [t \in Ids |-> 0] /\ split = {}
  /\ crowded = {} /\ context = [m \in Mails |-> {}]
  /\ faults = 0

At(a, pc) == work[a].pc = pc
GoTo(a, pc) == work' = [work EXCEPT ![a].pc = pc]
Mail(a) == CHOOSE m \in Mails : m \in work[a].mails
Threaded == {m \in stored : thread[m] # 0}

-----------------------------------------------------------------------------
(* The callers *)

\* An agent turns to a message; known (history) is where the others are by now.
Assign(a, m) ==
  work' = [work EXCEPT ![a] = [Idle EXCEPT !.pc = "refs", !.mails = {m}, !.known = thread]]

\* processInbound reaches assignThread.
Arrive(m) ==
  /\ m \notin stored \cup purged /\ At(m, "idle") /\ Assign(m, m)
  /\ UNCHANGED <<emails, threads, todo, history, faults>>

\* backfill selects the rows without a thread ...
BackfillSelect(j) ==
  LET rows == stored \ Threaded IN
  /\ At(j, "idle") /\ rows # {}
  /\ todo' = [todo EXCEPT ![j] = rows]
  /\ GoTo(j, "next")
  /\ UNCHANGED <<emails, threads, history, faults>>

\* ... and assigns them oldest first, without looking at them again.
BackfillNext(j, m) ==
  /\ At(j, "next") /\ m \in todo[j] /\ \A o \in todo[j] : Sent[m] <= Sent[o]
  /\ todo' = [todo EXCEPT ![j] = @ \ {m}]
  /\ Assign(j, m)
  /\ UNCHANGED <<emails, threads, history, faults>>

BackfillEnd(j) ==
  /\ At(j, "next") /\ todo[j] = {}
  /\ work' = [work EXCEPT ![j] = Idle]
  /\ UNCHANGED <<emails, threads, todo, history, faults>>

\* The row is inserted with its thread, or updated by a backfill, which may
\* find that somebody else has given it one.
StoreThread(a) ==
  LET m == Mail(a) IN
  /\ At(a, "store") /\ m \notin purged
  /\ stored' = stored \cup {m}
  /\ thread' = [thread EXCEPT ![m] = work[a].thread]
  /\ raced' = IF thread[m] = 0 THEN raced ELSE raced \cup {thread[m], work[a].thread}
  /\ context' = [context EXCEPT ![m] = {p \in Answers[m] : work[a].known[p] # 0}]
  /\ work' = [work EXCEPT ![a] = IF a \in Jobs THEN [Idle EXCEPT !.pc = "next"] ELSE Idle]
  /\ UNCHANGED <<purged, threads, todo, rewound, wasted, split, crowded, faults>>

\* What an agent was about to store had been counted, and will not be.
Waste(a) ==
  wasted' = [t \in Ids |-> IF At(a, "store") /\ t = work[a].thread THEN wasted[t] + 1 ELSE wasted[t]]

\* A backfill's UPDATE finds no row any more.
StoreNowhere(j) ==
  /\ At(j, "store") /\ Mail(j) \in purged /\ Waste(j)
  /\ work' = [work EXCEPT ![j] = [Idle EXCEPT !.pc = "next"]]
  /\ UNCHANGED <<emails, threads, todo, raced, rewound, split, crowded, context, faults>>

\* A message is deleted for good; its thread is left as it is.
Purge(m) ==
  /\ m \in stored
  /\ stored' = stored \ {m} /\ purged' = purged \cup {m}
  /\ thread' = [thread EXCEPT ![m] = 0]
  /\ wasted' = [t \in Ids |-> IF t = thread[m] THEN wasted[t] + 1 ELSE wasted[t]]
  /\ UNCHANGED <<threads, work, todo, raced, rewound, split, crowded, context, faults>>

-----------------------------------------------------------------------------
(* assignThread *)

\* Mutant: the references are not looked at.
LookupSkipped(a) ==
  /\ At(a, "refs") /\ GoTo(a, "subject")
  /\ UNCHANGED <<emails, threads, todo, history, faults>>

\* One of the answered messages, if the mailbox has any; LIMIT 1 without an order.
LookupReference(a) ==
  LET refs == Answers[Mail(a)] \cap stored IN
  /\ At(a, "refs")
  /\ \/ \E p \in refs : thread[p] # 0
          /\ work' = [work EXCEPT ![a].pc = "bump", ![a].thread = thread[p]]
     \/ (refs = {} \/ ~(refs \subseteq Threaded)) /\ GoTo(a, "subject")
  /\ UNCHANGED <<emails, threads, todo, history, faults>>

\* Mutant: the window is measured from the wrong side.
RecentAfter(m) == {t \in 1..founded : last[t] >= Sent[m] + Window}

\* Threads whose last mail is not too long before this one.
Recent(m) == {t \in 1..founded : last[t] + Window >= Sent[m]}

\* The rows such a search returns: the most recent ones, of any subject.
Page(m, page) ==
  IF Cardinality(Recent(m)) <= Limit THEN page = Recent(m)
  ELSE /\ Cardinality(page) = Limit
       /\ \A t \in page, o \in Recent(m) \ page : last[o] <= last[t]

\* Those of the message's subject among them.
Candidates(m, page) == {t \in page : table[t].subject = Subject[m] /\ Subject[m] # Empty}

LookupSubject(a) ==
  LET m == Mail(a) IN
  /\ At(a, "subject")
  /\ \E page \in SUBSET Recent(m) :
       /\ Page(m, page)
       /\ \/ Candidates(m, page) = {} /\ GoTo(a, "found")
          \/ \E t \in Candidates(m, page) :
               /\ \A o \in Candidates(m, page) : last[o] <= last[t]
               /\ work' = [work EXCEPT ![a].pc = "bump", ![a].thread = t]
  /\ crowded' = IF Cardinality(Recent(m)) > Limit THEN crowded \cup {m} ELSE crowded
  /\ UNCHANGED <<emails, threads, todo, raced, rewound, wasted, split, context, faults>>

\* A message founds a thread though one of its subject was there when it began,
\* with mail inside the window and a lastEmailAt that never went back, and its
\* search saw every thread in the window.
Splits(a, m) ==
  /\ m \notin crowded
  /\ \E p \in Mails :
       /\ work[a].known[p] \in Ids \ rewound
       /\ table[work[a].known[p]].subject = Subject[m] /\ Subject[m] # Empty
       /\ Sent[p] + Window >= Sent[m]

\* Mutant: a new thread counts from zero, as the column's default does.
FoundEmpty(a) ==
  LET m == Mail(a) IN
  /\ At(a, "found") /\ founded < MaxThreads
  /\ founded' = founded + 1
  /\ table' = [table EXCEPT ![founded + 1] =
                 [subject |-> Subject[m], count |-> 0, people |-> {Sender[m]}]]
  /\ last' = [last EXCEPT ![founded + 1] = Sent[m]]
  /\ work' = [work EXCEPT ![a].pc = "store", ![a].thread = founded + 1]
  /\ split' = IF Splits(a, m) THEN split \cup {m} ELSE split
  /\ UNCHANGED <<emails, todo, raced, rewound, wasted, crowded, context, faults>>

FoundThread(a) ==
  LET m == Mail(a) IN
  /\ At(a, "found") /\ founded < MaxThreads
  /\ founded' = founded + 1
  /\ table' = [table EXCEPT ![founded + 1] =
                 [subject |-> Subject[m], count |-> 1, people |-> {Sender[m]}]]
  /\ last' = [last EXCEPT ![founded + 1] = Sent[m]]
  /\ work' = [work EXCEPT ![a].pc = "store", ![a].thread = founded + 1]
  /\ split' = IF Splits(a, m) THEN split \cup {m} ELSE split
  /\ UNCHANGED <<emails, todo, raced, rewound, wasted, crowded, context, faults>>

\* bumpThread reads the count and the participants ...
BumpRead(a) ==
  LET t == work[a].thread IN
  /\ At(a, "bump")
  /\ work' = [work EXCEPT ![a].pc = "write", ![a].count = table[t].count,
                          ![a].people = table[t].people]
  /\ UNCHANGED <<emails, threads, todo, history, faults>>

\* ... and writes them back with this message added; its date replaces lastEmailAt.
BumpWrite(a) ==
  LET t == work[a].thread
      m == Mail(a) IN
  /\ At(a, "write") /\ GoTo(a, "store")
  /\ table' = [table EXCEPT ![t].count = work[a].count + 1,
                            ![t].people = work[a].people \cup {Sender[m]}]
  /\ last' = [last EXCEPT ![t] = Sent[m]]
  /\ raced' = IF table[t].count # work[a].count THEN raced \cup {t} ELSE raced
  /\ rewound' = IF Sent[m] < last[t] THEN rewound \cup {t} ELSE rewound
  /\ UNCHANGED <<emails, founded, todo, wasted, split, crowded, context, faults>>

-----------------------------------------------------------------------------
(* Faults *)

Fault == faults < MaxFaults /\ faults' = faults + 1

\* A statement of assignThread throws: a delivery stores the message without a
\* thread, a backfill ends.
AssignFails(a) ==
  /\ work[a].pc \in {"refs", "subject", "bump", "write", "found"} /\ Fault
  /\ work' = [work EXCEPT ![a] = IF a \in Jobs THEN Idle
                                 ELSE [@ EXCEPT !.pc = "store", !.thread = 0]]
  /\ UNCHANGED <<emails, threads, todo, history>>

\* The row cannot be written, or the process dies; the message is delivered again.
Cut(a) ==
  /\ work[a].pc # "idle" /\ Fault
  /\ work' = [work EXCEPT ![a] = Idle]
  /\ Waste(a)
  /\ UNCHANGED <<emails, threads, todo, raced, rewound, split, crowded, context>>

-----------------------------------------------------------------------------

AssignStep(a) ==
  \/ LookupReference(a) \/ LookupSubject(a) \/ FoundThread(a) \/ BumpRead(a) \/ BumpWrite(a)
  \/ StoreThread(a)

BackfillStep(j) == AssignStep(j) \/ StoreNowhere(j) \/ BackfillEnd(j) \/ \E m \in Mails : BackfillNext(j, m)

Next ==
  \/ \E m \in Mails : Arrive(m) \/ AssignStep(m) \/ Purge(m)
  \/ \E j \in Jobs : BackfillSelect(j) \/ BackfillStep(j)
  \/ \E a \in Agents : AssignFails(a) \/ Cut(a)

Spec == Init /\ [][Next]_vars

-----------------------------------------------------------------------------
(* Properties *)

In(t) == {m \in stored : thread[m] = t}
Coming(t) == {a \in Agents : At(a, "store") /\ work[a].thread = t}

\* A thread that has not lost an update counts exactly the messages in it, those
\* on their way into it, those that failed after being counted and those deleted
\* since, and it lists everybody who wrote one of its messages.  Nothing lowers
\* the count: after a purge it is not the number of messages there are to show.
CountExact ==
  \A t \in Ids \ raced :
    /\ table[t].count = Cardinality(In(t)) + Cardinality(Coming(t)) + wasted[t]
    /\ \A m \in In(t) : Sender[m] \in table[t].people

\* A message is in the thread of a message it answers, if those the mailbox has
\* were all in threads when its assignment began and none has been deleted.
RepliesJoin ==
  \A m \in Threaded : context[m] # {} /\ context[m] = Answers[m] \cap stored
                         /\ Answers[m] \cap purged = {} =>
    \E p \in context[m] : thread[p] = thread[m] \/ {thread[p], thread[m]} \cap raced # {}

\* No message founds a second thread of its subject inside the window, however
\* deliveries interleave, while lastEmailAt does not go back and no more than
\* Limit threads, of whatever subject, have had mail inside the window.
NoSplit == split = {}
-----------------------------------------------------------------------------
(* The inductive invariant *)

\* A delivery works on its own message, which is not stored before it stores it;
\* backfills work on rows that were stored; only a failed delivery stores without a thread.
WorkersOwn ==
  /\ \A m \in Mails : /\ ~At(m, "idle") => work[m].mails = {m} /\ m \notin stored
                      /\ ~At(m, "next")
                      /\ m \notin stored => thread[m] = 0
  /\ \A j \in Jobs : /\ todo[j] \cup work[j].mails \subseteq stored \cup purged
                     /\ At(j, "store") => work[j].thread # 0

\* Whoever bumps a thread has found one, and only threads that exist are bumped,
\* joined or known; nothing is wasted in one that does not exist.
ThreadsExist ==
  /\ \A a \in Agents : /\ work[a].thread <= founded
                       /\ work[a].pc \in {"bump", "write"} => work[a].thread # 0
                       /\ \A p \in Mails : work[a].known[p] <= founded
  /\ \A t \in Ids : t > founded => wasted[t] = 0

\* CountExact for those on their way: they are listed already, and what a bump has
\* read is what the table said or older.
ComingListed ==
  \A t \in Ids \ raced, a \in Agents : work[a].thread = t =>
    /\ At(a, "store") => Sender[Mail(a)] \in table[t].people
    /\ At(a, "write") => /\ work[a].count <= table[t].count
                         /\ work[a].count = table[t].count => work[a].people = table[t].people

\* RepliesJoin for an assignment in progress; Known(a) is what its message answers.
Known(a) == {p \in Answers[Mail(a)] : work[a].known[p] # 0}
JoiningReply ==
  /\ \A m \in Mails : context[m] \subseteq Answers[m] \cap (Threaded \cup purged)
  /\ \A a \in Agents : work[a].pc \notin {"idle", "next"} =>
       /\ \A p \in Mails : work[a].known[p] # 0 => p \in Threaded \cup purged
       /\ Known(a) # {} /\ Known(a) = Answers[Mail(a)] \cap stored
            /\ Answers[Mail(a)] \cap purged = {} =>
            /\ work[a].pc \notin {"subject", "found"}
            /\ work[a].pc \in {"bump", "write", "store"} /\ work[a].thread # 0 =>
                 \E p \in Known(a) : thread[p] = work[a].thread \/ thread[p] \in raced

\* lastEmailAt of a thread that never went back covers its messages, those on their
\* way and those an assignment knew; who found no candidate knows of none.
LastCovers ==
  /\ \A m \in Threaded : thread[m] \notin rewound => Sent[m] <= last[thread[m]]
  /\ \A a \in Agents : work[a].pc \notin {"idle", "next"} =>
       /\ At(a, "store") /\ work[a].thread \in Ids \ rewound => Sent[Mail(a)] <= last[work[a].thread]
       /\ \A p \in Mails : work[a].known[p] \in Ids \ rewound => Sent[p] <= last[work[a].known[p]]
       /\ At(a, "found") => ~Splits(a, Mail(a))

\* Together with the properties these hold initially and are preserved by every step.
ThreadingInv ==
  /\ TypeOK /\ WorkersOwn /\ ThreadsExist /\ ComingListed /\ JoiningReply /\ LastCovers
  /\ CountExact /\ RepliesJoin /\ NoSplit
=============================================================================
