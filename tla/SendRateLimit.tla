---------------------------- MODULE SendRateLimit ----------------------------
(***************************************************************************)
(* services/send-rate-limit.ts for one user: the hourly and the daily      *)
(* counter of sends.  Every caller of checkAndReserveSend increments both, *)
(* one atomic script each, and looks at the two answers afterwards; a      *)
(* blocked caller, and refundSend, decrement both.  A counter lives in     *)
(* Redis, or in the calling process whenever Redis does not answer.  A     *)
(* counter that expires starts again at zero, whoever still holds a slot.  *)
(***************************************************************************)
EXTENDS Naturals, FiniteSets

CONSTANTS
  Callers,      \* sends the user can have in progress at once
  Procs,        \* API processes
  ProcOf,       \* the process each caller runs in
  Redis,        \* the shared store, not a process
  NoStore,      \* marks a slot that no counter holds
  Limit,        \* SEND_LIMIT_PER_HOUR and SEND_LIMIT_PER_DAY
  MaxAttempts,  \* bound: calls of checkAndReserveSend
  MaxRolls,     \* bound: counters that expire
  MaxCrashes,   \* bound: process crashes
  MaxFallbacks  \* bound: commands Redis does not answer

Windows  == {"hour", "day"}
Stores   == Procs \cup {Redis}
Counters == Windows \X Stores

ASSUME LimitsAssumption ==
  /\ IsFiniteSet(Callers)
  /\ ProcOf \in [Callers -> Procs]
  /\ Redis \notin Procs
  /\ NoStore \notin Stores
  /\ Limit \in [Windows -> Nat \ {0}]
  /\ MaxAttempts \in Nat
  /\ MaxRolls \in Nat
  /\ MaxCrashes \in Nat
  /\ MaxFallbacks \in Nat

VARIABLES
  count,     \* the counters
  pc,        \* where each caller is
  within,    \* per caller and window: the count it was answered was in the limit
  slot,      \* per caller and window: the store whose running window counts it
  spent,     \* sends that were authorised by the running window and kept
  stale,     \* decrements of the running window by callers it does not count
  attempts, rolls, crashes, fallbacks

bounds == <<attempts, rolls, crashes, fallbacks>>
vars   == <<count, pc, within, slot, spent, stale, bounds>>

Pcs == {"idle", "hit", "holding", "undoHour", "undoDay", "turnedAway", "refundHour", "refundDay"}

Init ==
  /\ count  = [k \in Counters |-> 0]
  /\ pc     = [c \in Callers |-> "idle"]
  /\ within = [x \in Callers \X Windows |-> FALSE]
  /\ slot   = [x \in Callers \X Windows |-> NoStore]
  /\ spent  = [k \in Counters |-> 0]
  /\ stale  = [k \in Counters |-> 0]
  /\ attempts = 0
  /\ rolls = 0
  /\ crashes = 0
  /\ fallbacks = 0

-----------------------------------------------------------------------------
(* The two scripts *)

\* Redis answers a command, or the process's own map does when it fails ...
StoresFor(c) == {Redis, ProcOf[c]}
FallsBack(s) ==
  \/ s = Redis /\ UNCHANGED fallbacks
  \/ s # Redis /\ fallbacks < MaxFallbacks /\ fallbacks' = fallbacks + 1

\* ... although Redis may have executed the command and only its answer was lost.
Executed(s) == IF s = Redis THEN {{Redis}} ELSE {{s}, {s, Redis}}

Goto(c, label) == pc' = [pc EXCEPT ![c] = label]

\* hitWindow: the increment, executed in the stores T and answered by s, and the
\* comparison its caller will make.
HitWindow(c, w, s, T) ==
  /\ FallsBack(s)
  /\ count'  = [k \in Counters |-> IF k[1] = w /\ k[2] \in T THEN count[k] + 1 ELSE count[k]]
  /\ within' = [within EXCEPT ![<<c, w>>] = count[<<w, s>>] + 1 <= Limit[w]]
  /\ slot'   = [slot EXCEPT ![<<c, w>>] = s]

\* A decrement of k by caller c in window w that finds no slot of c there.
Stray(c, w, k) == slot[<<c, w>>] # k[2] /\ count[k] > 0

\* Mutant of DecrementWindow: the counter is cleared.
ClearWindow(c, w, s, T) ==
  /\ FallsBack(s)
  /\ count' = [k \in Counters |-> IF k[1] = w /\ k[2] \in T THEN 0 ELSE count[k]]
  /\ stale' = [k \in Counters |-> IF k[1] = w /\ k[2] \in T /\ Stray(c, w, k)
                                  THEN stale[k] + 1 ELSE stale[k]]
  /\ slot'  = [slot EXCEPT ![<<c, w>>] = NoStore]

\* decrementWindow, clamped at zero.  It does not know which window the slot was
\* reserved in, nor in which store.
DecrementWindow(c, w, s, T) ==
  /\ FallsBack(s)
  /\ count' = [k \in Counters |-> IF k[1] = w /\ k[2] \in T /\ count[k] > 0
                                  THEN count[k] - 1 ELSE count[k]]
  /\ stale' = [k \in Counters |-> IF k[1] = w /\ k[2] \in T /\ Stray(c, w, k)
                                  THEN stale[k] + 1 ELSE stale[k]]
  /\ slot'  = [slot EXCEPT ![<<c, w>>] = NoStore]

-----------------------------------------------------------------------------
(* checkAndReserveSend *)

HitHour(c) ==
  /\ pc[c] \in {"idle", "turnedAway"}
  /\ attempts < MaxAttempts
  /\ attempts' = attempts + 1
  /\ \E s \in StoresFor(c) : \E T \in Executed(s) : HitWindow(c, "hour", s, T)
  /\ Goto(c, "hit")
  /\ UNCHANGED <<spent, stale, rolls, crashes>>

\* Mutant of Allowed: the daily answer is not looked at.
AllowedThisHour(c) == within[<<c, "hour">>]

\* Neither hourBlocked nor dayBlocked.
Allowed(c) == within[<<c, "hour">>] /\ within'[<<c, "day">>]

HitDay(c) ==
  /\ pc[c] = "hit"
  /\ \E s \in StoresFor(c) : \E T \in Executed(s) : HitWindow(c, "day", s, T)
  /\ Goto(c, IF Allowed(c) THEN "holding" ELSE "undoHour")
  /\ UNCHANGED <<spent, stale, attempts, rolls, crashes>>

Undo(c, from, w, to) ==
  /\ pc[c] = from
  /\ \E s \in StoresFor(c) : \E T \in Executed(s) : DecrementWindow(c, w, s, T)
  /\ Goto(c, to)
  /\ UNCHANGED <<within, spent, attempts, rolls, crashes>>

\* A blocked caller gives both increments back.
UndoHour(c) == Undo(c, "undoHour", "hour", "undoDay")

\* Mutant of UndoDay: only the hourly increment is given back.
UndoDayForgotten(c) ==
  /\ pc[c] = "undoDay"
  /\ Goto(c, "turnedAway")
  /\ UNCHANGED <<count, within, slot, spent, stale, bounds>>

UndoDay(c)  == Undo(c, "undoDay", "day", "turnedAway")

-----------------------------------------------------------------------------
(* What callers do with a slot *)

\* The attempt ends for good: the slot stays consumed in the windows that count it.
Keep(c) ==
  /\ pc[c] = "holding"
  /\ spent' = [k \in Counters |-> IF slot[<<c, k[1]>>] = k[2] THEN spent[k] + 1 ELSE spent[k]]
  /\ slot'  = [x \in Callers \X Windows |-> IF x[1] = c THEN NoStore ELSE slot[x]]
  /\ Goto(c, "idle")
  /\ UNCHANGED <<count, within, stale, bounds>>

\* refundSend.
Release(c) ==
  /\ pc[c] = "holding"
  /\ Goto(c, "refundHour")
  /\ UNCHANGED <<count, within, slot, spent, stale, bounds>>

RefundHour(c) == Undo(c, "refundHour", "hour", "refundDay")
RefundDay(c)  == Undo(c, "refundDay", "day", "idle")

\* PEXPIRE, or resetAt in the process's map: a counter starts again.
Roll(k) ==
  /\ rolls < MaxRolls
  /\ rolls' = rolls + 1
  /\ count' = [count EXCEPT ![k] = 0]
  /\ spent' = [spent EXCEPT ![k] = 0]
  /\ stale' = [stale EXCEPT ![k] = 0]
  /\ slot'  = [x \in Callers \X Windows |-> IF x[2] = k[1] /\ slot[x] = k[2] THEN NoStore ELSE slot[x]]
  /\ UNCHANGED <<pc, within, attempts, crashes, fallbacks>>

\* Process p stops: its callers leave their increments behind in Redis, and its
\* own map is empty when it starts again.
Crash(p) ==
  /\ crashes < MaxCrashes
  /\ crashes' = crashes + 1
  /\ pc'    = [c \in Callers |-> IF ProcOf[c] = p THEN "idle" ELSE pc[c]]
  /\ slot'  = [x \in Callers \X Windows |-> IF ProcOf[x[1]] = p THEN NoStore ELSE slot[x]]
  /\ count' = [k \in Counters |-> IF k[2] = p THEN 0 ELSE count[k]]
  /\ spent' = [k \in Counters |-> IF k[2] = p THEN 0 ELSE spent[k]]
  /\ stale' = [k \in Counters |-> IF k[2] = p THEN 0 ELSE stale[k]]
  /\ UNCHANGED <<within, attempts, rolls, fallbacks>>

Next ==
  \/ \E c \in Callers :
       \/ HitHour(c) \/ HitDay(c) \/ UndoHour(c) \/ UndoDay(c)
       \/ Keep(c) \/ Release(c) \/ RefundHour(c) \/ RefundDay(c)
  \/ \E k \in Counters : Roll(k)
  \/ \E p \in Procs : Crash(p)

Spec == Init /\ [][Next]_vars

-----------------------------------------------------------------------------
(* Properties *)

TypeOK ==
  /\ count  \in [Counters -> Nat]
  /\ pc     \in [Callers -> Pcs]
  /\ within \in [Callers \X Windows -> BOOLEAN]
  /\ slot   \in [Callers \X Windows -> Stores \cup {NoStore}]
  /\ spent  \in [Counters -> Nat]
  /\ stale  \in [Counters -> Nat]
  /\ attempts \in 0..MaxAttempts
  /\ rolls    \in 0..MaxRolls
  /\ crashes  \in 0..MaxCrashes
  /\ fallbacks \in 0..MaxFallbacks

Counted(k)    == {c \in Callers : slot[<<c, k[1]>>] = k[2]}
Authorised(k) == {c \in Counted(k) : within[<<c, k[1]>>]}

\* Sends the running window of k has let through: kept, or in progress.
Live(k) == spent[k] + Cardinality(Authorised(k))

\* No increment is lost: a counter is below the slots its window has handed out
\* only by the decrements of callers it does not count.
Conserved == \A k \in Counters : spent[k] + Cardinality(Counted(k)) <= count[k] + stale[k]

\* The ceiling holds however callers, expiries and Redis failures interleave, up
\* to the decrements that came from another window or another store.
CeilingUpToStale == \A k \in Counters : Live(k) <= Limit[k[1]] + stale[k]

\* Only a caller both of whose counts were in the limit goes on to send.
HoldersWithin ==
  \A c \in Callers : pc[c] = "holding" => \A w \in Windows : within[<<c, w>>]

\* The map of a process counts only callers of that process.
OwnStore ==
  \A c \in Callers, w \in Windows : slot[<<c, w>>] \in {NoStore, Redis, ProcOf[c]}

\* Together these hold initially and are preserved by every step.
RateInv == TypeOK /\ OwnStore /\ HoldersWithin /\ Conserved /\ CeilingUpToStale

\* "We refund whichever didn't actually authorize a send" (send-rate-limit.ts:116):
\* while no counter expires and Redis answers, no window lets more sends through
\* than its limit, processes may crash or not; and unless one crashes, the counters
\* show the kept sends and nothing else whenever no call is in progress.
Answered    == rolls = 0 /\ fallbacks = 0
Undisturbed == Answered /\ crashes = 0
QuietExact ==
  /\ Answered => \A k \in Counters : Live(k) <= Limit[k[1]]
  /\ Undisturbed /\ (\A c \in Callers : pc[c] \in {"idle", "turnedAway"})
       => \A k \in Counters : count[k] = spent[k]

-----------------------------------------------------------------------------
(* Why a quiet limiter is exact *)

\* The places of a call at which its increment of window w is outstanding.
Outstanding(w) ==
  IF w = "hour" THEN {"hit", "holding", "undoHour", "refundHour"}
  ELSE {"holding", "undoHour", "undoDay", "refundHour", "refundDay"}

\* A caller holds a slot in Redis exactly while its increment is outstanding ...
SlotsWhereCalled ==
  \A c \in Callers, w \in Windows :
    slot[<<c, w>>] = IF pc[c] \in Outstanding(w) THEN Redis ELSE NoStore

\* ... so no decrement misses its slot, and a counter is the sum of its slots.
NothingStray    == \A k \in Counters : stale[k] = 0
CountsExplained == \A k \in Counters : count[k] = spent[k] + Cardinality(Counted(k))

\* Together these are preserved by every step from a type-correct state.
QuietInv ==
  /\ Answered => SlotsWhereCalled /\ NothingStray
  /\ Undisturbed => CountsExplained
=============================================================================
