------------------------- MODULE SendRateLimitProofs -------------------------
(***************************************************************************)
(* The send ceiling for every number of callers and processes, every pair  *)
(* of limits, and any interleaving of expiries, crashes and Redis failures: *)
(* a counter never loses a slot (Conserved), so it never authorises more   *)
(* than its limit and the stray decrements it has suffered.                *)
(***************************************************************************)
EXTENDS SendRateLimit, FiniteSetTheorems, TLAPS

-----------------------------------------------------------------------------
(* Sizes of sets of callers *)

\* A set of callers with at most one newcomer has at most one element more.
LEMMA GrowsByOne ==
  ASSUME NEW S \in SUBSET Callers, NEW T, NEW c, T \subseteq S \cup {c}
  PROVE  Cardinality(S) \in Nat /\ Cardinality(T) \in Nat /\ Cardinality(T) <= Cardinality(S) + 1
<1>1. IsFiniteSet(S)
  BY FS_Subset, LimitsAssumption
<1>2. IsFiniteSet(S \cup {c}) /\ Cardinality(S \cup {c}) <= Cardinality(S) + 1
      /\ Cardinality(S) \in Nat /\ Cardinality(S \cup {c}) \in Nat
  BY <1>1, FS_AddElement, FS_CardinalityType
<1>3. Cardinality(T) <= Cardinality(S \cup {c}) /\ IsFiniteSet(T)
  BY <1>2, FS_Subset
<1> QED
  BY <1>2, <1>3, FS_CardinalityType

\* A subset is no larger.
LEMMA Shrinks ==
  ASSUME NEW S \in SUBSET Callers, NEW T, T \subseteq S
  PROVE  Cardinality(S) \in Nat /\ Cardinality(T) \in Nat /\ Cardinality(T) <= Cardinality(S)
  BY FS_Subset, FS_CardinalityType, LimitsAssumption

\* A subset that misses an element is smaller.
LEMMA ShrinksByOne ==
  ASSUME NEW S \in SUBSET Callers, NEW c \in S, NEW T, T \subseteq S \ {c}
  PROVE  Cardinality(S) \in Nat /\ Cardinality(T) \in Nat /\ Cardinality(T) + 1 <= Cardinality(S)
<1>1. IsFiniteSet(S)
  BY FS_Subset, LimitsAssumption
<1>2. IsFiniteSet(S \ {c}) /\ Cardinality(S \ {c}) = Cardinality(S) - 1
  BY <1>1, FS_RemoveElement
<1>3. Cardinality(T) <= Cardinality(S \ {c}) /\ IsFiniteSet(T)
  BY <1>2, FS_Subset
<1> QED
  BY <1>1, <1>2, <1>3, FS_CardinalityType

\* What the numbers of one counter are.
LEMMA CounterTypes ==
  ASSUME TypeOK, NEW k \in Counters
  PROVE  /\ count[k] \in Nat /\ spent[k] \in Nat /\ stale[k] \in Nat
         /\ Limit[k[1]] \in Nat
         /\ Counted(k) \in SUBSET Callers /\ Authorised(k) \in SUBSET Callers
         /\ Authorised(k) \subseteq Counted(k)
         /\ Cardinality(Counted(k)) \in Nat /\ Cardinality(Authorised(k)) \in Nat
<1>1. /\ Counted(k) \in SUBSET Callers /\ Authorised(k) \in SUBSET Callers
      /\ Authorised(k) \subseteq Counted(k)
  BY DEF Counted, Authorised
<1>2. count[k] \in Nat /\ spent[k] \in Nat /\ stale[k] \in Nat /\ Limit[k[1]] \in Nat
  BY LimitsAssumption DEF TypeOK, Counters
<1> QED
  BY <1>1, <1>2, Shrinks

\* The ceiling and the conservation of one counter.
CounterHolds(k) ==
  /\ spent[k] + Cardinality(Counted(k)) <= count[k] + stale[k]
  /\ spent[k] + Cardinality(Authorised(k)) <= Limit[k[1]] + stale[k]

\* A counter that does not fall keeps both when its slots only disappear.
LEMMA CounterRests ==
  ASSUME TypeOK, NEW k \in Counters, CounterHolds(k),
         count'[k] \in Nat, count'[k] >= count[k], spent'[k] = spent[k], stale'[k] = stale[k],
         Counted(k)' \subseteq Counted(k), Authorised(k)' \subseteq Authorised(k)
  PROVE  CounterHolds(k)'
<1>1. Cardinality(Counted(k)') <= Cardinality(Counted(k)) /\ Cardinality(Counted(k)') \in Nat
  BY CounterTypes, Shrinks
<1>2. Cardinality(Authorised(k)') <= Cardinality(Authorised(k)) /\ Cardinality(Authorised(k)') \in Nat
  BY CounterTypes, Shrinks
<1> QED
  BY <1>1, <1>2, CounterTypes DEF CounterHolds

-----------------------------------------------------------------------------
(* The two scripts *)

\* Both scripts change one counter and one caller's slot in it.
LEMMA HitHolds ==
  ASSUME TypeOK, NEW c \in Callers, NEW w \in Windows, NEW s \in Stores, NEW T \in Executed(s),
         HitWindow(c, w, s, T), UNCHANGED <<spent, stale>>, NEW k \in Counters, CounterHolds(k)
  PROVE  CounterHolds(k)'
<1>1. <<w, s>> \in Counters /\ <<c, w>> \in Callers \X Windows
  BY DEF Counters
<1>2. slot'[<<c, w>>] = s /\ \A x \in Callers \X Windows : x # <<c, w>> => slot'[x] = slot[x] /\ within'[x] = within[x]
  BY <1>1 DEF HitWindow, TypeOK
<1>3. within'[<<c, w>>] = (count[<<w, s>>] + 1 <= Limit[w])
  BY <1>1 DEF HitWindow, TypeOK
<1>4. k[1] \in Windows /\ k[2] \in Stores /\ k = <<k[1], k[2]>>
  BY DEF Counters
<1>5. \A d \in Callers : d # c \/ k[1] # w => /\ slot'[<<d, k[1]>>] = slot[<<d, k[1]>>]
                                             /\ within'[<<d, k[1]>>] = within[<<d, k[1]>>]
  BY <1>2, <1>4
<1>6. CASE k = <<w, s>>
  <2>1. count'[k] = count[k] + 1
    BY <1>6 DEF HitWindow, Executed
  <2>2. Counted(k)' \subseteq Counted(k) \cup {c}
    BY <1>5 DEF Counted
  <2>3. Cardinality(Counted(k)') <= Cardinality(Counted(k)) + 1 /\ Cardinality(Counted(k)') \in Nat
    BY <2>2, CounterTypes, GrowsByOne
  <2>4. spent'[k] + Cardinality(Counted(k)') <= count'[k] + stale'[k]
    BY <2>1, <2>3, CounterTypes DEF CounterHolds
  <2>5. CASE count[k] + 1 <= Limit[k[1]]
    <3>1. Authorised(k)' \subseteq Counted(k)' /\ Counted(k)' \in SUBSET Callers
      BY DEF Authorised, Counted
    <3>2. Cardinality(Authorised(k)') <= Cardinality(Counted(k)') /\ Cardinality(Authorised(k)') \in Nat
      BY <3>1, Shrinks
    <3> QED
      BY <2>1, <2>3, <2>4, <2>5, <3>2, CounterTypes DEF CounterHolds
  <2>6. CASE ~(count[k] + 1 <= Limit[k[1]])
    <3>1. Authorised(k)' \subseteq Authorised(k)
      BY <1>3, <1>5, <1>6, <2>6 DEF Authorised, Counted
    <3>2. Cardinality(Authorised(k)') <= Cardinality(Authorised(k)) /\ Cardinality(Authorised(k)') \in Nat
      BY <3>1, CounterTypes, Shrinks
    <3> QED
      BY <2>4, <3>2, CounterTypes DEF CounterHolds
  <2> QED BY <2>5, <2>6
<1>7. CASE k # <<w, s>>
  <2>1. count'[k] \in Nat /\ count'[k] >= count[k]
    BY DEF HitWindow, TypeOK
  <2>2. Counted(k)' \subseteq Counted(k) /\ Authorised(k)' \subseteq Authorised(k)
    BY <1>2, <1>4, <1>5, <1>7 DEF Counted, Authorised
  <2> QED
    BY <2>1, <2>2, CounterRests
<1> QED BY <1>6, <1>7

\* A decrement takes back a slot its window counts, or is recorded as stray.
LEMMA DecrementHolds ==
  ASSUME TypeOK, NEW c \in Callers, NEW w \in Windows, NEW s \in Stores, NEW T \in Executed(s),
         DecrementWindow(c, w, s, T), UNCHANGED <<within, spent>>, NEW k \in Counters, CounterHolds(k)
  PROVE  CounterHolds(k)'
<1>1. <<w, s>> \in Counters /\ <<c, w>> \in Callers \X Windows
  BY DEF Counters
<1>2. slot'[<<c, w>>] = NoStore /\ \A x \in Callers \X Windows : x # <<c, w>> => slot'[x] = slot[x]
  BY <1>1 DEF DecrementWindow, TypeOK
<1>3. k[1] \in Windows /\ k[2] \in Stores /\ k = <<k[1], k[2]>> /\ NoStore # k[2]
  BY LimitsAssumption DEF Counters
<1>4. Counted(k)' \subseteq Counted(k) /\ Authorised(k)' \subseteq Authorised(k)
  BY <1>2, <1>3 DEF Counted, Authorised
<1>5. /\ Cardinality(Counted(k)') <= Cardinality(Counted(k)) /\ Cardinality(Counted(k)') \in Nat
      /\ Cardinality(Authorised(k)') <= Cardinality(Authorised(k)) /\ Cardinality(Authorised(k)') \in Nat
  BY <1>4, CounterTypes, Shrinks
<1>6. CASE k[1] = w /\ k[2] \in T
  <2>1. /\ count'[k] = IF count[k] > 0 THEN count[k] - 1 ELSE count[k]
        /\ stale'[k] = IF slot[<<c, w>>] # k[2] /\ count[k] > 0 THEN stale[k] + 1 ELSE stale[k]
    BY <1>6 DEF DecrementWindow, Stray
  <2>2. CASE slot[<<c, w>>] = k[2]
    <3>1. c \in Counted(k) /\ Counted(k)' \subseteq Counted(k) \ {c}
      BY <1>2, <1>3, <1>4, <1>6, <2>2 DEF Counted
    <3>2. Cardinality(Counted(k)') + 1 <= Cardinality(Counted(k))
      BY <3>1, CounterTypes, ShrinksByOne
    <3> QED
      BY <1>5, <2>1, <2>2, <3>2, CounterTypes DEF CounterHolds
  <2>3. CASE slot[<<c, w>>] # k[2]
    BY <1>5, <2>1, <2>3, CounterTypes DEF CounterHolds
  <2> QED BY <2>2, <2>3
<1>7. CASE ~(k[1] = w /\ k[2] \in T)
  <2>1. count'[k] = count[k] /\ stale'[k] = stale[k]
    BY <1>7 DEF DecrementWindow
  <2> QED
    BY <1>4, <2>1, CounterTypes, CounterRests
<1> QED BY <1>6, <1>7

-----------------------------------------------------------------------------
(* The other steps of a counter *)

\* Keeping a send moves it from the slots in progress to the spent ones.
LEMMA KeepHolds ==
  ASSUME TypeOK, HoldersWithin, NEW c \in Callers, Keep(c), NEW k \in Counters, CounterHolds(k)
  PROVE  CounterHolds(k)'
<1>1. k[1] \in Windows /\ k[2] \in Stores /\ NoStore # k[2]
  BY LimitsAssumption DEF Counters
<1>2. UNCHANGED <<count, stale, within>>
  BY DEF Keep
<1>3. \A d \in Callers : slot'[<<d, k[1]>>] = IF d = c THEN NoStore ELSE slot[<<d, k[1]>>]
  BY <1>1 DEF Keep
<1>4. Counted(k)' \subseteq Counted(k) \ {c} /\ Authorised(k)' \subseteq Authorised(k) \ {c}
  BY <1>1, <1>2, <1>3 DEF Counted, Authorised
<1>5. CASE slot[<<c, k[1]>>] = k[2]
  <2>1. spent'[k] = spent[k] + 1
    BY <1>5 DEF Keep
  <2>2. c \in Counted(k) /\ c \in Authorised(k)
    BY <1>1, <1>5 DEF Counted, Authorised, Keep, HoldersWithin
  <2>3. /\ Cardinality(Counted(k)') + 1 <= Cardinality(Counted(k))
        /\ Cardinality(Authorised(k)') + 1 <= Cardinality(Authorised(k))
        /\ Cardinality(Counted(k)') \in Nat /\ Cardinality(Authorised(k)') \in Nat
    BY <1>4, <2>2, CounterTypes, ShrinksByOne
  <2> QED
    BY <1>2, <2>1, <2>3, CounterTypes DEF CounterHolds
<1>6. CASE slot[<<c, k[1]>>] # k[2]
  <2>1. spent'[k] = spent[k]
    BY <1>6 DEF Keep
  <2> QED
    BY <1>2, <1>4, <2>1, CounterTypes, CounterRests
<1> QED BY <1>5, <1>6

\* A counter that starts again holds nothing.
LEMMA EmptyHolds ==
  ASSUME NEW k \in Counters, count'[k] = 0, spent'[k] = 0, stale'[k] = 0,
         \A c \in Callers : slot'[<<c, k[1]>>] # k[2]
  PROVE  CounterHolds(k)'
<1>1. Counted(k)' = {} /\ Authorised(k)' = {}
  BY DEF Counted, Authorised
<1>2. Limit[k[1]] \in Nat
  BY LimitsAssumption DEF Counters
<1> QED
  BY <1>1, <1>2, FS_EmptySet DEF CounterHolds

\* Expiry empties one counter and leaves the others as they are.
LEMMA RollHolds ==
  ASSUME TypeOK, NEW j \in Counters, Roll(j), NEW k \in Counters, CounterHolds(k)
  PROVE  CounterHolds(k)'
<1>1. /\ k[1] \in Windows /\ k[2] \in Stores /\ NoStore # k[2] /\ k = <<k[1], k[2]>>
      /\ j = <<j[1], j[2]>>
  BY LimitsAssumption DEF Counters
<1>2. \A d \in Callers : slot'[<<d, k[1]>>] = IF k[1] = j[1] /\ slot[<<d, k[1]>>] = j[2]
                                           THEN NoStore ELSE slot[<<d, k[1]>>]
  BY <1>1 DEF Roll
<1>3. CASE k = j
  <2>1. count'[k] = 0 /\ spent'[k] = 0 /\ stale'[k] = 0
    BY <1>3 DEF Roll, TypeOK
  <2>2. \A d \in Callers : slot'[<<d, k[1]>>] # k[2]
    BY <1>1, <1>2, <1>3
  <2> QED
    BY <2>1, <2>2, EmptyHolds
<1>4. CASE k # j
  <2>1. count'[k] = count[k] /\ spent'[k] = spent[k] /\ stale'[k] = stale[k]
    BY <1>4 DEF Roll, TypeOK
  <2>2. Counted(k)' \subseteq Counted(k) /\ Authorised(k)' \subseteq Authorised(k)
    BY <1>1, <1>2 DEF Roll, Counted, Authorised
  <2> QED
    BY <2>1, <2>2, CounterTypes, CounterRests
<1> QED BY <1>3, <1>4

\* A crash empties the counters of its process and only loses slots elsewhere.
LEMMA CrashHolds ==
  ASSUME TypeOK, OwnStore, NEW p \in Procs, Crash(p), NEW k \in Counters, CounterHolds(k)
  PROVE  CounterHolds(k)'
<1>1. k[1] \in Windows /\ k[2] \in Stores /\ NoStore # k[2] /\ p # Redis /\ p # NoStore
  BY LimitsAssumption DEF Counters, Stores
<1>2. \A d \in Callers : slot'[<<d, k[1]>>] = IF ProcOf[d] = p THEN NoStore ELSE slot[<<d, k[1]>>]
  BY <1>1 DEF Crash
<1>3. CASE k[2] = p
  <2>1. count'[k] = 0 /\ spent'[k] = 0 /\ stale'[k] = 0
    BY <1>3 DEF Crash
  <2>2. \A d \in Callers : slot'[<<d, k[1]>>] # k[2]
    BY <1>1, <1>2, <1>3 DEF OwnStore
  <2> QED
    BY <2>1, <2>2, EmptyHolds
<1>4. CASE k[2] # p
  <2>1. count'[k] = count[k] /\ spent'[k] = spent[k] /\ stale'[k] = stale[k]
    BY <1>4 DEF Crash
  <2>2. Counted(k)' \subseteq Counted(k) /\ Authorised(k)' \subseteq Authorised(k)
    BY <1>1, <1>2 DEF Crash, Counted, Authorised
  <2> QED
    BY <2>1, <2>2, CounterTypes, CounterRests
<1> QED BY <1>3, <1>4

-----------------------------------------------------------------------------
(* The invariant *)

\* Every step keeps every variable in its type.
LEMMA RateTypeStep ==
  ASSUME TypeOK, [Next]_vars
  PROVE  TypeOK'
<1> USE LimitsAssumption DEF TypeOK, bounds
<1>1. ASSUME NEW c \in Callers PROVE StoresFor(c) \subseteq Stores
  BY DEF StoresFor, Stores
<1>2. ASSUME NEW c \in Callers, NEW w \in Windows, NEW s \in Stores, NEW T \in Executed(s),
             HitWindow(c, w, s, T)
      PROVE  /\ fallbacks' \in 0..MaxFallbacks
             /\ count' \in [Counters -> Nat]
             /\ within' \in [Callers \X Windows -> BOOLEAN]
             /\ slot' \in [Callers \X Windows -> Stores \cup {NoStore}]
  <2>1. <<w, s>> \in Counters
    BY DEF Counters
  <2>2. (count[<<w, s>>] + 1 <= Limit[w]) \in BOOLEAN
    OBVIOUS
  <2> QED
    BY <1>2, <2>1, <2>2 DEF HitWindow, FallsBack
<1>3. ASSUME NEW c \in Callers, NEW w \in Windows, NEW s \in Stores, NEW T \in Executed(s),
             DecrementWindow(c, w, s, T)
      PROVE  /\ fallbacks' \in 0..MaxFallbacks
             /\ count' \in [Counters -> Nat]
             /\ stale' \in [Counters -> Nat]
             /\ slot' \in [Callers \X Windows -> Stores \cup {NoStore}]
  <2>1. <<w, s>> \in Counters
    BY DEF Counters
  <2> QED
    BY <1>3, <2>1 DEF DecrementWindow, FallsBack
<1>4. ASSUME NEW c \in Callers, NEW label \in Pcs, Goto(c, label) PROVE pc' \in [Callers -> Pcs]
  BY <1>4 DEF Goto
<1>5. ASSUME NEW c \in Callers, HitHour(c) PROVE TypeOK'
  <2>1. PICK s \in Stores : \E T \in Executed(s) : HitWindow(c, "hour", s, T)
    BY <1>1, <1>5 DEF HitHour
  <2>2. "hour" \in Windows /\ "hit" \in Pcs
    BY DEF Windows, Pcs
  <2> QED
    BY <1>2, <1>4, <1>5, <2>1, <2>2 DEF HitHour
<1>6. ASSUME NEW c \in Callers, HitDay(c) PROVE TypeOK'
  <2>1. PICK s \in Stores : \E T \in Executed(s) : HitWindow(c, "day", s, T)
    BY <1>1, <1>6 DEF HitDay
  <2>2. "day" \in Windows /\ (IF Allowed(c) THEN "holding" ELSE "undoHour") \in Pcs
    BY DEF Windows, Pcs
  <2> QED
    BY <1>2, <1>4, <1>6, <2>1, <2>2 DEF HitDay
<1>7. ASSUME NEW c \in Callers, NEW from, NEW w \in Windows, NEW to \in Pcs, Undo(c, from, w, to)
      PROVE  TypeOK'
  <2>1. PICK s \in Stores : \E T \in Executed(s) : DecrementWindow(c, w, s, T)
    BY <1>1, <1>7 DEF Undo
  <2> QED
    BY <1>3, <1>4, <1>7, <2>1 DEF Undo
<1>8. ASSUME NEW c \in Callers, UndoHour(c) \/ UndoDay(c) \/ RefundHour(c) \/ RefundDay(c)
      PROVE  TypeOK'
  BY <1>7, <1>8 DEF UndoHour, UndoDay, RefundHour, RefundDay, Windows, Pcs
<1>9. ASSUME NEW c \in Callers, Keep(c) PROVE TypeOK'
  BY <1>4, <1>9 DEF Keep, Pcs
<1>10. ASSUME NEW c \in Callers, Release(c) PROVE TypeOK'
  BY <1>4, <1>10 DEF Release, Pcs
<1>11. ASSUME NEW k \in Counters, Roll(k) PROVE TypeOK'
  BY <1>11 DEF Roll
<1>12. ASSUME NEW p \in Procs, Crash(p) PROVE TypeOK'
  BY <1>12 DEF Crash, Pcs
<1>13. ASSUME UNCHANGED vars PROVE TypeOK'
  BY <1>13 DEF vars, bounds
<1> QED
  BY <1>5, <1>6, <1>8, <1>9, <1>10, <1>11, <1>12, <1>13 DEF Next

\* Every step keeps each process's map to its own callers.
LEMMA OwnStoreStep ==
  ASSUME TypeOK, OwnStore, [Next]_vars
  PROVE  OwnStore'
<1>1. ASSUME NEW c \in Callers, NEW w \in Windows, NEW s,
             s \in {NoStore, Redis, ProcOf[c]}, slot' = [slot EXCEPT ![<<c, w>>] = s]
      PROVE  OwnStore'
  BY <1>1 DEF OwnStore, TypeOK
<1>2. ASSUME NEW c \in Callers, HitHour(c) PROVE OwnStore'
  <2>1. PICK s \in StoresFor(c) : slot' = [slot EXCEPT ![<<c, "hour">>] = s]
    BY <1>2 DEF HitHour, HitWindow
  <2> QED
    BY <1>1, <2>1 DEF StoresFor, Windows
<1>3. ASSUME NEW c \in Callers, HitDay(c) PROVE OwnStore'
  <2>1. PICK s \in StoresFor(c) : slot' = [slot EXCEPT ![<<c, "day">>] = s]
    BY <1>3 DEF HitDay, HitWindow
  <2> QED
    BY <1>1, <2>1 DEF StoresFor, Windows
<1>4. ASSUME NEW c \in Callers, NEW from, NEW w \in Windows, NEW to, Undo(c, from, w, to) PROVE OwnStore'
  BY <1>1, <1>4 DEF Undo, DecrementWindow
<1>5. ASSUME NEW c \in Callers, UndoHour(c) \/ UndoDay(c) \/ RefundHour(c) \/ RefundDay(c) PROVE OwnStore'
  BY <1>4, <1>5 DEF UndoHour, UndoDay, RefundHour, RefundDay, Windows
<1>6. ASSUME NEW c \in Callers, Keep(c) PROVE OwnStore'
  BY <1>6 DEF Keep, OwnStore
<1>7. ASSUME NEW c \in Callers, Release(c) PROVE OwnStore'
  BY <1>7 DEF Release, OwnStore
<1>8. ASSUME NEW k \in Counters, Roll(k) PROVE OwnStore'
  BY <1>8 DEF Roll, OwnStore
<1>9. ASSUME NEW p \in Procs, Crash(p) PROVE OwnStore'
  BY <1>9 DEF Crash, OwnStore
<1>10. ASSUME UNCHANGED vars PROVE OwnStore'
  BY <1>10 DEF vars, bounds, OwnStore
<1> QED
  BY <1>2, <1>3, <1>5, <1>6, <1>7, <1>8, <1>9, <1>10 DEF Next

\* Every step lets only callers within both limits go on to send.
LEMMA HoldersStep ==
  ASSUME TypeOK, HoldersWithin, [Next]_vars
  PROVE  HoldersWithin'
<1>1. ASSUME NEW c \in Callers, NEW label, Goto(c, label), label # "holding",
             \A d \in Callers, w \in Windows : d # c => within'[<<d, w>>] = within[<<d, w>>]
      PROVE  HoldersWithin'
  BY <1>1 DEF Goto, HoldersWithin, TypeOK
<1>2. ASSUME NEW c \in Callers, NEW w \in Windows, NEW s, NEW T, HitWindow(c, w, s, T)
      PROVE  \A x \in Callers \X Windows : x # <<c, w>> => within'[x] = within[x]
  BY <1>2 DEF HitWindow, TypeOK
<1>3. ASSUME NEW c \in Callers, HitHour(c) PROVE HoldersWithin'
  <2>1. \A d \in Callers, w \in Windows : d # c => within'[<<d, w>>] = within[<<d, w>>]
    BY <1>2, <1>3 DEF HitHour, Windows
  <2> QED
    BY <1>1, <1>3, <2>1 DEF HitHour
<1>4. ASSUME NEW c \in Callers, HitDay(c) PROVE HoldersWithin'
  <2>1. \A x \in Callers \X Windows : x # <<c, "day">> => within'[x] = within[x]
    BY <1>2, <1>4 DEF HitDay, Windows
  <2>2. CASE Allowed(c)
    <3>1. within'[<<c, "hour">>] /\ within'[<<c, "day">>]
      BY <2>1, <2>2 DEF Allowed, Windows
    <3>2. \A d \in Callers : d # c => pc'[d] = pc[d]
      BY <1>4 DEF HitDay, Goto, TypeOK
    <3> QED
      BY <2>1, <3>1, <3>2 DEF HoldersWithin, Windows
  <2>3. CASE ~Allowed(c)
    BY <1>1, <1>4, <2>1, <2>3 DEF HitDay
  <2> QED BY <2>2, <2>3
<1>5. ASSUME NEW c \in Callers, UndoHour(c) \/ UndoDay(c) \/ RefundHour(c) \/ RefundDay(c) PROVE HoldersWithin'
  BY <1>1, <1>5 DEF UndoHour, UndoDay, RefundHour, RefundDay, Undo
<1>6. ASSUME NEW c \in Callers, Keep(c) \/ Release(c) PROVE HoldersWithin'
  BY <1>1, <1>6 DEF Keep, Release
<1>7. ASSUME NEW k \in Counters, Roll(k) PROVE HoldersWithin'
  BY <1>7 DEF Roll, HoldersWithin
<1>8. ASSUME NEW p \in Procs, Crash(p) PROVE HoldersWithin'
  BY <1>8 DEF Crash, HoldersWithin
<1>9. ASSUME UNCHANGED vars PROVE HoldersWithin'
  BY <1>9 DEF vars, bounds, HoldersWithin
<1> QED
  BY <1>3, <1>4, <1>5, <1>6, <1>7, <1>8, <1>9 DEF Next

\* Every step keeps every counter's conservation and ceiling.
LEMMA CounterStep ==
  ASSUME TypeOK, OwnStore, HoldersWithin, [Next]_vars, NEW k \in Counters, CounterHolds(k)
  PROVE  CounterHolds(k)'
<1>1. ASSUME NEW c \in Callers PROVE StoresFor(c) \subseteq Stores
  BY LimitsAssumption DEF StoresFor, Stores
<1>2. ASSUME NEW c \in Callers, HitHour(c) PROVE CounterHolds(k)'
  BY <1>1, <1>2, HitHolds DEF HitHour, Windows
<1>3. ASSUME NEW c \in Callers, HitDay(c) PROVE CounterHolds(k)'
  BY <1>1, <1>3, HitHolds DEF HitDay, Windows
<1>4. ASSUME NEW c \in Callers, UndoHour(c) \/ UndoDay(c) \/ RefundHour(c) \/ RefundDay(c)
      PROVE  CounterHolds(k)'
  <2>1. PICK w \in Windows, s \in StoresFor(c) : \E T \in Executed(s) : DecrementWindow(c, w, s, T)
    BY <1>4 DEF UndoHour, UndoDay, RefundHour, RefundDay, Undo, Windows
  <2>2. UNCHANGED <<within, spent>>
    BY <1>4 DEF UndoHour, UndoDay, RefundHour, RefundDay, Undo
  <2> QED
    BY <1>1, <2>1, <2>2, DecrementHolds
<1>5. ASSUME NEW c \in Callers, Keep(c) PROVE CounterHolds(k)'
  BY <1>5, KeepHolds
<1>6. ASSUME NEW c \in Callers, Release(c) PROVE CounterHolds(k)'
  BY <1>6 DEF Release, CounterHolds, Counted, Authorised
<1>7. ASSUME NEW j \in Counters, Roll(j) PROVE CounterHolds(k)'
  BY <1>7, RollHolds
<1>8. ASSUME NEW p \in Procs, Crash(p) PROVE CounterHolds(k)'
  BY <1>8, CrashHolds
<1>9. ASSUME UNCHANGED vars PROVE CounterHolds(k)'
  BY <1>9 DEF vars, bounds, CounterHolds, Counted, Authorised
<1> QED
  BY <1>2, <1>3, <1>4, <1>5, <1>6, <1>7, <1>8, <1>9 DEF Next

\* The invariant is the same facts counter by counter.
LEMMA InvByCounter ==
  RateInv <=> TypeOK /\ OwnStore /\ HoldersWithin /\ \A k \in Counters : CounterHolds(k)
BY DEF RateInv, Conserved, CeilingUpToStale, Live, CounterHolds

\* The counters start empty.
LEMMA RateInit ==
  ASSUME Init
  PROVE  RateInv
<1>1. TypeOK /\ OwnStore /\ HoldersWithin
  BY LimitsAssumption DEF Init, TypeOK, OwnStore, HoldersWithin, Pcs
<1>2. ASSUME NEW k \in Counters PROVE CounterHolds(k)
  <2>1. Counted(k) = {} /\ Authorised(k) = {}
    BY LimitsAssumption DEF Init, Counted, Authorised, Counters
  <2>2. count[k] = 0 /\ spent[k] = 0 /\ stale[k] = 0 /\ Limit[k[1]] \in Nat
    BY LimitsAssumption DEF Init, Counters
  <2> QED
    BY <2>1, <2>2, FS_EmptySet DEF CounterHolds
<1> QED
  BY <1>1, <1>2, InvByCounter

-----------------------------------------------------------------------------
(* The theorems *)

\* The invariant holds throughout, whatever fails and whatever expires.
THEOREM RateInvariant == Spec => []RateInv
<1>1. Init => RateInv
  BY RateInit
<1>2. RateInv /\ [Next]_vars => RateInv'
  <2> SUFFICES ASSUME RateInv, [Next]_vars PROVE RateInv'
    OBVIOUS
  <2>1. TypeOK' /\ OwnStore' /\ HoldersWithin'
    BY RateTypeStep, OwnStoreStep, HoldersStep DEF RateInv
  <2>2. \A k \in Counters : CounterHolds(k)'
    BY CounterStep, InvByCounter
  <2> QED
    BY <2>1, <2>2 DEF RateInv, Conserved, CeilingUpToStale, Live, CounterHolds
<1> QED
  BY <1>1, <1>2, PTL DEF Spec

\* No window of any store lets more sends through than its limit and the
\* decrements it received on behalf of another window or store.
THEOREM CeilingCorrect == Spec => []CeilingUpToStale
<1>1. RateInv => CeilingUpToStale
  BY DEF RateInv
<1> QED
  BY <1>1, RateInvariant, PTL


-----------------------------------------------------------------------------
(* A quiet limiter is exact *)

\* A set of callers with one newcomer, or without one of its members.
LEMMA ExactlyOne ==
  ASSUME NEW S \in SUBSET Callers, NEW c \in Callers
  PROVE  /\ Cardinality(S) \in Nat
         /\ c \notin S => Cardinality(S \cup {c}) = Cardinality(S) + 1
         /\ c \in S => Cardinality(S \ {c}) = Cardinality(S) - 1
<1>1. IsFiniteSet(S)
  BY FS_Subset, LimitsAssumption
<1> QED
  BY <1>1, FS_AddElement, FS_RemoveElement, FS_CardinalityType

\* What is answered after a step was so before, and no command fell back.
LEMMA AnsweredBefore ==
  ASSUME TypeOK, [Next]_vars, Answered'
  PROVE  /\ Answered
         /\ \A s \in Stores : FallsBack(s) => s = Redis
         /\ \A k \in Counters : ~Roll(k)
<1> USE DEF TypeOK, Answered
<1>1. ASSUME NEW s PROVE FallsBack(s) => s = Redis /\ fallbacks = 0
  BY DEF FallsBack
<1>2. ASSUME NEW k PROVE ~Roll(k)
  BY DEF Roll
<1>3. rolls = 0 /\ fallbacks = 0
  <2>1. ASSUME NEW c \in Callers, HitHour(c) \/ HitDay(c) PROVE rolls = 0 /\ fallbacks = 0
    BY <1>1, <2>1 DEF HitHour, HitDay, HitWindow
  <2>2. ASSUME NEW c \in Callers, UndoHour(c) \/ UndoDay(c) \/ RefundHour(c) \/ RefundDay(c)
        PROVE  rolls = 0 /\ fallbacks = 0
    BY <1>1, <2>2 DEF UndoHour, UndoDay, RefundHour, RefundDay, Undo, DecrementWindow
  <2>3. ASSUME NEW c \in Callers, Keep(c) \/ Release(c) PROVE rolls = 0 /\ fallbacks = 0
    BY <2>3 DEF Keep, Release, bounds
  <2>4. ASSUME NEW p \in Procs, Crash(p) PROVE rolls = 0 /\ fallbacks = 0
    BY <2>4 DEF Crash
  <2>5. ASSUME UNCHANGED vars PROVE rolls = 0 /\ fallbacks = 0
    BY <2>5 DEF vars, bounds
  <2> QED
    BY <1>2, <2>1, <2>2, <2>3, <2>4, <2>5 DEF Next
<1> QED
  BY <1>1, <1>2, <1>3

\* Nor has a process crashed before a step after which none has.
LEMMA UndisturbedBefore ==
  ASSUME TypeOK, [Next]_vars, Undisturbed'
  PROVE  Undisturbed /\ \A p \in Procs : ~Crash(p)
<1> USE DEF TypeOK, Undisturbed
<1>1. ASSUME NEW p PROVE ~Crash(p)
  BY DEF Crash
<1>2. crashes = 0
  <2>1. ASSUME NEW c \in Callers, HitHour(c) \/ HitDay(c) PROVE crashes = 0
    BY <2>1 DEF HitHour, HitDay
  <2>2. ASSUME NEW c \in Callers, UndoHour(c) \/ UndoDay(c) \/ RefundHour(c) \/ RefundDay(c)
        PROVE  crashes = 0
    BY <2>2 DEF UndoHour, UndoDay, RefundHour, RefundDay, Undo
  <2>3. ASSUME NEW c \in Callers, Keep(c) \/ Release(c) PROVE crashes = 0
    BY <2>3 DEF Keep, Release, bounds
  <2>4. ASSUME NEW k \in Counters, Roll(k) PROVE crashes = 0
    BY <2>4 DEF Roll
  <2>5. ASSUME UNCHANGED vars PROVE crashes = 0
    BY <2>5 DEF vars, bounds
  <2> QED
    BY <1>1, <2>1, <2>2, <2>3, <2>4, <2>5 DEF Next
<1> QED
  BY <1>1, <1>2, AnsweredBefore

\* A call that moves on takes or gives back the slot its new place asks for.
LEMMA CallMoves ==
  ASSUME TypeOK, SlotsWhereCalled, NEW c \in Callers, NEW to, Goto(c, to),
         NEW w \in Windows, NEW s, slot' = [slot EXCEPT ![<<c, w>>] = s],
         s = IF to \in Outstanding(w) THEN Redis ELSE NoStore,
         \A v \in Windows \ {w} : to \in Outstanding(v) <=> pc[c] \in Outstanding(v)
  PROVE  SlotsWhereCalled'
<1>1. ASSUME NEW d \in Callers, NEW v \in Windows
      PROVE  slot'[<<d, v>>] = IF pc'[d] \in Outstanding(v) THEN Redis ELSE NoStore
  <2>1. slot[<<d, v>>] = IF pc[d] \in Outstanding(v) THEN Redis ELSE NoStore
    BY DEF SlotsWhereCalled
  <2>2. pc'[d] = IF d = c THEN to ELSE pc[d]
    BY DEF Goto, TypeOK
  <2>3. slot'[<<d, v>>] = IF d = c /\ v = w THEN s ELSE slot[<<d, v>>]
    BY DEF TypeOK
  <2> QED
    BY <2>1, <2>2, <2>3
<1> QED
  BY <1>1 DEF SlotsWhereCalled

\* An increment in Redis and the slot it hands out go together.
LEMMA QuietHit ==
  ASSUME TypeOK, CountsExplained, NEW c \in Callers, NEW w \in Windows,
         HitWindow(c, w, Redis, {Redis}), UNCHANGED spent, slot[<<c, w>>] = NoStore
  PROVE  CountsExplained'
<1>1. ASSUME NEW k \in Counters
      PROVE  count'[k] = spent'[k] + Cardinality(Counted(k)')
  <2>1. count[k] = spent[k] + Cardinality(Counted(k))
    BY DEF CountsExplained
  <2>2. k[1] \in Windows /\ k[2] \in Stores /\ NoStore # k[2]
    BY LimitsAssumption DEF Counters
  <2>3. \A d \in Callers : slot'[<<d, k[1]>>] = IF d = c /\ k[1] = w THEN Redis ELSE slot[<<d, k[1]>>]
    BY <2>2 DEF HitWindow, TypeOK
  <2>4. CASE k[1] = w /\ k[2] = Redis
    <3>1. Counted(k)' = Counted(k) \cup {c} /\ c \notin Counted(k)
      BY <2>2, <2>3, <2>4 DEF Counted
    <3>2. count'[k] = count[k] + 1
      BY <2>4 DEF HitWindow
    <3> QED
      BY <2>1, <3>1, <3>2, CounterTypes, ExactlyOne
  <2>5. CASE ~(k[1] = w /\ k[2] = Redis)
    <3>1. Counted(k)' = Counted(k)
      BY <2>2, <2>3, <2>5 DEF Counted
    <3>2. count'[k] = count[k]
      BY <2>5 DEF HitWindow
    <3> QED
      BY <2>1, <3>1, <3>2
  <2> QED BY <2>4, <2>5
<1> QED
  BY <1>1 DEF CountsExplained

\* A decrement in Redis takes back a slot that Redis counts.
LEMMA QuietDecrement ==
  ASSUME TypeOK, CountsExplained, NEW c \in Callers, NEW w \in Windows,
         DecrementWindow(c, w, Redis, {Redis}), UNCHANGED spent, slot[<<c, w>>] = Redis
  PROVE  CountsExplained'
<1>1. ASSUME NEW k \in Counters
      PROVE  count'[k] = spent'[k] + Cardinality(Counted(k)')
  <2>1. count[k] = spent[k] + Cardinality(Counted(k))
    BY DEF CountsExplained
  <2>2. k[1] \in Windows /\ k[2] \in Stores /\ NoStore # k[2]
    BY LimitsAssumption DEF Counters
  <2>3. \A d \in Callers : slot'[<<d, k[1]>>] = IF d = c /\ k[1] = w THEN NoStore ELSE slot[<<d, k[1]>>]
    BY <2>2 DEF DecrementWindow, TypeOK
  <2>4. CASE k[1] = w /\ k[2] = Redis
    <3>1. Counted(k)' = Counted(k) \ {c} /\ c \in Counted(k)
      BY <2>2, <2>3, <2>4 DEF Counted
    <3>2. /\ Cardinality(Counted(k)) \in Nat /\ Cardinality(Counted(k)') \in Nat
          /\ Cardinality(Counted(k)') = Cardinality(Counted(k)) - 1
      BY <3>1, CounterTypes, ExactlyOne, Shrinks
    <3>3. count[k] > 0
      BY <2>1, <3>2, CounterTypes
    <3>4. count'[k] = count[k] - 1
      BY <2>4, <3>3 DEF DecrementWindow
    <3> QED
      BY <2>1, <3>2, <3>4, CounterTypes
  <2>5. CASE ~(k[1] = w /\ k[2] = Redis)
    <3>1. Counted(k)' = Counted(k)
      BY <2>2, <2>3, <2>5 DEF Counted
    <3>2. count'[k] = count[k]
      BY <2>5 DEF DecrementWindow
    <3> QED
      BY <2>1, <3>1, <3>2
  <2> QED BY <2>4, <2>5
<1> QED
  BY <1>1 DEF CountsExplained

\* A kept send moves from the slots in Redis to the spent ones of Redis.
LEMMA QuietKeep ==
  ASSUME TypeOK, CountsExplained, NEW c \in Callers, Keep(c)
  PROVE  CountsExplained'
<1>1. ASSUME NEW k \in Counters
      PROVE  count'[k] = spent'[k] + Cardinality(Counted(k)')
  <2>1. count[k] = spent[k] + Cardinality(Counted(k))
    BY DEF CountsExplained
  <2>2. k[1] \in Windows /\ k[2] \in Stores /\ NoStore # k[2]
    BY LimitsAssumption DEF Counters
  <2>3. \A d \in Callers : slot'[<<d, k[1]>>] = IF d = c THEN NoStore ELSE slot[<<d, k[1]>>]
    BY <2>2 DEF Keep
  <2>4. Counted(k)' = Counted(k) \ {c}
    BY <2>2, <2>3 DEF Counted
  <2>5. count' = count
    BY DEF Keep
  <2>6. spent'[k] = IF c \in Counted(k) THEN spent[k] + 1 ELSE spent[k]
    BY DEF Keep, Counted
  <2>7. CASE c \in Counted(k)
    BY <2>1, <2>4, <2>5, <2>6, <2>7, CounterTypes, ExactlyOne
  <2>8. CASE c \notin Counted(k)
    <3>1. Counted(k)' = Counted(k)
      BY <2>4, <2>8
    <3> QED
      BY <2>1, <2>5, <2>6, <2>8, <3>1
  <2> QED BY <2>7, <2>8
<1> QED
  BY <1>1 DEF CountsExplained

\* A kept send leaves no slot of its caller behind.
LEMMA KeepMoves ==
  ASSUME TypeOK, SlotsWhereCalled, NEW c \in Callers, Keep(c)
  PROVE  SlotsWhereCalled'
<1>1. ASSUME NEW d \in Callers, NEW v \in Windows
      PROVE  slot'[<<d, v>>] = IF pc'[d] \in Outstanding(v) THEN Redis ELSE NoStore
  <2>1. slot[<<d, v>>] = IF pc[d] \in Outstanding(v) THEN Redis ELSE NoStore
    BY DEF SlotsWhereCalled
  <2>2. pc'[d] = IF d = c THEN "idle" ELSE pc[d]
    BY DEF Keep, Goto, TypeOK
  <2>3. slot'[<<d, v>>] = IF d = c THEN NoStore ELSE slot[<<d, v>>]
    BY DEF Keep
  <2>4. "idle" \notin Outstanding(v)
    BY DEF Outstanding
  <2> QED
    BY <2>1, <2>2, <2>3, <2>4
<1> QED
  BY <1>1 DEF SlotsWhereCalled

\* A decrement that finds the slot of its caller in Redis is not stray.
LEMMA FoundIsNotStray ==
  ASSUME NothingStray, NEW c, NEW w, slot[<<c, w>>] = Redis, DecrementWindow(c, w, Redis, {Redis})
  PROVE  NothingStray'
  BY DEF NothingStray, DecrementWindow, Stray

\* The command of a call that Redis answers: where it acts and what it finds.
LEMMA AnsweredCalls ==
  ASSUME TypeOK, SlotsWhereCalled, \A s \in Stores : FallsBack(s) => s = Redis, NEW c \in Callers
  PROVE  /\ HitHour(c) => HitWindow(c, "hour", Redis, {Redis}) /\ slot[<<c, "hour">>] = NoStore
         /\ HitDay(c) => HitWindow(c, "day", Redis, {Redis}) /\ slot[<<c, "day">>] = NoStore
         /\ UndoHour(c) \/ RefundHour(c)
              => DecrementWindow(c, "hour", Redis, {Redis}) /\ slot[<<c, "hour">>] = Redis
         /\ UndoDay(c) \/ RefundDay(c)
              => DecrementWindow(c, "day", Redis, {Redis}) /\ slot[<<c, "day">>] = Redis
<1>1. StoresFor(c) \subseteq Stores
  BY LimitsAssumption DEF StoresFor, Stores
<1>2. ASSUME NEW w \in Windows, NEW s \in StoresFor(c), NEW T \in Executed(s), HitWindow(c, w, s, T)
      PROVE  HitWindow(c, w, Redis, {Redis})
  <2>1. s = Redis
    BY <1>1, <1>2 DEF HitWindow
  <2>2. T = {Redis}
    BY <2>1 DEF Executed
  <2> QED BY <1>2, <2>1, <2>2
<1>3. ASSUME NEW w \in Windows, NEW s \in StoresFor(c), NEW T \in Executed(s), DecrementWindow(c, w, s, T)
      PROVE  DecrementWindow(c, w, Redis, {Redis})
  <2>1. s = Redis
    BY <1>1, <1>3 DEF DecrementWindow
  <2>2. T = {Redis}
    BY <2>1 DEF Executed
  <2> QED BY <1>3, <2>1, <2>2
<1>4. "hour" \in Windows /\ "day" \in Windows
  BY DEF Windows
<1>5. ASSUME NEW w \in Windows
      PROVE  /\ pc[c] \in Outstanding(w) => slot[<<c, w>>] = Redis
             /\ pc[c] \notin Outstanding(w) => slot[<<c, w>>] = NoStore
  BY DEF SlotsWhereCalled
<1>6. /\ HitHour(c) => pc[c] \notin Outstanding("hour")
      /\ HitDay(c) => pc[c] \notin Outstanding("day")
      /\ UndoHour(c) \/ RefundHour(c) => pc[c] \in Outstanding("hour")
      /\ UndoDay(c) \/ RefundDay(c) => pc[c] \in Outstanding("day")
  BY DEF HitHour, HitDay, UndoHour, RefundHour, UndoDay, RefundDay, Undo, Outstanding
<1>7. HitHour(c) => HitWindow(c, "hour", Redis, {Redis})
  BY <1>2, <1>4 DEF HitHour
<1>8. HitDay(c) => HitWindow(c, "day", Redis, {Redis})
  BY <1>2, <1>4 DEF HitDay
<1>9. UndoHour(c) \/ RefundHour(c) => DecrementWindow(c, "hour", Redis, {Redis})
  BY <1>3, <1>4 DEF UndoHour, RefundHour, Undo
<1>10. UndoDay(c) \/ RefundDay(c) => DecrementWindow(c, "day", Redis, {Redis})
  BY <1>3, <1>4 DEF UndoDay, RefundDay, Undo
<1> QED
  BY <1>4, <1>5, <1>6, <1>7, <1>8, <1>9, <1>10

\* As long as Redis answers and nothing expires, every step leaves each slot where
\* its caller will look for it.
LEMMA AnsweredStep ==
  ASSUME TypeOK, SlotsWhereCalled, NothingStray, [Next]_vars, Answered'
  PROVE  SlotsWhereCalled' /\ NothingStray'
<1>1. \A s \in Stores : FallsBack(s) => s = Redis
  BY AnsweredBefore
<1>2. "hour" \in Windows /\ "day" \in Windows
  BY DEF Windows
<1>3. ASSUME NEW c \in Callers, HitHour(c) PROVE SlotsWhereCalled' /\ NothingStray'
  <2>1. slot' = [slot EXCEPT ![<<c, "hour">>] = Redis] /\ Goto(c, "hit") /\ UNCHANGED stale
    BY <1>1, <1>3, AnsweredCalls DEF HitHour, HitWindow
  <2>2. /\ "hit" \in Outstanding("hour")
        /\ \A v \in Windows \ {"hour"} : "hit" \notin Outstanding(v) /\ pc[c] \notin Outstanding(v)
    BY <1>3 DEF HitHour, Outstanding, Windows
  <2>3. SlotsWhereCalled'
    BY <1>2, <2>1, <2>2, CallMoves
  <2> QED BY <2>1, <2>3 DEF NothingStray
<1>4. ASSUME NEW c \in Callers, HitDay(c) PROVE SlotsWhereCalled' /\ NothingStray'
  <2>1. slot' = [slot EXCEPT ![<<c, "day">>] = Redis] /\ UNCHANGED stale
    BY <1>1, <1>4, AnsweredCalls DEF HitDay, HitWindow
  <2>2. PICK to \in {"holding", "undoHour"} : Goto(c, to)
    BY <1>4 DEF HitDay
  <2>3. /\ to \in Outstanding("day")
        /\ \A v \in Windows \ {"day"} : to \in Outstanding(v) /\ pc[c] \in Outstanding(v)
    BY <1>4, <2>2 DEF HitDay, Outstanding, Windows
  <2>4. SlotsWhereCalled'
    BY <1>2, <2>1, <2>2, <2>3, CallMoves
  <2> QED BY <2>1, <2>4 DEF NothingStray
<1>5. ASSUME NEW c \in Callers, NEW w \in Windows, NEW from, NEW to, Undo(c, from, w, to),
             DecrementWindow(c, w, Redis, {Redis}), slot[<<c, w>>] = Redis, to \notin Outstanding(w),
             \A v \in Windows \ {w} : to \in Outstanding(v) <=> from \in Outstanding(v)
      PROVE  SlotsWhereCalled' /\ NothingStray'
  <2>1. Goto(c, to) /\ pc[c] = from /\ slot' = [slot EXCEPT ![<<c, w>>] = NoStore]
    BY <1>5 DEF Undo, DecrementWindow
  <2>2. SlotsWhereCalled'
    BY <1>5, <2>1, CallMoves
  <2> QED BY <1>5, <2>2, FoundIsNotStray
<1>6. ASSUME NEW c \in Callers, UndoHour(c) \/ RefundHour(c) PROVE SlotsWhereCalled' /\ NothingStray'
  <2>1. DecrementWindow(c, "hour", Redis, {Redis}) /\ slot[<<c, "hour">>] = Redis
    BY <1>1, <1>6, AnsweredCalls
  <2> QED
    BY <1>2, <1>5, <1>6, <2>1 DEF UndoHour, RefundHour, Outstanding, Windows
<1>7. ASSUME NEW c \in Callers, UndoDay(c) \/ RefundDay(c) PROVE SlotsWhereCalled' /\ NothingStray'
  <2>1. DecrementWindow(c, "day", Redis, {Redis}) /\ slot[<<c, "day">>] = Redis
    BY <1>1, <1>7, AnsweredCalls
  <2> QED
    BY <1>2, <1>5, <1>7, <2>1 DEF UndoDay, RefundDay, Outstanding, Windows
<1>8. ASSUME NEW c \in Callers, Keep(c) PROVE SlotsWhereCalled' /\ NothingStray'
  BY <1>8, KeepMoves DEF Keep, NothingStray
<1>9. ASSUME NEW c \in Callers, Release(c) PROVE SlotsWhereCalled' /\ NothingStray'
  <2>1. ASSUME NEW d \in Callers, NEW v \in Windows
        PROVE  slot'[<<d, v>>] = IF pc'[d] \in Outstanding(v) THEN Redis ELSE NoStore
    <3>1. slot[<<d, v>>] = IF pc[d] \in Outstanding(v) THEN Redis ELSE NoStore
      BY DEF SlotsWhereCalled
    <3>2. slot' = slot /\ pc'[d] = IF d = c THEN "refundHour" ELSE pc[d]
      BY <1>9 DEF Release, Goto, TypeOK
    <3>3. pc[c] = "holding" /\ "holding" \in Outstanding(v) /\ "refundHour" \in Outstanding(v)
      BY <1>9 DEF Release, Outstanding
    <3> QED
      BY <3>1, <3>2, <3>3
  <2> QED
    BY <1>9, <2>1 DEF Release, SlotsWhereCalled, NothingStray
<1>10. ASSUME NEW p \in Procs, Crash(p) PROVE SlotsWhereCalled' /\ NothingStray'
  <2>1. ASSUME NEW d \in Callers, NEW v \in Windows
        PROVE  slot'[<<d, v>>] = IF pc'[d] \in Outstanding(v) THEN Redis ELSE NoStore
    <3>1. slot[<<d, v>>] = IF pc[d] \in Outstanding(v) THEN Redis ELSE NoStore
      BY DEF SlotsWhereCalled
    <3>2. /\ slot'[<<d, v>>] = IF ProcOf[d] = p THEN NoStore ELSE slot[<<d, v>>]
          /\ pc'[d] = IF ProcOf[d] = p THEN "idle" ELSE pc[d]
          /\ "idle" \notin Outstanding(v)
      BY <1>10 DEF Crash, Outstanding
    <3> QED
      BY <3>1, <3>2
  <2> QED
    BY <1>10, <2>1 DEF Crash, SlotsWhereCalled, NothingStray
<1>11. ASSUME UNCHANGED vars PROVE SlotsWhereCalled' /\ NothingStray'
  BY <1>11 DEF vars, SlotsWhereCalled, NothingStray
<1> QED
  BY <1>3, <1>4, <1>6, <1>7, <1>8, <1>9, <1>10, <1>11, AnsweredBefore DEF Next

\* Unless a process crashes as well, every step keeps the counters explained.
LEMMA UndisturbedStep ==
  ASSUME TypeOK, SlotsWhereCalled, CountsExplained, [Next]_vars, Undisturbed'
  PROVE  CountsExplained'
<1>1. \A s \in Stores : FallsBack(s) => s = Redis
  BY AnsweredBefore DEF Undisturbed
<1>2. "hour" \in Windows /\ "day" \in Windows
  BY DEF Windows
<1>3. ASSUME NEW c \in Callers, HitHour(c) \/ HitDay(c) PROVE CountsExplained'
  <2>1. UNCHANGED spent
    BY <1>3 DEF HitHour, HitDay
  <2> QED
    BY <1>1, <1>2, <1>3, <2>1, AnsweredCalls, QuietHit
<1>4. ASSUME NEW c \in Callers, UndoHour(c) \/ UndoDay(c) \/ RefundHour(c) \/ RefundDay(c)
      PROVE  CountsExplained'
  <2>1. UNCHANGED spent
    BY <1>4 DEF UndoHour, UndoDay, RefundHour, RefundDay, Undo
  <2> QED
    BY <1>1, <1>2, <1>4, <2>1, AnsweredCalls, QuietDecrement
<1>5. ASSUME NEW c \in Callers, Keep(c) PROVE CountsExplained'
  BY <1>5, QuietKeep
<1>6. ASSUME NEW c \in Callers, Release(c) PROVE CountsExplained'
  BY <1>6 DEF Release, CountsExplained, Counted
<1>7. ASSUME UNCHANGED vars PROVE CountsExplained'
  BY <1>7 DEF vars, CountsExplained, Counted
<1> QED
  BY <1>3, <1>4, <1>5, <1>6, <1>7, AnsweredBefore, UndisturbedBefore DEF Next, Undisturbed

\* "We refund whichever didn't actually authorize a send": as long as no counter
\* expires and Redis answers, no window exceeds its limit even if processes crash;
\* without a crash the counters are back at the kept sends between calls.
THEOREM QuietCorrect == Spec => []QuietExact
<1>1. Init => QuietInv
  <2> SUFFICES ASSUME Init PROVE SlotsWhereCalled /\ NothingStray /\ CountsExplained
    BY DEF QuietInv
  <2>1. SlotsWhereCalled /\ NothingStray
    BY DEF Init, SlotsWhereCalled, NothingStray, Outstanding
  <2>2. ASSUME NEW k \in Counters PROVE count[k] = spent[k] + Cardinality(Counted(k))
    <3>1. Counted(k) = {}
      BY LimitsAssumption DEF Init, Counted, Counters
    <3>2. count[k] = 0 /\ spent[k] = 0
      BY DEF Init
    <3> QED
      BY <3>1, <3>2, FS_EmptySet
  <2> QED
    BY <2>1, <2>2 DEF CountsExplained
<1>2. RateInv /\ QuietInv /\ [Next]_vars => QuietInv'
  <2> SUFFICES ASSUME RateInv, QuietInv, [Next]_vars PROVE QuietInv'
    OBVIOUS
  <2>1. TypeOK
    BY DEF RateInv
  <2>2. Answered' => SlotsWhereCalled' /\ NothingStray'
    BY <2>1, AnsweredBefore, AnsweredStep DEF QuietInv
  <2>3. Undisturbed' => CountsExplained'
    BY <2>1, UndisturbedBefore, UndisturbedStep DEF QuietInv, Undisturbed
  <2> QED
    BY <2>2, <2>3 DEF QuietInv
<1>3. ASSUME RateInv, QuietInv PROVE QuietExact
  <2>1. TypeOK
    BY <1>3 DEF RateInv
  <2>2. ASSUME Answered, NEW k \in Counters PROVE Live(k) <= Limit[k[1]]
    <3>1. stale[k] = 0 /\ Live(k) <= Limit[k[1]] + stale[k]
      BY <1>3, <2>2 DEF QuietInv, NothingStray, RateInv, CeilingUpToStale
    <3> QED
      BY <2>1, <3>1, CounterTypes
  <2>3. ASSUME Undisturbed, \A c \in Callers : pc[c] \in {"idle", "turnedAway"}, NEW k \in Counters
        PROVE  count[k] = spent[k]
    <3>1. k[1] \in Windows /\ NoStore # k[2]
      BY LimitsAssumption DEF Counters
    <3>2. \A c \in Callers : slot[<<c, k[1]>>] = NoStore
      BY <1>3, <2>3, <3>1 DEF QuietInv, Undisturbed, SlotsWhereCalled, Outstanding
    <3>3. Counted(k) = {}
      BY <3>1, <3>2 DEF Counted
    <3>4. count[k] = spent[k] + Cardinality(Counted(k))
      BY <1>3, <2>3 DEF QuietInv, CountsExplained
    <3> QED
      BY <2>1, <3>3, <3>4, CounterTypes, FS_EmptySet
  <2> QED
    BY <2>2, <2>3 DEF QuietExact
<1> QED
  BY <1>1, <1>2, <1>3, RateInvariant, PTL DEF Spec
=============================================================================
