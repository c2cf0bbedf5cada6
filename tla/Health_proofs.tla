----------------------------- MODULE Health_proofs -----------------------------
(***************************************************************************)
(* Proofs about Health: types, that no probe leaves its entry behind, and  *)
(* that none reports the cache as down without a cause.                    *)
(***************************************************************************)
EXTENDS Health, TLAPS

-----------------------------------------------------------------------------
(* The inductive invariant *)

\* What a probe has stored is still there when it asks for it, if no other probe came
\* in between; and what it gets is what it has stored, if it did not ask too late.
EntriesHold ==
    \A p \in Probes : kind[p] # None =>
        /\ InRedis(p) => testValue[p] <= now
        /\ redis[p] = "get" =>
              \/ disturbed[p]
              \/ /\ entry # None /\ entry.by = p /\ entry.value = testValue[p]
                 /\ entry.until >= testValue[p] + Ttl
        /\ redis[p] = "del" =>
              retrieved[p] \/ disturbed[p] \/ now >= testValue[p] + Ttl

\* In memory a probe is alone with the cache, and done in one tick.
MemoryAlone ==
    store = "memory" => \A p \in Probes : InRedis(p) =>
        /\ testValue[p] = now
        /\ \A q \in Probes : InRedis(q) => q = p
        /\ redis[p] \in {"get", "del"} => ~disturbed[p]

HealthInv ==
    /\ HealthTypeOK
    /\ EntryCleared
    /\ EntriesHold
    /\ MemoryAlone

-----------------------------------------------------------------------------

LEMMA NowType ==
    ASSUME HealthTypeOK
    PROVE  now \in Nat /\ now <= MaxNow
<1>1. now \in 0 .. MaxNow
  BY DEF HealthTypeOK
<1> QED
  BY <1>1, TimesAssumption

LEMMA InitHealth == Init => HealthInv
BY TimesAssumption
DEF Init, HealthInv, HealthTypeOK, EntryCleared, EntriesHold, MemoryAlone, InRedis

\* A probe starts, and in memory alone.
LEMMA StartKeeps ==
    ASSUME HealthInv, NEW p \in Probes, NEW k \in Kinds, Start(p, k)
    PROVE  HealthInv'
<1>1. HealthTypeOK /\ EntryCleared /\ EntriesHold /\ MemoryAlone
  BY DEF HealthInv
<1>2. HealthTypeOK'
  BY <1>1, NowType DEF HealthTypeOK, Start
<1>3. /\ kind[p] = None /\ redis[p] = "set" /\ kind'[p] = k /\ testValue'[p] = now
      /\ \A q \in Probes \ {p} : kind'[q] = kind[q] /\ testValue'[q] = testValue[q]
      /\ UNCHANGED <<store, now, entry, redis, retrieved, disturbed>>
      /\ now \in Nat
  BY <1>1, NowType DEF HealthTypeOK, Start
<1>4. EntryCleared'
  BY <1>1, <1>3 DEF EntryCleared, HealthTypeOK, Entry
<1>5. EntriesHold'
  <2> SUFFICES ASSUME NEW q \in Probes, kind'[q] # None
               PROVE  EntriesHold!(q)'
    BY DEF EntriesHold
  <2>1. CASE q = p
    BY <1>3, <2>1 DEF InRedis
  <2>2. CASE q # p
    BY <1>1, <1>3, <2>2 DEF EntriesHold, InRedis
  <2> QED
    BY <2>1, <2>2
<1>6. MemoryAlone'
  BY <1>1, <1>3 DEF MemoryAlone, InRedis, Start
<1> QED
  BY <1>2, <1>4, <1>5, <1>6 DEF HealthInv

\* The database and the answers are nothing to the cache.
LEMMA AnswersKeep ==
    ASSUME HealthInv, NEW p \in Probes,
           \/ \E result \in {"connected", "failed"} : Query(p, result)
           \/ AnswerCheck(p) \/ AnswerReadiness(p) \/ End(p)
    PROVE  HealthInv'
<1>1. HealthTypeOK /\ EntryCleared /\ EntriesHold /\ MemoryAlone
  BY DEF HealthInv
<1>2. HealthTypeOK'
  <2>1. ASSUME NEW result \in {"connected", "failed"}, Query(p, result)
        PROVE  HealthTypeOK'
    BY <1>1, <2>1 DEF HealthTypeOK, Query
  <2>2. CASE AnswerCheck(p)
    BY <1>1, <2>2, NoneAssumption DEF HealthTypeOK, AnswerCheck, Kinds, Answers
  <2>3. CASE AnswerReadiness(p)
    BY <1>1, <2>3, NoneAssumption DEF HealthTypeOK, AnswerReadiness, Kinds, Answers
  <2>4. CASE End(p)
    BY <1>1, <2>4 DEF HealthTypeOK, End
  <2> QED
    BY <2>1, <2>2, <2>3, <2>4
<1>3. /\ UNCHANGED <<store, now, entry, testValue, retrieved, disturbed>>
      /\ \A q \in Probes :
            \/ kind'[q] = kind[q] /\ redis'[q] = redis[q]
            \/ /\ kind'[q] = None
               /\ redis[q] \notin {"set", "get", "del"}
  <2>1. UNCHANGED <<store, now, entry, testValue, retrieved, disturbed>>
    BY DEF Query, AnswerCheck, AnswerReadiness, End
  <2>2. CASE End(p)
    BY <1>1, <2>1, <2>2 DEF HealthTypeOK, End, Settled
  <2>3. CASE UNCHANGED <<kind, redis>>
    BY <2>1, <2>3
  <2> QED
    BY <2>1, <2>2, <2>3 DEF Query, AnswerCheck, AnswerReadiness
<1>4. EntryCleared'
  BY <1>1, <1>3 DEF EntryCleared, HealthTypeOK, Entry
<1>5. EntriesHold'
  BY <1>1, <1>3 DEF EntriesHold, InRedis
<1>6. MemoryAlone'
  BY <1>1, <1>3 DEF MemoryAlone, InRedis
<1> QED
  BY <1>2, <1>4, <1>5, <1>6 DEF HealthInv

\* An entry is stored, and disturbs those who have yet to get theirs.
LEMMA SetKeeps ==
    ASSUME HealthInv, NEW p \in Probes, Set(p)
    PROVE  HealthInv'
<1>1. HealthTypeOK /\ EntryCleared /\ EntriesHold /\ MemoryAlone
  BY DEF HealthInv
<1>2. /\ entry' = [value |-> testValue[p], until |-> now + Ttl, by |-> p, orphan |-> FALSE]
      /\ entry' \in Entry /\ entry' # None
      /\ now \in Nat /\ testValue[p] \in Nat
  <2>1. now \in Nat /\ testValue[p] \in Nat
    BY <1>1, NowType DEF HealthTypeOK
  <2>2. now + Ttl \in Nat
    BY <2>1, TimesAssumption
  <2>3. entry' = [value |-> testValue[p], until |-> now + Ttl, by |-> p, orphan |-> FALSE]
    BY DEF Set, SetEntry
  <2>4. entry' \in Entry
    BY <2>1, <2>2, <2>3 DEF Entry
  <2> QED
    BY <2>1, <2>3, <2>4, NoneIsNoEntryAssumption
<1>3. HealthTypeOK'
  BY <1>1, <1>2 DEF HealthTypeOK, Set, Disturb
<1>4. /\ kind[p] # None /\ redis[p] = "set" /\ redis'[p] = "get"
      /\ \A q \in Probes \ {p} :
            /\ redis'[q] = redis[q]
            /\ redis[q] = "get" => disturbed'[q]
            /\ disturbed[q] => disturbed'[q]
      /\ ~disturbed'[p]
      /\ UNCHANGED <<store, now, kind, testValue, retrieved>>
  BY <1>1 DEF HealthTypeOK, Set, Disturb
<1>5. EntryCleared'
  BY <1>2, <1>4 DEF EntryCleared
<1>6. EntriesHold'
  <2> SUFFICES ASSUME NEW q \in Probes, kind'[q] # None
               PROVE  EntriesHold!(q)'
    BY DEF EntriesHold
  <2>1. CASE q = p
    <3>1. testValue[p] <= now
      BY <1>1, <1>4 DEF EntriesHold, InRedis
    <3>2. now + Ttl >= testValue[p] + Ttl
      BY <1>2, <3>1, TimesAssumption
    <3> QED
      BY <1>2, <1>4, <2>1, <3>1, <3>2 DEF InRedis
  <2>2. CASE q # p
    BY <1>1, <1>4, <2>2 DEF EntriesHold, InRedis
  <2> QED
    BY <2>1, <2>2
<1>7. MemoryAlone'
  BY <1>1, <1>4 DEF MemoryAlone, InRedis
<1> QED
  BY <1>3, <1>5, <1>6, <1>7 DEF HealthInv

\* An undisturbed probe that gets something else has asked too late.
LEMMA GetKeeps ==
    ASSUME HealthInv, NEW p \in Probes, Get(p)
    PROVE  HealthInv'
<1>1. HealthTypeOK /\ EntryCleared /\ EntriesHold /\ MemoryAlone
  BY DEF HealthInv
<1>2. HealthTypeOK'
  BY <1>1 DEF HealthTypeOK, Get
<1>3. /\ kind[p] # None /\ redis[p] = "get" /\ redis'[p] = "del"
      /\ retrieved'[p] = (Visible = testValue[p])
      /\ \A q \in Probes \ {p} : redis'[q] = redis[q] /\ retrieved'[q] = retrieved[q]
      /\ UNCHANGED <<store, now, entry, kind, testValue, disturbed>>
  BY <1>1 DEF HealthTypeOK, Get
<1>4. EntryCleared'
  BY <1>1, <1>3 DEF EntryCleared, HealthTypeOK, Entry
<1>5. retrieved'[p] \/ disturbed[p] \/ now >= testValue[p] + Ttl
  <2> SUFFICES ASSUME ~disturbed[p], ~(now >= testValue[p] + Ttl)
               PROVE  Visible = testValue[p]
    BY <1>3
  <2>1. /\ entry # None /\ entry.value = testValue[p]
        /\ entry.until >= testValue[p] + Ttl
    BY <1>1, <1>3 DEF EntriesHold
  <2>2. now \in Nat /\ testValue[p] \in Nat /\ entry.until \in Nat
    BY <1>1, <2>1, NowType DEF HealthTypeOK, Entry
  <2>3. now < entry.until
    BY <2>1, <2>2, TimesAssumption
  <2> QED
    BY <2>1, <2>3 DEF Visible
<1>6. EntriesHold'
  <2> SUFFICES ASSUME NEW q \in Probes, kind'[q] # None
               PROVE  EntriesHold!(q)'
    BY DEF EntriesHold
  <2>1. CASE q = p
    BY <1>1, <1>3, <1>5, <2>1 DEF EntriesHold, InRedis
  <2>2. CASE q # p
    BY <1>1, <1>3, <2>2 DEF EntriesHold, InRedis
  <2> QED
    BY <2>1, <2>2
<1>7. MemoryAlone'
  BY <1>1, <1>3 DEF MemoryAlone, InRedis
<1> QED
  BY <1>2, <1>4, <1>6, <1>7 DEF HealthInv

\* The entry is deleted, whoever stored it.
LEMMA DelKeeps ==
    ASSUME HealthInv, NEW p \in Probes, Del(p)
    PROVE  HealthInv'
<1>1. HealthTypeOK /\ EntryCleared /\ EntriesHold /\ MemoryAlone
  BY DEF HealthInv
<1>2. HealthTypeOK'
  BY <1>1 DEF HealthTypeOK, Del, EndRedis, Disturb
<1>3. /\ entry' = None
      /\ kind[p] # None /\ redis[p] = "del" /\ redis'[p] \in {"connected", "mismatch"}
      /\ \A q \in Probes \ {p} :
            /\ redis'[q] = redis[q] /\ testValue'[q] = testValue[q]
            /\ retrieved'[q] = retrieved[q]
            /\ redis[q] = "get" => disturbed'[q]
            /\ disturbed[q] => disturbed'[q]
      /\ UNCHANGED <<store, now, kind>>
  BY <1>1 DEF HealthTypeOK, Del, EndRedis, Disturb
<1>4. EntryCleared'
  BY <1>3 DEF EntryCleared
<1>5. EntriesHold'
  <2> SUFFICES ASSUME NEW q \in Probes, kind'[q] # None
               PROVE  EntriesHold!(q)'
    BY DEF EntriesHold
  <2>1. CASE q = p
    BY <1>3, <2>1 DEF InRedis
  <2>2. CASE q # p
    BY <1>1, <1>3, <2>2 DEF EntriesHold, InRedis
  <2> QED
    BY <2>1, <2>2
<1>6. MemoryAlone'
  BY <1>1, <1>3 DEF MemoryAlone, InRedis
<1> QED
  BY <1>2, <1>4, <1>5, <1>6 DEF HealthInv

\* A probe gives up, and its entry is an orphan.
LEMMA CallFailsKeeps ==
    ASSUME HealthInv, NEW p \in Probes, CallFails(p)
    PROVE  HealthInv'
<1>1. HealthTypeOK /\ EntryCleared /\ EntriesHold /\ MemoryAlone
  BY DEF HealthInv
<1>2. /\ entry = None => entry' = None
      /\ entry # None => /\ entry' \in Entry /\ entry' # None
                         /\ entry'.value = entry.value /\ entry'.until = entry.until
                         /\ entry'.by = entry.by
                         /\ entry'.orphan <=> entry.orphan \/ entry.by = p
  BY <1>1, NoneIsNoEntryAssumption DEF HealthTypeOK, CallFails, Entry
<1>3. HealthTypeOK'
  BY <1>1, <1>2 DEF HealthTypeOK, CallFails, EndRedis
<1>4. /\ kind[p] # None /\ redis'[p] = "failed" /\ store = "redis"
      /\ \A q \in Probes \ {p} :
            /\ redis'[q] = redis[q] /\ testValue'[q] = testValue[q]
            /\ retrieved'[q] = retrieved[q] /\ disturbed'[q] = disturbed[q]
      /\ UNCHANGED <<store, now, kind>>
  BY <1>1 DEF HealthTypeOK, CallFails, EndRedis
<1>5. EntryCleared'
  <2> SUFFICES ASSUME entry' # None, ~entry'.orphan
               PROVE  kind'[entry'.by] # None /\ redis'[entry'.by] \in {"get", "del"}
    BY DEF EntryCleared
  <2>1. /\ entry # None /\ ~entry.orphan /\ entry.by # p /\ entry'.by = entry.by
        /\ entry.by \in Probes
    BY <1>1, <1>2 DEF HealthTypeOK, Entry
  <2> QED
    BY <1>1, <1>4, <2>1 DEF EntryCleared
<1>6. EntriesHold'
  <2> SUFFICES ASSUME NEW q \in Probes, kind'[q] # None
               PROVE  EntriesHold!(q)'
    BY DEF EntriesHold
  <2>1. CASE q = p
    BY <1>4, <2>1 DEF InRedis
  <2>2. CASE q # p
    BY <1>1, <1>2, <1>4, <2>2 DEF EntriesHold, InRedis
  <2> QED
    BY <2>1, <2>2
<1>7. MemoryAlone'
  BY <1>4 DEF MemoryAlone
<1> QED
  BY <1>3, <1>5, <1>6, <1>7 DEF HealthInv

LEMMA TickKeeps ==
    ASSUME HealthInv, Tick
    PROVE  HealthInv'
<1>1. HealthTypeOK /\ EntryCleared /\ EntriesHold /\ MemoryAlone
  BY DEF HealthInv
<1>2. HealthTypeOK'
  <2>1. now' \in 0 .. MaxNow
    BY <1>1, NowType, TimesAssumption DEF Tick
  <2> QED
    BY <1>1, <2>1 DEF HealthTypeOK, Tick, probe
<1>3. UNCHANGED <<store, entry, kind, redis, testValue, retrieved, disturbed>>
  BY DEF Tick, probe
<1>4. EntryCleared'
  BY <1>1, <1>3 DEF EntryCleared, HealthTypeOK, Entry
<1>5. EntriesHold'
  <2>1. now \in Nat /\ now' = now + 1 /\ \A p \in Probes : testValue[p] \in Nat
    BY <1>1, NowType DEF HealthTypeOK, Tick
  <2>2. \A p \in Probes : /\ testValue[p] <= now => testValue[p] <= now'
                          /\ now >= testValue[p] + Ttl => now' >= testValue[p] + Ttl
    BY <2>1, TimesAssumption
  <2> QED
    BY <1>1, <1>3, <2>2 DEF EntriesHold, InRedis
<1>6. MemoryAlone'
  BY <1>1, <1>3 DEF MemoryAlone, InRedis, Tick
<1> QED
  BY <1>2, <1>4, <1>5, <1>6 DEF HealthInv

LEMMA NextHealth == HealthInv /\ [Next]_vars => HealthInv'
<1>1. ASSUME HealthInv, UNCHANGED vars
      PROVE  HealthInv'
  BY <1>1 DEF vars, HealthInv, HealthTypeOK, EntryCleared, EntriesHold, MemoryAlone, InRedis
<1> QED
  BY <1>1, StartKeeps, AnswersKeep, SetKeeps, GetKeeps, DelKeeps, CallFailsKeeps, TickKeeps
  DEF Next, Step

LEMMA HealthInvariant == Spec => []HealthInv
BY InitHealth, NextHealth, PTL DEF Spec

-----------------------------------------------------------------------------

\* Probes, entry and clock keep their shapes, and nothing runs for a probe that is
\* not under way.
THEOREM HealthTypeCorrect == Spec => []HealthTypeOK
<1>1. HealthInv => HealthTypeOK
  BY DEF HealthInv
<1> QED
  BY <1>1, HealthInvariant, PTL

\* However many probes overlap, the entry does not outlive the probe that stored it
\* but by a call that failed.
THEOREM ProbesClearTheirEntry == Spec => []EntryCleared
<1>1. HealthInv => EntryCleared
  BY DEF HealthInv
<1> QED
  BY <1>1, HealthInvariant, PTL

\* A probe that reports the cache as down without a failed call was disturbed by
\* another one, or asked for an entry that had run out; in memory none reports it.
THEOREM NoFalseAlarm == Spec => DownHasCause
<1> DEFINE Caused ==
              \A p \in Probes : redis[p] \in {"get", "del"} /\ redis'[p] = "mismatch" =>
                 /\ store = "redis"
                 /\ disturbed[p] \/ now >= testValue[p] + Ttl
<1>1. ASSUME HealthInv, Next, NEW p \in Probes,
             redis[p] \in {"get", "del"}, redis'[p] = "mismatch"
      PROVE  store = "redis" /\ (disturbed[p] \/ now >= testValue[p] + Ttl)
  <2>1. kind[p] # None /\ InRedis(p)
    BY <1>1 DEF HealthInv, HealthTypeOK, InRedis
  <2>2. Del(p) /\ ~retrieved[p]
    <3>1. PICK q \in Probes : Step(q)
      BY <1>1 DEF Next, Start, Tick, probe
    <3>2. q = p
      BY <1>1, <3>1 DEF Step, Query, Set, Get, Del, CallFails, EndRedis, AnswerCheck,
          AnswerReadiness, End, HealthInv, HealthTypeOK
    <3> QED
      BY <1>1, <3>1, <3>2 DEF Step, Query, Set, Get, Del, CallFails, EndRedis, AnswerCheck,
          AnswerReadiness, End, HealthInv, HealthTypeOK
  <2>3. disturbed[p] \/ now >= testValue[p] + Ttl
    BY <1>1, <2>1, <2>2 DEF HealthInv, EntriesHold, Del
  <2>4. ASSUME store = "memory"
        PROVE  FALSE
    <3>1. testValue[p] = now /\ ~disturbed[p]
      BY <1>1, <2>1, <2>4 DEF HealthInv, MemoryAlone
    <3>2. now \in Nat
      BY <1>1, NowType DEF HealthInv
    <3> QED
      BY <2>3, <3>1, <3>2, TimesAssumption
  <2> QED
    BY <1>1, <2>3, <2>4 DEF HealthInv, HealthTypeOK
<1>2. HealthInv /\ [Next]_vars => [Caused]_vars
  BY <1>1
<1>3. Spec => [][Caused]_vars
  BY <1>2, HealthInvariant, PTL DEF Spec
<1> QED
  BY <1>3 DEF DownHasCause

-----------------------------------------------------------------------------
(***************************************************************************)
(* Probes end.  The prover knows nothing of ENABLED, so the fairness here  *)
(* says what the weak fairness of the run says where a step is possible at *)
(* every await: the event loop resumes the probe.                          *)
(***************************************************************************)

\* The steps a probe under way has still to take.
Left(p) ==
    IF kind[p] = None THEN 0
    ELSE 1 + (IF answer[p] = None THEN 1 ELSE 0)
           + (IF database[p] = "query" THEN 1 ELSE 0)
           + (CASE redis[p] = "set" -> 3 [] redis[p] = "get" -> 2
                [] redis[p] = "del" -> 1 [] OTHER -> 0)

LEMMA LeftType ==
    ASSUME NEW p \in Probes
    PROVE  /\ Left(p) \in 0 .. 6 /\ Left(p)' \in 0 .. 6
           /\ kind[p] = None <=> Left(p) = 0
BY DEF Left

\* Whether failed, answered or overtaken, a probe has fewer steps left after a step.
LEMMA StepsDraw ==
    ASSUME HealthTypeOK, NEW p \in Probes, Step(p)
    PROVE  Left(p)' < Left(p)
<1>0. /\ kind \in [Probes -> Kinds \cup {None}]
      /\ database \in [Probes -> {"query", "connected", "failed"}]
      /\ redis \in [Probes -> {"set", "get", "del", "connected", "mismatch", "failed"}]
      /\ answer \in [Probes -> Answers \cup {None}]
      /\ kind[p] = None => answer[p] = None
  BY DEF HealthTypeOK
<1>1. ASSUME NEW result \in {"connected", "failed"}, Query(p, result)
      PROVE  Left(p)' < Left(p)
  BY <1>0, <1>1 DEF Query, Left
<1>2. CASE Set(p) \/ Get(p)
  BY <1>0, <1>2 DEF Set, Get, Left
<1>3. CASE Del(p) \/ CallFails(p)
  BY <1>0, <1>3 DEF Del, CallFails, EndRedis, Left
<1>4. CASE AnswerCheck(p) \/ AnswerReadiness(p)
  <2>1. /\ kind[p] # None /\ answer[p] = None /\ answer'[p] # None
        /\ UNCHANGED <<kind, database, redis>>
    BY <1>0, <1>4, NoneAssumption DEF AnswerCheck, AnswerReadiness, Kinds, Answers
  <2> QED
    BY <2>1 DEF Left
<1>5. CASE End(p)
  <2>1. kind[p] # None /\ kind'[p] = None
    BY <1>0, <1>5 DEF End
  <2> QED
    BY <2>1, LeftType DEF Left
<1> QED
  BY <1>1, <1>2, <1>3, <1>4, <1>5 DEF Step

\* The others leave a probe under way as it is.
LEMMA OwnSteps ==
    ASSUME HealthTypeOK, [Next]_vars, NEW p \in Probes, kind[p] # None
    PROVE  Left(p)' = Left(p) \/ Step(p)
<1>0. /\ kind \in [Probes -> Kinds \cup {None}]
      /\ database \in [Probes -> {"query", "connected", "failed"}]
      /\ redis \in [Probes -> {"set", "get", "del", "connected", "mismatch", "failed"}]
      /\ answer \in [Probes -> Answers \cup {None}]
  BY DEF HealthTypeOK
<1>1. ASSUME NEW q \in Probes, q # p, Step(q) \/ \E k \in Kinds : Start(q, k)
      PROVE  /\ kind'[p] = kind[p] /\ database'[p] = database[p]
             /\ redis'[p] = redis[p] /\ answer'[p] = answer[p]
  BY <1>0, <1>1 DEF Step, Start, Query, Set, Get, Del, CallFails, EndRedis, AnswerCheck,
                    AnswerReadiness, End
<1>2. \A k \in Kinds : ~Start(p, k)
  BY DEF Start
<1>3. Tick \/ UNCHANGED vars => UNCHANGED <<kind, database, redis, answer>>
  BY DEF Tick, probe, vars
<1> QED
  BY <1>1, <1>2, <1>3 DEF Next, Left

\* The event loop resumes probe p: it takes steps as long as it is under way.
Resumed(p) == []<>(kind[p] = None) \/ []<><<Step(p)>>_vars

LEMMA OneStepFewer ==
    ASSUME NEW p \in Probes, NEW n \in Nat, NEW m \in Nat, n = m + 1
    PROVE  Spec /\ Resumed(p) => (Left(p) <= n ~> Left(p) <= m)
<1> DEFINE More == Left(p) <= n
           Fewer == Left(p) <= m
           Idle == kind[p] = None
<1>1. ASSUME HealthTypeOK, [Next]_vars, More, ~Idle
      PROVE  More'
  BY <1>1, LeftType, OwnSteps, StepsDraw
<1>2. ASSUME HealthTypeOK, Step(p), More
      PROVE  Fewer'
  BY <1>2, LeftType, StepsDraw
<1>3. Idle => Fewer
  BY LeftType
<1> HIDE DEF More, Fewer, Idle
<1>4. /\ HealthTypeOK /\ [Next]_vars /\ More /\ ~Idle => More'
      /\ HealthTypeOK /\ <<Step(p)>>_vars /\ More => Fewer'
  BY <1>1, <1>2
<1>5. Spec /\ ([]<>Idle \/ []<><<Step(p)>>_vars) => (More ~> Fewer)
  BY <1>3, <1>4, HealthTypeCorrect, PTL DEF Spec
<1> QED
  BY <1>5, PTL DEF Resumed, More, Fewer, Idle

\* If the event loop resumes every probe, every probe ends: one that has been answered
\* "not ready" while its other check was under way too.
THEOREM ProbesAreDone == Spec /\ (\A p \in Probes : Resumed(p)) => ProbesEnd
<1>1. ASSUME NEW p \in Probes
      PROVE  Spec /\ Resumed(p) => (kind[p] # None ~> kind[p] = None)
  <2> DEFINE Falls(n, m) == Spec /\ Resumed(p) => (Left(p) <= n ~> Left(p) <= m)
  <2>1. \A n, m \in Nat : n = m + 1 => Falls(n, m)
    BY OneStepFewer
  <2> HIDE DEF Falls
  <2>2. /\ Falls(6, 5) /\ Falls(5, 4) /\ Falls(4, 3)
        /\ Falls(3, 2) /\ Falls(2, 1) /\ Falls(1, 0)
    BY <2>1
  <2>3. Left(p) <= 6 /\ (Left(p) <= 0 => kind[p] = None)
    BY LeftType
  <2> QED
    BY <2>2, <2>3, PTL DEF Falls
<1> QED
  BY <1>1 DEF ProbesEnd

=============================================================================
