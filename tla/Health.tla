-------------------------------- MODULE Health --------------------------------
(***************************************************************************)
(* HealthService: the probes of GET /health and GET /health/ready.  A      *)
(* probe queries the database and, at the same time, takes one key of the  *)
(* cache through set, get and del.  The key is the same for all probes,    *)
(* and the value is the millisecond at which the probe started.            *)
(*                                                                         *)
(* With the store in memory, which is the one configured, the three calls  *)
(* of a probe run in one turn of the event loop; with Redis, for which the *)
(* service is written, the calls of several probes interleave.             *)
(***************************************************************************)
EXTENDS Naturals

CONSTANTS
    Probes,     \* the probes that may be under way at one time
    Ttl,        \* the time to live of the entry, in ticks of the clock
    MaxNow,     \* bound on the clock
    None        \* no entry, no answer

ASSUME TimesAssumption == Ttl \in Nat \ {0} /\ MaxNow \in Nat

Kinds == {"check", "readiness"}
Answers == {"healthy", "unhealthy", "ready", "not ready"}

ASSUME NoneAssumption == None \notin Nat \cup Kinds \cup Answers

\* What is stored under 'health-check-test'.  Not in the program: by is the probe
\* that stored it, orphan whether a later call of that probe has failed.
Entry == [value : Nat, until : Nat, by : Probes, orphan : BOOLEAN]

ASSUME NoneIsNoEntryAssumption == None \notin Entry

VARIABLES
    store,      \* "memory" or "redis"
    now,        \* Date.now(), in ticks
    entry,      \* the entry of the key, or None
    kind,       \* the route of each probe, None when it is not under way
    database,   \* how far checkDatabase is
    redis,      \* how far checkRedis is
    testValue,  \* the value each probe stores
    retrieved,  \* whether it got that value back
    disturbed,  \* not in the program: another probe stored or deleted in between
    answer      \* the status answered

probe == <<kind, database, redis, testValue, retrieved, disturbed, answer>>
vars == <<store, now, entry, kind, database, redis, testValue, retrieved, disturbed, answer>>

\* The type invariant.  A readiness probe that has been answered is under way until
\* its other check has ended too: nothing runs for a probe that is not.
HealthTypeOK ==
    /\ store \in {"memory", "redis"}
    /\ now \in 0 .. MaxNow
    /\ entry \in Entry \cup {None}
    /\ kind \in [Probes -> Kinds \cup {None}]
    /\ database \in [Probes -> {"query", "connected", "failed"}]
    /\ redis \in [Probes -> {"set", "get", "del", "connected", "mismatch", "failed"}]
    /\ testValue \in [Probes -> Nat]
    /\ retrieved \in [Probes -> BOOLEAN]
    /\ disturbed \in [Probes -> BOOLEAN]
    /\ answer \in [Probes -> Answers \cup {None}]
    /\ \A p \in Probes : kind[p] = None =>
          database[p] = "query" /\ redis[p] = "set" /\ answer[p] = None

Init ==
    /\ store \in {"memory", "redis"}
    /\ now = 0
    /\ entry = None
    /\ kind = [p \in Probes |-> None]
    /\ database = [p \in Probes |-> "query"]
    /\ redis = [p \in Probes |-> "set"]
    /\ testValue = [p \in Probes |-> 0]
    /\ retrieved = [p \in Probes |-> FALSE]
    /\ disturbed = [p \in Probes |-> FALSE]
    /\ answer = [p \in Probes |-> None]

-----------------------------------------------------------------------------
(* check() and readiness(), up to their first await *)

\* Before the end of its checkRedis.
InRedis(p) == kind[p] # None /\ redis[p] \in {"set", "get", "del"}

\* A cache in memory answers in the same turn: nothing else comes in between.
Start(p, k) ==
    /\ kind[p] = None
    /\ store = "memory" => \A q \in Probes : ~InRedis(q)
    /\ kind' = [kind EXCEPT ![p] = k]
    /\ testValue' = [testValue EXCEPT ![p] = now]
    /\ UNCHANGED <<store, now, entry, database, redis, retrieved, disturbed, answer>>

-----------------------------------------------------------------------------
(* checkDatabase() *)

Query(p, result) ==
    /\ kind[p] # None
    /\ database[p] = "query"
    /\ database' = [database EXCEPT ![p] = result]
    /\ UNCHANGED <<store, now, entry, kind, redis, testValue, retrieved,
                   disturbed, answer>>

-----------------------------------------------------------------------------
(* checkRedis() *)

\* A call that touches the entry disturbs the probes that have yet to get it.
Disturb(p) ==
    disturbed' = [q \in Probes |-> q # p /\ (disturbed[q] \/ redis[q] = "get")]

\* The end of checkRedis, and of its variables.
EndRedis(p, result) ==
    /\ redis' = [redis EXCEPT ![p] = result]
    /\ testValue' = [testValue EXCEPT ![p] = 0]
    /\ retrieved' = [retrieved EXCEPT ![p] = FALSE]

\* Mutant of SetEntry: an entry that is there is kept.
SetEntryOnce(p) ==
    IF entry # None /\ now < entry.until THEN entry
    ELSE [value |-> testValue[p], until |-> now + Ttl, by |-> p, orphan |-> FALSE]

SetEntry(p) == [value |-> testValue[p], until |-> now + Ttl, by |-> p, orphan |-> FALSE]

Set(p) ==
    /\ kind[p] # None
    /\ redis[p] = "set"
    /\ entry' = SetEntry(p)
    /\ redis' = [redis EXCEPT ![p] = "get"]
    /\ Disturb(p)
    /\ UNCHANGED <<store, now, kind, database, testValue, retrieved, answer>>

Visible == IF entry # None /\ now < entry.until THEN entry.value ELSE None

\* Mutant of Get: a wrong value throws before the deletion.
GetChecked(p) ==
    /\ kind[p] # None
    /\ redis[p] = "get"
    /\ retrieved' = [retrieved EXCEPT ![p] = Visible = testValue[p]]
    /\ redis' = [redis EXCEPT ![p] = IF Visible = testValue[p] THEN "del" ELSE "mismatch"]
    /\ UNCHANGED <<store, now, entry, kind, database, testValue, disturbed, answer>>

Get(p) ==
    /\ kind[p] # None
    /\ redis[p] = "get"
    /\ retrieved' = [retrieved EXCEPT ![p] = Visible = testValue[p]]
    /\ redis' = [redis EXCEPT ![p] = "del"]
    /\ UNCHANGED <<store, now, entry, kind, database, testValue, disturbed, answer>>

\* The deletion, and the comparison after it.
Del(p) ==
    /\ kind[p] # None
    /\ redis[p] = "del"
    /\ entry' = None
    /\ EndRedis(p, IF retrieved[p] THEN "connected" ELSE "mismatch")
    /\ Disturb(p)
    /\ UNCHANGED <<store, now, kind, database, answer>>

\* Any of the three calls fails, and those after it are not made.
CallFails(p) ==
    /\ kind[p] # None
    /\ store = "redis"
    /\ redis[p] \in {"set", "get", "del"}
    /\ EndRedis(p, "failed")
    /\ entry' = IF entry # None /\ entry.by = p THEN [entry EXCEPT !.orphan = TRUE] ELSE entry
    /\ disturbed' = [disturbed EXCEPT ![p] = FALSE]
    /\ UNCHANGED <<store, now, kind, database, answer>>

-----------------------------------------------------------------------------
(* The answers *)

RedisDown(p) == redis[p] \in {"mismatch", "failed"}

Settled(p) == database[p] # "query" /\ redis[p] \in {"connected", "mismatch", "failed"}

AllWell(p) == database[p] = "connected" /\ redis[p] = "connected"

\* The memory may be over its threshold; the disk is not looked at, and never fails.
MemoryResults == {"healthy", "failed"}

\* Promise.allSettled waits for all the checks.
AnswerCheck(p) ==
    /\ kind[p] = "check"
    /\ answer[p] = None
    /\ Settled(p)
    /\ \E memory \in MemoryResults :
          answer' = [answer EXCEPT ![p] =
             IF AllWell(p) /\ memory = "healthy" THEN "healthy" ELSE "unhealthy"]
    /\ UNCHANGED <<store, now, entry, kind, database, redis, testValue, retrieved,
                   disturbed>>

\* Mutant of AnswerReadiness: a failed check leaves it waiting for the other.
AnswerReadinessLast(p) ==
    /\ kind[p] = "readiness"
    /\ answer[p] = None
    /\ AllWell(p)
    /\ answer' = [answer EXCEPT ![p] = "ready"]
    /\ UNCHANGED <<store, now, entry, kind, database, redis, testValue, retrieved,
                   disturbed>>

\* Promise.all, which does not wait for the other check when one fails.
AnswerReadiness(p) ==
    /\ kind[p] = "readiness"
    /\ answer[p] = None
    /\ \/ AllWell(p) /\ answer' = [answer EXCEPT ![p] = "ready"]
       \/ (database[p] = "failed" \/ RedisDown(p))
             /\ answer' = [answer EXCEPT ![p] = "not ready"]
    /\ UNCHANGED <<store, now, entry, kind, database, redis, testValue, retrieved,
                   disturbed>>

\* Mutant of End: a readiness probe is over with its answer.
EndAtOnce(p) ==
    /\ answer[p] # None
    /\ kind' = [kind EXCEPT ![p] = None]
    /\ answer' = [answer EXCEPT ![p] = None]
    /\ UNCHANGED <<store, now, entry, database, redis, testValue, retrieved, disturbed>>

\* Nothing of an answered probe is left to run, and its variables are gone.
End(p) ==
    /\ answer[p] # None
    /\ Settled(p)
    /\ kind' = [kind EXCEPT ![p] = None]
    /\ database' = [database EXCEPT ![p] = "query"]
    /\ redis' = [redis EXCEPT ![p] = "set"]
    /\ answer' = [answer EXCEPT ![p] = None]
    /\ UNCHANGED <<store, now, entry, testValue, retrieved, disturbed>>

-----------------------------------------------------------------------------

Tick ==
    /\ now < MaxNow
    /\ store = "memory" => \A p \in Probes : ~InRedis(p)
    /\ now' = now + 1
    /\ UNCHANGED <<store, entry, probe>>

Step(p) ==
    \/ \E result \in {"connected", "failed"} : Query(p, result)
    \/ Set(p) \/ Get(p) \/ Del(p) \/ CallFails(p)
    \/ AnswerCheck(p) \/ AnswerReadiness(p) \/ End(p)

Next ==
    \/ \E p \in Probes, k \in Kinds : Start(p, k)
    \/ \E p \in Probes : Step(p)
    \/ Tick

Spec == Init /\ [][Next]_vars

\* The event loop resumes every await whose call has answered or failed.
FairSpec == Spec /\ \A p \in Probes : WF_vars(Step(p))

-----------------------------------------------------------------------------
(* Properties *)

\* Only a failed call, an entry that ran out or another probe in between makes a
\* probe report the cache as down; in memory none does.  What an earlier probe that
\* failed has left under the key is no reason.
DownHasCause ==
    [][\A p \in Probes : redis[p] \in {"get", "del"} /\ redis'[p] = "mismatch" =>
          /\ store = "redis"
          /\ disturbed[p] \/ now >= testValue[p] + Ttl]_vars

\* The entry lives no longer than the probe that stored it, unless a call of that
\* probe failed: probes that report a wrong value have deleted it all the same.
EntryCleared ==
    entry # None =>
        \/ entry.orphan
        \/ kind[entry.by] # None /\ redis[entry.by] \in {"get", "del"}

\* Every probe is answered, and what it started ends.
ProbesEnd == \A p \in Probes : kind[p] # None ~> kind[p] = None

=============================================================================
