--------------------------- MODULE Monitoring_proofs ---------------------------
(***************************************************************************)
(* Proofs about Metrics and Monitoring: the buffers stay bounded in length *)
(* and in time, and the summaries of them are those of the whole log.      *)
(***************************************************************************)
EXTENDS Monitoring, FiniteSetTheorems, SequenceTheorems, TLAPS

-----------------------------------------------------------------------------
(* Numbers, sets and sequences *)

\* A set of numbers that is not empty has a least one.
LEMMA LeastNumber ==
    ASSUME NEW T \in SUBSET Nat, T # {}
    PROVE  \E x \in T : \A y \in T : x <= y
<1>1. PICK x \in T : \A y \in T : <<y, x>> \notin OpToRel(<, Nat)
  BY NatLessThanWellFounded, WFMin
<1>2. \A y \in T : ~(y < x)
  BY <1>1 DEF OpToRel
<1> QED
  BY <1>2

\* T is a set S of numbers from 1 to n moved up by d.
MovedBy(S, T, d, n) ==
    /\ d \in Nat /\ n \in Nat /\ S \in SUBSET (1 .. n) /\ T \in SUBSET Nat
    /\ \A i \in S : i + d \in T
    /\ \A j \in T : j - d \in S

\* Numbers moved by d are as many as before.
LEMMA MovedAreAsMany ==
    ASSUME NEW S, NEW T, NEW d, NEW n, MovedBy(S, T, d, n)
    PROVE  IsFiniteSet(T) /\ Cardinality(S) = Cardinality(T) /\ Cardinality(T) \in Nat
<1> DEFINE f == [i \in S |-> i + d]
<1> USE DEF MovedBy
<1>1. IsFiniteSet(S)
  <2>1. IsFiniteSet(1 .. n)
    BY FS_Interval
  <2> QED
    BY <2>1, FS_Subset
<1>2. f \in Bijection(S, T)
  <2>1. f \in Injection(S, T)
    BY DEF Injection, IsInjective
  <2>2. f \in Surjection(S, T)
    <3>1. \A j \in T : j - d \in S /\ f[j - d] = j
      OBVIOUS
    <3> QED
      BY <3>1 DEF Surjection
  <2> QED
    BY <2>1, <2>2 DEF Bijection
<1>3. ExistsBijection(S, T)
  BY <1>2 DEF ExistsBijection
<1> QED
  BY <1>1, <1>3, FS_Bijection, FS_CardinalityType

-----------------------------------------------------------------------------
(* What trimMetrics leaves of a buffer *)

\* The last entries of s, from k on.
From(s, k) == SubSeq(s, k, Len(s))

LEMMA FromProperties ==
    ASSUME NEW s \in Seq(Entry), NEW k \in 1 .. Len(s)
    PROVE  /\ From(s, k) \in Seq(Entry)
           /\ Len(From(s, k)) = Len(s) - k + 1
           /\ \A i \in 1 .. Len(s) - k + 1 : From(s, k)[i] = s[k + i - 1]
<1>1. /\ Len(s) \in Nat /\ k \in Int /\ Len(s) \in Int /\ k <= Len(s)
      /\ \A i \in k .. Len(s) : s[i] \in Entry
  OBVIOUS
<1> QED
  BY <1>1, SubSeqProperties DEF From

LEMMA CappedFrom ==
    ASSUME NEW s \in Seq(Entry), s # <<>>
    PROVE  \E k \in 1 .. Len(s) :
              /\ Capped(s) = From(s, k)
              /\ Len(s) - k + 1 <= MaxMetrics
              /\ \A j \in 1 .. k - 1 : j <= Len(s) - MaxMetrics
<1>1. Len(s) \in Nat \ {0} /\ MaxMetrics \in Nat \ {0}
  BY BoundsAssumption
<1>2. CASE Len(s) > MaxMetrics
  <2>1. Len(s) - MaxMetrics + 1 \in 1 .. Len(s)
    BY <1>1, <1>2
  <2>2. Capped(s) = From(s, Len(s) - MaxMetrics + 1)
    BY <1>2 DEF Capped, From
  <2> QED
    BY <1>1, <2>1, <2>2
<1>3. CASE ~(Len(s) > MaxMetrics)
  <2>1. Capped(s) = From(s, 1)
    BY <1>3, SubSeqFull DEF Capped, From
  <2> QED
    BY <1>1, <1>3, <2>1
<1> QED
  BY <1>2, <1>3

LEMMA TrimmedFrom ==
    ASSUME NEW s \in Seq(Entry), NEW t \in Nat, NEW n \in DOMAIN s, IsFresh(s, n, t)
    PROVE  \E k \in 1 .. Len(s) :
              /\ Trimmed(s, t) = From(s, k)
              /\ IsFresh(s, k, t)
              /\ \A j \in 1 .. k - 1 : ~IsFresh(s, j, t)
<1> DEFINE First(i) == IsFresh(s, i, t) /\ \A j \in 1 .. i - 1 : ~IsFresh(s, j, t)
           T == {i \in DOMAIN s : IsFresh(s, i, t)}
<1>1. T \in SUBSET Nat /\ T # {} /\ DOMAIN s = 1 .. Len(s) /\ Len(s) \in Nat
  OBVIOUS
<1>2. PICK x \in T : \A y \in T : x <= y
  BY <1>1, LeastNumber
<1>3. \A j \in 1 .. x - 1 : j \notin T /\ j \in DOMAIN s
  BY <1>1, <1>2
<1>4. \E i \in DOMAIN s : First(i)
  BY <1>2, <1>3
<1> DEFINE k == CHOOSE i \in DOMAIN s : First(i)
<1>5. k \in DOMAIN s /\ First(k)
  BY <1>4
<1>6. Trimmed(s, t) = From(s, k)
  BY DEF Trimmed, From
<1> HIDE DEF k
<1> QED
  BY <1>1, <1>5, <1>6

\* The buffer an entry is pushed to is cut to its end: to MaxMetrics entries, and from
\* a fresh one on; what is lost is out of the count or out of the retention.
LEMMA CutFrom ==
    ASSUME NEW s \in Seq(Entry), s # <<>>, s[Len(s)].at \in Nat
    PROVE  LET t == s[Len(s)].at IN
           \E k \in 1 .. Len(s) :
              /\ Trimmed(Capped(s), t) = From(s, k)
              /\ Len(s) - k + 1 <= MaxMetrics
              /\ s[k].at >= t - Retention
              /\ \A j \in 1 .. k - 1 : j > Len(s) - MaxMetrics => s[j].at < t - Retention
<1> DEFINE t == s[Len(s)].at
<1>1. PICK c \in 1 .. Len(s) :
         /\ Capped(s) = From(s, c)
         /\ Len(s) - c + 1 <= MaxMetrics
         /\ \A j \in 1 .. c - 1 : j <= Len(s) - MaxMetrics
  BY CappedFrom
<1> DEFINE cut == From(s, c)
           n == Len(s) - c + 1
<1>2. /\ cut \in Seq(Entry) /\ Len(cut) = n /\ n \in Nat \ {0}
      /\ \A i \in 1 .. n : cut[i] = s[c + i - 1]
  BY FromProperties
<1>3. n \in DOMAIN cut /\ IsFresh(cut, n, t)
  <2>1. cut[n] = s[Len(s)]
    BY <1>2
  <2> QED
    BY <1>2, <2>1, BoundsAssumption DEF IsFresh
<1>4. PICK k \in 1 .. Len(cut) :
         /\ Trimmed(cut, t) = From(cut, k)
         /\ IsFresh(cut, k, t)
         /\ \A j \in 1 .. k - 1 : ~IsFresh(cut, j, t)
  <2>1. t \in Nat
    OBVIOUS
  <2> HIDE DEF cut, n, t
  <2> QED
    BY <1>2, <1>3, <2>1, TrimmedFrom
<1>5. c + k - 1 \in 1 .. Len(s) /\ Len(s) \in Nat /\ MaxMetrics \in Nat
  BY <1>2, <1>4, BoundsAssumption
<1>6. From(cut, k) = From(s, c + k - 1)
  <2>1. /\ Len(From(cut, k)) = n - k + 1 /\ From(cut, k) \in Seq(Entry)
        /\ \A i \in 1 .. n - k + 1 : From(cut, k)[i] = cut[k + i - 1]
    BY <1>2, <1>4, FromProperties
  <2>2. /\ Len(From(s, c + k - 1)) = n - k + 1 /\ From(s, c + k - 1) \in Seq(Entry)
        /\ \A i \in 1 .. n - k + 1 : From(s, c + k - 1)[i] = s[c + k - 1 + i - 1]
    <3>1. Len(s) - (c + k - 1) + 1 = n - k + 1
      BY <1>5
    <3> HIDE DEF n
    <3> QED
      BY <1>5, <3>1, FromProperties
  <2>3. \A i \in 1 .. n - k + 1 : From(cut, k)[i] = From(s, c + k - 1)[i]
    BY <1>2, <1>4, <2>1, <2>2
  <2> HIDE DEF cut, n
  <2> QED
    BY <2>1, <2>2, <2>3, SeqEqual
<1>7. s[c + k - 1].at >= t - Retention
  BY <1>2, <1>4 DEF IsFresh
<1>8. ASSUME NEW j \in 1 .. c + k - 2, j > Len(s) - MaxMetrics
      PROVE  s[j].at < t - Retention
  <2>0. j \in 1 .. Len(s)
    BY <1>5, <1>8
  <2>1. j > c - 1
    <3>1. c \in Nat /\ j \in Nat \ {0} /\ Len(s) - MaxMetrics \in Int
      BY <1>5, <2>0
    <3>2. j \notin 1 .. c - 1
      BY <1>1, <1>8, <3>1
    <3> QED
      BY <3>1, <3>2
  <2>2. j - c + 1 \in 1 .. k - 1 /\ j - c + 1 \in 1 .. n
    BY <1>2, <1>4, <2>1
  <2>3. ~IsFresh(cut, j - c + 1, t) /\ cut[j - c + 1] = s[j]
    BY <1>2, <1>4, <2>2
  <2>4. s[j].at \in Nat /\ t \in Nat
    <3>1. s[j] \in Entry
      BY <2>0
    <3> QED
      BY <3>1 DEF Entry
  <2> QED
    BY <2>3, <2>4, BoundsAssumption DEF IsFresh
<1>9. Len(s) - (c + k - 1) + 1 <= MaxMetrics
  BY <1>1, <1>4, <1>5
<1> QED
  BY <1>1, <1>4, <1>5, <1>6, <1>7, <1>8, <1>9

-----------------------------------------------------------------------------
(* The inductive invariant *)

\* A buffer at time t is the end of its log, from the first entry that counts on, and
\* no longer than the retention.
BufferFits(m, log, t) ==
    /\ Len(m) <= Len(log)
    /\ \A i \in 1 .. Len(m) : m[i] = log[Len(log) - Len(m) + i]
    /\ \A i \in 1 .. Len(log) : log[i].at <= t
    /\ \A i \in 1 .. Len(log) :
          i > Len(log) - MaxMetrics /\ log[i].at >= t - Retention => i > Len(log) - Len(m)
    /\ m # <<>> => m[Len(m)].at - m[1].at <= Retention

\* All failures, and nothing else, are recorded as errors.
MonitoringInv ==
    /\ MonitoringTypeOK
    /\ \A b \in Buffers : BufferFits(metrics[b], recorded[b], now)
    /\ failed = recorded["errorMetrics"]

LEMMA RecordFits ==
    ASSUME NEW m \in Seq(Entry), NEW log \in Seq(Entry), NEW entry \in Entry,
           BufferFits(m, log, entry.at)
    PROVE  LET m2 == Trimmed(Capped(Append(m, entry)), entry.at) IN
           /\ m2 \in Seq(Entry)
           /\ Len(m2) <= MaxMetrics
           /\ BufferFits(m2, Append(log, entry), entry.at)
<1> DEFINE s == Append(m, entry)
           log2 == Append(log, entry)
           t == entry.at
           n == Len(m)
           N == Len(log)
<1>1. /\ s \in Seq(Entry) /\ Len(s) = n + 1 /\ n \in Nat /\ s # <<>>
      /\ s[n + 1] = entry /\ \A i \in 1 .. n : s[i] = m[i]
  OBVIOUS
<1>2. /\ log2 \in Seq(Entry) /\ Len(log2) = N + 1 /\ N \in Nat
      /\ log2[N + 1] = entry /\ \A i \in 1 .. N : log2[i] = log[i]
  OBVIOUS
<1>3. t \in Nat /\ Retention \in Nat /\ MaxMetrics \in Nat
  BY BoundsAssumption DEF Entry
<1>4. PICK k \in 1 .. Len(s) :
         /\ Trimmed(Capped(s), t) = From(s, k)
         /\ Len(s) - k + 1 <= MaxMetrics
         /\ s[k].at >= t - Retention
         /\ \A j \in 1 .. k - 1 : j > Len(s) - MaxMetrics => s[j].at < t - Retention
  <2>1. s[Len(s)].at = t
    BY <1>1
  <2> HIDE DEF s, n, t
  <2> QED
    BY <1>1, <1>3, <2>1, CutFrom
<1> DEFINE m2 == From(s, k)
           d == N - n + k - 1
<1>5. /\ m2 \in Seq(Entry) /\ Len(m2) = n - k + 2
      /\ \A i \in 1 .. n - k + 2 : m2[i] = s[k + i - 1]
  <2>1. Len(s) - k + 1 = n - k + 2
    BY <1>1
  <2> HIDE DEF s, n
  <2> QED
    BY <1>1, <2>1, FromProperties
<1>6. /\ n <= N /\ d \in Nat /\ d <= N /\ d = Len(log2) - Len(m2)
      /\ \A i \in 1 .. n : m[i] = log[N - n + i]
      /\ \A i \in 1 .. N : log[i].at <= t
      /\ \A i \in 1 .. N : i > N - MaxMetrics /\ log[i].at >= t - Retention => i > N - n
  <2>1. n <= N
    BY DEF BufferFits
  <2>2. d \in Nat /\ d <= N /\ d = Len(log2) - Len(m2)
    <3> HIDE DEF s, n, N, m2, log2
    <3> QED
      BY <1>1, <1>2, <1>5, <2>1
  <2> QED
    BY <2>1, <2>2 DEF BufferFits
<1> HIDE DEF s, log2, n, N, m2, t
<1>7. ASSUME NEW i \in 1 .. Len(m2)
      PROVE  m2[i] = log2[d + i]
  <2>1. m2[i] = s[k + i - 1]
    BY <1>5
  <2>2. CASE k + i - 1 <= n
    <3>1. k + i - 1 \in 1 .. n /\ N - n + (k + i - 1) = d + i /\ d + i \in 1 .. N
      BY <1>1, <1>2, <1>5, <1>6, <2>2
    <3> QED
      BY <1>1, <1>2, <1>6, <2>1, <3>1
  <2>3. CASE k + i - 1 > n
    <3>1. k + i - 1 = n + 1 /\ d + i = N + 1
      BY <1>1, <1>2, <1>5, <2>3
    <3> QED
      BY <1>1, <1>2, <2>1, <3>1
  <2> QED
    BY <1>1, <2>2, <2>3
<1>8. \A i \in 1 .. Len(log2) : log2[i].at <= t
  <2>1. entry.at <= t
    BY <1>3 DEF t
  <2> QED
    BY <1>2, <1>6, <2>1
<1>9. ASSUME NEW i \in 1 .. Len(log2), i > Len(log2) - MaxMetrics, log2[i].at >= t - Retention
      PROVE  i > Len(log2) - Len(m2)
  <2> SUFFICES ASSUME i <= d
               PROVE  FALSE
    BY <1>2, <1>6, <1>9
  <2>1. i \in 1 .. N /\ log2[i] = log[i] /\ i > N - MaxMetrics
    BY <1>2, <1>3, <1>6, <1>9
  <2>2. i > N - n
    BY <1>6, <1>9, <2>1
  <2> DEFINE j == i - (N - n)
  <2>3. j \in 1 .. n /\ j \in 1 .. k - 1 /\ N - n + j = i
    BY <1>1, <1>2, <1>6, <2>1, <2>2
  <2>4. s[j] = log[i]
    BY <1>1, <1>6, <2>3
  <2>5. j > n + 1 - MaxMetrics
    BY <1>1, <1>2, <1>3, <1>9, <2>1
  <2>6. s[j].at < t - Retention
    <3>1. j > Len(s) - MaxMetrics
      BY <1>1, <1>3, <2>3, <2>5
    <3> HIDE DEF j
    <3> QED
      BY <1>4, <2>3, <3>1
  <2>7. log[i].at \in Nat
    <3>1. log[i] \in Entry
      BY <1>2, <2>1 DEF N
    <3> QED
      BY <3>1 DEF Entry
  <2> QED
    BY <1>3, <1>9, <2>1, <2>4, <2>6, <2>7
<1>10. m2[Len(m2)].at - m2[1].at <= Retention
  <2>1. m2[Len(m2)] = entry /\ m2[1] = s[k]
    <3>1. n - k + 2 \in 1 .. n - k + 2 /\ 1 \in 1 .. n - k + 2
          /\ k + (n - k + 2) - 1 = n + 1 /\ k + 1 - 1 = k
      BY <1>1
    <3> HIDE DEF m2, s, n
    <3>2. m2[n - k + 2] = s[n + 1]
      BY <1>5, <3>1
    <3>3. m2[1] = s[k]
      BY <1>5, <3>1
    <3>4. Len(m2) = n - k + 2 /\ s[n + 1] = entry
      BY <1>1, <1>5
    <3> QED
      BY <3>2, <3>3, <3>4
  <2>2. s[k].at \in Nat
    <3>1. s[k] \in Entry
      BY <1>1
    <3> QED
      BY <3>1 DEF Entry
  <2> HIDE DEF m2, s, d, n, N
  <2>3. m2[Len(m2)].at = t
    BY <2>1 DEF t
  <2>4. m2[1].at = s[k].at
    BY <2>1
  <2>5. s[k].at >= t - Retention
    BY <1>4
  <2> QED
    BY <1>3, <2>2, <2>3, <2>4, <2>5
<1>11. BufferFits(m2, log2, t)
  BY <1>1, <1>2, <1>5, <1>6, <1>7, <1>8, <1>9, <1>10 DEF BufferFits
<1>12. Len(m2) <= MaxMetrics
  BY <1>1, <1>4, <1>5, <1>3
<1> QED
  BY <1>4, <1>5, <1>11, <1>12 DEF s, m2, log2, t

-----------------------------------------------------------------------------

LEMMA InitMonitoring == MonitoringInit => MonitoringInv
<1> SUFFICES ASSUME MonitoringInit
             PROVE  MonitoringInv
  OBVIOUS
<1>1. MonitoringTypeOK
  BY BoundsAssumption DEF MonitoringInit, Init, MonitoringTypeOK, MetricsTypeOK
<1>2. \A b \in Buffers : BufferFits(metrics[b], recorded[b], now)
  BY DEF MonitoringInit, Init, BufferFits
<1>3. failed = recorded["errorMetrics"]
  BY BuffersAssumption DEF MonitoringInit, Init
<1> QED
  BY <1>1, <1>2, <1>3 DEF MonitoringInv

\* The steps that record nothing.
LEMMA ReadingKeeps ==
    ASSUME MonitoringInv, UNCHANGED <<metrics, recorded, failed>>,
           now' = now \/ now' = now + 1, MonitoringTypeOK'
    PROVE  MonitoringInv'
<1>1. now \in Nat /\ Retention \in Nat /\ now <= now' /\ now' \in Nat
  BY BoundsAssumption DEF MonitoringInv, MonitoringTypeOK, MetricsTypeOK
<1>2. ASSUME NEW b \in Buffers
      PROVE  BufferFits(metrics[b], recorded[b], now')
  <2>1. recorded[b] \in Seq(Entry) /\ BufferFits(metrics[b], recorded[b], now)
    BY DEF MonitoringInv, MonitoringTypeOK, MetricsTypeOK
  <2>2. \A i \in 1 .. Len(recorded[b]) : recorded[b][i].at \in Nat
    <3> SUFFICES ASSUME NEW i \in 1 .. Len(recorded[b])
                 PROVE  recorded[b][i].at \in Nat
      OBVIOUS
    <3>1. recorded[b][i] \in Entry
      BY <2>1
    <3> QED
      BY <3>1 DEF Entry
  <2> DEFINE log == recorded[b]
  <2>3. \A i \in 1 .. Len(log) : /\ log[i].at <= now => log[i].at <= now'
                                 /\ log[i].at >= now' - Retention => log[i].at >= now - Retention
    BY <1>1, <2>2
  <2> QED
    BY <2>1, <2>3 DEF BufferFits
<1> QED
  BY <1>2 DEF MonitoringInv

\* An entry more in one buffer.
LEMMA RecordKeeps ==
    ASSUME MonitoringInv, NEW e \in Buffers, NEW kind \in Kinds, Record(e, kind)
    PROVE  LET entry == [at |-> now, kind |-> kind] IN
           /\ MetricsTypeOK'
           /\ \A b \in Buffers : BufferFits(metrics'[b], recorded'[b], now')
           /\ entry \in Entry
           /\ recorded'[e] = Append(recorded[e], entry)
           /\ \A b \in Buffers \ {e} : recorded'[b] = recorded[b]
<1> DEFINE entry == [at |-> now, kind |-> kind]
<1>1. /\ metrics \in [Buffers -> Seq(Entry)] /\ recorded \in [Buffers -> Seq(Entry)]
      /\ now \in Nat
      /\ \A b \in Buffers : Len(metrics[b]) <= MaxMetrics
  BY DEF MonitoringInv, MonitoringTypeOK, MetricsTypeOK
<1>2. entry \in Entry /\ entry.at = now
  BY <1>1 DEF Entry
<1> HIDE DEF entry
<1>3. /\ metrics' = [metrics EXCEPT ![e] = Trimmed(Capped(Append(metrics[e], entry)), now)]
      /\ recorded' = [recorded EXCEPT ![e] = Append(recorded[e], entry)]
      /\ now' = now
  BY DEF Record, entry
<1>4. LET m2 == Trimmed(Capped(Append(metrics[e], entry)), now) IN
      /\ m2 \in Seq(Entry)
      /\ Len(m2) <= MaxMetrics
      /\ BufferFits(m2, Append(recorded[e], entry), now)
  BY <1>1, <1>2, RecordFits DEF MonitoringInv
<1>5. /\ metrics'[e] = Trimmed(Capped(Append(metrics[e], entry)), now)
      /\ recorded'[e] = Append(recorded[e], entry)
      /\ \A b \in Buffers \ {e} : metrics'[b] = metrics[b] /\ recorded'[b] = recorded[b]
  BY <1>1, <1>3
<1>6. recorded'[e] \in Seq(Entry)
  BY <1>1, <1>2, <1>5
<1>7. metrics' \in [Buffers -> Seq(Entry)] /\ recorded' \in [Buffers -> Seq(Entry)]
  BY <1>1, <1>3, <1>4, <1>5, <1>6
<1>8. MetricsTypeOK'
  BY <1>1, <1>3, <1>4, <1>5, <1>7 DEF MetricsTypeOK
<1>9. \A b \in Buffers : BufferFits(metrics'[b], recorded'[b], now')
  BY <1>3, <1>4, <1>5 DEF MonitoringInv
<1> QED
  BY <1>2, <1>5, <1>8, <1>9 DEF entry

LEMMA ThrowKeeps ==
    ASSUME MonitoringInv, NEW p \in Requests, NEW kind \in Kinds, Throw(p, kind)
    PROVE  MonitoringInv'
<1> DEFINE entry == [at |-> now, kind |-> kind]
           e == "errorMetrics"
<1>1. Record(e, kind) /\ failed' = Append(failed, entry)
  BY DEF Throw, Catch
<1>2. /\ MetricsTypeOK'
      /\ \A b \in Buffers : BufferFits(metrics'[b], recorded'[b], now')
      /\ entry \in Entry /\ recorded'[e] = Append(recorded[e], entry)
  BY <1>1, BuffersAssumption, RecordKeeps
<1> HIDE DEF entry
<1>3. failed' = recorded'[e] /\ failed' \in Seq(Entry)
  BY <1>1, <1>2 DEF MonitoringInv, MonitoringTypeOK
<1>4. pc' \in [Requests -> {"idle", "monitoring", "other"}] /\ answer' = None
  BY DEF Throw, Catch, Send, MonitoringInv, MonitoringTypeOK
<1> QED
  BY <1>2, <1>3, <1>4 DEF MonitoringInv, MonitoringTypeOK

LEMMA CollectKeeps ==
    ASSUME MonitoringInv, Collect
    PROVE  MonitoringInv'
<1>1. Record("systemMetrics", Figures) /\ UNCHANGED <<pc, failed>> /\ answer' = None
  BY DEF Collect
<1>2. /\ MetricsTypeOK'
      /\ \A b \in Buffers : BufferFits(metrics'[b], recorded'[b], now')
      /\ recorded'["errorMetrics"] = recorded["errorMetrics"]
  BY <1>1, BuffersAssumption, FiguresAssumption, RecordKeeps
<1> QED
  BY <1>1, <1>2 DEF MonitoringInv, MonitoringTypeOK

LEMMA AnswerKeeps ==
    ASSUME MonitoringInv, NEW p \in Requests, NEW buffers \in SUBSET Summarised, NEW asked,
           NEW range \in TimeRanges \cup {DefaultRange}, Answer(p, buffers, asked, range)
    PROVE  MonitoringInv'
<1>1. UNCHANGED <<metrics, recorded, failed, now>>
  BY DEF Answer, vars
<1>2. MonitoringTypeOK'
  <2>1. answer'.range = range /\ DOMAIN answer'.summaries = buffers
    BY DEF Answer
  <2>2. pc' \in [Requests -> {"idle", "monitoring", "other"}]
    BY DEF Answer, Send, MonitoringInv, MonitoringTypeOK
  <2> QED
    BY <1>1, <2>1, <2>2 DEF MonitoringInv, MonitoringTypeOK, MetricsTypeOK
<1> QED
  BY <1>1, <1>2, ReadingKeeps

LEMMA NextMonitoring == MonitoringInv /\ [MonitoringNext]_monitoringVars => MonitoringInv'
<1> SUFFICES ASSUME MonitoringInv, [MonitoringNext]_monitoringVars
             PROVE  MonitoringInv'
  OBVIOUS
<1>1. CASE Pass
  <2>1. UNCHANGED <<metrics, recorded, failed>> /\ now' = now + 1
    BY <1>1 DEF Pass, Tick
  <2>2. MonitoringTypeOK'
    BY <1>1, <2>1 DEF Pass, MonitoringInv, MonitoringTypeOK, MetricsTypeOK
  <2> QED
    BY <2>1, <2>2, ReadingKeeps
<1>2. ASSUME NEW p \in Requests,
             Succeed(p) \/ \E route \in {"monitoring", "other"} : Arrive(p, route)
      PROVE  MonitoringInv'
  <2>1. UNCHANGED <<metrics, recorded, failed, now>> /\ answer' = None
    BY <1>2 DEF Succeed, Arrive, vars
  <2>2. pc' \in [Requests -> {"idle", "monitoring", "other"}]
    BY <1>2 DEF Succeed, Arrive, Send, MonitoringInv, MonitoringTypeOK
  <2>3. MonitoringTypeOK'
    BY <2>1, <2>2 DEF MonitoringInv, MonitoringTypeOK, MetricsTypeOK
  <2> QED
    BY <2>1, <2>3, ReadingKeeps
<1>3. ASSUME NEW p \in Requests, NEW kind \in Kinds, Throw(p, kind)
      PROVE  MonitoringInv'
  BY <1>3, ThrowKeeps
<1>4. ASSUME NEW p \in Requests, NEW b \in Summarised,
             NEW timeRange \in TimeRanges \cup {None}, GetSummary(p, b, timeRange)
      PROVE  MonitoringInv'
  <2>1. RangeOf(timeRange) \in TimeRanges \cup {DefaultRange}
    BY DEF RangeOf
  <2>2. {b} \in SUBSET Summarised
    OBVIOUS
  <2> QED
    BY <1>4, <2>1, <2>2, AnswerKeeps DEF GetSummary
<1>5. ASSUME NEW p \in Requests, GetMetrics(p) \/ GetSystemMetrics(p)
      PROVE  MonitoringInv'
  <2>1. {} \in SUBSET Summarised /\ Summarised \in SUBSET Summarised
    OBVIOUS
  <2> QED
    BY <1>5, <2>1, AnswerKeeps DEF GetMetrics, GetSystemMetrics
<1>6. CASE UNCHANGED monitoringVars
  <2>1. UNCHANGED <<metrics, recorded, failed, now, pc, answer>>
    BY <1>6 DEF monitoringVars, vars
  <2>2. MonitoringTypeOK'
    BY <2>1 DEF MonitoringInv, MonitoringTypeOK, MetricsTypeOK
  <2> QED
    BY <2>1, <2>2, ReadingKeeps
<1> QED
  BY <1>1, <1>2, <1>3, <1>4, <1>5, <1>6, CollectKeeps DEF MonitoringNext

LEMMA MonitoringInvariant == MonitoringSpec => []MonitoringInv
BY InitMonitoring, NextMonitoring, PTL DEF MonitoringSpec

-----------------------------------------------------------------------------
(* The summaries *)

\* The entries of log that a summary of its last d entries left out sees.
Seen(log, d, range) == {j \in DOMAIN log : j > d /\ log[j].at >= now - range}

\* What a summary sees of a buffer is what it would see of the end of the log.
LEMMA RecentMoved ==
    ASSUME NEW b \in Buffers, NEW range \in Int, MonitoringInv
    PROVE  LET d == Len(recorded[b]) - Len(metrics[b]) IN
           /\ d \in Nat /\ Len(metrics[b]) \in Nat /\ Len(recorded[b]) \in Nat
           /\ d >= Len(recorded[b]) - MaxMetrics
           /\ Recent(metrics[b], range) \in SUBSET (1 .. Len(metrics[b]))
           /\ \A i \in Recent(metrics[b], range) :
                 i + d \in Seen(recorded[b], d, range) /\ recorded[b][i + d] = metrics[b][i]
           /\ \A j \in Seen(recorded[b], d, range) :
                 j - d \in Recent(metrics[b], range) /\ metrics[b][j - d] = recorded[b][j]
<1> DEFINE m == metrics[b]
           log == recorded[b]
           d == Len(log) - Len(m)
<1>1. /\ m \in Seq(Entry) /\ log \in Seq(Entry) /\ Len(m) <= MaxMetrics
      /\ BufferFits(m, log, now)
  BY DEF MonitoringInv, MonitoringTypeOK, MetricsTypeOK
<1> HIDE DEF m, log
<1>2. /\ Len(m) \in Nat /\ DOMAIN m = 1 .. Len(m)
      /\ Len(log) \in Nat /\ DOMAIN log = 1 .. Len(log)
  BY <1>1
<1>3. /\ Len(m) <= Len(log)
      /\ \A i \in 1 .. Len(m) : m[i] = log[d + i]
  BY <1>1 DEF BufferFits
<1>4. d \in Nat /\ d >= Len(log) - MaxMetrics
  BY <1>1, <1>2, <1>3, BoundsAssumption
<1>5. ASSUME NEW i \in Recent(m, range)
      PROVE  i + d \in Seen(log, d, range) /\ log[i + d] = m[i]
  <2>1. i \in 1 .. Len(m) /\ m[i].at >= now - range
    BY <1>2 DEF Recent
  <2>2. i + d \in 1 .. Len(log) /\ i + d > d /\ i + d = d + i
    BY <1>2, <1>3, <2>1
  <2> QED
    BY <1>2, <1>3, <2>1, <2>2 DEF Seen
<1>6. ASSUME NEW j \in Seen(log, d, range)
      PROVE  j - d \in Recent(m, range) /\ m[j - d] = log[j]
  <2>1. j \in 1 .. Len(log) /\ j > d /\ log[j].at >= now - range
    BY <1>2 DEF Seen
  <2>2. j - d \in 1 .. Len(m) /\ d + (j - d) = j
    BY <1>2, <1>3, <2>1
  <2> QED
    BY <1>2, <1>3, <2>1, <2>2 DEF Recent
<1>7. Recent(m, range) \in SUBSET (1 .. Len(m))
  BY <1>2 DEF Recent
<1> QED
  BY <1>2, <1>4, <1>5, <1>6, <1>7 DEF m, log

\* Of the last MaxMetrics entries, none within the retention has been left out.
LEMMA NothingLeftOut ==
    ASSUME NEW b \in Buffers, NEW range \in Int, range <= Retention, MonitoringInv
    PROVE  \A j \in DOMAIN recorded[b] :
              j > Len(recorded[b]) - MaxMetrics /\ recorded[b][j].at >= now - range =>
                 j \in Seen(recorded[b], Len(recorded[b]) - Len(metrics[b]), range)
<1> DEFINE log == recorded[b]
<1>1. /\ log \in Seq(Entry) /\ BufferFits(metrics[b], log, now) /\ now \in Nat
  BY DEF MonitoringInv, MonitoringTypeOK, MetricsTypeOK
<1> HIDE DEF log
<1> SUFFICES ASSUME NEW j \in DOMAIN log,
                    j > Len(log) - MaxMetrics, log[j].at >= now - range
             PROVE  j > Len(log) - Len(metrics[b])
  BY DEF Seen, log
<1>2. j \in 1 .. Len(log) /\ log[j] \in Entry
  BY <1>1
<1>3. log[j].at >= now - Retention
  <2>1. log[j].at \in Nat
    BY <1>2 DEF Entry
  <2> QED
    BY <1>1, <2>1, BoundsAssumption
<1> QED
  BY <1>1, <1>2, <1>3 DEF BufferFits

\* Rows, answers and buffers keep their shapes, and no buffer outgrows its bound.
THEOREM MonitoringTypeCorrect == MonitoringSpec => []MonitoringTypeOK
<1>1. MonitoringInv => MonitoringTypeOK
  BY DEF MonitoringInv
<1> QED
  BY <1>1, MonitoringInvariant, PTL

\* For any bound and retention, and after any pause, a buffer spans no more time than
\* the retention.
THEOREM BuffersSpanTheRetention == MonitoringSpec => []SpanBounded
<1>1. MonitoringInv => SpanBounded
  BY DEF MonitoringInv, SpanBounded, BufferFits
<1> QED
  BY <1>1, MonitoringInvariant, PTL

\* For any bound and retention, trimming never shows in a summary over a range within
\* the retention: it counts all that the last MaxMetrics entries of the log have in it.
THEOREM SummariesAreComplete == MonitoringSpec => []SummariesComplete
<1>1. ASSUME MonitoringInv, NEW b \in Buffers, NEW range \in 0 .. Retention
      PROVE  SummariesComplete!(b)!(range)
  <2> DEFINE m == metrics[b]
             log == recorded[b]
             d == Len(log) - Len(m)
             InRange == {i \in DOMAIN log : i > Len(log) - MaxMetrics /\ log[i].at >= now - range}
  <2>1. range \in Int /\ range <= Retention
    BY BoundsAssumption
  <2>2. /\ d \in Nat /\ Len(m) \in Nat /\ Len(log) \in Nat /\ d >= Len(log) - MaxMetrics
        /\ Recent(m, range) \in SUBSET (1 .. Len(m))
        /\ \A i \in Recent(m, range) :
              i + d \in Seen(log, d, range) /\ log[i + d] = m[i]
        /\ \A j \in Seen(log, d, range) :
              j - d \in Recent(m, range) /\ m[j - d] = log[j]
    BY <1>1, <2>1, RecentMoved
  <2>3. InRange = Seen(log, d, range)
    <3>1. \A j \in InRange : j \in Seen(log, d, range)
      BY <1>1, <2>1, NothingLeftOut
    <3>2. \A j \in Seen(log, d, range) : j \in DOMAIN log /\ j > d /\ log[j].at >= now - range
      BY DEF Seen
    <3>3. log \in Seq(Entry)
      BY <1>1 DEF MonitoringInv, MonitoringTypeOK, MetricsTypeOK
    <3>4. \A j \in DOMAIN log : j > d => j > Len(log) - MaxMetrics
      <4>1. DOMAIN log = 1 .. Len(log) /\ MaxMetrics \in Nat
        BY <3>3, BoundsAssumption
      <4> HIDE DEF log, d
      <4> QED
        BY <2>2, <4>1
    <3> QED
      BY <3>1, <3>2, <3>4
  <2>4. InRange \in SUBSET Nat
    <3>1. log \in Seq(Entry)
      BY <1>1 DEF MonitoringInv, MonitoringTypeOK, MetricsTypeOK
    <3> QED
      BY <3>1
  <2> HIDE DEF m, log, d, InRange
  <2>5. Cardinality(Recent(m, range)) = Cardinality(InRange)
    <3> DEFINE n == Len(m)
               S == Recent(m, range)
    <3>1. /\ n \in Nat /\ S \in SUBSET (1 .. n)
          /\ \A i \in S : i + d \in InRange
          /\ \A j \in InRange : j - d \in S
      BY <2>2, <2>3
    <3> HIDE DEF n, S
    <3>2. MovedBy(S, InRange, d, n)
      BY <2>2, <2>4, <3>1 DEF MovedBy
    <3>3. Cardinality(S) = Cardinality(InRange)
      BY <3>2, MovedAreAsMany
    <3> QED
      BY <3>3 DEF S
  <2>6. ASSUME NEW k \in Kinds
        PROVE  Cardinality({i \in Recent(m, range) : m[i].kind = k})
                  = Cardinality({i \in InRange : log[i].kind = k})
    <3> DEFINE S == {i \in Recent(m, range) : m[i].kind = k}
               T == {i \in InRange : log[i].kind = k}
               n == Len(m)
    <3>1. n \in Nat /\ S \in SUBSET (1 .. n) /\ T \in SUBSET Nat
      BY <2>2, <2>4
    <3>2. /\ \A i \in S : i + d \in T
          /\ \A j \in T : j - d \in S
      BY <2>2, <2>3
    <3> HIDE DEF S, T, n
    <3>3. MovedBy(S, T, d, n)
      BY <2>2, <3>1, <3>2 DEF MovedBy
    <3>4. Cardinality(S) = Cardinality(T)
      BY <3>3, MovedAreAsMany
    <3> QED
      BY <3>4 DEF S, T
  <2> QED
    BY <2>5, <2>6 DEF Summary, m, log, InRange
<1>2. MonitoringInv => SummariesComplete
  BY <1>1 DEF SummariesComplete
<1> QED
  BY <1>2, MonitoringInvariant, PTL

\* Whatever range a client asks for, the number of errors a monitoring route answers
\* lies between the failures of the last MaxMetrics in the part of the range that is
\* kept and those in the range.
THEOREM ErrorsAreReported == MonitoringSpec => ErrorsReported
<1> DEFINE e == "errorMetrics"
           RangeOfAnswer == IF answer'.asked = None THEN DefaultRange ELSE answer'.asked
           Kept(range) == IF range < Retention THEN range ELSE Retention
           Reported == answer' # None /\ "errorMetrics" \in DOMAIN answer'.summaries =>
              LET range == IF answer'.asked = None THEN DefaultRange ELSE answer'.asked
                  kept == IF range < Retention THEN range ELSE Retention
              IN  answer'.summaries["errorMetrics"].total
                    \in Cardinality(FailedWithin(kept)) .. Cardinality(FailedWithin(range))
<1>1. ASSUME MonitoringInv, NEW range \in Int
      PROVE  Cardinality(Recent(metrics[e], range))
                \in Cardinality(FailedWithin(Kept(range))) .. Cardinality(FailedWithin(range))
  <2> DEFINE m == metrics[e]
             log == recorded[e]
             d == Len(log) - Len(m)
             T == Seen(log, d, range)
  <2>1. e \in Buffers
    BY BuffersAssumption
  <2>2. /\ d \in Nat /\ Len(m) \in Nat /\ Len(log) \in Nat /\ d >= Len(log) - MaxMetrics
        /\ Recent(m, range) \in SUBSET (1 .. Len(m))
        /\ \A i \in Recent(m, range) : i + d \in T
        /\ \A j \in T : j - d \in Recent(m, range)
    BY <1>1, <2>1, RecentMoved
  <2>3. failed = log /\ log \in Seq(Entry) /\ now \in Nat
    BY <1>1, <2>1 DEF MonitoringInv, MonitoringTypeOK, MetricsTypeOK
  <2>4. DOMAIN log = 1 .. Len(log)
    BY <2>3
  <2>5. T \in SUBSET (1 .. Len(log))
    BY <2>4 DEF Seen
  <2>6. T \in SUBSET FailedWithin(range)
    <3>1. \A j \in T : j \in 1 .. Len(log) /\ j > d /\ log[j].at >= now - range
      BY <2>4 DEF Seen
    <3>2. \A j \in T : j > Len(log) - MaxMetrics
      <4> HIDE DEF log, d, T
      <4> QED
        BY <2>2, <3>1, BoundsAssumption
    <3> QED
      BY <2>3, <2>4, <3>1, <3>2 DEF FailedWithin
  <2>7. Kept(range) \in Int /\ Kept(range) <= Retention /\ Kept(range) <= range
    BY BoundsAssumption
  <2>8. FailedWithin(Kept(range)) \in SUBSET T
    <3>1. ASSUME NEW j \in FailedWithin(Kept(range))
          PROVE  j \in T
      <4>1. j \in 1 .. Len(log) /\ j > Len(log) - MaxMetrics /\ log[j].at >= now - Kept(range)
        BY <2>3, <2>4 DEF FailedWithin
      <4>2. j \in Seen(log, d, Kept(range))
        BY <1>1, <2>1, <2>4, <2>7, <4>1, NothingLeftOut
      <4>3. log[j].at >= now - range
        <5>1. log[j] \in Entry
          BY <2>3, <4>1
        <5>2. log[j].at \in Nat
          BY <5>1 DEF Entry
        <5> HIDE DEF Kept, log
        <5> QED
          BY <2>3, <2>7, <4>1, <5>2
      <4> QED
        BY <4>2, <4>3 DEF Seen
    <3> QED
      BY <3>1
  <2> HIDE DEF m, log, d, T, Kept
  <2>9. Cardinality(Recent(m, range)) = Cardinality(T) /\ Cardinality(T) \in Nat /\ IsFiniteSet(T)
    <3>1. T \in SUBSET Nat
      BY <2>5
    <3> DEFINE n == Len(m)
               S == Recent(m, range)
    <3>2. /\ n \in Nat /\ S \in SUBSET (1 .. n)
          /\ \A i \in S : i + d \in T
          /\ \A j \in T : j - d \in S
      BY <2>2
    <3> HIDE DEF n, S
    <3>3. MovedBy(S, T, d, n)
      BY <2>2, <3>1, <3>2 DEF MovedBy
    <3>4. Cardinality(S) = Cardinality(T) /\ Cardinality(T) \in Nat /\ IsFiniteSet(T)
      BY <3>3, MovedAreAsMany
    <3> QED
      BY <3>4 DEF S
  <2>10. IsFiniteSet(FailedWithin(range))
    <3>1. IsFiniteSet(1 .. Len(log))
      BY <2>2, FS_Interval
    <3>2. FailedWithin(range) \in SUBSET (1 .. Len(log))
      BY <2>3, <2>4 DEF FailedWithin
    <3> QED
      BY <3>1, <3>2, FS_Subset
  <2>11. /\ Cardinality(T) <= Cardinality(FailedWithin(range))
         /\ Cardinality(FailedWithin(Kept(range))) <= Cardinality(T)
         /\ IsFiniteSet(FailedWithin(Kept(range)))
    BY <2>6, <2>8, <2>9, <2>10, FS_Subset
  <2>12. /\ Cardinality(FailedWithin(range)) \in Nat
         /\ Cardinality(FailedWithin(Kept(range))) \in Nat
    BY <2>10, <2>11, FS_CardinalityType
  <2> QED
    BY <2>9, <2>11, <2>12 DEF m
<1>2. ASSUME MonitoringInv, NEW p \in Requests, NEW buffers \in SUBSET Summarised, NEW asked,
             NEW range \in TimeRanges \cup {DefaultRange}, Answer(p, buffers, asked, range),
             range = IF asked = None THEN DefaultRange ELSE asked
      PROVE  Reported
  <2>1. /\ answer'.asked = asked
        /\ DOMAIN answer'.summaries = buffers
        /\ \A b \in buffers :
              answer'.summaries[b].total = Cardinality(Recent(metrics[b], range))
    BY <1>2 DEF Answer, Summary
  <2>2. range \in Int
    BY RangesAssumption
  <2> QED
    BY <1>1, <1>2, <2>1, <2>2
<1>3. ASSUME MonitoringInv, MonitoringNext
      PROVE  Reported
  <2>1. ASSUME NEW p \in Requests, NEW b \in Summarised,
               NEW timeRange \in TimeRanges \cup {None}, GetSummary(p, b, timeRange)
        PROVE  Reported
    BY <1>2, <1>3, <2>1 DEF GetSummary, RangeOf
  <2>2. ASSUME NEW p \in Requests, GetMetrics(p) \/ GetSystemMetrics(p)
        PROVE  Reported
    BY <1>2, <1>3, <2>2 DEF GetMetrics, GetSystemMetrics
  <2>3. CASE answer' = None
    BY <2>3
  <2> QED
    BY <1>3, <2>1, <2>2, <2>3 DEF MonitoringNext, Pass, Collect, Arrive, Throw, Succeed
<1>4. MonitoringInv /\ [MonitoringNext]_monitoringVars => [Reported]_monitoringVars
  BY <1>3
<1>5. MonitoringSpec => [][Reported]_monitoringVars
  BY <1>4, MonitoringInvariant, PTL DEF MonitoringSpec
<1> QED
  BY <1>5 DEF ErrorsReported

==============================================================================
