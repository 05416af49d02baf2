--------------------------- MODULE LspServerProofs ---------------------------
(***************************************************************************)
(* Proofs about LspServer, for every set of documents, texts and requests, *)
(* every number of slots and every capacity of the cache, from every       *)
(* session that begins with some documents open.                           *)
(***************************************************************************)
EXTENDS LspServer, FiniteSetTheorems, SequenceTheorems, WellFoundedInduction, TLAPS

(***************************************************************************)
(* Sequences and least numbers.                                            *)
(***************************************************************************)
\* Induction over the naturals without an operator parameter: the intervals
\* 0 .. n are well-founded by inclusion.
LEMMA LeastNumber == \A T \in SUBSET Nat : T # {} => \E m \in T : \A k \in T : m <= k
<1> SUFFICES ASSUME NEW T \in SUBSET Nat, T # {}
             PROVE  \E m \in T : \A k \in T : m <= k
  OBVIOUS
<1> DEFINE C == {0 .. n : n \in T}
           R == StrictSubsetOrdering(Nat)
<1>1. C \subseteq FiniteSubsetsOf(Nat)
  <2> SUFFICES ASSUME NEW n \in T PROVE 0 .. n \in FiniteSubsetsOf(Nat)  OBVIOUS
  <2> QED  BY FS_Interval DEF FiniteSubsetsOf
<1>2. PICK x \in C : \A y \in C : <<y, x>> \notin R
  <2>1. IsWellFoundedOn(R, FiniteSubsetsOf(Nat))  BY FS_StrictSubsetOrderingWellFounded
  <2>2. C # {}  OBVIOUS
  <2> HIDE DEF C, R
  <2> QED  BY <1>1, <2>1, <2>2, WFMin
<1>3. PICK m \in T : x = 0 .. m  OBVIOUS
<1>4. ASSUME NEW k \in T, k < m PROVE FALSE
  <2>1. 0 .. k \subseteq 0 .. m /\ 0 .. k # 0 .. m  BY <1>4
  <2>2. 0 .. k \subseteq Nat /\ 0 .. m \subseteq Nat  OBVIOUS
  <2>3. <<0 .. k, x>> \in R  BY <1>3, <2>1, <2>2 DEF StrictSubsetOrdering
  <2> QED  BY <1>2, <2>3
<1> QED  BY <1>4

LEMMA MinOfNaturals ==
  ASSUME NEW T \in SUBSET Nat, T # {}
  PROVE  Min(T) \in T
BY LeastNumber DEF Min

LEMMA AppendRange ==
  ASSUME NEW S, NEW s \in Seq(S), NEW e \in S
  PROVE  /\ Append(s, e) \in Seq(S) /\ Len(Append(s, e)) = Len(s) + 1
         /\ DOMAIN Append(s, e) = 1 .. Len(s) + 1 /\ DOMAIN s = 1 .. Len(s)
         /\ \A i \in 1 .. Len(s) : Append(s, e)[i] = s[i]
         /\ Append(s, e)[Len(s) + 1] = e
         /\ Range(Append(s, e)) = Range(s) \cup {e}
<1>1. DOMAIN s = 1 .. Len(s) /\ DOMAIN Append(s, e) = 1 .. Len(s) + 1  OBVIOUS
<1>2. \A i \in 1 .. Len(s) : Append(s, e)[i] = s[i]  OBVIOUS
<1>3. Append(s, e)[Len(s) + 1] = e  OBVIOUS
<1> QED  BY <1>1, <1>2, <1>3 DEF Range

LEMMA TailRange ==
  ASSUME NEW S, NEW s \in Seq(S), s # << >>
  PROVE  /\ Head(s) \in S /\ Tail(s) \in Seq(S) /\ Head(s) = s[1] /\ 1 \in DOMAIN s
         /\ DOMAIN Tail(s) = 1 .. Len(s) - 1 /\ DOMAIN s = 1 .. Len(s)
         /\ \A i \in DOMAIN Tail(s) : Tail(s)[i] = s[i + 1] /\ i + 1 \in DOMAIN s
         /\ Range(s) = Range(Tail(s)) \cup {Head(s)}
<1>1. /\ Head(s) \in S /\ Tail(s) \in Seq(S) /\ Head(s) = s[1] /\ 1 \in DOMAIN s
      /\ DOMAIN Tail(s) = 1 .. Len(s) - 1 /\ DOMAIN s = 1 .. Len(s) /\ Len(s) \in Nat
  OBVIOUS
<1>2. \A i \in DOMAIN Tail(s) : Tail(s)[i] = s[i + 1] /\ i + 1 \in DOMAIN s
  BY <1>1, HeadTailProperties
<1>3. \A i \in DOMAIN s : i = 1 \/ (i - 1 \in DOMAIN Tail(s) /\ s[i] = Tail(s)[i - 1])
  BY <1>1, <1>2
<1>4. Range(s) = Range(Tail(s)) \cup {Head(s)}
  <2>1. \A x \in Range(Tail(s)) \cup {Head(s)} : x \in Range(s)  BY <1>1, <1>2 DEF Range
  <2>2. \A i \in DOMAIN s : s[i] \in Range(Tail(s)) \cup {Head(s)}  BY <1>1, <1>3 DEF Range
  <2>3. \A x \in Range(s) : x \in Range(Tail(s)) \cup {Head(s)}  BY <2>2 DEF Range
  <2> QED  BY <2>1, <2>3
<1> QED  BY <1>1, <1>2, <1>4

LEMMA RemoveAtSeq ==
  ASSUME NEW S, NEW s \in Seq(S), NEW i \in 1 .. Len(s)
  PROVE  /\ RemoveAt(s, i) \in Seq(S)
         /\ Len(RemoveAt(s, i)) = Len(s) - 1
         /\ \A j \in 1 .. Len(s) - 1 : RemoveAt(s, i)[j] = IF j < i THEN s[j] ELSE s[j + 1]
<1> DEFINE a == SubSeq(s, 1, i - 1)
           b == SubSeq(s, i + 1, Len(s))
<1>1. a \in Seq(S) /\ Len(a) = i - 1 /\ \A j \in 1 .. i - 1 : a[j] = s[j]
  BY SubSeqProperties
<1>2. b \in Seq(S) /\ Len(b) = Len(s) - i /\ \A j \in 1 .. Len(s) - i : b[j] = s[i + j]
  BY SubSeqProperties
<1>3. RemoveAt(s, i) = a \o b  BY DEF RemoveAt
<1> HIDE DEF a, b
<1>4. a \o b \in Seq(S) /\ Len(a \o b) = Len(a) + Len(b)
  BY <1>1, <1>2, ConcatProperties
<1>5. \A j \in 1 .. Len(a) + Len(b) : (a \o b)[j] = IF j <= Len(a) THEN a[j] ELSE b[j - Len(a)]
  BY <1>1, <1>2, ConcatProperties
<1>6. \A j \in 1 .. Len(s) - 1 : (a \o b)[j] = IF j < i THEN s[j] ELSE s[j + 1]
  <2> SUFFICES ASSUME NEW j \in 1 .. Len(s) - 1
               PROVE  (a \o b)[j] = IF j < i THEN s[j] ELSE s[j + 1]
    OBVIOUS
  <2>1. CASE j < i  BY <2>1, <1>1, <1>2, <1>5
  <2>2. CASE ~ (j < i)
    <3>1. j - (i - 1) \in 1 .. Len(s) - i /\ i + (j - (i - 1)) = j + 1  BY <2>2
    <3>2. (a \o b)[j] = b[j - (i - 1)]  BY <2>2, <1>1, <1>2, <1>5
    <3>3. b[j - (i - 1)] = s[j + 1]  BY <3>1, <1>2
    <3> QED  BY <2>2, <3>2, <3>3
  <2> QED  BY <2>1, <2>2
<1> QED  BY <1>1, <1>2, <1>3, <1>4, <1>6

LEMMA RemoveAtRange ==
  ASSUME NEW S, NEW s \in Seq(S), NEW i \in 1 .. Len(s), IsInjective(s)
  PROVE  IsInjective(RemoveAt(s, i)) /\ Range(RemoveAt(s, i)) = Range(s) \ {s[i]}
<1> DEFINE r == RemoveAt(s, i)
<1>1. DOMAIN s = 1 .. Len(s) /\ DOMAIN r = 1 .. Len(s) - 1 /\ Len(s) \in Nat
  BY RemoveAtSeq
<1>2. \A j \in DOMAIN r : r[j] = IF j < i THEN s[j] ELSE s[j + 1]  BY <1>1, RemoveAtSeq
<1>3. \A j \in DOMAIN s : j # i => \E k \in DOMAIN r : r[k] = s[j]
  <2> SUFFICES ASSUME NEW j \in DOMAIN s, j # i PROVE \E k \in DOMAIN r : r[k] = s[j]
    OBVIOUS
  <2>1. CASE j < i  BY <2>1, <1>1, <1>2
  <2>2. CASE j > i  BY <2>2, <1>1, <1>2, j - 1 \in DOMAIN r, r[j - 1] = s[j]
  <2> QED  BY <2>1, <2>2, <1>1
<1>4. \A j \in DOMAIN r : \E k \in DOMAIN s : k # i /\ r[j] = s[k]  BY <1>1, <1>2
<1>5. IsInjective(r)
  <2> SUFFICES ASSUME NEW j \in DOMAIN r, NEW k \in DOMAIN r, r[j] = r[k] PROVE j = k
    BY DEF IsInjective
  <2> DEFINE J == IF j < i THEN j ELSE j + 1
             K == IF k < i THEN k ELSE k + 1
  <2>1. J \in DOMAIN s /\ K \in DOMAIN s /\ r[j] = s[J] /\ r[k] = s[K]  BY <1>1, <1>2
  <2>2. J = K  BY <2>1 DEF IsInjective
  <2> QED  BY <2>2, <1>1
<1> HIDE DEF r
<1>6. Range(r) = Range(s) \ {s[i]}
  <2>1. \A j \in DOMAIN s : s[j] = s[i] => j = i  BY <1>1 DEF IsInjective
  <2> QED  BY <1>3, <1>4, <2>1 DEF Range
<1> QED  BY <1>5, <1>6 DEF r

LEMMA InjectiveLength ==
  ASSUME NEW S, NEW s \in Seq(S), IsInjective(s)
  PROVE  IsFiniteSet(Range(s)) /\ Cardinality(Range(s)) = Len(s) /\ Len(s) \in Nat
<1>1. DOMAIN s = 1 .. Len(s) /\ Len(s) \in Nat  OBVIOUS
<1>2. IsFiniteSet(DOMAIN s) /\ Cardinality(DOMAIN s) = Len(s)  BY <1>1, FS_Interval
<1>3. s \in [DOMAIN s -> Range(s)]  BY <1>1 DEF Range
<1>4. s \in Surjection(DOMAIN s, Range(s))  BY <1>3 DEF Surjection, Range
<1>5. s \in Injection(DOMAIN s, Range(s))  BY <1>3 DEF Injection, IsInjective
<1> QED  BY <1>1, <1>2, <1>4, <1>5, FS_Surjection

-----------------------------------------------------------------------------
(***************************************************************************)
(* A slot is in one place only, and exactly the running analyses that keep *)
(* debug information are announced.                                        *)
(***************************************************************************)
SlotsApart ==
  /\ IsInjective(free) /\ IsInjective(reserved)
  /\ locale = "hold" => free = << >> /\ Busy = {}
  /\ locale # "hold" => reserved = << >>
  /\ \A w \in Busy : worker[w].slot \notin Range(free)
  /\ \A w, z \in Busy : worker[w].slot = worker[z].slot => w = z
  /\ \A s \in Slots : s \in Range(free) \cup Range(reserved)
                      \/ \E w \in Busy : worker[w].slot = s
  /\ inflight = UNION {InFlightEntry(worker[w].job, worker[w].slot) : w \in Busy}

(***************************************************************************)
(* What is printed or found in the cache is what its key says.             *)
(***************************************************************************)
Backed ==
  /\ \A s \in Slots : record[s] # None => held[s] = record[s]
  /\ \A w \in Workers : worker[w].pc = "emit" =>
       LET job == worker[w].job
           h == held[worker[w].slot]
       IN job.view # None /\ h # None /\ h.uri = job.uri /\ h.text = job.text
  /\ \A i \in DOMAIN cache : cache[i].result = cache[i].key
  /\ \A i, j \in DOMAIN cache : cache[i].key = cache[j].key => i = j

(***************************************************************************)
(* A view request without a response is asked by one job at most, which    *)
(* carries what was asked for.                                             *)
(***************************************************************************)
Undone(w) == worker[w].pc \in {"check", "reserve", "analyse", "emit"}
Owed(job) == job.view # None => /\ asked[job.view] = ViewKey(job.uri, job.text, job.kind)
                                /\ replies[job.view] = << >>
Differ(j1, j2) == j1.view = j2.view => j1.view = None

OwedOnce ==
  /\ Owed(enq["main"].job)
  /\ \A i \in DOMAIN queue : Owed(queue[i]) /\ Differ(queue[i], enq["main"].job)
  /\ \A i, j \in DOMAIN queue : i # j => Differ(queue[i], queue[j])
  /\ \A w \in Workers : Undone(w) =>
       /\ Owed(worker[w].job) /\ Differ(worker[w].job, enq["main"].job)
       /\ \A i \in DOMAIN queue : Differ(worker[w].job, queue[i])
       /\ \A z \in Workers : Undone(z) /\ w # z => Differ(worker[w].job, worker[z].job)
  /\ \A v \in Views : asked[v] = None => replies[v] = << >>

(***************************************************************************)
(* No job is of a generation that was not given out; and a job of the      *)
(* newest generation that has got a slot is recorded as such.              *)
(***************************************************************************)
Dated(job) == job.gen <= gen[job.uri]

GenerationsRight ==
  /\ \A t \in Threads : enq[t].pc = "push" => Dated(enq[t].job)
  /\ \A i \in DOMAIN queue : Dated(queue[i])
  /\ \A w \in Workers : worker[w].job # NoJob => Dated(worker[w].job)
  /\ \A w \in Busy : LET job == worker[w].job IN
       job.gen = gen[job.uri] => newest[job.uri].ran

LspInv == TypeOK /\ SlotsApart /\ Backed /\ OwedOnce /\ AnswersRight
          /\ GenerationsRight /\ NewestNeverLost /\ NoDuplicateAnalysis
-----------------------------------------------------------------------------
(***************************************************************************)
(* Types.                                                                  *)
(***************************************************************************)
LEMMA NoJobIsNone ==
  /\ NoJob \notin Jobs /\ NoJob.view = None /\ NoJob.uri = None
  /\ \A r \in Working : /\ r.pc \notin {"idle", "exit"} => r.job \in Jobs
                        /\ r.pc \in {"idle", "exit"} => r.job = NoJob
                        /\ r.pc \in BusyPCs => r.slot \in Slots
  /\ \A e \in Enqueuing : /\ e.pc # "idle" => e.job \in Jobs /\ e.pc \in {"bump", "push"}
                          /\ e.pc = "idle" => e.job = NoJob
BY LspAssumption DEF Jobs, NoJob, Working, Enqueuing

LEMMA JobsType ==
  ASSUME NEW j \in Jobs
  PROVE  /\ j.uri \in Uris /\ j.text \in Texts /\ j.view \in Views \cup {None}
         /\ j.gen \in Nat /\ j.dbg \in BOOLEAN
         /\ j.view # None => j.kind \in Kinds /\ j.dbg
         /\ \A g \in Nat : [j EXCEPT !.gen = g] \in Jobs
BY DEF Jobs

LEMMA BeginEffect ==
  ASSUME TypeOK, NEW t \in Threads, NEW u \in Uris, NEW x \in Texts, NEW v, NEW k,
         \/ v = None /\ k = None
         \/ v \in Views /\ k \in Kinds,
         Begin(t, u, x, v, k)
  PROVE  /\ enq' \in [Threads -> Enqueuing]
         /\ enq'[t].pc = "bump" /\ enq'[t].job.view = v /\ enq'[t].job.kind = k
         /\ enq'[t].job.uri = u /\ enq'[t].job.text = x /\ enq'[t].job.gen = 0
         /\ \A z \in Threads : z # t => enq'[z] = enq[z]
<1> DEFINE j == [uri |-> u, text |-> x, view |-> v, kind |-> k, gen |-> 0,
                 dbg |-> v # None \/ u \in viewUris]
<1>1. j \in Jobs  BY DEF Jobs
<1>2. [pc |-> "bump", job |-> j] \in Enqueuing  BY <1>1, NoJobIsNone DEF Enqueuing
<1>3. enq' = [enq EXCEPT ![t] = [pc |-> "bump", job |-> j]]  BY DEF Begin
<1>4. enq \in [Threads -> Enqueuing]  BY DEF TypeOK, EnqueueType
<1> HIDE DEF j
<1>5. enq' \in [Threads -> Enqueuing] /\ enq'[t] = [pc |-> "bump", job |-> j]
      /\ \A z \in Threads : z # t => enq'[z] = enq[z]
  BY <1>2, <1>3, <1>4
<1> QED  BY <1>5 DEF j

LEMMA WorkingEntry ==
  ASSUME NEW pc \in {"check", "reserve"} \cup BusyPCs, NEW j \in Jobs, NEW s \in 0 .. PoolSize,
         pc \in BusyPCs => s \in Slots
  PROVE  [pc |-> pc, job |-> j, slot |-> s] \in Working
<1> DEFINE r == [pc |-> pc, job |-> j, slot |-> s]
<1>1. j # NoJob  BY NoJobIsNone
<1>2. r.pc = pc /\ r.job = j /\ r.slot = s  OBVIOUS
<1>3. pc \notin {"idle", "exit"}  BY DEF BusyPCs
<1>4. r \in [pc : {"idle", "exit", "check", "reserve"} \cup BusyPCs,
             job : Jobs \cup {NoJob}, slot : 0 .. PoolSize]
  OBVIOUS
<1> HIDE DEF r
<1>5. r \in Working  BY <1>1, <1>2, <1>3, <1>4 DEF Working
<1> QED  BY <1>5 DEF r

\* A worker's step changes its own entry.
LEMMA StepType ==
  ASSUME TypeOK, NEW w \in Workers, NEW r \in Working,
         worker' = [worker EXCEPT ![w] = r]
  PROVE  /\ worker' \in [Workers -> Working]
         /\ worker'[w] = r
         /\ \A z \in Workers : z # w => worker'[z] = worker[z]
BY DEF TypeOK, PoolType

LEMMA StepEffect ==
  ASSUME TypeOK, NEW w \in Workers, worker[w].pc \in BusyPCs,
         NEW pc \in BusyPCs, Step(w, pc)
  PROVE  /\ worker' \in [Workers -> Working]
         /\ worker'[w] = [worker[w] EXCEPT !.pc = pc]
         /\ worker'[w].pc = pc /\ worker'[w].job = worker[w].job
         /\ worker'[w].slot = worker[w].slot
         /\ \A z \in Workers : z # w => worker'[z] = worker[z]
<1>1. worker[w] \in Working  BY DEF TypeOK, PoolType
<1>2. [worker[w] EXCEPT !.pc = pc] \in Working  BY <1>1 DEF Working, BusyPCs
<1>3. worker' = [worker EXCEPT ![w] = [worker[w] EXCEPT !.pc = pc]]  BY DEF Step, TypeOK, PoolType
<1>4. /\ worker' \in [Workers -> Working]
      /\ worker'[w] = [worker[w] EXCEPT !.pc = pc]
      /\ \A z \in Workers : z # w => worker'[z] = worker[z]
  BY <1>2, <1>3, StepType
<1>5. LET e == [worker[w] EXCEPT !.pc = pc] IN
      e.pc = pc /\ e.job = worker[w].job /\ e.slot = worker[w].slot
  BY <1>1 DEF Working
<1> QED  BY <1>4, <1>5

LEMMA IdleType == Idle \in Working /\ Idle.pc = "idle" /\ Idle.job = NoJob
BY LspAssumption, NoJobIsNone DEF Idle, Working, BusyPCs

LEMMA CachePositionType ==
  ASSUME TypeOK, NEW key
  PROVE  /\ CachePosition(key) \in 0 .. Len(cache)
         /\ CachePosition(key) > 0 => cache[CachePosition(key)].key = key
         /\ CachePosition(key) = 0 => \A i \in 1 .. Len(cache) : cache[i].key # key
<1> DEFINE T == {i \in 1 .. Len(cache) : cache[i].key = key}
<1>1. CachePosition(key) = IF T # {} THEN Min(T) ELSE 0  BY DEF CachePosition, SelectInSeq
<1>2. Len(cache) \in Nat  BY DEF TypeOK, OutputType
<1>3. T # {} => Min(T) \in T  BY <1>2, MinOfNaturals
<1> QED  BY <1>1, <1>2, <1>3

LEMMA PreferredType ==
  ASSUME TypeOK, NEW job, free # << >>
  PROVE  /\ Preferred(job) \in 1 .. Len(free)
         /\ (\E s \in Range(free) : RecordMatches(s, job)) => RecordMatches(free[Preferred(job)], job)
<1> DEFINE T == {i \in 1 .. Len(free) : RecordMatches(free[i], job)}
           U == {i \in 1 .. Len(free) : RecordUriMatches(free[i], job)}
<1>1. Len(free) \in Nat /\ Len(free) # 0 /\ DOMAIN free = 1 .. Len(free)  BY DEF TypeOK, PoolType
<1>2. (T # {} => Min(T) \in T) /\ (U # {} => Min(U) \in U)
  <2>1. T \in SUBSET Nat /\ U \in SUBSET Nat  BY <1>1
  <2> HIDE DEF T, U
  <2> QED  BY <2>1, MinOfNaturals
<1>3. Preferred(job) = IF T # {} THEN Min(T) ELSE IF U # {} THEN Min(U) ELSE Len(free)
  <2>1. (T # {} => Min(T) > 0) /\ (U # {} => Min(U) > 0)  BY <1>1, <1>2
  <2>2. Preferred(job) = IF (IF T # {} THEN Min(T) ELSE 0) > 0 THEN (IF T # {} THEN Min(T) ELSE 0)
                         ELSE IF (IF U # {} THEN Min(U) ELSE 0) > 0 THEN (IF U # {} THEN Min(U) ELSE 0)
                         ELSE Len(free)
    BY DEF Preferred, SelectInSeq
  <2> QED  BY <2>1, <2>2
<1>4. (\E s \in Range(free) : RecordMatches(s, job)) => T # {}
  BY <1>1 DEF Range
<1> QED  BY <1>1, <1>2, <1>3, <1>4

\* The cache after an insertion: the new entry and some of the old ones.
LEMMA TouchedEffect ==
  ASSUME TypeOK, Backed, NEW i \in 1 .. Len(cache)
  PROVE  /\ Touched(i) \in Seq([key : ViewKeys, result : ViewKeys])
         /\ \A n \in DOMAIN Touched(i) : \E m \in DOMAIN cache : Touched(i)[n] = cache[m]
         /\ \A n, m \in DOMAIN Touched(i) : Touched(i)[n].key = Touched(i)[m].key => n = m
<1> DEFINE E == [key : ViewKeys, result : ViewKeys]
           r == RemoveAt(cache, i)
<1>1. cache \in Seq(E) /\ DOMAIN cache = 1 .. Len(cache) /\ Len(cache) \in Nat
  BY DEF TypeOK, OutputType
<1>2. Touched(i) = <<cache[i]>> \o r  BY DEF Touched
<1> HIDE DEF E
<1>3. /\ r \in Seq(E) /\ Len(r) = Len(cache) - 1 /\ DOMAIN r = 1 .. Len(cache) - 1
      /\ \A j \in 1 .. Len(cache) - 1 : r[j] = IF j < i THEN cache[j] ELSE cache[j + 1]
  <2>1. /\ r \in Seq(E) /\ Len(r) = Len(cache) - 1
        /\ \A j \in 1 .. Len(cache) - 1 : r[j] = IF j < i THEN cache[j] ELSE cache[j + 1]
    BY <1>1, RemoveAtSeq
  <2> QED  BY <2>1
<1> HIDE DEF r
<1>4. <<cache[i]>> \in Seq(E) /\ Len(<<cache[i]>>) = 1 /\ <<cache[i]>>[1] = cache[i]  BY <1>1
<1>5. /\ Touched(i) \in Seq(E) /\ Len(Touched(i)) = Len(cache)
      /\ DOMAIN Touched(i) = 1 .. Len(cache)
      /\ \A n \in 1 .. Len(cache) : Touched(i)[n] = IF n = 1 THEN cache[i] ELSE r[n - 1]
  <2>1. /\ Touched(i) \in Seq(E) /\ Len(Touched(i)) = 1 + (Len(cache) - 1)
        /\ \A n \in 1 .. 1 + (Len(cache) - 1) :
             Touched(i)[n] = IF n <= 1 THEN <<cache[i]>>[n] ELSE r[n - 1]
    BY <1>2, <1>3, <1>4, ConcatProperties
  <2> QED  BY <2>1, <1>1, <1>4
<1> DEFINE From(n) == IF n = 1 THEN i ELSE IF n - 1 < i THEN n - 1 ELSE n
<1>6. \A n \in 1 .. Len(cache) : From(n) \in DOMAIN cache /\ Touched(i)[n] = cache[From(n)]
  <2> SUFFICES ASSUME NEW n \in 1 .. Len(cache), n # 1
               PROVE  From(n) \in DOMAIN cache /\ Touched(i)[n] = cache[From(n)]
    BY <1>1, <1>5
  <2>1. n - 1 \in 1 .. Len(cache) - 1 /\ Touched(i)[n] = r[n - 1]  BY <1>1, <1>5
  <2>2. r[n - 1] = IF n - 1 < i THEN cache[n - 1] ELSE cache[n]  BY <1>3, <2>1
  <2> QED  BY <2>1, <2>2, <1>1
<1>7. \A n, m \in 1 .. Len(cache) : From(n) = From(m) => n = m  BY <1>1
<1>8. \A n, m \in DOMAIN cache : cache[n].key = cache[m].key => n = m  BY DEF Backed
<1>9. Touched(i) \in Seq([key : ViewKeys, result : ViewKeys])  BY <1>5 DEF E
<1> HIDE DEF From
<1>10. \A n \in DOMAIN Touched(i) : \E m \in DOMAIN cache : Touched(i)[n] = cache[m]
  BY <1>5, <1>6
<1>11. \A n, m \in DOMAIN Touched(i) : Touched(i)[n].key = Touched(i)[m].key => n = m
  <2> SUFFICES ASSUME NEW n \in 1 .. Len(cache), NEW m \in 1 .. Len(cache),
                      Touched(i)[n].key = Touched(i)[m].key
               PROVE  n = m
    BY <1>5
  <2>1. cache[From(n)].key = cache[From(m)].key  BY <1>6
  <2>2. From(n) = From(m)  BY <2>1, <1>6, <1>8
  <2> QED  BY <2>2, <1>7
<1> QED  BY <1>9, <1>10, <1>11

LEMMA InsertedEffect ==
  ASSUME TypeOK, Backed, NEW key \in ViewKeys, NEW v \in ViewKeys
  PROVE  LET c == Inserted(key, v) IN
         /\ c \in Seq([key : ViewKeys, result : ViewKeys])
         /\ \A n \in DOMAIN c : \/ c[n] = [key |-> key, result |-> v]
                                \/ \E m \in DOMAIN cache : c[n] = cache[m]
         /\ \A n, m \in DOMAIN c : c[n].key = c[m].key => n = m
<1> DEFINE E == [key : ViewKeys, result : ViewKeys]
           e == [key |-> key, result |-> v]
           p == CachePosition(key)
           others == IF p > 0 THEN RemoveAt(cache, p) ELSE cache
           all == <<e>> \o others
<1>1. cache \in Seq(E) /\ DOMAIN cache = 1 .. Len(cache) /\ Len(cache) \in Nat
  BY DEF TypeOK, OutputType
<1>2. \A n, m \in DOMAIN cache : cache[n].key = cache[m].key => n = m  BY DEF Backed
<1>3. p \in 0 .. Len(cache) /\ (p > 0 => cache[p].key = key)
      /\ (p = 0 => \A i \in 1 .. Len(cache) : cache[i].key # key)
  BY CachePositionType
<1> HIDE DEF p
<1>4. /\ others \in Seq(E)
      /\ \A n \in DOMAIN others : others[n].key # key /\ \E m \in DOMAIN cache : others[n] = cache[m]
      /\ \A n, m \in DOMAIN others : others[n].key = others[m].key => n = m
  <2>1. CASE p = 0  BY <2>1, <1>1, <1>2, <1>3
  <2>2. CASE p > 0
    <3>0. p \in 1 .. Len(cache)  BY <2>2, <1>3
    <3>1. /\ others \in Seq(E) /\ DOMAIN others = 1 .. Len(cache) - 1
          /\ \A j \in 1 .. Len(cache) - 1 : others[j] = IF j < p THEN cache[j] ELSE cache[j + 1]
      BY <2>2, <3>0, <1>1, RemoveAtSeq
    <3> DEFINE From(n) == IF n < p THEN n ELSE n + 1
    <3>2. \A n \in DOMAIN others : /\ From(n) \in DOMAIN cache /\ others[n] = cache[From(n)]
                                   /\ From(n) # p
      BY <3>0, <3>1, <1>1
    <3>3. \A n, m \in DOMAIN others : From(n) = From(m) => n = m  BY <3>0, <3>1, <1>1
    <3>4. p \in DOMAIN cache  BY <3>0, <1>1
    <3> HIDE DEF From, others
    <3> QED  BY <2>2, <3>1, <3>2, <3>3, <3>4, <1>2, <1>3
  <2> QED  BY <2>1, <2>2, <1>3
<1> HIDE DEF others
<1>5. e \in E /\ e.key = key  OBVIOUS
<1>6. Len(others) \in Nat /\ DOMAIN others = 1 .. Len(others)  BY <1>4
<1>7. /\ all \in Seq(E) /\ Len(all) = Len(others) + 1 /\ DOMAIN all = 1 .. Len(others) + 1
      /\ \A n \in 1 .. Len(others) + 1 : all[n] = IF n = 1 THEN e ELSE others[n - 1]
  <2>1. <<e>> \in Seq(E) /\ Len(<<e>>) = 1 /\ <<e>>[1] = e  BY <1>5
  <2>2. /\ all \in Seq(E) /\ Len(all) = 1 + Len(others)
        /\ \A n \in 1 .. 1 + Len(others) : all[n] = IF n <= 1 THEN <<e>>[n] ELSE others[n - 1]
    BY <1>4, <2>1, ConcatProperties
  <2> QED  BY <2>1, <2>2, <1>6
<1> HIDE DEF all, e
<1>8. /\ \A n \in DOMAIN all : all[n] = e \/ \E m \in DOMAIN cache : all[n] = cache[m]
      /\ \A n, m \in DOMAIN all : all[n].key = all[m].key => n = m
  <2>1. \A n \in 2 .. Len(others) + 1 : n - 1 \in DOMAIN others /\ all[n] = others[n - 1]
    BY <1>6, <1>7
  <2>2. all[1] = e /\ 1 \in DOMAIN all /\ DOMAIN all = {1} \cup 2 .. Len(others) + 1
    BY <1>6, <1>7
  <2>3. \A n \in DOMAIN all : all[n] = e \/ \E m \in DOMAIN cache : all[n] = cache[m]
    BY <2>1, <2>2, <1>4
  <2>4. \A n, m \in 2 .. Len(others) + 1 : all[n].key = all[m].key => n = m
    <3> SUFFICES ASSUME NEW n \in 2 .. Len(others) + 1, NEW m \in 2 .. Len(others) + 1,
                        all[n].key = all[m].key
                 PROVE  n = m
      OBVIOUS
    <3>1. n - 1 = m - 1  BY <2>1, <1>4
    <3> QED  BY <3>1, <1>6
  <2>5. \A n \in 2 .. Len(others) + 1 : all[n].key # e.key  BY <2>1, <1>4, <1>5
  <2> QED  BY <2>2, <2>3, <2>4, <2>5
<1> DEFINE front == Front(all)
<1>9. /\ front \in Seq(E) /\ DOMAIN front = 1 .. Len(others)
      /\ \A n \in 1 .. Len(others) : front[n] = all[n] /\ n \in DOMAIN all
  <2>1. \A n \in 1 .. Len(others) : all[n] \in E
    <3>1. \A n \in 1 .. Len(all) : all[n] \in E  BY <1>7, ElementOfSeq
    <3> QED  BY <1>6, <1>7, <3>1
  <2>2. front = SubSeq(all, 1, Len(others))  BY <1>6, <1>7 DEF Front
  <2>3. /\ front \in Seq(E) /\ Len(front) = IF 1 <= Len(others) THEN Len(others) ELSE 0
        /\ \A n \in 1 .. Len(others) : front[n] = all[n]
    BY <1>6, <2>1, <2>2, SubSeqProperties
  <2> QED  BY <1>6, <1>7, <2>3
<1>10. Inserted(key, v) = IF Len(all) > CacheCap THEN front ELSE all
  BY DEF Inserted, all, others, p, e
<1> HIDE DEF front
<1>11. ASSUME NEW c, c = front \/ c = all
       PROVE  /\ c \in Seq(E)
              /\ \A n \in DOMAIN c : c[n] = e \/ \E m \in DOMAIN cache : c[n] = cache[m]
              /\ \A n, m \in DOMAIN c : c[n].key = c[m].key => n = m
  <2>1. CASE c = all  BY <2>1, <1>7, <1>8
  <2>2. CASE c = front  BY <2>2, <1>8, <1>9
  <2> QED  BY <1>11, <2>1, <2>2
<1> QED  BY <1>10, <1>11 DEF e

\* What a client message leaves of the message loop.
LEMMA LoopFreeIdle == TypeOK /\ LoopFree => enq["main"].job = NoJob
BY NoJobIsNone DEF TypeOK, EnqueueType, LoopFree, Threads

\* Each part of the type speaks of its own variables.
LEMMA Frames ==
  /\ ClientType /\ UNCHANGED client => ClientType'
  /\ OutputType /\ UNCHANGED output => OutputType'
  /\ QueueType /\ UNCHANGED <<gen, queue, newest>> => QueueType'
  /\ DebounceType /\ UNCHANGED debounce => DebounceType'
  /\ EnqueueType /\ UNCHANGED <<enq, deb>> => EnqueueType'
  /\ PoolType /\ UNCHANGED <<worker, pool, reserved>> => PoolType'
  /\ ControlType /\ UNCHANGED <<locale, stop>> => ControlType'
<1>1. ClientType /\ UNCHANGED client => ClientType'  BY DEF ClientType, client
<1>2. OutputType /\ UNCHANGED output => OutputType'  BY DEF OutputType, output
<1>3. QueueType /\ UNCHANGED <<gen, queue, newest>> => QueueType'  BY DEF QueueType
<1>4. DebounceType /\ UNCHANGED debounce => DebounceType'  BY DEF DebounceType, debounce
<1>5. EnqueueType /\ UNCHANGED <<enq, deb>> => EnqueueType'  BY DEF EnqueueType
<1>6. PoolType /\ UNCHANGED <<worker, pool, reserved>> => PoolType'  BY DEF PoolType, pool
<1>7. ControlType /\ UNCHANGED <<locale, stop>> => ControlType'  BY DEF ControlType
<1> QED  BY <1>1, <1>2, <1>3, <1>4, <1>5, <1>6, <1>7

LEMMA ClientTypeStep ==
  ASSUME TypeOK, Backed, Client
  PROVE  TypeOK'
<1> USE DEF TypeOK
<1>1. ASSUME NEW u \in Uris, NEW x \in Texts, DidOpen(u, x) PROVE TypeOK'
  <2>1. Begin("main", u, x, None, None)  BY <1>1 DEF DidOpen
  <2>2. enq' \in [Threads -> Enqueuing] /\ enq'["deb"] = enq["deb"]
    BY <2>1, BeginEffect DEF Threads
  <2>3. EnqueueType'  BY <1>1, <2>2 DEF DidOpen, EnqueueType, debounce
  <2>4. ClientType'  BY <1>1 DEF DidOpen, Message, ClientType
  <2> QED  BY <1>1, <2>3, <2>4, Frames DEF DidOpen
<1>2. ASSUME NEW u \in Uris, NEW x \in Texts, DidChange(u, x) PROVE TypeOK'
  <2>1. ClientType'  BY <1>2 DEF DidChange, Message, ClientType
  <2>2. DebounceType'  BY <1>2 DEF DidChange, DebounceType
  <2> QED  BY <1>2, <2>1, <2>2, Frames DEF DidChange
<1>3. ASSUME NEW u \in Uris, DidSave(u) PROVE TypeOK'
  <2>1. Begin("main", u, docs[u], None, None) /\ docs[u] \in Texts
    BY <1>3 DEF DidSave, ClientType
  <2>2. enq' \in [Threads -> Enqueuing] /\ enq'["deb"] = enq["deb"]
    BY <2>1, BeginEffect DEF Threads
  <2>3. EnqueueType'  BY <1>3, <2>2 DEF DidSave, EnqueueType, debounce
  <2>4. ClientType'  BY <1>3 DEF DidSave, Message, ClientType
  <2> QED  BY <1>3, <2>3, <2>4, Frames DEF DidSave
<1>4. ASSUME NEW u \in Uris, DidClose(u) PROVE TypeOK'
  <2>1. ClientType'  BY <1>4 DEF DidClose, Message, ClientType
  <2> QED  BY <1>4, <2>1, Frames DEF DidClose, debounce
<1>5. ASSUME NEW v \in Views, NEW u \in Uris, NEW k \in Kinds, ViewRequest(v, u, k) PROVE TypeOK'
  <2> DEFINE key == ViewKey(u, docs[u], k)
  <2>1. ClientType'  BY <1>5 DEF ViewRequest, Message, ClientType, ViewKey
  <2>2. EnqueueType' /\ OutputType'
    <3>1. CASE docs[u] = None
      <4>1. enq' = enq /\ cache' = cache /\ replies' = [replies EXCEPT ![v] = Append(@, NoView)]
        BY <1>5, <3>1 DEF ViewRequest
      <4>2. EnqueueType'  BY <1>5, <4>1, Frames DEF ViewRequest, debounce
      <4> QED  BY <4>1, <4>2 DEF OutputType
    <3>2. CASE docs[u] # None /\ CachePosition(key) > 0
      <4> DEFINE i == CachePosition(key)
      <4>1. /\ enq' = enq /\ cache' = Touched(i)
            /\ replies' = [replies EXCEPT ![v] = Append(@, cache[i].result)]
        BY <1>5, <3>2 DEF ViewRequest
      <4>2. i \in 1 .. Len(cache)  BY <3>2, CachePositionType DEF OutputType
      <4> HIDE DEF i
      <4>3. cache[i].result \in ViewKeys
        <5>1. cache[i] \in [key : ViewKeys, result : ViewKeys]
          BY <4>2, ElementOfSeq DEF OutputType
        <5> QED  BY <5>1
      <4>4. Touched(i) \in Seq([key : ViewKeys, result : ViewKeys])  BY <4>2, TouchedEffect
      <4>5. EnqueueType'  BY <1>5, <4>1, Frames DEF ViewRequest, debounce
      <4> QED  BY <4>1, <4>3, <4>4, <4>5 DEF OutputType
    <3>3. CASE docs[u] # None /\ CachePosition(key) = 0
      <4>1. Begin("main", u, docs[u], v, k) /\ replies' = replies /\ cache' = cache
        BY <1>5, <3>3 DEF ViewRequest
      <4>2. docs[u] \in Texts  BY <3>3 DEF ClientType
      <4>3. enq' \in [Threads -> Enqueuing] /\ enq'["deb"] = enq["deb"]
        BY <4>1, <4>2, BeginEffect DEF Threads
      <4>4. EnqueueType'  BY <1>5, <4>3 DEF ViewRequest, EnqueueType, debounce
      <4> QED  BY <4>1, <4>4 DEF OutputType
    <3> QED  BY <3>1, <3>2, <3>3, CachePositionType DEF OutputType
  <2> QED  BY <1>5, <2>1, <2>2, Frames DEF ViewRequest
<1>6. CASE LocaleAsk
  <2>1. ControlType' /\ ClientType'
    BY <1>6 DEF LocaleAsk, Message, ControlType, ClientType
  <2> QED  BY <1>6, <2>1, Frames DEF LocaleAsk, debounce
<1>7. CASE StopDebounce
  <2>1. ControlType' /\ ClientType'
    BY <1>7 DEF StopDebounce, Message, ControlType, ClientType
  <2> QED  BY <1>7, <2>1, Frames DEF StopDebounce, debounce
<1> QED  BY <1>1, <1>2, <1>3, <1>4, <1>5, <1>6, <1>7 DEF Client

LEMMA LoopTypeStep ==
  ASSUME TypeOK, Loop
  PROVE  TypeOK'
<1> USE DEF TypeOK
<1>1. ASSUME NEW t \in Threads, Bump(t) PROVE TypeOK'
  <2> DEFINE u == enq[t].job.uri
             e == [pc |-> "push", job |-> [enq[t].job EXCEPT !.gen = gen[u] + 1]]
  <2>0. enq[t].pc = "bump" /\ enq[t] \in Enqueuing  BY <1>1 DEF Bump, EnqueueType
  <2>1. enq[t].job \in Jobs  BY <2>0, NoJobIsNone
  <2>2. u \in Uris /\ gen[u] \in Nat  BY <2>1, JobsType DEF QueueType
  <2>3. [enq[t].job EXCEPT !.gen = gen[u] + 1] \in Jobs
    <3>1. gen[u] + 1 \in Nat  BY <2>2
    <3> HIDE DEF u
    <3> QED  BY <2>1, <3>1, JobsType
  <2>5. e \in Enqueuing /\ e.pc = "push"  BY <2>3, NoJobIsNone DEF Enqueuing
  <2>6. e.job.view = enq[t].job.view  BY <2>1 DEF Jobs
  <2>7. enq' = [enq EXCEPT ![t] = e]  BY <1>1 DEF Bump, EnqueueType
  <2>8. gen' = [gen EXCEPT ![u] = gen[u] + 1] /\ queue' = queue /\ deb' = deb
    BY <1>1 DEF Bump, QueueType, debounce
  <2>9. newest' = [newest EXCEPT ![u] =
                    [revision |-> IF enq[t].job.view = None THEN gen'[u] ELSE @.revision, ran |-> FALSE]]
    BY <1>1 DEF Bump
  <2> HIDE DEF e, u
  <2>10. EnqueueType'  BY <2>0, <2>5, <2>6, <2>7, <2>8 DEF EnqueueType, Threads
  <2>11. QueueType'  BY <2>2, <2>8, <2>9 DEF QueueType
  <2> QED  BY <1>1, <2>10, <2>11, Frames DEF Bump
<1>2. ASSUME NEW t \in Threads, Push(t) PROVE TypeOK'
  <2>1. enq[t].pc = "push" /\ enq[t] \in Enqueuing  BY <1>2 DEF Push, EnqueueType
  <2>2. enq[t].job \in Jobs  BY <2>1, NoJobIsNone
  <2>3. QueueType'  BY <1>2, <2>2 DEF Push, QueueType
  <2>4. [pc |-> "idle", job |-> NoJob] \in Enqueuing  BY NoJobIsNone DEF Enqueuing
  <2>5. /\ enq' = [enq EXCEPT ![t] = [pc |-> "idle", job |-> NoJob]]
        /\ deb' = IF t = "deb" THEN [NoChange EXCEPT !.fired = deb.fired] ELSE deb
        /\ pending' = pending
    BY <1>2 DEF Push
  <2>6. EnqueueType'
    BY <2>4, <2>5, NoJobIsNone DEF EnqueueType, Threads, NoChange
  <2>7. DebounceType'  BY <2>5 DEF DebounceType, NoChange
  <2> QED  BY <1>2, <2>3, <2>6, <2>7, Frames DEF Push
<1>3. CASE LocaleReserve
  <2>1. ControlType'  BY <1>3 DEF LocaleReserve, ControlType
  <2>2. PoolType'  BY <1>3 DEF LocaleReserve, PoolType
  <2> QED  BY <1>3, <2>1, <2>2, Frames DEF LocaleReserve, debounce
<1>4. CASE LocaleRelease
  <2>1. ControlType'  BY <1>4 DEF LocaleRelease, ControlType
  <2>2. PoolType'  BY <1>4 DEF LocaleRelease, PoolType
  <2> QED  BY <1>4, <2>1, <2>2, Frames DEF LocaleRelease, debounce
<1>5. CASE StopWorkers
  <2>1. ControlType'  BY <1>5 DEF StopWorkers, ControlType
  <2> QED  BY <1>5, <2>1, Frames DEF StopWorkers, debounce
<1> QED  BY <1>1, <1>2, <1>3, <1>4, <1>5 DEF Loop

LEMMA DebounceTypeStep ==
  ASSUME TypeOK, Debounce
  PROVE  TypeOK'
<1> USE DEF TypeOK
<1>1. CASE DebounceCapture
  <2>0. /\ deb' = [deb EXCEPT !.pc = "quiet", !.uri = pending.uri,
                              !.text = pending.text, !.gen = pending.gen]
        /\ pending' = pending /\ enq' = enq /\ deb.pc = "wait" /\ pending.gen # deb.fired
    BY <1>1 DEF DebounceCapture
  <2>1. pending.gen # 0  BY <2>0 DEF DebounceType
  <2>2. DebounceType'
    <3>1. pending.uri \in Uris /\ pending.text \in Texts /\ pending.gen \in Nat
      BY <2>1 DEF DebounceType
    <3>2. deb' \in [pc : {"wait", "quiet", "enqueue", "exit"}, uri : Uris \cup {None},
                    text : Texts \cup {None}, gen : Nat, fired : Nat]
      BY <2>0, <3>1 DEF DebounceType
    <3>3. /\ deb'.pc = "quiet" /\ deb'.gen = pending.gen /\ deb'.fired = deb.fired
          /\ deb'.uri = pending.uri /\ deb'.text = pending.text
      BY <2>0 DEF DebounceType
    <3> QED  BY <2>0, <3>1, <3>2, <3>3 DEF DebounceType
  <2>3. EnqueueType'  BY <2>0 DEF EnqueueType, DebounceType
  <2> QED  BY <1>1, <2>2, <2>3, Frames DEF DebounceCapture
<1>2. CASE DebounceAgain
  <2>1. DebounceType' /\ EnqueueType'
    BY <1>2 DEF DebounceAgain, DebounceType, EnqueueType, NoChange
  <2> QED  BY <1>2, <2>1, Frames DEF DebounceAgain
<1>3. CASE DebounceExit
  <2>1. DebounceType' /\ EnqueueType'
    BY <1>3 DEF DebounceExit, DebounceType, EnqueueType, NoChange
  <2> QED  BY <1>3, <2>1, Frames DEF DebounceExit
<1>4. CASE DebounceFire
  <2>1. Begin("deb", deb.uri, deb.text, None, None) /\ deb.uri \in Uris /\ deb.text \in Texts
    BY <1>4 DEF DebounceFire, DebounceType
  <2>2. enq' \in [Threads -> Enqueuing] /\ enq'["deb"].pc = "bump" /\ enq'["deb"].job.view = None
    BY <2>1, BeginEffect DEF Threads
  <2>3. DebounceType' /\ EnqueueType'
    BY <1>4, <2>2 DEF DebounceFire, DebounceType, EnqueueType
  <2> QED  BY <1>4, <2>3, Frames DEF DebounceFire
<1> QED  BY <1>1, <1>2, <1>3, <1>4 DEF Debounce

\* What a worker's step makes of its entry.
LEMMA RunTypeStep ==
  ASSUME TypeOK, Backed, NEW w \in Workers, Run(w)
  PROVE  TypeOK'
<1> USE DEF TypeOK
<1>0. worker[w] \in Working  BY DEF PoolType
<1>1. CASE Take(w)
  <2>1. Head(queue) \in Jobs /\ QueueType'
    BY <1>1, TailRange DEF Take, QueueType
  <2>2. [pc |-> "check", job |-> Head(queue), slot |-> 0] \in Working
    <3>1. 0 \in 0 .. PoolSize /\ "check" \notin BusyPCs  BY LspAssumption DEF BusyPCs
    <3> QED  BY <2>1, <3>1, WorkingEntry
  <2>3. worker' \in [Workers -> Working]  BY <1>1, <2>2, StepType DEF Take
  <2>4. PoolType'  BY <1>1, <2>3 DEF Take, PoolType, pool
  <2> QED  BY <1>1, <2>1, <2>4, Frames DEF Take, debounce
<1>2. CASE WorkerExit(w)
  <2>1. [worker[w] EXCEPT !.pc = "exit"] \in Working
    BY <1>0, <1>2 DEF WorkerExit, Working, BusyPCs
  <2>2. worker' = [worker EXCEPT ![w] = [worker[w] EXCEPT !.pc = "exit"]]
    BY <1>2 DEF WorkerExit, PoolType
  <2>3. worker' \in [Workers -> Working]  BY <2>1, <2>2, StepType
  <2>4. PoolType'  BY <1>2, <2>3 DEF WorkerExit, PoolType, pool
  <2> QED  BY <1>2, <2>4, Frames DEF WorkerExit, debounce
<1>3. CASE Check(w)
  <2>1. [worker[w] EXCEPT !.pc = "reserve"] \in Working
    BY <1>0, <1>3 DEF Check, Working, BusyPCs
  <2>2. worker' = [worker EXCEPT ![w] = IF Superseded(worker[w].job) THEN Idle
                                        ELSE [worker[w] EXCEPT !.pc = "reserve"]]
    BY <1>3 DEF Check, PoolType
  <2>3. worker' \in [Workers -> Working]  BY <2>1, <2>2, IdleType, StepType
  <2>4. PoolType'  BY <1>3, <2>3 DEF Check, PoolType, pool
  <2> QED  BY <1>3, <2>4, Frames DEF Check, debounce
<1>4. CASE Reserve(w)
  <2> DEFINE job == worker[w].job
             i == Preferred(job)
             r == [pc |-> "analyse", job |-> job, slot |-> free[i]]
  <2>1. i \in 1 .. Len(free)  BY <1>4, PreferredType DEF Reserve, MayReserve
  <2>2. /\ worker[w].pc = "reserve"
        /\ worker' = [worker EXCEPT ![w] = r] /\ free' = RemoveAt(free, i)
        /\ newest' = [newest EXCEPT ![job.uri].ran = @ \/ job.gen = gen[job.uri]]
        /\ gen' = gen /\ queue' = queue /\ record' = record /\ held' = held /\ reserved' = reserved
    BY <1>4 DEF Reserve, PoolType
  <2> HIDE DEF i
  <2>3. free[i] \in Slots  BY <2>1 DEF PoolType
  <2>4. r \in Working
    <3>1. job \in Jobs  BY <1>0, <2>2, NoJobIsNone
    <3>2. free[i] \in 0 .. PoolSize  BY <2>3 DEF Slots
    <3>3. "analyse" \in BusyPCs  BY DEF BusyPCs
    <3> HIDE DEF job
    <3> QED  BY <2>3, <3>1, <3>2, <3>3, WorkingEntry
  <2>5. worker' \in [Workers -> Working]  BY <2>2, <2>4, StepType
  <2>6. free' \in Seq(Slots)  BY <2>1, <2>2, RemoveAtSeq DEF PoolType
  <2>7. newest' \in [Uris -> [revision : Nat, ran : BOOLEAN]]
    <3>1. job.uri \in Uris  BY <1>0, <2>2, NoJobIsNone, JobsType
    <3> HIDE DEF job
    <3>2. newest[job.uri] \in [revision : Nat, ran : BOOLEAN]  BY <3>1 DEF QueueType
    <3>3. (newest[job.uri].ran \/ job.gen = gen[job.uri]) \in BOOLEAN  OBVIOUS
    <3>4. [newest[job.uri] EXCEPT !.ran = newest[job.uri].ran \/ job.gen = gen[job.uri]]
             \in [revision : Nat, ran : BOOLEAN]
      BY <3>2, <3>3
    <3>5. newest' = [newest EXCEPT ![job.uri] =
               [newest[job.uri] EXCEPT !.ran = newest[job.uri].ran \/ job.gen = gen[job.uri]]]
      BY <2>2, <3>1 DEF QueueType
    <3> QED  BY <3>4, <3>5 DEF QueueType
  <2>8. QueueType' /\ PoolType'  BY <2>2, <2>5, <2>6, <2>7 DEF QueueType, PoolType
  <2> QED  BY <1>4, <2>8, Frames DEF Reserve, debounce
<1>5. CASE Reuse(w)
  <2>1. worker' \in [Workers -> Working]  BY <1>5, StepEffect DEF Reuse, BusyPCs
  <2>2. PoolType'  BY <1>5, <2>1 DEF Reuse, PoolType, pool
  <2> QED  BY <1>5, <2>2, Frames DEF Reuse, debounce
<1>6. ASSUME NEW o \in Outcomes, Analyse(w, o) PROVE TypeOK'
  <2> DEFINE job == worker[w].job
             s == worker[w].slot
             done == [uri |-> job.uri, text |-> job.text, dbg |-> job.dbg]
  <2>1. job \in Jobs /\ s \in Slots /\ worker[w].pc \in BusyPCs
    BY <1>0, <1>6, NoJobIsNone DEF Analyse, BusyPCs
  <2>2. done \in Analysed  BY <2>1, JobsType DEF Analysed
  <2>3. worker' \in [Workers -> Working]
    <3>1. \E pc \in BusyPCs : Step(w, pc)  BY <1>6 DEF Analyse, BusyPCs
    <3> QED  BY <2>1, <3>1, StepEffect
  <2>4. /\ record' = [record EXCEPT ![s] = RecordAfter(o, s, done)]
        /\ held' = IF o = "nofile" THEN held
              ELSE [held EXCEPT ![s] = IF o = "ok" THEN done ELSE None]
        /\ free' = free /\ reserved' = reserved /\ cache' = cache
    BY <1>6 DEF Analyse
  <2>5. replies' = replies \/ Respond(job, NoView)  BY <1>6 DEF Analyse
  <2>6. job.view \in Views \cup {None}  BY <2>1, JobsType
  <2> HIDE DEF job, s, done
  <2>7. PoolType'
    <3>0. RecordAfter(o, s, done) \in Analysed \cup {None} /\ record \in [Slots -> Analysed \cup {None}]
      BY <2>2 DEF RecordAfter, PoolType
    <3>1. record' \in [Slots -> Analysed \cup {None}]  BY <2>1, <2>4, <3>0
    <3>2. held' \in [Slots -> Analysed \cup {None}]  BY <2>1, <2>2, <2>4 DEF PoolType
    <3> QED  BY <2>3, <2>4, <3>1, <3>2 DEF PoolType
  <2>8. OutputType'
    <3> DEFINE T == ViewKeys \cup {NoView}
    <3>1. CASE replies' = replies  BY <2>4, <3>1 DEF OutputType
    <3>2. CASE Respond(job, NoView) /\ job.view # None
      <4>1. replies \in [Views -> Seq(T)] /\ NoView \in T  BY DEF OutputType
      <4>2. replies' = [replies EXCEPT ![job.view] = Append(@, NoView)]  BY <3>2 DEF Respond
      <4> HIDE DEF T
      <4>3. job.view \in Views  BY <2>6, <3>2
      <4>4. Append(replies[job.view], NoView) \in Seq(T)  BY <4>1, <4>3
      <4>5. replies' \in [Views -> Seq(T)]  BY <4>1, <4>2, <4>3, <4>4
      <4> QED  BY <2>4, <4>5 DEF OutputType, T
    <3> QED  BY <2>5, <3>1, <3>2 DEF Respond
  <2> QED  BY <1>6, <2>7, <2>8, Frames DEF Analyse, debounce
<1>7. CASE Emit(w)
  <2> DEFINE job == worker[w].job
             h == held[worker[w].slot]
             view == IF h = None THEN ViewKey(None, None, job.kind)
                     ELSE ViewKey(h.uri, h.text, job.kind)
  <2>1. job \in Jobs /\ worker[w].slot \in Slots /\ worker[w].pc = "emit"
    BY <1>0, <1>7, NoJobIsNone DEF Emit, BusyPCs
  <2>2. job.view # None /\ h # None  BY <2>1 DEF Backed
  <2>3. job.view \in Views /\ job.kind \in Kinds /\ job.uri \in Uris /\ job.text \in Texts
    BY <2>1, <2>2, JobsType
  <2>4. view \in ViewKeys
    BY <2>1, <2>2, <2>3 DEF PoolType, Analysed, ViewKeys, ViewKey
  <2>5. ViewKey(job.uri, job.text, job.kind) \in ViewKeys  BY <2>3 DEF ViewKeys, ViewKey
  <2>6. \/ Respond(job, view) /\ cache' = Inserted(ViewKey(job.uri, job.text, job.kind), view)
        \/ Respond(job, NoView) /\ cache' = cache
    BY <1>7 DEF Emit
  <2>7. worker' \in [Workers -> Working]
    BY <1>7, <2>1, StepEffect DEF Emit, BusyPCs
  <2> HIDE DEF job, h, view
  <2>8. cache' \in Seq([key : ViewKeys, result : ViewKeys])
    BY <2>4, <2>5, <2>6, InsertedEffect DEF OutputType
  <2>9. replies' \in [Views -> Seq(ViewKeys \cup {NoView})]
    <3> DEFINE T == ViewKeys \cup {NoView}
    <3>1. PICK z \in T : replies' = [replies EXCEPT ![job.view] = Append(@, z)]
      BY <2>2, <2>4, <2>6 DEF Respond
    <3>2. replies \in [Views -> Seq(T)]  BY DEF OutputType
    <3> HIDE DEF T
    <3>3. Append(replies[job.view], z) \in Seq(T)  BY <2>3, <3>2
    <3> QED  BY <2>3, <3>1, <3>2, <3>3 DEF T
  <2>10. PoolType'  BY <1>7, <2>7 DEF Emit, PoolType, pool
  <2>11. OutputType'  BY <2>8, <2>9 DEF OutputType
  <2> QED  BY <1>7, <2>10, <2>11, Frames DEF Emit, debounce
<1>8. CASE Release(w)
  <2>1. worker' \in [Workers -> Working]  BY <1>8, IdleType, StepType DEF Release
  <2>2. worker[w].slot \in Slots  BY <1>0, <1>8, NoJobIsNone DEF Release, BusyPCs
  <2>3. PoolType'  BY <1>8, <2>1, <2>2 DEF Release, PoolType
  <2> QED  BY <1>8, <2>3, Frames DEF Release, debounce
<1> QED  BY <1>1, <1>2, <1>3, <1>4, <1>5, <1>6, <1>7, <1>8 DEF Run

LEMMA TypeStep == TypeOK /\ Backed /\ [Next]_vars => TypeOK'
<1> SUFFICES ASSUME TypeOK, Backed, [Next]_vars PROVE TypeOK'  OBVIOUS
<1>1. CASE UNCHANGED vars
  BY <1>1, Frames DEF vars, TypeOK, output, debounce
<1> QED  BY <1>1, ClientTypeStep, LoopTypeStep, DebounceTypeStep, RunTypeStep DEF Next

-----------------------------------------------------------------------------
(***************************************************************************)
(* The slots.                                                              *)
(***************************************************************************)
LEMMA BusyHas ==
  ASSUME TypeOK, NEW w \in Busy
  PROVE  w \in Workers /\ worker[w].job \in Jobs /\ worker[w].slot \in Slots
         /\ worker[w].pc \in BusyPCs
BY NoJobIsNone DEF TypeOK, PoolType, Busy, BusyPCs

LEMMA SlotsUntouched ==
  ASSUME TypeOK, SlotsApart, free' = free, reserved' = reserved, inflight' = inflight,
         locale' = "hold" <=> locale = "hold", Busy' = Busy,
         \A w \in Busy : worker'[w].slot = worker[w].slot /\ worker'[w].job = worker[w].job
  PROVE  SlotsApart'
<1>1. \A w \in Busy : InFlightEntry(worker'[w].job, worker'[w].slot)
                      = InFlightEntry(worker[w].job, worker[w].slot)
  OBVIOUS
<1>2. {InFlightEntry(worker'[w].job, worker'[w].slot) : w \in Busy'}
      = {InFlightEntry(worker[w].job, worker[w].slot) : w \in Busy}
  BY <1>1
<1>3. inflight' = UNION {InFlightEntry(worker'[w].job, worker'[w].slot) : w \in Busy'}
  BY <1>2 DEF SlotsApart
<1>4. /\ \A w \in Busy' : worker'[w].slot \notin Range(free')
      /\ \A w, z \in Busy' : worker'[w].slot = worker'[z].slot => w = z
      /\ \A s \in Slots : s \in Range(free') \cup Range(reserved')
                          \/ \E w \in Busy' : worker'[w].slot = s
  BY DEF SlotsApart
<1> QED  BY <1>3, <1>4 DEF SlotsApart

\* A free list with every slot in it: nobody holds one.
LEMMA AllFree ==
  ASSUME TypeOK, SlotsApart, Len(free) = PoolSize
  PROVE  Range(free) = Slots /\ Busy = {}
<1>1. free \in Seq(Slots)  BY DEF TypeOK, PoolType
<1>2. IsFiniteSet(Slots) /\ Cardinality(Slots) = PoolSize
  BY LspAssumption, FS_Interval DEF Slots
<1>3. Range(free) \subseteq Slots  BY <1>1, RangeOfSeq
<1>4. Cardinality(Range(free)) = PoolSize  BY <1>1, InjectiveLength DEF SlotsApart
<1>5. Range(free) = Slots  BY <1>2, <1>3, <1>4, FS_Subset
<1> QED  BY <1>5, BusyHas DEF SlotsApart

LEMMA EntriesDiffer ==
  ASSUME NEW j, NEW k, NEW s, NEW r, s # r
  PROVE  InFlightEntry(j, s) \cap InFlightEntry(k, r) = {}
BY DEF InFlightEntry

LEMMA SlotsRunStep ==
  ASSUME TypeOK, Backed, SlotsApart, NEW w \in Workers, Run(w)
  PROVE  SlotsApart'
<1>0. worker[w] \in Working /\ Idle.pc = "idle"  BY DEF TypeOK, PoolType, Idle
<1>1. CASE Take(w)
  <2> DEFINE r == [pc |-> "check", job |-> Head(queue), slot |-> 0]
  <2>1. worker[w].pc = "idle" /\ worker' = [worker EXCEPT ![w] = r] /\ r.pc = "check"
    BY <1>1 DEF Take
  <2> HIDE DEF r
  <2>2. worker'[w] = r /\ \A z \in Workers : z # w => worker'[z] = worker[z]
    BY <2>1 DEF TypeOK, PoolType
  <2>3. Busy' = Busy /\ w \notin Busy  BY <2>1, <2>2 DEF Busy
  <2> QED  BY <1>1, <2>2, <2>3, SlotsUntouched DEF Take, pool, Busy
<1>2. CASE WorkerExit(w)
  <2> DEFINE r == [worker[w] EXCEPT !.pc = "exit"]
  <2>1. worker[w].pc = "idle" /\ worker' = [worker EXCEPT ![w] = r] /\ r.pc = "exit"
    BY <1>0, <1>2 DEF WorkerExit, TypeOK, PoolType, Working
  <2> HIDE DEF r
  <2>2. worker'[w] = r /\ \A z \in Workers : z # w => worker'[z] = worker[z]
    BY <2>1 DEF TypeOK, PoolType
  <2>3. Busy' = Busy /\ w \notin Busy  BY <2>1, <2>2 DEF Busy
  <2> QED  BY <1>2, <2>2, <2>3, SlotsUntouched DEF WorkerExit, pool, Busy
<1>3. CASE Check(w)
  <2> DEFINE r == IF Superseded(worker[w].job) THEN Idle ELSE [worker[w] EXCEPT !.pc = "reserve"]
  <2>1. /\ worker[w].pc = "check" /\ worker' = [worker EXCEPT ![w] = r]
        /\ r.pc \in {"idle", "reserve"}
    BY <1>0, <1>3 DEF Check, TypeOK, PoolType, Working
  <2> HIDE DEF r
  <2>2. worker'[w] = r /\ \A z \in Workers : z # w => worker'[z] = worker[z]
    BY <2>1 DEF TypeOK, PoolType
  <2>3. Busy' = Busy /\ w \notin Busy  BY <2>1, <2>2 DEF Busy
  <2> QED  BY <1>3, <2>2, <2>3, SlotsUntouched DEF Check, pool, Busy
<1>4. CASE Reserve(w)
  <2> DEFINE job == worker[w].job
             i == Preferred(job)
             s == free[i]
             r == [pc |-> "analyse", job |-> job, slot |-> s]
  <2>1. i \in 1 .. Len(free) /\ free # << >>
    BY <1>4, PreferredType DEF Reserve, MayReserve
  <2>2. /\ worker[w].pc = "reserve"
        /\ worker' = [worker EXCEPT ![w] = r] /\ free' = RemoveAt(free, i)
        /\ inflight' = inflight \cup InFlightEntry(job, s)
        /\ reserved' = reserved /\ locale' = locale
    BY <1>4 DEF Reserve
  <2>3. r.pc = "analyse" /\ r.job = job /\ r.slot = s  OBVIOUS
  <2> HIDE DEF i, r
  <2>4. worker'[w] = r /\ \A z \in Workers : z # w => worker'[z] = worker[z]
    BY <2>2 DEF TypeOK, PoolType
  <2>5. Busy' = Busy \cup {w} /\ w \notin Busy  BY <2>2, <2>3, <2>4 DEF Busy
  <2>6. free \in Seq(Slots) /\ IsInjective(free)  BY DEF TypeOK, PoolType, SlotsApart
  <2>7. IsInjective(free') /\ Range(free') = Range(free) \ {s}
    BY <2>1, <2>2, <2>6, RemoveAtRange
  <2>8. s \in Range(free)  BY <2>1, <2>6 DEF Range
  <2> HIDE DEF s
  <2>9. locale # "hold" /\ reserved = << >>  BY <2>1 DEF SlotsApart
  <2>10. \A z \in Busy : worker[z].slot # s  BY <2>8 DEF SlotsApart
  <2>11. \A z \in Busy : worker'[z] = worker[z]  BY <2>4, <2>5 DEF Busy
  <2>12. \A z \in Busy' : worker'[z].slot \notin Range(free')
    BY <2>3, <2>4, <2>5, <2>7, <2>11 DEF SlotsApart
  <2>13. \A y, z \in Busy' : worker'[y].slot = worker'[z].slot => y = z
    BY <2>3, <2>4, <2>5, <2>10, <2>11 DEF SlotsApart
  <2>14. \A x \in Slots : x \in Range(free') \cup Range(reserved')
                          \/ \E z \in Busy' : worker'[z].slot = x
    <3> SUFFICES ASSUME NEW x \in Slots, x \notin Range(free') \cup Range(reserved')
                 PROVE  \E z \in Busy' : worker'[z].slot = x
      OBVIOUS
    <3>1. CASE x = s  BY <3>1, <2>3, <2>4, <2>5
    <3>2. CASE x # s
      <4>1. x \notin Range(free) \cup Range(reserved)  BY <3>2, <2>2, <2>7
      <4>2. \E z \in Busy : worker[z].slot = x  BY <4>1 DEF SlotsApart
      <4> QED  BY <4>2, <2>5, <2>11
    <3> QED  BY <3>1, <3>2
  <2>15. inflight' = UNION {InFlightEntry(worker'[z].job, worker'[z].slot) : z \in Busy'}
    <3>1. InFlightEntry(worker'[w].job, worker'[w].slot) = InFlightEntry(job, s)
      BY <2>3, <2>4
    <3>2. inflight = UNION {InFlightEntry(worker[z].job, worker[z].slot) : z \in Busy}
      BY DEF SlotsApart
    <3> HIDE DEF job
    <3>3. \A e : e \in inflight' <=>
             e \in InFlightEntry(job, s)
             \/ \E z \in Busy : e \in InFlightEntry(worker[z].job, worker[z].slot)
      BY <2>2, <3>2
    <3>4. \A e : e \in inflight' <=>
             \E z \in Busy' : e \in InFlightEntry(worker'[z].job, worker'[z].slot)
      BY <3>1, <3>3, <2>5, <2>11
    <3> QED  BY <3>4
  <2> QED  BY <2>2, <2>7, <2>9, <2>12, <2>13, <2>14, <2>15 DEF SlotsApart
<1>5. ASSUME \E pc \in BusyPCs : Step(w, pc), worker[w].pc \in BusyPCs,
             UNCHANGED <<free, reserved, inflight, locale>>
      PROVE  SlotsApart'
  <2>1. PICK pc \in BusyPCs : Step(w, pc)  BY <1>5
  <2>2. /\ worker'[w].pc = pc /\ worker'[w].job = worker[w].job
        /\ worker'[w].slot = worker[w].slot
        /\ \A z \in Workers : z # w => worker'[z] = worker[z]
    BY <1>5, <2>1, StepEffect
  <2>3. Busy' = Busy  BY <1>5, <2>1, <2>2 DEF Busy, BusyPCs
  <2>4. \A z \in Busy : worker'[z].slot = worker[z].slot /\ worker'[z].job = worker[z].job
    BY <2>2 DEF Busy
  <2> QED  BY <1>5, <2>3, <2>4, SlotsUntouched
<1>6. CASE Reuse(w)
  BY <1>5, <1>6 DEF Reuse, BusyPCs, pool
<1>7. ASSUME NEW o \in Outcomes, Analyse(w, o) PROVE SlotsApart'
  BY <1>5, <1>7 DEF Analyse, BusyPCs
<1>8. CASE Emit(w)
  BY <1>5, <1>8 DEF Emit, BusyPCs, pool
<1>9. CASE Release(w)
  <2> DEFINE job == worker[w].job
             s == worker[w].slot
  <2>1. /\ worker[w].pc = "release" /\ worker' = [worker EXCEPT ![w] = Idle]
        /\ free' = Append(free, s) /\ inflight' = inflight \ InFlightEntry(job, s)
        /\ reserved' = reserved /\ locale' = locale
    BY <1>9 DEF Release
  <2>2. worker'[w] = Idle /\ \A z \in Workers : z # w => worker'[z] = worker[z]
    BY <2>1 DEF TypeOK, PoolType
  <2>3. Busy' = Busy \ {w} /\ w \in Busy  BY <1>0, <2>1, <2>2 DEF Busy
  <2>4. free \in Seq(Slots) /\ s \in Slots /\ IsInjective(free)
    BY <2>3, BusyHas DEF TypeOK, PoolType, SlotsApart
  <2>5. s \notin Range(free) /\ locale # "hold" /\ reserved = << >>
    BY <2>3 DEF SlotsApart
  <2>6. /\ Range(free') = Range(free) \cup {s}
        /\ DOMAIN free' = 1 .. Len(free) + 1 /\ DOMAIN free = 1 .. Len(free) /\ Len(free) \in Nat
        /\ \A i \in 1 .. Len(free) : free'[i] = free[i]
        /\ free'[Len(free) + 1] = s
    BY <2>1, <2>4, AppendRange
  <2>7. \A z \in Busy' : worker'[z] = worker[z] /\ worker[z].slot # s /\ z \in Busy
    BY <2>2, <2>3 DEF SlotsApart, Busy
  <2> HIDE DEF s
  <2>8. IsInjective(free')
    <3>1. \A i \in 1 .. Len(free) : free[i] # s  BY <2>5, <2>6 DEF Range
    <3> QED  BY <2>4, <2>6, <3>1 DEF IsInjective
  <2>9. \A z \in Busy' : worker'[z].slot \notin Range(free')
    BY <2>6, <2>7 DEF SlotsApart
  <2>10. \A y, z \in Busy' : worker'[y].slot = worker'[z].slot => y = z
    BY <2>7 DEF SlotsApart
  <2>11. \A x \in Slots : x \in Range(free') \cup Range(reserved')
                          \/ \E z \in Busy' : worker'[z].slot = x
    <3> SUFFICES ASSUME NEW x \in Slots, x \notin Range(free') \cup Range(reserved')
                 PROVE  \E z \in Busy' : worker'[z].slot = x
      OBVIOUS
    <3>1. x \notin Range(free) \cup Range(reserved) /\ x # s  BY <2>1, <2>6
    <3>2. PICK z \in Busy : worker[z].slot = x  BY <3>1 DEF SlotsApart
    <3>3. z \in Busy'  BY <2>3, <3>1, <3>2 DEF s
    <3> QED  BY <2>7, <3>2, <3>3
  <2>12. inflight' = UNION {InFlightEntry(worker'[z].job, worker'[z].slot) : z \in Busy'}
    <3>1. inflight = UNION {InFlightEntry(worker[z].job, worker[z].slot) : z \in Busy}
      BY DEF SlotsApart
    <3>2. InFlightEntry(worker[w].job, worker[w].slot) = InFlightEntry(job, s)  BY DEF s
    <3> HIDE DEF job
    <3>3. \A z \in Busy' : \A e \in InFlightEntry(worker[z].job, worker[z].slot) :
             e \notin InFlightEntry(job, s)
      BY <2>7, EntriesDiffer
    <3>4. \A e : e \in inflight' <=>
             /\ \E z \in Busy : e \in InFlightEntry(worker[z].job, worker[z].slot)
             /\ e \notin InFlightEntry(job, s)
      BY <2>1, <3>1
    <3>5. \A e : e \in inflight' <=>
             \E z \in Busy' : e \in InFlightEntry(worker'[z].job, worker'[z].slot)
      BY <3>2, <3>3, <3>4, <2>3, <2>7
    <3> QED  BY <3>5
  <2> QED  BY <2>1, <2>5, <2>8, <2>9, <2>10, <2>11, <2>12 DEF SlotsApart
<1> QED  BY <1>1, <1>2, <1>3, <1>4, <1>6, <1>7, <1>8, <1>9 DEF Run

LEMMA SlotsStep == TypeOK /\ Backed /\ SlotsApart /\ [Next]_vars => SlotsApart'
<1> SUFFICES ASSUME TypeOK, Backed, SlotsApart, [Next]_vars PROVE SlotsApart'  OBVIOUS
<1>0. ASSUME UNCHANGED <<free, reserved, inflight, worker>>, locale' = "hold" <=> locale = "hold"
      PROVE  SlotsApart'
  BY <1>0, SlotsUntouched DEF Busy
<1>1. CASE UNCHANGED vars  BY <1>0, <1>1 DEF vars, pool
<1>2. CASE Client
  <2>1. UNCHANGED <<free, reserved, inflight, worker>> /\ (locale' = "hold" <=> locale = "hold")
    BY <1>2 DEF Client, DidOpen, DidChange, DidSave, DidClose, ViewRequest, LocaleAsk,
                StopDebounce, pool
  <2> QED  BY <1>0, <2>1
<1>3. CASE Loop
  <2>1. ASSUME NEW t \in Threads, Bump(t) \/ Push(t) PROVE SlotsApart'
    BY <1>0, <2>1 DEF Bump, Push, pool
  <2>2. CASE StopWorkers  BY <1>0, <2>2 DEF StopWorkers, pool
  <2>3. CASE LocaleReserve
    <3>1. Range(free) = Slots /\ Busy = {}  BY <2>3, AllFree DEF LocaleReserve
    <3>2. /\ reserved' = free /\ free' = << >> /\ locale' = "hold" /\ worker' = worker
          /\ inflight' = inflight
      BY <2>3 DEF LocaleReserve
    <3>3. Busy' = {}  BY <3>1, <3>2 DEF Busy
    <3>4. inflight' = {}  BY <3>1, <3>2 DEF SlotsApart
    <3>5. IsInjective(free') /\ IsInjective(reserved')  BY <3>2 DEF SlotsApart, IsInjective
    <3> QED  BY <3>1, <3>2, <3>3, <3>4, <3>5 DEF SlotsApart
  <2>4. CASE LocaleRelease
    <3>1. /\ free' = reserved /\ reserved' = << >> /\ locale' = "done" /\ worker' = worker
          /\ inflight' = inflight /\ locale = "hold"
      BY <2>4 DEF LocaleRelease
    <3>2. Busy = {} /\ free = << >>  BY <3>1 DEF SlotsApart
    <3>3. Busy' = {}  BY <3>1, <3>2 DEF Busy
    <3>4. inflight' = {}  BY <3>1, <3>2 DEF SlotsApart
    <3>5. IsInjective(free') /\ IsInjective(reserved')  BY <3>1 DEF SlotsApart, IsInjective
    <3>6. \A s \in Slots : s \in Range(free')  BY <3>1, <3>2 DEF SlotsApart, Range
    <3> QED  BY <3>1, <3>3, <3>4, <3>5, <3>6 DEF SlotsApart
  <2> QED  BY <1>3, <2>1, <2>2, <2>3, <2>4 DEF Loop
<1>4. CASE Debounce
  BY <1>0, <1>4 DEF Debounce, DebounceCapture, DebounceAgain, DebounceExit, DebounceFire, pool
<1> QED  BY <1>1, <1>2, <1>3, <1>4, SlotsRunStep DEF Next

LEMMA ApartIsConserved == TypeOK /\ SlotsApart => SlotsConserved
<1> SUFFICES ASSUME TypeOK, SlotsApart PROVE SlotsConserved  OBVIOUS
<1> DEFINE B == {worker[w].slot : w \in Busy}
           f == [w \in Busy |-> worker[w].slot]
<1>1. free \in Seq(Slots) /\ reserved \in Seq(Slots)  BY DEF TypeOK, PoolType
<1>2. Range(free) \subseteq Slots /\ Range(reserved) \subseteq Slots  BY <1>1, RangeOfSeq
<1>3. B \subseteq Slots  BY BusyHas
<1>4. Range(free) \cup Range(reserved) \cup B = Slots  BY <1>2, <1>3 DEF SlotsApart
<1>5. IsFiniteSet(Slots) /\ Cardinality(Slots) = PoolSize
  BY LspAssumption, FS_Interval DEF Slots
<1>6. IsFiniteSet(Busy) /\ Cardinality(Busy) = Cardinality(B) /\ IsFiniteSet(B)
  <2>1. IsFiniteSet(Busy)  BY <1>5, FS_Subset DEF Busy, Workers
  <2>2. f \in Surjection(Busy, B)  BY DEF Surjection
  <2>3. f \in Injection(Busy, B)  BY DEF Injection, IsInjective, SlotsApart
  <2> QED  BY <2>1, <2>2, <2>3, FS_Surjection
<1>7. /\ IsFiniteSet(Range(free)) /\ Cardinality(Range(free)) = Len(free) /\ Len(free) \in Nat
      /\ IsFiniteSet(Range(reserved)) /\ Cardinality(Range(reserved)) = Len(reserved)
      /\ Len(reserved) \in Nat
  BY <1>1, InjectiveLength DEF SlotsApart
<1>8. Len(free) + Len(reserved) + Cardinality(Busy) = PoolSize
  <2>0. Range(<< >>) = {} /\ Len(<< >>) = 0  BY DEF Range
  <2>1. CASE locale = "hold"
    <3>1. free = << >> /\ Busy = {} /\ B = {}  BY <2>1 DEF SlotsApart
    <3>2. Range(reserved) = Slots  BY <1>4, <2>0, <3>1
    <3> QED  BY <1>5, <1>7, <2>0, <3>1, <3>2, FS_EmptySet
  <2>2. CASE locale # "hold"
    <3>1. reserved = << >>  BY <2>2 DEF SlotsApart
    <3>2. Range(free) \cup B = Slots /\ Range(free) \cap B = {}
      BY <1>4, <2>0, <3>1 DEF SlotsApart
    <3> HIDE DEF B
    <3>3. Cardinality(Slots) = Cardinality(Range(free)) + Cardinality(B) - Cardinality({})
      BY <1>6, <1>7, <3>2, FS_Union
    <3>4. Cardinality({}) = 0 /\ Cardinality(B) \in Nat  BY <1>6, FS_EmptySet, FS_CardinalityType
    <3> QED  BY <1>5, <1>6, <1>7, <2>0, <3>1, <3>3, <3>4
  <2> QED  BY <2>1, <2>2
<1> QED  BY <1>4, <1>8 DEF SlotsConserved, SlotsApart

-----------------------------------------------------------------------------
(***************************************************************************)
(* What is printed, cached and answered.                                   *)
(***************************************************************************)
LEMMA KeysAreNotNone ==
  /\ \A j \in Jobs : j.view # None => ViewKey(j.uri, j.text, j.kind) # None
  /\ \A u \in Uris, x \in Texts \cup {None}, k \in Kinds : ViewKey(u, x, k) # None
  /\ None \notin Analysed
<1>1. \A u \in Uris, x \in Texts \cup {None}, k \in Kinds :
         ViewKey(u, x, k) \in [uri : Uris, text : Texts \cup {None}, kind : Kinds]
  BY DEF ViewKey
<1>2. \A j \in Jobs : j.view # None => j.uri \in Uris /\ j.text \in Texts /\ j.kind \in Kinds
  BY JobsType
<1> QED  BY <1>1, <1>2, LspAssumption DEF Analysed

\* A reused backend holds the module of the job's text.
LEMMA MatchIsHeld ==
  ASSUME TypeOK, Backed, NEW s \in Slots, NEW job \in Jobs, RecordMatches(s, job)
  PROVE  job.view # None /\ held[s] # None /\ held[s].uri = job.uri /\ held[s].text = job.text
<1>1. record[s] = [uri |-> job.uri, text |-> job.text, dbg |-> TRUE] /\ job.view # None
  BY DEF RecordMatches
<1>2. record[s] \in Analysed  BY <1>1, JobsType DEF Analysed
<1>3. held[s] = record[s] /\ record[s] # None  BY <1>2, KeysAreNotNone DEF Backed
<1> QED  BY <1>1, <1>3

LEMMA BackedRunStep ==
  ASSUME TypeOK, Backed, SlotsApart, NEW w \in Workers, Run(w)
  PROVE  Backed'
<1>0. worker[w] \in Working /\ Idle.pc = "idle"  BY DEF TypeOK, PoolType, Idle
<1>1. ASSUME UNCHANGED <<record, held, cache>>,
             \A z \in Workers : worker'[z].pc = "emit" => worker'[z] = worker[z]
      PROVE  Backed'
  BY <1>1 DEF Backed
<1>2. ASSUME NEW r, worker' = [worker EXCEPT ![w] = r], r.pc # "emit",
             UNCHANGED <<record, held, cache>>
      PROVE  Backed'
  BY <1>1, <1>2 DEF TypeOK, PoolType
<1>3. CASE Take(w)
  <2> DEFINE r == [pc |-> "check", job |-> Head(queue), slot |-> 0]
  <2>1. worker' = [worker EXCEPT ![w] = r] /\ r.pc = "check"  BY <1>3 DEF Take
  <2> HIDE DEF r
  <2> QED  BY <1>2, <1>3, <2>1 DEF Take, pool, output
<1>4. CASE WorkerExit(w)
  <2>1. worker' = [worker EXCEPT ![w] = [worker[w] EXCEPT !.pc = "exit"]]
        /\ [worker[w] EXCEPT !.pc = "exit"].pc = "exit"
    BY <1>0, <1>4 DEF WorkerExit, TypeOK, PoolType, Working
  <2> QED  BY <1>2, <1>4, <2>1 DEF WorkerExit, pool, output
<1>5. CASE Check(w)
  <2> DEFINE r == IF Superseded(worker[w].job) THEN Idle ELSE [worker[w] EXCEPT !.pc = "reserve"]
  <2>1. worker' = [worker EXCEPT ![w] = r] /\ r.pc \in {"idle", "reserve"}
    BY <1>0, <1>5 DEF Check, TypeOK, PoolType, Working
  <2> HIDE DEF r
  <2> QED  BY <1>2, <1>5, <2>1 DEF Check, pool, output
<1>6. CASE Reserve(w)
  <2> DEFINE r == [pc |-> "analyse", job |-> worker[w].job, slot |-> free[Preferred(worker[w].job)]]
  <2>1. worker' = [worker EXCEPT ![w] = r] /\ r.pc = "analyse"  BY <1>6 DEF Reserve
  <2> HIDE DEF r
  <2> QED  BY <1>2, <1>6, <2>1 DEF Reserve, output
<1>7. CASE Reuse(w)
  <2>1. worker[w].pc = "analyse" /\ RecordMatches(worker[w].slot, worker[w].job) /\ Step(w, "emit")
    BY <1>7 DEF Reuse
  <2>2. worker[w].job \in Jobs /\ worker[w].slot \in Slots
    BY <1>0, <2>1, NoJobIsNone DEF BusyPCs
  <2>3. /\ worker'[w].job = worker[w].job /\ worker'[w].slot = worker[w].slot
        /\ \A z \in Workers : z # w => worker'[z] = worker[z]
    BY <2>1, StepEffect DEF BusyPCs
  <2>4. held[worker[w].slot] # None /\ held[worker[w].slot].uri = worker[w].job.uri
        /\ held[worker[w].slot].text = worker[w].job.text /\ worker[w].job.view # None
    BY <2>1, <2>2, MatchIsHeld
  <2>5. record' = record /\ held' = held /\ cache' = cache  BY <1>7 DEF Reuse, pool, output
  <2> QED  BY <2>3, <2>4, <2>5 DEF Backed
<1>8. ASSUME NEW o \in Outcomes, Analyse(w, o) PROVE Backed'
  <2> DEFINE job == worker[w].job
             s == worker[w].slot
             done == [uri |-> job.uri, text |-> job.text, dbg |-> job.dbg]
             pc == IF o = "ok" THEN IF job.view = None THEN "release" ELSE "emit" ELSE "release"
  <2>1. worker[w].pc = "analyse" /\ Step(w, pc)  BY <1>8 DEF Analyse
  <2>2. job \in Jobs /\ s \in Slots  BY <1>0, <2>1, NoJobIsNone DEF BusyPCs
  <2>3. /\ record' = [record EXCEPT ![s] = RecordAfter(o, s, done)]
        /\ held' = IF o = "nofile" THEN held
              ELSE [held EXCEPT ![s] = IF o = "ok" THEN done ELSE None]
        /\ cache' = cache
    BY <1>8 DEF Analyse
  <2>4. pc \in BusyPCs  BY DEF BusyPCs
  <2>5. /\ worker'[w].pc = pc /\ worker'[w].job = job /\ worker'[w].slot = s
        /\ \A z \in Workers : z # w => worker'[z] = worker[z]
    BY <2>1, <2>4, StepEffect DEF BusyPCs
  <2>6. done \in Analysed /\ done # None  BY <2>2, JobsType, KeysAreNotNone DEF Analysed
  <2>7. done.uri = job.uri /\ done.text = job.text  OBVIOUS
  <2>8. \A z \in Workers : worker'[z].pc = "emit" /\ z # w => worker[z].pc = "emit" /\ worker[z].slot # s
    <3>1. w \in Busy  BY <2>1 DEF Busy
    <3> QED  BY <2>5, <3>1 DEF SlotsApart, Busy
  <2> HIDE DEF job, s, done
  <2>9. \A t \in Slots : record'[t] # None => held'[t] = record'[t]
    <3> SUFFICES ASSUME NEW t \in Slots, record'[t] # None PROVE held'[t] = record'[t]
      OBVIOUS
    <3>1. record'[t] = (IF t = s THEN RecordAfter(o, s, done) ELSE record[t])
      BY <2>2, <2>3 DEF TypeOK, PoolType
    <3>2. o # "nofile" => held'[t] = (IF t = s THEN IF o = "ok" THEN done ELSE None ELSE held[t])
      BY <2>2, <2>3 DEF TypeOK, PoolType
    <3>3. CASE t = s
      <4>1. o = "ok" /\ record'[t] = done  BY <3>1, <3>3 DEF RecordAfter
      <4> QED  BY <3>2, <3>3, <4>1
    <3>4. CASE t # s
      BY <2>3, <3>1, <3>2, <3>4 DEF Backed
    <3> QED  BY <3>3, <3>4
  <2>10. ASSUME NEW z \in Workers, worker'[z].pc = "emit"
         PROVE  /\ worker'[z].job.view # None /\ held'[worker'[z].slot] # None
                /\ held'[worker'[z].slot].uri = worker'[z].job.uri
                /\ held'[worker'[z].slot].text = worker'[z].job.text
    <3>1. CASE z = w
      <4>1. o = "ok" /\ job.view # None  BY <2>5, <2>10, <3>1
      <4>2. held'[s] = done  BY <2>2, <2>3, <4>1 DEF TypeOK, PoolType
      <4> QED  BY <2>5, <2>6, <2>7, <3>1, <4>1, <4>2
    <3>2. CASE z # w
      <4>1. worker[z].pc = "emit" /\ worker[z].slot # s /\ worker'[z] = worker[z]
        BY <2>5, <2>8, <2>10, <3>2
      <4>2. worker[z].slot \in Slots  BY <4>1, NoJobIsNone DEF TypeOK, PoolType, BusyPCs
      <4>3. held'[worker[z].slot] = held[worker[z].slot]
        BY <2>2, <2>3, <4>1, <4>2 DEF TypeOK, PoolType
      <4> QED  BY <4>1, <4>3 DEF Backed
    <3> QED  BY <3>1, <3>2
  <2> QED  BY <2>3, <2>9, <2>10 DEF Backed
<1>9. CASE Emit(w)
  <2> DEFINE job == worker[w].job
             h == held[worker[w].slot]
             key == ViewKey(job.uri, job.text, job.kind)
             view == IF h = None THEN ViewKey(None, None, job.kind)
                     ELSE ViewKey(h.uri, h.text, job.kind)
  <2>1. worker[w].pc = "emit" /\ Step(w, "release")  BY <1>9 DEF Emit
  <2>2. job \in Jobs  BY <1>0, <2>1, NoJobIsNone DEF BusyPCs
  <2>3. view = key /\ job.view # None  BY <2>1 DEF Backed
  <2>4. key \in ViewKeys  BY <2>2, <2>3, JobsType DEF ViewKeys, ViewKey
  <2>5. cache' = Inserted(key, view) \/ cache' = cache  BY <1>9 DEF Emit
  <2>6. /\ worker'[w].pc = "release"
        /\ \A z \in Workers : z # w => worker'[z] = worker[z]
    BY <2>1, StepEffect DEF BusyPCs
  <2>7. record' = record /\ held' = held  BY <1>9 DEF Emit, pool
  <2> HIDE DEF key, view
  <2>8. /\ \A n \in DOMAIN cache' : cache'[n].result = cache'[n].key
        /\ \A n, m \in DOMAIN cache' : cache'[n].key = cache'[m].key => n = m
    <3>1. CASE cache' = cache  BY <3>1 DEF Backed
    <3>2. CASE cache' = Inserted(key, key)
      <4>1. /\ \A n \in DOMAIN cache' : \/ cache'[n] = [key |-> key, result |-> key]
                                        \/ \E m \in DOMAIN cache : cache'[n] = cache[m]
            /\ \A n, m \in DOMAIN cache' : cache'[n].key = cache'[m].key => n = m
        BY <2>4, <3>2, InsertedEffect
      <4>2. \A m \in DOMAIN cache : cache[m].result = cache[m].key  BY DEF Backed
      <4> QED  BY <4>1, <4>2
    <3> QED  BY <2>3, <2>5, <3>1, <3>2
  <2> QED  BY <2>6, <2>7, <2>8 DEF Backed
<1>10. CASE Release(w)
  BY <1>0, <1>2, <1>10 DEF Release, output
<1> QED  BY <1>3, <1>4, <1>5, <1>6, <1>7, <1>8, <1>9, <1>10 DEF Run

LEMMA BackedStep == TypeOK /\ Backed /\ SlotsApart /\ [Next]_vars => Backed'
<1> SUFFICES ASSUME TypeOK, Backed, SlotsApart, [Next]_vars PROVE Backed'  OBVIOUS
<1>0. ASSUME UNCHANGED <<record, held, cache, worker>> PROVE Backed'  BY <1>0 DEF Backed
<1>1. CASE UNCHANGED vars  BY <1>0, <1>1 DEF vars, pool
<1>2. CASE Client
  <2>1. ASSUME NEW v \in Views, NEW u \in Uris, NEW k \in Kinds, ViewRequest(v, u, k) PROVE Backed'
    <3> DEFINE i == CachePosition(ViewKey(u, docs[u], k))
    <3>1. record' = record /\ held' = held /\ worker' = worker  BY <2>1 DEF ViewRequest, pool
    <3>2. cache' = cache \/ (i > 0 /\ cache' = Touched(i))  BY <2>1 DEF ViewRequest
    <3>3. i \in 0 .. Len(cache) /\ Len(cache) \in Nat  BY CachePositionType DEF TypeOK, OutputType
    <3> HIDE DEF i
    <3>4. CASE i > 0 /\ cache' = Touched(i)
      <4>1. /\ \A n \in DOMAIN cache' : \E m \in DOMAIN cache : cache'[n] = cache[m]
            /\ \A n, m \in DOMAIN cache' : cache'[n].key = cache'[m].key => n = m
        BY <3>3, <3>4, TouchedEffect
      <4>2. \A n \in DOMAIN cache' : cache'[n].result = cache'[n].key  BY <4>1 DEF Backed
      <4> QED  BY <3>1, <4>1, <4>2 DEF Backed
    <3> QED  BY <1>0, <3>1, <3>2, <3>4
  <2>2. ASSUME NEW u \in Uris, NEW x \in Texts, DidOpen(u, x) \/ DidChange(u, x) PROVE Backed'
    BY <1>0, <2>2 DEF DidOpen, DidChange, pool, output
  <2>3. ASSUME NEW u \in Uris, DidSave(u) \/ DidClose(u) PROVE Backed'
    BY <1>0, <2>3 DEF DidSave, DidClose, pool, output
  <2>4. CASE LocaleAsk \/ StopDebounce
    BY <1>0, <2>4 DEF LocaleAsk, StopDebounce, pool, output
  <2> QED  BY <1>2, <2>1, <2>2, <2>3, <2>4 DEF Client
<1>3. CASE Loop
  BY <1>0, <1>3 DEF Loop, Bump, Push, LocaleReserve, LocaleRelease, StopWorkers, pool, output
<1>4. CASE Debounce
  BY <1>0, <1>4 DEF Debounce, DebounceCapture, DebounceAgain, DebounceExit, DebounceFire, pool, output
<1> QED  BY <1>1, <1>2, <1>3, <1>4, BackedRunStep DEF Next

-----------------------------------------------------------------------------
(***************************************************************************)
(* Who owes which response.                                                *)
(***************************************************************************)
Carries(j, k) == j.view # None => /\ j.view = k.view /\ j.uri = k.uri
                                  /\ j.text = k.text /\ j.kind = k.kind

\* A step that asks, answers and queues nothing: jobs may only be dropped.
LEMMA OwedFrame ==
  ASSUME TypeOK, OwedOnce, AnswersRight,
         UNCHANGED <<asked, replies, queue>>,
         Carries(enq'["main"].job, enq["main"].job),
         \A w \in Workers : Undone(w)' => Undone(w) /\ worker'[w].job = worker[w].job
  PROVE  OwedOnce' /\ AnswersRight'
<1> DEFINE m == enq["main"].job
           n == enq'["main"].job
<1>1. n.view # None => /\ n.view = m.view /\ n.uri = m.uri
                       /\ n.text = m.text /\ n.kind = m.kind
  BY DEF Carries
<1>2. Owed(enq["main"].job)'  BY <1>1 DEF OwedOnce, Owed
<1>3. \A j : Differ(j, m) => Differ(j, n)  BY <1>1 DEF Differ
<1> HIDE DEF m, n
<1>4. \A i \in DOMAIN queue' : Owed(queue[i])' /\ Differ(queue'[i], n)
  BY <1>3 DEF OwedOnce, Owed, m
<1>5. \A i, j \in DOMAIN queue' : i # j => Differ(queue'[i], queue'[j])  BY DEF OwedOnce
<1>6. ASSUME NEW w \in Workers, Undone(w)'
      PROVE  /\ Owed(worker[w].job)' /\ Differ(worker'[w].job, n)
             /\ \A i \in DOMAIN queue' : Differ(worker'[w].job, queue'[i])
             /\ \A z \in Workers : Undone(z)' /\ w # z => Differ(worker'[w].job, worker'[z].job)
  BY <1>3, <1>6 DEF OwedOnce, Owed, m
<1>7. OwedOnce'  BY <1>2, <1>4, <1>5, <1>6 DEF OwedOnce, n
<1> QED  BY <1>7 DEF AnswersRight

LEMMA CarriersType ==
  ASSUME TypeOK
  PROVE  /\ enq["main"].job \in Jobs \/ enq["main"].job.view = None
         /\ \A i \in DOMAIN queue : queue[i] \in Jobs
         /\ \A w \in Workers : Undone(w) => worker[w].job \in Jobs
<1>1. enq["main"] \in Enqueuing /\ \A w \in Workers : worker[w] \in Working
  BY DEF TypeOK, EnqueueType, PoolType, Threads
<1>2. \A i \in DOMAIN queue : queue[i] \in Jobs  BY DEF TypeOK, QueueType
<1>3. enq["main"].job \in Jobs \/ enq["main"].job.view = None
  BY <1>1, NoJobIsNone DEF Enqueuing
<1>4. \A w \in Workers : Undone(w) => worker[w].job \in Jobs
  BY <1>1, NoJobIsNone DEF Undone
<1> QED  BY <1>2, <1>3, <1>4

\* A worker responds, and is done with its job.
LEMMA RespondStep ==
  ASSUME TypeOK, OwedOnce, AnswersRight, NEW w \in Workers, Undone(w),
         NEW r, worker[w].job.view # None => r \in {NoView, asked[worker[w].job.view]},
         Respond(worker[w].job, r),
         UNCHANGED <<asked, queue, enq>>, ~ Undone(w)',
         \A z \in Workers : z # w => worker'[z] = worker[z]
  PROVE  OwedOnce' /\ AnswersRight'
<1> DEFINE job == worker[w].job
           v == job.view
<1>0. \A z \in Workers : Undone(z)' => z # w /\ Undone(z) /\ worker'[z] = worker[z]
  BY DEF Undone
<1>1. CASE v = None
  <2>1. replies' = replies  BY <1>1 DEF Respond
  <2>2. Carries(enq'["main"].job, enq["main"].job)  BY DEF Carries
  <2> QED  BY <1>0, <2>1, <2>2, OwedFrame
<1>2. CASE v # None
  <2>1. job \in Jobs  BY NoJobIsNone DEF Undone, TypeOK, PoolType
  <2>2. v \in Views  BY <1>2, <2>1, JobsType
  <2>3. replies[v] = << >> /\ asked[v] = ViewKey(job.uri, job.text, job.kind)
    BY <1>2 DEF OwedOnce, Owed
  <2>4. asked[v] # None  BY <1>2, <2>1, <2>3, KeysAreNotNone
  <2>5. replies' = [replies EXCEPT ![v] = <<r>>]  BY <1>2, <2>3 DEF Respond
  <2>6. replies'[v] = <<r>> /\ \A u \in Views : u # v => replies'[u] = replies[u]
    BY <2>2, <2>5 DEF TypeOK, OutputType
  <2>7. \A j : Owed(j) /\ j.view # v /\ (j.view # None => j.view \in Views) => Owed(j)'
    BY <2>6 DEF Owed
  <2>8. /\ enq["main"].job.view # v
        /\ \A i \in DOMAIN queue : queue[i].view # v
        /\ \A z \in Workers : Undone(z) /\ z # w => worker[z].job.view # v
    BY <1>2 DEF OwedOnce, Differ
  <2>9. /\ enq["main"].job.view # None => enq["main"].job.view \in Views
        /\ \A i \in DOMAIN queue : queue[i].view # None => queue[i].view \in Views
        /\ \A z \in Workers : Undone(z) /\ worker[z].job.view # None => worker[z].job.view \in Views
    BY CarriersType, JobsType
  <2> HIDE DEF job, v
  <2>10. Owed(enq["main"].job)'  BY <2>7, <2>8, <2>9 DEF OwedOnce
  <2>11. \A i \in DOMAIN queue' : Owed(queue[i])' /\ Differ(queue'[i], enq'["main"].job)
    <3>1. \A i \in DOMAIN queue : Owed(queue[i])'  BY <2>7, <2>8, <2>9 DEF OwedOnce
    <3> QED  BY <3>1 DEF OwedOnce
  <2>12. ASSUME NEW z \in Workers, Undone(z)'
         PROVE  /\ Owed(worker[z].job)' /\ Differ(worker'[z].job, enq'["main"].job)
                /\ \A i \in DOMAIN queue' : Differ(worker'[z].job, queue'[i])
                /\ \A y \in Workers : Undone(y)' /\ z # y => Differ(worker'[z].job, worker'[y].job)
    <3>1. z # w /\ Undone(z) /\ worker'[z] = worker[z]  BY <1>0, <2>12
    <3>2. Owed(worker[z].job)'
      <4>1. Owed(worker[z].job)  BY <3>1 DEF OwedOnce
      <4> QED  BY <3>1, <4>1, <2>6, <2>8, <2>9 DEF Owed
    <3> QED  BY <1>0, <3>1, <3>2 DEF OwedOnce
  <2>13. \A u \in Views : asked'[u] = None => replies'[u] = << >>
    BY <2>4, <2>6 DEF OwedOnce
  <2>14. OwedOnce'  BY <2>10, <2>11, <2>12, <2>13 DEF OwedOnce
  <2>15. r \in {NoView, asked[v]}  BY <1>2 DEF v, job
  <2>16. AnswersRight'
    <3> SUFFICES ASSUME NEW u \in Views
                 PROVE  /\ Len(replies'[u]) <= 1
                        /\ \A i \in DOMAIN replies'[u] : replies'[u][i] \in {NoView, asked'[u]}
      BY DEF AnswersRight
    <3>1. CASE u = v
      <4>1. Len(<<r>>) = 1 /\ DOMAIN <<r>> = {1} /\ <<r>>[1] = r  OBVIOUS
      <4>2. replies'[u] = <<r>> /\ r \in {NoView, asked'[u]}  BY <2>6, <2>15, <3>1
      <4>3. \A i \in DOMAIN <<r>> : <<r>>[i] \in {NoView, asked'[u]}  BY <4>1, <4>2
      <4>4. Len(<<r>>) <= 1  BY <4>1
      <4> QED  BY <4>2, <4>3, <4>4
    <3>2. CASE u # v  BY <2>6, <3>2 DEF AnswersRight
    <3> QED  BY <3>1, <3>2
  <2> QED  BY <2>14, <2>16
<1> QED  BY <1>1, <1>2

LEMMA OwedPush ==
  ASSUME TypeOK, OwedOnce, AnswersRight, NEW t \in Threads, Push(t)
  PROVE  OwedOnce' /\ AnswersRight'
<1> DEFINE job == enq[t].job
           n == enq'["main"].job
<1>1. enq[t].pc = "push" /\ queue' = Append(queue, job)
      /\ enq' = [enq EXCEPT ![t] = [pc |-> "idle", job |-> NoJob]]
      /\ UNCHANGED <<asked, replies, worker>>
  BY DEF Push, client, output
<1>2. enq \in [Threads -> Enqueuing]  BY DEF TypeOK, EnqueueType
<1>3. job \in Jobs  BY <1>1, <1>2, NoJobIsNone
<1>4. /\ DOMAIN queue' = 1 .. Len(queue) + 1 /\ DOMAIN queue = 1 .. Len(queue) /\ Len(queue) \in Nat
      /\ \A i \in 1 .. Len(queue) : queue'[i] = queue[i]
      /\ queue'[Len(queue) + 1] = job
  <2>1. queue \in Seq(Jobs) /\ Len(queue) \in Nat  BY DEF TypeOK, QueueType
  <2> HIDE DEF job
  <2> QED  BY <1>1, <1>3, <2>1, AppendRange
<1>5. n.view = None \/ (t = "deb" /\ n = enq["main"].job)
  BY <1>1, <1>2, NoJobIsNone DEF Threads
<1>6. t = "main" \/ job.view = None  BY DEF TypeOK, EnqueueType, Threads
<1>7. Owed(job)  BY <1>6 DEF OwedOnce, Owed
<1>8. \A i \in DOMAIN queue : Differ(queue[i], job)
  BY <1>6, <1>4 DEF OwedOnce, Differ
<1>9. \A w \in Workers : Undone(w) => Differ(worker[w].job, job)
  BY <1>6 DEF OwedOnce, Differ
<1>10. \A j : Owed(j) => Owed(j)'  BY <1>1 DEF Owed
<1>11. \A j : Differ(j, enq["main"].job) => Differ(j, n)  BY <1>5 DEF Differ
<1>12. Differ(job, n)  BY <1>5, <1>6 DEF Differ
<1>13. Owed(enq["main"].job)'
  <2>1. Owed(enq["main"].job)  BY DEF OwedOnce
  <2> QED  BY <1>1, <1>5, <2>1 DEF Owed
<1> HIDE DEF job, n
<1>14. \A i \in DOMAIN queue' : \/ i \in DOMAIN queue /\ queue'[i] = queue[i]
                                \/ i = Len(queue) + 1 /\ queue'[i] = job
  BY <1>4
<1>15. ASSUME NEW i \in DOMAIN queue' PROVE Owed(queue[i])' /\ Differ(queue'[i], n)
  <2>1. Owed(queue'[i])  BY <1>7, <1>14 DEF OwedOnce
  <2>2. Owed(queue[i])'  BY <1>1, <2>1 DEF Owed
  <2> QED  BY <1>11, <1>12, <1>14, <2>2 DEF OwedOnce
<1>16. ASSUME NEW i \in DOMAIN queue', NEW j \in DOMAIN queue', i # j
       PROVE  Differ(queue'[i], queue'[j])
  <2>1. \A k \in DOMAIN queue : Differ(job, queue[k])  BY <1>8 DEF Differ
  <2> QED  BY <1>8, <1>14, <1>16, <2>1 DEF OwedOnce
<1>17. ASSUME NEW w \in Workers, Undone(w)'
       PROVE  /\ Owed(worker[w].job)' /\ Differ(worker'[w].job, n)
              /\ \A i \in DOMAIN queue' : Differ(worker'[w].job, queue'[i])
              /\ \A z \in Workers : Undone(z)' /\ w # z => Differ(worker'[w].job, worker'[z].job)
  <2>1. worker' = worker /\ Undone(w)  BY <1>1, <1>17 DEF Undone
  <2>2. Owed(worker[w].job)  BY <2>1 DEF OwedOnce
  <2>3. Owed(worker[w].job)'  BY <1>1, <2>2 DEF Owed
  <2>4. \A i \in DOMAIN queue' : Differ(worker[w].job, queue'[i])
    BY <1>9, <1>14, <2>1 DEF OwedOnce
  <2>5. \A z \in Workers : Undone(z)' => Undone(z)  BY <2>1 DEF Undone
  <2> QED  BY <1>11, <2>1, <2>3, <2>4, <2>5 DEF OwedOnce
<1>18. OwedOnce'  BY <1>1, <1>13, <1>15, <1>16, <1>17 DEF OwedOnce, n
<1> QED  BY <1>1, <1>18 DEF AnswersRight

LEMMA OwedTake ==
  ASSUME TypeOK, OwedOnce, AnswersRight, NEW w \in Workers, Take(w)
  PROVE  OwedOnce' /\ AnswersRight'
<1> DEFINE r == [pc |-> "check", job |-> Head(queue), slot |-> 0]
           n == enq["main"].job
<1>1. /\ worker[w].pc = "idle" /\ queue # << >> /\ queue' = Tail(queue)
      /\ worker' = [worker EXCEPT ![w] = r]
      /\ UNCHANGED <<asked, replies, enq>>
  BY DEF Take, client, output
<1>2. queue \in Seq(Jobs) /\ Len(queue) \in Nat /\ worker \in [Workers -> Working]
  BY DEF TypeOK, QueueType, PoolType
<1>3. /\ Head(queue) = queue[1] /\ 1 \in DOMAIN queue /\ DOMAIN queue = 1 .. Len(queue)
      /\ DOMAIN queue' = 1 .. Len(queue) - 1
      /\ \A i \in DOMAIN queue' : queue'[i] = queue[i + 1] /\ i + 1 \in DOMAIN queue
  BY <1>1, <1>2, TailRange
<1>4. r.pc = "check" /\ r.job = queue[1]  BY <1>3
<1> HIDE DEF r
<1>5. worker'[w] = r /\ \A z \in Workers : z # w => worker'[z] = worker[z]
  BY <1>1, <1>2
<1>6. \A z \in Workers : Undone(z)' <=> z = w \/ Undone(z)
  BY <1>1, <1>4, <1>5 DEF Undone
<1>7. \A z \in Workers : Undone(z) => z # w  BY <1>1 DEF Undone
<1>8. \A i \in DOMAIN queue' : Owed(queue[i])' /\ Differ(queue'[i], enq'["main"].job)
  <2> SUFFICES ASSUME NEW i \in DOMAIN queue'
               PROVE  Owed(queue[i])' /\ Differ(queue'[i], enq'["main"].job)
    OBVIOUS
  <2>1. Owed(queue[i + 1]) /\ Differ(queue[i + 1], enq["main"].job)  BY <1>3 DEF OwedOnce
  <2> QED  BY <1>1, <1>3, <2>1 DEF Owed
<1>9. \A i, j \in DOMAIN queue' : i # j => Differ(queue'[i], queue'[j])
  <2> SUFFICES ASSUME NEW i \in DOMAIN queue', NEW j \in DOMAIN queue', i # j
               PROVE  Differ(queue'[i], queue'[j])
    OBVIOUS
  <2>1. i + 1 # j + 1  BY <1>3
  <2> QED  BY <1>3, <2>1 DEF OwedOnce
<1>10. \A i \in DOMAIN queue' : Differ(queue[1], queue'[i])
  <2> SUFFICES ASSUME NEW i \in DOMAIN queue' PROVE Differ(queue[1], queue'[i])  OBVIOUS
  <2>1. i + 1 # 1  BY <1>2, <1>3
  <2> QED  BY <1>3, <2>1 DEF OwedOnce
<1>11. Owed(queue[1]) /\ Differ(queue[1], n)  BY <1>3 DEF OwedOnce
<1>12. ASSUME NEW z \in Workers, Undone(z)'
       PROVE  /\ Owed(worker[z].job)' /\ Differ(worker'[z].job, enq'["main"].job)
              /\ \A i \in DOMAIN queue' : Differ(worker'[z].job, queue'[i])
              /\ \A y \in Workers : Undone(y)' /\ z # y => Differ(worker'[z].job, worker'[y].job)
  <2>1. CASE z = w
    <3>1. worker'[z].job = queue[1]  BY <1>4, <1>5, <2>1
    <3>2. Owed(worker[z].job)'  BY <1>1, <1>11, <3>1 DEF Owed
    <3>3. \A y \in Workers : Undone(y)' /\ z # y => Differ(queue[1], worker'[y].job)
      <4> SUFFICES ASSUME NEW y \in Workers, Undone(y)', z # y PROVE Differ(queue[1], worker'[y].job)
        OBVIOUS
      <4>1. Undone(y) /\ worker'[y] = worker[y]  BY <1>5, <1>6, <2>1
      <4>2. Differ(worker[y].job, queue[1])  BY <1>3, <4>1 DEF OwedOnce
      <4> QED  BY <4>1, <4>2 DEF Differ
    <3> QED  BY <1>1, <1>10, <1>11, <3>1, <3>2, <3>3
  <2>2. CASE z # w
    <3>1. Undone(z) /\ worker'[z] = worker[z]  BY <1>5, <1>6, <1>12, <2>2
    <3>2. Owed(worker[z].job)  BY <3>1 DEF OwedOnce
    <3>3. Owed(worker[z].job)'  BY <1>1, <3>1, <3>2 DEF Owed
    <3>4. \A i \in DOMAIN queue' : Differ(worker[z].job, queue'[i])  BY <1>3, <3>1 DEF OwedOnce
    <3>5. Differ(worker[z].job, enq'["main"].job)  BY <1>1, <3>1 DEF OwedOnce
    <3>6. ASSUME NEW y \in Workers, Undone(y)', z # y PROVE Differ(worker[z].job, worker'[y].job)
      <4>1. CASE y = w  BY <1>3, <1>4, <1>5, <3>1, <4>1 DEF OwedOnce
      <4>2. CASE y # w  BY <1>5, <1>6, <3>1, <3>6, <4>2 DEF OwedOnce
      <4> QED  BY <4>1, <4>2
    <3> QED  BY <3>1, <3>3, <3>4, <3>5, <3>6
  <2> QED  BY <2>1, <2>2
<1>13. Owed(enq["main"].job)'
  <2>1. Owed(enq["main"].job)  BY DEF OwedOnce
  <2> QED  BY <1>1, <2>1 DEF Owed
<1>14. OwedOnce'  BY <1>1, <1>8, <1>9, <1>12, <1>13 DEF OwedOnce
<1> QED  BY <1>1, <1>14 DEF AnswersRight

LEMMA OwedView ==
  ASSUME TypeOK, Backed, OwedOnce, AnswersRight,
         NEW v \in Views, NEW u \in Uris, NEW k \in Kinds, ViewRequest(v, u, k)
  PROVE  OwedOnce' /\ AnswersRight'
<1> DEFINE key == ViewKey(u, docs[u], k)
           hit == CachePosition(key)
           m == enq["main"].job
           n == enq'["main"].job
<1>1. /\ LoopFree /\ asked[v] = None
      /\ asked' = [asked EXCEPT ![v] = key]
      /\ UNCHANGED <<queue, worker>>
  BY DEF ViewRequest, Message
<1>2. \/ replies' = [replies EXCEPT ![v] = Append(@, NoView)] /\ enq' = enq
      \/ hit > 0 /\ replies' = [replies EXCEPT ![v] = Append(@, cache[hit].result)] /\ enq' = enq
      \/ docs[u] # None /\ Begin("main", u, docs[u], v, k) /\ replies' = replies
  BY DEF ViewRequest
<1>3. hit > 0 => cache[hit].result = key
  <2>1. hit \in 0 .. Len(cache) /\ (hit > 0 => cache[hit].key = key)  BY CachePositionType
  <2>2. Len(cache) \in Nat /\ DOMAIN cache = 1 .. Len(cache)  BY DEF TypeOK, OutputType
  <2> HIDE DEF hit, key
  <2> QED  BY <2>1, <2>2 DEF Backed
<1>4. m.view = None
  BY <1>1, NoJobIsNone DEF LoopFree, TypeOK, EnqueueType, Threads
<1>5. docs \in [Uris -> Texts \cup {None}] /\ key # None
  BY KeysAreNotNone DEF TypeOK, ClientType
<1>6. replies[v] = << >>  BY <1>1 DEF OwedOnce
<1>7. /\ asked'[v] = key /\ \A x \in Views : x # v => asked'[x] = asked[x]
      /\ \A x \in Views : x # v => replies'[x] = replies[x]
  BY <1>1, <1>2 DEF TypeOK, ClientType, OutputType
<1>8. \/ /\ n.view = None
         /\ replies'[v] = <<NoView>> \/ replies'[v] = <<key>>
      \/ /\ n.view = v /\ n.kind = k /\ n.uri = u /\ n.text = docs[u]
         /\ replies'[v] = << >>
  <2>1. CASE docs[u] # None /\ Begin("main", u, docs[u], v, k) /\ replies' = replies
    <3>1. docs[u] \in Texts  BY <1>5, <2>1
    <3>2. n.view = v /\ n.kind = k /\ n.uri = u /\ n.text = docs[u]
      BY <2>1, <3>1, BeginEffect DEF Threads
    <3> QED  BY <1>6, <2>1, <3>2
  <2>2. CASE replies' = [replies EXCEPT ![v] = Append(@, NoView)] /\ enq' = enq
    BY <1>4, <1>6, <2>2 DEF TypeOK, OutputType
  <2>3. CASE hit > 0 /\ replies' = [replies EXCEPT ![v] = Append(@, cache[hit].result)] /\ enq' = enq
    <3>1. replies'[v] = Append(replies[v], cache[hit].result)  BY <2>3 DEF TypeOK, OutputType
    <3>2. replies'[v] = <<key>>  BY <1>3, <1>6, <2>3, <3>1
    <3> QED  BY <1>4, <2>3, <3>2
  <2> QED  BY <1>2, <2>1, <2>2, <2>3
\* No job carries a view that was not asked for.
<1>9. \A j \in Jobs : Owed(j) => j.view # v /\ Owed(j)'
  <2> SUFFICES ASSUME NEW j \in Jobs, Owed(j) PROVE j.view # v /\ Owed(j)'  OBVIOUS
  <2>1. CASE j.view = None  BY <2>1, LspAssumption DEF Owed
  <2>2. CASE j.view # None
    <3>1. j.view \in Views /\ asked[j.view] # None
      BY <2>2, JobsType, KeysAreNotNone DEF Owed
    <3>2. j.view # v  BY <1>1, <3>1
    <3> QED  BY <1>7, <3>1, <3>2 DEF Owed
  <2> QED  BY <2>1, <2>2
<1> HIDE DEF key, hit, m
<1>10. \A j \in Jobs : Owed(j) => Differ(j, n)
  BY <1>8, <1>9 DEF Differ
<1>11. Owed(enq["main"].job)'
  <2>1. CASE n.view = None  BY <2>1 DEF Owed
  <2>2. CASE n.view = v /\ n.kind = k /\ n.uri = u /\ n.text = docs[u] /\ replies'[v] = << >>
    <3>1. asked'[n.view] = ViewKey(n.uri, n.text, n.kind)  BY <1>7, <2>2 DEF key
    <3> QED  BY <2>2, <3>1 DEF Owed
  <2> QED  BY <1>8, <2>1, <2>2
<1> HIDE DEF n
<1>12. ASSUME NEW i \in DOMAIN queue' PROVE Owed(queue[i])' /\ Differ(queue'[i], n)
  <2>1. queue' = queue /\ queue[i] \in Jobs /\ Owed(queue[i])  BY <1>1, CarriersType DEF OwedOnce
  <2>2. Owed(queue[i])'
    <3>1. \A j \in Jobs : Owed(j) => (j.view # None => /\ asked'[j.view] = ViewKey(j.uri, j.text, j.kind)
                                                       /\ replies'[j.view] = << >>)
      BY <1>9 DEF Owed
    <3> QED  BY <2>1, <3>1 DEF Owed
  <2> QED  BY <1>10, <2>1, <2>2
<1>13. ASSUME NEW w \in Workers, Undone(w)'
       PROVE  /\ Owed(worker[w].job)' /\ Differ(worker'[w].job, n)
              /\ \A i \in DOMAIN queue' : Differ(worker'[w].job, queue'[i])
              /\ \A z \in Workers : Undone(z)' /\ w # z => Differ(worker'[w].job, worker'[z].job)
  <2>1. Undone(w) /\ worker' = worker /\ queue' = queue  BY <1>1, <1>13 DEF Undone
  <2>2. worker[w].job \in Jobs /\ Owed(worker[w].job)  BY <2>1, CarriersType DEF OwedOnce
  <2>3. Owed(worker[w].job)'
    <3>1. \A j \in Jobs : Owed(j) => (j.view # None => /\ asked'[j.view] = ViewKey(j.uri, j.text, j.kind)
                                                       /\ replies'[j.view] = << >>)
      BY <1>9 DEF Owed
    <3> QED  BY <2>1, <2>2, <3>1 DEF Owed
  <2>4. \A z \in Workers : Undone(z)' => Undone(z)  BY <2>1 DEF Undone
  <2> QED  BY <1>10, <2>1, <2>2, <2>3, <2>4 DEF OwedOnce
<1>14. \A x \in Views : asked'[x] = None => replies'[x] = << >>
  BY <1>5, <1>7 DEF OwedOnce
<1>15. OwedOnce'
  <2>1. \A i, j \in DOMAIN queue' : i # j => Differ(queue'[i], queue'[j])  BY <1>1 DEF OwedOnce
  <2> QED  BY <1>11, <1>12, <1>13, <1>14, <2>1 DEF OwedOnce, n
<1>16. AnswersRight'
  <2> SUFFICES ASSUME NEW x \in Views
               PROVE  /\ Len(replies'[x]) <= 1
                      /\ \A i \in DOMAIN replies'[x] : replies'[x][i] \in {NoView, asked'[x]}
    BY DEF AnswersRight
  <2>1. CASE x # v  BY <1>7, <2>1 DEF AnswersRight
  <2>2. ASSUME NEW r, r \in {NoView, key}, x = v, replies'[v] = <<r>>
        PROVE  /\ Len(replies'[x]) <= 1
               /\ \A i \in DOMAIN replies'[x] : replies'[x][i] \in {NoView, asked'[x]}
    <3>1. Len(<<r>>) = 1 /\ \A i \in DOMAIN <<r>> : <<r>>[i] = r  OBVIOUS
    <3>2. asked'[x] = key  BY <1>7, <2>2
    <3> QED  BY <2>2, <3>1, <3>2
  <2>3. CASE x = v /\ replies'[v] = << >>
    <3>1. replies'[x] = << >> /\ Len(<< >>) = 0 /\ DOMAIN << >> = {}  BY <2>3
    <3> QED  BY <3>1
  <2> QED  BY <1>8, <2>1, <2>2, <2>3
<1> QED  BY <1>15, <1>16

LEMMA OwedRunStep ==
  ASSUME TypeOK, Backed, OwedOnce, AnswersRight, NEW w \in Workers, Run(w)
  PROVE  OwedOnce' /\ AnswersRight'
<1>0. worker[w] \in Working /\ Idle.pc = "idle"  BY DEF TypeOK, PoolType, Idle
<1>1. ASSUME UNCHANGED <<asked, replies, queue, enq>>,
             NEW r, worker' = [worker EXCEPT ![w] = r],
             r.pc \in {"idle", "exit", "release"} \/ (Undone(w) /\ r.job = worker[w].job)
      PROVE  OwedOnce' /\ AnswersRight'
  <2>1. \A z \in Workers : Undone(z)' => Undone(z) /\ worker'[z].job = worker[z].job
    BY <1>1 DEF Undone, TypeOK, PoolType
  <2>2. Carries(enq'["main"].job, enq["main"].job)  BY <1>1 DEF Carries
  <2> QED  BY <1>1, <2>1, <2>2, OwedFrame
<1>2. CASE WorkerExit(w)
  <2> DEFINE r == [worker[w] EXCEPT !.pc = "exit"]
  <2>1. worker' = [worker EXCEPT ![w] = r] /\ r.pc = "exit"
    BY <1>0, <1>2 DEF WorkerExit, TypeOK, PoolType, Working
  <2> HIDE DEF r
  <2> QED  BY <1>1, <1>2, <2>1 DEF WorkerExit, client, output
<1>3. CASE Check(w)
  <2> DEFINE r == IF Superseded(worker[w].job) THEN Idle ELSE [worker[w] EXCEPT !.pc = "reserve"]
  <2>1. worker' = [worker EXCEPT ![w] = r] /\ (r.pc = "idle" \/ r.job = worker[w].job)
    BY <1>0, <1>3 DEF Check, TypeOK, PoolType, Working
  <2>2. Undone(w)  BY <1>3 DEF Check, Undone
  <2> HIDE DEF r
  <2> QED  BY <1>1, <1>3, <2>1, <2>2 DEF Check, client, output
<1>4. CASE Reserve(w)
  <2> DEFINE r == [pc |-> "analyse", job |-> worker[w].job, slot |-> free[Preferred(worker[w].job)]]
  <2>1. worker' = [worker EXCEPT ![w] = r] /\ r.job = worker[w].job  BY <1>4 DEF Reserve
  <2>2. Undone(w)  BY <1>4 DEF Reserve, Undone
  <2> HIDE DEF r
  <2> QED  BY <1>1, <1>4, <2>1, <2>2 DEF Reserve, client, output
<1>5. CASE Release(w)
  BY <1>0, <1>1, <1>5 DEF Release, client, output
<1>6. CASE Reuse(w)
  <2> DEFINE r == [worker[w] EXCEPT !.pc = "emit"]
  <2>1. worker' = [worker EXCEPT ![w] = r] /\ r.job = worker[w].job /\ Undone(w)
    BY <1>0, <1>6 DEF Reuse, Step, Undone, TypeOK, PoolType, Working
  <2> HIDE DEF r
  <2> QED  BY <1>1, <1>6, <2>1 DEF Reuse, client, output
<1>7. ASSUME NEW o \in Outcomes, Analyse(w, o) PROVE OwedOnce' /\ AnswersRight'
  <2>1. worker[w].pc = "analyse" /\ UNCHANGED <<asked, queue, enq>>
    BY <1>7 DEF Analyse, client
  <2>2. CASE o = "ok"
    <3> DEFINE pc == IF worker[w].job.view = None THEN "release" ELSE "emit"
               r == [worker[w] EXCEPT !.pc = pc]
    <3>1. worker' = [worker EXCEPT ![w] = r] /\ r.job = worker[w].job /\ Undone(w)
      BY <1>0, <1>7, <2>1, <2>2 DEF Analyse, Step, Undone, TypeOK, PoolType, Working
    <3>2. replies' = replies  BY <1>7, <2>2 DEF Analyse
    <3> HIDE DEF r
    <3> QED  BY <1>1, <2>1, <3>1, <3>2
  <2>3. CASE o # "ok"
    <3>1. Step(w, "release") /\ Respond(worker[w].job, NoView)  BY <1>7, <2>3 DEF Analyse
    <3>2. worker'[w].pc = "release" /\ \A z \in Workers : z # w => worker'[z] = worker[z]
      BY <2>1, <3>1, StepEffect DEF BusyPCs
    <3>3. Undone(w) /\ ~ Undone(w)'  BY <2>1, <3>2 DEF Undone
    <3> QED  BY <2>1, <3>1, <3>2, <3>3, RespondStep
  <2> QED  BY <2>2, <2>3
<1>8. CASE Emit(w)
  <2> DEFINE job == worker[w].job
             h == held[worker[w].slot]
             view == IF h = None THEN ViewKey(None, None, job.kind)
                     ELSE ViewKey(h.uri, h.text, job.kind)
  <2>1. worker[w].pc = "emit" /\ Step(w, "release") /\ UNCHANGED <<asked, queue, enq>>
    BY <1>8 DEF Emit, client
  <2>2. worker'[w].pc = "release" /\ \A z \in Workers : z # w => worker'[z] = worker[z]
    BY <2>1, StepEffect DEF BusyPCs
  <2>3. Undone(w) /\ ~ Undone(w)'  BY <2>1, <2>2 DEF Undone
  <2>4. view = ViewKey(job.uri, job.text, job.kind)  BY <2>1 DEF Backed
  <2>5. job.view # None => asked[job.view] = view  BY <2>3, <2>4 DEF OwedOnce, Owed
  <2>6. Respond(job, view) \/ Respond(job, NoView)  BY <1>8 DEF Emit
  <2> HIDE DEF view
  <2> QED  BY <2>1, <2>2, <2>3, <2>5, <2>6, RespondStep
<1> QED  BY <1>2, <1>3, <1>4, <1>5, <1>6, <1>7, <1>8, OwedTake DEF Run

LEMMA OwedStep ==
  TypeOK /\ Backed /\ OwedOnce /\ AnswersRight /\ [Next]_vars => OwedOnce' /\ AnswersRight'
<1> SUFFICES ASSUME TypeOK, Backed, OwedOnce, AnswersRight, [Next]_vars
             PROVE  OwedOnce' /\ AnswersRight'
  OBVIOUS
<1>1. ASSUME UNCHANGED <<asked, replies, queue, worker>>,
             Carries(enq'["main"].job, enq["main"].job)
      PROVE  OwedOnce' /\ AnswersRight'
  <2>1. \A w \in Workers : Undone(w)' => Undone(w) /\ worker'[w].job = worker[w].job
    BY <1>1 DEF Undone
  <2> QED  BY <1>1, <2>1, OwedFrame
<1>2. enq' = enq => Carries(enq'["main"].job, enq["main"].job)  BY DEF Carries
<1>3. enq \in [Threads -> Enqueuing]  BY DEF TypeOK, EnqueueType
<1>4. CASE UNCHANGED vars  BY <1>1, <1>2, <1>4 DEF vars, client
<1>5. CASE Client
  <2>1. ASSUME NEW u \in Uris, NEW x \in Texts, Begin("main", u, x, None, None)
        PROVE  Carries(enq'["main"].job, enq["main"].job)
    BY <2>1, BeginEffect DEF Carries, Threads
  <2>2. ASSUME NEW u \in Uris, NEW x \in Texts, DidOpen(u, x) PROVE OwedOnce' /\ AnswersRight'
    BY <1>1, <2>1, <2>2 DEF DidOpen, output
  <2>3. ASSUME NEW u \in Uris, NEW x \in Texts, DidChange(u, x) PROVE OwedOnce' /\ AnswersRight'
    BY <1>1, <1>2, <2>3 DEF DidChange, output
  <2>4. ASSUME NEW u \in Uris, DidSave(u) PROVE OwedOnce' /\ AnswersRight'
    <3>1. docs[u] \in Texts  BY <2>4 DEF DidSave, TypeOK, ClientType
    <3> QED  BY <1>1, <2>1, <2>4, <3>1 DEF DidSave, output
  <2>5. ASSUME NEW u \in Uris, DidClose(u) PROVE OwedOnce' /\ AnswersRight'
    BY <1>1, <1>2, <2>5 DEF DidClose, output
  <2>6. CASE LocaleAsk \/ StopDebounce
    BY <1>1, <1>2, <2>6 DEF LocaleAsk, StopDebounce, output
  <2> QED  BY <1>5, <2>2, <2>3, <2>4, <2>5, <2>6, OwedView DEF Client
<1>6. CASE Loop
  <2>1. ASSUME NEW t \in Threads, Bump(t) PROVE OwedOnce' /\ AnswersRight'
    <3>1. enq' = [enq EXCEPT ![t] = [pc |-> "push", job |-> [enq[t].job EXCEPT !.gen = gen[enq[t].job.uri] + 1]]]
          /\ enq[t].pc = "bump"
      BY <2>1, <1>3 DEF Bump
    <3>2. enq[t].job \in Jobs  BY <1>3, <3>1, NoJobIsNone
    <3>3. Carries([enq[t].job EXCEPT !.gen = gen[enq[t].job.uri] + 1], enq[t].job)
      BY <3>2 DEF Carries, Jobs
    <3>4. Carries(enq'["main"].job, enq["main"].job)
      BY <1>3, <3>1, <3>3 DEF Carries, Threads
    <3> QED  BY <1>1, <2>1, <3>4 DEF Bump, client, output
  <2>2. CASE LocaleReserve \/ LocaleRelease \/ StopWorkers
    BY <1>1, <1>2, <2>2 DEF LocaleReserve, LocaleRelease, StopWorkers, client, output
  <2> QED  BY <1>6, <2>1, <2>2, OwedPush DEF Loop
<1>7. CASE Debounce
  <2>1. ASSUME NEW u, NEW x, Begin("deb", u, x, None, None)
        PROVE  Carries(enq'["main"].job, enq["main"].job)
    BY <1>3, <2>1 DEF Begin, Carries, Threads
  <2>2. CASE DebounceFire
    BY <1>1, <2>1, <2>2 DEF DebounceFire, client, output
  <2>3. CASE DebounceCapture \/ DebounceAgain \/ DebounceExit
    BY <1>1, <1>2, <2>3 DEF DebounceCapture, DebounceAgain, DebounceExit, client, output
  <2> QED  BY <1>7, <2>2, <2>3 DEF Debounce
<1> QED  BY <1>4, <1>5, <1>6, <1>7, OwedRunStep DEF Next

-----------------------------------------------------------------------------
(***************************************************************************)
(* Generations.                                                            *)
(***************************************************************************)
Held == {enq[t].job : t \in Threads} \cup Range(queue) \cup {worker[w].job : w \in Workers}
Newest(u, job) == job.uri = u /\ job.gen = gen[u]

LEMMA HoldersType ==
  ASSUME TypeOK
  PROVE  /\ \A t \in Threads : /\ enq[t].pc # "idle" => enq[t].job \in Jobs
                               /\ enq[t].pc = "idle" => enq[t].job = NoJob
         /\ \A i \in DOMAIN queue : queue[i] \in Jobs
         /\ \A w \in Workers : /\ worker[w].job # NoJob => worker[w].job \in Jobs
                               /\ worker[w].pc \in BusyPCs => worker[w].job \in Jobs
                               /\ worker[w].pc \in {"check", "reserve"} => worker[w].job \in Jobs
         /\ \A u \in Uris : ~ Newest(u, NoJob)
<1>1. enq \in [Threads -> Enqueuing] /\ worker \in [Workers -> Working] /\ queue \in Seq(Jobs)
  BY DEF TypeOK, EnqueueType, PoolType, QueueType
<1>2. \A t \in Threads : enq[t].pc \in {"idle", "bump", "push"}  BY <1>1 DEF Enqueuing
<1>3. \A w \in Workers : worker[w].job \in Jobs \cup {NoJob}  BY <1>1 DEF Working
<1>4. \A i \in DOMAIN queue : queue[i] \in Jobs  BY <1>1
<1>5. \A u \in Uris : ~ Newest(u, NoJob)  BY LspAssumption, NoJobIsNone DEF Newest
<1>6. \A w \in Workers : worker[w].pc \in BusyPCs \cup {"check", "reserve"} => worker[w].job \in Jobs
  BY <1>1, NoJobIsNone DEF BusyPCs
<1> QED  BY <1>1, <1>2, <1>3, <1>4, <1>5, <1>6, NoJobIsNone

\* A step that gives out no generation and queues nothing: a job may be
\* dropped when it is not the newest or has had its slot.
LEMMA GenerationsFrame ==
  ASSUME TypeOK, GenerationsRight, NewestNeverLost,
         gen' = gen, queue' = queue,
         \A u \in Uris : newest[u].ran => newest'[u].ran,
         \A t \in Threads : /\ enq'[t].pc = "push" => enq'[t] = enq[t]
                            /\ enq[t].pc # "idle" => enq'[t].job = enq[t].job,
         \A w \in Workers :
           LET job == worker[w].job IN
           /\ \/ worker'[w].job = job
              \/ worker'[w].job = NoJob /\ (job.gen # gen[job.uri] \/ newest[job.uri].ran)
           /\ worker'[w].pc \in BusyPCs =>
                /\ worker'[w].job = job
                /\ \/ worker[w].pc \in BusyPCs
                   \/ job \in Jobs /\ (job.gen = gen[job.uri] => newest'[job.uri].ran)
  PROVE  GenerationsRight' /\ NewestNeverLost'
<1>1. \A t \in Threads : enq'[t].pc = "push" => Dated(enq[t].job)'
  BY DEF GenerationsRight, Dated
<1>2. \A i \in DOMAIN queue' : Dated(queue[i])'  BY DEF GenerationsRight, Dated
<1>3. \A w \in Workers : worker'[w].job # NoJob => Dated(worker[w].job)'
  BY DEF GenerationsRight, Dated
<1>4. ASSUME NEW w \in Workers, worker'[w].pc \in BusyPCs
      PROVE  LET job == worker'[w].job IN job.gen = gen'[job.uri] => newest'[job.uri].ran
  <2>1. CASE worker[w].pc \in BusyPCs
    <3>1. w \in Busy  BY <2>1 DEF Busy, BusyPCs
    <3>2. worker'[w].job = worker[w].job  BY <1>4
    <3>3. worker[w].job \in Jobs  BY <2>1, HoldersType
    <3> QED  BY <3>1, <3>2, <3>3, JobsType DEF GenerationsRight
  <2>2. CASE worker[w].pc \notin BusyPCs  BY <1>4, <2>2
  <2> QED  BY <2>1, <2>2
<1>5. GenerationsRight'
  <2>1. \A w \in Busy' : w \in Workers /\ worker'[w].pc \in BusyPCs  BY DEF Busy, BusyPCs
  <2> QED  BY <1>1, <1>2, <1>3, <1>4, <2>1 DEF GenerationsRight
<1>6. ASSUME NEW u \in Uris, ~ newest'[u].ran
      PROVE  \E job \in {enq'[t].job : t \in Threads} \cup Range(queue')
                        \cup {worker'[w].job : w \in Workers} : job.uri = u /\ job.gen = gen'[u]
  <2>1. PICK job \in Held : Newest(u, job)  BY <1>6 DEF NewestNeverLost, Held, Newest
  <2>2. ASSUME NEW t \in Threads, job = enq[t].job PROVE enq'[t].job = job
    BY <2>1, <2>2, HoldersType
  <2>3. ASSUME NEW w \in Workers, job = worker[w].job PROVE worker'[w].job = job
    BY <1>6, <2>1, <2>3 DEF Newest
  <2> QED  BY <2>1, <2>2, <2>3 DEF Held, Newest
<1> QED  BY <1>5, <1>6 DEF NewestNeverLost

LEMMA GenerationsBump ==
  ASSUME TypeOK, GenerationsRight, NewestNeverLost, NEW t \in Threads, Bump(t)
  PROVE  GenerationsRight' /\ NewestNeverLost'
<1> DEFINE job == enq[t].job
           u == job.uri
           new == [job EXCEPT !.gen = gen[u] + 1]
<1>1. /\ enq[t].pc = "bump"
      /\ gen' = [gen EXCEPT ![u] = gen[u] + 1]
      /\ enq' = [enq EXCEPT ![t] = [pc |-> "push", job |-> new]]
      /\ \E n \in Nat : newest' = [newest EXCEPT ![u] = [revision |-> n, ran |-> FALSE]]
      /\ UNCHANGED <<queue, worker>>
  <2>1. enq \in [Threads -> Enqueuing] /\ gen \in [Uris -> Nat]
        /\ newest \in [Uris -> [revision : Nat, ran : BOOLEAN]]
    BY DEF TypeOK, EnqueueType, QueueType
  <2>2. enq[t].pc = "bump"  BY DEF Bump
  <2>3. u \in Uris  BY <2>1, <2>2, NoJobIsNone, JobsType
  <2>4. gen' = [gen EXCEPT ![u] = gen[u] + 1] /\ gen'[u] \in Nat  BY <2>1, <2>3 DEF Bump
  <2>5. newest' = [newest EXCEPT ![u] =
          [revision |-> IF job.view = None THEN gen'[u] ELSE newest[u].revision, ran |-> FALSE]]
    BY DEF Bump
  <2>6. (IF job.view = None THEN gen'[u] ELSE newest[u].revision) \in Nat  BY <2>1, <2>3, <2>4
  <2>7. enq' = [enq EXCEPT ![t] = [pc |-> "push", job |-> new]]  BY <2>1 DEF Bump
  <2>8. UNCHANGED <<queue, worker>>  BY DEF Bump
  <2> QED  BY <2>2, <2>4, <2>5, <2>6, <2>7, <2>8
<1>2. job \in Jobs  BY <1>1, HoldersType
<1>3. u \in Uris /\ new \in Jobs /\ new.uri = u /\ new.gen = gen[u] + 1 /\ gen[u] \in Nat
  <2>1. u \in Uris /\ gen \in [Uris -> Nat]  BY <1>2, JobsType DEF TypeOK, QueueType
  <2>2. gen[u] \in Nat /\ gen[u] + 1 \in Nat  BY <2>1
  <2> QED  BY <1>2, <2>1, <2>2, JobsType DEF Jobs
<1> HIDE DEF new
<1>4. /\ gen'[u] = gen[u] + 1 /\ \A x \in Uris : x # u => gen'[x] = gen[x] /\ newest'[x] = newest[x]
      /\ \A x \in Uris : gen[x] \in Nat
      /\ enq'[t] = [pc |-> "push", job |-> new] /\ \A z \in Threads : z # t => enq'[z] = enq[z]
  BY <1>1, <1>3 DEF TypeOK, QueueType, EnqueueType
<1> HIDE DEF job, u
<1>5. \A j \in Jobs : j.gen <= gen[j.uri] => j.gen <= gen'[j.uri]
  <2> SUFFICES ASSUME NEW j \in Jobs, j.gen <= gen[j.uri] PROVE j.gen <= gen'[j.uri]  OBVIOUS
  <2>1. j.uri \in Uris /\ j.gen \in Nat  BY JobsType
  <2> QED  BY <1>4, <2>1
<1>6. ASSUME NEW z \in Threads, enq'[z].pc = "push" PROVE Dated(enq[z].job)'
  <2>1. CASE z = t  BY <1>3, <1>4, <2>1 DEF Dated
  <2>2. CASE z # t
    <3>1. enq'[z] = enq[z] /\ Dated(enq[z].job)  BY <1>4, <1>6, <2>2 DEF GenerationsRight
    <3>2. enq[z].job \in Jobs  BY <1>6, <3>1, HoldersType
    <3> QED  BY <1>5, <3>1, <3>2 DEF Dated
  <2> QED  BY <2>1, <2>2
<1>7. ASSUME NEW i \in DOMAIN queue' PROVE Dated(queue[i])'
  <2>1. queue' = queue /\ Dated(queue[i]) /\ queue[i] \in Jobs
    BY <1>1, HoldersType DEF GenerationsRight
  <2> QED  BY <1>5, <2>1 DEF Dated
<1>8. ASSUME NEW w \in Workers, worker'[w].job # NoJob PROVE Dated(worker[w].job)'
  <2>1. worker' = worker /\ Dated(worker[w].job) /\ worker[w].job \in Jobs
    BY <1>1, <1>8, HoldersType DEF GenerationsRight
  <2> QED  BY <1>5, <2>1 DEF Dated
<1>9. ASSUME NEW w \in Busy'
      PROVE  LET j == worker'[w].job IN j.gen = gen'[j.uri] => newest'[j.uri].ran
  <2> DEFINE j == worker[w].job
  <2>1. worker' = worker /\ w \in Busy /\ w \in Workers  BY <1>1 DEF Busy
  <2>2. j \in Jobs  BY <2>1, HoldersType DEF Busy, BusyPCs
  <2>3. j.uri \in Uris /\ j.gen \in Nat /\ j # NoJob  BY <2>2, JobsType, NoJobIsNone
  <2>4. j.gen <= gen[j.uri]  BY <2>1, <2>3 DEF GenerationsRight, Dated
  <2>5. j.gen = gen[j.uri] => newest[j.uri].ran  BY <2>1 DEF GenerationsRight
  <2> HIDE DEF j
  <2>6. j.gen = gen'[j.uri] => j.uri # u  BY <1>3, <1>4, <2>3, <2>4
  <2>7. j.gen = gen'[j.uri] => newest'[j.uri].ran  BY <1>4, <2>3, <2>5, <2>6
  <2> QED  BY <2>1, <2>7 DEF j
<1>10. GenerationsRight'  BY <1>6, <1>7, <1>8, <1>9 DEF GenerationsRight
<1>11. ASSUME NEW x \in Uris, ~ newest'[x].ran
       PROVE  \E j \in {enq'[z].job : z \in Threads} \cup Range(queue')
                       \cup {worker'[w].job : w \in Workers} : j.uri = x /\ j.gen = gen'[x]
  <2>1. CASE x = u  BY <1>3, <1>4, <2>1
  <2>2. CASE x # u
    <3>1. PICK j \in Held : Newest(x, j)
      BY <1>4, <1>11, <2>2 DEF NewestNeverLost, Held, Newest
    <3>2. j # job  BY <2>2, <3>1 DEF Newest, u
    <3>3. ASSUME NEW z \in Threads, j = enq[z].job PROVE enq'[z].job = j
      BY <1>4, <3>2, <3>3 DEF job
    <3> QED  BY <1>1, <1>4, <2>2, <3>1, <3>3 DEF Held, Newest
  <2> QED  BY <2>1, <2>2
<1> QED  BY <1>10, <1>11 DEF NewestNeverLost

\* A job moves on: into the queue, or from it to a worker.
LEMMA GenerationsPush ==
  ASSUME TypeOK, GenerationsRight, NewestNeverLost, NEW t \in Threads, Push(t)
  PROVE  GenerationsRight' /\ NewestNeverLost'
<1> DEFINE job == enq[t].job
<1>1. /\ enq[t].pc = "push" /\ queue' = Append(queue, job)
      /\ enq' = [enq EXCEPT ![t] = [pc |-> "idle", job |-> NoJob]]
      /\ UNCHANGED <<gen, newest, worker>>
  BY DEF Push
<1>2. job \in Jobs /\ Dated(job)  BY <1>1, HoldersType DEF GenerationsRight
<1> HIDE DEF job
<1>3. /\ DOMAIN queue' = 1 .. Len(queue) + 1 /\ DOMAIN queue = 1 .. Len(queue) /\ Len(queue) \in Nat
      /\ \A i \in 1 .. Len(queue) : queue'[i] = queue[i]
      /\ queue'[Len(queue) + 1] = job
      /\ Range(queue') = Range(queue) \cup {job}
  <2>1. queue \in Seq(Jobs) /\ Len(queue) \in Nat  BY DEF TypeOK, QueueType
  <2> QED  BY <1>1, <1>2, <2>1, AppendRange
<1>4. enq'[t].pc = "idle" /\ \A z \in Threads : z # t => enq'[z] = enq[z]
  BY <1>1 DEF TypeOK, EnqueueType
<1>5. \A z \in Threads : enq'[z].pc = "push" => Dated(enq[z].job)'
  BY <1>1, <1>4 DEF GenerationsRight, Dated
<1>6. ASSUME NEW i \in DOMAIN queue' PROVE Dated(queue[i])'
  <2>1. i \in DOMAIN queue \/ i = Len(queue) + 1  BY <1>3
  <2>2. Dated(queue'[i])  BY <1>2, <1>3, <2>1 DEF GenerationsRight
  <2> QED  BY <1>1, <2>2 DEF Dated
<1>7. \A w \in Workers : worker'[w].job # NoJob => Dated(worker[w].job)'
  BY <1>1 DEF GenerationsRight, Dated
<1>8. \A w \in Busy' : LET j == worker'[w].job IN j.gen = gen'[j.uri] => newest'[j.uri].ran
  BY <1>1 DEF GenerationsRight, Busy
<1>9. GenerationsRight'  BY <1>5, <1>6, <1>7, <1>8 DEF GenerationsRight
<1>10. ASSUME NEW x \in Uris, ~ newest'[x].ran
       PROVE  \E j \in {enq'[z].job : z \in Threads} \cup Range(queue')
                       \cup {worker'[w].job : w \in Workers} : j.uri = x /\ j.gen = gen'[x]
  <2>1. PICK j \in Held : Newest(x, j)  BY <1>1, <1>10 DEF NewestNeverLost, Held, Newest
  <2>2. ASSUME NEW z \in Threads, j = enq[z].job PROVE enq'[z].job = j \/ j \in Range(queue')
    BY <1>3, <1>4, <2>2 DEF job
  <2> QED  BY <1>1, <1>3, <2>1, <2>2 DEF Held, Newest
<1> QED  BY <1>9, <1>10 DEF NewestNeverLost

LEMMA GenerationsTake ==
  ASSUME TypeOK, GenerationsRight, NewestNeverLost, NEW w \in Workers, Take(w)
  PROVE  GenerationsRight' /\ NewestNeverLost'
<1> DEFINE r == [pc |-> "check", job |-> Head(queue), slot |-> 0]
<1>1. /\ worker[w].pc = "idle" /\ queue # << >> /\ queue' = Tail(queue)
      /\ worker' = [worker EXCEPT ![w] = r]
      /\ UNCHANGED <<gen, newest, enq>>
  BY DEF Take
<1>2. queue \in Seq(Jobs) /\ worker \in [Workers -> Working]  BY DEF TypeOK, QueueType, PoolType
<1>3. /\ Head(queue) = queue[1] /\ 1 \in DOMAIN queue
      /\ \A i \in DOMAIN queue' : queue'[i] = queue[i + 1] /\ i + 1 \in DOMAIN queue
      /\ Range(queue) = Range(queue') \cup {queue[1]}
  BY <1>1, <1>2, TailRange
<1>4. r.pc = "check" /\ r.job = queue[1]  BY <1>3
<1> HIDE DEF r
<1>5. worker'[w] = r /\ \A z \in Workers : z # w => worker'[z] = worker[z]  BY <1>1, <1>2
<1>6. worker[w].job = NoJob  BY <1>1, <1>2, NoJobIsNone
<1>7. \A t \in Threads : enq'[t].pc = "push" => Dated(enq[t].job)'
  BY <1>1 DEF GenerationsRight, Dated
<1>8. ASSUME NEW i \in DOMAIN queue' PROVE Dated(queue[i])'
  <2>1. Dated(queue'[i])  BY <1>3 DEF GenerationsRight
  <2> QED  BY <1>1, <2>1 DEF Dated
<1>9. ASSUME NEW z \in Workers, worker'[z].job # NoJob PROVE Dated(worker[z].job)'
  <2>1. Dated(worker'[z].job)  BY <1>3, <1>4, <1>5, <1>9 DEF GenerationsRight
  <2> QED  BY <1>1, <2>1 DEF Dated
<1>10. ASSUME NEW z \in Busy'
       PROVE  LET j == worker'[z].job IN j.gen = gen'[j.uri] => newest'[j.uri].ran
  <2>1. z # w /\ z \in Workers  BY <1>4, <1>5 DEF Busy
  <2>2. worker'[z] = worker[z] /\ z \in Busy  BY <1>5, <2>1 DEF Busy
  <2> QED  BY <1>1, <2>2 DEF GenerationsRight
<1>11. GenerationsRight'  BY <1>7, <1>8, <1>9, <1>10 DEF GenerationsRight
<1>12. ASSUME NEW x \in Uris, ~ newest'[x].ran
       PROVE  \E j \in {enq'[t].job : t \in Threads} \cup Range(queue')
                       \cup {worker'[z].job : z \in Workers} : j.uri = x /\ j.gen = gen'[x]
  <2>1. PICK j \in Held : Newest(x, j)  BY <1>1, <1>12 DEF NewestNeverLost, Held, Newest
  <2>2. j \in Range(queue) => j \in Range(queue') \/ j = worker'[w].job  BY <1>3, <1>4, <1>5
  <2>3. ASSUME NEW z \in Workers, j = worker[z].job PROVE worker'[z].job = j
    BY <1>5, <1>6, <2>1, <2>3, HoldersType
  <2> QED  BY <1>1, <2>1, <2>2, <2>3 DEF Held, Newest
<1> QED  BY <1>11, <1>12 DEF NewestNeverLost

LEMMA GenerationsRunStep ==
  ASSUME TypeOK, GenerationsRight, NewestNeverLost, NEW w \in Workers, Run(w)
  PROVE  GenerationsRight' /\ NewestNeverLost'
<1> DEFINE job == worker[w].job
<1>0. worker[w] \in Working /\ worker \in [Workers -> Working]  BY DEF TypeOK, PoolType
\* Only this worker's entry changes.
<1>1. ASSUME UNCHANGED <<gen, queue, enq>>,
             \A u \in Uris : newest[u].ran => newest'[u].ran,
             \A z \in Workers : z # w => worker'[z] = worker[z],
             \/ worker'[w].job = job
             \/ worker'[w].job = NoJob /\ (job.gen # gen[job.uri] \/ newest[job.uri].ran),
             worker'[w].pc \in BusyPCs =>
               /\ worker'[w].job = job
               /\ \/ worker[w].pc \in BusyPCs
                  \/ job \in Jobs /\ (job.gen = gen[job.uri] => newest'[job.uri].ran)
      PROVE  GenerationsRight' /\ NewestNeverLost'
  <2>1. \A t \in Threads : /\ enq'[t].pc = "push" => enq'[t] = enq[t]
                           /\ enq[t].pc # "idle" => enq'[t].job = enq[t].job
    BY <1>1
  <2>2. \A z \in Workers :
           LET j == worker[z].job IN
           /\ \/ worker'[z].job = j
              \/ worker'[z].job = NoJob /\ (j.gen # gen[j.uri] \/ newest[j.uri].ran)
           /\ worker'[z].pc \in BusyPCs =>
                /\ worker'[z].job = j
                /\ \/ worker[z].pc \in BusyPCs
                   \/ j \in Jobs /\ (j.gen = gen[j.uri] => newest'[j.uri].ran)
    BY <1>1
  <2> QED  BY <1>1, <2>1, <2>2, GenerationsFrame
<1>2. CASE WorkerExit(w)
  <2>1. worker[w].pc = "idle" /\ worker' = [worker EXCEPT ![w] = [worker[w] EXCEPT !.pc = "exit"]]
        /\ UNCHANGED <<gen, queue, enq, newest>>
    BY <1>0, <1>2 DEF WorkerExit
  <2>2. worker'[w].pc = "exit" /\ worker'[w].job = job /\ \A z \in Workers : z # w => worker'[z] = worker[z]
    BY <1>0, <2>1 DEF Working
  <2> QED  BY <1>1, <2>1, <2>2 DEF BusyPCs
<1>3. CASE Check(w)
  <2> DEFINE r == IF Superseded(job) THEN Idle ELSE [worker[w] EXCEPT !.pc = "reserve"]
  <2>1. worker' = [worker EXCEPT ![w] = r] /\ UNCHANGED <<gen, queue, enq, newest>>
    BY <1>0, <1>3 DEF Check
  <2>2. \/ r = Idle /\ job.gen # gen[job.uri]
        \/ r.pc = "reserve" /\ r.job = job
    BY <1>0 DEF Superseded, Working
  <2>3. Idle.pc = "idle" /\ Idle.job = NoJob  BY IdleType
  <2> HIDE DEF r
  <2>4. worker'[w] = r /\ \A z \in Workers : z # w => worker'[z] = worker[z]  BY <1>0, <2>1
  <2> QED  BY <1>1, <2>1, <2>2, <2>3, <2>4 DEF BusyPCs
<1>4. CASE Reserve(w)
  <2> DEFINE r == [pc |-> "analyse", job |-> job, slot |-> free[Preferred(job)]]
  <2>1. /\ worker[w].pc = "reserve" /\ worker' = [worker EXCEPT ![w] = r]
        /\ UNCHANGED <<gen, queue, enq>>
        /\ newest' = [newest EXCEPT ![job.uri] = [newest[job.uri] EXCEPT
                        !.ran = newest[job.uri].ran \/ job.gen = gen[job.uri]]]
    BY <1>4 DEF Reserve
  <2>2. job \in Jobs /\ job.uri \in Uris  BY <1>0, <2>1, NoJobIsNone, JobsType DEF BusyPCs
  <2>3. r.pc = "analyse" /\ r.job = job  OBVIOUS
  <2> HIDE DEF r
  <2>4. worker'[w] = r /\ \A z \in Workers : z # w => worker'[z] = worker[z]  BY <1>0, <2>1
  <2>5. newest \in [Uris -> [revision : Nat, ran : BOOLEAN]]  BY DEF TypeOK, QueueType
  <2>6. \A u \in Uris : newest'[u].ran <=> newest[u].ran \/ (u = job.uri /\ job.gen = gen[u])
    BY <2>1, <2>2, <2>5
  <2> QED  BY <1>1, <2>1, <2>2, <2>3, <2>4, <2>6 DEF BusyPCs
<1>5. CASE Release(w)
  <2>1. worker[w].pc = "release" /\ worker' = [worker EXCEPT ![w] = Idle]
        /\ UNCHANGED <<gen, queue, enq, newest>>
    BY <1>5 DEF Release
  <2>2. job.gen = gen[job.uri] => newest[job.uri].ran
    BY <2>1 DEF GenerationsRight, Busy
  <2>3. worker'[w] = Idle /\ \A z \in Workers : z # w => worker'[z] = worker[z]  BY <1>0, <2>1
  <2> QED  BY <1>1, <2>1, <2>2, <2>3, IdleType DEF BusyPCs
<1>6. ASSUME NEW pc \in BusyPCs, worker[w].pc \in BusyPCs, Step(w, pc),
             UNCHANGED <<gen, queue, enq, newest>>
      PROVE  GenerationsRight' /\ NewestNeverLost'
  <2>1. worker'[w].job = job /\ \A z \in Workers : z # w => worker'[z] = worker[z]
    BY <1>6, StepEffect
  <2> QED  BY <1>1, <1>6, <2>1
<1>7. CASE Reuse(w)  BY <1>6, <1>7 DEF Reuse, BusyPCs
<1>8. ASSUME NEW o \in Outcomes, Analyse(w, o) PROVE GenerationsRight' /\ NewestNeverLost'
  BY <1>6, <1>8 DEF Analyse, BusyPCs
<1>9. CASE Emit(w)  BY <1>6, <1>9 DEF Emit, BusyPCs
<1> QED  BY <1>2, <1>3, <1>4, <1>5, <1>7, <1>8, <1>9, GenerationsTake DEF Run

LEMMA GenerationsStep ==
  TypeOK /\ GenerationsRight /\ NewestNeverLost /\ [Next]_vars
  => GenerationsRight' /\ NewestNeverLost'
<1> SUFFICES ASSUME TypeOK, GenerationsRight, NewestNeverLost, [Next]_vars
             PROVE  GenerationsRight' /\ NewestNeverLost'
  OBVIOUS
<1>1. ASSUME UNCHANGED <<gen, queue, newest, worker>>,
             enq' = enq \/ \E t \in Threads : /\ enq[t].pc = "idle" /\ enq'[t].pc = "bump"
                                              /\ \A z \in Threads : z # t => enq'[z] = enq[z]
      PROVE  GenerationsRight' /\ NewestNeverLost'
  <2>1. \A t \in Threads : /\ enq'[t].pc = "push" => enq'[t] = enq[t]
                           /\ enq[t].pc # "idle" => enq'[t].job = enq[t].job
    BY <1>1
  <2>2. \A w \in Workers : worker'[w].pc \in BusyPCs => worker[w].pc \in BusyPCs  BY <1>1
  <2> QED  BY <1>1, <2>1, <2>2, GenerationsFrame
<1>2. CASE UNCHANGED vars  BY <1>1, <1>2 DEF vars
<1>3. CASE Client
  <2>1. ASSUME NEW u \in Uris, NEW x \in Texts, NEW v, NEW k, Message,
               \/ v = None /\ k = None
               \/ v \in Views /\ k \in Kinds,
               Begin("main", u, x, v, k), UNCHANGED <<gen, queue, newest, worker>>
        PROVE  GenerationsRight' /\ NewestNeverLost'
    <3>1. enq["main"].pc = "idle"  BY <2>1 DEF Message, LoopFree
    <3>2. enq'["main"].pc = "bump" /\ \A z \in Threads : z # "main" => enq'[z] = enq[z]
      BY <2>1, BeginEffect DEF Threads
    <3> QED  BY <1>1, <2>1, <3>1, <3>2 DEF Threads
  <2>2. docs \in [Uris -> Texts \cup {None}]  BY DEF TypeOK, ClientType
  <2>3. ASSUME NEW u \in Uris, NEW x \in Texts, DidOpen(u, x) PROVE GenerationsRight' /\ NewestNeverLost'
    BY <2>1, <2>3 DEF DidOpen
  <2>4. ASSUME NEW u \in Uris, NEW x \in Texts, DidChange(u, x) PROVE GenerationsRight' /\ NewestNeverLost'
    BY <1>1, <2>4 DEF DidChange
  <2>5. ASSUME NEW u \in Uris, DidSave(u) PROVE GenerationsRight' /\ NewestNeverLost'
    BY <2>1, <2>2, <2>5 DEF DidSave
  <2>6. ASSUME NEW u \in Uris, DidClose(u) PROVE GenerationsRight' /\ NewestNeverLost'
    BY <1>1, <2>6 DEF DidClose
  <2>7. CASE LocaleAsk \/ StopDebounce
    BY <1>1, <2>7 DEF LocaleAsk, StopDebounce
  <2>8. ASSUME NEW v \in Views, NEW u \in Uris, NEW k \in Kinds, ViewRequest(v, u, k)
        PROVE  GenerationsRight' /\ NewestNeverLost'
    <3>1. Message /\ UNCHANGED <<gen, queue, newest, worker>>
          /\ (enq' = enq \/ (docs[u] # None /\ Begin("main", u, docs[u], v, k)))
      BY <2>8 DEF ViewRequest
    <3> QED  BY <1>1, <2>1, <2>2, <3>1
  <2> QED  BY <1>3, <2>3, <2>4, <2>5, <2>6, <2>7, <2>8 DEF Client
<1>4. CASE Loop
  <2>1. CASE LocaleReserve \/ LocaleRelease \/ StopWorkers
    BY <1>1, <2>1 DEF LocaleReserve, LocaleRelease, StopWorkers
  <2> QED  BY <1>4, <2>1, GenerationsBump, GenerationsPush DEF Loop
<1>5. CASE Debounce
  <2>1. CASE DebounceFire
    <3>1. deb.pc = "quiet" /\ UNCHANGED <<gen, queue, newest, worker>>
          /\ Begin("deb", deb.uri, deb.text, None, None)
      BY <2>1 DEF DebounceFire
    <3>2. enq["deb"].pc = "idle" /\ deb.uri \in Uris /\ deb.text \in Texts
      BY <3>1 DEF TypeOK, EnqueueType, DebounceType
    <3>3. enq'["deb"].pc = "bump" /\ \A z \in Threads : z # "deb" => enq'[z] = enq[z]
      BY <3>1, <3>2, BeginEffect DEF Threads
    <3> QED  BY <1>1, <3>1, <3>2, <3>3 DEF Threads
  <2>2. CASE DebounceCapture \/ DebounceAgain \/ DebounceExit
    BY <1>1, <2>2 DEF DebounceCapture, DebounceAgain, DebounceExit
  <2> QED  BY <1>5, <2>1, <2>2 DEF Debounce
<1> QED  BY <1>2, <1>3, <1>4, <1>5, GenerationsRunStep DEF Next

-----------------------------------------------------------------------------
(***************************************************************************)
(* One analysis of a text for views at a time.                             *)
(***************************************************************************)
LEMMA NoDuplicateStep ==
  TypeOK /\ SlotsApart /\ NoDuplicateAnalysis /\ [Next]_vars => NoDuplicateAnalysis'
<1> SUFFICES ASSUME TypeOK, SlotsApart, NoDuplicateAnalysis, [Next]_vars
             PROVE  NoDuplicateAnalysis'
  OBVIOUS
<1> DEFINE At(w) == worker[w].pc = "analyse"
           Fits(w) == RecordMatches(worker[w].slot, worker[w].job)
<1>0. /\ worker \in [Workers -> Working]
      /\ \A w \in Workers : At(w) => w \in Busy /\ worker[w].slot \in Slots /\ worker[w].job \in Jobs
      /\ \A w \in Workers : At(w) => worker[w].pc \in BusyPCs
  BY NoJobIsNone DEF TypeOK, PoolType, Busy, BusyPCs
\* No worker begins to analyse, and the records of those that do are left alone.
<1>1. ASSUME \A w \in Workers : At(w)' => /\ At(w) /\ worker'[w] = worker[w]
                                          /\ record'[worker[w].slot] = record[worker[w].slot]
      PROVE  NoDuplicateAnalysis'
  <2> SUFFICES ASSUME NEW w1 \in Busy', NEW w2 \in Busy', w1 # w2, At(w1)', At(w2)',
                      worker'[w1].job.view # None, worker'[w2].job.view # None,
                      Key(worker'[w1].job) = Key(worker'[w2].job)
               PROVE  Fits(w1)' \/ Fits(w2)'
    BY DEF NoDuplicateAnalysis
  <2>1. w1 \in Workers /\ w2 \in Workers  BY DEF Busy
  <2>2. \A w \in {w1, w2} : At(w) /\ worker'[w] = worker[w]
                            /\ record'[worker[w].slot] = record[worker[w].slot] /\ w \in Busy
    BY <1>0, <1>1, <2>1
  <2>3. Fits(w1) \/ Fits(w2)  BY <2>2 DEF NoDuplicateAnalysis
  <2> QED  BY <2>2, <2>3 DEF RecordMatches
<1>2. ASSUME UNCHANGED <<worker, record>> PROVE NoDuplicateAnalysis'
  BY <1>1, <1>2
<1>3. CASE UNCHANGED vars  BY <1>2, <1>3 DEF vars, pool
<1>4. CASE Client
  BY <1>2, <1>4 DEF Client, DidOpen, DidChange, DidSave, DidClose, ViewRequest, LocaleAsk,
                    StopDebounce, pool
<1>5. CASE Loop
  BY <1>2, <1>5 DEF Loop, Bump, Push, LocaleReserve, LocaleRelease, StopWorkers, pool
<1>6. CASE Debounce
  BY <1>2, <1>6 DEF Debounce, DebounceCapture, DebounceAgain, DebounceExit, DebounceFire, pool
<1>7. ASSUME NEW w \in Workers, Run(w) PROVE NoDuplicateAnalysis'
  <2>1. ASSUME NEW r, worker' = [worker EXCEPT ![w] = r], r.pc # "analyse", record' = record
        PROVE  NoDuplicateAnalysis'
    BY <1>0, <1>1, <2>1
  <2>2. CASE Take(w)
    <3> DEFINE r == [pc |-> "check", job |-> Head(queue), slot |-> 0]
    <3>1. worker' = [worker EXCEPT ![w] = r] /\ r.pc = "check"  BY <2>2 DEF Take
    <3> HIDE DEF r
    <3> QED  BY <2>1, <2>2, <3>1 DEF Take, pool
  <2>3. CASE WorkerExit(w)
    <3> DEFINE r == [worker[w] EXCEPT !.pc = "exit"]
    <3>1. worker' = [worker EXCEPT ![w] = r] /\ r.pc = "exit"
      BY <1>0, <2>3 DEF WorkerExit, Working
    <3> HIDE DEF r
    <3> QED  BY <2>1, <2>3, <3>1 DEF WorkerExit, pool
  <2>4. CASE Check(w)
    <3> DEFINE r == IF Superseded(worker[w].job) THEN Idle ELSE [worker[w] EXCEPT !.pc = "reserve"]
    <3>1. worker' = [worker EXCEPT ![w] = r] /\ r.pc \in {"idle", "reserve"}
      BY <1>0, <2>4, IdleType DEF Check, Working
    <3> HIDE DEF r
    <3> QED  BY <2>1, <2>4, <3>1 DEF Check, pool
  <2>5. CASE Release(w)
    BY <2>1, <2>5, IdleType DEF Release
  <2>6. ASSUME NEW pc \in {"emit", "release"}, worker[w].pc \in BusyPCs, Step(w, pc), record' = record
        PROVE  NoDuplicateAnalysis'
    <3>1. worker'[w].pc = pc /\ \A z \in Workers : z # w => worker'[z] = worker[z]
      BY <2>6, StepEffect DEF BusyPCs
    <3> QED  BY <1>1, <2>6, <3>1
  <2>7. CASE Reuse(w)  BY <2>6, <2>7 DEF Reuse, BusyPCs, pool
  <2>8. CASE Emit(w)  BY <2>6, <2>8 DEF Emit, BusyPCs, pool
  <2>9. ASSUME NEW o \in Outcomes, Analyse(w, o) PROVE NoDuplicateAnalysis'
    <3> DEFINE s == worker[w].slot
               done == [uri |-> worker[w].job.uri, text |-> worker[w].job.text,
                        dbg |-> worker[w].job.dbg]
               new == RecordAfter(o, s, done)
    <3>1. At(w) /\ record' = [record EXCEPT ![s] = new]
      BY <2>9 DEF Analyse
    <3>2. \E pc \in {"emit", "release"} : Step(w, pc)  BY <2>9 DEF Analyse
    <3>3. worker'[w].pc # "analyse" /\ \A z \in Workers : z # w => worker'[z] = worker[z]
      BY <1>0, <3>1, <3>2, StepEffect DEF BusyPCs
    <3>4. \A z \in Workers : z # w /\ At(z) => worker[z].slot # s
      BY <1>0, <3>1 DEF SlotsApart
    <3> HIDE DEF s, new
    <3>5. \A t \in Slots : t # s => record'[t] = record[t]  BY <3>1 DEF TypeOK, PoolType
    <3> QED  BY <1>0, <1>1, <3>3, <3>4, <3>5
  <2>10. CASE Reserve(w)
    <3> DEFINE job == worker[w].job
               i == Preferred(job)
               r == [pc |-> "analyse", job |-> job, slot |-> free[i]]
    <3>1. /\ worker[w].pc = "reserve" /\ MayReserve(job) /\ worker' = [worker EXCEPT ![w] = r]
          /\ record' = record
      BY <2>10 DEF Reserve
    <3>2. r.job = job /\ r.slot = free[i] /\ r.pc = "analyse"  OBVIOUS
    <3>3. free # << >> /\ ((\E s \in Range(free) : RecordMatches(s, job)) => RecordMatches(free[i], job))
      BY <3>1, PreferredType DEF MayReserve
    \* A view that does not reuse a slot finds no analysis of its text.
    <3>4. ASSUME job.view # None, ~ RecordMatches(free[i], job), NEW z \in Workers, At(z),
                 worker[z].job.view # None, Key(worker[z].job) = Key(job)
          PROVE  FALSE
      <4>1. ~ AnalysisInFlight(job)  BY <3>1, <3>3, <3>4 DEF MayReserve
      <4>2. z \in Busy /\ worker[z].job.dbg  BY <1>0, <3>4, JobsType
      <4>3. [key |-> Key(worker[z].job), slot |-> worker[z].slot]
               \in InFlightEntry(worker[z].job, worker[z].slot)
        BY <4>2 DEF InFlightEntry
      <4>4. [key |-> Key(worker[z].job), slot |-> worker[z].slot] \in inflight
        BY <4>2, <4>3 DEF SlotsApart
      <4> QED  BY <3>4, <4>1, <4>4 DEF AnalysisInFlight
    <3> HIDE DEF r, i
    <3>5. worker'[w] = r /\ \A z \in Workers : z # w => worker'[z] = worker[z]  BY <1>0, <3>1
    <3> SUFFICES ASSUME NEW w1 \in Busy', NEW w2 \in Busy', w1 # w2, At(w1)', At(w2)',
                        worker'[w1].job.view # None, worker'[w2].job.view # None,
                        Key(worker'[w1].job) = Key(worker'[w2].job)
                 PROVE  Fits(w1)' \/ Fits(w2)'
      BY DEF NoDuplicateAnalysis
    <3>6. w1 \in Workers /\ w2 \in Workers  BY DEF Busy
    <3>7. CASE w1 = w
      <4>1. RecordMatches(free[i], job)  BY <3>2, <3>4, <3>5, <3>6, <3>7
      <4> QED  BY <3>1, <3>2, <3>5, <3>7, <4>1 DEF RecordMatches
    <3>8. CASE w2 = w
      <4>1. RecordMatches(free[i], job)  BY <3>2, <3>4, <3>5, <3>6, <3>8
      <4> QED  BY <3>1, <3>2, <3>5, <3>8, <4>1 DEF RecordMatches
    <3>9. CASE w1 # w /\ w2 # w
      <4>1. worker'[w1] = worker[w1] /\ worker'[w2] = worker[w2] /\ w1 \in Busy /\ w2 \in Busy
        BY <1>0, <3>5, <3>6, <3>9
      <4>2. Fits(w1) \/ Fits(w2)  BY <4>1 DEF NoDuplicateAnalysis
      <4> QED  BY <3>1, <4>1, <4>2 DEF RecordMatches
    <3> QED  BY <3>7, <3>8, <3>9
  <2> QED  BY <1>7, <2>2, <2>3, <2>4, <2>5, <2>7, <2>8, <2>9, <2>10 DEF Run
<1> QED  BY <1>3, <1>4, <1>5, <1>6, <1>7 DEF Next

-----------------------------------------------------------------------------
(***************************************************************************)
(* The inductive invariant, and the theorems.                              *)
(***************************************************************************)
LEMMA SessionTypes ==
  ASSUME NEW open \in [Uris -> Texts \cup {None}], Session(open)
  PROVE  TypeOK
<1>1. ClientType  BY LspAssumption DEF Session, ClientType
<1>2. OutputType  BY DEF Session, OutputType
<1>3. QueueType
  <2>1. gen \in [Uris -> Nat]  BY DEF Session
  <2>2. newest \in [Uris -> [revision : Nat, ran : BOOLEAN]]  BY <2>1 DEF Session
  <2>3. queue \in Seq(Jobs)  BY DEF Session
  <2> QED  BY <2>1, <2>2, <2>3 DEF QueueType
<1>4. DebounceType  BY DEF Session, DebounceType, NoChange
<1>5. EnqueueType
  <2>1. [pc |-> "idle", job |-> NoJob] \in Enqueuing  BY DEF Enqueuing
  <2>2. enq \in [Threads -> Enqueuing]  BY <2>1 DEF Session
  <2>3. enq["deb"].pc = "idle" /\ enq["deb"].job = NoJob /\ deb.pc = "wait"
    BY DEF Session, Threads, NoChange
  <2> QED  BY <2>2, <2>3, NoJobIsNone DEF EnqueueType
<1>6. PoolType
  <2>1. worker \in [Workers -> Working]  BY IdleType DEF Session
  <2>2. [i \in Slots |-> i] \in Seq(Slots) /\ << >> \in Seq(Slots)
    <3>1. [i \in Slots |-> i] \in [1 .. PoolSize -> Slots] /\ PoolSize \in Nat
      BY LspAssumption DEF Slots
    <3> QED  BY <3>1
  <2> QED  BY <2>1, <2>2 DEF Session, PoolType
<1>7. ControlType  BY DEF Session, ControlType
<1> QED  BY <1>1, <1>2, <1>3, <1>4, <1>5, <1>6, <1>7 DEF TypeOK

LEMMA SessionInv ==
  ASSUME NEW open \in [Uris -> Texts \cup {None}], Session(open)
  PROVE  LspInv
<1>1. TypeOK  BY SessionTypes
<1>2. /\ \A w \in Workers : worker[w] = Idle
      /\ \A t \in Threads : enq[t] = [pc |-> "idle", job |-> NoJob]
      /\ free = [i \in Slots |-> i] /\ reserved = << >> /\ queue = << >> /\ cache = << >>
      /\ inflight = {} /\ locale = "no"
      /\ \A v \in Views : asked[v] = None /\ replies[v] = << >>
      /\ \A u \in Uris : newest[u].ran
      /\ \A s \in Slots : record[s] = None
  BY DEF Session
<1>3. DOMAIN queue = {} /\ DOMAIN cache = {} /\ DOMAIN reserved = {}  BY <1>2
<1>4. \A w \in Workers : worker[w].pc = "idle" /\ worker[w].job = NoJob  BY <1>2, IdleType
<1>5. Busy = {}  BY <1>4 DEF Busy
<1>6. SlotsApart
  <2>1. DOMAIN free = Slots /\ \A s \in Slots : free[s] = s  BY <1>2
  <2>2. IsInjective(free) /\ Range(free) = Slots  BY <2>1 DEF IsInjective, Range
  <2>3. IsInjective(reserved)  BY <1>3 DEF IsInjective
  <2>4. UNION {InFlightEntry(worker[w].job, worker[w].slot) : w \in Busy} = {}  BY <1>5
  <2> QED  BY <1>2, <1>5, <2>2, <2>3, <2>4 DEF SlotsApart
<1>7. Backed  BY <1>2, <1>3, <1>4 DEF Backed
<1>8. OwedOnce
  <2>1. enq["main"].job.view = None  BY <1>2, NoJobIsNone DEF Threads
  <2>2. Owed(enq["main"].job)  BY <2>1 DEF Owed
  <2>3. \A w \in Workers : ~ Undone(w)  BY <1>4 DEF Undone
  <2> QED  BY <1>2, <1>3, <2>2, <2>3 DEF OwedOnce
<1>9. AnswersRight  BY <1>2 DEF AnswersRight
<1>10. GenerationsRight  BY <1>2, <1>3, <1>4, <1>5 DEF GenerationsRight
<1>11. NewestNeverLost  BY <1>2 DEF NewestNeverLost
<1>12. NoDuplicateAnalysis  BY <1>5 DEF NoDuplicateAnalysis
<1> QED  BY <1>1, <1>6, <1>7, <1>8, <1>9, <1>10, <1>11, <1>12 DEF LspInv

LEMMA InvStep == LspInv /\ [Next]_vars => LspInv'
BY TypeStep, SlotsStep, BackedStep, OwedStep, GenerationsStep, NoDuplicateStep DEF LspInv

(***************************************************************************)
(* Whatever documents are open when the session starts: the types are      *)
(* right, and every part of the inductive invariant holds for ever.        *)
(***************************************************************************)
THEOREM SessionInvariant ==
  ASSUME NEW open \in [Uris -> Texts \cup {None}]
  PROVE  Session(open) /\ [][Next]_vars => []LspInv
<1>1. Session(open) => LspInv  BY SessionInv
<1> QED  BY <1>1, InvStep, PTL

LEMMA InitIsSession == Init => \E open \in [Uris -> Texts \cup {None}] : Session(open)
<1>1. [u \in Uris |-> None] \in [Uris -> Texts \cup {None}]  OBVIOUS
<1> QED  BY <1>1 DEF Init

(***************************************************************************)
(* The types: only a thread that is busy has a job, and the debounce       *)
(* thread queues what it has captured before it waits again.               *)
(***************************************************************************)
THEOREM TypeCorrect == Spec => []TypeOK
<1>1. Init => LspInv  BY InitIsSession, SessionInv
<1>2. LspInv => TypeOK  BY DEF LspInv
<1> QED  BY <1>1, <1>2, InvStep, PTL DEF Spec

(***************************************************************************)
(* No slot is lost or handed out twice, however an analysis ends, and      *)
(* inFlightAnalyses_ announces exactly the analyses that run               *)
(* (ReserveBackend, ReleaseBackend, ApplyClientLocale).                    *)
(***************************************************************************)
THEOREM SlotsAreConserved == Spec => []SlotsConserved
<1>1. Init => LspInv  BY InitIsSession, SessionInv
<1>2. LspInv => SlotsConserved  BY ApartIsConserved DEF LspInv
<1> QED  BY <1>1, <1>2, InvStep, PTL DEF Spec

(***************************************************************************)
(* A view request is answered at most once, and with the document, the     *)
(* text and the kind it asked for (RunAnalysisOnSlot, TouchCachedView,     *)
(* InsertCachedView).                                                      *)
(***************************************************************************)
THEOREM AnswersAreRight == Spec => []AnswersRight
<1>1. Init => LspInv  BY InitIsSession, SessionInv
<1>2. LspInv => AnswersRight  BY DEF LspInv
<1> QED  BY <1>1, <1>2, InvStep, PTL DEF Spec

(***************************************************************************)
(* Until the newest generation of a document has got a slot, some thread   *)
(* or the queue holds its job (EnqueueAnalysis, WorkerLoop).               *)
(***************************************************************************)
THEOREM NewestIsNeverLost == Spec => []NewestNeverLost
<1>1. Init => LspInv  BY InitIsSession, SessionInv
<1>2. LspInv => NewestNeverLost  BY DEF LspInv
<1> QED  BY <1>1, <1>2, InvStep, PTL DEF Spec

(***************************************************************************)
(* Two views never analyse the same text of a document at the same time    *)
(* (ReserveBackend, AnalysisInFlightFor).                                  *)
(***************************************************************************)
THEOREM NoDuplicates == Spec => []NoDuplicateAnalysis
<1>1. Init => LspInv  BY InitIsSession, SessionInv
<1>2. LspInv => NoDuplicateAnalysis  BY DEF LspInv
<1> QED  BY <1>1, <1>2, InvStep, PTL DEF Spec

-----------------------------------------------------------------------------
(***************************************************************************)
(* A view request that has got no response is not lost: the message loop   *)
(* is queuing its job, or the job is queued, or a worker has it.           *)
(***************************************************************************)
Asks(v) == \/ enq["main"].job.view = v
           \/ \E i \in DOMAIN queue : queue[i].view = v
           \/ \E w \in Workers : Undone(w) /\ worker[w].job.view = v

RequestsKept == \A v \in Views : asked[v] # None /\ replies[v] = << >> => Asks(v)

\* A step that asks nothing and answers at most one request.
LEMMA RequestsFrame ==
  ASSUME RequestsKept, NEW U, asked' = asked, queue' = queue,
         \A v \in Views : v \notin U => replies'[v] = replies[v],
         \A v \in Views : v \in U => replies'[v] # << >>,
         enq["main"].job.view # None => enq'["main"].job.view = enq["main"].job.view,
         \A w \in Workers : Undone(w) => \/ worker[w].job.view \in U \cup {None}
                                         \/ Undone(w)' /\ worker'[w].job = worker[w].job
  PROVE  RequestsKept'
<1> SUFFICES ASSUME NEW v \in Views, asked'[v] # None, replies'[v] = << >> PROVE Asks(v)'
  BY DEF RequestsKept
<1>1. v \notin U /\ v # None /\ Asks(v)  BY LspAssumption DEF RequestsKept
<1> QED  BY <1>1 DEF Asks

LEMMA RequestsPush ==
  ASSUME TypeOK, RequestsKept, NEW t \in Threads, Push(t)
  PROVE  RequestsKept'
<1> DEFINE job == enq[t].job
<1>1. /\ enq[t].pc = "push" /\ queue' = Append(queue, job)
      /\ enq' = [enq EXCEPT ![t] = [pc |-> "idle", job |-> NoJob]]
      /\ UNCHANGED <<asked, replies, worker>>
  BY DEF Push, client, output
<1>2. job \in Jobs  BY <1>1, HoldersType
<1>3. /\ DOMAIN queue' = 1 .. Len(queue) + 1 /\ DOMAIN queue = 1 .. Len(queue) /\ Len(queue) \in Nat
      /\ \A i \in 1 .. Len(queue) : queue'[i] = queue[i]
      /\ queue'[Len(queue) + 1] = job
  <2>1. queue \in Seq(Jobs) /\ Len(queue) \in Nat  BY DEF TypeOK, QueueType
  <2> HIDE DEF job
  <2> QED  BY <1>1, <1>2, <2>1, AppendRange
<1>4. \A z \in Threads : z # t => enq'[z] = enq[z]  BY <1>1 DEF TypeOK, EnqueueType
<1> SUFFICES ASSUME NEW v \in Views, asked'[v] # None, replies'[v] = << >> PROVE Asks(v)'
  BY DEF RequestsKept
<1>5. Asks(v)  BY <1>1 DEF RequestsKept
<1>6. CASE enq["main"].job.view = v
  <2>1. CASE t = "main"
    <3>1. Len(queue) + 1 \in DOMAIN queue' /\ queue'[Len(queue) + 1].view = v  BY <1>3, <1>6, <2>1
    <3> QED  BY <3>1 DEF Asks
  <2>2. CASE t # "main"  BY <1>4, <1>6, <2>2 DEF Asks, Threads
  <2> QED  BY <2>1, <2>2
<1>7. ASSUME NEW i \in DOMAIN queue, queue[i].view = v PROVE Asks(v)'
  <2>1. i \in DOMAIN queue' /\ queue'[i].view = v  BY <1>3, <1>7
  <2> QED  BY <2>1 DEF Asks
<1>8. ASSUME NEW w \in Workers, Undone(w), worker[w].job.view = v PROVE Asks(v)'
  BY <1>1, <1>8 DEF Asks, Undone
<1> QED  BY <1>5, <1>6, <1>7, <1>8 DEF Asks

LEMMA RequestsTake ==
  ASSUME TypeOK, RequestsKept, NEW w \in Workers, Take(w)
  PROVE  RequestsKept'
<1> DEFINE r == [pc |-> "check", job |-> Head(queue), slot |-> 0]
<1>1. /\ worker[w].pc = "idle" /\ queue # << >> /\ queue' = Tail(queue)
      /\ worker' = [worker EXCEPT ![w] = r]
      /\ UNCHANGED <<asked, replies, enq>>
  BY DEF Take, client, output
<1>2. queue \in Seq(Jobs) /\ Len(queue) \in Nat /\ worker \in [Workers -> Working]
  BY DEF TypeOK, QueueType, PoolType
<1>3. /\ Head(queue) = queue[1] /\ DOMAIN queue = 1 .. Len(queue)
      /\ DOMAIN queue' = 1 .. Len(queue) - 1
      /\ \A i \in DOMAIN queue' : queue'[i] = queue[i + 1]
  BY <1>1, <1>2, TailRange
<1>4. r.pc = "check" /\ r.job = queue[1]  BY <1>3
<1> HIDE DEF r
<1>5. worker'[w] = r /\ \A z \in Workers : z # w => worker'[z] = worker[z]
  BY <1>1, <1>2
<1> SUFFICES ASSUME NEW v \in Views, asked'[v] # None, replies'[v] = << >> PROVE Asks(v)'
  BY DEF RequestsKept
<1>6. Asks(v)  BY <1>1 DEF RequestsKept
<1>7. CASE enq["main"].job.view = v  BY <1>1, <1>7 DEF Asks
<1>8. ASSUME NEW i \in DOMAIN queue, queue[i].view = v PROVE Asks(v)'
  <2>1. CASE i = 1
    <3>1. Undone(w)' /\ worker'[w].job.view = v  BY <1>4, <1>5, <1>8, <2>1 DEF Undone
    <3> QED  BY <3>1 DEF Asks
  <2>2. CASE i # 1
    <3>1. i - 1 \in DOMAIN queue' /\ (i - 1) + 1 = i  BY <1>2, <1>3, <2>2
    <3>2. queue'[i - 1].view = v  BY <1>3, <1>8, <3>1
    <3> QED  BY <3>1, <3>2 DEF Asks
  <2> QED  BY <2>1, <2>2
<1>9. ASSUME NEW z \in Workers, Undone(z), worker[z].job.view = v PROVE Asks(v)'
  <2>1. z # w  BY <1>1, <1>9 DEF Undone
  <2>2. Undone(z)' /\ worker'[z].job.view = v  BY <1>5, <1>9, <2>1 DEF Undone
  <2> QED  BY <2>2 DEF Asks
<1> QED  BY <1>6, <1>7, <1>8, <1>9 DEF Asks

LEMMA RequestsView ==
  ASSUME TypeOK, OwedOnce, RequestsKept,
         NEW v \in Views, NEW u \in Uris, NEW k \in Kinds, ViewRequest(v, u, k)
  PROVE  RequestsKept'
<1>1. /\ LoopFree /\ UNCHANGED <<queue, worker>>
      /\ asked' = [asked EXCEPT ![v] = ViewKey(u, docs[u], k)]
  BY DEF ViewRequest, Message
<1>2. \/ \E r : replies' = [replies EXCEPT ![v] = Append(@, r)] /\ enq' = enq
      \/ docs[u] # None /\ Begin("main", u, docs[u], v, k) /\ replies' = replies
  BY DEF ViewRequest
<1>3. enq["main"].job.view = None
  BY <1>1, NoJobIsNone DEF LoopFree, TypeOK, EnqueueType, Threads
<1>4. /\ docs \in [Uris -> Texts \cup {None}]
      /\ \A x \in Views : x # v => asked'[x] = asked[x] /\ replies'[x] = replies[x]
  BY <1>1, <1>2 DEF TypeOK, ClientType, OutputType
<1> SUFFICES ASSUME NEW x \in Views, asked'[x] # None, replies'[x] = << >> PROVE Asks(x)'
  BY DEF RequestsKept
<1>5. CASE x = v
  <2>1. ASSUME NEW r, replies' = [replies EXCEPT ![v] = Append(@, r)] PROVE FALSE
    <3>1. replies'[v] = Append(replies[v], r)  BY <2>1 DEF TypeOK, OutputType
    <3>2. replies[v] = << >> \/ replies[v] # << >>  OBVIOUS
    <3>3. replies[v] \in Seq(ViewKeys \cup {NoView})  BY DEF TypeOK, OutputType
    <3>4. Len(Append(replies[v], r)) = Len(replies[v]) + 1 /\ Len(replies[v]) \in Nat
      BY <3>3
    <3> QED  BY <1>5, <3>1, <3>4
  <2>2. docs[u] \in Texts /\ Begin("main", u, docs[u], v, k)  BY <1>2, <1>4, <2>1
  <2>3. enq'["main"].job.view = v  BY <2>2, BeginEffect DEF Threads
  <2> QED  BY <1>5, <2>3 DEF Asks
<1>6. CASE x # v
  <2>1. Asks(x) /\ x # None  BY <1>4, <1>6, LspAssumption DEF RequestsKept
  <2> QED  BY <1>1, <1>3, <2>1 DEF Asks, Undone
<1> QED  BY <1>5, <1>6

LEMMA RequestsRunStep ==
  ASSUME TypeOK, Backed, OwedOnce, RequestsKept, NEW w \in Workers, Run(w)
  PROVE  RequestsKept'
<1>0. worker[w] \in Working /\ worker \in [Workers -> Working]  BY DEF TypeOK, PoolType
\* Only this worker's entry changes, and its request if it is done.
<1>1. ASSUME UNCHANGED <<asked, queue, enq>>,
             \A z \in Workers : z # w => worker'[z] = worker[z],
             \/ /\ replies' = replies
                /\ Undone(w) => \/ worker[w].job.view = None
                                \/ Undone(w)' /\ worker'[w].job = worker[w].job
             \/ /\ Undone(w)
                /\ \E r : Respond(worker[w].job, r)
      PROVE  RequestsKept'
  <2>1. \A z \in Workers : z # w /\ Undone(z) => Undone(z)'  BY <1>1 DEF Undone
  <2>2. CASE replies' = replies /\ (Undone(w) => \/ worker[w].job.view = None
                                                 \/ Undone(w)' /\ worker'[w].job = worker[w].job)
    <3>1. \A z \in Workers : Undone(z) => \/ worker[z].job.view \in {} \cup {None}
                                          \/ Undone(z)' /\ worker'[z].job = worker[z].job
      BY <1>1, <2>1, <2>2
    <3> QED  BY <1>1, <2>2, <3>1, RequestsFrame
  <2>3. ASSUME Undone(w), NEW r, Respond(worker[w].job, r) PROVE RequestsKept'
    <3> DEFINE v == worker[w].job.view
               U == {v} \ {None}
    <3>1. worker[w].job \in Jobs  BY <2>3, CarriersType
    <3>2. v = None => replies' = replies  BY <2>3 DEF Respond
    <3>3. v # None => /\ v \in Views /\ replies'[v] = Append(replies[v], r)
                      /\ \A x \in Views : x # v => replies'[x] = replies[x]
      BY <2>3, <3>1, JobsType DEF Respond, TypeOK, OutputType
    <3>4. v # None => replies'[v] # << >>
      <4>1. \A s \in Seq(ViewKeys \cup {NoView}) : Append(s, r) # << >>
        <5> SUFFICES ASSUME NEW s \in Seq(ViewKeys \cup {NoView}) PROVE Append(s, r) # << >>
          OBVIOUS
        <5>1. Len(Append(s, r)) = Len(s) + 1 /\ Len(s) \in Nat  OBVIOUS
        <5> QED  BY <5>1
      <4> QED  BY <3>3, <4>1 DEF TypeOK, OutputType
    <3>5. /\ \A x \in Views : x \notin U => replies'[x] = replies[x]
          /\ \A x \in Views : x \in U => replies'[x] # << >>
      BY <3>2, <3>3, <3>4, LspAssumption
    <3>6. \A z \in Workers : Undone(z) => \/ worker[z].job.view \in U \cup {None}
                                          \/ Undone(z)' /\ worker'[z].job = worker[z].job
      BY <1>1, <2>1
    <3> HIDE DEF U
    <3> QED  BY <1>1, <3>5, <3>6, RequestsFrame
  <2> QED  BY <1>1, <2>2, <2>3
<1>2. ASSUME NEW r, worker' = [worker EXCEPT ![w] = r],
             UNCHANGED <<asked, queue, enq, replies>>,
             Undone(w) => \/ worker[w].job.view = None
                          \/ r.pc \in {"reserve", "analyse", "emit"} /\ r.job = worker[w].job
      PROVE  RequestsKept'
  <2>1. worker'[w] = r /\ \A z \in Workers : z # w => worker'[z] = worker[z]  BY <1>0, <1>2
  <2>2. Undone(w) => worker[w].job.view = None \/ (Undone(w)' /\ worker'[w].job = worker[w].job)
    BY <1>2, <2>1 DEF Undone
  <2> QED  BY <1>1, <1>2, <2>1, <2>2
<1>3. CASE WorkerExit(w)
  <2> DEFINE r == [worker[w] EXCEPT !.pc = "exit"]
  <2>1. worker' = [worker EXCEPT ![w] = r] /\ ~ Undone(w)
    BY <1>0, <1>3 DEF WorkerExit, Undone
  <2> HIDE DEF r
  <2> QED  BY <1>2, <1>3, <2>1 DEF WorkerExit, client, output
<1>4. CASE Check(w)
  <2> DEFINE r == IF Superseded(worker[w].job) THEN Idle ELSE [worker[w] EXCEPT !.pc = "reserve"]
  <2>1. worker' = [worker EXCEPT ![w] = r]
        /\ (worker[w].job.view = None \/ (r.pc = "reserve" /\ r.job = worker[w].job))
    BY <1>0, <1>4 DEF Check, Superseded, Working
  <2> HIDE DEF r
  <2> QED  BY <1>2, <1>4, <2>1 DEF Check, client, output
<1>5. CASE Reserve(w)
  <2> DEFINE r == [pc |-> "analyse", job |-> worker[w].job, slot |-> free[Preferred(worker[w].job)]]
  <2>1. worker' = [worker EXCEPT ![w] = r] /\ r.pc = "analyse" /\ r.job = worker[w].job
    BY <1>5 DEF Reserve
  <2> HIDE DEF r
  <2> QED  BY <1>2, <1>5, <2>1 DEF Reserve, client, output
<1>6. CASE Release(w)
  <2>1. ~ Undone(w)  BY <1>6 DEF Release, Undone
  <2> QED  BY <1>2, <1>6, <2>1 DEF Release, client, output
<1>7. CASE Reuse(w)
  <2> DEFINE r == [worker[w] EXCEPT !.pc = "emit"]
  <2>1. worker' = [worker EXCEPT ![w] = r] /\ r.pc = "emit" /\ r.job = worker[w].job
    BY <1>0, <1>7 DEF Reuse, Step, Working
  <2> HIDE DEF r
  <2> QED  BY <1>2, <1>7, <2>1 DEF Reuse, client, output
<1>8. ASSUME NEW o \in Outcomes, Analyse(w, o) PROVE RequestsKept'
  <2>1. worker[w].pc = "analyse" /\ UNCHANGED <<asked, queue, enq>> /\ Undone(w)
    BY <1>8 DEF Analyse, client, Undone
  <2>2. CASE o = "ok"
    <3> DEFINE pc == IF worker[w].job.view = None THEN "release" ELSE "emit"
               r == [worker[w] EXCEPT !.pc = pc]
    <3>1. worker' = [worker EXCEPT ![w] = r] /\ replies' = replies
      BY <1>0, <1>8, <2>1, <2>2 DEF Analyse, Step
    <3>2. worker[w].job.view = None \/ (r.pc = "emit" /\ r.job = worker[w].job)
      BY <1>0 DEF Working
    <3> HIDE DEF r
    <3> QED  BY <1>2, <2>1, <3>1, <3>2
  <2>3. CASE o # "ok"
    <3>1. Step(w, "release") /\ Respond(worker[w].job, NoView)  BY <1>8, <2>3 DEF Analyse
    <3>2. \A z \in Workers : z # w => worker'[z] = worker[z]
      BY <2>1, <3>1, StepEffect DEF BusyPCs
    <3> QED  BY <1>1, <2>1, <3>1, <3>2
  <2> QED  BY <2>2, <2>3
<1>9. CASE Emit(w)
  <2>1. worker[w].pc = "emit" /\ Step(w, "release") /\ UNCHANGED <<asked, queue, enq>> /\ Undone(w)
    BY <1>9 DEF Emit, client, Undone
  <2>2. \A z \in Workers : z # w => worker'[z] = worker[z]
    BY <2>1, StepEffect DEF BusyPCs
  <2>3. \E r : Respond(worker[w].job, r)  BY <1>9 DEF Emit
  <2> QED  BY <1>1, <2>1, <2>2, <2>3
<1> QED  BY <1>3, <1>4, <1>5, <1>6, <1>7, <1>8, <1>9, RequestsTake DEF Run

LEMMA RequestsStep ==
  TypeOK /\ Backed /\ OwedOnce /\ RequestsKept /\ [Next]_vars => RequestsKept'
<1> SUFFICES ASSUME TypeOK, Backed, OwedOnce, RequestsKept, [Next]_vars PROVE RequestsKept'
  OBVIOUS
<1>1. ASSUME UNCHANGED <<asked, replies, queue, worker>>,
             enq["main"].job.view # None => enq'["main"].job.view = enq["main"].job.view
      PROVE  RequestsKept'
  <2>1. \A w \in Workers : Undone(w) => Undone(w)'  BY <1>1 DEF Undone
  <2> DEFINE U == {}
  <2>2. /\ \A w \in Workers : Undone(w) => \/ worker[w].job.view \in U \cup {None}
                                           \/ Undone(w)' /\ worker'[w].job = worker[w].job
        /\ \A v \in Views : v \notin U => replies'[v] = replies[v]
        /\ \A v \in Views : v \in U => replies'[v] # << >>
        /\ asked' = asked /\ queue' = queue
    BY <1>1, <2>1
  <2> HIDE DEF U
  <2> QED  BY <1>1, <2>2, RequestsFrame
<1>2. enq \in [Threads -> Enqueuing]  BY DEF TypeOK, EnqueueType
<1>3. LoopFree => enq["main"].job.view = None
  BY <1>2, NoJobIsNone DEF LoopFree, Threads
<1>4. CASE UNCHANGED vars  BY <1>1, <1>4 DEF vars, client
<1>5. CASE Client
  <2>1. ASSUME NEW u \in Uris, NEW x \in Texts, DidOpen(u, x) \/ DidChange(u, x) PROVE RequestsKept'
    BY <1>1, <1>3, <2>1 DEF DidOpen, DidChange, Message, output
  <2>2. ASSUME NEW u \in Uris, DidSave(u) \/ DidClose(u) PROVE RequestsKept'
    BY <1>1, <1>3, <2>2 DEF DidSave, DidClose, Message, output
  <2>3. CASE LocaleAsk \/ StopDebounce
    BY <1>1, <2>3 DEF LocaleAsk, StopDebounce, output
  <2> QED  BY <1>5, <2>1, <2>2, <2>3, RequestsView DEF Client
<1>6. CASE Loop
  <2>1. ASSUME NEW t \in Threads, Bump(t) PROVE RequestsKept'
    <3>1. enq' = [enq EXCEPT ![t] = [pc |-> "push", job |-> [enq[t].job EXCEPT !.gen = gen[enq[t].job.uri] + 1]]]
          /\ enq[t].pc = "bump"
      BY <1>2, <2>1 DEF Bump
    <3>2. enq[t].job \in Jobs  BY <1>2, <3>1, NoJobIsNone
    <3>3. [enq[t].job EXCEPT !.gen = gen[enq[t].job.uri] + 1].view = enq[t].job.view
      BY <3>2 DEF Jobs
    <3>4. enq'["main"].job.view = enq["main"].job.view
      BY <1>2, <3>1, <3>3 DEF Threads
    <3> QED  BY <1>1, <2>1, <3>4 DEF Bump, client, output
  <2>2. CASE LocaleReserve \/ LocaleRelease \/ StopWorkers
    BY <1>1, <2>2 DEF LocaleReserve, LocaleRelease, StopWorkers, client, output
  <2> QED  BY <1>6, <2>1, <2>2, RequestsPush DEF Loop
<1>7. CASE Debounce
  <2>1. \A u, x : Begin("deb", u, x, None, None) => enq'["main"] = enq["main"]
    BY <1>2 DEF Begin, Threads
  <2>2. CASE DebounceFire
    BY <1>1, <2>1, <2>2 DEF DebounceFire, client, output
  <2>3. CASE DebounceCapture \/ DebounceAgain \/ DebounceExit
    BY <1>1, <2>3 DEF DebounceCapture, DebounceAgain, DebounceExit, client, output
  <2> QED  BY <1>7, <2>2, <2>3 DEF Debounce
<1> QED  BY <1>4, <1>5, <1>6, <1>7, RequestsRunStep DEF Next

(***************************************************************************)
(* No view request is lost: until it has its one response, a job for it is *)
(* on its way, also while the locale is applied and during the shutdown    *)
(* (HandleViewAssembly, EnqueueAnalysis, WorkerLoop, RunAnalysisOnSlot).   *)
(***************************************************************************)
THEOREM RequestsAreKept == Spec => []RequestsKept
<1>1. Init => LspInv /\ RequestsKept
  <2>1. Init => \A v \in Views : asked[v] = None  BY DEF Init, Session
  <2> QED  BY <2>1, InitIsSession, SessionInv DEF RequestsKept
<1>2. LspInv /\ RequestsKept /\ [Next]_vars => (LspInv /\ RequestsKept)'
  BY InvStep, RequestsStep DEF LspInv
<1> QED  BY <1>1, <1>2, PTL DEF Spec
=============================================================================
