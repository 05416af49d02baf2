------------------------------ MODULE LspServer ------------------------------
(***************************************************************************)
(* The analysis engine of the language server (src/cflat/LspServer.cpp).   *)
(* Three kinds of threads share it: the message loop (one handler at a     *)
(* time), the debounce thread, and a pool with one worker per backend      *)
(* slot.  Every analysis is a job in one FIFO queue; a job is dropped when *)
(* a newer generation of its document exists, unless it owes a response (a *)
(* "view": IR, assembly or optimization info).  A slot remembers what its  *)
(* backend was last analysed with, so that a view can reuse it.            *)
(*                                                                         *)
(* Texts stand for document contents (and, the hash being trusted, for     *)
(* their hashes).  Critical sections of different mutexes are steps of     *)
(* their own.                                                              *)
(***************************************************************************)
EXTENDS Integers, Sequences, FiniteSets, SequencesExt

CONSTANTS
  Uris,       \* documents
  Texts,      \* contents a document can have
  Views,      \* ids of view requests, each sent at most once
  Kinds,      \* view kinds: "ir", "asm", "optinfo", ... with their parameters
  PoolSize,   \* poolSize_: backend slots and workers
  CacheCap,   \* kViewCacheCapacity
  MaxSent,    \* bound: messages the client sends
  None        \* no document, no job, no record, no view

ASSUME LspAssumption ==
  /\ PoolSize \in Nat \ {0} /\ CacheCap \in Nat \ {0} /\ MaxSent \in Nat
  /\ None \notin Uris \cup Texts \cup Views \cup Kinds
  /\ None \notin [uri : Uris, text : Texts \cup {None}, kind : Kinds]
  /\ None \notin [uri : Uris, text : Texts, dbg : BOOLEAN]

VARIABLES
  docs,      \* docs_: the text of every open document
  viewUris,  \* viewUris_: documents a view was requested for
  sent,     \* how many messages the client has sent
  asked,     \* history: what each view request asked for
  replies,   \* history: the responses to each view request
  gen,       \* uriGeneration_
  queue,     \* jobQueue_
  pending,   \* pendingUri_, pendingText_ and debounceGeneration_
  deb,       \* the debounce thread: its step, its captured change, lastFiredGen
  enq,       \* EnqueueAnalysis in progress on the message loop and on deb
  worker,    \* each worker's step, job and slot
  free,      \* freeBackends_, used from the back
  record,    \* analysisRecords_
  held,      \* what each backend's module really holds after its last analysis
  inflight,  \* inFlightAnalyses_: key and slot
  cache,     \* viewCache_, most recent first
  index,     \* the analysis currentIndex_ comes from
  locale,    \* ApplyClientLocale: "no", "wait", "hold", "done"
  reserved,  \* the free list it has taken
  stop,      \* "no", "debounce": stopDebounce_ set, "workers": stopWorkers_ set
  newest     \* history: the newest generation that is no view's, and whether the
             \* newest generation's job has got a slot

client == <<docs, viewUris, sent, asked>>
debounce == <<pending, deb>>
pool == <<free, record, held, inflight>>
output == <<replies, cache, index>>
vars == <<client, replies, gen, queue, debounce, enq, worker, pool, cache,
          index, locale, reserved, stop, newest>>

Slots == 1 .. PoolSize
Workers == Slots
Threads == {"main", "deb"}
NoJob == [uri |-> None, text |-> None, view |-> None, kind |-> None,
          dbg |-> FALSE, gen |-> 0]
NoChange == [pc |-> "wait", uri |-> None, text |-> None, gen |-> 0, fired |-> 0]
Idle == [pc |-> "idle", job |-> NoJob, slot |-> 0]

\* A session in which these documents are open; the analysis of an open one
\* has thrown an exception, so that nothing is left of it.
Session(open) ==
  /\ docs = open
  /\ viewUris = {}
  /\ sent = 0
  /\ asked = [v \in Views |-> None]
  /\ replies = [v \in Views |-> << >>]
  /\ gen = [u \in Uris |-> IF open[u] = None THEN 0 ELSE 1]
  /\ queue = << >>
  /\ pending = [uri |-> None, text |-> None, gen |-> 0]
  /\ deb = NoChange
  /\ enq = [t \in Threads |-> [pc |-> "idle", job |-> NoJob]]
  /\ worker = [w \in Workers |-> Idle]
  /\ free = [i \in Slots |-> i]
  /\ record = [s \in Slots |-> None]
  /\ held = [s \in Slots |-> None]
  /\ inflight = {}
  /\ cache = << >>
  /\ index = None
  /\ locale = "no"
  /\ reserved = << >>
  /\ stop = "no"
  /\ newest = [u \in Uris |-> [revision |-> gen[u], ran |-> TRUE]]

Init == Session([u \in Uris |-> None])

Key(job) == [uri |-> job.uri, text |-> job.text]
ViewKey(u, t, k) == [uri |-> u, text |-> t, kind |-> k]
NoView == ViewKey(None, None, None)  \* any response that is not a view

(***************************************************************************)
(* EnqueueAnalysis: the job's flag is set when it is built, its generation *)
(* under uriGenMutex_, and it is queued under jobMutex_.                   *)
(***************************************************************************)
Begin(t, u, x, v, k) ==
  enq' = [enq EXCEPT ![t] = [pc |-> "bump", job |->
            [uri |-> u, text |-> x, view |-> v, kind |-> k, gen |-> 0,
             dbg |-> v # None \/ u \in viewUris]]]

Bump(t) ==
  /\ enq[t].pc = "bump"
  /\ LET u == enq[t].job.uri IN
       /\ gen' = [gen EXCEPT ![u] = @ + 1]
       /\ newest' = [newest EXCEPT ![u] =
                       [revision |-> IF enq[t].job.view = None THEN gen'[u] ELSE @.revision,
                        ran |-> FALSE]]
       /\ enq' = [enq EXCEPT ![t] = [pc |-> "push", job |-> [@.job EXCEPT !.gen = gen[u] + 1]]]
  /\ UNCHANGED <<client, output, queue, debounce, worker, pool, locale, reserved,
                 stop>>

Push(t) ==
  /\ enq[t].pc = "push"
  /\ queue' = Append(queue, enq[t].job)
  /\ enq' = [enq EXCEPT ![t] = [pc |-> "idle", job |-> NoJob]]
  /\ deb' = IF t = "deb" THEN [NoChange EXCEPT !.fired = deb.fired] ELSE deb
  /\ UNCHANGED <<client, output, gen, pending, worker, pool, locale, reserved,
                 stop, newest>>

(***************************************************************************)
(* The message loop handles one message at a time.                         *)
(***************************************************************************)
LoopFree == enq["main"].pc = "idle" /\ locale \in {"no", "done"} /\ stop = "no"

Message == /\ LoopFree
           /\ sent < MaxSent
           /\ sent' = sent + 1

DidOpen(u, x) ==
  /\ Message
  /\ docs[u] = None
  /\ docs' = [docs EXCEPT ![u] = x]
  /\ Begin("main", u, x, None, None)
  /\ UNCHANGED <<viewUris, asked, output, gen, queue, debounce, worker, pool,
                 locale, reserved, stop, newest>>

DidSave(u) ==
  /\ Message
  /\ docs[u] # None
  /\ Begin("main", u, docs[u], None, None)
  /\ UNCHANGED <<docs, viewUris, asked, output, gen, queue, debounce, worker,
                 pool, locale, reserved,
                 stop, newest>>

DidChange(u, x) ==
  /\ Message
  /\ docs[u] # None
  /\ docs' = [docs EXCEPT ![u] = x]
  /\ pending' = [uri |-> u, text |-> x, gen |-> pending.gen + 1]
  /\ UNCHANGED <<viewUris, asked, output, gen, queue, deb, enq, worker, pool,
                 locale, reserved, stop, newest>>

DidClose(u) ==
  /\ Message
  /\ docs[u] # None
  /\ viewUris' = viewUris \ {u}
  /\ docs' = [docs EXCEPT ![u] = None]
  /\ UNCHANGED <<asked, output, gen, queue, debounce, enq, worker, pool, locale, reserved,
                 stop, newest>>

\* TouchCachedView: a hit moves to the front.
CachePosition(key) == SelectInSeq(cache, LAMBDA e : e.key = key)
Touched(i) == <<cache[i]>> \o RemoveAt(cache, i)

\* HandleViewAssembly and HandleOptimizationInfo.
ViewRequest(v, u, k) ==
  /\ Message
  /\ asked[v] = None
  /\ asked' = [asked EXCEPT ![v] = ViewKey(u, docs[u], k)]
  /\ viewUris' = viewUris \cup {u}
  /\ LET hit == CachePosition(ViewKey(u, docs[u], k)) IN
       \/ /\ docs[u] = None
          /\ replies' = [replies EXCEPT ![v] = Append(@, NoView)]
          /\ UNCHANGED <<cache, enq>>
       \/ /\ docs[u] # None
          /\ hit > 0
          /\ replies' = [replies EXCEPT ![v] = Append(@, cache[hit].result)]
          /\ cache' = Touched(hit)
          /\ UNCHANGED enq
       \/ /\ docs[u] # None
          /\ hit = 0
          /\ Begin("main", u, docs[u], v, k)
          /\ UNCHANGED <<replies, cache>>
  /\ UNCHANGED <<docs, gen, queue, debounce, worker, pool, index, locale, reserved, stop, newest>>

\* ApplyClientLocale: waits for every slot, then touches every backend.
LocaleAsk ==
  /\ Message
  /\ locale = "no"
  /\ locale' = "wait"
  /\ UNCHANGED <<docs, viewUris, asked, output, gen, queue, debounce, enq, worker, pool, reserved,
                 stop, newest>>

\* Mutant: does not wait for the slots in use.
LocaleReserveSome ==
  /\ locale = "wait"
  /\ reserved' = free /\ free' = << >>
  /\ locale' = "hold"
  /\ UNCHANGED <<client, output, gen, queue, debounce, enq, worker, record, held,
                 inflight, stop, newest>>

LocaleReserve ==
  /\ locale = "wait"
  /\ Len(free) = PoolSize
  /\ reserved' = free /\ free' = << >>
  /\ locale' = "hold"
  /\ UNCHANGED <<client, output, gen, queue, debounce, enq, worker, record, held,
                 inflight, stop, newest>>

LocaleRelease ==
  /\ locale = "hold"
  /\ free' = reserved /\ reserved' = << >>
  /\ locale' = "done"
  /\ UNCHANGED <<client, output, gen, queue, debounce, enq, worker, record, held,
                 inflight, stop, newest>>

\* ~LspServer: stop and join the debounce thread, then the workers.
StopDebounce ==
  /\ Message
  /\ stop' = "debounce"
  /\ UNCHANGED <<docs, viewUris, asked, output, gen, queue, debounce, enq, worker, pool, locale,
                 reserved, newest>>

StopWorkers ==
  /\ stop = "debounce"
  /\ deb.pc = "exit"
  /\ stop' = "workers"
  /\ UNCHANGED <<client, output, gen, queue, debounce, enq, worker, pool, locale,
                 reserved, newest>>

(***************************************************************************)
(* DebounceWorker: one pending change, whatever its document; it is queued *)
(* once no other change has come for the quiet period.                     *)
(***************************************************************************)
DebounceCapture ==
  /\ deb.pc = "wait"
  /\ stop = "no"
  /\ pending.gen # deb.fired
  /\ deb' = [deb EXCEPT !.pc = "quiet", !.uri = pending.uri,
                        !.text = pending.text, !.gen = pending.gen]
  /\ UNCHANGED <<client, output, gen, queue, pending, enq, worker, pool, locale,
                 reserved, stop, newest>>

DebounceAgain ==
  /\ deb.pc = "quiet"
  /\ stop = "no"
  /\ pending.gen # deb.gen
  /\ deb' = [NoChange EXCEPT !.fired = deb.fired]
  /\ UNCHANGED <<client, output, gen, queue, pending, enq, worker, pool, locale,
                 reserved, stop, newest>>

DebounceExit ==
  /\ deb.pc \in {"wait", "quiet"}
  /\ stop # "no"
  /\ deb' = [NoChange EXCEPT !.pc = "exit"]
  /\ UNCHANGED <<client, output, gen, queue, pending, enq, worker, pool, locale,
                 reserved, stop, newest>>

DebounceFire ==
  /\ deb.pc = "quiet"
  /\ stop = "no"
  /\ pending.gen = deb.gen
  /\ deb' = [deb EXCEPT !.pc = "enqueue", !.fired = deb.gen]
  /\ Begin("deb", deb.uri, deb.text, None, None)
  /\ UNCHANGED <<client, output, gen, queue, pending, worker, pool, locale,
                 reserved, stop, newest>>

(***************************************************************************)
(* WorkerLoop.                                                             *)
(***************************************************************************)
\* Idle workers are alike: the first of them takes the job.
Take(w) ==
  /\ worker[w].pc = "idle"
  /\ \A z \in Workers : worker[z].pc = "idle" => w <= z
  /\ stop # "workers"
  /\ queue # << >>
  /\ worker' = [worker EXCEPT ![w] = [pc |-> "check", job |-> Head(queue), slot |-> 0]]
  /\ queue' = Tail(queue)
  /\ UNCHANGED <<client, output, gen, debounce, enq, pool, locale, reserved, stop,
                 newest>>

WorkerExit(w) ==
  /\ worker[w].pc = "idle"
  /\ stop = "workers"
  /\ worker' = [worker EXCEPT ![w].pc = "exit"]
  /\ UNCHANGED <<client, output, gen, queue, debounce, enq, pool, locale, reserved,
                 stop, newest>>

\* Mutants: views are dropped too; a job gives way to any later job queued.
SupersededViews(job) == job.gen # gen[job.uri]
SupersededByQueue(job) == job.view = None /\ \E j \in Range(queue) : j.uri = job.uri

Superseded(job) == job.view = None /\ job.gen # gen[job.uri]

Check(w) ==
  /\ worker[w].pc = "check"
  /\ worker' = [worker EXCEPT ![w] =
                  IF Superseded(@.job) THEN Idle ELSE [@ EXCEPT !.pc = "reserve"]]
  /\ UNCHANGED <<client, output, gen, queue, debounce, enq, pool, locale, reserved,
                 stop, newest>>

\* AnalysisRecordMatches, ReusableAnalysisIndex; AnalysisRecordUriMatches.
RecordMatches(s, job) ==
  job.view # None /\ record[s] = [uri |-> job.uri, text |-> job.text, dbg |-> TRUE]
RecordUriMatches(s, job) ==
  /\ job.view # None
  /\ record[s] # None
  /\ record[s].uri = job.uri /\ record[s].dbg

AnalysisInFlight(job) == \E e \in inflight : e.key = Key(job)

\* The position in the free list of the slot a job takes: one that can be
\* reused, else one of the same document, else the last.
Preferred(job) ==
  LET match == SelectInSeq(free, LAMBDA s : RecordMatches(s, job))
      same == SelectInSeq(free, LAMBDA s : RecordUriMatches(s, job))
  IN IF match > 0 THEN match ELSE IF same > 0 THEN same ELSE Len(free)

\* Mutant: does not wait for an analysis in flight.
MayReserveAny(job) == free # << >>

MayReserve(job) ==
  /\ free # << >>
  /\ \/ job.view = None
     \/ \E s \in Range(free) : RecordMatches(s, job)
     \/ ~ AnalysisInFlight(job)

\* PublishAnalysisInFlight, RemoveAnalysisInFlight.
InFlightEntry(job, s) == IF job.dbg THEN {[key |-> Key(job), slot |-> s]} ELSE {}

Reserve(w) ==
  LET job == worker[w].job
      i == Preferred(job)
  IN /\ worker[w].pc = "reserve"
     /\ MayReserve(job)
     /\ worker' = [worker EXCEPT ![w] = [pc |-> "analyse", job |-> job, slot |-> free[i]]]
     /\ free' = RemoveAt(free, i)
     /\ inflight' = inflight \cup InFlightEntry(job, free[i])
     /\ newest' = [newest EXCEPT ![job.uri].ran = @ \/ job.gen = gen[job.uri]]
     /\ UNCHANGED <<client, output, gen, queue, debounce, enq, record, held, locale,
                    reserved, stop>>

\* Mutant: forgets to take the job out of inFlightAnalyses_.
ReleaseSlotOnly(w) ==
  /\ worker[w].pc = "release"
  /\ worker' = [worker EXCEPT ![w] = Idle]
  /\ free' = Append(free, worker[w].slot)
  /\ UNCHANGED <<client, output, gen, queue, debounce, enq, record, held, inflight,
                 locale, reserved, stop, newest>>

Release(w) ==
  LET s == worker[w].slot IN
  /\ worker[w].pc = "release"
  /\ worker' = [worker EXCEPT ![w] = Idle]
  /\ free' = Append(free, s)
  /\ inflight' = inflight \ InFlightEntry(worker[w].job, s)
  /\ UNCHANGED <<client, output, gen, queue, debounce, enq, record, held, locale,
                 reserved, stop, newest>>

(***************************************************************************)
(* RunAnalysisOnSlot.  An analysis ends well, with errors, with a crash    *)
(* that the server recovers from (the backend is replaced), with a C++     *)
(* exception, or before it began (no temporary file).  An exception after  *)
(* the record is set ends like a view that cannot be printed.              *)
(***************************************************************************)
Respond(job, r) ==
  replies' = IF job.view = None THEN replies
             ELSE [replies EXCEPT ![job.view] = Append(@, r)]

Step(w, pc) == worker' = [worker EXCEPT ![w].pc = pc]

Reuse(w) ==
  /\ worker[w].pc = "analyse"
  /\ RecordMatches(worker[w].slot, worker[w].job)
  /\ Step(w, "emit")
  /\ UNCHANGED <<client, output, gen, queue, debounce, enq, pool, locale, reserved,
                 stop, newest>>

\* Mutant: the record is only set, never cleared.
RecordKept(outcome, s, done) == IF outcome = "ok" THEN done ELSE record[s]

RecordAfter(outcome, s, done) == IF outcome = "ok" THEN done ELSE None

\* ClearAnalysisRecord opens, SetAnalysisRecord closes: only a job that holds
\* the slot reads its record in between.  A partial parse keeps the old index.
Analyse(w, outcome) ==
  LET job == worker[w].job
      s == worker[w].slot
      done == [uri |-> job.uri, text |-> job.text, dbg |-> job.dbg]
  IN /\ worker[w].pc = "analyse"
     /\ ~ RecordMatches(s, job)
     /\ record' = [record EXCEPT ![s] = RecordAfter(outcome, s, done)]
     /\ held' = IF outcome = "nofile" THEN held
                ELSE [held EXCEPT ![s] = IF outcome = "ok" THEN done ELSE None]
     /\ \/ /\ outcome \notin {"nofile", "throw"} /\ job.view = None
           /\ index' = Key(job)
        \/ /\ outcome \in {"nofile", "throw"} \/ job.view # None \/ index # None
           /\ UNCHANGED index
     /\ IF outcome = "ok"
        THEN /\ Step(w, IF job.view = None THEN "release" ELSE "emit")
             /\ UNCHANGED replies
        ELSE /\ Step(w, "release")
             /\ Respond(job, NoView)
     /\ UNCHANGED <<client, gen, queue, debounce, enq, free, inflight, cache, locale,
                    reserved, stop, newest>>

\* InsertCachedView.  The entries have different keys: one at most is erased.
Inserted(key, r) ==
  LET i == CachePosition(key)
      others == IF i > 0 THEN RemoveAt(cache, i) ELSE cache
      all == <<[key |-> key, result |-> r]>> \o others
  IN IF Len(all) > CacheCap THEN Front(all) ELSE all

\* The view is printed from what the backend holds; printing may fail or throw.
Emit(w) ==
  LET job == worker[w].job
      h == held[worker[w].slot]
      view == IF h = None THEN ViewKey(None, None, job.kind)
              ELSE ViewKey(h.uri, h.text, job.kind)
  IN /\ worker[w].pc = "emit"
     /\ Step(w, "release")
     /\ \/ /\ Respond(job, view)
           /\ cache' = Inserted(ViewKey(job.uri, job.text, job.kind), view)
        \/ /\ Respond(job, NoView)
           /\ UNCHANGED cache
     /\ UNCHANGED <<client, index, gen, queue, debounce, enq, pool, locale,
                    reserved, stop, newest>>

Outcomes == {"ok", "errors", "crash", "throw", "nofile"}

Client ==
  \/ \E u \in Uris, x \in Texts : DidOpen(u, x) \/ DidChange(u, x)
  \/ \E u \in Uris : DidSave(u) \/ DidClose(u)
  \/ \E v \in Views, u \in Uris, k \in Kinds : ViewRequest(v, u, k)
  \/ LocaleAsk
  \/ StopDebounce

Loop == (\E t \in Threads : Bump(t) \/ Push(t))
        \/ LocaleReserve \/ LocaleRelease \/ StopWorkers

Debounce == DebounceCapture \/ DebounceAgain \/ DebounceFire \/ DebounceExit

Run(w) == Take(w) \/ WorkerExit(w) \/ Check(w) \/ Reserve(w) \/ Reuse(w)
          \/ (\E o \in Outcomes : Analyse(w, o)) \/ Emit(w) \/ Release(w)

Next == Client \/ Loop \/ Debounce \/ \E w \in Workers : Run(w)

Spec == Init /\ [][Next]_vars

\* Every thread keeps running; the client need not send anything more.
Fairness == /\ \A t \in Threads : WF_vars(Bump(t) \/ Push(t))
            /\ WF_vars(LocaleReserve \/ LocaleRelease \/ StopWorkers)
            /\ WF_vars(Debounce)
            /\ \A w \in Workers : WF_vars(Run(w))

FairSpec == Spec /\ Fairness

------------------------------------------------------------------------------
(***************************************************************************)
(* The type invariant.  Only a thread that is busy has a job, a job that   *)
(* owes a response keeps debug information, and the debounce thread queues *)
(* what it has captured before it waits for the next change.               *)
(***************************************************************************)
Jobs == {j \in [uri : Uris, text : Texts, view : Views \cup {None},
                 kind : Kinds \cup {None}, dbg : BOOLEAN, gen : Nat] :
           j.view # None => j.kind \in Kinds /\ j.dbg}
ViewKeys == [uri : Uris, text : Texts, kind : Kinds]
Analysed == [uri : Uris, text : Texts, dbg : BOOLEAN]
Enqueuing == {e \in [pc : {"idle", "bump", "push"}, job : Jobs \cup {NoJob}] :
                e.pc = "idle" <=> e.job = NoJob}
BusyPCs == {"analyse", "emit", "release"}
Working == {r \in [pc : {"idle", "exit", "check", "reserve"} \cup BusyPCs,
                    job : Jobs \cup {NoJob}, slot : 0 .. PoolSize] :
              /\ r.pc \in {"idle", "exit"} <=> r.job = NoJob
              /\ r.pc \in BusyPCs => r.slot \in Slots}

ClientType ==
  /\ docs \in [Uris -> Texts \cup {None}]
  /\ viewUris \in SUBSET Uris
  /\ sent \in Nat
  /\ asked \in [Views -> [uri : Uris, text : Texts \cup {None}, kind : Kinds] \cup {None}]
OutputType ==
  /\ replies \in [Views -> Seq(ViewKeys \cup {NoView})]
  /\ cache \in Seq([key : ViewKeys, result : ViewKeys])
QueueType ==
  /\ gen \in [Uris -> Nat]
  /\ queue \in Seq(Jobs)
  /\ newest \in [Uris -> [revision : Nat, ran : BOOLEAN]]
DebounceType ==
  /\ pending \in [uri : Uris \cup {None}, text : Texts \cup {None}, gen : Nat]
  /\ pending.gen # 0 => pending.uri \in Uris /\ pending.text \in Texts
  /\ deb \in [pc : {"wait", "quiet", "enqueue", "exit"}, uri : Uris \cup {None},
              text : Texts \cup {None}, gen : Nat, fired : Nat]
  /\ deb.fired <= pending.gen /\ deb.gen <= pending.gen
  /\ deb.pc = "quiet" => deb.uri \in Uris /\ deb.text \in Texts
EnqueueType ==
  /\ enq \in [Threads -> Enqueuing]
  /\ enq["deb"].job.view = None
  /\ enq["deb"].pc # "idle" <=> deb.pc = "enqueue"
PoolType ==
  /\ worker \in [Workers -> Working]
  /\ free \in Seq(Slots) /\ reserved \in Seq(Slots)
  /\ record \in [Slots -> Analysed \cup {None}]
  /\ held \in [Slots -> Analysed \cup {None}]
ControlType ==
  /\ locale \in {"no", "wait", "hold", "done"}
  /\ stop \in {"no", "debounce", "workers"}

TypeOK == ClientType /\ OutputType /\ QueueType /\ DebounceType /\ EnqueueType
          /\ PoolType /\ ControlType

Busy == {w \in Workers : worker[w].pc \in {"analyse", "emit", "release"}}

(***************************************************************************)
(* A slot is on the free list once, or taken for the locale, or held by    *)
(* one worker, whatever way its analysis ended; and exactly the running    *)
(* analyses with debug information are announced in inFlightAnalyses_.     *)
(***************************************************************************)
SlotsConserved ==
  /\ Len(free) + Len(reserved) + Cardinality(Busy) = PoolSize
  /\ Range(free) \cup Range(reserved) \cup {worker[w].slot : w \in Busy} = Slots
  /\ inflight = UNION {InFlightEntry(worker[w].job, worker[w].slot) : w \in Busy}

(***************************************************************************)
(* A view request gets at most one response, and a view that is sent shows *)
(* the document, the text and the kind that was asked for, whether it was  *)
(* analysed, printed from a reused backend or taken from the cache, and    *)
(* whatever has crashed or been analysed on that slot in between.          *)
(***************************************************************************)
AnswersRight ==
  \A v \in Views : /\ Len(replies[v]) <= 1
                   /\ \A i \in DOMAIN replies[v] : replies[v][i] \in {NoView, asked[v]}

(***************************************************************************)
(* The newest generation of a document is never lost: until it has got a   *)
(* slot, its job is being queued, is queued or is held by a worker.  Two   *)
(* threads take generations and queue their jobs in critical sections of   *)
(* their own, so jobs may be queued out of the order of their generations. *)
(***************************************************************************)
NewestNeverLost ==
  \A u \in Uris : newest[u].ran \/ \E job \in {enq[t].job : t \in Threads} \cup Range(queue)
                                  \cup {worker[w].job : w \in Workers} :
                                job.uri = u /\ job.gen = gen[u]

(***************************************************************************)
(* No two views analyse the same text of a document at the same time: the  *)
(* second waits for the first and prints from its backend.                 *)
(***************************************************************************)
NoDuplicateAnalysis ==
  \A w1, w2 \in Busy :
    LET j1 == worker[w1].job
        j2 == worker[w2].job
    IN /\ w1 # w2 /\ worker[w1].pc = "analyse" /\ worker[w2].pc = "analyse"
       /\ j1.view # None /\ j2.view # None /\ Key(j1) = Key(j2)
       => RecordMatches(worker[w1].slot, j1) \/ RecordMatches(worker[w2].slot, j2)

(***************************************************************************)
(* Every view request gets a response unless the server is shut down: no   *)
(* job waits for ever for a slot or for an analysis in flight.             *)
(***************************************************************************)
ViewsAnswered ==
  \A v \in Views : asked[v] # None ~> replies[v] # << >> \/ stop # "no"

(***************************************************************************)
(* The shutdown ends: every thread that the destructor joins returns, also *)
(* while jobs wait for a slot or for an analysis in flight.                *)
(***************************************************************************)
ShutdownEnds ==
  stop # "no" ~> \A w \in Workers : worker[w].pc = "exit"

(***************************************************************************)
(* LspServer.cpp says "Drop superseded jobs - a newer revision of this URI *)
(* has been enqueued": a job is dropped for a newer job of the same kind,  *)
(* one that publishes the symbol index, and not for a view.                *)
(***************************************************************************)
DroppedForNewerRevision ==
  [][\A w \in Workers :
       worker[w].pc = "check" /\ worker'[w].pc = "idle"
       => worker[w].job.gen < newest[worker[w].job.uri].revision]_vars
==============================================================================
