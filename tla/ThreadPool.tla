----------------------------- MODULE ThreadPool -----------------------------
(***************************************************************************)
(* ThreadPool of cflat/core/threadpool.cb: workers that share three        *)
(* priority queues, a semaphore that counts wake-up tokens, the count      *)
(* _inflight of tasks that drain() waits for, and one mutex that guards    *)
(* continuations and the drain condition variable.                         *)
(*                                                                         *)
(* A task runs on the stack of the thread that popped it, and a task that  *)
(* calls drain() pops and runs further tasks on top of itself.  So every   *)
(* thread has a stack of frames: at the bottom the worker loop, or the     *)
(* program of a thread outside the pool, and above it the running tasks.   *)
(* Programs are sequences of pool calls.                                   *)
(*                                                                         *)
(* The queues are channels, at the granularity of the contract in          *)
(* TicketQueue: a push claims a place, later publishes the item, and a pop *)
(* takes the oldest item only if it is published.                          *)
(***************************************************************************)
EXTENDS Integers, Sequences, FiniteSets

CONSTANTS
  Users,     \* threads outside the pool
  Workers,   \* _count worker threads
  Tasks,
  Priority,  \* per task: 1 high, 2 normal, 3 low
  QCap,      \* THREADPOOL_QUEUE_CAPACITY
  Programs,  \* the programs that are tried: per user and per task a sequence of calls
  None

Levels == 1 .. 3
Threads == Users \union Workers

Calls ==
  [op : {"submit", "detach", "wait"}, task : Tasks]
    \union [op : {"then"}, dep : Tasks, task : Tasks]
    \union [op : {"drain", "shutdown"}]

ASSUME ThreadPoolAssumption ==
  /\ IsFiniteSet(Workers) /\ Workers # {}
  /\ Users \intersect Workers = {}
  /\ Threads \intersect Tasks = {}
  /\ None \notin Threads \union Tasks
  /\ Priority \in [Tasks -> Levels]
  /\ QCap \in Nat \ {0}
  /\ \A prog \in Programs :
       DOMAIN prog = Users \union Tasks /\ \A w \in DOMAIN prog : prog[w] \in Seq(Calls)

\* A task is named by the call that submits it, and then() is called on a
\* handle, which submitDetached() does not return.
Submissions == {"submit", "detach", "then"}

ASSUME OneSubmissionEach ==
  \A prog \in Programs : \A w, v \in DOMAIN prog :
    \A i \in DOMAIN prog[w], j \in DOMAIN prog[v] :
      LET call == prog[w][i]  other == prog[v][j] IN
      /\ {call.op, other.op} \subseteq Submissions /\ call.task = other.task => w = v /\ i = j
      /\ call.op = "then" /\ other.op = "detach" => call.dep # other.task

VARIABLES
  program,   \* what each user and each task does, fixed at the start
  stack,     \* per thread: its frames, the topmost first
  queue,     \* per priority: _qHigh, _qNormal, _qLow
  tokens,    \* count of the semaphore _ready
  inflight,  \* _inflight
  draining,  \* _drainingWorkers
  stop,      \* _stop
  up,        \* _workers # nullptr
  holder,    \* owner of the mutex _lock
  cont,      \* per task: the continuation registered on its handle
  done,      \* per task: what its handle reports
  handle,    \* per task: whether the handle exists
  fate,      \* per task: what became of its submission
  runs       \* per task: how often its function was called

pool == <<tokens, inflight, draining, stop, up>>
handles == <<cont, done, handle, fate>>
vars == <<program, stack, queue, tokens, inflight, draining, stop, up, holder,
          cont, done, handle, fate, runs>>

\* who: the user, worker or task whose code it is; ip: the call it is in;
\* at: the step within the call; n: the local number of that step;
\* next: the continuation that a completing task has taken from its handle;
\* owed (history): the tasks that had been accepted when its drain() began.
Frame(who, at) ==
  [who |-> who, ip |-> 1, at |-> at, n |-> 1, next |-> None, owed |-> {}]

Top(t) == Head(stack[t])
At(t, label) == Top(t).at = label
SetTop(t, frame) == stack' = [stack EXCEPT ![t] = <<frame>> \o Tail(@)]
Goto(t, label) == SetTop(t, [Top(t) EXCEPT !.at = label])
Finished(t) == Top(t).who \in Tasks /\ Top(t).ip > Len(program[Top(t).who])
InCall(t, op) ==
  /\ At(t, "call")
  /\ Top(t).ip \in DOMAIN program[Top(t).who]
  /\ program[Top(t).who][Top(t).ip].op \in op
Call(t) == program[Top(t).who][Top(t).ip]
NextCall(f) == [f EXCEPT !.ip = @ + 1, !.at = "call", !.n = 1, !.owed = {}]
Accepted == {k \in Tasks : fate[k] = "accepted"}

\* The task that the thread is pushing: the continuation of the task that has
\* just finished, or the one it was asked to submit.
Pushed(t) == IF Finished(t) THEN Top(t).next ELSE Call(t).task

Init ==
  /\ program \in Programs
  /\ stack = [t \in Threads |-> <<Frame(t, IF t \in Workers THEN "top" ELSE "call")>>]
  /\ queue = [l \in Levels |-> << >>]
  /\ tokens = 0
  /\ inflight = 0
  /\ draining = 0
  /\ stop = FALSE
  /\ up = TRUE
  /\ holder = None
  /\ cont = [k \in Tasks |-> None]
  /\ done = [k \in Tasks |-> "no"]
  /\ handle = [k \in Tasks |-> "none"]
  /\ fate = [k \in Tasks |-> "new"]
  /\ runs = [k \in Tasks |-> 0]

(***************************************************************************)
(* submit, submitDetached and then.                                        *)
(***************************************************************************)
\* The refusal of a pool that is stopping comes first, before the handle is made.
\* A program does not call then() on a handle it never got.
StartSubmit(t) ==
  /\ InCall(t, Submissions)
  /\ IF stop \/ ~up \/ (Call(t).op = "then" /\ fate[Call(t).dep] = "refused")
     THEN /\ fate' = [fate EXCEPT ![Call(t).task] = "refused"]
          /\ SetTop(t, NextCall(Top(t)))
          /\ UNCHANGED handle
     ELSE /\ handle' = [handle EXCEPT ![Call(t).task] =
                          IF Call(t).op = "detach" THEN "none" ELSE "live"]
          /\ Goto(t, "reserve")
          /\ UNCHANGED fate
  /\ UNCHANGED <<program, queue, pool, holder, cont, done, runs>>

\* Mutation of Reserve: then() reserves nothing, as it does not push yet.
ReserveSubmits(t) ==
  /\ At(t, "reserve")
  /\ inflight' = inflight + (IF Call(t).op = "then" THEN 0 ELSE 1)
  /\ Goto(t, IF Call(t).op = "then" THEN "register" ELSE "push")
  /\ UNCHANGED <<program, queue, tokens, draining, stop, up, holder, handles, runs>>

Reserve(t) ==
  /\ At(t, "reserve")
  /\ inflight' = inflight + 1
  /\ Goto(t, IF Call(t).op = "then" THEN "register" ELSE "push")
  /\ UNCHANGED <<program, queue, tokens, draining, stop, up, holder, handles, runs>>

\* Mutation of Register: the handle is looked at without the lock.
RegisterUnlocked(t) ==
  /\ At(t, "register")
  /\ LET dep == Call(t).dep IN
     IF cont[dep] # None \/ done[dep] # "no"
     THEN /\ Goto(t, IF cont[dep] # None THEN "release" ELSE "push")
          /\ UNCHANGED <<cont, fate>>
     ELSE /\ cont' = [cont EXCEPT ![dep] = Call(t).task]
          /\ fate' = [fate EXCEPT ![Call(t).task] = "accepted"]
          /\ SetTop(t, NextCall(Top(t)))
  /\ UNCHANGED <<program, queue, pool, holder, done, handle, runs>>

\* Mutation of Register: the continuation is submitted although dep still runs.
RegisterEager(t) ==
  /\ At(t, "register")
  /\ holder = None
  /\ Goto(t, IF cont[Call(t).dep] # None THEN "release" ELSE "push")
  /\ UNCHANGED <<program, queue, pool, holder, handles, runs>>

\* The locked part of then(): refuse a duplicate, submit now, or register.
Register(t) ==
  /\ At(t, "register")
  /\ holder = None
  /\ LET dep == Call(t).dep IN
     \/ /\ cont[dep] # None
        /\ Goto(t, "release")
        /\ UNCHANGED <<cont, fate>>
     \/ /\ cont[dep] = None
        /\ done[dep] # "no"
        /\ Goto(t, "push")
        /\ UNCHANGED <<cont, fate>>
     \/ /\ cont[dep] = None
        /\ done[dep] = "no"
        /\ cont' = [cont EXCEPT ![dep] = Call(t).task]
        /\ fate' = [fate EXCEPT ![Call(t).task] = "accepted"]
        /\ SetTop(t, NextCall(Top(t)))
  /\ UNCHANGED <<program, queue, pool, holder, done, handle, runs>>

\* try_push: claim a place, or find the queue full and roll back.
Push(t) ==
  /\ At(t, "push")
  /\ LET l == Priority[Pushed(t)] IN
     IF Len(queue[l]) < QCap
     THEN /\ queue' = [queue EXCEPT ![l] = Append(@, [item |-> Pushed(t), ready |-> FALSE])]
          /\ Goto(t, "publish")
     ELSE /\ UNCHANGED queue
          /\ Goto(t, IF Finished(t) THEN "drop" ELSE "release")
  /\ UNCHANGED <<program, pool, holder, handles, runs>>

Publish(t) ==
  /\ At(t, "publish")
  /\ LET l == Priority[Pushed(t)] IN
     queue' = [queue EXCEPT ![l] =
                 [i \in DOMAIN @ |-> IF @[i].item = Pushed(t)
                                     THEN [@[i] EXCEPT !.ready = TRUE] ELSE @[i]]]
  /\ Goto(t, "token")
  /\ UNCHANGED <<program, pool, holder, handles, runs>>

\* _ready.release(), which ends the call or the hand-over of a continuation.
Token(t) ==
  /\ At(t, "token")
  /\ tokens' = tokens + 1
  /\ IF Finished(t)
     THEN Goto(t, "release") /\ UNCHANGED fate
     ELSE SetTop(t, NextCall(Top(t))) /\ fate' = [fate EXCEPT ![Pushed(t)] = "accepted"]
  /\ UNCHANGED <<program, queue, inflight, draining, stop, up, holder, cont, done, handle, runs>>

(***************************************************************************)
(* __threadpool_release_inflight, called when a submission is rolled back  *)
(* and when a task has completed; whoever reaches zero wakes drain().      *)
(***************************************************************************)
\* A task that has completed leaves the stack, a refused submission returns.
Leave(t) ==
  IF Finished(t)
  THEN [stack EXCEPT ![t] = Tail(@)]
  ELSE [stack EXCEPT ![t] = <<NextCall(Top(t))>> \o Tail(@)]

Release(t) ==
  /\ At(t, "release")
  /\ inflight' = inflight - 1
  /\ IF inflight' = 0 THEN Goto(t, "wake") ELSE stack' = Leave(t)
  /\ IF Finished(t)
     THEN UNCHANGED <<handle, fate>>
     ELSE /\ fate' = [fate EXCEPT ![Pushed(t)] = "refused"]
          /\ handle' = [handle EXCEPT ![Pushed(t)] = "none"]
  /\ UNCHANGED <<program, queue, tokens, draining, stop, up, holder, cont, done, runs>>

\* Mutation of Wake: the waiters are woken without the lock.
WakeUnlocked(t) ==
  /\ At(t, "wake")
  /\ stack' = [u \in Threads |->
                 IF u = t THEN Leave(t)[t]
                 ELSE IF At(u, "asleep")
                      THEN <<[Top(u) EXCEPT !.at = "lock"]>> \o Tail(stack[u])
                      ELSE stack[u]]
  /\ UNCHANGED <<program, queue, pool, holder, handles, runs>>

Wake(t) ==
  /\ At(t, "wake")
  /\ holder = None
  /\ stack' = [u \in Threads |->
                 IF u = t THEN Leave(t)[t]
                 ELSE IF At(u, "asleep")
                      THEN <<[Top(u) EXCEPT !.at = "lock"]>> \o Tail(stack[u])
                      ELSE stack[u]]
  /\ UNCHANGED <<program, queue, pool, holder, handles, runs>>

(***************************************************************************)
(* __threadpool_execute_task after the task's function has returned.       *)
(***************************************************************************)
\* Mutation of TakeContinuation: done is published before the continuation is read.
TakeContinuationLate(t) ==
  /\ At(t, "call")
  /\ Finished(t)
  /\ holder = None
  /\ holder' = t
  /\ done' = [k \in Tasks |-> IF k = Top(t).who /\ handle[k] # "none" THEN "ran" ELSE done[k]]
  /\ cont' = [cont EXCEPT ![Top(t).who] = None]
  /\ SetTop(t, [Top(t) EXCEPT !.next = cont[Top(t).who], !.at = "report"])
  /\ UNCHANGED <<program, queue, pool, handle, fate, runs>>

\* Under the lock: first take the continuation ...
TakeContinuation(t) ==
  /\ At(t, "call")
  /\ Finished(t)
  /\ holder = None
  /\ holder' = t
  /\ cont' = [cont EXCEPT ![Top(t).who] = None]
  /\ SetTop(t, [Top(t) EXCEPT !.next = cont[Top(t).who], !.at = "report"])
  /\ UNCHANGED <<program, queue, pool, done, handle, fate, runs>>

\* ... then publish done, after which a waiter may delete the handle.
PublishDone(t) ==
  /\ At(t, "report")
  /\ holder' = None
  /\ done' = [k \in Tasks |->
               IF k = Top(t).who /\ handle[k] # "none" THEN "ran" ELSE done[k]]
  /\ Goto(t, IF Top(t).next = None THEN "release" ELSE "push")
  /\ UNCHANGED <<program, queue, pool, cont, handle, fate, runs>>

\* Mutation of Drop: the reservation of the dropped continuation is kept.
DropKeeps(t) ==
  /\ At(t, "drop")
  /\ Goto(t, "drop_handle")
  /\ UNCHANGED <<program, queue, pool, holder, handles, runs>>

\* The queue is full: the continuation's reservation is given back ...
Drop(t) ==
  /\ At(t, "drop")
  /\ inflight' = inflight - 1
  /\ Goto(t, "drop_handle")
  /\ UNCHANGED <<program, queue, tokens, draining, stop, up, holder, handles, runs>>

\* Mutation of DropHandle: nobody tells the handle.
DropHandleSilent(t) ==
  /\ At(t, "drop_handle")
  /\ Goto(t, "release")
  /\ UNCHANGED <<program, queue, pool, holder, handles, runs>>

\* ... and its handle reports exit code -1, without the lock.
DropHandle(t) ==
  /\ At(t, "drop_handle")
  /\ done' = [done EXCEPT ![Top(t).next] = "dropped"]
  /\ Goto(t, "release")
  /\ UNCHANGED <<program, queue, pool, holder, cont, handle, fate, runs>>

(***************************************************************************)
(* Popping: high, normal, low, one try_pop after the other, by the worker  *)
(* loop and by a task that drains.  The frame that pops continues at after.*)
(***************************************************************************)
Poppable(l) == queue[l] # << >> /\ Head(queue[l]).ready

Pop(t, after, empty) ==
  LET l == Top(t).n IN
  \/ /\ Poppable(l)
     /\ queue' = [queue EXCEPT ![l] = Tail(@)]
     /\ LET k == Head(queue[l]).item IN
        /\ runs' = [runs EXCEPT ![k] = @ + 1]
        /\ stack' = [stack EXCEPT ![t] =
                       <<Frame(k, "call"), [Top(t) EXCEPT !.at = after, !.n = 1]>> \o Tail(@)]
  \/ /\ ~Poppable(l)
     /\ SetTop(t, IF l < 3 THEN [Top(t) EXCEPT !.n = @ + 1]
                           ELSE [Top(t) EXCEPT !.at = empty, !.n = 1])
     /\ UNCHANGED <<queue, runs>>

\* The worker loop.
WorkerTop(t) ==
  /\ At(t, "top")
  /\ Goto(t, IF stop THEN "gone" ELSE "acquire")
  /\ UNCHANGED <<program, queue, pool, holder, handles, runs>>

Acquire(t) ==
  /\ At(t, "acquire")
  /\ tokens > 0
  /\ tokens' = tokens - 1
  /\ Goto(t, "check")
  /\ UNCHANGED <<program, queue, inflight, draining, stop, up, holder, handles, runs>>

Check(t) ==
  /\ At(t, "check")
  /\ Goto(t, IF stop THEN "gone" ELSE "pop")
  /\ UNCHANGED <<program, queue, pool, holder, handles, runs>>

WorkerPop(t) ==
  /\ At(t, "pop")
  /\ Pop(t, "top", "forward")
  /\ UNCHANGED <<program, pool, holder, handles>>

\* A token without a task: forward it, so that another worker can retry.
Forward(t) ==
  /\ At(t, "forward")
  /\ tokens' = tokens + 1
  /\ Goto(t, "top")
  /\ UNCHANGED <<program, queue, inflight, draining, stop, up, holder, handles, runs>>

(***************************************************************************)
(* drain() on a thread outside the pool, and the first step of shutdown(). *)
(***************************************************************************)
StartDrain(t) ==
  /\ t \in Users
  /\ InCall(t, {"drain", "shutdown"})
  /\ SetTop(t, [Top(t) EXCEPT !.at = "lock", !.owed = Accepted])
  /\ UNCHANGED <<program, queue, pool, holder, handles, runs>>

Lock(t) ==
  /\ At(t, "lock")
  /\ holder = None
  /\ holder' = t
  /\ Goto(t, "read")
  /\ UNCHANGED <<program, queue, pool, handles, runs>>

\* while (_inflight.read() > 0) under the lock.
ReadInflight(t) ==
  /\ At(t, "read")
  /\ IF inflight > 0
     THEN Goto(t, "sleep") /\ UNCHANGED holder
     ELSE /\ holder' = None
          /\ IF Call(t).op = "shutdown" THEN Goto(t, "stop") ELSE SetTop(t, NextCall(Top(t)))
  /\ UNCHANGED <<program, queue, pool, handles, runs>>

\* sleep_cv: release the lock and sleep in one step.
Sleep(t) ==
  /\ At(t, "sleep")
  /\ holder' = None
  /\ Goto(t, "asleep")
  /\ UNCHANGED <<program, queue, pool, handles, runs>>

\* A condition variable may wake a sleeper for no reason.
SpuriousWake(t) ==
  /\ At(t, "asleep")
  /\ Goto(t, "lock")
  /\ UNCHANGED <<program, queue, pool, holder, handles, runs>>

(***************************************************************************)
(* drain() on a worker: help with the queued tasks until only the draining *)
(* tasks themselves are in flight.                                         *)
(***************************************************************************)
JoinDrain(t) ==
  /\ t \in Workers
  /\ InCall(t, {"drain"})
  /\ draining' = draining + 1
  /\ SetTop(t, [Top(t) EXCEPT !.at = "help", !.owed = Accepted])
  /\ UNCHANGED <<program, queue, tokens, inflight, stop, up, holder, handles, runs>>

Help(t) ==
  /\ At(t, "help")
  /\ Pop(t, "help", "count_tasks")
  /\ UNCHANGED <<program, pool, holder, handles>>

\* The queues looked empty: read _inflight first ...
CountTasks(t) ==
  /\ At(t, "count_tasks")
  /\ SetTop(t, [Top(t) EXCEPT !.n = inflight, !.at = "count_drainers"])
  /\ UNCHANGED <<program, queue, pool, holder, handles, runs>>

\* ... and _drainingWorkers after it.
CountDrainers(t) ==
  /\ At(t, "count_drainers")
  /\ SetTop(t, [Top(t) EXCEPT !.n = 1,
                 !.at = IF Top(t).n <= draining THEN "leave_drain" ELSE "help"])
  /\ UNCHANGED <<program, queue, pool, holder, handles, runs>>

LeaveDrain(t) ==
  /\ At(t, "leave_drain")
  /\ draining' = draining - 1
  /\ SetTop(t, NextCall(Top(t)))
  /\ UNCHANGED <<program, queue, tokens, inflight, stop, up, holder, handles, runs>>

(***************************************************************************)
(* The rest of shutdown().                                                 *)
(***************************************************************************)
RequestStop(t) ==
  /\ At(t, "stop")
  /\ stop' = TRUE
  /\ Goto(t, "release_all")
  /\ UNCHANGED <<program, queue, tokens, inflight, draining, up, holder, handles, runs>>

ReleaseAll(t) ==
  /\ At(t, "release_all")
  /\ tokens' = tokens + Cardinality(Workers)
  /\ Goto(t, "join")
  /\ UNCHANGED <<program, queue, inflight, draining, stop, up, holder, handles, runs>>

Join(t) ==
  /\ At(t, "join")
  /\ \A w \in Workers : At(w, "gone")
  /\ up' = FALSE
  /\ tokens' = 0
  /\ queue' = [l \in Levels |-> << >>]
  /\ SetTop(t, NextCall(Top(t)))
  /\ UNCHANGED <<program, inflight, draining, stop, holder, handles, runs>>

\* wait() spins until done, and the owner then deletes the handle it was given.
Wait(t) ==
  /\ InCall(t, {"wait"})
  /\ LET k == Call(t).task IN
     \/ fate[k] = "refused" /\ UNCHANGED handle
     \/ done[k] # "no" /\ handle' = [handle EXCEPT ![k] = "deleted"]
  /\ SetTop(t, NextCall(Top(t)))
  /\ UNCHANGED <<program, queue, pool, holder, cont, done, fate, runs>>

-----------------------------------------------------------------------------
CallStep(t) ==
  \/ StartSubmit(t) \/ Reserve(t) \/ Register(t) \/ Push(t) \/ Publish(t) \/ Token(t)
  \/ Release(t) \/ Wake(t) \/ Wait(t)

DrainStep(t) ==
  \/ StartDrain(t) \/ Lock(t) \/ ReadInflight(t) \/ Sleep(t)
  \/ JoinDrain(t) \/ Help(t) \/ CountTasks(t) \/ CountDrainers(t) \/ LeaveDrain(t)

ShutdownStep(t) == RequestStop(t) \/ ReleaseAll(t) \/ Join(t)

WorkerStep(t) ==
  \/ WorkerTop(t) \/ Acquire(t) \/ Check(t) \/ WorkerPop(t) \/ Forward(t)
  \/ TakeContinuation(t) \/ PublishDone(t) \/ Drop(t) \/ DropHandle(t)

Step(t) == CallStep(t) \/ DrainStep(t) \/ ShutdownStep(t) \/ WorkerStep(t)

Next == \E t \in Threads : Step(t) \/ SpuriousWake(t)

Spec == Init /\ [][Next]_vars

\* Every thread that can run is eventually scheduled, and spurious wake-ups
\* do not go on for ever (each takes the lock that the others wait for).
FairSpec ==
  /\ Spec
  /\ \A t \in Threads : WF_vars(Step(t))
  /\ <>[][\A t \in Threads : ~SpuriousWake(t)]_vars

-----------------------------------------------------------------------------
Labels ==
  {"call", "reserve", "register", "push", "publish", "token", "release", "wake",
   "report", "drop", "drop_handle", "top", "acquire", "check", "pop", "forward", "gone",
   "lock", "read", "sleep", "asleep", "help", "count_tasks", "count_drainers",
   "leave_drain", "stop", "release_all", "join"}

Frames ==
  [who : Threads \union Tasks, ip : Nat, at : Labels, n : Int, next : Tasks \union {None},
   owed : SUBSET Tasks]

\* The type invariant.
TypeOK ==
  /\ program \in Programs
  /\ stack \in [Threads -> Seq(Frames)] /\ \A t \in Threads : stack[t] # << >>
  /\ queue \in [Levels -> Seq([item : Tasks, ready : BOOLEAN])]
  /\ tokens \in Nat /\ inflight \in Nat /\ draining \in Nat
  /\ stop \in BOOLEAN /\ up \in BOOLEAN
  /\ holder \in Threads \union {None}
  /\ cont \in [Tasks -> Tasks \union {None}]
  /\ done \in [Tasks -> {"no", "ran", "dropped"}]
  /\ handle \in [Tasks -> {"none", "live", "deleted"}]
  /\ fate \in [Tasks -> {"new", "accepted", "refused"}]
  /\ runs \in [Tasks -> Nat]


(***************************************************************************)
(* Where a submitted task can be: still with its submitter, in a queue,    *)
(* registered on the handle it waits for, in the hands of the worker that  *)
(* fires it, or on the stack of a thread.                                  *)
(***************************************************************************)
Submitting ==
  {Call(t).task : t \in {u \in Threads : /\ \E l \in {"register", "push", "release"} : At(u, l)
                                         /\ ~Finished(u)}}
Queued == UNION {{queue[l][i].item : i \in DOMAIN queue[l]} : l \in Levels}
Registered == {cont[k] : k \in Tasks} \ {None}
Fired(labels) ==
  {Top(t).next : t \in {u \in Threads : Finished(u) /\ \E l \in labels : At(u, l)}} \ {None}
Running ==
  {f.who : f \in UNION {{stack[t][i] : i \in DOMAIN stack[t]} : t \in Threads}} \intersect Tasks
Counted(k) == ~\E t \in Threads : Finished(t) /\ Top(t).who = k /\ At(t, "wake")

Outstanding ==
  Submitting \union Queued \union Registered \union Fired({"report", "push", "drop"})
    \union {k \in Running : Counted(k)}

(***************************************************************************)
(* _inflight counts exactly the tasks that are somewhere on their way, at  *)
(* every step: drain() can neither return early nor wait for nothing.      *)
(***************************************************************************)
InflightExact == inflight = Cardinality(Outstanding)

(***************************************************************************)
(* No task is run twice, and an accepted task that is nowhere any more has *)
(* run, or its handle says that it was dropped.                            *)
(***************************************************************************)
EveryTaskOnce ==
  \A k \in Tasks :
    /\ runs[k] <= 1
    /\ fate[k] = "accepted" /\ k \notin Outstanding \union Fired({"drop_handle"})
         => runs[k] = 1 \/ done[k] = "dropped"

(***************************************************************************)
(* A waiter may delete a handle as soon as it reports done, so by then     *)
(* nobody is going to touch it: the task is in no queue, registered        *)
(* nowhere, and a worker that still has it on its stack is past the        *)
(* publication ("LAST touch of h_ref").                                    *)
(***************************************************************************)
HandleAlive ==
  \A k \in Tasks : handle[k] = "deleted" =>
    /\ k \notin Queued \union Registered \union Fired({"report", "push", "drop", "drop_handle"})
    /\ cont[k] = None
    /\ \A t \in Threads : \A i \in DOMAIN stack[t] :
         stack[t][i].who = k =>
           stack[t][i].at \in {"push", "publish", "token", "drop", "drop_handle", "release", "wake"}

(***************************************************************************)
(* then() and the completing worker agree on who enqueues the              *)
(* continuation: none is left on a handle that already reports done        *)
(* ("never both, never neither").                                          *)
(***************************************************************************)
NeverNeither == \A k \in Tasks : cont[k] # None => done[k] = "no"

\* A continuation starts only after the task it was chained to has reported.
ContinuationAfterDep ==
  \A w \in Users \union Tasks : \A i \in DOMAIN program[w] :
    LET call == program[w][i] IN
    call.op = "then" /\ runs[call.task] > 0 => done[call.dep] # "no"

DrainLabels == {"help", "count_tasks", "count_drainers", "leave_drain"}
DrainingTasks ==
  {f.who : f \in {g \in UNION {{stack[t][i] : i \in DOMAIN stack[t]} : t \in Threads} :
                    g.at \in DrainLabels}}

(***************************************************************************)
(* drain() on a thread outside the pool returns, and shutdown() goes on to *)
(* stop the workers, only when no task is on its way: none is queued, runs *)
(* or waits for another to finish, and nobody is about to push one.        *)
(***************************************************************************)
DrainReturns(t) == At(t, "read") /\ Head(stack'[t]).at \in {"call", "stop"}

DrainCompletes == [][\A t \in Users : DrainReturns(t) => Outstanding = {}]_vars

(***************************************************************************)
(* drain() on a worker returns only when every task that had been accepted *)
(* when it was called is finished, or itself inside drain() ("Block until  *)
(* every submitted task has finished executing").  The code breaks this,   *)
(* as it reads the two counters one after the other.                       *)
(***************************************************************************)
WorkerDrainReturns(t) == At(t, "count_drainers") /\ Head(stack'[t]).at = "leave_drain"

WorkerDrainCompletes ==
  [][\A t \in Workers :
       WorkerDrainReturns(t) => Top(t).owed \intersect Outstanding \subseteq DrainingTasks]_vars

(***************************************************************************)
(* Every wait(), drain() and shutdown() returns: no wake-up is lost, no    *)
(* reservation is leaked, and no worker sleeps through the stop.           *)
(***************************************************************************)
EveryCallReturns == <>(\A u \in Users : At(u, "call") /\ Top(u).ip > Len(program[u]))

(***************************************************************************)
(* A token is paired with a task: with nothing in flight, no token is left *)
(* that would keep an idle worker spinning.                                *)
(***************************************************************************)
IdleWorkersSleep == inflight = 0 /\ ~stop => tokens = 0

(***************************************************************************)
(* A pool that has shut down has run what it accepted.                     *)
(***************************************************************************)
ShutdownLosesNothing ==
  ~up => \A k \in Tasks : fate[k] = "accepted" => runs[k] = 1 \/ done[k] = "dropped"
=============================================================================
