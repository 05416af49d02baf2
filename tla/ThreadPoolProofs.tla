-------------------------- MODULE ThreadPoolProofs --------------------------
(***************************************************************************)
(* Proofs about ThreadPool, for any users, workers, tasks, programs and    *)
(* queue capacity.                                                         *)
(***************************************************************************)
EXTENDS ThreadPool, FiniteSetTheorems, TLAPS

(***************************************************************************)
(* Where the frames of a thread are: the bottom frame is the thread's own, *)
(* the others run a task each, and only the topmost is inside a call other *)
(* than drain().                                                           *)
(***************************************************************************)
WorkerLabels == {"top", "acquire", "check", "pop", "forward", "gone"}
SubmitLabels == {"reserve", "register", "push", "publish", "token", "release", "wake"}
FinishLabels == {"report", "drop", "drop_handle"}

FrameRight(t, i) ==
  LET f == stack[t][i] IN
  /\ i = Len(stack[t]) => f.who = t /\ (t \in Workers => f.at \in WorkerLabels)
  /\ i < Len(stack[t]) => f.who \in Tasks /\ t \in Workers /\ f.at \notin WorkerLabels
  /\ i > 1 => f.at \in {"top", "help"}
  /\ f.at \in WorkerLabels => t \in Workers
  /\ f.at \in DrainLabels => i < Len(stack[t])

\* A task is on one stack, once.
StacksRight ==
  /\ \A t \in Threads : \A i \in DOMAIN stack[t] : FrameRight(t, i)
  /\ \A t, u \in Threads : \A i \in DOMAIN stack[t], j \in DOMAIN stack[u] :
       stack[t][i].who = stack[u][j].who => t = u /\ i = j

\* A submission is made by a call for it, or by a task that has finished.
InSubmission(t) ==
  /\ Top(t).who \in Users \union Tasks
  /\ Top(t).ip \in DOMAIN program[Top(t).who]
  /\ Call(t).op \in Submissions

CallRight(t) ==
  /\ Top(t).at \in SubmitLabels => Finished(t) \/ InSubmission(t)
  /\ Top(t).at \in {"reserve", "register"} => ~Finished(t)
  /\ At(t, "register") => Call(t).op = "then"
  /\ Top(t).at \in FinishLabels => Finished(t)
  /\ Finished(t) /\ Top(t).at \in {"push", "publish", "drop", "drop_handle"} => Top(t).next \in Tasks

(***************************************************************************)
(* Where a task can be: with its submitter, in a queue, on the handle it   *)
(* waits for, with the worker that fires it, or on a stack.                *)
(***************************************************************************)
Sub(t) ==
  IF ~Finished(t) /\ Top(t).at \in {"reserve", "register", "push", "release"}
  THEN Call(t).task ELSE None
Nxt(t) ==
  IF Finished(t) /\ Top(t).at \in {"report", "push", "drop", "drop_handle"}
  THEN Top(t).next ELSE None

Queues(k) == \E l \in Levels : \E i \in DOMAIN queue[l] : queue[l][i].item = k
OnStack(k) == \E t \in Threads : \E i \in DOMAIN stack[t] : stack[t][i].who = k

Places == {"submit", "queue", "cont", "next", "stack"}
In(k, place) ==
  \/ place = "submit" /\ \E t \in Threads : Sub(t) = k
  \/ place = "queue" /\ Queues(k)
  \/ place = "cont" /\ \E d \in Tasks : cont[d] = k
  \/ place = "next" /\ \E t \in Threads : Nxt(t) = k
  \/ place = "stack" /\ OnStack(k)

\* A queue, a handle or a worker has a task once.
OnceQueued ==
  \A l, m \in Levels : \A i \in DOMAIN queue[l], j \in DOMAIN queue[m] :
    queue[l][i].item = queue[m][j].item => l = m /\ i = j
OnceRegistered == \A d, e \in Tasks : cont[d] = cont[e] /\ cont[d] # None => d = e
OnceFired == \A t, u \in Threads : Nxt(t) = Nxt(u) /\ Nxt(t) # None => t = u
OnceThere == OnceQueued /\ OnceRegistered /\ OnceFired

\* A task is in one place, and has not been run before it got to the stack.
OnePlace(k) == \A x, y \in Places : In(k, x) /\ In(k, y) => x = y
RunsRight(k) ==
  /\ runs[k] \in {0, 1}
  /\ \A x \in Places : In(k, x) => runs[k] = (IF x = "stack" THEN 1 ELSE 0)

\* A call that is still to come submits a task that is nowhere yet.
Submits(w, i, k) ==
  /\ w \in Users \union Tasks
  /\ i \in DOMAIN program[w]
  /\ program[w][i].op \in Submissions
  /\ program[w][i].task = k

Ahead(w, i) ==
  \/ w \in Tasks /\ ~OnStack(w) /\ runs[w] = 0
  \/ \E t \in Threads : \E j \in DOMAIN stack[t] :
       LET f == stack[t][j] IN f.who = w /\ (f.ip < i \/ (f.ip = i /\ f.at = "call"))

Nowhere(k) == runs[k] = 0 /\ \A x \in Places : ~In(k, x)
Fresh(k) ==
  (\E w \in Users \union Tasks : \E i \in DOMAIN program[w] : Submits(w, i, k) /\ Ahead(w, i))
    => Nowhere(k)

\* What has been accepted, or is about to be, is somewhere or has been run.
Entered(t) == IF ~Finished(t) /\ Top(t).at \in {"publish", "token"} THEN Call(t).task ELSE None
Known(k) == fate[k] = "accepted" \/ \E t \in Threads : Entered(t) = k
NotLost(k) ==
  up /\ Known(k) =>
    runs[k] = 1 \/ done[k] = "dropped" \/ In(k, "queue") \/ In(k, "cont") \/ In(k, "next")

\* A task on its way has its handle, unless it is detached.
Detached(k) ==
  \E w \in Users \union Tasks : \E i \in DOMAIN program[w] :
    program[w][i].op = "detach" /\ program[w][i].task = k
HandleKept(k) == (\E x \in Places : In(k, x)) => handle[k] # "none" \/ Detached(k)

\* A continuation waits on the handle of its dependency, or that has reported.
FollowsDep(d, k) ==
  /\ Queues(k) \/ runs[k] > 0 => done[d] # "no"
  /\ \A c \in Tasks : cont[c] = k => c = d
  /\ \A t \in Threads :
       /\ Nxt(t) = k => IF At(t, "report") THEN Top(t).who = d ELSE done[d] # "no"
       /\ Sub(t) = k /\ At(t, "push") => done[d] # "no"

Chained(d, k) ==
  \E w \in Users \union Tasks : \E i \in DOMAIN program[w] :
    program[w][i].op = "then" /\ program[w][i].dep = d /\ program[w][i].task = k
Follows(k) == \A d \in Tasks : Chained(d, k) => FollowsDep(d, k)

TaskRight(k) ==
  OnePlace(k) /\ RunsRight(k) /\ Fresh(k) /\ NotLost(k) /\ HandleKept(k) /\ Follows(k)

\* _inflight and _drainingWorkers count; a shutdown may lose what is queued.
CountsRight ==
  /\ IsFiniteSet(Outstanding)
  /\ inflight >= Cardinality(Outstanding)
  /\ up => inflight = Cardinality(Outstanding)

DrainersRight ==
  /\ IsFiniteSet(DrainingTasks)
  /\ draining = Cardinality(DrainingTasks)

PoolInv ==
  /\ StacksRight
  /\ \A t \in Threads : CallRight(t)
  /\ OnceThere
  /\ \A k \in Tasks : TaskRight(k)
  /\ CountsRight /\ DrainersRight

-----------------------------------------------------------------------------
(* Stacks. *)

LEMMA SeqElement ==
  ASSUME NEW S, NEW s \in Seq(S), NEW i \in DOMAIN s
  PROVE  s[i] \in S /\ i \in 1 .. Len(s)
OBVIOUS

LEMMA TopType ==
  ASSUME TypeOK, NEW t \in Threads
  PROVE  /\ stack[t] \in Seq(Frames) /\ Len(stack[t]) \in Nat \ {0}
         /\ Top(t) = stack[t][1] /\ Top(t) \in Frames /\ 1 \in DOMAIN stack[t]
         /\ Top(t).who \in Threads \union Tasks /\ Top(t).ip \in Nat /\ Top(t).at \in Labels
         /\ Top(t).n \in Int /\ Top(t).next \in Tasks \union {None}
         /\ Top(t).owed \in SUBSET Tasks
<1>1. stack[t] \in Seq(Frames) /\ stack[t] # << >>  BY DEF TypeOK
<1>2. Len(stack[t]) \in Nat \ {0} /\ Head(stack[t]) = stack[t][1] /\ 1 \in DOMAIN stack[t]
      /\ stack[t][1] \in Frames
  BY <1>1
<1> QED  BY <1>1, <1>2 DEF Top, Frames

LEMMA NewTop ==
  ASSUME NEW S, NEW s \in Seq(S), s # << >>, NEW f \in S
  PROVE  LET r == <<f>> \o Tail(s) IN
         /\ r \in Seq(S) /\ r # << >> /\ Len(r) = Len(s) /\ Head(r) = f /\ r[1] = f
         /\ \A i \in 2 .. Len(s) : r[i] = s[i]
OBVIOUS

LEMMA SetTopEffect ==
  ASSUME TypeOK, NEW t \in Threads, NEW f \in Frames, SetTop(t, f)
  PROVE  /\ stack' \in [Threads -> Seq(Frames)] /\ \A u \in Threads : stack'[u] # << >>
         /\ Top(t)' = f /\ stack'[t][1] = f /\ Len(stack'[t]) = Len(stack[t])
         /\ \A i \in 2 .. Len(stack[t]) : stack'[t][i] = stack[t][i]
         /\ \A u \in Threads \ {t} : stack'[u] = stack[u]
<1>1. stack \in [Threads -> Seq(Frames)] /\ \A u \in Threads : stack[u] # << >>  BY DEF TypeOK
<1>2. PICK r : r = <<f>> \o Tail(stack[t])  OBVIOUS
<1>3. /\ r \in Seq(Frames) /\ r # << >> /\ Len(r) = Len(stack[t]) /\ Head(r) = f /\ r[1] = f
      /\ \A i \in 2 .. Len(stack[t]) : r[i] = stack[t][i]
  BY <1>1, <1>2, NewTop
<1>4. stack' = [stack EXCEPT ![t] = r]  BY <1>2 DEF SetTop
<1> QED  BY <1>1, <1>3, <1>4 DEF Top

\* The frames that the code makes from the topmost one.
LEMMA Relabelled ==
  ASSUME NEW f \in Frames, NEW a \in Labels, NEW g, g = [f EXCEPT !.at = a]
  PROVE  /\ g \in Frames /\ g.at = a /\ g.who = f.who /\ g.ip = f.ip
         /\ g.next = f.next /\ g.n = f.n /\ g.owed = f.owed
BY DEF Frames

LEMMA NextCallFrame ==
  ASSUME NEW f \in Frames
  PROVE  /\ NextCall(f) \in Frames /\ NextCall(f).at = "call" /\ NextCall(f).who = f.who
         /\ NextCall(f).ip = f.ip + 1 /\ NextCall(f).next = f.next /\ NextCall(f).n = 1
<1>0. f.ip + 1 \in Nat  BY DEF Frames
<1>1. f.ip + 1 \in Nat /\ "call" \in Labels /\ {} \in SUBSET Tasks /\ 1 \in Int
  BY <1>0 DEF Labels
<1>2. PICK ip, a, owed, n : ip = f.ip + 1 /\ a = "call" /\ owed = {} /\ n = 1  OBVIOUS
<1>3. NextCall(f) = [f EXCEPT !.ip = ip, !.at = a, !.n = n, !.owed = owed]  BY <1>2 DEF NextCall
<1>4. ip \in Nat /\ a \in Labels /\ owed \in SUBSET Tasks /\ n \in Int  BY <1>1, <1>2
<1>5. /\ NextCall(f) \in Frames /\ NextCall(f).at = a /\ NextCall(f).who = f.who
      /\ NextCall(f).ip = ip /\ NextCall(f).next = f.next /\ NextCall(f).n = n
  BY <1>3, <1>4 DEF Frames
<1> QED  BY <1>2, <1>5

LEMMA GotoEffect ==
  ASSUME TypeOK, NEW t \in Threads, NEW a \in Labels, Goto(t, a)
  PROVE  \E g \in Frames : /\ SetTop(t, g) /\ g.at = a /\ g.who = Top(t).who /\ g.ip = Top(t).ip
                           /\ g.next = Top(t).next
<1>1. PICK g : g = [Top(t) EXCEPT !.at = a]  OBVIOUS
<1>2. SetTop(t, g)  BY <1>1 DEF Goto
<1> QED  BY <1>1, <1>2, TopType, Relabelled

(***************************************************************************)
(* A step of thread t that replaces its topmost frame f by g.              *)
(***************************************************************************)
Moves(t, g) ==
  /\ SetTop(t, g)
  /\ g.who = Top(t).who
  /\ g.at \in WorkerLabels <=> Top(t).at \in WorkerLabels
  /\ g.at \in DrainLabels => Len(stack[t]) > 1
  /\ \/ g.ip = Top(t).ip /\ g.at # "call"
     \/ g.ip = Top(t).ip + 1

LEMMA MovedFrames ==
  ASSUME TypeOK, NEW t \in Threads, NEW g \in Frames, Moves(t, g)
  PROVE  /\ stack' \in [Threads -> Seq(Frames)] /\ \A u \in Threads : stack'[u] # << >>
         /\ stack'[t][1] = g /\ Top(t)' = g
         /\ \A u \in Threads : Len(stack'[u]) = Len(stack[u]) /\ DOMAIN stack'[u] = DOMAIN stack[u]
         /\ \A u \in Threads : \A i \in DOMAIN stack[u] :
              /\ stack'[u][i].who = stack[u][i].who
              /\ ~(u = t /\ i = 1) => stack'[u][i] = stack[u][i]
         /\ \A u \in Threads \ {t} : stack'[u] = stack[u]
<1>1. /\ stack'[t][1] = g /\ Len(stack'[t]) = Len(stack[t]) /\ Top(t)' = g
      /\ \A i \in 2 .. Len(stack[t]) : stack'[t][i] = stack[t][i]
      /\ \A u \in Threads \ {t} : stack'[u] = stack[u]
      /\ stack' \in [Threads -> Seq(Frames)] /\ \A u \in Threads : stack'[u] # << >>
  BY SetTopEffect DEF Moves
<1>2. stack \in [Threads -> Seq(Frames)] /\ Top(t) = stack[t][1] /\ Len(stack[t]) \in Nat \ {0}
  BY TopType DEF TypeOK
<1>3. \A u \in Threads : Len(stack'[u]) = Len(stack[u]) /\ DOMAIN stack'[u] = DOMAIN stack[u]
  <2>1. stack[t] \in Seq(Frames) /\ stack'[t] \in Seq(Frames)  BY <1>1, <1>2
  <2>2. Len(stack'[t]) = Len(stack[t]) /\ DOMAIN stack'[t] = DOMAIN stack[t]
    BY <1>1, <2>1
  <2> QED  BY <1>1, <2>2
<1>4. ASSUME NEW i \in DOMAIN stack[t]
      PROVE  /\ stack'[t][i].who = stack[t][i].who
             /\ i # 1 => stack'[t][i] = stack[t][i]
  <2>1. i \in 1 .. Len(stack[t])  BY <1>2
  <2>2. i = 1 \/ i \in 2 .. Len(stack[t])  BY <1>2, <2>1
  <2> QED  BY <1>1, <1>2, <2>2 DEF Moves
<1>5. \A u \in Threads : \A i \in DOMAIN stack[u] :
        /\ stack'[u][i].who = stack[u][i].who
        /\ ~(u = t /\ i = 1) => stack'[u][i] = stack[u][i]
  <2>1. ASSUME NEW u \in Threads \ {t}, NEW i \in DOMAIN stack[u]
        PROVE  stack'[u][i] = stack[u][i]
    BY <1>1
  <2> QED  BY <1>4, <2>1
<1> QED  BY <1>1, <1>3, <1>5

LEMMA MovedStacks ==
  ASSUME TypeOK, StacksRight, NEW t \in Threads, NEW g \in Frames, Moves(t, g)
  PROVE  StacksRight'
<1>1. Top(t) = stack[t][1] /\ 1 \in DOMAIN stack[t]  BY TopType
<1>2. ASSUME NEW u \in Threads, NEW i \in DOMAIN stack'[u]  PROVE FrameRight(u, i)'
  <2>1. Len(stack'[u]) = Len(stack[u]) /\ i \in DOMAIN stack[u]  BY <1>2, MovedFrames
  <2>2. FrameRight(u, i)  BY <2>1 DEF StacksRight
  <2>3. CASE u = t /\ i = 1
    <3>1. stack'[t][1] = g /\ g.who = stack[t][1].who  BY <1>1, MovedFrames DEF Moves
    <3>2. Len(stack[t]) \in Nat \ {0}  BY TopType
    <3> QED  BY <1>1, <2>1, <2>2, <2>3, <3>1, <3>2 DEF FrameRight, Moves
  <2>4. CASE ~(u = t /\ i = 1)
    <3>1. stack'[u][i] = stack[u][i]  BY <2>1, <2>4, MovedFrames
    <3> QED  BY <2>1, <2>2, <3>1 DEF FrameRight
  <2> QED  BY <2>3, <2>4
<1>3. \A u, v \in Threads : \A i \in DOMAIN stack'[u], j \in DOMAIN stack'[v] :
        stack'[u][i].who = stack'[v][j].who => u = v /\ i = j
  BY MovedFrames DEF StacksRight
<1> QED  BY <1>2, <1>3 DEF StacksRight

LEMMA MovedOnStack ==
  ASSUME TypeOK, NEW t \in Threads, NEW g \in Frames, Moves(t, g), NEW k
  PROVE  OnStack(k)' <=> OnStack(k)
BY MovedFrames DEF OnStack

LEMMA MovedAhead ==
  ASSUME TypeOK, NEW t \in Threads, NEW g \in Frames, Moves(t, g), runs' = runs,
         NEW w, NEW i \in Nat, Ahead(w, i)'
  PROVE  Ahead(w, i)
<1>1. CASE w \in Tasks /\ ~OnStack(w)' /\ runs'[w] = 0
  BY <1>1, MovedOnStack DEF Ahead
<1>2. ASSUME NEW u \in Threads, NEW j \in DOMAIN stack'[u], stack'[u][j].who = w,
             stack'[u][j].ip < i \/ (stack'[u][j].ip = i /\ stack'[u][j].at = "call")
      PROVE  Ahead(w, i)
  <2>1. j \in DOMAIN stack[u]  BY <1>2, MovedFrames
  <2>2. CASE u = t /\ j = 1
    <3>1. /\ stack'[t][1] = g /\ Top(t) = stack[t][1] /\ Top(t).ip \in Nat
      BY MovedFrames, TopType
    <3>2. Top(t).who = w /\ (g.ip < i \/ (g.ip = i /\ g.at = "call"))
      BY <1>2, <2>2, <3>1 DEF Moves
    <3>3. Top(t).ip < i  BY <3>1, <3>2 DEF Moves
    <3> QED  BY <2>1, <2>2, <3>1, <3>2, <3>3 DEF Ahead
  <2>3. CASE ~(u = t /\ j = 1)
    <3>1. stack'[u][j] = stack[u][j]  BY <2>1, <2>3, MovedFrames
    <3> QED  BY <1>2, <2>1, <3>1 DEF Ahead
  <2> QED  BY <2>2, <2>3
<1> QED  BY <1>1, <1>2 DEF Ahead

-----------------------------------------------------------------------------
(* The threads that do not move. *)

LEMMA OtherThread ==
  ASSUME NEW u \in Threads, stack'[u] = stack[u], program' = program
  PROVE  /\ Top(u)' = Top(u) /\ Finished(u)' = Finished(u) /\ Call(u)' = Call(u)
         /\ Sub(u)' = Sub(u) /\ Nxt(u)' = Nxt(u) /\ Entered(u)' = Entered(u)
         /\ CallRight(u) => CallRight(u)'
<1>1. Top(u)' = Top(u)  BY DEF Top
<1>2. Finished(u)' = Finished(u) /\ Call(u)' = Call(u)  BY <1>1 DEF Finished, Call
<1> QED
  BY <1>1, <1>2 DEF Sub, Nxt, Entered, CallRight, InSubmission, At

\* A thread that stays in its call, and one that goes on to the next.
LEMMA SameCall ==
  ASSUME NEW t \in Threads, NEW g, Top(t)' = g, program' = program,
         g.who = Top(t).who, g.ip = Top(t).ip
  PROVE  /\ Finished(t)' = Finished(t) /\ Call(t)' = Call(t)
         /\ InSubmission(t) => InSubmission(t)'
BY DEF Finished, Call, InSubmission

NeutralLabels == Labels \ (SubmitLabels \union FinishLabels)

LEMMA Neutral ==
  ASSUME NEW t \in Threads, Top(t).at \in NeutralLabels
  PROVE  /\ Sub(t) = None /\ Nxt(t) = None /\ Entered(t) = None /\ CallRight(t)
         /\ ~At(t, "wake") /\ ~At(t, "report") /\ ~At(t, "push")
BY DEF NeutralLabels, SubmitLabels, FinishLabels, Sub, Nxt, Entered, CallRight, At

LEMMA SubmittedTask ==
  ASSUME TypeOK, NEW t \in Threads, InSubmission(t)
  PROVE  /\ Call(t).task \in Tasks /\ Submits(Top(t).who, Top(t).ip, Call(t).task)
         /\ Top(t).who \in DOMAIN program /\ Top(t).ip \in DOMAIN program[Top(t).who]
         /\ Call(t).op = "then" => Call(t).dep \in Tasks
<1>1. program \in Programs  BY DEF TypeOK
<1>2. /\ DOMAIN program = Users \union Tasks
      /\ \A w \in DOMAIN program : program[w] \in Seq(Calls)
  BY <1>1, ThreadPoolAssumption
<1>3. Call(t) \in Calls /\ Call(t).op \in Submissions
  BY <1>2 DEF InSubmission, Call
<1>4. Call(t).task \in Tasks /\ (Call(t).op = "then" => Call(t).dep \in Tasks)
  BY <1>3 DEF Calls, Submissions
<1> QED  BY <1>2, <1>3, <1>4 DEF InSubmission, Submits, Call

LEMMA StatusType ==
  ASSUME TypeOK, NEW t \in Threads, CallRight(t)
  PROVE  /\ Sub(t) \in Tasks \union {None} /\ Nxt(t) \in Tasks \union {None}
         /\ Entered(t) \in Tasks \union {None}
BY SubmittedTask, TopType DEF Sub, Nxt, Entered, CallRight, SubmitLabels

\* A submission is made by one call, and that by one thread.
LEMMA OneSubmitter ==
  ASSUME TypeOK, StacksRight, NEW t \in Threads, NEW u \in Threads,
         InSubmission(t), InSubmission(u), Call(t).task = Call(u).task
  PROVE  t = u
<1>1. Top(t).who = Top(u).who
  <2>1. program \in Programs  BY DEF TypeOK
  <2> QED  BY <2>1, SubmittedTask, OneSubmissionEach DEF Submits
<1> QED  BY <1>1, TopType DEF StacksRight

-----------------------------------------------------------------------------
(* The sets that the counters stand for. *)

Out(k) ==
  \/ \E t \in Threads : Sub(t) = k /\ ~At(t, "reserve")
  \/ Queues(k)
  \/ \E d \in Tasks : cont[d] = k
  \/ \E t \in Threads : Nxt(t) = k /\ ~At(t, "drop_handle")
  \/ OnStack(k) /\ Counted(k)

LEMMA OutMember ==
  ASSUME TypeOK, \A t \in Threads : CallRight(t)
  PROVE  Outstanding = {k \in Tasks : Out(k)}
<1>0. None \notin Tasks  BY ThreadPoolAssumption
<1>1. Submitting = {k \in Tasks : \E t \in Threads : Sub(t) = k /\ ~At(t, "reserve")}
  <2>1. ASSUME NEW t \in Threads, \E l \in {"register", "push", "release"} : At(t, l), ~Finished(t)
        PROVE  Call(t).task \in Tasks /\ Sub(t) = Call(t).task /\ ~At(t, "reserve")
    BY <2>1, SubmittedTask DEF Sub, CallRight, SubmitLabels, At
  <2>2. ASSUME NEW t \in Threads, NEW k \in Tasks, Sub(t) = k, ~At(t, "reserve")
        PROVE  /\ \E l \in {"register", "push", "release"} : At(t, l)
               /\ ~Finished(t) /\ k = Call(t).task
    BY <1>0, <2>2 DEF Sub, At
  <2> QED  BY <2>1, <2>2 DEF Submitting
<1>2. Queued = {k \in Tasks : Queues(k)}
  <2>1. ASSUME NEW l \in Levels, NEW i \in DOMAIN queue[l]  PROVE queue[l][i].item \in Tasks
    <3>1. queue[l] \in Seq([item : Tasks, ready : BOOLEAN])  BY DEF TypeOK
    <3>2. queue[l][i] \in [item : Tasks, ready : BOOLEAN]  BY <3>1, SeqElement
    <3> QED  BY <3>2
  <2> QED  BY <2>1 DEF Queued, Queues
<1>3. Registered = {k \in Tasks : \E d \in Tasks : cont[d] = k}
  BY <1>0 DEF Registered, TypeOK
<1>4. Fired({"report", "push", "drop"})
        = {k \in Tasks : \E t \in Threads : Nxt(t) = k /\ ~At(t, "drop_handle")}
  <2>1. ASSUME NEW t \in Threads, Finished(t), \E l \in {"report", "push", "drop"} : At(t, l),
               Top(t).next # None
        PROVE  Top(t).next \in Tasks /\ Nxt(t) = Top(t).next /\ ~At(t, "drop_handle")
    BY <2>1, TopType DEF Nxt, At
  <2>2. ASSUME NEW t \in Threads, NEW k \in Tasks, Nxt(t) = k, ~At(t, "drop_handle")
        PROVE  /\ Finished(t) /\ \E l \in {"report", "push", "drop"} : At(t, l)
               /\ Top(t).next = k /\ Top(t).next # None
    BY <1>0, <2>2 DEF Nxt, At
  <2> QED  BY <2>1, <2>2 DEF Fired
<1>5. {k \in Running : Counted(k)} = {k \in Tasks : OnStack(k) /\ Counted(k)}
  BY DEF Running, OnStack
<1> QED  BY <1>1, <1>2, <1>3, <1>4, <1>5 DEF Outstanding, Out

LEMMA OutMembership ==
  TypeOK /\ (\A u \in Threads : CallRight(u)) => Outstanding = {k \in Tasks : Out(k)}
BY OutMember

LEMMA DrainMember ==
  \A w : w \in DrainingTasks <=>
    \E t \in Threads : \E i \in DOMAIN stack[t] : stack[t][i].who = w /\ stack[t][i].at \in DrainLabels
BY DEF DrainingTasks

-----------------------------------------------------------------------------
(***************************************************************************)
(* A step of thread t concerns the task k0 (or none): the status of the    *)
(* other threads, and where the other tasks are, does not change.          *)
(***************************************************************************)
Leaving(t) == IF Finished(t) /\ At(t, "wake") THEN Top(t).who ELSE None

Quiet(u) ==
  /\ Sub(u)' = Sub(u) /\ Nxt(u)' = Nxt(u)
  /\ Entered(u)' = Entered(u) /\ Leaving(u)' = Leaving(u)
  /\ \A l \in {"reserve", "push", "report", "drop_handle"} : At(u, l)' <=> At(u, l)
  /\ Top(u).who' = Top(u).who
  /\ CallRight(u) => CallRight(u)'

Acts(t, k0) ==
  /\ Sub(t) \in {k0, None} /\ Sub(t)' \in {k0, None}
  /\ Nxt(t) \in {k0, None} /\ Nxt(t)' \in {k0, None}
  /\ Entered(t) \in {k0, None} /\ Entered(t)' \in {k0, None}
  /\ Leaving(t) \in {k0, None} /\ Leaving(t)' \in {k0, None}

Spared(k) ==
  /\ runs'[k] = runs[k]
  /\ OnStack(k)' <=> OnStack(k)
  /\ Queues(k)' => Queues(k)
  /\ up' => (Queues(k) => Queues(k)')
  /\ \A d \in Tasks : cont'[d] = k <=> cont[d] = k
  /\ fate'[k] = "accepted" => fate[k] = "accepted"
  /\ handle[k] # "none" => handle'[k] # "none"
  /\ done[k] = "dropped" => done'[k] = "dropped" \/ runs[k] = 1

Concerns(t, k0) ==
  /\ program' = program
  /\ up' => up
  /\ \A u \in Threads \ {t} : Quiet(u)
  /\ Acts(t, k0)
  /\ \A k \in Tasks \ {k0} : Spared(k)
  /\ \A d \in Tasks : done[d] # "no" => done'[d] # "no"
  /\ \A w \in Users \union Tasks : \A i \in Nat : Ahead(w, i)' => Ahead(w, i)

LEMMA CountedStatus ==
  ASSUME NEW k \in Tasks
  PROVE  Counted(k) <=> ~\E t \in Threads : Leaving(t) = k
<1>1. k # None  BY ThreadPoolAssumption
<1> QED  BY <1>1 DEF Counted, Leaving

LEMMA Elsewhere ==
  ASSUME NEW t \in Threads, NEW k0, Concerns(t, k0), NEW k \in Tasks, k # k0
  PROVE  /\ \A x \in Places : In(k, x)' => In(k, x)
         /\ up' => \A x \in Places : In(k, x) => In(k, x)'
         /\ Out(k)' => Out(k)
         /\ up' => (Out(k) => Out(k)')
         /\ Known(k)' => Known(k)
<1>0. k # None  BY ThreadPoolAssumption
<1>1. /\ Sub(t) # k /\ Sub(t)' # k /\ Nxt(t) # k /\ Nxt(t)' # k
      /\ Entered(t) # k /\ Entered(t)' # k /\ Leaving(t) # k /\ Leaving(t)' # k
  BY <1>0 DEF Concerns, Acts
<1>2. Spared(k)  BY DEF Concerns
<1>3. \A u \in Threads : /\ Sub(u)' = k <=> Sub(u) = k
                         /\ Nxt(u)' = k <=> Nxt(u) = k
                         /\ Entered(u)' = k <=> Entered(u) = k
                         /\ Leaving(u)' = k <=> Leaving(u) = k
                         /\ Sub(u)' = k /\ ~At(u, "reserve")' <=> Sub(u) = k /\ ~At(u, "reserve")
                         /\ Nxt(u)' = k /\ ~At(u, "drop_handle")'
                              <=> Nxt(u) = k /\ ~At(u, "drop_handle")
  <2>1. ASSUME NEW u \in Threads \ {t}
        PROVE /\ Sub(u)' = Sub(u) /\ Nxt(u)' = Nxt(u)
              /\ Entered(u)' = Entered(u) /\ Leaving(u)' = Leaving(u)
              /\ At(u, "reserve")' <=> At(u, "reserve")
              /\ At(u, "drop_handle")' <=> At(u, "drop_handle")
    BY DEF Concerns, Quiet
  <2> QED  BY <1>1, <2>1
<1>4. (\E d \in Tasks : cont'[d] = k) <=> (\E d \in Tasks : cont[d] = k)  BY <1>2 DEF Spared
<1>5. Counted(k)' <=> Counted(k)
  <2>1. Counted(k) <=> ~\E u \in Threads : Leaving(u) = k  BY CountedStatus
  <2>2. Counted(k)' <=> ~\E u \in Threads : Leaving(u)' = k
    <3>1. Counted(k)' <=> ~\E u \in Threads : (Leaving(u) = k)'  BY <1>0 DEF Counted, Leaving
    <3> QED  BY <3>1
  <2> QED  BY <1>3, <2>1, <2>2
<1>6. \A x \in Places : In(k, x)' => In(k, x)  BY <1>2, <1>3, <1>4 DEF In, Spared
<1>7. up' => \A x \in Places : In(k, x) => In(k, x)'  BY <1>2, <1>3, <1>4 DEF In, Spared
<1>8. (Out(k)' => Out(k)) /\ (up' => (Out(k) => Out(k)'))
  BY <1>2, <1>3, <1>4, <1>5 DEF Out, Spared
<1>9. Known(k)' => Known(k)  BY <1>2, <1>3 DEF Known, Spared
<1> QED  BY <1>6, <1>7, <1>8, <1>9

\* The calls that are made stay the same.
LEMMA SamePrograms ==
  ASSUME program' = program
  PROVE  /\ \A w, i, k : Submits(w, i, k)' <=> Submits(w, i, k)
         /\ \A k : Detached(k)' <=> Detached(k)
         /\ \A d, k : Chained(d, k)' <=> Chained(d, k)
BY DEF Submits, Detached, Chained

LEMMA Spares ==
  ASSUME TypeOK, PoolInv, NEW t \in Threads, NEW k0, Concerns(t, k0), NEW k \in Tasks, k # k0
  PROVE  TaskRight(k)'
<1>1. TaskRight(k) /\ Spared(k)  BY DEF PoolInv, Concerns
<1>2. /\ \A x \in Places : In(k, x)' => In(k, x)
      /\ up' => \A x \in Places : In(k, x) => In(k, x)'
      /\ Known(k)' => Known(k)
  BY Elsewhere
<1>3. OnePlace(k)'  BY <1>1, <1>2 DEF TaskRight, OnePlace
<1>4. RunsRight(k)'  BY <1>1, <1>2 DEF TaskRight, RunsRight, Spared
<1>5. Fresh(k)'
  <2>1. ASSUME NEW w \in Users \union Tasks, NEW i \in DOMAIN program'[w],
               Submits(w, i, k)', Ahead(w, i)'
        PROVE  Nowhere(k)
    <3>1. program' = program  BY DEF Concerns
    <3>2. Submits(w, i, k)  BY <2>1, <3>1 DEF Submits
    <3>3. program \in Programs  BY DEF TypeOK
    <3>4. program[w] \in Seq(Calls)  BY <3>3, ThreadPoolAssumption
    <3>5. i \in Nat  BY <3>1, <3>4
    <3>6. Ahead(w, i)  BY <2>1, <3>5 DEF Concerns
    <3> QED  BY <1>1, <2>1, <3>1, <3>2, <3>6 DEF TaskRight, Fresh
  <2>2. Nowhere(k) => Nowhere(k)'  BY <1>1, <1>2 DEF Nowhere, Spared
  <2> QED  BY <2>1, <2>2 DEF Fresh
<1>6. NotLost(k)'
  <2>1. up' => up  BY DEF Concerns
  <2>2. "queue" \in Places /\ "cont" \in Places /\ "next" \in Places  BY DEF Places
  <2>3. up' => (In(k, "queue") => In(k, "queue")') /\ (In(k, "cont") => In(k, "cont")')
                 /\ (In(k, "next") => In(k, "next")')
    BY <1>2, <2>2
  <2> QED  BY <1>1, <1>2, <2>1, <2>3 DEF TaskRight, NotLost, Spared
<1>7. HandleKept(k)'
  BY <1>1, <1>2, SamePrograms DEF TaskRight, HandleKept, Spared, Concerns
<1>8. Follows(k)'
  <2>1. ASSUME NEW d \in Tasks, FollowsDep(d, k)  PROVE FollowsDep(d, k)'
    <3>1. Queues(k)' \/ runs'[k] > 0 => done'[d] # "no"
      BY <1>1, <2>1 DEF FollowsDep, Spared, Concerns
    <3>2. \A c \in Tasks : cont'[c] = k => c = d  BY <1>1, <2>1 DEF FollowsDep, Spared
    <3>3. ASSUME NEW u \in Threads
          PROVE  /\ Nxt(u)' = k => IF At(u, "report")' THEN Top(u).who' = d ELSE done'[d] # "no"
                 /\ Sub(u)' = k /\ At(u, "push")' => done'[d] # "no"
      <4>1. CASE u = t
        <5>1. k # None  BY ThreadPoolAssumption
        <5>2. Nxt(t)' # k /\ Sub(t)' # k  BY <5>1 DEF Concerns, Acts
        <5> QED  BY <4>1, <5>2
      <4>2. CASE u # t
        <5>1. /\ Sub(u)' = Sub(u) /\ Nxt(u)' = Nxt(u) /\ Top(u).who' = Top(u).who
              /\ At(u, "push")' <=> At(u, "push")
              /\ At(u, "report")' <=> At(u, "report")
          BY <4>2 DEF Concerns, Quiet
        <5> QED  BY <2>1, <5>1 DEF FollowsDep, Concerns
      <4> QED  BY <4>1, <4>2
    <3> QED  BY <3>1, <3>2, <3>3 DEF FollowsDep
  <2> QED  BY <1>1, <2>1, SamePrograms DEF TaskRight, Follows, Concerns
<1> QED  BY <1>3, <1>4, <1>5, <1>6, <1>7, <1>8 DEF TaskRight

LEMMA OutCounted ==
  ASSUME TypeOK, PoolInv, NEW k \in Tasks, Out(k)
  PROVE  inflight >= 1
<1>1. k \in Outstanding  BY OutMember DEF PoolInv
<1>2. IsFiniteSet(Outstanding) /\ inflight >= Cardinality(Outstanding)  BY DEF PoolInv, CountsRight
<1>3. Cardinality(Outstanding) # 0 /\ Cardinality(Outstanding) \in Nat
  BY <1>1, <1>2, FS_EmptySet, FS_CardinalityType
<1> QED  BY <1>2, <1>3 DEF TypeOK

\* How the step changes _inflight, and whether k0 is counted.
CountedAlike(k0) ==
  /\ inflight' = inflight
  /\ k0 \in Tasks => (Out(k0)' => Out(k0)) /\ (up' => (Out(k0) => Out(k0)'))
CountedNew(k0) == inflight' = inflight + 1 /\ k0 \in Tasks /\ ~Out(k0) /\ Out(k0)'
CountedNoMore(k0) == inflight' = inflight - 1 /\ k0 \in Tasks /\ Out(k0) /\ ~Out(k0)'

LEMMA Counts ==
  ASSUME TypeOK, PoolInv, TypeOK', \A u \in Threads : CallRight(u)',
         NEW t \in Threads, NEW k0, Concerns(t, k0),
         CountedAlike(k0) \/ CountedNew(k0) \/ CountedNoMore(k0)
  PROVE  CountsRight'
<1>1. Outstanding = {k \in Tasks : Out(k)}  BY OutMember DEF PoolInv
<1>2. Outstanding' = {k \in Tasks : Out(k)'}
  <2>1. (TypeOK /\ (\A u \in Threads : CallRight(u)) => Outstanding = {k \in Tasks : Out(k)})'
    BY OutMembership, PTL
  <2> QED  BY <2>1
<1>3. /\ IsFiniteSet(Outstanding) /\ inflight >= Cardinality(Outstanding)
      /\ up => inflight = Cardinality(Outstanding)
  BY DEF PoolInv, CountsRight
<1>4. inflight \in Nat /\ (up' => up)  BY DEF TypeOK, Concerns
<1>5. \A k \in Tasks \ {k0} : (Out(k)' => Out(k)) /\ (up' => (Out(k) => Out(k)'))
  BY Elsewhere
<1>6. CASE CountedAlike(k0)
  <2>1. Outstanding' \subseteq Outstanding  BY <1>1, <1>2, <1>5, <1>6 DEF CountedAlike
  <2>2. up' => Outstanding' = Outstanding  BY <1>1, <1>2, <1>5, <1>6 DEF CountedAlike
  <2>3. IsFiniteSet(Outstanding') /\ Cardinality(Outstanding') <= Cardinality(Outstanding)
    BY <1>3, <2>1, FS_Subset
  <2>4. Cardinality(Outstanding') \in Nat /\ Cardinality(Outstanding) \in Nat
    BY <1>3, <2>3, FS_CardinalityType
  <2>5. inflight' = inflight  BY <1>6 DEF CountedAlike
  <2>6. inflight' >= Cardinality(Outstanding')  BY <1>3, <1>4, <2>3, <2>4, <2>5
  <2>7. up' => inflight' = Cardinality(Outstanding')  BY <1>3, <1>4, <2>2, <2>5
  <2> QED  BY <2>3, <2>6, <2>7 DEF CountsRight
<1>7. CASE CountedNew(k0)
  <2>1. Outstanding' \subseteq Outstanding \union {k0} /\ k0 \notin Outstanding
    BY <1>1, <1>2, <1>5, <1>7 DEF CountedNew
  <2>2. up' => Outstanding' = Outstanding \union {k0}  BY <1>1, <1>2, <1>5, <1>7 DEF CountedNew
  <2>3. /\ IsFiniteSet(Outstanding \union {k0})
        /\ Cardinality(Outstanding \union {k0}) = Cardinality(Outstanding) + 1
    BY <1>3, <2>1, FS_AddElement
  <2>4. /\ IsFiniteSet(Outstanding')
        /\ Cardinality(Outstanding') <= Cardinality(Outstanding \union {k0})
    BY <2>1, <2>3, FS_Subset
  <2>5. Cardinality(Outstanding') \in Nat /\ Cardinality(Outstanding) \in Nat
    BY <1>3, <2>4, FS_CardinalityType
  <2>6. inflight' = inflight + 1  BY <1>7 DEF CountedNew
  <2>7. inflight' >= Cardinality(Outstanding')  BY <1>3, <1>4, <2>3, <2>4, <2>5, <2>6
  <2>8. up' => inflight' = Cardinality(Outstanding')  BY <1>3, <1>4, <2>2, <2>3, <2>6
  <2> QED  BY <2>4, <2>7, <2>8 DEF CountsRight
<1>8. CASE CountedNoMore(k0)
  <2>1. Outstanding' \subseteq Outstanding \ {k0} /\ k0 \in Outstanding
    BY <1>1, <1>2, <1>5, <1>8 DEF CountedNoMore
  <2>2. up' => Outstanding' = Outstanding \ {k0}  BY <1>1, <1>2, <1>5, <1>8 DEF CountedNoMore
  <2>3. /\ IsFiniteSet(Outstanding \ {k0})
        /\ Cardinality(Outstanding \ {k0}) = Cardinality(Outstanding) - 1
    BY <1>3, <2>1, FS_RemoveElement
  <2>4. IsFiniteSet(Outstanding') /\ Cardinality(Outstanding') <= Cardinality(Outstanding \ {k0})
    BY <2>1, <2>3, FS_Subset
  <2>5. Cardinality(Outstanding') \in Nat /\ Cardinality(Outstanding) \in Nat
    BY <1>3, <2>4, FS_CardinalityType
  <2>6. inflight' = inflight - 1  BY <1>8 DEF CountedNoMore
  <2>7. inflight' >= Cardinality(Outstanding')  BY <1>3, <1>4, <2>3, <2>4, <2>5, <2>6
  <2>8. up' => inflight' = Cardinality(Outstanding')  BY <1>3, <1>4, <2>2, <2>3, <2>6
  <2> QED  BY <2>4, <2>7, <2>8 DEF CountsRight
<1> QED  BY <1>6, <1>7, <1>8

\* What is left to show of a step that concerns k0.
LEMMA Preserved ==
  ASSUME TypeOK, PoolInv, TypeOK', NEW t \in Threads, NEW k0, Concerns(t, k0),
         StacksRight', CallRight(t)', OnceThere', DrainersRight',
         k0 \in Tasks => TaskRight(k0)',
         CountedAlike(k0) \/ CountedNew(k0) \/ CountedNoMore(k0)
  PROVE  PoolInv'
<1>1. \A u \in Threads : CallRight(u)'
  <2>1. \A u \in Threads \ {t} : CallRight(u)'  BY DEF PoolInv, Concerns, Quiet
  <2> QED  BY <2>1
<1>2. \A k \in Tasks : TaskRight(k)'  BY Spares
<1>3. CountsRight'  BY <1>1, Counts
<1> QED  BY <1>1, <1>2, <1>3 DEF PoolInv

-----------------------------------------------------------------------------
(* Steps that replace the topmost frame of one thread. *)

LEMMA Moved ==
  ASSUME TypeOK, PoolInv, NEW t \in Threads, NEW g \in Frames, Moves(t, g),
         program' = program, runs' = runs
  PROVE  /\ StacksRight' /\ Top(t)' = g
         /\ \A u \in Threads \ {t} : Quiet(u)
         /\ \A k : OnStack(k)' <=> OnStack(k)
         /\ \A w \in Users \union Tasks : \A i \in Nat : Ahead(w, i)' => Ahead(w, i)
<1>1. StacksRight' /\ Top(t)' = g  BY MovedStacks, MovedFrames DEF PoolInv
<1>2. ASSUME NEW u \in Threads \ {t}  PROVE Quiet(u)
  <2>1. stack'[u] = stack[u]  BY MovedFrames
  <2>2. /\ Top(u)' = Top(u) /\ Finished(u)' = Finished(u)
        /\ Sub(u)' = Sub(u) /\ Nxt(u)' = Nxt(u) /\ Entered(u)' = Entered(u)
        /\ CallRight(u) => CallRight(u)'
    BY <2>1, OtherThread
  <2>3. Leaving(u)' = Leaving(u)  BY <2>2 DEF Leaving, At
  <2> QED  BY <2>2, <2>3 DEF Quiet, At
<1>3. \A k : OnStack(k)' <=> OnStack(k)  BY MovedOnStack
<1>4. ASSUME NEW w \in Users \union Tasks, NEW i \in Nat, Ahead(w, i)'  PROVE Ahead(w, i)
  BY <1>4, MovedAhead
<1> QED  BY <1>1, <1>2, <1>3, <1>4

LEMMA MovedDrainers ==
  ASSUME TypeOK, DrainersRight, NEW t \in Threads, NEW g \in Frames, Moves(t, g),
         g.at \in DrainLabels <=> Top(t).at \in DrainLabels, draining' = draining
  PROVE  DrainersRight'
<1>1. \A u \in Threads : \A i \in DOMAIN stack[u] :
        /\ stack'[u][i].who = stack[u][i].who
        /\ stack'[u][i].at \in DrainLabels <=> stack[u][i].at \in DrainLabels
  <2>1. Top(t) = stack[t][1] /\ stack'[t][1] = g  BY TopType, MovedFrames
  <2> QED  BY <2>1, MovedFrames
<1>2. \A u \in Threads : DOMAIN stack'[u] = DOMAIN stack[u]  BY MovedFrames
<1>3. \A w : w \in DrainingTasks' <=>
        \E u \in Threads : \E i \in DOMAIN stack'[u] :
           stack'[u][i].who = w /\ stack'[u][i].at \in DrainLabels
  BY DEF DrainingTasks
<1>4. \A w : w \in DrainingTasks' <=> w \in DrainingTasks  BY <1>1, <1>2, <1>3, DrainMember
<1>5. DrainingTasks' = DrainingTasks
  BY <1>4
<1> QED  BY <1>5 DEF DrainersRight

\* The queues are left alone, or a shutdown empties them.
QueuesKept ==
  \/ UNCHANGED <<queue, up>>
  \/ ~up' /\ queue' = [l \in Levels |-> << >>]

\* A step between labels at which a thread has no task in its hands.
LEMMA Plain ==
  ASSUME TypeOK, PoolInv, TypeOK', NEW t \in Threads, NEW g \in Frames, Moves(t, g),
         Top(t).at \in NeutralLabels, g.at \in NeutralLabels,
         UNCHANGED <<program, cont, done, runs, inflight>>, QueuesKept,
         \A k \in Tasks : handle[k] # "none" => handle'[k] # "none",
         \A k \in Tasks : fate'[k] = "accepted" => fate[k] = "accepted",
         DrainersRight'
  PROVE  PoolInv'
<1>0. None \notin Tasks  BY ThreadPoolAssumption
<1>1. StacksRight' /\ Top(t)' = g  BY Moved
<1>2. Sub(t) = None /\ Nxt(t) = None /\ Entered(t) = None /\ Leaving(t) = None
  BY Neutral DEF Leaving
<1>3. /\ Sub(t)' = None /\ Nxt(t)' = None /\ Entered(t)' = None /\ Leaving(t)' = None
      /\ CallRight(t)'
  BY <1>1 DEF NeutralLabels, SubmitLabels, FinishLabels, Sub, Nxt, Entered, CallRight, At, Leaving
<1>4. \A k : (Queues(k)' => Queues(k)) /\ (up' => (Queues(k) => Queues(k)'))
  BY DEF QueuesKept, Queues
<1>5. Concerns(t, None)
  <2>1. \A k \in Tasks : Spared(k)
    <3>1. \A k : OnStack(k)' <=> OnStack(k)  BY Moved
    <3> QED  BY <1>4, <3>1 DEF Spared
  <2>2. up' => up  BY DEF QueuesKept
  <2>3. \A u \in Threads \ {t} : Quiet(u)  BY Moved
  <2>4. \A w \in Users \union Tasks : \A i \in Nat : Ahead(w, i)' => Ahead(w, i)  BY Moved
  <2>5. Acts(t, None)  BY <1>2, <1>3 DEF Acts
  <2> QED  BY <2>1, <2>2, <2>3, <2>4, <2>5 DEF Concerns
<1>6. OnceThere'
  <2>1. OnceQueued /\ OnceRegistered /\ OnceFired  BY DEF PoolInv, OnceThere
  <2>2. OnceQueued'  BY <2>1 DEF QueuesKept, OnceQueued
  <2>3. OnceRegistered'  BY <2>1 DEF OnceRegistered
  <2>4. \A u \in Threads : Nxt(u)' = Nxt(u)  BY <1>2, <1>3, <1>5 DEF Concerns, Quiet
  <2>5. OnceFired'  BY <2>1, <2>4 DEF OnceFired
  <2> QED  BY <2>2, <2>3, <2>5 DEF OnceThere
<1>7. CountedAlike(None)  BY <1>0 DEF CountedAlike
<1> QED  BY <1>0, <1>1, <1>3, <1>5, <1>6, <1>7, Preserved

LEMMA PlainMove ==
  ASSUME TypeOK, PoolInv, NEW t \in Threads, NEW g \in Frames, Moves(t, g),
         Top(t).at \in NeutralLabels, g.at \in NeutralLabels,
         UNCHANGED <<program, cont, done, runs, inflight>>, QueuesKept,
         \A k \in Tasks : handle[k] # "none" => handle'[k] # "none",
         \A k \in Tasks : fate'[k] = "accepted" => fate[k] = "accepted",
         handle' \in [Tasks -> {"none", "live", "deleted"}],
         fate' \in [Tasks -> {"new", "accepted", "refused"}],
         tokens' \in Nat, draining' \in Nat, stop' \in BOOLEAN, up' \in BOOLEAN,
         holder' \in Threads \union {None},
         \/ draining' = draining /\ (g.at \in DrainLabels <=> Top(t).at \in DrainLabels)
         \/ DrainersRight'
  PROVE  TypeOK' /\ PoolInv'
<1>1. stack' \in [Threads -> Seq(Frames)] /\ \A u \in Threads : stack'[u] # << >>
  BY MovedFrames
<1>2. queue' \in [Levels -> Seq([item : Tasks, ready : BOOLEAN])]
  <2>1. << >> \in Seq([item : Tasks, ready : BOOLEAN])  OBVIOUS
  <2>2. [l \in Levels |-> << >>] \in [Levels -> Seq([item : Tasks, ready : BOOLEAN])]  BY <2>1
  <2> QED  BY <2>2 DEF TypeOK, QueuesKept
<1>3. TypeOK'  BY <1>1, <1>2 DEF TypeOK
<1>4. DrainersRight'  BY MovedDrainers DEF PoolInv
<1> QED  BY <1>3, <1>4, Plain

\* What the label of the topmost frame says about the stack.
LEMMA TopPlace ==
  ASSUME TypeOK, StacksRight, NEW t \in Threads
  PROVE  /\ Top(t).at \in WorkerLabels => t \in Workers /\ Len(stack[t]) = 1
         /\ Len(stack[t]) = 1 => Top(t).who = t /\ (t \in Workers => Top(t).at \in WorkerLabels)
         /\ Len(stack[t]) > 1 => Top(t).who \in Tasks /\ t \in Workers
         /\ Len(stack[t]) = 1 \/ Len(stack[t]) > 1
         /\ Top(t).at \in DrainLabels => Len(stack[t]) > 1
         /\ Top(t).who \in Tasks => Len(stack[t]) > 1
<1>1. FrameRight(t, 1) /\ Top(t) = stack[t][1] /\ Len(stack[t]) \in Nat \ {0}
  BY TopType DEF StacksRight
<1>2. t \notin Tasks  BY ThreadPoolAssumption
<1>3. Len(stack[t]) = 1 \/ (1 < Len(stack[t]) /\ Len(stack[t]) > 1)
  <2>1. \A m \in Nat \ {0} : m = 1 \/ (1 < m /\ m > 1)  OBVIOUS
  <2> QED  BY <1>1, <2>1
<1> QED  BY <1>1, <1>2, <1>3 DEF FrameRight

\* A thread that goes from one label to another, in the same call.
LEMMA PlainSet ==
  ASSUME TypeOK, PoolInv, NEW t \in Threads, NEW g \in Frames, SetTop(t, g),
         g.who = Top(t).who, g.ip = Top(t).ip, g.at # "call",
         Top(t).at \in NeutralLabels, g.at \in NeutralLabels,
         g.at \in WorkerLabels <=> Top(t).at \in WorkerLabels,
         g.at \in DrainLabels <=> Top(t).at \in DrainLabels,
         UNCHANGED <<program, queue, inflight, draining, up, handles, runs>>,
         tokens' \in Nat, stop' \in BOOLEAN, holder' \in Threads \union {None}
  PROVE  TypeOK' /\ PoolInv'
<1>1. Moves(t, g)  BY TopPlace DEF Moves, PoolInv
<1>2. QueuesKept  BY DEF QueuesKept
<1>3. draining' \in Nat /\ up' \in BOOLEAN  BY DEF TypeOK
<1>4. /\ handle' = handle /\ fate' = fate
      /\ handle' \in [Tasks -> {"none", "live", "deleted"}]
      /\ fate' \in [Tasks -> {"new", "accepted", "refused"}]
  BY DEF TypeOK, handles
<1>5. UNCHANGED <<program, cont, done, runs, inflight>>  BY DEF handles
<1> QED  BY <1>1, <1>2, <1>3, <1>4, <1>5, PlainMove

LEMMA PlainGoto ==
  ASSUME TypeOK, PoolInv, NEW t \in Threads, NEW a \in NeutralLabels, a # "call", Goto(t, a),
         Top(t).at \in NeutralLabels,
         a \in WorkerLabels <=> Top(t).at \in WorkerLabels,
         a \in DrainLabels <=> Top(t).at \in DrainLabels,
         UNCHANGED <<program, queue, inflight, draining, up, handles, runs>>,
         tokens' \in Nat, stop' \in BOOLEAN, holder' \in Threads \union {None}
  PROVE  TypeOK' /\ PoolInv'
<1>1. PICK g \in Frames : /\ SetTop(t, g) /\ g.at = a /\ g.who = Top(t).who /\ g.ip = Top(t).ip
  BY GotoEffect DEF NeutralLabels
<1> QED  BY <1>1, PlainSet

\* A thread that returns from its call.
LEMMA PlainReturn ==
  ASSUME TypeOK, PoolInv, NEW t \in Threads, SetTop(t, NextCall(Top(t))),
         Top(t).at \in NeutralLabels \ WorkerLabels,
         UNCHANGED <<program, cont, done, runs, inflight>>, QueuesKept,
         \A k \in Tasks : handle[k] # "none" => handle'[k] # "none",
         \A k \in Tasks : fate'[k] = "accepted" => fate[k] = "accepted",
         handle' \in [Tasks -> {"none", "live", "deleted"}],
         fate' \in [Tasks -> {"new", "accepted", "refused"}],
         tokens' \in Nat, draining' \in Nat, stop' \in BOOLEAN, up' \in BOOLEAN,
         holder' \in Threads \union {None},
         \/ draining' = draining /\ Top(t).at \notin DrainLabels
         \/ DrainersRight'
  PROVE  TypeOK' /\ PoolInv'
<1>1. PICK g : g = NextCall(Top(t))  OBVIOUS
<1>2. g \in Frames /\ g.at = "call" /\ g.who = Top(t).who /\ g.ip = Top(t).ip + 1
  BY <1>1, TopType, NextCallFrame
<1>3. g.at \notin WorkerLabels /\ g.at \notin DrainLabels /\ g.at \in NeutralLabels
  BY <1>2 DEF WorkerLabels, DrainLabels, NeutralLabels, Labels, SubmitLabels, FinishLabels
<1>4. Moves(t, g)  BY <1>1, <1>2, <1>3 DEF Moves
<1> QED  BY <1>2, <1>3, <1>4, PlainMove

-----------------------------------------------------------------------------
(* The actions at which the thread has no task in its hands. *)

LEMMA LabelsApart ==
  /\ WorkerLabels \subseteq NeutralLabels /\ DrainLabels \subseteq NeutralLabels
  /\ {"call", "lock", "read", "sleep", "asleep", "stop", "release_all", "join"}
       \subseteq NeutralLabels \ (WorkerLabels \union DrainLabels)
  /\ WorkerLabels \intersect DrainLabels = {}
  /\ "call" \notin WorkerLabels \union DrainLabels
BY DEF NeutralLabels, WorkerLabels, DrainLabels, Labels, SubmitLabels, FinishLabels

LEMMA PlainWorker ==
  ASSUME TypeOK, PoolInv, NEW t \in Threads,
         WorkerTop(t) \/ Acquire(t) \/ Check(t) \/ Forward(t)
  PROVE  TypeOK' /\ PoolInv'
<1>1. PICK a \in {"top", "gone", "acquire", "check", "pop"} : Goto(t, a)
  BY DEF WorkerTop, Acquire, Check, Forward
<1>2. Top(t).at \in {"top", "acquire", "check", "forward"}
  BY DEF WorkerTop, Acquire, Check, Forward, At
<1>3. tokens' \in Nat /\ stop' \in BOOLEAN /\ holder' \in Threads \union {None}
  BY DEF TypeOK, WorkerTop, Acquire, Check, Forward, pool
<1>4. UNCHANGED <<program, queue, inflight, draining, up, handles, runs>>
  BY DEF WorkerTop, Acquire, Check, Forward, pool
<1>5. a \in WorkerLabels /\ Top(t).at \in WorkerLabels /\ a # "call"  BY <1>2 DEF WorkerLabels
<1> QED  BY <1>1, <1>3, <1>4, <1>5, LabelsApart, PlainGoto

LEMMA PlainWaiter ==
  ASSUME TypeOK, PoolInv, NEW t \in Threads,
         Lock(t) \/ Sleep(t) \/ SpuriousWake(t) \/ RequestStop(t) \/ ReleaseAll(t)
  PROVE  TypeOK' /\ PoolInv'
<1>1. PICK a \in {"lock", "read", "asleep", "release_all", "join"} : Goto(t, a)
  BY DEF Lock, Sleep, SpuriousWake, RequestStop, ReleaseAll
<1>2. Top(t).at \in {"lock", "sleep", "asleep", "stop", "release_all"}
  BY DEF Lock, Sleep, SpuriousWake, RequestStop, ReleaseAll, At
<1>3. tokens' \in Nat /\ stop' \in BOOLEAN /\ holder' \in Threads \union {None}
  <2>1. Cardinality(Workers) \in Nat  BY ThreadPoolAssumption, FS_CardinalityType
  <2>2. tokens \in Nat /\ stop \in BOOLEAN /\ holder \in Threads \union {None}  BY DEF TypeOK
  <2>3. tokens' \in {tokens, tokens + Cardinality(Workers)} /\ stop' \in {stop, TRUE}
        /\ holder' \in {holder, t, None}
    BY DEF Lock, Sleep, SpuriousWake, RequestStop, ReleaseAll, pool
  <2>4. \A m, n \in Nat : m + n \in Nat  OBVIOUS
  <2> QED  BY <2>1, <2>2, <2>3, <2>4
<1>4. UNCHANGED <<program, queue, inflight, draining, up, handles, runs>>
  BY DEF Lock, Sleep, SpuriousWake, RequestStop, ReleaseAll, pool
<1> QED  BY <1>1, <1>2, <1>3, <1>4, LabelsApart, PlainGoto

LEMMA PlainRead ==
  ASSUME TypeOK, PoolInv, NEW t \in Threads, ReadInflight(t)
  PROVE  TypeOK' /\ PoolInv'
<1>1. Top(t).at = "read"  BY DEF ReadInflight, At
<1>2. /\ UNCHANGED <<program, queue, pool, handles, runs>>
      /\ UNCHANGED <<tokens, inflight, draining, stop, up>>
      /\ UNCHANGED <<cont, done, handle, fate>>
  BY DEF ReadInflight, pool, handles
<1>3. tokens' \in Nat /\ stop' \in BOOLEAN /\ holder' \in Threads \union {None}
  BY <1>2 DEF TypeOK, ReadInflight
<1>4. CASE \E a \in {"sleep", "stop"} : Goto(t, a)
  BY <1>1, <1>2, <1>3, <1>4, LabelsApart, PlainGoto
<1>5. CASE SetTop(t, NextCall(Top(t)))
  <2>1. /\ handle' \in [Tasks -> {"none", "live", "deleted"}]
        /\ fate' \in [Tasks -> {"new", "accepted", "refused"}]
        /\ draining' \in Nat /\ up' \in BOOLEAN
    BY <1>2 DEF TypeOK
  <2>2. QueuesKept  BY <1>2 DEF QueuesKept
  <2> QED  BY <1>1, <1>2, <1>3, <1>5, <2>1, <2>2, LabelsApart, PlainReturn
<1> QED  BY <1>4, <1>5 DEF ReadInflight

LEMMA PlainDrain ==
  ASSUME TypeOK, PoolInv, NEW t \in Threads,
         StartDrain(t) \/ CountTasks(t) \/ CountDrainers(t)
  PROVE  TypeOK' /\ PoolInv'
<1>0. Top(t) \in Frames /\ inflight \in Nat /\ Accepted \in SUBSET Tasks
  BY TopType DEF TypeOK, Accepted
<1>1. UNCHANGED <<program, queue, pool, holder, handles, runs>>
  BY DEF StartDrain, CountTasks, CountDrainers
<1>2. UNCHANGED <<tokens, inflight, draining, stop, up>>  BY <1>1 DEF pool
<1>3. tokens' \in Nat /\ stop' \in BOOLEAN /\ holder' \in Threads \union {None}
  BY <1>1, <1>2 DEF TypeOK
<1>4. CASE StartDrain(t)
  <2>1. PICK g : g = [Top(t) EXCEPT !.at = "lock", !.owed = Accepted]  OBVIOUS
  <2>2. g \in Frames /\ g.at = "lock" /\ g.who = Top(t).who /\ g.ip = Top(t).ip
    <3>1. PICK a \in Labels : a = "lock"  BY DEF Labels
    <3>2. g = [Top(t) EXCEPT !.at = a, !.owed = Accepted]  BY <2>1, <3>1
    <3>3. g \in Frames /\ g.at = a /\ g.who = Top(t).who /\ g.ip = Top(t).ip
      BY <1>0, <3>2 DEF Frames
    <3> QED  BY <3>1, <3>3
  <2>3. Top(t).at = "call" /\ SetTop(t, g)  BY <1>4, <2>1 DEF StartDrain, InCall, At
  <2> QED  BY <1>1, <1>2, <1>3, <2>2, <2>3, LabelsApart, PlainSet
<1>5. CASE CountTasks(t)
  <2>1. PICK g : g = [Top(t) EXCEPT !.n = inflight, !.at = "count_drainers"]  OBVIOUS
  <2>2. g \in Frames /\ g.at = "count_drainers" /\ g.who = Top(t).who /\ g.ip = Top(t).ip
    <3>1. PICK a \in Labels : a = "count_drainers"  BY DEF Labels
    <3>2. g = [Top(t) EXCEPT !.n = inflight, !.at = a]  BY <2>1, <3>1
    <3>3. inflight \in Int  BY <1>0
    <3>4. g \in Frames /\ g.at = a /\ g.who = Top(t).who /\ g.ip = Top(t).ip
      BY <1>0, <3>2, <3>3 DEF Frames
    <3> QED  BY <3>1, <3>4
  <2>3. Top(t).at = "count_tasks" /\ SetTop(t, g)  BY <1>5, <2>1 DEF CountTasks, At
  <2>4. g.at \in DrainLabels /\ Top(t).at \in DrainLabels /\ g.at # "call"
    BY <2>2, <2>3 DEF DrainLabels
  <2> QED  BY <1>1, <1>2, <1>3, <2>2, <2>3, <2>4, LabelsApart, PlainSet
<1>6. CASE CountDrainers(t)
  <2>1. PICK g : g = [Top(t) EXCEPT !.n = 1, !.at = IF Top(t).n <= draining
                                                    THEN "leave_drain" ELSE "help"]
    OBVIOUS
  <2>2. g \in Frames /\ g.at \in {"leave_drain", "help"} /\ g.who = Top(t).who /\ g.ip = Top(t).ip
    <3>1. PICK a \in Labels : /\ a \in {"leave_drain", "help"}
                              /\ a = IF Top(t).n <= draining THEN "leave_drain" ELSE "help"
      BY DEF Labels
    <3>2. g = [Top(t) EXCEPT !.n = 1, !.at = a] /\ 1 \in Int  BY <2>1, <3>1
    <3>3. g \in Frames /\ g.at = a /\ g.who = Top(t).who /\ g.ip = Top(t).ip
      BY <1>0, <3>2 DEF Frames
    <3> QED  BY <3>1, <3>3
  <2>3. Top(t).at = "count_drainers" /\ SetTop(t, g)  BY <1>6, <2>1 DEF CountDrainers, At
  <2>4. g.at \in DrainLabels /\ Top(t).at \in DrainLabels /\ g.at # "call"
    BY <2>2, <2>3 DEF DrainLabels
  <2> QED  BY <1>1, <1>2, <1>3, <2>2, <2>3, <2>4, LabelsApart, PlainSet
<1> QED  BY <1>4, <1>5, <1>6

\* Looking into a queue that has nothing to pop.
EmptyPop(t, empty) ==
  SetTop(t, IF Top(t).n < 3 THEN [Top(t) EXCEPT !.n = @ + 1]
                            ELSE [Top(t) EXCEPT !.at = empty, !.n = 1])

LEMMA PlainPop ==
  ASSUME TypeOK, PoolInv, NEW t \in Threads,
         \/ At(t, "pop") /\ EmptyPop(t, "forward")
         \/ At(t, "help") /\ EmptyPop(t, "count_tasks"),
         UNCHANGED <<program, queue, pool, holder, handles, runs>>
  PROVE  TypeOK' /\ PoolInv'
<1>0. Top(t) \in Frames /\ Top(t).n \in Int  BY TopType
<1>1. UNCHANGED <<tokens, inflight, draining, stop, up>>  BY DEF pool
<1>2. tokens' \in Nat /\ stop' \in BOOLEAN /\ holder' \in Threads \union {None}
  BY <1>1 DEF TypeOK
<1>3. PICK b : (At(t, "pop") /\ b = "forward") \/ (At(t, "help") /\ b = "count_tasks")  OBVIOUS
<1>4. b \in Labels /\ EmptyPop(t, b)  BY <1>3 DEF Labels, At
<1>5. PICK g : g = IF Top(t).n < 3 THEN [Top(t) EXCEPT !.n = @ + 1]
                                   ELSE [Top(t) EXCEPT !.at = b, !.n = 1]
  OBVIOUS
<1>6. g \in Frames /\ g.at \in {Top(t).at, b} /\ g.who = Top(t).who /\ g.ip = Top(t).ip
  <2>1. CASE Top(t).n < 3
    <3>0. \A x \in Int : x + 1 \in Int  OBVIOUS
    <3>1. PICK m \in Int : m = Top(t).n + 1  BY <1>0, <3>0
    <3>2. g = [Top(t) EXCEPT !.n = m]  BY <1>5, <2>1, <3>1
    <3>3. g \in Frames /\ g.at = Top(t).at /\ g.who = Top(t).who /\ g.ip = Top(t).ip
      BY <1>0, <3>2 DEF Frames
    <3> QED  BY <3>3
  <2>2. CASE ~(Top(t).n < 3)
    <3>1. g = [Top(t) EXCEPT !.at = b, !.n = 1] /\ 1 \in Int  BY <1>5, <2>2
    <3>2. g \in Frames /\ g.at = b /\ g.who = Top(t).who /\ g.ip = Top(t).ip
      BY <1>0, <1>4, <3>1 DEF Frames
    <3> QED  BY <3>2
  <2> QED  BY <2>1, <2>2
<1>7. SetTop(t, g)  BY <1>4, <1>5 DEF EmptyPop
<1>8. /\ g.at \in WorkerLabels <=> Top(t).at \in WorkerLabels
      /\ g.at \in DrainLabels <=> Top(t).at \in DrainLabels
      /\ g.at # "call" /\ g.at \in WorkerLabels \union DrainLabels
      /\ Top(t).at \in WorkerLabels \union DrainLabels
  BY <1>3, <1>6 DEF At, WorkerLabels, DrainLabels
<1> QED  BY <1>1, <1>2, <1>6, <1>7, <1>8, LabelsApart, PlainSet

LEMMA PlainWait ==
  ASSUME TypeOK, PoolInv, NEW t \in Threads, Wait(t)
  PROVE  TypeOK' /\ PoolInv'
<1>1. Top(t).at = "call" /\ SetTop(t, NextCall(Top(t)))  BY DEF Wait, InCall, At
<1>2. /\ UNCHANGED <<program, queue, tokens, inflight, draining, stop, up, holder>>
      /\ UNCHANGED <<cont, done, fate, runs>>
  BY DEF Wait, pool
<1>3. /\ handle' \in [Tasks -> {"none", "live", "deleted"}]
      /\ \A k \in Tasks : handle[k] # "none" => handle'[k] # "none"
  <2>1. handle \in [Tasks -> {"none", "live", "deleted"}]  BY DEF TypeOK
  <2>2. PICK k : handle' = handle \/ handle' = [handle EXCEPT ![k] = "deleted"]  BY DEF Wait
  <2> QED  BY <2>1, <2>2
<1>4. /\ fate' \in [Tasks -> {"new", "accepted", "refused"}]
      /\ tokens' \in Nat /\ draining' \in Nat /\ stop' \in BOOLEAN /\ up' \in BOOLEAN
      /\ holder' \in Threads \union {None}
  BY <1>2 DEF TypeOK
<1>5. QueuesKept  BY <1>2 DEF QueuesKept
<1> QED  BY <1>1, <1>2, <1>3, <1>4, <1>5, LabelsApart, PlainReturn

LEMMA PlainJoin ==
  ASSUME TypeOK, PoolInv, NEW t \in Threads, Join(t)
  PROVE  TypeOK' /\ PoolInv'
<1>1. Top(t).at = "join" /\ SetTop(t, NextCall(Top(t)))  BY DEF Join, At
<1>2. /\ UNCHANGED <<program, inflight, draining, stop, holder, runs>>
      /\ UNCHANGED <<cont, done, handle, fate>>
  BY DEF Join, handles
<1>3. /\ fate' \in [Tasks -> {"new", "accepted", "refused"}]
      /\ handle' \in [Tasks -> {"none", "live", "deleted"}]
      /\ draining' \in Nat /\ stop' \in BOOLEAN
      /\ holder' \in Threads \union {None}
  BY <1>2 DEF TypeOK
<1>4. tokens' \in Nat /\ up' \in BOOLEAN /\ QueuesKept  BY DEF Join, QueuesKept
<1> QED  BY <1>1, <1>2, <1>3, <1>4, LabelsApart, PlainReturn

Refusing(t) ==
  /\ InCall(t, Submissions)
  /\ fate' = [fate EXCEPT ![Call(t).task] = "refused"]
  /\ SetTop(t, NextCall(Top(t)))
  /\ UNCHANGED <<program, queue, pool, holder, cont, done, handle, runs>>

LEMMA PlainRefusal ==
  ASSUME TypeOK, PoolInv, NEW t \in Threads, Refusing(t)
  PROVE  TypeOK' /\ PoolInv'
<1>1. Top(t).at = "call" /\ SetTop(t, NextCall(Top(t)))  BY DEF Refusing, InCall, At
<1>2. /\ UNCHANGED <<program, queue, tokens, inflight, draining, stop, up, holder>>
      /\ UNCHANGED <<cont, done, handle, runs>>
  BY DEF Refusing, pool
<1>3. /\ fate' \in [Tasks -> {"new", "accepted", "refused"}]
      /\ \A k \in Tasks : fate'[k] = "accepted" => fate[k] = "accepted"
  <2>1. fate \in [Tasks -> {"new", "accepted", "refused"}]  BY DEF TypeOK
  <2>2. PICK k : fate' = [fate EXCEPT ![k] = "refused"]  BY DEF Refusing
  <2> QED  BY <2>1, <2>2
<1>4. /\ handle' \in [Tasks -> {"none", "live", "deleted"}]
      /\ tokens' \in Nat /\ draining' \in Nat /\ stop' \in BOOLEAN /\ up' \in BOOLEAN
      /\ holder' \in Threads \union {None}
  BY <1>2 DEF TypeOK
<1>5. QueuesKept  BY <1>2 DEF QueuesKept
<1> QED  BY <1>1, <1>2, <1>3, <1>4, <1>5, LabelsApart, PlainReturn

\* Which frames are inside drain() after a step of thread t.
LEMMA DrainersAfter ==
  ASSUME TypeOK, StacksRight, NEW t \in Threads, NEW g \in Frames, Moves(t, g)
  PROVE  /\ g.at \in DrainLabels => DrainingTasks' = DrainingTasks \union {Top(t).who}
         /\ g.at \notin DrainLabels => DrainingTasks' = DrainingTasks \ {Top(t).who}
         /\ Top(t).at \in DrainLabels <=> Top(t).who \in DrainingTasks
<1> DEFINE Drains(u, i) == stack[u][i].at \in DrainLabels
<1>1. Top(t) = stack[t][1] /\ stack'[t][1] = g /\ g.who = Top(t).who /\ 1 \in DOMAIN stack[t]
  BY TopType, MovedFrames DEF Moves
<1>2. \A u \in Threads : DOMAIN stack'[u] = DOMAIN stack[u]  BY MovedFrames
<1>3. \A u \in Threads : \A i \in DOMAIN stack[u] :
        /\ stack'[u][i].who = stack[u][i].who
        /\ ~(u = t /\ i = 1) => stack'[u][i] = stack[u][i]
  BY MovedFrames
<1>4. \A u \in Threads : \A i \in DOMAIN stack[u] :
        stack[u][i].who = Top(t).who => u = t /\ i = 1
  BY <1>1 DEF StacksRight
<1>5. \A w : w \in DrainingTasks' <=>
        \E u \in Threads : \E i \in DOMAIN stack'[u] :
           stack'[u][i].who = w /\ stack'[u][i].at \in DrainLabels
  BY DEF DrainingTasks
<1>6. ASSUME NEW w, w # Top(t).who  PROVE w \in DrainingTasks' <=> w \in DrainingTasks
  <2>1. \A u \in Threads : \A i \in DOMAIN stack[u] :
          /\ stack'[u][i].who = w <=> stack[u][i].who = w
          /\ stack[u][i].who = w => stack'[u][i] = stack[u][i]
    BY <1>1, <1>3, <1>6
  <2> QED  BY <1>2, <1>5, <2>1, DrainMember
<1>7. Top(t).who \in DrainingTasks' <=> g.at \in DrainLabels
  BY <1>1, <1>2, <1>3, <1>4, <1>5
<1>8. Top(t).who \in DrainingTasks <=> Top(t).at \in DrainLabels
  BY <1>1, <1>4, DrainMember
<1> QED  BY <1>6, <1>7, <1>8

LEMMA PlainJoinDrain ==
  ASSUME TypeOK, PoolInv, NEW t \in Threads, JoinDrain(t)
  PROVE  TypeOK' /\ PoolInv'
<1>0. Top(t) \in Frames /\ Accepted \in SUBSET Tasks  BY TopType DEF Accepted
<1>1. PICK g : g = [Top(t) EXCEPT !.at = "help", !.owed = Accepted]  OBVIOUS
<1>2. g \in Frames /\ g.at = "help" /\ g.who = Top(t).who /\ g.ip = Top(t).ip
  <2>1. PICK a \in Labels : a = "help"  BY DEF Labels
  <2>2. g = [Top(t) EXCEPT !.at = a, !.owed = Accepted]  BY <1>1, <2>1
  <2>3. g \in Frames /\ g.at = a /\ g.who = Top(t).who /\ g.ip = Top(t).ip
    BY <1>0, <2>2 DEF Frames
  <2> QED  BY <2>1, <2>3
<1>3. t \in Workers /\ Top(t).at = "call" /\ SetTop(t, g)  BY <1>1 DEF JoinDrain, InCall, At
<1>4. "help" \in DrainLabels \ WorkerLabels  BY DEF DrainLabels, WorkerLabels
<1>5. Len(stack[t]) > 1  BY <1>3, TopPlace, LabelsApart DEF PoolInv
<1>6. Moves(t, g)  BY <1>2, <1>3, <1>4, <1>5, LabelsApart DEF Moves
<1>7. DrainersRight'
  <2>1. DrainersRight /\ StacksRight  BY DEF PoolInv
  <2>2. /\ DrainingTasks' = DrainingTasks \union {Top(t).who}
        /\ Top(t).who \notin DrainingTasks
    BY <1>2, <1>3, <1>4, <1>6, <2>1, DrainersAfter, LabelsApart
  <2>3. draining' = draining + 1  BY DEF JoinDrain
  <2> QED  BY <2>1, <2>2, <2>3, FS_AddElement DEF DrainersRight
<1>8. /\ UNCHANGED <<program, cont, done, handle, fate, runs, inflight>>
      /\ UNCHANGED <<queue, up, tokens, stop, holder>>
  BY DEF JoinDrain, handles
<1>9. /\ fate' \in [Tasks -> {"new", "accepted", "refused"}]
      /\ handle' \in [Tasks -> {"none", "live", "deleted"}]
      /\ tokens' \in Nat /\ stop' \in BOOLEAN /\ up' \in BOOLEAN
      /\ holder' \in Threads \union {None}
  BY <1>8 DEF TypeOK
<1>10. draining' \in Nat  BY DEF TypeOK, JoinDrain
<1>11. QueuesKept  BY <1>8 DEF QueuesKept
<1> QED  BY <1>2, <1>3, <1>4, <1>6, <1>7, <1>8, <1>9, <1>10, <1>11, LabelsApart, PlainMove

LEMMA PlainLeaveDrain ==
  ASSUME TypeOK, PoolInv, NEW t \in Threads, LeaveDrain(t)
  PROVE  TypeOK' /\ PoolInv'
<1>1. PICK g : g = NextCall(Top(t))  OBVIOUS
<1>2. g \in Frames /\ g.at = "call" /\ g.who = Top(t).who /\ g.ip = Top(t).ip + 1
  BY <1>1, TopType, NextCallFrame
<1>3. Top(t).at \in DrainLabels /\ SetTop(t, g)  BY <1>1 DEF LeaveDrain, At, DrainLabels
<1>4. Top(t).at \notin WorkerLabels /\ Top(t).at \in NeutralLabels  BY <1>3, LabelsApart
<1>5. Moves(t, g)  BY <1>2, <1>3, <1>4, LabelsApart DEF Moves
<1>6. DrainersRight /\ StacksRight  BY DEF PoolInv
<1>7. DrainingTasks' = DrainingTasks \ {Top(t).who} /\ Top(t).who \in DrainingTasks
  BY <1>2, <1>3, <1>5, <1>6, DrainersAfter, LabelsApart
<1>8. draining' = draining - 1  BY DEF LeaveDrain
<1>9. DrainersRight'  BY <1>6, <1>7, <1>8, FS_RemoveElement DEF DrainersRight
<1>10. draining' \in Nat  BY <1>9, FS_CardinalityType DEF DrainersRight
<1>11. /\ UNCHANGED <<program, cont, done, handle, fate, runs, inflight>>
       /\ UNCHANGED <<queue, up, tokens, stop, holder>>
  BY DEF LeaveDrain, handles
<1>12. /\ fate' \in [Tasks -> {"new", "accepted", "refused"}]
       /\ handle' \in [Tasks -> {"none", "live", "deleted"}]
       /\ tokens' \in Nat /\ stop' \in BOOLEAN /\ up' \in BOOLEAN
       /\ holder' \in Threads \union {None}
  BY <1>11 DEF TypeOK
<1>13. QueuesKept  BY <1>11 DEF QueuesKept
<1> QED  BY <1>1, <1>3, <1>4, <1>9, <1>10, <1>11, <1>12, <1>13, PlainReturn

-----------------------------------------------------------------------------
(* The actions at which the thread has a task in its hands. *)

LEMMA PlaceNames ==
  ASSUME NEW k
  PROVE  /\ In(k, "submit") <=> \E t \in Threads : Sub(t) = k
         /\ In(k, "queue") <=> Queues(k)
         /\ In(k, "cont") <=> \E d \in Tasks : cont[d] = k
         /\ In(k, "next") <=> \E t \in Threads : Nxt(t) = k
         /\ In(k, "stack") <=> OnStack(k)
BY DEF In

\* Where a task is after a step of thread t.
LEMMA PlacesAfter ==
  ASSUME NEW t \in Threads, \A u \in Threads \ {t} : Quiet(u), NEW k
  PROVE  /\ In(k, "submit")' <=> Sub(t)' = k \/ \E u \in Threads \ {t} : Sub(u) = k
         /\ In(k, "queue")' <=> Queues(k)'
         /\ In(k, "cont")' <=> \E d \in Tasks : cont'[d] = k
         /\ In(k, "next")' <=> Nxt(t)' = k \/ \E u \in Threads \ {t} : Nxt(u) = k
         /\ In(k, "stack")' <=> OnStack(k)'
         /\ Known(k)' <=> \/ fate'[k] = "accepted" \/ Entered(t)' = k
                          \/ \E u \in Threads \ {t} : Entered(u) = k
<1>1. \A u \in Threads \ {t} : /\ Sub(u)' = k <=> Sub(u) = k
                               /\ Nxt(u)' = k <=> Nxt(u) = k
                               /\ Entered(u)' = k <=> Entered(u) = k
  BY DEF Quiet
<1>2. /\ In(k, "submit")' <=> \E u \in Threads : Sub(u)' = k
      /\ In(k, "queue")' <=> Queues(k)'
      /\ In(k, "cont")' <=> \E d \in Tasks : cont'[d] = k
      /\ In(k, "next")' <=> \E u \in Threads : Nxt(u)' = k
      /\ In(k, "stack")' <=> OnStack(k)'
      /\ Known(k)' <=> fate'[k] = "accepted" \/ \E u \in Threads : Entered(u)' = k
  BY DEF In, Known
<1>3. \A u \in Threads : u = t \/ u \in Threads \ {t}  OBVIOUS
<1> QED  BY <1>1, <1>2, <1>3

LEMMA OnlyPlaces == \A x \in Places : x \in {"submit", "queue", "cont", "next", "stack"}
BY DEF Places

\* The call for which a thread submits a task, while it does.
LEMMA InHand ==
  ASSUME TypeOK, PoolInv, NEW t \in Threads, Top(t).at \in SubmitLabels, ~Finished(t)
  PROVE  /\ InSubmission(t) /\ Call(t).task \in Tasks
         /\ \A u \in Threads \ {t} : Sub(u) # Call(t).task /\ Entered(u) # Call(t).task
<1>1. InSubmission(t) /\ Call(t).task \in Tasks  BY SubmittedTask DEF PoolInv, CallRight
<1>2. None \notin Tasks /\ StacksRight  BY ThreadPoolAssumption DEF PoolInv
<1>3. ASSUME NEW u \in Threads, ~Finished(u), Top(u).at \in SubmitLabels, Call(u).task = Call(t).task
      PROVE  u = t
  <2>1. InSubmission(u)  BY <1>3 DEF PoolInv, CallRight
  <2> QED  BY <1>1, <1>2, <1>3, <2>1, OneSubmitter
<1>4. ASSUME NEW u \in Threads, Sub(u) = Call(t).task \/ Entered(u) = Call(t).task
      PROVE  u = t
  <2>1. ~Finished(u) /\ Top(u).at \in SubmitLabels /\ Call(u).task = Call(t).task
    BY <1>1, <1>2, <1>4 DEF Sub, Entered, SubmitLabels
  <2> QED  BY <1>3, <2>1
<1> QED  BY <1>1, <1>4

\* A task is chained to at most one other, by the call that submits it.
LEMMA ChainedOnce ==
  ASSUME TypeOK, NEW t \in Threads, InSubmission(t), NEW d, Chained(d, Call(t).task)
  PROVE  Call(t).op = "then" /\ d = Call(t).dep
<1>1. program \in Programs  BY DEF TypeOK
<1>2. PICK w \in Users \union Tasks : \E i \in DOMAIN program[w] :
        program[w][i].op = "then" /\ program[w][i].dep = d /\ program[w][i].task = Call(t).task
  BY DEF Chained
<1>3. PICK i \in DOMAIN program[w] :
        program[w][i].op = "then" /\ program[w][i].dep = d /\ program[w][i].task = Call(t).task
  BY <1>2
<1>4. DOMAIN program = Users \union Tasks  BY <1>1, ThreadPoolAssumption
<1>5. /\ Top(t).who \in Users \union Tasks /\ Top(t).ip \in DOMAIN program[Top(t).who]
      /\ program[Top(t).who][Top(t).ip].op \in Submissions
  BY DEF InSubmission, Call
<1>6. "then" \in Submissions  BY DEF Submissions
<1>7. w = Top(t).who /\ i = Top(t).ip
  BY <1>1, <1>3, <1>4, <1>5, <1>6, OneSubmissionEach DEF Call
<1> QED  BY <1>3, <1>7 DEF Call

\* The task that a call in hand submits is not chained twice, nor is its dependency detached.
LEMMA ChainedAttached ==
  ASSUME TypeOK, NEW d, NEW k, Chained(d, k)
  PROVE  ~Detached(d)
<1>1. program \in Programs  BY DEF TypeOK
<1>2. DOMAIN program = Users \union Tasks  BY <1>1, ThreadPoolAssumption
<1>3. \A w, v \in DOMAIN program :
        \A i \in DOMAIN program[w], j \in DOMAIN program[v] :
          program[w][i].op = "then" /\ program[v][j].op = "detach"
            => program[w][i].dep # program[v][j].task
  BY <1>1, OneSubmissionEach
<1> QED  BY <1>2, <1>3 DEF Chained, Detached

\* A task that was somewhere, or has been run, after a step that puts it in place b.
LEMMA TaskTo ==
  ASSUME TypeOK, NEW k \in Tasks, TaskRight(k), ~Nowhere(k), NEW b \in Places,
         program' = program,
         \A w \in Users \union Tasks : \A i \in Nat : Ahead(w, i)' => Ahead(w, i),
         runs'[k] = (IF b = "stack" THEN 1 ELSE 0),
         \A x \in Places : In(k, x)' => x = b,
         \/ handle[k] # "none" => handle'[k] # "none"
         \/ \A x \in Places : ~In(k, x)',
         (\E x \in Places : In(k, x)) \/ (\A x \in Places : ~In(k, x)'),
         NotLost(k)', Follows(k)'
  PROVE  TaskRight(k)'
<1>1. OnePlace(k)'
  <2>1. \A x, y \in Places : In(k, x)' /\ In(k, y)' => x = y  OBVIOUS
  <2> QED  BY <2>1 DEF OnePlace
<1>2. RunsRight(k)'
  <2>1. \A x \in Places : In(k, x)' => runs'[k] = (IF x = "stack" THEN 1 ELSE 0)  OBVIOUS
  <2>2. runs'[k] \in {0, 1}  OBVIOUS
  <2> QED  BY <2>1, <2>2 DEF RunsRight
<1>3. Fresh(k)'
  <2>1. ASSUME NEW w \in Users \union Tasks, NEW i \in DOMAIN program'[w],
               Submits(w, i, k)', Ahead(w, i)'
        PROVE  FALSE
    <3>1. Submits(w, i, k)  BY <2>1 DEF Submits
    <3>2. program \in Programs  BY DEF TypeOK
    <3>3. program[w] \in Seq(Calls)  BY <3>2, ThreadPoolAssumption
    <3>4. i \in Nat  BY <3>3
    <3>5. Ahead(w, i)  BY <2>1, <3>4
    <3> QED  BY <2>1, <3>1, <3>5 DEF TaskRight, Fresh
  <2> QED  BY <2>1 DEF Fresh
<1>4. HandleKept(k)'
  <2>1. (\E x \in Places : In(k, x)) => handle[k] # "none" \/ Detached(k)
    BY DEF TaskRight, HandleKept
  <2>2. Detached(k) => Detached(k)'  BY SamePrograms
  <2>3. (\E x \in Places : In(k, x)') => handle'[k] # "none" \/ Detached(k)'  BY <2>1, <2>2
  <2> QED  BY <2>3 DEF HandleKept
<1> QED  BY <1>1, <1>2, <1>3, <1>4 DEF TaskRight

\* A thread that goes on to label a of its call.
GoesTo(t, a) ==
  /\ Goto(t, a) /\ program' = program /\ runs' = runs /\ draining' = draining
  /\ a \in Labels \ (WorkerLabels \union DrainLabels) /\ a # "call"
  /\ Top(t).at \notin WorkerLabels \union DrainLabels

LEMMA WentTo ==
  ASSUME TypeOK, PoolInv, NEW t \in Threads, NEW a, GoesTo(t, a)
  PROVE  /\ stack' \in [Threads -> Seq(Frames)] /\ \A u \in Threads : stack'[u] # << >>
         /\ Top(t).at' = a /\ Top(t).next' = Top(t).next /\ Top(t).who' = Top(t).who
         /\ Finished(t)' = Finished(t) /\ Call(t)' = Call(t)
         /\ InSubmission(t) => InSubmission(t)'
         /\ Sub(t)' = IF ~Finished(t) /\ a \in {"reserve", "register", "push", "release"}
                      THEN Call(t).task ELSE None
         /\ Nxt(t)' = IF Finished(t) /\ a \in {"report", "push", "drop", "drop_handle"}
                      THEN Top(t).next ELSE None
         /\ Entered(t)' = IF ~Finished(t) /\ a \in {"publish", "token"}
                          THEN Call(t).task ELSE None
         /\ Leaving(t)' = IF Finished(t) /\ a = "wake" THEN Top(t).who ELSE None
         /\ StacksRight' /\ DrainersRight'
         /\ \A u \in Threads \ {t} : Quiet(u)
         /\ \A k : OnStack(k)' <=> OnStack(k)
         /\ \A w \in Users \union Tasks : \A i \in Nat : Ahead(w, i)' => Ahead(w, i)
<1>1. PICK g \in Frames : /\ SetTop(t, g) /\ g.at = a /\ g.who = Top(t).who /\ g.ip = Top(t).ip
                          /\ g.next = Top(t).next
  BY GotoEffect DEF GoesTo
<1>2. Moves(t, g)  BY <1>1 DEF Moves, GoesTo
<1>3. /\ stack' \in [Threads -> Seq(Frames)] /\ \A u \in Threads : stack'[u] # << >>
      /\ Top(t)' = g
  BY <1>2, MovedFrames
<1>4. /\ Finished(t)' = Finished(t) /\ Call(t)' = Call(t) /\ (InSubmission(t) => InSubmission(t)')
  BY <1>1, <1>3, SameCall DEF GoesTo
<1>5. /\ StacksRight'
      /\ \A u \in Threads \ {t} : Quiet(u)
      /\ \A k : OnStack(k)' <=> OnStack(k)
      /\ \A w \in Users \union Tasks : \A i \in Nat : Ahead(w, i)' => Ahead(w, i)
  BY <1>2, Moved DEF GoesTo
<1>6. DrainersRight'  BY <1>1, <1>2, MovedDrainers DEF PoolInv, GoesTo
<1>7. Top(t).at' = a /\ Top(t).next' = Top(t).next /\ Top(t).who' = Top(t).who  BY <1>1, <1>3
<1>8. Sub(t)' = IF ~Finished(t) /\ a \in {"reserve", "register", "push", "release"}
                THEN Call(t).task ELSE None
  BY <1>4, <1>7 DEF Sub
<1>9. Nxt(t)' = IF Finished(t) /\ a \in {"report", "push", "drop", "drop_handle"}
                THEN Top(t).next ELSE None
  BY <1>4, <1>7 DEF Nxt
<1>10. Entered(t)' = IF ~Finished(t) /\ a \in {"publish", "token"} THEN Call(t).task ELSE None
  BY <1>4, <1>7 DEF Entered
<1>11. Leaving(t)' = IF Finished(t) /\ a = "wake" THEN Top(t).who ELSE None
  BY <1>4, <1>7 DEF Leaving, At
<1> QED  BY <1>3, <1>4, <1>5, <1>6, <1>7, <1>8, <1>9, <1>10, <1>11

\* A thread that returns from its call.
Returns(t) ==
  /\ SetTop(t, NextCall(Top(t))) /\ program' = program /\ runs' = runs /\ draining' = draining
  /\ Top(t).at \notin WorkerLabels \union DrainLabels

LEMMA Returned ==
  ASSUME TypeOK, PoolInv, NEW t \in Threads, Returns(t)
  PROVE  /\ stack' \in [Threads -> Seq(Frames)] /\ \A u \in Threads : stack'[u] # << >>
         /\ Sub(t)' = None /\ Nxt(t)' = None /\ Entered(t)' = None /\ Leaving(t)' = None
         /\ CallRight(t)' /\ StacksRight' /\ DrainersRight'
         /\ \A u \in Threads \ {t} : Quiet(u)
         /\ \A k : OnStack(k)' <=> OnStack(k)
         /\ \A w \in Users \union Tasks : \A i \in Nat : Ahead(w, i)' => Ahead(w, i)
<1>1. PICK g : g = NextCall(Top(t))  OBVIOUS
<1>2. g \in Frames /\ g.at = "call" /\ g.who = Top(t).who /\ g.ip = Top(t).ip + 1
  BY <1>1, TopType, NextCallFrame
<1>3. Moves(t, g)  BY <1>1, <1>2, LabelsApart DEF Moves, Returns
<1>4. /\ stack' \in [Threads -> Seq(Frames)] /\ \A u \in Threads : stack'[u] # << >>
      /\ Top(t)' = g
  BY <1>2, <1>3, MovedFrames
<1>5. /\ StacksRight'
      /\ \A u \in Threads \ {t} : Quiet(u)
      /\ \A k : OnStack(k)' <=> OnStack(k)
      /\ \A w \in Users \union Tasks : \A i \in Nat : Ahead(w, i)' => Ahead(w, i)
  BY <1>2, <1>3, Moved DEF Returns
<1>6. DrainersRight'  BY <1>2, <1>3, MovedDrainers, LabelsApart DEF PoolInv, Returns
<1>7. Top(t).at' = "call"  BY <1>2, <1>4
<1>8. /\ Sub(t)' = None /\ Nxt(t)' = None /\ Entered(t)' = None /\ Leaving(t)' = None
      /\ CallRight(t)'
  BY <1>7 DEF SubmitLabels, FinishLabels, Sub, Nxt, Entered, CallRight, At, Leaving
<1> QED  BY <1>4, <1>5, <1>6, <1>8

\* What is known of the task that a thread is submitting.
LEMMA Holding ==
  ASSUME TypeOK, PoolInv, NEW t \in Threads, NEW k \in Tasks, Sub(t) = k
  PROVE  /\ ~Finished(t) /\ InSubmission(t) /\ k = Call(t).task /\ k # None
         /\ Nxt(t) = None /\ Entered(t) = None /\ Leaving(t) = None
         /\ TaskRight(k) /\ ~Nowhere(k) /\ In(k, "submit") /\ runs[k] = 0
         /\ ~Queues(k) /\ ~OnStack(k)
         /\ \A d \in Tasks : cont[d] # k
         /\ \A u \in Threads : Nxt(u) # k
         /\ \A u \in Threads \ {t} : Sub(u) # k /\ Entered(u) # k
         /\ Out(k) <=> ~At(t, "reserve")
<1>0. k # None  BY ThreadPoolAssumption
<1>1. ~Finished(t) /\ k = Call(t).task /\ Top(t).at \in {"reserve", "register", "push", "release"}
  BY <1>0 DEF Sub
<1>2. Top(t).at \in SubmitLabels  BY <1>1 DEF SubmitLabels
<1>3. InSubmission(t) /\ \A u \in Threads \ {t} : Sub(u) # k /\ Entered(u) # k
  BY <1>1, <1>2, InHand
<1>4. Nxt(t) = None /\ Entered(t) = None /\ Leaving(t) = None
  BY <1>1 DEF Nxt, Entered, Leaving
<1>5. TaskRight(k) /\ In(k, "submit")  BY PlaceNames DEF PoolInv
<1>6. ~In(k, "queue") /\ ~In(k, "cont") /\ ~In(k, "next") /\ ~In(k, "stack") /\ runs[k] = 0
      /\ ~Nowhere(k)
  BY <1>5 DEF TaskRight, OnePlace, RunsRight, Places, Nowhere
<1>7. ~Queues(k) /\ ~OnStack(k) /\ (\A d \in Tasks : cont[d] # k) /\ (\A u \in Threads : Nxt(u) # k)
  BY <1>6, PlaceNames
<1>8. Out(k) <=> ~At(t, "reserve")  BY <1>3, <1>7 DEF Out
<1> QED  BY <1>0, <1>1, <1>3, <1>4, <1>5, <1>6, <1>7, <1>8

\* A task that stays with its submitter.
LEMMA SubmissionGoesOn ==
  ASSUME TypeOK, PoolInv, TypeOK', NEW t \in Threads, NEW k \in Tasks, Sub(t) = k,
         NEW a \in {"register", "push", "release"}, GoesTo(t, a),
         UNCHANGED <<queue, up, cont, done, handle, fate>>,
         a = "register" => Call(t).op = "then",
         a = "push" => \A d \in Tasks : Chained(d, k) => done[d] # "no",
         inflight' = IF At(t, "reserve") THEN inflight + 1 ELSE inflight
  PROVE  PoolInv'
<1>1. /\ ~Finished(t) /\ InSubmission(t) /\ k = Call(t).task /\ k # None
      /\ Nxt(t) = None /\ Entered(t) = None /\ Leaving(t) = None
      /\ TaskRight(k) /\ ~Nowhere(k) /\ In(k, "submit") /\ runs[k] = 0
      /\ ~Queues(k) /\ ~OnStack(k)
      /\ \A d \in Tasks : cont[d] # k
      /\ \A u \in Threads : Nxt(u) # k
      /\ \A u \in Threads \ {t} : Sub(u) # k /\ Entered(u) # k
      /\ Out(k) <=> ~At(t, "reserve")
  BY Holding
<1>2. program' = program /\ runs' = runs  BY DEF GoesTo
<1>3. /\ Top(t).at' = a /\ Finished(t)' = Finished(t) /\ Call(t)' = Call(t) /\ InSubmission(t)'
      /\ Sub(t)' = k /\ Nxt(t)' = None /\ Entered(t)' = None /\ Leaving(t)' = None
  BY <1>1, WentTo
<1>4. /\ StacksRight' /\ DrainersRight'
      /\ \A u \in Threads \ {t} : Quiet(u)
      /\ \A j : OnStack(j)' <=> OnStack(j)
      /\ \A w \in Users \union Tasks : \A i \in Nat : Ahead(w, i)' => Ahead(w, i)
  BY WentTo
<1>5. \A j : Queues(j)' <=> Queues(j)  BY DEF Queues
<1>6. /\ In(k, "submit")' /\ ~In(k, "queue")' /\ ~In(k, "cont")' /\ ~In(k, "next")'
      /\ ~In(k, "stack")' /\ (Known(k)' => Known(k))
  <2>1. (In(k, "cont")' <=> \E d \in Tasks : cont'[d] = k) /\ cont' = cont  BY <1>4, PlacesAfter
  <2>2. /\ In(k, "submit")' <=> Sub(t)' = k \/ \E u \in Threads \ {t} : Sub(u) = k
        /\ In(k, "queue")' <=> Queues(k)'
        /\ In(k, "next")' <=> Nxt(t)' = k \/ \E u \in Threads \ {t} : Nxt(u) = k
        /\ In(k, "stack")' <=> OnStack(k)'
        /\ Known(k)' <=> \/ fate'[k] = "accepted" \/ Entered(t)' = k
                         \/ \E u \in Threads \ {t} : Entered(u) = k
    BY <1>4, PlacesAfter
  <2> QED  BY <1>1, <1>3, <1>4, <1>5, <2>1, <2>2 DEF Known
<1>7. TaskRight(k)'
  <2>1. \A x \in Places : In(k, x)' => x = "submit"  BY <1>6 DEF Places
  <2>2. NotLost(k)'  BY <1>1, <1>2, <1>6, PlaceNames DEF TaskRight, NotLost
  <2>3. Follows(k)'
    <3>1. ASSUME NEW d \in Tasks, Chained(d, k)'  PROVE FollowsDep(d, k)'
      <4>1. Chained(d, k)  BY <1>2, <3>1, SamePrograms
      <4>2. ASSUME NEW u \in Threads, Sub(u)' = k /\ At(u, "push")'  PROVE done[d] # "no"
        <5>1. u = t  BY <1>1, <1>4, <4>2 DEF Quiet
        <5> QED  BY <1>3, <4>1, <4>2, <5>1 DEF At
      <4>3. \A u \in Threads : Nxt(u)' # k  BY <1>1, <1>3, <1>4 DEF Quiet
      <4>4. ~Queues(k)' /\ runs'[k] = 0 /\ \A c \in Tasks : cont'[c] # k
        BY <1>1, <1>2, <1>5
      <4> QED  BY <4>2, <4>3, <4>4 DEF FollowsDep
    <3> QED  BY <3>1 DEF Follows
  <2>4. "submit" \in Places /\ runs'[k] = 0  BY <1>1, <1>2 DEF Places
  <2> QED  BY <1>1, <1>2, <1>4, <2>1, <2>2, <2>3, <2>4, TaskTo
<1>8. CallRight(t)'  BY <1>1, <1>3 DEF CallRight, At, SubmitLabels, FinishLabels
<1>9. OnceThere'
  <2>1. OnceQueued /\ OnceRegistered /\ OnceFired  BY DEF PoolInv, OnceThere
  <2>2. OnceQueued' /\ OnceRegistered'  BY <2>1 DEF OnceQueued, OnceRegistered
  <2>3. \A u \in Threads : Nxt(u)' = Nxt(u)  BY <1>1, <1>3, <1>4 DEF Quiet
  <2> QED  BY <2>1, <2>2, <2>3 DEF OnceFired, OnceThere
<1>10. Concerns(t, k)
  <2>1. Acts(t, k)  BY <1>1, <1>3 DEF Acts
  <2>2. \A j \in Tasks : Spared(j)  BY <1>2, <1>4, <1>5 DEF Spared
  <2> QED  BY <1>2, <1>4, <2>1, <2>2 DEF Concerns
<1>11. Out(k)'
  <2>1. At(t, "reserve")' <=> a = "reserve"  BY <1>3 DEF At
  <2> QED  BY <1>3, <2>1 DEF Out
<1>12. CountedAlike(k) \/ CountedNew(k)
  BY <1>1, <1>11 DEF CountedAlike, CountedNew
<1> QED  BY <1>4, <1>7, <1>8, <1>9, <1>10, <1>12, Preserved

LEMMA InCallSubmits ==
  ASSUME TypeOK, PoolInv, NEW t \in Threads, InCall(t, Submissions)
  PROVE  /\ Top(t).at = "call" /\ ~Finished(t) /\ InSubmission(t) /\ Call(t).task \in Tasks
         /\ Fresh(Call(t).task) /\ Nowhere(Call(t).task)
<1>1. Top(t).at = "call" /\ Call(t).op \in Submissions /\ Top(t).ip \in DOMAIN program[Top(t).who]
  BY DEF InCall, At, Call
<1>2. Top(t).who \in Users \union Tasks
  <2>1. Top(t).who \in Threads \union Tasks /\ (Len(stack[t]) = 1 \/ Len(stack[t]) > 1)
    BY TopType, TopPlace DEF PoolInv
  <2>2. Len(stack[t]) = 1 => Top(t).who = t /\ t \notin Workers
    BY <1>1, TopPlace, LabelsApart DEF PoolInv
  <2>3. Len(stack[t]) > 1 => Top(t).who \in Tasks  BY TopPlace DEF PoolInv
  <2> QED  BY <2>1, <2>2, <2>3 DEF Threads
<1>3. InSubmission(t)  BY <1>1, <1>2 DEF InSubmission
<1>4. ~Finished(t)
  <2>1. program \in Programs  BY DEF TypeOK
  <2>2. program[Top(t).who] \in Seq(Calls)  BY <1>2, <2>1, ThreadPoolAssumption
  <2>3. Top(t).ip <= Len(program[Top(t).who])  BY <1>1, <2>2
  <2>4. Top(t).ip \in Nat /\ Len(program[Top(t).who]) \in Nat  BY <2>2, TopType
  <2> QED  BY <2>3, <2>4 DEF Finished
<1>5. Call(t).task \in Tasks /\ Submits(Top(t).who, Top(t).ip, Call(t).task)
  BY <1>3, SubmittedTask
<1>6. Ahead(Top(t).who, Top(t).ip)  BY <1>1, TopType DEF Ahead
<1>7. Fresh(Call(t).task)  BY <1>5 DEF PoolInv, TaskRight
<1>8. Nowhere(Call(t).task)  BY <1>1, <1>2, <1>5, <1>6, <1>7 DEF Fresh
<1> QED  BY <1>1, <1>3, <1>4, <1>5, <1>7, <1>8

Accepting(t) ==
  /\ InCall(t, Submissions)
  /\ handle' = [handle EXCEPT ![Call(t).task] = IF Call(t).op = "detach" THEN "none" ELSE "live"]
  /\ Goto(t, "reserve")
  /\ UNCHANGED <<program, queue, pool, holder, cont, done, fate, runs>>

LEMMA SubmissionStarts ==
  ASSUME TypeOK, PoolInv, NEW t \in Threads, Accepting(t)
  PROVE  TypeOK' /\ PoolInv'
<1>0. InCall(t, Submissions)  BY DEF Accepting
<1>1. PICK k : k = Call(t).task  OBVIOUS
<1>2. /\ Top(t).at = "call" /\ ~Finished(t) /\ InSubmission(t) /\ k \in Tasks /\ k # None
      /\ Fresh(k) /\ Nowhere(k)
  BY <1>0, <1>1, InCallSubmits, ThreadPoolAssumption
<1>3. /\ UNCHANGED <<program, queue, tokens, inflight, draining, stop, up, holder>>
      /\ UNCHANGED <<cont, done, fate, runs>>
  BY DEF Accepting, pool
<1>4. GoesTo(t, "reserve")
  BY <1>2, <1>3, LabelsApart DEF Accepting, GoesTo, Labels, WorkerLabels, DrainLabels
<1>5. /\ Top(t).at' = "reserve" /\ Finished(t)' = Finished(t) /\ Call(t)' = Call(t) /\ InSubmission(t)'
      /\ Sub(t)' = k /\ Nxt(t)' = None /\ Entered(t)' = None /\ Leaving(t)' = None
      /\ Top(t).who' = Top(t).who
      /\ stack' \in [Threads -> Seq(Frames)] /\ \A u \in Threads : stack'[u] # << >>
  BY <1>1, <1>2, <1>4, WentTo
<1>6. /\ StacksRight' /\ DrainersRight'
      /\ \A u \in Threads \ {t} : Quiet(u)
      /\ \A j : OnStack(j)' <=> OnStack(j)
      /\ \A w \in Users \union Tasks : \A i \in Nat : Ahead(w, i)' => Ahead(w, i)
  BY <1>4, WentTo
<1>7. /\ handle' \in [Tasks -> {"none", "live", "deleted"}]
      /\ \A j \in Tasks \ {k} : handle'[j] = handle[j]
      /\ handle'[k] = IF Call(t).op = "detach" THEN "none" ELSE "live"
  <2>1. handle \in [Tasks -> {"none", "live", "deleted"}]  BY DEF TypeOK
  <2>2. PICK h \in {"none", "live"} : h = IF Call(t).op = "detach" THEN "none" ELSE "live"  OBVIOUS
  <2>3. handle' = [handle EXCEPT ![k] = h]  BY <1>1, <2>2 DEF Accepting
  <2> QED  BY <1>2, <2>1, <2>2, <2>3
<1>8. TypeOK'  BY <1>3, <1>5, <1>7 DEF TypeOK
<1>9. /\ Sub(t) = None /\ Nxt(t) = None /\ Entered(t) = None /\ Leaving(t) = None
  BY <1>2, LabelsApart, Neutral DEF Leaving
<1>10. /\ runs[k] = 0 /\ ~Queues(k) /\ ~OnStack(k) /\ \A d \in Tasks : cont[d] # k
       /\ \A u \in Threads : Nxt(u) # k /\ Sub(u) # k
  BY <1>2, PlaceNames DEF Nowhere, Places
<1>11. \A j : Queues(j)' <=> Queues(j)  BY <1>3 DEF Queues
<1>12. /\ \A u \in Threads \ {t} : Sub(u)' # k
       /\ \A u \in Threads : Nxt(u)' # k
       /\ ~Queues(k)' /\ ~OnStack(k)' /\ (\A d \in Tasks : cont'[d] # k) /\ runs'[k] = 0
  BY <1>2, <1>3, <1>5, <1>6, <1>10, <1>11 DEF Quiet
<1>13. ~Out(k) /\ ~Out(k)'
  <2>1. ~Out(k)  BY <1>10 DEF Out
  <2>2. At(t, "reserve")'  BY <1>5 DEF At
  <2> QED  BY <1>12, <2>1, <2>2 DEF Out
<1>14. /\ ~In(k, "queue")' /\ ~In(k, "cont")' /\ ~In(k, "next")' /\ ~In(k, "stack")'
       /\ Known(k)' => Known(k)
  <2>1. In(k, "cont")' <=> \E d \in Tasks : cont'[d] = k  BY <1>6, PlacesAfter
  <2>2. /\ In(k, "queue")' <=> Queues(k)'
        /\ In(k, "next")' <=> Nxt(t)' = k \/ \E u \in Threads \ {t} : Nxt(u) = k
        /\ In(k, "stack")' <=> OnStack(k)'
        /\ Known(k)' <=> \/ fate'[k] = "accepted" \/ Entered(t)' = k
                         \/ \E u \in Threads \ {t} : Entered(u) = k
    BY <1>6, PlacesAfter
  <2> QED  BY <1>2, <1>3, <1>5, <1>10, <1>12, <2>1, <2>2 DEF Known
<1>15. TaskRight(k)'
  <2>1. \A x \in Places : In(k, x)' => x = "submit"  BY <1>14 DEF Places
  <2>2. OnePlace(k)'
    <3>1. \A x, y \in Places : In(k, x)' /\ In(k, y)' => x = y  BY <2>1
    <3> QED  BY <3>1 DEF OnePlace
  <2>3. RunsRight(k)'
    <3>1. \A x \in Places : In(k, x)' => runs'[k] = (IF x = "stack" THEN 1 ELSE 0)
      BY <1>12, <2>1
    <3> QED  BY <1>12, <3>1 DEF RunsRight
  <2>4. Fresh(k)'
    <3>1. ASSUME NEW w \in Users \union Tasks, NEW i \in DOMAIN program'[w],
                 Submits(w, i, k)', Ahead(w, i)'
          PROVE  FALSE
      <4>1. Submits(w, i, k) /\ Submits(Top(t).who, Top(t).ip, k)
        BY <1>1, <1>2, <1>3, <3>1, SubmittedTask DEF Submits
      <4>2. program \in Programs  BY DEF TypeOK
      <4>3. DOMAIN program = Users \union Tasks  BY <4>2, ThreadPoolAssumption
      <4>4. w = Top(t).who /\ i = Top(t).ip
        BY <4>1, <4>2, <4>3, OneSubmissionEach DEF Submits
      <4>5. stack'[t][1].who = w /\ stack'[t][1].at = "reserve" /\ 1 \in DOMAIN stack'[t]
            /\ stack'[t][1].ip = i
        <5>1. PICK g \in Frames : /\ SetTop(t, g) /\ g.at = "reserve" /\ g.who = Top(t).who
                                  /\ g.ip = Top(t).ip
          BY GotoEffect DEF Accepting, Labels
        <5>2. stack'[t][1] = g /\ Len(stack'[t]) = Len(stack[t])  BY <5>1, SetTopEffect
        <5>3. Len(stack'[t]) \in Nat \ {0} /\ stack'[t] \in Seq(Frames)  BY <1>5, <5>2, TopType
        <5>4. 1 \in DOMAIN stack'[t]  BY <5>3
        <5> QED  BY <4>4, <5>1, <5>2, <5>4
      <4>6. OnStack(w)'  BY <4>5 DEF OnStack
      <4>7. PICK u \in Threads : \E j \in DOMAIN stack'[u] :
              LET f == stack'[u][j] IN f.who = w /\ (f.ip < i \/ (f.ip = i /\ f.at = "call"))
        BY <3>1, <4>6 DEF Ahead
      <4>8. PICK j \in DOMAIN stack'[u] :
              LET f == stack'[u][j] IN f.who = w /\ (f.ip < i \/ (f.ip = i /\ f.at = "call"))
        BY <4>7
      <4>9. u = t /\ j = 1  BY <1>6, <4>5, <4>8 DEF StacksRight
      <4>10. i < i  BY <4>5, <4>8, <4>9
      <4>11. i \in Nat  BY <4>4, TopType
      <4> QED  BY <4>10, <4>11
    <3> QED  BY <3>1 DEF Fresh
  <2>5. NotLost(k)'
    <3>1. NotLost(k)  BY <1>2 DEF PoolInv, TaskRight
    <3> QED  BY <1>3, <1>10, <1>14, <3>1, PlaceNames DEF NotLost
  <2>6. HandleKept(k)'
    <3>1. Call(t).op = "detach" => Detached(k)'
      BY <1>1, <1>2, <1>3 DEF InSubmission, Detached, Call
    <3>2. handle'[k] # "none" \/ Detached(k)'  BY <1>7, <3>1
    <3> QED  BY <3>2 DEF HandleKept
  <2>7. Follows(k)'
    <3>1. \A u \in Threads : ~(Sub(u)' = k /\ At(u, "push")')  BY <1>5, <1>12 DEF At
    <3>2. ASSUME NEW d \in Tasks  PROVE FollowsDep(d, k)'  BY <1>12, <3>1 DEF FollowsDep
    <3> QED  BY <3>2 DEF Follows
  <2> QED  BY <2>2, <2>3, <2>4, <2>5, <2>6, <2>7 DEF TaskRight
<1>16. CallRight(t)'  BY <1>2, <1>5 DEF CallRight, At, SubmitLabels, FinishLabels
<1>17. OnceThere'
  <2>1. OnceQueued /\ OnceRegistered /\ OnceFired  BY DEF PoolInv, OnceThere
  <2>2. OnceQueued' /\ OnceRegistered'  BY <1>3, <2>1 DEF OnceQueued, OnceRegistered
  <2>3. \A u \in Threads : Nxt(u)' = Nxt(u)  BY <1>5, <1>6, <1>9 DEF Quiet
  <2> QED  BY <2>1, <2>2, <2>3 DEF OnceFired, OnceThere
<1>18. Concerns(t, k)
  <2>1. Acts(t, k)  BY <1>5, <1>9 DEF Acts
  <2>2. \A j \in Tasks \ {k} : Spared(j)  BY <1>3, <1>6, <1>7, <1>11 DEF Spared
  <2> QED  BY <1>3, <1>6, <2>1, <2>2 DEF Concerns
<1>19. CountedAlike(k)  BY <1>3, <1>13 DEF CountedAlike
<1> QED  BY <1>2, <1>6, <1>8, <1>15, <1>16, <1>17, <1>18, <1>19, Preserved

-----------------------------------------------------------------------------
(* The queues. *)

Items == [item : Tasks, ready : BOOLEAN]

LEMMA QueueAppended ==
  ASSUME TypeOK, NEW l \in Levels, NEW p \in Tasks,
         queue' = [queue EXCEPT ![l] = Append(@, [item |-> p, ready |-> FALSE])]
  PROVE  /\ queue' \in [Levels -> Seq([item : Tasks, ready : BOOLEAN])]
         /\ \A j : Queues(j)' <=> Queues(j) \/ j = p
         /\ OnceQueued /\ ~Queues(p) => OnceQueued'
<1>1. PICK e : e = [item |-> p, ready |-> FALSE]  OBVIOUS
<1>2. e \in Items /\ e.item = p  BY <1>1 DEF Items
<1>3. queue \in [Levels -> Seq(Items)]  BY DEF TypeOK, Items
<1>4. PICK q : q = Append(queue[l], e)  OBVIOUS
<1>5. queue' = [queue EXCEPT ![l] = q]  BY <1>1, <1>4
<1>6. queue[l] \in Seq(Items) /\ Len(queue[l]) \in Nat  BY <1>3
<1>7. /\ q \in Seq(Items) /\ Len(q) = Len(queue[l]) + 1 /\ q[Len(queue[l]) + 1] = e
      /\ \A i \in 1 .. Len(queue[l]) : q[i] = queue[l][i]
  BY <1>2, <1>4, <1>6
<1>8. /\ queue' \in [Levels -> Seq(Items)] /\ queue'[l] = q
      /\ \A m \in Levels \ {l} : queue'[m] = queue[m]
  BY <1>3, <1>5, <1>7
<1>9. DOMAIN q = 1 .. Len(queue[l]) + 1 /\ DOMAIN queue[l] = 1 .. Len(queue[l])
  BY <1>6, <1>7
<1>10. \A i : i \in DOMAIN q <=> i \in DOMAIN queue[l] \/ i = Len(queue[l]) + 1
  BY <1>6, <1>9
<1>11. Len(queue[l]) + 1 \notin DOMAIN queue[l]  BY <1>6, <1>9
<1>12. /\ \A i \in DOMAIN queue[l] : i \in DOMAIN q /\ q[i] = queue[l][i]
       /\ \A i \in DOMAIN q : i \in DOMAIN queue[l] \/ (i = Len(queue[l]) + 1 /\ q[i].item = p)
       /\ \E i \in DOMAIN q : q[i].item = p
  BY <1>2, <1>7, <1>9, <1>10
<1> HIDE DEF Items
<1>13. ASSUME NEW j  PROVE Queues(j)' <=> Queues(j) \/ j = p
  <2>1. Queues(j)' <=> \E m \in Levels : \E i \in DOMAIN queue'[m] : queue'[m][i].item = j
    BY DEF Queues
  <2>2. ASSUME NEW m \in Levels, NEW i \in DOMAIN queue'[m], queue'[m][i].item = j
        PROVE  Queues(j) \/ j = p
    BY <1>8, <1>12, <2>2 DEF Queues
  <2>3. ASSUME NEW m \in Levels, NEW i \in DOMAIN queue[m], queue[m][i].item = j
        PROVE  \E x \in Levels : \E y \in DOMAIN queue'[x] : queue'[x][y].item = j
    <3>1. CASE m = l  BY <1>8, <1>12, <2>3, <3>1
    <3>2. CASE m # l  BY <1>8, <2>3, <3>2
    <3> QED  BY <3>1, <3>2
  <2>4. j = p => \E x \in Levels : \E y \in DOMAIN queue'[x] : queue'[x][y].item = j
    BY <1>8, <1>12
  <2> QED  BY <2>1, <2>2, <2>3, <2>4 DEF Queues
<1>14. ASSUME OnceQueued, ~Queues(p)  PROVE OnceQueued'
  <2>1. ASSUME NEW x \in Levels, NEW y \in Levels, NEW i \in DOMAIN queue'[x],
               NEW j \in DOMAIN queue'[y], queue'[x][i].item = queue'[y][j].item
        PROVE  x = y /\ i = j
    <3>1. /\ \/ i \in DOMAIN queue[x] /\ queue'[x][i] = queue[x][i] /\ queue'[x][i].item # p
             \/ x = l /\ i = Len(queue[l]) + 1 /\ queue'[x][i].item = p
          /\ \/ j \in DOMAIN queue[y] /\ queue'[y][j] = queue[y][j] /\ queue'[y][j].item # p
             \/ y = l /\ j = Len(queue[l]) + 1 /\ queue'[y][j].item = p
      BY <1>8, <1>12, <1>14 DEF Queues
    <3> QED  BY <1>14, <2>1, <3>1 DEF OnceQueued
  <2> QED  BY <2>1 DEF OnceQueued
<1> QED  BY <1>8, <1>13, <1>14 DEF Items

LEMMA QueuePublished ==
  ASSUME TypeOK, NEW l \in Levels, NEW p,
         queue' = [queue EXCEPT ![l] =
                     [i \in DOMAIN @ |-> IF @[i].item = p THEN [@[i] EXCEPT !.ready = TRUE] ELSE @[i]]]
  PROVE  /\ queue' \in [Levels -> Seq([item : Tasks, ready : BOOLEAN])]
         /\ \A j : Queues(j)' <=> Queues(j)
         /\ OnceQueued => OnceQueued'
<1>1. PICK s : s = queue[l]  OBVIOUS
<1>2. queue \in [Levels -> Seq(Items)]  BY DEF TypeOK, Items
<1>3. s \in Seq(Items) /\ Len(s) \in Nat /\ DOMAIN s = 1 .. Len(s)  BY <1>1, <1>2
<1>4. PICK q : q = [i \in DOMAIN s |-> IF s[i].item = p THEN [s[i] EXCEPT !.ready = TRUE] ELSE s[i]]
  OBVIOUS
<1>5. \A i \in DOMAIN s : s[i] \in Items  BY <1>3
<1>6. DOMAIN q = DOMAIN s /\ \A i \in DOMAIN s : q[i] \in Items /\ q[i].item = s[i].item
  <2>1. \A e \in Items : [e EXCEPT !.ready = TRUE] \in Items /\ [e EXCEPT !.ready = TRUE].item = e.item
    BY DEF Items
  <2> QED  BY <1>4, <1>5, <2>1
<1>7. q \in Seq(Items)
  <2>1. q = [i \in 1 .. Len(s) |-> q[i]]  BY <1>3, <1>4, <1>6
  <2>2. q \in [1 .. Len(s) -> Items]  BY <1>3, <1>6, <2>1
  <2> QED  BY <1>3, <2>2
<1>8. queue' = [queue EXCEPT ![l] = q]  BY <1>1, <1>4
<1>9. /\ queue' \in [Levels -> Seq(Items)]
      /\ \A m \in Levels : DOMAIN queue'[m] = DOMAIN queue[m]
      /\ \A m \in Levels : \A i \in DOMAIN queue[m] : queue'[m][i].item = queue[m][i].item
  BY <1>1, <1>2, <1>6, <1>7, <1>8
<1>10. ASSUME NEW j  PROVE Queues(j)' <=> Queues(j)
  <2>1. Queues(j)' <=> \E m \in Levels : \E i \in DOMAIN queue'[m] : queue'[m][i].item = j
    BY DEF Queues
  <2>2. \A m \in Levels : (\E i \in DOMAIN queue'[m] : queue'[m][i].item = j)
                            <=> (\E i \in DOMAIN queue[m] : queue[m][i].item = j)
    <3>1. ASSUME NEW m \in Levels
          PROVE  (\E i \in DOMAIN queue'[m] : queue'[m][i].item = j)
                   <=> (\E i \in DOMAIN queue[m] : queue[m][i].item = j)
      <4>1. /\ DOMAIN queue'[m] = DOMAIN queue[m]
            /\ \A i \in DOMAIN queue[m] : queue'[m][i].item = queue[m][i].item
        BY <1>9
      <4> QED  BY <4>1
    <3> QED  BY <3>1
  <2> QED  BY <2>1, <2>2 DEF Queues
<1>11. OnceQueued => OnceQueued'  BY <1>9 DEF OnceQueued
<1> QED  BY <1>9, <1>10, <1>11 DEF Items

LEMMA QueuePopped ==
  ASSUME TypeOK, NEW l \in Levels, queue[l] # << >>, queue' = [queue EXCEPT ![l] = Tail(@)],
         OnceQueued, NEW k, k = Head(queue[l]).item
  PROVE  /\ queue' \in [Levels -> Seq([item : Tasks, ready : BOOLEAN])]
         /\ k \in Tasks /\ Queues(k)
         /\ \A j : Queues(j)' <=> Queues(j) /\ j # k
         /\ OnceQueued'
<1>2. queue \in [Levels -> Seq(Items)]  BY DEF TypeOK, Items
<1>3. PICK s : s = queue[l]  OBVIOUS
<1>4. s \in Seq(Items) /\ s # << >>  BY <1>2, <1>3
<1>5. PICK q : q = Tail(s)  OBVIOUS
<1>6. /\ Len(s) \in Nat \ {0} /\ DOMAIN s = 1 .. Len(s) /\ 1 \in DOMAIN s /\ Head(s) = s[1]
      /\ q \in Seq(Items) /\ DOMAIN q = 1 .. (Len(s) - 1)
      /\ \A i \in DOMAIN q : i + 1 \in DOMAIN s /\ q[i] = s[i + 1]
  BY <1>4, <1>5
<1>7. \A i \in DOMAIN s : i = 1 \/ (i - 1 \in DOMAIN q /\ q[i - 1] = s[i])  BY <1>6
<1>8. queue' = [queue EXCEPT ![l] = q]  BY <1>3, <1>5
<1>9. /\ queue' \in [Levels -> Seq(Items)] /\ queue'[l] = q
      /\ \A m \in Levels \ {l} : queue'[m] = queue[m]
  BY <1>2, <1>6, <1>8
<1>10. k = s[1].item /\ k \in Tasks
  <2>1. s[1] \in Items  BY <1>4, <1>6
  <2> QED  BY <1>3, <1>6, <2>1 DEF Items
<1>11. Queues(k)  BY <1>3, <1>6, <1>10 DEF Queues
<1>12. \A m \in Levels : \A i \in DOMAIN queue[m] : queue[m][i].item = k => m = l /\ i = 1
  BY <1>3, <1>6, <1>10 DEF OnceQueued
<1>13. \A i \in DOMAIN q : i \in Nat \ {0} /\ i + 1 # 1  BY <1>6
<1>14. \A i \in DOMAIN q : q[i].item # k
  <2>1. ASSUME NEW i \in DOMAIN q  PROVE q[i].item # k
    <3>1. i + 1 \in DOMAIN queue[l] /\ q[i] = queue[l][i + 1] /\ i + 1 # 1
      BY <1>3, <1>6, <1>13
    <3> QED  BY <1>12, <3>1
  <2> QED  BY <2>1
<1>15. ASSUME NEW j  PROVE Queues(j)' <=> Queues(j) /\ j # k
  <2>1. Queues(j)' <=> \E m \in Levels : \E i \in DOMAIN queue'[m] : queue'[m][i].item = j
    BY DEF Queues
  <2>2. ASSUME NEW m \in Levels, NEW i \in DOMAIN queue'[m], queue'[m][i].item = j
        PROVE  Queues(j) /\ j # k
    <3>1. CASE m = l
      <4>1. i + 1 \in DOMAIN queue[l] /\ q[i] = queue[l][i + 1] /\ q[i].item = j
        BY <1>3, <1>6, <1>9, <2>2, <3>1
      <4>2. j # k  BY <1>9, <1>14, <2>2, <3>1
      <4>3. Queues(j)  BY <4>1 DEF Queues
      <4> QED  BY <4>2, <4>3
    <3>2. CASE m # l  BY <1>9, <1>12, <2>2, <3>2 DEF Queues
    <3> QED  BY <3>1, <3>2
  <2>3. ASSUME NEW m \in Levels, NEW i \in DOMAIN queue[m], queue[m][i].item = j, j # k
        PROVE  \E x \in Levels : \E y \in DOMAIN queue'[x] : queue'[x][y].item = j
    <3>1. CASE m = l
      <4>1. i # 1  BY <1>3, <1>10, <2>3, <3>1
      <4>2. i - 1 \in DOMAIN q /\ q[i - 1] = queue[l][i]  BY <1>3, <1>7, <2>3, <3>1, <4>1
      <4>3. i - 1 \in DOMAIN queue'[l] /\ queue'[l][i - 1].item = j  BY <1>9, <2>3, <3>1, <4>2
      <4> QED  BY <4>3
    <3>2. CASE m # l  BY <1>9, <2>3, <3>2
    <3> QED  BY <3>1, <3>2
  <2> QED  BY <2>1, <2>2, <2>3 DEF Queues
<1>16. OnceQueued'
  <2>1. ASSUME NEW x \in Levels, NEW y \in Levels, NEW i \in DOMAIN queue'[x],
               NEW j \in DOMAIN queue'[y], queue'[x][i].item = queue'[y][j].item
        PROVE  x = y /\ i = j
    <3> DEFINE from(z, n) == IF z = l THEN n + 1 ELSE n
    <3>1. /\ from(x, i) \in DOMAIN queue[x] /\ queue'[x][i] = queue[x][from(x, i)]
          /\ from(y, j) \in DOMAIN queue[y] /\ queue'[y][j] = queue[y][from(y, j)]
      BY <1>3, <1>6, <1>9
    <3>2. x = y /\ from(x, i) = from(y, j)  BY <2>1, <3>1 DEF OnceQueued
    <3>3. x = l => i \in Nat /\ j \in Nat  BY <1>9, <1>13, <3>2
    <3> QED  BY <3>2, <3>3
  <2> QED  BY <2>1 DEF OnceQueued
<1> QED  BY <1>9, <1>10, <1>11, <1>15, <1>16 DEF Items

-----------------------------------------------------------------------------
(* Steps that leave every task where it is. *)

\* What every step of thread t on its own stack keeps.
OwnStep(t) ==
  /\ program' = program /\ up' = up
  /\ StacksRight' /\ DrainersRight'
  /\ \A u \in Threads \ {t} : Quiet(u)
  /\ \A w \in Users \union Tasks : \A i \in Nat : Ahead(w, i)' => Ahead(w, i)

LEMMA TaskKept ==
  ASSUME TypeOK, PoolInv, NEW t \in Threads, OwnStep(t), NEW k \in Tasks,
         Sub(t) # k, Sub(t)' # k, Nxt(t) # k, Nxt(t)' # k,
         UNCHANGED <<cont, done, handle, runs>>,
         Queues(k)' <=> Queues(k), OnStack(k)' <=> OnStack(k), Known(k)' => Known(k)
  PROVE  TaskRight(k)'
<1>1. TaskRight(k)  BY DEF PoolInv
<1>2. \A x \in Places : In(k, x)' <=> In(k, x)
  <2>1. \A u \in Threads : (Sub(u)' = k <=> Sub(u) = k) /\ (Nxt(u)' = k <=> Nxt(u) = k)
    BY DEF OwnStep, Quiet
  <2> QED  BY <2>1 DEF In
<1>3. CASE Nowhere(k)
  <2>1. Nowhere(k)'  BY <1>2, <1>3 DEF Nowhere
  <2>2. OnePlace(k)' /\ RunsRight(k)' /\ Fresh(k)' /\ HandleKept(k)'
    BY <2>1 DEF Nowhere, OnePlace, RunsRight, Fresh, HandleKept
  <2>3. NotLost(k)'
    <3>1. ~In(k, "queue") /\ ~In(k, "cont") /\ ~In(k, "next")  BY <1>3 DEF Nowhere, Places
    <3> QED  BY <1>1, <1>3, <3>1 DEF TaskRight, NotLost, Nowhere, OwnStep
  <2>4. Follows(k)'
    <3>1. /\ ~In(k, "submit")' /\ ~In(k, "queue")' /\ ~In(k, "cont")' /\ ~In(k, "next")'
          /\ runs'[k] = 0
      BY <2>1 DEF Nowhere, Places
    <3>2. /\ \A u \in Threads : Sub(u)' # k /\ Nxt(u)' # k
          /\ ~Queues(k)' /\ \A c \in Tasks : cont'[c] # k
      BY <3>1 DEF In
    <3>3. ASSUME NEW d \in Tasks  PROVE FollowsDep(d, k)'  BY <3>1, <3>2 DEF FollowsDep
    <3> QED  BY <3>3 DEF Follows
  <2> QED  BY <2>2, <2>3, <2>4 DEF TaskRight
<1>4. CASE ~Nowhere(k)
  <2>1. OnePlace(k)'  BY <1>1, <1>2 DEF TaskRight, OnePlace
  <2>2. RunsRight(k)'  BY <1>1, <1>2 DEF TaskRight, RunsRight
  <2>3. Fresh(k)'
    <3>1. ASSUME NEW w \in Users \union Tasks, NEW i \in DOMAIN program'[w],
                 Submits(w, i, k)', Ahead(w, i)'
          PROVE  FALSE
      <4>1. Submits(w, i, k)  BY <3>1 DEF Submits, OwnStep
      <4>2. program \in Programs  BY DEF TypeOK
      <4>3. program[w] \in Seq(Calls)  BY <4>2, ThreadPoolAssumption
      <4>4. i \in Nat  BY <4>3 DEF OwnStep
      <4>5. Ahead(w, i)  BY <3>1, <4>4 DEF OwnStep
      <4> QED  BY <1>1, <1>4, <3>1, <4>1, <4>5 DEF TaskRight, Fresh, OwnStep
    <3> QED  BY <3>1 DEF Fresh
  <2>4. NotLost(k)'
    <3>1. "queue" \in Places /\ "cont" \in Places /\ "next" \in Places  BY DEF Places
    <3>2. /\ In(k, "queue")' <=> In(k, "queue")
          /\ In(k, "cont")' <=> In(k, "cont")
          /\ In(k, "next")' <=> In(k, "next")
      BY <1>2, <3>1
    <3> QED  BY <1>1, <3>2 DEF TaskRight, NotLost, OwnStep
  <2>5. HandleKept(k)'
    <3>1. Detached(k) => Detached(k)'  BY SamePrograms DEF OwnStep
    <3> QED  BY <1>1, <1>2, <3>1 DEF TaskRight, HandleKept
  <2>6. Follows(k)'
    <3>1. ASSUME NEW d \in Tasks, FollowsDep(d, k)  PROVE FollowsDep(d, k)'
      <4>1. /\ Queues(k)' \/ runs'[k] > 0 => done'[d] # "no"
            /\ \A c \in Tasks : cont'[c] = k => c = d
        BY <3>1 DEF FollowsDep
      <4>2. ASSUME NEW u \in Threads
            PROVE  /\ Nxt(u)' = k => IF At(u, "report")' THEN Top(u).who' = d ELSE done'[d] # "no"
                   /\ Sub(u)' = k /\ At(u, "push")' => done'[d] # "no"
        <5>1. CASE u = t  BY <5>1
        <5>2. CASE u # t
          <6>1. /\ Sub(u)' = Sub(u) /\ Nxt(u)' = Nxt(u) /\ Top(u).who' = Top(u).who
                /\ At(u, "push")' <=> At(u, "push")
                /\ At(u, "report")' <=> At(u, "report")
            BY <5>2 DEF OwnStep, Quiet
          <6> QED  BY <3>1, <6>1 DEF FollowsDep
        <5> QED  BY <5>1, <5>2
      <4> QED  BY <4>1, <4>2 DEF FollowsDep
    <3>2. \A d \in Tasks : Chained(d, k)' => Chained(d, k)  BY SamePrograms DEF OwnStep
    <3> QED  BY <1>1, <3>1, <3>2 DEF TaskRight, Follows
  <2> QED  BY <2>1, <2>2, <2>3, <2>4, <2>5, <2>6 DEF TaskRight
<1> QED  BY <1>3, <1>4

LEMMA StatusStep ==
  ASSUME TypeOK, PoolInv, TypeOK', NEW t \in Threads, OwnStep(t), CallRight(t)', NEW k,
         Sub(t) = None, Sub(t)' = None, Nxt(t) = None, Nxt(t)' = None,
         Entered(t) \in {k, None}, Entered(t)' \in {k, None},
         Leaving(t) = None, Leaving(t)' = None,
         UNCHANGED <<cont, done, handle, runs, inflight>>,
         \A j : Queues(j)' <=> Queues(j), OnceQueued',
         \A j : OnStack(j)' <=> OnStack(j),
         \A j \in Tasks \ {k} : fate'[j] = "accepted" => fate[j] = "accepted",
         k \in Tasks => (Known(k)' => Known(k))
  PROVE  PoolInv'
<1>0. None \notin Tasks  BY ThreadPoolAssumption
<1>1. k \in Tasks => TaskRight(k)'  BY <1>0, TaskKept
<1>2. Concerns(t, k)
  <2>1. \A j \in Tasks \ {k} : Spared(j)  BY DEF Spared
  <2>2. Acts(t, k)  BY DEF Acts
  <2> QED  BY <2>1, <2>2 DEF Concerns, OwnStep
<1>3. OnceThere'
  <2>1. OnceRegistered /\ OnceFired  BY DEF PoolInv, OnceThere
  <2>2. OnceRegistered'  BY <2>1 DEF OnceRegistered
  <2>3. \A u \in Threads : Nxt(u)' = Nxt(u)  BY DEF OwnStep, Quiet
  <2> QED  BY <2>1, <2>2, <2>3 DEF OnceFired, OnceThere
<1>4. k \in Tasks => (Out(k)' <=> Out(k))
  <2>1. ASSUME k \in Tasks
        PROVE  /\ \A u \in Threads : Sub(u)' = k /\ ~At(u, "reserve")' <=> Sub(u) = k /\ ~At(u, "reserve")
               /\ \A u \in Threads : Nxt(u)' = k /\ ~At(u, "drop_handle")'
                                       <=> Nxt(u) = k /\ ~At(u, "drop_handle")
               /\ \A u \in Threads : Leaving(u)' = Leaving(u)
    BY <1>0, <2>1 DEF OwnStep, Quiet
  <2>2. ASSUME k \in Tasks  PROVE Counted(k)' <=> Counted(k)
    <3>1. k # None  BY <1>0, <2>2
    <3>2. Counted(k)' <=> ~\E u \in Threads : (Leaving(u) = k)'  BY <3>1 DEF Counted, Leaving
    <3> QED  BY <2>1, <2>2, <3>2, CountedStatus
  <2> QED  BY <2>1, <2>2 DEF Out
<1>5. CountedAlike(k)  BY <1>4 DEF CountedAlike
<1> QED  BY <1>1, <1>2, <1>3, <1>5, Preserved DEF OwnStep

-----------------------------------------------------------------------------
(* submit, submitDetached and then. *)

LEMMA SubmitStep ==
  ASSUME TypeOK, PoolInv, NEW t \in Threads, StartSubmit(t)
  PROVE  TypeOK' /\ PoolInv'
<1>1. CASE stop \/ ~up \/ (Call(t).op = "then" /\ fate[Call(t).dep] = "refused")
  <2>1. Refusing(t)  BY <1>1 DEF StartSubmit, Refusing
  <2> QED  BY <2>1, PlainRefusal
<1>2. CASE ~(stop \/ ~up \/ (Call(t).op = "then" /\ fate[Call(t).dep] = "refused"))
  <2>1. Accepting(t)  BY <1>2 DEF StartSubmit, Accepting
  <2> QED  BY <2>1, SubmissionStarts
<1> QED  BY <1>1, <1>2

LEMMA SubmitLabelsApart ==
  ASSUME NEW a \in SubmitLabels \union FinishLabels
  PROVE  a \in Labels \ (WorkerLabels \union DrainLabels) /\ a # "call"
BY DEF SubmitLabels, FinishLabels, Labels, WorkerLabels, DrainLabels

LEMMA ReserveStep ==
  ASSUME TypeOK, PoolInv, NEW t \in Threads, Reserve(t)
  PROVE  TypeOK' /\ PoolInv'
<1>1. /\ Top(t).at = "reserve" /\ At(t, "reserve") /\ inflight' = inflight + 1
      /\ UNCHANGED <<program, queue, tokens, draining, stop, up, holder, handles, runs>>
  BY DEF Reserve, At
<1>2. UNCHANGED <<cont, done, handle, fate>>  BY <1>1 DEF handles
<1>3. PICK a : a = IF Call(t).op = "then" THEN "register" ELSE "push"  OBVIOUS
<1>4. ~Finished(t)  BY <1>1 DEF PoolInv, CallRight
<1>5. PICK k : k = Call(t).task  OBVIOUS
<1>6. Sub(t) = k /\ k \in Tasks /\ InSubmission(t)
  BY <1>1, <1>4, <1>5, InHand DEF Sub, SubmitLabels
<1>7. GoesTo(t, a)
  <2>1. Goto(t, a)  BY <1>3 DEF Reserve
  <2>2. a \in SubmitLabels /\ Top(t).at \in SubmitLabels  BY <1>1, <1>3 DEF SubmitLabels
  <2> QED  BY <1>1, <2>1, <2>2, SubmitLabelsApart DEF GoesTo
<1>8. TypeOK'
  <2>1. stack' \in [Threads -> Seq(Frames)] /\ \A u \in Threads : stack'[u] # << >>
    BY <1>7, WentTo
  <2>2. inflight' \in Nat  BY <1>1 DEF TypeOK
  <2> QED  BY <1>1, <1>2, <2>1, <2>2 DEF TypeOK
<1>9. a \in {"register", "push", "release"} /\ (a = "register" => Call(t).op = "then")  BY <1>3
<1>10. a = "push" => \A d \in Tasks : Chained(d, k) => done[d] # "no"
  BY <1>3, <1>5, <1>6, ChainedOnce
<1>11. inflight' = (IF At(t, "reserve") THEN inflight + 1 ELSE inflight)  BY <1>1
<1> QED  BY <1>1, <1>2, <1>6, <1>7, <1>8, <1>9, <1>10, <1>11, SubmissionGoesOn

\* then() leaves the task on the handle that it waits for.
Registering(t) ==
  /\ At(t, "register")
  /\ cont[Call(t).dep] = None
  /\ cont' = [cont EXCEPT ![Call(t).dep] = Call(t).task]
  /\ fate' = [fate EXCEPT ![Call(t).task] = "accepted"]
  /\ SetTop(t, NextCall(Top(t)))
  /\ UNCHANGED <<program, queue, pool, holder, done, handle, runs>>

LEMMA RegisteringStep ==
  ASSUME TypeOK, PoolInv, NEW t \in Threads, Registering(t)
  PROVE  TypeOK' /\ PoolInv'
<1>1. /\ Top(t).at = "register"
      /\ UNCHANGED <<program, queue, tokens, inflight, draining, stop, up, holder>>
      /\ UNCHANGED <<done, handle, runs>>
  BY DEF Registering, pool, At
<1>2. PICK k, dep : k = Call(t).task /\ dep = Call(t).dep  OBVIOUS
<1>3. ~Finished(t) /\ Call(t).op = "then"  BY <1>1 DEF PoolInv, CallRight, At
<1>4. Sub(t) = k /\ k \in Tasks  BY <1>1, <1>2, <1>3, InHand DEF Sub, SubmitLabels
<1>5. /\ InSubmission(t) /\ k # None
      /\ Nxt(t) = None /\ Entered(t) = None /\ Leaving(t) = None
      /\ TaskRight(k) /\ ~Nowhere(k) /\ In(k, "submit") /\ runs[k] = 0
      /\ ~Queues(k) /\ ~OnStack(k)
      /\ \A d \in Tasks : cont[d] # k
      /\ \A u \in Threads : Nxt(u) # k
      /\ \A u \in Threads \ {t} : Sub(u) # k /\ Entered(u) # k
      /\ Out(k) <=> ~At(t, "reserve")
  BY <1>4, Holding
<1>6. dep \in Tasks  BY <1>2, <1>3, <1>5, SubmittedTask
<1>7. Returns(t)
  BY <1>1, SubmitLabelsApart DEF Registering, Returns, SubmitLabels
<1>8. /\ stack' \in [Threads -> Seq(Frames)] /\ \A u \in Threads : stack'[u] # << >>
      /\ Sub(t)' = None /\ Nxt(t)' = None /\ Entered(t)' = None /\ Leaving(t)' = None
      /\ CallRight(t)' /\ StacksRight' /\ DrainersRight'
      /\ \A u \in Threads \ {t} : Quiet(u)
      /\ \A j : OnStack(j)' <=> OnStack(j)
      /\ \A w \in Users \union Tasks : \A i \in Nat : Ahead(w, i)' => Ahead(w, i)
  BY <1>7, Returned
<1>9. /\ cont \in [Tasks -> Tasks \union {None}] /\ fate \in [Tasks -> {"new", "accepted", "refused"}]
      /\ cont' = [cont EXCEPT ![dep] = k] /\ fate' = [fate EXCEPT ![k] = "accepted"]
      /\ cont[dep] = None
  BY <1>2 DEF TypeOK, Registering
<1>10. /\ cont' \in [Tasks -> Tasks \union {None}] /\ cont'[dep] = k
       /\ \A d \in Tasks \ {dep} : cont'[d] = cont[d]
       /\ fate' \in [Tasks -> {"new", "accepted", "refused"}]
       /\ \A j \in Tasks \ {k} : fate'[j] = fate[j]
  BY <1>4, <1>6, <1>9
<1>11. TypeOK'  BY <1>1, <1>8, <1>10 DEF TypeOK
<1>12. \A j : Queues(j)' <=> Queues(j)  BY <1>1 DEF Queues
<1>13. \A c \in Tasks : cont'[c] = k <=> c = dep  BY <1>5, <1>10
<1>14. /\ ~In(k, "submit")' /\ ~In(k, "queue")' /\ In(k, "cont")' /\ ~In(k, "next")'
       /\ ~In(k, "stack")'
  <2>1. In(k, "cont")' <=> \E d \in Tasks : cont'[d] = k  BY <1>8, PlacesAfter
  <2>2. /\ In(k, "submit")' <=> Sub(t)' = k \/ \E u \in Threads \ {t} : Sub(u) = k
        /\ In(k, "queue")' <=> Queues(k)'
        /\ In(k, "next")' <=> Nxt(t)' = k \/ \E u \in Threads \ {t} : Nxt(u) = k
        /\ In(k, "stack")' <=> OnStack(k)'
    BY <1>8, PlacesAfter
  <2> QED  BY <1>5, <1>6, <1>8, <1>12, <1>13, <2>1, <2>2
<1>15. TaskRight(k)'
  <2>1. \A x \in Places : In(k, x)' => x = "cont"  BY <1>14 DEF Places
  <2>2. NotLost(k)'  BY <1>14 DEF NotLost
  <2>3. Follows(k)'
    <3>1. ASSUME NEW d \in Tasks, Chained(d, k)'  PROVE FollowsDep(d, k)'
      <4>1. Chained(d, k)  BY <1>1, <3>1, SamePrograms
      <4>2. d = dep  BY <1>2, <1>5, <4>1, ChainedOnce
      <4>3. \A u \in Threads : Nxt(u)' # k /\ Sub(u)' # k  BY <1>5, <1>8 DEF Quiet
      <4>4. ~Queues(k)' /\ runs'[k] = 0  BY <1>1, <1>5, <1>12
      <4> QED  BY <1>13, <4>2, <4>3, <4>4 DEF FollowsDep
    <3> QED  BY <3>1 DEF Follows
  <2>4. "cont" \in Places /\ runs'[k] = 0 /\ "submit" \in Places  BY <1>1, <1>5 DEF Places
  <2> QED  BY <1>1, <1>4, <1>5, <1>8, <2>1, <2>2, <2>3, <2>4, TaskTo
<1>16. OnceThere'
  <2>1. OnceQueued /\ OnceRegistered /\ OnceFired  BY DEF PoolInv, OnceThere
  <2>2. OnceQueued'  BY <1>1, <2>1 DEF OnceQueued
  <2>3. OnceRegistered'  BY <1>5, <1>10, <2>1 DEF OnceRegistered
  <2>4. \A u \in Threads : Nxt(u)' = Nxt(u)  BY <1>5, <1>8 DEF Quiet
  <2> QED  BY <2>1, <2>2, <2>3, <2>4 DEF OnceFired, OnceThere
<1>17. Concerns(t, k)
  <2>1. Acts(t, k)  BY <1>4, <1>5, <1>8 DEF Acts
  <2>2. ASSUME NEW j \in Tasks \ {k}, NEW d \in Tasks  PROVE cont'[d] = j <=> cont[d] = j
    <3>1. None \notin Tasks  BY ThreadPoolAssumption
    <3> QED  BY <1>9, <1>10, <3>1
  <2>3. \A j \in Tasks \ {k} : Spared(j)  BY <1>1, <1>8, <1>10, <1>12, <2>2 DEF Spared
  <2> QED  BY <1>1, <1>8, <2>1, <2>3 DEF Concerns
<1>18. Out(k) /\ Out(k)'
  <2>1. \E d \in Tasks : cont'[d] = k  BY <1>6, <1>10
  <2>2. Out(k)'  BY <2>1 DEF Out
  <2> QED  BY <1>1, <1>5, <2>2 DEF At
<1>19. CountedAlike(k)  BY <1>1, <1>18 DEF CountedAlike
<1> QED  BY <1>8, <1>11, <1>15, <1>16, <1>17, <1>19, Preserved

LEMMA RegisterStep ==
  ASSUME TypeOK, PoolInv, NEW t \in Threads, Register(t)
  PROVE  TypeOK' /\ PoolInv'
<1>1. Top(t).at = "register" /\ ~At(t, "reserve")  BY DEF Register, At
<1>2. ~Finished(t) /\ Call(t).op = "then"  BY <1>1 DEF PoolInv, CallRight, At
<1>3. PICK k : k = Call(t).task  OBVIOUS
<1>4. Sub(t) = k /\ k \in Tasks /\ InSubmission(t)
  BY <1>1, <1>2, <1>3, InHand DEF Sub, SubmitLabels
<1>5. ASSUME NEW a \in {"release", "push"}, Goto(t, a),
             a = "push" => done[Call(t).dep] # "no",
             UNCHANGED <<program, queue, pool, holder, cont, done, handle, fate, runs>>
      PROVE  TypeOK' /\ PoolInv'
  <2>1. /\ UNCHANGED <<program, queue, tokens, inflight, draining, stop, up, holder>>
        /\ UNCHANGED <<cont, done, handle, fate, runs>>
    BY <1>5 DEF pool
  <2>2. a \in SubmitLabels /\ Top(t).at \in SubmitLabels  BY <1>1, <1>5 DEF SubmitLabels
  <2>3. GoesTo(t, a)  BY <1>5, <2>1, <2>2, SubmitLabelsApart DEF GoesTo
  <2>4. stack' \in [Threads -> Seq(Frames)] /\ \A u \in Threads : stack'[u] # << >>
    BY <2>3, WentTo
  <2>5. TypeOK'  BY <2>1, <2>4 DEF TypeOK
  <2>6. a = "push" => \A d \in Tasks : Chained(d, k) => done[d] # "no"
    BY <1>3, <1>4, <1>5, ChainedOnce
  <2>7. inflight' = (IF At(t, "reserve") THEN inflight + 1 ELSE inflight)  BY <1>1, <2>1
  <2>8. a \in {"register", "push", "release"} /\ (a = "register" => Call(t).op = "then")  OBVIOUS
  <2> QED  BY <1>4, <2>1, <2>3, <2>5, <2>6, <2>7, <2>8, SubmissionGoesOn
<1>6. CASE cont[Call(t).dep] # None
  <2>1. /\ Goto(t, "release")
        /\ UNCHANGED <<program, queue, pool, holder, cont, done, handle, fate, runs>>
    BY <1>6 DEF Register
  <2> QED  BY <1>5, <2>1
<1>7. CASE cont[Call(t).dep] = None /\ done[Call(t).dep] # "no"
  <2>1. /\ Goto(t, "push")
        /\ UNCHANGED <<program, queue, pool, holder, cont, done, handle, fate, runs>>
    BY <1>7 DEF Register
  <2> QED  BY <1>5, <1>7, <2>1
<1>8. CASE cont[Call(t).dep] = None /\ done[Call(t).dep] = "no"
  <2>1. Registering(t)  BY <1>8 DEF Register, Registering
  <2> QED  BY <2>1, RegisteringStep
<1> QED  BY <1>6, <1>7, <1>8

\* What is known of the continuation that a thread is firing.
LEMMA Firing ==
  ASSUME TypeOK, PoolInv, NEW t \in Threads, NEW k \in Tasks, Nxt(t) = k
  PROVE  /\ Finished(t) /\ k = Top(t).next /\ k # None
         /\ Sub(t) = None /\ Entered(t) = None /\ Leaving(t) = None
         /\ TaskRight(k) /\ ~Nowhere(k) /\ In(k, "next") /\ runs[k] = 0
         /\ ~Queues(k) /\ ~OnStack(k)
         /\ \A d \in Tasks : cont[d] # k
         /\ \A u \in Threads : Sub(u) # k
         /\ \A u \in Threads \ {t} : Nxt(u) # k
         /\ Out(k) <=> ~At(t, "drop_handle")
<1>0. k # None  BY ThreadPoolAssumption
<1>1. Finished(t) /\ k = Top(t).next /\ Top(t).at \in {"report", "push", "drop", "drop_handle"}
  BY <1>0 DEF Nxt
<1>2. \A u \in Threads \ {t} : Nxt(u) # k  BY <1>0 DEF PoolInv, OnceThere, OnceFired
<1>3. Sub(t) = None /\ Entered(t) = None /\ Leaving(t) = None
  BY <1>1 DEF Sub, Entered, Leaving, At
<1>4. TaskRight(k) /\ In(k, "next")  BY PlaceNames DEF PoolInv
<1>5. ~In(k, "queue") /\ ~In(k, "cont") /\ ~In(k, "submit") /\ ~In(k, "stack") /\ runs[k] = 0
      /\ ~Nowhere(k)
  BY <1>4 DEF TaskRight, OnePlace, RunsRight, Places, Nowhere
<1>6. ~Queues(k) /\ ~OnStack(k) /\ (\A d \in Tasks : cont[d] # k) /\ (\A u \in Threads : Sub(u) # k)
  BY <1>5, PlaceNames
<1>7. Out(k) <=> ~At(t, "drop_handle")  BY <1>2, <1>6 DEF Out
<1> QED  BY <1>0, <1>1, <1>2, <1>3, <1>4, <1>5, <1>6, <1>7

\* A continuation that stays with the worker that fires it.
LEMMA FiringGoesOn ==
  ASSUME TypeOK, PoolInv, TypeOK', NEW t \in Threads, NEW k \in Tasks, Nxt(t) = k,
         NEW a \in {"push", "drop", "drop_handle"}, GoesTo(t, a), ~At(t, "drop_handle"),
         UNCHANGED <<queue, up, cont, handle, fate>>,
         \A d \in Tasks : done[d] # "no" => done'[d] # "no",
         \A j \in Tasks : done[j] = "dropped" => done'[j] = "dropped" \/ runs[j] = 1,
         \A d \in Tasks : Chained(d, k) => done'[d] # "no",
         inflight' = IF a = "drop_handle" THEN inflight - 1 ELSE inflight
  PROVE  PoolInv'
<1>1. /\ Finished(t) /\ k = Top(t).next /\ k # None
      /\ Sub(t) = None /\ Entered(t) = None /\ Leaving(t) = None
      /\ TaskRight(k) /\ ~Nowhere(k) /\ In(k, "next") /\ runs[k] = 0
      /\ ~Queues(k) /\ ~OnStack(k)
      /\ \A d \in Tasks : cont[d] # k
      /\ \A u \in Threads : Sub(u) # k
      /\ \A u \in Threads \ {t} : Nxt(u) # k
      /\ Out(k)
  BY Firing
<1>2. program' = program /\ runs' = runs  BY DEF GoesTo
<1>3. /\ Top(t).at' = a /\ Finished(t)' = Finished(t) /\ Top(t).next' = Top(t).next
      /\ Sub(t)' = None /\ Nxt(t)' = k /\ Entered(t)' = None /\ Leaving(t)' = None
  BY <1>1, WentTo
<1>4. /\ StacksRight' /\ DrainersRight'
      /\ \A u \in Threads \ {t} : Quiet(u)
      /\ \A j : OnStack(j)' <=> OnStack(j)
      /\ \A w \in Users \union Tasks : \A i \in Nat : Ahead(w, i)' => Ahead(w, i)
  BY WentTo
<1>5. \A j : Queues(j)' <=> Queues(j)  BY DEF Queues
<1>6. /\ ~In(k, "submit")' /\ ~In(k, "queue")' /\ ~In(k, "cont")' /\ In(k, "next")'
      /\ ~In(k, "stack")'
  <2>1. (In(k, "cont")' <=> \E d \in Tasks : cont'[d] = k) /\ cont' = cont  BY <1>4, PlacesAfter
  <2>2. /\ In(k, "submit")' <=> Sub(t)' = k \/ \E u \in Threads \ {t} : Sub(u) = k
        /\ In(k, "queue")' <=> Queues(k)'
        /\ In(k, "next")' <=> Nxt(t)' = k \/ \E u \in Threads \ {t} : Nxt(u) = k
        /\ In(k, "stack")' <=> OnStack(k)'
    BY <1>4, PlacesAfter
  <2> QED  BY <1>1, <1>3, <1>4, <1>5, <2>1, <2>2
<1>7. TaskRight(k)'
  <2>1. \A x \in Places : In(k, x)' => x = "next"  BY <1>6 DEF Places
  <2>2. NotLost(k)'  BY <1>6 DEF NotLost
  <2>3. Follows(k)'
    <3>1. ASSUME NEW d \in Tasks, Chained(d, k)'  PROVE FollowsDep(d, k)'
      <4>1. Chained(d, k)  BY <1>2, <3>1, SamePrograms
      <4>2. \A u \in Threads : Sub(u)' # k /\ (Nxt(u)' = k => u = t)
        BY <1>1, <1>3, <1>4 DEF Quiet
      <4>3. ~Queues(k)' /\ runs'[k] = 0 /\ \A c \in Tasks : cont'[c] # k
        BY <1>1, <1>2, <1>5
      <4>4. ~At(t, "report")'  BY <1>3 DEF At
      <4>5. done'[d] # "no"  BY <4>1
      <4> QED  BY <4>2, <4>3, <4>4, <4>5 DEF FollowsDep
    <3> QED  BY <3>1 DEF Follows
  <2>4. "next" \in Places /\ runs'[k] = 0  BY <1>1, <1>2 DEF Places
  <2> QED  BY <1>1, <1>2, <1>4, <2>1, <2>2, <2>3, <2>4, TaskTo
<1>8. CallRight(t)'
  <2>1. Top(t).next' \in Tasks /\ Finished(t)'  BY <1>1, <1>3
  <2> QED  BY <1>3, <2>1 DEF CallRight, At, SubmitLabels, FinishLabels
<1>9. OnceThere'
  <2>1. OnceQueued /\ OnceRegistered /\ OnceFired  BY DEF PoolInv, OnceThere
  <2>2. OnceQueued' /\ OnceRegistered'  BY <2>1 DEF OnceQueued, OnceRegistered
  <2>3. \A u \in Threads : Nxt(u)' = Nxt(u)  BY <1>1, <1>3, <1>4 DEF Quiet
  <2> QED  BY <2>1, <2>2, <2>3 DEF OnceFired, OnceThere
<1>10. Concerns(t, k)
  <2>1. Acts(t, k)  BY <1>1, <1>3 DEF Acts
  <2>2. \A j \in Tasks \ {k} : Spared(j)  BY <1>2, <1>4, <1>5 DEF Spared
  <2> QED  BY <1>2, <1>4, <2>1, <2>2 DEF Concerns
<1>11. Out(k)' <=> a # "drop_handle"
  <2>1. At(t, "drop_handle")' <=> a = "drop_handle"  BY <1>3 DEF At
  <2>2. \A u \in Threads : Sub(u)' # k /\ (Nxt(u)' = k <=> u = t)
    BY <1>1, <1>3, <1>4 DEF Quiet
  <2>3. ~Queues(k)' /\ ~OnStack(k)' /\ \A c \in Tasks : cont'[c] # k
    BY <1>1, <1>4, <1>5
  <2> QED  BY <2>1, <2>2, <2>3 DEF Out
<1>12. CountedAlike(k) \/ CountedNoMore(k)
  BY <1>1, <1>11 DEF CountedAlike, CountedNoMore
<1> QED  BY <1>4, <1>7, <1>8, <1>9, <1>10, <1>12, Preserved

\* A task that enters its queue.
Queuing(t) ==
  /\ At(t, "push")
  /\ queue' = [queue EXCEPT ![Priority[Pushed(t)]] =
                 Append(@, [item |-> Pushed(t), ready |-> FALSE])]
  /\ Goto(t, "publish")
  /\ UNCHANGED <<program, pool, holder, handles, runs>>

LEMMA PushedInHand ==
  ASSUME TypeOK, PoolInv, NEW t \in Threads, At(t, "push")
  PROVE  /\ Pushed(t) \in Tasks
         /\ Finished(t) => Nxt(t) = Pushed(t)
         /\ ~Finished(t) => Sub(t) = Pushed(t)
<1>1. Top(t).at = "push"  BY DEF At
<1>2. CASE Finished(t)
  BY <1>1, <1>2 DEF PoolInv, CallRight, Pushed, Nxt
<1>3. CASE ~Finished(t)
  BY <1>1, <1>3, InHand DEF SubmitLabels, Pushed, Sub
<1> QED  BY <1>2, <1>3

LEMMA QueuingStep ==
  ASSUME TypeOK, PoolInv, NEW t \in Threads, Queuing(t)
  PROVE  TypeOK' /\ PoolInv'
<1>1. /\ At(t, "push") /\ Top(t).at = "push"
      /\ UNCHANGED <<program, tokens, inflight, draining, stop, up, holder>>
      /\ UNCHANGED <<cont, done, handle, fate, runs>>
  BY DEF Queuing, pool, handles, At
<1>2. PICK k : k = Pushed(t)  OBVIOUS
<1>3. k \in Tasks /\ (Finished(t) => Nxt(t) = k) /\ (~Finished(t) => Sub(t) = k)
  BY <1>1, <1>2, PushedInHand
<1>4. k # None  BY <1>3, ThreadPoolAssumption
<1>5. /\ Leaving(t) = None /\ Entered(t) = None
      /\ Sub(t) \in {k, None} /\ Nxt(t) \in {k, None}
  BY <1>1, <1>3 DEF Leaving, Entered, At, Sub, Nxt
<1>6. /\ TaskRight(k) /\ ~Nowhere(k) /\ (\E x \in Places : In(k, x)) /\ runs[k] = 0
      /\ ~Queues(k) /\ ~OnStack(k)
      /\ \A d \in Tasks : cont[d] # k
      /\ \A u \in Threads \ {t} : Sub(u) # k /\ Nxt(u) # k
      /\ Out(k)
      /\ Finished(t) \/ InSubmission(t)
  <2>1. "submit" \in Places /\ "next" \in Places  BY DEF Places
  <2>2. ~At(t, "reserve") /\ ~At(t, "drop_handle")  BY <1>1 DEF At
  <2>3. CASE Finished(t)  BY <1>3, <2>1, <2>2, <2>3, Firing
  <2>4. CASE ~Finished(t)  BY <1>3, <2>1, <2>2, <2>4, Holding
  <2> QED  BY <2>3, <2>4
<1>7. GoesTo(t, "publish")
  <2>1. "publish" \in SubmitLabels /\ Top(t).at \in SubmitLabels  BY <1>1 DEF SubmitLabels
  <2> QED  BY <1>1, <2>1, SubmitLabelsApart DEF Queuing, GoesTo
<1>8. /\ stack' \in [Threads -> Seq(Frames)] /\ \A u \in Threads : stack'[u] # << >>
      /\ Top(t).at' = "publish" /\ Finished(t)' = Finished(t) /\ Top(t).next' = Top(t).next
      /\ InSubmission(t) => InSubmission(t)'
      /\ Sub(t)' = None /\ Nxt(t)' = None /\ Leaving(t)' = None
      /\ Entered(t)' = IF Finished(t) THEN None ELSE Call(t).task
  BY <1>7, WentTo
<1>9. Entered(t)' \in {k, None}  BY <1>2, <1>8 DEF Pushed
<1>10. /\ StacksRight' /\ DrainersRight'
       /\ \A u \in Threads \ {t} : Quiet(u)
       /\ \A j : OnStack(j)' <=> OnStack(j)
       /\ \A w \in Users \union Tasks : \A i \in Nat : Ahead(w, i)' => Ahead(w, i)
  BY <1>7, WentTo
<1>11. /\ queue' \in [Levels -> Seq([item : Tasks, ready : BOOLEAN])]
       /\ \A j : Queues(j)' <=> Queues(j) \/ j = k
       /\ OnceQueued'
  <2>1. PICK l : l = Priority[k]  OBVIOUS
  <2>2. l \in Levels  BY <1>3, <2>1, ThreadPoolAssumption
  <2>3. queue' = [queue EXCEPT ![l] = Append(@, [item |-> k, ready |-> FALSE])]
    BY <1>2, <2>1 DEF Queuing
  <2>4. OnceQueued  BY DEF PoolInv, OnceThere
  <2>5. /\ queue' \in [Levels -> Seq([item : Tasks, ready : BOOLEAN])]
        /\ \A j : Queues(j)' <=> Queues(j) \/ j = k
        /\ OnceQueued /\ ~Queues(k) => OnceQueued'
    BY <1>3, <2>2, <2>3, QueueAppended
  <2> QED  BY <1>6, <2>4, <2>5
<1>12. TypeOK'  BY <1>1, <1>8, <1>11 DEF TypeOK
<1>13. /\ ~In(k, "submit")' /\ In(k, "queue")' /\ ~In(k, "cont")' /\ ~In(k, "next")'
       /\ ~In(k, "stack")'
  <2>1. (In(k, "cont")' <=> \E d \in Tasks : cont'[d] = k) /\ cont' = cont
    BY <1>1, <1>10, PlacesAfter
  <2>2. /\ In(k, "submit")' <=> Sub(t)' = k \/ \E u \in Threads \ {t} : Sub(u) = k
        /\ In(k, "queue")' <=> Queues(k)'
        /\ In(k, "next")' <=> Nxt(t)' = k \/ \E u \in Threads \ {t} : Nxt(u) = k
        /\ In(k, "stack")' <=> OnStack(k)'
    BY <1>10, PlacesAfter
  <2> QED  BY <1>4, <1>6, <1>8, <1>10, <1>11, <2>1, <2>2
<1>14. TaskRight(k)'
  <2>1. \A x \in Places : In(k, x)' => x = "queue"  BY <1>13 DEF Places
  <2>2. NotLost(k)'  BY <1>13 DEF NotLost
  <2>3. Follows(k)'
    <3>1. ASSUME NEW d \in Tasks, Chained(d, k)'  PROVE FollowsDep(d, k)'
      <4>1. Chained(d, k)  BY <1>1, <3>1, SamePrograms
      <4>2. FollowsDep(d, k)  BY <1>6, <4>1 DEF TaskRight, Follows
      <4>3. done[d] # "no"  BY <1>1, <1>3, <4>2 DEF FollowsDep, At
      <4>4. \A u \in Threads : Nxt(u)' # k /\ Sub(u)' # k
        BY <1>4, <1>6, <1>8, <1>10 DEF Quiet
      <4>5. done'[d] # "no" /\ \A c \in Tasks : cont'[c] # k  BY <1>1, <1>6, <4>3
      <4> QED  BY <4>4, <4>5 DEF FollowsDep
    <3> QED  BY <3>1 DEF Follows
  <2>4. "queue" \in Places /\ runs'[k] = 0  BY <1>1, <1>6 DEF Places
  <2> QED  BY <1>1, <1>3, <1>6, <1>10, <2>1, <2>2, <2>3, <2>4, TaskTo
<1>15. CallRight(t)'
  <2>1. Finished(t) => Top(t).next \in Tasks  BY <1>3, Firing
  <2> QED  BY <1>6, <1>8, <2>1 DEF CallRight, At, SubmitLabels, FinishLabels
<1>16. OnceThere'
  <2>1. OnceRegistered /\ OnceFired  BY DEF PoolInv, OnceThere
  <2>2. OnceRegistered'  BY <1>1, <2>1 DEF OnceRegistered
  <2>3. \A u \in Threads : Nxt(u)' \in {Nxt(u), None}  BY <1>8, <1>10 DEF Quiet
  <2>4. OnceFired'  BY <2>1, <2>3 DEF OnceFired
  <2> QED  BY <1>11, <2>2, <2>4 DEF OnceThere
<1>17. Concerns(t, k)
  <2>1. Acts(t, k)  BY <1>5, <1>8, <1>9 DEF Acts
  <2>2. \A j \in Tasks \ {k} : Spared(j)  BY <1>1, <1>10, <1>11 DEF Spared
  <2> QED  BY <1>1, <1>10, <2>1, <2>2 DEF Concerns
<1>18. Out(k)'  BY <1>11 DEF Out
<1>19. CountedAlike(k)  BY <1>1, <1>6, <1>18 DEF CountedAlike
<1> QED  BY <1>3, <1>10, <1>12, <1>14, <1>15, <1>16, <1>17, <1>19, Preserved

LEMMA PushStep ==
  ASSUME TypeOK, PoolInv, NEW t \in Threads, Push(t)
  PROVE  TypeOK' /\ PoolInv'
<1>1. At(t, "push") /\ Top(t).at = "push"  BY DEF Push, At
<1>2. CASE Len(queue[Priority[Pushed(t)]]) < QCap
  <2>1. Queuing(t)  BY <1>2 DEF Push, Queuing
  <2> QED  BY <2>1, QueuingStep
<1>3. CASE ~(Len(queue[Priority[Pushed(t)]]) < QCap)
  <2>1. PICK a : a = IF Finished(t) THEN "drop" ELSE "release"  OBVIOUS
  <2>2. /\ Goto(t, a)
        /\ UNCHANGED <<program, queue, tokens, inflight, draining, stop, up, holder>>
        /\ UNCHANGED <<cont, done, handle, fate, runs>>
    BY <1>3, <2>1 DEF Push, pool, handles
  <2>3. a \in SubmitLabels \union FinishLabels /\ Top(t).at \in SubmitLabels
    BY <1>1, <2>1 DEF SubmitLabels, FinishLabels
  <2>4. GoesTo(t, a)  BY <2>2, <2>3, SubmitLabelsApart DEF GoesTo
  <2>5. stack' \in [Threads -> Seq(Frames)] /\ \A u \in Threads : stack'[u] # << >>
    BY <2>4, WentTo
  <2>6. TypeOK'  BY <2>2, <2>5 DEF TypeOK
  <2>7. PICK k : k = Pushed(t)  OBVIOUS
  <2>8. k \in Tasks /\ (Finished(t) => Nxt(t) = k) /\ (~Finished(t) => Sub(t) = k)
    BY <1>1, <2>7, PushedInHand
  <2>9. ~At(t, "reserve") /\ ~At(t, "drop_handle") /\ ~At(t, "report")  BY <1>1 DEF At
  <2>10. CASE Finished(t)
    <3>1. \A d \in Tasks : Chained(d, k) => done'[d] # "no"
      <4>1. ASSUME NEW d \in Tasks, Chained(d, k)  PROVE done[d] # "no"
        <5>1. TaskRight(k)  BY <2>8 DEF PoolInv
        <5>2. FollowsDep(d, k)  BY <4>1, <5>1 DEF TaskRight, Follows
        <5> QED  BY <2>8, <2>9, <2>10, <5>2 DEF FollowsDep
      <4> QED  BY <2>2, <4>1
    <3>2. a \in {"push", "drop", "drop_handle"} /\ a # "drop_handle"  BY <2>1, <2>10
    <3>3. inflight' = (IF a = "drop_handle" THEN inflight - 1 ELSE inflight)  BY <2>2, <3>2
    <3>4. /\ \A d \in Tasks : done[d] # "no" => done'[d] # "no"
          /\ \A j \in Tasks : done[j] = "dropped" => done'[j] = "dropped" \/ runs[j] = 1
      BY <2>2
    <3> QED  BY <2>2, <2>4, <2>6, <2>8, <2>9, <2>10, <3>1, <3>2, <3>3, <3>4, FiringGoesOn
  <2>11. CASE ~Finished(t)
    <3>1. a \in {"register", "push", "release"} /\ a # "push" /\ a # "register"
      BY <2>1, <2>11
    <3>2. inflight' = (IF At(t, "reserve") THEN inflight + 1 ELSE inflight)  BY <2>2, <2>9
    <3> QED  BY <2>2, <2>4, <2>6, <2>8, <2>11, <3>1, <3>2, SubmissionGoesOn
  <2> QED  BY <2>10, <2>11
<1> QED  BY <1>2, <1>3

LEMMA PublishStep ==
  ASSUME TypeOK, PoolInv, NEW t \in Threads, Publish(t)
  PROVE  TypeOK' /\ PoolInv'
<1>1. /\ At(t, "publish") /\ Top(t).at = "publish"
      /\ UNCHANGED <<program, tokens, inflight, draining, stop, up, holder>>
      /\ UNCHANGED <<cont, done, handle, fate, runs>>
  BY DEF Publish, pool, handles, At
<1>2. PICK k : k = IF Finished(t) THEN None ELSE Call(t).task  OBVIOUS
<1>3. /\ Sub(t) = None /\ Nxt(t) = None /\ Leaving(t) = None /\ Entered(t) = k
      /\ Finished(t) \/ InSubmission(t)
      /\ Finished(t) => Top(t).next \in Tasks
  BY <1>1, <1>2 DEF Sub, Nxt, Leaving, Entered, At, PoolInv, CallRight, SubmitLabels
<1>4. GoesTo(t, "token")
  <2>1. "token" \in SubmitLabels /\ Top(t).at \in SubmitLabels  BY <1>1 DEF SubmitLabels
  <2> QED  BY <1>1, <2>1, SubmitLabelsApart DEF Publish, GoesTo
<1>5. /\ stack' \in [Threads -> Seq(Frames)] /\ \A u \in Threads : stack'[u] # << >>
      /\ Top(t).at' = "token" /\ Finished(t)' = Finished(t) /\ Top(t).next' = Top(t).next
      /\ InSubmission(t) => InSubmission(t)'
      /\ Sub(t)' = None /\ Nxt(t)' = None /\ Leaving(t)' = None /\ Entered(t)' = k
      /\ \A j : OnStack(j)' <=> OnStack(j)
  BY <1>2, <1>4, WentTo
<1>6. OwnStep(t)  BY <1>1, <1>4, WentTo DEF OwnStep
<1>7. /\ queue' \in [Levels -> Seq([item : Tasks, ready : BOOLEAN])]
      /\ \A j : Queues(j)' <=> Queues(j)
      /\ OnceQueued'
  <2>1. PICK l, p : p = Pushed(t) /\ l = Priority[p]  OBVIOUS
  <2>2. Pushed(t) \in Tasks
    BY <1>1, <1>3, InHand DEF Pushed, SubmitLabels
  <2>3. l \in Levels  BY <2>1, <2>2, ThreadPoolAssumption
  <2>4. queue' = [queue EXCEPT ![l] =
                    [i \in DOMAIN @ |-> IF @[i].item = p THEN [@[i] EXCEPT !.ready = TRUE] ELSE @[i]]]
    BY <2>1 DEF Publish
  <2>5. OnceQueued  BY DEF PoolInv, OnceThere
  <2> QED  BY <2>3, <2>4, <2>5, QueuePublished
<1>8. TypeOK'  BY <1>1, <1>5, <1>7 DEF TypeOK
<1>9. CallRight(t)'  BY <1>3, <1>5 DEF CallRight, At, SubmitLabels, FinishLabels
<1>10. Known(k)' => Known(k)
  <2>1. Known(k)' <=> fate'[k] = "accepted" \/ \E u \in Threads : Entered(u)' = k
    BY DEF Known
  <2>2. \A u \in Threads : Entered(u)' = Entered(u)  BY <1>3, <1>5, <1>6 DEF OwnStep, Quiet
  <2> QED  BY <1>1, <2>1, <2>2 DEF Known
<1> QED  BY <1>1, <1>3, <1>5, <1>6, <1>7, <1>8, <1>9, <1>10, StatusStep

LEMMA TokenStep ==
  ASSUME TypeOK, PoolInv, NEW t \in Threads, Token(t)
  PROVE  TypeOK' /\ PoolInv'
<1>1. /\ At(t, "token") /\ Top(t).at = "token" /\ tokens' = tokens + 1
      /\ UNCHANGED <<program, queue, inflight, draining, stop, up, holder>>
      /\ UNCHANGED <<cont, done, handle, runs>>
  BY DEF Token, At
<1>2. PICK k : k = IF Finished(t) THEN None ELSE Call(t).task  OBVIOUS
<1>3. /\ Sub(t) = None /\ Nxt(t) = None /\ Leaving(t) = None /\ Entered(t) = k
      /\ Finished(t) \/ InSubmission(t)
  BY <1>1, <1>2 DEF Sub, Nxt, Leaving, Entered, At, PoolInv, CallRight, SubmitLabels
<1>4. Top(t).at \in SubmitLabels /\ "release" \in SubmitLabels  BY <1>1 DEF SubmitLabels
<1>5. tokens' \in Nat  BY <1>1 DEF TypeOK
<1>6. (\A j : Queues(j)' <=> Queues(j)) /\ OnceQueued'
  BY <1>1 DEF Queues, PoolInv, OnceThere, OnceQueued
<1>7. CASE Finished(t)
  <2>1. fate' = fate /\ k = None  BY <1>2, <1>7 DEF Token
  <2>2. GoesTo(t, "release")  BY <1>1, <1>4, <1>7, SubmitLabelsApart DEF Token, GoesTo
  <2>3. /\ stack' \in [Threads -> Seq(Frames)] /\ \A u \in Threads : stack'[u] # << >>
        /\ Top(t).at' = "release" /\ Finished(t)'
        /\ Sub(t)' = None /\ Nxt(t)' = None /\ Leaving(t)' = None /\ Entered(t)' = None
        /\ \A j : OnStack(j)' <=> OnStack(j)
    BY <1>7, <2>2, WentTo
  <2>4. OwnStep(t)  BY <1>1, <2>2, WentTo DEF OwnStep
  <2>5. TypeOK'  BY <1>1, <1>5, <2>1, <2>3 DEF TypeOK
  <2>6. CallRight(t)'  BY <2>3 DEF CallRight, At, SubmitLabels, FinishLabels
  <2>7. None \notin Tasks  BY ThreadPoolAssumption
  <2> QED  BY <1>1, <1>3, <1>6, <2>1, <2>3, <2>4, <2>5, <2>6, <2>7, StatusStep
<1>8. CASE ~Finished(t)
  <2>1. fate' = [fate EXCEPT ![k] = "accepted"] /\ k \in Tasks
    BY <1>2, <1>4, <1>8, InHand DEF Token, Pushed
  <2>2. /\ fate' \in [Tasks -> {"new", "accepted", "refused"}]
        /\ \A j \in Tasks \ {k} : fate'[j] = fate[j]
    <3>1. fate \in [Tasks -> {"new", "accepted", "refused"}]  BY DEF TypeOK
    <3> QED  BY <2>1, <3>1
  <2>3. Returns(t)
    BY <1>1, <1>4, <1>8, SubmitLabelsApart DEF Token, Returns
  <2>4. /\ stack' \in [Threads -> Seq(Frames)] /\ \A u \in Threads : stack'[u] # << >>
        /\ Sub(t)' = None /\ Nxt(t)' = None /\ Leaving(t)' = None /\ Entered(t)' = None
        /\ CallRight(t)'
        /\ \A j : OnStack(j)' <=> OnStack(j)
    BY <2>3, Returned
  <2>5. OwnStep(t)  BY <1>1, <2>3, Returned DEF OwnStep
  <2>6. TypeOK'  BY <1>1, <1>5, <2>2, <2>4 DEF TypeOK
  <2>7. Known(k)  BY <1>3 DEF Known
  <2> QED  BY <1>1, <1>3, <1>6, <2>2, <2>4, <2>5, <2>6, <2>7, StatusStep
<1> QED  BY <1>7, <1>8

-----------------------------------------------------------------------------
(* Steps that take a frame from the stack, or wake the threads in drain(). *)

Roused(u) ==
  \/ stack'[u] = stack[u]
  \/ At(u, "asleep") /\ stack'[u] = <<[Top(u) EXCEPT !.at = "lock"]>> \o Tail(stack[u])

LEMMA RousedFrames ==
  ASSUME TypeOK, NEW u \in Threads, Roused(u)
  PROVE  /\ stack'[u] \in Seq(Frames) /\ stack'[u] # << >>
         /\ Len(stack'[u]) = Len(stack[u]) /\ DOMAIN stack'[u] = DOMAIN stack[u]
         /\ \A i \in DOMAIN stack[u] :
              /\ stack'[u][i].who = stack[u][i].who /\ stack'[u][i].ip = stack[u][i].ip
              /\ \/ stack'[u][i].at = stack[u][i].at
                 \/ i = 1 /\ stack[u][i].at = "asleep" /\ stack'[u][i].at = "lock"
<1>1. CASE stack'[u] = stack[u]  BY <1>1, TopType
<1>2. CASE /\ At(u, "asleep")
           /\ stack'[u] = <<[Top(u) EXCEPT !.at = "lock"]>> \o Tail(stack[u])
  <2>1. Top(u) \in Frames /\ Top(u).at = "asleep" /\ Top(u) = stack[u][1]  BY <1>2, TopType DEF At
  <2>2. PICK g : g = [Top(u) EXCEPT !.at = "lock"]  OBVIOUS
  <2>3. g \in Frames /\ g.at = "lock" /\ g.who = Top(u).who /\ g.ip = Top(u).ip
    <3>1. PICK a \in Labels : a = "lock"  BY DEF Labels
    <3>2. g = [Top(u) EXCEPT !.at = a]  BY <2>2, <3>1
    <3> QED  BY <2>1, <3>1, <3>2, Relabelled
  <2>4. PICK s : s = stack[u]  OBVIOUS
  <2>5. s \in Seq(Frames) /\ s # << >>  BY <2>4 DEF TypeOK
  <2>6. PICK r : r = <<g>> \o Tail(s)  OBVIOUS
  <2>7. /\ r \in Seq(Frames) /\ r # << >> /\ Len(r) = Len(s) /\ r[1] = g
        /\ \A i \in 2 .. Len(s) : r[i] = s[i]
    BY <2>3, <2>5, <2>6, NewTop
  <2>8. DOMAIN r = 1 .. Len(s) /\ DOMAIN s = 1 .. Len(s) /\ Len(s) \in Nat \ {0}
    BY <2>5, <2>7
  <2>9. \A i \in DOMAIN s : i = 1 \/ i \in 2 .. Len(s)  BY <2>8
  <2>10. \A i \in DOMAIN s : i = 1 \/ r[i] = s[i]  BY <2>7, <2>9
  <2>11. stack'[u] = r  BY <1>2, <2>2, <2>4, <2>6
  <2> QED  BY <2>1, <2>3, <2>4, <2>7, <2>8, <2>10, <2>11
<1> QED  BY <1>1, <1>2 DEF Roused

LEMMA RousedQuiet ==
  ASSUME TypeOK, NEW u \in Threads, Roused(u), program' = program
  PROVE  Quiet(u)
<1>1. CASE stack'[u] = stack[u]
  <2>1. /\ Top(u)' = Top(u) /\ Finished(u)' = Finished(u)
        /\ Sub(u)' = Sub(u) /\ Nxt(u)' = Nxt(u) /\ Entered(u)' = Entered(u)
        /\ CallRight(u) => CallRight(u)'
    BY <1>1, OtherThread
  <2>2. Leaving(u)' = Leaving(u)  BY <2>1 DEF Leaving, At
  <2> QED  BY <2>1, <2>2 DEF Quiet, At
<1>2. CASE stack'[u] # stack[u]
  <2>1. At(u, "asleep")  BY <1>2 DEF Roused
  <2>2. /\ stack'[u] \in Seq(Frames) /\ stack'[u] # << >>
        /\ \A i \in DOMAIN stack[u] :
              /\ stack'[u][i].who = stack[u][i].who
              /\ \/ stack'[u][i].at = stack[u][i].at
                 \/ i = 1 /\ stack[u][i].at = "asleep" /\ stack'[u][i].at = "lock"
    BY RousedFrames
  <2>3. Top(u)' = stack'[u][1]  BY <2>2 DEF Top
  <2>4. Top(u) = stack[u][1] /\ 1 \in DOMAIN stack[u]  BY TopType
  <2>5. Top(u).who' = Top(u).who /\ Top(u).at = "asleep" /\ Top(u).at' \in {"asleep", "lock"}
    BY <2>1, <2>2, <2>3, <2>4 DEF At
  <2>6. /\ Sub(u) = None /\ Nxt(u) = None /\ Entered(u) = None /\ Leaving(u) = None
    BY <2>5 DEF Sub, Nxt, Entered, Leaving, At
  <2>7. /\ Sub(u)' = None /\ Nxt(u)' = None /\ Entered(u)' = None /\ Leaving(u)' = None
        /\ CallRight(u)'
    BY <2>5 DEF Sub, Nxt, Entered, Leaving, At, CallRight, SubmitLabels, FinishLabels
  <2>8. \A l \in {"reserve", "push", "report", "drop_handle"} : ~At(u, l)' /\ ~At(u, l)
    BY <2>5 DEF At
  <2> QED  BY <2>5, <2>6, <2>7, <2>8 DEF Quiet
<1> QED  BY <1>1, <1>2

\* Thread t returns from its call, and the others are woken or not.
LEMMA ReturnedWaking ==
  ASSUME TypeOK, PoolInv, NEW t \in Threads,
         stack' = [u \in Threads |-> stack'[u]],
         stack'[t] = <<NextCall(Top(t))>> \o Tail(stack[t]),
         \A u \in Threads \ {t} : Roused(u),
         Top(t).at \notin WorkerLabels \union DrainLabels,
         program' = program, up' = up, runs' = runs, draining' = draining
  PROVE  /\ stack' \in [Threads -> Seq(Frames)] /\ \A u \in Threads : stack'[u] # << >>
         /\ Sub(t)' = None /\ Nxt(t)' = None /\ Entered(t)' = None /\ Leaving(t)' = None
         /\ CallRight(t)' /\ OwnStep(t)
         /\ \A j : OnStack(j)' <=> OnStack(j)
<1>1. PICK g : g = NextCall(Top(t))  OBVIOUS
<1>2. g \in Frames /\ g.at = "call" /\ g.who = Top(t).who /\ g.ip = Top(t).ip + 1
  BY <1>1, TopType, NextCallFrame
<1>3. /\ stack'[t] \in Seq(Frames) /\ stack'[t] # << >> /\ Head(stack'[t]) = g
      /\ Len(stack'[t]) = Len(stack[t]) /\ DOMAIN stack'[t] = DOMAIN stack[t]
      /\ stack'[t][1] = g
      /\ \A i \in DOMAIN stack[t] : i = 1 \/ stack'[t][i] = stack[t][i]
  <2>1. PICK s : s = stack[t]  OBVIOUS
  <2>2. s \in Seq(Frames) /\ s # << >>  BY <2>1 DEF TypeOK
  <2>3. PICK r : r = <<g>> \o Tail(s)  OBVIOUS
  <2>4. /\ r \in Seq(Frames) /\ r # << >> /\ Len(r) = Len(s) /\ r[1] = g /\ Head(r) = g
        /\ \A i \in 2 .. Len(s) : r[i] = s[i]
    BY <1>2, <2>2, <2>3, NewTop
  <2>5. DOMAIN r = 1 .. Len(s) /\ DOMAIN s = 1 .. Len(s) /\ Len(s) \in Nat \ {0}
    BY <2>2, <2>4
  <2>6. \A i \in DOMAIN s : i = 1 \/ i \in 2 .. Len(s)  BY <2>5
  <2>7. \A i \in DOMAIN s : i = 1 \/ r[i] = s[i]  BY <2>4, <2>6
  <2>8. stack'[t] = r  BY <1>1, <2>1, <2>3
  <2> QED  BY <2>1, <2>4, <2>5, <2>7, <2>8
<1>4. Top(t) = stack[t][1] /\ 1 \in DOMAIN stack[t] /\ Top(t).ip \in Nat
      /\ Len(stack[t]) \in Nat \ {0}
  BY TopType
<1>5. \A u \in Threads : /\ stack'[u] \in Seq(Frames) /\ stack'[u] # << >>
                         /\ Len(stack'[u]) = Len(stack[u]) /\ DOMAIN stack'[u] = DOMAIN stack[u]
  BY <1>3, RousedFrames
<1>6. stack' \in [Threads -> Seq(Frames)]  BY <1>5
<1>7. \A u \in Threads : \A i \in DOMAIN stack[u] :
        /\ stack'[u][i].who = stack[u][i].who
        /\ \/ stack'[u][i].at = stack[u][i].at
           \/ i = 1 /\ stack[u][i].at = "asleep" /\ stack'[u][i].at = "lock"
           \/ u = t /\ i = 1 /\ stack'[u][i].at = "call"
  <2>1. ASSUME NEW u \in Threads \ {t}, NEW i \in DOMAIN stack[u]
        PROVE  /\ stack'[u][i].who = stack[u][i].who
               /\ \/ stack'[u][i].at = stack[u][i].at
                  \/ i = 1 /\ stack[u][i].at = "asleep" /\ stack'[u][i].at = "lock"
    BY RousedFrames
  <2>2. ASSUME NEW i \in DOMAIN stack[t]
        PROVE  /\ stack'[t][i].who = stack[t][i].who
               /\ stack'[t][i].at = stack[t][i].at \/ (i = 1 /\ stack'[t][i].at = "call")
    BY <1>2, <1>3, <1>4
  <2>3. ASSUME NEW u \in Threads, NEW i \in DOMAIN stack[u]
        PROVE  /\ stack'[u][i].who = stack[u][i].who
               /\ \/ stack'[u][i].at = stack[u][i].at
                  \/ i = 1 /\ stack[u][i].at = "asleep" /\ stack'[u][i].at = "lock"
                  \/ u = t /\ i = 1 /\ stack'[u][i].at = "call"
    <3>1. CASE u = t  BY <2>2, <3>1
    <3>2. CASE u # t
      <4>1. u \in Threads \ {t}  BY <3>2
      <4> QED  BY <2>1, <4>1
    <3> QED  BY <3>1, <3>2
  <2> QED  BY <2>3
<1>8. Top(t)' = g  BY <1>3 DEF Top
<1>9. Top(t).at' = "call"  BY <1>2, <1>8
<1>10. /\ Sub(t)' = None /\ Nxt(t)' = None /\ Entered(t)' = None /\ Leaving(t)' = None
       /\ CallRight(t)'
  BY <1>9 DEF SubmitLabels, FinishLabels, Sub, Nxt, Entered, CallRight, At, Leaving
<1>11. StacksRight'
  <2>1. ASSUME NEW u \in Threads, NEW i \in DOMAIN stack'[u]  PROVE FrameRight(u, i)'
    <3>1. i \in DOMAIN stack[u] /\ Len(stack'[u]) = Len(stack[u])  BY <1>5
    <3>2. FrameRight(u, i)  BY <3>1 DEF PoolInv, StacksRight
    <3>3. /\ stack'[u][i].who = stack[u][i].who
          /\ \/ stack'[u][i].at = stack[u][i].at
             \/ i = 1 /\ stack[u][i].at = "asleep" /\ stack'[u][i].at = "lock"
             \/ u = t /\ i = 1 /\ stack'[u][i].at = "call"
      BY <1>7, <3>1
    <3>4. CASE stack'[u][i].at = stack[u][i].at  BY <3>1, <3>2, <3>3, <3>4 DEF FrameRight
    <3>5. CASE i = 1 /\ stack[u][i].at \notin WorkerLabels /\ stack'[u][i].at \in {"lock", "call"}
      BY <3>1, <3>2, <3>3, <3>5, LabelsApart DEF FrameRight
    <3> QED  BY <1>4, <3>3, <3>4, <3>5, LabelsApart
  <2>2. ASSUME NEW u \in Threads, NEW v \in Threads, NEW i \in DOMAIN stack'[u],
               NEW j \in DOMAIN stack'[v], stack'[u][i].who = stack'[v][j].who
        PROVE  u = v /\ i = j
    <3>1. i \in DOMAIN stack[u] /\ j \in DOMAIN stack[v]  BY <1>5
    <3>2. stack'[u][i].who = stack[u][i].who /\ stack'[v][j].who = stack[v][j].who
      BY <1>7, <3>1
    <3>3. stack[u][i].who = stack[v][j].who  BY <2>2, <3>2
    <3>4. StacksRight  BY DEF PoolInv
    <3> QED  BY <3>1, <3>3, <3>4 DEF StacksRight
  <2> QED  BY <2>1, <2>2 DEF StacksRight
<1>12. DrainersRight'
  <2>1. \A u \in Threads : \A i \in DOMAIN stack[u] :
          stack'[u][i].at \in DrainLabels <=> stack[u][i].at \in DrainLabels
    BY <1>4, <1>7, LabelsApart
  <2>2. \A w : w \in DrainingTasks' <=>
          \E u \in Threads : \E i \in DOMAIN stack'[u] :
             stack'[u][i].who = w /\ stack'[u][i].at \in DrainLabels
    BY DEF DrainingTasks
  <2>3. ASSUME NEW w  PROVE w \in DrainingTasks' <=> w \in DrainingTasks
    <3>1. \A u \in Threads : \A i \in DOMAIN stack[u] :
            stack'[u][i].who = w /\ stack'[u][i].at \in DrainLabels
              <=> stack[u][i].who = w /\ stack[u][i].at \in DrainLabels
      BY <1>7, <2>1
    <3>2. \A u \in Threads : DOMAIN stack'[u] = DOMAIN stack[u]  BY <1>5
    <3> QED  BY <2>2, <3>1, <3>2, DrainMember
  <2>4. DrainingTasks' = DrainingTasks  BY <2>3
  <2> QED  BY <2>4 DEF PoolInv, DrainersRight
<1>13. ASSUME NEW j  PROVE OnStack(j)' <=> OnStack(j)
  <2>1. \A u \in Threads : \A i \in DOMAIN stack[u] : stack'[u][i].who = stack[u][i].who
    BY <1>7
  <2>2. \A u \in Threads : DOMAIN stack'[u] = DOMAIN stack[u]  BY <1>5
  <2>3. OnStack(j)' <=> \E u \in Threads : \E i \in DOMAIN stack'[u] : stack'[u][i].who = j
    BY DEF OnStack
  <2> QED  BY <2>1, <2>2, <2>3 DEF OnStack
<1>14. ASSUME NEW w \in Users \union Tasks, NEW i \in Nat, Ahead(w, i)'  PROVE Ahead(w, i)
  <2>1. CASE w \in Tasks /\ ~OnStack(w)' /\ runs'[w] = 0  BY <1>13, <2>1 DEF Ahead
  <2>2. ASSUME NEW u \in Threads, NEW j \in DOMAIN stack'[u], stack'[u][j].who = w,
               stack'[u][j].ip < i \/ (stack'[u][j].ip = i /\ stack'[u][j].at = "call")
        PROVE  Ahead(w, i)
    <3>1. j \in DOMAIN stack[u]  BY <1>5
    <3>2. CASE u = t /\ j = 1
      <4>1. g.who = w /\ (g.ip < i \/ g.ip = i)  BY <1>3, <2>2, <3>2
      <4>2. Top(t).who = w /\ Top(t).ip < i  BY <1>2, <1>4, <4>1
      <4> QED  BY <1>4, <4>2 DEF Ahead
    <3>3. CASE ~(u = t /\ j = 1)
      <4>1. /\ stack'[u][j].who = stack[u][j].who /\ stack'[u][j].ip = stack[u][j].ip
            /\ stack'[u][j].at = "call" => stack[u][j].at = "call"
        BY <1>3, <3>1, <3>3, RousedFrames
      <4> QED  BY <2>2, <3>1, <4>1 DEF Ahead
    <3> QED  BY <3>2, <3>3
  <2> QED  BY <1>14, <2>1, <2>2 DEF Ahead
<1>15. \A u \in Threads \ {t} : Quiet(u)  BY RousedQuiet
<1>16. OwnStep(t)  BY <1>11, <1>12, <1>14, <1>15 DEF OwnStep
<1> QED  BY <1>5, <1>6, <1>10, <1>13, <1>16

\* A submission that is rolled back.
LEMMA RefusalReleased ==
  ASSUME TypeOK, PoolInv, NEW t \in Threads, Release(t), ~Finished(t)
  PROVE  TypeOK' /\ PoolInv'
<1>1. /\ At(t, "release") /\ Top(t).at = "release" /\ inflight' = inflight - 1
      /\ UNCHANGED <<program, queue, tokens, draining, stop, up, holder, cont, done, runs>>
  BY DEF Release, At
<1>2. PICK k : k = Call(t).task  OBVIOUS
<1>3. Top(t).at \in SubmitLabels /\ "wake" \in SubmitLabels  BY <1>1 DEF SubmitLabels
<1>4. Sub(t) = k /\ k \in Tasks  BY <1>1, <1>2, <1>3, InHand DEF Sub
<1>5. /\ InSubmission(t) /\ k # None
      /\ Nxt(t) = None /\ Entered(t) = None /\ Leaving(t) = None
      /\ TaskRight(k) /\ ~Nowhere(k) /\ In(k, "submit") /\ runs[k] = 0
      /\ ~Queues(k) /\ ~OnStack(k)
      /\ \A d \in Tasks : cont[d] # k
      /\ \A u \in Threads : Nxt(u) # k
      /\ \A u \in Threads \ {t} : Sub(u) # k /\ Entered(u) # k
      /\ Out(k) <=> ~At(t, "reserve")
  BY <1>4, Holding
<1>6. Out(k)  BY <1>1, <1>5 DEF At
<1>7. inflight >= 1 /\ inflight' \in Nat
  <2>1. inflight >= 1  BY <1>4, <1>6, OutCounted
  <2>2. inflight \in Nat  BY DEF TypeOK
  <2> QED  BY <1>1, <2>1, <2>2
<1>8. /\ stack' \in [Threads -> Seq(Frames)] /\ \A u \in Threads : stack'[u] # << >>
      /\ Sub(t)' = None /\ Nxt(t)' = None /\ Entered(t)' = None /\ Leaving(t)' = None
      /\ CallRight(t)' /\ StacksRight' /\ DrainersRight'
      /\ \A u \in Threads \ {t} : Quiet(u)
      /\ \A j : OnStack(j)' <=> OnStack(j)
      /\ \A w \in Users \union Tasks : \A i \in Nat : Ahead(w, i)' => Ahead(w, i)
  <2>1. CASE inflight' = 0
    <3>1. GoesTo(t, "wake")
      BY <1>1, <1>3, <2>1, SubmitLabelsApart DEF Release, GoesTo
    <3>2. /\ Top(t).at' = "wake" /\ Finished(t)' = Finished(t) /\ InSubmission(t)'
          /\ Sub(t)' = None /\ Nxt(t)' = None /\ Entered(t)' = None /\ Leaving(t)' = None
      BY <1>5, <3>1, WentTo
    <3>3. CallRight(t)'  BY <3>2 DEF CallRight, At, SubmitLabels, FinishLabels
    <3> QED  BY <3>1, <3>2, <3>3, WentTo
  <2>2. CASE inflight' # 0
    <3>1. stack' = Leave(t)  BY <2>2 DEF Release
    <3>2. SetTop(t, NextCall(Top(t)))  BY <3>1 DEF Leave, SetTop
    <3>3. Returns(t)  BY <1>1, <1>3, <3>2, SubmitLabelsApart DEF Returns
    <3> QED  BY <3>3, Returned
  <2> QED  BY <2>1, <2>2
<1>9. /\ fate' = [fate EXCEPT ![k] = "refused"] /\ handle' = [handle EXCEPT ![k] = "none"]
  BY <1>2 DEF Release, Pushed
<1>10. /\ fate' \in [Tasks -> {"new", "accepted", "refused"}] /\ fate'[k] = "refused"
       /\ \A j \in Tasks \ {k} : fate'[j] = fate[j]
       /\ handle' \in [Tasks -> {"none", "live", "deleted"}]
       /\ \A j \in Tasks \ {k} : handle'[j] = handle[j]
  <2>1. /\ fate \in [Tasks -> {"new", "accepted", "refused"}]
        /\ handle \in [Tasks -> {"none", "live", "deleted"}]
    BY DEF TypeOK
  <2> QED  BY <1>4, <1>9, <2>1
<1>11. TypeOK'  BY <1>1, <1>7, <1>8, <1>10 DEF TypeOK
<1>12. \A j : Queues(j)' <=> Queues(j)  BY <1>1 DEF Queues
<1>13. /\ ~In(k, "submit")' /\ ~In(k, "queue")' /\ ~In(k, "cont")' /\ ~In(k, "next")'
       /\ ~In(k, "stack")' /\ ~Known(k)'
  <2>1. (In(k, "cont")' <=> \E d \in Tasks : cont'[d] = k) /\ cont' = cont
    BY <1>1, <1>8, PlacesAfter
  <2>2. /\ In(k, "submit")' <=> Sub(t)' = k \/ \E u \in Threads \ {t} : Sub(u) = k
        /\ In(k, "queue")' <=> Queues(k)'
        /\ In(k, "next")' <=> Nxt(t)' = k \/ \E u \in Threads \ {t} : Nxt(u) = k
        /\ In(k, "stack")' <=> OnStack(k)'
        /\ Known(k)' <=> \/ fate'[k] = "accepted" \/ Entered(t)' = k
                         \/ \E u \in Threads \ {t} : Entered(u) = k
    BY <1>8, PlacesAfter
  <2> QED  BY <1>5, <1>8, <1>10, <1>12, <2>1, <2>2
<1>14. \A u \in Threads : Sub(u)' # k /\ Nxt(u)' # k  BY <1>5, <1>8 DEF Quiet
<1>15. TaskRight(k)'
  <2>1. \A x \in Places : ~In(k, x)'  BY <1>13 DEF Places
  <2>2. NotLost(k)'  BY <1>13 DEF NotLost
  <2>3. Follows(k)'
    <3>1. ~Queues(k)' /\ runs'[k] = 0 /\ \A c \in Tasks : cont'[c] # k
      BY <1>1, <1>5, <1>12
    <3>2. ASSUME NEW d \in Tasks  PROVE FollowsDep(d, k)'  BY <1>14, <3>1 DEF FollowsDep
    <3> QED  BY <3>2 DEF Follows
  <2>4. "submit" \in Places /\ runs'[k] = 0  BY <1>1, <1>5 DEF Places
  <2> QED  BY <1>1, <1>4, <1>5, <1>8, <2>1, <2>2, <2>3, <2>4, TaskTo
<1>16. OnceThere'
  <2>1. OnceQueued /\ OnceRegistered /\ OnceFired  BY DEF PoolInv, OnceThere
  <2>2. OnceQueued' /\ OnceRegistered'  BY <1>1, <2>1 DEF OnceQueued, OnceRegistered
  <2>3. \A u \in Threads : Nxt(u)' = Nxt(u)  BY <1>5, <1>8 DEF Quiet
  <2> QED  BY <2>1, <2>2, <2>3 DEF OnceFired, OnceThere
<1>17. Concerns(t, k)
  <2>1. Acts(t, k)  BY <1>4, <1>5, <1>8 DEF Acts
  <2>2. \A j \in Tasks \ {k} : Spared(j)  BY <1>1, <1>8, <1>10, <1>12 DEF Spared
  <2> QED  BY <1>1, <1>8, <2>1, <2>2 DEF Concerns
<1>18. ~Out(k)'
  <2>1. ~Queues(k)' /\ ~OnStack(k)' /\ \A c \in Tasks : cont'[c] # k
    BY <1>1, <1>5, <1>8, <1>12
  <2> QED  BY <1>14, <2>1 DEF Out
<1>19. CountedNoMore(k)  BY <1>1, <1>4, <1>6, <1>18 DEF CountedNoMore
<1> QED  BY <1>4, <1>8, <1>11, <1>15, <1>16, <1>17, <1>19, Preserved

\* What is known of the task that a thread has finished.
LEMMA Completing ==
  ASSUME TypeOK, PoolInv, NEW t \in Threads, Finished(t)
  PROVE  LET k == Top(t).who IN
         /\ k \in Tasks /\ k # None /\ t \in Workers /\ Len(stack[t]) > 1
         /\ TaskRight(k) /\ OnStack(k) /\ runs[k] = 1 /\ ~Nowhere(k) /\ In(k, "stack")
         /\ ~Queues(k)
         /\ \A d \in Tasks : cont[d] # k
         /\ \A u \in Threads : Sub(u) # k /\ Nxt(u) # k
         /\ \A u \in Threads \ {t} : Leaving(u) # k
         /\ Out(k) <=> ~At(t, "wake")
<1>1. PICK k : k = Top(t).who  OBVIOUS
<1>2. k \in Tasks /\ k # None  BY <1>1, ThreadPoolAssumption DEF Finished
<1>3. t \in Workers /\ Len(stack[t]) > 1  BY <1>1, <1>2, TopPlace DEF PoolInv
<1>4. OnStack(k)  BY <1>1, TopType DEF OnStack
<1>5. TaskRight(k) /\ In(k, "stack")  BY <1>2, <1>4, PlaceNames DEF PoolInv
<1>6. ~In(k, "queue") /\ ~In(k, "cont") /\ ~In(k, "submit") /\ ~In(k, "next") /\ runs[k] = 1
      /\ ~Nowhere(k)
  BY <1>5 DEF TaskRight, OnePlace, RunsRight, Places, Nowhere
<1>7. /\ ~Queues(k) /\ (\A d \in Tasks : cont[d] # k)
      /\ \A u \in Threads : Sub(u) # k /\ Nxt(u) # k
  BY <1>6, PlaceNames
<1>8. ASSUME NEW u \in Threads, Leaving(u) = k  PROVE u = t /\ At(t, "wake")
  <2>1. Top(u).who = k /\ At(u, "wake")  BY <1>2, <1>8 DEF Leaving
  <2>2. StacksRight  BY DEF PoolInv
  <2>3. u = t  BY <1>1, <2>1, <2>2, TopType DEF StacksRight
  <2> QED  BY <2>1, <2>3
<1>9. Out(k) <=> ~At(t, "wake")
  <2>1. Out(k) <=> Counted(k)  BY <1>4, <1>7 DEF Out
  <2>2. At(t, "wake") => Leaving(t) = k  BY <1>1 DEF Leaving
  <2> QED  BY <1>2, <1>8, <2>1, <2>2, CountedStatus
<1> QED  BY <1>1, <1>2, <1>3, <1>4, <1>5, <1>6, <1>7, <1>8, <1>9

\* A task that is finished leaves the stack, and other threads are woken or not.
LEMMA Popped ==
  ASSUME NEW s \in Seq(Frames), Len(s) > 1
  PROVE  LET q == Tail(s) IN
         /\ q \in Seq(Frames) /\ q # << >> /\ Len(s) \in Nat /\ Len(q) = Len(s) - 1
         /\ \A i \in DOMAIN q : i \in Nat \ {0} /\ i + 1 \in DOMAIN s /\ q[i] = s[i + 1]
         /\ \A i \in DOMAIN s : i \in Nat /\ (i = 1 \/ (i - 1 \in DOMAIN q /\ q[i - 1] = s[i]))
         /\ 1 \in DOMAIN q /\ Head(q) = q[1]
<1>1. Len(s) \in Nat /\ s # << >>  OBVIOUS
<1>0. PICK q : q = Tail(s)  OBVIOUS
<1>2. q \in Seq(Frames) /\ Len(q) = Len(s) - 1  BY <1>0, <1>1
<1>3. DOMAIN q = 1 .. Len(s) - 1 /\ DOMAIN s = 1 .. Len(s)  BY <1>1, <1>2
<1>4. \A i \in 1 .. Len(s) - 1 : q[i] = s[i + 1]  BY <1>0, <1>1
<1>5. \A i \in DOMAIN q : i \in Nat \ {0} /\ i + 1 \in DOMAIN s /\ q[i] = s[i + 1]
  BY <1>1, <1>3, <1>4
<1>6. ASSUME NEW i \in DOMAIN s, i # 1  PROVE i - 1 \in DOMAIN q /\ q[i - 1] = s[i]
  <2>1. i - 1 \in 1 .. Len(s) - 1 /\ i - 1 + 1 = i  BY <1>1, <1>3, <1>6
  <2> QED  BY <1>3, <1>4, <2>1
<1>7. \A i \in DOMAIN s : i \in Nat  BY <1>1, <1>3
<1>8. 1 \in DOMAIN q /\ q # << >> /\ Head(q) = q[1]
  <2>0. Len(q) > 0  BY <1>1, <1>2
  <2>1. \A r \in Seq(Frames) : Len(r) > 0 => r # << >> /\ 1 \in DOMAIN r /\ Head(r) = r[1]
    OBVIOUS
  <2> QED  BY <1>2, <2>0, <2>1
<1> QED  BY <1>0, <1>1, <1>2, <1>5, <1>6, <1>7, <1>8

LEMMA Left ==
  ASSUME TypeOK, PoolInv, NEW t \in Threads, Finished(t), Top(t).at \in {"release", "wake"},
         stack' = [u \in Threads |-> stack'[u]],
         stack'[t] = Tail(stack[t]),
         \A u \in Threads \ {t} : Roused(u),
         program' = program, up' = up, runs' = runs, draining' = draining
  PROVE  /\ stack' \in [Threads -> Seq(Frames)] /\ \A u \in Threads : stack'[u] # << >>
         /\ Sub(t)' = None /\ Nxt(t)' = None /\ Entered(t)' = None /\ Leaving(t)' = None
         /\ CallRight(t)' /\ OwnStep(t)
         /\ \A j : OnStack(j)' <=> OnStack(j) /\ j # Top(t).who
<1> DEFINE from(u, i) == IF u = t THEN i + 1 ELSE i
<1>1. /\ Len(stack[t]) > 1 /\ runs[Top(t).who] = 1 /\ StacksRight
      /\ Top(t) = stack[t][1] /\ 1 \in DOMAIN stack[t]
  BY Completing, TopType DEF PoolInv
<1>2. /\ stack'[t] \in Seq(Frames) /\ stack'[t] # << >> /\ Len(stack[t]) \in Nat
      /\ Len(stack'[t]) = Len(stack[t]) - 1
      /\ \A i \in DOMAIN stack'[t] : /\ i \in Nat \ {0} /\ i + 1 \in DOMAIN stack[t]
                                     /\ stack'[t][i] = stack[t][i + 1]
      /\ \A i \in DOMAIN stack[t] :
           /\ i \in Nat
           /\ i = 1 \/ (i - 1 \in DOMAIN stack'[t] /\ stack'[t][i - 1] = stack[t][i])
      /\ 1 \in DOMAIN stack'[t] /\ Head(stack'[t]) = stack'[t][1]
  <2>1. PICK s, q : s = stack[t] /\ q = stack'[t]  OBVIOUS
  <2>2. s \in Seq(Frames) /\ Len(s) > 1 /\ q = Tail(s)  BY <1>1, <2>1 DEF TypeOK
  <2>3. /\ q \in Seq(Frames) /\ q # << >> /\ Len(s) \in Nat /\ Len(q) = Len(s) - 1
        /\ \A i \in DOMAIN q : i \in Nat \ {0} /\ i + 1 \in DOMAIN s /\ q[i] = s[i + 1]
        /\ \A i \in DOMAIN s : i \in Nat /\ (i = 1 \/ (i - 1 \in DOMAIN q /\ q[i - 1] = s[i]))
        /\ 1 \in DOMAIN q /\ Head(q) = q[1]
    BY <2>2, Popped
  <2> QED  BY <2>1, <2>3
<1>3. \A u \in Threads \ {t} :
        /\ stack'[u] \in Seq(Frames) /\ stack'[u] # << >>
        /\ Len(stack'[u]) = Len(stack[u]) /\ DOMAIN stack'[u] = DOMAIN stack[u]
        /\ \A i \in DOMAIN stack[u] :
             /\ stack'[u][i].who = stack[u][i].who /\ stack'[u][i].ip = stack[u][i].ip
             /\ \/ stack'[u][i].at = stack[u][i].at
                \/ i = 1 /\ stack[u][i].at = "asleep" /\ stack'[u][i].at = "lock"
  BY RousedFrames
<1>4. ASSUME NEW u \in Threads, NEW i \in DOMAIN stack'[u]
      PROVE  /\ from(u, i) \in DOMAIN stack[u]
             /\ stack'[u][i].who = stack[u][from(u, i)].who
             /\ stack'[u][i].ip = stack[u][from(u, i)].ip
             /\ ~(u = t /\ from(u, i) = 1)
             /\ \/ stack'[u][i].at = stack[u][from(u, i)].at
                \/ /\ u # t /\ i = 1
                   /\ stack[u][from(u, i)].at = "asleep" /\ stack'[u][i].at = "lock"
  <2>1. CASE u = t
    <3>1. i \in Nat \ {0} /\ i + 1 \in DOMAIN stack[t] /\ stack'[t][i] = stack[t][i + 1]
      BY <1>2, <1>4, <2>1
    <3>2. i + 1 # 1  BY <3>1
    <3> QED  BY <2>1, <3>1, <3>2
  <2>2. CASE u # t
    <3>1. u \in Threads \ {t} /\ from(u, i) = i  BY <2>2
    <3> QED  BY <1>3, <1>4, <2>2, <3>1
  <2> QED  BY <2>1, <2>2
<1>5. ASSUME NEW u \in Threads, NEW i \in DOMAIN stack[u], ~(u = t /\ i = 1)
      PROVE  \E j \in DOMAIN stack'[u] : from(u, j) = i
  <2>1. CASE u = t
    <3>1. i \in Nat /\ i - 1 \in DOMAIN stack'[t]  BY <1>2, <1>5, <2>1
    <3>2. from(u, i - 1) = i  BY <2>1, <3>1
    <3> QED  BY <2>1, <3>1, <3>2
  <2>2. CASE u # t
    <3>1. u \in Threads \ {t} /\ from(u, i) = i  BY <2>2
    <3> QED  BY <1>3, <1>5, <3>1
  <2> QED  BY <2>1, <2>2
<1>6. stack' \in [Threads -> Seq(Frames)] /\ \A u \in Threads : stack'[u] # << >>
  BY <1>2, <1>3
<1>7. Top(t)' = stack'[t][1] /\ Top(t).at' \in {"top", "help"}
  <2>1. Top(t)' = stack'[t][1] /\ stack'[t][1] = stack[t][2] /\ 2 \in DOMAIN stack[t]
    <3>1. 1 + 1 = 2  OBVIOUS
    <3> QED  BY <1>2, <3>1 DEF Top
  <2>2. FrameRight(t, 2)  BY <1>1, <2>1 DEF StacksRight
  <2>3. 2 > 1  OBVIOUS
  <2> QED  BY <2>1, <2>2, <2>3 DEF FrameRight
<1>8. /\ Sub(t)' = None /\ Nxt(t)' = None /\ Entered(t)' = None /\ Leaving(t)' = None
      /\ CallRight(t)'
  BY <1>7 DEF SubmitLabels, FinishLabels, Sub, Nxt, Entered, CallRight, At, Leaving
<1> HIDE DEF from
<1>9. StacksRight'
  <2>1. ASSUME NEW u \in Threads, NEW i \in DOMAIN stack'[u]  PROVE FrameRight(u, i)'
    <3>1. CASE u = t
      <4>1. /\ i \in Nat \ {0} /\ i + 1 \in DOMAIN stack[t] /\ stack'[t][i] = stack[t][i + 1]
            /\ Len(stack'[t]) = Len(stack[t]) - 1 /\ Len(stack[t]) \in Nat
        BY <1>2, <2>1, <3>1
      <4>2. FrameRight(t, i + 1)  BY <1>1, <4>1 DEF StacksRight
      <4>3. /\ i = Len(stack'[t]) <=> i + 1 = Len(stack[t])
            /\ i < Len(stack'[t]) <=> i + 1 < Len(stack[t])
            /\ i > 1 => i + 1 > 1
        BY <4>1
      <4> QED  BY <3>1, <4>1, <4>2, <4>3 DEF FrameRight
    <3>2. CASE u # t
      <4>1. u \in Threads \ {t}  BY <3>2
      <4>2. i \in DOMAIN stack[u] /\ Len(stack'[u]) = Len(stack[u])  BY <1>3, <2>1, <4>1
      <4>3. /\ stack'[u][i].who = stack[u][i].who
            /\ \/ stack'[u][i].at = stack[u][i].at
               \/ i = 1 /\ stack[u][i].at = "asleep" /\ stack'[u][i].at = "lock"
        BY <1>3, <4>1, <4>2
      <4>4. FrameRight(u, i)  BY <1>1, <4>2 DEF StacksRight
      <4>5. CASE stack'[u][i].at = stack[u][i].at  BY <4>2, <4>3, <4>4, <4>5 DEF FrameRight
      <4>6. CASE i = 1 /\ stack[u][i].at = "asleep" /\ stack'[u][i].at = "lock"
        BY <4>2, <4>3, <4>4, <4>6, LabelsApart DEF FrameRight
      <4> QED  BY <4>3, <4>5, <4>6
    <3> QED  BY <3>1, <3>2
  <2>2. ASSUME NEW u \in Threads, NEW v \in Threads, NEW i \in DOMAIN stack'[u],
               NEW j \in DOMAIN stack'[v], stack'[u][i].who = stack'[v][j].who
        PROVE  u = v /\ i = j
    <3>1. /\ from(u, i) \in DOMAIN stack[u] /\ from(v, j) \in DOMAIN stack[v]
          /\ stack[u][from(u, i)].who = stack[v][from(v, j)].who
      BY <1>4, <2>2
    <3>2. u = v /\ from(u, i) = from(v, j)  BY <1>1, <3>1 DEF StacksRight
    <3>3. CASE u = t
      <4>1. i \in Nat /\ j \in Nat /\ i + 1 = j + 1  BY <1>2, <2>2, <3>2, <3>3 DEF from
      <4> QED  BY <3>2, <4>1
    <3>4. CASE u # t  BY <3>2, <3>4 DEF from
    <3> QED  BY <3>3, <3>4
  <2> QED  BY <2>1, <2>2 DEF StacksRight
<1>10. ASSUME NEW j  PROVE OnStack(j)' <=> OnStack(j) /\ j # Top(t).who
  <2>1. OnStack(j)' <=> \E u \in Threads : \E i \in DOMAIN stack'[u] : stack'[u][i].who = j
    BY DEF OnStack
  <2>2. ASSUME NEW u \in Threads, NEW i \in DOMAIN stack'[u], stack'[u][i].who = j
        PROVE  OnStack(j) /\ j # Top(t).who
    <3>1. /\ from(u, i) \in DOMAIN stack[u] /\ stack[u][from(u, i)].who = j
          /\ ~(u = t /\ from(u, i) = 1)
      BY <1>4, <2>2
    <3> QED  BY <1>1, <3>1 DEF OnStack, StacksRight
  <2>3. ASSUME OnStack(j), j # Top(t).who
        PROVE  \E u \in Threads : \E i \in DOMAIN stack'[u] : stack'[u][i].who = j
    <3>1. PICK u \in Threads : \E i \in DOMAIN stack[u] : stack[u][i].who = j  BY <2>3 DEF OnStack
    <3>2. PICK i \in DOMAIN stack[u] : stack[u][i].who = j  BY <3>1
    <3>3. PICK m \in DOMAIN stack'[u] : from(u, m) = i  BY <1>1, <1>5, <2>3, <3>2
    <3>4. stack'[u][m].who = j  BY <1>4, <3>2, <3>3
    <3> QED  BY <3>4
  <2> QED  BY <2>1, <2>2, <2>3
<1>11. DrainersRight'
  <2>1. \A w : w \in DrainingTasks' <=>
          \E u \in Threads : \E i \in DOMAIN stack'[u] :
             stack'[u][i].who = w /\ stack'[u][i].at \in DrainLabels
    BY DEF DrainingTasks
  <2>2. "asleep" \notin DrainLabels /\ "lock" \notin DrainLabels
        /\ "release" \notin DrainLabels /\ "wake" \notin DrainLabels
    BY DEF DrainLabels
  <2>3. ASSUME NEW w  PROVE w \in DrainingTasks' <=> w \in DrainingTasks
    <3>1. ASSUME NEW u \in Threads, NEW i \in DOMAIN stack'[u],
                 stack'[u][i].who = w, stack'[u][i].at \in DrainLabels
          PROVE  w \in DrainingTasks
      <4>1. /\ from(u, i) \in DOMAIN stack[u] /\ stack[u][from(u, i)].who = w
            /\ stack[u][from(u, i)].at \in DrainLabels
        BY <1>4, <2>2, <3>1
      <4> QED  BY <4>1, DrainMember
    <3>2. ASSUME NEW u \in Threads, NEW i \in DOMAIN stack[u],
                 stack[u][i].who = w, stack[u][i].at \in DrainLabels
          PROVE  \E v \in Threads : \E m \in DOMAIN stack'[v] :
                   stack'[v][m].who = w /\ stack'[v][m].at \in DrainLabels
      <4>1. ~(u = t /\ i = 1)  BY <1>1, <2>2, <3>2
      <4>2. PICK m \in DOMAIN stack'[u] : from(u, m) = i  BY <1>5, <3>2, <4>1
      <4>3. stack'[u][m].who = w /\ stack'[u][m].at \in DrainLabels  BY <1>4, <2>2, <3>2, <4>2
      <4> QED  BY <4>3
    <3> QED  BY <2>1, <3>1, <3>2, DrainMember
  <2>4. DrainingTasks' = DrainingTasks  BY <2>3
  <2> QED  BY <2>4 DEF PoolInv, DrainersRight
<1>12. ASSUME NEW w \in Users \union Tasks, NEW i \in Nat, Ahead(w, i)'  PROVE Ahead(w, i)
  <2>1. CASE w \in Tasks /\ ~OnStack(w)' /\ runs'[w] = 0
    <3>1. ~OnStack(w)  BY <1>1, <1>10, <2>1
    <3> QED  BY <2>1, <3>1 DEF Ahead
  <2>2. ASSUME NEW u \in Threads, NEW j \in DOMAIN stack'[u], stack'[u][j].who = w,
               stack'[u][j].ip < i \/ (stack'[u][j].ip = i /\ stack'[u][j].at = "call")
        PROVE  Ahead(w, i)
    <3>1. /\ from(u, j) \in DOMAIN stack[u] /\ stack[u][from(u, j)].who = w
          /\ stack'[u][j].ip = stack[u][from(u, j)].ip
          /\ stack'[u][j].at = "call" => stack[u][from(u, j)].at = "call"
      BY <1>4, <2>2
    <3> QED  BY <2>2, <3>1 DEF Ahead
  <2> QED  BY <1>12, <2>1, <2>2 DEF Ahead
<1>13. \A u \in Threads \ {t} : Quiet(u)  BY RousedQuiet
<1>14. OwnStep(t)  BY <1>9, <1>11, <1>12, <1>13 DEF OwnStep
<1> QED  BY <1>6, <1>8, <1>10, <1>14

\* A task that has completed gives its reservation back, and then leaves.
LEMMA CompletionStep ==
  ASSUME TypeOK, PoolInv, TypeOK', NEW t \in Threads, Finished(t), OwnStep(t), CallRight(t)',
         Top(t).at \in {"release", "wake"}, NEW k, k = Top(t).who,
         Sub(t)' = None, Nxt(t)' = None, Entered(t)' = None, Leaving(t)' \in {k, None},
         UNCHANGED <<cont, done, handle, fate, runs, queue>>,
         \A j \in Tasks \ {k} : OnStack(j)' <=> OnStack(j),
         ~OnStack(k)' \/ Leaving(t)' = k,
         inflight' = IF At(t, "release") THEN inflight - 1 ELSE inflight
  PROVE  PoolInv'
<1>1. k = Top(t).who  OBVIOUS
<1>2. /\ k \in Tasks /\ k # None
      /\ TaskRight(k) /\ OnStack(k) /\ runs[k] = 1 /\ ~Nowhere(k) /\ In(k, "stack")
      /\ ~Queues(k)
      /\ \A d \in Tasks : cont[d] # k
      /\ \A u \in Threads : Sub(u) # k /\ Nxt(u) # k
      /\ \A u \in Threads \ {t} : Leaving(u) # k
      /\ Out(k) <=> ~At(t, "wake")
  BY <1>1, Completing
<1>3. /\ Sub(t) = None /\ Nxt(t) = None /\ Entered(t) = None
      /\ Leaving(t) \in {k, None}
      /\ At(t, "wake") <=> ~At(t, "release")
  BY <1>1 DEF Sub, Nxt, Entered, Leaving, At
<1>4. /\ program' = program /\ up' = up /\ StacksRight' /\ DrainersRight'
      /\ \A u \in Threads \ {t} : Quiet(u)
      /\ \A w \in Users \union Tasks : \A i \in Nat : Ahead(w, i)' => Ahead(w, i)
  BY DEF OwnStep
<1>5. \A j : Queues(j)' <=> Queues(j)  BY DEF Queues
<1>6. \A u \in Threads : Sub(u)' # k /\ Nxt(u)' # k  BY <1>2, <1>4 DEF Quiet
<1>7. ~In(k, "submit")' /\ ~In(k, "queue")' /\ ~In(k, "cont")' /\ ~In(k, "next")'
  <2>1. (In(k, "cont")' <=> \E d \in Tasks : cont'[d] = k) /\ cont' = cont  BY <1>4, PlacesAfter
  <2>2. /\ In(k, "submit")' <=> Sub(t)' = k \/ \E u \in Threads \ {t} : Sub(u) = k
        /\ In(k, "queue")' <=> Queues(k)'
        /\ In(k, "next")' <=> Nxt(t)' = k \/ \E u \in Threads \ {t} : Nxt(u) = k
    BY <1>4, PlacesAfter
  <2> QED  BY <1>2, <1>5, <2>1, <2>2
<1>8. TaskRight(k)'
  <2>1. \A x \in Places : In(k, x)' => x = "stack"  BY <1>7 DEF Places
  <2>2. NotLost(k)'  BY <1>2 DEF NotLost
  <2>3. Follows(k)'
    <3>1. ASSUME NEW d \in Tasks, Chained(d, k)'  PROVE FollowsDep(d, k)'
      <4>1. Chained(d, k)  BY <1>4, <3>1, SamePrograms
      <4>2. FollowsDep(d, k)  BY <1>2, <4>1 DEF TaskRight, Follows
      <4>3. done'[d] # "no"  BY <1>2, <4>2 DEF FollowsDep
      <4>4. \A c \in Tasks : cont'[c] # k  BY <1>2
      <4> QED  BY <1>6, <4>3, <4>4 DEF FollowsDep
    <3> QED  BY <3>1 DEF Follows
  <2>4. "stack" \in Places /\ runs'[k] = 1  BY <1>2 DEF Places
  <2> QED  BY <1>2, <1>4, <2>1, <2>2, <2>3, <2>4, TaskTo
<1>9. OnceThere'
  <2>1. OnceQueued /\ OnceRegistered /\ OnceFired  BY DEF PoolInv, OnceThere
  <2>2. OnceQueued' /\ OnceRegistered'  BY <2>1 DEF OnceQueued, OnceRegistered
  <2>3. \A u \in Threads : Nxt(u)' = Nxt(u)  BY <1>3, <1>4 DEF Quiet
  <2> QED  BY <2>1, <2>2, <2>3 DEF OnceFired, OnceThere
<1>10. Concerns(t, k)
  <2>1. Acts(t, k)  BY <1>1, <1>3 DEF Acts
  <2>2. \A j \in Tasks \ {k} : Spared(j)  BY <1>1, <1>5 DEF Spared
  <2> QED  BY <1>4, <2>1, <2>2 DEF Concerns
<1>11. ~Out(k)'
  <2>1. ~(OnStack(k)' /\ Counted(k)')
    <3>1. Counted(k)' <=> ~\E u \in Threads : (Leaving(u) = k)'  BY <1>2 DEF Counted, Leaving
    <3> QED  BY <1>1, <3>1
  <2>2. ~Queues(k)' /\ \A c \in Tasks : cont'[c] # k  BY <1>2, <1>5
  <2> QED  BY <1>6, <2>1, <2>2 DEF Out
<1>12. CountedAlike(k) \/ CountedNoMore(k)
  BY <1>2, <1>3, <1>11 DEF CountedAlike, CountedNoMore
<1> QED  BY <1>2, <1>4, <1>8, <1>9, <1>10, <1>12, Preserved

LEMMA ReleaseStep ==
  ASSUME TypeOK, PoolInv, NEW t \in Threads, Release(t)
  PROVE  TypeOK' /\ PoolInv'
<1>1. /\ At(t, "release") /\ Top(t).at = "release" /\ inflight' = inflight - 1
      /\ UNCHANGED <<program, queue, tokens, draining, stop, up, holder, cont, done, runs>>
  BY DEF Release, At
<1>2. CASE ~Finished(t)  BY <1>2, RefusalReleased
<1>3. CASE Finished(t)
  <2>0. PICK k : k = Top(t).who  OBVIOUS
  <2>1. fate' = fate /\ handle' = handle  BY <1>3 DEF Release
  <2>2. Top(t).who \in Tasks /\ inflight' \in Nat
    <3>1. Top(t).who \in Tasks /\ Out(Top(t).who)  BY <1>1, <1>3, Completing DEF At
    <3>2. inflight >= 1 /\ inflight \in Nat  BY <3>1, OutCounted DEF TypeOK
    <3> QED  BY <1>1, <3>1, <3>2
  <2>3. Top(t).at \in SubmitLabels /\ "wake" \in SubmitLabels  BY <1>1 DEF SubmitLabels
  <2>4. CASE inflight' = 0
    <3>1. GoesTo(t, "wake")
      BY <1>1, <2>3, <2>4, SubmitLabelsApart DEF Release, GoesTo
    <3>2. /\ stack' \in [Threads -> Seq(Frames)] /\ \A u \in Threads : stack'[u] # << >>
          /\ Top(t).at' = "wake" /\ Finished(t)'
          /\ Sub(t)' = None /\ Nxt(t)' = None /\ Entered(t)' = None /\ Leaving(t)' = k
          /\ \A j : OnStack(j)' <=> OnStack(j)
      BY <1>3, <2>0, <3>1, WentTo
    <3>3. OwnStep(t)  BY <1>1, <3>1, WentTo DEF OwnStep
    <3>4. CallRight(t)'  BY <3>2 DEF CallRight, At, SubmitLabels, FinishLabels
    <3>5. TypeOK'  BY <1>1, <2>1, <2>2, <3>2 DEF TypeOK
    <3> QED  BY <1>1, <1>3, <2>0, <2>1, <3>2, <3>3, <3>4, <3>5, CompletionStep
  <2>5. CASE inflight' # 0
    <3>1. stack' = [stack EXCEPT ![t] = Tail(@)]  BY <1>3, <2>5 DEF Release, Leave
    <3>2. DOMAIN stack = Threads  BY DEF TypeOK
    <3>3. /\ stack' = [u \in Threads |-> stack'[u]]
          /\ stack'[t] = Tail(stack[t])
          /\ \A u \in Threads \ {t} : Roused(u)
      BY <3>1, <3>2 DEF Roused
    <3>4. /\ stack' \in [Threads -> Seq(Frames)] /\ \A u \in Threads : stack'[u] # << >>
          /\ Sub(t)' = None /\ Nxt(t)' = None /\ Entered(t)' = None /\ Leaving(t)' = None
          /\ CallRight(t)' /\ OwnStep(t)
          /\ \A j : OnStack(j)' <=> OnStack(j) /\ j # k
      BY <1>1, <1>3, <2>0, <3>3, Left
    <3>5. TypeOK'  BY <1>1, <2>1, <2>2, <3>4 DEF TypeOK
    <3> QED  BY <1>1, <1>3, <2>0, <2>1, <3>4, <3>5, CompletionStep
  <2> QED  BY <2>4, <2>5
<1> QED  BY <1>2, <1>3

LEMMA WakeStep ==
  ASSUME TypeOK, PoolInv, NEW t \in Threads, Wake(t)
  PROVE  TypeOK' /\ PoolInv'
<1>1. /\ At(t, "wake") /\ Top(t).at = "wake"
      /\ UNCHANGED <<program, queue, tokens, inflight, draining, stop, up, holder>>
      /\ UNCHANGED <<cont, done, handle, fate, runs>>
  BY DEF Wake, At, pool, handles
<1>2. DOMAIN stack = Threads  BY DEF TypeOK
<1>3. /\ stack' = [u \in Threads |-> stack'[u]]
      /\ stack'[t] = Leave(t)[t]
      /\ \A u \in Threads \ {t} : Roused(u)
  BY DEF Wake, Roused
<1>4. CASE Finished(t)
  <2>0. PICK k : k = Top(t).who  OBVIOUS
  <2>1. stack'[t] = Tail(stack[t])  BY <1>2, <1>3, <1>4 DEF Leave
  <2>2. /\ stack' \in [Threads -> Seq(Frames)] /\ \A u \in Threads : stack'[u] # << >>
        /\ Sub(t)' = None /\ Nxt(t)' = None /\ Entered(t)' = None /\ Leaving(t)' = None
        /\ CallRight(t)' /\ OwnStep(t)
        /\ \A j : OnStack(j)' <=> OnStack(j) /\ j # k
    BY <1>1, <1>3, <1>4, <2>0, <2>1, Left
  <2>3. TypeOK'  BY <1>1, <2>2 DEF TypeOK
  <2>4. inflight' = IF At(t, "release") THEN inflight - 1 ELSE inflight  BY <1>1 DEF At
  <2> QED  BY <1>1, <1>4, <2>0, <2>2, <2>3, <2>4, CompletionStep
<1>5. CASE ~Finished(t)
  <2>1. stack'[t] = <<NextCall(Top(t))>> \o Tail(stack[t])  BY <1>2, <1>3, <1>5 DEF Leave
  <2>2. Top(t).at \notin WorkerLabels \union DrainLabels
    BY <1>1, SubmitLabelsApart DEF SubmitLabels
  <2>3. /\ stack' \in [Threads -> Seq(Frames)] /\ \A u \in Threads : stack'[u] # << >>
        /\ Sub(t)' = None /\ Nxt(t)' = None /\ Entered(t)' = None /\ Leaving(t)' = None
        /\ CallRight(t)' /\ OwnStep(t)
        /\ \A j : OnStack(j)' <=> OnStack(j)
    BY <1>1, <1>3, <2>1, <2>2, ReturnedWaking
  <2>4. TypeOK'  BY <1>1, <2>3 DEF TypeOK
  <2>5. Sub(t) = None /\ Nxt(t) = None /\ Entered(t) = None /\ Leaving(t) = None
    BY <1>1, <1>5 DEF Sub, Nxt, Entered, Leaving, At
  <2>6. (\A j : Queues(j)' <=> Queues(j)) /\ OnceQueued'
    BY <1>1 DEF Queues, PoolInv, OnceThere, OnceQueued
  <2>7. None \notin Tasks  BY ThreadPoolAssumption
  <2> QED  BY <1>1, <2>3, <2>4, <2>5, <2>6, <2>7, StatusStep
<1> QED  BY <1>4, <1>5

-----------------------------------------------------------------------------
(* A task that has completed reports, and fires its continuation. *)

LEMMA DropStep ==
  ASSUME TypeOK, PoolInv, NEW t \in Threads, Drop(t)
  PROVE  TypeOK' /\ PoolInv'
<1>1. /\ At(t, "drop") /\ Top(t).at = "drop" /\ inflight' = inflight - 1
      /\ ~At(t, "drop_handle") /\ ~At(t, "report")
      /\ UNCHANGED <<program, queue, tokens, draining, stop, up, holder, runs>>
      /\ UNCHANGED <<cont, done, handle, fate>>
  BY DEF Drop, handles, At
<1>2. Finished(t)  BY <1>1 DEF PoolInv, CallRight, FinishLabels
<1>3. PICK k : k = Top(t).next  OBVIOUS
<1>4. k \in Tasks /\ Nxt(t) = k  BY <1>1, <1>2, <1>3 DEF PoolInv, CallRight, Nxt
<1>5. GoesTo(t, "drop_handle")
  <2>1. "drop_handle" \in FinishLabels /\ Top(t).at \in FinishLabels  BY <1>1 DEF FinishLabels
  <2> QED  BY <1>1, <2>1, SubmitLabelsApart DEF Drop, GoesTo
<1>6. inflight' \in Nat
  <2>1. Out(k)  BY <1>1, <1>4, Firing
  <2>2. inflight >= 1 /\ inflight \in Nat  BY <1>4, <2>1, OutCounted DEF TypeOK
  <2> QED  BY <1>1, <2>2
<1>7. TypeOK'
  <2>1. stack' \in [Threads -> Seq(Frames)] /\ \A u \in Threads : stack'[u] # << >>
    BY <1>5, WentTo
  <2> QED  BY <1>1, <1>6, <2>1 DEF TypeOK
<1>8. ASSUME NEW d \in Tasks, Chained(d, k)  PROVE done'[d] # "no"
  <2>1. TaskRight(k)  BY <1>4 DEF PoolInv
  <2>2. FollowsDep(d, k)  BY <1>8, <2>1 DEF TaskRight, Follows
  <2> QED  BY <1>1, <1>4, <2>2 DEF FollowsDep
<1>9. PICK a \in {"push", "drop", "drop_handle"} : a = "drop_handle"  OBVIOUS
<1>10. inflight' = IF a = "drop_handle" THEN inflight - 1 ELSE inflight  BY <1>1, <1>9
<1>11. GoesTo(t, a)  BY <1>5, <1>9
<1>12. /\ \A d \in Tasks : done[d] # "no" => done'[d] # "no"
       /\ \A j \in Tasks : done[j] = "dropped" => done'[j] = "dropped" \/ runs[j] = 1
  BY <1>1
<1> QED  BY <1>1, <1>4, <1>7, <1>8, <1>10, <1>11, <1>12, FiringGoesOn

LEMMA DropHandleStep ==
  ASSUME TypeOK, PoolInv, NEW t \in Threads, DropHandle(t)
  PROVE  TypeOK' /\ PoolInv'
<1>1. /\ At(t, "drop_handle") /\ Top(t).at = "drop_handle"
      /\ UNCHANGED <<program, queue, tokens, inflight, draining, stop, up, holder>>
      /\ UNCHANGED <<cont, handle, fate, runs>>
  BY DEF DropHandle, pool, At
<1>2. Finished(t)  BY <1>1 DEF PoolInv, CallRight, FinishLabels
<1>3. PICK k : k = Top(t).next  OBVIOUS
<1>4. k \in Tasks /\ Nxt(t) = k  BY <1>1, <1>2, <1>3 DEF PoolInv, CallRight, Nxt
<1>5. /\ k # None /\ Sub(t) = None /\ Entered(t) = None /\ Leaving(t) = None
      /\ TaskRight(k) /\ ~Nowhere(k) /\ In(k, "next") /\ runs[k] = 0
      /\ ~Queues(k) /\ ~OnStack(k)
      /\ \A d \in Tasks : cont[d] # k
      /\ \A u \in Threads : Sub(u) # k
      /\ \A u \in Threads \ {t} : Nxt(u) # k
      /\ ~Out(k)
  BY <1>1, <1>4, Firing
<1>6. GoesTo(t, "release")
  <2>1. "release" \in SubmitLabels /\ Top(t).at \in FinishLabels
    BY <1>1 DEF SubmitLabels, FinishLabels
  <2> QED  BY <1>1, <2>1, SubmitLabelsApart DEF DropHandle, GoesTo
<1>7. /\ stack' \in [Threads -> Seq(Frames)] /\ \A u \in Threads : stack'[u] # << >>
      /\ Top(t).at' = "release" /\ Finished(t)'
      /\ Sub(t)' = None /\ Nxt(t)' = None /\ Entered(t)' = None /\ Leaving(t)' = None
  BY <1>2, <1>6, WentTo
<1>8. /\ StacksRight' /\ DrainersRight'
      /\ \A u \in Threads \ {t} : Quiet(u)
      /\ \A j : OnStack(j)' <=> OnStack(j)
      /\ \A w \in Users \union Tasks : \A i \in Nat : Ahead(w, i)' => Ahead(w, i)
  BY <1>6, WentTo
<1>9. /\ done' \in [Tasks -> {"no", "ran", "dropped"}]
      /\ done'[k] = "dropped" /\ \A j \in Tasks \ {k} : done'[j] = done[j]
  <2>1. done \in [Tasks -> {"no", "ran", "dropped"}]  BY DEF TypeOK
  <2>2. done' = [done EXCEPT ![k] = "dropped"]  BY <1>3 DEF DropHandle
  <2> QED  BY <1>4, <2>1, <2>2
<1>10. TypeOK'  BY <1>1, <1>7, <1>9 DEF TypeOK
<1>11. \A j : Queues(j)' <=> Queues(j)  BY <1>1 DEF Queues
<1>12. \A u \in Threads : Sub(u)' # k /\ Nxt(u)' # k  BY <1>5, <1>7, <1>8 DEF Quiet
<1>13. ~Queues(k)' /\ ~OnStack(k)' /\ \A c \in Tasks : cont'[c] # k
  BY <1>1, <1>5, <1>8, <1>11
<1>14. TaskRight(k)'
  <2>1. \A x \in Places : ~In(k, x)'  BY <1>12, <1>13 DEF In
  <2>2. NotLost(k)'  BY <1>9 DEF NotLost
  <2>3. Follows(k)'
    <3>1. ASSUME NEW d \in Tasks  PROVE FollowsDep(d, k)'
      BY <1>1, <1>5, <1>12, <1>13 DEF FollowsDep
    <3> QED  BY <3>1 DEF Follows
  <2>4. "next" \in Places /\ runs'[k] = 0  BY <1>1, <1>5 DEF Places
  <2> QED  BY <1>1, <1>4, <1>5, <1>8, <2>1, <2>2, <2>3, <2>4, TaskTo
<1>15. CallRight(t)'  BY <1>7 DEF CallRight, At, SubmitLabels, FinishLabels
<1>16. OnceThere'
  <2>1. OnceQueued /\ OnceRegistered /\ OnceFired  BY DEF PoolInv, OnceThere
  <2>2. OnceQueued' /\ OnceRegistered'  BY <1>1, <2>1 DEF OnceQueued, OnceRegistered
  <2>3. \A u \in Threads : Nxt(u)' \in {Nxt(u), None}  BY <1>7, <1>8 DEF Quiet
  <2>4. OnceFired'  BY <2>1, <2>3 DEF OnceFired
  <2> QED  BY <2>2, <2>4 DEF OnceThere
<1>17. Concerns(t, k)
  <2>1. Acts(t, k)  BY <1>4, <1>5, <1>7 DEF Acts
  <2>2. \A j \in Tasks \ {k} : Spared(j)  BY <1>1, <1>8, <1>9, <1>11 DEF Spared
  <2>3. \A d \in Tasks : done[d] # "no" => done'[d] # "no"  BY <1>9
  <2> QED  BY <1>1, <1>8, <2>1, <2>2, <2>3 DEF Concerns
<1>18. ~Out(k)'  BY <1>12, <1>13 DEF Out
<1>19. CountedAlike(k)  BY <1>1, <1>5, <1>18 DEF CountedAlike
<1> QED  BY <1>4, <1>8, <1>10, <1>14, <1>15, <1>16, <1>17, <1>19, Preserved

LEMMA PublishDoneStep ==
  ASSUME TypeOK, PoolInv, NEW t \in Threads, PublishDone(t)
  PROVE  TypeOK' /\ PoolInv'
<1>1. /\ At(t, "report") /\ Top(t).at = "report" /\ ~At(t, "drop_handle")
      /\ UNCHANGED <<program, queue, tokens, inflight, draining, stop, up>>
      /\ UNCHANGED <<cont, handle, fate, runs>> /\ holder' = None
  BY DEF PublishDone, pool, At
<1>2. Finished(t)  BY <1>1 DEF PoolInv, CallRight, FinishLabels
<1>3. PICK w, k : w = Top(t).who /\ k = Top(t).next  OBVIOUS
<1>4. w \in Tasks /\ TaskRight(w) /\ runs[w] = 1 /\ In(w, "stack")  BY <1>2, <1>3, Completing
<1>5. k \in Tasks \union {None} /\ Nxt(t) = k  BY <1>1, <1>2, <1>3, TopType DEF Nxt
<1>6. /\ done' \in [Tasks -> {"no", "ran", "dropped"}]
      /\ \A j \in Tasks \ {w} : done'[j] = done[j]
      /\ done'[w] = IF handle[w] # "none" THEN "ran" ELSE done[w]
  <2>1. done \in [Tasks -> {"no", "ran", "dropped"}]  BY DEF TypeOK
  <2>2. done' = [j \in Tasks |-> IF j = w /\ handle[j] # "none" THEN "ran" ELSE done[j]]
    BY <1>3 DEF PublishDone
  <2> QED  BY <1>4, <2>1, <2>2
<1>7. /\ \A d \in Tasks : done[d] # "no" => done'[d] # "no"
      /\ \A j \in Tasks : done[j] = "dropped" => done'[j] = "dropped" \/ runs[j] = 1
  BY <1>4, <1>6
<1>8. PICK a : a = IF k = None THEN "release" ELSE "push"  OBVIOUS
<1>9. GoesTo(t, a)
  <2>1. a \in SubmitLabels /\ Top(t).at \in FinishLabels  BY <1>1, <1>8 DEF SubmitLabels, FinishLabels
  <2>2. Goto(t, a)  BY <1>3, <1>8 DEF PublishDone
  <2> QED  BY <1>1, <2>1, <2>2, SubmitLabelsApart DEF GoesTo
<1>10. /\ stack' \in [Threads -> Seq(Frames)] /\ \A u \in Threads : stack'[u] # << >>
       /\ Top(t).at' = a /\ Finished(t)'
       /\ StacksRight' /\ DrainersRight'
       /\ \A u \in Threads \ {t} : Quiet(u)
       /\ \A j : OnStack(j)' <=> OnStack(j)
       /\ \A v \in Users \union Tasks : \A i \in Nat : Ahead(v, i)' => Ahead(v, i)
  BY <1>2, <1>9, WentTo
<1>11. TypeOK'  BY <1>1, <1>6, <1>10 DEF TypeOK
<1>12. CASE k # None
  <2>1. k \in Tasks  BY <1>5, <1>12
  <2>2. ASSUME NEW d \in Tasks, Chained(d, k)  PROVE done'[d] # "no"
    <3>1. TaskRight(k)  BY <2>1 DEF PoolInv
    <3>2. FollowsDep(d, k)  BY <2>2, <3>1 DEF TaskRight, Follows
    <3>3. w = d  BY <1>1, <1>3, <1>5, <3>2 DEF FollowsDep
    <3>4. ~Detached(w)  BY <2>2, <3>3, ChainedAttached
    <3>5. "stack" \in Places  BY DEF Places
    <3>6. handle[w] # "none"  BY <1>4, <3>4, <3>5 DEF TaskRight, HandleKept
    <3> QED  BY <1>6, <3>3, <3>6
  <2>3. a \in {"push", "drop", "drop_handle"} /\ a # "drop_handle"  BY <1>8, <1>12
  <2>4. inflight' = IF a = "drop_handle" THEN inflight - 1 ELSE inflight  BY <1>1, <2>3
  <2> QED  BY <1>1, <1>5, <1>7, <1>9, <1>11, <2>1, <2>2, <2>3, <2>4, FiringGoesOn
<1>13. CASE k = None
  <2>1. a = "release"  BY <1>8, <1>13
  <2>2. /\ Sub(t) = None /\ Nxt(t) = None /\ Entered(t) = None /\ Leaving(t) = None
    BY <1>1, <1>2, <1>5, <1>13 DEF Sub, Entered, Leaving, At
  <2>3. /\ Sub(t)' = None /\ Nxt(t)' = None /\ Entered(t)' = None /\ Leaving(t)' = None
        /\ CallRight(t)'
    BY <1>10, <2>1 DEF Sub, Nxt, Entered, Leaving, At, CallRight, SubmitLabels, FinishLabels
  <2>4. \A j : Queues(j)' <=> Queues(j)  BY <1>1 DEF Queues
  <2>5. Concerns(t, None)
    <3>1. Acts(t, None)  BY <2>2, <2>3 DEF Acts
    <3>2. \A j \in Tasks : Spared(j)  BY <1>1, <1>7, <1>10, <2>4 DEF Spared
    <3> QED  BY <1>1, <1>7, <1>10, <3>1, <3>2 DEF Concerns
  <2>6. OnceThere'
    <3>1. OnceQueued /\ OnceRegistered /\ OnceFired  BY DEF PoolInv, OnceThere
    <3>2. OnceQueued' /\ OnceRegistered'  BY <1>1, <3>1 DEF OnceQueued, OnceRegistered
    <3>3. \A u \in Threads : Nxt(u)' = Nxt(u)  BY <1>10, <2>2, <2>3 DEF Quiet
    <3> QED  BY <3>1, <3>2, <3>3 DEF OnceFired, OnceThere
  <2>7. None \notin Tasks  BY ThreadPoolAssumption
  <2>8. CountedAlike(None)  BY <1>1, <2>7 DEF CountedAlike
  <2> QED  BY <1>10, <1>11, <2>3, <2>5, <2>6, <2>7, <2>8, Preserved
<1> QED  BY <1>12, <1>13

LEMMA TakeStep ==
  ASSUME TypeOK, PoolInv, NEW t \in Threads, TakeContinuation(t)
  PROVE  TypeOK' /\ PoolInv'
<1>1. /\ Top(t).at = "call" /\ Finished(t) /\ holder' = t
      /\ UNCHANGED <<program, queue, tokens, inflight, draining, stop, up>>
      /\ UNCHANGED <<done, handle, fate, runs>>
  BY DEF TakeContinuation, pool, At
<1>2. PICK w, k : w = Top(t).who /\ k = cont[w]  OBVIOUS
<1>3. w \in Tasks /\ runs[w] = 1  BY <1>1, <1>2, Completing
<1>4. cont \in [Tasks -> Tasks \union {None}] /\ k \in Tasks \union {None}
  BY <1>2, <1>3 DEF TypeOK
<1>5. cont' = [cont EXCEPT ![w] = None]  BY <1>2 DEF TakeContinuation
<1>6. /\ cont' \in [Tasks -> Tasks \union {None}] /\ cont'[w] = None
      /\ \A d \in Tasks \ {w} : cont'[d] = cont[d]
  BY <1>3, <1>4, <1>5
<1>7. PICK g : g = [Top(t) EXCEPT !.next = k, !.at = "report"]  OBVIOUS
<1>8. g \in Frames /\ g.at = "report" /\ g.who = w /\ g.ip = Top(t).ip /\ g.next = k
  <2>1. PICK a \in Labels : a = "report"  BY DEF Labels
  <2>2. g = [Top(t) EXCEPT !.next = k, !.at = a]  BY <1>7, <2>1
  <2>3. Top(t) \in Frames  BY TopType
  <2>4. g \in Frames /\ g.at = a /\ g.who = Top(t).who /\ g.ip = Top(t).ip /\ g.next = k
    BY <1>4, <2>2, <2>3 DEF Frames
  <2> QED  BY <1>2, <2>1, <2>4
<1>9. SetTop(t, g)  BY <1>2, <1>7 DEF TakeContinuation
<1>10. "report" \notin WorkerLabels \union DrainLabels /\ "report" # "call"
  BY SubmitLabelsApart DEF FinishLabels
<1>11. Moves(t, g)  BY <1>1, <1>2, <1>8, <1>9, <1>10, LabelsApart DEF Moves
<1>12. /\ stack' \in [Threads -> Seq(Frames)] /\ \A u \in Threads : stack'[u] # << >>
       /\ Top(t)' = g /\ StacksRight'
       /\ \A u \in Threads \ {t} : Quiet(u)
       /\ \A j : OnStack(j)' <=> OnStack(j)
       /\ \A v \in Users \union Tasks : \A i \in Nat : Ahead(v, i)' => Ahead(v, i)
  BY <1>1, <1>8, <1>11, MovedFrames, Moved
<1>13. DrainersRight'
  BY <1>1, <1>8, <1>10, <1>11, LabelsApart, MovedDrainers DEF PoolInv
<1>14. Finished(t)'  BY <1>1, <1>2, <1>8, <1>12, SameCall
<1>15. TypeOK'  BY <1>1, <1>6, <1>12 DEF TypeOK
<1>16. Top(t).at' = "report" /\ Top(t).who' = w /\ Top(t).next' = k  BY <1>8, <1>12
<1>17. /\ Sub(t)' = None /\ Nxt(t)' = k /\ Entered(t)' = None /\ Leaving(t)' = None
       /\ CallRight(t)' /\ At(t, "report")'
  BY <1>14, <1>16 DEF Sub, Nxt, Entered, Leaving, At, CallRight, SubmitLabels, FinishLabels
<1>18. Sub(t) = None /\ Nxt(t) = None /\ Entered(t) = None /\ Leaving(t) = None
  BY <1>1, LabelsApart, Neutral DEF Leaving
<1>19. \A j : Queues(j)' <=> Queues(j)  BY <1>1 DEF Queues
<1>20. OnceQueued /\ OnceRegistered /\ OnceFired  BY DEF PoolInv, OnceThere
<1>21. ASSUME k \in Tasks
       PROVE  /\ k # None /\ TaskRight(k) /\ ~Nowhere(k) /\ runs[k] = 0 /\ In(k, "cont")
              /\ ~Queues(k) /\ ~OnStack(k)
              /\ \A u \in Threads : Sub(u) # k /\ Nxt(u) # k
              /\ \A d \in Tasks : cont'[d] # k
  <2>1. k # None  BY <1>21, ThreadPoolAssumption
  <2>2. TaskRight(k) /\ In(k, "cont")  BY <1>2, <1>3, <1>21, PlaceNames DEF PoolInv
  <2>3. ~In(k, "queue") /\ ~In(k, "next") /\ ~In(k, "submit") /\ ~In(k, "stack") /\ runs[k] = 0
        /\ ~Nowhere(k)
    BY <2>2 DEF TaskRight, OnePlace, RunsRight, Places, Nowhere
  <2>4. ~Queues(k) /\ ~OnStack(k) /\ \A u \in Threads : Sub(u) # k /\ Nxt(u) # k
    BY <2>3, PlaceNames
  <2>5. \A d \in Tasks : cont'[d] # k  BY <1>2, <1>3, <1>6, <1>20, <2>1 DEF OnceRegistered
  <2> QED  BY <2>1, <2>2, <2>3, <2>4, <2>5
<1>22. \A u \in Threads \ {t} : k \in Tasks => Sub(u)' # k /\ Nxt(u)' # k
  BY <1>12, <1>21 DEF Quiet
<1>23. ASSUME k \in Tasks  PROVE TaskRight(k)'
  <2>1. \A x \in Places : In(k, x)' => x = "next"
    <3>1. ~Queues(k)' /\ ~OnStack(k)' /\ \A u \in Threads : Sub(u)' # k
      BY <1>12, <1>17, <1>19, <1>21, <1>22, <1>23
    <3> QED  BY <1>21, <1>23, <3>1 DEF In
  <2>2. NotLost(k)'
    <3>1. In(k, "next")'  BY <1>17 DEF In
    <3> QED  BY <3>1 DEF NotLost
  <2>3. Follows(k)'
    <3>1. ASSUME NEW d \in Tasks, Chained(d, k)'  PROVE FollowsDep(d, k)'
      <4>1. Chained(d, k)  BY <1>1, <3>1, SamePrograms
      <4>2. FollowsDep(d, k)  BY <1>21, <1>23, <4>1 DEF TaskRight, Follows
      <4>3. w = d  BY <1>2, <1>3, <4>2 DEF FollowsDep
      <4>4. \A u \in Threads : Sub(u)' # k /\ (Nxt(u)' = k => u = t)
        BY <1>17, <1>21, <1>22, <1>23
      <4>5. ~Queues(k)' /\ runs'[k] = 0 /\ \A c \in Tasks : cont'[c] # k
        BY <1>1, <1>19, <1>21, <1>23
      <4> QED  BY <1>16, <1>17, <4>3, <4>4, <4>5 DEF FollowsDep
    <3> QED  BY <3>1 DEF Follows
  <2>4. "next" \in Places /\ "cont" \in Places /\ runs'[k] = 0  BY <1>1, <1>21, <1>23 DEF Places
  <2> QED  BY <1>1, <1>12, <1>21, <1>23, <2>1, <2>2, <2>3, <2>4, TaskTo
<1>24. OnceThere'
  <2>1. OnceQueued'  BY <1>1, <1>20 DEF OnceQueued
  <2>2. OnceRegistered'  BY <1>6, <1>20 DEF OnceRegistered
  <2>3. OnceFired'
    <3>1. ASSUME NEW u \in Threads, NEW v \in Threads, Nxt(u)' = Nxt(v)', Nxt(u)' # None
          PROVE  u = v
      <4>1. CASE u # t /\ v # t
        <5>1. Nxt(u)' = Nxt(u) /\ Nxt(v)' = Nxt(v)  BY <1>12, <4>1 DEF Quiet
        <5> QED  BY <1>20, <3>1, <5>1 DEF OnceFired
      <4>2. CASE u = t \/ v = t
        <5>1. k \in Tasks /\ Nxt(u)' = k /\ Nxt(v)' = k  BY <1>4, <1>17, <3>1, <4>2
        <5> QED  BY <1>22, <4>2, <5>1
      <4> QED  BY <4>1, <4>2
    <3> QED  BY <3>1 DEF OnceFired
  <2> QED  BY <2>1, <2>2, <2>3 DEF OnceThere
<1>25. Concerns(t, k)
  <2>1. Acts(t, k)  BY <1>17, <1>18 DEF Acts
  <2>2. ASSUME NEW j \in Tasks \ {k}, NEW d \in Tasks  PROVE cont'[d] = j <=> cont[d] = j
    <3>1. None \notin Tasks  BY ThreadPoolAssumption
    <3> QED  BY <1>2, <1>6, <3>1
  <2>3. \A j \in Tasks \ {k} : Spared(j)  BY <1>1, <1>12, <1>19, <2>2 DEF Spared
  <2> QED  BY <1>1, <1>12, <2>1, <2>3 DEF Concerns
<1>26. k \in Tasks => Out(k) /\ Out(k)'
  <2>1. Out(k)  BY <1>2, <1>3 DEF Out
  <2>2. ~At(t, "drop_handle")'  BY <1>16 DEF At
  <2>3. Out(k)'  BY <1>17, <2>2 DEF Out
  <2> QED  BY <2>1, <2>3
<1>27. CountedAlike(k)  BY <1>1, <1>26 DEF CountedAlike
<1> QED  BY <1>12, <1>13, <1>15, <1>17, <1>23, <1>24, <1>25, <1>27, Preserved

-----------------------------------------------------------------------------
(* A thread pops a task, and runs it on top of what it is doing. *)

\* The local number of a step is a queue's, but for the reading of _inflight.
LevelsRight ==
  \A t \in Threads : \A i \in DOMAIN stack[t] :
    stack[t][i].at # "count_drainers" => stack[t][i].n \in Levels

LEMMA Stacked ==
  ASSUME NEW s \in Seq(Frames), s # << >>, NEW f \in Frames, NEW g \in Frames
  PROVE  LET r == <<f, g>> \o Tail(s) IN
         /\ r \in Seq(Frames) /\ r # << >> /\ Len(s) \in Nat /\ Len(r) = Len(s) + 1
         /\ Head(r) = f /\ r[1] = f /\ r[2] = g /\ 1 \in DOMAIN r /\ 2 \in DOMAIN r
         /\ \A i \in DOMAIN r : /\ i \in Nat \ {0}
                                /\ i = 1 \/ (i - 1 \in DOMAIN s /\ (i = 2 \/ r[i] = s[i - 1]))
         /\ \A i \in DOMAIN s : i \in Nat \ {0} /\ i + 1 \in DOMAIN r /\ (i = 1 \/ r[i + 1] = s[i])
<1>1. PICK q : q = Tail(s)  OBVIOUS
<1>2. q \in Seq(Frames) /\ Len(s) \in Nat \ {0} /\ Len(q) = Len(s) - 1
  BY <1>1
<1>3. \A i \in 1 .. Len(s) - 1 : q[i] = s[i + 1]  BY <1>1, <1>2
<1>4. PICK r : r = <<f, g>> \o q  OBVIOUS
<1>5. /\ r \in Seq(Frames) /\ Len(r) = 2 + Len(q) /\ r[1] = f /\ r[2] = g
      /\ \A i \in 1 .. Len(q) : r[2 + i] = q[i]
  BY <1>2, <1>4
<1>6. Len(r) = Len(s) + 1 /\ DOMAIN r = 1 .. Len(s) + 1 /\ DOMAIN s = 1 .. Len(s) /\ Len(r) > 0
  BY <1>2, <1>5
<1>7. r # << >> /\ Head(r) = f /\ 1 \in DOMAIN r /\ 2 \in DOMAIN r
  <2>1. \A x \in Seq(Frames) : Len(x) > 0 => x # << >> /\ Head(x) = x[1]  OBVIOUS
  <2>2. 1 \in DOMAIN r /\ 2 \in DOMAIN r  BY <1>2, <1>6
  <2> QED  BY <1>5, <1>6, <2>1, <2>2
<1>8. \A i \in 2 .. Len(s) : r[i + 1] = s[i]
  <2>1. ASSUME NEW i \in 2 .. Len(s)  PROVE r[i + 1] = s[i]
    <3>1. i - 1 \in 1 .. Len(s) - 1 /\ i - 1 + 1 = i /\ 2 + (i - 1) = i + 1  BY <1>2
    <3>2. q[i - 1] = s[i]  BY <1>3, <3>1
    <3>3. r[2 + (i - 1)] = q[i - 1]  BY <1>2, <1>5, <3>1
    <3> QED  BY <3>1, <3>2, <3>3
  <2> QED  BY <2>1
<1>9. ASSUME NEW i \in DOMAIN r
      PROVE  i \in Nat \ {0} /\ (i = 1 \/ (i - 1 \in DOMAIN s /\ (i = 2 \/ r[i] = s[i - 1])))
  <2>1. i \in Nat \ {0} /\ i <= Len(s) + 1  BY <1>2, <1>6
  <2>2. i = 1 \/ i - 1 \in DOMAIN s  BY <1>2, <1>6, <2>1
  <2>3. i = 1 \/ i = 2 \/ (i - 1 \in 2 .. Len(s) /\ i - 1 + 1 = i)  BY <1>2, <2>1
  <2> QED  BY <1>8, <2>1, <2>2, <2>3
<1>10. ASSUME NEW i \in DOMAIN s
       PROVE  i \in Nat \ {0} /\ i + 1 \in DOMAIN r /\ (i = 1 \/ r[i + 1] = s[i])
  <2>1. i \in Nat \ {0} /\ i + 1 \in DOMAIN r /\ (i = 1 \/ i \in 2 .. Len(s))  BY <1>2, <1>6
  <2> QED  BY <1>8, <2>1
<1> QED  BY <1>1, <1>2, <1>4, <1>5, <1>6, <1>7, <1>9, <1>10

\* A frame for task k on the stack of t, above the frame that popped it.
Pushes(t, k, after) ==
  stack' = [stack EXCEPT ![t] =
              <<Frame(k, "call"), [Top(t) EXCEPT !.at = after, !.n = 1]>> \o Tail(@)]

LEMMA PushedFrames ==
  ASSUME TypeOK, NEW t \in Threads, NEW k \in Tasks, NEW after \in Labels, Pushes(t, k, after)
  PROVE  /\ stack' \in [Threads -> Seq(Frames)] /\ \A u \in Threads : stack'[u] # << >>
         /\ \A u \in Threads \ {t} : stack'[u] = stack[u]
         /\ Top(t)' = Frame(k, "call") /\ stack'[t][1] = Frame(k, "call")
         /\ 1 \in DOMAIN stack'[t] /\ 2 \in DOMAIN stack'[t]
         /\ Len(stack[t]) \in Nat \ {0} /\ Len(stack'[t]) = Len(stack[t]) + 1
         /\ stack'[t][2].who = Top(t).who /\ stack'[t][2].ip = Top(t).ip
         /\ stack'[t][2].at = after /\ stack'[t][2].n = 1
         /\ \A i \in DOMAIN stack'[t] :
              /\ i \in Nat \ {0}
              /\ i = 1 \/ (i - 1 \in DOMAIN stack[t] /\ (i = 2 \/ stack'[t][i] = stack[t][i - 1]))
         /\ \A i \in DOMAIN stack[t] :
              i \in Nat \ {0} /\ i + 1 \in DOMAIN stack'[t]
              /\ (i = 1 \/ stack'[t][i + 1] = stack[t][i])
<1>1. PICK s, f, g : /\ s = stack[t] /\ f = Frame(k, "call")
                     /\ g = [Top(t) EXCEPT !.at = after, !.n = 1]
  OBVIOUS
<1>2. stack \in [Threads -> Seq(Frames)] /\ s \in Seq(Frames) /\ s # << >>  BY <1>1 DEF TypeOK
<1>3. f \in Frames
  <2>1. PICK a, n, ip, owed : a = "call" /\ a \in Labels /\ n = 1 /\ ip = 1 /\ owed = {}  BY DEF Labels
  <2>2. f = [who |-> k, ip |-> ip, at |-> a, n |-> n, next |-> None, owed |-> owed]
    BY <1>1, <2>1 DEF Frame
  <2>3. n \in Int /\ ip \in Nat /\ owed \in SUBSET Tasks /\ a \in Labels  BY <2>1
  <2> QED  BY <2>2, <2>3 DEF Frames
<1>4. g \in Frames /\ g.who = Top(t).who /\ g.ip = Top(t).ip /\ g.at = after /\ g.n = 1
  <2>1. PICK n : n = 1 /\ n \in Int  OBVIOUS
  <2>2. g = [Top(t) EXCEPT !.at = after, !.n = n]  BY <1>1, <2>1
  <2>3. Top(t) \in Frames  BY TopType
  <2>4. g \in Frames /\ g.who = Top(t).who /\ g.ip = Top(t).ip /\ g.at = after /\ g.n = n
    BY <2>1, <2>2, <2>3 DEF Frames
  <2> QED  BY <2>1, <2>4
<1>5. PICK r : r = <<f, g>> \o Tail(s)  OBVIOUS
<1>6. /\ r \in Seq(Frames) /\ r # << >> /\ Len(s) \in Nat /\ Len(r) = Len(s) + 1
      /\ Head(r) = f /\ r[1] = f /\ r[2] = g /\ 1 \in DOMAIN r /\ 2 \in DOMAIN r
      /\ \A i \in DOMAIN r : /\ i \in Nat \ {0}
                             /\ i = 1 \/ (i - 1 \in DOMAIN s /\ (i = 2 \/ r[i] = s[i - 1]))
      /\ \A i \in DOMAIN s : i \in Nat \ {0} /\ i + 1 \in DOMAIN r /\ (i = 1 \/ r[i + 1] = s[i])
  BY <1>2, <1>3, <1>4, <1>5, Stacked
<1>7. stack' = [stack EXCEPT ![t] = r]  BY <1>1, <1>5 DEF Pushes
<1>8. /\ stack' \in [Threads -> Seq(Frames)] /\ stack'[t] = r
      /\ \A u \in Threads \ {t} : stack'[u] = stack[u]
  BY <1>2, <1>6, <1>7
<1>9. \A u \in Threads : stack'[u] # << >>  BY <1>6, <1>8 DEF TypeOK
<1>10. Top(t)' = f  BY <1>6, <1>8 DEF Top
<1>11. Len(s) \in Nat \ {0}  BY <1>1, TopType
<1> QED  BY <1>1, <1>4, <1>6, <1>8, <1>9, <1>10, <1>11

\* The frames that were there are below the new one.
LEMMA PushedBack ==
  ASSUME TypeOK, NEW t \in Threads, NEW k \in Tasks, NEW after \in Labels, Pushes(t, k, after),
         NEW u \in Threads, NEW i \in DOMAIN stack'[u], ~(u = t /\ i = 1)
  PROVE  LET j == IF u = t THEN i - 1 ELSE i IN
         /\ j \in DOMAIN stack[u]
         /\ stack'[u][i].who = stack[u][j].who /\ stack'[u][i].ip = stack[u][j].ip
         /\ IF u = t /\ i = 2 THEN j = 1 /\ stack'[u][i].at = after /\ stack[u][j] = Top(t)
                              ELSE stack'[u][i] = stack[u][j]
<1>1. CASE u # t  BY <1>1, PushedFrames
<1>2. CASE u = t /\ i = 2
  <2>1. 2 - 1 = 1 /\ 1 \in DOMAIN stack[t] /\ Top(t) = stack[t][1]  BY TopType
  <2> QED  BY <1>2, <2>1, PushedFrames
<1>3. CASE u = t /\ i # 2
  <2>1. i - 1 \in DOMAIN stack[t] /\ stack'[t][i] = stack[t][i - 1]  BY <1>3, PushedFrames
  <2> QED  BY <1>3, <2>1
<1> QED  BY <1>1, <1>2, <1>3

LEMMA PushedUp ==
  ASSUME TypeOK, NEW t \in Threads, NEW k \in Tasks, NEW after \in Labels, Pushes(t, k, after),
         NEW u \in Threads, NEW j \in DOMAIN stack[u]
  PROVE  LET i == IF u = t THEN j + 1 ELSE j IN
         /\ i \in DOMAIN stack'[u] /\ stack'[u][i].who = stack[u][j].who
         /\ IF u = t /\ j = 1 THEN stack'[u][i].at = after /\ stack[u][j] = Top(t)
                              ELSE stack'[u][i] = stack[u][j]
<1>1. CASE u # t  BY <1>1, PushedFrames
<1>2. CASE u = t /\ j = 1
  <2>1. 1 + 1 = 2 /\ Top(t) = stack[t][1]  BY TopType
  <2> QED  BY <1>2, <2>1, PushedFrames
<1>3. CASE u = t /\ j # 1
  <2>1. j + 1 \in DOMAIN stack'[t] /\ stack'[t][j + 1] = stack[t][j]  BY <1>3, PushedFrames
  <2> QED  BY <1>3, <2>1
<1> QED  BY <1>1, <1>2, <1>3

LEMMA NewFrame ==
  ASSUME NEW k
  PROVE  LET f == Frame(k, "call") IN
         f.who = k /\ f.at = "call" /\ f.n = 1 /\ f.ip = 1
BY DEF Frame

LEMMA PushedOnStack ==
  ASSUME TypeOK, NEW t \in Threads, NEW k \in Tasks, NEW after \in Labels, Pushes(t, k, after)
  PROVE  \A j : OnStack(j)' <=> OnStack(j) \/ j = k
<1>1. OnStack(k)'
  <2>1. 1 \in DOMAIN stack'[t] /\ stack'[t][1].who = k  BY PushedFrames, NewFrame
  <2> QED  BY <2>1 DEF OnStack
<1>2. ASSUME NEW j, OnStack(j)', j # k  PROVE OnStack(j)
  <2>1. PICK u \in Threads : \E i \in DOMAIN stack'[u] : stack'[u][i].who = j
    BY <1>2 DEF OnStack
  <2>2. PICK i \in DOMAIN stack'[u] : stack'[u][i].who = j  BY <2>1
  <2>3. ~(u = t /\ i = 1)  BY <1>2, <2>2, PushedFrames, NewFrame
  <2> QED  BY <2>2, <2>3, PushedBack DEF OnStack
<1>3. ASSUME NEW j, OnStack(j)  PROVE OnStack(j)'
  <2>1. PICK u \in Threads : \E i \in DOMAIN stack[u] : stack[u][i].who = j
    BY <1>3 DEF OnStack
  <2>2. PICK i \in DOMAIN stack[u] : stack[u][i].who = j  BY <2>1
  <2> QED  BY <2>2, PushedUp DEF OnStack
<1> QED  BY <1>1, <1>2, <1>3

\* A worker that has found a task pops it, in its loop or in drain().
PopsAt(t, after) == (At(t, "pop") /\ after = "top") \/ (At(t, "help") /\ after = "help")

LEMMA PopLabels ==
  ASSUME NEW t, NEW after, PopsAt(t, after)
  PROVE  /\ after \in {"top", "help"} /\ after \in Labels /\ after # "call"
         /\ after \in WorkerLabels <=> Top(t).at \in WorkerLabels
         /\ after \in DrainLabels <=> Top(t).at \in DrainLabels
         /\ after \in WorkerLabels \union DrainLabels /\ Top(t).at \in NeutralLabels
BY DEF PopsAt, At, Labels, WorkerLabels, DrainLabels, NeutralLabels, SubmitLabels, FinishLabels

LEMMA PushedStacks ==
  ASSUME TypeOK, PoolInv, NEW t \in Threads, NEW k \in Tasks, NEW after, PopsAt(t, after),
         Pushes(t, k, after), ~OnStack(k)
  PROVE  StacksRight'
<1>0. StacksRight /\ after \in Labels  BY PopLabels DEF PoolInv
<1>1. /\ t \in Workers
      /\ after \in WorkerLabels <=> Len(stack[t]) = 1
      /\ after \in DrainLabels => Len(stack[t]) > 1
      /\ Len(stack[t]) = 1 \/ Len(stack[t]) > 1
      /\ Len(stack[t]) = 1 => Top(t).who = t
      /\ Len(stack[t]) > 1 => Top(t).who \in Tasks
  BY <1>0, PopLabels, TopPlace
<1>2. ASSUME NEW u \in Threads, NEW i \in DOMAIN stack'[u]  PROVE FrameRight(u, i)'
  <2>1. CASE u # t
    <3>1. stack'[u] = stack[u] /\ i \in DOMAIN stack[u]  BY <1>0, <2>1, PushedFrames
    <3>2. FrameRight(u, i)  BY <1>0, <3>1 DEF StacksRight
    <3> QED  BY <3>1, <3>2 DEF FrameRight
  <2>2. CASE u = t /\ i = 1
    <3>1. PICK f : f = stack'[t][1]  OBVIOUS
    <3>2. f.who = k /\ f.at = "call"  BY <1>0, <3>1, PushedFrames, NewFrame
    <3>3. Len(stack'[t]) = Len(stack[t]) + 1 /\ Len(stack[t]) \in Nat \ {0}  BY <1>0, PushedFrames
    <3>4. 1 # Len(stack'[t]) /\ ~(1 > 1)  BY <3>3
    <3>5. "call" \notin WorkerLabels \union DrainLabels  BY LabelsApart
    <3> QED  BY <1>1, <2>2, <3>1, <3>2, <3>4, <3>5 DEF FrameRight
  <2>3. CASE u = t /\ i = 2
    <3>1. PICK f, m : f = stack'[t][2] /\ m = Len(stack[t])  OBVIOUS
    <3>2. f.who = Top(t).who /\ f.at = after  BY <1>0, <3>1, PushedFrames
    <3>3. Len(stack'[t]) = m + 1 /\ m \in Nat \ {0}  BY <1>0, <3>1, PushedFrames
    <3>4. (2 = m + 1 <=> m = 1) /\ (2 < m + 1 <=> m > 1) /\ 2 > 1  BY <3>3
    <3>5. after \in {"top", "help"}  BY PopLabels
    <3>6. after \in WorkerLabels <=> m = 1  BY <1>1, <3>1
    <3>7. (m = 1 => Top(t).who = t) /\ (m > 1 => Top(t).who \in Tasks)  BY <1>1, <3>1
    <3>8. after \in DrainLabels => m > 1  BY <1>1, <3>1
    <3>9. ~(m = 1 /\ m > 1)  OBVIOUS
    <3>10. FrameRight(t, 2)' <=>
            /\ 2 = m + 1 => f.who = t /\ (t \in Workers => f.at \in WorkerLabels)
            /\ 2 < m + 1 => f.who \in Tasks /\ t \in Workers /\ f.at \notin WorkerLabels
            /\ 2 > 1 => f.at \in {"top", "help"}
            /\ f.at \in WorkerLabels => t \in Workers
            /\ f.at \in DrainLabels => 2 < m + 1
      BY <3>1, <3>3 DEF FrameRight
    <3>11. FrameRight(t, 2)'
      BY <1>1, <3>2, <3>4, <3>5, <3>6, <3>7, <3>8, <3>9, <3>10
    <3> QED  BY <2>3, <3>11
  <2>4. CASE u = t /\ i # 1 /\ i # 2
    <3>1. PICK j : j = i - 1  OBVIOUS
    <3>2. j \in DOMAIN stack[t] /\ stack'[t][i] = stack[t][j] /\ i \in Nat \ {0}
      BY <1>0, <2>4, <3>1, PushedFrames
    <3>3. FrameRight(t, j)  BY <1>0, <3>2 DEF StacksRight
    <3>4. Len(stack'[t]) = Len(stack[t]) + 1 /\ Len(stack[t]) \in Nat \ {0}  BY <1>0, PushedFrames
    <3>5. /\ i = Len(stack'[t]) <=> j = Len(stack[t])
          /\ i < Len(stack'[t]) <=> j < Len(stack[t])
          /\ j > 1
      BY <2>4, <3>1, <3>2, <3>4
    <3>6. FrameRight(t, i)'  BY <3>2, <3>3, <3>5 DEF FrameRight
    <3> QED  BY <2>4, <3>6
  <2> QED  BY <2>1, <2>2, <2>3, <2>4
<1>3. ASSUME NEW u \in Threads, NEW v \in Threads, NEW i \in DOMAIN stack'[u],
             NEW j \in DOMAIN stack'[v], stack'[u][i].who = stack'[v][j].who
      PROVE  u = v /\ i = j
  <2> DEFINE from(x, n) == IF x = t THEN n - 1 ELSE n
  <2>1. stack'[t][1].who = k  BY <1>0, PushedFrames, NewFrame
  <2>2. ASSUME NEW x \in Threads, NEW n \in DOMAIN stack'[x], ~(x = t /\ n = 1)
        PROVE  /\ from(x, n) \in DOMAIN stack[x] /\ stack'[x][n].who = stack[x][from(x, n)].who
               /\ stack'[x][n].who # k
    <3>1. from(x, n) \in DOMAIN stack[x] /\ stack'[x][n].who = stack[x][from(x, n)].who
      BY <1>0, <2>2, PushedBack
    <3> QED  BY <3>1 DEF OnStack
  <2>3. CASE (u = t /\ i = 1) \/ (v = t /\ j = 1)  BY <1>3, <2>1, <2>2, <2>3
  <2>4. CASE ~(u = t /\ i = 1) /\ ~(v = t /\ j = 1)
    <3>1. u = v /\ from(u, i) = from(v, j)  BY <1>0, <1>3, <2>2, <2>4 DEF StacksRight
    <3>2. u = t => i \in Nat /\ j \in Nat  BY <1>0, <3>1, PushedFrames
    <3> QED  BY <3>1, <3>2
  <2> QED  BY <2>3, <2>4
<1> QED  BY <1>2, <1>3 DEF StacksRight

LEMMA PushedDrainers ==
  ASSUME TypeOK, PoolInv, NEW t \in Threads, NEW k \in Tasks, NEW after, PopsAt(t, after),
         Pushes(t, k, after), draining' = draining
  PROVE  DrainersRight'
<1>0. DrainersRight /\ after \in Labels  BY PopLabels DEF PoolInv
<1>1. \A w : w \in DrainingTasks' <=>
        \E u \in Threads : \E i \in DOMAIN stack'[u] :
           stack'[u][i].who = w /\ stack'[u][i].at \in DrainLabels
  BY DEF DrainingTasks
<1>2. ASSUME NEW w, NEW u \in Threads, NEW i \in DOMAIN stack'[u],
             stack'[u][i].who = w, stack'[u][i].at \in DrainLabels
      PROVE  w \in DrainingTasks
  <2>1. ~(u = t /\ i = 1)
    <3>1. stack'[t][1].at = "call"  BY <1>0, PushedFrames, NewFrame
    <3> QED  BY <1>2, <3>1, LabelsApart
  <2>2. PICK j : j = IF u = t THEN i - 1 ELSE i  OBVIOUS
  <2>3. j \in DOMAIN stack[u] /\ stack[u][j].who = w /\ stack[u][j].at \in DrainLabels
    BY <1>0, <1>2, <2>1, <2>2, PushedBack, PopLabels
  <2> QED  BY <2>3, DrainMember
<1>3. ASSUME NEW w, NEW u \in Threads, NEW j \in DOMAIN stack[u],
             stack[u][j].who = w, stack[u][j].at \in DrainLabels
      PROVE  w \in DrainingTasks'
  <2>1. PICK i : i = IF u = t THEN j + 1 ELSE j  OBVIOUS
  <2>2. i \in DOMAIN stack'[u] /\ stack'[u][i].who = w /\ stack'[u][i].at \in DrainLabels
    BY <1>0, <1>3, <2>1, PushedUp, PopLabels
  <2> QED  BY <1>1, <2>2
<1>4. \A w : w \in DrainingTasks' <=> w \in DrainingTasks  BY <1>1, <1>2, <1>3, DrainMember
<1>5. DrainingTasks' = DrainingTasks  BY <1>4
<1> QED  BY <1>0, <1>5 DEF DrainersRight

LEMMA PushedAhead ==
  ASSUME TypeOK, NEW t \in Threads, NEW k \in Tasks, NEW after, PopsAt(t, after),
         Pushes(t, k, after), ~OnStack(k), runs[k] = 0,
         \A j \in Tasks \ {k} : runs'[j] = runs[j],
         NEW w, NEW n \in Nat, Ahead(w, n)'
  PROVE  Ahead(w, n)
<1>0. after \in Labels /\ after # "call"  BY PopLabels
<1>1. CASE w = k  BY <1>1 DEF Ahead
<1>2. CASE w \in Tasks /\ w # k /\ ~OnStack(w)' /\ runs'[w] = 0
  BY <1>0, <1>2, PushedOnStack DEF Ahead
<1>3. ASSUME w # k, NEW u \in Threads, NEW i \in DOMAIN stack'[u], stack'[u][i].who = w,
             stack'[u][i].ip < n \/ (stack'[u][i].ip = n /\ stack'[u][i].at = "call")
      PROVE  Ahead(w, n)
  <2>1. ~(u = t /\ i = 1)  BY <1>0, <1>3, PushedFrames, NewFrame
  <2>2. PICK j : j = IF u = t THEN i - 1 ELSE i  OBVIOUS
  <2>3. /\ j \in DOMAIN stack[u] /\ stack[u][j].who = w
        /\ stack[u][j].ip < n \/ (stack[u][j].ip = n /\ stack[u][j].at = "call")
    BY <1>0, <1>3, <2>1, <2>2, PushedBack
  <2> QED  BY <2>3 DEF Ahead
<1> QED  BY <1>1, <1>2, <1>3 DEF Ahead

LEMMA TaskPopped ==
  ASSUME TypeOK, PoolInv, NEW t \in Threads, NEW after, PopsAt(t, after),
         NEW l \in Levels, queue[l] # << >>, queue' = [queue EXCEPT ![l] = Tail(@)],
         NEW k, k = Head(queue[l]).item, runs' = [runs EXCEPT ![k] = @ + 1], Pushes(t, k, after),
         UNCHANGED <<program, tokens, inflight, draining, stop, up>>,
         UNCHANGED <<holder, cont, done, handle, fate>>
  PROVE  TypeOK' /\ PoolInv'
<1>0. OnceQueued /\ OnceRegistered /\ OnceFired  BY DEF PoolInv, OnceThere
<1>1. /\ queue' \in [Levels -> Seq([item : Tasks, ready : BOOLEAN])]
      /\ k \in Tasks /\ Queues(k)
      /\ \A j : Queues(j)' <=> Queues(j) /\ j # k
      /\ OnceQueued'
  BY <1>0, QueuePopped
<1>2. after \in Labels  BY PopLabels
<1>3. k # None /\ TaskRight(k) /\ In(k, "queue")
  BY <1>1, PlaceNames, ThreadPoolAssumption DEF PoolInv
<1>4. /\ runs[k] = 0 /\ ~Nowhere(k) /\ ~In(k, "submit") /\ ~In(k, "cont")
      /\ ~In(k, "next") /\ ~In(k, "stack")
  BY <1>3 DEF TaskRight, OnePlace, RunsRight, Places, Nowhere
<1>5. /\ ~OnStack(k) /\ \A d \in Tasks : cont[d] # k
      /\ \A u \in Threads : Sub(u) # k /\ Nxt(u) # k
  BY <1>4, PlaceNames
<1>6. /\ runs' \in [Tasks -> Nat] /\ runs'[k] = 1 /\ \A j \in Tasks \ {k} : runs'[j] = runs[j]
  BY <1>1, <1>4 DEF TypeOK
<1>7. /\ stack' \in [Threads -> Seq(Frames)] /\ \A u \in Threads : stack'[u] # << >>
      /\ \A u \in Threads \ {t} : stack'[u] = stack[u]
      /\ Top(t)' = Frame(k, "call")
  BY <1>1, <1>2, PushedFrames
<1>8. TypeOK'  BY <1>1, <1>6, <1>7 DEF TypeOK
<1>9. StacksRight' /\ DrainersRight'  BY <1>1, <1>5, PushedStacks, PushedDrainers
<1>10. \A j : OnStack(j)' <=> OnStack(j) \/ j = k  BY <1>1, <1>2, PushedOnStack
<1>11. \A w \in Users \union Tasks : \A i \in Nat : Ahead(w, i)' => Ahead(w, i)
  BY <1>1, <1>4, <1>5, <1>6, PushedAhead
<1>12. ASSUME NEW u \in Threads \ {t}  PROVE Quiet(u)
  <2>1. stack'[u] = stack[u]  BY <1>7
  <2>2. /\ Top(u)' = Top(u) /\ Finished(u)' = Finished(u)
        /\ Sub(u)' = Sub(u) /\ Nxt(u)' = Nxt(u) /\ Entered(u)' = Entered(u)
        /\ CallRight(u) => CallRight(u)'
    BY <2>1, OtherThread
  <2>3. Leaving(u)' = Leaving(u)  BY <2>2 DEF Leaving, At
  <2> QED  BY <2>2, <2>3 DEF Quiet, At
<1>13. /\ Sub(t) = None /\ Nxt(t) = None /\ Entered(t) = None /\ CallRight(t)
       /\ Leaving(t) = None /\ Top(t).at # "drop_handle"
  BY PopLabels, Neutral DEF Leaving, NeutralLabels, FinishLabels
<1>14. Top(t).at' = "call"  BY <1>7, NewFrame
<1>15. /\ Sub(t)' = None /\ Nxt(t)' = None /\ Entered(t)' = None /\ Leaving(t)' = None
       /\ CallRight(t)' /\ ~At(t, "push")' /\ ~At(t, "report")'
  BY <1>14 DEF Sub, Nxt, Entered, Leaving, At, CallRight, SubmitLabels, FinishLabels
<1>16. \A u \in Threads : Sub(u)' = Sub(u) /\ Nxt(u)' = Nxt(u) /\ Leaving(u)' = Leaving(u)
  BY <1>12, <1>13, <1>15 DEF Quiet
<1>17. \A u \in Threads : Sub(u)' # k /\ Nxt(u)' # k  BY <1>5, <1>16
<1>18. TaskRight(k)'
  <2>1. \A x \in Places : In(k, x)' => x = "stack"
    <3>1. ~Queues(k)' /\ \A d \in Tasks : cont'[d] # k  BY <1>1, <1>5
    <3> QED  BY <1>17, <3>1 DEF In
  <2>2. NotLost(k)'  BY <1>6 DEF NotLost
  <2>3. Follows(k)'
    <3>1. ASSUME NEW d \in Tasks, Chained(d, k)'  PROVE FollowsDep(d, k)'
      <4>1. Chained(d, k)  BY <3>1, SamePrograms
      <4>2. FollowsDep(d, k)  BY <1>3, <4>1 DEF TaskRight, Follows
      <4>3. done'[d] # "no"  BY <1>1, <4>2 DEF FollowsDep
      <4> QED  BY <1>5, <1>17, <4>3 DEF FollowsDep
    <3> QED  BY <3>1 DEF Follows
  <2>4. "stack" \in Places /\ "queue" \in Places  BY DEF Places
  <2> QED  BY <1>1, <1>3, <1>4, <1>6, <1>11, <2>1, <2>2, <2>3, <2>4, TaskTo
<1>19. OnceThere'
  <2>1. OnceRegistered'  BY <1>0 DEF OnceRegistered
  <2>2. OnceFired'  BY <1>0, <1>16 DEF OnceFired
  <2> QED  BY <1>1, <2>1, <2>2 DEF OnceThere
<1>20. Concerns(t, k)
  <2>1. Acts(t, k)  BY <1>13, <1>15 DEF Acts
  <2>2. \A j \in Tasks \ {k} : Spared(j)  BY <1>1, <1>6, <1>10 DEF Spared
  <2> QED  BY <1>11, <1>12, <2>1, <2>2 DEF Concerns
<1>21. Out(k) /\ Out(k)'
  <2>1. Out(k)  BY <1>1 DEF Out
  <2>2. Counted(k)'
    <3>1. \A u \in Threads : (Leaving(u) = k)' => OnStack(k)
      <4>1. ASSUME NEW u \in Threads, Leaving(u) = k  PROVE OnStack(k)
        <5>1. Top(u).who = k /\ Top(u) = stack[u][1] /\ 1 \in DOMAIN stack[u]
          BY <1>3, <4>1, TopType DEF Leaving
        <5> QED  BY <5>1 DEF OnStack
      <4> QED  BY <1>16, <4>1
    <3>2. ~\E u \in Threads : (Leaving(u) = k)'  BY <1>5, <3>1
    <3> QED  BY <1>3, <3>2 DEF Counted, Leaving
  <2>3. Out(k)'  BY <1>10, <2>2 DEF Out
  <2> QED  BY <2>1, <2>3
<1>22. CountedAlike(k)  BY <1>21 DEF CountedAlike
<1> QED  BY <1>8, <1>9, <1>15, <1>18, <1>19, <1>20, <1>22, Preserved

\* A worker, in its loop or in drain(), tries the next queue.
LEMMA PopStep ==
  ASSUME TypeOK, PoolInv, LevelsRight, NEW t \in Threads, WorkerPop(t) \/ Help(t)
  PROVE  TypeOK' /\ PoolInv'
<1>1. PICK after, empty : /\ Pop(t, after, empty) /\ PopsAt(t, after)
                          /\ \/ At(t, "pop") /\ empty = "forward"
                             \/ At(t, "help") /\ empty = "count_tasks"
                          /\ UNCHANGED <<program, pool, holder, handles>>
  BY DEF WorkerPop, Help, PopsAt
<1>2. UNCHANGED <<program, tokens, inflight, draining, stop, up>>
  BY <1>1 DEF pool
<1>3. UNCHANGED <<holder, cont, done, handle, fate>>
  BY <1>1 DEF handles
<1>4. PICK l : l = Top(t).n  OBVIOUS
<1>5. l \in Levels
  <2>1. Top(t) = stack[t][1] /\ 1 \in DOMAIN stack[t]  BY TopType
  <2>2. Top(t).at # "count_drainers"  BY <1>1 DEF At
  <2> QED  BY <1>4, <2>1, <2>2 DEF LevelsRight
<1>6. CASE Poppable(l)
  <2>1. PICK k : k = Head(queue[l]).item  OBVIOUS
  <2>2. queue' = [queue EXCEPT ![l] = Tail(@)] /\ runs' = [runs EXCEPT ![k] = @ + 1]
    BY <1>1, <1>4, <1>6, <2>1 DEF Pop
  <2>3. Pushes(t, k, after)  BY <1>1, <1>4, <1>6, <2>1 DEF Pop, Pushes
  <2>4. queue[l] # << >>  BY <1>6 DEF Poppable
  <2> QED  BY <1>1, <1>2, <1>3, <1>5, <2>1, <2>2, <2>3, <2>4, TaskPopped
<1>7. CASE ~Poppable(l)
  <2>1. EmptyPop(t, empty) /\ UNCHANGED <<queue, runs>>
    BY <1>1, <1>4, <1>7 DEF Pop, EmptyPop
  <2> QED  BY <1>1, <2>1, PlainPop
<1> QED  BY <1>6, <1>7

-----------------------------------------------------------------------------
(* The numbers of the steps stay queues. *)

LevelRight(f) == f.at # "count_drainers" => f.n \in Levels

\* A thread that stays as it is, or is woken.
LevelsOf(u) == \A i \in DOMAIN stack[u] : LevelRight(stack[u][i])

LEMMA LevelsByThread ==
  LevelsRight <=> \A u \in Threads : LevelsOf(u)
BY DEF LevelsRight, LevelsOf, LevelRight

LEMMA LevelsAfter ==
  LevelsRight' <=> \A u \in Threads : LevelsOf(u)'
BY DEF LevelsRight, LevelsOf, LevelRight

LEMMA TopLevel ==
  ASSUME TypeOK, LevelsRight, NEW t \in Threads
  PROVE  LevelRight(Top(t)) /\ Top(t) \in Frames
BY TopType DEF LevelsRight, LevelRight

LEMMA LevelsTop ==
  ASSUME TypeOK, LevelsRight, NEW t \in Threads, NEW g \in Frames, LevelRight(g),
         stack'[t] = <<g>> \o Tail(stack[t])
  PROVE  LevelsOf(t)'
<1>1. PICK s : s = stack[t]  OBVIOUS
<1>2. s \in Seq(Frames) /\ s # << >>  BY <1>1 DEF TypeOK
<1>3. PICK r : r = <<g>> \o Tail(s)  OBVIOUS
<1>4. /\ r \in Seq(Frames) /\ Len(r) = Len(s) /\ r[1] = g
      /\ \A i \in 2 .. Len(s) : r[i] = s[i]
  BY <1>2, <1>3, NewTop
<1>5. DOMAIN r = 1 .. Len(s) /\ DOMAIN s = 1 .. Len(s) /\ Len(s) \in Nat \ {0}
  BY <1>2, <1>4
<1>6. \A i \in DOMAIN s : i = 1 \/ i \in 2 .. Len(s)  BY <1>5
<1>7. \A i \in DOMAIN s : LevelRight(s[i])  BY <1>1 DEF LevelsRight, LevelRight
<1>8. \A i \in DOMAIN r : LevelRight(r[i])  BY <1>4, <1>5, <1>6, <1>7
<1>9. stack'[t] = r  BY <1>1, <1>3
<1>10. LevelsOf(t)' <=> \A i \in DOMAIN stack'[t] : LevelRight(stack'[t][i])
  BY DEF LevelsOf, LevelRight
<1> QED  BY <1>8, <1>9, <1>10

LEMMA LevelsTail ==
  ASSUME TypeOK, LevelsRight, NEW t \in Threads, stack'[t] = Tail(stack[t])
  PROVE  LevelsOf(t)'
<1>1. PICK s, r : s = stack[t] /\ r = Tail(s)  OBVIOUS
<1>2. s \in Seq(Frames) /\ s # << >>  BY <1>1 DEF TypeOK
<1>3. \A i \in DOMAIN r : i + 1 \in DOMAIN s /\ r[i] = s[i + 1]  BY <1>1, <1>2
<1>4. \A i \in DOMAIN s : LevelRight(s[i])  BY <1>1 DEF LevelsRight, LevelRight
<1>5. \A i \in DOMAIN r : LevelRight(r[i])  BY <1>3, <1>4
<1>6. stack'[t] = r  BY <1>1
<1>7. LevelsOf(t)' <=> \A i \in DOMAIN stack'[t] : LevelRight(stack'[t][i])
  BY DEF LevelsOf, LevelRight
<1> QED  BY <1>5, <1>6, <1>7

LEMMA LevelsSame ==
  ASSUME LevelsRight, NEW u \in Threads, stack'[u] = stack[u]
  PROVE  LevelsOf(u)'
<1>1. LevelsOf(u)  BY LevelsByThread
<1>2. LevelsOf(u)' <=> \A i \in DOMAIN stack'[u] : LevelRight(stack'[u][i])
  BY DEF LevelsOf, LevelRight
<1> QED  BY <1>1, <1>2 DEF LevelsOf

LEMMA LevelsSet ==
  ASSUME TypeOK, LevelsRight, NEW t \in Threads, NEW g \in Frames, LevelRight(g), SetTop(t, g)
  PROVE  LevelsRight'
<1>1. PICK s : s = <<g>> \o Tail(stack[t])  OBVIOUS
<1>2. DOMAIN stack = Threads /\ stack' = [stack EXCEPT ![t] = s]  BY <1>1 DEF SetTop, TypeOK
<1>3. stack'[t] = <<g>> \o Tail(stack[t]) /\ \A u \in Threads \ {t} : stack'[u] = stack[u]
  BY <1>1, <1>2
<1>4. LevelsOf(t)'  BY <1>3, LevelsTop
<1>5. \A u \in Threads \ {t} : LevelsOf(u)'  BY <1>3, LevelsSame
<1> QED  BY <1>4, <1>5, LevelsAfter

LEMMA LevelsGoto ==
  ASSUME TypeOK, LevelsRight, NEW t \in Threads, NEW a \in Labels \ {"count_drainers"},
         Top(t).at # "count_drainers", Goto(t, a)
  PROVE  LevelsRight'
<1>1. Top(t) \in Frames /\ Top(t).n \in Levels  BY TopLevel DEF LevelRight
<1>2. PICK g : g = [Top(t) EXCEPT !.at = a]  OBVIOUS
<1>3. g \in Frames /\ g.n = Top(t).n  BY <1>1, <1>2, Relabelled
<1>4. SetTop(t, g)  BY <1>2 DEF Goto
<1> QED  BY <1>1, <1>3, <1>4, LevelsSet DEF LevelRight

LEMMA LevelsNext ==
  ASSUME TypeOK, LevelsRight, NEW t \in Threads, SetTop(t, NextCall(Top(t)))
  PROVE  LevelsRight'
<1>1. PICK g : g = NextCall(Top(t))  OBVIOUS
<1>2. Top(t) \in Frames  BY TopLevel
<1>3. g \in Frames /\ g.n = 1  BY <1>1, <1>2, NextCallFrame
<1>4. LevelRight(g)  BY <1>3 DEF LevelRight, Levels
<1> QED  BY <1>1, <1>3, <1>4, LevelsSet

\* Thread t leaves its call or its task, and the others are woken or not.
LEMMA LevelsLeft ==
  ASSUME TypeOK, LevelsRight, NEW t \in Threads, stack'[t] = Leave(t)[t],
         \A u \in Threads \ {t} : Roused(u)
  PROVE  LevelsRight'
<1>0. DOMAIN stack = Threads  BY DEF TypeOK
<1>1. LevelsOf(t)'
  <2>1. CASE Finished(t)
    <3>1. stack'[t] = Tail(stack[t])  BY <1>0, <2>1 DEF Leave
    <3> QED  BY <3>1, LevelsTail
  <2>2. CASE ~Finished(t)
    <3>1. PICK g : g = NextCall(Top(t))  OBVIOUS
    <3>2. g \in Frames /\ g.n = 1  BY <3>1, TopLevel, NextCallFrame
    <3>3. LevelRight(g)  BY <3>2 DEF LevelRight, Levels
    <3>4. stack'[t] = <<g>> \o Tail(stack[t])  BY <1>0, <2>2, <3>1 DEF Leave
    <3> QED  BY <3>2, <3>3, <3>4, LevelsTop
  <2> QED  BY <2>1, <2>2
<1>2. ASSUME NEW u \in Threads \ {t}  PROVE LevelsOf(u)'
  <2>1. CASE stack'[u] = stack[u]  BY <2>1, LevelsSame
  <2>2. CASE /\ At(u, "asleep")
             /\ stack'[u] = <<[Top(u) EXCEPT !.at = "lock"]>> \o Tail(stack[u])
    <3>1. PICK a : a = "lock"  OBVIOUS
    <3>2. a \in Labels /\ a # "count_drainers"  BY <3>1 DEF Labels
    <3>3. PICK g : g = [Top(u) EXCEPT !.at = a]  OBVIOUS
    <3>4. Top(u) \in Frames /\ Top(u).n \in Levels  BY <2>2, TopLevel DEF LevelRight, At
    <3>5. g \in Frames /\ g.n = Top(u).n  BY <3>2, <3>3, <3>4, Relabelled
    <3>6. stack'[u] = <<g>> \o Tail(stack[u])  BY <2>2, <3>1, <3>3
    <3> QED  BY <3>4, <3>5, <3>6, LevelsTop DEF LevelRight
  <2> QED  BY <2>1, <2>2 DEF Roused
<1> QED  BY <1>1, <1>2, LevelsAfter

LEMMA LevelsPushed ==
  ASSUME TypeOK, LevelsRight, NEW t \in Threads, NEW k \in Tasks, NEW after \in Labels,
         Pushes(t, k, after)
  PROVE  LevelsRight'
<1>1. ASSUME NEW u \in Threads \ {t}  PROVE LevelsOf(u)'
  <2>1. stack'[u] = stack[u]  BY PushedFrames
  <2> QED  BY <2>1, LevelsSame
<1>2. ASSUME NEW i \in DOMAIN stack'[t]  PROVE LevelRight(stack'[t][i])
  <2>1. /\ stack'[t][1] = Frame(k, "call") /\ stack'[t][2].n = 1
        /\ i = 1 \/ (i - 1 \in DOMAIN stack[t] /\ (i = 2 \/ stack'[t][i] = stack[t][i - 1]))
    BY PushedFrames
  <2>2. Frame(k, "call").n = 1  BY NewFrame
  <2>3. CASE i = 1 \/ i = 2
    <3>1. stack'[t][i].n = 1  BY <2>1, <2>2, <2>3
    <3> QED  BY <3>1 DEF LevelRight, Levels
  <2>4. CASE i # 1 /\ i # 2
    <3>1. i - 1 \in DOMAIN stack[t] /\ stack'[t][i] = stack[t][i - 1]  BY <2>1, <2>4
    <3> QED  BY <3>1 DEF LevelsRight, LevelRight
  <2> QED  BY <2>3, <2>4
<1>3. LevelsOf(t)'  BY <1>2 DEF LevelsOf, LevelRight
<1> QED  BY <1>1, <1>3, LevelsAfter

\* The steps that only change the label, or that end the call.
GoesOn(t) ==
  \/ Top(t).at # "count_drainers" /\ \E a \in Labels \ {"count_drainers"} : Goto(t, a)
  \/ SetTop(t, NextCall(Top(t)))

LEMMA LevelsGoOn ==
  ASSUME TypeOK, LevelsRight, NEW t \in Threads, GoesOn(t)
  PROVE  LevelsRight'
BY LevelsGoto, LevelsNext DEF GoesOn

LEMMA CallsGoOn ==
  ASSUME TypeOK, NEW t \in Threads,
         \/ StartSubmit(t) \/ Reserve(t) \/ Register(t) \/ Push(t) \/ Publish(t) \/ Token(t)
         \/ Wait(t)
  PROVE  GoesOn(t)
<1>1. {"call", "reserve", "register", "push", "publish", "token", "drop", "release"}
        \subseteq Labels \ {"count_drainers"}
  BY DEF Labels
<1>2. CASE StartSubmit(t)  BY <1>1, <1>2 DEF StartSubmit, InCall, At, GoesOn
<1>3. CASE Reserve(t)  BY <1>1, <1>3 DEF Reserve, At, GoesOn
<1>4. CASE Register(t)  BY <1>1, <1>4 DEF Register, At, GoesOn
<1>5. CASE Push(t)  BY <1>1, <1>5 DEF Push, At, GoesOn
<1>6. CASE Publish(t)  BY <1>1, <1>6 DEF Publish, At, GoesOn
<1>7. CASE Token(t)  BY <1>1, <1>7 DEF Token, At, GoesOn
<1>8. CASE Wait(t)  BY <1>8 DEF Wait, GoesOn
<1> QED  BY <1>2, <1>3, <1>4, <1>5, <1>6, <1>7, <1>8

LEMMA DrainsGoOn ==
  ASSUME TypeOK, NEW t \in Threads,
         \/ Lock(t) \/ ReadInflight(t) \/ Sleep(t) \/ SpuriousWake(t) \/ LeaveDrain(t)
         \/ RequestStop(t) \/ ReleaseAll(t) \/ Join(t)
  PROVE  GoesOn(t)
<1>1. {"lock", "read", "sleep", "asleep", "stop", "release_all", "join"}
        \subseteq Labels \ {"count_drainers"}
  BY DEF Labels
<1>2. CASE Lock(t)  BY <1>1, <1>2 DEF Lock, At, GoesOn
<1>3. CASE ReadInflight(t)  BY <1>1, <1>3 DEF ReadInflight, At, GoesOn
<1>4. CASE Sleep(t)  BY <1>1, <1>4 DEF Sleep, At, GoesOn
<1>5. CASE SpuriousWake(t)  BY <1>1, <1>5 DEF SpuriousWake, At, GoesOn
<1>6. CASE LeaveDrain(t)  BY <1>6 DEF LeaveDrain, GoesOn
<1>7. CASE RequestStop(t)  BY <1>1, <1>7 DEF RequestStop, At, GoesOn
<1>8. CASE ReleaseAll(t)  BY <1>1, <1>8 DEF ReleaseAll, At, GoesOn
<1>9. CASE Join(t)  BY <1>9 DEF Join, GoesOn
<1> QED  BY <1>2, <1>3, <1>4, <1>5, <1>6, <1>7, <1>8, <1>9

LEMMA WorkersGoOn ==
  ASSUME TypeOK, NEW t \in Threads,
         \/ WorkerTop(t) \/ Acquire(t) \/ Check(t) \/ Forward(t)
         \/ PublishDone(t) \/ Drop(t) \/ DropHandle(t)
  PROVE  GoesOn(t)
<1>1. {"top", "gone", "acquire", "check", "pop", "forward", "report", "release", "push",
       "drop", "drop_handle"} \subseteq Labels \ {"count_drainers"}
  BY DEF Labels
<1>2. CASE WorkerTop(t)  BY <1>1, <1>2 DEF WorkerTop, At, GoesOn
<1>3. CASE Acquire(t)  BY <1>1, <1>3 DEF Acquire, At, GoesOn
<1>4. CASE Check(t)  BY <1>1, <1>4 DEF Check, At, GoesOn
<1>5. CASE Forward(t)  BY <1>1, <1>5 DEF Forward, At, GoesOn
<1>6. CASE PublishDone(t)  BY <1>1, <1>6 DEF PublishDone, At, GoesOn
<1>7. CASE Drop(t)  BY <1>1, <1>7 DEF Drop, At, GoesOn
<1>8. CASE DropHandle(t)  BY <1>1, <1>8 DEF DropHandle, At, GoesOn
<1> QED  BY <1>2, <1>3, <1>4, <1>5, <1>6, <1>7, <1>8

\* The steps that release, and may leave.
LEMMA LevelsRelease ==
  ASSUME TypeOK, LevelsRight, NEW t \in Threads, Release(t) \/ Wake(t)
  PROVE  LevelsRight'
<1>0. DOMAIN stack = Threads  BY DEF TypeOK
<1>1. CASE Release(t) /\ inflight' = 0
  <2>1. At(t, "release") /\ Goto(t, "wake")  BY <1>1 DEF Release
  <2>2. "wake" \in Labels \ {"count_drainers"}  BY DEF Labels
  <2>3. GoesOn(t)  BY <2>1, <2>2 DEF GoesOn, At
  <2> QED  BY <2>3, LevelsGoOn
<1>2. CASE Release(t) /\ inflight' # 0
  <2>1. stack' = Leave(t)  BY <1>2 DEF Release
  <2>2. \A u \in Threads \ {t} : stack'[u] = stack[u]  BY <1>0, <2>1 DEF Leave
  <2> QED  BY <2>1, <2>2, LevelsLeft DEF Roused
<1>3. CASE Wake(t)
  <2>1. stack'[t] = Leave(t)[t] /\ \A u \in Threads \ {t} : Roused(u)
    BY <1>3 DEF Wake, Roused
  <2> QED  BY <2>1, LevelsLeft
<1> QED  BY <1>1, <1>2, <1>3

\* The steps that set a history, a continuation or a number.
LEMMA LevelsMade ==
  ASSUME TypeOK, LevelsRight, NEW t \in Threads,
         \/ StartDrain(t) \/ JoinDrain(t) \/ TakeContinuation(t)
         \/ CountTasks(t) \/ CountDrainers(t)
  PROVE  LevelsRight'
<1>0. Top(t) \in Frames /\ LevelRight(Top(t)) /\ Top(t).who \in Threads \union Tasks
  BY TopLevel, TopType
<1>1. {"lock", "help", "report", "count_drainers", "leave_drain"} \subseteq Labels  BY DEF Labels
<1>2. ASSUME NEW g, NEW a \in Labels \ {"count_drainers"}, NEW owed \in SUBSET Tasks,
             Top(t).at = "call", g = [Top(t) EXCEPT !.at = a, !.owed = owed], SetTop(t, g)
      PROVE  LevelsRight'
  <2>1. g \in Frames /\ g.n = Top(t).n  BY <1>0, <1>2 DEF Frames
  <2>2. LevelRight(g)  BY <1>0, <1>2, <2>1 DEF LevelRight
  <2> QED  BY <1>2, <2>1, <2>2, LevelsSet
<1>3. CASE StartDrain(t)
  <2>1. PICK g, a, owed : /\ a = "lock" /\ owed = Accepted
                          /\ g = [Top(t) EXCEPT !.at = a, !.owed = owed]
    OBVIOUS
  <2>2. SetTop(t, g)  BY <1>3, <2>1 DEF StartDrain
  <2>3. Top(t).at = "call" /\ a \in Labels \ {"count_drainers"} /\ owed \in SUBSET Tasks
    BY <1>1, <1>3, <2>1 DEF StartDrain, InCall, At, Accepted
  <2> QED  BY <1>2, <2>1, <2>2, <2>3
<1>4. CASE JoinDrain(t)
  <2>1. PICK g, a, owed : /\ a = "help" /\ owed = Accepted
                          /\ g = [Top(t) EXCEPT !.at = a, !.owed = owed]
    OBVIOUS
  <2>2. SetTop(t, g)  BY <1>4, <2>1 DEF JoinDrain
  <2>3. Top(t).at = "call" /\ a \in Labels \ {"count_drainers"} /\ owed \in SUBSET Tasks
    BY <1>1, <1>4, <2>1 DEF JoinDrain, InCall, At, Accepted
  <2> QED  BY <1>2, <2>1, <2>2, <2>3
<1>5. CASE TakeContinuation(t)
  <2>1. PICK g, a, k : a = "report" /\ k = cont[Top(t).who] /\ g = [Top(t) EXCEPT !.next = k, !.at = a]
    OBVIOUS
  <2>2. SetTop(t, g)  BY <1>5, <2>1 DEF TakeContinuation
  <2>3. Top(t).at = "call" /\ Top(t).who \in Tasks  BY <1>5 DEF TakeContinuation, At, Finished
  <2>4. k \in Tasks \union {None} /\ a \in Labels /\ a # "count_drainers"
    BY <1>1, <2>1, <2>3 DEF TypeOK
  <2>5. g \in Frames /\ g.n = Top(t).n  BY <1>0, <2>1, <2>4 DEF Frames
  <2>6. LevelRight(g)  BY <1>0, <2>3, <2>5 DEF LevelRight
  <2> QED  BY <2>2, <2>5, <2>6, LevelsSet
<1>6. CASE CountTasks(t)
  <2>1. PICK g, a, n : /\ a = "count_drainers" /\ n = inflight
                       /\ g = [Top(t) EXCEPT !.n = n, !.at = a]
    OBVIOUS
  <2>2. SetTop(t, g)  BY <1>6, <2>1 DEF CountTasks
  <2>3. n \in Int /\ a \in Labels  BY <1>1, <2>1 DEF TypeOK
  <2>4. g \in Frames /\ g.at = a  BY <1>0, <2>1, <2>3 DEF Frames
  <2>5. LevelRight(g)  BY <2>1, <2>4 DEF LevelRight
  <2> QED  BY <2>2, <2>4, <2>5, LevelsSet
<1>7. CASE CountDrainers(t)
  <2>1. PICK g, a, n : /\ a = (IF Top(t).n <= draining THEN "leave_drain" ELSE "help") /\ n = 1
                       /\ g = [Top(t) EXCEPT !.n = n, !.at = a]
    OBVIOUS
  <2>2. SetTop(t, g)  BY <1>7, <2>1 DEF CountDrainers
  <2>3. n \in Int /\ a \in Labels  BY <1>1, <2>1
  <2>4. g \in Frames /\ g.n = 1  BY <1>0, <2>1, <2>3 DEF Frames
  <2>5. LevelRight(g)  BY <2>4 DEF LevelRight, Levels
  <2> QED  BY <2>2, <2>4, <2>5, LevelsSet
<1> QED  BY <1>3, <1>4, <1>5, <1>6, <1>7

LEMMA LevelsPop ==
  ASSUME TypeOK, LevelsRight, NEW t \in Threads, WorkerPop(t) \/ Help(t)
  PROVE  LevelsRight'
<1>0. Top(t) \in Frames /\ LevelRight(Top(t))  BY TopLevel
<1>1. PICK after, empty : /\ Pop(t, after, empty) /\ PopsAt(t, after)
                          /\ \/ At(t, "pop") /\ empty = "forward"
                             \/ At(t, "help") /\ empty = "count_tasks"
  BY DEF WorkerPop, Help, PopsAt
<1>2. Top(t).at \in {"pop", "help"} /\ after \in Labels  BY <1>1, PopLabels DEF At
<1>3. PICK l : l = Top(t).n  OBVIOUS
<1>4. l \in Levels  BY <1>0, <1>2, <1>3 DEF LevelRight
<1>5. CASE Poppable(l)
  <2>1. PICK k : k = Head(queue[l]).item  OBVIOUS
  <2>2. Pushes(t, k, after)  BY <1>1, <1>3, <1>5, <2>1 DEF Pop, Pushes
  <2>3. PICK s : s = queue[l]  OBVIOUS
  <2>4. s \in Seq(Items) /\ s # << >>  BY <1>4, <1>5, <2>3 DEF TypeOK, Poppable, Items
  <2>5. Head(s) \in Items  BY <2>4
  <2>6. k \in Tasks  BY <2>1, <2>3, <2>5 DEF Items
  <2> QED  BY <1>2, <2>2, <2>6, LevelsPushed
<1>6. CASE ~Poppable(l)
  <2>1. PICK g : g = IF l < 3 THEN [Top(t) EXCEPT !.n = @ + 1]
                              ELSE [Top(t) EXCEPT !.at = empty, !.n = 1]
    OBVIOUS
  <2>2. SetTop(t, g)  BY <1>1, <1>3, <1>6, <2>1 DEF Pop
  <2>3. g \in Frames /\ g.n \in Levels
    <3>1. CASE l < 3
      <4>1. PICK m : m = l + 1  OBVIOUS
      <4>2. m \in Levels /\ m \in Int  BY <1>4, <3>1, <4>1 DEF Levels
      <4>3. g = [Top(t) EXCEPT !.n = m]  BY <1>3, <2>1, <3>1, <4>1
      <4>4. g \in Frames /\ g.n = m  BY <1>0, <4>2, <4>3 DEF Frames
      <4> QED  BY <4>2, <4>4
    <3>2. CASE ~(l < 3)
      <4>1. empty \in Labels  BY <1>1 DEF Labels
      <4>2. PICK m : m = 1  OBVIOUS
      <4>3. m \in Levels /\ m \in Int  BY <4>2 DEF Levels
      <4>4. g = [Top(t) EXCEPT !.at = empty, !.n = m]  BY <2>1, <3>2, <4>2
      <4>5. g \in Frames /\ g.n = m  BY <1>0, <4>1, <4>3, <4>4 DEF Frames
      <4> QED  BY <4>3, <4>5
    <3> QED  BY <3>1, <3>2
  <2>4. LevelRight(g)  BY <2>3 DEF LevelRight
  <2> QED  BY <2>2, <2>3, <2>4, LevelsSet
<1> QED  BY <1>5, <1>6

-----------------------------------------------------------------------------
(***************************************************************************)
(* The invariant of the pool.                                              *)
(***************************************************************************)
PoolInvariant == TypeOK /\ PoolInv /\ LevelsRight

LEMMA InitTypeOK ==
  ASSUME Init
  PROVE  /\ TypeOK
         /\ \A t \in Threads : /\ DOMAIN stack[t] = {1} /\ Len(stack[t]) = 1
                               /\ stack[t][1] = Top(t) /\ Top(t).who = t /\ Top(t).n = 1
                               /\ Top(t).at = (IF t \in Workers THEN "top" ELSE "call")
<1>1. PICK ip, n, owed, top, call : ip = 1 /\ n = 1 /\ owed = {} /\ top = "top" /\ call = "call"
  OBVIOUS
<1>2. ip \in Nat /\ n \in Int /\ owed \in SUBSET Tasks /\ top \in Labels /\ call \in Labels
  BY <1>1 DEF Labels
<1>3. ASSUME NEW t \in Threads
      PROVE  LET a == IF t \in Workers THEN top ELSE call
                 f == Frame(t, a) IN
             /\ f \in Frames /\ f.who = t /\ f.at = a /\ f.n = 1
  <2>1. PICK a : a = IF t \in Workers THEN top ELSE call  OBVIOUS
  <2>2. PICK f : f = Frame(t, a)  OBVIOUS
  <2>3. f = [who |-> t, ip |-> ip, at |-> a, n |-> n, next |-> None, owed |-> owed]
    BY <1>1, <2>2 DEF Frame
  <2>4. f \in Frames /\ f.who = t /\ f.at = a /\ f.n = n  BY <1>2, <2>1, <2>3 DEF Frames
  <2> QED  BY <1>1, <2>1, <2>2, <2>4
<1>4. ASSUME NEW f \in Frames
      PROVE  LET s == <<f>> IN
             s \in Seq(Frames) /\ s # << >> /\ Len(s) = 1 /\ DOMAIN s = {1} /\ s[1] = f /\ Head(s) = f
  OBVIOUS
<1>5. \A t \in Threads : stack[t] = <<Frame(t, IF t \in Workers THEN top ELSE call)>>
  BY <1>1 DEF Init
<1>6. ASSUME NEW t \in Threads
      PROVE  /\ stack[t] \in Seq(Frames) /\ stack[t] # << >>
             /\ DOMAIN stack[t] = {1} /\ Len(stack[t]) = 1
             /\ stack[t][1] = Top(t) /\ Top(t).who = t /\ Top(t).n = 1
             /\ Top(t).at = (IF t \in Workers THEN "top" ELSE "call")
  <2>1. PICK a : a = IF t \in Workers THEN top ELSE call  OBVIOUS
  <2>2. PICK f : f = Frame(t, a)  OBVIOUS
  <2>3. f \in Frames /\ f.who = t /\ f.at = a /\ f.n = 1  BY <1>3, <2>1, <2>2
  <2>4. stack[t] = <<f>>  BY <1>5, <2>1, <2>2
  <2> QED  BY <1>1, <1>4, <2>1, <2>3, <2>4 DEF Top
<1>7. stack \in [Threads -> Seq(Frames)]
  <2>1. stack = [t \in Threads |-> stack[t]]  BY DEF Init
  <2> QED  BY <1>6, <2>1
<1>8. queue \in [Levels -> Seq([item : Tasks, ready : BOOLEAN])]
  <2>1. << >> \in Seq([item : Tasks, ready : BOOLEAN])  OBVIOUS
  <2> QED  BY <2>1 DEF Init
<1>9. /\ cont \in [Tasks -> Tasks \union {None}]
      /\ done \in [Tasks -> {"no", "ran", "dropped"}]
      /\ handle \in [Tasks -> {"none", "live", "deleted"}]
      /\ fate \in [Tasks -> {"new", "accepted", "refused"}]
      /\ runs \in [Tasks -> Nat]
  BY DEF Init
<1>10. TypeOK
  <2>1. program \in Programs /\ tokens \in Nat /\ inflight \in Nat /\ draining \in Nat
    BY DEF Init
  <2>2. stop \in BOOLEAN /\ up \in BOOLEAN /\ holder \in Threads \union {None}
    BY DEF Init
  <2> QED  BY <1>6, <1>7, <1>8, <1>9, <2>1, <2>2 DEF TypeOK
<1> QED  BY <1>6, <1>10

LEMMA InitPool ==
  ASSUME Init
  PROVE  PoolInvariant
<1>1. /\ TypeOK
      /\ \A t \in Threads : /\ DOMAIN stack[t] = {1} /\ Len(stack[t]) = 1
                            /\ stack[t][1] = Top(t) /\ Top(t).who = t /\ Top(t).n = 1
                            /\ Top(t).at = (IF t \in Workers THEN "top" ELSE "call")
  BY InitTypeOK
<1>2. Threads \intersect Tasks = {} /\ None \notin Tasks  BY ThreadPoolAssumption
<1>3. /\ "top" \in NeutralLabels /\ "call" \in NeutralLabels
      /\ "top" \in WorkerLabels /\ "call" \notin WorkerLabels
      /\ "top" \notin DrainLabels /\ "call" \notin DrainLabels
  BY LabelsApart DEF WorkerLabels, DrainLabels
<1>4. ASSUME NEW t \in Threads
      PROVE  /\ Sub(t) = None /\ Nxt(t) = None /\ Entered(t) = None /\ CallRight(t)
             /\ Leaving(t) = None
  BY <1>1, <1>3, Neutral DEF Leaving
<1>5. \A k : ~Queues(k)  BY DEF Init, Queues
<1>6. \A k \in Tasks : ~OnStack(k)
  <2>1. \A t \in Threads : \A i \in DOMAIN stack[t] : stack[t][i].who = t  BY <1>1
  <2> QED  BY <1>2, <2>1 DEF OnStack
<1>7. \A d \in Tasks : cont[d] = None /\ done[d] = "no" /\ fate[d] = "new" /\ runs[d] = 0
  BY DEF Init
<1>8. \A k \in Tasks : \A x \in Places : ~In(k, x)
  BY <1>2, <1>4, <1>5, <1>6, <1>7 DEF In
<1>9. StacksRight
  <2>1. ASSUME NEW t \in Threads, NEW i \in DOMAIN stack[t]  PROVE FrameRight(t, i)
    <3>0. i = 1 /\ Len(stack[t]) = 1  BY <1>1
    <3>1. i = 1 /\ i = Len(stack[t]) /\ ~(i > 1) /\ ~(i < Len(stack[t]))  BY <3>0
    <3>2. stack[t][i].who = t /\ stack[t][i].at = (IF t \in Workers THEN "top" ELSE "call")
      BY <1>1, <3>1
    <3> QED  BY <1>3, <3>1, <3>2 DEF FrameRight
  <2>2. \A t, u \in Threads : \A i \in DOMAIN stack[t], j \in DOMAIN stack[u] :
          stack[t][i].who = stack[u][j].who => t = u /\ i = j
    BY <1>1
  <2> QED  BY <2>1, <2>2 DEF StacksRight
<1>10. OnceThere
  <2>1. OnceQueued  BY DEF Init, OnceQueued
  <2>2. OnceRegistered  BY <1>7 DEF OnceRegistered
  <2>3. OnceFired  BY <1>4 DEF OnceFired
  <2> QED  BY <2>1, <2>2, <2>3 DEF OnceThere
<1>11. ASSUME NEW k \in Tasks  PROVE TaskRight(k)
  <2>1. OnePlace(k) /\ RunsRight(k) /\ HandleKept(k)
    BY <1>7, <1>8 DEF OnePlace, RunsRight, HandleKept
  <2>2. Fresh(k)  BY <1>7, <1>8 DEF Fresh, Nowhere
  <2>3. NotLost(k)
    <3>1. ~Known(k)  BY <1>2, <1>4, <1>7 DEF Known
    <3> QED  BY <3>1 DEF NotLost
  <2>4. ASSUME NEW d \in Tasks  PROVE FollowsDep(d, k)
    BY <1>2, <1>4, <1>5, <1>7 DEF FollowsDep
  <2> QED  BY <2>1, <2>2, <2>3, <2>4 DEF TaskRight, Follows
<1>12. CountsRight
  <2>1. \A k \in Tasks : ~Out(k)  BY <1>2, <1>4, <1>5, <1>6, <1>7 DEF Out
  <2>2. Outstanding = {k \in Tasks : Out(k)}  BY <1>1, <1>4, OutMember
  <2>3. Outstanding = {}  BY <2>1, <2>2
  <2>4. inflight = 0  BY DEF Init
  <2>5. IsFiniteSet(Outstanding) /\ Cardinality(Outstanding) = 0  BY <2>3, FS_EmptySet
  <2> QED  BY <2>4, <2>5 DEF CountsRight
<1>13. DrainersRight
  <2>1. \A t \in Threads : \A i \in DOMAIN stack[t] : stack[t][i].at \notin DrainLabels
    BY <1>1, <1>3
  <2>2. \A w : w \notin DrainingTasks  BY <2>1, DrainMember
  <2>3. DrainingTasks = {}  BY <2>2
  <2>4. draining = 0  BY DEF Init
  <2>5. IsFiniteSet(DrainingTasks) /\ Cardinality(DrainingTasks) = 0  BY <2>3, FS_EmptySet
  <2> QED  BY <2>4, <2>5 DEF DrainersRight
<1>14. LevelsRight
  <2>1. \A t \in Threads : \A i \in DOMAIN stack[t] : stack[t][i].n = 1  BY <1>1
  <2> QED  BY <2>1 DEF LevelsRight, Levels
<1> QED  BY <1>1, <1>4, <1>9, <1>10, <1>11, <1>12, <1>13, <1>14 DEF PoolInv, PoolInvariant

LEMMA LevelsStep ==
  ASSUME TypeOK, LevelsRight, NEW t \in Threads, Step(t) \/ SpuriousWake(t)
  PROVE  LevelsRight'
<1>1. CASE CallStep(t)
  BY <1>1, CallsGoOn, LevelsGoOn, LevelsRelease DEF CallStep
<1>2. CASE DrainStep(t)
  BY <1>2, DrainsGoOn, LevelsGoOn, LevelsMade, LevelsPop DEF DrainStep
<1>3. CASE ShutdownStep(t) \/ SpuriousWake(t)
  BY <1>3, DrainsGoOn, LevelsGoOn DEF ShutdownStep
<1>4. CASE WorkerStep(t)
  BY <1>4, WorkersGoOn, LevelsGoOn, LevelsMade, LevelsPop DEF WorkerStep
<1> QED  BY <1>1, <1>2, <1>3, <1>4 DEF Step

LEMMA PoolStep ==
  ASSUME TypeOK, PoolInv, LevelsRight, NEW t \in Threads, Step(t) \/ SpuriousWake(t)
  PROVE  TypeOK' /\ PoolInv'
<1>1. CASE CallStep(t)
  BY <1>1, SubmitStep, ReserveStep, RegisterStep, PushStep, PublishStep, TokenStep,
     ReleaseStep, WakeStep, PlainWait DEF CallStep
<1>2. CASE DrainStep(t)
  BY <1>2, PlainDrain, PlainWaiter, PlainRead, PlainJoinDrain, PopStep, PlainLeaveDrain
     DEF DrainStep
<1>3. CASE ShutdownStep(t) \/ SpuriousWake(t)
  BY <1>3, PlainWaiter, PlainJoin DEF ShutdownStep
<1>4. CASE WorkerStep(t)
  BY <1>4, PlainWorker, PopStep, TakeStep, PublishDoneStep, DropStep, DropHandleStep
     DEF WorkerStep
<1> QED  BY <1>1, <1>2, <1>3, <1>4 DEF Step

\* A stuttering step changes nothing.
LEMMA PoolStutters ==
  ASSUME TypeOK, PoolInv, LevelsRight, UNCHANGED vars
  PROVE  TypeOK' /\ PoolInv' /\ LevelsRight'
<1>1. /\ UNCHANGED <<program, stack, queue, tokens, inflight, draining, stop, up>>
      /\ UNCHANGED <<holder, cont, done, handle, fate, runs>>
  BY DEF vars
<1>2. TypeOK' /\ LevelsRight'  BY <1>1 DEF TypeOK, LevelsRight
<1>3. StacksRight'  BY <1>1 DEF PoolInv, StacksRight, FrameRight
<1>4. \A u \in Threads :
        /\ Sub(u)' = Sub(u) /\ Nxt(u)' = Nxt(u) /\ Entered(u)' = Entered(u)
        /\ Top(u)' = Top(u) /\ (CallRight(u) => CallRight(u)')
  BY <1>1, OtherThread
<1>5. \A u \in Threads : CallRight(u)'  BY <1>4 DEF PoolInv
<1>6. OnceThere'
  BY <1>1, <1>4 DEF PoolInv, OnceThere, OnceQueued, OnceRegistered, OnceFired
<1>7. \A k : Queues(k)' <=> Queues(k)  BY <1>1 DEF Queues
<1>8. \A k : OnStack(k)' <=> OnStack(k)  BY <1>1 DEF OnStack
<1>9. \A k : \A x \in Places : In(k, x)' <=> In(k, x)  BY <1>1, <1>4, <1>7, <1>8 DEF In
<1>10. \A w, i : Ahead(w, i)' <=> Ahead(w, i)  BY <1>1, <1>8 DEF Ahead
<1>11. ASSUME NEW k \in Tasks  PROVE TaskRight(k)'
  <2>1. TaskRight(k)  BY DEF PoolInv
  <2>2. OnePlace(k)' /\ RunsRight(k)'  BY <1>1, <1>9, <2>1 DEF TaskRight, OnePlace, RunsRight
  <2>3. Fresh(k)'
    BY <1>1, <1>9, <1>10, <2>1 DEF TaskRight, Fresh, Nowhere, Submits
  <2>4. NotLost(k)'
    <3>1. Known(k)' <=> Known(k)  BY <1>1, <1>4 DEF Known
    <3>2. "queue" \in Places /\ "cont" \in Places /\ "next" \in Places  BY DEF Places
    <3> QED  BY <1>1, <1>9, <2>1, <3>1, <3>2 DEF TaskRight, NotLost
  <2>5. HandleKept(k)'  BY <1>1, <1>9, <2>1, SamePrograms DEF TaskRight, HandleKept
  <2>6. Follows(k)'
    <3>1. ASSUME NEW d \in Tasks, FollowsDep(d, k)  PROVE FollowsDep(d, k)'
      BY <1>1, <1>4, <1>7, <3>1 DEF FollowsDep, At
    <3> QED  BY <1>1, <2>1, <3>1, SamePrograms DEF TaskRight, Follows
  <2> QED  BY <2>2, <2>3, <2>4, <2>5, <2>6 DEF TaskRight
<1>12. CountsRight'
  <2>1. \A u \in Threads : Top(u)' = Top(u) /\ Finished(u)' = Finished(u) /\ Call(u)' = Call(u)
    BY <1>1, OtherThread
  <2>2. Submitting' = Submitting  BY <2>1 DEF Submitting, At
  <2>3. Queued' = Queued /\ Registered' = Registered  BY <1>1 DEF Queued, Registered
  <2>4. Fired({"report", "push", "drop"})' = Fired({"report", "push", "drop"})
    BY <2>1 DEF Fired, At
  <2>5. {k \in Running : Counted(k)}' = {k \in Running : Counted(k)}
    <3>1. Running' = Running  BY <1>1 DEF Running
    <3>2. \A k : Counted(k)' <=> Counted(k)  BY <2>1 DEF Counted, At
    <3> QED  BY <3>1, <3>2
  <2>6. Outstanding' = Outstanding  BY <2>2, <2>3, <2>4, <2>5 DEF Outstanding
  <2> QED  BY <1>1, <2>6 DEF PoolInv, CountsRight
<1>13. DrainersRight'  BY <1>1 DEF PoolInv, DrainersRight, DrainingTasks
<1> QED  BY <1>2, <1>3, <1>5, <1>6, <1>11, <1>12, <1>13 DEF PoolInv

LEMMA StepKeepsPool == PoolInvariant /\ [Next]_vars => PoolInvariant'
<1> SUFFICES ASSUME PoolInvariant, [Next]_vars PROVE PoolInvariant'
  OBVIOUS
<1>1. TypeOK /\ PoolInv /\ LevelsRight  BY DEF PoolInvariant
<1>2. ASSUME Next  PROVE PoolInvariant'
  <2>1. PICK t \in Threads : Step(t) \/ SpuriousWake(t)  BY <1>2 DEF Next
  <2> QED  BY <1>1, <2>1, PoolStep, LevelsStep DEF PoolInvariant
<1>3. ASSUME UNCHANGED vars  PROVE PoolInvariant'
  BY <1>1, <1>3, PoolStutters DEF PoolInvariant
<1> QED  BY <1>2, <1>3

(***************************************************************************)
(* The pool's bookkeeping is right at every step of every schedule: a task *)
(* is in one place, _inflight and _drainingWorkers count what they are     *)
(* said to count, and no stack holds a frame that it should not.           *)
(***************************************************************************)
THEOREM PoolRight == Spec => []PoolInvariant
<1>1. Init => PoolInvariant  BY InitPool
<1> QED  BY <1>1, StepKeepsPool, PTL DEF Spec

(***************************************************************************)
(* Every variable keeps its type; _inflight, _drainingWorkers and the      *)
(* semaphore never go below zero.                                          *)
(***************************************************************************)
THEOREM TypeCorrect == Spec => []TypeOK
<1>1. PoolInvariant => TypeOK  BY DEF PoolInvariant
<1> QED  BY <1>1, PoolRight, PTL

(***************************************************************************)
(* _inflight counts exactly the tasks on their way, until a shutdown has   *)
(* deleted the queues: drain() can neither return early nor wait for       *)
(* nothing.                                                                *)
(***************************************************************************)
THEOREM CountIsExact == Spec => [](up => InflightExact)
<1>1. PoolInvariant => (up => InflightExact)
  BY DEF PoolInvariant, PoolInv, CountsRight, InflightExact
<1> QED  BY <1>1, PoolRight, PTL

(***************************************************************************)
(* No task is run twice, and until a shutdown has deleted the queues a     *)
(* task that was accepted has run, is on its way or was dropped: the       *)
(* queues, then() and the completing workers neither lose nor repeat one.  *)
(***************************************************************************)
THEOREM EachTaskOnce == Spec => []((\A k \in Tasks : runs[k] <= 1) /\ (up => EveryTaskOnce))
<1>1. ASSUME PoolInvariant
      PROVE  (\A k \in Tasks : runs[k] <= 1) /\ (up => EveryTaskOnce)
  <2>1. TypeOK /\ PoolInv  BY <1>1 DEF PoolInvariant
  <2>2. ASSUME NEW k \in Tasks  PROVE runs[k] <= 1
    <3>1. runs[k] \in {0, 1}  BY <2>1 DEF PoolInv, TaskRight, RunsRight
    <3> QED  BY <3>1
  <2>3. ASSUME up, NEW k \in Tasks, fate[k] = "accepted",
               k \notin Outstanding \union Fired({"drop_handle"})
        PROVE  runs[k] = 1 \/ done[k] = "dropped"
    <3>1. ~Out(k)  BY <2>1, <2>3, OutMember DEF PoolInv
    <3>2. ~In(k, "queue") /\ ~In(k, "cont")  BY <3>1, PlaceNames DEF Out
    <3>3. ~In(k, "next")
      <4>1. SUFFICES ASSUME NEW t \in Threads, Nxt(t) = k  PROVE FALSE
        BY PlaceNames
      <4>2. At(t, "drop_handle")  BY <3>1, <4>1 DEF Out
      <4>3. Finished(t) /\ Top(t).next = k /\ k # None
        BY <4>1, ThreadPoolAssumption DEF Nxt
      <4> QED  BY <2>3, <4>2, <4>3 DEF Fired
    <3>4. NotLost(k)  BY <2>1 DEF PoolInv, TaskRight
    <3> QED  BY <2>3, <3>2, <3>3, <3>4 DEF NotLost, Known
  <2> QED  BY <2>2, <2>3 DEF EveryTaskOnce
<1>2. PoolInvariant => (\A k \in Tasks : runs[k] <= 1) /\ (up => EveryTaskOnce)
  BY <1>1
<1> QED  BY <1>2, PoolRight, PTL

(***************************************************************************)
(* A continuation starts only after the task it was chained to has         *)
(* reported, whichever of then() and the completing worker enqueues it.    *)
(***************************************************************************)
THEOREM ContinuationsFollow == Spec => []ContinuationAfterDep
<1>1. ASSUME PoolInvariant  PROVE ContinuationAfterDep
  <2>1. TypeOK /\ PoolInv  BY <1>1 DEF PoolInvariant
  <2>2. ASSUME NEW w \in Users \union Tasks, NEW i \in DOMAIN program[w],
               program[w][i].op = "then", runs[program[w][i].task] > 0
        PROVE  done[program[w][i].dep] # "no"
    <3>1. PICK k, d : k = program[w][i].task /\ d = program[w][i].dep  OBVIOUS
    <3>2. program \in Programs  BY <2>1 DEF TypeOK
    <3>3. program[w] \in Seq(Calls)  BY <3>2, ThreadPoolAssumption
    <3>4. program[w][i] \in Calls  BY <3>3, SeqElement
    <3>5. k \in Tasks /\ d \in Tasks  BY <2>2, <3>1, <3>4 DEF Calls
    <3>6. Chained(d, k)  BY <2>2, <3>1 DEF Chained
    <3>7. FollowsDep(d, k)  BY <2>1, <3>5, <3>6 DEF PoolInv, TaskRight, Follows
    <3> QED  BY <2>2, <3>1, <3>7 DEF FollowsDep
  <2> QED  BY <2>2 DEF ContinuationAfterDep
<1>2. PoolInvariant => ContinuationAfterDep  BY <1>1
<1> QED  BY <1>2, PoolRight, PTL

-----------------------------------------------------------------------------
(* A thread changes its own stack only, and wakes those that sleep in drain(). *)

LEMMA OnOwnStack ==
  ASSUME TypeOK, NEW t \in Threads, NEW s, stack' = [stack EXCEPT ![t] = s]
  PROVE  \A u \in Threads \ {t} : Roused(u)
BY DEF TypeOK, Roused

LEMMA OthersRoused ==
  ASSUME TypeOK, NEW t \in Threads, Step(t) \/ SpuriousWake(t)
  PROVE  \A u \in Threads \ {t} : Roused(u)
<1>1. CASE GoesOn(t)
  BY <1>1, OnOwnStack DEF GoesOn, Goto, SetTop
<1>2. CASE Release(t)
  BY <1>2, OnOwnStack DEF Release, Goto, SetTop, Leave
<1>3. CASE Wake(t)
  BY <1>3 DEF Wake, Roused
<1>4. CASE \/ StartDrain(t) \/ JoinDrain(t) \/ TakeContinuation(t)
           \/ CountTasks(t) \/ CountDrainers(t)
  BY <1>4, OnOwnStack DEF StartDrain, JoinDrain, TakeContinuation, CountTasks, CountDrainers, SetTop
<1>5. CASE WorkerPop(t) \/ Help(t)
  BY <1>5, OnOwnStack DEF WorkerPop, Help, Pop, SetTop
<1> QED
  BY <1>1, <1>2, <1>3, <1>4, <1>5, CallsGoOn, DrainsGoOn, WorkersGoOn
     DEF Step, CallStep, DrainStep, ShutdownStep, WorkerStep

LEMMA OnlyReads ==
  ASSUME NEW t \in Threads, At(t, "read"), Step(t) \/ SpuriousWake(t)
  PROVE  ReadInflight(t)
<1>1. CASE CallStep(t)
  BY <1>1 DEF CallStep, StartSubmit, Reserve, Register, Push, Publish, Token, Release, Wake, Wait,
              InCall, At
<1>2. CASE DrainStep(t)
  BY <1>2 DEF DrainStep, StartDrain, Lock, Sleep, JoinDrain, Help, CountTasks, CountDrainers,
              LeaveDrain, InCall, At
<1>3. CASE ShutdownStep(t) \/ SpuriousWake(t)
  BY <1>3 DEF ShutdownStep, RequestStop, ReleaseAll, Join, SpuriousWake, At
<1>4. CASE WorkerStep(t)
  BY <1>4 DEF WorkerStep, WorkerTop, Acquire, Check, WorkerPop, Forward, TakeContinuation,
              PublishDone, Drop, DropHandle, At
<1> QED  BY <1>1, <1>2, <1>3, <1>4 DEF Step

\* A drain() of a thread outside the pool finds nothing on its way.
LEMMA DrainReads ==
  ASSUME PoolInvariant, Next, NEW t \in Users, DrainReturns(t)
  PROVE  Outstanding = {}
<1>0. TypeOK /\ PoolInv /\ t \in Threads  BY DEF PoolInvariant, Threads
<1>1. At(t, "read") /\ Head(stack'[t]).at \in {"call", "stop"}  BY DEF DrainReturns
<1>2. PICK u \in Threads : Step(u) \/ SpuriousWake(u)  BY DEF Next
<1>3. CASE u # t
  <2>1. Roused(t)  BY <1>0, <1>2, <1>3, OthersRoused
  <2>2. stack'[t] = stack[t]  BY <1>1, <2>1 DEF Roused, At
  <2> QED  BY <1>1, <2>2 DEF At, Top
<1>4. CASE u = t
  <2>1. ReadInflight(t)  BY <1>0, <1>1, <1>2, <1>4, OnlyReads
  <2>2. ~(inflight > 0)
    <3>1. SUFFICES ASSUME inflight > 0  PROVE FALSE
      OBVIOUS
    <3>2. PICK a : a = "sleep" /\ a \in Labels  BY DEF Labels
    <3>3. Goto(t, a)  BY <2>1, <3>1, <3>2 DEF ReadInflight
    <3>4. PICK g \in Frames : SetTop(t, g) /\ g.at = a  BY <1>0, <3>2, <3>3, GotoEffect
    <3>5. Top(t)' = g  BY <1>0, <3>4, SetTopEffect
    <3> QED  BY <1>1, <3>2, <3>4, <3>5 DEF Top
  <2>3. /\ IsFiniteSet(Outstanding) /\ inflight >= Cardinality(Outstanding)
        /\ Cardinality(Outstanding) \in Nat /\ inflight \in Nat
    BY <1>0, FS_CardinalityType DEF PoolInv, CountsRight, TypeOK
  <2>4. Cardinality(Outstanding) = 0  BY <2>2, <2>3
  <2> QED  BY <2>3, <2>4, FS_EmptySet
<1> QED  BY <1>3, <1>4

(***************************************************************************)
(* When drain() returns on a thread outside the pool, or shutdown() goes   *)
(* on to stop the workers, no task at all is on its way.                   *)
(***************************************************************************)
THEOREM DrainsComplete == Spec => DrainCompletes
<1>1. PoolInvariant /\ [Next]_vars => [\A t \in Users : DrainReturns(t) => Outstanding = {}]_vars
  BY DrainReads
<1> QED  BY <1>1, PoolRight, PTL DEF Spec, DrainCompletes

\* A task that drains is on its way.
LEMMA DrainersOutstanding ==
  ASSUME PoolInvariant
  PROVE  DrainingTasks \subseteq Outstanding
<1>0. TypeOK /\ StacksRight  BY DEF PoolInvariant, PoolInv
<1> SUFFICES ASSUME NEW w \in DrainingTasks  PROVE w \in Outstanding
  OBVIOUS
<1>1. PICK t \in Threads : \E i \in DOMAIN stack[t] :
        stack[t][i].who = w /\ stack[t][i].at \in DrainLabels
  BY DrainMember
<1>2. PICK i \in DOMAIN stack[t] : stack[t][i].who = w /\ stack[t][i].at \in DrainLabels
  BY <1>1
<1>3. FrameRight(t, i)  BY <1>0, <1>2 DEF StacksRight
<1>4. w \in Tasks  BY <1>2, <1>3 DEF FrameRight
<1>5. w \in Running  BY <1>2, <1>4 DEF Running
<1>6. Counted(w)
  <2>1. SUFFICES ASSUME NEW u \in Threads, Top(u).who = w, At(u, "wake")  PROVE FALSE
    BY DEF Counted
  <2>2. 1 \in DOMAIN stack[u] /\ Top(u) = stack[u][1]  BY <1>0, TopType
  <2>3. t = u /\ i = 1  BY <1>0, <1>2, <2>1, <2>2 DEF StacksRight
  <2> QED  BY <1>2, <2>1, <2>2, <2>3 DEF At, DrainLabels
<1> QED  BY <1>5, <1>6 DEF Outstanding

(***************************************************************************)
(* The condition on which drain() on a worker ends is the right one, for   *)
(* any number of workers: whenever _inflight is at most _drainingWorkers,  *)
(* only tasks inside drain() are on their way.  What WorkerDrainCompletes  *)
(* suffers from is only that the two are not read at one moment.           *)
(***************************************************************************)
THEOREM DrainersSuffice == Spec => [](inflight <= draining => Outstanding = DrainingTasks)
<1>1. ASSUME PoolInvariant, inflight <= draining  PROVE Outstanding = DrainingTasks
  <2>1. /\ IsFiniteSet(Outstanding) /\ inflight >= Cardinality(Outstanding)
        /\ Cardinality(Outstanding) \in Nat /\ inflight \in Int
        /\ IsFiniteSet(DrainingTasks) /\ draining = Cardinality(DrainingTasks)
        /\ Cardinality(DrainingTasks) \in Nat
    BY <1>1, FS_CardinalityType DEF PoolInvariant, PoolInv, CountsRight, DrainersRight, TypeOK
  <2>2. DrainingTasks \subseteq Outstanding  BY <1>1, DrainersOutstanding
  <2>3. Cardinality(Outstanding) <= Cardinality(DrainingTasks)  BY <1>1, <2>1
  <2>4. Cardinality(DrainingTasks) <= Cardinality(Outstanding)
        /\ (Cardinality(DrainingTasks) = Cardinality(Outstanding) => DrainingTasks = Outstanding)
    BY <2>1, <2>2, FS_Subset
  <2> QED  BY <2>1, <2>3, <2>4
<1> QED  BY <1>1, PoolRight, PTL

-----------------------------------------------------------------------------
(***************************************************************************)
(* Who may touch a handle.  The mutex is held where the code holds it;     *)
(* between taking the continuation and reporting, none is registered; and  *)
(* a task that has reported is done with its handle.                       *)
(***************************************************************************)
LockLabels == {"read", "sleep", "report"}
ReportedLabels == {"push", "publish", "token", "drop", "drop_handle", "release", "wake"}

DropLabels == {"drop", "drop_handle"}

\* No queue can fill up: there are not that many tasks.
FitsQueues == IsFiniteSet(Tasks) /\ Cardinality(Tasks) <= QCap

ThreadHandled(u) ==
  /\ Top(u).at \in LockLabels => holder = u
  /\ FitsQueues => Top(u).at \notin DropLabels
  /\ At(u, "report") => cont[Top(u).who] = None

FramesHandled(u) ==
  \A i \in DOMAIN stack[u] :
    stack[u][i].who \in Tasks /\ done[stack[u][i].who] = "ran" =>
      i = 1 /\ Finished(u) /\ Top(u).at \in ReportedLabels

TaskHandled(k) ==
  /\ done[k] = "ran" => runs[k] = 1 /\ cont[k] = None
  /\ handle[k] = "deleted" => done[k] # "no"
  /\ FitsQueues => done[k] # "dropped"

HandlesInv ==
  /\ \A u \in Threads : ThreadHandled(u) /\ FramesHandled(u)
  /\ \A k \in Tasks : TaskHandled(k)

\* What any step of t does to the mutex and the handles.
HandleEffects(t) ==
  /\ holder' = holder \/ holder \in {None, t}
  /\ \A k \in Tasks :
       /\ cont'[k] = cont[k] \/ cont'[k] = None \/ (holder = None /\ done[k] = "no")
       /\ \/ done'[k] = done[k]
          \/ done'[k] = "dropped" /\ Top(t).at \in DropLabels
          \/ k = Top(t).who /\ At(t, "report") /\ Finished(t) /\ done'[k] = "ran"
       /\ handle'[k] = handle[k] \/ handle'[k] # "deleted" \/ done[k] # "no"
       /\ runs'[k] = runs[k] \/ runs'[k] = runs[k] + 1

LEMMA CallEffects ==
  ASSUME TypeOK, NEW t \in Threads, CallStep(t)
  PROVE  HandleEffects(t)
<1>1. CASE StartSubmit(t)  BY <1>1 DEF StartSubmit, TypeOK, HandleEffects
<1>2. CASE Reserve(t) \/ Push(t) \/ Publish(t) \/ Token(t) \/ Wake(t)
  BY <1>2 DEF Reserve, Push, Publish, Token, Wake, handles, HandleEffects
<1>3. CASE Register(t)
  BY <1>3 DEF Register, TypeOK, HandleEffects
<1>4. CASE Release(t)
  BY <1>4 DEF Release, TypeOK, HandleEffects
<1>5. CASE Wait(t)
  BY <1>5 DEF Wait, TypeOK, HandleEffects
<1> QED  BY <1>1, <1>2, <1>3, <1>4, <1>5 DEF CallStep

LEMMA OtherEffects ==
  ASSUME TypeOK, NEW t \in Threads, ThreadHandled(t), CallRight(t),
         DrainStep(t) \/ ShutdownStep(t) \/ WorkerStep(t) \/ SpuriousWake(t)
  PROVE  HandleEffects(t)
<1>1. CASE \/ StartDrain(t) \/ Lock(t) \/ JoinDrain(t) \/ CountTasks(t) \/ CountDrainers(t)
           \/ LeaveDrain(t) \/ ShutdownStep(t) \/ SpuriousWake(t)
  BY <1>1 DEF StartDrain, Lock, JoinDrain, CountTasks, CountDrainers, LeaveDrain, ShutdownStep,
              RequestStop, ReleaseAll, Join, SpuriousWake, handles, HandleEffects
<1>2. CASE ReadInflight(t) \/ Sleep(t)
  <2>1. holder = t  BY <1>2 DEF ReadInflight, Sleep, ThreadHandled, LockLabels, At
  <2> QED  BY <1>2, <2>1 DEF ReadInflight, Sleep, handles, HandleEffects
<1>3. CASE WorkerTop(t) \/ Acquire(t) \/ Check(t) \/ Forward(t) \/ Drop(t)
  BY <1>3 DEF WorkerTop, Acquire, Check, Forward, Drop, handles, HandleEffects
<1>4. CASE TakeContinuation(t)
  BY <1>4 DEF TakeContinuation, TypeOK, HandleEffects
<1>5. CASE PublishDone(t)
  <2>1. holder = t /\ Finished(t) /\ At(t, "report")
    BY <1>5 DEF PublishDone, ThreadHandled, CallRight, LockLabels, FinishLabels, At
  <2> QED  BY <1>5, <2>1 DEF PublishDone, TypeOK, HandleEffects
<1>6. CASE DropHandle(t)
  BY <1>6 DEF DropHandle, TypeOK, HandleEffects, At, DropLabels
<1>7. CASE WorkerPop(t) \/ Help(t)
  <2>1. \A k \in Tasks : runs'[k] = runs[k] \/ runs'[k] = runs[k] + 1
    <3>1. runs' = runs \/ \E k : runs' = [runs EXCEPT ![k] = @ + 1]
      <4>1. PICK l, k : l = Top(t).n /\ k = Head(queue[l]).item  OBVIOUS
      <4>2. PICK after, empty : Pop(t, after, empty)  BY <1>7 DEF WorkerPop, Help
      <4>3. runs' = runs \/ runs' = [runs EXCEPT ![k] = @ + 1]  BY <4>1, <4>2 DEF Pop
      <4> QED  BY <4>3
    <3>2. runs \in [Tasks -> Nat]  BY DEF TypeOK
    <3> QED  BY <3>1, <3>2
  <2> QED  BY <1>7, <2>1 DEF WorkerPop, Help, handles, HandleEffects
<1> QED
  BY <1>1, <1>2, <1>3, <1>4, <1>5, <1>6, <1>7 DEF DrainStep, WorkerStep

\* A handle that reports a run task has been left by its continuations.
LEMMA TasksHandled ==
  ASSUME TypeOK, PoolInv, HandlesInv, TypeOK', PoolInv',
         NEW t \in Threads, HandleEffects(t), NEW k \in Tasks
  PROVE  TaskHandled(k)'
<1>1. TaskHandled(k) /\ ThreadHandled(t)  BY DEF HandlesInv
<1>2. runs[k] \in {0, 1} /\ runs'[k] \in {0, 1}
  BY DEF PoolInv, TaskRight, RunsRight
<1>3. ASSUME done'[k] = "ran"  PROVE runs'[k] = 1 /\ cont'[k] = None
  <2>1. CASE done[k] = "ran"
    BY <1>1, <1>2, <2>1 DEF TaskHandled, HandleEffects
  <2>2. CASE done[k] # "ran"
    <3>1. k = Top(t).who /\ At(t, "report")  BY <1>3, <2>2 DEF HandleEffects
    <3>2. cont[k] = None /\ holder = t /\ t # None
      BY <1>1, <3>1, ThreadPoolAssumption DEF ThreadHandled, LockLabels, At
    <3>3. OnStack(k)  BY <3>1, TopType DEF OnStack
    <3>4. runs[k] = 1
      <4>1. In(k, "stack") /\ "stack" \in Places  BY <3>3, PlaceNames DEF Places
      <4> QED  BY <4>1 DEF PoolInv, TaskRight, RunsRight
    <3> QED  BY <1>2, <3>2, <3>4 DEF HandleEffects
  <2> QED  BY <2>1, <2>2
<1>4. ASSUME handle'[k] = "deleted"  PROVE done'[k] # "no"
  BY <1>1, <1>4 DEF TaskHandled, HandleEffects
<1>5. FitsQueues => done'[k] # "dropped"
  BY <1>1 DEF TaskHandled, ThreadHandled, HandleEffects
<1> QED  BY <1>3, <1>4, <1>5 DEF TaskHandled

\* A thread that does not move, or is woken, is as right as before.
LEMMA OthersHandled ==
  ASSUME TypeOK, PoolInv, HandlesInv, program' = program,
         NEW t \in Threads, HandleEffects(t), NEW u \in Threads \ {t}, Roused(u)
  PROVE  ThreadHandled(u)' /\ FramesHandled(u)'
<1>1. ThreadHandled(u) /\ FramesHandled(u) /\ StacksRight  BY DEF HandlesInv, PoolInv
<1>2. Top(u).who \in Threads \union Tasks /\ Top(u) = stack[u][1] /\ 1 \in DOMAIN stack[u]
  BY TopType
<1>3. ASSUME NEW i \in DOMAIN stack[u], stack[u][i].who \in Tasks, done'[stack[u][i].who] = "ran"
      PROVE  done[stack[u][i].who] = "ran"
  <2>1. stack[u][i].who # Top(t).who
    <3>1. Top(t) = stack[t][1] /\ 1 \in DOMAIN stack[t]  BY TopType
    <3> QED  BY <1>1, <3>1 DEF StacksRight
  <2> QED  BY <1>3, <2>1 DEF HandleEffects
<1>4. CASE stack'[u] = stack[u]
  <2>1. Top(u)' = Top(u) /\ Finished(u)' = Finished(u)  BY <1>4, OtherThread
  <2>2. Top(u).at \in LockLabels => holder' = u
    BY <1>1, ThreadPoolAssumption DEF ThreadHandled, HandleEffects
  <2>3. At(u, "report") => cont'[Top(u).who] = None
    <3>1. SUFFICES ASSUME At(u, "report")  PROVE cont'[Top(u).who] = None
      OBVIOUS
    <3>2. holder = u /\ cont[Top(u).who] = None /\ u # None
      BY <1>1, <3>1, ThreadPoolAssumption DEF ThreadHandled, LockLabels, At
    <3>3. Top(u).who \in Tasks
      BY <3>1 DEF PoolInv, CallRight, FinishLabels, At, Finished
    <3> QED  BY <3>2, <3>3 DEF HandleEffects
  <2>4. ThreadHandled(u)'  BY <1>1, <2>1, <2>2, <2>3 DEF ThreadHandled, At, FitsQueues
  <2>5. FramesHandled(u)'  BY <1>1, <1>3, <1>4, <2>1 DEF FramesHandled
  <2> QED  BY <2>4, <2>5
<1>5. CASE stack'[u] # stack[u]
  <2>1. At(u, "asleep")  BY <1>5 DEF Roused
  <2>2. /\ stack'[u] \in Seq(Frames) /\ stack'[u] # << >> /\ DOMAIN stack'[u] = DOMAIN stack[u]
        /\ \A i \in DOMAIN stack[u] :
             /\ stack'[u][i].who = stack[u][i].who
             /\ \/ stack'[u][i].at = stack[u][i].at
                \/ i = 1 /\ stack[u][i].at = "asleep" /\ stack'[u][i].at = "lock"
    BY RousedFrames
  <2>3. Top(u)' = stack'[u][1]  BY <2>2 DEF Top
  <2>4. Top(u).at' \in {"asleep", "lock"}  BY <1>2, <2>1, <2>2, <2>3 DEF At
  <2>5. ThreadHandled(u)'  BY <2>4 DEF ThreadHandled, At, LockLabels, DropLabels
  <2>6. Top(u).at \notin ReportedLabels  BY <2>1 DEF At, ReportedLabels
  <2>7. FramesHandled(u)'  BY <1>1, <1>3, <2>2, <2>6 DEF FramesHandled
  <2> QED  BY <2>5, <2>7
<1> QED  BY <1>4, <1>5

\* A step that replaces the topmost frame.
GoesRight(t, g) ==
  /\ g \in Frames /\ SetTop(t, g) /\ g.who = Top(t).who
  /\ Finished(t) /\ Top(t).at \in ReportedLabels \union {"report"} =>
       g.at \in ReportedLabels /\ g.ip = Top(t).ip
  /\ g.at \in LockLabels => holder' = t
  /\ g.at = "report" => cont'[g.who] = None
  /\ FitsQueues => g.at \notin DropLabels

LEMMA OwnHandled ==
  ASSUME TypeOK, PoolInv, HandlesInv, program' = program,
         NEW t \in Threads, HandleEffects(t), NEW g, GoesRight(t, g)
  PROVE  ThreadHandled(t)' /\ FramesHandled(t)'
<1>1. ThreadHandled(t) /\ FramesHandled(t) /\ StacksRight  BY DEF HandlesInv, PoolInv
<1>2. Top(t) = stack[t][1] /\ 1 \in DOMAIN stack[t] /\ stack[t] \in Seq(Frames)  BY TopType
<1>3. /\ stack'[t] \in Seq(Frames) /\ Len(stack'[t]) = Len(stack[t])
      /\ Top(t)' = g /\ stack'[t][1] = g
      /\ \A i \in 2 .. Len(stack[t]) : stack'[t][i] = stack[t][i]
  BY SetTopEffect DEF GoesRight
<1>4. ThreadHandled(t)'
  <2>1. Top(t).at' = g.at /\ Top(t).who' = g.who  BY <1>3
  <2> QED  BY <2>1 DEF ThreadHandled, At, GoesRight, FitsQueues
<1>5. ASSUME NEW i \in DOMAIN stack'[t], stack'[t][i].who \in Tasks,
             done'[stack'[t][i].who] = "ran"
      PROVE  i = 1 /\ Finished(t)' /\ Top(t).at' \in ReportedLabels
  <2>1. i \in DOMAIN stack[t] /\ (i = 1 \/ i \in 2 .. Len(stack[t]))  BY <1>2, <1>3
  <2>2. stack'[t][i].who = stack[t][i].who  BY <1>2, <1>3, <2>1 DEF GoesRight
  <2>3. i = 1
    <3>1. SUFFICES ASSUME i # 1  PROVE FALSE
      OBVIOUS
    <3>2. stack[t][i].who # Top(t).who  BY <1>1, <1>2, <2>1, <3>1 DEF StacksRight
    <3>3. done[stack[t][i].who] = "ran"  BY <1>5, <2>2, <3>2 DEF HandleEffects
    <3> QED  BY <1>1, <1>5, <2>1, <2>2, <3>1, <3>3 DEF FramesHandled
  <2>4. Top(t).who \in Tasks /\ done'[Top(t).who] = "ran"  BY <1>2, <1>5, <2>2, <2>3
  <2>5. Finished(t) /\ Top(t).at \in ReportedLabels \union {"report"}
    <3>1. CASE done[Top(t).who] = "ran"
      BY <1>1, <1>2, <2>4, <3>1 DEF FramesHandled
    <3>2. CASE done[Top(t).who] # "ran"
      BY <2>4, <3>2 DEF HandleEffects, At
    <3> QED  BY <3>1, <3>2
  <2>6. g.at \in ReportedLabels /\ g.ip = Top(t).ip /\ g.who = Top(t).who
    BY <2>5 DEF GoesRight
  <2>7. Finished(t)'  BY <1>3, <2>5, <2>6 DEF Finished
  <2> QED  BY <1>3, <2>3, <2>6, <2>7
<1>6. FramesHandled(t)'  BY <1>5 DEF FramesHandled
<1> QED  BY <1>4, <1>6

\* Its label, or its call, is all that a step changes of the frame.
LEMMA GotoRight ==
  ASSUME TypeOK, NEW t \in Threads, NEW a \in Labels, Goto(t, a),
         Finished(t) /\ Top(t).at \in ReportedLabels \union {"report"} => a \in ReportedLabels,
         a \in LockLabels => holder' = t, a # "report", FitsQueues => a \notin DropLabels
  PROVE  \E g : GoesRight(t, g)
<1>1. PICK g \in Frames : SetTop(t, g) /\ g.at = a /\ g.who = Top(t).who /\ g.ip = Top(t).ip
  BY GotoEffect
<1>2. GoesRight(t, g)  BY <1>1 DEF GoesRight
<1> QED  BY <1>2

LEMMA NextRight ==
  ASSUME TypeOK, NEW t \in Threads, SetTop(t, NextCall(Top(t))),
         ~(Finished(t) /\ Top(t).at \in ReportedLabels \union {"report"})
  PROVE  \E g : GoesRight(t, g)
<1>1. PICK g : g = NextCall(Top(t))  OBVIOUS
<1>2. g \in Frames /\ g.at = "call" /\ g.who = Top(t).who  BY <1>1, TopType, NextCallFrame
<1>3. GoesRight(t, g)  BY <1>1, <1>2 DEF GoesRight, LockLabels, DropLabels
<1> QED  BY <1>3

LEMMA HandleLabels ==
  /\ LockLabels \subseteq Labels /\ ReportedLabels \subseteq Labels
  /\ {"call", "reserve", "register", "top", "acquire", "check", "pop", "forward", "gone", "lock",
      "asleep", "help", "count_tasks", "count_drainers", "leave_drain", "stop", "release_all",
      "join"} \subseteq Labels \ (LockLabels \union ReportedLabels \union DropLabels)
BY DEF Labels, LockLabels, ReportedLabels, DropLabels

\* A queue has room for a task that is not in it.
LEMMA NeverFull ==
  ASSUME TypeOK, PoolInv, FitsQueues, NEW t \in Threads, At(t, "push"), NEW l \in Levels
  PROVE  Len(queue[l]) < QCap
<1>1. PICK k : k = Pushed(t)  OBVIOUS
<1>2. k \in Tasks /\ ~Queues(k)
  <2>1. k \in Tasks /\ ((\E u \in Threads : Nxt(u) = k) \/ \E u \in Threads : Sub(u) = k)
    BY <1>1, PushedInHand
  <2>2. In(k, "next") \/ In(k, "submit")  BY <2>1, PlaceNames
  <2>3. OnePlace(k)  BY <2>1 DEF PoolInv, TaskRight
  <2> QED  BY <2>1, <2>2, <2>3, PlaceNames DEF OnePlace, Places
<1>3. PICK q : q = queue[l]  OBVIOUS
<1>4. q \in Seq(Items) /\ Len(q) \in Nat /\ DOMAIN q = 1 .. Len(q)
  <2>1. queue[l] \in Seq(Items)  BY DEF TypeOK, Items
  <2>2. \A s \in Seq(Items) : Len(s) \in Nat /\ DOMAIN s = 1 .. Len(s)  OBVIOUS
  <2> QED  BY <1>3, <2>1, <2>2
<1>5. PICK others : others = Tasks \ {k}  OBVIOUS
<1>6. IsFiniteSet(others) /\ Cardinality(others) = Cardinality(Tasks) - 1 /\ Cardinality(Tasks) \in Nat
  BY <1>2, <1>5, FS_RemoveElement, FS_CardinalityType DEF FitsQueues
<1>7. SUFFICES ASSUME ~(Len(q) < QCap)  PROVE FALSE
  BY <1>3
<1>8. IsFiniteSet(1 .. Len(q)) /\ Cardinality(1 .. Len(q)) = Len(q)
  <2>1. 1 \in Int /\ Len(q) \in Int /\ (1 > Len(q) => Len(q) = 0) /\ Len(q) - 1 + 1 = Len(q)
    BY <1>4
  <2> QED  BY <2>1, FS_Interval
<1>9. Cardinality(others) < Cardinality(1 .. Len(q))
  BY <1>4, <1>6, <1>7, <1>8, ThreadPoolAssumption DEF FitsQueues
<1>10. PICK f : f = [i \in 1 .. Len(q) |-> q[i].item]  OBVIOUS
<1>11. f \in [1 .. Len(q) -> others]
  <2>1. ASSUME NEW i \in 1 .. Len(q)  PROVE q[i].item \in others
    <3>1. q[i] \in Items /\ i \in DOMAIN queue[l]  BY <1>3, <1>4
    <3> QED  BY <1>2, <1>3, <1>5, <3>1 DEF Items, Queues
  <2> QED  BY <1>10, <2>1
<1>12. PICK i \in 1 .. Len(q), j \in 1 .. Len(q) : i # j /\ f[i] = f[j]
  BY <1>6, <1>8, <1>9, <1>11, FS_PigeonHole
<1>13. queue[l][i].item = queue[l][j].item /\ i \in DOMAIN queue[l] /\ j \in DOMAIN queue[l]
  BY <1>3, <1>4, <1>10, <1>12
<1> QED  BY <1>12, <1>13 DEF PoolInv, OnceThere, OnceQueued

LEMMA CallsGoRight ==
  ASSUME TypeOK, PoolInv, NEW t \in Threads, CallRight(t),
         \/ StartSubmit(t) \/ Reserve(t) \/ Register(t) \/ Push(t) \/ Publish(t) \/ Token(t)
         \/ Wait(t) \/ (Release(t) /\ inflight' = 0)
  PROVE  \E g : GoesRight(t, g)
<1>1. CASE StartSubmit(t) \/ Wait(t)
  <2>1. At(t, "call")  BY <1>1 DEF StartSubmit, Wait, InCall
  <2>2. Top(t).at \notin ReportedLabels \union {"report"}  BY <2>1 DEF At, ReportedLabels
  <2>3. Goto(t, "reserve") \/ SetTop(t, NextCall(Top(t)))  BY <1>1 DEF StartSubmit, Wait
  <2> QED  BY <2>2, <2>3, GotoRight, NextRight, HandleLabels
<1>2. CASE Reserve(t)
  <2>1. PICK a : a = IF Call(t).op = "then" THEN "register" ELSE "push"  OBVIOUS
  <2>2. Goto(t, a) /\ a \in Labels /\ a \notin LockLabels /\ a # "report" /\ a \notin DropLabels
    BY <1>2, <2>1 DEF Reserve, Labels, LockLabels, DropLabels
  <2>3. Top(t).at \notin ReportedLabels \union {"report"}  BY <1>2 DEF Reserve, At, ReportedLabels
  <2> QED  BY <2>2, <2>3, GotoRight
<1>3. CASE Register(t)
  <2>1. Top(t).at \notin ReportedLabels \union {"report"}  BY <1>3 DEF Register, At, ReportedLabels
  <2>2. Goto(t, "release") \/ Goto(t, "push") \/ SetTop(t, NextCall(Top(t)))  BY <1>3 DEF Register
  <2>3. {"release", "push"} \subseteq Labels \ (LockLabels \union DropLabels \union {"report"})
    BY DEF Labels, LockLabels, DropLabels
  <2> QED  BY <2>1, <2>2, <2>3, GotoRight, NextRight
<1>4. CASE Push(t) \/ Publish(t) \/ (Release(t) /\ inflight' = 0)
  <2>1. \/ \E a \in {"publish", "release", "token", "wake"} : Goto(t, a)
        \/ ~FitsQueues /\ Goto(t, "drop")
    <3>1. CASE Push(t)
      <4>1. PICK l : l = Priority[Pushed(t)]  OBVIOUS
      <4>2. l \in Levels /\ At(t, "push")
        BY <1>4, <3>1, <4>1, PushedInHand, ThreadPoolAssumption DEF Push
      <4>3. \/ Goto(t, "publish") \/ Goto(t, "release")
            \/ ~(Len(queue[l]) < QCap) /\ Goto(t, "drop")
        BY <3>1, <4>1 DEF Push
      <4> QED  BY <4>2, <4>3, NeverFull
    <3>2. CASE Publish(t) \/ (Release(t) /\ inflight' = 0)
      BY <3>2 DEF Publish, Release
    <3> QED  BY <1>4, <3>1, <3>2
  <2>2. /\ {"publish", "release", "token", "wake"}
             \subseteq (ReportedLabels \intersect Labels) \ (LockLabels \union DropLabels \union {"report"})
        /\ "drop" \in (ReportedLabels \intersect Labels) \ (LockLabels \union {"report"})
    BY DEF Labels, LockLabels, ReportedLabels, DropLabels
  <2> QED  BY <2>1, <2>2, GotoRight
<1>5. CASE Token(t)
  <2>1. "release" \in (ReportedLabels \intersect Labels) \ (LockLabels \union DropLabels \union {"report"})
    BY DEF Labels, LockLabels, ReportedLabels, DropLabels
  <2>2. CASE Finished(t)
    <3>1. Goto(t, "release")  BY <1>5, <2>2 DEF Token
    <3> QED  BY <2>1, <3>1, GotoRight
  <2>3. CASE ~Finished(t)
    <3>1. SetTop(t, NextCall(Top(t)))  BY <1>5, <2>3 DEF Token
    <3> QED  BY <2>3, <3>1, NextRight
  <2> QED  BY <2>2, <2>3
<1> QED  BY <1>1, <1>2, <1>3, <1>4, <1>5

LEMMA DrainsGoRight ==
  ASSUME TypeOK, NEW t \in Threads, ThreadHandled(t),
         \/ Lock(t) \/ ReadInflight(t) \/ Sleep(t) \/ SpuriousWake(t) \/ LeaveDrain(t)
         \/ RequestStop(t) \/ ReleaseAll(t) \/ Join(t)
  PROVE  \E g : GoesRight(t, g)
<1>0. Top(t).at \notin ReportedLabels \union {"report"}
  BY DEF Lock, ReadInflight, Sleep, SpuriousWake, LeaveDrain, RequestStop, ReleaseAll, Join, At,
         ReportedLabels
<1>1. CASE Lock(t)
  <2>1. Goto(t, "read") /\ holder' = t /\ "read" \in Labels \ DropLabels
    BY <1>1 DEF Lock, Labels, DropLabels
  <2> QED  BY <1>0, <2>1, GotoRight
<1>2. CASE ReadInflight(t)
  <2>1. holder = t  BY <1>2 DEF ReadInflight, ThreadHandled, LockLabels, At
  <2>2. \/ Goto(t, "sleep") /\ holder' = t
        \/ Goto(t, "stop") \/ SetTop(t, NextCall(Top(t)))
    BY <1>2, <2>1 DEF ReadInflight
  <2>3. "sleep" \in Labels \ DropLabels /\ "stop" \in Labels \ (LockLabels \union DropLabels)
    BY DEF Labels, LockLabels, DropLabels
  <2> QED  BY <1>0, <2>2, <2>3, GotoRight, NextRight
<1>3. CASE Sleep(t) \/ SpuriousWake(t) \/ RequestStop(t) \/ ReleaseAll(t)
  <2>1. \E a \in {"asleep", "lock", "release_all", "join"} : Goto(t, a)
    BY <1>3 DEF Sleep, SpuriousWake, RequestStop, ReleaseAll
  <2>2. {"asleep", "lock", "release_all", "join"}
           \subseteq Labels \ (LockLabels \union DropLabels \union {"report"})
    BY DEF Labels, LockLabels, DropLabels
  <2> QED  BY <1>0, <2>1, <2>2, GotoRight
<1>4. CASE LeaveDrain(t) \/ Join(t)
  <2>1. SetTop(t, NextCall(Top(t)))  BY <1>4 DEF LeaveDrain, Join
  <2> QED  BY <1>0, <2>1, NextRight
<1> QED  BY <1>1, <1>2, <1>3, <1>4

LEMMA WorkersGoRight ==
  ASSUME TypeOK, NEW t \in Threads, ThreadHandled(t),
         \/ WorkerTop(t) \/ Acquire(t) \/ Check(t) \/ Forward(t)
         \/ PublishDone(t) \/ Drop(t) \/ DropHandle(t)
  PROVE  \E g : GoesRight(t, g)
<1>1. CASE WorkerTop(t) \/ Acquire(t) \/ Check(t) \/ Forward(t)
  <2>1. \E a \in {"top", "gone", "acquire", "check", "pop"} : Goto(t, a)
    BY <1>1 DEF WorkerTop, Acquire, Check, Forward
  <2>2. {"top", "gone", "acquire", "check", "pop"}
           \subseteq Labels \ (LockLabels \union DropLabels \union {"report"})
    BY DEF Labels, LockLabels, DropLabels
  <2>3. Top(t).at \notin ReportedLabels \union {"report"}
    BY <1>1 DEF WorkerTop, Acquire, Check, Forward, At, ReportedLabels
  <2> QED  BY <2>1, <2>2, <2>3, GotoRight
<1>2. CASE PublishDone(t) \/ Drop(t) \/ DropHandle(t)
  <2>1. Goto(t, "release") \/ Goto(t, "push") \/ (Goto(t, "drop_handle") /\ ~FitsQueues)
    BY <1>2 DEF PublishDone, Drop, DropHandle, ThreadHandled, At, DropLabels
  <2>2. /\ {"release", "push"}
             \subseteq (ReportedLabels \intersect Labels) \ (LockLabels \union DropLabels \union {"report"})
        /\ "drop_handle" \in (ReportedLabels \intersect Labels) \ (LockLabels \union {"report"})
    BY DEF Labels, LockLabels, ReportedLabels, DropLabels
  <2> QED  BY <2>1, <2>2, GotoRight
<1> QED  BY <1>1, <1>2

\* The steps that also set a history, a continuation or a number.
LEMMA MadeRight ==
  ASSUME TypeOK, NEW t \in Threads,
         \/ StartDrain(t) \/ JoinDrain(t) \/ TakeContinuation(t)
         \/ CountTasks(t) \/ CountDrainers(t)
  PROVE  \E g : GoesRight(t, g)
<1>0. /\ Top(t) \in Frames /\ Top(t).who \in Threads \union Tasks
      /\ Top(t).at \notin ReportedLabels \union {"report"}
  BY TopType DEF StartDrain, JoinDrain, TakeContinuation, CountTasks, CountDrainers, InCall, At,
                 ReportedLabels
<1>1. {"lock", "help", "report", "count_drainers", "leave_drain"} \subseteq Labels  BY DEF Labels
<1>2. CASE StartDrain(t) \/ JoinDrain(t)
  <2>1. PICK g, a, owed : /\ a \in {"lock", "help"} /\ owed = Accepted
                          /\ g = [Top(t) EXCEPT !.at = a, !.owed = owed] /\ SetTop(t, g)
    BY <1>2 DEF StartDrain, JoinDrain
  <2>2. a \in Labels /\ owed \in SUBSET Tasks  BY <1>1, <2>1 DEF Accepted
  <2>3. g \in Frames /\ g.who = Top(t).who /\ g.at = a  BY <1>0, <2>1, <2>2 DEF Frames
  <2>4. a \notin LockLabels /\ a # "report" /\ a \notin DropLabels
    BY <2>1 DEF LockLabels, DropLabels
  <2> QED  BY <1>0, <2>1, <2>3, <2>4 DEF GoesRight
<1>3. CASE TakeContinuation(t)
  <2>1. PICK g, a, k : /\ a = "report" /\ k = cont[Top(t).who]
                       /\ g = [Top(t) EXCEPT !.next = k, !.at = a]
    OBVIOUS
  <2>2. SetTop(t, g) /\ holder' = t /\ Top(t).who \in Tasks
        /\ cont' = [cont EXCEPT ![Top(t).who] = None]
    BY <1>3, <2>1 DEF TakeContinuation, Finished
  <2>3. k \in Tasks \union {None} /\ a \in Labels  BY <1>1, <2>1, <2>2 DEF TypeOK
  <2>4. g \in Frames /\ g.who = Top(t).who  BY <1>0, <2>1, <2>3 DEF Frames
  <2>5. cont'[Top(t).who] = None  BY <2>2 DEF TypeOK
  <2>6. g.at = "report" /\ g.at \notin DropLabels
    BY <1>0, <2>1, <2>3 DEF Frames, DropLabels
  <2> QED  BY <1>0, <2>2, <2>4, <2>5, <2>6 DEF GoesRight
<1>4. CASE CountTasks(t) \/ CountDrainers(t)
  <2>1. PICK g, a, n : /\ a \in {"count_drainers", "leave_drain", "help"} /\ n \in {inflight, 1}
                       /\ g = [Top(t) EXCEPT !.n = n, !.at = a] /\ SetTop(t, g)
    <3>1. CASE CountTasks(t)
      BY <3>1 DEF CountTasks
    <3>2. CASE CountDrainers(t)
      <4>1. PICK a : a = IF Top(t).n <= draining THEN "leave_drain" ELSE "help"  OBVIOUS
      <4>2. a \in {"count_drainers", "leave_drain", "help"}  BY <4>1
      <4>3. SetTop(t, [Top(t) EXCEPT !.n = 1, !.at = a])  BY <3>2, <4>1 DEF CountDrainers
      <4> QED  BY <4>2, <4>3
    <3> QED  BY <1>4, <3>1, <3>2
  <2>2. a \in Labels /\ n \in Int  BY <1>1, <2>1 DEF TypeOK
  <2>3. g \in Frames /\ g.who = Top(t).who /\ g.at = a  BY <1>0, <2>1, <2>2 DEF Frames
  <2>4. a \notin LockLabels /\ a # "report" /\ a \notin DropLabels
    BY <2>1 DEF LockLabels, DropLabels
  <2> QED  BY <1>0, <2>1, <2>3, <2>4 DEF GoesRight
<1> QED  BY <1>2, <1>3, <1>4

\* A thread that pops is not in a task that has reported, nor is the task popped.
LEMMA PopHandled ==
  ASSUME TypeOK, PoolInv, LevelsRight, HandlesInv, NEW t \in Threads, HandleEffects(t),
         WorkerPop(t) \/ Help(t)
  PROVE  ThreadHandled(t)' /\ FramesHandled(t)'
<1>1. PICK after, empty : /\ Pop(t, after, empty) /\ PopsAt(t, after)
                          /\ empty \in {"forward", "count_tasks"}
  BY DEF WorkerPop, Help, PopsAt
<1>2. program' = program /\ done' = done  BY DEF WorkerPop, Help, handles
<1>3. /\ Top(t).at \in {"pop", "help"} /\ after \in {"top", "help"} /\ after \in Labels
      /\ Top(t) \in Frames /\ Top(t) = stack[t][1] /\ 1 \in DOMAIN stack[t]
      /\ Top(t).at \notin ReportedLabels \union LockLabels \union {"report"}
  BY <1>1, PopLabels, TopType DEF PopsAt, At, ReportedLabels, LockLabels
<1>4. PICK l : l = Top(t).n  OBVIOUS
<1>5. l \in Levels  BY <1>3, <1>4 DEF LevelsRight
<1>6. FramesHandled(t)  BY DEF HandlesInv
<1>7. CASE Poppable(l)
  <2>1. PICK k : k = Head(queue[l]).item  OBVIOUS
  <2>2. Pushes(t, k, after)  BY <1>1, <1>4, <1>7, <2>1 DEF Pop, Pushes
  <2>3. k \in Tasks /\ Queues(k)
    <3>1. PICK s : s = queue[l]  OBVIOUS
    <3>2. s \in Seq(Items) /\ s # << >>  BY <1>5, <1>7, <3>1 DEF TypeOK, Poppable, Items
    <3>3. Head(s) \in Items /\ Head(s) = s[1] /\ 1 \in DOMAIN s  BY <3>2
    <3> QED  BY <1>5, <2>1, <3>1, <3>3 DEF Items, Queues
  <2>4. done[k] # "ran"
    <3>1. In(k, "queue") /\ "queue" \in Places /\ "queue" # "stack"
      BY <2>3, PlaceNames DEF Places
    <3>2. runs[k] = 0  BY <2>3, <3>1 DEF PoolInv, TaskRight, RunsRight
    <3> QED  BY <2>3, <3>2 DEF HandlesInv, TaskHandled
  <2>5. Top(t)' = Frame(k, "call") /\ stack'[t][1] = Frame(k, "call")
    BY <1>3, <2>2, <2>3, PushedFrames
  <2>6. ThreadHandled(t)'
    <3>1. Top(t).at' = "call"  BY <2>5, NewFrame
    <3> QED  BY <3>1 DEF ThreadHandled, At, LockLabels, DropLabels
  <2>7. ASSUME NEW i \in DOMAIN stack'[t], stack'[t][i].who \in Tasks,
               done'[stack'[t][i].who] = "ran"
        PROVE  FALSE
    <3>1. i # 1  BY <1>2, <2>4, <2>5, <2>7, NewFrame
    <3>2. i - 1 \in DOMAIN stack[t] /\ stack'[t][i].who = stack[t][i - 1].who
      BY <1>3, <2>2, <2>3, <3>1, PushedBack
    <3> QED  BY <1>2, <1>3, <1>6, <2>7, <3>2 DEF FramesHandled
  <2>8. FramesHandled(t)'  BY <2>7 DEF FramesHandled
  <2> QED  BY <2>6, <2>8
<1>8. CASE ~Poppable(l)
  <2>1. PICK g : g = IF l < 3 THEN [Top(t) EXCEPT !.n = @ + 1]
                              ELSE [Top(t) EXCEPT !.at = empty, !.n = 1]
    OBVIOUS
  <2>2. SetTop(t, g)  BY <1>1, <1>4, <1>8, <2>1 DEF Pop
  <2>3. g \in Frames /\ g.who = Top(t).who /\ g.at \in {Top(t).at, empty}
    <3>1. CASE l < 3
      <4>1. PICK m : m = l + 1  OBVIOUS
      <4>2. m \in Int  BY <1>5, <4>1 DEF Levels
      <4>3. g = [Top(t) EXCEPT !.n = m]  BY <1>4, <2>1, <3>1, <4>1
      <4> QED  BY <1>3, <4>2, <4>3 DEF Frames
    <3>2. CASE ~(l < 3)
      <4>1. empty \in Labels  BY <1>1 DEF Labels
      <4>2. PICK m : m = 1 /\ m \in Int  OBVIOUS
      <4>3. g = [Top(t) EXCEPT !.at = empty, !.n = m]  BY <2>1, <3>2, <4>2
      <4> QED  BY <1>3, <4>1, <4>2, <4>3 DEF Frames
    <3> QED  BY <3>1, <3>2
  <2>4. g.at \notin LockLabels /\ g.at # "report" /\ g.at \notin DropLabels
    BY <1>1, <1>3, <2>3 DEF LockLabels, DropLabels
  <2>5. GoesRight(t, g)  BY <1>3, <2>2, <2>3, <2>4 DEF GoesRight
  <2> QED  BY <1>2, <2>5, OwnHandled
<1> QED  BY <1>7, <1>8

\* Below a task that leaves the stack is a worker's loop or a task inside drain().
LEMMA LeftHandled ==
  ASSUME TypeOK, PoolInv, HandlesInv, NEW t \in Threads, Finished(t), done' = done,
         stack'[t] = Tail(stack[t])
  PROVE  ThreadHandled(t)' /\ FramesHandled(t)'
<1>1. StacksRight /\ FramesHandled(t) /\ Len(stack[t]) > 1
  BY Completing DEF PoolInv, HandlesInv
<1>2. /\ \A i \in DOMAIN stack'[t] : /\ i \in Nat \ {0} /\ i + 1 \in DOMAIN stack[t]
                                     /\ stack'[t][i] = stack[t][i + 1]
      /\ 1 \in DOMAIN stack'[t] /\ Head(stack'[t]) = stack'[t][1]
  <2>1. PICK s, q : s = stack[t] /\ q = stack'[t]  OBVIOUS
  <2>2. s \in Seq(Frames) /\ Len(s) > 1 /\ q = Tail(s)  BY <1>1, <2>1 DEF TypeOK
  <2>3. /\ \A i \in DOMAIN q : i \in Nat \ {0} /\ i + 1 \in DOMAIN s /\ q[i] = s[i + 1]
        /\ 1 \in DOMAIN q /\ Head(q) = q[1]
    BY <2>2, Popped
  <2> QED  BY <2>1, <2>3
<1>3. ASSUME NEW i \in DOMAIN stack'[t]
      PROVE  /\ stack'[t][i].at \in {"top", "help"}
             /\ ~(stack'[t][i].who \in Tasks /\ done'[stack'[t][i].who] = "ran")
  <2>1. i + 1 \in DOMAIN stack[t] /\ i + 1 > 1 /\ i + 1 # 1 /\ stack'[t][i] = stack[t][i + 1]
    BY <1>2
  <2>2. FrameRight(t, i + 1)  BY <1>1, <2>1 DEF StacksRight
  <2> QED  BY <1>1, <2>1, <2>2 DEF FrameRight, FramesHandled
<1>4. Top(t)' = stack'[t][1]  BY <1>2 DEF Top
<1>5. ThreadHandled(t)'
  <2>1. Top(t).at' \in {"top", "help"}  BY <1>2, <1>3, <1>4
  <2> QED  BY <2>1 DEF ThreadHandled, At, LockLabels, DropLabels
<1>6. FramesHandled(t)'  BY <1>3 DEF FramesHandled
<1> QED  BY <1>5, <1>6

LEMMA ReleaseHandled ==
  ASSUME TypeOK, PoolInv, HandlesInv, NEW t \in Threads, HandleEffects(t),
         Wake(t) \/ (Release(t) /\ inflight' # 0)
  PROVE  ThreadHandled(t)' /\ FramesHandled(t)'
<1>0. DOMAIN stack = Threads  BY DEF TypeOK
<1>1. stack'[t] = Leave(t)[t] /\ program' = program /\ done' = done
  BY <1>0 DEF Wake, Release, handles, Leave
<1>2. CASE Finished(t)
  <2>1. stack'[t] = Tail(stack[t])  BY <1>0, <1>1, <1>2 DEF Leave
  <2> QED  BY <1>1, <1>2, <2>1, LeftHandled
<1>3. CASE ~Finished(t)
  <2>1. stack'[t] = <<NextCall(Top(t))>> \o Tail(stack[t])  BY <1>0, <1>1, <1>3 DEF Leave
  <2>2. PICK g : g = NextCall(Top(t))  OBVIOUS
  <2>3. g \in Frames /\ g.at = "call" /\ g.who = Top(t).who  BY <2>2, TopType, NextCallFrame
  <2>4. PICK s, r : s = stack[t] /\ r = <<g>> \o Tail(s)  OBVIOUS
  <2>5. s \in Seq(Frames) /\ s # << >>  BY <2>4 DEF TypeOK
  <2>6. /\ r \in Seq(Frames) /\ Len(r) = Len(s) /\ r[1] = g /\ Head(r) = g
        /\ \A i \in 2 .. Len(s) : r[i] = s[i]
    BY <2>3, <2>4, <2>5, NewTop
  <2>7. stack'[t] = r  BY <2>1, <2>2, <2>4
  <2>8. ThreadHandled(t)'
    <3>1. Top(t).at' = "call"  BY <2>3, <2>6, <2>7 DEF Top
    <3> QED  BY <3>1 DEF ThreadHandled, At, LockLabels, DropLabels
  <2>9. FramesHandled(t)'
    <3>1. FramesHandled(t) /\ Top(t) = s[1]  BY <2>4, TopType DEF HandlesInv
    <3>2. ASSUME NEW i \in DOMAIN r, r[i].who \in Tasks, done[r[i].who] = "ran"  PROVE FALSE
      <4>1. i \in DOMAIN s /\ (i = 1 \/ i \in 2 .. Len(s))  BY <2>5, <2>6
      <4>2. r[i].who = s[i].who  BY <2>3, <2>6, <3>1, <4>1
      <4> QED  BY <1>3, <2>4, <3>1, <3>2, <4>1, <4>2 DEF FramesHandled
    <3> QED  BY <1>1, <2>7, <3>2 DEF FramesHandled
  <2> QED  BY <2>8, <2>9
<1> QED  BY <1>2, <1>3

LEMMA StepProgram ==
  ASSUME NEW t, Step(t) \/ SpuriousWake(t)
  PROVE  program' = program
<1>1. CASE CallStep(t)
  BY <1>1 DEF CallStep, StartSubmit, Reserve, Register, Push, Publish, Token, Release, Wake, Wait
<1>2. CASE DrainStep(t)
  BY <1>2 DEF DrainStep, StartDrain, Lock, ReadInflight, Sleep, JoinDrain, Help, CountTasks,
              CountDrainers, LeaveDrain
<1>3. CASE ShutdownStep(t) \/ SpuriousWake(t)
  BY <1>3 DEF ShutdownStep, RequestStop, ReleaseAll, Join, SpuriousWake
<1>4. CASE WorkerStep(t)
  BY <1>4 DEF WorkerStep, WorkerTop, Acquire, Check, WorkerPop, Forward, TakeContinuation,
              PublishDone, Drop, DropHandle
<1> QED  BY <1>1, <1>2, <1>3, <1>4 DEF Step

LEMMA HandlesStep ==
  ASSUME PoolInvariant, PoolInvariant', HandlesInv, NEW t \in Threads, Step(t) \/ SpuriousWake(t)
  PROVE  HandlesInv'
<1>0. TypeOK /\ PoolInv /\ LevelsRight /\ TypeOK' /\ PoolInv'  BY DEF PoolInvariant
<1>1. ThreadHandled(t) /\ CallRight(t)  BY <1>0 DEF HandlesInv, PoolInv
<1>2. HandleEffects(t)  BY <1>0, <1>1, CallEffects, OtherEffects DEF Step
<1>3. program' = program  BY StepProgram
<1>4. \A k \in Tasks : TaskHandled(k)'  BY <1>0, <1>2, TasksHandled
<1>5. \A u \in Threads \ {t} : Roused(u)  BY <1>0, OthersRoused
<1>6. \A u \in Threads \ {t} : ThreadHandled(u)' /\ FramesHandled(u)'
  BY <1>0, <1>2, <1>3, <1>5, OthersHandled
<1>7. ThreadHandled(t)' /\ FramesHandled(t)'
  <2>1. CASE \E g : GoesRight(t, g)  BY <1>0, <1>2, <1>3, <2>1, OwnHandled
  <2>2. CASE WorkerPop(t) \/ Help(t)  BY <1>0, <1>2, <2>2, PopHandled
  <2>3. CASE Wake(t) \/ (Release(t) /\ inflight' # 0)  BY <1>0, <1>2, <2>3, ReleaseHandled
  <2>4. CASE CallStep(t)
    BY <1>0, <1>1, <2>1, <2>3, <2>4, CallsGoRight DEF CallStep
  <2>5. CASE DrainStep(t) \/ ShutdownStep(t) \/ SpuriousWake(t)
    BY <1>0, <1>1, <2>1, <2>2, <2>5, DrainsGoRight, MadeRight DEF DrainStep, ShutdownStep
  <2>6. CASE WorkerStep(t)
    BY <1>0, <1>1, <2>1, <2>2, <2>6, WorkersGoRight, MadeRight DEF WorkerStep
  <2> QED  BY <2>4, <2>5, <2>6 DEF Step
<1> QED  BY <1>4, <1>6, <1>7 DEF HandlesInv

HandlesInvariant == PoolInvariant /\ HandlesInv

LEMMA StepKeepsHandles == HandlesInvariant /\ [Next]_vars => HandlesInvariant'
<1> SUFFICES ASSUME PoolInvariant, HandlesInv, [Next]_vars  PROVE HandlesInvariant'
  BY DEF HandlesInvariant
<1>1. PoolInvariant'  BY StepKeepsPool
<1>2. ASSUME Next  PROVE HandlesInv'
  <2>1. PICK t \in Threads : Step(t) \/ SpuriousWake(t)  BY <1>2 DEF Next
  <2> QED  BY <1>1, <2>1, HandlesStep
<1>3. ASSUME UNCHANGED vars  PROVE HandlesInv'
  <2>1. stack' = stack /\ program' = program /\ UNCHANGED <<holder, cont, done, handle, runs>>
    BY <1>3 DEF vars
  <2>2. \A u \in Threads : Top(u)' = Top(u) /\ Finished(u)' = Finished(u)  BY <2>1, OtherThread
  <2>3. \A u \in Threads : ThreadHandled(u)' /\ FramesHandled(u)'
    BY <2>1, <2>2 DEF HandlesInv, ThreadHandled, FramesHandled, At, FitsQueues
  <2>4. \A k \in Tasks : TaskHandled(k)'  BY <2>1 DEF HandlesInv, TaskHandled, FitsQueues
  <2> QED  BY <2>3, <2>4 DEF HandlesInv
<1> QED  BY <1>1, <1>2, <1>3 DEF HandlesInvariant

LEMMA InitHandles == Init => HandlesInvariant
<1> SUFFICES ASSUME Init  PROVE HandlesInvariant
  OBVIOUS
<1>1. PoolInvariant  BY InitPool
<1>2. \A u \in Threads : Top(u).at \in {"top", "call"}
  <2>1. ASSUME NEW u \in Threads  PROVE Top(u).at \in {"top", "call"}
    <3>1. PICK a : a = IF u \in Workers THEN "top" ELSE "call"  OBVIOUS
    <3>2. stack[u] = <<Frame(u, a)>>  BY <3>1 DEF Init
    <3>3. Top(u) = Frame(u, a)  BY <3>2 DEF Top
    <3> QED  BY <3>1, <3>3 DEF Frame
  <2> QED  BY <2>1
<1>3. \A u \in Threads : ThreadHandled(u)  BY <1>2 DEF ThreadHandled, LockLabels, DropLabels, At
<1>4. \A k \in Tasks : done[k] = "no" /\ handle[k] = "none"  BY DEF Init
<1>5. \A u \in Threads : FramesHandled(u)  BY <1>4 DEF FramesHandled
<1>6. \A k \in Tasks : TaskHandled(k)  BY <1>4 DEF TaskHandled
<1> QED  BY <1>1, <1>3, <1>5, <1>6 DEF HandlesInv, HandlesInvariant

\* Nothing is dropped, or has been so far.
NoneDropped == FitsQueues \/ \A k \in Tasks : done[k] # "dropped"

LEMMA HandlesRight ==
  ASSUME HandlesInvariant, NoneDropped
  PROVE  HandleAlive /\ NeverNeither
<1>1. TypeOK /\ PoolInv /\ HandlesInv  BY DEF HandlesInvariant, PoolInvariant
<1>2. \A k \in Tasks : done[k] \in {"no", "ran"}
  BY <1>1 DEF NoneDropped, HandlesInv, TaskHandled, TypeOK
<1>3. NeverNeither  BY <1>1, <1>2 DEF HandlesInv, TaskHandled, NeverNeither
<1>4. ASSUME NEW k \in Tasks, handle[k] = "deleted"
      PROVE  /\ k \notin Queued \union Registered
                        \union Fired({"report", "push", "drop", "drop_handle"})
             /\ cont[k] = None
             /\ \A t \in Threads : \A i \in DOMAIN stack[t] :
                  stack[t][i].who = k => stack[t][i].at \in ReportedLabels
  <2>1. done[k] = "ran" /\ runs[k] = 1 /\ cont[k] = None
    BY <1>1, <1>2, <1>4 DEF HandlesInv, TaskHandled
  <2>2. ~In(k, "queue") /\ ~In(k, "cont") /\ ~In(k, "next")
    BY <1>1, <2>1 DEF PoolInv, TaskRight, RunsRight, Places
  <2>3. k \notin Queued /\ k \notin Registered
    BY <2>2, PlaceNames DEF Queued, Queues, Registered
  <2>4. k \notin Fired({"report", "push", "drop", "drop_handle"})
    <3>1. SUFFICES ASSUME NEW t \in Threads, Finished(t), Top(t).next = k,
                          Top(t).at \in {"report", "push", "drop", "drop_handle"}
                   PROVE  FALSE
      BY DEF Fired, At
    <3>2. Nxt(t) = k  BY <3>1 DEF Nxt
    <3> QED  BY <2>2, <3>2, PlaceNames
  <2>5. ASSUME NEW t \in Threads, NEW i \in DOMAIN stack[t], stack[t][i].who = k
        PROVE  stack[t][i].at \in ReportedLabels
    <3>1. i = 1 /\ Top(t).at \in ReportedLabels
      BY <1>1, <2>1, <2>5 DEF HandlesInv, FramesHandled
    <3> QED  BY <1>1, <3>1, TopType
  <2> QED  BY <2>1, <2>3, <2>4, <2>5
<1>5. HandleAlive  BY <1>4 DEF HandleAlive, ReportedLabels
<1> QED  BY <1>3, <1>5

(***************************************************************************)
(* A handle that its owner may delete is touched by nobody any more, until *)
(* the first continuation is dropped for a full queue, and for ever when   *)
(* there are no more tasks than a queue holds.                             *)
(***************************************************************************)
THEOREM HandlesOutlive == Spec => [](NoneDropped => HandleAlive)
<1>1. HandlesInvariant => (NoneDropped => HandleAlive)  BY HandlesRight
<1> QED  BY <1>1, InitHandles, StepKeepsHandles, PTL DEF Spec

(***************************************************************************)
(* A continuation is never left on a handle that reports done: then() and  *)
(* the completing worker agree on who enqueues it, as long as none is      *)
(* dropped.                                                                *)
(***************************************************************************)
THEOREM HandshakeAgrees == Spec => [](NoneDropped => NeverNeither)
<1>1. HandlesInvariant => (NoneDropped => NeverNeither)  BY HandlesRight
<1> QED  BY <1>1, InitHandles, StepKeepsHandles, PTL DEF Spec

(***************************************************************************)
(* With no more tasks than a queue holds, none is dropped: every task that *)
(* was accepted runs, once, unless a shutdown deletes the queues first.    *)
(***************************************************************************)
THEOREM NothingDropped ==
  Spec => [](FitsQueues =>
               \A k \in Tasks : /\ done[k] # "dropped"
                                /\ up /\ fate[k] = "accepted" /\ k \notin Outstanding => runs[k] = 1)
<1>1. ASSUME HandlesInvariant, FitsQueues, NEW k \in Tasks
      PROVE  /\ done[k] # "dropped"
             /\ up /\ fate[k] = "accepted" /\ k \notin Outstanding => runs[k] = 1
  <2>1. TypeOK /\ PoolInv /\ HandlesInv  BY <1>1 DEF HandlesInvariant, PoolInvariant
  <2>2. done[k] # "dropped"  BY <1>1, <2>1 DEF HandlesInv, TaskHandled
  <2>3. ASSUME up, fate[k] = "accepted", k \notin Outstanding  PROVE runs[k] = 1
    <3>1. ~Out(k)  BY <2>1, <2>3, OutMember DEF PoolInv
    <3>2. ~In(k, "queue") /\ ~In(k, "cont")  BY <3>1, PlaceNames DEF Out
    <3>3. ~In(k, "next")
      <4>1. SUFFICES ASSUME NEW t \in Threads, Nxt(t) = k  PROVE FALSE
        BY PlaceNames
      <4>2. At(t, "drop_handle")  BY <3>1, <4>1 DEF Out
      <4> QED  BY <1>1, <2>1, <4>2 DEF HandlesInv, ThreadHandled, DropLabels, At
    <3>4. NotLost(k)  BY <2>1 DEF PoolInv, TaskRight
    <3> QED  BY <2>2, <2>3, <3>2, <3>3, <3>4 DEF NotLost, Known
  <2> QED  BY <2>2, <2>3
<1>2. HandlesInvariant =>
        (FitsQueues =>
           \A k \in Tasks : /\ done[k] # "dropped"
                            /\ up /\ fate[k] = "accepted" /\ k \notin Outstanding => runs[k] = 1)
  BY <1>1
<1> QED  BY <1>2, InitHandles, StepKeepsHandles, PTL DEF Spec
=============================================================================
