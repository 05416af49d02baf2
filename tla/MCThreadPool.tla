---------------------------- MODULE MCThreadPool ----------------------------
(***************************************************************************)
(* One worker or two, and queues of one place, so that they fill up.       *)
(***************************************************************************)
EXTENDS ThreadPool, TLC

CONSTANTS main, client, a, b, c, x, y

Sub(k) == [op |-> "submit", task |-> k]
Det(k) == [op |-> "detach", task |-> k]
Then(d, k) == [op |-> "then", dep |-> d, task |-> k]
WaitFor(k) == [op |-> "wait", task |-> k]
Drain == [op |-> "drain"]
Shutdown == [op |-> "shutdown"]

Prog(p) == [w \in Users \union Tasks |-> IF w \in DOMAIN p THEN p[w] ELSE << >>]

MCPriority == [k \in Tasks |-> IF k = y THEN 1 ELSE IF k = c THEN 3 ELSE 2]

\* A second then() on one handle, and a continuation that is dropped when a
\* has filled the queue.
Chain ==
  Prog(main :> <<Sub(a), Then(a, b), Then(a, y), WaitFor(b), WaitFor(a), Shutdown>> @@ a :> <<Det(x)>>)

\* Tasks that drain, a child with another priority, and a call after shutdown.
Nested ==
  Prog(main :> <<Sub(a), Det(c), Shutdown, Sub(y), WaitFor(y), WaitFor(a)>>
         @@ a :> <<Det(x), Drain>> @@ c :> <<Drain>>)

\* Two threads that submit and drain.
TwoUsers ==
  Prog(main :> <<Sub(a), Then(a, b), Drain, WaitFor(b)>> @@ client :> <<Det(x), Drain>>)

MCPrograms == {Chain, Nested, TwoUsers}

\* A chain of three whose middle task is dropped.
MCLongChain ==
  {Prog(main :> <<Sub(a), Then(a, b), Then(b, c), WaitFor(c)>> @@ client :> <<Det(x)>>)}

\* x drains while its continuation b comes into the queue; y overtakes b and drains too.
MCLateDrainer ==
  {Prog(main :> <<Det(x), Sub(a), Then(a, b)>> @@ client :> <<Det(y)>>
          @@ x :> <<Drain>> @@ y :> <<Drain>>)}

\* A task that submits a child and helps to run it.
MCHelper == {Prog(main :> <<Det(a), Drain>> @@ a :> <<Det(b), Drain>>)}

\* A submission that races shutdown().
MCLateSubmit == {Prog(main :> <<Shutdown>> @@ client :> <<Sub(a)>>)}
=============================================================================
