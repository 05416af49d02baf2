------------------------------ MODULE PagePool ------------------------------
(***************************************************************************)
(* The pool of 64 KB pages of src/cflat/core/page_pool.cb: a stack without *)
(* locks whose links lie in the free pages themselves, a tag in the word   *)
(* that names its head, and an approximate count that limits its size.     *)
(*                                                                         *)
(* Of the contents of a page the model keeps the first 8 bytes, link, and  *)
(* whether the rest is zero.  What owns a page, and whether it is mapped,  *)
(* is kept in place.  A step is one access to shared memory.               *)
(***************************************************************************)
EXTENDS Integers, FiniteSets

CONSTANTS
  Pages,       \* the addresses that vmem_alloc may return
  Threads,
  Cap,         \* _CAP: the depth from which release() unmaps
  TagMod,      \* the tag counts modulo this; 2^17 in the code
  Nil, Junk    \* the null pointer; what a user wrote over a link

ASSUME SizeAssumption == Cap \in Nat /\ TagMod \in Nat \ {0, 1}
ASSUME PageAssumption == IsFiniteSet(Pages) /\ Nil \notin Pages /\ Junk \notin Pages /\ Nil # Junk
ASSUME ThreadAssumption == IsFiniteSet(Threads) /\ Threads # {} /\ Threads \cap {"os", "pool"} = {}

VARIABLES
  top,         \* _top, decoded: [page, tag]
  depth,       \* _depth
  link,        \* link[p]: the first 8 bytes of page p
  zero,        \* zero[p]: are the other bytes zero?
  place,       \* place[p]: "os", "pool", or the thread that holds the page
  th,          \* th[t]: where thread t is, and its locals
  faulted      \* a thread has accessed an unmapped page: the process is gone

vars == <<top, depth, link, zero, place, th, faulted>>

Idle == [pc |-> "idle", page |-> Nil, old |-> [page |-> Nil, tag |-> 0], next |-> Nil]

Init ==
  /\ top = [page |-> Nil, tag |-> 0]
  /\ depth = 0
  /\ link = [p \in Pages |-> Nil]
  /\ zero = [p \in Pages |-> TRUE]
  /\ place = [p \in Pages |-> "os"]
  /\ th = [t \in Threads |-> Idle]
  /\ faulted = FALSE

At(t, pc) == ~faulted /\ th[t].pc = pc
Go(t, pc) == th' = [th EXCEPT ![t] = [@ EXCEPT !.pc = pc]]

\* _encode: the new head under the next tag.
Tagged(page, old) == [page |-> page, tag |-> (old.tag + 1) % TagMod]

\* The code's assumption on its tag (page_pool.cb:35): while a thread is
\* between its load of _top and its CAS, the tag does not come round again.
Window == {"read_link", "pop", "write_link", "push"}
NoWrap(t) == \A u \in Threads \ {t} :
  th[u].pc \in Window => (top.tag - th[u].old.tag) % TagMod # TagMod - 1

----------------------------------------------------------------------------
(* acquire() *)

Acquire(t) ==
  /\ At(t, "idle")
  /\ Go(t, "load")
  /\ UNCHANGED <<top, depth, link, zero, place, faulted>>

Load(t) ==
  /\ At(t, "load")
  /\ th' = [th EXCEPT ![t] = [@ EXCEPT !.pc = IF top.page = Nil THEN "map" ELSE "read_link", !.old = top]]
  /\ UNCHANGED <<top, depth, link, zero, place, faulted>>

\* The head may have left the pool since the load, and may even be unmapped.
ReadLink(t) ==
  LET head == th[t].old.page
  IN  /\ At(t, "read_link")
      /\ faulted' = (place[head] = "os")
      /\ th' = [th EXCEPT ![t] = [@ EXCEPT !.pc = "pop", !.next = link[head]]]
      /\ UNCHANGED <<top, depth, link, zero, place>>

\* A bug: the CAS compares the page but not its tag.
PopUntagged(t) ==
  LET head == th[t].old.page
  IN  /\ At(t, "pop") /\ NoWrap(t)
      /\ IF top.page = head
         THEN /\ top' = Tagged(th[t].next, th[t].old)
              /\ place' = [place EXCEPT ![head] = t]
              /\ th' = [th EXCEPT ![t] = [Idle EXCEPT !.pc = "count_down", !.page = head]]
         ELSE /\ th' = [th EXCEPT ![t] = [Idle EXCEPT !.pc = "load"]]
              /\ UNCHANGED <<top, place>>
      /\ UNCHANGED <<depth, link, zero, faulted>>

Pop(t) ==
  LET head == th[t].old.page
  IN  /\ At(t, "pop")
      /\ IF top = th[t].old
         THEN /\ NoWrap(t)
              /\ top' = Tagged(th[t].next, th[t].old)
              /\ place' = [place EXCEPT ![head] = t]
              /\ th' = [th EXCEPT ![t] = [Idle EXCEPT !.pc = "count_down", !.page = head]]
         ELSE /\ th' = [th EXCEPT ![t] = [Idle EXCEPT !.pc = "load"]]
              /\ UNCHANGED <<top, place>>
      /\ UNCHANGED <<depth, link, zero, faulted>>

CountDown(t) ==
  /\ At(t, "count_down")
  /\ depth' = depth - 1
  /\ Go(t, "clear")
  /\ UNCHANGED <<top, link, zero, place, faulted>>

\* A bug: the link is left in the page.
ClearNothing(t) ==
  /\ At(t, "clear")
  /\ Go(t, "acquired")
  /\ UNCHANGED <<top, depth, link, zero, place, faulted>>

Clear(t) ==
  /\ At(t, "clear")
  /\ link' = [link EXCEPT ![th[t].page] = Nil]
  /\ Go(t, "acquired")
  /\ UNCHANGED <<top, depth, zero, place, faulted>>

\* vmem_alloc: any address that is not mapped, also one used before.
Map(t) ==
  /\ At(t, "map")
  /\ \E p \in Pages :
       /\ place[p] = "os"
       /\ place' = [place EXCEPT ![p] = t]
       /\ link' = [link EXCEPT ![p] = Nil]
       /\ zero' = [zero EXCEPT ![p] = TRUE]
       /\ th' = [th EXCEPT ![t] = [Idle EXCEPT !.pc = "acquired", !.page = p]]
  /\ UNCHANGED <<top, depth, faulted>>

\* The caller has its page; it writes all over it.
Use(t) ==
  /\ At(t, "acquired")
  /\ link' = [link EXCEPT ![th[t].page] = Junk]
  /\ zero' = [zero EXCEPT ![th[t].page] = FALSE]
  /\ th' = [th EXCEPT ![t] = Idle]
  /\ UNCHANGED <<top, depth, place, faulted>>

----------------------------------------------------------------------------
(* release() of a page that the thread holds *)

\* A bug: the depth is not compared with the cap.
ReleaseUncapped(t) ==
  /\ At(t, "idle")
  /\ \E p \in Pages :
       /\ place[p] = t
       /\ th' = [th EXCEPT ![t] = [@ EXCEPT !.pc = "wipe", !.page = p]]
  /\ UNCHANGED <<top, depth, link, zero, place, faulted>>

Release(t) ==
  /\ At(t, "idle")
  /\ \E p \in Pages :
       /\ place[p] = t
       /\ th' = [th EXCEPT ![t] = [@ EXCEPT !.pc = IF depth >= Cap THEN "unmap" ELSE "wipe", !.page = p]]
  /\ UNCHANGED <<top, depth, link, zero, place, faulted>>

Unmap(t) ==
  /\ At(t, "unmap")
  /\ place' = [place EXCEPT ![th[t].page] = "os"]
  /\ th' = [th EXCEPT ![t] = Idle]
  /\ UNCHANGED <<top, depth, link, zero, faulted>>

Wipe(t) ==
  LET p == th[t].page
  IN  /\ At(t, "wipe")
      /\ zero' = [zero EXCEPT ![p] = TRUE]
      /\ link' = [link EXCEPT ![p] = Nil]
      /\ Go(t, "load_push")
      /\ UNCHANGED <<top, depth, place, faulted>>

LoadPush(t) ==
  /\ At(t, "load_push")
  /\ th' = [th EXCEPT ![t] = [@ EXCEPT !.pc = "write_link", !.old = top]]
  /\ UNCHANGED <<top, depth, link, zero, place, faulted>>

WriteLink(t) ==
  /\ At(t, "write_link")
  /\ link' = [link EXCEPT ![th[t].page] = th[t].old.page]
  /\ Go(t, "push")
  /\ UNCHANGED <<top, depth, zero, place, faulted>>

Push(t) ==
  LET p == th[t].page
  IN  /\ At(t, "push")
      /\ IF top = th[t].old
         THEN /\ NoWrap(t)
              /\ top' = Tagged(p, th[t].old)
              /\ place' = [place EXCEPT ![p] = "pool"]
              /\ th' = [th EXCEPT ![t] = [Idle EXCEPT !.pc = "count_up"]]
         ELSE /\ Go(t, "load_push")
              /\ UNCHANGED <<top, place>>
      /\ UNCHANGED <<depth, link, zero, faulted>>

CountUp(t) ==
  /\ At(t, "count_up")
  /\ depth' = depth + 1
  /\ th' = [th EXCEPT ![t] = Idle]
  /\ UNCHANGED <<top, link, zero, place, faulted>>

----------------------------------------------------------------------------
\* The free pages, and those among all pages that the links lead to from p.
Pool == {p \in Pages : place[p] = "pool"}
Closed(p, S) == {p} \cap Pages \subseteq S /\ \A q \in S : link[q] \in Pages => link[q] \in S
Chain(p) == {q \in Pages : \A S \in SUBSET Pages : Closed(p, S) => q \in S}

\* cleanup(): nobody uses the pool, and every page on the stack is unmapped.
Cleanup ==
  /\ \A t \in Threads : At(t, "idle")
  /\ top' = [page |-> Nil, tag |-> 0]
  /\ depth' = 0
  /\ place' = [p \in Pages |-> IF p \in Chain(top.page) THEN "os" ELSE place[p]]
  /\ UNCHANGED <<link, zero, th, faulted>>

Step(t) ==
  \/ Acquire(t) \/ Load(t) \/ ReadLink(t) \/ Pop(t) \/ CountDown(t) \/ Clear(t) \/ Map(t) \/ Use(t)
  \/ Release(t) \/ Unmap(t) \/ Wipe(t) \/ LoadPush(t) \/ WriteLink(t) \/ Push(t) \/ CountUp(t)

Next == Cleanup \/ \E t \in Threads : Step(t)
Spec == Init /\ [][Next]_vars

----------------------------------------------------------------------------
(* Properties. *)

PCs == {"idle", "load", "read_link", "pop", "count_down", "clear", "map", "acquired", "unmap",
        "wipe", "load_push", "write_link", "push", "count_up"}
Heads == [page : Pages \union {Nil}, tag : 0 .. TagMod - 1]
Locals == [pc : PCs, page : Pages \union {Nil}, old : Heads, next : Pages \union {Nil, Junk}]

TypeOK ==
  /\ top \in Heads
  /\ depth \in Int
  /\ link \in [Pages -> Pages \union {Nil, Junk}]
  /\ zero \in [Pages -> BOOLEAN]
  /\ place \in [Pages -> {"os", "pool"} \union Threads]
  /\ th \in [Threads -> Locals]
  /\ faulted \in BOOLEAN

\* The links of the free pages form one stack: from the head they lead to
\* exactly the pages that were released to the pool and not taken again, no
\* two of them to the same page and none back to the head.  Whatever a pop
\* read from a page that other threads took, used, released or unmapped
\* meanwhile, no page is handed out twice, lost, or found behind one that a
\* thread holds (page_pool.cb:71-99, :119-135).
StackRight ==
  /\ top.page \in Pool \union {Nil} /\ Chain(top.page) = Pool
  /\ \A p \in Pool :
       /\ link[p] \in Pool \union {Nil}
       /\ link[p] = top.page => link[p] = Nil
       /\ \A q \in Pool : link[p] = link[q] => p = q \/ link[p] = Nil

\* acquire() returns a page of zeros that is mapped and belongs to the caller,
\* from the stack as from the system (page_pool.cb:69-70, :89-91).
AcquiredZeroed == \A t \in Threads : th[t].pc = "acquired" =>
  link[th[t].page] = Nil /\ zero[th[t].page] /\ place[th[t].page] = t

\* The cap is soft by less than the number of threads: each of them can pass
\* the check before the others have counted their pages, and none can do so
\* twice.  With nobody inside, the count is exact (page_pool.cb:43-44, :107-110).
CacheBounded ==
  /\ Cardinality(Pool) <= Cap + Cardinality(Threads) - 1
  /\ (\A t \in Threads : th[t].pc = "idle") => depth = Cardinality(Pool)

\* acquire() and release() are thread-safe: no thread reads a page that is not
\* mapped (page_pool.cb:69, :101).
NoFault == ~faulted
=============================================================================
