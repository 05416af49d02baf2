--------------------------- MODULE PagePoolProofs ---------------------------
(***************************************************************************)
(* Proofs about PagePool, for every set of pages and of threads, every cap *)
(* and every width of the tag.                                             *)
(***************************************************************************)
EXTENDS PagePool, FiniteSetTheorems, TLAPS

\* One change of the head does not bring back a tag that is not about to wrap.
LEMMA NextTag ==
  ASSUME NEW a \in 0 .. TagMod - 1, NEW b \in 0 .. TagMod - 1, (a - b) % TagMod # TagMod - 1
  PROVE  (a + 1) % TagMod \in 0 .. TagMod - 1 /\ (a + 1) % TagMod # b
<1>0. TagMod \in Nat /\ TagMod >= 2  BY SizeAssumption
<1>1. CASE a >= b
  <2>1. (a - b) % TagMod = a - b  BY <1>0, <1>1, a - b \in 0 .. TagMod - 1
  <2>2. CASE a + 1 < TagMod
    BY <1>0, <1>1, <2>2, (a + 1) % TagMod = a + 1
  <2>3. CASE a + 1 = TagMod
    <3>1. TagMod % TagMod = 0  BY <1>0
    <3> QED  BY <1>0, <2>1, <2>3, <3>1
  <2> QED  BY <2>2, <2>3, <1>0
<1>2. CASE a < b
  <2>1. (a + 1) % TagMod = a + 1  BY <1>0, <1>2
  <2>2. a + 1 = b => (a - b) % TagMod = TagMod - 1
    <3>1. (-1) % TagMod = TagMod - 1  BY <1>0
    <3> QED  BY <1>0, <3>1, a + 1 = b => a - b = -1
  <2> QED  BY <1>0, <1>2, <2>1, <2>2
<1> QED  BY <1>1, <1>2

-----------------------------------------------------------------------------
(***************************************************************************)
(* The inductive invariant.  A thread owns the page it works on; a pop     *)
(* whose CAS will succeed has read the link that is still there; and every *)
(* set of pages that the links lead to from the head holds the whole pool. *)
(***************************************************************************)
Owning == {"count_down", "clear", "acquired", "unmap", "wipe", "load_push", "write_link", "push"}

Held ==
  /\ \A t \in Threads : th[t].pc \in Owning => th[t].page \in Pages /\ place[th[t].page] = t
  /\ \A t \in Threads : th[t].pc \in {"read_link", "pop"} => th[t].old.page \in Pages

Fresh == \A t \in Threads :
  /\ th[t].pc = "pop" /\ th[t].old = top => th[t].next = link[th[t].old.page]
  /\ th[t].pc = "push" => link[th[t].page] = th[t].old.page

Blank ==
  /\ \A p \in Pool : zero[p]
  /\ \A t \in Threads :
       /\ th[t].pc \in Owning \ {"unmap", "wipe"} => zero[th[t].page]
       /\ th[t].pc = "acquired" => link[th[t].page] = Nil

Linked ==
  /\ top.page \in Pool \union {Nil}
  /\ \A p \in Pool :
       /\ link[p] \in Pool \union {Nil}
       /\ link[p] = top.page => link[p] = Nil
       /\ \A q \in Pool : link[p] = link[q] => p = q \/ link[p] = Nil

Reached == \A S \in SUBSET Pages :
  top.page \in S \union {Nil} /\ (\A q \in S \cap Pool : link[q] \in S \union {Nil}) => Pool \subseteq S

PoolInv == TypeOK /\ Held /\ Fresh /\ Blank /\ Linked /\ Reached

LEMMA IdleType ==
  /\ Idle \in Locals
  /\ \A pc \in PCs, p \in Pages \union {Nil} : [Idle EXCEPT !.pc = pc, !.page = p] \in Locals
  /\ \A pc \in PCs : [Idle EXCEPT !.pc = pc] \in Locals
<1>1. [page |-> Nil, tag |-> 0] \in Heads /\ "idle" \in PCs
  BY SizeAssumption DEF Heads, PCs
<1> QED  BY <1>1 DEF Idle, Locals

LEMMA LocalsType ==
  ASSUME NEW r \in Locals
  PROVE  /\ r.pc \in PCs /\ r.page \in Pages \union {Nil} /\ r.old \in Heads
         /\ r.next \in Pages \union {Nil, Junk}
         /\ \A pc \in PCs :
              /\ [r EXCEPT !.pc = pc] \in Locals
              /\ \A p \in Pages : [r EXCEPT !.pc = pc, !.page = p] \in Locals
              /\ \A h \in Heads : [r EXCEPT !.pc = pc, !.old = h] \in Locals
              /\ \A n \in Pages \union {Nil, Junk} : [r EXCEPT !.pc = pc, !.next = n] \in Locals
BY DEF Locals

LEMMA InitPool == Init => PoolInv
<1> SUFFICES ASSUME Init PROVE PoolInv  OBVIOUS
<1>1. [page |-> Nil, tag |-> 0] \in Heads  BY SizeAssumption DEF Heads
<1>2. Pool = {}  BY ThreadAssumption DEF Pool, Init
<1>3. TypeOK
  <2>1. th \in [Threads -> Locals]  BY IdleType DEF Init
  <2>2. top \in Heads /\ depth \in Int  BY <1>1 DEF Init
  <2>6. faulted \in BOOLEAN  BY DEF Init
  <2>3. zero \in [Pages -> BOOLEAN]  BY DEF Init
  <2>4. link \in [Pages -> Pages \union {Nil, Junk}]  BY DEF Init
  <2>5. place \in [Pages -> {"os", "pool"} \union Threads]  BY DEF Init
  <2> QED  BY <2>1, <2>2, <2>3, <2>4, <2>5, <2>6 DEF TypeOK
<1>4. \A t \in Threads : th[t].pc = "idle"  BY DEF Init, Idle
<1>5. Held /\ Fresh  BY <1>4 DEF Held, Fresh, Owning
<1>6. Blank /\ Linked /\ Reached  BY <1>2, <1>4 DEF Blank, Linked, Reached, Owning, Init
<1> QED  BY <1>3, <1>5, <1>6 DEF PoolInv

\* A new head carries a tag of its range.
LEMMA TaggedType ==
  ASSUME NEW p \in Pages \union {Nil}, NEW old \in Heads
  PROVE  Tagged(p, old) \in Heads
<1>1. (old.tag + 1) % TagMod \in 0 .. TagMod - 1  BY SizeAssumption DEF Heads
<1> QED  BY <1>1 DEF Tagged, Heads

\* What the steps do to the stack: a pop takes its head, a push adds one.
LEMMA PopTakesHead ==
  ASSUME PoolInv, NEW t \in Threads, At(t, "pop"), top = th[t].old
  PROVE  /\ top.page \in Pool
         /\ th[t].next = link[top.page]
         /\ th[t].next \in Pool \union {Nil}
<1>1. top.page \in Pages  BY DEF PoolInv, Held, At
<1>2. top.page \in Pool  BY <1>1, PageAssumption DEF PoolInv, Linked
<1> QED  BY <1>2 DEF PoolInv, Fresh, Linked, At

LEMMA TypeStep ==
  ASSUME PoolInv, Next
  PROVE  TypeOK'
<1> USE DEF TypeOK, PoolInv
<1>1. CASE Cleanup
  BY <1>1, SizeAssumption, [page |-> Nil, tag |-> 0] \in Heads DEF Cleanup, Heads
<1>2. ASSUME NEW t \in Threads, Step(t) PROVE TypeOK'
  <2> USE DEF At, Go, PCs
  <2>0. th[t] \in Locals  OBVIOUS
  <2>1. CASE Acquire(t)  BY <2>0, <2>1, LocalsType DEF Acquire
  <2>2. CASE Load(t)  BY <2>0, <2>2, LocalsType DEF Load
  <2>3. CASE ReadLink(t)
    <3>1. th[t].old.page \in Pages  BY <2>3 DEF ReadLink, Held
    <3>2. (place[th[t].old.page] = "os") \in BOOLEAN  OBVIOUS
    <3>3. link[th[t].old.page] \in Pages \union {Nil, Junk}  BY <3>1
    <3>4. th' \in [Threads -> Locals]  BY <2>0, <2>3, <3>3, LocalsType DEF ReadLink
    <3> QED  BY <2>3, <3>2, <3>4 DEF ReadLink
  <2>4. CASE Pop(t)
    <3>1. CASE top = th[t].old
      <4>1. top.page \in Pages /\ th[t].next \in Pages \union {Nil}
        BY <2>4, <3>1, PopTakesHead DEF Pop, Pool
      <4>2. Tagged(th[t].next, th[t].old) \in Heads
        BY <2>0, <4>1, TaggedType, LocalsType
      <4>3. th' \in [Threads -> Locals]
        <5>1. th' = [th EXCEPT ![t] = [Idle EXCEPT !.pc = "count_down", !.page = top.page]]
          BY <2>4, <3>1 DEF Pop
        <5> QED  BY <4>1, <5>1, IdleType
      <4>4. place' \in [Pages -> {"os", "pool"} \union Threads]  BY <2>4, <3>1, <4>1 DEF Pop
      <4> QED  BY <2>4, <3>1, <4>2, <4>3, <4>4 DEF Pop
    <3>2. CASE top # th[t].old  BY <2>4, <3>2, IdleType DEF Pop
    <3> QED  BY <3>1, <3>2
  <2>5. CASE CountDown(t)
    <3>1. th' \in [Threads -> Locals]  BY <2>0, <2>5, LocalsType DEF CountDown
    <3> QED  BY <2>5, <3>1 DEF CountDown
  <2>6. CASE Clear(t)  BY <2>0, <2>6, LocalsType DEF Clear
  <2>7. CASE Map(t)
    <3>1. th' \in [Threads -> Locals]
      <4>1. PICK p \in Pages : th' = [th EXCEPT ![t] = [Idle EXCEPT !.pc = "acquired", !.page = p]]
        BY <2>7 DEF Map
      <4> QED  BY <4>1, IdleType
    <3>2. place' \in [Pages -> {"os", "pool"} \union Threads]  BY <2>7 DEF Map
    <3>3. link' \in [Pages -> Pages \union {Nil, Junk}]  BY <2>7 DEF Map
    <3>4. zero' \in [Pages -> BOOLEAN]  BY <2>7 DEF Map
    <3> QED  BY <2>7, <3>1, <3>2, <3>3, <3>4 DEF Map
  <2>8. CASE Use(t)  BY <2>8, IdleType DEF Use
  <2>9. CASE Release(t)
    <3>1. th' \in [Threads -> Locals]
      <4>1. PICK p \in Pages, pc \in {"unmap", "wipe"} :
              th' = [th EXCEPT ![t] = [@ EXCEPT !.pc = pc, !.page = p]]
        BY <2>9 DEF Release
      <4> QED  BY <2>0, <4>1, LocalsType
    <3> QED  BY <2>9, <3>1 DEF Release
  <2>10. CASE Unmap(t)  BY <2>10, IdleType DEF Unmap
  <2>11. CASE Wipe(t)  BY <2>0, <2>11, LocalsType DEF Wipe
  <2>12. CASE LoadPush(t)  BY <2>0, <2>12, LocalsType DEF LoadPush
  <2>13. CASE WriteLink(t)
    <3>1. th[t].old.page \in Pages \union {Nil}  BY <2>0, LocalsType DEF Heads
    <3> QED  BY <2>0, <2>13, <3>1, LocalsType DEF WriteLink
  <2>14. CASE Push(t)
    <3>1. th[t].page \in Pages  BY <2>14 DEF Push, Held, Owning
    <3>2. Tagged(th[t].page, th[t].old) \in Heads  BY <2>0, <3>1, TaggedType, LocalsType
    <3>3. th' \in [Threads -> Locals]
      <4>1. CASE top = th[t].old  BY <2>14, <4>1, IdleType DEF Push
      <4>2. CASE top # th[t].old
        <5>1. th' = [th EXCEPT ![t] = [@ EXCEPT !.pc = "load_push"]]  BY <2>14, <4>2 DEF Push
        <5> QED  BY <2>0, <5>1, LocalsType
      <4> QED  BY <4>1, <4>2
    <3>4. top' \in Heads  BY <2>14, <3>2 DEF Push
    <3>5. place' \in [Pages -> {"os", "pool"} \union Threads]  BY <2>14, <3>1 DEF Push
    <3> QED  BY <2>14, <3>3, <3>4, <3>5 DEF Push
  <2>15. CASE CountUp(t)
    <3>1. th' \in [Threads -> Locals]  BY <2>15, IdleType DEF CountUp
    <3> QED  BY <2>15, <3>1 DEF CountUp
  <2> QED
    BY <1>2, <2>1, <2>2, <2>3, <2>4, <2>5, <2>6, <2>7, <2>8, <2>9, <2>10, <2>11, <2>12, <2>13,
       <2>14, <2>15 DEF Step
<1> QED  BY <1>1, <1>2 DEF Next

-----------------------------------------------------------------------------
(***************************************************************************)
(* What a step does to the stack: nothing, or its head is popped, or a page *)
(* is pushed.                                                              *)
(***************************************************************************)
SameStack ==
  /\ Pool' = Pool /\ top' = top
  /\ \A p \in Pool : link'[p] = link[p] /\ zero'[p] = zero[p]

Popped(t) ==
  /\ At(t, "pop") /\ top = th[t].old /\ NoWrap(t)
  /\ Pool' = Pool \ {top.page} /\ top' = Tagged(link[top.page], top)
  /\ link' = link /\ zero' = zero

Pushed(t) ==
  /\ At(t, "push") /\ top = th[t].old /\ NoWrap(t)
  /\ Pool' = Pool \union {th[t].page} /\ top' = Tagged(th[t].page, top)
  /\ link' = link /\ zero' = zero

LEMMA StackEffect ==
  ASSUME PoolInv, NEW t \in Threads, Step(t)
  PROVE  SameStack \/ (Pop(t) /\ Popped(t)) \/ (Push(t) /\ Pushed(t))
<1> USE DEF PoolInv, TypeOK, At, Go
<1>0. t # "pool" /\ t # "os"  BY ThreadAssumption
<1>1. CASE Acquire(t)  BY <1>1 DEF Acquire, SameStack, Pool
<1>2. CASE Load(t)  BY <1>2 DEF Load, SameStack, Pool
<1>3. CASE ReadLink(t)  BY <1>3 DEF ReadLink, SameStack, Pool
<1>4. CASE Pop(t)
  <2>1. CASE top = th[t].old
    <3>1. top.page \in Pool /\ th[t].next = link[top.page]
      BY <1>4, <2>1, PopTakesHead DEF Pop
    <3>2. Pool' = Pool \ {top.page}
      BY <1>0, <1>4, <2>1, <3>1 DEF Pop, Pool
    <3> QED  BY <1>4, <2>1, <3>1, <3>2 DEF Pop, Popped
  <2>2. CASE top # th[t].old  BY <1>4, <2>2 DEF Pop, SameStack, Pool
  <2> QED  BY <2>1, <2>2
<1>5. CASE CountDown(t)  BY <1>5 DEF CountDown, SameStack, Pool
<1>6. CASE Clear(t)
  <2>1. th[t].page \in Pages /\ place[th[t].page] = t  BY <1>6 DEF Clear, Held, Owning
  <2> QED  BY <1>0, <1>6, <2>1 DEF Clear, SameStack, Pool
<1>7. CASE Map(t)
  <2>1. PICK p \in Pages :
          /\ place[p] = "os" /\ place' = [place EXCEPT ![p] = t]
          /\ link' = [link EXCEPT ![p] = Nil] /\ zero' = [zero EXCEPT ![p] = TRUE]
    BY <1>7 DEF Map
  <2> QED  BY <1>0, <1>7, <2>1 DEF Map, SameStack, Pool
<1>8. CASE Use(t)
  <2>1. th[t].page \in Pages /\ place[th[t].page] = t  BY <1>8 DEF Use, Held, Owning
  <2> QED  BY <1>0, <1>8, <2>1 DEF Use, SameStack, Pool
<1>9. CASE Release(t)  BY <1>9 DEF Release, SameStack, Pool
<1>10. CASE Unmap(t)
  <2>1. th[t].page \in Pages /\ place[th[t].page] = t  BY <1>10 DEF Unmap, Held, Owning
  <2> QED  BY <1>0, <1>10, <2>1 DEF Unmap, SameStack, Pool
<1>11. CASE Wipe(t)
  <2>1. th[t].page \in Pages /\ place[th[t].page] = t  BY <1>11 DEF Wipe, Held, Owning
  <2> QED  BY <1>0, <1>11, <2>1 DEF Wipe, SameStack, Pool
<1>12. CASE LoadPush(t)  BY <1>12 DEF LoadPush, SameStack, Pool
<1>13. CASE WriteLink(t)
  <2>1. th[t].page \in Pages /\ place[th[t].page] = t  BY <1>13 DEF WriteLink, Held, Owning
  <2> QED  BY <1>0, <1>13, <2>1 DEF WriteLink, SameStack, Pool
<1>14. CASE Push(t)
  <2>0. th[t].page \in Pages  BY <1>14 DEF Push, Held, Owning
  <2>1. CASE top = th[t].old
    <3>1. Pool' = Pool \union {th[t].page}
      BY <1>14, <2>0, <2>1 DEF Push, Pool
    <3> QED  BY <1>14, <2>1, <3>1 DEF Push, Pushed
  <2>2. CASE top # th[t].old  BY <1>14, <2>2 DEF Push, SameStack, Pool
  <2> QED  BY <2>1, <2>2
<1>15. CASE CountUp(t)  BY <1>15 DEF CountUp, SameStack, Pool
<1> QED
  BY <1>1, <1>2, <1>3, <1>4, <1>5, <1>6, <1>7, <1>8, <1>9, <1>10, <1>11, <1>12, <1>13, <1>14,
     <1>15 DEF Step

\* The links of the free pages stay one stack, and all of it stays reachable.
LEMMA StackStep ==
  ASSUME PoolInv, NEW t \in Threads, Step(t)
  PROVE  Linked' /\ Reached'
<1> USE DEF PoolInv, TypeOK
<1>1. CASE SameStack  BY <1>1 DEF SameStack, Linked, Reached
<1>2. CASE Popped(t)
  <2>1. top.page \in Pool /\ link[top.page] \in Pool \union {Nil}
    BY <1>2, PopTakesHead DEF Popped
  <2>2. top'.page = link[top.page]  BY <1>2 DEF Popped, Tagged
  <2>3. Nil \notin Pool  BY PageAssumption DEF Pool
  <2>4. Linked'  BY <1>2, <2>1, <2>2, <2>3 DEF Popped, Linked
  <2>5. Reached'
    <3> SUFFICES ASSUME NEW S \in SUBSET Pages, top'.page \in S \union {Nil},
                        \A q \in S \cap Pool' : link'[q] \in S \union {Nil}
                 PROVE  Pool' \subseteq S
      BY DEF Reached
    <3> DEFINE T == S \union {top.page}
    <3>1. T \in SUBSET Pages  BY <2>1 DEF Pool
    <3>2. \A q \in T \cap Pool : link[q] \in T \union {Nil}
      BY <1>2, <2>2 DEF Popped
    <3>3. Pool \subseteq T  BY <3>1, <3>2 DEF Reached
    <3> QED  BY <1>2, <3>3 DEF Popped
  <2> QED  BY <2>4, <2>5
<1>3. CASE Pushed(t)
  <2>1. /\ th[t].page \in Pages /\ th[t].page \notin Pool
        /\ link[th[t].page] = top.page
    BY <1>3, ThreadAssumption DEF Pushed, Held, Owning, Pool, Fresh, At
  <2>2. top'.page = th[t].page  BY <1>3 DEF Pushed, Tagged
  <2>3. Nil \notin Pool /\ th[t].page # Nil  BY <2>1, PageAssumption DEF Pool
  <2>4. Linked'  BY <1>3, <2>1, <2>2, <2>3 DEF Pushed, Linked
  <2>5. Reached'
    <3> SUFFICES ASSUME NEW S \in SUBSET Pages, top'.page \in S \union {Nil},
                        \A q \in S \cap Pool' : link'[q] \in S \union {Nil}
                 PROVE  Pool' \subseteq S
      BY DEF Reached
    <3>1. th[t].page \in S  BY <2>2, <2>3
    <3>2. top.page \in S \union {Nil}  BY <1>3, <2>1, <3>1 DEF Pushed
    <3>3. \A q \in S \cap Pool : link[q] \in S \union {Nil}  BY <1>3 DEF Pushed
    <3>4. Pool \subseteq S  BY <3>2, <3>3 DEF Reached
    <3> QED  BY <1>3, <3>1, <3>4 DEF Pushed
  <2> QED  BY <2>4, <2>5
<1> QED  BY <1>1, <1>2, <1>3, StackEffect
-----------------------------------------------------------------------------
(***************************************************************************)
(* A step leaves the other threads, and the pages they hold, alone.        *)
(***************************************************************************)
LEMMA OthersAlone ==
  ASSUME PoolInv, NEW t \in Threads, Step(t), NEW u \in Threads, u # t
  PROVE  /\ th'[u] = th[u]
         /\ \A p \in Pages : place[p] = u => /\ place'[p] = u
                                            /\ link'[p] = link[p] /\ zero'[p] = zero[p]
<1> USE DEF PoolInv, TypeOK, At, Go
<1>0. u # "pool" /\ u # "os"  BY ThreadAssumption
<1>1. CASE Acquire(t)  BY <1>0, <1>1 DEF Acquire
<1>2. CASE Load(t)  BY <1>0, <1>2 DEF Load
<1>3. CASE ReadLink(t)  BY <1>0, <1>3 DEF ReadLink
<1>4. CASE Pop(t)
  <2>1. CASE top = th[t].old
    <3>1. top.page \in Pool  BY <1>4, <2>1, PopTakesHead DEF Pop
    <3> QED  BY <1>0, <1>4, <2>1, <3>1 DEF Pop, Pool
  <2>2. CASE top # th[t].old  BY <1>4, <2>2 DEF Pop
  <2> QED  BY <2>1, <2>2
<1>5. CASE CountDown(t)
  <2>1. th[t].page \in Pages /\ place[th[t].page] = t  BY <1>5 DEF CountDown, Held, Owning
  <2> QED  BY <1>0, <1>5, <2>1 DEF CountDown
<1>6. CASE Clear(t)
  <2>1. th[t].page \in Pages /\ place[th[t].page] = t  BY <1>6 DEF Clear, Held, Owning
  <2> QED  BY <1>0, <1>6, <2>1 DEF Clear
<1>7. CASE Map(t)
  <2>1. PICK p \in Pages :
          /\ place[p] = "os" /\ place' = [place EXCEPT ![p] = t]
          /\ link' = [link EXCEPT ![p] = Nil] /\ zero' = [zero EXCEPT ![p] = TRUE]
    BY <1>7 DEF Map
  <2> QED  BY <1>0, <1>7, <2>1 DEF Map
<1>8. CASE Use(t)
  <2>1. th[t].page \in Pages /\ place[th[t].page] = t  BY <1>8 DEF Use, Held, Owning
  <2> QED  BY <1>0, <1>8, <2>1 DEF Use
<1>9. CASE Release(t)  BY <1>0, <1>9 DEF Release
<1>10. CASE Unmap(t)
  <2>1. th[t].page \in Pages /\ place[th[t].page] = t  BY <1>10 DEF Unmap, Held, Owning
  <2> QED  BY <1>0, <1>10, <2>1 DEF Unmap
<1>11. CASE Wipe(t)
  <2>1. th[t].page \in Pages /\ place[th[t].page] = t  BY <1>11 DEF Wipe, Held, Owning
  <2> QED  BY <1>0, <1>11, <2>1 DEF Wipe
<1>12. CASE LoadPush(t)  BY <1>0, <1>12 DEF LoadPush
<1>13. CASE WriteLink(t)
  <2>1. th[t].page \in Pages /\ place[th[t].page] = t  BY <1>13 DEF WriteLink, Held, Owning
  <2> QED  BY <1>0, <1>13, <2>1 DEF WriteLink
<1>14. CASE Push(t)
  <2>1. th[t].page \in Pages /\ place[th[t].page] = t  BY <1>14 DEF Push, Held, Owning
  <2> QED  BY <1>0, <1>14, <2>1 DEF Push
<1>15. CASE CountUp(t)  BY <1>0, <1>15 DEF CountUp
<1> QED
  BY <1>1, <1>2, <1>3, <1>4, <1>5, <1>6, <1>7, <1>8, <1>9, <1>10, <1>11, <1>12, <1>13, <1>14,
     <1>15 DEF Step

\* A changed head is none that another thread in its window has loaded.
LEMMA HeadMoves ==
  ASSUME PoolInv, NEW t \in Threads, NEW u \in Threads, u # t, th[u].pc \in Window,
         Popped(t) \/ Pushed(t)
  PROVE  top' # th[u].old
<1>1. top.tag \in 0 .. TagMod - 1 /\ th[u].old.tag \in 0 .. TagMod - 1
  BY LocalsType DEF PoolInv, TypeOK, Heads
<1>2. (top.tag - th[u].old.tag) % TagMod # TagMod - 1  BY DEF Popped, Pushed, NoWrap
<1>3. (top.tag + 1) % TagMod # th[u].old.tag  BY <1>1, <1>2, NextTag
<1> QED  BY <1>3 DEF Popped, Pushed, Tagged
-----------------------------------------------------------------------------
(***************************************************************************)
(* The part of the invariant that is about one thread.                     *)
(***************************************************************************)
Good(t) ==
  /\ th[t].pc \in Owning => th[t].page \in Pages /\ place[th[t].page] = t
  /\ th[t].pc \in {"read_link", "pop"} => th[t].old.page \in Pages
  /\ th[t].pc = "pop" /\ th[t].old = top => th[t].next = link[th[t].old.page]
  /\ th[t].pc = "push" => link[th[t].page] = th[t].old.page
  /\ th[t].pc \in Owning \ {"unmap", "wipe"} => zero[th[t].page]
  /\ th[t].pc = "acquired" => link[th[t].page] = Nil

LEMMA AllGood == (\A t \in Threads : Good(t)) /\ (\A p \in Pool : zero[p]) <=> Held /\ Fresh /\ Blank
BY DEF Good, Held, Fresh, Blank

LEMMA OwnStep ==
  ASSUME PoolInv, NEW t \in Threads, Step(t)
  PROVE  Good(t)'
<1> USE DEF PoolInv, TypeOK, At, Go
<1>0. Good(t) /\ th[t] \in Locals  BY AllGood
<1>1. CASE Acquire(t)  BY <1>0, <1>1, PageAssumption DEF Acquire, Good, Owning, Locals, Heads
<1>2. CASE Load(t)  BY <1>0, <1>2, PageAssumption DEF Load, Good, Owning, Locals, Heads
<1>3. CASE ReadLink(t)  BY <1>0, <1>3, PageAssumption DEF ReadLink, Good, Owning, Locals, Heads
<1>4. CASE Pop(t)
  <2>1. CASE top = th[t].old
    <3>1. top.page \in Pool  BY <1>4, <2>1, PopTakesHead DEF Pop
    <3>2. zero[top.page] /\ top.page \in Pages  BY <3>1 DEF Blank, Pool
    <3>3. /\ th' = [th EXCEPT ![t] = [Idle EXCEPT !.pc = "count_down", !.page = top.page]]
          /\ place' = [place EXCEPT ![top.page] = t] /\ zero' = zero
      BY <1>4, <2>1 DEF Pop
    <3>4. th'[t].pc = "count_down" /\ th'[t].page = top.page  BY <3>3 DEF Idle
    <3>5. place'[top.page] = t  BY <3>2, <3>3
    <3> QED  BY <3>2, <3>3, <3>4, <3>5 DEF Good, Owning
  <2>2. CASE top # th[t].old
    <3>1. th'[t].pc = "load"  BY <1>4, <2>2 DEF Pop, Idle
    <3> QED  BY <3>1 DEF Good, Owning
  <2> QED  BY <2>1, <2>2
<1>5. CASE CountDown(t)  BY <1>0, <1>5, PageAssumption DEF CountDown, Good, Owning, Locals, Heads
<1>6. CASE Clear(t)  BY <1>0, <1>6, PageAssumption DEF Clear, Good, Owning, Locals, Heads
<1>7. CASE Map(t)
  <2>1. PICK p \in Pages :
          /\ place' = [place EXCEPT ![p] = t]
          /\ link' = [link EXCEPT ![p] = Nil] /\ zero' = [zero EXCEPT ![p] = TRUE]
          /\ th' = [th EXCEPT ![t] = [Idle EXCEPT !.pc = "acquired", !.page = p]]
    BY <1>7 DEF Map
  <2>2. th'[t].pc = "acquired" /\ th'[t].page = p  BY <2>1 DEF Idle
  <2> QED  BY <2>1, <2>2 DEF Good, Owning
<1>8. CASE Use(t)
  <2>1. th'[t].pc = "idle"  BY <1>8 DEF Use, Idle
  <2> QED  BY <2>1 DEF Good, Owning
<1>9. CASE Release(t)
  <2>1. PICK p \in Pages, pc \in {"unmap", "wipe"} :
          /\ place[p] = t /\ place' = place
          /\ th' = [th EXCEPT ![t] = [@ EXCEPT !.pc = pc, !.page = p]]
    BY <1>9 DEF Release
  <2>2. th'[t].pc = pc /\ th'[t].page = p  BY <1>0, <2>1 DEF Locals
  <2> QED  BY <2>1, <2>2 DEF Good, Owning
<1>10. CASE Unmap(t)
  <2>1. th'[t].pc = "idle"  BY <1>10 DEF Unmap, Idle
  <2> QED  BY <2>1 DEF Good, Owning
<1>11. CASE Wipe(t)  BY <1>0, <1>11, PageAssumption DEF Wipe, Good, Owning, Locals, Heads
<1>12. CASE LoadPush(t)  BY <1>0, <1>12, PageAssumption DEF LoadPush, Good, Owning, Locals, Heads
<1>13. CASE WriteLink(t)  BY <1>0, <1>13, PageAssumption DEF WriteLink, Good, Owning, Locals, Heads
<1>14. CASE Push(t)
  <2>1. CASE top = th[t].old
    <3>1. th'[t].pc = "count_up"  BY <1>14, <2>1 DEF Push, Idle
    <3> QED  BY <3>1 DEF Good, Owning
  <2>2. CASE top # th[t].old
    <3>1. /\ th' = [th EXCEPT ![t] = [@ EXCEPT !.pc = "load_push"]]
          /\ place' = place /\ zero' = zero /\ link' = link
      BY <1>14, <2>2 DEF Push
    <3>2. th'[t].pc = "load_push" /\ th'[t].page = th[t].page  BY <1>0, <3>1 DEF Locals
    <3>3. th[t].pc = "push"  BY <1>14 DEF Push
    <3> QED  BY <1>0, <3>1, <3>2, <3>3 DEF Good, Owning
  <2> QED  BY <2>1, <2>2
<1>15. CASE CountUp(t)
  <2>1. th'[t].pc = "idle"  BY <1>15 DEF CountUp, Idle
  <2> QED  BY <2>1 DEF Good, Owning
<1> QED
  BY <1>1, <1>2, <1>3, <1>4, <1>5, <1>6, <1>7, <1>8, <1>9, <1>10, <1>11, <1>12, <1>13, <1>14,
     <1>15 DEF Step

LEMMA OtherStep ==
  ASSUME PoolInv, NEW t \in Threads, Step(t), NEW u \in Threads, u # t
  PROVE  Good(u)'
<1>1. Good(u)  BY AllGood DEF PoolInv
<1>2. /\ th'[u] = th[u]
      /\ \A p \in Pages : place[p] = u => /\ place'[p] = u
                                         /\ link'[p] = link[p] /\ zero'[p] = zero[p]
  BY OthersAlone
<1>3. ASSUME th[u].pc = "pop", th[u].old = top' PROVE th[u].next = link'[th[u].old.page]
  <2>1. ~Popped(t) /\ ~Pushed(t)  BY <1>3, HeadMoves DEF Window
  <2>2. SameStack  BY <2>1, StackEffect
  <2>3. top.page \in Pages /\ th[u].old = top  BY <1>1, <1>3, <2>2 DEF Good, SameStack
  <2>4. top.page \in Pool  BY <2>3, PageAssumption DEF PoolInv, Linked
  <2> QED  BY <1>1, <1>3, <2>2, <2>3, <2>4 DEF Good, SameStack
<1> QED  BY <1>1, <1>2, <1>3 DEF Good, Owning

\* cleanup() leaves an empty pool: everything on the stack is reached.
LEMMA ChainIsPool == PoolInv => Chain(top.page) = Pool
<1> SUFFICES ASSUME PoolInv PROVE Chain(top.page) = Pool  OBVIOUS
<1>0. Nil \notin Pages  BY PageAssumption
<1>1. Chain(top.page) \subseteq Pool
  <2>1. Pool \in SUBSET Pages  BY DEF Pool
  <2>2. Closed(top.page, Pool)  BY <1>0, <2>1 DEF PoolInv, Linked, Closed
  <2> QED  BY <2>1, <2>2 DEF Chain
<1>2. ASSUME NEW q \in Pool, NEW S \in SUBSET Pages, Closed(top.page, S) PROVE q \in S
  <2>1. top.page \in S \union {Nil}  BY <1>2 DEF Closed, PoolInv, TypeOK, Heads
  <2>2. \A p \in S \cap Pool : link[p] \in S \union {Nil}
    BY <1>2 DEF Closed, PoolInv, Linked, Pool
  <2> QED  BY <1>2, <2>1, <2>2 DEF PoolInv, Reached
<1>3. Pool \subseteq Chain(top.page)  BY <1>2 DEF Chain, Pool
<1> QED  BY <1>1, <1>3

LEMMA CleanupStep ==
  ASSUME PoolInv, Cleanup
  PROVE  Held' /\ Fresh' /\ Blank' /\ Linked' /\ Reached' /\ Pool' = {}
<1>1. \A t \in Threads : th'[t].pc = "idle"  BY DEF Cleanup, At
<1>2. Pool' = {}
  <2>1. place' = [p \in Pages |-> IF p \in Pool THEN "os" ELSE place[p]]
    BY ChainIsPool DEF Cleanup
  <2> QED  BY <2>1 DEF Pool
<1>3. top'.page = Nil  BY DEF Cleanup
<1> QED  BY <1>1, <1>2, <1>3 DEF Held, Fresh, Blank, Linked, Reached, Owning

LEMMA PoolInvInductive == PoolInv /\ [Next]_vars => PoolInv'
<1> SUFFICES ASSUME PoolInv, [Next]_vars PROVE PoolInv'  OBVIOUS
<1>1. CASE Cleanup
  <2>1. TypeOK'  BY <1>1, TypeStep DEF Next
  <2> QED  BY <1>1, <2>1, CleanupStep DEF PoolInv
<1>2. ASSUME NEW t \in Threads, Step(t) PROVE PoolInv'
  <2>1. TypeOK'  BY <1>2, TypeStep DEF Next
  <2>2. Linked' /\ Reached'  BY <1>2, StackStep
  <2>3. \A u \in Threads : Good(u)'  BY <1>2, OwnStep, OtherStep
  <2>4. \A p \in Pool' : zero'[p]
    <3>1. CASE SameStack  BY <3>1 DEF SameStack, PoolInv, Blank
    <3>2. CASE Popped(t)  BY <3>2 DEF Popped, PoolInv, Blank
    <3>3. CASE Pushed(t)
      <4>1. zero[th[t].page]  BY <3>3 DEF Pushed, PoolInv, Blank, Owning, At
      <4> QED  BY <3>3, <4>1 DEF Pushed, PoolInv, Blank
    <3> QED  BY <1>2, <3>1, <3>2, <3>3, StackEffect
  <2>5. (Held /\ Fresh /\ Blank)'
    BY <2>3, <2>4 DEF Good, Held, Fresh, Blank
  <2> QED  BY <2>1, <2>2, <2>5 DEF PoolInv
<1>3. CASE UNCHANGED vars
  BY <1>3 DEF vars, PoolInv, TypeOK, Held, Fresh, Blank, Linked, Reached, Pool
<1> QED  BY <1>1, <1>2, <1>3 DEF Next

\* Every reachable state of the pool satisfies the inductive invariant.
THEOREM PoolCorrect == Spec => []PoolInv
BY InitPool, PoolInvInductive, PTL DEF Spec

\* The free pages form one stack from which nothing is lost or taken twice.
THEOREM StackIsRight == Spec => []StackRight
<1>1. PoolInv => StackRight
  BY ChainIsPool DEF PoolInv, Linked, StackRight
<1> QED  BY <1>1, PoolCorrect, PTL

\* acquire() returns a page of zeros that nobody else holds.
THEOREM AcquiredIsZeroed == Spec => []AcquiredZeroed
<1>1. PoolInv => AcquiredZeroed
  BY DEF PoolInv, Held, Blank, Owning, AcquiredZeroed
<1> QED  BY <1>1, PoolCorrect, PTL

-----------------------------------------------------------------------------
(***************************************************************************)
(* The soft cap.  depth is the size of the stack less the pushes and plus  *)
(* the pops that are not counted yet; a thread that has passed the check   *)
(* is one page to come.                                                    *)
(***************************************************************************)
Passed == {t \in Threads : th[t].pc \in {"wipe", "load_push", "write_link", "push"}}
Pushes == {t \in Threads : th[t].pc = "count_up"}
Pops == {t \in Threads : th[t].pc = "count_down"}

CountInv ==
  /\ depth = Cardinality(Pool) - Cardinality(Pushes) + Cardinality(Pops)
  /\ Cardinality(Pool) + Cardinality(Passed) <= Cap + Cardinality(Threads) - 1

LEMMA Finite ==
  /\ IsFiniteSet(Pool) /\ Cardinality(Pool) \in Nat
  /\ IsFiniteSet(Passed) /\ Cardinality(Passed) \in Nat
  /\ IsFiniteSet(Pushes) /\ Cardinality(Pushes) \in Nat
  /\ IsFiniteSet(Pops) /\ Cardinality(Pops) \in Nat
  /\ Cardinality(Threads) \in Nat /\ Cardinality(Threads) >= 1
<1>1. IsFiniteSet(Pool)  BY PageAssumption, FS_Subset, Pool \in SUBSET Pages DEF Pool
<1>2. IsFiniteSet(Passed)  BY ThreadAssumption, FS_Subset, Passed \in SUBSET Threads DEF Passed
<1>3. IsFiniteSet(Pushes)  BY ThreadAssumption, FS_Subset, Pushes \in SUBSET Threads DEF Pushes
<1>4. IsFiniteSet(Pops)  BY ThreadAssumption, FS_Subset, Pops \in SUBSET Threads DEF Pops
<1>5. Cardinality(Threads) # 0 /\ Cardinality(Threads) \in Nat
  BY ThreadAssumption, FS_EmptySet, FS_CardinalityType
<1> QED  BY <1>1, <1>2, <1>3, <1>4, <1>5, FS_CardinalityType

\* A thread that has neither passed the check nor a push to count is one less
\* of those that have.
LEMMA RoomForOne ==
  ASSUME NEW t \in Threads, t \notin Passed, t \notin Pushes
  PROVE  Cardinality(Passed) + Cardinality(Pushes) <= Cardinality(Threads) - 1
<1>1. Passed \cap Pushes = {}  BY DEF Passed, Pushes
<1>2. Cardinality(Passed \union Pushes) = Cardinality(Passed) + Cardinality(Pushes)
  <2>1. Cardinality(Passed \union Pushes)
          = Cardinality(Passed) + Cardinality(Pushes) - Cardinality(Passed \cap Pushes)
    BY Finite, FS_Union
  <2>2. Cardinality(Passed \cap Pushes) = 0  BY <1>1, FS_EmptySet
  <2> QED  BY <2>1, <2>2, Finite
<1>3. Passed \union Pushes \in SUBSET (Threads \ {t})  BY DEF Passed, Pushes
<1>4. IsFiniteSet(Threads \ {t}) /\ Cardinality(Threads \ {t}) = Cardinality(Threads) - 1
  BY ThreadAssumption, FS_RemoveElement
<1>5. Cardinality(Passed \union Pushes) <= Cardinality(Threads \ {t})
  BY <1>3, <1>4, FS_Subset
<1> QED  BY <1>2, <1>4, <1>5, Finite

\* How the three sets change when only thread t moves.
LEMMA Movement ==
  ASSUME NEW t \in Threads, th' \in [Threads -> Locals],
         \A u \in Threads \ {t} : th'[u] = th[u]
  PROVE  /\ Passed' = IF th'[t].pc \in {"wipe", "load_push", "write_link", "push"}
                      THEN Passed \union {t} ELSE Passed \ {t}
         /\ Pushes' = IF th'[t].pc = "count_up" THEN Pushes \union {t} ELSE Pushes \ {t}
         /\ Pops' = IF th'[t].pc = "count_down" THEN Pops \union {t} ELSE Pops \ {t}
<1>1. Passed' = IF th'[t].pc \in {"wipe", "load_push", "write_link", "push"}
                THEN Passed \union {t} ELSE Passed \ {t}
  BY DEF Passed
<1>2. Pushes' = IF th'[t].pc = "count_up" THEN Pushes \union {t} ELSE Pushes \ {t}
  BY DEF Pushes
<1>3. Pops' = IF th'[t].pc = "count_down" THEN Pops \union {t} ELSE Pops \ {t}
  BY DEF Pops
<1> QED  BY <1>1, <1>2, <1>3

CountsOn(n) == /\ Cardinality(Passed') = Cardinality(Passed) + n.passed
               /\ Cardinality(Pushes') = Cardinality(Pushes) + n.pushes
               /\ Cardinality(Pops') = Cardinality(Pops) + n.pops

Passing == {"wipe", "load_push", "write_link", "push"}
Gain(b, c) == IF b THEN IF c THEN 0 ELSE 1 ELSE IF c THEN -1 ELSE 0

LEMMA Counts ==
  ASSUME NEW t \in Threads, th' \in [Threads -> Locals],
         \A u \in Threads \ {t} : th'[u] = th[u]
  PROVE  CountsOn([passed |-> Gain(th'[t].pc \in Passing, th[t].pc \in Passing),
                   pushes |-> Gain(th'[t].pc = "count_up", th[t].pc = "count_up"),
                   pops |-> Gain(th'[t].pc = "count_down", th[t].pc = "count_down")])
<1>0. /\ t \in Passed <=> th[t].pc \in Passing
      /\ t \in Pushes <=> th[t].pc = "count_up"
      /\ t \in Pops <=> th[t].pc = "count_down"
  BY DEF Passed, Passing, Pushes, Pops
<1>1. Cardinality(Passed') = Cardinality(Passed) + Gain(th'[t].pc \in Passing, th[t].pc \in Passing)
  <2>1. CASE th'[t].pc \in Passing
    <3>1. Passed' = Passed \union {t}  BY <2>1, Movement DEF Passing
    <3>2. Cardinality(Passed') = IF t \in Passed THEN Cardinality(Passed) ELSE Cardinality(Passed) + 1
      BY <3>1, Finite, FS_AddElement
    <3> QED  BY <1>0, <2>1, <3>2, Finite DEF Gain
  <2>2. CASE th'[t].pc \notin Passing
    <3>1. Passed' = Passed \ {t}  BY <2>2, Movement DEF Passing
    <3>2. Cardinality(Passed') = IF t \in Passed THEN Cardinality(Passed) - 1 ELSE Cardinality(Passed)
      BY <3>1, Finite, FS_RemoveElement
    <3> QED  BY <1>0, <2>2, <3>2, Finite DEF Gain
  <2> QED  BY <2>1, <2>2
<1>2. Cardinality(Pushes') = Cardinality(Pushes) + Gain(th'[t].pc = "count_up", th[t].pc = "count_up")
  <2>1. CASE th'[t].pc = "count_up"
    <3>1. Pushes' = Pushes \union {t}  BY <2>1, Movement
    <3>2. Cardinality(Pushes') = IF t \in Pushes THEN Cardinality(Pushes) ELSE Cardinality(Pushes) + 1
      BY <3>1, Finite, FS_AddElement
    <3> QED  BY <1>0, <2>1, <3>2, Finite DEF Gain
  <2>2. CASE th'[t].pc # "count_up"
    <3>1. Pushes' = Pushes \ {t}  BY <2>2, Movement
    <3>2. Cardinality(Pushes') = IF t \in Pushes THEN Cardinality(Pushes) - 1 ELSE Cardinality(Pushes)
      BY <3>1, Finite, FS_RemoveElement
    <3> QED  BY <1>0, <2>2, <3>2, Finite DEF Gain
  <2> QED  BY <2>1, <2>2
<1>3. Cardinality(Pops') = Cardinality(Pops) + Gain(th'[t].pc = "count_down", th[t].pc = "count_down")
  <2>1. CASE th'[t].pc = "count_down"
    <3>1. Pops' = Pops \union {t}  BY <2>1, Movement
    <3>2. Cardinality(Pops') = IF t \in Pops THEN Cardinality(Pops) ELSE Cardinality(Pops) + 1
      BY <3>1, Finite, FS_AddElement
    <3> QED  BY <1>0, <2>1, <3>2, Finite DEF Gain
  <2>2. CASE th'[t].pc # "count_down"
    <3>1. Pops' = Pops \ {t}  BY <2>2, Movement
    <3>2. Cardinality(Pops') = IF t \in Pops THEN Cardinality(Pops) - 1 ELSE Cardinality(Pops)
      BY <3>1, Finite, FS_RemoveElement
    <3> QED  BY <1>0, <2>2, <3>2, Finite DEF Gain
  <2> QED  BY <2>1, <2>2
<1> QED  BY <1>1, <1>2, <1>3 DEF CountsOn

\* How many free pages there are after a step.
LEMMA PoolCount ==
  ASSUME PoolInv, NEW t \in Threads, Step(t)
  PROVE  /\ Pop(t) /\ top = th[t].old => Cardinality(Pool') = Cardinality(Pool) - 1
         /\ Push(t) /\ top = th[t].old => Cardinality(Pool') = Cardinality(Pool) + 1
         /\ top # th[t].old \/ (~Pop(t) /\ ~Push(t)) => Cardinality(Pool') = Cardinality(Pool)
<1>1. CASE Pop(t)
  <2>1. ~Push(t)  BY <1>1 DEF Pop, Push, At
  <2>2. CASE top = th[t].old
    <3>1. top.page \in Pool  BY <1>1, <2>2, PopTakesHead DEF Pop
    <3>2. place' = [place EXCEPT ![top.page] = t]  BY <1>1, <2>2 DEF Pop
    <3>3. Pool' = Pool \ {top.page}
      BY <3>1, <3>2, ThreadAssumption DEF Pool, PoolInv, TypeOK
    <3> QED  BY <1>1, <2>1, <2>2, <3>1, <3>3, Finite, FS_RemoveElement
  <2>3. CASE top # th[t].old
    <3>1. Pool' = Pool  BY <1>1, <2>3 DEF Pop, Pool
    <3> QED  BY <2>1, <2>3, <3>1
  <2> QED  BY <2>2, <2>3
<1>2. CASE Push(t)
  <2>1. ~Pop(t)  BY <1>2 DEF Pop, Push, At
  <2>2. CASE top = th[t].old
    <3>1. th[t].page \in Pages /\ place[th[t].page] = t
      BY <1>2 DEF Push, At, PoolInv, Held, Owning
    <3>2. place' = [place EXCEPT ![th[t].page] = "pool"]  BY <1>2, <2>2 DEF Push
    <3>3. Pool' = Pool \union {th[t].page} /\ th[t].page \notin Pool
      BY <3>1, <3>2, ThreadAssumption DEF Pool, PoolInv, TypeOK
    <3> QED  BY <1>2, <2>1, <2>2, <3>3, Finite, FS_AddElement
  <2>3. CASE top # th[t].old
    <3>1. Pool' = Pool  BY <1>2, <2>3 DEF Push, Pool
    <3> QED  BY <2>1, <2>3, <3>1
  <2> QED  BY <2>2, <2>3
<1>3. CASE ~Pop(t) /\ ~Push(t)
  <2>1. Pool' = Pool  BY <1>3, StackEffect DEF SameStack
  <2> QED  BY <1>3, <2>1
<1> QED  BY <1>1, <1>2, <1>3

\* A step keeps the two counts: one case per action.
LEMMA CountStep ==
  ASSUME PoolInv, PoolInv', CountInv, NEW t \in Threads, Step(t)
  PROVE  CountInv'
<1> DEFINE from == th[t].pc
           to == th'[t].pc
<1>0. /\ th \in [Threads -> Locals] /\ th' \in [Threads -> Locals]
      /\ \A u \in Threads \ {t} : th'[u] = th[u]
  BY OthersAlone DEF PoolInv, TypeOK
<1>1. CountsOn([passed |-> Gain(to \in Passing, from \in Passing),
                pushes |-> Gain(to = "count_up", from = "count_up"),
                pops |-> Gain(to = "count_down", from = "count_down")])
  BY <1>0, Counts
<1>2. /\ depth \in Int /\ Cap \in Nat
      /\ depth = Cardinality(Pool) - Cardinality(Pushes) + Cardinality(Pops)
      /\ Cardinality(Pool) + Cardinality(Passed) <= Cap + Cardinality(Threads) - 1
  BY SizeAssumption DEF CountInv, PoolInv, TypeOK
<1>3. ASSUME ~Pop(t), ~Push(t), depth' = depth,
             from \notin {"count_up", "count_down"}, to \notin {"count_up", "count_down"},
             to \in Passing <=> from \in Passing
      PROVE  CountInv'
  <2>1. Cardinality(Pool') = Cardinality(Pool)  BY <1>3, PoolCount
  <2> QED  BY <1>1, <1>2, <1>3, <2>1, Finite DEF CountsOn, Gain, CountInv
<1> USE DEF At, Go, Passing
<1>4. CASE Acquire(t)
  <2>1. from = "idle" /\ to = "load"  BY <1>0, <1>4 DEF Acquire, Locals
  <2> QED  BY <1>3, <1>4, <2>1 DEF Acquire, Pop, Push
<1>5. CASE Load(t)
  <2>1. from = "load" /\ to \in {"map", "read_link"}  BY <1>0, <1>5 DEF Load, Locals
  <2> QED  BY <1>3, <1>5, <2>1 DEF Load, Pop, Push
<1>6. CASE ReadLink(t)
  <2>1. from = "read_link" /\ to = "pop"  BY <1>0, <1>6 DEF ReadLink, Locals
  <2> QED  BY <1>3, <1>6, <2>1 DEF ReadLink, Pop, Push
<1>7. CASE Pop(t)
  <2>0. from = "pop" /\ depth' = depth  BY <1>7 DEF Pop
  <2>1. CASE top = th[t].old
    <3>1. to = "count_down"  BY <1>0, <1>7, <2>1 DEF Pop, Idle
    <3>2. Cardinality(Pool') = Cardinality(Pool) - 1  BY <1>7, <2>1, PoolCount
    <3> QED  BY <1>1, <1>2, <2>0, <3>1, <3>2, Finite DEF CountsOn, Gain, CountInv
  <2>2. CASE top # th[t].old
    <3>1. to = "load"  BY <1>0, <1>7, <2>2 DEF Pop, Idle
    <3>2. Cardinality(Pool') = Cardinality(Pool)  BY <2>2, PoolCount
    <3> QED  BY <1>1, <1>2, <2>0, <3>1, <3>2, Finite DEF CountsOn, Gain, CountInv
  <2> QED  BY <2>1, <2>2
<1>8. CASE CountDown(t)
  <2>1. from = "count_down" /\ to = "clear" /\ depth' = depth - 1
    BY <1>0, <1>8 DEF CountDown, Locals
  <2>2. Cardinality(Pool') = Cardinality(Pool)  BY <1>8, PoolCount DEF CountDown, Pop, Push
  <2> QED  BY <1>1, <1>2, <2>1, <2>2, Finite DEF CountsOn, Gain, CountInv
<1>9. CASE Clear(t)
  <2>1. from = "clear" /\ to = "acquired"  BY <1>0, <1>9 DEF Clear, Locals
  <2> QED  BY <1>3, <1>9, <2>1 DEF Clear, Pop, Push
<1>10. CASE Map(t)
  <2>1. from = "map" /\ to = "acquired"  BY <1>0, <1>10 DEF Map, Idle
  <2> QED  BY <1>3, <1>10, <2>1 DEF Map, Pop, Push
<1>11. CASE Use(t)
  <2>1. from = "acquired" /\ to = "idle"  BY <1>0, <1>11 DEF Use, Idle
  <2> QED  BY <1>3, <1>11, <2>1 DEF Use, Pop, Push
<1>12. CASE Release(t)
  <2>1. from = "idle" /\ depth' = depth  BY <1>12 DEF Release
  <2>2. to = IF depth >= Cap THEN "unmap" ELSE "wipe"  BY <1>0, <1>12 DEF Release, Locals
  <2>3. CASE depth >= Cap  BY <1>3, <2>1, <2>2, <2>3 DEF Pop, Push
  <2>4. CASE depth < Cap
    <3>1. to = "wipe"  BY <1>2, <2>2, <2>4
    <3>2. Cardinality(Passed) + Cardinality(Pushes) <= Cardinality(Threads) - 1
      BY <2>1, RoomForOne DEF Passed, Pushes
    <3>3. Cardinality(Pool') = Cardinality(Pool)  BY <2>1, PoolCount DEF Pop, Push
    <3> QED  BY <1>1, <1>2, <2>1, <2>4, <3>1, <3>2, <3>3, Finite DEF CountsOn, Gain, CountInv
  <2> QED  BY <1>2, <2>3, <2>4
<1>13. CASE Unmap(t)
  <2>1. from = "unmap" /\ to = "idle"  BY <1>0, <1>13 DEF Unmap, Idle
  <2> QED  BY <1>3, <1>13, <2>1 DEF Unmap, Pop, Push
<1>14. CASE Wipe(t)
  <2>1. from = "wipe" /\ to = "load_push"  BY <1>0, <1>14 DEF Wipe, Locals
  <2> QED  BY <1>3, <1>14, <2>1 DEF Wipe, Pop, Push
<1>15. CASE LoadPush(t)
  <2>1. from = "load_push" /\ to = "write_link"  BY <1>0, <1>15 DEF LoadPush, Locals
  <2> QED  BY <1>3, <1>15, <2>1 DEF LoadPush, Pop, Push
<1>16. CASE WriteLink(t)
  <2>1. from = "write_link" /\ to = "push"  BY <1>0, <1>16 DEF WriteLink, Locals
  <2> QED  BY <1>3, <1>16, <2>1 DEF WriteLink, Pop, Push
<1>17. CASE Push(t)
  <2>0. from = "push" /\ depth' = depth  BY <1>17 DEF Push
  <2>1. CASE top = th[t].old
    <3>1. to = "count_up"  BY <1>0, <1>17, <2>1 DEF Push, Idle
    <3>2. Cardinality(Pool') = Cardinality(Pool) + 1  BY <1>17, <2>1, PoolCount
    <3> QED  BY <1>1, <1>2, <2>0, <3>1, <3>2, Finite DEF CountsOn, Gain, CountInv
  <2>2. CASE top # th[t].old
    <3>1. to = "load_push"  BY <1>0, <1>17, <2>2 DEF Push, Locals
    <3>2. Cardinality(Pool') = Cardinality(Pool)  BY <2>2, PoolCount
    <3> QED  BY <1>1, <1>2, <2>0, <3>1, <3>2, Finite DEF CountsOn, Gain, CountInv
  <2> QED  BY <2>1, <2>2
<1>18. CASE CountUp(t)
  <2>1. from = "count_up" /\ to = "idle" /\ depth' = depth + 1
    BY <1>0, <1>18 DEF CountUp, Idle
  <2>2. Cardinality(Pool') = Cardinality(Pool)  BY <1>18, PoolCount DEF CountUp, Pop, Push
  <2> QED  BY <1>1, <1>2, <2>1, <2>2, Finite DEF CountsOn, Gain, CountInv
<1> QED
  BY <1>4, <1>5, <1>6, <1>7, <1>8, <1>9, <1>10, <1>11, <1>12, <1>13, <1>14, <1>15, <1>16, <1>17,
     <1>18 DEF Step

\* With every thread outside, nothing is under way.
LEMMA AllOutside ==
  ASSUME \A t \in Threads : th[t].pc = "idle"
  PROVE  Cardinality(Passed) = 0 /\ Cardinality(Pushes) = 0 /\ Cardinality(Pops) = 0
<1>1. Passed = {} /\ Pushes = {} /\ Pops = {}  BY DEF Passed, Pushes, Pops
<1> QED  BY <1>1, FS_EmptySet

LEMMA CountInvInductive == PoolInv /\ PoolInv' /\ CountInv /\ [Next]_vars => CountInv'
<1> SUFFICES ASSUME PoolInv, PoolInv', CountInv, [Next]_vars PROVE CountInv'  OBVIOUS
<1>1. CASE Cleanup
  <2>1. th' = th /\ depth' = 0 /\ \A t \in Threads : th[t].pc = "idle"
    BY <1>1 DEF Cleanup, At
  <2>2. Pool' = {} /\ Cardinality(Pool') = 0  BY <1>1, CleanupStep, FS_EmptySet
  <2>3. Passed' = Passed /\ Pushes' = Pushes /\ Pops' = Pops
    BY <2>1 DEF Passed, Pushes, Pops
  <2> QED  BY <2>1, <2>2, <2>3, AllOutside, Finite, SizeAssumption DEF CountInv
<1>2. ASSUME NEW t \in Threads, Step(t) PROVE CountInv'  BY <1>2, CountStep
<1>3. CASE UNCHANGED vars  BY <1>3 DEF vars, CountInv, Pool, Passed, Pushes, Pops
<1> QED  BY <1>1, <1>2, <1>3 DEF Next

\* The pool outgrows its cap by less than the number of threads, and with
\* nobody inside its count is exact.
THEOREM CacheIsBounded == Spec => []CacheBounded
<1>1. Init => CountInv
  <2> SUFFICES ASSUME Init PROVE CountInv  OBVIOUS
  <2>1. \A t \in Threads : th[t].pc = "idle"  BY DEF Init, Idle
  <2>2. Pool = {}  BY DEF Init, Pool
  <2> QED  BY <2>1, <2>2, AllOutside, Finite, FS_EmptySet, SizeAssumption DEF CountInv, Init
<1>2. CountInv => CacheBounded
  <2> SUFFICES ASSUME CountInv PROVE CacheBounded  OBVIOUS
  <2>1. Cardinality(Pool) <= Cap + Cardinality(Threads) - 1
    BY Finite, SizeAssumption DEF CountInv
  <2>2. ASSUME \A t \in Threads : th[t].pc = "idle" PROVE depth = Cardinality(Pool)
    BY <2>2, AllOutside, Finite DEF CountInv
  <2> QED  BY <2>1, <2>2 DEF CacheBounded
<1>3. PoolInv /\ CountInv /\ [Next]_vars => (PoolInv /\ CountInv)'
  BY PoolInvInductive, CountInvInductive
<1> QED  BY <1>1, <1>2, <1>3, InitPool, PTL DEF Spec
=============================================================================
