------------------------------- MODULE ArcHeap -------------------------------
(***************************************************************************)
(* The reference-counted heap of the pipe-lang runtime                      *)
(* (crates/runtime/src/jit.rs).                                             *)
(*                                                                         *)
(* A heap value is a block [count: u64][payload]; compiled code holds the    *)
(* address of the payload.  Slots are the places such an address is stored:  *)
(* a local of a running function (home: its thread) or a field of another    *)
(* block (home: that block).  pipe_rt_retain and pipe_rt_release load the    *)
(* count once and then try compare_exchange_weak until it succeeds; the      *)
(* release that takes a count from 1 to 0 runs pipe_rt_free_value, which      *)
(* releases the fields one by one, recursively, and returns the block to the *)
(* allocator last.  A count of u64::MAX marks a block that is never counted  *)
(* again: string literals start there.                                      *)
(*                                                                         *)
(* One atomic access is one step.  Orderings are Acquire/AcqRel on a single   *)
(* word, so a sequentially consistent model of each count is exact.  The      *)
(* generated code is a client that owns what it releases; which retains and  *)
(* releases the compiler emits is the subject of the lowering, not of this    *)
(* module.  Words below 0x1000, which both entry points ignore, are not       *)
(* references and occupy no slot.                                           *)
(***************************************************************************)
EXTENDS Naturals, Sequences, FiniteSets

CONSTANTS
  Threads,    \* threads that run compiled code
  Blocks,     \* addresses the allocator can return
  Statics,    \* the blocks compile_ir leaks for string literals
  Slots,      \* places a pointer can be stored in (bounds the references)
  RcMax,      \* the largest count: u64::MAX in the code
  Nil         \* no pointer, no home

ASSUME SlotsFinite     == IsFiniteSet(Slots)
ASSUME StaticsInBlocks == Statics \subseteq Blocks
ASSUME RcMaxLarge      == RcMax \in Nat /\ RcMax >= 2
ASSUME NilApart        == Nil \notin Threads \cup Blocks \cup Slots
ASSUME HomesApart      == Threads \cap Blocks = {}

VARIABLES
  heap,       \* blocks leaked to compiled code and not yet taken back
  rc,         \* the count word of every block
  ptr,        \* the address stored in every slot
  home,       \* whose slot it is: a thread, the block it is a field of, or nobody's
  pc,         \* what a thread is inside of: "run", "retain" or "release"
  sub,        \* the ptr argument of that call
  slot,       \* the slot the call fills (retain) or empties (release)
  seen,       \* its local `current`
  frames      \* the pipe_rt_free_value calls in progress, innermost first

vars == <<heap, rc, ptr, home, pc, sub, slot, seen, frames>>
call == <<pc, sub, slot, seen>>

-----------------------------------------------------------------------------
RefsTo(b) == {s \in Slots : ptr[s] = b}

Held(t) == {s \in Slots : home[s] = t /\ ptr[s] # Nil}

Fields(b) == {s \in Slots : home[s] = b}

Unused(s) == ptr[s] = Nil /\ home[s] = Nil

(* What thread t may read without owning it: the fields of blocks it holds   *)
(* (RecordGet, TagGet, ArrayGet and ClosureGet return the stored word).      *)
Borrowed(t) == {s \in Slots : ptr[s] # Nil /\ \E r \in Held(t) : home[s] = ptr[r]}

(* t runs generated code: it is in no runtime call and frees nothing.        *)
Running(t) == pc[t] = "run" /\ frames[t] = <<>>

Freeing(b) == \E t \in Threads : \E i \in 1..Len(frames[t]) : frames[t][i] = b

(* `current - 1` on a u64.                                                  *)
Less1(n) == IF n = 0 THEN RcMax ELSE n - 1

-----------------------------------------------------------------------------
TypeOK ==
  /\ heap \subseteq Blocks
  /\ rc \in [Blocks -> 0..RcMax]
  /\ ptr \in [Slots -> Blocks \cup {Nil}]
  /\ home \in [Slots -> Threads \cup Blocks \cup {Nil}]
  /\ pc \in [Threads -> {"run", "retain", "release"}]
  /\ sub \in [Threads -> Blocks \cup {Nil}]
  /\ slot \in [Threads -> Slots \cup {Nil}]
  /\ seen \in [Threads -> 0..RcMax]
  /\ frames \in [Threads -> Seq(Blocks)]

Init ==
  /\ heap   = Statics
  /\ rc     = [b \in Blocks |-> IF b \in Statics THEN RcMax ELSE 0]
  /\ ptr    = [s \in Slots |-> Nil]
  /\ home   = [s \in Slots |-> Nil]
  /\ pc     = [t \in Threads |-> "run"]
  /\ sub    = [t \in Threads |-> Nil]
  /\ slot   = [t \in Threads |-> Nil]
  /\ seen   = [t \in Threads |-> 0]
  /\ frames = [t \in Threads |-> <<>>]

-----------------------------------------------------------------------------
(* Generated code.                                                          *)

(* ConstStr: the address of a literal's block, uncounted.                    *)
LoadConst(t, b, n) ==
  /\ Running(t)
  /\ b \in Statics
  /\ Unused(n)
  /\ ptr'  = [ptr EXCEPT ![n] = b]
  /\ home' = [home EXCEPT ![n] = t]
  /\ UNCHANGED <<heap, rc, call, frames>>

(* pipe_rt_alloc_closure, pipe_rt_alloc_array, pipe_rt_str_concat: a block    *)
(* with count 1 whose fields are words copied from the caller's locals.  The  *)
(* caller's references move into the fields; a closure's captures are         *)
(* retained (Retain) before they are moved.                                  *)
Alloc(t, b, n, kids) ==
  /\ Running(t)
  /\ b \notin heap
  /\ Unused(n)
  /\ kids \subseteq Held(t)
  /\ heap' = heap \cup {b}
  /\ rc'   = [rc EXCEPT ![b] = 1]
  /\ ptr'  = [ptr EXCEPT ![n] = b]
  /\ home' = [s \in Slots |-> IF s = n THEN t ELSE IF s \in kids THEN b ELSE home[s]]
  /\ UNCHANGED <<call, frames>>

(* CompiledModule is Send + Sync: the embedding program may move a value it   *)
(* owns to another thread.                                                  *)
HandOff(t, u, s) ==
  /\ Running(t)
  /\ s \in Held(t)
  /\ home' = [home EXCEPT ![s] = u]
  /\ UNCHANGED <<heap, rc, ptr, call, frames>>

-----------------------------------------------------------------------------
(* pipe_rt_retain.                                                          *)

(* The call and its first load.  The new reference will be stored in n.      *)
Retain(t, s, n) ==
  /\ Running(t)
  /\ s \in Held(t) \cup Borrowed(t)
  /\ Unused(n)
  /\ pc'   = [pc EXCEPT ![t] = "retain"]
  /\ sub'  = [sub EXCEPT ![t] = ptr[s]]
  /\ slot' = [slot EXCEPT ![t] = n]
  /\ seen' = [seen EXCEPT ![t] = rc[ptr[s]]]
  /\ home' = [home EXCEPT ![n] = t]
  /\ UNCHANGED <<heap, rc, ptr, frames>>

(* Return to the caller with the reference stored.                           *)
RetainReturn(t) ==
  /\ ptr' = [ptr EXCEPT ![slot[t]] = sub[t]]
  /\ pc'  = [pc EXCEPT ![t] = "run"]
  /\ UNCHANGED <<heap, home, sub, slot, seen, frames>>

(* `if current == u64::MAX { break; }`                                       *)
RetainImmortal(t) ==
  /\ pc[t] = "retain"
  /\ seen[t] = RcMax
  /\ RetainReturn(t)
  /\ UNCHANGED rc

(* Faulty variant of RetainSwap: a load and a store in place of the exchange.  *)
RetainSwapLost(t) ==
  /\ pc[t] = "retain"
  /\ seen[t] # RcMax
  /\ rc' = [rc EXCEPT ![sub[t]] = seen[t] + 1]
  /\ RetainReturn(t)

(* The exchange succeeds.                                                   *)
RetainSwap(t) ==
  /\ pc[t] = "retain"
  /\ seen[t] # RcMax
  /\ rc[sub[t]] = seen[t]
  /\ rc' = [rc EXCEPT ![sub[t]] = seen[t] + 1]
  /\ RetainReturn(t)

(* The exchange fails and reports the count it found.                        *)
RetainRetry(t) ==
  /\ pc[t] = "retain"
  /\ seen[t] # RcMax
  /\ seen' = [seen EXCEPT ![t] = rc[sub[t]]]
  /\ UNCHANGED <<heap, rc, ptr, home, pc, sub, slot, frames>>

-----------------------------------------------------------------------------
(* pipe_rt_release_ptr and pipe_rt_free_value.                              *)

BeginRelease(t, s) ==
  /\ pc'   = [pc EXCEPT ![t] = "release"]
  /\ sub'  = [sub EXCEPT ![t] = ptr[s]]
  /\ slot' = [slot EXCEPT ![t] = s]
  /\ seen' = [seen EXCEPT ![t] = rc[ptr[s]]]
  /\ UNCHANGED <<heap, rc, ptr, home, frames>>

(* Generated code drops a local.                                            *)
Release(t, s) ==
  /\ Running(t)
  /\ s \in Held(t)
  /\ BeginRelease(t, s)

(* The slot no longer holds a reference.                                     *)
ReleaseReturn(t) ==
  /\ ptr'  = [ptr EXCEPT ![slot[t]] = Nil]
  /\ home' = [home EXCEPT ![slot[t]] = Nil]
  /\ pc'   = [pc EXCEPT ![t] = "run"]
  /\ UNCHANGED <<heap, sub, slot, seen>>

(* Faulty variant: `continue` in place of `return`.                                  *)
ReleaseImmortalSpins(t) ==
  /\ pc[t] = "release"
  /\ seen[t] = RcMax
  /\ seen' = [seen EXCEPT ![t] = rc[sub[t]]]
  /\ UNCHANGED <<heap, rc, ptr, home, pc, sub, slot, frames>>

(* `if current == u64::MAX { return; }`                                      *)
ReleaseImmortal(t) ==
  /\ pc[t] = "release"
  /\ seen[t] = RcMax
  /\ ReleaseReturn(t)
  /\ UNCHANGED <<rc, frames>>

Enter(t) == [frames EXCEPT ![t] = <<sub[t]>> \o @]

(* Faulty variants of ReleaseSwap: no test for u64::MAX; a free when the new   *)
(* count, not the old one, is 1; no free of what only a freed block refers to. *)
ReleaseSwapUncapped(t) ==
  /\ pc[t] = "release"
  /\ rc[sub[t]] = seen[t]
  /\ rc' = [rc EXCEPT ![sub[t]] = Less1(seen[t])]
  /\ frames' = IF seen[t] = 1 THEN Enter(t) ELSE frames
  /\ ReleaseReturn(t)

ReleaseSwapEarly(t) ==
  /\ pc[t] = "release"
  /\ seen[t] # RcMax
  /\ rc[sub[t]] = seen[t]
  /\ rc' = [rc EXCEPT ![sub[t]] = Less1(seen[t])]
  /\ frames' = IF Less1(seen[t]) <= 1 THEN Enter(t) ELSE frames
  /\ ReleaseReturn(t)

ReleaseSwapShallow(t) ==
  /\ pc[t] = "release"
  /\ seen[t] # RcMax
  /\ rc[sub[t]] = seen[t]
  /\ rc' = [rc EXCEPT ![sub[t]] = Less1(seen[t])]
  /\ frames' = IF seen[t] = 1 /\ frames[t] = <<>> THEN Enter(t) ELSE frames
  /\ ReleaseReturn(t)

(* The exchange succeeds; the release that saw 1 frees the block.            *)
ReleaseSwap(t) ==
  /\ pc[t] = "release"
  /\ seen[t] # RcMax
  /\ rc[sub[t]] = seen[t]
  /\ rc' = [rc EXCEPT ![sub[t]] = Less1(seen[t])]
  /\ frames' = IF seen[t] = 1 THEN Enter(t) ELSE frames
  /\ ReleaseReturn(t)

ReleaseRetry(t) ==
  /\ pc[t] = "release"
  /\ seen[t] # RcMax
  /\ seen' = [seen EXCEPT ![t] = rc[sub[t]]]
  /\ UNCHANGED <<heap, rc, ptr, home, pc, sub, slot, frames>>

(* The loop over the fields of the innermost block being freed.              *)
FreeField(t, s) ==
  /\ pc[t] = "run"
  /\ frames[t] # <<>>
  /\ s \in Fields(Head(frames[t]))
  /\ BeginRelease(t, s)

(* Faulty variant: the loop stops before the last field.                             *)
FreeBlockWithFields(t) ==
  /\ pc[t] = "run"
  /\ frames[t] # <<>>
  /\ Cardinality(Fields(Head(frames[t]))) <= 1
  /\ heap'   = heap \ {Head(frames[t])}
  /\ frames' = [frames EXCEPT ![t] = Tail(@)]
  /\ UNCHANGED <<rc, ptr, home, call>>

(* Box::from_raw after the loop, and return to the enclosing free.           *)
FreeBlock(t) ==
  /\ pc[t] = "run"
  /\ frames[t] # <<>>
  /\ Fields(Head(frames[t])) = {}
  /\ heap'   = heap \ {Head(frames[t])}
  /\ frames' = [frames EXCEPT ![t] = Tail(@)]
  /\ UNCHANGED <<rc, ptr, home, call>>

-----------------------------------------------------------------------------
(* Generated code chooses what to do next; the runtime then runs it to its end. *)
Mutate(t) ==
  \/ \E b \in Statics, n \in Slots : LoadConst(t, b, n)
  \/ \E b \in Blocks, n \in Slots : \E kids \in SUBSET Held(t) : Alloc(t, b, n, kids)
  \/ \E u \in Threads \ {t}, s \in Slots : HandOff(t, u, s)
  \/ \E s, n \in Slots : Retain(t, s, n)
  \/ \E s \in Slots : Release(t, s)

Runtime(t) ==
  \/ RetainImmortal(t)
  \/ RetainSwap(t)
  \/ RetainRetry(t)
  \/ ReleaseImmortal(t)
  \/ ReleaseSwap(t)
  \/ ReleaseRetry(t)
  \/ \E s \in Slots : FreeField(t, s)
  \/ FreeBlock(t)

Next == \E t \in Threads : Mutate(t) \/ Runtime(t)

Spec == Init /\ [][Next]_vars

(* A runtime call is straight-line code and loops that never block, so a      *)
(* thread inside one keeps taking steps; a failed exchange is not progress.   *)
(* Nothing obliges generated code to make another call.                      *)
FairSpec == Spec /\ \A t \in Threads : WF_vars(Runtime(t))

-----------------------------------------------------------------------------
(* Safety.                                                                  *)

(* A count is the number of places that hold the block's address: no retain   *)
(* or release is lost or repeated by the compare-and-swap loops of            *)
(* pipe_rt_retain and pipe_rt_release_ptr, whatever the interleaving.         *)
CountExact == \A b \in Blocks : rc[b] # RcMax => rc[b] = Cardinality(RefsTo(b))

(* Every stored address, and every block a runtime call is working on, is      *)
(* still allocated: no use after free and no double free.                     *)
NoDangling ==
  /\ \A s \in Slots : ptr[s] # Nil => ptr[s] \in heap
  /\ \A s \in Slots : home[s] \in Blocks => home[s] \in heap
  /\ \A t \in Threads : pc[t] # "run" => sub[t] \in heap

(* What threads hold, what is being freed, and what is immortal.              *)
Anchors ==
  {ptr[s] : s \in UNION {Held(t) : t \in Threads}} \cup {b \in heap : Freeing(b) \/ rc[b] = RcMax}

(* The blocks reached from these through fields: those in every set that       *)
(* holds them and is closed under fields.                                    *)
ClosedUnderFields(S) == \A s \in Slots : home[s] \in S /\ ptr[s] # Nil => ptr[s] \in S
Anchored ==
  {b \in heap : \A S \in SUBSET heap : Anchors \subseteq S /\ ClosedUnderFields(S) => b \in S}

(* Counting alone reclaims everything: a block nobody can reach any more is    *)
(* never left behind, because immutable data cannot form a cycle              *)
(* (plan-main.md:11) and pipe_rt_free_value releases every field.             *)
NoGarbage == heap \subseteq Anchored

(* A count of u64::MAX is never changed again and its block is never returned  *)
(* to the allocator, as literals shared by all compiled functions need.       *)
ImmortalForever == [][\A b \in Blocks : rc[b] = RcMax => rc'[b] = RcMax /\ b \in heap']_vars

-----------------------------------------------------------------------------
(* The inductive invariant: what CountExact and NoDangling rest on, and what   *)
(* NoGarbage needs beside it.                                               *)

(* A block is allocated exactly while it is counted or being freed.           *)
HeapAccounted == \A b \in Blocks : b \in heap <=> rc[b] > 0 \/ Freeing(b)

(* Blocks being freed have count zero, and each is freed by one call.         *)
FrameZero == \A t \in Threads : \A i \in 1..Len(frames[t]) : rc[frames[t][i]] = 0
FrameOnce ==
  \A t, u \in Threads : \A i \in 1..Len(frames[t]), j \in 1..Len(frames[u]) :
    frames[t][i] = frames[u][j] => t = u /\ i = j

(* A slot has a home when it holds an address or a retain is about to fill it. *)
SlotHomed ==
  \A s \in Slots :
    /\ ptr[s] # Nil => home[s] # Nil
    /\ home[s] \in Blocks => ptr[s] # Nil /\ home[s] \in heap

RetainOK(t) ==
  /\ frames[t] = <<>>
  /\ slot[t] \in Slots /\ ptr[slot[t]] = Nil /\ home[slot[t]] = t
  /\ \E s \in Held(t) \cup Borrowed(t) : ptr[s] = sub[t]

ReleaseOK(t) ==
  /\ slot[t] \in Slots /\ sub[t] # Nil /\ ptr[slot[t]] = sub[t]
  /\ home[slot[t]] = IF frames[t] = <<>> THEN t ELSE Head(frames[t])

CallsOK ==
  \A t \in Threads : /\ pc[t] = "retain" => RetainOK(t)
                     /\ pc[t] = "release" => ReleaseOK(t)

(* A call that has read u64::MAX is right to believe it until it returns.     *)
SeenOK ==
  \A t \in Threads : pc[t] # "run" /\ seen[t] = RcMax => rc[sub[t]] = RcMax

LiteralsImmortal == \A b \in Statics : rc[b] = RcMax

CountInv ==
  /\ TypeOK
  /\ CountExact
  /\ HeapAccounted
  /\ FrameZero
  /\ FrameOnce
  /\ SlotHomed
  /\ CallsOK
  /\ SeenOK
  /\ LiteralsImmortal

(* Fields do not form a cycle: among any blocks, some is no field of another of  *)
(* them (a block is made after everything its fields refer to).               *)
NoCycles ==
  \A G \in SUBSET Blocks : G # {} => \E b \in G : \A s \in Slots : ptr[s] = b => home[s] \notin G

IndInv == CountInv /\ NoCycles

-----------------------------------------------------------------------------
(* The promise.                                                             *)
Promise == INSTANCE RefGraph WITH live <- heap, ref <- ptr

(* The counted heap implements shared references that keep their value alive   *)
(* and are reclaimed only once unreferenced.                                 *)
ImplementsRefGraph == Promise!Spec

-----------------------------------------------------------------------------
(* Liveness, under FairSpec.                                                *)

(* A block whose last reference is gone is returned to the allocator, however  *)
(* deep the structure it heads (plan-main.md:304).                           *)
Reclaimed ==
  \A b \in Blocks \ Statics : (b \in heap /\ RefsTo(b) = {}) ~> b \notin heap

(* The loops are lock-free: threads that are all inside a retain or release do *)
(* not keep each other there.                                               *)
LockFree == (\A t \in Threads : pc[t] # "run") ~> (\E t \in Threads : pc[t] = "run")
=============================================================================
