---------------------------- MODULE ArcHeapProofs ----------------------------
(***************************************************************************)
(* Proofs about ArcHeap for every set of threads, every number of blocks and *)
(* slots and every RcMax: the inductive invariant, the exactness of the       *)
(* counts, the absence of dangling pointers, the immortality of saturated     *)
(* counts and the refinement of RefGraph.                                    *)
(***************************************************************************)
EXTENDS ArcHeap, FiniteSetTheorems, SequenceTheorems, TLAPS

-----------------------------------------------------------------------------
(* Sequences used as stacks.                                                *)

(* Entering pipe_rt_free_value: what a stack of frames holds after a push.   *)
LEMMA PushFrame ==
  ASSUME NEW S, NEW q \in Seq(S), NEW x \in S
  PROVE  /\ <<x>> \o q \in Seq(S)
         /\ <<x>> \o q # <<>>
         /\ Len(<<x>> \o q) = Len(q) + 1
         /\ Head(<<x>> \o q) = x
         /\ (<<x>> \o q)[1] = x
         /\ \A i \in 2..(Len(q) + 1) : (<<x>> \o q)[i] = q[i - 1]
<1>1. <<x>> \in Seq(S) /\ Len(<<x>>) = 1 /\ <<x>>[1] = x
  OBVIOUS
<1>2. <<x>> \o q \in Seq(S) /\ Len(<<x>> \o q) = Len(q) + 1
  BY <1>1
<1>3. \A i \in 1..(Len(q) + 1) :
        (<<x>> \o q)[i] = IF i <= 1 THEN <<x>>[i] ELSE q[i - 1]
  BY <1>1
<1>4. (<<x>> \o q)[1] = x
  BY <1>1, <1>3
<1>5. <<x>> \o q # <<>> /\ Head(<<x>> \o q) = x
  BY <1>2, <1>4
<1>6. QED
  BY <1>2, <1>3, <1>4, <1>5

(* Leaving it: what the stack holds after a pop.                             *)
LEMMA PopFrame ==
  ASSUME NEW S, NEW q \in Seq(S), q # <<>>
  PROVE  /\ Tail(q) \in Seq(S)
         /\ Len(q) \in Nat /\ Len(q) >= 1
         /\ Len(Tail(q)) = Len(q) - 1
         /\ Head(q) = q[1] /\ Head(q) \in S
         /\ \A i \in 1..(Len(q) - 1) : Tail(q)[i] = q[i + 1]
OBVIOUS

-----------------------------------------------------------------------------
(* Counting references.                                                     *)

LEMMA RefsFinite ==
  ASSUME NEW b
  PROVE  IsFiniteSet(RefsTo(b)) /\ Cardinality(RefsTo(b)) \in Nat
<1>1. RefsTo(b) \subseteq Slots
  BY DEF RefsTo
<1>2. QED
  BY <1>1, SlotsFinite, FS_Subset, FS_CardinalityType

(* A referenced block has a positive count.                                  *)
LEMMA Referenced ==
  ASSUME TypeOK, CountExact, NEW s \in Slots, NEW b \in Blocks, ptr[s] = b
  PROVE  rc[b] \in Nat /\ rc[b] > 0
<1>1. s \in RefsTo(b)
  BY DEF RefsTo
<1>2. Cardinality(RefsTo(b)) # 0
  BY <1>1, RefsFinite, FS_EmptySet
<1>3. rc[b] \in 0..RcMax
  BY DEF TypeOK
<1>4. QED
  BY <1>2, <1>3, RefsFinite, RcMaxLarge DEF CountExact

(* Storing an address in an empty slot adds one to its block's references.    *)
LEMMA StoreRef ==
  ASSUME TypeOK, NEW n \in Slots, NEW b \in Blocks, ptr[n] = Nil,
         ptr' = [ptr EXCEPT ![n] = b]
  PROVE  /\ Cardinality(RefsTo(b)') = Cardinality(RefsTo(b)) + 1
         /\ \A c \in Blocks : c # b => Cardinality(RefsTo(c)') = Cardinality(RefsTo(c))
<1>1. b # Nil /\ \A c \in Blocks : c # Nil
  BY NilApart
<1>2. RefsTo(b)' = RefsTo(b) \cup {n} /\ n \notin RefsTo(b)
  BY <1>1 DEF RefsTo, TypeOK
<1>3. \A c \in Blocks : c # b => RefsTo(c)' = RefsTo(c)
  BY <1>1 DEF RefsTo, TypeOK
<1>4. QED
  BY <1>2, <1>3, RefsFinite, FS_AddElement

(* Emptying a slot takes one away.                                           *)
LEMMA ClearRef ==
  ASSUME TypeOK, NEW n \in Slots, NEW b \in Blocks, ptr[n] = b,
         ptr' = [ptr EXCEPT ![n] = Nil]
  PROVE  /\ Cardinality(RefsTo(b)') = Cardinality(RefsTo(b)) - 1
         /\ \A c \in Blocks : c # b => Cardinality(RefsTo(c)') = Cardinality(RefsTo(c))
<1>1. b # Nil /\ \A c \in Blocks : c # Nil
  BY NilApart
<1>2. RefsTo(b)' = RefsTo(b) \ {n} /\ n \in RefsTo(b)
  BY <1>1 DEF RefsTo, TypeOK
<1>3. \A c \in Blocks : c # b => RefsTo(c)' = RefsTo(c)
  BY <1>1 DEF RefsTo, TypeOK
<1>4. Cardinality(RefsTo(b) \ {n}) = Cardinality(RefsTo(b)) - 1
  BY <1>2, RefsFinite, FS_RemoveElement
<1>5. QED
  BY <1>2, <1>3, <1>4

-----------------------------------------------------------------------------
(* The invariant holds initially.                                           *)
LEMMA InitInv == Init => CountInv
<1> SUFFICES ASSUME Init PROVE CountInv
  OBVIOUS
<1> USE DEF Init
<1>1. TypeOK
  BY StaticsInBlocks, RcMaxLarge DEF TypeOK
<1>2. CountExact
  <2> SUFFICES ASSUME NEW b \in Blocks, rc[b] # RcMax PROVE rc[b] = Cardinality(RefsTo(b))
    BY DEF CountExact
  <2>1. RefsTo(b) = {}
    BY NilApart DEF RefsTo
  <2>2. QED
    BY <2>1, FS_EmptySet
<1>3. HeapAccounted
  BY RcMaxLarge, StaticsInBlocks DEF HeapAccounted, Freeing
<1>4. FrameZero /\ FrameOnce
  BY DEF FrameZero, FrameOnce
<1>5. SlotHomed /\ CallsOK /\ SeenOK
  BY NilApart DEF SlotHomed, CallsOK, SeenOK
<1>6. LiteralsImmortal
  BY StaticsInBlocks DEF LiteralsImmortal
<1>7. QED
  BY <1>1, <1>2, <1>3, <1>4, <1>5, <1>6 DEF CountInv

(* A thread's calls are unaffected by a step of another thread that leaves     *)
(* its slots, its stack and the fields of blocks it holds alone.              *)
LEMMA CallsKept ==
  ASSUME CountInv, NEW u \in Threads, pc'[u] = pc[u], sub'[u] = sub[u], slot'[u] = slot[u],
         frames'[u] = frames[u],
         pc[u] = "retain" => /\ \A s \in Held(u) : ptr'[s] = ptr[s] /\ home'[s] = home[s]
                             /\ \A s \in Borrowed(u) : ptr'[s] = ptr[s] /\ home'[s] = home[s]
                             /\ ptr'[slot[u]] = ptr[slot[u]] /\ home'[slot[u]] = home[slot[u]],
         pc[u] = "release" => ptr'[slot[u]] = ptr[slot[u]] /\ home'[slot[u]] = home[slot[u]]
  PROVE  /\ pc'[u] = "retain" => RetainOK(u)'
         /\ pc'[u] = "release" => ReleaseOK(u)'
<1>1. ASSUME pc[u] = "retain" PROVE RetainOK(u)'
  <2>1. RetainOK(u)
    BY <1>1 DEF CountInv, CallsOK
  <2>2. \A s \in Held(u) : s \in Held(u)'
    BY <1>1 DEF Held
  <2>3. \A s \in Borrowed(u) : s \in Borrowed(u)'
    BY <1>1, <2>2 DEF Borrowed, Held
  <2>4. \A s \in Held(u) \cup Borrowed(u) : ptr'[s] = ptr[s]
    BY <1>1
  <2>5. QED
    BY <1>1, <2>1, <2>2, <2>3, <2>4 DEF RetainOK
<1>2. ASSUME pc[u] = "release" PROVE ReleaseOK(u)'
  BY <1>2 DEF CountInv, CallsOK, ReleaseOK
<1>3. QED
  BY <1>1, <1>2

(* The block a call works on is referenced, so it is counted.                 *)
LEMMA SubjectCounted ==
  ASSUME CountInv, NEW u \in Threads, pc[u] # "run"
  PROVE  sub[u] \in Blocks /\ sub[u] # Nil /\ rc[sub[u]] \in Nat /\ rc[sub[u]] > 0
<1>1. \E s \in Slots : ptr[s] # Nil /\ ptr[s] = sub[u]
  <2>1. CASE pc[u] = "retain"
    <3>1. PICK s \in Held(u) \cup Borrowed(u) : ptr[s] = sub[u]
      BY <2>1 DEF CountInv, CallsOK, RetainOK
    <3>2. QED
      BY <3>1 DEF Held, Borrowed
  <2>2. CASE pc[u] = "release"
    BY <2>2 DEF CountInv, CallsOK, ReleaseOK
  <2>3. QED
    BY <2>1, <2>2 DEF CountInv, TypeOK
<1>2. PICK s \in Slots : ptr[s] # Nil /\ ptr[s] = sub[u]
  BY <1>1
<1>3. ptr[s] \in Blocks
  BY <1>2 DEF CountInv, TypeOK
<1>4. QED
  BY <1>2, <1>3, Referenced DEF CountInv

(* What a call has read stays right when no step changes a count of RcMax.   *)
LEMMA SeenKept ==
  ASSUME CountInv,
         \A b \in Blocks : rc[b] = RcMax => rc'[b] = RcMax,
         \A u \in Threads :
           \/ pc'[u] = "run"
           \/ seen'[u] = rc'[sub'[u]]
           \/ pc'[u] = pc[u] /\ sub'[u] = sub[u] /\ seen'[u] = seen[u]
  PROVE  SeenOK'
<1> SUFFICES ASSUME NEW u \in Threads, pc'[u] # "run", seen'[u] = RcMax
             PROVE  rc'[sub'[u]] = RcMax
  BY DEF SeenOK
<1>1. CASE seen'[u] = rc'[sub'[u]]
  BY <1>1
<1>2. CASE pc'[u] = pc[u] /\ sub'[u] = sub[u] /\ seen'[u] = seen[u]
  <2>1. sub[u] \in Blocks
    BY <1>2, SubjectCounted
  <2>2. QED
    BY <1>2, <2>1 DEF CountInv, SeenOK
<1>3. QED
  BY <1>1, <1>2

(* An unused slot plays no part in any call.                                 *)
LEMMA UnusedIdle ==
  ASSUME CountInv, NEW u \in Threads, NEW n \in Slots, Unused(n)
  PROVE  /\ n \notin Held(u) /\ n \notin Borrowed(u)
         /\ pc[u] # "run" => slot[u] # n
<1>1. n \notin Held(u) /\ n \notin Borrowed(u)
  BY DEF Unused, Held, Borrowed
<1>2. pc[u] = "retain" => slot[u] # n
  BY NilApart DEF Unused, CountInv, CallsOK, RetainOK
<1>3. pc[u] = "release" => slot[u] # n
  BY DEF Unused, CountInv, CallsOK, ReleaseOK
<1>4. QED
  BY <1>1, <1>2, <1>3 DEF CountInv, TypeOK

LEMMA LoadConstStep ==
  ASSUME CountInv, NEW t \in Threads, NEW b \in Statics, NEW n \in Slots, LoadConst(t, b, n)
  PROVE  CountInv'
<1> USE DEF LoadConst, call
<1>0. b \in Blocks /\ b # Nil /\ ptr[n] = Nil /\ home[n] = Nil /\ t # Nil /\ t \notin Blocks
  BY StaticsInBlocks, NilApart, HomesApart DEF Unused
<1>1. TypeOK'
  BY <1>0 DEF CountInv, TypeOK
<1>2. CountExact'
  BY <1>0, StoreRef DEF CountInv, CountExact, LiteralsImmortal
<1>3. HeapAccounted' /\ FrameZero' /\ FrameOnce' /\ LiteralsImmortal'
  BY DEF CountInv, HeapAccounted, Freeing, FrameZero, FrameOnce, LiteralsImmortal
<1>4. SlotHomed'
  BY <1>0 DEF CountInv, TypeOK, SlotHomed
<1>5. CallsOK'
  <2> SUFFICES ASSUME NEW u \in Threads
               PROVE  /\ pc'[u] = "retain" => RetainOK(u)'
                      /\ pc'[u] = "release" => ReleaseOK(u)'
    BY DEF CallsOK
  <2>1. n \notin Held(u) /\ n \notin Borrowed(u) /\ (pc[u] # "run" => slot[u] # n)
    BY UnusedIdle
  <2>2. \A s \in Slots : s # n => ptr'[s] = ptr[s] /\ home'[s] = home[s]
    BY DEF CountInv, TypeOK
  <2>3. pc[u] # "run" => slot[u] \in Slots
    BY DEF CountInv, TypeOK, CallsOK, RetainOK, ReleaseOK
  <2>4. Held(u) \subseteq Slots /\ Borrowed(u) \subseteq Slots
    BY DEF Held, Borrowed
  <2>5. QED
    BY <2>1, <2>2, <2>3, <2>4, CallsKept
<1>6. SeenOK'
  BY SeenKept
<1>7. QED
  BY <1>1, <1>2, <1>3, <1>4, <1>5, <1>6 DEF CountInv

LEMMA AllocStep ==
  ASSUME CountInv, NEW t \in Threads, NEW b \in Blocks, NEW n \in Slots,
         NEW kids \in SUBSET Held(t), Alloc(t, b, n, kids)
  PROVE  CountInv'
<1> USE DEF Alloc, call
<1>0. /\ b # Nil /\ ptr[n] = Nil /\ home[n] = Nil /\ t # Nil /\ t \notin Blocks /\ b \notin Threads
      /\ b \notin heap /\ rc[b] = 0 /\ ~Freeing(b) /\ b \notin Statics
      /\ pc[t] = "run" /\ frames[t] = <<>>
      /\ n \notin kids /\ kids \subseteq Slots
  <2>1. rc[b] \in Nat
    BY RcMaxLarge DEF CountInv, TypeOK
  <2>2. QED
    BY <2>1, StaticsInBlocks, NilApart, HomesApart, RcMaxLarge
       DEF Unused, Running, CountInv, HeapAccounted, LiteralsImmortal, Held
<1>1. TypeOK'
  BY <1>0, RcMaxLarge DEF CountInv, TypeOK
<1>2. CountExact'
  <2>1. \A c \in Blocks : c # b => rc'[c] = rc[c]
    BY DEF CountInv, TypeOK
  <2>2. rc'[b] = 1 /\ rc[b] = Cardinality(RefsTo(b))
    BY <1>0, RcMaxLarge DEF CountInv, TypeOK, CountExact
  <2>3. TypeOK /\ ptr' = [ptr EXCEPT ![n] = b] /\ ptr[n] = Nil
    BY <1>0 DEF CountInv
  <2>4. /\ Cardinality(RefsTo(b)') = Cardinality(RefsTo(b)) + 1
        /\ \A c \in Blocks : c # b => Cardinality(RefsTo(c)') = Cardinality(RefsTo(c))
    BY <2>3, StoreRef
  <2>5. QED
    BY <1>0, <2>1, <2>2, <2>4 DEF CountInv, CountExact
<1>3. HeapAccounted' /\ FrameZero' /\ FrameOnce' /\ LiteralsImmortal'
  <2>1. \A c \in Blocks : Freeing(c)' <=> Freeing(c)
    BY DEF Freeing
  <2>2. \A c \in Blocks : rc'[c] = IF c = b THEN 1 ELSE rc[c]
    BY DEF CountInv, TypeOK
  <2>3. HeapAccounted'
    BY <1>0, <2>1, <2>2 DEF CountInv, HeapAccounted
  <2>4. \A u \in Threads : \A i \in 1..Len(frames[u]) : frames[u][i] \in Blocks /\ frames[u][i] # b
    BY <1>0 DEF CountInv, TypeOK, Freeing
  <2>5. FrameZero'
    BY <2>2, <2>4 DEF CountInv, FrameZero
  <2>6. FrameOnce' /\ LiteralsImmortal'
    BY <1>0, <2>2, StaticsInBlocks DEF CountInv, FrameOnce, LiteralsImmortal
  <2>7. QED
    BY <2>3, <2>5, <2>6
<1>4. SlotHomed'
  BY <1>0 DEF CountInv, TypeOK, SlotHomed, Held
<1>5. CallsOK'
  <2> SUFFICES ASSUME NEW u \in Threads
               PROVE  /\ pc'[u] = "retain" => RetainOK(u)'
                      /\ pc'[u] = "release" => ReleaseOK(u)'
    BY DEF CallsOK
  <2>1. CASE u = t
    BY <1>0, <2>1
  <2>2. CASE u # t
    <3>1. n \notin Held(u) /\ n \notin Borrowed(u) /\ (pc[u] # "run" => slot[u] # n)
      BY UnusedIdle
    <3>2. \A s \in Slots : s # n /\ s \notin kids => ptr'[s] = ptr[s] /\ home'[s] = home[s]
      BY DEF CountInv, TypeOK
    <3>3. \A s \in kids : home[s] = t
      BY DEF Held
    <3>4. pc[u] # "run" => slot[u] \in Slots /\ home[slot[u]] # t
      <4>1. pc[u] = "retain" => slot[u] \in Slots /\ home[slot[u]] # t
        BY <2>2 DEF CountInv, CallsOK, RetainOK
      <4>2. ASSUME pc[u] = "release" PROVE slot[u] \in Slots /\ home[slot[u]] # t
        <5>1. frames[u] # <<>> => Head(frames[u]) \in Blocks
          BY PopFrame DEF CountInv, TypeOK
        <5>2. QED
          BY <2>2, <4>2, <5>1, <1>0, HomesApart DEF CountInv, CallsOK, ReleaseOK
      <4>3. QED
        BY <4>1, <4>2 DEF CountInv, TypeOK
    <3>5. \A s \in Held(u) \cup Borrowed(u) : s \in Slots /\ s \notin kids
      <4>1. \A s \in Held(u) : s \in Slots /\ home[s] = u
        BY DEF Held
      <4>2. \A s \in Borrowed(u) : s \in Slots /\ home[s] \in Blocks
        BY NilApart DEF Borrowed, Held, CountInv, TypeOK
      <4>3. QED
        BY <4>1, <4>2, <3>3, <2>2, <1>0
    <3>6. QED
      BY <3>1, <3>2, <3>3, <3>4, <3>5, CallsKept
  <2>3. QED
    BY <2>1, <2>2
<1>6. SeenOK'
  BY <1>0, RcMaxLarge, SeenKept DEF CountInv, TypeOK
<1>7. QED
  BY <1>1, <1>2, <1>3, <1>4, <1>5, <1>6 DEF CountInv

LEMMA HandOffStep ==
  ASSUME CountInv, NEW t \in Threads, NEW v \in Threads \ {t}, NEW k \in Slots, HandOff(t, v, k)
  PROVE  CountInv'
<1> USE DEF HandOff, call
<1>0. /\ home[k] = t /\ ptr[k] # Nil /\ t \notin Blocks /\ v \notin Blocks /\ v # Nil
      /\ pc[t] = "run"
  BY NilApart, HomesApart DEF Held, Running
<1>1. TypeOK'
  BY DEF CountInv, TypeOK
<1>2. CountExact'
  BY DEF CountInv, CountExact, RefsTo
<1>3. HeapAccounted' /\ FrameZero' /\ FrameOnce' /\ LiteralsImmortal'
  BY DEF CountInv, HeapAccounted, Freeing, FrameZero, FrameOnce, LiteralsImmortal
<1>4. SlotHomed'
  BY <1>0 DEF CountInv, TypeOK, SlotHomed
<1>5. CallsOK'
  <2> SUFFICES ASSUME NEW u \in Threads, u # t
               PROVE  /\ pc'[u] = "retain" => RetainOK(u)'
                      /\ pc'[u] = "release" => ReleaseOK(u)'
    BY <1>0 DEF CallsOK
  <2>1. \A s \in Slots : s # k => ptr'[s] = ptr[s] /\ home'[s] = home[s]
    BY DEF CountInv, TypeOK
  <2>2. k \notin Held(u) /\ k \notin Borrowed(u)
    BY <1>0, NilApart DEF Held, Borrowed, CountInv, TypeOK
  <2>3. pc[u] = "retain" => slot[u] \in Slots /\ slot[u] # k
    BY <1>0 DEF CountInv, CallsOK, RetainOK
  <2>4. ASSUME pc[u] = "release" PROVE slot[u] \in Slots /\ slot[u] # k
    <3>1. frames[u] # <<>> => Head(frames[u]) \in Blocks
      BY PopFrame DEF CountInv, TypeOK
    <3>2. QED
      BY <1>0, <2>4, <3>1 DEF CountInv, CallsOK, ReleaseOK
  <2>5. Held(u) \subseteq Slots /\ Borrowed(u) \subseteq Slots
    BY DEF Held, Borrowed
  <2>6. QED
    BY <2>1, <2>2, <2>3, <2>4, <2>5, CallsKept
<1>6. SeenOK'
  BY SeenKept
<1>7. QED
  BY <1>1, <1>2, <1>3, <1>4, <1>5, <1>6 DEF CountInv

(* Starting a retain only reserves the slot it will fill.                    *)
LEMMA RetainStep ==
  ASSUME CountInv, NEW t \in Threads, NEW k \in Slots, NEW n \in Slots, Retain(t, k, n)
  PROVE  CountInv'
<1> USE DEF Retain
<1>0. /\ ptr[n] = Nil /\ home[n] = Nil /\ t \notin Blocks /\ t # Nil
      /\ pc[t] = "run" /\ frames[t] = <<>> /\ k # n
      /\ ptr[k] \in Blocks
  BY NilApart, HomesApart DEF Held, Borrowed, Running, Unused, CountInv, TypeOK
<1>1. TypeOK'
  BY <1>0 DEF CountInv, TypeOK
<1>2. CountExact'
  BY DEF CountInv, CountExact, RefsTo
<1>3. HeapAccounted' /\ FrameZero' /\ FrameOnce' /\ LiteralsImmortal'
  BY DEF CountInv, HeapAccounted, Freeing, FrameZero, FrameOnce, LiteralsImmortal
<1>4. SlotHomed'
  BY <1>0 DEF CountInv, TypeOK, SlotHomed
<1>5. CallsOK'
  <2> SUFFICES ASSUME NEW u \in Threads
               PROVE  /\ pc'[u] = "retain" => RetainOK(u)'
                      /\ pc'[u] = "release" => ReleaseOK(u)'
    BY DEF CallsOK
  <2>0. \A s \in Slots : s # n => ptr'[s] = ptr[s] /\ home'[s] = home[s]
    BY DEF CountInv, TypeOK
  <2>1. CASE u = t
    <3>1. pc'[t] = "retain" /\ slot'[t] = n /\ sub'[t] = ptr[k] /\ home'[n] = t
      BY DEF CountInv, TypeOK
    <3>2. Held(t) \subseteq Held(t)' /\ Borrowed(t) \subseteq Borrowed(t)'
      BY <1>0, <2>0 DEF Held, Borrowed
    <3>3. k \in Held(t)' \cup Borrowed(t)'
      BY <3>2
    <3>4. QED
      BY <2>1, <1>0, <3>1, <3>3 DEF RetainOK
  <2>2. CASE u # t
    <3>1. n \notin Held(u) /\ n \notin Borrowed(u) /\ (pc[u] # "run" => slot[u] # n)
      BY <1>0, UnusedIdle DEF Unused
    <3>2. pc[u] # "run" => slot[u] \in Slots
      BY DEF CountInv, TypeOK, CallsOK, RetainOK, ReleaseOK
    <3>3. Held(u) \subseteq Slots /\ Borrowed(u) \subseteq Slots
      BY DEF Held, Borrowed
    <3>4. pc'[u] = pc[u] /\ sub'[u] = sub[u] /\ slot'[u] = slot[u] /\ frames'[u] = frames[u]
      BY <2>2 DEF CountInv, TypeOK
    <3>5. QED
      BY <2>0, <3>1, <3>2, <3>3, <3>4, CallsKept
  <2>3. QED
    BY <2>1, <2>2
<1>6. SeenOK'
  <2>1. seen'[t] = rc'[sub'[t]]
    BY DEF CountInv, TypeOK
  <2>2. \A u \in Threads : u # t => pc'[u] = pc[u] /\ sub'[u] = sub[u] /\ seen'[u] = seen[u]
    BY DEF CountInv, TypeOK
  <2>3. QED
    BY <2>1, <2>2, SeenKept
<1>7. QED
  BY <1>1, <1>2, <1>3, <1>4, <1>5, <1>6 DEF CountInv

(* The slots of a call belong to the caller or to the block it is freeing, so  *)
(* two threads never fill or empty the same slot, and the slot a thread        *)
(* empties is not one another thread is copying from.                        *)
LEMMA SlotsApart ==
  ASSUME CountInv, NEW t \in Threads, NEW u \in Threads, t # u, pc[t] # "run"
  PROVE  /\ slot[t] \in Slots
         /\ pc[u] # "run" => slot[u] \in Slots /\ slot[u] # slot[t]
         /\ slot[t] \notin Held(u) /\ slot[t] \notin Borrowed(u)
<1>1. \A w \in Threads : pc[w] # "run" =>
        /\ slot[w] \in Slots
        /\ home[slot[w]] = IF frames[w] = <<>> THEN w ELSE Head(frames[w])
  BY DEF CountInv, TypeOK, CallsOK, RetainOK, ReleaseOK
<1>2. \A w \in Threads : frames[w] # <<>> =>
        /\ Head(frames[w]) \in Blocks /\ Head(frames[w]) = frames[w][1]
        /\ 1 \in 1..Len(frames[w])
        /\ rc[Head(frames[w])] = 0
  <2> TAKE w \in Threads
  <2> HAVE frames[w] # <<>>
  <2>1. /\ Head(frames[w]) \in Blocks /\ Head(frames[w]) = frames[w][1]
        /\ 1 \in 1..Len(frames[w])
    BY PopFrame DEF CountInv, TypeOK
  <2>2. QED
    BY <2>1 DEF CountInv, FrameZero
<1>3. pc[u] # "run" => slot[u] # slot[t]
  BY <1>1, <1>2, HomesApart DEF CountInv, FrameOnce
<1>4. slot[t] \notin Held(u)
  BY <1>1, <1>2, HomesApart DEF Held
<1>5. slot[t] \notin Borrowed(u)
  <2> SUFFICES ASSUME slot[t] \in Borrowed(u) PROVE FALSE
    OBVIOUS
  <2>1. PICK r \in Held(u) : home[slot[t]] = ptr[r]
    BY DEF Borrowed
  <2>2. ptr[r] \in Blocks /\ r \in Slots
    BY DEF Held, CountInv, TypeOK
  <2>3. rc[ptr[r]] > 0 /\ rc[ptr[r]] \in Nat
    BY <2>2, Referenced DEF CountInv
  <2>4. QED
    BY <1>1, <1>2, <2>1, <2>2, <2>3, HomesApart
<1>6. QED
  BY <1>1, <1>3, <1>4, <1>5

(* A retain that ends stores its reference, with the count word as given.     *)
LEMMA RetainReturnKeeps ==
  ASSUME CountInv, NEW t \in Threads, pc[t] = "retain", RetainReturn(t),
         rc' \in [Blocks -> 0..RcMax],
         \A c \in Blocks : c # sub[t] => rc'[c] = rc[c],
         \/ rc'[sub[t]] = RcMax
         \/ rc[sub[t]] # RcMax /\ rc'[sub[t]] = rc[sub[t]] + 1
  PROVE  CountInv' 
<1> USE DEF RetainReturn
<1>0. /\ RetainOK(t)
      /\ slot[t] \in Slots /\ ptr[slot[t]] = Nil /\ home[slot[t]] = t /\ frames[t] = <<>>
      /\ t \notin Blocks /\ t # Nil
  BY NilApart, HomesApart DEF CountInv, CallsOK, RetainOK
<1>1. /\ sub[t] \in Blocks /\ sub[t] # Nil
      /\ rc[sub[t]] \in Nat /\ rc[sub[t]] > 0
  BY SubjectCounted
<1>2. TypeOK'
  BY <1>1 DEF CountInv, TypeOK
<1>3. CountExact'
  <2>1. /\ Cardinality(RefsTo(sub[t])') = Cardinality(RefsTo(sub[t])) + 1
        /\ \A c \in Blocks : c # sub[t] => Cardinality(RefsTo(c)') = Cardinality(RefsTo(c))
    BY <1>0, <1>1, StoreRef DEF CountInv
  <2> SUFFICES ASSUME NEW c \in Blocks, rc'[c] # RcMax
               PROVE  rc'[c] = Cardinality(RefsTo(c)')
    BY DEF CountExact
  <2>2. CASE c = sub[t]
    BY <2>1, <2>2 DEF CountInv, CountExact
  <2>3. CASE c # sub[t]
    BY <2>1, <2>3 DEF CountInv, CountExact
  <2>4. QED
    BY <2>2, <2>3
<1>4. HeapAccounted'
  <2>1. \A c \in Blocks : Freeing(c)' <=> Freeing(c)
    BY DEF Freeing
  <2>2. rc'[sub[t]] > 0
    BY <1>1, RcMaxLarge
  <2>3. QED
    BY <1>1, <2>1, <2>2 DEF CountInv, HeapAccounted
<1>5. FrameZero' /\ FrameOnce' /\ LiteralsImmortal'
  <2>1. \A u \in Threads : \A i \in 1..Len(frames[u]) :
          frames[u][i] \in Blocks /\ frames[u][i] # sub[t]
    BY <1>1 DEF CountInv, TypeOK, FrameZero
  <2>2. FrameZero' /\ FrameOnce'
    BY SMTT(30), <2>1 DEF CountInv, FrameZero, FrameOnce
  <2>3. LiteralsImmortal'
    BY StaticsInBlocks DEF CountInv, LiteralsImmortal
  <2>4. QED
    BY <2>2, <2>3
<1>6. SlotHomed'
  BY <1>0 DEF CountInv, TypeOK, SlotHomed
<1>7. CallsOK'
  <2> SUFFICES ASSUME NEW u \in Threads, u # t
               PROVE  /\ pc'[u] = "retain" => RetainOK(u)'
                      /\ pc'[u] = "release" => ReleaseOK(u)'
    BY DEF CallsOK, CountInv, TypeOK
  <2>1. \A s \in Slots : s # slot[t] => ptr'[s] = ptr[s] /\ home'[s] = home[s]
    BY DEF CountInv, TypeOK
  <2>2. /\ pc[u] # "run" => slot[u] \in Slots /\ slot[u] # slot[t]
        /\ slot[t] \notin Held(u) /\ slot[t] \notin Borrowed(u)
    BY SlotsApart
  <2>3. Held(u) \subseteq Slots /\ Borrowed(u) \subseteq Slots
    BY DEF Held, Borrowed
  <2>4. pc'[u] = pc[u]
    BY DEF CountInv, TypeOK
  <2>5. QED
    BY <2>1, <2>2, <2>3, <2>4, CallsKept
<1>8. SeenOK'
  <2>1. \A b \in Blocks : rc[b] = RcMax => rc'[b] = RcMax
    OBVIOUS
  <2>2. \A u \in Threads : pc'[u] = "run" \/ (pc'[u] = pc[u] /\ sub'[u] = sub[u] /\ seen'[u] = seen[u])
    BY DEF CountInv, TypeOK
  <2>3. QED
    BY <2>1, <2>2, SeenKept
<1>9. QED
  BY <1>2, <1>3, <1>4, <1>5, <1>6, <1>7, <1>8 DEF CountInv

LEMMA RetainImmortalStep ==
  ASSUME CountInv, NEW t \in Threads, RetainImmortal(t)
  PROVE  CountInv'
<1>1. rc[sub[t]] = RcMax
  BY DEF RetainImmortal, CountInv, SeenOK
<1>2. QED
  BY <1>1, RetainReturnKeeps DEF RetainImmortal, CountInv, TypeOK

LEMMA RetainSwapStep ==
  ASSUME CountInv, NEW t \in Threads, RetainSwap(t)
  PROVE  CountInv'
<1>1. sub[t] \in Blocks
  BY SubjectCounted DEF RetainSwap
<1>2. seen[t] \in 0..(RcMax - 1)
  BY RcMaxLarge DEF RetainSwap, CountInv, TypeOK
<1>3. rc' \in [Blocks -> 0..RcMax]
  BY <1>1, <1>2, RcMaxLarge DEF RetainSwap, CountInv, TypeOK
<1>4. /\ \A c \in Blocks : c # sub[t] => rc'[c] = rc[c]
      /\ rc'[sub[t]] = rc[sub[t]] + 1 /\ rc[sub[t]] # RcMax
  BY <1>1 DEF RetainSwap, CountInv, TypeOK
<1>5. QED
  BY <1>3, <1>4, RetainReturnKeeps DEF RetainSwap

(* Starting a release changes nothing but the call.                          *)
LEMMA BeginReleaseKeeps ==
  ASSUME CountInv, NEW t \in Threads, NEW k \in Slots, pc[t] = "run", ptr[k] # Nil,
         home[k] = IF frames[t] = <<>> THEN t ELSE Head(frames[t]),
         BeginRelease(t, k)
  PROVE  CountInv'
<1> USE DEF BeginRelease
<1>0. ptr[k] \in Blocks
  BY DEF CountInv, TypeOK
<1>1. TypeOK'
  BY <1>0 DEF CountInv, TypeOK
<1>2. CountExact'
  BY DEF CountInv, CountExact, RefsTo
<1>3. HeapAccounted' /\ FrameZero' /\ FrameOnce' /\ LiteralsImmortal'
  BY DEF CountInv, HeapAccounted, Freeing, FrameZero, FrameOnce, LiteralsImmortal
<1>4. SlotHomed'
  BY DEF CountInv, SlotHomed
<1>5. \A u \in Threads : u # t => /\ pc'[u] = pc[u] /\ sub'[u] = sub[u]
                                  /\ slot'[u] = slot[u] /\ seen'[u] = seen[u]
  BY DEF CountInv, TypeOK
<1>6. /\ pc'[t] = "release" /\ sub'[t] = ptr[k] /\ slot'[t] = k
      /\ seen'[t] = rc'[sub'[t]]
  BY DEF CountInv, TypeOK
<1>7. CallsOK'
  <2> SUFFICES ASSUME NEW u \in Threads
               PROVE  /\ pc'[u] = "retain" => RetainOK(u)'
                      /\ pc'[u] = "release" => ReleaseOK(u)'
    BY DEF CallsOK
  <2>1. CASE u = t
    BY <2>1, <1>6 DEF ReleaseOK
  <2>2. CASE u # t
    BY <2>2, <1>5, CallsKept
  <2>3. QED
    BY <2>1, <2>2
<1>8. SeenOK'
  BY <1>5, <1>6, SeenKept
<1>9. QED
  BY <1>1, <1>2, <1>3, <1>4, <1>7, <1>8 DEF CountInv

LEMMA ReleaseStep ==
  ASSUME CountInv, NEW t \in Threads, NEW k \in Slots, Release(t, k)
  PROVE  CountInv'
BY BeginReleaseKeeps DEF Release, Running, Held

LEMMA FreeFieldStep ==
  ASSUME CountInv, NEW t \in Threads, NEW k \in Slots, FreeField(t, k)
  PROVE  CountInv'
<1>1. home[k] = Head(frames[t]) /\ frames[t] # <<>> /\ pc[t] = "run"
  BY DEF FreeField, Fields
<1>2. Head(frames[t]) \in Blocks
  BY <1>1, PopFrame DEF CountInv, TypeOK
<1>3. ptr[k] # Nil
  BY <1>1, <1>2 DEF CountInv, SlotHomed
<1>4. QED
  BY <1>1, <1>3, BeginReleaseKeeps DEF FreeField

(* What the end of a release does to everything but the count and the stack.   *)
LEMMA ReleaseReturnKeeps ==
  ASSUME CountInv, NEW t \in Threads, pc[t] = "release", ReleaseReturn(t),
         \A u \in Threads : u # t => frames'[u] = frames[u]
  PROVE  /\ SlotHomed' /\ CallsOK'
         /\ ptr' \in [Slots -> Blocks \cup {Nil}]
         /\ home' \in [Slots -> Threads \cup Blocks \cup {Nil}]
         /\ pc' \in [Threads -> {"run", "retain", "release"}]
         /\ ptr' = [ptr EXCEPT ![slot[t]] = Nil]
         /\ slot[t] \in Slots /\ ptr[slot[t]] = sub[t]
         /\ \A u \in Threads : \/ pc'[u] = "run"
                               \/ pc'[u] = pc[u] /\ sub'[u] = sub[u] /\ seen'[u] = seen[u]
<1> USE DEF ReleaseReturn
<1>1. slot[t] \in Slots /\ ptr[slot[t]] = sub[t]
  BY DEF CountInv, CallsOK, ReleaseOK
<1>2. SlotHomed'
  BY <1>1, NilApart DEF CountInv, TypeOK, SlotHomed
<1>3. CallsOK'
  <2> SUFFICES ASSUME NEW u \in Threads, u # t
               PROVE  /\ pc'[u] = "retain" => RetainOK(u)'
                      /\ pc'[u] = "release" => ReleaseOK(u)'
    BY DEF CallsOK, CountInv, TypeOK
  <2>1. \A s \in Slots : s # slot[t] => ptr'[s] = ptr[s] /\ home'[s] = home[s]
    BY DEF CountInv, TypeOK
  <2>2. /\ pc[u] # "run" => slot[u] \in Slots /\ slot[u] # slot[t]
        /\ slot[t] \notin Held(u) /\ slot[t] \notin Borrowed(u)
    BY SlotsApart
  <2>3. Held(u) \subseteq Slots /\ Borrowed(u) \subseteq Slots
    BY DEF Held, Borrowed
  <2>4. pc'[u] = pc[u]
    BY DEF CountInv, TypeOK
  <2>5. QED
    BY <2>1, <2>2, <2>3, <2>4, CallsKept
<1>4. QED
  BY <1>1, <1>2, <1>3 DEF CountInv, TypeOK

LEMMA ReleaseImmortalStep ==
  ASSUME CountInv, NEW t \in Threads, ReleaseImmortal(t)
  PROVE  CountInv'
<1> USE DEF ReleaseImmortal
<1>1. /\ SlotHomed' /\ CallsOK'
      /\ ptr' \in [Slots -> Blocks \cup {Nil}]
      /\ home' \in [Slots -> Threads \cup Blocks \cup {Nil}]
      /\ pc' \in [Threads -> {"run", "retain", "release"}]
      /\ ptr' = [ptr EXCEPT ![slot[t]] = Nil]
      /\ slot[t] \in Slots /\ ptr[slot[t]] = sub[t]
      /\ \A u \in Threads : \/ pc'[u] = "run"
                            \/ pc'[u] = pc[u] /\ sub'[u] = sub[u] /\ seen'[u] = seen[u]
  BY ReleaseReturnKeeps
<1>2. TypeOK'
  BY <1>1 DEF CountInv, TypeOK, ReleaseReturn
<1>3. CountExact'
  <2>1. sub[t] \in Blocks /\ rc[sub[t]] = RcMax
    BY SubjectCounted DEF CountInv, SeenOK
  <2>2. \A c \in Blocks : c # sub[t] => Cardinality(RefsTo(c)') = Cardinality(RefsTo(c))
    BY <1>1, <2>1, ClearRef DEF CountInv
  <2>3. QED
    BY <2>1, <2>2 DEF CountInv, CountExact
<1>4. HeapAccounted' /\ FrameZero' /\ FrameOnce' /\ LiteralsImmortal'
  BY DEF CountInv, HeapAccounted, Freeing, FrameZero, FrameOnce, LiteralsImmortal, ReleaseReturn
<1>5. SeenOK'
  BY <1>1, SeenKept
<1>6. QED
  BY <1>1, <1>2, <1>3, <1>4, <1>5 DEF CountInv

LEMMA ReleaseSwapStep ==
  ASSUME CountInv, NEW t \in Threads, ReleaseSwap(t)
  PROVE  CountInv'
<1> USE DEF ReleaseSwap, Enter
<1>a. PICK x \in Blocks : x = sub[t]
  BY SubjectCounted
<1>0. /\ rc[x] = seen[t] /\ seen[t] # RcMax
      /\ seen[t] \in Nat /\ seen[t] > 0 /\ seen[t] < RcMax
      /\ \A c \in Blocks : rc'[c] = IF c = x THEN rc[x] - 1 ELSE rc[c]
      /\ frames[t] \in Seq(Blocks)
  BY <1>a, SubjectCounted, RcMaxLarge DEF CountInv, TypeOK, Less1
<1>1. frames' \in [Threads -> Seq(Blocks)] /\ \A u \in Threads : u # t => frames'[u] = frames[u]
  BY <1>a, <1>0, PushFrame DEF CountInv, TypeOK
<1>2. /\ SlotHomed' /\ CallsOK'
      /\ ptr' \in [Slots -> Blocks \cup {Nil}]
      /\ home' \in [Slots -> Threads \cup Blocks \cup {Nil}]
      /\ pc' \in [Threads -> {"run", "retain", "release"}]
      /\ ptr' = [ptr EXCEPT ![slot[t]] = Nil]
      /\ slot[t] \in Slots /\ ptr[slot[t]] = x
      /\ \A u \in Threads : \/ pc'[u] = "run"
                            \/ pc'[u] = pc[u] /\ sub'[u] = sub[u] /\ seen'[u] = seen[u]
  BY <1>a, <1>1, ReleaseReturnKeeps
<1>3. TypeOK'
  <2>1. rc' \in [Blocks -> 0..RcMax]
    BY <1>a, <1>0, RcMaxLarge DEF CountInv, TypeOK, Less1
  <2>2. QED
    BY <1>1, <1>2, <2>1 DEF CountInv, TypeOK, ReleaseReturn
<1>4. CountExact'
  <2>1. /\ Cardinality(RefsTo(x)') = Cardinality(RefsTo(x)) - 1
        /\ \A c \in Blocks : c # x => Cardinality(RefsTo(c)') = Cardinality(RefsTo(c))
    BY <1>0, <1>2, ClearRef DEF CountInv
  <2>2. QED
    BY <1>0, <2>1 DEF CountInv, CountExact
<1>5. \A u \in Threads : \A i \in 1..Len(frames[u]) :
        frames[u][i] \in Blocks /\ frames[u][i] # x /\ rc[frames[u][i]] = 0
  BY <1>0 DEF CountInv, TypeOK, FrameZero
<1>6. seen[t] = 1 =>
        /\ Len(frames'[t]) = Len(frames[t]) + 1 /\ Len(frames[t]) \in Nat
        /\ frames'[t][1] = x
        /\ \A i \in 2..(Len(frames[t]) + 1) : frames'[t][i] = frames[t][i - 1]
  BY <1>a, <1>0, PushFrame DEF CountInv, TypeOK
<1>7. seen[t] # 1 => frames' = frames
  OBVIOUS
<1>8. \A c \in Blocks : Freeing(c)' <=> Freeing(c) \/ (c = x /\ seen[t] = 1)
  <2>1. CASE seen[t] # 1
    BY <2>1, <1>7 DEF Freeing
  <2>2. CASE seen[t] = 1
    <3> TAKE c \in Blocks
    <3>1. ASSUME Freeing(c)' PROVE Freeing(c) \/ c = x
      <4>0. PICK u \in Threads : \E i \in 1..Len(frames'[u]) : frames'[u][i] = c
        BY <3>1 DEF Freeing
      <4>1. PICK i \in 1..Len(frames'[u]) : frames'[u][i] = c
        BY <4>0
      <4>2. CASE u # t
        BY <4>1, <4>2, <1>1 DEF Freeing
      <4>3. CASE u = t /\ i = 1
        BY <4>1, <4>3, <2>2, <1>6
      <4>4. CASE u = t /\ i # 1
        <5>1. i - 1 \in 1..Len(frames[t]) /\ frames[t][i - 1] = c
          BY <4>1, <4>4, <2>2, <1>6
        <5>2. QED
          BY <5>1 DEF Freeing
      <4>5. QED
        BY <4>2, <4>3, <4>4
    <3>2. ASSUME Freeing(c) PROVE Freeing(c)'
      <4>0. PICK u \in Threads : \E i \in 1..Len(frames[u]) : frames[u][i] = c
        BY <3>2 DEF Freeing
      <4>1. PICK i \in 1..Len(frames[u]) : frames[u][i] = c
        BY <4>0
      <4>2. CASE u # t
        BY <4>1, <4>2, <1>1 DEF Freeing
      <4>3. CASE u = t
        <5>1. i + 1 \in 1..Len(frames'[t]) /\ frames'[t][i + 1] = c
          BY <4>1, <4>3, <2>2, <1>6
        <5>2. QED
          BY <5>1 DEF Freeing
      <4>4. QED
        BY <4>2, <4>3
    <3>3. Freeing(x)'
      <4>1. 1 \in 1..Len(frames'[t]) /\ frames'[t][1] = x
        BY <2>2, <1>6
      <4>2. QED
        BY <4>1 DEF Freeing
    <3>4. QED
      BY <2>2, <3>1, <3>2, <3>3
  <2>3. QED
    BY <2>1, <2>2
<1>9. HeapAccounted'
  BY <1>0, <1>8 DEF CountInv, HeapAccounted, ReleaseReturn
<1>10. FrameZero' /\ FrameOnce'
  <2>1. CASE seen[t] # 1
    BY <2>1, <1>0, <1>5, <1>7 DEF CountInv, FrameZero, FrameOnce
  <2>2. CASE seen[t] = 1
    <3>1. \A u \in Threads : \A i \in 1..Len(frames'[u]) :
            \/ u = t /\ i = 1 /\ frames'[u][i] = x
            \/ u = t /\ i - 1 \in 1..Len(frames[u]) /\ frames'[u][i] = frames[u][i - 1]
            \/ u # t /\ i \in 1..Len(frames[u]) /\ frames'[u][i] = frames[u][i]
      BY <2>2, <1>1, <1>6
    <3>2. FrameZero'
      BY <2>2, <3>1, <1>0, <1>5 DEF FrameZero
    <3>3. FrameOnce'
      <4> SUFFICES ASSUME NEW u \in Threads, NEW v \in Threads,
                          NEW i \in 1..Len(frames'[u]), NEW j \in 1..Len(frames'[v]),
                          frames'[u][i] = frames'[v][j]
                   PROVE  u = v /\ i = j
        BY DEF FrameOnce
      <4>1. i \in Int /\ j \in Int
        OBVIOUS
      <4>2. CASE u = t /\ i = 1
        BY <4>1, <4>2, <3>1, <1>5
      <4>3. CASE v = t /\ j = 1
        BY <4>1, <4>3, <3>1, <1>5
      <4>4. CASE ~(u = t /\ i = 1) /\ ~(v = t /\ j = 1)
        <5> DEFINE old(w, n) == IF w = t THEN n - 1 ELSE n
        <5>1. /\ old(u, i) \in 1..Len(frames[u]) /\ frames'[u][i] = frames[u][old(u, i)]
              /\ old(v, j) \in 1..Len(frames[v]) /\ frames'[v][j] = frames[v][old(v, j)]
          BY <4>4, <3>1, SMTT(30)
        <5>2. u = v /\ old(u, i) = old(v, j)
          BY <5>1 DEF CountInv, FrameOnce
        <5>3. QED
          BY <4>1, <5>2
      <4>5. QED
        BY <4>2, <4>3, <4>4
    <3>4. QED
      BY <3>2, <3>3
  <2>3. QED
    BY <2>1, <2>2
<1>11. LiteralsImmortal'
  BY <1>0, StaticsInBlocks DEF CountInv, LiteralsImmortal
<1>12. SeenOK'
  BY <1>0, <1>2, SeenKept
<1>13. QED
  BY <1>2, <1>3, <1>4, <1>9, <1>10, <1>11, <1>12 DEF CountInv

(* A failed exchange only refreshes what the call has read.                   *)
LEMMA RetryKeeps ==
  ASSUME CountInv, NEW t \in Threads, pc[t] # "run",
         seen' = [seen EXCEPT ![t] = rc[sub[t]]],
         UNCHANGED <<heap, rc, ptr, home, pc, sub, slot, frames>>
  PROVE  CountInv'
<1>1. TypeOK'
  BY SubjectCounted DEF CountInv, TypeOK
<1>2. CountExact' /\ SlotHomed' /\ LiteralsImmortal'
  BY DEF CountInv, CountExact, RefsTo, SlotHomed, LiteralsImmortal
<1>3. HeapAccounted' /\ FrameZero' /\ FrameOnce'
  BY DEF CountInv, HeapAccounted, Freeing, FrameZero, FrameOnce
<1>4. CallsOK'
  BY DEF CountInv, CallsOK, RetainOK, ReleaseOK, Held, Borrowed
<1>5. SeenOK'
  <2>1. \A u \in Threads : IF u = t THEN seen'[u] = rc'[sub'[u]] ELSE seen'[u] = seen[u]
    BY DEF CountInv, TypeOK
  <2>2. QED
    BY <2>1, SeenKept
<1>6. QED
  BY <1>1, <1>2, <1>3, <1>4, <1>5 DEF CountInv

(* The block at the top of a thread's stack, once its fields are gone, is      *)
(* referenced by nobody and freed by nobody else.                            *)
LEMMA TopFrame ==
  ASSUME CountInv, NEW t \in Threads, frames[t] # <<>>
  PROVE  /\ Head(frames[t]) \in heap /\ Head(frames[t]) \in Blocks \ Statics
         /\ rc[Head(frames[t])] = 0
         /\ RefsTo(Head(frames[t])) = {}
<1> DEFINE h == Head(frames[t])
<1>1. h \in Blocks /\ h = frames[t][1] /\ 1 \in 1..Len(frames[t])
  BY PopFrame DEF CountInv, TypeOK
<1>2. rc[h] = 0 /\ Freeing(h)
  BY <1>1 DEF CountInv, FrameZero, Freeing
<1>3. h \in heap /\ h \notin Statics
  BY <1>1, <1>2, RcMaxLarge DEF CountInv, HeapAccounted, LiteralsImmortal
<1>4. Cardinality(RefsTo(h)) = 0
  BY <1>1, <1>2, RcMaxLarge DEF CountInv, CountExact
<1>5. RefsTo(h) = {}
  BY <1>4, RefsFinite, FS_EmptySet
<1>6. QED
  BY <1>1, <1>2, <1>3, <1>5

(* A block being freed stands on one stack, in one place.                     *)
LEMMA FrameUnique ==
  ASSUME CountInv, NEW u \in Threads, NEW v \in Threads,
         NEW p \in 1..Len(frames[u]), NEW q \in 1..Len(frames[v]),
         frames[u][p] = frames[v][q]
  PROVE  u = v /\ p = q
<1>1. FrameOnce
  BY DEF CountInv
<1>2. QED
  BY <1>1 DEF FrameOnce

LEMMA FreeBlockStep ==
  ASSUME CountInv, NEW t \in Threads, FreeBlock(t)
  PROVE  CountInv'
<1>1. /\ frames[t] # <<>> /\ pc[t] = "run" /\ Fields(Head(frames[t])) = {}
      /\ heap' = heap \ {Head(frames[t])}
      /\ frames' = [frames EXCEPT ![t] = Tail(@)]
      /\ UNCHANGED <<rc, ptr, home, pc, sub, slot, seen>>
  BY DEF FreeBlock, call
<1>2. PICK h \in Blocks : h = Head(frames[t])
  BY <1>1, TopFrame
<1>3. rc[h] = 0 /\ RefsTo(h) = {} /\ Fields(h) = {}
  BY <1>1, <1>2, TopFrame
<1>4. /\ frames[t] \in Seq(Blocks) /\ Tail(frames[t]) \in Seq(Blocks)
      /\ Len(frames[t]) \in Nat /\ Len(frames[t]) >= 1 /\ h = frames[t][1]
      /\ Len(Tail(frames[t])) = Len(frames[t]) - 1
      /\ \A i \in 1..(Len(frames[t]) - 1) : Tail(frames[t])[i] = frames[t][i + 1]
  BY <1>1, <1>2, PopFrame DEF CountInv, TypeOK
<1>5. /\ \A u \in Threads : u # t => frames'[u] = frames[u]
      /\ frames'[t] = Tail(frames[t])
  BY <1>1 DEF CountInv, TypeOK
<1>6. \A u \in Threads : \A i \in 1..Len(frames'[u]) :
        \/ u = t /\ i + 1 \in 1..Len(frames[u]) /\ frames'[u][i] = frames[u][i + 1]
        \/ u # t /\ i \in 1..Len(frames[u]) /\ frames'[u][i] = frames[u][i]
  <2> TAKE u \in Threads
  <2> TAKE i \in 1..Len(frames'[u])
  <2>1. CASE u # t
    BY <1>5, <2>1
  <2>2. CASE u = t
    <3>1. i \in 1..(Len(frames[t]) - 1)
      BY <1>4, <1>5, <2>2
    <3>2. i + 1 \in 1..Len(frames[t])
      BY <1>4, <3>1
    <3>3. frames'[t][i] = frames[t][i + 1]
      BY <1>4, <1>5, <3>1
    <3>4. QED
      BY <2>2, <3>2, <3>3
  <2>3. QED
    BY <2>1, <2>2
<1>7. TypeOK'
  BY <1>1, <1>4 DEF CountInv, TypeOK
<1>8. CountExact' /\ LiteralsImmortal' /\ SeenOK'
  BY <1>1 DEF CountInv, CountExact, RefsTo, LiteralsImmortal, SeenOK
<1>9. \A c \in Blocks : Freeing(c)' <=> Freeing(c) /\ c # h
  <2> TAKE c \in Blocks
  <2>1. ASSUME Freeing(c)' PROVE Freeing(c) /\ c # h
    <3>1. PICK u \in Threads : \E i \in 1..Len(frames'[u]) : frames'[u][i] = c
      BY <2>1 DEF Freeing
    <3>2. PICK i \in 1..Len(frames'[u]) : frames'[u][i] = c
      BY <3>1
    <3>3. CASE u = t
      <4>1. i + 1 \in 1..Len(frames[t]) /\ frames[t][i + 1] = c /\ i + 1 # 1
        BY <1>6, <3>2, <3>3
      <4>2. 1 \in 1..Len(frames[t])
        BY <1>4
      <4>3. QED
        BY <1>4, <4>1, <4>2 DEF Freeing, CountInv, FrameOnce
    <3>4. CASE u # t
      <4>1. i \in 1..Len(frames[u]) /\ frames[u][i] = c
        BY <1>6, <3>2, <3>4
      <4>2. 1 \in 1..Len(frames[t])
        BY <1>4
      <4>3. QED
        BY <1>4, <3>4, <4>1, <4>2 DEF Freeing, CountInv, FrameOnce
    <3>5. QED
      BY <3>3, <3>4
  <2>2. ASSUME Freeing(c), c # h PROVE Freeing(c)'
    <3>1. PICK u \in Threads : \E i \in 1..Len(frames[u]) : frames[u][i] = c
      BY <2>2 DEF Freeing
    <3>2. PICK i \in 1..Len(frames[u]) : frames[u][i] = c
      BY <3>1
    <3>3. CASE u # t
      BY <1>5, <3>2, <3>3 DEF Freeing
    <3>4. CASE u = t
      <4>1. i # 1
        BY <1>4, <2>2, <3>2, <3>4
      <4>2. i - 1 \in 1..Len(frames'[t]) /\ frames'[t][i - 1] = c
        BY <1>4, <1>5, <3>2, <3>4, <4>1
      <4>3. QED
        BY <4>2 DEF Freeing
    <3>5. QED
      BY <3>3, <3>4
  <2>3. QED
    BY <2>1, <2>2
<1>10. HeapAccounted'
  BY <1>1, <1>2, <1>3, <1>9 DEF CountInv, HeapAccounted
<1>11. FrameZero' /\ FrameOnce'
  <2>1. FrameZero'
    BY <1>1, <1>6 DEF CountInv, FrameZero
  <2>2. FrameOnce'
    <3> SUFFICES ASSUME NEW u \in Threads, NEW v \in Threads,
                        NEW i \in 1..Len(frames'[u]), NEW j \in 1..Len(frames'[v]),
                        frames'[u][i] = frames'[v][j]
                 PROVE  u = v /\ i = j
      BY DEF FrameOnce
    <3> DEFINE old(w, n) == IF w = t THEN n + 1 ELSE n
    <3>1. /\ old(u, i) \in 1..Len(frames[u]) /\ frames'[u][i] = frames[u][old(u, i)]
          /\ old(v, j) \in 1..Len(frames[v]) /\ frames'[v][j] = frames[v][old(v, j)]
      BY <1>6
    <3>2. PICK p \in 1..Len(frames[u]) : p = old(u, i) /\ frames'[u][i] = frames[u][p]
      BY <3>1
    <3>3. PICK q \in 1..Len(frames[v]) : q = old(v, j) /\ frames'[v][j] = frames[v][q]
      BY <3>1
    <3>4. frames[u][p] = frames[v][q]
      BY <3>2, <3>3
    <3>5. u = v /\ p = q
      BY <3>4, FrameUnique
    <3>6. QED
      BY <3>2, <3>3, <3>5
  <2>3. QED
    BY <2>1, <2>2
<1>12. SlotHomed'
  BY <1>1, <1>2, <1>3 DEF CountInv, SlotHomed, Fields
<1>13. CallsOK'
  <2> SUFFICES ASSUME NEW u \in Threads, u # t
               PROVE  /\ pc'[u] = "retain" => RetainOK(u)'
                      /\ pc'[u] = "release" => ReleaseOK(u)'
    BY <1>1 DEF CallsOK
  <2>1. QED
    BY <1>1, <1>5, CallsKept
<1>14. QED
  BY <1>7, <1>8, <1>10, <1>11, <1>12, <1>13 DEF CountInv

-----------------------------------------------------------------------------
(* Every step keeps the invariant.                                          *)
LEMMA StepKeepsInv == CountInv /\ [Next]_vars => CountInv'
<1> SUFFICES ASSUME CountInv, [Next]_vars PROVE CountInv'
  OBVIOUS
<1>1. CASE UNCHANGED vars
  <2>1. /\ TypeOK' /\ CountExact' /\ LiteralsImmortal' /\ SeenOK' /\ SlotHomed'
    BY <1>1 DEF vars, CountInv, TypeOK, CountExact, RefsTo, LiteralsImmortal, SeenOK, SlotHomed
  <2>2. HeapAccounted' /\ FrameZero' /\ FrameOnce'
    BY <1>1 DEF vars, CountInv, HeapAccounted, Freeing, FrameZero, FrameOnce
  <2>3. CallsOK'
    BY <1>1 DEF vars, CountInv, CallsOK, RetainOK, ReleaseOK, Held, Borrowed
  <2>4. QED
    BY <2>1, <2>2, <2>3 DEF CountInv
<1>2. ASSUME NEW t \in Threads, Mutate(t) PROVE CountInv'
  BY <1>2, LoadConstStep, AllocStep, HandOffStep, RetainStep, ReleaseStep DEF Mutate
<1>3. ASSUME NEW t \in Threads, Runtime(t) PROVE CountInv'
  <2>1. CASE RetainImmortal(t) \/ RetainSwap(t) \/ ReleaseImmortal(t) \/ ReleaseSwap(t)
    BY <2>1, RetainImmortalStep, RetainSwapStep, ReleaseImmortalStep, ReleaseSwapStep
  <2>2. CASE RetainRetry(t) \/ ReleaseRetry(t)
    BY <2>2, RetryKeeps DEF RetainRetry, ReleaseRetry
  <2>3. CASE (\E s \in Slots : FreeField(t, s)) \/ FreeBlock(t)
    BY <2>3, FreeFieldStep, FreeBlockStep
  <2>4. QED
    BY <1>3, <2>1, <2>2, <2>3 DEF Runtime
<1>4. QED
  BY <1>1, <1>2, <1>3 DEF Next

-----------------------------------------------------------------------------
(* Fields never form a cycle.                                               *)

(* A step that stores no address in a field keeps the fields free of cycles.   *)
LEMMA CyclesKept ==
  ASSUME NoCycles,
         \A s \in Slots : ptr'[s] \in Blocks /\ home'[s] \in Blocks
                          => ptr'[s] = ptr[s] /\ home'[s] = home[s]
  PROVE  NoCycles'
<1> SUFFICES ASSUME NEW G \in SUBSET Blocks, G # {}
             PROVE  \E b \in G : \A s \in Slots : ptr'[s] = b => home'[s] \notin G
  BY DEF NoCycles
<1>1. PICK b \in G : \A s \in Slots : ptr[s] = b => home[s] \notin G
  BY DEF NoCycles
<1>2. QED
  BY <1>1

(* A new block is a field of nothing, and its own fields are older.            *)
LEMMA AllocCycles ==
  ASSUME CountInv, NoCycles, NEW t \in Threads, NEW b \in Blocks, NEW n \in Slots,
         NEW kids \in SUBSET Held(t), Alloc(t, b, n, kids)
  PROVE  NoCycles'
<1>1. /\ ptr' = [ptr EXCEPT ![n] = b]
      /\ home' = [s \in Slots |-> IF s = n THEN t ELSE IF s \in kids THEN b ELSE home[s]]
      /\ b \notin heap /\ ptr[n] = Nil
  BY DEF Alloc, Unused
<1>2. \A s \in Slots : ptr[s] # b
  <2>1. rc[b] \in Nat /\ ~(rc[b] > 0)
    BY <1>1, RcMaxLarge DEF CountInv, TypeOK, HeapAccounted
  <2>2. QED
    BY <2>1, Referenced DEF CountInv
<1>3. \A s \in Slots : ptr'[s] = b => home'[s] \notin Blocks
  BY <1>1, <1>2, HomesApart DEF CountInv, TypeOK
<1> SUFFICES ASSUME NEW G \in SUBSET Blocks, G # {}
             PROVE  \E c \in G : \A s \in Slots : ptr'[s] = c => home'[s] \notin G
  BY DEF NoCycles
<1>4. CASE b \in G
  BY <1>3, <1>4
<1>5. CASE b \notin G
  <2>1. PICK c \in G : \A s \in Slots : ptr[s] = c => home[s] \notin G
    BY DEF NoCycles
  <2>2. \A s \in Slots : ptr'[s] = c => ptr[s] = c
    BY <1>1, <1>5 DEF CountInv, TypeOK
  <2>3. \A s \in Slots : home'[s] \in G => home'[s] = home[s]
    BY <1>1, <1>5, HomesApart
  <2>4. QED
    BY <2>1, <2>2, <2>3
<1>6. QED
  BY <1>4, <1>5

LEMMA CyclesStep ==
  ASSUME CountInv, CountInv', NoCycles, Next
  PROVE  NoCycles'
<1>1. ASSUME NEW t \in Threads, Mutate(t) PROVE NoCycles'
  <2>0. t \notin Blocks
    BY HomesApart
  <2>1. ASSUME NEW b \in Statics, NEW n \in Slots, LoadConst(t, b, n) PROVE NoCycles'
    <3>1. \A s \in Slots : home'[s] \in Blocks => ptr'[s] = ptr[s] /\ home'[s] = home[s]
      BY <2>0, <2>1 DEF LoadConst, CountInv, TypeOK
    <3>2. QED
      BY <3>1, CyclesKept
  <2>2. ASSUME NEW b \in Blocks, NEW n \in Slots, NEW kids \in SUBSET Held(t), Alloc(t, b, n, kids)
        PROVE  NoCycles'
    BY <2>2, AllocCycles
  <2>3. ASSUME NEW u \in Threads \ {t}, NEW s \in Slots, HandOff(t, u, s) PROVE NoCycles'
    <3>1. \A k \in Slots : home'[k] \in Blocks => ptr'[k] = ptr[k] /\ home'[k] = home[k]
      BY <2>3, HomesApart DEF HandOff, CountInv, TypeOK
    <3>2. QED
      BY <3>1, CyclesKept
  <2>4. ASSUME NEW s \in Slots, NEW n \in Slots, Retain(t, s, n) PROVE NoCycles'
    <3>1. \A k \in Slots : home'[k] \in Blocks => ptr'[k] = ptr[k] /\ home'[k] = home[k]
      BY <2>0, <2>4 DEF Retain, CountInv, TypeOK
    <3>2. QED
      BY <3>1, CyclesKept
  <2>5. ASSUME NEW s \in Slots, Release(t, s) PROVE NoCycles'
    BY <2>5, CyclesKept DEF Release, BeginRelease
  <2>6. QED
    BY <1>1, <2>1, <2>2, <2>3, <2>4, <2>5 DEF Mutate
<1>2. ASSUME NEW t \in Threads, Runtime(t) PROVE NoCycles'
  <2>1. CASE RetainImmortal(t) \/ RetainSwap(t)
    <3>1. /\ pc[t] = "retain" /\ UNCHANGED home
          /\ ptr' = [ptr EXCEPT ![slot[t]] = sub[t]]
      BY <2>1 DEF RetainImmortal, RetainSwap, RetainReturn
    <3>2. home[slot[t]] \notin Blocks
      BY <3>1, HomesApart DEF CountInv, CallsOK, RetainOK
    <3>3. \A s \in Slots : home'[s] \in Blocks => ptr'[s] = ptr[s] /\ home'[s] = home[s]
      BY <3>1, <3>2 DEF CountInv, TypeOK
    <3>4. QED
      BY <3>3, CyclesKept
  <2>2. CASE ReleaseImmortal(t) \/ ReleaseSwap(t)
    <3>1. /\ ptr' = [ptr EXCEPT ![slot[t]] = Nil]
          /\ home' = [home EXCEPT ![slot[t]] = Nil]
      BY <2>2 DEF ReleaseImmortal, ReleaseSwap, ReleaseReturn
    <3>2. \A s \in Slots : ptr'[s] \in Blocks => ptr'[s] = ptr[s] /\ home'[s] = home[s]
      BY <3>1, NilApart DEF CountInv, TypeOK
    <3>3. QED
      BY <3>2, CyclesKept
  <2>3. CASE \/ RetainRetry(t) \/ ReleaseRetry(t) \/ FreeBlock(t)
             \/ \E s \in Slots : FreeField(t, s)
    BY <2>3, CyclesKept DEF RetainRetry, ReleaseRetry, FreeBlock, FreeField, BeginRelease
  <2>4. QED
    BY <1>2, <2>1, <2>2, <2>3 DEF Runtime
<1>3. QED
  BY <1>1, <1>2 DEF Next

-----------------------------------------------------------------------------
(* The theorems.                                                            *)

(* The inductive invariant holds in every state of every execution: counts,   *)
(* stacks of frees and calls in progress always fit together, and fields do   *)
(* not form a cycle.                                                        *)
THEOREM Inductive == Spec => []IndInv
<1>1. Init => IndInv
  <2> SUFFICES ASSUME Init PROVE IndInv
    OBVIOUS
  <2>1. CountInv
    BY InitInv
  <2>2. NoCycles
    BY NilApart DEF Init, NoCycles
  <2>3. QED
    BY <2>1, <2>2 DEF IndInv
<1>2. IndInv /\ [Next]_vars => IndInv'
  <2> SUFFICES ASSUME IndInv, [Next]_vars PROVE IndInv'
    OBVIOUS
  <2>1. CountInv'
    BY StepKeepsInv DEF IndInv
  <2>2. CASE Next
    BY <2>1, <2>2, CyclesStep DEF IndInv
  <2>3. CASE UNCHANGED vars
    BY <2>1, <2>3, CyclesKept DEF IndInv, vars
  <2>4. QED
    BY <2>2, <2>3
<1>3. QED
  BY <1>1, <1>2, PTL DEF Spec

LEMMA Counted == Spec => []CountInv
<1>1. IndInv => CountInv
  BY DEF IndInv
<1>2. QED
  BY <1>1, Inductive, PTL

(* A block nobody can reach is never left behind: among blocks that are out of  *)
(* reach one would be a field of none of the others, but something refers to it,  *)
(* and what refers to it is either a thread or a block that is reached.           *)
THEOREM NeverGarbage == Spec => []NoGarbage
<1>1. IndInv => NoGarbage
  <2> SUFFICES ASSUME IndInv, NEW b \in heap, NEW S \in SUBSET heap,
                      Anchors \subseteq S, ClosedUnderFields(S), b \notin S
               PROVE  FALSE
    BY DEF NoGarbage, Anchored
  <2> DEFINE G == heap \ S
  <2>1. G \in SUBSET Blocks /\ G # {}
    BY DEF IndInv, CountInv, TypeOK
  <2>2. PICK c \in G : \A s \in Slots : ptr[s] = c => home[s] \notin G
    BY <2>1 DEF IndInv, NoCycles
  <2>3. c \in Blocks /\ ~Freeing(c) /\ rc[c] # RcMax
    BY <2>1 DEF Anchors
  <2>4. PICK s \in Slots : ptr[s] = c
    <3>1. rc[c] > 0 /\ rc[c] = Cardinality(RefsTo(c))
      BY <2>3 DEF IndInv, CountInv, HeapAccounted, CountExact
    <3>2. RefsTo(c) # {}
      BY <3>1, FS_EmptySet
    <3>3. QED
      BY <3>2 DEF RefsTo
  <2>5. home[s] \in Threads \cup Blocks
    BY <2>3, <2>4, NilApart DEF IndInv, CountInv, TypeOK, SlotHomed
  <2>6. home[s] \notin Threads
    <3> SUFFICES ASSUME home[s] \in Threads PROVE FALSE
      OBVIOUS
    <3>1. s \in Held(home[s])
      BY <2>3, <2>4, NilApart DEF Held
    <3>2. ptr[s] \in Anchors
      BY <3>1 DEF Anchors
    <3>3. QED
      BY <2>4, <3>2
  <2>7. home[s] \in S
    BY <2>2, <2>4, <2>5, <2>6 DEF IndInv, CountInv, SlotHomed
  <2>8. c \in S
    BY <2>3, <2>4, <2>7, NilApart DEF ClosedUnderFields
  <2>9. QED
    BY <2>8
<1>2. QED
  BY <1>1, Inductive, PTL

(* Every variable of the heap always has its type.                           *)
THEOREM TypeCorrect == Spec => []TypeOK
<1>1. IndInv => TypeOK
  BY DEF IndInv, CountInv
<1>2. QED
  BY <1>1, Inductive, PTL

(* pipe_rt_retain and pipe_rt_release_ptr never lose or repeat an update: a    *)
(* count is the number of slots that hold the block's address.               *)
THEOREM CountsExact == Spec => []CountExact
<1>1. IndInv => CountExact
  BY DEF IndInv, CountInv
<1>2. QED
  BY <1>1, Inductive, PTL

(* No slot, field or call in progress refers to a block that was returned to   *)
(* the allocator: no use after free and no double free.                       *)
THEOREM NeverDangling == Spec => []NoDangling
<1>1. CountInv => NoDangling
  <2> SUFFICES ASSUME CountInv PROVE NoDangling
    OBVIOUS
  <2>1. \A b \in Blocks : rc[b] \in Nat /\ rc[b] > 0 => b \in heap
    BY DEF CountInv, HeapAccounted
  <2>2. ASSUME NEW s \in Slots, ptr[s] # Nil PROVE ptr[s] \in heap
    <3>1. ptr[s] \in Blocks
      BY <2>2 DEF CountInv, TypeOK
    <3>2. QED
      BY <2>1, <3>1, Referenced DEF CountInv
  <2>3. ASSUME NEW s \in Slots, home[s] \in Blocks PROVE home[s] \in heap
    BY <2>3 DEF CountInv, SlotHomed
  <2>4. ASSUME NEW t \in Threads, pc[t] # "run" PROVE sub[t] \in heap
    BY <2>1, <2>4, SubjectCounted
  <2>5. QED
    BY <2>2, <2>3, <2>4 DEF NoDangling
<1>2. QED
  BY <1>1, Counted, PTL

(* A saturated count stays saturated and its block stays allocated.           *)
THEOREM Immortality == Spec => ImmortalForever
<1>1. CountInv /\ CountInv' /\ [Next]_vars =>
        [\A b \in Blocks : rc[b] = RcMax => rc'[b] = RcMax /\ b \in heap']_vars
  <2> SUFFICES ASSUME CountInv, CountInv', Next, NEW b \in Blocks, rc[b] = RcMax
               PROVE  rc'[b] = RcMax /\ b \in heap'
    OBVIOUS
  <2>1. rc'[b] = RcMax
    <3>1. b \in heap
      BY RcMaxLarge DEF CountInv, HeapAccounted
    <3>2. ASSUME NEW t \in Threads, Mutate(t) PROVE rc'[b] = RcMax
      BY <3>1, <3>2 DEF Mutate, LoadConst, Alloc, HandOff, Retain, Release, BeginRelease, CountInv, TypeOK
    <3>3. ASSUME NEW t \in Threads, Runtime(t) PROVE rc'[b] = RcMax
      <4>1. CASE RetainSwap(t) \/ ReleaseSwap(t)
        BY <4>1 DEF RetainSwap, ReleaseSwap, CountInv, TypeOK
      <4>2. CASE ~(RetainSwap(t) \/ ReleaseSwap(t))
        BY <3>3, <4>2 DEF Runtime, RetainImmortal, RetainRetry, ReleaseImmortal, ReleaseRetry,
                          FreeField, FreeBlock, BeginRelease
      <4>3. QED
        BY <4>1, <4>2
    <3>4. QED
      BY <3>2, <3>3 DEF Next
  <2>2. b \in heap'
    BY <2>1, RcMaxLarge DEF CountInv, HeapAccounted
  <2>3. QED
    BY <2>1, <2>2
<1>2. QED
  BY <1>1, Counted, PTL DEF Spec, ImmortalForever

-----------------------------------------------------------------------------
(* Refinement.                                                              *)

(* A thread retains only what it can reach, so what a retain shares is already *)
(* referenced.                                                              *)
LEMMA ShareMapped ==
  ASSUME CountInv, NEW t \in Threads, pc[t] = "retain", RetainReturn(t)
  PROVE  Promise!Next
<1>1. slot[t] \in Slots /\ ptr[slot[t]] = Nil /\ sub[t] \in Blocks
  BY SubjectCounted DEF CountInv, CallsOK, RetainOK
<1>2. \E s \in Slots : ptr[s] = sub[t]
  BY DEF CountInv, CallsOK, RetainOK, Held, Borrowed
<1>3. Promise!Share(sub[t], slot[t])
  BY <1>1, <1>2 DEF RetainReturn, Promise!Share, Promise!Unreferenced
<1>4. QED
  BY <1>1, <1>3 DEF Promise!Next

LEMMA DropMapped ==
  ASSUME CountInv, NEW t \in Threads, pc[t] = "release", ReleaseReturn(t)
  PROVE  Promise!Next
<1>1. slot[t] \in Slots /\ ptr[slot[t]] # Nil
  BY DEF CountInv, CallsOK, ReleaseOK
<1>2. Promise!Drop(slot[t])
  BY <1>1 DEF ReleaseReturn, Promise!Drop
<1>3. QED
  BY <1>1, <1>2 DEF Promise!Next

LEMMA ReclaimMapped ==
  ASSUME CountInv, NEW t \in Threads, FreeBlock(t)
  PROVE  Promise!Next
<1>1. PICK h \in Blocks : h = Head(frames[t])
  BY TopFrame DEF FreeBlock
<1>2. h \in heap \ Statics /\ \A s \in Slots : ptr[s] # h
  BY <1>1, TopFrame DEF FreeBlock, RefsTo
<1>3. Promise!Reclaim(h)
  BY <1>1, <1>2 DEF FreeBlock, Promise!Reclaim, Promise!Unreferenced
<1>4. QED
  BY <1>3 DEF Promise!Next

LEMMA StepMapped == CountInv /\ [Next]_vars => [Promise!Next]_(Promise!vars)
<1> SUFFICES ASSUME CountInv, [Next]_vars
             PROVE  Promise!Next \/ UNCHANGED <<heap, ptr>>
  BY DEF Promise!vars
<1>1. CASE UNCHANGED vars
  BY <1>1 DEF vars
<1>2. ASSUME NEW t \in Threads, Mutate(t) PROVE Promise!Next \/ UNCHANGED <<heap, ptr>>
  <2>1. ASSUME NEW b \in Statics, NEW n \in Slots, LoadConst(t, b, n) PROVE Promise!Next
    <3>1. Promise!Share(b, n)
      BY <2>1 DEF LoadConst, Unused, Promise!Share
    <3>2. QED
      BY <3>1, StaticsInBlocks DEF Promise!Next
  <2>2. ASSUME NEW b \in Blocks, NEW n \in Slots, NEW kids \in SUBSET Held(t), Alloc(t, b, n, kids)
        PROVE  Promise!Next
    <3>1. Promise!Create(b, n)
      BY <2>2 DEF Alloc, Unused, Promise!Create
    <3>2. QED
      BY <3>1 DEF Promise!Next
  <2>3. QED
    BY <1>2, <2>1, <2>2 DEF Mutate, HandOff, Retain, Release, BeginRelease
<1>3. ASSUME NEW t \in Threads, Runtime(t) PROVE Promise!Next \/ UNCHANGED <<heap, ptr>>
  <2>1. CASE RetainImmortal(t) \/ RetainSwap(t)
    BY <2>1, ShareMapped DEF RetainImmortal, RetainSwap
  <2>2. CASE ReleaseImmortal(t) \/ ReleaseSwap(t)
    BY <2>2, DropMapped DEF ReleaseImmortal, ReleaseSwap
  <2>3. CASE FreeBlock(t)
    BY <2>3, ReclaimMapped
  <2>4. CASE RetainRetry(t) \/ ReleaseRetry(t) \/ \E s \in Slots : FreeField(t, s)
    BY <2>4 DEF RetainRetry, ReleaseRetry, FreeField, BeginRelease
  <2>5. QED
    BY <1>3, <2>1, <2>2, <2>3, <2>4 DEF Runtime
<1>4. QED
  BY <1>1, <1>2, <1>3 DEF Next

(* The counted heap, with its compare-and-swap loops and its recursive free,   *)
(* implements references that keep values alive until the last one is gone.   *)
THEOREM Implementation == Spec => ImplementsRefGraph
<1>1. Init => Promise!Init
  BY DEF Init, Promise!Init
<1>2. CountInv /\ [Next]_vars => [Promise!Next]_(Promise!vars)
  BY StepMapped
<1>3. QED
  BY <1>1, <1>2, Counted, PTL DEF Spec, ImplementsRefGraph, Promise!Spec
=============================================================================
