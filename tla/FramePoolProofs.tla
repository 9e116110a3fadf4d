-------------------------- MODULE FramePoolProofs --------------------------
(* The frame pool's count and contract, for a pool of any size.            *)
EXTENDS FramePool, FiniteSetTheorems, TLAPS

(* Wrapping around a pool of n frames.                                     *)
LEMMA WrapLemma ==
    ASSUME NEW n \in Nat \ {0}, NEW k \in 0 .. n - 1
    PROVE  k % n = k /\ (k + n) % n = k
OBVIOUS

(* A probe is a frame of the pool, and the probes 0 .. PoolFrames - 1 meet *)
(* every frame: alloc's search is complete wherever the hint stands.       *)
LEMMA ProbeInPool ==
    ASSUME hint \in Nat, NEW i \in Nat
    PROVE  Probe(i) \in Frames
BY PoolAssumption DEF Probe, Frames

LEMMA ProbesMeetAll ==
    ASSUME hint \in Nat, NEW f \in Frames
    PROVE  \E i \in Frames : Probe(i) = f
<1> DEFINE s == hint % PoolFrames
<1>1. s \in 0 .. PoolFrames - 1
  BY PoolAssumption
<1>2. CASE f >= s
  <2>1. f - s \in Frames /\ s + (f - s) = f
    BY <1>1, <1>2, PoolAssumption DEF Frames
  <2>2. f % PoolFrames = f
    BY PoolAssumption, WrapLemma DEF Frames
  <2> QED
    BY <2>1, <2>2 DEF Probe
<1>3. CASE f < s
  <2>1. f - s + PoolFrames \in Frames /\ s + (f - s + PoolFrames) = f + PoolFrames
    BY <1>1, <1>3, PoolAssumption DEF Frames
  <2>2. (f + PoolFrames) % PoolFrames = f
    BY PoolAssumption, WrapLemma DEF Frames
  <2> QED
    BY <2>1, <2>2 DEF Probe
<1> QED
  BY <1>1, <1>2, <1>3, PoolAssumption DEF Frames

-----------------------------------------------------------------------------
(* free's arithmetic: an aligned address of the pool is the address of a   *)
(* frame of the pool.                                                      *)
LEMMA FrameAtInPool ==
    ASSUME NEW pa \in Address, InPool(pa)
    PROVE  FrameAt(pa) \in Frames
<1> DEFINE d == pa - PoolBase
           k == d \div FrameSize
<1>1. d \in Nat /\ d < PoolFrames * FrameSize /\ d % FrameSize = 0
  BY PoolAssumption DEF Address, InPool, PoolEnd
<1>2. k \in Nat /\ d = k * FrameSize
  BY <1>1, PoolAssumption
<1>3. k < PoolFrames
  <2>1. SUFFICES ASSUME k >= PoolFrames PROVE FALSE
    BY <1>2, PoolAssumption
  <2>2. k * FrameSize >= PoolFrames * FrameSize
    BY <2>1, <1>2, PoolAssumption
  <2> QED
    BY <1>1, <1>2, <2>2, PoolAssumption
<1> QED
  BY <1>2, <1>3, PoolAssumption DEF FrameAt, Frames

(* The taken frames are a finite set, whose size bounds the count.         *)
LEMMA TakenFinite ==
    /\ IsFiniteSet(Taken)
    /\ Cardinality(Taken) \in 0 .. PoolFrames
<1>1. IsFiniteSet(Frames) /\ Cardinality(Frames) = PoolFrames
  BY FS_Interval, PoolAssumption DEF Frames
<1>2. Taken \in SUBSET Frames
  BY DEF Taken
<1>3. IsFiniteSet(Taken) /\ Cardinality(Taken) <= Cardinality(Frames)
  BY <1>1, <1>2, FS_Subset
<1> QED
  BY <1>1, <1>3, FS_CardinalityType, PoolAssumption

(* The count is inductive only together with the types: a set or cleared   *)
(* bit must belong to the pool for the number of taken frames to follow.   *)
IndInv == TypeOK /\ CountIsTaken

LEMMA PoolInit == Init => IndInv
<1> SUFFICES ASSUME Init PROVE IndInv
  OBVIOUS
<1>1. TypeOK
  BY PoolAssumption DEF Init, TypeOK
<1>2. Taken = {}
  BY DEF Init, Taken
<1>3. CountIsTaken
  BY <1>2, FS_EmptySet DEF Init, CountIsTaken
<1> QED
  BY <1>1, <1>3 DEF IndInv

LEMMA PoolNext == IndInv /\ [Next]_vars => IndInv'
<1> SUFFICES ASSUME IndInv, [Next]_vars PROVE IndInv'
  OBVIOUS
<1> USE DEF IndInv
<1>0. IsFiniteSet(Taken') /\ Cardinality(Taken') \in 0 .. PoolFrames
  <2>1. Taken' \in SUBSET Frames /\ IsFiniteSet(Frames) /\ Cardinality(Frames) = PoolFrames
    BY FS_Interval, PoolAssumption DEF Frames, Taken
  <2> QED
    BY <2>1, FS_Subset, FS_CardinalityType, PoolAssumption
<1>1. ASSUME NEW i \in Frames, Alloc(i) PROVE IndInv'
  <2> DEFINE f == Probe(i)
  <2>1. f \in Frames /\ hint \in Nat
    BY ProbeInPool, PoolAssumption DEF TypeOK, Frames
  <2>2. Taken' = Taken \cup {f} /\ f \notin Taken
    BY <1>1, <2>1 DEF Alloc, Taken, TypeOK
  <2>3. Cardinality(Taken') = Cardinality(Taken) + 1
    BY <2>2, TakenFinite, FS_AddElement
  <2>4. allocated' = Cardinality(Taken')
    BY <1>1, <2>3 DEF Alloc, CountIsTaken
  <2>5. bitmap' \in [Frames -> BOOLEAN] /\ hint' \in 0 .. PoolFrames /\ got' \in Frames
    BY <1>1, <2>1, PoolAssumption DEF Alloc, TypeOK, Frames
  <2> QED
    BY <1>0, <2>4, <2>5 DEF TypeOK, CountIsTaken
<1>2. CASE AllocNone
  BY <1>2 DEF AllocNone, TypeOK, CountIsTaken, Taken
<1>3. ASSUME NEW pa \in Address, Free(pa) PROVE IndInv'
  <2> DEFINE f == FrameAt(pa)
  <2>1. f \in Frames
    BY <1>3, FrameAtInPool DEF Free
  <2>2. Taken' = Taken \ {f} /\ f \in Taken
    BY <1>3, <2>1 DEF Free, Taken, TypeOK
  <2>3. Cardinality(Taken') = Cardinality(Taken) - 1
    BY <2>2, TakenFinite, FS_RemoveElement
  <2>4. allocated' = Cardinality(Taken')
    BY <1>3, <2>3 DEF Free, CountIsTaken
  <2>5. bitmap' \in [Frames -> BOOLEAN] /\ UNCHANGED <<hint, got>>
    BY <1>3, <2>1 DEF Free, TypeOK
  <2> QED
    BY <1>0, <2>4, <2>5 DEF TypeOK, CountIsTaken
<1>4. ASSUME NEW pa \in Address, FreeIgnored(pa) PROVE IndInv'
  BY <1>4 DEF FreeIgnored, vars, TypeOK, CountIsTaken, Taken
<1>5. CASE UNCHANGED vars
  BY <1>5 DEF vars, TypeOK, CountIsTaken, Taken
<1> QED
  BY <1>1, <1>2, <1>3, <1>4, <1>5 DEF Next

(* The pool keeps its types: the hint stays within one past the last frame *)
(* and the count within the pool, for every pool size.                     *)
THEOREM PoolTypes == Spec => []TypeOK
<1>1. IndInv => TypeOK
  BY DEF IndInv
<1> QED
  BY <1>1, PoolInit, PoolNext, PTL DEF Spec

(* The count the "memory" resource reports is the number of taken frames   *)
(* in every reachable state, double frees and foreign addresses included.  *)
THEOREM PoolCount == Spec => []CountIsTaken
<1>1. IndInv => CountIsTaken
  BY DEF IndInv
<1> QED
  BY <1>1, PoolInit, PoolNext, PTL DEF Spec

-----------------------------------------------------------------------------
(* Every step of the allocator is a step of its contract or changes        *)
(* nothing the contract can see.                                           *)
LEMMA StepImplements ==
    IndInv /\ [Next]_vars => [Contract!Next]_<<Taken, got>>
<1> SUFFICES ASSUME IndInv, [Next]_vars
             PROVE  [Contract!Next]_<<Taken, got>>
  OBVIOUS
<1>0. hint \in Nat /\ TypeOK
  BY PoolAssumption DEF IndInv, TypeOK
<1>1. ASSUME NEW i \in Frames, Alloc(i) PROVE Contract!Next
  <2>1. Probe(i) \in Frames
    BY <1>0, ProbeInPool, PoolAssumption DEF Frames
  <2>2. Taken' = Taken \cup {Probe(i)} /\ Probe(i) \notin Taken /\ got' = Probe(i)
    BY <1>0, <1>1, <2>1 DEF Alloc, Taken, TypeOK
  <2>3. Contract!Hand(Probe(i))
    BY <2>2 DEF Contract!Hand
  <2> QED
    BY <2>1, <2>3 DEF Contract!Next, Contract!Frames, Frames
<1>2. CASE AllocNone
  <2>1. \A f \in Frames : bitmap[f]
    BY <1>0, <1>2, ProbesMeetAll DEF AllocNone, Frames
  <2>2. Taken = Frames /\ Taken' = Taken
    BY <1>2, <2>1 DEF AllocNone, Taken
  <2> QED
    BY <1>2, <2>2 DEF AllocNone, Contract!Next, Contract!Refuse, Contract!Frames, Frames
<1>3. ASSUME NEW pa \in Address, Free(pa) PROVE Contract!Next
  <2>1. FrameAt(pa) \in Frames
    BY <1>3, FrameAtInPool DEF Free
  <2>2. Taken' = Taken \ {FrameAt(pa)} /\ got' = got
    BY <1>0, <1>3, <2>1 DEF Free, Taken, TypeOK
  <2>3. Contract!Return(FrameAt(pa))
    BY <2>2 DEF Contract!Return
  <2> QED
    BY <2>1, <2>3 DEF Contract!Next, Contract!Frames, Frames
<1>4. ASSUME NEW pa \in Address, FreeIgnored(pa) PROVE UNCHANGED <<Taken, got>>
  BY <1>4 DEF FreeIgnored, vars, Taken
<1>5. CASE UNCHANGED vars
  BY <1>5 DEF vars, Taken
<1> QED
  BY <1>1, <1>2, <1>3, <1>4, <1>5 DEF Next

(* The bitmap allocator implements its contract for every pool size and    *)
(* every position of the hint: no frame is handed out twice, and alloc is  *)
(* refused only when the pool is exhausted.                                *)
THEOREM PoolImplements == Spec => Implements
<1>1. Init => Contract!Init
  BY DEF Init, Contract!Init, Taken
<1> QED
  BY <1>1, PoolInit, PoolNext, StepImplements, PTL
     DEF Spec, Implements, Contract!Spec

=============================================================================
