----------------------------- MODULE FramePool -----------------------------
(***************************************************************************)
(* The physical frame allocator, frames.rs: a bitmap, a search hint and a  *)
(* live count.  Its callers run on one hart and never inside each other,   *)
(* so each call is one step.  free takes any address: free_subtree also    *)
(* passes it the pages of read-only windows, which lie outside the pool.   *)
(***************************************************************************)
EXTENDS Integers, FiniteSets

CONSTANTS
    PoolFrames,   \* POOL_FRAMES
    PoolBase,     \* POOL_BASE
    FrameSize,    \* FRAME_SIZE
    NoFrame       \* alloc's None

Frames == 0 .. PoolFrames - 1
PoolEnd == PoolBase + PoolFrames * FrameSize

(* Addresses a caller may hand to free: below, inside (aligned to a frame  *)
(* or not) and above the pool.                                             *)
Address == 0 .. PoolEnd + FrameSize

ASSUME PoolAssumption ==
    /\ PoolFrames \in Nat \ {0}
    /\ PoolBase \in Nat
    /\ FrameSize \in Nat \ {0}
    /\ NoFrame \notin Frames

VARIABLES
    bitmap,      \* BITMAP: bitmap[f] is TRUE when frame f is taken
    hint,        \* NEXT_HINT
    allocated,   \* ALLOCATED
    got          \* the last answer of alloc

vars == <<bitmap, hint, allocated, got>>

Init ==
    /\ bitmap = [f \in Frames |-> FALSE]
    /\ hint = 0
    /\ allocated = 0
    /\ got = NoFrame

(* The i-th frame a search from the hint looks at.                         *)
Probe(i) == ((hint % PoolFrames) + i) % PoolFrames

(* alloc: the first free frame from the hint on, wrapping around.          *)
(* Mutant: the bitmap is not looked at.                                    *)
Alloc_Untested(i) ==
    LET f == Probe(i)
    IN  /\ i = 0
        /\ bitmap' = [bitmap EXCEPT ![f] = TRUE]
        /\ allocated' = allocated + 1
        /\ hint' = f + 1
        /\ got' = f

Alloc(i) ==
    LET f == Probe(i)
    IN  /\ ~bitmap[f]
        /\ \A j \in 0 .. i - 1 : bitmap[Probe(j)]
        /\ bitmap' = [bitmap EXCEPT ![f] = TRUE]
        /\ allocated' = allocated + 1
        /\ hint' = f + 1
        /\ got' = f

(* alloc: every frame was looked at and none is free.                      *)
(* Mutant: the search stops one frame short.                               *)
AllocNone_Short ==
    /\ \A i \in 0 .. PoolFrames - 2 : bitmap[Probe(i)]
    /\ got' = NoFrame
    /\ UNCHANGED <<bitmap, hint, allocated>>

AllocNone ==
    /\ \A i \in 0 .. PoolFrames - 1 : bitmap[Probe(i)]
    /\ got' = NoFrame
    /\ UNCHANGED <<bitmap, hint, allocated>>

InPool(pa) == pa >= PoolBase /\ pa < PoolEnd /\ (pa - PoolBase) % FrameSize = 0
FrameAt(pa) == (pa - PoolBase) \div FrameSize

(* free: clears a taken frame, and nothing for a foreign address or a      *)
(* frame that is free already.  Mutant: a second free counts again.        *)
Free_Uncounted(pa) ==
    /\ InPool(pa)
    /\ bitmap' = [bitmap EXCEPT ![FrameAt(pa)] = FALSE]
    /\ allocated' = allocated - 1
    /\ UNCHANGED <<hint, got>>

Free(pa) ==
    /\ InPool(pa) /\ bitmap[FrameAt(pa)]
    /\ bitmap' = [bitmap EXCEPT ![FrameAt(pa)] = FALSE]
    /\ allocated' = allocated - 1
    /\ UNCHANGED <<hint, got>>

FreeIgnored(pa) ==
    /\ ~(InPool(pa) /\ bitmap[FrameAt(pa)])
    /\ UNCHANGED vars

Next ==
    \/ \E i \in Frames : Alloc(i)
    \/ AllocNone
    \/ \E pa \in Address : Free(pa) \/ FreeIgnored(pa)

Spec == Init /\ [][Next]_vars

-----------------------------------------------------------------------------
Taken == {f \in Frames : bitmap[f]}

(* The bitmap, the hint (at most one past the last frame), the count and   *)
(* the last answer keep their types.                                       *)
TypeOK ==
    /\ bitmap \in [Frames -> BOOLEAN]
    /\ hint \in 0 .. PoolFrames
    /\ allocated \in 0 .. PoolFrames
    /\ got \in Frames \cup {NoFrame}

(* The count the "memory" resource reports is the number of taken frames,  *)
(* so it never drifts or wraps below zero, double frees included.          *)
CountIsTaken == allocated = Cardinality(Taken)

(* The pool implements its contract: alloc never hands out a frame that is *)
(* taken and is never refused while one is free, wherever the hint stands. *)
Contract == INSTANCE FramePoolSpec WITH taken <- Taken, got <- got
Implements == Contract!Spec

=============================================================================
