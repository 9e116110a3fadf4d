--------------------------- MODULE FramePoolSpec ---------------------------
(***************************************************************************)
(* What the frame pool promises its callers, whatever its search order:    *)
(* an allocation hands out a frame nobody holds and is refused only when   *)
(* there is none; a frame comes back at most once, and an address that is  *)
(* not a frame of the pool is ignored.                                     *)
(***************************************************************************)
EXTENDS Integers

CONSTANTS PoolFrames, NoFrame
VARIABLES taken, got

Frames == 0 .. PoolFrames - 1

Init == taken = {} /\ got = NoFrame

Hand(f) ==
    /\ f \notin taken
    /\ taken' = taken \cup {f}
    /\ got' = f

Refuse ==
    /\ taken = Frames
    /\ got' = NoFrame
    /\ UNCHANGED taken

Return(f) ==
    /\ taken' = taken \ {f}
    /\ UNCHANGED got

Next == Refuse \/ \E f \in Frames : Hand(f) \/ Return(f)

Spec == Init /\ [][Next]_<<taken, got>>

=============================================================================
