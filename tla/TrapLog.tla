------------------------------ MODULE TrapLog ------------------------------
(***************************************************************************)
(* What traps.rs remembers of the traps it handles: the trap ring, the     *)
(* ring of notable (non-timer) traps, the tallies, and the deadline of the *)
(* next tick.  Traps are handled with interrupts off and the readers mask  *)
(* them, so a trap is one step and a reader sees a state between steps.    *)
(*                                                                         *)
(* A trap is its number and its cause; the register values a slot also     *)
(* holds, and the gaps other events leave between ids, are left out.  The  *)
(* history variable log lists every trap ever handled.                     *)
(***************************************************************************)
EXTENDS Integers, Sequences, FiniteSets

CONSTANTS
    RingSize,       \* RING_SIZE
    NotableSize,    \* NOTABLE_SIZE
    Interval,       \* TICK_INTERVAL
    MaxLate,        \* most time from a tick's deadline to its handler
    MaxTraps,       \* bound on the traps of a behaviour
    Budgets         \* the budgets the digest may be asked for

ASSUME LogAssumption ==
    /\ RingSize \in Nat \ {0}
    /\ NotableSize \in Nat \ {0}
    /\ Interval \in Nat \ {0}
    /\ MaxLate \in Nat
    /\ MaxTraps \in Nat
    /\ Budgets \subseteq Nat

VARIABLES
    ring, ringCount,              \* RING, RING_COUNT
    notable, notableCount,        \* NOTABLE, NOTABLE_COUNT
    ticks, ecalls, faultTraps,    \* TICKS, ECALL_TRAPS, FAULT_TRAPS
    autonomous,                   \* AUTONOMOUS
    now, nextDeadline,            \* the timebase, NEXT_DEADLINE
    halted,                       \* the machine is shut down
    log                           \* history: the causes of all traps

rings == <<ring, ringCount, notable, notableCount>>
clock == <<now, nextDeadline>>
vars == <<rings, ticks, ecalls, faultTraps, autonomous, clock, halted, log>>

Cause == {"timer", "ecall", "fault"}
RingSlot == [id : Nat, cause : Cause]
NoTrap == [id |-> 0, cause |-> "fault"]

Init ==
    /\ ring = [i \in 0 .. RingSize - 1 |-> NoTrap]
    /\ ringCount = 0
    /\ notable = [i \in 0 .. NotableSize - 1 |-> NoTrap]
    /\ notableCount = 0
    /\ ticks = 0 /\ ecalls = 0 /\ faultTraps = 0
    /\ autonomous = FALSE
    /\ now = 0
    /\ nextDeadline = Interval
    /\ halted = FALSE
    /\ log = <<>>

-----------------------------------------------------------------------------
(* ring_record: the trap goes to its slot of the ring and, unless it is a  *)
(* tick, to the notable ring and a tally.                                  *)
(* Mutant: the slot is taken from the count of notable traps.              *)
Recorded(c) == [id |-> Len(log) + 1, cause |-> c]

ring_record_WrongSlot(c) ==
    /\ ~halted /\ Len(log) < MaxTraps
    /\ log' = Append(log, c)
    /\ ring' = [ring EXCEPT ![notableCount % RingSize] = Recorded(c)]
    /\ ringCount' = ringCount + 1
    /\ notable' = IF c = "timer" THEN notable
                  ELSE [notable EXCEPT ![notableCount % NotableSize] = Recorded(c)]
    /\ notableCount' = IF c = "timer" THEN notableCount ELSE notableCount + 1
    /\ ecalls' = IF c = "ecall" THEN ecalls + 1 ELSE ecalls
    /\ faultTraps' = IF c = "fault" THEN faultTraps + 1 ELSE faultTraps

ring_record(c) ==
    /\ ~halted /\ Len(log) < MaxTraps
    /\ log' = Append(log, c)
    /\ ring' = [ring EXCEPT ![ringCount % RingSize] = Recorded(c)]
    /\ ringCount' = ringCount + 1
    /\ notable' = IF c = "timer" THEN notable
                  ELSE [notable EXCEPT ![notableCount % NotableSize] = Recorded(c)]
    /\ notableCount' = IF c = "timer" THEN notableCount ELSE notableCount + 1
    /\ ecalls' = IF c = "ecall" THEN ecalls + 1 ELSE ecalls
    /\ faultTraps' = IF c = "fault" THEN faultTraps + 1 ELSE faultTraps

(* The next tick: one interval after the last deadline, or after now when  *)
(* the handler has fallen a whole interval behind.                         *)
(* Mutant: no clamp.                                                       *)
Rearmed_NoClamp(t) == nextDeadline + Interval
Rearmed(t) == IF nextDeadline + Interval <= t THEN t + Interval
                                              ELSE nextDeadline + Interval

(* A tick: the autonomy dial decides whether its frame goes to the wire,   *)
(* and nothing else.  Mutants: an autonomous tick is not counted; a tick   *)
(* is counted by ring_record as well.                                      *)
Counted_Reactive == IF autonomous THEN ticks ELSE ticks + 1
Counted_Twice == ticks + 2
Counted == ticks + 1

Tick(late) ==
    /\ ring_record("timer")
    /\ now' = nextDeadline + late
    /\ nextDeadline' = Rearmed(now')
    /\ ticks' = Counted
    /\ UNCHANGED <<autonomous, halted>>

Ecall ==
    /\ ring_record("ecall")
    /\ UNCHANGED <<ticks, autonomous, clock, halted>>

(* A fault of a payload is survived; one of the kernel is reported and     *)
(* shuts the machine down.                                                 *)
Fault(fromUser) ==
    /\ ring_record("fault")
    /\ halted' = ~fromUser
    /\ UNCHANGED <<ticks, autonomous, clock>>

set_autonomous(on) ==
    /\ ~halted
    /\ autonomous' = on
    /\ UNCHANGED <<rings, ticks, ecalls, faultTraps, clock, halted, log>>

Next ==
    \/ \E late \in 0 .. MaxLate : Tick(late)
    \/ Ecall
    \/ \E fromUser \in BOOLEAN : Fault(fromUser)
    \/ \E on \in BOOLEAN : set_autonomous(on)
    \/ halted /\ UNCHANGED vars

Spec == Init /\ [][Next]_vars

-----------------------------------------------------------------------------
(* The readers.                                                            *)
AtMost(n, m) == IF n < m THEN n ELSE m

(* write_ring: the entries from the oldest on.                             *)
write_ring ==
    LET first == IF ringCount > RingSize THEN ringCount - RingSize ELSE 0
    IN  [i \in 1 .. ringCount - first |-> ring[(first + i - 1) % RingSize]]

(* write_digest: the tallies and the newest notable traps, newest first.   *)
write_digest(budget) ==
    LET show == AtMost(AtMost(notableCount, budget), NotableSize)
    IN  [traps |-> ringCount, timer |-> ticks, ecall |-> ecalls,
         fault |-> faultTraps,
         items |-> [i \in 1 .. show |-> notable[(notableCount - i) % NotableSize]],
         elided |-> ringCount - show]

-----------------------------------------------------------------------------
(* The rings, the tallies and the clock keep their types.                  *)
TypeOK ==
    /\ ring \in [0 .. RingSize - 1 -> RingSlot]
    /\ ringCount \in 0 .. MaxTraps
    /\ notable \in [0 .. NotableSize - 1 -> RingSlot]
    /\ notableCount \in 0 .. ringCount
    /\ ticks \in 0 .. ringCount
    /\ ecalls \in 0 .. ringCount
    /\ faultTraps \in 0 .. ringCount
    /\ autonomous \in BOOLEAN
    /\ now \in Nat
    /\ nextDeadline \in Nat
    /\ halted \in BOOLEAN
    /\ log \in Seq(Cause)

(* The ring a dump or a fault frame shows is the end of the log, in order, *)
(* whatever the count and however often the ring has wrapped.              *)
RingIsTail ==
    /\ Len(write_ring) = AtMost(Len(log), RingSize)
    /\ \A i \in 1 .. Len(write_ring) :
          LET n == Len(log) - Len(write_ring) + i
          IN  write_ring[i] = [id |-> n, cause |-> log[n]]

NumberOf(c) == Cardinality({n \in 1 .. Len(log) : log[n] = c})
NotableTraps == {n \in 1 .. Len(log) : log[n] # "timer"}

(* The digest's totals count every trap, the suppressed ticks too, and its *)
(* items are the newest notable traps, newest first, as many as budget and *)
(* ring allow.  They are chosen by age alone: no number of ticks pushes a  *)
(* notable trap out, but later syscalls displace a fault, since            *)
(* write_digest does not rank by severity.                                 *)
DigestTellsTruth ==
    \A budget \in Budgets :
        LET d == write_digest(budget)
        IN  /\ d.traps = Len(log) /\ d.timer = NumberOf("timer")
            /\ d.ecall = NumberOf("ecall") /\ d.fault = NumberOf("fault")
            /\ Len(d.items) = AtMost(Cardinality(NotableTraps),
                                     AtMost(budget, NotableSize))
            /\ \A i \in 1 .. Len(d.items) :
                  LET n == d.items[i].id
                  IN  /\ n \in NotableTraps /\ d.items[i].cause = log[n]
                      /\ Cardinality({m \in NotableTraps : m > n}) = i - 1
            /\ d.elided + Len(d.items) = Len(log)

(* A tick arms the next one in the future and at most one interval ahead,  *)
(* and exactly one interval after its own deadline unless it came a whole  *)
(* interval late: no burst of overdue ticks, and no drift.                 *)
CadenceKept ==
    [][nextDeadline' # nextDeadline =>
          /\ now' < nextDeadline' /\ nextDeadline' <= now' + Interval
          /\ now' < nextDeadline + Interval =>
                nextDeadline' = nextDeadline + Interval]_vars

=============================================================================
