---------------------------- MODULE TrapLogProofs ----------------------------
(***************************************************************************)
(* The trap ring is the end of the log and the tick keeps its cadence, for *)
(* every size of the rings, every interval and every lateness.             *)
(***************************************************************************)
EXTENDS TrapLog, FiniteSetTheorems, TLAPS

(* The slots RING[n % RING_SIZE] of the last RING_SIZE trap numbers are    *)
(* all different: recording a trap overwrites none of the others.          *)
LEMMA SlotsDiffer ==
    ASSUME NEW R \in Nat, R > 0,
           NEW a \in Nat, NEW b \in Nat, a < b, b < a + R
    PROVE  a % R # b % R
<1>1. SUFFICES ASSUME a % R = b % R PROVE FALSE
  OBVIOUS
<1>2. PICK x \in Int : a = R * x + (a % R)
  <2>1. a = R * (a \div R) + (a % R) /\ a \div R \in Int
    OBVIOUS
  <2> QED BY <2>1
<1>3. PICK y \in Int : b = R * y + (b % R)
  <2>1. b = R * (b \div R) + (b % R) /\ b \div R \in Int
    OBVIOUS
  <2> QED BY <2>1
<1>4. a % R \in Int /\ b % R \in Int
  OBVIOUS
<1>5. R * y - R * x = b - a
  BY <1>1, <1>2, <1>3, <1>4
<1>6. R * y - R * x = R * (y - x)
  OBVIOUS
<1>7. CASE y <= x
  <2>1. R * (y - x) <= 0
    BY <1>7
  <2> QED BY <2>1, <1>5, <1>6
<1>8. CASE y >= x + 1
  <2>1. R * (y - x) >= R
    BY <1>8
  <2> QED BY <2>1, <1>5, <1>6
<1> QED BY <1>7, <1>8

-----------------------------------------------------------------------------
(* Where the last traps lie: trap n, the first being number 1, is in slot  *)
(* n - 1 of the ring, modulo its size.                                     *)
RingInv ==
    /\ ringCount = Len(log)
    /\ \A n \in 1 .. Len(log) :
          Len(log) < n + RingSize =>
              ring[(n - 1) % RingSize] = [id |-> n, cause |-> log[n]]

LogInv == TypeOK /\ RingInv

(* What recording a trap does to the ring.                                 *)
LEMMA RecordRing ==
    ASSUME LogInv, NEW c \in Cause, ring_record(c)
    PROVE  /\ ring' \in [0 .. RingSize - 1 -> RingSlot]
           /\ notable' \in [0 .. NotableSize - 1 -> RingSlot]
           /\ log' \in Seq(Cause)
           /\ ringCount' \in 0 .. MaxTraps
           /\ ringCount' = ringCount + 1
           /\ RingInv'
<1> USE LogAssumption DEF LogInv
<1>1. /\ Len(log) \in Nat /\ log \in Seq(Cause)
      /\ ringCount = Len(log) /\ ringCount \in Nat
      /\ notableCount \in Nat
  BY DEF TypeOK, RingInv
<1>2. /\ Len(log') = Len(log) + 1
      /\ log' \in Seq(Cause)
      /\ log'[Len(log) + 1] = c
      /\ \A n \in 1 .. Len(log) : log'[n] = log[n]
  BY <1>1 DEF ring_record
<1>3. Recorded(c) \in RingSlot
  BY <1>1 DEF Recorded, RingSlot
<1>4. ringCount % RingSize \in 0 .. RingSize - 1
  BY <1>1
<1>5. notableCount % NotableSize \in 0 .. NotableSize - 1
  BY <1>1
<1>6. ring' \in [0 .. RingSize - 1 -> RingSlot]
  BY <1>3, <1>4 DEF ring_record, TypeOK
<1>7. notable' \in [0 .. NotableSize - 1 -> RingSlot]
  BY <1>3, <1>5 DEF ring_record, TypeOK
<1>8. ringCount' = ringCount + 1 /\ ringCount' \in 0 .. MaxTraps
  BY <1>1 DEF ring_record
<1>9. RingInv'
  <2>1. ringCount' = Len(log')
    BY <1>1, <1>2, <1>8
  <2>2. ASSUME NEW n \in 1 .. Len(log'), Len(log') < n + RingSize
        PROVE  ring'[(n - 1) % RingSize] = [id |-> n, cause |-> log'[n]]
    <3>1. CASE n = Len(log) + 1
      <4>1. (n - 1) % RingSize = ringCount % RingSize
        BY <3>1, <1>1
      <4>2. ring'[ringCount % RingSize] = Recorded(c)
        BY <1>4 DEF ring_record, TypeOK
      <4> QED BY <4>1, <4>2, <3>1, <1>2 DEF Recorded
    <3>2. CASE n # Len(log) + 1
      <4>1. n \in 1 .. Len(log) /\ Len(log) < n + RingSize
        BY <3>2, <2>2, <1>1, <1>2
      <4>2. (n - 1) % RingSize # ringCount % RingSize
        <5>1. /\ n - 1 \in Nat /\ n - 1 < ringCount
              /\ ringCount < (n - 1) + RingSize
          BY <4>1, <2>2, <1>1, <1>2
        <5>2. RingSize \in Nat /\ RingSize > 0
          OBVIOUS
        <5> QED BY <5>1, <5>2, <1>1, SlotsDiffer
      <4>3. (n - 1) % RingSize \in 0 .. RingSize - 1
        BY <4>1, <1>1
      <4>4. ring'[(n - 1) % RingSize] = ring[(n - 1) % RingSize]
        BY <4>2, <4>3 DEF ring_record, TypeOK
      <4> QED BY <4>1, <4>4, <1>2 DEF RingInv
    <3> QED BY <3>1, <3>2
  <2> QED BY <2>1, <2>2 DEF RingInv
<1> QED BY <1>2, <1>6, <1>7, <1>8, <1>9

(* Every step keeps the invariant, one case for each action.               *)
LEMMA LogInvStep == LogInv /\ [Next]_vars => LogInv'
<1> SUFFICES ASSUME LogInv, [Next]_vars PROVE LogInv'
  OBVIOUS
<1> USE LogAssumption
<1>0. TypeOK
  BY DEF LogInv
<1>1. ASSUME NEW late \in 0 .. MaxLate, Tick(late) PROVE LogInv'
  <2>1. ring_record("timer") /\ "timer" \in Cause
    BY <1>1 DEF Tick, Cause
  <2>2. /\ now' \in Nat /\ nextDeadline' \in Nat
    BY <1>0, <1>1 DEF Tick, TypeOK, Rearmed
  <2>3. /\ notableCount' = notableCount /\ ecalls' = ecalls
        /\ faultTraps' = faultTraps /\ ticks' = ticks + 1
    BY <1>1, <2>1 DEF Tick, ring_record, Counted
  <2>4. ringCount' = ringCount + 1 /\ ringCount' \in 0 .. MaxTraps
    BY <2>1, RecordRing
  <2>5. /\ notableCount' \in 0 .. ringCount' /\ ecalls' \in 0 .. ringCount'
        /\ faultTraps' \in 0 .. ringCount' /\ ticks' \in 0 .. ringCount'
    BY <1>0, <2>3, <2>4 DEF TypeOK
  <2>6. autonomous' \in BOOLEAN /\ halted' \in BOOLEAN
    BY <1>0, <1>1 DEF Tick, TypeOK
  <2> QED BY <2>1, <2>2, <2>4, <2>5, <2>6, RecordRing DEF LogInv, TypeOK
<1>2. ASSUME NEW c \in Cause, c # "timer", ring_record(c),
             ticks' = ticks, autonomous' = autonomous, clock' = clock,
             halted' \in BOOLEAN
      PROVE  LogInv'
  <2>1. ringCount' = ringCount + 1 /\ ringCount' \in 0 .. MaxTraps
    BY <1>2, RecordRing
  <2>2. /\ notableCount' = notableCount + 1
        /\ ecalls' \in {ecalls, ecalls + 1}
        /\ faultTraps' \in {faultTraps, faultTraps + 1}
    BY <1>2 DEF ring_record
  <2>3. /\ notableCount' \in 0 .. ringCount' /\ ecalls' \in 0 .. ringCount'
        /\ faultTraps' \in 0 .. ringCount' /\ ticks' \in 0 .. ringCount'
    BY <1>0, <1>2, <2>1, <2>2 DEF TypeOK
  <2> QED BY <1>0, <1>2, <2>1, <2>3, RecordRing DEF LogInv, TypeOK, clock
<1>3. CASE Ecall
  BY <1>0, <1>3, <1>2 DEF Ecall, Cause, TypeOK
<1>4. ASSUME NEW fromUser \in BOOLEAN, Fault(fromUser) PROVE LogInv'
  <2>1. halted' \in BOOLEAN
    BY <1>4 DEF Fault
  <2> QED BY <1>2, <1>4, <2>1 DEF Fault, Cause
<1>5. ASSUME NEW on \in BOOLEAN, set_autonomous(on) PROVE LogInv'
  BY <1>0, <1>5 DEF set_autonomous, LogInv, TypeOK, RingInv, rings, clock
<1>6. CASE UNCHANGED vars
  BY <1>0, <1>6 DEF LogInv, TypeOK, RingInv, vars, rings, clock
<1> QED BY <1>1, <1>3, <1>4, <1>5, <1>6 DEF Next

(* The empty rings of boot satisfy the invariant.                          *)
LEMMA LogInvInit == Init => LogInv
<1> USE LogAssumption
<1>1. NoTrap \in RingSlot
  BY DEF NoTrap, RingSlot, Cause
<1> SUFFICES ASSUME Init PROVE LogInv
  OBVIOUS
<1>2. /\ ring \in [0 .. RingSize - 1 -> RingSlot]
      /\ notable \in [0 .. NotableSize - 1 -> RingSlot]
  BY <1>1 DEF Init
<1>3. log \in Seq(Cause) /\ Len(log) = 0
  BY DEF Init
<1>4. /\ ringCount \in 0 .. MaxTraps /\ notableCount \in 0 .. ringCount
      /\ ticks \in 0 .. ringCount /\ ecalls \in 0 .. ringCount
      /\ faultTraps \in 0 .. ringCount
      /\ now \in Nat /\ nextDeadline \in Nat
  BY DEF Init
<1>5. autonomous \in BOOLEAN /\ halted \in BOOLEAN
  BY DEF Init
<1>6. RingInv
  BY <1>3 DEF Init, RingInv
<1> QED BY <1>2, <1>3, <1>4, <1>5, <1>6 DEF LogInv, TypeOK

(* The inductive invariant holds in every reachable state.                 *)
THEOREM LogInvAlways == Spec => []LogInv
<1> QED BY LogInvInit, LogInvStep, PTL DEF Spec

(* The rings, the tallies and the clock of traps.rs keep their types, and  *)
(* no tally exceeds the number of traps.                                   *)
THEOREM LogTypes == Spec => []TypeOK
<1>1. LogInv => TypeOK
  BY DEF LogInv
<1> QED BY <1>1, LogInvAlways, PTL

(* What write_ring shows is the end of the log, however often it wrapped.  *)
THEOREM RingShowsTail == Spec => []RingIsTail
<1>1. ASSUME LogInv PROVE RingIsTail
  <2> USE LogAssumption
  <2> DEFINE first == IF ringCount > RingSize THEN ringCount - RingSize ELSE 0
  <2>0. Len(log) \in Nat /\ ringCount = Len(log)
    BY <1>1 DEF LogInv, TypeOK, RingInv
  <2>1. /\ Len(log) \in Nat /\ ringCount = Len(log) /\ first \in Nat
        /\ ringCount - first \in Nat
        /\ ringCount - first = AtMost(Len(log), RingSize)
    <3>1. CASE ringCount > RingSize
      BY <2>0, <3>1 DEF AtMost
    <3>2. CASE ~ (ringCount > RingSize)
      <4>1. first = 0 /\ Len(log) <= RingSize
        BY <2>0, <3>2
      <4>2. AtMost(Len(log), RingSize) = Len(log)
        BY <2>0, <4>1 DEF AtMost
      <4> QED BY <2>0, <4>1, <4>2
    <3> QED BY <3>1, <3>2
  <2>2. write_ring = [i \in 1 .. ringCount - first |->
                         ring[(first + i - 1) % RingSize]]
    BY DEF write_ring
  <2>3. Len(write_ring) = ringCount - first
    BY <2>1, <2>2
  <2>4. ASSUME NEW i \in 1 .. ringCount - first
        PROVE  write_ring[i] = [id |-> first + i, cause |-> log[first + i]]
    <3>1. /\ first + i \in 1 .. Len(log)
          /\ Len(log) < first + i + RingSize
      BY <2>1
    <3>2. ring[(first + i - 1) % RingSize]
            = [id |-> first + i, cause |-> log[first + i]]
      BY <1>1, <3>1 DEF LogInv, RingInv
    <3> QED BY <2>2, <3>2
  <2>5. ASSUME NEW i \in 1 .. ringCount - first
        PROVE  Len(log) - Len(write_ring) + i = first + i
    BY <2>1, <2>3
  <2> QED BY <2>1, <2>3, <2>4, <2>5 DEF RingIsTail
<1> QED BY <1>1, LogInvAlways, PTL

(* The re-arming of the timer in handle: the next tick is in the future,   *)
(* at most an interval away, and on the old grid unless that is missed.    *)
THEOREM TickCadence == Spec => CadenceKept
<1> DEFINE Kept == nextDeadline' # nextDeadline =>
          /\ now' < nextDeadline' /\ nextDeadline' <= now' + Interval
          /\ now' < nextDeadline + Interval =>
                nextDeadline' = nextDeadline + Interval
<1>1. ASSUME LogInv, [Next]_vars PROVE [Kept]_vars
  <2>1. CASE \E late \in 0 .. MaxLate : Tick(late)
    BY <1>1, <2>1, LogAssumption DEF Tick, Rearmed, LogInv, TypeOK
  <2>2. CASE ~ \E late \in 0 .. MaxLate : Tick(late)
    <3>1. nextDeadline' = nextDeadline
      BY <1>1, <2>2 DEF Next, Ecall, Fault, set_autonomous, vars, clock
    <3> QED BY <3>1
  <2> QED BY <2>1, <2>2
<1> QED BY <1>1, LogInvAlways, PTL DEF Spec, CadenceKept

-----------------------------------------------------------------------------
(* The tallies are exact, and the k-th newest notable trap lies k slots    *)
(* before the end of the notable ring.                                     *)
Tallies ==
    /\ ticks = NumberOf("timer") /\ ecalls = NumberOf("ecall")
    /\ faultTraps = NumberOf("fault")
    /\ notableCount = Cardinality(NotableTraps)

Later(S, x) == Cardinality({m \in S : m > x})

IsNewest(e, k) ==
    /\ e.id \in NotableTraps /\ e.cause = log[e.id]
    /\ Later(NotableTraps, e.id) = k - 1

NewestAt ==
    \A k \in 1 .. NotableSize : k <= notableCount =>
        IsNewest(notable[(notableCount - k) % NotableSize], k)

DigestInv == Tallies /\ NewestAt

(* A new trap number adds one to the size of a set of older ones.          *)
LEMMA AddOne ==
    ASSUME NEW n \in Nat, NEW S \in SUBSET (1 .. n)
    PROVE  /\ IsFiniteSet(S)
           /\ Cardinality(S \cup {n + 1}) = Cardinality(S) + 1
<1>1. IsFiniteSet(1 .. n)
  BY FS_Interval
<1>2. IsFiniteSet(S)
  BY <1>1, FS_Subset
<1>3. n + 1 \notin S
  OBVIOUS
<1> QED BY <1>2, <1>3, FS_AddElement

(* How many of a set's members come after x, once one more follows all.    *)
LEMMA LaterThan ==
    ASSUME NEW n \in Nat, NEW S \in SUBSET (1 .. n), NEW T,
           T = S \cup {n + 1}
    PROVE  /\ Later(T, n + 1) = 0
           /\ \A x \in 1 .. n : Later(T, x) = Later(S, x) + 1
<1>1. \A m \in S : m \in Int /\ 1 <= m /\ m <= n
  OBVIOUS
<1>2. {m \in T : m > n + 1} = {}
  <2>1. \A m \in T : ~ (m > n + 1)
    BY <1>1
  <2> QED BY <2>1
<1>3. ASSUME NEW x \in 1 .. n PROVE Later(T, x) = Later(S, x) + 1
  <2> DEFINE After == {m \in S : m > x}
  <2>1. n + 1 > x
    OBVIOUS
  <2>2. {m \in T : m > x} = After \cup {n + 1}
    BY <2>1
  <2>3. After \in SUBSET (1 .. n)
    OBVIOUS
  <2> HIDE DEF After
  <2>4. Cardinality(After \cup {n + 1}) = Cardinality(After) + 1
    BY <2>3, AddOne
  <2> QED BY <2>2, <2>4 DEF After, Later
<1> QED BY <1>2, <1>3, FS_EmptySet DEF Later

(* What recording a trap adds to the log.                                  *)
LEMMA RecordLog ==
    ASSUME LogInv, NEW c \in Cause, ring_record(c)
    PROVE  /\ Len(log) \in Nat /\ Len(log') = Len(log) + 1
           /\ \A n \in 1 .. Len(log) : log'[n] = log[n]
           /\ \A d \in Cause : NumberOf(d)' =
                 IF d = c THEN NumberOf(d) + 1 ELSE NumberOf(d)
           /\ NotableTraps \in SUBSET (1 .. Len(log))
           /\ NotableTraps' = IF c = "timer" THEN NotableTraps
                              ELSE NotableTraps \cup {Len(log) + 1}
<1>1. log \in Seq(Cause) /\ Len(log) \in Nat
  BY DEF LogInv, TypeOK
<1>2. /\ Len(log') = Len(log) + 1
      /\ log'[Len(log) + 1] = c
      /\ \A n \in 1 .. Len(log) : log'[n] = log[n]
  BY <1>1 DEF ring_record
<1>3. 1 .. Len(log') = (1 .. Len(log)) \cup {Len(log) + 1}
  BY <1>1, <1>2
<1>4. ASSUME NEW d \in Cause
      PROVE  NumberOf(d)' = IF d = c THEN NumberOf(d) + 1 ELSE NumberOf(d)
  <2> DEFINE Old == {n \in 1 .. Len(log) : log[n] = d}
             New == {n \in 1 .. Len(log') : log'[n] = d}
  <2>1. NumberOf(d)' = Cardinality(New) /\ NumberOf(d) = Cardinality(Old)
    BY DEF NumberOf
  <2>2. New = IF d = c THEN Old \cup {Len(log) + 1} ELSE Old
    BY <1>1, <1>2, <1>3
  <2>3. Old \in SUBSET (1 .. Len(log))
    OBVIOUS
  <2> HIDE DEF Old, New
  <2> QED BY <1>1, <2>1, <2>2, <2>3, AddOne
<1>5. NotableTraps' = {n \in 1 .. Len(log') : log'[n] # "timer"}
  BY DEF NotableTraps
<1>6. NotableTraps' = IF c = "timer" THEN NotableTraps
                      ELSE NotableTraps \cup {Len(log) + 1}
  BY <1>1, <1>2, <1>3, <1>5 DEF NotableTraps
<1> QED BY <1>1, <1>2, <1>4, <1>6 DEF NotableTraps

(* Recording a trap keeps the tallies exact and the notable ring in place. *)
LEMMA RecordDigest ==
    ASSUME LogInv, DigestInv, NEW c \in Cause, ring_record(c),
           ticks' = IF c = "timer" THEN ticks + 1 ELSE ticks
    PROVE  DigestInv'
<1> USE LogAssumption
<1>1. /\ Len(log) \in Nat /\ Len(log') = Len(log) + 1
      /\ \A n \in 1 .. Len(log) : log'[n] = log[n]
      /\ NotableTraps \in SUBSET (1 .. Len(log))
  BY RecordLog
<1>2. notableCount \in Nat /\ notable \in [0 .. NotableSize - 1 -> RingSlot]
  BY DEF LogInv, TypeOK
<1>3. /\ NumberOf("timer")' = IF c = "timer" THEN NumberOf("timer") + 1
                              ELSE NumberOf("timer")
      /\ NumberOf("ecall")' = IF c = "ecall" THEN NumberOf("ecall") + 1
                              ELSE NumberOf("ecall")
      /\ NumberOf("fault")' = IF c = "fault" THEN NumberOf("fault") + 1
                              ELSE NumberOf("fault")
  <2>1. \A d \in Cause : NumberOf(d)' =
           IF d = c THEN NumberOf(d) + 1 ELSE NumberOf(d)
    BY RecordLog
  <2> QED BY <2>1 DEF Cause
<1>4. CASE c = "timer"
  <2>1. NotableTraps' = NotableTraps
    BY <1>4, RecordLog
  <2>2. /\ notable' = notable /\ notableCount' = notableCount
        /\ ecalls' = ecalls /\ faultTraps' = faultTraps
    BY <1>4 DEF ring_record
  <2>3. Tallies'
    BY <1>3, <1>4, <2>1, <2>2 DEF DigestInv, Tallies
  <2>4. ASSUME NEW k \in 1 .. NotableSize, k <= notableCount
        PROVE  IsNewest(notable[(notableCount - k) % NotableSize], k)'
    <3>1. IsNewest(notable[(notableCount - k) % NotableSize], k)
      BY <2>4 DEF DigestInv, NewestAt
    <3> QED BY <1>1, <2>1, <2>2, <3>1 DEF IsNewest
  <2> QED BY <2>2, <2>3, <2>4 DEF DigestInv, NewestAt
<1>5. CASE c # "timer"
  <2> DEFINE L == Len(log) + 1
  <2>1. NotableTraps' = NotableTraps \cup {L}
    BY <1>5, RecordLog
  <2>2. /\ notable' = [notable EXCEPT ![notableCount % NotableSize] = Recorded(c)]
        /\ notableCount' = notableCount + 1
        /\ ecalls' = IF c = "ecall" THEN ecalls + 1 ELSE ecalls
        /\ faultTraps' = IF c = "fault" THEN faultTraps + 1 ELSE faultTraps
    BY <1>5 DEF ring_record
  <2>3. /\ Cardinality(NotableTraps \cup {L}) = Cardinality(NotableTraps) + 1
    BY <1>1, AddOne
  <2>4. Tallies'
    BY <1>3, <1>5, <2>1, <2>2, <2>3 DEF DigestInv, Tallies
  <2>5. log'[L] = c
    BY <1>1 DEF ring_record, LogInv, TypeOK
  <2>6. notableCount % NotableSize \in 0 .. NotableSize - 1
    BY <1>2
  <2>7. ASSUME NEW k \in 1 .. NotableSize, k <= notableCount'
        PROVE  IsNewest(notable[(notableCount - k) % NotableSize], k)'
    <3> DEFINE e == notable'[(notableCount' - k) % NotableSize]
    <3> SUFFICES /\ e.id \in NotableTraps' /\ e.cause = log'[e.id]
                 /\ Later(NotableTraps', e.id) = k - 1
      BY DEF IsNewest
    <3>1. CASE k = 1
      <4>1. e = Recorded(c)
        <5>1. (notableCount' - k) % NotableSize = notableCount % NotableSize
          BY <1>2, <2>2, <3>1
        <5> QED BY <1>2, <2>2, <2>6, <5>1
      <4>2. e.id = L /\ e.cause = c
        BY <4>1 DEF Recorded
      <4> HIDE DEF e
      <4>3. Later(NotableTraps', L) = 0
        BY <1>1, <2>1, LaterThan
      <4>4. e.id \in NotableTraps' /\ e.cause = log'[e.id]
        BY <2>1, <2>5, <4>2
      <4> QED BY <3>1, <4>2, <4>3, <4>4
    <3>2. CASE k # 1
      <4> DEFINE j == k - 1
      <4>1. /\ j \in 1 .. NotableSize /\ j <= notableCount
            /\ notableCount - j \in Nat /\ notableCount' - k = notableCount - j
        BY <1>2, <2>2, <2>7, <3>2
      <4>2. (notableCount - j) % NotableSize # notableCount % NotableSize
        <5>1. /\ notableCount - j < notableCount
              /\ notableCount < (notableCount - j) + NotableSize
          BY <1>2, <3>2
        <5>2. NotableSize \in Nat /\ NotableSize > 0
          OBVIOUS
        <5> QED BY <1>2, <4>1, <5>1, <5>2, SlotsDiffer
      <4>3. (notableCount - j) % NotableSize \in 0 .. NotableSize - 1
        BY <4>1
      <4>4. e = notable[(notableCount - j) % NotableSize]
        BY <1>2, <2>2, <4>1, <4>2, <4>3
      <4> HIDE DEF e
      <4>5. IsNewest(e, j)
        BY <4>1, <4>4 DEF DigestInv, NewestAt
      <4>6. e.id \in NotableTraps /\ e.id \in 1 .. Len(log)
        BY <1>1, <4>5 DEF IsNewest
      <4>7. Later(NotableTraps', e.id) = Later(NotableTraps, e.id) + 1
        BY <1>1, <2>1, <4>6, LaterThan
      <4>8. Later(NotableTraps, e.id) = j - 1
        BY <4>5 DEF IsNewest
      <4>9. Later(NotableTraps', e.id) = k - 1
        BY <4>7, <4>8
      <4>10. e.cause = log'[e.id]
        BY <1>1, <4>5, <4>6 DEF IsNewest
      <4> QED BY <2>1, <4>6, <4>9, <4>10
    <3> QED BY <3>1, <3>2
  <2> QED BY <2>4, <2>7 DEF DigestInv, NewestAt
<1> QED BY <1>4, <1>5

(* Every step keeps the digest's invariant.                                *)
LEMMA DigestInvStep == LogInv /\ DigestInv /\ [Next]_vars => DigestInv'
<1> SUFFICES ASSUME LogInv, DigestInv, [Next]_vars PROVE DigestInv'
  OBVIOUS
<1>1. ASSUME NEW late \in 0 .. MaxLate, Tick(late) PROVE DigestInv'
  BY <1>1, RecordDigest DEF Tick, Counted, Cause
<1>2. CASE Ecall
  BY <1>2, RecordDigest DEF Ecall, Cause
<1>3. ASSUME NEW fromUser \in BOOLEAN, Fault(fromUser) PROVE DigestInv'
  BY <1>3, RecordDigest DEF Fault, Cause
<1>4. CASE UNCHANGED <<rings, ticks, ecalls, faultTraps, log>>
  BY <1>4 DEF DigestInv, Tallies, NewestAt, IsNewest, NumberOf, NotableTraps,
              rings
<1>5. ASSUME NEW on \in BOOLEAN, set_autonomous(on) PROVE DigestInv'
  BY <1>4, <1>5 DEF set_autonomous
<1> QED BY <1>1, <1>2, <1>3, <1>4, <1>5 DEF Next, vars

(* It holds at boot.                                                       *)
LEMMA DigestInvInit == Init => DigestInv
<1> SUFFICES ASSUME Init PROVE DigestInv
  OBVIOUS
<1>1. Len(log) = 0
  BY DEF Init
<1>2. NotableTraps = {} /\ \A d \in Cause : NumberOf(d) = Cardinality({})
  BY <1>1 DEF NotableTraps, NumberOf
<1> QED BY <1>2, FS_EmptySet DEF Init, DigestInv, Tallies, NewestAt, Cause

(* What write_digest returns, for every budget and both ring sizes: exact  *)
(* totals, and the newest notable traps, of whatever severity.             *)
THEOREM DigestExact == Spec => []DigestTellsTruth
<1>1. Spec => []DigestInv
  BY LogInvAlways, DigestInvInit, DigestInvStep, PTL DEF Spec
<1>2. ASSUME LogInv, DigestInv PROVE DigestTellsTruth
  <2> USE LogAssumption
  <2> SUFFICES ASSUME NEW budget \in Budgets
               PROVE
        LET d == write_digest(budget)
        IN  /\ d.traps = Len(log) /\ d.timer = NumberOf("timer")
            /\ d.ecall = NumberOf("ecall") /\ d.fault = NumberOf("fault")
            /\ Len(d.items) = AtMost(Cardinality(NotableTraps),
                                     AtMost(budget, NotableSize))
            /\ \A i \in 1 .. Len(d.items) :
                  LET n == d.items[i].id
                  IN  /\ n \in NotableTraps /\ d.items[i].cause = log[n]
                      /\ Cardinality({m \in NotableTraps : m > n}) = i - 1
            /\ d.elided + Len(d.items) = Len(log)
    BY DEF DigestTellsTruth
  <2> DEFINE d == write_digest(budget)
             show == AtMost(AtMost(notableCount, budget), NotableSize)
  <2>1. /\ budget \in Nat /\ notableCount \in Nat /\ ringCount \in Nat
        /\ ringCount = Len(log)
    BY <1>2 DEF LogInv, TypeOK, RingInv
  <2>2. /\ show \in Nat /\ show <= notableCount /\ show <= NotableSize
        /\ show = AtMost(notableCount, AtMost(budget, NotableSize))
    BY <2>1 DEF AtMost
  <2>3. /\ d.traps = ringCount /\ d.timer = ticks /\ d.ecall = ecalls
        /\ d.fault = faultTraps /\ d.elided = ringCount - show
        /\ d.items = [i \in 1 .. show |->
                         notable[(notableCount - i) % NotableSize]]
    BY DEF write_digest
  <2> HIDE DEF d, show
  <2>4. Len(d.items) = show
    BY <2>2, <2>3
  <2>5. ASSUME NEW i \in 1 .. show PROVE IsNewest(d.items[i], i)
    <3>1. i \in 1 .. NotableSize /\ i <= notableCount
      BY <2>1, <2>2
    <3> QED BY <1>2, <2>3, <3>1 DEF DigestInv, NewestAt
  <2>6. d.elided + Len(d.items) = Len(log)
    BY <2>1, <2>2, <2>3, <2>4
  <2>7. /\ d.traps = Len(log) /\ d.timer = NumberOf("timer")
        /\ d.ecall = NumberOf("ecall") /\ d.fault = NumberOf("fault")
        /\ Len(d.items) = AtMost(Cardinality(NotableTraps),
                                 AtMost(budget, NotableSize))
    BY <1>2, <2>1, <2>2, <2>3, <2>4 DEF DigestInv, Tallies
  <2> QED BY <2>4, <2>5, <2>6, <2>7 DEF d, IsNewest, Later
<1> QED BY <1>1, <1>2, LogInvAlways, PTL

=============================================================================
