-------------------------- MODULE SerialLineProofs --------------------------
(***************************************************************************)
(* The bytes of the serial line and the key ring, for every set of         *)
(* messages, size of the ring, width of its counters and patience of the   *)
(* reader.                                                                 *)
(***************************************************************************)
EXTENDS SerialLine, SequenceTheorems, TLAPS

(* Types, by the part of the kernel that owns the variables.               *)
FeedOK ==
    /\ msgs \in Seq(Messages) /\ Len(msgs) <= MaxMessages
    /\ rest \in Seq(Tagging) /\ uart \in Seq(Tagging)
    /\ gap \in 0 .. MaxStallWaits + 1
    /\ stash \in Tagging \cup {None}

ProcOK ==
    /\ place \in {"idle", "serve", "run"}
    /\ {wants, alive, drain, pending} \subseteq BOOLEAN

(* The reader has read nothing before the magic, at most one byte of the   *)
(* length before it is complete, and no body before that.                  *)
ReaderOK ==
    /\ opener \in Tagging \cup {None}
    /\ at \in {"off", "magic", "len", "body"}
    /\ lenb \in Seq(Tagging)
    /\ at \in {"off", "magic"} => Len(lenb) = 0
    /\ at = "len" => Len(lenb) < 2
    /\ at = "body" => Len(lenb) = 2
    /\ body \in Seq(Tagging) /\ Len(body) < MaxReq
    /\ at # "body" => body = <<>>
    /\ waits \in 0 .. MaxStallWaits

KeyOK ==
    /\ ring \in [0 .. KeyRingSize - 1 -> Tagging \cup {None}]
    /\ head \in 0 .. CounterSpan - 1 /\ tail \in 0 .. CounterSpan - 1
    /\ queued \in Seq(Tagging) /\ popped \in Nat

LineTypes == FeedOK /\ ProcOK /\ ReaderOK /\ KeyOK

LEMMA TypesSplit == LineTypes => TypeOK
<1> SUFFICES ASSUME LineTypes PROVE TypeOK
  OBVIOUS
<1> DEFINE n == Len(lenb)
<1>1. /\ n \in Nat
      /\ at \in {"off", "magic", "len", "body"}
      /\ at \in {"off", "magic"} => n = 0
      /\ at = "len" => n < 2
      /\ at = "body" => n = 2
  BY DEF LineTypes, ReaderOK
<1>2. n <= 2
  <2> HIDE DEF n
  <2> QED BY <1>1
<1> QED
  BY <1>2 DEF LineTypes, FeedOK, ProcOK, ReaderOK, KeyOK, TypeOK

LEMMA TypesInit == Init => LineTypes
<1> SUFFICES ASSUME Init PROVE LineTypes
  OBVIOUS
<1> USE LineAssumption DEF Init
<1>1. FeedOK
  BY DEF FeedOK
<1>2. ProcOK
  BY DEF ProcOK
<1>3. ReaderOK
  BY DEF ReaderOK
<1>4. KeyOK
  BY DEF KeyOK, EmptyRing
<1> QED
  BY <1>1, <1>2, <1>3, <1>4 DEF LineTypes

(* The first byte of a line that is not empty, and what is behind it.      *)
LEMMA HeadTagging ==
    ASSUME NEW s \in Seq(Tagging), s # <<>>
    PROVE  Head(s) \in Tagging /\ Tail(s) \in Seq(Tagging)
OBVIOUS

(* A message's bytes on the line.                                          *)
LEMMA TaggedType ==
    ASSUME NEW n \in 1 .. MaxMessages, NEW m \in Messages
    PROVE  /\ Tagged(n, m) \in Seq(Tagging)
           /\ Len(Tagged(n, m)) = Len(m.bytes) /\ Len(m.bytes) \in Nat \ {0}
<1>1. m.bytes \in Seq(Byte) /\ m.bytes # <<>>
  BY LineAssumption
<1>2. Len(m.bytes) \in Nat \ {0}
  BY <1>1
<1>3. \A i \in 1 .. Len(m.bytes) : [v |-> m.bytes[i], m |-> n, i |-> i] \in Tagging
  BY <1>1, <1>2 DEF Tagging
<1>4. Tagged(n, m) \in [1 .. Len(m.bytes) -> Tagging]
  BY <1>3 DEF Tagged
<1> QED
  BY <1>2, <1>4 DEF Tagged

-----------------------------------------------------------------------------
(* What a step may do to each part.                                        *)

LEMMA FeedNext == LineTypes /\ [Next]_vars => FeedOK'
<1> SUFFICES ASSUME LineTypes, [Next]_vars PROVE FeedOK'
  OBVIOUS
<1>0. /\ FeedOK /\ MaxStallWaits \in Nat /\ MaxMessages \in Nat
      /\ rest # <<>> => Head(rest) \in Tagging /\ Tail(rest) \in Seq(Tagging)
      /\ uart # <<>> => Head(uart) \in Tagging /\ Tail(uart) \in Seq(Tagging)
  BY LineAssumption, HeadTagging DEF LineTypes, FeedOK
<1>1. ASSUME NEW m \in Messages, Send(m) PROVE FeedOK'
  <2>1. Len(msgs) \in Nat /\ Len(msgs) + 1 \in 1 .. MaxMessages
    BY <1>0, <1>1 DEF Send, FeedOK
  <2>2. rest' \in Seq(Tagging)
    BY <1>1, <2>1, TaggedType DEF Send
  <2>3. msgs' \in Seq(Messages) /\ Len(msgs') = Len(msgs) + 1
    BY <1>0, <1>1 DEF Send, FeedOK
  <2> QED BY <1>0, <1>1, <2>1, <2>2, <2>3 DEF Send, FeedOK
<1>2. CASE Arrive
  BY <1>0, <1>2 DEF Arrive, FeedOK
<1>3. CASE IdleByte \/ ReaderByte
  BY <1>0, <1>3 DEF IdleByte, ReaderByte, feedVars, FeedOK
<1>4. CASE DropLength
  BY <1>0, <1>4 DEF DropLength, feedVars, FeedOK
<1>5. CASE Stall
  BY <1>0, <1>5 DEF Stall, feedVars, FeedOK
<1>6. CASE ServeByte
  BY <1>0, <1>6 DEF ServeByte, feedVars, FeedOK
<1>7. CASE Preempt
  BY <1>0, <1>7 DEF Preempt, feedVars, FeedOK
<1>8. CASE DrainByte
  BY <1>0, <1>8 DEF DrainByte, feedVars, FeedOK
<1>9. CASE Resume \/ TickDrain \/ DrainEnd \/ Leave \/ GetKey
  BY <1>0, <1>9 DEF Resume, TickDrain, DrainEnd, Leave, GetKey, feedVars, FeedOK
<1>10. CASE UNCHANGED vars
  BY <1>0, <1>10 DEF vars, FeedOK
<1> QED
  BY <1>1, <1>2, <1>3, <1>4, <1>5, <1>6, <1>7, <1>8, <1>9, <1>10
     DEF Next, Kernel

LEMMA ProcNext == LineTypes /\ [Next]_vars => ProcOK'
<1> SUFFICES ASSUME LineTypes, [Next]_vars PROVE ProcOK'
  OBVIOUS
<1>0. ProcOK
  BY DEF LineTypes
<1> USE DEF procVars, keyVars, ProcOK
<1>1. ASSUME NEW v, Seed(v) PROVE ProcOK'
  BY <1>1 DEF Seed, ClearKeys
<1>2. ASSUME UNCHANGED <<procVars, keyVars>> PROVE ProcOK'
  BY <1>0, <1>2
<1>3. CASE Arrive \/ DropLength \/ Stall \/ ServeByte
  BY <1>2, <1>3 DEF Arrive, DropLength, Stall, ServeByte, GiveUp
<1>4. ASSUME NEW m \in Messages, Send(m) PROVE ProcOK'
  BY <1>2, <1>4 DEF Send
<1>5. CASE IdleByte
  BY <1>0, <1>1, <1>2, <1>5 DEF IdleByte
<1>6. CASE ReaderByte
  BY <1>1, <1>2, <1>6
     DEF ReaderByte, ReadMagic, ReadLength, ReadBody, Dispatch, GiveUp
<1>7. CASE Resume \/ TickDrain \/ DrainEnd \/ Preempt \/ Leave \/ GetKey
  BY <1>0, <1>7 DEF Resume, TickDrain, DrainEnd, Preempt, Leave, GetKey
<1>8. CASE DrainByte
  BY <1>0, <1>8 DEF DrainByte, DrainBare, DrainKill, DrainKey
<1>9. CASE UNCHANGED vars
  BY <1>0, <1>9 DEF vars
<1> QED
  BY <1>3, <1>4, <1>5, <1>6, <1>7, <1>8, <1>9 DEF Next, Kernel

(* The length field, once it is complete.                                  *)
LEMMA LengthType ==
    ASSUME ReaderOK, at = "body"
    PROVE  LengthOf(lenb) \in Nat
<1>1. lenb[1] \in Tagging /\ lenb[2] \in Tagging
  BY SMTT(30) DEF ReaderOK
<1>2. lenb[1].v \in Nat /\ lenb[2].v \in Nat
  BY <1>1, LineAssumption DEF Tagging
<1> QED
  BY <1>2 DEF LengthOf

(* The reader takes a byte.                                                *)
LEMMA ReaderTakes ==
    ASSUME ReaderOK, NEW b \in Tagging,
           ReadMagic(b) \/ ReadLength(b) \/ ReadBody(b)
    PROVE  ReaderOK'
<1> USE LineAssumption
<1>0. Return => ReaderOK'
  BY DEF Return, ReaderOK
<1>1. CASE ReadMagic(b)
  <2>1. CASE b.v = NN
    <3>1. /\ at' = "len" /\ waits' = 0 /\ UNCHANGED <<lenb, body, opener>>
          /\ Len(lenb) = 0
      BY <1>1, <2>1 DEF ReadMagic, ReaderOK
    <3>2. Len(lenb') < 2
      BY <3>1
    <3> QED BY <1>1, <3>1, <3>2 DEF ReadMagic, ReaderOK
  <2>2. CASE b.v # NN
    BY <1>0, <1>1, <2>2 DEF ReadMagic, GiveUp
  <2> QED BY <2>1, <2>2
<1>2. CASE ReadLength(b)
  <2>1. /\ lenb' \in Seq(Tagging) /\ Len(lenb') = Len(lenb) + 1
        /\ Len(lenb) \in Nat /\ Len(lenb) < 2
    BY <1>2 DEF ReadLength, ReaderOK
  <2> QED BY <1>2, <2>1 DEF ReadLength, ReaderOK
<1>3. CASE ReadBody(b)
  <2> DEFINE s == Append(body, b)
  <2>1. s \in Seq(Tagging) /\ Len(s) = Len(body) + 1 /\ Len(body) \in Nat
    BY DEF ReaderOK
  <2>2. LengthOf(lenb) \in Nat /\ LengthOf(lenb) <= MaxReq
    BY <1>3, LengthType DEF ReadBody, Implausible
  <2>3. CASE Len(s) < LengthOf(lenb)
    <3>1. body' = s /\ waits' = 0 /\ UNCHANGED <<at, lenb, opener>>
      BY <1>3, <2>3 DEF ReadBody
    <3>2. at = "body"
      BY <1>3 DEF ReadBody
    <3>3. Len(s) < MaxReq
      BY <2>1, <2>2, <2>3
    <3> HIDE DEF s
    <3> QED BY <3>1, <3>2, <3>3, <2>1 DEF ReaderOK
  <2>4. CASE ~(Len(s) < LengthOf(lenb))
    BY <1>0, <1>3, <2>4 DEF ReadBody, GiveUp
  <2> QED BY <2>3, <2>4
<1> QED
  BY <1>1, <1>2, <1>3

LEMMA ReaderNext == LineTypes /\ [Next]_vars => ReaderOK'
<1> SUFFICES ASSUME LineTypes, [Next]_vars PROVE ReaderOK'
  OBVIOUS
<1>0. /\ ReaderOK /\ MaxReq \in Nat \ {0} /\ MaxStallWaits \in Nat
      /\ uart # <<>> => Head(uart) \in Tagging
      /\ stash # None => stash \in Tagging
  BY LineAssumption, HeadTagging DEF LineTypes, FeedOK
<1>1. ASSUME UNCHANGED readerVars PROVE ReaderOK'
  BY <1>0, <1>1 DEF readerVars, ReaderOK
<1>2. ASSUME Return PROVE ReaderOK'
  BY <1>0, <1>2 DEF Return, ReaderOK
<1>3. ASSUME NEW b \in Tagging, CallReader(b) PROVE ReaderOK'
  BY <1>0, <1>3 DEF CallReader, ReaderOK
<1>4. CASE IdleByte
  BY <1>0, <1>1, <1>3, <1>4 DEF IdleByte
<1>5. CASE ReaderByte
  BY <1>0, <1>5, ReaderTakes DEF ReaderByte
<1>6. CASE DropLength
  BY <1>2, <1>6 DEF DropLength, GiveUp
<1>7. CASE Stall
  <2>1. CASE Waited > MaxStallWaits
    BY <1>2, <1>7, <2>1 DEF Stall, GiveUp
  <2>2. CASE ~(Waited > MaxStallWaits)
    <3>1. waits' = waits + 1 /\ UNCHANGED <<at, lenb, body, opener>>
      BY <1>7, <2>2 DEF Stall, Waited
    <3>2. waits + 1 \in 0 .. MaxStallWaits
      BY <1>0, <2>2 DEF ReaderOK, Waited
    <3> QED BY <1>0, <3>1, <3>2 DEF ReaderOK
  <2> QED BY <2>1, <2>2
<1>8. CASE ServeByte
  BY <1>0, <1>1, <1>3, <1>8 DEF ServeByte
<1>9. CASE Arrive \/ \E m \in Messages : Send(m)
  BY <1>1, <1>9 DEF Arrive, Send
<1>10. CASE Resume \/ TickDrain \/ DrainByte \/ DrainEnd \/ Preempt
  BY <1>1, <1>10 DEF Resume, TickDrain, DrainByte, DrainEnd, Preempt
<1>11. CASE Leave \/ GetKey \/ UNCHANGED vars
  BY <1>1, <1>11 DEF Leave, GetKey, vars, readerVars
<1> QED
  BY <1>4, <1>5, <1>6, <1>7, <1>8, <1>9, <1>10, <1>11 DEF Next, Kernel

(* The key ring is changed by seeding, by a tick that queues a key and by  *)
(* getkey; only getkey hands out a key.                                    *)
LEMMA KeySteps ==
    ASSUME LineTypes, [Next]_vars
    PROVE  \/ /\ UNCHANGED <<ring, head, tail, queued, popped>>
              /\ effect'.what = "key" => UNCHANGED effect
           \/ /\ ClearKeys
              /\ effect'.what # "key"
           \/ /\ \E b \in Tagging : PushKey(b)
              /\ UNCHANGED <<head, popped>>
              /\ effect'.what # "key"
           \/ GetKey
<1> DEFINE Quiet == effect'.what # "key"
           Kept == UNCHANGED <<ring, head, tail, queued, popped>>
<1>0. /\ uart # <<>> => Head(uart) \in Tagging
  BY HeadTagging DEF LineTypes, FeedOK
<1> USE DEF keyVars, Nothing
<1>1. CASE Arrive \/ \E m \in Messages : Send(m)
  BY <1>1 DEF Arrive, Send
<1>2. CASE IdleByte
  BY <1>2 DEF IdleByte, Seed, Executed
<1>3. CASE ReaderByte
  <2>1. PICK b : ReadMagic(b) \/ ReadLength(b) \/ ReadBody(b)
    BY <1>3 DEF ReaderByte
  <2>2. CASE ReadMagic(b) \/ ReadLength(b)
    BY <2>2 DEF ReadMagic, ReadLength, GiveUp, GaveUp
  <2>3. CASE ReadBody(b)
    <3> DEFINE s == Append(body, b)
    <3>1. \/ UNCHANGED keyVars /\ effect' = Nothing
          \/ effect' = Dispatched(s) /\ Dispatch(s)
          \/ GiveUp
      BY <2>3 DEF ReadBody
    <3>2. Dispatch(s) => UNCHANGED keyVars \/ ClearKeys
      BY DEF Dispatch, Seed
    <3> QED BY <3>1, <3>2 DEF GiveUp, GaveUp, Dispatched
  <2> QED BY <2>1, <2>2, <2>3
<1>4. CASE DropLength \/ Stall
  BY <1>4 DEF DropLength, Stall, GiveUp, GaveUp
<1>5. CASE ServeByte
  BY <1>5 DEF ServeByte, Executed
<1>6. CASE Resume \/ TickDrain \/ DrainEnd \/ Preempt \/ Leave
  BY <1>6 DEF Resume, TickDrain, DrainEnd, Preempt, Leave
<1>7. CASE DrainByte
  BY <1>0, <1>7 DEF DrainByte, DrainBare, DrainKill, DrainKey, Killed
<1>8. CASE UNCHANGED vars
  BY <1>8 DEF vars
<1> QED
  BY <1>1, <1>2, <1>3, <1>4, <1>5, <1>6, <1>7, <1>8 DEF Next, Kernel

-----------------------------------------------------------------------------
(* Counters that wrap.                                                     *)

LEMMA ModDef ==
    ASSUME NEW C \in Nat, C > 0, NEW x \in Int
    PROVE  /\ x \div C \in Int /\ x % C \in 0 .. C - 1
           /\ x = C * (x \div C) + (x % C)
OBVIOUS

LEMMA ModUnique ==
    ASSUME NEW C \in Nat, C > 0, NEW x \in Int, NEW q \in Int,
           NEW r \in 0 .. C - 1, x = C * q + r
    PROVE  x % C = r
<1> DEFINE d == x \div C
           e == x % C
<1>1. d \in Int /\ e \in 0 .. C - 1 /\ x = C * d + e
  OBVIOUS
<1> HIDE DEF d, e
<1>2. C * (d - q) = r - e
  BY <1>1
<1>3. CASE d - q >= 1
  <2>1. C * (d - q) >= C
    BY <1>1, <1>3
  <2> QED BY <1>1, <1>2, <2>1
<1>4. CASE d - q <= -1
  <2>1. C * (d - q) <= -C
    BY <1>1, <1>4
  <2> QED BY <1>1, <1>2, <2>1
<1>5. CASE d = q
  <2>1. r - e = 0
    BY <1>1, <1>2, <1>5
  <2>2. r = e
    BY <1>1, <2>1
  <2> QED BY <2>2 DEF e
<1> QED
  BY <1>1, <1>3, <1>4, <1>5

(* One turn of a counter of width C.                                       *)
LEMMA ModTurn ==
    ASSUME NEW C \in Nat, C > 0, NEW x \in Int
    PROVE  /\ 0 <= x /\ x < C => x % C = x
           /\ C <= x /\ x < 2 * C => x % C = x - C
           /\ -C <= x /\ x < 0 => x % C = x + C
<1>1. CASE 0 <= x /\ x < C
  <2>1. x = C * 0 + x /\ x \in 0 .. C - 1
    BY <1>1
  <2>2. x % C = x
    BY <2>1, ModUnique
  <2> QED BY <1>1, <2>2
<1>2. CASE C <= x /\ x < 2 * C
  <2>1. x = C * 1 + (x - C) /\ x - C \in 0 .. C - 1
    BY <1>2
  <2>2. x % C = x - C
    BY <2>1, ModUnique
  <2> QED BY <1>2, <2>2
<1>3. CASE -C <= x /\ x < 0
  <2>1. x = C * (-1) + (x + C) /\ x + C \in 0 .. C - 1
    BY <1>3
  <2>2. x % C = x + C
    BY <2>1, ModUnique
  <2> QED BY <1>3, <2>2
<1> QED
  BY <1>1, <1>2, <1>3

(* The slot of a counter does not notice that the counter wraps, because   *)
(* the size of the ring divides the width.                                 *)
LEMMA ModOfMod ==
    ASSUME NEW C \in Nat, C > 0, NEW K \in Nat, K > 0, C % K = 0,
           NEW x \in Int
    PROVE  (x % C) % K = x % K
<1> DEFINE d == x \div C
           e == x % C
           g == C \div K
           u == e \div K
           w == e % K
<1>1. d \in Int /\ e \in Int /\ x = C * d + e
  OBVIOUS
<1>2. g \in Int /\ C = K * g
  <2>1. C = K * (C \div K) + (C % K) /\ C \div K \in Int
    BY ModDef
  <2>2. C = K * (C \div K) + 0
    BY <2>1
  <2> QED BY <2>1, <2>2
<1>3. u \in Int /\ w \in 0 .. K - 1 /\ e = K * u + w
  <2> HIDE DEF e
  <2> QED BY <1>1
<1> HIDE DEF d, e, g, u, w
<1>4. x = K * (g * d + u) + w
  <2>1. C * d = K * (g * d)
    <3>1. C * d = (K * g) * d
      BY <1>2
    <3> QED BY <1>1, <1>2, <3>1
  <2>2. g * d \in Int
    BY <1>1, <1>2
  <2>3. K * (g * d + u) = K * (g * d) + K * u
    BY <2>2, <1>3
  <2> QED BY <1>1, <1>2, <1>3, <2>1, <2>2, <2>3
<1>5. g * d + u \in Int
  BY <1>1, <1>2, <1>3
<1>6. x % K = w
  BY <1>3, <1>4, <1>5, ModUnique
<1> QED
  BY <1>6 DEF e, w

(* Within a window as long as the ring no two counters share a slot.       *)
LEMMA WindowSlots ==
    ASSUME NEW K \in Nat, K > 0,
           NEW a \in Int, NEW b \in Int, a < b, b < a + K
    PROVE  a % K # b % K
<1> SUFFICES ASSUME a % K = b % K PROVE FALSE
  OBVIOUS
<1> DEFINE d == a \div K
           e == a % K
<1>1. d \in Int /\ e \in 0 .. K - 1 /\ a = K * d + e
  OBVIOUS
<1> DEFINE f == b \div K
<1>2. f \in Int /\ b = K * f + e
  OBVIOUS
<1> HIDE DEF d, e, f
<1>3. b - a = K * (f - d)
  BY <1>1, <1>2
<1>4. CASE f - d <= 0
  BY <1>1, <1>2, <1>3, <1>4
<1>5. CASE f - d >= 1
  <2>1. K * (f - d) >= K
    BY <1>1, <1>2, <1>5
  <2> QED BY <1>3, <2>1
<1> QED
  BY <1>1, <1>2, <1>4, <1>5

-----------------------------------------------------------------------------
(* The key ring.                                                           *)

(* How many keys the ring holds, by the counters.                          *)
Held == (tail - head) % CounterSpan

(* The slot of the k-th of them.                                           *)
SlotOf(h, k) == ((h + k - 1) % CounterSpan) % KeyRingSize

RingInv == Held <= KeyRingSize /\ KeysKept

(* What the counters say of each other.                                    *)
LEMMA Counters ==
    ASSUME KeyOK
    PROVE  /\ Held \in 0 .. CounterSpan - 1
           /\ (head + Held) % CounterSpan = tail
           /\ head # tail => Held > 0
           /\ head = tail => Held = 0
<1> DEFINE C == CounterSpan
<1>0. /\ C \in Nat /\ C > 0
      /\ head \in 0 .. C - 1 /\ tail \in 0 .. C - 1
  BY LineAssumption DEF KeyOK
<1> HIDE DEF C
<1>1. CASE tail >= head
  <2>1. (tail - head) % C = tail - head
    BY <1>0, <1>1, ModTurn
  <2>2. tail % C = tail
    BY <1>0, ModTurn
  <2>3. head + (tail - head) = tail
    BY <1>0
  <2> QED BY <1>0, <1>1, <2>1, <2>2, <2>3 DEF Held, C
<1>2. CASE tail < head
  <2>1. (tail - head) % C = tail - head + C
    BY <1>0, <1>2, ModTurn
  <2>2. (tail + C) % C = tail
    <3>1. tail + C \in Int /\ C <= tail + C /\ tail + C < 2 * C
      BY <1>0
    <3>2. (tail + C) % C = tail + C - C
      BY <1>0, <3>1, ModTurn
    <3> QED BY <1>0, <3>2
  <2>3. head + (tail - head + C) = tail + C
    BY <1>0
  <2> QED BY <1>0, <1>2, <2>1, <2>2, <2>3 DEF Held, C
<1> QED
  BY <1>0, <1>1, <1>2

(* One more key, unless the counters have gone all the way round.          *)
LEMMA BumpTail ==
    ASSUME KeyOK, Held + 1 < CounterSpan
    PROVE  (Bump(tail) - head) % CounterSpan = Held + 1
<1> DEFINE C == CounterSpan
<1>0. /\ C \in Nat /\ C > 0
      /\ head \in 0 .. C - 1 /\ tail \in 0 .. C - 1
  BY LineAssumption DEF KeyOK
<1> HIDE DEF C
<1>1. Held = IF tail >= head THEN tail - head ELSE tail - head + C
  <2>1. -C <= tail - head /\ tail - head < C
    BY <1>0
  <2> QED BY <1>0, <2>1, ModTurn DEF Held, C
<1>2. Bump(tail) = IF tail + 1 < C THEN tail + 1 ELSE 0
  <2>1. 0 <= tail + 1 /\ tail + 1 <= C
    BY <1>0
  <2>2. tail + 1 < C => (tail + 1) % C = tail + 1
    BY <1>0, <2>1, ModTurn
  <2>3. tail + 1 = C => (tail + 1) % C = tail + 1 - C
    BY <1>0, <2>1, ModTurn
  <2> QED BY <1>0, <2>1, <2>2, <2>3 DEF Bump, C
<1>3. Held + 1 < C
  BY DEF C
<1>4. CASE tail + 1 < C
  <2>1. /\ tail >= head => 0 <= tail + 1 - head /\ tail + 1 - head < C
        /\ tail < head => -C <= tail + 1 - head /\ tail + 1 - head < 0
    BY <1>0, <1>1, <1>3, <1>4
  <2>2. /\ tail >= head => (tail + 1 - head) % C = tail + 1 - head
        /\ tail < head => (tail + 1 - head) % C = tail + 1 - head + C
    BY <1>0, <2>1, ModTurn
  <2> QED BY <1>0, <1>1, <1>2, <1>4, <2>2 DEF C
<1>5. CASE ~(tail + 1 < C)
  <2>1. tail = C - 1 /\ head # 0 /\ tail >= head
    BY <1>0, <1>1, <1>3, <1>5
  <2>2. (0 - head) % C = 0 - head + C
    <3>1. 0 - head \in Int /\ -C <= 0 - head /\ 0 - head < 0
      BY <1>0, <2>1
    <3> QED BY <1>0, <3>1, ModTurn
  <2> QED BY <1>0, <1>1, <1>2, <1>5, <2>1, <2>2 DEF C
<1> QED
  BY <1>4, <1>5

(* One key less, and the others are one place nearer.                      *)
LEMMA BumpHead ==
    ASSUME KeyOK, head # tail
    PROVE  /\ (tail - Bump(head)) % CounterSpan = Held - 1
           /\ \A k \in 1 .. CounterSpan - 1 :
                 (Bump(head) + k - 1) % CounterSpan = (head + k) % CounterSpan
<1> DEFINE C == CounterSpan
<1>0. /\ C \in Nat /\ C > 0
      /\ head \in 0 .. C - 1 /\ tail \in 0 .. C - 1
  BY LineAssumption DEF KeyOK
<1> HIDE DEF C
<1>1. Held = IF tail >= head THEN tail - head ELSE tail - head + C
  <2>1. -C <= tail - head /\ tail - head < C
    BY <1>0
  <2> QED BY <1>0, <2>1, ModTurn DEF Held, C
<1>2. Bump(head) = IF head + 1 < C THEN head + 1 ELSE 0
  <2>1. 0 <= head + 1 /\ head + 1 <= C
    BY <1>0
  <2>2. head + 1 < C => (head + 1) % C = head + 1
    BY <1>0, <2>1, ModTurn
  <2>3. head + 1 = C => (head + 1) % C = head + 1 - C
    BY <1>0, <2>1, ModTurn
  <2> QED BY <1>0, <2>1, <2>2, <2>3 DEF Bump, C
<1>3. CASE head + 1 < C
  <2>0. Bump(head) = head + 1
    BY <1>2, <1>3
  <2>1. /\ tail > head => 0 <= tail - (head + 1) /\ tail - (head + 1) < C
        /\ tail < head => -C <= tail - (head + 1) /\ tail - (head + 1) < 0
    BY <1>0, <1>3
  <2>2. /\ tail > head => (tail - (head + 1)) % C = tail - (head + 1)
        /\ tail < head => (tail - (head + 1)) % C = tail - (head + 1) + C
    BY <1>0, <2>1, ModTurn
  <2>3. (tail - (head + 1)) % C = Held - 1
    BY <1>0, <1>1, <2>2
  <2>4. \A k \in 1 .. C - 1 : (head + 1) + k - 1 = head + k
    BY <1>0
  <2> QED BY <2>0, <2>3, <2>4 DEF C
<1>4. CASE ~(head + 1 < C)
  <2>0. Bump(head) = 0 /\ head = C - 1
    BY <1>0, <1>2, <1>4
  <2>1. tail < head /\ (tail - 0) % C = tail
    BY <1>0, <2>0, ModTurn
  <2>2. (tail - 0) % C = Held - 1
    BY <1>0, <1>1, <2>0, <2>1
  <2>3. ASSUME NEW k \in 1 .. C - 1
        PROVE  (0 + k - 1) % C = (head + k) % C
    <3>1. 0 <= k - 1 /\ k - 1 < C /\ C <= head + k /\ head + k < 2 * C
      BY <1>0, <2>0
    <3>2. (k - 1) % C = k - 1 /\ (head + k) % C = head + k - C
      BY <1>0, <3>1, ModTurn
    <3>3. 0 + k - 1 = k - 1 /\ head + k - C = k - 1
      BY <1>0, <2>0
    <3> QED BY <3>2, <3>3
  <2> QED BY <2>0, <2>2, <2>3 DEF C
<1> QED
  BY <1>3, <1>4

(* KeysKept with its abbreviations.                                        *)
LEMMA KeysKeptForm ==
    KeysKept <=>
        /\ Len(queued) = popped + Held
        /\ \A k \in 1 .. Held : ring[SlotOf(head, k)] = queued[popped + k]
        /\ effect.what = "key" => effect.by = queued[popped]
BY DEF KeysKept, Held, SlotOf

(* A key that finds room goes behind the others and overwrites none.       *)
LEMMA PushKeeps ==
    ASSUME KeyOK, RingInv, NEW b \in Tagging, PushKey(b),
           UNCHANGED <<head, popped>>, effect'.what # "key"
    PROVE  KeyOK' /\ RingInv'
<1> DEFINE C == CounterSpan
           K == KeyRingSize
           n == Held
<1>0. /\ C \in Nat /\ C > 0 /\ K \in Nat /\ K > 0 /\ K < C /\ C % K = 0
      /\ head \in 0 .. C - 1 /\ tail \in 0 .. C - 1
      /\ queued \in Seq(Tagging) /\ popped \in Nat /\ Len(queued) \in Nat
      /\ ring \in [0 .. K - 1 -> Tagging \cup {None}]
  BY LineAssumption DEF KeyOK
<1>1. CASE ~alive \/ RingFull
  <2>1. UNCHANGED <<ring, head, tail, queued, popped>>
    BY <1>1 DEF PushKey
  <2>2. Held' = Held
    BY <2>1 DEF Held
  <2> QED BY <2>1, <2>2, KeysKeptForm DEF KeyOK, RingInv, KeysKept, Held
<1>2. CASE ~(~alive \/ RingFull)
  <2>1. /\ ring' = [ring EXCEPT ![tail % K] = b]
        /\ tail' = Bump(tail)
        /\ queued' = Append(queued, b)
        /\ head' = head /\ popped' = popped
    BY <1>2 DEF PushKey
  <2>2. n < K /\ n \in 0 .. C - 1 /\ (head + n) % C = tail
    BY <1>0, <1>2, Counters DEF RingFull, Held
  <2>3. Held' = n + 1
    BY <1>0, <2>1, <2>2, BumpTail DEF Held
  <2>4. tail' \in 0 .. C - 1
    BY <1>0, <2>1 DEF Bump
  <2>5. tail % K \in 0 .. K - 1
    BY <1>0
  <2>6. /\ queued' \in Seq(Tagging) /\ Len(queued') = Len(queued) + 1
        /\ queued'[Len(queued) + 1] = b
        /\ \A i \in 1 .. Len(queued) : queued'[i] = queued[i]
    BY <1>0, <2>1
  <2>7. KeyOK'
    BY <1>0, <2>1, <2>4, <2>5, <2>6 DEF KeyOK
  <2>8. /\ Len(queued) = popped + n
        /\ \A k \in 1 .. n : ring[SlotOf(head, k)] = queued[popped + k]
    BY KeysKeptForm DEF RingInv
  <2>9. SlotOf(head, n + 1) = tail % K
    <3>1. head + (n + 1) - 1 = head + n
      BY <1>0, <2>2
    <3> QED BY <2>2, <3>1 DEF SlotOf
  <2>10. ASSUME NEW k \in 1 .. n PROVE SlotOf(head, k) # tail % K
    <3>1. head + k - 1 \in Int /\ head + n \in Int
      BY <1>0, <2>2
    <3>2. SlotOf(head, k) = (head + k - 1) % K
      BY <1>0, <3>1, ModOfMod DEF SlotOf
    <3>3. tail % K = (head + n) % K
      BY <1>0, <2>2, <3>1, ModOfMod
    <3>4. head + k - 1 < head + n /\ head + n < (head + k - 1) + K
      BY <1>0, <2>2
    <3> QED BY <1>0, <3>1, <3>2, <3>3, <3>4, WindowSlots
  <2>11. ASSUME NEW k \in 1 .. n PROVE SlotOf(head, k) \in 0 .. K - 1
    <3>1. (head + k - 1) % C \in Int
      BY <1>0, <2>2
    <3> QED BY <1>0, <3>1 DEF SlotOf
  <2>12. ASSUME NEW k \in 1 .. n + 1
         PROVE  ring'[SlotOf(head, k)] = queued'[popped + k]
    <3>1. CASE k = n + 1
      <4>1. ring'[tail % K] = b
        BY <1>0, <2>1, <2>5
      <4>2. popped + k = Len(queued) + 1
        BY <1>0, <2>2, <2>8, <3>1
      <4> QED BY <2>6, <2>9, <3>1, <4>1, <4>2
    <3>2. CASE k # n + 1
      <4>1. k \in 1 .. n /\ popped + k \in 1 .. Len(queued)
        BY <1>0, <2>2, <2>8, <3>2
      <4>2. ring'[SlotOf(head, k)] = ring[SlotOf(head, k)]
        BY <1>0, <2>1, <2>10, <2>11, <4>1
      <4> QED BY <2>6, <2>8, <4>1, <4>2
    <3> QED BY <3>1, <3>2
  <2>13. RingInv'
    <3>1. Len(queued') = popped' + Held'
      BY <1>0, <2>1, <2>2, <2>3, <2>6, <2>8
    <3>2. Held' <= K
      BY <1>0, <2>2, <2>3
    <3>3. KeysKept'
      BY <2>1, <2>3, <2>12, <3>1 DEF KeysKept, Held, SlotOf
    <3> QED BY <3>2, <3>3 DEF RingInv
  <2> QED BY <2>7, <2>13
<1> QED
  BY <1>1, <1>2

(* getkey returns the oldest key and forgets it.                           *)
LEMMA GetKeyKeeps ==
    ASSUME KeyOK, RingInv, GetKey
    PROVE  KeyOK' /\ RingInv'
<1> DEFINE C == CounterSpan
           K == KeyRingSize
           n == Held
<1>0. /\ C \in Nat /\ C > 0 /\ K \in Nat /\ K > 0 /\ K < C
      /\ head \in 0 .. C - 1 /\ tail \in 0 .. C - 1
      /\ popped \in Nat
  BY LineAssumption DEF KeyOK
<1>1. /\ head # tail /\ head' = Bump(head) /\ popped' = popped + 1
      /\ effect' = [what |-> "key", by |-> ring[head % K]]
      /\ UNCHANGED <<ring, tail, queued>>
  BY DEF GetKey
<1>2. n \in 1 .. C - 1 /\ n <= K
  BY <1>0, <1>1, Counters DEF RingInv
<1>3. Held' = n - 1
  BY <1>1, BumpHead DEF Held
<1>4. head' \in 0 .. C - 1
  BY <1>0, <1>1 DEF Bump
<1>5. KeyOK'
  BY <1>0, <1>1, <1>4 DEF KeyOK
<1>6. /\ Len(queued) = popped + n
      /\ \A k \in 1 .. n : ring[SlotOf(head, k)] = queued[popped + k]
  BY KeysKeptForm DEF RingInv
<1>7. ASSUME NEW k \in 1 .. n - 1
      PROVE  ring'[SlotOf(head', k)] = queued'[popped' + k]
  <2>1. k \in 1 .. C - 1 /\ k + 1 \in 1 .. n
    BY <1>0, <1>2
  <2>2. (head' + k - 1) % C = (head + k) % C
    BY <1>1, <2>1, BumpHead
  <2>3. head + (k + 1) - 1 = head + k
    BY <1>0, <2>1
  <2>4. SlotOf(head', k) = SlotOf(head, k + 1)
    BY <2>2, <2>3 DEF SlotOf
  <2>5. popped' + k = popped + (k + 1)
    BY <1>0, <1>1, <2>1
  <2> QED BY <1>1, <1>6, <2>1, <2>4, <2>5
<1>8. effect'.by = queued'[popped']
  <2>1. 1 \in 1 .. n
    BY <1>0, <1>2
  <2>2. SlotOf(head, 1) = head % K
    <3>1. head + 1 - 1 = head /\ head % C = head
      BY <1>0, ModTurn
    <3> QED BY <3>1 DEF SlotOf
  <2> QED BY <1>1, <1>6, <2>1, <2>2
<1>9. Len(queued') = popped' + Held'
  BY <1>0, <1>1, <1>2, <1>3, <1>6
<1>10. Held' <= K
  BY <1>0, <1>2, <1>3
<1>11. KeysKept'
  BY <1>3, <1>7, <1>8, <1>9 DEF KeysKept, Held, SlotOf
<1> QED
  BY <1>5, <1>10, <1>11 DEF RingInv

LEMMA KeyNext == LineTypes /\ RingInv /\ [Next]_vars => KeyOK' /\ RingInv'
<1> SUFFICES ASSUME LineTypes, RingInv, [Next]_vars PROVE KeyOK' /\ RingInv'
  OBVIOUS
<1>0. KeyOK
  BY DEF LineTypes
<1>1. CASE /\ UNCHANGED <<ring, head, tail, queued, popped>>
           /\ effect'.what = "key" => UNCHANGED effect
  BY <1>0, <1>1 DEF KeyOK, RingInv, KeysKept, Held
<1>2. CASE ClearKeys /\ effect'.what # "key"
  <2>1. /\ CounterSpan \in Nat /\ CounterSpan > 0 /\ KeyRingSize \in Nat
    BY LineAssumption
  <2>2. head' = 0 /\ tail' = 0 /\ queued' = <<>> /\ popped' = 0 /\ ring' = ring
    BY <1>2 DEF ClearKeys
  <2>3. (tail' - head') % CounterSpan = 0
    BY <2>1, <2>2, ModTurn
  <2>4. KeyOK'
    BY <1>0, <2>1, <2>2 DEF KeyOK
  <2>5. Held' = 0 /\ Len(queued') = 0 /\ 1 .. 0 = {}
    BY <2>2, <2>3 DEF Held
  <2>6. KeysKept'
    BY <1>2, <2>2, <2>3, <2>5 DEF KeysKept
  <2> QED BY <2>1, <2>4, <2>5, <2>6 DEF RingInv
<1>3. CASE /\ \E b \in Tagging : PushKey(b)
           /\ UNCHANGED <<head, popped>> /\ effect'.what # "key"
  BY <1>0, <1>3, PushKeeps
<1>4. CASE GetKey
  BY <1>0, <1>4, GetKeyKeeps
<1> QED
  BY <1>1, <1>2, <1>3, <1>4, KeySteps

(* Types and the key ring together.                                        *)
LineInv == LineTypes /\ RingInv

LEMMA LineInit == Init => LineInv
<1> SUFFICES ASSUME Init PROVE LineInv
  OBVIOUS
<1>1. CounterSpan \in Nat /\ CounterSpan > 0 /\ KeyRingSize \in Nat
  BY LineAssumption
<1>2. (tail - head) % CounterSpan = 0
  BY <1>1, ModTurn DEF Init
<1>3. queued = <<>> /\ Len(queued) = 0 /\ popped = 0 /\ 1 .. 0 = {}
  BY DEF Init
<1>4. KeysKept
  BY <1>2, <1>3 DEF KeysKept, Init, Nothing
<1> QED
  BY <1>1, <1>2, <1>4, TypesInit DEF LineInv, RingInv, Held

LEMMA LineNext == LineInv /\ [Next]_vars => LineInv'
BY FeedNext, ProcNext, ReaderNext, KeyNext DEF LineInv, LineTypes

(* The line, the reader and the key ring keep their types; in particular   *)
(* the counters of the ring stay inside their width and the body inside    *)
(* MAX_REQ.                                                                *)
THEOREM SerialTypes == Spec => []TypeOK
<1>1. LineInv => TypeOK
  BY TypesSplit DEF LineInv
<1> QED
  BY <1>1, LineInit, LineNext, PTL DEF Spec

(* getkey returns the keys queued since the suite was seeded, each once    *)
(* and in order, for every size of the ring that divides the width of its  *)
(* counters, also when the counters wrap.                                  *)
THEOREM KeysInOrder == Spec => []KeysKept
<1>1. LineInv => KeysKept
  BY DEF LineInv, RingInv
<1> QED
  BY <1>1, LineInit, LineNext, PTL DEF Spec

-----------------------------------------------------------------------------
(* The stream.  Every byte is what the operator sent, and the bytes nobody *)
(* has taken follow one another up to the end of the last message.         *)

Tag(ms, m, i) == [v |-> ms[m].bytes[i], m |-> m, i |-> i]

Genuine(ms, b) ==
    /\ b.m \in 1 .. Len(ms) /\ b.i \in 1 .. Len(ms[b.m].bytes)
    /\ b = Tag(ms, b.m, b.i)

IsLast(ms, b) == b.i = Len(ms[b.m].bytes)

Follows(ms, a, b) ==
    \/ b.m = a.m /\ b.i = a.i + 1
    \/ IsLast(ms, a) /\ b.m = a.m + 1 /\ b.i = 1

Chain(ms, L) ==
    /\ \A k \in 1 .. Len(L) : Genuine(ms, L[k])
    /\ \A k \in 1 .. Len(L) - 1 : Follows(ms, L[k], L[k + 1])
    /\ L # <<>> => L[Len(L)].m = Len(ms) /\ IsLast(ms, L[Len(L)])

(* a is the byte right before the line L.                                  *)
Before(ms, a, L) ==
    IF L = <<>> THEN a.m = Len(ms) /\ IsLast(ms, a) ELSE Follows(ms, a, L[1])

Line == uart \o rest

(* Where control is when a byte lies in the stash, when keys are drained   *)
(* and when the reader reads; what the reader's patience is counted in.    *)
ControlInv ==
    /\ stash # None => place = "serve" /\ at = "off"
    /\ drain => place = "run" /\ wants
    /\ place = "run" => at = "off"
    /\ place = "idle" => ~alive
    /\ at = "off" => waits = 0
    /\ uart = <<>> => waits <= gap

(* The byte a prefix makes a key of: its partner in a pair, or what is     *)
(* behind a prefix in a frame's length.                                    *)
Candidate(ms, b) ==
    \/ ms[b.m].kind = "key" /\ b.i % 2 = 0
    \/ /\ ms[b.m].kind \in {"request", "cut"} /\ b.i = 4
       /\ ms[b.m].bytes[3] = Prefix

(* A prefix a tick has taken is the last byte taken, and every key queued  *)
(* was behind one.                                                         *)
PrefixInv ==
    /\ pending /\ alive =>
        wants /\ place = "run" /\ Line # <<>> /\ Candidate(msgs, Line[1])
    /\ \A k \in 1 .. Len(queued) :
        Genuine(msgs, queued[k]) /\ Candidate(msgs, queued[k])

(* What the reader has read of a frame: its own bytes in order and, when   *)
(* the frame was cut short, command bytes or something that is not ASCII.  *)
Filled ==
    \/ \E k \in 1 .. Len(body) : body[k].v \notin Ascii
    \/ /\ \A k \in Len(msgs[opener.m].bytes) - 3 .. Len(body) :
            Genuine(msgs, body[k]) /\ KindOf(body[k]) = "command"
       /\ Before(msgs, body[Len(body)], Line)

FrameRead ==
    LET m == opener.m
        own == Len(msgs[m].bytes) - 4
    IN  /\ \A k \in 1 .. Len(lenb) : lenb[k] = Tag(msgs, m, 2 + k)
        /\ at = "len" => Before(msgs, Tag(msgs, m, 2 + Len(lenb)), Line)
        /\ at = "body" =>
            /\ \A k \in 1 .. Len(body) : k <= own => body[k] = Tag(msgs, m, 4 + k)
            /\ Len(body) <= own => Before(msgs, Tag(msgs, m, 4 + Len(body)), Line)
            /\ Len(body) > own => Filled

(* What it takes for a length after a stray magic.                         *)
StrayRead ==
    /\ KindOf(opener) = "stray" /\ Len(msgs[opener.m].bytes) = 2
    /\ Len(lenb) = 0 => Before(msgs, Tag(msgs, opener.m, 2), Line)
    /\ Len(lenb) = 1 =>
        Genuine(msgs, lenb[1]) /\ lenb[1].i = 1 /\ Before(msgs, lenb[1], Line)
    /\ Len(lenb) = 2 => Upper(lenb[2].v)

ReaderInv ==
    /\ at # "off" => Genuine(msgs, opener) /\ opener.v = AA
    /\ at = "magic" => Before(msgs, opener, Line)
    /\ at \in {"len", "body"} =>
        /\ opener.i = 1
        /\ \/ KindOf(opener) \in {"request", "cut"} /\ FrameRead
           \/ StrayRead

(* The byte in the stash is the one before the line.                       *)
StashInv == stash # None => Genuine(msgs, stash) /\ Before(msgs, stash, Line)

(* The reader stops at the length the frame announces.                     *)
BodyInv == at = "body" => body = <<>> \/ Len(body) < LengthOf(lenb)

StreamInv ==
    /\ Chain(msgs, Line) /\ StashInv
    /\ ControlInv /\ PrefixInv /\ BodyInv /\ ReaderInv

(* Bytes that arrive or are taken.                                         *)
LEMMA LineType == FeedOK => Line \in Seq(Tagging)
BY DEF FeedOK, Line

LEMMA LineArrive ==
    ASSUME FeedOK, Arrive
    PROVE  Line' = Line
<1>1. /\ rest # <<>> /\ uart \in Seq(Tagging) /\ rest \in Seq(Tagging)
      /\ uart' = Append(uart, Head(rest)) /\ rest' = Tail(rest)
  BY DEF Arrive, FeedOK
<1> DEFINE R == uart' \o rest'
<1>2. R \in Seq(Tagging) /\ Len(R) = Len(uart) + Len(rest)
  BY <1>1
<1>3. \A k \in 1 .. Len(R) : R[k] = (uart \o rest)[k]
  BY <1>1
<1> QED
  BY <1>1, <1>2, <1>3, SeqEqual DEF Line

LEMMA LineTake ==
    ASSUME FeedOK, uart # <<>>, uart' = Tail(uart), rest' = rest
    PROVE  /\ Line # <<>> /\ Line[1] = Head(uart)
           /\ Line' = Tail(Line)
<1>1. uart \in Seq(Tagging) /\ rest \in Seq(Tagging) /\ Len(uart) \in Nat \ {0}
  BY DEF FeedOK
<1>2. Line \in Seq(Tagging) /\ Len(Line) = Len(uart) + Len(rest)
  BY <1>1 DEF Line
<1>3. Line # <<>> /\ Line[1] = Head(uart)
  BY <1>1, <1>2 DEF Line
<1> DEFINE R == Tail(uart) \o rest
           T == Tail(uart \o rest)
<1>4. /\ R \in Seq(Tagging) /\ T \in Seq(Tagging)
      /\ Len(R) = Len(uart) + Len(rest) - 1 /\ Len(T) = Len(R)
  BY <1>1, <1>2, <1>3 DEF Line
<1>5. \A k \in 1 .. Len(R) : R[k] = T[k]
  BY <1>1, <1>2, <1>3 DEF Line
<1>6. R = T
  BY <1>4, <1>5, SeqEqual
<1> QED
  BY <1>3, <1>6 DEF Line

(* Taking the first byte of a chain.                                       *)
LEMMA ChainTake ==
    ASSUME NEW L \in Seq(Tagging), Chain(msgs, L), L # <<>>
    PROVE  /\ Genuine(msgs, L[1]) /\ Chain(msgs, Tail(L))
           /\ Before(msgs, L[1], Tail(L))
           /\ Tail(L) # <<>> =>
                 Genuine(msgs, Tail(L)[1]) /\ Follows(msgs, L[1], Tail(L)[1])
<1>1. /\ Len(L) \in Nat \ {0} /\ Tail(L) \in Seq(Tagging)
      /\ Len(Tail(L)) = Len(L) - 1
      /\ \A k \in 1 .. Len(L) - 1 : Tail(L)[k] = L[k + 1]
      /\ Tail(L) # <<>> => Len(L) > 1
      /\ Tail(L) = <<>> => Len(L) = 1
  <2>1. /\ Len(L) \in Nat \ {0} /\ Tail(L) \in Seq(Tagging)
        /\ Len(Tail(L)) = Len(L) - 1
    OBVIOUS
  <2>2. \A k \in 1 .. Len(L) - 1 : Tail(L)[k] = L[k + 1]
    BY <2>1
  <2>3. Tail(L) = <<>> <=> Len(Tail(L)) = 0
    BY <2>1, EmptySeq
  <2> QED BY <2>1, <2>2, <2>3
<1>2. Genuine(msgs, L[1])
  BY <1>1 DEF Chain
<1>3. \A k \in 1 .. Len(Tail(L)) : Genuine(msgs, Tail(L)[k])
  BY <1>1 DEF Chain
<1>4. ASSUME NEW k \in 1 .. Len(Tail(L)) - 1
      PROVE  Follows(msgs, Tail(L)[k], Tail(L)[k + 1])
  <2>1. k + 1 \in 1 .. Len(L) - 1 /\ k \in 1 .. Len(L) - 1
    BY <1>1
  <2>2. Follows(msgs, L[k + 1], L[(k + 1) + 1])
    BY <2>1 DEF Chain
  <2> QED BY <1>1, <2>1, <2>2
<1>5. Tail(L) # <<>> => Tail(L)[Len(Tail(L))] = L[Len(L)]
  BY <1>1
<1>6. Chain(msgs, Tail(L))
  BY <1>3, <1>4, <1>5 DEF Chain
<1>7. Tail(L) # <<>> =>
         Genuine(msgs, Tail(L)[1]) /\ Follows(msgs, L[1], Tail(L)[1])
  <2> SUFFICES ASSUME Tail(L) # <<>>
               PROVE  Genuine(msgs, Tail(L)[1]) /\ Follows(msgs, L[1], Tail(L)[1])
    OBVIOUS
  <2>1. 1 \in 1 .. Len(L) - 1 /\ Tail(L)[1] = L[1 + 1]
    BY <1>1
  <2> QED BY <2>1, <1>1 DEF Chain
<1>8. Before(msgs, L[1], Tail(L))
  BY <1>1, <1>7 DEF Before, Chain
<1> QED
  BY <1>2, <1>6, <1>7, <1>8

-----------------------------------------------------------------------------
(* What the shape of the messages says of a byte and of the next one.      *)

LEMMA GenuineShape ==
    ASSUME FeedOK, NEW b, Genuine(msgs, b)
    PROVE  /\ msgs[b.m] \in Messages /\ WellFormed(msgs[b.m])
           /\ KindOf(b) \in {"request", "cut", "key", "command", "stray"}
           /\ msgs[b.m].bytes \in Seq(Byte)
           /\ Len(msgs[b.m].bytes) \in Nat \ {0}
           /\ b.m \in Nat /\ b.i \in Nat /\ b.i >= 1
           /\ b.v = msgs[b.m].bytes[b.i] /\ b.v \in Byte /\ b.v \in Nat
<1>1. msgs[b.m] \in Messages
  BY DEF FeedOK, Genuine
<1>2. /\ msgs[b.m].bytes \in Seq(Byte) /\ msgs[b.m].bytes # <<>>
      /\ KindOf(b) \in {"request", "cut", "key", "command", "stray"}
  BY <1>1, LineAssumption DEF KindOf
<1>3. Len(msgs[b.m].bytes) \in Nat \ {0}
  BY <1>2
<1>4. b.v = msgs[b.m].bytes[b.i]
  BY DEF Genuine, Tag
<1>5. b.i \in 1 .. Len(msgs[b.m].bytes) /\ b.m \in 1 .. Len(msgs)
  BY DEF Genuine
<1>6. b.v \in Byte
  BY <1>2, <1>4, <1>5
<1>7. b.v \in Nat
  BY <1>6, LineAssumption
<1>8. WellFormed(msgs[b.m])
  BY <1>1, MessageAssumption
<1>9. b.m \in Nat /\ b.i \in Nat /\ b.i >= 1
  BY <1>3, <1>5
<1> QED
  BY <1>1, <1>2, <1>3, <1>4, <1>6, <1>7, <1>8, <1>9

(* A frame's bytes.                                                        *)
LEMMA FrameShape ==
    ASSUME FeedOK, NEW b, Genuine(msgs, b), KindOf(b) \in {"request", "cut"}
    PROVE  LET s == msgs[b.m].bytes
           IN  /\ s \in Seq(Byte) /\ Len(s) \in Nat /\ Len(s) > 4
               /\ s[1] = AA /\ s[2] = NN /\ s[5] = Brace
               /\ \A i \in 5 .. Len(s) : s[i] \in Ascii
               /\ s[3] \in Nat /\ s[4] \in Nat
               /\ s[3] + 256 * s[4] \in 1 .. MaxReq
               /\ s[3] + 256 * s[4] >= Len(s) - 4
               /\ KindOf(b) = "request" => s[3] + 256 * s[4] = Len(s) - 4
<1> DEFINE s == msgs[b.m].bytes
           n == s[3] + 256 * s[4]
<1>1. s \in Seq(Byte) /\ Len(s) \in Nat /\ WellFormed(msgs[b.m])
  BY GenuineShape
<1>2. IsFrame(msgs[b.m], n) /\ n >= Len(s) - 4
      /\ (KindOf(b) = "request" => n = Len(s) - 4)
  <2>1. CASE KindOf(b) = "request"
    <3>1. IsFrame(msgs[b.m], Len(s) - 4)
      BY <1>1, <2>1 DEF WellFormed, KindOf
    <3>2. n = Len(s) - 4
      BY <3>1 DEF IsFrame
    <3> QED BY <1>1, <3>1, <3>2
  <2>2. CASE KindOf(b) = "cut"
    <3>1. PICK k \in 1 .. MaxReq : k > Len(s) - 4 /\ IsFrame(msgs[b.m], k)
      BY <1>1, <2>2 DEF WellFormed, KindOf
    <3>2. n = k
      BY <3>1 DEF IsFrame
    <3> QED BY <1>1, <2>2, <3>1, <3>2
  <2> QED BY <2>1, <2>2
<1>3. /\ Len(s) > 4 /\ s[1] = AA /\ s[2] = NN /\ s[5] = Brace
      /\ \A i \in 5 .. Len(s) : s[i] \in Ascii
      /\ n <= MaxReq
  BY <1>2 DEF IsFrame
<1>4. s[3] \in Nat /\ s[4] \in Nat
  <2>1. Byte \subseteq Nat
    BY LineAssumption
  <2>2. 3 \in 1 .. Len(s) /\ 4 \in 1 .. Len(s)
    BY <1>1, <1>3
  <2>3. s[3] \in Byte /\ s[4] \in Byte
    BY <1>1, <2>2
  <2> QED BY <2>1, <2>3
<1>5. n \in 1 .. MaxReq
  <2>0. MaxReq \in Nat
    BY LineAssumption
  <2>1. MaxReq \in Nat /\ n \in Nat
    BY <1>4, <2>0
  <2>2. n >= 1
    BY <1>1, <1>2, <1>3, <2>1
  <2> QED BY <1>3, <2>1, <2>2
<1> QED
  BY <1>1, <1>2, <1>3, <1>4, <1>5

(* The first byte of a message is never the second magic byte, and as the  *)
(* upper part of a length it is absurd.                                    *)
LEMMA FirstByte ==
    ASSUME FeedOK, NEW b, Genuine(msgs, b), b.i = 1
    PROVE  /\ b.v # NN /\ Upper(b.v)
           /\ b.v \in Ascii => KindOf(b) = "command"
<1> DEFINE s == msgs[b.m].bytes
<1>1. /\ s \in Seq(Byte) /\ Len(s) \in Nat \ {0} /\ WellFormed(msgs[b.m])
      /\ KindOf(b) \in {"request", "cut", "key", "command", "stray"}
      /\ b.v = s[1]
  BY GenuineShape
<1>2. /\ AA # NN /\ Prefix # NN /\ Upper(AA) /\ Upper(Prefix)
      /\ AA \notin Ascii /\ Prefix \notin Ascii /\ NN \notin Ascii
  BY LineAssumption, MessageAssumption DEF Ascii
<1>3. CASE KindOf(b) \in {"request", "cut"}
  BY <1>1, <1>2, <1>3, FrameShape
<1>4. CASE KindOf(b) = "key"
  <2>1. 1 \in DOMAIN s /\ 1 % 2 = 1
    BY <1>1
  <2>2. s[1] = Prefix
    BY <1>1, <1>4, <2>1 DEF WellFormed, KindOf
  <2> QED BY <1>1, <1>2, <2>2
<1>5. CASE KindOf(b) = "command"
  BY <1>1, <1>2, <1>5 DEF WellFormed, KindOf
<1>6. CASE KindOf(b) = "stray"
  <2>1. s = <<AA>> \/ s = <<AA, NN>>
    BY <1>1, <1>6 DEF WellFormed, KindOf
  <2>2. s[1] = AA
    BY <2>1
  <2> QED BY <1>1, <1>2, <2>2
<1> QED
  BY <1>1, <1>3, <1>4, <1>5, <1>6

(* The bytes of a row of pairs.                                            *)
LEMMA KeyShape ==
    ASSUME FeedOK, NEW b, Genuine(msgs, b), KindOf(b) = "key"
    PROVE  /\ b.i % 2 = 1 => b.v = Prefix /\ ~IsLast(msgs, b)
           /\ b.i % 2 = 0 => b.v # Prefix /\ Upper(b.v)
<1> DEFINE s == msgs[b.m].bytes
<1>1. /\ s \in Seq(Byte) /\ Len(s) \in Nat /\ WellFormed(msgs[b.m])
      /\ b.v = s[b.i] /\ b.i \in Nat
  BY GenuineShape
<1>2. b.i \in DOMAIN s
  BY <1>1 DEF Genuine
<1>3. /\ Len(s) % 2 = 0
      /\ IF b.i % 2 = 1 THEN s[b.i] = Prefix
                        ELSE s[b.i] # Prefix /\ Upper(s[b.i])
  BY <1>1, <1>2 DEF WellFormed, KindOf
<1> HIDE DEF s
<1>4. b.i % 2 = 1 => b.i # Len(s)
  BY <1>3
<1>5. b.i % 2 = 0 => ~(b.i % 2 = 1)
  OBVIOUS
<1> QED
  BY <1>1, <1>3, <1>4, <1>5 DEF IsLast, s

LEMMA Parity ==
    ASSUME NEW n \in Nat
    PROVE  /\ n % 2 = 0 \/ n % 2 = 1
           /\ n % 2 = 0 => (n + 1) % 2 = 1
           /\ n % 2 = 1 => (n + 1) % 2 = 0
OBVIOUS

(* A prefix is never the last byte of its message, and the byte behind it  *)
(* is the partner of a pair or lies in a frame's length.                   *)
LEMMA AfterPrefix ==
    ASSUME FeedOK, NEW a, Genuine(msgs, a), a.v = Prefix
    PROVE  /\ ~IsLast(msgs, a)
           /\ \A b : Genuine(msgs, b) /\ Follows(msgs, a, b) => Candidate(msgs, b)
<1> DEFINE s == msgs[a.m].bytes
<1>1. /\ s \in Seq(Byte) /\ Len(s) \in Nat \ {0} /\ WellFormed(msgs[a.m])
      /\ KindOf(a) \in {"request", "cut", "key", "command", "stray"}
      /\ a.v = s[a.i] /\ a.i \in Nat /\ a.i >= 1 /\ a.i <= Len(s)
  BY GenuineShape DEF Genuine
<1>2. /\ AA # Prefix /\ NN # Prefix /\ Upper(Prefix)
      /\ Prefix \notin Ascii /\ MaxReq \in Nat /\ Prefix \in Nat
  BY LineAssumption, MessageAssumption DEF Ascii
<1>3. CASE KindOf(a) \in {"request", "cut"}
  <2>1. /\ Len(s) > 4 /\ s[1] = AA /\ s[2] = NN
        /\ \A i \in 5 .. Len(s) : s[i] \in Ascii
        /\ s[3] \in Nat /\ s[4] \in Nat /\ s[3] + 256 * s[4] <= MaxReq
    BY <1>3, FrameShape
  <2>2. a.i # 1 /\ a.i # 2 /\ a.i \notin 5 .. Len(s)
    BY <1>1, <1>2, <2>1
  <2>3. a.i # 4
    <3> SUFFICES ASSUME a.i = 4 PROVE FALSE
      OBVIOUS
    <3>1. s[4] = Prefix
      BY <1>1
    <3>2. 256 * s[4] > MaxReq
      BY <1>2, <3>1 DEF Upper
    <3> HIDE DEF s
    <3> QED BY <1>2, <2>1, <3>2
  <2>4. a.i = 3
    BY <1>1, <2>2, <2>3
  <2>5. ~IsLast(msgs, a)
    BY SMTT(30), <2>1, <2>4 DEF IsLast
  <2>6. ASSUME NEW b, Genuine(msgs, b), Follows(msgs, a, b) PROVE Candidate(msgs, b)
    <3>1. b.m = a.m /\ b.i = 4
      BY <2>4, <2>5, <2>6 DEF Follows
    <3> QED BY <1>1, <1>3, <2>4, <3>1 DEF Candidate, KindOf
  <2> QED BY <2>5, <2>6
<1>4. CASE KindOf(a) = "key"
  <2>1. a.i % 2 = 1 /\ ~IsLast(msgs, a)
    <3>1. a.i % 2 = 1 \/ a.i % 2 = 0
      BY <1>1
    <3> QED BY <1>4, <3>1, KeyShape
  <2>2. ASSUME NEW b, Genuine(msgs, b), Follows(msgs, a, b) PROVE Candidate(msgs, b)
    <3>1. b.m = a.m /\ b.i = a.i + 1
      BY <2>1, <2>2 DEF Follows
    <3>2. (a.i + 1) % 2 = 0
      BY <1>1, <2>1
    <3> QED BY <1>4, <3>1, <3>2 DEF Candidate, KindOf
  <2> QED BY <2>1, <2>2
<1>5. CASE KindOf(a) = "command"
  <2>1. Len(s) = 1 /\ s[1] \in Ascii
    BY <1>1, <1>5 DEF WellFormed, KindOf
  <2>2. a.i = 1
    BY <1>1, <2>1
  <2> QED BY <1>1, <1>2, <2>1, <2>2
<1>6. CASE KindOf(a) = "stray"
  <2>1. s = <<AA>> \/ s = <<AA, NN>>
    BY <1>1, <1>6 DEF WellFormed, KindOf
  <2>2. (Len(s) = 1 /\ s[1] = AA) \/ (Len(s) = 2 /\ s[1] = AA /\ s[2] = NN)
    BY <2>1
  <2>3. a.i = 1 \/ (a.i = 2 /\ Len(s) = 2)
    BY <1>1, <2>2
  <2> QED BY <1>1, <1>2, <2>2, <2>3
<1> QED
  BY <1>1, <1>3, <1>4, <1>5, <1>6

(* Only the first byte of a frame, or of a stray magic, is followed by the *)
(* second magic byte.                                                      *)
LEMMA AfterMagic ==
    ASSUME FeedOK, NEW a, Genuine(msgs, a), a.v = AA,
           NEW b, Genuine(msgs, b), Follows(msgs, a, b), b.v = NN
    PROVE  /\ a.i = 1 /\ b = Tag(msgs, a.m, 2) /\ b.i = 2 /\ b.m = a.m
           /\ \/ KindOf(a) \in {"request", "cut"}
              \/ KindOf(a) = "stray" /\ Len(msgs[a.m].bytes) = 2
<1> DEFINE s == msgs[a.m].bytes
<1>1. /\ s \in Seq(Byte) /\ Len(s) \in Nat \ {0} /\ WellFormed(msgs[a.m])
      /\ KindOf(a) \in {"request", "cut", "key", "command", "stray"}
      /\ a.v = s[a.i] /\ a.i \in Nat /\ a.i >= 1 /\ a.i <= Len(s)
  BY GenuineShape DEF Genuine
<1>2. /\ AA # Prefix /\ NN # Prefix /\ AA # NN /\ Upper(NN)
      /\ AA \notin Ascii /\ NN \notin Ascii
      /\ MaxReq \in Nat /\ NN \in Nat
  BY LineAssumption, MessageAssumption DEF Ascii
<1>3. b.m = a.m /\ b.i = a.i + 1
  <2>1. b.i # 1
    BY FirstByte
  <2> QED BY <2>1 DEF Follows
<1>4. b.v = s[a.i + 1] /\ a.i + 1 <= Len(s) /\ b = Tag(msgs, a.m, a.i + 1)
  BY <1>3, GenuineShape DEF Genuine
<1>5. CASE KindOf(a) \in {"request", "cut"}
  <2>1. /\ Len(s) > 4 /\ s[1] = AA /\ s[2] = NN
        /\ \A i \in 5 .. Len(s) : s[i] \in Ascii
        /\ s[3] \in Nat /\ s[4] \in Nat /\ s[3] + 256 * s[4] <= MaxReq
    BY <1>5, FrameShape
  <2>2. a.i # 2 /\ a.i \notin 5 .. Len(s)
    BY <1>1, <1>2, <2>1
  <2>3. a.i # 3
    <3> SUFFICES ASSUME a.i = 3 PROVE FALSE
      OBVIOUS
    <3>1. s[4] = NN
      BY <1>4
    <3>2. 256 * s[4] > MaxReq
      BY <1>2, <3>1 DEF Upper
    <3> HIDE DEF s
    <3> QED BY <1>2, <2>1, <3>2
  <2>4. a.i # 4
    BY <1>2, <1>4, <2>1
  <2>5. a.i = 1
    BY <1>1, <2>2, <2>3, <2>4
  <2> QED BY <1>3, <1>4, <1>5, <2>5
<1>6. CASE KindOf(a) = "key"
  <2>1. a.i % 2 = 0 \/ a.i % 2 = 1
    BY <1>1
  <2>2. a.i % 2 = 0
    BY <1>2, <1>6, <2>1, KeyShape
  <2>3. b.i % 2 = 1 /\ KindOf(b) = "key"
    <3>1. (a.i + 1) % 2 = 1
      BY <1>1, <2>2, Parity
    <3> QED BY <1>3, <1>6, <3>1 DEF KindOf
  <2> QED BY <1>2, <2>3, KeyShape
<1>7. CASE KindOf(a) = "command"
  <2>1. Len(s) = 1 /\ s[1] \in Ascii
    BY <1>1, <1>7 DEF WellFormed, KindOf
  <2> QED BY <1>1, <1>4, <2>1
<1>8. CASE KindOf(a) = "stray"
  <2>1. s = <<AA>> \/ s = <<AA, NN>>
    BY <1>1, <1>8 DEF WellFormed, KindOf
  <2>2. Len(s) = 1 \/ Len(s) = 2
    BY <2>1
  <2>3. a.i = 1 /\ Len(s) = 2
    BY <1>1, <1>4, <2>2
  <2> QED BY <1>3, <1>4, <1>8, <2>3
<1> QED
  BY <1>1, <1>5, <1>6, <1>7, <1>8

(* The two bytes behind a stray magic make an absurd length.               *)
LEMMA AfterFirst ==
    ASSUME FeedOK, NEW a, Genuine(msgs, a), a.i = 1,
           NEW b, Genuine(msgs, b), Follows(msgs, a, b)
    PROVE  Upper(b.v)
<1> DEFINE s == msgs[a.m].bytes
<1>1. /\ s \in Seq(Byte) /\ Len(s) \in Nat \ {0} /\ WellFormed(msgs[a.m])
      /\ KindOf(a) \in {"request", "cut", "key", "command", "stray"}
  BY GenuineShape
<1>2. Upper(NN)
  BY MessageAssumption
<1>3. CASE b.i = 1
  BY <1>3, FirstByte
<1>4. CASE b.m = a.m /\ b.i = 2
  <2>1. b.v = s[2] /\ 2 <= Len(s)
    BY <1>4, GenuineShape DEF Genuine
  <2>2. CASE KindOf(a) \in {"request", "cut"}
    BY <1>2, <2>1, <2>2, FrameShape
  <2>3. CASE KindOf(a) = "key"
    <3>1. KindOf(b) = "key" /\ b.i % 2 = 0
      BY <1>4, <2>3 DEF KindOf
    <3> QED BY <3>1, KeyShape
  <2>4. CASE KindOf(a) = "command"
    <3>1. Len(s) = 1
      BY <1>1, <2>4 DEF WellFormed, KindOf
    <3> QED BY <2>1, <3>1
  <2>5. CASE KindOf(a) = "stray"
    <3>1. s = <<AA>> \/ s = <<AA, NN>>
      BY <1>1, <2>5 DEF WellFormed, KindOf
    <3>2. s[2] = NN
      BY <2>1, <3>1
    <3> QED BY <1>2, <2>1, <3>2
  <2> QED BY <1>1, <2>2, <2>3, <2>4, <2>5
<1> QED
  BY <1>3, <1>4 DEF Follows

-----------------------------------------------------------------------------
(* What a step does to the stream.                                         *)

(* The bytes of the messages sent stay what they are when one is added.    *)
LEMMA SendGenuine ==
    ASSUME NEW ms \in Seq(Messages), NEW m \in Messages,
           NEW b, Genuine(ms, b)
    PROVE  LET ns == Append(ms, m)
           IN  /\ Genuine(ns, b) /\ ns[b.m] = ms[b.m]
               /\ \A i : Tag(ns, b.m, i) = Tag(ms, b.m, i)
<1> DEFINE ns == Append(ms, m)
<1>1. b.m \in 1 .. Len(ms) /\ Len(ms) \in Nat
  BY DEF Genuine
<1>2. b.m \in 1 .. Len(ns) /\ ns[b.m] = ms[b.m]
  BY <1>1
<1> HIDE DEF ns
<1>3. \A i : Tag(ns, b.m, i) = Tag(ms, b.m, i)
  BY <1>2 DEF Tag
<1>4. b = Tag(ns, b.m, b.i)
  BY <1>3 DEF Genuine
<1>5. b.i \in 1 .. Len(ns[b.m].bytes)
  BY <1>2 DEF Genuine
<1>6. Genuine(ns, b)
  BY <1>2, <1>4, <1>5 DEF Genuine
<1> QED
  BY <1>2, <1>3, <1>6 DEF ns

(* The bytes of a message sent as the n-th.                                *)
LEMMA TaggedBytes ==
    ASSUME NEW n \in 1 .. MaxMessages, NEW m \in Messages
    PROVE  \A i \in 1 .. Len(m.bytes) :
              /\ Tagged(n, m)[i] = [v |-> m.bytes[i], m |-> n, i |-> i]
              /\ Tagged(n, m)[i].m = n /\ Tagged(n, m)[i].i = i
BY DEF Tagged

(* The new message goes behind the line.                                   *)
LEMMA SendChain ==
    ASSUME NEW ms \in Seq(Messages), NEW m \in Messages,
           Len(ms) + 1 \in 1 .. MaxMessages,
           NEW L \in Seq(Tagging), Chain(ms, L)
    PROVE  LET ns == Append(ms, m)
               R  == L \o Tagged(Len(ms) + 1, m)
           IN  /\ Chain(ns, R) /\ R # <<>>
               /\ \A a : Genuine(ms, a) /\ Before(ms, a, L) => Before(ns, a, R)
               /\ L # <<>> => R[1] = L[1]
<1> DEFINE n == Len(ms) + 1
           ns == Append(ms, m)
           T == Tagged(n, m)
           R == L \o T
<1>0. /\ n \in 1 .. MaxMessages /\ n = Len(ms) + 1 /\ ns = Append(ms, m)
      /\ T = Tagged(n, m) /\ R = L \o T
  OBVIOUS
<1> HIDE DEF n, ns, T, R
<1> USE <1>0
<1> DEFINE u == Len(L)
           t == Len(T)
<1>1. /\ Len(ms) \in Nat /\ Len(ns) = n /\ ns[n] = m /\ n \in Nat
      /\ u \in Nat
  OBVIOUS
<1>2. T \in Seq(Tagging) /\ t = Len(m.bytes) /\ t \in Nat \ {0}
  BY TaggedType
<1>3. \A i \in 1 .. t : /\ T[i] = [v |-> m.bytes[i], m |-> n, i |-> i]
                        /\ T[i].m = n /\ T[i].i = i
  BY <1>2, TaggedBytes
<1>13. T[1].m = n /\ T[1].i = 1
  <2>1. 1 \in 1 .. t
    BY <1>2
  <2> QED BY <1>3, <2>1
<1>4. /\ R \in Seq(Tagging) /\ Len(R) = u + t
      /\ \A k \in 1 .. u : R[k] = L[k]
      /\ \A k \in u + 1 .. u + t : R[k] = T[k - u]
  BY <1>2
<1>5. \A b : Genuine(ms, b) => Genuine(ns, b) /\ ns[b.m] = ms[b.m]
  BY SendGenuine
<1>6. ASSUME NEW i \in 1 .. t PROVE Genuine(ns, T[i])
  <2>1. T[i] = [v |-> m.bytes[i], m |-> n, i |-> i] /\ T[i].m = n /\ T[i].i = i
    BY <1>3
  <2>2. n \in 1 .. Len(ns) /\ i \in 1 .. Len(ns[n].bytes)
    BY <1>1, <1>2
  <2>3. Tag(ns, n, i) = T[i]
    BY <1>1, <2>1 DEF Tag
  <2> QED BY <2>1, <2>2, <2>3 DEF Genuine
<1> HIDE DEF u, t
<1>7. ASSUME NEW k \in 1 .. Len(R) PROVE Genuine(ns, R[k])
  <2>1. CASE k \in 1 .. u
    <3>1. Genuine(ms, L[k])
      BY <2>1 DEF Chain, u
    <3> QED BY <1>4, <1>5, <2>1, <3>1
  <2>2. CASE k \in u + 1 .. u + t
    <3>1. k - u \in 1 .. t
      BY <1>1, <1>2, <2>2
    <3> QED BY <1>4, <1>6, <2>2, <3>1
  <2> QED BY <1>1, <1>2, <1>4, <2>1, <2>2
<1>8. R # <<>> /\ (L # <<>> => R[1] = L[1]) /\ (L = <<>> => R[1] = T[1])
  <2>1. Len(R) # 0
    BY <1>1, <1>2, <1>4
  <2>2. L = <<>> <=> u = 0
    BY EmptySeq DEF u
  <2>3. R # <<>>
    BY <1>4, <2>1, EmptySeq
  <2>4. u # 0 => R[1] = L[1]
    <3>1. u # 0 => 1 \in 1 .. u
      BY <1>1
    <3> QED BY <1>4, <3>1
  <2>5. u = 0 => R[1] = T[1]
    BY <1>2, <1>4
  <2> QED BY <2>2, <2>3, <2>4, <2>5
<1>9. ASSUME NEW a, Genuine(ms, a), Before(ms, a, L) PROVE Before(ns, a, R)
  <2>0. ns[a.m] = ms[a.m]
    BY <1>5, <1>9
  <2>1. CASE L = <<>>
    <3>1. a.m = Len(ms) /\ IsLast(ms, a)
      BY <1>9, <2>1 DEF Before
    <3>2. R[1].m = n /\ R[1].i = 1
      BY <1>8, <1>13, <2>1
    <3> QED BY <1>8, <2>0, <3>1, <3>2 DEF Before, Follows, IsLast
  <2>2. CASE L # <<>>
    BY <1>8, <1>9, <2>0, <2>2 DEF Before, Follows, IsLast
  <2> QED BY <2>1, <2>2
<1>10. ASSUME NEW k \in 1 .. Len(R) - 1 PROVE Follows(ns, R[k], R[k + 1])
  <2>1. CASE k \in 1 .. u - 1
    <3>1. k \in 1 .. u /\ k + 1 \in 1 .. u /\ k \in 1 .. Len(L) - 1
      BY <1>1, <2>1 DEF u
    <3>2. Follows(ms, L[k], L[k + 1]) /\ Genuine(ms, L[k])
      BY <3>1 DEF Chain, u
    <3>3. R[k] = L[k] /\ R[k + 1] = L[k + 1]
      BY <1>4, <3>1
    <3>4. ns[L[k].m] = ms[L[k].m]
      BY <1>5, <3>2
    <3> QED BY <3>2, <3>3, <3>4 DEF Follows, IsLast
  <2>2. CASE k = u
    <3>1. u \in 1 .. u /\ L # <<>>
      BY <1>1, <2>2 DEF u
    <3>2. L[u].m = Len(ms) /\ IsLast(ms, L[u]) /\ Genuine(ms, L[u])
      BY <3>1 DEF Chain, u
    <3>3. R[k] = L[u]
      BY <1>4, <2>2, <3>1
    <3>4. R[k + 1] = T[1]
      <4>1. u + 1 \in u + 1 .. u + t /\ (u + 1) - u = 1
        BY <1>1, <1>2
      <4> QED BY <1>4, <2>2, <4>1
    <3>5. R[k + 1].m = n /\ R[k + 1].i = 1
      BY <1>13, <3>4
    <3>6. ns[L[u].m] = ms[L[u].m]
      BY <1>5, <3>2
    <3> QED BY <3>2, <3>3, <3>5, <3>6 DEF Follows, IsLast
  <2>3. CASE k \in u + 1 .. u + t - 1
    <3>1. /\ k \in u + 1 .. u + t /\ k + 1 \in u + 1 .. u + t
          /\ k - u \in 1 .. t /\ (k + 1) - u \in 1 .. t
          /\ (k + 1) - u = (k - u) + 1
      BY <1>1, <1>2, <2>3
    <3>2. R[k] = T[k - u] /\ R[k + 1] = T[(k + 1) - u]
      BY <1>4, <3>1
    <3>3. /\ R[k].m = n /\ R[k + 1].m = n
          /\ R[k].i = k - u /\ R[k + 1].i = (k + 1) - u
      BY ZenonT(40), <1>3, <3>1, <3>2
    <3> QED BY <3>1, <3>3 DEF Follows
  <2> QED BY SMTT(30), <1>1, <1>2, <1>4, <2>1, <2>2, <2>3
<1>11. R[Len(R)].m = Len(ns) /\ IsLast(ns, R[Len(R)])
  <2>1. u + t \in u + 1 .. u + t /\ (u + t) - u = t /\ t \in 1 .. t
    BY <1>1, <1>2
  <2>2. R[Len(R)] = T[t]
    BY <1>4, <2>1
  <2>3. R[Len(R)].m = n /\ R[Len(R)].i = t
    BY ZenonT(40), <1>3, <2>1, <2>2
  <2> QED BY <1>1, <1>2, <2>3 DEF IsLast
<1>12. Chain(ns, R)
  BY <1>7, <1>10, <1>11 DEF Chain
<1> QED
  BY <1>8, <1>9, <1>12 DEF n, ns, T, R

(* A step sends a message, takes the first byte of the line, or leaves the *)
(* line as it is.                                                          *)
LEMMA LineSteps ==
    ASSUME FeedOK, [Next]_vars
    PROVE  \/ \E m \in Messages : Send(m)
           \/ /\ uart # <<>> /\ Line # <<>> /\ Line[1] = Head(uart)
              /\ Line' = Tail(Line) /\ msgs' = msgs
           \/ Line' = Line /\ msgs' = msgs
<1>1. ASSUME uart # <<>>, uart' = Tail(uart), rest' = rest, msgs' = msgs
      PROVE  /\ uart # <<>> /\ Line # <<>> /\ Line[1] = Head(uart)
             /\ Line' = Tail(Line) /\ msgs' = msgs
  BY <1>1, LineTake
<1>2. ASSUME uart' = uart, rest' = rest, msgs' = msgs
      PROVE  Line' = Line /\ msgs' = msgs
  BY <1>2 DEF Line
<1>3. CASE Arrive
  BY <1>3, LineArrive DEF Arrive
<1>4. CASE IdleByte \/ ReaderByte \/ Preempt \/ DrainByte
  BY <1>1, <1>4 DEF IdleByte, ReaderByte, Preempt, DrainByte, feedVars
<1>5. CASE ServeByte
  BY <1>1, <1>2, <1>5 DEF ServeByte, feedVars
<1>6. CASE DropLength \/ Stall \/ Resume \/ TickDrain \/ DrainEnd \/ Leave \/ GetKey
  BY <1>2, <1>6 DEF DropLength, Stall, Resume, TickDrain, DrainEnd, Leave,
     GetKey, feedVars
<1>7. CASE UNCHANGED vars
  BY <1>2, <1>7 DEF vars
<1> QED
  BY <1>3, <1>4, <1>5, <1>6, <1>7 DEF Next, Kernel

(* Sending, in terms of the state.                                         *)
LEMMA SendStream ==
    ASSUME FeedOK, Chain(msgs, Line), NEW m \in Messages, Send(m)
    PROVE  /\ \A b : Genuine(msgs, b) =>
                 /\ Genuine(msgs', b) /\ msgs'[b.m] = msgs[b.m]
                 /\ \A i : Tag(msgs', b.m, i) = Tag(msgs, b.m, i)
           /\ Chain(msgs', Line') /\ Line' # <<>>
           /\ \A a : Genuine(msgs, a) /\ Before(msgs, a, Line)
                        => Before(msgs', a, Line')
           /\ Line # <<>> => Line'[1] = Line[1]
<1>1. /\ msgs \in Seq(Messages) /\ msgs' = Append(msgs, m) /\ rest = <<>>
      /\ uart' = uart /\ uart \in Seq(Tagging)
      /\ rest' = Tagged(Len(msgs) + 1, m)
      /\ Len(msgs) + 1 \in 1 .. MaxMessages
  BY LineAssumption DEF FeedOK, Send
<1>2. /\ Line = uart /\ Line \in Seq(Tagging)
      /\ Line' = Line \o Tagged(Len(msgs) + 1, m)
  BY <1>1, ConcatEmptySeq DEF Line
<1>3. \A b : Genuine(msgs, b) =>
         /\ Genuine(msgs', b) /\ msgs'[b.m] = msgs[b.m]
         /\ \A i : Tag(msgs', b.m, i) = Tag(msgs, b.m, i)
  BY <1>1, SendGenuine
<1>4. /\ Chain(msgs', Line') /\ Line' # <<>>
      /\ \A a : Genuine(msgs, a) /\ Before(msgs, a, Line)
                   => Before(msgs', a, Line')
      /\ Line # <<>> => Line'[1] = Line[1]
  BY <1>1, <1>2, SendChain
<1> QED
  BY <1>3, <1>4

LEMMA ChainNext ==
    ASSUME FeedOK, Chain(msgs, Line), [Next]_vars
    PROVE  Chain(msgs', Line')
<1>1. CASE \E m \in Messages : Send(m)
  BY <1>1, SendStream
<1>2. CASE Line # <<>> /\ Line' = Tail(Line) /\ msgs' = msgs
  BY <1>2, LineType, ChainTake
<1>3. CASE Line' = Line /\ msgs' = msgs
  BY <1>3
<1> QED
  BY <1>1, <1>2, <1>3, LineSteps

LEMMA ControlNext == LineTypes /\ ControlInv /\ [Next]_vars => ControlInv'
<1> SUFFICES ASSUME LineTypes, ControlInv, [Next]_vars PROVE ControlInv'
  OBVIOUS
<1>0. /\ MaxStallWaits \in Nat /\ gap \in 0 .. MaxStallWaits + 1
      /\ waits \in 0 .. MaxStallWaits /\ ProcOK
      /\ uart \in Seq(Tagging) /\ stash \in Tagging \cup {None}
  BY LineAssumption DEF LineTypes, FeedOK, ReaderOK
<1> USE DEF ControlInv, feedVars, readerVars, keyVars, procVars
<1>1. CASE Arrive
  <2>1. uart' # <<>>
    BY <1>0, <1>1 DEF Arrive
  <2> QED BY <1>1, <2>1 DEF Arrive
<1>2. ASSUME NEW m \in Messages, Send(m) PROVE ControlInv'
  BY <1>2 DEF Send
<1>3. CASE IdleByte
  <2>1. stash' = None /\ waits = 0 /\ gap' = gap /\ at = "off"
    BY <1>3 DEF IdleByte
  <2>2. waits' = 0
    BY <1>3, <2>1 DEF IdleByte, CallReader
  <2>3. \/ UNCHANGED procVars
        \/ place' = "serve" /\ drain' = FALSE /\ at' = at
    BY <1>3 DEF IdleByte, Seed
  <2>4. place = "idle" /\ ~drain
    BY <1>3 DEF IdleByte
  <2> QED BY <1>0, <2>1, <2>2, <2>3, <2>4
<1>4. CASE ReaderByte
  <2>1. at # "off" /\ place # "run" /\ ~drain /\ stash = None /\ stash' = stash
        /\ gap' = gap
    BY <1>4 DEF ReaderByte, ReadMagic, ReadLength, ReadBody
  <2>2. waits' = 0
    BY <1>4 DEF ReaderByte, ReadMagic, ReadLength, ReadBody, GiveUp, Return
  <2>3. UNCHANGED procVars \/ (place' = "serve" /\ drain' = FALSE)
    BY <1>4 DEF ReaderByte, ReadMagic, ReadLength, ReadBody, GiveUp, Dispatch,
       Seed
  <2> QED BY <1>0, <2>1, <2>2, <2>3
<1>5. CASE DropLength
  BY <1>0, <1>5 DEF DropLength, GiveUp, Return
<1>6. CASE Stall
  <2>1. at # "off" /\ UNCHANGED <<stash, uart, procVars>> /\ uart = <<>>
        /\ waits <= gap
    BY <1>6 DEF Stall, GiveUp
  <2>2. gap' \in Nat /\ (gap > MaxStallWaits \/ gap' = gap + 1)
        /\ (gap > MaxStallWaits => gap' = gap)
    BY <1>0, <1>6 DEF Stall
  <2>3. \/ waits' = 0 /\ at' = "off"
        \/ waits' = waits + 1 /\ waits' <= MaxStallWaits /\ at' = at
    BY <1>0, <1>6 DEF Stall, GiveUp, Return, Waited
  <2>4. waits' <= gap'
    BY <1>0, <2>1, <2>2, <2>3
  <2> QED BY <2>1, <2>3, <2>4
<1>7. CASE ServeByte
  <2>1. /\ at = "off" /\ waits = 0 /\ stash' = None /\ UNCHANGED procVars
        /\ gap' = gap /\ place = "serve"
    BY <1>7 DEF ServeByte
  <2>2. waits' = 0
    BY <1>7, <2>1 DEF ServeByte, CallReader
  <2> QED BY <1>0, <2>1, <2>2
<1>8. CASE Preempt
  BY <1>0, <1>8 DEF Preempt
<1>9. CASE DrainByte
  <2>1. /\ drain /\ place = "run" /\ wants /\ at = "off" /\ waits = 0
        /\ UNCHANGED <<gap, place, wants, drain, stash, at, waits>>
    BY <1>9 DEF DrainByte
  <2> QED BY <1>0, <2>1
<1>10. CASE Resume \/ TickDrain \/ DrainEnd \/ Leave \/ GetKey
  BY <1>0, <1>10 DEF Resume, TickDrain, DrainEnd, Leave, GetKey, Deaf, ProcOK
<1>11. CASE UNCHANGED vars
  BY <1>11 DEF vars
<1> QED
  BY <1>1, <1>2, <1>3, <1>4, <1>5, <1>6, <1>7, <1>8, <1>9, <1>10, <1>11
     DEF Next, Kernel

LEMMA StashNext ==
    ASSUME LineTypes, Chain(msgs, Line), ControlInv, StashInv, [Next]_vars
    PROVE  StashInv'
<1>0. FeedOK /\ Line \in Seq(Tagging)
  BY LineType DEF LineTypes
<1>1. ASSUME stash' = stash, msgs' = msgs, Line' = Line PROVE StashInv'
  BY <1>1 DEF StashInv
<1>2. ASSUME stash' = None PROVE StashInv'
  BY <1>2 DEF StashInv
<1>3. ASSUME NEW m \in Messages, Send(m) PROVE StashInv'
  <2>1. stash' = stash
    BY <1>3 DEF Send
  <2>2. stash # None => Genuine(msgs', stash) /\ Before(msgs', stash, Line')
    BY <1>0, <1>3, SendStream DEF StashInv
  <2> QED BY <2>1, <2>2 DEF StashInv
<1>4. CASE Arrive
  BY <1>0, <1>1, <1>4, LineArrive DEF Arrive
<1>5. CASE IdleByte \/ ReaderByte \/ DrainByte
  <2>1. place = "idle" \/ at # "off" \/ drain
    BY <1>5 DEF IdleByte, ReaderByte, ReadMagic, ReadLength, ReadBody, DrainByte
  <2>2. stash = None
    BY <2>1 DEF ControlInv
  <2>3. stash' = stash
    BY <1>5 DEF IdleByte, ReaderByte, DrainByte
  <2> QED BY <1>2, <2>2, <2>3
<1>6. CASE ServeByte
  BY <1>2, <1>6 DEF ServeByte
<1>7. CASE Preempt
  <2>1. /\ uart # <<>> /\ uart' = Tail(uart) /\ rest' = rest
        /\ msgs' = msgs /\ stash' = Head(uart)
    BY <1>7 DEF Preempt, feedVars
  <2>2. Line # <<>> /\ Line[1] = Head(uart) /\ Line' = Tail(Line)
    BY <1>0, <2>1, LineTake
  <2>3. Genuine(msgs, Line[1]) /\ Before(msgs, Line[1], Tail(Line))
    BY <1>0, <2>2, ChainTake
  <2> QED BY <2>1, <2>2, <2>3 DEF StashInv
<1>8. CASE DropLength \/ Stall \/ Resume \/ TickDrain \/ DrainEnd \/ Leave \/ GetKey
  <2>1. stash' = stash /\ msgs' = msgs /\ uart' = uart /\ rest' = rest
    BY <1>8 DEF DropLength, Stall, Resume, TickDrain, DrainEnd, Leave, GetKey,
       feedVars
  <2> QED BY <1>1, <2>1 DEF Line
<1>9. CASE UNCHANGED vars
  BY <1>1, <1>9 DEF vars, Line
<1> QED
  BY <1>3, <1>4, <1>5, <1>6, <1>7, <1>8, <1>9 DEF Next, Kernel

(* A tick takes a byte of the payload that owns the line.                  *)
LEMMA PrefixDrain ==
    ASSUME LineTypes, Chain(msgs, Line), ControlInv, PrefixInv, DrainByte
    PROVE  PrefixInv'
<1> DEFINE b == Head(uart)
<1>0. FeedOK /\ Line \in Seq(Tagging) /\ queued \in Seq(Tagging)
  BY LineType DEF LineTypes, KeyOK
<1>1. /\ uart # <<>> /\ uart' = Tail(uart) /\ rest' = rest /\ msgs' = msgs
      /\ place' = place /\ wants' = wants /\ drain
      /\ DrainBare(b) \/ DrainKill(b) \/ DrainKey(b)
  BY DEF DrainByte, feedVars
<1>2. Line # <<>> /\ Line[1] = b /\ Line' = Tail(Line)
  BY <1>0, <1>1, LineTake
<1>3. /\ Genuine(msgs, b) /\ Before(msgs, b, Tail(Line))
      /\ Tail(Line) # <<>> =>
            Genuine(msgs, Tail(Line)[1]) /\ Follows(msgs, b, Tail(Line)[1])
      /\ b \in Tagging
  BY <1>0, <1>1, <1>2, ChainTake, HeadTagging DEF FeedOK
<1>4. place = "run" /\ wants
  BY <1>1 DEF ControlInv
<1> HIDE DEF b
<1>5. CASE DrainBare(b)
  <2>1. queued' = queued /\ alive' = alive /\ pending' = (b.v = Prefix)
    BY <1>5 DEF DrainBare
  <2>2. ASSUME b.v = Prefix PROVE Line' # <<>> /\ Candidate(msgs, Line'[1])
    <3>1. ~IsLast(msgs, b)
      BY <1>0, <1>3, <2>2, AfterPrefix
    <3>2. Tail(Line) # <<>>
      BY <1>3, <3>1 DEF Before
    <3> QED BY <1>0, <1>2, <1>3, <2>2, <3>2, AfterPrefix
  <2> QED BY <1>1, <1>4, <2>1, <2>2 DEF PrefixInv
<1>6. CASE DrainKill(b)
  <2>1. queued' = queued /\ pending' = FALSE
    BY <1>6 DEF DrainKill
  <2> QED BY <1>1, <2>1 DEF PrefixInv
<1>7. CASE DrainKey(b)
  <2>1. pending /\ pending' = FALSE /\ PushKey(b)
    BY <1>7 DEF DrainKey
  <2>2. CASE queued' = queued
    BY <1>1, <2>1, <2>2 DEF PrefixInv
  <2>3. CASE alive /\ queued' = Append(queued, b)
    <3>1. Candidate(msgs, b)
      BY <1>2, <2>1, <2>3 DEF PrefixInv
    <3>2. \A k \in 1 .. Len(queued') : queued'[k] = b \/
             (k \in 1 .. Len(queued) /\ queued'[k] = queued[k])
      BY <1>0, <1>3, <2>3
    <3>3. \A k \in 1 .. Len(queued') :
             Genuine(msgs, queued'[k]) /\ Candidate(msgs, queued'[k])
      BY <1>3, <3>1, <3>2 DEF PrefixInv
    <3> QED BY <1>1, <2>1, <3>3 DEF PrefixInv
  <2> QED BY <2>1, <2>2, <2>3 DEF PushKey
<1> QED
  BY <1>1, <1>5, <1>6, <1>7

LEMMA PrefixNext ==
    ASSUME LineTypes, Chain(msgs, Line), ControlInv, PrefixInv, [Next]_vars
    PROVE  PrefixInv'
<1>0. FeedOK /\ Line \in Seq(Tagging) /\ ProcOK
  BY LineType DEF LineTypes
<1>1. ASSUME NEW m \in Messages, Send(m) PROVE PrefixInv'
  <2>1. UNCHANGED <<pending, alive, wants, place, queued>>
    BY <1>1 DEF Send, procVars, keyVars
  <2>2. \A b : Genuine(msgs, b) =>
           Genuine(msgs', b) /\ msgs'[b.m] = msgs[b.m]
    BY <1>0, <1>1, SendStream
  <2>3. \A k \in 1 .. Len(queued) :
           Genuine(msgs', queued[k]) /\ Candidate(msgs', queued[k])
    BY <2>2 DEF PrefixInv, Candidate
  <2>4. ASSUME pending, alive
        PROVE  Line' # <<>> /\ Candidate(msgs', Line'[1])
    <3>1. Line # <<>> /\ Candidate(msgs, Line[1])
      BY <2>4 DEF PrefixInv
    <3>2. Genuine(msgs, Line[1])
      BY <1>0, <3>1, ChainTake
    <3>3. Candidate(msgs', Line[1])
      BY <2>2, <3>1, <3>2 DEF Candidate
    <3> QED BY <1>0, <1>1, <3>1, <3>3, SendStream
  <2> QED BY <2>1, <2>3, <2>4 DEF PrefixInv
<1>2. ASSUME msgs' = msgs, queued' = queued \/ queued' = <<>>,
             ~pending' \/ ~alive'
      PROVE  PrefixInv'
  <2>1. CASE queued' = queued
    BY <1>2, <2>1 DEF PrefixInv
  <2>2. CASE queued' = <<>>
    <3>1. Len(queued') = 0
      BY <2>2
    <3> QED BY <1>2, <3>1 DEF PrefixInv
  <2> QED BY <1>2, <2>1, <2>2
<1>3. CASE IdleByte
  <2>1. ~alive /\ msgs' = msgs
    BY <1>3 DEF IdleByte, ControlInv, feedVars
  <2>2. \/ alive' = alive /\ queued' = queued
        \/ queued' = <<>> /\ pending' = FALSE
    BY <1>3 DEF IdleByte, Seed, ClearKeys, procVars, keyVars
  <2> QED BY <1>2, <2>1, <2>2
<1>4. CASE ReaderByte
  <2>1. at # "off" /\ msgs' = msgs
    BY <1>4 DEF ReaderByte, ReadMagic, ReadLength, ReadBody, feedVars
  <2>2. ~pending \/ ~alive
    BY <2>1 DEF ControlInv, PrefixInv
  <2>3. \/ alive' = alive /\ pending' = pending /\ queued' = queued
        \/ queued' = <<>> /\ pending' = FALSE
    BY <1>4 DEF ReaderByte, ReadMagic, ReadLength, ReadBody, GiveUp, Dispatch,
       Seed, ClearKeys, procVars, keyVars
  <2> QED BY <1>2, <2>1, <2>2, <2>3
<1>5. CASE ServeByte \/ Preempt
  <2>1. /\ msgs' = msgs /\ UNCHANGED <<pending, alive, queued>>
        /\ place = "serve" \/ ~wants
    BY <1>5 DEF ServeByte, Preempt, feedVars, procVars, keyVars
  <2>2. ~pending \/ ~alive
    BY <2>1 DEF PrefixInv
  <2> QED BY <1>2, <2>1, <2>2
<1>6. CASE DrainByte
  BY <1>6, PrefixDrain
<1>7. ASSUME msgs' = msgs, Line' = Line, queued' = queued, pending' = pending,
             wants' = wants, alive' = alive, place' = place \/ place # "run"
      PROVE  PrefixInv'
  BY <1>7 DEF PrefixInv
<1>8. CASE Arrive
  BY <1>0, <1>7, <1>8, LineArrive DEF Arrive, procVars, keyVars
<1>9. CASE DropLength \/ Stall
  BY <1>7, <1>9 DEF DropLength, Stall, GiveUp, feedVars, procVars, keyVars, Line
<1>10. CASE Resume \/ TickDrain \/ GetKey
  BY <1>7, <1>10 DEF Resume, TickDrain, GetKey, feedVars, procVars, keyVars, Line
<1>11. CASE DrainEnd
  <2>1. msgs' = msgs /\ Line' = Line /\ UNCHANGED <<queued, pending, wants, alive>>
    BY <1>11 DEF DrainEnd, feedVars, keyVars, Line
  <2>2. alive => place' = place
    BY <1>11 DEF DrainEnd
  <2> QED BY <1>2, <1>7, <2>1, <2>2
<1>12. CASE Leave
  BY <1>2, <1>12 DEF Leave, feedVars, keyVars
<1>13. CASE UNCHANGED vars
  BY <1>7, <1>13 DEF vars, Line
<1> QED
  BY <1>1, <1>3, <1>4, <1>5, <1>6, <1>8, <1>9, <1>10, <1>11, <1>12, <1>13
     DEF Next, Kernel

(* The tags of a message's own bytes.                                      *)
LEMMA TagGenuine ==
    ASSUME FeedOK, NEW b, Genuine(msgs, b),
           NEW i \in 1 .. Len(msgs[b.m].bytes)
    PROVE  /\ Genuine(msgs, Tag(msgs, b.m, i))
           /\ Tag(msgs, b.m, i).m = b.m /\ Tag(msgs, b.m, i).i = i
           /\ Tag(msgs, b.m, i).v = msgs[b.m].bytes[i]
<1> DEFINE t == Tag(msgs, b.m, i)
<1>1. t.m = b.m /\ t.i = i /\ t.v = msgs[b.m].bytes[i]
  BY DEF Tag
<1>2. t = Tag(msgs, t.m, t.i)
  BY <1>1
<1> HIDE DEF t
<1>3. Genuine(msgs, t)
  BY <1>1, <1>2 DEF Genuine
<1> QED
  BY <1>1, <1>3 DEF t

(* The byte behind a byte of a message that is not its last.               *)
LEMMA NextInMessage ==
    ASSUME FeedOK, NEW b, Genuine(msgs, b),
           NEW i \in 1 .. Len(msgs[b.m].bytes) - 1,
           NEW c, Genuine(msgs, c), Follows(msgs, Tag(msgs, b.m, i), c)
    PROVE  c = Tag(msgs, b.m, i + 1)
<1>0. Len(msgs[b.m].bytes) \in Nat
  BY GenuineShape
<1>1. Tag(msgs, b.m, i).m = b.m /\ Tag(msgs, b.m, i).i = i
  BY DEF Tag
<1>2. ~IsLast(msgs, Tag(msgs, b.m, i))
  BY <1>0, <1>1 DEF IsLast
<1>3. c.m = b.m /\ c.i = i + 1
  BY <1>1, <1>2 DEF Follows
<1> QED
  BY <1>3 DEF Genuine

(* The byte behind a byte of a message that is its last.                   *)
LEMMA NextMessage ==
    ASSUME FeedOK, NEW b, Genuine(msgs, b), IsLast(msgs, b),
           NEW c, Genuine(msgs, c), Follows(msgs, b, c)
    PROVE  c.i = 1
<1>1. c.i <= Len(msgs[c.m].bytes) /\ Len(msgs[b.m].bytes) \in Nat
  BY GenuineShape DEF Genuine
<1>2. ~(c.m = b.m /\ c.i = b.i + 1)
  BY <1>1 DEF IsLast
<1> QED
  BY <1>2 DEF Follows

(* A new message disturbs nothing the reader has read.                     *)
LEMMA ReaderSend ==
    ASSUME LineTypes, Chain(msgs, Line), ReaderInv, NEW m \in Messages, Send(m)
    PROVE  ReaderInv'
<1>0. FeedOK /\ ReaderOK
  BY DEF LineTypes
<1>1. UNCHANGED readerVars
  BY DEF Send
<1>2. \A b : Genuine(msgs, b) =>
         /\ Genuine(msgs', b) /\ msgs'[b.m] = msgs[b.m]
         /\ \A i : Tag(msgs', b.m, i) = Tag(msgs, b.m, i)
  BY <1>0, SendStream
<1>3. \A a : Genuine(msgs, a) /\ Before(msgs, a, Line)
                => Before(msgs', a, Line')
  BY <1>0, SendStream
<1>4. CASE at = "off"
  BY <1>1, <1>4 DEF ReaderInv, readerVars
<1>5. CASE at # "off"
  <2>0. Genuine(msgs, opener) /\ opener.v = AA
    BY <1>5 DEF ReaderInv
  <2>1. /\ Genuine(msgs', opener) /\ msgs'[opener.m] = msgs[opener.m]
        /\ \A i : Tag(msgs', opener.m, i) = Tag(msgs, opener.m, i)
    BY <1>2, <2>0
  <2>2. CASE at = "magic"
    <3>1. Before(msgs', opener, Line')
      BY <1>3, <2>0, <2>2 DEF ReaderInv
    <3> QED BY <1>1, <2>0, <2>1, <2>2, <3>1 DEF ReaderInv, readerVars
  <2>3. CASE at \in {"len", "body"}
    <3>0. opener.i = 1
      BY <2>3 DEF ReaderInv
    <3>1. CASE KindOf(opener) \in {"request", "cut"} /\ FrameRead
      <4>1. Len(msgs[opener.m].bytes) \in Nat /\ Len(msgs[opener.m].bytes) > 4
        BY <1>0, <2>0, <3>1, FrameShape
      <4>2. Len(lenb) \in Nat /\ Len(body) \in Nat
        BY <1>0 DEF ReaderOK
      <4>3. ASSUME at = "len"
            PROVE  Before(msgs', Tag(msgs, opener.m, 2 + Len(lenb)), Line')
        <5>1. 2 + Len(lenb) \in 1 .. Len(msgs[opener.m].bytes)
          BY <1>0, <4>1, <4>2, <4>3 DEF ReaderOK
        <5> QED BY <1>0, <1>3, <2>0, <3>1, <4>3, <5>1, TagGenuine DEF FrameRead
      <4>4. ASSUME at = "body", Len(body) <= Len(msgs[opener.m].bytes) - 4
            PROVE  Before(msgs', Tag(msgs, opener.m, 4 + Len(body)), Line')
        <5>1. 4 + Len(body) \in 1 .. Len(msgs[opener.m].bytes)
          BY <4>1, <4>2, <4>4
        <5> QED BY <1>0, <1>3, <2>0, <3>1, <4>4, <5>1, TagGenuine DEF FrameRead
      <4>5. ASSUME at = "body", Len(body) > Len(msgs[opener.m].bytes) - 4
            PROVE  Filled'
        <5>1. Filled
          BY <3>1, <4>5 DEF FrameRead
        <5>2. CASE \E k \in 1 .. Len(body) : body[k].v \notin Ascii
          BY <1>1, <5>2 DEF Filled, readerVars
        <5>3. CASE /\ \A k \in Len(msgs[opener.m].bytes) - 3 .. Len(body) :
                        /\ Genuine(msgs, body[k])
                        /\ KindOf(body[k]) = "command"
                   /\ Before(msgs, body[Len(body)], Line)
          <6>1. \A k \in Len(msgs[opener.m].bytes) - 3 .. Len(body) :
                   Genuine(msgs', body[k]) /\ msgs'[body[k].m].kind = "command"
            BY <1>2, <5>3 DEF KindOf
          <6>2. Len(body) \in Len(msgs[opener.m].bytes) - 3 .. Len(body)
            BY <4>1, <4>2, <4>5
          <6>3. Before(msgs', body[Len(body)], Line')
            BY <1>3, <5>3, <6>2
          <6> QED BY <1>1, <2>1, <6>1, <6>3 DEF Filled, readerVars, KindOf
        <5> QED BY <5>1, <5>2, <5>3 DEF Filled
      <4>6. FrameRead'
        BY <1>1, <2>1, <3>1, <4>3, <4>4, <4>5 DEF FrameRead, readerVars
      <4>7. KindOf(opener)' \in {"request", "cut"}
        BY <1>1, <2>1, <3>1 DEF KindOf, readerVars
      <4> QED
        BY <1>1, <2>0, <2>1, <2>3, <3>0, <4>6, <4>7 DEF ReaderInv, readerVars
    <3>2. CASE StrayRead
      <4>1. /\ KindOf(opener) = "stray" /\ Len(msgs[opener.m].bytes) = 2
        BY <3>2 DEF StrayRead
      <4>2. Len(lenb) = 0 => Before(msgs', Tag(msgs, opener.m, 2), Line')
        BY <1>0, <1>3, <2>0, <3>2, <4>1, TagGenuine DEF StrayRead
      <4>3. Len(lenb) = 1 =>
               /\ Genuine(msgs', lenb[1]) /\ lenb[1].i = 1
               /\ Before(msgs', lenb[1], Line')
        BY <1>2, <1>3, <3>2 DEF StrayRead
      <4>4. StrayRead'
        BY <1>1, <2>1, <3>2, <4>1, <4>2, <4>3 DEF StrayRead, KindOf, readerVars
      <4> QED
        BY <1>1, <2>0, <2>1, <2>3, <3>0, <4>4 DEF ReaderInv, readerVars
    <3> QED BY <2>3, <3>1, <3>2 DEF ReaderInv
  <2> QED BY <1>0, <1>5, <2>2, <2>3 DEF ReaderOK
<1> QED
  BY <1>4, <1>5

(* The reader takes the first byte of the line.                            *)
Takes(b) ==
    /\ Line # <<>> /\ b = Line[1] /\ Genuine(msgs, b) /\ b \in Tagging
    /\ Line' = Tail(Line) /\ msgs' = msgs /\ Before(msgs, b, Tail(Line))


LEMMA MagicRead ==
    ASSUME LineTypes, ReaderInv, NEW b, Takes(b), ReadMagic(b)
    PROVE  ReaderInv'
<1>0. FeedOK /\ ReaderOK /\ at = "magic"
  BY DEF LineTypes, ReadMagic
<1>1. CASE b.v # NN
  BY <1>1 DEF ReadMagic, GiveUp, Return, ReaderInv
<1>2. CASE b.v = NN
  <2>1. at' = "len" /\ UNCHANGED <<lenb, body, opener>>
    BY <1>2 DEF ReadMagic
  <2>2. /\ Genuine(msgs, opener) /\ opener.v = AA /\ Before(msgs, opener, Line)
    BY <1>0 DEF ReaderInv
  <2>3. Follows(msgs, opener, b)
    BY <2>2 DEF Takes, Before
  <2>4. /\ opener.i = 1 /\ b = Tag(msgs, opener.m, 2)
        /\ \/ KindOf(opener) \in {"request", "cut"}
           \/ KindOf(opener) = "stray" /\ Len(msgs[opener.m].bytes) = 2
    BY <1>0, <1>2, <2>2, <2>3, AfterMagic DEF Takes
  <2>5. Len(lenb) = 0
    BY <1>0 DEF ReaderOK
  <2>6. Before(msgs', Tag(msgs', opener.m, 2), Line')
    BY <2>4 DEF Takes
  <2>7. 2 + Len(lenb') = 2 /\ 1 .. Len(lenb') = {}
    BY <2>1, <2>5
  <2>8. FrameRead'
    BY <2>1, <2>6, <2>7 DEF FrameRead
  <2>9. KindOf(opener) = "stray" /\ Len(msgs[opener.m].bytes) = 2 => StrayRead'
    BY <2>1, <2>5, <2>6 DEF StrayRead, KindOf, Takes
  <2>10. KindOf(opener)' = KindOf(opener) /\ Genuine(msgs', opener')
    BY <2>1, <2>2 DEF KindOf, Takes
  <2> QED BY <2>1, <2>2, <2>4, <2>8, <2>9, <2>10 DEF ReaderInv
<1> QED
  BY <1>1, <1>2

LEMMA LengthRead ==
    ASSUME LineTypes, ReaderInv, NEW b, Takes(b), ReadLength(b)
    PROVE  ReaderInv'
<1> DEFINE n == Len(lenb)
           m == opener.m
<1>0. /\ FeedOK /\ ReaderOK /\ at = "len"
      /\ lenb' = Append(lenb, b) /\ UNCHANGED <<body, opener>>
      /\ at' = IF Len(lenb') = 2 THEN "body" ELSE "len"
  BY DEF LineTypes, ReadLength
<1>1. /\ lenb \in Seq(Tagging) /\ n \in Nat /\ n < 2 /\ body = <<>>
      /\ b \in Tagging
  BY <1>0 DEF ReaderOK, Takes
<1>2. /\ Len(lenb') = n + 1 /\ lenb'[n + 1] = b
      /\ \A k \in 1 .. n : lenb'[k] = lenb[k]
  BY <1>0, <1>1
<1>3. Genuine(msgs, opener) /\ opener.v = AA /\ opener.i = 1
  BY <1>0 DEF ReaderInv
<1>4. Genuine(msgs', opener') /\ opener'.v = AA /\ opener'.i = 1
  BY <1>0, <1>3 DEF Takes
<1>5. CASE KindOf(opener) \in {"request", "cut"} /\ FrameRead
  <2>1. Len(msgs[m].bytes) \in Nat /\ Len(msgs[m].bytes) > 4
    BY <1>0, <1>3, <1>5, FrameShape
  <2>2. Follows(msgs, Tag(msgs, m, 2 + n), b)
    BY <1>0, <1>5 DEF FrameRead, Takes, Before
  <2>3. 2 + n \in 1 .. Len(msgs[m].bytes) - 1 /\ (2 + n) + 1 = 2 + (n + 1)
    BY <1>1, <2>1
  <2>4. b = Tag(msgs, m, 2 + (n + 1))
    BY <1>0, <1>3, <2>2, <2>3, NextInMessage DEF Takes
  <2>5. \A k \in 1 .. Len(lenb') : lenb'[k] = Tag(msgs', opener'.m, 2 + k)
    <3>1. \A k \in 1 .. n : lenb[k] = Tag(msgs, m, 2 + k)
      BY <1>5 DEF FrameRead
    <3>2. \A k \in 1 .. n + 1 : k = n + 1 \/ k \in 1 .. n
      BY <1>1
    <3>3. msgs' = msgs /\ opener' = opener
      BY <1>0 DEF Takes
    <3> QED BY <1>2, <2>4, <3>1, <3>2, <3>3
  <2>6. Before(msgs', Tag(msgs', opener'.m, 2 + Len(lenb')), Line')
    BY <1>0, <1>2, <2>4 DEF Takes
  <2>7. at' = "body" => 2 + Len(lenb') = 4 + Len(body') /\ Len(body') = 0
    BY <1>0, <1>1
  <2>8. ~(Len(body') > Len(msgs'[opener'.m].bytes) - 4) \/ at' = "len"
    BY <1>0, <1>1, <2>1, <2>7 DEF Takes
  <2>9. at' = "body" => 1 .. Len(body') = {}
    BY <2>7
  <2>10. FrameRead'
    BY <1>0, <2>5, <2>6, <2>7, <2>8, <2>9 DEF FrameRead
  <2>11. KindOf(opener)' \in {"request", "cut"}
    BY <1>0, <1>5 DEF KindOf, Takes
  <2> QED BY <1>0, <1>4, <2>10, <2>11 DEF ReaderInv
<1>6. CASE StrayRead
  <2>1. /\ KindOf(opener) = "stray" /\ Len(msgs[m].bytes) = 2
    BY <1>6 DEF StrayRead
  <2>2. CASE n = 0
    <3>1. Follows(msgs, Tag(msgs, m, 2), b)
      BY <1>6, <2>2 DEF StrayRead, Takes, Before
    <3>2. /\ Genuine(msgs, Tag(msgs, m, 2))
          /\ IsLast(msgs, Tag(msgs, m, 2))
      <4>1. 2 \in 1 .. Len(msgs[m].bytes)
        BY <2>1
      <4>2. /\ Genuine(msgs, Tag(msgs, m, 2))
            /\ Tag(msgs, m, 2).m = m /\ Tag(msgs, m, 2).i = 2
        BY <1>0, <1>3, <4>1, TagGenuine
      <4> QED BY <2>1, <4>2 DEF IsLast
    <3>3. b.i = 1
      BY <1>0, <3>1, <3>2, NextMessage DEF Takes
    <3>4. lenb'[1] = b /\ Len(lenb') = 1
      BY <1>2, <2>2
    <3>5. StrayRead'
      BY <1>0, <2>1, <3>3, <3>4 DEF StrayRead, Takes, KindOf
    <3> QED BY <1>0, <1>4, <3>5 DEF ReaderInv
  <2>3. CASE n = 1
    <3>1. /\ Genuine(msgs, lenb[1]) /\ lenb[1].i = 1
          /\ Follows(msgs, lenb[1], b)
      BY <1>6, <2>3 DEF StrayRead, Takes, Before
    <3>2. Upper(b.v)
      BY <1>0, <3>1, AfterFirst DEF Takes
    <3>3. lenb'[2] = b /\ Len(lenb') = 2
      BY <1>2, <2>3
    <3>4. StrayRead'
      BY <1>0, <2>1, <3>2, <3>3 DEF StrayRead, Takes, KindOf
    <3> QED BY <1>0, <1>4, <3>4 DEF ReaderInv
  <2>4. n = 0 \/ n = 1
    <3>1. n \in Nat /\ n < 2
      BY <1>1
    <3> HIDE DEF n
    <3> QED BY <3>1
  <2> QED BY <2>2, <2>3, <2>4
<1> QED
  BY <1>0, <1>5, <1>6 DEF ReaderInv

(* A byte of the body: the reader is in a frame, since the length behind a *)
(* stray magic is absurd, and the byte is the frame's own or behind it.    *)
LEMMA BodyBytes ==
    ASSUME LineTypes, ReaderInv, at = "body", ~Implausible(LengthOf(lenb)),
           NEW b, Takes(b)
    PROVE  LET s   == Append(body, b)
               t   == msgs[opener.m].bytes
               own == Len(t) - 4
           IN  /\ KindOf(opener) \in {"request", "cut"} /\ opener.i = 1
               /\ Genuine(msgs, opener) /\ opener.v = AA
               /\ LengthOf(lenb) = t[3] + 256 * t[4]
               /\ \A k \in 1 .. Len(lenb) : lenb[k] = Tag(msgs, opener.m, 2 + k)
               /\ \A k \in 1 .. Len(s) :
                     k <= own => s[k] = Tag(msgs, opener.m, 4 + k)
               /\ Len(s) <= own =>
                     Before(msgs, Tag(msgs, opener.m, 4 + Len(s)), Line')
               /\ Len(s) > own =>
                     \/ \E k \in 1 .. Len(s) : s[k].v \notin Ascii
                     \/ /\ \A k \in Len(t) - 3 .. Len(s) :
                              Genuine(msgs, s[k]) /\ KindOf(s[k]) = "command"
                        /\ Before(msgs, s[Len(s)], Line')
<1> DEFINE s   == Append(body, b)
           n   == Len(body)
           m   == opener.m
           t   == msgs[m].bytes
           own == Len(t) - 4
<1>0. /\ FeedOK /\ ReaderOK /\ b \in Tagging /\ Len(lenb) = 2
      /\ lenb \in Seq(Tagging) /\ body \in Seq(Tagging) /\ n \in Nat
      /\ Genuine(msgs, opener) /\ opener.v = AA /\ opener.i = 1
  BY DEF LineTypes, ReaderOK, ReaderInv, Takes
<1>1. KindOf(opener) \in {"request", "cut"} /\ FrameRead
  <2>1. ASSUME StrayRead PROVE FALSE
    <3>1. Upper(lenb[2].v)
      BY <1>0, <2>1 DEF StrayRead
    <3>2. lenb[1] \in Tagging /\ lenb[2] \in Tagging
      <4>1. 1 \in 1 .. Len(lenb) /\ 2 \in 1 .. Len(lenb)
        BY <1>0
      <4>2. lenb \in Seq(Tagging)
        BY <1>0
      <4> QED BY <4>1, <4>2, ElementOfSeq
    <3>3. lenb[1].v \in Nat /\ lenb[2].v \in Nat /\ MaxReq \in Nat
      BY <3>2, LineAssumption DEF Tagging
    <3>4. LengthOf(lenb) > MaxReq
      BY <3>1, <3>3 DEF LengthOf, Upper
    <3> QED BY <3>4 DEF Implausible
  <2> QED BY <2>1 DEF ReaderInv
<1>2. /\ t \in Seq(Byte) /\ Len(t) \in Nat /\ Len(t) > 4
      /\ t[3] \in Nat /\ t[4] \in Nat
  BY <1>0, <1>1, FrameShape
<1>3. \A k \in 1 .. Len(lenb) : lenb[k] = Tag(msgs, m, 2 + k)
  BY <1>1 DEF FrameRead
<1>4. LengthOf(lenb) = t[3] + 256 * t[4]
  <2>1. 1 \in 1 .. Len(lenb) /\ 2 \in 1 .. Len(lenb)
    BY <1>0
  <2>2. lenb[1] = Tag(msgs, m, 3) /\ lenb[2] = Tag(msgs, m, 4)
    BY <1>3, <2>1
  <2> QED BY <2>2 DEF LengthOf, Tag
<1>5. /\ s \in Seq(Tagging) /\ Len(s) = n + 1 /\ s[n + 1] = b
      /\ \A k \in 1 .. n : s[k] = body[k]
  BY <1>0
<1>6. /\ \A k \in 1 .. n : k <= own => body[k] = Tag(msgs, m, 4 + k)
      /\ n <= own => Before(msgs, Tag(msgs, m, 4 + n), Line)
      /\ n > own => Filled
  BY <1>1 DEF FrameRead
<1>7. n + 1 <= own => b = Tag(msgs, m, 4 + (n + 1))
  <2> SUFFICES ASSUME n + 1 <= own PROVE b = Tag(msgs, m, 4 + (n + 1))
    OBVIOUS
  <2>1. 4 + n \in 1 .. Len(t) - 1 /\ (4 + n) + 1 = 4 + (n + 1) /\ n <= own
    BY <1>0, <1>2
  <2>2. Follows(msgs, Tag(msgs, m, 4 + n), b) /\ Genuine(msgs, b)
    BY <1>6, <2>1 DEF Takes, Before
  <2> QED BY <1>0, <2>1, <2>2, NextInMessage
<1>8. \A k \in 1 .. n + 1 : k = n + 1 \/ k \in 1 .. n
  BY <1>0
<1>9. \A k \in 1 .. Len(s) : k <= own => s[k] = Tag(msgs, m, 4 + k)
  BY <1>5, <1>6, <1>7, <1>8
<1>10. Len(s) <= own => Before(msgs, Tag(msgs, m, 4 + Len(s)), Line')
  BY <1>5, <1>7 DEF Takes
<1>11. ASSUME Len(s) > own
       PROVE  \/ \E k \in 1 .. Len(s) : s[k].v \notin Ascii
              \/ /\ \A k \in Len(t) - 3 .. Len(s) :
                       Genuine(msgs, s[k]) /\ KindOf(s[k]) = "command"
                 /\ Before(msgs, s[Len(s)], Line')
  <2>0. Genuine(msgs, b) /\ Before(msgs, b, Line')
    BY DEF Takes
  <2>1. n = own \/ n > own
    BY <1>0, <1>2, <1>5, <1>11
  <2>2. CASE b.v \notin Ascii
    <3>1. n + 1 \in 1 .. Len(s)
      BY <1>0, <1>5
    <3> QED BY <1>5, <2>2, <3>1
  <2>3. CASE b.v \in Ascii /\ b.i = 1
    <3>1. KindOf(b) = "command"
      BY <1>0, <2>0, <2>3, FirstByte
    <3>2. CASE n = own
      <4>1. \A k \in Len(t) - 3 .. Len(s) : k = n + 1
        BY <1>0, <1>2, <1>5, <3>2
      <4> QED BY <1>5, <2>0, <3>1, <4>1
    <3>3. CASE n > own /\ \E k \in 1 .. n : body[k].v \notin Ascii
      <4>1. PICK k \in 1 .. n : body[k].v \notin Ascii
        BY <3>3
      <4>2. k \in 1 .. Len(s) /\ s[k] = body[k]
        BY <1>0, <1>5
      <4> QED BY <4>1, <4>2
    <3>4. CASE /\ n > own
               /\ \A k \in Len(t) - 3 .. n :
                     Genuine(msgs, body[k]) /\ KindOf(body[k]) = "command"
      <4>1. \A k \in Len(t) - 3 .. Len(s) :
               k = n + 1 \/ (k \in Len(t) - 3 .. n /\ k \in 1 .. n)
        BY <1>0, <1>2, <1>5
      <4>2. \A k \in Len(t) - 3 .. Len(s) :
               Genuine(msgs, s[k]) /\ KindOf(s[k]) = "command"
        BY <1>5, <2>0, <3>1, <3>4, <4>1
      <4> QED BY <1>5, <2>0, <4>2
    <3> QED BY <1>6, <2>1, <3>2, <3>3, <3>4 DEF Filled
  <2>4. CASE b.i # 1
    <3>1. CASE n = own
      <4>1. Follows(msgs, Tag(msgs, m, 4 + n), b)
        BY <1>0, <1>2, <1>6, <3>1 DEF Takes, Before
      <4>2. 4 + n \in 1 .. Len(t) /\ 4 + n = Len(t)
        BY <1>0, <1>2, <3>1
      <4>3. /\ Genuine(msgs, Tag(msgs, m, 4 + n))
            /\ Tag(msgs, m, 4 + n).m = m /\ Tag(msgs, m, 4 + n).i = 4 + n
        BY <1>0, <4>2, TagGenuine
      <4>4. IsLast(msgs, Tag(msgs, m, 4 + n))
        BY <4>2, <4>3 DEF IsLast
      <4> QED BY <1>0, <2>0, <2>4, <4>1, <4>3, <4>4, NextMessage
    <3>2. CASE n > own /\ \E k \in 1 .. n : body[k].v \notin Ascii
      <4>1. PICK k \in 1 .. n : body[k].v \notin Ascii
        BY <3>2
      <4>2. k \in 1 .. Len(s) /\ s[k] = body[k]
        BY <1>0, <1>5
      <4> QED BY <4>1, <4>2
    <3>3. CASE /\ n > own
               /\ \A k \in Len(t) - 3 .. n :
                     Genuine(msgs, body[k]) /\ KindOf(body[k]) = "command"
               /\ Before(msgs, body[n], Line)
      <4>1. n \in Len(t) - 3 .. n
        BY <1>0, <1>2, <3>3
      <4>2. Genuine(msgs, body[n]) /\ KindOf(body[n]) = "command"
        BY <3>3, <4>1
      <4>3. Follows(msgs, body[n], b)
        BY <3>3 DEF Takes, Before
      <4>4. /\ WellFormed(msgs[body[n].m]) /\ body[n].i \in Nat
            /\ body[n].i >= 1
        BY <1>0, <4>2, GenuineShape
      <4>5. Len(msgs[body[n].m].bytes) = 1
        BY <4>2, <4>4 DEF WellFormed, KindOf
      <4>6. IsLast(msgs, body[n])
        BY <4>2, <4>4, <4>5 DEF IsLast, Genuine
      <4> QED BY <1>0, <2>0, <2>4, <4>2, <4>3, <4>6, NextMessage
    <3> QED BY <1>6, <2>1, <3>1, <3>2, <3>3 DEF Filled
  <2> QED BY <2>2, <2>3, <2>4
<1> QED
  BY <1>0, <1>1, <1>3, <1>4, <1>9, <1>10, <1>11

LEMMA BodyRead ==
    ASSUME LineTypes, ReaderInv, NEW b, Takes(b), ReadBody(b)
    PROVE  ReaderInv'
<1> DEFINE s == Append(body, b)
           t == msgs[opener.m].bytes
<1>0. at = "body" /\ ~Implausible(LengthOf(lenb)) /\ msgs' = msgs
  BY DEF ReadBody, Takes
<1>1. CASE Len(s) < LengthOf(lenb)
  <2>1. body' = s /\ UNCHANGED <<at, lenb, opener>>
    BY <1>1 DEF ReadBody
  <2>2. /\ KindOf(opener) \in {"request", "cut"} /\ opener.i = 1
        /\ Genuine(msgs, opener) /\ opener.v = AA
        /\ \A k \in 1 .. Len(lenb) : lenb[k] = Tag(msgs, opener.m, 2 + k)
        /\ \A k \in 1 .. Len(s) :
              k <= Len(t) - 4 => s[k] = Tag(msgs, opener.m, 4 + k)
        /\ Len(s) <= Len(t) - 4 =>
              Before(msgs, Tag(msgs, opener.m, 4 + Len(s)), Line')
        /\ Len(s) > Len(t) - 4 =>
              \/ \E k \in 1 .. Len(s) : s[k].v \notin Ascii
              \/ /\ \A k \in Len(t) - 3 .. Len(s) :
                       Genuine(msgs, s[k]) /\ KindOf(s[k]) = "command"
                 /\ Before(msgs, s[Len(s)], Line')
    BY ZenonT(40), <1>0, BodyBytes
  <2> HIDE DEF s
  <2>3. Len(body') > Len(t) - 4 => Filled'
    BY <1>0, <2>1, <2>2 DEF Filled, KindOf
  <2>4. FrameRead'
    BY <1>0, <2>1, <2>2, <2>3 DEF FrameRead
  <2>5. KindOf(opener)' \in {"request", "cut"}
    BY <1>0, <2>1, <2>2 DEF KindOf
  <2> QED BY <1>0, <2>1, <2>2, <2>4, <2>5 DEF ReaderInv
<1>2. CASE ~(Len(s) < LengthOf(lenb))
  <2>1. at' = "off"
    BY <1>2 DEF ReadBody, GiveUp, Return
  <2> QED BY <2>1 DEF ReaderInv
<1> QED
  BY <1>1, <1>2

(* The reader takes a byte, whatever it is in the middle of.               *)
LEMMA TakesByte ==
    ASSUME FeedOK, Chain(msgs, Line), uart # <<>>, uart' = Tail(uart),
           rest' = rest, msgs' = msgs
    PROVE  Takes(Head(uart))
<1>1. Line # <<>> /\ Line[1] = Head(uart) /\ Line' = Tail(Line)
  BY LineTake
<1>2. Genuine(msgs, Line[1]) /\ Before(msgs, Line[1], Tail(Line))
  BY <1>1, LineType, ChainTake
<1>3. Head(uart) \in Tagging
  BY HeadTagging DEF FeedOK
<1> QED
  BY <1>1, <1>2, <1>3 DEF Takes

LEMMA ReaderCall ==
    ASSUME NEW b, Genuine(msgs, b), b.v = AA, CallReader(b), msgs' = msgs,
           Before(msgs, b, Line')
    PROVE  ReaderInv'
BY DEF CallReader, ReaderInv

LEMMA ReaderInvNext ==
    ASSUME LineTypes, Chain(msgs, Line), ControlInv, StashInv, ReaderInv,
           [Next]_vars
    PROVE  ReaderInv'
<1>0. FeedOK
  BY DEF LineTypes
<1>1. ASSUME NEW m \in Messages, Send(m) PROVE ReaderInv'
  BY <1>1, ReaderSend
<1>2. ASSUME UNCHANGED <<at, lenb, body, opener>>, msgs' = msgs, Line' = Line
      PROVE  ReaderInv'
  BY <1>2 DEF ReaderInv, FrameRead, StrayRead, Filled, KindOf
<1>3. ASSUME at' = "off" PROVE ReaderInv'
  BY <1>3 DEF ReaderInv
<1>4. CASE Arrive
  BY <1>0, <1>2, <1>4, LineArrive DEF Arrive, readerVars
<1>5. CASE IdleByte
  <2>1. Takes(Head(uart))
    BY <1>0, <1>5, TakesByte DEF IdleByte, feedVars
  <2>2. \/ at' = "off"
        \/ Head(uart).v = AA /\ CallReader(Head(uart))
    BY <1>5 DEF IdleByte, readerVars
  <2> QED BY <1>3, <2>1, <2>2, ReaderCall DEF Takes
<1>6. CASE ReaderByte
  <2>1. Takes(Head(uart))
    BY <1>0, <1>6, TakesByte DEF ReaderByte, feedVars
  <2> QED BY <1>6, <2>1, MagicRead, LengthRead, BodyRead DEF ReaderByte
<1>7. CASE DropLength
  BY <1>3, <1>7 DEF DropLength, GiveUp, Return
<1>8. CASE Stall
  <2>1. at' = "off" \/ UNCHANGED <<at, lenb, body, opener>>
    BY <1>8 DEF Stall, GiveUp, Return
  <2>2. msgs' = msgs /\ Line' = Line
    BY <1>8 DEF Stall, feedVars, Line
  <2> QED BY <1>2, <1>3, <2>1, <2>2
<1>9. CASE ServeByte
  <2>1. CASE stash # None
    <3>1. /\ at' = "off" \/ (stash.v = AA /\ CallReader(stash))
          /\ uart' = uart /\ rest' = rest /\ msgs' = msgs
      BY <1>9, <2>1 DEF ServeByte, readerVars, feedVars
    <3>2. Line' = Line
      BY <3>1 DEF Line
    <3>3. Genuine(msgs, stash) /\ Before(msgs, stash, Line)
      BY <2>1 DEF StashInv
    <3> QED BY <1>3, <3>1, <3>2, <3>3, ReaderCall
  <2>2. CASE stash = None
    <3>1. /\ at' = "off" \/ (Head(uart).v = AA /\ CallReader(Head(uart)))
          /\ uart # <<>> /\ uart' = Tail(uart) /\ rest' = rest /\ msgs' = msgs
      BY <1>9, <2>2 DEF ServeByte, readerVars, feedVars
    <3>2. Takes(Head(uart))
      BY <1>0, <3>1, TakesByte
    <3> QED BY <1>3, <3>1, <3>2, ReaderCall DEF Takes
  <2> QED BY <2>1, <2>2
<1>10. CASE DrainByte \/ Preempt
  <2>1. at = "off" /\ at' = at
    BY <1>10 DEF DrainByte, Preempt, ControlInv, readerVars
  <2> QED BY <1>3, <2>1
<1>11. CASE Resume \/ TickDrain \/ DrainEnd \/ Leave \/ GetKey
  BY <1>2, <1>11 DEF Resume, TickDrain, DrainEnd, Leave, GetKey, readerVars,
     feedVars, Line
<1>12. CASE UNCHANGED vars
  BY <1>2, <1>12 DEF vars, Line
<1> QED
  BY <1>1, <1>4, <1>5, <1>6, <1>7, <1>8, <1>9, <1>10, <1>11, <1>12
     DEF Next, Kernel

LEMMA BodyNext ==
    ASSUME LineTypes, BodyInv, [Next]_vars
    PROVE  BodyInv'
<1>0. at # "body" => body = <<>>
  BY DEF LineTypes, ReaderOK
<1>1. ASSUME UNCHANGED <<at, lenb, body>> PROVE BodyInv'
  BY <1>1 DEF BodyInv
<1>2. ASSUME at' # "body" PROVE BodyInv'
  BY <1>2 DEF BodyInv
<1>3. CASE ReaderByte
  <2>1. CASE ReadMagic(Head(uart))
    BY <1>2, <2>1 DEF ReadMagic, GiveUp, Return
  <2>2. CASE ReadLength(Head(uart))
    BY <1>0, <2>2 DEF ReadLength, BodyInv
  <2>3. CASE ReadBody(Head(uart))
    BY <2>3 DEF ReadBody, GiveUp, Return, BodyInv
  <2> QED BY <1>3, <2>1, <2>2, <2>3 DEF ReaderByte
<1>4. CASE IdleByte \/ ServeByte
  BY <1>1, <1>2, <1>4 DEF IdleByte, ServeByte, CallReader, readerVars
<1>5. CASE DropLength \/ Stall
  BY <1>1, <1>2, <1>5 DEF DropLength, Stall, GiveUp, Return
<1>6. CASE Arrive \/ (\E m \in Messages : Send(m)) \/ Resume \/ TickDrain
  BY <1>1, <1>6 DEF Arrive, Send, Resume, TickDrain, readerVars
<1>7. CASE DrainByte \/ DrainEnd \/ Preempt \/ Leave \/ GetKey
  BY <1>1, <1>7 DEF DrainByte, DrainEnd, Preempt, Leave, GetKey, readerVars
<1>8. CASE UNCHANGED vars
  BY <1>1, <1>8 DEF vars
<1> QED
  BY <1>3, <1>4, <1>5, <1>6, <1>7, <1>8 DEF Next, Kernel

(* The inductive invariant of the stream.                                  *)
LEMMA StreamInit == Init => StreamInv
<1> SUFFICES ASSUME Init PROVE StreamInv
  OBVIOUS
<1>1. Line = <<>> /\ Len(Line) = 0 /\ Len(queued) = 0
  BY DEF Init, Line
<1>2. Chain(msgs, Line)
  BY <1>1 DEF Chain
<1>3. ControlInv
  BY DEF Init, ControlInv
<1>4. PrefixInv /\ BodyInv /\ ReaderInv
  BY <1>1 DEF Init, PrefixInv, BodyInv, ReaderInv
<1> QED
  BY <1>2, <1>3, <1>4 DEF StreamInv, StashInv, Init

LEMMA StreamNext == LineInv /\ StreamInv /\ [Next]_vars => StreamInv'
<1> SUFFICES ASSUME LineInv, StreamInv, [Next]_vars PROVE StreamInv'
  OBVIOUS
<1>1. /\ LineTypes /\ FeedOK /\ Chain(msgs, Line) /\ ControlInv /\ StashInv
      /\ PrefixInv /\ BodyInv /\ ReaderInv
  BY DEF LineInv, LineTypes, StreamInv
<1>2. Chain(msgs, Line)'
  BY <1>1, ChainNext
<1>3. ControlInv' /\ StashInv' /\ PrefixInv' /\ BodyInv' /\ ReaderInv'
  BY <1>1, ControlNext, StashNext, PrefixNext, BodyNext, ReaderInvNext
<1> QED
  BY <1>2, <1>3 DEF StreamInv

-----------------------------------------------------------------------------
(* What a step may say it did with a byte.                                 *)

LEMMA DispatchStep ==
    ASSUME LineTypes, Chain(msgs, Line), BodyInv, ReaderInv, Next,
           effect'.what = "dispatch"
    PROVE  DispatchIntact'
<1>0. FeedOK /\ ReaderOK
  BY DEF LineTypes
<1>1. ReaderByte
  BY DEF Next, Kernel, Send, Arrive, IdleByte, DropLength, Stall, GiveUp,
     GaveUp, ServeByte, Resume, TickDrain, DrainByte, DrainBare, DrainKill,
     DrainKey, DrainEnd, Preempt, Leave, GetKey, Nothing, Executed, Killed
<1> DEFINE b == Head(uart)
           s == Append(body, b)
           m == opener.m
           t == msgs[m].bytes
           own == Len(t) - 4
           mine == SubSeq(Tagged(m, msgs[m]), 5, Len(t))
<1>2. Takes(b) /\ msgs' = msgs
  BY <1>0, <1>1, TakesByte DEF ReaderByte, feedVars
<1>3. /\ at = "body" /\ ~Implausible(LengthOf(lenb))
      /\ ~(Len(s) < LengthOf(lenb)) /\ Acceptable(s) /\ effect' = Dispatched(s)
  BY <1>1 DEF ReaderByte, ReadMagic, ReadLength, ReadBody, GiveUp, GaveUp,
     Nothing, Dispatched
<1>4. /\ KindOf(opener) \in {"request", "cut"} /\ Genuine(msgs, opener)
      /\ LengthOf(lenb) = t[3] + 256 * t[4]
      /\ \A k \in 1 .. Len(s) : k <= own => s[k] = Tag(msgs, m, 4 + k)
      /\ Len(s) > own =>
            \/ \E k \in 1 .. Len(s) : s[k].v \notin Ascii
            \/ \A k \in Len(t) - 3 .. Len(s) :
                  Genuine(msgs, s[k]) /\ KindOf(s[k]) = "command"
  BY <1>2, <1>3, BodyBytes
<1>5. /\ t \in Seq(Byte) /\ Len(t) \in Nat /\ Len(t) > 4
      /\ LengthOf(lenb) \in Nat /\ LengthOf(lenb) >= own
      /\ KindOf(opener) = "request" => LengthOf(lenb) = own
  BY <1>0, <1>4, FrameShape
<1>6. s \in Seq(Tagging) /\ Len(s) = Len(body) + 1 /\ Len(body) \in Nat
  BY <1>0, <1>2 DEF ReaderOK, Takes
<1>7. Len(s) >= own /\ Len(s) >= 1
  BY <1>3, <1>5, <1>6
<1>8. s[1].m = m
  <2>1. 1 \in 1 .. Len(s) /\ 1 <= own
    BY <1>5, <1>6
  <2>2. s[1] = Tag(msgs, m, 4 + 1)
    BY <1>4, <2>1
  <2> QED BY <2>2 DEF Tag
<1>9. SubSeq(s, 1, own) = mine
  <2>0. /\ Tagged(m, msgs[m]) \in Seq(Tagging) /\ Len(Tagged(m, msgs[m])) = Len(t)
        /\ \A i \in 1 .. Len(t) : Tagged(m, msgs[m])[i] = Tag(msgs, m, i)
    <3>1. /\ msgs[m] \in Messages /\ m \in 1 .. Len(msgs)
      BY <1>0, <1>4, GenuineShape DEF Genuine
    <3>2. m \in 1 .. MaxMessages
      BY SMTT(30), <1>0, <3>1, LineAssumption DEF FeedOK
    <3> QED BY <3>1, <3>2, TaggedType, TaggedBytes DEF Tag
  <2> HIDE DEF s, t
  <2>1. /\ SubSeq(s, 1, own) \in Seq(Tagging) /\ Len(SubSeq(s, 1, own)) = own
        /\ \A k \in 1 .. own : SubSeq(s, 1, own)[k] = s[k]
    BY <1>5, <1>6, <1>7
  <2>2. /\ mine \in Seq(Tagging) /\ Len(mine) = own
        /\ \A k \in 1 .. own : mine[k] = Tagged(m, msgs[m])[4 + k]
    BY <1>5, <2>0
  <2>3. \A k \in 1 .. own : k \in 1 .. Len(s) /\ k <= own /\ 4 + k \in 1 .. Len(t)
    BY <1>5, <1>6, <1>7
  <2>4. \A k \in 1 .. own : SubSeq(s, 1, own)[k] = mine[k]
    BY <1>4, <2>0, <2>1, <2>2, <2>3
  <2> QED BY <2>1, <2>2, <2>4, SeqEqual
<1>10. Len(mine) = own
  <2>1. Len(Tagged(m, msgs[m])) = Len(t)
    BY <1>5 DEF Tagged
  <2> QED BY <1>5, <2>1
<1>11. KindOf(opener) = "request" => Len(s) = own
  <2>1. Len(body) < LengthOf(lenb)
    <3>1. CASE body = <<>>
      BY <1>3, <1>5, <3>1 DEF Implausible
    <3>2. CASE body # <<>>
      BY <1>3, <3>2 DEF BodyInv
    <3> QED BY <3>1, <3>2
  <2> HIDE DEF s, own
  <2> QED BY <1>5, <1>6, <1>7, <2>1, <1>3
<1>12. \A i \in own + 1 .. Len(s) : KindOf(s[i]) = "command"
  <2>1. ~ \E k \in 1 .. Len(s) : s[k].v \notin Ascii
    BY <1>3, <1>6 DEF Acceptable
  <2>2. \A i \in own + 1 .. Len(s) : i \in Len(t) - 3 .. Len(s) /\ Len(s) > own
    BY <1>5, <1>6
  <2> QED BY <1>4, <2>1, <2>2
<1>13. effect'.of = s
  BY <1>3 DEF Dispatched
<1> QED
  BY <1>2, <1>8, <1>9, <1>10, <1>11, <1>12, <1>13 DEF DispatchIntact, KindOf

(* The length a frame announces is plausible and, in a whole request, that *)
(* of its body.                                                            *)
LEMMA FrameLength ==
    ASSUME LineTypes, ReaderInv, at = "body", opener.m \in Nat,
           KindOf(opener) \in {"request", "cut"}
    PROVE  /\ LengthOf(lenb) \in Nat /\ ~Implausible(LengthOf(lenb))
           /\ KindOf(opener) = "request" =>
                 LengthOf(lenb) = Len(msgs[opener.m].bytes) - 4
<1> DEFINE m == opener.m
           t == msgs[m].bytes
<1>0. /\ FeedOK /\ Len(lenb) = 2 /\ Genuine(msgs, opener) /\ FrameRead
  BY DEF LineTypes, ReaderOK, ReaderInv, StrayRead
<1>1. 1 \in 1 .. Len(lenb) /\ 2 \in 1 .. Len(lenb)
  BY <1>0
<1>2. lenb[1] = Tag(msgs, m, 3) /\ lenb[2] = Tag(msgs, m, 4)
  BY <1>0, <1>1 DEF FrameRead
<1>3. LengthOf(lenb) = t[3] + 256 * t[4]
  BY <1>2 DEF LengthOf, Tag
<1>4. /\ t[3] + 256 * t[4] \in 1 .. MaxReq
      /\ KindOf(opener) = "request" => t[3] + 256 * t[4] = Len(t) - 4
  BY <1>0, FrameShape
<1>5. MaxReq \in Nat
  BY LineAssumption
<1> QED
  BY <1>3, <1>4, <1>5 DEF Implausible

(* While the reader is in a whole request, part of it is still to come.    *)
LEMMA RequestPending ==
    ASSUME LineTypes, BodyInv, ReaderInv, at # "off",
           KindOf(opener) = "request", opener.i = 1
    PROVE  Line # <<>>
<1> DEFINE m == opener.m
           t == msgs[m].bytes
<1>0. /\ FeedOK /\ ReaderOK /\ Genuine(msgs, opener)
      /\ at \in {"magic", "len", "body"}
  BY DEF LineTypes, ReaderOK, ReaderInv
<1>1. t \in Seq(Byte) /\ Len(t) \in Nat /\ Len(t) > 4 /\ m \in Nat
  BY <1>0, FrameShape, GenuineShape
<1>2. ASSUME NEW i \in 1 .. Len(t) - 1, Before(msgs, Tag(msgs, m, i), Line)
      PROVE  Line # <<>>
  <2>1. Tag(msgs, m, i).m = m /\ Tag(msgs, m, i).i = i
    BY DEF Tag
  <2>2. ~IsLast(msgs, Tag(msgs, m, i))
    BY <1>1, <2>1 DEF IsLast
  <2> QED BY <1>2, <2>2 DEF Before
<1>3. CASE at = "magic"
  <2>1. opener = Tag(msgs, m, 1) /\ Before(msgs, opener, Line)
    BY <1>0, <1>3 DEF ReaderInv, Genuine
  <2>2. 1 \in 1 .. Len(t) - 1
    BY <1>1
  <2> QED BY <1>2, <2>1, <2>2
<1>4. CASE at = "len"
  <2> DEFINE n == Len(lenb)
  <2>1. n \in Nat /\ n < 2 /\ Before(msgs, Tag(msgs, m, 2 + n), Line)
    BY <1>0, <1>4 DEF ReaderOK, ReaderInv, StrayRead, FrameRead
  <2> HIDE DEF n, t
  <2>2. 2 + n \in 1 .. Len(t) - 1
    BY <1>1, <2>1
  <2> QED BY <1>2, <2>1, <2>2
<1>5. CASE at = "body"
  <2> DEFINE n == Len(body)
  <2>1. LengthOf(lenb) = Len(t) - 4 /\ LengthOf(lenb) \in Nat
    BY <1>1, <1>5, FrameLength
  <2>2. n \in Nat /\ (body = <<>> \/ n < Len(t) - 4)
    BY <1>0, <1>5, <2>1 DEF ReaderOK, BodyInv
  <2>3. body = <<>> => n = 0
    OBVIOUS
  <2>4. n <= Len(t) - 4 => Before(msgs, Tag(msgs, m, 4 + n), Line)
    BY <1>0, <1>5 DEF ReaderInv, StrayRead, FrameRead
  <2> HIDE DEF n, t
  <2>5. n < Len(t) - 4
    BY <1>1, <2>2, <2>3
  <2>6. 4 + n \in 1 .. Len(t) - 1 /\ n <= Len(t) - 4
    BY <1>1, <2>2, <2>5
  <2> QED BY <1>2, <2>4, <2>6
<1> QED
  BY <1>0, <1>3, <1>4, <1>5

LEMMA GaveUpStep ==
    ASSUME LineTypes, Chain(msgs, Line), ControlInv, BodyInv, ReaderInv, Next,
           effect'.what = "gaveup"
    PROVE  RequestNotLost'
<1> DEFINE m == opener.m
           t == msgs[m].bytes
<1>0. FeedOK /\ ReaderOK
  BY DEF LineTypes
<1>1. /\ ReaderByte \/ DropLength \/ Stall
      /\ msgs' = msgs /\ rest' = rest /\ effect'.by = opener /\ at # "off"
  <2>1. ReaderByte \/ DropLength \/ Stall
    BY DEF Next, Kernel, Send, Arrive, IdleByte, ServeByte, Resume, TickDrain,
       DrainByte, DrainBare, DrainKill, DrainKey, DrainEnd, Preempt, Leave,
       GetKey, Nothing, Executed, Killed
  <2>2. msgs' = msgs /\ rest' = rest /\ at # "off"
    BY <2>1 DEF ReaderByte, DropLength, Stall, ReadMagic, ReadLength, ReadBody,
       feedVars
  <2>3. effect'.by = opener
    BY <2>1 DEF ReaderByte, DropLength, Stall, ReadMagic, ReadLength, ReadBody,
       GiveUp, GaveUp, Nothing, Dispatched
  <2> QED BY <2>1, <2>2, <2>3
<1> SUFFICES ASSUME KindOf(opener) = "request", opener.i = 1
             PROVE  gap' > MaxStallWaits /\ rest' # <<>>
  BY <1>1 DEF RequestNotLost, KindOf
<1>2. Genuine(msgs, opener) /\ opener.v = AA /\ opener.m \in Nat
  BY <1>0, <1>1, GenuineShape DEF ReaderInv
<1>3. t \in Seq(Byte) /\ Len(t) \in Nat /\ Len(t) > 4 /\ t[2] = NN
      /\ t[5] = Brace /\ \A i \in 5 .. Len(t) : t[i] \in Ascii
  BY <1>0, <1>2, FrameShape
<1>4. CASE DropLength
  <2>1. at = "body" /\ Implausible(LengthOf(lenb))
    BY <1>4 DEF DropLength
  <2> QED BY <1>2, <2>1, FrameLength
<1>5. CASE Stall
  <2>1. /\ uart = <<>> /\ waits + 1 > MaxStallWaits
        /\ gap' = IF gap > MaxStallWaits THEN gap ELSE gap + 1
    BY <1>5 DEF Stall, Waited, Nothing
  <2>2. waits <= gap /\ waits \in Nat /\ gap \in Nat /\ MaxStallWaits \in Nat
    BY <1>0, <2>1, LineAssumption DEF ControlInv, ReaderOK, FeedOK
  <2>3. gap' > MaxStallWaits
    BY <2>1, <2>2
  <2>4. Line = rest
    BY <1>0, <2>1, ConcatEmptySeq DEF Line, FeedOK
  <2>5. Line # <<>>
    BY <1>1, RequestPending
  <2> QED BY <1>1, <2>3, <2>4, <2>5
<1>6. CASE ReaderByte
  <2> DEFINE b == Head(uart)
  <2>1. Takes(b)
    BY <1>0, <1>6, TakesByte DEF ReaderByte, feedVars
  <2>2. CASE ReadMagic(b)
    <3>1. Before(msgs, opener, Line) /\ opener = Tag(msgs, m, 1)
      BY <1>2, <2>2 DEF ReadMagic, ReaderInv, Genuine
    <3>2. Follows(msgs, Tag(msgs, m, 1), b) /\ Genuine(msgs, b)
      BY <2>1, <3>1 DEF Takes, Before
    <3>3. 1 \in 1 .. Len(t) - 1
      BY <1>3
    <3>4. b = Tag(msgs, m, 1 + 1)
      BY <1>0, <1>2, <3>2, <3>3, NextInMessage
    <3>5. b.v = NN
      BY <1>3, <3>4 DEF Tag
    <3> QED BY <2>2, <3>5 DEF ReadMagic, Nothing
  <2>3. CASE ReadLength(b)
    BY <2>3 DEF ReadLength, Nothing
  <2>4. CASE ReadBody(b)
    <3> DEFINE s == Append(body, b)
               own == Len(t) - 4
    <3>1. /\ at = "body" /\ ~Implausible(LengthOf(lenb))
          /\ ~(Len(s) < LengthOf(lenb)) /\ ~Acceptable(s)
      BY <2>4 DEF ReadBody, Nothing, Dispatched
    <3>2. LengthOf(lenb) = own /\ LengthOf(lenb) \in Nat
      BY <1>2, <3>1, FrameLength
    <3>3. s \in Seq(Tagging) /\ Len(s) = Len(body) + 1 /\ Len(body) \in Nat
      BY <1>0, <2>1 DEF ReaderOK, Takes
    <3>4. Len(body) < LengthOf(lenb)
      <4>1. CASE body = <<>>
        <5>1. Len(body) = 0
          BY <4>1
        <5>2. LengthOf(lenb) # 0
          BY <3>1 DEF Implausible
        <5>3. LengthOf(lenb) \in Nat
          BY <3>2
        <5> QED BY <5>1, <5>2, <5>3
      <4>2. CASE body # <<>>
        BY <3>1, <4>2 DEF BodyInv
      <4> QED BY <4>1, <4>2
    <3>5. Len(s) = own
      <4> HIDE DEF s, own
      <4> QED BY <3>1, <3>2, <3>3, <3>4
    <3>6. \A k \in 1 .. Len(s) : k <= own => s[k] = Tag(msgs, m, 4 + k)
      BY <2>1, <3>1, BodyBytes
    <3>7. \A k \in 1 .. Len(s) : k <= own /\ 4 + k \in 5 .. Len(t)
      BY <1>3, <3>5
    <3>8. \A k \in 1 .. Len(s) : s[k].v = t[4 + k] /\ s[k].v \in Ascii
      <4> SUFFICES ASSUME NEW k \in 1 .. Len(s)
                   PROVE  s[k].v = t[4 + k] /\ s[k].v \in Ascii
        OBVIOUS
      <4>1. s[k] = Tag(msgs, m, 4 + k) /\ t[4 + k] \in Ascii
        BY <1>3, <3>6, <3>7
      <4>2. Tag(msgs, m, 4 + k).v = t[4 + k]
        BY DEF Tag
      <4> QED BY <4>1, <4>2
    <3>9. 1 \in 1 .. Len(s) /\ 4 + 1 = 5
      BY <1>3, <3>5
    <3>10. s[1].v = Brace
      BY <1>3, <3>8, <3>9
    <3>11. Acceptable(s)
      BY <3>3, <3>8, <3>10 DEF Acceptable
    <3> QED BY <3>1, <3>11
  <2> QED BY <1>6, <2>2, <2>3, <2>4 DEF ReaderByte
<1> QED
  BY <1>1, <1>4, <1>5, <1>6

(* An operator kill: what looks like one in a frame's length would make    *)
(* the frame longer than the kernel accepts.                               *)
LEMMA KillStep ==
    ASSUME LineTypes, Chain(msgs, Line), PrefixInv, Next, effect'.what = "kill"
    PROVE  Partner(effect.by)'
<1> DEFINE b == Head(uart)
<1>0. FeedOK
  BY DEF LineTypes
<1>1. DrainByte
  BY DEF Next, Kernel, Send, Arrive, IdleByte, ReaderByte, ReadMagic,
     ReadLength, ReadBody, DropLength, Stall, GiveUp, GaveUp, ServeByte, Resume,
     TickDrain, DrainEnd, Preempt, Leave, GetKey, Nothing, Executed, Dispatched
<1>2. /\ pending /\ alive /\ b.v = OpKill /\ effect' = Killed(b)
      /\ uart # <<>> /\ uart' = Tail(uart) /\ rest' = rest /\ msgs' = msgs
  BY <1>1 DEF DrainByte, DrainBare, DrainKill, DrainKey, Nothing, feedVars
<1>3. Takes(b)
  BY <1>0, <1>2, TakesByte
<1>4. Genuine(msgs, b) /\ Candidate(msgs, b)
  BY <1>2, <1>3 DEF Takes, PrefixInv
<1>5. ~(KindOf(b) \in {"request", "cut"} /\ b.i = 4
        /\ msgs[b.m].bytes[3] = Prefix)
  <2> SUFFICES ASSUME KindOf(b) \in {"request", "cut"}, b.i = 4,
                      msgs[b.m].bytes[3] = Prefix
               PROVE  FALSE
    OBVIOUS
  <2>1. msgs[b.m].bytes[4] = OpKill
    BY <1>0, <1>2, <1>4, GenuineShape
  <2>2. Prefix + 256 * OpKill \in 1 .. MaxReq
    BY <1>0, <1>4, <2>1, FrameShape
  <2>3. Prefix \in Nat /\ OpKill \in Nat /\ MaxReq \in Nat
    BY LineAssumption
  <2>4. MaxReq < 256 * OpKill + Prefix
    BY MessageAssumption
  <2> QED BY <2>2, <2>3, <2>4
<1>6. KindOf(b) = "key" /\ b.i % 2 = 0
  BY <1>4, <1>5 DEF Candidate, KindOf
<1>7. effect'.by = b
  BY <1>2 DEF Killed
<1> QED
  BY <1>2, <1>6, <1>7 DEF Partner, KindOf

LEMMA QueueGenuine ==
    ASSUME LineTypes, PrefixInv
    PROVE  \A k \in DOMAIN queued :
              LET b == queued[k]
              IN  \/ Partner(b)
                  \/ KindOf(b) \in {"request", "cut"} /\ b.i = 4
                     /\ msgs[b.m].bytes[3] = Prefix
<1>1. DOMAIN queued = 1 .. Len(queued)
  BY DEF LineTypes, KeyOK
<1>2. \A k \in 1 .. Len(queued) : Candidate(msgs, queued[k])
  BY DEF PrefixInv
<1> QED
  BY <1>1, <1>2 DEF Candidate, Partner, KindOf

-----------------------------------------------------------------------------
LineSafe == LineInv /\ StreamInv /\ DispatchIntact /\ RequestNotLost /\ KeysGenuine

LEMMA SafeInit == Init => LineSafe
<1> SUFFICES ASSUME Init PROVE LineSafe
  OBVIOUS
<1>1. LineInv /\ StreamInv
  BY LineInit, StreamInit
<1>2. effect.what = "nothing" /\ DOMAIN queued = {}
  BY DEF Init, Nothing
<1>3. DispatchIntact /\ RequestNotLost /\ KeysGenuine
  BY <1>2 DEF DispatchIntact, RequestNotLost, KeysGenuine
<1> QED
  BY <1>1, <1>3 DEF LineSafe

LEMMA SafeNext == LineSafe /\ [Next]_vars => LineSafe'
<1> SUFFICES ASSUME LineSafe, [Next]_vars PROVE LineSafe'
  OBVIOUS
<1>1. LineInv' /\ StreamInv'
  BY LineNext, StreamNext DEF LineSafe
<1>2. CASE Next
  <2>1. /\ LineTypes /\ Chain(msgs, Line) /\ ControlInv /\ PrefixInv
        /\ BodyInv /\ ReaderInv
    BY DEF LineSafe, LineInv, StreamInv
  <2>2. DispatchIntact'
    BY <1>2, <2>1, DispatchStep DEF DispatchIntact
  <2>3. RequestNotLost'
    BY <1>2, <2>1, GaveUpStep DEF RequestNotLost
  <2>4. LineTypes' /\ PrefixInv'
    BY <1>1 DEF LineInv, StreamInv
  <2>5. KeysGenuine'
    <3>1. effect'.what = "kill" => Partner(effect.by)'
      BY <1>2, <2>1, KillStep
    <3>3. (LineTypes /\ PrefixInv)' =>
             (\A k \in DOMAIN queued :
                LET b == queued[k]
                IN  \/ Partner(b)
                    \/ KindOf(b) \in {"request", "cut"} /\ b.i = 4
                       /\ msgs[b.m].bytes[3] = Prefix)'
      BY QueueGenuine, PTL
    <3> QED BY <2>4, <3>1, <3>3 DEF KeysGenuine
  <2> QED BY <1>1, <2>2, <2>3, <2>5 DEF LineSafe
<1>3. CASE UNCHANGED vars
  BY <1>1, <1>3 DEF LineSafe, DispatchIntact, RequestNotLost, KeysGenuine,
     Partner, KindOf, vars
<1> QED
  BY <1>2, <1>3

(* What read_request hands to dispatch is one request whole and in order,  *)
(* or a cut one filled up by command bytes: for every set of well-formed   *)
(* messages, every MAX_REQ and every interleaving of the idle loop, the    *)
(* service window, the stash and the ticks.                                *)
THEOREM RequestsIntact == Spec => []DispatchIntact
<1>1. LineSafe => DispatchIntact
  BY DEF LineSafe
<1> QED
  BY <1>1, SafeInit, SafeNext, PTL DEF Spec

(* read_request gives a well-formed request up only after more than        *)
(* MAX_STALL_WAITS waits in a row without a byte, while part of it was     *)
(* still to come.                                                          *)
THEOREM PatientReader == Spec => []RequestNotLost
<1>1. LineSafe => RequestNotLost
  BY DEF LineSafe
<1> QED
  BY <1>1, SafeInit, SafeNext, PTL DEF Spec

(* drain_keys queues only the partners of pairs, or the upper length byte  *)
(* of a frame sent to the payload that owns the line, and kills only for   *)
(* a pair the operator sent.                                               *)
THEOREM KeysFromPairs == Spec => []KeysGenuine
<1>1. LineSafe => KeysGenuine
  BY DEF LineSafe
<1> QED
  BY <1>1, SafeInit, SafeNext, PTL DEF Spec

=============================================================================
