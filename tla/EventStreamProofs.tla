------------------------- MODULE EventStreamProofs -------------------------
(***************************************************************************)
(* The outbound stream for every capacity of a frame, every set of pieces  *)
(* and every way the host cuts the stream into chunks: types, the order of *)
(* the ids, whole payloads, and the decoder that never loses its place.    *)
(***************************************************************************)
EXTENDS EventStream, SequenceTheorems, WellFoundedInduction, TLAPS

-----------------------------------------------------------------------------
(* The frame format.                                                       *)

LEMMA DivMod ==
    ASSUME NEW C \in Nat, C > 0, NEW n \in Nat
    PROVE  /\ n \div C \in Nat /\ n % C \in 0 .. C - 1
           /\ n = C * (n \div C) + (n % C)
           /\ n < C * C => n \div C \in 0 .. C - 1
<1> DEFINE d == n \div C
           e == n % C
<1>1. d \in Int /\ e \in 0 .. C - 1 /\ n = C * d + e
  OBVIOUS
<1> HIDE DEF d, e
<1>2. d >= 0
  <2> SUFFICES ASSUME d <= -1 PROVE FALSE
    BY <1>1
  <2>1. C * d <= -C
    BY <1>1
  <2> QED BY <1>1, <2>1
<1>3. n < C * C => d <= C - 1
  <2> SUFFICES ASSUME n < C * C, d >= C PROVE FALSE
    BY <1>1
  <2>1. C * d >= C * C
    BY <1>1
  <2> QED BY <1>1, <2>1
<1> QED
  BY <1>1, <1>2, <1>3 DEF d, e

LEMMA Constants ==
    /\ Base \in Nat /\ Base >= 2 /\ MaxEvents \in Nat /\ MaxEvents >= 1
    /\ MaxEvents <= Base
    /\ M1 \in Byte /\ M2 \in Byte /\ M1 # M2
    /\ Capacity \in Nat /\ Capacity >= 1 /\ MaxFrameLen \in Nat
    /\ Capacity <= MaxFrameLen /\ MaxFrameLen < Base * Base
    /\ Pieces \subseteq Seq(Byte) /\ Banners \subseteq Seq(Byte)
    /\ Fallback \in Seq(Byte) /\ 1 + Len(Fallback) <= Capacity
    /\ Line \in Seq(Byte)
<1>1. /\ Base \in Nat /\ MaxEvents \in 1 .. Base
      /\ M1 \in Byte /\ M2 \in Byte /\ M1 # M2
      /\ Capacity \in Nat /\ MaxFrameLen \in Nat
      /\ Capacity <= MaxFrameLen /\ MaxFrameLen < Base * Base
      /\ Pieces \subseteq Seq(Byte) /\ Banners \subseteq Seq(Byte)
      /\ Fallback \in Seq(Byte) /\ 1 + Len(Fallback) <= Capacity
      /\ Line \in Seq(Byte \ {M1, M2})
  BY StreamAssumption
<1>2. Line \in Seq(Byte)
  BY <1>1, SeqMonotonic
<1>3. Base >= 2
  BY <1>1 DEF Byte
<1>4. Len(Fallback) \in Nat
  BY <1>1
<1> QED
  BY <1>1, <1>2, <1>3, <1>4

(* A payload that fits is framed by the magic and its exact length.        *)
LEMMA EncodeShape ==
    ASSUME NEW p \in Seq(Byte), Len(p) <= Capacity
    PROVE  LET e == Encode(p)
           IN  /\ e \in Seq(Byte) /\ Len(p) \in Nat /\ Len(e) = 4 + Len(p)
               /\ e[1] = M1 /\ e[2] = M2
               /\ e[3] \in Byte /\ e[4] \in Byte
               /\ LengthOf(e) = Len(p)
               /\ \A k \in 1 .. Len(p) : e[4 + k] = p[k]
<1> DEFINE n == Len(p)
           e == Encode(p)
<1>1. /\ n \in Nat /\ n < Base * Base /\ Base \in Nat /\ Base > 0
      /\ M1 \in Byte /\ M2 \in Byte
  BY Constants
<1>2. /\ n % Base \in Byte /\ n \div Base \in Byte
      /\ n = (n % Base) + Base * (n \div Base)
  <2> HIDE DEF n
  <2> QED BY <1>1, DivMod DEF Byte
<1> DEFINE h == <<M1, M2>> \o LengthField(n)
<1>3. /\ h \in Seq(Byte) /\ Len(h) = 4 /\ h[1] = M1 /\ h[2] = M2
      /\ h[3] = n % Base /\ h[4] = n \div Base
  <2>1. /\ <<M1, M2>> \in Seq(Byte) /\ <<n % Base, n \div Base>> \in Seq(Byte)
    BY <1>1, <1>2
  <2> HIDE DEF n
  <2> QED BY <2>1 DEF LengthField
<1>4. e = h \o p
  BY DEF Encode
<1> HIDE DEF h, e
<1>5. /\ e \in Seq(Byte) /\ Len(e) = 4 + n
      /\ \A i \in 1 .. 4 + n : e[i] = IF i <= 4 THEN h[i] ELSE p[i - 4]
  <2>1. h \in Seq(Byte) /\ Len(h) = 4 /\ p \in Seq(Byte)
    BY <1>3
  <2>2. /\ h \o p \in Seq(Byte) /\ Len(h \o p) = Len(h) + Len(p)
        /\ \A i \in 1 .. Len(h) + Len(p) :
              (h \o p)[i] = IF i <= Len(h) THEN h[i] ELSE p[i - Len(h)]
    BY <2>1, ConcatProperties
  <2> QED BY <1>4, <2>1, <2>2
<1>6. e[1] = M1 /\ e[2] = M2 /\ e[3] = n % Base /\ e[4] = n \div Base
  BY <1>1, <1>3, <1>5
<1>7. LengthOf(e) = n
  BY <1>2, <1>6 DEF LengthOf
<1>8. \A k \in 1 .. n : e[4 + k] = p[k]
  BY <1>1, <1>5
<1> QED
  BY <1>1, <1>2, <1>5, <1>6, <1>7, <1>8 DEF e

-----------------------------------------------------------------------------
(* The kernel's side.                                                      *)

Event == [kind : Kinds, id : 0 .. MaxEvents - 1, buf : Seq(Byte),
          overflow : BOOLEAN, prev : BOOLEAN]
SentFrame == [kind : Kinds, id : 0 .. MaxEvents - 1, payload : Seq(Byte),
              all : Seq(Byte)]

KernelOK ==
    /\ nextId \in 1 .. MaxEvents
    /\ masked \in BOOLEAN /\ trap \in BOOLEAN
    /\ trapId \in -1 .. MaxEvents - 1
    /\ pc \in {"free", "build", "put"}
    /\ ev \in Event /\ Len(ev.buf) <= Capacity
    /\ asked \in Seq(Byte) /\ out \in Seq(Byte) /\ wire \in Seq(Byte)
    /\ emitted \in Seq(SentFrame) /\ rawSent \in Seq(Byte)

HostOK ==
    /\ host \in {"wait", "scan"}
    /\ buf \in Seq(Byte) /\ noise \in Seq(Byte) /\ frames \in Seq(Seq(Byte))

(* An emission runs with SIE clear from its first byte to its last, and so *)
(* does a trap handler, which sets SIE only when it returns.  The id of a  *)
(* trap is still the newest when its report begins.                        *)
MaskInv ==
    /\ pc # "free" => masked /\ ev.id < nextId
    /\ trap => masked /\ (pc # "free" => ~ev.prev)
    /\ trapId # -1 => trap /\ pc = "free" /\ trapId = nextId - 1
    /\ pc \in {"free", "build"} => out = <<>>

(* The ids on the frames, against the one being built and the trap's.      *)
IdInv ==
    /\ \A i \in 1 .. Len(emitted) :
        /\ emitted[i].id < nextId
        /\ pc = "build" => emitted[i].id < ev.id
        /\ trapId # -1 => emitted[i].id < trapId
    /\ IdsInOrder

(* The buffer is all that was written, unless it overflowed.               *)
WholeInv ==
    /\ pc = "build" /\ ~ev.overflow => ev.buf = asked
    /\ NoTruncation
    /\ \A i \in 1 .. Len(emitted) : Len(emitted[i].payload) <= Capacity

KernelInv == KernelOK /\ MaskInv /\ IdInv /\ WholeInv

LEMMA OneByte ==
    ASSUME NEW id \in 0 .. MaxEvents - 1
    PROVE  <<id>> \in Seq(Byte) /\ Len(<<id>>) = 1 /\ Len(<<id>>) <= Capacity
<1>1. id \in Byte /\ Capacity >= 1 /\ Capacity \in Nat
  BY Constants DEF Byte
<1> QED
  BY <1>1

LEMMA KernelInit == Init => KernelInv
<1> SUFFICES ASSUME Init PROVE KernelInv
  OBVIOUS
<1>0. /\ 0 \in 0 .. MaxEvents - 1 /\ <<0>> \in Seq(Byte) /\ Len(<<0>>) = 1
      /\ Len(<<0>>) <= Capacity /\ Capacity \in Nat
  BY Constants, OneByte
<1>1. Encode(<<0>>) \in Seq(Byte) /\ rawSent \in Seq(Byte)
  BY <1>0, EncodeShape, Constants DEF Init
<1>2. Emitted("event", 0, <<0>>, <<0>>) \in SentFrame
  BY <1>0 DEF Emitted, SentFrame, Kinds
<1>3. /\ emitted \in Seq(SentFrame) /\ Len(emitted) = 1
      /\ emitted[1] = Emitted("event", 0, <<0>>, <<0>>)
  BY <1>2 DEF Init
<1>4. ev \in Event /\ ev.buf = <<>> /\ Len(ev.buf) <= Capacity
  <2>1. <<>> \in Seq(Byte) /\ Len(<<>>) = 0
    OBVIOUS
  <2> QED BY <1>0, <2>1 DEF Init, NoEvent, Event, Kinds
<1>5. wire \in Seq(Byte)
  BY <1>1 DEF Init
<1>6. KernelOK
  <2>1. asked \in Seq(Byte) /\ out \in Seq(Byte)
    BY DEF Init
  <2>2. nextId \in 1 .. MaxEvents /\ trapId \in -1 .. MaxEvents - 1
    BY Constants DEF Init
  <2>3. masked \in BOOLEAN /\ trap \in BOOLEAN /\ pc \in {"free", "build", "put"}
    BY DEF Init
  <2> QED BY <1>1, <1>3, <1>4, <1>5, <2>1, <2>2, <2>3 DEF KernelOK
<1>7. MaskInv
  BY DEF Init, MaskInv
<1>8. \A i \in 1 .. Len(emitted) : i = 1
  BY <1>3
<1>9. IdInv
  BY <1>3, <1>8 DEF Init, IdInv, IdsInOrder, Emitted
<1>10. WholeInv
  <2>1. emitted[1].payload = <<0>> /\ emitted[1].all = <<0>>
    BY <1>3 DEF Emitted
  <2>2. pc # "build"
    BY DEF Init
  <2> QED BY <1>0, <1>8, <2>1, <2>2 DEF WholeInv, NoTruncation
<1> QED
  BY <1>6, <1>7, <1>9, <1>10 DEF KernelInv

LEMMA FrameType ==
    ASSUME KernelOK, NEW i \in 1 .. Len(emitted)
    PROVE  /\ emitted[i] \in SentFrame /\ emitted[i].id \in 0 .. MaxEvents - 1
           /\ emitted[i].payload \in Seq(Byte)
<1>1. emitted[i] \in SentFrame
  BY ElementOfSeq DEF KernelOK
<1> QED
  BY <1>1 DEF SentFrame

(* A frame is added to those emitted.                                      *)
LEMMA AddFrame ==
    ASSUME KernelOK, NEW e \in SentFrame, emitted' = Append(emitted, e)
    PROVE  /\ emitted' \in Seq(SentFrame) /\ Len(emitted') = Len(emitted) + 1
           /\ Len(emitted) \in Nat /\ emitted'[Len(emitted) + 1] = e
           /\ \A i \in 1 .. Len(emitted) : emitted'[i] = emitted[i]
           /\ \A i \in 1 .. Len(emitted') :
                 i = Len(emitted) + 1 \/ i \in 1 .. Len(emitted)
<1>1. emitted \in Seq(SentFrame)
  BY DEF KernelOK
<1> QED
  BY <1>1

LEMMA FrameInOrder ==
    ASSUME KernelOK, IdInv, NEW e \in SentFrame, emitted' = Append(emitted, e),
           \A i \in 1 .. Len(emitted) : emitted[i].id < e.id
    PROVE  IdsInOrder'
<1>1. /\ Len(emitted') = Len(emitted) + 1 /\ Len(emitted) \in Nat
      /\ emitted'[Len(emitted) + 1] = e
      /\ \A i \in 1 .. Len(emitted) : emitted'[i] = emitted[i]
      /\ \A i \in 1 .. Len(emitted') :
            i = Len(emitted) + 1 \/ i \in 1 .. Len(emitted)
  BY AddFrame
<1>2. \A i, j \in 1 .. Len(emitted) : i < j => emitted[i].id < emitted[j].id
  BY DEF IdInv, IdsInOrder
<1> SUFFICES ASSUME NEW i \in 1 .. Len(emitted'), NEW j \in 1 .. Len(emitted'),
                    i < j
             PROVE  emitted'[i].id < emitted'[j].id
  BY DEF IdsInOrder
<1>3. i \in 1 .. Len(emitted)
  BY <1>1
<1>4. CASE j = Len(emitted) + 1
  BY <1>1, <1>3, <1>4
<1>5. CASE j \in 1 .. Len(emitted)
  BY <1>1, <1>2, <1>3, <1>5
<1> QED
  BY <1>1, <1>4, <1>5

LEMMA FrameWhole ==
    ASSUME KernelOK, WholeInv, NEW e \in SentFrame,
           emitted' = Append(emitted, e), Len(e.payload) <= Capacity,
           \/ e.payload = e.all
           \/ e.kind \in Backed /\ e.payload = <<e.id>> \o Fallback
    PROVE  /\ NoTruncation'
           /\ \A i \in 1 .. Len(emitted') : Len(emitted'[i].payload) <= Capacity
<1>1. /\ emitted'[Len(emitted) + 1] = e
      /\ \A i \in 1 .. Len(emitted) : emitted'[i] = emitted[i]
      /\ \A i \in 1 .. Len(emitted') :
            i = Len(emitted) + 1 \/ i \in 1 .. Len(emitted)
  BY AddFrame
<1> QED
  BY <1>1 DEF WholeInv, NoTruncation

(* What emit sends is typed and fits a frame.                              *)
LEMMA SentFits ==
    ASSUME KernelOK, NEW p \in Sent
    PROVE  /\ p \in Seq(Byte) /\ Len(p) <= Capacity
           /\ \/ ~ev.overflow /\ p = ev.buf
              \/ ev.kind \in Backed /\ p = <<ev.id>> \o Fallback
<1>1. /\ ev.buf \in Seq(Byte) /\ Len(ev.buf) <= Capacity
      /\ ev.id \in 0 .. MaxEvents - 1
  BY DEF KernelOK, Event
<1>2. /\ <<ev.id>> \in Seq(Byte) /\ Len(<<ev.id>>) = 1
  BY <1>1, OneByte
<1>3. /\ Fallback \in Seq(Byte) /\ 1 + Len(Fallback) <= Capacity
  BY Constants
<1>4. /\ <<ev.id>> \o Fallback \in Seq(Byte)
      /\ Len(<<ev.id>> \o Fallback) <= Capacity
  BY <1>2, <1>3, ConcatProperties
<1> QED
  BY <1>1, <1>4 DEF Sent

LEMMA TickStep ==
    ASSUME KernelInv, NEW a \in BOOLEAN, Tick(a)
    PROVE  KernelInv'
<1>0. /\ KernelOK /\ MaskInv /\ IdInv /\ WholeInv
      /\ UNCHANGED <<masked, trap, trapId, pc, ev, asked, out, rawSent>>
      /\ ~masked /\ nextId < MaxEvents /\ nextId' = nextId + 1
  BY DEF Tick, KernelInv
<1>1. pc = "free" /\ ~trap /\ trapId = -1 /\ out = <<>>
  BY <1>0 DEF MaskInv
<1>2. /\ nextId \in 1 .. MaxEvents /\ nextId' \in 1 .. MaxEvents
      /\ nextId \in 0 .. MaxEvents - 1 /\ MaxEvents \in Nat
  BY <1>0, Constants DEF KernelOK
<1>3. MaskInv'
  BY <1>0, <1>1 DEF MaskInv
<1>4. CASE a
  <2>1. UNCHANGED <<wire, emitted>>
    BY <1>4 DEF Tick
  <2>2. KernelOK'
    BY <1>0, <1>2, <2>1 DEF KernelOK
  <2>3. IdInv'
    <3>1. \A i \in 1 .. Len(emitted) : emitted[i].id < nextId + 1
      BY <1>0, <1>2, FrameType DEF IdInv
    <3> QED BY <1>0, <1>1, <2>1, <3>1 DEF IdInv, IdsInOrder
  <2>4. WholeInv'
    BY <1>0, <2>1 DEF WholeInv, NoTruncation
  <2> QED BY <1>3, <2>2, <2>3, <2>4 DEF KernelInv
<1>5. CASE ~a
  <2> DEFINE e == Emitted("event", nextId, <<nextId>>, <<nextId>>)
  <2>1. wire' = wire \o Encode(<<nextId>>) /\ emitted' = Append(emitted, e)
    BY <1>5 DEF Tick
  <2>2. <<nextId>> \in Seq(Byte) /\ Len(<<nextId>>) <= Capacity
    BY <1>2, OneByte
  <2>3. e \in SentFrame /\ e.id = nextId /\ e.payload = e.all
        /\ e.payload = <<nextId>>
    BY <1>2, <2>2 DEF Emitted, SentFrame, Kinds
  <2> HIDE DEF e
  <2>4. wire' \in Seq(Byte)
    <3>1. wire \in Seq(Byte) /\ Encode(<<nextId>>) \in Seq(Byte)
      BY <1>0, <2>2, EncodeShape DEF KernelOK
    <3> QED BY <2>1, <3>1, ConcatProperties
  <2>5. /\ emitted' \in Seq(SentFrame) /\ emitted'[Len(emitted) + 1] = e
        /\ \A i \in 1 .. Len(emitted) : emitted'[i] = emitted[i]
        /\ \A i \in 1 .. Len(emitted') :
              i = Len(emitted) + 1 \/ i \in 1 .. Len(emitted)
    BY <1>0, <2>1, <2>3, AddFrame
  <2>6. KernelOK'
    BY <1>0, <1>2, <2>4, <2>5 DEF KernelOK
  <2>7. \A i \in 1 .. Len(emitted) : emitted[i].id < nextId
                                      /\ emitted[i].id \in 0 .. MaxEvents - 1
    BY <1>0, FrameType DEF IdInv
  <2>8. IdsInOrder'
    BY <1>0, <2>1, <2>3, <2>7, FrameInOrder
  <2>9. \A i \in 1 .. Len(emitted') : emitted'[i].id < nextId'
    BY <1>0, <1>2, <2>3, <2>5, <2>7
  <2>10. IdInv'
    BY <1>0, <1>1, <2>8, <2>9 DEF IdInv
  <2>11. WholeInv'
    BY <1>0, <1>1, <2>1, <2>2, <2>3, FrameWhole DEF WholeInv
  <2> QED BY <1>3, <2>6, <2>10, <2>11 DEF KernelInv
<1> QED
  BY <1>4, <1>5

(* An emission or a trap begins.                                           *)
LEMMA BeginStep ==
    ASSUME KernelInv,
           \/ Enter \/ BeginFault \/ ClassicLine
           \/ \E k \in Kinds : BeginEvent(k)
    PROVE  KernelInv'
<1>0. /\ KernelOK /\ MaskInv /\ IdInv /\ WholeInv /\ pc = "free" /\ out = <<>>
      /\ nextId \in 1 .. MaxEvents /\ MaxEvents \in Nat
      /\ UNCHANGED <<wire, emitted>>
  BY Constants DEF KernelInv, KernelOK, MaskInv, Enter, BeginFault, ClassicLine,
     BeginEvent
<1>1. \A i \in 1 .. Len(emitted) : emitted[i].id < nextId
                                    /\ emitted[i].id \in 0 .. MaxEvents - 1
  BY <1>0, FrameType DEF IdInv
<1>2. NoTruncation' /\ IdsInOrder'
      /\ \A i \in 1 .. Len(emitted') : Len(emitted'[i].payload) <= Capacity
  BY <1>0 DEF WholeInv, NoTruncation, IdInv, IdsInOrder
<1>3. CASE Enter
  <2>1. /\ nextId < MaxEvents /\ nextId' = nextId + 1 /\ masked' = TRUE
        /\ trap' = TRUE /\ trapId' = nextId
        /\ UNCHANGED <<pc, ev, asked, out, rawSent>>
    BY <1>3 DEF Enter
  <2>2. KernelOK'
    BY <1>0, <2>1 DEF KernelOK
  <2>3. MaskInv'
    BY <1>0, <2>1 DEF MaskInv
  <2>4. \A i \in 1 .. Len(emitted) : emitted[i].id < nextId + 1
    BY <1>0, <1>1
  <2>5. IdInv'
    BY <1>0, <1>1, <1>2, <2>1, <2>4 DEF IdInv
  <2>6. WholeInv'
    BY <1>0, <1>2, <2>1 DEF WholeInv
  <2> QED BY <2>2, <2>3, <2>5, <2>6 DEF KernelInv
<1>4. ASSUME NEW k \in Kinds, BeginEvent(k) PROVE KernelInv'
  <2>1. /\ nextId < MaxEvents /\ nextId' = nextId + 1 /\ Build(k, nextId)
        /\ trapId' = -1 /\ UNCHANGED <<trap, out, rawSent>>
    BY <1>4 DEF BeginEvent, Begin
  <2>2. nextId \in 0 .. MaxEvents - 1 /\ nextId' \in 1 .. MaxEvents
    BY <1>0, <2>1
  <2>3. /\ <<nextId>> \in Seq(Byte) /\ Len(<<nextId>>) <= Capacity
    BY <2>2, OneByte
  <2>4. /\ ev' \in Event /\ ev'.buf = <<nextId>> /\ ev'.id = nextId
        /\ ev'.prev = ~masked /\ asked' = <<nextId>> /\ masked' = TRUE
        /\ pc' = "build" /\ ev'.overflow = FALSE
    BY <2>1, <2>2, <2>3 DEF Build, Event
  <2>5. KernelOK'
    BY <1>0, <2>1, <2>2, <2>3, <2>4 DEF KernelOK
  <2>6. MaskInv'
    <3>1. trap => ~ev'.prev
      BY <1>0, <2>4 DEF MaskInv
    <3>2. ev'.id < nextId'
      BY <1>0, <2>1, <2>4
    <3> QED BY <1>0, <2>1, <2>4, <3>1, <3>2 DEF MaskInv
  <2>7. \A i \in 1 .. Len(emitted) : emitted[i].id < nextId + 1
    BY <1>0, <1>1
  <2>8. IdInv'
    BY <1>0, <1>1, <1>2, <2>1, <2>4, <2>7 DEF IdInv
  <2>9. WholeInv'
    BY <1>0, <1>2, <2>4 DEF WholeInv
  <2> QED BY <2>5, <2>6, <2>8, <2>9 DEF KernelInv
<1>5. CASE BeginFault
  <2>1. /\ trapId # -1 /\ Build("fault", trapId) /\ trapId' = -1
        /\ UNCHANGED <<nextId, trap, out, rawSent>>
    BY <1>5 DEF BeginFault
  <2>2. /\ trapId \in 0 .. MaxEvents - 1 /\ trapId = nextId - 1 /\ trap /\ masked
    BY <1>0, <2>1 DEF KernelOK, MaskInv
  <2>3. /\ <<trapId>> \in Seq(Byte) /\ Len(<<trapId>>) <= Capacity
    BY <2>2, OneByte
  <2>4. /\ ev' \in Event /\ ev'.buf = <<trapId>> /\ ev'.id = trapId
        /\ ev'.prev = ~masked /\ asked' = <<trapId>> /\ masked' = TRUE
        /\ pc' = "build" /\ ev'.overflow = FALSE
    BY <2>1, <2>2, <2>3 DEF Build, Event, Kinds
  <2>5. KernelOK'
    BY <1>0, <2>1, <2>2, <2>3, <2>4 DEF KernelOK
  <2>6. MaskInv'
    <3>1. ~ev'.prev
      BY <2>2, <2>4
    <3>2. ev'.id < nextId'
      BY <1>0, <2>1, <2>2, <2>4
    <3> QED BY <1>0, <2>1, <2>4, <3>1, <3>2 DEF MaskInv
  <2>7. IdInv'
    BY <1>0, <1>1, <1>2, <2>1, <2>4 DEF IdInv
  <2>8. WholeInv'
    BY <1>0, <1>2, <2>4 DEF WholeInv
  <2> QED BY <2>5, <2>6, <2>7, <2>8 DEF KernelInv
<1>6. CASE ClassicLine
  <2>1. /\ trapId # -1 /\ pc' = "put" /\ out' = Line
        /\ rawSent' = rawSent \o Line
        /\ ev' = [NoEvent EXCEPT !.prev = ~masked]
        /\ masked' = TRUE /\ trapId' = -1
        /\ UNCHANGED <<nextId, trap, asked>>
    BY <1>6 DEF ClassicLine
  <2>2. /\ ev' \in Event /\ ev'.buf = <<>> /\ ev'.id = 0 /\ ev'.prev = ~masked
        /\ Len(ev'.buf) <= Capacity
    <3>1. /\ 0 \in 0 .. MaxEvents - 1 /\ <<>> \in Seq(Byte) /\ Len(<<>>) = 0
          /\ 0 <= Capacity
      BY <1>0, Constants
    <3> QED BY <1>0, <2>1, <3>1 DEF NoEvent, Event, Kinds, KernelOK
  <2>3. rawSent' \in Seq(Byte) /\ Line \in Seq(Byte)
    BY <1>0, <2>1, Constants, ConcatProperties DEF KernelOK
  <2>4. KernelOK'
    BY <1>0, <2>1, <2>2, <2>3 DEF KernelOK
  <2>5. MaskInv'
    <3>1. ~ev'.prev
      BY <1>0, <2>1, <2>2 DEF MaskInv
    <3>2. ev'.id < nextId'
      BY <1>0, <2>1, <2>2
    <3> QED BY <1>0, <2>1, <3>1, <3>2 DEF MaskInv
  <2>6. IdInv'
    BY <1>0, <1>1, <1>2, <2>1 DEF IdInv
  <2>7. WholeInv'
    BY <1>0, <1>2, <2>1 DEF WholeInv
  <2> QED BY <2>4, <2>5, <2>6, <2>7 DEF KernelInv
<1> QED
  BY <1>3, <1>4, <1>5, <1>6

(* A piece is written: the buffer stays what was asked, or is poisoned.    *)
LEMMA WriteStep ==
    ASSUME KernelInv, NEW p \in Pieces, Write(p)
    PROVE  KernelInv'
<1>0. /\ KernelOK /\ MaskInv /\ IdInv /\ WholeInv /\ pc = "build"
      /\ ev' = Append1(p) /\ asked' = asked \o p
      /\ UNCHANGED <<nextId, masked, trap, trapId, pc, out, wire, emitted, rawSent>>
  BY DEF KernelInv, Write
<1>1. /\ p \in Seq(Byte) /\ ev \in Event /\ ev.buf \in Seq(Byte)
      /\ asked \in Seq(Byte) /\ Len(ev.buf) <= Capacity /\ Capacity \in Nat
  BY <1>0, Constants DEF KernelOK, Event
<1>2. /\ ev.buf \o p \in Seq(Byte) /\ Len(ev.buf \o p) = Len(ev.buf) + Len(p)
      /\ asked \o p \in Seq(Byte) /\ Len(ev.buf) \in Nat /\ Len(p) \in Nat
  BY <1>1, ConcatProperties
<1>3. /\ ev' \in Event /\ ev'.id = ev.id /\ ev'.prev = ev.prev
      /\ Len(ev'.buf) <= Capacity
      /\ ~ev'.overflow => ~ev.overflow /\ ev'.buf = ev.buf \o p
  <2>1. CASE Len(ev.buf) + Len(p) > Capacity
    <3>1. ev' = [ev EXCEPT !.overflow = TRUE]
      BY <1>0, <2>1 DEF Append1
    <3> QED BY <1>1, <3>1 DEF Event
  <2>2. CASE ~(Len(ev.buf) + Len(p) > Capacity)
    <3>1. ev' = [ev EXCEPT !.buf = ev.buf \o p]
      BY <1>0, <2>2 DEF Append1
    <3>2. /\ ev' \in Event /\ ev'.id = ev.id /\ ev'.prev = ev.prev
          /\ ev'.overflow = ev.overflow /\ ev'.buf = ev.buf \o p
      BY <1>1, <1>2, <3>1 DEF Event
    <3>3. Len(ev'.buf) <= Capacity
      BY <1>1, <1>2, <2>2, <3>2
    <3> QED BY <3>2, <3>3
  <2> QED BY <2>1, <2>2
<1>4. KernelOK'
  BY <1>0, <1>2, <1>3 DEF KernelOK
<1>5. MaskInv'
  BY <1>0, <1>3 DEF MaskInv
<1>6. IdInv'
  BY <1>0, <1>3 DEF IdInv, IdsInOrder
<1>7. WholeInv'
  BY <1>0, <1>3 DEF WholeInv, NoTruncation
<1> QED
  BY <1>4, <1>5, <1>6, <1>7 DEF KernelInv

(* The frame is closed and sent, or dropped.                               *)
LEMMA EmitStep ==
    ASSUME KernelInv, Emit
    PROVE  KernelInv'
<1>0. /\ KernelOK /\ MaskInv /\ IdInv /\ WholeInv /\ pc = "build" /\ pc' = "put"
      /\ UNCHANGED <<nextId, masked, trap, trapId, ev, asked, wire, rawSent>>
  BY DEF KernelInv, Emit
<1>1. MaskInv'
  BY <1>0 DEF MaskInv
<1>2. CASE UNCHANGED <<out, emitted>>
  <2>1. KernelOK'
    BY <1>0, <1>2 DEF KernelOK
  <2>2. IdInv' /\ WholeInv'
    BY <1>0, <1>2 DEF IdInv, IdsInOrder, WholeInv, NoTruncation
  <2> QED BY <1>1, <2>1, <2>2 DEF KernelInv
<1>3. ASSUME NEW p \in Sent, out' = Encode(p),
             emitted' = Append(emitted, Emitted(ev.kind, ev.id, p, asked))
      PROVE  KernelInv'
  <2> DEFINE e == Emitted(ev.kind, ev.id, p, asked)
  <2>1. /\ p \in Seq(Byte) /\ Len(p) <= Capacity
        /\ \/ ~ev.overflow /\ p = ev.buf
           \/ ev.kind \in Backed /\ p = <<ev.id>> \o Fallback
    BY <1>0, <1>3, SentFits
  <2>2. /\ e \in SentFrame /\ e.id = ev.id /\ e.payload = p /\ e.all = asked
        /\ e.kind = ev.kind
    BY <1>0, <2>1 DEF Emitted, SentFrame, KernelOK, Event
  <2>3. emitted' = Append(emitted, e)
    BY <1>3
  <2> HIDE DEF e
  <2>4. /\ emitted' \in Seq(SentFrame) /\ emitted'[Len(emitted) + 1] = e
        /\ \A i \in 1 .. Len(emitted) : emitted'[i] = emitted[i]
        /\ \A i \in 1 .. Len(emitted') :
              i = Len(emitted) + 1 \/ i \in 1 .. Len(emitted)
    BY <1>0, <2>2, <2>3, AddFrame
  <2>5. out' \in Seq(Byte)
    BY <1>3, <2>1, EncodeShape
  <2>6. KernelOK'
    BY <1>0, <2>4, <2>5 DEF KernelOK
  <2>7. IdsInOrder'
    BY <1>0, <2>2, <2>3, FrameInOrder DEF IdInv
  <2>8. \A i \in 1 .. Len(emitted') : emitted'[i].id < nextId
    BY <1>0, <2>2, <2>4 DEF IdInv, MaskInv
  <2>9. trapId = -1
    BY <1>0 DEF MaskInv
  <2>10. IdInv'
    BY <1>0, <2>7, <2>8, <2>9 DEF IdInv
  <2>11. \/ e.payload = e.all
         \/ e.kind \in Backed /\ e.payload = <<e.id>> \o Fallback
    BY <1>0, <2>1, <2>2 DEF WholeInv
  <2>12. WholeInv'
    BY <1>0, <2>1, <2>2, <2>3, <2>11, FrameWhole DEF WholeInv
  <2> QED BY <1>1, <2>6, <2>10, <2>12 DEF KernelInv
<1> QED
  BY <1>2, <1>3 DEF Emit

(* Bytes go out, the emission ends, a trap handler returns.                *)
LEMMA PutStep ==
    ASSUME KernelInv, Put \/ BlitFault \/ Done \/ Leave
    PROVE  KernelInv'
<1>0. /\ KernelOK /\ MaskInv /\ IdInv /\ WholeInv
      /\ UNCHANGED <<nextId, emitted, rawSent>>
  BY DEF KernelInv, Put, BlitFault, Done, Leave
<1>1. CASE Put
  <2>1. /\ pc = "put" /\ out # <<>> /\ wire' = Append(wire, Head(out))
        /\ out' = Tail(out) /\ UNCHANGED <<masked, trap, trapId, pc, ev, asked>>
    BY <1>1 DEF Put
  <2>2. wire' \in Seq(Byte) /\ out' \in Seq(Byte)
    <3>1. wire \in Seq(Byte) /\ out \in Seq(Byte)
      BY <1>0 DEF KernelOK
    <3>2. Head(out) \in Byte /\ Tail(out) \in Seq(Byte)
      BY <2>1, <3>1
    <3> QED BY <2>1, <3>1, <3>2
  <2>3. KernelOK'
    BY <1>0, <2>1, <2>2 DEF KernelOK
  <2>4. MaskInv' /\ IdInv' /\ WholeInv'
    BY <1>0, <2>1 DEF MaskInv, IdInv, IdsInOrder, WholeInv, NoTruncation
  <2> QED BY <2>3, <2>4 DEF KernelInv
<1>2. CASE BlitFault
  <2>1. /\ pc = "build" /\ pc' = "put"
        /\ UNCHANGED <<masked, trap, trapId, ev, asked, out, wire>>
    BY <1>2 DEF BlitFault
  <2>2. KernelOK'
    BY <1>0, <2>1 DEF KernelOK
  <2>3. MaskInv' /\ IdInv' /\ WholeInv'
    BY <1>0, <2>1 DEF MaskInv, IdInv, IdsInOrder, WholeInv, NoTruncation
  <2> QED BY <2>2, <2>3 DEF KernelInv
<1>3. CASE Done
  <2>1. /\ pc = "put" /\ out = <<>> /\ pc' = "free"
        /\ masked' = Restore(ev.prev) /\ ev' = NoEvent /\ asked' = <<>>
        /\ UNCHANGED <<trap, trapId, out, wire>>
    BY <1>3 DEF Done
  <2>2. /\ ev' \in Event /\ Len(ev'.buf) <= Capacity /\ asked' \in Seq(Byte)
    <3>1. /\ 0 \in 0 .. MaxEvents - 1 /\ <<>> \in Seq(Byte) /\ Len(<<>>) = 0
          /\ 0 <= Capacity
      BY Constants
    <3> QED BY <2>1, <3>1 DEF NoEvent, Event, Kinds
  <2>3. masked' \in BOOLEAN /\ (trap => masked')
    BY <1>0, <2>1 DEF KernelOK, MaskInv, Restore
  <2>4. KernelOK'
    BY <1>0, <2>1, <2>2, <2>3 DEF KernelOK
  <2>5. MaskInv' /\ IdInv' /\ WholeInv'
    BY <1>0, <2>1, <2>3 DEF MaskInv, IdInv, IdsInOrder, WholeInv, NoTruncation
  <2> QED BY <2>4, <2>5 DEF KernelInv
<1>4. CASE Leave
  <2>1. /\ pc = "free" /\ masked' = FALSE /\ trap' = FALSE /\ trapId' = -1
        /\ UNCHANGED <<pc, ev, asked, out, wire>>
    BY <1>4 DEF Leave
  <2>2. -1 \in -1 .. MaxEvents - 1
    BY Constants
  <2>3. KernelOK'
    BY <1>0, <2>1, <2>2 DEF KernelOK
  <2>4. MaskInv' /\ IdInv' /\ WholeInv'
    BY <1>0, <2>1 DEF MaskInv, IdInv, IdsInOrder, WholeInv, NoTruncation
  <2> QED BY <2>3, <2>4 DEF KernelInv
<1> QED
  BY <1>1, <1>2, <1>3, <1>4

(* The host takes a chunk of the line, or looks at what it has.            *)
LEMMA HostStep ==
    ASSUME KernelInv, Decoder \/ UNCHANGED vars
    PROVE  KernelInv'
<1>0. UNCHANGED kernelVars
  BY DEF Decoder, Read, Feed, vars, kernelVars
<1>1. wire' \in Seq(Byte)
  <2>0. wire \in Seq(Byte)
    BY DEF KernelInv, KernelOK
  <2>1. CASE wire' = wire
    BY <2>0, <2>1
  <2>2. ASSUME NEW n \in 1 .. Len(wire), Read(n) PROVE wire' \in Seq(Byte)
    <3>1. wire' = SubSeq(wire, n + 1, Len(wire))
      BY <2>2 DEF Read
    <3>2. \A i \in n + 1 .. Len(wire) : wire[i] \in Byte
      BY <2>0
    <3> QED BY <2>0, <3>1, <3>2, SubSeqProperties
  <2> QED BY <2>1, <2>2 DEF Decoder, Feed, vars
<1> QED
  BY <1>0, <1>1 DEF KernelInv, KernelOK, MaskInv, IdInv, IdsInOrder, WholeInv,
     NoTruncation, kernelVars

LEMMA KernelNext == KernelInv /\ [Next]_vars => KernelInv'
BY TickStep, BeginStep, WriteStep, EmitStep, PutStep, HostStep
   DEF Next, Emission

(* next_id and emit: for every number of events and every moment a tick or *)
(* a trap may come, frames leave in the order of their ids, each id once.  *)
THEOREM IdsOrdered == Spec => []IdsInOrder
<1>1. KernelInv => IdsInOrder
  BY DEF KernelInv, IdInv
<1> QED
  BY <1>1, KernelInit, KernelNext, PTL DEF Spec

(* FrameBuf: whatever the capacity and the pieces written, a frame carries *)
(* all its emitter wrote or the fixed small report.                        *)
THEOREM PayloadsWhole == Spec => []NoTruncation
<1>1. KernelInv => NoTruncation
  BY DEF KernelInv, WholeInv
<1> QED
  BY <1>1, KernelInit, KernelNext, PTL DEF Spec

-----------------------------------------------------------------------------
(* Least elements, by the well-foundedness of the naturals.                *)

LEMMA LeastOf ==
    ASSUME NEW T, T \subseteq Nat, T # {}
    PROVE  \E x \in T : \A y \in T : x <= y
<1>1. PICK x \in T : \A y \in T : ~(<<y, x>> \in OpToRel(<, Nat))
  BY WFMin, NatLessThanWellFounded
<1>2. \A y \in T : ~(y < x)
  BY <1>1 DEF OpToRel
<1> QED
  BY <1>2

LEMMA MinIs ==
    ASSUME NEW T, T \subseteq Nat, T # {}
    PROVE  Min(T) \in T /\ \A y \in T : Min(T) <= y
BY LeastOf DEF Min

(* The decoder's place in its buffer.                                      *)
LEMMA FirstMagic ==
    ASSUME buf \in Seq(Byte), MagicAt(buf) # {}
    PROVE  LET i == Min(MagicAt(buf))
           IN  /\ i \in 1 .. Len(buf) - 1 /\ buf[i] = M1 /\ buf[i + 1] = M2
               /\ \A x \in 1 .. i - 1 : ~(buf[x] = M1 /\ buf[x + 1] = M2)
               /\ Skipped = i - 1 /\ Skipped \in Nat
               /\ Rest \in Seq(Byte) /\ Len(Rest) = Len(buf) - Skipped
               /\ \A k \in 1 .. Len(Rest) : Rest[k] = buf[Skipped + k]
<1> DEFINE i == Min(MagicAt(buf))
<1>0. Len(buf) \in Nat
  OBVIOUS
<1>1. MagicAt(buf) \subseteq Nat
  BY <1>0 DEF MagicAt
<1>2. i \in MagicAt(buf) /\ \A y \in MagicAt(buf) : i <= y
  BY <1>1, MinIs
<1> HIDE DEF i
<1>3. i \in 1 .. Len(buf) - 1 /\ buf[i] = M1 /\ buf[i + 1] = M2
  BY <1>2 DEF MagicAt
<1>4. \A x \in 1 .. i - 1 : ~(buf[x] = M1 /\ buf[x + 1] = M2)
  <2> SUFFICES ASSUME NEW x \in 1 .. i - 1, buf[x] = M1, buf[x + 1] = M2
               PROVE  FALSE
    OBVIOUS
  <2>1. x \in MagicAt(buf)
    BY <1>0, <1>3 DEF MagicAt
  <2> QED BY <1>2, <1>3, <2>1
<1>5. Skipped = i - 1
  BY DEF Skipped, i
<1>6. Skipped \in Nat /\ Skipped < Len(buf)
  BY <1>0, <1>3, <1>5
<1>7. Rest = SubSeq(buf, Skipped + 1, Len(buf))
  BY DEF Rest
<1>8. /\ Rest \in Seq(Byte) /\ Len(Rest) = Len(buf) - Skipped
      /\ \A k \in 1 .. Len(Rest) : Rest[k] = buf[Skipped + k]
  <2> DEFINE c == Skipped
  <2>1. c \in Nat /\ c < Len(buf) /\ Rest = SubSeq(buf, c + 1, Len(buf))
    BY <1>6, <1>7
  <2> HIDE DEF c
  <2>2. \A k \in c + 1 .. Len(buf) : buf[k] \in Byte
    BY <2>1
  <2>3. /\ Rest \in Seq(Byte)
        /\ Len(Rest) = IF c + 1 <= Len(buf) THEN Len(buf) - (c + 1) + 1 ELSE 0
        /\ \A k \in 1 .. Len(buf) - (c + 1) + 1 : Rest[k] = buf[(c + 1) + k - 1]
    BY <1>0, <2>1, <2>2, SubSeqProperties
  <2>4. Len(Rest) = Len(buf) - c
    BY <1>0, <2>1, <2>3
  <2>5. \A k \in 1 .. Len(Rest) : Rest[k] = buf[c + k]
    BY <1>0, <2>1, <2>3, <2>4
  <2> QED BY <2>3, <2>4, <2>5 DEF c
<1> QED
  BY <1>3, <1>4, <1>5, <1>6, <1>8 DEF i

(* Cutting off the first n bytes of a sequence.                            *)
LEMMA Cut ==
    ASSUME NEW s \in Seq(Byte), NEW n \in 0 .. Len(s)
    PROVE  LET h == SubSeq(s, 1, n)
               t == SubSeq(s, n + 1, Len(s))
           IN  /\ h \in Seq(Byte) /\ Len(h) = n
               /\ \A k \in 1 .. n : h[k] = s[k]
               /\ t \in Seq(Byte) /\ Len(t) = Len(s) - n
               /\ \A k \in 1 .. Len(s) - n : t[k] = s[n + k]
<1>0. Len(s) \in Nat /\ \A k \in 1 .. Len(s) : s[k] \in Byte
  OBVIOUS
<1>1. /\ SubSeq(s, 1, n) \in Seq(Byte)
      /\ Len(SubSeq(s, 1, n)) = IF 1 <= n THEN n - 1 + 1 ELSE 0
      /\ \A k \in 1 .. n - 1 + 1 : SubSeq(s, 1, n)[k] = s[1 + k - 1]
  BY <1>0, SubSeqProperties
<1>2. /\ SubSeq(s, n + 1, Len(s)) \in Seq(Byte)
      /\ Len(SubSeq(s, n + 1, Len(s))) =
            IF n + 1 <= Len(s) THEN Len(s) - (n + 1) + 1 ELSE 0
      /\ \A k \in 1 .. Len(s) - (n + 1) + 1 :
            SubSeq(s, n + 1, Len(s))[k] = s[(n + 1) + k - 1]
  <2>1. \A k \in n + 1 .. Len(s) : s[k] \in Byte
    BY <1>0
  <2> QED BY <1>0, <2>1, SubSeqProperties
<1> QED
  BY <1>0, <1>1, <1>2

LEMMA ConcatSeq ==
    ASSUME NEW s \in Seq(Byte), NEW t \in Seq(Byte)
    PROVE  /\ s \o t \in Seq(Byte) /\ Len(s \o t) = Len(s) + Len(t)
           /\ \A i \in 1 .. Len(s) + Len(t) :
                 (s \o t)[i] = IF i <= Len(s) THEN s[i] ELSE t[i - Len(s)]
BY ConcatProperties

LEMMA DiscardType ==
    ASSUME HostOK, NEW n \in 0 .. Len(buf), Discard(n)
    PROVE  noise' \in Seq(Byte) /\ buf' \in Seq(Byte)
BY Cut, ConcatSeq DEF HostOK, Discard

(* The frame the decoder cuts out of the buffer.                           *)
LEMMA FrameCut ==
    ASSUME buf \in Seq(Byte), MagicAt(buf) # {}, Len(Rest) >= 4,
           NEW n \in Nat, n = LengthOf(Rest), 4 + n <= Len(Rest)
    PROVE  LET p == SubSeq(Rest, 5, 4 + n)
               t == SubSeq(Rest, 4 + n + 1, Len(Rest))
           IN  /\ p \in Seq(Byte) /\ Len(p) = n
               /\ \A k \in 1 .. n : p[k] = buf[Skipped + 4 + k]
               /\ t \in Seq(Byte) /\ Len(t) = Len(buf) - (Skipped + 4 + n)
               /\ \A k \in 1 .. Len(t) : t[k] = buf[Skipped + 4 + n + k]
<1>0. /\ Skipped \in Nat /\ Rest \in Seq(Byte)
      /\ Len(Rest) = Len(buf) - Skipped
      /\ \A k \in 1 .. Len(Rest) : Rest[k] = buf[Skipped + k]
  BY FirstMagic
<1> DEFINE c == Skipped
           L == Len(Rest)
<1>1. /\ c \in Nat /\ Rest \in Seq(Byte) /\ L = Len(buf) - c /\ L \in Nat
      /\ \A k \in 1 .. L : Rest[k] = buf[c + k]
      /\ Len(buf) \in Nat
  BY <1>0
<1> HIDE DEF c, L
<1>2. \A k \in 1 .. L : Rest[k] \in Byte
  BY <1>1 DEF L
<1>3. 4 + n <= L
  BY DEF L
<1>4. /\ SubSeq(Rest, 5, 4 + n) \in Seq(Byte)
      /\ Len(SubSeq(Rest, 5, 4 + n)) = IF 5 <= 4 + n THEN 4 + n - 5 + 1 ELSE 0
      /\ \A k \in 1 .. 4 + n - 5 + 1 :
            SubSeq(Rest, 5, 4 + n)[k] = Rest[5 + k - 1]
  <2>1. \A k \in 5 .. 4 + n : Rest[k] \in Byte
    BY <1>1, <1>2, <1>3
  <2> QED BY <2>1, SubSeqProperties
<1>5. \A k \in 1 .. n : Rest[5 + k - 1] = buf[c + 4 + k]
  <2> SUFFICES ASSUME NEW k \in 1 .. n PROVE Rest[5 + k - 1] = buf[c + 4 + k]
    OBVIOUS
  <2>1. 4 + k \in 1 .. L /\ 5 + k - 1 = 4 + k /\ c + (4 + k) = c + 4 + k
    BY <1>1, <1>3
  <2> QED BY <1>1, <2>1
<1>6. /\ SubSeq(Rest, 4 + n + 1, L) \in Seq(Byte)
      /\ Len(SubSeq(Rest, 4 + n + 1, L)) = L - (4 + n)
      /\ \A k \in 1 .. L - (4 + n) :
            SubSeq(Rest, 4 + n + 1, L)[k] = Rest[(4 + n) + k]
  <2>1. 4 + n \in 0 .. L
    BY <1>1, <1>3
  <2> QED BY <1>1, <2>1, Cut DEF L
<1>7. L - (4 + n) = Len(buf) - (c + 4 + n)
  BY <1>1
<1>8. \A k \in 1 .. L - (4 + n) : Rest[(4 + n) + k] = buf[c + 4 + n + k]
  <2> SUFFICES ASSUME NEW k \in 1 .. L - (4 + n)
               PROVE  Rest[(4 + n) + k] = buf[c + 4 + n + k]
    OBVIOUS
  <2>1. (4 + n) + k \in 1 .. L /\ c + ((4 + n) + k) = c + 4 + n + k
    BY <1>1, <1>3
  <2> QED BY <1>1, <2>1
<1>9. \A k \in 1 .. n : SubSeq(Rest, 5, 4 + n)[k] = buf[c + 4 + k]
  BY <1>4, <1>5
<1>10. Len(SubSeq(Rest, 5, 4 + n)) = n
  BY <1>4
<1> QED
  BY <1>4, <1>6, <1>7, <1>8, <1>9, <1>10 DEF c, L

LEMMA LengthNat ==
    ASSUME buf \in Seq(Byte), MagicAt(buf) # {}, Len(Rest) >= 4
    PROVE  LengthOf(Rest) \in Nat
<1>1. Rest \in Seq(Byte) /\ Len(Rest) \in Nat
  BY FirstMagic
<1>2. 3 \in 1 .. Len(Rest) /\ 4 \in 1 .. Len(Rest)
  BY <1>1
<1>3. Rest[3] \in Byte /\ Rest[4] \in Byte
  BY <1>1, <1>2
<1>4. Rest[3] \in Nat /\ Rest[4] \in Nat /\ Base \in Nat
  BY <1>3, Constants DEF Byte
<1> QED
  BY <1>4 DEF LengthOf

LEMMA HostTypes == KernelInv /\ HostOK /\ [Next]_vars => HostOK'
<1> SUFFICES ASSUME KernelInv, HostOK, [Next]_vars PROVE HostOK'
  OBVIOUS
<1>0. buf \in Seq(Byte) /\ noise \in Seq(Byte) /\ Len(buf) \in Nat
  BY DEF HostOK
<1>1. CASE UNCHANGED hostVars
  BY <1>1 DEF HostOK, hostVars
<1>2. ASSUME NEW n \in 1 .. Len(wire), Read(n) PROVE HostOK'
  <2>1. wire \in Seq(Byte) /\ n \in 0 .. Len(wire)
    BY DEF KernelInv, KernelOK
  <2>2. SubSeq(wire, 1, n) \in Seq(Byte)
    BY <2>1, Cut
  <2>3. buf' \in Seq(Byte)
    BY <1>0, <1>2, <2>2, ConcatSeq DEF Read
  <2> QED BY <1>2, <2>3 DEF Read, HostOK
<1>3. CASE Feed
  <2>1. CASE NoMagic
    <3>1. PICK n \in {Len(buf) - 1, Len(buf)} :
             Discard(n) /\ (n = Len(buf) - 1 => buf # <<>>)
      BY <1>0, <2>1 DEF NoMagic
    <3>2. n \in 0 .. Len(buf)
      BY <1>0, <3>1
    <3> QED BY <1>0, <2>1, <3>1, <3>2, DiscardType DEF NoMagic, HostOK
  <2>2. CASE WaitMore
    <3>1. Skipped \in 0 .. Len(buf)
      BY <1>0, <2>2, FirstMagic DEF WaitMore
    <3> QED BY <2>2, <3>1, DiscardType DEF WaitMore, HostOK
  <2>3. CASE Resync
    <3>1. Skipped + 1 \in 0 .. Len(buf)
      BY <1>0, <2>3, FirstMagic DEF Resync
    <3> QED BY <2>3, <3>1, DiscardType DEF Resync, HostOK
  <2>4. CASE TakeFrame
    <3> DEFINE n == LengthOf(Rest)
    <3>0. /\ MagicAt(buf) # {} /\ Len(Rest) >= 4 /\ Len(Rest) >= 4 + n
          /\ frames' = Append(frames, SubSeq(Rest, 5, 4 + n))
          /\ noise' = noise \o SubSeq(buf, 1, Skipped)
          /\ buf' = SubSeq(Rest, 4 + n + 1, Len(Rest)) /\ UNCHANGED host
      BY <2>4 DEF TakeFrame, HeaderLen
    <3>1. n \in Nat
      BY <1>0, <3>0, LengthNat
    <3> HIDE DEF n
    <3>2. /\ SubSeq(Rest, 5, 4 + n) \in Seq(Byte)
          /\ buf' \in Seq(Byte)
      <4>1. Len(Rest) \in Nat
        BY <1>0, <3>0, FirstMagic
      <4>2. 4 + n <= Len(Rest)
        BY <3>0, <3>1, <4>1
      <4> QED BY <1>0, <3>0, <3>1, <4>2, FrameCut DEF n
    <3>3. noise' \in Seq(Byte)
      <4>1. Skipped \in 0 .. Len(buf)
        BY <1>0, <3>0, FirstMagic
      <4> QED BY <1>0, <3>0, <4>1, Cut, ConcatSeq
    <3>4. frames' \in Seq(Seq(Byte))
      BY <3>0, <3>2 DEF HostOK
    <3> QED BY <3>0, <3>2, <3>3, <3>4 DEF HostOK
  <2> QED BY <1>3, <2>1, <2>2, <2>3, <2>4 DEF Feed
<1> QED
  BY <1>1, <1>2, <1>3 DEF Next, Emission, Decoder, Tick, Enter, Leave,
     BeginEvent, BeginFault, ClassicLine, Write, Emit, BlitFault, Put, Done,
     vars, hostVars

(* The emission and decoder state keeps its types for every constant.      *)
THEOREM StreamTypes == Spec => []TypeOK
<1>1. KernelInv /\ HostOK => TypeOK
  BY DEF KernelInv, KernelOK, HostOK, TypeOK, Event, SentFrame
<1>2. Init => HostOK
  BY DEF Init, HostOK
<1> QED
  BY <1>1, <1>2, KernelInit, KernelNext, HostTypes, PTL DEF Spec

-----------------------------------------------------------------------------
(* The stream as a path.  A spot is reached after r raw bytes, f whole     *)
(* frames and p bytes of the next one; every byte of the stream is a step  *)
(* from one spot to the next.  bn is the length of the banner, which is    *)
(* followed by the first frame; all other raw bytes come after that one.   *)

Frame(em, f) == Encode(em[f].payload)

Spot(raw, em) == [r : 0 .. Len(raw), f : 0 .. Len(em), p : Nat]

RawByte(raw, bn, a, x, c) ==
    /\ a.p = 0 /\ a.r < Len(raw) /\ (a.f = 0 <=> a.r < bn)
    /\ x = raw[a.r + 1]
    /\ c = [r |-> a.r + 1, f |-> a.f, p |-> 0]

FrameByte(em, bn, a, x, c) ==
    /\ a.f < Len(em) /\ a.r >= bn /\ (a.f = 0 => a.r = bn)
    /\ a.p < Len(Frame(em, a.f + 1))
    /\ x = Frame(em, a.f + 1)[a.p + 1]
    /\ c = IF a.p + 1 = Len(Frame(em, a.f + 1))
           THEN [r |-> a.r, f |-> a.f + 1, p |-> 0]
           ELSE [r |-> a.r, f |-> a.f, p |-> a.p + 1]

Path(raw, em, bn, S, P) ==
    /\ P \in [0 .. Len(S) -> Spot(raw, em)]
    /\ \A k \in 1 .. Len(S) :
        RawByte(raw, bn, P[k - 1], S[k], P[k])
            \/ FrameByte(em, bn, P[k - 1], S[k], P[k])
    /\ P[Len(S)] = [r |-> Len(raw), f |-> Len(em), p |-> 0]

(* The raw bytes are the banner and lines without magic bytes; the first   *)
(* frame is the hello.                                                     *)
Story(raw, em, b) ==
    /\ raw \in Seq(Byte) /\ b \in Banners /\ b \in Seq(Byte)
    /\ Len(b) \in Nat /\ Len(raw) \in Nat /\ Len(b) <= Len(raw)
    /\ \A i \in 1 .. Len(b) : raw[i] = b[i]
    /\ \A i \in Len(b) + 1 .. Len(raw) : raw[i] \notin {M1, M2}
    /\ em \in Seq(SentFrame) /\ Len(em) \in Nat /\ Len(em) >= 1
    /\ em[1].payload = <<0>>
    /\ \A i \in 1 .. Len(em) : Len(em[i].payload) <= Capacity

LEMMA FrameOf ==
    ASSUME NEW raw, NEW em, NEW b, Story(raw, em, b), NEW f \in 1 .. Len(em)
    PROVE  LET e == Frame(em, f)
               p == em[f].payload
           IN  /\ p \in Seq(Byte) /\ Len(p) \in Nat /\ Len(p) <= MaxFrameLen
               /\ e \in Seq(Byte) /\ Len(e) = 4 + Len(p)
               /\ e[1] = M1 /\ e[2] = M2 /\ e[3] + Base * e[4] = Len(p)
               /\ \A k \in 1 .. Len(p) : e[4 + k] = p[k]
<1>1. em[f] \in SentFrame /\ Len(em[f].payload) <= Capacity
  BY ElementOfSeq DEF Story
<1>2. em[f].payload \in Seq(Byte)
  BY <1>1 DEF SentFrame
<1>3. Len(em[f].payload) \in Nat /\ Len(em[f].payload) <= MaxFrameLen
  BY <1>1, <1>2, Constants
<1> QED
  BY <1>1, <1>2, <1>3, EncodeShape DEF Frame, LengthOf

(* The first d bytes are dropped.                                          *)
Drops(S, d, T) ==
    /\ T \in Seq(Byte) /\ Len(T) = Len(S) - d
    /\ \A k \in 1 .. Len(T) : T[k] = S[d + k]

LEMMA PathDrop ==
    ASSUME NEW raw, NEW em, NEW bn, NEW S \in Seq(Byte), NEW P,
           Path(raw, em, bn, S, P), NEW d \in 0 .. Len(S),
           NEW T, Drops(S, d, T)
    PROVE  \E Q : Path(raw, em, bn, T, Q) /\ Q[0] = P[d]
<1> DEFINE n == Len(S)
           t == Len(T)
           Q == [k \in 0 .. t |-> P[d + k]]
<1>0. n \in Nat /\ t \in Nat /\ t = n - d /\ d \in 0 .. n
  BY DEF Drops
<1>1. /\ P \in [0 .. n -> Spot(raw, em)]
      /\ \A k \in 1 .. n : RawByte(raw, bn, P[k - 1], S[k], P[k])
                             \/ FrameByte(em, bn, P[k - 1], S[k], P[k])
      /\ P[n] = [r |-> Len(raw), f |-> Len(em), p |-> 0]
  BY DEF Path
<1> HIDE DEF n, t
<1>2. \A k \in 0 .. t : d + k \in 0 .. n /\ Q[k] = P[d + k]
  BY <1>0
<1>3. Q \in [0 .. t -> Spot(raw, em)]
  BY <1>1, <1>2
<1>4. Q[t] = P[n] /\ Q[0] = P[d]
  BY <1>0, <1>2
<1>5. ASSUME NEW k \in 1 .. t
      PROVE  RawByte(raw, bn, Q[k - 1], T[k], Q[k])
                \/ FrameByte(em, bn, Q[k - 1], T[k], Q[k])
  <2>1. /\ d + k \in 1 .. n /\ k \in 0 .. t /\ k - 1 \in 0 .. t
        /\ d + (k - 1) = (d + k) - 1
    BY <1>0
  <2>2. Q[k] = P[d + k] /\ Q[k - 1] = P[(d + k) - 1] /\ T[k] = S[d + k]
    BY <1>2, <2>1 DEF t, Drops
  <2> HIDE DEF Q
  <2> QED BY <1>1, <2>1, <2>2
<1> QED
  BY <1>1, <1>3, <1>4, <1>5 DEF Path, t

(* A frame goes behind the stream.                                         *)
LEMMA PathFrame ==
    ASSUME NEW raw, NEW em, NEW b, Story(raw, em, b), NEW S \in Seq(Byte),
           NEW P, Path(raw, em, Len(b), S, P),
           NEW e \in SentFrame, Len(e.payload) <= Capacity
    PROVE  /\ Story(raw, Append(em, e), b)
           /\ \E Q : Q[0] = P[0]
                     /\ Path(raw, Append(em, e), Len(b), S \o Encode(e.payload), Q)
<1> DEFINE n  == Len(S)
           m  == Len(em)
           bn == Len(b)
           E  == Encode(e.payload)
           l  == Len(E)
           t  == n + l
           T  == S \o E
           ns == Append(em, e)
           Q  == [k \in 0 .. t |->
                    IF k <= n THEN P[k]
                    ELSE IF k < t THEN [r |-> Len(raw), f |-> m, p |-> k - n]
                    ELSE [r |-> Len(raw), f |-> m + 1, p |-> 0]]
<1>0. /\ n \in Nat /\ m \in Nat /\ m >= 1 /\ bn \in Nat /\ Len(raw) \in Nat
      /\ bn <= Len(raw) /\ em \in Seq(SentFrame)
  BY DEF Story
<1>1. /\ ns \in Seq(SentFrame) /\ Len(ns) = m + 1 /\ ns[m + 1] = e
      /\ \A i \in 1 .. m : ns[i] = em[i]
      /\ \A i \in 1 .. m + 1 : i = m + 1 \/ i \in 1 .. m
  BY <1>0
<1>2. Story(raw, ns, b)
  <2>1. 1 \in 1 .. m
    BY <1>0
  <2> HIDE DEF ns, m
  <2>2. ns[1].payload = <<0>>
    BY <1>1, <2>1 DEF Story
  <2>3. \A i \in 1 .. Len(ns) : Len(ns[i].payload) <= Capacity
    BY <1>1 DEF Story, m
  <2>4. Len(ns) \in Nat /\ Len(ns) >= 1
    BY <1>0, <1>1
  <2> QED BY <1>1, <2>2, <2>3, <2>4 DEF Story
<1>3. /\ E \in Seq(Byte) /\ l \in Nat /\ l >= 4
  <2>1. e.payload \in Seq(Byte)
    BY DEF SentFrame
  <2> QED BY <2>1, EncodeShape
<1>4. /\ T \in Seq(Byte) /\ Len(T) = t
      /\ \A k \in 1 .. n : T[k] = S[k]
      /\ \A k \in n + 1 .. t : T[k] = E[k - n]
  <2>1. /\ T \in Seq(Byte) /\ Len(T) = n + l
        /\ \A i \in 1 .. n + l : T[i] = IF i <= n THEN S[i] ELSE E[i - n]
    BY <1>3, ConcatSeq
  <2>2. n \in Nat /\ l \in Nat
    BY <1>0, <1>3
  <2> HIDE DEF T, E, n, l
  <2>3. /\ \A k \in 1 .. n : k \in 1 .. n + l /\ k <= n
        /\ \A k \in n + 1 .. n + l : k \in 1 .. n + l /\ ~(k <= n)
    BY <2>2
  <2> QED BY <2>1, <2>3
<1>5. /\ P \in [0 .. n -> Spot(raw, em)]
      /\ \A k \in 1 .. n : RawByte(raw, bn, P[k - 1], S[k], P[k])
                             \/ FrameByte(em, bn, P[k - 1], S[k], P[k])
      /\ P[n] = [r |-> Len(raw), f |-> m, p |-> 0]
  BY DEF Path
<1>6. Frame(ns, m + 1) = E /\ \A i \in 1 .. m : Frame(ns, i) = Frame(em, i)
  BY <1>1 DEF Frame
<1> HIDE DEF n, m, bn, E, l, T, ns
<1>7. /\ \A k \in 0 .. n : Q[k] = P[k]
      /\ \A k \in n .. t - 1 : Q[k] = [r |-> Len(raw), f |-> m, p |-> k - n]
      /\ Q[t] = [r |-> Len(raw), f |-> m + 1, p |-> 0]
  <2>1. \A k \in 0 .. n : Q[k] = P[k]
    BY <1>0, <1>3
  <2>2. \A k \in n + 1 .. t - 1 :
           Q[k] = [r |-> Len(raw), f |-> m, p |-> k - n]
    BY SMTT(30), <1>0, <1>3
  <2>3. Q[n] = [r |-> Len(raw), f |-> m, p |-> n - n]
    <3>1. n \in 0 .. n /\ n - n = 0
      BY <1>0
    <3> QED BY <1>5, <2>1, <3>1
  <2>4. \A k \in n .. t - 1 : k = n \/ k \in n + 1 .. t - 1
    BY <1>0, <1>3
  <2>5. Q[t] = [r |-> Len(raw), f |-> m + 1, p |-> 0]
    BY <1>0, <1>3
  <2> HIDE DEF Q
  <2> QED BY <2>1, <2>2, <2>3, <2>4, <2>5
<1>8. Q \in [0 .. t -> Spot(raw, ns)]
  <2>1. \A x \in Spot(raw, em) : x \in Spot(raw, ns)
    BY <1>0, <1>1 DEF Spot, m
  <2>2. \A k \in 0 .. n : P[k] \in Spot(raw, ns)
    BY <1>5, <2>1
  <2>3. \A k \in n .. t - 1 : [r |-> Len(raw), f |-> m, p |-> k - n] \in Spot(raw, ns)
    BY <1>0, <1>1, <1>3 DEF Spot
  <2>4. [r |-> Len(raw), f |-> m + 1, p |-> 0] \in Spot(raw, ns)
    BY <1>0, <1>1 DEF Spot
  <2>5. \A k \in 0 .. t : k \in 0 .. n \/ k \in n .. t - 1 \/ k = t
    BY <1>0, <1>3
  <2>6. \A k \in 0 .. t : Q[k] \in Spot(raw, ns)
    <3> HIDE DEF Q
    <3> QED BY <1>7, <2>2, <2>3, <2>4, <2>5
  <2> QED BY <2>6
<1> HIDE DEF Q
<1>9. ASSUME NEW k \in 1 .. t
      PROVE  RawByte(raw, bn, Q[k - 1], T[k], Q[k])
                \/ FrameByte(ns, bn, Q[k - 1], T[k], Q[k])
  <2>1. CASE k <= n
    <3>1. k \in 1 .. n /\ k \in 0 .. n /\ k - 1 \in 0 .. n
      BY <1>0, <2>1
    <3>2. Q[k] = P[k] /\ Q[k - 1] = P[k - 1] /\ T[k] = S[k]
      BY <1>4, <1>7, <3>1
    <3>3. CASE RawByte(raw, bn, P[k - 1], S[k], P[k])
      BY <3>2, <3>3
    <3>4. CASE FrameByte(em, bn, P[k - 1], S[k], P[k])
      <4>1. P[k - 1].f \in 0 .. m /\ P[k - 1].f < m
        BY <1>5, <3>1, <3>4 DEF Spot, FrameByte, m
      <4>2. P[k - 1].f + 1 \in 1 .. m /\ P[k - 1].f < Len(ns)
        <5> DEFINE g == P[k - 1].f
        <5>1. g \in 0 .. m /\ g < m /\ m \in Nat
          BY <1>0, <4>1
        <5> HIDE DEF g
        <5>2. g + 1 \in 1 .. m /\ g < m + 1
          BY <5>1
        <5> QED BY <1>1, <5>2 DEF g
      <4> QED BY <1>6, <3>2, <3>4, <4>2 DEF FrameByte
    <3> QED BY <1>5, <3>1, <3>3, <3>4
  <2>2. CASE k > n
    <3>1. /\ k - 1 \in n .. t - 1 /\ k \in n + 1 .. t /\ (k - 1) - n + 1 = k - n
      BY <1>0, <1>3, <2>2
    <3>2. /\ Q[k - 1] = [r |-> Len(raw), f |-> m, p |-> (k - 1) - n]
          /\ T[k] = E[k - n]
      BY <1>4, <1>7, <3>1
    <3> DEFINE a == [r |-> Len(raw), f |-> m, p |-> (k - 1) - n]
    <3>3. /\ a.f < Len(ns) /\ a.r >= bn /\ a.f # 0 /\ a.p < l
          /\ a.p + 1 = k - n /\ a.r = Len(raw) /\ a.f = m
      BY <1>0, <1>1, <1>3, <3>1
    <3> HIDE DEF a
    <3>4. Q[k] = IF a.p + 1 = l THEN [r |-> a.r, f |-> a.f + 1, p |-> 0]
                                     ELSE [r |-> a.r, f |-> a.f, p |-> a.p + 1]
      <4>1. CASE k = t
        BY <1>0, <1>3, <1>7, <3>3, <4>1
      <4>2. CASE k # t
        <5>1. k \in n .. t - 1 /\ k - n # l
          BY <1>0, <1>3, <3>1, <4>2
        <5> QED BY <1>7, <3>3, <5>1
      <4> QED BY <4>1, <4>2
    <3>5. Frame(ns, a.f + 1) = E
      BY <1>6, <3>3
    <3>6. Q[k - 1] = a
      BY <3>2 DEF a
    <3> QED BY <3>2, <3>3, <3>4, <3>5, <3>6 DEF FrameByte, l
  <2> QED BY <1>0, <2>1, <2>2
<1>10. Path(raw, ns, bn, T, Q)
  BY <1>1, <1>4, <1>7, <1>8, <1>9 DEF Path
<1>11. Q[0] = P[0]
  BY <1>0, <1>7
<1> QED
  BY <1>2, <1>10, <1>11 DEF ns, T, E, bn

(* A raw line goes behind the stream.                                      *)
LEMMA PathLine ==
    ASSUME NEW raw, NEW em, NEW b, Story(raw, em, b), NEW S \in Seq(Byte),
           NEW P, Path(raw, em, Len(b), S, P)
    PROVE  /\ Story(raw \o Line, em, b)
           /\ \E Q : Q[0] = P[0] /\ Path(raw \o Line, em, Len(b), S \o Line, Q)
<1> DEFINE n  == Len(S)
           m  == Len(em)
           bn == Len(b)
           w  == Len(raw)
           l  == Len(Line)
           t  == n + l
           T  == S \o Line
           nr == raw \o Line
           Q  == [k \in 0 .. t |->
                    IF k <= n THEN P[k]
                    ELSE [r |-> w + (k - n), f |-> m, p |-> 0]]
<1>0. /\ n \in Nat /\ m \in Nat /\ m >= 1 /\ bn \in Nat /\ w \in Nat
      /\ bn <= w /\ raw \in Seq(Byte)
  BY DEF Story
<1>1. /\ Line \in Seq(Byte) /\ l \in Nat
      /\ \A k \in 1 .. l : Line[k] \notin {M1, M2}
  <2>1. Line \in Seq(Byte \ {M1, M2})
    BY StreamAssumption
  <2>2. \A k \in 1 .. l : Line[k] \in Byte \ {M1, M2}
    BY <2>1, ElementOfSeq
  <2>3. Line \in Seq(Byte)
    BY Constants
  <2> QED BY <2>2, <2>3
<1>2. /\ nr \in Seq(Byte) /\ Len(nr) = w + l
      /\ \A i \in 1 .. w + l : nr[i] = IF i <= w THEN raw[i] ELSE Line[i - w]
  BY <1>0, <1>1, ConcatSeq
<1>3. /\ T \in Seq(Byte) /\ Len(T) = t
      /\ \A i \in 1 .. n + l : T[i] = IF i <= n THEN S[i] ELSE Line[i - n]
  BY <1>1, ConcatSeq
<1>4. /\ P \in [0 .. n -> Spot(raw, em)]
      /\ \A k \in 1 .. n : RawByte(raw, bn, P[k - 1], S[k], P[k])
                             \/ FrameByte(em, bn, P[k - 1], S[k], P[k])
      /\ P[n] = [r |-> w, f |-> m, p |-> 0]
  BY DEF Path
<1>5. /\ \A i \in 1 .. bn : raw[i] = b[i]
      /\ \A i \in bn + 1 .. w : raw[i] \notin {M1, M2}
  BY DEF Story
<1> HIDE DEF n, m, bn, w, l, T, nr
<1>6. /\ \A i \in 1 .. w : nr[i] = raw[i]
      /\ \A i \in w + 1 .. w + l : nr[i] = Line[i - w] /\ i - w \in 1 .. l
  <2>1. /\ \A i \in 1 .. w : i \in 1 .. w + l /\ i <= w
        /\ \A i \in w + 1 .. w + l :
              i \in 1 .. w + l /\ ~(i <= w) /\ i - w \in 1 .. l
    BY <1>0, <1>1
  <2> QED BY <1>2, <2>1
<1>7. Story(nr, em, b)
  <2>1. \A i \in 1 .. bn : nr[i] = b[i]
    <3>1. \A i \in 1 .. bn : i \in 1 .. w
      BY <1>0
    <3> QED BY <1>5, <1>6, <3>1
  <2>2. \A i \in bn + 1 .. w + l : nr[i] \notin {M1, M2}
    <3>1. \A i \in bn + 1 .. w + l :
             (i \in bn + 1 .. w /\ i \in 1 .. w) \/ i \in w + 1 .. w + l
      BY <1>0, <1>1
    <3> QED BY <1>1, <1>5, <1>6, <3>1
  <2>3. Len(nr) \in Nat /\ bn <= Len(nr)
    BY <1>0, <1>1, <1>2
  <2> QED BY <1>2, <2>1, <2>2, <2>3 DEF Story, bn
<1>8. /\ \A k \in 0 .. n : Q[k] = P[k]
      /\ \A k \in n .. t : Q[k] = [r |-> w + (k - n), f |-> m, p |-> 0]
  <2>1. \A k \in 0 .. n : Q[k] = P[k]
    BY <1>0, <1>1
  <2>2. \A k \in n + 1 .. t : Q[k] = [r |-> w + (k - n), f |-> m, p |-> 0]
    BY <1>0, <1>1
  <2>3. Q[n] = [r |-> w + (n - n), f |-> m, p |-> 0]
    <3>1. n \in 0 .. n /\ w + (n - n) = w
      BY <1>0
    <3> HIDE DEF Q
    <3> QED BY <1>4, <2>1, <3>1
  <2>4. \A k \in n .. t : k = n \/ k \in n + 1 .. t
    BY <1>0, <1>1
  <2> HIDE DEF Q
  <2> QED BY <2>1, <2>2, <2>3, <2>4
<1>9. Q \in [0 .. t -> Spot(nr, em)]
  <2>1. \A x \in Spot(raw, em) : x \in Spot(nr, em)
    BY <1>0, <1>1, <1>2 DEF Spot, w
  <2>2. \A k \in 0 .. n : P[k] \in Spot(nr, em)
    BY <1>4, <2>1
  <2>3. \A k \in n .. t : [r |-> w + (k - n), f |-> m, p |-> 0] \in Spot(nr, em)
    <3>1. \A k \in n .. t : w + (k - n) \in 0 .. Len(nr) /\ m \in 0 .. m
      BY <1>0, <1>1, <1>2
    <3> QED BY <3>1 DEF Spot, m
  <2>4. \A k \in 0 .. t : k \in 0 .. n \/ k \in n .. t
    BY <1>0, <1>1
  <2>5. \A k \in 0 .. t : Q[k] \in Spot(nr, em)
    <3> HIDE DEF Q
    <3> QED BY <1>8, <2>2, <2>3, <2>4
  <2> QED BY <2>5
<1> HIDE DEF Q
<1>10. ASSUME NEW k \in 1 .. t
       PROVE  RawByte(nr, bn, Q[k - 1], T[k], Q[k])
                 \/ FrameByte(em, bn, Q[k - 1], T[k], Q[k])
  <2>1. CASE k <= n
    <3>1. /\ k \in 1 .. n /\ k \in 0 .. n /\ k - 1 \in 0 .. n
          /\ k \in 1 .. n + l
      BY <1>0, <1>1, <2>1
    <3>2. Q[k] = P[k] /\ Q[k - 1] = P[k - 1] /\ T[k] = S[k]
      BY <1>3, <1>8, <2>1, <3>1
    <3>3. CASE RawByte(raw, bn, P[k - 1], S[k], P[k])
      <4> DEFINE g == P[k - 1].r
      <4>1. g \in 0 .. w /\ g < w
        BY <1>4, <3>1, <3>3 DEF Spot, RawByte, w
      <4> HIDE DEF g
      <4>2. g + 1 \in 1 .. w /\ g < w + l
        BY <1>0, <1>1, <4>1
      <4>3. nr[g + 1] = raw[g + 1] /\ g < Len(nr)
        BY <1>2, <1>6, <4>2
      <4> QED BY <3>2, <3>3, <4>3 DEF RawByte, g
    <3>4. CASE FrameByte(em, bn, P[k - 1], S[k], P[k])
      BY <3>2, <3>4
    <3> QED BY <1>4, <3>1, <3>3, <3>4
  <2>2. CASE k > n
    <3>1. /\ k - 1 \in n .. t /\ k \in n .. t /\ k \in 1 .. n + l /\ ~(k <= n)
          /\ w + ((k - 1) - n) + 1 = w + (k - n)
          /\ w + (k - n) \in w + 1 .. w + l /\ (w + (k - n)) - w = k - n
      BY <1>0, <1>1, <2>2
    <3> DEFINE a == [r |-> w + ((k - 1) - n), f |-> m, p |-> 0]
    <3>2. /\ Q[k - 1] = a /\ T[k] = Line[k - n]
          /\ Q[k] = [r |-> w + (k - n), f |-> m, p |-> 0]
      BY <1>3, <1>8, <3>1
    <3>3. nr[w + (k - n)] = Line[k - n]
      BY <1>6, <3>1
    <3>4. /\ a.p = 0 /\ a.f = m /\ a.r = w + ((k - 1) - n)
          /\ a.f # 0 /\ ~(a.r < bn) /\ a.r < Len(nr) /\ a.r + 1 = w + (k - n)
      BY <1>0, <1>1, <1>2, <3>1
    <3> HIDE DEF a
    <3> QED BY <3>2, <3>3, <3>4 DEF RawByte
  <2> QED BY <1>0, <2>1, <2>2
<1>11. Q[t] = [r |-> Len(nr), f |-> Len(em), p |-> 0]
  <2>1. t \in n .. t /\ w + (t - n) = w + l
    BY <1>0, <1>1
  <2> QED BY <1>2, <1>8, <2>1 DEF m
<1>12. Path(nr, em, bn, T, Q)
  BY <1>3, <1>9, <1>10, <1>11 DEF Path
<1>13. Q[0] = P[0]
  BY <1>0, <1>8
<1> QED
  BY <1>7, <1>12, <1>13 DEF nr, T, bn

(* The stream before the kernel starts: the banner and the hello.          *)
LEMMA PathInit ==
    ASSUME NEW b \in Banners,
           NEW em, em = <<Emitted("event", 0, << 0 >>, << 0 >>)>>
    PROVE  /\ Story(b, em, b)
           /\ \E Q : /\ Q[0] = [r |-> 0, f |-> 0, p |-> 0]
                     /\ Path(b, em, Len(b), b \o Encode(<< 0 >>), Q)
<1> DEFINE bn == Len(b)
           E  == Encode(<<0>>)
           T  == b \o E
           Q  == [k \in 0 .. bn + 5 |->
                    IF k <= bn THEN [r |-> k, f |-> 0, p |-> 0]
                    ELSE IF k < bn + 5 THEN [r |-> bn, f |-> 0, p |-> k - bn]
                    ELSE [r |-> bn, f |-> 1, p |-> 0]]
<1>0. /\ b \in Seq(Byte) /\ bn \in Nat /\ Capacity \in Nat /\ Capacity >= 1
  BY Constants
<1>1. /\ <<0>> \in Seq(Byte) /\ Len(<<0>>) = 1 /\ Len(<<0>>) <= Capacity
      /\ 0 \in 0 .. MaxEvents - 1
  BY Constants, OneByte
<1>2. /\ em \in Seq(SentFrame) /\ Len(em) = 1 /\ em[1].payload = <<0>>
  <2>1. Emitted("event", 0, <<0>>, <<0>>) \in SentFrame
    BY <1>1 DEF Emitted, SentFrame, Kinds
  <2>2. Emitted("event", 0, <<0>>, <<0>>).payload = <<0>>
    BY DEF Emitted
  <2> QED BY <2>1, <2>2
<1>3. Story(b, em, b)
  <2>1. \A i \in 1 .. Len(em) : i = 1
    BY <1>2
  <2>2. \A i \in bn + 1 .. bn : FALSE
    BY <1>0
  <2>3. \A i \in 1 .. Len(em) : Len(em[i].payload) <= Capacity
    BY <1>1, <1>2, <2>1
  <2>4. Len(em) \in Nat /\ Len(em) >= 1 /\ bn <= bn
    BY <1>0, <1>2
  <2>5. /\ \A i \in bn + 1 .. bn : b[i] \notin {M1, M2}
        /\ \A i \in 1 .. bn : b[i] = b[i]
    BY <2>2
  <2> HIDE DEF bn
  <2> QED BY <1>0, <1>2, <2>3, <2>4, <2>5 DEF Story, bn
<1>4. E \in Seq(Byte) /\ Len(E) = 5 /\ Frame(em, 1) = E
  <2>1. E \in Seq(Byte) /\ Len(E) = 4 + 1
    BY <1>1, EncodeShape
  <2> QED BY <1>2, <2>1 DEF Frame
<1>5. /\ T \in Seq(Byte) /\ Len(T) = bn + 5
      /\ \A i \in 1 .. bn + 5 : T[i] = IF i <= bn THEN b[i] ELSE E[i - bn]
  <2>1. /\ T \in Seq(Byte) /\ Len(T) = bn + Len(E)
        /\ \A i \in 1 .. bn + Len(E) : T[i] = IF i <= bn THEN b[i] ELSE E[i - bn]
    BY <1>0, <1>4, ConcatSeq
  <2> HIDE DEF T, E
  <2> QED BY <1>4, <2>1
<1> HIDE DEF T, E, bn
<1>6. /\ \A k \in 0 .. bn : Q[k] = [r |-> k, f |-> 0, p |-> 0]
      /\ \A k \in bn .. bn + 4 : Q[k] = [r |-> bn, f |-> 0, p |-> k - bn]
      /\ Q[bn + 5] = [r |-> bn, f |-> 1, p |-> 0]
  <2>1. \A k \in 0 .. bn : Q[k] = [r |-> k, f |-> 0, p |-> 0]
    BY <1>0
  <2>2. \A k \in bn + 1 .. bn + 4 : Q[k] = [r |-> bn, f |-> 0, p |-> k - bn]
    BY <1>0
  <2>3. Q[bn] = [r |-> bn, f |-> 0, p |-> bn - bn]
    BY <1>0
  <2>4. \A k \in bn .. bn + 4 : k = bn \/ k \in bn + 1 .. bn + 4
    BY <1>0
  <2>5. Q[bn + 5] = [r |-> bn, f |-> 1, p |-> 0]
    BY <1>0
  <2> HIDE DEF Q
  <2> QED BY <2>1, <2>2, <2>3, <2>4, <2>5
<1>7. Q \in [0 .. bn + 5 -> Spot(b, em)]
  <2>1. \A k \in 0 .. bn : [r |-> k, f |-> 0, p |-> 0] \in Spot(b, em)
    BY <1>0, <1>2 DEF Spot, bn
  <2>2. \A k \in bn .. bn + 4 : [r |-> bn, f |-> 0, p |-> k - bn] \in Spot(b, em)
    <3>1. bn \in 0 .. bn /\ \A k \in bn .. bn + 4 : k - bn \in Nat
      BY <1>0
    <3> QED BY <1>2, <3>1 DEF Spot, bn
  <2>3. [r |-> bn, f |-> 1, p |-> 0] \in Spot(b, em)
    <3>1. bn \in 0 .. bn
      BY <1>0
    <3> QED BY <1>2, <3>1 DEF Spot, bn
  <2>4. \A k \in 0 .. bn + 5 :
           k \in 0 .. bn \/ k \in bn .. bn + 4 \/ k = bn + 5
    BY <1>0
  <2>5. \A k \in 0 .. bn + 5 : Q[k] \in Spot(b, em)
    <3> HIDE DEF Q
    <3> QED BY <1>6, <2>1, <2>2, <2>3, <2>4
  <2> QED BY <2>5
<1> HIDE DEF Q
<1>8. ASSUME NEW k \in 1 .. bn + 5
      PROVE  RawByte(b, bn, Q[k - 1], T[k], Q[k])
                \/ FrameByte(em, bn, Q[k - 1], T[k], Q[k])
  <2>1. CASE k <= bn
    <3>1. k - 1 \in 0 .. bn /\ k \in 0 .. bn /\ k - 1 < bn /\ (k - 1) + 1 = k
      BY <1>0, <2>1
    <3> DEFINE a == [r |-> k - 1, f |-> 0, p |-> 0]
    <3>2. /\ Q[k - 1] = a /\ T[k] = b[k]
          /\ Q[k] = [r |-> k, f |-> 0, p |-> 0]
      BY <1>5, <1>6, <2>1, <3>1
    <3>3. a.p = 0 /\ a.r = k - 1 /\ a.f = 0
      OBVIOUS
    <3> HIDE DEF a
    <3> QED BY <3>1, <3>2, <3>3 DEF RawByte, bn
  <2>2. CASE k > bn
    <3>1. /\ k - 1 \in bn .. bn + 4 /\ ~(k <= bn)
          /\ (k - 1) - bn + 1 = k - bn /\ (k - 1) - bn < 5
      BY <1>0, <2>2
    <3> DEFINE a == [r |-> bn, f |-> 0, p |-> (k - 1) - bn]
    <3>2. Q[k - 1] = a /\ T[k] = E[k - bn]
      BY <1>5, <1>6, <3>1
    <3>3. /\ a.r = bn /\ a.f = 0 /\ a.p + 1 = k - bn /\ a.p < 5
          /\ a.f + 1 = 1 /\ bn >= bn
      BY <1>0, <3>1
    <3>4. Q[k] = IF k - bn = 5 THEN [r |-> bn, f |-> 1, p |-> 0]
                               ELSE [r |-> bn, f |-> 0, p |-> k - bn]
      <4>1. k = bn + 5 \/ (k \in bn .. bn + 4 /\ k - bn # 5)
        BY <1>0, <2>2
      <4>2. (bn + 5) - bn = 5
        BY <1>0
      <4> QED BY <1>6, <4>1, <4>2
    <3>5. /\ Frame(em, a.f + 1) = E /\ a.f < Len(em) /\ a.r >= bn
          /\ a.p < Len(E) /\ T[k] = E[a.p + 1]
      BY <1>2, <1>4, <3>2, <3>3
    <3>6. Q[k] = IF a.p + 1 = Len(E)
                 THEN [r |-> a.r, f |-> a.f + 1, p |-> 0]
                 ELSE [r |-> a.r, f |-> a.f, p |-> a.p + 1]
      BY <1>4, <3>3, <3>4
    <3> HIDE DEF a
    <3> QED BY <3>2, <3>3, <3>5, <3>6 DEF FrameByte
  <2> QED BY <1>0, <2>1, <2>2
<1>9. Path(b, em, bn, T, Q)
  BY <1>2, <1>5, <1>6, <1>7, <1>8 DEF Path, bn
<1>10. Q[0] = [r |-> 0, f |-> 0, p |-> 0]
  BY <1>0, <1>6
<1> QED
  BY <1>3, <1>9, <1>10 DEF T, E, bn

(* As long as no magic is seen, the bytes are raw.                         *)
LEMMA RawRun ==
    ASSUME NEW raw, NEW em, NEW b, Story(raw, em, b), NEW S \in Seq(Byte),
           NEW P, Path(raw, em, Len(b), S, P), P[0].p = 0,
           NEW c \in 0 .. Len(S),
           \A x \in 1 .. c : ~(S[x] = M1 /\ x < Len(S) /\ S[x + 1] = M2)
    PROVE  \A k \in 0 .. c :
              /\ P[k] = [r |-> P[0].r + k, f |-> P[0].f, p |-> 0]
              /\ k >= 1 => S[k] = raw[P[0].r + k]
<1> DEFINE n == Len(S)
           g == P[0].r
           f == P[0].f
           Good(k) == /\ P[k] = [r |-> g + k, f |-> f, p |-> 0]
                      /\ k >= 1 => S[k] = raw[g + k]
           Bad == {k \in 0 .. c : ~Good(k)}
<1>0. /\ n \in Nat /\ c \in 0 .. n /\ Len(em) \in Nat
      /\ P \in [0 .. n -> Spot(raw, em)]
      /\ \A k \in 1 .. n : RawByte(raw, Len(b), P[k - 1], S[k], P[k])
                             \/ FrameByte(em, Len(b), P[k - 1], S[k], P[k])
      /\ P[n] = [r |-> Len(raw), f |-> Len(em), p |-> 0]
  BY DEF Path, Story
<1>1. P[0] \in Spot(raw, em) /\ 0 \in 0 .. c
  BY <1>0
<1>2. g \in Nat /\ f \in Nat /\ P[0] = [r |-> g, f |-> f, p |-> 0]
  BY <1>1 DEF Spot, Story
<1>3. Good(0)
  BY <1>2
<1>4. ASSUME NEW x \in 1 .. c, Good(x - 1) PROVE Good(x)
  <2> DEFINE a == P[x - 1]
  <2>1. /\ x \in 1 .. n /\ x - 1 \in 0 .. n /\ (g + (x - 1)) + 1 = g + x
        /\ x - 1 >= 0
    BY <1>0, <1>2
  <2>2. a = [r |-> g + (x - 1), f |-> f, p |-> 0]
    BY <1>4
  <2>3. a.r + 1 = g + x /\ a.f = f /\ a.p = 0
    BY <2>1, <2>2
  <2> HIDE DEF a
  <2>4. CASE RawByte(raw, Len(b), a, S[x], P[x])
    BY <2>3, <2>4 DEF RawByte
  <2>5. CASE FrameByte(em, Len(b), a, S[x], P[x])
    <3> DEFINE E == Frame(em, f + 1)
    <3>1. f + 1 \in 1 .. Len(em) /\ f < Len(em)
      BY <1>0, <1>2, <2>3, <2>5 DEF FrameByte
    <3>2. /\ E \in Seq(Byte) /\ Len(E) > 1 /\ Len(E) \in Nat
          /\ E[1] = M1 /\ E[2] = M2
      BY <3>1, FrameOf
    <3> HIDE DEF E
    <3>3. S[x] = M1 /\ P[x] = [r |-> a.r, f |-> f, p |-> 1]
      <4>1. S[x] = E[0 + 1]
        BY <2>3, <2>5 DEF FrameByte, E
      <4>2. 0 + 1 # Len(E)
        BY <3>2
      <4> QED BY <2>3, <2>5, <3>2, <4>1, <4>2 DEF FrameByte, E
    <3>4. x < n
      <4>1. P[x] # P[n]
        BY <1>0, <3>3
      <4> QED BY <1>0, <2>1, <4>1
    <3>5. x + 1 \in 1 .. n /\ (x + 1) - 1 = x
      BY <1>0, <2>1, <3>4
    <3>6. FrameByte(em, Len(b), P[x], S[x + 1], P[x + 1])
      <4> DEFINE y == x + 1
      <4>1. y \in 1 .. n /\ y - 1 = x
        BY <3>5
      <4> HIDE DEF y
      <4>2. P[x].p # 0
        BY <3>3
      <4>3. \/ RawByte(raw, Len(b), P[x], S[y], P[y])
            \/ FrameByte(em, Len(b), P[x], S[y], P[y])
        BY <1>0, <4>1
      <4> QED BY <4>2, <4>3 DEF RawByte, y
    <3>7. S[x + 1] = M2
      <4>1. P[x].p = 1 /\ P[x].f = f
        BY <3>3
      <4> QED BY <3>2, <3>6, <4>1 DEF FrameByte, E
    <3> QED BY <3>3, <3>4, <3>7 DEF n
  <2> QED BY <1>0, <2>1, <2>4, <2>5 DEF a
<1>5. Bad = {}
  <2> SUFFICES ASSUME Bad # {} PROVE FALSE
    OBVIOUS
  <2>1. Bad \subseteq Nat
    BY <1>0
  <2>2. PICK x \in Bad : \A y \in Bad : x <= y
    BY <2>1, LeastOf
  <2> HIDE DEF Good
  <2>3. x # 0 /\ x \in 1 .. c /\ x - 1 \in 0 .. c /\ ~Good(x)
    BY <1>0, <1>3, <2>2
  <2>4. ~(x - 1 \in Bad)
    BY <1>0, <2>2, <2>3
  <2>5. Good(x - 1)
    BY <2>3, <2>4
  <2> QED BY <1>4, <2>3, <2>5
<1> QED
  BY <1>5

(* Every byte but the last is followed by a step, and inside a frame only  *)
(* by that frame.                                                          *)
LEMMA PathAt ==
    ASSUME NEW raw, NEW em, NEW b, Story(raw, em, b), NEW S \in Seq(Byte),
           NEW P, Path(raw, em, Len(b), S, P), NEW k \in 0 .. Len(S)
    PROVE  /\ P[k] \in Spot(raw, em)
           /\ P[k].r \in Nat /\ P[k].f \in Nat /\ P[k].p \in Nat
           /\ P[k] = [r |-> P[k].r, f |-> P[k].f, p |-> P[k].p]
           /\ k < Len(S) => RawByte(raw, Len(b), P[k], S[k + 1], P[k + 1])
                             \/ FrameByte(em, Len(b), P[k], S[k + 1], P[k + 1])
           /\ P[k].p # 0 => /\ k < Len(S)
                            /\ FrameByte(em, Len(b), P[k], S[k + 1], P[k + 1])
           /\ P[k].f < Len(em) => k < Len(S)
<1> DEFINE n == Len(S)
           y == k + 1
<1>0. /\ n \in Nat /\ Len(em) \in Nat /\ Len(raw) \in Nat
      /\ P \in [0 .. n -> Spot(raw, em)]
      /\ \A j \in 1 .. n : RawByte(raw, Len(b), P[j - 1], S[j], P[j])
                             \/ FrameByte(em, Len(b), P[j - 1], S[j], P[j])
      /\ P[n] = [r |-> Len(raw), f |-> Len(em), p |-> 0]
  <2>1. n \in Nat /\ Len(em) \in Nat /\ Len(raw) \in Nat
    BY DEF Story
  <2> QED BY <2>1 DEF Path
<1>1. k \in 0 .. n
  OBVIOUS
<1> HIDE DEF n
<1>2. P[k] \in Spot(raw, em)
  BY <1>0, <1>1
<1>3. /\ P[k].r \in Nat /\ P[k].f \in Nat /\ P[k].p \in Nat
      /\ P[k] = [r |-> P[k].r, f |-> P[k].f, p |-> P[k].p]
  BY <1>0, <1>2 DEF Spot
<1>4. k < n => y \in 1 .. n /\ y - 1 = k
  BY <1>0, <1>1
<1> HIDE DEF y
<1>5. k < n => RawByte(raw, Len(b), P[k], S[y], P[y])
                 \/ FrameByte(em, Len(b), P[k], S[y], P[y])
  BY <1>0, <1>4
<1>6. P[n].p = 0 /\ P[n].f = Len(em)
  BY <1>0
<1>7. k # n => k < n
  BY <1>0, <1>1
<1>8. P[k].f < Len(em) => k # n
  BY <1>0, <1>6
<1>9. P[k].p # 0 => k # n /\ ~RawByte(raw, Len(b), P[k], S[y], P[y])
  BY <1>6 DEF RawByte
<1> QED
  BY <1>2, <1>3, <1>5, <1>7, <1>8, <1>9 DEF n, y

(* A frame that begins is followed to its end.                             *)
LEMMA FrameRun ==
    ASSUME NEW raw, NEW em, NEW b, Story(raw, em, b), NEW S \in Seq(Byte),
           NEW P, Path(raw, em, Len(b), S, P),
           NEW k \in 0 .. Len(S), P[k].p = 0, k < Len(S),
           FrameByte(em, Len(b), P[k], S[k + 1], P[k + 1]),
           NEW L, L = Len(Frame(em, P[k].f + 1))
    PROVE  /\ P[k].f < Len(em) /\ L \in Nat /\ k + L <= Len(S)
           /\ \A j \in 1 .. L : S[k + j] = Frame(em, P[k].f + 1)[j]
           /\ P[k + L] = [r |-> P[k].r, f |-> P[k].f + 1, p |-> 0]
<1> DEFINE n == Len(S)
           g == P[k].r
           f == P[k].f
           E == Frame(em, f + 1)
           Good(j) == /\ k + j \in 0 .. n /\ k + j < n
                      /\ P[k + j] = [r |-> g, f |-> f, p |-> j]
                      /\ FrameByte(em, Len(b), P[k + j], S[k + j + 1],
                                   P[k + j + 1])
           Bad == {j \in 0 .. L - 1 : ~Good(j)}
<1>0. /\ n \in Nat /\ Len(em) \in Nat /\ k \in 0 .. n /\ k < n
      /\ g \in Nat /\ f \in Nat /\ P[k] = [r |-> g, f |-> f, p |-> 0]
      /\ FrameByte(em, Len(b), P[k], S[k + 1], P[k + 1])
  <2>1. n \in Nat /\ Len(em) \in Nat
    BY DEF Story
  <2>2. /\ P[k].r \in Nat /\ P[k].f \in Nat
        /\ P[k] = [r |-> P[k].r, f |-> P[k].f, p |-> P[k].p]
    BY PathAt
  <2> QED BY <2>1, <2>2
<1>1. f < Len(em)
  BY <1>0 DEF FrameByte
<1>2. f + 1 \in 1 .. Len(em)
  BY <1>0, <1>1
<1>3. L \in Nat /\ L >= 1 /\ L = Len(E)
  BY SMTT(30), <1>2, FrameOf DEF E
<1>4. \A y \in 0 .. n : P[y].p # 0 => /\ y < n
                            /\ FrameByte(em, Len(b), P[y], S[y + 1], P[y + 1])
  BY PathAt DEF n
<1> HIDE DEF n, g, f, E
<1>5. Good(0)
  BY <1>0
<1>6. ASSUME NEW j \in 0 .. L - 1, Good(j)
      PROVE  /\ S[k + j + 1] = E[j + 1]
             /\ P[k + j + 1] = IF j + 1 = L
                               THEN [r |-> g, f |-> f + 1, p |-> 0]
                               ELSE [r |-> g, f |-> f, p |-> j + 1]
  <2>1. P[k + j].r = g /\ P[k + j].f = f /\ P[k + j].p = j
    BY <1>6
  <2> QED BY <1>3, <1>6, <2>1 DEF FrameByte, E
<1>7. ASSUME NEW j \in 1 .. L - 1, Good(j - 1) PROVE Good(j)
  <2>1. /\ j - 1 \in 0 .. L - 1 /\ k + (j - 1) + 1 = k + j
        /\ (j - 1) + 1 = j /\ j # L /\ j # 0
    BY <1>0, <1>3
  <2>2. P[k + j] = [r |-> g, f |-> f, p |-> j]
    <3>1. P[k + (j - 1) + 1] = IF (j - 1) + 1 = L
                               THEN [r |-> g, f |-> f + 1, p |-> 0]
                               ELSE [r |-> g, f |-> f, p |-> (j - 1) + 1]
      <4> HIDE DEF Good
      <4> QED BY <1>6, <1>7, <2>1
    <3> QED BY <2>1, <3>1
  <2>3. k + j \in 0 .. n
    BY <1>0, <1>3, <1>7, <2>1
  <2>4. P[k + j].p # 0
    BY <2>1, <2>2
  <2> QED BY <1>4, <2>2, <2>3, <2>4
<1>8. Bad = {}
  <2> SUFFICES ASSUME Bad # {} PROVE FALSE
    OBVIOUS
  <2>1. Bad \subseteq Nat
    BY <1>3
  <2>2. PICK x \in Bad : \A y \in Bad : x <= y
    BY ZenonT(40), <2>1, LeastOf
  <2> HIDE DEF Good
  <2>3. x # 0 /\ x \in 1 .. L - 1 /\ x - 1 \in 0 .. L - 1 /\ ~Good(x)
    BY <1>3, <1>5, <2>2
  <2>4. ~(x - 1 \in Bad)
    BY <1>3, <2>2, <2>3
  <2>5. Good(x - 1)
    BY <2>3, <2>4
  <2> QED BY <1>7, <2>3, <2>5
<1> DEFINE z == L - 1
<1>9. z \in 0 .. L - 1 /\ z + 1 = L /\ k + z + 1 = k + L
  BY <1>0, <1>3
<1>10. k + L <= n
  <2>1. Good(z)
    BY <1>8, <1>9
  <2>2. k + z < n
    BY <2>1
  <2> QED BY <1>0, <1>3, <1>9, <2>2
<1>11. P[k + L] = [r |-> g, f |-> f + 1, p |-> 0]
  <2>1. Good(z)
    BY <1>8, <1>9
  <2> HIDE DEF Good, z
  <2>2. P[k + z + 1] = IF z + 1 = L
                       THEN [r |-> g, f |-> f + 1, p |-> 0]
                       ELSE [r |-> g, f |-> f, p |-> z + 1]
    BY <1>6, <1>9, <2>1
  <2> QED BY <1>9, <2>2
<1>12. ASSUME NEW j \in 1 .. L PROVE S[k + j] = E[j]
  <2>1. /\ j - 1 \in 0 .. L - 1 /\ k + (j - 1) + 1 = k + j
        /\ (j - 1) + 1 = j
    BY <1>0, <1>3
  <2>2. Good(j - 1)
    BY <1>8, <2>1
  <2> HIDE DEF Good
  <2>3. S[k + (j - 1) + 1] = E[(j - 1) + 1]
    BY <1>6, <2>1, <2>2
  <2> QED BY <2>1, <2>3
<1> QED
  BY <1>1, <1>3, <1>10, <1>11, <1>12 DEF n, g, f, E

(* The bytes the line begins with: the banner and the first frame.         *)
Opening(b, s) ==
    \A i \in 1 .. Len(b) + 5 :
        s[i] = IF i <= Len(b) THEN b[i] ELSE Encode(<< 0 >>)[i - Len(b)]

(* The four bytes of S from k on are those of s from g on.                 *)
NextFour(S, k, s, g) ==
    /\ S[k + 1] = s[g + 1] /\ S[k + 2] = s[g + 2]
    /\ S[k + 3] = s[g + 3] /\ S[k + 4] = s[g + 4]

(* Inside the banner the next four bytes are those of the banner and of    *)
(* the first frame behind it.                                              *)
LEMMA BannerRun ==
    ASSUME NEW raw, NEW em, NEW b, Story(raw, em, b), NEW S \in Seq(Byte),
           NEW P, Path(raw, em, Len(b), S, P),
           NEW k \in 0 .. Len(S), NEW g \in Nat, g < Len(b),
           P[k] = [r |-> g, f |-> 0, p |-> 0],
           NEW s, Opening(b, s)
    PROVE  k + 4 <= Len(S) /\ NextFour(S, k, s, g)
<1> DEFINE n  == Len(S)
           bn == Len(b)
           E  == Encode(<<0>>)
           Good(j) == /\ k + j \in 0 .. n
                      /\ P[k + j].f = 0 /\ P[k + j].r <= bn
                      /\ P[k + j].p # 0 => P[k + j].r = bn
                      /\ P[k + j].r + P[k + j].p = g + j
                      /\ j >= 1 => S[k + j] = s[g + j]
<1>0. /\ n \in Nat /\ Len(em) \in Nat /\ Len(em) >= 1 /\ k \in 0 .. n
      /\ g \in Nat /\ bn \in Nat /\ b \in Seq(Byte)
      /\ bn <= Len(raw) /\ Len(raw) \in Nat
      /\ \A i \in 1 .. bn : raw[i] = b[i]
      /\ P[k].f = 0 /\ g < bn /\ P[k].p = 0
  <2>1. P[k].f = 0 /\ P[k].p = 0
    OBVIOUS
  <2> QED BY <2>1 DEF Story
<1>1. E \in Seq(Byte) /\ Len(E) = 5 /\ Frame(em, 1) = E
  <2>1. 0 \in 0 .. MaxEvents - 1
    BY Constants
  <2>2. <<0>> \in Seq(Byte) /\ Len(<<0>>) = 1 /\ Len(<<0>>) <= Capacity
    BY <2>1, OneByte
  <2>3. E \in Seq(Byte) /\ Len(E) = 4 + 1
    BY <2>2, EncodeShape
  <2>4. em[1].payload = <<0>>
    BY DEF Story
  <2> QED BY <2>3, <2>4 DEF Frame
<1>2. \A i \in 1 .. bn + 5 : s[i] = IF i <= bn THEN b[i] ELSE E[i - bn]
  BY DEF Opening
<1>3. \A y \in 0 .. n :
         /\ P[y].r \in Nat /\ P[y].f \in Nat /\ P[y].p \in Nat
         /\ y < n => RawByte(raw, bn, P[y], S[y + 1], P[y + 1])
                       \/ FrameByte(em, bn, P[y], S[y + 1], P[y + 1])
         /\ P[y].f < Len(em) => y < n
  BY PathAt
<1> HIDE DEF n, bn, E
<1>4. Good(0)
  BY <1>0
<1>5. ASSUME NEW j \in 0 .. 3, Good(j) PROVE Good(j + 1)
  <2> DEFINE a == P[k + j]
             c == P[k + j + 1]
             x == S[k + j + 1]
             G == g + j
  <2>1. /\ k + j \in 0 .. n /\ a.f = 0 /\ a.r <= bn
        /\ (a.p # 0 => a.r = bn) /\ a.r + a.p = G
    BY <1>5
  <2>2. a.r \in Nat /\ a.p \in Nat /\ k + j < n
    BY <1>0, <1>3, <2>1
  <2>3. RawByte(raw, bn, a, x, c) \/ FrameByte(em, bn, a, x, c)
    BY <1>3, <2>1, <2>2
  <2>4. k + j + 1 \in 0 .. n /\ G \in Nat /\ G <= bn + 2
    <3>1. g \in Nat /\ bn \in Nat /\ g < bn /\ n \in Nat /\ k \in 0 .. n
      BY <1>0
    <3> QED BY SMTT(30), <2>2, <3>1
  <2>5. k + (j + 1) = k + j + 1 /\ g + (j + 1) = G + 1
    BY <1>0
  <2> HIDE DEF a, c, x, G
  <2>6. CASE RawByte(raw, bn, a, x, c)
    <3>1. /\ a.p = 0 /\ a.r < bn /\ x = raw[a.r + 1]
          /\ c = [r |-> a.r + 1, f |-> 0, p |-> 0]
      BY <2>1, <2>6 DEF RawByte
    <3>2. /\ a.r = G /\ G + 1 \in 1 .. bn /\ G + 1 \in 1 .. bn + 5
          /\ G + 1 <= bn
      BY <1>0, <2>1, <2>2, <3>1
    <3>3. x = s[G + 1]
      BY <1>0, <1>2, <3>1, <3>2
    <3>4. c.r = G + 1 /\ c.f = 0 /\ c.p = 0 /\ c.r + c.p = G + 1
      BY <2>4, <3>1, <3>2
    <3> QED BY <2>4, <2>5, <3>2, <3>3, <3>4 DEF c, x
  <2>7. CASE FrameByte(em, bn, a, x, c)
    <3>1. /\ a.r = bn /\ x = E[a.p + 1]
          /\ c = IF a.p + 1 = 5 THEN [r |-> a.r, f |-> 0 + 1, p |-> 0]
                               ELSE [r |-> a.r, f |-> 0, p |-> a.p + 1]
      <4>1. Frame(em, 0 + 1) = E
        BY <1>1
      <4> QED BY <1>1, <2>1, <2>7, <4>1 DEF FrameByte
    <3>2. /\ a.p + 1 # 5 /\ G + 1 = bn + (a.p + 1) /\ ~(G + 1 <= bn)
          /\ G + 1 \in 1 .. bn + 5 /\ (G + 1) - bn = a.p + 1
      <4> DEFINE p == a.p
      <4>1. /\ bn \in Nat /\ p \in Nat /\ bn + p = G /\ G \in Nat
            /\ G <= bn + 2
        BY <1>0, <2>1, <2>2, <2>4, <3>1
      <4> HIDE DEF p
      <4>2. p <= 2
        BY <4>1
      <4>3. /\ p + 1 # 5 /\ G + 1 = bn + (p + 1) /\ ~(G + 1 <= bn)
            /\ G + 1 \in 1 .. bn + 5 /\ (G + 1) - bn = p + 1
        BY <4>1, <4>2
      <4> QED BY <4>3 DEF p
    <3>3. x = s[G + 1]
      BY <1>2, <3>1, <3>2
    <3>4. /\ c.r = bn /\ c.f = 0 /\ c.r + c.p = G + 1 /\ c.r <= bn
      BY <1>0, <3>1, <3>2
    <3> QED BY <2>4, <2>5, <3>3, <3>4 DEF c, x
  <2> QED BY <2>3, <2>6, <2>7
<1>6. Good(1) /\ Good(2) /\ Good(3) /\ Good(4)
  <2> HIDE DEF Good
  <2>1. Good(0 + 1)
    BY <1>4, <1>5
  <2>2. Good(1 + 1)
    BY <1>5, <2>1
  <2>3. Good(2 + 1)
    BY <1>5, <2>2
  <2>4. Good(3 + 1)
    BY <1>5, <2>3
  <2> QED BY <2>1, <2>2, <2>3, <2>4
<1>7. k + 4 <= n
  BY <1>0, <1>6
<1> QED
  BY <1>6, <1>7 DEF n, NextFour

(* A raw byte that opens a magic is in the banner, and the magic announces *)
(* no frame.                                                               *)
LEMMA RawMagic ==
    ASSUME NEW raw, NEW em, NEW b, Story(raw, em, b), NEW S \in Seq(Byte),
           NEW P, Path(raw, em, Len(b), S, P),
           NEW k \in 0 .. Len(S), k < Len(S),
           RawByte(raw, Len(b), P[k], S[k + 1], P[k + 1]),
           S[k + 1] = M1
    PROVE  /\ k + 4 <= Len(S)
           /\ S[k + 2] = M2 => S[k + 3] + Base * S[k + 4] > MaxFrameLen
<1> DEFINE g == P[k].r
           s == b \o Encode(<<0>>)
<1>0. /\ g \in Nat /\ Len(b) \in Nat /\ Len(raw) \in Nat /\ b \in Banners
      /\ \A i \in Len(b) + 1 .. Len(raw) : raw[i] \notin {M1, M2}
  BY PathAt DEF Story
<1>1. /\ P[k].p = 0 /\ g < Len(raw) /\ (P[k].f = 0 <=> g < Len(b))
      /\ raw[g + 1] = M1
  BY DEF RawByte
<1>2. g < Len(b)
  <2> SUFFICES ASSUME ~(g < Len(b)) PROVE FALSE
    OBVIOUS
  <2>1. g + 1 \in Len(b) + 1 .. Len(raw)
    BY <1>0, <1>1
  <2> QED BY <1>0, <1>1, <2>1
<1>3. /\ k + 4 <= Len(S)
      /\ S[k + 1] = s[g + 1] /\ S[k + 2] = s[g + 2]
      /\ S[k + 3] = s[g + 3] /\ S[k + 4] = s[g + 4]
  <2>1. P[k] = [r |-> g, f |-> 0, p |-> 0]
    <3>1. P[k] = [r |-> g, f |-> P[k].f, p |-> P[k].p]
      BY PathAt
    <3> QED BY <1>1, <1>2, <3>1
  <2> DEFINE E == Encode(<<0>>)
  <2>2. Opening(b, s)
    <3>1. 0 \in 0 .. MaxEvents - 1
      BY Constants
    <3>2. <<0>> \in Seq(Byte) /\ Len(<<0>>) = 1 /\ Len(<<0>>) <= Capacity
      BY <3>1, OneByte
    <3>3. E \in Seq(Byte) /\ Len(E) = 4 + 1
      BY <3>2, EncodeShape
    <3>4. b \in Seq(Byte)
      BY DEF Story
    <3>5. \A i \in 1 .. Len(b) + Len(E) :
             s[i] = IF i <= Len(b) THEN b[i] ELSE E[i - Len(b)]
      BY <3>3, <3>4, ConcatSeq
    <3> HIDE DEF s, E
    <3> QED BY SMTT(30), <3>3, <3>5 DEF Opening, E
  <2> HIDE DEF s, g
  <2>3. g \in Nat /\ g < Len(b)
    BY <1>0, <1>2
  <2>4. k + 4 <= Len(S) /\ NextFour(S, k, s, g)
    BY <2>1, <2>2, <2>3, BannerRun
  <2> QED BY <2>4 DEF NextFour
<1> HIDE DEF g, s
<1> DEFINE i == g + 1
<1>5. /\ i \in 1 .. Len(b) /\ i + 1 = g + 2 /\ i + 2 = g + 3 /\ i + 3 = g + 4
  BY <1>0, <1>2
<1> HIDE DEF i
<1>6. \A x \in 1 .. Len(b) : s[x] = M1 /\ s[x + 1] = M2
                    => s[x + 2] + Base * s[x + 3] > MaxFrameLen
  BY <1>0, BannerAssumption DEF s
<1>7. S[k + 2] = M2 => s[i] = M1 /\ s[i + 1] = M2
  BY <1>3, <1>5 DEF i
<1>8. S[k + 2] = M2 => s[i + 2] + Base * s[i + 3] > MaxFrameLen
  BY <1>5, <1>6, <1>7
<1> QED
  BY <1>3, <1>5, <1>8

-----------------------------------------------------------------------------
(* The host's side.  What the decoder has put aside is what lies before    *)
(* the first spot of the path: whole frames and raw bytes.                 *)

Grows(ns, S, d, ms) ==
    /\ ms \in Seq(Byte) /\ Len(ms) = Len(ns) + d
    /\ \A i \in 1 .. Len(ns) : ms[i] = ns[i]
    /\ \A i \in 1 .. d : ms[Len(ns) + i] = S[i]

NoiseIs(raw, ns, r) ==
    ns \in Seq(Byte) /\ Len(ns) = r /\ \A i \in 1 .. r : ns[i] = raw[i]

FramesAre(em, fr, f) ==
    /\ fr \in Seq(Seq(Byte)) /\ Len(fr) = f
    /\ \A i \in 1 .. f : fr[i] = em[i].payload

Decoded(raw, em, b, S, P, ns, fr) ==
    /\ Story(raw, em, b) /\ S \in Seq(Byte) /\ Path(raw, em, Len(b), S, P)
    /\ P[0].p = 0
    /\ NoiseIs(raw, ns, P[0].r) /\ FramesAre(em, fr, P[0].f)

LEMMA NoiseGrows ==
    ASSUME NEW raw, NEW ns, NEW r \in Nat, NoiseIs(raw, ns, r),
           NEW S, NEW d \in Nat, NEW ms, Grows(ns, S, d, ms),
           \A i \in 1 .. d : S[i] = raw[r + i]
    PROVE  NoiseIs(raw, ms, r + d)
<1>1. /\ ms \in Seq(Byte) /\ Len(ms) = r + d
      /\ \A i \in 1 .. r : ms[i] = raw[i]
      /\ \A i \in 1 .. d : ms[r + i] = raw[r + i]
  BY DEF NoiseIs, Grows
<1>2. ASSUME NEW i \in 1 .. r + d PROVE ms[i] = raw[i]
  <2>1. CASE i <= r
    BY <1>1, <2>1
  <2>2. CASE i > r
    <3>1. i - r \in 1 .. d /\ r + (i - r) = i
      BY <2>2
    <3> QED BY <1>1, <3>1
  <2> QED BY <2>1, <2>2
<1> QED
  BY <1>1, <1>2 DEF NoiseIs

(* Bytes before the first magic are raw.                                   *)
LEMMA DropRaw ==
    ASSUME NEW raw, NEW em, NEW b, NEW S, NEW P, NEW ns, NEW fr,
           Decoded(raw, em, b, S, P, ns, fr), NEW d \in 0 .. Len(S),
           \A x \in 1 .. d : ~(S[x] = M1 /\ x < Len(S) /\ S[x + 1] = M2),
           NEW T, Drops(S, d, T), NEW ms, Grows(ns, S, d, ms)
    PROVE  \E Q : Decoded(raw, em, b, T, Q, ms, fr)
<1> DEFINE r == P[0].r
           f == P[0].f
<1>0. /\ Story(raw, em, b) /\ S \in Seq(Byte) /\ Path(raw, em, Len(b), S, P)
      /\ P[0].p = 0 /\ NoiseIs(raw, ns, r) /\ FramesAre(em, fr, f)
      /\ T \in Seq(Byte)
  BY DEF Decoded, Drops
<1>1. \A k \in 0 .. d : /\ P[k] = [r |-> P[0].r + k, f |-> P[0].f, p |-> 0]
                        /\ k >= 1 => S[k] = raw[P[0].r + k]
  BY <1>0, RawRun
<1>2. r \in Nat /\ f \in Nat /\ d \in Nat
  <2>1. 0 \in 0 .. Len(S) /\ d \in Nat
    BY <1>0
  <2> QED BY <1>0, <2>1, PathAt
<1>3. PICK Q : Path(raw, em, Len(b), T, Q) /\ Q[0] = P[d]
  BY <1>0, PathDrop
<1> HIDE DEF r, f
<1>4. P[d] = [r |-> r + d, f |-> f, p |-> 0]
  BY <1>1, <1>2 DEF r, f
<1>5. ASSUME NEW i \in 1 .. d PROVE S[i] = raw[r + i]
  <2>1. i \in 0 .. d /\ i >= 1
    BY <1>2
  <2> QED BY <1>1, <2>1 DEF r
<1>6. NoiseIs(raw, ms, r + d)
  BY <1>0, <1>2, <1>5, NoiseGrows
<1>7. Q[0].r = r + d /\ Q[0].f = f /\ Q[0].p = 0
  BY <1>3, <1>4
<1> QED
  BY <1>0, <1>3, <1>6, <1>7 DEF Decoded

(* At the first spot: a raw byte, or a frame.                              *)
RawSpot(raw, S, P, r, f) ==
    /\ Len(S) >= 4
    /\ S[2] = M2 => S[3] + Base * S[4] > MaxFrameLen
    /\ S[1] = raw[r + 1]
    /\ P[1] = [r |-> r + 1, f |-> f, p |-> 0]

FrameSpot(S, P, r, f, p) ==
    /\ p \in Seq(Byte) /\ Len(p) \in Nat /\ Len(p) <= MaxFrameLen
    /\ Len(S) >= 4 + Len(p) /\ S[2] = M2
    /\ S[3] + Base * S[4] = Len(p)
    /\ \A k \in 1 .. Len(p) : S[4 + k] = p[k]
    /\ P[4 + Len(p)] = [r |-> r, f |-> f + 1, p |-> 0]

LEMMA AtSpot ==
    ASSUME NEW raw, NEW em, NEW b, NEW S, NEW P, NEW ns, NEW fr,
           Decoded(raw, em, b, S, P, ns, fr), Len(S) > 0, S[1] = M1
    PROVE  /\ P[0].r \in Nat /\ P[0].f \in Nat
           /\ \/ RawSpot(raw, S, P, P[0].r, P[0].f)
              \/ FrameSpot(S, P, P[0].r, P[0].f, em[P[0].f + 1].payload)
<1> DEFINE r == P[0].r
           f == P[0].f
<1>0. /\ Story(raw, em, b) /\ S \in Seq(Byte) /\ Path(raw, em, Len(b), S, P)
      /\ P[0].p = 0 /\ Len(S) \in Nat
  BY DEF Decoded
<1>1. 0 \in 0 .. Len(S) /\ 0 < Len(S) /\ 0 + 1 = 1 /\ 0 + 2 = 2
  BY <1>0
<1>2. /\ r \in Nat /\ f \in Nat
      /\ RawByte(raw, Len(b), P[0], S[0 + 1], P[0 + 1])
            \/ FrameByte(em, Len(b), P[0], S[0 + 1], P[0 + 1])
  BY <1>0, <1>1, PathAt
<1>3. CASE RawByte(raw, Len(b), P[0], S[0 + 1], P[0 + 1])
  <2>1. /\ 0 + 4 <= Len(S)
        /\ S[0 + 2] = M2 => S[0 + 3] + Base * S[0 + 4] > MaxFrameLen
    BY <1>0, <1>1, <1>3, RawMagic
  <2>2. S[1] = raw[r + 1] /\ P[1] = [r |-> r + 1, f |-> f, p |-> 0]
    BY <1>3 DEF RawByte
  <2>3. /\ Len(S) >= 4
        /\ S[2] = M2 => S[3] + Base * S[4] > MaxFrameLen
    BY <1>0, <2>1
  <2> QED BY <1>2, <2>2, <2>3 DEF RawSpot
<1>4. CASE FrameByte(em, Len(b), P[0], S[0 + 1], P[0 + 1])
  <2> DEFINE p == em[f + 1].payload
             E == Frame(em, f + 1)
             L == Len(E)
  <2>1. f < Len(em) /\ Len(em) \in Nat
    BY <1>0, <1>4 DEF FrameByte, Story
  <2>2. f + 1 \in 1 .. Len(em)
    BY <1>2, <2>1
  <2>3. /\ p \in Seq(Byte) /\ Len(p) \in Nat /\ Len(p) <= MaxFrameLen
        /\ L = 4 + Len(p)
        /\ E[1] = M1 /\ E[2] = M2 /\ E[3] + Base * E[4] = Len(p)
        /\ \A k \in 1 .. Len(p) : E[4 + k] = p[k]
    <3> DEFINE h == f + 1
    <3>1. h \in 1 .. Len(em)
      BY <2>2
    <3> HIDE DEF h
    <3>2. /\ em[h].payload \in Seq(Byte) /\ Len(em[h].payload) \in Nat
          /\ Len(em[h].payload) <= MaxFrameLen
          /\ Len(Frame(em, h)) = 4 + Len(em[h].payload)
          /\ Frame(em, h)[1] = M1 /\ Frame(em, h)[2] = M2
          /\ Frame(em, h)[3] + Base * Frame(em, h)[4] = Len(em[h].payload)
      BY <1>0, <3>1, FrameOf
    <3>3. \A k \in 1 .. Len(em[h].payload) :
             Frame(em, h)[4 + k] = em[h].payload[k]
      BY <1>0, <3>1, FrameOf
    <3> QED BY <3>2, <3>3 DEF h
  <2>4. /\ 0 + L <= Len(S)
        /\ \A j \in 1 .. L : S[0 + j] = E[j]
        /\ P[0 + L] = [r |-> r, f |-> f + 1, p |-> 0]
    BY <1>0, <1>1, <1>4, FrameRun
  <2> HIDE DEF p, E, L
  <2>5. L \in Nat /\ L >= 4 /\ L <= Len(S) /\ 0 + L = L
    BY <1>0, <2>3, <2>4
  <2>6. \A j \in 1 .. L : S[j] = E[j]
    BY <2>4, <2>5
  <2>7. S[2] = M2 /\ S[3] + Base * S[4] = Len(p)
    BY SMTT(30), <2>3, <2>5, <2>6
  <2>8. \A k \in 1 .. Len(p) : S[4 + k] = p[k]
    BY <2>3, <2>5, <2>6
  <2>9. P[4 + Len(p)] = [r |-> r, f |-> f + 1, p |-> 0]
    BY <2>3, <2>4, <2>5
  <2>10. Len(S) >= 4 + Len(p)
    BY <2>3, <2>5
  <2>11. FrameSpot(S, P, r, f, p)
    BY <2>3, <2>7, <2>8, <2>9, <2>10 DEF FrameSpot
  <2> QED BY <1>2, <2>11 DEF p
<1> QED
  BY <1>2, <1>3, <1>4

(* A magic with an absurd length is raw: one byte is skipped.              *)
LEMMA DropOne ==
    ASSUME NEW raw, NEW em, NEW b, NEW S, NEW P, NEW ns, NEW fr,
           Decoded(raw, em, b, S, P, ns, fr), Len(S) >= 4,
           S[1] = M1, S[2] = M2, S[3] + Base * S[4] > MaxFrameLen,
           NEW T, Drops(S, 1, T), NEW ms, Grows(ns, S, 1, ms)
    PROVE  \E Q : Decoded(raw, em, b, T, Q, ms, fr)
<1> DEFINE r == P[0].r
           f == P[0].f
<1>0. /\ Story(raw, em, b) /\ S \in Seq(Byte) /\ Path(raw, em, Len(b), S, P)
      /\ P[0].p = 0 /\ NoiseIs(raw, ns, r) /\ FramesAre(em, fr, f)
      /\ T \in Seq(Byte) /\ Len(S) \in Nat
  BY DEF Decoded, Drops
<1>1. 1 \in 0 .. Len(S) /\ Len(S) > 0
  BY <1>0
<1>2. /\ r \in Nat /\ f \in Nat /\ S[1] = raw[r + 1]
      /\ P[1] = [r |-> r + 1, f |-> f, p |-> 0]
  <2> DEFINE p == em[P[0].f + 1].payload
             x == S[3] + Base * S[4]
  <2>1. /\ r \in Nat /\ f \in Nat
        /\ \/ S[1] = raw[r + 1] /\ P[1] = [r |-> r + 1, f |-> f, p |-> 0]
           \/ Len(p) \in Nat /\ Len(p) <= MaxFrameLen /\ x = Len(p)
    <3>1. /\ P[0].r \in Nat /\ P[0].f \in Nat
          /\ \/ RawSpot(raw, S, P, P[0].r, P[0].f)
             \/ FrameSpot(S, P, P[0].r, P[0].f, em[P[0].f + 1].payload)
      BY <1>1, AtSpot
    <3> QED BY <3>1 DEF RawSpot, FrameSpot
  <2>2. x > MaxFrameLen /\ MaxFrameLen \in Nat
    BY Constants
  <2> HIDE DEF p, x
  <2>3. ~(Len(p) \in Nat /\ Len(p) <= MaxFrameLen /\ x = Len(p))
    BY <2>2
  <2> QED BY <2>1, <2>3
<1>3. PICK Q : Path(raw, em, Len(b), T, Q) /\ Q[0] = P[1]
  BY <1>0, <1>1, PathDrop
<1> HIDE DEF r, f
<1>4. NoiseIs(raw, ms, r + 1)
  <2>1. \A i \in 1 .. 1 : S[i] = raw[r + i]
    BY <1>2
  <2> QED BY <1>0, <1>2, <2>1, NoiseGrows
<1>5. Q[0].r = r + 1 /\ Q[0].f = f /\ Q[0].p = 0
  BY <1>2, <1>3
<1> QED
  BY <1>0, <1>3, <1>4, <1>5 DEF Decoded

(* A magic with a plausible length is a frame, and exactly that frame.     *)
LEMMA TakeOne ==
    ASSUME NEW raw, NEW em, NEW b, NEW S, NEW P, NEW ns, NEW fr,
           Decoded(raw, em, b, S, P, ns, fr), Len(S) >= 4,
           S[1] = M1, S[2] = M2,
           NEW n \in Nat, S[3] + Base * S[4] = n, n <= MaxFrameLen,
           4 + n <= Len(S),
           NEW T, Drops(S, 4 + n, T),
           NEW q \in Seq(Byte), Len(q) = n,
           \A k \in 1 .. n : q[k] = S[4 + k]
    PROVE  \E Q : Decoded(raw, em, b, T, Q, ns, Append(fr, q))
<1> DEFINE r == P[0].r
           f == P[0].f
           p == em[f + 1].payload
           x == S[3] + Base * S[4]
<1>0. /\ Story(raw, em, b) /\ S \in Seq(Byte) /\ Path(raw, em, Len(b), S, P)
      /\ P[0].p = 0 /\ NoiseIs(raw, ns, r) /\ FramesAre(em, fr, f)
      /\ T \in Seq(Byte) /\ Len(S) \in Nat
  BY DEF Decoded, Drops
<1>1. 4 + n \in 0 .. Len(S) /\ Len(S) > 0
  BY <1>0
<1>2. /\ r \in Nat /\ f \in Nat
      /\ \/ x > MaxFrameLen
         \/ /\ p \in Seq(Byte) /\ x = Len(p)
            /\ \A k \in 1 .. Len(p) : S[4 + k] = p[k]
            /\ P[4 + Len(p)] = [r |-> r, f |-> f + 1, p |-> 0]
  <2>1. /\ P[0].r \in Nat /\ P[0].f \in Nat
        /\ \/ RawSpot(raw, S, P, P[0].r, P[0].f)
           \/ FrameSpot(S, P, P[0].r, P[0].f, em[P[0].f + 1].payload)
    BY <1>1, AtSpot
  <2> QED BY <2>1 DEF RawSpot, FrameSpot
<1>3. ~(x > MaxFrameLen) /\ x = n
  BY Constants
<1>4. PICK Q : Path(raw, em, Len(b), T, Q) /\ Q[0] = P[4 + n]
  <2> DEFINE d == 4 + n
             bn == Len(b)
  <2>1. /\ S \in Seq(Byte) /\ Path(raw, em, bn, S, P)
        /\ d \in 0 .. Len(S) /\ Drops(S, d, T)
    BY <1>0, <1>1
  <2> HIDE DEF d, bn
  <2>2. \E Q : Path(raw, em, bn, T, Q) /\ Q[0] = P[d]
    BY ONLY <2>1, PathDrop
  <2> QED BY <2>2 DEF d, bn
<1> HIDE DEF r, f, p, x
<1>5. /\ p \in Seq(Byte) /\ Len(p) = n
      /\ \A k \in 1 .. n : S[4 + k] = p[k]
      /\ P[4 + n] = [r |-> r, f |-> f + 1, p |-> 0]
  BY <1>2, <1>3
<1>6. q = p
  <2>1. \A k \in 1 .. n : q[k] = p[k]
    BY <1>5
  <2>2. q \in [1 .. n -> Byte] /\ p \in [1 .. n -> Byte]
    BY <1>5, LenProperties
  <2> QED BY <2>1, <2>2
<1>7. FramesAre(em, Append(fr, q), f + 1)
  <2>1. /\ fr \in Seq(Seq(Byte)) /\ Len(fr) = f
        /\ \A i \in 1 .. f : fr[i] = em[i].payload
    BY <1>0 DEF FramesAre
  <2>2. /\ Append(fr, q) \in Seq(Seq(Byte)) /\ Len(Append(fr, q)) = f + 1
        /\ Append(fr, q)[f + 1] = q
        /\ \A i \in 1 .. f : Append(fr, q)[i] = fr[i]
    BY <2>1, AppendProperties
  <2>3. \A i \in 1 .. f + 1 : i \in 1 .. f \/ i = f + 1
    BY <1>2
  <2>4. Append(fr, q)[f + 1] = em[f + 1].payload
    BY <1>6, <2>2 DEF p
  <2> QED BY <2>1, <2>2, <2>3, <2>4 DEF FramesAre
<1>8. Q[0].r = r /\ Q[0].f = f + 1 /\ Q[0].p = 0
  BY <1>4, <1>5
<1> QED
  BY <1>0, <1>4, <1>7, <1>8 DEF Decoded

(* What a waiting decoder holds back is the beginning of a frame.          *)
Pending(B) ==
    /\ Len(B) > 0 /\ B[1] = M1 /\ (Len(B) > 1 => B[2] = M2)
    /\ Len(B) >= 4 => /\ LengthOf(B) <= MaxFrameLen
                      /\ Len(B) < 4 + LengthOf(B)

LEMMA NothingPending ==
    ASSUME NEW raw, NEW em, NEW b, NEW S, NEW P, NEW ns, NEW fr,
           Decoded(raw, em, b, S, P, ns, fr)
    PROVE  ~Pending(S)
<1> SUFFICES ASSUME Pending(S) PROVE FALSE
  OBVIOUS
<1> DEFINE p == em[P[0].f + 1].payload
           x == S[3] + Base * S[4]
           n == Len(S)
           l == Len(p)
<1>0. n \in Nat /\ MaxFrameLen \in Nat
  BY Constants DEF Decoded
<1>1. /\ n > 0 /\ S[1] = M1 /\ (n > 1 => S[2] = M2)
      /\ n >= 4 => x <= MaxFrameLen /\ n < 4 + x
  BY DEF Pending, LengthOf
<1>2. \/ n >= 4 /\ (S[2] = M2 => x > MaxFrameLen)
      \/ l \in Nat /\ n >= 4 + l /\ x = l
  <2>1. /\ P[0].r \in Nat /\ P[0].f \in Nat
        /\ \/ RawSpot(raw, S, P, P[0].r, P[0].f)
           \/ FrameSpot(S, P, P[0].r, P[0].f, em[P[0].f + 1].payload)
    BY <1>1, AtSpot
  <2> QED BY <2>1 DEF RawSpot, FrameSpot
<1>3. x \in Nat \/ ~(n >= 4)
  <2> SUFFICES ASSUME n >= 4 PROVE x \in Nat
    OBVIOUS
  <2>1. S \in Seq(Byte) /\ 3 \in 1 .. Len(S) /\ 4 \in 1 .. Len(S)
    BY <1>0 DEF Decoded
  <2>2. S[3] \in Byte /\ S[4] \in Byte
    BY <2>1, ElementOfSeq
  <2>3. S[3] \in Nat /\ S[4] \in Nat /\ Base \in Nat
    BY <2>2, Constants DEF Byte
  <2> QED BY <2>3
<1> HIDE DEF p, x, n, l
<1> QED
  BY <1>0, <1>1, <1>2, <1>3

(* The stream grows at its end.                                            *)
LEMMA SendFrame ==
    ASSUME NEW raw, NEW em, NEW b, NEW S, NEW P, NEW ns, NEW fr,
           Decoded(raw, em, b, S, P, ns, fr),
           NEW e \in SentFrame, Len(e.payload) <= Capacity,
           NEW T, T = S \o Encode(e.payload), NEW en, en = Append(em, e)
    PROVE  \E Q : Decoded(raw, en, b, T, Q, ns, fr)
<1> DEFINE r == P[0].r
           f == P[0].f
<1>0. /\ Story(raw, em, b) /\ S \in Seq(Byte) /\ Path(raw, em, Len(b), S, P)
      /\ P[0].p = 0 /\ NoiseIs(raw, ns, r) /\ FramesAre(em, fr, f)
      /\ em \in Seq(SentFrame)
  BY DEF Decoded, Story
<1>1. f \in 0 .. Len(em)
  <2>1. 0 \in 0 .. Len(S)
    BY <1>0
  <2>2. P[0] \in Spot(raw, em)
    BY <1>0, <2>1, PathAt
  <2> QED BY <2>2 DEF Spot
<1>2. /\ Story(raw, en, b)
      /\ \E Q : Q[0] = P[0] /\ Path(raw, en, Len(b), T, Q)
  BY <1>0, PathFrame
<1>3. PICK Q : Q[0] = P[0] /\ Path(raw, en, Len(b), T, Q)
  BY <1>2
<1>4. T \in Seq(Byte)
  <2>1. e.payload \in Seq(Byte)
    BY DEF SentFrame
  <2>2. Encode(e.payload) \in Seq(Byte)
    BY <2>1, EncodeShape
  <2> QED BY <1>0, <2>2, ConcatSeq
<1> HIDE DEF r, f
<1>5. FramesAre(en, fr, f)
  <2>1. \A i \in 1 .. f : i \in 1 .. Len(em)
    BY <1>0, <1>1
  <2>2. \A i \in 1 .. Len(em) : en[i] = em[i]
    BY <1>0
  <2> QED BY <1>0, <2>1, <2>2 DEF FramesAre
<1> QED
  BY <1>0, <1>2, <1>3, <1>4, <1>5 DEF Decoded, r, f

LEMMA SendLine ==
    ASSUME NEW raw, NEW em, NEW b, NEW S, NEW P, NEW ns, NEW fr,
           Decoded(raw, em, b, S, P, ns, fr),
           NEW T, T = S \o Line, NEW rn, rn = raw \o Line
    PROVE  \E Q : Decoded(rn, em, b, T, Q, ns, fr)
<1> DEFINE r == P[0].r
           f == P[0].f
<1>0. /\ Story(raw, em, b) /\ S \in Seq(Byte) /\ Path(raw, em, Len(b), S, P)
      /\ P[0].p = 0 /\ NoiseIs(raw, ns, r) /\ FramesAre(em, fr, f)
      /\ raw \in Seq(Byte) /\ Len(raw) \in Nat
  BY DEF Decoded, Story
<1>1. r \in 0 .. Len(raw)
  <2>1. 0 \in 0 .. Len(S)
    BY <1>0
  <2>2. P[0] \in Spot(raw, em)
    BY <1>0, <2>1, PathAt
  <2> QED BY <2>2 DEF Spot
<1>2. /\ Story(rn, em, b)
      /\ \E Q : Q[0] = P[0] /\ Path(rn, em, Len(b), T, Q)
  BY <1>0, PathLine
<1>3. PICK Q : Q[0] = P[0] /\ Path(rn, em, Len(b), T, Q)
  BY <1>2
<1>4. /\ T \in Seq(Byte)
      /\ \A i \in 1 .. Len(raw) + Len(Line) :
            rn[i] = IF i <= Len(raw) THEN raw[i] ELSE Line[i - Len(raw)]
      /\ Len(Line) \in Nat
  BY <1>0, ConcatSeq, Constants
<1> HIDE DEF r, f
<1>5. NoiseIs(rn, ns, r)
  <2>1. \A i \in 1 .. r : i \in 1 .. Len(raw) + Len(Line) /\ i <= Len(raw)
    BY <1>0, <1>1, <1>4
  <2>2. \A i \in 1 .. r : rn[i] = raw[i]
    BY <1>4, <2>1
  <2> QED BY <1>0, <2>2 DEF NoiseIs
<1> QED
  BY <1>0, <1>2, <1>3, <1>4, <1>5 DEF Decoded, r, f

(* The stream is the decoder's buffer, the line and the rest of the        *)
(* emission: a byte that moves from one to the next does not change it.    *)
LEMMA Joins ==
    ASSUME NEW B \in Seq(Byte), NEW W \in Seq(Byte), NEW E \in Seq(Byte)
    PROVE  /\ B \o ((W \o E) \o <<>>) = (B \o (W \o <<>>)) \o E
           /\ B \o (W \o E) = (B \o (W \o <<>>)) \o E
<1>1. W \o <<>> = W /\ W \o E \in Seq(Byte)
  BY ConcatEmptySeq, ConcatSeq
<1>2. (W \o E) \o <<>> = W \o E
  BY <1>1, ConcatEmptySeq
<1>3. (B \o W) \o E = B \o (W \o E)
  BY ConcatAssociative
<1> QED
  BY <1>1, <1>2, <1>3

Moved(W, O, V, U) ==
    /\ V \in Seq(Byte) /\ Len(V) = Len(W) + 1 /\ V[Len(W) + 1] = O[1]
    /\ \A i \in 1 .. Len(W) : V[i] = W[i]
    /\ U \in Seq(Byte) /\ Len(U) = Len(O) - 1
    /\ \A i \in 1 .. Len(O) - 1 : U[i] = O[i + 1]

LEMMA JoinMoved ==
    ASSUME NEW W \in Seq(Byte), NEW O \in Seq(Byte), Len(O) >= 1,
           NEW V, NEW U, Moved(W, O, V, U)
    PROVE  V \o U = W \o O
<1> DEFINE w == Len(W)
           o == Len(O)
           X == V \o U
           Y == W \o O
<1>1. /\ w \in Nat /\ o \in Nat /\ o >= 1
      /\ U \in Seq(Byte) /\ Len(U) = o - 1
      /\ \A i \in 1 .. o - 1 : U[i] = O[i + 1]
  BY DEF Moved
<1>2. /\ V \in Seq(Byte) /\ Len(V) = w + 1 /\ V[w + 1] = O[1]
      /\ \A i \in 1 .. w : V[i] = W[i]
  BY DEF Moved
<1>3. /\ X \in Seq(Byte) /\ Len(X) = Len(V) + Len(U)
      /\ \A i \in 1 .. Len(V) + Len(U) :
            X[i] = IF i <= Len(V) THEN V[i] ELSE U[i - Len(V)]
  BY <1>1, <1>2, ConcatSeq
<1>4. /\ Y \in Seq(Byte) /\ Len(Y) = w + o
      /\ \A i \in 1 .. w + o : Y[i] = IF i <= w THEN W[i] ELSE O[i - w]
  BY ConcatSeq
<1> HIDE DEF w, o, X, Y
<1>5. Len(X) = w + o /\ Len(V) + Len(U) = w + o
  <2>1. (w + 1) + (o - 1) = w + o
    BY <1>1
  <2> QED BY <1>1, <1>2, <1>3, <2>1
<1>6. ASSUME NEW i \in 1 .. w + o PROVE X[i] = Y[i]
  <2>1. X[i] = IF i <= w + 1 THEN V[i] ELSE U[i - (w + 1)]
    BY <1>2, <1>3, <1>5
  <2>2. CASE i <= w
    <3>1. i \in 1 .. w /\ i <= w + 1
      BY <1>1, <2>2
    <3> QED BY <1>2, <1>4, <2>1, <2>2, <3>1
  <2>3. CASE i = w + 1
    <3>1. ~(i <= w) /\ i <= w + 1 /\ i - w = 1
      BY <1>1, <2>3
    <3> QED BY <1>2, <1>4, <2>1, <2>3, <3>1
  <2>4. CASE i > w + 1
    <3>1. /\ ~(i <= w) /\ ~(i <= w + 1) /\ i - (w + 1) \in 1 .. o - 1
          /\ (i - (w + 1)) + 1 = i - w
      BY <1>1, <2>4
    <3> QED BY <1>1, <1>4, <2>1, <3>1
  <2>5. i <= w \/ i = w + 1 \/ i > w + 1
    BY <1>1
  <2> QED BY <2>2, <2>3, <2>4, <2>5
<1>7. X = Y
  BY <1>3, <1>4, <1>5, <1>6, SeqEqual
<1> QED
  BY <1>7 DEF X, Y

LEMMA JoinPut ==
    ASSUME NEW W \in Seq(Byte), NEW O \in Seq(Byte), O # <<>>
    PROVE  Append(W, Head(O)) \o Tail(O) = W \o O
<1> DEFINE V == Append(W, Head(O))
           U == Tail(O)
<1>1. Len(O) \in Nat /\ Len(O) >= 1
  BY EmptySeq
<1>2. /\ U \in Seq(Byte) /\ Len(U) = Len(O) - 1
      /\ \A i \in 1 .. Len(O) - 1 : U[i] = O[i + 1]
      /\ Head(O) = O[1] /\ O[1] \in Byte
  BY <1>1, HeadTailProperties
<1>3. /\ V \in Seq(Byte) /\ Len(V) = Len(W) + 1 /\ V[Len(W) + 1] = O[1]
      /\ \A i \in 1 .. Len(W) : V[i] = W[i]
  BY <1>2
<1> HIDE DEF V, U
<1>4. V \o U = W \o O
  <2>1. Moved(W, O, V, U)
    BY <1>2, <1>3 DEF Moved
  <2> QED BY <1>1, <2>1, JoinMoved
<1> QED
  BY <1>4 DEF V, U

LEMMA Assoc ==
    ASSUME NEW X \in Seq(Byte), NEW Y \in Seq(Byte), NEW Z \in Seq(Byte)
    PROVE  (X \o Y) \o Z = X \o (Y \o Z)
BY ConcatAssociative

LEMMA JoinRead ==
    ASSUME NEW B \in Seq(Byte), NEW W \in Seq(Byte), NEW O \in Seq(Byte),
           NEW n \in 0 .. Len(W)
    PROVE  (B \o SubSeq(W, 1, n)) \o (SubSeq(W, n + 1, Len(W)) \o O)
              = B \o (W \o O)
<1> DEFINE H == SubSeq(W, 1, n)
           T == SubSeq(W, n + 1, Len(W))
<1>1. H \in Seq(Byte) /\ T \in Seq(Byte)
  BY Cut
<1>2. H \o T = W
  <2>1. /\ 1 \in 1 .. Len(W) + 1 /\ n \in 1 - 1 .. Len(W)
        /\ Len(W) \in n .. Len(W)
    OBVIOUS
  <2>2. SubSeq(W, 1, n) \o SubSeq(W, n + 1, Len(W)) = SubSeq(W, 1, Len(W))
    BY <2>1, ConcatAdjacentSubSeq
  <2>3. SubSeq(W, 1, Len(W)) = W
    BY SubSeqFull
  <2> QED BY <2>2, <2>3
<1> HIDE DEF H, T
<1>3. T \o O \in Seq(Byte)
  BY <1>1, ConcatSeq
<1>4. (B \o H) \o (T \o O) = B \o (H \o (T \o O))
  BY ZenonT(40), <1>1, <1>3, Assoc
<1>5. H \o (T \o O) = (H \o T) \o O
  BY ZenonT(40), <1>1, Assoc
<1>6. (B \o H) \o (T \o O) = B \o (W \o O)
  BY <1>2, <1>4, <1>5
<1> QED
  BY <1>6 DEF H, T

LEMMA CutBuf ==
    ASSUME NEW B \in Seq(Byte), NEW W \in Seq(Byte), NEW d \in 0 .. Len(B),
           NEW C \in Seq(Byte), Drops(B, d, C)
    PROVE  Drops(B \o W, d, C \o W) /\ d \in 0 .. Len(B \o W)
<1> DEFINE X == B \o W
           Y == C \o W
           n == Len(B)
           w == Len(W)
           c == Len(C)
<1>1. /\ n \in Nat /\ w \in Nat /\ c \in Nat /\ c = n - d /\ d \in 0 .. n
      /\ \A k \in 1 .. c : C[k] = B[d + k]
  BY DEF Drops
<1>2. /\ X \in Seq(Byte) /\ Len(X) = n + w
      /\ \A i \in 1 .. n + w : X[i] = IF i <= n THEN B[i] ELSE W[i - n]
  BY ConcatSeq
<1>3. /\ Y \in Seq(Byte) /\ Len(Y) = c + w
      /\ \A i \in 1 .. c + w : Y[i] = IF i <= c THEN C[i] ELSE W[i - c]
  BY ConcatSeq
<1> HIDE DEF X, Y, n, w, c
<1>4. ASSUME NEW k \in 1 .. c + w PROVE Y[k] = X[d + k]
  <2>1. d + k \in 1 .. n + w
    BY <1>1
  <2>2. CASE k <= c
    <3>1. k \in 1 .. c /\ d + k <= n
      BY <1>1, <2>2
    <3> QED BY <1>1, <1>2, <1>3, <2>1, <2>2, <3>1
  <2>3. CASE k > c
    <3>1. ~(k <= c) /\ ~(d + k <= n) /\ (d + k) - n = k - c
      BY <1>1, <2>3
    <3> QED BY <1>2, <1>3, <2>1, <3>1
  <2> QED BY <1>1, <2>2, <2>3
<1>5. c + w = (n + w) - d /\ d \in 0 .. n + w
  BY <1>1
<1>6. Drops(X, d, Y) /\ d \in 0 .. Len(X)
  BY <1>2, <1>3, <1>4, <1>5 DEF Drops
<1> QED
  BY <1>6 DEF X, Y

-----------------------------------------------------------------------------
(* The decoder's invariant: the stream still to be decoded is a path that  *)
(* starts between frames, behind what has been decoded.                    *)
DecodeInv ==
    \E b, P : Decoded(rawSent, emitted, b, buf \o (wire \o out), P, noise,
                      frames)

WaitInv == host = "wait" => buf = <<>> \/ Pending(buf)

LEMMA KernelDecode ==
    ASSUME KernelInv, HostOK, DecodeInv, [Next]_vars,
           UNCHANGED hostVars
    PROVE  DecodeInv'
<1> DEFINE S == buf \o (wire \o out)
           T == buf' \o (wire' \o out')
<1>0. /\ buf \in Seq(Byte) /\ wire \in Seq(Byte) /\ out \in Seq(Byte)
      /\ KernelOK /\ MaskInv /\ buf' = buf /\ noise' = noise
      /\ frames' = frames /\ host' = host
  BY DEF KernelInv, KernelOK, HostOK, hostVars
<1>1. PICK b, P : Decoded(rawSent, emitted, b, S, P, noise, frames)
  BY DEF DecodeInv
<1>2. SUFFICES \E c, Q : Decoded(rawSent', emitted', c, T, Q, noise', frames')
  BY DEF DecodeInv
<1>3. CASE UNCHANGED <<rawSent, emitted, wire, out>>
  BY <1>0, <1>1, <1>3
<1>4. CASE Put
  <2>1. /\ out # <<>> /\ wire' = Append(wire, Head(out)) /\ out' = Tail(out)
        /\ rawSent' = rawSent /\ emitted' = emitted
    BY <1>4 DEF Put
  <2>2. wire' \o out' = wire \o out
    BY <1>0, <2>1, JoinPut
  <2> QED BY <1>0, <1>1, <2>1, <2>2
<1>5. CASE Tick(FALSE)
  <2> DEFINE e == Emitted("event", nextId, <<nextId>>, <<nextId>>)
  <2>1. /\ ~masked /\ nextId < MaxEvents
        /\ wire' = wire \o Encode(<<nextId>>)
        /\ emitted' = Append(emitted, e)
        /\ out' = out /\ rawSent' = rawSent
    BY <1>5 DEF Tick
  <2>2. nextId \in 0 .. MaxEvents - 1 /\ out = <<>>
    BY <1>0, <2>1, Constants DEF KernelOK, MaskInv
  <2>3. <<nextId>> \in Seq(Byte) /\ Len(<<nextId>>) <= Capacity
    BY <2>2, OneByte
  <2>4. e \in SentFrame /\ e.payload = <<nextId>>
    BY <2>2, <2>3 DEF Emitted, SentFrame, Kinds
  <2>5. T = S \o Encode(e.payload)
    <3>1. Encode(<<nextId>>) \in Seq(Byte)
      BY <2>3, EncodeShape
    <3> DEFINE X == Encode(<<nextId>>)
    <3>2. T = buf \o ((wire \o X) \o <<>>) /\ S = buf \o (wire \o <<>>)
      BY <1>0, <2>1, <2>2
    <3> HIDE DEF X, T, S
    <3>3. buf \o ((wire \o X) \o <<>>) = (buf \o (wire \o <<>>)) \o X
      BY <1>0, <3>1, Joins DEF X
    <3>4. T = S \o X
      BY <3>2, <3>3
    <3> QED BY <2>4, <3>4 DEF X
  <2> HIDE DEF e, S, T
  <2>6. \E Q : Decoded(rawSent, emitted', b, T, Q, noise, frames)
    BY ZenonT(40), <1>1, <2>1, <2>3, <2>4, <2>5, SendFrame
  <2> QED BY <1>0, <2>1, <2>6
<1>6. ASSUME NEW p \in Sent, out' = Encode(p), Emit,
             emitted' = Append(emitted, Emitted(ev.kind, ev.id, p, asked))
      PROVE  \E c, Q : Decoded(rawSent', emitted', c, T, Q, noise', frames')
  <2> DEFINE e == Emitted(ev.kind, ev.id, p, asked)
  <2>1. /\ pc = "build" /\ wire' = wire /\ rawSent' = rawSent
        /\ emitted' = Append(emitted, e) /\ out = <<>>
    BY <1>0, <1>6 DEF Emit, MaskInv
  <2>2. p \in Seq(Byte) /\ Len(p) <= Capacity
    BY <1>0, <1>6, SentFits
  <2>3. e \in SentFrame /\ e.payload = p
    BY <1>0, <2>2 DEF Emitted, SentFrame, KernelOK, Event
  <2>4. T = S \o Encode(e.payload)
    <3>1. Encode(p) \in Seq(Byte)
      BY <2>2, EncodeShape
    <3> QED BY <1>0, <1>6, <2>1, <2>3, <3>1, Joins
  <2> HIDE DEF e, S, T
  <2>5. \E Q : Decoded(rawSent, emitted', b, T, Q, noise, frames)
    BY ZenonT(40), <1>1, <2>1, <2>2, <2>3, <2>4, SendFrame
  <2> QED BY <1>0, <2>1, <2>5
<1>7. CASE ClassicLine
  <2>1. /\ out' = Line /\ wire' = wire /\ rawSent' = rawSent \o Line
        /\ emitted' = emitted /\ out = <<>>
    BY <1>0, <1>7 DEF ClassicLine, MaskInv
  <2>2. T = S \o Line
    <3>1. T = buf \o (wire \o Line) /\ S = buf \o (wire \o <<>>)
      BY <1>0, <2>1
    <3>2. Line \in Seq(Byte)
      BY Constants
    <3> HIDE DEF T, S
    <3>3. buf \o (wire \o Line) = (buf \o (wire \o <<>>)) \o Line
      BY <1>0, <3>2, Joins
    <3> QED BY <3>1, <3>3
  <2> HIDE DEF S, T
  <2>3. \E Q : Decoded(rawSent', emitted, b, T, Q, noise, frames)
    BY <1>1, <2>1, <2>2, SendLine
  <2> QED BY <1>0, <2>1, <2>3
<1>8. ASSUME NEW n \in 1 .. Len(wire) PROVE ~Read(n)
  BY <1>0 DEF Read
<1>9. CASE Feed
  BY <1>3, <1>9 DEF Feed, kernelVars
<1> QED
  <2>1. CASE Tick(TRUE)
    BY <1>3, <2>1 DEF Tick
  <2>2. CASE \E a \in BOOLEAN : Tick(a)
    BY <1>5, <2>1, <2>2
  <2>3. CASE Emit
    BY <1>3, <1>6, <2>3 DEF Emit
  <2> QED
    BY <1>3, <1>4, <1>7, <1>8, <1>9, <2>2, <2>3
       DEF Next, Emission, Decoder, Enter, Leave, BeginEvent, BeginFault,
           Write, BlitFault, Done, vars

LEMMA ReadDecode ==
    ASSUME KernelInv, HostOK, DecodeInv, NEW n \in 1 .. Len(wire), Read(n)
    PROVE  DecodeInv' /\ WaitInv'
<1> DEFINE S == buf \o (wire \o out)
           T == buf' \o (wire' \o out')
<1>0. buf \in Seq(Byte) /\ wire \in Seq(Byte) /\ out \in Seq(Byte)
  BY DEF KernelInv, KernelOK, HostOK
<1>1. PICK b, P : Decoded(rawSent, emitted, b, S, P, noise, frames)
  BY DEF DecodeInv
<1>2. /\ buf' = buf \o SubSeq(wire, 1, n)
      /\ wire' = SubSeq(wire, n + 1, Len(wire)) /\ host' = "scan"
      /\ out' = out /\ rawSent' = rawSent /\ emitted' = emitted
      /\ noise' = noise /\ frames' = frames
  BY DEF Read, kernelVars
<1>3. n \in 0 .. Len(wire)
  BY <1>0
<1>4. T = S
  BY <1>0, <1>2, <1>3, JoinRead
<1> HIDE DEF S, T
<1>5. Decoded(rawSent', emitted', b, T, P, noise', frames')
  BY <1>1, <1>2, <1>4
<1>6. DecodeInv'
  BY <1>5 DEF DecodeInv, T
<1> QED
  BY <1>2, <1>6 DEF WaitInv

Starts(S, B) ==
    /\ S \in Seq(Byte) /\ Len(S) \in Nat /\ Len(B) <= Len(S)
    /\ Len(B) \in Nat
    /\ \A i \in 1 .. Len(B) : S[i] = B[i]

LEMMA FrontIs ==
    ASSUME NEW B \in Seq(Byte), NEW W \in Seq(Byte)
    PROVE  Starts(B \o W, B)
<1> DEFINE S == B \o W
<1>1. /\ S \in Seq(Byte) /\ Len(S) = Len(B) + Len(W)
      /\ \A i \in 1 .. Len(B) + Len(W) :
            S[i] = IF i <= Len(B) THEN B[i] ELSE W[i - Len(B)]
  BY ConcatSeq
<1>2. Len(B) \in Nat /\ Len(W) \in Nat
  OBVIOUS
<1> DEFINE n == Len(B)
           w == Len(W)
<1>3. \A i \in 1 .. n : i \in 1 .. n + w /\ i <= n
  <2>1. n \in Nat /\ w \in Nat
    BY <1>2
  <2> HIDE DEF n, w
  <2> QED BY <2>1
<1>4. \A i \in 1 .. n : S[i] = B[i]
  BY <1>1, <1>3
<1> HIDE DEF S
<1>5. Len(B) <= Len(S) /\ Len(S) \in Nat
  BY <1>1, <1>2
<1>6. Starts(S, B)
  BY <1>1, <1>2, <1>4, <1>5 DEF Starts
<1> QED
  BY <1>6 DEF S

(* Cutting the front off the buffer.                                       *)
LEMMA CutIs ==
    ASSUME NEW B \in Seq(Byte), NEW d \in 0 .. Len(B), NEW ns \in Seq(Byte)
    PROVE  /\ Drops(B, d, SubSeq(B, d + 1, Len(B)))
           /\ Grows(ns, B, d, ns \o SubSeq(B, 1, d))
<1> DEFINE C == SubSeq(B, d + 1, Len(B))
           ms == ns \o SubSeq(B, 1, d)
           h == SubSeq(B, 1, d)
           m == Len(ns)
<1>1. /\ h \in Seq(Byte) /\ Len(h) = d /\ \A k \in 1 .. d : h[k] = B[k]
      /\ C \in Seq(Byte) /\ Len(C) = Len(B) - d
      /\ \A k \in 1 .. Len(B) - d : C[k] = B[d + k]
  BY Cut
<1>2. Drops(B, d, C)
  BY <1>1 DEF Drops
<1>3. /\ ms \in Seq(Byte) /\ Len(ms) = m + Len(h)
      /\ \A i \in 1 .. m + Len(h) : ms[i] = IF i <= m THEN ns[i] ELSE h[i - m]
  BY <1>1, ConcatSeq
<1>4. m \in Nat /\ d \in Nat
  OBVIOUS
<1> HIDE DEF h, m, ms, C
<1>5. \A i \in 1 .. m : ms[i] = ns[i]
  <2>1. \A i \in 1 .. m : i \in 1 .. m + d /\ i <= m
    BY <1>4
  <2> QED BY <1>1, <1>3, <2>1
<1>6. ASSUME NEW i \in 1 .. d PROVE ms[m + i] = B[i]
  <2>1. m + i \in 1 .. m + d /\ ~(m + i <= m) /\ (m + i) - m = i
    BY <1>4
  <2> QED BY <1>1, <1>3, <2>1
<1>7. Grows(ns, B, d, ms)
  BY <1>1, <1>3, <1>5, <1>6 DEF Grows, m
<1> QED
  BY <1>2, <1>7 DEF C, ms

LEMMA GrowsFront ==
    ASSUME NEW B \in Seq(Byte), NEW W \in Seq(Byte), NEW d \in 0 .. Len(B),
           NEW ns, NEW ms, Grows(ns, B, d, ms)
    PROVE  Grows(ns, B \o W, d, ms)
<1> DEFINE S == B \o W
<1>0. Starts(S, B)
  BY FrontIs
<1> HIDE DEF S
<1>1. \A i \in 1 .. Len(B) : S[i] = B[i]
  BY <1>0 DEF Starts
<1>2. \A i \in 1 .. d : i \in 1 .. Len(B)
  OBVIOUS
<1>3. \A i \in 1 .. d : S[i] = B[i]
  BY <1>1, <1>2
<1> QED
  BY <1>3 DEF Grows, S

(* find(MAGIC) fails.                                                      *)
LEMMA NoMagicDecode ==
    ASSUME KernelInv, HostOK, DecodeInv, NoMagic, UNCHANGED <<kernelVars, wire>>
    PROVE  DecodeInv' /\ WaitInv'
<1> DEFINE W == wire \o out
           S == buf \o W
           n == Len(buf)
           d == IF buf # <<>> /\ Last(buf) = M1 THEN n - 1 ELSE n
<1>0. /\ buf \in Seq(Byte) /\ noise \in Seq(Byte) /\ W \in Seq(Byte)
      /\ n \in Nat /\ (buf # <<>> => n >= 1)
  BY ConcatSeq, EmptySeq DEF KernelInv, KernelOK, HostOK
<1>1. PICK b, P : Decoded(rawSent, emitted, b, S, P, noise, frames)
  BY DEF DecodeInv
<1>2. /\ rawSent' = rawSent /\ emitted' = emitted /\ frames' = frames
      /\ out' = out /\ wire' = wire /\ MagicAt(buf) = {} /\ host' = "wait"
  BY DEF NoMagic, kernelVars
<1>3. d \in 0 .. n /\ (d = n \/ d = n - 1)
  BY <1>0
<1>4. /\ noise' = noise \o SubSeq(buf, 1, d)
      /\ buf' = SubSeq(buf, d + 1, Len(buf))
  <2>1. Discard(n - (IF buf # <<>> /\ Last(buf) = M1 THEN 1 ELSE 0))
    BY DEF NoMagic
  <2>2. d = n - (IF buf # <<>> /\ Last(buf) = M1 THEN 1 ELSE 0)
    BY <1>0
  <2>3. Discard(d)
    BY <2>1, <2>2
  <2> QED BY <2>3 DEF Discard
<1>5. /\ d = n => buf = <<>> \/ buf[n] # M1
      /\ d = n - 1 => n >= 1 /\ buf[n] = M1
  BY <1>0 DEF Last
<1>6. \A x \in 1 .. n - 1 : ~(buf[x] = M1 /\ buf[x + 1] = M2)
  BY <1>2 DEF MagicAt
<1>7. /\ S \in Seq(Byte) /\ Len(S) \in Nat /\ n <= Len(S)
      /\ \A i \in 1 .. n : S[i] = buf[i]
  <2> HIDE DEF W
  <2>1. Starts(S, buf)
    BY <1>0, FrontIs
  <2> HIDE DEF S
  <2> QED BY <2>1 DEF Starts
<1>8. /\ Drops(buf, d, buf') /\ Grows(noise, buf, d, noise')
      /\ buf' \in Seq(Byte)
  <2> HIDE DEF d
  <2>1. /\ Drops(buf, d, SubSeq(buf, d + 1, Len(buf)))
        /\ Grows(noise, buf, d, noise \o SubSeq(buf, 1, d))
    BY <1>0, <1>3, CutIs
  <2>2. Drops(buf, d, buf') /\ Grows(noise, buf, d, noise')
    BY <1>4, <2>1
  <2> QED BY <2>2 DEF Drops
<1> HIDE DEF d, S, W, n
<1>9. ASSUME NEW x \in 1 .. d
      PROVE  ~(S[x] = M1 /\ x < Len(S) /\ S[x + 1] = M2)
  <2>1. CASE x <= n - 1
    <3>1. x \in 1 .. n - 1 /\ x \in 1 .. n /\ x + 1 \in 1 .. n
      BY <1>0, <2>1
    <3> QED BY <1>6, <1>7, <3>1
  <2>2. CASE x > n - 1
    <3>1. x = n /\ d = n /\ n \in 1 .. n
      BY <1>0, <1>3, <2>2
    <3>2. buf # <<>>
      BY <1>0, <3>1 DEF n
    <3> QED BY <1>5, <1>7, <3>1, <3>2
  <2> QED BY <1>0, <1>3, <2>1, <2>2
<1> DEFINE T == buf' \o W
<1>10. Drops(S, d, T) /\ d \in 0 .. Len(S) /\ Grows(noise, S, d, noise')
  BY <1>0, <1>3, <1>8, CutBuf, GrowsFront DEF n, S
<1> HIDE DEF T
<1>11. \E Q : Decoded(rawSent, emitted, b, T, Q, noise', frames)
  BY <1>1, <1>9, <1>10, DropRaw
<1>12. DecodeInv'
  <2>1. T = buf' \o (wire' \o out')
    BY <1>2 DEF T, W
  <2>2. \E c, Q : Decoded(rawSent', emitted', c, buf' \o (wire' \o out'), Q,
                          noise', frames')
    BY <1>2, <1>11, <2>1
  <2> QED BY <2>2 DEF DecodeInv
<1>13. buf' = <<>> \/ Pending(buf')
  <2>1. /\ Len(buf') = n - d
        /\ \A k \in 1 .. Len(buf') : buf'[k] = buf[d + k]
    BY <1>8 DEF Drops, n
  <2>2. CASE d = n
    <3>1. Len(buf') = 0
      BY <1>0, <2>1, <2>2
    <3> QED BY <1>8, <3>1, EmptySeq
  <2>3. CASE d = n - 1
    <3>1. Len(buf') = 1 /\ 1 \in 1 .. Len(buf') /\ d + 1 = n
      BY <1>0, <2>1, <2>3
    <3>2. buf'[1] = M1
      BY <1>5, <2>1, <2>3, <3>1
    <3> QED BY <3>1, <3>2 DEF Pending
  <2> QED BY <1>3, <2>2, <2>3
<1> QED
  BY <1>12, <1>13 DEF WaitInv

(* The bytes before the first magic are set aside.                         *)
LEMMA SkipDecode ==
    ASSUME HostOK, MagicAt(buf) # {}, NEW W \in Seq(Byte), NEW b, NEW P,
           Decoded(rawSent, emitted, b, buf \o W, P, noise, frames)
    PROVE  /\ \E Q : Decoded(rawSent, emitted, b, Rest \o W, Q,
                             noise \o SubSeq(buf, 1, Skipped), frames)
           /\ Starts(Rest \o W, Rest) /\ Rest \in Seq(Byte)
           /\ Len(Rest) \in Nat /\ Len(Rest) >= 2
           /\ Rest[1] = M1 /\ Rest[2] = M2
           /\ Skipped \in 0 .. Len(buf) /\ Len(Rest) = Len(buf) - Skipped
           /\ \A k \in 1 .. Len(Rest) : Rest[k] = buf[Skipped + k]
<1> DEFINE S  == buf \o W
           T  == Rest \o W
           ms == noise \o SubSeq(buf, 1, Skipped)
           n  == Len(buf)
           d  == Skipped
<1>0. buf \in Seq(Byte) /\ noise \in Seq(Byte) /\ n \in Nat
  BY DEF HostOK
<1>1. PICK i \in 1 .. n - 1 :
         /\ buf[i] = M1 /\ buf[i + 1] = M2
         /\ \A x \in 1 .. i - 1 : ~(buf[x] = M1 /\ buf[x + 1] = M2)
         /\ d = i - 1 /\ Rest \in Seq(Byte) /\ Len(Rest) = n - d
         /\ \A k \in 1 .. Len(Rest) : Rest[k] = buf[d + k]
  BY <1>0, FirstMagic
<1>2. Rest = SubSeq(buf, d + 1, n)
  BY DEF Rest
<1> HIDE DEF d
<1>3. d \in 0 .. n /\ d + 1 = i /\ d + 2 = i + 1 /\ n - d >= 2 /\ n - d \in Nat
  BY <1>0, <1>1
<1>4. Drops(buf, d, Rest) /\ Grows(noise, buf, d, ms)
  BY <1>0, <1>2, <1>3, CutIs DEF d
<1>5. Starts(S, buf) /\ Starts(T, Rest)
  BY <1>0, <1>1, FrontIs
<1>6. Drops(S, d, T) /\ d \in 0 .. Len(S) /\ Grows(noise, S, d, ms)
  <2> HIDE DEF ms
  <2> QED BY <1>0, <1>1, <1>3, <1>4, CutBuf, GrowsFront
<1> HIDE DEF S, T, ms
<1>7. ASSUME NEW x \in 1 .. d
      PROVE  ~(S[x] = M1 /\ x < Len(S) /\ S[x + 1] = M2)
  <2> HIDE DEF n
  <2>1. x \in 1 .. i - 1 /\ x \in 1 .. n /\ x + 1 \in 1 .. n
    BY <1>0, <1>1, <1>3
  <2>2. S[x] = buf[x] /\ S[x + 1] = buf[x + 1]
    BY <1>5, <2>1 DEF Starts, n
  <2> QED BY <1>1, <2>1, <2>2
<1>8. \E Q : Decoded(rawSent, emitted, b, T, Q, ms, frames)
  <2>1. Decoded(rawSent, emitted, b, S, P, noise, frames)
    BY DEF S
  <2> QED BY <1>6, <1>7, <2>1, DropRaw
<1>9. Len(Rest) \in Nat /\ Len(Rest) >= 2 /\ Rest[1] = M1 /\ Rest[2] = M2
  <2>1. Len(Rest) \in Nat /\ Len(Rest) >= 2
    BY <1>1, <1>3
  <2>2. 1 \in 1 .. Len(Rest) /\ 2 \in 1 .. Len(Rest)
    BY <2>1
  <2>3. Rest[1] = buf[d + 1] /\ Rest[2] = buf[d + 2]
    BY <1>1, <2>2
  <2> QED BY <1>1, <1>3, <2>1, <2>3
<1> QED
  BY <1>1, <1>3, <1>5, <1>8, <1>9 DEF T, ms, d

(* The header or the payload is incomplete.                                *)
LEMMA WaitMoreDecode ==
    ASSUME KernelInv, HostOK, DecodeInv, WaitMore, UNCHANGED <<kernelVars, wire>>
    PROVE  DecodeInv' /\ WaitInv'
<1> DEFINE W == wire \o out
<1>0. W \in Seq(Byte)
  BY ConcatSeq DEF KernelInv, KernelOK
<1>1. PICK b, P : Decoded(rawSent, emitted, b, buf \o W, P, noise, frames)
  BY DEF DecodeInv
<1>2. /\ rawSent' = rawSent /\ emitted' = emitted /\ frames' = frames
      /\ out' = out /\ wire' = wire /\ MagicAt(buf) # {} /\ host' = "wait"
      /\ noise' = noise \o SubSeq(buf, 1, Skipped) /\ buf' = Rest
      /\ \/ Len(Rest) < 4
         \/ Len(Rest) >= 4 /\ LengthOf(Rest) <= MaxFrameLen
               /\ Len(Rest) < 4 + LengthOf(Rest)
  BY DEF WaitMore, Discard, Rest, HeaderLen, kernelVars
<1>3. W = wire' \o out'
  BY <1>2
<1> HIDE DEF W
<1>4. /\ \E Q : Decoded(rawSent, emitted, b, Rest \o W, Q,
                        noise \o SubSeq(buf, 1, Skipped), frames)
      /\ Len(Rest) \in Nat /\ Len(Rest) >= 2 /\ Rest[1] = M1 /\ Rest[2] = M2
  BY <1>0, <1>1, <1>2, SkipDecode
<1>5. DecodeInv'
  <2>1. \E c, Q : Decoded(rawSent', emitted', c, buf' \o (wire' \o out'), Q,
                          noise', frames')
    BY <1>2, <1>3, <1>4
  <2> QED BY <2>1 DEF DecodeInv
<1>6. Pending(Rest)
  BY <1>2, <1>4 DEF Pending
<1>7. Pending(buf')
  BY <1>2, <1>6
<1> QED
  BY <1>5, <1>7 DEF WaitInv

(* The length is absurd.                                                   *)
LEMMA ResyncDecode ==
    ASSUME KernelInv, HostOK, DecodeInv, Resync, host = "scan",
           UNCHANGED <<kernelVars, wire>>
    PROVE  DecodeInv' /\ WaitInv'
<1> DEFINE W  == wire \o out
           d  == Skipped
           h  == SubSeq(buf, 1, d)
           ms == noise \o h
           T  == Rest \o W
           R  == Rest
<1>0. /\ W \in Seq(Byte) /\ buf \in Seq(Byte) /\ noise \in Seq(Byte)
      /\ Len(buf) \in Nat /\ MaxFrameLen \in Nat
  BY ConcatSeq, Constants DEF KernelInv, KernelOK, HostOK
<1>1. PICK b, P : Decoded(rawSent, emitted, b, buf \o W, P, noise, frames)
  BY DEF DecodeInv
<1>2. /\ rawSent' = rawSent /\ emitted' = emitted /\ frames' = frames
      /\ out' = out /\ wire' = wire /\ MagicAt(buf) # {} /\ host' = "scan"
      /\ noise' = noise \o SubSeq(buf, 1, d + 1)
      /\ buf' = SubSeq(buf, (d + 1) + 1, Len(buf))
      /\ Len(R) >= 4 /\ R[3] + Base * R[4] > MaxFrameLen
  BY DEF Resync, Discard, HeaderLen, kernelVars, LengthOf
<1>3. W = wire' \o out'
  BY <1>2
<1> HIDE DEF W
<1>4. /\ \E Q : Decoded(rawSent, emitted, b, T, Q, ms, frames)
      /\ Starts(T, R) /\ R \in Seq(Byte)
      /\ Len(R) \in Nat /\ Len(R) >= 2 /\ R[1] = M1 /\ R[2] = M2
      /\ d \in 0 .. Len(buf) /\ Len(R) = Len(buf) - d
      /\ \A k \in 1 .. Len(R) : R[k] = buf[d + k]
  BY <1>0, <1>1, <1>2, SkipDecode
<1>5. PICK Q : Decoded(rawSent, emitted, b, T, Q, ms, frames)
  BY <1>4
<1> HIDE DEF T, d, R
<1>6. /\ d + 1 \in 0 .. Len(buf) /\ d \in Nat /\ 1 \in 0 .. Len(R)
  BY <1>0, <1>2, <1>4
<1>7. /\ Drops(buf, d + 1, buf') /\ Grows(noise, buf, d + 1, noise')
      /\ Grows(noise, buf, d, ms)
  <2>1. /\ Drops(buf, d + 1, SubSeq(buf, (d + 1) + 1, Len(buf)))
        /\ Grows(noise, buf, d + 1, noise \o SubSeq(buf, 1, d + 1))
        /\ Grows(noise, buf, d, ms)
    BY <1>0, <1>4, <1>6, CutIs
  <2> QED BY <1>2, <2>1
<1> HIDE DEF ms
<1>8. Drops(R, 1, buf') /\ buf' \in Seq(Byte)
  <2>1. /\ buf' \in Seq(Byte) /\ Len(buf') = Len(buf) - (d + 1)
        /\ \A k \in 1 .. Len(buf') : buf'[k] = buf[(d + 1) + k]
    BY <1>7 DEF Drops
  <2> DEFINE n == Len(buf)
             m == Len(buf')
             r == Len(R)
  <2>2. /\ n \in Nat /\ m = n - (d + 1) /\ r = n - d /\ d \in Nat /\ m \in Nat
        /\ d + 1 <= n
    BY <1>0, <1>4, <1>6, <2>1
  <2>3. ASSUME NEW k \in 1 .. m PROVE buf'[k] = R[1 + k]
    <3> HIDE DEF n, m, r
    <3>1. 1 + k \in 1 .. r /\ d + (1 + k) = (d + 1) + k
      BY <2>2
    <3> QED BY <1>4, <2>1, <3>1 DEF m, r
  <2>4. m = r - 1
    <3> HIDE DEF n, m, r
    <3> QED BY <2>2
  <2> QED BY <2>1, <2>3, <2>4 DEF Drops
<1>9. Grows(ms, R, 1, noise')
  <2> DEFINE n == Len(noise)
  <2>1. /\ noise' \in Seq(Byte) /\ Len(noise') = n + (d + 1)
        /\ \A i \in 1 .. n : noise'[i] = noise[i]
        /\ \A i \in 1 .. d + 1 : noise'[n + i] = buf[i]
        /\ Len(ms) = n + d /\ ms \in Seq(Byte)
        /\ \A i \in 1 .. n : ms[i] = noise[i]
        /\ \A i \in 1 .. d : ms[n + i] = buf[i]
    BY <1>7 DEF Grows
  <2>2. n \in Nat
    BY <1>0
  <2> HIDE DEF n
  <2>3. ASSUME NEW i \in 1 .. n + d PROVE noise'[i] = ms[i]
    <3>1. CASE i <= n
      <4>1. i \in 1 .. n
        BY <2>2, <3>1
      <4> QED BY <2>1, <4>1
    <3>2. CASE i > n
      <4>1. i - n \in 1 .. d /\ i - n \in 1 .. d + 1 /\ n + (i - n) = i
        BY <1>6, <2>2, <3>2
      <4> QED BY <2>1, <4>1
    <3> QED BY <1>6, <2>2, <3>1, <3>2
  <2>4. noise'[(n + d) + 1] = R[1]
    <3>1. /\ d + 1 \in 1 .. d + 1 /\ n + (d + 1) = (n + d) + 1
          /\ 1 \in 1 .. Len(R)
      BY <1>4, <1>6, <2>2
    <3> QED BY <1>4, <2>1, <3>1
  <2>5. Len(noise') = Len(ms) + 1
    BY <1>6, <2>1, <2>2
  <2>6. \A i \in 1 .. 1 : noise'[Len(ms) + i] = R[i]
    BY <2>1, <2>4
  <2> QED BY <2>1, <2>3, <2>5, <2>6 DEF Grows
<1>10. Drops(T, 1, buf' \o W) /\ Grows(ms, T, 1, noise')
  BY <1>0, <1>4, <1>6, <1>8, <1>9, CutBuf, GrowsFront DEF T, R
<1>11. /\ T[1] = M1 /\ T[2] = M2 /\ T[3] + Base * T[4] > MaxFrameLen
       /\ Len(T) >= 4
  <2>1. /\ 1 \in 1 .. Len(R) /\ 2 \in 1 .. Len(R) /\ 3 \in 1 .. Len(R)
        /\ 4 \in 1 .. Len(R)
    BY <1>2, <1>4
  <2>2. /\ T[1] = R[1] /\ T[2] = R[2] /\ T[3] = R[3] /\ T[4] = R[4]
        /\ Len(T) \in Nat /\ Len(R) <= Len(T)
    BY <1>4, <2>1 DEF Starts
  <2>3. Len(T) >= 4
    BY <1>2, <1>4, <2>2
  <2> QED BY <1>2, <1>4, <2>2, <2>3
<1> DEFINE U == buf' \o W
<1>12. \E Z : Decoded(rawSent, emitted, b, U, Z, noise', frames)
  <2>1. Drops(T, 1, U)
    BY <1>10
  <2> HIDE DEF U
  <2> QED BY <1>5, <1>10, <1>11, <2>1, DropOne
<1>13. \E c, Z : Decoded(rawSent', emitted', c, buf' \o (wire' \o out'), Z,
                         noise', frames')
  BY <1>2, <1>3, <1>12
<1> QED
  BY <1>2, <1>13 DEF DecodeInv, WaitInv

(* A frame is complete.                                                    *)
LEMMA TakeDecode ==
    ASSUME KernelInv, HostOK, DecodeInv, TakeFrame, host = "scan",
           UNCHANGED <<kernelVars, wire>>
    PROVE  DecodeInv' /\ WaitInv'
<1> DEFINE W  == wire \o out
           ms == noise \o SubSeq(buf, 1, Skipped)
           T  == Rest \o W
           R  == Rest
           n  == LengthOf(Rest)
           q  == SubSeq(Rest, 5, 4 + n)
<1>0. /\ W \in Seq(Byte) /\ buf \in Seq(Byte) /\ noise \in Seq(Byte)
  BY ConcatSeq DEF KernelInv, KernelOK, HostOK
<1>1. PICK b, P : Decoded(rawSent, emitted, b, buf \o W, P, noise, frames)
  BY DEF DecodeInv
<1>2. /\ rawSent' = rawSent /\ emitted' = emitted
      /\ out' = out /\ wire' = wire /\ MagicAt(buf) # {} /\ host' = "scan"
      /\ noise' = ms /\ buf' = SubSeq(R, (4 + n) + 1, Len(R))
      /\ frames' = Append(frames, q)
      /\ Len(R) >= 4 /\ n <= MaxFrameLen /\ Len(R) >= 4 + n
  BY DEF TakeFrame, HeaderLen, kernelVars
<1>3. W = wire' \o out'
  BY <1>2
<1> HIDE DEF W
<1>4. /\ \E Q : Decoded(rawSent, emitted, b, T, Q, ms, frames)
      /\ Starts(T, R) /\ R \in Seq(Byte) /\ Len(R) \in Nat
      /\ R[1] = M1 /\ R[2] = M2
  BY <1>0, <1>1, <1>2, SkipDecode
<1>5. PICK Q : Decoded(rawSent, emitted, b, T, Q, ms, frames)
  BY <1>4
<1>6. n \in Nat /\ n = R[3] + Base * R[4]
  BY <1>0, <1>2, LengthNat DEF LengthOf
<1> HIDE DEF T, R, n, ms, q
<1>7. 4 + n \in 0 .. Len(R) /\ 4 + n <= Len(R)
  BY <1>2, <1>4, <1>6
<1>8. Drops(R, 4 + n, buf') /\ buf' \in Seq(Byte)
  <2>1. Drops(R, 4 + n, SubSeq(R, (4 + n) + 1, Len(R)))
    BY <1>0, <1>4, <1>7, CutIs
  <2> QED BY <1>2, <2>1 DEF Drops
<1>9. q \in Seq(Byte) /\ Len(q) = n /\ \A k \in 1 .. n : q[k] = R[4 + k]
  <2>1. q = SubSeq(R, 5, 4 + n)
    BY DEF q, R, n
  <2>2. \A i \in 5 .. 4 + n : R[i] \in Byte
    <3>1. \A i \in 5 .. 4 + n : i \in 1 .. Len(R)
      BY <1>4, <1>6, <1>7
    <3> QED BY <1>4, <3>1, ElementOfSeq
  <2>3. /\ SubSeq(R, 5, 4 + n) \in Seq(Byte)
        /\ Len(SubSeq(R, 5, 4 + n)) =
              IF 5 <= 4 + n THEN 4 + n - 5 + 1 ELSE 0
        /\ \A i \in 1 .. 4 + n - 5 + 1 :
              SubSeq(R, 5, 4 + n)[i] = R[5 + i - 1]
    BY <1>6, <2>2, SubSeqProperties
  <2>4. Len(q) = n
    BY <1>6, <2>1, <2>3
  <2>5. ASSUME NEW k \in 1 .. n PROVE q[k] = R[4 + k]
    <3>1. k \in 1 .. 4 + n - 5 + 1 /\ 5 + k - 1 = 4 + k
      BY <1>6
    <3> QED BY <2>1, <2>3, <3>1
  <2> QED BY <2>1, <2>3, <2>4, <2>5
<1>10. Drops(T, 4 + n, buf' \o W)
  BY <1>0, <1>4, <1>7, <1>8, CutBuf DEF T, R
<1>11. /\ T[1] = M1 /\ T[2] = M2 /\ T[3] + Base * T[4] = n
       /\ Len(T) >= 4 /\ 4 + n <= Len(T)
  <2>1. /\ 1 \in 1 .. Len(R) /\ 2 \in 1 .. Len(R) /\ 3 \in 1 .. Len(R)
        /\ 4 \in 1 .. Len(R)
    BY <1>2, <1>4
  <2>2. /\ T[1] = R[1] /\ T[2] = R[2] /\ T[3] = R[3] /\ T[4] = R[4]
        /\ Len(T) \in Nat /\ Len(R) <= Len(T)
    BY <1>4, <2>1 DEF Starts
  <2>3. Len(T) >= 4 /\ 4 + n <= Len(T)
    <3> DEFINE x == Len(R)
               y == Len(T)
    <3>1. x \in Nat /\ y \in Nat /\ n \in Nat /\ 4 + n <= x /\ x <= y
      BY <1>4, <1>6, <1>7, <2>2
    <3> HIDE DEF x, y
    <3>2. y >= 4 /\ 4 + n <= y
      BY <3>1
    <3> QED BY <3>2 DEF y
  <2> QED BY <1>4, <1>6, <2>2, <2>3
<1>12. \A k \in 1 .. n : q[k] = T[4 + k]
  <2>1. \A k \in 1 .. n : 4 + k \in 1 .. Len(R)
    BY <1>4, <1>6, <1>7
  <2> QED BY <1>4, <1>9, <2>1 DEF Starts
<1> DEFINE U == buf' \o W
<1>13. \E Z : Decoded(rawSent, emitted, b, U, Z, ms, Append(frames, q))
  <2>1. Drops(T, 4 + n, U)
    BY <1>10
  <2> HIDE DEF U
  <2> QED BY <1>2, <1>5, <1>6, <1>9, <1>11, <1>12, <2>1, TakeOne
<1>14. \E c, Z : Decoded(rawSent', emitted', c, buf' \o (wire' \o out'), Z,
                         noise', frames')
  BY <1>2, <1>3, <1>13
<1> QED
  BY <1>2, <1>14 DEF DecodeInv, WaitInv

LEMMA DecodeInit == Init => DecodeInv /\ WaitInv
<1> SUFFICES ASSUME Init PROVE DecodeInv /\ WaitInv
  OBVIOUS
<1> DEFINE E == Encode(<<0>>)
           S == rawSent \o E
<1>1. /\ rawSent \in Banners /\ wire = rawSent \o E /\ out = <<>>
      /\ emitted = <<Emitted("event", 0, <<0>>, <<0>>)>>
      /\ buf = <<>> /\ noise = <<>> /\ frames = <<>>
  BY DEF Init
<1>2. /\ Story(rawSent, emitted, rawSent)
      /\ \E Q : /\ Q[0] = [r |-> 0, f |-> 0, p |-> 0]
                /\ Path(rawSent, emitted, Len(rawSent), S, Q)
  BY <1>1, PathInit
<1>3. PICK Q : /\ Q[0] = [r |-> 0, f |-> 0, p |-> 0]
               /\ Path(rawSent, emitted, Len(rawSent), S, Q)
  BY <1>2
<1>4. S \in Seq(Byte)
  <2>1. 0 \in 0 .. MaxEvents - 1 /\ rawSent \in Seq(Byte)
    BY <1>1, Constants
  <2>2. <<0>> \in Seq(Byte) /\ Len(<<0>>) <= Capacity
    BY <2>1, OneByte
  <2>3. E \in Seq(Byte)
    BY <2>2, EncodeShape
  <2> QED BY <2>1, <2>3, ConcatSeq
<1> HIDE DEF S
<1>5. buf \o (wire \o out) = S
  <2>1. wire = S
    BY <1>1 DEF S
  <2>2. S \o <<>> = S /\ <<>> \o S = S
    BY <1>4, ConcatEmptySeq
  <2> QED BY <1>1, <2>1, <2>2
<1>6. NoiseIs(rawSent, noise, 0) /\ FramesAre(emitted, frames, 0)
  BY <1>1 DEF NoiseIs, FramesAre
<1>7. Decoded(rawSent, emitted, rawSent, S, Q, noise, frames)
  BY <1>2, <1>3, <1>4, <1>6 DEF Decoded
<1>8. DecodeInv
  BY <1>5, <1>7 DEF DecodeInv
<1> QED
  BY <1>1, <1>8 DEF WaitInv

LEMMA DecodeNext ==
    KernelInv /\ HostOK /\ DecodeInv /\ WaitInv /\ [Next]_vars
        => DecodeInv' /\ WaitInv'
<1> SUFFICES ASSUME KernelInv, HostOK, DecodeInv, WaitInv, [Next]_vars
             PROVE  DecodeInv' /\ WaitInv'
  OBVIOUS
<1>1. CASE UNCHANGED hostVars
  <2>1. DecodeInv'
    BY <1>1, KernelDecode
  <2> QED BY <1>1, <2>1 DEF WaitInv, hostVars, Pending, LengthOf
<1>2. CASE \E n \in 1 .. Len(wire) : Read(n)
  BY <1>2, ReadDecode
<1>3. CASE Feed
  BY <1>3, NoMagicDecode, WaitMoreDecode, ResyncDecode, TakeDecode DEF Feed
<1> QED
  BY <1>1, <1>2, <1>3 DEF Next, Emission, Decoder, Tick, Enter, Leave,
     BeginEvent, BeginFault, ClassicLine, Write, Emit, BlitFault, Put, Done,
     vars, hostVars

(* FrameDecoder.feed: whatever the payloads, the banner and the raw lines  *)
(* hold and however the stream is cut, the frames returned are the first   *)
(* ones emitted, and once all is read they are all of them and the noise   *)
(* is every byte that was in none.                                         *)
THEOREM DecoderFaithful == Spec => []DecodedIsEmitted
<1>1. ASSUME KernelInv, HostOK, DecodeInv, WaitInv PROVE DecodedIsEmitted
  <2> DEFINE S == buf \o (wire \o out)
             m == Len(emitted)
             pl == Payloads
  <2>0. /\ emitted \in Seq(SentFrame) /\ m \in Nat /\ rawSent \in Seq(Byte)
        /\ frames \in Seq(Seq(Byte)) /\ noise \in Seq(Byte)
        /\ buf \in Seq(Byte)
    BY <1>1 DEF KernelInv, KernelOK, HostOK
  <2>1. PICK b, P : Decoded(rawSent, emitted, b, S, P, noise, frames)
    BY <1>1 DEF DecodeInv
  <2> DEFINE r == P[0].r
             f == P[0].f
  <2>2. /\ Story(rawSent, emitted, b) /\ S \in Seq(Byte)
        /\ Path(rawSent, emitted, Len(b), S, P)
        /\ NoiseIs(rawSent, noise, r) /\ FramesAre(emitted, frames, f)
    BY <2>1 DEF Decoded
  <2>3. r \in 0 .. Len(rawSent) /\ f \in 0 .. m
    <3>1. 0 \in 0 .. Len(S)
      BY <2>2
    <3>2. P[0] \in Spot(rawSent, emitted)
      BY <2>2, <3>1, PathAt
    <3> QED BY <3>2 DEF Spot
  <2>4. pl \in Seq(Seq(Byte)) /\ Len(pl) = m
        /\ \A i \in 1 .. m : pl[i] = emitted[i].payload
    <3>1. pl = [i \in 1 .. m |-> emitted[i].payload]
      BY DEF Payloads
    <3>2. \A i \in 1 .. m : emitted[i].payload \in Seq(Byte)
      <4>1. \A i \in 1 .. m : emitted[i] \in SentFrame
        BY <2>0, ElementOfSeq
      <4> QED BY <4>1 DEF SentFrame
    <3> HIDE DEF pl, m
    <3> QED BY <2>0, <3>1, <3>2
  <2>5. /\ Len(frames) = f /\ \A i \in 1 .. f : frames[i] = emitted[i].payload
        /\ Len(noise) = r /\ \A i \in 1 .. r : noise[i] = rawSent[i]
    BY <2>2 DEF NoiseIs, FramesAre
  <2> HIDE DEF r, f, pl
  <2>6. IsPrefix(frames, pl)
    <3> HIDE DEF m
    <3>1. f <= m /\ f \in Nat /\ f \in 0 .. m
      BY <2>0, <2>3
    <3>2. \A i \in 1 .. f : frames[i] = pl[i]
      <4>1. \A i \in 1 .. f : i \in 1 .. m
        BY <2>0, <3>1
      <4> QED BY <2>4, <2>5, <4>1
    <3> DEFINE A == SubSeq(frames, 1, f)
               B == SubSeq(pl, 1, f)
    <3>3. /\ A \in Seq(Seq(Byte)) /\ Len(A) = f
          /\ \A i \in 1 .. f : A[i] = frames[i]
      <4>1. \A i \in 1 .. f : frames[i] \in Seq(Byte)
        BY <2>0, <2>5, <3>1, ElementOfSeq
      <4>2. /\ A \in Seq(Seq(Byte))
            /\ Len(A) = IF 1 <= f THEN f - 1 + 1 ELSE 0
            /\ \A i \in 1 .. f - 1 + 1 : A[i] = frames[1 + i - 1]
        BY <3>1, <4>1, SubSeqProperties
      <4> HIDE DEF A
      <4> QED BY <3>1, <4>2
    <3>4. /\ B \in Seq(Seq(Byte)) /\ Len(B) = f
          /\ \A i \in 1 .. f : B[i] = pl[i]
      <4>1. \A i \in 1 .. f : pl[i] \in Seq(Byte)
        BY <2>0, <2>5, <3>1, <3>2, ElementOfSeq
      <4>2. /\ B \in Seq(Seq(Byte))
            /\ Len(B) = IF 1 <= f THEN f - 1 + 1 ELSE 0
            /\ \A i \in 1 .. f - 1 + 1 : B[i] = pl[1 + i - 1]
        BY <3>1, <4>1, SubSeqProperties
      <4> HIDE DEF B
      <4> QED BY <3>1, <4>2
    <3> HIDE DEF A, B
    <3>5. A = B
      BY <3>2, <3>3, <3>4, SeqEqual
    <3> QED BY <2>4, <2>5, <3>1, <3>5 DEF IsPrefix, A, B
  <2>7. ASSUME pc = "free", wire = <<>>, host = "wait"
        PROVE  frames = pl /\ noise = rawSent /\ buf = <<>>
    <3>1. out = <<>> /\ (buf = <<>> \/ Pending(buf))
      BY <1>1, <2>7 DEF KernelInv, MaskInv, WaitInv
    <3>2. S = buf
      <4>1. <<>> \o <<>> = <<>> /\ buf \o <<>> = buf
        BY <2>0, ConcatEmptySeq
      <4> QED BY <2>7, <3>1, <4>1
    <3>3. buf = <<>>
      BY <2>1, <3>1, <3>2, NothingPending
    <3>4. r = Len(rawSent) /\ f = m
      <4>1. Len(S) = 0
        BY <3>2, <3>3
      <4>2. P[Len(S)] = [r |-> Len(rawSent), f |-> Len(emitted), p |-> 0]
        BY <2>2 DEF Path
      <4> QED BY <4>1, <4>2 DEF r, f
    <3>5. frames = pl
      BY <2>0, <2>4, <2>5, <3>4, SeqEqual
    <3>6. noise = rawSent
      BY <2>0, <2>5, <3>4, SeqEqual
    <3> QED BY <3>3, <3>5, <3>6
  <2> QED BY <2>6, <2>7 DEF DecodedIsEmitted, pl
<1>2. Init => HostOK
  BY DEF Init, HostOK
<1> QED
  BY <1>1, <1>2, KernelInit, KernelNext, HostTypes, DecodeInit, DecodeNext, PTL
     DEF Spec

=============================================================================
