---------------------------- MODULE EventStream ----------------------------
(***************************************************************************)
(* The outbound serial line, from the kernel's emission paths to the       *)
(* host's frame decoder: FrameBuf and RawConsole (console.rs), the event   *)
(* counter (events.rs), the interrupt masking every emission runs under    *)
(* (hal/csr.rs), the answers and fault reports that fall back to a small   *)
(* frame (rpc.rs, traps.rs), and FrameDecoder (harness/framing.py) fed in  *)
(* chunks of any size (harness/transport.py).                              *)
(*                                                                         *)
(* One hart: the kernel runs as a thread that a timer tick may interrupt   *)
(* whenever sstatus.SIE is set, or inside the handler of a payload's trap, *)
(* which hardware enters with SIE clear.  Bytes are 0 .. Base-1 and the    *)
(* length field has two of them, least significant first (the code: 256    *)
(* and four).  A payload opens with its event id, the rest is opaque.      *)
(***************************************************************************)
EXTENDS Integers, Sequences, SequencesExt, FiniteSetsExt

CONSTANTS
    Base,           \* number of byte values
    M1, M2,         \* MAGIC: 0xAA, 0x99
    Capacity,       \* FrameBuf::CAPACITY
    MaxFrameLen,    \* MAX_FRAME_LEN of the decoder
    Pieces,         \* what one write! call may append to a payload
    Fallback,       \* the fixed tail of a "too large" answer or fault
    Banners,        \* what the firmware prints before the kernel starts
    Line,           \* a raw, unframed diagnostic line
    MaxEvents,      \* bound on the event ids handed out
    MaxAsked        \* bound on what one event writes before its last piece

Byte == 0 .. Base - 1

(* A length that fits the field and the decoder's bound; a fallback that   *)
(* fits a frame; raw lines are ASCII and carry neither magic byte.         *)
ASSUME StreamAssumption ==
    /\ Base \in Nat /\ MaxEvents \in 1 .. Base
    /\ M1 \in Byte /\ M2 \in Byte /\ M1 # M2
    /\ Capacity \in Nat /\ MaxFrameLen \in Nat /\ MaxAsked \in Nat
    /\ Capacity <= MaxFrameLen /\ MaxFrameLen < Base * Base
    /\ Pieces \subseteq Seq(Byte) /\ Banners \subseteq Seq(Byte)
    /\ Fallback \in Seq(Byte) /\ 1 + Len(Fallback) <= Capacity
    /\ Line \in Seq(Byte \ {M1, M2})

Kinds == {"event", "rpc", "fault"}

(* Kinds whose emitter checks overflowed() and sends a small frame.        *)
Backed == {"rpc", "fault"}

VARIABLES
    nextId,    \* NEXT_ID
    masked,    \* sstatus.SIE is clear
    trap,      \* the running code is the handler of a payload's trap
    trapId,    \* the id handle() drew for that trap, -1 once reported on
    pc,        \* "free", "build" or "put"
    ev,        \* the event being built: kind, id, buf, overflow, and prev,
               \* whether SIE was set when its emission began
    asked,     \* every byte its emitter tried to write (history)
    out,       \* bytes of the current emission not yet put
    wire,      \* bytes put and not yet read by the host
    emitted,   \* the frames whose emission began, in that order (history)
    rawSent,   \* the bytes put outside any frame (history)
    host,      \* "wait" for input or "scan" what was fed
    buf,       \* FrameDecoder._buf
    noise,     \* FrameDecoder.noise
    frames     \* the payloads feed() has returned

kernelVars == <<nextId, masked, trap, trapId, pc, ev, asked, out, emitted,
                rawSent>>
hostVars == <<host, buf, noise, frames>>
vars == <<nextId, masked, trap, trapId, pc, ev, asked, out, wire, emitted,
          rawSent, host, buf, noise, frames>>

-----------------------------------------------------------------------------
(* The frame format, common to FrameBuf::emit and encode_frame.            *)

LengthField(n) == <<n % Base, n \div Base>>
Encode(payload) == <<M1, M2>> \o LengthField(Len(payload)) \o payload

(* What the firmware prints is no frame: a magic in it or across its end   *)
(* announces a length the decoder refuses.                                 *)
ASSUME BannerAssumption ==
    \A b \in Banners :
        LET s == b \o Encode(<<0>>)
        IN  \A i \in 1 .. Len(b) :
                s[i] = M1 /\ s[i + 1] = M2
                    => s[i + 2] + Base * s[i + 3] > MaxFrameLen

NoEvent == [kind |-> "event", id |-> 0, buf |-> <<>>, overflow |-> FALSE,
            prev |-> FALSE]

Emitted(kind, id, payload, all) ==
    [kind |-> kind, id |-> id, payload |-> payload, all |-> all]

(* kmain's hello is out before interrupts are enabled.                     *)
Init ==
    /\ nextId = 1
    /\ masked = FALSE /\ trap = FALSE /\ trapId = -1
    /\ pc = "free" /\ ev = NoEvent /\ asked = <<>> /\ out = <<>>
    /\ emitted = <<Emitted("event", 0, <<0>>, <<0>>)>>
    /\ rawSent \in Banners
    /\ wire = rawSent \o Encode(<<0>>)
    /\ host = "wait" /\ buf = <<>> /\ noise = <<>> /\ frames = <<>>

-----------------------------------------------------------------------------
(* The kernel.                                                             *)

(* A tick is taken only with SIE set.  Its handler runs to the end with    *)
(* SIE clear; under the autonomous dial it draws an id and sends nothing.  *)
Tick(autonomous) ==
    /\ ~masked
    /\ nextId < MaxEvents
    /\ nextId' = nextId + 1
    /\ IF autonomous
       THEN UNCHANGED <<wire, emitted>>
       ELSE /\ wire' = wire \o Encode(<<nextId>>)
            /\ emitted' = Append(emitted,
                            Emitted("event", nextId, <<nextId>>, <<nextId>>))
    /\ UNCHANGED <<masked, trap, trapId, pc, ev, asked, out, rawSent, hostVars>>

(* A payload's fault or system call: hardware clears SIE, handle() draws   *)
(* the id of the trap record.                                              *)
Enter ==
    /\ ~masked /\ pc = "free"
    /\ nextId < MaxEvents
    /\ nextId' = nextId + 1
    /\ masked' = TRUE /\ trap' = TRUE /\ trapId' = nextId
    /\ UNCHANGED <<pc, ev, asked, out, wire, emitted, rawSent, hostVars>>

(* sret, or the redirect to the scheduler: SIE is set again.               *)
Leave ==
    /\ trap /\ pc = "free"
    /\ masked' = FALSE /\ trap' = FALSE /\ trapId' = -1
    /\ UNCHANGED <<nextId, pc, ev, asked, out, wire, emitted, rawSent, hostVars>>

Build(kind, id) ==
    /\ pc' = "build"
    /\ ev' = [kind |-> kind, id |-> id, buf |-> <<id>>, overflow |-> FALSE,
              prev |-> ~masked]
    /\ asked' = <<id>>
    /\ masked' = TRUE

(* Mutant: the id is drawn and the frame built with SIE still set.         *)
BeginUnmasked(kind) ==
    /\ nextId < MaxEvents
    /\ nextId' = nextId + 1
    /\ pc' = "build"
    /\ ev' = [kind |-> kind, id |-> nextId, buf |-> <<nextId>>,
              overflow |-> FALSE, prev |-> ~masked]
    /\ asked' = <<nextId>>
    /\ UNCHANGED masked

(* without_interrupts { next_id(); FrameBuf::new(); write! ... }.          *)
Begin(kind) ==
    /\ nextId < MaxEvents
    /\ nextId' = nextId + 1
    /\ Build(kind, nextId)

(* Any emitter but emit_fault: from the thread or from a trap handler.     *)
BeginEvent(kind) ==
    /\ pc = "free"
    /\ kind # "fault"
    /\ Begin(kind)
    /\ trapId' = -1
    /\ UNCHANGED <<trap, out, wire, emitted, rawSent, hostVars>>

(* emit_fault: first thing in the handler, under the id of the trap.       *)
BeginFault ==
    /\ pc = "free" /\ trapId # -1
    /\ Build("fault", trapId)
    /\ trapId' = -1
    /\ UNCHANGED <<nextId, trap, out, wire, emitted, rawSent, hostVars>>

(* emit_fault_classic: one raw line instead of the frame.                  *)
ClassicLine ==
    /\ pc = "free" /\ trapId # -1
    /\ pc' = "put"
    /\ out' = Line
    /\ rawSent' = rawSent \o Line
    /\ ev' = [NoEvent EXCEPT !.prev = ~masked]
    /\ masked' = TRUE
    /\ trapId' = -1
    /\ UNCHANGED <<nextId, trap, asked, wire, emitted, hostVars>>

(* Mutant: the piece that does not fit is dropped, the frame is not poisoned. *)
Append1Quiet(piece) ==
    IF Len(ev.buf) + Len(piece) > Capacity
    THEN ev
    ELSE [ev EXCEPT !.buf = @ \o piece]

(* Mutant: the capacity is not looked at.                                  *)
Append1Past(piece) == [ev EXCEPT !.buf = @ \o piece]

(* write_str appends a whole piece or nothing, and then poisons the frame. *)
Append1(piece) ==
    IF Len(ev.buf) + Len(piece) > Capacity
    THEN [ev EXCEPT !.overflow = TRUE]
    ELSE [ev EXCEPT !.buf = @ \o piece]

Write(piece) ==
    /\ pc = "build"
    /\ Len(asked) <= MaxAsked
    /\ ev' = Append1(piece)
    /\ asked' = asked \o piece
    /\ UNCHANGED <<nextId, masked, trap, trapId, pc, out, wire, emitted,
                   rawSent, hostVars>>

(* Mutant: an answer that does not fit is dropped like any other event.    *)
SentNoFallback == IF ev.overflow THEN {} ELSE {ev.buf}

(* What emit sends: the buffer, the small frame under the same id, or      *)
(* nothing.                                                                *)
Sent ==
    IF ~ev.overflow THEN {ev.buf}
    ELSE IF ev.kind \in Backed THEN {<<ev.id>> \o Fallback} ELSE {}

(* Mutant: only the building is masked, the bytes go out with SIE restored. *)
EmitUnmasked ==
    /\ pc = "build" /\ ~ev.overflow
    /\ pc' = "put"
    /\ out' = Encode(ev.buf)
    /\ emitted' = Append(emitted, Emitted(ev.kind, ev.id, ev.buf, asked))
    /\ masked' = ~ev.prev
    /\ UNCHANGED <<nextId, trap, trapId, ev, asked, wire, rawSent, hostVars>>

Emit ==
    /\ pc = "build"
    /\ pc' = "put"
    /\ \/ /\ Sent = {}
          /\ UNCHANGED <<out, emitted>>
       \/ \E payload \in Sent :
            /\ out' = Encode(payload)
            /\ emitted' = Append(emitted, Emitted(ev.kind, ev.id, payload, asked))
    /\ UNCHANGED <<nextId, masked, trap, trapId, ev, asked, wire, rawSent,
                   hostVars>>

(* on_blit reads the payload's pixels while it builds its frame: a bad     *)
(* pointer ends the building and the id it drew is on no frame.            *)
BlitFault ==
    /\ pc = "build" /\ trap /\ ev.kind = "event"
    /\ pc' = "put"
    /\ UNCHANGED <<nextId, masked, trap, trapId, ev, asked, out, wire, emitted,
                   rawSent, hostVars>>

(* console_putchar.                                                        *)
Put ==
    /\ pc = "put" /\ out # <<>>
    /\ wire' = Append(wire, Head(out))
    /\ out' = Tail(out)
    /\ UNCHANGED <<nextId, masked, trap, trapId, pc, ev, asked, emitted,
                   rawSent, hostVars>>

(* The end of without_interrupts: SIE is set again only if it was set.     *)
Restore(prev) == IF prev THEN FALSE ELSE masked

Done ==
    /\ pc = "put" /\ out = <<>>
    /\ pc' = "free"
    /\ masked' = Restore(ev.prev)
    /\ ev' = NoEvent /\ asked' = <<>>
    /\ UNCHANGED <<nextId, trap, trapId, out, wire, emitted, rawSent, hostVars>>

-----------------------------------------------------------------------------
(* The host.                                                               *)

(* os.read returns any non-empty prefix of what has arrived.               *)
Read(n) ==
    /\ host = "wait"
    /\ n \in 1 .. Len(wire)
    /\ buf' = buf \o SubSeq(wire, 1, n)
    /\ wire' = SubSeq(wire, n + 1, Len(wire))
    /\ host' = "scan"
    /\ UNCHANGED <<kernelVars, noise, frames>>

MagicAt(b) == {i \in 1 .. Len(b) - 1 : b[i] = M1 /\ b[i + 1] = M2}

(* The buffer and the noise after `n` bytes were found not to be a frame.  *)
Discard(n) ==
    /\ noise' = noise \o SubSeq(buf, 1, n)
    /\ buf' = SubSeq(buf, n + 1, Len(buf))

(* find(MAGIC) fails: all is noise but a last byte that may be half of it. *)
NoMagic ==
    LET keep == IF buf # <<>> /\ Last(buf) = M1 THEN 1 ELSE 0
    IN  /\ MagicAt(buf) = {}
        /\ Discard(Len(buf) - keep)
        /\ host' = "wait"
        /\ UNCHANGED frames

(* The decoder as found at the first magic, after the bytes before it have *)
(* been moved to the noise.                                                *)
HeaderLen == 4
Skipped == Min(MagicAt(buf)) - 1
Rest == SubSeq(buf, Skipped + 1, Len(buf))
LengthOf(b) == b[3] + Base * b[4]

(* The header or the payload is still incomplete.                          *)
WaitMore ==
    /\ MagicAt(buf) # {}
    /\ \/ Len(Rest) < HeaderLen
       \/ /\ Len(Rest) >= HeaderLen
          /\ LengthOf(Rest) <= MaxFrameLen
          /\ Len(Rest) < HeaderLen + LengthOf(Rest)
    /\ Discard(Skipped)
    /\ host' = "wait"
    /\ UNCHANGED frames

(* The length is absurd: not a header.  Skip one byte and scan again.      *)
Resync ==
    /\ MagicAt(buf) # {}
    /\ Len(Rest) >= HeaderLen /\ LengthOf(Rest) > MaxFrameLen
    /\ Discard(Skipped + 1)
    /\ UNCHANGED <<host, frames>>

TakeFrame ==
    /\ MagicAt(buf) # {}
    /\ Len(Rest) >= HeaderLen /\ LengthOf(Rest) <= MaxFrameLen
    /\ LET end == HeaderLen + LengthOf(Rest)
       IN  /\ Len(Rest) >= end
           /\ frames' = Append(frames, SubSeq(Rest, HeaderLen + 1, end))
           /\ noise' = noise \o SubSeq(buf, 1, Skipped)
           /\ buf' = SubSeq(Rest, end + 1, Len(Rest))
    /\ UNCHANGED host

Feed ==
    /\ host = "scan"
    /\ NoMagic \/ WaitMore \/ Resync \/ TakeFrame
    /\ UNCHANGED <<kernelVars, wire>>

-----------------------------------------------------------------------------
Emission == (\E p \in Pieces : Write(p)) \/ Emit \/ BlitFault \/ Put \/ Done

Decoder == (\E n \in 1 .. Len(wire) : Read(n)) \/ Feed

Next ==
    \/ \E a \in BOOLEAN : Tick(a)
    \/ Enter \/ Leave
    \/ \E k \in Kinds : BeginEvent(k)
    \/ BeginFault \/ ClassicLine
    \/ Emission
    \/ Decoder

Spec == Init /\ [][Next]_vars

(* The masked section is straight-line code and the host polls the fd.     *)
FairSpec ==
    /\ Spec
    /\ WF_vars(Emit \/ Put \/ Done)
    /\ WF_vars(Decoder)

-----------------------------------------------------------------------------
(* Properties.                                                             *)

Payloads == [i \in 1 .. Len(emitted) |-> emitted[i].payload]

(* Type invariant of the emission and decoder state.                       *)
TypeOK ==
    /\ nextId \in 1 .. MaxEvents
    /\ masked \in BOOLEAN /\ trap \in BOOLEAN
    /\ trapId \in -1 .. MaxEvents - 1
    /\ pc \in {"free", "build", "put"}
    /\ ev \in [kind : Kinds, id : 0 .. MaxEvents - 1, buf : Seq(Byte),
               overflow : BOOLEAN, prev : BOOLEAN]
    /\ Len(ev.buf) <= Capacity
    /\ asked \in Seq(Byte) /\ out \in Seq(Byte) /\ wire \in Seq(Byte)
    /\ emitted \in Seq([kind : Kinds, id : 0 .. MaxEvents - 1,
                        payload : Seq(Byte), all : Seq(Byte)])
    /\ rawSent \in Seq(Byte)
    /\ host \in {"wait", "scan"}
    /\ buf \in Seq(Byte) /\ noise \in Seq(Byte) /\ frames \in Seq(Seq(Byte))

(* What FrameDecoder has returned is, at every moment and for every way    *)
(* the stream was cut into chunks, a prefix of the payloads FrameBuf::emit *)
(* sent: no tick lands inside a frame, no payload that contains the magic  *)
(* and no noise before a frame shifts the boundaries.  Once the kernel is  *)
(* between emissions and all is read, every frame has been returned and    *)
(* the noise is exactly the banner and the raw lines: no byte is lost.     *)
DecodedIsEmitted ==
    /\ IsPrefix(frames, Payloads)
    /\ pc = "free" /\ wire = <<>> /\ host = "wait"
        => frames = Payloads /\ noise = rawSent /\ buf = <<>>

(* A frame carries everything its emitter wrote or, for an answer or a     *)
(* fault that did not fit, the fixed small report: FrameBuf never sends a  *)
(* truncated payload.                                                      *)
NoTruncation ==
    \A i \in 1 .. Len(emitted) :
        LET e == emitted[i]
        IN  \/ e.payload = e.all
            \/ e.kind \in Backed /\ e.payload = <<e.id>> \o Fallback

(* Frames go out in the order of the ids next_id() gave them, each id on   *)
(* at most one frame.                                                      *)
IdsInOrder ==
    \A i, j \in 1 .. Len(emitted) : i < j => emitted[i].id < emitted[j].id

(* An answer or a fault report that is begun reaches the operator, however *)
(* large it was: one never waits for ever for a frame that was dropped.    *)
AnswersArrive ==
    \A id \in 1 .. MaxEvents - 1 :
        (pc = "build" /\ ev.kind \in Backed /\ ev.id = id)
            ~> (\E i \in DOMAIN frames : frames[i][1] = id)

=============================================================================
