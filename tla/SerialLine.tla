----------------------------- MODULE SerialLine -----------------------------
(***************************************************************************)
(* The inbound serial line and everything in the kernel that takes bytes   *)
(* from it: the idle command loop (main.rs), the request reader (rpc.rs),  *)
(* the service window between two slices of a payload, the tick that       *)
(* stashes the byte it preempts for, and the tick that drains keys for the *)
(* payload that owns the keyboard (payload.rs, doom build).                *)
(*                                                                         *)
(* The operator sends whole messages one after the other; their bytes      *)
(* arrive one by one, with pauses of any length.  Each byte carries the    *)
(* number of its message and its place in it, which no consumer looks at.  *)
(* The length field has two bytes, least significant first (the code:      *)
(* four), so that one foreign byte in its upper part makes it absurd.      *)
(***************************************************************************)
EXTENDS Integers, Sequences, FiniteSets

CONSTANTS
    AA, NN,          \* the magic, 0xAA and 0x99
    Prefix,          \* KEY_PREFIX, 0xA5
    OpKill,          \* KEY_OP_KILL, 0x03
    Brace,           \* '{'
    RingDump,        \* 'r': dump the trap ring, by byte or by request
    SeedKey,         \* 'D': seed the suite whose payload reads the keyboard
    SeedPlain,       \* 'p': seed a suite that does not
    Byte,            \* the byte values in use, naturals
    Messages,        \* what the operator may send: [kind, bytes]
    MaxReq,          \* MAX_REQ
    MaxStallWaits,   \* MAX_STALL_WAITS
    KeyRingSize,     \* KEY_RING_SIZE
    CounterSpan,     \* KEY_HEAD and KEY_TAIL wrap at this value (2^64)
    MaxMessages,     \* bound on the messages sent
    None

Ascii == Byte \ {AA, NN, Prefix}

(* The magic, a length that read_request finds plausible and an object.    *)
IsFrame(m, n) ==
    /\ Len(m.bytes) > 4 /\ m.bytes[1] = AA /\ m.bytes[2] = NN
    /\ m.bytes[3] + 256 * m.bytes[4] = n /\ n <= MaxReq
    /\ m.bytes[5] = Brace /\ \A i \in 5 .. Len(m.bytes) : m.bytes[i] \in Ascii

(* A byte that makes a length absurd when it lands in the upper part.      *)
Upper(v) == 256 * v > MaxReq

(* A "request" is well formed; a "cut" one lacks the end of its body; a    *)
(* "key" is a row of pairs; a "command" is a single byte; a "stray" one is *)
(* a magic, or half of it, with nothing behind it.  No key is the prefix   *)
(* itself (it would be the release of '%').                                *)
WellFormed(m) ==
    /\ m.kind = "request" => IsFrame(m, Len(m.bytes) - 4)
    /\ m.kind = "cut" => \E n \in 1 .. MaxReq : n > Len(m.bytes) - 4 /\ IsFrame(m, n)
    /\ m.kind = "key" =>
        /\ Len(m.bytes) % 2 = 0
        /\ \A i \in DOMAIN m.bytes :
            IF i % 2 = 1 THEN m.bytes[i] = Prefix
                         ELSE m.bytes[i] # Prefix /\ Upper(m.bytes[i])
    /\ m.kind = "command" =>
        Len(m.bytes) = 1 /\ m.bytes[1] \in Ascii /\ Upper(m.bytes[1])
    /\ m.kind = "stray" => m.bytes = <<AA>> \/ m.bytes = <<AA, NN>>

(* A byte on the line, with the number of its message and its place there. *)
Tagging == [v : Byte, m : 1 .. MaxMessages, i : Nat]

ASSUME LineAssumption ==
    /\ Byte \subseteq Nat
    /\ {AA, NN, Prefix, OpKill, Brace, RingDump, SeedKey, SeedPlain} \subseteq Byte
    /\ AA # NN /\ AA # Prefix /\ NN # Prefix
    /\ \A m \in Messages :
        /\ m.kind \in {"request", "cut", "key", "command", "stray"}
        /\ m.bytes \in Seq(Byte) /\ m.bytes # <<>>
    /\ MaxReq \in Nat \ {0} /\ MaxStallWaits \in Nat /\ MaxMessages \in Nat
    /\ KeyRingSize \in Nat \ {0} /\ CounterSpan \in Nat
    /\ CounterSpan > KeyRingSize /\ CounterSpan % KeyRingSize = 0
    /\ None \notin Tagging

(* The messages are what they say, the magic and the prefix are no part of *)
(* a plausible length's upper byte, and neither is the kill byte when the  *)
(* lower one is the prefix (0x03A5 > 512).                                 *)
ASSUME MessageAssumption ==
    /\ \A m \in Messages : WellFormed(m)
    /\ Upper(AA) /\ Upper(NN) /\ Upper(Prefix)
    /\ MaxReq < 256 * OpKill + Prefix

VARIABLES
    msgs,      \* the messages sent so far
    rest,      \* what of the last one has not arrived
    uart,      \* bytes that have arrived and nobody has taken
    gap,       \* waits in a row without an arrival (history)
    place,     \* "idle", "serve" (run's service window) or "run"
    wants,     \* the suite's payload reads the keyboard
    alive,     \* the suite's payload has not ended
    drain,     \* the tick is draining keys
    stash,     \* STASHED_BYTE
    at,        \* the reader: "off", "magic", "len" or "body"
    lenb,      \* the length bytes read so far
    body,      \* the body bytes read so far
    opener,    \* the byte that called the reader
    waits,     \* getc_stall's idle counter
    pending,   \* KEY_PENDING
    ring,      \* KEY_RING
    head,      \* KEY_HEAD
    tail,      \* KEY_TAIL
    queued,    \* the keys put into the ring since the suite was seeded
    popped,    \* how many keys getkey has returned since then (history)
    effect     \* what the last step did with a byte (history)

feedVars == <<msgs, rest>>
readerVars == <<at, lenb, body, opener, waits>>
keyVars == <<pending, ring, head, tail, queued, popped>>
procVars == <<place, wants, alive, drain>>
vars == <<msgs, rest, uart, gap, place, wants, alive, drain, stash, at, lenb,
          body, opener, waits, pending, ring, head, tail, queued, popped, effect>>

-----------------------------------------------------------------------------
Tagged(n, m) == [i \in 1 .. Len(m.bytes) |-> [v |-> m.bytes[i], m |-> n, i |-> i]]
KindOf(b) == msgs[b.m].kind

Nothing == [what |-> "nothing"]
Executed(b) == [what |-> "command", by |-> b]
Dispatched(s) == [what |-> "dispatch", of |-> s]
GaveUp == [what |-> "gaveup", by |-> opener]
Killed(b) == [what |-> "kill", by |-> b]

EmptyRing == [k \in 0 .. KeyRingSize - 1 |-> None]

Init ==
    /\ msgs = <<>> /\ rest = <<>> /\ uart = <<>> /\ gap = 0
    /\ place = "idle" /\ wants = FALSE /\ alive = FALSE /\ drain = FALSE
    /\ stash = None
    /\ at = "off" /\ lenb = <<>> /\ body = <<>> /\ opener = None /\ waits = 0
    /\ pending = FALSE /\ ring = EmptyRing /\ head = 0 /\ tail = 0
    /\ queued = <<>> /\ popped = 0
    /\ effect = Nothing

-----------------------------------------------------------------------------
(* The operator.                                                           *)

Send(m) ==
    /\ rest = <<>> /\ Len(msgs) < MaxMessages
    /\ msgs' = Append(msgs, m)
    /\ rest' = Tagged(Len(msgs) + 1, m)
    /\ effect' = Nothing
    /\ UNCHANGED <<uart, gap, procVars, stash, readerVars, keyVars>>

Arrive ==
    /\ rest # <<>>
    /\ uart' = Append(uart, Head(rest))
    /\ rest' = Tail(rest)
    /\ gap' = 0
    /\ effect' = Nothing
    /\ UNCHANGED <<msgs, procVars, stash, readerVars, keyVars>>

-----------------------------------------------------------------------------
(* Seeding a suite, and where control goes.                                *)

(* seed_suite_*: the old suite is gone, keys and half a pair are forgotten *)
(* and run() is entered at its service window.                             *)
ClearKeys ==
    /\ pending' = FALSE /\ head' = 0 /\ tail' = 0
    /\ queued' = <<>> /\ popped' = 0
    /\ UNCHANGED ring

Seed(b) ==
    /\ place' = "serve" /\ wants' = (b = SeedKey) /\ alive' = TRUE
    /\ drain' = FALSE
    /\ ClearKeys

(* read_request is called on a first magic byte.                           *)
CallReader(b) ==
    /\ at' = "magic" /\ lenb' = <<>> /\ body' = <<>> /\ opener' = b /\ waits' = 0

-----------------------------------------------------------------------------
(* The idle loop: swallow_stray_key filters, then the byte is a command.   *)

SwallowStrayKey(b) == pending \/ b.v = Prefix

IdleByte ==
    /\ place = "idle" /\ at = "off" /\ uart # <<>>
    /\ uart' = Tail(uart)
    /\ LET b == Head(uart)
       IN  \/ /\ SwallowStrayKey(b)
              /\ pending' = ~pending
              /\ effect' = Nothing
              /\ UNCHANGED <<procVars, readerVars, ring, head, tail, queued, popped>>
           \/ /\ ~SwallowStrayKey(b) /\ b.v = AA
              /\ CallReader(b)
              /\ effect' = Nothing
              /\ UNCHANGED <<procVars, keyVars>>
           \/ /\ ~SwallowStrayKey(b) /\ b.v \in {SeedKey, SeedPlain}
              /\ Seed(b.v)
              /\ effect' = Executed(b)
              /\ UNCHANGED <<readerVars>>
           \/ /\ ~SwallowStrayKey(b) /\ b.v \notin {AA, SeedKey, SeedPlain}
              /\ effect' = IF b.v = RingDump THEN Executed(b) ELSE Nothing
              /\ UNCHANGED <<procVars, readerVars, keyVars>>
    /\ UNCHANGED <<feedVars, gap, stash>>

-----------------------------------------------------------------------------
(* The request reader, called from idle or from the service window.        *)

LengthOf(s) == s[1].v + 256 * s[2].v

Return ==
    /\ at' = "off" /\ lenb' = <<>> /\ body' = <<>> /\ opener' = None /\ waits' = 0

GiveUp ==
    /\ Return
    /\ effect' = GaveUp
    /\ UNCHANGED <<procVars, keyVars>>

ReadMagic(b) ==
    /\ at = "magic"
    /\ IF b.v = NN
       THEN /\ at' = "len" /\ waits' = 0
            /\ effect' = Nothing
            /\ UNCHANGED <<lenb, body, opener, procVars, keyVars>>
       ELSE GiveUp

Implausible(n) == n = 0 \/ n > MaxReq

ReadLength(b) ==
    /\ at = "len"
    /\ lenb' = Append(lenb, b) /\ waits' = 0
    /\ at' = IF Len(lenb') = 2 THEN "body" ELSE "len"
    /\ effect' = Nothing
    /\ UNCHANGED <<body, opener, procVars, keyVars>>

(* An implausible length is dropped before a byte of the body is read.     *)
DropLength ==
    /\ at = "body" /\ body = <<>> /\ Implausible(LengthOf(lenb))
    /\ GiveUp
    /\ UNCHANGED <<feedVars, uart, gap, stash>>

(* Mutant: the body is not looked at for transport junk.                   *)
AcceptableAny(s) == s[1].v = Brace

(* A complete body: UTF-8 (for the bytes in use, ASCII) and an object.     *)
Acceptable(s) == s[1].v = Brace /\ \A i \in DOMAIN s : s[i].v \in Ascii

(* A request to seed a suite is refused as busy while a payload is alive.  *)
Dispatch(s) ==
    LET seeds == {s[i].v : i \in DOMAIN s} \cap {SeedKey, SeedPlain}
    IN  IF ~alive /\ seeds # {}
        THEN \E v \in seeds : Seed(v)
        ELSE UNCHANGED <<procVars, keyVars>>

ReadBody(b) ==
    LET s == Append(body, b)
    IN  /\ at = "body" /\ ~Implausible(LengthOf(lenb))
        /\ IF Len(s) < LengthOf(lenb)
           THEN /\ body' = s /\ waits' = 0
                /\ effect' = Nothing
                /\ UNCHANGED <<at, lenb, opener, procVars, keyVars>>
           ELSE IF Acceptable(s)
           THEN /\ Return
                /\ effect' = Dispatched(s)
                /\ Dispatch(s)
           ELSE GiveUp

ReaderByte ==
    /\ uart # <<>>
    /\ uart' = Tail(uart)
    /\ LET b == Head(uart) IN ReadMagic(b) \/ ReadLength(b) \/ ReadBody(b)
    /\ UNCHANGED <<feedVars, gap, stash>>

(* Mutant: the empty polls are not counted.                                *)
WaitedNever == waits

(* getc_stall finds nothing: wait for the next tick, or give up.           *)
Waited == waits + 1

Stall ==
    /\ at # "off" /\ uart = <<>>
    /\ at = "body" /\ body = <<>> => ~Implausible(LengthOf(lenb))
    /\ gap' = IF gap > MaxStallWaits THEN gap ELSE gap + 1
    /\ IF Waited > MaxStallWaits
       THEN GiveUp
       ELSE /\ waits' = Waited
            /\ effect' = Nothing
            /\ UNCHANGED <<at, lenb, body, opener, procVars, keyVars>>
    /\ UNCHANGED <<feedVars, uart, stash>>

-----------------------------------------------------------------------------
(* run(): the service window, then the next slice or idle.                 *)

ServeByte ==
    /\ place = "serve" /\ at = "off"
    /\ LET b == IF stash # None THEN stash ELSE Head(uart)
       IN  /\ stash # None \/ uart # <<>>
           /\ uart' = IF stash # None THEN uart ELSE Tail(uart)
           /\ stash' = None
           /\ IF b.v = AA THEN CallReader(b) ELSE UNCHANGED readerVars
           /\ effect' = IF b.v = RingDump THEN Executed(b) ELSE Nothing
    /\ UNCHANGED <<feedVars, gap, procVars, keyVars>>

Resume ==
    /\ place = "serve" /\ at = "off" /\ stash = None /\ uart = <<>>
    /\ place' = IF alive THEN "run" ELSE "idle"
    /\ effect' = Nothing
    /\ UNCHANGED <<feedVars, uart, gap, wants, alive, drain, stash,
                   readerVars, keyVars>>

-----------------------------------------------------------------------------
(* The payload and the ticks that interrupt it.                            *)

(* It exits, faults or overruns its budget: back to run().                 *)
Leave ==
    /\ place = "run" /\ ~drain
    /\ place' = "serve" /\ alive' = FALSE
    /\ effect' = Nothing
    /\ UNCHANGED <<feedVars, uart, gap, wants, drain, stash, readerVars,
                   keyVars>>

(* maybe_preempt: the byte that betrays pending input is consumed and      *)
(* stashed, and served first.  A running payload has a resume frame        *)
(* (RunningHasFrame of module Scheduler), so none has to be allocated.     *)
Preempt ==
    /\ place = "run" /\ alive /\ ~wants /\ uart # <<>>
    /\ stash' = Head(uart) /\ uart' = Tail(uart)
    /\ place' = "serve"
    /\ effect' = Nothing
    /\ UNCHANGED <<feedVars, gap, wants, alive, drain, readerVars, keyVars>>

(* Mutant: CURRENT still names the payload in the service window.          *)
DeafAnywhere == wants

(* drain_keys, gated on the input-wanting payload being the running one.   *)
Deaf == place = "run" /\ wants

TickDrain ==
    /\ Deaf /\ alive /\ ~drain /\ uart # <<>>
    /\ drain' = TRUE
    /\ effect' = Nothing
    /\ UNCHANGED <<feedVars, uart, gap, place, wants, alive, stash,
                   readerVars, keyVars>>

(* Mutant: the counter does not wrap.                                      *)
BumpOn(n) == n + 1

(* wrapping_add(1).                                                        *)
Bump(n) == (n + 1) % CounterSpan

(* Mutant: one key too many fits.                                          *)
RingFullLate == (tail - head) % CounterSpan > KeyRingSize

RingFull == (tail - head) % CounterSpan >= KeyRingSize

(* A bare byte is discarded; a prefix arms the next one.                   *)
DrainBare(b) ==
    /\ ~pending
    /\ pending' = (b.v = Prefix)
    /\ effect' = Nothing
    /\ UNCHANGED <<alive, ring, head, tail, queued, popped>>

DrainKill(b) ==
    /\ pending /\ b.v = OpKill
    /\ pending' = FALSE
    /\ alive' = FALSE
    /\ effect' = IF alive THEN Killed(b) ELSE Nothing
    /\ UNCHANGED <<ring, head, tail, queued, popped>>

PushKey(b) ==
    IF ~alive \/ RingFull
    THEN UNCHANGED <<ring, tail, queued>>
    ELSE /\ ring' = [ring EXCEPT ![tail % KeyRingSize] = b]
         /\ tail' = Bump(tail)
         /\ queued' = Append(queued, b)

(* Mutant: the prefix stays in force for the bytes behind its partner.     *)
DrainKeySticky(b) ==
    /\ pending /\ b.v # OpKill
    /\ effect' = Nothing
    /\ PushKey(b)
    /\ UNCHANGED <<pending, alive, head, popped>>

(* The partner of a prefix is queued unless the payload is dead or the     *)
(* ring is full.                                                           *)
DrainKey(b) ==
    /\ pending /\ b.v # OpKill
    /\ pending' = FALSE
    /\ effect' = Nothing
    /\ PushKey(b)
    /\ UNCHANGED <<alive, head, popped>>

DrainByte ==
    /\ drain /\ uart # <<>>
    /\ uart' = Tail(uart)
    /\ LET b == Head(uart) IN DrainBare(b) \/ DrainKill(b) \/ DrainKey(b)
    /\ UNCHANGED <<feedVars, gap, place, wants, drain, stash, readerVars>>

(* The line is empty: back to the payload or, killed, to the scheduler.    *)
DrainEnd ==
    /\ drain /\ uart = <<>>
    /\ drain' = FALSE
    /\ place' = IF alive THEN place ELSE "serve"
    /\ effect' = Nothing
    /\ UNCHANGED <<feedVars, uart, gap, wants, alive, stash, readerVars,
                   keyVars>>

(* SYS_GETKEY.                                                             *)
GetKey ==
    /\ place = "run" /\ ~drain /\ head # tail
    /\ head' = Bump(head)
    /\ popped' = popped + 1
    /\ effect' = [what |-> "key", by |-> ring[head % KeyRingSize]]
    /\ UNCHANGED <<feedVars, uart, gap, procVars, stash, readerVars, pending,
                   ring, tail, queued>>

-----------------------------------------------------------------------------
Kernel ==
    \/ IdleByte \/ ReaderByte \/ DropLength \/ Stall
    \/ ServeByte \/ Resume
    \/ TickDrain \/ DrainByte \/ DrainEnd
    \/ Preempt

Next ==
    \/ \E m \in Messages : Send(m)
    \/ Arrive
    \/ Kernel
    \/ Leave \/ GetKey

Spec == Init /\ [][Next]_vars

(* The kernel's own steps go on: ticks keep waking a parked reader.        *)
FairSpec == Spec /\ WF_vars(Kernel)

-----------------------------------------------------------------------------
(* Properties.                                                             *)

(* Type invariant; the counters of the key ring stay inside their width.   *)
TypeOK ==
    /\ msgs \in Seq(Messages) /\ Len(msgs) <= MaxMessages
    /\ rest \in Seq(Tagging) /\ uart \in Seq(Tagging)
    /\ gap \in 0 .. MaxStallWaits + 1
    /\ place \in {"idle", "serve", "run"}
    /\ {wants, alive, drain, pending} \subseteq BOOLEAN
    /\ stash \in Tagging \cup {None} /\ opener \in Tagging \cup {None}
    /\ at \in {"off", "magic", "len", "body"}
    /\ lenb \in Seq(Tagging) /\ Len(lenb) <= 2
    /\ body \in Seq(Tagging) /\ Len(body) < MaxReq
    /\ waits \in 0 .. MaxStallWaits
    /\ ring \in [0 .. KeyRingSize - 1 -> Tagging \cup {None}]
    /\ head \in 0 .. CounterSpan - 1 /\ tail \in 0 .. CounterSpan - 1
    /\ queued \in Seq(Tagging) /\ popped \in Nat

(* What read_request hands to dispatch is the body of one request, whole   *)
(* and in order, or the body of a request its client cut short, filled up  *)
(* by command bytes alone: never a mix of two requests, and no consumer    *)
(* takes a byte out of the middle.                                         *)
DispatchIntact ==
    effect.what = "dispatch" =>
        LET s    == effect.of
            m    == msgs[s[1].m]
            own  == SubSeq(Tagged(s[1].m, m), 5, Len(m.bytes))
        IN  /\ SubSeq(s, 1, Len(own)) = own
            /\ m.kind = "request" => Len(s) = Len(own)
            /\ \A i \in Len(own) + 1 .. Len(s) : KindOf(s[i]) = "command"

(* Once its first byte has called the reader, a well-formed request is     *)
(* given up only because more than MAX_STALL_WAITS waits in a row passed   *)
(* without a byte while part of it was still to come: a slow client that   *)
(* keeps sending is never cut off, and no tick takes the reader's bytes.   *)
RequestNotLost ==
    effect.what = "gaveup" /\ KindOf(effect.by) = "request" /\ effect.by.i = 1
        => gap > MaxStallWaits /\ rest # <<>>

(* getkey returns the keys that were accepted since the suite was seeded,  *)
(* each once and in order: a full ring drops the newest and overwrites     *)
(* none, the counters may wrap, and no key of an earlier suite is left.    *)
KeysKept ==
    LET n == (tail - head) % CounterSpan
    IN  /\ Len(queued) = popped + n
        /\ \A k \in 1 .. n :
            ring[((head + k - 1) % CounterSpan) % KeyRingSize] = queued[popped + k]
        /\ effect.what = "key" => effect.by = queued[popped]

(* A key or an operator kill is the second byte of a pair the operator     *)
(* sent as one.  The exception is a request sent to a payload that owns    *)
(* the line whose length field holds the prefix: the byte after it counts  *)
(* as a key (a frame of 165 bytes), and never as a kill.                   *)
Partner(b) == KindOf(b) = "key" /\ b.i % 2 = 0
KeysGenuine ==
    /\ \A k \in DOMAIN queued :
        LET b == queued[k]
        IN  \/ Partner(b)
            \/ KindOf(b) \in {"request", "cut"} /\ b.i = 4
               /\ msgs[b.m].bytes[3] = Prefix
    /\ effect.what = "kill" => Partner(effect.by)

(* The reader always returns: a stray magic byte, a withheld body or an    *)
(* absurd length cannot wedge the command plane.                           *)
ReaderReturns == at # "off" ~> at = "off"

(* Once a tick has taken the prefix of a key pair, the second byte is      *)
(* never executed as a command nor read as the start of a request, also    *)
(* when the payload ends between the two.                                  *)
StrayKeySwallowed ==
    pending =>
        /\ effect.what = "command" => KindOf(effect.by) # "key"
        /\ opener # None => KindOf(opener) # "key"

=============================================================================
