# A TLA+ model of kernai

kernai is a small single-hart RISC-V kernel that an operator (usually an agent)
drives over one serial line. It runs embedded payload programs in U-mode, each
in its own address space and with its own capability set; reports everything as
framed JSON events; and can checkpoint, fork, preempt, kill and re-budget
payloads while they run. This directory holds TLA+ modules that model its core,
TLC configurations that check them on small instances, and proofs that hold for
every instance. `PROJECT.json` maps every definition to the lines it models.

## Inventory

| part | state | operations | interacts with |
|---|---|---|---|
| process table and scheduler (`payload.rs`, `traps.rs`, `syscall.rs`, `main.rs`) | `TABLE`, `CURRENT`, `SNAPS`, `LAST_SNAP`, `AUTO_FORK`, `STASHED_BYTE` | seed a suite, `run`, `start`, `reap_terminated`, exit, fault, `on_spawn`, `on_snapshot`, `enqueue_restore`, `on_tick`, `maybe_preempt` | the tick interrupts every part of it but trap handlers and `without_interrupts` closures |
| frame pool (`frames.rs`) | `BITMAP`, `NEXT_HINT`, `ALLOCATED` | `alloc`, `free`, `stats` | address spaces, register frames, snapshots |
| address spaces (`mm.rs`, `elf.rs`) | page tables in pool frames | `map_page`, `deep_copy`, `destroy`, ELF load | built by `start`, copied by snapshots and forks, destroyed by reaping |
| control plane (`rpc.rs`, `service_console`, `idle`) | opId table, the partially read frame | `read_request`, `run_suite`, `crash`, `kill`, `set_budget`, read-only resources | served in the idle loop and, mid-run, in the window `run` opens between payloads |
| trap ring, digest, cadence (`traps.rs`) | `RING`, `NOTABLE`, tallies, `NEXT_DEADLINE`, autonomy dial | `handle`, `ring_record`, `write_digest`, `arm_first_tick` | written in trap context, read by the control plane |
| keyboard input (`payload.rs`, doom builds) | `KEY_RING`, `KEY_PENDING` | `drain_keys`, `swallow_stray_key`, `on_getkey`, `clear_keys` | shares the serial line with the control plane |
| event stream (`console.rs`, `events.rs`) | `NEXT_ID`, the `FrameBuf` of the event under way | `next_id`, `write_str`, `emit`, the fallbacks of `emit_rpc` and `emit_fault` | every part emits through it, with interrupts masked |
| host framing (`harness/framing.py`, `harness/transport.py`) | `_buf`, `noise` | `encode_frame`, `feed`, `next_frame` | reads the kernel's stream in chunks of any size |
| hal (`hal/`) | CSRs | trap vector, `__resume_user`, boot | |
| rest of the host side (`harness/`, `refimpl/`) | scripted operators | drive, assert | talks to the kernel over the serial line |

What is hard here: the timer tick interrupts the scheduler itself; a payload
leaves the hart through a rewritten trap frame, so the scheduler never returns;
requests are served between a payload's end and its reaping; a preemption, a
checkpoint and a first start all go through the same resume frame; frames move
between the pool, slots and snapshots along many paths, some of which fail half
way; four pieces of code take bytes from one serial line, and a frame read by
one may be continued by another; clients retry calls whose answer they lost; the
stream out is cut anywhere and shares the line with raw text. `PROJECT.json`
lists these hazards at their lines.

What makes the parts correct: the scheduler, the tick and the control plane
agree on which payload is on the hart; every frame has one owner and comes back;
the page table in use is never freed; capabilities never grow; a payload is
announced before it acts and ends once, with one terminal event; a deadline counts from the first start;
a silent payload cannot keep the operator out; the allocator never hands out a
taken frame and never misses a free one; a request is dispatched whole or not at
all, a key is a key and nothing else; a call the opId table guards is not executed
twice, and a retried one is executed once; an address space shares nothing, is returned
whole and lets its payload reach nothing else; what the host decodes is what the
kernel emitted.

## Modules

* `Scheduler` models the process table, the scheduler, the tick, the syscalls
  that change the table, and the control plane as the table sees it. The
  variables are the fields of `Slot` (as functions of the pid), `CURRENT`, the
  snapshots, the pool as the set `allocated`, `satp`, and `pc`, the place in the
  code where the hart is. The kernel's own code is split where a tick sees a
  difference or the order matters: `launch1` and `launch2` are the two
  interruptible points of `start` at which `CURRENT` already names the payload, and
  `reap` lies between `run`'s switch to the kernel's page table (`Run`) and its first
  `reap_terminated` (`RunReaps`), so that reaping too early would show. The second
  reaping is part of `ServiceEnd`. In the places other than the launch points a tick
  finds no current payload and changes only the clock. A tick that ends the payload
  passes its slot through `OperatorKill`, once for each kill key `drain_keys` met (up
  to the double Ctrl-C its comment speaks of), and then through `DeadlineKill`
  (`on_tick`), in the order of `traps::handle`. The history variable `ends` counts the
  terminal events emitted for the payload in each slot: `payload_exit`, the fault
  frame, the load fault and the kill events.
* `FramePool` models the allocator to the bit; `FramePoolSpec` says what a pool
  promises: a set of taken frames, an answer that was free, a refusal only when
  none is.
* `TrapLog` models what `traps.rs` remembers: both rings, the tallies, the
  autonomy dial and the deadline of the next tick. A trap is one step (interrupts
  are off in the handler), and `write_ring` and `write_digest` are operators on
  the state, because every caller reads with interrupts masked. A slot keeps the
  trap's number and cause only. The history variable `log` lists every trap.
* `SerialLine` models the inbound line byte by byte, with everyone who takes bytes
  from it: `idle`, `read_request` with `getc_stall`, `service_console` with the
  stashed byte, and the tick's `drain_keys`; and the key ring behind the last. It is
  the doom build, in which all four are compiled in. Each byte carries the
  message it came from (a history the code never looks at), so a property can
  say whose byte ended up where. `place` says which loop the hart is in, `at`
  how far `read_request` has got; payloads are reduced to whether one is alive
  and whether it wants keys. `effect` is the visible result of the last step.
* `ControlPlane` models `handle_tools_call`: validation, the busy guard, the opId
  table and the act, in the order the code has for each tool, against clients
  that fire twice, lose answers and retry. `handled` lists the calls that got past
  the table, which `run_suite`, `crash`, `kill` and `set_budget` consult and the two
  dials do not. Bytes are in `SerialLine`, payloads in full in `Scheduler`.
* `AddressSpace` models `mm.rs` and the loader: a frame is a table of entries and a
  page of data at once, an address space is a tree under a root, `MapPage`
  returns the memory it leaves behind also when it fails. `job` is the space the
  kernel is building, for a load, a checkpoint or a restore. Freed frames get
  contents nobody may rely on, so a missing zeroing would show.
* `EventStream` models the outbound line: the id counter, the masked sections, the
  buffer and its overflow, the fallbacks, the bytes, and `FrameDecoder.feed` on the
  other side. A tick is one step; any other emission is one step per piece
  written and per byte put, so that a tick could land anywhere the mask allows.
* `MCScheduler`, `MCSerialLine`, `MCControlPlane`, `MCAddressSpace` and `MCEventStream`
  give the images, suites, messages, calls and pieces used by TLC; the images and
  suites are cut down from `IMAGES` and the `seed_suite_*` functions.
* `SchedulerProofs`, `MemoryProofs`, `FramePoolProofs`, `TrapLogProofs`,
  `ControlPlaneProofs`, `SerialLineProofs`, `EventStreamProofs` and
  `AddressSpaceProofs` hold the theorems.

How the modules fit together. `Scheduler` counts the bytes `SerialLine` spells out and
takes an address space as the one frame `AddressSpace` expands; `AddressSpace` takes
from the pool `FramePool` implements; `ControlPlane` and `SerialLine` keep of the
scheduler the transitions `Scheduler` has (run, preempt, end, resume or idle).
`SerialLine!Preempt` allocates no frame because `RunningHasFrame`, proved of
`Scheduler`, says a running payload has one.

Abstractions of `Scheduler`. An address space is one frame, its root. Its other
frames belong to the root and are taken and returned with it; because they come
from the same pool, building or copying one may fail at any time, whatever the
model's pool holds (`LoadFailed`, and `SuiteDone` with continuations owed). A
checkpoint that fails changes nothing, so it needs no action. Time is the time
since a payload's start, saturated above every deadline. Input bytes are
counted; what a byte and the rest of its frame ask for is chosen when it is
consumed, because nothing looks at it before. When a frame holding S-mode
registers is resumed (see below), the model lets the hart re-execute the
abandoned launch or fault in S-mode, which are the outcomes possible on a stack
that has been reused.

## Runs

| run | shows | instance |
|---|---|---|
| `scheduler` | the invariants and action properties of the table, the hart and the pool; the control plane is reached and budgeted suites end | 2 slots, 1 snapshot, 6 frames, 3 suites (a delegator with one continuation, a runaway with a deadline and a worker, a keyboard payload), deadlines 0 and 1, clock up to 2, one byte in the line besides the stashed one; 284 589 states |
| `delegation` | attenuation and the causal anchor over a two-hop chain | 3 slots, 1 snapshot, 6 frames, every request of capabilities; 2.6 million states |
| `frame_pool` | count, types and refinement of `FramePoolSpec` | 5 frames, every address below, in and above the pool, aligned or not; 321 states |
| `trap_log` | the ring is the end of the log, the digest's totals are exact and its items the newest notable traps under every budget, the tick neither bursts nor drifts | a ring of 3, a notable ring of 2, 6 traps, an interval of 2, ticks up to 3 late; 24 302 states |
| `event_stream` | decoded = emitted, no truncation, ids in order, answers arrive | 4 byte values of which 2 are the magic, a length field of 2 bytes, a buffer of 3, frames up to 4, 3 events, one banner; 266 000 states |
| `serial_line` | requests dispatched whole, never lost to another consumer, keys genuine and kept, the reader returns | 9 byte values, 9 kinds of message, any 3 of them, bodies up to 3 bytes, 1 stall wait, a ring of 2 with counters of 2 bits; 217 000 states |
| `control_plane` | no replay of the four guarded tools within the window is executed, a persistent client is served | 7 calls covering every mutating tool but `set_surface`, which has the shape of `set_autonomy`; with and without id, valid or not, 2 opId slots, 2 pids, 1 lost answer; 137 000 states |
| `address_space` | no frame lost or shared, isolation, faithful checkpoints | 2 slots, 1 snapshot, 13 frames, tables of 2 entries, 10 images, 8 of them malformed or colliding; 347 000 states |

Why the bounds are enough. Two slots give a payload and its child, a killed
payload beside a live one, and a table that is full; three give a chain with
two hops, where a set could widen at the second. Six frames are the kernel's
root, two for each of two address spaces and one left over, so a third address
space fails: the pool is exhausted in reachable states and every failure path
is taken. One snapshot is enough for a checkpoint of a checkpointed
continuation to be refused. A deadline of 1 with ticks of 1 or 2 units gives a
payload that is below, at and above its deadline. The keyboard payload can be given
that deadline before it starts, so kill keys and deadline meet in one tick. Six traps wrap a ring of three
twice; a lateness of 0 to 3 with an interval of 2 is less than an interval,
exactly one, and more. `trap_log` ends after six traps, so deadlock is not checked
there.

In `serial_line` three messages are enough for a suite, a key pair and a request
to overlap in every way; the prefix is also a plausible length byte and one key
is also a command, another the first magic byte, so every confusion the
protocol must exclude can be spelled. Counters of two bits wrap several times.
In `control_plane` two slots are filled and overwritten by the four calls with ids
that the table guards, and `runA` may be fired again and again after a refusal or a lost answer. In
`address_space` thirteen frames hold one payload and its checkpoint and run out
inside the third space, at every point of its construction depending on what
was built before. In `event_stream` a piece that is the magic itself stands for
payload bytes that look like a header, and the banner ends with half a magic after
a header with an absurd length. These four runs end when their bounds are reached
(ids, messages, firings) or, in `address_space`, when a leak has emptied
the pool, so deadlock is not checked there. The theorems remove these bounds for
every safety property of all eight passing runs.

Fairness. `FairSpec` assumes that the hart goes on executing kernel code once
there (it never blocks: `wait_for_interrupt` returns at the next tick) and that
the timer keeps firing (the handler re-arms it before anything else). Nothing is
assumed of payloads, which may spin for ever, nor of the operator, who may be
silent. `BudgetedSuiteEnds` therefore assumes in the property itself that the
operator is silent and that live payloads have deadlines: a checkpoint
continuation has none (`enqueue_restore` stores 0), and a suite that forks may
run for ever.

In `EventStream` the emission of a frame goes on once built (it is straight-line
code with interrupts masked) and the host keeps reading; nothing forces an event
to begin or its writing to stop. In `SerialLine` only the kernel's own steps are
fair: ticks wake a reader parked in `wait_for_interrupt`; operator and payload may
do nothing for ever. In `ControlPlane` the service window ends (weak fairness: the
line is empty at some time), a payload that is on the hart again and again ends
(strong: preemption loses none of its progress; `RunEventually` is about suites
that do end), and a client that retries is heard again and again (strong, and
only for clients with a valid `run_suite` and an id).

The other four runs look for a violation of what the repository says and find
one. Each finding is described in `PROJECT.json`:

* `launch_window`: a tick that preempts in the launch window saves the kernel's
  own S-mode registers as the payload's, and the next resumption does not enter
  U-mode.
* `suite_lost`: a `run_suite` served after the last exit of a suite and before
  its `suite_done` is accepted, and that `suite_done` never comes.
* `kill_reseed_leak`: `kill` and then `run_suite` in one service window lose the
  killed payload's frames.
* `stray_key`: when a keyboard payload ends between the two bytes of a key pair, the
  service window, which does not look at `KEY_PENDING`, executes the second byte.

The passing properties are stated so that they hold in spite of these:
`PreemptedKeepsPlace` allows the kernel's registers where `ResumesIntoUser` does
not, `AnchorBeforeEvents` speaks of payloads whose registers are their own, and
`LeaksOnlyOnReseed` says that the one leak found is the only one.

Smaller deviations met while modelling, which the properties word around or
which no property is about:

* A deadline kill in the launch window precedes `payload_start` and names event 0
  as its cause (`payload.rs:1820`; the comment at 425-427 promises the start).
* After a suite that checkpoints, the pool is above its baseline until the next
  suite is seeded (`payload.rs:508`; `docs/DESIGN.md:158-160` says it returns exactly).
* The digest does not rank by severity: a syscall after a fault takes the only
  item of a budget of 1 (`traps.rs:428-435`), although `docs/SPEC.md:137-138`,
  `docs/HANDOFF.md:77`, `docs/DECISIONS.md:496-498` and `harness/runner.py:718` say that a small
  budget preserves the high-severity events; the test at `runner.py:744` passes because
  its fault is the last notable trap of its suite. `DigestTellsTruth` states the choice by
  age, which is what the code's own comment says (`traps.rs:407-410`), and says nothing about
  severity.
* `set_surface` and `set_autonomy` act on every firing and ignore the opId
  (`rpc.rs:254-281`; the header, 17-19, says mutating calls are idempotent). Setting
  a dial twice to the same value is harmless; replaying an old one, after another call
  has set the dial back, is not. `ReplayWindow` is about the other four tools: `handled`
  does not list dials.
* A request of 165 bytes sent to a payload that owns the line has the key prefix as
  its length byte, and the next byte becomes a key (`payload.rs:1474`; the comment
  at 1415-1418 says a frame's bytes are never keys). `KeysGenuine` names the exception.
* A request cut short by its client may be completed by later command bytes, and
  the tail of one that was given up is read as commands. `DispatchIntact` and
  `RequestNotLost` say that no other mixture happens.
* `map_segment` forgets a frame when a segment's file bytes lie outside the image
  (`elf.rs:170-172`), and `free_subtree` steps over the pages of a segment without any
  right (`mm.rs:309`; the comment at 266 says every user frame is freed). The images
  are built into the kernel and none is like that; `FramesAccounted` says that
  these two are the only ways to lose a frame.
* `copy_from_user` refuses a page of a window (`phys_read` is bounded to the pool),
  though the payload can read it.
* The comment in `maybe_preempt` (1301-1304) on what happens when no frame can be
  allocated describes a branch that is never taken (`PreemptionFindsFrame`).

## Proofs

TLAPS proves every safety property the passing runs check, invariants and action
properties alike, for every value of the constants: table sizes, numbers of
snapshots, pools, images, suites, ring sizes, messages, calls, pieces and capacities.
Each theorem rests on one inductive invariant, proved action by action.

* `SchedulerProofs`. `HartInv` conjoins `TypeOK`, `RunningIsCurrent`,
  `IdleHasNoPayload`, `RunningHasFrame` and `SpaceWithFrame` (a slot with a resume
  frame has an address space). The last is what makes the others inductive:
  `StartResume` puts a queued payload on the hart and must know that it has
  both. `PreemptEffect` draws the consequence that `maybe_preempt` never takes
  its allocating branch. `NoWidening` follows with `IdentitySteps`, which says
  that only seeding, spawning, checkpointing and forking touch an identity.
  `PreemptedKeepsPlace` is inductive with `HartInv`, and is what the clock needs: a
  suspended payload is never started afresh. `EndIsFinal` rests on `OneEnd`: a terminal
  slot has had one terminal event and any other none, which is inductive because
  whoever ends a payload finds it alive; `TickKillsOnce` shows it of a tick with kill
  keys and a deadline at once. `AnchoredFirst` adds `Announced`, where
  the anchor is in each waiting state, and `Attenuation`, from which a spawner's
  slot is still its own.
* `MemoryProofs`. All references to frames are numbered uniformly (`Refs`, `At`),
  and every step either drops references and frees their frames, or gives two
  fresh frames to two references, or leaves memory alone (`MemorySteps`).
  `OneOwnerPerFrame` is one lemma for each kind. `ActiveTableKept` adds
  `PageTableInUse`: the kernel's table is in use wherever frames are freed.
  `OnlyReseedLeaks` adds `Vacant`: where a reference is overwritten it was empty,
  except when `run_suite` reseeds in the service window.
* `FramePoolProofs`. `IndInv` is the type invariant with the exact count;
  `ProbesMeetAll` says that the wrapping search looks at every frame, whatever
  the hint, and carries the refinement of `FramePoolSpec`.
* `TrapLogProofs`. `RingInv` says where each of the last traps lies; it needs
  `SlotsDiffer`, that numbers less than a ring apart have different slots.
  `DigestInv` adds exact tallies and, for each slot of the notable ring, how many
  notable traps are newer.
* `ControlPlaneProofs`. `TableInv` ties the opId table to the history: slot
  `(i - 1) % OpSlots` holds the hash of the i-th handled call as long as fewer than
  `OpSlots` calls followed it, and a slot that is not 0 holds the hash of some
  handled call. `ReplaysHarmless` needs the first half, `NoFalseDuplicate` (a client
  is told "duplicate" only of an id whose hash was handled) the second; that no
  hash is 0 comes from `fnv1a`'s final `| 1`.
* `SerialLineProofs`. `LineInv` is the types with `RingInv`, from which wrapping
  counters are as good as unbounded ones. `StreamInv` says where every byte
  is: the bytes nobody has taken follow one another up to the end of the last
  message (`Chain`); what the reader holds is the beginning of the frame that
  called it and lies right before the line (`FrameRead`); when that frame was cut
  short, what it holds beyond is commands, or already spoilt by a byte that is not
  ASCII (`Filled`); the stashed byte and a prefix taken by a tick are the last bytes
  taken (`StashInv`, `PrefixInv`); and a tick never drains while the reader reads
  (`ControlInv`). Each property is then a fact about one step from such a state.
* `EventStreamProofs`. `KernelInv`: while an event is under way SIE is clear
  (`MaskInv`) and its id is the newest (`IdInv`), which gives `IdsOrdered`; `WholeInv`
  ties the buffer to what was written, which gives `PayloadsWhole`. For the decoder,
  `DecodeInv` reads buffer, wire and the rest of the frame being put as one stream
  and says that it is a path of spots, each raw text or the start of a frame, that
  begins behind what has been decoded: the decoder can look for the magic only in
  raw text, never in a payload. One lemma per branch of `feed` (wait, discard,
  resynchronise, take) keeps the path, and `WaitInv` says what a decoder that waits
  has in its buffer.
* `AddressSpaceProofs`. `SpaceInv` says that memory is a forest: every frame has a
  role (free, root, level-one table, level-zero table, page, registers, lost, or in
  the kernel's hand), tables have only entries that fit their level, and every frame
  below a root is named by exactly one entry. `Take`, `Give`, `Walk`, `MapPage` and
  `Destroyed` each have a lemma saying how they change the roles, for success and for
  every failure half way; the actions only combine them. `CopyInv` is the loop
  invariant of `deep_copy` (the copy agrees with its source before the page under
  way and maps nothing behind it), and `KeptInv` that a checkpoint still shows what it
  showed; both survive other jobs because trees that share nothing cannot write
  into each other.

Assumptions. They are the named `ASSUME`s of the modules, and TLC evaluates each on
the instance of its run. Most are types: sizes are positive, the
kernel's root is a frame, images have ceilings and budgets, the markers for "none"
are no values. These say more:

* `SerialLine`, `LineAssumption`: the counters of the key ring count a multiple of its
  size (2^64 and 64 in the code; otherwise a wrap would tear the ring).
* `SerialLine`, `MessageAssumption`: what is sent is what it says (a request is a whole
  frame around an object, a cut one is the beginning of such a frame, keys come in
  pairs). `MAX_REQ` is 512, so a magic byte, a prefix, a key or a command in the upper part
  of a length makes the length absurd, and so does the kill byte behind a lower part that
  is the prefix (0x03A5 > 512): this is why no frame can spell a kill. A key
  byte is not the prefix itself, which would be the release of `%`; the
  host's scripts send no such key.
* `EventStream`, `BannerAssumption`: what the firmware prints is no frame: a magic in it,
  or one that begins in it, announces a length above `MAX_FRAME_LEN`. Without it the
  decoder, which knows nothing but the bytes, takes the banner for a frame.
* `AddressSpace`, `LoadAssumption`: a segment covers at least one page (the loop in
  `map_segment` does nothing for one that covers none, which the model leaves
  out); the kernel's memory and a window are not pool frames.

`RequestNotLost` speaks of a request whose first byte called the reader. The byte of
a request that is the first magic byte by chance (its length may be 170) can
call the reader too, when a payload that owned the line dropped the bytes before it
and then ended; that reader finds no magic and gives up, as it should.

Only model-checked, because liveness and fairness are out of the prover's reach:
`ControlPlaneResponsive` and `BudgetedSuiteEnds` (`Scheduler`), `AnswersArrive`
(`EventStream`), `ReaderReturns` (`SerialLine`) and `RunEventually` (`ControlPlane`). The
four properties that are violated are, of course, not theorems.

## Not modelled

The text of events: escaping, number formatting, base64 and pixel ramps; a
payload behind its id is opaque bytes. The structural JSON reader (`rpc.rs`
572-705), a pure function of the request's text. Boot code and CSR access (one
instruction or one call each). The panic frame, which is followed by a
shutdown. The illegal-instruction command byte `x` in `SerialLine` (`Scheduler`
has it as `Crash`). The payload programs (a payload is any sequence of
syscalls, faults and stores), the host's scripts, and the reference daemon, a
sequential twin of the control plane used to test the host against.

## Plan

All safety properties the runs check are theorems. What would add most now:

1. Invariants that so far live only in proofs and say something about the code on
   their own (`HartInv`'s `SpaceWithFrame`, `MaskInv`, `ControlInv`) as stated results.
2. Safety halves of the liveness properties, which the prover can reach: for
   `ReaderReturns`, that every step of the reader shortens what it may still read or
   wait for; for `BudgetedSuiteEnds`, that a clock above a deadline is never left
   running by a tick.
3. That `AddressSpace` takes from and gives to the pool only as `FramePoolSpec` allows.
