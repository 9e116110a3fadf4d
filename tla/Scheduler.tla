----------------------------- MODULE Scheduler -----------------------------
(***************************************************************************)
(* The process table and scheduler of the kernai kernel: payload.rs, with  *)
(* the parts of traps.rs (timer tick, redirect), syscall.rs (exit, spawn,  *)
(* snapshot), main.rs (idle loop) and rpc.rs (run_suite, crash, kill,      *)
(* set_budget) that change its state.                                      *)
(*                                                                         *)
(* One hart.  The kernel runs with interrupts on everywhere except in trap *)
(* handlers and in the closures of without_interrupts, so the model splits *)
(* the scheduler only where a timer tick can see a difference: at the      *)
(* points where CURRENT names a payload.  "pc" says where the hart is:     *)
(*   idle     main::idle, waiting for a command byte                       *)
(*   run      payload::run entered                                         *)
(*   reap     run: under the kernel's page table, about to reap            *)
(*   service  the loop of service_console                                  *)
(*   pick     after it, about to choose a payload                          *)
(*   launch1  start: CURRENT stored, payload_start not yet emitted         *)
(*   launch2  start: about to mask interrupts in __resume_user             *)
(*   user     a payload executes in U-mode                                 *)
(*   halted   the machine is shut down                                     *)
(*                                                                         *)
(* Abstractions.  An address space is one frame, its root: building one    *)
(* may fail at any time, because its page tables and pages come from the   *)
(* same pool.  Time since a payload's start saturates at MaxAge, above     *)
(* every deadline.  Input bytes waiting in the UART are counted; what a    *)
(* byte (with the rest of its request frame) asks for is chosen when it is *)
(* consumed, since nothing looks at it earlier.                            *)
(***************************************************************************)
EXTENDS Integers, Sequences, FiniteSets

CONSTANTS
    MaxProc,      \* MAX_PROC: slots of the process table
    MaxSnap,      \* MAX_SNAP: snapshots per suite
    Frame,        \* the frames of the pool
    NoFrame,      \* 0: no frame
    KernelRoot,   \* the kernel's own root frame
    Cap,          \* the capabilities
    SpawnCap,     \* Cap::Spawn
    Image,        \* the embedded payload images
    Ceiling,      \* Ceiling[i]: capabilities image i may ever hold
    Budget,       \* Budget[i]: its deadline, 0 for none
    Spawnable,    \* the images a payload may spawn
    KeyImages,    \* images that own the serial line (image_wants_input)
    Suites,       \* the suites: [images: sequence, fork: AUTO_FORK]
    Deadlines,    \* the values set_budget may store
    MaxAge,       \* bound of the model's clock, above every deadline
    TickUnits,    \* most time units between two ticks
    MaxUart       \* bound on the input waiting in the UART

Pid == 0 .. MaxProc - 1
NoPid == MaxProc
Snap == 1 .. MaxSnap

ASSUME SizeAssumption ==
    /\ MaxProc \in Nat \ {0}
    /\ MaxSnap \in Nat \ {0}
    /\ MaxAge \in Nat
    /\ TickUnits \in Nat \ {0}
    /\ MaxUart \in Nat \ {0}

ASSUME FrameAssumption == KernelRoot \in Frame /\ NoFrame \notin Frame

ASSUME ImageAssumption ==
    /\ Image # {}
    /\ SpawnCap \in Cap
    /\ Ceiling \in [Image -> SUBSET Cap]
    /\ Budget \in [Image -> 0 .. MaxAge]
    /\ Spawnable \subseteq Image
    /\ KeyImages \subseteq Image
    /\ Deadlines \subseteq 0 .. MaxAge
    /\ \A s \in Suites : s.images \in Seq(Image) /\ s.fork \in Nat

VARIABLES
    state, image, caps, parent, deadline,   \* the fields of Slot
    ends,          \* history: terminal events emitted for the slot's payload
    age,           \* now - started_at, saturated
    root, resumeFrame,
    context,       \* what the resume frame holds
    preempted,
    anchor,        \* start_event is set: payload_start has been emitted
    current,       \* CURRENT
    satp,          \* the root frame the hart translates with
    pc,            \* where the hart is
    allocated,     \* the frames taken from the pool
    snaps, lastSnap, autoFork,
    uart, stash,   \* bytes waiting; STASHED_BYTE is nonzero
    suiteOpen      \* history: a suite was seeded and not yet announced done

life == <<state, ends>>
identity == <<image, caps, parent>>
timing == <<deadline, age>>
memory == <<root, resumeFrame, allocated>>
checkpoints == <<snaps, lastSnap, autoFork>>
input == <<uart, stash>>
vars == <<life, identity, timing, memory, context, preempted, anchor,
          current, satp, pc, checkpoints, input, suiteOpen>>

Terminal == {"exited", "faulted", "killed"}
States == {"empty", "pending", "running"} \cup Terminal

(* A resume frame holds the entry frame init_frame_to wrote, a checkpoint, *)
(* the user registers saved by a preemption, or the registers of start     *)
(* itself, interrupted in S-mode at one of its launch points.              *)
KernelContext == {"launch1", "launch2"}
UserContext == {"entry", "checkpoint", "suspended"}
Context == KernelContext \cup UserContext

Places == {"idle", "run", "reap", "service", "pick", "launch1", "launch2",
           "user", "halted"}

Image0 == CHOOSE i \in Image : TRUE

NoSnapshot == [valid |-> FALSE, root |-> NoFrame, frame |-> NoFrame,
               caps |-> {}, image |-> Image0]

Snapshot == [valid : BOOLEAN, root : Frame \cup {NoFrame},
             frame : Frame \cup {NoFrame}, caps : SUBSET Cap, image : Image]

-----------------------------------------------------------------------------
(* Helpers of payload.rs and frames.rs.                                    *)

Free == Frame \ allocated

(* Two distinct free frames: the root of an address space and a frame that *)
(* holds registers.                                                        *)
FreshRoot == CHOOSE f \in Free : TRUE
FreshFrame == CHOOSE f \in Free \ {FreshRoot} : TRUE
TwoFree == \E f, g \in Free : f # g

Alive(p) == state[p] \in {"pending", "running"}
any_alive == \E p \in Pid : Alive(p)

(* A new address space and a frame for registers, given to slot p.         *)
(* Mutants: the root, or the register frame, is not stored in the slot.    *)
TakeSpace_RootLost(p) ==
    /\ allocated' = allocated \cup {FreshRoot, FreshFrame}
    /\ root' = root
    /\ resumeFrame' = [resumeFrame EXCEPT ![p] = FreshFrame]

TakeSpace_FrameLost(p) ==
    /\ allocated' = allocated \cup {FreshRoot, FreshFrame}
    /\ root' = [root EXCEPT ![p] = FreshRoot]
    /\ resumeFrame' = resumeFrame

TakeSpace(p) ==
    /\ allocated' = allocated \cup {FreshRoot, FreshFrame}
    /\ root' = [root EXCEPT ![p] = FreshRoot]
    /\ resumeFrame' = [resumeFrame EXCEPT ![p] = FreshFrame]

(* enqueue fills the first EMPTY slot; take_next_pending takes the first   *)
(* PENDING one.  Mutant: only the first slot is looked at.                 *)
FirstIn(st, p) == state[p] = st /\ \A q \in Pid : q < p => state[q] # st
NoneIn_FirstSlot(st) == state[0] # st
NoneIn(st) == \A p \in Pid : state[p] # st

(* started_at has been stored and the slot is still alive.                 *)
Started(p) == state[p] = "running" \/ (state[p] = "pending" /\ preempted[p])

AtMost(n, m) == IF n < m THEN n ELSE m
Aged(dt) == [p \in Pid |-> IF Started(p) THEN AtMost(age[p] + dt, MaxAge)
                                          ELSE age[p]]

-----------------------------------------------------------------------------
Init ==
    /\ state = [p \in Pid |-> "empty"]
    /\ ends = [p \in Pid |-> 0]
    /\ image = [p \in Pid |-> Image0]
    /\ caps = [p \in Pid |-> {}]
    /\ parent = [p \in Pid |-> NoPid]
    /\ deadline = [p \in Pid |-> 0]
    /\ age = [p \in Pid |-> 0]
    /\ root = [p \in Pid |-> NoFrame]
    /\ resumeFrame = [p \in Pid |-> NoFrame]
    /\ context = [p \in Pid |-> "entry"]
    /\ preempted = [p \in Pid |-> FALSE]
    /\ anchor = [p \in Pid |-> FALSE]
    /\ current = NoPid
    /\ satp = KernelRoot
    /\ pc = "idle"
    /\ allocated = {KernelRoot}
    /\ snaps = [s \in Snap |-> NoSnapshot]
    /\ lastSnap = 0
    /\ autoFork = 0
    /\ uart = 0
    /\ stash = FALSE
    /\ suiteOpen = FALSE

-----------------------------------------------------------------------------
(* A trap handler sends the departing payload's hart to scheduler_resume.  *)
(* Mutant: CURRENT is not cleared on the way.                              *)
Redirect_StaleCurrent == current' = current /\ pc' = "run"
Redirect == current' = NoPid /\ pc' = "run"

Dead == {p \in Pid : state[p] \in Terminal}

(* reap_terminated returns a terminal payload's frames.                    *)
(* Mutants: the slot keeps its references; the register frame is forgotten *)
(* without being freed.                                                    *)
Reap_NoSwap ==
    /\ allocated' = allocated \ ({root[p] : p \in Dead}
                                 \cup {resumeFrame[p] : p \in Dead})
    /\ UNCHANGED <<root, resumeFrame>>

Reap_RootOnly ==
    /\ allocated' = allocated \ {root[p] : p \in Dead}
    /\ root' = [p \in Pid |-> IF p \in Dead THEN NoFrame ELSE root[p]]
    /\ resumeFrame' = [p \in Pid |-> IF p \in Dead THEN NoFrame
                                                   ELSE resumeFrame[p]]

Reap ==
    /\ allocated' = allocated \ ({root[p] : p \in Dead}
                                 \cup {resumeFrame[p] : p \in Dead})
    /\ root' = [p \in Pid |-> IF p \in Dead THEN NoFrame ELSE root[p]]
    /\ resumeFrame' = [p \in Pid |-> IF p \in Dead THEN NoFrame
                                                   ELSE resumeFrame[p]]

(* run begins under the kernel's own page table, so that the departed      *)
(* payload's can be freed.  Mutant: the reaping comes before the switch.   *)
Run_ReapsFirst ==
    /\ pc = "run"
    /\ Reap
    /\ current' = NoPid
    /\ pc' = "reap"
    /\ UNCHANGED <<life, identity, timing, context, preempted, anchor, satp,
                   checkpoints, input, suiteOpen>>

Run ==
    /\ pc = "run"
    /\ current' = NoPid
    /\ satp' = KernelRoot
    /\ pc' = "reap"
    /\ UNCHANGED <<life, identity, timing, memory, context, preempted, anchor,
                   checkpoints, input, suiteOpen>>

(* The first reaping of run.                                               *)
(* Mutant: the console is not served between payloads.                     *)
RunReaps_Deaf ==
    /\ pc = "reap"
    /\ Reap
    /\ pc' = "pick"
    /\ UNCHANGED <<life, identity, timing, context, preempted, anchor, current,
                   satp, checkpoints, input, suiteOpen>>

RunReaps ==
    /\ pc = "reap"
    /\ Reap
    /\ pc' = "service"
    /\ UNCHANGED <<life, identity, timing, context, preempted, anchor, current,
                   satp, checkpoints, input, suiteOpen>>

-----------------------------------------------------------------------------
(* The control plane.  service_console takes the stashed byte first and    *)
(* idle only reads the UART; both serve the structured plane.              *)
Consume ==
    \/ pc = "service" /\ stash /\ stash' = FALSE /\ uart' = uart
    \/ pc = "service" /\ ~stash /\ uart > 0 /\ uart' = uart - 1 /\ stash' = stash
    \/ pc = "idle" /\ uart > 0 /\ uart' = uart - 1 /\ stash' = stash

(* A byte that changes nothing here: junk, the ring dump, a read-only or   *)
(* refused request, a duplicate opId.                                      *)
ServeReadOnly ==
    /\ Consume
    /\ UNCHANGED <<life, identity, timing, memory, context, preempted, anchor,
                   current, satp, pc, checkpoints, suiteOpen>>

(* kill_pid and set_deadline refuse all but PENDING payloads.              *)
Remediable(p) == state[p] = "pending"

(* The kill tool, which reports the kill as the payload's terminal event.  *)
ServeKill(p) ==
    /\ Consume
    /\ Remediable(p)
    /\ state' = [state EXCEPT ![p] = "killed"]
    /\ ends' = [ends EXCEPT ![p] = @ + 1]
    /\ UNCHANGED <<identity, timing, memory, context, preempted, anchor, current,
                   satp, pc, checkpoints, suiteOpen>>

(* The set_budget tool.                                                    *)
ServeSetBudget(p, d) ==
    /\ Consume
    /\ Remediable(p)
    /\ deadline' = [deadline EXCEPT ![p] = d]
    /\ UNCHANGED <<life, identity, age, memory, context, preempted, anchor,
                   current, satp, pc, checkpoints, suiteOpen>>

(* What free_snapshots returns to the pool.                                *)
SnapshotFrames ==
    LET taken == {s \in Snap : snaps[s].valid}
    IN  {snaps[s].root : s \in taken} \cup {snaps[s].frame : s \in taken}

(* clear_table, then one enqueue per image of the suite, in table order.   *)
(* clear_table forgets a slot by its state alone: it frees the snapshots   *)
(* but not the slots' frames.  The fields of an EMPTY slot are not read    *)
(* before enqueue rewrites them, so they get their initial values here.    *)
Seed(s) ==
    LET used == {p \in Pid : p < Len(s.images)}
        img(p) == s.images[p + 1]
    IN  /\ state' = [p \in Pid |-> IF p \in used THEN "pending" ELSE "empty"]
        /\ ends' = [p \in Pid |-> 0]
        /\ image' = [p \in Pid |-> IF p \in used THEN img(p) ELSE Image0]
        /\ caps' = [p \in Pid |-> IF p \in used THEN Ceiling[img(p)] ELSE {}]
        /\ parent' = [p \in Pid |-> NoPid]
        /\ deadline' = [p \in Pid |-> IF p \in used THEN Budget[img(p)] ELSE 0]
        /\ age' = [p \in Pid |-> 0]
        /\ root' = [p \in Pid |-> NoFrame]
        /\ resumeFrame' = [p \in Pid |-> NoFrame]
        /\ context' = [p \in Pid |-> "entry"]
        /\ preempted' = [p \in Pid |-> FALSE]
        /\ anchor' = [p \in Pid |-> FALSE]
        /\ snaps' = [i \in Snap |-> NoSnapshot]
        /\ allocated' = allocated \ SnapshotFrames
        /\ lastSnap' = 0
        /\ autoFork' = s.fork

(* run_suite over the structured plane, refused with "busy" while any      *)
(* payload is alive.                                                       *)
ServeRunSuite(s) ==
    /\ Consume
    /\ ~any_alive
    /\ Seed(s)
    /\ suiteOpen' = TRUE
    /\ pc' = "run"
    /\ UNCHANGED <<current, satp>>

(* The single-byte suite commands of the idle loop: no busy guard.         *)
IdleSuite(s) ==
    /\ pc = "idle"
    /\ Consume
    /\ Seed(s)
    /\ suiteOpen' = TRUE
    /\ pc' = "run"
    /\ UNCHANGED <<current, satp>>

(* The crash tool and the idle byte 'x': an S-mode illegal instruction,    *)
(* reported and then shutdown.                                             *)
Crash ==
    /\ Consume
    /\ pc = "idle" \/ ~any_alive
    /\ pc' = "halted"
    /\ UNCHANGED <<life, identity, timing, memory, context, preempted, anchor,
                   current, satp, checkpoints, suiteOpen>>

(* No byte is left: reap what the operator killed and go on.               *)
ServiceEnd ==
    /\ pc = "service"
    /\ ~stash /\ uart = 0
    /\ Reap
    /\ pc' = "pick"
    /\ UNCHANGED <<life, identity, timing, context, preempted, anchor,
                   current, satp, checkpoints, input, suiteOpen>>

-----------------------------------------------------------------------------
(* start(pid).                                                             *)

(* A saved frame is waiting: a preempted payload goes on silently, its     *)
(* clock running since its first start; a restored continuation starts its *)
(* clock and will announce itself.  Mutants: a resumption restarts the     *)
(* clock, or announces the payload again.                                  *)
ResumedAge_Refilled(p) == 0
ResumedAge(p) == IF preempted[p] THEN age[p] ELSE 0

ResumedAt_Announced(p) == "launch1"
ResumedAt(p) == IF preempted[p] THEN "launch2" ELSE "launch1"

StartResume(p) ==
    /\ pc = "pick"
    /\ FirstIn("pending", p)
    /\ resumeFrame[p] # NoFrame
    /\ state' = [state EXCEPT ![p] = "running"]
    /\ age' = [age EXCEPT ![p] = ResumedAge(p)]
    /\ preempted' = [preempted EXCEPT ![p] = FALSE]
    /\ current' = p
    /\ pc' = ResumedAt(p)
    /\ UNCHANGED <<ends, identity, deadline, memory, context, anchor, satp,
                   checkpoints, input, suiteOpen>>

(* A fresh address space and an entry frame.                               *)
StartFresh(p) ==
    /\ pc = "pick"
    /\ FirstIn("pending", p)
    /\ resumeFrame[p] = NoFrame
    /\ TwoFree
    /\ TakeSpace(p)
    /\ context' = [context EXCEPT ![p] = "entry"]
    /\ state' = [state EXCEPT ![p] = "running"]
    /\ age' = [age EXCEPT ![p] = 0]
    /\ current' = p
    /\ pc' = "launch1"
    /\ UNCHANGED <<ends, identity, deadline, preempted, anchor, satp, checkpoints,
                   input, suiteOpen>>

(* The address space or the entry frame could not be built: everything     *)
(* taken for it is returned, a load fault is reported and the scheduler    *)
(* runs again.                                                             *)
LoadFailed(p) ==
    /\ pc = "pick"
    /\ FirstIn("pending", p)
    /\ resumeFrame[p] = NoFrame
    /\ state' = [state EXCEPT ![p] = "faulted"]
    /\ ends' = [ends EXCEPT ![p] = @ + 1]
    /\ pc' = "run"
    /\ UNCHANGED <<identity, timing, memory, context, preempted, anchor,
                   current, satp, checkpoints, input, suiteOpen>>

(* emit_start, interrupts masked: payload_start becomes the causal anchor. *)
AnnounceStart ==
    /\ pc = "launch1"
    /\ anchor' = [anchor EXCEPT ![current] = TRUE]
    /\ pc' = "launch2"
    /\ UNCHANGED <<life, identity, timing, memory, context, preempted, current,
                   satp, checkpoints, input, suiteOpen>>

(* __resume_user: load the payload's satp and its saved registers, sret.   *)
ResumeUser ==
    /\ pc = "launch2"
    /\ context[current] \in UserContext
    /\ satp' = root[current]
    /\ pc' = "user"
    /\ UNCHANGED <<life, identity, timing, memory, context, preempted, anchor,
                   current, checkpoints, input, suiteOpen>>

(* The saved registers are those of start itself: the sret stays in S-mode *)
(* and re-executes the abandoned launch on a boot stack the scheduler has  *)
(* since reused, so it either gets through or faults in S-mode.            *)
ResumeKernel ==
    /\ pc = "launch2"
    /\ context[current] \in KernelContext
    /\ satp' = root[current]
    /\ pc' \in {context[current], "halted"}
    /\ UNCHANGED <<life, identity, timing, memory, context, preempted, anchor,
                   current, checkpoints, input, suiteOpen>>

-----------------------------------------------------------------------------
(* No payload is pending: fork an owed continuation or finish the suite.   *)

Owed == autoFork > 0 /\ lastSnap > 0

(* enqueue_restore: a deep copy of the newest snapshot in a new slot.  The *)
(* run loop starts it next, being the only pending payload.                *)
ForkContinuation(p) ==
    /\ pc = "pick"
    /\ NoneIn("pending") /\ Owed
    /\ snaps[lastSnap].valid
    /\ FirstIn("empty", p)
    /\ TwoFree
    /\ autoFork' = autoFork - 1
    /\ TakeSpace(p)
    /\ context' = [context EXCEPT ![p] = "checkpoint"]
    /\ image' = [image EXCEPT ![p] = snaps[lastSnap].image]
    /\ caps' = [caps EXCEPT ![p] = snaps[lastSnap].caps
                                     \cap Ceiling[snaps[lastSnap].image]]
    /\ parent' = [parent EXCEPT ![p] = NoPid]
    /\ deadline' = [deadline EXCEPT ![p] = 0]
    /\ age' = [age EXCEPT ![p] = 0]
    /\ preempted' = [preempted EXCEPT ![p] = FALSE]
    /\ anchor' = [anchor EXCEPT ![p] = FALSE]
    /\ state' = [state EXCEPT ![p] = "pending"]
    /\ ends' = [ends EXCEPT ![p] = 0]
    /\ UNCHANGED <<current, satp, pc, snaps, lastSnap, input, suiteOpen>>

(* emit_suite_done and idle, when nothing is owed or the fork failed for   *)
(* want of frames or of a slot.                                            *)
SuiteDone ==
    /\ pc = "pick"
    /\ NoneIn("pending")
    /\ autoFork' = IF Owed THEN autoFork - 1 ELSE autoFork
    /\ suiteOpen' = FALSE
    /\ pc' = "idle"
    /\ UNCHANGED <<life, identity, timing, memory, context, preempted, anchor,
                   current, satp, snaps, lastSnap, input>>

-----------------------------------------------------------------------------
(* Traps of the running payload.                                           *)

(* SYS_EXIT, or a U-mode fault: the slot becomes terminal, the exit or the *)
(* fault is reported and the hart goes to the scheduler.                   *)
Leave(st) ==
    /\ pc = "user"
    /\ state' = [state EXCEPT ![current] = st]
    /\ ends' = [ends EXCEPT ![current] = @ + 1]
    /\ Redirect
    /\ UNCHANGED <<identity, timing, memory, context, preempted, anchor, satp,
                   checkpoints, input, suiteOpen>>

on_exit == Leave("exited")
mark_faulted == Leave("faulted")

(* The attenuation lattice: what a spawn grants.                           *)
(* Mutant: the parent's own set is left out.                               *)
Granted_CeilingOnly(requested, i) == requested \cap Ceiling[i]
Granted(requested, i) == requested \cap caps[current] \cap Ceiling[i]

(* SYS_SPAWN: granted = requested & parent & ceiling, in the first EMPTY   *)
(* slot; refused without the capability or a slot.                         *)
on_spawn(i, requested) ==
    /\ pc = "user"
    /\ SpawnCap \in caps[current]
    /\ \E c \in Pid :
        /\ FirstIn("empty", c)
        /\ state' = [state EXCEPT ![c] = "pending"]
        /\ ends' = [ends EXCEPT ![c] = 0]
        /\ image' = [image EXCEPT ![c] = i]
        /\ caps' = [caps EXCEPT ![c] = Granted(requested, i)]
        /\ parent' = [parent EXCEPT ![c] = current]
        /\ deadline' = [deadline EXCEPT ![c] = Budget[i]]
        /\ age' = [age EXCEPT ![c] = 0]
        /\ root' = [root EXCEPT ![c] = NoFrame]
        /\ resumeFrame' = [resumeFrame EXCEPT ![c] = NoFrame]
        /\ preempted' = [preempted EXCEPT ![c] = FALSE]
        /\ anchor' = [anchor EXCEPT ![c] = FALSE]
    /\ UNCHANGED <<allocated, context, current, satp, pc, checkpoints, input,
                   suiteOpen>>

(* SYS_SNAPSHOT: the first invalid snapshot slot gets a deep copy.         *)
on_snapshot ==
    /\ pc = "user"
    /\ TwoFree
    /\ \E s \in Snap :
        /\ ~snaps[s].valid
        /\ \A t \in Snap : t < s => snaps[t].valid
        /\ snaps' = [snaps EXCEPT ![s] =
              [valid |-> TRUE, root |-> FreshRoot, frame |-> FreshFrame,
               caps |-> caps[current], image |-> image[current]]]
        /\ lastSnap' = s
    /\ allocated' = allocated \cup {FreshRoot, FreshFrame}
    /\ UNCHANGED <<life, identity, timing, root, resumeFrame, context,
                   preempted, anchor, current, satp, pc, autoFork, input,
                   suiteOpen>>

-----------------------------------------------------------------------------
(* The timer tick, traps::handle: the serial line of a keyboard payload is *)
(* drained, then the deadline is checked, then pending input preempts.     *)

OnCpu == current # NoPid /\ state[current] = "running"
OwnsLine == image[current] \in KeyImages

(* on_tick: elapsed > deadline, 0 meaning none.                            *)
(* Mutant: saturating_sub with its operands swapped is always 0.           *)
OverBudget_Swapped(dt) == deadline[current] > 0 /\ 0 > deadline[current]
OverBudget(dt) ==
    deadline[current] > 0 /\ Aged(dt)[current] > deadline[current]

(* Nothing to do for the scheduler: no payload, or one within its budget   *)
(* with no input waiting.                                                  *)
TickQuiet(dt) ==
    /\ pc # "halted"
    /\ OnCpu => ~OverBudget(dt) /\ uart = 0
    /\ age' = Aged(dt)
    /\ UNCHANGED <<life, identity, deadline, memory, context, preempted, anchor,
                   current, satp, pc, checkpoints, input, suiteOpen>>

(* drain_keys: the bytes go to the key ring.                               *)
TickDrain(dt) ==
    /\ pc # "halted"
    /\ OnCpu /\ OwnsLine /\ uart > 0 /\ ~OverBudget(dt)
    /\ uart' = 0
    /\ age' = Aged(dt)
    /\ UNCHANGED <<life, identity, deadline, memory, context, preempted, anchor,
                   current, satp, pc, checkpoints, stash, suiteOpen>>

(* The state of the payload on the hart and its terminal events so far, as *)
(* one tick passes them from drain_keys to on_tick.                        *)
OnHartSlot == [state |-> state[current], ends |-> ends[current]]
Killed(slot) == [state |-> "killed", ends |-> slot.ends + 1]

(* drain_keys meets the operator's kill key (0xA5 0x03).  Mutant: a second *)
(* one kills again.                                                        *)
OperatorKill_NotDeduped(slot) == Killed(slot)
OperatorKill(slot) == IF slot.state = "running" THEN Killed(slot) ELSE slot

(* on_tick: the payload is out of budget, unless it is already gone.       *)
DeadlineKill(slot, dt) ==
    IF slot.state = "running" /\ OverBudget(dt) THEN Killed(slot) ELSE slot

(* What a tick that drained this many kill keys leaves of the payload.     *)
(* drain_keys reads on while bytes arrive, so one drain may hold two.      *)
KillKeys == 0 .. 2
AfterKeys(kills) == CASE kills = 0 -> OnHartSlot
                      [] kills = 1 -> OperatorKill(OnHartSlot)
                      [] kills = 2 -> OperatorKill(OperatorKill(OnHartSlot))
AfterTick(dt, kills) == DeadlineKill(AfterKeys(kills), dt)

(* The operator, the deadline or both end the payload on the hart.         *)
TickKill(dt, kills) ==
    /\ pc # "halted"
    /\ OnCpu
    /\ kills > 0 => OwnsLine /\ uart > 0
    /\ AfterTick(dt, kills).state = "killed"
    /\ state' = [state EXCEPT ![current] = "killed"]
    /\ ends' = [ends EXCEPT ![current] = AfterTick(dt, kills).ends]
    /\ uart' = IF OwnsLine THEN 0 ELSE uart
    /\ age' = Aged(dt)
    /\ Redirect
    /\ UNCHANGED <<identity, deadline, memory, context, preempted, anchor, satp,
                   checkpoints, stash, suiteOpen>>

(* What save_frame_to stores: the trapped registers, which are the kernel's *)
(* own when the tick interrupted start.  Mutant: nothing is saved.         *)
TrappedContext_Unsaved == context[current]
TrappedContext == IF pc = "user" THEN "suspended" ELSE pc

(* maybe_preempt: one byte is consumed and stashed, and the payload goes   *)
(* back to the queue with its registers saved.  A slot without a resume    *)
(* frame would get one; if the pool had none, the payload would go on and  *)
(* the byte stay stashed.                                                  *)
TickPreempt(dt) ==
    LET rf == IF resumeFrame[current] # NoFrame THEN resumeFrame[current]
              ELSE IF Free # {} THEN FreshRoot ELSE NoFrame
    IN  /\ pc # "halted"
        /\ OnCpu /\ ~OverBudget(dt) /\ ~OwnsLine /\ uart > 0
        /\ uart' = uart - 1
        /\ stash' = TRUE
        /\ age' = Aged(dt)
        /\ allocated' = allocated \cup ({rf} \ {NoFrame})
        /\ resumeFrame' = [resumeFrame EXCEPT ![current] = rf]
        /\ IF rf = NoFrame
              THEN UNCHANGED <<context, preempted, state, current, pc>>
              ELSE /\ context' = [context EXCEPT ![current] = TrappedContext]
                   /\ preempted' = [preempted EXCEPT ![current] = TRUE]
                   /\ state' = [state EXCEPT ![current] = "pending"]
                   /\ Redirect
        /\ UNCHANGED <<ends, identity, deadline, root, anchor, satp, checkpoints,
                       suiteOpen>>

Tick == \E dt \in 1 .. TickUnits :
    \/ TickQuiet(dt)
    \/ TickDrain(dt)
    \/ \E kills \in KillKeys : TickKill(dt, kills)
    \/ TickPreempt(dt)

(* The operator: one more byte (or request) reaches the UART.              *)
OperatorSends ==
    /\ pc # "halted"
    /\ uart < MaxUart
    /\ uart' = uart + 1
    /\ UNCHANGED <<life, identity, timing, memory, context, preempted, anchor,
                   current, satp, pc, checkpoints, stash, suiteOpen>>

-----------------------------------------------------------------------------
(* What the operator asks for, once its byte is consumed.                  *)
Serve ==
    \/ ServeReadOnly
    \/ \E p \in Pid : ServeKill(p) \/ \E d \in Deadlines : ServeSetBudget(p, d)
    \/ \E s \in Suites : ServeRunSuite(s) \/ IdleSuite(s)
    \/ Crash

Start == \E p \in Pid : StartResume(p) \/ StartFresh(p) \/ LoadFailed(p)
Launch == AnnounceStart \/ ResumeUser \/ ResumeKernel
Drain == SuiteDone \/ \E p \in Pid : ForkContinuation(p)

(* The steps the kernel takes by itself, once there.                       *)
Kernel == Run \/ RunReaps \/ Serve \/ ServiceEnd \/ Start \/ Launch \/ Drain

Payload ==
    \/ on_exit
    \/ mark_faulted
    \/ \E i \in Spawnable, requested \in SUBSET Cap : on_spawn(i, requested)
    \/ on_snapshot

Halted == pc = "halted" /\ UNCHANGED vars

Next == Kernel \/ Payload \/ Tick \/ OperatorSends \/ Halted

Spec == Init /\ [][Next]_vars

(* The hart executes kernel code to its end and the timer keeps firing: it *)
(* is re-armed first thing in every tick.  Nothing is assumed of payloads  *)
(* or of the operator.                                                     *)
FairSpec == Spec /\ WF_vars(Kernel) /\ WF_vars(Tick)

-----------------------------------------------------------------------------
(* Every variable keeps its type: what the fields of Slot, the snapshots,  *)
(* CURRENT and satp may hold.                                              *)
TypeOK ==
    /\ state \in [Pid -> States]
    /\ ends \in [Pid -> Nat]
    /\ image \in [Pid -> Image]
    /\ caps \in [Pid -> SUBSET Cap]
    /\ parent \in [Pid -> Pid \cup {NoPid}]
    /\ deadline \in [Pid -> 0 .. MaxAge]
    /\ age \in [Pid -> 0 .. MaxAge]
    /\ root \in [Pid -> Frame \cup {NoFrame}]
    /\ resumeFrame \in [Pid -> Frame \cup {NoFrame}]
    /\ context \in [Pid -> Context]
    /\ preempted \in [Pid -> BOOLEAN]
    /\ anchor \in [Pid -> BOOLEAN]
    /\ current \in Pid \cup {NoPid}
    /\ satp \in Frame
    /\ pc \in Places
    /\ allocated \subseteq Frame
    /\ snaps \in [Snap -> Snapshot]
    /\ lastSnap \in 0 .. MaxSnap
    /\ autoFork \in Nat
    /\ uart \in 0 .. MaxUart
    /\ stash \in BOOLEAN
    /\ suiteOpen \in BOOLEAN

OnHart == pc \in {"launch1", "launch2", "user"}

(* A payload is RUNNING exactly while CURRENT names it and the hart is     *)
(* launching or executing it, so the scheduler and the control plane never *)
(* meet a RUNNING payload: kill_pid and set_deadline never refuse a live   *)
(* one, and on_tick never sees a stale CURRENT.                            *)
RunningIsCurrent ==
    /\ OnHart <=> current # NoPid /\ pc # "halted"
    /\ pc # "halted" => \A p \in Pid : state[p] = "running" <=> p = current

(* The idle loop never holds a live payload, so its suite commands, which  *)
(* reseed the table without a busy guard, destroy nothing.                 *)
IdleHasNoPayload == pc = "idle" => ~any_alive

(* A RUNNING payload always has an address space and a resume frame:       *)
(* maybe_preempt never has to allocate in trap context, so a stashed byte  *)
(* always reaches the service loop and is never overwritten by the next.   *)
RunningHasFrame ==
    /\ \A p \in Pid : state[p] = "running" =>
          root[p] # NoFrame /\ resumeFrame[p] # NoFrame
    /\ stash => pc \in {"run", "reap", "service"}

Valid == {s \in Snap : snaps[s].valid}

(* Capabilities only shrink: no payload exceeds its image's ceiling or the *)
(* payload that spawned it, which still occupies its slot, and a snapshot  *)
(* (hence every continuation) holds no more than some payload of its suite *)
(* with the same image.                                                    *)
Attenuation ==
    /\ \A p \in Pid : state[p] # "empty" => caps[p] \subseteq Ceiling[image[p]]
    /\ \A p \in Pid : state[p] # "empty" /\ parent[p] # NoPid =>
          /\ state[parent[p]] # "empty"
          /\ caps[p] \subseteq caps[parent[p]]
    /\ \A s \in Valid : \E p \in Pid :
          /\ state[p] # "empty"
          /\ snaps[s].image = image[p] /\ snaps[s].caps \subseteq caps[p]

(* Every reference to a frame that the kernel holds.                       *)
Refs == ({"root", "resume"} \X Pid) \cup ({"sroot", "sframe"} \X Snap)
            \cup {<<"kernel", 0>>}
At(r) == CASE r[1] = "root" -> root[r[2]]
           [] r[1] = "resume" -> resumeFrame[r[2]]
           [] r[1] = "sroot" -> snaps[r[2]].root
           [] r[1] = "sframe" -> snaps[r[2]].frame
           [] r[1] = "kernel" -> KernelRoot

Owned == {At(r) : r \in Refs} \ {NoFrame}

(* Every frame a slot, a snapshot or the kernel refers to is taken from    *)
(* the pool, and no two references name the same one: no reap, failed load *)
(* or fork frees a frame twice or hands it to a second owner.              *)
FramesOwnedOnce ==
    /\ Owned \subseteq allocated
    /\ \A r, t \in Refs : r # t /\ At(r) # NoFrame => At(r) # At(t)

(* No step loses a frame, the reseeding of the table from the service      *)
(* window apart.                                                           *)
LeaksOnlyOnReseed ==
    [][allocated' \ Owned' # allocated \ Owned => pc = "service" /\ pc' = "run"]_vars

(* The page table in use is never returned to the pool: run switches to    *)
(* the kernel's before it reaps.                                           *)
ActiveRootAllocated == satp \in allocated

(* A suspended payload goes on from where the tick stopped it: while it is *)
(* queued its resume frame holds the registers saved then, not the entry   *)
(* frame or the checkpoint it once started from.                           *)
PreemptedKeepsPlace ==
    \A p \in Pid : state[p] = "pending" /\ preempted[p] =>
        /\ resumeFrame[p] # NoFrame
        /\ context[p] \in KernelContext \cup {"suspended"}

(* The causal anchor: a payload executes only after its payload_start, a   *)
(* child's spawner has one, and no payload whose registers are its own is  *)
(* announced twice, preempted or not.                                      *)
AnchorBeforeEvents ==
    /\ pc = "user" => anchor[current]
    /\ \A p \in Pid : state[p] # "empty" /\ parent[p] # NoPid => anchor[parent[p]]
    /\ pc = "launch1" /\ context[current] \in UserContext => ~anchor[current]

(* A deadline counts from the first start: no step of a started payload,   *)
(* suspension and resumption included, turns its clock back.               *)
BudgetNotRefilled ==
    [][\A p \in Pid : Started(p) /\ Started(p)' => age'[p] >= age[p]]_vars

(* A payload ends once.  Every terminal payload has had exactly one        *)
(* terminal event (exit, fault, load fault or kill) and a live one none,   *)
(* also when kill keys and the deadline meet in one tick; and a terminal   *)
(* slot keeps its state, its authority and that count until a table with   *)
(* no live payload is reseeded as a whole.                                 *)
EndedOnce(p) == ends[p] = IF state[p] \in Terminal THEN 1 ELSE 0

TerminalIsFinal ==
    [][\A p \in Pid :
          /\ EndedOnce(p)'
          /\ state[p] \in Terminal =>
                \/ state'[p] = state[p] /\ caps'[p] = caps[p] /\ ends'[p] = ends[p]
                \/ ~any_alive /\ \A q \in Pid : state'[q] \in {"empty", "pending"}]_vars

-----------------------------------------------------------------------------
(* While some input waits, in the UART or stashed, the control plane is    *)
(* eventually reached, even if the payload on the hart never traps by      *)
(* itself (E2's livelock), unless a keyboard payload takes the input.      *)
ControlPlaneResponsive ==
    (uart > 0 \/ stash) ~>
        ((uart = 0 /\ ~stash) \/ pc \in {"service", "idle", "halted"})

(* Once the operator is silent and every live payload has a deadline, the  *)
(* suite comes to its end and the kernel to its idle loop, whatever the    *)
(* payloads do.                                                            *)
BudgetedSuiteEnds ==
    <>[](uart = 0 /\ \A p \in Pid : Alive(p) => deadline[p] > 0)
        => []<>(pc \in {"idle", "halted"})

-----------------------------------------------------------------------------
(* Claims of the repository that the code does not keep.                   *)

(* __resume_user "srets into U-mode" (hal/trap.rs): every resume frame     *)
(* holds the registers of a U-mode trap.                                   *)
ResumesIntoUser ==
    \A p \in Pid : resumeFrame[p] # NoFrame => context[p] \in UserContext

(* "suite_done is completion" (SPEC.md): run_suite is accepted only after  *)
(* the suite before it has been announced done.                            *)
NoSuiteLost ==
    [][pc = "service" /\ pc' = "run" => ~suiteOpen]_vars

(* "no leak across the reap paths" (frames.rs): every frame taken from the *)
(* pool has an owner that will return it.                                  *)
NoFrameLeaked == allocated = Owned

=============================================================================
