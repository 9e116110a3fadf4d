-------------------------- MODULE SchedulerProofs --------------------------
(***************************************************************************)
(* The scheduler's invariants and the life of a payload, for every table   *)
(* size, pool, set of images, suite and operator.                          *)
(***************************************************************************)
EXTENDS Scheduler, TLAPS

(* While two frames are free, an allocation of an address space and of a   *)
(* register frame takes two distinct frames of the pool that are free.     *)
LEMMA FreshFrames ==
    ASSUME TwoFree
    PROVE  /\ FreshRoot \in Free /\ FreshFrame \in Free
           /\ FreshRoot # FreshFrame
<1>1. \E f \in Free : TRUE
  BY DEF TwoFree
<1>2. FreshRoot \in Free
  BY <1>1 DEF FreshRoot
<1>3. \E f \in Free \ {FreshRoot} : TRUE
  BY DEF TwoFree
<1>4. FreshFrame \in Free \ {FreshRoot}
  BY <1>3 DEF FreshFrame
<1> QED
  BY <1>2, <1>4

(* A payload on the hart is in the table.                                  *)
LEMMA CurrentInTable ==
    ASSUME TypeOK, RunningIsCurrent, OnHart
    PROVE  current \in Pid /\ state[current] = "running"
BY DEF TypeOK, RunningIsCurrent, OnHart

LEMMA Image0Type == Image0 \in Image
BY ImageAssumption DEF Image0

LEMMA AgedType ==
    ASSUME TypeOK, NEW dt \in 1 .. TickUnits
    PROVE  Aged(dt) \in [Pid -> 0 .. MaxAge]
BY SizeAssumption DEF TypeOK, Aged, AtMost

LEMMA ConsumeTypes ==
    ASSUME TypeOK, Consume
    PROVE  uart' \in 0 .. MaxUart /\ stash' \in BOOLEAN
<1>1. uart \in 0 .. MaxUart /\ stash \in BOOLEAN
  BY DEF TypeOK
<1>2. stash' = FALSE \/ stash' = stash
  BY Zenon DEF Consume
<1>3. uart' = uart \/ (uart > 0 /\ uart' = uart - 1)
  BY Zenon DEF Consume
<1>4. uart' \in 0 .. MaxUart
  BY <1>1, <1>3, SizeAssumption
<1> QED
  BY <1>1, <1>2, <1>4

LEMMA SeedTypes ==
    ASSUME TypeOK, NEW s \in Suites, Seed(s)
    PROVE  /\ state' \in [Pid -> {"pending", "empty"}]
           /\ ends' \in [Pid -> Nat]
           /\ image' \in [Pid -> Image]
           /\ caps' \in [Pid -> SUBSET Cap]
           /\ parent' \in [Pid -> Pid \cup {NoPid}]
           /\ deadline' \in [Pid -> 0 .. MaxAge]
           /\ age' \in [Pid -> 0 .. MaxAge]
           /\ snaps' \in [Snap -> Snapshot]
           /\ autoFork' \in Nat
<1>1. s.images \in Seq(Image) /\ s.fork \in Nat
  BY ImageAssumption
<1>2. \A p \in Pid : p < Len(s.images) => s.images[p + 1] \in Image
  BY <1>1, SizeAssumption DEF Pid
<1>3. image' \in [Pid -> Image] /\ caps' \in [Pid -> SUBSET Cap]
  BY <1>2, ImageAssumption, Image0Type DEF Seed
<1>4. deadline' \in [Pid -> 0 .. MaxAge] /\ age' \in [Pid -> 0 .. MaxAge]
  BY <1>2, ImageAssumption, SizeAssumption DEF Seed
<1>5. snaps' \in [Snap -> Snapshot]
  BY Image0Type DEF Seed, NoSnapshot, Snapshot
<1> QED
  BY <1>1, <1>3, <1>4, <1>5 DEF Seed

-----------------------------------------------------------------------------
(* Types.  A step of the payload on the hart indexes the table with        *)
(* CURRENT, so the types are preserved only together with                  *)
(* RunningIsCurrent.                                                       *)
LEMMA TypeInit == Init => TypeOK
<1> SUFFICES ASSUME Init PROVE TypeOK
  OBVIOUS
<1>1. snaps \in [Snap -> Snapshot]
  BY Image0Type DEF Init, NoSnapshot, Snapshot
<1>2. /\ lastSnap \in 0 .. MaxSnap /\ autoFork \in Nat /\ uart \in 0 .. MaxUart
      /\ deadline \in [Pid -> 0 .. MaxAge] /\ age \in [Pid -> 0 .. MaxAge]
  BY SizeAssumption DEF Init
<1>3. /\ state \in [Pid -> States] /\ ends \in [Pid -> Nat] /\ context \in [Pid -> Context]
      /\ image \in [Pid -> Image] /\ caps \in [Pid -> SUBSET Cap]
      /\ parent \in [Pid -> Pid \cup {NoPid}]
  BY Image0Type DEF Init, States, Context, UserContext
<1> QED
  BY <1>1, <1>2, <1>3, FrameAssumption DEF Init, TypeOK, NoPid, Places

LEMMA TypeKernel ==
    ASSUME TypeOK, RunningIsCurrent, RunningHasFrame, Kernel
    PROVE  TypeOK'
<1> USE DEF life, identity, timing, memory, checkpoints, input
<1>1. CASE Run
  BY <1>1, FrameAssumption DEF Run, TypeOK, NoPid, Places
<1>2. CASE RunReaps \/ ServiceEnd
  BY <1>2, FrameAssumption DEF RunReaps, ServiceEnd, Reap, TypeOK, Places
<1>3. CASE ServeReadOnly
  BY <1>3, ConsumeTypes DEF ServeReadOnly, TypeOK
<1>4. ASSUME NEW p \in Pid, ServeKill(p) PROVE TypeOK'
  BY <1>4, ConsumeTypes DEF ServeKill, TypeOK, States, Terminal
<1>5. ASSUME NEW p \in Pid, NEW d \in Deadlines, ServeSetBudget(p, d)
      PROVE  TypeOK'
  BY <1>5, ConsumeTypes, ImageAssumption DEF ServeSetBudget, TypeOK
<1>6. ASSUME NEW s \in Suites, ServeRunSuite(s) \/ IdleSuite(s) PROVE TypeOK'
  <2>1. Seed(s) /\ Consume /\ suiteOpen' = TRUE /\ pc' = "run"
        /\ UNCHANGED <<current, satp>>
    BY <1>6 DEF ServeRunSuite, IdleSuite
  <2>2. uart' \in 0 .. MaxUart /\ stash' \in BOOLEAN
    BY <2>1, ConsumeTypes
  <2>3. /\ root' \in [Pid -> Frame \cup {NoFrame}]
        /\ resumeFrame' \in [Pid -> Frame \cup {NoFrame}]
        /\ context' \in [Pid -> Context]
        /\ preempted' \in [Pid -> BOOLEAN]
        /\ anchor' \in [Pid -> BOOLEAN]
        /\ allocated' \subseteq Frame
        /\ lastSnap' \in 0 .. MaxSnap
    BY <2>1, SizeAssumption DEF Seed, TypeOK, Context, UserContext
  <2>4. state' \in [Pid -> States]
    BY <2>1, SeedTypes DEF States
  <2> QED
    BY <2>1, <2>2, <2>3, <2>4, SeedTypes DEF TypeOK, Places
<1>7. CASE Crash
  BY <1>7, ConsumeTypes DEF Crash, TypeOK, Places
<1>8. ASSUME NEW p \in Pid, StartResume(p) PROVE TypeOK'
  BY <1>8, SizeAssumption
     DEF StartResume, ResumedAge, ResumedAt, TypeOK, States, Places
<1>9. ASSUME NEW p \in Pid, StartFresh(p) PROVE TypeOK'
  <2>1. TwoFree
    BY <1>9 DEF StartFresh
  <2> QED
    BY <1>9, <2>1, FreshFrames, SizeAssumption
       DEF StartFresh, TakeSpace, Free, TypeOK, States, Places, Context, UserContext
<1>10. ASSUME NEW p \in Pid, LoadFailed(p) PROVE TypeOK'
  BY <1>10 DEF LoadFailed, TypeOK, States, Terminal, Places
<1>11. CASE AnnounceStart
  BY <1>11 DEF AnnounceStart, TypeOK, Places
<1>12. CASE ResumeUser \/ ResumeKernel
  <2>1. current \in Pid /\ root[current] # NoFrame
    BY <1>12, CurrentInTable DEF ResumeUser, ResumeKernel, OnHart, RunningHasFrame
  <2> QED
    BY <1>12, <2>1 DEF ResumeUser, ResumeKernel, TypeOK, Places, KernelContext
<1>13. ASSUME NEW p \in Pid, ForkContinuation(p) PROVE TypeOK'
  <2>1. TwoFree /\ lastSnap \in Snap /\ autoFork - 1 \in Nat
    BY <1>13, SizeAssumption DEF ForkContinuation, Owed, TypeOK, Snap
  <2>2. snaps[lastSnap] \in Snapshot
    BY <2>1 DEF TypeOK
  <2>3. snaps[lastSnap].image \in Image /\ snaps[lastSnap].caps \subseteq Cap
    BY <2>2 DEF Snapshot
  <2> QED
    BY <1>13, <2>1, <2>3, FreshFrames, SizeAssumption
       DEF ForkContinuation, TakeSpace, Free, TypeOK, States, NoPid, Context,
           UserContext
<1>14. CASE SuiteDone
  <2>1. autoFork' \in Nat
    BY <1>14 DEF SuiteDone, Owed, TypeOK
  <2> QED
    BY <1>14, <2>1 DEF SuiteDone, TypeOK, Places
<1> QED
  BY <1>1, <1>2, <1>3, <1>4, <1>5, <1>6, <1>7, <1>8, <1>9, <1>10, <1>11,
     <1>12, <1>13, <1>14
     DEF Kernel, Serve, Start, Launch, Drain

LEMMA TypePayload ==
    ASSUME TypeOK, RunningIsCurrent, Payload
    PROVE  TypeOK'
<1> USE DEF life, identity, timing, memory, checkpoints, input
<1>0. current \in Pid
  BY CurrentInTable DEF Payload, on_exit, mark_faulted, Leave, on_spawn,
     on_snapshot, OnHart
<1>1. CASE on_exit \/ mark_faulted
  BY <1>0, <1>1 DEF on_exit, mark_faulted, Leave, Redirect, TypeOK, States,
     Terminal, NoPid, Places
<1>2. ASSUME NEW i \in Spawnable, NEW requested \in SUBSET Cap,
             on_spawn(i, requested)
      PROVE  TypeOK'
  <2>1. i \in Image /\ Budget[i] \in 0 .. MaxAge /\ Granted(requested, i) \subseteq Cap
    BY <1>2, ImageAssumption DEF Granted
  <2> QED
    BY <1>0, <1>2, <2>1, SizeAssumption DEF on_spawn, TypeOK, States
<1>3. CASE on_snapshot
  <2>1. TwoFree /\ caps[current] \subseteq Cap /\ image[current] \in Image
    BY <1>0, <1>3 DEF on_snapshot, TypeOK
  <2>2. FreshRoot \in Frame /\ FreshFrame \in Frame
    BY <2>1, FreshFrames DEF Free
  <2>3. [valid |-> TRUE, root |-> FreshRoot, frame |-> FreshFrame,
         caps |-> caps[current], image |-> image[current]] \in Snapshot
    BY <2>1, <2>2 DEF Snapshot
  <2>4. snaps' \in [Snap -> Snapshot] /\ lastSnap' \in 0 .. MaxSnap
    BY <1>3, <2>3, SizeAssumption DEF on_snapshot, TypeOK, Snap
  <2> QED
    BY <1>3, <2>2, <2>4 DEF on_snapshot, TypeOK
<1> QED
  BY <1>1, <1>2, <1>3 DEF Payload

(* However many kill keys a tick drained, and whether or not the deadline  *)
(* has passed too, the tick reports one terminal event.                    *)
LEMMA TickKillsOnce ==
    ASSUME TypeOK, NEW dt \in 1 .. TickUnits, NEW kills \in KillKeys,
           TickKill(dt, kills)
    PROVE  /\ current \in Pid /\ state[current] = "running"
           /\ state' = [state EXCEPT ![current] = "killed"]
           /\ ends' = [ends EXCEPT ![current] = ends[current] + 1]
<1>1. current \in Pid /\ state[current] = "running"
  BY DEF TickKill, OnCpu, TypeOK
<1>2. OnHartSlot.state = "running" /\ OnHartSlot.ends = ends[current]
  BY <1>1 DEF OnHartSlot
<1>3. \A slot : Killed(slot).state = "killed" /\ Killed(slot).ends = slot.ends + 1
  BY DEF Killed
<1>4. OperatorKill(OnHartSlot) = Killed(OnHartSlot)
      /\ OperatorKill(OperatorKill(OnHartSlot)) = Killed(OnHartSlot)
  BY <1>2, <1>3 DEF OperatorKill
<1>5. AfterKeys(kills) \in {OnHartSlot, Killed(OnHartSlot)}
  BY <1>4 DEF AfterKeys, KillKeys
<1>6. AfterTick(dt, kills) \in {OnHartSlot, Killed(OnHartSlot)}
  BY <1>2, <1>3, <1>5 DEF AfterTick, DeadlineKill
<1>7. AfterTick(dt, kills) = Killed(OnHartSlot)
  BY <1>2, <1>6 DEF TickKill
<1> QED
  BY <1>1, <1>2, <1>3, <1>7 DEF TickKill

LEMMA TypeTick ==
    ASSUME TypeOK, RunningIsCurrent, NEW dt \in 1 .. TickUnits,
           \/ TickQuiet(dt) \/ TickDrain(dt)
        \/ (\E kills \in KillKeys : TickKill(dt, kills)) \/ TickPreempt(dt)
    PROVE  TypeOK'
<1> USE AgedType DEF life, identity, timing, memory, checkpoints, input
<1>1. CASE TickQuiet(dt)
  BY <1>1 DEF TickQuiet, TypeOK
<1>2. CASE TickDrain(dt)
  BY <1>2, SizeAssumption DEF TickDrain, TypeOK
<1>3. ASSUME NEW kills \in KillKeys, TickKill(dt, kills) PROVE TypeOK'
  <2>1. current \in Pid /\ uart' \in 0 .. MaxUart
    BY <1>3, SizeAssumption DEF TickKill, OnCpu, TypeOK
  <2>2. ends' = [ends EXCEPT ![current] = ends[current] + 1]
    BY <1>3, TickKillsOnce
  <2> QED
    BY <1>3, <2>1, <2>2
       DEF TickKill, Redirect, TypeOK, States, Terminal, NoPid, Places
<1>4. CASE TickPreempt(dt)
  <2>1. current \in Pid /\ uart' \in 0 .. MaxUart /\ pc \in {"launch1", "launch2", "user"}
    BY <1>4, SizeAssumption
       DEF TickPreempt, OnCpu, TypeOK, RunningIsCurrent, OnHart
  <2>2. TrappedContext \in Context
    BY <2>1 DEF TrappedContext, Context, KernelContext, UserContext
  <2>3. Free # {} => FreshRoot \in Frame
    BY DEF FreshRoot, Free
  <2> DEFINE rf == IF resumeFrame[current] # NoFrame THEN resumeFrame[current]
                   ELSE IF Free # {} THEN FreshRoot ELSE NoFrame
  <2>4. rf \in Frame \cup {NoFrame}
    BY <2>1, <2>3 DEF TypeOK
  <2>5. /\ allocated' = allocated \cup ({rf} \ {NoFrame})
        /\ resumeFrame' = [resumeFrame EXCEPT ![current] = rf]
    BY <1>4 DEF TickPreempt
  <2>6. allocated' \subseteq Frame /\ resumeFrame' \in [Pid -> Frame \cup {NoFrame}]
    BY <2>1, <2>4, <2>5 DEF TypeOK
  <2>7. /\ context' \in [Pid -> Context] /\ preempted' \in [Pid -> BOOLEAN]
        /\ state' \in [Pid -> States] /\ current' \in Pid \cup {NoPid}
        /\ pc' \in Places
    <3>1. CASE rf = NoFrame
      <4>1. UNCHANGED <<context, preempted, state, current, pc>>
        BY <1>4, <3>1 DEF TickPreempt
      <4> QED
        BY <4>1 DEF TypeOK
    <3>2. CASE rf # NoFrame
      <4>1. /\ context' = [context EXCEPT ![current] = TrappedContext]
            /\ preempted' = [preempted EXCEPT ![current] = TRUE]
            /\ state' = [state EXCEPT ![current] = "pending"]
            /\ Redirect
        BY <1>4, <3>2 DEF TickPreempt
      <4> QED
        BY <2>1, <2>2, <4>1 DEF Redirect, TypeOK, States, Places
    <3> QED
      BY <3>1, <3>2
  <2> QED
    BY <1>4, <2>1, <2>6, <2>7 DEF TickPreempt, TypeOK
<1> QED
  BY <1>1, <1>2, <1>3, <1>4

-----------------------------------------------------------------------------
(* The hart.  RunningHasFrame is inductive with SpaceWithFrame: a payload  *)
(* that waits with a resume frame also has its address space.              *)
SpaceWithFrame ==
    \A p \in Pid : resumeFrame[p] # NoFrame => root[p] # NoFrame

HartInv == TypeOK /\ RunningIsCurrent /\ IdleHasNoPayload /\ RunningHasFrame
               /\ SpaceWithFrame

(* A preemption always finds the running payload's resume frame, so it     *)
(* allocates nothing and always reaches the scheduler.                     *)
LEMMA PreemptEffect ==
    ASSUME HartInv, NEW dt \in 1 .. TickUnits, TickPreempt(dt)
    PROVE  /\ current \in Pid /\ state[current] = "running"
           /\ pc \in {"launch1", "launch2", "user"}
           /\ UNCHANGED <<root, resumeFrame>>
           /\ allocated' = allocated \cup {resumeFrame[current]}
           /\ context' = [context EXCEPT ![current] = TrappedContext]
           /\ preempted' = [preempted EXCEPT ![current] = TRUE]
           /\ state' = [state EXCEPT ![current] = "pending"]
           /\ current' = NoPid /\ pc' = "run"
<1> USE DEF HartInv
<1>1. current \in Pid /\ state[current] = "running"
      /\ pc \in {"launch1", "launch2", "user"}
  BY DEF TickPreempt, OnCpu, TypeOK, RunningIsCurrent, OnHart
<1>2. resumeFrame[current] # NoFrame /\ resumeFrame[current] \in Frame
  BY <1>1 DEF RunningHasFrame, TypeOK
<1>3. UNCHANGED root /\ allocated' = allocated \cup {resumeFrame[current]}
      /\ resumeFrame' = [resumeFrame EXCEPT ![current] = resumeFrame[current]]
  BY <1>2 DEF TickPreempt
<1>4. resumeFrame' = resumeFrame
  BY <1>1, <1>3 DEF TypeOK
<1> QED
  BY <1>1, <1>2, <1>3, <1>4 DEF TickPreempt, Redirect

LEMMA HartInit == Init => HartInv
<1> SUFFICES ASSUME Init PROVE HartInv
  OBVIOUS
<1>1. \A p \in Pid : p # NoPid
  BY SizeAssumption DEF Pid, NoPid
<1> QED
  BY <1>1, TypeInit DEF Init, HartInv, RunningIsCurrent, OnHart,
     IdleHasNoPayload, any_alive, Alive, RunningHasFrame, SpaceWithFrame

LEMMA HartKernel ==
    ASSUME HartInv, Kernel
    PROVE  HartInv'
<1> USE DEF HartInv, life, identity, timing, memory, checkpoints, input, OnHart,
        RunningIsCurrent, IdleHasNoPayload, RunningHasFrame, SpaceWithFrame,
        any_alive, Alive
<1>0. TypeOK'
  BY TypeKernel
<1>a. \A p \in Pid : p # NoPid
  BY SizeAssumption DEF Pid, NoPid
<1>1. CASE Run
  BY <1>0, <1>1, <1>a DEF Run, TypeOK
<1>2. CASE RunReaps \/ ServiceEnd
  BY <1>0, <1>2, <1>a DEF RunReaps, ServiceEnd, Reap, Dead, TypeOK, Terminal
<1>3. CASE ServeReadOnly
  BY <1>0, <1>3 DEF ServeReadOnly, Consume
<1>4. ASSUME NEW p \in Pid, ServeKill(p) PROVE HartInv'
  BY <1>0, <1>4, <1>a DEF ServeKill, Remediable, Consume, TypeOK
<1>5. ASSUME NEW p \in Pid, NEW d \in Deadlines, ServeSetBudget(p, d)
      PROVE  HartInv'
  BY <1>0, <1>5 DEF ServeSetBudget, Remediable, Consume
<1>6. ASSUME NEW s \in Suites, ServeRunSuite(s) \/ IdleSuite(s) PROVE HartInv'
  <2>1. Seed(s) /\ pc' = "run" /\ UNCHANGED current /\ pc \in {"idle", "service"}
    BY <1>6 DEF ServeRunSuite, IdleSuite, Consume
  <2>2. current' = NoPid
    BY <2>1 DEF TypeOK
  <2>3. \A p \in Pid : /\ state'[p] # "running"
                       /\ root'[p] = NoFrame /\ resumeFrame'[p] = NoFrame
    BY <2>1 DEF Seed
  <2> QED
    BY <1>0, <1>a, <2>1, <2>2, <2>3
<1>7. CASE Crash
  BY <1>0, <1>7 DEF Crash, Consume
<1>8. ASSUME NEW p \in Pid, StartResume(p) PROVE HartInv'
  BY <1>0, <1>8, <1>a DEF StartResume, ResumedAt, FirstIn, TypeOK
<1>9. ASSUME NEW p \in Pid, StartFresh(p) PROVE HartInv'
  <2>1. FreshRoot # NoFrame /\ FreshFrame # NoFrame
    BY <1>9, FreshFrames, FrameAssumption DEF StartFresh, Free
  <2> QED
    BY <1>0, <1>9, <1>a, <2>1 DEF StartFresh, TakeSpace, FirstIn, TypeOK
<1>10. ASSUME NEW p \in Pid, LoadFailed(p) PROVE HartInv'
  BY <1>0, <1>10, <1>a DEF LoadFailed, FirstIn, TypeOK
<1>11. CASE AnnounceStart
  BY <1>0, <1>11 DEF AnnounceStart
<1>12. CASE ResumeUser \/ ResumeKernel
  BY <1>0, <1>12 DEF ResumeUser, ResumeKernel, KernelContext
<1>13. ASSUME NEW p \in Pid, ForkContinuation(p) PROVE HartInv'
  <2>1. FreshRoot # NoFrame /\ FreshFrame # NoFrame
    BY <1>13, FreshFrames, FrameAssumption DEF ForkContinuation, Free
  <2> QED
    BY <1>0, <1>13, <1>a, <2>1 DEF ForkContinuation, TakeSpace, FirstIn, TypeOK
<1>14. CASE SuiteDone
  BY <1>0, <1>14, <1>a DEF SuiteDone, NoneIn, TypeOK
<1> QED
  BY <1>1, <1>2, <1>3, <1>4, <1>5, <1>6, <1>7, <1>8, <1>9, <1>10, <1>11,
     <1>12, <1>13, <1>14
     DEF Kernel, Serve, Start, Launch, Drain

LEMMA HartPayload ==
    ASSUME HartInv, Payload
    PROVE  HartInv'
<1> USE DEF HartInv, life, identity, timing, memory, checkpoints, input, OnHart,
        RunningIsCurrent, IdleHasNoPayload, RunningHasFrame, SpaceWithFrame,
        any_alive, Alive
<1>0. TypeOK'
  BY TypePayload
<1>a. \A p \in Pid : p # NoPid
  BY SizeAssumption DEF Pid, NoPid
<1>1. CASE on_exit \/ mark_faulted
  BY <1>0, <1>1, <1>a DEF on_exit, mark_faulted, Leave, Redirect, TypeOK
<1>2. ASSUME NEW i \in Spawnable, NEW requested \in SUBSET Cap,
             on_spawn(i, requested)
      PROVE  HartInv'
  BY <1>0, <1>2, <1>a DEF on_spawn, FirstIn, TypeOK
<1>3. CASE on_snapshot
  BY <1>0, <1>3 DEF on_snapshot
<1> QED
  BY <1>1, <1>2, <1>3 DEF Payload

LEMMA HartTick ==
    ASSUME HartInv, Tick
    PROVE  HartInv'
<1> USE DEF HartInv, life, identity, timing, memory, checkpoints, input, OnHart,
        RunningIsCurrent, IdleHasNoPayload, RunningHasFrame, SpaceWithFrame,
        any_alive, Alive
<1> PICK dt \in 1 .. TickUnits :
        \/ TickQuiet(dt) \/ TickDrain(dt)
        \/ (\E kills \in KillKeys : TickKill(dt, kills)) \/ TickPreempt(dt)
  BY DEF Tick
<1>0. TypeOK'
  BY TypeTick
<1>a. \A p \in Pid : p # NoPid
  BY SizeAssumption DEF Pid, NoPid
<1>1. CASE TickQuiet(dt)
  BY <1>0, <1>1 DEF TickQuiet
<1>2. CASE TickDrain(dt)
  BY <1>0, <1>2 DEF TickDrain
<1>3. ASSUME NEW kills \in KillKeys, TickKill(dt, kills) PROVE HartInv'
  BY <1>0, <1>3, <1>a DEF TickKill, OnCpu, Redirect, TypeOK
<1>4. CASE TickPreempt(dt)
  BY <1>0, <1>4, <1>a, PreemptEffect DEF TickPreempt, TypeOK
<1> QED
  BY <1>1, <1>2, <1>3, <1>4

LEMMA HartNext == HartInv /\ [Next]_vars => HartInv'
<1> SUFFICES ASSUME HartInv, [Next]_vars PROVE HartInv'
  OBVIOUS
<1> USE DEF life, identity, timing, memory, checkpoints, input
<1>1. CASE OperatorSends
  <2>1. TypeOK'
    BY <1>1, SizeAssumption DEF OperatorSends, HartInv, TypeOK
  <2> QED
    BY <1>1, <2>1 DEF OperatorSends, HartInv, OnHart, RunningIsCurrent,
       IdleHasNoPayload, RunningHasFrame, SpaceWithFrame, any_alive, Alive
<1>2. CASE Halted \/ UNCHANGED vars
  BY <1>2 DEF Halted, vars, HartInv, TypeOK, OnHart, RunningIsCurrent,
     IdleHasNoPayload, RunningHasFrame, SpaceWithFrame, any_alive, Alive
<1> QED
  BY <1>1, <1>2, HartKernel, HartPayload, HartTick DEF Next

(* The invariant of the hart holds in every reachable state.               *)
LEMMA HartAlways == Spec => []HartInv
BY HartInit, HartNext, PTL DEF Spec

(* Every field of the table, CURRENT, satp and the checkpoints keep their  *)
(* types, for every table size, pool and set of images.                    *)
THEOREM Types == Spec => []TypeOK
<1>1. HartInv => TypeOK
  BY DEF HartInv
<1> QED
  BY <1>1, HartAlways, PTL

(* A payload is RUNNING exactly while it is CURRENT and on the hart: the   *)
(* control plane never meets a RUNNING payload.                            *)
THEOREM RunningExactlyOnHart == Spec => []RunningIsCurrent
<1>1. HartInv => RunningIsCurrent
  BY DEF HartInv
<1> QED
  BY <1>1, HartAlways, PTL

(* The idle loop, whose suite commands have no busy guard, never holds a   *)
(* live payload.                                                           *)
THEOREM IdleDestroysNothing == Spec => []IdleHasNoPayload
<1>1. HartInv => IdleHasNoPayload
  BY DEF HartInv
<1> QED
  BY <1>1, HartAlways, PTL

(* A running payload has an address space and a resume frame, so a         *)
(* preemption never allocates in trap context and a stashed byte always    *)
(* reaches the service loop.                                               *)
THEOREM PreemptionFindsFrame == Spec => []RunningHasFrame
<1>1. HartInv => RunningHasFrame
  BY DEF HartInv
<1> QED
  BY <1>1, HartAlways, PTL

-----------------------------------------------------------------------------
(* Authority.  Only four kinds of step give or take a slot or a snapshot;  *)
(* the others keep every payload's identity.                               *)
KeepsIdentity ==
    /\ UNCHANGED <<image, caps, parent, snaps>>
    /\ \A p \in Pid : state'[p] = "empty" <=> state[p] = "empty"

LEMMA IdentitySteps ==
    ASSUME HartInv, [Next]_vars
    PROVE  \/ KeepsIdentity
           \/ \E s \in Suites : Seed(s)
           \/ \E p \in Pid : ForkContinuation(p)
           \/ \E i \in Spawnable, requested \in SUBSET Cap : on_spawn(i, requested)
           \/ on_snapshot
<1> USE DEF HartInv, KeepsIdentity, life, identity, timing, memory, checkpoints, input
<1>1. CASE Kernel
  <2>1. CASE Run \/ RunReaps \/ ServiceEnd \/ ServeReadOnly \/ Crash \/ Launch
             \/ SuiteDone
    BY <2>1 DEF Run, RunReaps, ServiceEnd, ServeReadOnly, Crash, Launch, AnnounceStart,
       ResumeUser, ResumeKernel, SuiteDone
  <2>2. ASSUME NEW p \in Pid, ServeKill(p) PROVE KeepsIdentity
    BY <2>2 DEF ServeKill, Remediable, TypeOK
  <2>3. ASSUME NEW p \in Pid, NEW d \in Deadlines, ServeSetBudget(p, d)
        PROVE  KeepsIdentity
    BY <2>3 DEF ServeSetBudget
  <2>4. ASSUME NEW p \in Pid, StartResume(p) \/ StartFresh(p) \/ LoadFailed(p)
        PROVE  KeepsIdentity
    BY <2>4 DEF StartResume, StartFresh, LoadFailed, FirstIn, TypeOK
  <2> QED
    BY <1>1, <2>1, <2>2, <2>3, <2>4
       DEF Kernel, Serve, Start, Drain, ServeRunSuite, IdleSuite
<1>2. CASE on_exit \/ mark_faulted
  <2>1. current \in Pid /\ state[current] = "running"
    BY <1>2, CurrentInTable DEF on_exit, mark_faulted, Leave, OnHart
  <2> QED
    BY <1>2, <2>1 DEF on_exit, mark_faulted, Leave, TypeOK
<1>3. CASE Tick
  <2> PICK dt \in 1 .. TickUnits :
        \/ TickQuiet(dt) \/ TickDrain(dt)
        \/ (\E kills \in KillKeys : TickKill(dt, kills)) \/ TickPreempt(dt)
    BY <1>3 DEF Tick
  <2>1. CASE TickPreempt(dt)
    BY <2>1, PreemptEffect DEF TickPreempt, TypeOK
  <2>2. ASSUME NEW kills \in KillKeys, TickKill(dt, kills) PROVE KeepsIdentity
    BY <2>2 DEF TickKill, OnCpu, TypeOK
  <2>3. CASE TickQuiet(dt) \/ TickDrain(dt)
    BY <2>3 DEF TickQuiet, TickDrain
  <2> QED
    BY <2>1, <2>2, <2>3
<1>4. CASE OperatorSends \/ Halted \/ UNCHANGED vars
  BY <1>4 DEF OperatorSends, Halted, vars
<1> QED
  BY <1>1, <1>2, <1>3, <1>4 DEF Next, Payload

LEMMA AttenuationNext ==
    HartInv /\ Attenuation /\ [Next]_vars => Attenuation'
<1> SUFFICES ASSUME HartInv, Attenuation, [Next]_vars PROVE Attenuation'
  OBVIOUS
<1>0. TypeOK /\ TypeOK'
  BY HartNext DEF HartInv
<1>1. CASE KeepsIdentity
  BY <1>0, <1>1 DEF KeepsIdentity, Attenuation, Valid, TypeOK
<1>2. ASSUME NEW s \in Suites, Seed(s) PROVE Attenuation'
  <2>1. \A p \in Pid : state'[p] # "empty" => caps'[p] = Ceiling[image'[p]]
    BY <1>2 DEF Seed
  <2>2. Valid' = {}
    BY <1>2 DEF Seed, Valid, NoSnapshot
  <2>3. \A p \in Pid : parent'[p] = NoPid
    BY <1>2 DEF Seed
  <2> QED
    BY <2>1, <2>2, <2>3 DEF Attenuation
<1>3. ASSUME NEW p \in Pid, ForkContinuation(p) PROVE Attenuation'
  <2> DEFINE img == snaps[lastSnap].image
             grant == snaps[lastSnap].caps \cap Ceiling[img]
  <2>1. state[p] = "empty" /\ UNCHANGED snaps
    BY <1>3 DEF ForkContinuation, FirstIn
  <2>2. /\ state' = [state EXCEPT ![p] = "pending"]
        /\ image' = [image EXCEPT ![p] = img]
        /\ caps' = [caps EXCEPT ![p] = grant]
        /\ parent' = [parent EXCEPT ![p] = NoPid]
    BY <1>3 DEF ForkContinuation
  <2>3. grant \subseteq Ceiling[img]
    OBVIOUS
  <2> HIDE DEF img, grant
  <2> QED
    BY <1>0, <2>1, <2>2, <2>3 DEF Attenuation, Valid, TypeOK
<1>4. ASSUME NEW i \in Spawnable, NEW requested \in SUBSET Cap,
             on_spawn(i, requested)
      PROVE  Attenuation'
  <2>1. current \in Pid /\ state[current] = "running"
    BY <1>4, CurrentInTable DEF on_spawn, OnHart, HartInv
  <2> PICK c \in Pid : FirstIn("empty", c) /\
        /\ state' = [state EXCEPT ![c] = "pending"]
        /\ image' = [image EXCEPT ![c] = i]
        /\ caps' = [caps EXCEPT ![c] = Granted(requested, i)]
        /\ parent' = [parent EXCEPT ![c] = current]
    BY <1>4 DEF on_spawn
  <2>2. state[c] = "empty" /\ UNCHANGED snaps
    BY <1>4 DEF FirstIn, on_spawn, checkpoints
  <2>3. /\ state'[c] = "pending" /\ image'[c] = i /\ parent'[c] = current
        /\ caps'[c] \subseteq caps[current] /\ caps'[c] \subseteq Ceiling[i]
    BY <1>0 DEF Granted, TypeOK
  <2>4. \A p \in Pid : p # c =>
            /\ state'[p] = state[p] /\ image'[p] = image[p]
            /\ caps'[p] = caps[p] /\ parent'[p] = parent[p]
    BY <1>0 DEF TypeOK
  <2>5. current # c /\ Valid' = Valid
    BY <2>1, <2>2 DEF Valid
  <2>6. \A p \in Pid : state'[p] # "empty" => caps'[p] \subseteq Ceiling[image'[p]]
    BY <2>3, <2>4 DEF Attenuation
  <2>7. ASSUME NEW p \in Pid, state'[p] # "empty", parent'[p] # NoPid
        PROVE  state'[parent'[p]] # "empty" /\ caps'[p] \subseteq caps'[parent'[p]]
    <3>1. CASE p = c
      BY <2>1, <2>3, <2>4, <2>5, <3>1
    <3>2. CASE p # c
      <4>1. /\ state[p] # "empty" /\ parent[p] # NoPid /\ parent'[p] = parent[p]
            /\ caps'[p] = caps[p]
        BY <2>4, <2>7, <3>2
      <4>2. parent[p] \in Pid /\ state[parent[p]] # "empty"
            /\ caps[p] \subseteq caps[parent[p]]
        BY <1>0, <4>1 DEF Attenuation, TypeOK
      <4> QED
        BY <2>2, <2>4, <4>1, <4>2
    <3> QED
      BY <3>1, <3>2
  <2>8. ASSUME NEW s \in Valid'
        PROVE  \E p \in Pid : /\ state'[p] # "empty" /\ snaps'[s].image = image'[p]
                              /\ snaps'[s].caps \subseteq caps'[p]
    <3>1. s \in Valid /\ snaps'[s] = snaps[s]
      BY <2>2, <2>5, <2>8
    <3> PICK p \in Pid : /\ state[p] # "empty" /\ snaps[s].image = image[p]
                         /\ snaps[s].caps \subseteq caps[p]
      BY <3>1 DEF Attenuation
    <3> QED
      BY <2>2, <2>4, <3>1
  <2> QED
    BY <2>6, <2>7, <2>8 DEF Attenuation
<1>5. CASE on_snapshot
  <2>1. current \in Pid /\ state[current] = "running"
    BY <1>5, CurrentInTable DEF on_snapshot, OnHart, HartInv
  <2>2. UNCHANGED <<state, image, caps, parent>>
    BY <1>5 DEF on_snapshot, life, identity
  <2> PICK t \in Snap : snaps' = [snaps EXCEPT ![t] =
              [valid |-> TRUE, root |-> FreshRoot, frame |-> FreshFrame,
               caps |-> caps[current], image |-> image[current]]]
    BY <1>5 DEF on_snapshot
  <2>3. \A u \in Snap : u # t => snaps'[u] = snaps[u]
    BY <1>0 DEF TypeOK
  <2>4. snaps'[t].image = image[current] /\ snaps'[t].caps = caps[current]
    BY <1>0 DEF TypeOK
  <2> QED
    BY <2>1, <2>2, <2>3, <2>4 DEF Attenuation, Valid
<1> QED
  BY <1>1, <1>2, <1>3, <1>4, <1>5, IdentitySteps

(* Capabilities only shrink along every chain of spawns, checkpoints and   *)
(* continuations, for every set of images, ceilings and requests.          *)
THEOREM NoWidening == Spec => []Attenuation
<1>1. Init => Attenuation
  BY DEF Init, Attenuation, Valid, NoSnapshot
<1> QED
  BY <1>1, HartInit, HartNext, AttenuationNext, PTL DEF Spec

-----------------------------------------------------------------------------
(* The life of a payload: suspension loses neither its place nor its       *)
(* clock, its end is final, and it is announced before it does anything.   *)

(* A suspended payload's place.                                            *)
LEMMA LifeKernel ==
    ASSUME HartInv, PreemptedKeepsPlace, Kernel
    PROVE  PreemptedKeepsPlace'
<1>0. TypeOK
  BY DEF HartInv
<1> USE DEF PreemptedKeepsPlace, life, identity, timing, memory, checkpoints, input
<1>1. CASE Run \/ RunReaps \/ ServiceEnd
  BY <1>0, <1>1 DEF Run, RunReaps, ServiceEnd, Reap, Dead, Terminal, TypeOK
<1>2. CASE ServeReadOnly \/ Crash \/ Launch \/ SuiteDone
  BY <1>2 DEF ServeReadOnly, Crash, Launch, AnnounceStart, ResumeUser,
     ResumeKernel, SuiteDone
<1>3. ASSUME NEW p \in Pid, ServeKill(p) \/ LoadFailed(p)
      PROVE  PreemptedKeepsPlace'
  BY <1>0, <1>3 DEF ServeKill, LoadFailed, TypeOK
<1>4. ASSUME NEW p \in Pid, NEW d \in Deadlines, ServeSetBudget(p, d)
      PROVE  PreemptedKeepsPlace'
  BY <1>4 DEF ServeSetBudget
<1>5. ASSUME NEW s \in Suites, ServeRunSuite(s) \/ IdleSuite(s)
      PROVE  PreemptedKeepsPlace'
  BY <1>5 DEF ServeRunSuite, IdleSuite, Seed
<1>6. ASSUME NEW p \in Pid, StartResume(p) \/ StartFresh(p)
      PROVE  PreemptedKeepsPlace'
  BY <1>0, <1>6 DEF StartResume, StartFresh, TakeSpace, TypeOK
<1>7. ASSUME NEW p \in Pid, ForkContinuation(p) PROVE PreemptedKeepsPlace'
  BY <1>0, <1>7 DEF ForkContinuation, TakeSpace, TypeOK
<1> QED
  BY <1>1, <1>2, <1>3, <1>4, <1>5, <1>6, <1>7
     DEF Kernel, Serve, Start, Drain

LEMMA LifeNext ==
    HartInv /\ PreemptedKeepsPlace /\ [Next]_vars => PreemptedKeepsPlace'
<1> SUFFICES ASSUME HartInv, PreemptedKeepsPlace, [Next]_vars
             PROVE  PreemptedKeepsPlace'
  OBVIOUS
<1>0. TypeOK
  BY DEF HartInv
<1> USE DEF PreemptedKeepsPlace, life, identity, timing, memory, checkpoints, input
<1>1. CASE on_exit \/ mark_faulted \/ on_snapshot
  BY <1>0, <1>1 DEF on_exit, mark_faulted, Leave, on_snapshot, TypeOK
<1>2. ASSUME NEW i \in Spawnable, NEW requested \in SUBSET Cap,
             on_spawn(i, requested)
      PROVE  PreemptedKeepsPlace'
  BY <1>0, <1>2 DEF on_spawn, TypeOK
<1>3. CASE Tick
  <2> PICK dt \in 1 .. TickUnits :
        \/ TickQuiet(dt) \/ TickDrain(dt)
        \/ (\E kills \in KillKeys : TickKill(dt, kills)) \/ TickPreempt(dt)
    BY <1>3 DEF Tick
  <2>1. CASE TickPreempt(dt)
    <3>1. TrappedContext \in KernelContext \cup {"suspended"}
      BY <2>1, PreemptEffect DEF TrappedContext, KernelContext
    <3>2. current \in Pid /\ resumeFrame[current] # NoFrame
      BY <2>1, PreemptEffect DEF HartInv, RunningHasFrame
    <3> QED
      BY <1>0, <2>1, <3>1, <3>2, PreemptEffect DEF TypeOK
  <2>2. CASE TickQuiet(dt) \/ TickDrain(dt)
    BY <2>2 DEF TickQuiet, TickDrain
  <2>3. ASSUME NEW kills \in KillKeys, TickKill(dt, kills)
        PROVE  PreemptedKeepsPlace'
    BY <1>0, <2>3 DEF TickKill, TypeOK
  <2> QED
    BY <2>1, <2>2, <2>3
<1>4. CASE OperatorSends \/ Halted \/ UNCHANGED vars
  BY <1>4 DEF OperatorSends, Halted, vars
<1> QED
  BY <1>1, <1>2, <1>3, <1>4, LifeKernel DEF Next, Payload

(* A suspended payload waits with the registers its preemption saved, so   *)
(* it is never restarted from its entry or from an old checkpoint.         *)
THEOREM SuspensionKeepsPlace == Spec => []PreemptedKeepsPlace
<1>1. Init => PreemptedKeepsPlace
  BY DEF Init, PreemptedKeepsPlace
<1> QED
  BY <1>1, HartInit, HartNext, LifeNext, PTL DEF Spec

-----------------------------------------------------------------------------
(* The clock.                                                              *)
LEMMA ClockStep ==
    ASSUME HartInv, PreemptedKeepsPlace, [Next]_vars, NEW p \in Pid,
           Started(p), Started(p)'
    PROVE  age'[p] >= age[p]
<1>0. TypeOK /\ age[p] \in 0 .. MaxAge
  BY DEF HartInv, TypeOK
<1>a. age'[p] = age[p] => age'[p] >= age[p]
  BY <1>0, SizeAssumption
<1> USE DEF life, identity, timing, memory, checkpoints, input
<1>1. CASE UNCHANGED age
  BY <1>a, <1>1
<1>2. ASSUME NEW s \in Suites, Seed(s) PROVE FALSE
  BY <1>2 DEF Seed, Started
<1>3. ASSUME NEW q \in Pid, StartResume(q) PROVE age'[p] = age[p]
  BY <1>0, <1>3 DEF StartResume, ResumedAge, FirstIn, Started, TypeOK
<1>4. ASSUME NEW q \in Pid, StartFresh(q) PROVE age'[p] = age[p]
  BY <1>0, <1>4 DEF StartFresh, FirstIn, Started, PreemptedKeepsPlace, TypeOK
<1>5. ASSUME NEW q \in Pid, ForkContinuation(q) PROVE age'[p] = age[p]
  BY <1>0, <1>5 DEF ForkContinuation, FirstIn, Started, TypeOK
<1>6. ASSUME NEW i \in Spawnable, NEW requested \in SUBSET Cap,
             on_spawn(i, requested)
      PROVE  age'[p] = age[p]
  BY <1>0, <1>6 DEF on_spawn, FirstIn, Started, TypeOK
<1>7. ASSUME NEW dt \in 1 .. TickUnits, age' = Aged(dt)
      PROVE  age'[p] >= age[p]
  BY <1>0, <1>7, SizeAssumption DEF Aged, AtMost
<1>8. CASE Kernel
  BY <1>1, <1>2, <1>3, <1>4, <1>5, <1>8, <1>a
     DEF Kernel, Run, RunReaps, Serve, ServeReadOnly, ServeKill, ServeSetBudget,
         ServeRunSuite, IdleSuite, Crash, ServiceEnd, Start, LoadFailed, Launch,
         AnnounceStart, ResumeUser, ResumeKernel, Drain, SuiteDone
<1>9. CASE Tick
  BY <1>7, <1>9 DEF Tick, TickQuiet, TickDrain, TickKill, TickPreempt
<1>10. CASE Payload \/ OperatorSends \/ Halted \/ UNCHANGED vars
  BY <1>1, <1>6, <1>10, <1>a DEF Payload, on_exit, mark_faulted, Leave,
     on_snapshot, OperatorSends, Halted, vars
<1> QED
  BY <1>8, <1>9, <1>10 DEF Next

(* A deadline is counted from the first start: no sequence of preemptions, *)
(* resumptions and launches gives a payload time back.                     *)
THEOREM ClockNeverTurnsBack == Spec => BudgetNotRefilled
<1>1. Init => PreemptedKeepsPlace
  BY DEF Init, PreemptedKeepsPlace
<1>2. HartInv /\ PreemptedKeepsPlace /\ [Next]_vars =>
        [\A p \in Pid : Started(p) /\ Started(p)' => age'[p] >= age[p]]_vars
  BY ClockStep
<1> QED
  BY <1>1, <1>2, HartInit, HartNext, LifeNext, PTL DEF Spec, BudgetNotRefilled

-----------------------------------------------------------------------------
(* The end.  Terminal events come with terminal states: whoever ends a     *)
(* payload finds it alive.                                                 *)
OneEnd == \A p \in Pid : EndedOnce(p)

(* What a step does to the slot of a payload that has ended.               *)
Settled(p) ==
    \/ state'[p] = state[p] /\ caps'[p] = caps[p] /\ ends'[p] = ends[p]
    \/ ~any_alive /\ \A q \in Pid : state'[q] \in {"empty", "pending"}

(* A step that moves one live or empty slot, and counts an end exactly if  *)
(* the slot becomes terminal.                                              *)
LEMMA OneSlotMoves ==
    ASSUME TypeOK, OneEnd, NEW q \in Pid, NEW st \in States,
           state[q] \notin Terminal, state' = [state EXCEPT ![q] = st],
           st \in Terminal => ends' = [ends EXCEPT ![q] = ends[q] + 1],
           st \notin Terminal => ends' = ends \/ ends' = [ends EXCEPT ![q] = 0],
           \A p \in Pid : p # q => caps'[p] = caps[p]
    PROVE  OneEnd' /\ \A p \in Pid : state[p] \in Terminal => Settled(p)
<1>1. ends[q] = 0
  BY DEF OneEnd, EndedOnce
<1>2. state'[q] = st /\ ends'[q] = IF st \in Terminal THEN 1 ELSE 0
  BY <1>1 DEF TypeOK
<1>3. \A p \in Pid : p # q => state'[p] = state[p] /\ ends'[p] = ends[p]
  BY DEF TypeOK
<1>4. OneEnd'
  BY <1>2, <1>3 DEF OneEnd, EndedOnce
<1> QED
  BY <1>3, <1>4 DEF Settled

LEMMA EndStep ==
    ASSUME HartInv, OneEnd, [Next]_vars
    PROVE  OneEnd' /\ \A p \in Pid : state[p] \in Terminal => Settled(p)
<1> DEFINE Good == OneEnd' /\ \A p \in Pid : state[p] \in Terminal => Settled(p)
<1> SUFFICES Good
  OBVIOUS
<1>0. /\ TypeOK
      /\ \A st \in {"empty", "pending", "running"} : st \in States /\ st \notin Terminal
      /\ \A st \in {"exited", "faulted", "killed"} : st \in States /\ st \in Terminal
  BY DEF HartInv, Terminal, States
<1> USE DEF life, identity, timing, memory, checkpoints, input
<1>1. ASSUME UNCHANGED <<life, caps>> PROVE Good
  BY <1>1 DEF OneEnd, EndedOnce, Settled
<1>2. ASSUME NEW s \in Suites, ServeRunSuite(s) \/ IdleSuite(s)
      PROVE  Good
  <2>1. ~any_alive
    BY <1>2 DEF ServeRunSuite, IdleSuite, HartInv, IdleHasNoPayload
  <2>2. \A p \in Pid : state'[p] \in {"empty", "pending"} /\ ends'[p] = 0
    BY <1>2 DEF ServeRunSuite, IdleSuite, Seed
  <2> QED
    BY <1>0, <2>1, <2>2 DEF OneEnd, EndedOnce, Settled
<1>3. ASSUME NEW q \in Pid, NEW st \in {"faulted", "killed"},
             state[q] = "pending", UNCHANGED caps,
             state' = [state EXCEPT ![q] = st],
             ends' = [ends EXCEPT ![q] = ends[q] + 1]
      PROVE  Good
  BY <1>0, <1>3, OneSlotMoves
<1>4. ASSUME NEW q \in Pid, state[q] = "running", UNCHANGED caps,
             NEW st \in {"exited", "faulted", "killed"},
             state' = [state EXCEPT ![q] = st],
             ends' = [ends EXCEPT ![q] = ends[q] + 1]
      PROVE  Good
  BY <1>0, <1>4, OneSlotMoves
<1>5. ASSUME NEW q \in Pid, NEW st \in {"pending", "running"},
             state[q] \in {"empty", "pending", "running"},
             state' = [state EXCEPT ![q] = st],
             ends' = ends \/ ends' = [ends EXCEPT ![q] = 0],
             \A p \in Pid : p # q => caps'[p] = caps[p]
      PROVE  Good
  BY <1>0, <1>5, OneSlotMoves
<1> HIDE DEF Good
<1>6. CASE Kernel
  <2>1. CASE Run \/ RunReaps \/ ServiceEnd \/ ServeReadOnly \/ Crash \/ Launch
             \/ SuiteDone
    BY <1>1, <2>1 DEF Run, RunReaps, ServiceEnd, ServeReadOnly, Crash, Launch,
       AnnounceStart, ResumeUser, ResumeKernel, SuiteDone
  <2>2. ASSUME NEW q \in Pid, ServeKill(q) PROVE Good
    BY <1>3, <2>2 DEF ServeKill, Remediable
  <2>3. ASSUME NEW q \in Pid, NEW d \in Deadlines, ServeSetBudget(q, d) PROVE Good
    BY <1>1, <2>3 DEF ServeSetBudget
  <2>4. ASSUME NEW q \in Pid, LoadFailed(q) PROVE Good
    BY <1>3, <2>4 DEF LoadFailed, FirstIn
  <2>5. ASSUME NEW q \in Pid, StartResume(q) \/ StartFresh(q) PROVE Good
    BY <1>5, <2>5 DEF StartResume, StartFresh, FirstIn
  <2>6. ASSUME NEW q \in Pid, ForkContinuation(q) PROVE Good
    <3>1. /\ state[q] = "empty" /\ state' = [state EXCEPT ![q] = "pending"]
          /\ ends' = [ends EXCEPT ![q] = 0]
      BY <2>6 DEF ForkContinuation, FirstIn
    <3>2. \A p \in Pid : p # q => caps'[p] = caps[p]
      BY <1>0, <2>6 DEF ForkContinuation, TypeOK
    <3> QED
      BY <1>5, <3>1, <3>2
  <2> QED
    BY <1>2, <1>6, <2>1, <2>2, <2>3, <2>4, <2>5, <2>6
       DEF Kernel, Serve, Start, Drain
<1>7. CASE Tick
  <2> PICK dt \in 1 .. TickUnits :
        \/ TickQuiet(dt) \/ TickDrain(dt)
        \/ (\E kills \in KillKeys : TickKill(dt, kills)) \/ TickPreempt(dt)
    BY <1>7 DEF Tick
  <2>1. CASE TickPreempt(dt)
    BY <1>5, <2>1, PreemptEffect DEF TickPreempt
  <2>2. ASSUME NEW kills \in KillKeys, TickKill(dt, kills) PROVE Good
    BY <1>0, <1>4, <2>2, TickKillsOnce DEF TickKill
  <2>3. CASE TickQuiet(dt) \/ TickDrain(dt)
    BY <1>1, <2>3 DEF TickQuiet, TickDrain
  <2> QED
    BY <2>1, <2>2, <2>3
<1>8. CASE on_exit \/ mark_faulted
  <2>1. current \in Pid /\ state[current] = "running"
    BY <1>8, CurrentInTable DEF on_exit, mark_faulted, Leave, OnHart, HartInv
  <2> QED
    BY <1>4, <1>8, <2>1 DEF on_exit, mark_faulted, Leave
<1>9. ASSUME NEW i \in Spawnable, NEW requested \in SUBSET Cap,
             on_spawn(i, requested)
      PROVE  Good
  <2> PICK c \in Pid :
        /\ state[c] = "empty" /\ state' = [state EXCEPT ![c] = "pending"]
        /\ ends' = [ends EXCEPT ![c] = 0]
        /\ caps' = [caps EXCEPT ![c] = Granted(requested, i)]
    BY <1>9 DEF on_spawn, FirstIn
  <2>1. \A p \in Pid : p # c => caps'[p] = caps[p]
    BY <1>0 DEF TypeOK
  <2> QED
    BY <1>5, <2>1
<1>10. CASE on_snapshot \/ OperatorSends \/ Halted \/ UNCHANGED vars
  BY <1>1, <1>10 DEF on_snapshot, OperatorSends, Halted, vars
<1> QED
  BY <1>6, <1>7, <1>8, <1>9, <1>10 DEF Next, Payload

(* A payload ends once, with one terminal event, whoever ends it: nothing  *)
(* short of reseeding a table with no live payload changes a terminal slot.*)
THEOREM EndIsFinal == Spec => TerminalIsFinal
<1>1. Init => OneEnd
  BY DEF Init, OneEnd, EndedOnce, Terminal
<1>2. HartInv /\ OneEnd /\ [Next]_vars => OneEnd'
  BY EndStep
<1>3. HartInv /\ OneEnd /\ [Next]_vars =>
        [\A p \in Pid :
          /\ EndedOnce(p)'
          /\ state[p] \in Terminal =>
                \/ state'[p] = state[p] /\ caps'[p] = caps[p] /\ ends'[p] = ends[p]
                \/ ~any_alive /\ \A q \in Pid : state'[q] \in {"empty", "pending"}]_vars
  BY EndStep DEF OneEnd, Settled
<1> QED
  BY <1>1, <1>2, <1>3, HartInit, HartNext, PTL DEF Spec, TerminalIsFinal

-----------------------------------------------------------------------------
(* The causal anchor.  A payload waiting for its first start has none, one *)
(* suspended in U-mode has one, and one about to enter U-mode has one.     *)
Announced ==
    /\ \A p \in Pid : state[p] = "pending" /\ ~preempted[p] => ~anchor[p]
    /\ \A p \in Pid : state[p] = "pending" /\ preempted[p]
                         /\ context[p] = "suspended" => anchor[p]
    /\ pc = "launch2" /\ context[current] \in UserContext => anchor[current]

AnchorInv == HartInv /\ PreemptedKeepsPlace /\ Attenuation /\ Announced
                 /\ AnchorBeforeEvents

LEMMA AnchorKernel ==
    ASSUME AnchorInv, Kernel
    PROVE  Announced' /\ AnchorBeforeEvents'
<1>0. TypeOK /\ HartInv
  BY DEF AnchorInv, HartInv
<1>a. "suspended" \in UserContext /\ KernelContext \cap UserContext = {}
  BY DEF UserContext, KernelContext
<1>b. \A p \in Pid : p # NoPid
  BY SizeAssumption DEF Pid, NoPid
<1> USE DEF AnchorInv, Announced, AnchorBeforeEvents, life, identity, timing, memory,
        checkpoints, input
<1>1. CASE Run \/ RunReaps \/ ServiceEnd
  BY <1>1 DEF Run, RunReaps, ServiceEnd
<1>2. CASE ServeReadOnly \/ Crash \/ SuiteDone
  BY <1>2 DEF ServeReadOnly, Crash, SuiteDone
<1>3. ASSUME NEW p \in Pid, ServeKill(p)
      PROVE  Announced' /\ AnchorBeforeEvents'
  BY <1>0, <1>3 DEF ServeKill, Remediable, TypeOK
<1>4. ASSUME NEW p \in Pid, LoadFailed(p)
      PROVE  Announced' /\ AnchorBeforeEvents'
  BY <1>0, <1>4 DEF LoadFailed, FirstIn, TypeOK
<1>5. ASSUME NEW p \in Pid, NEW d \in Deadlines, ServeSetBudget(p, d)
      PROVE  Announced' /\ AnchorBeforeEvents'
  BY <1>5 DEF ServeSetBudget
<1>6. ASSUME NEW s \in Suites, ServeRunSuite(s) \/ IdleSuite(s)
      PROVE  Announced' /\ AnchorBeforeEvents'
  BY <1>6 DEF ServeRunSuite, IdleSuite, Seed
<1>7. ASSUME NEW p \in Pid, StartResume(p)
      PROVE  Announced' /\ AnchorBeforeEvents'
  <2>1. /\ state[p] = "pending" /\ state' = [state EXCEPT ![p] = "running"]
        /\ preempted' = [preempted EXCEPT ![p] = FALSE]
        /\ current' = p /\ UNCHANGED <<context, anchor, parent>>
    BY <1>7 DEF StartResume, FirstIn
  <2>2. /\ preempted[p] => pc' = "launch2"
        /\ ~preempted[p] => pc' = "launch1"
    BY <1>7 DEF StartResume, ResumedAt
  <2>3. CASE preempted[p]
    BY <1>0, <1>a, <2>1, <2>2, <2>3 DEF PreemptedKeepsPlace, TypeOK
  <2>4. CASE ~preempted[p]
    BY <1>0, <2>1, <2>2, <2>4 DEF TypeOK
  <2> QED
    BY <2>3, <2>4
<1>8. ASSUME NEW p \in Pid, StartFresh(p)
      PROVE  Announced' /\ AnchorBeforeEvents'
  BY <1>0, <1>8 DEF StartFresh, FirstIn, PreemptedKeepsPlace, TypeOK
<1>9. CASE AnnounceStart
  <2>1. current \in Pid /\ state[current] = "running"
    BY <1>0, <1>9, CurrentInTable DEF AnnounceStart, OnHart, HartInv
  <2> QED
    BY <1>0, <1>9, <2>1 DEF AnnounceStart, TypeOK
<1>10. CASE ResumeUser
  BY <1>10 DEF ResumeUser
<1>11. CASE ResumeKernel
  <2>1. context[current] \notin UserContext /\ pc' # "user"
    BY <1>11, <1>a DEF ResumeKernel, KernelContext
  <2> QED
    BY <1>11, <2>1 DEF ResumeKernel
<1>12. ASSUME NEW p \in Pid, ForkContinuation(p)
       PROVE  Announced' /\ AnchorBeforeEvents'
  <2>1. /\ state[p] = "empty" /\ state' = [state EXCEPT ![p] = "pending"]
        /\ preempted' = [preempted EXCEPT ![p] = FALSE]
        /\ anchor' = [anchor EXCEPT ![p] = FALSE]
        /\ parent' = [parent EXCEPT ![p] = NoPid]
        /\ context' = [context EXCEPT ![p] = "checkpoint"]
        /\ pc = "pick" /\ UNCHANGED <<pc, current>>
    BY <1>12 DEF ForkContinuation, FirstIn
  <2>2. \A q \in Pid : state[q] # "empty" /\ parent[q] # NoPid => parent[q] # p
    BY <2>1 DEF Attenuation
  <2> QED
    BY <1>0, <2>1, <2>2 DEF TypeOK
<1> QED
  BY <1>1, <1>2, <1>3, <1>4, <1>5, <1>6, <1>7, <1>8, <1>9, <1>10, <1>11, <1>12
     DEF Kernel, Serve, Start, Launch, Drain

LEMMA AnchorNext == AnchorInv /\ [Next]_vars => AnchorInv'
<1> SUFFICES ASSUME AnchorInv, [Next]_vars PROVE Announced' /\ AnchorBeforeEvents'
  BY HartNext, LifeNext, AttenuationNext DEF AnchorInv
<1>0. TypeOK /\ HartInv
  BY DEF AnchorInv, HartInv
<1> USE DEF AnchorInv, Announced, AnchorBeforeEvents, life, identity, timing, memory,
        checkpoints, input
<1>1. CASE on_exit \/ mark_faulted
  <2>1. current \in Pid /\ state[current] = "running"
    BY <1>0, <1>1, CurrentInTable DEF on_exit, mark_faulted, Leave, OnHart, HartInv
  <2> QED
    BY <1>0, <1>1, <2>1 DEF on_exit, mark_faulted, Leave, Redirect, TypeOK
<1>2. CASE on_snapshot
  BY <1>2 DEF on_snapshot
<1>3. ASSUME NEW i \in Spawnable, NEW requested \in SUBSET Cap,
             on_spawn(i, requested)
      PROVE  Announced' /\ AnchorBeforeEvents'
  <2>1. current \in Pid /\ state[current] = "running"
    BY <1>0, <1>3, CurrentInTable DEF on_spawn, OnHart, HartInv
  <2> PICK c \in Pid :
        /\ state[c] = "empty" /\ state' = [state EXCEPT ![c] = "pending"]
        /\ preempted' = [preempted EXCEPT ![c] = FALSE]
        /\ anchor' = [anchor EXCEPT ![c] = FALSE]
        /\ parent' = [parent EXCEPT ![c] = current]
    BY <1>3 DEF on_spawn, FirstIn
  <2>2. pc = "user" /\ UNCHANGED <<pc, current, context>>
    BY <1>3 DEF on_spawn
  <2>3. \A q \in Pid : state[q] # "empty" /\ parent[q] # NoPid => parent[q] # c
    BY DEF Attenuation
  <2> QED
    BY <1>0, <2>1, <2>2, <2>3 DEF TypeOK
<1>4. CASE Tick
  <2> PICK dt \in 1 .. TickUnits :
        \/ TickQuiet(dt) \/ TickDrain(dt)
        \/ (\E kills \in KillKeys : TickKill(dt, kills)) \/ TickPreempt(dt)
    BY <1>4 DEF Tick
  <2>1. CASE TickPreempt(dt)
    <3>1. TrappedContext = "suspended" => pc = "user"
      BY <2>1, <1>0, PreemptEffect DEF TrappedContext
    <3>2. UNCHANGED <<anchor, parent>>
      BY <2>1 DEF TickPreempt
    <3> QED
      BY <1>0, <2>1, <3>1, <3>2, PreemptEffect DEF TypeOK
  <2>2. ASSUME NEW kills \in KillKeys, TickKill(dt, kills)
        PROVE  Announced' /\ AnchorBeforeEvents'
    BY <1>0, <2>2 DEF TickKill, OnCpu, Redirect, TypeOK
  <2>3. CASE TickQuiet(dt) \/ TickDrain(dt)
    BY <2>3 DEF TickQuiet, TickDrain
  <2> QED
    BY <2>1, <2>2, <2>3
<1>5. CASE OperatorSends \/ Halted \/ UNCHANGED vars
  BY <1>5 DEF OperatorSends, Halted, vars
<1> QED
  BY <1>1, <1>2, <1>3, <1>4, <1>5, AnchorKernel DEF Next, Payload

(* A payload executes only after its payload_start, so its events and its  *)
(* children's have a cause to name, and a payload with registers of its    *)
(* own is announced once however often it is suspended.                    *)
THEOREM AnchoredFirst == Spec => []AnchorBeforeEvents
<1>1. Init => AnchorInv
  BY HartInit DEF Init, AnchorInv, PreemptedKeepsPlace, Attenuation, Valid,
     NoSnapshot, Announced, AnchorBeforeEvents
<1>2. AnchorInv => AnchorBeforeEvents
  BY DEF AnchorInv
<1> QED
  BY <1>1, <1>2, AnchorNext, PTL DEF Spec

=============================================================================
