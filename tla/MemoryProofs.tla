---------------------------- MODULE MemoryProofs ----------------------------
(***************************************************************************)
(* Who owns the frames of the pool, for every table size, pool and suite:  *)
(* no frame has two owners, none is freed while something refers to it,    *)
(* and the page table in use is never returned to the pool.                *)
(***************************************************************************)
EXTENDS SchedulerProofs

(* The four kinds of reference, one by one.                                *)
LEMMA RefKinds ==
    /\ \A p \in Pid : <<"root", p>> \in Refs /\ At(<<"root", p>>) = root[p]
    /\ \A p \in Pid : /\ <<"resume", p>> \in Refs
                      /\ At(<<"resume", p>>) = resumeFrame[p]
    /\ \A s \in Snap : /\ <<"sroot", s>> \in Refs
                       /\ At(<<"sroot", s>>) = snaps[s].root
    /\ \A s \in Snap : /\ <<"sframe", s>> \in Refs
                       /\ At(<<"sframe", s>>) = snaps[s].frame
    /\ <<"kernel", 0>> \in Refs /\ At(<<"kernel", 0>>) = KernelRoot
    /\ \A r \in Refs : \/ \E p \in Pid : r = <<"root", p>> \/ r = <<"resume", p>>
                       \/ \E s \in Snap : r = <<"sroot", s>> \/ r = <<"sframe", s>>
                       \/ r = <<"kernel", 0>>
BY DEF Refs, At

LEMMA RefKindsNext ==
    /\ \A p \in Pid : At(<<"root", p>>)' = root'[p]
    /\ \A p \in Pid : At(<<"resume", p>>)' = resumeFrame'[p]
    /\ \A s \in Snap : At(<<"sroot", s>>)' = snaps'[s].root
    /\ \A s \in Snap : At(<<"sframe", s>>)' = snaps'[s].frame
    /\ At(<<"kernel", 0>>)' = KernelRoot
BY DEF At

(* A step that drops some references, and frees no frame that one of the   *)
(* others names, keeps every owner apart.                                  *)
Drops ==
    /\ \A r \in Refs : At(r)' = At(r) \/ At(r)' = NoFrame
    /\ \A r \in Refs : At(r)' # NoFrame /\ At(r) \in allocated
                          => At(r) \in allocated'

LEMMA DropsKeepsOwners ==
    ASSUME FramesOwnedOnce, Drops
    PROVE  FramesOwnedOnce'
<1>1. \A r \in Refs : At(r)' # NoFrame => At(r)' \in allocated'
  BY DEF FramesOwnedOnce, Drops, Owned
<1>2. \A r, t \in Refs : r # t /\ At(r)' # NoFrame => At(r)' # At(t)'
  BY DEF FramesOwnedOnce, Drops
<1> QED
  BY <1>1, <1>2 DEF FramesOwnedOnce, Owned, Refs

(* A step that gives two references a and b fresh frames, keeps the others *)
(* and frees nothing.                                                      *)
LEMMA TakesKeepsOwners ==
    ASSUME FramesOwnedOnce, TwoFree, NEW a \in Refs, NEW b \in Refs,
           At(a)' = FreshRoot, At(b)' = FreshFrame,
           \A r \in Refs \ {a, b} : At(r)' = At(r),
           allocated' = allocated \cup {FreshRoot, FreshFrame}
    PROVE  FramesOwnedOnce'
<1>0. /\ FreshRoot \notin allocated /\ FreshFrame \notin allocated
      /\ FreshRoot # FreshFrame
  BY FreshFrames DEF Free
<1>1. \A r \in Refs : At(r)' # NoFrame => At(r)' \in allocated'
  BY DEF FramesOwnedOnce, Owned
<1>2. \A r \in Refs \ {a, b} : At(r)' # NoFrame =>
          At(r)' \in allocated /\ At(r)' # FreshRoot /\ At(r)' # FreshFrame
  BY <1>0 DEF FramesOwnedOnce, Owned
<1>3. FreshRoot # NoFrame /\ FreshFrame # NoFrame
  BY FreshFrames, FrameAssumption DEF Free
<1>4. \A r, t \in Refs : r # t /\ At(r)' # NoFrame => At(r)' # At(t)'
  <2> TAKE r, t \in Refs
  <2> HAVE r # t /\ At(r)' # NoFrame
  <2>1. CASE r \in {a, b} /\ t \in {a, b}
    BY <2>1, <1>0
  <2>2. CASE r \in {a, b} /\ t \notin {a, b}
    BY <2>2, <1>2, <1>3
  <2>3. CASE r \notin {a, b} /\ t \in {a, b}
    BY <2>3, <1>2
  <2>4. CASE r \notin {a, b} /\ t \notin {a, b}
    BY <2>4 DEF FramesOwnedOnce
  <2> QED
    BY <2>1, <2>2, <2>3, <2>4
<1> QED
  BY <1>1, <1>4 DEF FramesOwnedOnce, Owned, Refs

-----------------------------------------------------------------------------
(* Few steps move frames; the others leave every reference and the pool    *)
(* alone, a preemption included.                                           *)
KeepsMemory == UNCHANGED <<root, resumeFrame, snaps, allocated>>

LEMMA MemorySteps ==
    ASSUME HartInv, FramesOwnedOnce, [Next]_vars
    PROVE  \/ KeepsMemory
           \/ RunReaps \/ ServiceEnd
           \/ \E s \in Suites : ServeRunSuite(s) \/ IdleSuite(s)
           \/ \E p \in Pid : StartFresh(p) \/ ForkContinuation(p)
           \/ \E i \in Spawnable, requested \in SUBSET Cap : on_spawn(i, requested)
           \/ on_snapshot
<1> USE DEF KeepsMemory, life, identity, timing, memory, checkpoints, input
<1>1. CASE Kernel
  <2>1. CASE Run \/ ServeReadOnly \/ Crash \/ Launch \/ SuiteDone
    BY <2>1 DEF Run, ServeReadOnly, Crash, Launch, AnnounceStart, ResumeUser,
       ResumeKernel, SuiteDone
  <2>2. ASSUME NEW p \in Pid, ServeKill(p) PROVE KeepsMemory
    BY <2>2 DEF ServeKill
  <2>3. ASSUME NEW p \in Pid, NEW d \in Deadlines, ServeSetBudget(p, d)
        PROVE  KeepsMemory
    BY <2>3 DEF ServeSetBudget
  <2>4. ASSUME NEW p \in Pid, StartResume(p) \/ LoadFailed(p)
        PROVE  KeepsMemory
    BY <2>4 DEF StartResume, LoadFailed
  <2> QED
    BY <1>1, <2>1, <2>2, <2>3, <2>4 DEF Kernel, Serve, Start, Drain
<1>2. CASE on_exit \/ mark_faulted
  BY <1>2 DEF on_exit, mark_faulted, Leave
<1>3. CASE Tick
  <2> PICK dt \in 1 .. TickUnits :
        \/ TickQuiet(dt) \/ TickDrain(dt)
        \/ (\E kills \in KillKeys : TickKill(dt, kills)) \/ TickPreempt(dt)
    BY <1>3 DEF Tick
  <2>1. CASE TickPreempt(dt)
    <3>1. /\ current \in Pid /\ state[current] = "running"
          /\ UNCHANGED <<root, resumeFrame>>
          /\ allocated' = allocated \cup {resumeFrame[current]}
      BY <2>1, PreemptEffect
    <3>2. resumeFrame[current] # NoFrame
      BY <3>1 DEF HartInv, RunningHasFrame
    <3>3. resumeFrame[current] \in allocated
      BY <3>1, <3>2, RefKinds DEF FramesOwnedOnce, Owned
    <3> QED
      BY <2>1, <3>1, <3>3 DEF TickPreempt
  <2>2. CASE TickQuiet(dt) \/ TickDrain(dt)
    BY <2>2 DEF TickQuiet, TickDrain
  <2>3. ASSUME NEW kills \in KillKeys, TickKill(dt, kills) PROVE KeepsMemory
    BY <2>3 DEF TickKill
  <2> QED
    BY <2>1, <2>2, <2>3
<1>4. CASE OperatorSends \/ Halted \/ UNCHANGED vars
  BY <1>4 DEF OperatorSends, Halted, vars
<1> QED
  BY <1>1, <1>2, <1>3, <1>4 DEF Next, Payload

(* Reaping frees the frames of terminal slots only, and forgets them.      *)
LEMMA ReapDrops ==
    ASSUME TypeOK, FramesOwnedOnce, Reap, UNCHANGED snaps
    PROVE  Drops
<1>1. \A p \in Pid : root'[p] = root[p] \/ root'[p] = NoFrame
  BY DEF Reap
<1>2. \A p \in Pid : resumeFrame'[p] = resumeFrame[p] \/ resumeFrame'[p] = NoFrame
  BY DEF Reap
<1>3. \A r \in Refs : At(r)' = At(r) \/ At(r)' = NoFrame
  BY <1>1, <1>2, RefKinds, RefKindsNext
<1>4. ASSUME NEW r \in Refs, At(r)' # NoFrame, At(r) \in allocated
      PROVE  At(r) \in allocated'
  <2>1. \A p \in Dead : p \in Pid
    BY DEF Dead
  <2>2. \A p \in Dead : r # <<"root", p>> /\ r # <<"resume", p>>
    BY <1>4, <2>1, RefKindsNext DEF Reap
  <2>3. At(r) # NoFrame
    BY <1>3, <1>4
  <2>4. \A p \in Dead : At(r) # root[p] /\ At(r) # resumeFrame[p]
    BY ZenonT(40), <2>1, <2>2, <2>3, RefKinds DEF FramesOwnedOnce
  <2> QED
    BY <1>4, <2>4 DEF Reap
<1> QED
  BY <1>3, <1>4 DEF Drops

(* Reseeding frees the snapshots and forgets every reference but the       *)
(* kernel's.                                                               *)
LEMMA SeedDrops ==
    ASSUME TypeOK, FramesOwnedOnce, NEW s \in Suites, Seed(s)
    PROVE  Drops
<1>1. \A r \in Refs : r # <<"kernel", 0>> => At(r)' = NoFrame
  BY RefKinds, RefKindsNext DEF Seed, NoSnapshot
<1>2. At(<<"kernel", 0>>)' = At(<<"kernel", 0>>)
  BY RefKinds, RefKindsNext
<1>3. KernelRoot \notin SnapshotFrames
  <2>1. KernelRoot # NoFrame
    BY FrameAssumption
  <2>2. \A i \in Snap : snaps[i].root # KernelRoot /\ snaps[i].frame # KernelRoot
    BY <2>1, RefKinds DEF FramesOwnedOnce
  <2> QED
    BY <2>2 DEF SnapshotFrames
<1>4. allocated' = allocated \ SnapshotFrames
  BY DEF Seed
<1> QED
  BY <1>1, <1>2, <1>3, <1>4, RefKinds DEF Drops

LEMMA OwnersNext ==
    HartInv /\ FramesOwnedOnce /\ [Next]_vars => FramesOwnedOnce'
<1> SUFFICES ASSUME HartInv, FramesOwnedOnce, [Next]_vars PROVE FramesOwnedOnce'
  OBVIOUS
<1>0. TypeOK /\ TypeOK'
  BY HartNext DEF HartInv
<1> USE DEF life, identity, timing, memory, checkpoints, input
<1>1. CASE KeepsMemory
  BY <1>1 DEF KeepsMemory, FramesOwnedOnce, Owned, At, Refs
<1>2. CASE RunReaps \/ ServiceEnd
  BY <1>0, <1>2, ReapDrops, DropsKeepsOwners DEF RunReaps, ServiceEnd
<1>3. ASSUME NEW s \in Suites, ServeRunSuite(s) \/ IdleSuite(s)
      PROVE  FramesOwnedOnce'
  BY <1>0, <1>3, SeedDrops, DropsKeepsOwners DEF ServeRunSuite, IdleSuite
<1>4. ASSUME NEW p \in Pid, StartFresh(p) \/ ForkContinuation(p)
      PROVE  FramesOwnedOnce'
  <2>1. TwoFree /\ TakeSpace(p) /\ UNCHANGED snaps
    BY <1>4 DEF StartFresh, ForkContinuation
  <2>2. root'[p] = FreshRoot /\ resumeFrame'[p] = FreshFrame
    BY <1>0, <2>1 DEF TakeSpace, TypeOK
  <2>3. \A q \in Pid : q # p => root'[q] = root[q] /\ resumeFrame'[q] = resumeFrame[q]
    BY <1>0, <2>1 DEF TakeSpace, TypeOK
  <2>4. \A r \in Refs \ {<<"root", p>>, <<"resume", p>>} : At(r)' = At(r)
    BY <2>1, <2>3, RefKinds, RefKindsNext
  <2>5. At(<<"root", p>>)' = FreshRoot /\ At(<<"resume", p>>)' = FreshFrame
    BY <2>2, RefKindsNext
  <2> QED
    BY <2>1, <2>4, <2>5, RefKinds, TakesKeepsOwners DEF TakeSpace
<1>5. ASSUME NEW i \in Spawnable, NEW requested \in SUBSET Cap,
             on_spawn(i, requested)
      PROVE  FramesOwnedOnce'
  <2> PICK c \in Pid : /\ root' = [root EXCEPT ![c] = NoFrame]
                       /\ resumeFrame' = [resumeFrame EXCEPT ![c] = NoFrame]
    BY <1>5 DEF on_spawn
  <2>1. UNCHANGED <<snaps, allocated>>
    BY <1>5 DEF on_spawn
  <2>2. \A q \in Pid : /\ root'[q] = root[q] \/ root'[q] = NoFrame
                       /\ resumeFrame'[q] = resumeFrame[q] \/ resumeFrame'[q] = NoFrame
    BY <1>0 DEF TypeOK
  <2>3. Drops
    BY <2>1, <2>2, RefKinds, RefKindsNext DEF Drops
  <2> QED
    BY <2>3, DropsKeepsOwners
<1>6. CASE on_snapshot
  <2> PICK t \in Snap : snaps' = [snaps EXCEPT ![t] =
              [valid |-> TRUE, root |-> FreshRoot, frame |-> FreshFrame,
               caps |-> caps[current], image |-> image[current]]]
    BY <1>6 DEF on_snapshot
  <2>1. TwoFree /\ UNCHANGED <<root, resumeFrame>>
        /\ allocated' = allocated \cup {FreshRoot, FreshFrame}
    BY <1>6 DEF on_snapshot
  <2>2. \A u \in Snap : u # t => snaps'[u] = snaps[u]
    BY <1>0 DEF TypeOK
  <2>3. snaps'[t].root = FreshRoot /\ snaps'[t].frame = FreshFrame
    BY <1>0 DEF TypeOK
  <2>4. \A r \in Refs \ {<<"sroot", t>>, <<"sframe", t>>} : At(r)' = At(r)
    BY <2>1, <2>2, RefKinds, RefKindsNext
  <2>5. At(<<"sroot", t>>)' = FreshRoot /\ At(<<"sframe", t>>)' = FreshFrame
    BY <2>3, RefKindsNext
  <2> QED
    BY <2>1, <2>4, <2>5, RefKinds, TakesKeepsOwners
<1> QED
  BY <1>1, <1>2, <1>3, <1>4, <1>5, <1>6, MemorySteps

LEMMA OwnersInit == Init => FramesOwnedOnce
<1> SUFFICES ASSUME Init PROVE FramesOwnedOnce
  OBVIOUS
<1>1. \A r \in Refs : r # <<"kernel", 0>> => At(r) = NoFrame
  BY RefKinds DEF Init, NoSnapshot
<1> QED
  BY <1>1, RefKinds DEF Init, FramesOwnedOnce, Owned

(* No frame of the pool has two owners and no owner's frame has been       *)
(* returned, whatever mix of reaping, failed loads, forks, snapshots and   *)
(* reseeding led there: no double free and no aliasing of payloads.        *)
THEOREM OneOwnerPerFrame == Spec => []FramesOwnedOnce
BY OwnersInit, HartInit, HartNext, OwnersNext, PTL DEF Spec

-----------------------------------------------------------------------------
(* The page table in use is the kernel's wherever frames are freed, and    *)
(* the running payload's or the kernel's otherwise; after a trap it is     *)
(* still that of the payload that left, whose slot still refers to it.     *)
PageTableInUse ==
    /\ pc \in {"idle", "reap", "service", "pick"} => satp = KernelRoot
    /\ OnHart => satp = KernelRoot \/ satp = root[current]
    /\ satp = KernelRoot \/ \E p \in Pid : root[p] = satp

LEMMA PageTableKernel ==
    ASSUME HartInv, PageTableInUse, Kernel
    PROVE  PageTableInUse'
<1> USE DEF PageTableInUse, OnHart, life, identity, timing, memory, checkpoints, input
<1>1. CASE Run
  BY <1>1 DEF Run
<1>2. CASE RunReaps \/ ServiceEnd
  BY <1>2 DEF RunReaps, ServiceEnd
<1>3. CASE ServeReadOnly
  BY <1>3 DEF ServeReadOnly
<1>4. ASSUME NEW p \in Pid, ServeKill(p) PROVE PageTableInUse'
  BY <1>4 DEF ServeKill
<1>5. ASSUME NEW p \in Pid, NEW d \in Deadlines, ServeSetBudget(p, d)
      PROVE  PageTableInUse'
  BY <1>5 DEF ServeSetBudget
<1>6. ASSUME NEW s \in Suites, ServeRunSuite(s) \/ IdleSuite(s)
      PROVE  PageTableInUse'
  BY <1>6 DEF ServeRunSuite, IdleSuite, Consume
<1>7. CASE Crash
  BY <1>7 DEF Crash
<1>8. ASSUME NEW p \in Pid, StartResume(p) \/ StartFresh(p) \/ LoadFailed(p)
      PROVE  PageTableInUse'
  BY <1>8 DEF StartResume, StartFresh, LoadFailed
<1>9. CASE AnnounceStart
  BY <1>9 DEF AnnounceStart
<1>10. CASE ResumeUser \/ ResumeKernel
  <2>1. current \in Pid
    BY <1>10, CurrentInTable DEF ResumeUser, ResumeKernel, HartInv
  <2> QED
    BY <1>10, <2>1 DEF ResumeUser, ResumeKernel, KernelContext
<1>11. ASSUME NEW p \in Pid, ForkContinuation(p) PROVE PageTableInUse'
  BY <1>11 DEF ForkContinuation
<1>12. CASE SuiteDone
  BY <1>12 DEF SuiteDone
<1> QED
  BY <1>1, <1>2, <1>3, <1>4, <1>5, <1>6, <1>7, <1>8, <1>9, <1>10, <1>11, <1>12
     DEF Kernel, Serve, Start, Launch, Drain

LEMMA PageTableNext ==
    HartInv /\ PageTableInUse /\ [Next]_vars => PageTableInUse'
<1> SUFFICES ASSUME HartInv, PageTableInUse, [Next]_vars PROVE PageTableInUse'
  OBVIOUS
<1> USE DEF PageTableInUse, OnHart, life, identity, timing, memory, checkpoints, input
<1>1. CASE on_exit \/ mark_faulted \/ on_snapshot
  BY <1>1 DEF on_exit, mark_faulted, Leave, Redirect, on_snapshot
<1>2. ASSUME NEW i \in Spawnable, NEW requested \in SUBSET Cap,
             on_spawn(i, requested)
      PROVE  PageTableInUse'
  <2>1. current \in Pid /\ state[current] = "running"
    BY <1>2, CurrentInTable DEF on_spawn, HartInv
  <2> PICK c \in Pid : /\ state[c] = "empty"
                       /\ root' = [root EXCEPT ![c] = NoFrame]
    BY <1>2 DEF on_spawn, FirstIn
  <2>2. root'[current] = root[current]
    BY <2>1 DEF HartInv, TypeOK
  <2>3. pc = "user" /\ UNCHANGED <<current, satp, pc>>
    BY <1>2 DEF on_spawn
  <2>4. satp' = KernelRoot \/ satp' = root'[current']
    BY <2>2, <2>3
  <2> QED
    BY <2>1, <2>3, <2>4
<1>3. CASE Tick
  <2> PICK dt \in 1 .. TickUnits :
        \/ TickQuiet(dt) \/ TickDrain(dt)
        \/ (\E kills \in KillKeys : TickKill(dt, kills)) \/ TickPreempt(dt)
    BY <1>3 DEF Tick
  <2>1. CASE TickPreempt(dt)
    BY <2>1, PreemptEffect DEF TickPreempt
  <2>2. CASE TickQuiet(dt) \/ TickDrain(dt)
    BY <2>2 DEF TickQuiet, TickDrain
  <2>3. ASSUME NEW kills \in KillKeys, TickKill(dt, kills) PROVE PageTableInUse'
    BY <2>3 DEF TickKill, Redirect
  <2> QED
    BY <2>1, <2>2, <2>3
<1>4. CASE OperatorSends \/ Halted \/ UNCHANGED vars
  BY <1>4 DEF OperatorSends, Halted, vars
<1> QED
  BY <1>1, <1>2, <1>3, <1>4, PageTableKernel DEF Next, Payload

(* The page table the hart translates with is never returned to the pool:  *)
(* run leaves a departed payload's address space before it reaps it.       *)
THEOREM ActiveTableKept == Spec => []ActiveRootAllocated
<1>1. Init => PageTableInUse
  BY DEF Init, PageTableInUse, OnHart
<1>2. HartInv /\ FramesOwnedOnce /\ PageTableInUse => ActiveRootAllocated
  <2> SUFFICES ASSUME HartInv, FramesOwnedOnce, PageTableInUse
               PROVE  satp \in allocated
    BY DEF ActiveRootAllocated
  <2>1. satp # NoFrame
    BY FrameAssumption DEF HartInv, TypeOK
  <2>2. \E r \in Refs : satp = At(r)
    BY RefKinds DEF PageTableInUse
  <2> QED
    BY <2>1, <2>2 DEF FramesOwnedOnce, Owned
<1> QED
  BY <1>1, <1>2, HartInit, HartNext, OneOwnerPerFrame, PageTableNext, PTL DEF Spec

-----------------------------------------------------------------------------
(* Leaks.  Overwriting a reference loses a frame unless it was empty, so   *)
(* the argument needs where references are empty: in EMPTY slots, in slots *)
(* without a resume frame, in invalid snapshots, and, once the reaping is  *)
(* done, in terminal slots.                                                *)
Vacant ==
    /\ \A p \in Pid : state[p] = "empty" \/ resumeFrame[p] = NoFrame =>
          root[p] = NoFrame /\ resumeFrame[p] = NoFrame
    /\ \A s \in Snap : ~snaps[s].valid =>
          snaps[s].root = NoFrame /\ snaps[s].frame = NoFrame
    /\ pc \in {"pick", "idle"} => \A p \in Dead : root[p] = NoFrame
                                                  /\ resumeFrame[p] = NoFrame

(* A step that frees exactly the frames whose references it drops, or      *)
(* gives exactly the frames it takes to references that were empty, loses  *)
(* nothing.                                                                *)
LEMMA ExactDropLosesNothing ==
    ASSUME TypeOK, \A r \in Refs : At(r)' = At(r) \/ At(r)' = NoFrame,
           \A f \in Frame : f \in allocated' <=>
              f \in allocated /\ ~\E r \in Refs : At(r) = f /\ At(r)' # f,
           allocated' \subseteq Frame
    PROVE  allocated' \ Owned' = allocated \ Owned
<1>1. \A f \in Frame : f # NoFrame
  BY FrameAssumption
<1>2. ASSUME NEW f \in Frame
      PROVE  f \in allocated' \ Owned' <=> f \in allocated \ Owned
  <2>1. f \in Owned <=> \E r \in Refs : At(r) = f
    BY <1>1 DEF Owned
  <2>2. f \in Owned' <=> \E r \in Refs : At(r)' = f
    BY <1>1 DEF Owned, Refs
  <2> QED
    BY <1>1, <2>1, <2>2
<1> QED
  BY <1>2 DEF TypeOK

LEMMA ExactTakeLosesNothing ==
    ASSUME TypeOK, Owned \subseteq allocated, TwoFree,
           NEW a \in Refs, NEW b \in Refs,
           At(a) = NoFrame, At(b) = NoFrame,
           At(a)' = FreshRoot, At(b)' = FreshFrame,
           \A r \in Refs \ {a, b} : At(r)' = At(r),
           allocated' = allocated \cup {FreshRoot, FreshFrame}
    PROVE  allocated' \ Owned' = allocated \ Owned
<1>1. FreshRoot \in Frame /\ FreshFrame \in Frame
      /\ FreshRoot \notin allocated /\ FreshFrame \notin allocated
  BY FreshFrames DEF Free
<1>2. \A f \in Frame : f # NoFrame
  BY FrameAssumption
<1>3. ASSUME NEW f \in Frame
      PROVE  f \in allocated' \ Owned' <=> f \in allocated \ Owned
  <2>1. f \in Owned <=> \E r \in Refs : At(r) = f
    BY <1>2 DEF Owned
  <2>2. f \in Owned' <=> \E r \in Refs : At(r)' = f
    BY <1>2 DEF Owned, Refs
  <2>3. f \in Owned' <=> f \in Owned \/ f = FreshRoot \/ f = FreshFrame
    BY <1>2, <2>1, <2>2
  <2> QED
    BY <1>1, <2>3
<1> QED
  BY <1>1, <1>3 DEF TypeOK

LEMMA VacantKernel ==
    ASSUME HartInv, Vacant, Kernel
    PROVE  Vacant'
<1>0. TypeOK
  BY DEF HartInv
<1> USE DEF Vacant, Dead, life, identity, timing, memory, checkpoints, input
<1>1. CASE Run \/ RunReaps \/ ServiceEnd
  BY <1>0, <1>1 DEF Run, RunReaps, ServiceEnd, Reap, TypeOK, Terminal
<1>2. CASE ServeReadOnly \/ Crash \/ Launch \/ SuiteDone
  BY <1>2 DEF ServeReadOnly, Crash, Launch, AnnounceStart, ResumeUser,
     ResumeKernel, KernelContext, SuiteDone
<1>3. ASSUME NEW p \in Pid, ServeKill(p) PROVE Vacant'
  <2>1. pc = "service"
    BY <1>3 DEF ServeKill, Remediable, Consume, HartInv, IdleHasNoPayload,
       any_alive, Alive
  <2> QED
    BY <1>0, <1>3, <2>1 DEF ServeKill, Remediable, TypeOK
<1>4. ASSUME NEW p \in Pid, NEW d \in Deadlines, ServeSetBudget(p, d)
      PROVE  Vacant'
  BY <1>4 DEF ServeSetBudget
<1>5. ASSUME NEW s \in Suites, ServeRunSuite(s) \/ IdleSuite(s) PROVE Vacant'
  BY <1>5 DEF ServeRunSuite, IdleSuite, Seed, NoSnapshot
<1>6. ASSUME NEW p \in Pid, StartResume(p) \/ LoadFailed(p) PROVE Vacant'
  BY <1>0, <1>6 DEF StartResume, LoadFailed, ResumedAt, FirstIn, TypeOK
<1>7. ASSUME NEW p \in Pid, StartFresh(p) \/ ForkContinuation(p) PROVE Vacant'
  <2>1. TwoFree /\ TakeSpace(p) /\ UNCHANGED snaps /\ pc = "pick"
    BY <1>7 DEF StartFresh, ForkContinuation
  <2>2. FreshRoot # NoFrame /\ FreshFrame # NoFrame
    BY <2>1, FreshFrames, FrameAssumption DEF Free
  <2>3. \/ state' = [state EXCEPT ![p] = "running"]
        \/ state' = [state EXCEPT ![p] = "pending"]
    BY <1>7 DEF StartFresh, ForkContinuation
  <2> QED
    BY <1>0, <2>1, <2>2, <2>3 DEF TakeSpace, TypeOK, Terminal
<1> QED
  BY <1>1, <1>2, <1>3, <1>4, <1>5, <1>6, <1>7
     DEF Kernel, Serve, Start, Drain

LEMMA VacantNext == HartInv /\ Vacant /\ [Next]_vars => Vacant'
<1> SUFFICES ASSUME HartInv, Vacant, [Next]_vars PROVE Vacant'
  OBVIOUS
<1>0. TypeOK
  BY DEF HartInv
<1> USE DEF Vacant, Dead, life, identity, timing, memory, checkpoints, input
<1>1. CASE on_exit \/ mark_faulted
  BY <1>0, <1>1, CurrentInTable DEF on_exit, mark_faulted, Leave, Redirect,
     OnHart, HartInv, TypeOK
<1>2. ASSUME NEW i \in Spawnable, NEW requested \in SUBSET Cap,
             on_spawn(i, requested)
      PROVE  Vacant'
  BY <1>0, <1>2 DEF on_spawn, FirstIn, TypeOK
<1>3. CASE on_snapshot
  <2> PICK t \in Snap : snaps' = [snaps EXCEPT ![t] =
              [valid |-> TRUE, root |-> FreshRoot, frame |-> FreshFrame,
               caps |-> caps[current], image |-> image[current]]]
    BY <1>3 DEF on_snapshot
  <2>1. snaps'[t].valid /\ \A u \in Snap : u # t => snaps'[u] = snaps[u]
    BY <1>0 DEF TypeOK
  <2>2. UNCHANGED <<state, root, resumeFrame, pc>>
    BY <1>3 DEF on_snapshot
  <2> QED
    BY <2>1, <2>2
<1>4. CASE Tick
  <2> PICK dt \in 1 .. TickUnits :
        \/ TickQuiet(dt) \/ TickDrain(dt)
        \/ (\E kills \in KillKeys : TickKill(dt, kills)) \/ TickPreempt(dt)
    BY <1>4 DEF Tick
  <2>1. CASE TickPreempt(dt)
    BY <1>0, <2>1, PreemptEffect DEF TickPreempt, TypeOK
  <2>2. ASSUME NEW kills \in KillKeys, TickKill(dt, kills) PROVE Vacant'
    BY <1>0, <2>2 DEF TickKill, OnCpu, Redirect, TypeOK
  <2>3. CASE TickQuiet(dt) \/ TickDrain(dt)
    BY <2>3 DEF TickQuiet, TickDrain
  <2> QED
    BY <2>1, <2>2, <2>3
<1>5. CASE OperatorSends \/ Halted \/ UNCHANGED vars
  BY <1>5 DEF OperatorSends, Halted, vars
<1> QED
  BY <1>1, <1>2, <1>3, <1>4, <1>5, VacantKernel DEF Next, Payload

LEMMA LeakStep ==
    ASSUME HartInv, FramesOwnedOnce, Vacant, [Next]_vars,
           ~(pc = "service" /\ pc' = "run")
    PROVE  allocated' \ Owned' = allocated \ Owned
<1>0. TypeOK /\ TypeOK' /\ Owned \subseteq allocated /\ allocated' \subseteq Frame
  BY HartNext DEF HartInv, FramesOwnedOnce, TypeOK
<1>a. NoFrame \notin Frame
  BY FrameAssumption
<1> USE DEF life, identity, timing, memory, checkpoints, input
<1>1. CASE KeepsMemory
  BY <1>1 DEF KeepsMemory, Owned, At, Refs
<1>2. CASE RunReaps \/ ServiceEnd
  <2>1. Reap /\ UNCHANGED snaps
    BY <1>2 DEF RunReaps, ServiceEnd
  <2>2. \A r \in Refs : At(r)' = At(r) \/ At(r)' = NoFrame
    BY <1>0, <2>1, ReapDrops DEF Drops
  <2>3. ASSUME NEW f \in Frame
        PROVE  (\E r \in Refs : At(r) = f /\ At(r)' # f) <=>
                  \E p \in Dead : root[p] = f \/ resumeFrame[p] = f
    <3>1. \A p \in Pid : p \in Dead => root'[p] = NoFrame /\ resumeFrame'[p] = NoFrame
      BY <2>1 DEF Reap
    <3>2. \A p \in Pid : p \notin Dead =>
             root'[p] = root[p] /\ resumeFrame'[p] = resumeFrame[p]
      BY <2>1 DEF Reap
    <3>3. Dead \subseteq Pid
      BY DEF Dead
    <3>4. ASSUME NEW r \in Refs, At(r) = f, At(r)' # f
          PROVE  \E p \in Dead : root[p] = f \/ resumeFrame[p] = f
      <4>1. CASE \E p \in Pid : r = <<"root", p>> \/ r = <<"resume", p>>
        BY <3>2, <3>4, <4>1, RefKinds, RefKindsNext
      <4>2. CASE \/ \E i \in Snap : r = <<"sroot", i>> \/ r = <<"sframe", i>>
                 \/ r = <<"kernel", 0>>
        BY <2>1, <3>4, <4>2, RefKinds, RefKindsNext
      <4> QED
        BY <4>1, <4>2, RefKinds
    <3>5. ASSUME NEW p \in Dead, root[p] = f \/ resumeFrame[p] = f
          PROVE  \E r \in Refs : At(r) = f /\ At(r)' # f
      <4>1. p \in Pid /\ root'[p] # f /\ resumeFrame'[p] # f
        BY <1>a, <3>1, <3>3
      <4>2. CASE root[p] = f
        BY <4>1, <4>2, RefKinds, RefKindsNext
      <4>3. CASE resumeFrame[p] = f
        BY <4>1, <4>3, RefKinds, RefKindsNext
      <4> QED
        BY <3>5, <4>2, <4>3
    <3> QED
      BY <3>4, <3>5
  <2> QED
    BY <1>0, <2>1, <2>2, <2>3, ExactDropLosesNothing DEF Reap
<1>3. ASSUME NEW s \in Suites, ServeRunSuite(s) \/ IdleSuite(s)
      PROVE  allocated' \ Owned' = allocated \ Owned
  <2>1. pc = "idle" /\ Seed(s)
    BY <1>3 DEF ServeRunSuite, IdleSuite, Consume
  <2>2. \A r \in Refs : At(r)' = At(r) \/ At(r)' = NoFrame
    BY <1>0, <2>1, SeedDrops DEF Drops
  <2>3. \A p \in Pid : root[p] = NoFrame /\ resumeFrame[p] = NoFrame
    BY <1>0, <2>1 DEF HartInv, IdleHasNoPayload, any_alive, Alive, Vacant, Dead,
       TypeOK, States, Terminal
  <2>4. ASSUME NEW f \in Frame
        PROVE  (\E r \in Refs : At(r) = f /\ At(r)' # f) <=> f \in SnapshotFrames
    <3>1. f \in SnapshotFrames <=>
            \E i \in Snap : snaps[i].valid /\ (snaps[i].root = f \/ snaps[i].frame = f)
      BY DEF SnapshotFrames
    <3>2. \A i \in Snap : snaps[i].root = f \/ snaps[i].frame = f => snaps[i].valid
      BY <1>a DEF Vacant
    <3>3. \A i \in Snap : snaps'[i].root = NoFrame /\ snaps'[i].frame = NoFrame
      BY <2>1 DEF Seed, NoSnapshot
    <3>4. ASSUME NEW r \in Refs, At(r) = f, At(r)' # f
          PROVE  \E i \in Snap : snaps[i].root = f \/ snaps[i].frame = f
      <4>1. r # <<"kernel", 0>>
        BY <3>4, RefKinds, RefKindsNext
      <4>2. ~\E p \in Pid : r = <<"root", p>> \/ r = <<"resume", p>>
        BY <1>a, <2>3, <3>4, RefKinds
      <4> QED
        BY <3>4, <4>1, <4>2, RefKinds
    <3>5. ASSUME NEW i \in Snap, snaps[i].root = f \/ snaps[i].frame = f
          PROVE  \E r \in Refs : At(r) = f /\ At(r)' # f
      <4>1. snaps'[i].root # f /\ snaps'[i].frame # f
        BY <1>a, <3>3
      <4>2. CASE snaps[i].root = f
        BY <4>1, <4>2, RefKinds, RefKindsNext
      <4>3. CASE snaps[i].frame = f
        BY <4>1, <4>3, RefKinds, RefKindsNext
      <4> QED
        BY <3>5, <4>2, <4>3
    <3> QED
      BY <3>1, <3>2, <3>4, <3>5
  <2> QED
    BY <1>0, <2>1, <2>2, <2>4, ExactDropLosesNothing DEF Seed
<1>4. ASSUME NEW p \in Pid, StartFresh(p) \/ ForkContinuation(p)
      PROVE  allocated' \ Owned' = allocated \ Owned
  <2>1. TwoFree /\ TakeSpace(p) /\ UNCHANGED snaps
    BY <1>4 DEF StartFresh, ForkContinuation
  <2>2. root[p] = NoFrame /\ resumeFrame[p] = NoFrame
    BY <1>4 DEF StartFresh, ForkContinuation, FirstIn, Vacant
  <2>3. /\ root'[p] = FreshRoot /\ resumeFrame'[p] = FreshFrame
        /\ \A q \in Pid : q # p => root'[q] = root[q] /\ resumeFrame'[q] = resumeFrame[q]
    BY <1>0, <2>1 DEF TakeSpace, TypeOK
  <2>4. \A r \in Refs \ {<<"root", p>>, <<"resume", p>>} : At(r)' = At(r)
    BY <2>1, <2>3, RefKinds, RefKindsNext
  <2>5. /\ At(<<"root", p>>)' = FreshRoot /\ At(<<"resume", p>>)' = FreshFrame
        /\ At(<<"root", p>>) = NoFrame /\ At(<<"resume", p>>) = NoFrame
    BY <2>2, <2>3, RefKinds, RefKindsNext
  <2> QED
    BY <1>0, <2>1, <2>4, <2>5, RefKinds, ExactTakeLosesNothing DEF TakeSpace
<1>5. ASSUME NEW i \in Spawnable, NEW requested \in SUBSET Cap,
             on_spawn(i, requested)
      PROVE  allocated' \ Owned' = allocated \ Owned
  <2> PICK c \in Pid : /\ state[c] = "empty"
                       /\ root' = [root EXCEPT ![c] = NoFrame]
                       /\ resumeFrame' = [resumeFrame EXCEPT ![c] = NoFrame]
    BY <1>5 DEF on_spawn, FirstIn
  <2>1. root' = root /\ resumeFrame' = resumeFrame
    BY <1>0 DEF Vacant, TypeOK
  <2>2. KeepsMemory
    BY <1>5, <2>1 DEF on_spawn, KeepsMemory
  <2> QED
    BY <1>1, <2>2
<1>6. CASE on_snapshot
  <2> PICK t \in Snap : ~snaps[t].valid /\ snaps' = [snaps EXCEPT ![t] =
              [valid |-> TRUE, root |-> FreshRoot, frame |-> FreshFrame,
               caps |-> caps[current], image |-> image[current]]]
    BY <1>6 DEF on_snapshot
  <2>1. TwoFree /\ UNCHANGED <<root, resumeFrame>>
        /\ allocated' = allocated \cup {FreshRoot, FreshFrame}
    BY <1>6 DEF on_snapshot
  <2>2. snaps[t].root = NoFrame /\ snaps[t].frame = NoFrame
    BY DEF Vacant
  <2>3. /\ snaps'[t].root = FreshRoot /\ snaps'[t].frame = FreshFrame
        /\ \A u \in Snap : u # t => snaps'[u] = snaps[u]
    BY <1>0 DEF TypeOK
  <2>4. \A r \in Refs \ {<<"sroot", t>>, <<"sframe", t>>} : At(r)' = At(r)
    BY <2>1, <2>3, RefKinds, RefKindsNext
  <2>5. /\ At(<<"sroot", t>>)' = FreshRoot /\ At(<<"sframe", t>>)' = FreshFrame
        /\ At(<<"sroot", t>>) = NoFrame /\ At(<<"sframe", t>>) = NoFrame
    BY <2>2, <2>3, RefKinds, RefKindsNext
  <2> QED
    BY <1>0, <2>1, <2>4, <2>5, RefKinds, ExactTakeLosesNothing
<1> QED
  BY <1>1, <1>2, <1>3, <1>4, <1>5, <1>6, MemorySteps

(* The only step that can lose a frame is the reseeding of the table from  *)
(* the service window: every start, failed load, fork, checkpoint, reaping *)
(* and reseeding from the idle loop accounts for each frame it moves.      *)
THEOREM OnlyReseedLeaks == Spec => LeaksOnlyOnReseed
<1>1. Init => Vacant
  BY DEF Init, Vacant, NoSnapshot, Dead, Terminal
<1>2. HartInv /\ FramesOwnedOnce /\ Vacant /\ [Next]_vars =>
        [allocated' \ Owned' # allocated \ Owned
            => pc = "service" /\ pc' = "run"]_vars
  BY LeakStep
<1> QED
  BY <1>1, <1>2, HartInit, HartNext, OwnersInit, OwnersNext, VacantNext, PTL
     DEF Spec, LeaksOnlyOnReseed

=============================================================================
