---------------------------- MODULE ControlPlane ----------------------------
(***************************************************************************)
(* The mutating tools of the control plane (rpc.rs handle_tools_call) and  *)
(* the table of operation ids that keeps run_suite, crash, kill and        *)
(* set_budget from being replayed, used by clients that double-fire, lose  *)
(* answers and retry.                                                      *)
(*                                                                         *)
(* Requests are served in the idle loop or in the service window between   *)
(* two slices of a payload (module SerialLine has the bytes, module        *)
(* Scheduler the payloads in full).  Clients send when they like and a     *)
(* request does nothing while it is under way, so sending it is one step   *)
(* with serving it.  An operation is a call a client means to make once:   *)
(* [tool, arg, valid, id]; its id, if any, goes with every firing of it.   *)
(***************************************************************************)
EXTENDS Integers, Sequences, FiniteSets

CONSTANTS
    Op,          \* the operations the clients mean to make
    Call,        \* Call[o]: its tool, argument and opId
    RawHash,     \* FNV-1a of an opId, before its lowest bit is set
    NoId,        \* the opId of a call that carries none
    OpSlots,     \* OP_SLOTS
    Pid,         \* slots of the process table
    SuitePids,   \* slots a suite seeds
    MaxFires,    \* bound on the firings of an operation, not counting
                 \* the retries a refusal or a lost answer calls for
    MaxLost,     \* bound on the answers lost
    None

Dial == {"set_surface", "set_autonomy"}
Tool == {"run_suite", "crash", "kill", "set_budget"} \cup Dial

ASSUME PlaneAssumption ==
    /\ \A o \in Op :
        /\ Call[o].tool \in Tool /\ Call[o].valid \in BOOLEAN
        /\ Call[o].id # NoId => RawHash[Call[o].id] \in Nat
    /\ OpSlots \in Nat \ {0} /\ SuitePids \in SUBSET Pid
    /\ MaxFires \in [Op -> Nat] /\ MaxLost \in Nat

VARIABLES
    fires,      \* firings of an operation so far
    known,      \* the last answer its client has: none if None
    lost,       \* answers lost so far
    place,      \* "idle", "serve", "run" or "down" (the kernel crashed)
    state,      \* per slot: "empty", "pending", "running" or "ended"
    deadline,   \* per slot
    dials,      \* the diagnostic surface and the attention mode
    opIds,      \* OP_IDS, 0 where empty
    opHead,     \* OP_HEAD
    handled     \* history: the operations that passed the opId table, in
                \* order; the dials never ask it

clientVars == <<fires, known, lost>>
tableVars == <<opIds, opHead>>
procVars == <<place, state, deadline>>
vars == <<fires, known, lost, place, state, deadline, dials, opIds,
          opHead, handled>>

Answers == {"accepted", "busy", "duplicate", "error", "done", "refused"}
Slot == 0 .. OpSlots - 1

Init ==
    /\ fires = [o \in Op |-> 0] /\ known = [o \in Op |-> None] /\ lost = 0
    /\ place = "idle"
    /\ state = [p \in Pid |-> "empty"] /\ deadline = [p \in Pid |-> 0]
    /\ dials = [d \in Dial |-> "default"]
    /\ opIds = [k \in Slot |-> 0] /\ opHead = 0
    /\ handled = <<>>

-----------------------------------------------------------------------------
(* The clients.                                                            *)

(* A first firing or a double-fire.                                        *)
Fire(o) ==
    /\ fires[o] < MaxFires[o]
    /\ fires' = [fires EXCEPT ![o] = @ + 1]

(* A client that was refused as busy, or has no answer, tries again.       *)
Retry(o) ==
    /\ fires[o] > 0 /\ known[o] \in {None, "busy"}
    /\ UNCHANGED fires

-----------------------------------------------------------------------------
(* The operation ids.                                                      *)

(* fnv1a: forced odd, so that it is never the empty slot's 0.              *)
Fnv1a(id) == 2 * (RawHash[id] \div 2) + 1

OpSeen(id) == \E k \in Slot : opIds[k] = Fnv1a(id)

(* Mutant: the head is not reduced to a slot of the table.                 *)
OpRecordBeyond(id) ==
    /\ opIds' = [k \in Slot \cup {opHead} |->
                   IF k = opHead THEN Fnv1a(id) ELSE opIds[k]]
    /\ opHead' = opHead + 1

OpRecord(id) ==
    /\ opIds' = [opIds EXCEPT ![opHead % OpSlots] = Fnv1a(id)]
    /\ opHead' = opHead + 1

-----------------------------------------------------------------------------
(* The handler.                                                            *)

AnyAlive == \E p \in Pid : state[p] \in {"pending", "running"}

(* The answer reaches the client that asked, or is lost.                   *)
Answer(o, a) ==
    \/ known' = [known EXCEPT ![o] = a] /\ UNCHANGED lost
    \/ lost < MaxLost /\ lost' = lost + 1 /\ UNCHANGED known

(* seed_suite_* and run(): the table is cleared, the suite's payloads are  *)
(* queued, control is in run's service window.                             *)
Seed ==
    /\ state' = [p \in Pid |-> IF p \in SuitePids THEN "pending" ELSE "empty"]
    /\ deadline' = [p \in Pid |-> 0]
    /\ place' = "serve"

RunSuite(o) ==
    /\ Call[o].tool = "run_suite"
    /\ Seed
    /\ Answer(o, "accepted")
    /\ UNCHANGED dials

Crash(o) ==
    /\ Call[o].tool = "crash"
    /\ place' = "down"
    /\ Answer(o, "accepted")
    /\ UNCHANGED <<state, deadline, dials>>

(* kill_pid and set_deadline: a queued or preempted payload only.          *)
Remediable(p) == p \in Pid /\ state[p] = "pending"

Kill(o) ==
    /\ Call[o].tool = "kill"
    /\ LET p == Call[o].arg
       IN  \/ /\ Remediable(p)
              /\ state' = [state EXCEPT ![p] = "ended"]
              /\ Answer(o, "done")
           \/ /\ ~Remediable(p)
              /\ Answer(o, "refused")
              /\ UNCHANGED state
    /\ UNCHANGED <<place, deadline, dials>>

SetBudget(o) ==
    /\ Call[o].tool = "set_budget"
    /\ LET p == Call[o].arg
       IN  \/ /\ Remediable(p)
              /\ deadline' = [deadline EXCEPT ![p] = 1]
              /\ Answer(o, "done")
           \/ /\ ~Remediable(p)
              /\ Answer(o, "refused")
              /\ UNCHANGED deadline
    /\ UNCHANGED <<place, state, dials>>

(* The dials act on every firing: they neither look at the opId nor record *)
(* it.                                                                     *)
SetDial(o) ==
    /\ Call[o].tool \in Dial
    /\ dials' = [dials EXCEPT ![Call[o].tool] = Call[o].arg]
    /\ Answer(o, "done")
    /\ UNCHANGED procVars

Guarded(o) == Call[o].tool \in {"run_suite", "crash"}

(* Mutant: the id is remembered only if the call had an effect.            *)
RememberActs(o) ==
    /\ IF Call[o].tool \in {"kill", "set_budget"} => Remediable(Call[o].arg)
       THEN OpRecord(Call[o].id) ELSE UNCHANGED tableVars
    /\ handled' = Append(handled, o)

(* The id is remembered before the call acts, whatever comes of it.        *)
Remember(o) ==
    /\ OpRecord(Call[o].id)
    /\ handled' = Append(handled, o)

Perform(o) == RunSuite(o) \/ Crash(o) \/ Kill(o) \/ SetBudget(o)

(* Mutant: the busy check comes after the id was remembered.               *)
BusyLate(o) ==
    /\ Guarded(o) /\ AnyAlive
    /\ Answer(o, "busy")
    /\ IF Call[o].id = NoId \/ OpSeen(Call[o].id) THEN UNCHANGED tableVars
       ELSE OpRecord(Call[o].id)
    /\ UNCHANGED <<procVars, dials, handled>>

Busy(o) ==
    /\ Guarded(o) /\ AnyAlive
    /\ Answer(o, "busy")
    /\ UNCHANGED <<procVars, dials, tableVars, handled>>

(* Arguments are validated first, then busy, then the id, then the act.    *)
Handle(o) ==
    \/ /\ ~Call[o].valid
       /\ Answer(o, "error")
       /\ UNCHANGED <<procVars, dials, tableVars, handled>>
    \/ /\ Call[o].valid
       /\ Busy(o)
    \/ /\ Call[o].valid
       /\ SetDial(o)
       /\ UNCHANGED <<tableVars, handled>>
    \/ /\ Call[o].valid /\ Call[o].tool \notin Dial
       /\ ~(Guarded(o) /\ AnyAlive)
       /\ \/ /\ Call[o].id = NoId
             /\ Perform(o)
             /\ UNCHANGED <<tableVars, handled>>
          \/ /\ Call[o].id # NoId /\ OpSeen(Call[o].id)
             /\ Answer(o, "duplicate")
             /\ UNCHANGED <<procVars, dials, tableVars, handled>>
          \/ /\ Call[o].id # NoId /\ ~OpSeen(Call[o].id)
             /\ Remember(o)
             /\ Perform(o)

Listening == place \in {"idle", "serve"}

ServeFirst(o) == Listening /\ Fire(o) /\ Handle(o)

ServeRetry(o) == Listening /\ Retry(o) /\ Handle(o)

-----------------------------------------------------------------------------
(* The scheduler, as far as the tools can tell.                            *)

(* The service window ends when the line is empty: at any time.            *)
Resume ==
    /\ place = "serve"
    /\ \/ \E p \in Pid :
            /\ state[p] = "pending"
            /\ state' = [state EXCEPT ![p] = "running"]
            /\ place' = "run"
       \/ /\ ~AnyAlive
          /\ place' = "idle"
          /\ UNCHANGED state
    /\ UNCHANGED <<clientVars, deadline, dials, tableVars, handled>>

(* A tick finds input.                                                     *)
Preempt(p) ==
    /\ state[p] = "running"
    /\ state' = [state EXCEPT ![p] = "pending"]
    /\ place' = "serve"
    /\ UNCHANGED <<clientVars, deadline, dials, tableVars, handled>>

End(p) ==
    /\ state[p] = "running"
    /\ state' = [state EXCEPT ![p] = "ended"]
    /\ place' = "serve"
    /\ UNCHANGED <<clientVars, deadline, dials, tableVars, handled>>

-----------------------------------------------------------------------------
Next ==
    \/ \E o \in Op : ServeFirst(o) \/ ServeRetry(o)
    \/ Resume
    \/ \E p \in Pid : Preempt(p) \/ End(p)

Spec == Init /\ [][Next]_vars

(* The operations whose client does not give up before they are done.      *)
Persistent ==
    {o \in Op : Call[o].tool = "run_suite" /\ Call[o].valid /\ Call[o].id # NoId}

(* The service window ends; a payload that is on the CPU again and again   *)
(* ends, because preemption gives it back what it had done; a persistent   *)
(* client is heard again and again.                                        *)
FairSpec ==
    /\ Spec
    /\ WF_vars(Resume)
    /\ SF_vars(\E p \in Pid : End(p))
    /\ \A o \in Persistent : SF_vars(ServeRetry(o))

-----------------------------------------------------------------------------
(* Properties.                                                             *)

(* Type invariant.                                                         *)
TypeOK ==
    /\ \A o \in Op : fires[o] \in 0 .. MaxFires[o]
    /\ known \in [Op -> Answers \cup {None}]
    /\ lost \in 0 .. MaxLost
    /\ place \in {"idle", "serve", "run", "down"}
    /\ state \in [Pid -> {"empty", "pending", "running", "ended"}]
    /\ deadline \in [Pid -> Nat]
    /\ opIds \in [Slot -> Nat] /\ opHead \in Nat
    /\ handled \in Seq(Op)

(* A run_suite, crash, kill or set_budget with an opId gets past the table *)
(* again only when OP_SLOTS other calls or more have been remembered in    *)
(* between: within that window a replay is answered without being          *)
(* executed, also the replay of a kill or a budget that was refused, which *)
(* must not hit the payload that has taken over the pid since.  This is    *)
(* about these four tools only: set_surface and set_autonomy (SetDial) act *)
(* on every firing, replayed or not.                                       *)
ReplayWindow ==
    \A i, j \in DOMAIN handled :
        i < j /\ Fnv1a(Call[handled[i]].id) = Fnv1a(Call[handled[j]].id)
            => j - i > OpSlots

(* A client that keeps retrying gets its suite run: a busy refusal is not  *)
(* remembered against it, and it is never told "duplicate" of a suite that *)
(* did not run.                                                            *)
RunEventually ==
    \A o \in Persistent :
        fires[o] > 0 ~> (place = "down" \/ \E i \in DOMAIN handled : handled[i] = o)

=============================================================================
