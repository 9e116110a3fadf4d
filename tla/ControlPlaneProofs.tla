------------------------- MODULE ControlPlaneProofs -------------------------
(***************************************************************************)
(* A replayed call is harmless within the table of operation ids, for      *)
(* every set of operations, hash, table size, suite and number of firings. *)
(***************************************************************************)
EXTENDS ControlPlane, TLAPS

(* An operation's id hashes to a number that no empty slot holds.          *)
LEMMA HashType ==
    ASSUME NEW o \in Op, Call[o].id # NoId
    PROVE  Fnv1a(Call[o].id) \in Nat /\ Fnv1a(Call[o].id) # 0
<1> DEFINE r == RawHash[Call[o].id]
<1>1. r \in Nat
  BY PlaneAssumption
<1> HIDE DEF r
<1>2. r \div 2 \in Nat
  BY <1>1
<1>3. 2 * (r \div 2) + 1 \in Nat /\ 2 * (r \div 2) + 1 # 0
  BY <1>2
<1> QED
  BY <1>3 DEF Fnv1a, r

-----------------------------------------------------------------------------
(* Types.                                                                  *)

(* TypeOK gives the values of fires; an update keeps them only because     *)
(* fires is a function of the operations.                                  *)
TypeInv == TypeOK /\ fires \in [Op -> Nat]

(* What a firing or a retry does to the client's count.                    *)
LEMMA FiresType ==
    ASSUME TypeInv, NEW o \in Op, Fire(o) \/ Retry(o)
    PROVE  /\ fires' \in [Op -> Nat]
           /\ \A q \in Op : fires'[q] \in 0 .. MaxFires[q]
<1>0. /\ fires \in [Op -> Nat]
      /\ \A q \in Op : fires[q] \in 0 .. MaxFires[q] /\ MaxFires[q] \in Nat
  BY PlaneAssumption DEF TypeInv, TypeOK
<1>1. CASE Fire(o)
  <2>1. fires' = [fires EXCEPT ![o] = fires[o] + 1] /\ fires[o] < MaxFires[o]
    BY <1>1 DEF Fire
  <2>2. fires'[o] = fires[o] + 1 /\ \A q \in Op : q # o => fires'[q] = fires[q]
    BY <1>0, <2>1
  <2>3. fires[o] + 1 \in 0 .. MaxFires[o] /\ fires[o] + 1 \in Nat
    BY <1>0, <2>1
  <2> QED BY <1>0, <2>1, <2>2, <2>3
<1>2. CASE Retry(o)
  BY <1>0, <1>2 DEF Retry
<1> QED
  BY <1>1, <1>2

LEMMA AnswerType ==
    ASSUME TypeInv, NEW o \in Op, NEW a \in Answers, Answer(o, a)
    PROVE  known' \in [Op -> Answers \cup {None}] /\ lost' \in 0 .. MaxLost
<1>0. /\ known \in [Op -> Answers \cup {None}] /\ lost \in 0 .. MaxLost
      /\ MaxLost \in Nat
  BY PlaneAssumption DEF TypeInv, TypeOK
<1>1. CASE known' = [known EXCEPT ![o] = a] /\ UNCHANGED lost
  BY <1>0, <1>1
<1>2. CASE lost < MaxLost /\ lost' = lost + 1 /\ UNCHANGED known
  BY <1>0, <1>2
<1> QED
  BY <1>1, <1>2 DEF Answer

(* The processes and the client's answer after a call that acts.           *)
LEMMA PerformType ==
    ASSUME TypeInv, NEW o \in Op, Perform(o)
    PROVE  /\ place' \in {"idle", "serve", "run", "down"}
           /\ state' \in [Pid -> {"empty", "pending", "running", "ended"}]
           /\ deadline' \in [Pid -> Nat]
           /\ known' \in [Op -> Answers \cup {None}]
           /\ lost' \in 0 .. MaxLost
<1> DEFINE Procs ==
      /\ place' \in {"idle", "serve", "run", "down"}
      /\ state' \in [Pid -> {"empty", "pending", "running", "ended"}]
      /\ deadline' \in [Pid -> Nat]
<1>1. CASE RunSuite(o)
  BY <1>1, AnswerType DEF RunSuite, Seed, Answers
<1>2. CASE Crash(o)
  BY <1>2, AnswerType DEF Crash, Answers, TypeInv, TypeOK
<1>3. CASE Kill(o)
  <2>1. Answer(o, "done") \/ Answer(o, "refused")
    BY <1>3 DEF Kill
  <2>2. Procs
    BY <1>3 DEF Kill, TypeInv, TypeOK
  <2> QED BY <2>1, <2>2, AnswerType DEF Answers
<1>4. CASE SetBudget(o)
  <2>1. Answer(o, "done") \/ Answer(o, "refused")
    BY <1>4 DEF SetBudget
  <2>2. Procs
    <3>1. deadline \in [Pid -> Nat] /\ 1 \in Nat
      BY DEF TypeInv, TypeOK
    <3>2. deadline' \in [Pid -> Nat]
      BY <1>4, <3>1 DEF SetBudget
    <3> QED BY <1>4, <3>2 DEF SetBudget, TypeInv, TypeOK
  <2> QED BY <2>1, <2>2, AnswerType DEF Answers
<1> QED
  BY <1>1, <1>2, <1>3, <1>4 DEF Perform

LEMMA RecordType ==
    ASSUME TypeInv, NEW o \in Op, Call[o].id # NoId, Remember(o)
    PROVE  opIds' \in [Slot -> Nat] /\ opHead' \in Nat /\ handled' \in Seq(Op)
<1>1. Fnv1a(Call[o].id) \in Nat
  BY HashType
<1>2. opHead \in Nat /\ opHead % OpSlots \in Slot
  BY PlaneAssumption DEF TypeInv, TypeOK, Slot
<1>3. opIds' \in [Slot -> Nat] /\ opHead' \in Nat
  BY <1>1, <1>2 DEF Remember, OpRecord, TypeInv, TypeOK
<1>4. handled' \in Seq(Op)
  BY DEF Remember, TypeInv, TypeOK
<1> QED
  BY <1>3, <1>4

(* The cases of the handler, as the table of ids sees them: it is left     *)
(* alone, or a call it did not hold is remembered.                         *)
LEMMA HandleCases ==
    ASSUME NEW o \in Op, Handle(o)
    PROVE  \/ UNCHANGED <<tableVars, handled>>
           \/ /\ Call[o].id # NoId /\ ~OpSeen(Call[o].id)
              /\ Remember(o)
BY DEF Handle, Busy

LEMMA HandleType ==
    ASSUME TypeInv, NEW o \in Op, Fire(o) \/ Retry(o), Handle(o)
    PROVE  TypeInv'
<1>1. /\ fires' \in [Op -> Nat]
      /\ \A q \in Op : fires'[q] \in 0 .. MaxFires[q]
  BY FiresType
<1>2. opIds' \in [Slot -> Nat] /\ opHead' \in Nat /\ handled' \in Seq(Op)
  BY HandleCases, RecordType DEF tableVars, TypeInv, TypeOK
<1>3. \/ Perform(o)
      \/ /\ UNCHANGED procVars
         /\ \E a \in Answers : Answer(o, a)
  BY DEF Handle, Busy, SetDial, Answers
<1>4. /\ place' \in {"idle", "serve", "run", "down"}
      /\ state' \in [Pid -> {"empty", "pending", "running", "ended"}]
      /\ deadline' \in [Pid -> Nat]
      /\ known' \in [Op -> Answers \cup {None}] /\ lost' \in 0 .. MaxLost
  BY <1>3, PerformType, AnswerType DEF procVars, TypeInv, TypeOK
<1> QED
  BY <1>1, <1>2, <1>4 DEF TypeInv, TypeOK

LEMMA TypeInit == Init => TypeInv
BY PlaneAssumption DEF Init, TypeInv, TypeOK, Slot

LEMMA TypeNext == TypeInv /\ [Next]_vars => TypeInv'
<1> SUFFICES ASSUME TypeInv, [Next]_vars PROVE TypeInv'
  OBVIOUS
<1>1. ASSUME NEW o \in Op, ServeFirst(o) \/ ServeRetry(o) PROVE TypeInv'
  BY <1>1, HandleType DEF ServeFirst, ServeRetry
<1>2. CASE Resume
  BY <1>2 DEF Resume, TypeInv, TypeOK, clientVars, tableVars
<1>3. ASSUME NEW p \in Pid, Preempt(p) \/ End(p) PROVE TypeInv'
  BY <1>3 DEF Preempt, End, TypeInv, TypeOK, clientVars, tableVars
<1>4. CASE UNCHANGED vars
  BY <1>4 DEF vars, TypeInv, TypeOK
<1> QED
  BY <1>1, <1>2, <1>3, <1>4 DEF Next

(* The clients' counters, the processes and the table of ids keep their    *)
(* types, whatever the clients fire, lose and retry.                       *)
THEOREM PlaneTypes == Spec => []TypeOK
<1>1. TypeInv => TypeOK
  BY DEF TypeInv
<1> QED
  BY <1>1, TypeInit, TypeNext, PTL DEF Spec

-----------------------------------------------------------------------------
(* The table of ids.                                                       *)

(* The hash the table keeps of the i-th call in a log of calls.            *)
Hashed(log, i) == Fnv1a(Call[log[i]].id)

(* Where the last OP_SLOTS ids remembered lie, and that there is nothing   *)
(* else in the table.                                                      *)
TableInv ==
    /\ opHead = Len(handled)
    /\ \A i \in 1 .. Len(handled) :
          Len(handled) < i + OpSlots => opIds[(i - 1) % OpSlots] = Hashed(handled, i)
    /\ \A k \in Slot :
          opIds[k] = 0 \/ \E i \in 1 .. Len(handled) : opIds[k] = Hashed(handled, i)

ReplayInv == TypeInv /\ TableInv /\ ReplayWindow

(* Within a window of R indices no two share a slot.                       *)
LEMMA WindowSlots ==
    ASSUME NEW R \in Nat, R > 0,
           NEW a \in Nat, NEW b \in Nat, a < b, b < a + R
    PROVE  a % R # b % R
<1> SUFFICES ASSUME a % R = b % R PROVE FALSE
  OBVIOUS
<1> DEFINE q == b \div R - a \div R
<1>1. a \div R \in Int /\ b \div R \in Int
  OBVIOUS
<1>2. a = R * (a \div R) + (a % R) /\ b = R * (b \div R) + (b % R)
  OBVIOUS
<1>3. b - a = R * (b \div R) - R * (a \div R)
  <2>1. a % R \in Int
    OBVIOUS
  <2> QED BY <1>2, <2>1
<1>4. q \in Int /\ b - a = R * q
  BY <1>1, <1>3
<1> HIDE DEF q
<1>5. CASE q <= 0
  BY <1>4, <1>5
<1>6. CASE q >= 1
  <2>1. R * q >= R
    BY <1>4, <1>6
  <2> QED BY <1>4, <2>1
<1> QED
  BY <1>4, <1>5, <1>6

(* Remembering a call appends it to the history and stores its hash.       *)
LEMMA RememberEffect ==
    ASSUME TypeInv, TableInv, NEW o \in Op, Remember(o)
    PROVE  /\ Len(handled') = Len(handled) + 1 /\ Len(handled) \in Nat
           /\ Hashed(handled', Len(handled) + 1) = Fnv1a(Call[o].id)
           /\ \A i \in 1 .. Len(handled) : Hashed(handled', i) = Hashed(handled, i)
           /\ Len(handled) % OpSlots \in Slot
           /\ opIds'[Len(handled) % OpSlots] = Fnv1a(Call[o].id)
           /\ \A k \in Slot :
                 k # Len(handled) % OpSlots => opIds'[k] = opIds[k]
           /\ opHead' = opHead + 1
<1>1. /\ handled \in Seq(Op) /\ opIds \in [Slot -> Nat]
      /\ opHead = Len(handled) /\ Len(handled) \in Nat
  BY DEF TypeInv, TypeOK, TableInv
<1>2. /\ Len(handled') = Len(handled) + 1
      /\ handled'[Len(handled) + 1] = o
      /\ \A i \in 1 .. Len(handled) : handled'[i] = handled[i]
  BY <1>1 DEF Remember
<1>3. Len(handled) % OpSlots \in Slot
  BY <1>1, PlaneAssumption DEF Slot
<1>4. opIds' = [opIds EXCEPT ![Len(handled) % OpSlots] = Fnv1a(Call[o].id)]
  BY <1>1 DEF Remember, OpRecord
<1>5. opHead' = opHead + 1
  BY DEF Remember, OpRecord
<1> QED
  BY <1>1, <1>2, <1>3, <1>4, <1>5 DEF Hashed

(* A call that is not in the table differs from the last OP_SLOTS ones.    *)
LEMMA RememberReplay ==
    ASSUME ReplayInv, NEW o \in Op, ~OpSeen(Call[o].id), Remember(o)
    PROVE  TableInv' /\ ReplayWindow'
<1> DEFINE n == Len(handled)
           h == Fnv1a(Call[o].id)
<1>0. OpSlots \in Nat /\ OpSlots > 0
  BY PlaneAssumption
<1>1. /\ Len(handled') = n + 1 /\ n \in Nat
      /\ Hashed(handled', n + 1) = h
      /\ \A i \in 1 .. n : Hashed(handled', i) = Hashed(handled, i)
      /\ n % OpSlots \in Slot
      /\ opIds'[n % OpSlots] = h
      /\ \A k \in Slot : k # n % OpSlots => opIds'[k] = opIds[k]
      /\ opHead' = opHead + 1
  BY RememberEffect DEF ReplayInv
<1>2. opHead' = Len(handled')
  BY <1>1 DEF ReplayInv, TableInv
<1>3. ASSUME NEW i \in 1 .. Len(handled'), Len(handled') < i + OpSlots
      PROVE  opIds'[(i - 1) % OpSlots] = Hashed(handled', i)
  <2>1. CASE i = n + 1
    BY <2>1, <1>1
  <2>2. CASE i # n + 1
    <3>1. i \in 1 .. n /\ n < i + OpSlots
      BY <1>0, <1>1, <1>3, <2>2
    <3>2. i - 1 \in Nat /\ i - 1 < n /\ n < (i - 1) + OpSlots
      BY <1>0, <1>1, <1>3, <3>1
    <3>3. (i - 1) % OpSlots # n % OpSlots
      BY <1>0, <1>1, <3>2, WindowSlots
    <3>4. (i - 1) % OpSlots \in Slot
      BY <1>0, <3>2 DEF Slot
    <3>5. opIds[(i - 1) % OpSlots] = Hashed(handled, i)
      BY <3>1 DEF ReplayInv, TableInv
    <3> QED BY <1>1, <3>1, <3>3, <3>4, <3>5
  <2> QED BY <2>1, <2>2
<1>4. ASSUME NEW k \in Slot, opIds'[k] # 0
      PROVE  \E i \in 1 .. Len(handled') : opIds'[k] = Hashed(handled', i)
  <2>1. CASE k = n % OpSlots
    <3>1. n + 1 \in 1 .. Len(handled')
      BY <1>1
    <3> QED BY <2>1, <1>1, <3>1
  <2>2. CASE k # n % OpSlots
    <3>1. PICK i \in 1 .. n : opIds[k] = Hashed(handled, i)
      BY <1>1, <1>4, <2>2 DEF ReplayInv, TableInv
    <3>2. i \in 1 .. Len(handled')
      BY <1>1
    <3> QED BY <1>1, <2>2, <3>1, <3>2
  <2> QED BY <2>1, <2>2
<1>5. TableInv'
  BY <1>2, <1>3, <1>4 DEF TableInv, Slot
<1>6. ASSUME NEW i \in 1 .. Len(handled'), NEW j \in 1 .. Len(handled'),
             i < j, Hashed(handled', i) = Hashed(handled', j)
      PROVE  j - i > OpSlots
  <2>1. i \in 1 .. n
    BY <1>1, <1>6
  <2>2. CASE j = n + 1
    <3> SUFFICES ASSUME n < i + OpSlots PROVE FALSE
      BY <1>0, <1>1, <2>1, <2>2
    <3>1. opIds[(i - 1) % OpSlots] = Hashed(handled, i)
      BY <2>1 DEF ReplayInv, TableInv
    <3>2. (i - 1) % OpSlots \in Slot
      <4>1. i - 1 \in Nat
        BY <2>1
      <4> QED BY <1>0, <4>1 DEF Slot
    <3>3. Hashed(handled, i) = h
      BY <1>1, <1>6, <2>1, <2>2
    <3> QED BY <3>1, <3>2, <3>3 DEF OpSeen
  <2>3. CASE j # n + 1
    <3>1. j \in 1 .. n
      BY <1>1, <2>3
    <3>2. DOMAIN handled = 1 .. n
      BY DEF ReplayInv, TypeInv, TypeOK
    <3>3. Hashed(handled, i) = Hashed(handled, j)
      BY <1>1, <1>6, <2>1, <3>1
    <3> QED BY <1>6, <2>1, <3>1, <3>2, <3>3 DEF ReplayInv, ReplayWindow, Hashed
  <2> QED BY <2>2, <2>3
<1>7. DOMAIN handled' = 1 .. Len(handled')
  BY DEF ReplayInv, TypeInv, TypeOK, Remember
<1>8. ReplayWindow'
  BY <1>6, <1>7 DEF ReplayWindow, Hashed
<1> QED
  BY <1>5, <1>8

LEMMA ReplayInit == Init => ReplayInv
<1> SUFFICES ASSUME Init PROVE ReplayInv
  OBVIOUS
<1>1. handled = <<>> /\ Len(handled) = 0 /\ DOMAIN handled = {}
  BY DEF Init
<1>2. TableInv
  BY <1>1 DEF Init, TableInv
<1>3. ReplayWindow
  BY <1>1 DEF ReplayWindow
<1> QED
  BY <1>2, <1>3, TypeInit DEF ReplayInv

LEMMA ReplayNext == ReplayInv /\ [Next]_vars => ReplayInv'
<1> SUFFICES ASSUME ReplayInv, [Next]_vars PROVE ReplayInv'
  OBVIOUS
<1>1. TypeInv'
  BY TypeNext DEF ReplayInv
<1>2. ASSUME UNCHANGED <<tableVars, handled>>
      PROVE  TableInv' /\ ReplayWindow'
  BY <1>2 DEF ReplayInv, TableInv, ReplayWindow, Hashed, tableVars
<1>3. ASSUME NEW o \in Op, ServeFirst(o) \/ ServeRetry(o)
      PROVE  TableInv' /\ ReplayWindow'
  BY <1>2, <1>3, HandleCases, RememberReplay DEF ServeFirst, ServeRetry
<1>4. ASSUME Resume \/ (\E p \in Pid : Preempt(p) \/ End(p)) \/ UNCHANGED vars
      PROVE  TableInv' /\ ReplayWindow'
  BY <1>2, <1>4 DEF Resume, Preempt, End, vars, tableVars
<1> QED
  BY <1>1, <1>3, <1>4 DEF Next, ReplayInv

(* Within OP_SLOTS remembered calls every replay of a run_suite, crash,    *)
(* kill or set_budget with an id is answered without being executed, for   *)
(* every table size and every hash.  The dials do not consult the table.   *)
THEOREM ReplaysHarmless == Spec => []ReplayWindow
<1>1. ReplayInv => ReplayWindow
  BY DEF ReplayInv
<1> QED
  BY <1>1, ReplayInit, ReplayNext, PTL DEF Spec

(* A call is told "duplicate" only when a call whose id has the same hash  *)
(* was acted on: an empty slot of OP_IDS, which holds 0, is never taken    *)
(* for an id, because fnv1a sets the lowest bit.                           *)
DuplicateOfHandled ==
    \A o \in Op :
        Call[o].id # NoId /\ OpSeen(Call[o].id)
            => \E i \in DOMAIN handled :
                  Fnv1a(Call[handled[i]].id) = Fnv1a(Call[o].id)

THEOREM NoFalseDuplicate == Spec => []DuplicateOfHandled
<1>1. ReplayInv => DuplicateOfHandled
  <2> SUFFICES ASSUME ReplayInv, NEW o \in Op,
                      Call[o].id # NoId, OpSeen(Call[o].id)
               PROVE  \E i \in DOMAIN handled :
                         Fnv1a(Call[handled[i]].id) = Fnv1a(Call[o].id)
    BY DEF DuplicateOfHandled
  <2>1. PICK k \in Slot : opIds[k] = Fnv1a(Call[o].id)
    BY DEF OpSeen
  <2>2. opIds[k] # 0
    BY <2>1, HashType
  <2>3. PICK i \in 1 .. Len(handled) : opIds[k] = Hashed(handled, i)
    BY <2>2 DEF ReplayInv, TableInv
  <2>4. i \in DOMAIN handled
    BY DEF ReplayInv, TypeInv, TypeOK
  <2> QED BY <2>1, <2>3, <2>4 DEF Hashed
<1> QED
  BY <1>1, ReplayInit, ReplayNext, PTL DEF Spec

=============================================================================
